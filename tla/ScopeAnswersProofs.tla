------------------------- MODULE ScopeAnswersProofs -------------------------
(***************************************************************************)
(* What the responses in flight are answers to, and what follows for the   *)
(* cursor, the digest comparison and the rows of a scope.                  *)
(*                                                                         *)
(* A response is judged by the log as it was when the request was made, so *)
(* the server is described as of its first n changes, and each response by *)
(* the cursor a and the log end n it answers to.  Two invariants follow.   *)
(*                                                                         *)
(* CalmInv, while nothing is damaged, for any number of responses in       *)
(* flight that are not reordered: the device's rows are right as of the    *)
(* log end of every response in flight, for each row whose last change is  *)
(* at or below the cursor.  A response from an earlier cursor repeats a    *)
(* change the device has and is refused; one from the present cursor       *)
(* leaves the rows right up to its own end, and the whole of them on the   *)
(* last page, where the digests are compared.                              *)
(*                                                                         *)
(* SoundInv, over damage and rebuilds, for one response at a time and      *)
(* honest storage: a trusted scope has no gap.  A response to a request    *)
(* made before a rebuild may be applied over the empty scope, but only     *)
(* equal digests end the taint, and equal digests are equal rows.          *)
(***************************************************************************)
EXTENDS ScopeSyncProofs

\* The server's digest is over the rows it still has.
DigestOfLive == "upsert" \in DigestOps /\ "delete" \notin DigestOps

-----------------------------------------------------------------------------
(* The server as of the first n changes of its log l.                      *)

LastAt(l, n, x)  == Max({s \in 1..n : l[s].row = x} \cup {0})
StateAt(l, n, x) ==
  IF LastAt(l, n, x) = 0 \/ l[LastAt(l, n, x)].op = "delete" THEN 0 ELSE LastAt(l, n, x)
RowsAt(l, n)     == [x \in Rows |-> StateAt(l, n, x)]

\* Rows r are right for every row whose last change, as of n, is at or below c.
HoldsAt(l, r, n, c) ==
  \A x \in Rows : LastAt(l, n, x) <= c => r[x] = StateAt(l, n, x)

\* What is to be sent after cursor a.
PageAt(l, kind, a, n) ==
  {s \in (a + 1)..n : \/ kind = "pull"
                      \/ /\ s = LastAt(l, n, l[s].row)
                         /\ l[s].op # "delete" \/ a > 0}

\* m answers a request from cursor a, made when the log had n changes.
AnswersTo(l, m, a, n) ==
  /\ a \in Nat /\ n \in Nat /\ a <= n
  /\ m.seqs \subseteq PageAt(l, m.kind, a, n)
  /\ \A s \in m.seqs, t \in PageAt(l, m.kind, a, n) : t < s => t \in m.seqs
  /\ m.seqs = {} => PageAt(l, m.kind, a, n) = {}
  /\ m.more = (m.seqs # PageAt(l, m.kind, a, n))
  /\ m.next = IF m.seqs = {} THEN a ELSE Max(m.seqs)
  /\ m.digest = FromRows(RowsAt(l, n))

-----------------------------------------------------------------------------
(* The log.                                                                *)

LEMMA LastAtIsLast ==
  ASSUME NEW l, NEW n \in Nat, NEW x
  PROVE  /\ LastAt(l, n, x) \in 0..n
         /\ LastAt(l, n, x) # 0 => LastAt(l, n, x) \in 1..n /\ l[LastAt(l, n, x)].row = x
         /\ \A s \in 1..n : l[s].row = x => s <= LastAt(l, n, x)
<1> DEFINE S == {s \in 1..n : l[s].row = x} \cup {0}
<1>1. S \subseteq 0..n /\ S # {}
  OBVIOUS
<1> DEFINE g == Max(S)
<1>2. g \in S /\ \A y \in S : y <= g
  BY <1>1, MaxIsGreatest
<1>3. LastAt(l, n, x) = g
  BY DEF LastAt
<1> HIDE DEF g
<1> QED
  BY <1>2, <1>3

LEMMA LastAtEnd == \A x : LastSeq(x) = LastAt(log, LogEnd, x)
  BY DEF LastSeq, LastAt

\* A change is the last of its row.
LEMMA LastAtIs ==
  ASSUME NEW l, NEW n \in Nat, NEW x, NEW q \in 0..n,
         q # 0 => l[q].row = x, \A s \in 1..n : l[s].row = x => s <= q
  PROVE  LastAt(l, n, x) = q
<1> DEFINE g == LastAt(l, n, x)
<1>1. /\ g \in 0..n
      /\ g # 0 => g \in 1..n /\ l[g].row = x
      /\ \A s \in 1..n : l[s].row = x => s <= g
  BY LastAtIsLast
<1> HIDE DEF g
<1>0. g \in Nat /\ q \in Nat /\ (q # 0 => q \in 1..n)
  BY <1>1
<1>2. g <= q
  <2>1. CASE g = 0
    BY <1>0, <2>1
  <2>2. CASE g # 0
    BY <1>1, <2>2
  <2> QED
    BY <2>1, <2>2
<1>3. q <= g
  <2>1. CASE q = 0
    BY <1>0, <2>1
  <2>2. CASE q # 0
    BY <1>0, <1>1, <2>2
  <2> QED
    BY <2>1, <2>2
<1>4. g = q
  BY <1>0, <1>2, <1>3
<1> QED
  BY <1>4 DEF g

\* Rows that are right as of n are right as of any later time: what changed since is
\* above n.
LEMMA HoldsLater ==
  ASSUME NEW l, NEW r, NEW n \in Nat, NEW k \in Nat, NEW c \in Nat, n <= k, c <= n,
         HoldsAt(l, r, n, c)
  PROVE  HoldsAt(l, r, k, c)
<1> SUFFICES ASSUME NEW x \in Rows, LastAt(l, k, x) <= c
             PROVE  r[x] = StateAt(l, k, x)
  BY DEF HoldsAt
<1> DEFINE q == LastAt(l, k, x)
<1>1. /\ q \in 0..k
      /\ q # 0 => l[q].row = x
      /\ \A s \in 1..k : l[s].row = x => s <= q
  BY LastAtIsLast
<1>2. q <= c
  OBVIOUS
<1> HIDE DEF q
<1>3. q \in 0..n
  BY <1>1, <1>2
<1>4. \A s \in 1..n : s \in 1..k
  OBVIOUS
<1>5. LastAt(l, n, x) = q
  BY <1>1, <1>3, <1>4, LastAtIs
<1>6. r[x] = StateAt(l, n, x)
  BY <1>2, <1>5 DEF HoldsAt
<1>7. StateAt(l, k, x) = StateAt(l, n, x)
  BY <1>5 DEF StateAt, q
<1> QED
  BY <1>6, <1>7

\* What is said of the first n changes is said of any log that begins with them.
LEMMA SamePast ==
  ASSUME NEW l, NEW k, NEW n \in Nat, \A s \in 1..n : k[s] = l[s]
  PROVE  /\ \A m, a : AnswersTo(l, m, a, n) => AnswersTo(k, m, a, n)
         /\ \A r, c : HoldsAt(l, r, n, c) => HoldsAt(k, r, n, c)
<1>1. ASSUME NEW x PROVE LastAt(k, n, x) = LastAt(l, n, x)
  <2>1. {s \in 1..n : k[s].row = x} = {s \in 1..n : l[s].row = x}
    OBVIOUS
  <2> QED
    BY <2>1 DEF LastAt
<1>2. ASSUME NEW x PROVE StateAt(k, n, x) = StateAt(l, n, x)
  <2>1. LastAt(l, n, x) # 0 => k[LastAt(l, n, x)] = l[LastAt(l, n, x)]
    BY LastAtIsLast
  <2> QED
    BY <1>1, <2>1 DEF StateAt
<1>3. RowsAt(k, n) = RowsAt(l, n)
  BY <1>2 DEF RowsAt
<1>4. ASSUME NEW kind, NEW a \in Nat PROVE PageAt(k, kind, a, n) = PageAt(l, kind, a, n)
  <2>1. \A s \in (a + 1)..n : k[s] = l[s]
    OBVIOUS
  <2> QED
    BY <1>1, <2>1 DEF PageAt
<1>5. ASSUME NEW m, NEW a, AnswersTo(l, m, a, n) PROVE AnswersTo(k, m, a, n)
  <2>1. PageAt(k, m.kind, a, n) = PageAt(l, m.kind, a, n)
    BY <1>4, <1>5 DEF AnswersTo
  <2> QED
    BY <1>3, <1>5, <2>1 DEF AnswersTo
<1>6. ASSUME NEW r, NEW c, HoldsAt(l, r, n, c) PROVE HoldsAt(k, r, n, c)
  BY <1>1, <1>2, <1>6 DEF HoldsAt
<1> QED
  BY <1>5, <1>6
-----------------------------------------------------------------------------
(* The responses in flight, in the order of their requests.                *)

\* Nothing was ever held.
Nothing(r) == \A x \in Rows : r[x] = 0

\* Queue q, of log l, for a device with rows r and cursor c: h says what each response
\* answers.  Later requests saw at least as much of the log, none was made beyond the
\* cursor, and the pages of a bootstrap come first and are copies of one.
InLine(l, q, h, r, c) ==
  /\ h \in [DOMAIN q -> [after : Nat, upTo : Nat]]
  /\ \A i \in DOMAIN q :
       /\ h[i].upTo <= Len(l)
       /\ AnswersTo(l, q[i], h[i].after, h[i].upTo)
       /\ h[i].after <= c /\ c <= h[i].upTo
       /\ HoldsAt(l, r, h[i].upTo, c)
       /\ q[i].kind = "bootstrap" => h[i].after = c \/ \E s \in q[i].seqs : s <= c
  /\ \A i, j \in DOMAIN q : i < j =>
       /\ h[i].upTo <= h[j].upTo
       /\ q[j].kind = "bootstrap" => q[i].kind = "bootstrap" /\ q[i].seqs = q[j].seqs

Trusted == [kind |-> "Healthy", attempts |-> 0]
Clean   == [attempts |-> 0, healed |-> FALSE]

\* As long as nothing is damaged.
Calm ==
  /\ health = Trusted /\ record = Clean /\ ~damaged
  /\ stored.cursor <= LogEnd
  /\ HoldsAt(log, rows, LogEnd, stored.cursor)
  /\ stored.cursor = 0 => Nothing(rows)
  /\ booting => \A i \in DOMAIN net : net[i].kind = "bootstrap"
  /\ \E h : InLine(log, net, h, rows, stored.cursor)

CalmInv == damage = 0 => Calm

-----------------------------------------------------------------------------
(* A response answered from the device's own cursor.                       *)

LEMMA PageBounds ==
  ASSUME NEW l, NEW m, NEW a, NEW n, AnswersTo(l, m, a, n)
  PROVE  /\ \A s \in PageAt(l, m.kind, a, n) : s \in Nat /\ a < s /\ s <= n
         /\ \A s \in m.seqs : s \in PageAt(l, m.kind, a, n)
         /\ m.next \in Nat /\ a <= m.next /\ m.next <= n
         /\ \A s \in m.seqs : s <= m.next
         /\ m.seqs # {} => m.next \in m.seqs
         /\ m.seqs = {} => m.next = a
<1>1. a \in Nat /\ n \in Nat /\ a <= n
  BY DEF AnswersTo
<1>2. \A s \in PageAt(l, m.kind, a, n) : s \in Nat /\ a < s /\ s <= n
  BY <1>1 DEF PageAt
<1>3. \A s \in m.seqs : s \in PageAt(l, m.kind, a, n)
  BY DEF AnswersTo
<1>4. CASE m.seqs = {}
  <2>1. m.next = a
    BY <1>4 DEF AnswersTo
  <2> QED
    BY <1>1, <1>2, <1>3, <1>4, <2>1
<1>5. CASE m.seqs # {}
  <2>1. m.seqs \subseteq 0..n
    BY <1>1, <1>2, <1>3
  <2>2. Max(m.seqs) \in m.seqs /\ \A s \in m.seqs : s <= Max(m.seqs)
    BY <1>1, <1>5, <2>1, MaxIsGreatest
  <2>3. m.next = Max(m.seqs)
    BY <1>5 DEF AnswersTo
  <2>4. m.next \in m.seqs /\ \A s \in m.seqs : s <= m.next
    BY <2>2, <2>3
  <2>5. m.next \in Nat /\ a < m.next /\ m.next <= n
    BY <1>2, <1>3, <2>4
  <2> QED
    BY <1>1, <1>2, <1>3, <1>5, <2>4, <2>5
<1> QED
  BY <1>4, <1>5

\* A row is right after the transaction if its last change was sent, if it was held
\* rightly and not sent, or if all was sent.
LEMMA AcceptRow ==
  ASSUME TypeOK, KnownSchema, NEW m, NEW a, NEW n, AnswersTo(log, m, a, n), n <= LogEnd,
         m.kind \in {"pull", "bootstrap"},
         HoldsAt(log, rows, n, a), a = 0 => Nothing(rows),
         NEW x \in Rows, LastAt(log, n, x) <= m.next \/ ~m.more
  PROVE  StagedRows(m.seqs)[x] = StateAt(log, n, x)
<1> DEFINE q == LastAt(log, n, x)
           P == PageAt(log, m.kind, a, n)
           B == {s \in m.seqs : log[s].row = x /\ log[s].op # "alien"}
<1>1. a \in Nat /\ n \in Nat /\ a <= n /\ LogEnd \in Nat
  BY SeqBounds DEF AnswersTo
<1>2. /\ q \in 0..n
      /\ q # 0 => q \in 1..n /\ log[q].row = x
      /\ \A s \in 1..n : log[s].row = x => s <= q
  BY <1>1, LastAtIsLast
<1>3. /\ \A s \in P : s \in Nat /\ a < s /\ s <= n
      /\ \A s \in m.seqs : s \in P
      /\ m.next \in Nat /\ a <= m.next /\ m.next <= n
      /\ m.seqs # {} => m.next \in m.seqs
      /\ m.seqs = {} => m.next = a
  BY PageBounds
<1>4. \A s \in m.seqs : log[s].op # "alien"
  <2> SUFFICES ASSUME NEW s \in m.seqs PROVE log[s].op # "alien"
    OBVIOUS
  <2> DEFINE Entry == [row : Rows, op : Ops]
  <2>1. log \in Seq(Entry) /\ s \in 1..Len(log)
    BY <1>1, <1>3 DEF TypeOK, LogEnd
  <2>2. log[s] \in Entry
    <3> HIDE DEF Entry
    <3> QED
      BY <2>1
  <2> QED
    BY <2>2 DEF KnownSchema
<1>5. StagedRows(m.seqs)[x] = IF B = {} THEN rows[x]
                              ELSE IF log[Max(B)].op = "delete" THEN 0 ELSE Max(B)
  BY DEF StagedRows
<1>6. StateAt(log, n, x) = IF q = 0 \/ log[q].op = "delete" THEN 0 ELSE q
  BY DEF StateAt
<1>7. \A s \in B : s \in m.seqs /\ s \in 1..n /\ a < s /\ log[s].row = x /\ s <= q
  BY <1>1, <1>2, <1>3
<1>8. \A s : s \in P <=> /\ s \in (a + 1)..n
                         /\ \/ m.kind = "pull"
                            \/ /\ s = LastAt(log, n, log[s].row)
                               /\ log[s].op # "delete" \/ a > 0
  BY DEF PageAt
<1>9. \A s \in m.seqs, t \in P : t < s => t \in m.seqs
  BY DEF AnswersTo
<1>10. q <= m.next \/ m.seqs = P
  BY DEF AnswersTo
<1>11. q <= a => rows[x] = StateAt(log, n, x)
  BY DEF HoldsAt
<1>12. q \in B => B \subseteq 0..n /\ \A s \in B : s <= q
  BY <1>1, <1>7
<1>13. q \in B => Max(B) = q
  BY <1>1, <1>12, MaxIs
<1>14. a = 0 => rows[x] = 0
  BY DEF Nothing
<1>15. q \in m.seqs => q \in B
  <2> SUFFICES ASSUME q \in m.seqs PROVE q \in B
    OBVIOUS
  <2>1. q \in P
    BY <1>3
  <2>2. a < q /\ q \in Nat
    BY <1>3, <2>1
  <2>3. q # 0
    <3> HIDE DEF q
    <3> QED
      BY <1>1, <2>2
  <2>4. log[q].row = x /\ log[q].op # "alien"
    BY <1>2, <1>4, <2>3
  <2> HIDE DEF q
  <2> QED
    BY <2>4
<1>16. m.kind # "pull" /\ B # {} => q \in B
  <2> SUFFICES ASSUME m.kind # "pull", NEW s \in B PROVE q \in B
    OBVIOUS
  <2>1. s \in P /\ log[s].row = x
    BY <1>3, <1>7
  <2>2. s = q
    BY <1>8, <2>1
  <2> QED
    BY <2>2
<1> HIDE DEF q, P, B
<1>17. CASE q <= a
  <2>1. B = {}
    <3> SUFFICES ASSUME NEW s \in B PROVE FALSE
      OBVIOUS
    <3>1. s \in Nat /\ a < s /\ s <= q /\ q \in Nat
      BY <1>2, <1>7
    <3> QED
      BY <1>1, <1>17, <3>1
  <2> QED
    BY <1>5, <1>11, <1>17, <2>1
<1>18. CASE ~(q <= a)
  <2>1. q \in (a + 1)..n /\ q \in Nat /\ q # 0 /\ log[q].row = x
    BY <1>1, <1>2, <1>18
  <2>2. CASE q \in P
    <3>1. q \in m.seqs
      <4>1. CASE m.seqs = P
        BY <2>2, <4>1
      <4>2. CASE m.seqs = {} /\ q <= m.next
        BY <1>1, <1>3, <1>18, <4>2
      <4>3. CASE m.seqs # {} /\ q <= m.next
        <5>1. m.next \in m.seqs /\ (q < m.next \/ q = m.next)
          BY <1>3, <2>1, <4>3
        <5> QED
          BY <1>9, <2>2, <5>1
      <4> QED
        BY <1>10, <4>1, <4>2, <4>3
    <3>2. q \in B /\ Max(B) = q
      BY <1>13, <1>15, <3>1
    <3>3. StagedRows(m.seqs)[x] = IF log[q].op = "delete" THEN 0 ELSE q
      BY <1>5, <3>2
    <3> QED
      BY <1>6, <2>1, <3>3
  <2>3. CASE q \notin P
    <3>1. m.kind # "pull" /\ ~(log[q].op # "delete" \/ a > 0)
      <4>1. q = LastAt(log, n, log[q].row)
        BY <2>1 DEF q
      <4> QED
        BY <1>8, <2>1, <2>3, <4>1
    <3>2. a = 0 /\ log[q].op = "delete"
      BY <1>1, <3>1
    <3>3. q \notin B
      BY <1>3, <1>7, <2>3
    <3>4. B = {}
      BY <1>16, <3>1, <3>3
    <3> QED
      BY <1>5, <1>6, <1>14, <3>2, <3>4
  <2> QED
    BY <2>2, <2>3
<1> QED
  BY <1>17, <1>18

LEMMA AcceptHolds ==
  ASSUME TypeOK, KnownSchema, NEW m, NEW a, NEW n, AnswersTo(log, m, a, n), n <= LogEnd,
         m.kind \in {"pull", "bootstrap"},
         HoldsAt(log, rows, n, a), a = 0 => Nothing(rows)
  PROVE  /\ HoldsAt(log, StagedRows(m.seqs), n, m.next)
         /\ m.next = 0 => Nothing(StagedRows(m.seqs))
         /\ ~m.more => StagedRows(m.seqs) = RowsAt(log, n)
<1>1. HoldsAt(log, StagedRows(m.seqs), n, m.next)
  BY AcceptRow DEF HoldsAt
<1>2. ASSUME m.next = 0 PROVE Nothing(StagedRows(m.seqs))
  <2>1. /\ a \in Nat /\ m.next \in Nat /\ a <= m.next
        /\ \A s \in m.seqs : s \in Nat /\ a < s /\ s <= m.next
    <3> DEFINE P == PageAt(log, m.kind, a, n)
    <3>1. /\ \A s \in P : s \in Nat /\ a < s /\ s <= n
          /\ \A s \in m.seqs : s \in P
          /\ m.next \in Nat /\ a <= m.next
          /\ \A s \in m.seqs : s <= m.next
      BY PageBounds
    <3>2. a \in Nat
      BY DEF AnswersTo
    <3> HIDE DEF P
    <3> QED
      BY <3>1, <3>2
  <2>2. a = 0 /\ m.seqs = {}
    BY <1>2, <2>1
  <2>3. \A x \in Rows : StagedRows(m.seqs)[x] = rows[x]
    BY <2>2 DEF StagedRows
  <2> QED
    BY <2>2, <2>3 DEF Nothing
<1>3. ASSUME ~m.more PROVE StagedRows(m.seqs) = RowsAt(log, n)
  <2>1. \A x \in Rows : StagedRows(m.seqs)[x] = StateAt(log, n, x)
    BY <1>3, AcceptRow
  <2>2. StagedRows(m.seqs) = [x \in Rows |-> StagedRows(m.seqs)[x]]
    BY DEF StagedRows
  <2> QED
    BY <2>1, <2>2 DEF RowsAt
<1> QED
  BY <1>1, <1>2, <1>3

-----------------------------------------------------------------------------
(* Requests.                                                               *)

LEMMA ServerDigestIs ==
  ASSUME TypeOK, KnownSchema, DigestOfLive
  PROVE  ServerDigest = FromRows(RowsAt(log, LogEnd))
<1>1. ASSUME NEW x \in Rows
      PROVE  (IF LastSeq(x) > 0 /\ log[LastSeq(x)].op \in DigestOps THEN LastSeq(x) ELSE 0)
               = StateAt(log, LogEnd, x)
  <2> DEFINE q == LastSeq(x)
             Entry == [row : Rows, op : Ops]
  <2>1. q \in Nat /\ (q # 0 => q \in 1..LogEnd)
    BY SeqBounds, LastSeqIsLast
  <2>2. StateAt(log, LogEnd, x) = IF q = 0 \/ log[q].op = "delete" THEN 0 ELSE q
    BY LastAtEnd DEF StateAt
  <2>3. log \in Seq(Entry)
    BY DEF TypeOK
  <2>4. q # 0 => log[q] \in Entry
    <3> HIDE DEF Entry
    <3> QED
      BY <2>1, <2>3 DEF LogEnd
  <2>5. q # 0 => log[q].op \in {"upsert", "delete"}
    BY <2>4, ScopeSyncAssumption DEF KnownSchema
  <2> HIDE DEF q
  <2>6. (IF q > 0 /\ log[q].op \in DigestOps THEN q ELSE 0) = StateAt(log, LogEnd, x)
    BY <2>1, <2>2, <2>5 DEF DigestOfLive
  <2> QED
    BY <2>6 DEF q
<1>2. [x \in Rows |-> IF LastSeq(x) > 0 /\ log[LastSeq(x)].op \in DigestOps
                        THEN LastSeq(x) ELSE 0] = RowsAt(log, LogEnd)
  BY <1>1 DEF RowsAt
<1> QED
  BY <1>2 DEF ServerDigest

LEMMA PagesAre ==
  \A a : /\ PullPage(a) = PageAt(log, "pull", a, LogEnd)
         /\ BootstrapPage(a) = PageAt(log, "bootstrap", a, LogEnd)
  BY LastAtEnd DEF PullPage, BootstrapPage, PageAt

\* A request is answered from the cursor it was made with and the log as it stands.
LEMMA AskedIsAnswered ==
  ASSUME TypeOK, KnownSchema, DigestOfLive, NEW kind, NEW a \in 0..LogEnd,
         NEW m \in Answers(kind, a, PageAt(log, kind, a, LogEnd))
  PROVE  AnswersTo(log, m, a, LogEnd) /\ m.kind = kind
<1> DEFINE P == PageAt(log, kind, a, LogEnd)
<1>1. PICK b \in SUBSET P :
        /\ \A s \in b, t \in P : t < s => t \in b
        /\ b = {} => P = {}
        /\ m = [kind |-> kind, seqs |-> b, repeated |-> FALSE, more |-> b # P,
                next |-> IF b = {} THEN a ELSE Max(b), digest |-> ServerDigest]
  BY DEF Answers
<1> HIDE DEF P
<1>2. /\ m.kind = kind /\ m.seqs = b /\ m.more = (b # P) /\ m.digest = ServerDigest
      /\ m.next = IF b = {} THEN a ELSE Max(b)
  BY <1>1
<1>3. PageAt(log, m.kind, a, LogEnd) = P
  BY <1>2 DEF P
<1>4. a \in Nat /\ LogEnd \in Nat /\ a <= LogEnd
  BY SeqBounds
<1>5. m.digest = FromRows(RowsAt(log, LogEnd))
  BY <1>2, ServerDigestIs
<1> QED
  BY <1>1, <1>2, <1>3, <1>4, <1>5 DEF AnswersTo

-----------------------------------------------------------------------------
(* Queues.                                                                 *)

\* The same response, but for a repeated change.
Alike(m, k) ==
  m.kind = k.kind /\ m.seqs = k.seqs /\ m.more = k.more /\ m.next = k.next
    /\ m.digest = k.digest

\* Queue p is q with responses left out, doubled or spoilt, in the same order.
Follows(p, q) ==
  \E f \in [DOMAIN p -> DOMAIN q] :
    /\ \A i \in DOMAIN p : Alike(p[i], q[f[i]])
    /\ \A i, j \in DOMAIN p : i < j => f[i] <= f[j]

LEMMA AlikeAnswers ==
  ASSUME NEW l, NEW m, NEW k, NEW a, NEW n, Alike(m, k), AnswersTo(l, k, a, n)
  PROVE  AnswersTo(l, m, a, n)
  BY DEF Alike, AnswersTo

LEMMA FollowsInLine ==
  ASSUME NEW l, NEW p, NEW q, NEW h, NEW r, NEW c,
         InLine(l, q, h, r, c), Follows(p, q), DOMAIN q \subseteq Nat
  PROVE  \E g : InLine(l, p, g, r, c)
<1>1. PICK f \in [DOMAIN p -> DOMAIN q] :
        /\ \A i \in DOMAIN p : Alike(p[i], q[f[i]])
        /\ \A i, j \in DOMAIN p : i < j => f[i] <= f[j]
  BY DEF Follows
<1> DEFINE g == [i \in DOMAIN p |-> h[f[i]]]
<1>2. \A i \in DOMAIN p : f[i] \in DOMAIN q /\ f[i] \in Nat /\ g[i] = h[f[i]]
  OBVIOUS
<1>3. g \in [DOMAIN p -> [after : Nat, upTo : Nat]]
  BY DEF InLine
<1> HIDE DEF g
<1>4. ASSUME NEW i \in DOMAIN p
      PROVE  /\ g[i].upTo <= Len(l)
             /\ AnswersTo(l, p[i], g[i].after, g[i].upTo)
             /\ g[i].after <= c /\ c <= g[i].upTo
             /\ HoldsAt(l, r, g[i].upTo, c)
             /\ p[i].kind = "bootstrap" => g[i].after = c \/ \E s \in p[i].seqs : s <= c
  <2> DEFINE k == f[i]
  <2>1. k \in DOMAIN q /\ g[i] = h[k] /\ Alike(p[i], q[k])
    BY <1>1, <1>2
  <2>2. /\ h[k].upTo <= Len(l)
        /\ AnswersTo(l, q[k], h[k].after, h[k].upTo)
        /\ h[k].after <= c /\ c <= h[k].upTo
        /\ HoldsAt(l, r, h[k].upTo, c)
        /\ q[k].kind = "bootstrap" => h[k].after = c \/ \E s \in q[k].seqs : s <= c
    BY <2>1 DEF InLine
  <2> HIDE DEF k
  <2>3. AnswersTo(l, p[i], h[k].after, h[k].upTo)
    BY <2>1, <2>2, AlikeAnswers
  <2> QED
    BY <2>1, <2>2, <2>3 DEF Alike
<1>5. ASSUME NEW i \in DOMAIN p, NEW j \in DOMAIN p, i < j
      PROVE  /\ g[i].upTo <= g[j].upTo
             /\ p[j].kind = "bootstrap" =>
                  p[i].kind = "bootstrap" /\ p[i].seqs = p[j].seqs
  <2> DEFINE k == f[i]
             t == f[j]
  <2>1. /\ k \in DOMAIN q /\ t \in DOMAIN q /\ k \in Nat /\ t \in Nat /\ k <= t
        /\ g[i] = h[k] /\ g[j] = h[t] /\ Alike(p[i], q[k]) /\ Alike(p[j], q[t])
        /\ g[j].upTo \in Nat
    BY <1>1, <1>2, <1>3, <1>5
  <2> HIDE DEF k, t
  <2>2. CASE k = t
    BY <2>1, <2>2 DEF Alike
  <2>3. CASE k < t
    <3>1. /\ h[k].upTo <= h[t].upTo
          /\ q[t].kind = "bootstrap" => q[k].kind = "bootstrap" /\ q[k].seqs = q[t].seqs
      BY <2>1, <2>3 DEF InLine
    <3> QED
      BY <2>1, <3>1 DEF Alike
  <2> QED
    BY <2>1, <2>2, <2>3
<1>6. InLine(l, p, g, r, c)
  BY <1>3, <1>4, <1>5 DEF InLine
<1> QED
  BY <1>6

LEMMA FollowsSelf == ASSUME TypeOK PROVE Follows(net, net)
<1> DEFINE f == [i \in DOMAIN net |-> i]
<1>1. /\ f \in [DOMAIN net -> DOMAIN net] /\ DOMAIN net \subseteq Nat
      /\ \A i \in DOMAIN net : Alike(net[i], net[f[i]])
  BY DEF Alike, TypeOK
<1>2. \A i, j \in DOMAIN net : i < j => f[i] <= f[j]
  BY <1>1
<1> HIDE DEF f
<1> QED
  BY <1>1, <1>2 DEF Follows

LEMMA WithoutFollows ==
  ASSUME TypeOK, NEW i \in DOMAIN net
  PROVE  Follows(Without(i), net)
<1> DEFINE w == Without(i)
           f == [n \in DOMAIN w |-> IF n < i THEN n ELSE n + 1]
<1>1. net \in Seq(Message) /\ Len(net) \in Nat /\ i \in 1..Len(net) /\ DOMAIN net = 1..Len(net)
  BY DEF TypeOK, Message
<1>2. /\ w \in Seq(Message) /\ Len(w) = Len(net) - 1
      /\ \A n \in 1..(Len(net) - 1) : w[n] = net[IF n < i THEN n ELSE n + 1]
  BY <1>1, WithoutOne
<1> HIDE DEF w
<1>3. DOMAIN w = 1..(Len(net) - 1)
  BY <1>1, <1>2
<1>4. f \in [DOMAIN w -> DOMAIN net]
  BY <1>1, <1>3
<1>5. \A n \in DOMAIN w : Alike(w[n], net[f[n]])
  BY <1>2, <1>3 DEF Alike
<1>6. \A n, k \in DOMAIN w : n < k => f[n] <= f[k]
  BY <1>1, <1>3
<1> HIDE DEF f
<1>7. Follows(w, net)
  BY <1>4, <1>5, <1>6 DEF Follows
<1> QED
  BY <1>7 DEF w

LEMMA DisturbFollows ==
  ASSUME TypeOK, NEW i \in DOMAIN net, Disturb(i)
  PROVE  Follows(net', net)
<1>1. net \in Seq(Message) /\ Len(net) \in Nat /\ i \in 1..Len(net) /\ DOMAIN net = 1..Len(net)
  BY DEF TypeOK, Message
<1>2. CASE net' = Without(i)
  BY <1>2, WithoutFollows
<1>3. CASE net' = SubSeq(net, 1, i) \o SubSeq(net, i, Len(net))
  <2> DEFINE f == [n \in DOMAIN net' |-> IF n <= i THEN n ELSE n - 1]
  <2>1. /\ net' \in Seq(Message) /\ Len(net') = Len(net) + 1
        /\ \A n \in 1..(Len(net) + 1) : net'[n] = net[IF n <= i THEN n ELSE n - 1]
    BY <1>1, <1>3, WithTwice
  <2>2. DOMAIN net' = 1..(Len(net) + 1)
    BY <1>1, <2>1
  <2>3. f \in [DOMAIN net' -> DOMAIN net]
    BY <1>1, <2>2
  <2>4. \A n \in DOMAIN net' : Alike(net'[n], net[f[n]])
    BY <2>1, <2>2 DEF Alike
  <2>5. \A n, k \in DOMAIN net' : n < k => f[n] <= f[k]
    BY <1>1, <2>2
  <2> HIDE DEF f
  <2> QED
    BY <2>3, <2>4, <2>5 DEF Follows
<1>4. CASE net' = [net EXCEPT ![i].repeated = TRUE]
  <2> DEFINE f == [n \in DOMAIN net' |-> n]
  <2>1. net[i] \in Message /\ DOMAIN net' = DOMAIN net
    BY <1>1, <1>4
  <2>2. net' = [net EXCEPT ![i] = [net[i] EXCEPT !.repeated = TRUE]]
    BY <1>4
  <2>3. Alike([net[i] EXCEPT !.repeated = TRUE], net[i])
    BY <2>1 DEF Alike, Message
  <2>4. \A n \in DOMAIN net' : Alike(net'[n], net[n])
    BY <2>1, <2>2, <2>3 DEF Alike
  <2>5. f \in [DOMAIN net' -> DOMAIN net] /\ \A n \in DOMAIN net' : Alike(net'[n], net[f[n]])
    BY <2>1, <2>4
  <2>6. \A n, k \in DOMAIN net' : n < k => f[n] <= f[k]
    BY <1>1, <2>1
  <2> HIDE DEF f
  <2> QED
    BY <2>5, <2>6 DEF Follows
<1> QED
  BY <1>2, <1>3, <1>4 DEF Disturb

\* A response the engine accepts, in the order of the requests, was asked for from the
\* cursor it has: any other repeats a change at or below the cursor.
LEMMA AcceptedIsCurrent ==
  ASSUME NEW l, NEW q, NEW h, NEW r, NEW c \in Nat, InLine(l, q, h, r, c),
         NEW i \in DOMAIN q, q[i].kind \in {"pull", "bootstrap"}, Ordered(q[i], c)
  PROVE  h[i].after = c
<1> DEFINE m == q[i]
           a == h[i].after
           n == h[i].upTo
           P == PageAt(l, m.kind, a, n)
<1>1. a \in Nat /\ n \in Nat /\ a <= c /\ c <= n /\ AnswersTo(l, m, a, n)
  BY DEF InLine
<1>2. m.kind = "bootstrap" => a = c \/ \E s \in m.seqs : s <= c
  BY DEF InLine
<1>3. \A s \in m.seqs : s > c
  BY DEF Ordered
<1>4. /\ \A s \in P : s \in Nat /\ a < s /\ s <= n
      /\ \A s \in m.seqs : s \in P
  BY <1>1, PageBounds
<1>5. m.kind = "pull" => P = (a + 1)..n
  BY DEF PageAt
<1>6. m.seqs = {} => P = {}
  BY <1>1 DEF AnswersTo
<1>7. \A s \in m.seqs, t \in P : t < s => t \in m.seqs
  BY <1>1 DEF AnswersTo
<1>8. m.kind \in {"pull", "bootstrap"}
  OBVIOUS
<1> SUFFICES a = c
  OBVIOUS
<1> HIDE DEF m, a, n, P
<1> SUFFICES ASSUME a # c PROVE FALSE
  OBVIOUS
<1>9. a < c
  BY <1>1
<1>10. CASE m.kind = "bootstrap"
  <2>1. PICK s \in m.seqs : s <= c
    BY <1>2, <1>10
  <2>2. s \in Nat /\ s > c
    BY <1>3, <1>4
  <2> QED
    BY <2>1, <2>2
<1>11. CASE m.kind = "pull"
  <2>1. a + 1 \in P
    BY <1>1, <1>5, <1>9, <1>11
  <2>2. PICK s \in m.seqs : TRUE
    BY <1>6, <2>1
  <2>3. s \in Nat /\ a < s /\ s > c
    BY <1>3, <1>4
  <2>4. a + 1 < s
    BY <1>1, <1>9, <2>3
  <2>5. a + 1 \in m.seqs
    BY <1>7, <2>1, <2>4
  <2>6. a + 1 > c
    BY <1>3, <2>5
  <2> QED
    BY <1>1, <1>9, <2>6
<1> QED
  BY <1>8, <1>10, <1>11

\* When the first response is applied, the queue is in line with what it leaves.
LEMMA AppliedInLine ==
  ASSUME NEW l, NEW q, NEW h, NEW r, NEW c \in Nat, InLine(l, q, h, r, c),
         1 \in DOMAIN q, DOMAIN q \subseteq Nat \ {0}, h[1].after = c,
         NEW R, HoldsAt(l, R, h[1].upTo, q[1].next)
  PROVE  InLine(l, q, h, R, q[1].next)
<1> DEFINE m == q[1]
           n == h[1].upTo
<1>1. AnswersTo(l, m, c, n) /\ n \in Nat /\ n <= Len(l)
  BY DEF InLine
<1>2. /\ m.next \in Nat /\ c <= m.next /\ m.next <= n
      /\ m.seqs # {} => m.next \in m.seqs
      /\ m.seqs = {} => m.next = c
  BY <1>1, PageBounds
<1>3. h \in [DOMAIN q -> [after : Nat, upTo : Nat]]
  BY DEF InLine
<1>4. HoldsAt(l, R, n, m.next)
  OBVIOUS
<1> HIDE DEF m, n
<1>5. ASSUME NEW j \in DOMAIN q
      PROVE  /\ h[j].upTo <= Len(l)
             /\ AnswersTo(l, q[j], h[j].after, h[j].upTo)
             /\ h[j].after <= m.next /\ m.next <= h[j].upTo
             /\ HoldsAt(l, R, h[j].upTo, m.next)
             /\ q[j].kind = "bootstrap" =>
                  h[j].after = m.next \/ \E s \in q[j].seqs : s <= m.next
  <2>1. /\ h[j].upTo <= Len(l) /\ h[j].upTo \in Nat /\ h[j].after \in Nat
        /\ AnswersTo(l, q[j], h[j].after, h[j].upTo)
        /\ h[j].after <= c
        /\ q[j].kind = "bootstrap" => h[j].after = c \/ \E s \in q[j].seqs : s <= c
    BY <1>3 DEF InLine
  <2>2. n <= h[j].upTo /\ (q[j].kind = "bootstrap" => m.seqs = q[j].seqs)
    <3>1. CASE j = 1
      BY <1>1, <3>1 DEF m, n
    <3>2. CASE j # 1
      <4>1. 1 < j
        BY <3>2
      <4> QED
        BY <4>1 DEF InLine, m, n
    <3> QED
      BY <3>1, <3>2
  <2>3. h[j].after <= m.next /\ m.next <= h[j].upTo
    BY <1>1, <1>2, <2>1, <2>2
  <2>4. HoldsAt(l, R, h[j].upTo, m.next)
    BY <1>1, <1>2, <1>4, <2>1, <2>2, HoldsLater
  <2>5. ASSUME q[j].kind = "bootstrap"
        PROVE  h[j].after = m.next \/ \E s \in q[j].seqs : s <= m.next
    <3>1. CASE m.seqs = {}
      BY <1>2, <2>1, <2>2, <2>5, <3>1
    <3>2. CASE m.seqs # {}
      <4>1. m.next \in q[j].seqs /\ m.next <= m.next
        BY <1>2, <2>2, <2>5, <3>2
      <4> QED
        BY <4>1
    <3> QED
      BY <3>1, <3>2
  <2> QED
    BY <2>1, <2>3, <2>4, <2>5
<1>6. \A i, j \in DOMAIN q : i < j =>
        /\ h[i].upTo <= h[j].upTo
        /\ q[j].kind = "bootstrap" => q[i].kind = "bootstrap" /\ q[i].seqs = q[j].seqs
  BY DEF InLine
<1>7. InLine(l, q, h, R, m.next)
  BY <1>3, <1>5, <1>6 DEF InLine
<1> QED
  BY <1>7 DEF m

\* A request made now is answered at the end of the line.
LEMMA AskedInLine ==
  ASSUME NEW l, NEW S, NEW q \in Seq(S), NEW h, NEW r, NEW c \in Nat, NEW m \in S,
         InLine(l, q, h, r, c), Len(l) \in Nat, c <= Len(l), HoldsAt(l, r, Len(l), c),
         AnswersTo(l, m, c, Len(l)), m.kind = "pull" \/ q = <<>>
  PROVE  \E g : InLine(l, Append(q, m), g, r, c)
<1> DEFINE p == Append(q, m)
           e == [after |-> c, upTo |-> Len(l)]
           g == [i \in DOMAIN p |-> IF i \in DOMAIN q THEN h[i] ELSE e]
<1>1. /\ Len(q) \in Nat /\ DOMAIN q = 1..Len(q) /\ DOMAIN p = 1..(Len(q) + 1)
      /\ \A i \in DOMAIN q : p[i] = q[i]
      /\ p[Len(q) + 1] = m
  OBVIOUS
<1>2. h \in [DOMAIN q -> [after : Nat, upTo : Nat]] /\ e \in [after : Nat, upTo : Nat]
  BY DEF InLine
<1>3. g \in [DOMAIN p -> [after : Nat, upTo : Nat]]
  BY <1>2
<1>4. \A i \in DOMAIN p : (i \in DOMAIN q /\ g[i] = h[i]) \/ (i = Len(q) + 1 /\ g[i] = e)
  BY <1>1
<1>5. e.after = c /\ e.upTo = Len(l)
  OBVIOUS
<1>6. Len(q) # 0 => m.kind = "pull"
  OBVIOUS
<1> HIDE DEF p, e, g
<1>7. ASSUME NEW i \in DOMAIN p
      PROVE  /\ g[i].upTo <= Len(l)
             /\ AnswersTo(l, p[i], g[i].after, g[i].upTo)
             /\ g[i].after <= c /\ c <= g[i].upTo
             /\ HoldsAt(l, r, g[i].upTo, c)
             /\ p[i].kind = "bootstrap" => g[i].after = c \/ \E s \in p[i].seqs : s <= c
  <2>1. CASE i \in DOMAIN q /\ g[i] = h[i]
    BY <1>1, <2>1 DEF InLine
  <2>2. CASE i = Len(q) + 1 /\ g[i] = e
    BY <1>1, <1>5, <2>2
  <2> QED
    BY <1>4, <2>1, <2>2
<1>8. ASSUME NEW i \in DOMAIN p, NEW j \in DOMAIN p, i < j
      PROVE  /\ g[i].upTo <= g[j].upTo
             /\ p[j].kind = "bootstrap" =>
                  p[i].kind = "bootstrap" /\ p[i].seqs = p[j].seqs
  <2>1. i \in DOMAIN q /\ g[i] = h[i] /\ p[i] = q[i] /\ Len(q) # 0
    BY <1>1, <1>4, <1>8
  <2>2. CASE j \in DOMAIN q /\ g[j] = h[j]
    BY <1>1, <1>8, <2>1, <2>2 DEF InLine
  <2>3. CASE j = Len(q) + 1 /\ g[j] = e
    <3>1. h[i].upTo <= Len(l)
      BY <2>1 DEF InLine
    <3>2. p[j].kind # "bootstrap"
      BY <1>1, <1>6, <2>1, <2>3
    <3> QED
      BY <1>5, <2>1, <2>3, <3>1, <3>2
  <2> QED
    BY <1>4, <2>2, <2>3
<1>9. InLine(l, p, g, r, c)
  BY <1>3, <1>7, <1>8 DEF InLine
<1> QED
  BY <1>9 DEF p

\* The line stands when the log grows.
LEMMA WrittenInLine ==
  ASSUME NEW l, NEW k, NEW q, NEW h, NEW r, NEW c, InLine(l, q, h, r, c),
         Len(l) \in Nat, Len(k) \in Nat, Len(l) <= Len(k), \A s \in 1..Len(l) : k[s] = l[s]
  PROVE  InLine(k, q, h, r, c)
<1>1. ASSUME NEW i \in DOMAIN q
      PROVE  /\ h[i].upTo <= Len(k)
             /\ AnswersTo(k, q[i], h[i].after, h[i].upTo)
             /\ HoldsAt(k, r, h[i].upTo, c)
  <2> DEFINE n == h[i].upTo
  <2>1. n \in Nat /\ n <= Len(l) /\ AnswersTo(l, q[i], h[i].after, n) /\ HoldsAt(l, r, n, c)
    BY DEF InLine
  <2> HIDE DEF n
  <2>2. n <= Len(k) /\ \A s \in 1..n : k[s] = l[s]
    BY <2>1
  <2>3. AnswersTo(k, q[i], h[i].after, n) /\ HoldsAt(k, r, n, c)
    BY <2>1, <2>2, SamePast
  <2> QED
    BY <2>2, <2>3 DEF n
<1> QED
  BY <1>1 DEF InLine

-----------------------------------------------------------------------------
(* Nothing is damaged.                                                     *)

\* Calm, of the next state.
LEMMA CalmNext ==
  ASSUME health' = Trusted, record' = Clean, ~damaged',
         stored'.cursor <= Len(log'),
         HoldsAt(log', rows', Len(log'), stored'.cursor),
         stored'.cursor = 0 => Nothing(rows'),
         booting' => \A i \in DOMAIN net' : net'[i].kind = "bootstrap",
         \E h : InLine(log', net', h, rows', stored'.cursor)
  PROVE  Calm'
  BY DEF Calm, LogEnd, Trusted, Clean

\* The log, the rows and the cursor are as they were, and the queue follows the old one.
LEMMA CalmQueue ==
  ASSUME TypeOK, Calm, health' = Trusted, UNCHANGED <<log, rows, stored, record, damaged>>,
         booting' => booting, Follows(net', net)
  PROVE  Calm'
<1>1. DOMAIN net \subseteq Nat
  BY DEF TypeOK
<1>2. \E h : InLine(log, net', h, rows, stored.cursor)
  BY <1>1, FollowsInLine DEF Calm
<1>3. booting' => \A i \in DOMAIN net' : net'[i].kind = "bootstrap"
  BY DEF Calm, Follows, Alike
<1> QED
  BY <1>2, <1>3, CalmNext DEF Calm, LogEnd

LEMMA CalmWrite ==
  ASSUME TypeOK, Calm, NEW x \in Rows, NEW o \in Ops, Write(x, o)
  PROVE  Calm'
<1>1. Len(log) \in Nat /\ Len(log') = Len(log) + 1 /\ \A s \in 1..Len(log) : log'[s] = log[s]
  BY DEF TypeOK, Write, LogEnd
<1>2. UNCHANGED <<net, health, rows, stored, record, damaged, booting>>
  BY DEF Write, memory, durable
<1>3. stored.cursor \in Nat /\ stored.cursor <= Len(log)
  BY ScopeSyncAssumption DEF Calm, LogEnd, TypeOK
<1>4. HoldsAt(log', rows, Len(log), stored.cursor)
  BY <1>1, SamePast DEF Calm, LogEnd
<1>5. HoldsAt(log', rows, Len(log'), stored.cursor)
  <2>1. Len(log') \in Nat /\ Len(log) <= Len(log')
    BY <1>1
  <2> QED
    BY <1>1, <1>3, <1>4, <2>1, HoldsLater
<1>6. \E h : InLine(log', net, h, rows, stored.cursor)
  <2>1. PICK h : InLine(log, net, h, rows, stored.cursor)
    BY DEF Calm
  <2>2. Len(log') \in Nat /\ Len(log) <= Len(log')
    BY <1>1
  <2>3. InLine(log', net, h, rows, stored.cursor)
    BY <1>1, <2>1, <2>2, WrittenInLine
  <2> QED
    BY <2>3
<1>7. stored.cursor <= Len(log')
  BY <1>1, <1>3
<1>8. /\ health' = Trusted /\ record' = Clean /\ ~damaged'
      /\ stored'.cursor = 0 => Nothing(rows')
      /\ booting' => \A i \in DOMAIN net' : net'[i].kind = "bootstrap"
  BY <1>2 DEF Calm
<1> QED
  BY <1>2, <1>5, <1>6, <1>7, <1>8, CalmNext

LEMMA CalmAsk ==
  ASSUME TInv, Coherent, KnownSchema, DigestOfLive, Calm, NEW kind \in {"pull", "bootstrap"},
         kind = "pull" => ~booting,
         kind = "bootstrap" => booting /\ \A i \in DOMAIN net : net[i].kind = "pull",
         Ask(kind, Refreshed.cursor, PageAt(log, kind, Refreshed.cursor, LogEnd))
  PROVE  Calm'
<1> DEFINE c == stored.cursor
<1>1. Refreshed = stored /\ LogEnd \in Nat /\ c \in 0..LogEnd /\ c \in Nat
  BY RefreshedIsStored, SeqBounds DEF Coherent, Calm, TInv, TypeOK
<1>2. PICK m \in Answers(kind, c, PageAt(log, kind, c, LogEnd)) : net' = Append(net, m)
  BY <1>1 DEF Ask
<1>3. AnswersTo(log, m, c, LogEnd) /\ m.kind = kind
  BY <1>1, <1>2, AskedIsAnswered DEF TInv
<1>4. m \in Message
  <2>1. PageAt(log, kind, c, LogEnd) \in SUBSET (1..LogEnd)
    BY <1>1 DEF PageAt
  <2>2. c \in 0..MaxSeq
    BY DEF TInv, TypeOK
  <2> QED
    BY <1>2, <2>1, <2>2, AnswerType DEF TInv
<1>5. net \in Seq(Message) /\ UNCHANGED <<log, health, rows, stored, record, damaged, booting>>
  BY TInvParts DEF NetOK, Ask, durable
<1>6. kind = "bootstrap" => net = <<>>
  <2> SUFFICES ASSUME kind = "bootstrap" PROVE net = <<>>
    OBVIOUS
  <2>1. \A i \in DOMAIN net : net[i].kind = "bootstrap" /\ net[i].kind = "pull"
    BY DEF Calm
  <2>2. DOMAIN net = {}
    BY <2>1
  <2> QED
    BY <1>5, <2>2
<1>7. HoldsAt(log, rows, Len(log), c) /\ c <= Len(log) /\ Len(log) \in Nat
  BY <1>1 DEF Calm, LogEnd
<1>8. \E h : InLine(log, net', h, rows, c)
  <2>1. PICK h : InLine(log, net, h, rows, c)
    BY DEF Calm
  <2>2. AnswersTo(log, m, c, Len(log)) /\ (m.kind = "pull" \/ net = <<>>)
    BY <1>3, <1>6 DEF LogEnd
  <2> QED
    BY <1>1, <1>2, <1>4, <1>5, <1>7, <2>1, <2>2, AskedInLine
<1>9. booting' => \A i \in DOMAIN net' : net'[i].kind = "bootstrap"
  <2> SUFFICES ASSUME booting PROVE \A i \in DOMAIN net' : net'[i].kind = "bootstrap"
    BY <1>5
  <2>0. kind = "bootstrap" /\ net = <<>>
    BY <1>6
  <2>1. kind = "bootstrap" /\ net' = <<m>>
    BY <1>2, <2>0
  <2>2. DOMAIN net' = {1} /\ net'[1] = m
    BY <2>1
  <2> QED
    BY <1>3, <2>1, <2>2
<1>10. /\ health' = Trusted /\ record' = Clean /\ ~damaged'
       /\ stored'.cursor = 0 => Nothing(rows')
  BY <1>5 DEF Calm
<1> QED
  BY <1>5, <1>7, <1>8, <1>9, <1>10, CalmNext

\* Responses come in the order of their requests.
InOrder == ~Reorder

LEMMA CalmAccept ==
  ASSUME TInv, Coherent, KnownSchema, Calm, 1 \in DOMAIN net, NEW v, Accept(net[1], v),
         net' = Without(1), UNCHANGED log
  PROVE  Calm' /\ stored'.cursor >= stored.cursor
<1> DEFINE m   == net[1]
           c   == stored.cursor
           R   == StagedRows(m.seqs)
           new == [cursor |-> m.next, digest |-> StagedDigest(stored.digest, m.seqs)]
           diverged == Compares(m) /\ new.digest # m.digest
           counts   == Counts(diverged, m.kind = "bootstrap")
           heals    == Compares(m) /\ ~diverged /\ NeedsRebootstrap(health)
<1>1. Refreshed = stored /\ LogEnd \in Nat /\ c \in Nat /\ c <= LogEnd
  BY RefreshedIsStored, SeqBounds DEF Coherent, Calm, TInv, TypeOK
<1>2. m \in Message /\ m.seqs \in SUBSET (1..LogEnd) /\ DOMAIN net \subseteq Nat \ {0}
  BY TInvParts DEF NetOK, NetIsLogged
<1>3. m.kind \in {"pull", "bootstrap"}
  <2> HIDE DEF m
  <2> QED
    BY <1>2 DEF Message
<1>4. PICK h : InLine(log, net, h, rows, c)
  BY DEF Calm
<1>5. Ordered(m, c)
  BY <1>1 DEF Accept
<1>6. h[1].after = c
  BY <1>1, <1>3, <1>4, <1>5, AcceptedIsCurrent
<1> DEFINE n == h[1].upTo
<1>7. AnswersTo(log, m, c, n) /\ n \in Nat /\ n <= LogEnd /\ HoldsAt(log, rows, n, c)
  BY <1>4, <1>6 DEF InLine, LogEnd
<1>8. c = 0 => Nothing(rows)
  BY DEF Calm
<1> HIDE DEF n
<1>9. /\ HoldsAt(log, R, n, m.next)
      /\ m.next = 0 => Nothing(R)
      /\ ~m.more => R = RowsAt(log, n)
  BY <1>3, <1>7, <1>8, AcceptHolds DEF TInv
<1>10. m.next \in Nat /\ c <= m.next /\ m.next <= n
  BY <1>7, PageBounds
<1>11. ~diverged
  <2>1. StagedDigest(FromRows(rows), m.seqs) = FromRows(R)
    BY <1>2, StagedDescribes DEF TInv
  <2>2. stored.digest = FromRows(rows)
    BY DEF Coherent, DigestDescribesRows, Calm
  <2>3. ~m.more => new.digest = FromRows(RowsAt(log, n))
    BY <1>9, <2>1, <2>2
  <2>4. m.digest = FromRows(RowsAt(log, n))
    BY <1>7 DEF AnswersTo
  <2> QED
    BY <2>3, <2>4 DEF Compares
<1>12. /\ IF Landed(v) THEN /\ stored' = new
                            /\ rows' = R
                            /\ record' = Recorded(counts, heals)
          ELSE stored' = stored /\ rows' = rows /\ record' = record
       /\ IF ToldOk(v) THEN /\ health' = IF counts THEN Taint(health.attempts + 1)
                                 ELSE IF heals
                                   THEN [kind |-> "Healed", attempts |-> health.attempts]
                                 ELSE health
                            /\ booting' = (booting /\ ~(m.kind = "bootstrap" /\ ~m.more))
          ELSE health' = health /\ booting' = booting
       /\ damaged' = damaged
  BY <1>1 DEF Accept, durable
<1>13. ~counts /\ ~heals
  BY <1>11 DEF Counts, NeedsRebootstrap, Calm, Trusted
<1> HIDE DEF counts, heals, diverged
<1>14. health' = Trusted /\ record' = Clean /\ ~damaged' /\ (booting' => booting)
  BY <1>12, <1>13 DEF Calm, Recorded
<1>15. Follows(net', net) /\ 1 \in DOMAIN net
  BY WithoutFollows DEF TInv
<1>16. CASE Landed(v)
  <2>1. stored'.cursor = m.next /\ rows' = R
    BY <1>12, <1>16
  <2>2. InLine(log, net, h, R, m.next)
    BY <1>1, <1>2, <1>4, <1>6, <1>9, AppliedInLine DEF n
  <2>3. DOMAIN net \subseteq Nat
    BY <1>2
  <2>4. \E g : InLine(log, net', g, R, m.next)
    BY <1>15, <2>2, <2>3, FollowsInLine
  <2>5. HoldsAt(log, R, LogEnd, m.next)
    BY <1>1, <1>7, <1>9, <1>10, HoldsLater
  <2>6. m.next <= LogEnd
    BY <1>1, <1>7, <1>10
  <2>7. booting' => \A i \in DOMAIN net' : net'[i].kind = "bootstrap"
    BY <1>14, <1>15 DEF Calm, Follows, Alike
  <2> HIDE DEF m, R, c
  <2>8. Calm'
    BY <1>9, <1>14, <2>1, <2>4, <2>5, <2>6, <2>7, CalmNext DEF LogEnd
  <2> QED
    BY <1>1, <1>10, <2>1, <2>8 DEF c
<1>17. CASE ~Landed(v)
  <2>1. UNCHANGED <<log, rows, stored, record, damaged>>
    BY <1>12, <1>17
  <2>2. Calm'
    BY <1>14, <1>15, <2>1, CalmQueue DEF TInv
  <2> QED
    BY <1>1, <2>1, <2>2
<1> QED
  BY <1>16, <1>17

\* While nothing is damaged the scope stays calm, and its cursor does not move back.
LEMMA CalmStep ==
  ASSUME InOrder, KnownSchema, DigestOfLive, TInv, Coherent, CalmInv, [Next]_vars
  PROVE  CalmInv' /\ (damage = 0 => stored'.cursor >= stored.cursor)
<1>0. damage \in Nat /\ stored.cursor \in Nat
  BY ScopeSyncAssumption DEF TInv, TypeOK
<1>1. CASE \E x \in Rows : Damage(x)
  <2>1. damage' # 0 /\ stored' = stored
    BY <1>0, <1>1 DEF Damage
  <2> QED
    BY <1>0, <2>1 DEF CalmInv
<1>2. CASE damage # 0 /\ ~(\E x \in Rows : Damage(x))
  <2>1. damage' = damage
    BY <1>2
    DEF Next, vars, Write, PullStep, BootstrapStep, Ask, Deliver, Disturb, BeginRebootstrap,
        ClearScopeHealth, Restart
  <2> QED
    BY <1>2, <2>1 DEF CalmInv
<1>3. CASE damage = 0 /\ ~(\E x \in Rows : Damage(x))
  <2>0. Calm
    BY <1>3 DEF CalmInv
  <2>a. TypeOK /\ stored.cursor >= stored.cursor
    BY <1>0 DEF TInv
  <2> SUFFICES Calm' /\ stored'.cursor >= stored.cursor
    BY DEF CalmInv
  <2>1. ASSUME NEW x \in Rows, NEW o \in Ops, Write(x, o)
        PROVE  Calm' /\ stored'.cursor >= stored.cursor
    <3>1. Calm'
      BY <2>0, <2>1, <2>a, CalmWrite
    <3> QED
      BY <2>1, <2>a, <3>1 DEF Write, durable
  <2>2. CASE PullStep
    <3>1. Calm'
      <4>1. /\ ~booting
            /\ Ask("pull", Refreshed.cursor, PageAt(log, "pull", Refreshed.cursor, LogEnd))
        BY <2>2, PagesAre DEF PullStep
      <4> QED
        BY <2>0, <4>1, CalmAsk
    <3> QED
      BY <2>2, <2>a, <3>1 DEF PullStep, Ask, durable
  <2>3. CASE BootstrapStep
    <3>1. Calm'
      <4>1. /\ booting /\ \A i \in DOMAIN net : net[i].kind = "pull"
            /\ Ask("bootstrap", Refreshed.cursor,
                   PageAt(log, "bootstrap", Refreshed.cursor, LogEnd))
        BY <2>3, PagesAre DEF BootstrapStep
      <4> QED
        BY <2>0, <4>1, CalmAsk
    <3> QED
      BY <2>3, <2>a, <3>1 DEF BootstrapStep, Ask, durable
  <2>4. ASSUME NEW i \in Due, NEW v \in StorageMay, Deliver(i, v)
        PROVE  Calm' /\ stored'.cursor >= stored.cursor
    <3>1. i = 1 /\ 1 \in DOMAIN net /\ net' = Without(1) /\ UNCHANGED log
      BY <2>4 DEF Due, InOrder, Deliver
    <3>2. CASE Refuse(net[1])
      <4>1. /\ UNCHANGED <<log, rows, stored, record, damaged, health, booting>>
            /\ Follows(net', net)
        BY <2>a, <3>1, <3>2, WithoutFollows DEF Refuse, durable
      <4>2. health' = Trusted
        BY <2>0, <4>1 DEF Calm
      <4>3. Calm'
        BY <2>0, <2>a, <4>1, <4>2, CalmQueue
      <4> QED
        BY <2>a, <4>1, <4>3
    <3>3. CASE Accept(net[1], v)
      BY <2>0, <3>1, <3>3, CalmAccept
    <3> QED
      BY <2>4, <3>1, <3>2, <3>3 DEF Deliver
  <2>5. ASSUME NEW i \in DOMAIN net, Disturb(i)
        PROVE  Calm' /\ stored'.cursor >= stored.cursor
    <3>1. Follows(net', net) /\ UNCHANGED <<log, rows, stored, record, damaged, health, booting>>
      BY <2>5, <2>a, DisturbFollows DEF Disturb, memory, durable
    <3>2. health' = Trusted
      BY <2>0, <3>1 DEF Calm
    <3>3. Calm'
      BY <2>0, <2>a, <3>1, <3>2, CalmQueue
    <3> QED
      BY <2>a, <3>1, <3>3
  <2>6. \A v \in StorageMay : ~BeginRebootstrap(v) /\ ~ClearScopeHealth(v)
    BY <2>0 DEF BeginRebootstrap, ClearScopeHealth, NeedsRebootstrap, Calm, Trusted
  <2>7. CASE \/ UNCHANGED vars
             \/ Restart
    <3>1. UNCHANGED <<log, net, rows, stored, record, damaged>> /\ (booting' => booting)
      BY <2>7 DEF vars, Restart, durable
    <3>2. health' = Trusted
      BY <2>0, <2>7 DEF vars, Restart, Calm, Restored, Trusted, Clean
    <3>3. Follows(net', net)
      BY <2>a, <3>1, FollowsSelf
    <3>4. Calm'
      BY <2>0, <2>a, <3>1, <3>2, <3>3, CalmQueue
    <3> QED
      BY <2>a, <3>1, <3>4
  <2> QED
    BY <1>3, <2>1, <2>2, <2>3, <2>4, <2>5, <2>6, <2>7 DEF Next
<1> QED
  BY <1>1, <1>2, <1>3

LEMMA LastAtNone == ASSUME NEW x PROVE LastAt(<<>>, 0, x) = 0
<1>1. \A s \in 1..0 : FALSE
  OBVIOUS
<1> QED
  BY <1>1, LastAtIs

LEMMA CalmInit == Init => CalmInv
<1> SUFFICES ASSUME Init PROVE Calm
  BY DEF CalmInv
<1>1. /\ log = <<>> /\ net = <<>> /\ stored.cursor = 0 /\ LogEnd = 0 /\ Nothing(rows)
      /\ DOMAIN net = {}
  BY DEF Init, NewScope, LogEnd, Nothing
<1>2. \A x \in Rows : rows[x] = StateAt(log, LogEnd, x)
  BY <1>1, LastAtNone DEF StateAt, Nothing
<1>3. HoldsAt(log, rows, LogEnd, stored.cursor)
  BY <1>2 DEF HoldsAt
<1>4. [i \in {} |-> 0] \in [DOMAIN net -> [after : Nat, upTo : Nat]]
  BY <1>1
<1>5. InLine(log, net, [i \in {} |-> 0], rows, stored.cursor)
  BY <1>1, <1>4 DEF InLine
<1> QED
  BY <1>1, <1>3, <1>5 DEF Calm, Init, Restored, Trusted, Clean

LEMMA CalmHolds ==
  ASSUME InOrder, KnownSchema, DigestOfLive
  PROVE  Spec => []CalmInv
<1>1. TInv /\ Coherent /\ CalmInv /\ [Next]_vars => CalmInv'
  BY CalmStep
<1> QED
  BY <1>1, CalmInit, TypesHold, CoherentHolds, PTL DEF Spec

\* A scope whose rows nobody damaged is never diagnosed as divergent, however many
\* requests are pipelined and whichever responses are lost, doubled or spoilt, while the
\* host goes on writing, transactions fail or lie, and the app restarts: the running
\* digest of the last batch of a walk is the server's as of the request.
THEOREM ScopeSyncNoFalseAlarm ==
  ASSUME InOrder, KnownSchema, DigestOfLive
  PROVE  Spec => []NoFalseAlarm
<1>1. CalmInv => NoFalseAlarm
  BY DEF CalmInv, Calm, Trusted, NoFalseAlarm
<1> QED
  BY <1>1, CalmHolds, PTL

\* The stored cursor never moves back unless a row was damaged: a response to a request
\* from an earlier cursor repeats a change the device has, and is refused.
THEOREM ScopeSyncCursorMonotone ==
  ASSUME InOrder, KnownSchema, DigestOfLive
  PROVE  Spec => CursorMonotone
<1>1. TInv /\ Coherent /\ CalmInv /\ [Next]_vars
        => [damage = 0 => stored'.cursor >= stored.cursor]_vars
  BY CalmStep
<1> QED
  BY <1>1, CalmHolds, TypesHold, CoherentHolds, PTL DEF Spec, CursorMonotone

LEMMA HoldsAtEnd ==
  HoldsAt(log, rows, LogEnd, stored.cursor) => HoldsUpTo(stored.cursor)
<1> SUFFICES ASSUME HoldsAt(log, rows, LogEnd, stored.cursor), NEW x \in Rows,
                    LastSeq(x) > 0, LastSeq(x) <= stored.cursor
             PROVE  rows[x] = IF log[LastSeq(x)].op = "delete" THEN 0 ELSE LastSeq(x)
  BY DEF HoldsUpTo
<1>1. LastAt(log, LogEnd, x) = LastSeq(x)
  BY LastAtEnd
<1>2. rows[x] = StateAt(log, LogEnd, x)
  BY <1>1 DEF HoldsAt
<1>3. LastSeq(x) # 0
  OBVIOUS
<1> QED
  BY <1>1, <1>2, <1>3 DEF StateAt

\* With pipelined requests answered in order, an undamaged device holds every row whose
\* last change is at or below its cursor as that change left it.
THEOREM ScopeSyncUndamagedHasEverything ==
  ASSUME InOrder, KnownSchema, DigestOfLive
  PROVE  Spec => [](damage = 0 => HoldsUpTo(stored.cursor))
<1>1. CalmInv => (damage = 0 => HoldsUpTo(stored.cursor))
  BY HoldsAtEnd DEF CalmInv, Calm
<1> QED
  BY <1>1, CalmHolds, PTL

-----------------------------------------------------------------------------
(* Damage and healing, one response at a time.                             *)

\* The host asks again only when the answer is in, or lost.
OneAtATime == MaxNet <= 1

\* Every response answers some request, and no cursor is beyond the log.
AnswersInv ==
  /\ scope.cursor <= LogEnd /\ stored.cursor <= LogEnd
  /\ \A i \in DOMAIN net : \E a \in Nat, n \in 0..LogEnd : AnswersTo(log, net[i], a, n)

\* The scope has no gap, and a response to it answers a request from its cursor.
Sound ==
  /\ HoldsAt(log, rows, LogEnd, stored.cursor)
  /\ stored.cursor = 0 => Nothing(rows)
  /\ \A i \in DOMAIN net : \E n \in 0..LogEnd :
       AnswersTo(log, net[i], stored.cursor, n) /\ HoldsAt(log, rows, n, stored.cursor)

IsTrusted == IsHealthy(health) /\ ~damaged /\ ~pardoned

SoundInv == IsTrusted => Sound

LEMMA AnswersNext ==
  ASSUME scope'.cursor <= Len(log'), stored'.cursor <= Len(log'),
         \A i \in DOMAIN net' : \E a \in Nat, n \in 0..Len(log') : AnswersTo(log', net'[i], a, n)
  PROVE  AnswersInv'
  BY DEF AnswersInv, LogEnd

LEMMA SoundNext ==
  ASSUME HoldsAt(log', rows', Len(log'), stored'.cursor),
         stored'.cursor = 0 => Nothing(rows'),
         \A i \in DOMAIN net' : \E n \in 0..Len(log') :
           AnswersTo(log', net'[i], stored'.cursor, n) /\ HoldsAt(log', rows', n, stored'.cursor)
  PROVE  Sound'
  BY DEF Sound, LogEnd

\* The queue follows the old one.
LEMMA AnswersQueue ==
  ASSUME AnswersInv, UNCHANGED log, Follows(net', net),
         scope'.cursor <= Len(log), stored'.cursor <= Len(log)
  PROVE  AnswersInv'
<1>1. ASSUME NEW i \in DOMAIN net'
      PROVE  \E a \in Nat, n \in 0..Len(log) : AnswersTo(log, net'[i], a, n)
  <2>1. PICK k \in DOMAIN net : Alike(net'[i], net[k])
    BY DEF Follows
  <2>2. PICK a \in Nat, n \in 0..Len(log) : AnswersTo(log, net[k], a, n)
    BY DEF AnswersInv, LogEnd
  <2>3. AnswersTo(log, net'[i], a, n)
    BY <2>1, <2>2, AlikeAnswers
  <2> QED
    BY <2>3
<1> QED
  BY <1>1, AnswersNext

LEMMA SoundQueue ==
  ASSUME Sound, UNCHANGED <<log, rows, stored>>, Follows(net', net)
  PROVE  Sound'
<1>1. ASSUME NEW i \in DOMAIN net'
      PROVE  \E n \in 0..Len(log) :
               AnswersTo(log, net'[i], stored.cursor, n) /\ HoldsAt(log, rows, n, stored.cursor)
  <2>1. PICK k \in DOMAIN net : Alike(net'[i], net[k])
    BY DEF Follows
  <2>2. PICK n \in 0..Len(log) :
          AnswersTo(log, net[k], stored.cursor, n) /\ HoldsAt(log, rows, n, stored.cursor)
    BY DEF Sound, LogEnd
  <2>3. AnswersTo(log, net'[i], stored.cursor, n)
    BY <2>1, <2>2, AlikeAnswers
  <2> QED
    BY <2>2, <2>3
<1>2. HoldsAt(log, rows, Len(log), stored.cursor) /\ (stored.cursor = 0 => Nothing(rows))
  BY DEF Sound, LogEnd
<1> QED
  BY <1>1, <1>2, SoundNext

\* Two sets of rows with the same digest are the same.
LEMMA DigestTellsRows ==
  ASSUME NEW r \in [Rows -> Versions \cup {0}], NEW k \in [Rows -> Versions \cup {0}],
         FromRows(r) = FromRows(k)
  PROVE  r = k
<1>1. ASSUME NEW x \in Rows PROVE r[x] = k[x]
  <2>1. \A v \in Versions : (IF r[x] = v THEN 1 ELSE 0) = (IF k[x] = v THEN 1 ELSE 0)
    <3> SUFFICES ASSUME NEW v \in Versions
                 PROVE  (IF r[x] = v THEN 1 ELSE 0) = (IF k[x] = v THEN 1 ELSE 0)
      OBVIOUS
    <3>1. FromRows(r)[x][v] = FromRows(k)[x][v]
      OBVIOUS
    <3> QED
      BY <3>1 DEF FromRows
  <2>2. \A v \in Versions : r[x] = v <=> k[x] = v
    BY <2>1
  <2>3. r[x] \in Versions \cup {0} /\ k[x] \in Versions \cup {0}
    OBVIOUS
  <2> QED
    BY <2>2, <2>3
<1> QED
  BY <1>1

LEMMA RowsAtType ==
  ASSUME TypeOK, NEW n \in 0..LogEnd
  PROVE  RowsAt(log, n) \in [Rows -> Versions \cup {0}]
<1>1. ASSUME NEW x \in Rows PROVE StateAt(log, n, x) \in Versions \cup {0}
  <2>1. n \in Nat /\ LogEnd \in Nat /\ n <= LogEnd /\ LogEnd <= MaxSeq /\ MaxSeq \in Nat
    BY SeqBounds
  <2> DEFINE q == LastAt(log, n, x)
  <2>2. q \in 0..n
    BY <2>1, LastAtIsLast
  <2>3. StateAt(log, n, x) = 0 \/ (StateAt(log, n, x) = q /\ q # 0)
    BY DEF StateAt
  <2> HIDE DEF q
  <2>4. q # 0 => q \in Versions
    BY <2>1, <2>2 DEF Versions
  <2> QED
    BY <2>3, <2>4
<1> QED
  BY <1>1 DEF RowsAt

\* A walk from the beginning that had nothing to send: the server has no rows.
LEMMA EmptyWalk ==
  ASSUME NEW l, NEW m, NEW n, AnswersTo(l, m, 0, n), m.seqs = {},
         m.kind \in {"pull", "bootstrap"}, NEW x
  PROVE  StateAt(l, n, x) = 0
<1> DEFINE q == LastAt(l, n, x)
<1>1. n \in Nat /\ PageAt(l, m.kind, 0, n) = {}
  BY DEF AnswersTo
<1>2. q \in 0..n /\ (q # 0 => q \in 1..n /\ l[q].row = x)
  BY <1>1, LastAtIsLast
<1>3. StateAt(l, n, x) = IF q = 0 \/ l[q].op = "delete" THEN 0 ELSE q
  BY DEF StateAt
<1>4. \A s \in (0 + 1)..n : /\ m.kind # "pull"
                            /\ s = LastAt(l, n, l[s].row) => l[s].op = "delete"
  BY <1>1 DEF PageAt
<1>5. q # 0 => q \in (0 + 1)..n /\ q = LastAt(l, n, l[q].row)
  BY <1>1, <1>2
<1>6. q # 0 => l[q].op = "delete"
  BY <1>4, <1>5
<1> HIDE DEF q
<1> QED
  BY <1>3, <1>6

\* At most one response is in flight.
LEMMA OneInFlight ==
  ASSUME OneAtATime, TypeOK
  PROVE  /\ Len(net) \in Nat /\ DOMAIN net = 1..Len(net) /\ Len(net) <= 1
         /\ Len(net) < MaxNet => net = <<>>
         /\ \A i \in DOMAIN net : DOMAIN Without(i) = {}
<1>1. /\ net \in Seq(Message) /\ Len(net) \in Nat /\ DOMAIN net = 1..Len(net)
      /\ Len(net) <= MaxNet /\ MaxNet \in Nat /\ MaxNet <= 1
  BY ScopeSyncAssumption DEF OneAtATime, TypeOK, Message
<1>2. Len(net) < MaxNet => Len(net) = 0
  BY <1>1
<1>3. Len(net) = 0 => net = <<>>
  BY <1>1
<1>4. ASSUME NEW i \in DOMAIN net PROVE DOMAIN Without(i) = {}
  <2> DEFINE w == Without(i)
  <2>1. w \in Seq(Message) /\ Len(w) = Len(net) - 1
    BY <1>1, WithoutOne
  <2> HIDE DEF w
  <2>2. Len(w) = 0
    BY <1>1, <1>4, <2>1
  <2>3. DOMAIN w = {}
    BY <2>1, <2>2
  <2> QED
    BY <2>3 DEF w
<1> QED
  BY <1>1, <1>2, <1>3, <1>4

LEMMA AnswersStep ==
  ASSUME KnownSchema, DigestOfLive, TInv, AnswersInv, [Next]_vars
  PROVE  AnswersInv'
<1>0. /\ LogEnd \in Nat /\ scope.cursor \in Nat /\ stored.cursor \in Nat
      /\ Refreshed.cursor \in 0..LogEnd /\ scope.cursor <= Len(log) /\ stored.cursor <= Len(log)
      /\ LogEnd = Len(log) /\ Refreshed.cursor <= Len(log) /\ NewScope.cursor <= Len(log)
  <2>1. /\ LogEnd \in Nat /\ scope.cursor \in Nat /\ stored.cursor \in Nat
        /\ LogEnd = Len(log)
    BY ScopeSyncAssumption, SeqBounds DEF TInv, TypeOK, LogEnd
  <2> QED
    BY <2>1 DEF AnswersInv, Refreshed, NewScope
<1>1. ASSUME NEW x \in Rows, NEW o \in Ops, Write(x, o) PROVE AnswersInv'
  <2>1. Len(log') = Len(log) + 1 /\ \A s \in 1..Len(log) : log'[s] = log[s]
    BY <1>1 DEF TInv, TypeOK, Write, LogEnd
  <2>2. UNCHANGED <<net, scope, stored>>
    BY <1>1 DEF Write, memory, durable
  <2>3. ASSUME NEW i \in DOMAIN net
        PROVE  \E a \in Nat, n \in 0..Len(log') : AnswersTo(log', net[i], a, n)
    <3>1. PICK a \in Nat, n \in 0..LogEnd : AnswersTo(log, net[i], a, n)
      BY DEF AnswersInv
    <3>2. n \in 0..Len(log') /\ n \in Nat /\ \A s \in 1..n : log'[s] = log[s]
      BY <1>0, <2>1
    <3>3. AnswersTo(log', net[i], a, n)
      BY <3>1, <3>2, SamePast
    <3> QED
      BY <3>2, <3>3
  <2>4. scope.cursor <= Len(log') /\ stored.cursor <= Len(log')
    BY <1>0, <2>1
  <2> QED
    BY <2>2, <2>3, <2>4, AnswersNext
<1>2. ASSUME NEW kind,
             Ask(kind, Refreshed.cursor, PageAt(log, kind, Refreshed.cursor, LogEnd))
      PROVE  AnswersInv'
  <2> DEFINE c == Refreshed.cursor
  <2>1. PICK m \in Answers(kind, c, PageAt(log, kind, c, LogEnd)) : net' = Append(net, m)
    BY <1>2 DEF Ask
  <2>2. AnswersTo(log, m, c, LogEnd)
    BY <1>0, <2>1, AskedIsAnswered DEF TInv
  <2>3. UNCHANGED <<log, stored>> /\ scope'.cursor = c
    BY <1>2 DEF Ask, durable
  <2>4. /\ Len(net) \in Nat /\ DOMAIN net' = 1..(Len(net) + 1) /\ DOMAIN net = 1..Len(net)
        /\ \A n \in 1..Len(net) : net'[n] = net[n]
        /\ net'[Len(net) + 1] = m
    BY <2>1 DEF TInv, TypeOK
  <2>5. ASSUME NEW i \in DOMAIN net'
        PROVE  \E a \in Nat, n \in 0..LogEnd : AnswersTo(log, net'[i], a, n)
    <3>1. CASE i \in DOMAIN net
      BY <2>4, <3>1 DEF AnswersInv
    <3>2. CASE i \notin DOMAIN net
      <4>1. net'[i] = m /\ c \in Nat /\ LogEnd \in 0..LogEnd
        BY <1>0, <2>4, <3>2
      <4> QED
        BY <2>2, <4>1
    <3> QED
      BY <3>1, <3>2
  <2> QED
    BY <1>0, <2>3, <2>5, AnswersNext
<1>3. ASSUME NEW i \in DOMAIN net, NEW v, Deliver(i, v) PROVE AnswersInv'
  <2>1. Follows(net', net) /\ UNCHANGED log
    BY <1>3, WithoutFollows DEF Deliver, TInv
  <2>2. net[i].next <= Len(log)
    <3>1. PICK a \in Nat, n \in 0..LogEnd : AnswersTo(log, net[i], a, n)
      BY DEF AnswersInv
    <3>2. net[i].next \in Nat /\ net[i].next <= n
      BY <3>1, PageBounds
    <3> QED
      BY <1>0, <3>2
  <2>3. scope'.cursor <= Len(log) /\ stored'.cursor <= Len(log)
    BY <1>0, <1>3, <2>2 DEF Deliver, Refuse, Accept, durable
  <2> QED
    BY <2>1, <2>3, AnswersQueue
<1>4. ASSUME NEW i \in DOMAIN net, Disturb(i) PROVE AnswersInv'
  <2>1. Follows(net', net) /\ UNCHANGED <<log, scope, stored>>
    BY <1>4, DisturbFollows DEF Disturb, memory, durable, TInv
  <2> QED
    BY <1>0, <2>1, AnswersQueue
<1>5. CASE \/ UNCHANGED vars
           \/ \E v \in StorageMay : BeginRebootstrap(v) \/ ClearScopeHealth(v)
           \/ Restart
           \/ \E x \in Rows : Damage(x)
  <2>1. UNCHANGED <<log, net>> /\ Follows(net', net)
    <3>1. UNCHANGED <<log, net>>
      BY <1>5 DEF vars, BeginRebootstrap, ClearScopeHealth, Restart, Damage
    <3> QED
      BY <3>1, FollowsSelf DEF TInv
  <2>2. scope'.cursor <= Len(log) /\ stored'.cursor <= Len(log)
    <3>1. CASE Restart
      <4>1. PICK d : scope' = [stored EXCEPT !.digest = d] /\ stored' = stored
        BY <3>1 DEF Restart, durable
      <4>2. scope'.cursor = stored.cursor
        BY <4>1 DEF TInv, TypeOK
      <4> QED
        BY <1>0, <4>1, <4>2
    <3>2. CASE ~Restart
      BY <1>0, <1>5, <3>2 DEF vars, BeginRebootstrap, ClearScopeHealth, Damage, memory
    <3> QED
      BY <3>1, <3>2
  <2> QED
    BY <2>1, <2>2, AnswersQueue
<1>6. CASE PullStep
  BY <1>2, <1>6, PagesAre DEF PullStep
<1>7. CASE BootstrapStep
  BY <1>2, <1>7, PagesAre DEF BootstrapStep
<1> QED
  BY <1>1, <1>3, <1>4, <1>5, <1>6, <1>7 DEF Next, Due

\* A batch of a trusted scope keeps it sound; a walk that heals a tainted one makes it so,
\* because equal digests are equal rows.
LEMMA SoundAccept ==
  ASSUME OneAtATime, HonestStorage, KnownSchema, TInv, Coherent, AnswersInv, SoundInv,
         NEW i \in DOMAIN net, NEW v \in StorageMay, Accept(net[i], v), net' = Without(i),
         UNCHANGED log, IsTrusted'
  PROVE  Sound'
<1> DEFINE m   == net[i]
           c   == stored.cursor
           R   == StagedRows(m.seqs)
           new == [cursor |-> m.next, digest |-> StagedDigest(Refreshed.digest, m.seqs)]
           diverged == Compares(m) /\ new.digest # m.digest
           counts   == Counts(diverged, m.kind = "bootstrap")
           heals    == Compares(m) /\ ~diverged /\ NeedsRebootstrap(health)
<1>1. ~damaged /\ ~pardoned /\ IsHealthy(health')
  BY DEF IsTrusted, Accept
<1>2. Refreshed = stored /\ stored.digest = FromRows(rows)
  BY <1>1, RefreshedIsStored DEF Coherent, DigestDescribesRows
<1>3. m \in Message /\ m.seqs \in SUBSET (1..LogEnd) /\ LogEnd \in Nat
  BY TInvParts, SeqBounds DEF NetOK, NetIsLogged, TInv
<1>4. m.kind \in {"pull", "bootstrap"} /\ m.seqs \in SUBSET Seqs
  <2> HIDE DEF m
  <2> QED
    BY <1>3 DEF Message
<1>5. new.digest = FromRows(R)
  BY <1>2, <1>3, StagedDescribes DEF TInv
<1>6. DOMAIN net' = {}
  BY OneInFlight DEF TInv
<1>7. /\ Landed(v) => stored' = new /\ rows' = R
      /\ ~Landed(v) => stored' = stored /\ rows' = rows
      /\ ToldOk(v) => health' = IF counts THEN Taint(health.attempts + 1)
                                ELSE IF heals
                                  THEN [kind |-> "Healed", attempts |-> health.attempts]
                                ELSE health
      /\ ~ToldOk(v) => health' = health
  BY DEF Accept, durable
<1>8. Landed(v) <=> ToldOk(v)
  BY ScopeSyncAssumption DEF HonestStorage, Landed, ToldOk, Verdicts
<1>9. CASE ~Landed(v)
  <2>1. UNCHANGED <<log, rows, stored, health>>
    BY <1>7, <1>8, <1>9
  <2>2. Sound
    BY <1>1, <2>1 DEF SoundInv, IsTrusted, IsHealthy
  <2>3. Follows(net', net)
    BY WithoutFollows DEF TInv
  <2> QED
    BY <2>1, <2>2, <2>3, SoundQueue
<1>10. CASE Landed(v)
  <2>1. stored'.cursor = m.next /\ rows' = R
    BY <1>7, <1>10
  <2> SUFFICES HoldsAt(log, R, LogEnd, m.next) /\ (m.next = 0 => Nothing(R))
    BY <1>6, <2>1, SoundNext DEF LogEnd
  <2>2. CASE heals /\ ~counts
    <3>1. PICK a \in Nat, n \in 0..LogEnd : AnswersTo(log, m, a, n)
      BY DEF AnswersInv
    <3>2. FromRows(R) = FromRows(RowsAt(log, n))
      BY <1>5, <2>2, <3>1 DEF AnswersTo
    <3>3. R = RowsAt(log, n)
      <4>1. R \in [Rows -> Versions \cup {0}]
        BY <1>4, StagedRowsType DEF TInv
      <4>2. RowsAt(log, n) \in [Rows -> Versions \cup {0}]
        BY RowsAtType DEF TInv
      <4> QED
        BY <3>2, <4>1, <4>2, DigestTellsRows
    <3>4. /\ m.next \in Nat /\ a <= m.next /\ m.next <= n
          /\ m.seqs # {} => m.next \in m.seqs
      BY <3>1, PageBounds
    <3>5. HoldsAt(log, R, n, m.next)
      BY <3>3 DEF HoldsAt, RowsAt
    <3>6. HoldsAt(log, R, LogEnd, m.next)
      <4>1. n \in Nat /\ n <= LogEnd
        BY <1>3
      <4> QED
        BY <1>3, <3>4, <3>5, <4>1, HoldsLater
    <3>7. ASSUME m.next = 0 PROVE Nothing(R)
      <4>1. a = 0 /\ m.seqs = {}
        BY <1>3, <3>4, <3>7
      <4>2. \A x \in Rows : StateAt(log, n, x) = 0
        BY <1>4, <3>1, <4>1, EmptyWalk
      <4> QED
        BY <3>3, <4>2 DEF Nothing, RowsAt
    <3> QED
      BY <3>6, <3>7
  <2>3. CASE counts
    <3>1. health' = Taint(health.attempts + 1)
      BY <1>7, <1>8, <1>10, <2>3
    <3> QED
      BY <1>1, <3>1 DEF IsHealthy, Taint
  <2>4. CASE ~heals /\ ~counts
    <3>1. health' = health
      BY <1>7, <1>8, <1>10, <2>4
    <3>2. Sound
      BY <1>1, <3>1 DEF SoundInv, IsTrusted, IsHealthy
    <3>3. PICK n \in 0..LogEnd : AnswersTo(log, m, c, n) /\ HoldsAt(log, rows, n, c)
      BY <3>2 DEF Sound
    <3>4. n \in Nat /\ n <= LogEnd
      BY <1>3
    <3>5. c = 0 => Nothing(rows)
      BY <3>2 DEF Sound
    <3>6. HoldsAt(log, R, n, m.next) /\ (m.next = 0 => Nothing(R))
      BY <1>4, <3>3, <3>4, <3>5, AcceptHolds DEF TInv
    <3>7. m.next \in Nat /\ m.next <= n
      BY <3>3, PageBounds
    <3>8. HoldsAt(log, R, LogEnd, m.next)
      BY <1>3, <3>4, <3>6, <3>7, HoldsLater
    <3> QED
      BY <3>6, <3>8
  <2> QED
    BY <2>2, <2>3, <2>4
<1> QED
  BY <1>9, <1>10

LEMMA SoundStep ==
  ASSUME OneAtATime, HonestStorage, KnownSchema, DigestOfLive,
         TInv, Coherent, HealthIsStored, AnswersInv, SoundInv, [Next]_vars
  PROVE  SoundInv'
<1> SUFFICES ASSUME IsTrusted' PROVE Sound'
  BY DEF SoundInv
<1>0. TypeOK /\ LogEnd \in Nat /\ stored.cursor \in Nat /\ stored.cursor <= LogEnd
  BY ScopeSyncAssumption, SeqBounds DEF TInv, TypeOK, AnswersInv
<1>1. ASSUME UNCHANGED <<log, rows, stored>>, Follows(net', net), IsTrusted PROVE Sound'
  BY <1>1, SoundQueue DEF SoundInv
<1>2. ASSUME UNCHANGED <<health, damaged, pardoned>> PROVE IsTrusted /\ Sound
  <2>1. IsTrusted
    BY <1>2 DEF IsTrusted, IsHealthy
  <2> QED
    BY <2>1 DEF SoundInv
<1>3. ASSUME NEW x \in Rows, NEW o \in Ops, Write(x, o) PROVE Sound'
  <2>1. /\ Len(log) \in Nat /\ Len(log') = Len(log) + 1 /\ LogEnd = Len(log)
        /\ \A s \in 1..Len(log) : log'[s] = log[s]
    BY <1>0, <1>3 DEF TypeOK, Write, LogEnd
  <2>2. UNCHANGED <<net, rows, stored, health, damaged, pardoned>>
    BY <1>3 DEF Write, memory, durable
  <2>3. Sound
    BY <1>2, <2>2
  <2> DEFINE c == stored.cursor
  <2>4. HoldsAt(log', rows, Len(log), c)
    BY <2>1, <2>3, SamePast DEF Sound
  <2>5. HoldsAt(log', rows, Len(log'), c)
    <3>1. Len(log') \in Nat /\ Len(log) <= Len(log') /\ c <= Len(log)
      BY <1>0, <2>1
    <3> QED
      BY <1>0, <2>1, <2>4, <3>1, HoldsLater
  <2>6. ASSUME NEW i \in DOMAIN net
        PROVE  \E n \in 0..Len(log') : AnswersTo(log', net[i], c, n) /\ HoldsAt(log', rows, n, c)
    <3>1. PICK n \in 0..LogEnd : AnswersTo(log, net[i], c, n) /\ HoldsAt(log, rows, n, c)
      BY <2>3 DEF Sound
    <3>2. n \in 0..Len(log') /\ n \in Nat /\ \A s \in 1..n : log'[s] = log[s]
      BY <2>1
    <3>3. AnswersTo(log', net[i], c, n) /\ HoldsAt(log', rows, n, c)
      BY <3>1, <3>2, SamePast
    <3> QED
      BY <3>2, <3>3
  <2>7. c = 0 => Nothing(rows)
    BY <2>3 DEF Sound
  <2> QED
    BY <2>2, <2>5, <2>6, <2>7, SoundNext
<1>4. ASSUME NEW kind,
             Ask(kind, Refreshed.cursor, PageAt(log, kind, Refreshed.cursor, LogEnd))
      PROVE  Sound'
  <2> DEFINE c == stored.cursor
  <2>1. UNCHANGED <<log, rows, stored, health, damaged, pardoned>> /\ Len(net) < MaxNet
    BY <1>4 DEF Ask, durable
  <2>2. IsTrusted /\ Sound
    BY <1>2, <2>1
  <2>3. Refreshed = stored
    BY <2>2, RefreshedIsStored DEF Coherent, IsTrusted
  <2>4. PICK m \in Answers(kind, c, PageAt(log, kind, c, LogEnd)) : net' = Append(net, m)
    BY <1>4, <2>3 DEF Ask
  <2>5. c \in 0..LogEnd
    BY <1>0
  <2>6. AnswersTo(log, m, c, LogEnd)
    BY <1>0, <2>4, <2>5, AskedIsAnswered
  <2>7. net = <<>>
    BY <1>0, <2>1, OneInFlight
  <2>8. DOMAIN net' = {1} /\ net'[1] = m
    BY <2>4, <2>7
  <2>9. HoldsAt(log, rows, LogEnd, c) /\ LogEnd \in 0..LogEnd /\ (c = 0 => Nothing(rows))
    BY <1>0, <2>2 DEF Sound
  <2>10. LogEnd = Len(log)
    BY DEF LogEnd
  <2>11. \A i \in DOMAIN net' : \E n \in 0..Len(log) :
           AnswersTo(log, net'[i], c, n) /\ HoldsAt(log, rows, n, c)
    BY <2>6, <2>8, <2>9, <2>10
  <2> QED
    BY <2>1, <2>9, <2>10, <2>11, SoundNext
<1>5. ASSUME NEW i \in DOMAIN net, NEW v \in StorageMay, Deliver(i, v) PROVE Sound'
  <2>1. net' = Without(i) /\ UNCHANGED log
    BY <1>5 DEF Deliver
  <2>2. CASE Refuse(net[i])
    <3>1. UNCHANGED <<rows, stored, health, damaged, pardoned>> /\ Follows(net', net)
      BY <1>0, <2>1, <2>2, WithoutFollows DEF Refuse, durable
    <3> QED
      BY <1>1, <1>2, <2>1, <3>1
  <2>3. CASE Accept(net[i], v)
    BY <2>1, <2>3, SoundAccept
  <2> QED
    BY <1>5, <2>2, <2>3 DEF Deliver
<1>6. ASSUME NEW i \in DOMAIN net, Disturb(i) PROVE Sound'
  <2>1. Follows(net', net) /\ UNCHANGED <<log, rows, stored, health, damaged, pardoned>>
    BY <1>0, <1>6, DisturbFollows DEF Disturb, memory, durable
  <2> QED
    BY <1>1, <1>2, <2>1
<1>7. ASSUME NEW v \in StorageMay, BeginRebootstrap(v) PROVE FALSE
  <2>1. health.kind = "Tainted" /\ health' = health
    BY <1>7 DEF BeginRebootstrap, NeedsRebootstrap
  <2> QED
    BY <2>1 DEF IsTrusted, IsHealthy
<1>8. ASSUME NEW v \in StorageMay, ClearScopeHealth(v) PROVE Sound'
  <2>1. UNCHANGED <<log, net, rows, stored, damaged>> /\ pardoned' = (pardoned \/ ~IsHealthy(health))
    BY <1>8 DEF ClearScopeHealth
  <2>2. IsTrusted
    BY <2>1 DEF IsTrusted
  <2>3. Follows(net', net)
    BY <1>0, <2>1, FollowsSelf
  <2> QED
    BY <1>1, <2>1, <2>2, <2>3
<1>9. CASE Restart \/ UNCHANGED vars
  <2>1. UNCHANGED <<log, net, rows, stored, damaged, pardoned>>
    BY <1>9 DEF Restart, durable, vars
  <2>2. health' = health
    BY <1>9 DEF Restart, HealthIsStored, vars
  <2>3. Follows(net', net)
    BY <1>0, <2>1, FollowsSelf
  <2> QED
    BY <1>1, <1>2, <2>1, <2>2, <2>3
<1>10. ASSUME NEW x \in Rows, Damage(x) PROVE FALSE
  BY <1>10 DEF Damage, IsTrusted
<1>11. CASE PullStep
  BY <1>4, <1>11, PagesAre DEF PullStep
<1>12. CASE BootstrapStep
  BY <1>4, <1>12, PagesAre DEF BootstrapStep
<1> QED
  BY <1>3, <1>5, <1>6, <1>7, <1>8, <1>9, <1>10, <1>11, <1>12 DEF Next, Due

\* With one request at a time and an adapter that keeps its contract, a scope that is
\* trusted has every change at or below its cursor, after any number of damaged rows,
\* rebuilds, late responses to requests made before a rebuild, failures and restarts.
THEOREM ScopeSyncTrustedHasEverything ==
  ASSUME OneAtATime, HonestStorage, KnownSchema, DigestOfLive
  PROVE  Spec => []TrustedHasEverything
<1>1. Init => AnswersInv /\ SoundInv
  <2> SUFFICES ASSUME Init PROVE AnswersInv /\ Sound
    BY DEF SoundInv
  <2>1. CalmInv /\ damage = 0 /\ LogEnd = 0 /\ DOMAIN net = {} /\ scope.cursor = 0
    BY CalmInit DEF Init, NewScope, LogEnd
  <2> QED
    BY <2>1 DEF CalmInv, Calm, AnswersInv, Sound
<1>2. TInv /\ AnswersInv /\ [Next]_vars => AnswersInv'
  BY AnswersStep
<1>3. TInv /\ Coherent /\ HealthIsStored /\ AnswersInv /\ SoundInv /\ [Next]_vars => SoundInv'
  BY SoundStep
<1>4. SoundInv => TrustedHasEverything
  BY HoldsAtEnd DEF SoundInv, IsTrusted, Sound, TrustedHasEverything
<1> QED
  BY <1>1, <1>2, <1>3, <1>4, TypesHold, CoherentHolds, ScopeSyncHealthIsStored, PTL DEF Spec

=============================================================================
