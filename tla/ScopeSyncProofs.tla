-------------------------- MODULE ScopeSyncProofs ---------------------------
(***************************************************************************)
(* The scope of a device, for any number of rows, changes, responses in    *)
(* flight, faults and damaged rows.                                        *)
(*                                                                         *)
(* TInv: types, with the facts they rest on (what is in flight is in the   *)
(* log, and attempts are left while healing is tried).  GivenUpIsStored:   *)
(* a scope given up on is so in the record too, until the host pardons it. *)
(* Coherent: memory is storage unless suspect, and the digest kept change  *)
(* by change is that of the rows.  The last needs a count of what a batch  *)
(* adds to and removes from the digest of each version (TakenOut): what    *)
(* storage held, and each version of the batch but the last of its row.    *)
(*                                                                         *)
(* HonestStorage and KnownSchema are hypotheses where the runs show that   *)
(* they are needed: an adapter that loses an acknowledgement leaves the    *)
(* record ahead of the engine's count, and a quarantined change is in the  *)
(* digest and not in the rows.                                             *)
(***************************************************************************)
EXTENDS ScopeSync, FiniteMax, TLAPS

Message == [kind : {"pull", "bootstrap"}, seqs : SUBSET Seqs, repeated : BOOLEAN,
            more : BOOLEAN, next : 0..MaxSeq, digest : Digests]

\* What is on its way was in the log when it was sent.
NetIsLogged == \A i \in DOMAIN net : net[i].seqs \subseteq 1..LogEnd

\* Healing is still being tried while attempts are left.
AttemptsLeft ==
  /\ health.kind # "Unhealable" => health.attempts < MaxHealAttempts
  /\ record.healed => record.attempts < MaxHealAttempts

TInv == TypeOK /\ NetIsLogged /\ AttemptsLeft

-----------------------------------------------------------------------------
(* Sequences of responses.                                                 *)

LEMMA Joined ==
  ASSUME NEW S, NEW s \in Seq(S), NEW t \in Seq(S)
  PROVE  /\ s \o t \in Seq(S)
         /\ Len(s \o t) = Len(s) + Len(t)
         /\ \A n \in 1..Len(s) : (s \o t)[n] = s[n]
         /\ \A n \in (Len(s) + 1)..(Len(s) + Len(t)) : (s \o t)[n] = t[n - Len(s)]
  OBVIOUS

\* One response is taken out: the others keep their order.
LEMMA WithoutOne ==
  ASSUME NEW S, net \in Seq(S), NEW i \in DOMAIN net
  PROVE  /\ Without(i) \in Seq(S) /\ Len(Without(i)) = Len(net) - 1
         /\ \A n \in 1..(Len(net) - 1) : Without(i)[n] = net[IF n < i THEN n ELSE n + 1]
<1>1. Len(net) \in Nat /\ i \in 1..Len(net)
  OBVIOUS
<1> DEFINE w == Without(i)
<1>2. /\ w \in Seq(S) /\ Len(w) = Len(net) - 1
      /\ \A n \in 1..(i - 1) : w[n] = net[n]
      /\ \A n \in i..(Len(net) - 1) : w[n] = net[n + 1]
  <2> DEFINE front == SubSeq(net, 1, i - 1)
             back  == SubSeq(net, i + 1, Len(net))
  <2>1. /\ front \in Seq(S) /\ Len(front) = i - 1
        /\ \A n \in 1..(i - 1) : front[n] = net[n]
    BY <1>1
  <2>2. /\ back \in Seq(S) /\ Len(back) = Len(net) - i
        /\ \A n \in 1..(Len(net) - i) : back[n] = net[i + n]
    BY <1>1
  <2> HIDE DEF front, back
  <2>3. w = front \o back
    BY DEF Without, front, back
  <2> HIDE DEF w
  <2>4. /\ w \in Seq(S) /\ Len(w) = Len(front) + Len(back)
        /\ \A n \in 1..Len(front) : w[n] = front[n]
        /\ \A n \in (Len(front) + 1)..(Len(front) + Len(back)) : w[n] = back[n - Len(front)]
    BY <2>1, <2>2, <2>3, Joined
  <2>5. Len(front) + Len(back) = Len(net) - 1 /\ Len(front) + 1 = i
    BY <1>1, <2>1, <2>2
  <2>6. \A n \in i..(Len(net) - 1) : w[n] = back[n - (i - 1)]
    BY <2>1, <2>4, <2>5
  <2>7. \A n \in i..(Len(net) - 1) :
          n - (i - 1) \in 1..(Len(net) - i) /\ i + (n - (i - 1)) = n + 1
    BY <1>1
  <2>8. \A n \in i..(Len(net) - 1) : w[n] = net[n + 1]
    <3> SUFFICES ASSUME NEW n \in i..(Len(net) - 1) PROVE w[n] = net[n + 1]
      OBVIOUS
    <3>1. back[n - (i - 1)] = net[i + (n - (i - 1))]
      BY <2>2, <2>7
    <3> QED
      BY <2>6, <2>7, <3>1
  <2>9. \A n \in 1..(i - 1) : w[n] = net[n]
    BY <2>1, <2>4
  <2> QED
    BY <2>4, <2>5, <2>8, <2>9
<1> HIDE DEF w
<1>3. ASSUME NEW n \in 1..(Len(net) - 1)
      PROVE  w[n] = net[IF n < i THEN n ELSE n + 1]
  <2>1. CASE n < i
    BY <1>1, <1>2, <2>1
  <2>2. CASE ~(n < i)
    BY <1>1, <1>2, <2>2
  <2> QED
    BY <2>1, <2>2
<1> QED
  BY <1>2, <1>3 DEF w

\* One response will arrive twice.
LEMMA WithTwice ==
  ASSUME NEW S, net \in Seq(S), NEW i \in DOMAIN net
  PROVE  LET twice == SubSeq(net, 1, i) \o SubSeq(net, i, Len(net))
         IN  /\ twice \in Seq(S) /\ Len(twice) = Len(net) + 1
             /\ \A n \in 1..(Len(net) + 1) : twice[n] = net[IF n <= i THEN n ELSE n - 1]
<1> DEFINE front == SubSeq(net, 1, i)
           back  == SubSeq(net, i, Len(net))
           w     == SubSeq(net, 1, i) \o SubSeq(net, i, Len(net))
<1>1. Len(net) \in Nat /\ i \in 1..Len(net)
  OBVIOUS
<1>2. front \in Seq(S) /\ Len(front) = i /\ \A n \in 1..i : front[n] = net[n]
  BY <1>1
<1>3. /\ back \in Seq(S) /\ Len(back) = Len(net) - i + 1
      /\ \A n \in 1..(Len(net) - i + 1) : back[n] = net[i + n - 1]
  BY <1>1
<1> HIDE DEF front, back
<1>a. w = front \o back
  BY DEF front, back
<1> HIDE DEF w
<1>4. /\ w \in Seq(S) /\ Len(w) = Len(front) + Len(back)
      /\ \A n \in 1..Len(front) : w[n] = front[n]
      /\ \A n \in (Len(front) + 1)..(Len(front) + Len(back)) : w[n] = back[n - Len(front)]
  BY <1>2, <1>3, <1>a, Joined
<1>5. Len(front) + Len(back) = Len(net) + 1
  BY <1>1, <1>2, <1>3
<1>6. ASSUME NEW n \in 1..(Len(net) + 1)
      PROVE  w[n] = net[IF n <= i THEN n ELSE n - 1]
  <2>1. CASE n <= i
    <3>1. n \in 1..i
      BY <1>1, <2>1
    <3> QED
      BY <1>2, <1>4, <2>1, <3>1
  <2>2. CASE ~(n <= i)
    <3>1. /\ n \in (i + 1)..(Len(net) + 1) /\ n - i \in 1..(Len(net) - i + 1)
          /\ i + (n - i) - 1 = n - 1
      BY <1>1, <2>2
    <3>2. w[n] = back[n - i]
      BY <1>2, <1>4, <1>5, <3>1
    <3>3. back[n - i] = net[i + (n - i) - 1]
      BY <1>3, <3>1
    <3> QED
      BY <2>2, <3>1, <3>2, <3>3
  <2> QED
    BY <2>1, <2>2
<1> QED
  BY <1>4, <1>5, <1>6 DEF w

-----------------------------------------------------------------------------
(* Digests, rows and answers.                                              *)

LEMMA SeqBounds ==
  ASSUME TypeOK
  PROVE  /\ LogEnd \in Nat /\ LogEnd <= MaxSeq /\ MaxSeq \in Nat
         /\ DOMAIN log = 1..LogEnd
         /\ 1..LogEnd \subseteq Seqs /\ 0..LogEnd \subseteq 0..MaxSeq
         /\ Seqs \subseteq Versions /\ Seqs \subseteq 0..MaxSeq /\ MaxSeq + 1 \in Versions
<1>1. MaxSeq \in Nat /\ LogEnd \in Nat /\ LogEnd <= MaxSeq /\ DOMAIN log = 1..LogEnd
  BY ScopeSyncAssumption DEF TypeOK, LogEnd
<1> HIDE DEF LogEnd
<1> QED
  BY <1>1 DEF Seqs, Versions

\* LastSeq is the last change of a row, or 0.
LEMMA LastSeqIsLast ==
  ASSUME TypeOK, NEW x
  PROVE  /\ LastSeq(x) \in 0..LogEnd
         /\ LastSeq(x) # 0 => LastSeq(x) \in 1..LogEnd /\ log[LastSeq(x)].row = x
         /\ \A s \in 1..LogEnd : log[s].row = x => s <= LastSeq(x)
<1> DEFINE S == {s \in 1..LogEnd : log[s].row = x} \cup {0}
<1>1. LogEnd \in Nat
  BY SeqBounds
<1>2. S \subseteq 0..LogEnd /\ S # {}
  BY <1>1
<1>3. Max(S) \in S /\ \A y \in S : y <= Max(S)
  BY <1>1, <1>2, MaxIsGreatest
<1>4. LastSeq(x) = Max(S)
  BY DEF LastSeq
<1> DEFINE g == Max(S)
<1> HIDE DEF g
<1>5. g \in S /\ \A y \in S : y <= g
  BY <1>3 DEF g
<1>6. LastSeq(x) = g
  BY <1>4 DEF g
<1> QED
  BY <1>1, <1>5, <1>6

LEMMA FromRowsType == ASSUME NEW r PROVE FromRows(r) \in Digests
  BY DEF FromRows, Digests

LEMMA EmptyType == EMPTY \in Digests
  BY DEF EMPTY, Digests

LEMMA SubsetCount ==
  ASSUME NEW b \in SUBSET Seqs
  PROVE  IsFiniteSet(b) /\ \A c \in SUBSET b : Cardinality(c) \in Int
<1>1. IsFiniteSet(Seqs)
  BY ScopeSyncAssumption, FS_Interval DEF Seqs
<1>2. IsFiniteSet(b)
  BY <1>1, FS_Subset
<1> QED
  BY <1>2, FS_Subset, FS_CardinalityType

LEMMA StagedDigestType ==
  ASSUME NEW d \in Digests, NEW b \in SUBSET Seqs
  PROVE  StagedDigest(d, b) \in Digests
<1>1. ASSUME NEW x \in Rows, NEW v \in Versions
      PROVE  d[x][v] + Cardinality({s \in b : log[s].row = x /\ log[s].op # "delete" /\ s = v})
               - Cardinality({s \in b : log[s].row = x /\ Current(b, s) = v}) \in Int
  <2> DEFINE A == {s \in b : log[s].row = x /\ log[s].op # "delete" /\ s = v}
             C == {s \in b : log[s].row = x /\ Current(b, s) = v}
  <2>1. Cardinality(A) \in Int /\ Cardinality(C) \in Int
    BY SubsetCount
  <2>2. d[x][v] \in Int
    BY DEF Digests
  <2> HIDE DEF A, C
  <2>3. d[x][v] + Cardinality(A) - Cardinality(C) \in Int
    BY <2>1, <2>2
  <2> QED
    BY <2>3 DEF A, C
<1> QED
  BY <1>1 DEF StagedDigest, Digests

LEMMA StagedRowsType ==
  ASSUME TypeOK, NEW b \in SUBSET Seqs
  PROVE  StagedRows(b) \in [Rows -> Versions \cup {0}]
<1>1. ASSUME NEW x \in Rows
      PROVE  StagedRows(b)[x] \in Versions \cup {0}
  <2> DEFINE mine == {s \in b : log[s].row = x /\ log[s].op # "alien"}
  <2>1. mine \subseteq 0..MaxSeq /\ MaxSeq \in Nat /\ mine \subseteq Versions
    BY SeqBounds
  <2>2. mine # {} => Max(mine) \in Versions
    BY <2>1, MaxIsGreatest
  <2>3. rows[x] \in Versions \cup {0}
    BY DEF TypeOK
  <2>4. StagedRows(b)[x] = IF mine = {} THEN rows[x]
                           ELSE IF log[Max(mine)].op = "delete" THEN 0 ELSE Max(mine)
    BY DEF StagedRows
  <2> HIDE DEF mine
  <2> QED
    BY <2>2, <2>3, <2>4
<1>2. StagedRows(b) = [x \in Rows |-> StagedRows(b)[x]]
  BY DEF StagedRows
<1> QED
  BY <1>1, <1>2

LEMMA AnswerType ==
  ASSUME TypeOK, NEW kind \in {"pull", "bootstrap"}, NEW after \in 0..MaxSeq,
         NEW page \in SUBSET (1..LogEnd), NEW m \in Answers(kind, after, page)
  PROVE  m \in Message /\ m.seqs \in SUBSET page
<1>1. PICK b \in SUBSET page :
        m = [kind |-> kind, seqs |-> b, repeated |-> FALSE, more |-> b # page,
             next |-> IF b = {} THEN after ELSE Max(b), digest |-> ServerDigest]
  BY DEF Answers
<1>2. b \in SUBSET Seqs /\ b \subseteq 0..MaxSeq /\ MaxSeq \in Nat
  BY SeqBounds
<1>3. b # {} => Max(b) \in 0..MaxSeq
  BY <1>2, MaxIsGreatest
<1>4. ServerDigest \in Digests
  BY FromRowsType DEF ServerDigest
<1>5. (IF b = {} THEN after ELSE Max(b)) \in 0..MaxSeq /\ (b # page) \in BOOLEAN
  BY <1>3
<1> HIDE DEF ServerDigest
<1> QED
  BY <1>1, <1>2, <1>4, <1>5 DEF Message

-----------------------------------------------------------------------------
(* Types.                                                                  *)

NetOK == net \in Seq(Message) /\ Len(net) <= MaxNet /\ NetIsLogged

\* The parts of the state that are not the network.
RestOK ==
  /\ log \in Seq([row : Rows, op : Ops]) /\ LogEnd <= MaxSeq
  /\ scope \in [cursor : 0..MaxSeq, digest : Digests]
  /\ suspect \in BOOLEAN
  /\ health \in [kind : HealthKinds, attempts : 0..MaxHealAttempts]
  /\ stored \in [cursor : 0..MaxSeq, digest : Digests]
  /\ rows \in [Rows -> Versions \cup {0}]
  /\ record \in [attempts : 0..MaxHealAttempts, healed : BOOLEAN]
  /\ booting \in BOOLEAN /\ damaged \in BOOLEAN /\ pardoned \in BOOLEAN
  /\ faults \in 0..MaxFaults /\ damage \in 0..MaxDamage
  /\ AttemptsLeft

LEMMA TInvParts == TInv <=> NetOK /\ RestOK
  BY DEF TInv, TypeOK, NetOK, RestOK, Message

LEMMA TInvNext == NetOK' /\ RestOK' => TInv'
  BY DEF TInv, TypeOK, NetOK, RestOK, Message

LEMMA NetWithout ==
  ASSUME TInv, NEW i \in DOMAIN net, net' = Without(i), UNCHANGED log
  PROVE  NetOK'
<1>1. net \in Seq(Message) /\ Len(net) \in Nat /\ Len(net) <= MaxNet /\ MaxNet \in Nat
  BY TInvParts, ScopeSyncAssumption DEF NetOK
<1>2. /\ net' \in Seq(Message) /\ Len(net') = Len(net) - 1
      /\ \A n \in 1..(Len(net) - 1) : net'[n] = net[IF n < i THEN n ELSE n + 1]
  BY <1>1, WithoutOne
<1>3. ASSUME NEW n \in DOMAIN net' PROVE \E k \in DOMAIN net : net'[n] = net[k]
  <2>1. n \in 1..(Len(net) - 1) /\ (IF n < i THEN n ELSE n + 1) \in DOMAIN net
    BY <1>1, <1>2
  <2> QED
    BY <1>2, <2>1
<1>4. NetIsLogged'
  BY <1>3 DEF TInv, NetIsLogged, LogEnd
<1> QED
  BY <1>1, <1>2, <1>4 DEF NetOK

LEMMA NetDisturb ==
  ASSUME TInv, NEW i \in DOMAIN net, Disturb(i)
  PROVE  NetOK'
<1>1. net \in Seq(Message) /\ Len(net) \in Nat /\ Len(net) <= MaxNet /\ MaxNet \in Nat
  BY TInvParts, ScopeSyncAssumption DEF NetOK
<1>2. CASE net' = Without(i)
  BY <1>2, NetWithout DEF Disturb
<1>3. CASE Len(net) < MaxNet /\ net' = SubSeq(net, 1, i) \o SubSeq(net, i, Len(net))
  <2>1. /\ net' \in Seq(Message) /\ Len(net') = Len(net) + 1
        /\ \A n \in 1..(Len(net) + 1) : net'[n] = net[IF n <= i THEN n ELSE n - 1]
    BY <1>1, <1>3, WithTwice
  <2>2. ASSUME NEW n \in DOMAIN net' PROVE \E k \in DOMAIN net : net'[n] = net[k]
    <3>1. n \in 1..(Len(net) + 1) /\ (IF n <= i THEN n ELSE n - 1) \in DOMAIN net
      BY <1>1, <2>1
    <3> QED
      BY <2>1, <3>1
  <2>3. NetIsLogged'
    BY <2>2 DEF TInv, NetIsLogged, LogEnd, Disturb
  <2> QED
    BY <1>1, <1>3, <2>1, <2>3 DEF NetOK
<1>4. CASE net' = [net EXCEPT ![i].repeated = TRUE]
  <2>1. net[i] \in Message
    BY <1>1
  <2>2. \A b \in BOOLEAN : [net[i] EXCEPT !.repeated = b] \in Message
    BY <2>1 DEF Message
  <2>3. [net[i] EXCEPT !.repeated = TRUE] \in Message
    BY <2>2
  <2>4. net' = [net EXCEPT ![i] = [net[i] EXCEPT !.repeated = TRUE]]
    BY <1>4
  <2>5. net' \in Seq(Message) /\ Len(net') = Len(net)
    BY <1>1, <2>3, <2>4
  <2>6. \A k \in DOMAIN net' : k \in DOMAIN net /\ net'[k].seqs = net[k].seqs
    BY <1>1, <2>1, <2>4 DEF Message
  <2>7. NetIsLogged'
    BY <2>6 DEF TInv, NetIsLogged, LogEnd, Disturb
  <2> QED
    BY <1>1, <2>5, <2>7 DEF NetOK
<1> QED
  BY <1>2, <1>3, <1>4 DEF Disturb

\* The state the engine works from.
LEMMA RefreshedType == TInv => Refreshed \in [cursor : 0..MaxSeq, digest : Digests]
  BY DEF TInv, TypeOK, Refreshed

LEMMA RestoredType ==
  ASSUME NEW r \in [attempts : 0..MaxHealAttempts, healed : BOOLEAN],
         r.healed => r.attempts < MaxHealAttempts
  PROVE  /\ Restored(r) \in [kind : HealthKinds, attempts : 0..MaxHealAttempts]
         /\ Restored(r).kind # "Unhealable" => Restored(r).attempts < MaxHealAttempts
  BY ScopeSyncAssumption DEF Restored, Taint, HealthKinds

LEMMA AskType ==
  ASSUME TInv, NEW kind \in {"pull", "bootstrap"}, NEW page \in SUBSET (1..LogEnd),
         Ask(kind, Refreshed.cursor, page)
  PROVE  TInv'
<1>1. Refreshed \in [cursor : 0..MaxSeq, digest : Digests]
  BY RefreshedType
<1>2. PICK m \in Answers(kind, Refreshed.cursor, page) : net' = Append(net, m)
  BY DEF Ask
<1>3. Refreshed.cursor \in 0..MaxSeq
  BY <1>1
<1>4. m \in Message /\ m.seqs \subseteq 1..LogEnd
  BY <1>2, <1>3, AnswerType DEF TInv
<1>5. net \in Seq(Message) /\ Len(net) \in Nat /\ Len(net) < MaxNet /\ MaxNet \in Nat
  BY TInvParts, ScopeSyncAssumption DEF NetOK, Ask
<1>6. /\ net' \in Seq(Message) /\ Len(net') = Len(net) + 1
      /\ DOMAIN net' = 1..(Len(net) + 1) /\ DOMAIN net = 1..Len(net)
      /\ \A n \in 1..Len(net) : net'[n] = net[n]
      /\ net'[Len(net) + 1] = m
  BY <1>2, <1>4, <1>5
<1>7. LogEnd' = LogEnd
  BY DEF Ask, LogEnd
<1>8. NetIsLogged'
  BY <1>4, <1>5, <1>6, <1>7 DEF TInv, NetIsLogged
<1>9. NetOK'
  BY <1>5, <1>6, <1>8 DEF NetOK
<1>10. RestOK'
  BY <1>1, TInvParts DEF Ask, durable, RestOK, AttemptsLeft, LogEnd
<1> QED
  BY <1>9, <1>10, TInvNext

LEMMA WriteType ==
  ASSUME TInv, NEW x \in Rows, NEW o \in Ops, Write(x, o)
  PROVE  TInv'
<1>1. /\ log \in Seq([row : Rows, op : Ops]) /\ Len(log) \in Nat /\ Len(log) < MaxSeq
      /\ MaxSeq \in Nat /\ [row |-> x, op |-> o] \in [row : Rows, op : Ops]
      /\ log' = Append(log, [row |-> x, op |-> o])
  BY ScopeSyncAssumption DEF TInv, TypeOK, Write, LogEnd
<1>2. log' \in Seq([row : Rows, op : Ops]) /\ Len(log') = Len(log) + 1
  BY <1>1
<1>3. NetOK'
  <2>1. net' = net /\ LogEnd \in Nat /\ LogEnd' = LogEnd + 1
    BY <1>1, <1>2 DEF Write, LogEnd
  <2>2. 1..LogEnd \subseteq 1..LogEnd'
    BY <2>1
  <2> QED
    BY <2>1, <2>2, TInvParts DEF NetOK, NetIsLogged
<1>4. RestOK'
  BY <1>1, <1>2, TInvParts DEF Write, memory, durable, RestOK, AttemptsLeft, LogEnd
<1> QED
  BY <1>3, <1>4, TInvNext

LEMMA DeliverType ==
  ASSUME TInv, NEW i \in DOMAIN net, NEW v, Deliver(i, v)
  PROVE  TInv'
<1> DEFINE m == net[i]
<1>1. NetOK'
  BY NetWithout DEF Deliver
<1>2. m \in Message /\ m.seqs \subseteq 1..LogEnd /\ m.seqs \in SUBSET Seqs /\ m.next \in 0..MaxSeq
  <2>1. m \in Message /\ m.seqs \subseteq 1..LogEnd
    BY TInvParts DEF NetOK, NetIsLogged
  <2> HIDE DEF m
  <2> QED
    BY <2>1 DEF Message
<1>3. Refreshed \in [cursor : 0..MaxSeq, digest : Digests]
  BY RefreshedType
<1>4. faults' \in 0..MaxFaults /\ UNCHANGED <<log, damage>>
  <2>1. faults \in 0..MaxFaults /\ MaxFaults \in Nat
    BY ScopeSyncAssumption DEF TInv, TypeOK
  <2>2. Charge(v) /\ UNCHANGED <<log, damage>>
    BY DEF Deliver
  <2> QED
    BY <2>1, <2>2 DEF Charge
<1>5. CASE Refuse(m)
  <2>1. RestOK'
    BY <1>3, <1>4, <1>5, TInvParts DEF Refuse, durable, RestOK, AttemptsLeft, LogEnd
  <2> QED
    BY <1>1, <2>1, TInvNext
<1>6. CASE Accept(m, v)
  <2> DEFINE new      == [cursor |-> m.next, digest |-> StagedDigest(Refreshed.digest, m.seqs)]
             diverged == Compares(m) /\ new.digest # m.digest
             counts   == Counts(diverged, m.kind = "bootstrap")
             heals    == Compares(m) /\ ~diverged /\ NeedsRebootstrap(health)
  <2>1. new \in [cursor : 0..MaxSeq, digest : Digests]
    <3>1. StagedDigest(Refreshed.digest, m.seqs) \in Digests
      BY <1>2, <1>3, StagedDigestType
    <3> HIDE DEF m
    <3> QED
      BY <1>2, <3>1
  <2>2. StagedRows(m.seqs) \in [Rows -> Versions \cup {0}]
    BY <1>2, StagedRowsType DEF TInv
  <2>3. counts => health.attempts < MaxHealAttempts
    BY DEF Counts, IsHealthy, NeedsRebootstrap, TInv, AttemptsLeft
  <2>4. heals => health.attempts < MaxHealAttempts /\ ~counts
    BY DEF Counts, NeedsRebootstrap, TInv, AttemptsLeft
  <2>5. /\ stored' = new \/ stored' = stored
        /\ rows' = StagedRows(m.seqs) \/ rows' = rows
        /\ record' = Recorded(counts, heals) \/ record' = record
        /\ scope' = new \/ scope' = Refreshed
        /\ suspect' \in BOOLEAN
        /\ \/ health' = health
           \/ counts /\ health' = Taint(health.attempts + 1)
           \/ ~counts /\ heals /\ health' = [kind |-> "Healed", attempts |-> health.attempts]
        /\ booting' = booting \/ booting' = (booting /\ ~(m.kind = "bootstrap" /\ ~m.more))
        /\ UNCHANGED <<damaged, pardoned>>
    BY <1>6 DEF Accept, durable
  <2> HIDE DEF new, diverged, counts, heals
  <2>6. /\ health \in [kind : HealthKinds, attempts : 0..MaxHealAttempts]
        /\ record \in [attempts : 0..MaxHealAttempts, healed : BOOLEAN]
        /\ MaxHealAttempts \in Nat \ {0}
        /\ health.attempts \in Nat
    BY ScopeSyncAssumption DEF TInv, TypeOK
  <2>7. /\ record' \in [attempts : 0..MaxHealAttempts, healed : BOOLEAN]
        /\ record'.healed => record'.attempts < MaxHealAttempts
    <3>1. CASE record' = record
      BY <2>6, <3>1 DEF TInv, AttemptsLeft
    <3>2. CASE counts /\ record' = [attempts |-> health.attempts + 1, healed |-> FALSE]
      BY <2>3, <2>6, <3>2
    <3>3. CASE heals /\ record' = [attempts |-> health.attempts, healed |-> TRUE]
      BY <2>4, <2>6, <3>3
    <3> QED
      BY <2>5, <3>1, <3>2, <3>3 DEF Recorded
  <2>8. /\ health' \in [kind : HealthKinds, attempts : 0..MaxHealAttempts]
        /\ health'.kind # "Unhealable" => health'.attempts < MaxHealAttempts
    <3>1. CASE health' = health
      BY <2>6, <3>1 DEF TInv, AttemptsLeft
    <3>2. CASE counts /\ health' = Taint(health.attempts + 1)
      BY <2>3, <2>6, <3>2 DEF Taint, HealthKinds
    <3>3. CASE heals /\ health' = [kind |-> "Healed", attempts |-> health.attempts]
      BY <2>4, <2>6, <3>3 DEF HealthKinds
    <3> QED
      BY <2>5, <3>1, <3>2, <3>3
  <2>9. booting' \in BOOLEAN
    BY <2>5 DEF TInv, TypeOK
  <2>10. RestOK'
    <3>1. /\ stored' \in [cursor : 0..MaxSeq, digest : Digests]
          /\ scope' \in [cursor : 0..MaxSeq, digest : Digests]
          /\ rows' \in [Rows -> Versions \cup {0}]
      BY <1>3, <2>1, <2>2, <2>5 DEF TInv, TypeOK
    <3>2. AttemptsLeft'
      BY <2>7, <2>8 DEF AttemptsLeft
    <3> QED
      BY <1>4, <2>5, <2>7, <2>8, <2>9, <3>1, <3>2, TInvParts DEF RestOK, LogEnd
  <2> QED
    BY <1>1, <2>10, TInvNext
<1> QED
  BY <1>5, <1>6 DEF Deliver

LEMMA NewScopeType == NewScope \in [cursor : 0..MaxSeq, digest : Digests]
  BY EmptyType, ScopeSyncAssumption DEF NewScope

LEMMA InitType == Init => TInv
<1> SUFFICES ASSUME Init PROVE TInv
  OBVIOUS
<1>1. net \in Seq(Message) /\ Len(net) = 0 /\ log \in Seq([row : Rows, op : Ops]) /\ LogEnd = 0
  BY DEF Init, LogEnd
<1>2. NetOK
  BY <1>1, ScopeSyncAssumption DEF Init, NetOK, NetIsLogged
<1>3. health = [kind |-> "Healthy", attempts |-> 0]
  BY DEF Init, Restored
<1>4. /\ health \in [kind : HealthKinds, attempts : 0..MaxHealAttempts]
      /\ record \in [attempts : 0..MaxHealAttempts, healed : BOOLEAN]
      /\ AttemptsLeft
  BY <1>3, ScopeSyncAssumption DEF Init, AttemptsLeft, HealthKinds
<1>5. rows \in [Rows -> Versions \cup {0}] /\ LogEnd <= MaxSeq
  BY <1>1, ScopeSyncAssumption DEF Init
<1>6. RestOK
  <2>1. /\ suspect \in BOOLEAN /\ booting \in BOOLEAN
        /\ damaged \in BOOLEAN /\ pardoned \in BOOLEAN
    BY DEF Init
  <2>2. faults \in 0..MaxFaults /\ damage \in 0..MaxDamage
    BY ScopeSyncAssumption DEF Init
  <2>3. scope = NewScope /\ stored = NewScope
    BY DEF Init
  <2> QED
    BY <1>1, <1>4, <1>5, <2>1, <2>2, <2>3, NewScopeType DEF RestOK
<1> QED
  BY <1>2, <1>6, TInvParts

LEMMA HealType ==
  ASSUME TInv, NEW v, BeginRebootstrap(v) \/ ClearScopeHealth(v)
  PROVE  TInv'
<1>1. NetOK' /\ LogEnd' = LogEnd
  BY TInvParts DEF BeginRebootstrap, ClearScopeHealth, NetOK, NetIsLogged, LogEnd
<1>2. faults' \in 0..MaxFaults
  BY ScopeSyncAssumption DEF BeginRebootstrap, ClearScopeHealth, Charge, TInv, TypeOK
<1>3. CASE BeginRebootstrap(v)
  <2>1. RestOK'
    BY <1>1, <1>2, <1>3, NewScopeType, TInvParts DEF BeginRebootstrap, RestOK, AttemptsLeft
  <2> QED
    BY <1>1, <2>1, TInvNext
<1>4. CASE ClearScopeHealth(v)
  <2> DEFINE none == [attempts |-> 0, healed |-> FALSE]
  <2>1. /\ none \in [attempts : 0..MaxHealAttempts, healed : BOOLEAN]
        /\ ~none.healed /\ MaxHealAttempts \in Nat \ {0}
    BY ScopeSyncAssumption
  <2>2. Restored(none) = [kind |-> "Healthy", attempts |-> 0]
    BY DEF Restored
  <2>3. record' \in {none, record} /\ health' \in {[kind |-> "Healthy", attempts |-> 0], health}
    BY <1>4, <2>2 DEF ClearScopeHealth
  <2>4. /\ record' \in [attempts : 0..MaxHealAttempts, healed : BOOLEAN]
        /\ health' \in [kind : HealthKinds, attempts : 0..MaxHealAttempts]
        /\ AttemptsLeft'
    <3>1. /\ [kind |-> "Healthy", attempts |-> 0] \in
               [kind : HealthKinds, attempts : 0..MaxHealAttempts]
          /\ [kind |-> "Healthy", attempts |-> 0].attempts < MaxHealAttempts
      BY <2>1 DEF HealthKinds
    <3>2. /\ record' \in [attempts : 0..MaxHealAttempts, healed : BOOLEAN]
          /\ record'.healed => record'.attempts < MaxHealAttempts
      BY <2>1, <2>3 DEF TInv, TypeOK, AttemptsLeft
    <3>3. /\ health' \in [kind : HealthKinds, attempts : 0..MaxHealAttempts]
          /\ health'.kind # "Unhealable" => health'.attempts < MaxHealAttempts
      BY <2>3, <3>1 DEF TInv, TypeOK, AttemptsLeft
    <3> QED
      BY <3>2, <3>3 DEF AttemptsLeft
  <2>5. pardoned' \in BOOLEAN
    BY <1>4 DEF ClearScopeHealth, IsHealthy
  <2>6. RestOK'
    BY <1>1, <1>2, <1>4, <2>4, <2>5, TInvParts DEF ClearScopeHealth, RestOK
  <2> QED
    BY <1>1, <2>6, TInvNext
<1> QED
  BY <1>3, <1>4

LEMMA RestartType ==
  ASSUME TInv, Restart
  PROVE  TInv'
<1>1. NetOK' /\ LogEnd' = LogEnd /\ faults' \in 0..MaxFaults
  BY TInvParts, ScopeSyncAssumption DEF Restart, NetOK, NetIsLogged, LogEnd, RestOK
<1>2. PICK d \in {stored.digest, FromRows(rows)} : scope' = [stored EXCEPT !.digest = d]
  BY DEF Restart
<1>3. d \in Digests
  BY FromRowsType DEF TInv, TypeOK
<1>4. scope' \in [cursor : 0..MaxSeq, digest : Digests]
  BY <1>2, <1>3 DEF TInv, TypeOK
<1>5. /\ health' \in [kind : HealthKinds, attempts : 0..MaxHealAttempts]
      /\ health'.kind # "Unhealable" => health'.attempts < MaxHealAttempts
  BY RestoredType DEF Restart, TInv, TypeOK, AttemptsLeft
<1>6. RestOK'
  BY <1>1, <1>4, <1>5, TInvParts DEF Restart, durable, RestOK, AttemptsLeft
<1> QED
  BY <1>1, <1>6, TInvNext

LEMMA DamageType ==
  ASSUME TInv, NEW x \in Rows, Damage(x)
  PROVE  TInv'
<1>1. NetOK' /\ LogEnd' = LogEnd
  BY TInvParts DEF Damage, NetOK, NetIsLogged, LogEnd
<1>2. damage' \in 0..MaxDamage
  BY ScopeSyncAssumption DEF Damage, TInv, TypeOK
<1>3. rows' \in [Rows -> Versions \cup {0}]
  BY SeqBounds DEF Damage, TInv, TypeOK
<1>4. RestOK'
  BY <1>1, <1>2, <1>3, TInvParts DEF Damage, memory, RestOK, AttemptsLeft
<1> QED
  BY <1>1, <1>4, TInvNext

LEMMA NextType == TInv /\ [Next]_vars => TInv'
<1> SUFFICES ASSUME TInv, [Next]_vars PROVE TInv'
  OBVIOUS
<1>1. CASE \E x \in Rows, o \in Ops : Write(x, o)
  BY <1>1, WriteType
<1>2. CASE PullStep \/ BootstrapStep
  <2>1. Refreshed.cursor \in 0..MaxSeq /\ LogEnd \in Nat
    BY RefreshedType, SeqBounds DEF TInv
  <2>2. /\ PullPage(Refreshed.cursor) \in SUBSET (1..LogEnd)
        /\ BootstrapPage(Refreshed.cursor) \in SUBSET (1..LogEnd)
    BY <2>1, ScopeSyncAssumption DEF PullPage, BootstrapPage
  <2> QED
    BY <1>2, <2>2, AskType DEF PullStep, BootstrapStep
<1>3. CASE \E i \in Due, v \in StorageMay : Deliver(i, v)
  BY <1>3, DeliverType DEF Due
<1>4. CASE \E i \in DOMAIN net : Disturb(i)
  <2>1. NetOK'
    BY <1>4, NetDisturb
  <2>a. UNCHANGED <<log, scope, suspect, health, stored, rows, record, booting, damaged,
                    pardoned, damage>>
    BY <1>4 DEF Disturb, memory, durable
  <2>b. faults' \in 0..MaxFaults
    <3>1. faults \in 0..MaxFaults /\ MaxFaults \in Nat
      BY ScopeSyncAssumption DEF TInv, TypeOK
    <3>2. faults < MaxFaults /\ faults' = faults + 1
      BY <1>4 DEF Disturb
    <3> QED
      BY <3>1, <3>2
  <2>2. RestOK'
    BY <2>a, <2>b, TInvParts DEF RestOK, AttemptsLeft, LogEnd
  <2> QED
    BY <2>1, <2>2, TInvNext
<1>5. CASE \E v \in StorageMay : BeginRebootstrap(v) \/ ClearScopeHealth(v)
  BY <1>5, HealType
<1>6. CASE Restart
  BY <1>6, RestartType
<1>7. CASE \E x \in Rows : Damage(x)
  BY <1>7, DamageType
<1>8. CASE UNCHANGED vars
  BY <1>8 DEF vars, TInv, TypeOK, NetIsLogged, AttemptsLeft, LogEnd
<1> QED
  BY <1>1, <1>2, <1>3, <1>4, <1>5, <1>6, <1>7, <1>8 DEF Next

LEMMA TypesHold == Spec => []TInv
  BY InitType, NextType, PTL DEF Spec

\* The state is well-typed; in particular the count of divergences stays within
\* MAX_HEAL_ATTEMPTS in memory and in storage, whatever fails.
THEOREM ScopeSyncTypeOK == Spec => []TypeOK
<1>1. TInv => TypeOK
  BY DEF TInv
<1> QED
  BY <1>1, TypesHold, PTL

-----------------------------------------------------------------------------
(* The history of divergences.                                             *)

\* Giving up is recorded.
GivenUpIsStored == health.kind = "Unhealable" /\ ~pardoned => Restored(record).kind = "Unhealable"

LEMMA GivenUpStep ==
  TInv /\ GivenUpIsStored /\ [Next]_vars =>
    /\ GivenUpIsStored'
    /\ health.kind = "Unhealable" /\ health'.kind # "Unhealable" => pardoned'
<1> SUFFICES ASSUME TInv, GivenUpIsStored, [Next]_vars
             PROVE  /\ GivenUpIsStored'
                    /\ health.kind = "Unhealable" /\ health'.kind # "Unhealable" => pardoned'
  OBVIOUS
<1>0. pardoned \in BOOLEAN /\ health.attempts \in Nat /\ MaxHealAttempts \in Nat
  BY ScopeSyncAssumption DEF TInv, TypeOK
<1>1. CASE UNCHANGED <<health, record, pardoned>>
  BY <1>1 DEF GivenUpIsStored
<1>2. CASE \E i \in Due, v \in StorageMay : Deliver(i, v)
  <2>1. PICK i \in Due, v \in StorageMay : Deliver(i, v)
    BY <1>2
  <2> DEFINE m == net[i]
  <2>2. CASE Refuse(m)
    BY <1>1, <2>2 DEF Refuse, durable
  <2>3. CASE Accept(m, v)
    <3> DEFINE new      == [cursor |-> m.next, digest |-> StagedDigest(Refreshed.digest, m.seqs)]
               diverged == Compares(m) /\ new.digest # m.digest
               counts   == Counts(diverged, m.kind = "bootstrap")
               heals    == Compares(m) /\ ~diverged /\ NeedsRebootstrap(health)
    <3>1. /\ pardoned' = pardoned
          /\ IF Landed(v) THEN record' = Recorded(counts, heals) ELSE record' = record
          /\ IF ToldOk(v)
               THEN health' = IF counts THEN Taint(health.attempts + 1)
                              ELSE IF heals THEN [kind |-> "Healed", attempts |-> health.attempts]
                              ELSE health
               ELSE health' = health
      BY <2>3 DEF Accept, durable
    <3>2. counts \/ heals => health.kind # "Unhealable"
      BY DEF Counts, IsHealthy, NeedsRebootstrap
    <3> HIDE DEF new, diverged, counts, heals
    <3>3. CASE health.kind = "Unhealable"
      BY <1>1, <3>1, <3>2, <3>3 DEF Recorded
    <3>4. CASE health.kind # "Unhealable" /\ health'.kind = "Unhealable"
      <4>1. /\ counts /\ record' = [attempts |-> health.attempts + 1, healed |-> FALSE]
            /\ health' = Taint(health.attempts + 1)
        BY <3>1, <3>4 DEF Landed, ToldOk, Recorded
      <4>2. Restored(record') = Taint(health.attempts + 1)
        BY <1>0, <4>1 DEF Restored
      <4>3. Restored(record)' = Restored(record')
        BY DEF Restored, Taint
      <4> QED
        BY <3>4, <4>1, <4>2, <4>3 DEF GivenUpIsStored
    <3>5. CASE health.kind # "Unhealable" /\ health'.kind # "Unhealable"
      BY <3>5 DEF GivenUpIsStored
    <3> QED
      BY <3>3, <3>4, <3>5
  <2> QED
    BY <2>1, <2>2, <2>3 DEF Deliver
<1>3. CASE \E v \in StorageMay : ClearScopeHealth(v)
  <2>1. PICK v \in StorageMay : ClearScopeHealth(v)
    BY <1>3
  <2>2. pardoned' = (pardoned \/ ~IsHealthy(health))
    BY <2>1 DEF ClearScopeHealth
  <2>3. health'.kind = "Unhealable" => health' = health
    BY <2>1 DEF ClearScopeHealth, Restored
  <2>4. health.kind = "Unhealable" => pardoned'
    BY <2>2 DEF IsHealthy
  <2> QED
    BY <2>3, <2>4 DEF GivenUpIsStored
<1>4. CASE Restart
  <2>1. health' = Restored(record) /\ record' = record /\ pardoned' = pardoned
    BY <1>4 DEF Restart, durable
  <2>2. Restored(record)' = Restored(record)
    BY <2>1 DEF Restored, Taint
  <2> QED
    BY <2>1, <2>2 DEF GivenUpIsStored
<1> QED
  BY <1>1, <1>2, <1>3, <1>4
  DEF Next, vars, Write, memory, durable, PullStep, BootstrapStep, Ask, Disturb,
      BeginRebootstrap, Damage

\* Giving up is final: however the transactions ended around it, no restart brings a
\* scope that healing gave up on back, unless the host cleared its history.
THEOREM ScopeSyncEscalationSurvives == Spec => EscalationSurvives
<1>1. Init => GivenUpIsStored
  BY DEF Init, GivenUpIsStored, Restored
<1>2. TInv /\ GivenUpIsStored /\ [Next]_vars => GivenUpIsStored'
  BY GivenUpStep
<1>3. TInv /\ GivenUpIsStored /\ [Next]_vars
        => [health.kind = "Unhealable" /\ health'.kind # "Unhealable" => pardoned']_vars
  BY GivenUpStep
<1> QED
  BY <1>1, <1>2, <1>3, TypesHold, PTL DEF Spec, EscalationSurvives

\* An adapter that keeps its contract: what it reports as failed was not committed.
HonestStorage == "CommitThenLoseAck" \notin StorageMay

LEMMA HealthStep == HonestStorage /\ TInv /\ HealthIsStored /\ [Next]_vars => HealthIsStored'
<1> SUFFICES ASSUME HonestStorage, TInv, HealthIsStored, [Next]_vars
             PROVE  HealthIsStored'
  OBVIOUS
<1>0. health.attempts \in Nat
  BY ScopeSyncAssumption DEF TInv, TypeOK
<1>a. \A v \in StorageMay : Landed(v) <=> ToldOk(v)
  BY ScopeSyncAssumption DEF HonestStorage, Landed, ToldOk, Verdicts
<1>b. Restored(record)' = Restored(record')
  BY DEF Restored, Taint
<1>1. CASE UNCHANGED <<health, record>>
  BY <1>1, <1>b DEF HealthIsStored
<1>2. CASE \E i \in Due, v \in StorageMay : Deliver(i, v)
  <2>1. PICK i \in Due, v \in StorageMay : Deliver(i, v)
    BY <1>2
  <2> DEFINE m == net[i]
  <2>2. CASE Refuse(m)
    BY <1>1, <2>2 DEF Refuse, durable
  <2>3. CASE Accept(m, v)
    <3> DEFINE new      == [cursor |-> m.next, digest |-> StagedDigest(Refreshed.digest, m.seqs)]
               diverged == Compares(m) /\ new.digest # m.digest
               counts   == Counts(diverged, m.kind = "bootstrap")
               heals    == Compares(m) /\ ~diverged /\ NeedsRebootstrap(health)
    <3>1. /\ IF Landed(v) THEN record' = Recorded(counts, heals) ELSE record' = record
          /\ IF ToldOk(v)
               THEN health' = IF counts THEN Taint(health.attempts + 1)
                              ELSE IF heals THEN [kind |-> "Healed", attempts |-> health.attempts]
                              ELSE health
               ELSE health' = health
      BY <2>3 DEF Accept, durable
    <3>2. heals => health.attempts # 0
      BY DEF NeedsRebootstrap, HealthIsStored, Restored, Taint
    <3> HIDE DEF new, diverged, counts, heals
    <3>3. CASE counts /\ Landed(v)
      <4>1. /\ record' = [attempts |-> health.attempts + 1, healed |-> FALSE]
            /\ health' = Taint(health.attempts + 1)
        BY <1>a, <3>1, <3>3 DEF Recorded
      <4>2. Restored(record') = Taint(health.attempts + 1)
        BY <1>0, <4>1 DEF Restored
      <4> QED
        BY <1>b, <4>1, <4>2 DEF HealthIsStored
    <3>4. CASE ~counts /\ heals /\ Landed(v)
      <4>1. /\ record' = [attempts |-> health.attempts, healed |-> TRUE]
            /\ health' = [kind |-> "Healed", attempts |-> health.attempts]
        BY <1>a, <3>1, <3>4 DEF Recorded
      <4>2. Restored(record') = [kind |-> "Healed", attempts |-> health.attempts]
        BY <3>2, <3>4, <4>1 DEF Restored
      <4> QED
        BY <1>b, <4>1, <4>2 DEF HealthIsStored
    <3>5. CASE ~Landed(v) \/ (~counts /\ ~heals)
      <4>1. UNCHANGED <<health, record>>
        BY <1>a, <3>1, <3>5 DEF Recorded
      <4> QED
        BY <1>1, <4>1
    <3> QED
      BY <3>3, <3>4, <3>5
  <2> QED
    BY <2>1, <2>2, <2>3 DEF Deliver
<1>3. CASE \E v \in StorageMay : ClearScopeHealth(v)
  <2>1. PICK v \in StorageMay : ClearScopeHealth(v)
    BY <1>3
  <2>2. CASE Landed(v)
    <3>1. record' = [attempts |-> 0, healed |-> FALSE]
          /\ health' = Restored([attempts |-> 0, healed |-> FALSE])
      BY <1>a, <2>1, <2>2 DEF ClearScopeHealth
    <3> QED
      BY <1>b, <3>1 DEF HealthIsStored
  <2>3. CASE ~Landed(v)
    BY <1>1, <1>a, <2>1, <2>3 DEF ClearScopeHealth
  <2> QED
    BY <2>2, <2>3
<1>4. CASE Restart
  <2>1. health' = Restored(record) /\ record' = record
    BY <1>4 DEF Restart, durable
  <2> QED
    BY <1>b, <2>1 DEF HealthIsStored
<1> QED
  BY <1>1, <1>2, <1>3, <1>4
  DEF Next, vars, Write, memory, durable, PullStep, BootstrapStep, Ask, Disturb,
      BeginRebootstrap, Damage

\* Under an adapter that keeps its contract the engine goes by the history of divergences
\* that storage has, so a restart changes nothing about how often healing is tried.
THEOREM ScopeSyncHealthIsStored ==
  ASSUME HonestStorage
  PROVE  Spec => []HealthIsStored
<1>1. Init => HealthIsStored
  BY DEF Init, HealthIsStored
<1>2. TInv /\ HealthIsStored /\ [Next]_vars => HealthIsStored'
  BY HealthStep
<1> QED
  BY <1>1, <1>2, TypesHold, PTL DEF Spec

-----------------------------------------------------------------------------
(* The running digest is the digest of the rows.                           *)

\* Every change arrives under a schema this app has, or can migrate.
KnownSchema == "alien" \notin Ops

\* The changes of a batch to one row.
Mine(b, x) == {s \in b : log[s].row = x}

\* What a change leaves of its row.
Left(s) == IF log[s].op = "delete" THEN 0 ELSE s

\* The first change of a batch to a row finds what storage holds, every other one what
\* the change before it left.
LEMMA CurrentIs ==
  ASSUME TypeOK, NEW b \in SUBSET (1..LogEnd), NEW x, NEW s \in Mine(b, x)
  PROVE  /\ (\A t \in Mine(b, x) : s <= t) => Current(b, s) = rows[x]
         /\ \A p \in Mine(b, x) :
              p < s /\ (\A t \in Mine(b, x) : t < s => t <= p) => Current(b, s) = Left(p)
<1>1. MaxSeq \in Nat /\ \A t \in b : t \in 0..MaxSeq /\ t \in Nat
  <2>1. MaxSeq \in Nat /\ 1..LogEnd \subseteq Seqs /\ Seqs \subseteq 0..MaxSeq
    BY SeqBounds
  <2>2. \A t \in b : t \in 0..MaxSeq
    BY <2>1
  <2> QED
    BY <2>1, <2>2
<1>2. s \in b /\ log[s].row = x /\ s \in Nat
  BY <1>1 DEF Mine
<1> DEFINE e == Earlier(b, x, s)
<1>3. Current(b, s) = IF e = {} THEN rows[x] ELSE Left(Max(e))
  BY <1>2 DEF Current, Left
<1>4. \A t : t \in e <=> t \in Mine(b, x) /\ t < s
  BY DEF Earlier, Mine
<1>5. e \subseteq 0..MaxSeq
  BY <1>1, <1>4 DEF Mine
<1> HIDE DEF e
<1>6. ASSUME \A t \in Mine(b, x) : s <= t PROVE Current(b, s) = rows[x]
  <2>1. \A t \in Mine(b, x) : t \in Nat
    BY <1>1 DEF Mine
  <2>2. ASSUME NEW t \in e PROVE FALSE
    <3>1. t \in Mine(b, x) /\ t < s
      BY <1>4
    <3>2. t \in Nat /\ s <= t
      BY <1>6, <2>1, <3>1
    <3> QED
      BY <1>2, <3>1, <3>2
  <2> QED
    BY <1>3, <2>2
<1>7. ASSUME NEW p \in Mine(b, x), p < s, \A t \in Mine(b, x) : t < s => t <= p
      PROVE  Current(b, s) = Left(p)
  <2>1. p \in e /\ \A t \in e : t <= p
    BY <1>4, <1>7
  <2>2. Max(e) = p
    BY <1>1, <1>5, <2>1, MaxIs
  <2> QED
    BY <1>3, <2>1, <2>2
<1> QED
  BY <1>6, <1>7

\* What the batch takes out of the digest of row x under version v: what storage held, if
\* there is a change of the row at all, and each version it wrote but the last.
LEMMA TakenOut ==
  ASSUME TypeOK, NEW b \in SUBSET (1..LogEnd), NEW x \in Rows, NEW v \in Versions,
         NEW lo \in Mine(b, x), \A t \in Mine(b, x) : lo <= t,
         NEW hi \in Mine(b, x), \A t \in Mine(b, x) : t <= hi
  PROVE  Cardinality({s \in b : log[s].row = x /\ Current(b, s) = v})
           = (IF rows[x] = v THEN 1 ELSE 0)
             + (IF v \in Mine(b, x) /\ log[v].op # "delete" /\ v # hi THEN 1 ELSE 0)
<1> DEFINE B == Mine(b, x)
           C == {s \in b : log[s].row = x /\ Current(b, s) = v}
<1>0. B \subseteq b /\ \A s : s \in C <=> s \in B /\ Current(b, s) = v
  BY DEF Mine
<1>1. \A t \in B : t \in Nat
  <2>1. \A t \in b : t \in 0..MaxSeq
    BY SeqBounds
  <2>2. \A t \in 0..MaxSeq : t \in Nat
    BY ScopeSyncAssumption
  <2> QED
    BY <2>1, <2>2 DEF Mine
<1>2. v \in Nat /\ v # 0
  BY ScopeSyncAssumption DEF Versions
<1>3. Current(b, lo) = rows[x]
  BY CurrentIs
<1>4. ASSUME NEW s \in B, s # lo
      PROVE  \E p \in B : p < s /\ (\A t \in B : t < s => t <= p) /\ Current(b, s) = Left(p)
  <2> DEFINE e == {t \in B : t < s}
  <2>1. lo \in e
    BY <1>1, <1>4
  <2>2. e \subseteq 0..s /\ s \in Nat
    BY <1>1
  <2>3. Max(e) \in e /\ \A t \in e : t <= Max(e)
    BY <2>1, <2>2, MaxIsGreatest
  <2> DEFINE p == Max(e)
  <2>4. p \in B /\ p < s /\ \A t \in B : t < s => t <= p
    BY <2>3
  <2> HIDE DEF p
  <2>5. Current(b, s) = Left(p)
    BY <2>4, CurrentIs
  <2> QED
    BY <2>4, <2>5
<1> SUFFICES Cardinality(C) = (IF rows[x] = v THEN 1 ELSE 0)
                               + (IF v \in B /\ log[v].op # "delete" /\ v # hi THEN 1 ELSE 0)
  OBVIOUS
<1> HIDE DEF B, C
<1>5. lo \in B /\ hi \in B /\ (\A t \in B : lo <= t) /\ (\A t \in B : t <= hi)
  BY DEF B
<1>a. \A s \in B : \A p \in B :
        p < s /\ (\A t \in B : t < s => t <= p) => Current(b, s) = Left(p)
  BY CurrentIs DEF B
<1>6. CASE ~(v \in B /\ log[v].op # "delete" /\ v # hi)
  <2>1. \A s \in C : s = lo
    <3> SUFFICES ASSUME NEW s \in C, s # lo PROVE FALSE
      OBVIOUS
    <3>1. PICK p \in B : p < s /\ Current(b, s) = Left(p)
      BY <1>0, <1>4
    <3>2. Left(p) = v
      BY <1>0, <3>1
    <3>3. p = v /\ log[v].op # "delete"
      BY <1>2, <3>2 DEF Left
    <3>4. s \in B /\ s <= hi /\ s \in Nat /\ p \in Nat /\ hi \in Nat
      BY <1>0, <1>1, <1>5
    <3> QED
      BY <1>6, <3>1, <3>3, <3>4
  <2>2. CASE rows[x] = v
    <3>1. C = {lo}
      BY <1>0, <1>3, <1>5, <2>1, <2>2
    <3> QED
      <4>1. Cardinality(C) = 1
        BY <3>1, SmallCounts
      <4> QED
        BY <1>6, <2>2, <4>1
  <2>3. CASE rows[x] # v
    <3>1. C = {}
      BY <1>0, <1>3, <2>1, <2>3
    <3> QED
      BY <1>6, <2>3, <3>1, SmallCounts
  <2> QED
    BY <2>2, <2>3
<1>7. CASE v \in B /\ log[v].op # "delete" /\ v # hi
  <2> DEFINE N == {t \in B : v < t}
  <2>1. hi \in N /\ N \subseteq Nat
    <3>1. v <= hi /\ v # hi /\ hi \in Nat
      BY <1>1, <1>5, <1>7
    <3>2. v < hi
      BY <1>2, <3>1
    <3> QED
      BY <1>1, <1>5, <3>2
  <2>2. PICK nx \in N : \A t \in N : nx <= t
    BY <2>1, LeastExists
  <2>3. nx \in B /\ v < nx /\ nx \in Nat /\ \A t \in B : t < nx => t <= v
    BY <1>1, <1>2, <2>2
  <2>4. Current(b, nx) = v
    BY <1>7, <1>a, <2>3 DEF Left
  <2>5. lo # nx
    BY <1>1, <1>2, <1>5, <1>7, <2>3
  <2>6. \A s \in C : s # lo => s = nx
    <3> SUFFICES ASSUME NEW s \in C, s # lo PROVE s = nx
      OBVIOUS
    <3>1. s \in B /\ s \in Nat
      BY <1>0, <1>1
    <3>2. PICK p \in B : p < s /\ (\A t \in B : t < s => t <= p) /\ Current(b, s) = Left(p)
      BY <1>4, <3>1
    <3>3. Left(p) = v
      BY <1>0, <3>2
    <3>4. p = v
      BY <1>2, <3>3 DEF Left
    <3>5. nx <= s
      BY <2>2, <3>1, <3>2, <3>4
    <3>6. ~(nx < s)
      BY <1>2, <2>3, <3>2, <3>4
    <3> QED
      BY <2>3, <3>1, <3>5, <3>6
  <2> HIDE DEF N
  <2>7. CASE rows[x] = v
    <3>1. C = {lo, nx}
      BY <1>0, <1>3, <1>5, <2>3, <2>4, <2>6, <2>7
    <3> QED
      <4>1. Cardinality(C) = 2
        BY <2>5, <3>1, SmallCounts
      <4> QED
        BY <1>7, <2>7, <4>1
  <2>8. CASE rows[x] # v
    <3>1. C = {nx}
      BY <1>0, <1>3, <2>3, <2>4, <2>6, <2>8
    <3> QED
      <4>1. Cardinality(C) = 1
        BY <3>1, SmallCounts
      <4> QED
        BY <1>7, <2>8, <4>1
  <2> QED
    BY <2>7, <2>8
<1> QED
  BY <1>6, <1>7

\* Changes of a known schema, staged one by one, leave the digest of the rows they leave.
LEMMA StagedDescribes ==
  ASSUME TypeOK, KnownSchema, NEW b \in SUBSET (1..LogEnd)
  PROVE  StagedDigest(FromRows(rows), b) = FromRows(StagedRows(b))
<1>0. \A s \in b : log[s].op # "alien" /\ s \in Nat
  <2> SUFFICES ASSUME NEW s \in b
               PROVE  log[s].op # "alien" /\ s \in Nat
    OBVIOUS
  <2> DEFINE Entry == [row : Rows, op : Ops]
  <2>1. log \in Seq(Entry) /\ s \in 1..Len(log)
    BY DEF TypeOK, LogEnd
  <2>2. log[s] \in Entry
    <3> HIDE DEF Entry
    <3> QED
      BY <2>1
  <2>3. s \in Nat
    BY SeqBounds
  <2> QED
    BY <2>2, <2>3 DEF KnownSchema
<1>1. b \subseteq 0..MaxSeq /\ b \in SUBSET Seqs /\ MaxSeq \in Nat
  BY SeqBounds
<1>2. ASSUME NEW x \in Rows, NEW v \in Versions
      PROVE  StagedDigest(FromRows(rows), b)[x][v] = FromRows(StagedRows(b))[x][v]
  <2> DEFINE B == Mine(b, x)
             A == {s \in b : log[s].row = x /\ log[s].op # "delete" /\ s = v}
             C == {s \in b : log[s].row = x /\ Current(b, s) = v}
  <2>1. StagedDigest(FromRows(rows), b)[x][v]
          = (IF rows[x] = v THEN 1 ELSE 0) + Cardinality(A) - Cardinality(C)
    BY DEF StagedDigest, FromRows
  <2>2. FromRows(StagedRows(b))[x][v] = IF StagedRows(b)[x] = v THEN 1 ELSE 0
    BY DEF FromRows
  <2>3. StagedRows(b)[x] = IF B = {} THEN rows[x] ELSE Left(Max(B))
    <3>1. {s \in b : log[s].row = x /\ log[s].op # "alien"} = B
      BY <1>0 DEF Mine
    <3> QED
      BY <3>1 DEF StagedRows, Left
  <2>4. v \in Nat /\ v # 0
    BY ScopeSyncAssumption DEF Versions
  <2>5. A = IF v \in B /\ log[v].op # "delete" THEN {v} ELSE {}
    BY DEF Mine
  <2>6. CASE B = {}
    <3>1. A = {} /\ C = {}
      BY <2>6 DEF Mine
    <3>2. Cardinality(A) = 0 /\ Cardinality(C) = 0
      BY <3>1, SmallCounts
    <3> HIDE DEF A, C
    <3> QED
      BY <2>1, <2>2, <2>3, <2>6, <3>2
  <2>7. CASE B # {}
    <3>1. B \subseteq 0..MaxSeq /\ B \subseteq Nat
      BY <1>0, <1>1 DEF Mine
    <3> DEFINE hi == Max(B)
    <3>2. hi \in B /\ \A t \in B : t <= hi
      BY <1>1, <2>7, <3>1, MaxIsGreatest
    <3>3. PICK lo \in B : \A t \in B : lo <= t
      BY <2>7, <3>1, LeastExists
    <3>4. StagedRows(b)[x] = Left(hi)
      BY <2>3, <2>7
    <3> HIDE DEF hi
    <3>5. Cardinality(C) = (IF rows[x] = v THEN 1 ELSE 0)
                           + (IF v \in B /\ log[v].op # "delete" /\ v # hi THEN 1 ELSE 0)
      BY <3>2, <3>3, TakenOut
    <3>6. Cardinality(A) = IF v \in B /\ log[v].op # "delete" THEN 1 ELSE 0
      BY <2>5, SmallCounts
    <3>7. (Left(hi) = v) <=> (log[v].op # "delete" /\ v = hi)
      BY <2>4 DEF Left
    <3> HIDE DEF A, B, C
    <3>8. CASE v \in B /\ log[v].op # "delete" /\ v # hi
      BY <2>1, <2>2, <3>4, <3>5, <3>6, <3>7, <3>8
    <3>9. CASE v \in B /\ log[v].op # "delete" /\ v = hi
      BY <2>1, <2>2, <3>4, <3>5, <3>6, <3>7, <3>9
    <3>10. CASE ~(v \in B /\ log[v].op # "delete")
      BY <2>1, <2>2, <3>2, <3>4, <3>5, <3>6, <3>7, <3>10
    <3> QED
      BY <3>8, <3>9, <3>10
  <2> QED
    BY <2>6, <2>7
<1>3. StagedDigest(FromRows(rows), b) \in Digests /\ FromRows(StagedRows(b)) \in Digests
  BY <1>1, FromRowsType, StagedDigestType
<1>4. \A d, e \in Digests :
        (\A x \in Rows : \A v \in Versions : d[x][v] = e[x][v]) => d = e
  <2> SUFFICES ASSUME NEW d \in Digests, NEW e \in Digests,
                      \A x \in Rows : \A v \in Versions : d[x][v] = e[x][v]
               PROVE  d = e
    OBVIOUS
  <2>1. \A x \in Rows : d[x] = e[x]
    BY DEF Digests
  <2> QED
    BY <2>1 DEF Digests
<1> QED
  BY <1>2, <1>3, <1>4

Coherent == MemoryIsStorage /\ DigestDescribesRows

\* Where nothing was damaged, the engine works from what storage has.
LEMMA RefreshedIsStored ==
  ASSUME MemoryIsStorage, ~damaged
  PROVE  Refreshed = stored
  BY DEF MemoryIsStorage, Refreshed

LEMMA EmptyDescribes ==
  /\ NewScope.digest = FromRows([x \in Rows |-> 0])
<1>1. \A v \in Versions : v # 0
  BY ScopeSyncAssumption DEF Versions
<1>2. EMPTY = FromRows([x \in Rows |-> 0])
  BY <1>1 DEF EMPTY, FromRows
<1> QED
  BY <1>2 DEF NewScope

LEMMA CoherentStep == KnownSchema /\ TInv /\ Coherent /\ [Next]_vars => Coherent'
<1> SUFFICES ASSUME KnownSchema, TInv, Coherent, [Next]_vars PROVE Coherent'
  OBVIOUS
<1>0. damaged \in BOOLEAN /\ suspect \in BOOLEAN
  BY DEF TInv, TypeOK
<1>a. FromRows(rows)' = FromRows(rows')
  BY DEF FromRows
<1>1. CASE /\ UNCHANGED <<stored, rows, damaged>>
           /\ (scope' = scope /\ suspect' = suspect) \/ (scope' = Refreshed /\ suspect' = FALSE)
  <2>1. ~damaged => Refreshed = stored
    BY RefreshedIsStored DEF Coherent
  <2> QED
    BY <1>1, <1>a, <2>1 DEF Coherent, MemoryIsStorage, DigestDescribesRows
<1>2. CASE \E i \in Due, v \in StorageMay : Deliver(i, v)
  <2>1. PICK i \in Due, v \in StorageMay : Deliver(i, v)
    BY <1>2
  <2> DEFINE m == net[i]
             new == [cursor |-> m.next, digest |-> StagedDigest(Refreshed.digest, m.seqs)]
  <2>2. CASE Refuse(m)
    BY <1>1, <2>2 DEF Refuse, durable
  <2>3. CASE Accept(m, v)
    <3>1. /\ damaged' = damaged
          /\ IF Landed(v) THEN stored' = new /\ rows' = StagedRows(m.seqs)
                          ELSE stored' = stored /\ rows' = rows
          /\ IF ToldOk(v) THEN scope' = new ELSE suspect' = TRUE
      BY <2>3 DEF Accept, durable
    <3>2. m.seqs \in SUBSET (1..LogEnd)
      BY DEF TInv, NetIsLogged, Due
    <3>3. CASE ~damaged /\ Landed(v)
      <4>1. Refreshed.digest = FromRows(rows)
        BY <3>3, RefreshedIsStored DEF Coherent, DigestDescribesRows
      <4>2. new.digest = FromRows(rows')
        BY <3>1, <3>2, <3>3, <4>1, StagedDescribes DEF TInv
      <4> HIDE DEF new
      <4> QED
        BY <1>a, <3>1, <3>3, <4>2 DEF Coherent, MemoryIsStorage, DigestDescribesRows
    <3>4. CASE ~damaged /\ ~Landed(v)
      <4>1. ~ToldOk(v)
        BY <3>4 DEF Landed, ToldOk
      <4> QED
        BY <1>a, <3>1, <3>4, <4>1 DEF Coherent, MemoryIsStorage, DigestDescribesRows
    <3>5. CASE damaged
      BY <3>1, <3>5 DEF Coherent, MemoryIsStorage, DigestDescribesRows
    <3> QED
      BY <1>0, <3>3, <3>4, <3>5
  <2> QED
    BY <2>1, <2>2, <2>3 DEF Deliver
<1>3. CASE \E v \in StorageMay : BeginRebootstrap(v)
  <2>1. PICK v \in StorageMay : BeginRebootstrap(v)
    BY <1>3
  <2>2. CASE Landed(v)
    <3>1. /\ stored' = NewScope /\ rows' = [x \in Rows |-> 0]
          /\ scope' = NewScope \/ suspect' = TRUE
      BY <2>1, <2>2 DEF BeginRebootstrap
    <3> QED
      BY <1>a, <3>1, EmptyDescribes DEF Coherent, MemoryIsStorage, DigestDescribesRows
  <2>3. CASE ~Landed(v)
    <3>1. UNCHANGED <<stored, rows, damaged>> /\ suspect' = TRUE
      BY <2>1, <2>3 DEF BeginRebootstrap, Landed, ToldOk
    <3> QED
      BY <1>a, <3>1 DEF Coherent, MemoryIsStorage, DigestDescribesRows
  <2> QED
    BY <2>2, <2>3
<1>4. CASE Restart
  <2>1. PICK d \in {stored.digest, FromRows(rows)} :
          scope' = [stored EXCEPT !.digest = d] /\ UNCHANGED <<stored, rows, damaged>>
    BY <1>4 DEF Restart, durable
  <2>2. ~damaged => d = stored.digest
    BY DEF Coherent, DigestDescribesRows
  <2>3. [stored EXCEPT !.digest = stored.digest] = stored
    BY DEF TInv, TypeOK
  <2> QED
    BY <1>a, <2>1, <2>2, <2>3 DEF Coherent, MemoryIsStorage, DigestDescribesRows
<1>5. CASE \E x \in Rows : Damage(x)
  BY <1>5 DEF Damage, Coherent, MemoryIsStorage, DigestDescribesRows
<1> QED
  BY <1>1, <1>2, <1>3, <1>4, <1>5
  DEF Next, vars, Write, memory, durable, PullStep, BootstrapStep, Ask, Disturb,
      ClearScopeHealth

LEMMA CoherentHolds ==
  ASSUME KnownSchema
  PROVE  Spec => []Coherent
<1>1. Init => Coherent
  BY EmptyDescribes DEF Init, Coherent, MemoryIsStorage, DigestDescribesRows
<1>2. TInv /\ Coherent /\ [Next]_vars => Coherent'
  BY CoherentStep
<1> QED
  BY <1>1, <1>2, TypesHold, PTL DEF Spec

\* Cursor and digest in memory are storage's unless the engine marked the scope suspect,
\* however transactions end and whether a restart takes the stored digest or one
\* recomputed from the rows.
THEOREM ScopeSyncMemoryIsStorage ==
  ASSUME KnownSchema
  PROVE  Spec => []MemoryIsStorage
<1>1. Coherent => MemoryIsStorage
  BY DEF Coherent
<1> QED
  BY <1>1, CoherentHolds, PTL

\* The digest kept change by change is the digest of the stored rows: for batches that
\* write a row several times, delete it and write it anew, over rows held before, batches
\* refused, repeated, lost, or committed behind a reported failure.
THEOREM ScopeSyncDigestDescribesRows ==
  ASSUME KnownSchema
  PROVE  Spec => []DigestDescribesRows
<1>1. Coherent => DigestDescribesRows
  BY DEF Coherent
<1> QED
  BY <1>1, CoherentHolds, PTL

=============================================================================
