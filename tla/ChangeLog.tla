----------------------------- MODULE ChangeLog ------------------------------
(***************************************************************************)
(* The server's change log: host transactions that append to it, and the   *)
(* pulls and bootstraps that read it up to a watermark.                    *)
(*                                                                         *)
(* A change gets its seq when the INSERT runs and becomes visible when its *)
(* transaction commits, and the two orders differ.  Writers hold a shared  *)
(* advisory lock for their transaction; a reader takes it exclusively,     *)
(* reads the sequence, and so learns a seq below which nothing is in       *)
(* flight.  If a writer keeps the reader waiting, the reader serves the    *)
(* last watermark recorded.                                                *)
(*                                                                         *)
(* One reader is one request at a time on behalf of one device, run over   *)
(* the database connection Conn[r], one SQL statement per step.  Advisory  *)
(* locks and transactions belong to the connection, not to the reader.     *)
(*                                                                         *)
(* Abstracted: snapshots and versions (a row's version is the seq that     *)
(* wrote it), the byte budget (a batch is any non-empty prefix of a page). *)
(***************************************************************************)
EXTENDS Naturals, FiniteSets, FiniteSetsExt

CONSTANTS
  Readers,      \* devices, each with at most one request being served
  Sessions,     \* database connections of the sync server
  Conn,         \* Conn[r]: the connection that serves r
  Writers,      \* host transactions; each has a connection of its own
  Autocommit,   \* writers that call append_change outside a transaction
  Rows,
  Visible,      \* Visible[r]: the rows of the scope r pulls
  Failing,      \* readers whose statements the database may refuse
  Limit,        \* row ceiling of a page
  MaxSeq        \* bound: seqs handed out

Seqs == 1..MaxSeq
Ops  == {"upsert", "delete"}

ASSUME ChangeLogAssumption ==
  /\ Conn \in [Readers -> Sessions]
  /\ Autocommit \subseteq Writers
  /\ Visible \in [Readers -> SUBSET Rows]
  /\ Failing \subseteq Readers
  /\ Limit \in Nat \ {0}
  /\ MaxSeq \in Nat

VARIABLES
  lastValue,   \* sync_changes_seq_seq.last_value
  content,     \* content[s]: what was inserted under s
  committed,   \* seqs whose transaction committed
  wpc,         \* writer: "idle", "begun", "locked"
  inserted,    \* writer: seqs inserted and not yet committed
  tx,          \* session: "none", "open", "aborted"
  exclusive,   \* sessions holding the advisory lock exclusively
  watermark,   \* sync_watermark.value, as committed
  pending,     \* session: value its open transaction wrote there, 0 if none
  rpc,         \* reader: the next statement of its request
  got,         \* reader: the watermark its request goes by, 0 when it has none
  cursor,      \* device: last seq applied
  held,        \* device: held[r][x], the seq of the version of x it holds, 0 if none
  booting      \* device: paging through a bootstrap

log     == <<lastValue, content, committed, wpc, inserted>>
session == <<tx, exclusive, watermark, pending>>
device  == <<cursor, held, booting>>
vars    == <<lastValue, content, committed, wpc, inserted, tx, exclusive, watermark,
             pending, rpc, got, cursor, held, booting>>

NoChange == [row |-> "none", op |-> "none"]

Init ==
  /\ lastValue = 0
  /\ content = [s \in Seqs |-> NoChange]
  /\ committed = {}
  /\ wpc = [w \in Writers |-> "idle"]
  /\ inserted = [w \in Writers |-> {}]
  /\ tx = [s \in Sessions |-> "none"]
  /\ exclusive = {}
  /\ watermark = 0
  /\ pending = [s \in Sessions |-> 0]
  /\ rpc = [r \in Readers |-> "idle"]
  /\ got = [r \in Readers |-> 0]
  /\ cursor = [r \in Readers |-> 0]
  /\ held = [r \in Readers |-> [x \in Rows |-> 0]]
  /\ booting = [r \in Readers |-> FALSE]

-----------------------------------------------------------------------------
(* Host transactions.                                                      *)

BeginWrite(w) ==
  /\ wpc[w] = "idle"
  /\ wpc' = [wpc EXCEPT ![w] = "begun"]
  /\ UNCHANGED <<lastValue, content, committed, inserted, session, rpc, got, device>>

LockForWriteNoWait(w) ==
  /\ wpc[w] = "begun"
  /\ wpc' = [wpc EXCEPT ![w] = "locked"]
  /\ UNCHANGED <<lastValue, content, committed, inserted, session, rpc, got, device>>

\* lock_for_write: shared, held until the transaction ends.  In autocommit the
\* statement is the whole transaction, so the lock is gone when it returns.
LockForWrite(w) ==
  /\ wpc[w] = "begun"
  /\ exclusive = {}
  /\ wpc' = [wpc EXCEPT ![w] = "locked"]
  /\ UNCHANGED <<lastValue, content, committed, inserted, session, rpc, got, device>>

\* The INSERT of append_change (or of the host's outbox) takes the next seq.
Insert(w, x, o) ==
  /\ wpc[w] = "locked"
  /\ lastValue < MaxSeq
  /\ w \in Autocommit => inserted[w] = {}
  /\ lastValue' = lastValue + 1
  /\ content' = [content EXCEPT ![lastValue + 1] = [row |-> x, op |-> o]]
  /\ inserted' = [inserted EXCEPT ![w] = @ \cup {lastValue + 1}]
  /\ UNCHANGED <<committed, wpc, session, rpc, got, device>>

CommitWrite(w) ==
  /\ wpc[w] = "locked"
  /\ committed' = committed \cup inserted[w]
  /\ inserted' = [inserted EXCEPT ![w] = {}]
  /\ wpc' = [wpc EXCEPT ![w] = "idle"]
  /\ UNCHANGED <<lastValue, content, session, rpc, got, device>>

\* A rollback leaves a gap in the sequence and no row.
RollbackWrite(w) ==
  /\ wpc[w] # "idle"
  /\ inserted' = [inserted EXCEPT ![w] = {}]
  /\ wpc' = [wpc EXCEPT ![w] = "idle"]
  /\ UNCHANGED <<lastValue, content, committed, session, rpc, got, device>>

\* Writers whose transaction holds the shared lock.
Sharing == {w \in Writers \ Autocommit : wpc[w] = "locked"}

-----------------------------------------------------------------------------
(* safe_watermark, one statement at a time.                                *)

Step(r, from, to) == rpc[r] = from /\ rpc' = [rpc EXCEPT ![r] = to]

\* A device asks: an ordinary pull, or a bootstrap if it is at the start or in
\* the middle of one.  BEGIN in a transaction that is already open is a no-op;
\* in an aborted one it is an error and the request ends.
Begin(r) ==
  /\ tx[Conn[r]] # "aborted"
  /\ Step(r, "idle", "lock")
  /\ tx' = [tx EXCEPT ![Conn[r]] = "open"]
  /\ \E b \in BOOLEAN : /\ b = booting[r] \/ (b /\ cursor[r] = 0)
                        /\ booting' = [booting EXCEPT ![r] = b]
  /\ UNCHANGED <<log, exclusive, watermark, pending, got, cursor, held>>

\* Another session's lock, or a writer's, stands in the way.
Available(s) == exclusive \subseteq {s} /\ Sharing = {}

\* pg_advisory_xact_lock: kept until the transaction ends, if there is one.
Lock(r) ==
  LET s == Conn[r] IN
  /\ Available(s)
  /\ tx[s] # "aborted"
  /\ Step(r, "lock", "establish")
  /\ exclusive' = IF tx[s] = "open" THEN exclusive \cup {s} ELSE exclusive
  /\ UNCHANGED <<log, tx, watermark, pending, got, device>>

\* A session's transaction is over without having recorded anything: its locks and
\* what it wrote are gone.
Abandon(s, end) ==
  /\ tx' = [tx EXCEPT ![s] = end]
  /\ pending' = [pending EXCEPT ![s] = 0]
  /\ exclusive' = exclusive \ {s}
  /\ UNCHANGED watermark

LockTimeoutNever(r) == FALSE /\ UNCHANGED vars

\* lock_timeout, which Postgres applies to advisory locks as well: the statement fails
\* and the transaction with it.  Without a transaction SET LOCAL had no effect and the
\* statement just waits.
LockTimeout(r) ==
  LET s == Conn[r] IN
  /\ \/ tx[s] = "open" /\ ~Available(s)
     \/ tx[s] = "aborted"
  /\ Step(r, "lock", "giveup")
  /\ Abandon(s, "aborted")
  /\ UNCHANGED <<log, got, device>>

\* SET LOCAL, the lock or the upsert fails for any other reason: Err(_) takes the same
\* path as a writer that held the lock.
StatementFails(r) ==
  LET s == Conn[r] IN
  /\ tx[s] # "aborted"
  /\ Step(r, "lock", "giveup") \/ Step(r, "establish", "giveup")
  /\ Abandon(s, IF tx[s] = "open" THEN "aborted" ELSE "none")
  /\ UNCHANGED <<log, got, device>>

EstablishNext(r, n) == n + 1

\* The value recorded: the sequence's last value, never below what is there.
Established(r, n) == n

\* The upsert of sync_watermark, returning the value.  A row another session's
\* transaction wrote is locked.  In a transaction that was aborted meanwhile the
\* statement fails.
Establish(r) ==
  LET s == Conn[r]
      v == Max({watermark, pending[s], Established(r, lastValue)})
  IN
  /\ \/ /\ tx[s] # "aborted"
        /\ \A t \in Sessions \ {s} : pending[t] = 0
        /\ pending' = IF tx[s] = "open" THEN [pending EXCEPT ![s] = v] ELSE pending
        /\ watermark' = IF tx[s] = "none" THEN v ELSE watermark
        /\ Step(r, "establish", "commit")
        /\ got' = [got EXCEPT ![r] = v]
     \/ /\ tx[s] = "aborted"
        /\ Step(r, "establish", "giveup")
        /\ UNCHANGED <<pending, watermark, got>>
  /\ UNCHANGED <<log, tx, exclusive, device>>

\* COMMIT ends whatever transaction the session has, and installs the row it wrote.
EndTx(s) ==
  /\ watermark' = IF tx[s] = "open" /\ pending[s] # 0 THEN pending[s] ELSE watermark
  /\ tx' = [tx EXCEPT ![s] = "none"]
  /\ pending' = [pending EXCEPT ![s] = 0]
  /\ exclusive' = exclusive \ {s}

Commit(r) ==
  /\ \/ Step(r, "commit", "query")
     \/ Step(r, "giveup", "rollback")
  /\ EndTx(Conn[r])
  /\ UNCHANGED <<log, got, device>>

CommitFailsUnnoticed(r) ==
  /\ Step(r, "commit", "query")
  /\ Abandon(Conn[r], "none")
  /\ UNCHANGED <<log, got, device>>

\* COMMIT fails and nothing was recorded: the value that was returned is not used, and
\* the request ends with an error (closed?).  On the fallback path the result of COMMIT
\* is ignored, and the ROLLBACK that follows makes up for it.
CommitFails(r) ==
  /\ Step(r, "commit", "idle")
  /\ Abandon(Conn[r], "none")
  /\ got' = [got EXCEPT ![r] = 0]
  /\ UNCHANGED <<log, device>>

\* The fallback path rolls back as well, then reads the recorded watermark.
Rollback(r) ==
  /\ Step(r, "rollback", "recorded")
  /\ Abandon(Conn[r], "none")
  /\ UNCHANGED <<log, got, device>>

RecordedWatermark(r) ==
  LET s == Conn[r] IN
  /\ tx[s] # "aborted"
  /\ Step(r, "recorded", "query")
  /\ got' = [got EXCEPT ![r] = Max({watermark, pending[s]})]
  /\ UNCHANGED <<log, session, device>>

-----------------------------------------------------------------------------
(* Pages.                                                                  *)

\* Rows a reader of this scope can see, up to the watermark.
InView(r) == {s \in committed : content[s].row \in Visible[r] /\ s <= got[r]}

\* changes_after_watermark: every change after the cursor.
PullPage(r) == {s \in InView(r) : s > cursor[r]}

BootstrapLiveOnly(r) ==
  {s \in InView(r) :
     /\ s > cursor[r]
     /\ \A t \in InView(r) : content[t].row = content[s].row => t <= s
     /\ content[s].op # "delete"}

\* bootstrap_after: the latest change of each row, if it is after the cursor;
\* tombstones only for a device that may hold the row.
BootstrapPage(r) ==
  {s \in InView(r) :
     /\ s > cursor[r]
     /\ \A t \in InView(r) : content[t].row = content[s].row => t <= s
     /\ content[s].op # "delete" \/ cursor[r] > 0}

\* The batches fill_batch may make of a page: a prefix that is empty only if
\* the page is, cut short by the budget or the row ceiling.
BatchesOf(page) ==
  {b \in SUBSET page : /\ \A s \in b, t \in page : t < s => t \in b
                       /\ Cardinality(b) <= Limit
                       /\ b = {} => page = {}}

\* next_cursor covers exactly what was sent.
NextCursor(r, b) == IF b = {} THEN cursor[r] ELSE Max(b)

\* What a device holds after applying the changes of b in seq order.
Applied(r, b) ==
  [x \in Rows |->
     LET mine == {s \in b : content[s].row = x}
     IN  IF mine = {} THEN held[r][x]
         ELSE IF content[Max(mine)].op = "delete" THEN 0 ELSE Max(mine)]

\* The page is read and the device applies the batch; the bootstrap is over
\* when nothing was left behind.
Query(r) ==
  LET page == IF booting[r] THEN BootstrapPage(r) ELSE PullPage(r) IN
  /\ tx[Conn[r]] # "aborted"
  /\ Step(r, "query", "idle")
  /\ \E b \in BatchesOf(page) :
       /\ cursor' = [cursor EXCEPT ![r] = NextCursor(r, b)]
       /\ held' = [held EXCEPT ![r] = Applied(r, b)]
       /\ booting' = [booting EXCEPT ![r] = booting[r] /\ b # page]
  /\ got' = [got EXCEPT ![r] = 0]
  /\ UNCHANGED <<log, session>>

\* The response is lost, the watermark or the page cannot be read, or a row of it is
\* not one the protocol allows.
Lost(r) ==
  /\ Step(r, "query", "idle") \/ Step(r, "recorded", "idle")
  /\ got' = [got EXCEPT ![r] = 0]
  /\ UNCHANGED <<log, session, device>>

\* begin_rebootstrap: the device drops its rows and starts over.
Rebootstrap(r) ==
  /\ rpc[r] = "idle"
  /\ cursor' = [cursor EXCEPT ![r] = 0]
  /\ held' = [held EXCEPT ![r] = [x \in Rows |-> 0]]
  /\ booting' = [booting EXCEPT ![r] = TRUE]
  /\ UNCHANGED <<log, session, rpc, got>>

-----------------------------------------------------------------------------
Write(w) ==
  \/ BeginWrite(w)
  \/ LockForWrite(w)
  \/ \E x \in Rows, o \in Ops : Insert(w, x, o)
  \/ CommitWrite(w)
  \/ RollbackWrite(w)

\* The statements of a request after its BEGIN.
Serve(r) ==
  \/ Lock(r)
  \/ LockTimeout(r)
  \/ Establish(r)
  \/ Commit(r)
  \/ Rollback(r)
  \/ RecordedWatermark(r)
  \/ Query(r)
  \/ Lost(r)

\* What the database may do to them.
Fault(r) == StatementFails(r) \/ CommitFails(r)

Next ==
  \/ \E w \in Writers : Write(w)
  \/ \E r \in Readers : Begin(r) \/ Serve(r) \/ Rebootstrap(r)
  \/ \E r \in Failing : Fault(r)

Spec == Init /\ [][Next]_vars

\* The server runs the statements of a request it has started.  Nothing is
\* assumed of the hosts: a writer may sit in its transaction for ever.
FairSpec == Spec /\ \A r \in Readers : WF_vars(Serve(r))

-----------------------------------------------------------------------------
(* Properties.                                                             *)

TypeOK ==
  /\ lastValue \in 0..MaxSeq
  /\ content \in [Seqs -> [row : Rows, op : Ops] \cup {NoChange}]
  /\ committed \in SUBSET (1..lastValue)
  /\ wpc \in [Writers -> {"idle", "begun", "locked"}]
  /\ inserted \in [Writers -> SUBSET (1..lastValue)]
  /\ tx \in [Sessions -> {"none", "open", "aborted"}]
  /\ exclusive \in SUBSET Sessions
  /\ watermark \in 0..lastValue
  /\ pending \in [Sessions -> 0..lastValue]
  /\ rpc \in [Readers -> {"idle", "lock", "establish", "commit", "giveup", "rollback",
                          "recorded", "query"}]
  /\ got \in [Readers -> 0..lastValue]
  /\ cursor \in [Readers -> 0..lastValue]
  /\ held \in [Readers -> [Rows -> 0..MaxSeq]]
  /\ booting \in [Readers -> BOOLEAN]

\* Seqs handed out whose transaction has not ended.
InFlight == UNION {inserted[w] : w \in Writers}

\* Nothing at or below a watermark, recorded or in a request's hands, is in
\* flight: "a watermark with no hole beneath it" (safe_watermark).
NoHoleBelowWatermark ==
  \A s \in InFlight : /\ s > watermark
                      /\ \A r \in Readers : rpc[r] = "query" => s > got[r]

\* A device never skips a change: for each row whose last committed change is
\* at or below its cursor, it holds what that change left, whether it got there
\* by pulling, by bootstrapping while rows were being deleted, or both.
NeverSkips ==
  \A r \in Readers : \A x \in Visible[r] :
    LET changes == {s \in committed : content[s].row = x}
    IN  changes # {} /\ Max(changes) <= cursor[r] =>
          held[r][x] = IF content[Max(changes)].op = "delete" THEN 0 ELSE Max(changes)

\* What a request serves by is on record before it serves, and stays there: no device
\* is ever ahead of the watermark that a later request, falling back, would read, so a
\* fallback "is never *wrong*, only staler".
ServedIsRecorded ==
  \A r \in Readers : /\ cursor[r] <= watermark
                     /\ rpc[r] = "query" => got[r] <= watermark

\* "A reader is never blocked": whatever writers do, and even if one never ends
\* its transaction, a request that has begun comes to an end.
ReaderNeverBlocked == \A r \in Readers : (rpc[r] # "idle") ~> (rpc[r] = "idle")
=============================================================================
