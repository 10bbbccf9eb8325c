-------------------------- MODULE ChangeLogProofs ---------------------------
(***************************************************************************)
(* ChangeLog for any number of hosts, devices, rows and seqs.              *)
(*                                                                         *)
(* However requests share connections, the state is well-typed.  The rest  *)
(* needs more (OwnSessions): a connection for every request, and for what  *)
(* is in flight a transaction around every append.  The argument is mutual *)
(* exclusion: a request that is about to establish or commit a watermark   *)
(* holds the lock exclusively, so no writer holds it, and a writer without *)
(* it has inserted nothing.  From that, a device never skips a change:     *)
(* what is in flight stays ahead of every cursor.  That what is served is  *)
(* on record is another argument: of all transactions at most one has      *)
(* written the row, and nothing is recorded beneath it until it ends.      *)
(***************************************************************************)
EXTENDS ChangeLog, FiniteMax, TLAPS

\* The two and three element sets the watermark is computed from.
LEMMA MaxOfFew ==
  ASSUME NEW n \in Nat, NEW a \in 0..n, NEW b \in 0..n, NEW c \in 0..n
  PROVE  /\ Max({a, b}) \in 0..n /\ Max({a, b}) >= a /\ Max({a, b}) \in {a, b}
         /\ Max({a, b, c}) \in 0..n /\ Max({a, b, c}) >= a
<1>1. Max({a, b}) \in {a, b} /\ \A y \in {a, b} : y <= Max({a, b})
  BY MaxIsGreatest
<1>2. Max({a, b, c}) \in {a, b, c} /\ \A y \in {a, b, c} : y <= Max({a, b, c})
  BY MaxIsGreatest
<1> HIDE DEF Max
<1> QED  BY <1>1, <1>2

-----------------------------------------------------------------------------
(* Types.                                                                  *)

\* A batch is part of its page, and a page is part of the log.
LEMMA BatchInLog ==
  ASSUME NEW r \in Readers, NEW page, page = BootstrapPage(r) \/ page = PullPage(r),
         NEW b \in BatchesOf(page)
  PROVE  b \subseteq committed
BY DEF BatchesOf, BootstrapPage, PullPage, InView

\* What a batch does to a device's cursor and rows keeps their types.
LEMMA BatchType ==
  ASSUME TypeOK, NEW r \in Readers, NEW b, b \subseteq committed
  PROVE  NextCursor(r, b) \in 0..lastValue /\ Applied(r, b) \in [Rows -> 0..MaxSeq]
<1>1. lastValue \in Nat /\ lastValue <= MaxSeq /\ MaxSeq \in Nat /\ b \subseteq 0..lastValue
  BY ChangeLogAssumption DEF TypeOK
<1>2. \A c : c \subseteq b /\ c # {} => Max(c) \in 0..lastValue
  <2> SUFFICES ASSUME NEW c, c \subseteq b, c # {} PROVE Max(c) \in 0..lastValue
    OBVIOUS
  <2>1. c \subseteq 0..lastValue
    BY <1>1
  <2> QED  BY <1>1, <2>1, MaxIsGreatest
<1>3. NextCursor(r, b) \in 0..lastValue
  BY <1>2 DEF NextCursor, TypeOK
<1>4. ASSUME NEW x \in Rows
      PROVE  (LET mine == {s \in b : content[s].row = x}
              IN  IF mine = {} THEN held[r][x]
                  ELSE IF content[Max(mine)].op = "delete" THEN 0 ELSE Max(mine)) \in 0..MaxSeq
  <2> DEFINE mine == {s \in b : content[s].row = x}
  <2>1. mine # {} => Max(mine) \in 0..lastValue
    BY <1>2
  <2>2. held[r][x] \in 0..MaxSeq
    BY DEF TypeOK
  <2> HIDE DEF mine
  <2>3. (IF mine = {} THEN held[r][x]
         ELSE IF content[Max(mine)].op = "delete" THEN 0 ELSE Max(mine)) \in 0..MaxSeq
    BY <1>1, <2>1, <2>2
  <2> QED  BY <2>3 DEF mine
<1> QED  BY <1>3, <1>4 DEF Applied

LEMMA InitType == Init => TypeOK
BY ChangeLogAssumption DEF Init, TypeOK, Seqs, NoChange

\* The value a request records or goes by is a seq that was handed out.
LEMMA WatermarkType ==
  ASSUME TypeOK, NEW s \in Sessions, NEW r
  PROVE  /\ Max({watermark, pending[s], Established(r, lastValue)}) \in 0..lastValue
         /\ Max({watermark, pending[s], Established(r, lastValue)}) >= watermark
         /\ Max({watermark, pending[s]}) \in 0..lastValue
         /\ Max({watermark, pending[s]}) >= watermark
         /\ Max({watermark, pending[s]}) \in {watermark, pending[s]}
<1>1. /\ lastValue \in Nat /\ lastValue \in 0..lastValue
      /\ watermark \in 0..lastValue /\ pending[s] \in 0..lastValue
  BY ChangeLogAssumption DEF TypeOK
<1> QED  BY <1>1, MaxOfFew DEF Established

\* A host's step.
LEMMA WriteType ==
  ASSUME TypeOK, NEW w \in Writers, Write(w)
  PROVE  TypeOK'
<1>1. CASE BeginWrite(w) \/ LockForWrite(w) \/ RollbackWrite(w)
  BY <1>1 DEF TypeOK, BeginWrite, LockForWrite, RollbackWrite, session, device
<1>2. CASE \E x \in Rows, o \in Ops : Insert(w, x, o)
  <2>1. PICK x \in Rows, o \in Ops : Insert(w, x, o)
    BY <1>2
  <2>2. /\ lastValue \in Nat /\ MaxSeq \in Nat /\ lastValue' = lastValue + 1
        /\ lastValue' \in 0..MaxSeq /\ lastValue + 1 \in Seqs
    BY <2>1, ChangeLogAssumption DEF TypeOK, Insert, Seqs
  <2>3. 1..lastValue \subseteq 1..lastValue' /\ 0..lastValue \subseteq 0..lastValue'
        /\ lastValue + 1 \in 1..lastValue'
    BY <2>2
  <2>4. content' \in [Seqs -> [row : Rows, op : Ops] \cup {NoChange}]
    BY <2>1, <2>2 DEF TypeOK, Insert
  <2>5. inserted' \in [Writers -> SUBSET (1..lastValue')]
    BY <2>1, <2>3 DEF TypeOK, Insert
  <2>6. /\ committed' \in SUBSET (1..lastValue')
        /\ watermark' \in 0..lastValue' /\ pending' \in [Sessions -> 0..lastValue']
        /\ got' \in [Readers -> 0..lastValue'] /\ cursor' \in [Readers -> 0..lastValue']
    BY <2>1, <2>3 DEF TypeOK, Insert, session, device
  <2> QED  BY <2>1, <2>2, <2>4, <2>5, <2>6 DEF TypeOK, Insert, session, device
<1>3. CASE CommitWrite(w)
  <2>1. committed' \in SUBSET (1..lastValue)
    BY <1>3 DEF TypeOK, CommitWrite
  <2> QED  BY <1>3, <2>1 DEF TypeOK, CommitWrite, session, device
<1> QED  BY <1>1, <1>2, <1>3 DEF Write

\* A request's step.
LEMMA ServeType ==
  ASSUME TypeOK, NEW r \in Readers, Serve(r)
  PROVE  TypeOK'
<1>0. Conn[r] \in Sessions
  BY ChangeLogAssumption
<1>a. 0 \in 0..lastValue
  BY ChangeLogAssumption DEF TypeOK
<1>b. CASE Lock(r)
  <2>1. rpc' = [rpc EXCEPT ![r] = "establish"] /\ UNCHANGED <<log, tx, watermark, pending, got, device>>
    BY <1>b DEF Lock, Step
  <2>2. exclusive' \in SUBSET Sessions
    BY <1>0, <1>b DEF TypeOK, Lock
  <2> QED  BY <2>1, <2>2 DEF TypeOK, log, device
<1>c. CASE LockTimeout(r)
  <2>1. rpc' = [rpc EXCEPT ![r] = "giveup"] /\ UNCHANGED <<log, watermark, got, device>>
    BY <1>c DEF LockTimeout, Step, Abandon
  <2>2. /\ tx' = [tx EXCEPT ![Conn[r]] = "aborted"]
        /\ pending' = [pending EXCEPT ![Conn[r]] = 0] /\ exclusive' = exclusive \ {Conn[r]}
    BY <1>c DEF LockTimeout, Abandon
  <2> QED  BY <1>0, <1>a, <2>1, <2>2 DEF TypeOK, log, device
<1>d. CASE Establish(r) /\ tx[Conn[r]] = "aborted"
  <2>1. /\ rpc' = [rpc EXCEPT ![r] = "giveup"]
        /\ UNCHANGED <<log, tx, exclusive, watermark, pending, got, device>>
    BY <1>d DEF Establish, Step
  <2> QED  BY <2>1 DEF TypeOK, log, device
<1>e. CASE Rollback(r)
  <2>1. rpc' = [rpc EXCEPT ![r] = "recorded"] /\ UNCHANGED <<log, watermark, got, device>>
    BY <1>e DEF Rollback, Step, Abandon
  <2>2. /\ tx' = [tx EXCEPT ![Conn[r]] = "none"]
        /\ pending' = [pending EXCEPT ![Conn[r]] = 0] /\ exclusive' = exclusive \ {Conn[r]}
    BY <1>e DEF Rollback, Abandon
  <2> QED  BY <1>0, <1>a, <2>1, <2>2 DEF TypeOK, log, device
<1>f. CASE Lost(r)
  <2>1. /\ rpc' = [rpc EXCEPT ![r] = "idle"] /\ got' = [got EXCEPT ![r] = 0]
        /\ UNCHANGED <<log, session, device>>
    BY <1>f DEF Lost, Step
  <2> QED  BY <1>a, <2>1 DEF TypeOK, log, session, device
<1>2. CASE Establish(r) /\ tx[Conn[r]] # "aborted"
  <2> DEFINE v == Max({watermark, pending[Conn[r]], Established(r, lastValue)})
  <2>1. v \in 0..lastValue
    BY <1>0, WatermarkType
  <2>2. /\ pending' \in {[pending EXCEPT ![Conn[r]] = v], pending}
        /\ watermark' \in {v, watermark}
        /\ got' = [got EXCEPT ![r] = v]
        /\ UNCHANGED <<log, tx, exclusive, device>>
    BY <1>2 DEF Establish
  <2> HIDE DEF v
  <2>3. rpc' = [rpc EXCEPT ![r] = "commit"]
    BY <1>2 DEF Establish, Step
  <2> QED  BY <2>1, <2>2, <2>3 DEF TypeOK, log, device
<1>3. CASE Commit(r)
  <2>1. pending[Conn[r]] \in 0..lastValue
    BY <1>0 DEF TypeOK
  <2>2. /\ watermark' \in {pending[Conn[r]], watermark}
        /\ tx' = [tx EXCEPT ![Conn[r]] = "none"]
        /\ pending' = [pending EXCEPT ![Conn[r]] = 0]
        /\ exclusive' = exclusive \ {Conn[r]}
        /\ UNCHANGED <<log, got, device>>
    BY <1>3 DEF Commit, EndTx
  <2>3. rpc' \in {[rpc EXCEPT ![r] = "query"], [rpc EXCEPT ![r] = "rollback"]}
    BY <1>3 DEF Commit, Step
  <2>4. 0 \in 0..lastValue
    BY ChangeLogAssumption DEF TypeOK
  <2> QED  BY <2>1, <2>2, <2>3, <2>4 DEF TypeOK, log, device
<1>4. CASE RecordedWatermark(r)
  <2> DEFINE v == Max({watermark, pending[Conn[r]]})
  <2>1. v \in 0..lastValue
    BY <1>0, WatermarkType
  <2>2. got' = [got EXCEPT ![r] = v] /\ UNCHANGED <<log, session, device>>
    BY <1>4 DEF RecordedWatermark
  <2> HIDE DEF v
  <2>3. rpc' = [rpc EXCEPT ![r] = "query"]
    BY <1>4 DEF RecordedWatermark, Step
  <2> QED  BY <2>1, <2>2, <2>3 DEF TypeOK, log, session, device
<1>5. CASE Query(r)
  <2> DEFINE page == IF booting[r] THEN BootstrapPage(r) ELSE PullPage(r)
  <2>1. PICK b \in BatchesOf(page) :
          /\ cursor' = [cursor EXCEPT ![r] = NextCursor(r, b)]
          /\ held' = [held EXCEPT ![r] = Applied(r, b)]
          /\ booting' = [booting EXCEPT ![r] = booting[r] /\ b # page]
    BY <1>5 DEF Query
  <2>2. NextCursor(r, b) \in 0..lastValue /\ Applied(r, b) \in [Rows -> 0..MaxSeq]
    BY <2>1, BatchInLog, BatchType
  <2>3. /\ cursor' \in [Readers -> 0..lastValue]
        /\ held' \in [Readers -> [Rows -> 0..MaxSeq]]
        /\ booting' \in [Readers -> BOOLEAN]
    BY <2>1, <2>2 DEF TypeOK
  <2>4. /\ rpc' = [rpc EXCEPT ![r] = "idle"] /\ got' = [got EXCEPT ![r] = 0]
        /\ UNCHANGED <<log, session>>
    BY <1>5 DEF Query, Step
  <2>5. 0 \in 0..lastValue
    BY ChangeLogAssumption DEF TypeOK
  <2> QED  BY <2>3, <2>4, <2>5 DEF TypeOK, log, session
<1> QED  BY <1>b, <1>c, <1>d, <1>e, <1>f, <1>2, <1>3, <1>4, <1>5 DEF Serve

\* A failure's step: r's transaction is over, and r is at the fallback or at its end.
LEMMA FaultEffect ==
  ASSUME NEW r \in Readers, Fault(r)
  PROVE  /\ \E to \in {"giveup", "idle"} : rpc' = [rpc EXCEPT ![r] = to]
         /\ \E end \in {"none", "aborted"} : tx' = [tx EXCEPT ![Conn[r]] = end]
         /\ pending' = [pending EXCEPT ![Conn[r]] = 0] /\ exclusive' = exclusive \ {Conn[r]}
         /\ got' = got \/ got' = [got EXCEPT ![r] = 0]
         /\ UNCHANGED <<log, watermark, device>>
<1>1. CASE StatementFails(r)
  BY <1>1 DEF StatementFails, Step, Abandon
<1>2. CASE CommitFails(r)
  BY <1>2 DEF CommitFails, Step, Abandon
<1> QED  BY <1>1, <1>2 DEF Fault

LEMMA FaultType ==
  ASSUME TypeOK, NEW r \in Readers, Fault(r)
  PROVE  TypeOK'
<1>1. 0 \in 0..lastValue
  BY ChangeLogAssumption DEF TypeOK
<1> QED  BY <1>1, FaultEffect DEF TypeOK, log, device

\* A device's own steps.
LEMMA DeviceType ==
  ASSUME TypeOK, NEW r \in Readers, Begin(r) \/ Rebootstrap(r)
  PROVE  TypeOK'
<1>0. Conn[r] \in Sessions /\ 0 \in 0..lastValue /\ 0 \in 0..MaxSeq
  BY ChangeLogAssumption DEF TypeOK
<1>1. CASE Begin(r)
  BY <1>0, <1>1 DEF TypeOK, Begin, Step, log
<1>2. CASE Rebootstrap(r)
  BY <1>0, <1>2 DEF TypeOK, Rebootstrap, log, session
<1> QED  BY <1>1, <1>2

LEMMA NextType == TypeOK /\ [Next]_vars => TypeOK'
<1> SUFFICES ASSUME TypeOK, [Next]_vars PROVE TypeOK'
  OBVIOUS
<1>1. CASE \E w \in Writers : Write(w)
  BY <1>1, WriteType
<1>2. CASE \E r \in Readers : Begin(r) \/ Serve(r) \/ Rebootstrap(r)
  BY <1>2, ServeType, DeviceType
<1>3. CASE \E r \in Failing : Fault(r)
  BY <1>3, FaultType, ChangeLogAssumption
<1>4. CASE UNCHANGED vars
  BY <1>4 DEF TypeOK, vars
<1> QED  BY <1>1, <1>2, <1>3, <1>4 DEF Next

\* The state is well-typed: in particular no watermark, recorded, pending or in a
\* request's hands, and no device's cursor is beyond the last seq handed out.
THEOREM ChangeLogTypeOK == Spec => []TypeOK
<1> QED  BY InitType, NextType, PTL DEF Spec

-----------------------------------------------------------------------------
(* Nothing is in flight below a watermark.                                 *)

\* Hosts touch neither the watermark nor the requests.
LEMMA WriteKeeps ==
  ASSUME NEW w \in Writers, Write(w)
  PROVE  UNCHANGED <<session, rpc, got>>
<1>1. CASE BeginWrite(w) \/ LockForWrite(w) \/ CommitWrite(w) \/ RollbackWrite(w)
  BY <1>1 DEF BeginWrite, LockForWrite, CommitWrite, RollbackWrite
<1>2. ASSUME NEW x \in Rows, NEW o \in Ops, Insert(w, x, o)
      PROVE  UNCHANGED <<session, rpc, got>>
  BY <1>2 DEF Insert
<1> QED  BY <1>1, <1>2 DEF Write

\* A connection for every request, a transaction around every append.
OwnSessions ==
  /\ \A q, r \in Readers : Conn[q] = Conn[r] => q = r
  /\ Autocommit = {}

\* A writer inserts under the shared lock.
InsertsAreLocked == \A w \in Writers : inserted[w] # {} => wpc[w] = "locked"

\* The lock excludes writers while a session holds it exclusively.
Excludes == exclusive # {} => \A w \in Writers : wpc[w] # "locked"

\* A request asks for the lock in its transaction, so that it keeps it.
AsksInTransaction == \A r \in Readers : rpc[r] = "lock" => tx[Conn[r]] = "open"

\* A request that establishes or commits a watermark holds the lock.
HoldsLock == \A r \in Readers : rpc[r] \in {"establish", "commit"} => Conn[r] \in exclusive

\* So does a session whose transaction has written one.
PendingHoldsLock == \A s \in Sessions : pending[s] # 0 => s \in exclusive

LockInv == InsertsAreLocked /\ Excludes /\ AsksInTransaction /\ HoldsLock /\ PendingHoldsLock

IInv == TypeOK /\ LockInv /\ NoHoleBelowWatermark

LEMMA InitInvariant == Init => IInv
<1> SUFFICES ASSUME Init PROVE IInv
  OBVIOUS
<1>1. LockInv
  BY ChangeLogAssumption DEF Init, LockInv, InsertsAreLocked, Excludes, AsksInTransaction, HoldsLock, PendingHoldsLock
<1>2. NoHoleBelowWatermark
  BY DEF Init, NoHoleBelowWatermark, InFlight
<1> QED  BY <1>1, <1>2, InitType DEF IInv

\* While some session holds the lock exclusively, nothing is in flight.
LEMMA NoneInFlight ==
  ASSUME LockInv, exclusive # {}
  PROVE  InFlight = {}
BY DEF LockInv, InsertsAreLocked, Excludes, InFlight

\* A host's step: an insert takes a seq above every watermark.
LEMMA WriteInvariant ==
  ASSUME IInv, Autocommit = {}, NEW w \in Writers, Write(w)
  PROVE  LockInv' /\ NoHoleBelowWatermark'
<1>1. UNCHANGED <<tx, exclusive, watermark, pending, rpc, got>>
  BY WriteKeeps DEF session
<1>2. AsksInTransaction' /\ HoldsLock' /\ PendingHoldsLock'
  BY <1>1 DEF IInv, LockInv, AsksInTransaction, HoldsLock, PendingHoldsLock
<1>3. CASE BeginWrite(w)
  <2>1. wpc' = [wpc EXCEPT ![w] = "begun"] /\ inserted' = inserted /\ inserted[w] = {}
    BY <1>3 DEF BeginWrite, IInv, LockInv, InsertsAreLocked
  <2> QED  BY <1>1, <1>2, <2>1 DEF IInv, TypeOK, LockInv, InsertsAreLocked, Excludes, NoHoleBelowWatermark, InFlight
<1>4. CASE LockForWrite(w)
  <2>1. wpc' = [wpc EXCEPT ![w] = "locked"] /\ inserted' = inserted /\ exclusive = {}
    BY <1>4 DEF LockForWrite
  <2> QED  BY <1>1, <1>2, <2>1 DEF IInv, TypeOK, LockInv, InsertsAreLocked, Excludes, NoHoleBelowWatermark, InFlight
<1>5. ASSUME NEW x \in Rows, NEW o \in Ops, Insert(w, x, o)
      PROVE  LockInv' /\ NoHoleBelowWatermark'
  <2>1. wpc' = wpc /\ wpc[w] = "locked"
        /\ inserted' = [inserted EXCEPT ![w] = @ \cup {lastValue + 1}]
    BY <1>5 DEF Insert
  <2>2. InFlight' \subseteq InFlight \cup {lastValue + 1}
    BY <2>1 DEF InFlight, IInv, TypeOK
  <2>3. lastValue + 1 > watermark /\ \A r \in Readers : lastValue + 1 > got[r]
    BY ChangeLogAssumption DEF IInv, TypeOK
  <2>4. NoHoleBelowWatermark'
    BY <1>1, <2>2, <2>3 DEF IInv, NoHoleBelowWatermark
  <2>5. InsertsAreLocked' /\ Excludes'
    BY <1>1, <2>1 DEF IInv, TypeOK, LockInv, InsertsAreLocked, Excludes
  <2> QED  BY <1>2, <2>4, <2>5 DEF LockInv
<1>6. CASE CommitWrite(w) \/ RollbackWrite(w)
  <2>1. wpc' = [wpc EXCEPT ![w] = "idle"] /\ inserted' = [inserted EXCEPT ![w] = {}]
    BY <1>6 DEF CommitWrite, RollbackWrite
  <2>2. InFlight' \subseteq InFlight
    BY <2>1 DEF InFlight, IInv, TypeOK
  <2>3. InsertsAreLocked' /\ Excludes'
    BY <1>1, <2>1 DEF IInv, TypeOK, LockInv, InsertsAreLocked, Excludes
  <2> QED  BY <1>1, <1>2, <2>2, <2>3 DEF LockInv, IInv, NoHoleBelowWatermark
<1> QED  BY <1>3, <1>4, <1>5, <1>6 DEF Write

\* A step of r that gives up its session's lock and transaction and does not leave
\* r at a statement that relies on them.
LEMMA ReleaseInvariant ==
  ASSUME IInv, OwnSessions, NEW r \in Readers, NEW to, NEW end,
         to \notin {"lock", "establish", "commit"},
         rpc' = [rpc EXCEPT ![r] = to],
         tx' = [tx EXCEPT ![Conn[r]] = end],
         exclusive' = exclusive \ {Conn[r]},
         pending' = [pending EXCEPT ![Conn[r]] = 0],
         UNCHANGED log
  PROVE  LockInv'
<1>1. InsertsAreLocked' /\ Excludes'
  BY DEF IInv, LockInv, InsertsAreLocked, Excludes, log
<1>2. \A q \in Readers : rpc'[q] = IF q = r THEN to ELSE rpc[q]
  BY DEF IInv, TypeOK
<1>3. \A q \in Readers : q # r => Conn[q] # Conn[r] /\ Conn[q] \in Sessions
  BY ChangeLogAssumption DEF OwnSessions
<1>4. AsksInTransaction'
  BY <1>2, <1>3 DEF IInv, TypeOK, LockInv, AsksInTransaction
<1>5. HoldsLock'
  BY <1>2, <1>3 DEF IInv, LockInv, HoldsLock
<1>6. PendingHoldsLock'
  BY ChangeLogAssumption DEF IInv, TypeOK, LockInv, PendingHoldsLock
<1> QED  BY <1>1, <1>4, <1>5, <1>6 DEF LockInv

\* A step of r that leaves all sessions alone, and r not at such a statement.
LEMMA QuietInvariant ==
  ASSUME IInv, NEW r \in Readers, NEW to, to \notin {"lock", "establish", "commit"},
         rpc' = [rpc EXCEPT ![r] = to],
         UNCHANGED <<log, tx, exclusive, pending>>
  PROVE  LockInv'
<1>1. \A q \in Readers : rpc'[q] = IF q = r THEN to ELSE rpc[q]
  BY DEF IInv, TypeOK
<1>2. AsksInTransaction' /\ HoldsLock'
  BY <1>1 DEF IInv, LockInv, AsksInTransaction, HoldsLock
<1> QED  BY <1>2 DEF IInv, LockInv, InsertsAreLocked, Excludes, PendingHoldsLock, log

\* What r goes by is sound if nothing is in flight, if it is the recorded
\* watermark, or if r is not at its query.
LEMMA GotInvariant ==
  ASSUME IInv, NEW r \in Readers, UNCHANGED inserted,
         \A q \in Readers : q # r => rpc'[q] = rpc[q] /\ got'[q] = got[q],
         InFlight = {} \/ ( /\ watermark' = watermark
                            /\ rpc'[r] = "query" => got'[r] = watermark )
  PROVE  NoHoleBelowWatermark'
<1>1. InFlight' = InFlight
  BY DEF InFlight
<1> QED  BY <1>1 DEF IInv, NoHoleBelowWatermark

\* A request's step.
LEMMA ServeInvariant ==
  ASSUME IInv, OwnSessions, NEW r \in Readers, Serve(r)
  PROVE  LockInv' /\ NoHoleBelowWatermark'
<1>0. /\ Conn[r] \in Sessions
      /\ rpc \in [Readers -> {"idle", "lock", "establish", "commit", "giveup", "rollback",
                              "recorded", "query"}]
      /\ got \in [Readers -> 0..lastValue] /\ LockInv /\ TypeOK
  BY ChangeLogAssumption DEF IInv, TypeOK
<1>0a. watermark \in Nat
  BY <1>0, ChangeLogAssumption DEF TypeOK
<1>1. CASE Lock(r)
  <2>1. /\ rpc[r] = "lock" /\ rpc' = [rpc EXCEPT ![r] = "establish"]
        /\ Sharing = {} /\ UNCHANGED <<log, tx, watermark, pending, got>>
    BY <1>1 DEF Lock, Step, Available
  <2>2. exclusive' = exclusive \cup {Conn[r]}
    BY <1>0, <1>1, <2>1 DEF Lock, LockInv, AsksInTransaction
  <2>3. \A q \in Readers : rpc'[q] = IF q = r THEN "establish" ELSE rpc[q]
    BY <1>0, <2>1
  <2>4. InsertsAreLocked' /\ Excludes'
    BY <1>0, <2>1 DEF LockInv, InsertsAreLocked, Excludes, Sharing, OwnSessions, log
  <2>5. AsksInTransaction' /\ HoldsLock' /\ PendingHoldsLock'
    BY <1>0, <2>1, <2>2, <2>3 DEF LockInv, AsksInTransaction, HoldsLock, PendingHoldsLock
  <2>6. NoHoleBelowWatermark'
    BY <2>1, <2>3, GotInvariant DEF log
  <2> QED  BY <2>4, <2>5, <2>6 DEF LockInv
<1>2. CASE LockTimeout(r)
  <2>1. /\ rpc' = [rpc EXCEPT ![r] = "giveup"] /\ tx' = [tx EXCEPT ![Conn[r]] = "aborted"]
        /\ exclusive' = exclusive \ {Conn[r]} /\ pending' = [pending EXCEPT ![Conn[r]] = 0]
        /\ UNCHANGED <<log, watermark, got>>
    BY <1>2 DEF LockTimeout, Step, Abandon
  <2>2. LockInv'
    BY <2>1, ReleaseInvariant
  <2> QED  BY <1>0, <2>1, <2>2, GotInvariant DEF log
<1>3. CASE Establish(r) /\ tx[Conn[r]] # "aborted"
  <2> DEFINE v == Max({watermark, pending[Conn[r]], Established(r, lastValue)})
  <2>1. /\ rpc[r] = "establish" /\ rpc' = [rpc EXCEPT ![r] = "commit"]
        /\ got' = [got EXCEPT ![r] = v] /\ UNCHANGED <<log, tx, exclusive>>
        /\ pending' \in {[pending EXCEPT ![Conn[r]] = v], pending}
    BY <1>3 DEF Establish, Step
  <2> HIDE DEF v
  <2>2. Conn[r] \in exclusive
    BY <1>0, <2>1 DEF LockInv, HoldsLock
  <2>3. \A q \in Readers : rpc'[q] = IF q = r THEN "commit" ELSE rpc[q]
    BY <1>0, <2>1
  <2>4. InsertsAreLocked' /\ Excludes'
    BY <1>0, <2>1 DEF LockInv, InsertsAreLocked, Excludes, log
  <2>5. AsksInTransaction' /\ HoldsLock'
    BY <1>0, <2>1, <2>2, <2>3 DEF LockInv, AsksInTransaction, HoldsLock
  <2>6. PendingHoldsLock'
    BY <1>0, <2>1, <2>2 DEF LockInv, PendingHoldsLock, TypeOK
  <2>7. NoHoleBelowWatermark'
    BY <1>0, <2>1, <2>2, <2>3, NoneInFlight, GotInvariant DEF log
  <2> QED  BY <2>4, <2>5, <2>6, <2>7 DEF LockInv
<1>4. CASE Establish(r) /\ tx[Conn[r]] = "aborted"
  <2>1. /\ rpc' = [rpc EXCEPT ![r] = "giveup"]
        /\ UNCHANGED <<log, tx, exclusive, watermark, pending, got>>
    BY <1>4 DEF Establish, Step
  <2>2. LockInv'
    BY <2>1, QuietInvariant
  <2> QED  BY <1>0, <2>1, <2>2, GotInvariant DEF log
<1>5. CASE Commit(r)
  <2>1. /\ \/ rpc[r] = "commit" /\ rpc' = [rpc EXCEPT ![r] = "query"]
           \/ rpc[r] = "giveup" /\ rpc' = [rpc EXCEPT ![r] = "rollback"]
        /\ watermark' = watermark \/ (pending[Conn[r]] # 0 /\ watermark' = pending[Conn[r]])
        /\ tx' = [tx EXCEPT ![Conn[r]] = "none"]
        /\ exclusive' = exclusive \ {Conn[r]} /\ pending' = [pending EXCEPT ![Conn[r]] = 0]
        /\ UNCHANGED <<log, got>>
    BY <1>5 DEF Commit, EndTx, Step
  <2>3. LockInv'
    BY <2>1, ReleaseInvariant
  <2>4. rpc[r] = "commit" => InFlight = {}
    BY <1>0, NoneInFlight DEF LockInv, HoldsLock
  <2>5. pending[Conn[r]] # 0 => InFlight = {}
    BY <1>0, NoneInFlight DEF LockInv, PendingHoldsLock
  <2>6. InFlight = {} \/ watermark' = watermark
    BY <2>1, <2>5
  <2>7. InFlight = {} \/ rpc'[r] # "query"
    BY <1>0, <2>1, <2>4
  <2>8. \A q \in Readers : q # r => rpc'[q] = rpc[q] /\ got'[q] = got[q]
    BY <1>0, <2>1
  <2> QED  BY <2>1, <2>3, <2>6, <2>7, <2>8, GotInvariant DEF log
<1>6. CASE Rollback(r)
  <2>1. /\ rpc' = [rpc EXCEPT ![r] = "recorded"] /\ tx' = [tx EXCEPT ![Conn[r]] = "none"]
        /\ exclusive' = exclusive \ {Conn[r]} /\ pending' = [pending EXCEPT ![Conn[r]] = 0]
        /\ UNCHANGED <<log, watermark, got>>
    BY <1>6 DEF Rollback, Step, Abandon
  <2>2. LockInv'
    BY <2>1, ReleaseInvariant
  <2> QED  BY <1>0, <2>1, <2>2, GotInvariant DEF log
<1>7. CASE RecordedWatermark(r)
  <2> DEFINE v == Max({watermark, pending[Conn[r]]})
  <2>1. /\ rpc' = [rpc EXCEPT ![r] = "query"] /\ got' = [got EXCEPT ![r] = v]
        /\ UNCHANGED <<log, tx, exclusive, watermark, pending>>
    BY <1>7 DEF RecordedWatermark, Step, session
  <2>2. v \in {watermark, pending[Conn[r]]} /\ v >= watermark
    BY <1>0, WatermarkType
  <2> HIDE DEF v
  <2>3. LockInv'
    BY <2>1, QuietInvariant
  <2>4. InFlight = {} \/ v = watermark
    <3>1. pending[Conn[r]] # 0 => InFlight = {}
      BY <1>0, NoneInFlight DEF LockInv, PendingHoldsLock
    <3> QED  BY <1>0a, <2>2, <3>1
  <2>5. \A q \in Readers : q # r => rpc'[q] = rpc[q] /\ got'[q] = got[q]
    BY <1>0, <2>1
  <2>6. got'[r] = v
    BY <1>0, <2>1
  <2> QED  BY <2>1, <2>3, <2>4, <2>5, <2>6, GotInvariant DEF log
<1>8. CASE Query(r) \/ Lost(r)
  <2>1. /\ rpc' = [rpc EXCEPT ![r] = "idle"] /\ got' = [got EXCEPT ![r] = 0]
        /\ UNCHANGED <<log, tx, exclusive, watermark, pending>>
    BY <1>8 DEF Query, Lost, Step, session
  <2>2. LockInv'
    BY <2>1, QuietInvariant
  <2>3. rpc'[r] # "query" /\ \A q \in Readers : q # r => rpc'[q] = rpc[q] /\ got'[q] = got[q]
    BY <1>0, <2>1
  <2> QED  BY <2>1, <2>2, <2>3, GotInvariant DEF log
<1> QED  BY <1>1, <1>2, <1>3, <1>4, <1>5, <1>6, <1>7, <1>8 DEF Serve

\* A failure's step.
LEMMA FaultInvariant ==
  ASSUME IInv, OwnSessions, NEW r \in Readers, Fault(r)
  PROVE  LockInv' /\ NoHoleBelowWatermark'
<1>0. /\ got \in [Readers -> 0..lastValue]
      /\ rpc \in [Readers -> {"idle", "lock", "establish", "commit", "giveup", "rollback",
                              "recorded", "query"}]
  BY DEF IInv, TypeOK
<1>1. LockInv'
  BY FaultEffect, ReleaseInvariant
<1>2. rpc'[r] # "query" /\ \A q \in Readers : q # r => rpc'[q] = rpc[q] /\ got'[q] = got[q]
  BY <1>0, FaultEffect
<1>3. NoHoleBelowWatermark'
  BY <1>2, FaultEffect, GotInvariant DEF log
<1> QED  BY <1>1, <1>3

\* A device's own steps.
LEMMA DeviceInvariant ==
  ASSUME IInv, OwnSessions, NEW r \in Readers, Begin(r) \/ Rebootstrap(r)
  PROVE  LockInv' /\ NoHoleBelowWatermark'
<1>0. /\ Conn[r] \in Sessions /\ LockInv
      /\ rpc \in [Readers -> {"idle", "lock", "establish", "commit", "giveup", "rollback",
                              "recorded", "query"}]
  BY ChangeLogAssumption DEF IInv, TypeOK
<1>1. CASE Begin(r)
  <2>1. /\ rpc' = [rpc EXCEPT ![r] = "lock"] /\ tx' = [tx EXCEPT ![Conn[r]] = "open"]
        /\ UNCHANGED <<log, exclusive, watermark, pending, got>>
    BY <1>1 DEF Begin, Step
  <2>2. \A q \in Readers : rpc'[q] = IF q = r THEN "lock" ELSE rpc[q]
    BY <1>0, <2>1
  <2>3. \A q \in Readers : Conn[q] \in Sessions /\ (tx[Conn[q]] = "open" => tx'[Conn[q]] = "open")
    BY <1>0, <2>1, ChangeLogAssumption DEF IInv, TypeOK
  <2>4. AsksInTransaction'
    BY <1>0, <2>1, <2>2, <2>3 DEF LockInv, AsksInTransaction, IInv, TypeOK
  <2>5. HoldsLock'
    BY <1>0, <2>1, <2>2 DEF LockInv, HoldsLock
  <2>6. InsertsAreLocked' /\ Excludes' /\ PendingHoldsLock'
    BY <1>0, <2>1 DEF LockInv, InsertsAreLocked, Excludes, PendingHoldsLock, log
  <2>7. NoHoleBelowWatermark'
    BY <2>1, <2>2, GotInvariant DEF log
  <2> QED  BY <2>4, <2>5, <2>6, <2>7 DEF LockInv
<1>2. CASE Rebootstrap(r)
  BY <1>0, <1>2 DEF Rebootstrap, log, session, LockInv, InsertsAreLocked, Excludes,
                    AsksInTransaction, HoldsLock, PendingHoldsLock, IInv,
                    NoHoleBelowWatermark, InFlight
<1> QED  BY <1>1, <1>2

LEMMA NextInvariant == OwnSessions /\ IInv /\ [Next]_vars => IInv'
<1> SUFFICES ASSUME OwnSessions, IInv, [Next]_vars PROVE IInv'
  OBVIOUS
<1>1. TypeOK'
  BY NextType DEF IInv
<1>2. CASE \E w \in Writers : Write(w)
  BY <1>1, <1>2, WriteInvariant DEF IInv, OwnSessions
<1>3. CASE \E r \in Readers : Begin(r) \/ Serve(r) \/ Rebootstrap(r)
  BY <1>1, <1>3, ServeInvariant, DeviceInvariant DEF IInv
<1>5. CASE \E r \in Failing : Fault(r)
  BY <1>1, <1>5, FaultInvariant, ChangeLogAssumption DEF IInv
<1>4. CASE UNCHANGED vars
  BY <1>1, <1>4 DEF vars, LockInv, InsertsAreLocked, Excludes, AsksInTransaction, HoldsLock,
                    PendingHoldsLock, IInv, NoHoleBelowWatermark, InFlight
<1> QED  BY <1>2, <1>3, <1>4, <1>5 DEF Next

\* NoHoleBelowWatermark: with a connection for every request and a transaction around
\* every append_change, no change at or below a watermark that safe_watermark records or
\* returns is still in flight, however many hosts write and requests read.
THEOREM ChangeLogNoHole ==
  ASSUME OwnSessions
  PROVE  Spec => []NoHoleBelowWatermark
<1>1. IInv /\ [Next]_vars => IInv'
  BY NextInvariant
<1>2. IInv => NoHoleBelowWatermark
  BY DEF IInv
<1> QED  BY <1>1, <1>2, InitInvariant, PTL DEF Spec

-----------------------------------------------------------------------------
(* What is served is on record.                                            *)

\* One transaction at most has written the row, and not beneath what is recorded.
OneWrites ==
  \A s \in Sessions : pending[s] # 0 =>
    pending[s] >= watermark /\ \A t \in Sessions : pending[t] # 0 => t = s

\* A request establishes in its transaction; only between the upsert and COMMIT is
\* there a row of its own, and it holds what the request was told.
WritesToCommit ==
  \A r \in Readers :
    /\ rpc[r] \in {"lock", "establish", "commit"} => tx[Conn[r]] = "open"
    /\ rpc[r] # "commit" => pending[Conn[r]] = 0
    /\ rpc[r] = "commit" => got[r] <= pending[Conn[r]]

RecordInv == TypeOK /\ OneWrites /\ WritesToCommit /\ ServedIsRecorded

\* The numbers the two parts compare.
LEMMA RecordTypes ==
  ASSUME TypeOK
  PROVE  /\ lastValue \in Nat /\ watermark \in Nat
         /\ \A q \in Readers : Conn[q] \in Sessions /\ cursor[q] \in Nat /\ got[q] \in Nat
         /\ \A s \in Sessions : pending[s] \in Nat
<1>1. lastValue \in Nat
  <2>1. lastValue \in 0..MaxSeq
    BY DEF TypeOK
  <2> QED  BY <2>1, ChangeLogAssumption
<1>2. /\ watermark \in 0..lastValue
      /\ \A q \in Readers : cursor[q] \in 0..lastValue /\ got[q] \in 0..lastValue
      /\ \A s \in Sessions : pending[s] \in 0..lastValue
  BY DEF TypeOK
<1>3. \A q \in Readers : Conn[q] \in Sessions
  BY ChangeLogAssumption
<1> QED  BY <1>1, <1>2, <1>3

\* A step of r that ends its transaction, with or without recording what it wrote, and
\* takes r to a statement outside it.
LEMMA EndRecord ==
  ASSUME RecordInv, OwnSessions, NEW r \in Readers, NEW to, NEW end,
         to \notin {"lock", "establish", "commit"},
         rpc' = [rpc EXCEPT ![r] = to],
         tx' = [tx EXCEPT ![Conn[r]] = end],
         pending' = [pending EXCEPT ![Conn[r]] = 0],
         \/ watermark' = watermark
         \/ pending[Conn[r]] # 0 /\ watermark' = pending[Conn[r]],
         got' = got \/ got' = [got EXCEPT ![r] = 0],
         to = "query" => got'[r] <= watermark',
         cursor' = cursor
  PROVE  OneWrites' /\ WritesToCommit' /\ ServedIsRecorded'
<1>0. /\ watermark \in Nat /\ Conn[r] \in Sessions /\ pending[Conn[r]] \in Nat
      /\ \A q \in Readers : cursor[q] \in Nat /\ got[q] \in Nat
      /\ \A s \in Sessions : pending[s] \in Nat
  BY RecordTypes DEF RecordInv
<1>1. \A s \in Sessions : pending'[s] = IF s = Conn[r] THEN 0 ELSE pending[s]
  BY DEF RecordInv, TypeOK
<1>2. watermark' \in Nat /\ watermark' >= watermark
  BY <1>0 DEF RecordInv, OneWrites
<1>3. OneWrites'
  <2> SUFFICES ASSUME NEW s \in Sessions, pending'[s] # 0
               PROVE  pending'[s] >= watermark' /\ \A t \in Sessions : pending'[t] # 0 => t = s
    BY DEF OneWrites
  <2>1. s # Conn[r] /\ pending'[s] = pending[s] /\ pending[s] # 0
    BY <1>1
  <2>2. pending[s] >= watermark /\ \A t \in Sessions : pending[t] # 0 => t = s
    BY <2>1 DEF RecordInv, OneWrites
  <2>3. watermark' = watermark
    BY <1>0, <2>1, <2>2
  <2> QED  BY <1>1, <2>1, <2>2, <2>3
<1>4. /\ rpc'[r] = to
      /\ \A q \in Readers : q # r =>
           /\ rpc'[q] = rpc[q] /\ got'[q] = got[q]
           /\ Conn[q] \in Sessions /\ Conn[q] # Conn[r]
  BY ChangeLogAssumption DEF RecordInv, TypeOK, OwnSessions
<1>5. \A q \in Readers : q # r => tx'[Conn[q]] = tx[Conn[q]] /\ pending'[Conn[q]] = pending[Conn[q]]
  BY <1>1, <1>4 DEF RecordInv, TypeOK
<1>6. WritesToCommit'
  BY <1>0, <1>1, <1>4, <1>5 DEF RecordInv, WritesToCommit
<1>7. ServedIsRecorded'
  BY <1>0, <1>2, <1>4 DEF RecordInv, ServedIsRecorded
<1> QED  BY <1>3, <1>6, <1>7

\* A step of r outside its transaction, that leaves the sessions alone and does not take
\* r or its device past the record.
LEMMA OutsideRecord ==
  ASSUME RecordInv, NEW r \in Readers, NEW to, NEW g, NEW c,
         to \notin {"lock", "establish", "commit"}, rpc[r] # "commit",
         rpc' = [rpc EXCEPT ![r] = to],
         got' = [got EXCEPT ![r] = g],
         cursor' = [cursor EXCEPT ![r] = c],
         c <= watermark, to = "query" => g <= watermark,
         UNCHANGED <<tx, pending, watermark>>
  PROVE  OneWrites' /\ WritesToCommit' /\ ServedIsRecorded'
<1>1. /\ rpc'[r] = to /\ got'[r] = g /\ cursor'[r] = c
      /\ \A q \in Readers : q # r =>
           rpc'[q] = rpc[q] /\ got'[q] = got[q] /\ cursor'[q] = cursor[q]
  BY DEF RecordInv, TypeOK
<1>2. OneWrites'
  BY DEF RecordInv, OneWrites
<1>3. WritesToCommit'
  BY <1>1 DEF RecordInv, WritesToCommit
<1>4. ServedIsRecorded'
  BY <1>1 DEF RecordInv, ServedIsRecorded
<1> QED  BY <1>2, <1>3, <1>4

\* The cursor of a batch is the device's own or within what its request serves by.
LEMMA BatchWithin ==
  ASSUME TypeOK, NEW r \in Readers, NEW page, page = BootstrapPage(r) \/ page = PullPage(r),
         NEW b \in BatchesOf(page)
  PROVE  NextCursor(r, b) = cursor[r] \/ NextCursor(r, b) <= got[r]
<1>1. CASE b = {}
  BY <1>1 DEF NextCursor
<1>2. CASE b # {}
  <2>1. b \subseteq InView(r)
    BY DEF BatchesOf, BootstrapPage, PullPage
  <2>2. lastValue \in Nat /\ b \subseteq 0..lastValue
    BY <2>1, ChangeLogAssumption DEF TypeOK, InView
  <2>3. Max(b) \in b
    BY <1>2, <2>2, MaxIsGreatest
  <2>4. NextCursor(r, b) = Max(b)
    BY <1>2 DEF NextCursor
  <2> QED  BY <2>1, <2>3, <2>4 DEF InView
<1> QED  BY <1>1, <1>2

LEMMA ServeRecord ==
  ASSUME RecordInv, OwnSessions, NEW r \in Readers, Serve(r)
  PROVE  OneWrites' /\ WritesToCommit' /\ ServedIsRecorded'
<1>0. /\ TypeOK /\ Conn[r] \in Sessions /\ watermark \in Nat
      /\ pending[Conn[r]] \in Nat /\ got[r] \in Nat /\ cursor[r] \in Nat
  BY RecordTypes DEF RecordInv
<1>1. CASE Lock(r)
  <2>1. /\ rpc[r] = "lock" /\ rpc' = [rpc EXCEPT ![r] = "establish"]
        /\ UNCHANGED <<tx, watermark, pending, got, cursor>>
    BY <1>1 DEF Lock, Step, device
  <2>2. \A q \in Readers : rpc'[q] = IF q = r THEN "establish" ELSE rpc[q]
    BY <1>0, <2>1 DEF TypeOK
  <2> QED  BY <2>1, <2>2 DEF RecordInv, OneWrites, WritesToCommit, ServedIsRecorded
<1>2. CASE LockTimeout(r)
  <2>1. /\ rpc' = [rpc EXCEPT ![r] = "giveup"] /\ tx' = [tx EXCEPT ![Conn[r]] = "aborted"]
        /\ pending' = [pending EXCEPT ![Conn[r]] = 0] /\ UNCHANGED <<watermark, got, cursor>>
    BY <1>2 DEF LockTimeout, Step, Abandon, device
  <2> QED  BY <2>1, EndRecord
<1>3. CASE Establish(r)
  <2> DEFINE v == Max({watermark, pending[Conn[r]], Established(r, lastValue)})
  <2>1. rpc[r] = "establish" /\ tx[Conn[r]] = "open" /\ pending[Conn[r]] = 0
    BY <1>3 DEF Establish, Step, RecordInv, WritesToCommit
  <2>2. v \in Nat /\ v >= watermark
    <3>1. v \in 0..lastValue /\ v >= watermark
      BY <1>0, WatermarkType
    <3>2. lastValue \in Nat
      BY <1>0, RecordTypes
    <3> HIDE DEF v
    <3> QED  BY <3>1, <3>2
  <2>3. /\ rpc' = [rpc EXCEPT ![r] = "commit"] /\ got' = [got EXCEPT ![r] = v]
        /\ pending' = [pending EXCEPT ![Conn[r]] = v]
        /\ \A t \in Sessions \ {Conn[r]} : pending[t] = 0
        /\ UNCHANGED <<tx, watermark, cursor>>
    BY <1>3, <2>1 DEF Establish, Step, device
  <2> HIDE DEF v
  <2>4. \A s \in Sessions : pending'[s] = IF s = Conn[r] THEN v ELSE 0
    BY <1>0, <2>3 DEF TypeOK
  <2>5. /\ rpc'[r] = "commit" /\ got'[r] = v
        /\ \A q \in Readers : q # r =>
             /\ rpc'[q] = rpc[q] /\ got'[q] = got[q]
             /\ Conn[q] \in Sessions /\ Conn[q] # Conn[r] /\ pending[Conn[q]] = 0
    BY <1>0, <2>3, ChangeLogAssumption DEF TypeOK, OwnSessions
  <2>6. OneWrites'
    BY <2>2, <2>3, <2>4 DEF OneWrites
  <2>7. WritesToCommit'
    BY <1>0, <2>1, <2>2, <2>3, <2>4, <2>5 DEF RecordInv, WritesToCommit
  <2>8. ServedIsRecorded'
    BY <2>3, <2>5 DEF RecordInv, ServedIsRecorded
  <2> QED  BY <2>6, <2>7, <2>8
<1>4. CASE Commit(r)
  <2>1. /\ \/ rpc[r] = "commit" /\ rpc' = [rpc EXCEPT ![r] = "query"]
           \/ rpc[r] = "giveup" /\ rpc' = [rpc EXCEPT ![r] = "rollback"]
        /\ watermark' = IF tx[Conn[r]] = "open" /\ pending[Conn[r]] # 0
                          THEN pending[Conn[r]] ELSE watermark
        /\ tx' = [tx EXCEPT ![Conn[r]] = "none"]
        /\ pending' = [pending EXCEPT ![Conn[r]] = 0] /\ UNCHANGED <<got, cursor>>
    BY <1>4 DEF Commit, EndTx, Step, device
  <2>2. rpc[r] = "commit" => got[r] <= watermark'
    BY <1>0, <2>1 DEF RecordInv, WritesToCommit
  <2>3. watermark' = watermark \/ (pending[Conn[r]] # 0 /\ watermark' = pending[Conn[r]])
    BY <2>1
  <2>4. CASE rpc' = [rpc EXCEPT ![r] = "query"] /\ rpc[r] = "commit"
    BY <2>1, <2>2, <2>3, <2>4, EndRecord
  <2>5. CASE rpc' = [rpc EXCEPT ![r] = "rollback"]
    BY <2>1, <2>3, <2>5, EndRecord
  <2> QED  BY <2>1, <2>4, <2>5
<1>5. CASE Rollback(r)
  <2>1. /\ rpc' = [rpc EXCEPT ![r] = "recorded"] /\ tx' = [tx EXCEPT ![Conn[r]] = "none"]
        /\ pending' = [pending EXCEPT ![Conn[r]] = 0] /\ UNCHANGED <<watermark, got, cursor>>
    BY <1>5 DEF Rollback, Step, Abandon, device
  <2> QED  BY <2>1, EndRecord
<1>6. CASE RecordedWatermark(r)
  <2> DEFINE v == Max({watermark, pending[Conn[r]]})
  <2>1. /\ rpc[r] = "recorded" /\ rpc' = [rpc EXCEPT ![r] = "query"]
        /\ got' = [got EXCEPT ![r] = v] /\ UNCHANGED <<tx, pending, watermark, cursor>>
    BY <1>6 DEF RecordedWatermark, Step, session, device
  <2>2. pending[Conn[r]] = 0
    BY <2>1 DEF RecordInv, WritesToCommit
  <2>3. v \in {watermark, pending[Conn[r]]}
    BY <1>0, WatermarkType
  <2> HIDE DEF v
  <2>4. v <= watermark
    BY <1>0, <2>2, <2>3
  <2>5. cursor' = [cursor EXCEPT ![r] = cursor[r]] /\ cursor[r] <= watermark
    BY <1>0, <2>1 DEF TypeOK, RecordInv, ServedIsRecorded
  <2> QED  BY <2>1, <2>4, <2>5, OutsideRecord
<1>7. CASE Query(r)
  <2> DEFINE page == IF booting[r] THEN BootstrapPage(r) ELSE PullPage(r)
  <2>1. PICK b \in BatchesOf(page) : cursor' = [cursor EXCEPT ![r] = NextCursor(r, b)]
    BY <1>7 DEF Query
  <2>2. NextCursor(r, b) = cursor[r] \/ NextCursor(r, b) <= got[r]
    BY <1>0, <2>1, BatchWithin
  <2>3. NextCursor(r, b) \in Nat
    BY <1>0, <2>1, BatchInLog, BatchType, ChangeLogAssumption DEF TypeOK
  <2>4. /\ rpc[r] = "query" /\ rpc' = [rpc EXCEPT ![r] = "idle"]
        /\ got' = [got EXCEPT ![r] = 0] /\ UNCHANGED <<tx, pending, watermark>>
    BY <1>7 DEF Query, Step, session
  <2>5. cursor[r] <= watermark /\ got[r] <= watermark
    BY <2>4 DEF RecordInv, ServedIsRecorded
  <2>6. NextCursor(r, b) <= watermark
    BY <1>0, <2>2, <2>3, <2>5
  <2> QED  BY <2>1, <2>4, <2>6, OutsideRecord
<1>8. CASE Lost(r)
  <2>1. /\ rpc[r] # "commit" /\ rpc' = [rpc EXCEPT ![r] = "idle"]
        /\ got' = [got EXCEPT ![r] = 0] /\ UNCHANGED <<tx, pending, watermark, cursor>>
    BY <1>8 DEF Lost, Step, session, device
  <2>2. cursor' = [cursor EXCEPT ![r] = cursor[r]] /\ cursor[r] <= watermark
    BY <1>0, <2>1 DEF TypeOK, RecordInv, ServedIsRecorded
  <2> QED  BY <2>1, <2>2, OutsideRecord
<1> QED  BY <1>1, <1>2, <1>3, <1>4, <1>5, <1>6, <1>7, <1>8 DEF Serve

LEMMA NextRecord == OwnSessions /\ RecordInv /\ [Next]_vars => RecordInv'
<1> SUFFICES ASSUME OwnSessions, RecordInv, [Next]_vars PROVE RecordInv'
  OBVIOUS
<1>1. TypeOK'
  BY NextType DEF RecordInv
<1>2. CASE \E w \in Writers : Write(w)
  <2>1. UNCHANGED <<tx, watermark, pending, rpc, got, cursor>>
    <3>1. PICK w \in Writers : Write(w)
      BY <1>2
    <3>2. UNCHANGED device
      <4>1. CASE BeginWrite(w) \/ LockForWrite(w) \/ CommitWrite(w) \/ RollbackWrite(w)
        BY <4>1 DEF BeginWrite, LockForWrite, CommitWrite, RollbackWrite
      <4>2. ASSUME NEW x \in Rows, NEW o \in Ops, Insert(w, x, o) PROVE UNCHANGED device
        BY <4>2 DEF Insert
      <4> QED  BY <3>1, <4>1, <4>2 DEF Write
    <3> QED  BY <3>1, <3>2, WriteKeeps DEF session, device
  <2> QED  BY <1>1, <2>1 DEF RecordInv, OneWrites, WritesToCommit, ServedIsRecorded
<1>3. CASE \E r \in Readers : Serve(r)
  BY <1>1, <1>3, ServeRecord DEF RecordInv
<1>4. ASSUME NEW r \in Readers, Begin(r)
      PROVE  RecordInv'
  <2>1. /\ rpc[r] = "idle" /\ rpc' = [rpc EXCEPT ![r] = "lock"]
        /\ tx' = [tx EXCEPT ![Conn[r]] = "open"]
        /\ UNCHANGED <<watermark, pending, got, cursor>>
    BY <1>4 DEF Begin, Step
  <2>2. /\ Conn[r] \in Sessions /\ tx'[Conn[r]] = "open" /\ rpc'[r] = "lock"
        /\ \A q \in Readers : q # r =>
             rpc'[q] = rpc[q] /\ tx'[Conn[q]] = tx[Conn[q]]
    BY <2>1, ChangeLogAssumption DEF RecordInv, TypeOK, OwnSessions
  <2>3. WritesToCommit'
    BY <2>1, <2>2 DEF RecordInv, WritesToCommit
  <2> QED  BY <1>1, <2>1, <2>2, <2>3 DEF RecordInv, OneWrites, ServedIsRecorded
<1>5. ASSUME NEW r \in Readers, Rebootstrap(r)
      PROVE  RecordInv'
  <2>1. /\ cursor' = [cursor EXCEPT ![r] = 0]
        /\ UNCHANGED <<tx, watermark, pending, rpc, got>>
    BY <1>5 DEF Rebootstrap, session
  <2>2. 0 <= watermark /\ \A q \in Readers : cursor'[q] = IF q = r THEN 0 ELSE cursor[q]
    BY <2>1, ChangeLogAssumption DEF RecordInv, TypeOK
  <2> QED  BY <1>1, <2>1, <2>2 DEF RecordInv, OneWrites, WritesToCommit, ServedIsRecorded
<1>6. ASSUME NEW r \in Failing, Fault(r)
      PROVE  RecordInv'
  <2>1. r \in Readers
    BY ChangeLogAssumption
  <2>2. PICK to \in {"giveup", "idle"}, end \in {"none", "aborted"} :
          rpc' = [rpc EXCEPT ![r] = to] /\ tx' = [tx EXCEPT ![Conn[r]] = end]
    BY <1>6, <2>1, FaultEffect
  <2>3. /\ pending' = [pending EXCEPT ![Conn[r]] = 0] /\ watermark' = watermark
        /\ got' = got \/ got' = [got EXCEPT ![r] = 0]
        /\ cursor' = cursor
    BY <1>6, <2>1, FaultEffect DEF device
  <2> QED  BY <1>1, <2>1, <2>2, <2>3, EndRecord DEF RecordInv
<1>7. CASE UNCHANGED vars
  BY <1>1, <1>7 DEF vars, RecordInv, OneWrites, WritesToCommit, ServedIsRecorded
<1> QED  BY <1>2, <1>3, <1>4, <1>5, <1>6, <1>7 DEF Next

\* ServedIsRecorded: with a connection for every request, no request serves by a
\* watermark that is not on record, and no device is ahead of the record, however locks
\* time out, statements fail and COMMITs are refused.
THEOREM ChangeLogServedIsRecorded ==
  ASSUME OwnSessions
  PROVE  Spec => []ServedIsRecorded
<1>1. Init => RecordInv
  BY InitType, ChangeLogAssumption
  DEF Init, RecordInv, OneWrites, WritesToCommit, ServedIsRecorded
<1>2. RecordInv /\ [Next]_vars => RecordInv'
  BY NextRecord
<1>3. RecordInv => ServedIsRecorded
  BY DEF RecordInv
<1> QED  BY <1>1, <1>2, <1>3, PTL DEF Spec

-----------------------------------------------------------------------------
(* A device never skips a change.                                          *)

\* m is the last committed change of row x.
IsLast(m, x) ==
  m \in committed /\ content[m].row = x
    /\ \A s \in committed : content[s].row = x => s <= m

\* NeverSkips, with the last change named rather than computed.
HoldsLast ==
  \A r \in Readers : \A x \in Visible[r] : \A m \in committed :
    IsLast(m, x) /\ m <= cursor[r] =>
      held[r][x] = IF content[m].op = "delete" THEN 0 ELSE m

\* What is still in flight is ahead of every device.
FlightIsAhead == \A s \in InFlight : \A r \in Readers : s > cursor[r]

\* A device at the start holds nothing, so that it needs no tombstones.
EmptyAtStart == \A r \in Readers : cursor[r] = 0 => \A x \in Rows : held[r][x] = 0

SkipInv == HoldsLast /\ FlightIsAhead /\ EmptyAtStart

LEMMA HoldsLastSuffices == TypeOK /\ HoldsLast => NeverSkips
<1> SUFFICES ASSUME TypeOK, HoldsLast, NEW r \in Readers, NEW x \in Visible[r],
                    {s \in committed : content[s].row = x} # {},
                    Max({s \in committed : content[s].row = x}) <= cursor[r]
             PROVE  held[r][x] = IF content[Max({s \in committed : content[s].row = x})].op = "delete"
                                   THEN 0 ELSE Max({s \in committed : content[s].row = x})
  BY DEF NeverSkips
<1> DEFINE changes == {s \in committed : content[s].row = x}
           m == Max(changes)
<1>1. changes \subseteq 0..MaxSeq /\ MaxSeq \in Nat
  <2>1. MaxSeq \in Nat /\ committed \subseteq 1..lastValue /\ lastValue \in 0..MaxSeq
    BY ChangeLogAssumption DEF TypeOK
  <2>2. 1..lastValue \subseteq 0..MaxSeq
    BY <2>1
  <2> QED  BY <2>1, <2>2
<1>2. m \in changes /\ \A y \in changes : y <= m
  BY <1>1, MaxIsGreatest
<1>3. IsLast(m, x) /\ m \in committed
  BY <1>2 DEF IsLast
<1> HIDE DEF m
<1>4. held[r][x] = IF content[m].op = "delete" THEN 0 ELSE m
  BY <1>3 DEF HoldsLast, m
<1> QED  BY <1>4 DEF m

\* A host's step: a commit brings nothing at or below a cursor.
LEMMA WriteSkip ==
  ASSUME IInv, SkipInv, NEW w \in Writers, Write(w)
  PROVE  SkipInv'
<1>0. /\ TypeOK /\ lastValue \in Nat /\ MaxSeq \in Nat /\ committed \subseteq 1..lastValue
      /\ inserted \in [Writers -> SUBSET (1..lastValue)]
      /\ \A r \in Readers : cursor[r] \in 0..lastValue
  BY ChangeLogAssumption DEF IInv, TypeOK
<1>1. UNCHANGED <<cursor, held>>
  <2>1. CASE BeginWrite(w) \/ LockForWrite(w) \/ CommitWrite(w) \/ RollbackWrite(w)
    BY <2>1 DEF BeginWrite, LockForWrite, CommitWrite, RollbackWrite, device
  <2>2. ASSUME NEW x \in Rows, NEW o \in Ops, Insert(w, x, o) PROVE UNCHANGED <<cursor, held>>
    BY <2>2 DEF Insert, device
  <2> QED  BY <2>1, <2>2 DEF Write
<1>2. EmptyAtStart'
  BY <1>1 DEF SkipInv, EmptyAtStart
<1>3. CASE BeginWrite(w) \/ LockForWrite(w) \/ RollbackWrite(w)
  <2>1. /\ UNCHANGED <<content, committed>>
        /\ inserted' = inserted \/ inserted' = [inserted EXCEPT ![w] = {}]
    BY <1>3 DEF BeginWrite, LockForWrite, RollbackWrite
  <2>2. InFlight' \subseteq InFlight
    BY <1>0, <2>1 DEF InFlight
  <2>3. HoldsLast'
    BY <1>1, <2>1 DEF SkipInv, HoldsLast, IsLast
  <2>4. FlightIsAhead'
    BY <1>1, <2>2 DEF SkipInv, FlightIsAhead
  <2> QED  BY <1>2, <2>3, <2>4 DEF SkipInv
<1>4. ASSUME NEW x \in Rows, NEW o \in Ops, Insert(w, x, o)
      PROVE  SkipInv'
  <2>1. /\ committed' = committed
        /\ content' = [content EXCEPT ![lastValue + 1] = [row |-> x, op |-> o]]
        /\ inserted' = [inserted EXCEPT ![w] = @ \cup {lastValue + 1}]
    BY <1>4 DEF Insert
  <2>2. InFlight' \subseteq InFlight \cup {lastValue + 1}
    BY <1>0, <2>1 DEF InFlight
  <2>3. \A s \in committed : content'[s] = content[s]
    BY <1>0, <2>1 DEF TypeOK, Seqs
  <2>4. HoldsLast'
    BY <1>1, <2>1, <2>3 DEF SkipInv, HoldsLast, IsLast
  <2>5. FlightIsAhead'
    BY <1>0, <1>1, <2>2 DEF SkipInv, FlightIsAhead
  <2> QED  BY <1>2, <2>4, <2>5 DEF SkipInv
<1>5. CASE CommitWrite(w)
  <2>1. /\ content' = content /\ committed' = committed \cup inserted[w]
        /\ inserted' = [inserted EXCEPT ![w] = {}]
    BY <1>5 DEF CommitWrite
  <2>2. InFlight' \subseteq InFlight
    BY <1>0, <2>1 DEF InFlight
  <2>3. FlightIsAhead'
    BY <1>1, <2>2 DEF SkipInv, FlightIsAhead
  <2>4. \A s \in inserted[w] : \A r \in Readers : s > cursor[r]
    BY DEF SkipInv, FlightIsAhead, InFlight
  <2>5. HoldsLast'
    <3> SUFFICES ASSUME NEW r \in Readers, NEW x \in Visible[r], NEW m \in committed',
                        IsLast(m, x)', m <= cursor[r]
                 PROVE  held[r][x] = IF content[m].op = "delete" THEN 0 ELSE m
      BY <1>1, <2>1 DEF HoldsLast
    <3>1. m \in committed
      <4>1. m \in inserted[w] => m > cursor[r] /\ m \in Nat /\ cursor[r] \in Nat
        BY <1>0, <2>4
      <4> QED  BY <2>1, <4>1
    <3>2. IsLast(m, x)
      BY <2>1, <3>1 DEF IsLast
    <3> QED  BY <3>1, <3>2 DEF SkipInv, HoldsLast
  <2> QED  BY <1>2, <2>3, <2>5 DEF SkipInv
<1> QED  BY <1>3, <1>4, <1>5 DEF Write

\* A device that applies a batch: the last change of a row, if it is at or below the new
\* cursor, was in the batch, had been applied before, or is a tombstone of a row that
\* the device never held.
LEMMA QuerySkip ==
  ASSUME IInv, SkipInv, NEW r \in Readers, Query(r)
  PROVE  SkipInv'
<1> DEFINE page == IF booting[r] THEN BootstrapPage(r) ELSE PullPage(r)
<1>0. /\ TypeOK /\ lastValue \in Nat /\ lastValue <= MaxSeq /\ MaxSeq \in Nat
      /\ committed \subseteq 1..lastValue
      /\ cursor \in [Readers -> 0..lastValue] /\ got[r] \in 0..lastValue
      /\ held \in [Readers -> [Rows -> 0..MaxSeq]]
      /\ rpc[r] = "query" /\ UNCHANGED <<committed, content, inserted>>
      /\ Visible[r] \subseteq Rows /\ 1..lastValue \subseteq 0..MaxSeq
  <2>1. TypeOK /\ lastValue \in 0..MaxSeq /\ MaxSeq \in Nat /\ committed \subseteq 1..lastValue
    BY ChangeLogAssumption DEF IInv, TypeOK
  <2>2. /\ cursor \in [Readers -> 0..lastValue] /\ got[r] \in 0..lastValue
        /\ held \in [Readers -> [Rows -> 0..MaxSeq]] /\ Visible[r] \subseteq Rows
    BY <2>1, ChangeLogAssumption DEF TypeOK
  <2>3. rpc[r] = "query" /\ UNCHANGED <<committed, content, inserted>>
    BY DEF Query, Step, log
  <2>4. lastValue \in Nat /\ lastValue <= MaxSeq /\ 1..lastValue \subseteq 0..MaxSeq
    BY <2>1
  <2> QED  BY <2>1, <2>2, <2>3, <2>4
<1>1. PICK b \in BatchesOf(page) :
        /\ cursor' = [cursor EXCEPT ![r] = NextCursor(r, b)]
        /\ held' = [held EXCEPT ![r] = Applied(r, b)]
  BY DEF Query
<1>2. page = BootstrapPage(r) \/ page = PullPage(r)
  OBVIOUS
<1>3. /\ page \subseteq InView(r) /\ \A s \in page : s > cursor[r]
      /\ b \subseteq page /\ \A s \in b, t \in page : t < s => t \in b
  BY <1>1 DEF BatchesOf, BootstrapPage, PullPage
<1>4. b \subseteq committed /\ b \subseteq 0..MaxSeq /\ \A s \in b : s <= got[r] /\ s > cursor[r]
  <2>1. b \subseteq committed /\ \A s \in b : s <= got[r] /\ s > cursor[r]
    BY <1>3 DEF InView
  <2> QED  BY <1>0, <2>1
<1>5. cursor'[r] = NextCursor(r, b) /\ held'[r] = Applied(r, b)
      /\ \A q \in Readers : q # r => cursor'[q] = cursor[q] /\ held'[q] = held[q]
  BY <1>0, <1>1
<1>6. \A x \in Rows : (\A s \in b : content[s].row # x) => held'[r][x] = held[r][x]
  BY <1>5 DEF Applied
<1>7. CASE b = {}
  <2>1. cursor'[r] = cursor[r]
    BY <1>5, <1>7 DEF NextCursor
  <2>2. \A q \in Readers : cursor'[q] = cursor[q] /\ \A x \in Rows : held'[q][x] = held[q][x]
    BY <1>5, <1>6, <1>7, <2>1
  <2>3. \A q \in Readers : Visible[q] \subseteq Rows
    BY ChangeLogAssumption
  <2>4. HoldsLast'
    <3>1. \A m, x : IsLast(m, x)' <=> IsLast(m, x)
      BY <1>0 DEF IsLast
    <3> QED  BY <1>0, <2>2, <2>3, <3>1 DEF SkipInv, HoldsLast
  <2>5. FlightIsAhead' /\ EmptyAtStart'
    BY <1>0, <2>2 DEF SkipInv, FlightIsAhead, EmptyAtStart, InFlight
  <2> QED  BY <2>4, <2>5 DEF SkipInv
<1>8. CASE b # {}
  <2> DEFINE c == Max(b)
  <2>1. c \in b /\ \A s \in b : s <= c
    BY <1>0, <1>4, <1>8, MaxIsGreatest
  <2>2. cursor'[r] = c
    BY <1>5, <1>8 DEF NextCursor
  <2> HIDE DEF c
  <2>3. c \in Nat /\ c <= got[r] /\ c > cursor[r] /\ cursor[r] \in Nat /\ got[r] \in Nat
    <3>1. c \in 0..MaxSeq /\ c <= got[r] /\ c > cursor[r]
      BY <1>4, <2>1
    <3>2. cursor[r] \in 0..lastValue /\ got[r] \in 0..lastValue
      BY <1>0
    <3> QED  BY <3>1, <3>2
  <2>4. FlightIsAhead'
    <3>1. InFlight' = InFlight
      BY <1>0 DEF InFlight
    <3>2. \A s \in InFlight : s \in Nat /\ s > got[r]
      <4>1. \A s \in InFlight : s > got[r]
        BY <1>0 DEF IInv, NoHoleBelowWatermark
      <4>2. \A s \in InFlight : s \in 1..lastValue
        BY <1>0 DEF TypeOK, InFlight
      <4> QED  BY <1>0, <4>1, <4>2
    <3>3. \A s \in InFlight : s > c
      BY <2>3, <3>2
    <3> QED  BY <1>5, <2>2, <3>1, <3>3 DEF SkipInv, FlightIsAhead
  <2>5. EmptyAtStart'
    <3>1. cursor'[r] # 0
      BY <2>2, <2>3
    <3> QED  BY <1>5, <3>1 DEF SkipInv, EmptyAtStart
  <2>6. ASSUME NEW x \in Visible[r], NEW m \in committed, IsLast(m, x), m <= c
        PROVE  held'[r][x] = IF content[m].op = "delete" THEN 0 ELSE m
    <3>0. x \in Rows /\ m \in Nat /\ m \in InView(r)
      BY <1>0, <2>3, <2>6 DEF InView, IsLast
    <3>1. CASE m <= cursor[r]
      <4>1. \A s \in b : content[s].row # x
        BY <1>0, <1>4, <2>3, <2>6, <3>0, <3>1 DEF IsLast
      <4> QED  BY <1>6, <2>6, <3>0, <3>1, <4>1 DEF SkipInv, HoldsLast
    <3>2. CASE m \in b
      <4> DEFINE mine == {s \in b : content[s].row = x}
      <4>1. mine \subseteq 0..MaxSeq /\ m \in mine /\ \A y \in mine : y <= m
        BY <1>4, <2>6, <3>2 DEF IsLast
      <4>2. Max(mine) = m
        BY <1>0, <4>1, MaxIs
      <4>3. held'[r][x] = IF mine = {} THEN held[r][x]
                          ELSE IF content[Max(mine)].op = "delete" THEN 0 ELSE Max(mine)
        BY <1>5, <3>0 DEF Applied
      <4> HIDE DEF mine
      <4> QED  BY <4>1, <4>2, <4>3
    <3>3. CASE m > cursor[r] /\ m \notin b
      <4>1. m \notin page
        <5>1. m \in page => m = c \/ m < c
          BY <2>3, <2>6, <3>0
        <5> QED  BY <1>3, <2>1, <3>3, <5>1
      <4>2. \A t \in InView(r) : content[t].row = x => t <= m
        BY <2>6 DEF IsLast, InView
      <4>3. booting[r] /\ content[m].op = "delete" /\ ~(cursor[r] > 0)
        <5>1. m \notin PullPage(r) => FALSE
          BY <3>0, <3>3 DEF PullPage
        <5>2. booting[r] /\ m \notin BootstrapPage(r)
          BY <4>1, <5>1
        <5> QED  BY <2>6, <3>0, <3>3, <4>2, <5>2 DEF BootstrapPage, IsLast
      <4>4. \A s \in b : content[s].row # x
        <5> SUFFICES ASSUME NEW s \in b, content[s].row = x PROVE FALSE
          OBVIOUS
        <5>1. s \in BootstrapPage(r) /\ s \in Nat
          <6>1. page = BootstrapPage(r)
            BY <4>3
          <6>2. s \in 0..MaxSeq
            BY <1>4
          <6> QED  BY <1>3, <6>1, <6>2
        <5>2. m <= s /\ s <= m
          BY <1>4, <2>6, <3>0, <5>1 DEF BootstrapPage, IsLast
        <5> QED  BY <3>0, <3>3, <5>1, <5>2
      <4>5. held[r][x] = 0
        BY <2>3, <3>0, <4>3 DEF SkipInv, EmptyAtStart
      <4> QED  BY <1>6, <3>0, <4>3, <4>4, <4>5
    <3> QED  BY <2>3, <3>0, <3>1, <3>2, <3>3
  <2>7. HoldsLast'
    <3> SUFFICES ASSUME NEW q \in Readers, NEW x \in Visible[q], NEW m \in committed,
                        IsLast(m, x), m <= cursor'[q]
                 PROVE  held'[q][x] = IF content[m].op = "delete" THEN 0 ELSE m
      BY <1>0 DEF HoldsLast, IsLast
    <3>1. CASE q = r
      BY <2>2, <2>6, <3>1
    <3>2. CASE q # r
      BY <1>5, <3>2 DEF SkipInv, HoldsLast
    <3> QED  BY <3>1, <3>2
  <2> QED  BY <2>4, <2>5, <2>7 DEF SkipInv
<1> QED  BY <1>7, <1>8

LEMMA NextSkip == IInv /\ SkipInv /\ [Next]_vars => SkipInv'
<1> SUFFICES ASSUME IInv, SkipInv, [Next]_vars PROVE SkipInv'
  OBVIOUS
<1>1. CASE \E w \in Writers : Write(w)
  BY <1>1, WriteSkip
<1>2. CASE \E r \in Readers : Query(r)
  BY <1>2, QuerySkip
<1>3. CASE \E r \in Readers : Rebootstrap(r)
  <2>1. PICK r \in Readers : Rebootstrap(r)
    BY <1>3
  <2>2. /\ UNCHANGED <<committed, content, inserted>>
        /\ cursor'[r] = 0 /\ \A x \in Rows : held'[r][x] = 0
        /\ \A q \in Readers : q # r => cursor'[q] = cursor[q] /\ held'[q] = held[q]
    BY <2>1 DEF Rebootstrap, log, IInv, TypeOK
  <2>3. \A m \in committed : ~(m <= 0)
    BY ChangeLogAssumption DEF IInv, TypeOK
  <2>4. \A s \in InFlight : s > 0
    BY ChangeLogAssumption DEF IInv, TypeOK, InFlight
  <2>5. HoldsLast'
    BY <2>2, <2>3 DEF SkipInv, HoldsLast, IsLast
  <2>6. FlightIsAhead'
    BY <2>2, <2>4 DEF SkipInv, FlightIsAhead, InFlight
  <2>7. EmptyAtStart'
    BY <2>2 DEF SkipInv, EmptyAtStart
  <2> QED  BY <2>5, <2>6, <2>7 DEF SkipInv
<1>4. CASE \/ UNCHANGED vars
           \/ \E r \in Failing : Fault(r)
           \/ \E r \in Readers : \/ Begin(r) \/ Lock(r) \/ LockTimeout(r) \/ Establish(r)
                                 \/ Commit(r) \/ Rollback(r) \/ RecordedWatermark(r) \/ Lost(r)
  <2>1. UNCHANGED <<committed, content, inserted, cursor, held>>
    BY <1>4, FaultEffect, ChangeLogAssumption
    DEF vars, log, device, Begin, Lock, LockTimeout, Establish, Commit, Rollback,
        RecordedWatermark, Lost
  <2> QED  BY <2>1 DEF SkipInv, HoldsLast, IsLast, FlightIsAhead, EmptyAtStart, InFlight
<1> QED  BY <1>1, <1>2, <1>3, <1>4 DEF Next, Serve

\* NeverSkips: with a connection for every request and a transaction around every
\* append_change, a device holds what the last change of each row at or below its cursor
\* left, for any mix of pulls, bootstraps, lost answers, row ceilings and page cuts.
THEOREM ChangeLogNeverSkips ==
  ASSUME OwnSessions
  PROVE  Spec => []NeverSkips
<1>1. Init => SkipInv
  BY DEF Init, SkipInv, HoldsLast, FlightIsAhead, EmptyAtStart, InFlight
<1>2. IInv /\ SkipInv /\ [Next]_vars => IInv' /\ SkipInv'
  BY NextInvariant, NextSkip
<1>3. IInv /\ SkipInv => NeverSkips
  BY HoldsLastSuffices DEF IInv, SkipInv
<1> QED  BY <1>1, <1>2, <1>3, InitInvariant, PTL DEF Spec
=============================================================================
