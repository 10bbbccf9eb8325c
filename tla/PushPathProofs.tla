--------------------------- MODULE PushPathProofs ---------------------------
(***************************************************************************)
(* PushPath: the write path as a whole is a ledger.                        *)
(*                                                                         *)
(* The lemmas about the outbox and about forwarding are used as they are,  *)
(* through instances of their proof modules: a step of the composition is  *)
(* a step of one component and leaves the other alone, so PInv holds the   *)
(* two components' invariants and says what the messages between them      *)
(* carry.  LInv adds that a command has one body, wherever it is, and that *)
(* what is on its way back, and what the app was shown, is what the server *)
(* recorded; with it a step of the path is a step of CommandLedger.        *)
(* KeepsPayloads is a hypothesis because an app update that migrates a     *)
(* queued command changes the body under the id the server dedupes by.     *)
(***************************************************************************)
EXTENDS PushPath, FiniteMax, TLAPS

\* What is proved of the outbox and of forwarding by themselves.
D == INSTANCE OutboxProofs WITH MaxResults <- MaxBatch
F == INSTANCE ForwardProofs WITH Ids <- Commands

-----------------------------------------------------------------------------
(* The two components.                                                     *)

\* A step of the outbox in the composition is one its own lemmas speak of.
LEMMA DeviceSteps ==
  ASSUME NEW c, NEW v, NEW r
  PROVE  /\ Device!Enqueue(c, v) => D!Enqueue(c, v)
         /\ Device!BuildPush => D!BuildPush
         /\ Device!ApplyResults(r, v) => D!ApplyResults(r, v)
         /\ Device!UpgradeCompleted => D!UpgradeCompleted
         /\ Device!Restart => D!Restart
         /\ Device!UpdateApp => D!UpdateApp
<1> USE DEF D!Charge, Device!Charge, D!Landed, Device!Landed, D!ToldOk, Device!ToldOk,
            D!durable, Device!durable, D!Restarted, Device!Restarted,
            D!Refreshed, Device!Refreshed
<1>1. Device!Enqueue(c, v) => D!Enqueue(c, v)
  BY DEF D!Enqueue, Device!Enqueue, D!Admits, Device!Admits, D!AuthoredUnder,
         Device!AuthoredUnder
<1>2. Device!BuildPush => D!BuildPush
  <2>1. \A d : D!Migrates(d) = Device!Migrates(d)
    BY DEF D!Migrates, Device!Migrates, D!Chain, Device!Chain
  <2>2. ASSUME NEW q PROVE D!Batches(q) = Device!Batches(q)
    <3>1. {d \in q : D!Migrates(d)} = {d \in q : Device!Migrates(d)}
      BY <2>1
    <3> QED
      BY <3>1 DEF D!Batches, Device!Batches, D!Cardinality, Device!Cardinality
  <2> QED
    BY <2>2 DEF D!BuildPush, Device!BuildPush
<1>3. Device!ApplyResults(r, v) => D!ApplyResults(r, v)
  BY DEF D!ApplyResults, Device!ApplyResults, D!Answered, Device!Answered, D!Statuses,
         Device!Statuses, D!FirstAnswer, Device!FirstAnswer, D!Resolve, Device!Resolve,
         D!Recovers, Device!Recovers
<1>4. Device!UpgradeCompleted => D!UpgradeCompleted
  BY DEF D!UpgradeCompleted, Device!UpgradeCompleted
<1>5. Device!Restart => D!Restart
  BY DEF D!Restart, Device!Restart
<1>6. Device!UpdateApp => D!UpdateApp
  BY DEF D!UpdateApp, Device!UpdateApp
<1> QED
  BY <1>1, <1>2, <1>3, <1>4, <1>5, <1>6

\* The same of forwarding.
LEMMA ServerSteps ==
  ASSUME NEW p \in Forwards
  PROVE  /\ \A c \in F!Submissions : Server!Submit(p, c) => F!Next
         /\ Server!Classify(p) => F!Next
         /\ Server!Ask(p) => F!Next
         /\ Server!HostFails(p) => F!Next
         /\ Server!Record(p) => F!Next
         /\ Server!Reread(p) => F!Next
         /\ Server!Drop(p) => F!Next
<1> USE DEF F!Goto, Server!Goto, F!Answer, Server!Answer, F!RowOf, Server!RowOf,
            F!Row, Server!Row
<1>1. \A c \in F!Submissions : Server!Submit(p, c) => F!Submit(p, c)
  BY DEF F!Submit, Server!Submit
<1>2. Server!Classify(p) => F!Classify(p)
  BY DEF F!Classify, Server!Classify, F!Fresh, Server!Fresh, F!Replays, Server!Replays,
         F!Mutated, Server!Mutated, F!Refusal, Server!Refusal
<1>3. Server!Ask(p) => F!Ask(p)
  BY DEF F!Ask, Server!Ask, F!Decided, Server!Decided, F!HostDecides, Server!HostDecides
<1>4. Server!HostFails(p) => F!HostFails(p)
  BY DEF F!HostFails, Server!HostFails, F!Decided, Server!Decided, F!HostDecides,
         Server!HostDecides
<1>5. Server!Record(p) => F!Record(p)
  BY DEF F!Record, Server!Record
<1>6. Server!Reread(p) => F!Reread(p)
  BY DEF F!Reread, Server!Reread, F!Replays, Server!Replays, F!Mutated, Server!Mutated
<1>7. Server!Drop(p) => F!Drop(p)
  BY DEF F!Drop, Server!Drop
<1> QED
  BY <1>1, <1>2, <1>3, <1>4, <1>5, <1>6, <1>7 DEF F!Next

LEMMA Constants ==
  /\ D!OutboxAssumption /\ F!ForwardAssumption
  /\ MaxFaults \in Nat /\ MaxSeq \in Nat /\ 1 \in Versions
  /\ D!Statuses = Device!Statuses /\ D!Verdicts = Device!Verdicts
  /\ F!Submissions = Server!Submissions /\ F!Results = Server!Results
BY PushPathAssumption
   DEF D!Classes, Device!Classes, D!Statuses, Device!Statuses, D!Verdicts, Device!Verdicts,
       F!Submissions, Server!Submissions, F!Results, Server!Results

LEMMA SameTypes == (D!TypeOK <=> Device!TypeOK) /\ (F!TypeOK <=> Server!TypeOK)
<1>1. D!TypeOK <=> Device!TypeOK
  BY DEF D!TypeOK, Device!TypeOK, D!Statuses, Device!Statuses
<1>2. F!TypeOK <=> Server!TypeOK
  BY DEF F!TypeOK, Server!TypeOK, F!Submissions, Server!Submissions, F!Results,
         Server!Results
<1> QED
  BY <1>1, <1>2

-----------------------------------------------------------------------------
(* The invariant without a hypothesis.                                     *)

\* The queue is finite, and append positions tell its commands apart.
Positions ==
  /\ IsFiniteSet(stored)
  /\ \A c \in Commands : at[c] < nextAt
  /\ \A c, d \in Commands : at[c] = at[d] /\ at[c] > 0 => c = d
  /\ \A c \in Commands : at[c] > 0 => authored[c] \in Versions

\* What a push carries, and what is left of it: queued commands, one body each.
CarriedAt(S, position) ==
  /\ IsFiniteSet(S)
  /\ \A x \in S : position[x.id] > 0
  /\ \A x, y \in S : x.id = y.id => x = y

Carried(S) == CarriedAt(S, at)

PushesAreCarried ==
  /\ \A m \in net : m.kind = "push" => Carried(m.commands)
  /\ \A p \in Forwards : Carried(serving[p].todo)

PInv == TypeOK /\ D!IInv /\ F!IInv /\ Positions /\ PushesAreCarried

\* Steps that leave the outbox alone, but for the count of faults.
Elsewhere == UNCHANGED device /\ faults' \in 0..MaxFaults

\* What the outbox does in a step of the write path.
DeviceMoves ==
  \/ Elsewhere
  \/ \E c \in Commands, v \in Device!Verdicts : Device!Enqueue(c, v)
  \/ Device!BuildPush
  \/ \E m \in net, v \in Device!Verdicts :
       m.kind = "results" /\ Device!ApplyResults(m.results, v)
  \/ Device!Refused /\ UNCHANGED faults
  \/ Device!UpgradeCompleted \/ Device!Restart \/ Device!UpdateApp

LEMMA NextDevice ==
  ASSUME PInv, [Next]_vars
  PROVE  DeviceMoves
<1> USE DEF DeviceMoves
<1>0. MaxFaults \in Nat /\ faults \in 0..MaxFaults
  BY Constants DEF PInv, TypeOK, Device!TypeOK
<1>1. CASE Push
  BY <1>1 DEF Push
<1>2. ASSUME NEW c \in Commands, NEW v \in Device!Verdicts, Enqueue(c, v) PROVE DeviceMoves
  BY <1>2 DEF Enqueue
<1>3. CASE Restart \/ UpdateApp \/ UpgradeCompleted
  BY <1>3 DEF Restart, UpdateApp, UpgradeCompleted
<1>4. ASSUME NEW m \in net, NEW v \in Device!Verdicts, Deliver(m, v) PROVE DeviceMoves
  BY <1>4 DEF Deliver
<1>5. CASE \E m \in net : Disturb(m)
  BY <1>0, <1>5 DEF Disturb, Fault, Elsewhere
<1>6. ASSUME NEW p \in Forwards, Serve(p) \/ Unresolved(p) \/ Abandon(p) PROVE DeviceMoves
  <2>1. CASE Take(p) \/ Work(p) \/ Respond(p) \/ \E m \in net : Receive(p, m)
    BY <1>0, <2>1 DEF Take, Work, Respond, Receive, Elsewhere
  <2>2. CASE Unresolved(p) \/ Abandon(p)
    BY <1>0, <2>2 DEF Unresolved, Abandon, Fault, Elsewhere
  <2> QED
    BY <1>6, <2>1, <2>2 DEF Serve
<1>7. CASE Deploy
  BY <1>0, <1>7 DEF Deploy, Elsewhere
<1>8. CASE UNCHANGED vars
  BY <1>0, <1>8 DEF vars, Elsewhere
<1> HIDE DEF DeviceMoves
<1> QED
  BY <1>1, <1>2, <1>3, <1>4, <1>5, <1>6, <1>7, <1>8 DEF Next

\* The outbox keeps its own invariant inside the write path, and its order.
LEMMA DeviceInv ==
  ASSUME PInv, [Next]_vars
  PROVE  /\ D!IInv' /\ Positions'
         /\ \A c \in Commands : at[c] > 0 => at'[c] = at[c]
<1> DEFINE Kept == UNCHANGED <<at, nextAt, authored>> /\ stored' \subseteq stored
           Goal == /\ D!IInv' /\ Positions'
                   /\ \A c \in Commands : at[c] > 0 => at'[c] = at[c]
<1> SUFFICES Goal
  OBVIOUS
<1>0. D!IInv /\ Positions /\ D!TypeOK
  BY DEF PInv, D!IInv
<1>1. ASSUME Kept PROVE Positions' /\ \A c \in Commands : at[c] > 0 => at'[c] = at[c]
  <2>1. IsFiniteSet(stored')
    BY <1>0, <1>1, FS_Subset DEF Positions
  <2> QED
    BY <1>0, <1>1, <2>1 DEF Positions
<1>2. ASSUME NEW c \in Commands, NEW v \in Device!Verdicts, Device!Enqueue(c, v)
      PROVE  Goal
  <2>1. D!IInv'
    BY <1>0, <1>2, Constants, DeviceSteps, D!EnqueueIInv
  <2>2. IsFiniteSet(stored \cup {c})
    BY <1>0, FS_AddElement DEF Positions
  <2>3. IsFiniteSet(stored')
    BY <1>0, <1>2, <2>2 DEF Device!Enqueue, Positions
  <2>4. CASE UNCHANGED <<at, nextAt, authored>>
    BY <1>0, <2>1, <2>3, <2>4 DEF Positions
  <2>5. CASE /\ at[c] = 0
             /\ at' = [at EXCEPT ![c] = nextAt]
             /\ nextAt' = nextAt + 1
             /\ authored' = [authored EXCEPT ![c] = app]
    <3>1. at \in [Commands -> Nat] /\ nextAt \in Nat \ {0} /\ app \in Versions
          /\ authored \in [Commands -> Versions \cup {0}]
      BY <1>0 DEF D!TypeOK
    <3>2. \A d \in Commands : at'[d] = IF d = c THEN nextAt ELSE at[d]
      BY <2>5, <3>1
    <3>3. \A d \in Commands : authored'[d] = IF d = c THEN app ELSE authored[d]
      BY <2>5, <3>1
    <3>4. \A d \in Commands : at'[d] < nextAt'
      BY <1>0, <2>5, <3>1, <3>2 DEF Positions
    <3>5. \A d, e \in Commands : at'[d] = at'[e] /\ at'[d] > 0 => d = e
      BY <1>0, <3>1, <3>2 DEF Positions
    <3>6. \A d \in Commands : at'[d] > 0 => authored'[d] \in Versions
      BY <1>0, <3>1, <3>2, <3>3 DEF Positions
    <3>7. \A d \in Commands : at[d] > 0 => at'[d] = at[d]
      BY <2>5, <3>1, <3>2
    <3> QED
      BY <2>1, <2>3, <3>4, <3>5, <3>6, <3>7 DEF Positions
  <2> QED
    BY <1>2, <2>4, <2>5 DEF Device!Enqueue, Device!AuthoredUnder
<1>3. CASE Device!BuildPush
  <2>1. D!IInv'
    BY <1>0, <1>3, Constants, DeviceSteps, D!BuildPushIInv
  <2>2. Kept
    BY <1>3 DEF Device!BuildPush, Device!durable
  <2> QED
    BY <1>1, <2>1, <2>2
<1>4. ASSUME NEW m \in net, NEW v \in Device!Verdicts, Device!ApplyResults(m.results, v)
      PROVE  Goal
  <2>1. D!IInv'
    BY <1>0, <1>4, Constants, DeviceSteps, D!ApplyResultsIInv
  <2>2. Kept
    BY <1>4 DEF Device!ApplyResults, Device!Resolve
  <2> QED
    BY <1>1, <2>1, <2>2
<1>5. CASE Elsewhere \/ (Device!Refused /\ UNCHANGED faults)
  <2>1. /\ UNCHANGED <<outbox, outboxSuspect, app, stored, at, nextAt, authored, outcomes,
                       recovered, acked, request, sent>>
        /\ upgradeRequired' \in BOOLEAN /\ faults' \in 0..MaxFaults
    BY <1>0, <1>5 DEF Elsewhere, device, Device!Refused, Device!durable, D!TypeOK
  <2>2. D!IInv'
    BY <1>0, <2>1 DEF D!IInv, D!TypeOK, D!MemoryIsStorage, D!KnownToStorage, D!NothingLost,
                      D!OneOutcome
  <2> QED
    BY <1>1, <2>1, <2>2
<1>6. CASE Device!UpgradeCompleted \/ Device!Restart \/ Device!UpdateApp
  <2>1. D!UpgradeCompleted \/ D!Restart \/ D!UpdateApp
    BY <1>6, DeviceSteps
  <2>2. D!IInv'
    BY <1>0, <2>1, Constants, D!NextIInv DEF D!Next
  <2>3. Kept
    BY <1>6 DEF Device!UpgradeCompleted, Device!Restart, Device!UpdateApp,
                Device!Restarted, Device!durable
  <2> QED
    BY <1>1, <2>2, <2>3
<1> HIDE DEF Goal
<1> QED
  BY <1>2, <1>3, <1>4, <1>5, <1>6, NextDevice DEF DeviceMoves

-----------------------------------------------------------------------------
(* What is on the way.                                                     *)

\* Part of a push is carried like the whole.
LEMMA PartIsCarried ==
  ASSUME NEW S, Carried(S), NEW T \in SUBSET S
  PROVE  Carried(T)
<1>1. IsFiniteSet(T)
  BY FS_Subset DEF Carried, CarriedAt
<1> QED
  BY <1>1 DEF Carried, CarriedAt

\* A push has a first command: the server never takes up anything else.
LEMMA FirstExists ==
  ASSUME PInv, NEW T \in SUBSET Server!Submissions, Carried(T), T # {}
  PROVE  \E c \in T : FirstOf(T, 1) = {c}
<1> DEFINE N == {at[x.id] : x \in T}
           Before(x) == {d \in T : at[d.id] < at[x.id]}
<1>1. /\ at \in [Commands -> Nat]
      /\ \A c, d \in Commands : at[c] = at[d] /\ at[c] > 0 => c = d
  BY DEF PInv, TypeOK, Device!TypeOK, Positions
<1>2. \A x \in T : x.id \in Commands /\ at[x.id] \in Nat
  BY <1>1 DEF Server!Submissions
<1>3. PICK n \in N : \A k \in N : n <= k
  <2>1. N \subseteq Nat /\ N # {}
    BY <1>2
  <2> HIDE DEF N
  <2> QED
    BY <2>1, LeastExists
<1>4. PICK c \in T : at[c.id] = n
  OBVIOUS
<1>5. \A x \in T : at[c.id] <= at[x.id]
  BY <1>3, <1>4
<1>6. ASSUME NEW x \in T PROVE IsFiniteSet(Before(x)) /\ Cardinality(Before(x)) \in Nat
  <2>1. IsFiniteSet(Before(x))
    BY FS_Subset DEF Carried, CarriedAt
  <2> QED
    BY <2>1, FS_CardinalityType
<1>7. Cardinality(Before(c)) < 1
  <2>1. Before(c) = {}
    BY <1>2, <1>5
  <2> HIDE DEF Before
  <2>2. Cardinality(Before(c)) = 0
    BY <2>1, FS_EmptySet
  <2> QED
    BY <2>2
<1>8. ASSUME NEW x \in T, x # c PROVE ~(Cardinality(Before(x)) < 1)
  <2>1. at[c.id] < at[x.id]
    <3>1. x.id # c.id
      BY <1>8 DEF Carried, CarriedAt
    <3>2. at[x.id] # at[c.id]
      BY <1>1, <1>2, <3>1 DEF Carried, CarriedAt
    <3> QED
      BY <1>2, <1>5, <3>2
  <2>2. Before(x) # {}
    BY <2>1
  <2>3. Cardinality(Before(x)) # 0
    BY <1>6, <2>2, FS_EmptySet
  <2> QED
    <3> HIDE DEF Before
    <3> QED
      BY <1>6, <2>3
<1>9. FirstOf(T, 1) = {x \in T : Cardinality(Before(x)) < 1}
  BY DEF FirstOf
<1> HIDE DEF Before
<1> QED
  BY <1>7, <1>8, <1>9

\* Take's command is one of the push it works on.
LEMMA TakenIsTodo ==
  ASSUME PInv, NEW p \in Forwards, serving[p].todo # {}
  PROVE  (CHOOSE c \in serving[p].todo : FirstOf(serving[p].todo, 1) = {c})
           \in serving[p].todo
<1>1. serving[p].todo \in SUBSET Server!Submissions /\ Carried(serving[p].todo)
  BY DEF PInv, TypeOK, PushesAreCarried
<1> QED
  BY <1>1, FirstExists

\* Every step is one of forwarding, or leaves it alone.
LEMMA NextServer ==
  ASSUME PInv, [Next]_vars
  PROVE  [F!Next]_(F!vars) /\ F!IInv'
<1>1. [F!Next]_(F!vars)
  <2>1. CASE UNCHANGED server
    BY <2>1 DEF server, F!vars
  <2>2. ASSUME NEW p \in Forwards, Take(p) PROVE F!Next
    <3> DEFINE c == CHOOSE c \in serving[p].todo : FirstOf(serving[p].todo, 1) = {c}
    <3>1. serving[p].todo # {} /\ Server!Submit(p, c)
      BY <2>2 DEF Take
    <3>2. c \in F!Submissions
      <4>1. c \in serving[p].todo
        BY <3>1, TakenIsTodo
      <4>2. serving[p].todo \subseteq Server!Submissions
        BY DEF PInv, TypeOK
      <4> QED
        BY <4>1, <4>2, Constants
    <3> HIDE DEF c
    <3> QED
      BY <3>1, <3>2, ServerSteps
  <2>3. ASSUME NEW p \in Forwards, Work(p) PROVE F!Next
    BY <2>3, ServerSteps DEF Work
  <2>4. ASSUME NEW p \in Forwards, Unresolved(p) \/ Abandon(p) PROVE F!Next
    BY <2>4, ServerSteps DEF Unresolved, Abandon
  <2>5. ASSUME NEW p \in Forwards, Respond(p) \/ \E m \in net : Receive(p, m)
        PROVE  UNCHANGED server
    BY <2>5 DEF Respond, Receive
  <2>6. CASE \/ Push \/ Restart \/ UpdateApp \/ UpgradeCompleted \/ Deploy
             \/ \E c \in Commands, v \in Device!Verdicts : Enqueue(c, v)
             \/ \E m \in net, v \in Device!Verdicts : Deliver(m, v)
             \/ \E m \in net : Disturb(m)
             \/ UNCHANGED vars
    <3>1. UNCHANGED server
      BY <2>6 DEF Push, Restart, UpdateApp, UpgradeCompleted, Deploy, Enqueue, Deliver,
                  Disturb, vars
    <3> QED
      BY <2>1, <3>1
  <2> QED
    BY <2>1, <2>2, <2>3, <2>4, <2>5, <2>6 DEF Next, Serve
<1>2. F!IInv'
  BY <1>1, Constants, F!NextInv DEF PInv
<1> QED
  BY <1>1, <1>2

-----------------------------------------------------------------------------
(* Types.                                                                  *)

\* What may be in flight.
Message(m) ==
  \/ m \in [kind : {"push"}, commands : SUBSET Server!Submissions, protocol : Versions,
            copy : BOOLEAN]
  \/ m \in [kind : {"results"}, results : Seq(Replies), copy : BOOLEAN]
  \/ m \in [kind : {"upgrade"}, copy : BOOLEAN]

Desk == [busy : BOOLEAN, todo : SUBSET Server!Submissions, done : Seq(Replies)]

\* The net and the pushes being served.
FlowOK ==
  /\ \A m \in net : Message(m)
  /\ serving \in [Forwards -> Desk]
  /\ PushesAreCarried

LEMMA FlowOfInv == PInv => FlowOK
BY DEF PInv, TypeOK, FlowOK, Message, Desk

\* A push that build_push sends.
LEMMA PushingIsCarried ==
  ASSUME PInv, NEW b \in SUBSET stored
  PROVE  /\ Message(Pushing(b)) /\ Carried(Pushing(b).commands)
         /\ Pushing(b).kind = "push"
         /\ \A x \in Pushing(b).commands : x.id \in b /\ x.body = Body(x.id)
<1> DEFINE S == {[id |-> c, body |-> Body(c)] : c \in b}
<1>1. /\ IsFiniteSet(stored) /\ stored \subseteq Commands /\ app \in Versions
      /\ \A c \in Commands : at[c] > 0 => authored[c] \in Versions
      /\ \A c \in stored : at[c] > 0
  BY DEF PInv, TypeOK, Device!TypeOK, Positions, D!IInv, D!KnownToStorage
<1>2. \A c \in b : Body(c) \in Bodies
  BY <1>1, PushPathAssumption DEF Body
<1>3. S \in SUBSET Server!Submissions
  BY <1>1, <1>2 DEF Server!Submissions
<1>4. Carried(S)
  <2>1. IsFiniteSet(b)
    BY <1>1, FS_Subset
  <2>2. [c \in b |-> [id |-> c, body |-> Body(c)]] \in Surjection(b, S)
    BY DEF Surjection
  <2>3. IsFiniteSet(S)
    <3> HIDE DEF S
    <3> QED
      BY <2>1, <2>2, FS_Surjection
  <2> QED
    BY <1>1, <2>3 DEF Carried, CarriedAt
<1>5. Pushing(b).commands = S /\ Pushing(b).kind = "push"
  BY DEF Pushing
<1>6. Message(Pushing(b))
  <2> HIDE DEF S
  <2>1. Pushing(b) = [kind |-> "push", commands |-> S, protocol |-> app, copy |-> FALSE]
    BY DEF Pushing, S
  <2> QED
    BY <1>1, <1>3, <2>1 DEF Message
<1>7. \A x \in S : x.id \in b /\ x.body = Body(x.id)
  OBVIOUS
<1> QED
  BY <1>4, <1>5, <1>6, <1>7

\* Commands that are on their way stay queued or resolved: positions are kept.
LEMMA CarriedNext ==
  ASSUME PInv, [Next]_vars, NEW S \in SUBSET Server!Submissions, Carried(S)
  PROVE  CarriedAt(S, at')
<1>1. \A x \in S : x.id \in Commands
  BY DEF Server!Submissions
<1> QED
  BY <1>1, DeviceInv DEF Carried, CarriedAt

\* A result joins the others of its push.
LEMMA ResultType ==
  ASSUME PInv, NEW p \in Forwards, NEW r \in Server!Results
  PROVE  Result(p, r) \in Replies
BY DEF PInv, TypeOK, Server!TypeOK, Server!Submissions, Server!Results, Replies, Result,
       Device!Statuses

\* Where a message in flight comes from.
Origin(m) ==
  \/ m \in net
  \/ \E k \in net : m = [k EXCEPT !.copy = TRUE]
  \/ \E b \in SUBSET stored : m = Pushing(b)
  \/ \E k \in net : k.kind = "push" /\ m = [kind |-> "upgrade", copy |-> k.copy]
  \/ \E p \in Forwards :
       m = [kind |-> "results", results |-> serving[p].done, copy |-> FALSE]

LEMMA NetNext ==
  ASSUME PInv, [Next]_vars, NEW m \in net'
  PROVE  Origin(m)
<1> USE DEF Origin
<1>1. CASE Push
  <2>1. CASE m \notin net
    <3>1. ~upgradeRequired /\ Device!Refreshed # {} /\ m = Pushing(request')
      BY <1>1, <2>1 DEF Push
    <3>2. Device!Refreshed = stored
      BY DEF PInv, D!IInv, D!TypeOK, D!MemoryIsStorage, Device!Refreshed
    <3>3. request' \in SUBSET stored
      BY <1>1, <3>1, <3>2 DEF Push, Device!BuildPush, Device!Batches
    <3> QED
      BY <3>1, <3>3
  <2> QED
    BY <2>1
<1>2. ASSUME NEW k \in net, NEW v \in Device!Verdicts, Deliver(k, v) PROVE Origin(m)
  BY <1>2 DEF Deliver
<1>3. ASSUME NEW k \in net, Disturb(k) PROVE Origin(m)
  BY <1>3 DEF Disturb
<1>4. ASSUME NEW p \in Forwards, NEW k \in net, Receive(p, k) PROVE Origin(m)
  BY <1>4 DEF Receive
<1>5. ASSUME NEW p \in Forwards, Respond(p) PROVE Origin(m)
  BY <1>5 DEF Respond
<1>6. ASSUME NEW p \in Forwards, Take(p) \/ Work(p) \/ Unresolved(p) \/ Abandon(p)
      PROVE  Origin(m)
  BY <1>6 DEF Take, Work, Unresolved, Abandon
<1>7. CASE \/ Restart \/ UpdateApp \/ UpgradeCompleted \/ Deploy \/ UNCHANGED vars
           \/ \E c \in Commands, v \in Device!Verdicts : Enqueue(c, v)
  BY <1>7 DEF Restart, UpdateApp, UpgradeCompleted, Deploy, Enqueue, vars
<1> HIDE DEF Origin
<1> QED
  BY <1>1, <1>2, <1>3, <1>4, <1>5, <1>6, <1>7 DEF Next, Serve

\* What happens to a push that is being served.
Moved(p) ==
  \/ serving'[p] = serving[p]
  \/ serving'[p] = Free
  \/ \E m \in net : \E T \in SUBSET m.commands :
       /\ m.kind = "push"
       /\ serving'[p] = [busy |-> TRUE, todo |-> T, done |-> <<>>]
  \/ \E T \in SUBSET serving[p].todo :
       serving'[p] = [serving[p] EXCEPT !.todo = T]
  \/ \E r \in Server!Results :
       /\ Server!Answer(p, r)
       /\ serving'[p] = [serving[p] EXCEPT
                           !.done = Append(serving[p].done, Result(p, r))]

LEMMA ServingNext ==
  ASSUME PInv, [Next]_vars
  PROVE  /\ serving' = [p \in Forwards |-> serving'[p]]
         /\ \A p \in Forwards : Moved(p)
<1> DEFINE Goal == /\ serving' = [p \in Forwards |-> serving'[p]]
                   /\ \A p \in Forwards : Moved(p)
<1> USE DEF Moved
<1> SUFFICES Goal
  OBVIOUS
<1>0. serving = [p \in Forwards |-> serving[p]]
  BY DEF PInv, TypeOK
<1>1. ASSUME NEW p \in Forwards, NEW d, serving' = [serving EXCEPT ![p] = d],
             serving'[p] = d => Moved(p)
      PROVE  Goal
  <2>1. serving'[p] = d /\ \A q \in Forwards : q # p => serving'[q] = serving[q]
    BY <1>0, <1>1
  <2>2. serving' = [q \in Forwards |-> serving'[q]]
    BY <1>0, <1>1
  <2>3. ASSUME NEW q \in Forwards PROVE Moved(q)
    BY <1>1, <2>1
  <2> QED
    BY <2>2, <2>3
<1>2. CASE UNCHANGED serving
  BY <1>0, <1>2
<1>3. ASSUME NEW p \in Forwards, Take(p) PROVE Goal
  <2>1. PICK c : serving' = [serving EXCEPT ![p].todo = @ \ {c}]
    BY <1>3 DEF Take
  <2> DEFINE d == [serving[p] EXCEPT !.todo = serving[p].todo \ {c}]
  <2>2. serving' = [serving EXCEPT ![p] = d]
    BY <2>1
  <2>3. serving'[p] = d => Moved(p)
    OBVIOUS
  <2> HIDE DEF d, Moved, Goal
  <2> QED
    BY <1>1, <2>2, <2>3
<1>4. ASSUME NEW p \in Forwards, Work(p) PROVE Goal
  <2>1. CASE serving' = [serving EXCEPT ![p] = Free]
    <3>1. serving'[p] = Free => Moved(p)
      OBVIOUS
    <3> HIDE DEF Moved, Goal
    <3> QED
      BY <1>1, <2>1, <3>1
  <2>2. ASSUME NEW r \in Server!Results, Server!Answer(p, r),
               serving' = [serving EXCEPT ![p].done = Append(@, Result(p, r))]
        PROVE  Goal
    <3> DEFINE d == [serving[p] EXCEPT !.done = Append(serving[p].done, Result(p, r))]
    <3>1. serving' = [serving EXCEPT ![p] = d]
      BY <2>2
    <3>2. serving'[p] = d => Moved(p)
      BY <2>2
    <3> HIDE DEF d, Moved, Goal
    <3> QED
      BY <1>1, <3>1, <3>2
  <2> HIDE DEF Goal
  <2> QED
    BY <1>2, <1>4, <2>1, <2>2 DEF Work
<1>5. ASSUME NEW p \in Forwards, Respond(p) \/ Abandon(p) PROVE Goal
  <2>1. serving' = [serving EXCEPT ![p] = Free]
    BY <1>5 DEF Respond, Abandon
  <2>2. serving'[p] = Free => Moved(p)
    OBVIOUS
  <2> HIDE DEF Moved, Goal
  <2> QED
    BY <1>1, <2>1, <2>2
<1>6. ASSUME NEW p \in Forwards, NEW m \in net, Receive(p, m) PROVE Goal
  <2>1. CASE UNCHANGED serving
    BY <1>2, <2>1
  <2>2. ASSUME NEW n, serving' = [serving EXCEPT ![p] = [busy |-> TRUE,
                                    todo |-> FirstOf(m.commands, n), done |-> <<>>]]
        PROVE  Goal
    <3> DEFINE d == [busy |-> TRUE, todo |-> FirstOf(m.commands, n), done |-> <<>>]
    <3>1. serving' = [serving EXCEPT ![p] = d]
      BY <2>2
    <3>2. serving'[p] = d => Moved(p)
      <4>1. m.kind = "push" /\ FirstOf(m.commands, n) \in SUBSET m.commands
        BY <1>6 DEF Receive, FirstOf
      <4> QED
        BY <4>1
    <3> HIDE DEF d, Moved, Goal
    <3> QED
      BY <1>1, <3>1, <3>2
  <2> HIDE DEF Goal
  <2> QED
    BY <1>6, <2>1, <2>2 DEF Receive
<1>7. ASSUME NEW p \in Forwards, Unresolved(p) PROVE Goal
  BY <1>2, <1>7 DEF Unresolved
<1>8. CASE \/ Push \/ Restart \/ UpdateApp \/ UpgradeCompleted \/ Deploy
           \/ \E c \in Commands, v \in Device!Verdicts : Enqueue(c, v)
           \/ \E m \in net, v \in Device!Verdicts : Deliver(m, v)
           \/ \E m \in net : Disturb(m)
           \/ UNCHANGED vars
  <2>1. UNCHANGED serving
    BY <1>8 DEF Push, Restart, UpdateApp, UpgradeCompleted, Deploy, Enqueue, Deliver,
                Disturb, vars
  <2> QED
    BY <1>2, <2>1
<1> HIDE DEF Goal
<1> QED
  BY <1>3, <1>4, <1>5, <1>6, <1>7, <1>8 DEF Next, Serve

\* A repeated message says what the first one said.
LEMMA CopyOfMessage ==
  ASSUME NEW k, Message(k)
  PROVE  /\ Message([k EXCEPT !.copy = TRUE])
         /\ [k EXCEPT !.copy = TRUE].kind = k.kind
         /\ k.kind = "push" => [k EXCEPT !.copy = TRUE].commands = k.commands
         /\ k.kind = "results" => [k EXCEPT !.copy = TRUE].results = k.results
<1> DEFINE e == [k EXCEPT !.copy = TRUE]
<1>0. TRUE \in BOOLEAN
  OBVIOUS
<1>1. CASE k \in [kind : {"push"}, commands : SUBSET Server!Submissions,
                  protocol : Versions, copy : BOOLEAN]
  <2>1. e \in [kind : {"push"}, commands : SUBSET Server!Submissions,
               protocol : Versions, copy : BOOLEAN]
        /\ e.kind = k.kind /\ e.commands = k.commands
    BY <1>0, <1>1
  <2> QED
    BY <1>1, <2>1 DEF Message
<1>2. CASE k \in [kind : {"results"}, results : Seq(Replies), copy : BOOLEAN]
  <2>1. e \in [kind : {"results"}, results : Seq(Replies), copy : BOOLEAN]
        /\ e.kind = k.kind /\ e.results = k.results
    BY <1>0, <1>2
  <2> QED
    BY <1>2, <2>1 DEF Message
<1>3. CASE k \in [kind : {"upgrade"}, copy : BOOLEAN]
  <2>1. e \in [kind : {"upgrade"}, copy : BOOLEAN] /\ e.kind = k.kind
    BY <1>0, <1>3
  <2> QED
    BY <1>3, <2>1 DEF Message
<1> QED
  BY <1>1, <1>2, <1>3 DEF Message

LEMMA PushCommands ==
  ASSUME PInv, NEW m \in net, m.kind = "push"
  PROVE  m.commands \in SUBSET Server!Submissions /\ Carried(m.commands)
BY DEF PInv, TypeOK, PushesAreCarried

\* What is in flight and what is being served stay well-formed.
LEMMA NextFlow ==
  ASSUME PInv, [Next]_vars
  PROVE  FlowOK'
<1>0. FlowOK
  BY FlowOfInv
<1>1. ASSUME NEW m \in net'
      PROVE  Message(m) /\ (m.kind = "push" => CarriedAt(m.commands, at'))
  <2>1. CASE m \in net
    <3>1. Message(m)
      BY <1>0, <2>1 DEF FlowOK
    <3> QED
      BY <2>1, <3>1, PushCommands, CarriedNext
  <2>2. ASSUME NEW k \in net, m = [k EXCEPT !.copy = TRUE]
        PROVE  Message(m) /\ (m.kind = "push" => CarriedAt(m.commands, at'))
    <3>1. Message(k)
      BY <1>0 DEF FlowOK
    <3> QED
      BY <2>2, <3>1, CopyOfMessage, PushCommands, CarriedNext
  <2>3. ASSUME NEW b \in SUBSET stored, m = Pushing(b)
        PROVE  Message(m) /\ (m.kind = "push" => CarriedAt(m.commands, at'))
    <3>1. Message(m) /\ Carried(m.commands)
      BY <2>3, PushingIsCarried
    <3>2. m.commands \in SUBSET Server!Submissions
      BY <2>3, <3>1, PushingIsCarried DEF Message
    <3> QED
      BY <3>1, <3>2, CarriedNext
  <2>4. ASSUME NEW k \in net, k.kind = "push", m = [kind |-> "upgrade", copy |-> k.copy]
        PROVE  Message(m) /\ m.kind = "upgrade"
    <3>1. k.copy \in BOOLEAN
      BY <1>0, <2>4 DEF FlowOK, Message
    <3> QED
      BY <2>4, <3>1 DEF Message
  <2>5. ASSUME NEW p \in Forwards,
               m = [kind |-> "results", results |-> serving[p].done, copy |-> FALSE]
        PROVE  Message(m) /\ m.kind = "results"
    <3>1. serving[p].done \in Seq(Replies)
      BY <1>0 DEF FlowOK, Desk
    <3> QED
      BY <2>5, <3>1 DEF Message
  <2> QED
    BY <2>1, <2>2, <2>3, <2>4, <2>5, NetNext DEF Origin
<1>2. ASSUME NEW p \in Forwards
      PROVE  serving'[p] \in Desk /\ CarriedAt(serving'[p].todo, at')
  <2> DEFINE d == serving[p]
  <2>0. d \in Desk /\ Carried(d.todo) /\ d.todo \in SUBSET Server!Submissions
    BY <1>0 DEF FlowOK, PushesAreCarried, Desk
  <2>1. CASE serving'[p] = d
    BY <2>0, <2>1, CarriedNext
  <2>2. CASE serving'[p] = Free
    <3>1. Free \in Desk /\ Free.todo = {}
      BY DEF Free, Desk
    <3>2. CarriedAt({}, at')
      BY FS_EmptySet DEF Carried, CarriedAt
    <3> QED
      BY <2>2, <3>1, <3>2
  <2>3. ASSUME NEW m \in net, NEW T \in SUBSET m.commands, m.kind = "push",
               serving'[p] = [busy |-> TRUE, todo |-> T, done |-> <<>>]
        PROVE  serving'[p] \in Desk /\ CarriedAt(serving'[p].todo, at')
    <3>1. T \in SUBSET Server!Submissions /\ Carried(T)
      BY <2>3, PushCommands, PartIsCarried
    <3> QED
      BY <2>3, <3>1, CarriedNext DEF Desk
  <2>4. ASSUME NEW T \in SUBSET d.todo, serving'[p] = [d EXCEPT !.todo = T]
        PROVE  serving'[p] \in Desk /\ CarriedAt(serving'[p].todo, at')
    <3>1. T \in SUBSET Server!Submissions /\ Carried(T)
      BY <2>0, PartIsCarried
    <3>2. [d EXCEPT !.todo = T] \in Desk /\ [d EXCEPT !.todo = T].todo = T
      BY <2>0, <3>1 DEF Desk
    <3> QED
      BY <2>4, <3>1, <3>2, CarriedNext
  <2>5. ASSUME NEW r \in Server!Results,
               serving'[p] = [d EXCEPT !.done = Append(d.done, Result(p, r))]
        PROVE  serving'[p] \in Desk /\ CarriedAt(serving'[p].todo, at')
    <3>1. Result(p, r) \in Replies
      BY ResultType
    <3>2. Append(d.done, Result(p, r)) \in Seq(Replies)
      BY <2>0, <3>1 DEF Desk
    <3>3. \A q \in Seq(Replies) : [d EXCEPT !.done = q] \in Desk
                                  /\ [d EXCEPT !.done = q].todo = d.todo
      BY <2>0 DEF Desk
    <3> QED
      BY <2>0, <2>5, <3>2, <3>3, CarriedNext
  <2> QED
    BY <2>1, <2>2, <2>3, <2>4, <2>5, ServingNext DEF Moved
<1>3. serving' \in [Forwards -> Desk]
  BY <1>2, ServingNext
<1> QED
  BY <1>1, <1>2, <1>3 DEF FlowOK, PushesAreCarried, Message, Carried, Desk

-----------------------------------------------------------------------------
LEMMA InitPInv == Init => PInv
<1> SUFFICES ASSUME Init PROVE PInv
  OBVIOUS
<1>1. D!IInv
  <2>1. D!Init
    BY DEF Init, Device!Init, D!Init
  <2> QED
    BY <2>1, Constants, D!InitIInv
<1>2. F!IInv
  <2>1. F!Init
    BY DEF Init, Server!Init, F!Init, Server!Submissions, F!Submissions, Server!Refusal,
           F!Refusal
  <2> QED
    BY <2>1, Constants, F!RefusalType
       DEF F!Init, F!IInv, F!TypeOK, F!OneRow, F!RowsAreHeard, F!OutcomeIsHeard,
           F!AnswersAreRows
<1>3. Device!TypeOK /\ Server!TypeOK
  BY <1>1, <1>2, SameTypes DEF D!IInv, F!IInv
<1>4. Positions
  BY FS_EmptySet DEF Init, Device!Init, Positions
<1>5. Free \in [busy : BOOLEAN, todo : SUBSET Server!Submissions, done : Seq(Replies)]
      /\ Free.todo = {}
  BY DEF Free
<1>6. PushesAreCarried
  BY <1>5, FS_EmptySet DEF Init, PushesAreCarried, Carried, CarriedAt
<1>7. TypeOK
  BY <1>3, <1>5 DEF Init, TypeOK
<1> QED
  BY <1>1, <1>2, <1>4, <1>6, <1>7 DEF PInv

LEMMA NextPInv == PInv /\ [Next]_vars => PInv'
<1> SUFFICES ASSUME PInv, [Next]_vars PROVE PInv'
  OBVIOUS
<1>1. D!IInv' /\ Positions' /\ F!IInv'
  BY DeviceInv, NextServer
<1>2. D!TypeOK' /\ F!TypeOK'
  BY <1>1 DEF D!IInv, F!IInv
<1>3. Device!TypeOK' /\ Server!TypeOK'
  BY <1>2, Constants
     DEF D!TypeOK, Device!TypeOK, F!TypeOK, Server!TypeOK, D!Statuses, Device!Statuses,
         F!Submissions, Server!Submissions, F!Results, Server!Results
<1>4. protocol' \in Protocols
  <2>1. protocol' = protocol \/ protocol' \in Protocols
    BY DEF Next, Push, Enqueue, Restart, UpdateApp, UpgradeCompleted, Deliver, Disturb, Serve,
           Take, Work, Respond, Receive, Unresolved, Abandon, Deploy, vars
  <2> QED
    BY <2>1 DEF PInv, TypeOK
<1>5. FlowOK'
  BY NextFlow
<1>6. TypeOK'
  BY <1>3, <1>4, <1>5 DEF TypeOK, FlowOK, Message, Desk
<1> QED
  BY <1>1, <1>5, <1>6 DEF PInv, FlowOK

\* Every variable of the write path keeps its type, whatever migrations do to payloads:
\* a push carries queued commands, once each, and the server takes up nothing else.
THEOREM PushPathTypeOK == Spec => []TypeOK
<1>1. PInv => TypeOK
  BY DEF PInv
<1> QED
  BY <1>1, InitPInv, NextPInv, PTL DEF Spec

-----------------------------------------------------------------------------
(* The ledger.                                                             *)

\* The hypothesis: an update leaves the payloads of queued commands as they are.  Without
\* it a retry after an update is another command under the same id.
KeepsPayloads ==
  \A c \in Commands : \A v, w \in Versions : Payload[c][v] = Payload[c][w]

\* The body under which a command is known.
Kept(c) == Payload[c][1]

AllKept(S) == \A x \in S : x.body = Kept(x.id)

\* No two bodies go under one id, anywhere on the path.
OneBody ==
  /\ \A m \in net : m.kind = "push" => AllKept(m.commands)
  /\ \A p \in Forwards : AllKept(serving[p].todo)
  /\ \A p \in Forwards : pc[p] # "idle" => command[p].body = Kept(command[p].id)
  /\ AllKept(table) /\ AllKept(answers)

\* A result that says what the dedupe table says.
Recorded(rows, c, s) == \E t \in rows : t.id = c /\ t.result.status = s

AllRecorded(rows, q) == \A i \in 1..Len(q) : Recorded(rows, q[i].id, q[i].status)

\* Whatever is told about a command on the way back is what the table says of it.
ToldIsRecorded ==
  /\ \A m \in net : m.kind = "results" => AllRecorded(table, m.results)
  /\ \A p \in Forwards : AllRecorded(table, serving[p].done)
  /\ \A c \in Commands : outcomes[c] # <<>> => Recorded(table, c, outcomes[c][1])

LInv == PInv /\ OneBody /\ ToldIsRecorded

LEMMA OneBodyNext ==
  ASSUME KeepsPayloads, LInv, [Next]_vars
  PROVE  OneBody'
<1>0. PInv /\ OneBody
  BY DEF LInv
<1>1. ASSUME NEW m \in net', m.kind = "push" PROVE AllKept(m.commands)
  <2>1. CASE m \in net
    BY <1>0, <1>1, <2>1 DEF OneBody
  <2>2. ASSUME NEW k \in net, m = [k EXCEPT !.copy = TRUE] PROVE AllKept(m.commands)
    <3>1. Message(k)
      BY <1>0, FlowOfInv DEF FlowOK
    <3> QED
      BY <1>0, <1>1, <2>2, <3>1, CopyOfMessage DEF OneBody
  <2>3. ASSUME NEW b \in SUBSET stored, m = Pushing(b) PROVE AllKept(m.commands)
    <3>1. \A x \in m.commands : x.id \in b /\ x.body = Body(x.id)
      BY <1>0, <2>3, PushingIsCarried
    <3>2. /\ stored \subseteq Commands /\ app \in Versions
          /\ \A c \in Commands : at[c] > 0 => authored[c] \in Versions
          /\ \A c \in stored : at[c] > 0
      BY <1>0 DEF PInv, TypeOK, Device!TypeOK, Positions, D!IInv, D!KnownToStorage
    <3>3. \A c \in b : Body(c) = Kept(c)
      BY <3>2, Constants DEF Body, Kept, KeepsPayloads
    <3> QED
      BY <3>1, <3>3 DEF AllKept
  <2> QED
    BY <1>0, <1>1, <2>1, <2>2, <2>3, NetNext DEF Origin
<1>2. ASSUME NEW p \in Forwards PROVE AllKept(serving'[p].todo)
  <2> DEFINE d == serving[p]
  <2>0. d \in Desk /\ AllKept(d.todo)
    BY <1>0, FlowOfInv DEF FlowOK, OneBody
  <2>1. CASE serving'[p] = d
    BY <2>0, <2>1
  <2>2. CASE serving'[p] = Free
    BY <2>2 DEF Free, AllKept
  <2>3. ASSUME NEW m \in net, NEW T \in SUBSET m.commands, m.kind = "push",
               serving'[p] = [busy |-> TRUE, todo |-> T, done |-> <<>>]
        PROVE  AllKept(serving'[p].todo)
    BY <1>0, <2>3 DEF OneBody, AllKept
  <2>4. ASSUME NEW T \in SUBSET d.todo, serving'[p] = [d EXCEPT !.todo = T]
        PROVE  AllKept(serving'[p].todo)
    <3>1. [d EXCEPT !.todo = T].todo = T
      BY <2>0 DEF Desk
    <3> QED
      BY <2>0, <2>4, <3>1 DEF AllKept
  <2>5. ASSUME NEW r, serving'[p] = [d EXCEPT !.done = Append(d.done, Result(p, r))]
        PROVE  AllKept(serving'[p].todo)
    <3>1. \A q : [d EXCEPT !.done = q].todo = d.todo
      BY <2>0 DEF Desk
    <3> QED
      BY <2>0, <2>5, <3>1
  <2> QED
    BY <1>0, <2>1, <2>2, <2>3, <2>4, <2>5, ServingNext DEF Moved
<1>3. ASSUME NEW p \in Forwards, pc'[p] # "idle"
      PROVE  command'[p].body = Kept(command'[p].id)
  <2>0. pc \in [Forwards -> {"idle", "classify", "ask", "record", "reread"}]
        /\ command \in [Forwards -> Server!Submissions]
    BY <1>0 DEF PInv, TypeOK, Server!TypeOK
  <2>1. CASE pc[p] # "idle" /\ command'[p] = command[p]
    BY <1>0, <2>1 DEF OneBody
  <2>2. CASE Take(p)
    <3> DEFINE c == CHOOSE c \in serving[p].todo : FirstOf(serving[p].todo, 1) = {c}
    <3>1. serving[p].todo # {} /\ Server!Submit(p, c)
      BY <2>2 DEF Take
    <3>2. c \in serving[p].todo
      BY <1>0, <3>1, TakenIsTodo
    <3> HIDE DEF c
    <3>3. command'[p] = c
      BY <2>0, <3>1 DEF Server!Submit
    <3> QED
      BY <1>0, <3>2, <3>3 DEF OneBody, AllKept
  <2>3. ~Take(p) => pc[p] # "idle" /\ command'[p] = command[p]
    <3>1. CASE UNCHANGED server
      BY <1>3, <3>1 DEF server
    <3>2. ASSUME NEW q \in Forwards, Take(q), ~Take(p)
          PROVE  pc[p] # "idle" /\ command'[p] = command[p]
      <4>1. PICK c : Server!Submit(q, c)
        BY <3>2 DEF Take
      <4>2. q # p
        BY <3>2
      <4> QED
        BY <1>3, <2>0, <4>1, <4>2 DEF Server!Submit, Server!Goto
    <3>3. ASSUME NEW q \in Forwards, Work(q) \/ Unresolved(q) \/ Abandon(q)
          PROVE  pc[p] # "idle" /\ command'[p] = command[p]
      <4>1. \/ Server!Classify(q) \/ Server!Ask(q) \/ Server!Record(q) \/ Server!Reread(q)
            \/ Server!HostFails(q) \/ Server!Drop(q)
        BY <3>3 DEF Work, Unresolved, Abandon
      <4>2. UNCHANGED command /\ \E to : pc' = [pc EXCEPT ![q] = to] /\ pc[q] # "idle"
        BY <4>1 DEF Server!Classify, Server!Ask, Server!Record, Server!Reread,
                    Server!HostFails, Server!Drop, Server!Goto
      <4> QED
        BY <1>3, <2>0, <4>2
    <3>4. ASSUME NEW q \in Forwards, Respond(q) \/ \E m \in net : Receive(q, m)
          PROVE  UNCHANGED server
      BY <3>4 DEF Respond, Receive
    <3>5. CASE \/ Push \/ Restart \/ UpdateApp \/ UpgradeCompleted \/ Deploy
               \/ \E c \in Commands, v \in Device!Verdicts : Enqueue(c, v)
               \/ \E m \in net, v \in Device!Verdicts : Deliver(m, v)
               \/ \E m \in net : Disturb(m)
               \/ UNCHANGED vars
      <4>1. UNCHANGED server
        BY <3>5 DEF Push, Restart, UpdateApp, UpgradeCompleted, Deploy, Enqueue, Deliver,
                    Disturb, vars
      <4> QED
        BY <3>1, <4>1
    <3> QED
      BY <3>1, <3>2, <3>3, <3>4, <3>5 DEF Next, Serve
  <2> QED
    BY <2>1, <2>2, <2>3
<1>4. AllKept(table') /\ AllKept(answers')
  <2>1. CASE UNCHANGED <<table, answers>>
    BY <1>0, <2>1 DEF OneBody
  <2>2. ASSUME NEW p \in Forwards, pc[p] # "idle", NEW r,
               table' \subseteq table \cup {F!Row(command[p], r)},
               answers' \subseteq answers \cup {F!Row(command[p], r)}
        PROVE  AllKept(table') /\ AllKept(answers')
    <3>1. F!Row(command[p], r).body = Kept(F!Row(command[p], r).id)
      BY <1>0, <2>2 DEF OneBody, F!Row
    <3> QED
      BY <1>0, <2>2, <3>1 DEF OneBody, AllKept
  <2>3. CASE F!Next
    <3>1. PICK p \in Forwards :
            \/ \E c \in F!Submissions : F!Submit(p, c)
            \/ F!Classify(p) \/ F!Ask(p) \/ F!HostFails(p) \/ F!Record(p) \/ F!Reread(p)
            \/ F!Drop(p)
      BY <2>3 DEF F!Next
    <3>2. CASE (\E c \in F!Submissions : F!Submit(p, c)) \/ F!Ask(p) \/ F!HostFails(p) \/ F!Drop(p)
      BY <2>1, <3>2 DEF F!Submit, F!Ask, F!HostFails, F!Drop
    <3>3. CASE F!Classify(p)
      <4>1. UNCHANGED table /\ pc[p] # "idle"
        BY <3>3 DEF F!Classify, F!Goto
      <4>2. answers' = answers \/ \E r : answers' = answers \cup {F!Row(command[p], r)}
        BY <3>3 DEF F!Classify, F!Answer
      <4> QED
        BY <2>1, <2>2, <4>1, <4>2
    <3>4. CASE F!Record(p)
      <4>1. pc[p] # "idle"
        BY <3>4 DEF F!Record, F!Goto
      <4>2. \/ UNCHANGED <<table, answers>>
            \/ /\ table' = table \cup {F!Row(command[p], outcome[p])}
               /\ answers' = answers \cup {F!Row(command[p], outcome[p])}
        BY <3>4 DEF F!Record, F!Answer
      <4> QED
        BY <2>1, <2>2, <4>1, <4>2
    <3>5. CASE F!Reread(p)
      <4>1. UNCHANGED table /\ pc[p] # "idle"
        BY <3>5 DEF F!Reread, F!Goto
      <4>2. answers' = answers \/ \E r : answers' = answers \cup {F!Row(command[p], r)}
        BY <3>5 DEF F!Reread, F!Answer
      <4> QED
        BY <2>1, <2>2, <4>1, <4>2
    <3> QED
      BY <3>1, <3>2, <3>3, <3>4, <3>5
  <2> QED
    BY <1>0, <2>1, <2>3, NextServer DEF F!vars
<1> QED
  BY <1>1, <1>2, <1>3, <1>4 DEF OneBody, AllKept, Kept

\* The table changes only by a row for a command that has none.
LEMMA TableNext ==
  ASSUME PInv, [Next]_vars
  PROVE  \/ table' = table
         \/ \E t : /\ t.id \in Commands /\ t.result.status \in Device!Statuses
                   /\ \A u \in table : u.id # t.id
                   /\ table' = table \cup {t}
<1>0. command \in [Forwards -> Server!Submissions] /\ outcome \in [Forwards -> Server!Results]
  BY DEF PInv, TypeOK, Server!TypeOK
<1>1. ASSUME NEW p \in Forwards, F!Record(p), table' # table
      PROVE  \E t : /\ t.id \in Commands /\ t.result.status \in Device!Statuses
                    /\ \A u \in table : u.id # t.id
                    /\ table' = table \cup {t}
  <2> DEFINE t == F!Row(command[p], outcome[p])
  <2>1. F!RowOf(command[p].id) = {} /\ table' = table \cup {t}
    BY <1>1 DEF F!Record
  <2>2. command[p].id \in Commands /\ outcome[p].status \in Device!Statuses
    BY <1>0 DEF Server!Submissions, Server!Results, Device!Statuses
  <2>3. t.id = command[p].id /\ t.result = outcome[p]
    BY DEF F!Row
  <2>4. \A u \in table : u.id # t.id
    BY <2>1, <2>3 DEF F!RowOf
  <2> HIDE DEF t
  <2> QED
    BY <2>1, <2>2, <2>3, <2>4
<1>2. [F!Next]_(F!vars)
  BY NextServer
<1>3. CASE UNCHANGED F!vars
  BY <1>3 DEF F!vars
<1>4. CASE F!Next
  <2>1. \/ \E p \in Forwards : F!Record(p)
        \/ table' = table
    BY <1>4 DEF F!Next, F!Submit, F!Classify, F!Ask, F!HostFails, F!Reread, F!Drop
  <2> QED
    BY <1>1, <2>1
<1> QED
  BY <1>2, <1>3, <1>4

\* A step of the server is none of the device.
LEMMA OneSideMoves ==
  ASSUME [Next]_vars
  PROVE  table' = table \/ outcomes' = outcomes
<1>1. ASSUME NEW p \in Forwards, Serve(p) \/ Unresolved(p) \/ Abandon(p)
      PROVE  outcomes' = outcomes
  BY <1>1 DEF Serve, Take, Work, Respond, Receive, Unresolved, Abandon, device
<1>2. CASE \/ Push \/ Restart \/ UpdateApp \/ UpgradeCompleted \/ Deploy
           \/ \E c \in Commands, v \in Device!Verdicts : Enqueue(c, v)
           \/ \E m \in net, v \in Device!Verdicts : Deliver(m, v)
           \/ \E m \in net : Disturb(m)
           \/ UNCHANGED vars
  BY <1>2 DEF Push, Restart, UpdateApp, UpgradeCompleted, Deploy, Enqueue, Deliver,
              Disturb, vars, server
<1> QED
  BY <1>1, <1>2 DEF Next

\* An outcome is recorded once, and it is what the table says.
LEMMA OutcomesNext ==
  ASSUME LInv, [Next]_vars
  PROVE  /\ outcomes' = [c \in Commands |-> outcomes'[c]]
         /\ \A c \in Commands :
              \/ outcomes'[c] = outcomes[c]
              \/ /\ outcomes[c] = <<>>
                 /\ \E s \in Device!Statuses : /\ outcomes'[c] = <<s>>
                                               /\ Recorded(table, c, s)
<1>0. PInv /\ ToldIsRecorded /\ outcomes \in [Commands -> Seq(Device!Statuses)]
  BY DEF LInv, PInv, TypeOK, Device!TypeOK
<1>1. CASE outcomes' = outcomes
  BY <1>0, <1>1
<1>2. ASSUME NEW m \in net, NEW v \in Device!Verdicts, m.kind = "results",
             Device!ApplyResults(m.results, v), outcomes' # outcomes
      PROVE  /\ outcomes' = [c \in Commands |-> outcomes'[c]]
             /\ \A c \in Commands :
                  \/ outcomes'[c] = outcomes[c]
                  \/ /\ outcomes[c] = <<>>
                     /\ \E s \in Device!Statuses : /\ outcomes'[c] = <<s>>
                                                   /\ Recorded(table, c, s)
  <2> DEFINE ids == Device!Answered(Device!Refreshed, m.results)
  <2>1. PICK verdict \in [ids -> Device!Statuses] :
          /\ \A c \in ids : Device!FirstAnswer(m.results, c, verdict[c])
          /\ Device!Resolve(verdict)
    BY <1>2 DEF Device!ApplyResults
  <2>2. outcomes' = [c \in Commands |-> IF c \in ids THEN Append(outcomes[c], verdict[c])
                                                     ELSE outcomes[c]]
    BY <2>1 DEF Device!Resolve
  <2>3. ids \subseteq stored
    <3>1. Device!Refreshed = stored
      BY <1>0 DEF PInv, D!IInv, D!TypeOK, D!MemoryIsStorage, Device!Refreshed
    <3> QED
      BY <3>1 DEF Device!Answered
  <2>4. \A c \in ids : c \in Commands /\ outcomes[c] = <<>>
    <3>1. stored \subseteq Commands /\ at \in [Commands -> Nat]
      BY <1>0 DEF PInv, TypeOK, Device!TypeOK
    <3> QED
      BY <1>0, <2>3, <3>1 DEF PInv, D!IInv, D!KnownToStorage, D!NothingLost
  <2>5. ASSUME NEW c \in ids PROVE Recorded(table, c, verdict[c])
    <3>1. PICK i \in DOMAIN m.results : m.results[i] = [id |-> c, status |-> verdict[c]]
      BY <2>1 DEF Device!FirstAnswer
    <3>2. m.results \in Seq(Replies)
      BY <1>0, <1>2, FlowOfInv DEF FlowOK, Message
    <3>3. i \in 1..Len(m.results)
      BY <3>1, <3>2
    <3> QED
      BY <1>0, <1>2, <3>1, <3>3 DEF ToldIsRecorded, AllRecorded
  <2> HIDE DEF ids
  <2>6. ASSUME NEW c \in ids PROVE outcomes'[c] = <<verdict[c]>>
    <3>1. outcomes'[c] = Append(<<>>, verdict[c])
      BY <2>2, <2>4
    <3> QED
      BY <3>1
  <2>7. \A c \in Commands \ ids : outcomes'[c] = outcomes[c]
    BY <2>2
  <2>8. \A c \in ids : verdict[c] \in Device!Statuses
    BY <2>1
  <2>9. outcomes' = [c \in Commands |-> outcomes'[c]]
    BY <2>2
  <2> QED
    BY <2>4, <2>5, <2>6, <2>7, <2>8, <2>9
<1>3. ASSUME outcomes' # outcomes
      PROVE  \E m \in net, v \in Device!Verdicts :
               m.kind = "results" /\ Device!ApplyResults(m.results, v)
  <2>1. DeviceMoves
    BY <1>0, NextDevice
  <2>2. ~Elsewhere
    BY <1>3 DEF Elsewhere, device
  <2>3. \A c, v : ~Device!Enqueue(c, v)
    BY <1>3 DEF Device!Enqueue
  <2>4. ~Device!BuildPush /\ ~Device!Refused /\ ~Device!UpgradeCompleted
    BY <1>3 DEF Device!BuildPush, Device!Refused, Device!UpgradeCompleted, Device!durable
  <2>5. ~Device!Restart /\ ~Device!UpdateApp
    BY <1>3 DEF Device!Restart, Device!UpdateApp, Device!Restarted, Device!durable
  <2> QED
    BY <2>1, <2>2, <2>3, <2>4, <2>5 DEF DeviceMoves
<1> QED
  BY <1>1, <1>2, <1>3

LEMMA RecordedGrows ==
  ASSUME NEW R, NEW S, R \subseteq S
  PROVE  /\ \A c, s : Recorded(R, c, s) => Recorded(S, c, s)
         /\ \A q : AllRecorded(R, q) => AllRecorded(S, q)
BY DEF Recorded, AllRecorded

\* One more result in the answer to a push.
LEMMA RecordedAppends ==
  ASSUME NEW R, NEW q \in Seq(Replies), AllRecorded(R, q), NEW x \in Replies,
         Recorded(R, x.id, x.status)
  PROVE  AllRecorded(R, Append(q, x))
<1> SUFFICES ASSUME NEW i \in 1..Len(Append(q, x))
             PROVE  Recorded(R, Append(q, x)[i].id, Append(q, x)[i].status)
  BY DEF AllRecorded
<1>1. Len(Append(q, x)) = Len(q) + 1 /\ Len(q) \in Nat
  OBVIOUS
<1>2. CASE i \in 1..Len(q)
  <2>1. Append(q, x)[i] = q[i]
    BY <1>2
  <2> QED
    BY <1>2, <2>1 DEF AllRecorded
<1>3. CASE i = Len(q) + 1
  <2>1. Append(q, x)[i] = x
    BY <1>3
  <2> QED
    BY <2>1
<1> QED
  BY <1>1, <1>2, <1>3

\* Without a second body, every answer ever given is a row of the table.
LEMMA AnswerIsRow ==
  ASSUME PInv', OneBody', NEW p \in Forwards, NEW r, Server!Answer(p, r)
  PROVE  Recorded(table', command[p].id, r.status)
<1> DEFINE a == F!Row(command[p], r)
<1>1. a \in answers' /\ a.id = command[p].id /\ a.result = r
  BY DEF Server!Answer, Server!Row, F!Row
<1> HIDE DEF a
<1>2. \/ a \in table'
      \/ \E t \in table' : t.id = a.id /\ t.body # a.body
  BY <1>1 DEF PInv, F!IInv, F!AnswersAreRows
<1>3. a \in table'
  BY <1>1, <1>2 DEF OneBody, AllKept, Kept
<1> QED
  BY <1>1, <1>3 DEF Recorded

\* Whatever happens on the way, what is told stays what the table says.
LEMMA ToldNext ==
  ASSUME KeepsPayloads, LInv, [Next]_vars
  PROVE  ToldIsRecorded'
<1>0. PInv /\ ToldIsRecorded /\ FlowOK
  BY FlowOfInv DEF LInv
<1>1. PInv' /\ OneBody'
  BY <1>0, NextPInv, OneBodyNext
<1>2. table \subseteq table'
  BY <1>0, TableNext
<1>3. ASSUME NEW m \in net', m.kind = "results" PROVE AllRecorded(table', m.results)
  <2>1. CASE m \in net
    BY <1>0, <1>2, <1>3, <2>1, RecordedGrows DEF ToldIsRecorded
  <2>2. ASSUME NEW k \in net, m = [k EXCEPT !.copy = TRUE]
        PROVE  AllRecorded(table', m.results)
    <3>1. Message(k)
      BY <1>0 DEF FlowOK
    <3>2. k.kind = "results" /\ m.results = k.results
      BY <1>3, <2>2, <3>1, CopyOfMessage
    <3> QED
      BY <1>0, <1>2, <3>2, RecordedGrows DEF ToldIsRecorded
  <2>3. ASSUME NEW p \in Forwards,
               m = [kind |-> "results", results |-> serving[p].done, copy |-> FALSE]
        PROVE  AllRecorded(table', m.results)
    <3>1. m.results = serving[p].done
      BY <2>3
    <3> QED
      BY <1>0, <1>2, <3>1, RecordedGrows DEF ToldIsRecorded
  <2>4. ASSUME NEW b \in SUBSET stored PROVE m # Pushing(b)
    BY <1>3 DEF Pushing
  <2> QED
    BY <1>0, <1>3, <2>1, <2>2, <2>3, <2>4, NetNext DEF Origin
<1>4. ASSUME NEW p \in Forwards PROVE AllRecorded(table', serving'[p].done)
  <2> DEFINE d == serving[p]
  <2>0. d \in Desk /\ AllRecorded(table', d.done)
    BY <1>0, <1>2, RecordedGrows DEF FlowOK, ToldIsRecorded
  <2>1. CASE serving'[p] = d
    BY <2>0, <2>1
  <2>2. CASE serving'[p].done = <<>>
    BY <2>2 DEF AllRecorded
  <2>3. ASSUME NEW T, serving'[p] = [d EXCEPT !.todo = T]
        PROVE  serving'[p].done = d.done
    BY <2>0, <2>3 DEF Desk
  <2>4. ASSUME NEW r \in Server!Results, Server!Answer(p, r),
               serving'[p] = [d EXCEPT !.done = Append(d.done, Result(p, r))]
        PROVE  AllRecorded(table', serving'[p].done)
    <3>1. Result(p, r) \in Replies
      BY <1>0, ResultType
    <3>2. Recorded(table', command[p].id, r.status)
      BY <1>1, <2>4, AnswerIsRow
    <3>3. Result(p, r).id = command[p].id /\ Result(p, r).status = r.status
      BY DEF Result
    <3>4. \A q : [d EXCEPT !.done = q].done = q
      BY <2>0 DEF Desk
    <3>5. AllRecorded(table', Append(d.done, Result(p, r)))
      <4>1. d.done \in Seq(Replies)
        BY <2>0 DEF Desk
      <4> QED
        BY <2>0, <3>1, <3>2, <3>3, <4>1, RecordedAppends
    <3> QED
      BY <2>4, <3>4, <3>5
  <2>5. serving'[p] = Free => serving'[p].done = <<>>
    BY DEF Free
  <2>6. \A T : serving'[p] = [busy |-> TRUE, todo |-> T, done |-> <<>>]
               => serving'[p].done = <<>>
    OBVIOUS
  <2> QED
    BY <1>0, <2>0, <2>1, <2>2, <2>3, <2>4, <2>5, <2>6, ServingNext DEF Moved
<1>5. ASSUME NEW c \in Commands, outcomes'[c] # <<>>
      PROVE  Recorded(table', c, outcomes'[c][1])
  <2>1. CASE outcomes'[c] = outcomes[c]
    BY <1>0, <1>2, <1>5, <2>1, RecordedGrows DEF ToldIsRecorded
  <2>2. ASSUME NEW s, outcomes'[c] = <<s>>, Recorded(table, c, s)
        PROVE  Recorded(table', c, outcomes'[c][1])
    <3>1. outcomes'[c][1] = s
      BY <2>2
    <3> QED
      BY <1>2, <2>2, <3>1, RecordedGrows
  <2> QED
    BY <2>1, <2>2, OutcomesNext
<1> QED
  BY <1>3, <1>4, <1>5 DEF ToldIsRecorded, AllRecorded, Recorded

LEMMA InitLInv == Init => LInv
<1> SUFFICES ASSUME Init PROVE LInv
  OBVIOUS
<1>1. PInv
  BY InitPInv
<1>2. Free.todo = {} /\ Free.done = <<>>
  BY DEF Free
<1>3. OneBody
  BY <1>2 DEF Init, Server!Init, OneBody, AllKept
<1>4. ToldIsRecorded
  <2>1. \A c \in Commands : outcomes[c] = <<>>
    BY DEF Init, Device!Init
  <2>2. \A p \in Forwards : serving[p].done = <<>>
    BY <1>2 DEF Init
  <2> QED
    BY <2>1, <2>2 DEF Init, ToldIsRecorded, AllRecorded
<1> QED
  BY <1>1, <1>3, <1>4 DEF LInv

LEMMA NextLInv ==
  ASSUME KeepsPayloads
  PROVE  LInv /\ [Next]_vars => LInv'
BY NextPInv, OneBodyNext, ToldNext DEF LInv

-----------------------------------------------------------------------------
(* The refinement.                                                         *)

\* One row per id: the row found is the only one there is.
LEMMA ChosenRow ==
  ASSUME NEW R, \A s, t \in R : s.id = t.id => s = t, NEW t \in R
  PROVE  (CHOOSE u \in R : u.id = t.id) = t
OBVIOUS

\* The author of a command is shown the verdict recorded for it and no other.
LEMMA ShownOfInv == LInv => ShownIsVerdict
<1> SUFFICES ASSUME LInv, NEW c \in Commands, Shown(c) # "none"
             PROVE  Shown(c) = Verdict(c)
  BY DEF ShownIsVerdict
<1>1. outcomes[c] # <<>> /\ Shown(c) = outcomes[c][1]
  BY DEF Shown
<1>2. PICK t \in table : t.id = c /\ t.result.status = outcomes[c][1]
  BY <1>1 DEF LInv, ToldIsRecorded, Recorded
<1>3. (CHOOSE u \in table : u.id = c) = t
  BY <1>2, ChosenRow DEF LInv, PInv, F!IInv, F!OneRow
<1> QED
  BY <1>1, <1>2, <1>3 DEF Verdict

\* What the table says of a command, before and after a step.
LEMMA VerdictNext ==
  ASSUME LInv, [Next]_vars
  PROVE  \/ \A c \in Commands : Verdict(c)' = Verdict(c)
         \/ \E d \in Commands, s \in Device!Statuses :
              /\ Verdict(d) = "none" /\ Verdict(d)' = s
              /\ \A c \in Commands : c # d => Verdict(c)' = Verdict(c)
<1>0. PInv /\ PInv'
  BY NextPInv DEF LInv
<1>1. CASE table' = table
  BY <1>1 DEF Verdict
<1>2. ASSUME NEW t, t.id \in Commands, t.result.status \in Device!Statuses,
             \A u \in table : u.id # t.id, table' = table \cup {t}
      PROVE  \E d \in Commands, s \in Device!Statuses :
               /\ Verdict(d) = "none" /\ Verdict(d)' = s
               /\ \A c \in Commands : c # d => Verdict(c)' = Verdict(c)
  <2>1. Verdict(t.id) = "none"
    BY <1>2 DEF Verdict
  <2>2. Verdict(t.id)' = t.result.status
    <3>1. (CHOOSE u \in table' : u.id = t.id) = t
      BY <1>0, <1>2, ChosenRow DEF PInv, F!IInv, F!OneRow
    <3> QED
      BY <1>2, <3>1 DEF Verdict
  <2>3. ASSUME NEW c \in Commands, c # t.id PROVE Verdict(c)' = Verdict(c)
    <3>1. CASE \E u \in table : u.id = c
      <4>1. PICK u \in table : u.id = c
        BY <3>1
      <4>2. (CHOOSE w \in table : w.id = c) = u
        BY <1>0, <4>1, ChosenRow DEF PInv, F!IInv, F!OneRow
      <4>3. u \in table' /\ (CHOOSE w \in table' : w.id = c) = u
        BY <1>0, <1>2, <4>1, ChosenRow DEF PInv, F!IInv, F!OneRow
      <4> QED
        BY <4>1, <4>2, <4>3 DEF Verdict
    <3>2. CASE ~\E u \in table : u.id = c
      BY <1>2, <2>3, <3>2 DEF Verdict
    <3> QED
      BY <3>1, <3>2
  <2> QED
    BY <1>2, <2>1, <2>2, <2>3
<1> QED
  BY <1>0, <1>1, <1>2, TableNext

\* Every step of the write path is one of the ledger, or none.
LEMMA NextLedger ==
  ASSUME KeepsPayloads
  PROVE  LInv /\ [Next]_vars => [Ledger!Next]_(Ledger!vars)
<1> SUFFICES ASSUME LInv, [Next]_vars PROVE [Ledger!Next]_(Ledger!vars)
  OBVIOUS
<1> DEFINE vd == [c \in Commands |-> Verdict(c)]
           sh == [c \in Commands |-> Shown(c)]
<1>1. CASE outcomes' = outcomes
  <2>1. \A c \in Commands : Shown(c)' = Shown(c)
    BY <1>1 DEF Shown
  <2>2. UNCHANGED sh
    BY <2>1
  <2>3. CASE \A c \in Commands : Verdict(c)' = Verdict(c)
    <3>1. UNCHANGED vd
      BY <2>3
    <3> QED
      BY <2>2, <3>1 DEF Ledger!vars
  <2>4. ASSUME NEW d \in Commands, NEW s \in Device!Statuses,
               Verdict(d) = "none", Verdict(d)' = s,
               \A c \in Commands : c # d => Verdict(c)' = Verdict(c)
        PROVE  Ledger!Next
    <3>1. vd' = [vd EXCEPT ![d] = s] /\ vd[d] = "none"
      BY <2>4
    <3>2. Ledger!Decide(d, s)
      BY <2>2, <3>1 DEF Ledger!Decide
    <3> QED
      BY <3>2 DEF Ledger!Next
  <2> QED
    BY <2>3, <2>4, VerdictNext
<1>2. CASE table' = table
  <2> DEFINE S == {c \in Commands : Shown(c)' # Shown(c)}
  <2>1. \A c \in Commands : Verdict(c)' = Verdict(c)
    BY <1>2 DEF Verdict
  <2>2. UNCHANGED vd
    BY <2>1
  <2>3. ShownIsVerdict'
    <3>1. LInv'
      BY NextLInv
    <3> QED
      BY <3>1, ShownOfInv, PTL
  <2>4. ASSUME NEW c \in S
        PROVE  Shown(c) = "none" /\ Verdict(c) # "none" /\ Shown(c)' = Verdict(c)
    <3>1. PICK s \in Device!Statuses : outcomes[c] = <<>> /\ outcomes'[c] = <<s>>
      BY OutcomesNext DEF Shown
    <3>2. Shown(c) = "none" /\ Shown(c)' = s /\ s # "none"
      <4>1. <<s>> # <<>> /\ <<s>>[1] = s
        OBVIOUS
      <4>2. s # "none"
        BY DEF Device!Statuses
      <4> QED
        BY <3>1, <4>1, <4>2 DEF Shown
    <3>3. Shown(c)' = Verdict(c)'
      BY <2>3, <3>2 DEF ShownIsVerdict
    <3> QED
      BY <2>1, <3>2, <3>3
  <2>5. sh' = [c \in Commands |-> IF c \in S THEN vd[c] ELSE sh[c]]
    <3>1. \A c \in Commands : Shown(c)' = IF c \in S THEN Verdict(c) ELSE Shown(c)
      BY <2>4
    <3> HIDE DEF S
    <3> QED
      BY <3>1
  <2>6. \A c \in S : c \in Commands /\ sh[c] = "none" /\ vd[c] # "none"
    BY <2>4
  <2> HIDE DEF S
  <2>7. Ledger!Show(S) /\ S \in SUBSET Commands
    BY <2>2, <2>5, <2>6 DEF Ledger!Show
  <2> QED
    BY <2>7 DEF Ledger!Next
<1> QED
  BY <1>1, <1>2, OneSideMoves

\* Whatever is lost, repeated or overtaken, and whoever restarts: outbox, network and
\* forwarder together implement the ledger, for any number of commands, forwards, faults and
\* versions, so long as an update leaves the bodies of queued commands alone.
THEOREM PushPathImplementsLedger ==
  ASSUME KeepsPayloads
  PROVE  Spec => ImplementsLedger
<1>1. Init => Ledger!Init
  BY DEF Init, Server!Init, Device!Init, Ledger!Init, Verdict, Shown
<1>2. LInv /\ [Next]_vars => LInv'
  BY NextLInv
<1>3. LInv /\ [Next]_vars => [Ledger!Next]_(Ledger!vars)
  BY NextLedger
<1> QED
  BY <1>1, <1>2, <1>3, InitLInv, PTL DEF Spec, ImplementsLedger, Ledger!Spec

\* What a device shows for a command is the verdict the server recorded, in every state.
THEOREM PushPathShownIsVerdict ==
  ASSUME KeepsPayloads
  PROVE  Spec => []ShownIsVerdict
<1>1. LInv /\ [Next]_vars => LInv'
  BY NextLInv
<1> QED
  BY <1>1, InitLInv, ShownOfInv, PTL DEF Spec
=============================================================================
