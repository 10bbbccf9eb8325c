---------------------------- MODULE OutboxProofs ----------------------------
(***************************************************************************)
(* Type correctness, no loss, one outcome, memory coherence and recovered  *)
(* drafts of Outbox, for every set of commands, registry, chain of         *)
(* migrations and number of faults.                                        *)
(***************************************************************************)
EXTENDS Outbox, TLAPS

\* Only a command whose enqueue committed is queued, acknowledged or resolved.
KnownToStorage ==
  \A c \in Commands :
    at[c] = 0 => c \notin stored /\ c \notin acked /\ outcomes[c] = <<>>

\* The inductive invariant: the three properties and what ties the host's view
\* to storage's.
IInv ==
  /\ TypeOK
  /\ MemoryIsStorage
  /\ KnownToStorage
  /\ NothingLost
  /\ OneOutcome

\* Where memory is trusted it is the stored queue, and where it is not the
\* reload makes it so: every handler that reloads works from storage's queue.
LEMMA RefreshedIsStored ==
  ASSUME TypeOK, MemoryIsStorage
  PROVE  Refreshed = stored
BY DEF TypeOK, MemoryIsStorage, Refreshed

\* The first outcome appended to an empty record.
LEMMA FirstOutcome ==
  ASSUME NEW s \in Statuses
  PROVE  /\ Append(<<>>, s) = <<s>>
         /\ <<s>> \in Seq(Statuses) /\ Len(<<s>>) = 1 /\ <<s>> # <<>>
OBVIOUS

\* The empty database and a new engine satisfy the invariant.
LEMMA InitIInv == Init => IInv
<1> SUFFICES ASSUME Init PROVE IInv
  OBVIOUS
<1>1. TypeOK
  <2>1. app \in Versions /\ faults \in 0..MaxFaults
    BY OutboxAssumption DEF Init
  <2>2. authored \in [Commands -> Versions \cup {0}]
    BY DEF Init
  <2>3. outcomes \in [Commands -> Seq(Statuses)]
    BY DEF Init
  <2>4. at \in [Commands -> Nat] /\ nextAt \in Nat \ {0} /\ recovered \in [Commands -> Nat]
    BY DEF Init
  <2> QED
    BY <2>1, <2>2, <2>3, <2>4 DEF Init, TypeOK
<1>2. MemoryIsStorage /\ KnownToStorage /\ NothingLost /\ OneOutcome
  BY DEF Init, MemoryIsStorage, KnownToStorage, NothingLost, OneOutcome
<1> QED
  BY <1>1, <1>2 DEF IInv

\* Engine::enqueue keeps the invariant under every storage verdict.
LEMMA EnqueueIInv ==
  ASSUME IInv, NEW c \in Commands, NEW v \in Verdicts, Enqueue(c, v)
  PROVE  IInv'
<1> USE DEF IInv
<1>1. TypeOK'
  <2>1. faults' \in 0..MaxFaults
    BY OutboxAssumption DEF Enqueue, Charge, TypeOK
  <2>2. stored' \in SUBSET Commands
    BY DEF Enqueue, TypeOK
  <2>5. at' \in [Commands -> Nat]
    BY DEF Enqueue, TypeOK
  <2>6. nextAt' \in Nat \ {0}
    BY DEF Enqueue, TypeOK
  <2>4. authored' \in [Commands -> Versions \cup {0}]
    BY DEF Enqueue, TypeOK, AuthoredUnder
  <2>3. /\ outbox' \in SUBSET Commands /\ acked' \in SUBSET Commands
        /\ outboxSuspect' \in BOOLEAN
    BY DEF Enqueue, TypeOK
  <2> QED
    BY <2>1, <2>2, <2>3, <2>4, <2>5, <2>6 DEF Enqueue, TypeOK
<1>2. CASE Landed(v)
  <2>1. MemoryIsStorage'
    BY <1>2 DEF Enqueue, TypeOK, MemoryIsStorage
  <2>2. KnownToStorage'
    BY <1>2 DEF Enqueue, TypeOK, KnownToStorage
  <2>3. NothingLost'
    BY <1>2 DEF Enqueue, TypeOK, KnownToStorage, NothingLost
  <2>4. OneOutcome'
    BY DEF Enqueue, OneOutcome
  <2> QED
    BY <1>1, <2>1, <2>2, <2>3, <2>4
<1>3. CASE ~Landed(v)
  BY <1>1, <1>3 DEF Enqueue, ToldOk, Landed, TypeOK, MemoryIsStorage, KnownToStorage,
                    NothingLost, OneOutcome
<1> QED
  BY <1>2, <1>3


\* Engine::build_push only reloads; what it builds touches no queue.
LEMMA BuildPushIInv ==
  ASSUME IInv, BuildPush
  PROVE  IInv'
<1> USE DEF IInv
<1>1. outbox' = stored /\ outboxSuspect' = FALSE /\ UNCHANGED durable
  BY RefreshedIsStored DEF BuildPush
<1>2. request' \in SUBSET Commands /\ sent' \in SUBSET Commands
  BY RefreshedIsStored DEF BuildPush, Batches, TypeOK
<1> QED
  BY <1>1, <1>2 DEF BuildPush, durable, TypeOK, MemoryIsStorage, KnownToStorage,
                    NothingLost, OneOutcome

\* Resolving queued commands appends the first and only outcome of each.
LEMMA ResolveIInv ==
  ASSUME IInv, NEW ids \in SUBSET stored, NEW verdict \in [ids -> Statuses],
         Resolve(verdict), UNCHANGED <<at, acked>>
  PROVE  /\ stored' \in SUBSET Commands
         /\ outcomes' \in [Commands -> Seq(Statuses)]
         /\ recovered' \in [Commands -> Nat]
         /\ stored' = stored \ ids
         /\ KnownToStorage' /\ NothingLost' /\ OneOutcome'
<1> USE DEF IInv
<1>1. stored' = stored \ ids
  BY DEF Resolve
<1>2. \A c \in ids : c \in Commands /\ at[c] > 0 /\ outcomes[c] = <<>>
  BY DEF TypeOK, KnownToStorage, NothingLost
<1>3. \A c \in ids : /\ outcomes'[c] \in Seq(Statuses)
                     /\ Len(outcomes'[c]) = 1
                     /\ outcomes'[c] # <<>>
  <2>1. \A c \in ids : verdict[c] \in Statuses /\ outcomes'[c] = Append(<<>>, verdict[c])
    BY <1>2 DEF Resolve
  <2> QED
    BY <2>1, FirstOutcome
<1>4. \A c \in Commands \ ids : outcomes'[c] = outcomes[c]
  BY DEF Resolve
<1>5. outcomes' \in [Commands -> Seq(Statuses)]
  <2>1. outcomes' = [c \in Commands |-> outcomes'[c]]
    BY DEF Resolve
  <2>2. \A c \in Commands : outcomes[c] \in Seq(Statuses)
    BY DEF TypeOK
  <2>3. \A c \in Commands : outcomes'[c] \in Seq(Statuses)
    BY <1>3, <1>4, <2>2
  <2> QED
    BY <2>1, <2>3
<1>6. recovered' \in [Commands -> Nat]
  BY DEF Resolve, TypeOK
<1>7. KnownToStorage'
  BY <1>1, <1>2, <1>4 DEF KnownToStorage
<1>8. NothingLost'
  BY <1>1, <1>2, <1>3, <1>4 DEF NothingLost
<1>9. OneOutcome'
  <2> SUFFICES ASSUME NEW c \in Commands PROVE Len(outcomes'[c]) <= 1
    BY DEF OneOutcome
  <2>1. CASE c \in ids
    <3>1. Len(outcomes'[c]) = 1
      BY <1>3, <2>1
    <3> QED
      BY <3>1
  <2>2. CASE c \notin ids
    BY <1>4, <2>2 DEF OneOutcome
  <2> QED
    BY <2>1, <2>2
<1> QED
  BY <1>1, <1>5, <1>6, <1>7, <1>8, <1>9 DEF TypeOK


\* Engine::apply_results keeps the invariant whatever the response says and
\* however its transaction ends.
LEMMA ApplyResultsIInv ==
  ASSUME IInv, NEW r, NEW v \in Verdicts, ApplyResults(r, v)
  PROVE  IInv'
<1> USE DEF IInv
<1> DEFINE ids == Answered(Refreshed, r)
<1>1. Refreshed = stored /\ ids \in SUBSET stored
  BY RefreshedIsStored DEF Answered
<1>2. UNCHANGED <<upgradeRequired, app, at, nextAt, authored, acked, request, sent>>
  BY DEF ApplyResults
<1>3. CASE /\ ids = {} /\ outbox' = Refreshed /\ outboxSuspect' = FALSE
           /\ UNCHANGED <<stored, outcomes, recovered, faults>>
  BY <1>1, <1>2, <1>3 DEF TypeOK, MemoryIsStorage, KnownToStorage, NothingLost, OneOutcome
<1>4. CASE /\ Charge(v)
           /\ \E verdict \in [ids -> Statuses] :
                IF Landed(v) THEN Resolve(verdict)
                             ELSE UNCHANGED <<stored, outcomes, recovered>>
           /\ IF ToldOk(v) THEN outbox' = Refreshed \ ids /\ outboxSuspect' = FALSE
                           ELSE outbox' = Refreshed /\ outboxSuspect' = TRUE
  <2>1. faults' \in 0..MaxFaults
    BY <1>4, OutboxAssumption DEF Charge, TypeOK
  <2>2. outbox' \in SUBSET Commands /\ outboxSuspect' \in BOOLEAN
    BY <1>1, <1>4 DEF TypeOK
  <2>3. CASE Landed(v)
    <3>1. PICK verdict \in [ids -> Statuses] : Resolve(verdict)
      BY <1>4, <2>3
    <3>2. /\ stored' \in SUBSET Commands
          /\ outcomes' \in [Commands -> Seq(Statuses)]
          /\ recovered' \in [Commands -> Nat]
          /\ stored' = stored \ ids
          /\ KnownToStorage' /\ NothingLost' /\ OneOutcome'
      BY <1>1, <1>2, <3>1, ResolveIInv
    <3>3. TypeOK'
      BY <1>2, <2>1, <2>2, <3>2 DEF TypeOK
    <3>4. MemoryIsStorage'
      BY <1>1, <1>4, <3>2 DEF MemoryIsStorage
    <3> QED
      BY <3>2, <3>3, <3>4
  <2>4. CASE ~Landed(v)
    <3>1. outboxSuspect' = TRUE /\ UNCHANGED <<stored, outcomes, recovered>>
      BY <1>4, <2>4 DEF Landed, ToldOk
    <3> QED
      BY <1>2, <2>1, <2>2, <3>1 DEF TypeOK, MemoryIsStorage, KnownToStorage,
                                    NothingLost, OneOutcome
  <2> QED
    BY <2>3, <2>4
<1> QED
  BY <1>3, <1>4 DEF ApplyResults

\* Restarts and app updates read the queue back from storage.
LEMMA RestartedIInv ==
  ASSUME IInv, Restarted, app' \in Versions, faults' \in 0..MaxFaults
  PROVE  IInv'
BY DEF IInv, Restarted, durable, TypeOK, MemoryIsStorage, KnownToStorage, NothingLost,
       OneOutcome

\* Every step of the engine, its storage and its host keeps the invariant.
LEMMA NextIInv == IInv /\ [Next]_vars => IInv'
<1> SUFFICES ASSUME IInv, [Next]_vars PROVE IInv'
  OBVIOUS
<1>1. CASE \E c \in Commands, v \in Verdicts : Enqueue(c, v)
  BY <1>1, EnqueueIInv
<1>2. CASE BuildPush
  BY <1>2, BuildPushIInv
<1>3. CASE \E r \in Responses, v \in Verdicts : ApplyResults(r, v)
  BY <1>3, ApplyResultsIInv
<1>4. CASE ScopeTransactFails
  BY <1>4, OutboxAssumption
  DEF ScopeTransactFails, durable, IInv, TypeOK, MemoryIsStorage, KnownToStorage,
      NothingLost, OneOutcome
<1>5. CASE ReloadScope
  <2>1. outbox' = stored
    BY <1>5, RefreshedIsStored DEF ReloadScope, IInv
  <2> QED
    BY <1>5, <2>1 DEF ReloadScope, durable, IInv, TypeOK, MemoryIsStorage, KnownToStorage,
                      NothingLost, OneOutcome
<1>6. CASE OnUpgradeRequired
  BY <1>6, OutboxAssumption
  DEF OnUpgradeRequired, Refused, durable, IInv, TypeOK, MemoryIsStorage, KnownToStorage,
      NothingLost, OneOutcome
<1>7. CASE UpgradeCompleted
  BY <1>7 DEF UpgradeCompleted, durable, IInv, TypeOK, MemoryIsStorage, KnownToStorage,
              NothingLost, OneOutcome
<1>8. CASE Restart
  <2>1. faults' \in 0..MaxFaults /\ app' \in Versions
    BY <1>8, OutboxAssumption DEF Restart, IInv, TypeOK
  <2> QED
    BY <1>8, <2>1, RestartedIInv DEF Restart
<1>9. CASE UpdateApp
  <2>1. faults' \in 0..MaxFaults /\ app' \in Versions
    BY <1>9 DEF UpdateApp, IInv, TypeOK
  <2> QED
    BY <1>9, <2>1, RestartedIInv DEF UpdateApp
<1>10. CASE UNCHANGED vars
  BY <1>10 DEF vars, IInv, TypeOK, MemoryIsStorage, KnownToStorage, NothingLost, OneOutcome
<1> QED
  BY <1>1, <1>2, <1>3, <1>4, <1>5, <1>6, <1>7, <1>8, <1>9, <1>10 DEF Next

\* The inductive invariant holds in every reachable state.
THEOREM OutboxInvariant == Spec => []IInv
BY InitIInv, NextIInv, PTL DEF Spec

\* Type correctness.
THEOREM OutboxTypeOK == Spec => []TypeOK
<1>1. IInv => TypeOK
  BY DEF IInv
<1> QED
  BY <1>1, OutboxInvariant, PTL

\* The queue in memory is the stored one unless it is marked suspect, for any
\* number of failed, half-reported and successful transactions.
THEOREM OutboxMemoryIsStorage == Spec => []MemoryIsStorage
<1>1. IInv => MemoryIsStorage
  BY DEF IInv
<1> QED
  BY <1>1, OutboxInvariant, PTL

\* No acknowledged or committed command is ever lost.
THEOREM OutboxNothingLost == Spec => []NothingLost
<1>1. IInv => NothingLost
  BY DEF IInv
<1> QED
  BY <1>1, OutboxInvariant, PTL

\* No command ever has two recorded outcomes.
THEOREM OutboxOneOutcome == Spec => []OneOutcome
<1>1. IInv => OneOutcome
  BY DEF IInv
<1> QED
  BY <1>1, OutboxInvariant, PTL

\* A push carries only commands still pending in storage.
THEOREM OutboxPushesOnlyPending == Spec => PushesOnlyPending
<1>1. IInv /\ [Next]_vars => [request' # request => request' \subseteq stored]_vars
  <2> SUFFICES ASSUME IInv, [Next]_vars, request' # request
               PROVE  request' \subseteq stored
    OBVIOUS
  <2>1. BuildPush
    BY DEF Next, vars, Enqueue, ApplyResults, ScopeTransactFails, ReloadScope,
           OnUpgradeRequired, Refused, UpgradeCompleted, Restart, UpdateApp, Restarted
  <2>2. Refreshed = stored
    BY RefreshedIsStored DEF IInv
  <2> QED
    BY <2>1, <2>2 DEF BuildPush, Batches
<1> QED
  BY <1>1, OutboxInvariant, PTL DEF Spec, PushesOnlyPending

\* A push overtakes nothing but commands whose payload cannot be migrated.
THEOREM OutboxOnlyHeldIsOvertaken == Spec => OnlyHeldIsOvertaken
<1> DEFINE Overtakes ==
      \A d \in request', c \in stored : at[c] < at[d] => c \in request' \/ ~Migrates(c)
<1>1. IInv /\ [Next]_vars => [request' # request => Overtakes]_vars
  <2> SUFFICES ASSUME IInv, [Next]_vars, request' # request
               PROVE  Overtakes
    OBVIOUS
  <2>1. BuildPush
    BY DEF Next, vars, Enqueue, ApplyResults, ScopeTransactFails, ReloadScope,
           OnUpgradeRequired, Refused, UpgradeCompleted, Restart, UpdateApp, Restarted
  <2>2. request' \in Batches(stored)
    <3>1. Refreshed = stored
      BY RefreshedIsStored DEF IInv
    <3> QED
      BY <2>1, <3>1 DEF BuildPush
  <2> QED
    BY <2>2 DEF Batches
<1> QED
  BY <1>1, OutboxInvariant, PTL DEF Spec, OnlyHeldIsOvertaken

-----------------------------------------------------------------------------
(* Recovered drafts.                                                       *)

\* Updates keep the drafts of the registry drafts.  Without it a draft written under one
\* version is judged by the class another version gives it.
KeepsDrafts ==
  \A v, w \in Versions : \A c \in Commands :
    Class[v][c] = "OwnerDraft" <=> Class[w][c] = "OwnerDraft"

\* What reached storage was written under some version of the app.
HasVersion == \A c \in Commands : at[c] # 0 => authored[c] \in Versions

DraftInv == SupersededDraftIsRecovered /\ HasVersion

\* A command that is resolved: its first outcome decides whether a draft is kept.
LEMMA ResolveDrafts ==
  ASSUME IInv, DraftInv, KeepsDrafts, NEW ids \in SUBSET stored,
         NEW verdict \in [ids -> Statuses], Resolve(verdict), UNCHANGED authored
  PROVE  SupersededDraftIsRecovered'
<1> SUFFICES ASSUME NEW c \in Commands
             PROVE  recovered'[c] = IF /\ outcomes'[c] = <<"Superseded">>
                                       /\ Class[authored[c]][c] = "OwnerDraft"
                                      THEN 1 ELSE 0
  BY DEF SupersededDraftIsRecovered
<1>0. recovered[c] = IF /\ outcomes[c] = <<"Superseded">>
                        /\ Class[authored[c]][c] = "OwnerDraft"
                       THEN 1 ELSE 0
  BY DEF DraftInv, SupersededDraftIsRecovered
<1>1. CASE c \in ids
  <2>1. outcomes[c] = <<>> /\ at[c] # 0 /\ authored[c] \in Versions /\ app \in Versions
    BY <1>1 DEF IInv, TypeOK, KnownToStorage, NothingLost, DraftInv, HasVersion
  <2>2. verdict[c] \in Statuses
    BY <1>1
  <2>3. outcomes'[c] = <<verdict[c]>>
    <3>1. outcomes'[c] = Append(<<>>, verdict[c])
      BY <1>1, <2>1 DEF Resolve
    <3> QED
      BY <2>2, <3>1, FirstOutcome
  <2>4. outcomes'[c] = <<"Superseded">> <=> verdict[c] = "Superseded"
    BY <2>3
  <2>5. recovered[c] = 0
    BY <1>0, <2>1
  <2>6. Class[app][c] = "OwnerDraft" <=> Class[authored[c]][c] = "OwnerDraft"
    BY <2>1 DEF KeepsDrafts
  <2>7. recovered'[c] = IF Recovers(c, verdict[c]) THEN recovered[c] + 1 ELSE recovered[c]
    BY <1>1 DEF Resolve
  <2> QED
    BY <2>4, <2>5, <2>6, <2>7 DEF Recovers
<1>2. CASE c \notin ids
  BY <1>0, <1>2 DEF Resolve
<1> QED
  BY <1>1, <1>2

LEMMA NextDrafts == KeepsDrafts /\ IInv /\ DraftInv /\ [Next]_vars => DraftInv'
<1> SUFFICES ASSUME KeepsDrafts, IInv, DraftInv, [Next]_vars PROVE DraftInv'
  OBVIOUS
<1>1. CASE \E c \in Commands, v \in Verdicts : Enqueue(c, v)
  <2>1. PICK c \in Commands, v \in Verdicts : Enqueue(c, v)
    BY <1>1
  <2>2. outcomes[c] = <<>> /\ at[c] = 0 /\ app \in Versions
    BY <2>1 DEF Enqueue, IInv, TypeOK, KnownToStorage
  <2>3. /\ UNCHANGED <<outcomes, recovered>>
        /\ \A d \in Commands : d # c => authored'[d] = authored[d] /\ at'[d] = at[d]
        /\ authored'[c] = app \/ (authored'[c] = authored[c] /\ at'[c] = at[c])
    BY <2>1 DEF Enqueue, AuthoredUnder, IInv, TypeOK
  <2>4. SupersededDraftIsRecovered'
    <3> SUFFICES ASSUME NEW d \in Commands
                 PROVE  recovered[d] = IF /\ outcomes[d] = <<"Superseded">>
                                          /\ Class[authored'[d]][d] = "OwnerDraft"
                                         THEN 1 ELSE 0
      BY <2>3 DEF SupersededDraftIsRecovered
    <3>1. CASE d = c
      <4>1. outcomes[d] = <<>>
        BY <2>2, <3>1
      <4>2. <<>> # <<"Superseded">>
        OBVIOUS
      <4>3. outcomes[d] # <<"Superseded">>
        BY <4>1, <4>2
      <4> QED
        BY <4>3 DEF DraftInv, SupersededDraftIsRecovered
    <3>2. CASE d # c
      BY <2>3, <3>2 DEF DraftInv, SupersededDraftIsRecovered
    <3> QED
      BY <3>1, <3>2
  <2>5. HasVersion'
    BY <2>2, <2>3 DEF DraftInv, HasVersion
  <2> QED
    BY <2>4, <2>5 DEF DraftInv
<1>2. CASE \E r \in Responses, v \in Verdicts : ApplyResults(r, v)
  <2>1. PICK r \in Responses, v \in Verdicts : ApplyResults(r, v)
    BY <1>2
  <2> DEFINE ids == Answered(Refreshed, r)
  <2>2. ids \in SUBSET stored
    BY RefreshedIsStored DEF Answered, IInv
  <2>3. UNCHANGED <<at, authored>>
    BY <2>1 DEF ApplyResults
  <2>4. \/ UNCHANGED <<outcomes, recovered>>
        \/ \E verdict \in [ids -> Statuses] : Resolve(verdict)
    BY <2>1 DEF ApplyResults
  <2>5. SupersededDraftIsRecovered'
    BY <2>2, <2>3, <2>4, ResolveDrafts DEF DraftInv, SupersededDraftIsRecovered
  <2> QED
    BY <2>3, <2>5 DEF DraftInv, HasVersion
<1>3. CASE \/ BuildPush \/ ScopeTransactFails \/ ReloadScope \/ OnUpgradeRequired
           \/ UpgradeCompleted \/ Restart \/ UpdateApp \/ UNCHANGED vars
  <2>1. UNCHANGED <<at, authored, outcomes, recovered>>
    BY <1>3 DEF BuildPush, ScopeTransactFails, ReloadScope, OnUpgradeRequired, Refused,
                UpgradeCompleted, Restart, UpdateApp, Restarted, durable, vars
  <2> QED
    BY <2>1 DEF DraftInv, SupersededDraftIsRecovered, HasVersion
<1> QED
  BY <1>1, <1>2, <1>3 DEF Next

\* A superseded owner draft leaves exactly one recovered draft, and nothing else does,
\* through replayed answers, lost acknowledgements, restarts and app updates that keep
\* drafts drafts.
THEOREM OutboxSupersededDraftIsRecovered ==
  ASSUME KeepsDrafts
  PROVE  Spec => []SupersededDraftIsRecovered
<1>1. Init => DraftInv
  BY DEF Init, DraftInv, SupersededDraftIsRecovered, HasVersion
<1>2. IInv /\ DraftInv /\ [Next]_vars => DraftInv'
  BY NextDrafts
<1>3. DraftInv => SupersededDraftIsRecovered
  BY DEF DraftInv
<1> QED
  BY <1>1, <1>2, <1>3, OutboxInvariant, PTL DEF Spec

=============================================================================
