------------------------------- MODULE Outbox -------------------------------
(***************************************************************************)
(* The write half of the credSync client engine: the outbox.               *)
(*                                                                         *)
(* A host queues commands (enqueue), the sync loop sends them              *)
(* (build_push), and the server's verdicts resolve them (apply_results).   *)
(* The engine keeps a copy of the queue in memory; storage keeps the       *)
(* durable one.  A storage transaction may commit, fail, or commit and     *)
(* report a failure, and the engine cannot tell the last two apart: it     *)
(* marks the queue suspect and re-reads it before it is next used.         *)
(*                                                                         *)
(* A queue whose only operations are "append" and "remove by id" is a set  *)
(* ordered by append position, and that is how both copies are modelled:   *)
(* at[c] is the position at which c's enqueue committed (0: never).        *)
(*                                                                         *)
(* Abstracted: payload bytes and the compressed budget (a push carries any *)
(* non-empty prefix that respects the count limit), reasons, telemetry.    *)
(***************************************************************************)
EXTENDS Naturals, Sequences, FiniteSets, Storage

CONSTANTS
  Commands,     \* command ids the host may mint
  Versions,     \* app schema versions, 1..n; an update moves to the next one
  Class,        \* Class[v][c]: class of c's target entity in version v's registry
  Steps,        \* Steps[c]: versions v with a registered migration v -> v+1 that
                \* succeeds on c's payload
  MaxBatch,     \* COMMANDS_MAX_COUNT
  MaxResults,   \* bound: results in one push response
  MaxFaults     \* bound: storage failures, restarts and refusals in a behaviour

Classes  == {"OwnerDraft", "AppendOnly", "ServerAuthoritative", "Unregistered"}
Statuses == {"Applied", "Superseded", "Rejected"}

ASSUME OutboxAssumption ==
  /\ Versions \subseteq Nat \ {0}
  /\ 1 \in Versions
  /\ Class \in [Versions -> [Commands -> Classes]]
  /\ Steps \in [Commands -> SUBSET Nat]
  /\ MaxBatch \in Nat \ {0}
  /\ MaxResults \in Nat
  /\ MaxFaults \in Nat

VARIABLES
  outbox,           \* memory: the engine's queue
  outboxSuspect,    \* memory: the queue may no longer match storage
  upgradeRequired,  \* memory: the server refused this protocol version
  app,              \* the installed app's schema version
  stored,           \* durable: the queue
  at,               \* durable: position of each queued command
  nextAt,           \* durable: the position the next one gets
  authored,         \* durable: schema version each command was written under
  outcomes,         \* durable: the resolutions recorded for each command
  recovered,        \* durable: how many recovered drafts each command left
  acked,            \* commands whose enqueue returned Ok to the host
  request,          \* the commands of the last push built
  sent,             \* every command some push has carried
  faults            \* faults so far

memory  == <<outbox, outboxSuspect, upgradeRequired>>
durable == <<stored, at, nextAt, authored, outcomes, recovered>>
vars    == <<outbox, outboxSuspect, upgradeRequired, app, stored, at, nextAt,
             authored, outcomes, recovered, acked, request, sent, faults>>

-----------------------------------------------------------------------------
\* A verdict other than Commit uses up one fault.
Charge(v) ==
  \/ v = "Commit" /\ UNCHANGED faults
  \/ v # "Commit" /\ faults < MaxFaults /\ faults' = faults + 1

-----------------------------------------------------------------------------
(* The registry and the migration chain.                                   *)

\* check_command: the command is registered for an entity that accepts commands.
Admits(c) == Class[app][c] \in {"OwnerDraft", "AppendOnly"}

\* migrate_value: every step of the chain is registered and succeeds.
Chain(c, from, to) == from <= to /\ from .. (to - 1) \subseteq Steps[c]

\* migrated_command: c can be sent under the installed app's schema.  A command
\* the registry no longer knows has no target version and goes as it is.
Migrates(c) ==
  \/ Class[app][c] = "Unregistered"
  \/ Chain(c, authored[c], app)

-----------------------------------------------------------------------------
Init ==
  /\ outbox = {} /\ outboxSuspect = FALSE /\ upgradeRequired = FALSE
  /\ app = 1
  /\ stored = {}
  /\ at = [c \in Commands |-> 0]
  /\ nextAt = 1
  /\ authored = [c \in Commands |-> 0]
  /\ outcomes = [c \in Commands |-> <<>>]
  /\ recovered = [c \in Commands |-> 0]
  /\ acked = {} /\ request = {} /\ sent = {}
  /\ faults = 0

RefreshedNever == outbox

\* refresh_outbox_if_suspect: the queue the engine goes on with.
Refreshed == IF outboxSuspect THEN stored ELSE outbox

AuthoredUnderNext == app + 1

\* The schema version OutboxEntry records: the one the app had at authoring.
AuthoredUnder == app

EnqueueMemoryFirst(c, v) ==
  /\ at[c] = 0
  /\ Admits(c)
  /\ Charge(v)
  /\ IF Landed(v)
       THEN /\ stored' = stored \cup {c}
            /\ at' = [at EXCEPT ![c] = nextAt]
            /\ nextAt' = nextAt + 1
            /\ authored' = [authored EXCEPT ![c] = AuthoredUnder]
       ELSE UNCHANGED <<stored, at, nextAt, authored>>
  /\ outbox' = outbox \cup {c}
  /\ acked' = acked \cup {c}
  /\ UNCHANGED <<outboxSuspect, upgradeRequired, app, outcomes, recovered, request, sent>>

\* Engine::enqueue.  The id is fresh: the host mints one per command.
Enqueue(c, v) ==
  /\ at[c] = 0
  /\ Admits(c)
  /\ Charge(v)
  /\ IF Landed(v)
       THEN /\ stored' = stored \cup {c}
            /\ at' = [at EXCEPT ![c] = nextAt]
            /\ nextAt' = nextAt + 1
            /\ authored' = [authored EXCEPT ![c] = AuthoredUnder]
       ELSE UNCHANGED <<stored, at, nextAt, authored>>
  /\ IF ToldOk(v)
       THEN /\ outbox' = outbox \cup {c}
            /\ acked' = acked \cup {c}
            /\ UNCHANGED outboxSuspect
       ELSE /\ outboxSuspect' = TRUE
            /\ UNCHANGED <<outbox, acked>>
  /\ UNCHANGED <<upgradeRequired, app, outcomes, recovered, request, sent>>

BatchesSkipUnfit(queue) ==
  LET sendable == {c \in queue : Migrates(c)}
  IN  {b \in SUBSET sendable : Cardinality(b) <= MaxBatch /\ (b = {} => sendable = {})}

\* The prefixes build_push may choose from queue: held commands are skipped,
\* the rest go in order, and one always goes if there is one.
Batches(queue) ==
  LET sendable == {c \in queue : Migrates(c)}
  IN  {b \in SUBSET sendable :
         /\ \A c \in b, d \in sendable : at[d] < at[c] => d \in b
         /\ Cardinality(b) <= MaxBatch
         /\ b = {} => sendable = {}}

BuildPushEmptyCheckFirst ==
  /\ ~upgradeRequired
  /\ outbox # {}
  /\ outbox' = Refreshed
  /\ outboxSuspect' = FALSE
  /\ \E b \in Batches(Refreshed) : request' = b /\ sent' = sent \cup b
  /\ UNCHANGED <<upgradeRequired, app, durable, acked, faults>>

\* Engine::build_push.  The reload comes before the early returns.
BuildPush ==
  /\ outbox' = Refreshed
  /\ outboxSuspect' = FALSE
  /\ IF upgradeRequired \/ Refreshed = {}
       THEN UNCHANGED <<request, sent>>
       ELSE \E b \in Batches(Refreshed) : request' = b /\ sent' = sent \cup b
  /\ UNCHANGED <<upgradeRequired, app, durable, acked, faults>>

-----------------------------------------------------------------------------
(* Push responses: any results about commands that were sent, in any order, *)
(* repeated or contradicting each other.                                    *)

Responses == UNION {[1..n -> [id : sent, status : Statuses]] : n \in 0..MaxResults}

\* The queued commands a response answers.
Answered(queue, r) == {c \in queue : \E i \in DOMAIN r : r[i].id = c}

\* s is the first status the response gives for c; later repeats are noise.
FirstAnswer(r, c, s) ==
  \E i \in DOMAIN r :
    /\ r[i] = [id |-> c, status |-> s]
    /\ \A j \in 1..(i - 1) : r[j].id # c

AnyDraft(c, s) == Class[app][c] = "OwnerDraft"

\* A losing owner draft is kept beside the resolution.
Recovers(c, s) == s = "Superseded" /\ Class[app][c] = "OwnerDraft"

\* ResolveCommand and SaveRecoveredDraft for each verdict, in one transaction.
Resolve(verdict) ==
  /\ stored' = stored \ DOMAIN verdict
  /\ outcomes' = [c \in Commands |-> IF c \in DOMAIN verdict
                                       THEN Append(outcomes[c], verdict[c])
                                       ELSE outcomes[c]]
  /\ recovered' = [c \in Commands |->
                     IF c \in DOMAIN verdict /\ Recovers(c, verdict[c])
                       THEN recovered[c] + 1 ELSE recovered[c]]

ApplyResultsSilentDrop(r, v) ==
  /\ outboxSuspect' = FALSE
  /\ outbox' = Refreshed \ {r[i].id : i \in DOMAIN r}
  /\ stored' = stored \ {r[i].id : i \in DOMAIN r}
  /\ Charge(v)
  /\ UNCHANGED <<upgradeRequired, app, at, nextAt, authored, outcomes, recovered, acked,
                 request, sent>>

\* Engine::apply_results.  Nothing to resolve: the reload is all that happens.
ApplyResults(r, v) ==
  LET queue == Refreshed
      ids   == Answered(queue, r)
  IN  /\ \/ /\ ids = {} /\ v = "Commit"
            /\ outbox' = queue /\ outboxSuspect' = FALSE
            /\ UNCHANGED <<stored, outcomes, recovered, faults>>
         \/ /\ ids # {}
            /\ Charge(v)
            /\ \E verdict \in [ids -> Statuses] :
                 /\ \A c \in ids : FirstAnswer(r, c, verdict[c])
                 /\ IF Landed(v) THEN Resolve(verdict)
                                 ELSE UNCHANGED <<stored, outcomes, recovered>>
            /\ IF ToldOk(v)
                 THEN outbox' = queue \ ids /\ outboxSuspect' = FALSE
                 ELSE outbox' = queue /\ outboxSuspect' = TRUE
      /\ UNCHANGED <<upgradeRequired, app, at, nextAt, authored, acked, request, sent>>

-----------------------------------------------------------------------------
(* What else touches the queue.                                            *)

\* apply_changes and begin_rebootstrap mark the queue suspect when their
\* transaction fails, whatever it held.
ScopeTransactFails ==
  /\ faults < MaxFaults /\ faults' = faults + 1
  /\ outboxSuspect' = TRUE
  /\ UNCHANGED <<outbox, upgradeRequired, app, durable, acked, request, sent>>

\* Engine::reload_scope, its outbox half.
ReloadScope ==
  /\ outboxSuspect
  /\ outbox' = Refreshed
  /\ outboxSuspect' = FALSE
  /\ UNCHANGED <<upgradeRequired, app, durable, acked, request, sent, faults>>

\* Engine::on_upgrade_required: the flag is all that changes.
Refused ==
  /\ upgradeRequired' = TRUE
  /\ UNCHANGED <<outbox, outboxSuspect, app, durable, acked, request, sent>>

OnUpgradeRequired ==
  /\ faults < MaxFaults /\ faults' = faults + 1
  /\ Refused

\* Engine::upgrade_completed.
UpgradeCompleted ==
  /\ upgradeRequired
  /\ upgradeRequired' = FALSE
  /\ UNCHANGED <<outbox, outboxSuspect, app, durable, acked, request, sent, faults>>

\* The process dies and comes back: a new Engine, restore_outbox from storage.
\* What was in flight is forgotten; an answer to it may still arrive.
Restarted ==
  /\ outbox' = stored
  /\ outboxSuspect' = FALSE
  /\ upgradeRequired' = FALSE
  /\ UNCHANGED <<durable, acked, request, sent>>

Restart ==
  /\ faults < MaxFaults /\ faults' = faults + 1
  /\ Restarted
  /\ UNCHANGED app

\* The app is updated: a restart under the next version's registry.
UpdateApp ==
  /\ app + 1 \in Versions
  /\ app' = app + 1
  /\ Restarted
  /\ UNCHANGED faults

Next ==
  \/ \E c \in Commands, v \in Verdicts : Enqueue(c, v)
  \/ BuildPush
  \/ \E r \in Responses, v \in Verdicts : ApplyResults(r, v)
  \/ ScopeTransactFails
  \/ ReloadScope
  \/ OnUpgradeRequired
  \/ UpgradeCompleted
  \/ Restart
  \/ UpdateApp

Spec == Init /\ [][Next]_vars

\* An answer to everything in a push that is still pending, which storage accepts.
AnswerRequest ==
  /\ request \cap stored # {}
  /\ \E r \in Responses :
       /\ request \subseteq {r[i].id : i \in DOMAIN r}
       /\ ApplyResults(r, "Commit")

\* The sync loop keeps pushing, a push that keeps being sent is answered in the
\* end, and a refused app is eventually updated.
Fairness ==
  /\ WF_vars(BuildPush)
  /\ WF_vars(AnswerRequest)
  /\ WF_vars(UpgradeCompleted)

FairSpec == Spec /\ Fairness

-----------------------------------------------------------------------------
(* Properties.                                                             *)

TypeOK ==
  /\ outbox \in SUBSET Commands
  /\ outboxSuspect \in BOOLEAN
  /\ upgradeRequired \in BOOLEAN
  /\ app \in Versions
  /\ stored \in SUBSET Commands
  /\ at \in [Commands -> Nat]
  /\ nextAt \in Nat \ {0}
  /\ authored \in [Commands -> Versions \cup {0}]
  /\ outcomes \in [Commands -> Seq(Statuses)]
  /\ recovered \in [Commands -> Nat]
  /\ acked \in SUBSET Commands
  /\ request \in SUBSET Commands
  /\ sent \in SUBSET Commands
  /\ faults \in 0..MaxFaults

\* The engine's copy is the stored queue unless it says it may not be: the
\* contract outbox_suspect keeps between memory and Storage::outbox.
MemoryIsStorage == ~outboxSuspect => outbox = stored

\* Whatever fails, a command the host was told is queued, or that reached
\* storage, is either still queued in storage or has a recorded outcome, and
\* never both.
NothingLost ==
  \A c \in Commands :
    (c \in acked \/ at[c] > 0) => ((c \in stored) <=> (outcomes[c] = <<>>))

\* One outcome per command: replayed responses, responses naming a command
\* twice, and lost acknowledgements never record a second one.
OneOutcome == \A c \in Commands : Len(outcomes[c]) <= 1

\* A superseded owner draft leaves exactly one recovered draft, and nothing
\* else does, by the class the entity had in the registry the draft was written with.
SupersededDraftIsRecovered ==
  \A c \in Commands :
    recovered[c] = IF /\ outcomes[c] = <<"Superseded">>
                      /\ Class[authored[c]][c] = "OwnerDraft"
                     THEN 1 ELSE 0

\* A push never carries a command whose outcome is already recorded: build_push
\* works from the stored queue even after a lost acknowledgement.
PushesOnlyPending == [][request' # request => request' \subseteq stored]_vars

\* A push overtakes nothing but held commands: whatever was queued before a command it
\* carries, and is still pending and can be migrated, is in the push as well, also
\* after a lost acknowledgement left the engine's copy of the queue behind.
OnlyHeldIsOvertaken ==
  [][request' # request =>
       \A d \in request', c \in stored : at[c] < at[d] => c \in request' \/ ~Migrates(c)]_vars

\* The commands every app version can send.
AlwaysSendable == {c \in Commands : \A v \in Versions : 1..(v - 1) \subseteq Steps[c]}

\* However many faults (finitely many) came before, a queued command that can
\* be sent is resolved in the end: none is stuck behind a held command, an
\* unreported commit or a suspect queue.
EveryCommandResolves ==
  \A c \in AlwaysSendable : (c \in stored) ~> (c \notin stored)

=============================================================================
