# credSync in TLA+

credSync keeps devices that are often offline in step with a server they do not share a
database with. This directory models its core, model-checks it on small instances and proves the
most important properties for all sizes. Everything is translated from the code under `src/`;
`PROJECT.json` names the lines behind every definition.

## The system

| Part | State | Operations | Talks to |
|---|---|---|---|
| Client outbox (`credsync-core` `engine.rs`, `outbox.rs`, `registry.rs`) | queue of commands in memory and in storage, `outbox_suspect`, `upgrade_required` | `enqueue`, `build_push`, `apply_results`, `reload_scope`, `on_upgrade_required`, `upgrade_completed`, `restore_outbox` | storage, the server by push requests and responses |
| Client scope sync (`engine.rs`, `apply.rs`, `scope.rs`, `integrity.rs`) | per scope: cursor, digest, health; rows and the divergence record in storage | `apply_batch`, `apply_bootstrap`, `begin_rebootstrap`, `clear_scope_health`, `restore_scope`, `restore_scope_health` | storage, the server by pulls and bootstraps |
| Storage adapter (`storage.rs`, `traits.rs`) | what the device keeps | `transact`, all or nothing | the engine |
| Payload migrations (`migrate.rs`) | registered steps | `plan`, `migrate_value` | both halves of the engine |
| Server change log (`credsync-server` `db.rs`, `pull.rs`, `credsyncd`) | `sync_changes`, `sync_watermark`, the writer lock | `lock_for_write`, `append_change`, `safe_watermark`, `changes_after`, `bootstrap_after`, `fill_batch` | host transactions and devices, through Postgres |
| Command forwarding (`host.rs`, `dedupe.rs`) | `sync_command_results` | `forward`, `classify`, `record` | the host application |
| Database schema migration (`db.rs`, `credsyncd` `main.rs`) | applied migrations, `MIGRATION_LOCK`, `lock_timeout`, Postgres's queue for `sync_changes` | `migrate`, `try_migrate` | every other instance that starts, and hosts that write |
| Authorization (`auth.rs`, `blocklist.rs`, `credsyncd` `lib.rs`) | `sync_scope_blocks`, the requests in flight | `verify`, `authorize`, `check`, `block`, `unblock`, `pull` | the change log, operators |
| Version negotiation (`version.rs`) | the window of protocols a server accepts | `negotiate` | the client's `upgrade_required` |
| Wire types, telemetry, FFI | | | not modelled, see below |
| Simulator (`credsync-sim`) | devices, a server and a network under a seed | its faults and its server | everything, in one process |

What is hard: an adapter may commit and report a failure, so the engine's memory is a cache of
unknown accuracy; seq order is not commit order on the server; a bootstrap pages through a log that
moves; responses are lost, repeated and overtaken; a process dies between any two transactions; an
app update changes registry and schema under queued commands; a host applies a command and its
answer is lost; instances that start at once change a schema that is being written to; a refusal or
an answer arrives after the state it was about is gone. `PROJECT.json` lists these hazards one by one, each with its line and the properties
aimed at it.

What makes each part correct:

* outbox: nothing acknowledged is lost, nothing is resolved twice, memory is never trusted after a
  failure, everything that can be sent is resolved in the end;
* scope sync: cursor, digest and rows move together, no change is skipped, nothing undamaged is
  diagnosed, damage is healed or given up on, and the count of attempts survives restarts;
* change log: a watermark has nothing in flight beneath it, devices skip nothing, readers never wait
  for a writer that does not end;
* forwarding: one verdict per command whoever asks, and it is the host's;
* the write path as a whole: the author of a command is shown the verdict that was recorded, and is
  shown one in the end;
* schema migration: starting instances neither fail each other nor wedge a writer, keep nothing
  between attempts, and serve only over a whole schema;
* authorization: a page goes only to who may have it at some moment of the request, and a refusal
  says what a new token would change.

## Modules

| Module | Models | Variables and actions |
|---|---|---|
| `Storage` | the three ways a client transaction ends | constants only; used by the two below |
| `Outbox` | write half of the engine | memory (`outbox`, `outboxSuspect`, `upgradeRequired`), durable (`stored`, `at`, `authored`, `outcomes`, `recovered`), one action per engine call, plus restart, app update and the failure of another scope's transaction, which also marks the queue suspect |
| `ScopeSync` | read half of the engine, one scope | memory (`scope`, `suspect`, `health`), durable (`stored`, `rows`, `record`), the server's `log`, the responses `net`; one action per engine call, network fault, restart and damage |
| `ChangeLog` | the server's log in Postgres | one action per SQL statement: writers begin, lock, insert, commit or roll back; readers begin, lock or time out, establish, commit, query; a statement or a COMMIT of a reader in `Failing` may fail |
| `Forward` | `forward`, `classify`, `record` | one action per step between two awaits; `Drop` is a database error or a crash |
| `CommandLedger` | what the write path promises | `verdict` and `shown` of each command; a verdict is decided once, and shown as decided |
| `PushPath` | `Outbox` and `Forward` (by INSTANCE) joined by a network, load shedding and version negotiation | the variables of both, `net`, `serving`, `protocol`; one action per message sent, lost, repeated or delivered and per step of the server |
| `SchemaMigration` | `migrate`, one SQL statement at a time | per session: where it is, attempts, the batch, `lock_timeout`; the advisory lock, the applied batches, the queue for `sync_changes`, the hosts' open transactions |
| `PullGate` | the pull handler behind its checks | the clock, the blocklist, each request's stage; receive, check, read, block, unblock |
| `Service` | `credsyncd`: an instance serves (`PullGate`) once it has migrated (`SchemaMigration`) | both sets of variables; a process that dies takes its requests with it |
| `MC*` | instances for TLC | values of the constants |
| `OutboxProofs`, `ForwardProofs`, `PushPathProofs`, `ChangeLogProofs`, `ScopeSyncProofs`, `ScopeAnswersProofs`, `ServiceProofs` | theorems | inductive invariants |
| `FiniteMax` | lemmas about `Max` and small sets | none |

Abstractions that hold throughout: a row's version is the seq that wrote it (what `append_change`'s
callers and the simulator do); a byte budget cuts a batch anywhere after its first element; a digest
is the number of times each row version was added less removed, which is what the wrapping sum of
`ScopeDigest` is without collisions; a payload is whatever tells it from another.

Particular choices. `Outbox` keeps the queue as a set ordered by append position, because nothing
but append and remove-by-id is done to it. A push response is any sequence of results about commands
that were ever sent: late, repeated and contradictory ones are in it. `PushesOnlyPending` is about a
push that differs from the one before; `build_push` leaves `request` as it is when it returns none. In `ScopeSync` the server's
answer to a request is computed when it is sent. credsync-server computes no digest (`fill_batch` is
handed one), so `ServerDigest` is the one the documentation defines, over live rows; `DigestOps`
switches to what the simulator's server computes. `Restart` restores scope state and health as the
engine offers it, with the stored digest or one recomputed over the rows. In `ChangeLog` locks and
transactions belong to a connection, and `Conn` says which requests share one. In `Forward` a body
stands for its checksum. In `PushPath` app version v speaks protocol v, and a push is taken up, worked
on and answered in separate steps, so the device may push again, restart or be updated while it is
being served. In `SchemaMigration` an instance is one database session; a batch of statements is
atomic, as Postgres makes a multi-statement query, and looks for its tables before it creates them;
only the first batch needs a lock that writers hold. A session that breaks, also while unlocking, is a
crash. In `PullGate` a token is what its bytes decode to, and a request remembers whether its scope
was, at some moment, cut or open.

## Runs

Passing runs:

| Run | Bounds | What it shows |
|---|---|---|
| `outbox_queue` | 3 commands, one of each class, one of which cannot be migrated after the update; 2 app versions, batches of 2, 3 results per response, 3 faults | queue and storage agree or the engine knows they may not; nothing lost, one outcome, drafts recovered, only pending commands pushed, in queue order but for those that are held; what can be sent is resolved in the end. Three results let one response repeat and contradict itself; three faults let an enqueue lie, a reload happen and an answer lie |
| `changelog_watermark` | 2 requests with own connections, 2 hosts, 2 seqs of one row; every statement of `safe_watermark` may fail (`Failing`; the other two runs of this module leave that out for size) | no hole; what a request serves by, and what a device has reached, is on record, so no fallback is behind them; every request ends though a host may not. Two hosts suffice for seq order to differ from commit order |
| `changelog_paging` | 1 device, 2 interchangeable hosts (symmetry), 4 seqs over 2 rows, pages of one row | no change is skipped: bootstrap pages overlap writes, deletes and re-creations that commit out of seq order. Four seqs let a row be deleted and re-created between pages |
| `scope_apply` | 2 rows, one append-only, 3 changes, 2 responses in flight, 2 faults, 1 damaged row | the invariants of apply under a lying adapter and a network that loses and repeats |
| `scope_heal` | the same, no row append-only, with an adapter that keeps its contract, one response in flight and MAX_HEAL_ATTEMPTS 2 | the divergence record, escalation and trust, over restarts; the device catches up or gives up. Two attempts are the fewest with a state between none and all |
| `forward_verdicts` | 2 forwards at once, 1 id, 2 bodies, 3 applications | one verdict, the host's, never rewritten. Commands with different ids do not meet, so one id is enough |
| `push_path` | 2 commands in batches of 2, one push served at a time and one message in flight when a push is sent, 2 app versions and 2 protocols, 1 fault of any kind, one accepted change (`MaxSeq` 1, so the host applies the first and then only rejects or supersedes), payloads that migrations leave alone | the composition implements `CommandLedger`, and every queued command is answered. Two commands are the fewest a loaded server can split; the update and the deployment happen in either order, so either end may be the one that is behind |
| `service` | 2 instances, 1 host, a database that is fresh or one release old (`Found` 0 or 2), 2 attempts, 1 faulty session, 1 request at a time, 2 tokens, a scope and a string that is not one | migration, serving and authorization together. Two instances meet in every race of `migrate`; two attempts are the fewest that have a retry and a last one. The clock runs to one past the leeway, so a token is presented before and after it expires |

`service` does not check deadlock: when every start has failed, nothing is left to happen.

Runs that violate a statement of the documentation, with the finding in `PROJECT.json`:

| Run | What happens |
|---|---|
| `changelog_shared` | requests that share credsyncd's one connection end each other's transactions, and a hole appears below the watermark |
| `scope_alien` | a row quarantined twice taints an undiverged scope |
| `scope_late` | after a rebuild cleared a scope, an old empty response heals it and the next old response moves its cursor past rows it no longer has |
| `push_migrated` | the answer to a push is lost, the app is updated, the retry has a migrated payload, and the device is told the command was refused, whatever the host had decided |

`scope_apply` and `scope_heal` keep responses in order because of `scope_late`, `scope_apply` has no
quarantined rows because of `scope_alien`, and `push_path` keeps payloads because of `push_migrated`.

Seen while modelling, without a run of their own:

* `build_push` sends what is behind a held command, against `engine.rs:79`; `OnlyHeldIsOvertaken` says
  that nothing else is overtaken within a push. Across pushes order also gives way when the host fails
  for one command of a push and decides the next: the first is retried behind it;
* an update that drops a command's registration makes `apply_results` (`engine.rs:1082`) resolve a
  superseded draft without a recovered copy; `outbox_queue` lets updates keep classes;
* an overtaken empty pull response moves the cursor back (`apply.rs:182`), against
  `invariant.rs:148`: the first half of what `scope_late` shows;
* a host that applies a command and does not answer leaves no record, so the retry is applied again
  unless the host itself dedupes, against `host.rs:134-136`; `credsync-server/tests/host.rs` concedes it;
* `append_change` outside a transaction (`Autocommit`) loses its lock before the INSERT, so a hole
  appears without any sharing; no run has such a writer, and the theorems exclude it (`OwnSessions`);
* the comment at `db.rs:123-125` says that `lock_timeout` does not apply to advisory locks, while
  `safe_watermark` (`db.rs:273-275`, `326-340`) relies on it to bound its wait for one. Postgres applies
  it to every lock wait, so `LockTimeout` in `ChangeLog` does too, and the tests of
  `credsync-server/tests/commit_order.rs` bear it out; were the comment right, `ReaderNeverBlocked`
  would fail, as its mutant shows;
* after a commit reported as failed, `refresh_if_suspect` re-reads cursor and digest but not the
  divergence record, so memory and storage count differently: `scope_heal` therefore checks
  `HealthIsStored` with an adapter that does not lie;
* the simulator's server counts deleted rows in its digest (`"delete"` in `DigestOps`);
* an append-only row re-created between two bootstrap pages is refused for ever;
* the simulator's `apply_command` replaces a record by a refusal, which `host.rs:190` forbids; the
  model is of `host.rs`. credsyncd has no push handler yet, so `PushPath` puts `forward` where the
  simulator's `push_prefix` has `apply_command`, and leaves out what `forward` could not resolve;
* a client refused because the *server* is behind stays refused (`upgrade_required`) until its host
  calls `upgrade_completed`, though there is no app update to wait for: fairness of `UpgradeCompleted`
  in `PushPath` is an assumption about that host;
* `refuse` answers every failure but expiry with 403, where its comment (`credsyncd/src/lib.rs:61`)
  says 401;
* a scope cut between a request's blocklist query and its page is still served that page;
  `ServedIsAuthorized` allows this window and no more;
* `reset_lock_timeout` ignores its own failure (`db.rs:196-198`), so a session may serve with the
  migration's `lock_timeout` still set (`ResetFails`); `NothingKept` makes that the one exception;
* if `pg_advisory_unlock` failed on a session that survives, the contended path of `try_migrate` would
  ignore it and retry with the lock held.

Fairness. `Outbox`: the sync loop keeps calling `build_push` (`World::device_step` does, every
step), a push that is sent again and again is answered in the end and the answer is stored, a
refused app is updated. `ScopeSync`: the loop keeps pulling, responses arrive, storage accepts in
the end, and a host rebuilds what `scopes_needing_rebootstrap` names: what `World::settle` runs.
Faults are bounded and nothing is assumed of hosts. `ChangeLog`: a started request keeps running its
statements (tokio polls the task); nothing is assumed of writers. `PushPath`: as `Outbox`, the server
works on what it took up, messages arrive unless a fault takes them, and the end that is behind is
updated. `Service`: sessions run their statements, `lock_timeout` fires, Postgres grants what it can,
and a host goes on with a transaction it has begun. That a batch is granted its lock is not assumed:
`StartsSettle` allows a start to fail after its attempts.

## Proofs

Proved with TLAPS, for every value of the constants that satisfies the assumptions stated in the
modules:

* `OutboxProofs`: `TypeOK`, `MemoryIsStorage`, `NothingLost`, `OneOutcome`, `PushesOnlyPending`.
  `NothingLost` alone is not inductive: that a removed command has an outcome needs the queue the
  engine works from to be storage's, and that what is queued was once stored. The invariant is the
  conjunction of the four with `KnownToStorage`. `OnlyHeldIsOvertaken` is an action property of
  `build_push` that needs it for the queue the push is built from. `SupersededDraftIsRecovered` needs
  `KeepsDrafts` (an owner draft is one in every registry): whether a draft is recovered is decided by
  the registry of the day, and the property speaks of the one it was written with.
* `ForwardProofs`: `TypeOK`, `OneVerdict`, `VerdictIsHosts`, `RecordSurvives`. `OneVerdict` speaks
  of answers already sent, so the invariant ties them to the table: each is a row of it, or a refusal
  some row with another body justifies; rows are one per id and never change.
* `PushPathProofs`: `TypeOK`; `ImplementsLedger`, the refinement, and `ShownIsVerdict`. The lemmas of
  `OutboxProofs` and `ForwardProofs` are used through instances of those modules: a step of the path
  is a step of one component and leaves the other's variables alone, or hands it a message, so `PInv`
  is the two components' invariants with what the messages carry (`PushesAreCarried`). For the
  refinement `LInv` adds that a command has one body wherever it is (`OneBody`), so a retry is never
  refused for a changed body, and that each result in flight, about to be sent, or shown is the
  recorded one (`ToldIsRecorded`). Both rest on `KeepsPayloads`; `push_migrated` shows what an
  update that changes a payload does.
* `ChangeLogProofs`: `TypeOK` for any sharing of connections, and `NoHoleBelowWatermark`,
  `ServedIsRecorded` and `NeverSkips` under `OwnSessions`: a connection for every request, a
  transaction around every append. That hypothesis is what credsyncd does not meet
  (`changelog_shared`). The invariant of the first is mutual exclusion: who establishes or commits a
  watermark, or has one pending, holds the lock exclusively (`HoldsLock`, `PendingHoldsLock`), which
  excludes writers (`Excludes`), and a writer without the lock has nothing in flight
  (`InsertsAreLocked`). An insert then takes a seq above every watermark by `TypeOK`.
  `ServedIsRecorded` rests on the lock of the row `sync_watermark` instead: one transaction at most has
  written it, never a value beneath the recorded one (`OneWrites`), and a request has such a row only
  between its upsert and its COMMIT, holding what it was told (`WritesToCommit`), so installing it as
  it is neither takes the record back nor leaves the request ahead of it. `NeverSkips`
  adds that what is not committed yet is above every cursor (`FlightIsAhead`) and that a device at
  cursor 0 holds nothing (`EmptyAtStart`), which is why tombstones need not be sent to it.
* `ScopeSyncProofs`: `TypeOK` and `EscalationSurvives` for any adapter; `HealthIsStored` under
  `HonestStorage` (no commit is reported as a failure); `MemoryIsStorage` and `DigestDescribesRows`
  under `KnownSchema` (no quarantined change: `scope_alien`). The step that matters is a batch:
  `TakenOut` counts what its changes take out of the digest of one row and version, namely what storage
  held and each version of the batch but the last of its row, so what is left is the digest of the rows
  the batch leaves (`StagedDescribes`).
* `ScopeAnswersProofs`: what responses are answers to. A response is judged by the log as it was when
  it was asked for, so the server is described as of its first n changes, and each response by the
  cursor and the n it answers to. `NoFalseAlarm`, `CursorMonotone` and that an undamaged device has
  skipped nothing, for any number of requests in flight, under `InOrder` (responses are not reordered:
  `scope_late`), `KnownSchema` and `DigestOfLive` (the server's digest is over live rows). The
  invariant `CalmInv` keeps a queue in line (`InLine`): later requests saw at least as much of the log,
  none was made beyond the stored cursor, the rows are right as of each of them up to the cursor, and
  bootstrap pages come first and are copies of one. Losing, doubling or spoiling a response is a
  monotone renaming of the queue (`Follows`), which keeps it in line.
  `TrustedHasEverything` is about damage and rebuilds, and needs `HonestStorage` and `OneAtATime`
  (`MaxNet` at most 1: a host that waits for an answer, or for its loss, before it asks again, which
  the engine does not enforce): a response to a request made before a rebuild may be applied to the cleared scope, but the scope is
  trusted again only if the digests agree, and then the rows do (`DigestTellsRows`).
* `ServiceProofs`: `ServiceMigrates` shows that the service with requests, operators and a clock still
  implements `MigrationSpec`, step by step, so what follows is proved of the migration alone:
  `ServingHasSchema`, `NothingKept`, `FailsForCause`, for any number of instances, hosts and
  attempts. The invariant `MIInv` adds to the types: the advisory lock is held exactly by the sessions
  between `try` and `unlock`, and by one of them (`LockInv`); a session is in the lock queue once, while
  it waits, and holds the table only while it runs (`QueueInv`); the batches before its own are
  applied, and nobody applies the one it found missing, which `LockInv` is needed for (`ProgressInv`);
  an attempt fails, or leaves `lock_timeout` set, only for a failure of the database (`EndInv`). `FailsForCause` is where they meet:
  a batch whose tables appear under it would fail, and mutual exclusion is why none does. Of the
  requests: `TypeOK`, `ServedIsAuthorized`, `RefusedForCause`. The invariant
  `GateInv` is per request: what each stage has established about token, expiry and scope
  (`Evidence`), in processes that serve (`HandlersServe`), whoever blocks, unblocks or crashes meanwhile.
* `FiniteMax`: greatest and least elements of bounded sets, used by the change log and the scope.

Every safety property of a passing run is thus a theorem. The larger invariants (`LInv`, `CalmInv`,
`SoundInv`) were checked by TLC on the runs' instances before they were proved. The hypotheses are
those of the runs; what happens without them is described above and in the runs that violate.
`OneAtATime` is needed even where responses stay in order: with three in flight, a rebuild cut short by
a restart and a scope whose rows were all deleted, an empty bootstrap page takes the cursor back to 0,
a pull prefix re-creates a deleted row, and a pull asked for beyond its tombstone is accepted with more
to come, so no digest is compared and the scope stays trusted.

Proving changed the models twice. In `PullGate`, `Verify` and `Authorize` were CASE expressions with
overlapping guards, whose value TLA+ leaves open where two hold; they are now the chains of tests the
handler runs. In `PushPath` the type of a results message was weaker than what the device is
handed, and the assumptions of the two components were not stated of their instances.

Out of the prover's reach, and only model-checked: liveness (`EveryCommandResolves`, `Converges`,
`EveryCommandIsAnswered`, `ReaderNeverBlocked`, `WritesEnd`, `StartsSettle`).

## Not modelled

The wire types and their limits (parsing and encoding of data the models take as given), telemetry
(nothing reads it back), the simulator's driver (random choices, traces; its invariants are the
starting point of several properties), the FFI placeholder. Inside the modelled parts: corruption of a
batch in transit, several scopes at once, the payloads migrations produce, a window of protocol
versions that an operator widened.

## Plan

1. `PullPath`: `ScopeSync` over `ChangeLog`, so that the answers of the scope's server are derived
   from commits and watermarks; the abstract specification is a replica that holds, for each row at
   or below its cursor, its last change.
2. `TrustedHasEverything` for requests in flight across a rebuild, if a restart of the process drops
   its responses.
