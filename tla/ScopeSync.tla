----------------------------- MODULE ScopeSync ------------------------------
(***************************************************************************)
(* The read half of the credSync client engine, for one scope.             *)
(*                                                                         *)
(* The sync loop pulls batches of the scope's change log and applies each  *)
(* in one storage transaction: rows, cursor, digest and divergence record  *)
(* together.  The digest is kept incrementally and compared with the       *)
(* server's on the last batch of a walk; a mismatch taints the scope, a    *)
(* tainted scope is cleared and bootstrapped again, and after              *)
(* MaxHealAttempts divergences healing gives up.                           *)
(*                                                                         *)
(* The server is its committed log (ChangeLog shows how readers come to    *)
(* see one); a request is answered when it is sent, and the response may   *)
(* be delayed, lost, repeated or, if Reorder, overtaken.  A row's version  *)
(* is the seq that wrote it.                                               *)
(*                                                                         *)
(* Abstracted: snapshots (an "alien" upsert is one this app has no         *)
(* migration for), the byte budget, hash collisions (a digest is the       *)
(* number of times each row version was added, less removed), telemetry.   *)
(***************************************************************************)
EXTENDS Integers, Sequences, FiniteSets, FiniteSetsExt, Storage

CONSTANTS
  Rows,
  AppendOnly,        \* rows of append-only entities
  Ops,               \* what the host writes: "upsert", "delete", "alien"
  DigestOps,         \* changes that leave a row in the server's digest
  StorageMay,        \* how the adapter's transactions may end
  Reorder,           \* whether responses can overtake each other
  MaxHealAttempts,   \* MAX_HEAL_ATTEMPTS
  MaxSeq,            \* bound: length of the log
  MaxNet,            \* bound: responses in flight
  MaxFaults,         \* bound: failed transactions, restarts, losses, repeats
  MaxDamage          \* bound: rows damaged behind the engine's back

Seqs     == 1..MaxSeq
Versions == 1..(MaxSeq + 1)     \* the last one is never the server's

ASSUME ScopeSyncAssumption ==
  /\ AppendOnly \subseteq Rows
  /\ Ops \subseteq {"upsert", "delete", "alien"}
  /\ DigestOps \subseteq {"upsert", "delete", "alien"}
  /\ StorageMay \subseteq Verdicts
  /\ Reorder \in BOOLEAN
  /\ MaxHealAttempts \in Nat \ {0}
  /\ MaxSeq \in Nat /\ MaxNet \in Nat /\ MaxFaults \in Nat /\ MaxDamage \in Nat

VARIABLES
  log,       \* server: the scope's changes, in seq order
  net,       \* responses on their way to the device
  scope,     \* memory: [cursor, digest]
  suspect,   \* memory: scope may no longer match storage
  health,    \* memory: [kind, attempts]
  stored,    \* durable: [cursor, digest]
  rows,      \* durable: the version of each row, 0 if not held
  record,    \* durable: [attempts, healed], the divergence history
  booting,   \* the sync loop is paging through a bootstrap
  damaged,   \* a row was damaged since the scope was last cleared
  pardoned,  \* the host has told the engine to forget a taint
  faults, damage

memory  == <<scope, suspect, health>>
durable == <<stored, rows, record>>
vars    == <<log, net, scope, suspect, health, stored, rows, record, booting, damaged,
             pardoned, faults, damage>>

-----------------------------------------------------------------------------
(* Digests.                                                                *)

Digests  == [Rows -> [Versions -> Int]]
EMPTY    == [x \in Rows |-> [v \in Versions |-> 0]]

\* ScopeDigest::from_rows.
FromRows(r) == [x \in Rows |-> [v \in Versions |-> IF r[x] = v THEN 1 ELSE 0]]

NewScope == [cursor |-> 0, digest |-> EMPTY]

-----------------------------------------------------------------------------
(* Scope health.                                                           *)

HealthKinds == {"Healthy", "Tainted", "Healed", "Unhealable"}

IsHealthy(h)        == h.kind \in {"Healthy", "Healed"}
NeedsRebootstrap(h) == h.kind = "Tainted"

\* taint: healing gives up once it has been tried enough times.
Taint(n) == [kind |-> IF n >= MaxHealAttempts THEN "Unhealable" ELSE "Tainted",
             attempts |-> n]

RestoredAlwaysTaints(r) == IF r.attempts = 0 THEN [kind |-> "Healthy", attempts |-> 0]
                           ELSE [kind |-> "Tainted", attempts |-> r.attempts]

\* restore_scope_health.
Restored(r) == IF r.attempts = 0 THEN [kind |-> "Healthy", attempts |-> 0]
               ELSE IF r.healed THEN [kind |-> "Healed", attempts |-> r.attempts]
               ELSE Taint(r.attempts)

-----------------------------------------------------------------------------
(* The server.                                                             *)

LogEnd     == Len(log)
LastSeq(x) == Max({s \in 1..LogEnd : log[s].row = x} \cup {0})

\* Whether the host still has row x.
Live(x)    == LastSeq(x) > 0 /\ log[LastSeq(x)].op # "delete"

\* The server's digest of the scope as it stands.
ServerDigest ==
  FromRows([x \in Rows |-> IF LastSeq(x) > 0 /\ log[LastSeq(x)].op \in DigestOps
                             THEN LastSeq(x) ELSE 0])

PullPage(after) == (after + 1)..LogEnd

\* The compacted log after a cursor; no tombstones for a device that holds nothing.
BootstrapPage(after) ==
  {s \in PullPage(after) : /\ s = LastSeq(log[s].row)
                           /\ log[s].op # "delete" \/ after > 0}

AnswersMayStall(kind, after, page) ==
  {[kind |-> kind, seqs |-> b, repeated |-> FALSE, more |-> b # page,
    next |-> IF b = {} THEN after ELSE Max(b), digest |-> ServerDigest] :
      b \in {p \in SUBSET page : \A s \in p, t \in page : t < s => t \in p}}

\* fill_batch: a prefix of the page, empty only if the page is; next_cursor covers
\* exactly what was sent.
Answers(kind, after, page) ==
  {[kind |-> kind, seqs |-> b, repeated |-> FALSE, more |-> b # page,
    next |-> IF b = {} THEN after ELSE Max(b), digest |-> ServerDigest] :
      b \in {p \in SUBSET page : /\ \A s \in p, t \in page : t < s => t \in p
                                 /\ p = {} => page = {}}}

-----------------------------------------------------------------------------
Init ==
  /\ log = <<>> /\ net = <<>>
  /\ scope = NewScope /\ suspect = FALSE /\ health = Restored([attempts |-> 0, healed |-> FALSE])
  /\ stored = NewScope
  /\ rows = [x \in Rows |-> 0]
  /\ record = [attempts |-> 0, healed |-> FALSE]
  /\ booting \in BOOLEAN
  /\ damaged = FALSE /\ pardoned = FALSE /\ faults = 0 /\ damage = 0

\* The host writes.  It keeps the append-only promise: such a row is never
\* written over, though it may be deleted and written anew.
Write(x, o) ==
  /\ LogEnd < MaxSeq
  /\ IF o = "delete" THEN Live(x) ELSE x \in AppendOnly => ~Live(x)
  /\ log' = Append(log, [row |-> x, op |-> o])
  /\ UNCHANGED <<net, memory, durable, booting, damaged, pardoned, faults, damage>>

Charge(v) ==
  \/ v = "Commit" /\ UNCHANGED faults
  \/ v # "Commit" /\ faults < MaxFaults /\ faults' = faults + 1

RefreshedNever == scope

\* refresh_if_suspect: the state the engine goes on with.
Refreshed == IF suspect THEN stored ELSE scope

\* A suspect scope is reloaded before a request is built from it (reload_scope).
Ask(kind, after, page) ==
  /\ Len(net) < MaxNet
  /\ scope' = Refreshed
  /\ suspect' = FALSE
  /\ \E m \in Answers(kind, after, page) : net' = Append(net, m)
  /\ UNCHANGED <<log, health, durable, booting, damaged, pardoned, faults, damage>>

PullStep ==
  /\ ~booting
  /\ Ask("pull", Refreshed.cursor, PullPage(Refreshed.cursor))

\* The pages of a bootstrap are asked for one at a time.
BootstrapStep ==
  /\ booting
  /\ \A i \in DOMAIN net : net[i].kind = "pull"
  /\ Ask("bootstrap", Refreshed.cursor, BootstrapPage(Refreshed.cursor))

-----------------------------------------------------------------------------
(* Applying a batch.                                                       *)

OrderedAmongThemselves(m, cursor) ==
  /\ ~m.repeated
  /\ m.seqs # {} => m.next >= Max(m.seqs)

\* validate_ordering.
Ordered(m, cursor) ==
  /\ \A s \in m.seqs : s > cursor
  /\ ~m.repeated
  /\ m.seqs # {} => m.next >= Max(m.seqs)

\* The changes of b to row x before seq s.
Earlier(b, x, s) == {t \in b : log[t].row = x /\ t < s}

CurrentStoredOnly(b, s) == rows[log[s].row]

\* The version stage_change finds: what this batch has staged for the row, else
\* what storage holds.
Current(b, s) ==
  LET x == log[s].row
      e == Earlier(b, x, s)
  IN  IF e = {} THEN rows[x] ELSE IF log[Max(e)].op = "delete" THEN 0 ELSE Max(e)

\* An upsert over another version of an append-only row.  Quarantining does not ask.
Overwrites(b, s) ==
  /\ log[s].op = "upsert"
  /\ log[s].row \in AppendOnly
  /\ Current(b, s) \notin {0, s}

\* The running digest: each change removes the version it finds, and adds its own
\* unless it is a tombstone.
StagedDigest(digest, b) ==
  [x \in Rows |-> [v \in Versions |->
     digest[x][v]
     + Cardinality({s \in b : log[s].row = x /\ log[s].op # "delete" /\ s = v})
     - Cardinality({s \in b : log[s].row = x /\ Current(b, s) = v})]]

\* The rows after the transaction: a quarantined change leaves the row as it was.
StagedRows(b) ==
  [x \in Rows |->
     LET mine == {s \in b : log[s].row = x /\ log[s].op # "alien"}
     IN  IF mine = {} THEN rows[x]
         ELSE IF log[Max(mine)].op = "delete" THEN 0 ELSE Max(mine)]

ComparesAlways(m) == TRUE

\* The server's digest is of the whole scope, so only the last batch can be judged.
Compares(m) == ~m.more

DivergenceAlwaysCounts(diverged, rebuilding) == diverged

\* One divergence per trust episode: the scope was trusted, or a rebuild failed.
Counts(diverged, rebuilding) ==
  diverged /\ (IsHealthy(health) \/ (rebuilding /\ NeedsRebootstrap(health)))

RecordedForgetsHeal(counts, heals) ==
  IF counts THEN [attempts |-> health.attempts + 1, healed |-> FALSE] ELSE record

\* What the divergence record becomes in the same transaction.
Recorded(counts, heals) ==
  IF counts THEN [attempts |-> health.attempts + 1, healed |-> FALSE]
  ELSE IF heals THEN [attempts |-> health.attempts, healed |-> TRUE]
  ELSE record

\* apply_changes on a batch it refuses: nothing is written.
Refuse(m) ==
  /\ ~Ordered(m, Refreshed.cursor) \/ \E s \in m.seqs : Overwrites(m.seqs, s)
  /\ scope' = Refreshed
  /\ suspect' = FALSE
  /\ UNCHANGED <<health, durable, booting, damaged, pardoned>>

\* apply_changes on a batch it accepts: stage, commit, then advance memory.
Accept(m, v) ==
  LET new       == [cursor |-> m.next, digest |-> StagedDigest(Refreshed.digest, m.seqs)]
      diverged  == Compares(m) /\ new.digest # m.digest
      counts    == Counts(diverged, m.kind = "bootstrap")
      heals     == Compares(m) /\ ~diverged /\ NeedsRebootstrap(health)
  IN
  /\ Ordered(m, Refreshed.cursor) /\ \A s \in m.seqs : ~Overwrites(m.seqs, s)
  /\ IF Landed(v)
       THEN /\ stored' = new
            /\ rows' = StagedRows(m.seqs)
            /\ record' = Recorded(counts, heals)
       ELSE UNCHANGED durable
  /\ IF ToldOk(v)
       THEN /\ scope' = new
            /\ suspect' = FALSE
            /\ health' = IF counts THEN Taint(health.attempts + 1)
                         ELSE IF heals THEN [kind |-> "Healed", attempts |-> health.attempts]
                         ELSE health
            /\ booting' = (booting /\ ~(m.kind = "bootstrap" /\ ~m.more))
       ELSE /\ scope' = Refreshed
            /\ suspect' = TRUE
            /\ UNCHANGED <<health, booting>>
  /\ UNCHANGED <<damaged, pardoned>>

-----------------------------------------------------------------------------
(* The network.                                                            *)

\* The positions a response may be delivered from.
Due == IF Reorder THEN DOMAIN net ELSE DOMAIN net \cap {1}

Without(i) == SubSeq(net, 1, i - 1) \o SubSeq(net, i + 1, Len(net))

\* apply_batch or apply_bootstrap on the next response.
Deliver(i, v) ==
  /\ net' = Without(i)
  /\ \/ v = "Commit" /\ Refuse(net[i])
     \/ Accept(net[i], v)
  /\ Charge(v)
  /\ UNCHANGED <<log, damage>>

\* A response is lost, will arrive twice, or repeats its last change.
Disturb(i) ==
  /\ faults < MaxFaults /\ faults' = faults + 1
  /\ \/ net' = Without(i)
     \/ /\ Len(net) < MaxNet
        /\ net' = SubSeq(net, 1, i) \o SubSeq(net, i, Len(net))
     \/ /\ net[i].seqs # {}
        /\ net' = [net EXCEPT ![i].repeated = TRUE]
  /\ UNCHANGED <<log, memory, durable, booting, damaged, pardoned, damage>>

-----------------------------------------------------------------------------
(* Healing, restarts and damage.                                           *)

BeginRebootstrapKeepsRows(v) ==
  /\ NeedsRebootstrap(health)
  /\ ~booting
  /\ Charge(v)
  /\ IF Landed(v)
       THEN stored' = NewScope /\ damaged' = FALSE
       ELSE UNCHANGED <<stored, damaged>>
  /\ IF ToldOk(v)
       THEN scope' = NewScope /\ booting' = TRUE /\ UNCHANGED suspect
       ELSE suspect' = TRUE /\ UNCHANGED <<scope, booting>>
  /\ UNCHANGED <<log, net, health, rows, record, pardoned, damage>>

\* Engine::begin_rebootstrap, for a scope in scopes_needing_rebootstrap.
BeginRebootstrap(v) ==
  /\ NeedsRebootstrap(health)
  /\ ~booting
  /\ Charge(v)
  /\ IF Landed(v)
       THEN stored' = NewScope /\ rows' = [x \in Rows |-> 0] /\ damaged' = FALSE
       ELSE UNCHANGED <<stored, rows, damaged>>
  /\ IF ToldOk(v)
       THEN scope' = NewScope /\ booting' = TRUE /\ UNCHANGED suspect
       ELSE suspect' = TRUE /\ UNCHANGED <<scope, booting>>
  /\ UNCHANGED <<log, net, health, record, pardoned, damage>>

\* Engine::clear_scope_health, by a host that has looked into it.  A failure marks
\* nothing suspect.
ClearScopeHealth(v) ==
  /\ health.kind # "Healthy"
  /\ faults < MaxFaults /\ faults' = faults + 1
  /\ record' = IF Landed(v) THEN [attempts |-> 0, healed |-> FALSE] ELSE record
  /\ health' = IF ToldOk(v) THEN Restored([attempts |-> 0, healed |-> FALSE]) ELSE health
  /\ pardoned' = (pardoned \/ ~IsHealthy(health))
  /\ UNCHANGED <<log, net, scope, suspect, stored, rows, booting, damaged, damage>>

\* A new process: restore_scope with the stored digest, or one recomputed over the
\* stored rows, and restore_scope_health.
Restart ==
  /\ faults < MaxFaults /\ faults' = faults + 1
  /\ \E d \in {stored.digest, FromRows(rows)} : scope' = [stored EXCEPT !.digest = d]
  /\ suspect' = FALSE
  /\ health' = Restored(record)
  /\ booting' = FALSE
  /\ UNCHANGED <<log, net, durable, damaged, pardoned, damage>>

\* A stored row is lost or altered behind the engine's back.
Damage(x) ==
  /\ damage < MaxDamage /\ damage' = damage + 1
  /\ rows[x] # 0
  /\ \E w \in {0, MaxSeq + 1} : rows' = [rows EXCEPT ![x] = w]
  /\ damaged' = TRUE
  /\ UNCHANGED <<log, net, memory, stored, record, booting, pardoned, faults>>

-----------------------------------------------------------------------------
Next ==
  \/ \E x \in Rows, o \in Ops : Write(x, o)
  \/ PullStep
  \/ BootstrapStep
  \/ \E i \in Due, v \in StorageMay : Deliver(i, v)
  \/ \E i \in DOMAIN net : Disturb(i)
  \/ \E v \in StorageMay : BeginRebootstrap(v)
  \/ \E v \in StorageMay : ClearScopeHealth(v)
  \/ Restart
  \/ \E x \in Rows : Damage(x)

Spec == Init /\ [][Next]_vars

\* The sync loop keeps asking, what is sent arrives in the end, storage accepts
\* the transaction in the end, and a tainted scope is rebuilt.
Fairness ==
  /\ WF_vars(PullStep)
  /\ WF_vars(BootstrapStep)
  /\ WF_vars(\E i \in Due : Deliver(i, "Commit"))
  /\ WF_vars(BeginRebootstrap("Commit"))

FairSpec == Spec /\ Fairness

-----------------------------------------------------------------------------
(* Properties.                                                             *)

TypeOK ==
  /\ log \in Seq([row : Rows, op : Ops]) /\ LogEnd <= MaxSeq
  /\ net \in Seq([kind : {"pull", "bootstrap"}, seqs : SUBSET Seqs, repeated : BOOLEAN,
                  more : BOOLEAN, next : 0..MaxSeq, digest : Digests])
  /\ Len(net) <= MaxNet
  /\ scope \in [cursor : 0..MaxSeq, digest : Digests]
  /\ suspect \in BOOLEAN
  /\ health \in [kind : HealthKinds, attempts : 0..MaxHealAttempts]
  /\ stored \in [cursor : 0..MaxSeq, digest : Digests]
  /\ rows \in [Rows -> Versions \cup {0}]
  /\ record \in [attempts : 0..MaxHealAttempts, healed : BOOLEAN]
  /\ booting \in BOOLEAN /\ damaged \in BOOLEAN /\ pardoned \in BOOLEAN
  /\ faults \in 0..MaxFaults /\ damage \in 0..MaxDamage

\* The engine's cursor and digest are storage's unless it says it may not be, whichever way
\* transactions ended.
MemoryIsStorage == ~suspect /\ ~damaged => scope = stored

\* The stored digest is the digest of the stored rows.
DigestDescribesRows == ~damaged => stored.digest = FromRows(rows)

\* Each row whose last change is at or below c is held as that change left it.
HoldsUpTo(c) ==
  \A x \in Rows : LastSeq(x) > 0 /\ LastSeq(x) <= c =>
                    rows[x] = IF log[LastSeq(x)].op = "delete" THEN 0 ELSE LastSeq(x)

\* A scope that is trusted has not skipped a change.
TrustedHasEverything ==
  IsHealthy(health) /\ ~damaged /\ ~pardoned => HoldsUpTo(stored.cursor)

\* The stored cursor never moves back, unless damage led to a rebuild
\* (check_cursor_monotonic).
CursorMonotone == [][damage = 0 => stored'.cursor >= stored.cursor]_vars

\* The count the engine goes by is the durable one.
HealthIsStored == health = Restored(record)

\* Giving up is final, over restarts too, until the host clears the history.
EscalationSurvives ==
  [][health.kind = "Unhealable" /\ health'.kind # "Unhealable" => pardoned']_vars

\* Nothing is ever diagnosed as divergent that is not damaged.
NoFalseAlarm == damage = 0 => health.kind = "Healthy"

\* The rows and the position of the server.
CaughtUp == stored.cursor = LogEnd /\ rows = [x \in Rows |-> IF Live(x) THEN LastSeq(x) ELSE 0]

\* Once writes and faults stop, the device ends up with the server's rows.  Only
\* two things excuse it: healing has given up, or damage nothing has shown yet.
Converges ==
  <>[](\/ CaughtUp
       \/ health.kind = "Unhealable"
       \/ damaged /\ IsHealthy(health))
=============================================================================
