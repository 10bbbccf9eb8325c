-------------------------- MODULE SchemaMigration --------------------------
(***************************************************************************)
(* Server instances that start on one database and bring its schema up to  *)
(* date (db::migrate), while hosts write to the change log.                *)
(*                                                                         *)
(* Two locks matter.  The advisory lock MIGRATION_LOCK serialises          *)
(* migrations; it is only ever tried.  The lock on the table sync_changes  *)
(* is asked for by the first batch of statements and granted in order of   *)
(* arrival, so a migration that waits for an open write makes later writes *)
(* wait behind it; lock_timeout bounds that wait.                          *)
(*                                                                         *)
(* A host writes with two statements of two sessions, and its transaction  *)
(* commits once the second has returned: it waits on its client, which no  *)
(* deadlock detector sees.                                                 *)
(*                                                                         *)
(* An instance is one database session: a process that died comes back as  *)
(* another instance.  Each step is one statement; the wait between         *)
(* attempts is part of the next.  A session that breaks, as it does if     *)
(* unlocking fails, is a crash.                                            *)
(***************************************************************************)
EXTENDS Naturals, Sequences, FiniteSets

CONSTANTS
  Instances,    \* sessions that migrate
  Hosts,        \* hosts that write to the change log
  Found,        \* how many batches earlier versions of the server have applied
  MaxAttempts,  \* MIGRATION_ATTEMPTS
  MaxFaulty     \* bound: sessions that crash or meet a failure of the database

ASSUME MigrationAssumption ==
  /\ Found \subseteq 0..3
  /\ MaxAttempts \in Nat \ {0}
  /\ MaxFaulty \in Nat
  /\ Instances \cap (Hosts \X {1, 2}) = {}

\* The files under migrations/, in order.
Batches == 1..3

VARIABLES
  step,      \* where migrate is
  attempt,   \* attempts that ended contended
  batch,     \* the batch it is at
  missing,   \* sessions whose batch found its tables missing
  ended,     \* how the attempt ended, once it has
  limited,   \* sessions that have lock_timeout set
  advisory,  \* sessions that hold MIGRATION_LOCK
  applied,   \* database: the batches that have been applied
  holders,   \* lock on sync_changes: who holds it
  queue,     \* lock on sync_changes: who waits, in order
  writing,   \* statements a host has issued in its open transaction
  faulty     \* sessions that crashed or met a failure of the database

session       == <<step, attempt, batch, missing, ended, limited>>
locks         == <<holders, queue>>
migrationVars == <<session, advisory, applied, locks, writing, faulty>>

\* The schema may be there already, or an earlier version of it.
MigrationInit ==
  /\ step     = [i \in Instances |-> "start"]
  /\ attempt  = [i \in Instances |-> 0]
  /\ batch    = [i \in Instances |-> 1]
  /\ missing  = {}
  /\ ended    = [i \in Instances |-> "no"]
  /\ limited  = {}
  /\ advisory = {}
  /\ \E n \in Found : applied = 1..n
  /\ holders = {} /\ queue = <<>>
  /\ writing = [h \in Hosts |-> 0]
  /\ faulty = {}

Goto(i, from, to) == step[i] = from /\ step' = [step EXCEPT ![i] = to]

\* The attempt is over but for the statements that clean up after it.
End(i, how) == ended' = [ended EXCEPT ![i] = how]

-----------------------------------------------------------------------------
(* The lock on sync_changes.                                               *)

\* Writes share the table, DDL does not.
Grantable(q) == IF q \in Instances THEN holders = {} ELSE holders \cap Instances = {}

Grant ==
  /\ queue # <<>>
  /\ Grantable(Head(queue))
  /\ holders' = holders \cup {Head(queue)}
  /\ queue' = Tail(queue)
  /\ IF Head(queue) \in Instances
       THEN step' = [step EXCEPT ![Head(queue)] = "run"] ELSE UNCHANGED step
  /\ UNCHANGED <<attempt, batch, missing, ended, limited, advisory, applied, writing, faulty>>

\* i gives up its place in the queue.
LeaveQueue(i) ==
  \E n \in DOMAIN queue :
    /\ queue[n] = i
    /\ queue' = SubSeq(queue, 1, n - 1) \o SubSeq(queue, n + 1, Len(queue))

-----------------------------------------------------------------------------
(* Hosts.                                                                  *)

\* The first INSERT, or the second once the first has been granted.
Write(h) ==
  /\ 1 \in applied
  /\ writing[h] < 2
  /\ writing[h] = 1 => <<h, 1>> \in holders
  /\ writing' = [writing EXCEPT ![h] = @ + 1]
  /\ queue' = Append(queue, <<h, writing[h] + 1>>)
  /\ UNCHANGED <<session, advisory, applied, holders, faulty>>

\* The second statement has returned, so the transaction ends.
Commit(h) ==
  /\ <<h, 2>> \in holders
  /\ writing' = [writing EXCEPT ![h] = 0]
  /\ holders' = holders \ {<<h, 1>>, <<h, 2>>}
  /\ UNCHANGED <<session, advisory, applied, queue, faulty>>

-----------------------------------------------------------------------------
(* try_migrate, statement by statement.                                    *)

BeginUnlimited(i) ==
  /\ Goto(i, "start", "try")
  /\ UNCHANGED <<attempt, batch, missing, ended, limited, advisory, applied, locks, writing,
                 faulty>>

\* SET lock_timeout.
Begin(i) ==
  /\ Goto(i, "start", "try")
  /\ limited' = limited \cup {i}
  /\ UNCHANGED <<attempt, batch, missing, ended, advisory, applied, locks, writing, faulty>>

TryLockIgnored(i) ==
  /\ Goto(i, "try", "batch")
  /\ batch' = [batch EXCEPT ![i] = 1]
  /\ advisory' = advisory \cup {i}
  /\ UNCHANGED <<attempt, missing, ended, limited, applied, locks, writing, faulty>>

\* pg_try_advisory_lock: held elsewhere, and the attempt has lost.
TryLock(i) ==
  /\ \/ /\ advisory = {}
        /\ Goto(i, "try", "batch")
        /\ batch' = [batch EXCEPT ![i] = 1]
        /\ advisory' = {i}
        /\ UNCHANGED ended
     \/ /\ advisory # {}
        /\ Goto(i, "try", "reset")
        /\ End(i, "contended")
        /\ UNCHANGED <<batch, advisory>>
  /\ UNCHANGED <<attempt, missing, limited, applied, locks, writing, faulty>>

\* A batch starts: IF NOT EXISTS looks first, and the index of an existing table
\* needs the lock on it.
StartBatch(i) ==
  /\ missing' = IF batch[i] \in applied THEN missing \ {i} ELSE missing \cup {i}
  /\ IF batch[i] = 1 /\ 1 \in applied
       THEN Goto(i, "batch", "wait") /\ queue' = Append(queue, i)
       ELSE Goto(i, "batch", "run") /\ UNCHANGED queue
  /\ UNCHANGED <<attempt, batch, ended, limited, advisory, applied, holders, writing, faulty>>

\* It commits as a whole, unless its tables have appeared since it looked.
FinishBatch(i) ==
  /\ holders' = holders \ {i}
  /\ IF i \in missing /\ batch[i] \in applied
       THEN /\ Goto(i, "run", "unlock")
            /\ End(i, "failed")
            /\ UNCHANGED <<batch, applied>>
       ELSE /\ applied' = applied \cup {batch[i]}
            /\ IF batch[i] = 3
                 THEN Goto(i, "run", "unlock") /\ End(i, "done") /\ UNCHANGED batch
                 ELSE /\ Goto(i, "run", "batch")
                      /\ batch' = [batch EXCEPT ![i] = @ + 1]
                      /\ UNCHANGED ended
  /\ UNCHANGED <<attempt, missing, limited, advisory, queue, writing, faulty>>

LockTimeoutReturns(i) ==
  /\ i \in limited
  /\ Goto(i, "wait", "reset")
  /\ LeaveQueue(i)
  /\ End(i, "contended")
  /\ UNCHANGED <<attempt, batch, missing, limited, advisory, applied, holders, writing, faulty>>

\* lock_timeout fires: is_lock_unavailable, and the request leaves the queue.
LockTimeout(i) ==
  /\ i \in limited
  /\ Goto(i, "wait", "unlock")
  /\ LeaveQueue(i)
  /\ End(i, "contended")
  /\ UNCHANGED <<attempt, batch, missing, limited, advisory, applied, holders, writing, faulty>>

\* A statement fails for another reason: SET, the attempt to lock, or a batch.
StatementFails(i) ==
  /\ Cardinality(faulty) < MaxFaulty /\ faulty' = faulty \cup {i}
  /\ \/ Goto(i, "start", "failed")
     \/ Goto(i, "try", "reset")
     \/ Goto(i, "run", "unlock")
  /\ holders' = holders \ {i}
  /\ End(i, "failed")
  /\ UNCHANGED <<attempt, batch, missing, limited, advisory, applied, queue, writing>>

\* pg_advisory_unlock, whatever happened.
Unlock(i) ==
  /\ Goto(i, "unlock", "reset")
  /\ advisory' = advisory \ {i}
  /\ UNCHANGED <<attempt, batch, missing, ended, limited, applied, locks, writing, faulty>>

ResetContendedIsDone(i) ==
  /\ Goto(i, "reset", "serving")
  /\ limited' = limited \ {i}
  /\ UNCHANGED <<attempt, batch, missing, ended, advisory, applied, locks, writing, faulty>>

ResetRetriesForever(i) ==
  /\ Goto(i, "reset", IF ended[i] = "contended" THEN "start" ELSE "serving")
  /\ limited' = limited \ {i}
  /\ UNCHANGED <<attempt, batch, missing, ended, advisory, applied, locks, writing, faulty>>

ResetOneTooMany(i) ==
  /\ Goto(i, "reset", IF ended[i] = "contended" /\ attempt[i] < MaxAttempts
                        THEN "start" ELSE "failed")
  /\ attempt' = [attempt EXCEPT ![i] = @ + 1]
  /\ limited' = limited \ {i}
  /\ UNCHANGED <<batch, missing, ended, advisory, applied, locks, writing, faulty>>

\* migrate goes on from the attempt's outcome: the server is started, another attempt
\* follows, or the process ends.
Conclude(i) ==
  \/ ended[i] = "done" /\ Goto(i, "reset", "serving") /\ UNCHANGED attempt
  \/ ended[i] = "failed" /\ Goto(i, "reset", "failed") /\ UNCHANGED attempt
  \/ /\ ended[i] = "contended"
     /\ attempt' = [attempt EXCEPT ![i] = @ + 1]
     /\ Goto(i, "reset", IF attempt[i] + 1 < MaxAttempts THEN "start" ELSE "failed")

\* reset_lock_timeout.
Reset(i) ==
  /\ limited' = limited \ {i}
  /\ Conclude(i)
  /\ UNCHANGED <<batch, missing, ended, advisory, applied, locks, writing, faulty>>

\* The reset is best-effort: if it fails, migrate goes on as if it had not.
ResetFails(i) ==
  /\ Cardinality(faulty) < MaxFaulty /\ faulty' = faulty \cup {i}
  /\ Conclude(i)
  /\ UNCHANGED <<batch, missing, ended, limited, advisory, applied, locks, writing>>

\* The session ends with its process, at any point: its locks are released, and the
\* batch it was running has committed or not.
Crash(i) ==
  /\ Cardinality(faulty) < MaxFaulty /\ faulty' = faulty \cup {i}
  /\ step[i] \notin {"failed", "dead"}
  /\ step' = [step EXCEPT ![i] = "dead"]
  /\ limited' = limited \ {i}
  /\ advisory' = advisory \ {i}
  /\ holders' = holders \ {i}
  /\ IF step[i] = "wait" THEN LeaveQueue(i) ELSE UNCHANGED queue
  /\ \/ UNCHANGED applied
     \/ step[i] = "run" /\ applied' = applied \cup {batch[i]}
  /\ UNCHANGED <<attempt, batch, missing, ended, writing>>

Attempt(i) ==
  \/ Begin(i) \/ TryLock(i) \/ StartBatch(i) \/ FinishBatch(i) \/ LockTimeout(i)
  \/ Unlock(i) \/ Reset(i)

MigrationNext ==
  \/ Grant
  \/ \E h \in Hosts : Write(h) \/ Commit(h)
  \/ \E i \in Instances : Attempt(i) \/ StatementFails(i) \/ ResetFails(i) \/ Crash(i)

MigrationSpec == MigrationInit /\ [][MigrationNext]_migrationVars

\* Sessions make progress, lock_timeout fires, the lock manager grants what it can,
\* and a host whose transaction is open goes on with it.  No host has to start one.
MigrationFairness ==
  /\ WF_migrationVars(Grant)
  /\ \A i \in Instances : WF_migrationVars(Attempt(i))
  /\ \A h \in Hosts : WF_migrationVars(writing[h] = 1 /\ Write(h))
                      /\ WF_migrationVars(Commit(h))

-----------------------------------------------------------------------------
(* Properties.                                                             *)

Lockers == Instances \cup (Hosts \X {1, 2})

MigrationTypeOK ==
  /\ step \in [Instances -> {"start", "try", "batch", "wait", "run", "unlock", "reset",
                             "serving", "failed", "dead"}]
  /\ attempt \in [Instances -> 0..MaxAttempts]
  /\ batch \in [Instances -> Batches]
  /\ missing \subseteq Instances
  /\ ended \in [Instances -> {"no", "done", "contended", "failed"}]
  /\ limited \subseteq Instances
  /\ advisory \subseteq Instances
  /\ applied \subseteq Batches
  /\ holders \subseteq Lockers
  /\ queue \in Seq(Lockers)
  /\ writing \in [Hosts -> 0..2]
  /\ faulty \subseteq Instances

\* An instance that serves has the whole schema under it, whoever applied it and
\* whatever crashed on the way: main serves only after migrate returned Ok.
ServingHasSchema == \A i \in Instances : step[i] = "serving" => applied = Batches

\* Outside an attempt a session keeps nothing: not MIGRATION_LOCK, not a place in the
\* queue for sync_changes ("this session holds nothing while it waits, so it delays
\* nobody"), and not its lock_timeout, unless the database refused to reset it.
NothingKept ==
  \A i \in Instances :
    step[i] \in {"start", "serving", "failed", "dead"} =>
      /\ i \notin advisory
      /\ i \notin holders
      /\ ~\E n \in DOMAIN queue : queue[n] = i
      /\ i \in limited => i \in faulty

\* Instances that start at once do not fail each other: migrate gives up after its
\* attempts or for a failure of the database, never because two created one table.
FailsForCause ==
  \A i \in Instances :
    step[i] = "failed" => attempt[i] = MaxAttempts \/ i \in faulty

\* A starting instance cannot wedge a running one: a write that was begun ends,
\* however many migrations queue for the table it holds.
WritesEnd == \A h \in Hosts : (writing[h] > 0) ~> (writing[h] = 0)

\* A start is not silently stuck: it serves, fails or dies.
StartsSettle ==
  \A i \in Instances : (step[i] = "start") ~> (step[i] \in {"serving", "failed", "dead"})
=============================================================================
