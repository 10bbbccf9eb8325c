---------------------------- MODULE ServiceProofs ----------------------------
(***************************************************************************)
(* The safety properties of starting instances and of the pulls they       *)
(* serve, for any number of instances, hosts, attempts, faults and         *)
(* requests, and any tokens and scopes.                                    *)
(*                                                                         *)
(* MIInv strengthens them: MIGRATION_LOCK is held by exactly the session   *)
(* that is between TryLock and Unlock, so no two migrations are under way; *)
(* hence what a batch saw when it started still holds when it ends; a      *)
(* session is in the queue for sync_changes, or holds it, only where its   *)
(* program counter says so.                                                *)
(*                                                                         *)
(* GateInv strengthens those of the gate: what each request knows at each  *)
(* of its stages, and that the processes handling it serve.                *)
(***************************************************************************)
EXTENDS Service, TLAPS

\* The batches that come before batch b.
Before(b) == 1..(b - 1)

Working == {"batch", "wait", "run", "unlock"}

\* MIGRATION_LOCK is held where the program counter says so, by one session.
LockInv ==
  /\ \A i \in Instances : (i \in advisory) <=> (step[i] \in Working)
  /\ \A i, j \in Instances : i \in advisory /\ j \in advisory => i = j

\* So is the lock on sync_changes, and a session waits for it once.
QueueInv ==
  /\ \A n \in DOMAIN queue : queue[n] \in Instances => step[queue[n]] = "wait"
  /\ \A n, m \in DOMAIN queue : queue[n] \in Instances /\ queue[n] = queue[m] => n = m
  /\ \A i \in Instances : i \in holders => step[i] = "run"

\* Batches are applied in order, nobody else creates what a batch found missing, and
\* an attempt that ended well left a whole schema.
ProgressInv ==
  \A i \in Instances :
    /\ step[i] \in {"batch", "wait", "run"} => Before(batch[i]) \subseteq applied
    /\ step[i] \in {"wait", "run"} /\ i \in missing => batch[i] \notin applied
    /\ ended[i] = "done" => applied = Batches
    /\ step[i] = "serving" => ended[i] = "done"

\* How attempts end.
EndInv ==
  \A i \in Instances :
    /\ step[i] \notin {"serving", "failed", "dead"} => attempt[i] < MaxAttempts
    /\ ended[i] = "failed" => i \in faulty
    /\ step[i] \in {"start", "serving", "failed", "dead"} /\ i \in limited => i \in faulty
    /\ step[i] = "failed" => attempt[i] = MaxAttempts \/ i \in faulty

MIInv == MigrationTypeOK /\ LockInv /\ QueueInv /\ ProgressInv /\ EndInv

\* What the numbers of the batches are used for.
LEMMA BatchFacts ==
  /\ 1 \in Batches
  /\ Before(1) = {}
  /\ Before(3) \cup {3} = Batches
  /\ \A b \in Batches : b # 3 => b + 1 \in Batches /\ Before(b + 1) = Before(b) \cup {b}
  BY DEF Batches, Before

LEMMA InitMIInv == MigrationInit => MIInv
  BY MigrationAssumption
  DEF MigrationInit, MIInv, MigrationTypeOK, LockInv, QueueInv, ProgressInv, EndInv, Working,
      Batches, Lockers

LEMMA BeginStep ==
  ASSUME NEW i \in Instances, MIInv, Begin(i)
  PROVE  MIInv'
  BY DEF MIInv, MigrationTypeOK, LockInv, QueueInv, ProgressInv, EndInv, Begin, Goto, locks,
         Working

LEMMA TryLockStep ==
  ASSUME NEW i \in Instances, MIInv, TryLock(i)
  PROVE  MIInv'
<1>1. MigrationTypeOK'
  <2>1. CASE advisory = {}
    BY <2>1, BatchFacts DEF MIInv, MigrationTypeOK, TryLock, Goto, locks
  <2>2. CASE advisory # {}
    BY <2>2 DEF MIInv, MigrationTypeOK, TryLock, Goto, End, locks
  <2> QED
    BY <2>1, <2>2
<1>2. LockInv'
  BY DEF MIInv, MigrationTypeOK, LockInv, TryLock, Goto, End, Working
<1>3. QueueInv'
  BY DEF MIInv, MigrationTypeOK, QueueInv, TryLock, Goto, End, locks
<1>4. ProgressInv'
  BY BatchFacts DEF MIInv, MigrationTypeOK, ProgressInv, TryLock, Goto, End
<1>5. EndInv'
  BY DEF MIInv, MigrationTypeOK, EndInv, TryLock, Goto, End
<1> QED
  BY <1>1, <1>2, <1>3, <1>4, <1>5 DEF MIInv

LEMMA StartBatchStep ==
  ASSUME NEW i \in Instances, MIInv, StartBatch(i)
  PROVE  MIInv'
<1>1. MigrationTypeOK'
  <2>1. queue' \in Seq(Lockers)
    <3>1. i \in Lockers
      BY DEF Lockers
    <3>2. queue' = queue \/ queue' = Append(queue, i)
      BY DEF StartBatch
    <3>3. queue \in Seq(Lockers)
      BY DEF MIInv, MigrationTypeOK
    <3> QED
      BY <3>1, <3>2, <3>3
  <2> QED
    BY <2>1 DEF MIInv, MigrationTypeOK, StartBatch, Goto
<1>2. LockInv'
  BY DEF MIInv, MigrationTypeOK, LockInv, StartBatch, Goto, Working
<1>3. QueueInv'
  <2>1. /\ step[i] = "batch"
        /\ step' = [step EXCEPT ![i] = "wait"] \/ step' = [step EXCEPT ![i] = "run"]
        /\ holders' = holders
    BY DEF MIInv, MigrationTypeOK, StartBatch, Goto
  <2>2. \A n \in DOMAIN queue : queue[n] # i
    BY <2>1 DEF MIInv, QueueInv
  <2>3. CASE queue' = queue
    BY <2>1, <2>2, <2>3 DEF MIInv, MigrationTypeOK, QueueInv
  <2>4. CASE queue' = Append(queue, i) /\ step' = [step EXCEPT ![i] = "wait"]
    <3>1. /\ DOMAIN queue' = 1..(Len(queue) + 1) /\ DOMAIN queue = 1..Len(queue)
          /\ Len(queue) \in Nat
          /\ \A n \in DOMAIN queue : queue'[n] = queue[n]
          /\ queue'[Len(queue) + 1] = i
      BY <2>4 DEF MIInv, MigrationTypeOK
    <3> QED
      BY <2>1, <2>2, <2>4, <3>1 DEF MIInv, MigrationTypeOK, QueueInv
  <2> QED
    BY <2>3, <2>4 DEF StartBatch, Goto
<1>4. ProgressInv'
  BY DEF MIInv, MigrationTypeOK, ProgressInv, StartBatch, Goto
<1>5. EndInv'
  BY DEF MIInv, MigrationTypeOK, EndInv, StartBatch, Goto
<1> QED
  BY <1>1, <1>2, <1>3, <1>4, <1>5 DEF MIInv

LEMMA FinishBatchStep ==
  ASSUME NEW i \in Instances, MIInv, FinishBatch(i)
  PROVE  MIInv'
<1>0. step[i] = "run" /\ ~(i \in missing /\ batch[i] \in applied)
  BY DEF MIInv, ProgressInv, FinishBatch, Goto
<1>a. /\ holders' = holders \ {i}
      /\ applied' = applied \cup {batch[i]}
      /\ \/ /\ batch[i] = 3
            /\ step' = [step EXCEPT ![i] = "unlock"]
            /\ ended' = [ended EXCEPT ![i] = "done"]
            /\ batch' = batch
         \/ /\ batch[i] # 3
            /\ step' = [step EXCEPT ![i] = "batch"]
            /\ batch' = [batch EXCEPT ![i] = @ + 1]
            /\ ended' = ended
      /\ UNCHANGED <<attempt, missing, limited, advisory, queue, writing, faulty>>
  BY <1>0 DEF FinishBatch, Goto, End
<1>1. MigrationTypeOK'
  <2>1. batch[i] \in Batches /\ applied' \subseteq Batches /\ holders' \subseteq Lockers
    BY <1>a DEF MIInv, MigrationTypeOK
  <2>2. batch' \in [Instances -> Batches]
    BY <1>a, <2>1, BatchFacts DEF MIInv, MigrationTypeOK
  <2> QED
    BY <1>a, <2>1, <2>2 DEF MIInv, MigrationTypeOK
<1>2. LockInv'
  BY <1>0, <1>a DEF MIInv, MigrationTypeOK, LockInv, Working
<1>3. QueueInv'
  BY <1>0, <1>a DEF MIInv, MigrationTypeOK, QueueInv
<1>4. ProgressInv'
  <2>1. \A j \in Instances : j # i => step[j] \notin {"batch", "wait", "run"}
    BY <1>0 DEF MIInv, LockInv, Working
  <2> QED
    BY <1>0, <1>a, <2>1, BatchFacts DEF MIInv, MigrationTypeOK, ProgressInv
<1>5. EndInv'
  BY <1>0, <1>a DEF MIInv, MigrationTypeOK, EndInv
<1> QED
  BY <1>1, <1>2, <1>3, <1>4, <1>5 DEF MIInv

\* What one sequence after another is.
LEMMA Joined ==
  ASSUME NEW S, NEW s \in Seq(S), NEW t \in Seq(S)
  PROVE  /\ s \o t \in Seq(S)
         /\ Len(s \o t) = Len(s) + Len(t)
         /\ \A n \in 1..Len(s) : (s \o t)[n] = s[n]
         /\ \A n \in (Len(s) + 1)..(Len(s) + Len(t)) : (s \o t)[n] = t[n - Len(s)]
  OBVIOUS

\* A session that leaves the queue is not in it any more, and the others keep their order.
LEMMA LeaveQueueStep ==
  ASSUME NEW i \in Instances, MIInv, LeaveQueue(i)
  PROVE  /\ queue' \in Seq(Lockers)
         /\ \A n \in DOMAIN queue' : \E m \in DOMAIN queue : queue'[n] = queue[m] /\ queue[m] # i
         /\ \A n, m \in DOMAIN queue' :
              queue'[n] \in Instances /\ queue'[n] = queue'[m] => n = m
<1>1. PICK k \in DOMAIN queue :
        /\ queue[k] = i
        /\ queue' = SubSeq(queue, 1, k - 1) \o SubSeq(queue, k + 1, Len(queue))
  BY DEF LeaveQueue
<1>2. queue \in Seq(Lockers) /\ Len(queue) \in Nat /\ k \in 1..Len(queue)
  BY DEF MIInv, MigrationTypeOK
<1> DEFINE front == SubSeq(queue, 1, k - 1)
           back  == SubSeq(queue, k + 1, Len(queue))
<1>a. /\ front \in Seq(Lockers) /\ Len(front) = k - 1
      /\ \A n \in 1..(k - 1) : front[n] = queue[n]
  BY <1>2
<1>b. /\ back \in Seq(Lockers) /\ Len(back) = Len(queue) - k
      /\ \A n \in 1..(Len(queue) - k) : back[n] = queue[k + n]
  BY <1>2
<1> HIDE DEF front, back
<1>c. queue' = front \o back
  BY <1>1 DEF front, back
<1>3. /\ queue' \in Seq(Lockers)
      /\ Len(queue') = Len(queue) - 1
      /\ \A n \in 1..Len(queue') : queue'[n] = queue[IF n < k THEN n ELSE n + 1]
  <2>0. /\ queue' \in Seq(Lockers)
        /\ Len(queue') = Len(front) + Len(back)
        /\ \A n \in 1..Len(front) : queue'[n] = front[n]
        /\ \A n \in (Len(front) + 1)..(Len(front) + Len(back)) :
             queue'[n] = back[n - Len(front)]
    BY <1>a, <1>b, <1>c, Joined
  <2>1. (k - 1) + (Len(queue) - k) = Len(queue) - 1 /\ (k - 1) + 1 = k
    BY <1>2
  <2>2. \A n \in 1..(k - 1) : queue'[n] = front[n]
    BY <1>a, <2>0
  <2>3. \A n \in k..(Len(queue) - 1) : queue'[n] = back[n - (k - 1)]
    BY <1>a, <1>b, <2>0, <2>1
  <2>4. \A n \in k..(Len(queue) - 1) :
          n - (k - 1) \in 1..(Len(queue) - k) /\ k + (n - (k - 1)) = n + 1
    BY <1>2
  <2>5. \A n \in k..(Len(queue) - 1) : queue'[n] = queue[n + 1]
    <3> SUFFICES ASSUME NEW n \in k..(Len(queue) - 1) PROVE queue'[n] = queue[n + 1]
      OBVIOUS
    <3>1. back[n - (k - 1)] = queue[k + (n - (k - 1))]
      BY <1>b, <2>4
    <3> QED
      BY <2>3, <2>4, <3>1
  <2>6. Len(queue') = Len(queue) - 1
    BY <1>a, <1>b, <2>0, <2>1
  <2>7. \A n \in 1..(k - 1) : queue'[n] = queue[n]
    BY <1>a, <2>2
  <2>8. ASSUME NEW n \in 1..Len(queue')
        PROVE  queue'[n] = queue[IF n < k THEN n ELSE n + 1]
    <3>1. CASE n < k
      <4>1. n \in 1..(k - 1)
        BY <1>2, <2>6, <3>1
      <4> QED
        BY <2>7, <3>1, <4>1
    <3>2. CASE ~(n < k)
      <4>1. n \in k..(Len(queue) - 1)
        BY <1>2, <2>6, <3>2
      <4> QED
        BY <2>5, <3>2, <4>1
    <3> QED
      BY <3>1, <3>2
  <2> QED
    BY <2>0, <2>6, <2>8
<1>4. \A n, m \in DOMAIN queue : queue[n] \in Instances /\ queue[n] = queue[m] => n = m
  BY DEF MIInv, QueueInv
<1>5. \A n \in DOMAIN queue' : \E m \in DOMAIN queue : queue'[n] = queue[m] /\ queue[m] # i
  <2> SUFFICES ASSUME NEW n \in 1..Len(queue')
               PROVE  \E m \in DOMAIN queue : queue'[n] = queue[m] /\ queue[m] # i
    BY <1>3
  <2> DEFINE m == IF n < k THEN n ELSE n + 1
  <2>1. m \in DOMAIN queue /\ m # k /\ queue'[n] = queue[m]
    BY <1>2, <1>3
  <2>2. queue[m] # i
    BY <1>1, <1>4, <2>1
  <2> HIDE DEF m
  <2> QED
    BY <2>1, <2>2
<1>6. \A n, m \in DOMAIN queue' : queue'[n] \in Instances /\ queue'[n] = queue'[m] => n = m
  <2> SUFFICES ASSUME NEW n \in 1..Len(queue'), NEW m \in 1..Len(queue'),
                      queue'[n] \in Instances, queue'[n] = queue'[m]
               PROVE  n = m
    BY <1>3
  <2> DEFINE at(q) == IF q < k THEN q ELSE q + 1
  <2>1. at(n) \in DOMAIN queue /\ at(m) \in DOMAIN queue
    BY <1>2, <1>3
  <2>2. queue'[n] = queue[at(n)] /\ queue'[m] = queue[at(m)]
    BY <1>3
  <2>3. at(n) = at(m)
    BY <1>4, <2>1, <2>2
  <2> QED
    BY <1>2, <1>3, <2>3
<1> QED
  BY <1>3, <1>5, <1>6

LEMMA LockTimeoutStep ==
  ASSUME NEW i \in Instances, MIInv, LockTimeout(i)
  PROVE  MIInv'
<1>0. /\ queue' \in Seq(Lockers)
      /\ \A n \in DOMAIN queue' : \E m \in DOMAIN queue : queue'[n] = queue[m] /\ queue[m] # i
      /\ \A n, m \in DOMAIN queue' : queue'[n] \in Instances /\ queue'[n] = queue'[m] => n = m
  BY LeaveQueueStep DEF LockTimeout
<1>1. MigrationTypeOK'
  BY <1>0 DEF MIInv, MigrationTypeOK, LockTimeout, Goto, End, Lockers
<1>2. LockInv'
  BY DEF MIInv, MigrationTypeOK, LockInv, LockTimeout, Goto, End, Working
<1>3. QueueInv'
  BY <1>0 DEF MIInv, MigrationTypeOK, QueueInv, LockTimeout, Goto, End
<1>4. ProgressInv'
  BY DEF MIInv, MigrationTypeOK, ProgressInv, LockTimeout, Goto, End
<1>5. EndInv'
  BY DEF MIInv, MigrationTypeOK, EndInv, LockTimeout, Goto, End
<1> QED
  BY <1>1, <1>2, <1>3, <1>4, <1>5 DEF MIInv

LEMMA GrantStep ==
  ASSUME MIInv, Grant
  PROVE  MIInv'
<1> DEFINE q == Head(queue)
<1>1. /\ queue \in Seq(Lockers) /\ Len(queue) \in Nat \ {0} /\ q \in Lockers /\ q = queue[1]
      /\ queue' \in Seq(Lockers) /\ Len(queue') = Len(queue) - 1
      /\ \A n \in 1..Len(queue') : queue'[n] = queue[n + 1]
  BY DEF MIInv, MigrationTypeOK, Grant
<1>2. q \in Instances => step[q] = "wait"
  BY <1>1 DEF MIInv, QueueInv
<1>3. /\ holders' = holders \cup {q}
      /\ q \in Instances => step' = [step EXCEPT ![q] = "run"]
      /\ q \notin Instances => step' = step
      /\ UNCHANGED <<attempt, batch, missing, ended, limited, advisory, applied, writing, faulty>>
  BY DEF Grant
<1> HIDE DEF q
<1>4. MigrationTypeOK'
  BY <1>1, <1>3 DEF MIInv, MigrationTypeOK
<1>5. LockInv'
  BY <1>2, <1>3 DEF MIInv, MigrationTypeOK, LockInv, Working
<1>6. QueueInv'
  <2>1. \A n, m \in 1..Len(queue) : queue[n] \in Instances /\ queue[n] = queue[m] => n = m
    BY <1>1 DEF MIInv, QueueInv
  <2>2. \A n \in DOMAIN queue' : queue'[n] \in Instances => step'[queue'[n]] = "wait"
    <3> SUFFICES ASSUME NEW n \in 1..Len(queue'), queue'[n] \in Instances
                 PROVE  step'[queue'[n]] = "wait"
      BY <1>1
    <3>1. n + 1 \in 1..Len(queue) /\ n + 1 # 1 /\ 1 \in 1..Len(queue)
      BY <1>1
    <3>2. queue'[n] = queue[n + 1] /\ queue'[n] # q
      BY <1>1, <2>1, <3>1
    <3>3. step[queue[n + 1]] = "wait"
      BY <1>1, <3>1, <3>2 DEF MIInv, QueueInv
    <3> QED
      BY <1>3, <3>2, <3>3 DEF MIInv, MigrationTypeOK
  <2>3. \A n, m \in DOMAIN queue' : queue'[n] \in Instances /\ queue'[n] = queue'[m] => n = m
    <3> SUFFICES ASSUME NEW n \in 1..Len(queue'), NEW m \in 1..Len(queue'),
                        queue'[n] \in Instances, queue'[n] = queue'[m]
                 PROVE  n = m
      BY <1>1
    <3>1. n + 1 \in 1..Len(queue) /\ m + 1 \in 1..Len(queue)
      BY <1>1
    <3>2. n + 1 = m + 1
      BY <1>1, <2>1, <3>1
    <3> QED
      BY <3>2
  <2>4. \A i \in Instances : i \in holders' => step'[i] = "run"
    BY <1>3 DEF MIInv, MigrationTypeOK, QueueInv
  <2> QED
    BY <2>2, <2>3, <2>4 DEF QueueInv
<1>7. ProgressInv'
  BY <1>2, <1>3 DEF MIInv, MigrationTypeOK, ProgressInv
<1>8. EndInv'
  BY <1>2, <1>3 DEF MIInv, MigrationTypeOK, EndInv
<1> QED
  BY <1>4, <1>5, <1>6, <1>7, <1>8 DEF MIInv

LEMMA HostStep ==
  ASSUME NEW h \in Hosts, MIInv, Write(h) \/ Commit(h)
  PROVE  MIInv'
<1>1. /\ UNCHANGED <<step, attempt, batch, missing, ended, limited, advisory, applied, faulty>>
      /\ holders' \subseteq holders
  BY DEF Write, Commit, session
<1>a. writing[h] \in 0..2 /\ writing \in [Hosts -> 0..2]
  BY DEF MIInv, MigrationTypeOK
<1>b. writing' \in [Hosts -> 0..2]
  <2>1. CASE Write(h)
    <3>1. writing[h] + 1 \in 0..2 /\ writing' = [writing EXCEPT ![h] = writing[h] + 1]
      BY <1>a, <2>1 DEF Write
    <3> QED
      BY <1>a, <3>1
  <2>2. CASE Commit(h)
    BY <1>a, <2>2 DEF Commit
  <2> QED
    BY <2>1, <2>2
<1>2. \/ queue' = queue
      \/ \E s \in {1, 2} : queue' = Append(queue, <<h, s>>)
  <2>1. CASE Write(h)
    <3>1. writing[h] + 1 \in {1, 2}
      BY <1>a, <2>1 DEF Write
    <3> QED
      BY <2>1, <3>1 DEF Write
  <2>2. CASE Commit(h)
    BY <2>2 DEF Commit
  <2> QED
    BY <2>1, <2>2
<1>3. queue \in Seq(Lockers) /\ Len(queue) \in Nat
  BY DEF MIInv, MigrationTypeOK
<1>4. queue' \in Seq(Lockers) /\ QueueInv'
  <2>1. CASE queue' = queue
    BY <1>1, <1>3, <2>1 DEF MIInv, QueueInv
  <2>2. CASE \E s \in {1, 2} : queue' = Append(queue, <<h, s>>)
    <3>1. PICK s \in {1, 2} : queue' = Append(queue, <<h, s>>)
      BY <2>2
    <3> DEFINE q == <<h, s>>
    <3>2. q \in Lockers /\ q \notin Instances
      BY MigrationAssumption DEF Lockers
    <3>3. queue' = Append(queue, q)
      BY <3>1
    <3> HIDE DEF q
    <3>4. /\ queue' \in Seq(Lockers)
          /\ DOMAIN queue' = 1..(Len(queue) + 1) /\ DOMAIN queue = 1..Len(queue)
          /\ \A n \in DOMAIN queue : queue'[n] = queue[n]
          /\ queue'[Len(queue) + 1] = q
      BY <1>3, <3>2, <3>3
    <3> QED
      BY <1>1, <1>3, <3>2, <3>4 DEF MIInv, QueueInv
  <2> QED
    BY <1>2, <2>1, <2>2
<1>5. MigrationTypeOK'
  BY <1>1, <1>b, <1>4 DEF MIInv, MigrationTypeOK
<1>6. LockInv' /\ ProgressInv' /\ EndInv'
  BY <1>1 DEF MIInv, LockInv, ProgressInv, EndInv
<1> QED
  BY <1>4, <1>5, <1>6 DEF MIInv

LEMMA UnlockStep ==
  ASSUME NEW i \in Instances, MIInv, Unlock(i) \/ StatementFails(i)
  PROVE  MIInv'
<1>1. MigrationTypeOK'
  BY DEF MIInv, MigrationTypeOK, Unlock, StatementFails, Goto, End, locks
<1>2. LockInv'
  BY DEF MIInv, MigrationTypeOK, LockInv, Unlock, StatementFails, Goto, Working
<1>3. QueueInv'
  BY DEF MIInv, MigrationTypeOK, QueueInv, Unlock, StatementFails, Goto, locks
<1>4. ProgressInv'
  BY DEF MIInv, MigrationTypeOK, ProgressInv, Unlock, StatementFails, Goto, End
<1>5. EndInv'
  BY DEF MIInv, MigrationTypeOK, EndInv, Unlock, StatementFails, Goto, End
<1> QED
  BY <1>1, <1>2, <1>3, <1>4, <1>5 DEF MIInv

LEMMA ResetStep ==
  ASSUME NEW i \in Instances, MIInv, Reset(i) \/ ResetFails(i)
  PROVE  MIInv'
<1>0. attempt[i] \in 0..MaxAttempts /\ attempt[i] < MaxAttempts /\ MaxAttempts \in Nat
  BY MigrationAssumption DEF MIInv, MigrationTypeOK, EndInv, Reset, ResetFails, Conclude, Goto
<1>1. MigrationTypeOK'
  <2>1. attempt' \in [Instances -> 0..MaxAttempts]
    <3>1. attempt \in [Instances -> 0..MaxAttempts] /\ attempt[i] + 1 \in 0..MaxAttempts
      BY <1>0 DEF MIInv, MigrationTypeOK
    <3>2. attempt' = attempt \/ attempt' = [attempt EXCEPT ![i] = attempt[i] + 1]
      BY DEF Reset, ResetFails, Conclude
    <3> QED
      BY <3>1, <3>2
  <2> QED
    BY <2>1 DEF MIInv, MigrationTypeOK, Reset, ResetFails, Conclude, Goto, locks
<1>2. LockInv'
  BY DEF MIInv, MigrationTypeOK, LockInv, Reset, ResetFails, Conclude, Goto, Working
<1>3. QueueInv'
  BY DEF MIInv, MigrationTypeOK, QueueInv, Reset, ResetFails, Conclude, Goto, locks
<1>4. ProgressInv'
  BY DEF MIInv, MigrationTypeOK, ProgressInv, Reset, ResetFails, Conclude, Goto
<1>5. EndInv'
  BY <1>0 DEF MIInv, MigrationTypeOK, EndInv, Reset, ResetFails, Conclude, Goto
<1> QED
  BY <1>1, <1>2, <1>3, <1>4, <1>5 DEF MIInv

LEMMA CrashStep ==
  ASSUME NEW i \in Instances, MIInv, Crash(i)
  PROVE  MIInv'
<1>0. /\ queue' \in Seq(Lockers)
      /\ \A n \in DOMAIN queue' : \E m \in DOMAIN queue : queue'[n] = queue[m] /\ queue[m] # i
      /\ \A n, m \in DOMAIN queue' : queue'[n] \in Instances /\ queue'[n] = queue'[m] => n = m
  <2>1. CASE step[i] = "wait"
    BY <2>1, LeaveQueueStep DEF Crash
  <2>2. CASE step[i] # "wait"
    BY <2>2 DEF Crash, MIInv, MigrationTypeOK, QueueInv
  <2> QED
    BY <2>1, <2>2
<1>1. MigrationTypeOK'
  BY <1>0 DEF MIInv, MigrationTypeOK, Crash
<1>2. LockInv'
  BY DEF MIInv, MigrationTypeOK, LockInv, Crash, Working
<1>3. QueueInv'
  BY <1>0 DEF MIInv, MigrationTypeOK, QueueInv, Crash
<1>4. ProgressInv'
  <2>1. step[i] = "run" => \A j \in Instances : j # i => step[j] \notin {"batch", "wait", "run"}
    BY DEF MIInv, LockInv, Working
  <2>2. \/ applied' = applied
        \/ step[i] = "run" /\ applied' = applied \cup {batch[i]}
    BY DEF Crash
  <2> QED
    BY <2>1, <2>2 DEF MIInv, MigrationTypeOK, ProgressInv, Crash
<1>5. EndInv'
  BY DEF MIInv, MigrationTypeOK, EndInv, Crash
<1> QED
  BY <1>1, <1>2, <1>3, <1>4, <1>5 DEF MIInv

-----------------------------------------------------------------------------
(* The composition.  Every step of Service is one of SchemaMigration, or leaves *)
(* its variables alone.                                                         *)

LEMMA MIInvStep == MIInv /\ [MigrationNext]_migrationVars => MIInv'
<1> SUFFICES ASSUME MIInv, [MigrationNext]_migrationVars
             PROVE  MIInv'
  OBVIOUS
<1>1. CASE Grant
  BY <1>1, GrantStep
<1>2. CASE \E h \in Hosts : Write(h) \/ Commit(h)
  BY <1>2, HostStep
<1>3. CASE \E i \in Instances : Attempt(i) \/ StatementFails(i) \/ ResetFails(i) \/ Crash(i)
  BY <1>3, BeginStep, TryLockStep, StartBatchStep, FinishBatchStep, LockTimeoutStep,
     UnlockStep, ResetStep, CrashStep
  DEF Attempt
<1>4. CASE UNCHANGED migrationVars
  BY <1>4 DEF migrationVars, session, locks, MIInv, MigrationTypeOK, LockInv, QueueInv,
             ProgressInv, EndInv
<1> QED
  BY <1>1, <1>2, <1>3, <1>4 DEF MigrationNext

\* Serving pulls, cutting scopes and the passing of time do not touch the migration:
\* the service implements SchemaMigration on its own.
THEOREM ServiceMigrates == Spec => MigrationSpec
<1>1. Init => MigrationInit
  BY DEF Init
<1>2. [Next]_vars => [MigrationNext]_migrationVars
  BY DEF Next, vars, LockManager, Host, Start, Die, Serve, Handle, Operate, Pass, MigrationNext
<1> QED
  BY <1>1, <1>2, PTL DEF Spec, MigrationSpec

\* The inductive invariant holds of every execution of the service.
THEOREM ServiceInvariant == Spec => []MIInv
<1>1. MigrationSpec => []MIInv
  BY InitMIInv, MIInvStep, PTL DEF MigrationSpec
<1> QED
  BY <1>1, ServiceMigrates, PTL

\* An instance serves pulls only over the whole schema, however many instances start at
\* once and wherever some of them die.
THEOREM ServiceServingHasSchema == Spec => []ServingHasSchema
<1>1. MIInv => ServingHasSchema
  BY DEF MIInv, ProgressInv, ServingHasSchema
<1> QED
  BY <1>1, ServiceInvariant, PTL

\* Between attempts, and once it serves, a session holds no lock that the migration took,
\* waits for none, and has its lock_timeout reset unless the database refused that.
THEOREM ServiceNothingKept == Spec => []NothingKept
<1>1. MIInv => NothingKept
  BY DEF MIInv, LockInv, QueueInv, EndInv, Working, NothingKept
<1> QED
  BY <1>1, ServiceInvariant, PTL

\* No instance fails because another one was migrating: only exhausted attempts or a
\* failure of the database end a start.
THEOREM ServiceFailsForCause == Spec => []FailsForCause
<1>1. MIInv => FailsForCause
  BY DEF MIInv, EndInv, FailsForCause
<1> QED
  BY <1>1, ServiceInvariant, PTL

-----------------------------------------------------------------------------
(* The gate.  Each request carries the evidence its answer rests on.       *)

RequestRecord ==
  [by : SUBSET Instances, stage : {"check", "read", "done"}, status : {0, 200, 401, 403, 500},
   token : Tokens, scope : Names, expired : BOOLEAN, open : BOOLEAN, cut : BOOLEAN]

\* What is known of a request, stage by stage: it reached the blocklist with a good
\* token, the page with an open scope, and its answer with a cause.
Evidence(q) ==
  /\ q.stage \in {"check", "read"} => Grants(q.token, q.scope) /\ ~q.expired /\ q.status = 0
  /\ q.stage = "check" => IF q.scope \in blocked THEN q.cut ELSE q.open
  /\ q.stage = "read" => q.open
  /\ q.stage = "done" =>
       /\ q.by = {}
       /\ q.status \in {200, 500} => Grants(q.token, q.scope) /\ ~q.expired /\ q.open
       /\ q.status = 401 => q.expired /\ q.token.signed
       /\ q.status = 403 => q.cut \/ ~Grants(q.token, q.scope)

\* The processes that handle a request serve.
HandlersServe(q) == \A i \in q.by : step[i] = "serving"

RequestInv(q) == q = Idle \/ (q \in RequestRecord /\ Evidence(q) /\ HandlersServe(q))

GateInv ==
  /\ now \in 1..MaxNow
  /\ blocked \subseteq ScopeIds
  /\ req = [r \in Requests |-> req[r]]
  /\ \A r \in Requests : RequestInv(req[r])

\* What verify says of a token.
LEMMA VerifyDecides ==
  ASSUME NEW t \in Tokens, NEW n
  PROVE  /\ (Verify(t) = "ok" /\ n \in t.scopes) => Grants(t, n) /\ ~Expired(t)
         /\ (Verify(t) = "Expired") => Expired(t) /\ t.signed
         /\ (Verify(t) \notin {"ok", "Expired"}) => ~Grants(t, n)
<1>1. CASE ~t.wellFormed
  <2>1. Verify(t) = "Malformed"
    BY <1>1 DEF Verify
  <2> QED
    BY <1>1, <2>1 DEF Grants
<1>2. CASE t.wellFormed /\ t.alg # Algorithm
  <2>1. Verify(t) = "WrongAlgorithm"
    BY <1>2 DEF Verify
  <2> QED
    BY <1>2, <2>1 DEF Grants
<1>3. CASE t.wellFormed /\ t.alg = Algorithm /\ ~t.signed
  <2>1. Verify(t) = "BadSignature"
    BY <1>3 DEF Verify
  <2> QED
    BY <1>3, <2>1 DEF Grants
<1>4. CASE t.wellFormed /\ t.alg = Algorithm /\ t.signed /\ Expired(t)
  <2>1. Verify(t) = "Expired"
    BY <1>4 DEF Verify
  <2> QED
    BY <1>4, <2>1
<1>5. CASE t.wellFormed /\ t.alg = Algorithm /\ t.signed /\ ~Expired(t) /\ t.scopes = {}
  <2>1. Verify(t) = "NoScopes"
    BY <1>5 DEF Verify
  <2> QED
    BY <1>5, <2>1 DEF Grants
<1>6. CASE /\ t.wellFormed /\ t.alg = Algorithm /\ t.signed /\ ~Expired(t) /\ t.scopes # {}
           /\ ~(t.scopes \subseteq ScopeIds)
  <2>1. Verify(t) = "Malformed"
    BY <1>6 DEF Verify
  <2> QED
    BY <1>6, <2>1 DEF Grants
<1>7. CASE /\ t.wellFormed /\ t.alg = Algorithm /\ t.signed /\ ~Expired(t) /\ t.scopes # {}
           /\ t.scopes \subseteq ScopeIds
  <2>1. Verify(t) = "ok"
    BY <1>7 DEF Verify
  <2> QED
    BY <1>7, <2>1 DEF Grants
<1> QED
  BY <1>1, <1>2, <1>3, <1>4, <1>5, <1>6, <1>7

\* The local checks pass a token that grants the scope and has not expired, and their
\* refusals say 401 for nothing but age.
LEMMA AuthorizeDecides ==
  ASSUME NEW t \in Tokens, NEW n \in Names
  PROVE  /\ (Authorize(t, n) = "ok") => Grants(t, n) /\ ~Expired(t)
         /\ (Authorize(t, n) # "ok") =>
              /\ Refuse(Authorize(t, n)) \in {401, 403}
              /\ Refuse(Authorize(t, n)) = 401 => Expired(t) /\ t.signed
              /\ Refuse(Authorize(t, n)) = 403 => ~Grants(t, n)
<1>1. CASE n \notin ScopeIds
  <2>1. Authorize(t, n) = "ScopeNotClaimed"
    BY <1>1 DEF Authorize
  <2>2. ~Grants(t, n)
    BY <1>1 DEF Grants
  <2> QED
    BY <2>1, <2>2 DEF Refuse
<1>2. CASE n \in ScopeIds /\ Verify(t) # "ok"
  <2>1. Authorize(t, n) = Verify(t)
    BY <1>2 DEF Authorize
  <2> QED
    BY <1>2, <2>1, VerifyDecides DEF Refuse
<1>3. CASE n \in ScopeIds /\ Verify(t) = "ok" /\ n \notin t.scopes
  <2>1. Authorize(t, n) = "ScopeNotClaimed"
    BY <1>3 DEF Authorize
  <2> QED
    BY <1>3, <2>1 DEF Refuse, Grants
<1>4. CASE n \in ScopeIds /\ Verify(t) = "ok" /\ n \in t.scopes
  <2>1. Authorize(t, n) = "ok"
    BY <1>4 DEF Authorize
  <2> QED
    BY <1>4, <2>1, VerifyDecides
<1> QED
  BY <1>1, <1>2, <1>3, <1>4

\* A request that has just arrived.
LEMMA ReceivedInv ==
  ASSUME NEW i \in Instances, step[i] = "serving", NEW t \in Tokens, NEW n \in Names
  PROVE  RequestInv(Received(i, t, n))
<1> DEFINE q == Received(i, t, n)
<1>0. Expired(t) \in BOOLEAN
  BY DEF Expired
<1>1. CASE Authorize(t, n) = "ok"
  <2>1. q = [by |-> {i}, stage |-> "check", status |-> 0, token |-> t, scope |-> n,
             expired |-> Expired(t), open |-> n \notin blocked, cut |-> n \in blocked]
    BY <1>1 DEF Received
  <2> HIDE DEF q
  <2>2. q \in RequestRecord
    BY <1>0, <2>1 DEF RequestRecord
  <2>3. Evidence(q) /\ HandlersServe(q)
    BY <1>1, <2>1, AuthorizeDecides DEF Evidence, HandlersServe
  <2> QED
    BY <2>2, <2>3 DEF RequestInv, q
<1>2. CASE Authorize(t, n) # "ok"
  <2>1. q = [by |-> {}, stage |-> "done", status |-> Refuse(Authorize(t, n)), token |-> t,
             scope |-> n, expired |-> Expired(t), open |-> n \notin blocked,
             cut |-> n \in blocked]
    BY <1>2 DEF Received
  <2>2. Refuse(Authorize(t, n)) \in {401, 403}
    BY <1>2, AuthorizeDecides
  <2> HIDE DEF q
  <2>3. q \in RequestRecord
    BY <1>0, <2>1, <2>2 DEF RequestRecord
  <2>4. Evidence(q) /\ HandlersServe(q)
    BY <1>2, <2>1, <2>2, AuthorizeDecides DEF Evidence, HandlersServe
  <2> QED
    BY <2>3, <2>4 DEF RequestInv, q
<1> QED
  BY <1>1, <1>2

\* Changing one request.
LEMMA OneRequest ==
  ASSUME GateInv, NEW r \in Requests, NEW q, RequestInv(q),
         req' = [req EXCEPT ![r] = q], UNCHANGED <<now, blocked, step>>
  PROVE  GateInv'
<1>1. req' = [p \in Requests |-> req'[p]] /\ \A p \in Requests : req'[p] = q \/ req'[p] = req[p]
  BY DEF GateInv
<1>2. \A p \in Requests : RequestInv(req'[p])
  BY <1>1 DEF GateInv
<1>3. \A p \in Requests : RequestInv(req[p])'
  BY <1>2 DEF RequestInv, Evidence, HandlersServe
<1> QED
  BY <1>1, <1>3 DEF GateInv

\* Changing what stands beside the requests, so that no scope they name is cut or
\* restored and no process they run in stops.
LEMMA SameRequests ==
  ASSUME GateInv, UNCHANGED <<blocked, req>>, now' \in 1..MaxNow,
         \A i \in Instances : step[i] = "serving" => step'[i] = "serving"
  PROVE  GateInv'
<1>1. \A r \in Requests : RequestInv(req[r])'
  BY DEF GateInv, RequestInv, Evidence, HandlersServe, RequestRecord
<1> QED
  BY <1>1 DEF GateInv

LEMMA InitGateInv == GateInit => GateInv
  BY PullGateAssumption DEF GateInit, GateInv, RequestInv

LEMMA ServeStep ==
  ASSUME GateInv, NEW r \in Requests, NEW i \in Instances, NEW t \in Tokens, NEW n \in Names,
         Serve(r, i, t, n)
  PROVE  GateInv'
<1>1. /\ step[i] = "serving" /\ req' = [req EXCEPT ![r] = Received(i, t, n)]
      /\ UNCHANGED <<now, blocked, step>>
  BY DEF Serve, Pull, migrationVars, session
<1>2. RequestInv(Received(i, t, n))
  BY <1>1, ReceivedInv
<1> QED
  BY <1>1, <1>2, OneRequest

\* The record of an answer.
LEMMA AnsweredRecord ==
  ASSUME NEW r \in Requests, req[r] \in RequestRecord, NEW st \in {200, 403, 500}
  PROVE  /\ Answered(r, st) \in RequestRecord
         /\ Answered(r, st).by = {} /\ Answered(r, st).stage = "done"
         /\ Answered(r, st).status = st /\ Answered(r, st).cut = req[r].cut
         /\ Answered(r, st).token = req[r].token /\ Answered(r, st).scope = req[r].scope
         /\ Answered(r, st).expired = req[r].expired /\ Answered(r, st).open = req[r].open
<1> DEFINE a == [req[r] EXCEPT !.by = {}]
           b == [a EXCEPT !.stage = "done"]
<1>1. a \in RequestRecord
  BY DEF RequestRecord
<1> HIDE DEF a
<1>2. b \in RequestRecord
  BY <1>1 DEF RequestRecord
<1> HIDE DEF b
<1>3. [b EXCEPT !.status = st] \in RequestRecord
  BY <1>2 DEF RequestRecord
<1>4. Answered(r, st) = [b EXCEPT !.status = st]
  BY DEF Answered, a, b
<1>5. Answered(r, st) \in RequestRecord
  BY <1>3, <1>4
<1> QED
  BY <1>5 DEF Answered, RequestRecord

\* The record of a request that is told of a cut.
LEMMA Noted ==
  ASSUME NEW q \in RequestRecord
  PROVE  [q EXCEPT !.cut = TRUE] \in RequestRecord /\ [q EXCEPT !.open = TRUE] \in RequestRecord
<1>1. \A b \in BOOLEAN :
        [q EXCEPT !.cut = b] \in RequestRecord /\ [q EXCEPT !.open = b] \in RequestRecord
  BY DEF RequestRecord
<1> QED
  BY <1>1

LEMMA HandleStep ==
  ASSUME GateInv, NEW r \in Requests, Handle(r)
  PROVE  GateInv'
<1> DEFINE q == req[r]
<1>1. q \in RequestRecord /\ Evidence(q) /\ HandlersServe(q) /\ UNCHANGED <<now, blocked, step>>
  BY DEF GateInv, RequestInv, Idle, Handle, Check, Read, migrationVars, session
<1>2. Refuse("ScopeBlocked") = 403
  BY DEF Refuse
<1>3. CASE q.stage = "check" /\ q.scope \in blocked /\ Answer(r, Refuse("ScopeBlocked"))
  <2> DEFINE a == Answered(r, 403)
  <2>1. q.cut
    BY <1>1, <1>3 DEF Evidence
  <2>2. a \in RequestRecord /\ a.by = {} /\ a.stage = "done" /\ a.status = 403 /\ a.cut = q.cut
    BY <1>1, AnsweredRecord
  <2> HIDE DEF a
  <2>3. Evidence(a) /\ HandlersServe(a)
    BY <2>1, <2>2 DEF Evidence, HandlersServe
  <2>4. req' = [req EXCEPT ![r] = a]
    BY <1>2, <1>3 DEF Answer, a
  <2> QED
    BY <1>1, <2>2, <2>3, <2>4, OneRequest DEF RequestInv
<1>4. CASE q.stage = "check" /\ q.scope \notin blocked /\ req' = [req EXCEPT ![r].stage = "read"]
  <2> DEFINE a == [q EXCEPT !.stage = "read"]
  <2>1. a \in RequestRecord
    BY <1>1 DEF RequestRecord
  <2>2. /\ a.stage = "read" /\ a.by = q.by /\ a.status = q.status
        /\ a.token = q.token /\ a.scope = q.scope /\ a.expired = q.expired /\ a.open = q.open
    BY <1>1 DEF RequestRecord
  <2>3. req' = [req EXCEPT ![r] = a]
    BY <1>4
  <2> HIDE DEF a
  <2>4. Evidence(a) /\ HandlersServe(a)
    BY <1>1, <1>4, <2>2 DEF Evidence, HandlersServe
  <2> QED
    BY <1>1, <2>1, <2>3, <2>4, OneRequest DEF RequestInv
<1>5. CASE /\ q.stage = "check"
           /\ req' = [req EXCEPT ![r] = [Answered(r, Refuse("ScopeBlocked")) EXCEPT !.cut = TRUE]]
  <2> DEFINE p == Answered(r, 403)
             a == [p EXCEPT !.cut = TRUE]
  <2>1. p \in RequestRecord /\ p.by = {} /\ p.stage = "done" /\ p.status = 403
    BY <1>1, AnsweredRecord
  <2>2. req' = [req EXCEPT ![r] = a]
    BY <1>2, <1>5
  <2> HIDE DEF p
  <2>3. a \in RequestRecord /\ a.by = {} /\ a.stage = "done" /\ a.status = 403 /\ a.cut
    <3>1. a \in RequestRecord
      BY <2>1, Noted
    <3>2. a.by = p.by /\ a.stage = p.stage /\ a.status = p.status /\ a.cut = TRUE
      BY <2>1 DEF RequestRecord
    <3> QED
      BY <2>1, <3>1, <3>2
  <2> HIDE DEF a
  <2>4. Evidence(a) /\ HandlersServe(a)
    BY <2>3 DEF Evidence, HandlersServe
  <2> QED
    BY <1>1, <2>2, <2>3, <2>4, OneRequest DEF RequestInv
<1>6. CASE q.stage = "read" /\ \E st \in {200, 500} : Answer(r, st)
  <2>1. PICK st \in {200, 500} : Answer(r, st)
    BY <1>6
  <2> DEFINE a == Answered(r, st)
  <2>2. /\ a \in RequestRecord /\ a.by = {} /\ a.stage = "done" /\ a.status \in {200, 500}
        /\ a.token = q.token /\ a.scope = q.scope /\ a.expired = q.expired /\ a.open = q.open
    BY <1>1, AnsweredRecord
  <2>3. req' = [req EXCEPT ![r] = a]
    BY <2>1 DEF Answer
  <2> HIDE DEF a
  <2>4. Evidence(a) /\ HandlersServe(a)
    BY <1>1, <1>6, <2>2 DEF Evidence, HandlersServe
  <2> QED
    BY <1>1, <2>2, <2>3, <2>4, OneRequest DEF RequestInv
<1> QED
  BY <1>3, <1>4, <1>5, <1>6 DEF Handle, Check, Read

\* Cutting or restoring a scope tells every request in flight for it.
LEMMA OperateStep ==
  ASSUME GateInv, NEW n \in ScopeIds, Operate(n)
  PROVE  GateInv'
<1>1. /\ now' = now /\ step' = step /\ blocked' \subseteq ScopeIds
      /\ \/ Note(n, "cut") /\ blocked' = blocked \cup {n}
         \/ Note(n, "open") /\ blocked' = blocked \ {n}
  BY DEF Operate, Block, Unblock, GateInv, migrationVars, session
<1>2. ASSUME NEW r \in Requests
      PROVE  RequestInv(req[r])'
  <2> DEFINE q == req[r]
             a == req'[r]
             told == q.stage \in {"check", "read"} /\ q.scope = n
  <2>0. \/ Note(n, "cut") /\ a = IF told THEN [q EXCEPT !.cut = TRUE] ELSE q
        \/ Note(n, "open") /\ a = IF told THEN [q EXCEPT !.open = TRUE] ELSE q
    BY <1>1 DEF Note
  <2>1. CASE q = Idle
    BY <2>0, <2>1 DEF Idle, RequestInv
  <2>2. CASE q \in RequestRecord /\ Evidence(q) /\ HandlersServe(q)
    <3>1. a \in RequestRecord
      <4>1. CASE a = q
        BY <2>2, <4>1
      <4>2. CASE a = [q EXCEPT !.cut = TRUE]
        BY <2>2, <4>2, Noted
      <4>3. CASE a = [q EXCEPT !.open = TRUE]
        BY <2>2, <4>3, Noted
      <4> QED
        BY <2>0, <4>1, <4>2, <4>3
    <3>2. /\ a.stage = q.stage /\ a.by = q.by /\ a.status = q.status
          /\ a.token = q.token /\ a.scope = q.scope /\ a.expired = q.expired
          /\ (q.open => a.open) /\ (q.cut => a.cut)
      BY <2>0, <2>2 DEF RequestRecord
    <3>3. told => \/ a.cut /\ blocked' = blocked \cup {n}
                  \/ a.open /\ blocked' = blocked \ {n}
      <4>1. CASE Note(n, "cut") /\ blocked' = blocked \cup {n}
        <5>1. told => a = [q EXCEPT !.cut = TRUE]
          BY <4>1 DEF Note
        <5> QED
          BY <2>2, <4>1, <5>1 DEF RequestRecord
      <4>2. CASE Note(n, "open") /\ blocked' = blocked \ {n}
        <5>1. told => a = [q EXCEPT !.open = TRUE]
          BY <4>2 DEF Note
        <5> QED
          BY <2>2, <4>2, <5>1 DEF RequestRecord
      <4> QED
        BY <1>1, <4>1, <4>2
    <3>4. q.stage = "check" => IF a.scope \in blocked' THEN a.cut ELSE a.open
      <4>1. CASE told
        BY <3>2, <3>3, <4>1
      <4>2. CASE q.stage = "check" /\ ~told
        BY <1>1, <2>2, <3>2, <4>2 DEF Evidence
      <4> QED
        BY <4>1, <4>2
    <3>5. a = q \/ q.stage \in {"check", "read"}
      BY <2>0
    <3>6. Evidence(req[r])' /\ HandlersServe(req[r])'
      BY <1>1, <2>2, <3>2, <3>4, <3>5 DEF Evidence, HandlersServe
    <3> QED
      BY <3>1, <3>6 DEF RequestInv, RequestRecord
  <2> QED
    BY <2>1, <2>2 DEF GateInv, RequestInv
<1>3. req' = [r \in Requests |-> req'[r]]
  BY <1>1 DEF Note
<1> QED
  BY <1>1, <1>2, <1>3 DEF GateInv

\* A process takes the requests it was handling with it, and no others.
LEMMA DieStep ==
  ASSUME MIInv, GateInv, NEW i \in Instances, Die(i)
  PROVE  GateInv'
<1>1. /\ UNCHANGED <<now, blocked>>
      /\ \A j \in Instances : j # i => step'[j] = step[j]
      /\ req' = [r \in Requests |-> IF i \in req[r].by THEN Idle ELSE req[r]]
  BY DEF Die, Crash, MIInv, MigrationTypeOK
<1>2. ASSUME NEW r \in Requests
      PROVE  RequestInv(req[r])'
  <2>1. CASE i \in req[r].by
    BY <1>1, <2>1 DEF RequestInv, Idle
  <2>2. CASE i \notin req[r].by /\ req[r] = Idle
    BY <1>1, <2>2 DEF RequestInv, Idle
  <2>3. CASE /\ i \notin req[r].by
             /\ req[r] \in RequestRecord /\ Evidence(req[r]) /\ HandlersServe(req[r])
    <3>1. req'[r] = req[r] /\ req[r].by \subseteq Instances
      BY <1>1, <2>3 DEF RequestRecord
    <3> QED
      BY <1>1, <2>3, <3>1 DEF RequestInv, Evidence, HandlersServe, RequestRecord
  <2> QED
    BY <2>1, <2>2, <2>3 DEF GateInv, RequestInv
<1> QED
  BY <1>1, <1>2 DEF GateInv

\* Short of dying, an instance that serves goes on serving.
LEMMA ServingStays ==
  ASSUME MIInv, NEW j \in Instances, step[j] = "serving",
         Grant \/ (\E h \in Hosts : Write(h) \/ Commit(h))
           \/ (\E i \in Instances : Attempt(i) \/ StatementFails(i) \/ ResetFails(i))
  PROVE  step'[j] = "serving"
<1>1. CASE Grant
  <2>1. Head(queue) = queue[1] /\ 1 \in DOMAIN queue
    BY <1>1 DEF Grant, MIInv, MigrationTypeOK
  <2>2. Head(queue) \in Instances => step[Head(queue)] = "wait"
    BY <2>1 DEF MIInv, QueueInv
  <2> QED
    BY <1>1, <2>2 DEF Grant, MIInv, MigrationTypeOK
<1>2. CASE \E h \in Hosts : Write(h) \/ Commit(h)
  BY <1>2 DEF Write, Commit, session
<1>3. CASE \E i \in Instances : Attempt(i) \/ StatementFails(i) \/ ResetFails(i)
  <2>1. PICK i \in Instances : Attempt(i) \/ StatementFails(i) \/ ResetFails(i)
    BY <1>3
  <2>2. step[i] # "serving" /\ \E to : step' = [step EXCEPT ![i] = to]
    BY <2>1 DEF Attempt, StatementFails, Begin, TryLock, StartBatch, FinishBatch, LockTimeout,
                Unlock, Reset, ResetFails, Conclude, Goto
  <2> QED
    BY <2>2 DEF MIInv, MigrationTypeOK
<1> QED
  BY <1>1, <1>2, <1>3

LEMMA GateInvStep == MIInv /\ GateInv /\ [Next]_vars => GateInv'
<1> SUFFICES ASSUME MIInv, GateInv, [Next]_vars
             PROVE  GateInv'
  OBVIOUS
<1>0. now \in 1..MaxNow
  BY DEF GateInv
<1>1. CASE LockManager \/ (\E h \in Hosts : Host(h)) \/ (\E i \in Instances : Start(i))
  <2>1. UNCHANGED gateVars /\ \A j \in Instances : step[j] = "serving" => step'[j] = "serving"
    BY <1>1, ServingStays DEF LockManager, Host, Start
  <2> QED
    BY <1>0, <2>1, SameRequests DEF gateVars
<1>2. CASE \E i \in Instances : Die(i)
  BY <1>2, DieStep
<1>3. CASE \E r \in Requests, i \in Instances, t \in Tokens, n \in Names : Serve(r, i, t, n)
  BY <1>3, ServeStep
<1>4. CASE \E r \in Requests : Handle(r)
  BY <1>4, HandleStep
<1>5. CASE \E n \in ScopeIds : Operate(n)
  BY <1>5, OperateStep
<1>6. CASE Pass
  <2>1. UNCHANGED <<blocked, req>> /\ step' = step /\ now' \in 1..MaxNow
    BY <1>0, <1>6, PullGateAssumption DEF Pass, Tick, migrationVars, session
  <2> QED
    BY <2>1, SameRequests
<1>7. CASE UNCHANGED vars
  <2>1. UNCHANGED <<blocked, req>> /\ step' = step /\ now' = now
    BY <1>7 DEF vars, gateVars, migrationVars, session
  <2> QED
    BY <1>0, <2>1, SameRequests
<1> QED
  BY <1>1, <1>2, <1>3, <1>4, <1>5, <1>6, <1>7 DEF Next

\* Each request carries the evidence for its answer, whatever cuts, restores, deaths and
\* starts fall between its steps.
THEOREM ServiceGateInvariant == Spec => []GateInv
<1>1. Init => GateInv
  BY InitGateInv DEF Init
<1> QED
  BY <1>1, GateInvStep, ServiceInvariant, PTL DEF Spec

\* The variables of both halves keep their types.
THEOREM ServiceTypeOK == Spec => []TypeOK
<1>1. MIInv /\ GateInv => TypeOK
  BY DEF MIInv, GateInv, RequestInv, RequestRecord, TypeOK, GateTypeOK
<1> QED
  BY <1>1, ServiceInvariant, ServiceGateInvariant, PTL

\* A page goes only to a token that grants the scope and had not expired when presented,
\* for a scope that was open at some moment of the request: for any set of tokens, and any
\* cuts and restores between the blocklist's query and the page's.
THEOREM ServiceServedIsAuthorized == Spec => []ServedIsAuthorized
<1>1. GateInv => ServedIsAuthorized
  BY DEF GateInv, RequestInv, Idle, Evidence, ServedIsAuthorized
<1> QED
  BY <1>1, ServiceGateInvariant, PTL

\* Every refusal has its cause and says which kind.
THEOREM ServiceRefusedForCause == Spec => []RefusedForCause
<1>1. GateInv => RefusedForCause
  BY DEF GateInv, RequestInv, Idle, Evidence, RefusedForCause
<1> QED
  BY <1>1, ServiceGateInvariant, PTL
=============================================================================
