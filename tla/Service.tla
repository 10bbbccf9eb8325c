------------------------------- MODULE Service -------------------------------
(***************************************************************************)
(* credsyncd from start to answer: instances connect to one database,      *)
(* migrate it (SchemaMigration) and then serve pulls (PullGate), in        *)
(* processes that may die at any point, beside hosts that write and an     *)
(* operator who cuts scopes.                                               *)
(***************************************************************************)
EXTENDS SchemaMigration, PullGate

vars == <<migrationVars, gateVars>>

Init ==
  /\ MigrationInit
  /\ GateInit

\* Requests reach an instance once main got past migrate and serves.
Serve(r, i, t, n) ==
  /\ step[i] = "serving"
  /\ Pull(r, i, t, n)
  /\ UNCHANGED migrationVars

Handle(r) == (Check(r) \/ Read(r)) /\ UNCHANGED migrationVars

\* An operator cuts or restores a scope, once there is a table to say so in.
Operate(n) ==
  /\ 2 \in applied
  /\ Block(n) \/ Unblock(n)
  /\ UNCHANGED migrationVars

Pass == Tick /\ UNCHANGED migrationVars

\* A process dies, and the requests it was handling with it.
Die(i) ==
  /\ Crash(i)
  /\ req' = [r \in Requests |->
               IF i \in req[r].by THEN Idle ELSE req[r]]
  /\ UNCHANGED <<now, blocked>>

\* What the instances and the hosts do to the schema.
Start(i) == (Attempt(i) \/ StatementFails(i) \/ ResetFails(i)) /\ UNCHANGED gateVars
Host(h) == (Write(h) \/ Commit(h)) /\ UNCHANGED gateVars
LockManager == Grant /\ UNCHANGED gateVars

Next ==
  \/ LockManager
  \/ \E h \in Hosts : Host(h)
  \/ \E i \in Instances : Start(i) \/ Die(i)
  \/ \E r \in Requests, i \in Instances, t \in Tokens, n \in Names : Serve(r, i, t, n)
  \/ \E r \in Requests : Handle(r)
  \/ \E n \in ScopeIds : Operate(n)
  \/ Pass

Spec == Init /\ [][Next]_vars

\* As in SchemaMigration.
Fairness ==
  /\ WF_vars(LockManager)
  /\ \A i \in Instances : WF_vars(Attempt(i) /\ UNCHANGED gateVars)
  /\ \A h \in Hosts : WF_vars(writing[h] > 0 /\ Host(h))

FairSpec == Spec /\ Fairness

TypeOK == MigrationTypeOK /\ GateTypeOK
=============================================================================
