------------------------------ MODULE Storage -------------------------------
(***************************************************************************)
(* How a storage transaction of the client may end.  An adapter may commit *)
(* and say so, fail before committing, or commit and report a failure: the *)
(* trait forbids the last and the engine defends against it all the same,  *)
(* because it cannot tell the last two apart.                              *)
(***************************************************************************)

Verdicts == {"Commit", "FailBeforeCommit", "CommitThenLoseAck"}

\* Whether the transaction's writes are in the database afterwards.
Landed(v) == v \in {"Commit", "CommitThenLoseAck"}

\* Whether the engine is told so.
ToldOk(v) == v = "Commit"
=============================================================================
