---------------------------- MODULE MCChangeLog -----------------------------
(* Small instances of ChangeLog for TLC. *)
EXTENDS ChangeLog, TLC

CONSTANTS r1, r2, s1, s2, w1, w2, x, y

\* A connection for every request.
MCOwnConn == [r \in Readers |-> IF r = r1 THEN s1 ELSE s2]

\* credsyncd: one Client shared by every handler (AppState.db).
MCSharedConn == [r \in Readers |-> s1]

\* r1 pulls the scope of both rows, r2 only the scope of the second.
MCVisible == [r \in Readers |-> IF r = r1 THEN Rows ELSE {y}]
\* Hosts are alike.
MCWriterSymmetry == Permutations(Writers)
=============================================================================
