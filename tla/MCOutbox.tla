------------------------------ MODULE MCOutbox ------------------------------
(* Small instances of Outbox for TLC. *)
EXTENDS Outbox

CONSTANTS c1, c2, c3

\* A registry that every app version keeps: a draft, a log entry, a grade.
MCClass == [v \in Versions |->
              [c \in Commands |-> CASE c = c1 -> "OwnerDraft"
                                    [] c = c2 -> "AppendOnly"
                                    [] c = c3 -> "ServerAuthoritative"]]

\* The first command has no migration, the others do.
MCStepsGap == [c \in Commands |-> IF c = c1 THEN {} ELSE Versions]
=============================================================================
