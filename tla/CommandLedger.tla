--------------------------- MODULE CommandLedger ----------------------------
(***************************************************************************)
(* What the write path promises, seen from outside: a command gets one     *)
(* verdict, and what its author is shown is that verdict.                  *)
(***************************************************************************)
CONSTANTS Commands, Statuses

VARIABLES
  verdict,   \* what was decided about each command, "none" until it is
  shown      \* what its author's device says of it

vars == <<verdict, shown>>

Init ==
  /\ verdict = [c \in Commands |-> "none"]
  /\ shown = [c \in Commands |-> "none"]

Decide(c, s) ==
  /\ verdict[c] = "none"
  /\ verdict' = [verdict EXCEPT ![c] = s]
  /\ UNCHANGED shown

\* A device learns of several verdicts at once.
Show(S) ==
  /\ \A c \in S : shown[c] = "none" /\ verdict[c] # "none"
  /\ shown' = [c \in Commands |-> IF c \in S THEN verdict[c] ELSE shown[c]]
  /\ UNCHANGED verdict

Next ==
  \/ \E c \in Commands, s \in Statuses : Decide(c, s)
  \/ \E S \in SUBSET Commands : Show(S)

Spec == Init /\ [][Next]_vars
=============================================================================
