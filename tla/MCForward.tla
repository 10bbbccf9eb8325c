----------------------------- MODULE MCForward ------------------------------
(* Instances of Forward for TLC.                                           *)
EXTENDS Forward, TLC

CONSTANTS p1, p2, i1, b1, b2

\* Forwards and bodies are interchangeable.
Symmetry == Permutations(Forwards) \cup Permutations(Bodies)
=============================================================================
