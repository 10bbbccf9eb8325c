------------------------------ MODULE MCService ------------------------------
(* A small instance of Service for TLC. *)
EXTENDS Service

CONSTANTS i1, i2, h1, r1, x1, y1

\* A token for the scope, and the same with a signature that does not verify.
MCTokens ==
  LET good == [wellFormed |-> TRUE, alg |-> "HS256", signed |-> TRUE, exp |-> 0, scopes |-> {x1}]
  IN  {good, [good EXCEPT !.signed = FALSE]}
=============================================================================
