----------------------------- MODULE MCPushPath -----------------------------
(* Small instances of PushPath for TLC. *)
EXTENDS PushPath

CONSTANTS c1, c2, p1, p2, b1, b2

\* Both commands are accepted by every version of the app, and migrate.
MCClass == [v \in Versions |-> [c \in Commands |-> "OwnerDraft"]]
MCSteps == [c \in Commands |-> Versions]

\* The migrations leave these payloads as they are.
MCPayloadKept == [c \in Commands |-> [v \in Versions |-> b1]]

\* The migration rewrites the payload.
MCPayloadRewritten == [c \in Commands |-> [v \in Versions |-> IF v = 1 THEN b1 ELSE b2]]
=============================================================================
