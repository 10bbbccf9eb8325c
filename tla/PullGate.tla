------------------------------ MODULE PullGate ------------------------------
(***************************************************************************)
(* The request path of credsyncd: GET /v1/pull behind its three checks,    *)
(* while an operator cuts and restores scopes and tokens expire.           *)
(*                                                                         *)
(* The checks of the token are local and happen at once; the blocklist and *)
(* the change log are one query each, and what they say is true only at    *)
(* that moment.                                                            *)
(*                                                                         *)
(* A token stands for what its bytes decode to.  Abstracted: the log       *)
(* lines, the wording of refusals, the page read (ChangeLog).              *)
(***************************************************************************)
EXTENDS Naturals

CONSTANTS
  Requests,   \* requests in flight at once
  Tokens,     \* tokens presented: [wellFormed, alg, signed, exp, scopes], where
              \* wellFormed is a bearer header with a JWT whose claims parse, exp among them
  Names,      \* strings sent as a scope
  ScopeIds,   \* those ScopeId::new accepts
  Algorithm,  \* the algorithm the Verifier is built around
  Leeway,     \* clock skew tolerated on exp
  MaxNow      \* bound: the clock

ASSUME PullGateAssumption ==
  /\ \A t \in Tokens : t.wellFormed \in BOOLEAN /\ t.signed \in BOOLEAN /\ t.exp \in Nat
                       /\ t.scopes \subseteq Names
  /\ ScopeIds \subseteq Names
  /\ Leeway \in Nat
  /\ MaxNow \in Nat \ {0}

VARIABLES
  now,      \* the server's clock
  blocked,  \* database: sync_scope_blocks
  req       \* each request: see Received

gateVars == <<now, blocked, req>>

Idle == [by |-> {}, stage |-> "idle"]

GateInit ==
  /\ now = 1
  /\ blocked = {}
  /\ req = [r \in Requests |-> Idle]

-----------------------------------------------------------------------------
(* Verifier::verify and Claims::authorize.                                 *)

Expired(t) == now > t.exp + Leeway

\* The first check a token fails, or "ok".
Verify(t) ==
  IF ~t.wellFormed THEN "Malformed"
  ELSE IF t.alg # Algorithm THEN "WrongAlgorithm"
  ELSE IF ~t.signed THEN "BadSignature"
  ELSE IF Expired(t) THEN "Expired"
  ELSE IF t.scopes = {} THEN "NoScopes"
  ELSE IF ~(t.scopes \subseteq ScopeIds) THEN "Malformed"
  ELSE "ok"

\* bearer, verify, authorize: all that comes before the first query.
Authorize(t, n) ==
  IF n \notin ScopeIds THEN "ScopeNotClaimed"
  ELSE IF Verify(t) # "ok" THEN Verify(t)
  ELSE IF n \notin t.scopes THEN "ScopeNotClaimed"
  ELSE "ok"

RefuseAllAlike(err) == 401

\* refuse: expiry, and nothing else, asks for a new token.
Refuse(err) == IF err = "Expired" THEN 401 ELSE 403

-----------------------------------------------------------------------------
(* The handler, run by instance i.                                         *)

\* by: the instance, until it has answered.  open, cut: at some moment of the request
\* the scope was not blocked; was blocked, or could not be told.
Received(i, t, n) ==
  [by |-> IF Authorize(t, n) = "ok" THEN {i} ELSE {},
   stage |-> IF Authorize(t, n) = "ok" THEN "check" ELSE "done",
   status |-> IF Authorize(t, n) = "ok" THEN 0 ELSE Refuse(Authorize(t, n)),
   token |-> t, scope |-> n, expired |-> Expired(t),
   open |-> n \notin blocked, cut |-> n \in blocked]

Pull(r, i, t, n) ==
  /\ req[r].stage \in {"idle", "done"}
  /\ req' = [req EXCEPT ![r] = Received(i, t, n)]
  /\ UNCHANGED <<now, blocked>>

Answered(r, status) == [req[r] EXCEPT !.by = {}, !.stage = "done", !.status = status]

Answer(r, status) == req' = [req EXCEPT ![r] = Answered(r, status)]

CheckFailsOpen(r) ==
  /\ req[r].stage = "check"
  /\ \/ req[r].scope \in blocked /\ Answer(r, Refuse("ScopeBlocked"))
     \/ req' = [req EXCEPT ![r].stage = "read", ![r].cut = TRUE]
  /\ UNCHANGED <<now, blocked>>

\* blocklist::check.  A query that fails is a refusal.
Check(r) ==
  /\ req[r].stage = "check"
  /\ \/ req[r].scope \in blocked /\ Answer(r, Refuse("ScopeBlocked"))
     \/ req[r].scope \notin blocked /\ req' = [req EXCEPT ![r].stage = "read"]
     \/ req' = [req EXCEPT ![r] = [Answered(r, Refuse("ScopeBlocked")) EXCEPT !.cut = TRUE]]
  /\ UNCHANGED <<now, blocked>>

\* changes_after: a page, or "temporarily unavailable".
Read(r) ==
  /\ req[r].stage = "read"
  /\ Answer(r, 200) \/ Answer(r, 500)
  /\ UNCHANGED <<now, blocked>>

\* Requests in flight for scope n.
Note(n, field) ==
  req' = [r \in Requests |->
            IF req[r].stage \in {"check", "read"} /\ req[r].scope = n
              THEN IF field = "open" THEN [req[r] EXCEPT !.open = TRUE]
                                     ELSE [req[r] EXCEPT !.cut = TRUE]
              ELSE req[r]]

\* blocklist::block and unblock.
Block(n) ==
  /\ blocked' = blocked \cup {n}
  /\ Note(n, "cut")
  /\ UNCHANGED now

Unblock(n) ==
  /\ blocked' = blocked \ {n}
  /\ Note(n, "open")
  /\ UNCHANGED now

Tick ==
  /\ now < MaxNow
  /\ now' = now + 1
  /\ UNCHANGED <<blocked, req>>

-----------------------------------------------------------------------------
(* Properties.                                                             *)

GateTypeOK ==
  /\ now \in 1..MaxNow
  /\ blocked \subseteq ScopeIds
  /\ \A r \in Requests :
       \/ req[r] = Idle
       \/ /\ req[r].stage \in {"check", "read", "done"}
          /\ req[r].status \in {0, 200, 401, 403, 500}
          /\ req[r].token \in Tokens /\ req[r].scope \in Names

\* A genuine token of this server for scope n.
Grants(t, n) ==
  t.wellFormed /\ t.alg = Algorithm /\ t.signed /\ n \in t.scopes /\ t.scopes \subseteq ScopeIds

\* A page goes only to a token that names the scope and had not expired when it was
\* presented, and never for a scope that was cut all through the request: a block that
\* returned before a pull arrived holds for it, whatever fails.
ServedIsAuthorized ==
  \A r \in Requests :
    req[r].stage = "read" \/ (req[r].stage = "done" /\ req[r].status \in {200, 500}) =>
      Grants(req[r].token, req[r].scope) /\ ~req[r].expired /\ req[r].open

\* A refusal has its cause, and says which kind: 401 only for a token that is good but
\* for its age, so that a client that fetches a new one and retries gets further; 403 only
\* for one that does not grant the scope or a scope that was, or may have been, cut.
RefusedForCause ==
  \A r \in Requests :
    req[r].stage = "done" =>
      /\ req[r].status = 401 => req[r].expired /\ req[r].token.signed
      /\ req[r].status = 403 => req[r].cut \/ ~Grants(req[r].token, req[r].scope)
=============================================================================
