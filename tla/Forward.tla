------------------------------ MODULE Forward -------------------------------
(***************************************************************************)
(* The sync server's write path: forwarding a command to the host, with    *)
(* the dedupe table in front and the verdict recorded behind.              *)
(*                                                                         *)
(* A forward is four steps with the database or the host in between:       *)
(* classify, ask the host, insert the verdict, and, if another forward of  *)
(* the same id inserted first, read that one's.  Several forwards of one   *)
(* id may be under way at once (a device retrying, a request the proxy     *)
(* repeated), with the same body or another one, and a forward may die     *)
(* between any two steps.                                                  *)
(*                                                                         *)
(* The host is external: it applies a command and appends to the change    *)
(* log in one transaction, refuses it, or says a later one overtook it,    *)
(* and the server may not hear which.                                      *)
(*                                                                         *)
(* Abstracted: a body stands for its checksum; reasons are whose they are. *)
(***************************************************************************)
EXTENDS Naturals, FiniteSets

CONSTANTS
  Forwards,  \* forwards that can be under way at once
  Ids,       \* command ids
  Bodies,    \* payloads, told apart by their checksum
  MaxSeq     \* bound: commands the host applies

ASSUME ForwardAssumption == MaxSeq \in Nat

VARIABLES
  table,     \* durable: sync_command_results, the set of its rows
  lastSeq,   \* durable, host: last change-log seq
  effects,   \* durable, host: what was applied, [id, body, seq]
  heard,     \* verdicts of the host that reached the server, [id, body, result]
  pc,        \* forward: its next step
  command,   \* forward: the command it was called with
  outcome,   \* forward: what the host told it
  answers    \* results sent to clients, [id, body, result]

vars == <<table, lastSeq, effects, heard, pc, command, outcome, answers>>

-----------------------------------------------------------------------------
Submissions == [id : Ids, body : Bodies]
Results  == [by : {"host", "dedupe"}, status : {"Applied", "Rejected", "Superseded"},
             seq : 0..MaxSeq]

\* mutated_reason: a rejection that is not the host's.
Refusal == [by |-> "dedupe", status |-> "Rejected", seq |-> 0]

\* What the host may decide: the next seq if it applies.
Decided == {[by |-> "host", status |-> s, seq |-> 0] : s \in {"Rejected", "Superseded"}}
           \cup {[by |-> "host", status |-> "Applied", seq |-> n] :
                   n \in {lastSeq + 1} \cap (1..MaxSeq)}

Row(c, r) == [id |-> c.id, body |-> c.body, result |-> r]

-----------------------------------------------------------------------------
Init ==
  /\ table = {} /\ lastSeq = 0 /\ effects = {} /\ heard = {} /\ answers = {}
  /\ pc = [p \in Forwards |-> "idle"]
  /\ \E c \in Submissions : command = [p \in Forwards |-> c]
  /\ outcome = [p \in Forwards |-> Refusal]

RowOf(id) == {t \in table : t.id = id}

\* decide: no row, a row with this body, or a row with another.
Fresh(c)   == RowOf(c.id) = {}

ReplaysAnyBody(c, t) == t \in RowOf(c.id)

Replays(c, t) == t \in RowOf(c.id) /\ t.body = c.body
Mutated(c) == \E t \in RowOf(c.id) : t.body # c.body

Goto(p, from, to) == pc[p] = from /\ pc' = [pc EXCEPT ![p] = to]
Answer(p, r)      == answers' = answers \cup {Row(command[p], r)}

\* A client submits a command, new or again.
Submit(p, c) ==
  /\ Goto(p, "idle", "classify")
  /\ command' = [command EXCEPT ![p] = c]
  /\ UNCHANGED <<table, lastSeq, effects, heard, outcome, answers>>

\* classify on the way in.  A refusal is not recorded: the original stays.
Classify(p) ==
  LET c == command[p] IN
  /\ \/ Fresh(c) /\ Goto(p, "classify", "ask") /\ UNCHANGED answers
     \/ \E t \in table : /\ Replays(c, t) /\ Goto(p, "classify", "idle")
                         /\ Answer(p, t.result)
     \/ Mutated(c) /\ Goto(p, "classify", "idle") /\ Answer(p, Refusal)
  /\ UNCHANGED <<table, lastSeq, effects, heard, command, outcome>>

HostDecidesSameSeq(c, r) ==
  IF r.status = "Applied"
    THEN /\ effects' = effects \cup {[id |-> c.id, body |-> c.body, seq |-> r.seq]}
         /\ UNCHANGED lastSeq
    ELSE UNCHANGED <<lastSeq, effects>>

\* The host's transaction: it decides, and writes if it applies.
HostDecides(c, r) ==
  IF r.status = "Applied"
    THEN /\ lastSeq' = r.seq
         /\ effects' = effects \cup {[id |-> c.id, body |-> c.body, seq |-> r.seq]}
    ELSE UNCHANGED <<lastSeq, effects>>

\* host.apply answers.
Ask(p) ==
  /\ Goto(p, "ask", "record")
  /\ \E r \in Decided : /\ HostDecides(command[p], r)
                        /\ outcome' = [outcome EXCEPT ![p] = r]
                        /\ heard' = heard \cup {Row(command[p], r)}
  /\ UNCHANGED <<table, command, answers>>

\* A HostError, whatever the host did: Unresolved, and nothing is recorded.
HostFails(p) ==
  /\ Goto(p, "ask", "idle")
  /\ \/ UNCHANGED <<lastSeq, effects>>
     \/ \E r \in Decided : HostDecides(command[p], r)
  /\ UNCHANGED <<table, heard, command, outcome, answers>>

RecordUpserts(p) ==
  LET c == command[p] IN
  /\ Goto(p, "record", "idle")
  /\ table' = (table \ RowOf(c.id)) \cup {Row(c, outcome[p])}
  /\ Answer(p, outcome[p])
  /\ UNCHANGED <<lastSeq, effects, heard, command, outcome>>

\* record: INSERT ... ON CONFLICT DO NOTHING.
Record(p) ==
  LET c == command[p] IN
  /\ \/ /\ RowOf(c.id) = {} /\ Goto(p, "record", "idle")
        /\ table' = table \cup {Row(c, outcome[p])}
        /\ Answer(p, outcome[p])
     \/ /\ RowOf(c.id) # {} /\ Goto(p, "record", "reread")
        /\ UNCHANGED <<table, answers>>
  /\ UNCHANGED <<lastSeq, effects, heard, command, outcome>>

RereadOwn(p) ==
  /\ Goto(p, "reread", "idle")
  /\ Answer(p, outcome[p])
  /\ UNCHANGED <<table, lastSeq, effects, heard, command, outcome>>

\* The insert lost: the winner's verdict, or an error if its body was another one.
Reread(p) ==
  /\ Goto(p, "reread", "idle")
  /\ \/ \E t \in table : Replays(command[p], t) /\ Answer(p, t.result)
     \/ Mutated(command[p]) /\ UNCHANGED answers
  /\ UNCHANGED <<table, lastSeq, effects, heard, command, outcome>>

\* A database error or a crash of the server ends the forward with no answer.
Drop(p) ==
  /\ pc[p] # "idle"
  /\ pc' = [pc EXCEPT ![p] = "idle"]
  /\ UNCHANGED <<table, lastSeq, effects, heard, command, outcome, answers>>

Next ==
  \E p \in Forwards :
    \/ \E c \in Submissions : Submit(p, c)
    \/ Classify(p)
    \/ Ask(p)
    \/ HostFails(p)
    \/ Record(p)
    \/ Reread(p)
    \/ Drop(p)

Spec == Init /\ [][Next]_vars

-----------------------------------------------------------------------------
(* Properties.                                                             *)

TypeOK ==
  /\ table \in SUBSET [id : Ids, body : Bodies, result : Results]
  /\ lastSeq \in 0..MaxSeq
  /\ effects \in SUBSET [id : Ids, body : Bodies, seq : 1..lastSeq]
  /\ heard \in SUBSET [id : Ids, body : Bodies, result : Results]
  /\ pc \in [Forwards -> {"idle", "classify", "ask", "record", "reread"}]
  /\ command \in [Forwards -> Submissions]
  /\ outcome \in [Forwards -> Results]
  /\ answers \in SUBSET [id : Ids, body : Bodies, result : Results]

\* However many forwards of a command race or are retried, and whatever fails in
\* between, all clients that get an answer get the same one ("two clients being
\* told different things about one command", dedupe::record).
OneVerdict ==
  \A a, b \in answers : a.id = b.id /\ a.body = b.body => a.result = b.result

\* A verdict recorded or sent as the host's is one the host gave for that very
\* body, and the server heard: a failure is no verdict, and a body never collects
\* the verdict of another.
VerdictIsHosts ==
  \A a \in table \cup answers : a.result.by = "host" => a \in heard

\* "The original record must survive untouched" (forward).
RecordSurvives == [][table \subseteq table']_vars
=============================================================================
