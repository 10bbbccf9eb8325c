------------------------------ MODULE PushPath ------------------------------
(***************************************************************************)
(* The write path from end to end: one device's outbox (Outbox), the       *)
(* server's forwarder (Forward), and a network that loses, repeats and     *)
(* reorders what they send each other.                                     *)
(*                                                                         *)
(* A push carries a prefix of the queue, each payload migrated to the      *)
(* installed app's schema.  The server checks the protocol version, takes  *)
(* up a prefix of the push (all of it, or less under load), forwards those *)
(* commands in order and answers with the results it has; a command it did *)
(* not take up, or whose verdict it did not hear, is not in the answer.    *)
(* The device resolves what is answered and pushes the rest again, also    *)
(* after restarts and app updates, while older pushes are still being      *)
(* served.                                                                 *)
(*                                                                         *)
(* App version v speaks protocol v.  A body stands for its checksum.       *)
(***************************************************************************)
EXTENDS Naturals, Sequences, FiniteSets, FiniteSetsExt

CONSTANTS
  Commands, Versions, Class, Steps, MaxBatch,   \* as in Outbox
  Forwards, Bodies, MaxSeq,                     \* as in Forward
  Payload,     \* Payload[c][v]: the body of c under schema version v
  Protocols,   \* protocol versions the server goes through, 1..n
  MaxNet,      \* bound: messages in flight when a push is sent
  MaxFaults    \* bound: failed transactions, restarts, losses, repeats, host failures

VARIABLES
  \* the device, as in Outbox
  outbox, outboxSuspect, upgradeRequired, app, stored, at, nextAt, authored, outcomes,
  recovered, acked, request, sent, faults,
  \* the forwarder, as in Forward
  table, lastSeq, effects, heard, pc, command, outcome, answers,
  net,        \* messages in flight
  serving,    \* forward: the push it works on
  protocol    \* the newest protocol the server speaks

Device == INSTANCE Outbox WITH MaxResults <- MaxBatch
Server == INSTANCE Forward WITH Ids <- Commands

ASSUME PushPathAssumption ==
  /\ Device!OutboxAssumption
  /\ Server!ForwardAssumption
  /\ Payload \in [Commands -> [Versions -> Bodies]]
  /\ Protocols \subseteq Nat \ {0}
  /\ MaxNet \in Nat

device == <<outbox, outboxSuspect, upgradeRequired, app, stored, at, nextAt, authored,
            outcomes, recovered, acked, request, sent>>
server == <<table, lastSeq, effects, heard, pc, command, outcome, answers>>
vars   == <<device, faults, server, net, serving, protocol>>

\* A forward with nothing to do.
Free == [busy |-> FALSE, todo |-> {}, done |-> <<>>]

Init ==
  /\ Device!Init
  /\ Server!Init
  /\ net = {}
  /\ serving = [p \in Forwards |-> Free]
  /\ protocol \in Protocols

Fault == faults < MaxFaults /\ faults' = faults + 1

-----------------------------------------------------------------------------
(* The device.                                                             *)

\* The body build_push sends for c.  A command the registry no longer knows
\* goes as it was written.
Body(c) == Payload[c][IF Class[app][c] = "Unregistered" THEN authored[c] ELSE app]

Pushing(b) == [kind |-> "push", commands |-> {[id |-> c, body |-> Body(c)] : c \in b},
               protocol |-> app, copy |-> FALSE]

\* push_step: build_push, and what it built is sent if there is anything in it.
Push ==
  /\ Cardinality(net) < MaxNet
  /\ Device!BuildPush
  /\ net' = IF upgradeRequired \/ Device!Refreshed = {} \/ request' = {}
              THEN net ELSE net \cup {Pushing(request')}
  /\ UNCHANGED <<server, serving, protocol>>

\* What the device does by itself.
Enqueue(c, v) == Device!Enqueue(c, v) /\ UNCHANGED <<server, net, serving, protocol>>
Restart == Device!Restart /\ UNCHANGED <<server, net, serving, protocol>>
UpdateApp == Device!UpdateApp /\ UNCHANGED <<server, net, serving, protocol>>
UpgradeCompleted == Device!UpgradeCompleted /\ UNCHANGED <<server, net, serving, protocol>>

\* A response arrives: apply_results, or on_upgrade_required.
Deliver(m, v) ==
  /\ net' = net \ {m}
  /\ \/ m.kind = "results" /\ Device!ApplyResults(m.results, v)
     \/ m.kind = "upgrade" /\ v = "Commit" /\ Device!Refused /\ UNCHANGED faults
  /\ UNCHANGED <<server, serving, protocol>>

-----------------------------------------------------------------------------
(* The network.                                                            *)

\* A message is lost, or will arrive twice.
Disturb(m) ==
  /\ Fault
  /\ \/ net' = net \ {m}
     \/ net' = net \cup {[m EXCEPT !.copy = TRUE]}
  /\ UNCHANGED <<device, server, serving, protocol>>

-----------------------------------------------------------------------------
(* The server.                                                             *)

\* VersionPolicy::window and negotiate: the current version and the one before.
Negotiate(v) == v \in {protocol - 1, protocol}

AcceptMayTakeNone(n) == {n \div k : k \in 1..8}

\* Pressure::accept_count: all, or a share under load, and never nothing.
AcceptCount(n) == {n} \cup {Max({1, n \div k}) : k \in 2..8}

\* The first n commands of a push: they are in queue order.
FirstOf(cmds, n) ==
  {c \in cmds : Cardinality({d \in cmds : at[d.id] < at[c.id]}) < n}

\* The server takes up a push, or refuses its version.
Receive(p, m) ==
  /\ m.kind = "push"
  /\ ~serving[p].busy
  /\ IF Negotiate(m.protocol)
       THEN /\ \E n \in AcceptCount(Cardinality(m.commands)) :
                 serving' = [serving EXCEPT ![p] = [busy |-> TRUE,
                                                    todo |-> FirstOf(m.commands, n),
                                                    done |-> <<>>]]
            /\ net' = net \ {m}
       ELSE /\ net' = (net \ {m}) \cup {[kind |-> "upgrade", copy |-> m.copy]}
            /\ UNCHANGED serving
  /\ UNCHANGED <<device, faults, server, protocol>>

\* push_prefix goes on to the next command it took up.
Take(p) ==
  LET c == CHOOSE c \in serving[p].todo : FirstOf(serving[p].todo, 1) = {c} IN
  /\ serving[p].todo # {}
  /\ Server!Submit(p, c)
  /\ serving' = [serving EXCEPT ![p].todo = @ \ {c}]
  /\ UNCHANGED <<device, faults, net, protocol>>

Result(p, r) == [id |-> command[p].id, status |-> r.status]

\* forward ends with an error: the push it was part of is not answered.
Errs(p) == pc[p] = "reread" /\ Server!Mutated(command[p])

\* A step of forward; its result joins those of the push.
Work(p) ==
  /\ Server!Classify(p) \/ Server!Ask(p) \/ Server!Record(p) \/ Server!Reread(p)
  /\ \/ pc'[p] # "idle" /\ UNCHANGED serving
     \/ Errs(p) /\ serving' = [serving EXCEPT ![p] = Free]
     \/ /\ pc'[p] = "idle" /\ ~Errs(p)
        /\ \E r \in Server!Results :
             /\ Server!Answer(p, r)
             /\ serving' = [serving EXCEPT ![p].done = Append(@, Result(p, r))]
  /\ UNCHANGED <<device, faults, net, protocol>>

UnresolvedIsRejected(p) ==
  /\ Fault
  /\ Server!HostFails(p)
  /\ serving' = [serving EXCEPT ![p].done =
                   Append(@, [id |-> command[p].id, status |-> "Rejected"])]
  /\ UNCHANGED <<device, net, protocol>>

\* Forwarded::Unresolved has no result: the command is left out of the answer.
Unresolved(p) ==
  /\ Fault
  /\ Server!HostFails(p)
  /\ UNCHANGED <<device, net, serving, protocol>>

\* A database error or a crash: the push is not answered.
Abandon(p) ==
  /\ Fault
  /\ Server!Drop(p)
  /\ serving' = [serving EXCEPT ![p] = Free]
  /\ UNCHANGED <<device, net, protocol>>

Respond(p) ==
  /\ serving[p].busy /\ serving[p].todo = {} /\ pc[p] = "idle"
  /\ net' = net \cup {[kind |-> "results", results |-> serving[p].done, copy |-> FALSE]}
  /\ serving' = [serving EXCEPT ![p] = Free]
  /\ UNCHANGED <<device, faults, server, protocol>>

\* A server that speaks the next protocol is deployed.
Deploy ==
  /\ protocol + 1 \in Protocols
  /\ protocol' = protocol + 1
  /\ UNCHANGED <<device, faults, server, net, serving>>

-----------------------------------------------------------------------------
Serve(p) == Take(p) \/ Work(p) \/ Respond(p) \/ \E m \in net : Receive(p, m)

Next ==
  \/ Push
  \/ \E c \in Commands, v \in Device!Verdicts : Enqueue(c, v)
  \/ Restart
  \/ UpdateApp
  \/ UpgradeCompleted
  \/ \E m \in net, v \in Device!Verdicts : Deliver(m, v)
  \/ \E m \in net : Disturb(m)
  \/ \E p \in Forwards : Serve(p) \/ Unresolved(p) \/ Abandon(p)
  \/ Deploy

Spec == Init /\ [][Next]_vars

\* The sync loop keeps pushing, the server works on what it took up and the host
\* answers it, what is sent arrives, storage accepts the transaction, and both ends
\* are updated in the end; an app that was refused is told so by its host.
Fairness ==
  /\ WF_vars(Push)
  /\ \A p \in Forwards : WF_vars(Serve(p))
  /\ WF_vars(\E m \in net : Deliver(m, "Commit"))
  /\ WF_vars(UpdateApp \/ Deploy)
  /\ WF_vars(UpgradeCompleted)

FairSpec == Spec /\ Fairness

-----------------------------------------------------------------------------
(* Properties.                                                             *)

Replies == [id : Commands, status : Device!Statuses]

TypeOK ==
  /\ Device!TypeOK
  /\ Server!TypeOK
  /\ \A m \in net :
       \/ m \in [kind : {"push"}, commands : SUBSET Server!Submissions, protocol : Versions,
                copy : BOOLEAN]
       \/ m \in [kind : {"results"}, results : Seq(Replies), copy : BOOLEAN]
       \/ m \in [kind : {"upgrade"}, copy : BOOLEAN]
  /\ serving \in [Forwards -> [busy : BOOLEAN, todo : SUBSET Server!Submissions,
                                done : Seq(Replies)]]
  /\ protocol \in Protocols

\* What the dedupe table says of c, and what the device does.
Verdict(c) == IF \E t \in table : t.id = c
                THEN (CHOOSE t \in table : t.id = c).result.status ELSE "none"
Shown(c)   == IF outcomes[c] = <<>> THEN "none" ELSE outcomes[c][1]

Ledger == INSTANCE CommandLedger
            WITH Statuses <- Device!Statuses,
                 verdict  <- [c \in Commands |-> Verdict(c)],
                 shown    <- [c \in Commands |-> Shown(c)]

\* Whatever is lost, repeated or overtaken, and whoever restarts, outbox, network and
\* forwarder together are a ledger: a command gets one verdict, and the device records
\* that verdict or nothing, so long as an update leaves the bodies of sent commands alone.
ImplementsLedger == Ledger!Spec

\* The author of a command is shown the verdict recorded for it and no other: a retry
\* gets "the same results a second time" (apply_results).
ShownIsVerdict == \A c \in Commands : Shown(c) # "none" => Shown(c) = Verdict(c)

\* Once faults stop, every queued command is resolved, however hard the server sheds
\* load and whichever end was updated first.
EveryCommandIsAnswered == \A c \in Commands : (c \in stored) ~> (c \notin stored)
=============================================================================
