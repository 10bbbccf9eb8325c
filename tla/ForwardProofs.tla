--------------------------- MODULE ForwardProofs ----------------------------
(***************************************************************************)
(* Forward: for any number of forwards, ids and bodies, and whatever fails *)
(* in between, a command has one verdict, it is the host's, and its record *)
(* is never rewritten.                                                     *)
(*                                                                         *)
(* The argument rests on the table: one row per id (OneRow), never         *)
(* rewritten, holding what the host said (RowsAreHeard); every answer ever *)
(* sent is then a row of it, or a refusal that a row still justifies       *)
(* (AnswersAreRows).  A forward about to insert carries a verdict it heard *)
(* for its own command (OutcomeIsHeard).                                   *)
(***************************************************************************)
EXTENDS Forward, TLAPS

OneRow == \A s, t \in table : s.id = t.id => s = t

RowsAreHeard == \A t \in table : t \in heard /\ t.result.by = "host"

OutcomeIsHeard ==
  \A p \in Forwards : pc[p] = "record" =>
    /\ outcome[p].by = "host"
    /\ Row(command[p], outcome[p]) \in heard

AnswersAreRows ==
  \A a \in answers :
    \/ a \in table
    \/ a.result = Refusal /\ \E t \in table : t.id = a.id /\ t.body # a.body

IInv == TypeOK /\ OneRow /\ RowsAreHeard /\ OutcomeIsHeard /\ AnswersAreRows

-----------------------------------------------------------------------------
\* What the host may decide is a result of the host's, with the next seq if any.
LEMMA DecidedType ==
  ASSUME TypeOK, NEW r \in Decided
  PROVE  /\ r \in Results /\ r.by = "host"
         /\ r.status = "Applied" => r.seq = lastSeq + 1 /\ r.seq \in 1..MaxSeq
BY ForwardAssumption DEF TypeOK, Decided, Results

\* The host's transaction keeps its own state well-formed.
LEMMA HostDecidesType ==
  ASSUME TypeOK, NEW c \in Submissions, NEW r \in Decided, HostDecides(c, r)
  PROVE  /\ lastSeq' \in 0..MaxSeq
         /\ effects' \in SUBSET [id : Ids, body : Bodies, seq : 1..lastSeq']
<1>1. CASE r.status = "Applied"
  <2>1. lastSeq' = lastSeq + 1 /\ r.seq = lastSeq + 1 /\ r.seq \in 1..MaxSeq
    BY <1>1, DecidedType DEF HostDecides
  <2>2. effects' = effects \cup {[id |-> c.id, body |-> c.body, seq |-> r.seq]}
    BY <1>1 DEF HostDecides
  <2>3. 1..lastSeq \subseteq 1..lastSeq'
    BY <2>1, ForwardAssumption DEF TypeOK
  <2> QED  BY <2>1, <2>2, <2>3, ForwardAssumption DEF TypeOK, Submissions
<1>2. CASE r.status # "Applied"
  BY <1>2 DEF HostDecides, TypeOK
<1> QED  BY <1>1, <1>2

\* A row is a record of the right shape.
LEMMA RowType ==
  ASSUME NEW c \in Submissions, NEW r \in Results
  PROVE  /\ Row(c, r) \in [id : Ids, body : Bodies, result : Results]
         /\ Row(c, r).id = c.id /\ Row(c, r).body = c.body /\ Row(c, r).result = r
BY DEF Row, Submissions

LEMMA RefusalType == Refusal \in Results /\ Refusal.by = "dedupe"
BY ForwardAssumption DEF Refusal, Results

-----------------------------------------------------------------------------
\* One step keeps every type.
LEMMA NextType == TypeOK /\ [Next]_vars => TypeOK'
<1> SUFFICES ASSUME TypeOK, [Next]_vars PROVE TypeOK'
  OBVIOUS
<1>1. ASSUME NEW p \in Forwards, NEW c \in Submissions, Submit(p, c) PROVE TypeOK'
  BY <1>1 DEF Submit, Goto, TypeOK
<1>2. ASSUME NEW p \in Forwards, Classify(p) PROVE TypeOK'
  <2> DEFINE c == command[p]
  <2>1. c \in Submissions
    BY DEF TypeOK
  <2>2. pc' \in [Forwards -> {"idle", "classify", "ask", "record", "reread"}]
    BY <1>2 DEF Classify, Goto, TypeOK
  <2>3. Row(c, Refusal) \in [id : Ids, body : Bodies, result : Results]
    BY <2>1, RowType, RefusalType
  <2>4. answers' \in SUBSET [id : Ids, body : Bodies, result : Results]
    <3>1. ASSUME NEW t \in table
          PROVE  Row(c, t.result) \in [id : Ids, body : Bodies, result : Results]
      BY <2>1, RowType DEF TypeOK
    <3> QED  BY <1>2, <2>3, <3>1 DEF Classify, Answer, TypeOK
  <2>5. table' \in SUBSET [id : Ids, body : Bodies, result : Results]
    BY <1>2, <2>3 DEF Classify, TypeOK
  <2> QED  BY <1>2, <2>2, <2>4, <2>5 DEF Classify, TypeOK
<1>3. ASSUME NEW p \in Forwards, Ask(p) PROVE TypeOK'
  <2>1. PICK r \in Decided : /\ HostDecides(command[p], r)
                             /\ outcome' = [outcome EXCEPT ![p] = r]
                             /\ heard' = heard \cup {Row(command[p], r)}
    BY <1>3 DEF Ask
  <2>2. command[p] \in Submissions /\ r \in Results
    BY DecidedType DEF TypeOK
  <2>3. Row(command[p], r) \in [id : Ids, body : Bodies, result : Results]
    BY <2>2, RowType
  <2>4. /\ lastSeq' \in 0..MaxSeq
        /\ effects' \in SUBSET [id : Ids, body : Bodies, seq : 1..lastSeq']
    BY <2>1, <2>2, HostDecidesType
  <2> QED  BY <1>3, <2>1, <2>2, <2>3, <2>4 DEF Ask, Goto, TypeOK
<1>4. ASSUME NEW p \in Forwards, HostFails(p) PROVE TypeOK'
  <2>1. /\ lastSeq' \in 0..MaxSeq
        /\ effects' \in SUBSET [id : Ids, body : Bodies, seq : 1..lastSeq']
    <3>1. CASE UNCHANGED <<lastSeq, effects>>
      BY <3>1 DEF TypeOK
    <3>2. CASE \E r \in Decided : HostDecides(command[p], r)
      <4>1. command[p] \in Submissions
        BY DEF TypeOK
      <4> QED  BY <3>2, <4>1, HostDecidesType
    <3> QED  BY <1>4, <3>1, <3>2 DEF HostFails
  <2> QED  BY <1>4, <2>1 DEF HostFails, Goto, TypeOK
<1>5. ASSUME NEW p \in Forwards, Record(p) PROVE TypeOK'
  <2>1. command[p] \in Submissions /\ outcome[p] \in Results
    BY DEF TypeOK
  <2>2. Row(command[p], outcome[p]) \in [id : Ids, body : Bodies, result : Results]
    BY <2>1, RowType
  <2> QED  BY <1>5, <2>2 DEF Record, Goto, Answer, TypeOK
<1>6. ASSUME NEW p \in Forwards, Reread(p) PROVE TypeOK'
  <2>1. command[p] \in Submissions
    BY DEF TypeOK
  <2>2. ASSUME NEW t \in table
        PROVE  Row(command[p], t.result) \in [id : Ids, body : Bodies, result : Results]
    BY <2>1, RowType DEF TypeOK
  <2> QED  BY <1>6, <2>2 DEF Reread, Goto, Answer, TypeOK
<1>7. ASSUME NEW p \in Forwards, Drop(p) PROVE TypeOK'
  BY <1>7 DEF Drop, TypeOK
<1>8. CASE UNCHANGED vars
  BY <1>8 DEF vars, TypeOK
<1> QED  BY <1>1, <1>2, <1>3, <1>4, <1>5, <1>6, <1>7, <1>8 DEF Next

\* Every variable of forwarding keeps its type.
THEOREM ForwardTypeOK == Spec => []TypeOK
<1>1. Init => TypeOK
  BY ForwardAssumption, RefusalType DEF Init, TypeOK
<1> QED  BY <1>1, NextType, PTL DEF Spec

-----------------------------------------------------------------------------
\* The inductive step.  Only Classify, Ask and Record touch what the parts of the
\* invariant speak of; Reread only adds an answer.
LEMMA NextInv == IInv /\ [Next]_vars => IInv'
<1> SUFFICES ASSUME IInv, [Next]_vars PROVE IInv'
  OBVIOUS
<1> USE DEF IInv
<1>0. TypeOK'
  BY NextType
<1> DEFINE Rest == OneRow /\ RowsAreHeard /\ OutcomeIsHeard /\ AnswersAreRows
<1>1. ASSUME NEW p \in Forwards, NEW c \in Submissions, Submit(p, c) PROVE Rest'
  <2>1. OutcomeIsHeard'
    BY <1>1 DEF Submit, Goto, OutcomeIsHeard, TypeOK
  <2> QED  BY <1>1, <2>1 DEF Submit, OneRow, RowsAreHeard, AnswersAreRows
<1>2. ASSUME NEW p \in Forwards, Classify(p) PROVE Rest'
  <2> DEFINE c == command[p]
  <2>1. c \in Submissions
    BY DEF TypeOK
  <2>2. table' = table /\ heard' = heard
    BY <1>2 DEF Classify
  <2>3. OutcomeIsHeard'
    BY <1>2 DEF Classify, Goto, OutcomeIsHeard, TypeOK
  <2>4. AnswersAreRows'
    <3>1. CASE answers' = answers
      BY <2>2, <3>1 DEF AnswersAreRows
    <3>2. ASSUME NEW t \in table, Replays(c, t), Answer(p, t.result)
          PROVE  AnswersAreRows'
      <4>1. Row(c, t.result) = t
        BY <3>2 DEF Replays, RowOf, Row, TypeOK
      <4> QED  BY <2>2, <3>2, <4>1 DEF Answer, AnswersAreRows
    <3>3. CASE Mutated(c) /\ Answer(p, Refusal)
      <4>1. Row(c, Refusal).id = c.id /\ Row(c, Refusal).body = c.body
            /\ Row(c, Refusal).result = Refusal
        BY <2>1, RowType, RefusalType
      <4>2. \E t \in table : t.id = c.id /\ t.body # c.body
        BY <3>3 DEF Mutated, RowOf
      <4> QED  BY <2>2, <3>3, <4>1, <4>2 DEF Answer, AnswersAreRows
    <3> QED  BY <1>2, <3>1, <3>2, <3>3 DEF Classify
  <2> QED  BY <2>2, <2>3, <2>4 DEF OneRow, RowsAreHeard
<1>3. ASSUME NEW p \in Forwards, Ask(p) PROVE Rest'
  <2>1. PICK r \in Decided : /\ outcome' = [outcome EXCEPT ![p] = r]
                             /\ heard' = heard \cup {Row(command[p], r)}
    BY <1>3 DEF Ask
  <2>2. r.by = "host"
    BY DecidedType
  <2>3. OutcomeIsHeard'
    BY <1>3, <2>1, <2>2 DEF Ask, Goto, OutcomeIsHeard, TypeOK
  <2> QED  BY <1>3, <2>1, <2>3 DEF Ask, OneRow, RowsAreHeard, AnswersAreRows
<1>4. ASSUME NEW p \in Forwards, HostFails(p) PROVE Rest'
  <2>1. OutcomeIsHeard'
    BY <1>4 DEF HostFails, Goto, OutcomeIsHeard, TypeOK
  <2> QED  BY <1>4, <2>1 DEF HostFails, OneRow, RowsAreHeard, AnswersAreRows
<1>5. ASSUME NEW p \in Forwards, Record(p) PROVE Rest'
  <2> DEFINE c == command[p]
             new == Row(c, outcome[p])
  <2>1. OutcomeIsHeard'
    BY <1>5 DEF Record, Goto, OutcomeIsHeard, TypeOK
  <2>2. CASE UNCHANGED <<table, answers>>
    BY <1>5, <2>1, <2>2 DEF Record, OneRow, RowsAreHeard, AnswersAreRows
  <2>3. CASE /\ RowOf(c.id) = {} /\ pc[p] = "record"
             /\ table' = table \cup {new} /\ answers' = answers \cup {new}
    <3>1. new.id = c.id /\ new.result = outcome[p]
      BY RowType DEF TypeOK
    <3>2. OneRow'
      BY <2>3, <3>1 DEF OneRow, RowOf
    <3>3. RowsAreHeard'
      BY <1>5, <2>3, <3>1 DEF Record, RowsAreHeard, OutcomeIsHeard
    <3>4. AnswersAreRows'
      BY <2>3 DEF AnswersAreRows
    <3> QED  BY <2>1, <3>2, <3>3, <3>4
  <2> QED  BY <1>5, <2>2, <2>3 DEF Record, Goto, Answer
<1>6. ASSUME NEW p \in Forwards, Reread(p) PROVE Rest'
  <2>1. OutcomeIsHeard'
    BY <1>6 DEF Reread, Goto, OutcomeIsHeard, TypeOK
  <2>2. AnswersAreRows'
    <3>1. CASE answers' = answers
      BY <1>6, <3>1 DEF Reread, AnswersAreRows
    <3>2. ASSUME NEW t \in table, Replays(command[p], t), Answer(p, t.result)
          PROVE  AnswersAreRows'
      <4>1. Row(command[p], t.result) = t
        BY <3>2 DEF Replays, RowOf, Row, TypeOK
      <4> QED  BY <1>6, <3>2, <4>1 DEF Reread, Answer, AnswersAreRows
    <3> QED  BY <1>6, <3>1, <3>2 DEF Reread
  <2> QED  BY <1>6, <2>1, <2>2 DEF Reread, OneRow, RowsAreHeard
<1>7. ASSUME NEW p \in Forwards, Drop(p) PROVE Rest'
  <2>1. OutcomeIsHeard'
    BY <1>7 DEF Drop, OutcomeIsHeard, TypeOK
  <2> QED  BY <1>7, <2>1 DEF Drop, OneRow, RowsAreHeard, AnswersAreRows
<1>8. ASSUME UNCHANGED vars PROVE Rest'
  BY <1>8 DEF vars, OneRow, RowsAreHeard, OutcomeIsHeard, AnswersAreRows
<1>9. OneRow' /\ RowsAreHeard' /\ OutcomeIsHeard' /\ AnswersAreRows'
  BY <1>1, <1>2, <1>3, <1>4, <1>5, <1>6, <1>7, <1>8 DEF Next
<1> QED  BY <1>0, <1>9

\* The inductive invariant of Forward.
THEOREM ForwardInvariant == Spec => []IInv
<1>1. Init => IInv
  BY ForwardAssumption, RefusalType
     DEF Init, IInv, TypeOK, OneRow, RowsAreHeard, OutcomeIsHeard, AnswersAreRows
<1> QED  BY <1>1, NextInv, PTL DEF Spec

-----------------------------------------------------------------------------
\* All answers about one command, to whoever asked and however often, agree: two
\* rows of one id are one row, and a refusal means a row with another body.
THEOREM ForwardOneVerdict == Spec => []OneVerdict
<1>1. IInv => OneVerdict
  BY DEF IInv, OneRow, AnswersAreRows, OneVerdict
<1> QED  BY <1>1, ForwardInvariant, PTL

\* Whatever is recorded or sent as the host's verdict is one the server heard
\* from the host for that body.
THEOREM ForwardVerdictIsHosts == Spec => []VerdictIsHosts
<1>1. IInv => VerdictIsHosts
  BY RefusalType DEF IInv, RowsAreHeard, AnswersAreRows, VerdictIsHosts
<1> QED  BY <1>1, ForwardInvariant, PTL

\* No step of any forward rewrites or removes a record.
THEOREM ForwardRecordSurvives == Spec => RecordSurvives
<1>1. [Next]_vars => [table \subseteq table']_vars
  <2> SUFFICES ASSUME [Next]_vars PROVE table \subseteq table'
    OBVIOUS
  <2> QED  BY DEF Next, vars, Submit, Classify, Ask, HostFails, Record, Reread, Drop
<1> QED  BY <1>1, PTL DEF Spec, RecordSurvives
=============================================================================
