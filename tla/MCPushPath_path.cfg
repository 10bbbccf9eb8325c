\* Two commands, one forward at a time, an app update and a server deployment in
\* any order, migrations that leave payloads alone, one fault of any kind.
SPECIFICATION FairSpec
CONSTANTS
  c1 = c1
  c2 = c2
  p1 = p1
  p2 = p2
  b1 = b1
  b2 = b2
  Commands = {c1, c2}
  Versions = {1, 2}
  Class <- MCClass
  Steps <- MCSteps
  MaxBatch = 2
  Forwards = {p1}
  Bodies = {b1}
  MaxSeq = 1
  Payload <- MCPayloadKept
  Protocols = {1, 2}
  MaxNet = 1
  MaxFaults = 1
INVARIANTS TypeOK
PROPERTIES ImplementsLedger EveryCommandIsAnswered
