\* An update that rewrites the payload of a command already sent.
SPECIFICATION Spec
CONSTANTS
  c1 = c1
  c2 = c2
  p1 = p1
  p2 = p2
  b1 = b1
  b2 = b2
  Commands = {c1}
  Versions = {1, 2}
  Class <- MCClass
  Steps <- MCSteps
  MaxBatch = 1
  Forwards = {p1}
  Bodies = {b1, b2}
  MaxSeq = 1
  Payload <- MCPayloadRewritten
  Protocols = {2}
  MaxNet = 1
  MaxFaults = 1
INVARIANTS ShownIsVerdict
