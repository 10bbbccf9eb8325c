\* Two forwards at once, two bodies, a host that may not answer.
SPECIFICATION Spec
CONSTANTS
  p1 = p1
  p2 = p2
  i1 = i1
  b1 = b1
  b2 = b2
  Forwards = {p1, p2}
  Ids = {i1}
  Bodies = {b1, b2}
  MaxSeq = 3
SYMMETRY Symmetry
INVARIANTS TypeOK OneVerdict VerdictIsHosts
PROPERTIES RecordSurvives
