\* Two requests on connections of their own race two host transactions, either of
\* which may never end.
SPECIFICATION FairSpec
CONSTANTS
  r1 = r1
  r2 = r2
  s1 = s1
  s2 = s2
  w1 = w1
  w2 = w2
  x = x
  y = y
  Readers = {r1, r2}
  Sessions = {s1, s2}
  Conn <- MCOwnConn
  Writers = {w1, w2}
  Autocommit = {}
  Rows = {y}
  Visible <- MCVisible
  Failing = {r1, r2}
  Limit = 1
  MaxSeq = 2
INVARIANTS TypeOK NoHoleBelowWatermark ServedIsRecorded
PROPERTIES ReaderNeverBlocked
