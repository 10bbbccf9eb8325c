\* Two requests over one connection, as AppState.db shares it.
SPECIFICATION Spec
CONSTANTS
  r1 = r1
  r2 = r2
  s1 = s1
  s2 = s2
  w1 = w1
  w2 = w2
  x = x
  y = y
  Readers = {r1, r2}
  Sessions = {s1}
  Conn <- MCSharedConn
  Writers = {w1}
  Autocommit = {}
  Rows = {x, y}
  Visible <- MCVisible
  Failing = {}
  Limit = 1
  MaxSeq = 1
INVARIANTS NoHoleBelowWatermark
