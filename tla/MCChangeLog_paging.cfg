\* One device pages with a ceiling of one row through upserts and deletes that
\* two hosts commit meanwhile, not always in seq order.
SPECIFICATION Spec
CONSTANTS
  r1 = r1
  r2 = r2
  s1 = s1
  s2 = s2
  w1 = w1
  w2 = w2
  x = x
  y = y
  Readers = {r1}
  Sessions = {s1}
  Conn <- MCOwnConn
  Writers = {w1, w2}
  Autocommit = {}
  Rows = {x, y}
  Visible <- MCVisible
  Failing = {}
  Limit = 1
  MaxSeq = 4
SYMMETRY MCWriterSymmetry
INVARIANTS NeverSkips
