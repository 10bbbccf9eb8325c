\* Pipelined pulls over a network that loses and repeats, storage that fails and
\* lies, restarts, one damaged row.
SPECIFICATION Spec
CONSTANTS
  x1 = x1
  y1 = y1
  Rows = {x1, y1}
  AppendOnly = {y1}
  Ops = {"upsert", "delete"}
  DigestOps = {"upsert", "alien"}
  StorageMay = {"Commit", "FailBeforeCommit", "CommitThenLoseAck"}
  Reorder = FALSE
  MaxHealAttempts = 3
  MaxSeq = 3
  MaxNet = 2
  MaxFaults = 2
  MaxDamage = 1
INVARIANTS TypeOK MemoryIsStorage DigestDescribesRows NoFalseAlarm
PROPERTIES CursorMonotone
