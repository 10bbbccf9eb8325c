\* A row arrives under a schema the app cannot migrate, and is written again.
SPECIFICATION Spec
CONSTANTS
  x1 = x1
  y1 = y1
  Rows = {x1}
  AppendOnly = {}
  Ops = {"upsert", "alien"}
  DigestOps = {"upsert", "alien"}
  StorageMay = {"Commit"}
  Reorder = FALSE
  MaxHealAttempts = 3
  MaxSeq = 2
  MaxNet = 1
  MaxFaults = 0
  MaxDamage = 0
INVARIANTS NoFalseAlarm
