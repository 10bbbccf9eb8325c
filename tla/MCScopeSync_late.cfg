\* Three pulls in flight that overtake each other; no fault and no damage.
SPECIFICATION Spec
CONSTANTS
  x1 = x1
  y1 = y1
  Rows = {x1, y1}
  AppendOnly = {}
  Ops = {"upsert"}
  DigestOps = {"upsert", "alien"}
  StorageMay = {"Commit"}
  Reorder = TRUE
  MaxHealAttempts = 3
  MaxSeq = 3
  MaxNet = 3
  MaxFaults = 0
  MaxDamage = 0
INVARIANTS TrustedHasEverything
