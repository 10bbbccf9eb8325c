\* A damaged row under an adapter that keeps its contract: detection, rebuilds,
\* escalation, restarts, and where it all ends.
SPECIFICATION FairSpec
CONSTANTS
  x1 = x1
  y1 = y1
  Rows = {x1, y1}
  AppendOnly = {}
  Ops = {"upsert", "delete"}
  DigestOps = {"upsert", "alien"}
  StorageMay = {"Commit", "FailBeforeCommit"}
  Reorder = FALSE
  MaxHealAttempts = 2
  MaxSeq = 3
  MaxNet = 1
  MaxFaults = 2
  MaxDamage = 1
INVARIANTS HealthIsStored TrustedHasEverything
PROPERTIES EscalationSurvives Converges
