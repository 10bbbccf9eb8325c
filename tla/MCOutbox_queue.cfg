\* Two kinds of command the registry admits and one it refuses; every way a
\* transaction can end; responses with repeated and contradicting results.
SPECIFICATION FairSpec
CONSTANTS
  c1 = c1
  c2 = c2
  c3 = c3
  Commands = {c1, c2, c3}
  Versions = {1, 2}
  Class <- MCClass
  Steps <- MCStepsGap
  MaxBatch = 2
  MaxResults = 3
  MaxFaults = 3
INVARIANTS TypeOK MemoryIsStorage NothingLost OneOutcome SupersededDraftIsRecovered
PROPERTIES PushesOnlyPending OnlyHeldIsOvertaken EveryCommandResolves
