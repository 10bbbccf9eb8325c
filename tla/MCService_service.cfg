\* Two instances start together, on a fresh database or over the tables of an earlier
\* release, while a host writes; one request at a time.  If every start fails, nothing is left.
SPECIFICATION FairSpec
CONSTANTS
  i1 = i1
  i2 = i2
  h1 = h1
  r1 = r1
  x1 = x1
  y1 = y1
  Instances = {i1, i2}
  Hosts = {h1}
  Found = {0, 2}
  MaxAttempts = 2
  MaxFaulty = 1
  Requests = {r1}
  Tokens <- MCTokens
  Names = {x1, y1}
  ScopeIds = {x1}
  Algorithm = "HS256"
  Leeway = 1
  MaxNow = 2
CHECK_DEADLOCK FALSE
INVARIANTS TypeOK ServingHasSchema NothingKept FailsForCause ServedIsAuthorized RefusedForCause
PROPERTIES WritesEnd StartsSettle
