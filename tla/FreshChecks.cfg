\* A preflight that is cached answers for another run with the same configuration.
SPECIFICATION Spec
CONSTANTS
  Run = {1, 2}
  Scheduler = {s1}
  Ask <- ShortThenLong
  Row <- LiteRow
  Policy <- Policies
  Adopted <- OldPolicies
  Budget <- OneBudget
  Drift = {"dispatch", "trust", "steady"}
  Lost = {}
  Release = {71, 80}
  Label = 71
  TopReleases = 3
  GravitonFrom = 69
  DefaultTimeout = 2
  Ttl = 2
  CacheMax = 1
  MaxAttempts = 2
  MaxChanges = 1
  Estimate <- Estimates
  Bill <- Bills
  Limit = 1
  MaxPeriod = 1
  MaxFailures = 1

PROPERTIES RunChecksAreFresh
CHECK_DEADLOCK FALSE
