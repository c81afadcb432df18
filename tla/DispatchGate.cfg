\* One environment, its provisioning, two runs with one configuration, and their cost.
SPECIFICATION FairSpec
CONSTANTS
  Run = {1, 2}
  Scheduler = {s1}
  Ask <- LongThenShort
  Row <- LiteRow
  Policy <- Policies
  Adopted <- OldPolicies
  Budget <- OneBudget
  Drift = {"dispatch", "trust", "steady"}
  Lost = {}
  Release = {71, 80}
  Label = 71
  TopReleases = 3
  GravitonFrom = 69
  DefaultTimeout = 2
  Ttl = 2
  CacheMax = 1
  MaxAttempts = 2
  MaxChanges = 2
  Estimate <- Estimates
  Bill <- Bills
  Limit = 1
  MaxPeriod = 1
  MaxFailures = 1
INVARIANTS GateTypeOK ReadyMeansItsOwnCluster
PROPERTIES ClearedOnRecentChecks FailedOnRecentChecks ActualIsFinal ReconciledUnlessStarved
CHECK_DEADLOCK FALSE
