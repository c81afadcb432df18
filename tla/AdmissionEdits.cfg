\* Submissions, a retry and a deletion that overlap.
SPECIFICATION FairAdmission
CONSTANTS
  q1 = q1
  q2 = q2
  q3 = q3
  k1 = k1
  k2 = k2
  k3 = k3
  small = small
  large = large
  r1 = r1
  r2 = r2
  d1 = d1
  Request = {q1, q2}
  Key = {k1}
  Body = {small}
  NoRequest = NoRequest
  Retrier = {r1}
  Deleter = {d1}
  Creation = Creation
  MaxConcurrentRuns = 1
  MaxVcpu = 2
  Vcpu <- SmallAndLarge
INVARIANT ProvisioningHasAnOperation
PROPERTY NobodyHangs
CHECK_DEADLOCK FALSE
