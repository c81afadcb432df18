CONSTANTS
  q1 = q1
  q2 = q2
  q3 = q3
  k1 = k1
  k2 = k2
  k3 = k3
  small = small
  large = large
  r1 = r1
  r2 = r2
  d1 = d1
  Request = {q1, q2, q3}
  Key = {k1, k2, k3}
  Body = {small, large}
  NoRequest = NoRequest
  Retrier = {}
  Deleter = {}
  Creation = Creation
  MaxConcurrentRuns = 2
  MaxVcpu = 3
  Vcpu <- SmallAndLarge
SPECIFICATION AdmissionSpec
SYMMETRY Interchangeable
INVARIANTS RunLimitHolds VcpuLimitHolds AtMostOnce RecordMatchesEffect LoserFindsTheRow
PROPERTIES RefinesOnce
