\* Two environments on one cluster, each preflighted twice at a time, one
\* preflight that only checks; one provisioning pass, one edit, one fault.
SPECIFICATION FairTrust
CONSTANTS
  e1 = e1
  e2 = e2
  p1 = p1
  p2 = p2
  s1 = s1
  s2 = s2
  own = own
  f1 = f1
  f2 = f2
  f3 = f3
  f4 = f4
  g1 = g1
  Environment = {e1, e2}
  Provider = {p1, p2}
  Sub = {s1, s2, own}
  EmrSub = {s1, s2}
  ProviderOf <- OneCluster
  PatternOf <- Patterns
  Preflight = {f1, f2, f3, f4}
  Provisioner = {g1}
  For <- ForWhom
  AutoFixing = {f1, f2, f3}
  CustomerPolicies <- Policies
  MaxPasses = 1
  MaxEdits = 1
  MaxFaults = 1
INVARIANTS UpdateSuffices
PROPERTIES UpdatesOnlyAdd UpdatesAreTidy Converges
