CONSTANTS
  s1 = s1
  s2 = s2
  u1 = u1
  u2 = u2
  l1 = l1
  l2 = l2
  l3 = l3
  a1 = a1
  a2 = a2
  c1 = c1
  c2 = c2
  v1 = v1
  v2 = v2
  Submission = {s1}
  User = {u1, u2}
  Link = {l1, l2, l3}
  Actor = {a1, a2}
  Clerk = {c1, c2}
  Visitor = {v1, v2}
  NoSubmission = NoSubmission
  NoUser = NoUser
  NoRow = NoRow
  NoLink = NoLink
  NoActor = NoActor
SYMMETRY Symmetry
SPECIFICATION Spec
INVARIANTS IInv OneTenantPerApproval SupersededLinksAreDead OneSignInPerLink
PROPERTIES DecisionsAreFinal ActorsKeepTheirUser
CHECK_DEADLOCK FALSE
