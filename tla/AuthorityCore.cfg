SPECIFICATION Spec
CONSTANTS
  User = {u1, demo}
  Demo = demo
  Tenant = {t1, t2}
  Session = {s1, s2}
  Browser = {b1}
  Device = {d1}
  Request = {r1, r2, r3}
  RolesInPlay = {"owner", "viewer"}
  Ways <- MCWays
  Asked <- MCAsked
  Said <- MCSaid
  Memberships <- MCMemberships
  Provider = {web, other}
  Uri = {home, away}
  Deployments <- MCDeployments
  Changes = 1
  Concurrent = 2
  None = None
  u1 = u1
  t1 = t1
  t2 = t2
  web = web
  other = other
  home = home
SYMMETRY Interchangeable
INVARIANTS
  SignInIsVouched
PROPERTIES
  TenantIsRight
  NothingStaleActs
CHECK_DEADLOCK FALSE
