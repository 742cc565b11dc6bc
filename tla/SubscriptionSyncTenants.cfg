SPECIFICATION FairSpec
CONSTANTS
  acme = acme
  zeta = zeta
  s1 = s1
  s2 = s2
  cusA = cusA
  cusZ = cusZ
  Tenant = {acme, zeta}
  Sub = {s1, s2}
  Customer = {cusA, cusZ}
  HomeOf <- OneEach
  CustomerOf <- OneEachBilled
  Event = {e1, e2, e3}
  Webhook = {w1}
  Reconciler = {r1}
  ProviderStatus = {"paused"}
  Contents = {{"plan", "period"}}
  RecentCap = 2
  MaxSecond = 0
  None = None
INVARIANTS TenantIsolation
PROPERTIES EventuallyAligned
CHECK_DEADLOCK FALSE
