SPECIFICATION Spec
CONSTANTS
  acme = acme
  zeta = zeta
  s1 = s1
  s2 = s2
  cusA = cusA
  cusZ = cusZ
  Tenant = {acme}
  Sub = {s1, s2}
  Customer = {cusA}
  HomeOf <- BothAcme
  CustomerOf <- BothBilled
  Event = {e1, e2, e3}
  Webhook = {w1, w2}
  Reconciler = {}
  ProviderStatus = {"trialing"}
  Contents = {{}, {"plan"}, {"period"}, {"plan", "period"}}
  RecentCap = 3
  MaxSecond = 1
  None = None
INVARIANTS ShowsALatestEvent
PROPERTIES AppliedOnce
CHECK_DEADLOCK FALSE
