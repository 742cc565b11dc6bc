SPECIFICATION ApplicationSpec
CONSTANTS
  Ip = {ip1, ip2}
  Email = {mail}
  Limit = 2
  WindowLength = 3
  Second = 2
  MaxKeys = 2
  LastTime = 8
  Call = {c1, c2}
  Explicit = {stub}
  Promise = {p1, p2, p3, p4}
  Uses = {"limiter", "billing", "sessions", "demo", "page", "start", "gate"}
  Faults = 2
  Tenant = {t1, t2}
  Fetch = {f1, f2, f3}
  RequestId = {i1, i2}
  Upsets = 2
  Env = Env
  None = None
  w1 = w1
  w2 = w2
  k1 = k1
  k2 = k2
  r1 = r1
  r2 = r2
  Container = {w1, w2}
  Check = {k1, k2}
  Setups <- MCSetups
  Gate = {r1, r2}
  GateSetups <- MCGateSetups
INVARIANTS
  LimiterIsSound
  PanelIsSound
  ServesWhatIsSeeded
  SmokeIsFair
  PassMeansTested
PROPERTIES
  NothingStaleIsAdopted
  DemoRecovers
  ToolsAnswerTruly
  ContainersComeUp
CHECK_DEADLOCK FALSE
