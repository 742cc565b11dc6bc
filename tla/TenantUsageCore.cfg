SPECIFICATION WorkspaceSpec
CONSTANTS
  c1 = c1
  c2 = c2
  c3 = c3
  m1 = m1
  Chat = {c1, c2, c3}
  Call = {m1}
  Situations <- Days
  Plans <- Offers
  Thresholds <- Limits
  LastDay = 2
  MonthDays = 2
  Tenant = {1, 2, 3, 4}
  PageSize = 2
  None = None
  Workspace = {t1, t2}
  Customers = {t1}
  Prompting = {t1}
  Translating = {t1}
  ToolUse = {a1, a2}
  DockRequest = {q1, q2}
  Message = {first, second}
  Slips = 2
INVARIANTS
  QuotaHolds
  RoomsMakeSense
  AuditIsComplete
PROPERTIES
  ShellIsSound
SYMMETRY Interchangeable
CHECK_DEADLOCK FALSE
