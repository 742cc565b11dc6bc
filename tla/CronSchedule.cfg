SPECIFICATION SearchSpec
CONSTANTS
  Bounds <- Limits
  Days <- TwoYears
  Horizon <- CommonYear
  Starts <- Cycle
  Crons <- Expressions
  NoStep = NoStep
INVARIANTS
  NextIsStandard
CHECK_DEADLOCK FALSE
