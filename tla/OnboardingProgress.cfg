SPECIFICATION FairSpec
CONSTANTS
  None = None
  Base = {acme}
  Tries = 1
  Flow = {f1, f2, f3}
  Email = {ann, bob}
  Invite = {i1}
  Kinds = {"link", "member", "crash"}
INVARIANTS FailedSignUpLeavesNothing
PROPERTIES EveryFlowEnds
