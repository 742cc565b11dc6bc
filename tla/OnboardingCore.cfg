SPECIFICATION Spec
CONSTANTS
  None = None
  Base = {acme}
  Tries = 2
  Flow = {f1, f2, f3}
  Email = {ann, bob}
  Invite = {i1}
  Kinds = {"link", "invited", "member", "graduate", "revoke"}
SYMMETRY Symmetric
INVARIANTS FoundersAreAtHome
PROPERTIES OnlyVerifiedAdopts InvitationsEndOnce
