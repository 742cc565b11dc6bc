SPECIFICATION Spec
CONSTANTS
  Op = {o1}
  User = {u1, u2}
  Query = {q1}
  Call = {c1, c2}
  Delivery = {d1, d2}
  Job = {j1, j2}
  Reader = {}
  MaxAttempts = 2
  MaxVersion = 1
  None = None
SYMMETRY Interchangeable
INVARIANTS
  OneJobPerOperation
  Consent
  ResultExactlyWhenCommitted
  RecordsAgree
PROPERTIES
  ImplementsContract
