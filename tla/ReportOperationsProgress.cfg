SPECIFICATION FairSpec
CONSTANTS
  Op = {o1}
  User = {u1}
  Query = {q1}
  Call = {c1}
  Delivery = {d1, d2}
  Job = {j1, j2}
  Reader = {r1}
  MaxAttempts = 2
  MaxVersion = 0
  None = None
INVARIANTS ShownEndIsStored
PROPERTIES
  JobbedOperationSettles
