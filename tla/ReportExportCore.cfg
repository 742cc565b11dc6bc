SPECIFICATION Spec
CONSTANTS
  Principal = {ann, bob}
  Export = {x1}
  Download = {d1, d2}
  Job = {j1, j2}
  PageLimit = 2
  MaxRows = 3
  MaxSize = 4
  MaxRefresh = 2
  None = None
SYMMETRY Interchangeable
INVARIANTS
  StoredIsOneSnapshot
  OvertakenIsNotStored
  FilesAreOnRecord
CHECK_DEADLOCK FALSE
