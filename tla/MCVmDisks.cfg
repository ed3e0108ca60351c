SPECIFICATION Spec
CONSTANTS
  Blocks = {b1, b2}
  Calls = {c1, c2}
  Reverts = TRUE
  MaxWrites = 1
  MaxFiles = 3
  MaxSnaps = 1
SYMMETRY Symmetry
INVARIANTS TypeOK  BackupIsPointInTime
