SPECIFICATION Spec
CONSTANTS
  Blocks = {b1, b2}
  Calls = {c1}
  Reverts = FALSE
  MaxWrites = 2
  MaxFiles = 4
  MaxSnaps = 2
INVARIANT RollbackRestores
