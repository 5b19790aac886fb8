\* The block that a search returns is the nearest one, as challoc.h says.
SPECIFICATION Spec
CONSTANTS
  MaxBlocks = 3
  Sums = {0, 1, 2}
  MaxOps = 4
INVARIANTS NearestIsFound
CHECK_DEADLOCK FALSE
