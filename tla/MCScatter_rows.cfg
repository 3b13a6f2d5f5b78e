SPECIFICATION Spec
CONSTANTS
  MaxWidth = 2
  MaxHeight = 5
  Geometries <- MCGeometries
  PixelBudgets = {2, 3, 4}
  PixelChecks = {"as written"}
INVARIANT EveryPartHasARow
CHECK_DEADLOCK FALSE
