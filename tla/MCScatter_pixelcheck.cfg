SPECIFICATION Spec
CONSTANTS
  MaxWidth = 2
  MaxHeight = 3
  Geometries <- MCGeometries
  PixelBudgets = {2, 4}
  PixelChecks = {"as written"}
INVARIANT CorrectSizeAccepted
CHECK_DEADLOCK FALSE
