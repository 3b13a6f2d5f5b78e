SPECIFICATION Spec
CONSTANTS
  MaxWidth = 2
  MaxHeight = 5
  Geometries <- MCGeometries
  PixelBudgets = {0, 1, 2, 3, 4, 6}
  PixelChecks = {"as written", "as worded"}
INVARIANTS TypeOK RowsPartitioned StagedImageWhole LostJustForCause
PROPERTIES TaskEnds
CHECK_DEADLOCK FALSE
