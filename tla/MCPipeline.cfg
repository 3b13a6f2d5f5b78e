SPECIFICATION Spec
CONSTANTS
  Names <- MCNames
  Keys = {"x", "y"}
  Whole = "whole"
  Call = "call"
  Pipelines <- MCPipelines
  Inputs <- MCInputs
  Selected <- MCSelected
  MaxStages = 4
INVARIANTS
  TypeOK
  PrunedAreTheStarved
  NothingPrivateShown
  ThrowsOnlyForCause
  OutputTellsTheTruth
CHECK_DEADLOCK FALSE
