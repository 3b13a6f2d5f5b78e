SPECIFICATION Spec
CONSTANTS
  Maps <- MCMaps
  Payload = 3
  MaxNumber = 300
INVARIANTS
  TypeOK
  NumbersKeepTheirPlaces
  ListsRestored
  BandPlotsItsRows
CHECK_DEADLOCK FALSE
