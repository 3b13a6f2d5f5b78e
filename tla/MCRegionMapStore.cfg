SPECIFICATION Spec

CONSTANTS
  m1 = m1
  m2 = m2
  p = p
  d = d
  e = e
  r1 = r1
  r2 = r2
  Maps <- MCMaps
  Blocks <- MCBlocks
  PalettesOf <- MCPalettesOf
  DataOf <- MCDataOf
  RootOf <- MCRootOf
  NoMap = noMap
  i1 = i1
  i2 = i2
  l1 = l1
  l2 = l2
  Writers <- MCWriters
  Readers <- MCReaders
  CacheSize = 2
  MaxFaults = 1

SYMMETRY CallSymmetry

CHECK_DEADLOCK FALSE

INVARIANTS
  TypeOK
  RootMeansMap
  CacheTellsTheTruth
  GetFailsOnlyForCause
  NeverStuck
  NobodyWaitsInVain

PROPERTIES
  CallsGoForward
