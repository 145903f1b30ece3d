SPECIFICATION FairSpec
CONSTANTS
  Starts = {p1, p2}
  Configs <- MCConfigs
  InitialFiles <- MCInitialFiles
  ChainId = 40204
  ChainIds = {1, 40204}
  Sample = 2
  Default = 2
  Quantities = {1, 2, 7}
  MaxStarts = 3
CHECK_DEADLOCK FALSE
INVARIANTS
  TypeOK
  SurfaceGetsIn
PROPERTY
  StartDecides
