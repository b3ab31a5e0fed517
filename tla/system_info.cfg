SPECIFICATION FairSpec
CONSTANTS
  Targets <- MCTargets
  arm_comp <- MCarm_comp
  MaxAPs = 3
  RomEntries = 4
  Pages = 16
  MaxDepth = 3
INVARIANTS
  TypeOK
  WalkComplete
PROPERTIES
  DetectSystemReturns
