SPECIFICATION FairSpec
CONSTANTS
  stm_info <- MCInfo
  stm_sequences <- MCSequences
  Targets <- MCTargets
  Words = 2
INVARIANTS
  TypeOK
  IdentifiedRight
  ImageStays
  Released
PROPERTIES
  StartedRight
  CommandReturns
