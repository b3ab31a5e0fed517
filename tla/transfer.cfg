SPECIFICATION ComFairSpec
CONSTANTS
  Cmds = {c1, c2, h}
  Headless = {h}
  None = None
  Acks = {1, 2, 4}
  Size = 3
  MaxCount = 3
  MaxRead = 4
  UintMod = 7
  MaxOther = 2
INVARIANTS
  TypeOK
  RepliesMatchRequest
  InBounds
  LevelsReset
  StuckLockShows
  RepliesInPlace
  NeverRefused
PROPERTIES
  UnreadKept
  ResultIsTruth
  TransferReturns
