SPECIFICATION ModFairSpec
CHECK_DEADLOCK FALSE
CONSTANTS
  Procs = {p1, p2, p3}
  Blocks = {b1, b2, b3}
  NULL = NULL
  Boards = {"raspi4", "raspi3"}
INVARIANTS
  ModTypeOK
  ExclusiveOwner
  LockMatchesOwner
  BuffersLive
  FreesOnlyLive
  NoLeak
  HandlersBacked
  CrashLocks
PROPERTIES
  LockComesFree
