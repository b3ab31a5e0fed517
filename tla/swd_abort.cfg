SPECIFICATION Spec
CONSTANTS
  Cmds <- MCCmds
  ABORT_CMD <- MCAbort
  CTRLSTAT_R_CMD <- MCCtrlstat
  AbortWord <- MCAbortWord
  Words <- MCWords
  DataBits = 32
  Acks = {1, 4}
  MaxTries = 100
  ResetOnes = 50
INVARIANTS
  AbortWritten
