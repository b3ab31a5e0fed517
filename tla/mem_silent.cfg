SPECIFICATION Spec
CONSTANTS
  Addrs <- MCAddrs
  Mapped = {0, 1, 2, 3, 4, 5, 7}
  Block = 4
  Word <- MCWord
  Requests <- FewRequests
  Memories <- MCMemories
  Chunk = 2
  MAX_COMS = 11
  Removable = TRUE
  NoFile = NoFile
PROPERTIES
  FetchDelivers
