SPECIFICATION FairSpec
CONSTANTS
  c = c
  d = d
  Controller = c
  Requests <- MCRequests
  Ports = {0, 1}
  Remotes = {c, d}
  TxqLimit = 2
  Slots = 1
  Cookies = 2
  TableSize = 1
  LittleEndian = TRUE
  MaxPackets = 1
  MaxRequests = 2
  MaxEvents = 2
INVARIANTS
  BufferIsTheReported
  RepliesWhole
PROPERTY DumpEnds
CHECK_DEADLOCK FALSE
