SPECIFICATION FairSpec
CONSTANTS
  Ports = {0, 1}
  Macs = {"a"}
  MacMax = 1
  MacIdle = 2
  ReplyWait = 1
  TxLimit = 2
  LearnMacs = TRUE
  SetupFlows = TRUE
  LittleEndian = TRUE
  Probes = TRUE
  MaxPackets = 1
  MaxChanges = 1
  MaxQueries = 2
  MaxDrops = 1
  MaxWaiting = 1
PROPERTIES
  QueryEnds
  ChangeLeadsToQuery
CHECK_DEADLOCK FALSE
