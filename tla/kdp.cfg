SPECIFICATION Spec
CONSTANTS
  d1 = d1
  d2 = d2
  c1 = c1
  Idx = {0, 1}
  Devs = {d1, d2}
  OfDev = OfDev
  Cpus = {c1}
  Slots = {0, 1}
  OFPP_LOCAL = OFPP_LOCAL
  Events = {"CHANGE", "DOWN", "UP", "UNREGISTER"}
  Faults = TRUE
  TxQueueLen = 1
  MaxDps = 2
  MaxPorts = 3
  MaxFrames = 1
  MaxEvents = 1
INVARIANTS
  FrameUsesLivePort
  TimeoutUsesLiveChain
  PointersAreLive
SYMMETRY MCSym
CHECK_DEADLOCK FALSE
