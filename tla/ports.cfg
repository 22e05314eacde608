SPECIFICATION FairSpec
CONSTANTS
  p1 = p1
  lo = lo
  m1 = m1
  Port = {p1, lo}
  OFPP_LOCAL = lo
  Mac = {m1}
  NULL = NULL
  MaxChanges = 2
  MaxMods = 1
  MaxMoves = 1
  MaxRequests = 1
  MaxLosses = 1
INVARIANTS
  ViewAgrees
  
PROPERTY Settles
