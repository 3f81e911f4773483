SPECIFICATION FairSpec
CONSTANTS
  None = None
  p1 = p1
  p2 = p2
  Req = {p1}
  MaxSize = 2
  Cap = 2
  MaxHost = 1
  MaxCrashes = 1
  MaxFaults = 1
INVARIANTS AtMostOnce 
PROPERTIES PublishSettles
