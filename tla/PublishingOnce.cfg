SPECIFICATION Spec
CONSTANTS
  None = None
  p1 = p1
  p2 = p2
  Req = {p1, p2}
  MaxSize = 2
  Cap = 2
  MaxHost = 1
  MaxCrashes = 1
  MaxFaults = 0
SYMMETRY Symmetry
INVARIANTS TypeOK  CapHeld OneWorker
PROPERTIES NeverRetried
