SPECIFICATION Spec
CONSTANTS
  None = None
  d1 = d1
  d2 = d2
  o1 = o1
  o2 = o2
  o3 = o3
  o4 = o4
  Dones = {}
  Orders = {o1, o2}
  Asks <- StopThenDestroy
  UserMoves = {"start", "stop"}
  MaxCommits = 1
  MaxCrashes = 0
INVARIANTS OnlyBrokerStops
