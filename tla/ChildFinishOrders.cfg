SPECIFICATION Spec
CONSTANTS
  None = None
  d1 = d1
  d2 = d2
  o1 = o1
  o2 = o2
  o3 = o3
  o4 = o4
  Dones = {}
  Orders = {o1, o2, o3, o4}
  Asks <- AllOrders
  UserMoves = {"start", "stop"}
  MaxCommits = 2
  MaxCrashes = 0
INVARIANTS  ImportsReal
