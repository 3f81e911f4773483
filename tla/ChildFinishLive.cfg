SPECIFICATION FairSpec
CONSTANTS
  None = None
  d1 = d1
  d2 = d2
  o1 = o1
  o2 = o2
  o3 = o3
  o4 = o4
  Dones = {d1}
  Orders = {}
  Asks <- NoOrders
  UserMoves = {"parent"}
  MaxCommits = 1
  MaxCrashes = 1
INVARIANTS TypeOK ReportedFirst DoneKept ReplyKept
PROPERTIES ParkedDelivered MarkerSettled
