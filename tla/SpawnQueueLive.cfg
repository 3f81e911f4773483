SPECIFICATION FairSpec
CONSTANTS
  None = None
  o1 = o1
  o2 = o2
  c1 = c1
  c2 = c2
  r1 = r1
  r2 = r2
  r3 = r3
  Orch = {o1}
  Child = {c1, c2}
  Req = {r1, r2}
  Who <- LineWho
  Target <- LineTarget
  Kind <- LineKind
  Owner <- LineOwner
  Status <- LineStatus
  UserMoves = {"grant"}
  MaxLimit = 1
  MaxCrashes = 1
INVARIANTS TypeOK LimitHeld StartedOnce
PROPERTIES  QueueMoves
