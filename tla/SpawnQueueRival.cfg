SPECIFICATION Spec
CONSTANTS
  None = None
  o1 = o1
  o2 = o2
  c1 = c1
  c2 = c2
  r1 = r1
  r2 = r2
  r3 = r3
  Orch = {o1, o2}
  Child = {c1, c2}
  Req = {r1, r2, r3}
  Who <- RivalWho
  Target <- RivalTarget
  Kind <- RivalKind
  Owner <- RivalOwner
  Status <- RivalStatus
  UserMoves = {"start", "adopt"}
  MaxLimit = 1
  MaxCrashes = 0
INVARIANTS SlotsSeen NoDoubleStart
PROPERTIES NoOvertaking
