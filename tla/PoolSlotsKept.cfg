SPECIFICATION Spec
CONSTANTS
  c1 = c1
  c2 = c2
  p1 = p1
  p2 = p2
  None = None
  Container = {c1, c2}
  Process = {p1, p2}
  Slots = {0, 1}
  MaxFaults = 1
  MaxKills = 1
  MaxRemovals = 1
SYMMETRY Symmetry
INVARIANTS TypeOK DeviceLinked Exclusive
