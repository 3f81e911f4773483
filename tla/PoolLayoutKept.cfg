SPECIFICATION LiveSpec
CONSTANTS
  None = None
  e1 = e1
  e2 = e2
  e3 = e3
  p1 = p1
  p2 = p2
  Entry = {e1, e2, e3}
  Process = {p1, p2}
  MaxKills = 1
  MaxStrays = 1
INVARIANTS TypeOK 
PROPERTIES RootClears
