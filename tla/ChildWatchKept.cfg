SPECIFICATION Spec
CONSTANTS
  None = None
  m1 = m1
  m2 = m2
  Refs = {m1, m2}
  Kinds = {"spawn", "restart", "agent", "stop", "destroy"}
  UserMoves = {"stop", "start", "destroy", "namesake"}
  MaxMoves = 1
  MaxCrashes = 1
SYMMETRY Symmetry
INVARIANTS TypeOK  AgentIsThisRuns 
