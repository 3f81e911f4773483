SPECIFICATION FairSpec
CONSTANTS
  None = None
  m1 = m1
  m2 = m2
  Refs = {m1}
  Kinds = {"spawn"}
  UserMoves = {"stop", "start", "destroy"}
  MaxMoves = 1
  MaxCrashes = 1
PROPERTIES Settles DeathTold
