SPECIFICATION LiveSpec
CONSTANTS
  MaxSent = 2
  MaxHost = 1
  MaxTime = 1
  MaxInst = 2
  MaxFaults = 1
  MaxKills = 1
INVARIANTS TypeOK NothingLost
PROPERTIES KeepsPromise ParkedFlushed
