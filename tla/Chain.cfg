SPECIFICATION FairSpec
CONSTANTS
  None = None
  MaxBlocks = 3
  MaxReverts = 2
  MaxSnapshots = 2
  MaxCrashes = 1
  Eager = {TRUE, FALSE}
  Overlap = {{}, {"mine"}, {"event"}}
CHECK_DEADLOCK FALSE
INVARIANTS
  DatabaseIsSound
PROPERTIES
  RevertIsExact
  MinerGoesOn
