SPECIFICATION MCSpec
CONSTANTS
  Parts = {"clock", "reads", "things"}
  Second = 2
  Increments = {2}
  SystemClock = SystemClock
  Starts = {5}
  ChainTimes = {2, 9}
  Shifts <- MCShifts
  Settings = {4}
  Stamps = {4}
  Undefined = Undefined
  MaxNow = 6
  MaxBlocks = 3
  MaxSnapshots = 2
  MaxWanted = 2
  Txs = {t1, t2}
  None = None
  Latest = Latest
  Modes <- ForkOrNot
  Requests <- AllMethods
  ForkNumber = 1
  MaxReverts = 1
SYMMETRY Symmetric
CHECK_DEADLOCK FALSE
INVARIANTS
  TimesInOrder
  AppliedOnce
  AnswersAreSound
