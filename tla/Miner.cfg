SPECIFICATION MCSpec
CONSTANTS
  Txs <- DefaultTxs
  NoTx = NoTx
  Loops = {1, 2}
  blockGasLimit = 10
  TRANSACTION_GAS = 1
  Instamine = TRUE
  Modes <- NoModes
  MaxCalls = 0
  MaxUnsaved = 2
  IntervalTxs <- PricedTxs
  IntervalLimit = 5
  IntervalModes <- IntervalMCModes
  IntervalCalls = 3
  MaxBlocks = 5
  GasLimits = {2, 7, 12}
  FirstFees <- MCFirstFees
  MaxFee = 60
CHECK_DEADLOCK FALSE
INVARIANTS
  OneLoopAtATime
  BlocksAreSound
  FeeMovesByAnEighth
  DefaultIsEnough
PROPERTIES
  MinedBestFirst
