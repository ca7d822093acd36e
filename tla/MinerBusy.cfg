SPECIFICATION MCSpec
CONSTANTS
  Txs <- DefaultTxs
  NoTx = NoTx
  Loops = {1, 2}
  blockGasLimit = 10
  TRANSACTION_GAS = 1
  Instamine = TRUE
  Modes <- NoModes
  MaxCalls = 1
  MaxUnsaved = 1
  IntervalTxs <- PricedTxs
  IntervalLimit = 5
  IntervalModes <- IntervalMCModes
  IntervalCalls = 3
  MaxBlocks = 0
  GasLimits = {2}
  FirstFees = {7}
  MaxFee = 0
CHECK_DEADLOCK FALSE
PROPERTIES
  AgainIsServed
