SPECIFICATION MCSpec
CONSTANTS
  ChainId = 3
  Chains = {3, 4}
  Alice = Alice
  Bob = Bob
  Accounts = {Alice, Bob}
  Requests <- MCRequests
  Fees = {2, 9}
  Gwei = 1
  defaultGasPrice = 6
  defaultMaxFee = 8
  baseFee = 5
  MaxNonce = 1
  MaxWires = 1
  MaxCalls = 3
  Null = Null
  Txs <- MixedTxs
  Scenarios <- MixedScenarios
  NoTx = NoTx
  priceBump = 10
  StartNonces = {0}
  Racing = {FALSE, TRUE}
  MaxAtOnce = 2
  MaxReverts = 1
CHECK_DEADLOCK FALSE
INVARIANTS
  SignedAsAsked
  AcceptsItsOwn
  StoredIsItself
  PoolIsExact
