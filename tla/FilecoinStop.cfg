SPECIFICATION StopSpec
CONSTANTS
  Messages = {m1}
  From <- MCFrom
  MineOf <- MCMineOf
  Signable = {}
  GivenNonces = {}
  Autos = {a1}
  Mines = {mine}
  Intervals = {i1}
  MaxHeight = 2
  Switches = 0
  Deals = {d1}
  Others = {}
  Active = 4
  Duration = 5
  Racing = FALSE
  MessageGas = 1
  SendBase = 1
  TransferGas = 1
  DefaultPremium = 2
  MinimumBaseFee = 1
  BlockGasLimit = 4
  TotalFilecoin = 4
  Amounts = {0}
  Funds = {2}
  Clients = {c1}
  MaxCalls = 0
  MaxDrawn = 1
  TotalAccounts = 1
  DefaultBalance = 2
  Amount = 1
  Seeded = FALSE
  Readers = {r1}
  Subscribers = {s1}
  MaxMined = 1
  MaxCrashes = 0
  MaxMessages = 0
  NumNewBlocks = 2
  None = None
CHECK_DEADLOCK FALSE
PROPERTIES
  StopEnds
