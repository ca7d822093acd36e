SPECIFICATION MCSpec
CONSTANTS
  Messages = {m1, m2}
  Signable = {m2}
  GivenNonces = {0}
  Autos = {a1, a2}
  From <- MCFrom
  MineOf <- MCMineOf
  Mines = {mine}
  Intervals = {i1}
  MaxHeight = 2
  Switches = 1
  Deals = {d1, d2}
  Others = {o1}
  Active = 4
  Duration = 5
  Racing = FALSE
  MessageGas = 1
  SendBase = 1
  TransferGas = 1
  DefaultPremium = 2
  MinimumBaseFee = 1
  BlockGasLimit = 4
  TotalFilecoin = 4
  Amounts = {0, 1, 3, 5}
  Funds = {2, 9, 20}
  Clients = {c1, c2}
  MaxCalls = 3
  MaxDrawn = 3
  TotalAccounts = 1
  DefaultBalance = 2
  Amount = 1
  Seeded = FALSE
  Readers = {r1}
  Subscribers = {s1}
  MaxMined = 2
  MaxCrashes = 1
  MaxMessages = 1
  NumNewBlocks = 2
  None = None
CHECK_DEADLOCK FALSE
INVARIANTS
  MessagesAreSound
  StoreIsSound
  AccountsAreSound
PROPERTIES
  QuietOnceStopped
  DealsEnd
