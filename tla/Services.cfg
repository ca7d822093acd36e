SPECIFICATION MCSpec
CONSTANTS
  Tasks = {t1, t2, t3, t4}
  Limits = {0, 1, 2}
  Listens = {l1, l2}
  Closes = {c1, c2}
  Connections = {k1, k2}
  Accounts = {a, b}
  InitialAccounts = {a}
  Passphrases = {p}
  Calls = {w1, w2, w3, w4}
  Filters = {f1}
  Sockets = {s1}
  Subscriptions = {n1}
  MaxBlocks = 4
  Latest = Latest
  Messages = {m1, m2}
  Batches <- MCBatches
  None = None
CHECK_DEADLOCK FALSE
INVARIANTS
  KeepsToLimit
  StartsInOrder
  StatusIsTrue
  AnswersMatch
  WalletIsExact
  ClientsAreTold
PROPERTIES
  NothingStartsAfterStop
  CallsEnd
