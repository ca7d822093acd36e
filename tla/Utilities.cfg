SPECIFICATION MCSpec
CONSTANTS
  MaxAdds = 4
  MaxClears = 2
  Values = {v1, v2}
  Own = Own
  Elements <- MCElements
  Contexts <- MCContexts
  price <- MCPrice
  requestsPerSecond = 1
  WINDOW_SECONDS = 4
  AllowedRps = {1}
  Backoffs = {3}
  MaxTime = 8
  Gas <- MCGas
  Unset = Unset
  Latest = Latest
  Invalid = Invalid
  Contracts = {a, b}
  Slots = {1, 2, 3}
  Examined = a
  GasLimit = 5
  MaxResult = 2
  None = None
  Sender = sender
  Target = target
  Other = other
  Precompile = precompile
  IntrinsicGas = 2
  BaseFee = 3
  Empty = Empty
CHECK_DEADLOCK FALSE
INVARIANTS
  ResolvedInOrder
  HeapIsRight
  WindowsAreCounted
  ConfigIsAsAsked
  RerunsAreTrue
PROPERTIES
  ResultIsOwnOrFirstClear
  EstimateIsEnough
