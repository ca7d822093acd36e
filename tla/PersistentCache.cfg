SPECIFICATION CacheSpec
CONSTANTS
  Parts = {"cache"}
  k1 = k1
  k2 = k2
  v1 = v1
  v2 = v2
  Zero = Zero
  None = None
  Keys <- MCKeys
  Locals <- MCLocals
  Remote <- MCRemote
  Zeroing = FALSE
  MaxDepth = 4
  MaxBlocks = 3
  Boot <- BootRequests
  Later <- LaterRequests
  Key <- KeyOf
  Uncached <- Fresh
  Transports = {"http", "ws", "provider"}
  Caching = TRUE
  MaxRefusals = 1
  Blocks <- MCBlocks
  Tips <- MCTips
  Genesis = "g"
  Branch <- MCBranch
  Gets = {1, 2}
  MaxSessions = 4
CHECK_DEADLOCK FALSE
INVARIANTS
  CacheIsSound
PROPERTIES
  GetsEnd
