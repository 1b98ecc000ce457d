CONSTANTS
  IntBits       = 8
  LoopIterations = 0
  Players      <- MCPlayers
  Documents    <- MCDocuments
  Aliases      <- MCAliases
  PlayersWords <- MCPlayersWords
SPECIFICATION Spec
\* The server loads its game once, at start-up, and never again.
CHECK_DEADLOCK FALSE
INVARIANT NoPartialTree
