CONSTANTS
  IntBits       <- MCIntBits
  LoopIterations <- MCLoopIterations
  Players       <- MCPlayers
  Programs      <- MCCrashPrograms
  GlobalInit    <- MCCountGlobalInit
  PerPlayerInit <- MCPerPlayerInit
  Aliases       <- MCAliases
  PlayersWords  <- MCCountPlayersWords
SPECIFICATION Spec
INVARIANT NoCrash
