CONSTANTS
  IntBits       <- MCIntBits
  LoopIterations <- MCLoopIterations
  Players       <- MCPlayers
  Programs      <- MCPrograms
  GlobalInit    <- MCGlobalInit
  PerPlayerInit <- MCPerPlayerInit
  Aliases       <- MCAliases
  PlayersWords  <- MCPlayersWords
SPECIFICATION Spec
INVARIANTS
  TypeOK
  ScopeMatchesStack
