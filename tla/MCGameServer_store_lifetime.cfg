CONSTANTS
  IntBits       = 8
  LoopIterations = 0
  Connections  <- MCConnections
  Texts        <- MCTexts
  GameDatas    <- MCGameDatas
  MaxBatch     <- MCMaxBatch
  Aliases      <- MCAliases
  PlayersWords <- MCPlayersWords
SPECIFICATION Spec
\* The process ends after "shutdown", an update error or a crash.
CHECK_DEADLOCK FALSE
INVARIANT StoreLivesForSession
