CONSTANTS
  IntBits        = 8
  LoopIterations = 0
  Aliases        <- MCAliases
  PlayersWords   <- MCPlayersWords
  ConfigFiles    <- MCConfigFiles
  GameFiles      <- MCGameFiles
  GameNames      <- MCGameNames
SPECIFICATION Spec
\* setupConfig ends in std::exit or hands over to GameServer::run, and the
\* client joins once: every behaviour stops.
CHECK_DEADLOCK FALSE
INVARIANTS
  TypeOK
  LaunchRequiresValidConfig
  InviteCodeReachesServer
