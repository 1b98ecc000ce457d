---------------------------- MODULE ServerSetup ----------------------------
(***************************************************************************)
(* Starting a game server and joining it (src/src/main.cpp, command "1"    *)
(* then "2" on another terminal):                                          *)
(*   - GameServer::setupConfig constructs a ServerConfig from the server   *)
(*     configuration file, reads a game name from the terminal, asks the   *)
(*     config for that game's GameData (ServerConfig::parseGamefile), and  *)
(*     either exits (config not valid) or keeps the port, the html path,   *)
(*     the invite code and the GameData for GameServer::run;               *)
(*   - executeJoinLobby reads the invite code the host passes on and       *)
(*     connects a networking::Client to the port parseInviteCode makes of  *)
(*     it.                                                                 *)
(* A file is the JSON value it holds, Unreadable when it does not open. A  *)
(* decimal string is the sequence of its digits.                           *)
(***************************************************************************)
EXTENDS JsonParser

CONSTANTS
  ConfigFiles,   \* contents "../social-gaming/data/serverconfig.json" may have
  GameFiles,     \* contents the "Test" game's file may have
  GameNames      \* the names the host may type

VARIABLES
  configFile,    \* the server configuration file
  gameFile,      \* the file gameFilepaths names for "Test"
  config,        \* setupConfig's ServerConfig object
  gameName,      \* the name read from std::cin
  gameData,      \* GameServer::gameData
  port,          \* GameServer::port
  serverHtml,    \* GameServer::serverHtml
  inviteCode,    \* GameServer::inviteCode
  clientPort,    \* the port string executeJoinLobby hands networking::Client
  pc             \* "menu", "construct", "game", "check", "launched", "exited",
                 \* "joined"

vars == <<configFile, gameFile, config, gameName, gameData, port, serverHtml,
          inviteCode, clientPort, pc>>

\* fileStream.open(path) fails.
Unreadable == [unreadable |-> TRUE]

\* ServerConfig::gameFilepaths: the names with a game file.
KnownGames == {"Test"}

\* A ServerConfig whose configure() did not run: valid defaults to false and
\* port is never read.
NoConfig == [valid |-> FALSE, port |-> 0, htmlFilepath |-> JNull]

\* A port field as wide as the JSON number.
UnsignedShortUnnarrowed(n) == n

\* json -> unsigned short: a static_cast of the unsigned value, modulo 2^16.
UnsignedShort(n) == n % 2^16

\* ServerConfig::configure.
Configure(c, d) ==
  [c EXCEPT !.port = UnsignedShort(Field(d, "port").int),
            !.htmlFilepath = Field(d, "serverhtml"),
            !.valid = TRUE]

\* A ServerConfig whose valid flag starts out true.
ServerConfigValidByDefault(file) ==
  IF file = Unreadable THEN NoConfig
  ELSE LET d == ParseJsonFileServerConfig(file)
       IN IF IsNull(d) THEN [NoConfig EXCEPT !.valid = TRUE] ELSE Configure(NoConfig, d)

\* ServerConfig::ServerConfig: an unopenable file clears valid; a file that
\* does not validate returns early, leaving valid at its default.
ServerConfig(file) ==
  IF file = Unreadable THEN NoConfig
  ELSE LET d == ParseJsonFileServerConfig(file)
       IN IF IsNull(d) THEN NoConfig ELSE Configure(NoConfig, d)

\* std::to_string of an unsigned short: its decimal digits.
RECURSIVE Digits(_)
Digits(n) == IF n < 10 THEN <<n>> ELSE Digits(n \div 10) \o <<n % 10>>

\* ServerConfig::generateInviteCode: the port's digits, reversed.
GenerateInviteCode(p) == Reverse(Digits(p))

\* A parseInviteCode that takes the invite code as the port.
ParseInviteCodeUnreversed(code) == code

\* main.cpp's parseInviteCode: the invite code's characters, reversed.
ParseInviteCode(code) == Reverse(code)

\* The number a decimal port string names, as the client's resolver reads it.
FromDigits(s) == FoldLeft(LAMBDA acc, d : 10 * acc + d, 0, s)

-----------------------------------------------------------------------------
Init ==
  /\ configFile \in ConfigFiles
  /\ gameFile \in GameFiles
  /\ config = NoConfig
  /\ gameName = ""
  /\ gameData = InvalidGameData
  /\ port = 0 /\ serverHtml = JNull /\ inviteCode = <<>>
  /\ clientPort = <<>>
  /\ pc = "menu"

\* main: std::cin >> command.  "1" hosts (this process); "2" is the joining
\* process of JoinLobby; any other word is logged and std::exit(1).
MainMenu ==
  /\ pc = "menu"
  /\ \E command \in {"1", "other"} :
       pc' = IF command = "1" THEN "construct" ELSE "exited"
  /\ UNCHANGED <<configFile, gameFile, config, gameName, gameData, port,
                 serverHtml, inviteCode, clientPort>>

\* ServerConfig config{"../social-gaming/data/serverconfig.json"}.
ConstructConfig ==
  /\ pc = "construct"
  /\ config' = ServerConfig(configFile)
  /\ pc' = "game"
  /\ UNCHANGED <<configFile, gameFile, gameName, gameData, port, serverHtml,
                 inviteCode, clientPort>>

\* std::cin >> gameName, then config.parseGamefile(gameName): an unknown
\* name clears valid and gives a default GameData.
ParseGamefile ==
  /\ pc = "game"
  /\ \E name \in GameNames :
       /\ gameName' = name
       /\ IF name \in KnownGames
          THEN /\ gameData' = ParseJsonFileGameSpec(gameFile)
               /\ UNCHANGED config
          ELSE /\ gameData' = InvalidGameData
               /\ config' = [config EXCEPT !.valid = FALSE]
  /\ pc' = "check"
  /\ UNCHANGED <<configFile, gameFile, port, serverHtml, inviteCode, clientPort>>

\* !config.isValid(): log, shut logging down, std::exit(1).
SetupExit ==
  /\ pc = "check"
  /\ ~config.valid
  /\ pc' = "exited"
  /\ UNCHANGED <<configFile, gameFile, config, gameName, gameData, port,
                 serverHtml, inviteCode, clientPort>>

\* The server keeps what it needs for run() and logs the invite code.
SetupLaunch ==
  /\ pc = "check"
  /\ config.valid
  /\ port' = config.port
  /\ serverHtml' = config.htmlFilepath
  /\ inviteCode' = GenerateInviteCode(config.port)
  /\ pc' = "launched"
  /\ UNCHANGED <<configFile, gameFile, config, gameName, gameData, clientPort>>

\* executeJoinLobby with the invite code the server logged.
JoinLobby ==
  /\ pc = "launched"
  /\ clientPort' = ParseInviteCode(inviteCode)
  /\ pc' = "joined"
  /\ UNCHANGED <<configFile, gameFile, config, gameName, gameData, port,
                 serverHtml, inviteCode>>

Next ==
  \/ MainMenu
  \/ ConstructConfig
  \/ ParseGamefile
  \/ SetupExit
  \/ SetupLaunch
  \/ JoinLobby

Spec == Init /\ [][Next]_vars

-----------------------------------------------------------------------------
(* Properties.                                                             *)

Launched == pc \in {"launched", "joined"}

TypeOK ==
  /\ config.valid \in BOOLEAN
  /\ config.port \in 0 .. 2^16 - 1
  /\ port \in 0 .. 2^16 - 1
  /\ gameName \in GameNames \cup {""}
  /\ \A i \in DOMAIN inviteCode : inviteCode[i] \in 0 .. 9
  /\ pc \in {"menu", "construct", "game", "check", "launched", "exited", "joined"}

\* The server starts only from a configuration file that opened and
\* validated and a game name gameFilepaths knows.  About the valid flag,
\* which the ServerConfig constructor, configure and parseGamefile set or
\* leave at its default, and setupConfig reads once at the end.
LaunchRequiresValidConfig ==
  Launched =>
    /\ configFile # Unreadable
    /\ ~IsNull(ParseJsonFileServerConfig(configFile))
    /\ gameName \in KnownGames

\* A client that joins with the logged invite code connects to the port the
\* server listens on.  About generateInviteCode (from the narrowed port) and
\* main.cpp's parseInviteCode undoing it, leading zeros of the code included.
InviteCodeReachesServer ==
  pc = "joined" => FromDigits(clientPort) = port

\* Spec section 6: the server listens on the configuration's "port".
\* About configure's conversion of a JSON unsigned number to unsigned short.
ListensOnConfiguredPort ==
  Launched => port = Field(configFile, "port").int

\* Spec section 7: a malformed game document refuses to start a session.
\* About setupConfig checking only config.isValid(), which parseGamefile
\* does not clear when parseJsonFile_gameSpec returns invalid GameData.
SessionOnlyWithValidGame ==
  Launched => gameData.isValid
====
