# TLA+ models of the social-gaming server

This directory holds TLA+ models of the server in `src/src`, checked with
TLC. Every definition is translated from the C++ source. `PROJECT.json` lists:

- under `map`, the lines each definition models;
- the runs;
- the mutants that show each checked property can fail;
- the findings;
- the hazards.

## The system

0. **Setup and joining.** `main` starts either a server or a client.
   - The server runs `GameServer::setupConfig`. It constructs a
     `ServerConfig` from the server configuration file, which is validated
     as `{port: unsigned, serverhtml: string}` and narrowed to
     `unsigned short`. It reads a game name from the terminal, and exits
     unless the config is still valid. Otherwise it keeps the port, the
     html path, the invite code and the GameData.
   - The invite code is the port's digits reversed. A client joining with
     it reverses it back (`parseInviteCode`) and connects to that port.
1. **Loader.** `GameServer::setupConfig` asks `ServerConfig::parseGamefile`
   for the chosen game. That calls `JsonParser::parseJsonFile_gameSpec`, which
   does four things in order:
   - It validates the document's six root elements.
   - It compiles `variables` and `per-player` with
     `VariableParser::parseVariables`.
   - It compiles `rules` with `RuleParser::parseRules`. The rule compiler
     rewrites a for-each element name `p` into the runtime path `players.$p`,
     using a compile-time alias table that it mutates during the recursion.
   - It marks the `GameData` valid when the global map and the rule list are
     both non-empty.
2. **Session.** `GameServer::run` loops on a single thread:
   - `server.update()` runs the `onConnect` and `onDisconnect` callbacks,
     which maintain `clients` and `users`;
   - `server.receive()` returns a batch of messages;
   - `processMessages` handles the batch one message at a time: `quit`,
     `shutdown`, `/nickname`, `/execute`, unknown commands and chat;
   - the log is sent, and the loop exits if the batch said `shutdown` or
     `update()` threw.
3. **Store.** `/execute` builds a fresh `GameState` from the GameData and the
   users' connection IDs. It holds the global map, one map per player, and the
   active-scope map (element name → player ID). Its path resolver
   (`parseRuntimeVariables`, `extractPlayerVariableInfo`) turns a dotted name
   into a store location by string surgery.
4. **Rules.** The top-level rules run in order, and the loop breaks at the
   first FAILURE:
   - `AddRule` reads a variable and writes it back plus a value;
   - `GlobalMessageRule` logs;
   - `LoopRule` runs its body until `debug_target` is exactly 10 (the
     parser never builds one);
   - `InputTextRule` writes a stub answer and always reports FAILURE;
   - `ForEachRule` binds its element to each player in turn, in
     `unordered_map` order, and runs its body.

Nothing runs concurrently. The orders that matter are the ones the code
leaves open:

- the player enumeration order;
- the point where a rule fails;
- which connects, disconnects and messages one `update()` delivers;
- where in a batch a message sits.

The transport (`networking::Server`) is not in the repository. It is the
environment, with the interface of spec §6: IDs are never reused, messages
come from connections the transport has open or has just closed, and
`disconnect` takes effect at a later update.

## Modules

| Module | Models | State and actions |
|---|---|---|
| `GameState` | `GameState.cpp/.h` | No variables. A GameState is a record with the class's three maps, and each method is an operator returning `Result(status, gs)`. |
| `RuleNodes` | rule classes, `Rule::executeRule` | The rule objects as records. Each leaf `executeRuleImpl` returns a set of possible results. `ExecRules`, `ExecRule`, `ExecForEach` and `ExecIterations` (RECURSIVE) run a rule list as the C++ calls do. `ExecIterations` gives the outcomes of the loop runs that end within `LoopIterations` iterations. Add's `int` sum wraps at `IntBits` bits (`IntWrap`). |
| `GameRules` | `/execute`'s rule execution, step by step | Variables `gameState`, `program`, `stack` and `crashed`. There is one action for each leaf rule, one each for entering, binding, unbinding and returning from a for-each, one each for entering a loop and for testing its while condition (`LoopCheck`), and one for the end of the top-level loop. |
| `JsonParser` | `JsonParser.cpp`, `VariableParser.cpp` | Operators only: root-element validation for both document kinds, `parseJson` (`ParseJson`), `parseVariables`, `parseJsonFile_gameSpec` and `parseJsonFile_serverConfig`. |
| `RuleParser` | `RuleParser.cpp` | Operators only. Every parser takes the alias table and returns it with its result, so the insert and erase of `parseForEachRule` are explicit. |
| `GameLoader` | `parseGamefile` on a chosen file | Variables `document`, `gameData` and `loaded`, and one action, `ParseGamefile`. |
| `ServerSetup` | main's command choice, `ServerConfig`, `setupConfig`, main.cpp's `parseInviteCode` and `executeJoinLobby` | Variables: the two files, the `ServerConfig` object, the game name, the four fields `setupConfig` fills, the client's port string, and `pc`. Actions: `MainMenu` ("1" hosts; an unknown command exits), `ConstructConfig`, `ParseGamefile`, `SetupExit`, `SetupLaunch`, `JoinLobby`. |
| `GameServer` | `GameServer.cpp`, `User`, the end of `executeJoinLobby`'s loop | Variables: `users`, `clients` and `gameData`; transport state `open`, `closing` and `used`; `incoming`, `quit`, `updateError` and `pc`; and the history variable `lastStore`, which holds the global map the last `/execute` left. The actions are `Update` and `UpdateFails`, one action per branch of `processMessages`, `FinishBatch`, and `ClientExit` (a console client leaves on "exit" or "quit", which it never sends, and its connection is to be closed). `/execute` runs `ExecRules` atomically. |
| `MCGameRules`, `MCGameLoader`, `MCGameServer`, `MCServerSetup` | — | Model values for the checks. |

### Data abstraction

- **Paths.** A dotted variable name is a sequence of components: `Name(s)`,
  `Num(n)`, or the placeholder `Ph(x)` for `$x`. The substring test for
  `"players"` is the constant `PlayersWords`, the names whose text contains
  it.
- **JSON values.** A JSON value is a tagged record: `JStr(path)`, `JInt`,
  `JArr`, `JObj` (key → value) or `JNull`. A file that is not JSON is
  `JNull`, which `parseJson` treats the same way.
- **Messages.** A message text is reduced to what `processMessages` tests:
  whether it starts with `/`, and its first word. A nickname is reduced to
  whether it was changed.

### Undefined behaviour and exceptions

- **Short paths.** `extractPlayerVariableInfo` steps an iterator past `end()`
  when a path has fewer than three components. The model gives the outcomes
  the build can produce: CRASH (an exception ends the process) or a failed
  lookup of a garbage name.
- **Non-numbers.** `std::stoul` on a non-number is CRASH.
- **Signed overflow.** An `int` sum past `INT_MAX` is undefined behaviour.
  The build's plain addition wraps, so `IntWrap` wraps in two's complement.
- **Port narrowing.** The conversion from a JSON unsigned number to
  `unsigned short` is well defined: modulo 2^16.
- **Failure unwinding.** A rule failure unwinds every enclosing
  `executeRuleImpl` in one step. No for-each unbinds its element on the way
  out.

## Runs

| Run | Config | Expect | Shows |
|---|---|---|---|
| `rules_exec` | `MCGameRules.cfg` | pass | `TypeOK`, `ScopeMatchesStack`: the active-scope map always holds exactly the bindings of the for-each bodies running, each to the player being visited, in every interleaving of nested bindings and failures. It covers three players in all six orders and twelve rule lists, four of them loops. |
| `scope_leak` | `MCGameRules_scope_leak.cfg` | violation | `ScopeEmptyWhenIdle`: a failing for-each body leaves its element bound, which contradicts spec §8. |
| `resolver_crash` | `MCGameRules_crash.cfg` | violation | `NoCrash`: three rule lists crash the resolver. The global `num_players` is split as if it were a player path. `input-text` with `"to": "p"` resolves to the two-component path `players.<id>`. An unbound `$q` resolves to `""`, which is then split. |
| `loader_compile` | `MCGameLoader.cfg` | pass | `TypeOK`, `CompileAgreesWithLexicalScope`; see the note below the table. |
| `partial_tree` | `MCGameLoader_partial_tree.cfg` | violation | `NoPartialTree`: a for-each holding a rule that does not compile loads with an empty body, which contradicts spec §7. |
| `per_player_dropped` | `MCGameLoader_per_player.cfg` | violation | `PerPlayerVariablesKept`: a bad per-player value empties the per-player map, yet the game stays valid. |
| `session` | `MCGameServer.cfg` | pass | `UsersAreLive`: the users are always exactly the open connections. This holds even for a message from a connection closed in the same update. |
| `empty_message` | `MCGameServer_empty_message.cfg` | violation | `NoServerCrash`: an empty line throws `std::out_of_range` out of `processMessages`. |
| `store_lifetime` | `MCGameServer_store_lifetime.cfg` | violation | `StoreLivesForSession`: each `/execute` builds a fresh `GameState` from the templates. A second `/execute` starts again from `debug_target = 0` after the first left 1. Spec §3 says the global map lives for the session. |
| `setup` | `MCServerSetup.cfg` | pass | `TypeOK`: the stored port fits `unsigned short`. `LaunchRequiresValidConfig`: the server starts only from a configuration that opened and validated, and a known game name. `InviteCodeReachesServer`: a client using the logged invite code reaches the listening port. |
| `port_narrowed` | `MCServerSetup_port.cfg` | violation | `ListensOnConfiguredPort`: port 65536 validates and the server is handed port 0. |
| `invalid_game_launches` | `MCServerSetup_invalid_game.cfg` | violation | `SessionOnlyWithValidGame`: a game file with no rules still starts the server, which contradicts spec §7. |

`CompileAgreesWithLexicalScope` compares the code's compiler with a reference
compiler that passes aliases down lexically, as spec §9 recommends. The
compiled trees differ: a nested for-each that reuses its parent's element
erases the parent's alias. Running the two trees still gives the same set of
outcomes, because the inner for-each always fails to bind before the
unrewritten rules are reached.

Each property of a passing run has a mutant that TLC kills (see
`PROJECT.json`):

| Mutant | Breaks |
|---|---|
| A write that creates missing variables | `TypeOK` |
| A for-each that never unbinds | `ScopeMatchesStack` |
| `parseRules` pushing a null rule | `TypeOK` of the loader |
| A for-each that never erases its alias | `CompileAgreesWithLexicalScope` |
| `changeUserNickname` adding a user when none has the ID | `UsersAreLive` |
| A `ServerConfig` whose `valid` starts out true | `LaunchRequiresValidConfig` |
| A port field as wide as the JSON number | `TypeOK` of the setup |
| A `parseInviteCode` that does not reverse | `InviteCodeReachesServer` |

### Bounds

- **Execution.** Three players give six orders, so a failure can land after
  zero, one or two updated players and nested bindings interleave. Two
  element names cover nesting with distinct names and with the same name.
- **Loops.** `MCGameRules` uses 5-bit values, so a loop stepping by 3
  reaches `debug_target = 10` only after wrapping, and `IntWrap` is
  exercised. Every loop in the model values stops within 32 iterations
  (`LoopIterations`).
- **Loader.** There are 62 files. Their rule arrays go up to depth 2 and use
  every rule kind. Nine rule objects cover each way a rule fails to compile
  (missing or extra property, wrong type, loop, no `rule`, bad list).
  Non-array bodies and root-level rejections are also included.
- **Session.** Two connections and batches of two messages cover all of the
  following: connect, disconnect, a message from a connection closed in the
  same update, two handlers in one batch, and every message kind. The
  GameData is compiled by `ParseJsonFileGameSpec` from two game files: the
  for-each test game and one without rules, whose invalid GameData setup
  launches with (the `invalid_game_launches` finding). The run reaches
  62,597 states in a few seconds.
- **Setup.** There are eleven configuration files:
  - the repository's port 8000;
  - 1000, whose invite code has a leading zero;
  - 8008, a palindrome;
  - 70000 and 65536, both past 16 bits;
  - a negative port, a string port, a missing field and an extra field;
  - non-JSON, and unreadable.

  There are three game files and two game names. The run reaches 279
  states.

### Fairness

No fairness is assumed and no liveness property is checked. Every
`/execute` in the model values ends, and the server loop's only waits are
on its clients and on the transport, which the code does not constrain.

`CHECK_DEADLOCK FALSE` is used in three places, all of which really stop:

- the loader loads once;
- setup ends in an exit or a launch, and the client joins once;
- the server process ends after a shutdown, an update error or a crash.

## Not modelled, and the plan

| Part | Status | Plan |
|---|---|---|
| Invite code versus port | not checked | `ServerConfig.h` says the invite code is kept different from the port. A palindromic port (8008) or a one-digit port breaks that, but nothing in the repository depends on it. |
| `setHtmlFilepath`, `getHTTPMessage` | not modelled | Neither is called anywhere in the repository. |
| Quit ordering | modelled, no property | A user who sends `quit` stays in `users` until `onDisconnect`, and is part of any later `/execute` in the same batch. `UsersAreLive` checks `users` against the open connections. No document says the user should leave sooner. |
| Setup followed by the session loop | composed through the GameData | `MCGameServer` compiles its GameData with `JsonParser`, as `setupConfig` does. The port and invite code do not matter to the session. |
| Messages after a client exits | over-approximated | `Batches` may still hold messages from a connection whose console client exited. Messages still in flight, and browser clients, can do this. The extra behaviours only make the safety checks stronger. |
| Nickname values | abstracted | A user is only marked renamed. `"/nickname"` with no space sets the nickname to the whole text (`npos + 1` wraps to 0). This is listed as a hazard with no property, because spec §1 puts nickname bookkeeping out of scope. |
| File permissions | abstracted | `ServerConfig` probes the file with `std::fstream::open` (read and write). A read-only configuration file is therefore `Unreadable`. |
| `printWelcome`, the chat window's display, `logconfig`, `buildOutgoing` | not modelled | Terminal and network output, and log formatting. `buildOutgoing` only addresses the log to `clients` and changes no server state. |
| Loop termination | not checked | `LoopRule` runs until `debug_target` equals 10. The parser never builds a loop (`RuleParser.cpp` rejects `"loop"`), so no game file reaches it, and the model values only include loops that stop. |
| `src/unit_test_instruction_with_exaple.cpp` | not modelled | Notes on unit testing with example snippets. It is not part of the build. |
