---------------------------- MODULE MCGameServer ----------------------------
(***************************************************************************)
(* Two connection IDs and batches of up to two messages over the texts     *)
(* processMessages tells apart.  The GameData is what setupConfig keeps:   *)
(* parseJsonFile_gameSpec of a game file, here the repository's for-each   *)
(* test game, or a file without rules, which compiles to an invalid        *)
(* GameData that setupConfig launches with all the same.                   *)
(***************************************************************************)
EXTENDS GameServer, JsonParser

MCConnections  == {1, 2}
MCAliases      == {"p"}
MCPlayersWords == {"players"}
MCMaxBatch     == 2

MCTexts ==
  { Text(FALSE, "quit"), Text(FALSE, "shutdown"), Text(FALSE, ""),
    Text(TRUE, "nickname"), Text(TRUE, "execute"), Text(TRUE, "help"),
    Text(FALSE, "hello") }

S(s)     == JStr(<<Name(s)>>)
EmptyObj == JObj([k \in {} |-> JNull])

AddJ(to, v) == JObj(("rule" :> S("add")) @@ ("to" :> to) @@ ("value" :> JInt(v)))

GameFile(rules) ==
  JObj(("configuration" :> EmptyObj) @@ ("constants" :> EmptyObj)
       @@ ("variables" :> JObj(<<Name("debug_target")>> :> JInt(0)))
       @@ ("per-player" :> JObj(<<Name("input")>> :> JInt(0)))
       @@ ("per-audience" :> EmptyObj) @@ ("rules" :> JArr(rules)))

\* For each player p: p.input += 1; then debug_target += 1.
TestGameFile ==
  GameFile(<<JObj(("rule" :> S("foreach")) @@ ("list" :> S("players"))
                  @@ ("element" :> S("p"))
                  @@ ("rules" :> JArr(<<AddJ(JStr(<<Name("p"), Name("input")>>), 1)>>))),
             AddJ(S("debug_target"), 1)>>)

MCGameDatas == {ParseJsonFileGameSpec(f) : f \in {TestGameFile, GameFile(<<>>)}}
=============================================================================
