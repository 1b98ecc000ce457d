--------------------------- MODULE MCServerSetup ---------------------------
(***************************************************************************)
(* Files for ServerSetup.  Configuration files: the repository's own       *)
(* (port 8000), a port with a trailing zero (its invite code has a leading *)
(* zero), a palindromic port, ports past unsigned short (70000, and 65536  *)
(* which narrows to 0), and files the validator rejects.  Game files: the  *)
(* for-each test game, one without rules, and one that is not JSON.        *)
(***************************************************************************)
EXTENDS ServerSetup

MCAliases      == {"p"}
MCPlayersWords == {"players"}

S(s)     == JStr(<<Name(s)>>)
EmptyObj == JObj([k \in {} |-> JNull])

Config(p)  == JObj(("port" :> p) @@ ("serverhtml" :> S("index.html")))

MCConfigFiles ==
  {Config(JInt(n)) : n \in {8000, 1000, 8008, 70000, 65536}}
  \cup { Config(JInt(-1)), Config(S("8000")),
         JObj("port" :> JInt(8000)),
         JObj(("port" :> JInt(8000)) @@ ("serverhtml" :> S("index.html"))
              @@ ("debug" :> JInt(1))),
         JNull, Unreadable }

GameFile(rules) ==
  JObj(("configuration" :> EmptyObj) @@ ("constants" :> EmptyObj)
       @@ ("variables" :> JObj(<<Name("debug_target")>> :> JInt(0)))
       @@ ("per-player" :> JObj(<<Name("input")>> :> JInt(0)))
       @@ ("per-audience" :> EmptyObj) @@ ("rules" :> rules))

TestGame ==
  GameFile(JArr(<<JObj(("rule" :> S("foreach")) @@ ("list" :> S("players"))
                       @@ ("element" :> S("p"))
                       @@ ("rules" :> JArr(<<JObj(("rule" :> S("add"))
                                                  @@ ("to" :> JStr(<<Name("p"), Name("input")>>))
                                                  @@ ("value" :> JInt(1)))>>)))>>))

MCGameFiles == {TestGame, GameFile(JArr(<<>>)), JNull}

MCGameNames == {"Test", "Chess"}
=============================================================================
