---------------------------- MODULE MCGameLoader ----------------------------
(***************************************************************************)
(* Game files for GameLoader: the repository's for-each test game (global  *)
(* debug_target, per-player input) with rule arrays built from a handful   *)
(* of rule objects, at nesting depth up to 2, plus files the root          *)
(* validation or the variable compiler rejects.  Two connected players.    *)
(***************************************************************************)
EXTENDS GameLoader

MCPlayers      == {1, 2}
MCAliases      == {"p", "q"}
MCPlayersWords == {"players"}

S(s)       == JStr(<<Name(s)>>)
Dotted(a, b) == JStr(<<Name(a), Name(b)>>)
EmptyObj   == JObj([k \in {} |-> JNull])

AddJ(to, v) == JObj(("rule" :> S("add")) @@ ("to" :> to) @@ ("value" :> v))
GlobalMessageJ == JObj(("rule" :> S("global-message")) @@ ("value" :> S("hello")))
InputTextJ(to, result) ==
  JObj(("rule" :> S("input-text")) @@ ("to" :> to) @@ ("prompt" :> S("guess"))
       @@ ("result" :> result))
LoopJ == JObj(("rule" :> S("loop")) @@ ("until" :> S("done")) @@ ("rules" :> JArr(<<>>)))
EachJ(elem, rules) ==
  JObj(("rule" :> S("foreach")) @@ ("list" :> S("players"))
       @@ ("element" :> S(elem)) @@ ("rules" :> rules))

\* Rule objects: well-formed ones, and ones parseRules rejects.
Leaves ==
  { AddJ(S("debug_target"), JInt(1)),
    AddJ(Dotted("p", "input"), JInt(1)),
    AddJ(S("p"), JInt(1)),
    GlobalMessageJ,
    InputTextJ(S("p"), Dotted("p", "input")),
    LoopJ,
    JObj(("rule" :> S("add")) @@ ("to" :> S("debug_target"))),
    AddJ(S("debug_target"), S("one")),
    JObj(("rule" :> S("add")) @@ ("to" :> S("debug_target"))
         @@ ("value" :> JInt(1)) @@ ("extra" :> JInt(0))) }

RuleArrays ==
  {<<l>> : l \in Leaves}
  \cup {<<EachJ("p", JArr(<<l>>))>> : l \in Leaves}
  \cup {<<EachJ("p", JArr(<<EachJ(x, JArr(<<l>>)), AddJ(Dotted("p", "input"), JInt(2))>>))>> :
          x \in {"p", "q"}, l \in Leaves}
  \cup {<<EachJ("p", JArr(<<l>>)), AddJ(S("p"), JInt(1))>> : l \in Leaves}
  \cup {<<EachJ("p", S("x"))>>, <<EachJ("p", JNull)>>,
        <<JObj(("rule" :> S("foreach")) @@ ("list" :> S("teams"))
               @@ ("element" :> S("p")) @@ ("rules" :> JArr(<<GlobalMessageJ>>)))>>}

Globals      == JObj(<<Name("debug_target")>> :> JInt(0))
PerPlayer    == JObj(<<Name("input")>> :> JInt(0))
BadPerPlayer == JObj(<<Name("input")>> :> S("zero"))

GameFile(variables, perPlayer, rules) ==
  JObj(("configuration" :> EmptyObj) @@ ("constants" :> EmptyObj)
       @@ ("variables" :> variables) @@ ("per-player" :> perPlayer)
       @@ ("per-audience" :> EmptyObj) @@ ("rules" :> rules))

MCDocuments ==
  {GameFile(Globals, PerPlayer, JArr(r)) : r \in RuleArrays}
  \cup {GameFile(Globals, BadPerPlayer, JArr(<<EachJ("p", JArr(<<l>>))>>)) : l \in Leaves}
  \cup { GameFile(EmptyObj, PerPlayer, JArr(<<GlobalMessageJ>>)),
         GameFile(Globals, PerPlayer, JArr(<<>>)),
         GameFile(Globals, PerPlayer, EmptyObj),
         JObj(("variables" :> Globals) @@ ("rules" :> JArr(<<GlobalMessageJ>>))),
         JNull }
=============================================================================
