---------------------------- MODULE MCGameRules ----------------------------
(***************************************************************************)
(* Model values for GameRules: three connected players, the descriptor of  *)
(* the repository's for-each test game (debug_target = 0 globally, input = *)
(* 0 per player), and the top-level rule lists the rule parser builds from *)
(* small game documents.  Each list is written in its parsed form: inside  *)
(* a for-each over element p, a name "p.input" has become                  *)
(* "players.$p.input".  Loops, which the parser never builds, are written *)
(* directly so that LoopRule's steps are checked too; each of them stops  *)
(* within 32 iterations.  Values are 5-bit ints, so a step of 3 reaches   *)
(* 10 only after its sum has wrapped around.                               *)
(***************************************************************************)
EXTENDS GameRules

MCPlayers       == {1, 2, 3}
MCAliases       == {"p", "q"}
MCPlayersWords  == {"players"}
MCIntBits        == 5
MCLoopIterations == 32

DebugTarget == <<Name("debug_target")>>
InputOf(x)  == <<Name("players"), Ph(x), Name("input")>>

MCGlobalInit    == DebugTarget :> 0
MCPerPlayerInit == <<Name("input")>> :> 0

Each(x, body) == ForEachRule("players", x, body)

MCPrograms == {
  \* add + global-message
  <<AddRule(DebugTarget, 1), GlobalMessageRule>>,
  \* the for-each test game
  <<Each("p", <<AddRule(InputOf("p"), 1)>>), AddRule(DebugTarget, 5)>>,
  \* nested for-each over two element names
  <<Each("p", <<Each("q", <<AddRule(InputOf("q"), 1)>>),
                AddRule(InputOf("p"), 2)>>)>>,
  \* a body rule that fails after the first player was updated
  <<Each("p", <<AddRule(InputOf("p"), 1), AddRule(<<Name("missing")>>, 1)>>),
    GlobalMessageRule>>,
  \* nested for-each reusing the element name
  <<Each("p", <<Each("p", <<GlobalMessageRule>>)>>)>>,
  \* input-text writing each player's answer
  <<Each("p", <<InputTextRule(DebugTarget, InputOf("p"))>>)>>,
  \* input-text whose result names no variable
  <<InputTextRule(DebugTarget, <<Name("answer")>>)>>,
  \* literal player IDs, one connected and one not
  <<AddRule(<<Name("players"), Num(1), Name("input")>>, 3),
    AddRule(<<Name("players"), Num(7), Name("input")>>, 1)>>,
  \* a loop that counts debug_target up to 10
  <<LoopRule(<<AddRule(DebugTarget, 1)>>), GlobalMessageRule>>,
  \* a loop that steps over 10 and reaches it after wrapping around
  <<LoopRule(<<AddRule(DebugTarget, 3)>>)>>,
  \* a loop whose body is a for-each: 3 per iteration, one per player
  <<LoopRule(<<Each("p", <<AddRule(DebugTarget, 1)>>)>>)>>,
  \* a loop whose body fails
  <<LoopRule(<<AddRule(<<Name("missing")>>, 1)>>)>>
}

-----------------------------------------------------------------------------
(* Descriptors whose rules reach the path resolver's string surgery.       *)

\* A global counter whose name contains "players".
NumPlayers == <<Name("num_players")>>
MCCountGlobalInit   == (DebugTarget :> 0) @@ (NumPlayers :> 0)
MCCountPlayersWords == {"players", "num_players"}
MCCountPrograms     == {<<AddRule(NumPlayers, 1)>>}

\* input-text "to": "p" inside a for-each over p, parsed to "players.$p".
MCInputPrograms ==
  {<<Each("p", <<InputTextRule(<<Name("players"), Ph("p")>>, InputOf("p"))>>)>>}

\* "players.$q.input" in a top-level rule, where no for-each binds q.
MCUnboundPrograms == {<<AddRule(InputOf("q"), 1)>>}

\* All three, with the counter's descriptor.
MCCrashPrograms == MCCountPrograms \cup MCInputPrograms \cup MCUnboundPrograms
=============================================================================
