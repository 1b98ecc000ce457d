----------------------------- MODULE GameState -----------------------------
(***************************************************************************)
(* The variable store of one game session (src/src/GameState): the global  *)
(* variable map, one per-player variable map per player ID, and the        *)
(* active-scope map that for-each rules use to bind an element name to a   *)
(* player ID, together with the resolver that turns a nested variable name *)
(* such as "players.$player.input" into a store location.                  *)
(*                                                                         *)
(* The module has no variables: a GameState object is a record value with  *)
(* the three fields of the C++ class, and every method is an operator that *)
(* takes the record and returns its result (and the new record, for the    *)
(* methods that modify it).  GameRules owns the state.                     *)
(*                                                                         *)
(* Data abstraction.  A nested variable name is the sequence of its        *)
(* dot-separated components.  A component is a name Name(s), a decimal     *)
(* number Num(n), or a runtime placeholder "$x", Ph(x).  The code tests    *)
(* the raw string for the substring "players"; PlayersWords is the set of  *)
(* names whose text contains that substring.                               *)
(***************************************************************************)
EXTENDS Integers, Sequences, FiniteSets, Functions, TLC

CONSTANTS
  Aliases,        \* the names a for-each element (a placeholder) may have
  PlayersWords    \* the names whose text contains the substring "players"

Name(s) == [name |-> s]
Num(n)  == [num |-> n]
Ph(x)   == [ph |-> x]

IsPh(c)  == "ph" \in DOMAIN c
IsNum(c) == "num" \in DOMAIN c

\* rawNestedVariableName.find("players") != npos
MentionsPlayers(path) ==
  \E i \in DOMAIN path :
     \/ "name" \in DOMAIN path[i] /\ path[i].name \in PlayersWords
     \/ IsPh(path[i]) /\ path[i].ph \in PlayersWords

\* The result of a store method: SUCCESS, FAILURE, or CRASH when the method
\* throws an exception nothing catches (the server process terminates).
Result(status, gs) == [status |-> status, gs |-> gs]
GetResult(status, v) == [status |-> status, value |-> v]

-----------------------------------------------------------------------------
(* Constructor and getPlayerIDs.                                           *)

NoScope == [x \in {} |-> 0]

NewGameState(variableMap, playerIDs, perPlayerVariableMap) ==
  [variableMap          |-> variableMap,
   playerVariableMaps   |-> [p \in playerIDs |-> perPlayerVariableMap],
   activeScopeVariables |-> NoScope]

GetPlayerIDs(gs) == DOMAIN gs.playerVariableMaps

-----------------------------------------------------------------------------
(* Path resolution.                                                        *)

\* getActiveScopeVariable: the player bound to x, or a default result.
GetActiveScopeVariable(gs, x) ==
  IF x \in DOMAIN gs.activeScopeVariables
  THEN [wasSuccessful |-> TRUE, value |-> gs.activeScopeVariables[x]]
  ELSE [wasSuccessful |-> FALSE, value |-> 0]

\* parseRuntimeVariables: every "$x" is replaced by the decimal string of
\* the player bound to x; an unbound placeholder makes the whole result "".
ParseRuntimeVariables(gs, raw) ==
  LET bound(i) == GetActiveScopeVariable(gs, raw[i].ph)
  IN IF \E i \in DOMAIN raw : IsPh(raw[i]) /\ ~bound(i).wasSuccessful
     THEN <<>>
     ELSE [i \in DOMAIN raw |-> IF IsPh(raw[i]) THEN Num(bound(i).value)
                                                ELSE raw[i]]

\* A store location, or the way resolving it ends instead.
Global(key)     == [loc |-> "global", id |-> 0, key |-> key]
Player(id, key) == [loc |-> "player", id |-> id, key |-> key]
Garbage         == [loc |-> "garbage", id |-> 0, key |-> <<>>]
Thrown          == [loc |-> "thrown", id |-> 0, key |-> <<>>]

\* extractPlayerVariableInfo: the second component is the player ID (through
\* std::stoul, which throws on a non-number) and everything after the second
\* dot is the per-player key.  With fewer than three components the code
\* steps an iterator past end(): undefined behaviour, which the build turns
\* into an exception or into a lookup of a garbage name that fails.
ExtractPlayerVariableInfo(path) ==
  IF Len(path) < 3 THEN {Thrown, Garbage}
  ELSE IF ~IsNum(path[2]) THEN {Thrown}
  ELSE {Player(path[2].num, SubSeq(path, 3, Len(path)))}

\* The locations getValue and setValue may resolve a raw name to.
Locate(gs, raw) ==
  IF ~MentionsPlayers(raw) THEN {Global(raw)}
  ELSE ExtractPlayerVariableInfo(ParseRuntimeVariables(gs, raw))

Holds(gs, l) ==
  \/ l.loc = "global" /\ l.key \in DOMAIN gs.variableMap
  \/ /\ l.loc = "player"
     /\ l.id \in DOMAIN gs.playerVariableMaps
     /\ l.key \in DOMAIN gs.playerVariableMaps[l.id]

-----------------------------------------------------------------------------
(* getValue and setValue (with getVariable, getPlayerVariable,             *)
(* setVariable, setPlayerVariable): the sets of possible results.          *)

Read(gs, l) ==
  CASE l.loc = "thrown"   -> GetResult("CRASH", 0)
    [] ~Holds(gs, l)      -> GetResult("FAILURE", 0)
    [] l.loc = "global"   -> GetResult("SUCCESS", gs.variableMap[l.key])
    [] OTHER              -> GetResult("SUCCESS", gs.playerVariableMaps[l.id][l.key])

\* setVariable without its contains() check: a write creates the variable.
WriteCreating(gs, l, v) ==
  CASE l.loc = "thrown"   -> Result("CRASH", gs)
    [] l.loc = "global"   ->
         Result("SUCCESS", [gs EXCEPT !.variableMap = (l.key :> v) @@ @])
    [] ~Holds(gs, l)      -> Result("FAILURE", gs)
    [] OTHER              ->
         Result("SUCCESS", [gs EXCEPT !.playerVariableMaps[l.id][l.key] = v])

Write(gs, l, v) ==
  CASE l.loc = "thrown"   -> Result("CRASH", gs)
    [] ~Holds(gs, l)      -> Result("FAILURE", gs)
    [] l.loc = "global"   ->
         Result("SUCCESS", [gs EXCEPT !.variableMap[l.key] = v])
    [] OTHER              ->
         Result("SUCCESS", [gs EXCEPT !.playerVariableMaps[l.id][l.key] = v])

GetValue(gs, raw)    == {Read(gs, l) : l \in Locate(gs, raw)}
SetValue(gs, raw, v) == {Write(gs, l, v) : l \in Locate(gs, raw)}

-----------------------------------------------------------------------------
(* The active-scope methods.                                               *)

SetActiveScopeVariable(gs, x, id) ==
  IF x \in DOMAIN gs.activeScopeVariables
  THEN Result("FAILURE", gs)
  ELSE Result("SUCCESS", [gs EXCEPT !.activeScopeVariables = (x :> id) @@ @])

UnsetActiveScopeVariable(gs, x) ==
  IF x \notin DOMAIN gs.activeScopeVariables
  THEN Result("FAILURE", gs)
  ELSE Result("SUCCESS",
              [gs EXCEPT !.activeScopeVariables =
                           Restrict(@, DOMAIN @ \ {x})])
=============================================================================
