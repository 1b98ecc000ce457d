----------------------------- MODULE GameLoader -----------------------------
(***************************************************************************)
(* Loading the game descriptor: GameServer::setupConfig asks               *)
(* ServerConfig::parseGamefile for the chosen game, which calls            *)
(* JsonParser::parseJsonFile_gameSpec on its file.  That validates the     *)
(* root elements, compiles "variables" and "per-player" with               *)
(* VariableParser::parseVariables and "rules" with RuleParser::parseRules, *)
(* and marks the GameData valid when the global map and the top-level rule *)
(* list are both non-empty.  The server loads one game, once, at start-up. *)
(*                                                                         *)
(* A document is the JSON value the file holds (RuleParser's encoding); a  *)
(* file that is not JSON, like one holding null, is JNull.                 *)
(***************************************************************************)
EXTENDS JsonParser

CONSTANTS
  Players,    \* the IDs of the users connected when "/execute" arrives
  Documents   \* the game files the chosen game name may refer to

VARIABLES
  document,   \* the JSON content of the game file
  gameData,   \* the GameData record setupConfig keeps
  loaded      \* parseGamefile has returned

vars == <<document, gameData, loaded>>

-----------------------------------------------------------------------------
Init ==
  /\ document \in Documents
  /\ gameData = InvalidGameData
  /\ loaded = FALSE

\* setupConfig: config.parseGamefile(gameName), kept in this->gameData.
ParseGamefile ==
  /\ ~loaded
  /\ gameData' = ParseJsonFileGameSpec(document)
  /\ loaded' = TRUE
  /\ UNCHANGED document

Next == ParseGamefile

Spec == Init /\ [][Next]_vars

-----------------------------------------------------------------------------
(* Properties.                                                             *)

RECURSIVE RuleListOK(_)
RuleListOK(rules) ==
  \A i \in DOMAIN rules :
     /\ rules[i].rule \in {"add", "global-message", "input-text", "foreach"}
     /\ rules[i].rule = "foreach" => RuleListOK(rules[i].rules)

TypeOK ==
  /\ document \in Documents
  /\ loaded \in BOOLEAN
  /\ gameData.isValid \in BOOLEAN
  /\ \A m \in {gameData.variableMap, gameData.perPlayerVariableMap} :
        m \in [DOMAIN m -> Int]
  /\ RuleListOK(gameData.topLevelRules)

\* The rule schema of the specification (section 6): the properties each
\* kind of rule has, and the JSON type of each.  "loop" has none yet.
RuleSchema ==
  ("add" :> (("to" :> "str") @@ ("value" :> "int")))
  @@ ("global-message" :> ("value" :> "str"))
  @@ ("foreach" :> (("list" :> "str") @@ ("element" :> "str") @@ ("rules" :> "arr")))
  @@ ("input-text" :> (("to" :> "str") @@ ("prompt" :> "str") @@ ("result" :> "str")))

RECURSIVE RulesConform(_), RuleConforms(_)
RulesConform(j) == IsArray(j) /\ \A i \in DOMAIN j.arr : RuleConforms(j.arr[i])
RuleConforms(j) ==
  /\ HasKey(j, "rule")
  /\ \E kind \in DOMAIN RuleSchema :
        /\ IsRule(j, kind)
        /\ DOMAIN j.obj = {"rule"} \cup DOMAIN RuleSchema[kind]
        /\ \A k \in DOMAIN RuleSchema[kind] : RuleSchema[kind][k] \in DOMAIN Field(j, k)
        /\ kind = "foreach" =>
             /\ Field(j, "list") = JStr(<<Name("players")>>)
             /\ RulesConform(Field(j, "rules"))

\* Spec section 7: a rule that does not compile (unknown kind, missing or
\* extra property, wrong type) aborts compiling the whole rule sequence, so
\* a game the loader accepts has a rule document that conforms throughout.
\* About parseRules returning {} for a failed nested list, which
\* parseForEachRule takes as the body.
NoPartialTree ==
  loaded /\ gameData.isValid => RulesConform(Field(document, "rules"))

\* A game the loader accepts keeps every per-player variable its document
\* declares.  About parseJsonFile_gameSpec checking only the global map's
\* size after parseVariables has turned a bad per-player object into {}.
PerPlayerVariablesKept ==
  loaded /\ gameData.isValid =>
    DOMAIN gameData.perPlayerVariableMap = DOMAIN Field(document, "per-player").obj

\* The compiler with lexical alias scoping (the design of spec section 9):
\* a for-each's body sees its enclosing aliases plus its own element, and
\* nothing a sibling did.  A reference, not the code.
RECURSIVE ScopedRules(_, _), ScopedRule(_, _)
ScopedRules(j, scope) ==
  LET rs == [i \in DOMAIN Items(j) |-> ScopedRule(Items(j)[i], scope)]
  IN IF \E i \in DOMAIN rs : rs[i] = NoRule THEN <<>> ELSE rs
ScopedRule(j, scope) ==
  CASE ~HasKey(j, "rule")         -> NoRule
    [] IsRule(j, "add")            -> ParseAddRule(j, scope)
    [] IsRule(j, "global-message") -> ParseGlobalMessageRule(j)
    [] IsRule(j, "input-text")     -> ParseInputTextRule(j, scope)
    [] IsRule(j, "foreach")        ->
         IF ForEachRejected(j) THEN NoRule
         ELSE LET elem == Field(j, "element").str
                  own  == <<elem[1]>> :> ContextedElement(<<Name("players")>>, elem)
              IN ForEachRule("players", elem[1].name,
                             ScopedRules(Field(j, "rules"), own @@ scope))
    [] OTHER                       -> NoRule

\* The shared alias table of RuleParser (insert that keeps an existing
\* alias, erase that removes it whoever inserted it) is harmless: running
\* the compiled rules on a fresh GameState has exactly the outcomes of
\* running the lexically scoped compilation of the same document.
CompileAgreesWithLexicalScope ==
  loaded /\ gameData.isValid =>
    LET fresh == NewGameState(gameData.variableMap, Players,
                              gameData.perPlayerVariableMap)
    IN ExecRules(gameData.topLevelRules, fresh)
         = ExecRules(ScopedRules(Field(document, "rules"), NoAliases), fresh)
=============================================================================
