----------------------------- MODULE RuleParser -----------------------------
(***************************************************************************)
(* The rule compiler of src/src/JsonParser/RuleParser.cpp: a JSON rule     *)
(* array becomes a list of rule nodes (the records of RuleNodes).          *)
(*                                                                         *)
(* RuleParser keeps one mutable member, activeScopedVariableAliases, that  *)
(* parseForEachRule inserts into before compiling its body and erases from *)
(* after.  The operators thread that table explicitly: each returns the    *)
(* rules it built together with the table as the call left it.            *)
(*                                                                         *)
(* Data abstraction.  A JSON value is a tagged record: JStr(path) for a    *)
(* string (its dot-separated components, as in GameState), JInt(n), JArr,  *)
(* JObj (a function from keys to values) and JNull.  A for-each element    *)
(* is a one-component name; the alias table maps its path to the path     *)
(* "players.$<element>".                                                   *)
(***************************************************************************)
EXTENDS RuleNodes

JStr(p) == [str |-> p]
JInt(n) == [int |-> n]
JArr(s) == [arr |-> s]
JObj(f) == [obj |-> f]
JNull   == [null |-> TRUE]

IsString(j) == "str" \in DOMAIN j
IsInt(j)    == "int" \in DOMAIN j
IsArray(j)  == "arr" \in DOMAIN j
IsObject(j) == "obj" \in DOMAIN j
IsNull(j)   == "null" \in DOMAIN j

\* json::contains (HasKey), json::size and operator[] on an object.
HasKey(j, k) == IsObject(j) /\ k \in DOMAIN j.obj
Size(j)      == Cardinality(DOMAIN j.obj)
Field(j, k)  == j.obj[k]

\* ruleJson["rule"] == "<kind>"
IsRule(j, kind) == Field(j, "rule") = JStr(<<Name(kind)>>)

\* The values a range-for over a json visits: an array's elements, nothing
\* for null, and a string or number itself.  (Objects, whose values are
\* visited in key order, do not occur as rule lists in the models.)
Items(j) ==
  CASE IsArray(j)                -> j.arr
    [] IsNull(j)                 -> <<>>
    [] IsString(j) \/ IsInt(j)   -> <<j>>

NoAliases == [p \in {} |-> <<>>]

\* A null RulePtr.
NoRule == [rule |-> "none"]

-----------------------------------------------------------------------------
(* processScopedVariables: every dot-separated component that names an     *)
(* active alias is replaced by the alias's (multi-component) path.         *)

ProcessScopedVariables(aliases, path) ==
  FlattenSeq([i \in DOMAIN path |->
                IF <<path[i]>> \in DOMAIN aliases THEN aliases[<<path[i]>>]
                                                  ELSE <<path[i]>>])

\* "<list>.$<element>", for a one-component element name.
ContextedElement(list, elem) == list \o <<Ph(elem[1].name)>>

-----------------------------------------------------------------------------
(* The parsers of the rules that contain no rules.  A property of the      *)
(* wrong type makes the constructor call throw, which the parser catches   *)
(* and turns into nullptr.                                                 *)

ParseAddRule(j, aliases) ==
  IF \/ ~HasKey(j, "to") \/ ~HasKey(j, "value")
     \/ Size(j) > 3
     \/ ~IsString(Field(j, "to")) \/ ~IsInt(Field(j, "value"))
  THEN NoRule
  ELSE AddRule(ProcessScopedVariables(aliases, Field(j, "to").str),
               Field(j, "value").int)

ParseGlobalMessageRule(j) ==
  IF \/ ~HasKey(j, "value")
     \/ Size(j) > 2
     \/ ~IsString(Field(j, "value"))
  THEN NoRule
  ELSE GlobalMessageRule

ParseInputTextRule(j, aliases) ==
  IF \/ ~HasKey(j, "to") \/ ~HasKey(j, "prompt") \/ ~HasKey(j, "result")
     \/ Size(j) > 4
     \/ \E k \in {"to", "prompt", "result"} : ~IsString(Field(j, k))
  THEN NoRule
  ELSE InputTextRule(ProcessScopedVariables(aliases, Field(j, "to").str),
                     ProcessScopedVariables(aliases, Field(j, "result").str))

\* The checks parseForEachRule makes before it touches the alias table.
ForEachRejected(j) ==
  \/ ~HasKey(j, "list") \/ ~HasKey(j, "element") \/ ~HasKey(j, "rules")
  \/ Size(j) > 4
  \/ ~IsString(Field(j, "list"))
  \/ Field(j, "list").str # <<Name("players")>>
  \/ ~IsString(Field(j, "element"))

-----------------------------------------------------------------------------
(* parseRules, the rule dispatch and parseForEachRule.  Each returns       *)
(* [rules |-> ..., aliases |-> ...] or [rule |-> ..., aliases |-> ...].    *)

RECURSIVE ParseRules(_, _), ParseRuleItems(_, _, _), ParseRule(_, _),
          ParseForEachRule(_, _), ParseRuleItemsKeepingNull(_, _, _),
          ParseForEachRuleKeepingAlias(_, _)

ParseRules(ruleListJson, aliases) == ParseRuleItems(Items(ruleListJson), <<>>, aliases)

\* A loop that pushes the RulePtr without checking it for nullptr.
ParseRuleItemsKeepingNull(items, ordered, aliases) ==
  IF items = <<>> THEN [rules |-> ordered, aliases |-> aliases]
  ELSE LET p == ParseRule(Head(items), aliases)
       IN ParseRuleItems(Tail(items), Append(ordered, p.rule), p.aliases)

\* The loop of parseRules: any rule that fails to parse makes the whole
\* list {}, with the alias table as that rule's parser left it.
ParseRuleItems(items, ordered, aliases) ==
  IF items = <<>> THEN [rules |-> ordered, aliases |-> aliases]
  ELSE LET p == ParseRule(Head(items), aliases)
       IN IF p.rule = NoRule THEN [rules |-> <<>>, aliases |-> p.aliases]
          ELSE ParseRuleItems(Tail(items), Append(ordered, p.rule), p.aliases)

\* The dispatch on "rule".  A "loop" rule leaves the RulePtr null (its
\* parser is commented out), as does an unknown kind.
ParseRule(j, aliases) ==
  CASE ~HasKey(j, "rule")         -> [rule |-> NoRule, aliases |-> aliases]
    [] IsRule(j, "add")            ->
         [rule |-> ParseAddRule(j, aliases), aliases |-> aliases]
    [] IsRule(j, "global-message") ->
         [rule |-> ParseGlobalMessageRule(j), aliases |-> aliases]
    [] IsRule(j, "foreach")        -> ParseForEachRule(j, aliases)
    [] IsRule(j, "input-text")     ->
         [rule |-> ParseInputTextRule(j, aliases), aliases |-> aliases]
    [] OTHER                       -> [rule |-> NoRule, aliases |-> aliases]

\* A parseForEachRule that never erases the alias it inserted.
ParseForEachRuleKeepingAlias(j, aliases) ==
  IF ForEachRejected(j) THEN [rule |-> NoRule, aliases |-> aliases]
  ELSE
    LET elem     == Field(j, "element").str
        inserted == IF <<elem[1]>> \in DOMAIN aliases THEN aliases
                    ELSE (<<elem[1]>> :> ContextedElement(<<Name("players")>>, elem))
                           @@ aliases
        body     == ParseRules(Field(j, "rules"), inserted)
    IN [rule |-> ForEachRule("players", elem[1].name, body.rules), aliases |-> body.aliases]

\* unordered_map::insert leaves an existing alias alone; erase removes the
\* element's alias whoever inserted it.
ParseForEachRule(j, aliases) ==
  IF ForEachRejected(j) THEN [rule |-> NoRule, aliases |-> aliases]
  ELSE
    LET elem     == Field(j, "element").str
        inserted == IF <<elem[1]>> \in DOMAIN aliases THEN aliases
                    ELSE (<<elem[1]>> :> ContextedElement(<<Name("players")>>, elem))
                           @@ aliases
        body     == ParseRules(Field(j, "rules"), inserted)
    IN [rule    |-> ForEachRule("players", elem[1].name, body.rules),
        aliases |-> Restrict(body.aliases, DOMAIN body.aliases \ {<<elem[1]>>})]
=============================================================================
