----------------------------- MODULE JsonParser -----------------------------
(***************************************************************************)
(* JsonParser::JsonParser of src/src/JsonParser: parsing a file into a     *)
(* JSON value, validating its root elements against the schema of a game   *)
(* specification or of a server configuration, and compiling a game file  *)
(* into GameData with VariableParser and RuleParser.  Operators only.      *)
(*                                                                         *)
(* A file is the JSON value it holds (RuleParser's encoding); a file that  *)
(* does not open or is not JSON makes json::parse throw a parse_error,     *)
(* which safeParse turns into null, so it is JNull here.                   *)
(***************************************************************************)
EXTENDS RuleParser

NoVariables == [k \in {} |-> 0]

\* A default-constructed GameData.
InvalidGameData ==
  [isValid |-> FALSE, variableMap |-> NoVariables,
   perPlayerVariableMap |-> NoVariables, topLevelRules |-> <<>>]

\* json::type() = the expected value_t.  A non-negative integer literal is
\* parsed as number_unsigned, a negative one as number_integer.
HasType(j, t) ==
  CASE t = "obj"  -> IsObject(j)
    [] t = "arr"  -> IsArray(j)
    [] t = "str"  -> IsString(j)
    [] t = "uint" -> IsInt(j) /\ j.int >= 0

\* validateJsonContent_gameSpec: root key -> the JSON type its value must have.
GameSpecRootElements ==
  ("configuration" :> "obj") @@ ("constants" :> "obj") @@ ("variables" :> "obj")
  @@ ("per-player" :> "obj") @@ ("per-audience" :> "obj") @@ ("rules" :> "arr")

\* validateJsonContent_rootLevelElements: as many keys as expected, every
\* expected key present, every value of the expected type.
ValidRootElements(j, props) ==
  /\ IsObject(j)
  /\ Size(j) = Cardinality(DOMAIN props)
  /\ \A k \in DOMAIN props : HasKey(j, k)
  /\ \A k \in DOMAIN props : HasType(Field(j, k), props[k])

\* validateJsonContent_serverConfig.
ServerConfigRootElements == ("port" :> "uint") @@ ("serverhtml" :> "str")

\* parseJson with validateJsonObject: null when safeParse gave null or the
\* root elements do not match the file type's, the document otherwise.
ParseJson(doc, rootElements) ==
  IF IsNull(doc) \/ ~ValidRootElements(doc, rootElements) THEN JNull ELSE doc

\* parseJsonFile_serverConfig.
ParseJsonFileServerConfig(doc) == ParseJson(doc, ServerConfigRootElements)

\* VariableParser::parseVariables: an object of integers becomes the map;
\* anything else, or any value that does not convert to int, gives {}.
ParseVariables(j) ==
  IF ~IsObject(j) \/ \E k \in DOMAIN j.obj : ~IsInt(j.obj[k])
  THEN NoVariables
  ELSE [k \in DOMAIN j.obj |-> j.obj[k].int]

\* JsonParser::parseJsonFile_gameSpec.
ParseJsonFileGameSpec(doc) ==
  LET parseResult == ParseJson(doc, GameSpecRootElements) IN
  IF IsNull(parseResult)
  THEN InvalidGameData
  ELSE LET variableMap   == ParseVariables(Field(parseResult, "variables"))
           perPlayerMap  == ParseVariables(Field(parseResult, "per-player"))
           topLevelRules == ParseRules(Field(parseResult, "rules"), NoAliases).rules
       IN IF variableMap = NoVariables \/ topLevelRules = <<>>
          THEN InvalidGameData
          ELSE [isValid |-> TRUE, variableMap |-> variableMap,
                perPlayerVariableMap |-> perPlayerMap,
                topLevelRules |-> topLevelRules]
=============================================================================
