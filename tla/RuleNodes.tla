----------------------------- MODULE RuleNodes -----------------------------
(***************************************************************************)
(* The rule nodes of src/src/GameRules: one record per rule object, and    *)
(* the executeRuleImpl of every rule that does not contain other rules.    *)
(* Each leaf operator returns the set of possible Result(status, gs) of    *)
(* running the rule against the GameState record gs.  ExecRules runs a     *)
(* rule list recursively, for-each included; GameRules runs the same code  *)
(* step by step, with an explicit call stack.                              *)
(*                                                                         *)
(* The text of a global message is left out: executing the rule only logs *)
(* it, and so is a loop's stop condition, which executeRuleImpl ignores.   *)
(* The rule parser never builds a LoopRule (parseLoopRule is commented     *)
(* out); a loop only occurs in rule lists built directly.                  *)
(*                                                                         *)
(* A VariableValue is an int of IntBits bits.  AddRule's sum can overflow  *)
(* it: undefined behaviour, which the build's plain integer addition turns *)
(* into two's-complement wrap-around.                                      *)
(***************************************************************************)
EXTENDS GameState, SequencesExt

CONSTANTS
  IntBits,         \* the width of GameState::VariableValue
  LoopIterations   \* the most iterations of one LoopRule ExecRules follows

\* The rule objects, with the fields their constructors keep.
AddRule(to, value)            == [rule |-> "add", to |-> to, value |-> value]
GlobalMessageRule             == [rule |-> "global-message"]
InputTextRule(to, result)     == [rule |-> "input-text", to |-> to, result |-> result]
LoopRule(body)                == [rule |-> "loop", rules |-> body]
ForEachRule(list, elem, body) ==
  [rule |-> "foreach", list |-> list, element |-> elem, rules |-> body]

\* The value InputTextRule writes in place of the player's answer.
InputStub == 123456789

\* x reduced to an int of IntBits bits, two's complement.
IntWrap(x) == ((x + 2^(IntBits - 1)) % 2^IntBits) - 2^(IntBits - 1)

\* AddRule::executeRuleImpl: read the target, write it back plus the value.
ExecAdd(gs, r) ==
  UNION {IF g.status = "SUCCESS"
         THEN SetValue(gs, r.to, IntWrap(g.value + r.value))
         ELSE {Result(g.status, gs)} : g \in GetValue(gs, r.to)}

\* GlobalMessageRule::executeRuleImpl only logs the text.
ExecGlobalMessage(gs) == {Result("SUCCESS", gs)}

\* InputTextRule::executeRuleImpl: read the target user, write the stub
\* answer to the result variable, and report FAILURE even when both worked.
ExecInputText(gs, r) ==
  LET Stub(s) == IF s.status = "SUCCESS" THEN Result("FAILURE", s.gs) ELSE s
  IN UNION {IF g.status = "SUCCESS"
            THEN {Stub(s) : s \in SetValue(gs, r.result, InputStub)}
            ELSE {Result(g.status, gs)} : g \in GetValue(gs, r.to)}

\* gameState.getValue("debug_target"): a global name, so one result.
DebugTargetValue(gs) == CHOOSE g \in GetValue(gs, <<Name("debug_target")>>) : TRUE

\* LoopRule's hard-coded stop condition.
LoopDone(gs) == DebugTargetValue(gs).value = 10
-----------------------------------------------------------------------------
(* Rule::executeRule, following the C++ calls one for one.                 *)

RECURSIVE ExecRules(_, _), ExecRule(_, _), ExecForEach(_, _, _), ExecIterations(_, _, _)

\* A rule list runs in order and stops at the first rule that does not
\* succeed (GameServer's top-level loop and ForEachRule's body loop).
ExecRules(rules, gs) ==
  IF rules = <<>> THEN {Result("SUCCESS", gs)}
  ELSE UNION {IF o.status = "SUCCESS" THEN ExecRules(Tail(rules), o.gs)
                                      ELSE {o}
              : o \in ExecRule(Head(rules), gs)}

\* Rule::executeRule dispatches to the executeRuleImpl of the rule's class.
ExecRule(r, gs) ==
  CASE r.rule = "add"            -> ExecAdd(gs, r)
    [] r.rule = "global-message" -> ExecGlobalMessage(gs)
    [] r.rule = "input-text"     -> ExecInputText(gs, r)
    [] r.rule = "foreach"        ->
         IF r.list # "players" THEN {Result("FAILURE", gs)}
         ELSE UNION {ExecForEach(r, ord, gs) :
                       ord \in SetToSeqs(GetPlayerIDs(gs))}
    [] r.rule = "loop"           ->
         IF DebugTargetValue(gs).status # "SUCCESS" THEN {Result("FAILURE", gs)}
         ELSE ExecIterations(r, gs, LoopIterations)

\* ForEachRule::executeRuleImpl over the players still to visit, in the
\* order the unordered player map happens to enumerate them.
ExecForEach(r, ord, gs) ==
  IF ord = <<>> THEN {Result("SUCCESS", gs)}
  ELSE LET b == SetActiveScopeVariable(gs, r.element, Head(ord))
       IN IF b.status # "SUCCESS" THEN {b}
          ELSE UNION {IF o.status # "SUCCESS" THEN {o}
                      ELSE LET u == UnsetActiveScopeVariable(o.gs, r.element)
                           IN IF u.status # "SUCCESS" THEN {u}
                              ELSE ExecForEach(r, Tail(ord), u.gs)
                      : o \in ExecRules(r.rules, b.gs)}

\* LoopRule::executeRuleImpl's while loop: the outcomes of the runs that
\* end within n more iterations (a loop that never ends has none).
ExecIterations(r, gs, n) ==
  IF LoopDone(gs) THEN {Result("SUCCESS", gs)}
  ELSE IF n = 0 THEN {}
  ELSE UNION {IF o.status # "SUCCESS" THEN {o} ELSE ExecIterations(r, o.gs, n - 1)
              : o \in ExecRules(r.rules, gs)}
=============================================================================
