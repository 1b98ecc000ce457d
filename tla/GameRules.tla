----------------------------- MODULE GameRules -----------------------------
(***************************************************************************)
(* Rule execution, one step per executeRuleImpl of a leaf rule and per     *)
(* statement of ForEachRule's loop, with the C++ call stack made explicit. *)
(*                                                                         *)
(* An execution is started by the "/execute" command of                    *)
(* GameServer::processMessages, which builds a fresh GameState from the    *)
(* descriptor and the connected users and runs the top-level rules in      *)
(* order, breaking out at the first FAILURE.  The stack holds one frame    *)
(* for that loop and one per for-each or loop rule in progress.  A rule that does  *)
(* not succeed makes every enclosing executeRuleImpl return FAILURE in     *)
(* turn, doing nothing else on the way (in particular no for-each unbinds  *)
(* its element), so the whole stack is dropped in one step.                *)
(***************************************************************************)
EXTENDS RuleNodes, SequencesExt

CONSTANTS
  Players,       \* the IDs of the users connected when "/execute" arrives
  Programs,      \* the top-level rule lists a loaded game descriptor may hold
  GlobalInit,    \* the descriptor's variableMap: global key -> value
  PerPlayerInit  \* the descriptor's perPlayerVariableMap: key -> value

VARIABLES
  gameState, \* the GameState record of the current (or last) execution
  program,   \* gameData.topLevelRules
  stack,     \* the frames of the rule loops in progress, innermost last
  crashed    \* an uncaught exception has ended the server process

vars == <<gameState, program, stack, crashed>>

\* A frame: the rule list a loop runs, the index of the next rule, and for
\* a for-each its element name, the players still to visit and whether the
\* element is bound to the first of them.
TopFrame(rules) ==
  [kind |-> "top", rules |-> rules, pc |-> 1,
   element |-> "", order |-> <<>>, bound |-> FALSE]
ForEachFrame(r, ord) ==
  [kind |-> "foreach", rules |-> r.rules, pc |-> 1,
   element |-> r.element, order |-> ord, bound |-> FALSE]
\* A loop frame starts at its while condition, past the end of its body.
LoopFrame(r) ==
  [kind |-> "loop", rules |-> r.rules, pc |-> Len(r.rules) + 1,
   element |-> "", order |-> <<>>, bound |-> FALSE]

running == stack # <<>>
Top     == stack[Len(stack)]
Current == Top.rules[Top.pc]

\* The innermost loop is about to run its next rule.
Runnable ==
  /\ running
  /\ Top.kind \in {"top", "loop"} \/ Top.bound
  /\ Top.pc <= Len(Top.rules)

SetTop(f) == [stack EXCEPT ![Len(stack)] = f]
Advance(s) == [s EXCEPT ![Len(s)].pc = @ + 1]

\* The rule that just ran succeeded: its loop moves to the next rule.
Proceed(o) ==
  /\ gameState' = o.gs
  /\ stack' = Advance(stack)
  /\ UNCHANGED crashed

\* The rule failed or threw: every frame returns at once.
Unwind(o) ==
  /\ gameState' = o.gs
  /\ stack' = <<>>
  /\ crashed' = (crashed \/ o.status = "CRASH")

Return(o) == IF o.status = "SUCCESS" THEN Proceed(o) ELSE Unwind(o)

-----------------------------------------------------------------------------
Init ==
  /\ program \in Programs
  /\ gameState = NewGameState(GlobalInit, Players, PerPlayerInit)
  /\ stack = <<>>
  /\ crashed = FALSE

\* "/execute" with a valid descriptor: a GameState for the connected users.
StartExecute ==
  /\ ~running
  /\ ~crashed
  /\ gameState' = NewGameState(GlobalInit, Players, PerPlayerInit)
  /\ stack' = <<TopFrame(program)>>
  /\ UNCHANGED <<program, crashed>>

RunAdd ==
  /\ Runnable
  /\ Current.rule = "add"
  /\ \E o \in ExecAdd(gameState, Current) : Return(o)
  /\ UNCHANGED program

RunGlobalMessage ==
  /\ Runnable
  /\ Current.rule = "global-message"
  /\ \E o \in ExecGlobalMessage(gameState) : Return(o)
  /\ UNCHANGED program

RunInputText ==
  /\ Runnable
  /\ Current.rule = "input-text"
  /\ \E o \in ExecInputText(gameState, Current) : Return(o)
  /\ UNCHANGED program

\* ForEachRule::executeRuleImpl starts: check the list name and take the
\* player IDs in the order the player map enumerates them.
EnterForEach ==
  /\ Runnable
  /\ Current.rule = "foreach"
  /\ IF Current.list # "players"
     THEN Unwind(Result("FAILURE", gameState))
     ELSE /\ \E ord \in SetToSeqs(GetPlayerIDs(gameState)) :
               stack' = Append(stack, ForEachFrame(Current, ord))
          /\ UNCHANGED <<gameState, crashed>>
  /\ UNCHANGED program

\* Put the element in scope for the next player.
ForEachBind ==
  /\ running
  /\ Top.kind = "foreach"
  /\ ~Top.bound
  /\ Top.order # <<>>
  /\ LET b == SetActiveScopeVariable(gameState, Top.element, Head(Top.order))
     IN IF b.status # "SUCCESS" THEN Unwind(b)
        ELSE /\ gameState' = b.gs
             /\ stack' = SetTop([Top EXCEPT !.bound = TRUE, !.pc = 1])
             /\ UNCHANGED crashed
  /\ UNCHANGED program

\* The next player is taken without unsetActiveScopeVariable.
ForEachUnbindKeepingScope ==
  /\ running
  /\ Top.kind = "foreach"
  /\ Top.bound
  /\ Top.pc > Len(Top.rules)
  /\ stack' = SetTop([Top EXCEPT !.bound = FALSE, !.order = Tail(@)])
  /\ UNCHANGED <<gameState, program, crashed>>

\* The body has run for this player: take the element out of scope.
ForEachUnbind ==
  /\ running
  /\ Top.kind = "foreach"
  /\ Top.bound
  /\ Top.pc > Len(Top.rules)
  /\ LET u == UnsetActiveScopeVariable(gameState, Top.element)
     IN IF u.status # "SUCCESS" THEN Unwind(u)
        ELSE /\ gameState' = u.gs
             /\ stack' = SetTop([Top EXCEPT !.bound = FALSE, !.order = Tail(@)])
             /\ UNCHANGED crashed
  /\ UNCHANGED program

\* Every player visited: the for-each returns SUCCESS to its loop.
ForEachReturn ==
  /\ running
  /\ Top.kind = "foreach"
  /\ ~Top.bound
  /\ Top.order = <<>>
  /\ stack' = Advance(Front(stack))
  /\ UNCHANGED <<gameState, program, crashed>>

\* LoopRule::executeRuleImpl starts: debug_target must exist.
EnterLoop ==
  /\ Runnable
  /\ Current.rule = "loop"
  /\ IF DebugTargetValue(gameState).status # "SUCCESS"
     THEN Unwind(Result("FAILURE", gameState))
     ELSE /\ stack' = Append(stack, LoopFrame(Current))
          /\ UNCHANGED <<gameState, crashed>>
  /\ UNCHANGED program

\* The while condition, before each iteration: at debug_target = 10 the
\* loop returns SUCCESS, otherwise its body runs again from the start.
LoopCheck ==
  /\ running
  /\ Top.kind = "loop"
  /\ Top.pc > Len(Top.rules)
  /\ stack' = IF LoopDone(gameState) THEN Advance(Front(stack))
               ELSE SetTop([Top EXCEPT !.pc = 1])
  /\ UNCHANGED <<gameState, program, crashed>>

\* The top-level loop has run every rule.
FinishExecute ==
  /\ running
  /\ Top.kind = "top"
  /\ Top.pc > Len(Top.rules)
  /\ stack' = <<>>
  /\ UNCHANGED <<gameState, program, crashed>>

Next ==
  \/ StartExecute
  \/ RunAdd
  \/ RunGlobalMessage
  \/ RunInputText
  \/ EnterForEach
  \/ ForEachBind
  \/ ForEachUnbind
  \/ ForEachReturn
  \/ EnterLoop
  \/ LoopCheck
  \/ FinishExecute

Spec == Init /\ [][Next]_vars

-----------------------------------------------------------------------------
(* Properties.                                                             *)

TypeOK ==
  /\ program \in Programs
  /\ gameState.variableMap \in [DOMAIN GlobalInit -> Int]
  /\ gameState.playerVariableMaps \in [Players -> [DOMAIN PerPlayerInit -> Int]]
  /\ DOMAIN gameState.activeScopeVariables \subseteq Aliases
  /\ Range(gameState.activeScopeVariables) \subseteq Players
  /\ \A i \in DOMAIN stack :
       /\ stack[i].kind \in {"top", "foreach", "loop"}
       /\ stack[i].pc \in 1 .. Len(stack[i].rules) + 1
       /\ ToSet(stack[i].order) \subseteq Players
  /\ crashed \in BOOLEAN

\* The for-each frames whose element is currently bound.
BoundFrames == {i \in DOMAIN stack : stack[i].kind = "foreach" /\ stack[i].bound}

\* While rules run, the active-scope map holds exactly the elements of the
\* for-each rules whose body is running, each bound to the player that
\* for-each is visiting: the bind/unbind pairs of ForEachRule nest with the
\* calls, so a "$x" placeholder always resolves to the innermost visit.
ScopeMatchesStack ==
  running =>
    /\ DOMAIN gameState.activeScopeVariables = {stack[i].element : i \in BoundFrames}
    /\ \A i \in BoundFrames :
         gameState.activeScopeVariables[stack[i].element] = Head(stack[i].order)

\* Spec section 8: a for-each leaves the active-scope map empty once it has
\* completed, whether it succeeded or failed.
ScopeEmptyWhenIdle ==
  ~running => gameState.activeScopeVariables = NoScope

\* An execution never ends the server process (spec section 7: lookup
\* misses are failure results, never crashes).
NoCrash == ~crashed

=============================================================================
