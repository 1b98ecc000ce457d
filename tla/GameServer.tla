----------------------------- MODULE GameServer -----------------------------
(***************************************************************************)
(* The session driver of src/src/GameServer: GameServer::run's loop on the *)
(* server's single thread.  Each iteration calls server.update(), which    *)
(* runs the onConnect / onDisconnect callbacks, takes the batch of         *)
(* messages server.receive() returns, handles it with processMessages one  *)
(* message at a time, sends the log, and leaves the loop when the batch    *)
(* asked for "shutdown" or update() threw.                                 *)
(*                                                                         *)
(* The transport (networking::Server, not in this repository) is the       *)
(* environment, with the interface of the specification (section 6): it   *)
(* reports connects and disconnects of connection IDs that are never       *)
(* reused, delivers (connection, text) messages, and closes a connection   *)
(* the server disconnects at some later update.  "/execute" runs the       *)
(* loaded game's rules atomically (ExecRules of RuleNodes): only whether   *)
(* it ended the process matters here, since its GameState is a local.     *)
(* A message text is abstracted to what processMessages looks at: whether *)
(* it starts with '/', and its first word (the whole text otherwise).      *)
(***************************************************************************)
EXTENDS RuleNodes

CONSTANTS
  Connections,   \* the connection IDs the transport may hand out
  Texts,         \* the message texts clients may send
  GameDatas,     \* the GameData setupConfig may have loaded
  MaxBatch       \* the most messages one server.receive() returns

VARIABLES
  gameData,      \* GameServer::gameData
  clients,       \* GameServer::clients, connection IDs in connect order
  users,         \* GameServer::users: [id, named] in connect order
  open,          \* transport: the connections it has open
  closing,       \* transport: the connections it is to close (server.disconnect, or
                 \* a client process that ended)
  used,          \* transport: the IDs it has handed out
  incoming,      \* the rest of the batch processMessages is handling
  quit,          \* processMessages' local flag, set by "shutdown"
  updateError,   \* run's errorWhileUpdating
  pc,            \* "update", "process", "stopped" or "crashed"
  lastStore      \* history: {} before any "/execute" of a valid game, then
                 \* {the global map of the GameState the last one ended with}

vars == <<gameData, clients, users, open, closing, used, incoming, quit,
          updateError, pc, lastStore>>

server == <<clients, users>>
transport == <<open, closing, used>>

Message(c, t) == [connection |-> c, text |-> t]

\* User(c): the nickname starts as the connection ID.
NewUser(c) == [id |-> c, named |-> FALSE]

UserIDs == {users[i].id : i \in DOMAIN users}


\* onConnect for each new connection, in the order the transport reports
\* them: the connection and a User for it are pushed back.
OnConnect(cs, order) == cs \o order
OnConnectUsers(us, order) == us \o [i \in DOMAIN order |-> NewUser(order[i])]

\* onDisconnect for each closed connection: clients loses every copy of it,
\* and removeDisconnectedUser every user equal (same connection ID) to it.
OnDisconnect(cs, gone) == SelectSeq(cs, LAMBDA x : x \notin gone)
OnDisconnectUsers(us, gone) == SelectSeq(us, LAMBDA u : u.id \notin gone)

\* A changeUserNickname that adds a user when none has the ID.
ChangeUserNicknameAdding(us, c) ==
  IF \E i \in DOMAIN us : us[i].id = c
  THEN LET i == CHOOSE i \in DOMAIN us : us[i].id = c /\ \A j \in 1 .. i - 1 : us[j].id # c
       IN [us EXCEPT ![i].named = TRUE]
  ELSE Append(us, [id |-> c, named |-> TRUE])

\* changeUserNickname: the first user with that ID, if any, is renamed.
ChangeUserNickname(us, c) ==
  IF \E i \in DOMAIN us : us[i].id = c
  THEN LET i == CHOOSE i \in DOMAIN us : us[i].id = c /\ \A j \in 1 .. i - 1 : us[j].id # c
       IN [us EXCEPT ![i].named = TRUE]
  ELSE us

\* A text: "/<command> ..." is Text(TRUE, command), any other is Text(FALSE, text).
Text(slash, word) == [slash |-> slash, word |-> word]

-----------------------------------------------------------------------------
Init ==
  /\ gameData \in GameDatas
  /\ clients = <<>>
  /\ users = <<>>
  /\ open = {} /\ closing = {} /\ used = {}
  /\ incoming = <<>>
  /\ quit = FALSE
  /\ updateError = FALSE
  /\ pc = "update"
  /\ lastStore = {}

\* The batches server.receive() may return: messages that arrived from the
\* connections of this update, those closed in it included.
Batches(cs) == UNION {[1 .. n -> [connection : cs, text : Texts]] : n \in 0 .. MaxBatch}

\* server.update() runs the callbacks, then server.receive() takes the batch.
UpdateWith(new, gone) ==
  /\ pc = "update"
  /\ \E order \in SetToSeqs(new) :
       /\ clients' = OnConnect(OnDisconnect(clients, gone), order)
       /\ users' = OnConnectUsers(OnDisconnectUsers(users, gone), order)
  /\ open' = (open \ gone) \cup new
  /\ closing' = closing \ gone
  /\ used' = used \cup new
  /\ incoming' \in Batches(open \cup new)
  /\ pc' = "process"
  /\ UNCHANGED <<gameData, lastStore, quit, updateError>>

Update == \E new \in SUBSET (Connections \ used), gone \in SUBSET open : UpdateWith(new, gone)

\* server.update() throws: errorWhileUpdating, and the batch is still handled.
UpdateFails ==
  /\ pc = "update"
  /\ updateError' = TRUE
  /\ incoming' \in Batches(open)
  /\ pc' = "process"
  /\ UNCHANGED <<gameData, lastStore, server, transport, quit>>

\* processMessages, one message per step.
Handling(t) == pc = "process" /\ incoming # <<>> /\ Head(incoming).text = t
Sender == Head(incoming).connection

\* "quit": server.disconnect(connection); the user stays until onDisconnect.
ProcessQuit ==
  /\ Handling(Text(FALSE, "quit"))
  /\ closing' = closing \cup ({Sender} \cap open)
  /\ incoming' = Tail(incoming)
  /\ UNCHANGED <<gameData, lastStore, server, open, used, quit, updateError, pc>>

ProcessShutdown ==
  /\ Handling(Text(FALSE, "shutdown"))
  /\ quit' = TRUE
  /\ incoming' = Tail(incoming)
  /\ UNCHANGED <<gameData, lastStore, server, transport, updateError, pc>>

\* message.text.at(0) on an empty text throws std::out_of_range, which
\* nothing catches: the process terminates.
ProcessEmpty ==
  /\ Handling(Text(FALSE, ""))
  /\ pc' = "crashed"
  /\ UNCHANGED <<gameData, lastStore, server, transport, incoming, quit, updateError>>

ProcessNickname ==
  /\ Handling(Text(TRUE, "nickname"))
  /\ users' = ChangeUserNickname(users, Sender)
  /\ incoming' = Tail(incoming)
  /\ UNCHANGED <<gameData, lastStore, clients, transport, quit, updateError, pc>>

\* "/execute": a GameState for the users' connection IDs and the top-level
\* rules, stopping at the first failure; an exception ends the process.
\* With no valid game only a message is logged.
ProcessExecute ==
  /\ Handling(Text(TRUE, "execute"))
  /\ IF gameData.isValid
     THEN \E o \in ExecRules(gameData.topLevelRules,
                             NewGameState(gameData.variableMap, UserIDs,
                                          gameData.perPlayerVariableMap)) :
            /\ pc' = IF o.status = "CRASH" THEN "crashed" ELSE "process"
            /\ lastStore' = {o.gs.variableMap}
     ELSE UNCHANGED <<pc, lastStore>>
  /\ incoming' = Tail(incoming)
  /\ UNCHANGED <<gameData, server, transport, quit, updateError>>

\* Chat lines and unknown commands are only echoed to the log.
ProcessOther ==
  /\ pc = "process"
  /\ incoming # <<>>
  /\ Head(incoming).text \notin {Text(FALSE, "quit"), Text(FALSE, "shutdown"),
                                 Text(FALSE, ""), Text(TRUE, "nickname"),
                                 Text(TRUE, "execute")}
  /\ incoming' = Tail(incoming)
  /\ UNCHANGED <<gameData, lastStore, server, transport, quit, updateError, pc>>

\* The console client of connection c (main.cpp's executeJoinLobby) leaves
\* its loop: "exit" or "quit" typed (onTextEntry sends neither), or
\* client.update() threw.  executeJoinLobby returns, the networking::Client
\* is destroyed, and the transport will report the connection closed.  A
\* client that is still running only sends texts, which Batches covers.
ClientExit ==
  /\ pc \in {"update", "process"}
  /\ \E c \in open \ closing : closing' = closing \cup {c}
  /\ UNCHANGED <<gameData, lastStore, server, open, used, incoming, quit, updateError, pc>>

\* The batch is done: send the log, leave the loop on shutdown or an
\* update error, otherwise sleep and poll again.
FinishBatch ==
  /\ pc = "process"
  /\ incoming = <<>>
  /\ pc' = IF quit \/ updateError THEN "stopped" ELSE "update"
  /\ quit' = FALSE
  /\ updateError' = FALSE
  /\ UNCHANGED <<gameData, lastStore, server, transport, incoming>>

Next ==
  \/ Update
  \/ UpdateFails
  \/ ProcessQuit
  \/ ProcessShutdown
  \/ ProcessEmpty
  \/ ProcessNickname
  \/ ProcessExecute
  \/ ProcessOther
  \/ FinishBatch
  \/ ClientExit

\* No fairness is assumed: no property here is about what must happen.
Spec == Init /\ [][Next]_vars

-----------------------------------------------------------------------------
(* Properties.                                                             *)

\* Every connection the transport has open has exactly one User, and every
\* User and client is an open connection, so "/execute" builds its GameState
\* for exactly the connected players.  About onConnect, onDisconnect and
\* changeUserNickname for a sender whose onDisconnect already ran in the
\* same update.
UsersAreLive ==
  /\ UserIDs = open
  /\ Len(users) = Cardinality(open)
  /\ {clients[i] : i \in DOMAIN clients} = open

\* The GameState "/execute" builds for the users now connected.
ExecuteStore == NewGameState(gameData.variableMap, UserIDs, gameData.perPlayerVariableMap)

\* Spec section 3: the global variable map is "mutated by rule execution;
\* lives for the session", so an "/execute" starts from the values the
\* previous one left.  About processMessages constructing a fresh local
\* GameState from gameData's templates for every "/execute".
StoreLivesForSession ==
  Handling(Text(TRUE, "execute")) /\ gameData.isValid =>
    \A m \in lastStore : ExecuteStore.variableMap = m

\* Spec section 7: no fault crosses a component boundary uncaught; the
\* server process never dies while handling messages.
NoServerCrash == pc # "crashed"
====
