------------------------ MODULE InfiniteCommsProofs ------------------------
(***************************************************************************)
(* The server and the client of the program are those of Server.tla and    *)
(* Client.tla, so that what is proved of them holds in it, and from the    *)
(* first send on there is one message, for any number of connections,      *)
(* descriptors and visitors.                                               *)
(***************************************************************************)
EXTENDS InfiniteComms, ServerProofs

\* What ClientProofs says, of the client of the program.
CP == INSTANCE ClientProofs WITH
    Fds <- ClientFds,
    descriptors <- c_descriptors, poll_descriptor_map <- c_map, results <- c_results,
    socket_descriptor <- c_socket_descriptor, state <- c_state,
    connection <- c_connection, todo <- c_todo, reading <- c_reading, hook <- c_hook,
    phase <- c_phase, socket <- c_socket, leaked <- c_leaked, faults <- c_faults

-----------------------------------------------------------------------------
(* The client of the program and that of ClientProofs are the same.         *)

\* So are their notions of size.
LEMMA SameSize ==
    \A S : (CP!IsFiniteSet(S) <=> IsFiniteSet(S)) /\ CP!Cardinality(S) = Cardinality(S)
<1>1. \A S : CP!IsFiniteSet(S) <=> IsFiniteSet(S)
  BY DEF IsFiniteSet, CP!IsFiniteSet
<1>2. \A S : CP!Cardinality(S) = Cardinality(S)
  BY Zenon DEF Cardinality, CP!Cardinality, IsFiniteSet, CP!IsFiniteSet
<1> QED BY <1>1, <1>2

\* What Client assumes holds in the program.
LEMMA ClientAssumptions ==
    /\ NULL \notin Conns /\ NoFd \notin ClientFds /\ ClientFds \subseteq Nat
    /\ CP!IsFiniteSet(Conns) /\ CP!IsFiniteSet(ClientFds)
    /\ CP!Cardinality(ClientFds) <= CP!Cardinality(Conns)
    /\ {MaxPending, MaxFaults} \subseteq Nat
    /\ HookCalls \subseteq {"connect", "disconnect"}
<1> QED BY SameSize, NullAssumption, BoundsAssumption, ObjectsAssumption, ClientFdsAssumption,
           HooksOnlyPrint

USE DEF client!Idling, CP!Idling, client!owned, CP!owned, client!owner_vars, CP!owner_vars,
        client!NoSocket, CP!NoSocket, client!NoFault, CP!NoFault, client!service_vars,
        CP!service_vars, client!NoHook, CP!NoHook, client!Settle, CP!Settle,
        client!ShutdownFails, CP!ShutdownFails, client!Service!Reported,
        CP!Service!Reported, client!Service!Settle, CP!Service!Settle,
        client!Service!Watched, CP!Service!Watched, client!pass_vars, CP!pass_vars,
        client!Fault, CP!Fault, client!InPass, CP!InPass, client!SettleAsIs, CP!SettleAsIs

\* Both begin alike.
LEMMA SameInit == client!Init <=> CP!Init
<1> QED BY Zenon DEF client!EndpointInit, CP!EndpointInit, client!Init, CP!Init,
        client!Service!Init, CP!Service!Init

\* connect() makes the same connection.
LEMMA SameConnect == client!connect <=> CP!connect
<1> QED BY Zenon DEF client!Min, CP!Min, client!FreeFds, CP!FreeFds, client!NewConn,
        CP!NewConn, client!NextFd, CP!NextFd, client!UserCalls, CP!UserCalls,
        client!connect, CP!connect, client!connect_rest, CP!connect_rest,
        client!state_transition, CP!state_transition, client!Service!Alive,
        CP!Service!Alive, client!Service!Created, CP!Service!Created, client!Service!Open,
        CP!Service!Open, client!Service!add_socket, CP!Service!add_socket

\* poll() finds the same results.
LEMMA SamePoll == client!poll <=> CP!poll
<1> QED BY Zenon DEF client!Readiness, CP!Readiness, client!kernel_poll, CP!kernel_poll,
        client!poll, CP!poll, client!poll_service, CP!poll_service, client!Service!Flags,
        CP!Service!Flags, client!Service!Found, CP!Service!Found, client!Service!Hits,
        CP!Service!Hits, client!Service!Inserted, CP!Service!Inserted,
        client!Service!Invalid, CP!Service!Invalid, client!Service!Ready, CP!Service!Ready,
        client!Service!Status, CP!Service!Status, client!Service!poll, CP!Service!poll

\* It throws in the same states.
LEMMA SamePollThrows == client!poll_throws <=> CP!poll_throws
<1> QED BY Zenon DEF client!poll_service_throws, CP!poll_service_throws, client!poll_throws,
        CP!poll_throws, client!Service!poll_error, CP!Service!poll_error

\* The handlers of a pass are the same, those of a connection in trouble
LEMMA SameTrouble == \A e : client!client_trouble(e) <=> CP!client_trouble(e)
<1> QED BY Zenon DEF client!Call, CP!Call, client!Takes, CP!Takes, client!client_trouble,
        CP!client_trouble, client!tell_gone, CP!tell_gone

\* and of one to read from.
LEMMA SameReady == \A e : client!handle_client_ready_to_read(e) <=> CP!handle_client_ready_to_read(e)
<1> QED BY Zenon DEF client!StartReading, CP!StartReading, client!Takes, CP!Takes,
        client!handle_client_ready_to_read, CP!handle_client_ready_to_read,
        client!kernel_vars, CP!kernel_vars

\* A receive() takes the same id,
LEMMA SameReceiveId == client!receive_id <=> CP!receive_id
<1> QED BY Zenon DEF client!Consumed, CP!Consumed, client!Throw, CP!Throw,
        client!receive_id, CP!receive_id

\* the same body,
LEMMA SameReceiveBody == client!receive_body <=> CP!receive_body
<1> QED BY Zenon DEF client!Call, CP!Call, client!Consumed, CP!Consumed,
        client!receive_body, CP!receive_body

\* comes to the end of the same streams,
LEMMA SameReceiveEof == client!receive_eof <=> CP!receive_eof
<1> QED BY Zenon DEF client!Call, CP!Call, client!EndOfStream, CP!EndOfStream,
        client!receive_eof, CP!receive_eof, client!tell_gone, CP!tell_gone

\* and fails alike.
LEMMA SameReceiveThrows == client!receive_throws <=> CP!receive_throws
<1> QED BY Zenon DEF client!Throw, CP!Throw, client!receive_throws, CP!receive_throws

\* A hook returns to the same loop.
LEMMA SameHookReturns == client!hook_returns <=> CP!hook_returns
<1> QED BY Zenon DEF client!hook_returns, CP!hook_returns

\* The network delivers the same chunk.
LEMMA SamePeerSends == \A e : client!peer_sends(e) <=> CP!peer_sends(e)
<1> QED BY Zenon DEF client!Changes, CP!Changes, client!peer_sends, CP!peer_sends

\* The types are the same.
LEMMA SameTypeOK == client!TypeOK <=> CP!TypeOK
<1> QED BY Zenon DEF client!EndpointTypeOK, CP!EndpointTypeOK, client!HookNames,
        CP!HookNames, client!SocketStates, CP!SocketStates, client!TypeOK, CP!TypeOK,
        client!Service!Entries, CP!Service!Entries, client!Service!Statuses,
        CP!Service!Statuses, client!Service!TypeOK, CP!Service!TypeOK

HIDE DEF client!Idling, CP!Idling, client!owned, CP!owned, client!owner_vars, CP!owner_vars,
         client!NoSocket, CP!NoSocket, client!NoFault, CP!NoFault, client!service_vars,
         CP!service_vars, client!NoHook, CP!NoHook, client!Settle, CP!Settle,
         client!ShutdownFails, CP!ShutdownFails, client!Service!Reported,
         CP!Service!Reported, client!Service!Settle, CP!Service!Settle,
         client!Service!Watched, CP!Service!Watched, client!pass_vars, CP!pass_vars,
         client!Fault, CP!Fault, client!InPass, CP!InPass, client!SettleAsIs, CP!SettleAsIs

\* The steps of the client that the program takes.
LEMMA SameSteps ==
    /\ client!Dispatch <=> CP!Dispatch
    /\ client!Receive <=> CP!Receive
    /\ client!InPass <=> CP!InPass
<1>1. client!Dispatch <=> CP!Dispatch
  BY SameTrouble, SameReady DEF client!Dispatch, CP!Dispatch
<1>2. client!Receive <=> CP!Receive
  BY SameReceiveId, SameReceiveBody, SameReceiveEof, SameReceiveThrows DEF client!Receive, CP!Receive
<1>3. client!InPass <=> CP!InPass
  BY DEF client!InPass, CP!InPass, client!Idling, CP!Idling, client!NoHook, CP!NoHook
<1> QED BY <1>1, <1>2, <1>3

-----------------------------------------------------------------------------
(* Each step of the program is one of the server, of the client, of both or *)
(* of none.                                                                 *)

\* What a part does not do leaves it as it is.
LEMMA PartsStay ==
    UNCHANGED client_vars => UNCHANGED client!vars /\ UNCHANGED CP!vars
<1> QED BY DEF client_vars, client!vars, CP!vars,
        client!service_vars, CP!service_vars, client!owner_vars, CP!owner_vars,
        client!pass_vars, CP!pass_vars, client!kernel_vars, CP!kernel_vars

\* Both ends of what the network carries exist.
EndsExist ==
    /\ mate \in Conns \cup {NULL}
    /\ to_client > 0 => c_connection \in Conns

\* Every step keeps to what Server and Client allow.
LEMMA StepsOfTheParts ==
    ASSUME EndsExist, [ProgramNext]_all_vars
    PROVE  [Next]_vars /\ [client!Next]_(client!vars) /\ [CP!Next]_(CP!vars)
<1> USE DEF Next, client!Next, CP!Next
<1>1. CASE server_open \/ server_serve \/ server_callback
  BY <1>1, PartsStay DEF server_open, server_serve, server_callback
<1>2. CASE client_send \/ client_callback
  BY <1>2, PartsStay DEF client_send, client_callback
<1>3. CASE client_connect
  <2>1. (\E l \in Listening : peer_connects(l)) => Next
    BY DEF Listening, Peer
  <2> QED BY <1>3, <2>1, SameConnect DEF client_connect
<1>4. CASE server_runs \/ server_hook_returns \/ server_poll_throws
  BY <1>4, PartsStay DEF server_runs, server_hook_returns, server_poll_throws
<1>5. CASE client_runs \/ client_hook_returns \/ client_poll_throws
  BY <1>5, SamePoll, SameSteps, SameHookReturns, SamePollThrows
     DEF client_runs, client_hook_returns, client_poll_throws
<1>6. CASE deliver_to_server \/ visitor_connects \/ visitor_closes
  BY <1>6, PartsStay DEF deliver_to_server, visitor_connects, visitor_closes, Listening, Peer, EndsExist
<1>7. CASE deliver_to_client
  BY <1>7, SamePeerSends DEF deliver_to_client, EndsExist
<1>8. CASE Terminated \/ UNCHANGED all_vars
  BY <1>8, PartsStay DEF Terminated, all_vars
<1> QED BY <1>1, <1>2, <1>3, <1>4, <1>5, <1>6, <1>7, <1>8 DEF ProgramNext, MainStep

-----------------------------------------------------------------------------
(* The message, wherever it is.                                             *)

Early == {"open", "serve", "connect"}
Places == Early \cup {"send", "server", "client", "terminated"}

ServerHolds == Chunks(socket, reading, hook, mate)
ClientHolds == CP!Chunks(c_socket, c_reading, c_hook, c_connection)

\* The thread is in one part, and only a callback is in the middle of a message.
Turns ==
    /\ main # "server" => ~ InPass
    /\ main # "client" => ~ CP!InPass
    /\ main \in Early => mate = NULL /\ c_connection = NULL
    /\ main \notin Early => c_connection \in Conns
    /\ sent # 0 =>
          \/ main = "send" /\ sent < MessageChunks
          \/ main = "server" /\ hook.name = "message"
          \/ main = "client" /\ c_hook.name = "message"

\* The chunks that there are; those of a callback count until it returns.
Accounted ==
    to_server + to_client + ServerHolds + ClientHolds
       = IF main \in Early THEN 0 ELSE IF main = "send" THEN sent ELSE MessageChunks + sent

Running == ServerCalm(mate) /\ CP!ClientCalm /\ Turns /\ Accounted

ProgramTypes ==
    /\ main \in Places
    /\ sent \in 0 .. MessageChunks
    /\ to_server \in Nat /\ to_client \in Nat
    /\ main = "terminated" => to_server <= MessageChunks /\ to_client <= MessageChunks
    /\ visits \in 0 .. MaxVisits /\ waiting \in 0 .. visits

ProgramInv ==
    /\ IInv /\ CP!IInv
    /\ EndsExist /\ ProgramTypes
    /\ main # "terminated" => Running

\* What is there of the parts.
LEMMA PartsExist ==
    ASSUME ProgramInv
    PROVE  /\ EndpointInv /\ CP!EndpointInv /\ mate \in Conns \cup {NULL}
           /\ c_connection \in Conns \cup {NULL}
           /\ ServerHolds \in Nat /\ ClientHolds \in Nat
<1>1. EndpointInv /\ CP!EndpointInv /\ mate \in Conns \cup {NULL}
  BY DEF ProgramInv, EndsExist, IInv, CP!IInv
<1>2. c_connection \in Conns \cup {NULL}
  BY <1>1 DEF CP!EndpointInv, CP!PassOK
<1>3. ServerHolds \in Nat
  BY <1>1, ChunksType DEF ServerHolds
<1>4. ClientHolds \in Nat
  BY <1>1, <1>2, ClientAssumptions, CP!ChunksType DEF ClientHolds
<1> QED BY <1>1, <1>2, <1>3, <1>4

\* A server that does nothing.
LEMMA ServerStays ==
    ASSUME UNCHANGED <<service_vars, connection, pass_vars, kernel_vars, faults>>, mate' = mate
    PROVE  /\ ServerCalm(mate) => ServerCalm(mate)' /\ ServerHolds' = ServerHolds
           /\ (InPass <=> InPass') /\ UNCHANGED <<hook, faults>>
<1>1. /\ UNCHANGED <<socket, connection, todo, reading, hook, faults>>
      /\ Service!Watched' = Service!Watched
  BY DEF service_vars, pass_vars, kernel_vars, Service!Watched
<1> QED BY <1>1 DEF ServerCalm, Calm, ServerHolds, InPass

\* A client that does nothing.
LEMMA ClientStays ==
    ASSUME UNCHANGED client_vars
    PROVE  /\ CP!ClientCalm => CP!ClientCalm' /\ ClientHolds' = ClientHolds
           /\ (CP!InPass <=> CP!InPass') /\ UNCHANGED <<c_hook, c_faults, c_connection>>
<1>1. /\ UNCHANGED <<c_socket, c_connection, c_todo, c_reading, c_hook, c_faults>>
      /\ CP!Service!Watched' = CP!Service!Watched
  BY DEF client_vars, CP!Service!Watched
<1> QED BY <1>1 DEF CP!ClientCalm, CP!Calm, ClientHolds, CP!InPass

\* What the network carries is never more than a message.
LEMMA RunningTypes ==
    ASSUME ProgramInv
    PROVE  to_server \in 0 .. MessageChunks /\ to_client \in 0 .. MessageChunks
<1> DEFINE n == IF main \in Early THEN 0 ELSE IF main = "send" THEN sent ELSE MessageChunks + sent
<1>1. /\ ServerHolds \in Nat /\ ClientHolds \in Nat
      /\ EndpointInv /\ CP!EndpointInv /\ mate \in Conns \cup {NULL}
      /\ c_connection \in Conns \cup {NULL}
  BY PartsExist
<1>2. hook.name = "message" => ServerHolds >= 2
  BY <1>1, ChunksType DEF ServerHolds, Chunks
<1>3. c_hook.name = "message" => ClientHolds >= 2
  BY <1>1, ClientAssumptions, CP!ChunksType DEF ClientHolds, CP!Chunks
<1>4. n \in {0, sent, MessageChunks + sent}
  OBVIOUS
<1>5. main # "terminated" /\ n = MessageChunks + sent => sent = 0 \/ ServerHolds >= 2 \/ ClientHolds >= 2
  <2>1. CASE sent = 0
    BY <2>1
  <2>2. CASE sent # 0 /\ main # "terminated"
    <3>1. main \in {"send", "server", "client"}
      BY <2>2 DEF ProgramInv, Running, Turns
    <3>2. n = MessageChunks + sent => main # "send"
      BY <3>1 DEF ProgramInv, ProgramTypes, MessageChunks, Early
    <3> QED BY <1>2, <1>3, <2>2, <3>2 DEF ProgramInv, Running, Turns
  <2> QED BY <2>1, <2>2
<1>6. main # "terminated" => to_server + to_client + ServerHolds + ClientHolds = n
  BY DEF ProgramInv, Running, Accounted
<1> HIDE DEF n
<1> QED BY <1>1, <1>4, <1>5, <1>6 DEF ProgramInv, ProgramTypes, MessageChunks

-----------------------------------------------------------------------------
(* What each step does to the message.                                      *)

Kept == EndsExist' /\ ProgramTypes' /\ (main' # "terminated" => Running')

\* An exception ends main().
LEMMA Ends ==
    ASSUME ProgramInv, main' = "terminated", UNCHANGED <<sent, network_vars, visitor_vars>>,
           to_client > 0 => c_connection' = c_connection
    PROVE  Kept
<1>1. UNCHANGED <<to_server, to_client, mate, waiting, visits>>
  BY DEF network_vars, visitor_vars
<1> QED BY <1>1, RunningTypes DEF ProgramInv, ProgramTypes, EndsExist, Kept, Places, MessageChunks

\* The server opens.
LEMMA ServerOpenKeeps ==
    ASSUME ProgramInv, server_open
    PROVE  Kept
<1>1. /\ main = "open" /\ open
      /\ main' = IF faults' # faults THEN "terminated" ELSE "serve"
      /\ UNCHANGED <<client_vars, sent, network_vars, visitor_vars>>
  BY DEF server_open, Goto
<1>2. /\ UNCHANGED <<to_server, to_client, mate, waiting, visits>> /\ ProgramTypes /\ Running /\ Turns
      /\ ServerCalm(mate) /\ CP!ClientCalm /\ Accounted /\ IInv /\ EndsExist
  BY <1>1 DEF network_vars, visitor_vars, ProgramInv, Running
<1>3. /\ CP!ClientCalm' /\ ClientHolds' = ClientHolds /\ (CP!InPass <=> CP!InPass')
      /\ UNCHANGED c_connection
  BY <1>1, <1>2, ClientStays
<1>4. CASE faults' # faults
  BY <1>1, <1>3, <1>4, Ends
<1>5. CASE faults' = faults
  <2>1. mate = NULL /\ c_connection = NULL /\ ~ InPass /\ ~ CP!InPass /\ sent = 0
    BY <1>1, <1>2 DEF Turns, Early
  <2>2. /\ Calm(socket', connection', Service!Watched', todo', reading', hook', NULL)
        /\ Chunks(socket', reading', hook', NULL) = ServerChunks(NULL)
        /\ UNCHANGED <<todo, reading, hook>>
    BY <1>1, <1>2, <1>5, <2>1, CalmOpen
  <2>3. ServerCalm(mate)' /\ ServerHolds' = ServerHolds /\ ~ InPass'
    BY <1>2, <2>1, <2>2 DEF ServerCalm, ServerHolds, ServerChunks, InPass
  <2>4. Turns' /\ Accounted'
    BY <1>1, <1>2, <1>3, <1>5, <2>1, <2>3 DEF Turns, Accounted, Early
  <2> QED BY <1>1, <1>2, <1>3, <1>5, <2>3, <2>4
          DEF Kept, Running, EndsExist, ProgramTypes, Places, Early
<1> QED BY <1>4, <1>5

\* The server serves.
LEMMA ServerServeKeeps ==
    ASSUME ProgramInv, server_serve
    PROVE  Kept
<1>1. /\ main = "serve" /\ main' = "connect"
      /\ UNCHANGED <<client_vars, sent, network_vars, visitor_vars>>
      /\ UNCHANGED <<service_vars, connection, pass_vars, kernel_vars, faults>>
  BY DEF server_serve, Goto, serve
<1>2. /\ UNCHANGED <<to_server, to_client, mate, waiting, visits>> /\ ProgramTypes /\ Turns
      /\ ServerCalm(mate) /\ CP!ClientCalm /\ Accounted /\ EndsExist
  BY <1>1 DEF network_vars, visitor_vars, ProgramInv, Running
<1>3. /\ CP!ClientCalm' /\ ClientHolds' = ClientHolds /\ (CP!InPass <=> CP!InPass')
      /\ UNCHANGED c_connection
  BY <1>1, <1>2, ClientStays
<1>4. ServerCalm(mate)' /\ ServerHolds' = ServerHolds /\ (InPass <=> InPass')
  BY <1>1, <1>2, ServerStays
<1>5. Turns' /\ Accounted'
  BY <1>1, <1>2, <1>3, <1>4 DEF Turns, Accounted, Early
<1> QED BY <1>1, <1>2, <1>3, <1>4, <1>5 DEF Kept, Running, EndsExist, ProgramTypes, Places, Early

\* The client connects: the connection is in the backlog, and empty.
LEMMA ClientConnectKeeps ==
    ASSUME ProgramInv, client_connect
    PROVE  Kept
<1>1. /\ main = "connect" /\ main' = IF c_faults' # c_faults THEN "terminated" ELSE "send"
      /\ CP!connect /\ UNCHANGED <<sent, network_vars, visitor_vars>>
  BY SameConnect DEF client_connect, Goto
<1>2. /\ UNCHANGED <<to_server, to_client, mate, waiting, visits>> /\ ProgramTypes /\ Turns
      /\ ServerCalm(mate) /\ CP!ClientCalm /\ Accounted /\ IInv /\ CP!IInv /\ EndsExist
      /\ ServerHolds \in Nat /\ ClientHolds \in Nat
  BY <1>1, PartsExist DEF network_vars, visitor_vars, ProgramInv, Running
<1>3. mate = NULL /\ c_connection = NULL /\ ~ InPass /\ ~ CP!InPass /\ sent = 0
  BY <1>1, <1>2 DEF Turns, Early
<1>4. to_server = 0 /\ to_client = 0 /\ ServerHolds = 0
  BY <1>1, <1>2 DEF Accounted, Early, ProgramTypes
<1>5. CASE c_faults' # c_faults
  BY <1>1, <1>4, <1>5, Ends
<1>6. CASE c_faults' = c_faults
  <2>1. /\ CP!Calm(c_socket', c_connection', CP!Service!Watched', c_todo', c_reading', c_hook', c_connection')
        /\ CP!Chunks(c_socket', c_reading', c_hook', c_connection') = 0
        /\ UNCHANGED <<c_todo, c_reading, c_hook>> /\ c_connection' \in Conns
    BY <1>1, <1>2, <1>3, <1>6, ClientAssumptions, CP!CalmConnect
  <2>2. CP!ClientCalm' /\ ClientHolds' = 0 /\ ~ CP!InPass'
    BY <1>3, <2>1 DEF CP!ClientCalm, ClientHolds, CP!InPass
  <2>3. PICK l \in Conns : peer_connects(l)
    BY <1>6 DEF client_connect, Listening
  <2>4. /\ Calm(socket', connection', Service!Watched', todo', reading', hook', NULL)
        /\ Chunks(socket', reading', hook', NULL) = ServerChunks(NULL)
        /\ UNCHANGED <<todo, reading, hook>>
    BY <1>2, <1>3, <2>3, CalmPeerConnects
  <2>5. ServerCalm(mate)' /\ ServerHolds' = ServerHolds /\ ~ InPass'
    BY <1>2, <1>3, <2>4 DEF ServerCalm, ServerHolds, ServerChunks, InPass
  <2>6. Turns' /\ Accounted'
    BY <1>1, <1>2, <1>3, <1>4, <1>6, <2>1, <2>2, <2>5 DEF Turns, Accounted, Early
  <2> QED BY <1>1, <1>2, <1>6, <2>1, <2>2, <2>5, <2>6
          DEF Kept, Running, EndsExist, ProgramTypes, Places, Early
<1> QED BY <1>5, <1>6

\* The first message, chunk by chunk.
LEMMA ClientSendKeeps ==
    ASSUME ProgramInv, client_send
    PROVE  Kept
<1>1. /\ main = "send" /\ to_server' = to_server + 1
      /\ main' = IF sent + 1 = MessageChunks THEN "server" ELSE main
      /\ sent' = (sent + 1) % MessageChunks
      /\ UNCHANGED <<vars, client_vars, to_client, visitor_vars>>
  BY DEF client_send
<1>2. /\ UNCHANGED <<to_client, mate, waiting, visits>> /\ ProgramTypes /\ Turns
      /\ ServerCalm(mate) /\ CP!ClientCalm /\ Accounted /\ EndsExist
      /\ ServerHolds \in Nat /\ ClientHolds \in Nat
  BY <1>1, PartsExist DEF visitor_vars, ProgramInv, Running
<1>3. /\ CP!ClientCalm' /\ ClientHolds' = ClientHolds /\ (CP!InPass <=> CP!InPass')
      /\ UNCHANGED c_connection
  BY <1>1, <1>2, ClientStays
<1>4. ServerCalm(mate)' /\ ServerHolds' = ServerHolds /\ (InPass <=> InPass')
  BY <1>1, <1>2, ServerStays DEF vars, owner_vars
<1>5. sent \in {0, 1}
  BY <1>1, <1>2 DEF Turns, ProgramTypes, MessageChunks
<1>6. \/ sent = 0 /\ sent' = 1 /\ main' = "send"
      \/ sent = 1 /\ sent' = 0 /\ main' = "server"
  BY <1>1, <1>5 DEF MessageChunks
<1>7. Turns' /\ Accounted'
  <2>1. to_server + to_client + ServerHolds + ClientHolds = sent
    BY <1>1, <1>2 DEF Accounted, Early
  <2>2. to_server' + to_client' + ServerHolds' + ClientHolds' = sent + 1
    BY <1>1, <1>2, <1>3, <1>4, <1>5, <2>1 DEF ProgramTypes
  <2>3. Accounted'
    BY <1>6, <2>2 DEF Accounted, Early, MessageChunks
  <2> QED BY <1>1, <1>2, <1>3, <1>4, <1>6, <2>3 DEF Turns, Early, MessageChunks
<1>8. ProgramTypes'
  BY <1>1, <1>2, <1>6 DEF ProgramTypes, Places, Early, MessageChunks
<1> QED BY <1>1, <1>2, <1>3, <1>4, <1>7, <1>8 DEF Kept, Running, EndsExist


\* A pass of the server: it accepts the client or a visitor, or takes a chunk.
LEMMA ServerRunsKeeps ==
    ASSUME ProgramInv, server_runs
    PROVE  Kept
<1>1. /\ main = "server" /\ main' = "server" /\ Accepts(hook')
      /\ UNCHANGED <<client_vars, sent, to_server, to_client>>
      /\ \/ poll \/ Dispatch
         \/ Receive /\ faults' = faults /\ (reading.part = "body" => hook'.name = "message")
  BY DEF server_runs, Subscribed, network_vars
<1>2. /\ ProgramTypes /\ Turns /\ ServerCalm(mate) /\ CP!ClientCalm /\ Accounted /\ IInv /\ EndsExist
      /\ mate \in Conns \cup {NULL}
  BY <1>1, PartsExist DEF ProgramInv, Running
<1>3. /\ CP!ClientCalm' /\ ClientHolds' = ClientHolds /\ (CP!InPass <=> CP!InPass')
      /\ UNCHANGED <<c_hook, c_connection>>
  BY <1>1, <1>2, ClientStays
<1>4. /\ Calm(socket', connection', Service!Watched', todo', reading', hook', mate)
      /\ Chunks(socket', reading', hook', mate) = ServerChunks(mate)
      /\ hook = NoHook
      /\ hook'.name = "connect" =>
            /\ hook'.client \in Conns
            /\ mate = NULL =>
                 /\ Calm(socket', connection', Service!Watched', todo', reading', hook', hook'.client)
                 /\ Chunks(socket', reading', hook', hook'.client) = ServerChunks(NULL)
  BY <1>1, <1>2, CalmServerRuns
<1>5. /\ ServerCalm(mate)' /\ ServerHolds' = ServerHolds /\ mate' \in Conns \cup {NULL}
  <2>1. CASE mate' = mate
    BY <1>2, <1>4, <2>1 DEF ServerCalm, ServerHolds, ServerChunks
  <2>2. CASE mate = NULL /\ mate' = hook'.client /\ hook'.name = "connect"
    BY <1>2, <1>4, <2>2 DEF ServerCalm, ServerHolds, ServerChunks
  <2> QED BY <1>1, <2>1, <2>2 DEF Accepts, visitor_vars
<1>6. sent = 0
  BY <1>1, <1>2, <1>4 DEF Turns, NoHook
<1>7. Turns' /\ Accounted'
  BY <1>1, <1>2, <1>3, <1>5, <1>6 DEF Turns, Accounted, Early
<1>8. visits' = visits /\ waiting' \in 0 .. visits
  BY <1>1, <1>2 DEF Accepts, visitor_vars, ProgramTypes
<1> QED BY <1>1, <1>2, <1>3, <1>5, <1>7, <1>8
        DEF Kept, Running, EndsExist, ProgramTypes, Places, Early

\* The callback of the server sends a chunk of its answer.
LEMMA ServerCallbackKeeps ==
    ASSUME ProgramInv, server_callback
    PROVE  Kept
<1>1. /\ main = "server" /\ main' = main /\ sent < Answer(hook)
      /\ sent' = sent + 1 /\ to_client' = to_client + 1
      /\ UNCHANGED <<vars, client_vars, to_server, mate, waiting, visits>>
  BY DEF server_callback, visitor_vars
<1>2. /\ ProgramTypes /\ Turns /\ ServerCalm(mate) /\ CP!ClientCalm /\ Accounted /\ EndsExist
      /\ ServerHolds \in Nat /\ ClientHolds \in Nat
  BY <1>1, PartsExist DEF ProgramInv, Running
<1>3. /\ CP!ClientCalm' /\ ClientHolds' = ClientHolds /\ (CP!InPass <=> CP!InPass')
      /\ UNCHANGED <<c_hook, c_connection>>
  BY <1>1, <1>2, ClientStays
<1>4. ServerCalm(mate)' /\ ServerHolds' = ServerHolds /\ (InPass <=> InPass') /\ hook' = hook
  BY <1>1, <1>2, ServerStays DEF vars, owner_vars
<1>5. sent \in {0, 1} /\ hook.name = "message"
  BY <1>1, <1>2 DEF Answer, ProgramTypes, MessageChunks
<1>6. Accounted'
  BY <1>1, <1>2, <1>3, <1>4, <1>5 DEF Accounted, ProgramTypes, Early, MessageChunks
<1>7. Turns'
  BY <1>1, <1>2, <1>3, <1>4, <1>5 DEF Turns, Early
<1>8. ProgramTypes'
  BY <1>1, <1>2, <1>5 DEF ProgramTypes, MessageChunks
<1> QED BY <1>1, <1>2, <1>3, <1>4, <1>6, <1>7, <1>8 DEF Kept, Running, EndsExist, Turns, Early

\* A hook of the server returns; after the timeout hook it is the client's turn.
LEMMA ServerHookReturnsKeeps ==
    ASSUME ProgramInv, server_hook_returns
    PROVE  Kept
<1>1. /\ main = "server" /\ sent = Answer(hook) /\ hook_returns /\ sent' = 0
      /\ main' = IF hook.name = "poll_timeout" THEN "client" ELSE "server"
      /\ UNCHANGED <<client_vars, to_server, to_client, mate, waiting, visits>>
  BY DEF server_hook_returns, AfterHook, NextLoop, network_vars, visitor_vars
<1>2. /\ ProgramTypes /\ Turns /\ ServerCalm(mate) /\ CP!ClientCalm /\ Accounted /\ EndsExist
      /\ EndpointInv /\ mate \in Conns \cup {NULL}
      /\ ServerHolds \in Nat /\ ClientHolds \in Nat
  BY <1>1, PartsExist DEF ProgramInv, Running
<1>3. /\ CP!ClientCalm' /\ ClientHolds' = ClientHolds /\ (CP!InPass <=> CP!InPass')
      /\ UNCHANGED <<c_hook, c_connection>>
  BY <1>1, <1>2, ClientStays
<1>4. /\ Calm(socket', connection', Service!Watched', todo', reading', hook', mate)
      /\ Chunks(socket', reading', hook', mate)
            = Chunks(socket, reading, hook, mate) - (IF hook.name = "message" THEN 2 ELSE 0)
      /\ UNCHANGED <<todo, reading>> /\ hook' = NoHook /\ reading = Idling
  BY <1>1, <1>2, CalmHookReturns DEF ServerCalm
<1>5. ServerCalm(mate)' /\ ServerHolds' = ServerHolds - sent
  BY <1>1, <1>4 DEF ServerCalm, ServerHolds, Answer, MessageChunks
<1>6. main' = "client" => ~ InPass'
  BY <1>1, <1>2, <1>4 DEF ServerCalm, Calm, PassCalm, InPass
<1>7. sent \in {0, 2}
  BY <1>1 DEF Answer, MessageChunks
<1>8. Accounted'
  BY <1>1, <1>2, <1>3, <1>5, <1>7 DEF Accounted, ProgramTypes, Early, MessageChunks
<1>9. Turns'
  BY <1>1, <1>2, <1>3, <1>6 DEF Turns, Early
<1>10. ProgramTypes'
  BY <1>1, <1>2 DEF ProgramTypes, Places, Early, MessageChunks
<1> QED BY <1>1, <1>2, <1>3, <1>5, <1>8, <1>9, <1>10 DEF Kept, Running, EndsExist, Turns, Early

\* poll() of the server throws.
LEMMA ServerThrowsKeeps ==
    ASSUME ProgramInv, server_poll_throws
    PROVE  Kept
<1>1. /\ main' = "terminated" /\ UNCHANGED <<client_vars, sent, network_vars, visitor_vars>>
  BY DEF server_poll_throws, Goto
<1> QED BY <1>1, Ends DEF client_vars

\* A pass of the client takes a chunk.
LEMMA ClientRunsKeeps ==
    ASSUME ProgramInv, client_runs
    PROVE  Kept
<1>1. /\ main = "client" /\ main' = "client"
      /\ UNCHANGED <<vars, sent, to_server, to_client, mate, waiting, visits>>
      /\ \/ CP!poll \/ CP!Dispatch
         \/ CP!Receive /\ c_faults' = c_faults /\ (c_reading.part = "body" => c_hook'.name = "message")
  BY SamePoll, SameSteps DEF client_runs, Subscribed, network_vars, visitor_vars
<1>2. /\ ProgramTypes /\ Turns /\ ServerCalm(mate) /\ CP!ClientCalm /\ Accounted /\ CP!IInv /\ EndsExist
  BY <1>1 DEF ProgramInv, Running
<1>3. ServerCalm(mate)' /\ ServerHolds' = ServerHolds /\ (InPass <=> InPass') /\ hook' = hook
  BY <1>1, <1>2, ServerStays DEF vars, owner_vars
<1>4. /\ CP!Calm(c_socket', c_connection', CP!Service!Watched', c_todo', c_reading', c_hook', c_connection')
      /\ CP!Chunks(c_socket', c_reading', c_hook', c_connection') = CP!ClientChunks
      /\ UNCHANGED c_connection /\ c_hook = CP!NoHook
  BY <1>1, <1>2, ClientAssumptions, CP!CalmClientRuns
<1>5. CP!ClientCalm' /\ ClientHolds' = ClientHolds
  BY <1>4 DEF CP!ClientCalm, ClientHolds, CP!ClientChunks
<1>6. sent = 0
  BY <1>1, <1>2, <1>4 DEF Turns, CP!NoHook
<1>7. Turns' /\ Accounted'
  BY <1>1, <1>2, <1>3, <1>4, <1>5, <1>6 DEF Turns, Accounted, Early
<1> QED BY <1>1, <1>2, <1>3, <1>4, <1>5, <1>7 DEF Kept, Running, EndsExist, ProgramTypes

\* The callback of the client sends a chunk of its answer.
LEMMA ClientCallbackKeeps ==
    ASSUME ProgramInv, client_callback
    PROVE  Kept
<1>1. /\ main = "client" /\ main' = main /\ sent < Answer(c_hook)
      /\ sent' = sent + 1 /\ to_server' = to_server + 1
      /\ UNCHANGED <<vars, client_vars, to_client, mate, waiting, visits>>
  BY DEF client_callback, visitor_vars
<1>2. /\ ProgramTypes /\ Turns /\ ServerCalm(mate) /\ CP!ClientCalm /\ Accounted /\ EndsExist
      /\ ServerHolds \in Nat /\ ClientHolds \in Nat
  BY <1>1, PartsExist DEF ProgramInv, Running
<1>3. /\ CP!ClientCalm' /\ ClientHolds' = ClientHolds /\ (CP!InPass <=> CP!InPass')
      /\ UNCHANGED <<c_hook, c_connection>>
  BY <1>1, <1>2, ClientStays
<1>4. ServerCalm(mate)' /\ ServerHolds' = ServerHolds /\ (InPass <=> InPass') /\ hook' = hook
  BY <1>1, <1>2, ServerStays DEF vars, owner_vars
<1>5. sent \in {0, 1} /\ c_hook.name = "message"
  BY <1>1, <1>2 DEF Answer, ProgramTypes, MessageChunks
<1>6. Accounted'
  BY <1>1, <1>2, <1>3, <1>4, <1>5 DEF Accounted, ProgramTypes, Early, MessageChunks
<1>7. Turns'
  BY <1>1, <1>2, <1>3, <1>4, <1>5 DEF Turns, Early
<1>8. ProgramTypes'
  BY <1>1, <1>2, <1>5 DEF ProgramTypes, MessageChunks
<1> QED BY <1>1, <1>2, <1>3, <1>4, <1>6, <1>7, <1>8 DEF Kept, Running, EndsExist, Turns, Early

\* A hook of the client returns; after the timeout hook it is the server's turn.
LEMMA ClientHookReturnsKeeps ==
    ASSUME ProgramInv, client_hook_returns
    PROVE  Kept
<1>1. /\ main = "client" /\ sent = Answer(c_hook) /\ CP!hook_returns /\ sent' = 0
      /\ main' = IF c_hook.name = "poll_timeout" THEN "server" ELSE "client"
      /\ UNCHANGED <<vars, to_server, to_client, mate, waiting, visits>>
  BY SameHookReturns DEF client_hook_returns, AfterHook, NextLoop, network_vars, visitor_vars
<1>2. /\ ProgramTypes /\ Turns /\ ServerCalm(mate) /\ CP!ClientCalm /\ Accounted /\ EndsExist
      /\ CP!EndpointInv /\ c_connection \in Conns \cup {NULL}
      /\ ServerHolds \in Nat /\ ClientHolds \in Nat
  BY <1>1, PartsExist DEF ProgramInv, Running
<1>3. ServerCalm(mate)' /\ ServerHolds' = ServerHolds /\ (InPass <=> InPass') /\ hook' = hook
  BY <1>1, <1>2, ServerStays DEF vars, owner_vars
<1>4. c_connection' = c_connection
  BY <1>1 DEF CP!hook_returns, CP!owner_vars
<1>5. /\ CP!Calm(c_socket', c_connection', CP!Service!Watched', c_todo', c_reading', c_hook', c_connection)
      /\ CP!Chunks(c_socket', c_reading', c_hook', c_connection)
            = ClientHolds - (IF c_hook.name = "message" THEN 2 ELSE 0)
      /\ UNCHANGED <<c_todo, c_reading>> /\ c_hook' = CP!NoHook /\ c_reading = CP!Idling
  BY <1>1, <1>2, ClientAssumptions, CP!CalmHookReturns DEF CP!ClientCalm, ClientHolds
<1>6. CP!ClientCalm' /\ ClientHolds' = ClientHolds - sent
  BY <1>1, <1>4, <1>5 DEF CP!ClientCalm, ClientHolds, Answer, MessageChunks
<1>7. main' = "server" => ~ CP!InPass'
  BY <1>1, <1>2, <1>5 DEF CP!ClientCalm, CP!Calm, CP!PassCalm, CP!InPass
<1>8. sent \in {0, 2}
  BY <1>1 DEF Answer, MessageChunks
<1>9. Accounted'
  BY <1>1, <1>2, <1>3, <1>6, <1>8 DEF Accounted, ProgramTypes, Early, MessageChunks
<1>10. Turns'
  BY <1>1, <1>2, <1>3, <1>4, <1>7 DEF Turns, Early
<1>11. ProgramTypes'
  BY <1>1, <1>2 DEF ProgramTypes, Places, Early, MessageChunks
<1> QED BY <1>1, <1>2, <1>3, <1>4, <1>6, <1>9, <1>10, <1>11 DEF Kept, Running, EndsExist, Turns, Early

\* poll() of the client throws.
LEMMA ClientThrowsKeeps ==
    ASSUME ProgramInv, client_poll_throws
    PROVE  Kept
<1>1. /\ main' = "terminated" /\ UNCHANGED <<vars, sent, network_vars, visitor_vars>>
      /\ CP!poll_throws
  BY SamePollThrows DEF client_poll_throws, Goto
<1>2. c_connection' = c_connection
  BY <1>1 DEF CP!poll_throws, CP!poll_service_throws, CP!owner_vars
<1> QED BY <1>1, <1>2, Ends

-----------------------------------------------------------------------------
(* The network and the visitors.                                            *)

\* A chunk reaches the server.
LEMMA DeliverToServerKeeps ==
    ASSUME ProgramInv, deliver_to_server
    PROVE  Kept
<1>1. /\ to_server > 0 /\ to_server' = to_server - 1 /\ mate # NULL /\ peer_sends(mate)
      /\ UNCHANGED <<client_vars, main, sent, to_client, mate, waiting, visits>>
  BY DEF deliver_to_server, visitor_vars
<1>2. /\ ProgramTypes /\ EndpointInv /\ mate \in Conns /\ EndsExist
      /\ ServerHolds \in Nat /\ ClientHolds \in Nat
  BY <1>1, PartsExist DEF ProgramInv
<1>3. ProgramTypes' /\ to_server' \in Nat
  BY <1>1, <1>2, RunningTypes DEF ProgramTypes, MessageChunks
<1>4. c_connection' = c_connection /\ EndsExist'
  BY <1>1, <1>2 DEF EndsExist, client_vars
<1>5. ASSUME main # "terminated"
      PROVE  Running'
  <2>1. Turns /\ ServerCalm(mate) /\ CP!ClientCalm /\ Accounted
    BY <1>5 DEF ProgramInv, Running
  <2>2. /\ CP!ClientCalm' /\ ClientHolds' = ClientHolds /\ (CP!InPass <=> CP!InPass')
        /\ UNCHANGED <<c_hook, c_connection>>
    BY <1>1, <2>1, ClientStays
  <2>3. /\ Calm(socket', connection', Service!Watched', todo', reading', hook', mate)
        /\ Chunks(socket', reading', hook', mate) = ServerHolds + 1
        /\ UNCHANGED <<todo, reading, hook, connection, faults>>
    BY <1>1, <1>2, <2>1, CalmPeerSends DEF ServerCalm, ServerHolds
  <2>4. ServerCalm(mate)' /\ ServerHolds' = ServerHolds + 1 /\ (InPass <=> InPass')
    BY <1>1, <2>3 DEF ServerCalm, ServerHolds, InPass
  <2>5. Accounted'
    BY <1>1, <1>2, <2>1, <2>2, <2>4 DEF Accounted, ProgramTypes
  <2>6. Turns'
    BY <1>1, <2>1, <2>2, <2>3, <2>4 DEF Turns
  <2> QED BY <2>2, <2>4, <2>5, <2>6 DEF Running
<1> QED BY <1>1, <1>3, <1>4, <1>5 DEF Kept

\* A chunk reaches the client.
LEMMA DeliverToClientKeeps ==
    ASSUME ProgramInv, deliver_to_client
    PROVE  Kept
<1>1. /\ to_client > 0 /\ to_client' = to_client - 1 /\ CP!peer_sends(c_connection)
      /\ UNCHANGED <<vars, main, sent, to_server, mate, waiting, visits>>
  BY SamePeerSends DEF deliver_to_client, visitor_vars
<1>2. /\ ProgramTypes /\ CP!EndpointInv /\ c_connection \in Conns /\ EndsExist
      /\ ServerHolds \in Nat /\ ClientHolds \in Nat
  BY <1>1, PartsExist DEF ProgramInv, EndsExist
<1>3. ProgramTypes' /\ to_client' \in Nat
  BY <1>1, <1>2, RunningTypes DEF ProgramTypes, MessageChunks
<1>4. c_connection' = c_connection /\ EndsExist'
  BY <1>1, <1>2 DEF EndsExist, CP!peer_sends, CP!Changes, CP!owner_vars
<1>5. ASSUME main # "terminated"
      PROVE  Running'
  <2>1. Turns /\ ServerCalm(mate) /\ CP!ClientCalm /\ Accounted
    BY <1>5 DEF ProgramInv, Running
  <2>2. ServerCalm(mate)' /\ ServerHolds' = ServerHolds /\ (InPass <=> InPass') /\ hook' = hook
    BY <1>1, <2>1, ServerStays DEF vars, owner_vars
  <2>3. /\ CP!Calm(c_socket', c_connection', CP!Service!Watched', c_todo', c_reading', c_hook', c_connection)
        /\ CP!Chunks(c_socket', c_reading', c_hook', c_connection) = ClientHolds + 1
        /\ UNCHANGED <<c_todo, c_reading, c_hook>>
    BY <1>1, <1>2, <2>1, ClientAssumptions, CP!CalmPeerSends DEF CP!ClientCalm, ClientHolds
  <2>4. CP!ClientCalm' /\ ClientHolds' = ClientHolds + 1 /\ (CP!InPass <=> CP!InPass')
    BY <1>4, <2>3 DEF CP!ClientCalm, ClientHolds, CP!InPass
  <2>5. Accounted'
    BY <1>1, <1>2, <2>1, <2>2, <2>4 DEF Accounted, ProgramTypes
  <2>6. Turns'
    BY <1>1, <1>4, <2>1, <2>2, <2>3, <2>4 DEF Turns
  <2> QED BY <2>2, <2>4, <2>5, <2>6 DEF Running
<1> QED BY <1>1, <1>3, <1>4, <1>5 DEF Kept

\* A visitor comes, or goes again.
LEMMA VisitorsKeep ==
    ASSUME ProgramInv, visitor_connects \/ visitor_closes
    PROVE  Kept
<1>1. /\ \/ \E l \in Conns : peer_connects(l)
         \/ \E c \in Conns \ {mate} : peer_closes(c)
      /\ UNCHANGED <<client_vars, main, sent, to_server, to_client, mate>>
  BY DEF visitor_connects, visitor_closes, Listening, network_vars, visitor_vars
<1>2. ProgramTypes'
  <2>1. /\ visits \in 0 .. MaxVisits /\ waiting \in 0 .. visits
        /\ \/ visits < MaxVisits /\ visits' = visits + 1 /\ waiting' = waiting + 1
           \/ UNCHANGED <<visits, waiting>>
    BY DEF ProgramInv, ProgramTypes, visitor_connects, visitor_closes, visitor_vars
  <2>2. visits' \in 0 .. MaxVisits /\ waiting' \in 0 .. visits'
    BY <2>1, DescriptorsLast
  <2> QED BY <1>1, <2>2 DEF ProgramInv, ProgramTypes
<1>3. c_connection' = c_connection /\ EndsExist'
  BY <1>1 DEF ProgramInv, EndsExist, client_vars
<1>4. ASSUME main # "terminated"
      PROVE  Running'
  <2>1. /\ Turns /\ ServerCalm(mate) /\ CP!ClientCalm /\ Accounted /\ IInv /\ mate \in Conns \cup {NULL}
    BY <1>4, PartsExist DEF ProgramInv, Running
  <2>2. /\ CP!ClientCalm' /\ ClientHolds' = ClientHolds /\ (CP!InPass <=> CP!InPass')
        /\ UNCHANGED <<c_hook, c_connection>>
    BY <1>1, <2>1, ClientStays
  <2>3. /\ Calm(socket', connection', Service!Watched', todo', reading', hook', mate)
        /\ Chunks(socket', reading', hook', mate) = ServerChunks(mate)
        /\ UNCHANGED <<todo, reading, hook>>
    BY <1>1, <2>1, CalmPeerConnects, CalmPeerCloses
  <2>4. ServerCalm(mate)' /\ ServerHolds' = ServerHolds /\ (InPass <=> InPass')
    BY <1>1, <2>3 DEF ServerCalm, ServerHolds, ServerChunks, InPass
  <2>5. Accounted' /\ Turns'
    BY <1>1, <2>1, <2>2, <2>3, <2>4 DEF Accounted, Turns
  <2> QED BY <2>2, <2>4, <2>5 DEF Running
<1> QED BY <1>1, <1>2, <1>3, <1>4 DEF Kept

-----------------------------------------------------------------------------
(* The theorems.                                                            *)

\* Before main() begins there is no message.
LEMMA ProgramBegins == ProgramInit => ProgramInv /\ Init /\ client!Init
<1> SUFFICES ASSUME ProgramInit PROVE ProgramInv /\ Init /\ client!Init
  OBVIOUS
<1>1. /\ Init /\ client!Init /\ CP!Init /\ IInv /\ CP!IInv
  BY ClientAssumptions, SameInit, InitInvariant, CP!InitInvariant DEF ProgramInit
<1>2. /\ mate = NULL /\ waiting = 0 /\ visits = 0
      /\ main = "open" /\ sent = 0 /\ to_server = 0 /\ to_client = 0
  BY DEF ProgramInit
<1>3. /\ todo = {} /\ reading = Idling /\ hook = NoHook
      /\ socket = [c \in Conns |-> NoSocket]
  BY <1>1 DEF Init, EndpointInit
<1>4. /\ c_connection = NULL /\ c_todo = {} /\ c_reading = CP!Idling /\ c_hook = CP!NoHook
      /\ c_socket = [c \in Conns |-> CP!NoSocket]
  BY <1>1 DEF CP!Init, CP!EndpointInit
<1>5. ServerCalm(mate) /\ ServerHolds = 0 /\ ~ InPass
  BY <1>2, <1>3 DEF ServerCalm, Calm, SocketsCalm, PassCalm, ServerHolds, Chunks, InPass,
        NoSocket, Idling, NoHook
<1>6. CP!ClientCalm /\ ClientHolds = 0 /\ ~ CP!InPass
  BY <1>4 DEF CP!ClientCalm, CP!Calm, CP!SocketsCalm, CP!PassCalm, ClientHolds, CP!Chunks,
        CP!InPass, CP!NoSocket, CP!Idling, CP!NoHook
<1>7. Turns /\ Accounted
  BY <1>2, <1>4, <1>5, <1>6 DEF Turns, Accounted, Early
<1>8. ProgramTypes /\ EndsExist
  BY <1>2, DescriptorsLast DEF ProgramTypes, EndsExist, Places, Early, MessageChunks
<1> QED BY <1>1, <1>5, <1>6, <1>7, <1>8 DEF ProgramInv, Running

\* The program keeps its invariant, and both parts do what they may.
LEMMA ProgramGoesOn ==
    ProgramInv /\ [ProgramNext]_all_vars => ProgramInv' /\ [Next]_vars /\ [client!Next]_(client!vars)
<1> SUFFICES ASSUME ProgramInv, [ProgramNext]_all_vars
             PROVE  ProgramInv' /\ [Next]_vars /\ [client!Next]_(client!vars)
  OBVIOUS
<1>1. [Next]_vars /\ [client!Next]_(client!vars) /\ [CP!Next]_(CP!vars)
  BY StepsOfTheParts DEF ProgramInv
<1>2. IInv'
  BY <1>1, NextStep DEF ProgramInv, Good
<1>3. CP!IInv'
  BY <1>1, ClientAssumptions, CP!NextStep DEF ProgramInv, CP!Good
<1>4. Kept
  <2>1. CASE server_open \/ server_serve \/ client_connect \/ client_send
    BY <2>1, ServerOpenKeeps, ServerServeKeeps, ClientConnectKeeps, ClientSendKeeps
  <2>2. CASE server_runs \/ server_callback \/ server_hook_returns \/ server_poll_throws
    BY <2>2, ServerRunsKeeps, ServerCallbackKeeps, ServerHookReturnsKeeps, ServerThrowsKeeps
  <2>3. CASE client_runs \/ client_callback \/ client_hook_returns \/ client_poll_throws
    BY <2>3, ClientRunsKeeps, ClientCallbackKeeps, ClientHookReturnsKeeps, ClientThrowsKeeps
  <2>4. CASE deliver_to_server \/ deliver_to_client \/ visitor_connects \/ visitor_closes
    BY <2>4, DeliverToServerKeeps, DeliverToClientKeeps, VisitorsKeep
  <2>5. CASE UNCHANGED all_vars
    <3>1. /\ UNCHANGED <<vars, client_vars, main, sent, to_server, to_client, mate, waiting, visits>>
      BY <2>5 DEF all_vars, network_vars, visitor_vars
    <3>2. EndsExist' /\ ProgramTypes'
      BY <3>1 DEF ProgramInv, EndsExist, ProgramTypes, client_vars
    <3>3. ASSUME main # "terminated"
          PROVE  Running'
      <4>1. Turns /\ ServerCalm(mate) /\ CP!ClientCalm /\ Accounted
        BY <3>3 DEF ProgramInv, Running
      <4>2. /\ CP!ClientCalm' /\ ClientHolds' = ClientHolds /\ (CP!InPass <=> CP!InPass')
            /\ UNCHANGED <<c_hook, c_connection>>
        BY <3>1, <4>1, ClientStays
      <4>3. ServerCalm(mate)' /\ ServerHolds' = ServerHolds /\ (InPass <=> InPass') /\ hook' = hook
        BY <3>1, <4>1, ServerStays DEF vars, owner_vars
      <4>4. Turns' /\ Accounted'
        BY <3>1, <4>1, <4>2, <4>3 DEF Turns, Accounted
      <4> QED BY <4>2, <4>3, <4>4 DEF Running
    <3> QED BY <3>1, <3>2, <3>3 DEF Kept
  <2> QED BY <2>1, <2>2, <2>3, <2>4, <2>5 DEF ProgramNext, MainStep, Terminated
<1> QED BY <1>1, <1>2, <1>3, <1>4 DEF Kept, ProgramInv

\* The invariant in the words of InfiniteComms.
LEMMA ProgramSays ==
    ASSUME ProgramInv
    PROVE  ProgramTypeOK /\ OneMessage
<1>1. /\ EndpointInv /\ CP!EndpointInv /\ mate \in Conns \cup {NULL}
      /\ c_connection \in Conns \cup {NULL}
      /\ ServerHolds \in Nat /\ ClientHolds \in Nat
      /\ to_server \in 0 .. MessageChunks /\ to_client \in 0 .. MessageChunks
  BY PartsExist, RunningTypes
<1>2. ProgramTypeOK
  <2>1. TypeOK
    BY Consequences DEF ProgramInv
  <2>2. client!TypeOK
    BY ClientAssumptions, CP!EndpointTypes, SameTypeOK DEF ProgramInv, CP!IInv, CP!TypeOK, CP!States
  <2> QED BY <1>1, <2>1, <2>2 DEF ProgramTypeOK, ProgramInv, ProgramTypes, Places, Early
<1>3. ASSUME main \in {"send", "server", "client"}
      PROVE  to_server + to_client + Held(mate, socket, reading, hook)
                + Held(c_connection, c_socket, c_reading, c_hook)
                + (IF main = "send" THEN MessageChunks - sent ELSE 0) = MessageChunks
  <2>1. Turns /\ Accounted /\ sent \in 0 .. MessageChunks
    BY <1>3 DEF ProgramInv, Running, ProgramTypes
  <2>2. Held(mate, socket, reading, hook)
           = ServerHolds - (IF hook.name = "message" THEN sent ELSE 0)
    BY <1>1, <2>1, ChunksType DEF Held, ServerHolds, Chunks, MessageChunks
  <2>3. Held(c_connection, c_socket, c_reading, c_hook)
           = ClientHolds - (IF c_hook.name = "message" THEN sent ELSE 0)
    BY <1>1, <2>1, ClientAssumptions, CP!ChunksType DEF Held, ClientHolds, CP!Chunks, MessageChunks
  <2>4. /\ main # "server" => hook.name # "message"
        /\ main # "client" => c_hook.name # "message"
    BY <2>1 DEF Turns, InPass, NoHook, CP!InPass, CP!NoHook
  <2>5. to_server + to_client + ServerHolds + ClientHolds
           = IF main = "send" THEN sent ELSE MessageChunks + sent
    BY <1>3, <2>1 DEF Accounted, Early
  <2>6. \/ sent = 0
        \/ main = "send"
        \/ main = "server" /\ hook.name = "message"
        \/ main = "client" /\ c_hook.name = "message"
    BY <2>1 DEF Turns
  <2> DEFINE hs == Held(mate, socket, reading, hook)
             hc == Held(c_connection, c_socket, c_reading, c_hook)
  <2>7. to_server \in Nat /\ to_client \in Nat /\ sent \in Nat /\ MessageChunks = 2
    BY <1>1, <2>1 DEF MessageChunks
  <2> HIDE DEF hs, hc
  <2>8. CASE main = "send"
    BY <1>1, <2>2, <2>3, <2>4, <2>5, <2>7, <2>8 DEF hs, hc
  <2>9. CASE main = "server"
    BY <1>1, <2>2, <2>3, <2>4, <2>5, <2>6, <2>7, <2>9 DEF hs, hc
  <2>10. CASE main = "client"
    BY <1>1, <2>2, <2>3, <2>4, <2>5, <2>6, <2>7, <2>10 DEF hs, hc
  <2> QED BY <1>3, <2>8, <2>9, <2>10
<1>4. ASSUME main \in {"send", "server", "client"}
      PROVE  NoneBeside(mate, socket) /\ NoneBeside(c_connection, c_socket)
  <2>1. ServerCalm(mate) /\ CP!ClientCalm
    BY <1>4 DEF ProgramInv, Running
  <2> QED BY <2>1 DEF NoneBeside, ServerCalm, Calm, SocketsCalm, CP!ClientCalm, CP!Calm, CP!SocketsCalm
<1> QED BY <1>2, <1>3, <1>4 DEF OneMessage

\* The server of the program is a Server, so that each theorem of ServerProofs
\* holds in it: main(), the callbacks, the network and the visitors do to it only
\* what a user and peers may.
THEOREM ServerOfTheProgram == ProgramSpec => Spec
<1> QED BY ProgramBegins, ProgramGoesOn, PTL DEF ProgramSpec, Spec

\* The client of the program is a Client, so that each theorem of ClientProofs
\* holds in it.
THEOREM ClientOfTheProgram == ProgramSpec => client!Spec
<1> QED BY ProgramBegins, ProgramGoesOn, PTL DEF ProgramSpec, client!Spec

\* Both parts, main() and the network are always of their types: the network
\* never carries more than one message, however the thread and it interleave.
THEOREM ProgramTypeCorrect == ProgramSpec => []ProgramTypeOK
<1> QED BY ProgramBegins, ProgramGoesOn, ProgramSays, PTL DEF ProgramSpec

\* From the first send on there is exactly one message, whoever has it, for any
\* number of descriptors, connections and visitors: no poll, no partial delivery
\* and no change of turns loses or doubles it.
THEOREM ExactlyOneMessage == ProgramSpec => []OneMessage
<1> QED BY ProgramBegins, ProgramGoesOn, ProgramSays, PTL DEF ProgramSpec
=============================================================================
