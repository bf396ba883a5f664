--------------------------- MODULE InfiniteComms ---------------------------
(***************************************************************************)
(* The program of src/examples/infinite_comms.cpp: a TestServer and a      *)
(* TestClient in one thread, whose callbacks answer every message with     *)
(* another one.  The Server of this module is that of Server.tla, the      *)
(* client is an instance of Client.tla, and what was left open in them is  *)
(* closed here: each is the peer of the other, over a network that         *)
(* delivers chunks when it likes, and the user is main().  The server is   *)
(* bound to 0.0.0.0: visitors may connect to it and close again.           *)
(*                                                                         *)
(* Both live in one process; as the client never gives its descriptor      *)
(* back, it has numbers of its own here.                                   *)
(***************************************************************************)
EXTENDS Server

CONSTANTS ClientFds,    \* descriptor numbers of the client
          MaxVisits     \* bound: connections of visitors

\* A listener, the client and every visitor find a descriptor: accept() does
\* not throw.
ASSUME DescriptorsLast == MaxVisits \in Nat /\ Cardinality(Fds) >= MaxVisits + 2

\* What Client assumes of its descriptors and hooks: those of this program only
\* print or send.
ASSUME ClientFdsAssumption == 
    /\ IsFiniteSet(ClientFds) /\ Cardinality(ClientFds) <= Cardinality(Conns)
    /\ ClientFds \subseteq Nat /\ NoFd \notin ClientFds
ASSUME HooksOnlyPrint == HookCalls = {}

VARIABLES c_descriptors, c_map, c_results, c_socket_descriptor,
          c_state, c_connection, c_todo, c_reading, c_hook, c_phase,
          c_socket, c_leaked, c_faults,
          main,                 \* where main() is
          sent,                 \* chunks sent by the channeled_send() under way
          to_server, to_client, \* chunks the network has not delivered
          mate,                 \* the client's connection as the server has it
          waiting, visits       \* visitors in the backlog, and so far

client_vars == <<c_descriptors, c_map, c_results, c_socket_descriptor,
                 c_state, c_connection, c_todo, c_reading, c_hook, c_phase,
                 c_socket, c_leaked, c_faults>>
network_vars == <<to_server, to_client>>
visitor_vars == <<mate, waiting, visits>>
all_vars == <<vars, client_vars, main, sent, network_vars, visitor_vars>>

client == INSTANCE Client WITH 
    Fds <- ClientFds,
    descriptors <- c_descriptors, poll_descriptor_map <- c_map, results <- c_results,
    socket_descriptor <- c_socket_descriptor, state <- c_state, 
    connection <- c_connection, todo <- c_todo, reading <- c_reading, hook <- c_hook,
    phase <- c_phase, socket <- c_socket, leaked <- c_leaked, faults <- c_faults

\* main() goes on, or an exception that nobody catches ends it.
Goto(from, to, failures) == 
    /\ main = from 
    /\ main' = IF failures THEN "terminated" ELSE to

\* The id and the body of a GeneralMessage, which the buffers always hold.
MessageChunks == 2

-----------------------------------------------------------------------------
(* main(), up to the loop.                                                  *)

server_open == 
    /\ open /\ Goto("open", "serve", faults' # faults)
    /\ UNCHANGED <<client_vars, sent, network_vars, visitor_vars>>

server_serve == 
    /\ serve /\ Goto("serve", "connect", FALSE)
    /\ UNCHANGED <<client_vars, sent, network_vars, visitor_vars>>

\* connect() returns when the kernel has put the connection into the backlog
\* of the listener; the server has not accepted it yet.
client_connect == 
    /\ client!connect 
    /\ Goto("connect", "send", c_faults' # c_faults) 
    /\ IF c_faults' = c_faults THEN \E l \in Listening : peer_connects(l) ELSE UNCHANGED vars
    /\ UNCHANGED <<sent, network_vars, visitor_vars>>

\* The first message, the id and then the body.
client_send == 
    /\ main = "send" /\ main' = IF sent + 1 = MessageChunks THEN "server" ELSE main
    /\ sent' = (sent + 1) % MessageChunks
    /\ to_server' = to_server + 1
    /\ UNCHANGED <<vars, client_vars, to_client, visitor_vars>>

-----------------------------------------------------------------------------
(* The loop: server.poll() until it returns false, then client.poll().      *)

\* Variants: one of the two inner loops is never left.
stays_with_server(m) == "server"
stays_with_client(m) == "client"
NextLoop(m) == IF m = "server" THEN "client" ELSE "server"

\* poll() returns false after the timeout hook, and true at the end of a pass,
\* when the loop polls once more.
AfterHook(h) == main' = IF h.name = "poll_timeout" THEN NextLoop(main) ELSE main

\* Variants: the callback does not answer, or it answers twice.
answers_nothing(h) == 0
answers_twice(h) == IF h.name = "message" THEN 2 * MessageChunks ELSE 0

\* server_callback and client_callback send a message, the hooks of the two
\* classes only print.
Answer(h) == IF h.name = "message" THEN MessageChunks ELSE 0

\* Both programs have subscribed: a message reaches its callback.  Their ids
\* come from one Channels, so none is unknown.
Subscribed(read, h, failures) == (read.part = "body" => h.name = "message") /\ ~ failures

\* accept() takes the client or a visitor out of the backlog.
Accepts(h) == 
    IF h.name # "connect" THEN UNCHANGED visitor_vars
    ELSE \/ mate = NULL /\ mate' = h.client /\ UNCHANGED <<waiting, visits>>
         \/ waiting > 0 /\ waiting' = waiting - 1 /\ UNCHANGED <<mate, visits>>

server_runs == 
    /\ main = "server"
    /\ poll \/ Dispatch \/ (Receive /\ Subscribed(reading, hook', faults' # faults))
    /\ Accepts(hook')
    /\ UNCHANGED <<client_vars, main, sent, network_vars>>

server_callback == 
    /\ main = "server" /\ sent < Answer(hook)
    /\ sent' = sent + 1 /\ to_client' = to_client + 1
    /\ UNCHANGED <<vars, client_vars, main, to_server, visitor_vars>>

server_hook_returns == 
    /\ main = "server" /\ sent = Answer(hook)
    /\ hook_returns /\ AfterHook(hook) /\ sent' = 0
    /\ UNCHANGED <<client_vars, network_vars, visitor_vars>>

server_poll_throws == 
    /\ poll_throws /\ Goto("server", "server", TRUE)
    /\ UNCHANGED <<client_vars, sent, network_vars, visitor_vars>>

client_runs == 
    /\ main = "client"
    /\ \/ client!poll \/ client!Dispatch 
       \/ client!Receive /\ Subscribed(c_reading, c_hook', c_faults' # c_faults)
    /\ UNCHANGED <<vars, main, sent, network_vars, visitor_vars>>

client_callback == 
    /\ main = "client" /\ sent < Answer(c_hook)
    /\ sent' = sent + 1 /\ to_server' = to_server + 1
    /\ UNCHANGED <<vars, client_vars, main, to_client, visitor_vars>>

client_hook_returns == 
    /\ main = "client" /\ sent = Answer(c_hook)
    /\ client!hook_returns /\ AfterHook(c_hook) /\ sent' = 0
    /\ UNCHANGED <<vars, network_vars, visitor_vars>>

client_poll_throws == 
    /\ client!poll_throws /\ Goto("client", "client", TRUE)
    /\ UNCHANGED <<vars, sent, network_vars, visitor_vars>>

-----------------------------------------------------------------------------
(* The network (external): a chunk reaches the socket at the other end,     *)
(* once there is one.                                                       *)

deliver_to_server == 
    /\ to_server > 0 /\ to_server' = to_server - 1
    /\ mate # NULL /\ peer_sends(mate)
    /\ UNCHANGED <<client_vars, main, sent, to_client, visitor_vars>>

deliver_to_client == 
    /\ to_client > 0 /\ to_client' = to_client - 1
    /\ client!peer_sends(c_connection)
    /\ UNCHANGED <<vars, main, sent, to_server, visitor_vars>>

(* Visitors (external): programs that connect, send nothing, and close.     *)

visitor_connects == 
    /\ visits < MaxVisits /\ visits' = visits + 1 /\ waiting' = waiting + 1
    /\ \E l \in Listening : peer_connects(l)
    /\ UNCHANGED <<client_vars, main, sent, network_vars, mate>>

visitor_closes == 
    /\ \E c \in Conns \ {mate} : peer_closes(c)
    /\ UNCHANGED <<client_vars, main, sent, network_vars, visitor_vars>>

-----------------------------------------------------------------------------
ProgramInit == 
    /\ Init /\ client!Init
    /\ mate = NULL /\ waiting = 0 /\ visits = 0
    /\ main = "open" /\ sent = 0 /\ to_server = 0 /\ to_client = 0

MainStep == 
    \/ server_open \/ server_serve \/ client_connect \/ client_send
    \/ server_runs \/ server_callback \/ server_hook_returns \/ server_poll_throws
    \/ client_runs \/ client_callback \/ client_hook_returns \/ client_poll_throws

Terminated == main = "terminated" /\ UNCHANGED all_vars

ProgramNext == 
    \/ MainStep \/ deliver_to_server \/ deliver_to_client
    \/ visitor_connects \/ visitor_closes
    \/ Terminated

ProgramSpec == ProgramInit /\ [][ProgramNext]_all_vars

\* The thread runs unless it is blocked, and the network delivers.
Program == 
    /\ ProgramSpec
    /\ WF_all_vars(MainStep)
    /\ WF_all_vars(deliver_to_server) /\ WF_all_vars(deliver_to_client)

-----------------------------------------------------------------------------
ProgramTypeOK == 
    /\ TypeOK /\ client!TypeOK
    /\ main \in {"open", "serve", "connect", "send", "server", "client", "terminated"}
    /\ sent \in 0 .. MessageChunks
    /\ to_server \in 0 .. MessageChunks /\ to_client \in 0 .. MessageChunks
    /\ mate \in Conns \cup {NULL}
    /\ visits \in 0 .. MaxVisits /\ waiting \in 0 .. visits

\* The chunks of the message at one end: at the socket of its connection c, read
\* in part, or still to be sent by the callback.
Held(c, sockets, read, h) == 
    (IF c = NULL THEN 0 ELSE sockets[c].pending)
       + (IF read.part = "body" THEN 1 ELSE 0) 
       + (IF h.name = "message" THEN MessageChunks - sent ELSE 0)

\* No other connection of that end has any.
NoneBeside(c, sockets) == 
    \A d \in Conns \ {c} : sockets[d].st # "listening" => sockets[d].pending = 0

\* From the first send on there is exactly one message in the program, be it
\* on the network, at a socket, read in part or in a callback: no poll, no
\* partial delivery and no change of turns loses or doubles it.
OneMessage == 
    main \in {"send", "server", "client"} =>
       /\ NoneBeside(mate, socket) /\ NoneBeside(c_connection, c_socket)
       /\ to_server + to_client 
             + Held(mate, socket, reading, hook) 
             + Held(c_connection, c_socket, c_reading, c_hook)
             + (IF main = "send" THEN MessageChunks - sent ELSE 0) = MessageChunks

\* "[MAIN] About to print infinite messages": unless an exception ends main(),
\* both callbacks run for ever, although one thread serves both ends and
\* blocks in every receive().
MessagesForEver == 
    \/ <>(main = "terminated")
    \/ []<>(hook.name = "message") /\ []<>(c_hook.name = "message")

\* What Server assumes of its user and of its peers for its liveness is what
\* this program and this network do, unless main() ends.
ServerIsDrivenFairly == <>(main = "terminated") \/ Fairness
=============================================================================
