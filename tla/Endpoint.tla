------------------------------ MODULE Endpoint ------------------------------
(***************************************************************************)
(* What Server and Client have in common: a state, a connection of their   *)
(* own, a PollService, the poll() pass over its results, reading a message *)
(* (ChannelSubscribable), the hooks and what a user may do inside one, the *)
(* sockets of the kernel below and the peers at the other end.             *)
(*                                                                         *)
(* The program is one thread: a call of the user or a hook runs to its end *)
(* before the next, but the peers move between any two steps of a pass.    *)
(* A receive() that finds too little blocks the pass where it is.          *)
(***************************************************************************)
EXTENDS Integers, Sequences, FiniteSetsExt

CONSTANTS Conns,        \* SocketConnection objects, at least as many as Fds
          Fds,          \* descriptor numbers
          NULL, NoFd,
          HookCalls,    \* what the user calls from inside a hook
          MaxPending,   \* bound: chunks or connections that wait at a socket
          MaxFaults     \* bound: resets, unknown ids, hooks that throw, failed calls of the OS

ASSUME NullAssumption == NULL \notin Conns
ASSUME NoFdAssumption == NoFd \notin Fds
ASSUME FdsAreNumbers == Fds \subseteq Nat
ASSUME ObjectsAssumption == 
    IsFiniteSet(Conns) /\ IsFiniteSet(Fds) /\ Cardinality(Fds) <= Cardinality(Conns)
ASSUME BoundsAssumption == {MaxPending, MaxFaults} \subseteq Nat

VARIABLES
    \* the PollService
    descriptors, poll_descriptor_map, results, socket_descriptor,
    \* the Server or the Client
    state, 
    connection,         \* its own connection, or NULL
    \* the pass of poll() that is running
    todo,               \* results the loop has not reached
    reading,            \* the receive() under way: connection and part
    hook,               \* the hook that is running, and whom it is about
    phase,              \* history: what the hooks told of each connection
    \* the kernel and the peers
    socket,             \* the TCP socket behind each object that exists
    leaked,             \* descriptors no object owns and nobody closed
    faults

service_vars == <<descriptors, poll_descriptor_map, results>>
owner_vars   == <<state, connection>>
pass_vars    == <<todo, reading, hook>>
kernel_vars  == <<socket_descriptor, phase, socket, leaked>>
vars == <<service_vars, owner_vars, pass_vars, kernel_vars, faults>>

HookNames == {"none", "poll_timeout", "connect", "message", "disconnect", "error",
              "server_error", "server_disconnect"}

NoHook == [name |-> "none", client |-> NULL]
Idling == [connection |-> NULL, part |-> "none"]

\* The references held outside the service: the member, and the argument of
\* the handler that is running.
owned == {connection, hook.client} \ {NULL}

\* What poll() may return for each state a TCP socket is in (Readiness).
Revents == {{}, {"POLLIN"}, {"POLLHUP"}, {"POLLIN", "POLLHUP"}, {"POLLIN", "POLLERR", "POLLHUP"}}

Service == INSTANCE PollService

-----------------------------------------------------------------------------
(* The sockets of the kernel (external: Linux TCP behind socketutil.cpp).   *)
(*   fresh      socket() succeeded, and bind(), listen() or connect() did   *)
(*              not                                                         *)
(*   listening  pending connections wait to be accepted                     *)
(*   estab      connected; pending chunks wait to be received               *)
(*   eof        the peer has closed after the pending chunks                *)
(*   reset      the peer has reset the connection, the error not read yet   *)
(*   hup        reset, and the error has been read                          *)
(*   aborted    closed by the peer and then reset: recv() returns the       *)
(*              pending chunks and then 0, the error is never read          *)

NoSocket == [st |-> "none", pending |-> 0]
SocketStates == {"none", "fresh", "listening", "estab", "eof", "reset", "hup", "aborted"}

\* Variant: the descriptor is shut down and never closed.
NeverClosed == SocketStates

\* shutdown() fails on a socket that is not connected and not listening, and
\* close_socket() closes a descriptor only if shutdown() succeeded.
ShutdownFails == {"fresh", "reset", "hup", "aborted"}

PeerGone(c) == socket[c].st \in {"eof", "reset", "hup", "aborted"}

FreeFds == (Fds \ Service!Open) \ leaked

\* The next descriptor is the lowest free one (POSIX).  Which object is made
\* for it does not matter.
NextFd == Min(FreeFds)
NewConn == CHOOSE c \in Conns : socket_descriptor[c] = NoFd

Readiness(s) == 
    CASE s.st = "fresh" -> {"POLLHUP"}
      [] s.st \in {"listening", "estab"} -> IF s.pending > 0 THEN {"POLLIN"} ELSE {}
      [] s.st = "eof"   -> {"POLLIN"}
      [] s.st \in {"reset", "aborted"} -> {"POLLIN", "POLLERR", "POLLHUP"}
      [] s.st = "hup"   -> {"POLLIN", "POLLHUP"}
      [] OTHER -> {"POLLNVAL"}

\* The flags poll() fills in: descriptors belong to the objects that exist.
kernel_poll == 
    [f \in {descriptors[i] : i \in DOMAIN descriptors} |->
        LET owner == {c \in Conns : socket_descriptor[c] = f}
        IN IF owner = {} THEN {"POLLNVAL"} ELSE Readiness(socket[CHOOSE c \in owner : TRUE])]

\* The end of every step: ~SocketConnection runs for the objects without a
\* reference.  sd and sk are the descriptors and sockets of the step, ph what
\* the user has been told by then.
Settle(sd, sk, ph) == 
    LET destructed == {c \in Conns : sd[c] # NoFd /\ socket_descriptor'[c] = NoFd}
        Kept(g, none) == [c \in Conns |-> IF socket_descriptor'[c] = NoFd THEN none ELSE g[c]]
    IN /\ Service!Settle(sd)
       /\ socket' = Kept(sk, NoSocket)
       /\ phase' = Kept(ph, "absent")
       /\ leaked' = leaked \cup {sd[c] : c \in {d \in destructed : sk[d].st \in ShutdownFails}}

SettleAsIs == Settle(socket_descriptor, socket, phase)

Fault == faults < MaxFaults /\ faults' = faults + 1
NoFault == UNCHANGED faults

-----------------------------------------------------------------------------
(* Calls of the user, and the pass of poll().  A definition whose comment   *)
(* begins with Variant is a plausible bug of its neighbour; no              *)
(* specification uses it, it shows that the properties can tell.            *)

InPass == todo # {} \/ reading # Idling \/ hook # NoHook

state_transition(valid_from_states, new_state) == 
    state \in valid_from_states /\ state' = new_state

\* A call made from outside poll(), or by a hook that makes such calls.
UserCalls(call) == ~ InPass \/ (hook # NoHook /\ call \in HookCalls)

\* Variant: close() or disconnect() leaves its connections in the service.
forget_to_clear == UNCHANGED service_vars
clear_service == Service!clear_sockets

\* Variant: the results of the last poll are forgotten.
destruct_map_only == Service!clear_sockets
destruct_service == Service!destruct

\* Variant: the connection is kept.
keep_connection == UNCHANGED connection
reset_connection == connection' = NULL

\* A hook begins to run, about a connection or none.
Call(name, c) == hook' = [name |-> name, client |-> c]

\* An exception leaves the loop: the rest of the results is skipped.
Throw == todo' = {} /\ reading' = Idling /\ hook' = NoHook

\* The service is polled; without results the timeout hook runs.
poll_service == 
    /\ ~ InPass
    /\ Service!poll(kernel_poll)
    /\ todo' = results' /\ UNCHANGED reading
    /\ hook' = IF results' = {} THEN [name |-> "poll_timeout", client |-> NULL] ELSE NoHook
    /\ UNCHANGED owner_vars /\ NoFault
    /\ SettleAsIs

poll_service_throws == 
    /\ ~ InPass
    /\ Service!poll_error /\ Fault
    /\ UNCHANGED <<owner_vars, pass_vars>>
    /\ SettleAsIs

\* Variant: an entry is visited again.
take_again(e) == 
    /\ hook = NoHook /\ reading = Idling
    /\ e \in todo
    /\ UNCHANGED <<owner_vars, todo>>

\* Variant: the loop is left after one entry.
take_and_leave(e) == 
    /\ hook = NoHook /\ reading = Idling
    /\ e \in todo /\ todo' = {}
    /\ UNCHANGED owner_vars

\* The loop takes any entry it has not reached (an unordered_set).
Takes(e) == 
    /\ hook = NoHook /\ reading = Idling
    /\ e \in todo /\ todo' = todo \ {e}
    /\ UNCHANGED owner_vars

\* The hook returns to the loop, and the handler's references go.
hook_returns == 
    /\ hook # NoHook /\ hook' = NoHook
    /\ UNCHANGED <<service_vars, owner_vars, todo, reading>> /\ NoFault
    /\ SettleAsIs

\* The hook, or a callback of a subscription, throws an exception of its own:
\* nothing between it and the user's call of poll() catches that.
hook_throws == 
    /\ hook # NoHook /\ Throw /\ Fault
    /\ UNCHANGED <<service_vars, owner_vars>>
    /\ SettleAsIs

-----------------------------------------------------------------------------
(* handleIncomingMessage: receive the id, then the body, then propagate.    *)
(* A chunk is what one receive() asks for.  An id that is not registered    *)
(* (a fault) throws BadChannelException.  The end of the stream is handled  *)
(* by handleSocketDisconnect of the Server or the Client.                   *)

\* The loop begins to read from the connection of an entry.
StartReading(c) == 
    /\ reading' = [connection |-> c, part |-> "id"]
    /\ UNCHANGED <<service_vars, hook, kernel_vars>> /\ NoFault

\* Variant: receive() takes more than was asked for.
overread(c) == [socket EXCEPT ![c].pending = @ - 2]
Consumed(c) == [socket EXCEPT ![c].pending = @ - 1]

receive_id == 
    /\ reading.part = "id" /\ socket[reading.connection].pending > 0
    /\ socket[reading.connection].st # "listening"
    /\ \/ reading' = [reading EXCEPT !.part = "body"] /\ UNCHANGED <<todo, hook>> /\ NoFault
       \/ Throw /\ Fault
    /\ UNCHANGED <<service_vars, owner_vars>>
    /\ Settle(socket_descriptor, Consumed(reading.connection), phase)

\* The callbacks of a subscription run, or nobody is subscribed.
receive_body == 
    /\ reading.part = "body" /\ socket[reading.connection].pending > 0
    /\ reading' = Idling
    /\ Call("message", reading.connection) \/ UNCHANGED hook
    /\ UNCHANGED <<service_vars, owner_vars, todo>> /\ NoFault
    /\ Settle(socket_descriptor, Consumed(reading.connection), phase)

\* recv() returned 0: ConnectionClosedException ends the reading.
EndOfStream == 
    /\ reading # Idling /\ socket[reading.connection].pending = 0
    /\ socket[reading.connection].st \in {"eof", "hup", "aborted"}
    /\ reading' = Idling
    /\ UNCHANGED <<owner_vars, todo>> /\ NoFault

\* recv() failed: ReceiveException leaves poll().  The error of a reset is
\* read by that; a listening socket cannot be read at all.
receive_throws == 
    /\ reading # Idling 
    /\ \/ socket[reading.connection].st = "reset" /\ socket[reading.connection].pending = 0
       \/ socket[reading.connection].st = "listening"
    /\ Throw
    /\ UNCHANGED <<service_vars, owner_vars>> /\ NoFault
    /\ Settle(socket_descriptor,
              [socket EXCEPT ![reading.connection].st = IF @ = "reset" THEN "hup" ELSE @], phase)

-----------------------------------------------------------------------------
(* The peers.                                                               *)

Changes(c, s) == 
    /\ socket' = [socket EXCEPT ![c] = s]
    /\ UNCHANGED <<service_vars, owner_vars, pass_vars, socket_descriptor, phase, leaked>>

peer_sends(c) == 
    /\ socket[c].st = "estab" /\ socket[c].pending < MaxPending
    /\ Changes(c, [socket[c] EXCEPT !.pending = @ + 1]) /\ NoFault

peer_closes(c) == 
    /\ socket[c].st = "estab"
    /\ Changes(c, [socket[c] EXCEPT !.st = "eof"]) /\ NoFault

peer_resets(c) == 
    /\ socket[c].st \in {"estab", "eof"}
    /\ Changes(c, [socket[c] EXCEPT !.st = IF @ = "estab" THEN "reset" ELSE "aborted"]) /\ Fault

\* A peer whose message has been read in part sends the rest or goes.
PeerCompletes == 
    \E c \in Conns : /\ reading = [connection |-> c, part |-> "body"]
                     /\ peer_sends(c) \/ peer_closes(c)

-----------------------------------------------------------------------------
EndpointInit == 
    /\ connection = NULL
    /\ todo = {} /\ reading = Idling /\ hook = NoHook
    /\ phase = [c \in Conns |-> "absent"]
    /\ socket = [c \in Conns |-> NoSocket]
    /\ leaked = {} /\ faults = 0
    /\ Service!Init

EndpointTypeOK == 
    /\ Service!TypeOK
    /\ connection \in Conns \cup {NULL}
    /\ todo \subseteq results
    /\ reading \in [connection : Conns, part : {"id", "body"}] \cup {Idling}
    /\ hook \in [name : HookNames, client : Conns \cup {NULL}]
    /\ phase \in [Conns -> {"absent", "served", "gone"}]
    /\ socket \in [Conns -> [st : SocketStates, pending : 0 .. MaxPending]]
    /\ leaked \subseteq Fds
    /\ faults \in 0 .. MaxFaults
=============================================================================
