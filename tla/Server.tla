------------------------------- MODULE Server -------------------------------
(***************************************************************************)
(* Server and ChanneledServer (src/include/server.h, channeled_server.h):  *)
(* the states CLOSED, OPEN and SERVE, the handlers that a pass of poll()   *)
(* calls for the listening connection and for the clients, and what they   *)
(* do to the poll service.                                                 *)
(***************************************************************************)
EXTENDS Endpoint

CONSTANT MaxPeers       \* bound: connections of peers at a time

ASSUME HookCallsAssumption == HookCalls \subseteq {"open", "serve", "close", "remove"}
ASSUME MaxPeersAssumption == MaxPeers \in Nat

\* The member of the class is the listening connection.
server_connection == connection

Listening == {c \in Conns : socket[c].st = "listening"}

-----------------------------------------------------------------------------
(* The poll service as the handlers use it.                                 *)

\* Variant: the listener is added instead of the new client.
add_wrong_socket(c, f) == Service!add_socket(server_connection, socket_descriptor[server_connection])
addToPollService(c, f) == Service!add_socket(c, f)

\* Variant: a handler leaves the client in the service.
forget_to_remove(c) == UNCHANGED service_vars
removeFromPollService(c) == Service!remove_socket(c)

-----------------------------------------------------------------------------
(* The calls of the user: open(), serve(), close().                         *)

\* The state is OPEN from the first line on.  Making the socket throws when no
\* descriptor is free; binding throws when another socket, of this program or
\* another, has the port.
open == 
    /\ UserCalls("open")
    /\ state_transition({"CLOSED"}, "OPEN")
    /\ UNCHANGED pass_vars
    /\ IF FreeFds = {}
       THEN UNCHANGED <<service_vars, connection, kernel_vars, faults>>
       ELSE LET c == NewConn
                f == NextFd
            IN /\ connection' = c
               /\ Service!add_socket(c, f)
               /\ \E st \in {"listening", "fresh"} :
                     /\ IF st = "listening" THEN Listening = {} /\ NoFault ELSE Fault
                     /\ Settle(Service!Created(c, f),
                               [socket EXCEPT ![c] = [st |-> st, pending |-> 0]], phase)

serve == 
    /\ UserCalls("serve")
    /\ state_transition({"OPEN"}, "SERVE")
    /\ UNCHANGED <<service_vars, connection, pass_vars, kernel_vars, faults>>

close == 
    /\ UserCalls("close")
    /\ state_transition({"SERVE", "OPEN", "CLOSED"}, "CLOSED")
    /\ clear_service
    /\ reset_connection
    /\ UNCHANGED pass_vars /\ NoFault
    /\ SettleAsIs

\* removeFromPollService() is there for the hooks, too: the client that the hook
\* is about is turned away.
turn_away == 
    /\ hook.client # NULL /\ "remove" \in HookCalls
    /\ removeFromPollService(hook.client)
    /\ UNCHANGED <<owner_vars, pass_vars>> /\ NoFault
    /\ SettleAsIs

\* ~Server(), outside of a pass, and the members go.
destruct == 
    /\ ~ InPass /\ state # "DESTRUCTING"
    /\ state' = "DESTRUCTING" /\ reset_connection
    /\ destruct_service
    /\ UNCHANGED pass_vars /\ NoFault
    /\ SettleAsIs

\* The user makes another server.
construct == 
    /\ state = "DESTRUCTING" /\ state' = "CLOSED"
    /\ UNCHANGED <<service_vars, connection, pass_vars, kernel_vars, faults>>

-----------------------------------------------------------------------------
(* One pass of poll().                                                      *)

poll == state = "SERVE" /\ poll_service
poll_throws == state = "SERVE" /\ poll_service_throws

\* handle_server_connection_error and handle_server_disconnect.
server_trouble(e) == 
    /\ Takes(e) /\ e.connection = server_connection
    /\ e.status \in {"ERROR", "DISCONNECT"}
    /\ Call(IF e.status = "ERROR" THEN "server_error" ELSE "server_disconnect", NULL)
    /\ UNCHANGED <<service_vars, reading>> /\ NoFault
    /\ SettleAsIs

\* handle_connection_request: accept, watch, tell the user.
handle_connection_request(e) == 
    /\ Takes(e) /\ e.connection = server_connection /\ e.status = "NORMAL"
    /\ socket[server_connection].pending > 0
    /\ FreeFds # {}
    /\ UNCHANGED reading /\ NoFault
    /\ LET c == NewConn
           f == NextFd
       IN /\ addToPollService(c, f)
          /\ Call("connect", c)
          /\ Settle(Service!Created(c, f),
                    [socket EXCEPT ![c] = [st |-> "estab", pending |-> 0],
                                   ![server_connection].pending = @ - 1],
                    [phase EXCEPT ![c] = "served"])

\* accept() fails for want of a descriptor; the connection stays pending.
accept_throws(e) == 
    /\ e \in todo /\ hook = NoHook /\ reading = Idling
    /\ e.connection = server_connection /\ e.status = "NORMAL"
    /\ FreeFds = {}
    /\ Throw
    /\ UNCHANGED <<service_vars, owner_vars>> /\ NoFault
    /\ SettleAsIs

\* Variant: the user is not told.
drop_silently(c, name) == 
    /\ removeFromPollService(c)
    /\ UNCHANGED hook
    /\ Settle(socket_descriptor, socket, phase)

\* A client is taken out of the service and the user is told: what
\* handle_client_error, handle_client_disconnect, handleSocketDisconnect do.
drop_client(c, name) == 
    /\ removeFromPollService(c)
    /\ Call(name, c)
    /\ Settle(socket_descriptor, socket, [phase EXCEPT ![c] = "gone"])

client_trouble(e) == 
    /\ Takes(e) /\ e.connection # server_connection
    /\ e.status \in {"ERROR", "DISCONNECT"}
    /\ drop_client(e.connection, IF e.status = "ERROR" THEN "error" ELSE "disconnect")
    /\ UNCHANGED reading /\ NoFault

\* handle_ready_to_read: everything that is not the server's connection now
\* is read as a client.
handle_ready_to_read(e) == 
    /\ Takes(e) /\ e.connection # server_connection /\ e.status = "NORMAL"
    /\ StartReading(e.connection)

\* recv() returned 0: ConnectionClosedException, then handleSocketDisconnect.
receive_eof == 
    /\ EndOfStream
    /\ drop_client(reading.connection, "disconnect")

-----------------------------------------------------------------------------
(* Peers that connect; what connected peers do is part of Endpoint.         *)

Peers == Cardinality({c \in Conns : socket[c].st \in {"estab", "eof", "reset", "hup", "aborted"}})
            + MapThenSumSet(LAMBDA c : socket[c].pending, Listening)

peer_connects(c) == 
    /\ socket[c].st = "listening" /\ socket[c].pending < MaxPending /\ Peers < MaxPeers
    /\ Changes(c, [socket[c] EXCEPT !.pending = @ + 1]) /\ NoFault

-----------------------------------------------------------------------------
Init == state = "CLOSED" /\ EndpointInit

Dispatch == 
    \E e \in todo : 
       \/ server_trouble(e) \/ handle_connection_request(e) \/ accept_throws(e)
       \/ client_trouble(e) \/ handle_ready_to_read(e)

Receive == receive_id \/ receive_body \/ receive_eof \/ receive_throws

Peer(c) == peer_connects(c) \/ peer_sends(c) \/ peer_closes(c) \/ peer_resets(c)

Next == 
    \/ construct \/ open \/ serve \/ close \/ destruct
    \/ turn_away
    \/ poll \/ poll_throws
    \/ Dispatch \/ Receive \/ hook_returns \/ hook_throws
    \/ \E c \in Conns : Peer(c)

Spec == Init /\ [][Next]_vars

\* The user keeps calling poll(), hooks return, and peers complete messages.
Fairness == 
    /\ WF_vars(poll)
    /\ WF_vars(Dispatch)
    /\ WF_vars(Receive)
    /\ WF_vars(hook_returns)
    /\ WF_vars(PeerCompletes)

FairSpec == Spec /\ Fairness

-----------------------------------------------------------------------------
TypeOK == 
    /\ EndpointTypeOK
    /\ state \in {"CLOSED", "OPEN", "SERVE", "DESTRUCTING"}

\* However open(), close() and the handlers interleave with a pass, a closed
\* server watches nothing and has no connection of its own, and of one that is
\* destructed no connection is left at all.
ClosedHoldsNothing == 
    /\ state \in {"CLOSED", "DESTRUCTING"} => Service!Watched = {} /\ server_connection = NULL
    /\ state = "DESTRUCTING" => Service!Alive = {}

\* The server's own connection is always watched, and everything else that is
\* watched is a client whose connect hook ran and whose life has not ended:
\* no stale result takes the listener, or a client, of a later open() out.
WatchesListenerAndClients == 
    /\ server_connection # NULL => server_connection \in Service!Watched
    /\ \A c \in Service!Watched \ {server_connection} : phase[c] = "served"

\* A client leaves the service of a server that lives and is not closed only by
\* the step that runs its disconnect or error hook, or by a hook that turns it
\* away.
LeavesWithItsHook == 
    [][\A c \in Service!Watched : 
          c \notin Service!Watched' /\ state' \in {"OPEN", "SERVE"} => 
             \/ hook'.client = c /\ hook'.name \in {"disconnect", "error"}
             \/ hook'.client = c /\ hook' = hook]_vars

\* A pass that goes on after close() was called in a hook accepts nothing.
AcceptsOnlyWhileServing == 
    [][hook = NoHook /\ hook'.name = "connect" => state = "SERVE"]_vars

\* After close() nothing but the results of the last poll, which are shared and
\* live until the next one, keeps the listening socket and its port: once such
\* results are replaced the server can be opened again.
OnlyResultsKeepTheListener == 
    state = "CLOSED" /\ ~ InPass => Listening \subseteq {e.connection : e \in results}

\* A descriptor is lost only with a connection that was reset or an open() that
\* failed, one for each: peers that come and go in order cost nothing, in any
\* number, and wherever the last reference to their connection is dropped.
LeaksArePaidByFaults == Cardinality(leaked) <= faults

\* The server uses its poll service as PollService allows: it never adds a
\* connection that is watched, nor one that does not exist.
ServiceSpec == Service!Spec

\* The hooks a user sees are those of the abstract specification.
Hooks == INSTANCE ServerHooks

HooksSpec == Hooks!Spec

-----------------------------------------------------------------------------
(* Liveness, under FairSpec.                                                *)

\* A client that is gone is reported by one of its hooks, whatever the others
\* do, as long as the user serves and descriptors last (bounded faults).
GoneClientsAreReported == 
    \A c \in Conns :
       (state = "SERVE" /\ c \in Service!Watched /\ PeerGone(c))
          ~> (state # "SERVE" \/ phase[c] # "served")

\* A connection that waits at the listening socket is accepted.
PendingAreAccepted == 
    \A c \in Conns :
       (state = "SERVE" /\ c = server_connection /\ socket[c].pending > 0)
          ~> (state # "SERVE" \/ hook.name = "connect")

-----------------------------------------------------------------------------
(* What the repository says of the server and the code does not do.         *)

\* server.h: close() may be called from the polling thread, whose pass goes
\* on: what it still reads are clients.
OnlyClientsAreRead == 
    reading # Idling => socket[reading.connection].st # "listening"
=============================================================================
