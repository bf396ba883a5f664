------------------------------- MODULE Client -------------------------------
(***************************************************************************)
(* Client and ChanneledClient (src/include/client.h, channeled_client.h):  *)
(* connect(), disconnect() and the hooks a pass of poll() calls for the    *)
(* one connection, which is never taken out of the service by a handler.   *)
(***************************************************************************)
EXTENDS Endpoint

ASSUME HookCallsAssumption == HookCalls \subseteq {"connect", "disconnect"}

-----------------------------------------------------------------------------
(* The calls of the user.                                                   *)

\* Variant: the connection is watched before it is connected.
connect_watched(c, f, st) == 
    /\ Service!add_socket(c, f)
    /\ state' = IF st = "estab" THEN "CLIENT_CONNECTED" ELSE state

\* What is left of connect() once its connection was made: st is how the
\* call of the kernel ended.
connect_rest(c, f, st) == 
    IF st = "estab"
    THEN Service!add_socket(c, f) /\ state_transition({"CLIENT_CLOSED"}, "CLIENT_CONNECTED")
    ELSE UNCHANGED <<service_vars, state>>

\* The member is set before the connection is tried.  The object it held, if
\* an earlier attempt failed, goes when the new one has its descriptor.
\* Without a free descriptor the constructor throws and nothing changes.
connect == 
    /\ UserCalls("connect") /\ state = "CLIENT_CLOSED"
    /\ FreeFds # {}
    /\ UNCHANGED pass_vars
    /\ LET c == NewConn
           f == NextFd
       IN /\ connection' = c
          /\ \E st \in {"estab", "fresh"} :
                /\ IF st = "estab" THEN NoFault ELSE Fault
                /\ connect_rest(c, f, st)
                /\ Settle(Service!Created(c, f),
                          [socket EXCEPT ![c] = [st |-> st, pending |-> 0]],
                          IF st = "estab" THEN [phase EXCEPT ![c] = "served"] ELSE phase)

disconnect == 
    /\ UserCalls("disconnect")
    /\ state_transition({"CLIENT_CONNECTED", "CLIENT_CLOSED"}, "CLIENT_CLOSED")
    /\ clear_service
    /\ reset_connection
    /\ UNCHANGED pass_vars /\ NoFault
    /\ SettleAsIs

\* ~Client(), outside of a pass, and the members go.
destruct == 
    /\ ~ InPass /\ state # "CLIENT_DESTRUCTING"
    /\ state' = "CLIENT_DESTRUCTING" /\ reset_connection
    /\ destruct_service
    /\ UNCHANGED pass_vars /\ NoFault
    /\ SettleAsIs

\* The user makes another client.
construct == 
    /\ state = "CLIENT_DESTRUCTING" /\ state' = "CLIENT_CLOSED"
    /\ UNCHANGED <<service_vars, connection, pass_vars, kernel_vars, faults>>

-----------------------------------------------------------------------------
(* One pass of poll().  An entry of another connection would throw          *)
(* InvalidSocketPollException; KnowsWhatItPolls says that there is none.    *)

poll == state = "CLIENT_CONNECTED" /\ poll_service
poll_throws == state = "CLIENT_CONNECTED" /\ poll_service_throws

\* The user is told; the connection stays watched.
tell_gone(c, name) == 
    /\ Call(name, c)
    /\ UNCHANGED service_vars
    /\ Settle(socket_descriptor, socket, [phase EXCEPT ![c] = "gone"])

\* Variant: an else is missing, the entry is read as well.
trouble_then_read(e) == 
    /\ Takes(e) /\ e.connection = connection
    /\ e.status \in {"ERROR", "DISCONNECT"}
    /\ tell_gone(e.connection, IF e.status = "ERROR" THEN "error" ELSE "disconnect")
    /\ reading' = [connection |-> e.connection, part |-> "id"] /\ NoFault

client_trouble(e) == 
    /\ Takes(e) /\ e.connection = connection
    /\ e.status \in {"ERROR", "DISCONNECT"}
    /\ tell_gone(e.connection, IF e.status = "ERROR" THEN "error" ELSE "disconnect")
    /\ UNCHANGED reading /\ NoFault

handle_client_ready_to_read(e) == 
    /\ Takes(e) /\ e.connection = connection /\ e.status = "NORMAL"
    /\ StartReading(e.connection)

\* Variant: the end of the stream is taken for an empty message.
eof_ignored == 
    /\ EndOfStream
    /\ Call("message", reading.connection)
    /\ UNCHANGED service_vars /\ SettleAsIs

\* recv() returned 0: ConnectionClosedException, then handleSocketDisconnect.
receive_eof == 
    /\ EndOfStream
    /\ tell_gone(reading.connection, "disconnect")

-----------------------------------------------------------------------------
Init == state = "CLIENT_CLOSED" /\ EndpointInit

Dispatch == \E e \in todo : client_trouble(e) \/ handle_client_ready_to_read(e)

Receive == receive_id \/ receive_body \/ receive_eof \/ receive_throws

Next == 
    \/ construct \/ connect \/ disconnect \/ destruct
    \/ poll \/ poll_throws
    \/ Dispatch \/ Receive \/ hook_returns \/ hook_throws
    \/ \E c \in Conns : peer_sends(c) \/ peer_closes(c) \/ peer_resets(c)

Spec == Init /\ [][Next]_vars

\* The user keeps calling poll(), hooks return, and peers complete messages.
Fairness == 
    /\ WF_vars(poll)
    /\ WF_vars(Dispatch)
    /\ WF_vars(Receive)
    /\ WF_vars(hook_returns)
    /\ WF_vars(PeerCompletes)

FairSpec == Spec /\ Fairness

-----------------------------------------------------------------------------
TypeOK == 
    /\ EndpointTypeOK
    /\ state \in {"CLIENT_CLOSED", "CLIENT_CONNECTED", "CLIENT_DESTRUCTING"}

\* A connected client watches its connection and nothing else, a closed one
\* nothing: through failed attempts and reconnections from inside hooks.
WatchesItsConnection == 
    Service!Watched = IF state = "CLIENT_CONNECTED" THEN {connection} ELSE {}

\* client.h: InvalidSocketPollException, "catastrophic errors": the loop never
\* meets an entry of a connection the client has already replaced.
KnowsWhatItPolls == 
    hook = NoHook /\ reading = Idling => \A e \in todo : e.connection = connection

\* The hooks a user sees are those of the abstract specification.
Connected == state = "CLIENT_CONNECTED"
Hooks == INSTANCE ClientHooks WITH 
            current <- IF Connected THEN connection ELSE NULL,
            gone    <- Connected /\ phase[connection] = "gone"

HooksSpec == Hooks!Spec

\* Under FairSpec: a user who keeps polling is told that the server is gone.
GoneServerIsReported == 
    (Connected /\ PeerGone(connection))
       ~> (~ Connected \/ hook.name \in {"disconnect", "error"})

-----------------------------------------------------------------------------
(* What the repository says of the client and the code does not do.         *)

\* infinite_comms.cpp: "while (has_more_updates) has_more_updates =
\* client.poll()".  Under FairSpec: once the server has closed, such a loop
\* comes to an end, by a poll() that returns false.
DrainEnds == 
    (Connected /\ socket[connection].st = "eof")
       ~> (~ Connected \/ hook.name = "poll_timeout")
=============================================================================
