---------------------------- MODULE ClientProofs ----------------------------
(***************************************************************************)
(* A client watches its connection, knows what it polls and calls its      *)
(* hooks as ClientHooks says, for any number of connections, descriptors,  *)
(* faults and chunks, whatever the hooks call.                             *)
(***************************************************************************)
EXTENDS Client, EndpointProofs

States == {"CLIENT_CLOSED", "CLIENT_CONNECTED", "CLIENT_DESTRUCTING"}

\* The client has one connection, so a pass has at most one entry, and is done
\* with it before a hook can change anything.
OnePerPass ==
    /\ todo # {} => hook = NoHook /\ reading = Idling
    /\ \A e1, e2 \in todo : e1 = e2
    /\ \A e \in todo : Connected /\ e.connection = connection
    /\ reading # Idling => Connected /\ reading.connection = connection
    /\ state = "CLIENT_DESTRUCTING" => ~ InPass

\* What the user was told stays true: such a connection never has more to read
\* than what was there when it was reset.
ToldIsGone(sk, ph) ==
    \A c \in Conns : ph[c] = "gone" =>
       \/ sk[c].st \in {"reset", "hup", "aborted"}
       \/ sk[c].st = "eof" /\ sk[c].pending = 0

\* The connection of a connected client: what is still to be done about it in
\* this pass fits its socket.
Fits(sk, ph, td, rd) ==
    /\ sk[connection].st \in {"estab", "eof", "reset", "hup", "aborted"}
    /\ (\E e \in td : e.status # "NORMAL") => sk[connection].st \in {"reset", "hup", "aborted"}
    /\ ph[connection] = "gone" /\ (rd # Idling \/ \E e \in td : e.status = "NORMAL")
          => sk[connection].pending = 0

IInv ==
    /\ EndpointInv
    /\ state \in States
    /\ Connected => connection # NULL
    /\ WatchesItsConnection
    /\ OnePerPass
    /\ ToldIsGone(socket, phase)
    /\ Connected => Fits(socket, phase, todo, reading)

\* A step keeps the invariant, uses the service within its rules, and is a
\* step of ClientHooks or none.
Good == IInv' /\ [Service!Next]_(Service!vars) /\ [Hooks!Next]_(Hooks!vars)

-----------------------------------------------------------------------------
\* What is told of a connection concerns an object that exists.
LEMMA ToldAfter ==
    ASSUME NEW sd, NEW sk, NEW ph, Outcome(sd, sk, ph), ToldIsGone(sk, ph)
    PROVE  ToldIsGone(socket', phase')
<1>1. \A c \in Conns : phase'[c] = "gone" => c \in Service!Alive'
  BY DEF Outcome, KernelOK, Service!Alive
<1> QED BY <1>1 DEF Outcome, ToldIsGone

\* The connection stays, and is connected as before.
LEMMA SameClient ==
    ASSUME IInv, NEW sk, NEW ph, Outcome(socket_descriptor, sk, ph), ToldIsGone(sk, ph),
           UNCHANGED <<state, connection>>, Service!Watched' = Service!Watched, PassOK',
           OnePerPass',
           Connected => Fits(sk, ph, todo', reading')
    PROVE  /\ IInv'
           /\ Connected' = Connected
           /\ Connected => /\ connection \in Conns /\ phase'[connection] = ph[connection]
<1>1. Connected' = Connected
  BY DEF Connected
<1>2. ASSUME Connected
      PROVE  /\ connection \in Conns /\ phase'[connection] = ph[connection]
             /\ socket'[connection] = sk[connection]
  <2>1. connection \in Service!Watched'
    BY <1>2 DEF IInv, WatchesItsConnection, Connected
  <2>2. connection \in Service!Alive'
    BY <2>1 DEF Outcome, ServiceOK
  <2> QED BY <2>2 DEF Outcome, Service!Alive
<1>3. EndpointInv'
  BY DEF Outcome, EndpointInv
<1>4. ToldIsGone(socket, phase)'
  BY ToldAfter DEF ToldIsGone
<1>5. WatchesItsConnection' /\ (Connected' => connection' # NULL) /\ state' \in States
  BY <1>1 DEF IInv, WatchesItsConnection
<1>6. Connected' => Fits(socket, phase, todo, reading)'
  BY <1>1, <1>2 DEF Fits
<1> QED BY <1>1, <1>2, <1>3, <1>4, <1>5, <1>6 DEF IInv

\* A step that neither changes the connection nor tells anything.
LEMMA QuietStep ==
    ASSUME Connected' = Connected, UNCHANGED <<state, connection, hook>>,
           Connected => phase'[connection] = phase[connection]
    PROVE  UNCHANGED Hooks!vars
<1> QED BY DEF Hooks!vars

-----------------------------------------------------------------------------
(* The pass.                                                                *)

\* The status that poll() reports of a connected socket.
LEMMA GoneStatus ==
    ASSUME NEW s, s.st \in {"estab", "eof", "reset", "hup", "aborted"}
    PROVE  Service!Status(Readiness(s)) = "NORMAL" <=> s.st \in {"estab", "eof"}
<1> QED BY DEF Readiness, Service!Status

\* poll() finds the connection, or calls the hook of the timeout.
LEMMA PollGood ==
    ASSUME IInv, poll
    PROVE  Good
<1>1. EndpointInv /\ poll_service /\ Connected
  BY DEF IInv, poll, Connected
<1>2. /\ Outcome(socket_descriptor, socket, phase) /\ PassOK' /\ Service!Next
      /\ Service!Watched' = Service!Watched
      /\ \A e \in results' :
            LET flags == Readiness(socket[e.connection])
            IN /\ e.connection \in Service!Watched
               /\ flags # {} /\ e.status = Service!Status(flags)
  BY <1>1, PollStep
<1>3. /\ todo = {} /\ reading = Idling /\ hook = NoHook /\ todo' = results' /\ reading' = Idling
      /\ UNCHANGED <<state, connection>>
      /\ hook' = IF results' = {} THEN [name |-> "poll_timeout", client |-> NULL] ELSE NoHook
  BY <1>1 DEF poll_service, InPass, owner_vars
<1>4. \A e \in results' : e.connection = connection
  BY <1>1, <1>2 DEF IInv, WatchesItsConnection, Connected
<1>5. OnePerPass'
  <2>1. \A e1, e2 \in todo' : e1 = e2
    BY <1>2, <1>3, <1>4 DEF Outcome, ServiceOK
  <2>2. state' = "CLIENT_CONNECTED"
    BY <1>1, <1>3 DEF Connected
  <2> QED BY <1>1, <1>3, <1>4, <2>1, <2>2 DEF OnePerPass, Connected
<1>6. ToldIsGone(socket, phase) /\ connection \in Conns
  BY <1>1 DEF IInv, EndpointInv, PassOK
<1>7. Fits(socket, phase, todo', reading')
  <2>1. socket[connection].st \in {"estab", "eof", "reset", "hup", "aborted"}
    BY <1>1 DEF IInv, Fits
  <2>2. \A e \in todo' : e.status = "NORMAL" <=> socket[connection].st \in {"estab", "eof"}
    BY <1>2, <1>3, <1>4, <2>1, GoneStatus
  <2> QED BY <1>3, <1>6, <2>1, <2>2 DEF ToldIsGone, Fits
<1>8. IInv' /\ Connected' = Connected /\ phase'[connection] = phase[connection]
  BY <1>1, <1>2, <1>3, <1>5, <1>6, <1>7, SameClient
<1>9. [Hooks!Next]_(Hooks!vars)
  <2>1. CASE results' = {}
    BY <1>1, <1>3, <1>6, <1>8, <2>1, NullAssumption
       DEF Hooks!Next, Hooks!Timeout, Hooks!Call, Hooks!NoHook, NoHook
  <2>2. CASE results' # {}
    BY <1>1, <1>3, <1>8, <2>2, QuietStep
  <2> QED BY <2>1, <2>2
<1> QED BY <1>2, <1>8, <1>9 DEF Good

\* The call of the OS fails.
LEMMA PollThrowsGood ==
    ASSUME IInv, poll_throws
    PROVE  Good
<1>1. EndpointInv /\ poll_service_throws /\ Connected
  BY DEF IInv, poll_throws, Connected
<1>2. /\ Outcome(socket_descriptor, socket, phase) /\ PassOK' /\ Service!Next
      /\ Service!Watched' = Service!Watched
  BY <1>1, PollThrowsStep
<1>3. /\ todo = {} /\ reading = Idling /\ hook = NoHook
      /\ UNCHANGED <<state, connection, todo, reading, hook>>
  BY <1>1 DEF poll_service_throws, InPass, owner_vars, pass_vars
<1>4. OnePerPass'
  BY <1>3 DEF OnePerPass, InPass
<1>5. IInv' /\ Connected' = Connected /\ phase'[connection] = phase[connection]
  BY <1>1, <1>2, <1>3, <1>4, SameClient DEF IInv
<1>6. UNCHANGED Hooks!vars
  BY <1>3, <1>5, QuietStep
<1> QED BY <1>2, <1>5, <1>6 DEF Good

\* The user is told that the connection is gone.
LEMMA TellGoneStep ==
    ASSUME IInv, Connected, NEW name \in {"disconnect", "error"},
           tell_gone(connection, name), hook = NoHook,
           UNCHANGED <<state, connection, faults>>, todo' = {}, reading' = Idling,
           \/ socket[connection].st \in {"reset", "hup", "aborted"}
           \/ socket[connection].st = "eof" /\ socket[connection].pending = 0
    PROVE  Good
<1> DEFINE ph == [phase EXCEPT ![connection] = "gone"]
<1>1. EndpointInv /\ ServiceOK /\ KernelOK(socket_descriptor, socket, phase, leaked, faults)
  BY DEF IInv, EndpointInv
<1>2. connection \in Conns /\ socket_descriptor[connection] # NoFd
  <2>1. connection \in Service!Watched
    BY DEF IInv, WatchesItsConnection, Connected
  <2> QED BY <1>1, <2>1, ServiceFacts, NoFdAssumption
<1>3. /\ hook' = [name |-> name, client |-> connection] /\ UNCHANGED service_vars
      /\ Settle(socket_descriptor, socket, ph)
  BY DEF tell_gone, Call
<1>4. /\ \A c \in Conns \ {connection} : ph[c] = phase[c]
      /\ ph[connection] = "gone"
  BY <1>1, <1>2 DEF KernelOK
<1>5. KernelOK(socket_descriptor, socket, ph, leaked, faults')
  BY <1>1, <1>2, PhaseChange
<1> HIDE DEF ph
<1>6. /\ Outcome(socket_descriptor, socket, ph) /\ Service!Drop
      /\ Service!Watched' = Service!Watched /\ results' = results
  BY <1>1, <1>3, <1>5, KeepOutcome
<1>7. ToldIsGone(socket, ph)
  BY <1>2, <1>4 DEF IInv, ToldIsGone
<1>8. PassOK'
  <2>1. hook' \in [name : HookNames, client : Conns \cup {NULL}]
    BY <1>2, <1>3 DEF HookNames
  <2> QED BY <1>1, <1>2, <2>1 DEF PassOK, EndpointInv
<1>9. OnePerPass'
  BY DEF OnePerPass, Connected
<1>10. Fits(socket, ph, todo', reading')
  BY <1>7 DEF Fits
<1>11. IInv' /\ Connected' = Connected /\ phase'[connection] = "gone"
  BY <1>4, <1>6, <1>7, <1>8, <1>9, <1>10, SameClient
<1>12. Hooks!Gone
  <2>1. NoHook = Hooks!NoHook /\ connection # NULL
    BY <1>2, NullAssumption DEF NoHook, Hooks!NoHook
  <2> QED BY <1>3, <1>11, <2>1 DEF Hooks!Gone, Hooks!Call
<1> QED BY <1>6, <1>11, <1>12 DEF Good, Service!Next, Hooks!Next

\* The entry says that the connection is gone.
LEMMA TroubleGood ==
    ASSUME IInv, NEW e \in todo, client_trouble(e)
    PROVE  Good
<1>1. /\ hook = NoHook /\ reading = Idling /\ todo' = todo \ {e} /\ reading' = reading
      /\ UNCHANGED <<state, connection, faults>>
      /\ e.connection = connection /\ e.status \in {"ERROR", "DISCONNECT"}
  BY DEF client_trouble, Takes, owner_vars, NoFault
<1>2. Connected /\ todo' = {}
  BY <1>1 DEF IInv, OnePerPass
<1>3. \E name \in {"disconnect", "error"} : tell_gone(connection, name)
  BY <1>1 DEF client_trouble
<1>4. socket[connection].st \in {"reset", "hup", "aborted"}
  BY <1>1, <1>2 DEF IInv, Fits
<1> QED BY <1>1, <1>2, <1>3, <1>4, TellGoneStep

\* The end of the stream says so.
LEMMA ReceiveEofGood ==
    ASSUME IInv, receive_eof
    PROVE  Good
<1>1. /\ reading # Idling /\ socket[reading.connection].pending = 0
      /\ socket[reading.connection].st \in {"eof", "hup", "aborted"} /\ reading' = Idling
      /\ UNCHANGED <<state, connection, faults, todo>> /\ tell_gone(reading.connection, "disconnect")
  BY DEF receive_eof, EndOfStream, owner_vars, NoFault
<1>2. Connected /\ reading.connection = connection /\ todo = {} /\ hook = NoHook
  BY <1>1 DEF IInv, OnePerPass, EndpointInv, PassOK
<1> QED BY <1>1, <1>2, TellGoneStep

\* The client begins to read.
LEMMA ReadyGood ==
    ASSUME IInv, NEW e \in todo, handle_client_ready_to_read(e)
    PROVE  Good
<1>1. /\ hook = NoHook /\ reading = Idling /\ todo' = todo \ {e}
      /\ UNCHANGED <<state, connection>> /\ faults' = faults
      /\ e.connection = connection /\ e.status = "NORMAL"
      /\ reading' = [connection |-> connection, part |-> "id"]
      /\ UNCHANGED <<service_vars, connection, hook, socket_descriptor, phase, leaked, socket>>
  BY DEF handle_client_ready_to_read, Takes, StartReading, owner_vars, kernel_vars, NoFault
<1>2. Connected /\ todo' = {} /\ connection \in Conns
  BY <1>1 DEF IInv, OnePerPass, EndpointInv, PassOK
<1>3. ServiceOK /\ KernelOK(socket_descriptor, socket', phase, leaked, faults')
  BY <1>1 DEF IInv, EndpointInv
<1>4. /\ Outcome(socket_descriptor, socket, phase) /\ UNCHANGED Service!vars
      /\ Service!Watched' = Service!Watched /\ results' = results
  BY <1>1, <1>3, StillOutcome
<1>5. PassOK'
  <2>1. connection \in Service!Reported'
    BY <1>1, <1>4 DEF IInv, EndpointInv, PassOK, Service!Reported
  <2> QED BY <1>1, <1>2, <2>1 DEF PassOK, IInv, EndpointInv
<1>6. OnePerPass'
  BY <1>1, <1>2 DEF OnePerPass, Connected
<1>7. Fits(socket, phase, todo', reading')
  BY <1>1, <1>2 DEF IInv, Fits
<1>8. IInv' /\ Connected' = Connected /\ phase'[connection] = phase[connection]
  BY <1>1, <1>2, <1>4, <1>5, <1>6, <1>7, SameClient DEF IInv
<1>9. UNCHANGED Hooks!vars
  BY <1>1, <1>8, QuietStep
<1> QED BY <1>4, <1>8, <1>9 DEF Good

\* What a client that reads knows.
LEMMA ReadingClient ==
    ASSUME IInv, reading # Idling
    PROVE  /\ Connected /\ reading.connection = connection /\ todo = {} /\ hook = NoHook
           /\ connection \in Conns /\ connection # NULL
           /\ phase[connection] = "gone" => socket[connection].pending = 0
           /\ socket[connection].st \in {"estab", "eof", "reset", "hup", "aborted"}
<1>1. Connected /\ reading.connection = connection /\ todo = {}
  BY DEF IInv, OnePerPass
<1>2. hook = NoHook /\ connection \in Conns
  BY <1>1 DEF IInv, EndpointInv, PassOK
<1> QED BY <1>1, <1>2 DEF IInv, Fits

\* The id of a channel is received, or an unknown one ends the pass.
LEMMA ReceiveIdGood ==
    ASSUME IInv, receive_id
    PROVE  Good
<1> DEFINE sk == Consumed(connection)
<1>1. EndpointInv /\ reading # Idling /\ socket[reading.connection].pending > 0
  BY DEF IInv, receive_id, Idling
<1>2. /\ Connected /\ reading.connection = connection /\ todo = {} /\ hook = NoHook
      /\ connection \in Conns /\ phase[connection] # "gone"
      /\ socket[connection].st \in {"estab", "eof", "reset", "hup", "aborted"}
  BY <1>1, ReadingClient
<1>3. /\ Outcome(socket_descriptor, sk, phase) /\ PassOK' /\ Service!Next
      /\ Service!Watched' = Service!Watched /\ hook' = NoHook /\ todo' \subseteq todo
      /\ reading' # Idling => reading'.connection = reading.connection
  BY <1>1, <1>2, ReceiveIdStep
<1>4. UNCHANGED <<state, connection>>
  BY DEF receive_id, owner_vars
<1>5. OnePerPass'
  BY <1>2, <1>3, <1>4 DEF OnePerPass, Connected
<1>6. ToldIsGone(sk, phase) /\ Fits(sk, phase, todo', reading')
  <2>1. /\ \A d \in Conns : sk[d].st = socket[d].st
        /\ \A d \in Conns \ {connection} : sk[d] = socket[d]
    <3>1. KernelOK(socket_descriptor, socket, phase, leaked, faults) /\ socket_descriptor[connection] # NoFd
      BY <1>1, <1>2, ReadingExists DEF EndpointInv
    <3>2. faults \in 0 .. MaxFaults /\ faults <= faults' /\ faults' \in 0 .. MaxFaults
      BY <3>1, BoundsAssumption DEF receive_id, Fault, NoFault, KernelOK
    <3> QED BY <1>1, <1>2, <3>1, <3>2, ConsumedKernel
  <2> HIDE DEF sk
  <2>2. ToldIsGone(sk, phase)
    BY <1>2, <2>1 DEF IInv, ToldIsGone
  <2> QED BY <1>2, <1>3, <2>1, <2>2 DEF Fits
<1> HIDE DEF sk
<1>7. IInv' /\ Connected' = Connected /\ phase'[connection] = phase[connection]
  BY <1>2, <1>3, <1>4, <1>5, <1>6, SameClient
<1>8. UNCHANGED Hooks!vars
  BY <1>2, <1>3, <1>4, <1>7, QuietStep
<1> QED BY <1>3, <1>7, <1>8 DEF Good

\* The body is received: never after the user was told of the end.
LEMMA ReceiveBodyGood ==
    ASSUME IInv, receive_body
    PROVE  Good
<1> DEFINE sk == Consumed(connection)
<1>1. EndpointInv /\ reading # Idling /\ socket[reading.connection].pending > 0
  BY DEF IInv, receive_body, Idling
<1>2. /\ Connected /\ reading.connection = connection /\ todo = {} /\ hook = NoHook
      /\ connection \in Conns /\ phase[connection] # "gone" /\ connection # NULL
      /\ socket[connection].st \in {"estab", "eof", "reset", "hup", "aborted"}
  BY <1>1, ReadingClient
<1>3. /\ Outcome(socket_descriptor, sk, phase) /\ PassOK' /\ Service!Next
      /\ Service!Watched' = Service!Watched /\ todo' = todo /\ reading' = Idling
      /\ hook' \in {hook, [name |-> "message", client |-> connection]}
  BY <1>1, <1>2, ReceiveBodyStep
<1>4. UNCHANGED <<state, connection>>
  BY DEF receive_body, owner_vars
<1>5. OnePerPass'
  BY <1>2, <1>3, <1>4 DEF OnePerPass, Connected
<1>6. ToldIsGone(sk, phase) /\ Fits(sk, phase, todo', reading')
  <2>1. /\ \A d \in Conns : sk[d].st = socket[d].st
        /\ \A d \in Conns \ {connection} : sk[d] = socket[d]
    <3>1. KernelOK(socket_descriptor, socket, phase, leaked, faults) /\ socket_descriptor[connection] # NoFd
      BY <1>1, <1>2, ReadingExists DEF EndpointInv
    <3>2. faults \in 0 .. MaxFaults /\ faults <= faults' /\ faults' \in 0 .. MaxFaults
      BY <3>1, BoundsAssumption DEF receive_body, NoFault, KernelOK
    <3> QED BY <1>1, <1>2, <3>1, <3>2, ConsumedKernel
  <2> HIDE DEF sk
  <2>2. ToldIsGone(sk, phase)
    BY <1>2, <2>1 DEF IInv, ToldIsGone
  <2> QED BY <1>2, <1>3, <2>1, <2>2 DEF Fits
<1> HIDE DEF sk
<1>7. IInv' /\ Connected' = Connected /\ phase'[connection] = phase[connection]
  BY <1>2, <1>3, <1>4, <1>5, <1>6, SameClient
<1>8. [Hooks!Next]_(Hooks!vars)
  <2>1. CASE hook' = hook
    BY <1>4, <1>7, <2>1, QuietStep
  <2>2. CASE hook' = [name |-> "message", client |-> connection]
    <3>1. NoHook = Hooks!NoHook
      BY DEF NoHook, Hooks!NoHook
    <3>2. Hooks!Message
      BY <1>2, <1>4, <1>7, <2>2, <3>1 DEF Hooks!Message, Hooks!Call
    <3> QED BY <3>2 DEF Hooks!Next
  <2> QED BY <1>3, <2>1, <2>2
<1> QED BY <1>3, <1>7, <1>8 DEF Good

\* receive() throws, and the error of a reset is read.
LEMMA ReceiveThrowsGood ==
    ASSUME IInv, receive_throws
    PROVE  Good
<1> DEFINE sk == ErrorRead(connection)
<1>1. EndpointInv /\ reading # Idling
  BY DEF IInv, receive_throws
<1>2. /\ Connected /\ reading.connection = connection /\ hook = NoHook /\ connection \in Conns
      /\ socket[connection].st \in {"estab", "eof", "reset", "hup", "aborted"}
  BY <1>1, ReadingClient
<1>3. /\ Outcome(socket_descriptor, sk, phase) /\ PassOK' /\ Service!Next
      /\ Service!Watched' = Service!Watched /\ todo' = {} /\ reading' = Idling /\ hook' = NoHook
      /\ \A c \in Conns : /\ sk[c].pending = socket[c].pending
                          /\ sk[c].st = IF c = connection /\ socket[c].st = "reset" THEN "hup" ELSE socket[c].st
  BY <1>1, <1>2, ReceiveThrowsStep
<1>4. UNCHANGED <<state, connection>>
  BY DEF receive_throws, owner_vars
<1>5. OnePerPass'
  BY <1>2, <1>3, <1>4 DEF OnePerPass, Connected
<1> HIDE DEF sk
<1>6. ToldIsGone(sk, phase)
  BY <1>3 DEF IInv, ToldIsGone
<1>7. Fits(sk, phase, todo', reading')
  BY <1>2, <1>3 DEF Fits
<1>8. IInv' /\ Connected' = Connected /\ phase'[connection] = phase[connection]
  BY <1>2, <1>3, <1>4, <1>5, <1>6, <1>7, SameClient
<1>9. UNCHANGED Hooks!vars
  BY <1>2, <1>3, <1>4, <1>8, QuietStep
<1> QED BY <1>3, <1>8, <1>9 DEF Good

\* A hook returns to the loop.
LEMMA HookReturnsGood ==
    ASSUME IInv, hook_returns
    PROVE  Good
<1>1. EndpointInv
  BY DEF IInv
<1>2. /\ Outcome(socket_descriptor, socket, phase) /\ PassOK' /\ Service!Next
      /\ Service!Watched' = Service!Watched
  BY <1>1, HookReturnsStep
<1>3. /\ hook # NoHook /\ hook' = NoHook /\ UNCHANGED <<state, connection, todo, reading>>
  BY DEF hook_returns, owner_vars
<1>4. OnePerPass'
  BY <1>3 DEF IInv, OnePerPass, InPass, Connected
<1>5. /\ IInv' /\ Connected' = Connected
      /\ Connected => phase'[connection] = phase[connection]
  BY <1>2, <1>3, <1>4, SameClient DEF IInv
<1>6. Hooks!Return
  BY <1>3, <1>5 DEF Hooks!Return, Hooks!NoHook, NoHook
<1> QED BY <1>2, <1>5, <1>6 DEF Good, Hooks!Next

\* A hook throws, and the pass ends.
LEMMA HookThrowsGood ==
    ASSUME IInv, hook_throws
    PROVE  Good
<1>1. EndpointInv
  BY DEF IInv
<1>2. /\ Outcome(socket_descriptor, socket, phase) /\ PassOK' /\ Service!Next
      /\ Service!Watched' = Service!Watched /\ hook # NoHook
      /\ todo' = {} /\ reading' = Idling /\ hook' = NoHook
  BY <1>1, HookThrowsStep
<1>3. UNCHANGED <<state, connection>>
  BY DEF hook_throws, owner_vars
<1>4. OnePerPass'
  BY <1>2, <1>3 DEF IInv, OnePerPass, InPass, Connected
<1>5. Connected => Fits(socket, phase, todo', reading')
  BY <1>2 DEF IInv, Fits
<1>6. /\ IInv' /\ Connected' = Connected
      /\ Connected => phase'[connection] = phase[connection]
  BY <1>2, <1>3, <1>4, <1>5, SameClient DEF IInv
<1>7. Hooks!Return
  BY <1>2, <1>3, <1>6 DEF Hooks!Return, Hooks!NoHook, NoHook
<1> QED BY <1>2, <1>6, <1>7 DEF Good, Hooks!Next

\* The peer sends, closes or resets.
LEMMA PeerGood ==
    ASSUME IInv, NEW c \in Conns, peer_sends(c) \/ peer_closes(c) \/ peer_resets(c)
    PROVE  Good
<1>1. EndpointInv
  BY DEF IInv
<1>2. /\ Outcome(socket_descriptor, socket', phase) /\ PassOK' /\ UNCHANGED Service!vars
      /\ Service!Watched' = Service!Watched
      /\ socket[c].st \in {"estab", "eof"} /\ socket'[c].st \in {"estab", "eof", "reset", "aborted"}
      /\ socket[c].st = "eof" => socket'[c].st = "aborted" /\ socket'[c].pending = socket[c].pending
      /\ \A d \in Conns \ {c} : socket'[d] = socket[d]
      /\ UNCHANGED <<results, connection, state, todo, reading, hook, socket_descriptor, phase>>
  BY <1>1, PeerStep
<1>3. ToldIsGone(socket', phase)
  BY <1>2 DEF IInv, ToldIsGone
<1>4. Connected => Fits(socket', phase, todo', reading')
  BY <1>2 DEF IInv, Fits, ToldIsGone, EndpointInv, PassOK
<1>5. OnePerPass'
  BY <1>2 DEF IInv, OnePerPass, InPass, Connected
<1>6. IInv' /\ Connected' = Connected
  BY <1>2, <1>3, <1>4, <1>5, SameClient
<1>7. UNCHANGED Hooks!vars
  BY <1>2, <1>6, QuietStep
<1> QED BY <1>2, <1>6, <1>7 DEF Good

-----------------------------------------------------------------------------
(* The calls of the user.                                                   *)

\* A client that is not connected watches nothing and reads nothing.
LEMMA NotConnected ==
    ASSUME IInv, ~ Connected
    PROVE  Service!Watched = {} /\ todo = {} /\ reading = Idling
<1> QED BY DEF IInv, OnePerPass, WatchesItsConnection, Connected

\* The connection that connect() makes, and how far it gets.
LEMMA ConnectMakes ==
    ASSUME EndpointInv, FreeFds # {}, NEW st \in {"estab", "fresh"},
           IF st = "estab" THEN NoFault ELSE Fault
    PROVE  LET sk == [socket EXCEPT ![NewConn] = [st |-> st, pending |-> 0]]
           IN /\ NewConn \in Conns /\ Made[NewConn] = NextFd
              /\ KernelOK(Made, sk, phase, leaked, faults')
              /\ KernelOK(Made, sk, [phase EXCEPT ![NewConn] = "served"], leaked, faults')
              /\ \A c \in Conns : socket_descriptor[c] # NoFd => Made[c] = socket_descriptor[c]
              /\ sk[NewConn] = [st |-> st, pending |-> 0]
              /\ \A c \in Conns \ {NewConn} : sk[c] = socket[c]
<1> DEFINE s == [st |-> st, pending |-> 0]
           sk == [socket EXCEPT ![NewConn] = s]
<1>1. KernelOK(socket_descriptor, socket, phase, leaked, faults)
  BY DEF EndpointInv
<1>2. NewConn \in Conns
  BY <1>1, FreshObject
<1>3. s \in [st : SocketStates, pending : 0 .. MaxPending]
  BY BoundsAssumption DEF SocketStates
<1>4. /\ sk \in [Conns -> [st : SocketStates, pending : 0 .. MaxPending]]
      /\ sk[NewConn] = s /\ \A c \in Conns \ {NewConn} : sk[c] = socket[c]
  <2>1. socket \in [Conns -> [st : SocketStates, pending : 0 .. MaxPending]]
    BY <1>1 DEF KernelOK
  <2> HIDE DEF s
  <2> QED BY <1>2, <1>3, <2>1
<1>5. /\ faults' \in 0 .. MaxFaults /\ faults <= faults'
      /\ st = "fresh" => faults < faults'
  <2>1. faults \in 0 .. MaxFaults /\ MaxFaults \in Nat
    BY <1>1, BoundsAssumption DEF KernelOK
  <2> QED BY <2>1 DEF Fault, NoFault
<1>6. /\ sk[NewConn].st = st /\ st \in SocketStates \ {"none"}
      /\ st \in ShutdownFails => faults < faults'
  BY <1>4, <1>5 DEF SocketStates, ShutdownFails
<1> HIDE DEF sk, s
<1>7. /\ KernelOK(Made, sk, phase, leaked, faults')
      /\ KernelOK(Made, sk, [phase EXCEPT ![NewConn] = "served"], leaked, faults')
      /\ \A c \in Conns : socket_descriptor[c] # NoFd => Made[c] = socket_descriptor[c]
      /\ Made[NewConn] = NextFd
  BY <1>1, <1>4, <1>5, <1>6, MadeKernel
<1> QED BY <1>2, <1>4, <1>7 DEF sk, s

\* connect() succeeds.
LEMMA ConnectGood ==
    ASSUME IInv, connect, connect_rest(NewConn, NextFd, "estab"), NoFault,
           Settle(Service!Created(NewConn, NextFd),
                  [socket EXCEPT ![NewConn] = [st |-> "estab", pending |-> 0]],
                  [phase EXCEPT ![NewConn] = "served"])
    PROVE  Good
<1> DEFINE sk == [socket EXCEPT ![NewConn] = [st |-> "estab", pending |-> 0]]
           ph == [phase EXCEPT ![NewConn] = "served"]
<1>1. /\ EndpointInv /\ ServiceOK /\ KernelOK(socket_descriptor, socket, phase, leaked, faults)
      /\ FreeFds # {} /\ state = "CLIENT_CLOSED" /\ ~ Connected
      /\ connection' = NewConn /\ UNCHANGED <<todo, reading, hook>>
      /\ state' = "CLIENT_CONNECTED" /\ Connected' /\ Service!add_socket(NewConn, NextFd)
  BY DEF connect, connect_rest, state_transition, IInv, EndpointInv, Connected, pass_vars
<1>2. Service!Watched = {} /\ todo = {} /\ reading = Idling
  BY <1>1, NotConnected
<1>3. /\ NewConn \in Conns /\ Made[NewConn] = NextFd
      /\ KernelOK(Made, sk, ph, leaked, faults')
      /\ \A c \in Conns : socket_descriptor[c] # NoFd => Made[c] = socket_descriptor[c]
      /\ sk[NewConn] = [st |-> "estab", pending |-> 0]
      /\ \A c \in Conns \ {NewConn} : sk[c] = socket[c]
  BY <1>1, ConnectMakes
<1>4. ph[NewConn] = "served" /\ \A c \in Conns \ {NewConn} : ph[c] = phase[c]
  BY <1>1, <1>3 DEF KernelOK
<1>5. Settle(Made, sk, ph)
  BY DEF Made
<1> HIDE DEF sk, ph
<1>6. /\ Outcome(Made, sk, ph) /\ Service!AddNewSocket(NewConn, NextFd)
      /\ Service!Watched' = {NewConn} /\ results' = results
  BY <1>1, <1>2, <1>3, <1>5, AddOutcome
<1>7. NewConn # NULL /\ NewConn \in Service!Alive'
  BY <1>3, <1>6, NullAssumption DEF Outcome, ServiceOK
<1>8. socket'[NewConn] = sk[NewConn] /\ phase'[NewConn] = "served"
  BY <1>4, <1>6, <1>7 DEF Outcome
<1>9. IInv'
  <2>1. PassOK'
    BY <1>1, <1>2, <1>3 DEF PassOK, EndpointInv
  <2>2. EndpointInv'
    BY <1>6, <2>1 DEF EndpointInv, Outcome
  <2>3. ToldIsGone(sk, ph)
    BY <1>3, <1>4 DEF IInv, ToldIsGone
  <2>4. ToldIsGone(socket, phase)'
    BY <1>6, <2>3, ToldAfter DEF ToldIsGone
  <2>5. Fits(socket, phase, todo, reading)'
    BY <1>1, <1>2, <1>3, <1>8 DEF Fits
  <2>6. OnePerPass' /\ WatchesItsConnection' /\ state' \in States /\ connection' # NULL
    BY <1>1, <1>2, <1>6, <1>7 DEF OnePerPass, WatchesItsConnection, States
  <2> QED BY <2>2, <2>4, <2>5, <2>6 DEF IInv
<1>10. Service!Next
  <2>1. NextFd \in Fds
    BY <1>1, FreshObject
  <2> QED BY <1>3, <1>6, <2>1 DEF Service!Next
<1>11. Hooks!Connect
  BY <1>1, <1>3, <1>7, <1>8 DEF Hooks!Connect
<1> QED BY <1>9, <1>10, <1>11 DEF Good, Hooks!Next

\* connect() fails: the client has a connection and is not connected.
LEMMA ConnectFailsGood ==
    ASSUME IInv, connect, connect_rest(NewConn, NextFd, "fresh"), Fault,
           Settle(Service!Created(NewConn, NextFd),
                  [socket EXCEPT ![NewConn] = [st |-> "fresh", pending |-> 0]], phase)
    PROVE  Good
<1> DEFINE sk == [socket EXCEPT ![NewConn] = [st |-> "fresh", pending |-> 0]]
<1>1. /\ EndpointInv /\ ServiceOK /\ KernelOK(socket_descriptor, socket, phase, leaked, faults)
      /\ FreeFds # {} /\ ~ Connected
      /\ connection' = NewConn /\ UNCHANGED <<todo, reading, hook>>
      /\ state' = state /\ ~ Connected' /\ UNCHANGED service_vars
  BY DEF connect, connect_rest, IInv, EndpointInv, Connected, pass_vars
<1>2. Service!Watched = {} /\ todo = {} /\ reading = Idling
  BY <1>1, NotConnected
<1>3. /\ NewConn \in Conns /\ phase[NewConn] = "absent"
      /\ KernelOK(Made, sk, phase, leaked, faults')
      /\ \A c \in Conns : socket_descriptor[c] # NoFd => Made[c] = socket_descriptor[c]
      /\ \A c \in Conns \ {NewConn} : sk[c] = socket[c]
  <2>1. NewConn \in Conns /\ socket_descriptor[NewConn] = NoFd
    BY <1>1, FreshObject
  <2>2. phase[NewConn] = "absent"
    BY <1>1, <2>1 DEF KernelOK
  <2> QED BY <1>1, <2>2, ConnectMakes
<1>4. Settle(Made, sk, phase)
  BY DEF Made
<1> HIDE DEF sk
<1>5. /\ Outcome(Made, sk, phase) /\ Service!NewSocket(NewConn, NextFd)
      /\ Service!Watched' = {} /\ results' = results
  BY <1>1, <1>2, <1>3, <1>4, MakeOutcome
<1>6. IInv'
  <2>1. PassOK'
    BY <1>1, <1>2, <1>3, <1>5 DEF PassOK, EndpointInv
  <2>2. EndpointInv'
    BY <1>5, <2>1 DEF EndpointInv, Outcome
  <2>3. ToldIsGone(sk, phase)
    BY <1>3 DEF IInv, ToldIsGone
  <2>4. ToldIsGone(socket, phase)'
    BY <1>5, <2>3, ToldAfter DEF ToldIsGone
  <2>5. OnePerPass'
    BY <1>1, <1>2 DEF OnePerPass, InPass, IInv
  <2>6. WatchesItsConnection' /\ state' \in States
    BY <1>1, <1>5 DEF IInv, WatchesItsConnection, Connected
  <2> QED BY <1>1, <2>2, <2>4, <2>5, <2>6 DEF IInv
<1>7. Service!Next
  <2>1. NextFd \in Fds
    BY <1>1, FreshObject
  <2> QED BY <1>3, <1>5, <2>1 DEF Service!Next
<1>8. UNCHANGED Hooks!vars
  BY <1>1 DEF Hooks!vars
<1> QED BY <1>6, <1>7, <1>8 DEF Good

\* What the client keeps when it lets its connection go.
LEMMA LetGo ==
    ASSUME IInv, todo = {}, reading = Idling, UNCHANGED pass_vars,
           Outcome(socket_descriptor, socket, phase), Service!Watched' = {},
           results' \in {results, {}}, connection' = NULL, state' \in States, ~ Connected',
           state' = "CLIENT_DESTRUCTING" => hook = NoHook
    PROVE  IInv' /\ [Hooks!Next]_(Hooks!vars)
<1>1. UNCHANGED <<todo, reading, hook>>
  BY DEF pass_vars
<1>2. PassOK'
  BY <1>1 DEF PassOK, IInv, EndpointInv
<1>3. EndpointInv'
  BY <1>2 DEF EndpointInv, Outcome
<1>4. ToldIsGone(socket, phase)'
  BY ToldAfter DEF IInv, ToldIsGone
<1>5. OnePerPass'
  BY <1>1 DEF OnePerPass, InPass
<1>6. WatchesItsConnection'
  BY DEF WatchesItsConnection, Connected
<1>7. Hooks!Disconnect
  BY <1>1 DEF Hooks!Disconnect
<1> QED BY <1>3, <1>4, <1>5, <1>6, <1>7 DEF IInv, Hooks!Next

\* disconnect() lets the connection go, also from inside a hook.
LEMMA DisconnectGood ==
    ASSUME IInv, disconnect
    PROVE  Good
<1>1. /\ ServiceOK /\ PassOK /\ KernelOK(socket_descriptor, socket, phase, leaked, faults')
      /\ clear_service /\ SettleAsIs /\ UNCHANGED pass_vars /\ connection' = NULL
      /\ state' = "CLIENT_CLOSED"
  BY DEF IInv, EndpointInv, disconnect, NoFault, reset_connection, state_transition
<1>2. todo = {} /\ reading = Idling
  BY <1>1 DEF disconnect, UserCalls, InPass, IInv, OnePerPass, PassOK
<1>3. /\ Outcome(socket_descriptor, socket, phase) /\ Service!ClearSockets
      /\ Service!Watched' = {} /\ results' = results
  BY <1>1, ClearOutcome
<1>4. ~ Connected' /\ state' \in States
  BY <1>1 DEF Connected, States
<1>5. IInv' /\ [Hooks!Next]_(Hooks!vars)
  BY <1>1, <1>2, <1>3, <1>4, LetGo
<1> QED BY <1>3, <1>5 DEF Good, Service!Next

\* The client is destructed.
LEMMA DestructGood ==
    ASSUME IInv, destruct
    PROVE  Good
<1>1. /\ ServiceOK /\ KernelOK(socket_descriptor, socket, phase, leaked, faults')
      /\ destruct_service /\ SettleAsIs /\ UNCHANGED pass_vars /\ connection' = NULL
      /\ state' = "CLIENT_DESTRUCTING" /\ todo = {} /\ reading = Idling /\ hook = NoHook
  BY DEF IInv, EndpointInv, destruct, NoFault, reset_connection, InPass
<1>2. /\ Outcome(socket_descriptor, socket, phase) /\ Service!Destruct
      /\ Service!Watched' = {} /\ results' = {}
  BY <1>1, DestructOutcome
<1>3. ~ Connected' /\ state' \in States
  BY <1>1 DEF Connected, States
<1>4. IInv' /\ [Hooks!Next]_(Hooks!vars)
  BY <1>1, <1>2, <1>3, LetGo
<1> QED BY <1>2, <1>4 DEF Good, Service!Next

\* The user makes another client: nothing else changes.
LEMMA ConstructGood ==
    ASSUME IInv, construct
    PROVE  Good
<1>1. /\ state = "CLIENT_DESTRUCTING" /\ state' = "CLIENT_CLOSED"
      /\ UNCHANGED <<service_vars, connection, todo, reading, hook, socket_descriptor, phase,
                     socket, leaked, faults>>
      /\ ServiceOK /\ KernelOK(socket_descriptor, socket', phase, leaked, faults')
  BY DEF construct, pass_vars, kernel_vars, IInv, EndpointInv
<1>2. /\ Outcome(socket_descriptor, socket', phase) /\ UNCHANGED Service!vars
      /\ Service!Watched' = Service!Watched /\ results' = results
  BY <1>1, StillOutcome
<1>3. IInv'
  <2>1. PassOK'
    BY <1>1, <1>2 DEF IInv, EndpointInv, PassOK, Service!Reported
  <2>2. EndpointInv'
    BY <1>2, <2>1 DEF EndpointInv, Outcome
  <2>3. ToldIsGone(socket, phase)'
    BY <1>1 DEF IInv, ToldIsGone
  <2>4. OnePerPass'
    BY <1>1 DEF IInv, OnePerPass, Connected
  <2>5. ~ Connected /\ ~ Connected' /\ state' \in States
    BY <1>1 DEF Connected, States
  <2>6. WatchesItsConnection'
    BY <1>2, <2>5 DEF IInv, WatchesItsConnection, Connected
  <2> QED BY <2>2, <2>3, <2>4, <2>5, <2>6 DEF IInv
<1>4. UNCHANGED Hooks!vars
  BY <1>1 DEF Hooks!vars, Connected
<1> QED BY <1>2, <1>3, <1>4 DEF Good

-----------------------------------------------------------------------------
(* A client in a program in which nothing fails and the server stays.       *)

ClientCalm == Calm(socket, connection, Service!Watched, todo, reading, hook, connection)
ClientChunks == Chunks(socket, reading, hook, connection)

\* connect() makes a connection that nothing has come over.
LEMMA CalmConnect ==
    ASSUME IInv, connect, ~ InPass, faults' = faults, connection = NULL, ClientCalm
    PROVE  /\ Calm(socket', connection', Service!Watched', todo', reading', hook', connection')
           /\ Chunks(socket', reading', hook', connection') = 0
           /\ UNCHANGED <<todo, reading, hook>> /\ connection' \in Conns
<1> DEFINE sk == [socket EXCEPT ![NewConn] = [st |-> "estab", pending |-> 0]]
           ph == [phase EXCEPT ![NewConn] = "served"]
<1>1. /\ EndpointInv /\ ServiceOK /\ KernelOK(socket_descriptor, socket, phase, leaked, faults)
      /\ FreeFds # {} /\ connection' = NewConn /\ UNCHANGED <<todo, reading, hook>>
      /\ todo = {} /\ reading = Idling /\ hook = NoHook
  BY DEF connect, IInv, EndpointInv, pass_vars, InPass
<1>2. ~ Fault
  BY <1>1, BoundsAssumption DEF KernelOK, Fault
<1>3. /\ NoFault /\ Service!add_socket(NewConn, NextFd) /\ Settle(Made, sk, ph)
  BY <1>2 DEF connect, connect_rest, Made
<1>4. /\ NewConn \in Conns /\ Made[NewConn] = NextFd
      /\ KernelOK(Made, sk, ph, leaked, faults')
      /\ \A c \in Conns : socket_descriptor[c] # NoFd => Made[c] = socket_descriptor[c]
      /\ sk[NewConn] = [st |-> "estab", pending |-> 0]
      /\ \A c \in Conns \ {NewConn} : sk[c] = socket[c]
  BY <1>1, <1>3, ConnectMakes
<1> HIDE DEF sk, ph
<1>5. Outcome(Made, sk, ph) /\ Service!Watched' = Service!Watched \cup {NewConn}
  BY <1>1, <1>3, <1>4, AddOutcome
<1>6. SocketsCalm(sk, connection', NewConn)
  <2>1. /\ \A c \in Conns : socket[c].st \in {"none", "listening", "estab", "eof"}
        /\ \A c \in Conns : socket[c].st = "listening" => c = NULL
        /\ \A c \in Conns : c # NULL /\ socket[c].st # "listening" => socket[c].pending = 0
    BY DEF ClientCalm, Calm, SocketsCalm
  <2> QED BY <1>4, <2>1, NullAssumption DEF SocketsCalm
<1>7. SocketsCalm(socket', connection', NewConn) /\ socket'[NewConn] = sk[NewConn]
  BY <1>4, <1>5, <1>6, CalmAfter, NullAssumption
<1>8. PassCalm(todo', reading', hook', NewConn)
  BY <1>1 DEF PassCalm, Idling, NoHook
<1>9. Chunks(socket', reading', hook', NewConn) = 0
  BY <1>1, <1>4, <1>7 DEF Chunks, Idling, NoHook
<1> QED BY <1>1, <1>4, <1>5, <1>7, <1>8, <1>9 DEF Calm

\* A pass neither loses nor doubles a chunk, and keeps the connection.
LEMMA CalmClientRuns ==
    ASSUME IInv, ClientCalm,
           \/ poll \/ Dispatch
           \/ Receive /\ faults' = faults /\ (reading.part = "body" => hook'.name = "message")
    PROVE  /\ Calm(socket', connection', Service!Watched', todo', reading', hook', connection')
           /\ Chunks(socket', reading', hook', connection') = ClientChunks
           /\ UNCHANGED connection /\ hook = NoHook
<1>1. EndpointInv /\ connection \in Conns \cup {NULL}
  BY DEF IInv, EndpointInv, PassOK
<1>2. Calm(socket, connection, Service!Watched, todo, reading, hook, connection)
  BY DEF ClientCalm
<1>3. ASSUME reading # Idling
      PROVE  reading.connection = connection /\ socket[connection].st = "estab" /\ hook = NoHook
  BY <1>2, <1>3, ReadingClient DEF Calm, SocketsCalm
<1>4. CASE poll
  <2>1. poll_service /\ connection' = connection /\ hook = NoHook
    BY <1>4 DEF poll, poll_service, owner_vars, InPass
  <2> QED BY <1>1, <1>2, <2>1, CalmPoll DEF ClientChunks
<1>5. CASE Dispatch
  <2>1. PICK e \in todo : client_trouble(e) \/ handle_client_ready_to_read(e)
    BY <1>5 DEF Dispatch
  <2>2. e.status = "NORMAL"
    BY <1>2 DEF Calm, PassCalm
  <2>3. Takes(e) /\ StartReading(e.connection)
    BY <2>1, <2>2 DEF client_trouble, handle_client_ready_to_read
  <2>4. connection' = connection /\ hook = NoHook
    BY <2>3 DEF Takes, owner_vars
  <2> QED BY <1>1, <1>2, <2>3, <2>4, CalmReady DEF ClientChunks
<1>6. CASE receive_id /\ faults' = faults
  <2>1. connection' = connection /\ reading # Idling
    BY <1>6 DEF receive_id, owner_vars, Idling
  <2> QED BY <1>1, <1>2, <1>3, <1>6, <2>1, CalmReceiveId DEF ClientChunks
<1>7. CASE receive_body /\ hook'.name = "message"
  <2>1. connection' = connection
    BY <1>7 DEF receive_body, owner_vars
  <2> QED BY <1>1, <1>2, <1>7, <2>1, CalmReceiveBody DEF ClientChunks
<1>8. ~ receive_eof
  BY <1>3 DEF receive_eof, EndOfStream
<1>9. ~ receive_throws
  BY <1>1, <1>2, <1>3, CalmNeverThrows
<1> QED BY <1>4, <1>5, <1>6, <1>7, <1>8, <1>9 DEF Receive, receive_body

-----------------------------------------------------------------------------
(* The theorems.                                                            *)

\* A new client has nothing.
LEMMA InitInvariant == Init => IInv /\ Service!Init /\ Hooks!Init
<1> SUFFICES ASSUME Init PROVE IInv /\ Service!Init /\ Hooks!Init
  OBVIOUS
<1>1. /\ EndpointInv /\ Service!Init /\ Service!Watched = {} /\ ~ InPass
      /\ state = "CLIENT_CLOSED" /\ ~ Connected
  BY InitEndpoint DEF Init, Connected
<1>2. hook = NoHook /\ phase = [c \in Conns |-> "absent"]
  BY DEF Init, EndpointInit
<1>3. IInv
  BY <1>1, <1>2 DEF IInv, OnePerPass, InPass, ToldIsGone, WatchesItsConnection, States, Connected
<1>4. Hooks!Init
  BY <1>1, <1>2 DEF Hooks!Init, Hooks!NoHook, NoHook
<1> QED BY <1>1, <1>3, <1>4

\* Every step is good.
LEMMA NextStep == IInv /\ [Next]_vars => Good
<1> SUFFICES ASSUME IInv, [Next]_vars PROVE Good
  OBVIOUS
<1>1. CASE connect
  <2>1. PICK st \in {"estab", "fresh"} :
           /\ IF st = "estab" THEN NoFault ELSE Fault
           /\ connect_rest(NewConn, NextFd, st)
           /\ Settle(Service!Created(NewConn, NextFd),
                     [socket EXCEPT ![NewConn] = [st |-> st, pending |-> 0]],
                     IF st = "estab" THEN [phase EXCEPT ![NewConn] = "served"] ELSE phase)
    BY <1>1 DEF connect
  <2>2. CASE st = "estab"
    BY <1>1, <2>1, <2>2, ConnectGood
  <2>3. CASE st = "fresh"
    BY <1>1, <2>1, <2>3, ConnectFailsGood
  <2> QED BY <2>2, <2>3
<1>2. CASE construct \/ disconnect \/ destruct
  BY <1>2, ConstructGood, DisconnectGood, DestructGood
<1>3. CASE poll \/ poll_throws
  BY <1>3, PollGood, PollThrowsGood
<1>4. CASE Dispatch
  BY <1>4, TroubleGood, ReadyGood DEF Dispatch
<1>5. CASE Receive
  BY <1>5, ReceiveIdGood, ReceiveBodyGood, ReceiveEofGood, ReceiveThrowsGood DEF Receive
<1>6. CASE hook_returns \/ hook_throws
  BY <1>6, HookReturnsGood, HookThrowsGood
<1>7. CASE \E c \in Conns : peer_sends(c) \/ peer_closes(c) \/ peer_resets(c)
  BY <1>7, PeerGood
<1>8. CASE UNCHANGED vars
  <2>1. /\ UNCHANGED <<service_vars, connection, state, todo, reading, hook, socket_descriptor,
                       phase, socket, leaked, faults>>
        /\ ServiceOK /\ KernelOK(socket_descriptor, socket', phase, leaked, faults')
    BY <1>8 DEF vars, owner_vars, pass_vars, kernel_vars, IInv, EndpointInv
  <2>2. /\ Outcome(socket_descriptor, socket', phase) /\ UNCHANGED Service!vars
        /\ Service!Watched' = Service!Watched /\ results' = results
    BY <2>1, StillOutcome
  <2>3. PassOK'
    BY <2>1, <2>2 DEF IInv, EndpointInv, PassOK, Service!Reported
  <2>4. OnePerPass'
    BY <2>1 DEF IInv, OnePerPass, InPass, Connected
  <2>5. IInv' /\ UNCHANGED Hooks!vars
    <3>1. IInv' /\ Connected' = Connected
      BY <2>1, <2>2, <2>3, <2>4, SameClient DEF IInv
    <3> QED BY <2>1, <3>1, QuietStep
  <2> QED BY <2>2, <2>5 DEF Good
<1> QED BY <1>1, <1>2, <1>3, <1>4, <1>5, <1>6, <1>7, <1>8 DEF Next

\* The state, the service, the pass and the sockets of a client are always of
\* their types.
THEOREM TypeCorrect == Spec => []TypeOK
<1>1. IInv => TypeOK
  BY EndpointTypes DEF IInv, TypeOK, States
<1> QED BY <1>1, InitInvariant, NextStep, PTL DEF Spec, Good

\* A connected client watches its connection and nothing else, a closed one
\* nothing: after failed attempts and through reconnections in hooks.
THEOREM WatchesOne == Spec => []WatchesItsConnection
<1>1. IInv => WatchesItsConnection
  BY DEF IInv
<1> QED BY <1>1, InitInvariant, NextStep, PTL DEF Spec, Good

\* The loop of poll() never meets an entry of a connection that the client has
\* replaced: InvalidSocketPollException is never thrown.
THEOREM KnowsItsEntries == Spec => []KnowsWhatItPolls
<1>1. IInv => KnowsWhatItPolls
  BY DEF IInv, OnePerPass, KnowsWhatItPolls
<1> QED BY <1>1, InitInvariant, NextStep, PTL DEF Spec, Good

\* The descriptors that a client loses are at most the resets and the attempts
\* that failed, however often it connects and disconnects.
THEOREM LosesOnlyToFaults == Spec => [](Cardinality(leaked) <= faults)
<1>1. IInv => Cardinality(leaked) <= faults
  BY LeaksArePaid DEF IInv, EndpointInv
<1> QED BY <1>1, InitInvariant, NextStep, PTL DEF Spec, Good

\* A client uses its service as PollService allows, so that all that is proved
\* of PollService holds below every client.
THEOREM UsesTheService == Spec => Service!Spec
<1> QED BY InitInvariant, NextStep, PTL DEF Spec, Good, Service!Spec

\* The hooks of a client run in the order that ClientHooks allows: no message
\* once the user was told that the connection is gone.
THEOREM ImplementsHooks == Spec => HooksSpec
<1> QED BY InitInvariant, NextStep, PTL DEF Spec, Good, HooksSpec, Hooks!Spec
=============================================================================
