---------------------------- MODULE ServerProofs ----------------------------
(***************************************************************************)
(* A server watches its listener and its clients, tells of each client as  *)
(* ServerHooks says, and loses descriptors only to faults, for any number  *)
(* of connections, descriptors, faults and chunks, whatever the hooks call *)
(* and wherever in a pass they call it.                                    *)
(***************************************************************************)
EXTENDS Server, EndpointProofs

States == {"CLOSED", "OPEN", "SERVE", "DESTRUCTING"}

\* The listening connection of a server that is open.  If it could not be
\* bound, no client can have come through it.
OwnOK(cn, st, W, hk, sk, ph) ==
    cn # NULL =>
       /\ st \in {"OPEN", "SERVE"} /\ cn \in W /\ cn # hk.client
       /\ ph[cn] = "absent" /\ sk[cn].st \in {"listening", "fresh"}
       /\ sk[cn].st = "fresh" => W = {cn}

\* What a pass meets: a client that is served, or what was the listener of this
\* server before close(), as long as nothing but a first read depends on it.
Known(c, first, sk, ph) == ph[c] = "served" \/ (first /\ sk[c].st = "listening")

\* The entries that a pass has not reached, whatever was closed, opened or
\* removed since they were found.
EntriesOK(cn, st, td, rd, hk, sk, ph) ==
    \A e \in td :
       /\ e.connection # hk.client
       /\ e.connection # cn => Known(e.connection, e.status = "NORMAL", sk, ph)
       /\ e.connection = cn =>
             /\ st = "SERVE"
             /\ sk[cn].st = "listening" => e.status = "NORMAL"
             /\ sk[cn].st = "fresh" =>
                   e.status # "NORMAL" /\ td = {e} /\ hk = NoHook /\ rd = Idling

ReadOK(cn, rd, sk, ph) ==
    rd # Idling => rd.connection # cn /\ Known(rd.connection, rd.part = "id", sk, ph)

ClientsOK(cn, W, ph) == \A c \in W \ {cn} : ph[c] = "served"

ClosedOK(cn, st, W) == st \in {"CLOSED", "DESTRUCTING"} => W = {} /\ cn = NULL

\* The parts, of a state or of the middle of a step.
ServerOK(cn, st, W, td, rd, hk, sk, ph) ==
    /\ OwnOK(cn, st, W, hk, sk, ph) /\ ClientsOK(cn, W, ph) /\ ClosedOK(cn, st, W)
    /\ EntriesOK(cn, st, td, rd, hk, sk, ph) /\ ReadOK(cn, rd, sk, ph)

DestructedOK == state = "DESTRUCTING" => ~ InPass /\ results = {}

IInv ==
    /\ EndpointInv
    /\ state \in States
    /\ ServerOK(connection, state, Service!Watched, todo, reading, hook, socket, phase)
    /\ DestructedOK

\* What LeavesWithItsHook and AcceptsOnlyWhileServing say of a step.
Leaves ==
    \A c \in Service!Watched :
       c \notin Service!Watched' /\ state' \in {"OPEN", "SERVE"} =>
          \/ hook'.client = c /\ hook'.name \in {"disconnect", "error"}
          \/ hook'.client = c /\ hook' = hook

AcceptsServing == hook = NoHook /\ hook'.name = "connect" => state = "SERVE"

\* A step keeps the invariant, uses the service within its rules, is a step of
\* ServerHooks or none, and is what the two action properties ask for.
Good ==
    /\ IInv' /\ [Service!Next]_(Service!vars) /\ [Hooks!Next]_(Hooks!vars)
    /\ Leaves /\ AcceptsServing

-----------------------------------------------------------------------------
\* What is true of what a step leaves to be kept is true after the step: the
\* server refers only to objects that exist.
LEMMA Carry ==
    ASSUME NEW sd, NEW sk, NEW ph, Outcome(sd, sk, ph), PassOK', state' \in States,
           DestructedOK',
           ServerOK(connection', state', Service!Watched', todo', reading', hook', sk, ph)
    PROVE  IInv'
<1>1. \A c \in Service!Alive' : socket'[c] = sk[c] /\ phase'[c] = ph[c]
  BY DEF Outcome
<1>2. /\ connection' # NULL => connection' \in Service!Alive'
      /\ Service!Watched' \subseteq Service!Alive'
      /\ \A e \in todo' : e.connection \in Service!Alive'
      /\ reading' # Idling => reading'.connection \in Service!Alive'
  <2>1. Service!Alive' = owned' \cup Service!Watched' \cup Service!Reported'
    BY DEF Outcome, ServiceOK
  <2>2. \A e \in todo' : e.connection \in Service!Reported'
    BY DEF PassOK, Service!Reported
  <2>3. connection' # NULL => connection' \in owned'
    BY DEF owned
  <2>4. reading' # Idling => reading'.connection \in Service!Reported'
    BY DEF PassOK
  <2> QED BY <2>1, <2>2, <2>3, <2>4
<1>3. OwnOK(connection, state, Service!Watched, hook, socket, phase)'
  BY <1>1, <1>2 DEF ServerOK, OwnOK
<1>4. EntriesOK(connection, state, todo, reading, hook, socket, phase)'
  <2> SUFFICES ASSUME NEW e \in todo'
               PROVE  /\ e.connection # hook'.client
                      /\ e.connection # connection' => Known(e.connection, e.status = "NORMAL", socket', phase')
                      /\ e.connection = connection' =>
                            /\ state' = "SERVE"
                            /\ socket'[connection'].st = "listening" => e.status = "NORMAL"
                            /\ socket'[connection'].st = "fresh" =>
                                  e.status # "NORMAL" /\ todo' = {e} /\ hook' = NoHook /\ reading' = Idling
    BY DEF EntriesOK, Known
  <2>1. socket'[e.connection] = sk[e.connection] /\ phase'[e.connection] = ph[e.connection]
    BY <1>1, <1>2
  <2> QED BY <2>1 DEF ServerOK, EntriesOK, Known
<1>5. ReadOK(connection, reading, socket, phase)'
  BY <1>1, <1>2 DEF ServerOK, ReadOK, Known
<1>6. ClientsOK(connection, Service!Watched, phase)'
  BY <1>1, <1>2 DEF ServerOK, ClientsOK
<1>7. ClosedOK(connection, state, Service!Watched)'
  BY DEF ServerOK, ClosedOK
<1>8. ServerOK(connection, state, Service!Watched, todo, reading, hook, socket, phase)'
  BY <1>3, <1>4, <1>5, <1>6, <1>7 DEF ServerOK, OwnOK, EntriesOK, ReadOK, ClientsOK, ClosedOK, Known
<1>9. EndpointInv'
  BY DEF Outcome, EndpointInv
<1> QED BY <1>8, <1>9 DEF IInv

\* Sockets that listen, or could not, stay so.
Keeps(sk) == \A c \in Conns : socket[c].st \in {"listening", "fresh"} => sk[c].st = socket[c].st

\* A change of other sockets does not matter to the server.
LEMMA OtherSockets ==
    ASSUME NEW cn \in Conns \cup {NULL}, NEW st, NEW W, NEW td, NEW rd, NEW hk, NEW sk, NEW ph,
           ServerOK(cn, st, W, td, rd, hk, socket, ph), Keeps(sk),
           \A e \in td : e.connection \in Conns, rd # Idling => rd.connection \in Conns
    PROVE  ServerOK(cn, st, W, td, rd, hk, sk, ph)
<1>1. cn # NULL => sk[cn].st = socket[cn].st
  BY DEF ServerOK, OwnOK, Keeps
<1>2. OwnOK(cn, st, W, hk, sk, ph)
  BY <1>1 DEF ServerOK, OwnOK
<1>3. EntriesOK(cn, st, td, rd, hk, sk, ph)
  <2> SUFFICES ASSUME NEW e \in td
               PROVE  /\ e.connection # hk.client
                      /\ e.connection # cn => Known(e.connection, e.status = "NORMAL", sk, ph)
                      /\ e.connection = cn =>
                            /\ st = "SERVE"
                            /\ sk[cn].st = "listening" => e.status = "NORMAL"
                            /\ sk[cn].st = "fresh" =>
                                  e.status # "NORMAL" /\ td = {e} /\ hk = NoHook /\ rd = Idling
    BY DEF EntriesOK
  <2>1. e.connection \in Conns
    OBVIOUS
  <2>2. e.connection = cn => sk[cn].st = socket[cn].st
    BY <1>1, <2>1, NullAssumption
  <2> QED BY <2>1, <2>2 DEF ServerOK, EntriesOK, Known, Keeps
<1>4. ReadOK(cn, rd, sk, ph)
  BY DEF ServerOK, ReadOK, Known, Keeps
<1> QED BY <1>2, <1>3, <1>4 DEF ServerOK

\* What the user was told is only forgotten of objects that are gone.
LEMMA ToldOutcome ==
    ASSUME NEW sd, NEW sk, NEW ph, Outcome(sd, sk, ph)
    PROVE  Hooks!Told(ph)
<1>1. phase' \in [Conns -> {"absent", "served", "gone"}]
  BY DEF Outcome, KernelOK
<1>2. ASSUME NEW c \in Conns
      PROVE  phase'[c] = ph[c] \/ (phase'[c] = "absent" /\ c # hook'.client)
  <2>1. CASE c \in Service!Alive'
    BY <2>1 DEF Outcome
  <2>2. CASE c \notin Service!Alive'
    <3>1. phase'[c] = "absent"
      BY <2>2 DEF Outcome, KernelOK, Service!Alive
    <3>2. c # hook'.client
      <4>1. owned' \subseteq Service!Alive'
        BY DEF Outcome, ServiceOK
      <4> QED BY <2>2, <4>1, NullAssumption DEF owned
    <3> QED BY <3>1, <3>2
  <2> QED BY <2>1, <2>2
<1> QED BY <1>1, <1>2 DEF Hooks!Told

\* The objects that a pass refers to.
LEMMA PassRefers ==
    ASSUME ServiceOK, PassOK
    PROVE  /\ \A e \in todo : e.connection \in Conns /\ e.connection \in Service!Reported
           /\ reading # Idling => reading.connection \in Conns
           /\ connection \in Conns \cup {NULL} /\ hook.client \in Conns \cup {NULL}
           /\ \A e1, e2 \in todo : e1.connection = e2.connection => e1 = e2
<1>1. results \subseteq [connection : Conns, status : Service!Statuses]
  BY ServiceFacts
<1> QED BY <1>1 DEF ServiceOK, PassOK, Service!Reported

\* A step that leaves the connections as they are, and changes the pass.
LEMMA SameServer ==
    ASSUME IInv, NEW sk, Outcome(socket_descriptor, sk, phase), Keeps(sk), PassOK', DestructedOK',
           UNCHANGED <<state, connection>>, Service!Watched' = Service!Watched,
           EntriesOK(connection, state, todo', reading', hook', socket, phase),
           ReadOK(connection, reading', socket, phase),
           connection # NULL => connection # hook'.client
    PROVE  IInv' /\ Hooks!Told(phase) /\ Leaves
<1>1. OwnOK(connection, state, Service!Watched, hook', socket, phase)
  BY DEF IInv, ServerOK, OwnOK
<1>2. ServerOK(connection, state, Service!Watched, todo', reading', hook', socket, phase)
  BY <1>1 DEF IInv, ServerOK
<1>3. (\A e \in todo' : e.connection \in Conns) /\ (reading' # Idling => reading'.connection \in Conns)
  <2>1. ServiceOK'
    BY DEF Outcome
  <2>2. results' \subseteq [connection : Conns, status : Service!Statuses]
    BY <2>1, SameServiceNext DEF ServiceOK, Proved!IInv, Proved!TypeOK, Service!Statuses, Proved!Statuses
  <2> QED BY <2>2 DEF PassOK
<1>4. connection \in Conns \cup {NULL}
  BY DEF IInv, EndpointInv, PassOK
<1>5. ServerOK(connection, state, Service!Watched, todo', reading', hook', sk, phase)
  BY <1>2, <1>3, <1>4, OtherSockets
<1>6. ServerOK(connection', state', Service!Watched', todo', reading', hook', sk, phase)
  BY <1>5
<1>7. IInv'
  BY <1>6, Carry DEF IInv
<1> QED BY <1>7, ToldOutcome DEF Leaves

-----------------------------------------------------------------------------
(* The pass.                                                                *)

\* poll() finds the listener readable, or what could not listen hung up, and
\* clients that are served.
LEMMA PollGood ==
    ASSUME IInv, poll
    PROVE  Good
<1>1. EndpointInv /\ poll_service /\ state = "SERVE"
  BY DEF IInv, poll
<1>2. /\ Outcome(socket_descriptor, socket, phase) /\ PassOK' /\ Service!Next
      /\ Service!Watched' = Service!Watched
      /\ \A e \in results' :
            LET flags == Readiness(socket[e.connection])
            IN /\ e.connection \in Service!Watched
               /\ flags # {} /\ e.status = Service!Status(flags)
  BY <1>1, PollStep
<1>3. /\ todo = {} /\ reading = Idling /\ hook = NoHook /\ todo' = results' /\ reading' = Idling
      /\ UNCHANGED <<state, connection>>
      /\ hook' = IF results' = {} THEN [name |-> "poll_timeout", client |-> NULL] ELSE NoHook
  BY <1>1 DEF poll_service, InPass, owner_vars
<1>4. OwnOK(connection, state, Service!Watched, hook, socket, phase)
      /\ ClientsOK(connection, Service!Watched, phase)
  BY DEF IInv, ServerOK
<1>5. hook'.client = NULL /\ (results' # {} => hook' = NoHook)
  BY <1>3 DEF NoHook
<1>6. EntriesOK(connection, state, todo', reading', hook', socket, phase)
  <2> SUFFICES ASSUME NEW e \in results'
               PROVE  /\ e.connection # hook'.client
                      /\ e.connection # connection => Known(e.connection, e.status = "NORMAL", socket, phase)
                      /\ e.connection = connection =>
                            /\ state = "SERVE"
                            /\ socket[connection].st = "listening" => e.status = "NORMAL"
                            /\ socket[connection].st = "fresh" =>
                                  e.status # "NORMAL" /\ todo' = {e} /\ hook' = NoHook /\ reading' = Idling
    BY <1>3 DEF EntriesOK
  <2>1. e.connection \in Service!Watched /\ e.connection \in Conns
    <3>1. ServiceOK
      BY <1>1 DEF EndpointInv
    <3> QED BY <1>2, <3>1, ServiceFacts
  <2>2. e.connection # NULL
    BY <2>1, NullAssumption
  <2>3. e.connection # connection => phase[e.connection] = "served"
    BY <1>4, <2>1 DEF ClientsOK
  <2>4. ASSUME e.connection = connection, socket[connection].st = "listening"
        PROVE  e.status = "NORMAL"
    BY <1>2, <2>4 DEF Readiness, Service!Status
  <2>5. ASSUME e.connection = connection, socket[connection].st = "fresh"
        PROVE  e.status # "NORMAL" /\ todo' = {e}
    <3>1. e.status # "NORMAL"
      BY <1>2, <2>5 DEF Readiness, Service!Status
    <3>2. Service!Watched = {connection}
      BY <1>4, <2>2, <2>5 DEF OwnOK
    <3>3. \A e2 \in results' : e2 = e
      BY <1>2, <2>5, <3>2 DEF Outcome, ServiceOK
    <3> QED BY <1>3, <3>1, <3>3
  <2> QED BY <1>1, <1>3, <1>5, <2>2, <2>3, <2>4, <2>5 DEF Known
<1>7. ReadOK(connection, reading', socket, phase) /\ Keeps(socket) /\ DestructedOK'
  BY <1>1, <1>3 DEF ReadOK, Keeps, DestructedOK
<1>8. IInv' /\ Hooks!Told(phase) /\ Leaves
  BY <1>2, <1>3, <1>5, <1>6, <1>7, SameServer
<1>9. [Hooks!Next]_(Hooks!vars) /\ AcceptsServing
  <2>1. CASE results' = {}
    <3>1. Hooks!Other
      BY <1>3, <1>8, <2>1 DEF Hooks!Other, Hooks!ServerHookNames, Hooks!Call, Hooks!NoHook, NoHook
    <3> QED BY <1>3, <2>1, <3>1 DEF Hooks!Next, AcceptsServing
  <2>2. CASE results' # {}
    <3>1. Hooks!Forget
      BY <1>3, <1>8, <2>2 DEF Hooks!Forget
    <3> QED BY <1>3, <2>2, <3>1 DEF Hooks!Next, AcceptsServing, NoHook
  <2> QED BY <2>1, <2>2
<1> QED BY <1>2, <1>8, <1>9 DEF Good

\* The call of the OS fails.
LEMMA PollThrowsGood ==
    ASSUME IInv, poll_throws
    PROVE  Good
<1>1. EndpointInv /\ poll_service_throws /\ state = "SERVE"
  BY DEF IInv, poll_throws
<1>2. /\ Outcome(socket_descriptor, socket, phase) /\ PassOK' /\ Service!Next
      /\ Service!Watched' = Service!Watched
  BY <1>1, PollThrowsStep
<1>3. UNCHANGED <<state, connection, todo, reading, hook>>
  BY <1>1 DEF poll_service_throws, owner_vars, pass_vars
<1>4. /\ EntriesOK(connection, state, todo', reading', hook', socket, phase)
      /\ ReadOK(connection, reading', socket, phase) /\ Keeps(socket) /\ DestructedOK'
      /\ connection # NULL => connection # hook'.client
  BY <1>1, <1>3 DEF IInv, ServerOK, OwnOK, EntriesOK, ReadOK, Keeps, DestructedOK
<1>5. IInv' /\ Hooks!Told(phase) /\ Leaves
  BY <1>2, <1>3, <1>4, SameServer
<1>6. Hooks!Forget /\ AcceptsServing
  BY <1>3, <1>5 DEF Hooks!Forget, AcceptsServing, NoHook
<1> QED BY <1>2, <1>5, <1>6 DEF Good, Hooks!Next

\* A hook returns to the loop.
LEMMA HookReturnsGood ==
    ASSUME IInv, hook_returns
    PROVE  Good
<1>1. EndpointInv /\ PassOK /\ ServiceOK
  BY DEF IInv, EndpointInv
<1>2. /\ Outcome(socket_descriptor, socket, phase) /\ PassOK' /\ Service!Next
      /\ Service!Watched' = Service!Watched
  BY <1>1, HookReturnsStep
<1>3. /\ hook # NoHook /\ hook' = NoHook /\ hook'.client = NULL
      /\ UNCHANGED <<state, connection, todo, reading>>
  BY DEF hook_returns, owner_vars, NoHook
<1>4. EntriesOK(connection, state, todo', reading', hook', socket, phase)
  <2>1. EntriesOK(connection, state, todo, reading, hook, socket, phase)
    BY DEF IInv, ServerOK
  <2>2. \A e \in todo : e.connection # NULL
    BY <1>1, PassRefers, NullAssumption
  <2> QED BY <1>3, <2>1, <2>2 DEF EntriesOK
<1>5. /\ ReadOK(connection, reading', socket, phase) /\ Keeps(socket) /\ DestructedOK'
      /\ connection # NULL => connection # hook'.client
  BY <1>3 DEF IInv, ServerOK, ReadOK, Keeps, DestructedOK, InPass
<1>6. IInv' /\ Hooks!Told(phase) /\ Leaves
  BY <1>2, <1>3, <1>4, <1>5, SameServer
<1>7. Hooks!Return /\ AcceptsServing
  BY <1>3, <1>6 DEF Hooks!Return, AcceptsServing, NoHook, Hooks!NoHook
<1> QED BY <1>2, <1>6, <1>7 DEF Good, Hooks!Next

\* A hook throws, and the pass ends.
LEMMA HookThrowsGood ==
    ASSUME IInv, hook_throws
    PROVE  Good
<1>1. EndpointInv
  BY DEF IInv
<1>2. /\ Outcome(socket_descriptor, socket, phase) /\ PassOK' /\ Service!Next
      /\ Service!Watched' = Service!Watched /\ hook # NoHook
      /\ todo' = {} /\ reading' = Idling /\ hook' = NoHook /\ hook'.client = NULL
  BY <1>1, HookThrowsStep DEF NoHook
<1>3. UNCHANGED <<state, connection>>
  BY DEF hook_throws, owner_vars
<1>4. /\ EntriesOK(connection, state, todo', reading', hook', socket, phase)
      /\ ReadOK(connection, reading', socket, phase) /\ Keeps(socket) /\ DestructedOK'
      /\ connection # NULL => connection # hook'.client
  BY <1>2, <1>3 DEF EntriesOK, ReadOK, Keeps, DestructedOK, IInv, ServerOK, OwnOK, InPass
<1>5. IInv' /\ Hooks!Told(phase) /\ Leaves
  BY <1>2, <1>3, <1>4, SameServer
<1>6. Hooks!Return /\ AcceptsServing
  BY <1>2, <1>5 DEF Hooks!Return, AcceptsServing, NoHook, Hooks!NoHook
<1> QED BY <1>2, <1>5, <1>6 DEF Good, Hooks!Next

\* What a server that reads knows: no entry of a connection that could not be
\* bound waits, and what it reads is not the listener.
LEMMA ReadingServer ==
    ASSUME IInv, reading # Idling
    PROVE  /\ reading.connection \in Conns /\ reading.connection # connection /\ hook = NoHook
           /\ Known(reading.connection, reading.part = "id", socket, phase)
           /\ state # "DESTRUCTING"
           /\ \A e \in todo : /\ e.connection # reading.connection
                              /\ e.connection = connection => socket[connection].st # "fresh"
<1>1. /\ reading.connection # connection
      /\ Known(reading.connection, reading.part = "id", socket, phase)
      /\ \A e \in todo : e.connection = connection => socket[connection].st # "fresh"
  BY DEF IInv, ServerOK, ReadOK, EntriesOK
<1>2. reading.connection \in Conns /\ hook = NoHook /\ \A e \in todo : e.connection # reading.connection
  BY ReadingExists DEF IInv, EndpointInv, PassOK
<1>3. state # "DESTRUCTING"
  BY DEF IInv, DestructedOK, InPass
<1> QED BY <1>1, <1>2, <1>3

\* What is left of the entries while no connection that could not be bound is
\* among them.
LEMMA FewerEntries ==
    ASSUME EntriesOK(connection, state, todo, reading, hook, socket, phase),
           NEW td \in SUBSET todo, NEW rd, NEW hk,
           \A e \in td : /\ e.connection # hk.client
                         /\ e.connection = connection => socket[connection].st # "fresh"
    PROVE  EntriesOK(connection, state, td, rd, hk, socket, phase)
<1> QED BY DEF EntriesOK

\* The id of a channel is received, or an unknown one ends the pass.
LEMMA ReceiveIdGood ==
    ASSUME IInv, receive_id
    PROVE  Good
<1> DEFINE sk == Consumed(reading.connection)
<1>1. EndpointInv
  BY DEF IInv
<1>2. /\ Outcome(socket_descriptor, sk, phase) /\ PassOK' /\ Service!Next
      /\ Service!Watched' = Service!Watched
      /\ reading # Idling /\ hook' = NoHook /\ todo' \subseteq todo
      /\ reading' # Idling => reading'.connection = reading.connection
      /\ socket[reading.connection].st # "listening"
  BY <1>1, ReceiveIdStep
<1>3. UNCHANGED <<state, connection>>
  BY DEF receive_id, owner_vars
<1>4. /\ reading.connection \in Conns /\ reading.connection # connection /\ hook = NoHook
      /\ Known(reading.connection, reading.part = "id", socket, phase)
      /\ state # "DESTRUCTING"
      /\ \A e \in todo : e.connection = connection => socket[connection].st # "fresh"
  BY <1>2, ReadingServer
<1>5. Keeps(sk)
  BY <1>1, <1>4 DEF Keeps, Consumed, EndpointInv, KernelOK
<1> HIDE DEF sk
<1>6. EntriesOK(connection, state, todo', reading', hook', socket, phase)
  <2>1. \A e \in todo : e.connection # hook.client
    BY DEF IInv, ServerOK, EntriesOK
  <2> QED BY <1>2, <1>4, <2>1, FewerEntries DEF IInv, ServerOK
<1>7. ReadOK(connection, reading', socket, phase) /\ DestructedOK'
  BY <1>2, <1>3, <1>4 DEF ReadOK, Known, DestructedOK
<1>8. connection # NULL => connection # hook'.client
  BY <1>2, <1>4 DEF IInv, ServerOK, OwnOK
<1>9. IInv' /\ Hooks!Told(phase) /\ Leaves
  BY <1>2, <1>3, <1>5, <1>6, <1>7, <1>8, SameServer
<1>10. Hooks!Forget /\ AcceptsServing
  BY <1>2, <1>4, <1>9 DEF Hooks!Forget, AcceptsServing, NoHook
<1> QED BY <1>2, <1>9, <1>10 DEF Good, Hooks!Next

\* The body is received: only a client that is served gets so far.
LEMMA ReceiveBodyGood ==
    ASSUME IInv, receive_body
    PROVE  Good
<1> DEFINE sk == Consumed(reading.connection)
           r == reading.connection
<1>1. EndpointInv
  BY DEF IInv
<1>2. /\ Outcome(socket_descriptor, sk, phase) /\ PassOK' /\ Service!Next
      /\ Service!Watched' = Service!Watched
      /\ reading # Idling /\ reading.part = "body" /\ reading' = Idling /\ todo' = todo
      /\ hook' \in {hook, [name |-> "message", client |-> r]}
  BY <1>1, ReceiveBodyStep
<1>3. UNCHANGED <<state, connection>>
  BY DEF receive_body, owner_vars
<1>4. /\ r \in Conns /\ r # connection /\ hook = NoHook
      /\ phase[r] = "served" /\ state # "DESTRUCTING"
      /\ \A e \in todo : e.connection # r /\ (e.connection = connection => socket[connection].st # "fresh")
  BY <1>2, ReadingServer DEF Known
<1>5. Keeps(sk)
  BY <1>1, <1>4 DEF Keeps, Consumed, EndpointInv, KernelOK
<1> HIDE DEF sk, r
<1>6. EntriesOK(connection, state, todo', reading', hook', socket, phase)
  <2>1. \A e \in todo : e.connection # hook.client /\ e.connection # hook'.client
    BY <1>2, <1>4 DEF IInv, ServerOK, EntriesOK
  <2> QED BY <1>2, <1>4, <2>1, FewerEntries DEF IInv, ServerOK
<1>7. ReadOK(connection, reading', socket, phase) /\ DestructedOK'
  BY <1>2, <1>3, <1>4 DEF ReadOK, DestructedOK
<1>8. connection # NULL => connection # hook'.client
  BY <1>2, <1>4 DEF IInv, ServerOK, OwnOK
<1>9. IInv' /\ Hooks!Told(phase) /\ Leaves
  BY <1>2, <1>3, <1>5, <1>6, <1>7, <1>8, SameServer
<1>10. [Hooks!Next]_(Hooks!vars) /\ AcceptsServing
  <2>1. CASE hook' = hook
    <3>1. Hooks!Forget
      BY <1>9, <2>1 DEF Hooks!Forget
    <3> QED BY <1>4, <2>1, <3>1 DEF Hooks!Next, AcceptsServing, NoHook
  <2>2. CASE hook' = [name |-> "message", client |-> r]
    <3>1. Hooks!Message(r)
      BY <1>4, <1>9, <2>2 DEF Hooks!Message, Hooks!Call, Hooks!NoHook, NoHook
    <3> QED BY <1>4, <2>2, <3>1 DEF Hooks!Next, AcceptsServing
  <2> QED BY <1>2, <2>1, <2>2
<1> QED BY <1>2, <1>9, <1>10 DEF Good

\* receive() throws, as it does for a socket that listens.
LEMMA ReceiveThrowsGood ==
    ASSUME IInv, receive_throws
    PROVE  Good
<1> DEFINE sk == ErrorRead(reading.connection)
<1>1. EndpointInv
  BY DEF IInv
<1>2. /\ Outcome(socket_descriptor, sk, phase) /\ PassOK' /\ Service!Next
      /\ Service!Watched' = Service!Watched
      /\ reading # Idling /\ todo' = {} /\ reading' = Idling /\ hook' = NoHook /\ hook = NoHook
      /\ \A c \in Conns : sk[c].st = IF c = reading.connection /\ socket[c].st = "reset"
                                     THEN "hup" ELSE socket[c].st
  BY <1>1, ReceiveThrowsStep
<1>3. UNCHANGED <<state, connection>>
  BY DEF receive_throws, owner_vars
<1>4. state # "DESTRUCTING"
  BY <1>2, ReadingServer
<1> HIDE DEF sk
<1>5. Keeps(sk)
  BY <1>2 DEF Keeps
<1>6. /\ EntriesOK(connection, state, todo', reading', hook', socket, phase)
      /\ ReadOK(connection, reading', socket, phase) /\ DestructedOK'
  BY <1>2, <1>3, <1>4 DEF EntriesOK, ReadOK, DestructedOK
<1>7. connection # NULL => connection # hook'.client
  BY <1>2 DEF IInv, ServerOK, OwnOK
<1>8. IInv' /\ Hooks!Told(phase) /\ Leaves
  BY <1>2, <1>3, <1>5, <1>6, <1>7, SameServer
<1>9. Hooks!Forget /\ AcceptsServing
  BY <1>2, <1>8 DEF Hooks!Forget, AcceptsServing, NoHook
<1> QED BY <1>2, <1>8, <1>9 DEF Good, Hooks!Next

\* A client is taken out of the service and its last hook runs.
LEMMA DropGood ==
    ASSUME IInv, NEW c \in Conns, NEW name \in {"disconnect", "error"}, drop_client(c, name),
           c \in Service!Reported, c # connection, phase[c] = "served", hook = NoHook,
           UNCHANGED <<state, connection, faults>>, state # "DESTRUCTING",
           todo' \subseteq todo, reading' = Idling,
           \A e \in todo' : /\ e.connection # c
                            /\ e.connection = connection => socket[connection].st # "fresh"
    PROVE  Good
<1> DEFINE ph == [phase EXCEPT ![c] = "gone"]
<1>1. ServiceOK /\ KernelOK(socket_descriptor, socket, phase, leaked, faults) /\ PassOK
  BY DEF IInv, EndpointInv
<1>2. /\ hook' = [name |-> name, client |-> c] /\ Service!remove_socket(c)
      /\ Settle(socket_descriptor, socket, ph)
  BY DEF drop_client, removeFromPollService, Call
<1>3. ph[c] = "gone" /\ \A d \in Conns \ {c} : ph[d] = phase[d]
  BY <1>1 DEF KernelOK
<1>4. KernelOK(socket_descriptor, socket, ph, leaked, faults')
  <2>1. socket_descriptor[c] # NoFd
    BY <1>1, ServiceFacts, NoFdAssumption
  <2> QED BY <1>1, <2>1, PhaseChange
<1> HIDE DEF ph
<1>5. /\ Outcome(socket_descriptor, socket, ph) /\ Service!RemoveSocket(c)
      /\ Service!Watched' = Service!Watched \ {c} /\ results' = results
  BY <1>1, <1>2, <1>4, RemoveOutcome
<1>6. PassOK'
  <2>1. hook' \in [name : HookNames, client : Conns \cup {NULL}]
    BY <1>2 DEF HookNames
  <2> QED BY <1>1, <1>5, <2>1 DEF PassOK
<1>7. connection # NULL => connection \in Conns
  BY <1>1 DEF PassOK
<1>8. OwnOK(connection, state, Service!Watched', hook', socket, ph)
  BY <1>2, <1>3, <1>5, <1>7 DEF IInv, ServerOK, OwnOK
<1>9. ClientsOK(connection, Service!Watched', ph)
  <2>1. Service!Watched' \subseteq Conns \ {c}
    BY <1>1, <1>5, ServiceFacts
  <2> QED BY <1>3, <1>5, <2>1 DEF IInv, ServerOK, ClientsOK
<1>10. EntriesOK(connection, state, todo', reading', hook', socket, ph)
  <2>1. \A e \in todo' : e.connection \in Conns /\ ph[e.connection] = phase[e.connection]
    BY <1>1, <1>3, PassRefers
  <2>2. \A e \in todo' : e.connection # hook'.client
    BY <1>2
  <2>3. EntriesOK(connection, state, todo', reading', hook', socket, phase)
    BY <2>2, FewerEntries DEF IInv, ServerOK
  <2> QED BY <2>1, <2>3 DEF EntriesOK, Known
<1>11. /\ ReadOK(connection, reading', socket, ph) /\ ClosedOK(connection, state, Service!Watched')
       /\ DestructedOK'
  BY <1>5 DEF IInv, ServerOK, ReadOK, ClosedOK, DestructedOK
<1>12. ServerOK(connection', state', Service!Watched', todo', reading', hook', socket, ph)
  BY <1>8, <1>9, <1>10, <1>11 DEF ServerOK
<1>13. IInv'
  BY <1>5, <1>6, <1>11, <1>12, Carry DEF IInv
<1>14. Hooks!Gone(c)
  <2>1. Hooks!Told(ph)
    BY <1>5, ToldOutcome
  <2> QED BY <1>2, <2>1 DEF Hooks!Gone, Hooks!Call, Hooks!NoHook, NoHook, ph
<1>15. Leaves /\ AcceptsServing
  BY <1>2, <1>5 DEF Leaves, AcceptsServing
<1>16. Service!Next
  BY <1>5 DEF Service!Next
<1> QED BY <1>13, <1>14, <1>15, <1>16 DEF Good, Hooks!Next

\* The end of the stream of a client.
LEMMA ReceiveEofGood ==
    ASSUME IInv, receive_eof
    PROVE  Good
<1> DEFINE r == reading.connection
<1>1. /\ reading # Idling /\ socket[r].st \in {"eof", "hup", "aborted"} /\ reading' = Idling
      /\ UNCHANGED <<state, connection, faults>> /\ todo' = todo
      /\ drop_client(r, "disconnect")
  BY DEF receive_eof, EndOfStream, owner_vars, NoFault
<1>2. /\ r \in Conns /\ r # connection /\ hook = NoHook
      /\ phase[r] = "served" /\ state # "DESTRUCTING"
      /\ \A e \in todo : e.connection # r /\ (e.connection = connection => socket[connection].st # "fresh")
  BY <1>1, ReadingServer DEF Known
<1>3. r \in Service!Reported
  BY <1>1, ReadingExists DEF IInv
<1> HIDE DEF r
<1> QED BY <1>1, <1>2, <1>3, DropGood

\* What a pass knows of the entry it takes, and of those it leaves.
LEMMA TakenEntry ==
    ASSUME IInv, NEW e \in todo, Takes(e)
    PROVE  /\ e.connection \in Conns /\ e.connection \in Service!Reported
           /\ hook = NoHook /\ reading = Idling /\ UNCHANGED <<state, connection>>
           /\ state # "DESTRUCTING" /\ todo' = todo \ {e} /\ todo' \subseteq todo
           /\ \A d \in todo' : /\ d.connection # e.connection /\ d.connection # NULL
                               /\ d.connection = connection => socket[connection].st # "fresh"
           /\ e.connection # connection => Known(e.connection, e.status = "NORMAL", socket, phase)
           /\ e.connection = connection => /\ state = "SERVE"
                                           /\ socket[connection].st \in {"listening", "fresh"}
                                           /\ e.status = "NORMAL" <=> socket[connection].st = "listening"
<1>1. /\ hook = NoHook /\ reading = Idling /\ UNCHANGED <<state, connection>>
      /\ todo' = todo \ {e}
  BY DEF Takes, owner_vars
<1>2. state # "DESTRUCTING"
  BY DEF IInv, DestructedOK, InPass
<1>3. /\ e.connection \in Conns /\ e.connection \in Service!Reported /\ e.connection # NULL
      /\ \A d \in todo \ {e} : d.connection # e.connection /\ d.connection # NULL
  BY PassRefers, NullAssumption DEF IInv, EndpointInv
<1>4. EntriesOK(connection, state, todo, reading, hook, socket, phase)
  BY DEF IInv, ServerOK
<1>5. \A d \in todo \ {e} : d.connection = connection => socket[connection].st # "fresh"
  <2> SUFFICES ASSUME NEW d \in todo, d # e, d.connection = connection, socket[connection].st = "fresh"
               PROVE  FALSE
    OBVIOUS
  <2>1. todo = {d}
    BY <1>4 DEF EntriesOK
  <2> QED BY <2>1
<1>6. e.connection = connection => /\ state = "SERVE"
                                   /\ socket[connection].st \in {"listening", "fresh"}
                                   /\ e.status = "NORMAL" <=> socket[connection].st = "listening"
  BY <1>3, <1>4 DEF EntriesOK, IInv, ServerOK, OwnOK
<1> QED BY <1>1, <1>2, <1>3, <1>4, <1>5, <1>6 DEF EntriesOK

\* handle_client_error and handle_client_disconnect.
LEMMA ClientTroubleGood ==
    ASSUME IInv, NEW e \in todo, client_trouble(e)
    PROVE  Good
<1>1. /\ Takes(e) /\ e.connection # connection /\ e.status # "NORMAL"
      /\ reading' = reading /\ faults' = faults
      /\ \E name \in {"disconnect", "error"} : drop_client(e.connection, name)
  BY DEF client_trouble, server_connection, NoFault
<1>2. /\ e.connection \in Conns /\ e.connection \in Service!Reported
      /\ hook = NoHook /\ reading = Idling /\ UNCHANGED <<state, connection>>
      /\ state # "DESTRUCTING" /\ todo' \subseteq todo
      /\ \A d \in todo' : /\ d.connection # e.connection
                          /\ d.connection = connection => socket[connection].st # "fresh"
      /\ phase[e.connection] = "served"
  BY <1>1, TakenEntry DEF Known
<1> QED BY <1>1, <1>2, DropGood

\* handle_ready_to_read: a client, or what was the listener, is read.
LEMMA ReadyGood ==
    ASSUME IInv, NEW e \in todo, handle_ready_to_read(e)
    PROVE  Good
<1>1. /\ Takes(e) /\ e.connection # connection /\ e.status = "NORMAL"
      /\ reading' = [connection |-> e.connection, part |-> "id"]
      /\ UNCHANGED <<service_vars, hook, socket_descriptor, phase, socket, leaked, faults>>
  BY DEF handle_ready_to_read, StartReading, server_connection, kernel_vars, NoFault
<1>2. /\ e.connection \in Conns /\ e.connection \in Service!Reported
      /\ hook = NoHook /\ UNCHANGED <<state, connection>>
      /\ state # "DESTRUCTING" /\ todo' \subseteq todo
      /\ \A d \in todo' : /\ d.connection # e.connection /\ d.connection # NULL
                          /\ d.connection = connection => socket[connection].st # "fresh"
      /\ Known(e.connection, TRUE, socket, phase)
  BY <1>1, TakenEntry
<1>3. ServiceOK /\ PassOK /\ KernelOK(socket_descriptor, socket', phase, leaked, faults')
  BY <1>1 DEF IInv, EndpointInv
<1>4. /\ Outcome(socket_descriptor, socket, phase) /\ UNCHANGED Service!vars
      /\ Service!Watched' = Service!Watched /\ results' = results
  BY <1>1, <1>2, <1>3, StillOutcome
<1>5. PassOK'
  <2>1. e.connection \in Service!Reported'
    BY <1>2, <1>4 DEF Service!Reported
  <2>2. reading' \in [connection : Conns, part : {"id", "body"}]
    BY <1>1, <1>2
  <2> QED BY <1>1, <1>2, <1>3, <1>4, <2>1, <2>2 DEF PassOK
<1>6. EntriesOK(connection, state, todo', reading', hook', socket, phase)
  <2>1. hook'.client = NULL
    BY <1>1, <1>2 DEF NoHook
  <2> QED BY <1>2, <2>1, FewerEntries DEF IInv, ServerOK
<1>7. /\ ReadOK(connection, reading', socket, phase) /\ Keeps(socket) /\ DestructedOK'
      /\ connection # NULL => connection # hook'.client
  BY <1>1, <1>2 DEF ReadOK, Known, Keeps, DestructedOK, IInv, ServerOK, OwnOK
<1>8. IInv' /\ Hooks!Told(phase) /\ Leaves
  BY <1>2, <1>4, <1>5, <1>6, <1>7, SameServer
<1>9. Hooks!Forget /\ AcceptsServing
  BY <1>1, <1>2, <1>8 DEF Hooks!Forget, AcceptsServing, NoHook
<1> QED BY <1>4, <1>8, <1>9 DEF Good, Hooks!Next

\* handle_server_connection_error and handle_server_disconnect.
LEMMA ServerTroubleGood ==
    ASSUME IInv, NEW e \in todo, server_trouble(e)
    PROVE  Good
<1>1. /\ Takes(e) /\ UNCHANGED <<service_vars, reading, faults>> /\ SettleAsIs
      /\ \E name \in {"server_error", "server_disconnect"} : hook' = [name |-> name, client |-> NULL]
  BY DEF server_trouble, Call, NoFault
<1>2. PICK name \in {"server_error", "server_disconnect"} : hook' = [name |-> name, client |-> NULL]
  BY <1>1
<1>3. /\ hook = NoHook /\ reading = Idling /\ UNCHANGED <<state, connection>>
      /\ state # "DESTRUCTING" /\ todo' \subseteq todo
      /\ \A d \in todo' : /\ d.connection # NULL
                          /\ d.connection = connection => socket[connection].st # "fresh"
  BY <1>1, TakenEntry
<1>4. ServiceOK /\ PassOK /\ KernelOK(socket_descriptor, socket, phase, leaked, faults')
  BY <1>1 DEF IInv, EndpointInv
<1>5. /\ Outcome(socket_descriptor, socket, phase) /\ Service!Drop
      /\ Service!Watched' = Service!Watched /\ results' = results
  BY <1>1, <1>4, KeepOutcome DEF SettleAsIs
<1>6. PassOK'
  <2>1. hook' \in [name : HookNames, client : Conns \cup {NULL}]
    BY <1>2 DEF HookNames
  <2> QED BY <1>1, <1>3, <1>4, <1>5, <2>1 DEF PassOK
<1>7. EntriesOK(connection, state, todo', reading', hook', socket, phase)
  BY <1>2, <1>3, FewerEntries DEF IInv, ServerOK
<1>8. /\ ReadOK(connection, reading', socket, phase) /\ Keeps(socket) /\ DestructedOK'
      /\ connection # NULL => connection # hook'.client
  BY <1>1, <1>2, <1>3 DEF ReadOK, Keeps, DestructedOK
<1>9. IInv' /\ Hooks!Told(phase) /\ Leaves
  BY <1>3, <1>5, <1>6, <1>7, <1>8, SameServer
<1>10. Hooks!Other
  BY <1>2, <1>3, <1>9 DEF Hooks!Other, Hooks!ServerHookNames, Hooks!Call, Hooks!NoHook, NoHook
<1>11. AcceptsServing
  BY <1>2 DEF AcceptsServing
<1> QED BY <1>5, <1>9, <1>10, <1>11 DEF Good, Hooks!Next, Service!Next

\* accept() fails, and the exception ends the pass.
LEMMA AcceptThrowsGood ==
    ASSUME IInv, NEW e \in todo, accept_throws(e)
    PROVE  Good
<1>1. /\ todo' = {} /\ reading' = Idling /\ hook' = NoHook /\ hook = NoHook
      /\ UNCHANGED <<service_vars, state, connection, faults>> /\ SettleAsIs
  BY DEF accept_throws, Throw, owner_vars, NoFault
<1>2. ServiceOK /\ PassOK /\ KernelOK(socket_descriptor, socket, phase, leaked, faults')
      /\ state # "DESTRUCTING"
  BY <1>1 DEF IInv, EndpointInv, DestructedOK, InPass
<1>3. /\ Outcome(socket_descriptor, socket, phase) /\ Service!Drop
      /\ Service!Watched' = Service!Watched /\ results' = results
  BY <1>1, <1>2, KeepOutcome DEF SettleAsIs
<1>4. PassOK'
  BY <1>1, <1>2, <1>3 DEF PassOK
<1>5. /\ EntriesOK(connection, state, todo', reading', hook', socket, phase)
      /\ ReadOK(connection, reading', socket, phase) /\ Keeps(socket) /\ DestructedOK'
      /\ connection # NULL => connection # hook'.client
  BY <1>1, <1>2 DEF EntriesOK, ReadOK, Keeps, DestructedOK, IInv, ServerOK, OwnOK
<1>6. IInv' /\ Hooks!Told(phase) /\ Leaves
  BY <1>1, <1>3, <1>4, <1>5, SameServer
<1>7. Hooks!Forget /\ AcceptsServing
  BY <1>1, <1>6 DEF Hooks!Forget, AcceptsServing, NoHook
<1> QED BY <1>3, <1>6, <1>7 DEF Good, Hooks!Next, Service!Next

\* The kernel after accept(): the new connection has a descriptor, and one
\* connection less is pending.
LEMMA AcceptMakes ==
    ASSUME EndpointInv, FreeFds # {}, connection \in Conns, faults' = faults,
           socket_descriptor[connection] # NoFd,
           socket[connection].st = "listening", socket[connection].pending > 0
    PROVE  LET s == [st |-> "estab", pending |-> 0]
               sk == [socket EXCEPT ![NewConn] = s, ![connection].pending = @ - 1]
               ph == [phase EXCEPT ![NewConn] = "served"]
           IN /\ NewConn \in Conns /\ NewConn # connection /\ Made[NewConn] = NextFd
              /\ KernelOK(Made, sk, ph, leaked, faults')
              /\ \A c \in Conns : socket_descriptor[c] # NoFd => Made[c] = socket_descriptor[c]
              /\ \A c \in Conns \ {NewConn} : sk[c].st = socket[c].st /\ ph[c] = phase[c]
              /\ ph[NewConn] = "served" /\ phase[NewConn] = "absent"
<1> DEFINE s == [st |-> "estab", pending |-> 0]
           Sockets == [st : SocketStates, pending : 0 .. MaxPending]
           sk1 == [socket EXCEPT ![NewConn] = s]
           less == [st |-> "listening", pending |-> socket[connection].pending - 1]
           sk == [socket EXCEPT ![NewConn] = s, ![connection].pending = @ - 1]
           ph == [phase EXCEPT ![NewConn] = "served"]
<1>1. KernelOK(socket_descriptor, socket, phase, leaked, faults)
  BY DEF EndpointInv
<1>2. NewConn \in Conns /\ socket_descriptor[NewConn] = NoFd /\ NewConn # connection
  BY <1>1, FreshObject
<1>3. socket \in [Conns -> Sockets] /\ phase \in [Conns -> {"absent", "served", "gone"}]
      /\ phase[NewConn] = "absent" /\ faults \in 0 .. MaxFaults
  BY <1>1, <1>2 DEF KernelOK
<1>4. s \in Sockets /\ s.st = "estab"
  BY BoundsAssumption DEF SocketStates
<1>5. less \in Sockets
  <2>1. socket[connection].pending \in 0 .. MaxPending /\ MaxPending \in Nat
    BY <1>3, BoundsAssumption
  <2>2. socket[connection].pending - 1 \in 0 .. MaxPending
    BY <2>1
  <2> QED BY <2>2 DEF SocketStates
<1> HIDE DEF s, less
<1>6. /\ sk1 \in [Conns -> Sockets] /\ sk1[NewConn] = s
      /\ \A c \in Conns \ {NewConn} : sk1[c] = socket[c]
  BY <1>2, <1>3, <1>4
<1>7. ph[NewConn] = "served" /\ \A c \in Conns \ {NewConn} : ph[c] = phase[c]
  BY <1>2, <1>3
<1>8. /\ KernelOK(Made, sk1, ph, leaked, faults')
      /\ \A c \in Conns : socket_descriptor[c] # NoFd => Made[c] = socket_descriptor[c]
      /\ Made[NewConn] = NextFd
  <2>1. /\ sk1[NewConn].st \in SocketStates \ {"none"}
        /\ sk1[NewConn].st \notin ShutdownFails
    BY <1>4, <1>6 DEF SocketStates, ShutdownFails
  <2>2. faults' \in 0 .. MaxFaults /\ faults <= faults'
    BY <1>3, BoundsAssumption
  <2> HIDE DEF sk1
  <2> QED BY <1>1, <1>6, <2>1, <2>2, MadeKernel
<1>9. /\ sk \in [Conns -> Sockets] /\ sk[connection] = less
      /\ \A c \in Conns \ {connection} : sk[c] = sk1[c]
  <2>1. sk = [sk1 EXCEPT ![connection].pending = @ - 1]
    BY <1>2, <1>3
  <2>2. sk1[connection] = socket[connection]
    BY <1>2, <1>6
  <2>3. sk = [sk1 EXCEPT ![connection] = [socket[connection] EXCEPT !.pending = socket[connection].pending - 1]]
    BY <2>1, <2>2, <1>6
  <2>4. [socket[connection] EXCEPT !.pending = socket[connection].pending - 1] = less
    BY <1>3 DEF less
  <2> HIDE DEF sk1, sk
  <2> QED BY <1>5, <1>6, <2>3, <2>4
<1> HIDE DEF sk, sk1, ph
<1>10. KernelOK(Made, sk, ph, leaked, faults')
  <2>1. Made[connection] = socket_descriptor[connection] /\ Made[connection] \in Fds
        /\ Made \in [Conns -> Fds \cup {NoFd}]
    BY <1>1, <1>8 DEF KernelOK
  <2>2. [Made EXCEPT ![connection] = Made[connection]] = Made
    BY <2>1
  <2>3. /\ sk[connection].st # "none" /\ sk[connection].st \notin ShutdownFails
    BY <1>9 DEF less, ShutdownFails
  <2>4. faults' \in 0 .. MaxFaults /\ faults' <= faults'
    BY <1>3, BoundsAssumption
  <2>5. KernelOK([Made EXCEPT ![connection] = Made[connection]], sk, ph, leaked, faults')
    BY <1>8, <1>9, <2>1, <2>3, <2>4, SocketChange
  <2> QED BY <2>2, <2>5
<1>11. \A c \in Conns \ {NewConn} : sk[c].st = socket[c].st
  BY <1>6, <1>9 DEF less
<1> QED BY <1>2, <1>3, <1>7, <1>8, <1>10, <1>11 DEF sk, ph, s

\* A client is accepted, watched and announced.
LEMMA AcceptGood ==
    ASSUME IInv, NEW e \in todo, handle_connection_request(e)
    PROVE  Good
<1> DEFINE s == [st |-> "estab", pending |-> 0]
           sk == [socket EXCEPT ![NewConn] = s, ![connection].pending = @ - 1]
           ph == [phase EXCEPT ![NewConn] = "served"]
<1>1. /\ Takes(e) /\ e.connection = connection /\ e.status = "NORMAL" /\ FreeFds # {}
      /\ socket[connection].pending > 0 /\ reading' = reading /\ faults' = faults
      /\ Service!add_socket(NewConn, NextFd) /\ hook' = [name |-> "connect", client |-> NewConn]
      /\ Settle(Made, sk, ph)
  BY DEF handle_connection_request, server_connection, addToPollService, Call, NoFault, Made
<1>2. /\ connection \in Conns /\ connection # NULL
      /\ hook = NoHook /\ reading = Idling /\ UNCHANGED <<state, connection>>
      /\ todo' = todo \ {e} /\ todo' \subseteq todo /\ state = "SERVE"
      /\ socket[connection].st = "listening"
      /\ \A d \in todo' : d.connection # connection
  BY <1>1, TakenEntry, NullAssumption
<1>3. ServiceOK /\ PassOK /\ KernelOK(socket_descriptor, socket, phase, leaked, faults) /\ EndpointInv
  BY DEF IInv, EndpointInv
<1>4. socket_descriptor[connection] # NoFd
  BY <1>2, <1>3, ServiceFacts, NoFdAssumption DEF owned
<1>5. /\ NewConn \in Conns /\ NewConn # connection /\ Made[NewConn] = NextFd
      /\ KernelOK(Made, sk, ph, leaked, faults')
      /\ \A c \in Conns : socket_descriptor[c] # NoFd => Made[c] = socket_descriptor[c]
      /\ \A c \in Conns \ {NewConn} : sk[c].st = socket[c].st /\ ph[c] = phase[c]
      /\ ph[NewConn] = "served" /\ phase[NewConn] = "absent"
  BY <1>1, <1>2, <1>3, <1>4, AcceptMakes
<1> HIDE DEF sk, ph
<1>6. /\ Outcome(Made, sk, ph) /\ Service!AddNewSocket(NewConn, NextFd)
      /\ Service!Watched' = Service!Watched \cup {NewConn} /\ results' = results
  BY <1>1, <1>3, <1>5, AddOutcome
<1>7. \A d \in todo' : d.connection \in Conns \ {NewConn}
  <2>1. NewConn \notin Service!Reported
    BY <1>1, <1>3, MadeService
  <2> QED BY <1>2, <1>3, <2>1, PassRefers
<1>8. PassOK'
  <2>1. hook' \in [name : HookNames, client : Conns \cup {NULL}]
    BY <1>1, <1>5 DEF HookNames
  <2> QED BY <1>1, <1>2, <1>3, <1>6, <2>1 DEF PassOK
<1>9. OwnOK(connection, state, Service!Watched', hook', sk, ph)
  BY <1>1, <1>2, <1>5, <1>6 DEF IInv, ServerOK, OwnOK
<1>10. ClientsOK(connection, Service!Watched', ph)
  <2>1. Service!Watched \subseteq Conns
    BY <1>3, ServiceFacts
  <2>2. ClientsOK(connection, Service!Watched, phase)
    BY DEF IInv, ServerOK
  <2> QED BY <1>5, <1>6, <2>1, <2>2 DEF ClientsOK
<1>11. EntriesOK(connection, state, todo', reading', hook', sk, ph)
  <2>1. EntriesOK(connection, state, todo, reading, hook, socket, phase)
    BY DEF IInv, ServerOK
  <2>2. \A d \in todo' : /\ d.connection # hook'.client /\ ph[d.connection] = phase[d.connection]
                         /\ sk[d.connection].st = socket[d.connection].st
    BY <1>1, <1>5, <1>7
  <2> QED BY <1>2, <2>1, <2>2 DEF EntriesOK, Known
<1>12. /\ ReadOK(connection, reading', sk, ph) /\ ClosedOK(connection, state, Service!Watched')
       /\ DestructedOK'
  BY <1>1, <1>2 DEF ReadOK, ClosedOK, DestructedOK
<1>13. ServerOK(connection', state', Service!Watched', todo', reading', hook', sk, ph)
  BY <1>2, <1>9, <1>10, <1>11, <1>12 DEF ServerOK
<1>14. IInv'
  BY <1>2, <1>6, <1>8, <1>12, <1>13, Carry DEF IInv
<1>15. Hooks!Connect(NewConn)
  <2>1. Hooks!Told(ph)
    BY <1>6, ToldOutcome
  <2> QED BY <1>1, <1>2, <1>5, <2>1 DEF Hooks!Connect, Hooks!Call, Hooks!NoHook, NoHook, ph
<1>16. Leaves /\ AcceptsServing
  BY <1>2, <1>6 DEF Leaves, AcceptsServing
<1>17. Service!Next
  <2>1. NextFd \in Fds
    BY <1>1, <1>3, FreshObject
  <2> QED BY <1>5, <1>6, <2>1 DEF Service!Next
<1> QED BY <1>5, <1>14, <1>15, <1>16, <1>17 DEF Good, Hooks!Next

-----------------------------------------------------------------------------
(* The calls of the user.                                                   *)

\* A hook turns the client it is about away.
LEMMA TurnAwayGood ==
    ASSUME IInv, turn_away
    PROVE  Good
<1> DEFINE c == hook.client
<1>1. /\ c # NULL /\ Service!remove_socket(c) /\ SettleAsIs
      /\ UNCHANGED <<state, connection, todo, reading, hook, faults>>
  BY DEF turn_away, removeFromPollService, owner_vars, pass_vars, NoFault
<1>2. ServiceOK /\ PassOK /\ KernelOK(socket_descriptor, socket, phase, leaked, faults')
  BY <1>1 DEF IInv, EndpointInv
<1>3. c \in owned
  BY <1>1 DEF owned
<1>4. /\ Outcome(socket_descriptor, socket, phase) /\ Service!RemoveSocket(c)
      /\ Service!Watched' = Service!Watched \ {c} /\ results' = results
  BY <1>1, <1>2, <1>3, RemoveOutcome DEF SettleAsIs
<1>5. PassOK' /\ DestructedOK'
  BY <1>1, <1>2, <1>4 DEF PassOK, IInv, DestructedOK, InPass, Service!Reported
<1>6. ServerOK(connection', state', Service!Watched', todo', reading', hook', socket, phase)
  <2>1. OwnOK(connection, state, Service!Watched', hook, socket, phase)
    BY <1>4 DEF IInv, ServerOK, OwnOK
  <2>2. ClientsOK(connection, Service!Watched', phase) /\ ClosedOK(connection, state, Service!Watched')
    BY <1>4 DEF IInv, ServerOK, ClientsOK, ClosedOK
  <2> QED BY <1>1, <2>1, <2>2 DEF IInv, ServerOK
<1>7. IInv'
  BY <1>1, <1>4, <1>5, <1>6, Carry DEF IInv
<1>8. Hooks!Forget
  BY <1>1, <1>4, ToldOutcome DEF Hooks!Forget
<1>9. Leaves /\ AcceptsServing
  BY <1>1, <1>4 DEF Leaves, AcceptsServing, NoHook
<1>10. Service!Next
  BY <1>2, <1>3, <1>4, ServiceFacts DEF Service!Next
<1> QED BY <1>7, <1>8, <1>9, <1>10 DEF Good, Hooks!Next

\* What is true when the user calls: nothing is being read, and no entry of a
\* connection that could not be bound waits.
LEMMA UserCalled ==
    ASSUME IInv, ~ InPass \/ hook # NoHook
    PROVE  /\ reading = Idling
           /\ \A e \in todo : e.connection = connection =>
                 /\ state = "SERVE" /\ e.status = "NORMAL" /\ socket[connection].st = "listening"
           /\ \A e \in todo : e.connection \in Conns /\ e.connection # hook.client
<1>1. reading = Idling
  BY DEF InPass, IInv, EndpointInv, PassOK
<1>2. EntriesOK(connection, state, todo, reading, hook, socket, phase)
      /\ OwnOK(connection, state, Service!Watched, hook, socket, phase)
  BY DEF IInv, ServerOK
<1>3. \A e \in todo : hook # NoHook
  BY DEF InPass
<1>4. \A e \in todo : e.connection \in Conns /\ e.connection # NULL
  BY PassRefers, NullAssumption DEF IInv, EndpointInv
<1> QED BY <1>1, <1>2, <1>3, <1>4 DEF EntriesOK, OwnOK

\* open() without a descriptor, serve() and the making of another server change
\* nothing but the state.
LEMMA StateGood ==
    ASSUME IInv, UNCHANGED <<service_vars, connection, pass_vars, kernel_vars, faults>>,
           \/ state = "CLOSED" /\ state' = "OPEN"
           \/ state = "OPEN" /\ state' = "SERVE"
           \/ state = "DESTRUCTING" /\ state' = "CLOSED"
    PROVE  Good
<1>1. /\ UNCHANGED <<service_vars, connection, todo, reading, hook, socket_descriptor, phase,
                     socket, leaked, faults>>
      /\ ServiceOK /\ PassOK /\ KernelOK(socket_descriptor, socket', phase, leaked, faults')
  BY DEF pass_vars, kernel_vars, IInv, EndpointInv
<1>2. /\ Outcome(socket_descriptor, socket, phase) /\ UNCHANGED Service!vars
      /\ Service!Watched' = Service!Watched /\ results' = results
  BY <1>1, StillOutcome
<1>3. PassOK' /\ DestructedOK' /\ state' \in States
  BY <1>1, <1>2 DEF PassOK, DestructedOK, States, Service!Reported
<1>4. ServerOK(connection', state', Service!Watched', todo', reading', hook', socket, phase)
  <2>1. OwnOK(connection, state', Service!Watched, hook, socket, phase)
    BY DEF IInv, ServerOK, OwnOK
  <2>2. EntriesOK(connection, state', todo, reading, hook, socket, phase)
    BY DEF IInv, ServerOK, EntriesOK
  <2>3. ClosedOK(connection, state', Service!Watched)
    BY DEF IInv, ServerOK, ClosedOK
  <2> QED BY <1>1, <1>2, <2>1, <2>2, <2>3 DEF IInv, ServerOK
<1>5. IInv'
  BY <1>2, <1>3, <1>4, Carry
<1>6. Hooks!Forget
  BY <1>1, <1>2, ToldOutcome DEF Hooks!Forget
<1>7. Leaves /\ AcceptsServing
  BY <1>1, <1>2 DEF Leaves, AcceptsServing, NoHook
<1> QED BY <1>2, <1>5, <1>6, <1>7 DEF Good, Hooks!Next

\* The server lets all its connections go; a pass that is running goes on, and
\* may still find what was the listener.
LEMMA LetGo ==
    ASSUME IInv, ~ InPass \/ hook # NoHook, UNCHANGED pass_vars,
           Outcome(socket_descriptor, socket, phase), Service!Watched' = {},
           connection' = NULL, todo \subseteq results',
           \/ state' = "CLOSED"
           \/ state' = "DESTRUCTING" /\ ~ InPass /\ results' = {}
    PROVE  IInv' /\ Hooks!Forget /\ Leaves /\ AcceptsServing
<1>1. UNCHANGED <<todo, reading, hook>>
  BY DEF pass_vars
<1>2. /\ reading = Idling
      /\ \A e \in todo : e.connection = connection =>
            e.status = "NORMAL" /\ socket[connection].st = "listening"
      /\ \A e \in todo : e.connection \in Conns /\ e.connection # hook.client
  BY UserCalled
<1>3. PassOK' /\ DestructedOK' /\ state' \in States
  BY <1>1, <1>2 DEF PassOK, IInv, EndpointInv, DestructedOK, InPass, States
<1>4. EntriesOK(NULL, state', todo, reading, hook, socket, phase)
  <2>1. EntriesOK(connection, state, todo, reading, hook, socket, phase)
    BY DEF IInv, ServerOK
  <2>2. \A e \in todo : e.connection # NULL
    BY <1>2, NullAssumption
  <2> QED BY <1>2, <2>1, <2>2 DEF EntriesOK, Known
<1>5. ServerOK(connection', state', Service!Watched', todo', reading', hook', socket, phase)
  BY <1>1, <1>2, <1>4 DEF ServerOK, OwnOK, ClientsOK, ClosedOK, ReadOK
<1>6. IInv'
  BY <1>3, <1>5, Carry
<1>7. Hooks!Forget
  BY <1>1, ToldOutcome DEF Hooks!Forget
<1>8. Leaves /\ AcceptsServing
  BY <1>1 DEF Leaves, AcceptsServing, NoHook
<1> QED BY <1>6, <1>7, <1>8

\* close(), also from inside a hook.
LEMMA CloseGood ==
    ASSUME IInv, close
    PROVE  Good
<1>1. /\ ServiceOK /\ PassOK /\ KernelOK(socket_descriptor, socket, phase, leaked, faults')
      /\ clear_service /\ SettleAsIs /\ UNCHANGED pass_vars /\ connection' = NULL
      /\ state' = "CLOSED" /\ (~ InPass \/ hook # NoHook)
  BY DEF IInv, EndpointInv, close, NoFault, reset_connection, state_transition, UserCalls
<1>2. /\ Outcome(socket_descriptor, socket, phase) /\ Service!ClearSockets
      /\ Service!Watched' = {} /\ results' = results
  BY <1>1, ClearOutcome
<1>3. todo \subseteq results'
  BY <1>1, <1>2 DEF PassOK
<1>4. IInv' /\ Hooks!Forget /\ Leaves /\ AcceptsServing
  BY <1>1, <1>2, <1>3, LetGo
<1> QED BY <1>2, <1>4 DEF Good, Service!Next, Hooks!Next

\* The server is destructed.
LEMMA DestructGood ==
    ASSUME IInv, destruct
    PROVE  Good
<1>1. /\ ServiceOK /\ KernelOK(socket_descriptor, socket, phase, leaked, faults')
      /\ destruct_service /\ SettleAsIs /\ UNCHANGED pass_vars /\ connection' = NULL
      /\ state' = "DESTRUCTING" /\ ~ InPass /\ todo = {}
  BY DEF IInv, EndpointInv, destruct, NoFault, reset_connection, InPass
<1>2. /\ Outcome(socket_descriptor, socket, phase) /\ Service!Destruct
      /\ Service!Watched' = {} /\ results' = {}
  BY <1>1, DestructOutcome
<1>3. IInv' /\ Hooks!Forget /\ Leaves /\ AcceptsServing
  BY <1>1, <1>2, LetGo
<1> QED BY <1>2, <1>3 DEF Good, Service!Next, Hooks!Next

\* open() makes a connection and watches it, whether or not it can be bound.
LEMMA OpenMakesGood ==
    ASSUME IInv, ~ InPass \/ hook # NoHook, state = "CLOSED", state' = "OPEN",
           UNCHANGED pass_vars, FreeFds # {}, connection' = NewConn,
           Service!add_socket(NewConn, NextFd), NEW st \in {"listening", "fresh"},
           IF st = "listening" THEN NoFault ELSE Fault,
           Settle(Service!Created(NewConn, NextFd),
                  [socket EXCEPT ![NewConn] = [st |-> st, pending |-> 0]], phase)
    PROVE  Good
<1> DEFINE s == [st |-> st, pending |-> 0]
           sk == [socket EXCEPT ![NewConn] = s]
<1>1. /\ ServiceOK /\ PassOK /\ KernelOK(socket_descriptor, socket, phase, leaked, faults)
      /\ UNCHANGED <<todo, reading, hook>> /\ Settle(Made, sk, phase)
  BY DEF IInv, EndpointInv, pass_vars, Made
<1>2. /\ NewConn \in Conns /\ socket_descriptor[NewConn] = NoFd /\ NextFd \in Fds
      /\ phase[NewConn] = "absent" /\ NewConn # NULL
  <2>1. NewConn \in Conns /\ socket_descriptor[NewConn] = NoFd /\ NextFd \in Fds
    BY <1>1, FreshObject
  <2> QED BY <1>1, <2>1, NullAssumption DEF KernelOK
<1>3. NewConn \notin Service!Watched \cup Service!Reported \cup owned
  BY <1>1, MadeService
<1>4. s \in [st : SocketStates, pending : 0 .. MaxPending]
  BY BoundsAssumption DEF SocketStates
<1>5. /\ sk \in [Conns -> [st : SocketStates, pending : 0 .. MaxPending]]
      /\ sk[NewConn] = s /\ \A c \in Conns \ {NewConn} : sk[c] = socket[c]
  <2>1. socket \in [Conns -> [st : SocketStates, pending : 0 .. MaxPending]]
    BY <1>1 DEF KernelOK
  <2> HIDE DEF s
  <2> QED BY <1>2, <1>4, <2>1
<1>6. /\ faults' \in 0 .. MaxFaults /\ faults <= faults' /\ (st = "fresh" => faults < faults')
  <2>1. faults \in 0 .. MaxFaults /\ MaxFaults \in Nat
    BY <1>1, BoundsAssumption DEF KernelOK
  <2> QED BY <2>1 DEF Fault, NoFault
<1>7. /\ sk[NewConn].st = st /\ st \in SocketStates \ {"none"}
      /\ st \in ShutdownFails => faults < faults'
  BY <1>5, <1>6 DEF SocketStates, ShutdownFails
<1> HIDE DEF sk, s
<1>8. /\ KernelOK(Made, sk, phase, leaked, faults') /\ Made[NewConn] = NextFd
      /\ \A c \in Conns : socket_descriptor[c] # NoFd => Made[c] = socket_descriptor[c]
  BY <1>1, <1>5, <1>6, <1>7, MadeKernel
<1>9. /\ Outcome(Made, sk, phase) /\ Service!AddNewSocket(NewConn, NextFd)
      /\ Service!Watched' = Service!Watched \cup {NewConn} /\ results' = results
  BY <1>1, <1>8, AddOutcome
<1>10. Service!Watched = {} /\ connection = NULL
  BY DEF IInv, ServerOK, ClosedOK
<1>11. /\ reading = Idling
       /\ \A e \in todo : e.connection \in Conns \ {NewConn} /\ e.connection # hook.client
  <2>1. \A e \in todo : e.connection \in Service!Reported
    BY <1>1, PassRefers
  <2> QED BY <1>3, <2>1, UserCalled
<1>12. PassOK' /\ DestructedOK' /\ state' \in States
  BY <1>1, <1>2, <1>9, <1>11 DEF PassOK, DestructedOK, States
<1>13. ServerOK(connection', state', Service!Watched', todo', reading', hook', sk, phase)
  <2>1. NewConn # hook.client
    BY <1>2, <1>3 DEF owned
  <2>2. OwnOK(NewConn, state', Service!Watched', hook, sk, phase)
    BY <1>2, <1>7, <1>9, <1>10, <2>1 DEF OwnOK
  <2>3. EntriesOK(connection, state, todo, reading, hook, socket, phase)
    BY DEF IInv, ServerOK
  <2>4. \A e \in todo : sk[e.connection] = socket[e.connection] /\ e.connection # connection
    BY <1>5, <1>10, <1>11, NullAssumption
  <2>5. EntriesOK(NewConn, state', todo, reading, hook, sk, phase)
    BY <1>11, <2>3, <2>4 DEF EntriesOK, Known
  <2> QED BY <1>1, <1>9, <1>10, <1>11, <2>2, <2>5 DEF ServerOK, ClientsOK, ClosedOK, ReadOK
<1>14. IInv'
  BY <1>9, <1>12, <1>13, Carry
<1>15. Hooks!Forget
  BY <1>1, <1>9, ToldOutcome DEF Hooks!Forget
<1>16. Leaves /\ AcceptsServing
  BY <1>1, <1>9 DEF Leaves, AcceptsServing, NoHook
<1>17. Service!Next
  BY <1>2, <1>9 DEF Service!Next
<1> QED BY <1>14, <1>15, <1>16, <1>17 DEF Good, Hooks!Next

\* open(), whatever the OS lets it do.
LEMMA OpenGood ==
    ASSUME IInv, open
    PROVE  Good
<1>1. /\ ~ InPass \/ hook # NoHook
      /\ state = "CLOSED" /\ state' = "OPEN" /\ UNCHANGED pass_vars
  BY DEF open, UserCalls, state_transition
<1>2. CASE FreeFds = {}
  <2>1. UNCHANGED <<service_vars, connection, kernel_vars, faults>>
    BY <1>2 DEF open
  <2> QED BY <1>1, <2>1, StateGood
<1>3. CASE FreeFds # {}
  <2>1. /\ connection' = NewConn /\ Service!add_socket(NewConn, NextFd)
        /\ \E st \in {"listening", "fresh"} :
              /\ IF st = "listening" THEN NoFault ELSE Fault
              /\ Settle(Service!Created(NewConn, NextFd),
                        [socket EXCEPT ![NewConn] = [st |-> st, pending |-> 0]], phase)
    BY <1>3 DEF open
  <2> QED BY <1>1, <1>3, <2>1, OpenMakesGood
<1> QED BY <1>2, <1>3

-----------------------------------------------------------------------------
(* Peers.                                                                   *)

\* A step that changes no more than sockets, none that listens or could not.
LEMMA SocketsGood ==
    ASSUME IInv, Outcome(socket_descriptor, socket', phase), PassOK', UNCHANGED Service!vars,
           Service!Watched' = Service!Watched, Keeps(socket'),
           UNCHANGED <<results, connection, state, todo, reading, hook>>
    PROVE  Good
<1>1. /\ EntriesOK(connection, state, todo', reading', hook', socket, phase)
      /\ ReadOK(connection, reading', socket, phase) /\ DestructedOK'
      /\ connection # NULL => connection # hook'.client
  BY DEF IInv, ServerOK, EntriesOK, ReadOK, Known, OwnOK, DestructedOK, InPass
<1>2. IInv' /\ Hooks!Told(phase) /\ Leaves
  BY <1>1, SameServer
<1>3. Hooks!Forget /\ AcceptsServing
  BY <1>2 DEF Hooks!Forget, AcceptsServing, NoHook
<1> QED BY <1>2, <1>3 DEF Good, Hooks!Next

\* A peer connects, sends, closes or resets.
LEMMA PeerGood ==
    ASSUME IInv, NEW c \in Conns, Peer(c)
    PROVE  Good
<1>1. EndpointInv
  BY DEF IInv
<1>2. CASE peer_sends(c) \/ peer_closes(c) \/ peer_resets(c)
  <2>1. /\ Outcome(socket_descriptor, socket', phase) /\ PassOK' /\ UNCHANGED Service!vars
        /\ Service!Watched' = Service!Watched
        /\ socket[c].st \in {"estab", "eof"}
        /\ \A d \in Conns \ {c} : socket'[d] = socket[d]
        /\ UNCHANGED <<results, connection, state, todo, reading, hook>>
    BY <1>1, <1>2, PeerStep
  <2>2. Keeps(socket')
    BY <2>1 DEF Keeps
  <2> QED BY <2>1, <2>2, SocketsGood
<1>3. CASE peer_connects(c)
  <2> DEFINE s == [socket[c] EXCEPT !.pending = @ + 1]
  <2>1. /\ socket[c].st = "listening" /\ socket[c].pending < MaxPending
        /\ Changes(c, s) /\ faults' = faults
    BY <1>3 DEF peer_connects, NoFault
  <2>2. socket[c] \in [st : SocketStates, pending : 0 .. MaxPending] /\ faults \in 0 .. MaxFaults
    BY <1>1 DEF EndpointInv, KernelOK
  <2>3. s.st = "listening" /\ s \in [st : SocketStates, pending : 0 .. MaxPending]
    <3>1. socket[c].pending + 1 \in 0 .. MaxPending
      BY <2>1, <2>2, BoundsAssumption
    <3>2. s = [st |-> "listening", pending |-> socket[c].pending + 1]
      BY <2>1, <2>2
    <3> QED BY <3>1, <3>2 DEF SocketStates
  <2>4. faults' \in 0 .. MaxFaults /\ faults <= faults'
    BY <2>1, <2>2, BoundsAssumption
  <2>5. s.st # "none" /\ s.st \notin ShutdownFails
    BY <2>3 DEF ShutdownFails
  <2> HIDE DEF s
  <2>6. /\ Outcome(socket_descriptor, socket', phase) /\ PassOK' /\ UNCHANGED Service!vars
        /\ Service!Watched' = Service!Watched
        /\ socket'[c] = s /\ \A d \in Conns \ {c} : socket'[d] = socket[d]
        /\ UNCHANGED <<results, connection, state, todo, reading, hook>>
    BY <1>1, <2>1, <2>3, <2>4, <2>5, ChangesStep
  <2>7. Keeps(socket')
    BY <2>1, <2>3, <2>6 DEF Keeps
  <2> QED BY <2>6, <2>7, SocketsGood
<1> QED BY <1>2, <1>3 DEF Peer

-----------------------------------------------------------------------------
(* A server in a program in which nothing fails: m is the client that sends *)
(* messages, or NULL as long as it has not been accepted.                   *)

ServerCalm(m) == Calm(socket, connection, Service!Watched, todo, reading, hook, m)
ServerChunks(m) == Chunks(socket, reading, hook, m)

\* open() makes a listener.
LEMMA CalmOpen ==
    ASSUME IInv, open, ~ InPass, faults' = faults, ServerCalm(NULL)
    PROVE  /\ Calm(socket', connection', Service!Watched', todo', reading', hook', NULL)
           /\ Chunks(socket', reading', hook', NULL) = ServerChunks(NULL)
           /\ UNCHANGED <<todo, reading, hook>>
<1> DEFINE sk == [socket EXCEPT ![NewConn] = [st |-> "listening", pending |-> 0]]
<1>1. /\ ServiceOK /\ KernelOK(socket_descriptor, socket, phase, leaked, faults)
      /\ state = "CLOSED" /\ connection = NULL /\ UNCHANGED <<todo, reading, hook>>
      /\ reading = Idling /\ hook = NoHook
  BY DEF IInv, EndpointInv, open, state_transition, pass_vars, ServerOK, ClosedOK, InPass
<1>2. /\ SocketsCalm(socket, connection, NULL) /\ PassCalm(todo', reading', hook', NULL)
      /\ \A c \in Conns : socket[c].st # "listening"
  BY <1>1, NullAssumption DEF ServerCalm, Calm, SocketsCalm
<1>3. Chunks(socket', reading', hook', NULL) = ServerChunks(NULL)
  BY <1>1 DEF ServerChunks, Chunks
<1>4. CASE FreeFds = {}
  BY <1>1, <1>2, <1>3, <1>4 DEF open, kernel_vars, Calm
<1>5. CASE FreeFds # {}
  <2>1. ~ Fault
    BY <1>1, BoundsAssumption DEF KernelOK, Fault
  <2>2. /\ connection' = NewConn /\ Service!add_socket(NewConn, NextFd) /\ Settle(Made, sk, phase)
    BY <1>5, <2>1 DEF open, Made
  <2>3. NewConn \in Conns /\ socket \in [Conns -> [st : SocketStates, pending : 0 .. MaxPending]]
    BY <1>1, <1>5, FreshObject DEF KernelOK
  <2>4. /\ sk[NewConn] = [st |-> "listening", pending |-> 0]
        /\ \A c \in Conns \ {NewConn} : sk[c] = socket[c]
        /\ sk \in [Conns -> [st : SocketStates, pending : 0 .. MaxPending]]
    BY <2>3, BoundsAssumption DEF SocketStates
  <2> HIDE DEF sk
  <2>5. /\ KernelOK(Made, sk, phase, leaked, faults') /\ Made[NewConn] = NextFd
        /\ \A c \in Conns : socket_descriptor[c] # NoFd => Made[c] = socket_descriptor[c]
    <3>1. /\ sk[NewConn].st \in SocketStates \ {"none"} /\ sk[NewConn].st \notin ShutdownFails
      BY <2>4 DEF SocketStates, ShutdownFails
    <3>2. faults' \in 0 .. MaxFaults /\ faults <= faults'
      BY <1>1, BoundsAssumption DEF KernelOK
    <3> QED BY <1>1, <1>5, <2>4, <3>1, <3>2, MadeKernel
  <2>6. Outcome(Made, sk, phase)
    BY <1>1, <1>5, <2>2, <2>5, AddOutcome
  <2>7. SocketsCalm(sk, connection', NULL)
    BY <1>2, <2>2, <2>4 DEF SocketsCalm
  <2>8. SocketsCalm(socket', connection', NULL)
    BY <2>6, <2>7, CalmAfter
  <2> QED BY <1>1, <1>2, <1>3, <2>8 DEF Calm
<1> QED BY <1>4, <1>5

\* The listener is not what messages come over.
LEMMA ListenerIsNotCalm ==
    ASSUME IInv, NEW m, ServerCalm(m), m # NULL
    PROVE  m # connection
<1> QED BY DEF IInv, ServerOK, OwnOK, ServerCalm, Calm, SocketsCalm

\* The client, or a visitor, is accepted: nothing has come from it.
LEMMA CalmAccept ==
    ASSUME IInv, NEW e \in todo, handle_connection_request(e),
           NEW m \in Conns \cup {NULL}, ServerCalm(m)
    PROVE  /\ Calm(socket', connection', Service!Watched', todo', reading', hook', m)
           /\ Chunks(socket', reading', hook', m) = ServerChunks(m)
           /\ hook'.name = "connect" /\ hook = NoHook /\ hook'.client \in Conns
           /\ m = NULL =>
                 /\ Calm(socket', connection', Service!Watched', todo', reading', hook', hook'.client)
                 /\ Chunks(socket', reading', hook', hook'.client) = ServerChunks(NULL)
<1> DEFINE s == [st |-> "estab", pending |-> 0]
           sk == [socket EXCEPT ![NewConn] = s, ![connection].pending = @ - 1]
           ph == [phase EXCEPT ![NewConn] = "served"]
<1>1. /\ Takes(e) /\ e.connection = connection /\ e.status = "NORMAL" /\ FreeFds # {}
      /\ socket[connection].pending > 0 /\ reading' = reading /\ faults' = faults
      /\ Service!add_socket(NewConn, NextFd) /\ hook' = [name |-> "connect", client |-> NewConn]
      /\ Settle(Made, sk, ph)
  BY DEF handle_connection_request, server_connection, addToPollService, Call, NoFault, Made
<1>2. /\ connection \in Conns /\ hook = NoHook /\ reading = Idling /\ connection' = connection
      /\ todo' = todo \ {e} /\ socket[connection].st = "listening"
  BY <1>1, TakenEntry, NullAssumption
<1>3. /\ ServiceOK /\ KernelOK(socket_descriptor, socket, phase, leaked, faults) /\ EndpointInv
      /\ connection \in owned
  BY <1>2, NullAssumption DEF IInv, EndpointInv, owned
<1>4. socket_descriptor[connection] # NoFd
  BY <1>3, ServiceFacts, NoFdAssumption
<1>5. /\ NewConn \in Conns /\ NewConn # connection /\ Made[NewConn] = NextFd
      /\ KernelOK(Made, sk, ph, leaked, faults')
      /\ \A c \in Conns : socket_descriptor[c] # NoFd => Made[c] = socket_descriptor[c]
      /\ socket_descriptor[NewConn] = NoFd
  BY <1>1, <1>2, <1>3, <1>4, AcceptMakes, FreshObject
<1>6. socket \in [Conns -> [st : SocketStates, pending : 0 .. MaxPending]]
  BY <1>3 DEF KernelOK
<1>7. /\ sk[NewConn] = s /\ sk[connection].st = "listening"
      /\ \A c \in Conns \ {NewConn, connection} : sk[c] = socket[c]
  BY <1>2, <1>5, <1>6
<1> HIDE DEF sk, ph
<1>8. Outcome(Made, sk, ph) /\ Service!Watched' = Service!Watched \cup {NewConn}
  BY <1>1, <1>3, <1>5, AddOutcome
<1>9. m # NULL => m # connection /\ m # NewConn
  <2>1. m # NULL => m # connection /\ m \in Service!Watched
    BY ListenerIsNotCalm DEF ServerCalm, Calm
  <2> QED BY <1>3, <1>5, <2>1, ServiceFacts, NoFdAssumption
<1>10. /\ SocketsCalm(socket, connection, m) /\ PassCalm(todo, reading, hook, m)
       /\ m # NULL => m \in Service!Watched
  BY DEF ServerCalm, Calm
<1>11. SocketsCalm(sk, connection', m)
  BY <1>2, <1>5, <1>7, <1>9, <1>10 DEF SocketsCalm
<1>12. PassCalm(todo', reading', hook', m)
  BY <1>1, <1>2, <1>10 DEF PassCalm
<1>13. /\ Calm(socket', connection', Service!Watched', todo', reading', hook', m)
       /\ m # NULL => socket'[m] = socket[m]
  <2>1. SocketsCalm(socket', connection', m) /\ (m # NULL => socket'[m] = sk[m])
    BY <1>8, <1>10, <1>11, CalmAfter
  <2>2. m # NULL => sk[m] = socket[m]
    BY <1>7, <1>9
  <2> QED BY <1>8, <1>10, <1>12, <2>1, <2>2 DEF Calm
<1>14. Chunks(socket', reading', hook', m) = ServerChunks(m)
  BY <1>1, <1>2, <1>13 DEF ServerChunks, Chunks, NoHook
<1>15. ASSUME m = NULL
       PROVE  /\ Calm(socket', connection', Service!Watched', todo', reading', hook', NewConn)
              /\ Chunks(socket', reading', hook', NewConn) = ServerChunks(NULL)
  <2>1. SocketsCalm(sk, connection', NewConn)
    BY <1>5, <1>7, <1>11, <1>15, NullAssumption DEF SocketsCalm
  <2>2. SocketsCalm(socket', connection', NewConn) /\ socket'[NewConn] = sk[NewConn]
    BY <1>5, <1>8, <2>1, CalmAfter, NullAssumption
  <2>3. PassCalm(todo', reading', hook', NewConn)
    BY <1>1, <1>2, <1>12 DEF PassCalm, Idling
  <2>4. Chunks(socket', reading', hook', NewConn) = ServerChunks(NULL)
    BY <1>1, <1>2, <1>5, <1>7, <2>2, NullAssumption DEF ServerChunks, Chunks, Idling, NoHook
  <2> QED BY <1>8, <2>2, <2>3, <2>4 DEF Calm
<1> QED BY <1>1, <1>2, <1>5, <1>13, <1>14, <1>15

\* The end of the stream of a visitor.
LEMMA CalmEof ==
    ASSUME IInv, receive_eof, NEW m \in Conns \cup {NULL}, ServerCalm(m)
    PROVE  /\ Calm(socket', connection', Service!Watched', todo', reading', hook', m)
           /\ Chunks(socket', reading', hook', m) = ServerChunks(m)
           /\ hook'.name = "disconnect" /\ hook = NoHook
<1> DEFINE r == reading.connection
           ph == [phase EXCEPT ![r] = "gone"]
<1>1. /\ reading # Idling /\ socket[r].st \in {"eof", "hup", "aborted"} /\ reading' = Idling
      /\ UNCHANGED <<connection, faults>> /\ todo' = todo
      /\ hook' = [name |-> "disconnect", client |-> r] /\ Service!remove_socket(r)
      /\ Settle(socket_descriptor, socket, ph)
  BY DEF receive_eof, EndOfStream, owner_vars, NoFault, drop_client, removeFromPollService, Call
<1>2. /\ ServiceOK /\ KernelOK(socket_descriptor, socket, phase, leaked, faults)
      /\ r \in Conns /\ socket_descriptor[r] # NoFd /\ r \in Service!Reported /\ hook = NoHook
  BY <1>1, ReadingExists DEF IInv, EndpointInv
<1>3. KernelOK(socket_descriptor, socket, ph, leaked, faults')
  BY <1>1, <1>2, PhaseChange
<1> HIDE DEF ph
<1>4. Outcome(socket_descriptor, socket, ph) /\ Service!Watched' = Service!Watched \ {r}
  BY <1>1, <1>2, <1>3, RemoveOutcome
<1>5. /\ SocketsCalm(socket, connection', m) /\ PassCalm(todo, reading, hook, m)
      /\ m # NULL => m \in Service!Watched'
  BY <1>1, <1>4 DEF ServerCalm, Calm, SocketsCalm
<1>6. SocketsCalm(socket', connection', m) /\ (m # NULL => socket'[m] = socket[m])
  BY <1>4, <1>5, CalmAfter
<1>7. PassCalm(todo', reading', hook', m)
  BY <1>1, <1>5 DEF PassCalm, Idling
<1>8. Chunks(socket', reading', hook', m) = ServerChunks(m)
  <2>1. reading.part # "body"
    <3>1. reading.part = "body" => r = m /\ m # NULL
      BY <1>2, <1>5, NullAssumption DEF PassCalm
    <3> QED BY <1>1, <1>5, <3>1 DEF SocketsCalm
  <2> QED BY <1>1, <1>2, <1>6, <2>1 DEF ServerChunks, Chunks, Idling, NoHook
<1> QED BY <1>1, <1>2, <1>5, <1>6, <1>7, <1>8 DEF Calm

\* accept() fails: the pass ends, with nothing in it.
LEMMA CalmAcceptThrows ==
    ASSUME IInv, NEW e \in todo, accept_throws(e), NEW m \in Conns \cup {NULL}, ServerCalm(m)
    PROVE  /\ Calm(socket', connection', Service!Watched', todo', reading', hook', m)
           /\ Chunks(socket', reading', hook', m) = ServerChunks(m)
           /\ hook' = NoHook /\ hook = NoHook
<1>1. /\ hook = NoHook /\ reading = Idling /\ todo' = {} /\ reading' = Idling /\ hook' = NoHook
      /\ UNCHANGED service_vars /\ connection' = connection /\ faults' = faults
      /\ Settle(socket_descriptor, socket, phase)
  BY DEF accept_throws, Throw, owner_vars, NoFault, SettleAsIs
<1>2. /\ Outcome(socket_descriptor, socket, phase) /\ Service!Watched' = Service!Watched
  BY <1>1, KeepOutcome DEF IInv, EndpointInv
<1>3. SocketsCalm(socket, connection', m) /\ (m # NULL => m \in Service!Watched')
  BY <1>1, <1>2 DEF ServerCalm, Calm
<1>4. SocketsCalm(socket', connection', m) /\ (m # NULL => socket'[m] = socket[m])
  BY <1>2, <1>3, CalmAfter
<1>5. PassCalm(todo', reading', hook', m)
  BY <1>1 DEF PassCalm, Idling, NoHook
<1> QED BY <1>1, <1>3, <1>4, <1>5 DEF Calm, ServerChunks, Chunks

\* A pass neither loses nor doubles a chunk, whom it accepts or drops besides.
LEMMA CalmServerRuns ==
    ASSUME IInv, NEW m \in Conns \cup {NULL}, ServerCalm(m),
           \/ poll \/ Dispatch
           \/ Receive /\ faults' = faults /\ (reading.part = "body" => hook'.name = "message")
    PROVE  /\ Calm(socket', connection', Service!Watched', todo', reading', hook', m)
           /\ Chunks(socket', reading', hook', m) = ServerChunks(m)
           /\ hook = NoHook
           /\ hook'.name = "connect" =>
                 /\ hook'.client \in Conns
                 /\ m = NULL =>
                      /\ Calm(socket', connection', Service!Watched', todo', reading', hook', hook'.client)
                      /\ Chunks(socket', reading', hook', hook'.client) = ServerChunks(NULL)
<1>1. EndpointInv /\ Calm(socket, connection, Service!Watched, todo, reading, hook, m)
  BY DEF IInv, ServerCalm
<1>2. CASE poll
  <2>1. poll_service /\ hook = NoHook /\ hook'.name # "connect"
    BY <1>2 DEF poll, poll_service, InPass, NoHook
  <2> QED BY <1>1, <2>1, CalmPoll DEF ServerChunks
<1>3. CASE Dispatch
  <2>1. PICK e \in todo :
           \/ server_trouble(e) \/ handle_connection_request(e) \/ accept_throws(e)
           \/ client_trouble(e) \/ handle_ready_to_read(e)
    BY <1>3 DEF Dispatch
  <2>2. e.status = "NORMAL"
    BY <1>1 DEF Calm, PassCalm
  <2>3. CASE handle_connection_request(e)
    BY <2>3, CalmAccept
  <2>4. CASE accept_throws(e)
    BY <2>4, CalmAcceptThrows DEF NoHook
  <2>5. CASE handle_ready_to_read(e)
    <3>1. Takes(e) /\ StartReading(e.connection)
      BY <2>5 DEF handle_ready_to_read
    <3>2. hook = NoHook
      BY <3>1 DEF Takes
    <3> QED BY <1>1, <3>1, <3>2, CalmReady DEF ServerChunks, NoHook
  <2> QED BY <2>1, <2>2, <2>3, <2>4, <2>5 DEF server_trouble, client_trouble
<1>4. CASE receive_id /\ faults' = faults
  <2>1. hook = NoHook
    BY <1>1, <1>4 DEF receive_id, Idling, EndpointInv, PassOK
  <2> QED BY <1>1, <1>4, <2>1, CalmReceiveId DEF ServerChunks, NoHook
<1>5. CASE receive_body /\ hook'.name = "message"
  BY <1>1, <1>5, CalmReceiveBody DEF ServerChunks
<1>6. CASE receive_eof
  BY <1>6, CalmEof
<1>7. ~ receive_throws
  <2>1. reading # Idling => socket[reading.connection].st # "listening"
    BY <1>1, ReadingServer DEF Calm, SocketsCalm
  <2> QED BY <1>1, <2>1, CalmNeverThrows
<1> QED BY <1>2, <1>3, <1>4, <1>5, <1>6, <1>7 DEF Receive, receive_body

\* A connection comes into the backlog.
LEMMA CalmPeerConnects ==
    ASSUME IInv, NEW l \in Conns, peer_connects(l), NEW m \in Conns \cup {NULL}, ServerCalm(m)
    PROVE  /\ Calm(socket', connection', Service!Watched', todo', reading', hook', m)
           /\ Chunks(socket', reading', hook', m) = ServerChunks(m)
           /\ UNCHANGED <<todo, reading, hook>>
<1>1. /\ UNCHANGED <<connection, todo, reading, hook>> /\ Service!Watched' = Service!Watched
      /\ socket[l].st = "listening"
      /\ socket' = [socket EXCEPT ![l] = [socket[l] EXCEPT !.pending = @ + 1]]
  BY DEF peer_connects, Changes, owner_vars, pass_vars, service_vars, Service!Watched
<1>2. socket \in [Conns -> [st : SocketStates, pending : 0 .. MaxPending]]
  BY DEF IInv, EndpointInv, KernelOK
<1>3. /\ socket'[l].st = "listening" /\ \A c \in Conns \ {l} : socket'[c] = socket[c]
  BY <1>1, <1>2
<1>4. m # NULL => socket[m].st = "estab"
  BY DEF ServerCalm, Calm, SocketsCalm
<1>5. SocketsCalm(socket', connection', m)
  BY <1>1, <1>3, <1>4 DEF ServerCalm, Calm, SocketsCalm
<1>6. m # NULL => socket'[m] = socket[m]
  BY <1>1, <1>3, <1>4
<1>7. Calm(socket', connection', Service!Watched', todo', reading', hook', m)
  BY <1>1, <1>5 DEF ServerCalm, Calm
<1>8. Chunks(socket', reading', hook', m) = ServerChunks(m)
  <2>1. reading' = reading /\ hook' = hook
    BY <1>1
  <2>2. (IF m = NULL THEN 0 ELSE socket'[m].pending) = (IF m = NULL THEN 0 ELSE socket[m].pending)
    BY <1>6
  <2> QED BY <2>1, <2>2 DEF ServerChunks, Chunks
<1> QED BY <1>1, <1>7, <1>8

\* A visitor closes its connection.
LEMMA CalmPeerCloses ==
    ASSUME IInv, NEW m \in Conns \cup {NULL}, NEW c \in Conns \ {m}, peer_closes(c), ServerCalm(m)
    PROVE  /\ Calm(socket', connection', Service!Watched', todo', reading', hook', m)
           /\ Chunks(socket', reading', hook', m) = ServerChunks(m)
           /\ UNCHANGED <<todo, reading, hook>>
<1>1. /\ UNCHANGED <<connection, todo, reading, hook>> /\ Service!Watched' = Service!Watched
      /\ socket[c].st = "estab" /\ socket' = [socket EXCEPT ![c] = [socket[c] EXCEPT !.st = "eof"]]
  BY DEF peer_closes, Changes, owner_vars, pass_vars, service_vars, Service!Watched
<1>2. socket \in [Conns -> [st : SocketStates, pending : 0 .. MaxPending]]
  BY DEF IInv, EndpointInv, KernelOK
<1>3. /\ socket'[c].st = "eof" /\ socket'[c].pending = socket[c].pending
      /\ \A d \in Conns \ {c} : socket'[d] = socket[d]
  BY <1>1, <1>2
<1>4. SocketsCalm(socket', connection', m) /\ (m # NULL => socket'[m] = socket[m])
  BY <1>1, <1>3 DEF ServerCalm, Calm, SocketsCalm
<1> QED BY <1>1, <1>4 DEF ServerCalm, Calm, ServerChunks, Chunks

-----------------------------------------------------------------------------
(* The theorems.                                                            *)

\* A new server has nothing.
LEMMA InitInvariant == Init => IInv /\ Service!Init /\ Hooks!Init
<1> SUFFICES ASSUME Init PROVE IInv /\ Service!Init /\ Hooks!Init
  OBVIOUS
<1>1. /\ EndpointInv /\ Service!Init /\ Service!Watched = {} /\ ~ InPass
      /\ state = "CLOSED"
  BY InitEndpoint DEF Init
<1>2. connection = NULL /\ hook = NoHook /\ phase = [c \in Conns |-> "absent"]
      /\ todo = {} /\ reading = Idling
  BY DEF Init, EndpointInit
<1>3. IInv
  BY <1>1, <1>2 DEF IInv, States, DestructedOK, ServerOK, OwnOK, ClientsOK, ClosedOK, EntriesOK, ReadOK
<1> QED BY <1>1, <1>2, <1>3 DEF Hooks!Init, Hooks!NoHook, NoHook

\* Every step is good.
LEMMA NextStep == IInv /\ [Next]_vars => Good
<1> SUFFICES ASSUME IInv, [Next]_vars PROVE Good
  OBVIOUS
<1>1. CASE open \/ close \/ destruct \/ turn_away
  BY <1>1, OpenGood, CloseGood, DestructGood, TurnAwayGood
<1>2. CASE serve
  <2>1. /\ state = "OPEN" /\ state' = "SERVE"
        /\ UNCHANGED <<service_vars, connection, pass_vars, kernel_vars, faults>>
    BY <1>2 DEF serve, state_transition
  <2> QED BY <2>1, StateGood
<1>3. CASE construct
  <2>1. /\ state = "DESTRUCTING" /\ state' = "CLOSED"
        /\ UNCHANGED <<service_vars, connection, pass_vars, kernel_vars, faults>>
    BY <1>3 DEF construct
  <2> QED BY <2>1, StateGood
<1>4. CASE poll \/ poll_throws
  BY <1>4, PollGood, PollThrowsGood
<1>5. CASE Dispatch
  BY <1>5, ServerTroubleGood, AcceptGood, AcceptThrowsGood, ClientTroubleGood, ReadyGood DEF Dispatch
<1>6. CASE Receive
  BY <1>6, ReceiveIdGood, ReceiveBodyGood, ReceiveEofGood, ReceiveThrowsGood DEF Receive
<1>7. CASE hook_returns \/ hook_throws
  BY <1>7, HookReturnsGood, HookThrowsGood
<1>8. CASE \E c \in Conns : Peer(c)
  BY <1>8, PeerGood
<1>9. CASE UNCHANGED vars
  <2>1. /\ UNCHANGED <<service_vars, results, connection, state, todo, reading, hook, socket_descriptor,
                       phase, socket, leaked, faults>>
        /\ ServiceOK /\ PassOK /\ KernelOK(socket_descriptor, socket', phase, leaked, faults')
    BY <1>9 DEF vars, service_vars, owner_vars, pass_vars, kernel_vars, IInv, EndpointInv
  <2>2. /\ Outcome(socket_descriptor, socket', phase) /\ UNCHANGED Service!vars
        /\ Service!Watched' = Service!Watched
    BY <2>1, StillOutcome
  <2>3. PassOK' /\ Keeps(socket')
    BY <2>1 DEF PassOK, Keeps, Service!Reported
  <2> QED BY <2>1, <2>2, <2>3, SocketsGood
<1> QED BY <1>1, <1>2, <1>3, <1>4, <1>5, <1>6, <1>7, <1>8, <1>9 DEF Next

\* What the invariant says, in the words of the specification.
LEMMA Consequences ==
    ASSUME IInv
    PROVE  /\ TypeOK /\ ClosedHoldsNothing /\ WatchesListenerAndClients
           /\ OnlyResultsKeepTheListener /\ LeaksArePaidByFaults
<1>1. /\ ServiceOK /\ KernelOK(socket_descriptor, socket, phase, leaked, faults)
      /\ Service!Alive = owned \cup Service!Watched \cup Service!Reported
  BY DEF IInv, EndpointInv, ServiceOK
<1>2. TypeOK
  BY EndpointTypes DEF IInv, TypeOK, States
<1>3. state \in {"CLOSED", "DESTRUCTING"} => Service!Watched = {} /\ connection = NULL
  BY DEF IInv, ServerOK, ClosedOK
<1>4. connection = NULL /\ ~ InPass => owned = {}
  BY DEF owned, InPass, NoHook
<1>5. state = "DESTRUCTING" => Service!Alive = {}
  <2> SUFFICES ASSUME state = "DESTRUCTING" PROVE Service!Alive = {}
    OBVIOUS
  <2>1. ~ InPass /\ results = {}
    BY DEF IInv, DestructedOK
  <2>2. Service!Reported = {}
    BY <2>1 DEF Service!Reported
  <2> QED BY <1>1, <1>3, <1>4, <2>1, <2>2
<1>6. WatchesListenerAndClients
  BY DEF IInv, ServerOK, OwnOK, ClientsOK, WatchesListenerAndClients, server_connection
<1>7. OnlyResultsKeepTheListener
  <2> SUFFICES ASSUME state = "CLOSED", ~ InPass, NEW c \in Listening
               PROVE  c \in {e.connection : e \in results}
    BY DEF OnlyResultsKeepTheListener
  <2>1. c \in Service!Alive
    BY <1>1 DEF Listening, KernelOK, NoSocket, Service!Alive
  <2>2. c \in Service!Reported
    BY <1>1, <1>3, <1>4, <2>1
  <2> QED BY <2>2 DEF Service!Reported
<1>8. LeaksArePaidByFaults
  BY <1>1, LeaksArePaid DEF LeaksArePaidByFaults
<1> QED BY <1>2, <1>3, <1>5, <1>6, <1>7, <1>8 DEF ClosedHoldsNothing, server_connection

\* The state, the service, the pass and the sockets of a server are always of
\* their types.
THEOREM TypeCorrect == Spec => []TypeOK
<1> QED BY InitInvariant, NextStep, Consequences, PTL DEF Spec, Good

\* A server that is closed watches nothing and has no connection, and of one
\* that is destructed none is left, whatever the hooks of a pass called.
THEOREM HoldsNothingWhenClosed == Spec => []ClosedHoldsNothing
<1> QED BY InitInvariant, NextStep, Consequences, PTL DEF Spec, Good

\* The listener is always watched, and all else that is watched is a client
\* that was announced and whose last hook has not run: no stale result of a
\* pass takes the listener or a client of a later open() out.
THEOREM WatchesWhatItServes == Spec => []WatchesListenerAndClients
<1> QED BY InitInvariant, NextStep, Consequences, PTL DEF Spec, Good

\* After close() only the results of the last poll() keep a listening socket.
THEOREM ListenerGoesWithTheResults == Spec => []OnlyResultsKeepTheListener
<1> QED BY InitInvariant, NextStep, Consequences, PTL DEF Spec, Good

\* The descriptors that are lost are at most the resets and failed calls: peers
\* that come and go in order cost nothing, in any number.
THEOREM LosesOnlyToFaults == Spec => []LeaksArePaidByFaults
<1> QED BY InitInvariant, NextStep, Consequences, PTL DEF Spec, Good

\* No client leaves the service of a server that is not closed without its last
\* hook, unless a hook turns it away.
THEOREM TellsWhoLeaves == Spec => LeavesWithItsHook
<1>1. IInv /\ [Next]_vars => [Leaves]_vars
  BY NextStep DEF Good
<1> QED BY <1>1, InitInvariant, NextStep, PTL DEF Spec, Good, LeavesWithItsHook, Leaves

\* Nothing is accepted by a pass that goes on after close().
THEOREM AcceptsWhileServing == Spec => AcceptsOnlyWhileServing
<1>1. IInv /\ [Next]_vars => [AcceptsServing]_vars
  BY NextStep DEF Good
<1> QED BY <1>1, InitInvariant, NextStep, PTL DEF Spec, Good, AcceptsOnlyWhileServing, AcceptsServing

\* A server uses its service as PollService allows, so that all that is proved
\* of PollService holds below every server.
THEOREM UsesTheService == Spec => ServiceSpec
<1> QED BY InitInvariant, NextStep, PTL DEF Spec, Good, ServiceSpec, Service!Spec

\* The hooks of a server run in the order that ServerHooks allows: each client
\* is announced, heard of, and ended at most once.
THEOREM ImplementsHooks == Spec => HooksSpec
<1> QED BY InitInvariant, NextStep, PTL DEF Spec, Good, HooksSpec, Hooks!Spec
=============================================================================
