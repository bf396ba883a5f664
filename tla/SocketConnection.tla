-------------------------- MODULE SocketConnection --------------------------
(***************************************************************************)
(* The constructors and the destructor of SocketConnection                 *)
(* (src/src/socket_connection.cpp): two atomic counters decide when the    *)
(* sockets API of the process (WinSock) is initialized and quit, and       *)
(* address_info owns what getaddrinfo() allocated.                         *)
(*                                                                         *)
(* Each access to a counter and each call of the API is a step, so that    *)
(* threads that construct and destruct connections interleave as the       *)
(* std::atomic_uint counters let them.                                     *)
(***************************************************************************)
EXTENDS Integers, FiniteSets

CONSTANTS Threads,      \* the threads that make and drop connections
          Conns,        \* SocketConnection objects
          Nobody,       \* no object
          W,            \* the counters are unsigned: arithmetic modulo W
          MaxMade,      \* bound: constructor calls in a run
          MaxFaults     \* bound: failing calls of the API in a run

ASSUME NobodyAssumption == Nobody \notin Conns
ASSUME BoundsAssumption == {W, MaxMade, MaxFaults} \subseteq Nat /\ W > 2 * MaxMade

VARIABLES open_connection_count, initializations,  \* the static counters
          api,          \* how often the process has the API initialized
          objects,      \* "none", "making", "open" or "closing"
          address_info, \* of each object: "none", "hints", "result", "garbage"
          addrinfos,    \* results of getaddrinfo() that are in memory
          corrupted,    \* whether a garbage pointer was freed
          pc,           \* where each thread is, and with which object
          overlapped,   \* history: constructed during the loop of a destructor
          made, faults  \* constructor calls and failures so far

counters == <<open_connection_count, initializations>>
info_vars == <<address_info, addrinfos, corrupted>>
vars == <<counters, api, objects, info_vars, pc, overlapped, made, faults>>

Idle == [at |-> "idle", conn |-> Nobody, retry |-> FALSE, accepted |-> FALSE]

IsOpen(c) == objects[c] = "open"

Goto(t, step) == pc' = [pc EXCEPT ![t].at = step]
Finish(t) == pc' = [pc EXCEPT ![t] = Idle]
Becomes(t, what) == objects' = [objects EXCEPT ![pc[t].conn] = what]

\* An exception leaves the constructor: the destructor does not run for an
\* object that was never made.
Throw(t) == 
    /\ faults < MaxFaults /\ faults' = faults + 1
    /\ Becomes(t, "none") /\ Finish(t)
    /\ address_info' = [address_info EXCEPT ![pc[t].conn] = "none"]
    /\ UNCHANGED <<addrinfos, corrupted>>

\* Destructors that have seen the count at zero and not ended.
Draining(t) == pc[t].at \in {"while", "quit"}

-----------------------------------------------------------------------------
(* The constructors.  The second one takes the descriptor accept() gave for *)
(* a connection of an open listener, and makes no socket of its own.        *)

\* if (open_connection_count++ == 0) initialize_api();
construct(t, c, accepted) == 
    /\ pc[t] = Idle /\ objects[c] = "none"
    /\ made < MaxMade /\ made' = made + 1
    /\ accepted => api > 0 /\ \E l \in Conns : IsOpen(l)
    /\ open_connection_count' = (open_connection_count + 1) % W
    /\ objects' = [objects EXCEPT ![c] = "making"]
    /\ pc' = [pc EXCEPT ![t] = 
                 [at |-> IF open_connection_count = 0 THEN "initialize" ELSE "open_socket",
                  conn |-> c, retry |-> FALSE, accepted |-> accepted]]
    /\ address_info' = [address_info EXCEPT ![c] = "hints"]
    /\ overlapped' = (overlapped \/ \E u \in Threads : Draining(u))
    /\ UNCHANGED <<initializations, api, addrinfos, corrupted, faults>>

\* initialize_api: the call, which may fail, and then the counter.
initialize_socket_api(t) == 
    /\ pc[t].at = "initialize"
    /\ \/ /\ api' = api + 1
          /\ Goto(t, "initialized")
          /\ UNCHANGED <<objects, info_vars, faults>>
       \/ Throw(t) /\ UNCHANGED api
    /\ UNCHANGED <<counters, overlapped, made>>

count_initialization(t) == 
    /\ pc[t].at = "initialized"
    /\ initializations' = (initializations + 1) % W
    /\ Goto(t, "open_socket")
    /\ UNCHANGED <<open_connection_count, api, objects, info_vars, overlapped, made, faults>>

\* open_socket: without the API it fails and the API is initialized, once
\* more; the second failure throws, and so does any other one.
open_socket(t) == 
    /\ pc[t].at = "open_socket"
    /\ \/ /\ api > 0 \/ pc[t].accepted
          /\ Becomes(t, "open") /\ Finish(t)
          /\ UNCHANGED <<info_vars, faults>>
       \/ /\ api = 0 /\ ~ pc[t].accepted /\ ~ pc[t].retry
          /\ pc' = [pc EXCEPT ![t].at = "initialize", ![t].retry = TRUE]
          /\ UNCHANGED <<objects, info_vars, faults>>
       \/ /\ ~ pc[t].accepted /\ (api = 0 => pc[t].retry)
          /\ Throw(t)
    /\ UNCHANGED <<counters, api, overlapped, made>>

-----------------------------------------------------------------------------
(* bind() and connect(): the address is looked up.  Server and Client call  *)
(* one of them once for a connection they made.                             *)

\* Variant: initialized is not set with the result.
result_unmarked(c) == address_info' = [address_info EXCEPT ![c] = "hints"]
keep_result(c) == address_info' = [address_info EXCEPT ![c] = "result"]

\* When getaddrinfo() fails, its result has no value, and is kept like one.
set_socket_info(t, c) == 
    /\ pc[t] = Idle /\ IsOpen(c) /\ address_info[c] = "hints"
    /\ \/ keep_result(c) /\ addrinfos' = addrinfos + 1 /\ UNCHANGED faults
       \/ /\ faults < MaxFaults /\ faults' = faults + 1
          /\ address_info' = [address_info EXCEPT ![c] = "garbage"] /\ UNCHANGED addrinfos
    /\ UNCHANGED <<counters, api, objects, corrupted, pc, overlapped, made>>

-----------------------------------------------------------------------------
(* The destructor.                                                          *)

destruct(t, c) == 
    /\ pc[t] = Idle /\ IsOpen(c)
    /\ objects' = [objects EXCEPT ![c] = "closing"]
    /\ pc' = [pc EXCEPT ![t] = [Idle EXCEPT !.at = "close_socket", !.conn = c]]
    /\ UNCHANGED <<counters, api, info_vars, overlapped, made, faults>>

\* The members go after the body of the destructor: addrinfo_delete frees what
\* is marked as a result, also one that has no value: nothing happens, or some
\* other memory is freed.  Hints are not freed at all.
addrinfo_delete(c) == 
    /\ address_info' = [address_info EXCEPT ![c] = "none"]
    /\ addrinfos' = IF address_info[c] = "result" THEN addrinfos - 1 ELSE addrinfos
    /\ corrupted' \in IF address_info[c] = "garbage" THEN {corrupted, TRUE} ELSE {corrupted}

\* Variant: the API is quit with every connection.
quit_every_time(t) == 
    /\ pc[t].at = "close_socket"
    /\ open_connection_count' = (open_connection_count - 1) % W
    /\ Goto(t, "while")
    /\ UNCHANGED <<objects, initializations, api, info_vars, overlapped, made, faults>>

\* close_socket(), then if (--open_connection_count == 0)
count_down(t) == 
    /\ pc[t].at = "close_socket"
    /\ open_connection_count' = (open_connection_count - 1) % W
    /\ IF open_connection_count' = 0 THEN Goto(t, "while") /\ UNCHANGED <<objects, info_vars>>
       ELSE Becomes(t, "none") /\ Finish(t) /\ addrinfo_delete(pc[t].conn)
    /\ UNCHANGED <<initializations, api, overlapped, made, faults>>

\* Variant: a signed counter.
test_signed(t) == 
    /\ pc[t].at = "while"
    /\ initializations' = initializations - 1
    /\ IF initializations > 0 THEN Goto(t, "quit") /\ UNCHANGED <<objects, info_vars>>
       ELSE Becomes(t, "none") /\ Finish(t) /\ addrinfo_delete(pc[t].conn)
    /\ UNCHANGED <<open_connection_count, api, overlapped, made, faults>>

\* Variant: do ... while, one turn too many.
test_after_quit(t) == 
    /\ pc[t].at = "while"
    /\ initializations' = (initializations - 1) % W
    /\ IF initializations >= 0 THEN Goto(t, "quit") /\ UNCHANGED <<objects, info_vars>>
       ELSE Becomes(t, "none") /\ Finish(t) /\ addrinfo_delete(pc[t].conn)
    /\ UNCHANGED <<open_connection_count, api, overlapped, made, faults>>

\* while (initializations-- > 0): the counter is decremented by the test that
\* ends the loop, too.
test_initializations(t) == 
    /\ pc[t].at = "while"
    /\ initializations' = (initializations - 1) % W
    /\ IF initializations > 0 THEN Goto(t, "quit") /\ UNCHANGED <<objects, info_vars>>
       ELSE Becomes(t, "none") /\ Finish(t) /\ addrinfo_delete(pc[t].conn)
    /\ UNCHANGED <<open_connection_count, api, overlapped, made, faults>>

\* WSACleanup fails without effect when the API is not initialized.
quit_socket_api(t) == 
    /\ pc[t].at = "quit"
    /\ api' = IF api > 0 THEN api - 1 ELSE 0
    /\ Goto(t, "while")
    /\ UNCHANGED <<counters, objects, info_vars, overlapped, made, faults>>

-----------------------------------------------------------------------------
Init == 
    /\ open_connection_count = 0 /\ initializations = 0
    /\ api = 0
    /\ objects = [c \in Conns |-> "none"]
    /\ address_info = [c \in Conns |-> "none"] /\ addrinfos = 0 /\ corrupted = FALSE
    /\ pc = [t \in Threads |-> Idle]
    /\ overlapped = FALSE
    /\ made = 0 /\ faults = 0

Step(t) == 
    \/ \E c \in Conns, accepted \in BOOLEAN : construct(t, c, accepted)
    \/ initialize_socket_api(t) \/ count_initialization(t) \/ open_socket(t)
    \/ \E c \in Conns : set_socket_info(t, c) \/ destruct(t, c)
    \/ count_down(t) \/ test_initializations(t) \/ quit_socket_api(t)

Next == \E t \in Threads : Step(t)

Spec == Init /\ [][Next]_vars

-----------------------------------------------------------------------------
Steps == {"idle", "initialize", "initialized", "open_socket", "close_socket", "while", "quit"}

TypeOK == 
    /\ open_connection_count \in 0 .. W - 1
    /\ initializations \in 0 .. W - 1
    /\ api \in Nat
    /\ objects \in [Conns -> {"none", "making", "open", "closing"}]
    /\ pc \in [Threads -> [at : Steps, conn : Conns \cup {Nobody}, 
                           retry : BOOLEAN, accepted : BOOLEAN]]
    /\ address_info \in [Conns -> {"none", "hints", "result", "garbage"}]
    /\ addrinfos \in Nat /\ {corrupted, overlapped} \subseteq BOOLEAN
    /\ made \in 0 .. MaxMade /\ faults \in 0 .. MaxFaults

\* The API is initialized as long as a connection is open, through failed
\* constructors, repeated initializations, generations of connections and every
\* interleaving of the threads but one: a constructor that runs during the loop
\* of the last destructor is outrun, as the two counters are two atomics, and
\* may lose the API it has just counted.  After that nothing is claimed any more.
ApiUpWhileOpen == ~ overlapped => \A c \in Conns : IsOpen(c) => api > 0

\* As long as that overlap has not happened, the loop of a destructor runs
\* alone and on a counter that has not wrapped, and quits the API only as often
\* as it was initialized.  After it two loops may run at once, and the second
\* goes on with the wrapped counter of the first.
NoUnmatchedQuit == 
    ~ overlapped => 
       \A t \in Threads : 
          /\ Draining(t) => initializations <= made /\ \A u \in Threads : Draining(u) => u = t
          /\ pc[t].at = "quit" => api > 0

\* Every result of getaddrinfo() has exactly one owner and goes with it, none
\* lost and none freed twice, until the pointer of a getaddrinfo() that failed
\* was freed; and such a pointer exists only after a call has failed.
ResultsHaveOneOwner == 
    /\ ~ corrupted => addrinfos = Cardinality({c \in Conns : address_info[c] = "result"})
    /\ corrupted \/ (\E c \in Conns : address_info[c] = "garbage") => faults > 0
=============================================================================
