------------------------------ MODULE WatchSet ------------------------------
(***************************************************************************)
(* What a PollService promises to the Server and the Client that own one:  *)
(* it is a set of watched connections, and a poll reports some of them,    *)
(* each once and with one status.  There are no descriptors, no positions  *)
(* and no map here; PollService.tla implements this specification.         *)
(***************************************************************************)
CONSTANT Conns          \* the SocketConnection objects that may be watched

VARIABLES watched,      \* the connections the service watches
          reported      \* the entries the last poll returned

vars == <<watched, reported>>

\* socket_collection.h: enum SocketStatus
Statuses == {"NORMAL", "DISCONNECT", "ERROR"}

Init == watched = {} /\ reported = {}

Watch(c) == 
    /\ c \notin watched
    /\ watched' = watched \cup {c}
    /\ UNCHANGED reported

Unwatch(c) == 
    /\ c \in watched
    /\ watched' = watched \ {c}
    /\ UNCHANGED reported

UnwatchAll == 
    /\ watched' = {}
    /\ UNCHANGED reported

\* A poll reports a subset of the watched connections, one status for each.
\* A poll that fails reports none.
Report == 
    /\ reported' \in SUBSET [connection : watched, status : Statuses]
    /\ \A e1, e2 \in reported' : e1.connection = e2.connection => e1 = e2
    /\ UNCHANGED watched

\* The service goes, and with it what it reported.
End == watched' = {} /\ reported' = {}

Next == 
    \/ \E c \in Conns : Watch(c) \/ Unwatch(c)
    \/ UnwatchAll
    \/ Report
    \/ End

Spec == Init /\ [][Next]_vars
=============================================================================
