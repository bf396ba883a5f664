---------------------------- MODULE PollService ----------------------------
(***************************************************************************)
(* PollService (src/src/pollservice.cpp): the vector of poll() descriptors *)
(* and the map that points into it, kept in step by hand, and the          *)
(* collection of results that every poll() refills.                        *)
(*                                                                         *)
(* The map and the results hold shared_ptrs, so they decide, with the      *)
(* references the callers keep, which SocketConnection objects exist: an   *)
(* object that nobody refers to is destructed and its descriptor closed,   *)
(* and the kernel may give the same number to the next socket.             *)
(***************************************************************************)
EXTENDS Integers, Sequences, SequencesExt

CONSTANTS Conns,        \* the SocketConnection objects
          Fds,          \* the descriptor numbers the kernel hands out
          NULL,         \* the null shared_ptr
          NoFd,         \* the descriptor of an object that does not exist
          Revents       \* the sets of flags poll() returns for an open descriptor

Flags == {"POLLIN", "POLLERR", "POLLNVAL", "POLLHUP"}

ASSUME ConnsAssumption == NULL \notin Conns
ASSUME FdsAssumption == NoFd \notin Fds
ASSUME ReventsAssumption == Revents \subseteq SUBSET Flags /\ {} \in Revents

VARIABLES descriptors,          \* the descriptors handed to poll(), in order
          poll_descriptor_map,  \* descriptor |-> [0-based index, socket]
          results,              \* the shared collection poll() returns
          socket_descriptor,    \* the descriptor of each object that exists
          owned                 \* the objects referred to from elsewhere

vars == <<descriptors, poll_descriptor_map, results, socket_descriptor, owned>>

Statuses == {"NORMAL", "DISCONNECT", "ERROR"}

Alive == {c \in Conns : socket_descriptor[c] # NoFd}
Open == {socket_descriptor[c] : c \in Alive}

-----------------------------------------------------------------------------
(* Operations on the vector and the map.  The variants are plausible bugs   *)
(* of the definition below them; no specification uses them, they show that *)
(* the properties can tell.                                                 *)

\* Variant: the entries after the erased one keep their index.
not_reindexed(m, d, k) == m

\* m[d[i].fd].first = i for every position from the 0-based index k on.
\* operator[] creates an entry with a null socket for a descriptor it misses.
Reindexed(m, d, k) == 
    LET later(f) == {i \in k + 1 .. Len(d) : d[i] = f}
    IN [f \in DOMAIN m \cup {d[i] : i \in k + 1 .. Len(d)} |->
          IF later(f) = {} THEN m[f]
          ELSE [index  |-> Max(later(f)) - 1,
                socket |-> IF f \in DOMAIN m THEN m[f].socket ELSE NULL]]

\* Variant: the index is taken one too low.
add_index_low(c, f) == 
    /\ descriptors' = Append(descriptors, f)
    /\ poll_descriptor_map' =
          [g \in DOMAIN poll_descriptor_map \cup {f} |->
              IF g = f THEN [index |-> Len(descriptors) - 1, socket |-> c]
              ELSE poll_descriptor_map[g]]
    /\ UNCHANGED results

add_socket(c, f) == 
    /\ descriptors' = Append(descriptors, f)
    /\ poll_descriptor_map' =
          [g \in DOMAIN poll_descriptor_map \cup {f} |->
              IF g = f THEN [index |-> Len(descriptors), socket |-> c]
              ELSE poll_descriptor_map[g]]
    /\ UNCHANGED results

\* Variant: the vector is shortened after the loop, which so meets the
\* descriptor that has left the map.
remove_out_of_order(c) == 
    LET f == socket_descriptor[c]
        k == poll_descriptor_map[f].index
    IN /\ IF f \in DOMAIN poll_descriptor_map
          THEN /\ descriptors' = RemoveAt(descriptors, k + 1)
               /\ poll_descriptor_map' = 
                     Reindexed(Restrict(poll_descriptor_map, DOMAIN poll_descriptor_map \ {f}), descriptors, k)
          ELSE UNCHANGED <<descriptors, poll_descriptor_map>>
       /\ UNCHANGED results

remove_socket(c) == 
    LET f == socket_descriptor[c]
        k == poll_descriptor_map[f].index
        d == RemoveAt(descriptors, k + 1)
    IN /\ IF f \in DOMAIN poll_descriptor_map
          THEN /\ descriptors' = d
               /\ poll_descriptor_map' = Reindexed(Restrict(poll_descriptor_map, DOMAIN poll_descriptor_map \ {f}), d, k)
          ELSE UNCHANGED <<descriptors, poll_descriptor_map>>
       /\ UNCHANGED results

clear_sockets == 
    /\ descriptors' = << >>
    /\ poll_descriptor_map' = [f \in {} |-> NULL]
    /\ UNCHANGED results

\* The service is destructed, with its three members.
destruct == 
    /\ descriptors' = << >>
    /\ poll_descriptor_map' = [f \in {} |-> NULL]
    /\ results' = {}

-----------------------------------------------------------------------------
(* poll().  rev gives the flags of each descriptor in the vector: some of   *)
(* Revents for an open one, POLLNVAL for a number that is not open.         *)

Polled == {rev \in [ToSet(descriptors) -> Revents \cup {{"POLLNVAL"}}] :
              \A f \in DOMAIN rev : IF f \in Open THEN rev[f] \in Revents
                                    ELSE rev[f] = {"POLLNVAL"}}

Ready(flags) == flags \cap Flags # {}

Status(flags) == 
    IF flags \cap {"POLLERR", "POLLNVAL"} # {} THEN "ERROR"
    ELSE IF "POLLHUP" \in flags THEN "DISCONNECT"
    ELSE "NORMAL"

\* Variant: only readable descriptors are looked at.
readable_hits(rev) == 
    {i \in DOMAIN descriptors : 
        "POLLIN" \in rev[descriptors[i]] /\ descriptors[i] \in DOMAIN poll_descriptor_map}

\* The positions poll() finds ready, and those whose map entry holds no
\* socket: there it throws InvalidSocketConnectionException, and what is
\* after the first of them is never inserted.
Hits(rev) == {i \in DOMAIN descriptors : 
                 Ready(rev[descriptors[i]]) /\ descriptors[i] \in DOMAIN poll_descriptor_map}
Invalid(rev) == {i \in Hits(rev) : poll_descriptor_map[descriptors[i]].socket = NULL}
Inserted(rev) == {i \in Hits(rev) : \A j \in Invalid(rev) : i < j}

Found(rev) == {[connection |-> poll_descriptor_map[descriptors[i]].socket,
                status     |-> Status(rev[descriptors[i]])] : i \in Inserted(rev)}

\* Variant: the results of the last poll are not cleared.
poll_adds(rev) == 
    /\ results' = results \cup Found(rev)
    /\ UNCHANGED <<descriptors, poll_descriptor_map>>

poll(rev) == 
    /\ results' = Found(rev)
    /\ UNCHANGED <<descriptors, poll_descriptor_map>>

\* The OS call itself fails: results was cleared, PollException is thrown.
poll_error == 
    /\ results' = {}
    /\ UNCHANGED <<descriptors, poll_descriptor_map>>

-----------------------------------------------------------------------------
(* Object lifetime: what the shared_ptrs leave alive after a step.          *)

Watched == {poll_descriptor_map[f].socket : f \in DOMAIN poll_descriptor_map}
Reported == {e.connection : e \in results}

\* owned' is what the callers choose to keep; an object with no reference
\* left is destructed and its descriptor closed.  sd is the assignment of
\* descriptors before anything is destructed.
Settle(sd) == 
    /\ owned' \in SUBSET {c \in Conns : sd[c] # NoFd}
    /\ socket_descriptor' = [c \in Conns |->
          IF c \in owned' \cup Watched' \cup Reported' THEN sd[c] ELSE NoFd]

Created(c, f) == [socket_descriptor EXCEPT ![c] = f]

-----------------------------------------------------------------------------
(* The steps of a program that uses the service.                            *)

\* A connection is made: by its constructor or by accept().
NewSocket(c, f) == 
    /\ c \notin Alive /\ f \notin Open
    /\ UNCHANGED <<descriptors, poll_descriptor_map, results>>
    /\ Settle(Created(c, f))

\* A connection is made and watched at once, as open() and a connection
\* request do.
AddNewSocket(c, f) == 
    /\ c \notin Alive /\ f \notin Open
    /\ add_socket(c, f)
    /\ Settle(Created(c, f))

\* An existing connection is watched, as connect() does.  No caller adds one
\* that is watched already.
AddSocket(c) == 
    /\ c \in owned \ Watched
    /\ add_socket(c, socket_descriptor[c])
    /\ Settle(socket_descriptor)

\* A caller that still has the object, or found it in the results, removes it.
RemoveSocket(c) == 
    /\ c \in owned \cup Reported
    /\ remove_socket(c)
    /\ Settle(socket_descriptor)

ClearSockets == 
    /\ clear_sockets
    /\ Settle(socket_descriptor)

Destruct == 
    /\ destruct
    /\ Settle(socket_descriptor)

PollSockets == 
    /\ \E rev \in Polled : poll(rev)
    /\ Settle(socket_descriptor)

PollError == 
    /\ poll_error
    /\ Settle(socket_descriptor)

\* Callers drop references, or take some from what is watched or reported.
Drop == 
    /\ UNCHANGED <<descriptors, poll_descriptor_map, results>>
    /\ Settle(socket_descriptor)

Init == 
    /\ descriptors = << >>
    /\ poll_descriptor_map = [f \in {} |-> NULL]
    /\ results = {}
    /\ socket_descriptor = [c \in Conns |-> NoFd]
    /\ owned = {}

Next == 
    \/ \E c \in Conns, f \in Fds : NewSocket(c, f) \/ AddNewSocket(c, f)
    \/ \E c \in Conns : AddSocket(c) \/ RemoveSocket(c)
    \/ ClearSockets
    \/ Destruct
    \/ PollSockets
    \/ PollError
    \/ Drop

Spec == Init /\ [][Next]_vars

-----------------------------------------------------------------------------
Entries == [index : Nat, socket : Conns \cup {NULL}]

TypeOK == 
    /\ descriptors \in Seq(Fds)
    /\ DOMAIN poll_descriptor_map \subseteq Fds
    /\ \A f \in DOMAIN poll_descriptor_map : poll_descriptor_map[f] \in Entries
    /\ results \subseteq [connection : Conns, status : Statuses]
    /\ socket_descriptor \in [Conns -> Fds \cup {NoFd}]
    /\ owned \subseteq Conns

\* "Points to elements in descriptors for fast updating": after any sequence
\* of additions, removals and clears, the map has exactly the descriptors of
\* the vector and gives the position of each, so no descriptor is in twice.
MapPointsIntoDescriptors == 
    /\ DOMAIN poll_descriptor_map = ToSet(descriptors)
    /\ \A i \in DOMAIN descriptors : poll_descriptor_map[descriptors[i]].index = i - 1

\* The map gives a descriptor to the connection that has it now: there is no
\* null entry, and no entry of a destructed connection whose number the
\* kernel has given to another one.
EntriesAreCurrent == 
    \A f \in DOMAIN poll_descriptor_map :
        LET c == poll_descriptor_map[f].socket
        IN c \in Conns /\ socket_descriptor[c] = f

\* Two objects that exist never have the same descriptor.
DescriptorsDiffer == 
    \A c, d \in Alive : socket_descriptor[c] = socket_descriptor[d] => c = d

\* A poll misses no watched connection that is ready, and gives each the
\* status its own flags mean, whatever was added and removed before.  Entries
\* with status ERROR are among them: poll() of Server (server.h:169, 186) and of
\* Client (client.h:204) wait for them.  pollservice.h:68 says otherwise, that poll()
\* throws PollReturnEventException "if a specific socket encountered an error";
\* nothing throws that class.
PollIsExact == 
    \A rev \in Polled : \A c \in Watched : 
        LET flags == rev[socket_descriptor[c]]
        IN {e.status : e \in {e \in Found(rev) : e.connection = c}}
              = IF Ready(flags) THEN {Status(flags)} ELSE {}

\* The service is a set of watched connections: the vector and the map
\* together behave as WatchSet says.
Abstract == INSTANCE WatchSet WITH watched <- Watched, reported <- results

WatchSetSpec == Abstract!Spec

=============================================================================
