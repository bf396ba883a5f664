------------------------------- MODULE Stream -------------------------------
(***************************************************************************)
(* A connection between a ChanneledClient and a ChanneledServer, byte by   *)
(* byte: channeled_send() with its two send() calls, handleIncomingMessage *)
(* with its two receive() calls (src/include/channeled_socket_connection.h *)
(* and src/src/channel_subscribable.cpp), the loops of send() and receive()*)
(* (src/src/socket_connection.cpp), and the kernel's TCP between them,     *)
(* which takes and gives as many bytes as it likes.                        *)
(*                                                                         *)
(* Each end is a program of one thread: while it sends, in a callback or   *)
(* outside, it does not read, and while it reads it does not send.         *)
(***************************************************************************)
EXTENDS Integers, SequencesExt

CONSTANTS Ends,         \* the two ends of the connection
          Types, Size,  \* types of messages, and the bytes of a body of each
          Capacity,     \* bytes that fit on the way, in one direction
          Modest,       \* ends that never send more than fits
          Nothing,      \* no message
          MaxMessages,  \* bound: messages an end sends
          MaxFaults     \* bound: broken connections, interrupted sends

ASSUME TwoEnds == \E a, b \in Ends : a # b /\ Ends = {a, b}
ASSUME SizesArePositive == Size \in [Types -> Nat \ {0}]     \* sizeof of a type
ASSUME NothingAssumption == Nothing \notin [type : Types, n : Nat]
ASSUME CapacityAssumption == Capacity \in Nat \ {0}
ASSUME ModestAssumption == Modest \subseteq Ends /\ Modest # {}
ASSUME BoundsAssumption == {MaxMessages, MaxFaults} \subseteq Nat

VARIABLES
    wire,               \* the bytes an end sent and the other has not received
    sock,               \* the state of the TCP socket of each end
    sending,            \* the channeled_send() under way: message, next byte
    reading,            \* the receive() under way: part, id, bytes so far
    received,           \* the message handed to the callbacks last
    made,               \* how many messages each end has begun to send
    killed,             \* ends whose process was killed by a signal
    faults

program_vars == <<sending, reading, received, made>>
vars == <<wire, sock, program_vars, killed, faults>>

Peer(e) == CHOOSE p \in Ends : p # e

Messages == [type : Types, n : 1 .. MaxMessages]

\* The byte at position 0 is the channel id, the others are the body.
Bytes(m, first, count) == [i \in 1 .. count |-> [msg |-> m, at |-> first + i - 1]]
Body(m) == Bytes(m, 1, Size[m.type])

NoSend == [msg |-> Nothing, at |-> 0]
GaveUp == [msg |-> Nothing, at |-> 1]   \* a send failed on a living connection
NoRead == [part |-> "none", id |-> Nothing, got |-> <<>>]

Idle(e) == sending[e] = NoSend /\ reading[e] = NoRead

InSend(e) == sending[e] \notin {NoSend, GaveUp}

Alive(e) == sock[e] # "closed"

-----------------------------------------------------------------------------
(* The sockets of the kernel (external: Linux TCP), as in Endpoint:         *)
(*   estab   connected                                                      *)
(*   eof     the other end has closed; what it sent can still be read       *)
(*   reset   the connection was reset, the error has not been seen yet      *)
(*   hup     reset, and the error was seen or came after the end of stream  *)
(*   closed  this end has closed                                            *)

SocketStates == {"estab", "eof", "reset", "hup", "closed"}

Free(e) == Capacity - Len(wire[e])

\* What becomes of the other end when e closes.  If bytes that e has not read
\* have arrived, the connection is reset, and the last bytes e sent may be
\* lost.  If such bytes are still on their way the reset comes after the end
\* of the stream, soon or later.
Closes(e) == 
    LET p == Peer(e)
    IN \/ /\ sock[p] = "estab" /\ wire[p] # <<>>
          /\ sock' = [sock EXCEPT ![e] = "closed", ![p] = "reset"]
          /\ \E kept \in Prefixes(wire[e]) : wire' = [wire EXCEPT ![e] = kept, ![p] = <<>>]
       \/ /\ sock[p] = "estab"
          /\ \E st \in {"eof", "hup"} : 
                /\ st = "hup" => wire[p] # <<>>
                /\ sock' = [sock EXCEPT ![e] = "closed", ![p] = st]
          /\ wire' = [wire EXCEPT ![p] = <<>>]
       \/ /\ sock[p] # "estab"
          /\ sock' = [sock EXCEPT ![e] = "closed"]
          /\ wire' = [wire EXCEPT ![p] = <<>>]

\* The network gives the connection up: both ends see a reset.
connection_breaks == 
    /\ faults < MaxFaults /\ faults' = faults + 1
    /\ \A e \in Ends : sock[e] = "estab"
    /\ sock' = [e \in Ends |-> "reset"]
    /\ wire' \in [Ends -> UNION {Prefixes(wire[e]) : e \in Ends}]
    /\ \A e \in Ends : IsPrefix(wire'[e], wire[e])
    /\ UNCHANGED <<program_vars, killed>>

-----------------------------------------------------------------------------
(* Sending.  A definition whose comment begins with Variant is a plausible  *)
(* bug of its neighbour; no specification uses it.                          *)

\* A modest program knows that what it sends fits beside what is under way:
\* it answers requests, and its peer has few of them open.
Fits(e, t) == e \in Modest => 1 + Size[t] <= Free(e)

\* The user, or a callback, begins to send a message.
channeled_send(e, t) == 
    /\ Idle(e) /\ Alive(e)
    /\ made[e] < MaxMessages /\ Fits(e, t)
    /\ made' = [made EXCEPT ![e] = @ + 1]
    /\ sending' = [sending EXCEPT ![e] = [msg |-> [type |-> t, n |-> made[e] + 1], at |-> 0]]
    /\ UNCHANGED <<wire, sock, reading, received, killed, faults>>

\* What the running send() call has left: the id, or the rest of the body.
LeftToSend(e) == 
    IF sending[e].at = 0 THEN 1 ELSE Size[sending[e].msg.type] + 1 - sending[e].at

\* After count bytes: the same call, the next one, or the end of the message.
Sent(e, count) == 
    LET next == sending[e].at + count
    IN sending' = [sending EXCEPT ![e] = 
                      IF next > Size[@.msg.type] THEN NoSend ELSE [@ EXCEPT !.at = next]]

\* Variant: each turn of the loop sends from the beginning of the buffer.
chunk_from_start(e, count) == 
    Bytes(sending[e].msg, IF sending[e].at = 0 THEN 0 ELSE 1, count)
Chunk(e, count) == Bytes(sending[e].msg, sending[e].at, count)

\* Variant: the socket waits until there is room for all that is left.
room_for_all(e) == IF Free(e) >= LeftToSend(e) THEN {LeftToSend(e)} ELSE {}
Accepted(e) == 1 .. Min({LeftToSend(e), Free(e)})

\* One turn of the loop of send(): with no room the call blocks.
socket_send(e) == 
    /\ InSend(e) /\ sock[e] = "estab"
    /\ \E count \in Accepted(e) : 
          /\ wire' = [wire EXCEPT ![e] = @ \o Chunk(e, count)]
          /\ Sent(e, count)
    /\ UNCHANGED <<sock, reading, received, made, killed, faults>>

\* The other end has closed: the bytes are taken and answered with a reset,
\* which comes before the next call or later.
socket_send_to_closed(e) == 
    /\ InSend(e) /\ sock[e] = "eof"
    /\ Sent(e, LeftToSend(e))
    /\ \E st \in {"eof", "hup"} : sock' = [sock EXCEPT ![e] = st]
    /\ UNCHANGED <<wire, reading, received, made, killed, faults>>

\* SOCKET_ERROR: SendException leaves channeled_send(), wherever it is.
send_throws(e) == 
    /\ InSend(e) /\ sock[e] = "reset"
    /\ sock' = [sock EXCEPT ![e] = "hup"]
    /\ sending' = [sending EXCEPT ![e] = NoSend]
    /\ UNCHANGED <<wire, reading, received, made, killed, faults>>

\* send() fails for another reason, such as EINTR, between the id and the body
\* or anywhere else; the connection lives.  The user catches SendException and
\* is left with one thing to do, to close.
send_interrupted(e) == 
    /\ faults < MaxFaults /\ faults' = faults + 1
    /\ InSend(e) /\ sock[e] = "estab"
    /\ sending' = [sending EXCEPT ![e] = GaveUp]
    /\ UNCHANGED <<wire, sock, reading, received, made, killed>>

\* send() without MSG_NOSIGNAL on a socket that cannot send any more: SIGPIPE
\* ends the process, which neither ignores nor handles it.
send_raises_sigpipe(e) == 
    /\ InSend(e) /\ sock[e] = "hup"
    /\ killed' = killed \cup {e}
    /\ sending' = [sending EXCEPT ![e] = NoSend]
    /\ Closes(e)
    /\ UNCHANGED <<reading, received, made, faults>>

-----------------------------------------------------------------------------
(* Receiving: a pass of poll() found the connection ready to be read.       *)

handleIncomingMessage(e) == 
    /\ Idle(e) 
    /\ \/ sock[e] = "estab" /\ wire[Peer(e)] # <<>>
       \/ sock[e] = "eof"
    /\ reading' = [reading EXCEPT ![e] = [NoRead EXCEPT !.part = "id"]]
    /\ UNCHANGED <<wire, sock, sending, received, made, killed, faults>>

channeled_read_id(e) == 
    /\ Alive(e)
    /\ reading[e].part = "id" /\ wire[Peer(e)] # <<>>
    /\ LET first == Head(wire[Peer(e)])
       IN \E id \in Types :         \* a byte of a body may look like any id
             /\ first.at = 0 => id = first.msg.type
             /\ reading' = [reading EXCEPT ![e] = [part |-> "body", id |-> id, got |-> <<>>]]
    /\ wire' = [wire EXCEPT ![Peer(e)] = Tail(@)]
    /\ UNCHANGED <<sock, sending, received, made, killed, faults>>

\* Variant: each turn asks for the whole body again.
asks_for_all(e) == Size[reading[e].id]
Asked(e) == Size[reading[e].id] - Len(reading[e].got)

\* Variant: there is no loop, what came first is taken for the body.
any_is_complete(id, bytes) == TRUE

\* Variant: the loop goes on with <= instead of <.
one_turn_too_many(id, bytes) == Len(bytes) > Size[id]
Complete(id, bytes) == Len(bytes) >= Size[id]

\* The bytes of a body as the callbacks see them, read as the type of id.
AsMessage(id, bytes) == 
    LET m == bytes[1].msg
    IN IF m.type = id /\ bytes = Body(m) THEN m ELSE [type |-> id, n |-> 0]

\* One turn of the loop of receive() for the body; with the last byte the
\* callbacks run.
channeled_read(e) == 
    /\ Alive(e)
    /\ reading[e].part = "body"
    /\ \E count \in 1 .. Min({Asked(e), Len(wire[Peer(e)])}) :
          LET bytes == reading[e].got \o SubSeq(wire[Peer(e)], 1, count)
          IN /\ wire' = [wire EXCEPT ![Peer(e)] = SubSeq(@, count + 1, Len(@))]
             /\ IF Complete(reading[e].id, bytes)
                THEN /\ reading' = [reading EXCEPT ![e] = NoRead]
                     /\ received' = [received EXCEPT ![e] = AsMessage(reading[e].id, bytes)]
                ELSE /\ reading' = [reading EXCEPT ![e].got = bytes]
                     /\ UNCHANGED received
    /\ UNCHANGED <<sock, sending, made, killed, faults>>

\* recv() returned 0 or failed: ConnectionClosedException or ReceiveException
\* ends the reading, and a part of a body that was received is dropped.
receive_ends(e) == 
    /\ reading[e] # NoRead /\ wire[Peer(e)] = <<>>
    /\ sock[e] \in {"eof", "reset", "hup"}
    /\ reading' = [reading EXCEPT ![e] = NoRead]
    /\ sock' = [sock EXCEPT ![e] = IF @ = "reset" THEN "hup" ELSE @]
    /\ UNCHANGED <<wire, sending, received, made, killed, faults>>

\* The last reference to the connection goes: ~SocketConnection.
close_socket(e) == 
    /\ ~ InSend(e) /\ reading[e] = NoRead /\ Alive(e)
    /\ Closes(e)
    /\ UNCHANGED <<program_vars, killed, faults>>

-----------------------------------------------------------------------------
Init == 
    /\ wire = [e \in Ends |-> <<>>]
    /\ sock = [e \in Ends |-> "estab"]
    /\ sending = [e \in Ends |-> NoSend]
    /\ reading = [e \in Ends |-> NoRead]
    /\ received = [e \in Ends |-> Nothing]
    /\ made = [e \in Ends |-> 0]
    /\ killed = {} /\ faults = 0

Send(e) == socket_send(e) \/ socket_send_to_closed(e) \/ send_throws(e) \/ send_raises_sigpipe(e)

Receive(e) == channeled_read_id(e) \/ channeled_read(e) \/ receive_ends(e)

Next == 
    \/ connection_breaks
    \/ \E e \in Ends : 
          \/ \E t \in Types : channeled_send(e, t)
          \/ Send(e) \/ send_interrupted(e)
          \/ handleIncomingMessage(e) \/ Receive(e)
          \/ close_socket(e)

Spec == Init /\ [][Next]_vars

\* The programs are not stopped, and each polls again and again.
Fairness == 
    \A e \in Ends : 
       /\ WF_vars(Send(e))
       /\ WF_vars(handleIncomingMessage(e))
       /\ WF_vars(Receive(e))

FairSpec == Spec /\ Fairness

-----------------------------------------------------------------------------
TypeOK == 
    /\ wire \in [Ends -> Seq([msg : Messages, at : Nat])]
    /\ \A e \in Ends : Len(wire[e]) <= Capacity
    /\ sock \in [Ends -> SocketStates]
    /\ \A e \in Ends : InSend(e) => 
          sending[e].msg \in Messages /\ sending[e].at \in 0 .. Size[sending[e].msg.type]
    /\ \A e \in Ends : reading[e].part = "body" => Len(reading[e].got) < Size[reading[e].id]
    /\ received \in [Ends -> [type : Types, n : 0 .. MaxMessages] \cup {Nothing}]
    /\ made \in [Ends -> 0 .. MaxMessages]
    /\ killed \subseteq Ends
    /\ faults \in 0 .. MaxFaults

\* Both ends agree where a message begins, however the bytes were cut on the
\* way and wherever a connection ended: what a new receive() of an id finds is
\* an id.
ReadsStartAtAnId == 
    \A e \in Ends : 
       reading[e].part # "body" /\ wire[Peer(e)] # <<>> => Head(wire[Peer(e)]).at = 0

\* The connection implements the queue of messages.  A message is under way
\* from the moment its last byte was sent.
IsLast(b) == b.at = Size[b.msg.type]
UnderWay(e) == {wire[e][i].msg : i \in {k \in DOMAIN wire[e] : IsLast(wire[e][k])}}

Queue == INSTANCE MessageQueue WITH 
            queue <- [e \in Ends |-> UnderWay(e)],
            over  <- \E e \in Ends : sock[e] # "estab"

QueueSpec == Queue!Spec

\* Under FairSpec: a message that was begun is handed over at the other end,
\* also when its sender closes after it, unless the other end closes, the
\* connection is reset or an end gave up.  In particular no send() and no receive() blocks for
\* ever, although one of the two programs may send more than fits.
MessagesArrive == 
    \A e \in Ends : \A n \in 1 .. MaxMessages :
       (made[e] >= n) ~>
          \/ received[Peer(e)] # Nothing /\ received[Peer(e)].n >= n
          \/ sock[Peer(e)] \notin {"estab", "eof"}
          \/ GaveUp \in {sending[e], sending[Peer(e)]}

-----------------------------------------------------------------------------
(* What the repository says of a connection and the code does not do.       *)

\* socket_connection.h: "@throws SendException if an error occurred while
\* sending": sending never ends a program in another way.
SendErrorsAreThrown == killed = {}
=============================================================================
