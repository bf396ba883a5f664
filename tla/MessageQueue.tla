---------------------------- MODULE MessageQueue ----------------------------
(***************************************************************************)
(* What a connection of channeled sockets promises to the two programs at  *)
(* its ends: a message that was sent is handed over whole, once, with its  *)
(* type, in the order of sending, until the connection ends; from then on  *)
(* nothing is sent, and of what is under way only the last may be lost.    *)
(* There are no bytes, buffers or system calls here; Stream.tla implements *)
(* this specification.                                                     *)
(*                                                                         *)
(* Each end numbers its messages in the order of sending, so the queue is  *)
(* a set: its first message is the one with the least number.              *)
(***************************************************************************)
EXTENDS Integers

CONSTANTS Ends,         \* the two ends
          Messages,     \* what can be sent: records with a number n
          Nothing       \* no message received yet

VARIABLES queue,        \* for each end, the messages it sent that are under way
          received,     \* for each end, the message handed over last
          over          \* whether the connection has ended

vars == <<queue, received, over>>

Peer(e) == CHOOSE p \in Ends : p # e

Init == 
    /\ queue = [e \in Ends |-> {}]
    /\ received = [e \in Ends |-> Nothing]
    /\ over = FALSE

\* A message comes after all that were sent.
Send(e) == 
    /\ ~ over
    /\ \E m \in Messages : 
          /\ \A k \in queue[e] : k.n < m.n
          /\ received[Peer(e)] # Nothing => received[Peer(e)].n < m.n
          /\ queue' = [queue EXCEPT ![e] = @ \cup {m}]
    /\ UNCHANGED <<received, over>>

HandOver(e) == 
    /\ \E m \in queue[e] : 
          /\ \A k \in queue[e] : m.n <= k.n
          /\ received' = [received EXCEPT ![Peer(e)] = m]
          /\ queue' = [queue EXCEPT ![e] = @ \ {m}]
    /\ UNCHANGED over

\* What is left of a queue when its last messages are lost.
IsCutFrom(rest, q) == 
    /\ rest \subseteq q
    /\ \A m \in rest, k \in q : k.n < m.n => k \in rest

\* The connection ends, at one end or at both; so may happen again.
End == 
    /\ over' = TRUE
    /\ DOMAIN queue' = Ends /\ \A e \in Ends : IsCutFrom(queue'[e], queue[e])
    /\ UNCHANGED received

Next == End \/ \E e \in Ends : Send(e) \/ HandOver(e)

Spec == Init /\ [][Next]_vars
=============================================================================
