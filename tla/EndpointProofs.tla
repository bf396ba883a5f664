--------------------------- MODULE EndpointProofs ---------------------------
(***************************************************************************)
(* What the proofs about Server and Client share: the invariant of the     *)
(* service, the sockets and the pass, and what each kind of step does to   *)
(* it.  The theorems about PollService carry over, because each step is    *)
(* shown to be one that PollService allows.                                *)
(***************************************************************************)
EXTENDS Endpoint, FiniteSetTheorems, WellFoundedInduction, TLAPS

\* The lemmas about the service, for the service of an endpoint.
Proved == INSTANCE PollServiceProofs

\* The objects whose descriptor close_socket() would not close.
Failing(sk) == {c \in Conns : sk[c].st \in ShutdownFails}

\* Descriptors, sockets and what was told of them fit together: sd, sk and ph
\* at any moment, also inside a step.  Each descriptor that is lost, or would
\* be, was paid for by a fault.
KernelOK(sd, sk, ph, lk, fl) ==
    /\ sd \in [Conns -> Fds \cup {NoFd}]
    /\ \A c, d \in Conns : sd[c] = sd[d] /\ sd[c] # NoFd => c = d
    /\ sk \in [Conns -> [st : SocketStates, pending : 0 .. MaxPending]]
    /\ ph \in [Conns -> {"absent", "served", "gone"}]
    /\ \A c \in Conns : sd[c] = NoFd => sk[c] = NoSocket /\ ph[c] = "absent"
    /\ \A c \in Conns : sd[c] # NoFd => sk[c].st # "none"
    /\ lk \subseteq Fds /\ fl \in 0 .. MaxFaults
    /\ Cardinality(lk) + Cardinality(Failing(sk)) <= fl

\* The service is as PollServiceProofs says; exactly what is referred to exists,
\* and the results have one entry for a connection.
ServiceOK ==
    /\ Proved!IInv
    /\ Service!Alive = owned \cup Service!Watched \cup Service!Reported
    /\ \A e1, e2 \in results : e1.connection = e2.connection => e1 = e2

\* A pass reads from one connection that it has found in the results, and is
\* done with its entry.
PassOK ==
    /\ connection \in Conns \cup {NULL}
    /\ todo \subseteq results
    /\ reading \in [connection : Conns, part : {"id", "body"}] \cup {Idling}
    /\ hook \in [name : HookNames, client : Conns \cup {NULL}]
    /\ reading # Idling =>
          /\ hook = NoHook /\ reading.connection \in Service!Reported
          /\ \A e \in todo : e.connection # reading.connection

EndpointInv ==
    /\ ServiceOK
    /\ KernelOK(socket_descriptor, socket, phase, leaked, faults)
    /\ PassOK

-----------------------------------------------------------------------------
(* Lemmas about the operators.                                              *)

\* The assumptions of PollService hold for the service of an endpoint.
LEMMA ServiceAssumptions ==
    NULL \notin Conns /\ NoFd \notin Fds /\ Revents \subseteq SUBSET Proved!Flags /\ {} \in Revents
<1> QED BY NullAssumption, NoFdAssumption DEF Revents, Proved!Flags

\* The service that the lemmas are about is that of the endpoint.
LEMMA SameService ==
    /\ Service!Watched = Proved!Watched /\ Service!Reported = Proved!Reported
    /\ Service!Alive = Proved!Alive /\ Service!Open = Proved!Open
    /\ Proved!TypeOK => Service!TypeOK
    /\ \A f \in Fds, c \in Conns : Service!Created(c, f) = Proved!Created(c, f)
<1> QED BY DEF Service!Watched, Proved!Watched, Service!Reported, Proved!Reported,
        Service!Alive, Proved!Alive, Service!Open, Proved!Open, Service!TypeOK, Proved!TypeOK,
        Service!Entries, Proved!Entries, Service!Statuses, Proved!Statuses,
        Service!Created, Proved!Created

\* So it is after a step.
LEMMA SameServiceNext ==
    /\ Service!Watched' = Proved!Watched' /\ Service!Reported' = Proved!Reported'
    /\ Service!Alive' = Proved!Alive'
<1> QED BY DEF Service!Watched, Proved!Watched, Service!Reported, Proved!Reported,
        Service!Alive, Proved!Alive

\* Of any descriptors there is a lowest.
LEMMA LowestDescriptor ==
    ASSUME NEW S \in SUBSET Fds, S # {}
    PROVE  Min(S) \in S /\ \A f \in S : Min(S) <= f
<1> DEFINE R == OpToRel(<, Nat)
<1>1. IsWellFoundedOn(R, Nat)
  BY NatLessThanWellFounded
<1>2. \A x, y \in Nat : x < y => <<x, y>> \in R
  BY DEF OpToRel
<1> HIDE DEF R
<1>3. S \subseteq Nat
  BY FdsAreNumbers
<1>4. PICK x \in S : \A y \in S : ~ (<<y, x>> \in R)
  BY <1>1, <1>3, WFMin
<1>5. \A y \in S : ~ (y < x)
  BY <1>2, <1>3, <1>4
<1>6. \A a, b \in Nat : ~ (b < a) => a <= b
  OBVIOUS
<1>7. \A y \in S : x <= y
  BY <1>3, <1>5, <1>6
<1> QED BY <1>4, <1>7 DEF Min

\* accept() and the constructors get a descriptor that nobody has, for an
\* object that does not exist: there are as many objects as descriptors.
LEMMA FreshObject ==
    ASSUME KernelOK(socket_descriptor, socket, phase, leaked, faults), FreeFds # {}
    PROVE  /\ NewConn \in Conns /\ socket_descriptor[NewConn] = NoFd /\ NewConn \notin Service!Alive
           /\ NextFd \in Fds /\ NextFd \notin Service!Open /\ NextFd \notin leaked
<1>1. NextFd \in FreeFds
  BY LowestDescriptor DEF NextFd, FreeFds
<1>2. NextFd \in Fds /\ NextFd \notin Service!Open /\ NextFd \notin leaked
  BY <1>1 DEF FreeFds
<1>3. \E c \in Conns : socket_descriptor[c] = NoFd
  <2> SUFFICES ASSUME \A c \in Conns : socket_descriptor[c] # NoFd
               PROVE  FALSE
    OBVIOUS
  <2> DEFINE T == Fds \ {NextFd}
  <2>1. \A c \in Conns : socket_descriptor[c] \in T
    BY <1>2 DEF KernelOK, Service!Open, Service!Alive
  <2>2. socket_descriptor \in Injection(Conns, T)
    BY <2>1 DEF KernelOK, Injection, IsInjective
  <2>3. IsFiniteSet(T) /\ Cardinality(T) = Cardinality(Fds) - 1
    BY <1>2, FS_RemoveElement, ObjectsAssumption
  <2> HIDE DEF T
  <2>4. Cardinality(Conns) <= Cardinality(T)
    BY <2>2, <2>3, FS_Injection
  <2>5. Cardinality(Conns) \in Nat /\ Cardinality(Fds) \in Nat
    BY ObjectsAssumption, FS_CardinalityType
  <2> QED BY <2>3, <2>4, <2>5, ObjectsAssumption
<1>4. NewConn \in Conns /\ socket_descriptor[NewConn] = NoFd
  BY <1>3 DEF NewConn
<1> QED BY <1>2, <1>4 DEF Service!Alive

\* Objects go, and the descriptors of some of them are lost: those were
\* failing.
LEMMA LeaksOfTheGone ==
    ASSUME NEW lk \in SUBSET Fds, NEW F \in SUBSET Conns, NEW D \in SUBSET F,
           NEW sd \in [Conns -> Fds \cup {NoFd}], \A c \in D : sd[c] \in Fds
    PROVE  LET lost == {sd[c] : c \in D}
           IN Cardinality(lk \cup lost) + Cardinality(F \ D) <= Cardinality(lk) + Cardinality(F)
<1> DEFINE lost == {sd[c] : c \in D}
           g == [c \in D |-> sd[c]]
<1>1. IsFiniteSet(lk) /\ IsFiniteSet(F) /\ IsFiniteSet(D)
  BY ObjectsAssumption, FS_Subset
<1>2. g \in Surjection(D, lost)
  BY DEF Surjection
<1> HIDE DEF g
<1>3. IsFiniteSet(lost) /\ Cardinality(lost) <= Cardinality(D)
  BY <1>1, <1>2, FS_Surjection
<1> HIDE DEF lost
<1>4. /\ IsFiniteSet(lk \cup lost) /\ IsFiniteSet(lk \cap lost)
      /\ Cardinality(lk \cup lost) = Cardinality(lk) + Cardinality(lost) - Cardinality(lk \cap lost)
  BY <1>1, <1>3, FS_Union, FS_Intersection
<1>5. F \cap D = D /\ IsFiniteSet(F \ D) /\ Cardinality(F \ D) = Cardinality(F) - Cardinality(F \cap D)
  BY <1>1, FS_Difference
<1>6. /\ Cardinality(lk) \in Nat /\ Cardinality(lost) \in Nat /\ Cardinality(lk \cap lost) \in Nat
      /\ Cardinality(F) \in Nat /\ Cardinality(D) \in Nat /\ Cardinality(lk \cup lost) \in Nat
      /\ Cardinality(F \ D) \in Nat
  BY <1>1, <1>3, <1>4, <1>5, FS_CardinalityType
<1>7. Cardinality(F \ D) = Cardinality(F) - Cardinality(D)
  BY <1>5
<1>8. Cardinality(lk \cup lost) + Cardinality(F \ D) <= Cardinality(lk) + Cardinality(F)
  BY <1>3, <1>4, <1>6, <1>7
<1> QED BY <1>8 DEF lost

-----------------------------------------------------------------------------
(* What each kind of step does.                                             *)

\* The references of the step are settled: what existed inside the step and
\* is referred to exists, as it was inside the step.
Outcome(sd, sk, ph) ==
    /\ ServiceOK'
    /\ KernelOK(socket_descriptor', socket', phase', leaked', faults')
    /\ owned' \subseteq {c \in Conns : sd[c] # NoFd}
    /\ \A c \in Service!Alive' :
          /\ socket_descriptor'[c] = sd[c] /\ sd[c] # NoFd
          /\ socket'[c] = sk[c] /\ phase'[c] = ph[c]

\* Every step ends so: the objects without a reference go.
LEMMA SettleOutcome ==
    ASSUME NEW sd, NEW sk, NEW ph,
           KernelOK(sd, sk, ph, leaked, faults'),
           \A c \in Conns : socket_descriptor[c] # NoFd => sd[c] = socket_descriptor[c],
           Proved!Structure(descriptors', poll_descriptor_map', sd),
           results' \subseteq [connection : Conns, status : Service!Statuses],
           \A e \in results' : sd[e.connection] # NoFd,
           \A e1, e2 \in results' : e1.connection = e2.connection => e1 = e2,
           Settle(sd, sk, ph)
    PROVE  Outcome(sd, sk, ph)
<1> DEFINE refs == owned' \cup Service!Watched' \cup Service!Reported'
           sd2 == socket_descriptor'
<1>1. /\ owned' \in SUBSET {c \in Conns : sd[c] # NoFd}
      /\ sd2 = [c \in Conns |-> IF c \in refs THEN sd[c] ELSE NoFd]
      /\ Proved!Settle(sd)
  BY SameServiceNext DEF Settle, Service!Settle, Proved!Settle
<1>2. refs \subseteq {c \in Conns : sd[c] # NoFd}
  <2>1. \A c \in Service!Watched' : c \in Conns /\ sd[c] \in Fds
    <3>1. \A f \in DOMAIN poll_descriptor_map' : f \in Fds
      BY ServiceAssumptions, Proved!StructureFacts
    <3>2. \A f \in DOMAIN poll_descriptor_map' :
             /\ poll_descriptor_map'[f].socket \in Conns
             /\ sd[poll_descriptor_map'[f].socket] = f
      BY DEF Proved!Structure
    <3> QED BY <3>1, <3>2 DEF Service!Watched
  <2>2. \A c \in Service!Reported' : c \in Conns /\ sd[c] # NoFd
    BY DEF Service!Reported
  <2> QED BY <1>1, <2>1, <2>2, NoFdAssumption
<1>3. Service!Alive' = refs
  BY <1>1, <1>2 DEF Service!Alive
<1>4. ServiceOK'
  <2>1. sd \in [Conns -> Fds \cup {NoFd}] /\ \A c, d \in Conns : sd[c] = sd[d] /\ sd[c] # NoFd => c = d
    BY DEF KernelOK
  <2>2. results' \subseteq [connection : Conns, status : Proved!Statuses]
    BY DEF Service!Statuses, Proved!Statuses
  <2>3. Proved!IInv'
    BY <1>1, <2>1, <2>2, ServiceAssumptions, Proved!SettleStep
  <2> QED BY <1>3, <2>3 DEF ServiceOK
<1> HIDE DEF refs
<1>5. \A c \in Conns : IF c \in refs THEN sd2[c] = sd[c] /\ socket'[c] = sk[c] /\ phase'[c] = ph[c]
                       ELSE sd2[c] = NoFd /\ socket'[c] = NoSocket /\ phase'[c] = "absent"
  BY <1>1, <1>2 DEF Settle
<1>6. /\ sd2 \in [Conns -> Fds \cup {NoFd}]
      /\ \A c, d \in Conns : sd2[c] = sd2[d] /\ sd2[c] # NoFd => c = d
  BY <1>1, <1>2 DEF KernelOK
<1>7. /\ socket' \in [Conns -> [st : SocketStates, pending : 0 .. MaxPending]]
      /\ phase' \in [Conns -> {"absent", "served", "gone"}]
  <2>1. NoSocket \in [st : SocketStates, pending : 0 .. MaxPending]
    BY BoundsAssumption DEF NoSocket, SocketStates
  <2> QED BY <1>5, <2>1 DEF KernelOK, Settle
<1>8. /\ \A c \in Conns : sd2[c] = NoFd => socket'[c] = NoSocket /\ phase'[c] = "absent"
      /\ \A c \in Conns : sd2[c] # NoFd => socket'[c].st # "none"
  BY <1>2, <1>5 DEF KernelOK
<1>9. leaked' \subseteq Fds /\ Cardinality(leaked') + Cardinality(Failing(socket')) <= faults'
  <2> DEFINE D == {c \in Failing(sk) : c \notin refs}
  <2>1. \A c \in Failing(sk) : c \in Conns /\ sd[c] \in Fds
    BY DEF Failing, KernelOK, NoSocket, ShutdownFails
  <2>2. leaked' = leaked \cup {sd[c] : c \in D}
    <3>1. {c \in {d \in Conns : sd[d] # NoFd /\ sd2[d] = NoFd} : sk[c].st \in ShutdownFails} = D
      BY <1>5, <2>1, NoFdAssumption DEF Failing
    <3> QED BY <3>1 DEF Settle
  <2>3. Failing(socket') = Failing(sk) \ D
    BY <1>5 DEF Failing, NoSocket, ShutdownFails
  <2>4. leaked \in SUBSET Fds /\ Failing(sk) \in SUBSET Conns /\ D \in SUBSET Failing(sk)
        /\ \A c \in D : sd[c] \in Fds
    BY <2>1 DEF KernelOK, Failing
  <2>5. sd \in [Conns -> Fds \cup {NoFd}] /\ Cardinality(leaked) + Cardinality(Failing(sk)) <= faults'
        /\ faults' \in Nat
    BY BoundsAssumption DEF KernelOK
  <2> HIDE DEF D
  <2>6. Cardinality(leaked') + Cardinality(Failing(socket')) <= Cardinality(leaked) + Cardinality(Failing(sk))
    BY <2>2, <2>3, <2>4, <2>5, LeaksOfTheGone
  <2>7. leaked' \subseteq Fds
    BY <2>2, <2>4
  <2>8. /\ Cardinality(leaked) \in Nat /\ Cardinality(Failing(sk)) \in Nat
        /\ Cardinality(leaked') \in Nat /\ Cardinality(Failing(socket')) \in Nat
    BY <2>3, <2>4, <2>7, ObjectsAssumption, FS_Subset, FS_CardinalityType
  <2> QED BY <2>5, <2>6, <2>7, <2>8
<1>10. KernelOK(sd2, socket', phase', leaked', faults')
  BY <1>6, <1>7, <1>8, <1>9 DEF KernelOK
<1> QED BY <1>1, <1>2, <1>3, <1>4, <1>5, <1>10 DEF Outcome

\* What the invariant of the service says here.
LEMMA ServiceFacts ==
    ASSUME ServiceOK
    PROVE  /\ Proved!Structure(descriptors, poll_descriptor_map, socket_descriptor)
           /\ Proved!DescriptorsDiffer /\ Service!TypeOK
           /\ socket_descriptor \in [Conns -> Fds \cup {NoFd}]
           /\ results \subseteq [connection : Conns, status : Service!Statuses]
           /\ \A e \in results : socket_descriptor[e.connection] # NoFd
           /\ \A c \in owned \cup Service!Watched \cup Service!Reported :
                 c \in Conns /\ socket_descriptor[c] \in Fds
<1>1. /\ Proved!Structure(descriptors, poll_descriptor_map, socket_descriptor)
      /\ socket_descriptor \in [Conns -> Fds \cup {NoFd}]
  BY ServiceAssumptions, Proved!InvariantFacts DEF ServiceOK
<1>2. Proved!TypeOK /\ Proved!DescriptorsDiffer
  BY DEF ServiceOK, Proved!IInv
<1>3. results \subseteq [connection : Conns, status : Service!Statuses]
  BY <1>2 DEF Proved!TypeOK, Proved!Statuses, Service!Statuses
<1>4. \A c \in owned \cup Service!Watched \cup Service!Reported :
         c \in Conns /\ socket_descriptor[c] \in Fds
  BY <1>1 DEF ServiceOK, Service!Alive
<1>5. \A e \in results : e.connection \in Service!Reported
  BY DEF Service!Reported
<1> QED BY <1>1, <1>2, <1>3, <1>4, <1>5, SameService, NoFdAssumption

\* The service is not touched.
LEMMA KeepOutcome ==
    ASSUME ServiceOK, NEW sk, NEW ph, KernelOK(socket_descriptor, sk, ph, leaked, faults'),
           UNCHANGED service_vars, Settle(socket_descriptor, sk, ph)
    PROVE  /\ Outcome(socket_descriptor, sk, ph) /\ Service!Drop
           /\ Service!Watched' = Service!Watched /\ results' = results
<1>1. UNCHANGED <<descriptors, poll_descriptor_map, results>>
  BY DEF service_vars
<1>2. Service!Watched' = Service!Watched
  BY <1>1 DEF Service!Watched
<1>3. Service!Drop
  BY <1>1 DEF Service!Drop, Settle
<1>4. Outcome(socket_descriptor, sk, ph)
  BY <1>1, ServiceFacts, SettleOutcome DEF ServiceOK
<1> QED BY <1>1, <1>2, <1>3, <1>4

\* Nothing is made, and no result is new.
LEMMA AsIsOutcome ==
    ASSUME ServiceOK, KernelOK(socket_descriptor, socket, phase, leaked, faults'),
           Proved!Structure(descriptors', poll_descriptor_map', socket_descriptor),
           results' \subseteq results, SettleAsIs
    PROVE  Outcome(socket_descriptor, socket, phase)
<1>1. Settle(socket_descriptor, socket, phase)
  BY DEF SettleAsIs
<1>2. /\ results' \subseteq [connection : Conns, status : Service!Statuses]
      /\ \A e \in results' : socket_descriptor[e.connection] # NoFd
  BY ServiceFacts
<1>3. \A e1, e2 \in results' : e1.connection = e2.connection => e1 = e2
  BY DEF ServiceOK
<1>4. \A c \in Conns : socket_descriptor[c] # NoFd => socket_descriptor[c] = socket_descriptor[c]
  OBVIOUS
<1> QED BY ONLY <1>1, <1>2, <1>3, <1>4, SettleOutcome, ServiceOK,
           KernelOK(socket_descriptor, socket, phase, leaked, faults'),
           Proved!Structure(descriptors', poll_descriptor_map', socket_descriptor)

\* The service is cleared: nothing is watched.
LEMMA ClearOutcome ==
    ASSUME ServiceOK, KernelOK(socket_descriptor, socket, phase, leaked, faults'),
           clear_service, SettleAsIs
    PROVE  /\ Outcome(socket_descriptor, socket, phase) /\ Service!ClearSockets
           /\ Service!Watched' = {} /\ results' = results
<1>1. /\ descriptors' = << >> /\ poll_descriptor_map' = [f \in {} |-> NULL] /\ results' = results
      /\ Service!Settle(socket_descriptor)
  BY DEF clear_service, Service!clear_sockets, SettleAsIs, Settle
<1>2. Service!Watched' = {}
  BY <1>1 DEF Service!Watched
<1>3. Service!ClearSockets
  BY <1>1 DEF Service!ClearSockets, Service!clear_sockets
<1>4. Proved!Structure(descriptors', poll_descriptor_map', socket_descriptor)
  <2>1. DOMAIN descriptors' = {} /\ DOMAIN poll_descriptor_map' = {} /\ descriptors' \in Seq(Fds)
    BY <1>1
  <2>2. Proved!ToSet(descriptors') = {}
    BY <2>1 DEF Proved!ToSet
  <2> QED BY <2>1, <2>2 DEF Proved!Structure
<1>5. Outcome(socket_descriptor, socket, phase)
  BY <1>1, <1>4, AsIsOutcome
<1> QED BY <1>1, <1>2, <1>3, <1>5

\* The service goes, and with it everything that is watched or reported.
LEMMA DestructOutcome ==
    ASSUME ServiceOK, KernelOK(socket_descriptor, socket, phase, leaked, faults'),
           destruct_service, SettleAsIs
    PROVE  /\ Outcome(socket_descriptor, socket, phase) /\ Service!Destruct
           /\ Service!Watched' = {} /\ results' = {}
<1>1. /\ descriptors' = << >> /\ poll_descriptor_map' = [f \in {} |-> NULL] /\ results' = {}
      /\ Service!Settle(socket_descriptor)
  BY DEF destruct_service, Service!destruct, SettleAsIs, Settle
<1>2. Service!Watched' = {}
  BY <1>1 DEF Service!Watched
<1>3. Service!Destruct
  BY <1>1 DEF Service!Destruct, Service!destruct
<1>4. Proved!Structure(descriptors', poll_descriptor_map', socket_descriptor)
  <2>1. DOMAIN descriptors' = {} /\ DOMAIN poll_descriptor_map' = {} /\ descriptors' \in Seq(Fds)
    BY <1>1
  <2>2. Proved!ToSet(descriptors') = {}
    BY <2>1 DEF Proved!ToSet
  <2> QED BY <2>1, <2>2 DEF Proved!Structure
<1>5. Outcome(socket_descriptor, socket, phase)
  BY <1>1, <1>4, AsIsOutcome
<1> QED BY <1>1, <1>2, <1>3, <1>5

\* A poll that fails leaves no results.
LEMMA PollErrorOutcome ==
    ASSUME ServiceOK, KernelOK(socket_descriptor, socket, phase, leaked, faults'),
           Service!poll_error, SettleAsIs
    PROVE  /\ Outcome(socket_descriptor, socket, phase) /\ Service!PollError
           /\ Service!Watched' = Service!Watched /\ results' = {}
<1>1. /\ UNCHANGED <<descriptors, poll_descriptor_map>> /\ results' = {}
      /\ Service!Settle(socket_descriptor)
  BY DEF Service!poll_error, SettleAsIs, Settle
<1>2. Service!Watched' = Service!Watched
  BY <1>1 DEF Service!Watched
<1>3. Service!PollError
  BY <1>1 DEF Service!PollError, Service!poll_error
<1>4. Proved!Structure(descriptors', poll_descriptor_map', socket_descriptor)
  BY <1>1, ServiceFacts
<1>5. Outcome(socket_descriptor, socket, phase)
  BY <1>1, <1>4, AsIsOutcome
<1> QED BY <1>1, <1>2, <1>3, <1>5

\* poll() finds the flags of a watched connection at its descriptor, and they
\* are some that the kernel can return.
LEMMA KernelAnswers ==
    ASSUME ServiceOK, KernelOK(socket_descriptor, socket, phase, leaked, faults)
    PROVE  /\ kernel_poll \in Proved!Polled
           /\ \A f \in DOMAIN poll_descriptor_map :
                 kernel_poll[f] = Readiness(socket[poll_descriptor_map[f].socket])
<1> DEFINE m == poll_descriptor_map
           Flagged(f) == LET owner == {c \in Conns : socket_descriptor[c] = f}
                         IN IF owner = {} THEN {"POLLNVAL"}
                            ELSE Readiness(socket[CHOOSE c \in owner : TRUE])
<1>1. /\ DOMAIN m = Proved!ToSet(descriptors)
      /\ \A f \in DOMAIN m : m[f].socket \in Conns /\ socket_descriptor[m[f].socket] = f /\ f \in Fds
  <2>1. Proved!Structure(descriptors, m, socket_descriptor)
    BY ServiceFacts
  <2>2. \A f \in DOMAIN m : f \in Fds
    BY <2>1, ServiceAssumptions, Proved!StructureFacts
  <2> QED BY <2>1, <2>2 DEF Proved!Structure
<1>2. ASSUME NEW f \in DOMAIN m
      PROVE  /\ Flagged(f) = Readiness(socket[m[f].socket])
             /\ socket[m[f].socket].st \in SocketStates \ {"none"} /\ f \in Proved!Open
  <2> DEFINE c == m[f].socket
  <2>1. c \in Conns /\ socket_descriptor[c] = f /\ f # NoFd
    BY <1>1, NoFdAssumption
  <2>2. {d \in Conns : socket_descriptor[d] = f} = {c}
    BY <2>1 DEF KernelOK
  <2>3. socket[c].st \in SocketStates \ {"none"}
    BY <2>1 DEF KernelOK
  <2>4. f \in Proved!Open
    BY <2>1 DEF Proved!Open, Proved!Alive
  <2> QED BY <2>2, <2>3, <2>4
<1>3. \A s : s.st \in SocketStates \ {"none"} => Readiness(s) \in Revents
  BY DEF Readiness, Revents, SocketStates
<1>4. kernel_poll = [f \in DOMAIN m |-> Flagged(f)]
  BY <1>1 DEF kernel_poll, Proved!ToSet
<1> HIDE DEF Flagged
<1>5. \A f \in DOMAIN m : kernel_poll[f] = Readiness(socket[m[f].socket])
  BY <1>2, <1>4
<1>6. \A f \in DOMAIN m : kernel_poll[f] \in Revents /\ f \in Proved!Open
  BY <1>2, <1>3, <1>5
<1>7. kernel_poll \in Proved!Polled
  BY <1>1, <1>4, <1>6 DEF Proved!Polled
<1> QED BY <1>5, <1>7

\* A poll reports watched connections, each with the status that the state of
\* its socket means.
LEMMA PollOutcome ==
    ASSUME ServiceOK, KernelOK(socket_descriptor, socket, phase, leaked, faults),
           faults' = faults, Service!poll(kernel_poll), SettleAsIs
    PROVE  /\ Outcome(socket_descriptor, socket, phase) /\ Service!PollSockets
           /\ Service!Watched' = Service!Watched
           /\ \A e \in results' :
                 LET flags == Readiness(socket[e.connection])
                 IN /\ e.connection \in Service!Watched
                    /\ flags # {} /\ e.status = Service!Status(flags)
<1> DEFINE m == poll_descriptor_map
<1>1. /\ UNCHANGED <<descriptors, poll_descriptor_map>> /\ results' = Service!Found(kernel_poll)
      /\ Settle(socket_descriptor, socket, phase)
  BY DEF Service!poll, SettleAsIs
<1>2. Service!Found(kernel_poll) = Proved!Found(kernel_poll)
  BY DEF Service!Found, Proved!Found, Service!Inserted, Proved!Inserted, Service!Invalid, Proved!Invalid,
         Service!Hits, Proved!Hits, Service!Ready, Proved!Ready, Service!Flags, Proved!Flags,
         Service!Status, Proved!Status
<1>3. /\ kernel_poll \in Proved!Polled
      /\ \A f \in DOMAIN m : kernel_poll[f] = Readiness(socket[m[f].socket])
  BY KernelAnswers
<1>4. /\ results' \subseteq [connection : Proved!Watched, status : Proved!Statuses]
      /\ \A e1, e2 \in results' : e1.connection = e2.connection => e1 = e2
      /\ Proved!Inserted(kernel_poll)
           = {i \in 1 .. Len(descriptors) : Proved!Ready(kernel_poll[descriptors[i]])}
  <2>1. Proved!IInv
    BY DEF ServiceOK
  <2> QED BY <1>1, <1>2, <1>3, <2>1, ServiceAssumptions, Proved!FoundProperties
<1>5. Proved!Structure(descriptors, m, socket_descriptor)
  BY ServiceFacts
<1>6. ASSUME NEW e \in results'
      PROVE  LET flags == Readiness(socket[e.connection])
             IN /\ e.connection \in Service!Watched
                /\ flags # {} /\ e.status = Service!Status(flags)
  <2>1. PICK i \in Proved!Inserted(kernel_poll) :
           /\ e.connection = m[descriptors[i]].socket
           /\ e.status = Proved!Status(kernel_poll[descriptors[i]])
    BY <1>1, <1>2 DEF Proved!Found
  <2>2. descriptors[i] \in DOMAIN m /\ Proved!Ready(kernel_poll[descriptors[i]])
    <3>1. \A j \in 1 .. Len(descriptors) : descriptors[j] \in DOMAIN m
      BY <1>5, ServiceAssumptions, Proved!StructureFacts
    <3> QED BY <1>4, <2>1, <3>1
  <2>3. kernel_poll[descriptors[i]] = Readiness(socket[e.connection])
    BY <1>3, <2>1, <2>2
  <2>4. Readiness(socket[e.connection]) # {}
    BY <2>2, <2>3 DEF Proved!Ready
  <2>5. e.status = Service!Status(Readiness(socket[e.connection]))
    BY <2>1, <2>3 DEF Proved!Status, Service!Status
  <2>6. e.connection \in Service!Watched
    BY <2>1, <2>2 DEF Service!Watched
  <2> QED BY <2>4, <2>5, <2>6
<1>7. Service!Watched' = Service!Watched
  BY <1>1 DEF Service!Watched
<1>8. Service!PollSockets
  <2>1. Service!Polled = Proved!Polled
    BY DEF Service!Polled, Proved!Polled, Service!Open, Proved!Open, Service!Alive, Proved!Alive,
           Service!ToSet, Proved!ToSet
  <2>2. Service!Settle(socket_descriptor)
    BY <1>1 DEF Settle
  <2> QED BY <1>3, <2>1, <2>2 DEF Service!PollSockets
<1>9. Outcome(socket_descriptor, socket, phase)
  <2>1. Proved!Structure(descriptors', poll_descriptor_map', socket_descriptor)
    BY <1>1, <1>5
  <2>2. /\ results' \subseteq [connection : Conns, status : Service!Statuses]
        /\ \A e \in results' : socket_descriptor[e.connection] # NoFd
    BY <1>4, ServiceFacts, SameService, NoFdAssumption DEF Service!Statuses, Proved!Statuses
  <2>3. KernelOK(socket_descriptor, socket, phase, leaked, faults')
    OBVIOUS
  <2>4. \A c \in Conns : socket_descriptor[c] # NoFd => socket_descriptor[c] = socket_descriptor[c]
    OBVIOUS
  <2> QED BY ONLY <1>1, <1>4, <2>1, <2>2, <2>3, <2>4, SettleOutcome
<1> QED BY <1>6, <1>7, <1>8, <1>9

-----------------------------------------------------------------------------
(* What steps may do to the sockets.                                        *)

\* The socket of an object changes or is made; when it begins to fail there
\* is one more fault.
LEMMA SocketChange ==
    ASSUME NEW sd, NEW sk, NEW ph, NEW lk, NEW fl, KernelOK(sd, sk, ph, lk, fl),
           NEW c \in Conns, NEW f \in Fds,
           sd[c] = f \/ (sd[c] = NoFd /\ \A d \in Conns : sd[d] # f),
           NEW sk2 \in [Conns -> [st : SocketStates, pending : 0 .. MaxPending]],
           sk2[c].st # "none", \A d \in Conns \ {c} : sk2[d] = sk[d],
           NEW fl2 \in 0 .. MaxFaults, fl <= fl2,
           sk2[c].st \in ShutdownFails => sk[c].st \in ShutdownFails \/ fl < fl2
    PROVE  KernelOK([sd EXCEPT ![c] = f], sk2, ph, lk, fl2)
<1> DEFINE sd2 == [sd EXCEPT ![c] = f]
<1>1. \A d \in Conns : sd2[d] = IF d = c THEN f ELSE sd[d]
  BY DEF KernelOK
<1>2. /\ sd2 \in [Conns -> Fds \cup {NoFd}]
      /\ \A a, b \in Conns : sd2[a] = sd2[b] /\ sd2[a] # NoFd => a = b
  BY <1>1 DEF KernelOK
<1>3. /\ \A d \in Conns : sd2[d] = NoFd => sk2[d] = NoSocket /\ ph[d] = "absent"
      /\ \A d \in Conns : sd2[d] # NoFd => sk2[d].st # "none"
  BY <1>1, NoFdAssumption DEF KernelOK
<1>4. Cardinality(lk) + Cardinality(Failing(sk2)) <= fl2
  <2>1. /\ Failing(sk2) \subseteq Failing(sk) \cup {c}
        /\ c \in Failing(sk2) => c \in Failing(sk) \/ fl < fl2
    BY DEF Failing
  <2>2. IsFiniteSet(Failing(sk)) /\ IsFiniteSet(Failing(sk2)) /\ IsFiniteSet(lk)
    BY ObjectsAssumption, FS_Subset DEF Failing, KernelOK
  <2>3. /\ Cardinality(lk) \in Nat /\ Cardinality(Failing(sk)) \in Nat /\ Cardinality(Failing(sk2)) \in Nat
        /\ fl \in Int /\ fl2 \in Int
    BY <2>2, FS_CardinalityType, BoundsAssumption DEF KernelOK
  <2>4. Cardinality(lk) + Cardinality(Failing(sk)) <= fl
    BY DEF KernelOK
  <2>5. CASE Failing(sk2) \subseteq Failing(sk)
    <3>1. Cardinality(Failing(sk2)) <= Cardinality(Failing(sk))
      BY <2>2, <2>5, FS_Subset
    <3> QED BY <2>3, <2>4, <3>1
  <2>6. CASE ~ Failing(sk2) \subseteq Failing(sk)
    <3>1. fl < fl2
      BY <2>1, <2>6
    <3>2. IsFiniteSet(Failing(sk) \cup {c}) /\ Cardinality(Failing(sk) \cup {c}) <= Cardinality(Failing(sk)) + 1
      <4>1. /\ IsFiniteSet(Failing(sk) \cup {c})
            /\ Cardinality(Failing(sk) \cup {c})
                 = IF c \in Failing(sk) THEN Cardinality(Failing(sk)) ELSE Cardinality(Failing(sk)) + 1
        BY <2>2, FS_AddElement
      <4> QED BY <2>3, <4>1
    <3>3. Cardinality(Failing(sk2)) <= Cardinality(Failing(sk) \cup {c})
      BY <2>1, <3>2, FS_Subset
    <3>4. Cardinality(Failing(sk) \cup {c}) \in Nat
      BY <3>2, FS_CardinalityType
    <3> QED BY <2>3, <2>4, <3>1, <3>2, <3>3, <3>4
  <2> QED BY <2>5, <2>6
<1> HIDE DEF sd2
<1>5. KernelOK(sd2, sk2, ph, lk, fl2)
  BY <1>2, <1>3, <1>4 DEF KernelOK
<1> QED BY <1>5 DEF sd2

\* The socket of an object that exists changes.
LEMMA SocketUpdate ==
    ASSUME KernelOK(socket_descriptor, socket, phase, leaked, faults),
           NEW c \in Conns, socket_descriptor[c] # NoFd,
           NEW sk2 \in [Conns -> [st : SocketStates, pending : 0 .. MaxPending]],
           sk2[c].st # "none", \A d \in Conns \ {c} : sk2[d] = socket[d],
           faults' \in 0 .. MaxFaults, faults <= faults',
           sk2[c].st \in ShutdownFails => socket[c].st \in ShutdownFails \/ faults < faults'
    PROVE  KernelOK(socket_descriptor, sk2, phase, leaked, faults')
<1>1. socket_descriptor[c] \in Fds /\ [socket_descriptor EXCEPT ![c] = socket_descriptor[c]] = socket_descriptor
  BY DEF KernelOK
<1>2. KernelOK([socket_descriptor EXCEPT ![c] = socket_descriptor[c]], sk2, phase, leaked, faults')
  BY <1>1, SocketChange
<1> QED BY <1>1, <1>2

\* receive() takes a chunk.
LEMMA ConsumedKernel ==
    ASSUME KernelOK(socket_descriptor, socket, phase, leaked, faults),
           NEW c \in Conns, socket_descriptor[c] # NoFd, socket[c].pending > 0,
           faults' \in 0 .. MaxFaults, faults <= faults'
    PROVE  /\ KernelOK(socket_descriptor, Consumed(c), phase, leaked, faults')
           /\ \A d \in Conns : Consumed(c)[d].st = socket[d].st
           /\ Consumed(c)[c].pending < socket[c].pending
           /\ \A d \in Conns \ {c} : Consumed(c)[d] = socket[d]
<1>1. /\ socket[c] \in [st : SocketStates, pending : 0 .. MaxPending] /\ socket[c].st # "none"
      /\ socket \in [Conns -> [st : SocketStates, pending : 0 .. MaxPending]]
  BY DEF KernelOK
<1>2. socket[c].pending - 1 \in 0 .. MaxPending /\ socket[c].pending - 1 < socket[c].pending
  BY <1>1, BoundsAssumption
<1>3. /\ Consumed(c) \in [Conns -> [st : SocketStates, pending : 0 .. MaxPending]]
      /\ Consumed(c)[c].st = socket[c].st /\ Consumed(c)[c].pending = socket[c].pending - 1
      /\ \A d \in Conns \ {c} : Consumed(c)[d] = socket[d]
  BY <1>1, <1>2 DEF Consumed
<1> HIDE DEF Consumed
<1>4. KernelOK(socket_descriptor, Consumed(c), phase, leaked, faults')
  BY <1>1, <1>3, SocketUpdate
<1> QED BY <1>2, <1>3, <1>4

\* The user is told something of a connection that exists.
LEMMA PhaseChange ==
    ASSUME NEW sd, NEW sk, NEW ph, NEW lk, NEW fl, KernelOK(sd, sk, ph, lk, fl),
           NEW c \in Conns, sd[c] # NoFd, NEW x \in {"served", "gone"}
    PROVE  KernelOK(sd, sk, [ph EXCEPT ![c] = x], lk, fl)
<1> QED BY DEF KernelOK

\* There is one more fault.
LEMMA FaultChange ==
    ASSUME NEW sd, NEW sk, NEW ph, NEW lk, NEW fl, KernelOK(sd, sk, ph, lk, fl),
           fl < MaxFaults
    PROVE  KernelOK(sd, sk, ph, lk, fl + 1)
<1>1. Cardinality(lk) \in Nat /\ Cardinality(Failing(sk)) \in Nat
  BY ObjectsAssumption, FS_Subset, FS_CardinalityType DEF Failing, KernelOK
<1> QED BY <1>1, BoundsAssumption DEF KernelOK

-----------------------------------------------------------------------------
(* Connections that come and go.                                            *)

\* The next object with the next descriptor.
Made == Service!Created(NewConn, NextFd)

\* A connection is made, its socket is as s says.
LEMMA MadeKernel ==
    ASSUME KernelOK(socket_descriptor, socket, phase, leaked, faults), FreeFds # {},
           NEW sk \in [Conns -> [st : SocketStates, pending : 0 .. MaxPending]],
           sk[NewConn].st \in SocketStates \ {"none"},
           \A c \in Conns \ {NewConn} : sk[c] = socket[c],
           faults' \in 0 .. MaxFaults, faults <= faults',
           sk[NewConn].st \in ShutdownFails => faults < faults'
    PROVE  /\ KernelOK(Made, sk, phase, leaked, faults')
           /\ KernelOK(Made, sk, [phase EXCEPT ![NewConn] = "served"], leaked, faults')
           /\ \A c \in Conns : socket_descriptor[c] # NoFd => Made[c] = socket_descriptor[c]
           /\ Made[NewConn] = NextFd
<1>1. /\ NewConn \in Conns /\ socket_descriptor[NewConn] = NoFd
      /\ NextFd \in Fds /\ \A c \in Conns : socket_descriptor[c] # NextFd
  BY FreshObject, NoFdAssumption DEF Service!Open, Service!Alive
<1>2. Made = [socket_descriptor EXCEPT ![NewConn] = NextFd]
  BY DEF Made, Service!Created
<1>3. KernelOK(Made, sk, phase, leaked, faults')
  BY <1>1, <1>2, SocketChange
<1>4. Made[NewConn] = NextFd /\ \A c \in Conns : socket_descriptor[c] # NoFd => Made[c] = socket_descriptor[c]
  BY <1>1, <1>2 DEF KernelOK
<1>5. KernelOK(Made, sk, [phase EXCEPT ![NewConn] = "served"], leaked, faults')
  BY <1>1, <1>3, <1>4, NoFdAssumption, PhaseChange
<1> QED BY <1>3, <1>4, <1>5

\* What the service knows of a connection that is about to be made.
LEMMA MadeService ==
    ASSUME ServiceOK, KernelOK(socket_descriptor, socket, phase, leaked, faults), FreeFds # {}
    PROVE  /\ Proved!Structure(descriptors, poll_descriptor_map, Made)
           /\ NextFd \notin DOMAIN poll_descriptor_map
           /\ NewConn \notin Service!Watched \cup Service!Reported \cup owned
           /\ \A e \in results : Made[e.connection] # NoFd
<1>1. /\ NewConn \in Conns /\ NewConn \notin Proved!Alive
      /\ NextFd \in Fds /\ NextFd \notin Proved!Open
  BY FreshObject, SameService
<1>2. Made = Proved!Created(NewConn, NextFd)
  BY <1>1, SameService DEF Made
<1>3. NewConn \notin Service!Watched \cup Service!Reported \cup owned
  BY <1>1, SameService DEF ServiceOK
<1>4. Proved!IInv
  BY DEF ServiceOK
<1> QED BY <1>1, <1>2, <1>3, <1>4, ServiceAssumptions, Proved!CreatedProperties

\* A connection is made, and nobody watches it.
LEMMA MakeOutcome ==
    ASSUME ServiceOK, KernelOK(socket_descriptor, socket, phase, leaked, faults), FreeFds # {},
           NEW sk, NEW ph, KernelOK(Made, sk, ph, leaked, faults'),
           \A c \in Conns : socket_descriptor[c] # NoFd => Made[c] = socket_descriptor[c],
           UNCHANGED service_vars, Settle(Made, sk, ph)
    PROVE  /\ Outcome(Made, sk, ph) /\ Service!NewSocket(NewConn, NextFd)
           /\ Service!Watched' = Service!Watched /\ results' = results
<1>1. UNCHANGED <<descriptors, poll_descriptor_map, results>>
  BY DEF service_vars
<1>2. Service!Watched' = Service!Watched
  BY <1>1 DEF Service!Watched
<1>3. Service!NewSocket(NewConn, NextFd)
  BY <1>1, FreshObject DEF Service!NewSocket, Settle, Made
<1>4. Outcome(Made, sk, ph)
  BY <1>1, MadeService, ServiceFacts, SettleOutcome DEF ServiceOK
<1> QED BY <1>1, <1>2, <1>3, <1>4

\* A connection is made and watched.
LEMMA AddOutcome ==
    ASSUME ServiceOK, KernelOK(socket_descriptor, socket, phase, leaked, faults), FreeFds # {},
           NEW sk, NEW ph, KernelOK(Made, sk, ph, leaked, faults'), Made[NewConn] = NextFd,
           \A c \in Conns : socket_descriptor[c] # NoFd => Made[c] = socket_descriptor[c],
           Service!add_socket(NewConn, NextFd), Settle(Made, sk, ph)
    PROVE  /\ Outcome(Made, sk, ph) /\ Service!AddNewSocket(NewConn, NextFd)
           /\ Service!Watched' = Service!Watched \cup {NewConn} /\ results' = results
<1>1. /\ NewConn \in Conns /\ NewConn \notin Service!Alive
      /\ NextFd \in Fds /\ NextFd \notin Service!Open
  BY FreshObject
<1>2. Proved!add_socket(NewConn, NextFd)
  BY DEF Service!add_socket, Proved!add_socket
<1>3. /\ Proved!Structure(descriptors', poll_descriptor_map', Made)
      /\ Proved!Watched' = Proved!Watched \cup {NewConn} /\ results' = results
  BY <1>1, <1>2, MadeService, ServiceAssumptions, Proved!AddSocketStep
<1>4. Service!Watched' = Service!Watched \cup {NewConn}
  BY <1>3, SameService, SameServiceNext
<1>5. Service!AddNewSocket(NewConn, NextFd)
  BY <1>1 DEF Service!AddNewSocket, Settle, Made
<1>6. Outcome(Made, sk, ph)
  BY <1>3, MadeService, ServiceFacts, SettleOutcome DEF ServiceOK
<1> QED BY <1>3, <1>4, <1>5, <1>6

\* A connection that somebody refers to is taken out of the service.
LEMMA RemoveOutcome ==
    ASSUME ServiceOK, NEW c \in owned \cup Service!Reported,
           NEW ph, KernelOK(socket_descriptor, socket, ph, leaked, faults'),
           Service!remove_socket(c), Settle(socket_descriptor, socket, ph)
    PROVE  /\ Outcome(socket_descriptor, socket, ph) /\ Service!RemoveSocket(c)
           /\ Service!Watched' = Service!Watched \ {c} /\ results' = results
<1>1. c \in Conns /\ socket_descriptor[c] \in Fds
  BY ServiceFacts
<1>2. Proved!remove_socket(c)
  BY DEF Service!remove_socket, Proved!remove_socket, Service!Reindexed, Proved!Reindexed,
         Service!RemoveAt, Proved!RemoveAt, Service!Restrict, Proved!Restrict, Service!Max, Proved!Max
<1>3. /\ Proved!Structure(descriptors', poll_descriptor_map', socket_descriptor)
      /\ Proved!Watched' = Proved!Watched \ {c} /\ results' = results
  BY <1>1, <1>2, ServiceFacts, ServiceAssumptions, Proved!RemoveSocketStep
<1>4. Service!Watched' = Service!Watched \ {c}
  BY <1>3, SameService, SameServiceNext
<1>5. Service!RemoveSocket(c)
  BY DEF Service!RemoveSocket, Settle
<1>6. Outcome(socket_descriptor, socket, ph)
  <2>1. /\ results' \subseteq [connection : Conns, status : Service!Statuses]
        /\ \A e \in results' : socket_descriptor[e.connection] # NoFd
    BY <1>3, ServiceFacts
  <2>2. \A e1, e2 \in results' : e1.connection = e2.connection => e1 = e2
    BY <1>3 DEF ServiceOK
  <2>3. \A d \in Conns : socket_descriptor[d] # NoFd => socket_descriptor[d] = socket_descriptor[d]
    OBVIOUS
  <2> QED BY ONLY <1>3, <2>1, <2>2, <2>3, SettleOutcome, Settle(socket_descriptor, socket, ph),
             KernelOK(socket_descriptor, socket, ph, leaked, faults')
<1> QED BY <1>3, <1>4, <1>5, <1>6

-----------------------------------------------------------------------------
(* The steps that Server and Client share.                                  *)

\* Neither the service nor a reference changes.
LEMMA StillOutcome ==
    ASSUME ServiceOK, KernelOK(socket_descriptor, socket', phase, leaked, faults'),
           UNCHANGED <<service_vars, connection, hook, socket_descriptor, phase, leaked>>
    PROVE  /\ Outcome(socket_descriptor, socket', phase) /\ UNCHANGED Service!vars
           /\ Service!Watched' = Service!Watched /\ results' = results
<1>1. /\ UNCHANGED <<descriptors, poll_descriptor_map, results, socket_descriptor>>
      /\ owned' = owned
  BY DEF service_vars, owned
<1>2. UNCHANGED Service!vars
  BY <1>1 DEF Service!vars
<1>3. Service!Watched' = Service!Watched /\ Service!Reported' = Service!Reported /\ Service!Alive' = Service!Alive
  BY <1>1 DEF Service!Watched, Service!Reported, Service!Alive
<1>4. Proved!IInv'
  BY <1>1 DEF ServiceOK, Proved!IInv, Proved!TypeOK, Proved!MapPointsIntoDescriptors,
       Proved!EntriesAreCurrent, Proved!DescriptorsDiffer, Proved!ReferencesAreAlive,
       Proved!Alive, Proved!Reported
<1>5. ServiceOK'
  BY <1>1, <1>3, <1>4 DEF ServiceOK
<1>6. owned \subseteq {c \in Conns : socket_descriptor[c] # NoFd}
  BY DEF ServiceOK, Service!Alive
<1>7. KernelOK(socket_descriptor', socket', phase', leaked', faults')
  BY <1>1
<1>8. \A c \in Service!Alive' : c \in Conns /\ socket_descriptor[c] # NoFd
  BY <1>3 DEF Service!Alive
<1> QED BY <1>1, <1>2, <1>3, <1>5, <1>6, <1>7, <1>8 DEF Outcome

\* A poll: the pass begins.
LEMMA PollStep ==
    ASSUME EndpointInv, poll_service
    PROVE  /\ Outcome(socket_descriptor, socket, phase) /\ PassOK' /\ Service!Next
           /\ Service!Watched' = Service!Watched
           /\ \A e \in results' :
                 LET flags == Readiness(socket[e.connection])
                 IN /\ e.connection \in Service!Watched
                    /\ flags # {} /\ e.status = Service!Status(flags)
<1>1. ServiceOK /\ KernelOK(socket_descriptor, socket, phase, leaked, faults) /\ PassOK
  BY DEF EndpointInv
<1>2. Service!poll(kernel_poll) /\ SettleAsIs /\ faults' = faults
  BY DEF poll_service, NoFault
<1>3. /\ Outcome(socket_descriptor, socket, phase) /\ Service!PollSockets
      /\ Service!Watched' = Service!Watched
      /\ \A e \in results' :
            LET flags == Readiness(socket[e.connection])
            IN /\ e.connection \in Service!Watched
               /\ flags # {} /\ e.status = Service!Status(flags)
  BY <1>1, <1>2, PollOutcome
<1>4. PassOK'
  <2>1. /\ todo' = results' /\ reading' = Idling /\ connection' = connection
    BY DEF poll_service, InPass, owner_vars
  <2>2. hook' \in [name : HookNames, client : Conns \cup {NULL}]
    BY DEF poll_service, NoHook, HookNames
  <2> QED BY <1>1, <2>1, <2>2 DEF PassOK
<1> QED BY <1>3, <1>4 DEF Service!Next

\* A poll that fails.
LEMMA PollThrowsStep ==
    ASSUME EndpointInv, poll_service_throws
    PROVE  /\ Outcome(socket_descriptor, socket, phase) /\ PassOK' /\ Service!Next
           /\ Service!Watched' = Service!Watched /\ results' = {}
<1>1. ServiceOK /\ KernelOK(socket_descriptor, socket, phase, leaked, faults) /\ PassOK
  BY DEF EndpointInv
<1>2. Service!poll_error /\ SettleAsIs /\ faults < MaxFaults /\ faults' = faults + 1
  BY DEF poll_service_throws, Fault
<1>3. KernelOK(socket_descriptor, socket, phase, leaked, faults')
  BY <1>1, <1>2, FaultChange
<1>4. /\ Outcome(socket_descriptor, socket, phase) /\ Service!PollError
      /\ Service!Watched' = Service!Watched /\ results' = {}
  BY <1>1, <1>2, <1>3, PollErrorOutcome
<1>5. PassOK'
  BY <1>1, <1>4 DEF PassOK, poll_service_throws, InPass, Idling, NoHook, owner_vars, pass_vars
<1> QED BY <1>4, <1>5 DEF Service!Next

\* A hook returns.
LEMMA HookReturnsStep ==
    ASSUME EndpointInv, hook_returns
    PROVE  /\ Outcome(socket_descriptor, socket, phase) /\ PassOK' /\ Service!Next
           /\ Service!Watched' = Service!Watched /\ results' = results
<1>1. ServiceOK /\ KernelOK(socket_descriptor, socket, phase, leaked, faults) /\ PassOK
  BY DEF EndpointInv
<1>2. UNCHANGED service_vars /\ Settle(socket_descriptor, socket, phase) /\ faults' = faults
  BY DEF hook_returns, NoFault, SettleAsIs
<1>3. /\ Outcome(socket_descriptor, socket, phase) /\ Service!Drop
      /\ Service!Watched' = Service!Watched /\ results' = results
  BY <1>1, <1>2, KeepOutcome
<1>4. PassOK'
  <2>1. /\ UNCHANGED <<connection, todo, reading>> /\ hook' = NoHook /\ hook # NoHook
    BY DEF hook_returns, owner_vars
  <2>2. NoHook \in [name : HookNames, client : Conns \cup {NULL}]
    BY DEF NoHook, HookNames
  <2> QED BY <1>1, <1>3, <2>1, <2>2 DEF PassOK
<1> QED BY <1>3, <1>4 DEF Service!Next

\* A hook throws, and the pass ends.
LEMMA HookThrowsStep ==
    ASSUME EndpointInv, hook_throws
    PROVE  /\ Outcome(socket_descriptor, socket, phase) /\ PassOK' /\ Service!Next
           /\ Service!Watched' = Service!Watched /\ results' = results /\ hook # NoHook
           /\ todo' = {} /\ reading' = Idling /\ hook' = NoHook
<1>1. ServiceOK /\ KernelOK(socket_descriptor, socket, phase, leaked, faults) /\ PassOK
  BY DEF EndpointInv
<1>2. /\ UNCHANGED service_vars /\ Settle(socket_descriptor, socket, phase)
      /\ faults < MaxFaults /\ faults' = faults + 1
  BY DEF hook_throws, Fault, SettleAsIs
<1>3. KernelOK(socket_descriptor, socket, phase, leaked, faults')
  BY <1>1, <1>2, FaultChange
<1>4. /\ Outcome(socket_descriptor, socket, phase) /\ Service!Drop
      /\ Service!Watched' = Service!Watched /\ results' = results
  BY <1>1, <1>2, <1>3, KeepOutcome
<1>5. PassOK'
  <2>1. connection' = connection /\ todo' = {} /\ reading' = Idling /\ hook' = NoHook
    BY DEF hook_throws, Throw, owner_vars
  <2>2. NoHook \in [name : HookNames, client : Conns \cup {NULL}]
    BY DEF NoHook, HookNames
  <2> QED BY <1>1, <1>4, <2>1, <2>2 DEF PassOK
<1> QED BY <1>4, <1>5 DEF Service!Next, hook_throws, Throw

\* A connection that is read from exists.
LEMMA ReadingExists ==
    ASSUME EndpointInv, reading # Idling
    PROVE  /\ reading.connection \in Conns /\ socket_descriptor[reading.connection] # NoFd
           /\ reading.part \in {"id", "body"} /\ hook = NoHook
           /\ reading.connection \in Service!Reported
<1>1. reading.connection \in Service!Reported /\ hook = NoHook /\ reading.part \in {"id", "body"}
  BY DEF EndpointInv, PassOK
<1> QED BY <1>1, ServiceFacts, NoFdAssumption DEF EndpointInv

\* The channel id is read.
LEMMA ReceiveIdStep ==
    ASSUME EndpointInv, receive_id
    PROVE  /\ Outcome(socket_descriptor, Consumed(reading.connection), phase) /\ PassOK' /\ Service!Next
           /\ Service!Watched' = Service!Watched /\ results' = results
           /\ reading # Idling /\ hook' = NoHook /\ todo' \subseteq todo
           /\ reading' # Idling => todo' = todo /\ reading'.connection = reading.connection
           /\ socket[reading.connection].st # "listening"
<1>1. ServiceOK /\ KernelOK(socket_descriptor, socket, phase, leaked, faults) /\ PassOK
  BY DEF EndpointInv
<1>2. reading # Idling /\ socket[reading.connection].pending > 0
  BY DEF receive_id, Idling
<1>3. /\ reading.connection \in Conns /\ socket_descriptor[reading.connection] # NoFd
      /\ hook = NoHook /\ reading.connection \in Service!Reported
  BY <1>2, ReadingExists
<1>4. faults' \in 0 .. MaxFaults /\ faults <= faults'
  BY <1>1, BoundsAssumption DEF receive_id, Fault, NoFault, KernelOK
<1>5. KernelOK(socket_descriptor, Consumed(reading.connection), phase, leaked, faults')
  BY <1>1, <1>2, <1>3, <1>4, ConsumedKernel
<1>6. UNCHANGED service_vars /\ Settle(socket_descriptor, Consumed(reading.connection), phase)
  BY DEF receive_id
<1>7. /\ Outcome(socket_descriptor, Consumed(reading.connection), phase) /\ Service!Drop
      /\ Service!Watched' = Service!Watched /\ results' = results
  BY <1>1, <1>5, <1>6, KeepOutcome
<1>8. Service!Reported' = Service!Reported
  BY <1>7 DEF Service!Reported
<1>9. /\ hook' = NoHook /\ connection' = connection /\ todo' \subseteq todo
      /\ \/ reading' = [connection |-> reading.connection, part |-> "body"] /\ todo' = todo
         \/ reading' = Idling
  BY <1>1, <1>2, <1>3 DEF receive_id, Throw, owner_vars, PassOK
<1>10. PassOK'
  BY <1>1, <1>2, <1>3, <1>7, <1>8, <1>9 DEF PassOK
<1> QED BY <1>2, <1>7, <1>9, <1>10 DEF Service!Next, receive_id

\* The body is read, and callbacks may run.
LEMMA ReceiveBodyStep ==
    ASSUME EndpointInv, receive_body
    PROVE  /\ Outcome(socket_descriptor, Consumed(reading.connection), phase) /\ PassOK' /\ Service!Next
           /\ Service!Watched' = Service!Watched /\ results' = results
           /\ reading # Idling /\ reading.part = "body" /\ reading' = Idling /\ todo' = todo
           /\ hook' \in {hook, [name |-> "message", client |-> reading.connection]}
<1>1. ServiceOK /\ KernelOK(socket_descriptor, socket, phase, leaked, faults) /\ PassOK
  BY DEF EndpointInv
<1>2. reading # Idling /\ reading.part = "body" /\ socket[reading.connection].pending > 0
  BY DEF receive_body, Idling
<1>3. /\ reading.connection \in Conns /\ socket_descriptor[reading.connection] # NoFd
      /\ hook = NoHook /\ reading.connection \in Service!Reported
  BY <1>2, ReadingExists
<1>4. faults' \in 0 .. MaxFaults /\ faults <= faults'
  BY <1>1, BoundsAssumption DEF receive_body, NoFault, KernelOK
<1>5. KernelOK(socket_descriptor, Consumed(reading.connection), phase, leaked, faults')
  BY <1>1, <1>2, <1>3, <1>4, ConsumedKernel
<1>6. UNCHANGED service_vars /\ Settle(socket_descriptor, Consumed(reading.connection), phase)
  BY DEF receive_body
<1>7. /\ Outcome(socket_descriptor, Consumed(reading.connection), phase) /\ Service!Drop
      /\ Service!Watched' = Service!Watched /\ results' = results
  BY <1>1, <1>5, <1>6, KeepOutcome
<1>8. /\ reading' = Idling /\ todo' = todo /\ connection' = connection
      /\ hook' \in {hook, [name |-> "message", client |-> reading.connection]}
  BY DEF receive_body, Call, owner_vars
<1>9. [name |-> "message", client |-> reading.connection] \in [name : HookNames, client : Conns \cup {NULL}]
  BY <1>3 DEF HookNames
<1>10. PassOK'
  BY <1>1, <1>7, <1>8, <1>9 DEF PassOK
<1> QED BY <1>2, <1>7, <1>8, <1>10 DEF Service!Next

\* What receive() sees of a reset.
ErrorRead(c) == [socket EXCEPT ![c].st = IF @ = "reset" THEN "hup" ELSE @]

\* receive() throws, and the pass ends.
LEMMA ReceiveThrowsStep ==
    ASSUME EndpointInv, receive_throws
    PROVE  /\ Outcome(socket_descriptor, ErrorRead(reading.connection), phase) /\ PassOK' /\ Service!Next
           /\ Service!Watched' = Service!Watched /\ results' = results
           /\ reading # Idling /\ todo' = {} /\ reading' = Idling /\ hook' = NoHook /\ hook = NoHook
           /\ \A c \in Conns : /\ ErrorRead(reading.connection)[c].pending = socket[c].pending
                               /\ ErrorRead(reading.connection)[c].st = IF c = reading.connection /\ socket[c].st = "reset"
                                                       THEN "hup" ELSE socket[c].st
<1> DEFINE r == reading.connection
           sk2 == ErrorRead(r)
<1>1. ServiceOK /\ KernelOK(socket_descriptor, socket, phase, leaked, faults) /\ PassOK
  BY DEF EndpointInv
<1>2. reading # Idling
  BY DEF receive_throws
<1>3. r \in Conns /\ socket_descriptor[r] # NoFd /\ hook = NoHook
  BY <1>2, ReadingExists
<1>4. /\ socket \in [Conns -> [st : SocketStates, pending : 0 .. MaxPending]] /\ socket[r].st # "none"
      /\ faults' = faults /\ faults \in 0 .. MaxFaults
  BY <1>1, <1>3 DEF receive_throws, NoFault, KernelOK
<1>5. /\ sk2 \in [Conns -> [st : SocketStates, pending : 0 .. MaxPending]]
      /\ \A c \in Conns : /\ sk2[c].pending = socket[c].pending
                          /\ sk2[c].st = IF c = r /\ socket[c].st = "reset" THEN "hup" ELSE socket[c].st
      /\ \A c \in Conns \ {r} : sk2[c] = socket[c]
  BY <1>3, <1>4 DEF ErrorRead, SocketStates
<1> HIDE DEF sk2
<1>6. KernelOK(socket_descriptor, sk2, phase, leaked, faults')
  <2>1. sk2[r].st # "none" /\ (sk2[r].st \in ShutdownFails => socket[r].st \in ShutdownFails)
    BY <1>3, <1>4, <1>5 DEF ShutdownFails
  <2>2. faults' \in 0 .. MaxFaults /\ faults <= faults'
    BY <1>4, BoundsAssumption
  <2> QED BY <1>1, <1>3, <1>5, <2>1, <2>2, SocketUpdate
<1>7. UNCHANGED service_vars /\ Settle(socket_descriptor, sk2, phase)
  BY DEF receive_throws, sk2, ErrorRead
<1>8. /\ Outcome(socket_descriptor, sk2, phase) /\ Service!Drop
      /\ Service!Watched' = Service!Watched /\ results' = results
  BY <1>1, <1>6, <1>7, KeepOutcome
<1>9. todo' = {} /\ reading' = Idling /\ hook' = NoHook /\ connection' = connection
  BY DEF receive_throws, Throw, owner_vars
<1>10. PassOK'
  BY <1>1, <1>3, <1>9 DEF PassOK
<1> QED BY <1>2, <1>3, <1>5, <1>8, <1>9, <1>10 DEF Service!Next, sk2

\* A socket is changed from outside.
LEMMA ChangesStep ==
    ASSUME EndpointInv, NEW c \in Conns, NEW s, Changes(c, s),
           s \in [st : SocketStates, pending : 0 .. MaxPending],
           socket[c].st # "none", s.st # "none",
           faults' \in 0 .. MaxFaults, faults <= faults',
           s.st \in ShutdownFails => socket[c].st \in ShutdownFails \/ faults < faults'
    PROVE  /\ Outcome(socket_descriptor, socket', phase) /\ PassOK' /\ UNCHANGED Service!vars
           /\ Service!Watched' = Service!Watched
           /\ socket'[c] = s /\ \A d \in Conns \ {c} : socket'[d] = socket[d]
           /\ UNCHANGED <<results, connection, state, todo, reading, hook, socket_descriptor, phase>>
<1>1. ServiceOK /\ KernelOK(socket_descriptor, socket, phase, leaked, faults) /\ PassOK
  BY DEF EndpointInv
<1>2. /\ socket' = [socket EXCEPT ![c] = s]
      /\ UNCHANGED <<service_vars, connection, hook, socket_descriptor, phase, leaked>>
      /\ UNCHANGED <<results, connection, state, todo, reading, hook, socket_descriptor, phase>>
  BY DEF Changes, owner_vars, pass_vars, service_vars
<1>3. /\ socket \in [Conns -> [st : SocketStates, pending : 0 .. MaxPending]]
      /\ socket_descriptor[c] # NoFd
  BY <1>1 DEF KernelOK, NoSocket
<1>4. /\ socket' \in [Conns -> [st : SocketStates, pending : 0 .. MaxPending]]
      /\ socket'[c] = s /\ \A d \in Conns \ {c} : socket'[d] = socket[d]
  BY <1>2, <1>3
<1>5. KernelOK(socket_descriptor, socket', phase, leaked, faults')
  BY <1>1, <1>3, <1>4, SocketUpdate
<1>6. /\ Outcome(socket_descriptor, socket', phase) /\ UNCHANGED Service!vars
      /\ Service!Watched' = Service!Watched
  BY <1>1, <1>2, <1>5, StillOutcome
<1>7. PassOK'
  BY <1>1, <1>2 DEF PassOK, Service!Reported
<1> QED BY <1>2, <1>4, <1>6, <1>7

\* A peer sends, closes or resets.
LEMMA PeerStep ==
    ASSUME EndpointInv, NEW c \in Conns, peer_sends(c) \/ peer_closes(c) \/ peer_resets(c)
    PROVE  /\ Outcome(socket_descriptor, socket', phase) /\ PassOK' /\ UNCHANGED Service!vars
           /\ Service!Watched' = Service!Watched
           /\ socket[c].st \in {"estab", "eof"} /\ socket'[c].st \in {"estab", "eof", "reset", "aborted"}
           /\ socket[c].st = "eof" => socket'[c].st = "aborted" /\ socket'[c].pending = socket[c].pending
           /\ \A d \in Conns \ {c} : socket'[d] = socket[d]
           /\ UNCHANGED <<results, connection, state, todo, reading, hook, socket_descriptor, phase>>
<1>1. /\ socket[c] \in [st : SocketStates, pending : 0 .. MaxPending]
      /\ MaxPending \in Nat /\ MaxFaults \in Nat /\ faults \in 0 .. MaxFaults
  BY BoundsAssumption DEF EndpointInv, KernelOK
<1>2. CASE peer_sends(c)
  <2> DEFINE s == [socket[c] EXCEPT !.pending = @ + 1]
  <2>1. /\ socket[c].st = "estab" /\ s.st = "estab" /\ Changes(c, s) /\ faults' = faults
        /\ s \in [st : SocketStates, pending : 0 .. MaxPending]
    BY <1>1, <1>2 DEF peer_sends, NoFault
  <2> HIDE DEF s
  <2>2. /\ "estab" # "none" /\ "estab" \notin ShutdownFails
        /\ faults' \in 0 .. MaxFaults /\ faults <= faults'
    BY <1>1, <2>1 DEF ShutdownFails
  <2> QED BY <2>1, <2>2, ChangesStep
<1>3. CASE peer_closes(c)
  <2> DEFINE s == [socket[c] EXCEPT !.st = "eof"]
  <2>1. /\ socket[c].st = "estab" /\ s.st = "eof" /\ Changes(c, s) /\ faults' = faults
        /\ s \in [st : SocketStates, pending : 0 .. MaxPending]
    BY <1>1, <1>3 DEF peer_closes, NoFault, SocketStates
  <2> HIDE DEF s
  <2>2. /\ "eof" # "none" /\ "estab" # "none" /\ "eof" \notin ShutdownFails
        /\ faults' \in 0 .. MaxFaults /\ faults <= faults'
    BY <1>1, <2>1 DEF ShutdownFails
  <2> QED BY <2>1, <2>2, ChangesStep
<1>4. CASE peer_resets(c)
  <2> DEFINE s == [socket[c] EXCEPT !.st = IF @ = "estab" THEN "reset" ELSE "aborted"]
  <2>1. /\ socket[c].st \in {"estab", "eof"} /\ s.st = (IF socket[c].st = "estab" THEN "reset" ELSE "aborted")
        /\ s.pending = socket[c].pending
        /\ Changes(c, s) /\ faults' = faults + 1 /\ faults < MaxFaults
        /\ s \in [st : SocketStates, pending : 0 .. MaxPending]
    BY <1>1, <1>4 DEF peer_resets, Fault, SocketStates
  <2> HIDE DEF s
  <2>2. socket[c].st # "none" /\ s.st # "none" /\ faults' \in 0 .. MaxFaults /\ faults < faults'
        /\ faults <= faults'
    BY <1>1, <2>1
  <2> QED BY <2>1, <2>2, ChangesStep
<1> QED BY <1>2, <1>3, <1>4

-----------------------------------------------------------------------------
(* An endpoint of a program in which nothing fails: m is the connection     *)
(* over which messages come (or NULL), its peer never goes, and the other   *)
(* peers send nothing.                                                      *)

SocketsCalm(sk, cn, m) ==
    /\ \A c \in Conns : sk[c].st \in {"none", "listening", "estab", "eof"}
    /\ \A c \in Conns : sk[c].st = "listening" => c = cn
    /\ \A c \in Conns : c # m /\ sk[c].st # "listening" => sk[c].pending = 0
    /\ m # NULL => sk[m].st = "estab"

PassCalm(td, rd, hk, m) ==
    /\ \A e \in td : e.status = "NORMAL"
    /\ rd.part = "body" => rd.connection = m
    /\ hk.name = "poll_timeout" => td = {}

Calm(sk, cn, W, td, rd, hk, m) ==
    /\ m # NULL => m \in W
    /\ SocketsCalm(sk, cn, m) /\ PassCalm(td, rd, hk, m)

\* The chunks of messages that the endpoint holds: at the socket, read in part,
\* and those of a message whose callback runs.
Chunks(sk, rd, hk, m) ==
    (IF m = NULL THEN 0 ELSE sk[m].pending) + (IF rd.part = "body" THEN 1 ELSE 0)
       + (IF hk.name = "message" THEN 2 ELSE 0)

\* Sockets that a step leaves calm are calm after it.
LEMMA CalmAfter ==
    ASSUME NEW sd, NEW sk, NEW ph, NEW m \in Conns \cup {NULL}, Outcome(sd, sk, ph),
           SocketsCalm(sk, connection', m), m # NULL => m \in Service!Watched'
    PROVE  SocketsCalm(socket', connection', m) /\ (m # NULL => socket'[m] = sk[m])
<1>1. \A c \in Conns : socket'[c] \in {sk[c], NoSocket}
  BY DEF Outcome, KernelOK, Service!Alive
<1>2. m # NULL => socket'[m] = sk[m]
  BY DEF Outcome, ServiceOK
<1> QED BY <1>1, <1>2 DEF SocketsCalm, NoSocket

\* The chunks can be counted.
LEMMA ChunksType ==
    ASSUME EndpointInv, NEW m \in Conns \cup {NULL}
    PROVE  /\ m # NULL => socket[m].pending \in Nat
           /\ Chunks(socket, reading, hook, m) \in Nat
<1>1. m # NULL => socket[m].pending \in Nat
  BY BoundsAssumption DEF EndpointInv, KernelOK
<1> QED BY <1>1 DEF Chunks

\* Each entry that poll() finds is to be read, and it finds no message twice.
LEMMA CalmPoll ==
    ASSUME EndpointInv, poll_service, NEW m \in Conns \cup {NULL},
           Calm(socket, connection, Service!Watched, todo, reading, hook, m)
    PROVE  /\ Calm(socket', connection', Service!Watched', todo', reading', hook', m)
           /\ Chunks(socket', reading', hook', m) = Chunks(socket, reading, hook, m)
<1>1. /\ Outcome(socket_descriptor, socket, phase) /\ Service!Watched' = Service!Watched
      /\ \A e \in results' :
            LET flags == Readiness(socket[e.connection])
            IN /\ e.connection \in Service!Watched
               /\ flags # {} /\ e.status = Service!Status(flags)
  BY PollStep
<1>2. /\ todo = {} /\ reading = Idling /\ hook = NoHook /\ todo' = results' /\ reading' = Idling
      /\ connection' = connection
      /\ hook' = IF results' = {} THEN [name |-> "poll_timeout", client |-> NULL] ELSE NoHook
  BY DEF poll_service, InPass, owner_vars
<1>3. SocketsCalm(socket, connection', m) /\ (m # NULL => m \in Service!Watched')
  BY <1>1, <1>2 DEF Calm
<1>4. SocketsCalm(socket', connection', m) /\ (m # NULL => socket'[m] = socket[m])
  BY <1>1, <1>3, CalmAfter
<1>5. ASSUME NEW e \in results'
      PROVE  e.status = "NORMAL"
  <2>1. e.connection \in Conns /\ socket_descriptor[e.connection] # NoFd
    BY <1>1, ServiceFacts, NoFdAssumption DEF EndpointInv
  <2>2. socket[e.connection].st \in {"listening", "estab", "eof"}
    BY <2>1 DEF EndpointInv, KernelOK, Calm, SocketsCalm
  <2>3. Readiness(socket[e.connection]) = {"POLLIN"}
    BY <1>1, <2>2 DEF Readiness
  <2> QED BY <1>1, <2>3 DEF Service!Status
<1>6. PassCalm(todo', reading', hook', m)
  BY <1>2, <1>5 DEF PassCalm, Idling, NoHook
<1>7. Chunks(socket', reading', hook', m) = Chunks(socket, reading, hook, m)
  BY <1>2, <1>4 DEF Chunks, NoHook
<1> QED BY <1>3, <1>4, <1>6, <1>7 DEF Calm

\* A callback that returns is done with its message.
LEMMA CalmHookReturns ==
    ASSUME EndpointInv, hook_returns, NEW m \in Conns \cup {NULL},
           Calm(socket, connection, Service!Watched, todo, reading, hook, m)
    PROVE  /\ Calm(socket', connection', Service!Watched', todo', reading', hook', m)
           /\ Chunks(socket', reading', hook', m)
                 = Chunks(socket, reading, hook, m) - (IF hook.name = "message" THEN 2 ELSE 0)
           /\ UNCHANGED <<todo, reading>> /\ hook' = NoHook /\ reading = Idling
<1>1. /\ Outcome(socket_descriptor, socket, phase) /\ Service!Watched' = Service!Watched
  BY HookReturnsStep
<1>2. /\ UNCHANGED <<todo, reading, connection>> /\ hook # NoHook /\ hook' = NoHook
  BY DEF hook_returns, owner_vars
<1>3. reading = Idling
  BY <1>2 DEF EndpointInv, PassOK
<1>4. SocketsCalm(socket, connection', m) /\ (m # NULL => m \in Service!Watched')
  BY <1>1, <1>2 DEF Calm
<1>5. SocketsCalm(socket', connection', m) /\ (m # NULL => socket'[m] = socket[m])
  BY <1>1, <1>4, CalmAfter
<1>6. PassCalm(todo', reading', hook', m)
  BY <1>2, <1>3 DEF Calm, PassCalm, Idling, NoHook
<1>7. Chunks(socket', reading', hook', m)
         = Chunks(socket, reading, hook, m) - (IF hook.name = "message" THEN 2 ELSE 0)
  <2>1. Chunks(socket', reading', hook', m) = IF m = NULL THEN 0 ELSE socket[m].pending
    BY <1>2, <1>3, <1>5, ChunksType DEF Chunks, NoHook, Idling
  <2>2. Chunks(socket, reading, hook, m)
           = (IF m = NULL THEN 0 ELSE socket[m].pending) + (IF hook.name = "message" THEN 2 ELSE 0)
    BY <1>3, ChunksType DEF Chunks, Idling
  <2>3. m # NULL => socket[m].pending \in Nat
    BY ChunksType
  <2> QED BY <2>1, <2>2, <2>3
<1> QED BY <1>2, <1>3, <1>4, <1>5, <1>6, <1>7 DEF Calm

\* A chunk that is received is that of m.
LEMMA CalmConsumes ==
    ASSUME EndpointInv, NEW m \in Conns \cup {NULL},
           Calm(socket, connection, Service!Watched, todo, reading, hook, m),
           reading # Idling, socket[reading.connection].pending > 0,
           socket[reading.connection].st # "listening"
    PROVE  /\ reading.connection = m /\ m # NULL
           /\ SocketsCalm(Consumed(m), connection, m)
           /\ Consumed(m)[m].pending = socket[m].pending - 1
<1>1. reading.connection \in Conns
  BY ReadingExists
<1>2. reading.connection = m /\ m # NULL /\ m \in Conns
  <2>1. reading.connection = m
    BY <1>1 DEF Calm, SocketsCalm
  <2> QED BY <1>1, <2>1, NullAssumption
<1>3. socket \in [Conns -> [st : SocketStates, pending : 0 .. MaxPending]]
  BY DEF EndpointInv, KernelOK
<1>4. /\ Consumed(m)[m].pending = socket[m].pending - 1 /\ Consumed(m)[m].st = socket[m].st
      /\ \A c \in Conns \ {m} : Consumed(m)[c] = socket[c]
  BY <1>2, <1>3 DEF Consumed
<1>5. SocketsCalm(Consumed(m), connection, m)
  BY <1>2, <1>4 DEF Calm, SocketsCalm
<1> QED BY <1>2, <1>4, <1>5

\* The id is received: the message is read in part.
LEMMA CalmReceiveId ==
    ASSUME EndpointInv, receive_id, faults' = faults, NEW m \in Conns \cup {NULL},
           Calm(socket, connection, Service!Watched, todo, reading, hook, m)
    PROVE  /\ Calm(socket', connection', Service!Watched', todo', reading', hook', m)
           /\ Chunks(socket', reading', hook', m) = Chunks(socket, reading, hook, m)
           /\ hook' = hook
<1>1. /\ Outcome(socket_descriptor, Consumed(reading.connection), phase)
      /\ Service!Watched' = Service!Watched /\ socket[reading.connection].st # "listening"
      /\ reading # Idling
  BY ReceiveIdStep
<1>2. socket[reading.connection].pending > 0 /\ reading.part = "id" /\ connection' = connection
  BY DEF receive_id, owner_vars
<1>3. /\ reading.connection = m /\ m # NULL
      /\ SocketsCalm(Consumed(m), connection', m)
      /\ Consumed(m)[m].pending = socket[m].pending - 1
  BY <1>1, <1>2, CalmConsumes
<1>4. m \in Service!Watched'
  BY <1>1, <1>3 DEF Calm
<1>5. SocketsCalm(socket', connection', m) /\ socket'[m].pending = socket[m].pending - 1
  BY <1>1, <1>3, <1>4, CalmAfter
<1>6. ~ Fault
  BY BoundsAssumption DEF EndpointInv, KernelOK, Fault
<1>7. /\ reading' = [reading EXCEPT !.part = "body"] /\ UNCHANGED <<todo, hook>>
      /\ hook = NoHook
  BY <1>1, <1>6 DEF receive_id, EndpointInv, PassOK
<1>8. reading'.connection = m /\ reading'.part = "body"
  BY <1>1, <1>3, <1>7 DEF EndpointInv, PassOK
<1>9. PassCalm(todo', reading', hook', m)
  BY <1>7, <1>8 DEF Calm, PassCalm
<1>10. Chunks(socket', reading', hook', m) = Chunks(socket, reading, hook, m)
  BY <1>2, <1>3, <1>5, <1>7, <1>8, ChunksType DEF Chunks, NoHook
<1> QED BY <1>4, <1>5, <1>7, <1>9, <1>10 DEF Calm

\* The body is received: the callback has the message.
LEMMA CalmReceiveBody ==
    ASSUME EndpointInv, receive_body, hook'.name = "message", NEW m \in Conns \cup {NULL},
           Calm(socket, connection, Service!Watched, todo, reading, hook, m)
    PROVE  /\ Calm(socket', connection', Service!Watched', todo', reading', hook', m)
           /\ Chunks(socket', reading', hook', m) = Chunks(socket, reading, hook, m)
           /\ hook = NoHook
<1>1. /\ Outcome(socket_descriptor, Consumed(reading.connection), phase)
      /\ Service!Watched' = Service!Watched
      /\ reading # Idling /\ reading.part = "body" /\ reading' = Idling /\ todo' = todo
  BY ReceiveBodyStep
<1>2. /\ socket[reading.connection].pending > 0 /\ connection' = connection
      /\ hook = NoHook
  BY <1>1 DEF receive_body, owner_vars, EndpointInv, PassOK
<1>3. reading.connection = m /\ m \in Conns /\ m # NULL /\ socket[m].st = "estab"
  BY <1>1, ReadingExists, NullAssumption DEF Calm, PassCalm, SocketsCalm
<1>4. /\ SocketsCalm(Consumed(m), connection', m)
      /\ Consumed(m)[m].pending = socket[m].pending - 1
  BY <1>1, <1>2, <1>3, CalmConsumes
<1>5. m \in Service!Watched'
  BY <1>1, <1>3 DEF Calm
<1>6. SocketsCalm(socket', connection', m) /\ socket'[m].pending = socket[m].pending - 1
  BY <1>1, <1>3, <1>4, <1>5, CalmAfter
<1>7. PassCalm(todo', reading', hook', m)
  BY <1>1 DEF Calm, PassCalm, Idling
<1>8. Chunks(socket', reading', hook', m) = Chunks(socket, reading, hook, m)
  BY <1>1, <1>2, <1>3, <1>6, ChunksType DEF Chunks, NoHook, Idling
<1> QED BY <1>2, <1>5, <1>6, <1>7, <1>8 DEF Calm

\* The loop begins to read.
LEMMA CalmReady ==
    ASSUME NEW e \in todo, Takes(e), StartReading(e.connection), NEW m \in Conns \cup {NULL},
           Calm(socket, connection, Service!Watched, todo, reading, hook, m)
    PROVE  /\ Calm(socket', connection', Service!Watched', todo', reading', hook', m)
           /\ Chunks(socket', reading', hook', m) = Chunks(socket, reading, hook, m)
           /\ hook' = hook
<1>1. /\ UNCHANGED <<socket, connection, hook>> /\ todo' = todo \ {e} /\ reading = Idling
      /\ reading'.part = "id" /\ hook = NoHook
  BY DEF Takes, StartReading, owner_vars, kernel_vars
<1>2. Service!Watched' = Service!Watched
  BY DEF StartReading, service_vars, Service!Watched
<1> QED BY <1>1, <1>2 DEF Calm, PassCalm, Chunks, Idling, NoHook

\* A chunk arrives.
LEMMA CalmPeerSends ==
    ASSUME EndpointInv, NEW m \in Conns, peer_sends(m),
           Calm(socket, connection, Service!Watched, todo, reading, hook, m)
    PROVE  /\ Calm(socket', connection', Service!Watched', todo', reading', hook', m)
           /\ Chunks(socket', reading', hook', m) = Chunks(socket, reading, hook, m) + 1
           /\ UNCHANGED <<todo, reading, hook, connection, faults>>
<1>1. /\ UNCHANGED <<connection, todo, reading, hook, faults>> /\ Service!Watched' = Service!Watched
      /\ socket' = [socket EXCEPT ![m] = [socket[m] EXCEPT !.pending = @ + 1]]
  BY DEF peer_sends, Changes, NoFault, owner_vars, pass_vars, service_vars, Service!Watched
<1>2. socket \in [Conns -> [st : SocketStates, pending : 0 .. MaxPending]] /\ m # NULL
  BY NullAssumption DEF EndpointInv, KernelOK
<1>3. /\ socket'[m].st = socket[m].st /\ socket'[m].pending = socket[m].pending + 1
      /\ \A c \in Conns \ {m} : socket'[c] = socket[c]
  BY <1>1, <1>2
<1>4. SocketsCalm(socket', connection', m)
  BY <1>1, <1>2, <1>3 DEF Calm, SocketsCalm
<1>5. Chunks(socket', reading', hook', m) = Chunks(socket, reading, hook, m) + 1
  BY <1>1, <1>2, <1>3, ChunksType DEF Chunks
<1> QED BY <1>1, <1>4, <1>5 DEF Calm

\* No receive() fails.
LEMMA CalmNeverThrows ==
    ASSUME EndpointInv, NEW m \in Conns \cup {NULL},
           Calm(socket, connection, Service!Watched, todo, reading, hook, m),
           reading # Idling => socket[reading.connection].st # "listening"
    PROVE  ~ receive_throws
<1>1. reading # Idling => socket[reading.connection].st # "reset"
  BY ReadingExists DEF Calm, SocketsCalm
<1> QED BY <1>1 DEF receive_throws

-----------------------------------------------------------------------------
(* The beginning, and the types.                                            *)

\* What the two begin with.
LEMMA InitEndpoint ==
    ASSUME EndpointInit
    PROVE  /\ EndpointInv /\ Service!Init
           /\ Service!Watched = {} /\ Service!Alive = {} /\ results = {} /\ ~ InPass
<1>1. /\ connection = NULL /\ todo = {} /\ reading = Idling /\ hook = NoHook
      /\ phase = [c \in Conns |-> "absent"] /\ socket = [c \in Conns |-> NoSocket]
      /\ leaked = {} /\ faults = 0 /\ Service!Init
  BY DEF EndpointInit
<1>2. /\ poll_descriptor_map = [f \in {} |-> NULL] /\ results = {}
      /\ socket_descriptor = [c \in Conns |-> NoFd] /\ Proved!Init
  BY <1>1 DEF Service!Init, Proved!Init
<1>3. Service!Watched = {} /\ Service!Alive = {} /\ Service!Reported = {} /\ owned = {}
  BY <1>1, <1>2 DEF Service!Watched, Service!Alive, Service!Reported, owned, NoHook
<1>4. ServiceOK
  <2>1. Proved!IInv
    BY <1>2, ServiceAssumptions, Proved!InitInvariant
  <2> QED BY <1>2, <1>3, <2>1 DEF ServiceOK
<1>5. KernelOK(socket_descriptor, socket, phase, leaked, faults)
  <2>1. NoSocket \in [st : SocketStates, pending : 0 .. MaxPending] /\ NoSocket.st \notin ShutdownFails
    BY BoundsAssumption DEF NoSocket, SocketStates, ShutdownFails
  <2>2. Failing(socket) = {}
    BY <1>1, <2>1 DEF Failing
  <2>3. Cardinality(leaked) = 0 /\ Cardinality(Failing(socket)) = 0
    BY <1>1, <2>2, FS_EmptySet
  <2>4. 0 \in 0 .. MaxFaults
    BY BoundsAssumption
  <2> QED BY <1>1, <1>2, <2>1, <2>3, <2>4 DEF KernelOK
<1>6. PassOK
  <2>1. NoHook \in [name : HookNames, client : Conns \cup {NULL}]
    BY DEF NoHook, HookNames
  <2> QED BY <1>1, <1>2, <2>1 DEF PassOK
<1> QED BY <1>1, <1>2, <1>3, <1>4, <1>5, <1>6 DEF EndpointInv, InPass

\* The invariant has the types in it.
LEMMA EndpointTypes ==
    ASSUME EndpointInv
    PROVE  EndpointTypeOK
<1>1. Service!TypeOK
  BY ServiceFacts DEF EndpointInv
<1> QED BY <1>1 DEF EndpointInv, KernelOK, PassOK, EndpointTypeOK

\* Leaks are paid by faults, those of sockets that still fail included.
LEMMA LeaksArePaid ==
    ASSUME KernelOK(socket_descriptor, socket, phase, leaked, faults)
    PROVE  Cardinality(leaked) <= faults
<1>1. Cardinality(leaked) \in Nat /\ Cardinality(Failing(socket)) \in Nat
  BY ObjectsAssumption, FS_Subset, FS_CardinalityType DEF Failing, KernelOK
<1> QED BY <1>1, BoundsAssumption DEF KernelOK
=============================================================================
