----------------------- MODULE SocketConnectionProofs -----------------------
(***************************************************************************)
(* The counters of the sockets API and the results of getaddrinfo(), for   *)
(* any number of threads and of connections.                               *)
(***************************************************************************)
EXTENDS SocketConnection, FiniteSetTheorems, TLAPS

Making == {"initialize", "initialized", "open_socket"}
Closing == {"close_socket", "while", "quit"}

\* A thread works on an object of its own.
Places == 
    /\ \A t \in Threads : 
          /\ pc[t].at \in Making => pc[t].conn \in Conns /\ objects[pc[t].conn] = "making"
          /\ pc[t].at \in Closing => pc[t].conn \in Conns /\ objects[pc[t].conn] = "closing"
    /\ \A t, u \in Threads : 
          pc[t].at # "idle" /\ pc[u].at # "idle" /\ pc[t].conn = pc[u].conn => t = u

\* The member address_info lives with its object, and holds no result before
\* the object is made.
InfoFollowsObject == 
    \A c \in Conns : 
       /\ objects[c] = "none" => address_info[c] = "none"
       /\ objects[c] = "making" => address_info[c] = "hints"

Results == {c \in Conns : address_info[c] = "result"}

ResultsAreCounted == IsFiniteSet(Results) /\ addrinfos = Cardinality(Results)

\* A pointer without value is there, or was freed, only after a call has failed.
GarbageIsPaid == 
    corrupted \/ (\E c \in Conns : address_info[c] = "garbage") => faults > 0

\* The objects whose constructor has counted up and whose destructor has not
\* counted down.
Counted == 
    {c \in Conns : 
        \/ objects[c] \in {"making", "open"}
        \/ \E t \in Threads : pc[t].at = "close_socket" /\ pc[t].conn = c}

\* A constructor that threw has counted as well: the counter is at least the
\* number of objects, and it never wraps.
OpensAreCounted == 
    /\ IsFiniteSet(Counted) /\ Cardinality(Counted) <= open_connection_count
    /\ open_connection_count <= made
    /\ \A c \in Conns : objects[c] # "none" => made > 0

\* The initializations that are not counted yet, and the ones a constructor
\* may still make.
Uncounted == {t \in Threads : pc[t].at = "initialized"}
Coming == 
    {t \in Threads : 
        \/ pc[t].at \in {"initialize", "initialized"}
        \/ pc[t].at = "open_socket" /\ ~ pc[t].retry /\ api = 0}

\* The unsigned counter read as a number: the last test of a loop leaves -1.
Balance == IF initializations > made THEN initializations - W ELSE initializations

LoopRunsAlone == 
    /\ \A t \in Threads : Draining(t) => open_connection_count = 0 /\ Balance >= 0
    /\ \A t, u \in Threads : Draining(t) /\ Draining(u) => t = u

BalanceIsBounded == 
    /\ initializations > made => initializations = W - 1 /\ made > 0
    /\ IsFiniteSet(Coming) /\ Balance + Cardinality(Coming) <= made

\* With a balance of -1 the first constructor of the next generation has not
\* counted its initialization, or it threw and the loop is not reached again.
NextGenerationInitializes == 
    Balance < 0 /\ open_connection_count > 0 => 
       \/ \E t \in Threads : pc[t].at \in {"initialize", "initialized"}
       \/ open_connection_count > Cardinality(Counted)

ApiCoversBalance == 
    /\ IsFiniteSet(Uncounted) /\ api >= Balance + Cardinality(Uncounted)
    /\ \A t \in Threads : pc[t].at = "quit" => api > Balance

ApiIsNeeded == 
    /\ \A c \in Conns : IsOpen(c) => api > 0
    /\ \A t \in Threads : 
          pc[t].at = "initialized" \/ (pc[t].at = "open_socket" /\ pc[t].accepted) => api > 0

Accounts == 
    /\ LoopRunsAlone
    /\ BalanceIsBounded
    /\ NextGenerationInitializes
    /\ ApiCoversBalance
    /\ ApiIsNeeded

IInv == 
    /\ TypeOK
    /\ Places
    /\ InfoFollowsObject
    /\ ResultsAreCounted
    /\ GarbageIsPaid
    /\ OpensAreCounted
    /\ overlapped \/ Accounts
-----------------------------------------------------------------------------
(* Each conjunct of the invariant, step by step.                            *)

\* The initial state satisfies the invariant.
LEMMA InitInvariant == Init => IInv
<1> SUFFICES ASSUME Init
             PROVE  IInv
  OBVIOUS
<1> USE BoundsAssumption, NobodyAssumption DEF Init, Idle
<1>1. TypeOK
  <2>1. Idle \in [at : Steps, conn : Conns \cup {Nobody}, retry : BOOLEAN, accepted : BOOLEAN]
    BY DEF Steps
  <2>2. 0 \in 0 .. W - 1 /\ 0 \in 0 .. MaxMade /\ 0 \in 0 .. MaxFaults
    OBVIOUS
  <2>3. pc \in [Threads -> [at : Steps, conn : Conns \cup {Nobody}, retry : BOOLEAN, accepted : BOOLEAN]]
    BY <2>1
  <2> QED BY <2>2, <2>3 DEF TypeOK
<1>2. Places /\ InfoFollowsObject
  BY DEF Places, InfoFollowsObject, Making, Closing
<1>3. ResultsAreCounted
  <2>1. Results = {}
    BY DEF Results
  <2> QED BY <2>1, FS_EmptySet DEF ResultsAreCounted
<1>g. GarbageIsPaid
  BY DEF GarbageIsPaid
<1>4. Counted = {} /\ Coming = {} /\ Uncounted = {}
  BY DEF Counted, Coming, Uncounted
<1>5. OpensAreCounted
  BY <1>4, FS_EmptySet DEF OpensAreCounted
<1>6. Accounts
  BY <1>4, FS_EmptySet
     DEF Accounts, LoopRunsAlone, BalanceIsBounded, NextGenerationInitializes, 
         ApiCoversBalance, ApiIsNeeded, Balance, Draining, IsOpen
<1> QED BY <1>1, <1>2, <1>3, <1>g, <1>5, <1>6 DEF IInv

\* The actions, by name: the case distinction of every proof below.
LEMMA StepCases == 
    ASSUME [Next]_vars
    PROVE  \/ UNCHANGED vars
           \/ \E t \in Threads : 
                \/ \E c \in Conns, accepted \in BOOLEAN : construct(t, c, accepted)
                \/ initialize_socket_api(t) \/ count_initialization(t) \/ open_socket(t)
                \/ \E c \in Conns : set_socket_info(t, c)
                \/ \E c \in Conns : destruct(t, c)
                \/ count_down(t) \/ test_initializations(t) \/ quit_socket_api(t)
<1> QED BY DEF Next, Step

\* What a thread does to its own entry of pc, by the fields; the entries of
\* the other threads stay.
PcType == [Threads -> [at : Steps, conn : Conns \cup {Nobody}, retry : BOOLEAN, accepted : BOOLEAN]]

Others(t) == DOMAIN pc' = Threads /\ \A u \in Threads : u # t => pc'[u] = pc[u]

LEMMA FinishMoves == 
    ASSUME NEW t \in Threads, pc \in PcType, Finish(t)
    PROVE  pc' \in PcType /\ Others(t) /\ pc'[t].at = "idle"
<1>1. Idle \in [at : Steps, conn : Conns \cup {Nobody}, retry : BOOLEAN, accepted : BOOLEAN]
  BY DEF Idle, Steps
<1>2. Idle.at = "idle"
  BY DEF Idle
<1> QED BY <1>1, <1>2 DEF Finish, PcType, Others

LEMMA GotoMoves == 
    ASSUME NEW t \in Threads, pc \in PcType, NEW s \in Steps, Goto(t, s)
    PROVE  /\ pc' \in PcType /\ Others(t) 
           /\ pc'[t].at = s /\ pc'[t].conn = pc[t].conn
           /\ pc'[t].retry = pc[t].retry /\ pc'[t].accepted = pc[t].accepted
<1> QED BY DEF Goto, PcType, Others

\* The unsigned counters are below W again after each operation.
LEMMA Modulo == 
    /\ \A x \in Int : x % W \in 0 .. W - 1
    /\ \A x \in 0 .. W - 1 : x % W = x
    /\ W \in Nat /\ (-1) % W = W - 1 /\ W % W = 0
<1> QED BY BoundsAssumption

\* Every step keeps the types.  That the results in memory are counted is
\* needed for addrinfos, which is never decremented below zero.
LEMMA TypeStep == IInv /\ [Next]_vars => TypeOK'
<1> SUFFICES ASSUME IInv, [Next]_vars
             PROVE  TypeOK'
  OBVIOUS
<1> USE NobodyAssumption
<1>0. TypeOK /\ Places /\ pc \in PcType
  BY DEF IInv, TypeOK, PcType
<1>b. {MaxMade, MaxFaults} \subseteq Nat /\ W > 0 /\ W \in Nat
  BY BoundsAssumption
<1>1. CASE UNCHANGED vars
  BY <1>0, <1>1 DEF vars, counters, info_vars, TypeOK
<1>2. ASSUME NEW t \in Threads, NEW c \in Conns, NEW accepted \in BOOLEAN,
             construct(t, c, accepted)
      PROVE  TypeOK'
  <2>1. pc' \in [Threads -> [at : Steps, conn : Conns \cup {Nobody}, 
                               retry : BOOLEAN, accepted : BOOLEAN]]
    BY <1>0, <1>2 DEF construct, TypeOK, Steps
  <2>2. open_connection_count' \in 0 .. W - 1
    BY <1>0, <1>2, Modulo DEF construct, TypeOK
  <2>3. made' \in 0 .. MaxMade
    BY <1>0, <1>b, <1>2 DEF construct, TypeOK
  <2> QED BY <1>0, <1>2, <2>1, <2>2, <2>3 DEF construct, TypeOK
<1>3. ASSUME NEW t \in Threads, initialize_socket_api(t)
      PROVE  TypeOK'
  <2>1. pc' \in PcType
    BY <1>0, <1>3, FinishMoves, GotoMoves DEF initialize_socket_api, Throw, Steps
  <2> QED BY <1>0, <1>b, <1>3, <2>1 
          DEF initialize_socket_api, Throw, Becomes, counters, info_vars, TypeOK, PcType
<1>4. ASSUME NEW t \in Threads, count_initialization(t)
      PROVE  TypeOK'
  <2>1. initializations' \in 0 .. W - 1
    BY <1>0, <1>4, Modulo DEF count_initialization, TypeOK
  <2> QED BY <1>0, <1>4, <2>1 DEF count_initialization, Goto, info_vars, TypeOK, Steps
<1>5. ASSUME NEW t \in Threads, open_socket(t)
      PROVE  TypeOK'
  <2>1. pc' \in PcType
    BY <1>0, <1>5, FinishMoves DEF open_socket, Throw, PcType, Steps
  <2> QED BY <1>0, <1>b, <1>5, <2>1 
          DEF open_socket, Throw, Becomes, counters, info_vars, TypeOK, PcType
<1>6. ASSUME NEW t \in Threads, NEW c \in Conns, set_socket_info(t, c)
      PROVE  TypeOK'
  BY <1>0, <1>b, <1>6 DEF set_socket_info, keep_result, counters, TypeOK
<1>7. ASSUME NEW t \in Threads, NEW c \in Conns, destruct(t, c)
      PROVE  TypeOK'
  BY <1>0, <1>7 DEF destruct, Idle, counters, info_vars, TypeOK, Steps
\* The end of a destructor.
<1>8. ASSUME NEW t \in Threads, pc[t].at \in Closing, addrinfo_delete(pc[t].conn)
      PROVE  /\ address_info' \in [Conns -> {"none", "hints", "result", "garbage"}]
             /\ addrinfos' \in Nat /\ corrupted' \in BOOLEAN
  <2>1. address_info[pc[t].conn] = "result" => addrinfos > 0
    <3>1. ResultsAreCounted
      BY DEF IInv
    <3>2. address_info[pc[t].conn] = "result" => pc[t].conn \in Results
      BY <1>0, <1>8 DEF Results, Places
    <3>3. addrinfos \in Nat /\ (addrinfos = 0 => Results = {})
      BY <1>0, <3>1, FS_EmptySet DEF ResultsAreCounted, TypeOK
    <3> QED BY <3>2, <3>3
  <2>2. addrinfos' \in Nat 
    BY <1>0, <1>8, <2>1 DEF addrinfo_delete, TypeOK
  <2>3. corrupted' \in BOOLEAN
    BY <1>0, <1>8 DEF addrinfo_delete, TypeOK
  <2> QED BY <1>0, <1>8, <2>2, <2>3 DEF addrinfo_delete, TypeOK
<1>9. ASSUME NEW t \in Threads, count_down(t)
      PROVE  TypeOK'
  <2>1. open_connection_count' \in 0 .. W - 1
    BY <1>0, <1>9, Modulo DEF count_down, TypeOK
  <2>2. pc' \in PcType
    BY <1>0, <1>9, FinishMoves, GotoMoves DEF count_down, Steps
  <2>3. pc[t].at \in Closing
    BY <1>9 DEF count_down, Closing
  <2> QED BY <1>0, <1>8, <1>9, <2>1, <2>2, <2>3 
          DEF count_down, Becomes, info_vars, TypeOK, PcType
<1>10. ASSUME NEW t \in Threads, test_initializations(t)
       PROVE  TypeOK'
  <2>1. initializations' \in 0 .. W - 1
    BY <1>0, <1>10, Modulo DEF test_initializations, TypeOK
  <2>2. pc' \in PcType
    BY <1>0, <1>10, FinishMoves, GotoMoves DEF test_initializations, Steps
  <2>3. pc[t].at \in Closing
    BY <1>10 DEF test_initializations, Closing
  <2> QED BY <1>0, <1>8, <1>10, <2>1, <2>2, <2>3 
          DEF test_initializations, Becomes, info_vars, TypeOK, PcType
<1>11. ASSUME NEW t \in Threads, quit_socket_api(t)
       PROVE  TypeOK'
  BY <1>0, <1>11 DEF quit_socket_api, Goto, counters, info_vars, TypeOK, Steps
<1> QED BY <1>1, <1>2, <1>3, <1>4, <1>5, <1>6, <1>7, <1>9, <1>10, <1>11, StepCases

\* A constructor is entered with an object nobody works on, and no other
\* thread takes one up before the thread is done with it.
LEMMA PlacesStep == IInv /\ [Next]_vars => Places' /\ InfoFollowsObject'
<1> SUFFICES ASSUME IInv, [Next]_vars
             PROVE  Places' /\ InfoFollowsObject'
  OBVIOUS
<1> USE NobodyAssumption DEF Making, Closing
<1>0. TypeOK /\ Places /\ InfoFollowsObject /\ pc \in PcType
  BY DEF IInv, TypeOK, PcType
<1>o. /\ objects \in [Conns -> {"none", "making", "open", "closing"}]
      /\ address_info \in [Conns -> {"none", "hints", "result", "garbage"}]
  BY <1>0 DEF TypeOK
<1>1. CASE UNCHANGED vars
  BY <1>0, <1>1 DEF vars, counters, info_vars, Places, InfoFollowsObject
\* A thread that ends lets its object go, which is then open or nothing.
<1>f. ASSUME NEW t \in Threads, Finish(t), pc[t].at \in Making \cup Closing,
             NEW st \in {"none", "open"}, objects' = [objects EXCEPT ![pc[t].conn] = st]
      PROVE  Places'
  <2>1. Others(t) /\ pc'[t].at = "idle"
    BY <1>0, <1>f, FinishMoves
  <2>2. pc[t].conn \in Conns /\ pc[t].at # "idle"
    BY <1>0, <1>f DEF Places
  <2>3. ASSUME NEW u \in Threads, pc'[u].at # "idle"
        PROVE  u # t /\ pc'[u] = pc[u] /\ pc[u].conn # pc[t].conn
    BY <1>0, <2>1, <2>2, <2>3 DEF Others, Places
  <2> QED BY <1>0, <1>o, <1>f, <2>3 DEF Places
\* A thread that goes on keeps its object, and what the object is.
<1>g. ASSUME NEW t \in Threads, pc[t].at \in Making \cup Closing, UNCHANGED objects,
             Others(t), pc'[t].conn = pc[t].conn, 
             \/ pc[t].at \in Making /\ pc'[t].at \in Making
             \/ pc[t].at \in Closing /\ pc'[t].at \in Closing
      PROVE  Places'
  <2>1. \A u \in Threads : pc'[u].conn = pc[u].conn /\ (pc'[u].at # "idle" => pc[u].at # "idle")
    BY <1>g DEF Others
  <2>2. \A u \in Threads : u # t => pc'[u] = pc[u]
    BY <1>g DEF Others
  <2> QED BY <1>0, <1>g, <2>1, <2>2 DEF Places
\* A thread begins with an object that is none or open.
<1>b. ASSUME NEW t \in Threads, NEW c \in Conns, pc[t] = Idle, objects[c] \in {"none", "open"},
             Others(t), pc'[t].conn = c,
             \/ pc'[t].at \in Making /\ objects' = [objects EXCEPT ![c] = "making"]
             \/ pc'[t].at \in Closing /\ objects' = [objects EXCEPT ![c] = "closing"]
      PROVE  Places'
  <2>1. ASSUME NEW u \in Threads, u # t, pc[u].at # "idle"
        PROVE  pc[u].conn # c
    <3>1. pc[u].at \in Making \cup Closing
      BY <1>0, <2>1 DEF PcType, Steps
    <3> QED BY <1>0, <1>b, <3>1 DEF Places
  <2>2. \A u \in Threads : u # t => pc'[u] = pc[u]
    BY <1>b DEF Others
  <2> QED BY <1>0, <1>o, <1>b, <2>1, <2>2 DEF Places
<1>t. ASSUME NEW t \in Threads, Throw(t), pc[t].at \in Making
      PROVE  Places' /\ InfoFollowsObject'
  <2>1. Places'
    BY <1>t, <1>f DEF Throw, Becomes
  <2>2. pc[t].conn \in Conns
    BY <1>0, <1>t DEF Places
  <2> QED BY <1>0, <1>o, <1>t, <2>1, <2>2 DEF Throw, Becomes, InfoFollowsObject
<1>d. ASSUME NEW t \in Threads, pc[t].at \in Closing, 
             Becomes(t, "none"), Finish(t), addrinfo_delete(pc[t].conn)
      PROVE  Places' /\ InfoFollowsObject'
  <2>1. Places'
    BY <1>d, <1>f DEF Becomes
  <2>2. pc[t].conn \in Conns
    BY <1>0, <1>d DEF Places
  <2> QED BY <1>0, <1>o, <1>d, <2>1, <2>2 DEF Becomes, addrinfo_delete, InfoFollowsObject
<1>2. ASSUME NEW t \in Threads, NEW c \in Conns, NEW accepted \in BOOLEAN,
             construct(t, c, accepted)
      PROVE  Places' /\ InfoFollowsObject'
  <2>1. /\ Others(t) /\ pc'[t].conn = c
        /\ pc'[t].at \in Making
    BY <1>0, <1>2 DEF construct, Others, PcType
  <2>2. Places'
    BY <1>2, <1>b, <2>1 DEF construct
  <2> QED BY <1>0, <1>o, <1>2, <2>2 DEF construct, InfoFollowsObject
<1>3. ASSUME NEW t \in Threads, initialize_socket_api(t)
      PROVE  Places' /\ InfoFollowsObject'
  <2>0. pc[t].at = "initialize"
    BY <1>3 DEF initialize_socket_api
  <2>1. CASE Goto(t, "initialized") /\ UNCHANGED <<objects, info_vars>>
    <3>1. Others(t) /\ pc'[t].conn = pc[t].conn /\ pc'[t].at = "initialized"
      BY <1>0, <2>1, GotoMoves DEF Steps
    <3> QED BY <1>0, <1>g, <2>0, <2>1, <3>1 DEF InfoFollowsObject, info_vars
  <2> QED BY <1>3, <1>t, <2>0, <2>1 DEF initialize_socket_api
<1>4. ASSUME NEW t \in Threads, count_initialization(t)
      PROVE  Places' /\ InfoFollowsObject'
  <2>1. Others(t) /\ pc'[t].conn = pc[t].conn /\ pc'[t].at = "open_socket"
    BY <1>0, <1>4, GotoMoves DEF count_initialization, Steps
  <2> QED BY <1>0, <1>4, <1>g, <2>1 DEF count_initialization, InfoFollowsObject, info_vars
<1>5. ASSUME NEW t \in Threads, open_socket(t)
      PROVE  Places' /\ InfoFollowsObject'
  <2>0. pc[t].at = "open_socket"
    BY <1>5 DEF open_socket
  <2>1. CASE Becomes(t, "open") /\ Finish(t) /\ UNCHANGED info_vars
    <3>1. Places'
      BY <1>f, <2>0, <2>1 DEF Becomes
    <3>2. pc[t].conn \in Conns
      BY <1>0, <2>0 DEF Places
    <3> QED BY <1>0, <1>o, <2>1, <3>1, <3>2 DEF Becomes, InfoFollowsObject, info_vars
  <2>2. CASE /\ pc' = [pc EXCEPT ![t].at = "initialize", ![t].retry = TRUE]
             /\ UNCHANGED <<objects, info_vars>>
    <3>1. Others(t) /\ pc'[t].conn = pc[t].conn /\ pc'[t].at = "initialize"
      BY <1>0, <2>2 DEF Others, PcType
    <3> QED BY <1>0, <1>g, <2>0, <2>2, <3>1 DEF InfoFollowsObject, info_vars
  <2> QED BY <1>5, <1>t, <2>0, <2>1, <2>2 DEF open_socket
<1>6. ASSUME NEW t \in Threads, NEW c \in Conns, set_socket_info(t, c)
      PROVE  Places' /\ InfoFollowsObject'
  BY <1>0, <1>o, <1>6 DEF set_socket_info, keep_result, Places, InfoFollowsObject, IsOpen
<1>7. ASSUME NEW t \in Threads, NEW c \in Conns, destruct(t, c)
      PROVE  Places' /\ InfoFollowsObject'
  <2>1. Others(t) /\ pc'[t].conn = c /\ pc'[t].at = "close_socket"
    BY <1>0, <1>7 DEF destruct, Others, PcType, Idle
  <2>2. Places'
    BY <1>7, <1>b, <2>1 DEF destruct, IsOpen
  <2> QED BY <1>0, <1>o, <1>7, <2>2 DEF destruct, InfoFollowsObject, info_vars
<1>8. ASSUME NEW t \in Threads, pc[t].at \in Closing, NEW s \in {"while", "quit"},
             Goto(t, s), UNCHANGED <<objects, info_vars>>
      PROVE  Places' /\ InfoFollowsObject'
  <2>1. Others(t) /\ pc'[t].conn = pc[t].conn /\ pc'[t].at = s
    BY <1>0, <1>8, GotoMoves DEF Steps
  <2> QED BY <1>0, <1>8, <1>g, <2>1 DEF InfoFollowsObject, info_vars
<1>9. ASSUME NEW t \in Threads, count_down(t)
      PROVE  Places' /\ InfoFollowsObject'
  BY <1>8, <1>9, <1>d DEF count_down
<1>10. ASSUME NEW t \in Threads, test_initializations(t)
       PROVE  Places' /\ InfoFollowsObject'
  BY <1>8, <1>10, <1>d DEF test_initializations
<1>11. ASSUME NEW t \in Threads, quit_socket_api(t)
       PROVE  Places' /\ InfoFollowsObject'
  BY <1>8, <1>11 DEF quit_socket_api
<1> QED BY <1>1, <1>2, <1>3, <1>4, <1>5, <1>6, <1>7, <1>9, <1>10, <1>11, StepCases

\* A result is counted when it is kept and taken off when it is freed, and an
\* object whose constructor throws has none.
LEMMA ResultsStep == IInv /\ [Next]_vars => ResultsAreCounted'
<1> SUFFICES ASSUME IInv, [Next]_vars
             PROVE  ResultsAreCounted'
  OBVIOUS
<1>0. TypeOK /\ Places /\ InfoFollowsObject /\ ResultsAreCounted
  BY DEF IInv
<1>o. address_info \in [Conns -> {"none", "hints", "result", "garbage"}]
  BY <1>0 DEF TypeOK
<1>s. ASSUME Results' = Results, UNCHANGED addrinfos
      PROVE  ResultsAreCounted'
  BY <1>0, <1>s DEF ResultsAreCounted
<1>1. CASE UNCHANGED vars
  <2>1. Results' = Results
    BY <1>1 DEF vars, info_vars, Results
  <2> QED BY <1>1, <1>s, <2>1 DEF vars, info_vars
<1>i. ASSUME UNCHANGED info_vars
      PROVE  ResultsAreCounted'
  <2>1. Results' = Results
    BY <1>i DEF info_vars, Results
  <2> QED BY <1>i, <1>s, <2>1 DEF info_vars
<1>t. ASSUME NEW t \in Threads, Throw(t), pc[t].at \in Making
      PROVE  ResultsAreCounted'
  <2>1. pc[t].conn \in Conns /\ address_info[pc[t].conn] = "hints"
    BY <1>0, <1>t DEF Places, InfoFollowsObject
  <2>2. Results' = Results
    BY <1>o, <1>t, <2>1 DEF Throw, Results
  <2> QED BY <1>s, <1>t, <2>2 DEF Throw
<1>d. ASSUME NEW t \in Threads, pc[t].at \in Closing, addrinfo_delete(pc[t].conn)
      PROVE  ResultsAreCounted'
  <2>1. Results' = Results \ {pc[t].conn}
    BY <1>o, <1>d DEF addrinfo_delete, Results
  <2>2. pc[t].conn \in Results <=> address_info[pc[t].conn] = "result"
    BY <1>0, <1>d DEF Places, Results
  <2> QED BY <1>0, <1>d, <2>1, <2>2, FS_RemoveElement DEF ResultsAreCounted, addrinfo_delete
<1>2. ASSUME NEW t \in Threads, NEW c \in Conns, NEW accepted \in BOOLEAN,
             construct(t, c, accepted)
      PROVE  ResultsAreCounted'
  <2>1. Results' = Results
    BY <1>0, <1>o, <1>2 DEF construct, Results, InfoFollowsObject
  <2> QED BY <1>2, <1>s, <2>1 DEF construct
<1>3. ASSUME NEW t \in Threads, initialize_socket_api(t)
      PROVE  ResultsAreCounted'
  BY <1>3, <1>i, <1>t DEF initialize_socket_api, Making
<1>4. ASSUME NEW t \in Threads, count_initialization(t)
      PROVE  ResultsAreCounted'
  BY <1>4, <1>i DEF count_initialization
<1>5. ASSUME NEW t \in Threads, open_socket(t)
      PROVE  ResultsAreCounted'
  BY <1>5, <1>i, <1>t DEF open_socket, Making
<1>6. ASSUME NEW t \in Threads, NEW c \in Conns, set_socket_info(t, c)
      PROVE  ResultsAreCounted'
  <2>1. CASE keep_result(c) /\ addrinfos' = addrinfos + 1
    <3>1. Results' = Results \cup {c} /\ c \notin Results
      BY <1>o, <1>6, <2>1 DEF set_socket_info, keep_result, Results
    <3> QED BY <1>0, <2>1, <3>1, FS_AddElement DEF ResultsAreCounted
  <2>2. CASE address_info' = [address_info EXCEPT ![c] = "garbage"] /\ UNCHANGED addrinfos
    <3>1. Results' = Results
      BY <1>o, <1>6, <2>2 DEF set_socket_info, Results
    <3> QED BY <1>s, <2>2, <3>1
  <2> QED BY <1>6, <2>1, <2>2 DEF set_socket_info
<1>7. ASSUME NEW t \in Threads, NEW c \in Conns, destruct(t, c)
      PROVE  ResultsAreCounted'
  BY <1>7, <1>i DEF destruct
<1>9. ASSUME NEW t \in Threads, count_down(t)
      PROVE  ResultsAreCounted'
  BY <1>9, <1>i, <1>d DEF count_down, Closing
<1>10. ASSUME NEW t \in Threads, test_initializations(t)
       PROVE  ResultsAreCounted'
  BY <1>10, <1>i, <1>d DEF test_initializations, Closing
<1>11. ASSUME NEW t \in Threads, quit_socket_api(t)
       PROVE  ResultsAreCounted'
  BY <1>11, <1>i DEF quit_socket_api
<1> QED BY <1>1, <1>2, <1>3, <1>4, <1>5, <1>6, <1>7, <1>9, <1>10, <1>11, StepCases

\* Only a failed call makes a pointer without value, and only such a pointer
\* corrupts anything when it is freed.
LEMMA GarbageStep == IInv /\ [Next]_vars => GarbageIsPaid'
<1> SUFFICES ASSUME IInv, [Next]_vars
             PROVE  GarbageIsPaid'
  OBVIOUS
<1>0. /\ TypeOK /\ Places /\ GarbageIsPaid
      /\ address_info \in [Conns -> {"none", "hints", "result", "garbage"}]
      /\ faults \in Nat
  BY BoundsAssumption DEF IInv, TypeOK
<1>i. ASSUME UNCHANGED <<info_vars, faults>>
      PROVE  GarbageIsPaid'
  BY <1>0, <1>i DEF info_vars, GarbageIsPaid
<1>f. ASSUME faults' = faults + 1
      PROVE  GarbageIsPaid'
  BY <1>0, <1>f DEF GarbageIsPaid
<1>s. ASSUME NEW c \in Conns, NEW how \in {"none", "hints", "result"},
             address_info' = [address_info EXCEPT ![c] = how], 
             corrupted' => corrupted \/ address_info[c] = "garbage", UNCHANGED faults
      PROVE  GarbageIsPaid'
  <2>1. \A d \in Conns : address_info'[d] = "garbage" => address_info[d] = "garbage"
    BY <1>0, <1>s
  <2> QED BY <1>0, <1>s, <2>1 DEF GarbageIsPaid
<1>d. ASSUME NEW t \in Threads, pc[t].at \in Closing, addrinfo_delete(pc[t].conn), UNCHANGED faults
      PROVE  GarbageIsPaid'
  <2>1. pc[t].conn \in Conns
    BY <1>0, <1>d DEF Places
  <2>2. corrupted' => corrupted \/ address_info[pc[t].conn] = "garbage"
    BY <1>d DEF addrinfo_delete
  <2> QED BY <1>d, <1>s, <2>1, <2>2 DEF addrinfo_delete
<1>1. CASE UNCHANGED vars
  BY <1>1, <1>i DEF vars
<1>2. ASSUME NEW t \in Threads, NEW c \in Conns, NEW accepted \in BOOLEAN,
             construct(t, c, accepted)
      PROVE  GarbageIsPaid'
  BY <1>2, <1>s DEF construct
<1>3. ASSUME NEW t \in Threads, 
             initialize_socket_api(t) \/ count_initialization(t) \/ open_socket(t)
      PROVE  GarbageIsPaid'
  BY <1>3, <1>i, <1>f DEF initialize_socket_api, count_initialization, open_socket, Throw
<1>4. ASSUME NEW t \in Threads, NEW c \in Conns, set_socket_info(t, c)
      PROVE  GarbageIsPaid'
  BY <1>4, <1>s, <1>f DEF set_socket_info, keep_result
<1>5. ASSUME NEW t \in Threads, NEW c \in Conns, destruct(t, c)
      PROVE  GarbageIsPaid'
  BY <1>5, <1>i DEF destruct
<1>6. ASSUME NEW t \in Threads, count_down(t) \/ test_initializations(t)
      PROVE  GarbageIsPaid'
  BY <1>6, <1>i, <1>d DEF count_down, test_initializations, Closing, info_vars
<1>7. ASSUME NEW t \in Threads, quit_socket_api(t)
      PROVE  GarbageIsPaid'
  BY <1>7, <1>i DEF quit_socket_api
<1> QED BY <1>1, <1>2, <1>3, <1>4, <1>5, <1>6, <1>7, StepCases

-----------------------------------------------------------------------------
(* The counters, action by action.                                          *)

Numbers == OpensAreCounted /\ (overlapped \/ Accounts)

\* The numbers the counters stand for.
LEMMA NumberFacts == 
    ASSUME IInv
    PROVE  /\ open_connection_count \in Nat /\ initializations \in Nat /\ api \in Nat
           /\ made \in Nat /\ made <= MaxMade /\ MaxMade \in Nat
           /\ W \in Nat /\ W > 2 * MaxMade /\ initializations <= W - 1
           /\ Cardinality(Counted) \in Nat
           /\ Balance \in Int
           /\ Accounts => /\ Cardinality(Coming) \in Nat /\ Cardinality(Uncounted) \in Nat
                          /\ Balance >= -1
           /\ pc \in PcType /\ objects \in [Conns -> {"none", "making", "open", "closing"}]
           /\ overlapped \in BOOLEAN
<1>0. TypeOK /\ OpensAreCounted
  BY DEF IInv
<1>1. /\ open_connection_count \in Nat /\ initializations \in Nat /\ api \in Nat
      /\ made \in Nat /\ made <= MaxMade /\ MaxMade \in Nat
      /\ W \in Nat /\ W > 2 * MaxMade /\ initializations <= W - 1
  BY <1>0, BoundsAssumption DEF TypeOK
<1>2. Cardinality(Counted) \in Nat
  BY <1>0, FS_CardinalityType DEF OpensAreCounted
<1>3. Balance \in Int
  BY <1>1 DEF Balance
<1>4. ASSUME Accounts
      PROVE  /\ Cardinality(Coming) \in Nat /\ Cardinality(Uncounted) \in Nat
             /\ Balance >= -1
  <2>1. IsFiniteSet(Coming) /\ IsFiniteSet(Uncounted)
    BY <1>4 DEF Accounts, BalanceIsBounded, ApiCoversBalance
  <2>2. Balance >= -1
    BY <1>1, <1>4 DEF Accounts, BalanceIsBounded, Balance
  <2> QED BY <2>1, <2>2, FS_CardinalityType
<1>5. pc \in PcType /\ objects \in [Conns -> {"none", "making", "open", "closing"}]
      /\ overlapped \in BOOLEAN
  BY <1>0 DEF TypeOK, PcType
<1> QED BY <1>1, <1>2, <1>3, <1>4, <1>5

\* The constructor counts up.  With the count at zero it goes to initialize
\* the API; a loop that runs meanwhile is the exception.
LEMMA ConstructNumbers == 
    ASSUME IInv, NEW t \in Threads, NEW c \in Conns, NEW accepted \in BOOLEAN,
           construct(t, c, accepted)
    PROVE  Numbers'
<1>0. Places /\ OpensAreCounted /\ (overlapped \/ Accounts)
  BY DEF IInv
<1>n. /\ open_connection_count \in Nat /\ initializations \in Nat /\ api \in Nat
      /\ made \in Nat /\ MaxMade \in Nat
      /\ W \in Nat /\ W > 2 * MaxMade /\ initializations <= W - 1
      /\ Cardinality(Counted) \in Nat
      /\ Accounts => Cardinality(Coming) \in Nat /\ Cardinality(Uncounted) \in Nat
  BY NumberFacts
<1>t. pc \in PcType /\ objects \in [Conns -> {"none", "making", "open", "closing"}]
  BY NumberFacts
<1>1. /\ pc[t] = Idle /\ pc[t].at = "idle" /\ objects[c] = "none" 
      /\ made < MaxMade /\ made' = made + 1
      /\ objects' = [objects EXCEPT ![c] = "making"]
      /\ UNCHANGED <<initializations, api>>
      /\ overlapped' = (overlapped \/ \E u \in Threads : Draining(u))
  BY DEF construct, Idle
<1>2. /\ Others(t) /\ pc'[t].at \in {"initialize", "open_socket"}
      /\ open_connection_count = 0 => pc'[t].at = "initialize"
      /\ pc'[t].accepted => api > 0
  BY <1>t DEF construct, Others, PcType
<1>3. Counted' = Counted \cup {c} /\ c \notin Counted
  <2>1. c \notin Counted
    BY <1>0, <1>1 DEF Counted, Places, Closing
  <2>2. \A u \in Threads : pc'[u].at = "close_socket" <=> (pc[u].at = "close_socket" /\ u # t)
    BY <1>2 DEF Others
  <2>3. \A u \in Threads : pc[u].at = "close_socket" => u # t /\ pc'[u] = pc[u]
    BY <1>1, <1>2 DEF Others
  <2> QED BY <1>t, <1>1, <2>1, <2>2, <2>3 DEF Counted
<1>4. IsFiniteSet(Counted') /\ Cardinality(Counted') = Cardinality(Counted) + 1
  BY <1>0, <1>3, FS_AddElement DEF OpensAreCounted
<1>5. open_connection_count' = open_connection_count + 1
  <2>1. open_connection_count + 1 \in 0 .. W - 1
    BY <1>0, <1>n, <1>1 DEF OpensAreCounted
  <2> QED BY <2>1, Modulo DEF construct
<1>6. OpensAreCounted'
  BY <1>0, <1>n, <1>1, <1>4, <1>5 DEF OpensAreCounted
<1>7. ASSUME ~ overlapped'
      PROVE  Accounts'
  <2>0. Accounts /\ \A u \in Threads : ~ Draining(u)
    BY <1>0, <1>1, <1>7
  <2>1. \A u \in Threads : ~ Draining(u)'
    BY <1>2, <2>0 DEF Draining, Others
  <2>2. Balance' = Balance
    BY <1>n, <1>1, <2>0 DEF Balance, Accounts, BalanceIsBounded
  <2>3. LoopRunsAlone'
    BY <2>1 DEF LoopRunsAlone
  <2>4. BalanceIsBounded'
    <3>1. Coming' \subseteq Coming \cup {t}
      BY <1>1, <1>2 DEF Coming, Others
    <3>2. /\ IsFiniteSet(Coming \cup {t})
          /\ Cardinality(Coming \cup {t}) <= Cardinality(Coming) + 1
          /\ Cardinality(Coming \cup {t}) \in Nat
      BY <1>n, <2>0, FS_AddElement DEF Accounts, BalanceIsBounded
    <3>3. IsFiniteSet(Coming') /\ Cardinality(Coming') <= Cardinality(Coming) + 1
          /\ Cardinality(Coming') \in Nat
      BY <1>n, <2>0, <3>1, <3>2, FS_Subset, FS_CardinalityType
    <3>4. Balance + Cardinality(Coming) <= made /\ Balance \in Int
      BY <2>0, NumberFacts DEF Accounts, BalanceIsBounded
    <3>5. Balance' + Cardinality(Coming') <= made'
      BY <1>n, <1>1, <2>0, <2>2, <3>3, <3>4
    <3>6. initializations' > made' => initializations' = W - 1 /\ made' > 0
      BY <1>n, <1>1, <2>0 DEF Accounts, BalanceIsBounded
    <3> QED BY <3>3, <3>5, <3>6 DEF BalanceIsBounded
  <2>5. NextGenerationInitializes'
    <3>1. CASE open_connection_count = 0
      BY <1>2, <3>1 DEF NextGenerationInitializes
    <3>2. CASE open_connection_count > 0
      <4>1. ASSUME Balance < 0, NEW u \in Threads, pc[u].at \in {"initialize", "initialized"}
            PROVE  pc'[u].at \in {"initialize", "initialized"}
        BY <1>1, <1>2, <4>1 DEF Others
      <4> QED BY <1>n, <1>4, <1>5, <2>0, <2>2, <3>2, <4>1 DEF NextGenerationInitializes, Accounts
    <3> QED BY <1>n, <3>1, <3>2
  <2>6. ApiCoversBalance'
    <3>1. Uncounted' = Uncounted
      BY <1>1, <1>2 DEF Uncounted, Others
    <3> QED BY <1>1, <2>0, <2>1, <2>2, <3>1 DEF ApiCoversBalance, Accounts, Draining
  <2>7. ApiIsNeeded'
    BY <1>t, <1>1, <1>2, <2>0 DEF ApiIsNeeded, Accounts, IsOpen, Others
  <2> QED BY <2>3, <2>4, <2>5, <2>6, <2>7 DEF Accounts
<1>8. overlapped' \in BOOLEAN
  BY <1>1, NumberFacts DEF Draining
<1> QED BY <1>6, <1>7, <1>8 DEF Numbers

\* Between counting up and counting down a thread moves as it likes.
LEMMA CountedStays == 
    ASSUME NEW t \in Threads, Others(t), UNCHANGED objects, pc'[t].conn = pc[t].conn,
           pc'[t].at = "close_socket" <=> pc[t].at = "close_socket"
    PROVE  Counted' = Counted
<1>1. \A u \in Threads : /\ pc'[u].conn = pc[u].conn
                         /\ pc'[u].at = "close_socket" <=> pc[u].at = "close_socket"
  BY DEF Others
<1> QED BY <1>1 DEF Counted

\* A set of threads that one thread left or that did not grow.
LEMMA Smaller == 
    ASSUME NEW S, IsFiniteSet(S), NEW T, T \subseteq S
    PROVE  IsFiniteSet(T) /\ Cardinality(T) \in Nat /\ Cardinality(T) <= Cardinality(S)
<1> QED BY FS_Subset, FS_CardinalityType

\* At a count of zero no object is open, being made or about to count down.
LEMMA NothingCounted == 
    ASSUME IInv, open_connection_count = 0
    PROVE  /\ Counted = {}
           /\ \A c \in Conns : ~ IsOpen(c)
           /\ \A t \in Threads : pc[t].at \notin Making \cup {"close_socket"}
<1>0. Places /\ OpensAreCounted
  BY DEF IInv
<1>1. Counted = {}
  <2>1. Cardinality(Counted) = 0
    BY <1>0, NumberFacts DEF OpensAreCounted
  <2> QED BY <1>0, <2>1, FS_EmptySet DEF OpensAreCounted
<1> QED BY <1>0, <1>1 DEF Counted, IsOpen, Places, Making, Closing

\* Without the objects and the counts of objects changing, that part holds.
LEMMA OpensStay == 
    ASSUME IInv, Counted' = Counted, UNCHANGED <<open_connection_count, made>>,
           \A c \in Conns : objects'[c] # "none" => objects[c] # "none"
    PROVE  OpensAreCounted'
<1> QED BY DEF IInv, OpensAreCounted

\* A constructor that throws has counted up for ever: the loop of a destructor
\* is not reached any more.
LEMMA ThrowNumbers == 
    ASSUME IInv, NEW t \in Threads, pc[t].at \in {"initialize", "open_socket"}, Throw(t),
           UNCHANGED <<counters, api, overlapped, made>>
    PROVE  Numbers'
<1>0. Places /\ OpensAreCounted /\ (overlapped \/ Accounts)
  BY DEF IInv
<1>n. /\ open_connection_count \in Nat /\ Cardinality(Counted) \in Nat
      /\ made \in Nat /\ Balance \in Int
      /\ Accounts => Cardinality(Coming) \in Nat /\ Cardinality(Uncounted) \in Nat
      /\ overlapped \in BOOLEAN
  BY NumberFacts
<1>t. pc \in PcType /\ objects \in [Conns -> {"none", "making", "open", "closing"}]
  BY NumberFacts
<1>1. /\ Others(t) /\ pc'[t].at = "idle" 
      /\ objects' = [objects EXCEPT ![pc[t].conn] = "none"]
  BY <1>t, FinishMoves DEF Throw, Becomes
<1>2. pc[t].conn \in Counted
  BY <1>0 DEF Places, Making, Counted
<1>3. Counted' = Counted \ {pc[t].conn}
  <2>1. \A u \in Threads : pc'[u].at = "close_socket" <=> pc[u].at = "close_socket"
    BY <1>1 DEF Others
  <2>2. \A u \in Threads : pc[u].at = "close_socket" => pc'[u] = pc[u] /\ pc[u].conn # pc[t].conn
    BY <1>0, <1>1 DEF Others, Places
  <2> QED BY <1>t, <1>1, <2>1, <2>2 DEF Counted
<1>4. IsFiniteSet(Counted') /\ Cardinality(Counted') = Cardinality(Counted) - 1
  BY <1>0, <1>2, <1>3, FS_RemoveElement DEF OpensAreCounted
<1>5. OpensAreCounted' /\ (open_connection_count > Cardinality(Counted))'
  BY <1>0, <1>n, <1>t, <1>1, <1>4 DEF OpensAreCounted, counters
<1>6. ASSUME ~ overlapped'
      PROVE  Accounts'
  <2>0. Accounts
    BY <1>0, <1>6
  <2>1. \A u \in Threads : Draining(u)' => Draining(u) /\ pc'[u] = pc[u]
    BY <1>1 DEF Draining, Others
  <2>2. Balance' = Balance
    BY DEF Balance, counters
  <2>3. LoopRunsAlone'
    BY <2>0, <2>1, <2>2 DEF LoopRunsAlone, Accounts, counters
  <2>4. BalanceIsBounded'
    <3>1. Coming' \subseteq Coming
      BY <1>1 DEF Coming, Others
    <3>2. IsFiniteSet(Coming') /\ Cardinality(Coming') <= Cardinality(Coming) /\ Cardinality(Coming') \in Nat
      BY <2>0, <3>1, Smaller DEF Accounts, BalanceIsBounded
    <3> QED BY <1>n, <2>0, <2>2, <3>2 DEF BalanceIsBounded, Accounts, counters
  <2>5. NextGenerationInitializes'
    BY <1>5 DEF NextGenerationInitializes
  <2>6. ApiCoversBalance'
    <3>1. Uncounted' = Uncounted
      BY <1>1 DEF Uncounted, Others
    <3> QED BY <2>0, <2>1, <2>2, <3>1 DEF ApiCoversBalance, Accounts, Draining
  <2>7. ApiIsNeeded'
    BY <1>t, <1>1, <2>0 DEF ApiIsNeeded, Accounts, IsOpen, Others
  <2> QED BY <2>3, <2>4, <2>5, <2>6, <2>7 DEF Accounts
<1> QED BY <1>n, <1>5, <1>6 DEF Numbers

\* The call of the API comes before the counter: until then it is one of the
\* uncounted.
LEMMA InitializeNumbers == 
    ASSUME IInv, NEW t \in Threads, initialize_socket_api(t)
    PROVE  Numbers'
<1>0. Places /\ OpensAreCounted /\ (overlapped \/ Accounts)
  BY DEF IInv
<1>n. /\ made \in Nat /\ Balance \in Int /\ api \in Nat
      /\ Accounts => Cardinality(Coming) \in Nat /\ Cardinality(Uncounted) \in Nat
      /\ overlapped \in BOOLEAN
  BY NumberFacts
<1>t. pc \in PcType
  BY NumberFacts
<1>1. CASE Throw(t) /\ UNCHANGED api
  BY <1>1, ThrowNumbers DEF initialize_socket_api
<1>2. CASE api' = api + 1 /\ Goto(t, "initialized") /\ UNCHANGED <<objects, info_vars, faults>>
  <2>1. /\ Others(t) /\ pc[t].at = "initialize" /\ pc'[t].at = "initialized" 
        /\ pc'[t].conn = pc[t].conn
        /\ UNCHANGED <<objects, open_connection_count, initializations, overlapped, made>>
    BY <1>t, <1>2, GotoMoves DEF initialize_socket_api, Steps, counters
  <2>2. Counted' = Counted
    BY <2>1, CountedStays
  <2>3. OpensAreCounted'
    BY <2>1, <2>2, OpensStay
  <2>4. ASSUME ~ overlapped'
        PROVE  Accounts'
    <3>0. Accounts
      BY <1>0, <2>1, <2>4
    <3>1. \A u \in Threads : Draining(u)' => Draining(u) /\ pc'[u] = pc[u]
      BY <2>1 DEF Draining, Others
    <3>2. Balance' = Balance
      BY <2>1 DEF Balance
    <3>3. LoopRunsAlone'
      BY <2>1, <3>0, <3>1, <3>2 DEF LoopRunsAlone, Accounts
    <3>4. BalanceIsBounded'
      <4>1. Coming' \subseteq Coming
        BY <1>n, <1>2, <2>1 DEF Coming, Others
      <4>2. IsFiniteSet(Coming') /\ Cardinality(Coming') <= Cardinality(Coming) /\ Cardinality(Coming') \in Nat
        BY <3>0, <4>1, Smaller DEF Accounts, BalanceIsBounded
      <4> QED BY <1>n, <2>1, <3>0, <3>2, <4>2 DEF BalanceIsBounded, Accounts
    <3>5. NextGenerationInitializes'
      BY <2>1 DEF NextGenerationInitializes
    <3>6. ApiCoversBalance'
      <4>1. Uncounted' = Uncounted \cup {t} /\ t \notin Uncounted
        BY <2>1 DEF Uncounted, Others
      <4>2. IsFiniteSet(Uncounted') /\ Cardinality(Uncounted') = Cardinality(Uncounted) + 1
        BY <3>0, <4>1, FS_AddElement DEF Accounts, ApiCoversBalance
      <4>3. \A u \in Threads : pc'[u].at = "quit" => pc[u].at = "quit"
        BY <2>1 DEF Others
      <4> QED BY <1>n, <1>2, <3>0, <3>2, <4>2, <4>3 DEF ApiCoversBalance, Accounts
    <3>7. ApiIsNeeded'
      BY <1>n, <1>2 DEF ApiIsNeeded
    <3> QED BY <3>3, <3>4, <3>5, <3>6, <3>7 DEF Accounts
  <2> QED BY <1>n, <2>1, <2>3, <2>4 DEF Numbers
<1> QED BY <1>1, <1>2 DEF initialize_socket_api

\* The initialization is counted.
LEMMA CountInitializationNumbers == 
    ASSUME IInv, NEW t \in Threads, count_initialization(t)
    PROVE  Numbers'
<1>0. Places /\ OpensAreCounted /\ (overlapped \/ Accounts)
  BY DEF IInv
<1>n. /\ made \in Nat /\ Balance \in Int /\ api \in Nat
      /\ initializations \in Nat /\ W \in Nat /\ initializations <= W - 1
      /\ made <= MaxMade /\ MaxMade \in Nat /\ W > 2 * MaxMade
      /\ Accounts => Cardinality(Coming) \in Nat /\ Cardinality(Uncounted) \in Nat
      /\ overlapped \in BOOLEAN
  BY NumberFacts
<1>t. pc \in PcType
  BY NumberFacts
<1>1. /\ Others(t) /\ pc[t].at = "initialized" /\ pc'[t].at = "open_socket" 
      /\ pc'[t].conn = pc[t].conn
      /\ UNCHANGED <<objects, open_connection_count, api, overlapped, made>>
      /\ initializations' = (initializations + 1) % W
  BY <1>t, GotoMoves DEF count_initialization, Steps
<1>2. Counted' = Counted
  BY <1>1, CountedStays
<1>3. OpensAreCounted'
  BY <1>1, <1>2, OpensStay
<1>4. ASSUME ~ overlapped'
      PROVE  Accounts'
  <2>0. Accounts /\ api > 0
    <3>1. Accounts
      BY <1>0, <1>1, <1>4
    <3> QED BY <1>1, <3>1 DEF Accounts, ApiIsNeeded
  <2>1. /\ Coming' = Coming \ {t} /\ t \in Coming
        /\ Uncounted' = Uncounted \ {t} /\ t \in Uncounted
    BY <1>n, <1>1, <2>0 DEF Coming, Uncounted, Others
  <2>2. /\ IsFiniteSet(Coming') /\ Cardinality(Coming') = Cardinality(Coming) - 1
        /\ IsFiniteSet(Uncounted') /\ Cardinality(Uncounted') = Cardinality(Uncounted) - 1
        /\ Cardinality(Coming') \in Nat
    BY <2>0, <2>1, FS_RemoveElement, FS_CardinalityType DEF Accounts, BalanceIsBounded, ApiCoversBalance
  <2>3. Balance + Cardinality(Coming') < made
    BY <1>n, <2>0, <2>2 DEF Accounts, BalanceIsBounded
  <2>4. Balance' = Balance + 1 /\ (initializations' > made' => initializations' = W - 1 /\ made' > 0)
    <3>1. CASE initializations > made
      <4>1. initializations + 1 = W /\ Balance = -1
        BY <1>n, <2>0, <3>1 DEF Accounts, BalanceIsBounded, Balance
      <4>2. initializations' = 0
        BY <1>1, <4>1, Modulo
      <4> QED BY <1>n, <1>1, <4>1, <4>2 DEF Balance
    <3>2. CASE ~ (initializations > made)
      <4>1. Balance = initializations /\ initializations + 1 <= made
        BY <1>n, <2>2, <2>3, <3>2 DEF Balance
      <4>2. initializations + 1 \in 0 .. W - 1
        BY <1>n, <4>1
      <4>3. initializations' = initializations + 1
        BY <1>1, <4>2, Modulo
      <4> QED BY <1>n, <1>1, <4>1, <4>3 DEF Balance
    <3> QED BY <3>1, <3>2
  <2>5. \A u \in Threads : Draining(u)' => Draining(u) /\ pc'[u] = pc[u]
    BY <1>1 DEF Draining, Others
  <2>6. LoopRunsAlone'
    BY <1>n, <1>1, <2>0, <2>4, <2>5 DEF LoopRunsAlone, Accounts
  <2>7. BalanceIsBounded'
    BY <1>n, <1>1, <2>2, <2>3, <2>4 DEF BalanceIsBounded
  <2>8. NextGenerationInitializes'
    BY <1>n, <2>0, <2>4, NumberFacts DEF NextGenerationInitializes
  <2>9. ApiCoversBalance'
    <3>1. \A u \in Threads : pc'[u].at # "quit"
      BY <1>1, <2>0, NothingCounted DEF Accounts, LoopRunsAlone, Draining, Others, Making
    <3> QED BY <1>n, <1>1, <2>0, <2>2, <2>4, <3>1 DEF ApiCoversBalance, Accounts
  <2>10. ApiIsNeeded'
    BY <1>1, <2>0 DEF ApiIsNeeded
  <2> QED BY <2>6, <2>7, <2>8, <2>9, <2>10 DEF Accounts
<1> QED BY <1>n, <1>1, <1>3, <1>4 DEF Numbers

\* A step that leaves the counters, the API and the history alone and takes
\* a thread neither into a loop nor into an initialization.
LEMMA QuietNumbers == 
    ASSUME IInv, OpensAreCounted', Counted' = Counted,
           UNCHANGED <<counters, api, overlapped, made>>,
           \A u \in Threads : Draining(u)' => Draining(u) /\ pc'[u] = pc[u],
           Coming' \subseteq Coming, Uncounted' = Uncounted,
           \A u \in Threads : pc[u].at \in {"initialize", "initialized"} => pc'[u] = pc[u],
           overlapped \/ ApiIsNeeded'
    PROVE  Numbers'
<1>0. overlapped \/ Accounts
  BY DEF IInv
<1>n. made \in Nat /\ Balance \in Int /\ (Accounts => Cardinality(Coming) \in Nat) /\ overlapped \in BOOLEAN
  BY NumberFacts
<1>1. ASSUME ~ overlapped'
      PROVE  Accounts'
  <2>0. Accounts
    BY <1>0, <1>1
  <2>1. Balance' = Balance
    BY DEF Balance, counters
  <2>2. LoopRunsAlone'
    BY <2>0, <2>1 DEF LoopRunsAlone, Accounts, counters
  <2>3. BalanceIsBounded'
    <3>1. IsFiniteSet(Coming') /\ Cardinality(Coming') <= Cardinality(Coming) /\ Cardinality(Coming') \in Nat
      BY <2>0, Smaller DEF Accounts, BalanceIsBounded
    <3> QED BY <1>n, <2>0, <2>1, <3>1 DEF BalanceIsBounded, Accounts, counters
  <2>4. NextGenerationInitializes'
    BY <2>0, <2>1 DEF NextGenerationInitializes, Accounts, counters
  <2>5. ApiCoversBalance'
    BY <2>0, <2>1 DEF ApiCoversBalance, Accounts, Draining
  <2> QED BY <1>1, <2>2, <2>3, <2>4, <2>5 DEF Accounts
<1> QED BY <1>n, <1>1 DEF Numbers

\* The socket opens, or the API is found missing, for the first time or for
\* the second.
LEMMA OpenSocketNumbers == 
    ASSUME IInv, NEW t \in Threads, open_socket(t)
    PROVE  Numbers'
<1>0. Places /\ OpensAreCounted /\ (overlapped \/ Accounts)
  BY DEF IInv
<1>n. /\ open_connection_count \in Nat /\ Cardinality(Counted) \in Nat
      /\ made \in Nat /\ Balance \in Int /\ api \in Nat
      /\ Accounts => Cardinality(Coming) \in Nat /\ Cardinality(Uncounted) \in Nat
      /\ overlapped \in BOOLEAN
  BY NumberFacts
<1>t. pc \in PcType /\ objects \in [Conns -> {"none", "making", "open", "closing"}]
  BY NumberFacts
<1>1. pc[t].at = "open_socket" /\ UNCHANGED <<counters, api, overlapped, made>>
  BY DEF open_socket
<1>p. pc[t].conn \in Conns /\ objects[pc[t].conn] = "making"
  BY <1>0, <1>1 DEF Places, Making
<1>3. CASE /\ api > 0 \/ pc[t].accepted
           /\ Becomes(t, "open") /\ Finish(t)
  <2>1. Others(t) /\ pc'[t].at = "idle" /\ objects' = [objects EXCEPT ![pc[t].conn] = "open"]
    BY <1>t, <1>3, FinishMoves DEF Becomes
  <2>2. Counted' = Counted
    <3>1. \A u \in Threads : pc'[u].at = "close_socket" <=> pc[u].at = "close_socket"
      BY <1>1, <2>1 DEF Others
    <3>2. \A u \in Threads : pc[u].at = "close_socket" => pc'[u] = pc[u]
      BY <1>1, <2>1 DEF Others
    <3> QED BY <1>t, <1>p, <2>1, <3>1, <3>2 DEF Counted
  <2>3. OpensAreCounted'
    BY <1>t, <1>p, <1>1, <2>1, <2>2, OpensStay DEF counters
  <2>4. overlapped \/ ApiIsNeeded'
    <3>1. overlapped \/ api > 0
      BY <1>0, <1>1, <1>3 DEF Accounts, ApiIsNeeded
    <3> QED BY <1>1, <3>1 DEF ApiIsNeeded
  <2>5. /\ \A u \in Threads : Draining(u)' => Draining(u) /\ pc'[u] = pc[u]
        /\ Coming' \subseteq Coming /\ Uncounted' = Uncounted
        /\ \A u \in Threads : pc[u].at \in {"initialize", "initialized"} => pc'[u] = pc[u]
    BY <1>1, <2>1 DEF Draining, Coming, Uncounted, Others
  <2> QED BY <1>1, <2>2, <2>3, <2>4, <2>5, QuietNumbers
<1>4. CASE /\ api = 0 /\ ~ pc[t].retry
           /\ pc' = [pc EXCEPT ![t].at = "initialize", ![t].retry = TRUE]
           /\ UNCHANGED objects
  <2>1. Others(t) /\ pc'[t].at = "initialize" /\ pc'[t].conn = pc[t].conn
    BY <1>t, <1>4 DEF Others, PcType
  <2>2. Counted' = Counted
    BY <1>1, <1>4, <2>1, CountedStays
  <2>3. OpensAreCounted'
    BY <1>1, <1>4, <2>2, OpensStay DEF counters
  <2>4. /\ \A u \in Threads : Draining(u)' => Draining(u) /\ pc'[u] = pc[u]
        /\ Coming' \subseteq Coming /\ Uncounted' = Uncounted
        /\ \A u \in Threads : pc[u].at \in {"initialize", "initialized"} => pc'[u] = pc[u]
    BY <1>1, <1>4, <2>1 DEF Draining, Coming, Uncounted, Others
  <2>5. overlapped \/ ApiIsNeeded'
    BY <1>0, <1>1, <1>4, <2>1 DEF Accounts, ApiIsNeeded, IsOpen, Others
  <2> QED BY <1>1, <2>2, <2>3, <2>4, <2>5, QuietNumbers
<1>5. CASE Throw(t)
  BY <1>1, <1>5, ThrowNumbers
<1> QED BY <1>3, <1>4, <1>5 DEF open_socket

\* The lookup of an address touches no counter.
LEMMA SetSocketInfoNumbers == 
    ASSUME IInv, NEW t \in Threads, NEW c \in Conns, set_socket_info(t, c)
    PROVE  Numbers'
<1>1. UNCHANGED <<counters, api, objects, pc, overlapped, made>>
  BY DEF set_socket_info
<1>2. Counted' = Counted /\ Coming' = Coming /\ Uncounted' = Uncounted
  BY <1>1 DEF Counted, Coming, Uncounted
<1>3. OpensAreCounted'
  BY <1>1, <1>2, OpensStay DEF counters
<1>4. overlapped \/ ApiIsNeeded'
  BY <1>1 DEF IInv, Accounts, ApiIsNeeded, IsOpen
<1> QED BY <1>1, <1>2, <1>3, <1>4, QuietNumbers DEF Draining

\* An object that is being destructed is counted until count_down.
LEMMA DestructNumbers == 
    ASSUME IInv, NEW t \in Threads, NEW c \in Conns, destruct(t, c)
    PROVE  Numbers'
<1>0. Places /\ OpensAreCounted /\ (overlapped \/ Accounts)
  BY DEF IInv
<1>t. pc \in PcType /\ objects \in [Conns -> {"none", "making", "open", "closing"}]
  BY NumberFacts
<1>1. /\ pc[t] = Idle /\ pc[t].at = "idle" /\ objects[c] = "open"
      /\ objects' = [objects EXCEPT ![c] = "closing"]
      /\ UNCHANGED <<counters, api, overlapped, made>>
  BY DEF destruct, Idle, IsOpen
<1>2. Others(t) /\ pc'[t].at = "close_socket" /\ pc'[t].conn = c
  BY <1>t DEF destruct, Others, PcType, Idle
<1>3. Counted' = Counted
  <2>1. \A u \in Threads : pc[u].at = "close_socket" => pc'[u] = pc[u]
    BY <1>1, <1>2 DEF Others
  <2>2. \A u \in Threads : pc'[u].at = "close_socket" => u = t \/ pc'[u] = pc[u]
    BY <1>2 DEF Others
  <2>3. c \in Counted /\ c \in Counted'
    BY <1>1, <1>2 DEF Counted
  <2>4. ASSUME NEW d \in Conns, d # c
        PROVE  d \in Counted <=> d \in Counted'
    BY <1>t, <1>1, <1>2, <2>1, <2>2, <2>4 DEF Counted
  <2> QED BY <2>3, <2>4 DEF Counted
<1>4. OpensAreCounted'
  BY <1>t, <1>1, <1>3, OpensStay DEF counters
<1>5. /\ \A u \in Threads : Draining(u)' => Draining(u) /\ pc'[u] = pc[u]
      /\ Coming' \subseteq Coming /\ Uncounted' = Uncounted
      /\ \A u \in Threads : pc[u].at \in {"initialize", "initialized"} => pc'[u] = pc[u]
  BY <1>1, <1>2 DEF Draining, Coming, Uncounted, Others
<1>6. overlapped \/ ApiIsNeeded'
  BY <1>0, <1>t, <1>1, <1>2 DEF Accounts, ApiIsNeeded, IsOpen, Others
<1> QED BY <1>1, <1>3, <1>4, <1>5, <1>6, QuietNumbers

\* The destructor counts down.  The one that reaches zero enters the loop
\* alone, and finds a balance that is not negative: the constructors of this
\* generation have all counted their initializations.
LEMMA CountDownNumbers == 
    ASSUME IInv, NEW t \in Threads, count_down(t)
    PROVE  Numbers'
<1>0. Places /\ OpensAreCounted /\ (overlapped \/ Accounts)
  BY DEF IInv
<1>n. /\ open_connection_count \in Nat /\ Cardinality(Counted) \in Nat
      /\ made \in Nat /\ Balance \in Int /\ api \in Nat
      /\ Accounts => Cardinality(Coming) \in Nat
      /\ made <= MaxMade /\ MaxMade \in Nat /\ W > 2 * MaxMade /\ W \in Nat
      /\ overlapped \in BOOLEAN
  BY NumberFacts
<1>t. pc \in PcType /\ objects \in [Conns -> {"none", "making", "open", "closing"}]
  BY NumberFacts
<1>1. /\ pc[t].at = "close_socket" /\ UNCHANGED <<initializations, api, overlapped, made>>
      /\ open_connection_count' = (open_connection_count - 1) % W
      /\ IF open_connection_count' = 0 THEN Goto(t, "while") /\ UNCHANGED objects
         ELSE Becomes(t, "none") /\ Finish(t)
  BY DEF count_down
<1>2. pc[t].conn \in Conns /\ objects[pc[t].conn] = "closing" /\ pc[t].conn \in Counted
  BY <1>0, <1>1 DEF Places, Closing, Counted
<1>3. /\ Others(t) /\ pc'[t].at = IF open_connection_count' = 0 THEN "while" ELSE "idle"
      /\ objects' = IF open_connection_count' = 0 THEN objects ELSE [objects EXCEPT ![pc[t].conn] = "none"]
  BY <1>t, <1>1, GotoMoves, FinishMoves DEF Becomes, Steps
<1>4. Counted' = Counted \ {pc[t].conn}
  <2>1. \A u \in Threads : u # t /\ pc[u].at = "close_socket" => pc'[u] = pc[u] /\ pc[u].conn # pc[t].conn
    BY <1>0, <1>1, <1>3 DEF Others, Places
  <2>2. \A u \in Threads : pc'[u].at = "close_socket" => u # t /\ pc[u] = pc'[u]
    BY <1>3 DEF Others
  <2>3. pc[t].conn \notin Counted'
    BY <1>t, <1>2, <1>3, <2>1, <2>2 DEF Counted
  <2>4. ASSUME NEW d \in Conns, d # pc[t].conn
        PROVE  d \in Counted <=> d \in Counted'
    BY <1>t, <1>2, <1>3, <2>1, <2>2, <2>4 DEF Counted
  <2> QED BY <2>3, <2>4 DEF Counted
<1>5. /\ IsFiniteSet(Counted') /\ Cardinality(Counted') = Cardinality(Counted) - 1
      /\ Cardinality(Counted') \in Nat
  BY <1>0, <1>2, <1>4, FS_RemoveElement, FS_CardinalityType DEF OpensAreCounted
<1>6. open_connection_count > 0 /\ open_connection_count' = open_connection_count - 1
  <2>1. open_connection_count > 0
    BY <1>0, <1>n, <1>5 DEF OpensAreCounted
  <2>2. open_connection_count - 1 \in 0 .. W - 1
    BY <1>0, <1>n, <2>1 DEF OpensAreCounted
  <2> QED BY <1>1, <2>1, <2>2, Modulo
<1>7. OpensAreCounted'
  BY <1>0, <1>n, <1>t, <1>1, <1>2, <1>3, <1>5, <1>6 DEF OpensAreCounted
<1>8. ASSUME ~ overlapped'
      PROVE  Accounts'
  <2>0. Accounts
    BY <1>0, <1>1, <1>8
  <2>1. Balance' = Balance
    BY <1>1 DEF Balance
  <2>2. \A u \in Threads : ~ Draining(u)
    BY <1>6, <1>n, <2>0 DEF Accounts, LoopRunsAlone
  <2>3. \A u \in Threads : Draining(u)' => u = t /\ open_connection_count' = 0
    BY <1>3, <2>2 DEF Draining, Others
  <2>4. open_connection_count' = 0 => Balance >= 0
    <3>1. SUFFICES ASSUME open_connection_count = 1, Balance < 0
                   PROVE  FALSE
      BY <1>n, <1>6
    <3>2. Cardinality(Counted') = 0
      BY <1>0, <1>n, <1>5, <3>1 DEF OpensAreCounted
    <3>3. Counted' = {} /\ Cardinality(Counted) = 1
      BY <1>n, <1>5, <3>2, FS_EmptySet
    <3>4. PICK u \in Threads : pc[u].at \in {"initialize", "initialized"}
      BY <1>n, <2>0, <3>1, <3>3 DEF Accounts, NextGenerationInitializes
    <3>5. pc[u].conn \in Counted /\ pc[u].conn # pc[t].conn
      BY <1>0, <1>1, <3>4 DEF Places, Making, Counted
    <3> QED BY <1>4, <3>3, <3>5
  <2>5. LoopRunsAlone'
    BY <2>1, <2>3, <2>4 DEF LoopRunsAlone
  <2>6. Coming' = Coming /\ Uncounted' = Uncounted
    BY <1>1, <1>3 DEF Coming, Uncounted, Others
  <2>7. BalanceIsBounded'
    BY <1>1, <2>0, <2>1, <2>6 DEF Accounts, BalanceIsBounded
  <2>8. NextGenerationInitializes'
    <3>1. \A u \in Threads : pc[u].at \in {"initialize", "initialized"} => pc'[u] = pc[u]
      BY <1>1, <1>3 DEF Others
    <3> QED BY <1>n, <1>5, <1>6, <2>0, <2>1, <3>1 DEF Accounts, NextGenerationInitializes
  <2>9. ApiCoversBalance'
    BY <1>1, <1>3, <2>0, <2>1, <2>2, <2>6 DEF Accounts, ApiCoversBalance, Draining, Others
  <2>10. ApiIsNeeded'
    BY <1>t, <1>1, <1>2, <1>3, <2>0 DEF Accounts, ApiIsNeeded, IsOpen, Others
  <2> QED BY <2>5, <2>7, <2>8, <2>9, <2>10 DEF Accounts
<1> QED BY <1>1, <1>n, <1>7, <1>8 DEF Numbers

\* What the loop does to the counts of objects: nothing.
LEMMA LoopKeepsCounted == 
    ASSUME IInv, NEW t \in Threads, Draining(t), Others(t),
           \/ UNCHANGED objects /\ pc'[t].conn = pc[t].conn
           \/ objects' = [objects EXCEPT ![pc[t].conn] = "none"],
           pc'[t].at # "close_socket",
           UNCHANGED <<open_connection_count, made>>
    PROVE  Counted' = Counted /\ OpensAreCounted'
<1>0. Places
  BY DEF IInv
<1>t. objects \in [Conns -> {"none", "making", "open", "closing"}]
  BY NumberFacts
<1>1. pc[t].conn \in Conns /\ objects[pc[t].conn] = "closing"
  BY <1>0 DEF Places, Closing, Draining
<1>2. /\ \A u \in Threads : pc[u].at = "close_socket" => pc'[u] = pc[u]
      /\ \A u \in Threads : pc'[u].at = "close_socket" => pc'[u] = pc[u]
  BY DEF Others, Draining
<1>3. pc[t].conn \notin Counted /\ pc[t].conn \notin Counted'
  <2>1. \A u \in Threads : pc[u].at = "close_socket" => pc[u].conn # pc[t].conn
    BY <1>0 DEF Places, Draining
  <2> QED BY <1>t, <1>1, <1>2, <2>1 DEF Counted
<1>4. ASSUME NEW d \in Conns, d # pc[t].conn
      PROVE  d \in Counted <=> d \in Counted'
  BY <1>t, <1>2, <1>4 DEF Counted
<1>5. Counted' = Counted
  BY <1>3, <1>4 DEF Counted
<1>6. \A c \in Conns : objects'[c] # "none" => objects[c] # "none"
  BY <1>t, <1>1
<1> QED BY <1>5, <1>6, OpensStay

\* One turn of the loop: with a positive count the API is quit once more, and
\* it was initialized as often; the last test leaves the balance at -1.
LEMMA TestNumbers == 
    ASSUME IInv, NEW t \in Threads, test_initializations(t)
    PROVE  Numbers'
<1>0. Places /\ OpensAreCounted /\ (overlapped \/ Accounts)
  BY DEF IInv
<1>n. /\ open_connection_count \in Nat /\ initializations \in Nat
      /\ made \in Nat /\ Balance \in Int /\ api \in Nat
      /\ made <= MaxMade /\ MaxMade \in Nat /\ W > 2 * MaxMade /\ W \in Nat /\ initializations <= W - 1
      /\ Accounts => Cardinality(Uncounted) \in Nat /\ Cardinality(Coming) \in Nat
      /\ overlapped \in BOOLEAN
  BY NumberFacts
<1>t. pc \in PcType /\ objects \in [Conns -> {"none", "making", "open", "closing"}]
  BY NumberFacts
<1>1. /\ pc[t].at = "while" /\ Draining(t)
      /\ UNCHANGED <<open_connection_count, api, overlapped, made>>
      /\ initializations' = (initializations - 1) % W
      /\ IF initializations > 0 THEN Goto(t, "quit") /\ UNCHANGED objects
         ELSE Becomes(t, "none") /\ Finish(t)
  BY DEF test_initializations, Draining
<1>2. /\ Others(t) /\ pc'[t].at = IF initializations > 0 THEN "quit" ELSE "idle"
      /\ \/ UNCHANGED objects /\ pc'[t].conn = pc[t].conn
         \/ objects' = [objects EXCEPT ![pc[t].conn] = "none"]
  BY <1>t, <1>1, GotoMoves, FinishMoves DEF Becomes, Steps
<1>3. pc[t].conn \in Conns /\ objects[pc[t].conn] = "closing"
  BY <1>0, <1>1 DEF Places, Closing
<1>4. Counted' = Counted /\ OpensAreCounted'
  BY <1>1, <1>2, LoopKeepsCounted
<1>5. ASSUME ~ overlapped'
      PROVE  Accounts'
  <2>0. Accounts
    BY <1>0, <1>1, <1>5
  <2>1. open_connection_count = 0 /\ Balance >= 0
    BY <1>1, <2>0 DEF Accounts, LoopRunsAlone
  <2>2. initializations <= made /\ Balance = initializations
    BY <1>n, <2>0, <2>1 DEF Balance, Accounts, BalanceIsBounded
  <2>3. made > 0
    BY <1>0, <1>3 DEF OpensAreCounted
  <2>4. Balance' = Balance - 1 /\ (initializations' > made' => initializations' = W - 1)
    <3>1. CASE initializations > 0
      <4>1. initializations - 1 \in 0 .. W - 1
        BY <1>n, <3>1
      <4>2. initializations' = initializations - 1
        BY <1>1, <4>1, Modulo
      <4> QED BY <1>n, <1>1, <2>2, <4>2 DEF Balance
    <3>2. CASE initializations = 0
      <4>1. initializations' = W - 1
        BY <1>1, <3>2, Modulo
      <4> QED BY <1>n, <1>1, <2>2, <2>3, <3>2, <4>1 DEF Balance
    <3> QED BY <1>n, <3>1, <3>2
  <2>5. \A u \in Threads : Draining(u) => u = t
    BY <1>1, <2>0 DEF Accounts, LoopRunsAlone
  <2>6. \A u \in Threads : Draining(u)' => u = t /\ initializations > 0
    BY <1>2, <2>5 DEF Draining, Others
  <2>7. LoopRunsAlone'
    BY <1>n, <1>1, <2>1, <2>2, <2>4, <2>6 DEF LoopRunsAlone
  <2>8. Coming' = Coming /\ Uncounted' = Uncounted
    BY <1>1, <1>2 DEF Coming, Uncounted, Others
  <2>9. BalanceIsBounded'
    BY <1>n, <1>1, <2>0, <2>3, <2>4, <2>8 DEF Accounts, BalanceIsBounded
  <2>10. NextGenerationInitializes'
    BY <1>1, <2>1 DEF NextGenerationInitializes
  <2>11. ApiCoversBalance'
    <3>1. api >= Balance + Cardinality(Uncounted) /\ Cardinality(Uncounted) \in Nat /\ IsFiniteSet(Uncounted)
      BY <1>n, <2>0 DEF Accounts, ApiCoversBalance
    <3> QED BY <1>n, <1>1, <2>4, <2>8, <3>1 DEF ApiCoversBalance
  <2>12. ApiIsNeeded'
    BY <1>t, <1>1, <1>2, <2>0 DEF Accounts, ApiIsNeeded, IsOpen, Others
  <2> QED BY <2>7, <2>9, <2>10, <2>11, <2>12 DEF Accounts
<1> QED BY <1>n, <1>1, <1>4, <1>5 DEF Numbers

\* The API is quit while no object is open or being made.
LEMMA QuitNumbers == 
    ASSUME IInv, NEW t \in Threads, quit_socket_api(t)
    PROVE  Numbers'
<1>0. Places /\ OpensAreCounted /\ (overlapped \/ Accounts)
  BY DEF IInv
<1>n. /\ open_connection_count \in Nat /\ made \in Nat /\ Balance \in Int /\ api \in Nat
      /\ overlapped \in BOOLEAN
  BY NumberFacts
<1>t. pc \in PcType
  BY NumberFacts
<1>1. /\ pc[t].at = "quit" /\ Draining(t) /\ Goto(t, "while")
      /\ UNCHANGED <<counters, objects, overlapped, made>>
      /\ api' = IF api > 0 THEN api - 1 ELSE 0
  BY DEF quit_socket_api, Draining
<1>2. Others(t) /\ pc'[t].at = "while" /\ pc'[t].conn = pc[t].conn
  BY <1>t, <1>1, GotoMoves DEF Steps
<1>3. Counted' = Counted /\ OpensAreCounted'
  BY <1>1, <1>2, LoopKeepsCounted DEF counters
<1>4. ASSUME ~ overlapped'
      PROVE  Accounts'
  <2>0. Accounts
    BY <1>0, <1>1, <1>4
  <2>1. open_connection_count = 0 /\ Balance >= 0
    BY <1>1, <2>0 DEF Accounts, LoopRunsAlone
  <2>2. /\ \A c \in Conns : ~ IsOpen(c)
        /\ \A u \in Threads : pc[u].at \notin Making
    BY <2>1, NothingCounted
  <2>3. Balance' = Balance
    BY <1>1 DEF Balance, counters
  <2>4. \A u \in Threads : pc'[u].at \notin Making /\ (Draining(u)' => Draining(u))
    BY <1>1, <1>2, <2>2 DEF Making, Draining, Others
  <2>5. Coming' = {} /\ Coming = {} /\ Uncounted' = {}
    BY <2>2, <2>4 DEF Coming, Uncounted, Making
  <2>6. LoopRunsAlone'
    BY <1>1, <2>0, <2>3, <2>4 DEF Accounts, LoopRunsAlone, counters
  <2>7. BalanceIsBounded'
    BY <1>1, <2>0, <2>3, <2>5 DEF Accounts, BalanceIsBounded, counters
  <2>8. NextGenerationInitializes'
    BY <1>1, <2>1 DEF NextGenerationInitializes, counters
  <2>9. ApiCoversBalance'
    <3>1. api > Balance
      BY <1>1, <2>0 DEF Accounts, ApiCoversBalance
    <3>2. \A u \in Threads : pc'[u].at # "quit"
      <4>1. \A u \in Threads : Draining(u) => u = t
        BY <1>1, <2>0 DEF Accounts, LoopRunsAlone
      <4> QED BY <1>2, <4>1 DEF Draining, Others
    <3> QED BY <1>n, <1>1, <2>1, <2>3, <2>5, <3>1, <3>2, FS_EmptySet DEF ApiCoversBalance
  <2>10. ApiIsNeeded'
    BY <1>1, <2>2, <2>4 DEF ApiIsNeeded, IsOpen, Making
  <2> QED BY <2>6, <2>7, <2>8, <2>9, <2>10 DEF Accounts
<1> QED BY <1>n, <1>1, <1>3, <1>4 DEF Numbers

\* Every step keeps what is known of the counters.
LEMMA NumbersStep == IInv /\ [Next]_vars => Numbers'
<1> SUFFICES ASSUME IInv, [Next]_vars
             PROVE  Numbers'
  OBVIOUS
<1>1. CASE UNCHANGED vars
  <2>1. Numbers
    BY DEF IInv, Numbers
  <2>2. Counted' = Counted /\ Coming' = Coming /\ Uncounted' = Uncounted /\ Balance' = Balance
    BY <1>1 DEF Counted, Coming, Uncounted, Balance, vars, counters
  <2> QED BY <1>1, <2>1, <2>2
          DEF Numbers, OpensAreCounted, Accounts, LoopRunsAlone, BalanceIsBounded, 
              NextGenerationInitializes, ApiCoversBalance, ApiIsNeeded, Draining, IsOpen, vars, counters
<1> QED BY <1>1, StepCases, ConstructNumbers, InitializeNumbers, CountInitializationNumbers,
           OpenSocketNumbers, SetSocketInfoNumbers, DestructNumbers, CountDownNumbers,
           TestNumbers, QuitNumbers

-----------------------------------------------------------------------------
(* The theorems.                                                            *)

\* IInv is inductive.
LEMMA NextStep == IInv /\ [Next]_vars => IInv'
<1> QED BY TypeStep, PlacesStep, ResultsStep, GarbageStep, NumbersStep DEF IInv, Numbers

\* Every reachable state is well typed; in particular the number of results in
\* memory never goes below zero.
THEOREM TypeCorrect == Spec => []TypeOK
<1>1. IInv => TypeOK
  BY DEF IInv
<1> QED BY <1>1, InitInvariant, NextStep, PTL DEF Spec

\* Every result of getaddrinfo() has exactly one owner and goes with it, for
\* any number of objects and threads, until the pointer of a getaddrinfo() that
\* failed was freed, which may free anything; such pointers come only from
\* calls that failed, so without a failed call the ownership is unconditional.
THEOREM ResultsOwnedUntilCorrupted == Spec => []ResultsHaveOneOwner
<1>1. IInv => ResultsHaveOneOwner
  BY DEF IInv, ResultsAreCounted, GarbageIsPaid, Results, ResultsHaveOneOwner
<1> QED BY <1>1, InitInvariant, NextStep, PTL DEF Spec

\* The API is up while a connection is open, for any number of threads and any
\* interleaving of them in which no constructor runs during the loop of the
\* last destructor.
THEOREM ApiStaysUpUnlessOverlapped == Spec => []ApiUpWhileOpen
<1>1. IInv => ApiUpWhileOpen
  BY DEF IInv, Accounts, ApiIsNeeded, ApiUpWhileOpen
<1> QED BY <1>1, InitInvariant, NextStep, PTL DEF Spec

\* Under the same condition the loops of the destructors run one at a time, on
\* a counter that has not wrapped, and quit the API no more often than it was
\* initialized.  Nothing is claimed once a constructor has run during a loop:
\* then two loops may be running, one with the counter the other has wrapped.
THEOREM QuitsAreMatchedUnlessOverlapped == Spec => []NoUnmatchedQuit
<1>1. IInv => NoUnmatchedQuit
  <2> SUFFICES ASSUME IInv, ~ overlapped
               PROVE  \A t \in Threads : 
                         /\ Draining(t) => 
                               initializations <= made /\ \A u \in Threads : Draining(u) => u = t
                         /\ pc[t].at = "quit" => api > 0
    BY DEF NoUnmatchedQuit
  <2>1. Accounts
    BY DEF IInv
  <2>2. ASSUME NEW t \in Threads, Draining(t)
        PROVE  initializations <= made /\ \A u \in Threads : Draining(u) => u = t
    <3>1. Balance >= 0 /\ \A u \in Threads : Draining(u) => u = t
      BY <2>1, <2>2 DEF Accounts, LoopRunsAlone
    <3>2. initializations \in 0 .. W - 1 /\ W \in Nat /\ made \in 0 .. MaxMade /\ MaxMade \in Nat
      BY BoundsAssumption DEF IInv, TypeOK
    <3> QED BY <3>1, <3>2 DEF Balance
  <2>3. ASSUME NEW t \in Threads, pc[t].at = "quit"
        PROVE  api > 0
    <3>1. Balance >= 0 /\ api > Balance
      BY <2>1, <2>3 DEF Accounts, LoopRunsAlone, ApiCoversBalance, Draining
    <3> QED BY <3>1, NumberFacts
  <2> QED BY <2>2, <2>3
<1> QED BY <1>1, InitInvariant, NextStep, PTL DEF Spec
=============================================================================
