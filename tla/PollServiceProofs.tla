------------------------- MODULE PollServiceProofs -------------------------
(***************************************************************************)
(* The vector and the map of a PollService stay in step, for any number of *)
(* connections and descriptors.                                            *)
(***************************************************************************)
EXTENDS PollService, SequenceTheorems, TLAPS

\* The inductive invariant: neither half is inductive alone.  A removal finds
\* its position through the index of the map entry (MapPointsIntoDescriptors)
\* and its map entry through the descriptor of the connection
\* (EntriesAreCurrent), and a new connection is not yet in the vector only
\* because every descriptor in it belongs to an object that exists.  A
\* reference, from outside or in the results, keeps its object alive.
ReferencesAreAlive == owned \cup Reported \subseteq Alive

IInv == 
    /\ TypeOK
    /\ MapPointsIntoDescriptors
    /\ EntriesAreCurrent
    /\ DescriptorsDiffer
    /\ ReferencesAreAlive

-----------------------------------------------------------------------------
(* Lemmas about the operators.                                              *)

\* vector::erase: one element goes, those before it stay, the rest shift down.
LEMMA RemoveAtProperties == 
    ASSUME NEW S, NEW s \in Seq(S), NEW k \in 1 .. Len(s)
    PROVE  /\ RemoveAt(s, k) \in Seq(S)
           /\ Len(RemoveAt(s, k)) = Len(s) - 1
           /\ \A i \in 1 .. Len(s) - 1 : 
                 RemoveAt(s, k)[i] = IF i < k THEN s[i] ELSE s[i + 1]
<1> DEFINE a == SubSeq(s, 1, k - 1)
           b == SubSeq(s, k + 1, Len(s))
<1>0. Len(s) \in Nat /\ k \in Int /\ 1 <= k /\ k <= Len(s)
  BY LenProperties
<1>e. \A i \in 1 .. Len(s) : s[i] \in S
  BY ElementOfSeq
<1>1. /\ a \in Seq(S) /\ Len(a) = k - 1
      /\ \A i \in 1 .. k - 1 : a[i] = s[i]
  <2>1. \A i \in 1 .. k - 1 : s[i] \in S
    BY <1>0, <1>e
  <2>2. /\ a \in Seq(S) /\ Len(a) = IF 1 <= k - 1 THEN (k - 1) - 1 + 1 ELSE 0
        /\ \A i \in 1 .. (k - 1) - 1 + 1 : a[i] = s[1 + i - 1]
    BY <1>0, <2>1, SubSeqProperties
  <2> QED BY <1>0, <2>2
<1>2. /\ b \in Seq(S) /\ Len(b) = Len(s) - k
      /\ \A i \in 1 .. Len(s) - k : b[i] = s[k + i]
  <2>1. \A i \in k + 1 .. Len(s) : s[i] \in S
    BY <1>0, <1>e
  <2>2. /\ b \in Seq(S) /\ Len(b) = IF k + 1 <= Len(s) THEN Len(s) - (k + 1) + 1 ELSE 0
        /\ \A i \in 1 .. Len(s) - (k + 1) + 1 : b[i] = s[k + 1 + i - 1]
    BY <1>0, <2>1, SubSeqProperties
  <2> QED BY <1>0, <2>2
<1>3. RemoveAt(s, k) = a \o b
  BY DEF RemoveAt
<1> HIDE DEF a, b
<1>4. /\ a \o b \in Seq(S) /\ Len(a \o b) = Len(a) + Len(b)
      /\ \A i \in 1 .. Len(a) + Len(b) : 
            (a \o b)[i] = IF i <= Len(a) THEN a[i] ELSE b[i - Len(a)]
  BY <1>1, <1>2, ConcatProperties
<1>5. ASSUME NEW i \in 1 .. Len(s) - 1
      PROVE  (a \o b)[i] = IF i < k THEN s[i] ELSE s[i + 1]
  <2>0. i < k \/ i >= k
    BY <1>0
  <2>1. CASE i < k
    BY <2>1, <1>0, <1>1, <1>2, <1>4
  <2>2. CASE i >= k
    <3>1. (a \o b)[i] = b[i - (k - 1)]
      BY <2>2, <1>0, <1>1, <1>2, <1>4
    <3>2. i - (k - 1) \in 1 .. Len(s) - k
      BY <2>2, <1>0
    <3>3. b[i - (k - 1)] = s[k + (i - (k - 1))]
      BY <3>2, <1>2
    <3>4. k + (i - (k - 1)) = i + 1
      BY <1>0
    <3> QED BY <2>2, <1>0, <3>1, <3>3, <3>4
  <2> QED BY <2>0, <2>1, <2>2
<1> QED BY <1>0, <1>1, <1>2, <1>3, <1>4, <1>5

\* n is the map m after the positions of d from the 0-based k on were
\* written into it.
IsReindexed(n, m, d, k) == 
    /\ DOMAIN n = DOMAIN m
    /\ \A i \in 1 .. Len(d) :
          IF i <= k THEN n[d[i]] = m[d[i]]
          ELSE n[d[i]] \in [index : {i - 1}, socket : {m[d[i]].socket}]

\* Reindexing a vector without repetitions gives every descriptor after the
\* k-th its position, and touches nothing else.
LEMMA ReindexedProperties == 
    ASSUME NEW m, NEW d \in Seq(Fds), NEW k \in Nat,
           \A i, j \in 1 .. Len(d) : d[i] = d[j] => i = j,
           ToSet(d) = DOMAIN m
    PROVE  IsReindexed(Reindexed(m, d, k), m, d, k)
<1> DEFINE later(f) == {i \in k + 1 .. Len(d) : d[i] = f}
           dom == DOMAIN m \cup {d[i] : i \in k + 1 .. Len(d)}
           R == [f \in dom |->
                    IF later(f) = {} THEN m[f]
                    ELSE [index  |-> Max(later(f)) - 1,
                          socket |-> IF f \in DOMAIN m THEN m[f].socket ELSE NULL]]
<1>0. Len(d) \in Nat /\ DOMAIN d = 1 .. Len(d)
  BY LenProperties
<1>1. Reindexed(m, d, k) = R
  BY DEF Reindexed
<1>2. \A i \in 1 .. Len(d) : d[i] \in DOMAIN m
  BY <1>0 DEF ToSet
<1>3. dom = DOMAIN m
  <2>1. \A i \in k + 1 .. Len(d) : i \in 1 .. Len(d)
    BY <1>0
  <2> QED BY <1>2, <2>1
<1>4. ASSUME NEW i \in 1 .. Len(d)
      PROVE  IF i <= k THEN R[d[i]] = m[d[i]]
             ELSE R[d[i]] \in [index : {i - 1}, socket : {m[d[i]].socket}]
  <2>0. d[i] \in dom /\ d[i] \in DOMAIN m
    BY <1>2, <1>3
  <2>1. CASE i <= k
    <3>1. later(d[i]) = {}
      BY <2>1, <1>0
    <3> QED BY <2>0, <2>1, <3>1
  <2>2. CASE i > k
    <3>1. later(d[i]) = {i}
      BY <2>2, <1>0
    <3>2. Max({i}) = i
      BY <1>0 DEF Max
    <3>3. later(d[i]) # {} /\ Max(later(d[i])) = i
      BY <3>1, <3>2
    <3> QED BY <2>0, <2>2, <3>3, <1>0
  <2> QED BY <2>1, <2>2, <1>0
<1> QED BY <1>1, <1>3, <1>4 DEF IsReindexed

-----------------------------------------------------------------------------
(* What each operation does to the vector and the map.                      *)

\* What an operation must establish before the objects are settled: both
\* halves agree, and every entry has a socket whose descriptor under sd is
\* the key of the entry.
Structure(d, m, sd) == 
    /\ d \in Seq(Fds)
    /\ DOMAIN m = ToSet(d)
    /\ \A i \in DOMAIN d : m[d[i]].index = i - 1
    /\ \A f \in DOMAIN m : /\ m[f] \in Entries
                            /\ m[f].socket \in Conns
                            /\ sd[m[f].socket] = f

\* A vector and a map that agree have no repetition, and every position is
\* the index of its descriptor.
LEMMA StructureFacts == 
    ASSUME NEW d, NEW m, NEW sd, Structure(d, m, sd)
    PROVE  /\ Len(d) \in Nat /\ DOMAIN d = 1 .. Len(d)
           /\ \A i \in 1 .. Len(d) : d[i] \in DOMAIN m /\ d[i] \in Fds
           /\ \A i, j \in 1 .. Len(d) : d[i] = d[j] => i = j
           /\ \A f \in DOMAIN m : /\ f \in Fds
                                   /\ m[f].index + 1 \in 1 .. Len(d)
                                   /\ d[m[f].index + 1] = f
<1>1. d \in Seq(Fds) /\ DOMAIN m = ToSet(d) /\ \A i \in DOMAIN d : m[d[i]].index = i - 1
  BY DEF Structure
<1>2. Len(d) \in Nat /\ DOMAIN d = 1 .. Len(d) /\ \A i \in 1 .. Len(d) : d[i] \in Fds
  BY <1>1, LenProperties, ElementOfSeq
<1>3. \A i \in 1 .. Len(d) : d[i] \in DOMAIN m
  BY <1>1, <1>2 DEF ToSet
<1>4. ASSUME NEW i \in 1 .. Len(d), NEW j \in 1 .. Len(d), d[i] = d[j] PROVE i = j
  <2>1. i - 1 = j - 1
    BY <1>1, <1>2, <1>4
  <2> QED BY <1>2, <2>1
<1>5. ASSUME NEW f \in DOMAIN m
      PROVE  f \in Fds /\ m[f].index + 1 \in 1 .. Len(d) /\ d[m[f].index + 1] = f
  <2>1. PICK i \in 1 .. Len(d) : f = d[i]
    BY <1>1, <1>2 DEF ToSet
  <2>2. m[f].index = i - 1
    BY <1>1, <1>2, <2>1
  <2>3. m[f].index + 1 = i
    BY <1>2, <2>2
  <2> QED BY <1>2, <2>1, <2>3
<1> QED BY <1>2, <1>3, <1>4, <1>5

\* add_socket of a connection that exists under sd and whose descriptor is
\* not in the vector.
LEMMA AddSocketStep == 
    ASSUME NEW sd, NEW c \in Conns, NEW f \in Fds,
           Structure(descriptors, poll_descriptor_map, sd),
           sd[c] = f, f \notin DOMAIN poll_descriptor_map, add_socket(c, f)
    PROVE  /\ Structure(descriptors', poll_descriptor_map', sd)
           /\ Watched' = Watched \cup {c}
           /\ results' = results
<1> DEFINE d == descriptors
           m == poll_descriptor_map
<1>0. /\ d \in Seq(Fds) /\ DOMAIN m = ToSet(d)
      /\ \A i \in DOMAIN d : m[d[i]].index = i - 1
      /\ \A g \in DOMAIN m : m[g] \in Entries /\ m[g].socket \in Conns /\ sd[m[g].socket] = g
  BY DEF Structure
<1>1. Len(d) \in Nat /\ DOMAIN d = 1 .. Len(d)
  BY StructureFacts
<1>2. /\ d' = Append(d, f)
      /\ m' = [g \in DOMAIN m \cup {f} |->
                 IF g = f THEN [index |-> Len(d), socket |-> c] ELSE m[g]]
      /\ results' = results
  BY DEF add_socket
<1>3. /\ d' \in Seq(Fds) /\ DOMAIN d' = 1 .. Len(d) + 1
      /\ \A i \in 1 .. Len(d) : d'[i] = d[i]
      /\ d'[Len(d) + 1] = f
  BY <1>0, <1>1, <1>2
<1>4. DOMAIN m' = DOMAIN m \cup {f} /\ m'[f] = [index |-> Len(d), socket |-> c]
      /\ \A g \in DOMAIN m : m'[g] = m[g]
  BY <1>2
<1>5. DOMAIN m' = ToSet(d')
  <2>1. \A g \in DOMAIN m' : \E i \in DOMAIN d' : d'[i] = g
    BY <1>0, <1>1, <1>3, <1>4 DEF ToSet
  <2>2. \A i \in DOMAIN d' : d'[i] \in DOMAIN m'
    BY <1>0, <1>1, <1>3, <1>4 DEF ToSet
  <2> QED BY <2>1, <2>2 DEF ToSet
<1>6. ASSUME NEW i \in DOMAIN d' PROVE m'[d'[i]].index = i - 1
  <2>1. CASE i = Len(d) + 1
    BY <2>1, <1>1, <1>3, <1>4
  <2>2. CASE i # Len(d) + 1
    <3>1. i \in 1 .. Len(d)
      BY <2>2, <1>1, <1>3
    <3>2. d'[i] = d[i] /\ d[i] \in DOMAIN m
      BY <3>1, <1>0, <1>1, <1>3 DEF ToSet
    <3> QED BY <3>1, <3>2, <1>0, <1>1, <1>4
  <2> QED BY <2>1, <2>2
<1>7. \A g \in DOMAIN m' : m'[g] \in Entries /\ m'[g].socket \in Conns /\ sd[m'[g].socket] = g
  BY <1>0, <1>1, <1>4 DEF Entries
<1>8. Watched' = Watched \cup {c}
  BY <1>4 DEF Watched
<1> QED BY <1>2, <1>3, <1>5, <1>6, <1>7, <1>8 DEF Structure

\* remove_socket: exactly the entry of c goes, whichever position it had.
LEMMA RemoveSocketStep == 
    ASSUME NEW c \in Conns,
           Structure(descriptors, poll_descriptor_map, socket_descriptor),
           socket_descriptor[c] \in Fds, DescriptorsDiffer, 
           remove_socket(c)
    PROVE  /\ Structure(descriptors', poll_descriptor_map', socket_descriptor)
           /\ Watched' = Watched \ {c}
           /\ results' = results
<1> DEFINE d == descriptors
           m == poll_descriptor_map
           f == socket_descriptor[c]
           k == m[f].index
           e == RemoveAt(d, k + 1)
           r == Restrict(m, DOMAIN m \ {f})
<1>0. /\ d \in Seq(Fds) /\ DOMAIN m = ToSet(d)
      /\ \A i \in DOMAIN d : m[d[i]].index = i - 1
      /\ \A g \in DOMAIN m : /\ m[g] \in Entries /\ m[g].socket \in Conns
                              /\ socket_descriptor[m[g].socket] = g
  BY DEF Structure
<1>1. /\ Len(d) \in Nat /\ DOMAIN d = 1 .. Len(d)
      /\ \A i \in 1 .. Len(d) : d[i] \in DOMAIN m /\ d[i] \in Fds
      /\ \A i, j \in 1 .. Len(d) : d[i] = d[j] => i = j
  BY StructureFacts
<1>2. CASE f \notin DOMAIN m
  <2>1. d' = d /\ m' = m /\ results' = results
    BY <1>2 DEF remove_socket
  <2>2. c \notin Watched
    BY <1>0, <1>2 DEF Watched
  <2>3. Watched' = Watched
    BY <2>1 DEF Watched
  <2> QED BY <2>1, <2>2, <2>3
<1>3. CASE f \in DOMAIN m
  <2>1. d' = e /\ m' = Reindexed(r, e, k) /\ results' = results
    BY <1>3 DEF remove_socket
  <2>2. k \in Nat /\ k + 1 \in 1 .. Len(d) /\ d[k + 1] = f
    BY <1>0, <1>3, StructureFacts DEF Entries
  <2>3. /\ e \in Seq(Fds) /\ Len(e) = Len(d) - 1
        /\ \A i \in 1 .. Len(d) - 1 : e[i] = IF i < k + 1 THEN d[i] ELSE d[i + 1]
    BY <1>0, <2>2, RemoveAtProperties
  <2>4. DOMAIN e = 1 .. Len(d) - 1
    BY <2>3, LenProperties
  <2>5. DOMAIN r = DOMAIN m \ {f} /\ \A g \in DOMAIN r : r[g] = m[g]
    BY DEF Restrict
  <2> HIDE DEF e, r, k, f
  <2>6. ASSUME NEW i \in 1 .. Len(e)
        PROVE  \E j \in 1 .. Len(d) : 
                  j # k + 1 /\ e[i] = d[j] /\ j = IF i < k + 1 THEN i ELSE i + 1
    <3>0. i \in 1 .. Len(d) - 1 
      BY <2>3
    <3>1. CASE i < k + 1
      <4>1. i \in 1 .. Len(d) /\ i # k + 1 /\ e[i] = d[i]
        BY <3>0, <3>1, <1>1, <2>2, <2>3
      <4> QED BY <3>1, <4>1
    <3>2. CASE ~ (i < k + 1)
      <4>1. i + 1 \in 1 .. Len(d) /\ i + 1 # k + 1 /\ e[i] = d[i + 1]
        BY <3>0, <3>2, <1>1, <2>2, <2>3
      <4> QED BY <3>2, <4>1
    <3> QED BY <3>1, <3>2
  <2>7. ASSUME NEW j \in 1 .. Len(d), j # k + 1
        PROVE  \E i \in 1 .. Len(e) : e[i] = d[j]
    <3>1. CASE j < k + 1
      <4>1. j \in 1 .. Len(e) /\ e[j] = d[j]
        BY <3>1, <1>1, <2>2, <2>3
      <4> QED BY <4>1
    <3>2. CASE j > k + 1
      <4>1. j - 1 \in 1 .. Len(e) /\ ~ (j - 1 < k + 1) /\ (j - 1) + 1 = j
        BY <3>2, <1>1, <2>2, <2>3
      <4>2. e[j - 1] = d[j]
        BY <4>1, <2>3
      <4> QED BY <4>1, <4>2
    <3> QED BY <3>1, <3>2, <2>7, <2>2
  <2>8. ToSet(e) = DOMAIN r
    <3>1. ASSUME NEW i \in 1 .. Len(e) PROVE e[i] \in DOMAIN r
      BY <1>1, <2>2, <2>5, <2>6
    <3>2. ASSUME NEW g \in DOMAIN r PROVE \E i \in 1 .. Len(e) : e[i] = g
      <4>1. PICK j \in 1 .. Len(d) : d[j] = g
        BY <1>0, <1>1, <2>5 DEF ToSet
      <4>2. j # k + 1
        BY <4>1, <2>2, <2>5
      <4> QED BY <4>1, <4>2, <2>7
    <3> QED BY <3>1, <3>2, <2>3, <2>4 DEF ToSet
  <2>9. \A i, j \in 1 .. Len(e) : e[i] = e[j] => i = j
    <3> SUFFICES ASSUME NEW i \in 1 .. Len(e), NEW j \in 1 .. Len(e), e[i] = e[j]
                 PROVE  i = j
      OBVIOUS
    <3>1. PICK p \in 1 .. Len(d) : e[i] = d[p] /\ p = IF i < k + 1 THEN i ELSE i + 1
      BY <2>6
    <3>2. PICK q \in 1 .. Len(d) : e[j] = d[q] /\ q = IF j < k + 1 THEN j ELSE j + 1
      BY <2>6
    <3>3. p = q
      BY <3>1, <3>2, <1>1
    <3> QED BY <3>1, <3>2, <3>3, <2>2, <2>3
  <2>10. /\ DOMAIN m' = DOMAIN r
         /\ \A i \in 1 .. Len(e) :
               IF i <= k THEN m'[e[i]] = r[e[i]]
               ELSE m'[e[i]] \in [index : {i - 1}, socket : {r[e[i]].socket}]
    <3>1. IsReindexed(Reindexed(r, e, k), r, e, k)
      BY <2>2, <2>3, <2>8, <2>9, ReindexedProperties
    <3> QED BY <2>1, <3>1 DEF IsReindexed
  <2>11. ASSUME NEW i \in 1 .. Len(e)
         PROVE  /\ m'[e[i]].index = i - 1
                /\ m'[e[i]].socket = m[e[i]].socket
                /\ m'[e[i]] \in Entries
    <3>1. PICK p \in 1 .. Len(d) : e[i] = d[p] /\ p = IF i < k + 1 THEN i ELSE i + 1
      BY <2>6
    <3>2. e[i] \in DOMAIN r /\ r[e[i]] = m[e[i]] /\ e[i] \in DOMAIN m
      BY <1>1, <2>5, <2>8, <2>4, <2>3 DEF ToSet
    <3>3. m[e[i]] \in Entries /\ m[e[i]].index = p - 1
      BY <1>0, <1>1, <3>1, <3>2
    <3>4. CASE i <= k
      <4>1. i < k + 1
        BY <1>1, <2>2, <2>3, <3>4
      <4>2. p = i
        BY <3>1, <4>1
      <4>3. m'[e[i]] = m[e[i]]
        BY <2>10, <3>2, <3>4
      <4> QED BY <3>3, <4>2, <4>3
    <3>5. CASE ~ (i <= k)
      <4>1. m'[e[i]] \in [index : {i - 1}, socket : {m[e[i]].socket}]
        BY <2>10, <3>2, <3>5
      <4>2. m[e[i]].socket \in Conns \cup {NULL}
        BY <3>3 DEF Entries
      <4>3. i - 1 \in Nat
        BY <1>1, <2>3
      <4> QED BY <4>1, <4>2, <4>3 DEF Entries
    <3> QED BY <3>4, <3>5
  <2>12. ASSUME NEW g \in DOMAIN m'
         PROVE  m'[g] \in Entries /\ g \in DOMAIN m \ {f} /\ m'[g].socket = m[g].socket
    <3>1. PICK i \in 1 .. Len(e) : e[i] = g
      BY <2>3, <2>4, <2>8, <2>10 DEF ToSet
    <3> QED BY <3>1, <2>5, <2>10, <2>11
  <2>13. Structure(d', m', socket_descriptor)
    <3>1. DOMAIN m' = ToSet(d') /\ d' \in Seq(Fds)
      BY <2>1, <2>3, <2>8, <2>10
    <3>2. \A i \in DOMAIN d' : m'[d'[i]].index = i - 1
      BY <2>1, <2>3, <2>4, <2>11
    <3>3. \A g \in DOMAIN m' : /\ m'[g] \in Entries /\ m'[g].socket \in Conns
                               /\ socket_descriptor[m'[g].socket] = g
      BY <1>0, <2>12
    <3> QED BY <3>1, <3>2, <3>3 DEF Structure
  <2>14. m[f].socket = c
    BY <1>0, <1>3, FdsAssumption DEF DescriptorsDiffer, Alive, f
  <2>15. Watched' = Watched \ {c}
    <3>1. \A g \in DOMAIN m' : m'[g].socket \in Watched \ {c}
      BY <1>0, <2>12 DEF Watched, f
    <3>2. \A g \in DOMAIN m : m[g].socket # c => g \in DOMAIN m'
      BY <2>5, <2>10, <2>14
    <3> QED BY <3>1, <3>2, <2>12 DEF Watched
  <2> QED BY <2>1, <2>13, <2>15
<1> QED BY <1>2, <1>3

-----------------------------------------------------------------------------
(* Settling the objects after a step, and the results of a poll.            *)

\* What is left alive keeps the descriptor it had, so an operation that
\* leaves the vector and the map right leaves the invariant true.
LEMMA SettleStep == 
    ASSUME NEW sd \in [Conns -> Fds \cup {NoFd}],
           \A c, d \in Conns : sd[c] = sd[d] /\ sd[c] # NoFd => c = d,
           Structure(descriptors', poll_descriptor_map', sd),
           results' \subseteq [connection : Conns, status : Statuses],
           \A e \in results' : sd[e.connection] # NoFd,
           Settle(sd)
    PROVE  IInv'
<1>0. /\ descriptors' \in Seq(Fds) /\ DOMAIN poll_descriptor_map' = ToSet(descriptors')
      /\ \A i \in DOMAIN descriptors' : poll_descriptor_map'[descriptors'[i]].index = i - 1
      /\ \A f \in DOMAIN poll_descriptor_map' :
            /\ poll_descriptor_map'[f] \in Entries
            /\ poll_descriptor_map'[f].socket \in Conns
            /\ sd[poll_descriptor_map'[f].socket] = f
  BY DEF Structure
<1>1. /\ owned' \subseteq {c \in Conns : sd[c] # NoFd}
      /\ socket_descriptor' = [c \in Conns |->
            IF c \in owned' \cup Watched' \cup Reported' THEN sd[c] ELSE NoFd]
  BY DEF Settle
<1>2. socket_descriptor' \in [Conns -> Fds \cup {NoFd}]
  BY <1>1
<1>3. DOMAIN poll_descriptor_map' \subseteq Fds
  BY StructureFacts
<1>4. TypeOK'
  BY <1>0, <1>1, <1>2, <1>3 DEF TypeOK
<1>5. MapPointsIntoDescriptors'
  BY <1>0 DEF MapPointsIntoDescriptors
<1>6. EntriesAreCurrent'
  BY <1>0, <1>1 DEF EntriesAreCurrent, Watched
<1>7. DescriptorsDiffer'
  BY <1>1 DEF DescriptorsDiffer, Alive
<1>8. ReferencesAreAlive'
  BY <1>1 DEF ReferencesAreAlive, Reported, Alive
<1> QED BY <1>4, <1>5, <1>6, <1>7, <1>8 DEF IInv

\* The invariant gives the structure lemmas what they ask for.
LEMMA InvariantFacts == 
    ASSUME IInv
    PROVE  /\ Structure(descriptors, poll_descriptor_map, socket_descriptor)
           /\ socket_descriptor \in [Conns -> Fds \cup {NoFd}]
           /\ \A c, d \in Conns : 
                 socket_descriptor[c] = socket_descriptor[d] /\ socket_descriptor[c] # NoFd => c = d
           /\ \A e \in results : e.connection \in Alive
           /\ Watched \subseteq Alive /\ DOMAIN poll_descriptor_map \subseteq Open
<1>1. Structure(descriptors, poll_descriptor_map, socket_descriptor)
  BY DEF IInv, TypeOK, MapPointsIntoDescriptors, EntriesAreCurrent, Structure
<1>2. /\ socket_descriptor \in [Conns -> Fds \cup {NoFd}]
      /\ \A f \in DOMAIN poll_descriptor_map : f # NoFd
  BY FdsAssumption DEF IInv, TypeOK
<1>3. \A c, d \in Conns : 
         socket_descriptor[c] = socket_descriptor[d] /\ socket_descriptor[c] # NoFd => c = d
  BY DEF IInv, DescriptorsDiffer, Alive
<1>4. \A f \in DOMAIN poll_descriptor_map :
         /\ poll_descriptor_map[f].socket \in Alive
         /\ socket_descriptor[poll_descriptor_map[f].socket] = f
  BY <1>2 DEF IInv, EntriesAreCurrent, Alive
<1>5. \A e \in results : e.connection \in Alive
  BY DEF IInv, ReferencesAreAlive, Reported
<1> QED BY <1>1, <1>2, <1>3, <1>4, <1>5 DEF Watched, Open

\* A step that leaves the vector and the map alone.
LEMMA SameStructure == 
    ASSUME NEW sd, Structure(descriptors, poll_descriptor_map, sd),
           UNCHANGED <<descriptors, poll_descriptor_map>>
    PROVE  Structure(descriptors', poll_descriptor_map', sd) /\ Watched' = Watched
BY DEF Structure, Watched

\* Without null entries every hit is inserted: the results of a poll are
\* entries of watched connections, at most one for each.
LEMMA FoundProperties == 
    ASSUME IInv, NEW rev \in Polled
    PROVE  /\ Found(rev) \subseteq [connection : Watched, status : Statuses]
           /\ \A e1, e2 \in Found(rev) : e1.connection = e2.connection => e1 = e2
           /\ Inserted(rev) = {i \in 1 .. Len(descriptors) : Ready(rev[descriptors[i]])}
<1> DEFINE d == descriptors
           m == poll_descriptor_map
<1>1. /\ DOMAIN d = 1 .. Len(d)
      /\ \A i \in 1 .. Len(d) : d[i] \in DOMAIN m
      /\ \A f \in DOMAIN m : m[f].socket \in Conns /\ socket_descriptor[m[f].socket] = f
  BY InvariantFacts, StructureFacts DEF Structure
<1>2. Invalid(rev) = {}
  BY <1>1, ConnsAssumption DEF Invalid, Hits
<1>3. Inserted(rev) = {i \in 1 .. Len(d) : Ready(rev[d[i]])}
  BY <1>1, <1>2 DEF Inserted, Hits
<1>4. \A i \in 1 .. Len(d) : m[d[i]].socket \in Watched
  BY <1>1 DEF Watched
<1>5. \A f : Status(f) \in Statuses
  BY DEF Status, Statuses
<1>6. Found(rev) \subseteq [connection : Watched, status : Statuses]
  BY <1>3, <1>4, <1>5 DEF Found
<1>7. ASSUME NEW e1 \in Found(rev), NEW e2 \in Found(rev), e1.connection = e2.connection
      PROVE  e1 = e2
  <2>1. PICK i \in Inserted(rev) : 
           e1 = [connection |-> m[d[i]].socket, status |-> Status(rev[d[i]])]
    BY DEF Found
  <2>2. PICK j \in Inserted(rev) : 
           e2 = [connection |-> m[d[j]].socket, status |-> Status(rev[d[j]])]
    BY DEF Found
  <2>3. d[i] = d[j]
    BY <1>1, <1>3, <1>7, <2>1, <2>2
  <2> QED BY <2>1, <2>2, <2>3
<1> QED BY <1>3, <1>6, <1>7

-----------------------------------------------------------------------------
(* The invariant.                                                           *)

\* Initially nothing is watched.
LEMMA InitInvariant == Init => IInv
<1> SUFFICES ASSUME Init PROVE IInv
  OBVIOUS
<1>1. descriptors = << >> /\ DOMAIN descriptors = {} /\ DOMAIN poll_descriptor_map = {}
  BY DEF Init
<1>2. TypeOK
  BY <1>1 DEF Init, TypeOK
<1>3. MapPointsIntoDescriptors
  BY <1>1 DEF MapPointsIntoDescriptors, ToSet
<1> QED BY <1>1, <1>2, <1>3 DEF Init, IInv, EntriesAreCurrent, DescriptorsDiffer, 
        ReferencesAreAlive, Reported, Alive

\* A new object takes a descriptor nobody has.
LEMMA CreatedProperties == 
    ASSUME IInv, NEW c \in Conns, NEW f \in Fds, c \notin Alive, f \notin Open
    PROVE  /\ Created(c, f) \in [Conns -> Fds \cup {NoFd}]
           /\ Created(c, f)[c] = f /\ f \notin DOMAIN poll_descriptor_map /\ c \notin Watched
           /\ \A a, b \in Conns : Created(c, f)[a] = Created(c, f)[b] /\ Created(c, f)[a] # NoFd => a = b
           /\ Structure(descriptors, poll_descriptor_map, Created(c, f))
           /\ \A e \in results : Created(c, f)[e.connection] # NoFd
<1>1. socket_descriptor \in [Conns -> Fds \cup {NoFd}] /\ Structure(descriptors, poll_descriptor_map, socket_descriptor)
  BY InvariantFacts
<1>2. f \notin DOMAIN poll_descriptor_map /\ c \notin Watched
  BY InvariantFacts
<1>3. \A a \in Conns : Created(c, f)[a] = IF a = c THEN f ELSE socket_descriptor[a]
  BY <1>1 DEF Created
<1>4. \A a \in Conns : a # c => socket_descriptor[a] # f
  BY FdsAssumption DEF Open, Alive
<1>5. Created(c, f) \in [Conns -> Fds \cup {NoFd}]
  BY <1>1 DEF Created
<1>6. \A a, b \in Conns : Created(c, f)[a] = Created(c, f)[b] /\ Created(c, f)[a] # NoFd => a = b
  BY <1>3, <1>4, InvariantFacts
<1>7. \A g \in DOMAIN poll_descriptor_map : poll_descriptor_map[g].socket # c
  BY <1>2 DEF Watched
<1>8. Structure(descriptors, poll_descriptor_map, Created(c, f))
  BY <1>1, <1>3, <1>7 DEF Structure
<1>9. \A e \in results : Created(c, f)[e.connection] # NoFd
  BY <1>3, FdsAssumption, InvariantFacts DEF Alive
<1> QED BY <1>2, <1>3, <1>5, <1>6, <1>8, <1>9

\* Every step keeps the invariant and is a step of WatchSet, or leaves what
\* WatchSet sees unchanged.
LEMMA NextStep == IInv /\ [Next]_vars => IInv' /\ [Abstract!Next]_(Abstract!vars)
<1> SUFFICES ASSUME IInv, [Next]_vars
             PROVE  IInv' /\ [Abstract!Next]_(Abstract!vars)
  OBVIOUS
<1> USE InvariantFacts
<1>t. /\ results \subseteq [connection : Conns, status : Statuses] 
      /\ \A e \in results : socket_descriptor[e.connection] # NoFd
      /\ \A c \in owned \cup Reported : c \in Conns /\ socket_descriptor[c] \in Fds
      /\ \A c \in Watched : c \in Conns /\ socket_descriptor[c] \in Fds
  BY DEF IInv, TypeOK, ReferencesAreAlive, Alive
<1>1. ASSUME NEW c \in Conns, NEW f \in Fds, NewSocket(c, f)
      PROVE  IInv' /\ [Abstract!Next]_(Abstract!vars)
  <2>1. /\ UNCHANGED <<descriptors, poll_descriptor_map, results>>
        /\ Settle(Created(c, f)) /\ c \notin Alive /\ f \notin Open
    BY <1>1 DEF NewSocket
  <2>2. Structure(descriptors', poll_descriptor_map', Created(c, f)) /\ Watched' = Watched
    BY <2>1, CreatedProperties, SameStructure
  <2>3. IInv'
    BY <2>1, <2>2, <1>t, CreatedProperties, SettleStep
  <2> QED BY <2>1, <2>2, <2>3 DEF Abstract!vars
<1>2. ASSUME NEW c \in Conns, NEW f \in Fds, AddNewSocket(c, f)
      PROVE  IInv' /\ [Abstract!Next]_(Abstract!vars)
  <2>1. add_socket(c, f) /\ Settle(Created(c, f)) /\ c \notin Alive /\ f \notin Open
    BY <1>2 DEF AddNewSocket
  <2>2. /\ Structure(descriptors', poll_descriptor_map', Created(c, f))
        /\ Watched' = Watched \cup {c} /\ results' = results /\ c \notin Watched
    BY <2>1, CreatedProperties, AddSocketStep
  <2>3. IInv'
    BY <2>1, <2>2, <1>t, CreatedProperties, SettleStep
  <2> QED BY <2>2, <2>3 DEF Abstract!Next, Abstract!Watch
<1>3. ASSUME NEW c \in Conns, AddSocket(c)
      PROVE  IInv' /\ [Abstract!Next]_(Abstract!vars)
  <2>1. add_socket(c, socket_descriptor[c]) /\ Settle(socket_descriptor) /\ c \in owned /\ c \notin Watched
    BY <1>3 DEF AddSocket
  <2>2. socket_descriptor[c] \notin DOMAIN poll_descriptor_map
    <3>1. \A f \in DOMAIN poll_descriptor_map : 
             poll_descriptor_map[f].socket \in Conns /\ socket_descriptor[poll_descriptor_map[f].socket] = f
      BY DEF Structure
    <3> QED BY <3>1, <2>1, <1>t, FdsAssumption DEF Watched
  <2>3. /\ Structure(descriptors', poll_descriptor_map', socket_descriptor)
        /\ Watched' = Watched \cup {c} /\ results' = results
    BY <1>t, <2>1, <2>2, AddSocketStep
  <2>4. IInv'
    BY <2>1, <2>3, <1>t, SettleStep
  <2> QED BY <2>1, <2>3, <2>4 DEF Abstract!Next, Abstract!Watch
<1>4. ASSUME NEW c \in Conns, RemoveSocket(c)
      PROVE  IInv' /\ [Abstract!Next]_(Abstract!vars)
  <2>1. remove_socket(c) /\ Settle(socket_descriptor) /\ c \in owned \cup Reported
    BY <1>4 DEF RemoveSocket
  <2>2. /\ Structure(descriptors', poll_descriptor_map', socket_descriptor)
        /\ Watched' = Watched \ {c} /\ results' = results
    BY <2>1, <1>t, RemoveSocketStep DEF IInv
  <2>3. IInv'
    BY <2>1, <2>2, <1>t, SettleStep
  <2>4. CASE c \in Watched
    BY <2>2, <2>3, <2>4 DEF Abstract!Next, Abstract!Unwatch
  <2>5. CASE c \notin Watched
    BY <2>2, <2>3, <2>5 DEF Abstract!vars
  <2> QED BY <2>4, <2>5
<1>5. ASSUME ClearSockets
      PROVE  IInv' /\ [Abstract!Next]_(Abstract!vars)
  <2>1. /\ descriptors' = << >> /\ poll_descriptor_map' = [f \in {} |-> NULL]
        /\ results' = results /\ Settle(socket_descriptor)
    BY <1>5 DEF ClearSockets, clear_sockets
  <2>2. DOMAIN descriptors' = {} /\ DOMAIN poll_descriptor_map' = {}
    BY <2>1
  <2>3. Structure(descriptors', poll_descriptor_map', socket_descriptor) /\ Watched' = {}
    BY <2>1, <2>2 DEF Structure, ToSet, Watched
  <2>4. IInv'
    BY <2>1, <2>3, <1>t, SettleStep
  <2> QED BY <2>1, <2>3, <2>4 DEF Abstract!Next, Abstract!UnwatchAll
<1>6. ASSUME Destruct
      PROVE  IInv' /\ [Abstract!Next]_(Abstract!vars)
  <2>1. /\ descriptors' = << >> /\ poll_descriptor_map' = [f \in {} |-> NULL]
        /\ results' = {} /\ Settle(socket_descriptor)
    BY <1>6 DEF Destruct, destruct
  <2>2. DOMAIN descriptors' = {} /\ DOMAIN poll_descriptor_map' = {}
    BY <2>1
  <2>3. Structure(descriptors', poll_descriptor_map', socket_descriptor) /\ Watched' = {}
    BY <2>1, <2>2 DEF Structure, ToSet, Watched
  <2>4. IInv'
    BY <2>1, <2>3, <1>t, SettleStep
  <2> QED BY <2>1, <2>3, <2>4 DEF Abstract!Next, Abstract!End
<1>7. ASSUME PollSockets
      PROVE  IInv' /\ [Abstract!Next]_(Abstract!vars)
  <2>1. PICK rev \in Polled : poll(rev)
    BY <1>7 DEF PollSockets
  <2>2. /\ results' = Found(rev) /\ UNCHANGED <<descriptors, poll_descriptor_map>>
        /\ Settle(socket_descriptor)
    BY <1>7, <2>1 DEF poll, PollSockets
  <2>3. /\ results' \subseteq [connection : Watched, status : Statuses]
        /\ \A e1, e2 \in results' : e1.connection = e2.connection => e1 = e2
    BY <2>2, FoundProperties
  <2>4. Structure(descriptors', poll_descriptor_map', socket_descriptor) /\ Watched' = Watched
    BY <2>2, SameStructure
  <2>5. IInv'
    BY <2>2, <2>3, <2>4, <1>t, SettleStep, FdsAssumption
  <2> QED BY <2>3, <2>4, <2>5 DEF Abstract!Next, Abstract!Report, Abstract!Statuses, Statuses
<1>8. ASSUME PollError
      PROVE  IInv' /\ [Abstract!Next]_(Abstract!vars)
  <2>1. results' = {} /\ UNCHANGED <<descriptors, poll_descriptor_map>> /\ Settle(socket_descriptor)
    BY <1>8 DEF PollError, poll_error
  <2>2. Structure(descriptors', poll_descriptor_map', socket_descriptor) /\ Watched' = Watched
    BY <2>1, SameStructure
  <2>3. IInv'
    BY <2>1, <2>2, SettleStep
  <2> QED BY <2>1, <2>2, <2>3 DEF Abstract!Next, Abstract!Report
<1>9. ASSUME Drop
      PROVE  IInv' /\ [Abstract!Next]_(Abstract!vars)
  <2>1. UNCHANGED <<descriptors, poll_descriptor_map, results>> /\ Settle(socket_descriptor)
    BY <1>9 DEF Drop
  <2>2. Structure(descriptors', poll_descriptor_map', socket_descriptor) /\ Watched' = Watched
    BY <2>1, SameStructure
  <2>3. IInv'
    BY <2>1, <2>2, <1>t, SettleStep
  <2> QED BY <2>1, <2>2, <2>3 DEF Abstract!vars
<1>10. CASE UNCHANGED vars
  <2>1. IInv'
    BY <1>10 DEF vars, IInv, TypeOK, MapPointsIntoDescriptors, EntriesAreCurrent,
                DescriptorsDiffer, ReferencesAreAlive, Alive, Reported
  <2> QED BY <1>10, <2>1 DEF vars, Abstract!vars, Watched
<1>11. CASE Next
  BY <1>1, <1>2, <1>3, <1>4, <1>5, <1>6, <1>7, <1>8, <1>9, <1>11 DEF Next
<1> QED BY <1>10, <1>11

-----------------------------------------------------------------------------
\* The vector, the map, the results and the objects always have the types the
\* module says: no index is negative, no entry holds anything but a socket.
THEOREM TypeCorrect == Spec => []TypeOK
<1>1. IInv => TypeOK
  BY DEF IInv
<1>2. IInv /\ [Next]_vars => IInv'
  BY NextStep
<1> QED BY <1>1, <1>2, InitInvariant, PTL DEF Spec

\* The map has exactly the descriptors of the vector and the position of each
\* after any sequence of add_socket, remove_socket and clear_sockets.
THEOREM MapAlwaysPoints == Spec => []MapPointsIntoDescriptors
<1>1. IInv => MapPointsIntoDescriptors
  BY DEF IInv
<1>2. IInv /\ [Next]_vars => IInv'
  BY NextStep
<1> QED BY <1>1, <1>2, InitInvariant, PTL DEF Spec

\* No entry is null, and none outlives the connection it was made for: a
\* descriptor number used again never leads to the connection that had it
\* before.
THEOREM EntriesAlwaysCurrent == Spec => []EntriesAreCurrent
<1>1. IInv => EntriesAreCurrent
  BY DEF IInv
<1>2. IInv /\ [Next]_vars => IInv'
  BY NextStep
<1> QED BY <1>1, <1>2, InitInvariant, PTL DEF Spec

\* poll() reports every watched connection that is ready, with the status of
\* its own flags, and no other.
THEOREM PollAlwaysExact == Spec => []PollIsExact
<1>1. ASSUME IInv PROVE PollIsExact
  <2> SUFFICES ASSUME NEW rev \in Polled, NEW c \in Watched
               PROVE  LET flags == rev[socket_descriptor[c]]
                      IN {e.status : e \in {e \in Found(rev) : e.connection = c}}
                            = IF Ready(flags) THEN {Status(flags)} ELSE {}
    BY DEF PollIsExact
  <2> DEFINE d == descriptors
             m == poll_descriptor_map
             g == socket_descriptor[c]
  <2>1. /\ Structure(d, m, socket_descriptor)
        /\ Inserted(rev) = {i \in 1 .. Len(d) : Ready(rev[d[i]])}
    BY <1>1, InvariantFacts, FoundProperties
  <2>2. PICK f \in DOMAIN m : m[f].socket = c /\ g = f
    BY <2>1 DEF Watched, Structure
  <2>3. PICK i \in 1 .. Len(d) : d[i] = g
    BY <2>1, <2>2, StructureFacts
  <2>4. \A j \in 1 .. Len(d) : m[d[j]].socket = c <=> j = i
    BY <2>1, <2>2, <2>3, StructureFacts DEF Structure
  <2>5. ASSUME NEW e \in Found(rev), e.connection = c
        PROVE  e.status = Status(rev[g]) /\ Ready(rev[g])
    BY <2>1, <2>3, <2>4, <2>5 DEF Found
  <2>6. ASSUME Ready(rev[g])
        PROVE  \E e \in Found(rev) : e.connection = c /\ e.status = Status(rev[g])
    <3>1. i \in Inserted(rev)
      BY <2>1, <2>3, <2>6
    <3>2. [connection |-> m[d[i]].socket, status |-> Status(rev[d[i]])] \in Found(rev)
      BY <3>1 DEF Found
    <3> QED BY <2>3, <2>4, <3>2
  <2> QED BY <2>5, <2>6
<1>2. IInv /\ [Next]_vars => IInv'
  BY NextStep
<1> QED BY <1>1, <1>2, InitInvariant, PTL DEF Spec

\* The service implements the abstract set of watched connections.
THEOREM ImplementsWatchSet == Spec => WatchSetSpec
<1>1. Init => Abstract!Init
  BY DEF Init, Abstract!Init, Watched
<1>2. IInv /\ [Next]_vars => IInv' /\ [Abstract!Next]_(Abstract!vars)
  BY NextStep
<1> QED BY <1>1, <1>2, InitInvariant, PTL DEF Spec, WatchSetSpec, Abstract!Spec
=============================================================================
