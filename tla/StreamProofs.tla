---------------------------- MODULE StreamProofs ----------------------------
(***************************************************************************)
(* The bytes of a connection keep their order and their boundaries, and    *)
(* implement the queue of messages, for any types, sizes and capacity.     *)
(***************************************************************************)
EXTENDS Stream, SequenceTheorems, TLAPS

Byte == [msg : Messages, at : Nat]
Sendings == Byte \cup {NoSend, GaveUp}
Readings == [part : {"none", "id", "body"}, id : Types \cup {Nothing}, got : Seq(Byte)]

\* b is the d-th byte after a in the stream of one end: of the same message,
\* or of a later one, and the first of it when a message ends just before.
Apart(a, b, d) == 
    IF a.at + d <= Size[a.msg.type] 
    THEN b.msg = a.msg /\ b.at = a.at + d
    ELSE a.msg.n < b.msg.n /\ (a.at + d = Size[a.msg.type] + 1 => b.at = 0)

\* d bytes after a the message of a is complete.
WholeAfter(a, d) == a.at + d > Size[a.msg.type]

\* The message m was sent after the message l, if there is one.
Later(l, m) == l # Nothing => l.n < m.n

\* The bytes of a body of m, from its beginning.
IsBody(m, bytes) == \A i \in 1 .. Len(bytes) : bytes[i] = [msg |-> m, at |-> i]

\* The bytes w follow the byte prev.
Follow(prev, w) == \A i \in 1 .. Len(w) : Apart(prev, w[i], i)

\* One direction of the connection: the bytes w on the way, whether both
\* sockets are connected, the sending s of one end, which began made messages,
\* the reading r of the other and the message l that it received last.

\* The bytes on the way.
WireInOrder(w, made_, l) == 
    /\ \A i \in 1 .. Len(w) : 
          /\ w[i].at <= Size[w[i].msg.type] 
          /\ w[i].msg.n <= made_ /\ Later(l, w[i].msg)
    /\ \A i, j \in 1 .. Len(w) : i < j => Apart(w[i], w[j], j - i)

\* What the sender sends next comes next after the bytes on the way.
SenderContinues(w, live, s, made_, l) == 
    /\ s \in Byte => s.msg.n <= made_ /\ s.at <= Size[s.msg.type]
    /\ l # Nothing => l.n <= made_
    /\ live /\ s \in Byte => 
          /\ \A i \in 1 .. Len(w) : Apart(w[i], s, Len(w) + 1 - i)
          /\ Later(l, s.msg)
    /\ live /\ s = NoSend => \A i \in 1 .. Len(w) : WholeAfter(w[i], Len(w) + 1 - i)

\* The reader is in the body of m: the bytes on the way, and then the sender,
\* continue from the last byte it has read.
Reads(w, live, s, made_, r, l, m) == 
    LET last == [msg |-> m, at |-> Len(r.got)]
    IN /\ m.type = r.id /\ m.n <= made_ /\ Later(l, m)
       /\ Len(r.got) < Size[m.type]
       /\ IsBody(m, r.got) /\ Follow(last, w)
       /\ live /\ s \in Byte => Apart(last, s, Len(w) + 1)
       /\ live /\ s = NoSend => WholeAfter(last, Len(w) + 1)

ReaderContinues(w, live, s, made_, r, l) == 
    IF r.part = "body" THEN \E m \in Messages : Reads(w, live, s, made_, r, l, m)
    ELSE /\ w # <<>> => w[1].at = 0
         /\ live /\ s \in Byte /\ w = <<>> => s.at = 0

Flows(w, live, s, made_, r, l) == 
    /\ w \in Seq(Byte) /\ s \in Sendings /\ made_ \in Nat
    /\ r \in Readings /\ l \in Messages \cup {Nothing}
    /\ WireInOrder(w, made_, l)
    /\ SenderContinues(w, live, s, made_, l)
    /\ ReaderContinues(w, live, s, made_, r, l)

Flow(e) == Flows(wire[e], sock[e] = "estab", sending[e], made[e], reading[Peer(e)], received[Peer(e)])

\* The ends lose the connection together.
EndTogether == \A e, p \in Ends : sock[e] = "estab" => sock[p] = "estab"

Shape == 
    /\ wire \in [Ends -> Seq(Byte)] /\ \A e \in Ends : Len(wire[e]) <= Capacity
    /\ sock \in [Ends -> SocketStates]
    /\ sending \in [Ends -> Sendings] /\ reading \in [Ends -> Readings]
    /\ received \in [Ends -> Messages \cup {Nothing}]
    /\ made \in [Ends -> 0 .. MaxMessages]
    /\ killed \subseteq Ends
    /\ faults \in 0 .. MaxFaults

IInv == 
    /\ Shape
    /\ EndTogether
    /\ \A e \in Ends : Flow(e)

-----------------------------------------------------------------------------
(* Lemmas about the operators.                                              *)

\* Each end is the peer of the other.
LEMMA Peers == 
    /\ \A e \in Ends : Peer(e) \in Ends /\ Peer(e) # e /\ Peer(Peer(e)) = e
    /\ \A e, p \in Ends : p # e => p = Peer(e)
<1>1. PICK a, b \in Ends : a # b /\ Ends = {a, b}
  BY TwoEnds
<1>2. Peer(a) = b /\ Peer(b) = a
  BY <1>1 DEF Peer
<1> QED BY <1>1, <1>2

\* The smaller one of two numbers.
LEMMA MinOfTwo == 
    ASSUME NEW a \in Int, NEW b \in Int
    PROVE  Min({a, b}) \in Int /\ Min({a, b}) <= a /\ Min({a, b}) <= b
<1>1. \E x \in {a, b} : \A y \in {a, b} : x <= y
  BY a <= b \/ b <= a
<1>2. Min({a, b}) \in {a, b} /\ \A y \in {a, b} : Min({a, b}) <= y
  BY <1>1 DEF Min
<1> QED BY <1>2

\* A sending that is neither finished nor given up is a message of the
\* program and its next byte; sizes are positive numbers.
LEMMA Data == 
    /\ NoSend \notin Byte /\ GaveUp \notin Byte /\ NoSend # GaveUp
    /\ Nothing \notin Messages
    /\ \A m \in Messages : m.type \in Types /\ m.n \in Nat /\ m.n >= 1
    /\ \A b \in Byte : b.msg \in Messages /\ b.at \in Nat
    /\ \A t \in Types : Size[t] \in Nat /\ Size[t] >= 1
    /\ Capacity \in Nat
<1>1. Nothing \notin Messages
  BY NothingAssumption, BoundsAssumption DEF Messages
<1>2. NoSend.msg = Nothing /\ NoSend.at = 0 /\ GaveUp.msg = Nothing /\ GaveUp.at = 1
  BY DEF NoSend, GaveUp
<1>3. \A b \in Byte : b.msg \in Messages /\ b.at \in Nat
  BY DEF Byte
<1>4. NoSend \notin Byte /\ GaveUp \notin Byte /\ NoSend # GaveUp
  BY <1>1, <1>2, <1>3
<1>5. \A m \in Messages : m.type \in Types /\ m.n \in Nat /\ m.n >= 1
  BY BoundsAssumption DEF Messages
<1> QED BY <1>1, <1>3, <1>4, <1>5, SizesArePositive, CapacityAssumption

\* The beginning of a sequence.
LEMMA Beginning == 
    ASSUME NEW S, NEW w \in Seq(S), NEW k \in 0 .. Len(w)
    PROVE  /\ SubSeq(w, 1, k) \in Seq(S) /\ Len(SubSeq(w, 1, k)) = k
           /\ \A i \in 1 .. k : SubSeq(w, 1, k)[i] = w[i]
<1>1. \A i \in 1 .. k : w[i] \in S
  BY ElementOfSeq, LenProperties
<1>2. k \in Int /\ (k < 1 => k = 0)
  BY LenProperties
<1> QED BY <1>1, <1>2, SubSeqProperties

\* The rest of a sequence.
LEMMA Rest == 
    ASSUME NEW S, NEW w \in Seq(S), NEW k \in 0 .. Len(w)
    PROVE  /\ SubSeq(w, k + 1, Len(w)) \in Seq(S) 
           /\ Len(SubSeq(w, k + 1, Len(w))) = Len(w) - k
           /\ \A i \in 1 .. Len(w) - k : SubSeq(w, k + 1, Len(w))[i] = w[k + i]
<1>0. Len(w) \in Nat /\ k \in Nat /\ k <= Len(w)
  BY LenProperties
<1>1. \A i \in k + 1 .. Len(w) : w[i] \in S
  BY <1>0, ElementOfSeq
<1>2. /\ SubSeq(w, k + 1, Len(w)) \in Seq(S)
      /\ Len(SubSeq(w, k + 1, Len(w))) = IF k + 1 <= Len(w) THEN Len(w) - (k + 1) + 1 ELSE 0
      /\ \A i \in 1 .. Len(w) - (k + 1) + 1 : SubSeq(w, k + 1, Len(w))[i] = w[k + 1 + i - 1]
  BY <1>0, <1>1, SubSeqProperties
<1> QED BY <1>0, <1>2

\* A part of the stream of an end is a sequence of bytes of one message.
LEMMA BytesOfMessage == 
    ASSUME NEW m \in Messages, NEW first \in Nat, NEW count \in Nat
    PROVE  /\ Bytes(m, first, count) \in Seq(Byte) /\ Len(Bytes(m, first, count)) = count
           /\ \A i \in 1 .. count : Bytes(m, first, count)[i] = [msg |-> m, at |-> first + i - 1]
<1>1. \A i \in 1 .. count : [msg |-> m, at |-> first + i - 1] \in Byte
  BY DEF Byte
<1>2. Bytes(m, first, count) \in [1 .. count -> Byte]
  BY <1>1 DEF Bytes
<1>3. Bytes(m, first, count) \in Seq(Byte) /\ Len(Bytes(m, first, count)) = count
  BY <1>2
<1> QED BY <1>3 DEF Bytes

\* Counting on within a message.
LEMMA ApartOn == 
    ASSUME NEW a \in Byte, NEW b \in Byte, NEW d \in Nat \ {0}, NEW k \in Nat, NEW c \in Byte,
           Apart(a, b, d), a.at <= Size[a.msg.type],
           c.msg = b.msg, c.at = b.at + k, c.at <= Size[b.msg.type]
    PROVE  Apart(a, c, d + k)
<1>1. a.at \in Nat /\ b.at \in Nat /\ Size[a.msg.type] \in Nat /\ Size[b.msg.type] \in Nat
  BY Data
<1>2. CASE a.at + d <= Size[a.msg.type]
  BY <1>1, <1>2 DEF Apart
<1>3. CASE a.at + d > Size[a.msg.type]
  BY <1>1, <1>3 DEF Apart
<1> QED BY <1>1, <1>2, <1>3

\* The first byte of a later message after a whole message.
LEMMA ApartFirst == 
    ASSUME NEW a \in Byte, NEW b \in Byte, NEW d \in Nat, 
           WholeAfter(a, d), a.msg.n < b.msg.n, b.at = 0
    PROVE  Apart(a, b, d)
<1>1. a.at \in Nat /\ Size[a.msg.type] \in Nat
  BY Data
<1> QED BY <1>1 DEF WholeAfter, Apart

\* A byte is made of its message and its place in it.
LEMMA ByteIs == 
    ASSUME NEW b \in Byte
    PROVE  b = [msg |-> b.msg, at |-> b.at]
<1> QED BY DEF Byte

\* Counting from a byte that comes later in the same message.
LEMMA ApartShift == 
    ASSUME NEW a \in Byte, NEW a2 \in Byte, NEW b, NEW c \in Nat, NEW d \in Nat,
           a2.msg = a.msg, a2.at = a.at + c
    PROVE  /\ Apart(a, b, c + d) => Apart(a2, b, d)
           /\ WholeAfter(a, c + d) => WholeAfter(a2, d)
<1>1. a.at \in Nat /\ Size[a.msg.type] \in Nat /\ a.msg \in Messages
  BY Data
<1>2. a.at + (c + d) = a2.at + d
  BY <1>1
<1> QED BY <1>1, <1>2 DEF Apart, WholeAfter

\* What comes after the end of a message belongs to a later one.
LEMMA ApartNext == 
    ASSUME NEW a \in Byte, NEW b, NEW c \in Nat, NEW d \in Nat,
           a.at + c = Size[a.msg.type], d > c, Apart(a, b, d)
    PROVE  a.msg.n < b.msg.n /\ (d = c + 1 => b.at = 0)
<1>1. a.at \in Nat
  BY Data
<1>2. a.at + d > a.at + c /\ (d = c + 1 => a.at + d = (a.at + c) + 1)
  BY <1>1
<1>3. ~ (a.at + d <= Size[a.msg.type])
  BY <1>1, <1>2
<1> QED BY <1>1, <1>2, <1>3 DEF Apart

-----------------------------------------------------------------------------
(* What each operation does to one direction of the connection.             *)

\* A message is begun.
LEMMA FlowBegin == 
    ASSUME NEW w, NEW live \in BOOLEAN, NEW k, NEW r, NEW l, NEW s2 \in Byte,
           Flows(w, live, NoSend, k, r, l), s2.msg.n = k + 1, s2.at = 0
    PROVE  Flows(w, live, s2, k + 1, r, l)
<1>0. /\ w \in Seq(Byte) /\ k \in Nat /\ r \in Readings /\ l \in Messages \cup {Nothing}
      /\ WireInOrder(w, k, l)
      /\ SenderContinues(w, live, NoSend, k, l)
      /\ ReaderContinues(w, live, NoSend, k, r, l)
  BY DEF Flows
<1>1. Len(w) \in Nat /\ \A i \in 1 .. Len(w) : w[i] \in Byte
  BY <1>0, LenProperties, ElementOfSeq
<1>2. /\ s2.msg \in Messages /\ Size[s2.msg.type] \in Nat /\ s2 # NoSend
      /\ \A m \in Messages : m.n \in Nat
      /\ \A i \in 1 .. Len(w) : w[i].msg \in Messages /\ w[i].at \in Nat /\ Size[w[i].msg.type] \in Nat
      /\ r.got \in Seq(Byte) /\ Len(r.got) \in Nat
  BY <1>0, <1>1, Data, LenProperties DEF Readings
<1>3. WireInOrder(w, k + 1, l)
  BY <1>0, <1>1, <1>2 DEF WireInOrder
<1>4. SenderContinues(w, live, s2, k + 1, l)
  <2>1. l # Nothing => l.n <= k /\ l.n \in Nat
    BY <1>0, <1>2 DEF SenderContinues
  <2>2. ASSUME live, NEW i \in 1 .. Len(w)
        PROVE  Apart(w[i], s2, Len(w) + 1 - i)
    <3>1. WholeAfter(w[i], Len(w) + 1 - i) /\ w[i].msg.n <= k
      BY <1>0, <2>2 DEF SenderContinues, WireInOrder
    <3>2. w[i].msg.n < s2.msg.n
      BY <1>0, <1>2, <3>1
    <3> QED BY <1>1, <3>1, <3>2, ApartFirst
  <2> QED BY <1>0, <1>2, <2>1, <2>2 DEF SenderContinues, Later
<1>5. ReaderContinues(w, live, s2, k + 1, r, l)
  <2>1. CASE r.part = "body"
    <3>1. PICK m \in Messages : Reads(w, live, NoSend, k, r, l, m)
      BY <1>0, <2>1 DEF ReaderContinues
    <3> DEFINE last == [msg |-> m, at |-> Len(r.got)]
    <3>2. m.n <= k /\ m.n \in Nat /\ m.n <= k + 1 /\ Size[m.type] \in Nat
      BY <1>0, <1>2, <3>1, Data DEF Reads, IsBody, Follow
    <3>3. live => WholeAfter(last, Len(w) + 1)
      BY <3>1 DEF Reads, IsBody, Follow
    <3>4. last \in Byte /\ last.msg = m
      BY <1>2 DEF Byte
    <3>5. m.n < s2.msg.n
      BY <1>0, <1>2, <3>2
    <3> HIDE DEF last
    <3>6. ASSUME live
          PROVE  Apart(last, s2, Len(w) + 1)
      BY <1>1, <3>3, <3>4, <3>5, <3>6, ApartFirst
    <3>7. Reads(w, live, s2, k + 1, r, l, m)
      BY <1>2, <3>1, <3>2, <3>6 DEF Reads, IsBody, Follow, last
    <3> QED BY <2>1, <3>7 DEF ReaderContinues
  <2>2. CASE r.part # "body"
    BY <1>0, <2>2 DEF ReaderContinues
  <2> QED BY <2>1, <2>2
<1> QED BY <1>0, <1>3, <1>4, <1>5 DEF Flows, Sendings

\* Bytes of the message are sent, with the last one the sending ends.
LEMMA FlowSend == 
    ASSUME NEW w, NEW s \in Byte, NEW k, NEW r, NEW l, NEW count \in Nat \ {0}, NEW s2 \in Sendings,
           Flows(w, TRUE, s, k, r, l), s.at + count <= Size[s.msg.type] + 1,
           IF s.at + count > Size[s.msg.type] THEN s2 = NoSend
           ELSE s2 \in Byte /\ s2.msg = s.msg /\ s2.at = s.at + count
    PROVE  Flows(w \o Bytes(s.msg, s.at, count), TRUE, s2, k, r, l)
<1> DEFINE c == Bytes(s.msg, s.at, count)
           v == w \o c
<1>0. /\ w \in Seq(Byte) /\ k \in Nat /\ r \in Readings /\ l \in Messages \cup {Nothing}
      /\ WireInOrder(w, k, l)
      /\ SenderContinues(w, TRUE, s, k, l)
      /\ ReaderContinues(w, TRUE, s, k, r, l)
  BY DEF Flows
<1>1. /\ Len(w) \in Nat /\ \A i \in 1 .. Len(w) : w[i] \in Byte
      /\ s.msg \in Messages /\ s.at \in Nat /\ s # NoSend
      /\ Size[s.msg.type] \in Nat /\ s.msg.n \in Nat
      /\ s.msg.n <= k /\ Later(l, s.msg)
      /\ \A i \in 1 .. Len(w) : w[i].msg \in Messages /\ w[i].at \in Nat /\ Size[w[i].msg.type] \in Nat
      /\ r.got \in Seq(Byte) /\ Len(r.got) \in Nat
  BY <1>0, LenProperties, ElementOfSeq, Data DEF SenderContinues, Readings
<1>2. /\ c \in Seq(Byte) /\ Len(c) = count
      /\ \A i \in 1 .. count : c[i] = [msg |-> s.msg, at |-> s.at + i - 1]
  BY <1>1, BytesOfMessage
<1>3. /\ v \in Seq(Byte) /\ Len(v) = Len(w) + count
      /\ \A i \in 1 .. Len(w) : v[i] = w[i]
      /\ \A i \in Len(w) + 1 .. Len(w) + count : v[i] = c[i - Len(w)]
  <2>1. /\ v \in Seq(Byte) /\ Len(v) = Len(w) + Len(c)
        /\ \A i \in 1 .. Len(w) + Len(c) : v[i] = IF i <= Len(w) THEN w[i] ELSE c[i - Len(w)]
    BY <1>0, <1>2, ConcatProperties
  <2> QED BY <1>1, <1>2, <2>1
<1> HIDE DEF c, v
<1>n. /\ Len(w) \in Nat /\ count \in Nat /\ count >= 1 /\ Len(v) \in Nat /\ Len(v) = Len(w) + count
      /\ s.at \in Nat /\ Size[s.msg.type] \in Nat /\ s.at + count <= Size[s.msg.type] + 1
  BY <1>1, <1>3
<1>4. ASSUME NEW i \in Len(w) + 1 .. Len(w) + count
      PROVE  /\ v[i] \in Byte /\ v[i].msg = s.msg /\ v[i].at = s.at + (i - Len(w) - 1)
             /\ i - Len(w) - 1 \in Nat /\ v[i].at <= Size[s.msg.type]
  <2>1. i - Len(w) \in 1 .. count
    BY <1>1
  <2>2. v[i] = [msg |-> s.msg, at |-> s.at + (i - Len(w)) - 1]
    BY <1>2, <1>3, <2>1
  <2>3. v[i].msg = s.msg /\ v[i].at = s.at + (i - Len(w)) - 1
    BY <2>2
  <2>4. v[i] \in Byte
    BY <1>3, <1>n, ElementOfSeq
  <2>5. i \in Int /\ i >= Len(w) + 1 /\ i <= Len(w) + count
    BY <1>n
  <2>6. i - Len(w) - 1 \in Nat /\ v[i].at <= Size[s.msg.type] /\ v[i].at = s.at + (i - Len(w) - 1)
    BY <1>n, <2>3, <2>5
  <2> QED BY <2>3, <2>4, <2>6
\* What came before the sender's next byte comes before all of them.
<1>5. ASSUME NEW a \in Byte, NEW d \in Nat \ {0}, Apart(a, s, d), a.at <= Size[a.msg.type]
      PROVE  /\ \A i \in Len(w) + 1 .. Len(w) + count : Apart(a, v[i], d + (i - Len(w) - 1))
             /\ s2 \in Byte => Apart(a, s2, d + count)
             /\ s2 = NoSend => WholeAfter(a, d + count)
  <2>1. ASSUME NEW i \in Len(w) + 1 .. Len(w) + count
        PROVE  Apart(a, v[i], d + (i - Len(w) - 1))
    BY <1>4, <1>5, <1>1, <2>1, ApartOn
  <2>2. s2 \in Byte => s2.msg = s.msg /\ s2.at = s.at + count /\ s2.at <= Size[s.msg.type]
    BY Data, <1>1
  <2>3. s2 \in Byte => Apart(a, s2, d + count)
    BY <1>5, <2>2, ApartOn
  <2>4. s2 = NoSend => WholeAfter(a, d + count)
    <3>1. s2 = NoSend => s.at + count > Size[s.msg.type]
      BY Data
    <3>2. a.at \in Nat /\ Size[a.msg.type] \in Nat
      BY Data
    <3>3. a.at + d <= Size[a.msg.type] => s.msg = a.msg /\ s.at = a.at + d
      BY <1>5 DEF Apart
    <3>4. d \in Nat
      OBVIOUS
    <3>5. CASE a.at + d <= Size[a.msg.type]
      BY <1>n, <3>1, <3>2, <3>3, <3>4, <3>5 DEF WholeAfter
    <3>6. CASE ~ (a.at + d <= Size[a.msg.type])
      BY <1>n, <3>2, <3>4, <3>6 DEF WholeAfter
    <3> QED BY <3>5, <3>6
  <2> QED BY <2>1, <2>3, <2>4
<1>6. WireInOrder(v, k, l)
  <2>1. ASSUME NEW i \in 1 .. Len(v)
        PROVE  v[i].at <= Size[v[i].msg.type] /\ v[i].msg.n <= k /\ Later(l, v[i].msg)
    <3>1. CASE i <= Len(w)
      <4>1. i \in 1 .. Len(w) /\ v[i] = w[i]
        BY <1>3, <1>n, <3>1
      <4> QED BY <1>0, <4>1 DEF WireInOrder
    <3>2. CASE i > Len(w)
      <4>1. i \in Len(w) + 1 .. Len(w) + count
        BY <1>n, <3>2
      <4>2. v[i].msg = s.msg /\ v[i].at <= Size[s.msg.type]
        BY <1>4, <4>1
      <4> QED BY <1>1, <4>2
    <3>3. i <= Len(w) \/ i > Len(w)
      BY <1>n
    <3> QED BY <3>1, <3>2, <3>3
  <2>2. ASSUME NEW i \in 1 .. Len(v), NEW j \in 1 .. Len(v), i < j
        PROVE  Apart(v[i], v[j], j - i)
    <3>1. CASE j <= Len(w)
      <4>1. i \in 1 .. Len(w) /\ j \in 1 .. Len(w)
        BY <1>1, <1>3, <2>2, <3>1
      <4>2. v[i] = w[i] /\ v[j] = w[j]
        BY <1>3, <4>1
      <4>3. Apart(w[i], w[j], j - i)
        BY <1>0, <2>2, <4>1 DEF WireInOrder
      <4> QED BY <4>2, <4>3
    <3>2. CASE i <= Len(w) /\ j > Len(w)
      <4>0. i \in 1 .. Len(w)
        BY <1>n, <3>2
      <4>1. Apart(w[i], s, Len(w) + 1 - i) /\ w[i].at <= Size[w[i].msg.type] /\ v[i] = w[i]
        BY <1>0, <1>3, <4>0 DEF SenderContinues, WireInOrder
      <4>2. Len(w) + 1 - i \in Nat \ {0} /\ j \in Len(w) + 1 .. Len(w) + count
            /\ Len(w) + 1 - i + (j - Len(w) - 1) = j - i
        BY <1>n, <3>2
      <4>3. Apart(w[i], v[j], Len(w) + 1 - i + (j - Len(w) - 1))
        <5>1. w[i] \in Byte
          BY <1>1, <1>n, <3>2
        <5> QED BY <1>5, <4>1, <4>2, <5>1
      <4> QED BY <4>1, <4>2, <4>3
    <3>3. CASE i > Len(w)
      <4>1. i \in Len(w) + 1 .. Len(w) + count /\ j \in Len(w) + 1 .. Len(w) + count
        BY <1>1, <1>3, <2>2, <3>3
      <4>2. /\ v[i].msg = s.msg /\ v[i].at = s.at + (i - Len(w) - 1)
            /\ v[j].msg = s.msg /\ v[j].at = s.at + (j - Len(w) - 1) /\ v[j].at <= Size[s.msg.type]
        BY <1>4, <4>1
      <4>3. v[j].at = v[i].at + (j - i)
        BY <1>1, <4>1, <4>2
      <4> QED BY <4>2, <4>3 DEF Apart
    <3> QED BY <1>1, <1>3, <3>1, <3>2, <3>3
  <2> QED BY <2>1, <2>2 DEF WireInOrder
<1>7. SenderContinues(v, TRUE, s2, k, l)
  <2>1. s2 \in Byte => s2.msg.n <= k /\ s2.at <= Size[s2.msg.type] /\ Later(l, s2.msg)
    BY <1>1, Data
  <2>2. ASSUME NEW i \in 1 .. Len(v)
        PROVE  /\ s2 \in Byte => Apart(v[i], s2, Len(v) + 1 - i)
               /\ s2 = NoSend => WholeAfter(v[i], Len(v) + 1 - i)
    <3>1. CASE i <= Len(w)
      <4>1. Apart(w[i], s, Len(w) + 1 - i) /\ w[i].at <= Size[w[i].msg.type] /\ v[i] = w[i]
        BY <1>0, <1>1, <1>3, <3>1 DEF SenderContinues, WireInOrder
      <4>2. Len(w) + 1 - i \in Nat \ {0} /\ Len(w) + 1 - i + count = Len(v) + 1 - i
        BY <1>1, <1>3, <3>1
      <4>3. w[i] \in Byte
        BY <1>1, <3>1
      <4> QED BY <1>5, <4>1, <4>2, <4>3
    <3>2. CASE i > Len(w)
      <4>0. i \in Len(w) + 1 .. Len(w) + count
        BY <1>1, <1>3, <3>2
      <4>1. /\ v[i].msg = s.msg /\ v[i].at = s.at + (i - Len(w) - 1)
            /\ Len(v) = Len(w) + count
        BY <1>3, <1>4, <4>0
      <4>2. v[i].at + (Len(v) + 1 - i) = s.at + count
        BY <1>n, <4>0, <4>1
      <4>3. s2 \in Byte => s2.msg = s.msg /\ s2.at = s.at + count /\ s.at + count <= Size[s.msg.type]
        BY <1>1, Data
      <4>4. s2 = NoSend => s.at + count > Size[s.msg.type]
        BY Data
      <4> QED BY <4>1, <4>2, <4>3, <4>4 DEF Apart, WholeAfter
    <3> QED BY <1>1, <1>3, <3>1, <3>2
  <2>3. l # Nothing => l.n <= k
    BY <1>0 DEF SenderContinues
  <2> QED BY <2>1, <2>2, <2>3 DEF SenderContinues
<1>8. ReaderContinues(v, TRUE, s2, k, r, l)
  <2>1. CASE r.part = "body"
    <3>1. PICK m \in Messages : Reads(w, TRUE, s, k, r, l, m)
      BY <1>0, <2>1 DEF ReaderContinues
    <3> DEFINE last == [msg |-> m, at |-> Len(r.got)]
    <3>2. last \in Byte /\ last.msg = m /\ last.at <= Size[m.type]
      BY <1>1, <3>1, Data DEF Reads, IsBody, Follow, Byte
    <3>3. Apart(last, s, Len(w) + 1) /\ \A i \in 1 .. Len(w) : Apart(last, w[i], i)
      BY <3>1 DEF Reads, IsBody, Follow
    <3> HIDE DEF last
    <3>4. \A i \in 1 .. Len(v) : Apart(last, v[i], i)
      <4>1. ASSUME NEW i \in 1 .. Len(v)
            PROVE  Apart(last, v[i], i)
        <5>1. CASE i <= Len(w)
          BY <1>1, <1>3, <3>3, <5>1
        <5>2. CASE i > Len(w)
          <6>1. i \in Len(w) + 1 .. Len(w) + count /\ Len(w) + 1 + (i - Len(w) - 1) = i
                /\ Len(w) + 1 \in Nat \ {0}
            BY <1>1, <1>3, <5>2
          <6>2. Apart(last, v[i], Len(w) + 1 + (i - Len(w) - 1))
            BY <1>5, <3>2, <3>3, <6>1
          <6> QED BY <6>1, <6>2
        <5> QED BY <1>1, <1>3, <5>1, <5>2
      <4> QED BY <4>1
    <3>5. /\ s2 \in Byte => Apart(last, s2, Len(v) + 1)
          /\ s2 = NoSend => WholeAfter(last, Len(v) + 1)
      <4>1. Len(w) + 1 + count = Len(v) + 1 /\ Len(w) + 1 \in Nat \ {0}
        BY <1>1, <1>3
      <4> QED BY <1>5, <3>2, <3>3, <4>1
    <3>6. Reads(v, TRUE, s2, k, r, l, m)
      BY <3>1, <3>4, <3>5 DEF Reads, IsBody, Follow, last
    <3> QED BY <2>1, <3>6 DEF ReaderContinues
  <2>2. CASE r.part # "body"
    <3>1. v[1].at = 0
      <4>1. CASE w = <<>>
        <5>1. Len(w) = 0 /\ s.at = 0
          BY <1>0, <2>2, <4>1 DEF ReaderContinues
        <5>2. 1 \in Len(w) + 1 .. Len(w) + count
          BY <5>1
        <5> QED BY <1>4, <5>1, <5>2
      <4>2. CASE w # <<>>
        <5>1. w[1].at = 0 /\ Len(w) >= 1
          BY <1>0, <1>1, <2>2, <4>2, EmptySeq DEF ReaderContinues
        <5> QED BY <1>1, <1>3, <5>1
      <4> QED BY <4>1, <4>2
    <3>2. v # <<>>
      BY <1>1, <1>3, EmptySeq
    <3> QED BY <2>2, <3>1, <3>2 DEF ReaderContinues
  <2> QED BY <2>1, <2>2
<1> QED BY <1>0, <1>3, <1>6, <1>7, <1>8 DEF Flows, c, v

\* The connection ends for this direction, and a beginning of the bytes on the
\* way is left: nothing is sent any more.
LEMMA FlowEnd == 
    ASSUME NEW w, NEW live, NEW s, NEW s2 \in Sendings, NEW k, NEW r, NEW l, NEW n \in 0 .. Len(w),
           Flows(w, live, s, k, r, l),
           s2 \in Byte => s2.msg.n <= k /\ s2.at <= Size[s2.msg.type]
    PROVE  Flows(SubSeq(w, 1, n), FALSE, s2, k, r, l)
<1> DEFINE v == SubSeq(w, 1, n)
<1>0. /\ w \in Seq(Byte) /\ k \in Nat /\ r \in Readings /\ l \in Messages \cup {Nothing}
      /\ WireInOrder(w, k, l)
      /\ SenderContinues(w, live, s, k, l)
      /\ ReaderContinues(w, live, s, k, r, l)
  BY DEF Flows
<1>1. v \in Seq(Byte) /\ Len(v) = n /\ \A i \in 1 .. n : v[i] = w[i]
  BY <1>0, Beginning
<1>2. Len(w) \in Nat /\ n \in Nat /\ n <= Len(w) /\ \A i \in 1 .. n : i \in 1 .. Len(w)
  BY <1>0, LenProperties
<1> HIDE DEF v
<1>3. WireInOrder(v, k, l)
  <2>1. ASSUME NEW i \in 1 .. n
        PROVE  v[i].at <= Size[v[i].msg.type] /\ v[i].msg.n <= k /\ Later(l, v[i].msg)
    BY <1>0, <1>1, <1>2 DEF WireInOrder
  <2>2. ASSUME NEW i \in 1 .. n, NEW j \in 1 .. n, i < j
        PROVE  Apart(v[i], v[j], j - i)
    <3>1. v[i] = w[i] /\ v[j] = w[j] /\ i \in 1 .. Len(w) /\ j \in 1 .. Len(w)
      BY <1>1, <1>2
    <3> QED BY <1>0, <2>2, <3>1 DEF WireInOrder
  <2> QED BY <1>1, <2>1, <2>2 DEF WireInOrder
<1>4. SenderContinues(v, FALSE, s2, k, l)
  BY <1>0 DEF SenderContinues
<1>5. ReaderContinues(v, FALSE, s2, k, r, l)
  <2>1. CASE r.part = "body"
    <3>1. PICK m \in Messages : Reads(w, live, s, k, r, l, m)
      BY <1>0, <2>1 DEF ReaderContinues
    <3>2. Reads(v, FALSE, s2, k, r, l, m)
      BY <1>1, <1>2, <3>1 DEF Reads, IsBody, Follow
    <3> QED BY <2>1, <3>2 DEF ReaderContinues
  <2>2. CASE r.part # "body"
    <3>1. v # <<>> => n >= 1
      BY <1>1, <1>2, EmptySeq
    <3>2. n >= 1 => w # <<>> /\ v[1] = w[1]
      BY <1>0, <1>1, <1>2, EmptySeq
    <3> QED BY <1>0, <2>2, <3>1, <3>2 DEF ReaderContinues
  <2> QED BY <2>1, <2>2
<1> QED BY <1>0, <1>1, <1>3, <1>4, <1>5 DEF Flows, v

\* Nothing of this direction is left.
LEMMA FlowNothingLeft == 
    ASSUME NEW w, NEW live, NEW s, NEW s2 \in Sendings, NEW k, NEW r, NEW l,
           Flows(w, live, s, k, r, l),
           s2 \in Byte => s2.msg.n <= k /\ s2.at <= Size[s2.msg.type]
    PROVE  Flows(<<>>, FALSE, s2, k, r, l)
<1>1. w \in Seq(Byte) /\ 0 \in 0 .. Len(w)
  BY LenProperties DEF Flows
<1>2. SubSeq(w, 1, 0) = <<>>
  BY SubSeqEmpty
<1> QED BY <1>1, <1>2, FlowEnd

\* The sender gives the rest of its message up.
LEMMA FlowGiveUp == 
    ASSUME NEW w, NEW live, NEW s, NEW k, NEW r, NEW l, Flows(w, live, s, k, r, l)
    PROVE  Flows(w, live, GaveUp, k, r, l)
<1>0. /\ w \in Seq(Byte) /\ k \in Nat /\ r \in Readings /\ l \in Messages \cup {Nothing}
      /\ WireInOrder(w, k, l)
      /\ SenderContinues(w, live, s, k, l)
      /\ ReaderContinues(w, live, s, k, r, l)
  BY DEF Flows
<1>1. SenderContinues(w, live, GaveUp, k, l)
  BY <1>0, Data DEF SenderContinues
<1>2. ReaderContinues(w, live, GaveUp, k, r, l)
  <2>1. CASE r.part = "body"
    <3>1. PICK m \in Messages : Reads(w, live, s, k, r, l, m)
      BY <1>0, <2>1 DEF ReaderContinues
    <3>2. Reads(w, live, GaveUp, k, r, l, m)
      BY <3>1, Data DEF Reads, IsBody, Follow
    <3> QED BY <2>1, <3>2 DEF ReaderContinues
  <2>2. CASE r.part # "body"
    BY <1>0, <2>2, Data DEF ReaderContinues
  <2> QED BY <2>1, <2>2
<1> QED BY <1>0, <1>1, <1>2 DEF Flows, Sendings

\* A reading that is not in a body begins or ends.
LEMMA FlowTurn == 
    ASSUME NEW w, NEW live, NEW s, NEW k, NEW r, NEW r2 \in Readings, NEW l, 
           Flows(w, live, s, k, r, l), r2.part # "body",
           r.part # "body" \/ (w = <<>> /\ ~ live)
    PROVE  Flows(w, live, s, k, r2, l)
<1> QED BY DEF Flows, ReaderContinues

\* The id of a message is read.
LEMMA FlowReadId == 
    ASSUME NEW w, NEW live \in BOOLEAN, NEW s, NEW k, NEW r, NEW r2 \in Readings, NEW l, 
           Flows(w, live, s, k, r, l), r.part # "body", w # <<>>,
           r2.part = "body", r2.got = <<>>, r2.id = Head(w).msg.type
    PROVE  Flows(Tail(w), live, s, k, r2, l)
<1> DEFINE v == Tail(w)
           m == w[1].msg
<1>0. /\ w \in Seq(Byte) /\ k \in Nat /\ l \in Messages \cup {Nothing} /\ s \in Sendings
      /\ WireInOrder(w, k, l)
      /\ SenderContinues(w, live, s, k, l)
      /\ ReaderContinues(w, live, s, k, r, l)
  BY DEF Flows
<1>1. /\ Len(w) \in Nat /\ Len(w) >= 1 
      /\ v \in Seq(Byte) /\ Len(v) = Len(w) - 1 /\ \A i \in 1 .. Len(v) : v[i] = w[i + 1]
      /\ Head(w) = w[1] /\ w[1] \in Byte
  BY <1>0, HeadTailProperties, LenProperties, EmptySeq, ElementOfSeq
<1>2. /\ m \in Messages /\ w[1].at = 0 /\ Size[m.type] \in Nat /\ Size[m.type] >= 1
      /\ m.n <= k /\ Later(l, m)
  BY <1>0, <1>1, Data DEF ReaderContinues, WireInOrder
<1> HIDE DEF v
<1>t. \A i \in 1 .. Len(v) : i + 1 \in 1 .. Len(w)
  BY <1>1
<1>3. WireInOrder(v, k, l)
  <2>1. ASSUME NEW i \in 1 .. Len(v)
        PROVE  v[i].at <= Size[v[i].msg.type] /\ v[i].msg.n <= k /\ Later(l, v[i].msg)
    BY <1>0, <1>1, <1>t DEF WireInOrder
  <2>2. ASSUME NEW i \in 1 .. Len(v), NEW j \in 1 .. Len(v), i < j
        PROVE  Apart(v[i], v[j], j - i)
    <3>1. /\ v[i] = w[i + 1] /\ v[j] = w[j + 1] 
          /\ i + 1 \in 1 .. Len(w) /\ j + 1 \in 1 .. Len(w) /\ i + 1 < j + 1
          /\ (j + 1) - (i + 1) = j - i
      BY <1>1, <1>t, <2>2
    <3>2. Apart(w[i + 1], w[j + 1], (j + 1) - (i + 1))
      BY <1>0, <3>1 DEF WireInOrder
    <3> QED BY <3>1, <3>2
  <2> QED BY <2>1, <2>2 DEF WireInOrder
<1>4. SenderContinues(v, live, s, k, l)
  <2>1. ASSUME live, NEW i \in 1 .. Len(v)
        PROVE  /\ s \in Byte => Apart(v[i], s, Len(v) + 1 - i)
               /\ s = NoSend => WholeAfter(v[i], Len(v) + 1 - i)
    <3>1. v[i] = w[i + 1] /\ i + 1 \in 1 .. Len(w) /\ Len(w) + 1 - (i + 1) = Len(v) + 1 - i
      BY <1>1, <1>t
    <3>2. /\ s \in Byte => Apart(w[i + 1], s, Len(w) + 1 - (i + 1))
          /\ s = NoSend => WholeAfter(w[i + 1], Len(w) + 1 - (i + 1))
      BY <1>0, <2>1, <3>1 DEF SenderContinues
    <3> QED BY <3>1, <3>2
  <2> QED BY <1>0, <2>1 DEF SenderContinues
<1>5. ReaderContinues(v, live, s, k, r2, l)
  <2> DEFINE last == [msg |-> m, at |-> Len(r2.got)]
  <2>1. Len(r2.got) = 0 /\ last.msg = m /\ last.at = 0 /\ w[1].msg = m
    BY EmptySeq
  <2> HIDE DEF last, m
  <2>2. \A b, d : Apart(w[1], b, d) => Apart(last, b, d)
    BY <1>2, <2>1 DEF Apart
  <2>3. \A i \in 1 .. Len(v) : Apart(last, v[i], i)
    <3>1. ASSUME NEW i \in 1 .. Len(v)
          PROVE  Apart(w[1], w[i + 1], i)
      <4>1. 1 \in 1 .. Len(w) /\ i + 1 \in 1 .. Len(w) /\ 1 < i + 1 /\ (i + 1) - 1 = i
        BY <1>1, <1>t
      <4>2. Apart(w[1], w[i + 1], (i + 1) - 1)
        BY <1>0, <4>1 DEF WireInOrder
      <4> QED BY <4>1, <4>2
    <3> QED BY <1>1, <2>2, <3>1
  <2>4. ASSUME live
        PROVE  /\ s \in Byte => Apart(last, s, Len(v) + 1)
               /\ s = NoSend => WholeAfter(last, Len(v) + 1)
    <3>1. 1 \in 1 .. Len(w) /\ Len(w) + 1 - 1 = Len(v) + 1
      BY <1>1
    <3>2. /\ s \in Byte => Apart(w[1], s, Len(w) + 1 - 1)
          /\ s = NoSend => WholeAfter(w[1], Len(w) + 1 - 1)
      BY <1>0, <2>4, <3>1 DEF SenderContinues
    <3> QED BY <1>2, <2>1, <2>2, <3>1, <3>2 DEF WholeAfter
  <2>5. Reads(v, live, s, k, r2, l, m)
    BY <1>1, <1>2, <2>1, <2>3, <2>4 DEF Reads, IsBody, Follow, last
  <2> QED BY <1>2, <2>5 DEF ReaderContinues
<1> QED BY <1>0, <1>1, <1>3, <1>4, <1>5 DEF Flows, v

\* The bytes that complete a body continue it.
LEMMA BodyPlaces == 
    ASSUME NEW w \in Seq(Byte), NEW m \in Messages, NEW prev \in Byte, prev.msg = m, Follow(prev, w), 
           NEW count \in 1 .. Len(w), prev.at + count <= Size[m.type], NEW i \in 1 .. count
    PROVE  w[i] = [msg |-> m, at |-> prev.at + i]
<1>0. Len(w) \in Nat /\ i \in 1 .. Len(w) /\ prev.at \in Nat /\ Size[m.type] \in Nat
  BY LenProperties, Data
<1>1. Apart(prev, w[i], i) /\ prev.at + i <= Size[m.type]
  BY <1>0 DEF Follow
<1>2. w[i] \in Byte
  BY <1>0, ElementOfSeq
<1>3. w[i].msg = m /\ w[i].at = prev.at + i
  BY <1>1 DEF Apart
<1> QED BY <1>2, <1>3, ByteIs

\* The bytes of a body that were read are bytes of one message in their order.
LEMMA BodyBytes == 
    ASSUME NEW w \in Seq(Byte), NEW got \in Seq(Byte), NEW m \in Messages, IsBody(m, got), 
           NEW prev \in Byte, prev.msg = m, prev.at = Len(got), Follow(prev, w), 
           NEW count \in 1 .. Len(w), Len(got) + count <= Size[m.type]
    PROVE  /\ got \o SubSeq(w, 1, count) \in Seq(Byte) 
           /\ Len(got \o SubSeq(w, 1, count)) = Len(got) + count
           /\ IsBody(m, got \o SubSeq(w, 1, count))
<1> DEFINE b == SubSeq(w, 1, count)
           bytes == got \o b
<1>0. /\ Len(w) \in Nat /\ count \in Nat /\ count >= 1 /\ count <= Len(w)
      /\ Len(got) \in Nat /\ Size[m.type] \in Nat
  BY LenProperties, Data
<1>1. b \in Seq(Byte) /\ Len(b) = count /\ \A i \in 1 .. count : b[i] = w[i]
  BY <1>0, Beginning
<1>2. ASSUME NEW i \in 1 .. count
      PROVE  w[i] = [msg |-> m, at |-> Len(got) + i]
  <2>1. prev.at + count <= Size[m.type]
    BY <1>0
  <2>2. w[i] = [msg |-> m, at |-> prev.at + i]
    BY <2>1, BodyPlaces
  <2> QED BY <2>2
<1>s. bytes = got \o b
  OBVIOUS
<1> HIDE DEF b, bytes
<1>3. /\ bytes \in Seq(Byte) /\ Len(bytes) = Len(got) + count
      /\ \A i \in 1 .. Len(got) + count : 
            bytes[i] = IF i <= Len(got) THEN got[i] ELSE b[i - Len(got)]
  <2>1. b \in Seq(Byte) /\ Len(b) = count /\ bytes = got \o b
    BY <1>1, <1>s
  <2>2. /\ got \o b \in Seq(Byte) /\ Len(got \o b) = Len(got) + Len(b)
        /\ \A i \in 1 .. Len(got) + Len(b) : 
              (got \o b)[i] = IF i <= Len(got) THEN got[i] ELSE b[i - Len(got)]
    BY <2>1, ConcatProperties
  <2> QED BY <2>1, <2>2
<1>4. ASSUME NEW i \in 1 .. Len(got) + count
      PROVE  bytes[i] = [msg |-> m, at |-> i]
  <2>1. CASE i <= Len(got)
    <3>1. i \in 1 .. Len(got)
      BY <1>0, <2>1
    <3> QED BY <1>3, <2>1, <3>1 DEF IsBody
  <2>2. CASE i > Len(got)
    <3>1. i - Len(got) \in 1 .. count /\ Len(got) + (i - Len(got)) = i
      BY <1>0, <2>2
    <3>2. bytes[i] = b[i - Len(got)]
      BY <1>0, <1>3, <2>2
    <3>3. b[i - Len(got)] = w[i - Len(got)]
      BY <1>1, <3>1
    <3> QED BY <1>2, <3>1, <3>2, <3>3
  <2>3. i \in Int /\ Len(got) \in Int
    BY <1>0
  <2>4. i <= Len(got) \/ i > Len(got)
    BY <2>3
  <2> QED BY <2>1, <2>2, <2>4
<1> QED BY <1>3, <1>4 DEF IsBody, bytes, b

\* When bytes are taken from the wire the others and the sender stay in order.
LEMMA RestFlows == 
    ASSUME NEW w, NEW live, NEW s, NEW k, NEW r, NEW l, NEW count \in 1 .. Len(w), 
           Flows(w, live, s, k, r, l)
    PROVE  /\ SubSeq(w, count + 1, Len(w)) \in Seq(Byte)
           /\ Len(SubSeq(w, count + 1, Len(w))) = Len(w) - count
           /\ \A i \in 1 .. Len(w) - count : SubSeq(w, count + 1, Len(w))[i] = w[count + i]
           /\ WireInOrder(SubSeq(w, count + 1, Len(w)), k, l)
           /\ SenderContinues(SubSeq(w, count + 1, Len(w)), live, s, k, l)
<1> DEFINE v == SubSeq(w, count + 1, Len(w))
<1>0. /\ w \in Seq(Byte) /\ WireInOrder(w, k, l) /\ SenderContinues(w, live, s, k, l)
      /\ Len(w) \in Nat /\ count \in Nat /\ count >= 1 /\ count <= Len(w)
  BY LenProperties DEF Flows
<1>1. v \in Seq(Byte) /\ Len(v) = Len(w) - count /\ \A i \in 1 .. Len(w) - count : v[i] = w[count + i]
  BY <1>0, Rest
<1> HIDE DEF v
<1>t. \A i \in 1 .. Len(v) : count + i \in 1 .. Len(w) /\ v[i] = w[count + i]
  BY <1>0, <1>1
<1>2. WireInOrder(v, k, l)
  <2>1. ASSUME NEW i \in 1 .. Len(v)
        PROVE  v[i].at <= Size[v[i].msg.type] /\ v[i].msg.n <= k /\ Later(l, v[i].msg)
    BY <1>0, <1>t DEF WireInOrder
  <2>2. ASSUME NEW i \in 1 .. Len(v), NEW j \in 1 .. Len(v), i < j
        PROVE  Apart(v[i], v[j], j - i)
    <3>1. /\ v[i] = w[count + i] /\ v[j] = w[count + j] 
          /\ count + i \in 1 .. Len(w) /\ count + j \in 1 .. Len(w)
      BY <1>t
    <3>2. count + i < count + j /\ (count + j) - (count + i) = j - i
      BY <1>0, <1>1, <2>2
    <3>3. Apart(w[count + i], w[count + j], (count + j) - (count + i))
      BY <1>0, <3>1, <3>2 DEF WireInOrder
    <3> QED BY <3>1, <3>2, <3>3
  <2> QED BY <2>1, <2>2 DEF WireInOrder
<1>3. SenderContinues(v, live, s, k, l)
  <2>1. ASSUME live, NEW i \in 1 .. Len(v)
        PROVE  /\ s \in Byte => Apart(v[i], s, Len(v) + 1 - i)
               /\ s = NoSend => WholeAfter(v[i], Len(v) + 1 - i)
    <3>1. v[i] = w[count + i] /\ count + i \in 1 .. Len(w)
      BY <1>t
    <3>2. Len(w) + 1 - (count + i) = Len(v) + 1 - i
      BY <1>0, <1>1
    <3>3. /\ s \in Byte => Apart(w[count + i], s, Len(w) + 1 - (count + i))
          /\ s = NoSend => WholeAfter(w[count + i], Len(w) + 1 - (count + i))
      BY <1>0, <2>1, <3>1 DEF SenderContinues
    <3> QED BY <3>1, <3>2, <3>3
  <2> QED BY <1>0, <2>1 DEF SenderContinues
<1> QED BY <1>1, <1>2, <1>3 DEF v

\* A part of a body is read.
LEMMA FlowReadPart == 
    ASSUME NEW w, NEW live \in BOOLEAN, NEW s, NEW k, NEW r, NEW r2 \in Readings, NEW l, 
           Flows(w, live, s, k, r, l), r.part = "body", NEW count \in 1 .. Len(w),
           Len(r.got) + count < Size[r.id],
           r2.part = "body", r2.id = r.id, r2.got = r.got \o SubSeq(w, 1, count)
    PROVE  Flows(SubSeq(w, count + 1, Len(w)), live, s, k, r2, l)
<1> DEFINE v == SubSeq(w, count + 1, Len(w))
<1>0. /\ w \in Seq(Byte) /\ k \in Nat /\ r \in Readings /\ l \in Messages \cup {Nothing} /\ s \in Sendings
      /\ ReaderContinues(w, live, s, k, r, l)
  BY DEF Flows
<1>1. /\ v \in Seq(Byte) /\ Len(v) = Len(w) - count /\ \A i \in 1 .. Len(w) - count : v[i] = w[count + i]
      /\ WireInOrder(v, k, l) /\ SenderContinues(v, live, s, k, l)
  BY RestFlows
<1>2. PICK m \in Messages : Reads(w, live, s, k, r, l, m)
  BY <1>0 DEF ReaderContinues
<1>3. /\ Len(r.got) \in Nat /\ Len(w) \in Nat /\ count \in Nat /\ count >= 1 /\ count <= Len(w)
      /\ Size[m.type] \in Nat /\ m.type = r.id
  BY <1>0, <1>2, LenProperties, Data DEF Readings, Reads, IsBody, Follow
<1>4. /\ Len(r2.got) = Len(r.got) + count
      /\ \A i \in 1 .. Len(r2.got) : r2.got[i] = [msg |-> m, at |-> i]
  <2>1. /\ Len(r.got) + count <= Size[m.type] /\ r.got \in Seq(Byte) /\ w \in Seq(Byte)
        /\ IsBody(m, r.got)
    BY <1>0, <1>2, <1>3 DEF Reads, IsBody, Follow, Readings
  <2> DEFINE prev == [msg |-> m, at |-> Len(r.got)]
  <2>2. prev \in Byte /\ prev.msg = m /\ prev.at = Len(r.got) /\ Follow(prev, w)
    BY <1>2, <1>3 DEF Reads, IsBody, Follow, Byte
  <2> HIDE DEF prev
  <2>3. Len(r2.got) = Len(r.got) + count /\ IsBody(m, r2.got)
    BY <2>1, <2>2, BodyBytes
  <2> QED BY <2>3 DEF IsBody
<1> DEFINE last == [msg |-> m, at |-> Len(r.got)]
           last2 == [msg |-> m, at |-> Len(r2.got)]
<1>5. /\ last.msg = m /\ last.at = Len(r.got) /\ last2.msg = m /\ last2.at = Len(r.got) + count
      /\ \A i \in 1 .. Len(w) : Apart(last, w[i], i)
      /\ live /\ s \in Byte => Apart(last, s, Len(w) + 1)
      /\ live /\ s = NoSend => WholeAfter(last, Len(w) + 1)
  BY <1>2, <1>4 DEF Reads, IsBody, Follow
<1>d. last \in Byte /\ last2 \in Byte
  BY <1>3, <1>4 DEF Byte
<1> HIDE DEF v, last, last2
<1>6. ASSUME NEW b, NEW d \in Nat
      PROVE  /\ Apart(last, b, count + d) => Apart(last2, b, d)
             /\ WholeAfter(last, count + d) => WholeAfter(last2, d)
  <2>1. last2.at = last.at + count /\ last2.msg = last.msg
    BY <1>5
  <2> QED BY <1>3, <1>d, <2>1, ApartShift
<1>7. \A i \in 1 .. Len(v) : Apart(last2, v[i], i)
  <2>1. ASSUME NEW i \in 1 .. Len(v)
        PROVE  Apart(last2, v[i], i)
    <3>0. i \in 1 .. Len(w) - count
      BY <1>1
    <3>1. count + i \in 1 .. Len(w) /\ i \in Nat
      BY <1>3, <3>0
    <3>2. v[i] = w[count + i]
      BY <1>1, <3>0
    <3> QED BY <1>5, <1>6, <3>1, <3>2
  <2> QED BY <2>1
<1>8. /\ live /\ s \in Byte => Apart(last2, s, Len(v) + 1)
      /\ live /\ s = NoSend => WholeAfter(last2, Len(v) + 1)
  <2>0. Len(v) = Len(w) - count
    BY <1>1
  <2>1. Len(w) + 1 = count + (Len(v) + 1) /\ Len(v) + 1 \in Nat
    BY <1>3, <2>0
  <2> QED BY <1>5, <1>6, <2>1
<1>9. Reads(v, live, s, k, r2, l, m)
  BY <1>2, <1>3, <1>4, <1>7, <1>8 DEF Reads, IsBody, Follow, last2
<1>10. ReaderContinues(v, live, s, k, r2, l)
  BY <1>9 DEF ReaderContinues
<1> QED BY <1>0, <1>1, <1>10 DEF Flows, v

\* The last bytes of a body are read: the message is whole, and what follows
\* on the wire or is sent next is the id of a later one.
LEMMA FlowReadLast == 
    ASSUME NEW w, NEW live \in BOOLEAN, NEW s, NEW k, NEW r, NEW r2 \in Readings, NEW l, NEW m \in Messages,
           Flows(w, live, s, k, r, l), Reads(w, live, s, k, r, l, m), NEW count \in 1 .. Len(w),
           Len(r.got) + count = Size[m.type], r2.part # "body"
    PROVE  Flows(SubSeq(w, count + 1, Len(w)), live, s, k, r2, m)
<1> DEFINE v == SubSeq(w, count + 1, Len(w))
           last == [msg |-> m, at |-> Len(r.got)]
<1>0. /\ w \in Seq(Byte) /\ k \in Nat /\ r \in Readings /\ l \in Messages \cup {Nothing} /\ s \in Sendings
  BY DEF Flows
<1>1. /\ v \in Seq(Byte) /\ Len(v) = Len(w) - count /\ \A i \in 1 .. Len(w) - count : v[i] = w[count + i]
      /\ WireInOrder(v, k, l) /\ SenderContinues(v, live, s, k, l)
  BY RestFlows
<1>2. /\ Len(r.got) \in Nat /\ Len(w) \in Nat /\ count \in Nat /\ count >= 1 /\ count <= Len(w)
      /\ Size[m.type] \in Nat /\ m.n <= k
  BY <1>0, LenProperties, Data DEF Readings, Reads, IsBody, Follow
<1>3. /\ last.msg = m /\ last.at = Len(r.got)
      /\ \A i \in 1 .. Len(w) : Apart(last, w[i], i)
      /\ live /\ s \in Byte => Apart(last, s, Len(w) + 1)
  BY DEF Reads, IsBody, Follow
<1>d. last \in Byte
  BY <1>2 DEF Byte
<1> HIDE DEF v, last
<1>4. ASSUME NEW b, NEW d \in Nat, d > count, Apart(last, b, d)
      PROVE  m.n < b.msg.n /\ (d = count + 1 => b.at = 0)
  <2>1. last.at + count = Size[last.msg.type]
    BY <1>3
  <2> QED BY <1>2, <1>3, <1>4, <1>d, <2>1, ApartNext
<1>5. ASSUME NEW i \in 1 .. Len(v)
      PROVE  m.n < v[i].msg.n /\ (i = 1 => v[i].at = 0)
  <2>1. count + i \in 1 .. Len(w) /\ v[i] = w[count + i] /\ count + i \in Nat /\ count + i > count
        /\ (i = 1 => count + i = count + 1)
    BY <1>1, <1>2
  <2> QED BY <1>3, <1>4, <2>1
<1>6. live /\ s \in Byte => m.n < s.msg.n /\ (Len(v) = 0 => s.at = 0)
  <2>1. Len(w) + 1 \in Nat /\ Len(w) + 1 > count /\ (Len(v) = 0 => Len(w) + 1 = count + 1)
    BY <1>1, <1>2
  <2> QED BY <1>3, <1>4, <2>1
<1>7. WireInOrder(v, k, m)
  BY <1>1, <1>5 DEF WireInOrder, Later
<1>8. SenderContinues(v, live, s, k, m)
  BY <1>1, <1>2, <1>6 DEF SenderContinues, Later
<1>9. ReaderContinues(v, live, s, k, r2, m)
  <2>1. v # <<>> => Len(v) \in Nat /\ Len(v) >= 1
    BY <1>1, EmptySeq
  <2>2. v = <<>> => Len(v) = 0
    BY EmptySeq
  <2> QED BY <1>5, <1>6, <2>1, <2>2 DEF ReaderContinues
<1> QED BY <1>0, <1>1, <1>5, <1>7, <1>8, <1>9 DEF Flows, v
-----------------------------------------------------------------------------
(* Every step keeps the invariant.                                          *)

\* A direction of the connection that a step does not touch.
LEMMA FlowSame == 
    ASSUME NEW e \in Ends, Flow(e),
           wire'[e] = wire[e], (sock'[e] = "estab") <=> (sock[e] = "estab"), 
           sending'[e] = sending[e], made'[e] = made[e], 
           reading'[Peer(e)] = reading[Peer(e)], received'[Peer(e)] = received[Peer(e)]
    PROVE  Flow(e)'
<1> QED BY DEF Flow

\* A step in which no end loses the connection alone.
LEMMA FlowsToIInv == 
    ASSUME NEW e \in Ends, Shape', EndTogether', Flow(e)', Flow(Peer(e))'
    PROVE  IInv'
<1> QED BY Peers DEF IInv

\* A message is begun.
LEMMA InvBegin == 
    ASSUME IInv, NEW e \in Ends, NEW t \in Types, channeled_send(e, t)
    PROVE  IInv'
<1> DEFINE s2 == [msg |-> [type |-> t, n |-> made[e] + 1], at |-> 0]
<1>1. /\ Peer(e) \in Ends /\ Peer(e) # e /\ Peer(Peer(e)) = e
      /\ Flow(e) /\ Flow(Peer(e)) /\ Shape /\ EndTogether
  BY Peers DEF IInv
<1>2. /\ sending[e] = NoSend /\ made[e] < MaxMessages
      /\ made' = [made EXCEPT ![e] = @ + 1] /\ sending' = [sending EXCEPT ![e] = s2]
      /\ UNCHANGED <<wire, sock, reading, received, killed, faults>>
  BY DEF channeled_send, Idle
<1>3. /\ made[e] + 1 \in 1 .. MaxMessages /\ MaxMessages \in Nat
      /\ made'[e] = made[e] + 1 /\ made'[Peer(e)] = made[Peer(e)]
      /\ sending'[e] = s2 /\ sending'[Peer(e)] = sending[Peer(e)]
  BY <1>1, <1>2, BoundsAssumption DEF Shape
<1>4. s2 \in Byte /\ s2.msg.n = made[e] + 1 /\ s2.at = 0
  BY <1>3 DEF Byte, Messages
<1> HIDE DEF s2
<1>5. Shape'
  BY <1>1, <1>2, <1>3, <1>4 DEF Shape, Sendings
<1>6. EndTogether'
  BY <1>1, <1>2 DEF EndTogether
<1>7. Flow(e)'
  <2> DEFINE live == sock[e] = "estab"
  <2>1. live \in BOOLEAN /\ live' = live
    BY <1>2
  <2>2. Flows(wire[e], live, NoSend, made[e], reading[Peer(e)], received[Peer(e)])
    BY <1>1, <1>2 DEF Flow
  <2> HIDE DEF live
  <2>3. Flows(wire[e], live, s2, made[e] + 1, reading[Peer(e)], received[Peer(e)])
    BY <1>4, <2>1, <2>2, FlowBegin
  <2> QED BY <1>2, <1>3, <2>1, <2>3 DEF Flow, live
<1>8. Flow(Peer(e))'
  BY <1>1, <1>2, <1>3, FlowSame
<1> QED BY <1>5, <1>6, <1>7, <1>8, FlowsToIInv

\* A prefix is one of the prefixes, and a sequence of the same bytes.
LEMMA PrefixesOf == 
    ASSUME NEW w \in Seq(Byte)
    PROVE  /\ w \in Prefixes(w) /\ <<>> \in Prefixes(w)
           /\ \A v \in Prefixes(w) : v \in Seq(Byte) /\ Len(v) <= Len(w)
           /\ \A v \in Seq(Byte) : IsPrefix(v, w) => v \in Prefixes(w)
<1>1. Len(w) \in Nat
  BY LenProperties
<1>2. w \in Prefixes(w)
  BY <1>1, SubSeqFull DEF Prefixes
<1>3. <<>> \in Prefixes(w)
  <2>1. SubSeq(w, 1, 0) = <<>>
    BY SubSeqEmpty
  <2> QED BY <1>1, <2>1 DEF Prefixes
<1>4. ASSUME NEW v \in Prefixes(w)
      PROVE  v \in Seq(Byte) /\ Len(v) <= Len(w)
  <2>1. PICK n \in 0 .. Len(w) : v = SubSeq(w, 1, n)
    BY DEF Prefixes
  <2>2. v \in Seq(Byte) /\ Len(v) = n
    BY <2>1, Beginning
  <2> QED BY <1>1, <2>2
<1>5. ASSUME NEW v \in Seq(Byte), IsPrefix(v, w)
      PROVE  v \in Prefixes(w)
  <2>1. Len(v) \in Nat /\ v = SubSeq(v, 1, Len(v))
    BY LenProperties, SubSeqFull
  <2>2. Len(v) <= Len(w) /\ v = SubSeq(w, 1, Len(v))
    BY <1>5, <2>1 DEF IsPrefix
  <2>3. Len(v) \in 0 .. Len(w)
    BY <1>1, <2>1, <2>2
  <2> QED BY <2>2, <2>3 DEF Prefixes
<1> QED BY <1>2, <1>3, <1>4, <1>5

\* The connection is lost, or a step is taken when it is: bytes at the end of
\* the wires are lost, and no end sends anything any more.
LEMMA InvEnd == 
    ASSUME IInv,
           wire' \in [Ends -> Seq(Byte)], \A x \in Ends : wire'[x] \in Prefixes(wire[x]),
           sock' \in [Ends -> SocketStates \ {"estab"}],
           sending' \in [Ends -> Sendings],
           \A x \in Ends : \/ sending'[x] = sending[x]
                           \/ sending'[x] \in Byte => 
                                 /\ sending'[x].msg.n <= made[x] 
                                 /\ sending'[x].at <= Size[sending'[x].msg.type],
           UNCHANGED <<reading, received, made>>, killed' \subseteq Ends, faults' \in 0 .. MaxFaults
    PROVE  IInv'
<1>1. Shape /\ \A x \in Ends : Flow(x)
  BY DEF IInv
<1>2. Shape'
  <2>1. ASSUME NEW x \in Ends
        PROVE  Len(wire'[x]) <= Capacity
    <3>1. /\ wire[x] \in Seq(Byte) /\ Len(wire[x]) <= Capacity
          /\ wire'[x] \in Seq(Byte) /\ wire'[x] \in Prefixes(wire[x])
      BY <1>1 DEF Shape
    <3>2. Len(wire'[x]) <= Len(wire[x])
      BY <3>1, PrefixesOf
    <3> QED BY <3>1, <3>2, LenProperties, Data
  <2> QED BY <1>1, <2>1 DEF Shape
<1>3. EndTogether'
  BY DEF EndTogether
<1>4. ASSUME NEW x \in Ends
      PROVE  Flow(x)'
  <2> DEFINE live == sock[x] = "estab"
  <2>1. Flows(wire[x], live, sending[x], made[x], reading[Peer(x)], received[Peer(x)])
    BY <1>1 DEF Flow
  <2>2. sock'[x] # "estab" /\ sending'[x] \in Sendings /\ Peer(x) \in Ends
    BY Peers
  <2>3. sending'[x] \in Byte => 
           sending'[x].msg.n <= made[x] /\ sending'[x].at <= Size[sending'[x].msg.type]
    BY <2>1 DEF Flows, SenderContinues
  <2>4. PICK n \in 0 .. Len(wire[x]) : wire'[x] = SubSeq(wire[x], 1, n)
    BY DEF Prefixes
  <2> HIDE DEF live
  <2>5. Flows(SubSeq(wire[x], 1, n), FALSE, sending'[x], made[x], reading[Peer(x)], received[Peer(x)])
    BY <2>1, <2>2, <2>3, FlowEnd
  <2> QED BY <2>2, <2>4, <2>5 DEF Flow
<1> QED BY <1>2, <1>3, <1>4 DEF IInv

\* When an end closes both ends lose the connection.
LEMMA ClosesEnds == 
    ASSUME Shape, NEW e \in Ends, Closes(e)
    PROVE  /\ wire' \in [Ends -> Seq(Byte)] /\ \A x \in Ends : wire'[x] \in Prefixes(wire[x])
           /\ sock' \in [Ends -> SocketStates \ {"estab"}]
<1> DEFINE p == Peer(e)
<1>1. p \in Ends /\ p # e /\ \A x \in Ends : x = e \/ x = p
  BY Peers
<1>2. wire \in [Ends -> Seq(Byte)] /\ sock \in [Ends -> SocketStates]
  BY DEF Shape
<1>3. \A x \in Ends : /\ wire[x] \in Prefixes(wire[x]) /\ <<>> \in Prefixes(wire[x])
                      /\ \A v \in Prefixes(wire[x]) : v \in Seq(Byte)
  BY <1>2, PrefixesOf
<1>4. <<>> \in Seq(Byte)
  OBVIOUS
<1>5. \/ /\ sock' = [sock EXCEPT ![e] = "closed", ![p] = "reset"]
         /\ \E kept \in Prefixes(wire[e]) : wire' = [wire EXCEPT ![e] = kept, ![p] = <<>>]
      \/ /\ \E st \in {"eof", "hup"} : sock' = [sock EXCEPT ![e] = "closed", ![p] = st]
         /\ wire' = [wire EXCEPT ![p] = <<>>]
      \/ /\ sock[p] # "estab"
         /\ sock' = [sock EXCEPT ![e] = "closed"]
         /\ wire' = [wire EXCEPT ![p] = <<>>]
  BY DEF Closes
<1> HIDE DEF p
<1>6. sock' \in [Ends -> SocketStates \ {"estab"}]
  BY <1>1, <1>2, <1>5 DEF SocketStates
<1>7. wire' \in [Ends -> Seq(Byte)]
  BY <1>1, <1>2, <1>3, <1>4, <1>5
<1>8. \A x \in Ends : wire'[x] \in Prefixes(wire[x])
  BY <1>1, <1>2, <1>3, <1>5
<1> QED BY <1>6, <1>7, <1>8

\* While one end has lost the connection so has the other.
LEMMA BothEnded == 
    ASSUME IInv, NEW e \in Ends, sock[e] # "estab"
    PROVE  \A x \in Ends : sock[x] \in SocketStates \ {"estab"}
<1> QED BY DEF IInv, EndTogether, Shape

\* The connection is given up.
LEMMA InvBreaks == 
    ASSUME IInv, connection_breaks
    PROVE  IInv'
<1>1. /\ wire \in [Ends -> Seq(Byte)] /\ sending \in [Ends -> Sendings] 
      /\ faults \in 0 .. MaxFaults /\ killed \subseteq Ends /\ MaxFaults \in Nat
  BY BoundsAssumption DEF IInv, Shape
<1>2. /\ faults < MaxFaults /\ faults' = faults + 1 /\ sock' = [x \in Ends |-> "reset"]
      /\ wire' \in [Ends -> UNION {Prefixes(wire[x]) : x \in Ends}]
      /\ \A x \in Ends : IsPrefix(wire'[x], wire[x])
      /\ UNCHANGED <<sending, reading, received, made, killed>>
  BY DEF connection_breaks, program_vars
<1>3. \A x \in Ends : \A v \in Prefixes(wire[x]) : v \in Seq(Byte)
  BY <1>1, PrefixesOf
<1>4. wire' \in [Ends -> Seq(Byte)]
  BY <1>2, <1>3
<1>5. ASSUME NEW x \in Ends
      PROVE  wire'[x] \in Prefixes(wire[x])
  <2>1. wire[x] \in Seq(Byte) /\ wire'[x] \in Seq(Byte) /\ IsPrefix(wire'[x], wire[x])
    BY <1>1, <1>2, <1>4
  <2> QED BY <2>1, PrefixesOf
<1>6. sock' \in [Ends -> SocketStates \ {"estab"}] /\ faults' \in 0 .. MaxFaults
  BY <1>1, <1>2 DEF SocketStates
<1> QED BY <1>1, <1>2, <1>4, <1>5, <1>6, InvEnd

\* The last reference to a connection goes.
LEMMA InvClose == 
    ASSUME IInv, NEW e \in Ends, close_socket(e)
    PROVE  IInv'
<1>1. Shape /\ sending \in [Ends -> Sendings] /\ faults \in 0 .. MaxFaults /\ killed \subseteq Ends
  BY DEF IInv, Shape
<1>2. Closes(e) /\ UNCHANGED <<sending, reading, received, made, killed, faults>>
  BY DEF close_socket, program_vars
<1> QED BY <1>1, <1>2, ClosesEnds, InvEnd

\* A signal ends a program.
LEMMA InvSigpipe == 
    ASSUME IInv, NEW e \in Ends, send_raises_sigpipe(e)
    PROVE  IInv'
<1>1. Shape /\ sending \in [Ends -> Sendings] /\ faults \in 0 .. MaxFaults /\ killed \subseteq Ends
  BY DEF IInv, Shape
<1>2. /\ Closes(e) /\ UNCHANGED <<reading, received, made, faults>>
      /\ sending' = [sending EXCEPT ![e] = NoSend] /\ killed' = killed \cup {e}
  BY DEF send_raises_sigpipe
<1>3. /\ sending' \in [Ends -> Sendings] /\ killed' \subseteq Ends /\ faults' \in 0 .. MaxFaults
      /\ \A x \in Ends : sending'[x] = sending[x] \/ sending'[x] = NoSend
  BY <1>1, <1>2 DEF Sendings
<1>4. NoSend \notin Byte
  BY Data
<1> QED BY <1>1, <1>2, <1>3, <1>4, ClosesEnds, InvEnd

\* SendException leaves channeled_send().
LEMMA InvThrows == 
    ASSUME IInv, NEW e \in Ends, send_throws(e)
    PROVE  IInv'
<1>1. /\ wire \in [Ends -> Seq(Byte)] /\ sending \in [Ends -> Sendings] 
      /\ faults \in 0 .. MaxFaults /\ killed \subseteq Ends /\ sock \in [Ends -> SocketStates]
  BY DEF IInv, Shape
<1>2. /\ sock[e] = "reset" /\ sock' = [sock EXCEPT ![e] = "hup"]
      /\ sending' = [sending EXCEPT ![e] = NoSend]
      /\ UNCHANGED <<wire, reading, received, made, killed, faults>>
  BY DEF send_throws
<1>3. sock' \in [Ends -> SocketStates \ {"estab"}]
  BY <1>1, <1>2, BothEnded DEF SocketStates
<1>4. /\ sending' \in [Ends -> Sendings] /\ killed' \subseteq Ends /\ faults' \in 0 .. MaxFaults
      /\ \A x \in Ends : sending'[x] = sending[x] \/ sending'[x] = NoSend
  BY <1>1, <1>2 DEF Sendings
<1>5. \A x \in Ends : wire'[x] \in Prefixes(wire[x])
  BY <1>1, <1>2, PrefixesOf
<1> QED BY <1>1, <1>2, <1>3, <1>4, <1>5, Data, InvEnd

\* What the running send() has left ends its part of the message.
LEMMA SendLeft == 
    ASSUME Shape, NEW e \in Ends, Flow(e), InSend(e)
    PROVE  /\ sending[e] \in Byte /\ sending[e].msg.n <= made[e]
           /\ LeftToSend(e) \in Nat \ {0}
           /\ sending[e].at + LeftToSend(e) <= Size[sending[e].msg.type] + 1
<1>1. sending[e] \in Byte
  BY DEF Shape, InSend, Sendings
<1>2. sending[e].msg.n <= made[e] /\ sending[e].at <= Size[sending[e].msg.type]
  BY <1>1 DEF Flow, Flows, SenderContinues
<1>3. sending[e].at \in Nat /\ Size[sending[e].msg.type] \in Nat /\ Size[sending[e].msg.type] >= 1
  BY <1>1, Data
<1> QED BY <1>1, <1>2, <1>3 DEF LeftToSend

\* After some of the bytes that are left the sending ends or goes on.
LEMMA SentBytes == 
    ASSUME Shape, NEW e \in Ends, Flow(e), InSend(e), NEW count \in 1 .. LeftToSend(e), Sent(e, count)
    PROVE  /\ sending' \in [Ends -> Sendings] 
           /\ \A x \in Ends \ {e} : sending'[x] = sending[x]
           /\ IF sending[e].at + count > Size[sending[e].msg.type] THEN sending'[e] = NoSend
              ELSE /\ sending'[e] \in Byte /\ sending'[e].msg = sending[e].msg 
                   /\ sending'[e].at = sending[e].at + count
<1>1. /\ sending[e] \in Byte /\ sending[e].msg \in Messages /\ sending[e].at \in Nat 
      /\ LeftToSend(e) \in Nat /\ count \in Nat /\ sending \in [Ends -> Sendings]
  BY SendLeft, Data DEF Shape
<1>2. CASE sending[e].at + count > Size[sending[e].msg.type]
  BY <1>1, <1>2 DEF Sent, Sendings
<1>3. CASE ~ (sending[e].at + count > Size[sending[e].msg.type])
  <2> DEFINE s2 == [sending[e] EXCEPT !.at = sending[e].at + count]
  <2>0. sending' = [sending EXCEPT ![e] = 
                       IF sending[e].at + count > Size[sending[e].msg.type] THEN NoSend ELSE s2]
    BY DEF Sent
  <2>1. sending' = [sending EXCEPT ![e] = s2]
    BY <1>3, <2>0
  <2>2. s2 \in Byte /\ s2.msg = sending[e].msg /\ s2.at = sending[e].at + count
    BY <1>1 DEF Byte
  <2> HIDE DEF s2
  <2> QED BY <1>1, <1>3, <2>1, <2>2 DEF Sendings
<1> QED BY <1>2, <1>3

\* The bytes sent to an end that has closed are lost.
LEMMA InvToClosed == 
    ASSUME IInv, NEW e \in Ends, socket_send_to_closed(e)
    PROVE  IInv'
<1>1. /\ Shape /\ Flow(e) /\ wire \in [Ends -> Seq(Byte)]
      /\ faults \in 0 .. MaxFaults /\ killed \subseteq Ends /\ sock \in [Ends -> SocketStates]
  BY DEF IInv, Shape
<1>2. /\ sock[e] = "eof" /\ \E st \in {"eof", "hup"} : sock' = [sock EXCEPT ![e] = st]
      /\ InSend(e) /\ Sent(e, LeftToSend(e))
      /\ UNCHANGED <<wire, reading, received, made, killed, faults>>
  BY DEF socket_send_to_closed
<1>3. sock' \in [Ends -> SocketStates \ {"estab"}]
  BY <1>1, <1>2, BothEnded DEF SocketStates
<1>4. LeftToSend(e) \in 1 .. LeftToSend(e)
  BY <1>1, <1>2, SendLeft
<1>5. /\ sending' \in [Ends -> Sendings] 
      /\ \A x \in Ends \ {e} : sending'[x] = sending[x]
      /\ IF sending[e].at + LeftToSend(e) > Size[sending[e].msg.type] THEN sending'[e] = NoSend
         ELSE /\ sending'[e] \in Byte /\ sending'[e].msg = sending[e].msg 
              /\ sending'[e].at = sending[e].at + LeftToSend(e)
  BY <1>1, <1>2, <1>4, SentBytes
<1>6. sending'[e] \in Byte => 
        sending'[e].msg.n <= made[e] /\ sending'[e].at <= Size[sending'[e].msg.type]
  <2>1. /\ sending[e] \in Byte /\ sending[e].msg.n <= made[e] /\ LeftToSend(e) \in Nat 
        /\ sending[e].msg \in Messages /\ sending[e].at \in Nat /\ Size[sending[e].msg.type] \in Nat
    BY <1>1, <1>2, SendLeft, Data
  <2>2. sending'[e] \in Byte => sending'[e] # NoSend
    BY Data
  <2> QED BY <1>5, <2>1, <2>2
<1>7. /\ killed' \subseteq Ends /\ faults' \in 0 .. MaxFaults
      /\ \A x \in Ends : wire'[x] \in Prefixes(wire[x])
  BY <1>1, <1>2, PrefixesOf
<1>8. \A x \in Ends : \/ sending'[x] = sending[x]
                      \/ sending'[x] \in Byte => 
                            sending'[x].msg.n <= made[x] /\ sending'[x].at <= Size[sending'[x].msg.type]
  BY <1>5, <1>6
<1>9. wire' \in [Ends -> Seq(Byte)] /\ sending' \in [Ends -> Sendings]
  BY <1>1, <1>2, <1>5
<1> QED BY <1>2, <1>3, <1>7, <1>8, <1>9, InvEnd

\* The bytes of one turn of send().
LEMMA InvSend == 
    ASSUME IInv, NEW e \in Ends, socket_send(e)
    PROVE  IInv'
<1>1. /\ Shape /\ Flow(e) /\ Flow(Peer(e)) /\ EndTogether
      /\ Peer(e) \in Ends /\ Peer(e) # e /\ Peer(Peer(e)) = e
  BY Peers DEF IInv
<1>2. PICK count \in Accepted(e) : wire' = [wire EXCEPT ![e] = @ \o Chunk(e, count)] /\ Sent(e, count)
  BY DEF socket_send
<1>3. InSend(e) /\ sock[e] = "estab" /\ UNCHANGED <<sock, reading, received, made, killed, faults>>
  BY DEF socket_send
<1> DEFINE s == sending[e]
<1>4. /\ wire[e] \in Seq(Byte) /\ Len(wire[e]) \in Nat /\ Free(e) \in Int
      /\ s \in Byte /\ s.msg \in Messages /\ s.at \in Nat /\ Size[s.msg.type] \in Nat
      /\ LeftToSend(e) \in Nat \ {0} /\ s.at + LeftToSend(e) <= Size[s.msg.type] + 1
  BY <1>1, <1>3, SendLeft, Data, LenProperties DEF Shape, Free
<1>5. /\ count \in Nat \ {0} /\ count \in 1 .. LeftToSend(e) /\ count <= Capacity - Len(wire[e])
      /\ s.at + count <= Size[s.msg.type] + 1
  <2>1. /\ Min({LeftToSend(e), Free(e)}) \in Int 
        /\ Min({LeftToSend(e), Free(e)}) <= LeftToSend(e)
        /\ Min({LeftToSend(e), Free(e)}) <= Free(e)
    <3>1. LeftToSend(e) \in Int /\ Free(e) \in Int
      BY <1>4
    <3> QED BY <3>1, MinOfTwo
  <2>2. count \in 1 .. Min({LeftToSend(e), Free(e)})
    BY DEF Accepted
  <2>3. count \in Nat \ {0} /\ count <= LeftToSend(e) /\ count <= Free(e)
    BY <1>4, <2>1, <2>2
  <2> QED BY <1>4, <2>3 DEF Free
<1>6. /\ sending' \in [Ends -> Sendings] /\ \A x \in Ends \ {e} : sending'[x] = sending[x]
      /\ IF s.at + count > Size[s.msg.type] THEN sending'[e] = NoSend
         ELSE sending'[e] \in Byte /\ sending'[e].msg = s.msg /\ sending'[e].at = s.at + count
  BY <1>1, <1>2, <1>3, <1>5, SentBytes
<1>7. Chunk(e, count) = Bytes(s.msg, s.at, count)
  BY DEF Chunk
<1>8. Bytes(s.msg, s.at, count) \in Seq(Byte) /\ Len(Bytes(s.msg, s.at, count)) = count
  BY <1>4, <1>5, BytesOfMessage
<1> DEFINE w2 == wire[e] \o Bytes(s.msg, s.at, count)
<1>9. w2 \in Seq(Byte) /\ Len(w2) = Len(wire[e]) + count
  BY <1>4, <1>8, ConcatProperties
<1>10. wire' = [wire EXCEPT ![e] = w2]
  BY <1>2, <1>7
<1> HIDE DEF s
<1>11. Flow(e)'
  <2>1. Flows(wire[e], TRUE, s, made[e], reading[Peer(e)], received[Peer(e)])
    BY <1>1, <1>3 DEF Flow, s
  <2>2. sending'[e] \in Sendings
    BY <1>6
  <2>3. Flows(w2, TRUE, sending'[e], made[e], reading[Peer(e)], received[Peer(e)])
    BY <1>4, <1>5, <1>6, <2>1, <2>2, FlowSend
  <2> HIDE DEF w2
  <2>4. wire'[e] = w2 /\ (sock'[e] = "estab") <=> TRUE
    BY <1>1, <1>3, <1>10 DEF Shape
  <2> QED BY <1>3, <2>3, <2>4 DEF Flow
<1> HIDE DEF w2
<1>12. Flow(Peer(e))'
  BY <1>1, <1>3, <1>6, <1>10, FlowSame DEF Shape
<1>13. Shape'
  <2>1. wire' \in [Ends -> Seq(Byte)]
    BY <1>1, <1>9, <1>10 DEF Shape
  <2>2. Len(w2) <= Capacity
    BY <1>4, <1>5, <1>9, Data
  <2>3. ASSUME NEW x \in Ends
        PROVE  Len(wire'[x]) <= Capacity
    BY <1>1, <1>10, <2>2 DEF Shape
  <2> QED BY <1>1, <1>3, <1>6, <2>1, <2>3 DEF Shape
<1>14. EndTogether'
  BY <1>1, <1>3 DEF EndTogether
<1> QED BY <1>11, <1>12, <1>13, <1>14, FlowsToIInv

\* A send fails on a living connection.
LEMMA InvInterrupted == 
    ASSUME IInv, NEW e \in Ends, send_interrupted(e)
    PROVE  IInv'
<1>1. /\ Shape /\ Flow(e) /\ Flow(Peer(e)) /\ EndTogether
      /\ Peer(e) \in Ends /\ Peer(e) # e /\ Peer(Peer(e)) = e
  BY Peers DEF IInv
<1>2. /\ faults < MaxFaults /\ faults' = faults + 1
      /\ sending' = [sending EXCEPT ![e] = GaveUp]
      /\ UNCHANGED <<wire, sock, reading, received, made, killed>>
  BY DEF send_interrupted
<1>3. Shape'
  BY <1>1, <1>2, BoundsAssumption DEF Shape, Sendings
<1>4. EndTogether'
  BY <1>1, <1>2 DEF EndTogether
<1>5. Flow(e)'
  <2> DEFINE live == sock[e] = "estab"
  <2>1. Flows(wire[e], live, sending[e], made[e], reading[Peer(e)], received[Peer(e)])
    BY <1>1 DEF Flow
  <2>2. live' = live /\ sending'[e] = GaveUp
    BY <1>1, <1>2 DEF Shape
  <2> HIDE DEF live
  <2>3. Flows(wire[e], live, GaveUp, made[e], reading[Peer(e)], received[Peer(e)])
    BY <2>1, FlowGiveUp
  <2> QED BY <1>2, <2>2, <2>3 DEF Flow, live
<1>6. Flow(Peer(e))'
  BY <1>1, <1>2, FlowSame DEF Shape
<1> QED BY <1>3, <1>4, <1>5, <1>6, FlowsToIInv

\* A step of the reader e is a step of the direction of its peer.
LEMMA InvReader == 
    ASSUME IInv, NEW e \in Ends, 
           wire' \in [Ends -> Seq(Byte)], 
           wire'[e] = wire[e], Len(wire'[Peer(e)]) <= Len(wire[Peer(e)]),
           reading' \in [Ends -> Readings], reading'[Peer(e)] = reading[Peer(e)],
           received' \in [Ends -> Messages \cup {Nothing}], received'[Peer(e)] = received[Peer(e)],
           sock' \in [Ends -> SocketStates], 
           \A x \in Ends : (sock'[x] = "estab") <=> (sock[x] = "estab"),
           UNCHANGED <<sending, made, killed, faults>>,
           Flow(Peer(e))'
    PROVE  IInv'
<1>1. /\ Shape /\ Flow(e) /\ EndTogether
      /\ Peer(e) \in Ends /\ \A x \in Ends : x = e \/ x = Peer(e)
  BY Peers DEF IInv
<1>2. Shape'
  <2>1. ASSUME NEW x \in Ends
        PROVE  Len(wire'[x]) <= Capacity
    <3>1. wire[x] \in Seq(Byte) /\ wire'[x] \in Seq(Byte) /\ Len(wire[x]) <= Capacity
      BY <1>1 DEF Shape
    <3>2. Len(wire'[x]) <= Len(wire[x])
      <4>1. CASE x = e
        BY <3>1, <4>1, LenProperties
      <4>2. CASE x = Peer(e)
        BY <4>2
      <4> QED BY <1>1, <4>1, <4>2
    <3> QED BY <3>1, <3>2, LenProperties, Data
  <2> QED BY <1>1, <2>1 DEF Shape
<1>3. EndTogether'
  BY <1>1 DEF EndTogether
<1>4. Flow(e)'
  BY <1>1, FlowSame
<1> QED BY <1>2, <1>3, <1>4, FlowsToIInv

\* poll() found the connection ready.
LEMMA InvIncoming == 
    ASSUME IInv, NEW e \in Ends, handleIncomingMessage(e)
    PROVE  IInv'
<1> DEFINE p == Peer(e)
           r2 == [NoRead EXCEPT !.part = "id"]
           live == sock[p] = "estab"
<1>1. Shape /\ Flow(p) /\ p \in Ends /\ p # e /\ Peer(p) = e
  BY Peers DEF IInv
<1>2. /\ reading[e] = NoRead /\ reading' = [reading EXCEPT ![e] = r2]
      /\ UNCHANGED <<wire, sock, sending, received, made, killed, faults>>
  BY DEF handleIncomingMessage, Idle
<1>3. r2 \in Readings /\ r2.part # "body" /\ NoRead.part # "body"
  <2>1. r2 = [part |-> "id", id |-> Nothing, got |-> <<>>]
    BY DEF NoRead
  <2>2. <<>> \in Seq(Byte)
    OBVIOUS
  <2> QED BY <2>1, <2>2 DEF Readings, NoRead
<1>4. Flows(wire[p], live, sending[p], made[p], NoRead, received[e])
  BY <1>1, <1>2 DEF Flow
<1> HIDE DEF r2
<1>5. /\ reading' \in [Ends -> Readings] /\ reading'[p] = reading[p] /\ reading'[e] = r2
      /\ wire' \in [Ends -> Seq(Byte)] /\ Len(wire'[p]) <= Len(wire[p])
  BY <1>1, <1>2, <1>3, LenProperties DEF Shape
<1> HIDE DEF live
<1>6. Flows(wire[p], live, sending[p], made[p], r2, received[e])
  BY <1>3, <1>4, FlowTurn
<1>7. Flow(p)'
  BY <1>1, <1>2, <1>5, <1>6 DEF Flow, live
<1> HIDE DEF p
<1> QED BY <1>1, <1>2, <1>5, <1>7, InvReader DEF Shape, p

\* The receive() of a message ends with the connection.
LEMMA InvReceiveEnds == 
    ASSUME IInv, NEW e \in Ends, receive_ends(e)
    PROVE  IInv'
<1> DEFINE p == Peer(e)
<1>1. Shape /\ Flow(p) /\ p \in Ends /\ p # e /\ Peer(p) = e
  BY Peers DEF IInv
<1>2. /\ wire[p] = <<>> /\ sock[e] \in {"eof", "reset", "hup"}
      /\ reading' = [reading EXCEPT ![e] = NoRead]
      /\ sock' = [sock EXCEPT ![e] = IF @ = "reset" THEN "hup" ELSE @]
      /\ UNCHANGED <<wire, sending, received, made, killed, faults>>
  BY DEF receive_ends
<1>3. NoRead \in Readings /\ NoRead.part # "body"
  BY DEF NoRead, Readings
<1>4. sock[p] # "estab"
  BY <1>1, <1>2, BothEnded
<1>5. Flows(<<>>, FALSE, sending[p], made[p], reading[e], received[e])
  BY <1>1, <1>2, <1>4 DEF Flow
<1>6. Flows(<<>>, FALSE, sending[p], made[p], NoRead, received[e])
  BY <1>3, <1>5, FlowTurn
<1>7. /\ reading' \in [Ends -> Readings] /\ reading'[p] = reading[p] /\ reading'[e] = NoRead
      /\ wire' \in [Ends -> Seq(Byte)] /\ Len(wire'[p]) <= Len(wire[p])
      /\ sock' \in [Ends -> SocketStates] /\ sock'[p] = sock[p] /\ sock'[e] # "estab"
  BY <1>1, <1>2, <1>3, LenProperties DEF Shape, SocketStates
<1>8. Flow(p)'
  BY <1>1, <1>2, <1>4, <1>6, <1>7 DEF Flow
<1>9. \A x \in Ends : (sock'[x] = "estab") <=> (sock[x] = "estab")
  BY <1>1, <1>2, <1>4, <1>7, Peers
<1> HIDE DEF p
<1> QED BY <1>1, <1>2, <1>7, <1>8, <1>9, InvReader DEF Shape, p

\* The id of a message is read.
LEMMA InvReadId == 
    ASSUME IInv, NEW e \in Ends, channeled_read_id(e)
    PROVE  IInv'
<1> DEFINE p == Peer(e)
           w == wire[p]
           live == sock[p] = "estab"
<1>1. Shape /\ Flow(p) /\ p \in Ends /\ p # e /\ Peer(p) = e
  BY Peers DEF IInv
<1>2. /\ reading[e].part = "id" /\ w # <<>>
      /\ wire' = [wire EXCEPT ![p] = Tail(w)]
      /\ UNCHANGED <<sock, sending, received, made, killed, faults>>
  BY DEF channeled_read_id
<1>3. PICK id \in Types : 
         /\ Head(w).at = 0 => id = Head(w).msg.type
         /\ reading' = [reading EXCEPT ![e] = [part |-> "body", id |-> id, got |-> <<>>]]
  BY DEF channeled_read_id
<1>4. Flows(w, live, sending[p], made[p], reading[e], received[e]) /\ live \in BOOLEAN
  BY <1>1 DEF Flow
<1>5. /\ w \in Seq(Byte) /\ Tail(w) \in Seq(Byte) /\ Len(Tail(w)) <= Len(w)
      /\ Head(w) = w[1]
  BY <1>1, <1>2, HeadTailProperties, LenProperties DEF Shape
<1>6. Head(w).at = 0
  BY <1>2, <1>4, <1>5 DEF Flows, ReaderContinues
<1> DEFINE r2 == [part |-> "body", id |-> id, got |-> <<>>]
<1>7. /\ r2 \in Readings /\ r2.part = "body" /\ r2.got = <<>> /\ r2.id = Head(w).msg.type
      /\ reading' = [reading EXCEPT ![e] = r2]
  BY <1>3, <1>6 DEF Readings
<1> HIDE DEF live, r2, w
<1>8. Flows(Tail(w), live, sending[p], made[p], r2, received[e])
  BY <1>2, <1>4, <1>7, FlowReadId
<1>9. /\ reading' \in [Ends -> Readings] /\ reading'[p] = reading[p] /\ reading'[e] = r2
      /\ wire' \in [Ends -> Seq(Byte)] /\ wire'[p] = Tail(w) /\ wire'[e] = wire[e]
  BY <1>1, <1>2, <1>5, <1>7 DEF Shape
<1>10. Flow(p)'
  BY <1>1, <1>2, <1>8, <1>9 DEF Flow, live
<1>11. Len(wire'[p]) <= Len(wire[p])
  BY <1>5, <1>9 DEF w
<1> HIDE DEF p
<1> QED BY <1>1, <1>2, <1>9, <1>10, <1>11, InvReader DEF Shape, p

\* What a turn of receive() takes from the wire: a part of the body of the
\* message m, or its rest, which makes the message of the callbacks.
LEMMA ReadTurn == 
    ASSUME IInv, NEW e \in Ends, channeled_read(e)
    PROVE  \E m \in Messages, count \in 1 .. Len(wire[Peer(e)]), bytes \in Seq(Byte) : 
              /\ Reads(wire[Peer(e)], sock[Peer(e)] = "estab", sending[Peer(e)], made[Peer(e)], reading[e], received[e], m)
              /\ bytes = reading[e].got \o SubSeq(wire[Peer(e)], 1, count)
              /\ Len(bytes) = Len(reading[e].got) + count /\ Len(bytes) <= Size[m.type]
              /\ \A i \in 1 .. count : wire[Peer(e)][i] = [msg |-> m, at |-> Len(reading[e].got) + i]
              /\ wire' = [wire EXCEPT ![Peer(e)] = SubSeq(wire[Peer(e)], count + 1, Len(wire[Peer(e)]))]
              /\ IF Len(bytes) = Size[m.type]
                 THEN /\ reading' = [reading EXCEPT ![e] = NoRead]
                      /\ received' = [received EXCEPT ![e] = m]
                 ELSE /\ reading' = [reading EXCEPT ![e].got = bytes]
                      /\ received' = received
<1> DEFINE p == Peer(e)
           w == wire[p]
           r == reading[e]
<1>1. /\ Shape /\ Flow(p) /\ p \in Ends /\ p # e /\ Peer(p) = e
      /\ w \in Seq(Byte) /\ r \in Readings
  BY Peers DEF IInv, Shape
<1>2. PICK count \in 1 .. Min({Asked(e), Len(w)}) :
         /\ wire' = [wire EXCEPT ![p] = SubSeq(w, count + 1, Len(w))]
         /\ IF Complete(r.id, r.got \o SubSeq(w, 1, count))
            THEN /\ reading' = [reading EXCEPT ![e] = NoRead]
                 /\ received' = [received EXCEPT ![e] = AsMessage(r.id, r.got \o SubSeq(w, 1, count))]
            ELSE /\ reading' = [reading EXCEPT ![e].got = r.got \o SubSeq(w, 1, count)]
                 /\ received' = received
  BY DEF channeled_read
<1>3. ReaderContinues(w, sock[p] = "estab", sending[p], made[p], r, received[e]) /\ r.part = "body"
  BY <1>1 DEF Flow, Flows, channeled_read
<1>4. PICK m \in Messages : Reads(w, sock[p] = "estab", sending[p], made[p], r, received[e], m)
  BY <1>3 DEF ReaderContinues
<1> DEFINE prev == [msg |-> m, at |-> Len(r.got)]
<1>5. /\ r.got \in Seq(Byte) /\ Len(r.got) \in Nat /\ Len(w) \in Nat
      /\ m.type \in Types /\ Size[m.type] \in Nat /\ m.type = r.id
      /\ Len(r.got) < Size[m.type] /\ IsBody(m, r.got) /\ Follow(prev, w)
  BY <1>1, <1>4, LenProperties, Data DEF Reads, Readings
<1>6. prev \in Byte /\ prev.msg = m /\ prev.at = Len(r.got)
  BY <1>5 DEF Byte
<1>7. count \in 1 .. Len(w) /\ count \in Nat /\ Len(r.got) + count <= Size[m.type]
  <2>1. Asked(e) = Size[m.type] - Len(r.got) /\ Asked(e) \in Int /\ Len(w) \in Int
    BY <1>5 DEF Asked
  <2>2. /\ Min({Asked(e), Len(w)}) \in Int /\ Min({Asked(e), Len(w)}) <= Asked(e) 
        /\ Min({Asked(e), Len(w)}) <= Len(w)
    BY <2>1, MinOfTwo
  <2>3. count \in Int /\ count >= 1 /\ count <= Asked(e) /\ count <= Len(w)
    BY <2>1, <2>2
  <2> QED BY <1>5, <2>1, <2>3
<1> DEFINE bytes == r.got \o SubSeq(w, 1, count)
<1> HIDE DEF prev
<1>p. \A i \in 1 .. count : w[i] = [msg |-> m, at |-> Len(r.got) + i]
  <2>1. prev.at + count <= Size[m.type]
    BY <1>6, <1>7
  <2>2. \A i \in 1 .. count : w[i] = [msg |-> m, at |-> prev.at + i]
    BY <1>1, <1>5, <1>6, <1>7, <2>1, BodyPlaces
  <2> QED BY <1>6, <2>2
<1>8. bytes \in Seq(Byte) /\ Len(bytes) = Len(r.got) + count /\ IsBody(m, bytes)
  BY <1>1, <1>5, <1>6, <1>7, BodyBytes
<1>9. ASSUME NEW b \in Seq(Byte), IsBody(m, b), Len(b) = Size[m.type], NEW id, id = m.type
      PROVE  AsMessage(id, b) = m
  <2>1. 1 \in 1 .. Len(b)
    BY <1>5, <1>9, Data
  <2>2. b[1].msg = m
    <3>1. b[1] = [msg |-> m, at |-> 1]
      BY <1>9, <2>1 DEF IsBody
    <3> QED BY <3>1
  <2>3. /\ Body(m) \in Seq(Byte) /\ Len(Body(m)) = Size[m.type]
        /\ \A i \in 1 .. Size[m.type] : Body(m)[i] = [msg |-> m, at |-> 1 + i - 1]
    BY <1>5, BytesOfMessage DEF Body
  <2>4. ASSUME NEW i \in 1 .. Len(b)
        PROVE  b[i] = Body(m)[i]
    <3>1. i \in 1 .. Size[m.type] /\ 1 + i - 1 = i
      BY <1>9, <1>5
    <3>2. b[i] = [msg |-> m, at |-> i]
      BY <1>9 DEF IsBody
    <3> QED BY <2>3, <3>1, <3>2
  <2>5. b = Body(m)
    BY <1>9, <2>3, <2>4, SeqEqual
  <2> QED BY <1>9, <2>2, <2>5 DEF AsMessage
<1>10. Complete(r.id, bytes) <=> Len(bytes) = Size[m.type]
  BY <1>5, <1>7, <1>8 DEF Complete
<1>11. Len(bytes) = Size[m.type] => AsMessage(r.id, bytes) = m
  BY <1>5, <1>8, <1>9
<1> HIDE DEF p, w, r, bytes
<1>12. /\ Len(bytes) <= Size[m.type]
       /\ IF Len(bytes) = Size[m.type]
          THEN reading' = [reading EXCEPT ![e] = NoRead] /\ received' = [received EXCEPT ![e] = m]
          ELSE reading' = [reading EXCEPT ![e].got = bytes] /\ received' = received
  BY <1>2, <1>7, <1>8, <1>10, <1>11 DEF bytes
<1> USE <1>7, <1>8 DEF p, w, r, bytes
<1> WITNESS m \in Messages, count \in 1 .. Len(w), bytes \in Seq(Byte)
<1> QED BY <1>2, <1>4, <1>p, <1>12

\* A part of a body is read, or its rest.
LEMMA InvRead == 
    ASSUME IInv, NEW e \in Ends, channeled_read(e)
    PROVE  IInv'
<1> DEFINE p == Peer(e)
           w == wire[p]
           r == reading[e]
           live == sock[p] = "estab"
<1>1. Shape /\ Flow(p) /\ p \in Ends /\ p # e /\ Peer(p) = e
  BY Peers DEF IInv
<1>2. PICK m \in Messages, count \in 1 .. Len(w), bytes \in Seq(Byte) :
         /\ Reads(w, live, sending[p], made[p], r, received[e], m)
         /\ bytes = r.got \o SubSeq(w, 1, count)
         /\ Len(bytes) = Len(r.got) + count /\ Len(bytes) <= Size[m.type]
         /\ \A i \in 1 .. count : w[i] = [msg |-> m, at |-> Len(r.got) + i]
         /\ wire' = [wire EXCEPT ![p] = SubSeq(w, count + 1, Len(w))]
         /\ IF Len(bytes) = Size[m.type]
            THEN /\ reading' = [reading EXCEPT ![e] = NoRead]
                 /\ received' = [received EXCEPT ![e] = m]
            ELSE /\ reading' = [reading EXCEPT ![e].got = bytes]
                 /\ received' = received
  BY ReadTurn
<1>3. r.part = "body" /\ UNCHANGED <<sock, sending, made, killed, faults>>
  BY DEF channeled_read
<1>4. Flows(w, live, sending[p], made[p], r, received[e]) /\ live \in BOOLEAN
  BY <1>1 DEF Flow
<1> DEFINE v == SubSeq(w, count + 1, Len(w))
<1>5. v \in Seq(Byte) /\ Len(v) <= Len(w)
  <2>1. w \in Seq(Byte) /\ Len(w) \in Nat /\ count \in 0 .. Len(w) /\ count \in Nat
    BY <1>1, LenProperties DEF Shape
  <2> QED BY <2>1, Rest
<1>6. /\ wire' \in [Ends -> Seq(Byte)] /\ wire'[p] = v /\ wire'[e] = wire[e]
  BY <1>1, <1>2, <1>5 DEF Shape
<1>7. m.type = r.id /\ r \in Readings
  BY <1>1, <1>2 DEF Reads, Shape
<1> HIDE DEF w, r, live, v
<1>8. CASE Len(bytes) = Size[m.type]
  <2>1. NoRead \in Readings /\ NoRead.part # "body"
    BY DEF NoRead, Readings
  <2>2. Len(r.got) + count = Size[m.type]
    BY <1>2, <1>8
  <2>3. Flows(v, live, sending[p], made[p], NoRead, m)
    BY <1>2, <1>4, <2>1, <2>2, FlowReadLast DEF v
  <2>4. /\ reading' \in [Ends -> Readings] /\ reading'[p] = reading[p] /\ reading'[e] = NoRead
        /\ received' \in [Ends -> Messages \cup {Nothing}] /\ received'[p] = received[p] /\ received'[e] = m
    BY <1>1, <1>2, <1>8, <2>1 DEF Shape
  <2>5. Flow(p)'
    BY <1>1, <1>3, <1>6, <2>3, <2>4 DEF Flow, live
  <2> HIDE DEF p
  <2> QED BY <1>1, <1>3, <1>5, <1>6, <2>4, <2>5, InvReader DEF Shape, p, w
<1>9. CASE Len(bytes) # Size[m.type]
  <2> DEFINE r2 == [r EXCEPT !.got = bytes]
  <2>1. r2 \in Readings /\ r2.part = "body" /\ r2.id = r.id /\ r2.got = bytes
    BY <1>3, <1>7 DEF Readings, r
  <2>2. Len(r.got) + count < Size[r.id]
    <3>1. Len(bytes) \in Nat /\ Size[m.type] \in Nat
      BY <1>2, LenProperties, Data
    <3> QED BY <1>2, <1>7, <1>9, <3>1
  <2>3. reading' = [reading EXCEPT ![e] = r2] /\ received' = received
    BY <1>2, <1>9 DEF r
  <2> HIDE DEF r2
  <2>4. r.part = "body" /\ r2.got = r.got \o SubSeq(w, 1, count)
    BY <1>2, <1>3, <2>1 DEF r
  <2>5. Flows(v, live, sending[p], made[p], r2, received[e])
    BY <1>4, <2>1, <2>2, <2>4, FlowReadPart DEF v
  <2>6. /\ reading' \in [Ends -> Readings] /\ reading'[p] = reading[p] /\ reading'[e] = r2
    BY <1>1, <2>1, <2>3 DEF Shape
  <2>7. Flow(p)'
    BY <1>1, <1>3, <1>6, <2>3, <2>5, <2>6 DEF Flow, live
  <2> HIDE DEF p
  <2> QED BY <1>1, <1>3, <1>5, <1>6, <2>3, <2>6, <2>7, InvReader DEF Shape, p, w
<1> QED BY <1>8, <1>9

\* What the invariant says of the initial states.
LEMMA InitInvariant == Init => IInv
<1> SUFFICES ASSUME Init PROVE IInv
  OBVIOUS
<1>1. <<>> \in Seq(Byte) /\ Len(<<>>) = 0
  OBVIOUS
<1>2. NoRead \in Readings /\ NoRead.part # "body" /\ NoSend \in Sendings
  BY DEF NoRead, Readings, Sendings
<1>3. Shape
  BY <1>1, <1>2, BoundsAssumption, CapacityAssumption DEF Init, Shape, SocketStates
<1>4. EndTogether
  BY DEF Init, EndTogether
<1>5. ASSUME NEW e \in Ends
      PROVE  Flow(e)
  <2>1. /\ wire[e] = <<>> /\ sock[e] = "estab" /\ sending[e] = NoSend /\ made[e] = 0
        /\ reading[Peer(e)] = NoRead /\ received[Peer(e)] = Nothing
    BY Peers DEF Init
  <2>2. WireInOrder(<<>>, 0, Nothing)
    BY DEF WireInOrder
  <2>3. SenderContinues(<<>>, TRUE, NoSend, 0, Nothing)
    BY Data DEF SenderContinues
  <2>4. ReaderContinues(<<>>, TRUE, NoSend, 0, NoRead, Nothing)
    BY <1>2, Data DEF ReaderContinues
  <2>5. Flows(<<>>, TRUE, NoSend, 0, NoRead, Nothing)
    BY <1>1, <1>2, <2>2, <2>3, <2>4 DEF Flows
  <2> QED BY <2>1, <2>5 DEF Flow
<1> QED BY <1>3, <1>4, <1>5 DEF IInv

\* Every step keeps it.
LEMMA NextStep == IInv /\ [Next]_vars => IInv'
<1> SUFFICES ASSUME IInv, [Next]_vars PROVE IInv'
  OBVIOUS
<1>1. CASE UNCHANGED vars
  BY <1>1 DEF vars, program_vars, IInv, Shape, EndTogether, Flow
<1>2. CASE connection_breaks
  BY <1>2, InvBreaks
<1>3. ASSUME NEW e \in Ends, \E t \in Types : channeled_send(e, t)
      PROVE  IInv'
  BY <1>3, InvBegin
<1>4. ASSUME NEW e \in Ends, Send(e)
      PROVE  IInv'
  BY <1>4, InvSend, InvToClosed, InvThrows, InvSigpipe DEF Send
<1>5. ASSUME NEW e \in Ends, send_interrupted(e)
      PROVE  IInv'
  BY <1>5, InvInterrupted
<1>6. ASSUME NEW e \in Ends, handleIncomingMessage(e)
      PROVE  IInv'
  BY <1>6, InvIncoming
<1>7. ASSUME NEW e \in Ends, Receive(e)
      PROVE  IInv'
  BY <1>7, InvReadId, InvRead, InvReceiveEnds DEF Receive
<1>8. ASSUME NEW e \in Ends, close_socket(e)
      PROVE  IInv'
  BY <1>8, InvClose
<1> QED BY <1>1, <1>2, <1>3, <1>4, <1>5, <1>6, <1>7, <1>8 DEF Next

-----------------------------------------------------------------------------
(* The messages under way are a queue.                                      *)

\* The messages with their last byte in w: UnderWay(e) is Finished(wire[e]).
Finished(w) == {w[i].msg : i \in {k \in DOMAIN w : IsLast(w[k])}}

\* A message with its last byte in w, and the place of that byte.
LEMMA FinishedIn == 
    ASSUME NEW w \in Seq(Byte)
    PROVE  /\ \A m : m \in Finished(w) <=> \E i \in 1 .. Len(w) : w[i].msg = m /\ w[i].at = Size[m.type]
           /\ Finished(w) \subseteq Messages
<1>1. DOMAIN w = 1 .. Len(w)
  BY LenProperties
<1>2. \A i \in 1 .. Len(w) : w[i].msg \in Messages
  BY <1>1, ElementOfSeq, Data
<1> QED BY <1>1, <1>2 DEF Finished, IsLast

\* A last byte has a byte of a later message after it.
LEMMA AfterLast == 
    ASSUME NEW w \in Seq(Byte), NEW k, NEW l, WireInOrder(w, k, l),
           NEW i \in 1 .. Len(w), NEW j \in 1 .. Len(w), i < j, w[i].at = Size[w[i].msg.type]
    PROVE  w[i].msg.n < w[j].msg.n
<1>1. Apart(w[i], w[j], j - i)
  BY DEF WireInOrder
<1>2. w[i] \in Byte /\ j - i \in Nat /\ j - i > 0
  BY ElementOfSeq, LenProperties
<1>3. w[i].at + 0 = Size[w[i].msg.type]
  BY <1>2, Data
<1> QED BY <1>1, <1>2, <1>3, ApartNext

\* When bytes at the end are lost, so are messages at the end.
LEMMA FinishedCut == 
    ASSUME NEW w \in Seq(Byte), NEW k, NEW l, WireInOrder(w, k, l), NEW v \in Prefixes(w)
    PROVE  Queue!IsCutFrom(Finished(v), Finished(w))
<1>1. PICK n \in 0 .. Len(w) : v = SubSeq(w, 1, n)
  BY DEF Prefixes
<1>2. v \in Seq(Byte) /\ Len(v) = n /\ \A i \in 1 .. n : v[i] = w[i]
  BY <1>1, Beginning
<1>3. Len(w) \in Nat /\ n \in Nat /\ n <= Len(w) /\ \A i \in 1 .. Len(v) : i \in 1 .. Len(w) /\ v[i] = w[i]
  BY <1>2, LenProperties
<1>4. Finished(v) \subseteq Finished(w)
  BY <1>2, <1>3, FinishedIn
<1>5. ASSUME NEW m \in Finished(v), NEW x \in Finished(w), x.n < m.n
      PROVE  x \in Finished(v)
  <2>1. PICK i \in 1 .. Len(v) : v[i].msg = m /\ v[i].at = Size[m.type]
    BY <1>2, FinishedIn
  <2>2. PICK j \in 1 .. Len(w) : w[j].msg = x /\ w[j].at = Size[x.type]
    BY FinishedIn
  <2>3. i \in 1 .. Len(w) /\ w[i].msg = m /\ w[i].at = Size[m.type] /\ m.n \in Nat /\ x.n \in Nat
    BY <1>3, <1>4, <2>1, FinishedIn, Data
  <2>4. ~ (i < j)
    BY <1>5, <2>2, <2>3, AfterLast
  <2>5. j \in 1 .. Len(v)
    BY <1>2, <1>3, <2>4
  <2>6. v[j] = w[j]
    BY <1>2, <1>3, <2>5
  <2> QED BY <1>2, <2>2, <2>5, <2>6, FinishedIn
<1> QED BY <1>4, <1>5 DEF Queue!IsCutFrom

\* With its last byte a message is under way, and no other one.
LEMMA FinishedSend == 
    ASSUME NEW w \in Seq(Byte), NEW m \in Messages, NEW first \in Nat, NEW count \in Nat \ {0},
           first + count <= Size[m.type] + 1
    PROVE  Finished(w \o Bytes(m, first, count)) 
              = IF first + count > Size[m.type] THEN Finished(w) \cup {m} ELSE Finished(w)
<1> DEFINE c == Bytes(m, first, count)
           v == w \o c
<1>0. Len(w) \in Nat /\ Size[m.type] \in Nat /\ count \in Nat /\ count >= 1
  BY LenProperties, Data
<1>1. /\ c \in Seq(Byte) /\ Len(c) = count
      /\ \A i \in 1 .. count : c[i] = [msg |-> m, at |-> first + i - 1]
  BY <1>0, BytesOfMessage
<1> HIDE DEF c
<1>2. /\ v \in Seq(Byte) /\ Len(v) = Len(w) + count
      /\ \A i \in 1 .. Len(w) + count : v[i] = IF i <= Len(w) THEN w[i] ELSE c[i - Len(w)]
  BY <1>1, ConcatProperties
<1> HIDE DEF v
<1>3. ASSUME NEW i \in 1 .. count
      PROVE  /\ Len(w) + i \in 1 .. Len(v) 
             /\ v[Len(w) + i].msg = m /\ v[Len(w) + i].at = first + i - 1
  <2>1. Len(w) + i \in 1 .. Len(w) + count /\ ~ (Len(w) + i <= Len(w)) /\ (Len(w) + i) - Len(w) = i
    BY <1>0
  <2>2. v[Len(w) + i] = c[i]
    BY <1>2, <2>1
  <2>3. c[i] = [msg |-> m, at |-> first + i - 1]
    BY <1>1
  <2> QED BY <1>2, <2>1, <2>2, <2>3
<1>4. ASSUME NEW i \in 1 .. Len(w)
      PROVE  i \in 1 .. Len(v) /\ v[i] = w[i]
  <2>1. i \in 1 .. Len(w) + count /\ i <= Len(w)
    BY <1>0
  <2> QED BY <1>2, <2>1
<1>5. ASSUME NEW x \in Finished(v)
      PROVE  x \in Finished(w) \/ (x = m /\ first + count > Size[m.type])
  <2>1. PICK i \in 1 .. Len(v) : v[i].msg = x /\ v[i].at = Size[x.type]
    BY <1>2, FinishedIn
  <2>2. i \in Int /\ (i <= Len(w) \/ i > Len(w))
    BY <1>0
  <2>3. CASE i > Len(w)
    <3>1. i - Len(w) \in 1 .. count /\ Len(w) + (i - Len(w)) = i
      BY <1>0, <1>2, <2>3
    <3>2. v[i].msg = m /\ v[i].at = first + (i - Len(w)) - 1
      BY <1>3, <3>1
    <3>3. x = m /\ first + (i - Len(w)) - 1 = Size[m.type]
      BY <2>1, <3>2
    <3> QED BY <1>0, <3>1, <3>3
  <2>4. CASE i <= Len(w)
    <3>1. i \in 1 .. Len(w)
      BY <1>0, <2>2, <2>4
    <3> QED BY <1>4, <2>1, <3>1, FinishedIn
  <2> QED BY <2>2, <2>3, <2>4
<1>6. ASSUME NEW x \in Finished(w)
      PROVE  x \in Finished(v)
  <2>1. PICK i \in 1 .. Len(w) : w[i].msg = x /\ w[i].at = Size[x.type]
    BY FinishedIn
  <2>2. i \in 1 .. Len(v) /\ v[i].msg = x /\ v[i].at = Size[x.type]
    BY <1>4, <2>1
  <2> QED BY <1>2, <2>2, FinishedIn
<1>7. ASSUME first + count > Size[m.type]
      PROVE  m \in Finished(v)
  <2>1. count \in 1 .. count /\ first + count - 1 = Size[m.type]
    BY <1>0, <1>7
  <2>2. /\ Len(w) + count \in 1 .. Len(v) 
        /\ v[Len(w) + count].msg = m /\ v[Len(w) + count].at = Size[m.type]
    BY <1>3, <2>1
  <2> QED BY <1>2, <2>2, FinishedIn
<1> QED BY <1>5, <1>6, <1>7 DEF v, c

\* v is what is left of w after count bytes.
IsRest(v, w, count) == 
    v \in Seq(Byte) /\ Len(v) = Len(w) - count /\ \A i \in 1 .. Len(v) : v[i] = w[count + i]

\* The messages of the rest of the wire, and of what was taken from it.
LEMMA FinishedRest == 
    ASSUME NEW w \in Seq(Byte), NEW count \in 0 .. Len(w), NEW v, IsRest(v, w, count)
    PROVE  /\ Finished(v) \subseteq Finished(w)
           /\ \A m \in Finished(w) : 
                 m \in Finished(v) \/ \E i \in 1 .. count : w[i].msg = m /\ w[i].at = Size[m.type]
<1>0. Len(w) \in Nat /\ count \in Nat /\ count <= Len(w)
  BY LenProperties
<1>r. v \in Seq(Byte) /\ Len(v) = Len(w) - count /\ \A i \in 1 .. Len(v) : v[i] = w[count + i]
  BY DEF IsRest
<1>1. ASSUME NEW m \in Finished(v)
      PROVE  m \in Finished(w)
  <2>1. PICK i \in 1 .. Len(v) : v[i].msg = m /\ v[i].at = Size[m.type]
    BY <1>r, FinishedIn
  <2>2. count + i \in 1 .. Len(w)
    BY <1>0, <1>r
  <2> QED BY <1>r, <2>1, <2>2, FinishedIn
<1>2. ASSUME NEW m \in Finished(w), ~ \E i \in 1 .. count : w[i].msg = m /\ w[i].at = Size[m.type]
      PROVE  m \in Finished(v)
  <2>1. PICK j \in 1 .. Len(w) : w[j].msg = m /\ w[j].at = Size[m.type]
    BY FinishedIn
  <2>2. j \in Int /\ ~ (j \in 1 .. count)
    BY <1>2, <2>1
  <2>3. j - count \in 1 .. Len(v) /\ count + (j - count) = j
    BY <1>0, <1>r, <2>2
  <2>4. v[j - count] = w[j]
    BY <1>r, <2>3
  <2> QED BY <1>r, <2>1, <2>3, <2>4, FinishedIn
<1> QED BY <1>1, <1>2

\* A step in which no message begins or ceases to be under way.
LEMMA QueueSame == 
    ASSUME \A x \in Ends : Finished(wire'[x]) = Finished(wire[x]),
           \A x \in Ends : (sock'[x] = "estab") <=> (sock[x] = "estab"),
           received' = received
    PROVE  UNCHANGED Queue!vars
<1>1. \A x \in Ends : UnderWay(x)' = UnderWay(x)
  BY DEF UnderWay, Finished
<1>2. [x \in Ends |-> UnderWay(x)]' = [x \in Ends |-> UnderWay(x)]
  BY <1>1
<1>3. (\E x \in Ends : sock[x] # "estab")' = (\E x \in Ends : sock[x] # "estab")
  OBVIOUS
<1> QED BY <1>2, <1>3 DEF Queue!vars

\* A step in which the connection ends or stays ended.
LEMMA QueueEnds == 
    ASSUME IInv, \A x \in Ends : wire'[x] \in Prefixes(wire[x]),
           \A x \in Ends : sock'[x] # "estab", received' = received
    PROVE  Queue!End
<1>1. \A x \in Ends : Queue!IsCutFrom(UnderWay(x)', UnderWay(x))
  <2>1. ASSUME NEW x \in Ends
        PROVE  Queue!IsCutFrom(Finished(wire'[x]), Finished(wire[x]))
    <3>1. wire[x] \in Seq(Byte) /\ WireInOrder(wire[x], made[x], received[Peer(x)])
      BY DEF IInv, Flow, Flows
    <3> QED BY <3>1, FinishedCut
  <2> QED BY <2>1 DEF UnderWay, Finished
<1>2. \E x \in Ends : sock'[x] # "estab"
  BY TwoEnds
<1> QED BY <1>1, <1>2 DEF Queue!End

\* One turn of send(): with the last byte the message is sent.
LEMMA QueueSend == 
    ASSUME IInv, NEW e \in Ends, socket_send(e)
    PROVE  Queue!Send(e) \/ UNCHANGED Queue!vars
<1> DEFINE s == sending[e]
<1>1. /\ Shape /\ Flow(e) /\ EndTogether /\ Peer(e) \in Ends /\ Peer(e) # e
  BY Peers DEF IInv
<1>2. PICK count \in Accepted(e) : wire' = [wire EXCEPT ![e] = @ \o Chunk(e, count)]
  BY DEF socket_send
<1>3. InSend(e) /\ sock[e] = "estab" /\ UNCHANGED <<sock, reading, received, made, killed, faults>>
  BY DEF socket_send
<1>4. /\ wire[e] \in Seq(Byte) /\ Len(wire[e]) \in Nat /\ Free(e) \in Int
      /\ s \in Byte /\ s.msg \in Messages /\ s.at \in Nat /\ Size[s.msg.type] \in Nat
      /\ LeftToSend(e) \in Int /\ s.at + LeftToSend(e) <= Size[s.msg.type] + 1
  BY <1>1, <1>3, SendLeft, Data, LenProperties DEF Shape, Free
<1>5. count \in Nat \ {0} /\ s.at + count <= Size[s.msg.type] + 1
  <2>1. /\ Min({LeftToSend(e), Free(e)}) \in Int 
        /\ Min({LeftToSend(e), Free(e)}) <= LeftToSend(e)
    BY <1>4, MinOfTwo
  <2>2. count \in 1 .. Min({LeftToSend(e), Free(e)})
    BY DEF Accepted
  <2>3. count \in Int /\ count >= 1 /\ count <= LeftToSend(e)
    BY <1>4, <2>1, <2>2
  <2>4. /\ s.at \in Nat /\ LeftToSend(e) \in Int /\ Size[s.msg.type] \in Nat
        /\ s.at + LeftToSend(e) <= Size[s.msg.type] + 1
    BY <1>4
  <2> HIDE DEF s
  <2> QED BY <2>3, <2>4
<1>6. /\ wire'[e] = wire[e] \o Bytes(s.msg, s.at, count)
      /\ \A x \in Ends : x # e => wire'[x] = wire[x]
  BY <1>1, <1>2 DEF Chunk, Shape
<1> HIDE DEF s
<1>7. Finished(wire'[e]) = IF s.at + count > Size[s.msg.type] 
                           THEN Finished(wire[e]) \cup {s.msg} ELSE Finished(wire[e])
  <2>1. Finished(wire[e] \o Bytes(s.msg, s.at, count)) 
           = IF s.at + count > Size[s.msg.type] THEN Finished(wire[e]) \cup {s.msg} ELSE Finished(wire[e])
    BY <1>4, <1>5, FinishedSend
  <2> QED BY <1>6, <2>1
<1>8. CASE ~ (s.at + count > Size[s.msg.type])
  <2>1. \A x \in Ends : Finished(wire'[x]) = Finished(wire[x])
    BY <1>6, <1>7, <1>8
  <2> QED BY <1>3, <2>1, QueueSame
<1>9. CASE s.at + count > Size[s.msg.type]
  <2>1. /\ \A i \in 1 .. Len(wire[e]) : Apart(wire[e][i], s, Len(wire[e]) + 1 - i)
        /\ Later(received[Peer(e)], s.msg)
    BY <1>1, <1>3, <1>4 DEF Flow, Flows, SenderContinues, s
  <2>2. ASSUME NEW k \in Finished(wire[e])
        PROVE  k.n < s.msg.n
    <3>1. PICK i \in 1 .. Len(wire[e]) : wire[e][i].msg = k /\ wire[e][i].at = Size[k.type]
      BY <1>4, FinishedIn
    <3>2. /\ wire[e][i] \in Byte /\ Len(wire[e]) + 1 - i \in Nat /\ Len(wire[e]) + 1 - i > 0
          /\ Apart(wire[e][i], s, Len(wire[e]) + 1 - i)
      BY <1>4, <2>1, ElementOfSeq
    <3>3. wire[e][i].at + 0 = Size[wire[e][i].msg.type]
      BY <3>1, <3>2, Data
    <3> QED BY <3>1, <3>2, <3>3, ApartNext
  <2>3. [x \in Ends |-> Finished(wire[x])]' 
           = [[x \in Ends |-> Finished(wire[x])] EXCEPT ![e] = @ \cup {s.msg}]
    BY <1>6, <1>7, <1>9
  <2>4. ~ (\E x \in Ends : sock[x] # "estab")
    BY <1>1, <1>3 DEF EndTogether
  <2>5. (\E x \in Ends : sock[x] # "estab")' = (\E x \in Ends : sock[x] # "estab")
    BY <1>3
  <2>6. Queue!Send(e)
    BY <1>3, <1>4, <2>1, <2>2, <2>3, <2>4, <2>5 
    DEF Queue!Send, Queue!Peer, Peer, UnderWay, Finished, Later
  <2> QED BY <2>6
<1> QED BY <1>8, <1>9

\* The id of a message is read: no last byte.
LEMMA QueueReadId == 
    ASSUME IInv, NEW e \in Ends, channeled_read_id(e)
    PROVE  UNCHANGED Queue!vars
<1> DEFINE p == Peer(e)
           w == wire[p]
<1>1. Shape /\ Flow(p) /\ p \in Ends /\ p # e /\ Peer(p) = e
  BY Peers DEF IInv
<1>2. /\ reading[e].part = "id" /\ w # <<>>
      /\ wire' = [wire EXCEPT ![p] = Tail(w)]
      /\ UNCHANGED <<sock, received>>
  BY DEF channeled_read_id
<1>3. /\ w \in Seq(Byte) /\ Len(w) \in Nat /\ Len(w) >= 1
      /\ Tail(w) \in Seq(Byte) /\ Len(Tail(w)) = Len(w) - 1
      /\ \A i \in 1 .. Len(Tail(w)) : Tail(w)[i] = w[i + 1]
  BY <1>1, <1>2, HeadTailProperties, LenProperties, EmptySeq DEF Shape
<1>4. w[1].at = 0 /\ w[1] \in Byte
  BY <1>1, <1>2, <1>3, ElementOfSeq DEF Flow, Flows, ReaderContinues
<1> HIDE DEF w
<1>5. Finished(Tail(w)) = Finished(w)
  <2>1. 1 \in 0 .. Len(w) /\ IsRest(Tail(w), w, 1)
    BY <1>3 DEF IsRest
  <2>2. /\ Finished(Tail(w)) \subseteq Finished(w)
        /\ \A m \in Finished(w) : 
              m \in Finished(Tail(w)) \/ \E i \in 1 .. 1 : w[i].msg = m /\ w[i].at = Size[m.type]
    BY <1>3, <2>1, FinishedRest
  <2>3. \A i \in 1 .. 1 : w[i].at # Size[w[i].msg.type]
    BY <1>4, Data
  <2> QED BY <2>2, <2>3
<1>6. \A x \in Ends : Finished(wire'[x]) = Finished(wire[x])
  BY <1>1, <1>2, <1>5 DEF Shape, w
<1> QED BY <1>2, <1>6, QueueSame

\* A part of a body is read: no last byte.  With its rest the message is
\* handed over, the first one that is under way.
LEMMA QueueRead == 
    ASSUME IInv, NEW e \in Ends, channeled_read(e)
    PROVE  Queue!HandOver(Peer(e)) \/ UNCHANGED Queue!vars
<1> DEFINE p == Peer(e)
           w == wire[p]
           r == reading[e]
           live == sock[p] = "estab"
<1>1. Shape /\ Flow(p) /\ p \in Ends /\ p # e /\ Peer(p) = e
  BY Peers DEF IInv
<1>2. PICK m \in Messages, count \in 1 .. Len(w), bytes \in Seq(Byte) :
         /\ Reads(w, live, sending[p], made[p], r, received[e], m)
         /\ bytes = r.got \o SubSeq(w, 1, count)
         /\ Len(bytes) = Len(r.got) + count /\ Len(bytes) <= Size[m.type]
         /\ \A i \in 1 .. count : w[i] = [msg |-> m, at |-> Len(r.got) + i]
         /\ wire' = [wire EXCEPT ![p] = SubSeq(w, count + 1, Len(w))]
         /\ IF Len(bytes) = Size[m.type]
            THEN /\ reading' = [reading EXCEPT ![e] = NoRead]
                 /\ received' = [received EXCEPT ![e] = m]
            ELSE /\ reading' = [reading EXCEPT ![e].got = bytes]
                 /\ received' = received
  BY ReadTurn
<1>3. UNCHANGED sock
  BY DEF channeled_read
<1>4. Flows(w, live, sending[p], made[p], r, received[e]) /\ live \in BOOLEAN
  BY <1>1 DEF Flow
<1> DEFINE v == SubSeq(w, count + 1, Len(w))
<1>5. /\ w \in Seq(Byte) /\ Len(w) \in Nat /\ count \in 0 .. Len(w) /\ count \in Nat /\ count >= 1
      /\ Size[m.type] \in Nat /\ r \in Readings
  BY <1>1, LenProperties, Data DEF Shape
<1>6. v \in Seq(Byte) /\ Len(v) = Len(w) - count /\ \A i \in 1 .. Len(w) - count : v[i] = w[count + i]
  BY <1>5, Rest
<1>n. Len(r.got) \in Nat
  BY <1>5, LenProperties DEF Readings
<1>7. wire'[p] = v /\ \A x \in Ends : x # p => wire'[x] = wire[x]
  BY <1>1, <1>2 DEF Shape
<1> HIDE DEF w, r, live, v
<1>8. /\ Finished(v) \subseteq Finished(w)
      /\ \A x \in Finished(w) : 
            x \in Finished(v) \/ \E i \in 1 .. count : w[i].msg = x /\ w[i].at = Size[x.type]
  <2>1. IsRest(v, w, count)
    BY <1>6 DEF IsRest
  <2> QED BY <1>5, <2>1, FinishedRest
<1>9. \A i \in 1 .. count : w[i].msg = m /\ w[i].at = Len(r.got) + i
  <2>1. ASSUME NEW i \in 1 .. count
        PROVE  w[i].msg = m /\ w[i].at = Len(r.got) + i
    <3>1. w[i] = [msg |-> m, at |-> Len(r.got) + i]
      BY <1>2
    <3> QED BY <3>1
  <2> QED BY <2>1
<1>10. CASE Len(bytes) # Size[m.type]
  <2>1. \A i \in 1 .. count : Len(r.got) + i # Size[m.type]
    BY <1>2, <1>5, <1>n, <1>10
  <2>2. Finished(v) = Finished(w)
    BY <1>8, <1>9, <2>1
  <2>3. \A x \in Ends : Finished(wire'[x]) = Finished(wire[x])
    BY <1>7, <2>2 DEF w
  <2>4. received' = received
    BY <1>2, <1>10
  <2> QED BY <1>3, <2>3, <2>4, QueueSame
<1>11. CASE Len(bytes) = Size[m.type]
  <2>1. NoRead \in Readings /\ NoRead.part # "body"
    BY DEF NoRead, Readings
  <2>2. Len(r.got) + count = Size[m.type]
    BY <1>2, <1>11
  <2>3. Flows(v, live, sending[p], made[p], NoRead, m)
    BY <1>2, <1>4, <2>1, <2>2, FlowReadLast DEF v
  <2>4. m \in Finished(w)
    <3>1. count \in 1 .. Len(w) /\ w[count].msg = m /\ w[count].at = Size[m.type]
      BY <1>5, <1>9, <2>2
    <3> QED BY <1>5, <3>1, FinishedIn
  <2>5. \A x \in Finished(v) : m.n < x.n
    <3>1. \A i \in 1 .. Len(v) : m.n < v[i].msg.n
      BY <2>3, Data DEF Flows, WireInOrder, Later
    <3> QED BY <1>6, <3>1, FinishedIn
  <2>6. m \notin Finished(v)
    BY <2>5, Data
  <2>7. Finished(v) = Finished(w) \ {m}
    BY <1>8, <1>9, <2>6
  <2>8. \A x \in Finished(w) : m.n <= x.n
    BY <1>5, <2>5, <2>7, FinishedIn, Data
  <2>9. [x \in Ends |-> Finished(wire[x])]' 
           = [[x \in Ends |-> Finished(wire[x])] EXCEPT ![p] = @ \ {m}]
    BY <1>7, <2>7 DEF w
  <2>10. received' = [received EXCEPT ![Peer(p)] = m]
    BY <1>1, <1>2, <1>11
  <2>11. (\E x \in Ends : sock[x] # "estab")' = (\E x \in Ends : sock[x] # "estab")
    BY <1>3
  <2> HIDE DEF p
  <2>12. Queue!HandOver(p)
    BY <1>1, <2>4, <2>8, <2>9, <2>10, <2>11 
    DEF Queue!HandOver, Queue!Peer, Peer, UnderWay, Finished, w
  <2> QED BY <2>12 DEF p
<1> QED BY <1>10, <1>11

\* Every step is one of the queue, or none.
LEMMA QueueStep == IInv /\ [Next]_vars => [Queue!Next]_Queue!vars
<1> SUFFICES ASSUME IInv, [Next]_vars PROVE Queue!Next \/ UNCHANGED Queue!vars
  OBVIOUS
<1>0. /\ \A x \in Ends : wire[x] \in Seq(Byte)
      /\ \A x \in Ends : wire[x] \in Prefixes(wire[x])
  BY PrefixesOf DEF IInv, Shape
<1>1. CASE UNCHANGED vars
  BY <1>1, QueueSame DEF vars, program_vars
<1>2. CASE connection_breaks
  <2>1. /\ wire' \in [Ends -> UNION {Prefixes(wire[x]) : x \in Ends}]
        /\ \A x \in Ends : IsPrefix(wire'[x], wire[x])
        /\ \A x \in Ends : sock'[x] # "estab" 
        /\ received' = received
    BY <1>2 DEF connection_breaks, program_vars
  <2>2. \A x \in Ends : \A v \in Prefixes(wire[x]) : v \in Seq(Byte)
    BY <1>0, PrefixesOf
  <2>3. ASSUME NEW x \in Ends
        PROVE  wire'[x] \in Prefixes(wire[x])
    <3>1. wire'[x] \in Seq(Byte)
      BY <2>1, <2>2
    <3> QED BY <1>0, <2>1, <3>1, PrefixesOf
  <2> QED BY <2>1, <2>3, QueueEnds DEF Queue!Next
<1>3. ASSUME NEW e \in Ends, close_socket(e) \/ send_raises_sigpipe(e)
      PROVE  Queue!Next
  <2>1. Closes(e) /\ received' = received /\ Shape
    BY <1>3 DEF close_socket, send_raises_sigpipe, program_vars, IInv
  <2>2. \A x \in Ends : wire'[x] \in Prefixes(wire[x]) /\ sock'[x] # "estab"
    BY <2>1, ClosesEnds
  <2> QED BY <2>1, <2>2, QueueEnds DEF Queue!Next
<1>4. ASSUME NEW e \in Ends, send_throws(e) \/ socket_send_to_closed(e) \/ receive_ends(e)
      PROVE  UNCHANGED Queue!vars
  <2>1. /\ sock[e] \in SocketStates \ {"estab"} /\ sock \in [Ends -> SocketStates]
        /\ \E st \in SocketStates \ {"estab"} : sock' = [sock EXCEPT ![e] = st]
        /\ wire' = wire /\ received' = received
    BY <1>4 DEF send_throws, socket_send_to_closed, receive_ends, SocketStates, IInv, Shape
  <2>2. \A x \in Ends : (sock'[x] = "estab") <=> (sock[x] = "estab")
    BY <2>1
  <2> QED BY <2>1, <2>2, QueueSame
<1>5. ASSUME NEW e \in Ends, 
             \/ \E t \in Types : channeled_send(e, t)
             \/ send_interrupted(e)
             \/ handleIncomingMessage(e)
      PROVE  UNCHANGED Queue!vars
  <2>1. wire' = wire /\ sock' = sock /\ received' = received
    BY <1>5 DEF channeled_send, send_interrupted, handleIncomingMessage
  <2> QED BY <2>1, QueueSame
<1>6. ASSUME NEW e \in Ends, socket_send(e)
      PROVE  Queue!Next \/ UNCHANGED Queue!vars
  BY <1>6, QueueSend DEF Queue!Next
<1>7. ASSUME NEW e \in Ends, channeled_read_id(e)
      PROVE  UNCHANGED Queue!vars
  BY <1>7, QueueReadId
<1>8. ASSUME NEW e \in Ends, channeled_read(e)
      PROVE  Queue!Next \/ UNCHANGED Queue!vars
  BY <1>8, QueueRead, Peers DEF Queue!Next
<1> QED BY <1>1, <1>2, <1>3, <1>4, <1>5, <1>6, <1>7, <1>8 DEF Next, Send, Receive

-----------------------------------------------------------------------------
\* The bytes on the wire fit the capacity and belong to messages that were
\* begun, a send() goes on inside its message and a receive() asks for what is
\* left of its body: no turn of the two loops reads or writes past the end of
\* a buffer.
THEOREM TypeCorrect == Spec => []TypeOK
<1>1. IInv => TypeOK
  <2> SUFFICES ASSUME IInv PROVE TypeOK
    OBVIOUS
  <2>1. Shape /\ \A e \in Ends : Flow(e)
    BY DEF IInv
  <2>2. wire \in [Ends -> Seq([msg : Messages, at : Nat])]
    BY <2>1 DEF Shape, Byte
  <2>3. ASSUME NEW e \in Ends, InSend(e)
        PROVE  sending[e].msg \in Messages /\ sending[e].at \in 0 .. Size[sending[e].msg.type]
    <3>1. sending[e] \in Byte
      BY <2>1, <2>3 DEF Shape, Sendings, InSend
    <3>2. sending[e].at <= Size[sending[e].msg.type]
      BY <2>1, <3>1 DEF Flow, Flows, SenderContinues
    <3> QED BY <3>1, <3>2, Data
  <2>4. ASSUME NEW e \in Ends, reading[e].part = "body"
        PROVE  Len(reading[e].got) < Size[reading[e].id]
    <3> DEFINE p == Peer(e)
    <3>1. p \in Ends /\ Peer(p) = e
      BY Peers
    <3>2. ReaderContinues(wire[p], sock[p] = "estab", sending[p], made[p], reading[e], received[e])
      BY <2>1, <3>1 DEF Flow, Flows
    <3> QED BY <2>4, <3>2 DEF ReaderContinues, Reads
  <2>5. received \in [Ends -> [type : Types, n : 0 .. MaxMessages] \cup {Nothing}]
    <3>1. Messages \subseteq [type : Types, n : 0 .. MaxMessages]
      BY BoundsAssumption DEF Messages
    <3> QED BY <2>1, <3>1 DEF Shape
  <2> QED BY <2>1, <2>2, <2>3, <2>4, <2>5 DEF TypeOK, Shape
<1> QED BY <1>1, InitInvariant, NextStep, PTL DEF Spec

\* However the kernel cuts the bytes on their way, and wherever a send, a
\* receive or the connection ended: the byte that handleIncomingMessage() reads
\* for a channel id was sent as one.
THEOREM IdsAreIds == Spec => []ReadsStartAtAnId
<1>1. IInv => ReadsStartAtAnId
  <2> SUFFICES ASSUME IInv, NEW e \in Ends, reading[e].part # "body", wire[Peer(e)] # <<>>
               PROVE  Head(wire[Peer(e)]).at = 0
    BY DEF ReadsStartAtAnId
  <2> DEFINE p == Peer(e)
  <2>1. p \in Ends /\ Peer(p) = e
    BY Peers
  <2>2. /\ wire[p] \in Seq(Byte)
        /\ ReaderContinues(wire[p], sock[p] = "estab", sending[p], made[p], reading[e], received[e])
    BY <2>1 DEF IInv, Flow, Flows
  <2>3. wire[p][1].at = 0
    BY <2>2 DEF ReaderContinues
  <2> QED BY <2>2, <2>3, HeadTailProperties
<1> QED BY <1>1, InitInvariant, NextStep, PTL DEF Spec

\* A connection of two channeled sockets implements the queue of messages: what
\* channeled_send() sent is handed to the callbacks whole, once, with its type
\* and in the order of sending, until the connection ends, which loses messages
\* only from the end of the queue.
THEOREM ImplementsQueue == Spec => QueueSpec
<1>1. Init => Queue!Init
  <2> SUFFICES ASSUME Init PROVE Queue!Init
    OBVIOUS
  <2>1. \A e \in Ends : UnderWay(e) = {}
    BY DEF Init, UnderWay
  <2> QED BY <2>1 DEF Init, Queue!Init
<1> QED BY <1>1, InitInvariant, NextStep, QueueStep, PTL DEF Spec, QueueSpec, Queue!Spec
=============================================================================
