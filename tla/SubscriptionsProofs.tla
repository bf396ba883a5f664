------------------------ MODULE SubscriptionsProofs ------------------------
(***************************************************************************)
(* Ids find their callbacks and channels agree on types, for any number of *)
(* types, of channel ids and of subscriptions; a propagation reaches every *)
(* subscriber as long as callbacks leave the subscription calling them     *)
(* alone.                                                                  *)
(***************************************************************************)
EXTENDS Subscriptions, FiniteSetTheorems, TLAPS

\* The two maps of Channels are inverse, and the ids given so far are those
\* below the number of channels: the counter has not come round yet.
ChannelsInv == 
    /\ DOMAIN types_to_ids \subseteq Types
    /\ channel_counter = Cardinality(DOMAIN types_to_ids) % W
    /\ \A t \in DOMAIN types_to_ids : 
          /\ types_to_ids[t] \in 0 .. Cardinality(DOMAIN types_to_ids) - 1
          /\ types_to_ids[t] \in DOMAIN ids_to_channels
          /\ ids_to_channels[types_to_ids[t]] = t
    /\ \A i \in DOMAIN ids_to_channels : 
          /\ ids_to_channels[i] \in DOMAIN types_to_ids
          /\ types_to_ids[ids_to_channels[i]] = i

\* Each callback in a subscription has a handle that is still kept, and its
\* id is below the counter the next id is taken from.
SubscriptionsInv == 
    \A c \in DOMAIN subscriptions : 
        LET s == subscriptions[c]
        IN /\ c \in DOMAIN ids_to_channels
           /\ DOMAIN s = {"type", "subscription_counter", "callbacks"}
           /\ s.type = ids_to_channels[c]
           /\ s.subscription_counter \in Nat
           /\ \A i \in DOMAIN s.callbacks : 
                 /\ i \in 0 .. s.subscription_counter - 1
                 /\ [type |-> ids_to_channels[c], id |-> i, callback |-> s.callbacks[i]] \in held

\* The converse, and two handles never name the same callback.
HandlesInv == 
    /\ made \in 0 .. MaxMade
    /\ \A h \in held : 
          /\ h \in [type : Types, id : Nat, callback : 1 .. made]
          /\ h.type \in DOMAIN types_to_ids
    /\ HandlesFindTheirCallbacks
    /\ \A g, h \in held : g.callback = h.callback => g = h

\* What the loop has not reached is in the map it runs over.
LoopInv == 
    /\ DOMAIN loop = {"channel", "todo", "running", "dangling", "due", "done"}
    /\ loop.channel \in DOMAIN ids_to_channels \cup {None}
    /\ loop.running \in Nat \cup {None} /\ loop.dangling \in BOOLEAN
    /\ loop.due \subseteq 1 .. made
    /\ \A i \in DOMAIN loop.todo : 
          /\ loop.channel \in DOMAIN subscriptions
          /\ i \in DOMAIN subscriptions[loop.channel].callbacks
          /\ loop.todo[i] = subscriptions[loop.channel].callbacks[i]

IInv == ChannelsInv /\ SubscriptionsInv /\ HandlesInv /\ LoopInv

\* While callbacks leave the subscription that calls them alone, a callback
\* that was there is called, waits for its turn, or has been unsubscribed.
ReachInv == 
    /\ ~ loop.dangling
    /\ loop.due \cap HeldCallbacks \subseteq loop.done \cup Range(loop.todo)
    /\ loop.done \cap Range(loop.todo) = {}
    /\ loop.done \subseteq 1 .. made

-----------------------------------------------------------------------------
(* Lemmas about the operators.                                              *)

\* operator[] of a map: one key is set, the others keep their values.
LEMMA WithProperties == 
    ASSUME NEW f, NEW k, NEW v
    PROVE  /\ DOMAIN With(f, k, v) = DOMAIN f \cup {k}
           /\ With(f, k, v)[k] = v
           /\ \A x \in DOMAIN f : x # k => With(f, k, v)[x] = f[x]
  BY DEF With

\* erase() of a map: one key goes, the others keep their values.
LEMMA WithoutProperties == 
    ASSUME NEW f, NEW k
    PROVE  /\ DOMAIN Without(f, k) = DOMAIN f \ {k}
           /\ \A x \in DOMAIN f : x # k => Without(f, k)[x] = f[x]
  BY DEF Without, Restrict

LEMMA EmptyProperties == DOMAIN Empty = {} /\ Range(Empty) = {}
  BY DEF Empty, Range

-----------------------------------------------------------------------------
(* Channels.                                                                *)

\* A registered id is one of the W there are.
LEMMA IdsInRange == 
    ASSUME ChannelsInv
    PROVE  /\ Cardinality(DOMAIN types_to_ids) \in 0 .. W
           /\ \A i \in DOMAIN ids_to_channels : i \in Ids
<1>1. /\ IsFiniteSet(DOMAIN types_to_ids)
      /\ Cardinality(DOMAIN types_to_ids) <= Cardinality(Types)
  BY ChannelsFit, FS_Subset DEF ChannelsInv
<1>2. Cardinality(DOMAIN types_to_ids) \in Nat /\ Cardinality(Types) \in Nat
  BY <1>1, ChannelsFit, FS_CardinalityType
<1> QED BY <1>1, <1>2, WAssumption, ChannelsFit DEF ChannelsInv, Ids

\* The id a new channel gets is not in use: there are at most W types, so the
\* counter comes round only after the last of them.
LEMMA AddNewChannelStep == 
    ASSUME IInv, NEW t \in Types, addNewChannel(t)
    PROVE  IInv'
<1> DEFINE n == Cardinality(DOMAIN types_to_ids)
<1>1. ChannelsInv /\ SubscriptionsInv /\ HandlesInv /\ LoopInv
  BY DEF IInv
<1>2. /\ t \notin DOMAIN types_to_ids
      /\ ids_to_channels' = With(ids_to_channels, channel_counter, t)
      /\ types_to_ids' = With(types_to_ids, t, channel_counter)
      /\ channel_counter' = (channel_counter + 1) % W
      /\ UNCHANGED <<subscriptions, loop, held, made>>
  BY DEF addNewChannel, record_channel, next_channel
<1>3. n \in 0 .. W - 1 /\ Cardinality(DOMAIN types_to_ids') = n + 1
  <2>1. IsFiniteSet(DOMAIN types_to_ids)
    BY <1>1, ChannelsFit, FS_Subset DEF ChannelsInv
  <2>2. DOMAIN types_to_ids' = DOMAIN types_to_ids \cup {t}
    BY <1>2, WithProperties
  <2>3. Cardinality(DOMAIN types_to_ids') = n + 1
    BY <1>2, <2>1, <2>2, FS_AddElement
  <2>4. Cardinality(DOMAIN types_to_ids') <= Cardinality(Types)
    BY <1>1, <2>2, ChannelsFit, FS_Subset DEF ChannelsInv
  <2>5. n \in Nat /\ Cardinality(Types) \in Nat
    BY <2>1, ChannelsFit, FS_CardinalityType
  <2> QED BY <2>3, <2>4, <2>5, ChannelsFit, WAssumption
<1>4. channel_counter = n /\ channel_counter' = (n + 1) % W
  BY <1>1, <1>2, <1>3, WAssumption DEF ChannelsInv
<1> HIDE DEF n
<1>5. n \notin DOMAIN ids_to_channels
  BY <1>1, <1>3 DEF ChannelsInv, n
<1>6. /\ DOMAIN ids_to_channels' = DOMAIN ids_to_channels \cup {n}
      /\ ids_to_channels'[n] = t
      /\ \A i \in DOMAIN ids_to_channels : ids_to_channels'[i] = ids_to_channels[i]
      /\ DOMAIN types_to_ids' = DOMAIN types_to_ids \cup {t}
      /\ types_to_ids'[t] = n
      /\ \A u \in DOMAIN types_to_ids : types_to_ids'[u] = types_to_ids[u]
  BY <1>2, <1>4, <1>5 DEF With
<1>7. ChannelsInv'
  <2>1. (DOMAIN types_to_ids)' \subseteq Types
    BY <1>1, <1>6 DEF ChannelsInv
  <2>2. /\ (Cardinality(DOMAIN types_to_ids))' = n + 1
        /\ \A u \in DOMAIN types_to_ids : types_to_ids[u] \in 0 .. n - 1
    BY <1>1, <1>3 DEF ChannelsInv, n
  <2>3. \A u \in DOMAIN types_to_ids' : types_to_ids'[u] \in 0 .. (n + 1) - 1
    BY <1>3, <1>6, <2>2
  <2>4. \A u \in DOMAIN types_to_ids' : 
           /\ types_to_ids'[u] \in DOMAIN ids_to_channels'
           /\ ids_to_channels'[types_to_ids'[u]] = u
    BY <1>1, <1>6 DEF ChannelsInv
  <2>5. \A i \in DOMAIN ids_to_channels' : 
           /\ ids_to_channels'[i] \in DOMAIN types_to_ids'
           /\ types_to_ids'[ids_to_channels'[i]] = i
    BY <1>1, <1>2, <1>6 DEF ChannelsInv
  <2> QED BY <1>4, <2>1, <2>2, <2>3, <2>4, <2>5 DEF ChannelsInv
<1>8. SubscriptionsInv'
  BY <1>1, <1>2, <1>6 DEF SubscriptionsInv
<1>9. HandlesInv'
  BY <1>1, <1>2, <1>6 DEF HandlesInv, HandlesFindTheirCallbacks
<1>10. LoopInv'
  BY <1>1, <1>2, <1>6 DEF LoopInv
<1> QED BY <1>7, <1>8, <1>9, <1>10 DEF IInv

-----------------------------------------------------------------------------
(* Subscribing and unsubscribing.                                           *)

\* Two handles of one channel are of one type, and a subscription has the type
\* of the handles that lead to it.
LEMMA HandleFacts == 
    ASSUME ChannelsInv, HandlesInv, NEW h \in held
    PROVE  LET c == types_to_ids[h.type]
           IN /\ c \in DOMAIN ids_to_channels /\ ids_to_channels[c] = h.type
              /\ c \in DOMAIN subscriptions
              /\ h.id \in DOMAIN subscriptions[c].callbacks
              /\ subscriptions[c].callbacks[h.id] = h.callback
              /\ h.callback \in 1 .. made
              /\ h = [type |-> h.type, id |-> h.id, callback |-> h.callback]
  BY DEF ChannelsInv, HandlesInv, HandlesFindTheirCallbacks

\* A callback in a subscription is one that somebody holds, and is in it once.
LEMMA CallbackFacts == 
    ASSUME SubscriptionsInv, HandlesInv, NEW c \in DOMAIN subscriptions,
           NEW i \in DOMAIN subscriptions[c].callbacks
    PROVE  LET f == subscriptions[c].callbacks
           IN /\ i \in Nat /\ f[i] \in 1 .. made /\ f[i] \in HeldCallbacks
              /\ i \in 0 .. subscriptions[c].subscription_counter - 1
              /\ \A j \in DOMAIN f : f[j] = f[i] => j = i
<1> DEFINE f == subscriptions[c].callbacks
           g(j) == [type |-> ids_to_channels[c], id |-> j, callback |-> f[j]]
<1>1. \A j \in DOMAIN f : /\ g(j) \in held
                          /\ j \in 0 .. subscriptions[c].subscription_counter - 1
                          /\ subscriptions[c].subscription_counter \in Nat
  BY DEF SubscriptionsInv
<1> HIDE DEF f
<1>2. \A j \in DOMAIN f : g(j).callback = f[j] /\ g(j).id = j
  OBVIOUS
<1> HIDE DEF g
<1>3. g(i) \in held /\ g(i).callback \in 1 .. made
  BY <1>1 DEF HandlesInv, f
<1>4. ASSUME NEW j \in DOMAIN f, f[j] = f[i] PROVE j = i
  <2>1. g(j) = g(i)
    BY <1>1, <1>2, <1>4 DEF HandlesInv, f
  <2> QED BY <1>2, <2>1 DEF f
<1>5. f[i] \in HeldCallbacks /\ f[i] \in 1 .. made
  BY <1>2, <1>3 DEF HeldCallbacks, f
<1>6. i \in Nat
  BY <1>1 DEF f
<1> QED BY <1>1, <1>4, <1>5, <1>6 DEF f

\* The id a subscription gives out is not among its callbacks, and the callback
\* is a new one.
LEMMA SubscribeStep == 
    ASSUME IInv, NEW t \in Types, subscribe(t)
    PROVE  IInv'
<1> DEFINE c == types_to_ids[t]
           s == IF c \in DOMAIN subscriptions THEN subscriptions[c] ELSE NewSubscription(t)
           id == s.subscription_counter
           callbacks == With(s.callbacks, id, made')
           h == [type |-> t, id |-> id, callback |-> made']
<1>1. ChannelsInv /\ SubscriptionsInv /\ HandlesInv /\ LoopInv
  BY DEF IInv
<1>2. /\ t \in DOMAIN types_to_ids
      /\ made < MaxMade /\ made' = made + 1
      /\ subscriptions' = With(subscriptions, c,
            [s EXCEPT !.subscription_counter = @ + 1, !.callbacks = callbacks])
      /\ held' = held \cup {h}
      /\ IF loop.channel = c THEN loop' \in AfterInsertion(callbacks) ELSE loop' = loop
      /\ UNCHANGED channel_vars
  BY DEF subscribe, NextId
<1>3. c \in DOMAIN ids_to_channels /\ ids_to_channels[c] = t
  BY <1>1, <1>2 DEF ChannelsInv
<1>4. made \in Nat /\ made' \in 1 .. MaxMade /\ made' \notin 1 .. made
  BY <1>1, <1>2, BoundAssumption DEF HandlesInv
<1> DEFINE f == s.callbacks
<1>5. /\ id \in Nat
      /\ \A i \in DOMAIN f : /\ i \in 0 .. id - 1
                            /\ [type |-> t, id |-> i, callback |-> f[i]] \in held
  <2>1. CASE c \in DOMAIN subscriptions
    BY <1>1, <1>3, <2>1 DEF SubscriptionsInv
  <2>2. CASE c \notin DOMAIN subscriptions
    BY <2>2, EmptyProperties DEF NewSubscription
  <2> QED BY <2>1, <2>2
<1> DEFINE new == [s EXCEPT !.subscription_counter = @ + 1, !.callbacks = callbacks]
<1>6. /\ DOMAIN new = {"type", "subscription_counter", "callbacks"}
      /\ new.type = t /\ new.callbacks = callbacks /\ new.subscription_counter = id + 1
  <2>1. DOMAIN s = {"type", "subscription_counter", "callbacks"} /\ s.type = t
    <3>1. CASE c \in DOMAIN subscriptions
      BY <1>1, <1>3, <3>1 DEF SubscriptionsInv
    <3>2. CASE c \notin DOMAIN subscriptions
      BY <3>2 DEF NewSubscription
    <3> QED BY <3>1, <3>2
  <2> HIDE DEF callbacks, s
  <2> QED BY <2>1
<1>7. c \in DOMAIN subscriptions => f = subscriptions[c].callbacks
  OBVIOUS
<1> HIDE DEF s, f, id
<1>8. /\ DOMAIN callbacks = DOMAIN f \cup {id}
      /\ callbacks[id] = made'
      /\ \A i \in DOMAIN f : i # id /\ callbacks[i] = f[i]
  <2>1. id \notin DOMAIN f
    <3>1. \A i \in DOMAIN f : i \in 0 .. id - 1
      BY <1>5
    <3>2. id \in Nat /\ id \notin 0 .. id - 1
      BY <1>5
    <3> QED BY <3>1, <3>2
  <2>2. callbacks = With(f, id, made')
    BY DEF f
  <2> HIDE DEF callbacks
  <2> QED BY <2>1, <2>2 DEF With
<1> HIDE DEF callbacks, new
<1>9. /\ DOMAIN subscriptions' = DOMAIN subscriptions \cup {c}
      /\ subscriptions'[c] = new
      /\ \A d \in DOMAIN subscriptions : d # c => subscriptions'[d] = subscriptions[d]
  <2>1. subscriptions' = With(subscriptions, c, new)
    BY <1>2 DEF new
  <2> HIDE DEF c
  <2> QED BY <2>1 DEF With
<1>10. ChannelsInv'
  BY <1>1, <1>2 DEF ChannelsInv, channel_vars
<1>11. SubscriptionsInv'
  <2>1. ASSUME NEW d \in DOMAIN subscriptions, d # c
        PROVE  LET r == subscriptions'[d]
               IN /\ d \in DOMAIN ids_to_channels'
                  /\ DOMAIN r = {"type", "subscription_counter", "callbacks"}
                  /\ r.type = ids_to_channels'[d]
                  /\ r.subscription_counter \in Nat
                  /\ \A i \in DOMAIN r.callbacks : 
                        /\ i \in 0 .. r.subscription_counter - 1
                        /\ [type |-> ids_to_channels'[d], id |-> i, callback |-> r.callbacks[i]]
                              \in held'
    BY <1>1, <1>2, <1>9, <2>1 DEF SubscriptionsInv, channel_vars
  <2>2. ASSUME NEW i \in DOMAIN callbacks
        PROVE  /\ i \in 0 .. (id + 1) - 1
               /\ [type |-> t, id |-> i, callback |-> callbacks[i]] \in held'
    <3>1. CASE i = id
      BY <1>2, <1>5, <1>8, <3>1
    <3>2. CASE i \in DOMAIN f
      BY <1>2, <1>5, <1>8, <3>2
    <3> QED BY <1>8, <3>1, <3>2
  <2>3. /\ c \in DOMAIN ids_to_channels' /\ ids_to_channels'[c] = t
        /\ id + 1 \in Nat
    BY <1>2, <1>3, <1>5 DEF channel_vars
  <2> QED BY <1>6, <1>9, <2>1, <2>2, <2>3 DEF SubscriptionsInv
<1>12. HandlesInv'
  <2>1. /\ HandlesFindTheirCallbacks
        /\ \A g \in held : 
             /\ g \in [type : Types, id : Nat, callback : 1 .. made]
             /\ g.type \in DOMAIN types_to_ids
    BY <1>1 DEF HandlesInv
  <2>2. \A g \in held' : 
           /\ g \in [type : Types, id : Nat, callback : 1 .. made']
           /\ g.type \in DOMAIN types_to_ids'
    BY <1>2, <1>4, <1>5, <2>1 DEF channel_vars
  <2>3. \A g \in held : g.callback # made'
    BY <1>4, <2>1
  <2>4. \A g, k \in held' : g.callback = k.callback => g = k
    BY <1>1, <1>2, <2>3 DEF HandlesInv
  <2>5. ASSUME NEW g \in held
        PROVE  LET d == types_to_ids[g.type]
               IN /\ d \in DOMAIN subscriptions'
                  /\ g.id \in DOMAIN subscriptions'[d].callbacks
                  /\ subscriptions'[d].callbacks[g.id] = g.callback
    <3> DEFINE d == types_to_ids[g.type]
    <3>1. /\ d \in DOMAIN subscriptions
          /\ g.id \in DOMAIN subscriptions[d].callbacks
          /\ subscriptions[d].callbacks[g.id] = g.callback
      BY <2>1 DEF HandlesFindTheirCallbacks
    <3>2. CASE d = c
      BY <1>6, <1>7, <1>8, <1>9, <3>1, <3>2
    <3>3. CASE d # c
      BY <1>9, <3>1, <3>3
    <3> QED BY <3>2, <3>3
  <2>6. HandlesFindTheirCallbacks'
    BY <1>2, <1>3, <1>6, <1>8, <1>9, <2>5 DEF HandlesFindTheirCallbacks, channel_vars
  <2> QED BY <1>4, <2>2, <2>4, <2>6 DEF HandlesInv
<1>13. LoopInv'
  <2>1. \A i \in DOMAIN loop.todo : 
           /\ loop.channel \in DOMAIN subscriptions'
           /\ i \in DOMAIN subscriptions'[loop.channel].callbacks
           /\ loop.todo[i] = subscriptions'[loop.channel].callbacks[i]
    <3>1. CASE loop.channel = c
      BY <1>1, <1>6, <1>7, <1>8, <1>9, <3>1 DEF LoopInv
    <3>2. CASE loop.channel # c
      BY <1>1, <1>9, <3>2 DEF LoopInv
    <3> QED BY <3>1, <3>2
  <2>2. CASE loop' = loop
    BY <1>1, <1>2, <1>4, <2>1, <2>2 DEF LoopInv, channel_vars
  <2>3. CASE loop' # loop
    <3>1. loop.channel = c /\ loop' \in AfterInsertion(callbacks)
      BY <1>2, <2>3
    <3>2. PICK rest \in SUBSET (DOMAIN callbacks \ {loop.running}) : 
             loop' = [loop EXCEPT !.todo = Restrict(callbacks, rest)]
      BY <2>3, <3>1 DEF AfterInsertion
    <3>3. /\ DOMAIN loop' = DOMAIN loop
          /\ loop'.todo = Restrict(callbacks, rest)
          /\ loop'.channel = c /\ loop'.running = loop.running
          /\ loop'.dangling = loop.dangling /\ loop'.due = loop.due
      BY <1>1, <3>1, <3>2 DEF LoopInv
    <3>4. /\ DOMAIN loop'.todo \subseteq DOMAIN callbacks
          /\ \A i \in DOMAIN loop'.todo : loop'.todo[i] = callbacks[i]
      BY <3>2, <3>3 DEF Restrict
    <3> QED BY <1>1, <1>2, <1>3, <1>4, <1>6, <1>9, <3>3, <3>4 DEF LoopInv, channel_vars
  <2> QED BY <2>2, <2>3
<1> QED BY <1>10, <1>11, <1>12, <1>13 DEF IInv

\* The callback of the handle goes, and no other: ids of other handles of the
\* channel are different, so they still find theirs, and the subscription that
\* goes with its last callback had no other handle.
LEMMA UnsubscribeStep == 
    ASSUME IInv, NEW h \in held, unsubscribe(h)
    PROVE  IInv'
<1> DEFINE c == types_to_ids[h.type]
           s == subscriptions[c]
           callbacks == Without(s.callbacks, h.id)
<1>1. ChannelsInv /\ SubscriptionsInv /\ HandlesInv /\ LoopInv
  BY DEF IInv
<1>2. /\ held' = held \ {h}
      /\ subscriptions' = IF DOMAIN callbacks = {} THEN Without(subscriptions, c)
                          ELSE [subscriptions EXCEPT ![c].callbacks = callbacks]
      /\ IF loop.channel = c THEN loop' = AfterErase(h.id) ELSE loop' = loop
      /\ UNCHANGED <<channel_vars, made>>
  BY DEF unsubscribe
<1>3. /\ c \in DOMAIN ids_to_channels /\ ids_to_channels[c] = h.type
      /\ c \in DOMAIN subscriptions
      /\ h.id \in DOMAIN s.callbacks /\ s.callbacks[h.id] = h.callback
  BY <1>1, HandleFacts
<1>4. /\ DOMAIN callbacks = DOMAIN s.callbacks \ {h.id}
      /\ \A i \in DOMAIN s.callbacks : i # h.id => callbacks[i] = s.callbacks[i]
  BY DEF Without, Restrict
<1>5. /\ DOMAIN s = {"type", "subscription_counter", "callbacks"}
      /\ s.type = h.type /\ s.subscription_counter \in Nat
      /\ \A i \in DOMAIN s.callbacks : 
            /\ i \in 0 .. s.subscription_counter - 1
            /\ [type |-> h.type, id |-> i, callback |-> s.callbacks[i]] \in held
  BY <1>1, <1>3 DEF SubscriptionsInv
<1> DEFINE new == [s EXCEPT !.callbacks = callbacks]
<1>6. /\ DOMAIN new = DOMAIN s
      /\ new.type = h.type /\ new.callbacks = callbacks
      /\ new.subscription_counter = s.subscription_counter
  <2> HIDE DEF callbacks
  <2> QED BY <1>5
<1> HIDE DEF callbacks, new, s
<1>7. /\ DOMAIN subscriptions' = IF DOMAIN callbacks = {} THEN DOMAIN subscriptions \ {c}
                                 ELSE DOMAIN subscriptions
      /\ DOMAIN callbacks # {} => subscriptions'[c] = new
      /\ \A d \in DOMAIN subscriptions : d # c => subscriptions'[d] = subscriptions[d]
  <2>1. CASE DOMAIN callbacks = {}
    <3>1. subscriptions' = Without(subscriptions, c)
      BY <1>2, <2>1
    <3> HIDE DEF c
    <3> QED BY <2>1, <3>1 DEF Without, Restrict
  <2>2. CASE DOMAIN callbacks # {}
    <3>1. subscriptions' = [subscriptions EXCEPT ![c] = new]
      BY <1>2, <2>2 DEF new, s
    <3> HIDE DEF c
    <3> QED BY <1>3, <2>2, <3>1
  <2> QED BY <2>1, <2>2
<1>8. ASSUME NEW g \in held, g # h, types_to_ids[g.type] = c
      PROVE  g.id \in DOMAIN callbacks /\ callbacks[g.id] = g.callback
  <2>1. /\ g.id \in DOMAIN s.callbacks /\ s.callbacks[g.id] = g.callback
    BY <1>1, <1>8, HandleFacts DEF s
  <2>2. g.callback # h.callback
    BY <1>1, <1>8 DEF HandlesInv
  <2> QED BY <1>3, <1>4, <2>1, <2>2
<1>9. ChannelsInv'
  BY <1>1, <1>2 DEF ChannelsInv, channel_vars
<1>10. SubscriptionsInv'
  <2> SUFFICES ASSUME NEW d \in DOMAIN subscriptions'
               PROVE  LET r == subscriptions'[d]
                      IN /\ d \in DOMAIN ids_to_channels
                         /\ DOMAIN r = {"type", "subscription_counter", "callbacks"}
                         /\ r.type = ids_to_channels[d]
                         /\ r.subscription_counter \in Nat
                         /\ \A i \in DOMAIN r.callbacks : 
                               /\ i \in 0 .. r.subscription_counter - 1
                               /\ [type |-> ids_to_channels[d], id |-> i,
                                   callback |-> r.callbacks[i]] \in held'
    BY <1>2 DEF SubscriptionsInv, channel_vars
  <2>1. CASE d # c
    <3>1. /\ d \in DOMAIN subscriptions /\ subscriptions'[d] = subscriptions[d]
      BY <1>7, <2>1
    <3>2. h.type # ids_to_channels[d]
      BY <1>1, <1>3, <2>1, <3>1 DEF SubscriptionsInv, ChannelsInv
    <3> QED BY <1>1, <1>2, <3>1, <3>2 DEF SubscriptionsInv
  <2>2. CASE d = c
    <3>1. subscriptions'[d] = new
      BY <1>7, <2>2
    <3>2. ASSUME NEW i \in DOMAIN callbacks
          PROVE  /\ i \in 0 .. s.subscription_counter - 1
                 /\ [type |-> h.type, id |-> i, callback |-> callbacks[i]] \in held'
      BY <1>2, <1>4, <1>5
    <3> QED BY <1>3, <1>5, <1>6, <2>2, <3>1, <3>2
  <2> QED BY <2>1, <2>2
<1>11. HandlesInv'
  <2>1. HandlesFindTheirCallbacks'
    <3> SUFFICES ASSUME NEW g \in held'
                 PROVE  LET d == types_to_ids[g.type]
                        IN /\ d \in DOMAIN subscriptions'
                           /\ g.id \in DOMAIN subscriptions'[d].callbacks
                           /\ subscriptions'[d].callbacks[g.id] = g.callback
      BY <1>2 DEF HandlesFindTheirCallbacks, channel_vars
    <3>1. g \in held /\ g # h
      BY <1>2
    <3>2. CASE types_to_ids[g.type] = c
      BY <1>3, <1>6, <1>7, <1>8, <3>1, <3>2
    <3>3. CASE types_to_ids[g.type] # c
      BY <1>1, <1>7, <3>1, <3>3 DEF HandlesInv, HandlesFindTheirCallbacks
    <3> QED BY <3>2, <3>3
  <2> QED BY <1>1, <1>2, <2>1 DEF HandlesInv, channel_vars
<1>12. LoopInv'
  <2>1. CASE loop.channel # c
    <3>1. loop' = loop
      BY <1>2, <2>1
    <3> QED BY <1>1, <1>2, <1>7, <2>1, <3>1 DEF LoopInv, channel_vars
  <2>2. CASE loop.channel = c
    <3>1. loop' = [loop EXCEPT !.todo = Without(@, h.id),
                               !.dangling = @ \/ h.id = loop.running]
      BY <1>2, <2>2 DEF AfterErase
    <3>2. /\ DOMAIN loop' = DOMAIN loop
          /\ loop'.todo = Without(loop.todo, h.id)
          /\ loop'.dangling \in BOOLEAN
          /\ loop'.channel = c /\ loop'.running = loop.running /\ loop'.due = loop.due
      BY <1>1, <2>2, <3>1 DEF LoopInv
    <3>3. /\ DOMAIN loop'.todo = DOMAIN loop.todo \ {h.id}
          /\ \A i \in DOMAIN loop'.todo : loop'.todo[i] = loop.todo[i]
      BY <3>2 DEF Without, Restrict
    <3>4. \A i \in DOMAIN loop'.todo : i \in DOMAIN callbacks /\ loop'.todo[i] = callbacks[i]
      BY <1>1, <1>4, <2>2, <3>3 DEF LoopInv, s
    <3>5. \A i \in DOMAIN loop'.todo : 
             /\ loop'.channel \in DOMAIN subscriptions'
             /\ i \in DOMAIN subscriptions'[loop'.channel].callbacks
             /\ loop'.todo[i] = subscriptions'[loop'.channel].callbacks[i]
      BY <1>3, <1>6, <1>7, <3>2, <3>4
    <3> QED BY <1>1, <1>2, <1>3, <3>2, <3>5 DEF LoopInv, channel_vars
  <2> QED BY <2>1, <2>2
<1> QED BY <1>9, <1>10, <1>11, <1>12 DEF IInv

-----------------------------------------------------------------------------
(* The loop over the callbacks of a channel.                                *)

\* A step of the loop alone never makes an entry out of nothing.
LEMMA LoopStep == 
    ASSUME IInv,
           \/ \E c \in DOMAIN subscriptions : propagate_to_handlers(c)
           \/ \E i \in DOMAIN loop.todo : call(i)
           \/ callback_returns \/ callback_throws \/ loop_ends
    PROVE  IInv'
<1>1. ChannelsInv /\ SubscriptionsInv /\ HandlesInv /\ LoopInv
  BY DEF IInv
<1>2. UNCHANGED <<channel_vars, subscriptions, held, made>>
  BY DEF propagate_to_handlers, call, callback_returns, callback_throws, loop_ends
<1>3. LoopInv'
  <2>1. ASSUME NEW c \in DOMAIN subscriptions, propagate_to_handlers(c)
        PROVE  LoopInv'
    <3> DEFINE f == subscriptions[c].callbacks
    <3>1. loop' = [NoLoop EXCEPT !.channel = c, !.todo = f, !.due = Range(f)]
      BY <2>1 DEF propagate_to_handlers
    <3>2. /\ DOMAIN loop' = {"channel", "todo", "running", "dangling", "due", "done"}
          /\ loop'.channel = c /\ loop'.todo = f /\ loop'.running = None
          /\ loop'.dangling = FALSE /\ loop'.due = Range(f)
      BY <3>1 DEF NoLoop
    <3>3. c \in DOMAIN ids_to_channels
      BY <1>1 DEF SubscriptionsInv
    <3>4. Range(f) \subseteq 1 .. made
      BY <1>1, CallbackFacts DEF Range
    <3> QED BY <1>2, <3>2, <3>3, <3>4 DEF LoopInv, channel_vars
  <2>2. ASSUME NEW i \in DOMAIN loop.todo, call(i)
        PROVE  LoopInv'
    <3>1. loop' = [loop EXCEPT !.running = i, !.todo = Without(loop.todo, i),
                               !.done = @ \cup {loop.todo[i]}]
      BY <2>2 DEF call, Remaining
    <3>2. /\ DOMAIN loop' = DOMAIN loop
          /\ loop'.channel = loop.channel /\ loop'.todo = Without(loop.todo, i)
          /\ loop'.running = i /\ loop'.dangling = loop.dangling /\ loop'.due = loop.due
      BY <1>1, <3>1 DEF LoopInv
    <3>3. i \in Nat
      BY <1>1, CallbackFacts DEF LoopInv
    <3>4. /\ DOMAIN loop'.todo \subseteq DOMAIN loop.todo
          /\ \A j \in DOMAIN loop'.todo : loop'.todo[j] = loop.todo[j]
      BY <3>2 DEF Without, Restrict
    <3> QED BY <1>1, <1>2, <3>2, <3>3, <3>4 DEF LoopInv, channel_vars
  <2>3. ASSUME callback_returns
        PROVE  LoopInv'
    <3>1. PICK rest \in SUBSET DOMAIN loop.todo :
             loop' = [loop EXCEPT !.running = None, !.dangling = FALSE,
                                  !.todo = Restrict(@, rest)]
      BY <2>3 DEF callback_returns
    <3>2. /\ DOMAIN loop' = DOMAIN loop
          /\ loop'.channel = loop.channel /\ loop'.todo = Restrict(loop.todo, rest)
          /\ loop'.running = None /\ loop'.dangling = FALSE /\ loop'.due = loop.due
      BY <1>1, <3>1 DEF LoopInv
    <3>3. /\ DOMAIN loop'.todo \subseteq DOMAIN loop.todo
          /\ \A j \in DOMAIN loop'.todo : loop'.todo[j] = loop.todo[j]
      BY <3>2 DEF Restrict
    <3> QED BY <1>1, <1>2, <3>2, <3>3 DEF LoopInv, channel_vars
  <2>4. ASSUME callback_throws \/ loop_ends
        PROVE  LoopInv'
    <3>1. loop' = NoLoop
      BY <2>4 DEF callback_throws, loop_ends
    <3>2. /\ DOMAIN loop' = {"channel", "todo", "running", "dangling", "due", "done"}
          /\ loop'.channel = None /\ loop'.running = None /\ loop'.dangling = FALSE
          /\ loop'.due = {} /\ DOMAIN loop'.todo = {}
      BY <3>1, EmptyProperties DEF NoLoop
    <3> QED BY <3>2 DEF LoopInv
  <2> QED BY <2>1, <2>2, <2>3, <2>4
<1> QED BY <1>1, <1>2, <1>3 DEF IInv, ChannelsInv, SubscriptionsInv, HandlesInv,
                                HandlesFindTheirCallbacks, channel_vars

-----------------------------------------------------------------------------
(* The invariant, and what follows from it.                                 *)

LEMMA InitInvariant == Init => IInv
<1> SUFFICES ASSUME Init PROVE IInv
  OBVIOUS
<1>1. /\ DOMAIN ids_to_channels = {} /\ DOMAIN types_to_ids = {}
      /\ DOMAIN subscriptions = {} /\ DOMAIN loop.todo = {}
  BY EmptyProperties DEF Init, NoLoop
<1>2. Cardinality(DOMAIN types_to_ids) = 0
  BY <1>1, FS_EmptySet
<1>3. ChannelsInv
  BY <1>1, <1>2, WAssumption DEF Init, ChannelsInv
<1>4. SubscriptionsInv
  BY <1>1 DEF SubscriptionsInv
<1>5. HandlesInv
  BY BoundAssumption DEF Init, HandlesInv, HandlesFindTheirCallbacks
<1>6. LoopInv
  BY <1>1 DEF Init, NoLoop, LoopInv
<1> QED BY <1>3, <1>4, <1>5, <1>6 DEF IInv

LEMMA NextStep == IInv /\ [Next]_vars => IInv'
<1> SUFFICES ASSUME IInv, [Next]_vars PROVE IInv'
  OBVIOUS
<1>1. CASE \E t \in Types : addNewChannel(t) \/ subscribe(t)
  BY <1>1, AddNewChannelStep, SubscribeStep
<1>2. CASE \E h \in held : unsubscribe(h)
  BY <1>2, UnsubscribeStep
<1>3. CASE \/ \E c \in DOMAIN subscriptions : propagate_to_handlers(c)
           \/ \E i \in DOMAIN loop.todo : call(i)
           \/ callback_returns \/ callback_throws \/ loop_ends
  BY <1>3, LoopStep
<1>4. CASE UNCHANGED vars
  BY <1>4 DEF vars, channel_vars, IInv, ChannelsInv, SubscriptionsInv, HandlesInv,
              HandlesFindTheirCallbacks, LoopInv
<1> QED BY <1>1, <1>2, <1>3, <1>4 DEF Next

\* The id a subscriber keeps finds the callback it was given for, and no other.
THEOREM HandlesAlwaysFind == Spec => []HandlesFindTheirCallbacks
<1>1. IInv => HandlesFindTheirCallbacks
  BY DEF IInv, HandlesInv
<1> QED BY <1>1, InitInvariant, NextStep, PTL DEF Spec

\* A message goes to callbacks of its own type: the casts of subscribe() and of
\* propagate_to_handlers() are right for up to W channels.
THEOREM ChannelsAlwaysAgree == Spec => []ChannelsAgreeOnTypes
<1>1. ASSUME IInv PROVE ChannelsAgreeOnTypes
  <2> SUFFICES ASSUME NEW c \in DOMAIN subscriptions
               PROVE  /\ c \in DOMAIN ids_to_channels
                      /\ subscriptions[c].type = ids_to_channels[c]
                      /\ \A h \in held : h.callback \in Range(subscriptions[c].callbacks)
                                            => h.type = ids_to_channels[c]
    BY DEF ChannelsAgreeOnTypes
  <2>1. ASSUME NEW h \in held, h.callback \in Range(subscriptions[c].callbacks)
        PROVE  h.type = ids_to_channels[c]
    <3>1. PICK i \in DOMAIN subscriptions[c].callbacks :
             subscriptions[c].callbacks[i] = h.callback
      BY <2>1 DEF Range
    <3> DEFINE g == [type |-> ids_to_channels[c], id |-> i, callback |-> h.callback]
    <3>2. g \in held
      BY <1>1, <3>1 DEF IInv, SubscriptionsInv
    <3>3. g = h
      BY <1>1, <3>2 DEF IInv, HandlesInv
    <3> QED BY <3>3
  <2> QED BY <1>1, <2>1 DEF IInv, SubscriptionsInv
<1> QED BY <1>1, InitInvariant, NextStep, PTL DEF Spec

\* Every id, counter and callback has its type.
THEOREM TypeCorrect == Spec => []TypeOK
<1>1. ASSUME IInv PROVE TypeOK
  <2>1. ChannelsInv /\ SubscriptionsInv /\ HandlesInv /\ LoopInv
    BY <1>1 DEF IInv
  <2>2. /\ Cardinality(DOMAIN types_to_ids) \in 0 .. W
        /\ DOMAIN ids_to_channels \subseteq Ids
    BY <2>1, IdsInRange
  <2>3. Functional(ids_to_channels, Ids, Types)
    BY <2>1, <2>2 DEF ChannelsInv, Functional, Range
  <2>4. Functional(types_to_ids, Types, Ids)
    BY <2>1, <2>2 DEF ChannelsInv, Functional, Range
  <2>5. channel_counter \in Ids
    BY <2>1, <2>2, WAssumption DEF ChannelsInv, Ids
  <2>6. DOMAIN subscriptions \subseteq Ids
    BY <2>1, <2>2 DEF SubscriptionsInv
  <2>7. made \in 0 .. MaxMade /\ held \subseteq Handles
    BY <2>1, BoundAssumption DEF HandlesInv, Handles
  <2>8. ASSUME NEW c \in DOMAIN subscriptions
        PROVE  LET s == subscriptions[c]
               IN /\ s.type \in Types /\ s.subscription_counter \in Nat
                  /\ Functional(s.callbacks, 0 .. s.subscription_counter - 1, 1 .. MaxMade)
    <3>1. /\ subscriptions[c].type \in Types
          /\ subscriptions[c].subscription_counter \in Nat
      BY <2>1 DEF SubscriptionsInv, ChannelsInv
    <3>2. \A i \in DOMAIN subscriptions[c].callbacks : 
             /\ i \in 0 .. subscriptions[c].subscription_counter - 1
             /\ subscriptions[c].callbacks[i] \in 1 .. MaxMade
      BY <2>1, <2>7, BoundAssumption, CallbackFacts
    <3> QED BY <3>1, <3>2 DEF Functional, Range
  <2>9. Functional(loop.todo, Nat, 1 .. MaxMade)
    <3>1. \A i \in DOMAIN loop.todo : i \in Nat /\ loop.todo[i] \in 1 .. MaxMade
      BY <2>1, <2>7, BoundAssumption, CallbackFacts DEF LoopInv
    <3> QED BY <3>1 DEF Functional, Range
  <2>10. /\ loop.channel \in Ids \cup {None} 
         /\ loop.running \in Nat \cup {None} /\ loop.dangling \in BOOLEAN
    BY <2>1, <2>2 DEF LoopInv
  <2>11. \A s \in Range(subscriptions) : 
            /\ s.type \in Types /\ s.subscription_counter \in Nat
            /\ Functional(s.callbacks, 0 .. s.subscription_counter - 1, 1 .. MaxMade)
    BY <2>8 DEF Range
  <2> QED BY <2>3, <2>4, <2>5, <2>6, <2>7, <2>9, <2>10, <2>11 DEF TypeOK
<1> QED BY <1>1, InitInvariant, NextStep, PTL DEF Spec

-----------------------------------------------------------------------------
(* A propagation reaches its subscribers.                                   *)

CallsOnce == 
    loop.running = None /\ loop'.running # None 
        => \E b \in HeldCallbacks \ loop.done : loop'.done = loop.done \cup {b}

\* While nothing inserts into the map that is looped over, and nothing erases
\* the entry that is running, an entry leaves the loop's rest only by being
\* called or unsubscribed.
LEMMA ReachStep == 
    ASSUME Reentrant = {}, IInv, ReachInv, [Next]_vars
    PROVE  ReachInv' /\ CallsOnce
<1>1. ChannelsInv /\ SubscriptionsInv /\ HandlesInv /\ LoopInv
  BY DEF IInv
<1>2. ASSUME NEW i \in DOMAIN loop.todo
      PROVE  /\ loop.todo[i] \in 1 .. made /\ loop.todo[i] \in HeldCallbacks
             /\ \A j \in DOMAIN loop.todo : loop.todo[j] = loop.todo[i] => j = i
  BY <1>1, CallbackFacts DEF LoopInv
<1>3. CASE UNCHANGED <<loop, held, made>>
  BY <1>3 DEF ReachInv, CallsOnce, HeldCallbacks
<1>4. CASE \E t \in Types : addNewChannel(t)
  BY <1>3, <1>4 DEF addNewChannel
<1>5. ASSUME NEW t \in Types, subscribe(t)
      PROVE  ReachInv' /\ CallsOnce
  <2>1. loop' = loop /\ made' = made + 1
    BY <1>5 DEF subscribe
  <2>2. HeldCallbacks' = HeldCallbacks \cup {made'}
    <3>1. PICK id : held' = held \cup {[type |-> t, id |-> id, callback |-> made']}
      BY <1>5 DEF subscribe
    <3> DEFINE h == [type |-> t, id |-> id, callback |-> made']
    <3>2. h.callback = made' /\ held' = held \cup {h}
      BY <3>1
    <3> HIDE DEF h
    <3> QED BY <3>2, Zenon DEF HeldCallbacks
  <2>3. made \in Nat /\ loop.due \subseteq 1 .. made
    BY <1>1, BoundAssumption DEF HandlesInv, LoopInv
  <2>4. made' \notin loop.due /\ 1 .. made \subseteq 1 .. made'
    BY <2>1, <2>3
  <2> QED BY <2>1, <2>2, <2>4 DEF ReachInv, CallsOnce
<1>6. ASSUME NEW h \in held, unsubscribe(h)
      PROVE  ReachInv' /\ CallsOnce
  <2>1. /\ HeldCallbacks' \subseteq HeldCallbacks \ {h.callback}
        /\ made' = made
    BY <1>1, <1>6 DEF unsubscribe, HeldCallbacks, HandlesInv
  <2>2. CASE loop' = loop
    BY <2>1, <2>2 DEF ReachInv, CallsOnce
  <2>3. CASE loop' # loop
    <3>1. /\ loop.channel = types_to_ids[h.type] /\ h.id # loop.running
          /\ loop' = [loop EXCEPT !.todo = Without(@, h.id),
                                  !.dangling = @ \/ h.id = loop.running]
      BY <1>6, <2>3 DEF unsubscribe, AfterErase
    <3>2. /\ loop'.todo = Without(loop.todo, h.id) /\ loop'.running = loop.running
          /\ loop'.due = loop.due /\ loop'.done = loop.done
          /\ loop'.dangling = (loop.dangling \/ h.id = loop.running)
      BY <1>1, <3>1 DEF LoopInv
    <3>3. h.id \in DOMAIN loop.todo => loop.todo[h.id] = h.callback
      BY <1>1, <3>1, HandleFacts DEF LoopInv
    <3>4. \/ Range(loop'.todo) = Range(loop.todo) \ {h.callback}
          \/ Range(loop'.todo) = Range(loop.todo)
      BY <1>2, <3>2, <3>3 DEF Without, Restrict, Range
    <3> QED BY <2>1, <3>1, <3>2, <3>4 DEF ReachInv, CallsOnce
  <2> QED BY <2>2, <2>3
<1>7. ASSUME NEW c \in DOMAIN subscriptions, propagate_to_handlers(c)
      PROVE  ReachInv' /\ CallsOnce
  <2> DEFINE f == subscriptions[c].callbacks
  <2>1. loop' = [NoLoop EXCEPT !.channel = c, !.todo = f, !.due = Range(f)]
    BY <1>7 DEF propagate_to_handlers
  <2>2. /\ loop'.todo = f /\ loop'.due = Range(f) /\ loop'.done = {}
        /\ loop'.running = None /\ loop'.dangling = FALSE
    BY <2>1 DEF NoLoop
  <2> HIDE DEF f
  <2> QED BY <2>2 DEF ReachInv, CallsOnce
<1>8. ASSUME NEW i \in DOMAIN loop.todo, call(i)
      PROVE  ReachInv' /\ CallsOnce
  <2>1. /\ loop' = [loop EXCEPT !.running = i, !.todo = Without(loop.todo, i),
                                !.done = @ \cup {loop.todo[i]}]
        /\ UNCHANGED <<held, made>>
    BY <1>8 DEF call, Remaining
  <2>2. /\ loop'.todo = Without(loop.todo, i) /\ loop'.due = loop.due
        /\ loop'.done = loop.done \cup {loop.todo[i]} /\ loop'.dangling = loop.dangling
    BY <1>1, <2>1 DEF LoopInv
  <2>3. Range(loop'.todo) = Range(loop.todo) \ {loop.todo[i]}
    BY <1>2, <2>2 DEF Without, Restrict, Range
  <2>4. loop.todo[i] \in Range(loop.todo) /\ HeldCallbacks' = HeldCallbacks
    BY <2>1 DEF Range, HeldCallbacks
  <2>5. ReachInv'
    BY <1>2, <2>1, <2>2, <2>3, <2>4 DEF ReachInv
  <2>6. CallsOnce
    BY <1>2, <2>2, <2>4 DEF ReachInv, CallsOnce
  <2> QED BY <2>5, <2>6
<1>9. CASE callback_returns
  <2>1. PICK rest \in SUBSET DOMAIN loop.todo :
           /\ ~ loop.dangling => rest = DOMAIN loop.todo
           /\ loop' = [loop EXCEPT !.running = None, !.dangling = FALSE,
                                   !.todo = Restrict(@, rest)]
    BY <1>9 DEF callback_returns
  <2>2. /\ loop'.todo = Restrict(loop.todo, DOMAIN loop.todo) /\ loop'.due = loop.due
        /\ loop'.done = loop.done /\ loop'.dangling = FALSE /\ loop'.running = None
    BY <1>1, <2>1 DEF LoopInv, ReachInv
  <2>3. Range(loop'.todo) = Range(loop.todo)
    BY <2>2 DEF Restrict, Range
  <2>4. HeldCallbacks' = HeldCallbacks /\ made' = made
    BY <1>9 DEF callback_returns, HeldCallbacks
  <2> QED BY <2>2, <2>3, <2>4 DEF ReachInv, CallsOnce
<1>10. CASE callback_throws \/ loop_ends
  <2>1. loop' = NoLoop
    BY <1>10 DEF callback_throws, loop_ends
  <2>2. /\ loop'.due = {} /\ loop'.done = {} /\ loop'.dangling = FALSE
        /\ loop'.running = None
    BY <2>1 DEF NoLoop
  <2> QED BY <2>2 DEF ReachInv, CallsOnce
<1> QED BY <1>3, <1>4, <1>5, <1>6, <1>7, <1>8, <1>9, <1>10 DEF Next, vars

LEMMA ReachInit == Init => ReachInv
  BY EmptyProperties DEF Init, NoLoop, ReachInv

\* When the loop over the callbacks of a message ends, every callback that was
\* there and still is has been called.
THEOREM EverySubscriberReached == 
    ASSUME Reentrant = {}
    PROVE  Spec => []ReachesEverySubscriber
<1>1. ReachInv => ReachesEverySubscriber
  BY EmptyProperties DEF ReachInv, ReachesEverySubscriber
<1>2. IInv /\ ReachInv /\ [Next]_vars => ReachInv'
  BY ReachStep
<1> QED BY <1>1, <1>2, InitInvariant, ReachInit, NextStep, PTL DEF Spec

\* A callback that is called is subscribed at that moment and has not been
\* called for this message before.
THEOREM CalledOnce == 
    ASSUME Reentrant = {}
    PROVE  Spec => CallsTheSubscribedOnce
<1>1. IInv /\ ReachInv /\ [Next]_vars => ReachInv' /\ [CallsOnce]_vars
  BY ReachStep
<1>2. Spec => [][CallsOnce]_vars
  BY <1>1, InitInvariant, ReachInit, NextStep, PTL DEF Spec
<1> QED BY <1>2 DEF CallsOnce, CallsTheSubscribedOnce
=============================================================================
