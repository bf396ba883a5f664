--------------------------- MODULE Subscriptions ---------------------------
(***************************************************************************)
(* Channels, ChannelSubscribable and ChannelSubscription (src/include/     *)
(* channels.h, channel_subscribable.h, channel_subscription.h): channels   *)
(* get one-byte ids in the order of their registration, a subscription     *)
(* exists for each channel that somebody listens to, and an incoming       *)
(* message is propagated to its callbacks, which may subscribe and         *)
(* unsubscribe while the loop over them is running.                        *)
(***************************************************************************)
EXTENDS Integers, FiniteSets, Functions

CONSTANTS Types,        \* the C++ types of messages, each registered once
          W,            \* the number of channel ids (256 in the code)
          Reentrant,    \* what callbacks do to the subscription calling them
          MaxMade       \* bound: calls of subscribe()

ASSUME WAssumption == W \in Nat \ {0}
ASSUME ChannelsFit == IsFiniteSet(Types) /\ Cardinality(Types) <= W
ASSUME ReentrantAssumption == Reentrant \subseteq {"subscribe", "unsubscribe_self"}
ASSUME BoundAssumption == MaxMade \in Nat

VARIABLES ids_to_channels,  \* id |-> type of the channel
          types_to_ids,     \* type |-> id
          channel_counter,
          subscriptions,    \* channel id |-> ChannelSubscription
          loop,             \* propagate_to_handlers
          held,             \* history: what users were given and keep
          made              \* history: subscribe() calls, naming the callbacks

channel_vars == <<ids_to_channels, types_to_ids, channel_counter>>
vars == <<channel_vars, subscriptions, loop, held, made>>

\* What a subscriber knows: the type, the id that subscribe() returned, and
\* which callback it meant.
Handles == [type : Types, id : Nat, callback : 1 .. MaxMade]
HeldCallbacks == {h.callback : h \in held}

\* The loop over the callbacks of a channel: the entries it has not reached,
\* the id that is running, whether its iterator dangles, and, as history, the
\* callbacks there were at its beginning and those it called.
None == -1
Empty == [x \in {} |-> None]
NoLoop == [channel |-> None, todo |-> Empty, running |-> None, dangling |-> FALSE,
           due |-> {}, done |-> {}]

With(f, k, v) == [x \in DOMAIN f \cup {k} |-> IF x = k THEN v ELSE f[x]]
Without(f, k) == Restrict(f, DOMAIN f \ {k})

\* Code of users runs: outside of a propagation, or as a callback.
UsersRun == loop = NoLoop \/ loop.running # None

-----------------------------------------------------------------------------
(* Channels.  A definition whose comment begins with Variant is a plausible *)
(* bug of its neighbour; no specification uses it, it shows that the        *)
(* properties can tell.                                                     *)

\* Variant: a counter wider than the id.
next_channel_wide == channel_counter + 1
next_channel == (channel_counter + 1) % W

\* Variant: the counter is read again, after getNextId().
id_read_again(t) == 
    /\ ids_to_channels' = With(ids_to_channels, channel_counter, t)
    /\ types_to_ids' = With(types_to_ids, t, next_channel)

record_channel(t) == 
    /\ ids_to_channels' = With(ids_to_channels, channel_counter, t)
    /\ types_to_ids' = With(types_to_ids, t, channel_counter)

addNewChannel(t) == 
    /\ UsersRun /\ t \notin DOMAIN types_to_ids
    /\ record_channel(t)
    /\ channel_counter' = next_channel
    /\ UNCHANGED <<subscriptions, loop, held, made>>

-----------------------------------------------------------------------------
(* Subscribing and unsubscribing.                                           *)

NewSubscription(t) == [type |-> t, subscription_counter |-> 0, callbacks |-> Empty]

\* Variant: the id is the number of callbacks.
size_as_id(s) == Cardinality(DOMAIN s.callbacks)
NextId(s) == s.subscription_counter

\* An insertion may rehash the map under the iterator of the loop; what comes
\* after the current element is then any of the others.
AfterInsertion(callbacks) == 
    IF loop.dangling THEN {loop}
    ELSE {[loop EXCEPT !.todo = Restrict(callbacks, rest)] :
             rest \in SUBSET (DOMAIN callbacks \ {loop.running})}

subscribe(t) == 
    /\ UsersRun /\ t \in DOMAIN types_to_ids
    /\ made < MaxMade /\ made' = made + 1
    /\ LET channel == types_to_ids[t]
           s == IF channel \in DOMAIN subscriptions THEN subscriptions[channel]
                ELSE NewSubscription(t)
           id == NextId(s)
           callbacks == With(s.callbacks, id, made')
       IN /\ subscriptions' = With(subscriptions, channel,
                [s EXCEPT !.subscription_counter = @ + 1, !.callbacks = callbacks])
          /\ held' = held \cup {[type |-> t, id |-> id, callback |-> made']}
          /\ IF loop.channel = channel
             THEN "subscribe" \in Reentrant /\ loop' \in AfterInsertion(callbacks)
             ELSE UNCHANGED loop
    /\ UNCHANGED channel_vars

\* Variant: the loop runs over a copy of the map.
loop_on_copy(id) == loop

\* Erasing another entry is safe, erasing the one that is running leaves the
\* iterator dangling.
AfterErase(id) == 
    [loop EXCEPT !.todo = Without(@, id), !.dangling = @ \/ id = loop.running]

\* The channel's subscription goes with its last callback.
unsubscribe(h) == 
    /\ UsersRun /\ h \in held
    /\ held' = held \ {h}
    /\ LET channel == types_to_ids[h.type]
           callbacks == Without(subscriptions[channel].callbacks, h.id)
       IN /\ subscriptions' = IF DOMAIN callbacks = {} THEN Without(subscriptions, channel)
                              ELSE [subscriptions EXCEPT ![channel].callbacks = callbacks]
          /\ IF loop.channel = channel
             THEN /\ h.id = loop.running => "unsubscribe_self" \in Reentrant
                  /\ loop' = AfterErase(h.id)
             ELSE UNCHANGED loop
    /\ UNCHANGED <<channel_vars, made>>

-----------------------------------------------------------------------------
(* handleIncomingMessage with an id that is registered.                     *)

\* Without a subscription for the channel the message is dropped.
propagate_to_handlers(channel) == 
    /\ loop = NoLoop
    /\ channel \in DOMAIN ids_to_channels /\ channel \in DOMAIN subscriptions
    /\ LET callbacks == subscriptions[channel].callbacks
       IN loop' = [NoLoop EXCEPT !.channel = channel, !.todo = callbacks,
                                 !.due = Range(callbacks)]
    /\ UNCHANGED <<channel_vars, subscriptions, held, made>>

\* Variant: the loop is left after a callback.
remaining_dropped(id) == Empty
Remaining(id) == Without(loop.todo, id)

\* The loop takes any of the entries (an unordered_map).
call(id) == 
    /\ loop.running = None /\ id \in DOMAIN loop.todo
    /\ loop' = [loop EXCEPT !.running = id, !.todo = Remaining(id), 
                            !.done = @ \cup {loop.todo[id]}]
    /\ UNCHANGED <<channel_vars, subscriptions, held, made>>

\* The callback returns and the iterator moves on; one that dangles reads
\* freed memory: it may find the rest, a part of it or nothing.
callback_returns == 
    /\ loop.running # None
    /\ \E rest \in SUBSET DOMAIN loop.todo :
          /\ ~ loop.dangling => rest = DOMAIN loop.todo
          /\ loop' = [loop EXCEPT !.running = None, !.dangling = FALSE, 
                                  !.todo = Restrict(@, rest)]
    /\ UNCHANGED <<channel_vars, subscriptions, held, made>>

\* An exception of a callback leaves the loop, and poll() with it.
callback_throws == 
    /\ loop.running # None
    /\ loop' = NoLoop
    /\ UNCHANGED <<channel_vars, subscriptions, held, made>>

loop_ends == 
    /\ loop.channel # None /\ loop.running = None /\ loop.todo = Empty
    /\ loop' = NoLoop
    /\ UNCHANGED <<channel_vars, subscriptions, held, made>>

-----------------------------------------------------------------------------
Init == 
    /\ ids_to_channels = Empty /\ types_to_ids = Empty
    /\ channel_counter = 0
    /\ subscriptions = Empty
    /\ loop = NoLoop
    /\ held = {} /\ made = 0

Next == 
    \/ \E t \in Types : addNewChannel(t) \/ subscribe(t)
    \/ \E h \in held : unsubscribe(h)
    \/ \E channel \in DOMAIN subscriptions : propagate_to_handlers(channel)
    \/ \E id \in DOMAIN loop.todo : call(id)
    \/ callback_returns \/ callback_throws \/ loop_ends

Spec == Init /\ [][Next]_vars

-----------------------------------------------------------------------------
Ids == 0 .. W - 1
Functional(f, S, T) == DOMAIN f \subseteq S /\ Range(f) \subseteq T

TypeOK == 
    /\ Functional(ids_to_channels, Ids, Types)
    /\ Functional(types_to_ids, Types, Ids)
    /\ channel_counter \in Ids
    /\ DOMAIN subscriptions \subseteq Ids
    /\ \A s \in Range(subscriptions) : 
          /\ s.type \in Types /\ s.subscription_counter \in Nat
          /\ Functional(s.callbacks, 0 .. s.subscription_counter - 1, 1 .. MaxMade)
    /\ loop.channel \in Ids \cup {None} 
    /\ Functional(loop.todo, Nat, 1 .. MaxMade)
    /\ loop.running \in Nat \cup {None} /\ loop.dangling \in BOOLEAN
    /\ held \subseteq Handles
    /\ made \in 0 .. MaxMade

\* "An ID for the subscription, to be used to unsubscribe": as long as it is
\* kept, it finds the callback it was given for and no other, although ids
\* begin at 0 again with each new ChannelSubscription.
HandlesFindTheirCallbacks == 
    \A h \in held : 
        LET channel == types_to_ids[h.type]
        IN /\ channel \in DOMAIN subscriptions
           /\ h.id \in DOMAIN subscriptions[channel].callbacks
           /\ subscriptions[channel].callbacks[h.id] = h.callback

\* A message goes to callbacks of its own type: what the static cast of
\* subscribe() and the reinterpret_cast of propagate_to_handlers() assume,
\* for up to W channels.
ChannelsAgreeOnTypes == 
    \A channel \in DOMAIN subscriptions : 
        /\ channel \in DOMAIN ids_to_channels
        /\ subscriptions[channel].type = ids_to_channels[channel]
        /\ \A h \in held : h.callback \in Range(subscriptions[channel].callbacks)
                              => h.type = ids_to_channels[channel]

\* "No longer calling the callback": what the loop calls is subscribed at that
\* moment, even if another callback of the same message unsubscribes, and has
\* not been called for this message before.
CallsTheSubscribedOnce == 
    [][loop.running = None /\ loop'.running # None 
          => \E b \in HeldCallbacks \ loop.done : loop'.done = loop.done \cup {b}]_vars

\* "Propagate an incoming message to all the subscription handlers": when the
\* loop ends, every callback that was there and still is has been called.
ReachesEverySubscriber == 
    loop.running = None /\ loop.todo = Empty => loop.due \cap HeldCallbacks \subseteq loop.done
=============================================================================
