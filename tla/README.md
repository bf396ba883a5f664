# SunNet: specification and proofs

SunNet is a C++ wrapper around BSD sockets and WinSock: a `Server` and a
`Client` that poll their connections and call virtual hooks, typed channels on
top of them, and subscriptions that turn incoming messages into callbacks.  This
directory holds TLA+ modules translated from the library's source (paths below
are relative to the repository, `src/include/...` and `src/src/...`), TLC
configurations that check them on small instances, and proofs about them that
TLAPS checks for every size.

Read it in this order: `WatchSet`, `PollService`, `PollServiceProofs`,
`Endpoint`, `EndpointProofs`, `ServerHooks`, `Server`, `ServerProofs`, `ClientHooks`,
`Client`, `ClientProofs`, `InfiniteComms`, `InfiniteCommsProofs`,
`Subscriptions`, `SubscriptionsProofs`, `MessageQueue`, `Stream`, `StreamProofs`,
`SocketConnection`, `SocketConnectionProofs`.


## 1. The system

### Components, their state and their operations

| Component | Source | State | Operations |
|---|---|---|---|
| PollService, SocketCollection | `pollservice.cpp`, `socket_collection.h` | `descriptors` (vector handed to `poll()`), `poll_descriptor_map` (descriptor to index and socket), `results` (one shared set, refilled by each poll) | `add_socket`, `remove_socket`, `clear_sockets`, `poll`, the destructor |
| Server, ChanneledServer | `server.h`, `channeled_server.h` | `state`, `server_connection`, a PollService, the pass of `poll()` that runs | `open`, `serve`, `close`, `poll` with its handlers, `removeFromPollService`, the constructor and destructor |
| Client, ChanneledClient | `client.h`, `channeled_client.h` | `state`, `connection`, a PollService | `connect`, `disconnect`, `send`, `poll` with its hooks, the constructor and destructor |
| SocketConnection, socketutil | `socket_connection.cpp`, `socketutil.cpp` | a descriptor, address info, and two static counters | constructors, destructor, `bind`, `listen`, `accept`, `connect`, `send`, `receive` |
| ChannelSubscribable, ChannelSubscription | `channel_subscribable.*`, `channel_subscription.h` | channel to subscription, id to callback, id counter | `subscribe`, `unsubscribe`, `handleIncomingMessage`, `propagate_to_handlers` |
| Channels | `channels.h`, `channels.cpp` | two static maps and a one-byte counter | `addNewChannel`, `getChannel`, `getChannelId` |
| ChanneledSocketConnection | `channeled_socket_connection.h` | none (framing: id, then body) | `channeled_send`, `channeled_read_id`, `channeled_read` |
| Example program | `examples/infinite_comms.cpp` | a server and a client in one thread | `main()`, two callbacks that answer, hooks that print |
| TCPSocketConnection | `tcp_socket_connection.h` | none | - |

### How they interact

The user drives everything by calls: `open`/`serve`/`close`, `connect`/
`disconnect`, and `poll()` again and again (`examples/infinite_comms.cpp:115`).
`poll()` asks the PollService for the ready connections, loops over them and
calls one handler for each; a handler adds or removes connections, reads a
message, and ends in a virtual hook or in the callbacks of a subscription.  Hooks
and callbacks are user code and may call the object that is calling them.  So
there are three ways in which something changes under the feet of a pass:

* a hook changes the server while the loop still holds results from before;
* the peers connect, send, close and reset between any two system calls;
* `shared_ptr`s decide when a connection is destructed.  The references are spread
  over the map, the shared results, the member of the server and the arguments of
  running handlers; the descriptor is closed with the last one, and the kernel
  may give its number to the next socket.

The library itself starts no thread any more; its comments still speak of a
polling thread, and the static counters of SocketConnection are atomic because
users run a server and a client in different threads.

### What is hard, and what makes each component correct

* **PollService**: vector and map are kept in step by hand.  Correct: the map
  always points to the descriptor's place in the vector, an entry always belongs
  to the connection that has the descriptor now, and a poll reports exactly the
  watched connections that are ready, each with the status of its own flags.
* **Server**: a closed server watches nothing, an open one watches its listener
  and nothing but clients its user knows of; a client's life, as the hooks tell
  it, is connect, messages, then one disconnect or error; no client that is gone
  and no pending connection is forgotten for ever.
* **SocketConnection**: the sockets API is initialized as long as a connection
  is open and never quit more often than initialized; what `getaddrinfo()` allocated
  has one owner; descriptors are closed exactly with their objects.
* **Client**: a connected client watches its one connection and a closed one
  nothing, whatever a hook replaces; no message after the connection was said to
  be gone; a server that is gone is reported.
* **Subscriptions and Channels**: an id that is kept finds its own callback; a
  message reaches those, and only those, that are subscribed, once, although
  callbacks change what is being looped over; channels agree on types.
* **Framing**: whole messages arrive once and in order, both ends agree where a
  message begins however `send()` and `recv()` cut it, and a sender and a receiver
  never wait for each other for ever.
* **The example**: one thread drives both ends in turn; its message is never lost or
  doubled, and both callbacks run for ever.

`PROJECT.json` lists the hazards one by one with their lines.


## 2. The modules

### WatchSet and PollService

`WatchSet` is the promise: a set `watched` of connections and the set `reported`
by the last report.  Watch, unwatch, unwatch all; a report gives each watched
connection at most one status and contains nothing else; the end of the service
leaves neither.  Which connection an unwatch takes is left open there; that it is the one
`remove_socket` was given is what `MapPointsIntoDescriptors` and `EntriesAreCurrent` are for.

`PollService` is the code.  Correspondence:

| TLA+ | Code |
|---|---|
| `add_socket`, `remove_socket`, `clear_sockets`, `destruct`, `poll`, `poll_error` | the functions of `pollservice.cpp`; `poll_error` is the throw at line 54 |
| `Reindexed` | the loop of lines 39-41, `operator[]` creating a null entry included |
| `Hits`, `Invalid`, `Inserted`, `Found` | the loop of `poll()`: the skip at line 60, the throw at line 71 with what was inserted before it |
| `Status` | the tests of lines 75-84, in their order |
| `Settle` | shared_ptr lifetimes: an object with no reference in the map, the results or `owned` is destructed and its number is free again |

A map entry is `[index, socket]` with the 0-based index of the code; sequences are
1-based, hence the `+ 1`.  Entries of the results are equal when their connections
are (`operator==`, `socket_collection.h:16`); the hash by descriptor has no
effect on which entries exist as no two live objects share a descriptor, which is
part of the proof.  `owned` is whatever the callers keep: every step may change it
to any set of existing objects, so the module covers any caller that keeps two
rules.  It does not add a connection that is watched already (no caller in the
library does; `Server` is checked for it by `ServiceSpec`), and it can only name an
object that it holds or has found in the results.

`pollservice.h:66-71` promises exceptions that this is not.  `PollReturnEventException`, for
a socket that "encountered an error", is thrown nowhere: such a socket is an ERROR entry of
the result, which is what both callers wait for (`server.h:169` and `186`, `client.h:204`).
`PollIsExact` states what the code does and the callers need, and so the opposite of what the
header says: that it holds means that the header is wrong.
`InvalidSocketConnectionException`, for a "descriptor [that] could not be found", is thrown
for an entry without a socket only (line 71), while a descriptor without an entry is
skipped (line 65); `MapPointsIntoDescriptors` and `EntriesAreCurrent` show that neither
can happen.

Not modelled: the events mask (always POLLIN) and the timeout.

### Endpoint

`Server` and `Client` are the same machine around different handlers: a state, a
connection of their own, a PollService, a pass of `poll()` over its results, the
reading of a message (`ChannelSubscribable::handleIncomingMessage`), and user code
in hooks.  `Endpoint` holds what they share, over `Service == INSTANCE PollService`;
`Server` and `Client` extend it.  `owned`, free in PollService, is defined here:
the member and the argument of the running handler.  One action is one
uninterrupted stretch of code.

| TLA+ | Code |
|---|---|
| `state_transition` | `server.h:49-63`, `client.h:57-60` |
| `poll_service`, `poll_service_throws` | the first half of `poll()`, `server.h:158-165`, `client.h:192-199` |
| `Takes` | the loop header; `todo` is what the iterator has not reached.  The set is unordered: any entry may be next |
| `receive_id`, `receive_body`, `EndOfStream`, `receive_throws` | `handleIncomingMessage`, one action for each end of each `receive()`; with nothing to read and no end of stream none is enabled: the pass is blocked |
| `Throw` | an exception leaves `poll()`, the rest of the results is skipped |
| `hook`, `hook_returns`, `hook_throws` | user code is running; the calls in `HookCalls` are enabled.  It returns to the loop, or throws: there is no `try` around the loops of `server.h:167-204` and `client.h:201-224` |
| `Settle` | PollService's, and `~SocketConnection` with `close_socket` for each object that goes |
| `phase` | a history variable: what the hooks told of each connection |

The kernel is external and modelled as Linux TCP: the states of a socket, what
`poll()` returns in each (`Readiness`: a socket that is neither connected nor
listening has POLLHUP, a reset one POLLIN, POLLERR and POLLHUP until the error has
been read), data that came before a reset still readable, `recv()` returning 0 on a
connection that was closed by the peer before it was reset (`aborted`), where the error is
never read, `shutdown()` failing on a
socket that is not connected and not listening, and the lowest free descriptor
used next.  Peers send a chunk, close or reset at any step, also between two
actions of a pass.  A chunk is what one `receive()` asks for (an id or a body);
how a chunk travels in pieces is not modelled here.

`faults` counts what goes wrong without being the peer's orderly doing: failed
binds and connects, errors of `poll()`, resets, ids no channel has
(`BadChannelException`), and hooks and callbacks that throw.  (The one exception of a
callback that does not leave `poll()` is a ConnectionClosedException of its own, which
`channel_subscribable.cpp:20` would take for the end of the stream; no callback has a
reason to throw it.)

### ServerHooks and Server

`ServerHooks` is the promise to the class that implements the hooks: one hook at
a time, and for each connection connect, then messages, then at most one
disconnect or error.  `Server` is `Server` and `ChanneledServer` of the code:

| TLA+ | Code |
|---|---|
| `open`, `serve`, `close` | `server.h:211-253`.  `open` sets the state first; its three ends are no descriptor (the constructor throws), bind or listen throws, listening.  `close` clears the service and resets the member, nothing else |
| `server_trouble`, `client_trouble`, `handle_connection_request`, `accept_throws`, `handle_ready_to_read` | the six branches of lines 168-202, deciding by `server_connection` as it is *now* |
| `drop_client` | what the three handlers of `channeled_server.h` do with a client that is gone |
| `turn_away` | `removeFromPollService` called by a hook for its own client |
| `destruct`, `construct` | `server.h:131-148` and the constructor, with the destructors of the members: the service, its map and its results go, and every connection with them.  `DESTRUCTING` is the state the destructor sets; the object may be constructed again |

After a failed `open()` the state stays OPEN although `server.h:24` says "binded and
listening" and line 218 "Change state if both succeed", and `serve()` is accepted; the
model does the same, and the properties hold in these states too: none says that an open
server has a listener, as it need not.

### ClientHooks and Client

`ClientHooks` is the promise: messages of the current connection while it is
connected, disconnect and error hooks any number of times, no message after them.
`Client` is `Client` and `ChanneledClient`:

| TLA+ | Code |
|---|---|
| `connect`, `connect_rest` | `client.h:122-130`: the member is set before the attempt, the service and the state only after it succeeded |
| `disconnect` | `client.h:139-155`.  It accepts CLIENT_CLOSED, where lines 135-137 say that it throws: after a failed `connect()` it drops the connection that was left |
| `client_trouble`, `handle_client_ready_to_read` | the branches of lines 203-219 |
| `destruct`, `construct` | as in Server, for `client.h` |
| `receive_eof`, `tell_gone` | `channeled_client.h:21`: the hook, and nothing is taken out of the service |

The branch that throws `InvalidSocketPollException` has no action; `KnowsWhatItPolls`
shows that it cannot be reached by one thread.

### Subscriptions

`Channels`, `ChannelSubscribable` and `ChannelSubscription`.  A callback is named by
the number of the `subscribe()` call that brought it (`made`); `held` are the ids
that users were given and have not given back, which is all that they may give to
`unsubscribe()`.  `loop` is the range-for of `propagate_to_handlers` with its
iterator.  Erasing an entry the loop has not reached is defined and part of every
run.  Two things a callback may do to the very subscription that calls it are
undefined behaviour: erasing its own entry (`++` then reads freed memory: the rest,
a part of it or nothing is found) and inserting, which may rehash (what follows is
any of the other entries).  `Reentrant` says which of them callbacks do.

Assumed of the program: each type is registered once, there are at most `W` of them
(`ChannelsFit`; 256 in the code), and a message that arrives is of a registered
channel (the other case is a fault of Endpoint).

### MessageQueue and Stream

`MessageQueue` is the promise: a queue of whole messages in each direction, handed
over in order; when the connection ends, what is under way may be cut from its
end, and nothing is sent any more.  Each end numbers its messages, so the queue is a set
whose first message has the least number; a message joins it with the last byte that
the kernel took of it and leaves it with the last byte that is received.  `Stream` is
one connection byte by byte:

| TLA+ | Code |
|---|---|
| `channeled_send`, `LeftToSend`, `Sent` | `channeled_socket_connection.h:28-33`: the id is one `send()`, the body another |
| `socket_send`, `Chunk`, `Accepted` | one turn of the loop of `SocketConnection::send`; the kernel takes any number of the bytes that fit, and the call blocks with no room |
| `send_throws`, `send_interrupted` | SOCKET_ERROR on a connection that was reset, and on one that lives |
| `send_raises_sigpipe` | `send()` with flags 0 after a reset was seen: the default action of SIGPIPE |
| `handleIncomingMessage`, `channeled_read_id`, `channeled_read`, `Asked`, `Complete` | the two `receive()` calls and the turns of the loop of `SocketConnection::receive` |
| `receive_ends` | ConnectionClosedException and ReceiveException; a part of a body is dropped |
| `close_socket` | the destructor of the connection, at any time between two messages |

Each byte of `wire` knows its message and its position there, so that a byte that is
taken for something else shows: `channeled_read_id` reads any type out of a byte of a
body, and `AsMessage` gives a message with number 0 when the bytes of a body do not
belong together.  The kernel between the ends is external: buffers of `Capacity` bytes
in each direction, orderly closes, closes with bytes unread (which reset), and a network
that breaks and loses any end of what was under way.

Two assumptions about programs.  After `send_interrupted` an end does nothing but
close (`GaveUp`); one that went on would leave a part of a message before its
next one, as nothing in the framing resynchronizes.  And `Modest` ends never send more
than fits: a server that answers small requests.  `Modest` must not be empty: with no
modest end, both can be inside `send()` with full buffers while neither reads.  That
deadlock is in the code, as callbacks send with the thread that reads.

### InfiniteComms

`examples/infinite_comms.cpp`, which composes the others: the module extends `Server`,
instantiates `Client` with variables of its own, and closes what was open in both.
The peer actions of either are driven by the other end over a network (`to_server`,
`to_client`: chunks not delivered yet), and the user is `main()`: open, serve,
connect, send, then `server.poll()` until it returns false, `client.poll()` until it
returns false, and again.  `server_callback` and `client_callback` send the answer,
the id and the body as one chunk each; an exception that nobody catches ends `main()`
(`terminated`).  As the server is bound to 0.0.0.0, visitors may connect, send nothing
and close; `Accepts` says which of the backlog a connection is (`mate` is the
client's).  Client and server live in one process; the client never gives its
descriptor back, so the two sets of numbers are disjoint (`ClientFds`).  The hooks of
this program only print, or send: none calls the object that calls it, which the
module assumes of `HookCalls` (`HooksOnlyPrint`).

`OneMessage` counts the chunks of the message where it may be (`Held`: at the socket of
`mate` or of the client's connection, read in part, or still to be sent by a callback; and
on the network), and says that no other connection has any (`NoneBeside`).
`ProgramSpec` is the program without its fairness.

### SocketConnection

Constructors and destructor, with each access to `open_connection_count` and
`initializations` and each call of the API as a step of its own, for any set of
threads.  Counters are modulo `W`.  On Linux the calls of the API do nothing; the
module is WinSock's side of `socketutil.cpp`: `api` counts `WSAStartup` minus
`WSACleanup`, `WSACleanup` without effect at zero, and a socket cannot be made
at zero.  A constructor that throws leaves its count behind, as no destructor
runs.  `accepted` is the second constructor, for a descriptor accept() gave.

The destructor tests `--open_connection_count` and then loops over `initializations`: two
atomics, and a decision that is not atomic.  A constructor of another thread in
between makes a connection whose API the loop then quits, against `socketutil.h:55` ("Must
be called after all sockets functions are complete").  `overlapped` records exactly
that overlap, and `ApiUpWhileOpen` and `NoUnmatchedQuit` say nothing of what comes after it:
a second loop may then begin while the first still runs, and quit the API again and again
by the counter that the first has wrapped.  What `socket_api` shows is that no other
interleaving loses the API, lets two loops run at once, or quits too often.

The loop also wraps the counter when it ends.  The next generation of connections begins by
counting it up to zero, so that its own end quits nothing: with one thread, and no failure,
the API stays initialized after the last connection, and `socket_connection.h:53`
("automatically call initialize_socket_api and quit_socket_api") is true of the first
generation only.  The model has this; no property excludes it.

`address_info` is the ownership of the `addrinfo`: hints made by the constructor, a
result after `set_socket_info` (`bind()` or `connect()`, each called once per connection
by Server and Client), freed by `addrinfo_delete` when it is marked.  When
`getaddrinfo()` fails, the pointer without value is kept and marked (`garbage`) as "a result
of getaddrinfo" (`socket_connection.h:23`); freeing
it is undefined, nothing or some other memory (`corrupted`).  `ResultsHaveOneOwner` says
nothing after that; its second part is that no such pointer exists unless a call failed.

### Conventions

Definitions whose comment begins with *Variant* are deliberate bugs next to the
definition they would replace.  No specification uses them: putting one in the
place of its neighbour makes TLC find a violation of the property it is listed
with in `PROJECT.json`, which shows that the property depends on that code.


## 3. The runs

| Run | Instance | States | Shows |
|---|---|---|---|
| `poll_service` | 3 connections, 3 descriptors, symmetric | 1.4 K | type, `MapPointsIntoDescriptors`, `EntriesAreCurrent`, `PollIsExact`; PollService implements WatchSet |
| `server` | 3 connections, descriptors 3-5, every call from every hook, hooks that throw | 220 K | type, `ClosedHoldsNothing`, `WatchesListenerAndClients`, `OnlyResultsKeepTheListener`, `LeaksArePaidByFaults`, `LeavesWithItsHook`, `AcceptsOnlyWhileServing`; Server uses PollService within its rules (`ServiceSpec`) and implements ServerHooks (`HooksSpec`) |
| `server_live` | 5 connections and descriptors, no calls from hooks | 98 K | `GoneClientsAreReported`, `PendingAreAccepted` under fairness |
| `client` | 3 connections, descriptors 3-5, both calls from every hook | 19 K | type, `WatchesItsConnection`, `KnowsWhatItPolls`; Client implements ClientHooks (`HooksSpec`); `GoneServerIsReported` under fairness |
| `infinite_comms` | server, client, 2 visitors, one fault | 6.5 K | type, `OneMessage`; `MessagesForEver`, and the fairness Server assumes follows from this program and network (`ServerIsDrivenFairly`) |
| `subscriptions` | 2 types, `W` 2, 5 subscribe calls | 62 K | type, `HandlesFindTheirCallbacks`, `ChannelsAgreeOnTypes`, `ReachesEverySubscriber`, `CallsTheSubscribedOnce` |
| `stream` | 2 ends, bodies of 1 and 3 bytes, buffers of 2 | 9 K | type, `ReadsStartAtAnId`; Stream implements MessageQueue (`QueueSpec`); `MessagesArrive` under fairness |
| `socket_api` | 2 threads, 3 objects, 5 constructions, 2 failures | 119 K | type, `ApiUpWhileOpen`, `NoUnmatchedQuit`, `ResultsHaveOneOwner` |

Four runs end in a violation of something the repository says; the counterexamples
are described under *findings* in `PROJECT.json`:

| Run | Violated | In short |
|---|---|---|
| `server_close_in_hook` | `OnlyClientsAreRead` | after `close()` in a hook the rest of the pass takes the old listener for a client |
| `client_drain` | `DrainEnds` | after the server closed, `poll()` returns true for ever |
| `subscriptions_reentrant` | `ReachesEverySubscriber` | a callback that changes its own subscription breaks the loop |
| `stream_sigpipe` | `SendErrorsAreThrown` | a message to a server that closed kills the process instead of throwing |

Five properties that hold have exceptions, and say in them what the code does wrong:

* `OnlyResultsKeepTheListener`: after `close()` the listening socket may live on, and with
  it the port; the only thing that keeps it are the shared results of
  the last poll, which go with the next poll or the destructor.
* `LeaksArePaidByFaults`: `close_socket` does not close a descriptor when `shutdown()` fails,
  which it does for a connection that was reset and a socket that never was connected:
  the number is lost, one for each such fault and never otherwise.
* `ApiUpWhileOpen` and `NoUnmatchedQuit`: a constructor that overlaps the loop of the last
  destructor loses the API.  They claim nothing once that has happened.
* `ResultsHaveOneOwner`: the pointer of a `getaddrinfo()` that failed is freed.  It claims
  nothing after that.

### Bounds, and why they are enough

* *Three connections and three descriptors* (PollService): removing the first,
  a middle and the last position of the vector differ, and with three there is
  one of each; reuse of a number needs one destruction and one construction.  The
  proofs remove the bound.
* *Three descriptors, `MaxPeers` 3* (Server): a listener and two clients, a pass
  with both clients and the listener in its results in any order, and the state
  in which no descriptor is left.  Three also allows close and open again inside a
  hook while results of the earlier generation are still in the pass.
* *`MaxPending` 2*: a whole message (id and body) can wait, or a part of one.  In
  `server_live` it is 1, so that every body has to be waited for.
* *`MaxFaults` 2*: two independent failures, for instance a failed bind and a
  reset, two resets in one pass, or a reset and a hook that throws when it is told.
* *Five descriptors, `MaxPeers` 2* (`server_live`): the two faults may leak one
  each; the other three are the listener and two clients, so that descriptors last.
* *Three descriptors, `MaxFaults` 3* (Client): the connection, the one a hook replaced
  that the results still hold, and one more attempt; two attempts may fail, or leak
  their descriptors, before one succeeds.
* *Two types, `W` 2, `MaxMade` 5* (Subscriptions): all channel ids are used, the last
  one included; three callbacks in one propagation with two more coming and
  going, on the same channel's next subscription or on the other channel.
* *Two threads, `MaxMade` 5, `MaxFaults` 2, `W` 16* (SocketConnection): the last
  destructor of one generation against a constructor of the next, with a third and a
  failure in each; `W` exceeds twice `MaxMade`, so the only wrap is the one below zero.
* *`Capacity` 2, bodies of 1 and 3 bytes, `MaxMessages` 2, `MaxFaults` 1* (Stream): a
  short message fits in the buffer whole, a long one needs at least two turns of
  `send()` and may be cut at each of its bytes, and two of them let the end of one
  message and the beginning of the next be received together.  With 3 messages (28 K
  states) nothing changes.
* *Two visitors, four descriptors, `MaxFaults` 1* (InfiniteComms): a listener, the client
  and both visitors at once, in each order of the pass; `DescriptorsLast` says that
  `accept()` finds a descriptor.

Runs of SocketConnection, Subscriptions and Stream stop when the constructions, the
subscriptions or the messages are used up, hence `CHECK_DEADLOCK FALSE` (Stream's liveness
property catches both ends blocked); all others are checked for deadlock.

### Fairness

`server_live`, `client` and `client_drain` use `FairSpec`: weak fairness of
`poll` (the user calls it again and again, as the example does, also after an exception
has left it), of the loop and
of `receive` (a program that is not blocked runs on), of `hook_returns` (hooks of
the user end, or throw), and of `PeerCompletes`: a peer whose message was read in part sends
the rest or goes.  The last one is an assumption about the peers and a strong one:
without it a single client that stops in the middle of a message blocks the whole
server in `receive()` for ever.  Nothing obliges a peer to connect, send, close or reset.  The faults are finite by their
bound: a client that resets, or sends an unknown id, or a hook that throws, at every pass
could starve the others.

`infinite_comms` discharges these assumptions for one program: it assumes only that the
one thread runs when it is not blocked (`MainStep`) and that the network delivers, and
`ServerIsDrivenFairly` derives Server's `Fairness` from that.  Its visitors send
nothing, so none begins a message that it does not complete.

`stream` assumes for each end that a running `send()` or `receive()` goes on when it can,
and that a program that is ready to read does so (it polls again and again).  Nothing
obliges an end to send or to close.


## 4. The proofs

### PollServiceProofs

It proves, for every set of connections and descriptors and every
set of flags, the type invariant (`TypeCorrect`), `MapAlwaysPoints`,
`EntriesAlwaysCurrent`, `PollAlwaysExact`, and that PollService implements WatchSet
(`ImplementsWatchSet`).  The assumptions are the named ones of the module: `NULL` is no
connection, `NoFd` no descriptor, and `Revents` are sets of the four flags with
the empty one among them; TLC evaluates them on each run.

The inductive invariant is

    IInv == TypeOK /\ MapPointsIntoDescriptors /\ EntriesAreCurrent
              /\ DescriptorsDiffer /\ ReferencesAreAlive

* `MapPointsIntoDescriptors` says that the map has the position of each
  descriptor in the vector, from which it follows that the vector has no
  duplicates.  That is what makes `remove_socket` right: erasing one
  position removes the descriptor altogether (`RemoveAtProperties`), and the loop
  finds an entry for each later position and moves it down by one
  (`ReindexedProperties`), so `operator[]` never creates a null entry.
* `EntriesAreCurrent` is not inductive alone.  A destructed connection's number
  may be given to another; the entry would be stale.  `ReferencesAreAlive` says
  that what is watched, reported or owned exists, and `DescriptorsDiffer`
  that existing objects have different descriptors; a watched object is thus never
  destructed (`SettleStep`) and a new one never gets a number that the map has.
* `PollIsExact` follows from the two: the entry at a ready position is the one
  connection with that descriptor, and nothing throws before the end of the loop
  (`FoundProperties`).

`NextStep` puts together one lemma for each operation (`AddSocketStep`,
`RemoveSocketStep`, `SettleStep`), each giving the invariant and the step of WatchSet.

### EndpointProofs

What ServerProofs and ClientProofs share; it has lemmas only.  The theorems about PollService are not
proved again: `Proved == INSTANCE PollServiceProofs` instantiates that module for the
service of an endpoint, and each step is shown to be one that PollService allows.

Assumed, each named in `Endpoint`, are that `NULL` is no connection and `NoFd` no descriptor,
that descriptors are numbers, that both sets are finite, and that there are at least as
many objects as descriptors (an object is memory of the program; there is always one
for a descriptor that the kernel has to give, which is what `NewConn` needs: `FreshObject`).

* `KernelOK` ties the sockets to the objects: different objects have different
  descriptors, an object without one has no socket and was told of as absent, and
  the descriptors lost and *those that would be lost now* (`Failing`) are together no
  more than the faults.  Only the sum is inductive: a descriptor is lost long after the
  fault that is to blame, when the last reference goes.
* `ServiceOK` is the invariant of PollServiceProofs with the references spelt out: exactly
  what the member, the running handler, the map and the results refer to exists.
* `PassOK`: what the pass has still to do is in the results, and a connection that is being
  read is in the results and has no entry left.

`Outcome(sd, sk, ph)` is what every step ends with: the invariant of service and
kernel, and that what still exists is as the step left it.  There is one lemma for each
operation of the service (`AddOutcome`, `RemoveOutcome`, `ClearOutcome`, `PollOutcome`,
...) and for each action of Endpoint.  Its last section, about endpoints of a program in
which nothing fails, is for InfiniteCommsProofs.

### ServerProofs

It proves, for any connections, descriptors, peers and bounds, and for hooks that make any of
the calls, the type invariant (`TypeCorrect`), `ClosedHoldsNothing`,
`WatchesListenerAndClients`, `OnlyResultsKeepTheListener`, `LeaksArePaidByFaults`, the two
action properties, that a server uses PollService within its rules (`UsesTheService`), and
that it implements ServerHooks (`ImplementsHooks`).

The inductive invariant adds to that of Endpoint what a pass may find after hooks have
closed, opened and turned away:

* `OwnOK`: the own connection is watched, is not what a hook is about, was never told of,
  and listens, or could not be bound and is then alone in the service.
* `EntriesOK`: an entry that was not reached is of the own connection (then the server
  serves, and the status is NORMAL unless the connection could not be bound), of a client
  that is served, or of what was a listener, then with status NORMAL.  The last case is why
  `close()` in a hook does no worse than `server_close_in_hook` shows: the old listener is
  read, never reported as a client that is gone, and so ServerHooks holds.
* `ReadOK`: the same of the connection that is read, where a listener never gets past the
  id, so that no message comes from it.
* `ClientsOK`, `ClosedOK`, `DestructedOK`: what else is watched is served; a closed server
  watches nothing; of a destructed one nothing is in a pass or in the results.

`Carry` says that what holds of the middle of a step holds after it, as the server refers
only to what exists.  `NextStep` has one lemma for each action; each proves at once
the invariant, the step of PollService, the step of ServerHooks and the two action
properties (`Good`).

### ClientProofs

It proves, likewise, the type invariant (`TypeCorrect`), `WatchesItsConnection`,
`KnowsWhatItPolls`, the bound on lost descriptors (`LosesOnlyToFaults`), and that a client
uses PollService within its rules and implements ClientHooks.

* `OnePerPass`: with one connection a pass has at most one entry, which is taken before
  any hook can change the client.  `KnowsWhatItPolls` follows, and with it that
  `InvalidSocketPollException` is never thrown by one thread.
* `ToldIsGone` and `Fits`: a connection that the user was told is gone has a socket that was
  reset (after a close, perhaps), or has ended with nothing left to read; and a pass that is about to read from it
  has nothing to read.  That is why no message comes after the disconnect hook although
  the connection stays watched.

### SubscriptionsProofs

It proves, for every set of types, every `W` and any number of subscriptions, the
type invariant (`TypeCorrect`), `HandlesAlwaysFind` and `ChannelsAlwaysAgree`, whatever
callbacks do; and for callbacks that leave the subscription calling them alone (the
theorems assume `Reentrant = {}`) `EverySubscriberReached` and `CalledOnce`.  Without
that assumption the last two fail, the first of them in the run
`subscriptions_reentrant`.  The module assumes that the types are finitely many and at
most `W` (`ChannelsFit`): with one type more, the counter would come round to an id in
use.

The inductive invariant has four parts that lean on each other:

* `ChannelsInv`: the two maps are inverse, and the ids in use are exactly those below the
  number of channels, so that `channel_counter`, the number of channels modulo `W`, is not
  in use.  This is where the cardinality argument is (`AddNewChannelStep`).
* `SubscriptionsInv`: each callback in a subscription has a handle that is kept, and an
  id below `subscription_counter`; hence the next id is new (`SubscribeStep`).
* `HandlesInv`: each handle finds its callback, and no two name the same one; hence
  when the last callback goes and the subscription is erased, no handle is left that
  would find nothing, or the callbacks of the next subscription with ids from 0 again
  (`UnsubscribeStep`).
* `LoopInv`: what the loop has not reached is still in the map, under the same id.

`ReachInv` adds, for `Reentrant = {}`, that a callback that was there at the beginning is
called, waits, or has been unsubscribed, and that none is both called and waiting.

### SocketConnectionProofs

It proves, for any number of threads and connections, the type invariant (`TypeCorrect`)
in every behaviour, and the other three properties of `socket_api` with the exceptions they
have: `ResultsOwnedUntilCorrupted` until the pointer of a `getaddrinfo()` that failed was
freed, whatever else fails; `ApiStaysUpUnlessOverlapped` and
`QuitsAreMatchedUnlessOverlapped` as long as no constructor has run during the loop of the
last destructor, whatever fails.  In the exceptions the code goes wrong: the API of an open connection is
quit, a loop that meets the counter wrapped by another quits far too often, and a free of
the pointer may free anything.  The
assumptions are those of the module: `Nobody` is no connection, and `W` is more than
twice `MaxMade` (in the code 2^32 against the constructions of one process).

The inductive invariant has a part about memory and a part about the counters:

* `Places` gives each running constructor or destructor an object of its own, in the
  state that fits the step; `InfoFollowsObject` ties `address_info` to it.  With them
  `ResultsAreCounted`, that the results in memory are as many as the objects holding one, is
  kept by every step until a pointer without value is freed, and `GarbageIsPaid`, that such
  a pointer exists only after a failure, by every step.
* `OpensAreCounted`: the counter of open connections is at least the number of objects
  that were counted up and not yet down, and at most the number of constructions, so it
  never wraps.  It may be larger: a constructor that threw leaves its count.
* Unless the overlap of a constructor with the last destructor's loop has happened
  (`overlapped`), `Accounts` holds.  `Balance` is the wrapped counter read as a number, where
  the last test of the loop leaves -1.  `LoopRunsAlone`: there is one loop at a time, and
  no object is counted while it runs.  `BalanceIsBounded`: what is counted, with what
  constructors may still count, is at most the number of constructions, which keeps -1
  apart from every number that can be counted up to.  `NextGenerationInitializes`: while the
  balance is -1 and the counter is not zero, some constructor has not counted its
  initialization, or has thrown and left the counter above the objects, so that no
  destructor reaches the loop.  `ApiCoversBalance`: the API is initialized at least as
  often as the loop will quit it, which with `LoopRunsAlone` is `NoUnmatchedQuit`; `ApiIsNeeded` is
  `ApiUpWhileOpen` with the constructors that are not finished.

None of the five is inductive alone: that the loop leaves the API as often as it was
initialized needs that it runs alone, and that a new generation begins with the API up
needs the balance of the one before.

### StreamProofs

It proves, for any types, sizes of bodies, buffer capacity and number of messages, the
type invariant (`TypeCorrect`), `ReadsStartAtAnId` (`IdsAreIds`), and that Stream
implements MessageQueue (`ImplementsQueue`), with one lemma for each action.  Assumed are
two ends, sizes of at least one byte (a C++ object has one), and a capacity of at least
one byte.

The inductive invariant says, for each direction, how any two bytes lie to each other
(`Flow`).  `Apart(a, b, d)` says that `b` is the `d`-th byte after `a`: of the same
message at its place there, or of a later message, at its beginning when the message of `a`
ends just before.  `Flow` is this relation along the whole path of the bytes:

* `WireInOrder` for the bytes on the way among themselves;
* `SenderContinues` from the bytes on the way to the byte the sender sends next, while the
  connection lives; a sender between two messages leaves whole ones on the wire;
* `ReaderContinues` from the byte received last to the bytes on the way, and to the
  sender when the wire is empty; a reader between two messages finds the beginning of one.

The relation is between any two bytes and not only between neighbours, so that it needs
no induction when the kernel takes, hands over or loses a part of the bytes: what is left
is a part of what was.  `EndTogether` says that once an end lost the connection the other
will not send into it.  A byte that is read for an id is then the first of a message,
and a body is the body of one message from its first byte on, which is what the steps of
the queue need (`QueueRead`).

### InfiniteCommsProofs

It proves, for any connections, descriptors, visitors and bounds, that the server of the
example program is a Server (`ServerOfTheProgram`) and its client a Client
(`ClientOfTheProgram`), so that what ServerProofs and ClientProofs say holds in
it; the type invariant (`ProgramTypeCorrect`); and `OneMessage` (`ExactlyOneMessage`).
Assumed, besides what Server assumes, are the descriptors of the client
(`ClientFdsAssumption`), enough of the server's (`DescriptorsLast`), and `HooksOnlyPrint`.

The client appears twice, as the instance `client` of InfiniteComms and below
`CP == INSTANCE ClientProofs`; the lemmas `Same...` say that they are one.

The inductive invariant `ProgramInv` joins those of the two parts with

* `EndsExist` and `ProgramTypes`: the network has an end to deliver to.  A delivery is
  a step of Server, or of Client, only because of that (`StepsOfTheParts`).
* until an exception ends `main()`, `Running`: both ends are `Calm`, the thread is in one
  part only and only a callback is in the middle of a message (`Turns`), and the chunks
  add up (`Accounted`).

`Calm(..., m)` is what makes a pass of this program different from one of any other: `m`
is the one connection over which messages come, its peer stays, it is watched, and all
others are listeners, or visitors that have sent nothing.  Hence each entry of a pass has
the status NORMAL, only `m` is ever read past the first `receive()`, and no `receive()`
fails.  The lemmas `Calm...` of EndpointProofs, ServerProofs and ClientProofs prove that
each step keeps an endpoint calm and say what it does to `Chunks`, the chunks it
holds: a receive moves one from the socket into the pass, a hook that returns is done with
two, and nothing else changes them.  `CalmAccept` is where `mate` comes from: the
connection that was accepted has received nothing, so that becoming `mate` adds nothing.

`OneMessage` alone is not inductive.  That the callbacks of the two ends do not answer at
the same time needs `Turns`; that a visitor's end of stream takes no chunk with it, or that
the part of a message that was read is not dropped by a throw, needs `Calm`; and that the
network carries no more than one message follows from `Accounted` (`RunningTypes`) as long
as the program runs, and after an exception from what it carried then.

### What is only model-checked

`SendErrorsAreThrown` and the other claims that the code refutes; liveness
(`MessagesForEver` of the program among them) and the assumptions of fairness
(`ServerIsDrivenFairly`), as liveness and ENABLED are beyond the prover.


## 5. Not modelled, and why

* **A second thread** in a Server or Client.  The destructor and `close()` take no lock and
  join nothing, so any access of theirs during a pass of another thread is a data race:
  undefined behaviour without an order of steps to check.  Between passes they are
  modelled.
* **`poll()` called by a hook**: the inner pass would refill the shared results under the
  iterator of the outer one, which is undefined for the same reason as the loop of
  `subscriptions_reentrant`.
* **Users who keep a `shared_ptr`** of a connection: it delays the destruction, which
  PollService allows (`owned` is free there) and Server does not.
* **The raw `send()` and `read()` of Client**, and two threads that send on one
  connection: both put bytes into the stream that are not whole messages, and the
  framing has nothing against it.
* **`bind()` or `connect()` twice** on one connection (the first `addrinfo` would be lost);
  no caller in the library does it.
* **A type registered twice, a 257th channel, an id given back twice**: legal to write,
  outside of the assumptions above, and promised nothing by the comments of the code; the
  last two are listed as hazards.
* **A peer that stops in the middle of a message, and two ends that only send**: each blocks
  a program for ever, and the liveness properties assume that neither is there
  (`PeerCompletes`, `Modest`); listed as hazards.
* **Starvation by `accept()`** when no descriptor is left: it throws on every pass; listed
  as a hazard, the runs leave enough descriptors.
* The constructors of PollService that take sockets (they call `add_socket`, and
  nothing calls them), `TCPSocketConnection` (constants only), error texts, address
  formats, byte contents of messages.


## 6. Plan

Done: PollService, Endpoint with Server and Client and their destructors, Subscriptions,
SocketConnection and Stream and the composition in InfiniteComms, each with its proofs.
InfiniteCommsProofs joins them: the theorems of PollServiceProofs hold below each Server and
Client, and those of ServerProofs and ClientProofs in the program.  Each safety invariant that
a passing run checks is stated by a theorem.  Left are the parts of section 5.
