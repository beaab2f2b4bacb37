# Verification of GodNet

GodNet is a C++17 network library in the one-loop-per-thread style: every thread
that does I/O runs an `EventLoop`; sockets, timers and functors are served by its
callbacks; other threads reach a loop only by queueing functors. This directory
holds TLA+ modules of its core, the TLC configurations that check them and
theorems that TLAPS proves. Paths below are relative to
`src/include/godnet/`.

- [1. Inventory](#1-inventory): components, state, interaction, what is hard
- [2. Plan](#2-plan): modules, order, compositions
- [3. Modules and code](#3-modules-and-code)
- [4. Runs](#4-runs): what each shows, bounds, fairness
- [5. Proofs](#5-proofs)
- [6. Where the code disagrees with its own assertions](#6-where-the-code-disagrees-with-its-own-assertions)
- [7. What is not modelled](#7-what-is-not-modelled)

## 1. Inventory

| Component (file) | State | Operations | Called by | What makes it correct |
|---|---|---|---|---|
| `LockFreeQueue` (util/lock_free_queue.hpp) | `head_`, `tail_`, `next_` links, heap nodes | `enqueue` (any thread), `dequeue`, `empty` (one consumer), destructor | `EventLoop::customEvents_` | FIFO per exchange order, no access to a deleted node, no leak |
| `EventLoop` (net/event_loop) | `status_`, functor queue, `wakeupFd_`, ready channels | `start`, `stop`, `runInLoop`, `queueInLoop`, timers | everything | no functor and no stop is slept over; they take effect |
| `EventPoller` (net/event_poller) | epoll set, `channels_` | `pollEvents`, `updateChannel` | `EventLoop`, channels | registrations match interest sets; no dead channel is called |
| `EventChannel` (net/event_channel) | `events_`, `revents_`, weak owner | enable/disable, `handlerEvent` | connections, acceptor, connector, wakeup | callbacks in a fixed order, only on live owners |
| `Timer`, `TimerQueue` (net/timer, net/timer_queue) | heap `timers_`, `timerIds_` | add, cancel, run expired, next timeout | `EventLoop` | no timer lost, early, late by a sleep, after cancellation |
| `TimerWheel` (net/timer_wheel) | wheels of buckets, tick counter | insert, tick, destructor | nobody (not built) | an entry is released at its tick, and all with the wheel |
| `EventLoopThread` (net/event_loop_thread) | `thread_`, `loop_` | `start`, `stop`, `getLoop` | pool, users | published loop exists and runs |
| `EventLoopThreadPool` (net/event_loop_thread_pool) | `loops_`, `index_` | `start`, `stop`, `getNextLoop` | server, users | loops handed out in turn, all running |
| `MessageBuffer` (net/message_buffer), `Endian` (util/endian) | memory block, two offsets | read/write/retrieve, integers | connection, users | a FIFO of bytes, bounded memory, network byte order |
| `TcpConnection` (net/tcp_connection) | `status_`, buffers, channel | `init`, `send`, `shutdown`, `forceClose`, event handlers | server, client, users on any thread | byte order kept, FIN after data, one end, safe destruction |
| `TcpAcceptor`, `TcpServer` (net/tcp_acceptor, net/tcp_server) | listening channel, set of connections | `start`, `stop`, new/remove connection | users | the set follows the connections, `stop` closes those in it, a waiting peer is accepted |
| `TcpConnector`, `TcpClient` (net/tcp_connector, net/tcp_client) | attempt, retry timer and delay, connection | `connect`, `reconnect`, `start`, `stop` | users | retries with backoff, nothing left after stop |
| `Socket`, `TcpSocket`, `InetAddress`, `UdpSocket`, `System`, `Logger` | file descriptor, address | wrappers of system calls and libraries | all | – |

How they interact: a foreign thread calls, say, `TcpConnection::send`; the call
becomes a functor in the loop's `LockFreeQueue` and a write to its eventfd. The
loop returns from `epoll_wait`, dispatches the ready channels, drains the queue
and there runs `sendInLoop`, which writes to the socket or to `writeBuffer_` and
arms `EPOLLOUT`. Loops of other threads come from `EventLoopThread`, which
publishes the address of an `EventLoop` on the thread's stack. A server or client
holds a `shared_ptr` to its connections and lets go in `closeCallback_`.

What is hard in it: posting races sleeping; stop races the end of a thread; the
queue has a window in which its elements are unreachable; callbacks cancel
timers, close connections and destroy owners while a batch that mentions them is
being worked off; writes are partial; shutdown has to wait for a flush.
`PROJECT.json` lists these as hazards, each at its line, with the properties
that watch over it or a note on why none does. There is no persistent state, so
nothing to recover.

Assertions: the default build type is Release (`CMakeLists.txt:13-15`), whose
compiler flags define `NDEBUG`; the models therefore go on past an assertion that
fails, and an assertion is at most a property.

## 2. Plan

Order: the queue first, since everything crosses threads through it; then the loop
on the *abstract* queue; then what runs on the loop.

| Step | Modules | State |
|---|---|---|
| 1 | `MpscQueue` (abstract), `LockFreeQueue`, `LockFreeQueueProofs` | done, proved |
| 2 | `EventLoop` (extends `MpscQueue`), `EventLoopProofs` | done, safety proved |
| 3 | `TimerQueue`, `TimerQueueProofs` | done, safety proved |
| 4 | `ByteStream` (abstract), `MessageBufferOps`, `MessageBuffer`, `MessageBufferProofs`, `MessageCodec` | done, proved |
| 5 | `TcpConnection` with its channel and socket, `TcpConnectionProofs` | done, safety proved |
| 6 | `EventLoopThread`, `EventLoopThreadPool` (extends it), proofs in `EventLoopProofs` | done, safety proved |
| 7 | `TcpClient` with `TcpConnector`, `TcpClientProofs` | done, safety proved |
| 8 | `TcpStream` (abstract), which `TcpConnection` implements | done, proved |
| 9 | `EventPoller`: registrations, batches of several channels | done |
| 10 | `TcpServer` with `TcpAcceptor` (extends `EventPoller`), `TcpServerProofs` | done, safety proved |
| 11 | `TimerWheel`, `TimerWheelProofs` | done, proved |

Abstract specifications: `MpscQueue` (a FIFO of claimed and published slots) for
the queue, `ByteStream` (a FIFO of bytes) for the buffer, `TcpStream` (a prefix of
what was sent reaches the kernel, then at most one FIN) for a connection's
outgoing half. `EventLoop` is written on top of `MpscQueue`, which is sound
because `LockFreeQueueProofs` proves that the linked list implements it.

Every safety property of a passing run is the subject of a theorem (section 5);
liveness stays with TLC.

## 3. Modules and code

Each `.tla` file says in its header which source it models, and
`PROJECT.json` maps every definition to lines. In every module an operator whose
comment begins with *Slip* is not part of the model: it is the operator that
follows it with a plausible programming error, kept to show that the properties
notice.

**MpscQueue, LockFreeQueue.** One action per atomic access: a producer allocates
(`EnqueueNew`), exchanges `head_` (`EnqueueExchange`) and links (`EnqueueLink`);
the consumer sees a null link (`DequeueEmpty`), or loads the next node, takes its
payload and moves `tail_`, and deletes the old dummy (`DequeueLoad`,
`DequeueTake`, `DequeueReclaim`). Node addresses are reused after `delete`. A
history variable `chain` records the exchanges in order. In the abstract queue
the exchange is `Claim`, the link `Publish`; a consumer sees only a published
first slot, so a stalled producer hides later elements.

**EventLoop.** `pc` says where `start()` is or whose callback it is in. Foreign
threads take the steps claim, publish, write the eventfd, or store the status and
write the eventfd. The loop's thread posts in one step, since the consumer cannot
run in between. One timer and one socket stand for all, because only when they
wake the thread matters here. A member of `Value` is one posted functor.

**TimerQueue.** Handles timers by id in order of creation. `handlerTimer` is cut
at every callback, which may add and cancel timers; additions and cancellations
of other threads wait in `ops`. `wakeAt` is the time at which `epoll_wait` gives
up. An id is cancelled at most once, by whoever got it from `runTimer`.

**MessageBuffer.** `MessageBufferOps` has the operators on a buffer (a block of
memory and the offsets of `read_` and `write_`), `MessageBuffer` the state machine
that applies them, including `handleRead`'s two-part `readv`. Fresh memory holds
`Junk`. As written, `reallocate` compares `size() - readByte()`, which is always
0, with the length (line 170): it always moves to a new block of twice what is
needed and never takes the branch that shifts the content. The model does the
same. `MessageCodec` sends integers through two such buffers: an integer of *k*
bytes is a number below the *k*-th power of `Base`, its bytes in memory are its
digits, the lowest first, and the integer at some place of a buffer is the number
that has the bytes there.

**TcpConnection.** One connection on its loop. Bytes are numbered in the order in
which `sendInLoop` gets them. The socket is nondeterministic: a write takes any
number of bytes that fits into the send buffer, 0 stands for every error. The
events that epoll reports and `handlerEventSafe` turns into callbacks are computed
from the socket's state and the channel's interest. Calls on the loop's thread
happen inside the connection's callbacks, or elsewhere in the loop's round, also
between the poll that reported the channel and its dispatch. The object is
destroyed when owner, user and functors have let go. `TcpStream` is what all this
comes to for the user: `sent`, what the kernel got and whether it got a FIN, with
no buffer, no interest set and no functor in it; the refinement mapping is
`RefinesTcpStream`. `spoiled` remembers that the connection got a send or an event
after its end; `EndsOnce` and `DestroyedUnregistered` exempt exactly that (see
section 6).

**EventPoller.** The channels of one loop: `events_` and `revents_` of each, the
poller's set `channels_`, the kernel's epoll set, and the loop's batch. A channel
is named by its address, since `channels_` and the batch hold bare pointers; a new
channel at an old address finds what was left there. `UpdateChannel` has the
`epoll_ctl` calls that fail because the two sets disagree. `PollEvents` reports as
many channels as `events_` has room for, and doubles it when it was filled. The
module has the state and the operations and no specification of its own: a module
of something that owns channels extends it.

**TcpServer.** The server, its acceptor and its connections on one loop.
`loopPool_` is never set in this repository, so connections get the server's own
loop. Callbacks call the program, which calls the server and the connections, which
call back again: `frames` is that stack, with the connections that each call keeps
alive. A connection lives as long as the set, the program or a frame refers to it;
after that its address is free for the next `Accept`. `handlerEventSafe`,
`handleRead`, `handleWrite`, `handleClose`, `newConnection` and `stop()` are cut at
every callback, and the program may force a close, send, keep and drop references,
`start()` and `stop()` in each. Two descriptions are coarser than the code:
connecting and connected are one status (`"disconnected"` until `initInLoop`), and
how much waits in `writeBuffer_` is left to `TcpConnection`. `misuse` and `early`
remember what the properties exempt, `undefined` that an object was used which is
gone, and the model ends there.

**TimerWheel.** Time is counted in ticks. An entry's `shared_ptr` is put in the
first wheel it fits in; for each wheel below that the code wraps it in a
`DelayEntry` whose destructor inserts it there, and `way` lists those buckets.
`tickCounter_` is kept modulo the span of the wheels, as only its digits are used.
`WheelsNum` is computed as in the constructor, from powers of the number of buckets;
it may be 1.
A tick destroys the first bucket of a wheel reference by reference, and the
destructor of an entry may insert an entry at that moment. So does the destructor
of the wheel, where such an insertion is undefined. The history variables
`earliest` and `latest` say from when and until when each entry has to live.

**EventLoopThread, EventLoopThreadPool.** The loop is reduced to status, eventfd
and the functors that matter: the one that publishes the address, and posted ones
that may stop the loop from inside. The loop object lives from `Construct` to
`Destruct`. The pool starts and stops its threads one after the other.

**TcpClient.** A client with its connector, on its loop, which is reduced to the
order of its callbacks. The kernel is external: it hands out descriptors, refuses
a `connect()` at once or answers it later (`Connect`, `ConnectAnswered`,
`ResetArrives`). Time is abstract: an armed timer fires some time later and keeps
its delay as a number. `start()` is called once; `stop()` comes from other threads
(a functor) and from callbacks on the loop's thread, also between the poll that
reported the connector's channel and its dispatch. In that case the loop calls a
channel that is gone, and `pc` becomes `"undefined"`, as it does when a `start()`
or a reconnect meets the connector that `stop()` destroyed; the properties say
what holds until then. The connection is reduced to its beginning and its end
(`TcpConnection` has the rest). `Destroy` is the destruction of a client without a
connection. Left out: a second `start()`, and the destruction of a client whose
connection lives on.

## 4. Runs

| Run | Instance | What it shows |
|---|---|---|
| `queue` | 3 producers, 5 node addresses, 2 payloads | Integrity, memory safety, no leaks, implements `MpscQueue` |
| `loop` | 2 threads, 2 functors, any stops and restarts | No lost wakeup or stop; functors run, `start()` returns after a stop |
| `timers` | 2 timers, 5 clock values, one-shot and repeating, timeout cap 2 | Timers accounted for, no oversleeping, legal runs, all run |
| `connection` | 3 bytes, sends of up to 2, 2 functors, a send buffer of 2 | Implements `TcpStream`; interest while bytes wait, one end, safe destruction; shutdown and the peer's end take effect |
| `server` | 2 peers, 3 channel addresses, `events_` from 1, 1 unfinished send | Registrations follow channels, the set follows connections, `stop` closes what was accepted, peers are accepted |
| `pool` | 2 threads, 2 starts each, 1 posted functor, 3 calls | Handover, published addresses, round robin, start and stop return |
| `buffer` | blocks from 2 bytes, writes and backlog of up to 3 | Implements `ByteStream`; bounded memory |
| `codec` | 1-bit bytes, integers of 1, 2, 4 bytes, 2 integers | Integers arrive; network byte order |
| `client` | 3 descriptors, delays from 1 to 10, one start and 2 stops from anywhere | Nothing leaks, one way at a time, backoff, attempts end |
| `wheel` | 3 wheels of 2 buckets, 2 entries, 2 references, delays from 0 to 9 | Entries released at their tick, and all with the wheel |
| `loop_thread_stop_race`, `server_erase` | smallest instances | Violated assertions, section 6 |

*Why the bounds are enough.* `queue`: three producers give a stalled first, a
linked second and an allocating third; five addresses force reuse of a deleted
node while another producer still holds its `prev`. `loop`: the interesting case
is one thread between claim and publication while the other posts, stops or has
just written the eventfd; the theorems cover every number of threads and functors.
`timers`: two timers are enough for a callback to cancel another timer of its
batch and for a stale heap entry to lie on top of a live one; the cap is smaller
than the longest delay. `connection`: a send buffer of two and three bytes give
full, partial and refused writes, with a second send behind a partial one; two
functors can arrive in both orders of send, shutdown and close. `MaxOps` also
keeps foreign threads from posting for ever, which would keep the loop draining
(`event_loop.cpp:81-88`). `buffer`: growth, a new block smaller than the old one,
and both halves of `readv` occur; the theorems cover all sizes. `codec`: a
width of four bytes is split in every way by stream and reallocation; eight bytes
is the same code, and bytes of one bit keep every value reachable. `client`: an
attempt, the connection that is about to go and one spare descriptor; the delays
1, 2, 4, 8 and then the cap of 10; two stops, so that the second finds the client
stopped. Its state space is finite without further bounds. `server`: two
connections, or one and the acceptor, can be in one batch and close each other; three
addresses make the second connection get that of the first, or the acceptor's after
a `stop()`; a first size of 1 stands for the 32 of the code and makes two ready
channels too many; one unfinished send is enough for interest in output to outlive
a connection. `wheel`: three wheels give a way of two buckets; the delays reach
beyond the span of 8 ticks, and entries are inserted at every position of the
wheels; the second reference is the one that prolongs an entry's life or is carried
by another entry's destructor.

*Fairness.* Weak fairness of the steps that the loop's thread takes by itself, and
of each thread inside a call: the operating system runs every thread that can go
on, and callbacks return. Never of a caller calling, a socket becoming readable, a
signal, or a loop being restarted. `timers` adds that the clock moves;
`connection` that the peer reads what was sent to it (for `ShutdownFinishes`
only); `pool` that the owner stays in `start()` or `stop()` until it returns;
`client` that a `connect()` is answered in the end, by a timeout at the latest;
`server` (for `PeersAccepted`) that an `accept()` that is tried again and again
succeeds in the end: strong fairness, since failures, which are only logged, come
between (`tcp_acceptor.cpp:74-90`).

*Deadlock* is checked for `timers` and `buffer`. The others stop for
good reasons: destroyed loops and queues, exhausted bounds.

*Known limits that the properties name.* A functor that a **timer** callback
queues, or a stop() it calls, on its own loop is not woken for:
`handlerTimer` runs before `pollEvents` and a call on the loop's own thread does
not write the eventfd (`event_loop.cpp:72-75, 94-98, 114-120`). It takes effect
after the next unrelated event. `NoLostWakeup`, `NoLostStop`, `FunctorsRun` and
`StopReturns` exempt exactly these. `RegistrationFollows` exempts what follows a
send after a connection's end, a second end, and an acceptor destroyed before it
listened; `ServerKnows` a connection that ended in its first callback;
`StopClosesAccepted` the connection whose connection callback calls `stop()`, which
is not in the set yet and stays open; `EndsOnce` and `DestroyedUnregistered` a
connection that got a send or an event after its end; `AttemptEnds` an attempt that
fails after `connect()` returned; `PoolCallsReturn` loops that were stopped from
inside; `ReleasedOnTime` delays beyond the span of the wheels (with one wheel
already a delay of exactly the span), and bounds an insertion in the middle of a
tick from one side only. Section 6 says what happens then. Where the exempted case
is the whole of a hazard, `PROJECT.json` lists that hazard with a note and without a
property.

## 5. Proofs

TLAPS proves the following for every value of the constants, from the named
assumptions in the modules: a reserved value lies outside the set it extends, sizes
and delays are natural numbers (those that the code divides by or fills are not 0),
a server has an address for its acceptor (`ChannelAssumption`). That finitely many
wheels span the longest timeout is proved (`SomeWheels`), not assumed.

| Module | Theorems | Argument |
|---|---|---|
| `LockFreeQueueProofs` | `TypeCorrect`, `ListStaysIntact`, `MemoryAccounted`, `MemorySafe`, `Refinement` | Invariant `IInv`: the type invariant, the list of nodes as recorded by the exchanges with each gap owned by a producer that is about to link it, and the partition of the allocated nodes into listed, fresh and retired ones. Memory safety follows, since every address a thread will touch is in one of these. Refinement: exchange maps to `Claim`, link to `Publish`, take to `Take`, a null link to `SeeEmpty`, the rest to stuttering. |
| `EventLoopProofs`, the loop | `TypeCorrect`, `QueueStaysOwned`, `WakeupNotLost`, `StopNotLost` | `NoLostWakeup` alone is not inductive: that a thread that published will still write the eventfd for *that* slot needs `QueueOwned` (each functor is queued once, each unpublished slot has its thread). The conjunction with `NoLostStop` and the types is. |
| `EventLoopProofs`, the pool | `PoolTypeCorrect`, `PoolImplementsThreads`, `LoopsExistWhilePublished`, `StartedLoopsRun`, `PoolHandsOutRunning`, `LoopsTakeTurns` | Every step of the pool is one of `EventLoopThread`, so `WorkersInv` (what a thread's `pc` says of its loop, its published address and its functors) is proved once, over that module's steps. `OwnerInv` says which threads the owner's loop over the pool has got to; `InTurn`, that in the order in which `getNextLoop` will come to them the loops were handed out more and more often, by one at most. |
| `TimerQueueProofs` | `TypeCorrect`, `NoTimerIsLost`, `NeverOversleeps`, `CallbacksRunLegally` | `TimersInv`: besides the two properties, a timer whose functor is still queued has no history (`WaitingIsNew`), what `handlerTimer` took from the heap had expired (`BatchIsDue`), a cancelled timer does not come back (`GoneForGood`), and what is still to run ran an interval before its expiration or never (`RunsApart`). The action property follows from the same invariant. |
| `TcpConnectionProofs` | `TypeCorrect`, `StreamStaysIntact`, `PendingStaysWatched`, `EndsOnlyOnce`, `DestroyedSafely`, `ImplementsTcpStream` | `BytesInv` (the bytes the socket got, those behind them in `writeBuffer_` and interest in `EPOLLOUT` agree, in every status) and `LifeInv` (which callbacks are still to come, who keeps the object alive). For the refinement a lemma says what each call that `sendInLoop`, `handleWrite` and the closing functions make is in `TcpStream`: a step of it or a stutter. |
| `TcpServerProofs` | `TypeCorrect`, `RegistrationsFollow`, `ServerKnowsThem`, `AcceptedAreClosed` | `Inv` relates the stack of calls to the channels: an open connection is in the set or in the hands of `newConnection` (`OpenIsKnown`), one that is over has a call that takes it out (`OverIsKnown`), each open one has a `stop()` coming for it once the acceptor is gone, or is the one whose callback called `stop()` (`StopComes`), and without misuse a connection that is over asks for no events, so that `channels_` and epoll have exactly the living channels that ask for some (`Registered`). A lemma for each function says what it leaves of that, also when it is called inside another. |
| `TcpClientProofs` | `TypeCorrect`, `NothingLeaks`, `OneWayAtATime`, `DelaysBackOff` | `DescriptorsOwned` and `OneWayForward` need each other and three facts more: `Coherent` (status, timer id and the place of the callback tell which of the three ways the client is on), `Started` (only a started client is on one), `StartsOnce` (a start functor is the first of the queue). A lemma each says what `Connect`, `start()` and `stop()` leave behind. `InStep`: the connector's current delay is the one that follows the failures so far; powers of two are counted as sets of subsets. |
| `MessageBufferProofs` | `TypeCorrect`, `NothingUnwrittenRead`, `EmptyIsRewound`, `MemoryBounded`, `Refinement` | The buffer. `Valid`: ordered offsets inside the block, written bytes between them, and rewound when empty. Lemmas on each operator: `Write` and `Received` append to the contents, `Retrieve` drops a prefix; the rest follows. |
| `MessageBufferProofs`, the codec | `IntegersArrive`, `NetworkByteOrder` | `CodecInv`: both buffers are `Valid`, and what they hold and what is between them is, end to end, the integers that were not read yet, each in network byte order. A row of *k* bytes is the row of exactly one number (`SomeValue`, `OneValue`), so `hostToNetwork` turns the bytes round and reading turns them back (`NetworkIs`, `ReadBack`). Sending and delivering move bytes without changing the whole (`BytesMove`); a `ReadInt` that has enough bytes takes those of the first unread integer and nothing else (`FrontCut`). The assumptions on `Base` and the widths are used by these two theorems only. |
| `TimerWheelProofs` | `TypeCorrect`, `ReleasedInTime`, `DestructorReleasesAll` | Types: a reference in wheel *i* has exactly *i* buckets to go on to. `ReleasedOnTime` speaks of counts of ticks, the state of buckets and digits: `TicksTo` is the number of ticks until a reference is destroyed for good, computed from its bucket, its `way` and the counter, and `InTime` says that for each reference it is no later than the promise, and for one of them no earlier. `Turning` says where a tick in progress has got to: all digits of the wheels below `at` are 0. The core is arithmetic: one tick less is left after a tick (`NextRemainder`, `TickDues`), and the buckets chosen by `insertEntryInLoop` add up to the delay (`JourneyTakes`). The destructor clears the wheels from the highest down; `ClearedStayEmpty`: a wheel that was cleared stays empty, as the `DelayEntry`s of a wheel insert into the one below it only, until the destructor of an entry inserts one, where the model ends. |

`TypeCorrect` in all modules but `TimerQueueProofs` and `TimerWheelProofs`,
`PoolTypeCorrect`, `PoolImplementsThreads`, `QueueStaysOwned`, `EmptyIsRewound` and
`NothingUnwrittenRead` are about formulas that no run repeats: invariants and a
refinement the other theorems rest on.

The invariants were given to TLC as invariants of the runs' instances, or slightly
smaller ones, before they were proved. The proof of `ReleasedOnTime` found an error in
that property this way: it used to promise a delay of exactly the span also with one
wheel, which no run has and where it fails (section 6).

Induction is done over sets of numbers, since the library's induction theorems take
an operator that the provers here cannot instantiate: the well-foundedness of `Nat`
gives a least element of the set of counterexamples (`LeastNumber`), and from that
that a recursive function satisfies its equation (`Recursion`), division with
remainder, what is needed of powers, and that flattening a sequence of sequences
grows at its end and shrinks at its front (`FlattenAppend`, `FlattenFirst`). The
lemmas about numbers stand in each module that needs them, since the modules do not
extend one another.

Only model-checked: all liveness (fairness and `ENABLED` are beyond the prover).

## 6. Where the code disagrees with its own assertions

Each of these two is a run that TLC ends with a counterexample.

1. `loop_thread_stop_race`: `EventLoopThread::stop` stores the status of a loop
   that may end, and be destroyed, before the eventfd is written
   (`event_loop.cpp:95-98, 172-173`).
2. `server_erase`: `newConnection` runs the connection callback before it puts the
   connection into the set; a `forceClose()` in that callback erases nothing
   (`tcp_server.cpp:80-81, 103`), and the dead connection stays in the set.

The models contain the following as well, without a run of their own.

- `handleClose` asserts an open status (`tcp_connection.cpp:272`);
  `forceCloseInLoop` has set it to disconnected one line before the call.
- A channel is destroyed with events registered (`event_channel.cpp:30`) after a
  send that came too late: `sendInLoop` does not look at the status and arms
  `EPOLLOUT`.
- A loop stopped from inside leaves the thread joinable and `loop_` null; `stop()`,
  also from the destructor or the pool, asserts the contrary
  (`event_loop_thread.cpp:14-17, 44`).
- `updateChannel` adds a channel that is not registered even if it has no events
  (`event_poller.cpp:99`): an acceptor that is destroyed before it listened, and a
  connection that ends twice, leave a dead address in `channels_`. The next channel
  at that address is modified where it had to be added, and never watched.
- `stop()` in the connection callback of a connection that is being accepted does
  not close that connection: it is put into the set when `stop()` has returned, and
  stays there, open (`tcp_server.cpp:52-58, 80-81`). The same call destroys the
  acceptor whose handler is running (`tcp_server.cpp:51`, assertion at
  `event_channel.cpp:29`). The model ends in `undefined` when that handler goes on.
- A `start()` after a `stop()` finds no acceptor; and a callback may destroy a
  channel that comes later in the batch, as `TcpConnection`'s and the acceptor's go
  at once (`event_loop.cpp:76-79`). The model ends in `undefined` there.
- A destructor of an entry that inserts an entry for less than a tick changes the
  bucket that is being destroyed, and one for longer may have it carried on at once
  by the next wheel, a rotation early (`timer_wheel.cpp:43-52`). One that inserts an
  entry while `~TimerWheel` clears the lowest wheel finds that wheel in the middle of
  `clear()` and the others without buckets (`timer_wheel.cpp:60-63, 93-109`); the
  model ends in `undefined`.
- With one wheel a delay of exactly the span is released a tick early: it needs the
  bucket after the last, and what does not fit is put in the last
  (`timer_wheel.cpp:85, 106-110`). With more wheels the same delay is on time.
- A read that fails with `EAGAIN` or `EINTR` ends the connection like any other
  error (`tcp_connection.cpp:231-238`).
- `delTimerInLoop` asserts that the timer is there (`timer_queue.cpp:148`). Whoever
  cancels a one-shot that has just run, or whose cancellation is queued while it
  runs, finds it gone.
- A `connect()` that fails after it returned is reported with `EPOLLHUP` beside
  `EPOLLOUT`. `handlerEventSafe` then calls `closeCallback_` and not
  `writeCallback_`, and the connector sets only the latter
  (`event_channel.cpp:57-96`, `tcp_connector.cpp:62-67`): the attempt is not
  retried, and level-triggered epoll reports it again at every round until
  `stop()`. `AttemptEnds` exempts it by name.

Also seen, and left out: a second `start()` of a client while a retry timer is
pending opens a second attempt and forgets the timer's id
(`tcp_connector.cpp:45-73`); `TcpAcceptor` ignores a `bind()` that fails; `TcpClient::stop`
of a loop that has stopped waits for ever (`tcp_client.cpp:53`); `operator==` of
`InetAddress` asks twice whether its left side is IPv6.

## 7. What is not modelled

- `InetAddress`, `Socket`, `TcpSocket` beyond the calls named in section 3:
  conversions and one-line wrappers of system calls, without state of their own or
  control to check; `UdpSocket` is empty.
- `TcpServer` over a pool of loops: `loopPool_` has no setter. `eventCallback_` and
  `errorCallback_` of a channel, which nobody sets. `setReuseAddr` and the other
  setters.
- An `insertEntry` from another thread that is still queued when its wheel is
  destroyed: it holds a raw `this`, and whoever destroys a wheel has to know.
- A second `start()` of a client, and the destruction of a client whose connection
  lives on: both break assertions.
- Out-of-band data, `EPOLLRDHUP` (never asked for), Windows branches, the logger.
- Weak memory beyond the acquire/release pairs: actions are sequentially
  consistent, and the code orders each publication with release and acquire.
- A stop() of a loop that is not running, two stops of one run: the assertion in
  `EventLoop::stop` excludes them, and the model calls `stop` on running loops only.
- Allocation failure and exceptions thrown by callbacks.
