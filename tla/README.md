# TLA+ models and proofs of MyMuduoCore

MyMuduoCore is a small multi-reactor TCP library in C++11: a main loop accepts
connections, a pool of threads runs one `EventLoop` each, every connection
lives on one of these loops. This directory models its core as TLA+ modules,
checks them with TLC on small instances, and proves the central invariants and
refinements with TLAPS for every value of the constants. Paths below are those
of the repository (`src/TcpConnection.cc`, `include/Buffer.h`, ...).

## 1. Inventory

| Component | State | Operations | Interacts with |
|---|---|---|---|
| `EventLoop` | `quit_`, `callingPendingFunctors_`, `pendingFunctors_`, the eventfd, `activeChannels_` | `loop`, `quit`, `runInLoop`, `queueInLoop`, `wakeup`, `handleRead`, `doPendingFunctors` | called from any thread; calls channels and functors on its own |
| `EventLoopThread`, `Thread` | `loop_`, `mutex_`, `cond_`, `joined_` | constructor, `startLoop`, `threadFunc`, destructor; `start`, `join` | owns the thread on whose stack an `EventLoop` lives |
| `TcpConnection` | `state_`, `channel_`, `outputBuffer_`, `inputBuffer_`, its owners | `send`, `sendFile`, `shutdown` from any thread; `handleRead/Write/Close/Error`, `connectEstablished`, `connectDestroyed` on its loop | queues functors in its loop; the server's main loop removes it |
| `Buffer` | `buffer_`, `readerIndex_`, `writerIndex_` | `append`, `retrieve`, `retrieveAsString`, `readFd`, `writeFd` | used by one connection on one thread |
| `Channel` | `events_`, `revents_`, `index_`, `tie_` | `enable*`, `disable*`, `handleEvent`, `remove` | between the poller and the connection's handlers |
| `EPollPoller` | `channels_`, the event list, the epoll set | `poll`, `updateChannel`, `removeChannel` | called by its loop only |
| `TcpServer` | `connections_`, `started_` | `start`, `newConnection`, `removeConnection`, `removeConnectionInLoop`, destructor | main loop; queues work in the I/O loops |
| `EventLoopThreadPool`, `ConsistentHash` | `loops_`, the hash ring | `start`, `getNextLoop`; `addNode`, `removeNode`, `getNode` | the server picks a loop by the peer's address |
| `Acceptor` | the listening channel | `listen`, `handleRead` | main loop |
| `Logger` | `logLevel_`, process-wide | `setLogLevel`, `log` | every thread |
| `Socket`, `InetAddress`, `Timestamp`, `CurrentThread`, `noncopyable` | none that changes | one system call or one formatting function each | |

What is hard to test here, and what makes each part correct:

* **EventLoop.** A push, the write of the eventfd and the owner's way through
  `while`/`poll`/`handleEvent`/`doPendingFunctors` interleave freely. The owner
  must never sleep on work or on a quit; each functor runs once, in order, and
  does run.
* **EventLoopThread.** The loop is on another thread's stack. `startLoop` must
  return, with a live loop; whoever finds `loop_` set must find it alive; the
  destructor must stop and outlive the thread.
* **TcpConnection.** `state_` is read and written by other threads while the
  loop closes the connection; writes are partial; three functors in two loops
  take a connection apart. Bytes must stay in order and be watched for, the FIN
  must follow them, DOWN is reported once, a closed connection is freed with its
  channel out of the poller, and a functor must not outlive what it points to.
* **Buffer.** Index arithmetic on unsigned numbers at the boundary between
  growing and compacting. The readable bytes must behave as a queue.
* **Channel, EPollPoller.** What is registered is kept three times (`index_`,
  `channels_`, the kernel), by code that callbacks call in any order; the kernel
  and the loop hold bare pointers to channels that others destroy; descriptors
  are reused. The three must agree, no pointer may dangle, no ready channel may
  starve behind a short event list.
* **TcpServer, pool, Acceptor.** `start` may come from several threads; the
  removal of a connection travels through three functors in two loops while the
  destructor may take the same connection; the destructor queues work in loops
  that it stops next; descriptors run out. A connection must be taken apart once,
  its callbacks must find the server alive, the destructor must end, waiting
  clients must be served.
* **ConsistentHash.** Hashes collide, virtual nodes share slots, removal hashes
  other names. A lookup must find the right loop and never leave the ring.
* **Logger.** The level and the message are two calls; only labels can be wrong.

## 2. Modules

| Module | Models | Remarks |
|---|---|---|
| `FunctorQueue` | what an `EventLoop` promises: a FIFO of functors, run once, unless stopped | abstract |
| `EventLoop` | `src/EventLoop.cc` with its callers | implements `FunctorQueue` |
| `EventLoopProofs` | theorems about `EventLoop` | |
| `EventLoopThread` | `src/EventLoopThread.cc`, `src/Thread.cc`, composed with a whole `EventLoop` by `INSTANCE` | |
| `EventLoopThreadProofs` | theorems about `EventLoopThread`, with those of `EventLoop` by `INSTANCE` | |
| `TcpConnection` | `src/TcpConnection.cc`, the part of `Channel`, `EPollPoller`, `TcpServer` and the loop that concerns one connection, socket and peer | |
| `TcpConnectionProofs` | theorems about `TcpConnection` | |
| `ConnectionLife` | what the user of a server sees of its connections: up, down, released, once each | abstract |
| `TcpServer` | `src/TcpServer.cc`, `src/Acceptor.cc`, `src/EventLoopThreadPool.cc`, with the loops they share, several connections and the program of `testserver.cc` | implements `ConnectionLife` |
| `TcpServerProofs` | theorems about `TcpServer` | |
| `SequenceLemmas` | lemmas about sequences: what is in one, how often, and in which order, after an append or a removal | used by `TcpConnectionProofs` and `TcpServerProofs` |
| `Poller` | `include/Channel.h`, `src/Channel.cc`, `src/EPollPoller.cc`, `src/Poller.cc`, with the kernel's epoll set | |
| `PollerProofs` | theorems about `Poller` | |
| `ConsistentHash` | `include/ConsistenHash.h` | |
| `ConsistentHashProofs` | theorems about `ConsistentHash` | |
| `ByteQueue` | what a `Buffer` promises: a queue of bytes, with every call's arguments and results visible | abstract |
| `Buffer` | `include/Buffer.h`, `src/Buffer.cc` | implements `ByteQueue` |
| `BufferProofs` | theorems about `Buffer` | |
| `MC*` | the modules TLC runs; the `.cfg` files give the constants their values | |

**EventLoop.** `lpc` is the owner's place in `loop()`: before it, at the
`while`, in `poll`, at the channels, at the swap, at the batch, after it.
`tpc[t]` is another thread's place in a call: `QueueFromOther` is the push under
the mutex, `NotifyFromOther` the write of the eventfd, `QuitFromOther` the store
of `quit_`, `WakeForQuit` the write after it. Calls from the owner's own thread
happen inside a callback (a channel or functor that has not returned yet) or
outside `loop()`, and are one step: no other thread reads
`callingPendingFunctors_`, and pushes and writes of others commute with theirs.
The eventfd is a counter that reads reset and that a write on its limit leaves
alone. `poll` may report any non-empty subset of what is ready (the event list
is finite) or nothing. `looping_` is read by nobody and left out.

**EventLoopThread.** `mpc` is the place of the thread that owns the object,
`funcPc` that of the new thread in `threadFunc`; the variables of the
`EventLoop` are shared with the instance `Loop`, whose `Others` is `Main`. A
critical section of `mutex_` is one step (a mutex destroyed between the thread's
`loop_ = nullptr` and its unlock, in the branch of the destructor that does not join,
is not modelled); the destructor takes no lock, so its
test of `loop_`, its call of `quit()` and the end of `quit()` are three.
What using a destroyed loop does is undefined, and `DestroyWake` allows both
outcomes. The code that the loop runs may call `quit()` on it at any time, from
the thread's init callback on.

**TcpConnection.** Handlers run on the I/O loop and are one step each. A thread
that shares the pointer is cut at its test of `state_`, its store (`shutdown`)
and its push. A functor is a record: the member function, the thread that queued
it, and the bytes it carries or, for `sendInLoop`, points to: `send` binds
`c_str()` of its caller's string, the caller may change or free it (`ChangeString`),
and `Read` says what the loop then finds. A write takes any part of the bytes.
`revents` holds what `handleEventWithGuard` still has to look at, in the code's
order. The poller reports what a level-triggered epoll must (end of file, reset,
EPOLLHUP, a pending error) and may report any event that is watched. `Owned` is the
shared count: the server's map, a queued owning functor or removal, the guard of
`handleEvent`, a sharer, and an owning functor that has run in a batch that has
not ended (`batchHolds`): the local vector of `doPendingFunctors` keeps it.
Units of data are numbered, so that order and loss show; input bytes are left out
(they go to the user through `Buffer`). `accepted`, `promised`, `sent`, `filed`,
`downs`, `closed` and `reopened` are history: the last is set when a send that ran
after the close watched the channel again.

**Poller.** A member of `Channels` is a place where channels are built and
destroyed again and again; `fd[c] = None` while it is empty. `Update` is the whole
way from `enableReading` to `epoll_ctl`; `Remove` leaves `events_` as it is, as the
code does. `epoll` is the kernel's set with the bare pointer it was given; closing a
descriptor takes it out. `epoll_wait` reports everything that is ready, or as much
as `events_` has room for, chosen by the kernel. Interest changes in callbacks and
functors; removal happens in functors (`connectDestroyed`) or after the loop.
Nothing in the code makes an owner remove its channel first, so a channel may also
be destroyed while registered (`DestroyRegistered`): epoll keeps the bare pointer
until the descriptor is closed (`Close`), `channels_` until another channel takes the
descriptor. `TcpConnection!FreedWhenRemoved` says when a connection does that: only
after a send that ran too late. What `handleEvent` does through such a pointer is
undefined; the model stops the loop there and lets no new channel take the place.

**ConsistentHash.** The hash function is an arbitrary function of the hashed
strings, chosen in `Init`, so that all collisions occur; `addNode` and
`removeNode` hash different strings, hence two functions. `sortedHashes_` is
sorted whenever the mutex is free and is kept as the number of occurrences of each
hash. `GetNode` includes the entry that `operator[]` inserts. `MaxHash` bounds the
range of hashes for TLC and is arbitrary in the proofs.

**TcpServer.** Each loop is the abstract queue of `FunctorQueue`, which
`EventLoop` implements: `queue[l]`, run from its head, one functor at a time, and
lost when the loop ends. A loop of the pool is started before its thread enters
`loop()` (`born`, `EnterLoop`), so that the destructor can come to it too early
(`late`) and the thread then clears `quit_` and never stops (`deaf`). Each connection
is reduced to its loop, its `state_`, whether its channel is enabled and whether it
has left the poller; `heard` records what `connectionCallback_` was told. `shutdown` is
only its test and its store of `kDisconnecting`: one step in the connection's own loop
(`Shutdown`), two from another thread (`ShutdownTest`, `ShutdownStore`), which may so
overwrite `kDisconnected`. `handleClose` has no guard but the channel that is still
enabled, as in the code; sends, and with them a second `handleClose`, are
`TcpConnection`'s. It is cut in two between the user's
callback and `closeCallback_` (`HandleClose`, `RemoveConnection`), because the
server can be destroyed between them; `start` is cut at its counter, at each round of
the pool and at the listening. The destructor is cut at each connection, each
`quit`, each join and the acceptor; the base loop is destroyed after it. A connection
lives while the map, a functor, `handleClose` or a thread in `shutdown` holds it (`Owned`), and with it its
descriptor (`FdsInUse`). `NewConnection` chooses any loop of the pool: `LookupIsSafe`
says that `getNextLoop` answers one; without one it throws and the program ends
(`crashed`).

How the modules compose: `EventLoopThread` contains an `EventLoop` by `INSTANCE`;
`TcpServer` uses what `EventLoop` (its refinement of `FunctorQueue`),
`EventLoopThread` (`startLoop` returns a loop about to run; a noticed quit ends it),
`TcpConnection` (what `handleClose`, `shutdown` and `connectDestroyed` do) and
`ConsistentHash` promise; `Poller` is the registration that `TcpConnection` keeps of
one channel (`events`, `index`), for several channels and reused descriptors.

**Buffer.** `array[k]` of the code is `data[k + 1]`. `resize` fills with
`Zero`, `std::copy` is `CopyTo`. `readFd` is two steps of arithmetic on the
bytes that `readv` delivered: the writable part first, the rest through
`extrabuf`. `call` makes the bytes that are handed out part of the state, so
that the refinement is about them and not only about the indices.

## 3. Runs

| Run | Shows | Bounds |
|---|---|---|
| `EventLoop` | no lost wakeup, no lost quit; every issued functor is queued, in the batch or has run, once, in order, and does run; a quit that finds `loop()` entered stops it | two other threads, one I/O channel, two calls per thread, eventfd limit 2; about 300 000 states |
| `EventLoopThread` | the handshake of `startLoop` with spurious wakeups, a published loop is alive, the destructor leaves no loop running, join returns when the quit was noticed | two calls per thread, one I/O channel; about 12 000 states |
| `TcpConnection` | used on its own loop a connection keeps every promise, and ends | three messages of three units, high-water mark 4, resets; about 5 500 states |
| `TcpConnectionShared` | another thread sends messages and files, shuts down, changes its string and drops its pointer, and the server may stop: order of the stream until a file is sent, FIN after it, nothing lost while the connection is up, one DOWN, freed out of the poller, each with the exceptions it names | one sharer, one message or file of two units per thread; about 1.8 million states |
| `Buffer` | index order, reuse of space, the refinement of the byte queue | 4 readable bytes, chunks of 3, initial size 2, reserve 1, extrabuf 2, two byte values; 20 000 states |
| `Poller` | `index_`, `channels_` and epoll agree; no pointer to a channel that was removed first; a channel that stays ready is handled | two places for channels, two descriptors, an event list that starts with one entry, one channel destroyed while registered; 350 000 states |
| `ConsistentHash` | the ring against its definition as a successor; adding a loop moves keys only to it; the ring survives any removal | two names, two virtual nodes each, hashes 0 to 2, three calls of `addNode`; 1.3 million states |
| `TcpServer` | one listen, on a complete pool; every connection taken apart once; callbacks find the server alive; the backlog is served; the destructor ends unless a quit was forgotten; the refinement of `ConnectionLife` | two starting threads, two I/O loops, three clients, two descriptors, one connection that another thread shuts down; 166 000 states, a minute and a half with the temporal checks |

Why the bounds are enough. *EventLoop*: with two calls a functor can be pushed
before and after the swap, and one functor can queue another; two other threads
can be in the middle of a push and of a quit at once; a limit of 2 makes writes
fail, which the limit of the kernel, 2^64 - 2, never will. The theorems cover all larger instances of the safety part.
*TcpConnection*: with three units a message can be taken in three parts, and a
second message then waits behind a rest; three messages cross the high-water
mark and then come back below it. `TcpConnectionShared` has one message for each of
its threads: every hazard of two threads that was found here (a late send, a changed
string, an overtaking file, a second DOWN) shows with one; `MaxSends` and the number of
threads are arbitrary in the proofs. *Buffer*: the sizes are chosen so that every
branch is taken with equality and off by one on each side: the growth, the
compaction with overlapping source and target, and a read that fills the
writable part and spills. The theorems cover all sizes. *Poller*: with two
channels on two descriptors a descriptor changes hands while the other channel is
active, and one entry makes the list too short; the descriptor of a channel that was
destroyed while registered is used again by another. *ConsistentHash*: four virtual nodes
on three hashes always collide, and the same name can be added twice. *TcpServer*: two
descriptors for three clients make `accept` fail, two loops make the removal of one
connection race that of another and the pool stop one loop while the other runs.

The checks do without deadlock detection where the program comes to rest: a loop
that returned, a connection that was freed, bounds of calls used up.

**Fairness.** *EventLoop*: the owner thread and a thread inside a call are
scheduled, callbacks and functors return, and `epoll_wait` returns when the
eventfd is readable and reports it. Nothing is assumed of `kPollTimeMs` or of I/O
events, so that the wakeups alone must do it. *EventLoopThread*: the same of
both threads, nothing of spurious wakeups. *TcpConnection*: the two loops run; a
socket watched for room gets some again and again (strong fairness: the peer
reads), which is needed for `ShutdownSendsFin` only. *Poller*: the loop runs, its
callbacks return, and `epoll_wait` returns when something is ready; nothing of timeouts
or arrivals, nor of which ready descriptors the kernel prefers. *TcpServer*: threads
inside a call go on, loops enter `loop()`, run their functors and end after a quit
that they have not forgotten, the base loop accepts
while it can, its thread goes on to the loop and after it to the destructor; nothing of
clients, nor that the base loop ever ends. `BacklogServed` names its own condition,
that connected clients leave, and `DestructorEnds` and `ImplementsLife` name theirs,
that no quit came before `loop()` (`QuitForgotten`).

### Where the code departs from what it says

Each of these runs ends in a counterexample of one property; the finding in
`PROJECT.json` quotes the text it contradicts.

| Run | What happens |
|---|---|
| `ThreadQuitLost` | `~EventLoopThread` calls `quit()` before the thread has entered `loop()`, whose first statement clears `quit_`: join never returns (`EventLoop.cc:97`) |
| `ConnDanglingThis` | `sendInLoop` and `shutdownInLoop` are queued with a bare `this` (`TcpConnection.cc:74`, `:152`): one that is queued while the batch with `connectDestroyed` runs finds the connection gone in the next batch |
| `RingAsDocumented` | a key whose hash equals that of a virtual node goes to the next one: the code, and the comment in it (`ConsistenHash.h:92`), take the first greater hash, `ConsistenHash.h:78` and `EventLoopThreadPool.cc:48` say greater or equal. `LookupIsSuccessor` is the code's rule |
| `PoolNoThreads` | without I/O threads the ring is empty and `getNode` throws out of the accept callback at the first client, before the fallback to `baseLoop_` (`EventLoopThreadPool.cc:53`, `ConsistenHash.h:88`) |

The other departures are exceptions that a checked property names. Each shows as a
counterexample when the exception is taken out, in the run that checks the property:

| Property without its exception | What happens |
|---|---|
| `EventLoopThread`: `DestructorHasLoop` | the loop sees `quit_`, returns and is destroyed before the destructor, inside `quit()`, writes its eventfd (`EventLoopThread.cc:20`) |
| `TcpConnectionShared`: `DownReportedOnce` without `reopened`: `downs <= 1` | a queued `sendInLoop` only logs that it gives up on a closed connection ("不能再进行发送了", `TcpConnection.cc:90`), writes and enables the channel again; its next event runs `handleClose` a second time |
| the same, without the half-closed case: `closed => downs > 0` | the server is destroyed while the connection is `kDisconnecting`: `connectDestroyed` reports nothing (`TcpConnection.cc:182`) |
| `TcpConnectionShared`: `FreedWhenRemoved` without `reopened` | `connectDestroyed` and a queued `sendInLoop` are in one batch: the second registers the channel again, and the end of the batch destroys it |
| `Poller`: `PointersLive` without `dropped` | the pointer of such a channel is in the list that `loop()` walks through when its owner is another thread |
| `TcpConnectionShared`: `[][state = "kDisconnected" => state' = "kDisconnected"]_vars` | another thread's `shutdown()` tests `state_`, the connection closes, the thread stores `kDisconnecting` (`TcpConnection.cc:148-150`); `TcpServer` shows that the server's reports and releases do not suffer |
| `TcpConnectionShared`: `StreamInOrder` without `changed` | the caller's string is changed between `send` and the loop's `sendInLoop` (`TcpConnection.cc:74`) |
| the same without `filed` | the rest of a file queues itself behind a later message, which lands in the middle of the file (`TcpConnection.cc:334`) |
| `TcpConnectionShared`: `FinAfterOutput` without `filed` | the FIN goes out, and the rest of a file is dropped after it (`TcpConnection.cc:305`) |
| `PromiseKept` in `TcpConnectionShared` | `send` then `shutdown` from another thread: the FIN overtakes the queued message when older output drains in between (`TcpConnection.cc:150`, `:231`) |
| `PeerEndFrees` in `TcpConnection` with `UsesSendFile` | the rest of a file queues itself for ever when output can no longer drain (`TcpConnection.cc:332`) |
| `TcpServer`: `DestructorEnds` without `QuitForgotten` | the destructor comes to a loop whose thread has not entered `loop()`: as in `ThreadQuitLost` |
| `TcpServer`: `UpMeansDown` | the destructor queues `connectDestroyed` ("销毁连接", `TcpServer.cc:53`) in a loop that the pool tells to quit at once: the loop may end with the functor unrun and the user never hears DOWN |
| `RemovedNodeServesNothing` in `ConsistentHash` | `removeNode` hashes `node + i`, `addNode` hashed `node + "_0" + i`: the removed node keeps its place, or another one loses its own (`ConsistenHash.h:47`, `:66`, against `:58`) |

`NoLostWakeup`, and `IInv` with it, fails in `EventLoop` with `OwnerQueuesEarly = TRUE`: a functor that the owner queues before
`loop()` waits for the first poll to return (`EventLoop.cc:169`).

## 4. Proofs

| Theorem | States | Assumes |
|---|---|---|
| `EventLoopProofs!TypeCorrect` | the variables keep their types | the named assumptions of `EventLoop` |
| `EventLoopProofs!WakeupProtocol` | `IInv` | also `~OwnerQueuesEarly` |
| `EventLoopProofs!LostWakeupImpossible` | `NoLostWakeup` | also `~OwnerQueuesEarly` |
| `EventLoopProofs!QuitIsNoticed` | `QuitWakesPoll` | also `~OwnerQueuesEarly` |
| `EventLoopProofs!RunsOnce` | `OnceInv` | the named assumptions |
| `EventLoopProofs!Refinement` | `ImplementsQueueSafely` | the named assumptions |
| `BufferProofs!TypeCorrect` | the indices stay in order and in the array | the named assumptions of `Buffer` |
| `BufferProofs!BufferIsQueue` | `ImplementsQueue` | the named assumptions |
| `BufferProofs!SpaceIsReused` | `GrowsOnlyWhenFull` | the named assumptions |
| `EventLoopThreadProofs!LoopIsEventLoop` | `Loop!SafeSpec`: the composition uses its loop as `EventLoop` allows | the named assumptions of `EventLoopThread` |
| `EventLoopThreadProofs!FunctorsServed` | its loop implements `FunctorQueue` (safety) | the named assumptions |
| `EventLoopThreadProofs!TypeCorrect` | `TypeOK` of `EventLoopThread` | the named assumptions |
| `EventLoopThreadProofs!Handshake` | `IInv` of `EventLoopThread` | the named assumptions |
| `EventLoopThreadProofs!NobodyLeftBehind` | `NoLoopLeftBehind` | the named assumptions |
| `EventLoopThreadProofs!LoopServes` | `StartedLoopServes` | the named assumptions |
| `EventLoopThreadProofs!PublishedIsAlive` | `PublishedLoopAlive` | the named assumptions |
| `TcpConnectionProofs!TypeCorrect` | `TypeOK` of `TcpConnection` | the named assumptions of `TcpConnection` |
| `TcpConnectionProofs!PendingWatched` | `PendingIsWatched` | the named assumptions |
| `TcpConnectionProofs!BytesKept` | `NothingLost` | the named assumptions |
| `TcpConnectionProofs!OutputInOrder` | `StreamInOrder` | the named assumptions |
| `TcpConnectionProofs!FinFollowsOutput` | `FinAfterOutput` | the named assumptions |
| `TcpConnectionProofs!PromisesKept` | `PromiseKept` | also `Sharers = {}`, `~UsesSendFile` |
| `TcpConnectionProofs!DownOnce` | `DownReportedOnce` | the named assumptions |
| `TcpConnectionProofs!FreedOutOfPoller` | `FreedWhenRemoved` | the named assumptions |
| `TcpConnectionProofs!NoDanglingIfKept` | `NoDanglingFunctor` | also `KeepsPointer` |
| `TcpServerProofs!TypeCorrect` | `TypeOK` of `TcpServer` | the named assumptions of `TcpServer` |
| `TcpServerProofs!StopsInOrder` | `StopInv` | the named assumptions |
| `TcpServerProofs!ServerOutlives` | `ServerOutlivesCallbacks` | the named assumptions |
| `TcpServerProofs!ConnectionsKnown` | `ConnInv`, `ToldInv`, `FifoInv` | the named assumptions |
| `TcpServerProofs!ApartOnce` | `TakenApartOnce` | the named assumptions |
| `TcpServerProofs!FreedAfterRemoval` | `FreedWhenRemoved` | the named assumptions |
| `TcpServerProofs!PoolComplete` | `PoolInv` | the named assumptions |
| `TcpServerProofs!ListensOnCompletePool` | `PoolBeforeListen` | the named assumptions |
| `TcpServerProofs!LivesAsPromised` | `ImplementsLifeSafely`, the safety part of `ImplementsLife` | the named assumptions |
| `PollerProofs!RegistrationsAgree` | `IInv` of `Poller` | the named assumptions of `Poller` |
| `PollerProofs!NoDanglingChannel` | `PointersLive` | the named assumptions |
| `ConsistentHashProofs!RingIsSound` | `IInv` of `ConsistentHash` | the named assumptions of `ConsistentHash` |
| `ConsistentHashProofs!LookupIsSafe` | `LookupSafe` | the named assumptions |
| `ConsistentHashProofs!AddDisturbsNobody` | `OnlyNewNodeGains` | the named assumptions |
| `ConsistentHashProofs!LookupIsRight` | `LookupIsSuccessor` | the named assumptions |

*The wakeup protocol.* `NoLostWakeup` speaks of the owner in `poll` and is not
inductive: a step into `poll` needs to know that nothing was left over. `IInv`
strengthens it along the loop. A functor in `pendingFunctors_` has a write of the
eventfd behind it or ahead of it at every place but two: before the swap of this
iteration, which will take it. An owner who queues at the channels relies on that
swap; one who queues during the batch has `callingPendingFunctors_` set
(`CallingIsBusy`) and writes the eventfd itself. `BatchIsLocal` says that the swap
leaves an empty vector behind. The proof has a step per action. `~OwnerQueuesEarly`
is needed: without it the property is false.

*The FIFO.* The batch followed by `pendingFunctors_` is the abstract queue. A
push appends to it, the end of a functor removes its head, the swap leaves it
alone because the batch is empty. `OnceInv` has two halves. `AtMostOnce` (no call
occurs twice in the queue or is both there and in `ran`, and no number beyond the
counter) makes a new call fresh and the head not run before, which `FunctorQueue`
demands. `NoneLost` says that every call that was counted is in the queue, in the
batch or in `ran`: a swap that dropped the queue would break it.

*The thread of a loop.* Every step of `EventLoopThread` is one of its `EventLoop` or
leaves the loop alone (`LoopIsEventLoop`), with `Main` as the only other thread; what
`EventLoopProofs` proves under the same assumptions then holds of `Loop`, types and
FIFO first. `HandshakeInv` ties the places of the two threads to `loop_`: it is set
exactly while `threadFunc` is in `loop()`, `startLoop` returns only after that, and
`loop()` returns only with `quit_` set.

*The connection.* `Typed` adds to `TypeOK` that a thread between the test and the push
of a send has counted its message, so that what it pushes is typed. Each property has its
own strengthening. For the stream it is that, until a file is sent, no functor carries
one (`NoFiles`) and `wire \o outputBuffer` and `accepted` are of one length and agree unit
by unit where no string was changed (`Conserved`); the FIN adds that the buffer was empty
when it went out (`FlushedAtFin`). `BytesKept` needs no order and so holds with
`sendFile`: as long as the connection is up and its socket works, every accepted unit is
on the wire, in the buffer or in a queued rest of a file (`NothingLostInv`). `Ending` ties
the ways a connection can end together: a channel that is closed and not watched again
has no event left that could run `handleClose` a second time (`Watched`), DOWN was
reported by `handleClose` or by the `connectDestroyed` that found the connection
`kConnected` (`Reported`), and who left the map has `connectDestroyed` queued or behind it
(`Removed`); `DownOnce` and `FreedOutOfPoller` follow, for any number of threads.
`Promise` says that what was sent before `shutdown` was accepted by then. `PointersKept`
says that the thread of every queued functor with a bare `this` holds a pointer.

The hypotheses that are left are where the code stops keeping the property, and
section 3 has the counterexamples: `PromisesKept` needs that only the loop uses the
connection (`Sharers = {}`), `NoDanglingIfKept` that a thread keeps its pointer while a
call of its own is queued (`KeepsPointer`); it may drop it after.

*The server.* `StopInv` is the order of the destructor: it begins after the base loop
and the starters, a loop is told to quit only by it, the acceptor goes when the
loops have ended, and none ends inside a `handleClose`; `ServerOutlives` follows.
`TakenApartOnce` is not inductive: that `connectDestroyed` is not queued a second time
depends on where the removal is. `ConnInv` says, for each connection, that its functors
are in the queue of its own loop (`Homed`), that at most one removal of it is
on its way to the base loop, after the DOWN, and with the entry of the map still there
while the server lives (`LeavesOnce`), and `TakenApartOnce` itself (`Apart`). Functors
are counted in queues of any length with `Times` of `SequenceLemmas`. `PoolInv` counts
who has asked the acceptor to listen: a starter on its way, a functor, or the channel.
`ToldInv` says what `connectionCallback_` was told of each connection against its `state_`,
its channel and the threads in `shutdown`: it holds although a store of another thread
may come after `kDisconnected`. `FifoInv` (by `Precedes`) says that `connectEstablished`
runs before `connectDestroyed`. `ConnectionsKnown` is the three together. For the
refinement each action either leaves the reports and the owners alone (`LifeQuiet`), or
reports UP (`LifeUp`) or DOWN (`LifeDown`, `LifeUndone`), or releases: the end of a loop may
release many, and only when the server stops. That UP comes first and DOWN once is
`ToldInv`; that a server that is not stopping releases only what was DOWN needs `ConnInv`.

*The buffer.* A lemma per operator of `Buffer.h` says what it does to the
readable bytes and that it keeps `kCheapPrepend <= readerIndex_ <= writerIndex_
<= size`; the refinement then follows call by call.

*The poller.* `PointersLive` is not inductive: whether a pointer dangles when its
channel goes depends on `index_`. `IInv` says, for each live channel, what epoll and
`channels_` hold under its descriptor, and that nothing else is held but what `dropped`
names: channels destroyed while registered, in epoll only under a descriptor that is about
to be closed. It makes the descriptor of a new channel unknown to epoll
(`UnusedFdIsUnknown`), every `epoll_ctl` legal (`UpdateSucceeds`) and every reported channel
a live or a dropped one (`CollectKeeps`).

*The ring.* `RingIsSound` needs no assumption on collisions or removals: an entry of
`circle_` has its hash in `sortedHashes_` because removal takes the entry with the
first occurrence. A minimum exists by well-foundedness (`LeastIsLeast`), so the slot of a
key is the next hash of the ring (`SlotIsNext`); a slot that is next in the larger ring and
was in the smaller one was next there (`NextIsUnique`), which gives `AddDisturbsNobody`.
`FreshRing`, an invariant until the first removal, says that `circle_` holds exactly the
virtual nodes of the loops, each under its last owner; `NextIsNearest` does the arithmetic
of going around.

Only model-checked: liveness, which is out of this prover's reach: `QuitStopsLoop`,
`StartCompletes`, `NoticedJoinReturns`, `PeerEndFrees`, `ShutdownSendsFin`, `ReadyServed`,
`BacklogServed`, `DestructorEnds`, and the fairness of `ImplementsQueue` (`EventLoop`) and
`ImplementsLife`. Every invariant and action property that a passing run checks is also
proved; the hypotheses of `PromisesKept` are those of its run.

The loops of `TcpServer` are abstract queues and its connections are reduced (no sends; a pointer is
let go by the functor that held it, not by the end of its batch, since nothing there uses
a connection without a pointer): that
`EventLoop` and `TcpConnection` behave as it assumes is argued above and not a theorem.

## 5. What is not modelled

`Logger`: its level and its message are two calls on one process-wide object, so that
another thread's message may come between and change a label (`Logger.cc:21`); nothing
depends on it. Formatting and addresses; timestamps; the one-loop-per-thread check of
`EventLoop`; input bytes of a connection; the errors other than EAGAIN, EPIPE,
ECONNRESET and EMFILE, which the code only logs; the SIGPIPE that a write on a reset
socket raises, which the library neither blocks nor ignores: the model takes the EPIPE
that a program sees that ignores it; memory exhaustion; `getAllLoops`, which
has no caller. `retrieveAsString(len)` with more than the buffer holds is a precondition
of its callers and a guard of the action. A server whose callbacks are called through
loops it does not own, and a server destroyed from another thread than its base loop's,
are outside the program of `testserver.cc` that `TcpServer` follows.
`Socket`, `InetAddress`, `Timestamp`, `CurrentThread` and `noncopyable` keep no state
that changes.

## 6. Plan

1. An abstract byte stream with a half-close (accept, deliver, finish, abort) and the
   proof that `TcpConnection` implements it until a file is sent: `OutputInOrder` and
   `FinFollowsOutput` as one refinement.
2. The link between `TcpConnection` and `TcpServer`: `TcpConnection` implements
   `ConnectionLife` for one connection, as long as no late send reopens its channel.
3. The link between `TcpConnection` and `Poller`: the updates of a connection as updates
   of one channel among others, a late send included.
