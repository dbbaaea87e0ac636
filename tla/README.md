# Ibdxnet in TLA+

Specifications of the messaging engine of Ibdxnet, the InfiniBand transport of DXNet: its lock-free
receive buffer pool, its receive and send dispatchers, its connection manager with the exchange of
connection data between nodes, its job manager and its discovery of nodes. TLC checks the
specifications on small instances; TLAPS proves the most important invariants for every value of the
constants. Paths below are relative to `src/src/ibnet/`; `SD`, `RD`, `CM` and `DM` abbreviate
`msgrc/SendDispatcher.cpp`, `msgrc/RecvDispatcher.cpp`, `con/ConnectionManager.cpp` and
`con/DiscoveryManager.cpp`.

## 1. The system and its parts

| part | state | operations | concurrency |
|---|---|---|---|
| `dx::RecvBufferPool` | a ring of slots and three atomic cursors: front, back, back reservation | `GetBuffer`, `GetBuffers`; `ReturnBuffer`, `ReturnBuffers` | one taking thread (receive), many returning ones, no locks |
| `msgrc::RecvDispatcher` | `m_recvQueuePending`, the polled completions, the incoming ring buffer, the work request pool | `Dispatch` = `__Poll`, `__Refill`, `__ProcessCompletions`, `__DispatchReceived` | one worker thread; the adapter fills the completion queue and the application returns buffers meanwhile |
| `msgrc::SendDispatcher` | pending counters of each node and of the shared completion queue, the pool of contexts, what was posted and completed since the handler was last called | `Dispatch` = ask the handler, get the connection, `__SendData`, return it, `__PollCompletions`; four exception handlers | one worker thread; the adapter completes or flushes requests and the job thread deletes connections meanwhile |
| `con::ConnectionManager` | for each remote node: `m_available` (handles, and availability), `m_state`, `m_triggerReExchange`, the exchange flags of both sides, the connection | `GetConnection`, `ReturnConnection`, `CloseConnection`; the jobs create, connect, close; exchange data | any thread gets and returns; the job thread executes jobs; the thread of the exchange manager adds connect jobs |
| `con::JobManager`, `JobQueue` | a lock-free ring of jobs with three cursors, dispatchers by job type, an idle job | `AddJob` = `PushBack` until there is room, and a notification; the loop that pops, dispatches, runs the idle job and sleeps | any thread adds (the job thread too), one executes; locks around the dispatchers and the idle job |
| `con::DiscoveryManager` | nodes found (`m_nodeInfo`) and entries of nodes to find (`m_infoToGet`) | `AddNode`, `GetNodeInfo`, `Invalidate`; discovery requests and responses | requests are answered by the thread of the exchange manager, the rest by the job thread; under a mutex |
| `con::ExchangeManager` | a UDP socket and dispatchers by packet type | `SendData`, the receive loop | packets may be lost, repeated, reordered |
| `dx::ExecutionEngine` | the workers and their units | every worker calls `Dispatch` of its units in turn | one thread for each worker |
| `msgrc::MsgrcSystem`, loopback, JNI | owns all of the above | start, `Shutdown`, the handlers of the application | the main thread destroys one manager after the other while the job thread and the exchange thread still run |
| `core`, `stats`, `sys`, `NodeConf` | wrappers of verbs calls, counters for printing, utilities, parsing | | |

How they interact: the receive dispatcher takes buffers from the pool and posts them on the shared
receive queue; the adapter completes them; the dispatcher hands entries of the incoming ring buffer to the
receive handler, which keeps the buffers until the application returns them to the pool from any
thread. The send dispatcher asks the send handler for an area of a node's outgoing ring buffer, gets
a handle of the connection from the connection manager, posts the area in work requests, returns the handle and
polls the send completion queue that all connections share; when a request was retried too often
it asks the connection manager to close the connection, which the job thread does some time later. The
connection manager sends exchange data to the remote node over UDP and learns of the remote's in jobs. The discovery
finds the address of a node id with packets of its own; its requests are the idle job of the job thread, and a close makes a node
unknown again. At the shutdown the managers take their dispatchers and receivers away before they are destroyed.

What is hard: the buffer pool has several threads between two atomic accesses at a time; the two dispatchers keep
counters (most of them unsigned) that have to agree with queues inside the adapter on every path, the failing
ones included; a connection may be closed, deleted and created again at any point of the send path; in the
connection manager one integer counts handles and at the same time tells whether there is a connection. Two
nodes agree on a connection over a network that loses and reorders packets, with neither telling the other when it gives up or restarts.
The job thread adds jobs to the queue only it empties, and sleeps on a condition that is signalled without the lock of the queue.
`PROJECT.json` lists the hazards, each at its line.

What makes each part correct:

* buffer pool: no buffer lost or handed out twice, no slot overwritten, cursors consistent at rest, no thread stuck;
* receive path: no buffer or work request lost, no queue, pool or ring overrun, every message delivered
  completely, in order and once, and the receive queue never starved for good;
* send path: the chunks tile the area given, no send queue or completion queue overrun, counters never wrapped, the
  handler told exactly what happened, a full queue drains;
* connection manager: handles counted right, jobs never meet an impossible state, one thread at a time asks
  again for a connection, a connection complete only if both sides are connected;
* exchange: two available connections are connected to each other, a queue pair is connected once, a thread that repeats its
  request gets its connection, and the nodes stop answering each other;
* jobs: reservations, back and pending pushes of the queue agree, the job thread sleeps over no job while the ring has a slot free, no dispatch to a destroyed
  object, every push and the shutdown end;
* discovery: an added address is never forgotten nor listed twice, no null entry, every address found again and again.

## 2. The modules

| module | models | source |
|---|---|---|
| `BufferPool` | the abstract pool: a queue of available buffers and the set handed out | what `RecvBufferPool` promises |
| `RecvBufferPool` | the lock-free ring, one step per atomic access | `dx/RecvBufferPool.cpp` |
| `ReceiveStream` | the abstract receive path: a stream of pieces | what `RecvDispatcher` promises the handler |
| `RecvDispatcher` | the receive path, with the incoming ring buffer and the pools; the refinement of `ReceiveStream` | `RD`, `msgrc/IncomingRingBuffer.*`, `msgrc/RecvWorkRequestPool.*` |
| `SendChunks` | how an area of the outgoing ring buffer is cut into work requests, one step per turn of the loop | `SD:448-720` |
| `SendDispatcher` | control of the send path for several nodes with all its exception handlers, with the sums over the nodes | `SD`, `msgrc/SendWorkRequestCtxPool.*` |
| `ConnectionManager`, `MCConnectionManager` | handles and jobs of the connection to one remote node, one step per atomic access of the threads; symmetry for TLC | `CM`, `con/ConnectionState.h` |
| `ConnectionExchange`, `MCConnectionExchange` | both nodes of a connection and the network between them, one step per job; the threads that want it, of which the one behind `m_triggerReExchange` repeats the creation job; failed queue pairs, restarts; for TLC, the bounds of the network | `CM:117-238`, `CM:323-494`, `CM:496-610`, `con/ConnectionState.h`, `msgrc/Connection.cpp`, `con/RemoteConnectionHeader.h` |
| `JobQueue` | the queue of jobs, one step per atomic access; extended by `JobManager` | `con/JobQueue.*` |
| `JobManager`, `MCJobManager` | the job thread with its locks, the threads that add jobs, the shutdown; for TLC, the sets of threads and jobs | `con/JobManager.*`, `msgrc/MsgrcSystem.cpp`, `CM:88-115`, the destructor and the jobs of `DM`, the receive loop of `con/ExchangeManager.cpp` |
| `Discovery`, `MCDiscovery` | the discovery of several addresses over the network, node ids that change with a restart; for TLC, which address has which ids | `DM`, `con/DiscoveryManager.h` |
| `RecvBufferPoolProofs`, `RecvDispatcherProofs`, `SendChunksProofs`, `SendDispatcherProofs`, `ConnectionManagerProofs`, `ConnectionExchangeProofs`, `JobManagerProofs`, `DiscoveryProofs` | the theorems | |

The modules meet at what they promise: `RecvDispatcher` uses the pool as the queue `BufferPool` describes
(plus the one shortcoming its refinement hides, see `Yields`), and `RecvBufferPool` is shown to implement
`BufferPool`; `SendDispatcher` counts in the work requests that `SendChunks` cuts; the closing of a connection in
`SendDispatcher` is the close job of `ConnectionManager` seen from the send thread. `ConnectionManager` takes one side of a
connection apart and lets the remote be anything; `ConnectionExchange` puts two whole sides together with their jobs as single steps, which is
what the job thread makes of them. `JobManager` keeps of a connection only that it is there, `Discovery` only that a node has one
(`KnownWhileConnected`, proved of `ConnectionManager`, is why it may assume that a close concerns a known node).

Correspondence of names: variables carry the member they model in a comment, actions the name of the method or, for a
part of it, of what it does; `map` in `PROJECT.json` gives the lines of each definition. Some conventions:

* An exception that nobody catches ends the process (`Thread::__Run` rethrows it). The modules set
  `thrown` (in `ConnectionExchange` `down`, in `JobManager` and `Discovery` `broken`) and no action of that process is enabled afterwards. A "sanity check" of the code is such an exception, so an invariant on
  `thrown` says that the check never fails.
* Where several threads access the same atomics (`RecvBufferPool`, `GetConnection`), each access is a step. Where
  only one thread writes and the others cannot tell the difference, a whole function is one step.
* Atomics are sequentially consistent. A weak compare-and-swap that fails spuriously rereads the same value and is not a
  step.
* Messages carry a length in units of data, a sender and a flow control value; contents do not matter to any property.
* History variables: `closed` in `ConnectionManager`, `created` (which numbers the queue pairs) in `ConnectionExchange`, `entries` in `Discovery`, `unconfirmed` in `SendDispatcher` (what the handler
  believes to be posted and not completed), `faults` (a bound).

## 3. The runs

| run | question | bounds | states |
|---|---|---|---|
| `rbp_three` | Do gets and returns of three threads lose, duplicate or overwrite a buffer, leave the cursors inconsistent, or wait for each other for ever? | 3 buffers (4 slots), gets of up to 2, returns of up to 2 by the receive thread | 161 000 |
| `rbp_loopback` | With all calls on the receive thread (as in the loopback system), is the ring the abstract pool? | 4 buffers, gets of up to 3, returns of up to 2 | 5 200 |
| `rd_stream` | Are buffers, work requests and ring entries conserved, does no sanity check fail, do messages reach the handler as `ReceiveStream` says, is an empty receive queue refilled and what was received handed over? | 2 work requests of 2 buffers, 4 buffers of 2 units | 321 000 |
| `sc_ring` | Do the chunks tile every area of the ring, with the flow control data once? | ring of 7, chunks of 3, up to 4 free slots: every area | 1 100 |
| `sd_faults` | Without failures: are the counters exact, does the handler know, does a full queue drain? With a failure anywhere: no queue overrun, no counter wrapped, no pool dry? | 2 nodes, send queue 2, packages of up to 2, 1 failure | 1 070 000 |
| `sd_flush` | Are the flushed requests of a failed node always ignored? No: see below. | as `sd_faults` | |
| `cm_handles` | Do the jobs meet only possible states, does one thread repeat the creation, are handles counted right until the first close? | 2 threads, 2 incarnations of the remote, 1 job queued | 1 200 000 |
| `cm_recreate` | Is there always a thread behind `m_triggerReExchange`? No: see below. | as `cm_handles` | |
| `ce_faults` | Are two available connections connected to each other, is a queue pair connected once, does a thread that repeats its creation job get its connection unless it gives up, do the nodes fall silent? | 2 packets on their way to one node and 1 to the other, 1 job of a type queued, 1 fault, any number of threads that ask and of timeouts | 230 000 |
| `jm_shutdown` | Is no job dispatched to a destroyed manager, no wake-up lost while the ring has a slot free, does every push and the shutdown end? | queue of 3, 1 worker, the job, exchange and main threads, 1 node | 155 000 |
| `jm_publish` | Is every published slot of the queue written? No: see below. | as `jm_shutdown` | |
| `dm_discover` | Is no address forgotten or listed twice, no null entry listed, every address found again and again? | 2 addresses, one with 2 entries and 2 node ids, 1 restart | 33 000 |

Why the bounds are enough. In the buffer pool three threads suffice for a returner that overtakes another while the
taker moves on, and four slots for every wrap-around with an empty, a full and a partly filled ring. In the
receive path two work requests of two buffers give messages that use one or both buffers, leave one
over, or use none, completions that do not all fit into the ring, and a pool that cannot fill a list; the pool has
exactly the buffers of one filled receive queue, so it does run empty. In `SendChunks` seven and
three are coprime, so chunks end before, at and behind the end of the ring for some area; a package is
larger than the send queue and than the free slots. In the send path two nodes
suffice for a failure of one while the other sends, and two packages of two exceed the send queue of two. In the
connection manager two threads suffice for one that is in the middle of a reset or a timeout
while the other obtains the connection; two incarnations for a zombie. The job queue is bounded to one waiting job
(`MaxJobs`); the zombie handling of the job thread, which adds two jobs, is not held back by it. `Half` scales
`INT32_MIN / 2` down; it is large enough that the steps of two threads never carry the counter from one of the
three regions (not available, closing, available) into another except by wrapping at the lowest value, and the module assumes
that.

In the exchange two packets of one side suffice for the older to arrive last; the nodes are alike and a fault may be of either, so the
other way has room for one. A packet sent beyond the bound is lost, which the network may do to any packet. One fault is a restart, a connection whose requests are not acknowledged, or a repeated packet; timeouts
are not counted, and the theorems have no such bounds. In the job manager a queue of three is full with less than the jobs that four threads add; its
counters pass the size, which is where the check for a full queue stops working. `MaxJobs` stands for remotes and workers that
stop asking in the end: the shutdown waits for an empty queue (`CM:104`), which nobody grants it while others keep adding. In the
discovery one address has two entries and changes its id, the other does neither, so that an answer of each kind may meet each state
of the list.

`CHECK_DEADLOCK FALSE` stands in every configuration because the process ends at an uncaught exception or meets undefined
behaviour, because `SendChunks` ends, and because the shutdown of `JobManager` does.

Fairness. `rd_stream` and `sd_faults` assume weak fairness of `Dispatch`: the worker of the execution engine calls its
units again and again (`dx/ExecutionEngine.cpp`, the loop of a worker). The adapter completes or flushes what it
was given (`Complete`, `Flush` in `SendDispatcher`; nothing is assumed of incoming messages). The application returns
each buffer in the end, and does not refuse all entries for ever (strong fairness of the handler taking at
least one entry): DXNet works its own queue off independently of this thread. `rbp_three` assumes weak fairness of a thread
inside a call, nothing about starting one. `ce_faults` assumes weak fairness of the job thread, the discovery and a
thread that is in the loop of `GetConnection` and repeats its creation job every second; it does not assume that any thread asks, nor that one gives up or does not: `Opens` says
that nobody repeats for ever, `Settles` speaks of the time after the last repetition. Of the packets
sent to a node again and again some arrive (strong fairness of handling any one of them), without which UDP promises nothing.
`dm_discover` assumes the same of packets to and from an address, and weak fairness of the idle job, which the job thread runs
whenever its queue is empty (`con/JobManager.cpp:88-102`). `jm_shutdown` assumes that threads go on and, for the three places where the
main thread takes a lock that the job or the exchange thread releases again and again, strong fairness: those threads sleep or block between two
uses, so the lock is free for long.

### What TLC refutes

Three runs end with a counterexample, each against a comment of the code:

* `sd_flush`: `m_ignoreFlushErrOnPendingCompletions` is set at the disconnect (`SD:333`), but packages are still posted to the
  failed queue pair until the close job ran, and their flushes too count against it. The exception then ends the process.
* `cm_recreate`: `m_triggerReExchange` is only reset by a timeout (`CM:231`). A thread that obtained its
  connection leaves it set, and once that connection is closed no later `GetConnection` adds a creation job.
  `ConnectionExchange` has this too (`trigger` is `Left`): such a node has a connection again only if the other one asks, and `Opens` claims no more.
* `jm_publish`: "wait for any preceding reservations to complete" (`con/JobQueue.cpp:65`), but the compare-and-swap that fails
  reloads its expected value, so the next try publishes whatever slot comes next, written or not.

More definitions are in the modules because TLC refutes them too; they have no run of their own. Each can be put
into a configuration with the constants named:

* `NoOverflow` (`RecvBufferPool`, the receive thread and one application thread, 3 buffers, gets of up to 3): `ReturnBuffer`
  loads the back reservation, then the front (`dx/RecvBufferPool.cpp:200-203`). A thread delayed between the two compares an old
  reservation with a new front and throws "Pool overflow, this should not happen" with the ring far from full.
* `PublishedSlotsWritten` (`RecvBufferPool`, constants of `rbp_three`): the reloaded expected value at
  `dx/RecvBufferPool.cpp:283` lets a return publish slots another one has not yet written. What remains true, and is checked, is
  `NoOverwrite`, `OneOwner` and that the cursors agree at rest.
* `AvailableExact` (`RecvBufferPool`, constants of `rbp_loopback`): one short when the range wraps.
* `SentAtMostOnce` (`SendChunks` with `LoopbackSpec`): the loopback system's area never reaches its front, so the
  whole buffer is sent again until the send queue is full.
* `HandlesBalanced` (`SendDispatcher`, constants of `sd_faults`): the handler of a disconnect found while
  polling returns the handle a second time (`SD:325`), although the comment says the pointer is null.
* `AllDecremented` (same): the completions polled together with a failed one are never processed, so the pending counters stay
  too high; `PendingCovers` says they never are too low.
* `PostedReported`, `TimeoutHandled` (same): the results of a package are dropped when another node
  failed (`SD:331`); a disconnect found in the handler of a timeout is caught by nobody (`SD:317`).
* `HandlesTracked` (`ConnectionManager`, constants of `cm_handles`): a forced close, the only kind this code asks for, does not wait
  for handles. One returned later (`CM:242`) decrements INT32_MIN and makes the missing connection count as available.
* `CreationFindsConnection` (same): a creation job that comes after a close, or after the thread that added it gave up, finds the state neither in
  creation nor a connection and dereferences null (`CM:602`). In `ConnectionExchange` this is where a process goes `down`.
* `ConnectedToCurrent` (`ConnectionExchange`, constants of `ce_faults`): the flags of a packet say that its sender is connected, not to
  which process. After a restart a node may note "remote connected" from a packet that meant its predecessor, against the comments at
  `CM:410` and `con/RemoteConnectionHeader.h:42`. What remains true is `Agreement`: until one side has a second queue pair. A node whose connection the other
  closed and created anew is told nothing by the exchange data, which only tells processes apart; it finds out when its own requests fail.
* `AllClosed` (`JobManager`, constants of `jm_shutdown`): "close opened connections" (`CM:95`) followed by a wait for an empty queue
  (`CM:103`) leaves a connection open when the last job was popped but not dispatched, or when the exchange thread adds one after the wait.
* `NeverSleepsOverJobs` (same): "get woken up if a new job is available" (`con/JobManager.cpp:107`). With the check for a full queue as it is (below) the ring
  comes to hold a job in every slot; front and back are then in the same slot, the job thread takes the queue for empty (`con/JobQueue.cpp:93-99`) and sleeps, again and
  again, until another job is pushed. What remains true is `NoLostWakeup`: over fewer jobs than slots it does not sleep unless somebody is about to wake it.
* `NodeThere` (same): the close of the shutdown has the node id `INVALID` if its connection went away meanwhile (`CM:98`).
* `ClassThere` (same): the job thread calls a virtual function of `msgrc::ConnectionManager` that is already destroyed, with
  its base class still registered (`msgrc/ConnectionManager.cpp:58`).
* `JobThere`, `DeletesInBounds` (same): the check for a full queue computes `backRes + (1 % m_size)` (`con/JobQueue.cpp:57`) and lets
  pushes overwrite jobs, so that a published slot may be empty; the destructor uses the front, which is no index any more, to delete what is left
  (`con/JobQueue.cpp:42`). The check as it was meant (`FullModSize`) is no remedy by itself: with it `PushesFinish` and `ShutdownEnds` fail,
  because the job thread waits for room in the queue that only it empties.
* `FoundAsItself` (`Discovery`, constants of `dm_discover`): a process that restarted with another node id stays known under the old one until a
  connection to that is closed; its address is in no list.

## 4. What is proved

Each theorem module extends its component and proves an inductive invariant `IInv`: `Init => IInv`,
`IInv /\ [Next]_vars => IInv'` with one lemma per action or group of actions, and then what follows from it. The only assumptions are
those the modules name (`...Assumption`): sizes are positive, null is none of the values, and what is said below. Of every
component with a theorem module the type invariant (`TypesHold`) and `IInv` (`InvariantHolds`) are theorems and so, but for `rbp_three`, in no
configuration; both can be added to that of the component's run, where TLC agrees.

* `RecvBufferPoolProofs`: `OneOwnerHolds`, `NoOverwriteHolds`, `CursorOrderHolds`, `QuiescentHolds`, for any size of the ring, any number of
  returning threads and calls of any length. The argument counts. The ring has a slot, occupied or reserved, for every buffer that is not held
  (`RingHoldsRest`), so no reservation reaches the front, whatever its check compared. The reservations in progress add up to the distance from the
  back to their end (`PendingBehindBack`), so it does not matter for whom a compare-and-swap publishes. Every slot between front and reservations is
  either occupied or reserved by one thread that has not written it yet (`SlotsAccounted`). Nothing is needed of the values a thread has read before, which is
  why a counter that has come around to an old value does no harm. With the hypothesis `Returners = {Consumer}`, the
  loopback system in which the receive thread makes all calls (the configuration of `rbp_loopback`): what a call has read is never outdated (`LoopbackInvariantHolds`), no
  return throws (`NeverThrowsHolds`; false without the hypothesis, see `NoOverflow` above), and the ring implements `BufferPool`
  (`LoopbackImplementsPool`): the step that ends a get takes from the abstract queue, the one that publishes a return gives to it, all others leave it alone.
* `RecvDispatcherProofs`: `TypesHold`, `PendingCorrect`, `WorkRequestsConserved`, `SanityChecksHold`. `NeverInsane` is not
  inductive: that the ring does not overflow needs `RoomReserved` (ring entries plus the most the polled completions can add), that the
  work request pool neither runs dry nor overflows needs `WRConserved` and the
  bounds on `pending` and on the polled completions (`CompsInPhase`), and that no empty message is found needs
  `MessagesNotEmpty`, an assumption about the sender carried through the queues. `OneOwnerHolds` follows the buffers: for each action a function tells to which
  place the buffer of each place moves; it changes no buffer and reaches every place of the next state, so one owner before the step is one owner after it
  (`Moves`). `StreamImplemented` (the refinement of `ReceiveStream`) needs that a completion is cut where the promise cuts its message (`CutAsPromised`: the
  scatter-gather elements used are the quotient of length and buffer size, and one more for a rest, which holds because no message is longer than its list,
  `MessagesFit`), and that the pieces of joined lists of completions are the joined pieces (`PiecesOfJoin`). Then polling and processing leave the stream as it is
  (concatenation is associative), a received message appends its pieces, a failed one none, and the handler takes from the front.
  The fold `FlattenSeq` behind `PiecesOf` asks for an induction over the number of lists; the induction theorem of the library cannot be used here (see below), so
  `SetInduction` proves induction for sets of numbers from the pigeonhole principle.
* `SendChunksProofs`: `ChunksFit`, `BytesConserved`, `ChunksTileArea`, `FCSentOnce`, `EverythingPosted`, for every ring and chunk size,
  by induction over the turns of the loop with `Continues` (the loop goes on where the last chunk ended).
  The case analysis of a chunk is pure arithmetic (`ChunkArithmetic`). `ChunksFit` and `BytesConserved` are consequences of the invariant
  that the run does not ask for separately.
* `SendDispatcherProofs`: `QueueNeverOverrun`, for any number of nodes and failures. `PendingCovers` needs besides the types only
  `Control`: which node is set in which part of `Dispatch`. `PendingExactHolds` and `HandlerKnowsHolds`: until something fails, what is pending is
  exactly what is in flight and what the handler was and will be told. A sum over the nodes is the cardinality of a set of
  pairs of a node and a number (`Requests`), so that one request more or less is one element more or less.
  `ContextsBetweenHolds`: with any failures the contexts in use lie between what is really out and what the counters say (an error path leaks contexts, none is freed
  twice). `TotalsHold`: `m_completionsPending` is the sum of the pending counters, and so are the contexts in use until something fails. `ResourcesHold`: whatever
  fails, the pool of contexts does not run dry and the shared completion queue does not overflow. These two assume finitely many nodes and
  `Cardinality(Nodes) * SQSize <= SCQSize`: the shared queue has room for every send queue, as it has with the default sizes
  (`msgrc/MsgrcSystem.h:70-73`: the number of connections times the size of a send queue). `sd_faults` has exactly that room.
* `ConnectionManagerProofs`: `OneThreadCreates`, `StateIsRight`, `ClosedNodesKnown`, `ConnectedByBoth`, `HandlesCounted`, for any number
  of threads, incarnations and queued jobs. The first follows with `ThreadControl` (a thread that gives up still is the one that
  repeats the creation). The next three hold together, by the shape of the jobs: every job leaves the connection, the state,
  the flags and the discovery consistent, and threads move the state only between none and in creation. `HandlesCounted`
  needs `CountedOrReset`: while the counter is negative it exceeds INT32_MIN at most by the number of threads that have not yet reset
  their early fetch, nobody holds a handle or is about to take one; otherwise it counts the handles, the connection is
  connected and the job thread is not about to open it. The assumption on `Half` (INT32_MIN is far from zero compared
  with the number of threads) keeps the two apart.
* `ConnectionExchangeProofs`: `AgreementHolds`, `ConnectsOnceHolds`, for any number of packets, jobs and faults. The invariant says what is true of
  everything that is on its way: a packet that claims that its sender's current queue pair is connected was sent after it was
  (`PacketsTrue`), what a node has noted of the other was so (`NotedTrue`), and flags, state and connection of a node agree. Two lemmas carry it: a connection
  that only grows (`GrowsKeeps`) or is cleared leaves all that was told of it true. Threads that ask and give up move the state between none and in creation only (`ThreadStep`).
* `JobManagerProofs`: `ReservationsCountedHolds` (the reservations exceed the back by the pushes between reserving and publishing, with the cardinality
  of that set, although threads publish for each other), `NoLostWakeupHolds` (of fewer published jobs than slots: it needs `SleepAgrees`,
  which says what the job thread saw, and that two such positions are not in the same slot, `SlotsDiffer`), `DispatchersAliveHolds`, `QueueAliveHolds`, for every size of the queue and any
  number of threads, nodes and jobs. The last two need who is busy in which part of the shutdown (`BusyAgrees`), how far it has come
  (`ShutdownAgrees`) and what the locks hold back (`LocksHold`).
* `DiscoveryProofs`: `NeverForgottenHolds`, `OneEntryHolds`, `NoNullEntryHolds`, for any addresses, ids, entries and restarts. They need that what
  is connected is known (`EntriesAgree`) and that an answer names an id of the address it comes from (`IdsAgree`). The latter is assumed of the network's users: a node id
  belongs to one address. With two addresses answering with one id the entry of one of them would be lost.

## 5. What is only model-checked

Every safety and action property that a passing run checks, and both refinements, are theorems as well. What is left to TLC is liveness
(`SomeCallFinishes`, `RefilledEventually`, `DeliveredEventually`, `QueueDrains`, `Opens`, `Settles`, `PushesFinish`, `ShutdownEnds`,
`FoundEventually`): `ENABLED` and fairness are beyond the provers used here, and so are the induction theorems of the library, which take an operator as a parameter
(`SetInduction` takes a set instead and does for what is proved). The refinement of `BufferPool` is checked and proved for one returning thread only; with
several the ring is not a queue (`PublishedSlotsWritten` above), and what remains true of it is the rest of `RecvBufferPoolProofs`.

## 6. What is not modelled

* Weak memory: the code uses relaxed and acquire/release accesses; the model is sequentially consistent. The destructor of the connection manager reads
  `m_connections` without a lock while the job thread deletes them (`CM:96-98`); `JobManager` lets it see the connection before or after, not
  a deleted one.
* The calls of the listeners of connections and discovery: no state depends on them. They are looked at and then called without a lock while the
  shutdown takes them away (`DM:133`).
* The pool of connection ids and `m_openConnections` for more remote nodes than connections (`CM:542`, `CM:563`): the modules
  have a connection to each of few nodes.
* A close that is not forced waits in the job thread for the handles (`CM:512`); nothing in this code asks for one. `ConnectionManager` has the step, without a
  claim that it ends.
* The socket, the checks of magic number and length of a packet, `m_noDataAvailable` of the exchange manager (which only delays its loop), the parking strategy of the
  execution engine, thread start and pinning: they change timing or drop packets, which the network does anyway.
* Statistics, logging, memory registration, parsing of node lists, host names, verbs calls: nothing the properties speak about depends on them. An own
  address with an empty host name, which the discovery would ask for as well, is an address of `Discovery` like any other.
* The application above the handlers (Java) and the JNI binding. It is an environment that may ask for any package and return buffers in any order.
* `libs`, the larger part of the repository's lines, is third-party code (fmt, spdlog, backward, argagg).

## 7. Plan

1. Done: `RecvBufferPool`, `RecvDispatcher`, `SendChunks`, `SendDispatcher`, `ConnectionManager`, in this order: data path
   first, and in it the code that several threads execute.
2. Done: `ConnectionExchange` (two nodes, faults), `JobQueue` and `JobManager` with the shutdown, `Discovery`, and their theorems.
3. Done: the ring of `RecvBufferPool` for any number of threads, the owner of each buffer of the receive path, the sums of the send path, both refinements.
4. Connection ids and `m_openConnections` with more nodes than connections, node ids that move to another address.
5. Compositions: `ConnectionManager` with the send thread; the send path of one node with the receive path of another and its flow control.
