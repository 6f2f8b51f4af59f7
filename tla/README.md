# KzCore in TLA+

KzCore is a C++20 library: lock-free containers and a futex-style mutex
(`src/KzSTL`), a work-stealing thread pool (`src/KzThread`), an epoll reactor
with timers and TCP (`src/KzNet`, `src/KzTimer`), RPC over it (`src/KzRpc`), an
asynchronous logger (`src/KzLog`) and a thread-caching allocator
(`src/KzAlloc`). These modules model all of its concurrent parts and the
sequential ones with arithmetic worth checking. TLC checks them on small
instances; TLAPS proves the main safety properties of the mutex, the three
lock-free containers, the buffer, the thread pool, the event loop, the RPC channel, the
TCP client and the logger for every number of threads, jobs, calls and connections, and
that the mutex and the containers implement their abstractions.

Contents: 1 the system, 2 the modules, 3 the runs, 4 bounds and fairness,
5 what the models say that the code's comments do not, 6 proofs, 7 not modelled,
8 what comes next.

## 1. The system

| Component | State it keeps | Operations | What makes it correct | Here |
|---|---|---|---|---|
| `SpinMutex` | `_state` 0 free, 1 locked, 2 locked with waiters | lock, try_lock, unlock | exclusion; nobody sleeps without a future notification | `SpinMutex`, `Mutex`, proofs |
| `WorkStealingDeque` | `_head`, `_tail`, slots with `is_extracted` | push, pushBulk, pop, steal | each item to one process; no slot reused while a thief moves out of it | `WorkStealingDeque`, `WorkDeque`, proofs |
| `ArrayMpmcQueue` | `_head`, `_tail`, slots with sequence numbers | enqueue(Bulk), dequeue(Bulk) | FIFO by reserved place; empty and full answers have a reason | `ArrayMpmcQueue`, `FifoQueue`, proofs |
| `ArrayMpscQueue` | `_head`, `_tail`, slots with `is_written` | push(Bulk), pop(Bulk) | as above, one consumer | `ArrayMpscQueue`, `FifoQueue`, proofs |
| `ThreadPool` | state, event count, sleepers, global queue, a deque per worker | run, runBulk, start, stop, worker loop | each job runs once; no sleeping pool with a job queued; stop ends | `ThreadPool`, proofs |
| `EventLoop`, `EventLoopThread` | L1, L2 and its cache, `_isWakingUp`, eventfd, `_quit` | queueInLoop(Batch), loop, doPendingJobs, quit | each task runs once; no loop in `epoll_wait` with a task and no wakeup; quit ends | `EventLoop`, proofs |
| `Poller`, `Channel` | registered events, channel index | update, remove, handleEvent | registration follows the connection's life | in `TcpConnection` |
| `TimerQueue`, `TimerList` | wheel of linked lists, table of handles, ticks | add, cancel, advance | a timer runs in its tick, never once cancelled | `TimerQueue` |
| `Buffer` | one block, two indices | append, retrieve, readFd | bytes in order across moves and growth | `Buffer`, proofs |
| `TcpConnection` | state, write queue, blocked coroutines | send, sendAsync, shutdown, forceClose, handlers | closed once, stream in order, writers resumed | `TcpConnection` |
| `TcpServer`, `Acceptor` | connection table, spare descriptor | accept, remove, destroy | who is gone is destroyed, who waits is accepted | `TcpServer` |
| `Connector`, `TcpClient` | two wishes to connect, state, timers | connect, stop, disconnect, retry, restart | one attempt at a time, stop holds, reconnects | `TcpClient`, proofs |
| `RpcChannel`, `RpcServer` | slot map with a free list, connections | callMethod, onMessage, disconnect, dispatch | each call resumed once, with its own answer | `Rpc`, proofs |
| `Serializer` | a byte buffer | write, read | what was written is read back | `Codec` |
| `AsyncLogging`, `LogFile` | a ring per thread, registry, flush requests, file buffer | log, flush, backend loop, roll | what was taken is written, flush covers it | `AsyncLogging`, proofs |
| Allocator | page map, shards of spans, buckets, thread caches | malloc, free, end of a thread | memory given once; spans counted and merged | `Heap`, `PageCache`, `ConcurrentAlloc`, `SizeClasses` |

How they interact. A worker of `ThreadPool` owns one `WorkStealingDeque`, steals
from the others and shares one `ArrayMpmcQueue`. `EventLoop` takes tasks of other
threads from an `ArrayMpscQueue` (L1) and, when that refuses, from a vector under a
`SpinMutex` (L2). `TcpServer` accepts on one loop and gives each connection to
another; `TcpClient` and its `Connector` live on one; both destroy connections by
tasks sent between loops. `RpcServer` takes requests on the connection's loop, runs
handlers on a `ThreadPool`, and answers by tasks; `RpcChannel` is called from any
thread and answered on its loops. The logger and the allocator's upper levels use
`SpinMutex`; memory goes thread cache, bucket, shard, system, and back.

Where it is hard: every lock-free step may be interleaved with any other; a
thread may stop between reserving a place and filling it; three protocols put
threads to sleep on a value they have just looked at; a state is loaded by one
thread and stored after the loop has changed it; objects (slots, handles, span
objects) are used again while somebody still has an old name for them; locks are
given up in the middle of an operation. `PROJECT.json` lists these hazards at
their lines.

## 2. The modules

Conventions. One action is one access to a variable that several threads share (an
atomic load, store, CAS, exchange), one whole critical section of a lock, or, on a
thread that owns its data, one callback. `pc`, `call`, `sub`, `wake`, `user` hold
where a thread stands; names follow the source. Memory is sequentially consistent:
the fences and acquire/release pairs of the code are taken to do their work. A weak
CAS does not fail spuriously: in this code that leads back to the same loop with the
same values. Assertions are compiled out, as `CMakeLists.txt` does in a Release
build, unless a variable `asserted` says that one ends the program. Operators with
the comment "mutant" are broken variants of the definition that follows them; no
specification uses them.

**SpinMutex.** CAS, up to `SpinLimit` rounds of load and CAS, then `exchange(2)` and
`wait(2)`; `Unlock` exchanges 0 and `NotifyOne` follows if it saw 2. **Mutex** is the
abstract lock.

**WorkStealingDeque.** The Chase-Lev deque: `PopReserve` is the decrement of `_tail`,
`PopLoadHead` the comparison, `PopCas` the race for the last item, `StealTake` and
`StealFree` the move out and the `is_extracted` store that the owner waits for in
`PushConstruct`. **WorkDeque** is a sequence with atomic push, pop and steal; an
operation takes effect at its CAS or its decisive load.

**ArrayMpmcQueue**, **ArrayMpscQueue.** Bulk calls, of which the one-item calls are an
instance; probing, rechecking, CAS, construction and publication are separate steps.
`tail - head` of the MPSC queue is computed modulo `WordMod`, as `size_t` does.
**FifoQueue** is what both promise: places are reserved in order, filled one by one,
and taken from the front as far as they are filled; a push may be refused.

**Library** is the sum of the parts that stand alone (the mutex, the three containers, `Buffer`,
`Codec`, `SizeClasses`): `part` picks one of `Parts`, the others never move. It exists so that
they are checked, and proved about, under one set of constants; no part knows of another.

**Buffer.** A byte is its number in the order of arrival. `MakeSpace` slides or
copies, `ReadFd` and `Readv` are the loop over `readv` with the spare block.

**Codec.** `Write` and `Decode` on bytes, with ranges, zigzag and varints as the code
computes them; every message of up to `MaxFields` fields is written, read, and read
cut short.

**SizeClasses.** The table of 264 sizes, the two ways an index is computed, batch
sizes, and what `realloc` and the aligned calls derive from them.

**ThreadPool.** Uses its containers through `WorkDeque` and `FifoQueue`, with the
concession their refinement needs: a push may take fewer jobs than fit. `RunBulk` ..
`RunInline` are run and runBulk, `LoopTop` .. `FinishJob` the working part of
`workerLoop`, `Announce` .. `Retract` its way to sleep, `WakeCheck`, `WakeAdd`,
`WakeNotify` the way to wake one worker, `StartBegin` .. `StopJoin` the control
operations, called by one thread. Jobs may submit jobs.

**EventLoop.** `Queue`, `Fill`, `PushOverflow`, `Signal`, `Wakeup` are
queueInLoop(Batch). The loop's thread goes `SemRelease`, `EnterLoop` (which stores
`_quit = false`), `LoopOrDrain`, `Poll` or `PollOther`, `ReadEventfd`,
`ResetWakingUp`, and through doPendingJobs with `Begin` .. `Return`, which also make
up the final drain. `ToProcess` keeps the conversion of a negative `int` to
`size_t`. Other channels and timers appear as reasons for poll to return and as
callbacks that queue tasks.

**TimerQueue.** The lists are their links, set in the order the code sets them;
`Moved` is the move constructor of `TimerList`. `Add`, `Cancel` happen as tasks or in
callbacks; `Advance`, `NextTick`, `Expire`, `Ran` are `advanceTo` with one callback at
a time; memory of timers and entries of the handle table are used again.

**TcpConnection** is a record and operators on it, one for each function that runs in
one go on the loop (`HandleWrite`, `HandleClose`, `SendInLoop`,
`CheckCoroutineResume`, ...), together with its Channel (`events`, `index`) and what
epoll reports. **TcpServer** adds the actions: the base loop (accept, descriptors
run out, removal, destructor), the loop of each connection (`HandleEvent`, its
`WriteHalf`, `DoPendingJobs`), a user's thread that reads a state (`UserLooks`) and acts
on it later (`UserActs`), and the peer. A user's callback may send, shut down or
force the close.

**TcpClient.** Its own and the Connector's flags, socket, timers and queued tasks. What
`AttemptEnds` gives to the Connector follows what Linux reports for a non-blocking
connect. `removeConnection`, which tests a flag and then restarts, is two steps.

**Rpc.** A critical section of `RpcChannel::_mutex` is one step; picking a connection,
allocating a slot and sending are three; resuming what was collected is one step for
each call, outside the lock. The loop that fails calls is one step: `Taken` are the slots it
takes, `Ascending` their order, `AllReleased` the list after it. Connections are FIFO and
may break, handlers finish in any order.

**AsyncLogging.** A record is some units of its thread's numbered stream. The backend's
turn is cut where other threads can interfere: registry, stop, ring tails, heads,
`is_dead`, flush sequence. The file is, for each
thread, the units in `FileUtil`'s buffer, the units written, and those that were in the buffer of a
file closed by rolling; the order between threads is left out, lengths are not.

**PageCache.** Shards under their locks, span objects in pools that construct them
again, and the page map and the fields of other shards' spans read without a lock.
`SystemAlloc` runs with the lock given up. **ConcurrentAlloc** puts on top one size
class: free lists, slow start, `FetchRangeObj`, `ReleaseListToSpans` with its batches,
large requests, the end of a thread. **Heap** is what malloc and free promise.

**Counting** says how often a job occurs in a queue or a family of queues; the accounts of
`ThreadPool` and `EventLoop` are stated with it.

`MC*` modules give constants their values and symmetries.

## 3. The runs

| Run | Shows | Instance |
|---|---|---|
| `spin_mutex` | the part `lock`: `NoLostWakeup`; refinement of `Mutex`; `DeadlockFree` | 4 threads, `SpinLimit` 1 |
| `library` | the other parts: containers refine their abstractions, slots are exclusive, a call gives up with a reason and returns even if others are suspended; buffer, codec and size classes compute what they should | 2 producers, 2 consumers or thieves, 2 slots, 4 to 6 items sent in all, bulks of 2; a buffer of 3; messages of 3 fields; the whole table |
| `pool_safety` | `JobsAccounted`, `NoLostWakeup` (with the count of sleepers, and that a sleeper leaves no job in its deque) | 2 workers, a client, 3 jobs, 2 starts, global queue 2, deques 1 |
| `pool_live` | `JobsRun`, `StopCompletes` | the same, 2 jobs, 1 start |
| `event_loop` | `RunOnce`, `QuitRunsAccepted`, `JobsRun` without poll's timeout, `QuitHonoured` | a producer and the loop's thread, 3 tasks, L1 of 2, turns of 2 tasks |
| `rpc` | `SlotMap`, `StaleOnlyAfterExhaustion`, `OwnAnswerOnce`, `Resolved` | 2 callers, 2 connections, 3 calls, map grown by 2 |
| `tcp_server` | `ClosedOnce`, `StreamIntact`, `WritersResume`, `GoneAreDestroyed` | a connection, a user's thread, messages of 5, 1 and 2 units, kernel buffer 3, high water 2, one writer resumed in a round; a chunk from the peer with its callback, a shutdown or forceClose by the user |
| `tcp_client` | `OneAttempt`, `StopHolds`, `Reconnects` | 3 connects, 3 stops, 2 timers |
| `async_logging` | `RecordsKept`, `FlushCovers`, `Served` | 2 threads, rings of 2, 3 units, a drop, a flush, files rolled at 2 |
| `timer_queue` | `WheelHolds`, `CancelExact`, `RunsInItsTick` | 2 timers in memory, 3 created, wheel of 2, 5 ticks |
| `allocator` | `PagesOwned`, `Coalesced`, `ObjectsAccounted`, refinement of `Heap` | 2 threads of one shard or of two, 4 pages, 2 objects a page, 4 requests |
| `alloc_foreign` | violation of `NeverAcrossShards`: a shard merges a span of another one | a thread of shard 0, one of shard 1 |

## 4. Bounds and fairness

Why the bounds suffice. Two slots and more items than slots make every index wrap and
let a bulk call fill or empty the ring; two threads of a kind and one of the other
give each race its partners. Four threads on the mutex: two asleep, one notifying, one
barging in. In the pool, deques of one and batches of two reach every overflow path;
two starts let state of one run leak into the next. In the loop, turns of two reach
`kMaxTasks` with tasks left in L1, in the cache and in both. Three RPC calls over a
map that grows by two make it grow a second time, use slots again and answer out of
order. One connection is enough for `TcpServer` because connections share nothing but
the table and the accept queue; the first message fills the
kernel's buffer and the queue up to the high-water mark, so that the writers of the two
short ones block together; one is resumed in a round (`MaxResume` 1 for sixteen), and what
it writes goes out directly, is cut, or has to be queued, so that the other is resumed by a
later round or left behind. Two
timers and two slots put both in one list, let one stand for a rotation, and let a
third take the memory and handle of the first. Rings of two are filled past their end;
the file buffer holds four units and files roll inside a run. Four pages are two
batches from the system, or one and a large request's, so that spans split, merge, and
meet without having come together.

Bounds by name. Limits on what happens in a behaviour: `MaxJobs`, `MaxStarts`,
`DequeItems`, `MpmcItems`, `MpscItems`, `MaxBytes`, `MaxFields`, `MaxCalls`, `MaxOps`,
`Length`, `MaxChunks`, `MaxConnects`, `MaxStops`, `MaxTimers`, `MaxUnits`, `MaxDrops`, `MaxFlushes`,
`MaxTicks`, `MaxCreated`, `MaxMallocs`, `P` (pages), `PoolSize`, `Aligned`. Constants of the code
made small: `SpinLimit`, `Capacity`, `GlobalCapacity`, `LocalCapacity`, `MaxBatch`, `BatchSize`,
`MaxTasks`, `ExpandSize`, `HighWater`, `MaxResume`, `BufferSize`, `RollSize`, `CheckEveryN`, `W`,
`NPAGES`, `Threshold`, `MaxNum`, `PerPage`, `MaxLoop`. `WordMod` stands for 2^64. The table of size
classes is not made small.

`CHECK_DEADLOCK FALSE`: once everything the bounds allow has been called, and the pool,
loop, server or engine has ended, there really is no next step (in the pool, this
also covers the hang of section 5). What must happen before is said by the liveness
properties. `spin_mutex` checks deadlock.

Fairness. Threads are scheduled: weak fairness on the steps inside an operation and
on the loops of workers, event loops and the backend; jobs, callbacks and handlers
return. Nobody is made to call anything. Suspended threads of the containers
(`Suspended`) get no fairness at all. No event loop may count on poll's timeout or on
another channel (`PollOther`). The environment: in `tcp_server` a peer that has not
reset its connection reads what it is sent, and accept() finds a descriptor again and
again (strong fairness, since one is free only at times); in `tcp_client` attempts that
are made again and again are answered once (strong fairness); in `rpc` connections
need not connect or break. The mutex is not fair to single threads and `DeadlockFree`
does not say it is.

## 5. What the models say that the comments do not

The properties above are stated with the exceptions the code really has; each was met
as a counterexample to a simpler property. `alloc_foreign` is kept as a run.

* **Merging across shards** (`PageCache.cpp:256`, run `alloc_foreign`). A shard reads
  `_isUse` and `_shardId` of the neighbour the page map names, which may belong to
  another shard whose lock it does not hold. When that shard deletes the object and
  constructs it again, its fields are for a moment those of a free span of shard 0, and
  a thread of shard 0 merges it. The passing instance numbers its shards 1 and 2.
* `EventLoop::loop` (`EventLoop.cpp:66`) stores `_quit = false` after `startLoop()` has let its
  caller go; a quit made in between is lost and `~EventLoopThread` never returns. Hence
  `QuitHonoured` starts at `EnterLoop`.
* `EventLoop::doPendingJobs` (`EventLoop.cpp:170`), leaving because of `kMaxTasks` when the cache
  is used up, does not look at `_overflowQueue`: tasks queued there before the flag was
  reset wait for another event or for poll's ten seconds (`Stranded`). When an L1
  batch overshoots `kMaxTasks`, the difference is negative, becomes a huge `size_t`, and the
  turn runs the whole cache.
* `ThreadPool` (`ThreadPool.h:280`): workers spin until they *see* `RUNNING`. A `stop()` soon
  after `start()` replaces it first; the workers spin for ever and `join` blocks. Hence
  the condition of `StopCompletes`.
* `ArrayMpscQueue::push` (`ArrayMpscQueue.h:67`) loads `_tail` before `_head`. If the indices move
  past the copy in between, the unsigned difference wraps and push reports a full queue
  that is not full. `EventLoop` then takes its slower path only.
* `ArrayMpmcQueue` (`ArrayMpmcQueue.h:20`) accepts a capacity of 1, for which a slot's number
  says the same for "published at i" and "free at i + 1": the next producer constructs over
  an item that nobody has taken. The proofs below need `Capacity # 1`; no code here uses 1.
* `TimerList::push_back` (`TimerList.h:60`) makes the new node point to `_root.next`, so a list of
  two is a cycle that misses its head. The move constructor, through which every list
  that is worked through goes, repairs the last link; only `~TimerQueue`, which walks the
  lists as they are, touches freed timers. The model follows the links; `WheelHolds`
  speaks of a queue that lives.
* `TimerQueue` (`TimerQueue.cpp:73`): a delay that is a multiple of the wheel size has one
  rotation too many and comes a turn late. `RunsInItsTick` takes that for the tick meant.
* `Connector` (`Channel.h:153`, `Connector.h:207`): a failed non-blocking connect reports
  HUP without IN, for which `Channel` calls the close callback only, and the Connector
  sets none. The attempt is not noticed and not repeated (`sock = "failed"` in
  `Reconnects`).
* `TcpClient` (`TcpClient.cpp:62`): a `stop()` between the test of `_connect` and `restart()` is
  forgotten (`overtaken`). After a second `connect()` a start task or a retry timer still pending
  may meet the attempt or connection of the other call and the assertion of `Connector.h:91`;
  hence `connects <= 1` in `OneAttempt`.
* `TcpConnection`: `forceClose()` loads the state and stores `DISCONNECTING` later
  (`TcpConnection.cpp:321`), and the write half of an event runs after its read half closed the
  connection (`Channel.h:174`), registering the channel again. Both close a connection twice
  (`excuse`). `connectDestroyed` resumes no blocked writer. `checkCoroutineResume` wakes
  at most `kMaxResumePerLoop` writers in a round (`TcpConnection.cpp:289`); if those write
  directly, or nothing because the connection is being shut down, the queue stays empty,
  `EPOLLOUT` stays off and nothing resumes the rest, on a connection that is up and
  drained, until somebody else's message has to be queued or the connection closes. The
  run reaches this with two blocked writers and a limit of one, and `WritersResume`, which
  fails there without its exception, excepts exactly these writers (`LeftBehind`).
* `RpcChannel` (`RpcChannel.h:458`): the last free slot carries the mark of an occupied one. When
  all slots have been in use at once, failing a connection may take a call that was
  resumed long ago (`wild`). A call that registers after its connection's calls were
  failed waits for ever, since the timeout is commented out (`Resolved`).
* `AsyncLogging` (`AsyncLogging.h:97`): a thread that writes last and ends between the drain and
  the look at `is_dead` loses that record. A flush that waits when the engine stops
  never returns. A file that is rolled loses what its buffer held (`LogFile.h:43`).
* `Serializer` (`Serializer.h:99`) writes nothing for an empty container, not even its
  length; the reader takes the next field for it (`NoEmptyVec`). Bits past the width of a
  varint are dropped without an error; `clear()` drops the place of the header.
* `realloc` (`ConcurrentAlloc.h:182`) keeps a block that shrinks; a later sized free with the new
  size puts it in a smaller class's list.

## 6. Proofs

A proof module extends the module it is about; every theorem holds for all values of the
constants that satisfy the assumption named in that module, which TLC evaluates on the
instances of section 3. Each argument is an inductive invariant, one lemma for each
group of actions that keep it, and a temporal step.

| Module | Theorems | Assumes |
|---|---|---|
| `LibraryProofs`, mutex | `LockTypeCorrect`, `MutualExclusionHolds`, `OwnershipHolds`, `NoLostWakeupHolds`, `LockRefines` (of `Mutex`) | `LibraryAssumption`: `SpinLimit` is a natural number |
| `LibraryProofs`, containers | `SlotsExclusiveHolds`, `EmptyMeansUnpublishedHolds`, `FullMeansLapOutstandingHolds`; `MpscSlotsHold`, `MpscNeverOverfull`; `DequeSlotsHold`; all of `SlotsHoldHolds`, `GiveUpForAReasonHolds` | `LibraryAssumption`: finitely many producers; one producer and one consumer are not suspended; positive capacity and bulk; no index reaches 2^w; an item is no raw slot. For the mpmc queue, `Capacity # 1` |
| `LibraryRefinement` | `DequeRefinesHolds` (of `WorkDeque`), `MpscRefines` and `FifosRefineHold` (of `FifoQueue`) | as above |
| `LibraryProofs`, buffer | `BytesInOrderHolds` | `LibraryAssumption`: positive unit of growth and rounds of `readv` |
| `ThreadPoolProofs` | `JobsAccountedHolds`, `NoLostWakeupHolds` | `PoolAssumption`: finitely many threads, some of them workers; a batch fits an empty deque |
| `EventLoopProofs` | `RunOnceHolds`, `QuitRunsAcceptedHolds` | `LoopAssumption`: finitely many producers, positive capacities |
| `RpcProofs` | `StaleOnlyAfterExhaustionHolds`, `OwnAnswerOnceHolds`, `PendingOnceHolds` | `RpcAssumption`: finitely many callers and connections, the map grows by at least one |
| `AsyncLoggingProofs` | `RecordsKeptHolds`, `FlushCoversHolds` | `LoggingAssumption`: any record fits into an empty ring; sizes of the file and its buffer are natural numbers |
| `TcpClientProofs` | `OneAttemptHolds`, `StopHoldsAlways` | nothing of the bounds |
| `CountingProofs` | lemmas used by the pool and the loop | finite domains |

**SpinMutex.** Mutual exclusion is not inductive alone: a CAS from 0 lets nobody in beside
an owner only if the state is 0 exactly when there is no owner. So
`LockInv` is `TypeOK`, `MutualExclusion`, `StateTellsOwnership` and `CasBelowLimit`; the last
conjunct bounds the loop variable for `TypeOK`. No step strands the sleepers: the one that
moves the state away from 2 is `Unlock`, and its thread becomes a notifier. For the
refinement, every step acquires, releases or stutters, as the owner is unique.

**Counting.** A job held once is a sum of cardinalities, so the lemmas say what appending,
concatenating, removing a prefix or replacing one queue of a family does to the count.

**Buffer.** `BufferInv` adds to `BytesInOrder` that the block is as long as `capacity` says. What
putting, sliding and copying do to a block is stated once, for any block, and the loop over
`readv` keeps the content from one round to the next.

**ArrayMpmcQueue.** That the slots of two producers differ is not inductive: a CAS must not
succeed on slots that are still in use. `RingInv` says which number each slot carries: `QueuedSlots`
between `_head` and `_tail`, `FreeIndices` beyond, `Constructing` and `MovingOut` for those won and not
yet released. `Passed` says that a number never falls behind the indices that have passed its slot,
so what a probe has seen (`Probed`) can only have been overtaken, and then the index has moved and
the CAS fails; if it succeeds, the probe still holds. `RingRange` adds the bounds: the tail is
the number of places promised (`Promised`), no number is more than a lap beyond it. A call returns 0 only where the slot
it met, and the index it read again, give the reason.

For `FifosRefineHold`, `RingEntries` and `RingHandIs` read the mapped variables off `RingInv`: an entry
is unfilled exactly while a producer has won its index, and it carries the number the producer
will give it; a hand is the run of indices a consumer has won and not emptied. Of the
steps, the CAS on `_tail` is `Reserve`, the store of the sequence number `Fill` (`RingCarried`: the item
constructed by then is the producer's last), the CAS on `_head` `Take`, the move out `Deliver`; all others
stutter. That the entries taken are filled is no guard of the code, which probed them before:
it follows from `MovingOut` after the step.

**ArrayMpscQueue.** The consumer goes slot by slot as far as `is_written` is set, so `StripInv` follows `Front`, the
index it stands at: below it all is raw, claimed slots above it are raw or being filled by one
producer (`Claimed`, `ClaimedOnce`), the others are written (`Published`). A push computes with
stale copies and modulo 2^w, yet its CAS succeeds only if the tail is the one it loaded; the head
it loaded is then not ahead of the real one, so the room it found is there. That the
difference does not wrap there needs a bound on the tail: it is the number of items given
so far, a sum over the producers (`Sends`). `MpscRefines` goes the same way as above with the flag in
place of the number and `Front` in place of `_head`: the consumer takes an entry when it finds
the flag set, before `_head` moves.

**WorkStealingDeque.** `DequeInv` places the indices for each step of the owner (`OwnerAt`, with `High`
for the end while a pop has lowered `_tail`), says of each thief that the index it is about to
win, if it is still `_head`, is in the deque (`ThiefAt`; the owner may have lowered `_tail`
since the thief read it, but then owner and thief meet in the CAS), that an index has one winner
(`Apart`), and that the indices in use, also those a thief is still moving out of, lie within a
lap and decide what every slot and flag holds (`SlotsTell`). For `DequeRefinesHolds`, `Numbered` says
that the items between the two indices are the last ones pushed, in order; a pop takes its
item when it reads a `_head` below its own index, or else at the CAS that decides between
it and the thieves; a steal takes at its CAS; a push appears at the store to `_tail`.

**ThreadPool.** `Accounts` adds to `JobsAccounted` what makes steps that overwrite a variable
harmless: a worker has a job in hand exactly while it runs, the rest of a batch waits next
to an empty deque (`PushRest` ignores what the deque refuses, so it must refuse nothing:
this is where `MaxBatch - 1 <= LocalCapacity` is needed), a call that returned holds no jobs,
and stop() joins only workers that hold none. `NoLostWakeup` needs a second invariant on top,
`Wakeups`: the count of sleepers is exact on every path (`SleepCount`); a job that reached the
queue after a worker made its last look is still to be announced to it (`Announced`); and while
every worker sleeps on an old ticket, a notification is on its way (`Covered`).

**EventLoop.** `RunOnce` needs that the cache is not refilled before it is used up, that what
is being run is what `jobs` holds, and that ids not given out yet have not run. For the final
drain, `Settled` says that no call still holds a task that was queued before quit was stored.

**Rpc.** The part `Exact` of the invariant holds until a stale call is taken (`wild`, at which
the behaviour ends). The ids in requests, answers and callers name a pending call or are older
than their slot (`Messages`), so an answer that finds its slot finds its caller; a call in a
list to be resumed is in no slot and no other list (`DueCalls`); the free list never leads to a
pending call or twice into one slot (`FreeSlots`), so a new call overwrites none. For the
exhaustion theorem, `Spare` says that before the list was ever empty only a slot that never
held a call carries the mark -1. Of `SlotMap` the part that decides who resumes a call is
`PendingOnceHolds`; the other part, that the free list reaches every free slot, follows the list
with a recursive function and stays with TLC.

**TcpClient.** `OneAttempt` is `SocketsAgree`, which holds however often connect() is called, and
`TimerAlone`, which speaks of a single connect(). For both: `Connection` says who looks after the connection object and when
its end is queued, `SingleStart` that one connect() is one task, one timer, or one attempt or
connection. For `StopHolds`: `Stopping` says what stop() has left to its queued half. Each task is
in the queue at most once where that matters (`Once`).

**AsyncLogging.** `RecordsKept` speaks of the file only; that the backend passes on the right units
rests on the rings. `RingHolds` says that a ring holds, from its head to its tail, each unit in the
slot its number falls on, and that a record being pushed still fits: the head only moves
forward after the look at it. So a run that `Pass` hands over, on either side of the end of the
ring, are the units that follow those taken before (`Continues`). `Keeps` puts the other half in terms
of three values of each thread, what is written, what is buffered behind it, and what was in
the buffers of closed files: appending such a run, flushing and rolling keep them together.
`BackendAt` says where the backend is in the ring it drains. For `FlushCovers`, `Answered` says that a
request whose number is not above the done sequence is covered: what was taken when it was made
had left its ring, hence was in the file or its buffer, and the done sequence is
moved only after a flush. A rolled file takes its buffer with it, so written means written or
rolled away, as in the property.

Only model-checked: liveness (fairness and ENABLED are out of the prover's reach); what the
recursive functions of `Codec`, `SizeClasses` and `Rpc` compute (induction over data is, too:
`DecodesWritten`, `SlotMap`; `SizesFit` is a finite table, which TLC checks completely); the
refinement of `Heap`; `ClosedOnce` and `StreamIntact` of `TcpServer`, whose streams are folds over
queues; `WheelHolds` and `CancelExact` of `TimerQueue`, which follow links recursively; and
`PagesOwned`, `Coalesced` and `ObjectsAccounted` of the allocator.

## 7. Not modelled

* `EventLoopThreadPool`: starts threads in a row and picks them in turn, all on one
  thread; its threads are `EventLoopThread`.
* `Socket`, addresses, `ConnTracer`, log formatting, `KzAlgorithm`: system call wrappers,
  parsing and formatting without state that others depend on.
* `Job`, `Function`, `Task`, `Expected`, `KzAny`, `KzString`: storage of single values, not shared.
* STL adapters and the bootstrap allocator; the destructor of the page heap, which
  no code reaches. `ObjectPool`'s lock-free stack and the growth of the page map are
  atomic here: the span pools are used under the lock of their shard.
* In modelled components: CPU pinning and `first_cpu` of the pool, control calls by
  several threads, what a second call of `startLoop` does, floating point and nested
  containers in messages, errors of `write()`, records longer than a ring, the use of a
  coroutine's frame after another thread has resumed it (`RpcChannel.h:377`), several
  size classes at a time. Weak memory orders.
* Benchmarks.

## 8. What comes next

To prove, in this order: `ClosedOnce` of `TcpServer`; `CancelExact` of `TimerQueue`, which needs the lists
as sets beside the links; `PagesOwned` of `PageCache`. To model: `realloc` with two size
classes in `ConcurrentAlloc`, and `EventLoopThreadPool` with the destruction of loops under
their users.
