# Eureka in TLA+

Eureka is a collection of independent projects. The largest body of code of its
own with a protocol in it is **NetworkInfra** (`src/NetworkInfra/src`), a TCP
server library built on a reactor; it is the core of this development. Around it
are the projects in which threads meet: **ActiveThread-Java**, **LightweightMutex**,
**ConcurrentQueue**, **TinyThreadPool**, **LockfreeStack**, **conn-pool**,
**token-bucket-rate-limit**, **RCString**, **Signal-Slot**, and one that is
sequential and hard to test, **BuddyAllocator**. The other projects of the
repository are listed below with the reason why they are left out.

Contents: [Inventory](#inventory) · [Modules](#modules) · [Runs](#runs) ·
[Fairness](#fairness) · [Proofs](#proofs) · [Findings](#findings) ·
[Not modelled](#not-modelled) · [Plan](#plan)

## Inventory

### NetworkInfra

| part | state | operations | what is hard, and what makes it correct |
|---|---|---|---|
| `EventLoop` | `is_running_`, `executing_pending_task_`, the task queue under `task_list_mutex_`, an eventfd | `Run`, `QueueTask`/`RunTask`, `Quit`, `ProcessPendingTasks`, `Wakeup`/`OnWakeup` | other threads queue and quit at any point of the loop, in two steps each; the owner queues without a wakeup in some places. Tasks run once and in order, and no task or quit is left behind a blocked `poll()` |
| `Poller`, `Channel` | the `pollfd` vector, the table descriptor → channel, the index every channel keeps | `UpdateChannel`, `RemoveChannel`, `Poll`, the enable/disable functions of `Channel` | removal moves the last entry; ignored entries carry `-fd - 1`; descriptors are reused. An operation on a channel must not change what is watched for another |
| `TimerQueue`, `Timer` | timers by wall-clock time, one timerfd | `AddTimer`, `OnTick`, `ResetTimerFD` | durations are cut to microseconds, the wall clock can be set, handlers add timers. A non-empty queue is always watched, early enough, and every timer ticks as often as it should |
| `TCPServer`, `Acceptor`, `TCPConnection` | `connections_`, the state and buffers of a connection, its channel | accept, establish, read, write, `Send`, `Shutdown`, close, destroy | a closed connection lives on until a queued task destroys it, while other handlers use it; shutdown must wait for output; peers close and reset at any time. No `ENSURE` fails, nothing dangles, callbacks come in order |
| `Buffer` | a vector, `reader_index_`, `writer_index_` | `Write`, `Prepend`, `Consume`, `ConsumeAll`, `ReadFD`, `ReserveWritable` | moving or growing at boundaries, a read split over two arrays. It is a queue of bytes |
| `SocketAddress`, `ScopedFD` | – | – | thin wrappers of system calls, not modelled |

`TCPServer` owns an `Acceptor` and its connections; each of these owns a
`Channel`, registered with the `Poller` of the `EventLoop`. `Run` polls, calls
`HandleEvents` of every reported channel, then runs the pending tasks. Closing a
connection queues `DestroyConnection` as such a task, with a `shared_ptr`;
`Send` and `Shutdown` from other threads queue tasks with a raw `this`. Timers
are one more channel, the timerfd.

### LightweightMutex

`LightMutex` and `RecursiveLightMutex`: an interlocked counter of users, a
semaphore of maximal count 1, an owner. Every interlocked operation and every
call on the semaphore interleaves with those of other threads. One owner at a
time, no wakeup lost, no release dropped.

### ActiveThread-Java

`ActiveThread` starts a thread that publishes a `MessageLoop`; `getMessageLoop`
waits for it. Any thread posts tasks, at once or for a time, and quits.
`MessagePumpDefault` goes round `doWork` and `doDelayedWork` and waits on a
`SyncEvent`. State: the incoming queue (under a lock), the outgoing queue and the
heap of delayed tasks (of the owner), `_running`, `_recentTime`, the event. Hard:
posts between the owner's last look and its wait, two clocks of different
precision, a wall clock that can be set back, an interrupt of the thread that waits,
quitting with tasks in three queues. No task is lost, none begins too early, out of
order or after a quit, and every one begins in the end.

### Projects with one component

| component | state | what is hard, and what makes it correct |
|---|---|---|
| `ConnPool` | `size_`, `idle_list_` | `Get` unlocks to close and to connect, and connecting may fail; `Conn`s are moved; times are those of a wall clock. Each connection is in one place, `size_` counts, at most `capacity_` are open |
| `Bucket` | `available_`, `latest_tick_` | the clock is read before the lock; tokens are lent in advance. No token twice, the rate is kept |
| `LStack` | two tagged heads, `next`, `size_` | nodes are reused while others hold a pointer to them. Every node is in one place, the stack changes at its top |
| `TLQueue` | `head_`, `tail_`, a chain with a sentinel | the locks overlap in one node, nodes are freed outside them. First in, first out, no use after delete |
| `TinyThreadPool` | `running_`, `task_queue_` | the shutdown skips some tasks and must run others, `notify_one` outside the lock. Tasks leave the queue, blocking tasks run, the destructor returns |
| `BuddyAllocator` | a tree of the largest free blocks, a table | `Free` finds its block by what earlier calls left in the tree. Blocks lie apart, the tree is exact |
| `ThreadSafeRCString` | `data_`, `ref_count_` | the count is read and changed in several steps, characters are written through references. Counts are right, a string changes by its own calls only |
| `Signal`, `Slot` | `slots_`, shared with emissions | slots come and go during an emission. It goes through the slots connected when it began |

### Other projects

Not modelled yet: BlockingQueue, CountDownLatch and the C++ ActiveThread (queues
and counters under one mutex with one condition variable, as in
`TinyThreadPool`), Thread_Safe_Observer (a list without a lock of its own),
Object_Pool, backoff-retry, the chat server of learn-golang. Out of scope:
NetworkInfraWin (an unfinished port of NetworkInfra), hashids, uuid and
bloom-filter (arithmetic on strings and digests), Lumper (system calls in
sequence), the tutorial interpreters, sequential dictionaries, book examples,
exercises, copies of library sources and build templates. The last group is by far
the largest part of the repository, so the modelled lines are a small share of it.

## Modules

| module | models | abstracts |
|---|---|---|
| `EventLoop` | `event_loop.cpp`: one action per step of `Run` between two points where another thread can interfere | a task is the number of its `QueueTask` call; handlers and tasks are user code that may queue and quit any number of times before it returns |
| `PollSet` | what a poller promises: per channel, whether it is polled, for which events, whether it is ignored | vector, table and indices; it leaves open what an update does to an entry that is ignored already |
| `Poller` | `poller.cpp`, `channel.cpp`; implements `PollSet` | what descriptors are connected to |
| `TimerQueue` | `timer_queue.cpp`, `timer.cpp`, the timerfd and both clocks | time is a number of ticks, `Micro` of them in a microsecond |
| `TcpServer` | `tcp_server.cpp`, `acceptor.cpp`, `tcp_connection.cpp` on the thread of the loop, over `PollSet` | a buffer is its number of readable bytes; the queue and the poll set are those of the loop; peers and sockets are the environment |
| `TcpServerThreads` | `TcpServer` with other threads that call `Send` and `Shutdown` | one step per access to shared state |
| `ByteQueue` | what a buffer promises | the vector |
| `Buffer` | `buffer.cpp`, the members of `buffer.h`, `ReadFD`; implements `ByteQueue` | integers are their bytes in network order |
| `LightMutex`, `RecursiveLightMutex` | the two headers, one action per interlocked operation, semaphore call or access to `owner_tid_` | the semaphore is its count |
| `TaskOrder` | what the `MessageLoop` promises about when and in which order tasks begin | the queues, the event, the threads |
| `MessageLoop` | ActiveThread-Java, one action per section under a lock; implements `TaskOrder` | a task is its number, due time and whether it quits; what it does is user code |
| `ConnPool` | `pool.h`, one action per section under `mtx_`, and `NewConn` and closing outside it | connections are values |
| `Bucket` | `bucket_limiter.cpp`; the assert is recorded and the code goes on | time in units, `fill_tick_` of them in a tick |
| `LStack` | `lstack.h`, one action per atomic operation and per access to `next` | the values of the nodes; `size_t` counts modulo a small number |
| `TLQueue` | `two_lock.h`, one action per access to shared nodes | a value is its node; a deleted node may be allocated again |
| `TinyThreadPool` | `tiny_thread_pool.{h,cpp}` | a task is its number and its shutdown behaviour |
| `BuddyAllocator` | `bin_manager.cpp`, `buddy_allocator.cpp`, `buddy_util.h` | pointers are offsets, sizes are in slots |
| `RCString` | `thread_safe_rc_string.cpp`, one action per access to the count | a content is a bit; buffers and capacities are left out |
| `SignalSlot` | `signals.h`, one action per section under `mutex_` and per slot of an emission | what the functions do; they may do anything the others do |

The composition: `Poller` implements `PollSet`, `TcpServer` uses `PollSet`, and
`TcpServerThreads` extends `TcpServer`. `Poller` relies on channels being removed
only when every reported channel has been handled; `TcpServer` shows that the
server does so (`RemovedWhenIdle`). `EventLoop` shows that tasks run in the order
in which they were queued and in batches, which `TcpServer` takes for granted.
`MCTcpServer` only adds symmetry sets for TLC. `MCLoopParts` puts
`Poller`, `TimerQueue` and `Buffer`, which do not call each other, into one run: it
extends all three, and the initial states and next-state relations of the latter two
are named apart for that (`TimersInit`, `BufferNext`, ...). `MCPools` and
`MCThreads` instantiate several components that do not interact: a variable `at`
says whose behaviour it is, the variables of the others keep a value of no
meaning, and components share the variables of the same name. Each component's
properties are stated there under `at = ...`, several invariants of a component
joined in one. The sizes of the components are `CONSTANTS` of `MCPools` and
`MCThreads`, given values only in the cfg, so that the theorems about these modules
hold for any values; the components' assumptions about them are plain definitions,
`ASSUME`d there in `PoolsAssumption` and `ThreadsAssumption`. The proofs are in
`EventLoopProofs`, `PollerProofs`, `BufferProofs`, `TimerQueueProofs`,
`TcpServerProofs`, `MessageLoopProofs`, `ThreadsProofs` (over `MCThreads`) and
`PoolsProofs` (over `MCPools`). Definitions keep the names of
the code; definitions with the comment *Mistake* are wrong variants of the one
that follows, with which each property was seen to fail.

What actions correspond to:

* A `Run` of `EventLoop` is `CheckRunning`, `PollReady` or `PollNothing`,
  `OnWakeup` or `HandleIO` per reported channel, `EventsHandled`, `SwapPending`,
  `StartTask`/`TaskReturns` per task, `BatchDone`. `QueueTask` of another thread
  is `ThreadQueueTask` (the push, under the mutex) and a later `Wakeup`; `Quit` is
  `ThreadQuit` and a later `Wakeup`.
* `UpdateChannel` and `RemoveChannel` of `Poller` are one action each: only the
  thread of the loop calls them. `Poll` chooses any answer of poll(2) the entries
  allow.
* In `TcpServer`, `HandleEvents` picks a reported channel and the handlers its
  events call for (`Handlers`); each handler is one action up to the call of user
  code, which is a state (`pc = "user"`) in which `Send`, `Shutdown`, `Keep` and
  `Drop` may happen until `UserReturns`. A `shared_ptr` is membership in
  `connections_`, `held`, a queued task or `batch_refs`; an object is alive as long
  as one of these has it.
* In `MessageLoop`, posting is `Create` (the number is drawn), `Enqueue` (under
  the lock) and `Wakeup` (the event); a round of the pump is `DoWork` (with
  `Fetch` of the incoming queue), `DoDelayedWork`, `Expired` or `Await`. Waiting
  may end for no reason. After an `Interrupt` the owner does not wait: it goes round
  in `SyncEvent` with the lock held (`pc = "spinning"`), where no `Wakeup` gets in.
* `Get` of `ConnPool` is `Get` (the clock), `RetireTimeoutIdleConnections`,
  `Close`, then `Reuse`, `Exhausted` or `Reserve` with `NewConn`,
  `NewConnThrows` (a `std::exception`, which gives the place back) or
  `NewConnThrowsOther` (anything else, which does not); a `Conn` ends by `CloseConn` or `MoveAssign`.
* `Push` and `Pop` of `LStack` are both a `PopHead` from one list (`ReadNext`,
  `Take`) and a `PushHead` to the other (`Load`, `Link`, `Put`), then `Count`.
* A call of `RCString` is `Call` (what `Unique` says), `Clone`, `Release`,
  `FetchSub`, `Store`; deleting follows counting to 0 in one step, since the model
  then finds any later use. An emission of `SignalSlot` is `Emit`, then `Check` and
  `Call` per slot, then `Return`; a nested emission is one more.
* An `ENSURE` that can fail sets `ensured` to FALSE; properties say that it does
  not. An `ENSURE` on an argument of a public function is a guard: callers are
  taken to respect it, since kbase ends the process otherwise.

## Runs

| run | cfg | instance | checks |
|---|---|---|---|
| `event_loop` | `EventLoop.cfg` | 2 threads, 4 tasks, 2 quits | `QueueOrder`, `NoStrandedTask`, `NoStrandedQuit`, and, under fairness, `TaskRuns`, `QuitStops` |
| `loop_parts` | `LoopParts.cfg` | `Poller`: 3 channels, descriptors 0, 3, 4, symmetry. `TimerQueue`: 2 timers, clock up to 6, 1 jump. `Buffer`: bytes {1, 2}, header 2, extra array 2, at most 4 readable | `PollerConsistent`, `ImplementsPollSet`; `TimersWatched` (with the types), `Punctual`, `TickedOnce`; `PartsInOrder`, `ReserveSuffices`, `ImplementsByteQueue` |
| `poller_ignore` | `PollerIgnore.cfg` | 3 channels | `IgnoredIffNoEvents` is violated |
| `timer_queue_ensure` | `TimerQueueEnsure.cfg` | small | `EnsureHolds` is violated |
| `tcp_server` | `TcpServer.cfg` | 2 connections, 1 send and 1 message each, symmetry | `EnsuresHold`, `NoDangling`, `PollSetExact`, `FinAfterFlush`, `CallbackOrder`, `RemovedWhenIdle` |
| `tcp_server_live` | `TcpServerLive.cfg` | 1 connection, output of 2 units | `ClosedIsDestroyed`, `ShutdownCompletes` |
| `tcp_server_threads` | `TcpServerThreads.cfg` | 1 connection, 1 thread | `SendIsThreadSafe` is violated |
| `message_loop` | `MessageLoop.cfg` | 2 threads, 2 tasks, clock up to 3 in half milliseconds, set back once | `NothingLost`, `KeepsOrder` (the refinement of `TaskOrder`), and, under fairness, `TasksBegin`, `CallsAnswered` |
| `threads` | `Threads.cfg` | 3 threads (4 in `LightMutex`), depth 2, 3 nodes, 2 clients and 3 tasks | `MutualExclusion` of `LightMutex`; `OneOwner` of `RecursiveLightMutex`; `NoUseAfterDelete`, `FirstInFirstOut` of `TLQueue`; `BlockingTasksRun` of `TinyThreadPool`; under fairness `WaiterLocks` of both mutexes, `PoolGoesOn` |
| `light_mutex_assert` | `LightMutexAssert.cfg` | 2 threads | `AssertHolds` is violated |
| `pools` | `Pools.cfg` | 3 threads, strings or slots, 4 connections or data, symmetry; see below | `ConnsAccounted`, `NoneExpired` of `ConnPool`; `RateKept` of `Bucket`; `NodesAccounted`, `LastInFirstOut` of `LStack`; `TreeExact` of `BuddyAllocator`; `CopyOnWrite` of `RCString`; `EmitsSnapshot` of `SignalSlot` |
| `bucket_assert` | `BucketAssert.cfg` | 2 threads | `AssertHolds` is violated |

Why the bounds are enough:

* **EventLoop.** Two threads between push and wakeup, with tasks queued from
  handlers, from tasks and by threads, need three tasks; four leave one for the
  next batch. The safety properties are also proved for any bounds.
* **Poller.** Three channels: one removed, one moved, one left alone; descriptor 0
  is the one that `-fd` would not tell from itself; descriptors are reused. Proved
  for any number.
* **TimerQueue.** A timer in a handler's way of another, both repeating or not;
  ticks finer than a microsecond, so that a duration can be cut to zero; one jump
  of the clock in either direction. The clock ends at `MaxTime`, where behaviours
  stop; nothing else in `loop_parts` may. Proved for any number of timers, any
  clock and any jumps.
* **TcpServer.** Two connections, since handlers of one may act on another that is
  closed but not yet destroyed. Each peer may send, close and reset; each
  connection may be sent on and shut down. In the liveness run an output of two
  units leaves in one write, in two, or after writes that took nothing. The safety
  properties are proved for any number of connections and messages of any size.
* **Buffer.** Sizes around the header, the end of the vector and the end of
  `ReadFD`'s array, 2 each instead of 8 and 65535; the code compares only sums of
  them. Proved for any sizes.
* **The mutexes.** Three threads show an owner, a waiting thread and a newcomer; a
  fourth a second one waiting. Depth 2 has an inner lock and unlock. Proved for any
  finite set of threads and any depth.
* **MessageLoop.** Two threads between adding and signalling; two tasks,
  each at once, delayed or quitting, in any order of due times, which lie on and off
  a full millisecond. The clock ends at `MaxTime` and is set back at most `MaxBacks`
  times, which is once: enough for `_recentTime` to be ahead of it. Its safety is
  proved for any of these.
* **TLQueue, TinyThreadPool.** Three nodes are a sentinel, a value and one that is
  being linked or allocated again. Three tasks meet three workers, so that a
  notification may find nobody, and two clients, so that pushes and notifications
  cross. Proved for any finite sets of threads and nodes; the pool's safety for any
  number of workers but none, of clients and of tasks.
* **ConnPool.** Capacity 3, two idle at most, four connections, so that one may be
  closing while three count; a timeout of 1 with the clock up to 2, set
  back any number of times. Proved for any.
* **Bucket.** Capacity 3, 2 tokens a tick of 2 units, requests of 1 and 4, so that
  one request lends over more than one tick; five units of time. Proved for any.
* **LStack.** Three nodes, three threads, five calls: a thread may stop in a
  `Pop` while others pop two nodes and push one again. `size_` counts modulo 8. Proved
  for any of these.
* **BuddyAllocator.** 8 slots, four levels; every sequence of calls. Proved for every
  power of 2.
* **RCString.** Three strings, and four data, which is as many as three strings
  can need; the count modulo 8. **SignalSlot.** Three slots, two emissions. Both are
  proved for any number; the count must not wrap below the number of strings.
* Deadlock is checked in `threads`, where only a destroyed pool may stop, and in
  `loop_parts`, where only a clock at its bound may. In
  `pools` and `message_loop` the bounds on time and calls end behaviours.

## Fairness

* **EventLoop**: weak fairness of the steps of the owner inside `Run`, and of the
  `Wakeup` of a thread that has pushed: threads keep running, tasks and handlers
  return. A poll that ends is owed only if the eventfd is readable; neither the
  ten-second timeout nor other descriptors are relied upon. Nobody has to call
  `Run`, `QueueTask` or `Quit`.
* **TcpServer**: weak fairness of the steps of the loop, user code returns; strong
  fairness of `HandleWrite(c)`: a socket that is reported writable again and again
  takes bytes in the end. Peers may do nothing for ever. One that stops reading leaves
  its send buffer full, and poll(2) does not report the socket writable; nothing in
  the code ends that wait. `ShutdownCompletes` therefore speaks of peers that go on
  reading (`PeerReads`).
* **The mutexes**: weak fairness of the steps inside `lock`, `try_lock` and
  `unlock`, and owners unlock in the end (for `RecursiveLightMutex`, at every depth
  they are at again and again); strong fairness of the return of
  `WaitForSingleObject`: Windows serves the waiting threads of a semaphore in
  turn as long as no kernel-mode APC reorders them. Without it the code itself does
  not keep a newcomer from overtaking. Nobody has to lock.
* **TinyThreadPool**: weak fairness of the workers' steps (tasks return), of a
  notification that is due and of the destructor once it has begun. `notify_one`
  may wake any of those who wait. Nobody has to post or to destroy the pool.
* **MessageLoop**: weak fairness of the owner's steps, of a thread inside
  `enqueueTask` or `getMessageLoop`, and of the clock, which is set back only
  finitely often. Spurious wakeups may happen and are not relied upon. `TasksBegin`
  and the part of `CallsAnswered` about quitting hold unless the owner is interrupted
  (see [Findings](#findings)).
* In `threads` one formula covers the actions of several components that have the
  same fairness; `at` never changes, so it is the fairness of the component the
  behaviour belongs to.

## Proofs

Checked by TLAPS, for every value of the constants:

| theorem | says | assumptions |
|---|---|---|
| `EventLoopProofs!Invariance`, `TypeCorrect` | `IndInv`, `TypeOK` | `BoundsAssumption` |
| `EventLoopProofs!TasksInOrder` | `QueueOrder` | |
| `EventLoopProofs!NoTaskStranded`, `NoQuitStranded` | `NoStrandedTask`, `NoStrandedQuit` | |
| `PollerProofs!Consistency` | `PollerConsistent` | `FdsAssumption`, `RevsAssumption` |
| `PollerProofs!Refinement` | `Poller` implements `PollSet` | |
| `BufferProofs!BufferInOrder`, `RoomReserved` | `PartsInOrder`, `ReserveSuffices` | `SizesAssumption` |
| `BufferProofs!QueueImplemented` | `Buffer` implements `ByteQueue` | |
| `TimerQueueProofs!WatchedTheorem`, `PunctualTheorem`, `TickedOnceTheorem` | `TimersWatched`, `Punctual`, `TickedOnce` | `UnitsAssumption` |
| `TcpServerProofs!EnsuresTheorem`, `NoDanglingTheorem`, `FinTheorem` | `EnsuresHold`, `NoDangling`, `FinAfterFlush` | `ConstantsAssumption` |
| `TcpServerProofs!RemovedTheorem`, `CallbackTheorem` | the action properties `RemovedWhenIdle`, `CallbackOrder` | |
| `TcpServerProofs!PollSetTheorem` | `PollSetExact` | also `0 \notin Sizes` |
| `TcpServerProofs!UsesPollSet` | what the server does to the poll set are steps of `PollSet` | |
| `MessageLoopProofs!NothingLostTheorem` | `NothingLost` | `ConstantsAssumption` |
| `MessageLoopProofs!OrderTheorem` | `KeepsOrder`: `MessageLoop` implements `TaskOrder` | |
| `ThreadsProofs!MutexTheorem`, `RecursiveMutexTheorem` | `MutualExclusion`, `OneOwner` | `ThreadsAssumption` |
| `ThreadsProofs!PoolTheorem` | `BlockingTasksRun` | also `Threads # {}` |
| `ThreadsProofs!QueueTheorem`, `QueueOrderTheorem` | `NoUseAfterDelete`, the action property `FirstInFirstOut` | `ThreadsAssumption` |
| `PoolsProofs!EmitsTheorem`, `CopyTheorem`, `RateTheorem` | `EmitsSnapshot`, `CopyOnWrite`, `RateKept` | `PoolsAssumption` |
| `PoolsProofs!ConnsTheorem`, `ExpiredTheorem` | `ConnsAccounted`, `NoneExpired` | |
| `PoolsProofs!NodesTheorem`, `StackOrderTheorem` | `NodesAccounted`, the action property `LastInFirstOut` | |
| `PoolsProofs!TreeTheorem` | `TreeExact` | |

Two theorems have a hypothesis of their own, and need it. Without `0 \notin Sizes`,
`PollSetExact` is false: `Send` of an empty string enables writing with nothing to
write. Without `Threads # {}`, `BlockingTasksRun` is false: the constructor of
`TinyThreadPool` accepts 0 workers, and its destructor then leaves the tasks behind.

*EventLoop.* `NoStrandedTask` speaks of a blocked `poll()` only; it is not
inductive, since the state before may already have lost the wakeup. `IndInv` adds
`TasksCovered`: wherever the loop has passed the swap of the queue, every task in
the queue has a wakeup that is in the eventfd, reported, or owed by a thread still
between push and `Wakeup` (tasks the owner queued outside `Run` excepted, the code
promises them nothing), and `Phases`, what `executing_pending_task_`, the batch and
the reported channels are at each point of the loop, and `OnWakeupReads`, that the
eventfd has something to read when it is reported. There is one lemma per action
and conjunct that the action can disturb.

*Poller.* The conjunction of the four relations between vector, table, indices and
channels is inductive. The hard step is `RemoveChannel`: the channel of the moved
entry is found through the real descriptor of the last entry, which
`EntriesMatch` says is in the table; the refinement then follows entry by entry.

*Buffer.* The order of the parts is inductive once the three cases of
`ReserveWritable` are shown to keep the readable part (`Copied` and `Resized` agree
with it on the bytes it moves). `Write` is a `Written` of `ByteQueue`, `ReadFD` too,
in one or two pieces; `Consume` of everything and `ConsumeAll` are `Consumed`.

*TimerQueue.* `TimersWatched` and `Punctual` are inductive with the types;
`EarliestFacts` says that `Earliest` is the first entry of the multimap. `TickedOnce`
says that the timers of the queue, of the batch being run and of those that ticked are
all that were added, but a handler may add timers in the middle of a batch:
`Whereabouts` adds that the batch is empty outside `OnTick`, that the timer whose
handler runs counts as ticked, and that one that does not repeat has left the queue.

*TcpServer.* `ServerInv` follows a connection through its life: in `connections_`,
then in exactly one queued task, then in its `DestroyConnection` (`TasksInv`,
`StagesInv`), polled all the while and watched in the first part (`InterestInv`). The
properties speak of the moment something is used; what makes them inductive is
`ReadyInv`, that a channel yet to be handled belongs to a connection the server still
has, and `DispatchInv`, that `HandleEvents` has at most one handler left that may
close. User code runs inside handlers and tasks; `Where` is the place it returns to,
and the invariant is stated there. `OutputInv` connects `output_`, the interest in
writing and the shutdown. `RemovedTheorem` discharges what `Poller` relies on, and
`UsesPollSet` that the server uses the poll set as `PollSet` specifies it.

*MessageLoop.* The history `pending` has the tasks in the order of posting. `Sorted`
relates it to the queues: the outgoing queue followed by the incoming one is `pending`
without the delayed tasks, in the same order, and no delayed task is behind one still in
the queue. A step adds to the end of both, moves the head of the queue to the delayed tasks,
or begins the head or the first of the delayed tasks (`StepKinds`), and there is one
lemma on sequences for each (`SortedAppend`, `SortedDelay`, `SortedTake`,
`SortedDelayed`). That no task is lost follows by counting (`SortedSize`), the
refinement from the order: what was posted before a task that begins is delayed, and not
due before it. The clock of `TaskOrder` is the latest time the wall clock has shown
(`latest`): a task does not begin before the clock has once shown its due time. More the
code does not give: after the clock is set back, `doDelayedWork` goes by `_recentTime`,
which is then ahead of it. `Numbered` makes the order of the comparator total. For the wakeup, `Awake`
begins where the owner has found both queues empty and lasts until it looks again: what
was posted since is signaled or its poster is about to; the owner, who posts without a
signal, does so in its tasks only (`OwnerPosts`).

*The mutexes.* `MutualExclusion` counts nothing; `LightInv` has the counter equal to
the threads that own or wait, and one token among owner, thread about to release and
semaphore, if the counter is not 0. A step moves one thread from one count to another
(the lemmas on `Count`). In `RecursiveInv` the counter also has the owner's depth, and
a thread is told from others only by `owner_tid_`, which it reads while others write
it: `ThreadInv` says for each place of each thread what it can conclude. That
`owner_tid_` is the owner's is shown of `LightMutex` after `lock` only.

*TinyThreadPool.* `PoolInv` says where a blocking task is (in the queue, with a worker,
done), and that a worker that has ended left the queue empty with the pool going down,
after which nothing is posted. The destructor joins the workers, of which there is at least one.

*TLQueue.* `Chain` follows the pointers with a recursive function, about which nothing
can be shown by induction. `Line` says without recursion that a sequence without
repetition starts at a node and goes on as the pointers do; the positions of such a
sequence are shown to satisfy the function's definition (`LineIsRound`), which only
one function does (`RoundUnique`, by least counterexample), so a line is the chain
(`WalkIsLine`). `QueueInv` says that there is a line from `head_`, and of every thread
what its node is: new and not linked, the last of the line with `tail_` behind, or cut
off and to be deleted (`MineAt`), no two threads having the same (`Apart`). Each step
names the line that follows: the same, with one node at the end (`LineAppend`),
or without the first (`LineTail`); that is `EndsOnly`.

*SignalSlot.* An emission keeps its list although slots come and go; `SignalInv` has the
contents of each list in use. `FreeList` shows that a copy finds an unused one: there
are more lists than emissions, by the cardinality theorems.

*LStack.* There are two lines, of the stack and of the free nodes, and a node is in one
of them or with one thread (`InOnePlace`). A `compare_exchange` that succeeds proves
nothing by itself: what the thread has read from `next` may be old. `Seen` says that the
tag the thread has seen is not later than that of the list, and that an equal tag means
the same head; `Knows` that the `next` it has read is then still right, for a node that
left the list and came back has changed the tag. Hence a `Take`
removes the first of a line, and a `Put` adds to one (`StackTaken`, `StackPutOn`). `size_`
counts modulo `MaxSize` (`CountOn`).

*RCString.* `Counted` equates the count of each data with its owners, strings and calls
under way, or with the mark for data that cannot be shared; `StringControl` and
`StringData` say what a call knows between its steps: that the count it saw as 1 is
still 1 when it writes, that a copy has the contents of the original.

*Bucket.* `RateKept` speaks of now, but tokens are lent to threads that sleep: `Filled`
bounds, for every later time, what was handed out plus what will be due by then. `Lent`
and `Ticked` say that `available_` is what was filled up to `latest_tick_` less what
was handed out and lent. A thread with an old clock takes the filling back, and
`AdjustedFacts` covers both directions; the rounding up of the sleep is
`QuotientLeast`.

*ConnPool.* `size_` is the sum over the threads of what they hold, plus what is idle,
being connected or dropped (`SizeInv`), the last being the places that a move assignment
of a `Conn`, or an exception from `NewConn` that is no `std::exception`, has left nobody to
give back; a sum over a set changes by what changes at one
thread (`SumChange`). `Apart` says that no connection is in two places, so that closing
one leaves the others, and `PoolControl` what a thread between two sections under the
lock has. `RetireTimeoutIdleConnections` stops at the first entry that has not expired,
so what it takes is a prefix of the list (`ExpiredFacts`). `NoneExpired` claims
something only as long as the wall clock has not been set back (`~set_back`). Until then
the list is in the order of last activity (`Sorted`), and neither the idle connections nor
the clocks that calls have read are ahead of the clock (`NotAhead`), so connections come
back no earlier than the clock a `Get` has read.

*BuddyAllocator.* The prover knows nothing of `^`. That powers of 2 double
(`PowerDoubles`) is taken from the library's theorem on the number of subsets of a
set; from it follow that of two powers the smaller divides the larger (`PowerDivides`)
and that there is a factor of 2 between them (`PowerGap`). Node `i` is then the `r`-th of a
level of `p` nodes with `s` slots each (`NodeAt`), and the geometry of the tree follows by
multiplication: of two nodes one lies in the other or they are apart, and what lies in a
node properly lies in one of its children (`TreeFacts`, `ChildFacts`). The rest needs no
arithmetic. `BuddyInv` says that the blocks in the table are nodes that are apart, and that
the tree is `Exact` for them. `ChildrenSay` has the exact value of a node from those of its
children; therefore the exact tree of the blocks after a call satisfies the recursive
definition of what the call computes (`AllocatedTree`, `FreedTree`), which only one
tree does (`RebuiltUnique`, from the last node to the first). The way down ends at a free
node (`DescentFinds`), and the way up from an offset at its block (`BlockFound`).

The sums, lists and least elements need induction over numbers, which the provers cannot
take from a theorem with an operator parameter. It is done by least counterexample:
`LeastOf` gets the least element of a set of numbers from the library's `WFMin`, and the
set is that of the numbers for which the claim fails.

Only model-checked: liveness under fairness (`TaskRuns`, `QuitStops`,
`ClosedIsDestroyed`, `ShutdownCompletes`, `TasksBegin`, `CallsAnswered`, `WaiterLocks`,
`PoolGoesOn`), which is beyond the prover. Every invariant and every safety property of
actions that a passing run checks is also proved.

## Findings

Shown by runs that expect a violation:

* **`TimerQueue::ExtractExpired`** (`timer_queue.cpp:132`) requires that no timer is
  due exactly at the sentry, but `lower_bound` leaves such a timer in place.
* **`Poller::UpdateChannel`** (`poller.cpp:43`) says "Ignore this pollfd" where it negates
  the descriptor, but it does so on every update without events and never undoes it
  on one with events: a second update without events makes poll(2) watch the entry
  again, and a channel that is enabled again stays ignored. `TCPConnection` does
  update twice, in `HandleClose` and in `DestroyConnection`; only the removal that
  follows hides it (`PollSetExact` holds).
* **`TCPConnection::Send`** "Should be thread-safe" (`tcp_connection.h:48`), but the
  task it queues from another thread may run after the connection is destroyed.
* **`Bucket::AdjustAvailableTokens`** asserts `current_tick >= latest_tick_`
  (`bucket_limiter.cpp:108`), but its callers read the clock before they have the
  mutex. A release build keeps the rate all the same (`RateKept`).
* **`LightMutex::unlock`** asserts `owner_tid_ == GetCurrentThreadId()`
  (`light_mutex.h:54`), but `try_lock` does not set `owner_tid_`: the assert fails in
  the unlock that follows. In a release build nothing depends on it.

Seen on the way, and kept in the models:

* `ConnPool` keeps its idle list with "Most inactive conn is at the head"
  (`pool.h:276`), by the time of `system_clock` (`pool.h:56`). When that clock is set
  back, the next connection given back goes behind others with a later time:
  retiring stops before it, and `Get` may reuse it expired. `NoneExpired` claims
  nothing after the clock was set back (`set_back`), which it may be at any time.
* `SyncEvent` (`SyncEvent.java:26,42`) sets the interrupt flag again when its wait is
  interrupted, so the next wait throws at once, before it gives up the lock: the
  owner goes round with the lock held and `signal` never returns. No task begins and
  no quit is seen any more; `TasksBegin` and `QuitEnds` except an interrupted owner.
* The move assignment of `Conn` (`pool.h:119`) drops the connection it overwrites
  without telling the pool, and `Get` (`pool.h:197`) gives its place back only if
  `NewConn` throws a `std::exception`: in both cases `size_` stays up (`SizeCounts`
  counts them as `dropped`).
* `LStack::size_` may wrap below 0 for a moment, when a `Pop` counts before the
  `Push` of its node has (`SizeSettles` speaks of quiet states).
* `SignalImpl::Invoke` (`signals.h:101-108`) lets the bound object go before it
  calls the function that relies on it.
* `CopyIfNeeded` and the destructor of an emission's list only meet in the
  reference count of the list, which `unique()` reads without ordering; the model
  takes the count as it is.

## Not modelled

Outside NetworkInfra:

* `ConnPool` with `max_reused` 0, for which `Put` takes the front of an empty deque
  (`pool.h:220`); `PoolAssumption` excludes it.
* `Bucket` reads `system_clock` too (`bucket_limiter.h:14`). That it is set back is left
  out: the clock then shows old ticks for a while and fewer tokens are given out
  until it has caught up, so `RateKept` is not in danger.
* A task of `MessageLoop` that clears the interrupt status of its own thread, which would
  end the effect of an interrupt that came while the task ran.
* A task of `TinyThreadPool` that posts when the pool is already shutting down: the
  `ENSURE` at `tiny_thread_pool.h:87` ends the process.
* `ThreadSafeStringData` reads `capacity_` in `Reserve` before it was ever written
  (`thread_safe_rc_string.cpp:23,111`): what follows is undefined. `RCString` models
  the sharing of data and leaves their buffers out. `rc_string.cpp` is the version
  for one thread.
* `NearestUpperPowerOf2` (`buddy_util.h:25`) spreads bits over 32 places only; more
  than 2^32 slots are beyond it. The moves of `BinManager` are not used by
  `BuddyAllocator`.
* `ObjectFactory` of Object_Pool erases by key when an object ends
  (`object_pool.h:66`), which may be the entry of its successor; nothing states what
  should happen, and the project is otherwise a map under a mutex.
* The chat server of learn-golang: a message to a client whose writer has stopped
  blocks its sender for good; there is no text to hold that against.

In NetworkInfra: a `Quit` before `Run` has stored `is_running_`, which `Run`
overwrites; an `accept4` that fails (the `ENSURE` ends the process); `Send` of
nothing, after which write(2) returns 0 and is taken for a failure; a `TCPServer`
destroyed with live connections; a server without a connection handler, which
`EstablishConnection` tests for and `DestroyConnection` (`tcp_connection.cpp:69`) calls
untested; the wrapping of `next_conn_id_` after 2^32
connections; SIGPIPE. `is_running_` is a plain `bool` stored by other threads: the
calls between two tests in `Run` make a build reload it, and it is modelled as read
where the code reads it. The byte-order conversions and the arithmetic of
`Buffer::Iterator` do not change a buffer; `operator-(Iterator, n)`
(`buffer.h:235`) returns its argument unchanged and is not used.

## Plan

Done: all modules above; the theorems above.

Models that could follow: BlockingQueue with ActiveThread and CountDownLatch,
Thread_Safe_Observer with a client that locks, backoff-retry.
