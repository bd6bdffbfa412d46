# Bun's concurrent core in TLA+

Models of the code of Bun in which the order of steps decides about
correctness: the work-stealing thread pool, the futex event its workers sleep
on, the lock-free queue between threads, the thread that runs `Bun.build()`, the
reader-writer lock down to its futexes, the coordinator of `bun test --parallel`
with its worker processes, and the request queue of a MySQL connection.  TLC
checks the modules on small instances; TLAPS proves the invariants for every
instance.  Paths are relative to the root of the repository.

## 1. The system

Bun is a JavaScript runtime, bundler, package manager and test runner.  The
greater part of its code is sequential work on large data (parsers, printers,
bindings to JavaScriptCore and C libraries).  The part in which the order of
steps decides about correctness is small and shared by everything else:

| Component | State | Operations | Hard because |
|---|---|---|---|
| `src/threading/ThreadPool.rs` `ThreadPool`, `Thread` | packed `Sync` word (state, notified, idle, spawned), stack of registered threads, wait group, join event | `schedule`, `schedule_inside_thread_pool`, `warm`, `wait_for_all`, `wake_for_idle_events`, `drop`; per worker `wait`, `pop`, run, `unregister` | workers, the owner and callbacks change one word and each other's queues; the pool is freed under its workers; OS threads may not start |
| `Event` (same file) | one `u32` | `wait`, `notify`, `shutdown` | lost wake-ups between the word and the kernel; a timeout that fires once |
| `node::Queue` (same file) | stack word with two flag bits, cache | `push`, `try_acquire_consumer`, `pop`, `release_consumer` | one consumer at a time, hand-over of the rest |
| `node::Buffer` (same file) | ring with `u32` head and tail | `push`, `pop`, `consume`, `steal` | thieves copy slots that the owner overwrites; indices wrap |
| `src/threading/unbounded_queue.rs` | `back`, `front`, intrusive links | `push`, `push_batch`, `pop`, `pop_batch`, `is_empty` | a push is two steps, pops see the state in between |
| `src/bundler/BundleThread.rs` | queue, waker, ready event | `enqueue`, the loop of the thread | check, then sleep |
| `src/threading/{Mutex,Condition,Semaphore,RwLock}.rs` | a word of readers and writers, a mutex, a semaphore of a mutex and a condition, each with its futex | `lock`, `try_lock`, `unlock`, `lock_shared`, `try_lock_shared`, `unlock_shared` | decisions on a word that has changed since; signals sent between a check and a sleep |
| `src/threading/{WaitGroup,ResetEvent,channel}.rs` | counters, flags | wait, finish, set, send | memory used after the last signal |
| `src/runtime/cli/test/parallel/` | per slot a range of files, the file in flight, `alive`, the exit status, a channel; totals | `drive`, `assign_work`, `on_frame`, `on_process_exit`, `try_reap`, `reap_worker`, scale up, bail, abort; the loop of a worker | processes die at any point; the exit and the end of the pipe come in either order; frames arrive from the dead; a process cannot be spawned |
| `src/sql_jsc/mysql/` | queue, two counters, `is_ready_for_query`, `waiting_to_prepare`; status of queries and shared statements; write buffer, back-pressure | `do_run`, `advance`, `flush_queue`, `auto_flush`, `on_data`, `on_writable`, `on_close`, timers | answers are applied to whatever is at the head; one step of several fails; the flusher may not be registered |
| `src/http`, `src/install`, `src/jsc/event_loop.rs`, `src/watcher` | sockets, manifests, task queues | | clients of the queues and of the pool |
| `bunestro/rust/src/main.rs` | package queue, first error | parallel install, one retry of a run | subprocesses that fail |

How they interact: clients push tasks to a `ThreadPool` from any thread;
workers run their callbacks, which may schedule more.  Results travel back
through `UnboundedQueue`s, each with a waker for the consuming thread.  The
bundler owns a pool, warms it, pushes clean-up tasks to the *idle queue* of each
worker, wakes the pool and drops it.  The test coordinator and the MySQL
connection are single-threaded: their concurrency is that of callbacks with
processes, pipes, a server and a socket.  `PROJECT.json` lists the components, also
those that are not modelled and why, and the hazards with their lines.

What has to be right:

* **pool**: every scheduled task runs, once; `wait_for_all()` means all done;
  there is at most one *waking thread*; the counters in the word are exact;
  `drop()` returns, and only when nobody uses the pool; a worker's stack outlives
  the pointers to it;
* **event**: no sleeper is forgotten, no token is left lying next to sleepers,
  `shutdown()` wakes everybody;
* **buffers, queues**: no node is lost, duplicated or torn; FIFO order where it
  is promised; consumers do not spin for ever;
* **bundle thread**: no lost wake-up, every build completes;
* **reader-writer lock**: readers and a writer are never in together, no permit
  of the semaphore is left for a later writer, no wake-up is lost;
* **test coordinator**: every file is counted once, delivered results are never
  charged to a crash, the run ends whatever dies;
* **MySQL queue**: an answer goes to the query that asked, the counters are
  exact, every promise is settled.

## 2. Modules

```
Event ─────────────┐                       Fifo            WorkBuffers
                   │ INSTANCE                ▲ refined by     ▲ refined by
                   ▼                         │                │
               ThreadPool              UnboundedQueue      RunBuffer
                                             │ INSTANCE
                                             ▼
                                        BundleThread

FutexMutex ──INSTANCE──▶ Semaphore ──INSTANCE──▶ RwLock      TestCoordinator
  └──────────────────────INSTANCE──────────────────▲         MySQLQueue
```

The theorems about `M` and their proofs are in `MProofs`, for `Event`, `ThreadPool`,
`RunBuffer`, `UnboundedQueue`, `FutexMutex`, `RwLock` and `TestCoordinator`; those
about `BundleThread` and `MySQLQueue`, the two queues of what JavaScript asks for
asynchronously, are in `RequestProofs`.  Where one module composes another, its
proofs instantiate the other's proofs.

In the modules of threads a step is one access of shared memory.  A compare-and-swap loop
whose failed rounds change nothing is one step, the successful one.  Work on
locals is attached to the access before it.  Memory is sequentially consistent:
whether the `Ordering` arguments suffice is *not* checked.  "Mutant" definitions
are plausible bugs; replacing the definition that follows by the mutant makes
the named property fail.

### Event

`state` is `Event.state`; `wpc` is where a waiter is in `wait()`: `check`
(looking at the word), `futex` (the word was made `WAITING`, the system call not
yet made), `asleep`.  `acquireWith` and `shrunk` are the locals `acquire_with`
and `has_shrunk_memory`.  `toWake` holds the futex wake that the swap in `wake()`
still owes.  The futex (external) sleeps only if the word is `WAITING`; the
first sleep of a call may time out, any sleep may end spuriously.  `closed` is a
history variable, not in the code: `shutdown()` has been called.

### ThreadPool

`sync` is the `Sync` word as a record.  `pc` says where each thread is, `ret`
where it goes after `schedule()` or `notify()`; `Main` is the owner.  The other
variables are the fields and locals whose names they bear.  Queues and buffers
are *sets* of tasks with a consumer: no property depends on the order in which
tasks are taken, so any member may be next.  Buffers may give a thief or an
owner fewer nodes or slots than there are, since the code decides on a head or
tail it read earlier.  `Fill` takes what `consume()` pops from a queue in one step, at
its last look.

| Code | Actions |
|---|---|
| `schedule_impl` | `Add`, `Push` or `PushBuffer`, `Overflow`, `PushOverflow`, then `Notify` |
| `notify`, `notify_slow` | `Notify`, `NotifySlow`, `EventNotify`, `EventWake`, `Spawn`, `SpawnFail` |
| `wait` | `WaitError`, `WaitConsume`, `WaitIdle`, `WaitSleep`, `DrainAndSleep`, `Sleep`, `SleepInterrupted` |
| `Thread::pop`, `consume`, `steal` | `PopBuffer`, `PopOwnQueue`, `PopPoolQueue`, `CountThreads`, `StealQueue`, `Fill`, `StealBuffer`, `StealBufferEmpty`, `Publish`, `Release`, `PopNone` |
| `Thread::run` | `Call`, `Finish`, `RunDrain`, `ExitDrain` |
| `register`, `unregister` | `Register`, `Unregister`, `NotifyJoin`, `WakeJoin`, then `JoinStep` |
| `join_event.wait()` and the `notify()` after it | `JoinPublish`, `JoinFutexWait`, `JoinInterrupted`, `JoinConsume`, `JoinNext`, `JoinWake` |
| owner | `schedule`, `wait_for_all`, `warm`, `push_idle_task`, `wake_for_idle_events`, `drop`, `shutdown`, `EventShutdown`, `join`, `JoinStep(Main)`, `JoinChain` |

`idle_event` is an instance of `Event`.  The join events, of the pool and of each
Thread, have one waiter each: `joinState` is the word, `joinAsleep` says who sleeps in
the futex.  Their `notify()` is two steps, the swap (`NotifyJoin`, `JoinNext`) and, if
the word was `WAITING`, the futex wake (`WakeJoin`, `JoinWake`), so that the waiter can
see the token and leave in between; a word that changes before the futex call
(`EAGAIN`) leads to another look.  The one exception is `SpawnFail`, whose `notify()`
never meets a closed pool.  The wait group is a counter that `wait_for_all()` waits for.  The owner uses the pool as the bundler does:
`warm()` comes before the first `schedule()`, idle tasks are pushed when all
work is done, and `drop()` is called once.  With `DropEarly` the owner may drop
the pool while tasks are queued; without it, only when the wait group is zero.

### RunBuffer and WorkBuffers

`WorkBuffers` is what `ThreadPool` assumes of the run buffers: bags of at most
`CAPACITY` nodes from which thieves take up to half.  `RunBuffer` is the ring:
each slot that is written or copied is a step of its own, indices wrap at
`Modulus`, and `steal()` may copy garbage that its CAS then rejects.  The
refinement maps the window from head to tail to the bag, and the unpublished
slots and the rest of the list to the worker's hand.  `NoLap` is a bound: while a
thief holds a head that it has loaded, that head does not move by a whole turn of
the indices (2^32 in the code, which takes this for granted).

### UnboundedQueue and Fifo

`PushSwap` and `PushLink` are the two halves of a push; `pop()` and `pop_batch()`
take one step for every access.  `pending` is a history of the nodes that went in
and have not been returned; the refinement shows that it behaves as a FIFO queue.
Returning a node that is not in it (`Without`) leaves a history that no FIFO queue has,
so that "each once" is part of what `IsFifo` says.
One consumer: this is how all users in the repository use it ("lock-free MPSC").

### BundleThread

Composes `UnboundedQueue` (single pushes, `pop()`) with an eventfd waker
(`signal`).  `Generate` is a whole build, which completes itself or fails; then
`CompleteFailed` is `thread_main()` completing it.  The generation number is left out.

### FutexMutex, Semaphore, RwLock

The build for Linux on x86.  `FutexMutex` is `FutexImpl`: the word and, in
`mpc`, where each thread is (`slow`: before the load of `lock_slow()`, `swap`,
`futex`: before the system call, `asleep`, `held`, `wake`: an unlocker that owes a
wake).  `Semaphore` composes it with `Condition`: `waiters` and `signals` are the
halves of its word; of the epoch only matters whether a thread's copy is out of
date (`stale`), which excludes, as the code's comment does, an epoch that wraps
while a waiter is suspended.  `RwLock` composes both; `state` is the word of
`RawRwLock` as a record, and `raced` is a history variable, see below.

| Code | Actions |
|---|---|
| `Mutex::lock`, `lock_slow`, `unlock` | `TryLock`, `LockSlow`, `SlowLoad`, `SlowSwap`, `FutexWait`, `Unlock`, `FutexWake`, `Spurious` |
| `Condition::wait`, `signal` | `WaitEpoch`, `WaitRegister`, `Unlocking`, `WaitSleep`, `WaitReload`, `WaitCheck`, `Locking`; `SignalReserve`, `SignalBump`, `SignalWake` |
| `Semaphore::wait`, `post` | `Enter`, `Locking`, `TakePermit`, `AddPermit` and the signal |
| `RawRwLock::lock`, `unlock`, `try_lock` | `LockAnnounce`, `Locking`, `LockSet`, `LockWait`; `UnlockClear`, `Unlocking`; `TryLock`, `TryLockLoad`, `TryLockSet` |
| `lock_shared`, `try_lock_shared`, `unlock_shared` | `LockShared`, `LockSharedAdd`; `TryLockSharedLoad`, `TryLockSharedCas`, `TryLockSharedMutex`; `UnlockShared`, `UnlockSharedPost` |

### TestCoordinator

The state is one record `c` and each function of `Coordinator.rs`, `Worker.rs` and
`FileRange.rs` an operator from states to states under its own name, so that a
callback, with all that it calls, is one action: `OnReady`, `OnFileDone`,
`OnAggregates` (`on_frame`), `OnCorruptFrame` (`mark_done` after a bad frame),
`OnChannelClose`, `on_process_exit`, and of `drive()` `DriveStart`,
`maybe_scale_up`, `abort_all`, `DriveEnd`.  The other process is modelled as well
(`WorkerReady` to `WorkerExit`, from `runner.rs`), with its two pipes as sequences.
Faults: a worker exits or panics at any point and loses what it had not yet
written (`WorkerDies`), test code corrupts the channel (`WorkerCorrupts`), a
process cannot be spawned, the user interrupts.  `counted`, `crashed`, `written`
and `flushed` are history.  Output, snapshots and coverage data are left out, but
not that they arrive (`fragments`).

### MySQLQueue

Again one record `m`, and each function of `MySQLRequestQueue.rs`, `MySQLQuery.rs`,
`MySQLConnection.rs` and their `JS…` wrappers an operator.  Actions are the calls
of JavaScript (`DoRun`, `DoClose`), the deferred flush (`on_auto_flush`), the
events of the socket (`on_writable`, `OnPacket`, `OnDataDrain`, `OnDataEnd`,
`on_close`), the timers (`on_timeout`), and the server, which answers each command
with result sets or an error (`AnswerPrepare` to `AnswerLast`).  `on_data()` is
three steps because JavaScript runs in its microtasks.  Counters are `u32` modulo
`U32`.  A packet carries the query that it answers, which the code does not see
and `HeadIsAnswered` compares with the head.  `promise`, `muted`, `skipped` and
`derailed` are history.  The loop of `advance()` and the pass after it are turns
(`advance_turn`, `drop_turn`) that a recursive function iterates as often as the queue
is long (`Iterate`); each turn that does not end the loop brings the offset closer to
the end of the queue.

## 3. Runs

| Run | Instance | Shows |
|---|---|---|
| `event_tokens` | 3 waiters, 1 notifier, 1 closer | `SleepersCovered`, `TokenDelivered` |
| `event_shutdown` | 2 waiters, 1 notifier, 1 closer | *violation* of `ShutdownWakesSleepers` |
| `pool_safety` | 2 workers, 1 task with 3 children, buffers of 2, `warm(1)`, 1 refused thread, 1 idle task, early drop | `OneWakingThread`, `SyncCounts`, `ExactlyOnce`, `PoolOutlivesWorkers`, `StacksOutliveAccess`, `IdleTasksRunBeforeFree`, `WaitForAllMeansDone` |
| `pool_liveness` | 2 workers, 2 batches | `ScheduledTasksRun`, `DropReturns` |
| `pool_join` | 1 worker, 1 task | *violation* of `JoinNotifyOnLivePool` |
| `pool_idle` | 2 workers, 1 task, 1 idle task | *violation* of `IdleTasksRun` |
| `run_buffer` | 2 rings of 4 slots, indices modulo 8 starting at 6, 6 nodes, lists of up to 3 | `RingSizes`, `ImplementsBuffers` |
| `unbounded_queue` | 3 producers, 4 nodes, chains of up to 2 | `IsFifo`, `OldBackLive`, `PopSeesReturnedPush`, `IsEmptyHonest`, `PopReturns` |
| `bundle_thread` | 2 callers, 3 builds | `NoLostWakeup`, `EveryBuildCompletes` |
| `rw_lock` | 3 threads, 4 acquisitions of any kind | `WriterExclusion`, `NoStrayPermit`, `EveryoneReturns` |
| `test_coordinator` | 3 files, 2 slots, `--bail` 0 and 1, 2 faults, 1 failed spawn | `FilesPartition`, `AllFilesReported`, `DeliveredResultsCount`, `OneRunOutstanding`, `DriveTerminates` |
| `mysql_queue` | 1 text query, 3 that share a statement, 1 of them not bindable, up to 2 result sets | `HeadIsAnswered`, `CountsRunning`, `FlushIsDue`, `EveryQuerySettles` |

Each also checks the type invariant of its module, except for the violations
and `pool_liveness`.

**Why the bounds are enough.**  Two workers suffice for stealing, for handing on
the waking state, for one worker to sleep while the other is woken, and for a
chain of join events.  Three children and buffers of two make a buffer overflow,
so that a worker's own queue is used and stolen from.  Three waiters of the event
allow one that sleeps, one that was woken and one that arrives.  The indices of
the rings start two below `Modulus`, so they wrap within the first operations;
three rings of two slots with four nodes were checked too.  `NoLap`
excludes the case that a thief sleeps while a whole turn of 2^32 indices passes.
A bound on the number of nodes would not: stolen nodes enter other rings again.  On
two rings of two slots with indices modulo 4 and six nodes `ImplementsBuffers` holds
with `NoLap` and fails without it.
Three producers allow two pushes behind one that has swapped and not yet linked.
Three threads of the lock allow a writer that holds the mutex and waits, a reader
that leaves and posts, and a third that comes in or tries; four acquisitions let
one of them come back and find what the others left.  Three files in two slots
make ranges of one and two files, so that there is one to steal and one slot may
never be spawned; two faults let a replacement die too, or both workers.  Of the
MySQL queries, two behind a failing head are needed for one to be skipped and a
later one to be sent.  `SYMMETRY` is used in `pool_safety` and `run_buffer` only, which check no liveness.

**Deadlock** is checked except where the system may stop: `pool_safety`, where
`DropEarly` and the sleeper that `Event.shutdown()` misses let the owner wait for
ever; `run_buffer`, where all nodes are used up; `bundle_thread`, where all
builds are done; `rw_lock`, when the acquisitions are used up; `test_coordinator`,
when the run has ended; and `mysql_queue`, when the connection is closed.

**Fairness.**  Threads that can run do run (weak fairness of each thread's
steps), callbacks return, and the first sleep in `Event.wait()` times out.  Strong
fairness of the CAS in `UnboundedQueue.pop()` says that `compare_exchange_weak`
does not fail spuriously for ever.  Nobody is required to start an operation, to
refuse a thread or to interrupt a sleep.  In `RwLock` guards are dropped.  In
`TestCoordinator` the assumption is one weak fairness of all callbacks and
processes together: something that is due happens, in any order; test files
end, as the runner has timeouts; nothing is assumed of the clock, of interrupts
or of faults.  In `MySQLQueue` the same is assumed of the event loop and the
server; timers, the peer's close and JavaScript need not act.  `MySQLFairness` is
`WF_m(Work)` with its `ENABLED` written out as `Due`, which TLC evaluates faster.

### What the violations show

1. `Event.shutdown()` promises that it "wakes up any threads currently waiting
   on the Event" (`ThreadPool.rs:1437`).  If it follows a `notify()` whose token
   has not been consumed, it replaces `NOTIFIED`, not `WAITING`, and wakes nobody.
   The notified thread returns; a second sleeper is saved by its 10 s timeout, if
   that has not yet fired; otherwise it sleeps for ever, and `drop()` with it.
   `DropReturns` names this as the one exception.
2. `unregister()` says that the pool "is live until this notify wakes the joiner"
   (`ThreadPool.rs:976`).  But the preceding `fetch_sub` already lets `join()` take
   its fast path, return from `drop()` and free the pool.  `PoolOutlivesWorkers`
   shows that nothing but that one call, its swap and its futex wake, is affected.
3. `wake_for_idle_events()` says "Wake all the threads to check for idle events."
   All leave the futex, one consumes the token, the others sleep again inside
   `Event.wait()` without looking at their idle queue.  `IdleTasksRunBeforeFree`
   shows that such tasks still run before `drop()` returns.

Further observations.  `unregister()` and `join()` say that the Thread they notify is
"still blocked in `join_event.wait()`" and outlives "the duration of this `notify()`
call" (`ThreadPool.rs:1000`, `1025`).  That is so for the swap, which
`StacksOutliveAccess` shows, and not for `Futex::wake(&self.state)` after it: a worker
publishes `WAITING` and has yet to make its futex call; the notifier swaps the word and
finds `WAITING`; the futex call fails with `EAGAIN`, or is never made, the worker
consumes the token, returns, and its stack goes; then the wake is asked for at an address
of that stack.  `JoinWakeOnLiveStack` in `ThreadPool` states the comments' claim; TLC
refutes it when it is put in place of `JoinNotifyOnLivePool` in `MCThreadPoolJoin.cfg` (one
worker, 36 states).  A wake of a private futex only uses the address as a key, so what
can go wrong is a spurious wake-up of whoever uses that memory next.

A `notify()` that swaps the word after `shutdown()` has
replaces `SHUTDOWN` by `NOTIFIED`, so that "all future wait()'s" (`ThreadPool.rs:1436`)
need not return; `Event` allows this, and the pool meets it only when it is dropped
while a notification is under way.  And if the OS refuses to start the first
thread (`ThreadPool.rs:818`), the word stays `Signaled` and `notified`, so later
calls of `schedule()` return early and start no thread; no comment or test says
what should happen then.

*Lock.*  "Either many shared `&T` or one exclusive `&mut T`" (`RwLock.rs:151`) has
one exception.  `try_lock()` loads the word, finds no readers, and sets
`IS_WRITING` with a second access (`RwLock.rs:63`); a `lock_shared()` between them
succeeds, and both are in.  `raced` records it; `WriterExclusion` and
`NoStrayPermit` show that nothing else breaks the exclusion, and
`EveryoneReturns` that even then nobody is left asleep.

*Coordinator.*  A `Ready` frame decoded after the exit of its worker was seen
dispatches a file into the dead worker, since `OnReady` does not look at `alive`
as `OnFileDone` does (`Coordinator.rs:340`).  The file is then reported as crashed
though it never ran, and if the worker had panicked the whole run aborts.  The
file is counted once in either case.  A worker that dies before it is ready is
respawned without a limit; `MaxFaults` bounds this here.  A test that closes fd 3
and lives on leaves the coordinator waiting for an exit: this is outside of the
faults of the model.

*MySQL.*  (a) When the head fails in `advance()`, it is discarded and `offset` moves
on all the same (`MySQLRequestQueue.rs:191`): the next query is skipped, a later one
may be sent first, and its answer is applied to the skipped one (`derailed`).
(b) `run()` marks a query as failed before `advance()` reports the error
(`JSMySQLQuery.rs:443`), so the rejection finds it completed and its promise is
never settled (`muted`).  (c) After a row that cannot be decoded in a result set
that is not the last, `flush_queue()` drops the query, and the remaining result
sets go to the next one (`derailed`).  The properties name these exceptions and
show that there are no others.  (d) `docs/runtime/sql.mdx:140` speaks of query
pipelining, but `is_ready_for_query` is reset by every command written before
`can_pipeline()` is asked, so at most one is in flight; `CountsRunning` shows it.

## 4. Proofs

| Theorem | States | Assumes |
|---|---|---|
| `EventProofs!EventTypeCorrect` | `EventSpec => []EventTypeOK` | nothing |
| `EventProofs!NoSleeperForgotten` | `EventSpec => []SleepersCovered` | nothing; it speaks of the time until `shutdown()` is called |
| `ThreadPoolProofs!PoolTypeCorrect` | `Spec => []TypeOK` | the assumptions named in `ThreadPool` |
| `ThreadPoolProofs!WakingThreadUnique` | `Spec => []OneWakingThread` | the same |
| `ThreadPoolProofs!CountersAreExact` | `Spec => []SyncCounts` | the same |
| `ThreadPoolProofs!PoolIsLeftFirst` | `Spec => []PoolOutlivesWorkers` | the same |
| `ThreadPoolProofs!StacksAreLeftAlone` | `Spec => []StacksOutliveAccess`, which exempts the futex wake of a join event | the same |
| `ThreadPoolProofs!IdleTasksAreRun` | `Spec => []IdleTasksRunBeforeFree` | the same |
| `ThreadPoolProofs!TasksRunExactlyOnce` | `Spec => []ExactlyOnce` | the same |
| `ThreadPoolProofs!WaitForAllIsHonest` | `Spec => WaitForAllMeansDone`, an action property | the same |
| `UnboundedQueueProofs!QueueTypeCorrect` | `QueueSpec => []QueueTypeOK` | `QueueAssumption` |
| `UnboundedQueueProofs!QueueIsFifo` | `QueueSpec => IsFifo`, the refinement of `Fifo`: in order, none twice | the same |
| `UnboundedQueueProofs!OldBackIsLive` | `QueueSpec => []OldBackLive` | the same |
| `UnboundedQueueProofs!ReturnedPushIsSeen` | `QueueSpec => []PopSeesReturnedPush` | the same |
| `UnboundedQueueProofs!EmptyIsHonest` | `QueueSpec => []IsEmptyHonest` | the same |
| `RequestProofs!BundleTypeCorrect` | `BundleSpec => []BundleTypeOK` | `BundleAssumption` |
| `RequestProofs!WakeupIsNotLost` | `BundleSpec => []NoLostWakeup` | the same |
| `RequestProofs!MySQLInvariant` | `MySQLSpec => []MySQLInv` | `MySQLAssumption` |
| `RequestProofs!MySQLTypesHold` | `MySQLSpec => []MySQLTypeOK` | the same |
| `RequestProofs!HeadsAreAnswered` | `MySQLSpec => []HeadIsAnswered` | the same |
| `RequestProofs!CountsAreRight` | `MySQLSpec => []CountsRunning` | the same |
| `RequestProofs!NoFlushIsForgotten` | `MySQLSpec => []FlushIsDue` | the same |
| `FutexMutexProofs!MutexTypeCorrect` | `MutexSpec => []MutexTypeOK` | nothing |
| `FutexMutexProofs!MutualExclusion` | `MutexSpec => []MutexExclusion` | nothing |
| `FutexMutexProofs!NoSleeperForgotten` | `MutexSpec => []SleepersAreOwedAWake` | nothing |
| `RwLockProofs!LockUsesMutex` | `RwSpec => lockMutex!MutexSpec` | nothing |
| `RwLockProofs!SemaphoreUsesMutex` | `RwSpec => semMutex!MutexSpec` | nothing |
| `RwLockProofs!RwTypeCorrect` | `RwSpec => []RwTypeOK` | `RwAssumption` |
| `RwLockProofs!WriterIsAlone` | `RwSpec => []WriterExclusion` | the same |
| `RwLockProofs!PermitsAreAwaited` | `RwSpec => []NoStrayPermit` | the same |
| `TestCoordinatorProofs!CoordTypeCorrect` | `CoordSpec => []CoordTypeOK` | `CoordAssumption` |
| `TestCoordinatorProofs!FileIsInOnePlace` | `CoordSpec => []FilesPartition` | the same |
| `TestCoordinatorProofs!FinishedRunIsComplete` | `CoordSpec => []AllFilesReported` | the same |
| `TestCoordinatorProofs!PipesInvariant` | `CoordSpec => []PipesInv` | the same |
| `TestCoordinatorProofs!WorkerHasOneRun` | `CoordSpec => []OneRunOutstanding` | the same |
| `TestCoordinatorProofs!WrittenResultsCount` | `CoordSpec => []DeliveredResultsCount` | the same |
| `RunBufferProofs!RingInvariant` | `RingSpec => []RingInv` | `RingAssumption` |
| `RunBufferProofs!RingTypesHold` | `RingSpec => []RingTypeOK` | the same |
| `RunBufferProofs!RingSizesHold` | `RingSpec => []RingSizes` | the same |
| `RunBufferProofs!RingsImplementBuffers` | `RingSpec => ImplementsBuffers`, the refinement of `WorkBuffers` | the same |

They hold for any number of waiters, workers, tasks, producers, nodes, threads,
files, slots, queries and statements.  The assumptions say that null is not a node,
that sets that are counted are finite, and that bounds are natural numbers.  Five say more.
`ThreadsAssumption` has `CAPACITY` at least 2 (the code has 256).
`OwnersAssumption` has each task in the batch of one scheduler only, as an
intrusive node can be in one list only: the batches of `Main` and of the callbacks
are disjoint.  `CoordAssumption` has `1 < K <= N`: `run_as_coordinator()` runs the
files itself otherwise.  `RingAssumption` has `CAPACITY` at least 2 and a proper
divisor of `Modulus` (256 and 2^32): otherwise a slot's place would change when an
index wraps.  `MySQLAssumption` has `U32` at least 2 (2^32), so that a counter can be 1.

*The event.*  The inductive invariant `CoveredInv` adds the types and
that the word is not `SHUTDOWN` before `shutdown()` (`NotYetClosed`): after it a
woken thread returns without leaving `WAITING` behind, and the word may stop being
`WAITING` without anybody being woken, which is what the first violation is about.  The
interesting step is `FutexWake`: it pays back a wake that is owed, so either
nobody was asleep or somebody now is about to look at the word with
`acquireWith = WAITING`.

*PoolTypeCorrect.*  `TypeOK` alone is not inductive: `Call` applies `Kids` to the
task that the worker holds, and a thief takes from its victim's buffer.
`LocalsOK` says that the locals are there wherever the code uses them (a node
from `pop()` to `finish()`, a victim while stealing, a queue while consuming).
`TypeInv` joins both with the type invariant of `idle_event`, whose steps are
shown to be steps of `Event`, so that `EventTypeStep` can be used.

*WakingThreadUnique.*  Inductive given `TypeInv`; most actions touch neither the
state nor `is_waking`.  `NotifySlow` gives the waking state up or turns it into
`Signaled` with `notified` set, `WaitConsume` turns a signal into the one waking
thread, `WaitIdle` gives it up.

*Shutting the pool down* (`JoinInv`, for the four theorems from `CountersAreExact`
to `IdleTasksAreRun`).  The counts are exact (`SyncCounts`); the word says
`Shutdown` from the swap in `drop()` on, and workers leave only then (`MainOK`,
`LeavingOK`); whoever lets `join()` go on has seen `spawned` reach zero
(`JoinOK`), so with the counts nobody is left.  For the stacks, `LinksOK` says that
`threads` and `next` form chains that share nothing, and `TokensOK` that the word of a
thread's join event is `NOTIFIED`, or its worker past `wait()`, only once all threads
above it on the stack have made their swap.  A thread that has left is thus
reached by nobody, except by the futex wake of the one that swapped its word: that
exception is part of `StacksOutliveAccess`, since the code leaves it open.  `IdleOK` says that
an idle task is in one queue, not yet run, and that a worker past its last drain
has none.  Most actions cannot disturb any of this: `Quiet` says what they leave
alone and one lemma does for all of them.

*Tasks* (`TaskInv`, for `TasksRunExactlyOnce` and `WaitForAllIsHonest`).  `hold`
maps every place (a list being scheduled, a queue, a grabbed batch, a run buffer, a
running node) to its tasks; places are disjoint, and a step only moves tasks
between two of them.  `TaskOK` follows a task from the batch it is put into,
through `wait_group.add()`, to its callback; the batch of a callback is nowhere
before that callback runs, which is where `OwnersAssumption` is used.  `HandsOK` says
what a thread has in its hands at each point of the code.  The wait group is the
number of tasks that are scheduled and still somewhere: a callback's children are
added while the callback's own node is still counted, so zero means done.

*The queue* (`QueueInv`).  There is a `k`, the length of a batch that `pop_batch()` has
cut off, such that every node leads to the next or a push that is under way
will see to it (`LinksOK`), each such push has a place of its own (`PushesOK`), and
`front`, `back` and the consumer's locals point to where the pending nodes begin and
end (`EndsOK`, `ConsumerOK`).  All properties of the queue follow, and each step is
a step of `Fifo` or leaves `pending` alone.

*The bundle thread* (`BundleInv`).  The invariant of the queue, instantiated for single
pushes, that an `enqueue()` is in its push exactly when the queue says so, and that
`NoLostWakeup` already holds from the `pop()` that found nothing.  That one step
needs `PopSeesReturnedPush`: what is pending then belongs to a push that has not
returned, and its `enqueue()` still owes the signal.

*The mutex.*  `MutexExclusion` says that at most one thread holds the mutex and that
the word is `unlocked` exactly when nobody does; with the types it is inductive as
it stands.  `SleepersAreOwedAWake` is inductive given both: a thread that sleeps
left the word contended, an unlocker that finds it so owes a wake, and whoever is
woken takes the lock as contended, so that those still asleep are not forgotten.
That a woken thread may *not* take it as merely locked is what makes this hold.

*The lock* (`RwInv`).  Every step of the lock is a step of its mutex or leaves it
alone, and the same of the mutex inside its semaphore, so the theorems about the
mutex hold of both.  Whoever may set or has set `IS_WRITING` holds the mutex
(`HeldOK`), the word is set exactly for a thread in `w_sem` or `writing`
(`WritingOK`), the counts are those of the threads that are in (`CountsOK`), and,
until a `try_lock()` races, a permit exists or is being posted only for the one
writer that waits for it, after the last reader has left (`PermitsOK`).  That a
writer which has taken the permit is alone follows from the last conjunct of
`PermitsOK`: readers next to `IS_WRITING` mean a writer that still waits.

*The coordinator* (`CoordInv`).  The functions of the source are operators on
states, and so are the lemmas: what each returns from a state with `Inv` has it
again, and which fields it leaves alone (`Only`).  A handler's proof follows its
calls.  Beyond the partition of the files the invariant says that ranges do not
overlap, that a slot without a process, or whose process is not yet ready, has
nothing dispatched, that a `ready` frame is the first of its pipe and finds nothing in
flight (otherwise `assign_work()` would overwrite a file), that `live` counts the
processes, and that a run that has bailed either met the limit of `--bail` or has
empty ranges, since the abort after a panic counts what was queued.

*The pipes* (`PipesInv`, given `CoordInv`).  `Pipe` relates the values of one slot: if
nothing is dispatched, only shutdowns are on their way and the worker holds no file
(`IdleOK`); if a file is, it is in exactly one of four places: on its way, waiting,
running, or in a result on its way back (`BusyOK`); and in what was written a result is
of the dispatched file, with nothing after it that the file could have corrupted, and
the aggregates come last (`OutboxOK`).  What each step does to these values is a
lemma about constants, so that a callback's proof only says which slot it touches.
`assign_work()` needs the slot to be `Quiet`: a shutdown that is already on its way would
let the worker go with a file in its inbox, and only `bail_out()`, after which no file
is dispatched, sends one early.  On top of it, `ResultsOK` says that a file whose result
was written is counted, as what it is, or its result will be decoded from the pipe of
the worker it is dispatched to, so a crash of *another* worker cannot claim it and its
own worker is reaped only after the pipe is empty; and `FlushOK` counts the
aggregates that are in the pipes.

*The rings* (`RingInv`).  A ring is read relative to its head (`rings`), so that places
are small numbers and wrapping is confined to lemmas about `Plus` and `Minus`.
`OwnerOK` bounds a ring's length, also while its owner or a thief writes slots that are not
published yet, and says that what an owner knows of its length is at most out of date in
one direction, as only thieves move its head meanwhile.  `LocalsOK` says what the locals
are at each point of the code.  `ThiefOK` is the heart: as long as the victim's head is
the one that the thief has loaded, what the thief has copied is what it will take, since
the owner writes only behind the window.  Once the head has moved the copy may be garbage,
but then the CAS fails; that a moved head is never equal to the loaded one again is
`NoLap`.  `NodesOK` says that a node is in one slot of one window, in one list, or gone,
so that the bags of `WorkBuffers` are disjoint and a step moves nodes only as it says.

*The MySQL connection* (`MySQLInv`).  Unless it is derailed, a connection that is up is
`Idle` (ready, nothing sent or to come, nobody runs, nothing is being prepared) or
`Busy`: the head of the queue has exactly one command out, a prepare (`Preparing`) or an
execution (`Executing`), and the packets that are to come are a prefix of one answer to it,
with its end if the server has finished.  The head may then be failed already, by a row that
could not be decoded, but nobody else runs.  On an idle connection only a query that was
skipped may be left in the queue (`Skips`); that is why the properties exempt what is
sent ahead of one.  `Flusher` says that the flusher is registered only while nothing holds a
flush back (no back-pressure, and data in the buffer or no answer awaited) and that
back-pressure means data in the buffer, and `Attached` that a query points to no
statement that was not asked for, without which `handle_command()` might meet a statement
that it has no case for.  A connection that is down has an empty queue (`Closed`).
`advance()` needs an induction over its turns: a set of numbers with 0 and
successors is all of `Nat` (`Induction`, from the well-foundedness of `<`), and what a turn
preserves is a set of pairs (`AdvanceInduction`), so no operator has to be instantiated.
While an answer is awaited a turn writes nothing (`AdvanceBusy`); on an idle connection
`IdleLoop` bounds the turns that are left by the distance of the offset from the end of
the queue, so that the loop has really ended after `Len(queue)` of them, with the
first command written for the head, or nothing left to write, or derailed (`AdvanceIdle`).

Left to TLC, and why: liveness (`TokenDelivered`, `ScheduledTasksRun`, `DropReturns`,
`PopReturns`, `EveryBuildCompletes`, `EveryoneReturns`, `DriveTerminates`,
`EveryQuerySettles`), since fairness and `ENABLED` are out of the prover's reach.

## 5. Not modelled

* Weak memory: orderings are treated as sequentially consistent.
* The bits of `node::Queue` (`HAS_CACHE`, `IS_CONSUMING`) and the links of
  batches: queues are sets with a consumer.
* `WaitGroup`, `ResetEvent` and `Channel`, built on the mutex and the condition;
  in particular the memory that `finish()` uses after the count is zero.  Timed
  waits and `broadcast` of `Condition`, recursive locking checks, and the
  implementations for Windows and macOS.
* MySQL: handshake, TLS and authentication (the connection starts connected), the
  contents of packets, `MAX_PIPELINE_SIZE`, the flag
  `BUN_FEATURE_FLAG_DISABLE_SQL_AUTO_PIPELINING` (`MySQLRequestQueue.rs:72`), the
  shutdown of the VM.  JavaScript that runs between two rejections of one `clean()`
  (`MySQLRequestQueue.rs:314`): it finds an empty queue and a connection that it can no
  longer use, so `clean()` is one step.  PostgreSQL and
  SQLite.
* The test coordinator's output, snapshots and merging of reports.
* Statistics, thread names, stack sizes, allocator clean-up.
* The contents of builds, parsers, sockets, the package manager: sequential or
  outside of what a model checker can reach.  The repository has close to a
  million lines, most of them of this kind; the modules cover the small part where
  order matters, and no claim is made about the rest.

## 6. Plan

In this order:

1. *Done*: `Event`, `ThreadPool`, `RunBuffer` over `WorkBuffers`,
   `UnboundedQueue` over `Fifo`, `BundleThread`; `FutexMutex`, `Semaphore`,
   `RwLock`; `TestCoordinator`; `MySQLQueue`.
2. *Done*: the theorems of section 4.
3. The word of `node::Queue` with its cache and links, as a refinement of the
   set with a consumer that `ThreadPool` uses; `WaitGroup` over the mutex.
