----------------------------- MODULE ThreadPool -----------------------------
(***************************************************************************)
(* The work-stealing thread pool of src/threading/ThreadPool.rs: the packed *)
(* `Sync` word, the workers that sleep on `idle_event`, their run buffers  *)
(* and run queues, idle tasks, shutdown and join.                          *)
(*                                                                         *)
(* `Main` is the thread that owns the pool.  A step of a thread is one     *)
(* access of shared memory: a CAS loop whose failed rounds change nothing  *)
(* is the step of its successful CAS, and thread-local work is attached to *)
(* the access before it.  Queues and buffers are sets of tasks: no property *)
(* depends on the order in which tasks are taken, and any member may be    *)
(* the next one.  That the rings behind the buffers allow this is shown in *)
(* RunBuffer.                                                              *)
(***************************************************************************)
EXTENDS Integers, FiniteSets

CONSTANTS
  Workers,       \* the OS threads the pool may start
  Main,          \* the owner of the pool
  None,          \* a null pointer
  Tasks,         \* all tasks
  Batches,       \* the batches Main passes to schedule()
  Kids,          \* the batch that a task's callback schedules
  IdleTasks,     \* tasks that Main pushes to the idle queue of a worker
  CAPACITY,      \* of a run buffer; 256 in the code
  max_threads,
  WarmCount,     \* the argument of warm()
  MaxSpawnFails, \* bound: how often the OS refuses to start a thread
  DropEarly      \* whether Main may drop the pool before its tasks are done

ASSUME ThreadsAssumption ==
  /\ max_threads \in Nat \ {0}
  /\ WarmCount \in Nat
  /\ MaxSpawnFails \in Nat
  /\ CAPACITY \in Nat \ {0, 1}
  /\ DropEarly \in BOOLEAN
ASSUME NamesAssumption ==
  /\ Main \notin Workers
  /\ None \notin Workers \cup {Main} \cup Tasks
  /\ "pool" \notin Workers \cup {None}
ASSUME TasksAssumption ==
  /\ IsFiniteSet(Tasks) /\ IsFiniteSet(Workers)
  /\ Batches \subseteq SUBSET Tasks
  /\ Kids \in [Tasks -> SUBSET Tasks]
\* A Task is an intrusive node: it belongs to the one who schedules it, that is
\* to Main or to one other task.
ASSUME OwnersAssumption ==
  \A k \in Tasks :
    /\ \A S \in Batches : S \cap Kids[k] = {}
    /\ \A j \in Tasks : j # k => Kids[j] \cap Kids[k] = {}

VARIABLES
  sync,        \* ThreadPool.sync: state, notified, idle, spawned
  threads,     \* ThreadPool.threads: top of the stack of registered workers
  next,        \* Thread.next
  target,      \* Thread.target: where the next round of stealing starts
  pc,          \* where each thread is
  ret,         \* where a thread goes after schedule() or notify()
  isWaking,    \* Thread::run's is_waking
  isIdle,      \* wait()'s is_idle
  tries,       \* pop()'s num_threads
  victim,      \* pop()'s target
  list,        \* the batch that a thread is scheduling
  queue,       \* Queue: the run queue of the pool and of each worker
  consumer,    \* Queue: who holds IS_CONSUMING
  from,        \* consume(): the queue that a worker is consuming
  grab,        \* nodes a worker has taken and not yet published
  buf,         \* Thread.run_buffer
  running,     \* the node pop() returned, until wait_group.finish()
  pushed,      \* Stole.pushed of that node
  runs,        \* how often the callback of each task ran
  waitGroup,   \* ThreadPool.wait_group
  scheduled,   \* history: tasks for which schedule_impl was entered
  idleQueue,   \* Thread.idle_queue
  idleRuns,    \* how often each idle task ran
  joinState,   \* the word of the join_event that a thread waits on: Main on that
               \* of the pool, a worker on that of its Thread
  joinAsleep,  \* who sleeps in the futex of its join_event
  first,       \* join()'s `thread`
  spawnFails,  \* how often the OS refused so far
  eventState, eventPc, eventAcquire, eventShrunk, eventToWake, eventClosed
               \* idle_event

Pool == "pool"                      \* names the queue of the pool itself
Queues == Workers \cup {Pool}
Callers == Workers \cup {Main}

idle_event == INSTANCE Event WITH
  Waiters <- Workers, Notifiers <- Callers, Closers <- {Main},
  state <- eventState, wpc <- eventPc, acquireWith <- eventAcquire,
  shrunk <- eventShrunk, toWake <- eventToWake, closed <- eventClosed

eventVars == <<eventState, eventPc, eventAcquire, eventShrunk, eventToWake, eventClosed>>
threadVars == <<threads, next>>
popVars == <<target, tries, victim, from, grab, running, pushed>>
queueVars == <<queue, consumer>>
taskVars == <<runs, waitGroup, scheduled>>
idleVars == <<idleQueue, idleRuns>>
joinVars == <<joinState, joinAsleep, first>>
vars == <<sync, threadVars, pc, ret, isWaking, isIdle, popVars, list, queueVars,
          buf, taskVars, idleVars, joinVars, spawnFails, eventVars>>

States == {"Pending", "Signaled", "Waking", "Shutdown"}

\* A value of the packed Sync word.
Sync(state, notified, idle, spawned) ==
  [state |-> state, notified |-> notified, idle |-> idle, spawned |-> spawned]

Syncs == [state : States, notified : BOOLEAN, idle : Int, spawned : Int]

MainPcs == {"ready", "warm", "waitAll", "wakeIdle", "shutdown", "eventShutdown",
            "join", "joinWait", "joinSleep", "joinChain", "joinNext", "joinWake", "gone"}
WorkerPcs == {"none", "register", "wait", "drain", "sleep", "pop",
              "poolQueue", "count", "steal", "stealBuffer", "fill", "publish", "release",
              "call", "pushBuffer", "overflow", "finish", "runDrain",
              "exitDrain", "unregister", "notifyJoin", "wakeJoin", "joinWait",
              "joinSleep", "joinNext", "joinWake", "exited"}
CallerPcs == {"add", "push", "notify", "notifySlow", "event", "wake", "spawn"}

PoolTypeOK ==
  /\ sync \in Syncs
  /\ threads \in Workers \cup {None}
  /\ next \in [Workers -> Workers \cup {None}]
  /\ target \in [Workers -> Workers \cup {None}]
  /\ victim \in [Workers -> Workers \cup {None}]
  /\ pc \in [Callers -> MainPcs \cup WorkerPcs \cup CallerPcs]
  /\ pc[Main] \in MainPcs \cup CallerPcs
  /\ \A t \in Workers : pc[t] \in WorkerPcs \cup CallerPcs
  /\ ret \in [Callers -> {"ready", "warm", "join", "call", "finish"}]
  /\ ret[Main] \in {"ready", "warm", "join"}
  /\ \A t \in Workers : ret[t] \in {"call", "finish"}
  /\ isWaking \in [Callers -> BOOLEAN]
  /\ isIdle \in [Workers -> BOOLEAN]
  /\ tries \in [Workers -> Int]
  /\ list \in [Callers -> SUBSET Tasks]
  /\ queue \in [Queues -> SUBSET Tasks]
  /\ consumer \in [Queues -> Workers \cup {None}]
  /\ from \in [Workers -> Queues \cup {None}]
  /\ grab \in [Workers -> SUBSET Tasks]
  /\ buf \in [Workers -> SUBSET Tasks]
  /\ running \in [Workers -> Tasks \cup {None}]
  /\ pushed \in [Workers -> BOOLEAN]
  /\ runs \in [Tasks -> Nat]
  /\ waitGroup \in Int
  /\ scheduled \subseteq Tasks
  /\ idleQueue \in [Workers -> SUBSET IdleTasks]
  /\ idleRuns \in [IdleTasks -> Nat]
  /\ joinState \in [Callers -> {"EMPTY", "WAITING", "NOTIFIED"}]
  /\ joinAsleep \subseteq Callers
  /\ first \in Workers \cup {None}
  /\ spawnFails \in Nat

TypeOK == PoolTypeOK /\ idle_event!EventTypeOK

Init ==
  /\ sync = Sync("Pending", FALSE, 0, 0)
  /\ threads = None
  /\ next = [t \in Workers |-> None]
  /\ target = [t \in Workers |-> None]
  /\ victim = [t \in Workers |-> None]
  /\ pc = [c \in Callers |-> IF c = Main THEN "ready" ELSE "none"]
  /\ ret = [c \in Callers |-> IF c = Main THEN "ready" ELSE "call"]
  /\ isWaking = [c \in Callers |-> FALSE]
  /\ isIdle = [t \in Workers |-> FALSE]
  /\ tries = [t \in Workers |-> 0]
  /\ list = [c \in Callers |-> {}]
  /\ queue = [q \in Queues |-> {}]
  /\ consumer = [q \in Queues |-> None]
  /\ from = [t \in Workers |-> None]
  /\ grab = [t \in Workers |-> {}]
  /\ buf = [t \in Workers |-> {}]
  /\ running = [t \in Workers |-> None]
  /\ pushed = [t \in Workers |-> FALSE]
  /\ runs = [k \in Tasks |-> 0]
  /\ waitGroup = 0
  /\ scheduled = {}
  /\ idleQueue = [t \in Workers |-> {}]
  /\ idleRuns = [k \in IdleTasks |-> 0]
  /\ joinState = [c \in Callers |-> "EMPTY"]
  /\ joinAsleep = {}
  /\ first = None
  /\ spawnFails = 0
  /\ idle_event!EventInit

Smaller(a, b) == IF a < b THEN a ELSE b

Go(c, label) == pc' = [pc EXCEPT ![c] = label]

-----------------------------------------------------------------------------
(* schedule_impl() and notify(), for Main and for a worker in a callback.  *)

\* Mutant: only what Main schedules is counted.
AddOutsideOnly(c) ==
  /\ pc[c] = "add"
  /\ waitGroup' = IF c = Main THEN waitGroup + Cardinality(list[c]) ELSE waitGroup
  /\ scheduled' = scheduled \cup list[c]
  /\ Go(c, "push")
  /\ UNCHANGED <<sync, threadVars, ret, isWaking, isIdle, popVars, list, queueVars,
                 buf, runs, idleVars, joinVars, spawnFails, eventVars>>

\* Mutant: Thread::current() is not compared with the threads of the pool.
AddAnyThread(c) ==
  /\ pc[c] = "add"
  /\ waitGroup' = waitGroup + Cardinality(list[c])
  /\ scheduled' = scheduled \cup list[c]
  /\ Go(c, "pushBuffer")
  /\ UNCHANGED <<sync, threadVars, ret, isWaking, isIdle, popVars, list, queueVars,
                 buf, runs, idleVars, joinVars, spawnFails, eventVars>>

\* wait_group.add(len).  schedule_inside_thread_pool() goes on with the run
\* buffer of the calling worker, schedule() with the queue of the pool.
Add(c) ==
  /\ pc[c] = "add"
  /\ waitGroup' = waitGroup + Cardinality(list[c])
  /\ scheduled' = scheduled \cup list[c]
  /\ \/ Go(c, "push")
     \/ c # Main /\ Go(c, "pushBuffer")
  /\ UNCHANGED <<sync, threadVars, ret, isWaking, isIdle, popVars, list, queueVars,
                 buf, runs, idleVars, joinVars, spawnFails, eventVars>>

\* Queue::push() of a batch to queue q.
PushTo(c, q) ==
  /\ queue' = [queue EXCEPT ![q] = @ \cup list[c]]
  /\ list' = [list EXCEPT ![c] = {}]
  /\ Go(c, "notify")
  /\ UNCHANGED <<sync, threadVars, ret, isWaking, isIdle, popVars, consumer, buf,
                 taskVars, idleVars, joinVars, spawnFails, eventVars>>

Push(c) == pc[c] = "push" /\ PushTo(c, Pool)

\* Buffer::push(): fill free slots, fewer than there are if others steal at the
\* same time; done when nothing is left over.
PushBuffer(t) ==
  /\ pc[t] = "pushBuffer"
  /\ \E S \in SUBSET list[t] :
       /\ S # {} /\ Cardinality(S) <= CAPACITY - Cardinality(buf[t])
       /\ buf' = [buf EXCEPT ![t] = @ \cup S]
       /\ list' = [list EXCEPT ![t] = @ \ S]
       /\ IF S = list[t] THEN Go(t, "notify") ELSE UNCHANGED pc
  /\ UNCHANGED <<sync, threadVars, ret, isWaking, isIdle, popVars, queueVars,
                 taskVars, idleVars, joinVars, spawnFails, eventVars>>

\* The buffer is full: half of it overflows, together with the list.
Overflow(t) ==
  /\ pc[t] = "pushBuffer"
  /\ Cardinality(buf[t]) = CAPACITY
  /\ \E S \in SUBSET buf[t] :
       /\ Cardinality(S) = CAPACITY \div 2
       /\ buf' = [buf EXCEPT ![t] = @ \ S]
       /\ list' = [list EXCEPT ![t] = @ \cup S]
  /\ Go(t, "overflow")
  /\ UNCHANGED <<sync, threadVars, ret, isWaking, isIdle, popVars, queueVars,
                 taskVars, idleVars, joinVars, spawnFails, eventVars>>

\* The overflowed list goes to the run queue of the worker.
PushOverflow(t) == pc[t] = "overflow" /\ PushTo(t, t)

\* notify(false): the fetch_or(0) that looks whether `notified` is set.
Notify(c) ==
  /\ pc[c] = "notify"
  /\ Go(c, IF sync.notified THEN ret[c] ELSE "notifySlow")
  /\ UNCHANGED <<sync, threadVars, ret, isWaking, isIdle, popVars, list, queueVars,
                 buf, taskVars, idleVars, joinVars, spawnFails, eventVars>>

\* One successful round of notify_slow(is_waking).  Thread::run() clears its
\* is_waking as soon as notify() returns.
CanWake(c) == isWaking[c] \/ sync.state = "Pending"

\* Mutant: the waking thread keeps the waking state when it wakes nobody.
KeepWaking(c) == [sync EXCEPT !.notified = TRUE]

\* Mutant: without a thread to wake, no notification is left behind.
WakeNobodySilently(c) ==
  [sync EXCEPT !.state = IF isWaking[c] THEN "Pending" ELSE @]

\* Nobody to pass "waking" on to, or just a notification to leave behind.
WakeNobody(c) ==
  Sync(IF isWaking[c] THEN "Pending" ELSE sync.state, TRUE, sync.idle, sync.spawned)

\* Shut down; wake up an idle thread; spawn a new thread; or neither.
NotifySlow(c) ==
  /\ pc[c] = "notifySlow"
  /\ \/ /\ sync.state = "Shutdown"
        /\ Go(c, ret[c])
        /\ UNCHANGED sync
     \/ /\ sync.state # "Shutdown" /\ CanWake(c) /\ sync.idle > 0
        /\ sync' = Sync("Signaled", TRUE, sync.idle, sync.spawned)
        /\ Go(c, "event")
     \/ /\ sync.state # "Shutdown" /\ CanWake(c) /\ ~(sync.idle > 0)
        /\ sync.spawned < max_threads
        /\ sync' = Sync("Signaled", TRUE, sync.idle, sync.spawned + 1)
        /\ Go(c, "spawn")
     \/ /\ sync.state # "Shutdown"
        /\ ~(CanWake(c) /\ (sync.idle > 0 \/ sync.spawned < max_threads))
        /\ sync' = WakeNobody(c)
        /\ Go(c, ret[c])
  /\ isWaking' = [isWaking EXCEPT ![c] = FALSE]
  /\ UNCHANGED <<threadVars, ret, isIdle, popVars, list, queueVars, buf, taskVars,
                 idleVars, joinVars, spawnFails, eventVars>>

\* idle_event.notify(): the swap, and then the futex wake it owes.
EventNotify(c) ==
  /\ pc[c] = "event"
  /\ idle_event!notify(c)
  /\ Go(c, IF eventState = "WAITING" THEN "wake" ELSE ret[c])
  /\ UNCHANGED <<sync, threadVars, ret, isWaking, isIdle, popVars, list, queueVars,
                 buf, taskVars, idleVars, joinVars, spawnFails>>

EventWake(c) ==
  /\ pc[c] = "wake"
  /\ idle_event!FutexWake(c)
  /\ Go(c, ret[c])
  /\ UNCHANGED <<sync, threadVars, ret, isWaking, isIdle, popVars, list, queueVars,
                 buf, taskVars, idleVars, joinVars, spawnFails>>

\* A thread that the OS has not started yet; which one makes no difference.
Unstarted == CHOOSE t \in Workers : pc[t] = "none"

\* The OS starts a thread for the slot that `spawned` already counts.
Spawn(c) ==
  /\ pc[c] = "spawn"
  /\ \E t \in Workers : pc[t] = "none"
  /\ pc' = [pc EXCEPT ![c] = ret[c], ![Unstarted] = "register"]
  /\ UNCHANGED <<sync, threadVars, ret, isWaking, isIdle, popVars, list, queueVars,
                 buf, taskVars, idleVars, joinVars, spawnFails, eventVars>>

\* The OS refuses: unregister(null) takes the slot back.  warm() gives up.  Its
\* notify() is one step here: the caller counts among `spawned` or is Main
\* before shutdown(), so that the slot is never the last one of a closed pool.
SpawnFail(c) ==
  /\ pc[c] = "spawn"
  /\ spawnFails < MaxSpawnFails
  /\ spawnFails' = spawnFails + 1
  /\ sync' = [sync EXCEPT !.spawned = @ - 1]
  /\ IF sync.state = "Shutdown" /\ sync.spawned = 1
       THEN /\ joinState' = [joinState EXCEPT ![Main] = "NOTIFIED"]
            /\ joinAsleep' = joinAsleep \ {Main}
       ELSE UNCHANGED <<joinState, joinAsleep>>
  /\ Go(c, IF ret[c] = "warm" THEN "ready" ELSE ret[c])
  /\ UNCHANGED <<threadVars, ret, isWaking, isIdle, popVars, list, queueVars, buf,
                 taskVars, idleVars, first, eventVars>>

-----------------------------------------------------------------------------
(* A worker: register(), then wait() *)

Register(t) ==
  /\ pc[t] = "register"
  /\ next' = [next EXCEPT ![t] = threads]
  /\ threads' = t
  /\ Go(t, "wait")
  /\ UNCHANGED <<sync, ret, isWaking, isIdle, popVars, list, queueVars, buf,
                 taskVars, idleVars, joinVars, spawnFails, eventVars>>

\* wait() returns WaitError::Shutdown.
WaitError(t) ==
  /\ pc[t] = "wait"
  /\ sync.state = "Shutdown"
  /\ isIdle' = [isIdle EXCEPT ![t] = FALSE]
  /\ Go(t, "exitDrain")
  /\ UNCHANGED <<sync, threadVars, ret, isWaking, popVars, list, queueVars,
                 buf, taskVars, idleVars, joinVars, spawnFails, eventVars>>

\* Mutant: the thread that wakes up stays counted as idle.
ConsumedStaysIdle(t) ==
  Sync(IF sync.state = "Signaled" THEN "Waking" ELSE sync.state, FALSE,
       sync.idle, sync.spawned)

\* The word after wait() consumed a notification.
Consumed(t) ==
  Sync(IF sync.state = "Signaled" THEN "Waking" ELSE sync.state, FALSE,
       IF isIdle[t] THEN sync.idle - 1 ELSE sync.idle, sync.spawned)

WaitConsume(t) ==
  /\ pc[t] = "wait"
  /\ sync.state # "Shutdown"
  /\ sync.notified
  /\ sync' = Consumed(t)
  /\ isWaking' = [isWaking EXCEPT ![t] = @ \/ sync.state = "Signaled"]
  /\ isIdle' = [isIdle EXCEPT ![t] = FALSE]
  /\ Go(t, "pop")
  /\ UNCHANGED <<threadVars, ret, popVars, list, queueVars, buf, taskVars,
                 idleVars, joinVars, spawnFails, eventVars>>

\* Nothing to do: count as idle and give up the waking state.  The loop goes on
\* with the old value of the word, that is with running idle tasks and sleeping.
WaitIdle(t) ==
  /\ pc[t] = "wait"
  /\ sync.state # "Shutdown"
  /\ ~sync.notified
  /\ ~isIdle[t]
  /\ sync' = Sync(IF isWaking[t] THEN "Pending" ELSE sync.state, sync.notified,
                  sync.idle + 1, sync.spawned)
  /\ isWaking' = [isWaking EXCEPT ![t] = FALSE]
  /\ isIdle' = [isIdle EXCEPT ![t] = TRUE]
  /\ Go(t, "drain")
  /\ UNCHANGED <<threadVars, ret, popVars, list, queueVars, buf, taskVars,
                 idleVars, joinVars, spawnFails, eventVars>>

\* Back from a sleep, and still nothing to do: run idle tasks and sleep again.
WaitSleep(t) ==
  /\ pc[t] = "wait"
  /\ sync.state # "Shutdown"
  /\ ~sync.notified
  /\ isIdle[t]
  /\ Go(t, "drain")
  /\ UNCHANGED <<sync, threadVars, ret, isWaking, isIdle, popVars, list,
                 queueVars, buf, taskVars, idleVars, joinVars, spawnFails,
                 eventVars>>

\* drain_idle_events(): only the worker itself consumes its idle queue.
drain_idle_events(t) ==
  /\ idleRuns' = [k \in IdleTasks |-> idleRuns[k] + (IF k \in idleQueue[t] THEN 1 ELSE 0)]
  /\ idleQueue' = [idleQueue EXCEPT ![t] = {}]

DrainAndSleep(t) ==
  /\ pc[t] = "drain"
  /\ drain_idle_events(t)
  /\ idle_event!WaitBegin(t)
  /\ Go(t, "sleep")
  /\ UNCHANGED <<sync, threadVars, ret, isWaking, isIdle, popVars, list,
                 queueVars, buf, taskVars, joinVars, spawnFails>>

\* idle_event.wait(): its return leads back to the loop of wait().
Sleep(t) ==
  /\ pc[t] = "sleep"
  /\ \/ (idle_event!WaitShutdown(t) \/ idle_event!WaitConsume(t)) /\ Go(t, "wait")
     \/ (idle_event!WaitPublish(t) \/ idle_event!FutexWait(t)) /\ UNCHANGED pc
  /\ UNCHANGED <<sync, threadVars, ret, isWaking, isIdle, popVars, list,
                 queueVars, buf, taskVars, idleVars, joinVars, spawnFails>>

\* A timeout or a spurious wake-up of the futex.
SleepInterrupted(t) ==
  /\ idle_event!FutexTimeout(t) \/ idle_event!FutexSpurious(t)
  /\ UNCHANGED <<pc, sync, threadVars, ret, isWaking, isIdle, popVars, list,
                 queueVars, buf, taskVars, idleVars, joinVars, spawnFails>>

-----------------------------------------------------------------------------
(* A worker: pop() *)

PopBuffer(t) ==
  /\ pc[t] = "pop"
  /\ buf[t] # {}
  /\ \E k \in buf[t] :
       /\ buf' = [buf EXCEPT ![t] = @ \ {k}]
       /\ running' = [running EXCEPT ![t] = k]
  /\ Go(t, IF isWaking[t] THEN "notifySlow" ELSE "call")
  /\ ret' = [ret EXCEPT ![t] = "call"]
  /\ UNCHANGED <<sync, threadVars, isWaking, isIdle, target, tries, victim,
                 from, grab, pushed, list, queueVars, taskVars, idleVars,
                 joinVars, spawnFails, eventVars>>

\* try_acquire_consumer(): fails when the queue is empty or contended.
TryAcquireConsumer(t, q, otherwise) ==
  /\ IF consumer[q] # None \/ queue[q] = {}
       THEN Go(t, otherwise) /\ UNCHANGED <<consumer, from>>
       ELSE /\ consumer' = [consumer EXCEPT ![q] = t]
            /\ from' = [from EXCEPT ![t] = q]
            /\ Go(t, "fill")

\* Only the worker itself adds to its buffer: once empty, it stays empty.
PopOwnQueue(t) ==
  /\ pc[t] = "pop"
  /\ buf[t] = {}
  /\ TryAcquireConsumer(t, t, "poolQueue")
  /\ UNCHANGED <<sync, threadVars, ret, isWaking, isIdle, target, tries,
                 victim, grab, running, pushed, list, queue, buf, taskVars,
                 idleVars, joinVars, spawnFails, eventVars>>

PopPoolQueue(t) ==
  /\ pc[t] = "poolQueue"
  /\ TryAcquireConsumer(t, Pool, "count")
  /\ UNCHANGED <<sync, threadVars, ret, isWaking, isIdle, target, tries, victim,
                 grab, running, pushed, list, queue, buf, taskVars, idleVars,
                 joinVars, spawnFails, eventVars>>

\* The number of threads to steal from.
CountThreads(t) ==
  /\ pc[t] = "count"
  /\ tries' = [tries EXCEPT ![t] = sync.spawned]
  /\ Go(t, "steal")
  /\ UNCHANGED <<sync, threadVars, ret, isWaking, isIdle, target, victim, from,
                 grab, running, pushed, list, queueVars, buf, taskVars,
                 idleVars, joinVars, spawnFails, eventVars>>

\* The next registered thread, and its queue.  The worker skips its own buffer.
\* The load of threads, which only says where to look, is part of the step.
StealFrom(t, v) ==
  /\ victim' = [victim EXCEPT ![t] = v]
  /\ target' = [target EXCEPT ![t] = next[v]]
  /\ TryAcquireConsumer(t, v, IF v = t THEN "steal" ELSE "stealBuffer")
  /\ tries' = [tries EXCEPT ![t] = IF v = t THEN @ - 1 ELSE @]
  /\ UNCHANGED <<sync, threadVars, ret, isWaking, isIdle, grab, running,
                 pushed, list, queue, buf, taskVars, idleVars, joinVars,
                 spawnFails, eventVars>>

StealQueue(t) ==
  /\ pc[t] = "steal"
  /\ tries[t] > 0
  /\ LET v == IF target[t] # None THEN target[t] ELSE threads
     IN  v # None /\ StealFrom(t, v)

\* Mutant: the thief copies the nodes and does not move the victim's head.
StealCopies(t, S) == buf

\* steal(): the CAS that moves the victim's head past the stolen nodes: half of
\* what the thief saw, which may be fewer than there are by now.
Stolen(t, S) == [buf EXCEPT ![victim[t]] = @ \ S]

StealBuffer(t) ==
  /\ pc[t] = "stealBuffer"
  /\ buf[victim[t]] # {}
  /\ \E S \in SUBSET buf[victim[t]] :
       /\ S # {}
       /\ Cardinality(S) <= Cardinality(buf[victim[t]]) - Cardinality(buf[victim[t]]) \div 2
       /\ buf' = Stolen(t, S)
       /\ grab' = [grab EXCEPT ![t] = S]
  /\ Go(t, "publish")
  /\ UNCHANGED <<sync, threadVars, ret, isWaking, isIdle, target, tries,
                 victim, from, running, pushed, list, queueVars, taskVars,
                 idleVars, joinVars, spawnFails, eventVars>>

StealBufferEmpty(t) ==
  /\ pc[t] = "stealBuffer"
  /\ buf[victim[t]] = {}
  /\ tries' = [tries EXCEPT ![t] = @ - 1]
  /\ Go(t, "steal")
  /\ UNCHANGED <<sync, threadVars, ret, isWaking, isIdle, target, victim, from,
                 grab, running, pushed, list, queueVars, buf, taskVars,
                 idleVars, joinVars, spawnFails, eventVars>>

\* pop() returns None.
PopNone(t) ==
  /\ pc[t] = "steal"
  /\ tries[t] <= 0
  /\ victim' = [victim EXCEPT ![t] = None]
  /\ Go(t, "runDrain")
  /\ UNCHANGED <<sync, threadVars, ret, isWaking, isIdle, target, tries, from, grab, running, pushed, list,
                 queueVars, buf, taskVars, idleVars, joinVars, spawnFails,
                 eventVars>>

\* consume(): the last look at the queue; up to CAPACITY + 1 nodes are taken.  The
\* code pops them one by one, and nodes pushed meanwhile may be among them; here they
\* are taken at once, and what is pushed later stays for the next look.
Fill(t) ==
  /\ pc[t] = "fill"
  /\ \E S \in SUBSET queue[from[t]] :
       /\ Cardinality(S) = Smaller(Cardinality(queue[from[t]]), CAPACITY + 1)
       /\ grab' = [grab EXCEPT ![t] = S]
       /\ queue' = [queue EXCEPT ![from[t]] = @ \ S]
  /\ Go(t, "publish")
  /\ UNCHANGED <<sync, threadVars, ret, isWaking, isIdle, target, tries,
                 victim, from, running, pushed, list, consumer, buf, taskVars,
                 idleVars, joinVars, spawnFails, eventVars>>

\* Where Thread::run() goes with a node: notify() if nodes were pushed to the
\* buffer or the thread is waking, and then the callback.
AfterPop(t, hasPushed) ==
  IF isWaking[t] THEN "notifySlow" ELSE IF hasPushed THEN "notify" ELSE "call"

\* consume() and steal(): one node is returned, the others become visible in
\* the buffer.
Publish(t) ==
  /\ pc[t] = "publish"
  /\ \E k \in grab[t] :
       /\ running' = [running EXCEPT ![t] = k]
       /\ buf' = [buf EXCEPT ![t] = @ \cup (grab[t] \ {k})]
       /\ pushed' = [pushed EXCEPT ![t] = from[t] # None /\ grab[t] # {k}]
       /\ Go(t, IF from[t] # None THEN "release" ELSE AfterPop(t, grab[t] # {k}))
  /\ grab' = [grab EXCEPT ![t] = {}]
  /\ tries' = [tries EXCEPT ![t] = 0]
  /\ victim' = [victim EXCEPT ![t] = None]
  /\ ret' = [ret EXCEPT ![t] = "call"]
  /\ UNCHANGED <<sync, threadVars, isWaking, isIdle, target,
                 from, list, queueVars, taskVars, idleVars, joinVars,
                 spawnFails, eventVars>>

\* release_consumer()
Release(t) ==
  /\ pc[t] = "release"
  /\ consumer' = [consumer EXCEPT ![from[t]] = None]
  /\ from' = [from EXCEPT ![t] = None]
  /\ pushed' = [pushed EXCEPT ![t] = FALSE]
  /\ Go(t, AfterPop(t, pushed[t]))
  /\ UNCHANGED <<sync, threadVars, ret, isWaking, isIdle, target, tries,
                 victim, grab, running, list, queue, buf, taskVars,
                 idleVars, joinVars, spawnFails, eventVars>>

-----------------------------------------------------------------------------
(* A worker: the callback, finish(), and the end of a round *)

Call(t) ==
  /\ pc[t] = "call"
  /\ runs' = [runs EXCEPT ![running[t]] = @ + 1]
  /\ list' = [list EXCEPT ![t] = Kids[running[t]]]
  /\ ret' = [ret EXCEPT ![t] = "finish"]
  /\ Go(t, IF Kids[running[t]] = {} THEN "finish" ELSE "add")
  /\ UNCHANGED <<sync, threadVars, isWaking, isIdle, popVars, queueVars, buf,
                 waitGroup, scheduled, idleVars, joinVars, spawnFails,
                 eventVars>>

Finish(t) ==
  /\ pc[t] = "finish"
  /\ waitGroup' = waitGroup - 1
  /\ running' = [running EXCEPT ![t] = None]
  /\ Go(t, "pop")
  /\ UNCHANGED <<sync, threadVars, ret, isWaking, isIdle, target, tries,
                 victim, from, grab, pushed, list, queueVars, buf, runs,
                 scheduled, idleVars, joinVars, spawnFails, eventVars>>

RunDrain(t) ==
  /\ pc[t] = "runDrain"
  /\ drain_idle_events(t)
  /\ Go(t, "wait")
  /\ UNCHANGED <<sync, threadVars, ret, isWaking, isIdle, popVars, list,
                 queueVars, buf, taskVars, joinVars, spawnFails, eventVars>>

-----------------------------------------------------------------------------
(* A worker: leaving the pool *)

\* Mutant: the worker leaves without running its idle tasks.
ExitWithoutDrain(t) ==
  /\ pc[t] = "exitDrain"
  /\ Go(t, "unregister")
  /\ UNCHANGED <<sync, threadVars, ret, isWaking, isIdle, popVars, list,
                 queueVars, buf, taskVars, idleVars, joinVars, spawnFails,
                 eventVars>>

ExitDrain(t) ==
  /\ pc[t] = "exitDrain"
  /\ drain_idle_events(t)
  /\ Go(t, "unregister")
  /\ UNCHANGED <<sync, threadVars, ret, isWaking, isIdle, popVars, list,
                 queueVars, buf, taskVars, joinVars, spawnFails, eventVars>>

\* unregister(): the last worker to leave wakes up join().
Unregister(t) ==
  /\ pc[t] = "unregister"
  /\ sync' = [sync EXCEPT !.spawned = @ - 1]
  /\ Go(t, IF sync.state = "Shutdown" /\ sync.spawned = 1
             THEN "notifyJoin" ELSE "joinWait")
  /\ UNCHANGED <<threadVars, ret, isWaking, isIdle, popVars, list, queueVars,
                 buf, taskVars, idleVars, joinVars, spawnFails, eventVars>>

\* What a step on a join_event leaves alone.
JoinFrame == UNCHANGED <<sync, ret, isWaking, isIdle, popVars, list, queueVars, buf,
                         taskVars, idleVars, spawnFails, eventVars>>

\* join_event.notify() on the event that `waiter` waits on.  The swap comes first,
\* and then a futex wake if somebody waited.
JoinSwap(waiter) == joinState' = [joinState EXCEPT ![waiter] = "NOTIFIED"]
JoinFutexWake(waiter) == joinAsleep' = joinAsleep \ {waiter}

\* The pool's join_event.
NotifyJoin(t) ==
  /\ pc[t] = "notifyJoin"
  /\ JoinSwap(Main)
  /\ Go(t, IF joinState[Main] = "WAITING" THEN "wakeJoin" ELSE "joinWait")
  /\ JoinFrame /\ UNCHANGED <<threadVars, joinAsleep, first>>

WakeJoin(t) ==
  /\ pc[t] = "wakeJoin"
  /\ JoinFutexWake(Main)
  /\ Go(t, "joinWait")
  /\ JoinFrame /\ UNCHANGED <<threadVars, joinState, first>>

-----------------------------------------------------------------------------
(* join_event.wait(), of Main on the pool's and of a worker on its own     *)

\* The thread looks at the word: before its first sleep, or back from the futex.
\* A futex call that finds another word than WAITING leads to the next look.
JoinLooks(c) == pc[c] \in {"joinWait", "joinSleep"} /\ c \notin joinAsleep

JoinPublish(c) ==
  /\ JoinLooks(c)
  /\ joinState[c] = "EMPTY"
  /\ joinState' = [joinState EXCEPT ![c] = "WAITING"]
  /\ Go(c, "joinSleep")
  /\ JoinFrame /\ UNCHANGED <<threadVars, joinAsleep, first>>

JoinFutexWait(c) ==
  /\ JoinLooks(c)
  /\ joinState[c] = "WAITING"
  /\ joinAsleep' = joinAsleep \cup {c}
  /\ Go(c, "joinSleep")
  /\ JoinFrame /\ UNCHANGED <<threadVars, joinState, first>>

\* Mutant: the chain of join events is not continued.
BreakChain(c) == IF c = Main THEN "joinChain" ELSE "exited"

\* join() goes on with the chain, a worker with the thread below it on the stack.
AfterJoin(c) ==
  IF c = Main THEN "joinChain" ELSE IF next[c] = None THEN "exited" ELSE "joinNext"

\* Mutant: wait() returns when its timeout fires.
JoinTimesOut(c) ==
  /\ c \in joinAsleep
  /\ JoinFutexWake(c)
  /\ Go(c, AfterJoin(c))
  /\ JoinFrame /\ UNCHANGED <<threadVars, joinState, first>>

\* A timeout or a signal ends the sleep.
JoinInterrupted(c) ==
  /\ c \in joinAsleep
  /\ JoinFutexWake(c)
  /\ JoinFrame /\ UNCHANGED <<threadVars, pc, joinState, first>>

JoinConsume(c) ==
  /\ JoinLooks(c)
  /\ joinState[c] = "NOTIFIED"
  /\ joinState' = [joinState EXCEPT
                     ![c] = IF pc[c] = "joinWait" THEN "EMPTY" ELSE "WAITING"]
  /\ Go(c, AfterJoin(c))
  /\ JoinFrame /\ UNCHANGED <<threadVars, joinAsleep, first>>

\* The Thread whose join_event join(), or a worker that leaves, notifies last.
Follower(c) == IF c = Main THEN first ELSE next[c]

\* drop() returns, or the worker's stack goes.
Gone(c) == IF c = Main THEN "gone" ELSE "exited"
freed == pc[Main] = "gone"

JoinNext(c) ==
  /\ pc[c] = "joinNext"
  /\ JoinSwap(Follower(c))
  /\ Go(c, IF joinState[Follower(c)] = "WAITING" THEN "joinWake" ELSE Gone(c))
  /\ JoinFrame /\ UNCHANGED <<threadVars, joinAsleep, first>>

JoinWake(c) ==
  /\ pc[c] = "joinWake"
  /\ JoinFutexWake(Follower(c))
  /\ Go(c, Gone(c))
  /\ JoinFrame /\ UNCHANGED <<threadVars, joinState, first>>

JoinStep(c) ==
  JoinPublish(c) \/ JoinFutexWait(c) \/ JoinConsume(c) \/ JoinNext(c) \/ JoinWake(c)

-----------------------------------------------------------------------------
(* Main *)

schedule ==
  /\ pc[Main] = "ready"
  /\ \E S \in Batches :
       /\ S # {} /\ S \cap scheduled = {}
       /\ list' = [list EXCEPT ![Main] = S]
  /\ ret' = [ret EXCEPT ![Main] = "ready"]
  /\ Go(Main, "add")
  /\ UNCHANGED <<sync, threadVars, isWaking, isIdle, popVars, queueVars, buf,
                 taskVars, idleVars, joinVars, spawnFails, eventVars>>

wait_for_all ==
  /\ \/ pc[Main] = "ready" /\ Go(Main, "waitAll")
     \/ pc[Main] = "waitAll" /\ waitGroup = 0 /\ Go(Main, "ready")
  /\ UNCHANGED <<sync, threadVars, ret, isWaking, isIdle, popVars, list,
                 queueVars, buf, taskVars, idleVars, joinVars, spawnFails,
                 eventVars>>

\* The bundler warms its pool when it starts, before it schedules anything.
warm ==
  /\ pc[Main] \in {"ready", "warm"}
  /\ scheduled = {}
  /\ IF sync.spawned < Smaller(WarmCount, max_threads)
       THEN /\ sync' = [sync EXCEPT !.spawned = @ + 1]
            /\ ret' = [ret EXCEPT ![Main] = "warm"]
            /\ Go(Main, "spawn")
       ELSE Go(Main, "ready") /\ UNCHANGED <<sync, ret>>
  /\ UNCHANGED <<threadVars, isWaking, isIdle, popVars, list, queueVars, buf,
                 taskVars, idleVars, joinVars, spawnFails, eventVars>>

\* The bundler pushes idle tasks to workers that have run tasks, when it is
\* done with them, and then wakes the pool.
push_idle_task ==
  /\ pc[Main] = "ready"
  /\ scheduled # {} /\ waitGroup = 0
  /\ \E k \in IdleTasks, t \in Workers :
       /\ pc[t] \notin {"none", "register"}
       /\ idleRuns[k] = 0 /\ \A u \in Workers : k \notin idleQueue[u]
       /\ idleQueue' = [idleQueue EXCEPT ![t] = @ \cup {k}]
  /\ Go(Main, "wakeIdle")
  /\ UNCHANGED <<sync, threadVars, ret, isWaking, isIdle, popVars, list,
                 queueVars, buf, taskVars, idleRuns, joinVars, spawnFails,
                 eventVars>>

wake_for_idle_events ==
  /\ pc[Main] = "wakeIdle"
  /\ idle_event!wake_for_idle_events(Main)
  /\ ret' = [ret EXCEPT ![Main] = "ready"]
  /\ Go(Main, IF eventState = "WAITING" THEN "wake" ELSE "ready")
  /\ UNCHANGED <<sync, threadVars, isWaking, isIdle, popVars, list, queueVars,
                 buf, taskVars, idleVars, joinVars, spawnFails>>

\* drop() begins.
drop ==
  /\ pc[Main] = "ready"
  /\ DropEarly \/ waitGroup = 0
  /\ Go(Main, "shutdown")
  /\ UNCHANGED <<sync, threadVars, ret, isWaking, isIdle, popVars, list,
                 queueVars, buf, taskVars, idleVars, joinVars, spawnFails,
                 eventVars>>

shutdown ==
  /\ pc[Main] = "shutdown"
  /\ sync' = Sync("Shutdown", TRUE, 0, sync.spawned)
  /\ Go(Main, IF sync.idle > 0 THEN "eventShutdown" ELSE "join")
  /\ UNCHANGED <<threadVars, ret, isWaking, isIdle, popVars, list, queueVars,
                 buf, taskVars, idleVars, joinVars, spawnFails, eventVars>>

EventShutdown ==
  /\ pc[Main] = "eventShutdown"
  /\ idle_event!shutdown(Main)
  /\ ret' = [ret EXCEPT ![Main] = "join"]
  /\ Go(Main, IF eventState = "WAITING" THEN "wake" ELSE "join")
  /\ UNCHANGED <<sync, threadVars, isWaking, isIdle, popVars, list, queueVars,
                 buf, taskVars, idleVars, joinVars, spawnFails>>

\* Mutant: join() does not wait for the threads that are still running.
JoinAtOnce ==
  /\ pc[Main] = "join"
  /\ Go(Main, IF sync.state = "Shutdown" THEN "joinChain" ELSE "joinWait")
  /\ UNCHANGED <<sync, threadVars, ret, isWaking, isIdle, popVars, list,
                 queueVars, buf, taskVars, idleVars, joinVars, spawnFails,
                 eventVars>>

join ==
  /\ pc[Main] = "join"
  /\ Go(Main, IF sync.state = "Shutdown" /\ sync.spawned = 0
                THEN "joinChain" ELSE "joinWait")
  /\ UNCHANGED <<sync, threadVars, ret, isWaking, isIdle, popVars, list,
                 queueVars, buf, taskVars, idleVars, joinVars, spawnFails,
                 eventVars>>

\* threads.swap(null): the first thread of the chain.
JoinChain ==
  /\ pc[Main] = "joinChain"
  /\ first' = threads
  /\ threads' = None
  /\ Go(Main, IF threads = None THEN "gone" ELSE "joinNext")
  /\ JoinFrame /\ UNCHANGED <<next, joinState, joinAsleep>>

-----------------------------------------------------------------------------
CallerStep(c) ==
  \/ Add(c) \/ Push(c) \/ Notify(c) \/ NotifySlow(c)
  \/ EventNotify(c) \/ EventWake(c) \/ Spawn(c)

PopStep(t) ==
  \/ PopBuffer(t) \/ PopOwnQueue(t) \/ PopPoolQueue(t) \/ CountThreads(t)
  \/ StealQueue(t) \/ StealBuffer(t) \/ StealBufferEmpty(t) \/ PopNone(t)
  \/ Fill(t) \/ Publish(t) \/ Release(t)

WorkerStep(t) ==
  \/ CallerStep(t)
  \/ PushBuffer(t) \/ Overflow(t) \/ PushOverflow(t)
  \/ Register(t) \/ WaitError(t) \/ WaitConsume(t) \/ WaitIdle(t) \/ WaitSleep(t)
  \/ DrainAndSleep(t) \/ Sleep(t)
  \/ PopStep(t)
  \/ Call(t) \/ Finish(t) \/ RunDrain(t)
  \/ ExitDrain(t) \/ Unregister(t) \/ NotifyJoin(t) \/ WakeJoin(t) \/ JoinStep(t)

\* What Main goes on with once it has begun an operation.
MainStep ==
  \/ CallerStep(Main)
  \/ wake_for_idle_events \/ shutdown \/ EventShutdown
  \/ join \/ JoinStep(Main) \/ JoinChain
  \/ pc[Main] = "warm" /\ warm
  \/ pc[Main] = "waitAll" /\ wait_for_all

\* What Main may begin.
MainBegin ==
  \/ schedule \/ push_idle_task \/ drop
  \/ pc[Main] = "ready" /\ (warm \/ wait_for_all)

Done ==
  /\ pc[Main] = "gone"
  /\ \A t \in Workers : pc[t] \in {"none", "exited"}
  /\ UNCHANGED vars

Next ==
  \/ MainStep
  \/ MainBegin
  \/ \E t \in Workers : WorkerStep(t) \/ SleepInterrupted(t)
  \/ \E c \in Callers : SpawnFail(c) \/ JoinInterrupted(c)
  \/ Done

Spec == Init /\ [][Next]_vars

\* Running threads keep running, callbacks return and timeouts fire.  Main
\* finishes what it began; it never has to begin anything.
Fairness ==
  /\ WF_vars(MainStep)
  /\ \A t \in Workers :
       /\ WF_vars(WorkerStep(t))
       /\ WF_vars(idle_event!FutexTimeout(t) /\ SleepInterrupted(t))

FairSpec == Spec /\ Fairness

-----------------------------------------------------------------------------
(* Properties *)

(* "There is a waking thread among us": outside of shutdown the word says  *)
(* Waking exactly when one thread holds is_waking, so the debug_asserts of *)
(* wait() and notify_slow() hold, and never does the pool believe in a     *)
(* waking thread that is gone.  A signal always comes with the             *)
(* notification that lets some thread take it over.                        *)
WakingThreads == {c \in Callers : isWaking[c]}
OneWakingThread ==
  sync.state # "Shutdown" =>
    /\ sync.state = "Waking" <=> WakingThreads # {}
    /\ \A c, d \in WakingThreads : c = d
    /\ sync.state = "Signaled" => sync.notified

(* The counters packed into the Sync word count what they say, so that     *)
(* neither idle - 1 nor the fetch_sub of unregister() ever borrows from    *)
(* the neighbouring bits.                                                  *)
IdleThreads == {t \in Workers : isIdle[t]}
LeftPcs == {"notifyJoin", "wakeJoin", "joinWait", "joinSleep", "joinNext",
           "joinWake", "exited"}
LiveThreads == {t \in Workers : pc[t] # "none" /\ pc[t] \notin LeftPcs}
Spawning == {c \in Callers : pc[c] = "spawn"}
SyncCounts ==
  /\ sync.state # "Shutdown" => sync.idle = Cardinality(IdleThreads)
  /\ sync.spawned = Cardinality(LiveThreads) + Cardinality(Spawning)

(* A scheduled task is in one queue, buffer or hand until its callback     *)
(* runs, and the callback runs once: pushing, overflowing, consuming and   *)
(* stealing neither lose nor duplicate a node.                             *)
Places(k) ==
  Cardinality({c \in Callers : k \in list[c]})
    + Cardinality({q \in Queues : k \in queue[q]})
    + Cardinality({t \in Workers : k \in grab[t]})
    + Cardinality({t \in Workers : k \in buf[t]})
    + Cardinality({t \in Workers : running[t] = k})
ExactlyOnce ==
  \A k \in Tasks :
    /\ Places(k) <= 1
    /\ runs[k] <= 1
    /\ k \in scheduled /\ Places(k) = 0 => runs[k] = 1

(* wait_for_all() returns only when every task scheduled so far, from      *)
(* outside or by another task, has run to its end.                         *)
WaitForAllMeansDone ==
  [][pc[Main] = "waitAll" /\ pc'[Main] = "ready" =>
       \A k \in scheduled : runs[k] = 1 /\ \A t \in Workers : running[t] # k]_vars

(* join() goes on only when no worker uses the pool any more.  The last    *)
(* worker's join_event.notify() is the exception that JoinNotifyOnLivePool *)
(* is about.                                                               *)
PoolOutlivesWorkers ==
  pc[Main] \in {"joinChain", "joinNext", "joinWake", "gone"} =>
    LiveThreads = {} /\ sync.state = "Shutdown" /\ sync.spawned = 0

(* unregister(): "`pool` is live until this notify wakes the joiner".      *)
JoinNotifyOnLivePool ==
  freed => \A t \in Workers : pc[t] \notin {"notifyJoin", "wakeJoin"}

(* A Thread lives on the stack of its worker, and others reach it through  *)
(* threads, next and target.  Once it is gone nobody loads or stores       *)
(* anything in it any more: the chain of join events swaps the word of a   *)
(* Thread while its worker is still in join_event.wait().  The futex wake  *)
(* that may follow the swap is the exception: the worker may see NOTIFIED  *)
(* before it and leave, so that wake(&self.state) of a thread in joinWake  *)
(* can name a stack that is gone.                                          *)
StacksOutliveAccess ==
  \A t \in Workers : pc[t] = "exited" =>
    /\ threads # t
    /\ \A c \in Callers : Follower(c) = t => pc[c] \in {"joinWake", Gone(c)}
    /\ \A u \in Workers : victim[u] = t \/ target[u] = t => u \notin LiveThreads

(* unregister() and join() say of the Thread they notify that "the BackRef *)
(* invariant (pointee outlives holder) holds" for the whole of notify().   *)
(* It does not for the futex wake, the exception above.                    *)
JoinWakeOnLiveStack ==
  \A c \in Callers : pc[c] = "joinWake" => pc[Follower(c)] # "exited"

(* Idle tasks that were pushed before drop() run before it returns, each   *)
(* of them once: the bundler's deinit tasks are not left behind.           *)
IdleTasksRunBeforeFree ==
  /\ freed => \A t \in Workers : idleQueue[t] = {}
  /\ \A k \in IdleTasks : idleRuns[k] <= 1

(* Every scheduled task runs, whoever scheduled it and whatever its        *)
(* notify() found: none is stranded in a queue next to sleeping workers.   *)
ScheduledTasksRun ==
  \A k \in Tasks : k \in scheduled ~> runs[k] = 1

(* drop() returns and all workers leave, unless idle_event.shutdown() left *)
(* a worker asleep (ShutdownWakesSleepers of Event): nothing else keeps    *)
(* drop() from returning, and no worker is forgotten by the chain of join  *)
(* events.                                                                 *)
MissedByShutdown ==
  /\ eventState = "SHUTDOWN"
  /\ \A c \in Callers : eventToWake[c] = "none"
  /\ \E t \in idle_event!Asleep : eventShrunk[t]
DropReturns ==
  pc[Main] = "shutdown" ~>
    \/ freed /\ \A t \in Workers : pc[t] \in {"none", "exited"}
    \/ MissedByShutdown

(* wake_for_idle_events() lets all threads "check for idle events": an     *)
(* idle task that was pushed runs.                                         *)
IdleTasksRun ==
  \A t \in Workers : (idleQueue[t] # {}) ~> (idleQueue[t] = {})

=============================================================================
