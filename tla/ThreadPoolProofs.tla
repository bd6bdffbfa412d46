-------------------------- MODULE ThreadPoolProofs --------------------------
(***************************************************************************)
(* Proofs about ThreadPool, for any number of workers, tasks and batches,  *)
(* any buffer capacity and any max_threads.                                *)
(***************************************************************************)
EXTENDS ThreadPool, FiniteSetTheorems, TLAPS

IdleEvent == INSTANCE EventProofs WITH
  Waiters <- Workers, Notifiers <- Callers, Closers <- {Main},
  state <- eventState, wpc <- eventPc, acquireWith <- eventAcquire,
  shrunk <- eventShrunk, toWake <- eventToWake, closed <- eventClosed

(* Every step of the pool is one of its actions, taken by one thread.      *)
LEMMA NextCases ==
  ASSUME [Next]_vars
  PROVE  \/ \E c \in Callers :
              \/ Add(c) \/ Push(c) \/ Notify(c) \/ NotifySlow(c)
              \/ EventNotify(c) \/ EventWake(c) \/ Spawn(c) \/ SpawnFail(c)
              \/ JoinStep(c) \/ JoinInterrupted(c)
         \/ \E t \in Workers :
              \/ PushBuffer(t) \/ Overflow(t) \/ PushOverflow(t) \/ Register(t)
              \/ WaitError(t) \/ WaitConsume(t) \/ WaitIdle(t) \/ WaitSleep(t)
              \/ DrainAndSleep(t) \/ Sleep(t) \/ SleepInterrupted(t) \/ PopBuffer(t)
              \/ PopOwnQueue(t) \/ PopPoolQueue(t) \/ StealQueue(t) \/ StealBuffer(t)
              \/ StealBufferEmpty(t) \/ PopNone(t) \/ Fill(t) \/ Publish(t)
              \/ Release(t) \/ Call(t) \/ Finish(t) \/ RunDrain(t)
              \/ ExitDrain(t) \/ Unregister(t) \/ NotifyJoin(t) \/ WakeJoin(t)
              \/ CountThreads(t)
         \/ schedule \/ wait_for_all \/ warm \/ push_idle_task \/ wake_for_idle_events
         \/ drop \/ shutdown \/ EventShutdown \/ join \/ JoinChain
         \/ UNCHANGED vars
<1>1. CASE \E t \in Workers : WorkerStep(t) \/ SleepInterrupted(t)
  BY <1>1 DEF WorkerStep, CallerStep, PopStep, Callers
<1>2. CASE MainStep \/ MainBegin
  BY <1>2 DEF MainStep, MainBegin, CallerStep, Callers
<1>3. CASE (\E c \in Callers : SpawnFail(c) \/ JoinInterrupted(c)) \/ Done \/ UNCHANGED vars
  BY <1>3 DEF Done
<1> QED
  BY <1>1, <1>2, <1>3 DEF Next

(* The words that notify_slow() leaves behind are words.                   *)
LEMMA SyncWords ==
  ASSUME sync \in Syncs, isWaking \in [Callers -> BOOLEAN]
  PROVE  /\ \A c \in Callers : WakeNobody(c) \in Syncs
         /\ Sync("Signaled", TRUE, sync.idle, sync.spawned) \in Syncs
         /\ Sync("Signaled", TRUE, sync.idle, sync.spawned + 1) \in Syncs
<1>1. ASSUME NEW c \in Callers PROVE WakeNobody(c) \in Syncs
  BY DEF WakeNobody, Sync, Syncs, States
<1>2. Sync("Signaled", TRUE, sync.idle, sync.spawned) \in Syncs
  BY DEF Sync, Syncs, States
<1>3. Sync("Signaled", TRUE, sync.idle, sync.spawned + 1) \in Syncs
  BY DEF Sync, Syncs, States
<1> QED
  BY <1>1, <1>2, <1>3

(* Every step leaves a well-formed Sync word.                              *)
LEMMA SyncStep ==
  ASSUME sync \in Syncs, isWaking \in [Callers -> BOOLEAN], [Next]_vars
  PROVE  sync' \in Syncs
<1> USE DEF Syncs, States, Sync
<1>1. ASSUME NEW c \in Callers, Add(c) PROVE sync' \in Syncs
  BY <1>1 DEF Add
<1>2. ASSUME NEW c \in Callers, Push(c) PROVE sync' \in Syncs
  BY <1>2 DEF Push, PushTo
<1>3. ASSUME NEW c \in Callers, Notify(c) PROVE sync' \in Syncs
  BY <1>3 DEF Notify
<1>4. ASSUME NEW c \in Callers, NotifySlow(c) PROVE sync' \in Syncs
  <2> HIDE DEF Syncs, States, Sync
  <2> QED
    BY <1>4, SyncWords DEF NotifySlow
<1>5. ASSUME NEW c \in Callers, EventNotify(c) PROVE sync' \in Syncs
  BY <1>5 DEF EventNotify
<1>6. ASSUME NEW c \in Callers, EventWake(c) PROVE sync' \in Syncs
  BY <1>6 DEF EventWake
<1>7. ASSUME NEW c \in Callers, Spawn(c) PROVE sync' \in Syncs
  BY <1>7 DEF Spawn
<1>8. ASSUME NEW c \in Callers, SpawnFail(c) PROVE sync' \in Syncs
  BY <1>8 DEF SpawnFail
<1>9. ASSUME NEW t \in Workers, PushBuffer(t) PROVE sync' \in Syncs
  BY <1>9 DEF PushBuffer
<1>10. ASSUME NEW t \in Workers, Overflow(t) PROVE sync' \in Syncs
  BY <1>10 DEF Overflow
<1>11. ASSUME NEW t \in Workers, PushOverflow(t) PROVE sync' \in Syncs
  BY <1>11 DEF PushOverflow, PushTo
<1>12. ASSUME NEW t \in Workers, Register(t) PROVE sync' \in Syncs
  BY <1>12 DEF Register
<1>13. ASSUME NEW t \in Workers, WaitError(t) PROVE sync' \in Syncs
  BY <1>13 DEF WaitError
<1>14. ASSUME NEW t \in Workers, WaitConsume(t) PROVE sync' \in Syncs
  BY <1>14 DEF WaitConsume, Consumed
<1>15. ASSUME NEW t \in Workers, WaitIdle(t) PROVE sync' \in Syncs
  BY <1>15 DEF WaitIdle
<1>16. ASSUME NEW t \in Workers, WaitSleep(t) PROVE sync' \in Syncs
  BY <1>16 DEF WaitSleep
<1>17. ASSUME NEW t \in Workers, DrainAndSleep(t) PROVE sync' \in Syncs
  BY <1>17 DEF DrainAndSleep, drain_idle_events
<1>18. ASSUME NEW t \in Workers, Sleep(t) PROVE sync' \in Syncs
  BY <1>18 DEF Sleep
<1>19. ASSUME NEW t \in Workers, SleepInterrupted(t) PROVE sync' \in Syncs
  BY <1>19 DEF SleepInterrupted
<1>20. ASSUME NEW t \in Workers, PopBuffer(t) PROVE sync' \in Syncs
  BY <1>20 DEF PopBuffer
<1>21. ASSUME NEW t \in Workers, PopOwnQueue(t) PROVE sync' \in Syncs
  BY <1>21 DEF PopOwnQueue, TryAcquireConsumer
<1>22. ASSUME NEW t \in Workers, PopPoolQueue(t) PROVE sync' \in Syncs
  BY <1>22 DEF PopPoolQueue, TryAcquireConsumer
<1>23. ASSUME NEW t \in Workers, StealQueue(t) PROVE sync' \in Syncs
  BY <1>23 DEF StealQueue, StealFrom, TryAcquireConsumer
<1>24. ASSUME NEW t \in Workers, StealBuffer(t) PROVE sync' \in Syncs
  BY <1>24 DEF StealBuffer, Stolen
<1>25. ASSUME NEW t \in Workers, StealBufferEmpty(t) PROVE sync' \in Syncs
  BY <1>25 DEF StealBufferEmpty
<1>26. ASSUME NEW t \in Workers, PopNone(t) PROVE sync' \in Syncs
  BY <1>26 DEF PopNone
<1>27. ASSUME NEW t \in Workers, Fill(t) PROVE sync' \in Syncs
  BY <1>27 DEF Fill
<1>28. ASSUME NEW t \in Workers, Publish(t) PROVE sync' \in Syncs
  BY <1>28 DEF Publish, AfterPop
<1>29. ASSUME NEW t \in Workers, Release(t) PROVE sync' \in Syncs
  BY <1>29 DEF Release, AfterPop
<1>30. ASSUME NEW t \in Workers, Call(t) PROVE sync' \in Syncs
  BY <1>30 DEF Call
<1>31. ASSUME NEW t \in Workers, Finish(t) PROVE sync' \in Syncs
  BY <1>31 DEF Finish
<1>32. ASSUME NEW t \in Workers, RunDrain(t) PROVE sync' \in Syncs
  BY <1>32 DEF RunDrain, drain_idle_events
<1>33. ASSUME NEW t \in Workers, ExitDrain(t) PROVE sync' \in Syncs
  BY <1>33 DEF ExitDrain, drain_idle_events
<1>34. ASSUME NEW t \in Workers, Unregister(t) PROVE sync' \in Syncs
  BY <1>34 DEF Unregister
<1>35. ASSUME NEW t \in Workers, NotifyJoin(t) PROVE sync' \in Syncs
  BY <1>35 DEF NotifyJoin, JoinFrame
<1>36. ASSUME NEW t \in Workers, WakeJoin(t) PROVE sync' \in Syncs
  BY <1>36 DEF WakeJoin, JoinFrame
<1>37. CASE schedule
  BY <1>37 DEF schedule
<1>38. CASE wait_for_all
  BY <1>38 DEF wait_for_all
<1>39. CASE warm
  BY <1>39 DEF warm
<1>40. CASE push_idle_task
  BY <1>40 DEF push_idle_task
<1>41. CASE wake_for_idle_events
  BY <1>41 DEF wake_for_idle_events
<1>42. CASE drop
  BY <1>42 DEF drop
<1>43. CASE shutdown
  BY <1>43 DEF shutdown
<1>44. CASE EventShutdown
  BY <1>44 DEF EventShutdown
<1>45. CASE join
  BY <1>45 DEF join
<1>46. ASSUME NEW c \in Callers, JoinStep(c) \/ JoinInterrupted(c) PROVE sync' \in Syncs
  BY <1>46 DEF JoinStep, JoinPublish, JoinFutexWait, JoinConsume, JoinNext, JoinWake,
                JoinInterrupted, JoinFrame
<1>47. CASE JoinChain
  BY <1>47 DEF JoinChain, JoinFrame
<1>48. CASE UNCHANGED vars
  BY <1>48 DEF vars
<1>49. ASSUME NEW t \in Workers, CountThreads(t) PROVE sync' \in Syncs
  BY <1>49 DEF CountThreads
<1> QED
  BY <1>1, <1>2, <1>3, <1>4, <1>5, <1>6, <1>7, <1>8, <1>9, <1>10, <1>11,
     <1>12, <1>13, <1>14, <1>15, <1>16, <1>17, <1>18, <1>19, <1>20, <1>21,
     <1>22, <1>23, <1>24, <1>25, <1>26, <1>27, <1>28, <1>29, <1>30, <1>31,
     <1>32, <1>33, <1>34, <1>35, <1>36, <1>37, <1>38, <1>39, <1>40, <1>41,
     <1>42, <1>43, <1>44, <1>45, <1>46, <1>47, <1>48, <1>49, NextCases

(* A worker that executes or returns a node has one, a worker that fills   *)
(* its buffer knows from which queue, and a thief knows its victim.        *)
NodePcs == {"release", "call", "add", "push", "pushBuffer", "overflow", "notify",
            "notifySlow", "event", "wake", "spawn", "finish"}
LocalsOK ==
  \A t \in Workers :
    /\ pc[t] \in NodePcs => running[t] \in Tasks
    /\ pc[t] = "fill" => from[t] \in Queues
    /\ pc[t] = "stealBuffer" => victim[t] \in Workers

(* try_acquire_consumer() keeps its variables well typed, and a worker that *)
(* goes on to fill its buffer has the queue.                               *)
LEMMA AcquireType ==
  ASSUME PoolTypeOK, LocalsOK, NEW t \in Workers, NEW q \in Queues,
         NEW o \in {"poolQueue", "count", "steal", "stealBuffer"},
         TryAcquireConsumer(t, q, o)
  PROVE  /\ consumer' \in [Queues -> Workers \cup {None}]
         /\ from' \in [Workers -> Queues \cup {None}]
         /\ pc' \in [Callers -> MainPcs \cup WorkerPcs \cup CallerPcs]
         /\ pc'[t] \in {o, "fill"}
         /\ pc'[t] = "fill" => from'[t] = q
         /\ \A c \in Callers : c # t => pc'[c] = pc[c]
         /\ \A u \in Workers : u # t => from'[u] = from[u]
<1> USE DEF PoolTypeOK, LocalsOK, Callers, Queues, Go, TryAcquireConsumer, WorkerPcs
<1>1. CASE consumer[q] # None \/ queue[q] = {}
  BY <1>1
<1>2. CASE ~(consumer[q] # None \/ queue[q] = {})
  <2>1. /\ consumer' = [consumer EXCEPT ![q] = t]
        /\ from' = [from EXCEPT ![t] = q]
        /\ pc' = [pc EXCEPT ![t] = "fill"]
    BY <1>2
  <2>2. /\ pc' \in [Callers -> MainPcs \cup WorkerPcs \cup CallerPcs]
        /\ pc'[t] = "fill" /\ \A c \in Callers : c # t => pc'[c] = pc[c]
    BY <2>1
  <2>3. /\ from' \in [Workers -> Queues \cup {None}]
        /\ from'[t] = q /\ \A u \in Workers : u # t => from'[u] = from[u]
    BY <2>1
  <2>4. consumer' \in [Queues -> Workers \cup {None}]
    BY <2>1
  <2> QED
    BY <2>2, <2>3, <2>4
<1> QED
  BY <1>1, <1>2

(* A step on a join_event moves one thread within the steps of leaving.    *)
LEMMA JoinTypeStep ==
  ASSUME PoolTypeOK, LocalsOK, JoinFrame, NEW c \in Callers, NEW p,
         pc' = pc \/ pc' = [pc EXCEPT ![c] = p],
         IF c = Main THEN p \in MainPcs ELSE p \in LeftPcs,
         UNCHANGED threadVars,
         joinState' \in [Callers -> {"EMPTY", "WAITING", "NOTIFIED"}],
         joinAsleep' \subseteq Callers, UNCHANGED first
  PROVE  PoolTypeOK' /\ LocalsOK'
<1>0. Main \in Callers /\ Workers \subseteq Callers /\ \A t \in Workers : t # Main
  BY NamesAssumption DEF Callers
<1>1. /\ pc' \in [Callers -> MainPcs \cup WorkerPcs \cup CallerPcs]
      /\ pc'[Main] \in MainPcs \cup CallerPcs
      /\ \A t \in Workers : pc'[t] = pc[t] \/ pc'[t] \in LeftPcs
  <2>1. LeftPcs \subseteq WorkerPcs
    BY DEF LeftPcs, WorkerPcs
  <2>2. CASE pc' = pc
    BY <2>2 DEF PoolTypeOK
  <2>3. CASE pc' = [pc EXCEPT ![c] = p]
    <3>1. pc \in [Callers -> MainPcs \cup WorkerPcs \cup CallerPcs]
          /\ pc[Main] \in MainPcs \cup CallerPcs
      BY DEF PoolTypeOK
    <3>2. QED
      BY <1>0, <2>1, <2>3, <3>1
  <2>4. QED
    BY <2>2, <2>3
<1>2. \A t \in Workers : pc'[t] \in WorkerPcs \cup CallerPcs
  BY <1>1 DEF PoolTypeOK, LeftPcs, WorkerPcs
<1>3. PoolTypeOK'
  BY <1>1, <1>2 DEF PoolTypeOK, JoinFrame, threadVars, popVars, queueVars, taskVars, idleVars
<1>4. \A t \in Workers :
        /\ pc'[t] \in NodePcs \cup {"fill", "stealBuffer"} => pc'[t] = pc[t]
        /\ running'[t] = running[t] /\ from'[t] = from[t] /\ victim'[t] = victim[t]
  BY <1>1 DEF JoinFrame, popVars, LeftPcs, NodePcs
<1>5. LocalsOK'
  BY <1>4 DEF LocalsOK
<1> QED
  BY <1>3, <1>5

(* Every step keeps the pool and the locals of its threads well formed.    *)
LEMMA PoolTypeStep ==
  PoolTypeOK /\ LocalsOK /\ [Next]_vars => PoolTypeOK' /\ LocalsOK'
<1> SUFFICES ASSUME PoolTypeOK, LocalsOK, [Next]_vars PROVE PoolTypeOK' /\ LocalsOK'
  OBVIOUS
<1>0. sync' \in Syncs
  BY SyncStep DEF PoolTypeOK
<1> USE NamesAssumption, TasksAssumption
        DEF PoolTypeOK, LocalsOK, NodePcs, MainPcs, WorkerPcs, CallerPcs,
            Callers, Queues, Go, threadVars, popVars, queueVars, taskVars, idleVars,
            joinVars, eventVars
<1>1. ASSUME NEW c \in Callers, Add(c) PROVE PoolTypeOK' /\ LocalsOK'
  <2>1. list[c] \in SUBSET Tasks /\ IsFiniteSet(list[c])
    BY FS_Subset
  <2>2. Cardinality(list[c]) \in Nat
    BY <2>1, FS_CardinalityType
  <2>3. waitGroup' \in Int
    BY <1>1, <2>2 DEF Add
  <2>4. CASE Go(c, "push")
    BY <1>0, <1>1, <2>3, <2>4 DEF Add
  <2>5. CASE c # Main /\ Go(c, "pushBuffer")
    BY <1>0, <1>1, <2>3, <2>5 DEF Add
  <2> QED
    BY <1>1, <2>4, <2>5 DEF Add
<1>2. ASSUME NEW c \in Callers, Push(c) PROVE PoolTypeOK' /\ LocalsOK'
  BY <1>0, <1>2 DEF Push, PushTo
<1>3. ASSUME NEW c \in Callers, Notify(c) PROVE PoolTypeOK' /\ LocalsOK'
  BY <1>0, <1>3 DEF Notify
<1>4. ASSUME NEW c \in Callers, NotifySlow(c) PROVE PoolTypeOK' /\ LocalsOK'
  <2>1. Go(c, ret[c]) \/ Go(c, "event") \/ Go(c, "spawn")
    BY <1>4 DEF NotifySlow
  <2>2. CASE Go(c, ret[c])
    BY <1>0, <1>4, <2>2 DEF NotifySlow
  <2>3. CASE Go(c, "event")
    BY <1>0, <1>4, <2>3 DEF NotifySlow
  <2>4. CASE Go(c, "spawn")
    BY <1>0, <1>4, <2>4 DEF NotifySlow
  <2> QED
    BY <2>1, <2>2, <2>3, <2>4
<1>5. ASSUME NEW c \in Callers, EventNotify(c) PROVE PoolTypeOK' /\ LocalsOK'
  BY <1>0, <1>5 DEF EventNotify
<1>6. ASSUME NEW c \in Callers, EventWake(c) PROVE PoolTypeOK' /\ LocalsOK'
  BY <1>0, <1>6 DEF EventWake
<1>7. ASSUME NEW c \in Callers, Spawn(c) PROVE PoolTypeOK' /\ LocalsOK'
  <2>1. Unstarted \in Workers /\ pc[Unstarted] = "none"
    BY <1>7 DEF Spawn, Unstarted
  <2>2. pc' = [pc EXCEPT ![c] = ret[c], ![Unstarted] = "register"]
    BY <1>7 DEF Spawn
  <2>3. c # Unstarted
    BY <1>7, <2>1 DEF Spawn
  <2>4. /\ pc' \in [Callers -> MainPcs \cup WorkerPcs \cup CallerPcs]
        /\ pc'[Main] \in MainPcs \cup CallerPcs
        /\ \A t \in Workers : pc'[t] \in WorkerPcs \cup CallerPcs
    <3>1. /\ c = Main => ret[c] \in {"ready", "warm", "join"}
          /\ c \in Workers => ret[c] \in {"call", "finish"}
          /\ c = Main \/ c \in Workers
      OBVIOUS
    <3>2. /\ pc'[c] = ret[c] /\ pc'[Unstarted] = "register"
          /\ \A d \in Callers : d # c /\ d # Unstarted => pc'[d] = pc[d]
      BY <2>1, <2>2, <2>3
    <3> QED
      BY <2>1, <2>2, <3>1, <3>2, SMTT(60)
  <2>5. PoolTypeOK'
    BY <1>0, <1>7, <2>4 DEF Spawn
  <2>6. LocalsOK'
    BY <1>7, <2>1, <2>2, <2>3 DEF Spawn
  <2> QED
    BY <2>5, <2>6
<1>8. ASSUME NEW c \in Callers, SpawnFail(c) PROVE PoolTypeOK' /\ LocalsOK'
  BY <1>0, <1>8 DEF SpawnFail
<1>9. ASSUME NEW t \in Workers, PushBuffer(t) PROVE PoolTypeOK' /\ LocalsOK'
  <2>1. Go(t, "notify") \/ UNCHANGED pc
    BY <1>9 DEF PushBuffer
  <2>2. /\ buf' \in [Workers -> SUBSET Tasks]
        /\ list' \in [Callers -> SUBSET Tasks]
    BY <1>9 DEF PushBuffer
  <2>3. CASE Go(t, "notify")
    BY <1>0, <1>9, <2>2, <2>3 DEF PushBuffer
  <2>4. CASE UNCHANGED pc
    BY <1>0, <1>9, <2>2, <2>4 DEF PushBuffer
  <2> QED
    BY <2>1, <2>3, <2>4
<1>10. ASSUME NEW t \in Workers, Overflow(t) PROVE PoolTypeOK' /\ LocalsOK'
  BY <1>0, <1>10 DEF Overflow
<1>11. ASSUME NEW t \in Workers, PushOverflow(t) PROVE PoolTypeOK' /\ LocalsOK'
  BY <1>0, <1>11 DEF PushOverflow, PushTo
<1>12. ASSUME NEW t \in Workers, Register(t) PROVE PoolTypeOK' /\ LocalsOK'
  BY <1>0, <1>12 DEF Register
<1>13. ASSUME NEW t \in Workers, WaitError(t) PROVE PoolTypeOK' /\ LocalsOK'
  BY <1>0, <1>13 DEF WaitError
<1>14. ASSUME NEW t \in Workers, WaitConsume(t) PROVE PoolTypeOK' /\ LocalsOK'
  BY <1>0, <1>14 DEF WaitConsume, Consumed
<1>15. ASSUME NEW t \in Workers, WaitIdle(t) PROVE PoolTypeOK' /\ LocalsOK'
  BY <1>0, <1>15 DEF WaitIdle
<1>16. ASSUME NEW t \in Workers, WaitSleep(t) PROVE PoolTypeOK' /\ LocalsOK'
  BY <1>0, <1>16 DEF WaitSleep
<1>17. ASSUME NEW t \in Workers, DrainAndSleep(t) PROVE PoolTypeOK' /\ LocalsOK'
  BY <1>0, <1>17 DEF DrainAndSleep, drain_idle_events
<1>18. ASSUME NEW t \in Workers, Sleep(t) PROVE PoolTypeOK' /\ LocalsOK'
  <2>1. Go(t, "wait") \/ UNCHANGED pc
    BY <1>18 DEF Sleep
  <2>2. CASE Go(t, "wait")
    BY <1>0, <1>18, <2>2 DEF Sleep
  <2>3. CASE UNCHANGED pc
    BY <1>0, <1>18, <2>3 DEF Sleep
  <2> QED
    BY <2>1, <2>2, <2>3
<1>19. ASSUME NEW t \in Workers, SleepInterrupted(t) PROVE PoolTypeOK' /\ LocalsOK'
  BY <1>0, <1>19 DEF SleepInterrupted
<1>20. ASSUME NEW t \in Workers, PopBuffer(t) PROVE PoolTypeOK' /\ LocalsOK'
  BY <1>0, <1>20 DEF PopBuffer
<1>21. ASSUME NEW t \in Workers, PopOwnQueue(t) PROVE PoolTypeOK' /\ LocalsOK'
  <2>1. /\ consumer' \in [Queues -> Workers \cup {None}]
        /\ from' \in [Workers -> Queues \cup {None}]
        /\ pc' \in [Callers -> MainPcs \cup WorkerPcs \cup CallerPcs]
        /\ pc'[t] \in {"poolQueue", "fill"}
        /\ pc'[t] = "fill" => from'[t] \in Queues
        /\ \A c \in Callers : c # t => pc'[c] = pc[c]
        /\ \A u \in Workers : u # t => from'[u] = from[u]
    <3>1. t \in Queues /\ TryAcquireConsumer(t, t, "poolQueue")
      BY <1>21 DEF PopOwnQueue
    <3> HIDE DEF PoolTypeOK, LocalsOK, Callers, Queues, Go, MainPcs, WorkerPcs, CallerPcs
    <3> QED
      BY <3>1, AcquireType
  <2>2. PoolTypeOK'
    BY <1>0, <1>21, <2>1 DEF PopOwnQueue
  <2>3. LocalsOK'
    BY <1>21, <2>1 DEF PopOwnQueue
  <2> QED
    BY <2>2, <2>3
<1>22. ASSUME NEW t \in Workers, PopPoolQueue(t) PROVE PoolTypeOK' /\ LocalsOK'
  <2>1. /\ consumer' \in [Queues -> Workers \cup {None}]
        /\ from' \in [Workers -> Queues \cup {None}]
        /\ pc' \in [Callers -> MainPcs \cup WorkerPcs \cup CallerPcs]
        /\ pc'[t] \in {"count", "fill"}
        /\ pc'[t] = "fill" => from'[t] \in Queues
        /\ \A c \in Callers : c # t => pc'[c] = pc[c]
        /\ \A u \in Workers : u # t => from'[u] = from[u]
    BY <1>22, AcquireType DEF PopPoolQueue
  <2>2. PoolTypeOK'
    BY <1>0, <1>22, <2>1 DEF PopPoolQueue
  <2>3. LocalsOK'
    BY <1>22, <2>1 DEF PopPoolQueue
  <2> QED
    BY <2>2, <2>3
<1>23. ASSUME NEW t \in Workers, StealQueue(t) PROVE PoolTypeOK' /\ LocalsOK'
  <2>0. PICK v \in Workers : StealFrom(t, v)
    BY <1>23 DEF StealQueue
  <2>4. /\ tries' \in [Workers -> Int]
        /\ victim' = [victim EXCEPT ![t] = v]
        /\ target' \in [Workers -> Workers \cup {None}]
    BY <2>0 DEF StealFrom
  <2>1. /\ consumer' \in [Queues -> Workers \cup {None}]
        /\ from' \in [Workers -> Queues \cup {None}]
        /\ pc' \in [Callers -> MainPcs \cup WorkerPcs \cup CallerPcs]
        /\ pc'[t] \in {"steal", "stealBuffer", "fill"}
        /\ pc'[t] = "fill" => from'[t] \in Queues
        /\ \A c \in Callers : c # t => pc'[c] = pc[c]
        /\ \A u \in Workers : u # t => from'[u] = from[u]
    <3>1. PICK o \in {"steal", "stealBuffer"} : TryAcquireConsumer(t, v, o)
      BY <2>0 DEF StealFrom
    <3>2. v \in Queues
      OBVIOUS
    <3> HIDE DEF PoolTypeOK, LocalsOK, Callers, Queues, Go, MainPcs, WorkerPcs, CallerPcs
    <3> QED
      BY <3>1, <3>2, AcquireType
  <2>5. /\ pc'[Main] \in MainPcs \cup CallerPcs
        /\ \A u \in Workers : pc'[u] \in WorkerPcs \cup CallerPcs
        /\ victim' \in [Workers -> Workers \cup {None}]
    BY <1>0, <2>1, <2>4
  <2>6. UNCHANGED <<sync, threads, next, ret, isWaking, isIdle, list, queue, grab,
                    buf, running, pushed, runs, waitGroup, scheduled, idleQueue,
                    idleRuns, joinState, joinAsleep, first, spawnFails>>
    BY <2>0 DEF StealFrom, TryAcquireConsumer
  <2>2. PoolTypeOK'
    <3> HIDE DEF LocalsOK, Callers, Queues, Go, MainPcs, WorkerPcs, CallerPcs
    <3> QED
      BY <2>1, <2>4, <2>5, <2>6
  <2>3. LocalsOK'
    BY <2>0, <2>1, <2>4 DEF StealFrom
  <2> QED
    BY <2>2, <2>3
<1>24. ASSUME NEW t \in Workers, StealBuffer(t) PROVE PoolTypeOK' /\ LocalsOK'
  BY <1>0, <1>24 DEF StealBuffer, Stolen
<1>25. ASSUME NEW t \in Workers, StealBufferEmpty(t) PROVE PoolTypeOK' /\ LocalsOK'
  BY <1>0, <1>25 DEF StealBufferEmpty
<1>26. ASSUME NEW t \in Workers, PopNone(t) PROVE PoolTypeOK' /\ LocalsOK'
  BY <1>0, <1>26 DEF PopNone
<1>27. ASSUME NEW t \in Workers, Fill(t) PROVE PoolTypeOK' /\ LocalsOK'
  BY <1>0, <1>27 DEF Fill
<1>28. ASSUME NEW t \in Workers, Publish(t) PROVE PoolTypeOK' /\ LocalsOK'
  BY <1>0, <1>28 DEF Publish, AfterPop
<1>29. ASSUME NEW t \in Workers, Release(t) PROVE PoolTypeOK' /\ LocalsOK'
  <2>1. Go(t, "notifySlow") \/ Go(t, "notify") \/ Go(t, "call")
    BY <1>29 DEF Release, AfterPop
  <2>2. /\ from' \in [Workers -> Queues \cup {None}]
        /\ consumer' \in [Queues -> Workers \cup {None}]
        /\ pushed' \in [Workers -> BOOLEAN]
    BY <1>29 DEF Release
  <2>3. CASE Go(t, "notifySlow")
    BY <1>0, <1>29, <2>2, <2>3 DEF Release
  <2>4. CASE Go(t, "notify")
    BY <1>0, <1>29, <2>2, <2>4 DEF Release
  <2>5. CASE Go(t, "call")
    BY <1>0, <1>29, <2>2, <2>5 DEF Release
  <2> QED
    BY <2>1, <2>3, <2>4, <2>5
<1>30. ASSUME NEW t \in Workers, Call(t) PROVE PoolTypeOK' /\ LocalsOK'
  BY <1>0, <1>30 DEF Call
<1>31. ASSUME NEW t \in Workers, Finish(t) PROVE PoolTypeOK' /\ LocalsOK'
  BY <1>0, <1>31 DEF Finish
<1>32. ASSUME NEW t \in Workers, RunDrain(t) PROVE PoolTypeOK' /\ LocalsOK'
  BY <1>0, <1>32 DEF RunDrain, drain_idle_events
<1>33. ASSUME NEW t \in Workers, ExitDrain(t) PROVE PoolTypeOK' /\ LocalsOK'
  BY <1>0, <1>33 DEF ExitDrain, drain_idle_events
<1>34. ASSUME NEW t \in Workers, Unregister(t) PROVE PoolTypeOK' /\ LocalsOK'
  BY <1>0, <1>34 DEF Unregister
<1>35. ASSUME NEW t \in Workers, NotifyJoin(t) PROVE PoolTypeOK' /\ LocalsOK'
  <2>1. /\ JoinFrame /\ UNCHANGED <<threadVars, joinAsleep, first>>
        /\ \E p \in {"wakeJoin", "joinWait"} : pc' = [pc EXCEPT ![t] = p]
    BY <1>35 DEF NotifyJoin
  <2>2. joinState' \in [Callers -> {"EMPTY", "WAITING", "NOTIFIED"}]
    BY <1>35 DEF NotifyJoin, JoinSwap
  <2> HIDE DEF PoolTypeOK, LocalsOK, MainPcs, WorkerPcs, CallerPcs
  <2>3. joinAsleep' \subseteq Callers /\ t # Main
    BY <2>1 DEF PoolTypeOK
  <2> QED
    BY <2>1, <2>2, <2>3, JoinTypeStep DEF LeftPcs
<1>36. ASSUME NEW t \in Workers, WakeJoin(t) PROVE PoolTypeOK' /\ LocalsOK'
  <2>1. /\ JoinFrame /\ UNCHANGED <<threadVars, joinState, first>>
        /\ pc' = [pc EXCEPT ![t] = "joinWait"] /\ joinAsleep' \subseteq joinAsleep
    BY <1>36 DEF WakeJoin, JoinFutexWake
  <2> HIDE DEF PoolTypeOK, LocalsOK, MainPcs, WorkerPcs, CallerPcs
  <2>2. joinAsleep' \subseteq Callers /\ t # Main
        /\ joinState' \in [Callers -> {"EMPTY", "WAITING", "NOTIFIED"}]
    BY <2>1 DEF PoolTypeOK
  <2> QED
    BY <2>1, <2>2, JoinTypeStep DEF LeftPcs
<1>37. CASE schedule
  BY <1>0, <1>37 DEF schedule
<1>38. CASE wait_for_all
  <2>1. CASE Go(Main, "waitAll")
    BY <1>0, <1>38, <2>1 DEF wait_for_all
  <2>2. CASE Go(Main, "ready")
    BY <1>0, <1>38, <2>2 DEF wait_for_all
  <2> QED
    BY <1>38, <2>1, <2>2 DEF wait_for_all
<1>39. CASE warm
  <2>1. /\ Go(Main, "spawn") \/ Go(Main, "ready")
        /\ ret' = [ret EXCEPT ![Main] = "warm"] \/ ret' = ret
    BY <1>39 DEF warm
  <2>2. /\ ret' \in [Callers -> {"ready", "warm", "join", "call", "finish"}]
        /\ ret'[Main] \in {"ready", "warm", "join"}
        /\ \A t \in Workers : ret'[t] \in {"call", "finish"}
    <3>1. CASE ret' = ret
      BY <3>1
    <3>2. CASE ret' = [ret EXCEPT ![Main] = "warm"]
      BY <3>2
    <3> QED
      BY <2>1, <3>1, <3>2
  <2>3. CASE Go(Main, "spawn")
    BY <1>0, <1>39, <2>2, <2>3 DEF warm
  <2>4. CASE Go(Main, "ready")
    BY <1>0, <1>39, <2>2, <2>4 DEF warm
  <2> QED
    BY <2>1, <2>3, <2>4
<1>40. CASE push_idle_task
  BY <1>0, <1>40 DEF push_idle_task
<1>41. CASE wake_for_idle_events
  BY <1>0, <1>41 DEF wake_for_idle_events
<1>42. CASE drop
  BY <1>0, <1>42 DEF drop
<1>43. CASE shutdown
  BY <1>0, <1>43 DEF shutdown
<1>44. CASE EventShutdown
  BY <1>0, <1>44 DEF EventShutdown
<1>45. CASE join
  BY <1>0, <1>45 DEF join
<1>46. ASSUME NEW c \in Callers, JoinStep(c) \/ JoinInterrupted(c) PROVE PoolTypeOK' /\ LocalsOK'
  <2>1. /\ JoinFrame /\ UNCHANGED <<threadVars, first>>
        /\ \/ pc' = pc
           \/ \E p \in {"joinSleep", AfterJoin(c), "joinWake", Gone(c)} : pc' = [pc EXCEPT ![c] = p]
    BY <1>46 DEF JoinStep, JoinPublish, JoinFutexWait, JoinConsume, JoinNext, JoinWake,
                 JoinInterrupted
  <2>2. joinState' \in [Callers -> {"EMPTY", "WAITING", "NOTIFIED"}]
    <3>1. \/ joinState' = joinState
          \/ \E d, w : w \in {"EMPTY", "WAITING", "NOTIFIED"}
                       /\ joinState' = [joinState EXCEPT ![d] = w]
      BY <1>46 DEF JoinStep, JoinPublish, JoinFutexWait, JoinConsume, JoinNext, JoinWake,
                   JoinInterrupted, JoinSwap
    <3>2. joinState \in [Callers -> {"EMPTY", "WAITING", "NOTIFIED"}]
      OBVIOUS
    <3> QED
      BY <3>1, <3>2
  <2>3. joinAsleep' \subseteq Callers
    BY <1>46 DEF JoinStep, JoinPublish, JoinFutexWait, JoinConsume, JoinNext, JoinWake,
                 JoinInterrupted, JoinFutexWake
  <2> HIDE DEF PoolTypeOK, LocalsOK, CallerPcs
  <2>4. \A p \in {"joinSleep", AfterJoin(c), "joinWake", Gone(c)} :
          IF c = Main THEN p \in MainPcs ELSE p \in LeftPcs
    BY DEF AfterJoin, Gone, LeftPcs
  <2> HIDE DEF MainPcs, WorkerPcs
  <2> QED
    BY <2>1, <2>2, <2>3, <2>4, JoinTypeStep
<1>47. CASE JoinChain
  BY <1>0, <1>47 DEF JoinChain, JoinFrame
<1>48. CASE UNCHANGED vars
  BY <1>0, <1>48 DEF vars
<1>49. ASSUME NEW t \in Workers, CountThreads(t) PROVE PoolTypeOK' /\ LocalsOK'
  BY <1>0, <1>49 DEF CountThreads, Syncs
<1> QED
  BY <1>1, <1>2, <1>3, <1>4, <1>5, <1>6, <1>7, <1>8, <1>9, <1>10, <1>11,
     <1>12, <1>13, <1>14, <1>15, <1>16, <1>17, <1>18, <1>19, <1>20, <1>21,
     <1>22, <1>23, <1>24, <1>25, <1>26, <1>27, <1>28, <1>29, <1>30, <1>31,
     <1>32, <1>33, <1>34, <1>35, <1>36, <1>37, <1>38, <1>39, <1>40, <1>41,
     <1>42, <1>43, <1>44, <1>45, <1>46, <1>47, <1>48, <1>49, NextCases

(* What the pool does with its idle_event.                                 *)
EventActs ==
  \/ \E t \in Workers :
       \/ idle_event!WaitBegin(t) \/ idle_event!WaitShutdown(t)
       \/ idle_event!WaitConsume(t) \/ idle_event!WaitPublish(t)
       \/ idle_event!FutexWait(t) \/ idle_event!FutexTimeout(t)
       \/ idle_event!FutexSpurious(t)
  \/ \E c \in Callers :
       idle_event!notify(c) \/ idle_event!wake_for_idle_events(c) \/ idle_event!FutexWake(c)
  \/ idle_event!shutdown(Main)
  \/ UNCHANGED eventVars

(* The actions of the pool, one by one, seen from its idle_event.          *)
LEMMA EventStep ==
  [Next]_vars => EventActs
<1> SUFFICES ASSUME [Next]_vars PROVE EventActs
  OBVIOUS
<1> USE DEF EventActs
<1>1. ASSUME NEW c \in Callers, Add(c) PROVE EventActs
  BY <1>1 DEF Add
<1>2. ASSUME NEW c \in Callers, Push(c) PROVE EventActs
  BY <1>2 DEF Push, PushTo
<1>3. ASSUME NEW c \in Callers, Notify(c) PROVE EventActs
  BY <1>3 DEF Notify
<1>4. ASSUME NEW c \in Callers, NotifySlow(c) PROVE EventActs
  BY <1>4 DEF NotifySlow, CanWake, WakeNobody
<1>5. ASSUME NEW c \in Callers, EventNotify(c) PROVE EventActs
  BY <1>5 DEF EventNotify
<1>6. ASSUME NEW c \in Callers, EventWake(c) PROVE EventActs
  BY <1>6 DEF EventWake
<1>7. ASSUME NEW c \in Callers, Spawn(c) PROVE EventActs
  BY <1>7 DEF Spawn
<1>8. ASSUME NEW c \in Callers, SpawnFail(c) PROVE EventActs
  BY <1>8 DEF SpawnFail
<1>9. ASSUME NEW t \in Workers, PushBuffer(t) PROVE EventActs
  BY <1>9 DEF PushBuffer
<1>10. ASSUME NEW t \in Workers, Overflow(t) PROVE EventActs
  BY <1>10 DEF Overflow
<1>11. ASSUME NEW t \in Workers, PushOverflow(t) PROVE EventActs
  BY <1>11 DEF PushOverflow, PushTo
<1>12. ASSUME NEW t \in Workers, Register(t) PROVE EventActs
  BY <1>12 DEF Register
<1>13. ASSUME NEW t \in Workers, WaitError(t) PROVE EventActs
  BY <1>13 DEF WaitError
<1>14. ASSUME NEW t \in Workers, WaitConsume(t) PROVE EventActs
  BY <1>14 DEF WaitConsume, Consumed
<1>15. ASSUME NEW t \in Workers, WaitIdle(t) PROVE EventActs
  BY <1>15 DEF WaitIdle
<1>16. ASSUME NEW t \in Workers, WaitSleep(t) PROVE EventActs
  BY <1>16 DEF WaitSleep
<1>17. ASSUME NEW t \in Workers, DrainAndSleep(t) PROVE EventActs
  BY <1>17 DEF DrainAndSleep, drain_idle_events
<1>18. ASSUME NEW t \in Workers, Sleep(t) PROVE EventActs
  BY <1>18 DEF Sleep
<1>19. ASSUME NEW t \in Workers, SleepInterrupted(t) PROVE EventActs
  BY <1>19 DEF SleepInterrupted
<1>20. ASSUME NEW t \in Workers, PopBuffer(t) PROVE EventActs
  BY <1>20 DEF PopBuffer
<1>21. ASSUME NEW t \in Workers, PopOwnQueue(t) PROVE EventActs
  BY <1>21 DEF PopOwnQueue, TryAcquireConsumer
<1>22. ASSUME NEW t \in Workers, PopPoolQueue(t) PROVE EventActs
  BY <1>22 DEF PopPoolQueue, TryAcquireConsumer
<1>23. ASSUME NEW t \in Workers, StealQueue(t) PROVE EventActs
  BY <1>23 DEF StealQueue, StealFrom, TryAcquireConsumer
<1>24. ASSUME NEW t \in Workers, StealBuffer(t) PROVE EventActs
  BY <1>24 DEF StealBuffer, Stolen
<1>25. ASSUME NEW t \in Workers, StealBufferEmpty(t) PROVE EventActs
  BY <1>25 DEF StealBufferEmpty
<1>26. ASSUME NEW t \in Workers, PopNone(t) PROVE EventActs
  BY <1>26 DEF PopNone
<1>27. ASSUME NEW t \in Workers, Fill(t) PROVE EventActs
  BY <1>27 DEF Fill
<1>28. ASSUME NEW t \in Workers, Publish(t) PROVE EventActs
  BY <1>28 DEF Publish, AfterPop
<1>29. ASSUME NEW t \in Workers, Release(t) PROVE EventActs
  BY <1>29 DEF Release, AfterPop
<1>30. ASSUME NEW t \in Workers, Call(t) PROVE EventActs
  BY <1>30 DEF Call
<1>31. ASSUME NEW t \in Workers, Finish(t) PROVE EventActs
  BY <1>31 DEF Finish
<1>32. ASSUME NEW t \in Workers, RunDrain(t) PROVE EventActs
  BY <1>32 DEF RunDrain, drain_idle_events
<1>33. ASSUME NEW t \in Workers, ExitDrain(t) PROVE EventActs
  BY <1>33 DEF ExitDrain, drain_idle_events
<1>34. ASSUME NEW t \in Workers, Unregister(t) PROVE EventActs
  BY <1>34 DEF Unregister
<1>35. ASSUME NEW t \in Workers, NotifyJoin(t) PROVE EventActs
  BY <1>35 DEF NotifyJoin, JoinFrame
<1>36. ASSUME NEW t \in Workers, WakeJoin(t) PROVE EventActs
  BY <1>36 DEF WakeJoin, JoinFrame
<1>37. CASE schedule
  BY <1>37 DEF schedule
<1>38. CASE wait_for_all
  BY <1>38 DEF wait_for_all
<1>39. CASE warm
  BY <1>39 DEF warm
<1>40. CASE push_idle_task
  BY <1>40 DEF push_idle_task
<1>41. CASE wake_for_idle_events
  BY <1>41 DEF wake_for_idle_events, Callers
<1>42. CASE drop
  BY <1>42 DEF drop
<1>43. CASE shutdown
  BY <1>43 DEF shutdown
<1>44. CASE EventShutdown
  BY <1>44 DEF EventShutdown
<1>45. CASE join
  BY <1>45 DEF join
<1>46. ASSUME NEW c \in Callers, JoinStep(c) \/ JoinInterrupted(c) PROVE EventActs
  BY <1>46 DEF JoinStep, JoinPublish, JoinFutexWait, JoinConsume, JoinNext, JoinWake,
                JoinInterrupted, JoinFrame
<1>47. CASE JoinChain
  BY <1>47 DEF JoinChain, JoinFrame
<1>48. CASE UNCHANGED vars
  BY <1>48 DEF vars
<1>49. ASSUME NEW t \in Workers, CountThreads(t) PROVE EventActs
  BY <1>49 DEF CountThreads
<1> QED
  BY <1>1, <1>2, <1>3, <1>4, <1>5, <1>6, <1>7, <1>8, <1>9, <1>10, <1>11,
     <1>12, <1>13, <1>14, <1>15, <1>16, <1>17, <1>18, <1>19, <1>20, <1>21,
     <1>22, <1>23, <1>24, <1>25, <1>26, <1>27, <1>28, <1>29, <1>30, <1>31,
     <1>32, <1>33, <1>34, <1>35, <1>36, <1>37, <1>38, <1>39, <1>40, <1>41,
     <1>42, <1>43, <1>44, <1>45, <1>46, <1>47, <1>48, <1>49, NextCases

(* These are steps of the Event that EventProofs is about.                 *)
LEMMA EventNextStep ==
  EventActs => [IdleEvent!EventNext]_IdleEvent!evars
BY DEF EventActs, Callers, eventVars, IdleEvent!EventNext, IdleEvent!evars, IdleEvent!Wakers,
       idle_event!WaitBegin, idle_event!WaitShutdown, idle_event!WaitConsume,
       idle_event!WaitPublish, idle_event!FutexWait, idle_event!FutexTimeout,
       idle_event!FutexSpurious, idle_event!notify, idle_event!wake_for_idle_events,
       idle_event!FutexWake, idle_event!shutdown, idle_event!Swap, idle_event!Return,
       idle_event!Recheck, idle_event!Asleep,
       IdleEvent!WaitBegin, IdleEvent!WaitShutdown, IdleEvent!WaitConsume,
       IdleEvent!WaitPublish, IdleEvent!FutexWait, IdleEvent!FutexTimeout,
       IdleEvent!FutexSpurious, IdleEvent!notify, IdleEvent!wake_for_idle_events,
       IdleEvent!FutexWake, IdleEvent!shutdown, IdleEvent!Swap, IdleEvent!Return,
       IdleEvent!Recheck, IdleEvent!Asleep

(* idle_event is the same Event, whether seen from ThreadPool or from here. *)
LEMMA SameType == idle_event!EventTypeOK <=> IdleEvent!EventTypeOK
BY DEF idle_event!EventTypeOK, IdleEvent!EventTypeOK, idle_event!Words, IdleEvent!Words,
       idle_event!Wakers, IdleEvent!Wakers

(* The inductive invariant behind TypeOK: without LocalsOK a callback      *)
(* could be called for no task and a thief could have no victim.           *)
TypeInv == PoolTypeOK /\ LocalsOK /\ IdleEvent!EventTypeOK

(* A new pool is well formed.                                              *)
LEMMA TypeInvInit == Init => TypeInv
<1> SUFFICES ASSUME Init PROVE TypeInv
  OBVIOUS
<1>1. sync \in Syncs
  BY DEF Init, Sync, Syncs, States
<1>2. PoolTypeOK
  <2> USE NamesAssumption DEF Init, Callers, Queues
  <2>1. /\ pc \in [Callers -> MainPcs \cup WorkerPcs \cup CallerPcs]
        /\ pc[Main] \in MainPcs \cup CallerPcs
        /\ \A t \in Workers : pc[t] \in WorkerPcs \cup CallerPcs
    BY DEF MainPcs, WorkerPcs, CallerPcs
  <2>2. /\ ret \in [Callers -> {"ready", "warm", "join", "call", "finish"}]
        /\ ret[Main] \in {"ready", "warm", "join"}
        /\ \A t \in Workers : ret[t] \in {"call", "finish"}
    OBVIOUS
  <2>3. /\ threads \in Workers \cup {None}
        /\ next \in [Workers -> Workers \cup {None}]
        /\ target \in [Workers -> Workers \cup {None}]
        /\ victim \in [Workers -> Workers \cup {None}]
        /\ isWaking \in [Callers -> BOOLEAN] /\ isIdle \in [Workers -> BOOLEAN]
        /\ tries \in [Workers -> Int]
        /\ list \in [Callers -> SUBSET Tasks]
        /\ queue \in [Queues -> SUBSET Tasks]
        /\ consumer \in [Queues -> Workers \cup {None}]
        /\ from \in [Workers -> Queues \cup {None}]
    OBVIOUS
  <2>4. /\ grab \in [Workers -> SUBSET Tasks] /\ buf \in [Workers -> SUBSET Tasks]
        /\ running \in [Workers -> Tasks \cup {None}]
        /\ pushed \in [Workers -> BOOLEAN]
        /\ runs \in [Tasks -> Nat] /\ waitGroup \in Int /\ scheduled \subseteq Tasks
        /\ idleQueue \in [Workers -> SUBSET IdleTasks] /\ idleRuns \in [IdleTasks -> Nat]
        /\ spawnFails \in Nat
    OBVIOUS
  <2>5. /\ joinState \in [Callers -> {"EMPTY", "WAITING", "NOTIFIED"}]
        /\ joinAsleep \subseteq Callers /\ first \in Workers \cup {None}
    OBVIOUS
  <2> QED
    BY <1>1, <2>1, <2>2, <2>3, <2>4, <2>5 DEF PoolTypeOK
<1>3. LocalsOK
  BY NamesAssumption DEF Init, LocalsOK, NodePcs, Callers
<1>4. IdleEvent!EventTypeOK
  BY DEF Init, idle_event!EventInit, IdleEvent!EventTypeOK, IdleEvent!Words,
         idle_event!Wakers, IdleEvent!Wakers
<1> QED
  BY <1>2, <1>3, <1>4 DEF TypeInv

(* Every step keeps the pool and its idle_event well formed.               *)
LEMMA TypeInvStep == TypeInv /\ [Next]_vars => TypeInv'
<1> SUFFICES ASSUME TypeInv, [Next]_vars PROVE TypeInv'
  OBVIOUS
<1>1. PoolTypeOK' /\ LocalsOK'
  BY PoolTypeStep DEF TypeInv
<1>2. [IdleEvent!EventNext]_IdleEvent!evars
  BY EventStep, EventNextStep
<1>3. IdleEvent!EventTypeOK'
  BY <1>2, IdleEvent!EventTypeStep DEF TypeInv
<1> QED
  BY <1>1, <1>3 DEF TypeInv

(* Through every interleaving of schedule(), the workers and drop(), the   *)
(* Sync word, the queues, the buffers, the locals of every thread and the  *)
(* idle_event stay well formed: in particular Main is never in the code of *)
(* a worker, and a worker that runs a callback holds a task.               *)
THEOREM PoolTypeCorrect == Spec => []TypeOK
<1>1. TypeInv => TypeOK
  BY SameType DEF TypeInv, TypeOK
<1> QED
  BY <1>1, TypeInvInit, TypeInvStep, PTL DEF Spec

(* OneWakingThread is inductive given the types: most actions touch        *)
(* neither the state nor is_waking; the others pass the waking state on or *)
(* give it up.                                                             *)
LEMMA OneWakingStep ==
  TypeInv /\ OneWakingThread /\ [Next]_vars => OneWakingThread'
<1> SUFFICES ASSUME TypeInv, OneWakingThread, [Next]_vars PROVE OneWakingThread'
  OBVIOUS
<1> DEFINE Same == /\ isWaking' = isWaking
                   /\ sync'.state = sync.state /\ sync'.notified = sync.notified
<1>0. Same => OneWakingThread'
  BY DEF OneWakingThread, WakingThreads
<1>s. sync \in Syncs /\ isWaking \in [Callers -> BOOLEAN] /\ Workers \subseteq Callers
  BY DEF TypeInv, PoolTypeOK, Callers
<1> HIDE DEF Same
<1>1. ASSUME NEW c \in Callers, Add(c) PROVE OneWakingThread'
  BY <1>0, <1>s, <1>1 DEF Add, Same
<1>2. ASSUME NEW c \in Callers, Push(c) PROVE OneWakingThread'
  BY <1>0, <1>s, <1>2 DEF Push, PushTo, Same
<1>3. ASSUME NEW c \in Callers, Notify(c) PROVE OneWakingThread'
  BY <1>0, <1>s, <1>3 DEF Notify, Same
<1>4. ASSUME NEW c \in Callers, NotifySlow(c) PROVE OneWakingThread'
  <2> USE <1>s DEF OneWakingThread, WakingThreads
  <2>1. isWaking' = [isWaking EXCEPT ![c] = FALSE]
    BY <1>4 DEF NotifySlow
  <2>2. CASE sync.state = "Shutdown" /\ UNCHANGED sync
    BY <2>2
  <2>3. CASE /\ sync.state # "Shutdown" /\ CanWake(c)
             /\ sync'.state = "Signaled" /\ sync'.notified
    <3>1. WakingThreads \subseteq {c}
      BY <2>3 DEF CanWake
    <3>2. WakingThreads' = {}
      BY <2>1, <3>1
    <3> QED
      BY <2>3, <3>2
  <2>4. CASE sync.state # "Shutdown" /\ sync' = WakeNobody(c)
    <3>1. CASE isWaking[c]
      <4>1. WakingThreads' = {}
        BY <2>1, <2>4, <3>1
      <4>2. sync'.state = "Pending"
        BY <2>4, <3>1 DEF WakeNobody, Sync
      <4> QED
        BY <4>1, <4>2
    <3>2. CASE ~isWaking[c]
      <4>1. WakingThreads' = WakingThreads
        BY <2>1, <3>2
      <4>2. sync'.state = sync.state /\ sync'.notified
        BY <2>4, <3>2 DEF WakeNobody, Sync
      <4> QED
        BY <4>1, <4>2
    <3> QED
      BY <3>1, <3>2
  <2> QED
    BY <1>4, <2>2, <2>3, <2>4 DEF NotifySlow, Sync
<1>5. ASSUME NEW c \in Callers, EventNotify(c) PROVE OneWakingThread'
  BY <1>0, <1>s, <1>5 DEF EventNotify, Same
<1>6. ASSUME NEW c \in Callers, EventWake(c) PROVE OneWakingThread'
  BY <1>0, <1>s, <1>6 DEF EventWake, Same
<1>7. ASSUME NEW c \in Callers, Spawn(c) PROVE OneWakingThread'
  BY <1>0, <1>s, <1>7 DEF Spawn, Same
<1>8. ASSUME NEW c \in Callers, SpawnFail(c) PROVE OneWakingThread'
  BY <1>0, <1>s, <1>8 DEF SpawnFail, Same, Syncs
<1>9. ASSUME NEW t \in Workers, PushBuffer(t) PROVE OneWakingThread'
  BY <1>0, <1>s, <1>9 DEF PushBuffer, Same
<1>10. ASSUME NEW t \in Workers, Overflow(t) PROVE OneWakingThread'
  BY <1>0, <1>s, <1>10 DEF Overflow, Same
<1>11. ASSUME NEW t \in Workers, PushOverflow(t) PROVE OneWakingThread'
  BY <1>0, <1>s, <1>11 DEF PushOverflow, PushTo, Same
<1>12. ASSUME NEW t \in Workers, Register(t) PROVE OneWakingThread'
  BY <1>0, <1>s, <1>12 DEF Register, Same
<1>13. ASSUME NEW t \in Workers, WaitError(t) PROVE OneWakingThread'
  BY <1>0, <1>s, <1>13 DEF WaitError, Same
<1>14. ASSUME NEW t \in Workers, WaitConsume(t) PROVE OneWakingThread'
  <2> USE <1>s DEF OneWakingThread, WakingThreads
  <2>1. /\ sync.state # "Shutdown" /\ sync.notified
        /\ isWaking' = [isWaking EXCEPT ![t] = @ \/ sync.state = "Signaled"]
    BY <1>14 DEF WaitConsume
  <2>2. CASE sync.state = "Signaled"
    <3>1. WakingThreads = {}
      BY <2>1, <2>2
    <3>2. WakingThreads' = {t}
      BY <2>1, <2>2, <3>1
    <3>3. sync'.state = "Waking"
      BY <1>14, <2>2 DEF WaitConsume, Consumed, Sync
    <3> QED
      BY <3>2, <3>3
  <2>3. CASE sync.state # "Signaled"
    <3>1. WakingThreads' = WakingThreads
      BY <2>1, <2>3
    <3>2. sync'.state = sync.state
      BY <1>14, <2>3 DEF WaitConsume, Consumed, Sync
    <3> QED
      BY <2>1, <2>3, <3>1, <3>2
  <2> QED
    BY <2>2, <2>3
<1>15. ASSUME NEW t \in Workers, WaitIdle(t) PROVE OneWakingThread'
  <2> USE <1>s DEF OneWakingThread, WakingThreads
  <2>1. /\ sync.state # "Shutdown"
        /\ isWaking' = [isWaking EXCEPT ![t] = FALSE]
        /\ sync'.state = IF isWaking[t] THEN "Pending" ELSE sync.state
        /\ sync'.notified = sync.notified
    BY <1>15 DEF WaitIdle, Sync
  <2>2. CASE isWaking[t]
    <3>1. WakingThreads' = {}
      BY <2>1, <2>2
    <3> QED
      BY <2>1, <2>2, <3>1
  <2>3. CASE ~isWaking[t]
    <3>1. WakingThreads' = WakingThreads
      BY <2>1, <2>3
    <3> QED
      BY <2>1, <2>3, <3>1
  <2> QED
    BY <2>2, <2>3
<1>16. ASSUME NEW t \in Workers, WaitSleep(t) PROVE OneWakingThread'
  BY <1>0, <1>s, <1>16 DEF WaitSleep, Same
<1>17. ASSUME NEW t \in Workers, DrainAndSleep(t) PROVE OneWakingThread'
  BY <1>0, <1>s, <1>17 DEF DrainAndSleep, drain_idle_events, Same
<1>18. ASSUME NEW t \in Workers, Sleep(t) PROVE OneWakingThread'
  BY <1>0, <1>s, <1>18 DEF Sleep, Same
<1>19. ASSUME NEW t \in Workers, SleepInterrupted(t) PROVE OneWakingThread'
  BY <1>0, <1>s, <1>19 DEF SleepInterrupted, Same
<1>20. ASSUME NEW t \in Workers, PopBuffer(t) PROVE OneWakingThread'
  BY <1>0, <1>s, <1>20 DEF PopBuffer, Same
<1>21. ASSUME NEW t \in Workers, PopOwnQueue(t) PROVE OneWakingThread'
  BY <1>0, <1>s, <1>21 DEF PopOwnQueue, TryAcquireConsumer, Same
<1>22. ASSUME NEW t \in Workers, PopPoolQueue(t) PROVE OneWakingThread'
  BY <1>0, <1>s, <1>22 DEF PopPoolQueue, TryAcquireConsumer, Same
<1>23. ASSUME NEW t \in Workers, StealQueue(t) PROVE OneWakingThread'
  BY <1>0, <1>s, <1>23 DEF StealQueue, StealFrom, TryAcquireConsumer, Same
<1>24. ASSUME NEW t \in Workers, StealBuffer(t) PROVE OneWakingThread'
  BY <1>0, <1>s, <1>24 DEF StealBuffer, Stolen, Same
<1>25. ASSUME NEW t \in Workers, StealBufferEmpty(t) PROVE OneWakingThread'
  BY <1>0, <1>s, <1>25 DEF StealBufferEmpty, Same
<1>26. ASSUME NEW t \in Workers, PopNone(t) PROVE OneWakingThread'
  BY <1>0, <1>s, <1>26 DEF PopNone, Same
<1>27. ASSUME NEW t \in Workers, Fill(t) PROVE OneWakingThread'
  BY <1>0, <1>s, <1>27 DEF Fill, Same
<1>28. ASSUME NEW t \in Workers, Publish(t) PROVE OneWakingThread'
  BY <1>0, <1>s, <1>28 DEF Publish, AfterPop, Same
<1>29. ASSUME NEW t \in Workers, Release(t) PROVE OneWakingThread'
  BY <1>0, <1>s, <1>29 DEF Release, AfterPop, Same
<1>30. ASSUME NEW t \in Workers, Call(t) PROVE OneWakingThread'
  BY <1>0, <1>s, <1>30 DEF Call, Same
<1>31. ASSUME NEW t \in Workers, Finish(t) PROVE OneWakingThread'
  BY <1>0, <1>s, <1>31 DEF Finish, Same
<1>32. ASSUME NEW t \in Workers, RunDrain(t) PROVE OneWakingThread'
  BY <1>0, <1>s, <1>32 DEF RunDrain, drain_idle_events, Same
<1>33. ASSUME NEW t \in Workers, ExitDrain(t) PROVE OneWakingThread'
  BY <1>0, <1>s, <1>33 DEF ExitDrain, drain_idle_events, Same
<1>34. ASSUME NEW t \in Workers, Unregister(t) PROVE OneWakingThread'
  BY <1>0, <1>s, <1>34 DEF Unregister, Same, Syncs
<1>35. ASSUME NEW t \in Workers, NotifyJoin(t) PROVE OneWakingThread'
  BY <1>0, <1>s, <1>35 DEF NotifyJoin, JoinFrame, Same
<1>36. ASSUME NEW t \in Workers, WakeJoin(t) PROVE OneWakingThread'
  BY <1>0, <1>s, <1>36 DEF WakeJoin, JoinFrame, Same
<1>37. CASE schedule
  BY <1>0, <1>s, <1>37 DEF schedule, Same
<1>38. CASE wait_for_all
  BY <1>0, <1>s, <1>38 DEF wait_for_all, Same
<1>39. CASE warm
  BY <1>0, <1>s, <1>39 DEF warm, Same, Syncs
<1>40. CASE push_idle_task
  BY <1>0, <1>s, <1>40 DEF push_idle_task, Same
<1>41. CASE wake_for_idle_events
  BY <1>0, <1>s, <1>41 DEF wake_for_idle_events, Same
<1>42. CASE drop
  BY <1>0, <1>s, <1>42 DEF drop, Same
<1>43. CASE shutdown
  BY <1>43 DEF shutdown, Sync, OneWakingThread
<1>44. CASE EventShutdown
  BY <1>0, <1>s, <1>44 DEF EventShutdown, Same
<1>45. CASE join
  BY <1>0, <1>s, <1>45 DEF join, Same
<1>46. ASSUME NEW c \in Callers, JoinStep(c) \/ JoinInterrupted(c) PROVE OneWakingThread'
  BY <1>0, <1>s, <1>46 DEF JoinStep, JoinPublish, JoinFutexWait, JoinConsume, JoinNext, JoinWake,
                JoinInterrupted, JoinFrame, Same
<1>47. CASE JoinChain
  BY <1>0, <1>s, <1>47 DEF JoinChain, JoinFrame, Same
<1>48. CASE UNCHANGED vars
  BY <1>0, <1>s, <1>48 DEF vars, Same
<1>49. ASSUME NEW t \in Workers, CountThreads(t) PROVE OneWakingThread'
  BY <1>0, <1>s, <1>49 DEF CountThreads, Same
<1> QED
  BY <1>1, <1>2, <1>3, <1>4, <1>5, <1>6, <1>7, <1>8, <1>9, <1>10, <1>11,
     <1>12, <1>13, <1>14, <1>15, <1>16, <1>17, <1>18, <1>19, <1>20, <1>21,
     <1>22, <1>23, <1>24, <1>25, <1>26, <1>27, <1>28, <1>29, <1>30, <1>31,
     <1>32, <1>33, <1>34, <1>35, <1>36, <1>37, <1>38, <1>39, <1>40, <1>41,
     <1>42, <1>43, <1>44, <1>45, <1>46, <1>47, <1>48, <1>49, NextCases

(* "There is a waking thread among us", for any number of threads: outside *)
(* of shutdown the Sync word says Waking exactly when one thread holds     *)
(* is_waking, no two threads ever hold it, and a signal never lacks the    *)
(* notification that lets a worker take it over.                           *)
THEOREM WakingThreadUnique == Spec => []OneWakingThread
<1>1. Init => OneWakingThread
  BY DEF Init, OneWakingThread, WakingThreads, Sync
<1> QED
  BY <1>1, TypeInvInit, TypeInvStep, OneWakingStep, PTL DEF Spec

-----------------------------------------------------------------------------
(* Counting, shutting down and leaving: the inductive invariant.           *)

(* The steps of drop() after the swap that shuts the pool down.            *)
JoiningPcs == {"join", "joinWait", "joinSleep", "joinChain", "joinNext", "joinWake", "gone"}
ClosingPcs == {"eventShutdown"} \cup JoiningPcs
Closing == pc[Main] \in ClosingPcs \/ (pc[Main] = "wake" /\ ret[Main] = "join")

(* The word says Shutdown from the moment Main has shut the pool down, and *)
(* Main returns from idle_event.shutdown() into join() and nowhere else.   *)
MainOK ==
  /\ sync.state = "Shutdown" <=> Closing
  /\ ret[Main] = "join" => pc[Main] \in {"wake"} \cup JoiningPcs

(* Whoever lets join() go on has seen the last thread leave.               *)
JoinedPcs == {"joinChain", "joinNext", "joinWake", "gone"}
LastLeft == joinState[Main] = "NOTIFIED" \/ (\E t \in Workers : pc[t] = "notifyJoin")
              \/ pc[Main] \in JoinedPcs
JoinOK == LastLeft => sync.state = "Shutdown" /\ sync.spawned = 0

LeavingPcs == {"exitDrain", "unregister"} \cup LeftPcs
LeavingOK == \A t \in Workers : pc[t] \in LeavingPcs => sync.state = "Shutdown"

(* A worker that is not there yet, or has drained its queue and is leaving, *)
(* has no idle tasks; an idle task is in one queue, until it runs.         *)
DrainedPcs == {"none", "register", "unregister"} \cup LeftPcs
IdleOK ==
  /\ \A t \in Workers : pc[t] \in DrainedPcs => idleQueue[t] = {}
  /\ \A k \in IdleTasks :
       /\ idleRuns[k] <= 1
       /\ \A t \in Workers : k \in idleQueue[t] => idleRuns[k] = 0
       /\ \A t, u \in Workers : k \in idleQueue[t] /\ k \in idleQueue[u] => t = u

(* The stack of threads has no sharing: nobody is below two threads, and   *)
(* nobody is above the top, or above the thread join() begins with.        *)
LinksOK ==
  /\ \A t, u \in Workers :
       threads = t \/ first = t \/ next[u] = t => pc[t] \notin {"none", "register"}
  /\ threads # None => \A u \in Workers : next[u] # threads
  /\ first # None => first # threads /\ \A u \in Workers : next[u] # first
  /\ \A u, v \in Workers : next[u] = next[v] /\ next[u] # None => u = v

(* The chain: join() has taken the stack, and a thread has been notified   *)
(* only if the one above it on the stack has made its swap.                *)
ChainedPcs == {"joinNext", "joinWake", "gone"}
SwappedPcs == {"joinWake", "gone"}
PassingPcs == {"joinNext", "joinWake", "exited"}
PassedPcs == {"joinWake", "exited"}
Notified(t) == joinState[t] = "NOTIFIED" \/ pc[t] \in PassingPcs
TokensOK ==
  /\ pc[Main] \in ChainedPcs => threads = None
  /\ pc[Main] \notin ChainedPcs => first = None
  /\ \A t \in Workers : Notified(t) =>
       pc[Main] \in SwappedPcs /\ \A u \in Workers : next[u] = t => pc[u] \in PassedPcs

JoinInv ==
  /\ TypeInv /\ SyncCounts
  /\ MainOK /\ JoinOK /\ LeavingOK /\ IdleOK /\ LinksOK /\ TokensOK

(* What of a thread's pc the invariant can tell apart, and what a step     *)
(* that does not touch it keeps.                                           *)
Stage(p) == IF p \in {"none", "register", "spawn"} \cup LeavingPcs THEN p ELSE "busy"

QuietPc ==
  /\ \A c \in Callers : Stage(pc'[c]) = Stage(pc[c])
  /\ Closing' <=> Closing
  /\ ret'[Main] = "join" => pc'[Main] \in {"wake"} \cup JoiningPcs
  /\ pc'[Main] = "joinChain" <=> pc[Main] = "joinChain"
  /\ pc'[Main] = "gone" <=> pc[Main] = "gone"

Quiet ==
  /\ QuietPc
  /\ sync'.state = sync.state /\ sync'.idle = sync.idle /\ sync'.spawned = sync.spawned
  /\ isIdle' = isIdle /\ threads' = threads /\ next' = next
  /\ joinState' = joinState /\ first' = first
  /\ idleQueue' = idleQueue /\ idleRuns' = idleRuns

LEMMA PoolTypes ==
  ASSUME TypeInv
  PROVE  /\ pc \in [Callers -> MainPcs \cup WorkerPcs \cup CallerPcs]
         /\ ret \in [Callers -> {"ready", "warm", "join", "call", "finish"}]
         /\ pc[Main] \in MainPcs \cup CallerPcs
         /\ ret[Main] \in {"ready", "warm", "join"}
         /\ \A t \in Workers : /\ pc[t] \in WorkerPcs \cup CallerPcs
                               /\ ret[t] \in {"call", "finish"}
                               /\ t \in Callers /\ t # Main /\ t # None
         /\ Main \in Callers /\ \A c \in Callers : c = Main \/ c \in Workers
         /\ sync \in Syncs /\ isIdle \in [Workers -> BOOLEAN]
BY NamesAssumption DEF TypeInv, PoolTypeOK, Callers

LEMMA WorkerQuiet ==
  ASSUME TypeInv, MainOK, NEW t \in Workers, NEW p, pc' = [pc EXCEPT ![t] = p],
         Stage(p) = Stage(pc[t]), ret'[Main] = ret[Main]
  PROVE  QuietPc
<1>1. pc'[Main] = pc[Main] /\ pc'[t] = p /\ \A c \in Callers \ {t} : pc'[c] = pc[c]
  BY PoolTypes
<1>2. \A c \in Callers : Stage(pc'[c]) = Stage(pc[c])
  BY <1>1
<1>3. QED
  BY <1>1, <1>2 DEF QuietPc, Closing, MainOK

LEMMA MainQuiet ==
  ASSUME TypeInv, MainOK, ~Closing, NEW p, pc' = [pc EXCEPT ![Main] = p],
         p \notin ClosingPcs, Stage(p) = Stage(pc[Main]), ret'[Main] # "join"
  PROVE  QuietPc
<1>1. pc'[Main] = p /\ \A c \in Callers \ {Main} : pc'[c] = pc[c]
  BY PoolTypes
<1>2. \A c \in Callers : Stage(pc'[c]) = Stage(pc[c])
  BY <1>1
<1>3. ~(Closing')
  BY <1>1 DEF Closing
<1>4. pc[Main] \notin ClosingPcs
  BY DEF Closing
<1>5. QED
  BY <1>1, <1>2, <1>3, <1>4 DEF QuietPc, ClosingPcs, JoiningPcs

LEMMA CallerQuiet ==
  ASSUME TypeInv, MainOK, NEW c \in Callers, NEW p, pc' = [pc EXCEPT ![c] = p], ret' = ret,
         \/ pc[c] \in {"notify", "event", "wake"} /\ p = ret[c]
         \/ /\ pc[c] \in {"add", "push", "notify", "event", "overflow"}
            /\ p \in {"push", "pushBuffer", "notify", "notifySlow", "wake"}
  PROVE  QuietPc
<1>1. CASE c \in Workers
  <2>1. ret[c] \in {"call", "finish"}
    BY <1>1, PoolTypes
  <2>2. Stage(pc[c]) = "busy" /\ Stage(p) = "busy"
    BY <2>1 DEF Stage, LeavingPcs, LeftPcs
  <2>3. QED
    BY <1>1, <2>2, WorkerQuiet
<1>2. CASE c = Main /\ ret[Main] # "join"
  <2>1. ret[Main] \in {"ready", "warm"}
    BY <1>2, PoolTypes
  <2>2. Stage(pc[Main]) = "busy" /\ Stage(p) = "busy" /\ p \notin ClosingPcs
    BY <1>2, <2>1 DEF Stage, LeavingPcs, ClosingPcs, LeftPcs, JoiningPcs
  <2>3. ~Closing
    BY <1>2 DEF Closing, ClosingPcs, JoiningPcs
  <2>4. QED
    BY <1>2, <2>2, <2>3, MainQuiet
<1>3. CASE c = Main /\ ret[Main] = "join"
  <2>1. pc[Main] = "wake" /\ p = "join"
    BY <1>3 DEF MainOK, JoiningPcs
  <2>2. pc'[Main] = "join" /\ \A d \in Callers \ {Main} : pc'[d] = pc[d]
    BY <1>3, <2>1, PoolTypes
  <2>3. Stage("join") = "busy" /\ Stage("wake") = "busy"
    BY DEF Stage, LeavingPcs, LeftPcs
  <2>4. \A d \in Callers : Stage(pc'[d]) = Stage(pc[d])
    BY <2>1, <2>2, <2>3
  <2>5. QED
    BY <1>3, <2>1, <2>2, <2>4 DEF QuietPc, Closing, ClosingPcs, JoiningPcs
<1>4. QED
  BY <1>1, <1>2, <1>3, PoolTypes

(* Most steps are quiet; these are the others.                             *)
LEMMA StepKinds ==
  ASSUME TypeInv, MainOK, [Next]_vars
  PROVE  \/ Quiet
         \/ \E c \in Callers : NotifySlow(c) \/ Spawn(c) \/ SpawnFail(c)
         \/ \E t \in Workers :
              \/ Register(t) \/ WaitError(t) \/ WaitConsume(t) \/ WaitIdle(t)
              \/ DrainAndSleep(t) \/ RunDrain(t) \/ ExitDrain(t) \/ Unregister(t)
              \/ NotifyJoin(t) \/ WakeJoin(t)
         \/ \E c \in Callers : JoinStep(c)
         \/ warm \/ push_idle_task \/ shutdown \/ join \/ JoinChain
<1> DEFINE Frame == /\ sync' = sync /\ isIdle' = isIdle /\ threads' = threads /\ next' = next
                    /\ joinState' = joinState /\ first' = first
                    /\ idleQueue' = idleQueue /\ idleRuns' = idleRuns
<1>0. QuietPc /\ Frame => Quiet
  BY DEF Quiet
<1> USE DEF threadVars, joinVars, idleVars
<1>1. ASSUME NEW c \in Callers, Add(c) PROVE Quiet
  <2>1. PICK p \in {"push", "pushBuffer"} : pc' = [pc EXCEPT ![c] = p]
    BY <1>1 DEF Add, Go
  <2>2. pc[c] = "add" /\ ret' = ret /\ Frame
    BY <1>1 DEF Add
  <2> HIDE DEF Frame
  <2>3. QED
    BY <1>0, <2>1, <2>2, CallerQuiet
<1>2. ASSUME NEW c \in Callers, Push(c) PROVE Quiet
  <2>1. pc[c] = "push" /\ pc' = [pc EXCEPT ![c] = "notify"] /\ ret' = ret /\ Frame
    BY <1>2 DEF Push, PushTo, Go
  <2> HIDE DEF Frame
  <2>2. QED
    BY <1>0, <2>1, CallerQuiet
<1>3. ASSUME NEW c \in Callers, Notify(c) PROVE Quiet
  <2>1. PICK p : p \in {ret[c], "notifySlow"} /\ pc' = [pc EXCEPT ![c] = p]
    BY <1>3 DEF Notify, Go
  <2>2. pc[c] = "notify" /\ ret' = ret /\ Frame
    BY <1>3 DEF Notify
  <2> HIDE DEF Frame
  <2>3. QED
    BY <1>0, <2>1, <2>2, CallerQuiet
<1>4. ASSUME NEW c \in Callers, EventNotify(c) PROVE Quiet
  <2>1. PICK p : p \in {ret[c], "wake"} /\ pc' = [pc EXCEPT ![c] = p]
    BY <1>4 DEF EventNotify, Go
  <2>2. pc[c] = "event" /\ ret' = ret /\ Frame
    BY <1>4 DEF EventNotify
  <2> HIDE DEF Frame
  <2>3. QED
    BY <1>0, <2>1, <2>2, CallerQuiet
<1>5. ASSUME NEW c \in Callers, EventWake(c) PROVE Quiet
  <2>1. pc[c] = "wake" /\ pc' = [pc EXCEPT ![c] = ret[c]] /\ ret' = ret /\ Frame
    BY <1>5 DEF EventWake, Go
  <2> HIDE DEF Frame
  <2>2. QED
    BY <1>0, <2>1, CallerQuiet
<1> DEFINE Busy == {"wait", "drain", "sleep", "pop", "poolQueue", "count", "steal",
                    "stealBuffer", "fill", "publish", "release", "call", "pushBuffer",
                    "overflow", "finish", "runDrain", "add", "push", "notify", "notifySlow",
                    "event", "wake"}
<1>6. ASSUME NEW t \in Workers, pc[t] \in Busy,
             pc' = pc \/ \E p \in Busy : pc' = [pc EXCEPT ![t] = p],
             \/ ret' = ret \/ ret' = [ret EXCEPT ![t] = "call"]
             \/ ret' = [ret EXCEPT ![t] = "finish"],
             Frame
      PROVE  Quiet
  <2> HIDE DEF Frame
  <2>1. PICK p \in Busy : pc' = [pc EXCEPT ![t] = p]
    BY <1>6, PoolTypes
  <2>2. Stage(p) = "busy" /\ Stage(pc[t]) = "busy"
    BY <1>6 DEF Stage, LeavingPcs, LeftPcs
  <2>3. ret'[Main] = ret[Main]
    BY <1>6, PoolTypes
  <2>4. QED
    BY <1>0, <1>6, <2>1, <2>2, <2>3, WorkerQuiet
<1> HIDE DEF Busy
<1>7. ASSUME NEW t \in Workers, PushBuffer(t) PROVE Quiet
  <2>1. /\ pc[t] \in Busy
        /\ pc' = pc \/ \E p \in Busy : pc' = [pc EXCEPT ![t] = p]
    BY <1>7 DEF PushBuffer, Go, Busy
  <2>2. /\ \/ ret' = ret \/ ret' = [ret EXCEPT ![t] = "call"]
           \/ ret' = [ret EXCEPT ![t] = "finish"]
        /\ Frame
    BY <1>7 DEF PushBuffer, Go
  <2>3. QED
    BY <1>6, <2>1, <2>2
<1>8. ASSUME NEW t \in Workers, Overflow(t) PROVE Quiet
  <2>1. /\ pc[t] \in Busy
        /\ pc' = pc \/ \E p \in Busy : pc' = [pc EXCEPT ![t] = p]
    BY <1>8 DEF Overflow, Go, Busy
  <2>2. /\ \/ ret' = ret \/ ret' = [ret EXCEPT ![t] = "call"]
           \/ ret' = [ret EXCEPT ![t] = "finish"]
        /\ Frame
    BY <1>8 DEF Overflow, Go
  <2>3. QED
    BY <1>6, <2>1, <2>2
<1>9. ASSUME NEW t \in Workers, PushOverflow(t) PROVE Quiet
  <2>1. /\ pc[t] \in Busy
        /\ pc' = pc \/ \E p \in Busy : pc' = [pc EXCEPT ![t] = p]
    BY <1>9 DEF PushOverflow, PushTo, Go, Busy
  <2>2. /\ \/ ret' = ret \/ ret' = [ret EXCEPT ![t] = "call"]
           \/ ret' = [ret EXCEPT ![t] = "finish"]
        /\ Frame
    BY <1>9 DEF PushOverflow, PushTo, Go
  <2>3. QED
    BY <1>6, <2>1, <2>2
<1>10. ASSUME NEW t \in Workers, WaitSleep(t) PROVE Quiet
  <2>1. /\ pc[t] \in Busy
        /\ pc' = pc \/ \E p \in Busy : pc' = [pc EXCEPT ![t] = p]
    BY <1>10 DEF WaitSleep, Go, Busy
  <2>2. /\ \/ ret' = ret \/ ret' = [ret EXCEPT ![t] = "call"]
           \/ ret' = [ret EXCEPT ![t] = "finish"]
        /\ Frame
    BY <1>10 DEF WaitSleep, Go
  <2>3. QED
    BY <1>6, <2>1, <2>2
<1>11. ASSUME NEW t \in Workers, Sleep(t) PROVE Quiet
  <2>1. /\ pc[t] \in Busy
        /\ pc' = pc \/ \E p \in Busy : pc' = [pc EXCEPT ![t] = p]
    BY <1>11 DEF Sleep, Go, Busy
  <2>2. /\ \/ ret' = ret \/ ret' = [ret EXCEPT ![t] = "call"]
           \/ ret' = [ret EXCEPT ![t] = "finish"]
        /\ Frame
    BY <1>11 DEF Sleep, Go
  <2>3. QED
    BY <1>6, <2>1, <2>2
<1>12. ASSUME NEW t \in Workers, PopBuffer(t) PROVE Quiet
  <2>1. /\ pc[t] \in Busy
        /\ pc' = pc \/ \E p \in Busy : pc' = [pc EXCEPT ![t] = p]
    BY <1>12 DEF PopBuffer, Go, Busy
  <2>2. /\ \/ ret' = ret \/ ret' = [ret EXCEPT ![t] = "call"]
           \/ ret' = [ret EXCEPT ![t] = "finish"]
        /\ Frame
    BY <1>12 DEF PopBuffer, Go
  <2>3. QED
    BY <1>6, <2>1, <2>2
<1>13. ASSUME NEW t \in Workers, PopOwnQueue(t) PROVE Quiet
  <2>1. /\ pc[t] \in Busy
        /\ pc' = pc \/ \E p \in Busy : pc' = [pc EXCEPT ![t] = p]
    BY <1>13 DEF PopOwnQueue, TryAcquireConsumer, Go, Busy
  <2>2. /\ \/ ret' = ret \/ ret' = [ret EXCEPT ![t] = "call"]
           \/ ret' = [ret EXCEPT ![t] = "finish"]
        /\ Frame
    BY <1>13 DEF PopOwnQueue, TryAcquireConsumer, Go
  <2>3. QED
    BY <1>6, <2>1, <2>2
<1>14. ASSUME NEW t \in Workers, PopPoolQueue(t) PROVE Quiet
  <2>1. /\ pc[t] \in Busy
        /\ pc' = pc \/ \E p \in Busy : pc' = [pc EXCEPT ![t] = p]
    BY <1>14 DEF PopPoolQueue, TryAcquireConsumer, Go, Busy
  <2>2. /\ \/ ret' = ret \/ ret' = [ret EXCEPT ![t] = "call"]
           \/ ret' = [ret EXCEPT ![t] = "finish"]
        /\ Frame
    BY <1>14 DEF PopPoolQueue, TryAcquireConsumer, Go
  <2>3. QED
    BY <1>6, <2>1, <2>2
<1>15. ASSUME NEW t \in Workers, CountThreads(t) PROVE Quiet
  <2>1. /\ pc[t] \in Busy
        /\ pc' = pc \/ \E p \in Busy : pc' = [pc EXCEPT ![t] = p]
    BY <1>15 DEF CountThreads, Go, Busy
  <2>2. /\ \/ ret' = ret \/ ret' = [ret EXCEPT ![t] = "call"]
           \/ ret' = [ret EXCEPT ![t] = "finish"]
        /\ Frame
    BY <1>15 DEF CountThreads, Go
  <2>3. QED
    BY <1>6, <2>1, <2>2
<1>16. ASSUME NEW t \in Workers, StealQueue(t) PROVE Quiet
  <2>1. /\ pc[t] \in Busy
        /\ pc' = pc \/ \E p \in Busy : pc' = [pc EXCEPT ![t] = p]
    BY <1>16 DEF StealQueue, StealFrom, TryAcquireConsumer, Go, Busy
  <2>2. /\ \/ ret' = ret \/ ret' = [ret EXCEPT ![t] = "call"]
           \/ ret' = [ret EXCEPT ![t] = "finish"]
        /\ Frame
    BY <1>16 DEF StealQueue, StealFrom, TryAcquireConsumer, Go
  <2>3. QED
    BY <1>6, <2>1, <2>2
<1>17. ASSUME NEW t \in Workers, StealBuffer(t) PROVE Quiet
  <2>1. /\ pc[t] \in Busy
        /\ pc' = pc \/ \E p \in Busy : pc' = [pc EXCEPT ![t] = p]
    BY <1>17 DEF StealBuffer, Stolen, Go, Busy
  <2>2. /\ \/ ret' = ret \/ ret' = [ret EXCEPT ![t] = "call"]
           \/ ret' = [ret EXCEPT ![t] = "finish"]
        /\ Frame
    BY <1>17 DEF StealBuffer, Stolen, Go
  <2>3. QED
    BY <1>6, <2>1, <2>2
<1>18. ASSUME NEW t \in Workers, StealBufferEmpty(t) PROVE Quiet
  <2>1. /\ pc[t] \in Busy
        /\ pc' = pc \/ \E p \in Busy : pc' = [pc EXCEPT ![t] = p]
    BY <1>18 DEF StealBufferEmpty, Go, Busy
  <2>2. /\ \/ ret' = ret \/ ret' = [ret EXCEPT ![t] = "call"]
           \/ ret' = [ret EXCEPT ![t] = "finish"]
        /\ Frame
    BY <1>18 DEF StealBufferEmpty, Go
  <2>3. QED
    BY <1>6, <2>1, <2>2
<1>19. ASSUME NEW t \in Workers, PopNone(t) PROVE Quiet
  <2>1. /\ pc[t] \in Busy
        /\ pc' = pc \/ \E p \in Busy : pc' = [pc EXCEPT ![t] = p]
    BY <1>19 DEF PopNone, Go, Busy
  <2>2. /\ \/ ret' = ret \/ ret' = [ret EXCEPT ![t] = "call"]
           \/ ret' = [ret EXCEPT ![t] = "finish"]
        /\ Frame
    BY <1>19 DEF PopNone, Go
  <2>3. QED
    BY <1>6, <2>1, <2>2
<1>20. ASSUME NEW t \in Workers, Fill(t) PROVE Quiet
  <2>1. /\ pc[t] \in Busy
        /\ pc' = pc \/ \E p \in Busy : pc' = [pc EXCEPT ![t] = p]
    BY <1>20 DEF Fill, Go, Busy
  <2>2. /\ \/ ret' = ret \/ ret' = [ret EXCEPT ![t] = "call"]
           \/ ret' = [ret EXCEPT ![t] = "finish"]
        /\ Frame
    BY <1>20 DEF Fill, Go
  <2>3. QED
    BY <1>6, <2>1, <2>2
<1>21. ASSUME NEW t \in Workers, Publish(t) PROVE Quiet
  <2>1. /\ pc[t] \in Busy
        /\ pc' = pc \/ \E p \in Busy : pc' = [pc EXCEPT ![t] = p]
    BY <1>21 DEF Publish, AfterPop, Go, Busy
  <2>2. /\ \/ ret' = ret \/ ret' = [ret EXCEPT ![t] = "call"]
           \/ ret' = [ret EXCEPT ![t] = "finish"]
        /\ Frame
    BY <1>21 DEF Publish, AfterPop, Go
  <2>3. QED
    BY <1>6, <2>1, <2>2
<1>22. ASSUME NEW t \in Workers, Release(t) PROVE Quiet
  <2>1. /\ pc[t] \in Busy
        /\ pc' = pc \/ \E p \in Busy : pc' = [pc EXCEPT ![t] = p]
    BY <1>22 DEF Release, AfterPop, Go, Busy
  <2>2. /\ \/ ret' = ret \/ ret' = [ret EXCEPT ![t] = "call"]
           \/ ret' = [ret EXCEPT ![t] = "finish"]
        /\ Frame
    BY <1>22 DEF Release, AfterPop, Go
  <2>3. QED
    BY <1>6, <2>1, <2>2
<1>23. ASSUME NEW t \in Workers, Call(t) PROVE Quiet
  <2>1. /\ pc[t] \in Busy
        /\ pc' = pc \/ \E p \in Busy : pc' = [pc EXCEPT ![t] = p]
    BY <1>23 DEF Call, Go, Busy
  <2>2. /\ \/ ret' = ret \/ ret' = [ret EXCEPT ![t] = "call"]
           \/ ret' = [ret EXCEPT ![t] = "finish"]
        /\ Frame
    BY <1>23 DEF Call, Go
  <2>3. QED
    BY <1>6, <2>1, <2>2
<1>24. ASSUME NEW t \in Workers, Finish(t) PROVE Quiet
  <2>1. /\ pc[t] \in Busy
        /\ pc' = pc \/ \E p \in Busy : pc' = [pc EXCEPT ![t] = p]
    BY <1>24 DEF Finish, Go, Busy
  <2>2. /\ \/ ret' = ret \/ ret' = [ret EXCEPT ![t] = "call"]
           \/ ret' = [ret EXCEPT ![t] = "finish"]
        /\ Frame
    BY <1>24 DEF Finish, Go
  <2>3. QED
    BY <1>6, <2>1, <2>2
<1>25. ASSUME pc' = pc, ret' = ret, Frame PROVE Quiet
  <2>1. QuietPc
    BY <1>25 DEF QuietPc, Closing, MainOK
  <2>2. QED
    BY <1>0, <1>25, <2>1
<1>26. ASSUME NEW t \in Workers, SleepInterrupted(t) PROVE Quiet
  BY <1>25, <1>26 DEF SleepInterrupted
<1>34. ASSUME NEW c \in Callers, JoinInterrupted(c) PROVE Quiet
  BY <1>25, <1>34 DEF JoinInterrupted, JoinFrame
<1>27. CASE UNCHANGED vars
  BY <1>25, <1>27 DEF vars
<1>28. ASSUME NEW p \in {"add", "waitAll", "ready", "shutdown", "wake"},
             pc[Main] \in {"ready", "waitAll", "wakeIdle"}, pc' = [pc EXCEPT ![Main] = p],
             ret' = ret \/ ret' = [ret EXCEPT ![Main] = "ready"], Frame
      PROVE  Quiet
  <2> HIDE DEF Frame
  <2>1. ~Closing /\ ret[Main] # "join"
    BY <1>28 DEF Closing, ClosingPcs, MainOK, JoiningPcs
  <2>2. ret'[Main] # "join"
    BY <1>28, <2>1, PoolTypes
  <2>3. Stage(p) = "busy" /\ Stage(pc[Main]) = "busy" /\ p \notin ClosingPcs
    BY <1>28 DEF Stage, LeavingPcs, ClosingPcs, LeftPcs, JoiningPcs
  <2>4. QED
    BY <1>0, <1>28, <2>1, <2>2, <2>3, MainQuiet
<1>29. CASE schedule
  BY <1>28, <1>29 DEF schedule, Go
<1>30. CASE wait_for_all
  BY <1>28, <1>30 DEF wait_for_all, Go
<1>31. CASE wake_for_idle_events
  BY <1>28, <1>31 DEF wake_for_idle_events, Go
<1>32. CASE drop
  BY <1>28, <1>32 DEF drop, Go
<1>33. CASE EventShutdown
  <2>1. PICK p \in {"wake", "join"} : pc' = [pc EXCEPT ![Main] = p]
    BY <1>33 DEF EventShutdown, Go
  <2>2. pc[Main] = "eventShutdown" /\ ret' = [ret EXCEPT ![Main] = "join"] /\ Frame
    BY <1>33 DEF EventShutdown
  <2> HIDE DEF Frame
  <2>3. pc'[Main] = p /\ ret'[Main] = "join" /\ \A d \in Callers \ {Main} : pc'[d] = pc[d]
    BY <2>1, <2>2, PoolTypes
  <2>4. Stage("join") = "busy" /\ Stage("wake") = "busy" /\ Stage("eventShutdown") = "busy"
    BY DEF Stage, LeavingPcs, LeftPcs
  <2>5. \A d \in Callers : Stage(pc'[d]) = Stage(pc[d])
    BY <2>1, <2>2, <2>3, <2>4
  <2>6. QuietPc
    BY <2>1, <2>2, <2>3, <2>5 DEF QuietPc, Closing, ClosingPcs, JoiningPcs
  <2>7. QED
    BY <1>0, <2>2, <2>6
<1>35. QED
  BY <1>1, <1>2, <1>3, <1>4, <1>5, <1>6, <1>7, <1>8, <1>9, <1>10, <1>11, <1>12, <1>13,
     <1>14, <1>15, <1>16, <1>17, <1>18, <1>19, <1>20, <1>21, <1>22, <1>23, <1>24, <1>25,
     <1>26, <1>27, <1>28, <1>29, <1>30, <1>31, <1>32, <1>33, <1>34, NextCases

(* A step in join_event.wait(), or in the notify() of a chain of events.   *)
LEMMA JoinMoves ==
  ASSUME TypeInv, NEW c \in Callers, JoinStep(c)
  PROVE  /\ sync' = sync /\ isIdle' = isIdle /\ ret' = ret
         /\ threads' = threads /\ next' = next /\ first' = first
         /\ idleQueue' = idleQueue /\ idleRuns' = idleRuns
         /\ pc[c] \in {"joinWait", "joinSleep", "joinNext", "joinWake"}
         /\ \E p : /\ pc' = [pc EXCEPT ![c] = p]
                   /\ p \in IF c = Main THEN {"joinSleep", "joinChain", "joinWake", "gone"}
                           ELSE {"joinSleep", "joinNext", "joinWake", "exited"}
         /\ \A d \in Callers : joinState'[d] = "NOTIFIED" =>
              joinState[d] = "NOTIFIED" \/ (JoinNext(c) /\ Follower(c) = d)
<1> USE DEF threadVars, idleVars, JoinFrame, Go, Gone, AfterJoin, JoinLooks
<1>0. joinState \in [Callers -> {"EMPTY", "WAITING", "NOTIFIED"}]
  BY DEF TypeInv, PoolTypeOK
<1>1. CASE JoinPublish(c)
  BY <1>0, <1>1 DEF JoinPublish
<1>2. CASE JoinFutexWait(c)
  BY <1>2 DEF JoinFutexWait
<1>3. CASE JoinConsume(c)
  BY <1>0, <1>3 DEF JoinConsume
<1>4. CASE JoinNext(c)
  <2>1. /\ joinState' = [joinState EXCEPT ![Follower(c)] = "NOTIFIED"]
        /\ \A d \in Callers : d # Follower(c) => joinState'[d] = joinState[d]
    BY <1>0, <1>4 DEF JoinNext, JoinSwap
  <2>2. QED
    BY <1>4, <2>1 DEF JoinNext
<1>5. CASE JoinWake(c)
  BY <1>5 DEF JoinWake
<1>6. QED
  BY <1>1, <1>2, <1>3, <1>4, <1>5 DEF JoinStep

(* The sets that SyncCounts counts.                                        *)
GonePcs == {"none"} \cup LeftPcs

LEMMA FiniteSets ==
  /\ IsFiniteSet(LiveThreads) /\ Cardinality(LiveThreads) \in Nat
  /\ IsFiniteSet(IdleThreads) /\ Cardinality(IdleThreads) \in Nat
  /\ IsFiniteSet(Spawning) /\ Cardinality(Spawning) \in Nat
<1>1. IsFiniteSet(Workers) /\ IsFiniteSet(Callers)
  BY TasksAssumption, FS_AddElement DEF Callers
<1>2. LiveThreads \in SUBSET Workers /\ IdleThreads \in SUBSET Workers
      /\ Spawning \in SUBSET Callers
  BY DEF LiveThreads, IdleThreads, Spawning
<1>3. QED
  BY <1>1, <1>2, FS_Subset, FS_CardinalityType

LEMMA NoWorkerLeft ==
  ASSUME SyncCounts, sync.spawned = 0
  PROVE  LiveThreads = {} /\ Spawning = {}
<1>1. Cardinality(LiveThreads) = 0 /\ Cardinality(Spawning) = 0
  BY FiniteSets DEF SyncCounts
<1>2. QED
  BY <1>1, FiniteSets, FS_EmptySet

LEMMA Moved ==
  ASSUME TypeInv, NEW c \in Callers, NEW p, pc' = [pc EXCEPT ![c] = p]
  PROVE  pc'[c] = p /\ \A d \in Callers \ {c} : pc'[d] = pc[d]
BY PoolTypes

LEMMA LiveSame ==
  ASSUME TypeInv, NEW c \in Callers, NEW p, pc' = [pc EXCEPT ![c] = p],
         p \in GonePcs <=> pc[c] \in GonePcs, p = "spawn" <=> pc[c] = "spawn"
  PROVE  LiveThreads' = LiveThreads /\ Spawning' = Spawning
<1>1. pc'[c] = p /\ \A d \in Callers \ {c} : pc'[d] = pc[d]
  BY Moved
<1>2. \A d \in Callers : /\ pc'[d] \in GonePcs <=> pc[d] \in GonePcs
                         /\ pc'[d] = "spawn" <=> pc[d] = "spawn"
  BY <1>1
<1>3. Workers \subseteq Callers
  BY DEF Callers
<1>4. LiveThreads' = LiveThreads
  BY <1>2, <1>3 DEF LiveThreads, GonePcs, LeftPcs
<1>5. Spawning' = Spawning
  BY <1>2 DEF Spawning
<1>6. QED
  BY <1>4, <1>5

LEMMA CountsSame ==
  ASSUME SyncCounts, sync'.spawned = sync.spawned,
         LiveThreads' = LiveThreads, Spawning' = Spawning,
         sync'.state # "Shutdown" =>
           sync.state # "Shutdown" /\ sync'.idle = sync.idle /\ isIdle' = isIdle
  PROVE  SyncCounts'
<1>1. sync'.state # "Shutdown" => IdleThreads' = IdleThreads
  BY DEF IdleThreads
<1>2. QED
  BY <1>1 DEF SyncCounts

(* A thread that begins to spawn another, or gives up.                     *)
LEMMA SpawningChange ==
  ASSUME TypeInv, SyncCounts, NEW c \in Callers, NEW p, pc' = [pc EXCEPT ![c] = p],
         pc[c] \notin GonePcs, p \notin GonePcs,
         sync'.state # "Shutdown" =>
           sync.state # "Shutdown" /\ sync'.idle = sync.idle /\ isIdle' = isIdle,
         \/ pc[c] # "spawn" /\ p = "spawn" /\ sync'.spawned = sync.spawned + 1
         \/ pc[c] = "spawn" /\ p # "spawn" /\ sync'.spawned = sync.spawned - 1
  PROVE  SyncCounts'
<1>1. pc'[c] = p /\ \A d \in Callers \ {c} : pc'[d] = pc[d]
  BY Moved
<1>2. LiveThreads' = LiveThreads
  BY <1>1 DEF LiveThreads, Callers, GonePcs, LeftPcs
<1>3. sync.spawned = Cardinality(LiveThreads) + Cardinality(Spawning)
  BY DEF SyncCounts
<1>4. sync'.spawned = Cardinality(LiveThreads) + Cardinality(Spawning')
  <2>1. CASE pc[c] # "spawn" /\ p = "spawn" /\ sync'.spawned = sync.spawned + 1
    <3>1. Spawning' = Spawning \cup {c} /\ c \notin Spawning
      BY <1>1, <2>1 DEF Spawning
    <3>2. Cardinality(Spawning') = Cardinality(Spawning) + 1
      BY <3>1, FiniteSets, FS_AddElement
    <3>3. QED
      BY <1>3, <2>1, <3>2, FiniteSets
  <2>2. CASE pc[c] = "spawn" /\ p # "spawn" /\ sync'.spawned = sync.spawned - 1
    <3>1. Spawning' = Spawning \ {c} /\ c \in Spawning
      BY <1>1, <2>2 DEF Spawning
    <3>2. Cardinality(Spawning') = Cardinality(Spawning) - 1
      BY <3>1, FiniteSets, FS_RemoveElement
    <3>3. QED
      BY <1>3, <2>2, <3>2, FiniteSets
  <2>3. QED
    BY <2>1, <2>2
<1>5. sync'.state # "Shutdown" => IdleThreads' = IdleThreads
  BY DEF IdleThreads
<1>6. QED
  BY <1>2, <1>4, <1>5 DEF SyncCounts

(* Every step keeps the counters of the word exact.                        *)
LEMMA CountsStep ==
  ASSUME TypeInv, MainOK, SyncCounts, [Next]_vars
  PROVE  SyncCounts'
<1>0. /\ sync \in Syncs /\ isIdle \in [Workers -> BOOLEAN] /\ Workers \subseteq Callers
      /\ Main \in Callers
  BY PoolTypes
<1> DEFINE Idle == sync'.state # "Shutdown" =>
                     sync.state # "Shutdown" /\ sync'.idle = sync.idle /\ isIdle' = isIdle
<1>a. ASSUME NEW c \in Callers, NEW p, pc' = [pc EXCEPT ![c] = p],
             pc[c] \notin GonePcs, p \notin GonePcs, pc[c] # "spawn", p # "spawn",
             sync'.spawned = sync.spawned, Idle
      PROVE  SyncCounts'
  <2>1. LiveThreads' = LiveThreads /\ Spawning' = Spawning
    BY <1>a, LiveSame
  <2>2. QED
    BY <1>a, <2>1, CountsSame
<1>1. CASE Quiet
  <2>1. \A c \in Callers : /\ pc'[c] \in GonePcs <=> pc[c] \in GonePcs
                           /\ pc'[c] = "spawn" <=> pc[c] = "spawn"
    BY <1>1 DEF Quiet, QuietPc, Stage, GonePcs, LeavingPcs, LeftPcs
  <2>2. LiveThreads' = LiveThreads
    BY <1>0, <2>1 DEF LiveThreads, GonePcs, LeftPcs
  <2>3. Spawning' = Spawning
    BY <2>1 DEF Spawning
  <2>4. QED
    BY <1>1, <2>2, <2>3, CountsSame DEF Quiet
<1>2. ASSUME NEW c \in Callers, NotifySlow(c) PROVE SyncCounts'
  <2>1. ret[c] \notin GonePcs /\ ret[c] # "spawn"
    BY PoolTypes DEF GonePcs, LeftPcs
  <2>2. pc[c] = "notifySlow" /\ isIdle' = isIdle
    BY <1>2 DEF NotifySlow
  <2>3. \/ /\ sync' = sync \/ (sync.state # "Shutdown" /\ sync'.idle = sync.idle
                               /\ sync'.spawned = sync.spawned)
           /\ \E p \in {ret[c], "event"} : pc' = [pc EXCEPT ![c] = p]
        \/ /\ sync.state # "Shutdown" /\ sync'.idle = sync.idle
           /\ sync'.spawned = sync.spawned + 1 /\ pc' = [pc EXCEPT ![c] = "spawn"]
    BY <1>2 DEF NotifySlow, Sync, WakeNobody, Go
  <2>4. CASE \E p \in {ret[c], "event"} : pc' = [pc EXCEPT ![c] = p]
             /\ (sync' = sync \/ (sync.state # "Shutdown" /\ sync'.idle = sync.idle
                                  /\ sync'.spawned = sync.spawned))
    <3>1. PICK p \in {ret[c], "event"} : pc' = [pc EXCEPT ![c] = p]
      BY <2>4
    <3>2. Idle /\ sync'.spawned = sync.spawned
      BY <2>2, <2>4
    <3>3. p \notin GonePcs /\ p # "spawn" /\ pc[c] \notin GonePcs /\ pc[c] # "spawn"
      BY <2>1, <2>2 DEF GonePcs, LeftPcs
    <3>4. QED
      BY <1>a, <3>1, <3>2, <3>3
  <2>5. CASE /\ sync.state # "Shutdown" /\ sync'.idle = sync.idle
             /\ sync'.spawned = sync.spawned + 1 /\ pc' = [pc EXCEPT ![c] = "spawn"]
    <3>1. pc[c] \notin GonePcs /\ pc[c] # "spawn" /\ "spawn" \notin GonePcs
      BY <2>2 DEF GonePcs, LeftPcs
    <3>2. QED
      BY <2>2, <2>5, <3>1, SpawningChange
  <2>6. QED
    BY <2>3, <2>4, <2>5
<1>3. ASSUME NEW c \in Callers, Spawn(c) PROVE SyncCounts'
  <2> DEFINE u == Unstarted
  <2>1. u \in Workers /\ pc[u] = "none"
    BY <1>3 DEF Spawn, Unstarted
  <2>2. /\ pc[c] = "spawn" /\ sync' = sync /\ isIdle' = isIdle
        /\ pc' = [pc EXCEPT ![c] = ret[c], ![u] = "register"]
    BY <1>3 DEF Spawn
  <2> HIDE DEF u
  <2>3. u \in Callers /\ c # u /\ pc \in [Callers -> MainPcs \cup WorkerPcs \cup CallerPcs]
    BY <2>1, <2>2, PoolTypes
  <2>4. /\ pc'[c] = ret[c] /\ pc'[u] = "register"
        /\ \A d \in Callers \ {c, u} : pc'[d] = pc[d]
    BY <2>2, <2>3
  <2>5. ret[c] \notin GonePcs /\ ret[c] # "spawn"
    BY PoolTypes DEF GonePcs, LeftPcs
  <2>6. LiveThreads' = LiveThreads \cup {u} /\ u \notin LiveThreads
    BY <1>0, <2>1, <2>2, <2>3, <2>4, <2>5 DEF LiveThreads, GonePcs, LeftPcs
  <2>7. Spawning' = Spawning \ {c} /\ c \in Spawning
    BY <2>1, <2>2, <2>3, <2>4, <2>5 DEF Spawning
  <2>8. /\ Cardinality(LiveThreads') = Cardinality(LiveThreads) + 1
        /\ Cardinality(Spawning') = Cardinality(Spawning) - 1
    BY <2>6, <2>7, FiniteSets, FS_AddElement, FS_RemoveElement
  <2>9. sync'.spawned = Cardinality(LiveThreads') + Cardinality(Spawning')
    BY <2>2, <2>8, FiniteSets DEF SyncCounts
  <2>10. IdleThreads' = IdleThreads
    BY <2>2 DEF IdleThreads
  <2>11. QED
    BY <2>2, <2>9, <2>10 DEF SyncCounts
<1>4. ASSUME NEW c \in Callers, SpawnFail(c) PROVE SyncCounts'
  <2>1. PICK p \in {ret[c], "ready"} : pc' = [pc EXCEPT ![c] = p]
    BY <1>4 DEF SpawnFail, Go
  <2>2. ret[c] \notin GonePcs /\ ret[c] # "spawn"
    BY PoolTypes DEF GonePcs, LeftPcs
  <2>3. pc[c] = "spawn" /\ isIdle' = isIdle /\ sync' = [sync EXCEPT !.spawned = @ - 1]
    BY <1>4 DEF SpawnFail
  <2>4. sync'.spawned = sync.spawned - 1 /\ sync'.idle = sync.idle /\ sync'.state = sync.state
    BY <1>0, <2>3 DEF Syncs
  <2>5. p \notin GonePcs /\ p # "spawn" /\ pc[c] \notin GonePcs
    BY <2>2, <2>3 DEF GonePcs, LeftPcs
  <2>6. QED
    BY <2>1, <2>3, <2>4, <2>5, SpawningChange
<1>5. ASSUME NEW t \in Workers, NEW p, pc' = [pc EXCEPT ![t] = p], sync' = sync,
             isIdle' = isIdle \/ sync.state = "Shutdown",
             pc[t] \notin GonePcs, p \notin GonePcs, pc[t] # "spawn", p # "spawn"
      PROVE  SyncCounts'
  BY <1>0, <1>a, <1>5
<1>6. ASSUME NEW t \in Workers, Register(t) \/ WaitError(t) PROVE SyncCounts'
  <2>1. \E p \in {"wait", "exitDrain"} : pc' = [pc EXCEPT ![t] = p]
    BY <1>6 DEF Register, WaitError, Go
  <2>2. /\ pc[t] \in {"register", "wait"} /\ sync' = sync
        /\ isIdle' = isIdle \/ sync.state = "Shutdown"
    BY <1>6 DEF Register, WaitError
  <2>3. QED
    BY <1>5, <2>1, <2>2 DEF GonePcs, LeftPcs
<1>7. ASSUME NEW t \in Workers, DrainAndSleep(t) \/ RunDrain(t) \/ ExitDrain(t)
      PROVE  SyncCounts'
  <2>1. \E p \in {"sleep", "wait", "unregister"} : pc' = [pc EXCEPT ![t] = p]
    BY <1>7 DEF DrainAndSleep, RunDrain, ExitDrain, Go
  <2>2. pc[t] \in {"drain", "runDrain", "exitDrain"} /\ sync' = sync /\ isIdle' = isIdle
    BY <1>7 DEF DrainAndSleep, RunDrain, ExitDrain
  <2>3. QED
    BY <1>5, <2>1, <2>2 DEF GonePcs, LeftPcs
<1>8. ASSUME NEW t \in Workers, NotifyJoin(t) \/ WakeJoin(t) PROVE SyncCounts'
  <2>1. PICK p \in {"wakeJoin", "joinWait"} : pc' = [pc EXCEPT ![t] = p]
    BY <1>8 DEF NotifyJoin, WakeJoin, Go
  <2>2. pc[t] \in {"notifyJoin", "wakeJoin"} /\ sync' = sync /\ isIdle' = isIdle
    BY <1>8 DEF NotifyJoin, WakeJoin, JoinFrame
  <2>3. LiveThreads' = LiveThreads /\ Spawning' = Spawning
    BY <1>0, <2>1, <2>2, LiveSame DEF GonePcs, LeftPcs
  <2>4. QED
    BY <2>2, <2>3, CountsSame
<1>9. ASSUME NEW t \in Workers, Unregister(t) PROVE SyncCounts'
  <2>1. PICK p \in {"notifyJoin", "joinWait"} : pc' = [pc EXCEPT ![t] = p]
    BY <1>9 DEF Unregister, Go
  <2>2. /\ pc[t] = "unregister" /\ isIdle' = isIdle
        /\ sync'.spawned = sync.spawned - 1 /\ sync'.idle = sync.idle
        /\ sync'.state = sync.state
    BY <1>0, <1>9 DEF Unregister, Syncs
  <2>3. pc'[t] = p /\ \A d \in Callers \ {t} : pc'[d] = pc[d]
    BY <1>0, <2>1, Moved
  <2>4. LiveThreads' = LiveThreads \ {t} /\ t \in LiveThreads
    BY <1>0, <2>1, <2>2, <2>3 DEF LiveThreads, LeftPcs
  <2>5. Spawning' = Spawning
    BY <1>0, <2>1, <2>2, <2>3 DEF Spawning
  <2>6. Cardinality(LiveThreads') = Cardinality(LiveThreads) - 1
    BY <2>4, FiniteSets, FS_RemoveElement
  <2>7. sync'.spawned = Cardinality(LiveThreads') + Cardinality(Spawning')
    BY <2>2, <2>5, <2>6, FiniteSets DEF SyncCounts
  <2>8. IdleThreads' = IdleThreads
    BY <2>2 DEF IdleThreads
  <2>9. QED
    BY <2>2, <2>7, <2>8 DEF SyncCounts
<1>10. ASSUME NEW t \in Workers, WaitConsume(t) PROVE SyncCounts'
  <2>1. /\ pc[t] = "wait" /\ pc' = [pc EXCEPT ![t] = "pop"] /\ sync.state # "Shutdown"
        /\ sync'.idle = IF isIdle[t] THEN sync.idle - 1 ELSE sync.idle
        /\ sync'.spawned = sync.spawned /\ isIdle' = [isIdle EXCEPT ![t] = FALSE]
    BY <1>10 DEF WaitConsume, Consumed, Sync, Go
  <2>2. LiveThreads' = LiveThreads /\ Spawning' = Spawning
    BY <1>0, <2>1, LiveSame DEF GonePcs, LeftPcs
  <2>3. IdleThreads' = IdleThreads \ {t}
    BY <1>0, <2>1 DEF IdleThreads
  <2>4. Cardinality(IdleThreads') =
          IF isIdle[t] THEN Cardinality(IdleThreads) - 1 ELSE Cardinality(IdleThreads)
    BY <2>3, FiniteSets, FS_RemoveElement DEF IdleThreads
  <2>5. QED
    BY <2>1, <2>2, <2>4 DEF SyncCounts
<1>11. ASSUME NEW t \in Workers, WaitIdle(t) PROVE SyncCounts'
  <2>1. /\ pc[t] = "wait" /\ pc' = [pc EXCEPT ![t] = "drain"] /\ sync.state # "Shutdown"
        /\ sync'.idle = sync.idle + 1 /\ ~isIdle[t]
        /\ sync'.spawned = sync.spawned /\ isIdle' = [isIdle EXCEPT ![t] = TRUE]
    BY <1>11 DEF WaitIdle, Sync, Go
  <2>2. LiveThreads' = LiveThreads /\ Spawning' = Spawning
    BY <1>0, <2>1, LiveSame DEF GonePcs, LeftPcs
  <2>3. IdleThreads' = IdleThreads \cup {t} /\ t \notin IdleThreads
    BY <1>0, <2>1 DEF IdleThreads
  <2>4. Cardinality(IdleThreads') = Cardinality(IdleThreads) + 1
    BY <2>3, FiniteSets, FS_AddElement
  <2>5. QED
    BY <2>1, <2>2, <2>4 DEF SyncCounts
<1>12. CASE warm
  <2>1. pc[Main] \in {"ready", "warm"} /\ isIdle' = isIdle
    BY <1>12 DEF warm
  <2>2. \/ sync' = sync /\ pc' = [pc EXCEPT ![Main] = "ready"]
        \/ sync' = [sync EXCEPT !.spawned = @ + 1] /\ pc' = [pc EXCEPT ![Main] = "spawn"]
    BY <1>12 DEF warm, Go
  <2>3. CASE sync' = sync /\ pc' = [pc EXCEPT ![Main] = "ready"]
    BY <1>0, <1>a, <2>1, <2>3 DEF GonePcs, LeftPcs
  <2>4. CASE sync' = [sync EXCEPT !.spawned = @ + 1] /\ pc' = [pc EXCEPT ![Main] = "spawn"]
    <3>1. /\ sync'.spawned = sync.spawned + 1 /\ sync'.idle = sync.idle
          /\ sync'.state = sync.state
      BY <1>0, <2>4 DEF Syncs
    <3>2. pc[Main] \notin GonePcs /\ pc[Main] # "spawn" /\ "spawn" \notin GonePcs
      BY <2>1 DEF GonePcs, LeftPcs
    <3>3. QED
      BY <1>0, <2>1, <2>4, <3>1, <3>2, SpawningChange
  <2>5. QED
    BY <2>2, <2>3, <2>4
<1>13. ASSUME NEW p, pc' = [pc EXCEPT ![Main] = p], p # "spawn", pc[Main] # "spawn",
              sync' = sync, isIdle' = isIdle
       PROVE  SyncCounts'
  <2>1. /\ \A t \in Workers : pc'[t] = pc[t]
        /\ \A c \in Callers : pc'[c] = "spawn" <=> pc[c] = "spawn"
    BY <1>13, PoolTypes
  <2>2. LiveThreads' = LiveThreads /\ Spawning' = Spawning
    BY <2>1 DEF LiveThreads, Spawning
  <2>3. QED
    BY <1>13, <2>2, CountsSame
<1>14. CASE push_idle_task \/ join \/ JoinChain
  <2>1. \E p \in {"wakeIdle", "joinChain", "joinWait", "joinNext", "gone"} :
          pc' = [pc EXCEPT ![Main] = p]
    BY <1>14 DEF push_idle_task, join, JoinChain, Go
  <2>2. pc[Main] \in {"ready", "join", "joinChain"} /\ sync' = sync /\ isIdle' = isIdle
    BY <1>14 DEF push_idle_task, join, JoinChain, JoinFrame
  <2>3. QED
    BY <1>13, <2>1, <2>2
<1>15. ASSUME NEW c \in Callers, JoinStep(c) PROVE SyncCounts'
  <2>1. /\ sync' = sync /\ isIdle' = isIdle
        /\ pc[c] \in {"joinWait", "joinSleep", "joinNext", "joinWake"}
    BY <1>15, JoinMoves
  <2>2. PICK p : /\ pc' = [pc EXCEPT ![c] = p]
                 /\ p \in IF c = Main THEN {"joinSleep", "joinChain", "joinWake", "gone"}
                         ELSE {"joinSleep", "joinNext", "joinWake", "exited"}
    BY <1>15, JoinMoves
  <2>3. CASE c = Main
    BY <1>13, <2>1, <2>2, <2>3
  <2>4. CASE c # Main
    <3>1. p \in GonePcs /\ pc[c] \in GonePcs /\ p # "spawn" /\ pc[c] # "spawn"
      BY <2>1, <2>2, <2>4 DEF GonePcs, LeftPcs
    <3>2. LiveThreads' = LiveThreads /\ Spawning' = Spawning
      BY <2>2, <3>1, LiveSame
    <3>3. QED
      BY <2>1, <3>2, CountsSame
  <2>5. QED
    BY <2>3, <2>4
<1>16. CASE shutdown
  <2>1. \E p \in {"eventShutdown", "join"} : pc' = [pc EXCEPT ![Main] = p]
    BY <1>16 DEF shutdown, Go
  <2>2. /\ pc[Main] = "shutdown" /\ sync'.state = "Shutdown" /\ sync'.spawned = sync.spawned
    BY <1>16 DEF shutdown, Sync
  <2>3. QED
    BY <1>0, <1>a, <2>1, <2>2 DEF GonePcs, LeftPcs
<1>17. QED
  BY <1>1, <1>2, <1>3, <1>4, <1>6, <1>7, <1>8, <1>9, <1>10, <1>11, <1>12, <1>16, <1>14,
     <1>15, StepKinds

(* A worker's step leaves Main where it is; Main's steps before the swap   *)
(* that shuts the pool down leave it before that swap.                     *)
LEMMA MainSame ==
  ASSUME MainOK, pc'[Main] = pc[Main], ret'[Main] = ret[Main],
         sync'.state = "Shutdown" <=> sync.state = "Shutdown"
  PROVE  MainOK'
BY DEF MainOK, Closing

LEMMA MainOpen ==
  ASSUME MainOK, ~Closing, pc'[Main] \notin ClosingPcs, ret'[Main] # "join",
         sync'.state # "Shutdown"
  PROVE  MainOK'
<1>1. ~(Closing')
  BY DEF Closing
<1>2. QED
  BY <1>1 DEF MainOK

(* Every step keeps the word and the steps of drop() together.             *)
LEMMA MainOKStep ==
  ASSUME TypeInv, MainOK, [Next]_vars
  PROVE  MainOK'
<1>0. /\ sync \in Syncs /\ Workers \subseteq Callers /\ Main \in Callers
      /\ \A t \in Workers : t # Main
      /\ pc \in [Callers -> MainPcs \cup WorkerPcs \cup CallerPcs]
  BY PoolTypes
<1>a. ASSUME NEW t \in Workers, NEW p, pc' = [pc EXCEPT ![t] = p], ret' = ret,
             sync'.state = "Shutdown" <=> sync.state = "Shutdown"
      PROVE  MainOK'
  <2>1. pc'[Main] = pc[Main]
    BY <1>0, <1>a
  <2>2. QED
    BY <1>a, <2>1, MainSame
<1>b. ASSUME pc[Main] \in {"notifySlow", "spawn", "ready", "warm"}
      PROVE  ~Closing /\ ret[Main] \in {"ready", "warm"} /\ sync.state # "Shutdown"
  BY <1>b, PoolTypes DEF MainOK, Closing, ClosingPcs, JoiningPcs
<1>c. ASSUME NEW p, pc' = [pc EXCEPT ![Main] = p], p \notin ClosingPcs,
             pc[Main] \in {"notifySlow", "spawn", "ready", "warm"},
             ret'[Main] # "join", sync'.state # "Shutdown"
      PROVE  MainOK'
  <2>1. pc'[Main] = p
    BY <1>0, <1>c
  <2>2. QED
    BY <1>b, <1>c, <2>1, MainOpen
<1>d. "ready" \notin ClosingPcs /\ "warm" \notin ClosingPcs /\ "spawn" \notin ClosingPcs
      /\ "event" \notin ClosingPcs /\ "wakeIdle" \notin ClosingPcs
  BY DEF ClosingPcs, JoiningPcs
<1>1. CASE Quiet
  <2>1. Closing' <=> Closing
    BY <1>1 DEF Quiet, QuietPc
  <2>2. /\ sync'.state = sync.state
        /\ ret'[Main] = "join" => pc'[Main] \in {"wake"} \cup JoiningPcs
    BY <1>1 DEF Quiet, QuietPc
  <2>3. QED
    BY <2>1, <2>2 DEF MainOK
<1>2. ASSUME NEW c \in Callers, NotifySlow(c) PROVE MainOK'
  <2>1. pc[c] = "notifySlow" /\ ret' = ret
    BY <1>2 DEF NotifySlow
  <2>2. /\ \E p \in {ret[c], "event", "spawn"} : pc' = [pc EXCEPT ![c] = p]
        /\ sync' = sync \/ (sync.state # "Shutdown" /\ sync'.state # "Shutdown")
    BY <1>2 DEF NotifySlow, Sync, WakeNobody, Go
  <2>3. CASE c \in Workers
    BY <1>a, <2>1, <2>2, <2>3
  <2>4. CASE c = Main
    BY <1>b, <1>c, <1>d, <2>1, <2>2, <2>4
  <2>5. QED
    BY <2>3, <2>4 DEF Callers
<1>3. ASSUME NEW c \in Callers, Spawn(c) PROVE MainOK'
  <2>1. Unstarted \in Workers
    BY <1>3 DEF Spawn, Unstarted
  <2>2. /\ pc[c] = "spawn" /\ ret' = ret /\ sync' = sync
        /\ pc' = [pc EXCEPT ![c] = ret[c], ![Unstarted] = "register"]
    BY <1>3 DEF Spawn
  <2>3. CASE c \in Workers
    <3>1. pc'[Main] = pc[Main]
      BY <1>0, <2>1, <2>2, <2>3
    <3>2. QED
      BY <2>2, <3>1, MainSame
  <2>4. CASE c = Main
    <3>1. pc'[Main] = ret[Main]
      BY <1>0, <2>1, <2>2, <2>4
    <3>2. QED
      BY <1>b, <1>d, <2>2, <2>4, <3>1, MainOpen
  <2>5. QED
    BY <2>3, <2>4 DEF Callers
<1>4. ASSUME NEW c \in Callers, SpawnFail(c) PROVE MainOK'
  <2>1. /\ pc[c] = "spawn" /\ ret' = ret
        /\ \E p \in {ret[c], "ready"} : pc' = [pc EXCEPT ![c] = p]
    BY <1>4 DEF SpawnFail, Go
  <2>2. sync'.state = sync.state
    BY <1>0, <1>4 DEF SpawnFail, Syncs
  <2>3. CASE c \in Workers
    BY <1>a, <2>1, <2>2, <2>3
  <2>4. CASE c = Main
    BY <1>b, <1>c, <1>d, <2>1, <2>2, <2>4
  <2>5. QED
    BY <2>3, <2>4 DEF Callers
<1>5. ASSUME NEW t \in Workers,
             \/ Register(t) \/ WaitError(t) \/ DrainAndSleep(t) \/ RunDrain(t)
             \/ ExitDrain(t) \/ NotifyJoin(t) \/ WakeJoin(t)
      PROVE  MainOK'
  <2>1. ret' = ret /\ sync' = sync
    BY <1>5 DEF Register, WaitError, DrainAndSleep, RunDrain, ExitDrain, NotifyJoin,
                WakeJoin, JoinFrame
  <2>2. \E p : pc' = [pc EXCEPT ![t] = p]
    BY <1>5 DEF Register, WaitError, DrainAndSleep, RunDrain, ExitDrain, NotifyJoin,
                WakeJoin, Go
  <2>3. QED
    BY <1>a, <2>1, <2>2
<1>6. ASSUME NEW t \in Workers, WaitConsume(t) \/ WaitIdle(t) PROVE MainOK'
  <2>1. /\ ret' = ret /\ \E p : pc' = [pc EXCEPT ![t] = p]
        /\ sync.state # "Shutdown"
    BY <1>6 DEF WaitConsume, WaitIdle, Go
  <2>2. sync'.state # "Shutdown"
    BY <1>6 DEF WaitConsume, WaitIdle, Consumed, Sync
  <2>3. QED
    BY <1>a, <2>1, <2>2
<1>7. ASSUME NEW t \in Workers, Unregister(t) PROVE MainOK'
  <2>1. ret' = ret /\ \E p : pc' = [pc EXCEPT ![t] = p]
    BY <1>7 DEF Unregister, Go
  <2>2. sync'.state = sync.state
    BY <1>0, <1>7 DEF Unregister, Syncs
  <2>3. QED
    BY <1>a, <2>1, <2>2
<1>8. CASE warm
  <2>1. /\ pc[Main] \in {"ready", "warm"}
        /\ \E p \in {"ready", "spawn"} : pc' = [pc EXCEPT ![Main] = p]
        /\ ret' = ret \/ ret' = [ret EXCEPT ![Main] = "warm"]
    BY <1>8 DEF warm, Go
  <2>2. sync'.state = sync.state
    BY <1>0, <1>8 DEF warm, Syncs
  <2>3. ret'[Main] # "join" /\ sync.state # "Shutdown"
    BY <1>b, <2>1, PoolTypes
  <2>4. QED
    BY <1>c, <1>d, <2>1, <2>2, <2>3
<1>9. CASE push_idle_task
  <2>1. /\ pc[Main] = "ready" /\ ret' = ret /\ sync' = sync
        /\ pc' = [pc EXCEPT ![Main] = "wakeIdle"]
    BY <1>9 DEF push_idle_task, Go
  <2>2. QED
    BY <1>b, <1>c, <1>d, <2>1
<1>10. CASE shutdown
  <2>1. /\ pc[Main] = "shutdown" /\ ret' = ret
        /\ \E p \in {"eventShutdown", "join"} : pc' = [pc EXCEPT ![Main] = p]
        /\ sync'.state = "Shutdown"
    BY <1>10 DEF shutdown, Go, Sync
  <2>2. pc'[Main] \in {"eventShutdown", "join"}
    BY <1>0, <2>1
  <2>3. ret'[Main] # "join"
    BY <2>1 DEF MainOK, JoiningPcs
  <2>4. Closing'
    BY <2>2 DEF Closing, ClosingPcs, JoiningPcs
  <2>5. QED
    BY <2>1, <2>2, <2>3, <2>4 DEF MainOK
<1>11. ASSUME pc[Main] \in JoiningPcs, pc'[Main] \in JoiningPcs, sync' = sync PROVE MainOK'
  <2>1. Closing /\ Closing'
    BY <1>11 DEF Closing, ClosingPcs
  <2>2. QED
    BY <1>11, <2>1 DEF MainOK
<1>12. CASE join \/ JoinChain
  <2>1. /\ pc[Main] \in {"join", "joinChain"} /\ sync' = sync
        /\ \E p \in {"joinWait", "joinChain", "joinNext", "gone"} :
             pc' = [pc EXCEPT ![Main] = p]
    BY <1>12 DEF join, JoinChain, JoinFrame, Go
  <2>2. QED
    BY <1>0, <1>11, <2>1 DEF JoiningPcs
<1>13. ASSUME NEW c \in Callers, JoinStep(c) PROVE MainOK'
  <2>1. /\ sync' = sync /\ ret' = ret
        /\ pc[c] \in {"joinWait", "joinSleep", "joinNext", "joinWake"}
        /\ \E p : /\ pc' = [pc EXCEPT ![c] = p]
                  /\ p \in IF c = Main THEN {"joinSleep", "joinChain", "joinWake", "gone"}
                          ELSE {"joinSleep", "joinNext", "joinWake", "exited"}
    BY <1>13, JoinMoves
  <2>2. CASE c \in Workers
    BY <1>a, <2>1, <2>2
  <2>3. CASE c = Main
    <3>1. pc[Main] \in JoiningPcs /\ pc'[Main] \in JoiningPcs
      BY <1>0, <2>1, <2>3 DEF JoiningPcs
    <3>2. QED
      BY <1>11, <2>1, <3>1
  <2>4. QED
    BY <2>2, <2>3 DEF Callers
<1>14. QED
  BY <1>1, <1>2, <1>3, <1>4, <1>5, <1>6, <1>7, <1>8, <1>9, <1>10, <1>12, <1>13, StepKinds

(* The way of a worker through the pool: it is started once, leaves only   *)
(* after a shutdown, drains its idle queue on the way, and stays away.     *)
LEMMA WorkerPaths ==
  ASSUME TypeInv, MainOK, [Next]_vars, NEW u \in Workers
  PROVE  /\ pc'[u] \in {"none", "register"} => pc[u] \in {"none", "register"}
         /\ pc'[u] \in LeavingPcs => pc[u] \in LeavingPcs \/ sync.state = "Shutdown"
         /\ pc'[u] \in DrainedPcs => pc[u] \in DrainedPcs \/ ExitDrain(u)
         /\ pc'[u] \in PassingPcs => pc[u] \in PassingPcs \/ JoinConsume(u)
         /\ pc[u] \in PassedPcs => pc'[u] \in PassedPcs
         /\ pc'[u] = "notifyJoin" => pc[u] = "notifyJoin" \/ Unregister(u)
<1> DEFINE Path ==
      /\ pc'[u] \in {"none", "register"} => pc[u] \in {"none", "register"}
      /\ pc'[u] \in LeavingPcs => pc[u] \in LeavingPcs \/ sync.state = "Shutdown"
      /\ pc'[u] \in DrainedPcs => pc[u] \in DrainedPcs \/ ExitDrain(u)
      /\ pc'[u] \in PassingPcs => pc[u] \in PassingPcs \/ JoinConsume(u)
      /\ pc[u] \in PassedPcs => pc'[u] \in PassedPcs
      /\ pc'[u] = "notifyJoin" => pc[u] = "notifyJoin" \/ Unregister(u)
<1>0. /\ pc \in [Callers -> MainPcs \cup WorkerPcs \cup CallerPcs]
      /\ Workers \subseteq Callers /\ Main \in Callers /\ \A t \in Workers : t # Main
  BY PoolTypes
<1>a. pc'[u] = pc[u] => Path
  OBVIOUS
<1>b. ASSUME pc[u] \notin LeavingPcs, pc'[u] \notin LeavingPcs \cup {"none", "register"}
      PROVE  Path
  BY <1>b DEF LeavingPcs, DrainedPcs, LeftPcs, PassingPcs, PassedPcs
<1>c. ASSUME NEW c \in Callers, NEW p, pc' = [pc EXCEPT ![c] = p]
      PROVE  /\ c # u => pc'[u] = pc[u]
             /\ c = u => pc'[u] = p
  BY <1>0, <1>c
<1>1. ASSUME Quiet PROVE Path
  <2>1. Stage(pc'[u]) = Stage(pc[u])
    BY <1>0, <1>1 DEF Quiet, QuietPc
  <2>2. CASE pc[u] \in {"none", "register", "spawn"} \cup LeavingPcs
    <3>1. pc'[u] = pc[u]
      BY <2>1, <2>2 DEF Stage, LeavingPcs, LeftPcs
    <3>2. QED
      BY <1>a, <3>1
  <2>3. CASE pc[u] \notin {"none", "register", "spawn"} \cup LeavingPcs
    <3>1. pc'[u] \notin {"none", "register", "spawn"} \cup LeavingPcs
      BY <2>1, <2>3 DEF Stage, LeavingPcs, LeftPcs
    <3>2. QED
      BY <1>b, <2>3, <3>1
  <2>4. QED
    BY <2>2, <2>3
<1>2. ASSUME NEW c \in Callers, NotifySlow(c) \/ SpawnFail(c) PROVE Path
  <2>1. PICK p \in {ret[c], "event", "spawn", "ready"} : pc' = [pc EXCEPT ![c] = p]
    BY <1>2 DEF NotifySlow, SpawnFail, Go
  <2>2. pc[c] \in {"notifySlow", "spawn"}
    BY <1>2 DEF NotifySlow, SpawnFail
  <2>3. CASE c = u
    <3>1. pc'[u] \in {"call", "finish", "event", "spawn", "ready"}
      BY <1>c, <2>1, <2>3, PoolTypes
    <3>2. QED
      BY <1>b, <2>2, <2>3, <3>1 DEF LeavingPcs, LeftPcs
  <2>4. QED
    BY <1>a, <1>c, <2>1, <2>3
<1>3. ASSUME NEW c \in Callers, Spawn(c) PROVE Path
  <2> DEFINE n == Unstarted
  <2>1. n \in Workers /\ pc[n] = "none"
    BY <1>3 DEF Spawn, Unstarted
  <2>2. pc[c] = "spawn" /\ pc' = [pc EXCEPT ![c] = ret[c], ![n] = "register"]
    BY <1>3 DEF Spawn
  <2> HIDE DEF n
  <2>3. CASE u = n
    <3>1. pc[u] = "none" /\ pc'[u] = "register"
      BY <1>0, <2>1, <2>2, <2>3
    <3>2. QED
      BY <3>1 DEF LeavingPcs, DrainedPcs, LeftPcs, PassingPcs, PassedPcs
  <2>4. CASE u # n /\ u = c
    <3>1. pc[u] = "spawn" /\ pc'[u] \in {"call", "finish"}
      BY <1>0, <2>1, <2>2, <2>4, PoolTypes
    <3>2. QED
      BY <1>b, <3>1 DEF LeavingPcs, LeftPcs
  <2>5. CASE u # n /\ u # c
    <3>1. pc'[u] = pc[u]
      BY <1>0, <2>1, <2>2, <2>5
    <3>2. QED
      BY <1>a, <3>1
  <2>6. QED
    BY <2>3, <2>4, <2>5
<1>4. ASSUME NEW t \in Workers,
             \/ Register(t) \/ WaitConsume(t) \/ WaitIdle(t) \/ DrainAndSleep(t) \/ RunDrain(t)
      PROVE  Path
  <2>1. PICK p \in {"wait", "pop", "drain", "sleep"} : pc' = [pc EXCEPT ![t] = p]
    BY <1>4 DEF Register, WaitConsume, WaitIdle, DrainAndSleep, RunDrain, Go
  <2>2. pc[t] \in {"register", "wait", "drain", "runDrain"}
    BY <1>4 DEF Register, WaitConsume, WaitIdle, DrainAndSleep, RunDrain
  <2>3. CASE t = u
    BY <1>0, <1>b, <1>c, <2>1, <2>2, <2>3 DEF LeavingPcs, LeftPcs
  <2>4. QED
    BY <1>0, <1>a, <1>c, <2>1, <2>3
<1>5. ASSUME NEW t \in Workers, WaitError(t) PROVE Path
  <2>1. /\ pc[t] = "wait" /\ sync.state = "Shutdown"
        /\ pc' = [pc EXCEPT ![t] = "exitDrain"]
    BY <1>5 DEF WaitError, Go
  <2>2. CASE t = u
    BY <1>0, <1>c, <2>1, <2>2 DEF DrainedPcs, LeftPcs, PassingPcs, PassedPcs
  <2>3. QED
    BY <1>0, <1>a, <1>c, <2>1, <2>2
<1>6. ASSUME NEW t \in Workers,
             ExitDrain(t) \/ Unregister(t) \/ NotifyJoin(t) \/ WakeJoin(t)
      PROVE  Path
  <2>1. PICK p \in {"unregister", "notifyJoin", "wakeJoin", "joinWait"} :
          pc' = [pc EXCEPT ![t] = p]
    BY <1>6 DEF ExitDrain, Unregister, NotifyJoin, WakeJoin, Go
  <2>2. CASE t # u
    BY <1>0, <1>a, <1>c, <2>1, <2>2
  <2>3. CASE t = u /\ ExitDrain(u)
    <3>1. pc[u] = "exitDrain" /\ pc' = [pc EXCEPT ![u] = "unregister"]
      BY <2>3 DEF ExitDrain, Go
    <3>2. pc'[u] = "unregister"
      BY <1>0, <3>1
    <3>3. QED
      BY <2>3, <3>1, <3>2 DEF LeavingPcs, LeftPcs, PassingPcs, PassedPcs
  <2>4. CASE t = u /\ Unregister(u)
    <3>1. pc[u] = "unregister" /\ pc'[u] \in {"notifyJoin", "joinWait"}
      BY <1>0, <2>4 DEF Unregister, Go
    <3>2. QED
      BY <2>4, <3>1 DEF LeavingPcs, DrainedPcs, LeftPcs, PassingPcs, PassedPcs
  <2>5. CASE t = u /\ (NotifyJoin(u) \/ WakeJoin(u))
    <3>1. pc[u] \in {"notifyJoin", "wakeJoin"} /\ pc'[u] \in {"wakeJoin", "joinWait"}
      BY <1>0, <2>5 DEF NotifyJoin, WakeJoin, Go
    <3>2. QED
      BY <3>1 DEF LeavingPcs, DrainedPcs, LeftPcs, PassingPcs, PassedPcs
  <2>6. QED
    BY <1>6, <2>2, <2>3, <2>4, <2>5
<1>7. ASSUME warm \/ push_idle_task \/ shutdown \/ join \/ JoinChain
      PROVE  Path
  <2>1. \E p : pc' = [pc EXCEPT ![Main] = p]
    BY <1>7 DEF warm, push_idle_task, shutdown, join, JoinChain, Go
  <2>2. QED
    BY <1>0, <1>a, <1>c, <2>1
<1>8. ASSUME NEW c \in Callers, JoinStep(c) PROVE Path
  <2>1. /\ pc[c] \in {"joinWait", "joinSleep", "joinNext", "joinWake"}
        /\ \E p : /\ pc' = [pc EXCEPT ![c] = p]
                  /\ p \in IF c = Main THEN {"joinSleep", "joinChain", "joinWake", "gone"}
                          ELSE {"joinSleep", "joinNext", "joinWake", "exited"}
    BY <1>8, JoinMoves
  <2>2. CASE c # u
    BY <1>0, <1>a, <1>c, <2>1, <2>2
  <2>3. CASE c = u
    <3>1. pc'[u] \in {"joinSleep", "joinNext", "joinWake", "exited"}
      BY <1>0, <2>1, <2>3
    <3>2. CASE JoinConsume(u)
      BY <2>1, <2>3, <3>1, <3>2 DEF JoinConsume, JoinLooks, LeavingPcs, DrainedPcs, LeftPcs,
                                    PassedPcs
    <3>3. CASE JoinPublish(u) \/ JoinFutexWait(u)
      <4>1. pc'[u] = "joinSleep" /\ pc[u] \in {"joinWait", "joinSleep"}
        BY <1>0, <3>3 DEF JoinPublish, JoinFutexWait, JoinLooks, Go
      <4>2. QED
        BY <4>1 DEF LeavingPcs, DrainedPcs, LeftPcs, PassingPcs, PassedPcs
    <3>4. CASE JoinNext(u) \/ JoinWake(u)
      <4>1. pc'[u] \in {"joinWake", "exited"} /\ pc[u] \in {"joinNext", "joinWake"}
        BY <1>0, <3>4 DEF JoinNext, JoinWake, Go, Gone
      <4>2. QED
        BY <4>1 DEF LeavingPcs, DrainedPcs, LeftPcs, PassingPcs, PassedPcs
    <3>5. QED
      BY <1>8, <2>3, <3>2, <3>3, <3>4 DEF JoinStep
  <2>4. QED
    BY <2>2, <2>3
<1> HIDE DEF Path
<1>9. (\E c \in Callers : NotifySlow(c) \/ Spawn(c) \/ SpawnFail(c)) => Path
  BY <1>2, <1>3
<1>10. (\E t \in Workers :
         \/ Register(t) \/ WaitError(t) \/ WaitConsume(t) \/ WaitIdle(t)
         \/ DrainAndSleep(t) \/ RunDrain(t) \/ ExitDrain(t) \/ Unregister(t)
         \/ NotifyJoin(t) \/ WakeJoin(t)) => Path
  BY <1>4, <1>5, <1>6
<1>11. Path
  BY <1>1, <1>7, <1>9, <1>10, <1>8, StepKinds
<1>12. QED
  BY <1>11 DEF Path

(* The way of Main to the chain, and along it.                             *)
LEMMA MainPaths ==
  ASSUME TypeInv, MainOK, [Next]_vars
  PROVE  /\ pc[Main] \in ChainedPcs => pc'[Main] \in ChainedPcs
         /\ pc[Main] \in SwappedPcs => pc'[Main] \in SwappedPcs
         /\ pc'[Main] \in ChainedPcs => pc[Main] \in ChainedPcs \/ JoinChain
         /\ pc'[Main] \in JoinedPcs =>
              pc[Main] \in JoinedPcs \/ join \/ joinState[Main] = "NOTIFIED"
<1> DEFINE Path == /\ pc[Main] \in ChainedPcs => pc'[Main] \in ChainedPcs
                   /\ pc[Main] \in SwappedPcs => pc'[Main] \in SwappedPcs
                   /\ pc'[Main] \in ChainedPcs => pc[Main] \in ChainedPcs \/ JoinChain
                   /\ pc'[Main] \in JoinedPcs =>
                        pc[Main] \in JoinedPcs \/ join \/ joinState[Main] = "NOTIFIED"
<1> USE DEF ChainedPcs, SwappedPcs, JoinedPcs
<1>0. /\ pc \in [Callers -> MainPcs \cup WorkerPcs \cup CallerPcs]
      /\ Workers \subseteq Callers /\ Main \in Callers /\ \A t \in Workers : t # Main
      /\ \A c \in Callers : c = Main \/ c \in Workers
  BY PoolTypes
<1>a. ASSUME pc'[Main] = pc[Main] PROVE Path
  BY <1>a
<1>b. ASSUME NEW t \in Workers, NEW p, pc' = [pc EXCEPT ![t] = p] PROVE Path
  <2>1. pc'[Main] = pc[Main]
    BY <1>0, <1>b
  <2>2. QED
    BY <1>a, <2>1
<1>c. ASSUME pc[Main] \notin ChainedPcs, pc'[Main] \notin JoinedPcs PROVE Path
  BY <1>c
<1>d. \A c \in Callers : ret[c] \notin JoinedPcs
  BY PoolTypes
<1>1. ASSUME Quiet PROVE Path
  <2>1. Stage(pc'[Main]) = Stage(pc[Main])
        /\ (pc'[Main] = "joinChain" <=> pc[Main] = "joinChain")
        /\ (pc'[Main] = "gone" <=> pc[Main] = "gone")
    BY <1>0, <1>1 DEF Quiet, QuietPc
  <2>2. \A p \in {"joinNext", "joinWake"} : pc'[Main] = p <=> pc[Main] = p
    BY <2>1 DEF Stage, LeavingPcs, LeftPcs
  <2>3. QED
    BY <2>1, <2>2
<1>2. ASSUME NEW c \in Callers, NotifySlow(c) \/ SpawnFail(c) PROVE Path
  <2>1. /\ pc[c] \in {"notifySlow", "spawn"}
        /\ \E p \in {ret[c], "event", "spawn", "ready"} : pc' = [pc EXCEPT ![c] = p]
    BY <1>2 DEF NotifySlow, SpawnFail, Go
  <2>2. CASE c = Main
    <3>1. pc[Main] \notin ChainedPcs /\ pc'[Main] \notin JoinedPcs
      BY <1>0, <1>d, <2>1, <2>2
    <3>2. QED
      BY <1>c, <3>1
  <2>3. QED
    BY <1>0, <1>b, <2>1, <2>2
<1>3. ASSUME NEW c \in Callers, Spawn(c) PROVE Path
  <2>1. Unstarted \in Workers
    BY <1>3 DEF Spawn, Unstarted
  <2>2. pc[c] = "spawn" /\ pc' = [pc EXCEPT ![c] = ret[c], ![Unstarted] = "register"]
    BY <1>3 DEF Spawn
  <2>3. CASE c = Main
    <3>1. pc[Main] \notin ChainedPcs /\ pc'[Main] \notin JoinedPcs
      BY <1>0, <1>d, <2>1, <2>2, <2>3
    <3>2. QED
      BY <1>c, <3>1
  <2>4. CASE c # Main
    <3>1. pc'[Main] = pc[Main]
      BY <1>0, <2>1, <2>2, <2>4
    <3>2. QED
      BY <1>a, <3>1
  <2>5. QED
    BY <2>3, <2>4
<1>4. ASSUME NEW t \in Workers,
             \/ Register(t) \/ WaitError(t) \/ WaitConsume(t) \/ WaitIdle(t)
             \/ DrainAndSleep(t) \/ RunDrain(t) \/ ExitDrain(t) \/ Unregister(t)
             \/ NotifyJoin(t) \/ WakeJoin(t)
      PROVE  Path
  <2>1. \E p : pc' = [pc EXCEPT ![t] = p]
    BY <1>4 DEF Register, WaitError, WaitConsume, WaitIdle, DrainAndSleep, RunDrain,
                ExitDrain, Unregister, NotifyJoin, WakeJoin, Go
  <2>2. QED
    BY <1>b, <2>1
<1>5. ASSUME warm \/ push_idle_task \/ shutdown PROVE Path
  <2>1. /\ pc[Main] \in {"ready", "warm", "shutdown"}
        /\ \E p \in {"ready", "spawn", "wakeIdle", "eventShutdown", "join"} :
             pc' = [pc EXCEPT ![Main] = p]
    BY <1>5 DEF warm, push_idle_task, shutdown, Go
  <2>2. QED
    BY <1>0, <1>c, <2>1
<1>6. ASSUME join \/ JoinChain PROVE Path
  <2>1. \/ pc[Main] = "join" /\ join /\ pc'[Main] \in {"joinWait", "joinChain"}
        \/ pc[Main] = "joinChain" /\ JoinChain /\ pc'[Main] \in {"joinNext", "gone"}
    BY <1>0, <1>6 DEF join, JoinChain, Go
  <2>2. QED
    BY <2>1
<1>7. ASSUME NEW c \in Callers, JoinStep(c) PROVE Path
  <2>1. CASE c = Main
    <3>1. CASE JoinPublish(c) \/ JoinFutexWait(c)
      <4>1. pc'[Main] = "joinSleep" /\ pc[Main] \in {"joinWait", "joinSleep"}
        BY <1>0, <2>1, <3>1 DEF JoinPublish, JoinFutexWait, JoinLooks, Go
      <4>2. QED
        BY <4>1
    <3>2. CASE JoinConsume(c)
      <4>1. /\ pc'[Main] = "joinChain" /\ pc[Main] \in {"joinWait", "joinSleep"}
            /\ joinState[Main] = "NOTIFIED"
        BY <1>0, <2>1, <3>2 DEF JoinConsume, JoinLooks, AfterJoin, Go
      <4>2. QED
        BY <4>1
    <3>3. CASE JoinNext(c) \/ JoinWake(c)
      <4>1. pc'[Main] \in {"joinWake", "gone"} /\ pc[Main] \in {"joinNext", "joinWake"}
        BY <1>0, <2>1, <3>3 DEF JoinNext, JoinWake, Gone, Go
      <4>2. QED
        BY <4>1
    <3>4. QED
      BY <1>7, <3>1, <3>2, <3>3 DEF JoinStep
  <2>2. CASE c # Main
    <3>1. \E p : pc' = [pc EXCEPT ![c] = p]
      BY <1>7, JoinMoves
    <3>2. QED
      BY <1>0, <1>b, <2>2, <3>1
  <2>3. QED
    BY <2>1, <2>2
<1> HIDE DEF Path
<1>8. (\E c \in Callers : NotifySlow(c) \/ Spawn(c) \/ SpawnFail(c) \/ JoinStep(c)) => Path
  BY <1>2, <1>3, <1>7
<1>9. Path
  BY <1>1, <1>4, <1>5, <1>6, <1>8, StepKinds
<1>10. QED
  BY <1>9 DEF Path

(* Who changes what the invariant speaks of.                               *)
LEMMA Frames ==
  ASSUME TypeInv, MainOK, [Next]_vars
  PROVE  /\ \/ idleQueue' = idleQueue /\ idleRuns' = idleRuns
            \/ push_idle_task
            \/ \E t \in Workers : DrainAndSleep(t) \/ RunDrain(t) \/ ExitDrain(t)
         /\ \/ threads' = threads /\ next' = next /\ first' = first
            \/ JoinChain
            \/ \E t \in Workers : Register(t)
         /\ \A t \in Workers : joinState'[t] = "NOTIFIED" =>
              \/ joinState[t] = "NOTIFIED"
              \/ \E c \in Callers : JoinNext(c) /\ Follower(c) = t
<1> DEFINE Frame == threads' = threads /\ next' = next /\ first' = first
           IdleFrame == idleQueue' = idleQueue /\ idleRuns' = idleRuns
           Words == \A t \in Workers : joinState'[t] = "NOTIFIED" =>
                      \/ joinState[t] = "NOTIFIED"
                      \/ \E c \in Callers : JoinNext(c) /\ Follower(c) = t
<1>0. joinState \in [Callers -> {"EMPTY", "WAITING", "NOTIFIED"}]
      /\ Workers \subseteq Callers /\ Main \notin Workers
  BY NamesAssumption DEF TypeInv, PoolTypeOK, Callers
<1>a. joinState' = joinState => Words
  OBVIOUS
<1>b. ASSUME joinState' = [joinState EXCEPT ![Main] = "NOTIFIED"] PROVE Words
  BY <1>0, <1>b
<1> HIDE DEF Words
<1>1. CASE Quiet
  BY <1>1, <1>a DEF Quiet, Words
<1>2. ASSUME NEW c \in Callers, NotifySlow(c) \/ Spawn(c) \/ SpawnFail(c)
      PROVE Frame /\ IdleFrame /\ Words
  <2>1. joinState' = joinState \/ joinState' = [joinState EXCEPT ![Main] = "NOTIFIED"]
    BY <1>2 DEF NotifySlow, Spawn, SpawnFail, joinVars
  <2>2. QED
    BY <1>2, <1>a, <1>b, <2>1 DEF NotifySlow, Spawn, SpawnFail, threadVars, joinVars, idleVars
<1>3. ASSUME NEW t \in Workers,
             \/ WaitError(t) \/ WaitConsume(t) \/ WaitIdle(t) \/ Unregister(t)
             \/ NotifyJoin(t) \/ WakeJoin(t)
      PROVE Frame /\ IdleFrame /\ Words
  <2>1. joinState' = joinState \/ joinState' = [joinState EXCEPT ![Main] = "NOTIFIED"]
    BY <1>3 DEF WaitError, WaitConsume, WaitIdle, Unregister, NotifyJoin, WakeJoin, joinVars,
                JoinSwap
  <2>2. QED
    BY <1>3, <1>a, <1>b, <2>1 DEF WaitError, WaitConsume, WaitIdle, Unregister, NotifyJoin,
       WakeJoin, threadVars, joinVars, idleVars, JoinFrame
<1>4. ASSUME NEW t \in Workers, DrainAndSleep(t) \/ RunDrain(t) \/ ExitDrain(t)
      PROVE Frame /\ Words
  BY <1>4, <1>a DEF DrainAndSleep, RunDrain, ExitDrain, threadVars, joinVars
<1>5. ASSUME NEW t \in Workers, Register(t)
      PROVE IdleFrame /\ Words
  BY <1>5, <1>a DEF Register, joinVars, idleVars
<1>6. ASSUME NEW c \in Callers, JoinStep(c)
      PROVE IdleFrame /\ Frame /\ Words
  BY <1>0, <1>6, JoinMoves DEF Words
<1>7. CASE push_idle_task
  BY <1>7, <1>a DEF push_idle_task, threadVars, joinVars, Words
<1>8. CASE warm \/ shutdown \/ join
  <2>1. Frame /\ IdleFrame /\ Words
    BY <1>8, <1>a DEF warm, shutdown, join, threadVars, joinVars, idleVars
  <2>2. QED
    BY <2>1 DEF Words
<1>9. CASE JoinChain
  BY <1>9, <1>a DEF JoinChain, JoinFrame, idleVars, Words
<1>10. QED
  BY <1>1, <1>2, <1>3, <1>4, <1>5, <1>6, <1>7, <1>8, <1>9, StepKinds DEF Words

(* Nothing revives a pool that was shut down; who counts a thread out, and *)
(* who posts the event that join() waits for.                              *)
LEMMA ShutdownFrames ==
  ASSUME TypeInv, MainOK, [Next]_vars
  PROVE  /\ sync.state = "Shutdown" =>
              /\ sync'.state = "Shutdown"
              /\ \/ sync'.spawned = sync.spawned
                 \/ \E t \in Workers : Unregister(t)
                 \/ \E c \in Callers : SpawnFail(c)
         /\ joinState'[Main] = "NOTIFIED" =>
              \/ joinState[Main] = "NOTIFIED"
              \/ \E t \in Workers : NotifyJoin(t)
              \/ \E c \in Callers : SpawnFail(c)
<1> DEFINE Word == sync.state = "Shutdown" =>
                     /\ sync'.state = "Shutdown"
                     /\ \/ sync'.spawned = sync.spawned
                        \/ \E t \in Workers : Unregister(t)
                        \/ \E c \in Callers : SpawnFail(c)
           Event == joinState'[Main] = "NOTIFIED" =>
                      \/ joinState[Main] = "NOTIFIED"
                      \/ \E t \in Workers : NotifyJoin(t)
                      \/ \E c \in Callers : SpawnFail(c)
           Goal == Word /\ Event
<1>0. sync \in Syncs
  BY PoolTypes
<1>1. ASSUME Quiet PROVE Goal
  BY <1>1 DEF Quiet
<1>2. ASSUME NEW c \in Callers, NotifySlow(c) PROVE Goal
  <2>1. joinState' = joinState
    BY <1>2 DEF NotifySlow, joinVars
  <2>2. sync.state = "Shutdown" => sync' = sync
    BY <1>2 DEF NotifySlow
  <2>3. QED
    BY <2>1, <2>2
<1>3. ASSUME NEW c \in Callers, Spawn(c) PROVE Goal
  BY <1>3 DEF Spawn, joinVars
<1>4. ASSUME NEW c \in Callers, SpawnFail(c) PROVE Goal
  <2>1. sync'.state = sync.state
    BY <1>0, <1>4 DEF SpawnFail, Syncs
  <2>2. QED
    BY <1>4, <2>1
<1>5. ASSUME NEW t \in Workers,
             \/ Register(t) \/ WaitError(t) \/ DrainAndSleep(t) \/ RunDrain(t)
             \/ ExitDrain(t) \/ NotifyJoin(t) \/ WakeJoin(t)
      PROVE  Goal
  <2>1. sync' = sync /\ (joinState' = joinState \/ NotifyJoin(t))
    BY <1>5 DEF Register, WaitError, DrainAndSleep, RunDrain, ExitDrain, NotifyJoin,
                WakeJoin, JoinFrame, joinVars
  <2>2. QED
    BY <2>1
<1>6. ASSUME NEW t \in Workers, WaitConsume(t) \/ WaitIdle(t) \/ Unregister(t) PROVE Goal
  <2>1. joinState' = joinState
    BY <1>6 DEF WaitConsume, WaitIdle, Unregister, joinVars
  <2>2. sync.state # "Shutdown" \/ (sync'.state = sync.state /\ Unregister(t))
    BY <1>0, <1>6 DEF WaitConsume, WaitIdle, Unregister, Syncs
  <2>3. QED
    BY <2>1, <2>2
<1>7. ASSUME warm \/ push_idle_task \/ shutdown PROVE Goal
  <2>1. pc[Main] \in {"ready", "warm", "shutdown"}
    BY <1>7 DEF warm, push_idle_task, shutdown
  <2>2. sync.state # "Shutdown"
    BY <2>1 DEF MainOK, Closing, ClosingPcs, JoiningPcs
  <2>3. joinState' = joinState
    BY <1>7 DEF warm, push_idle_task, shutdown, joinVars
  <2>4. QED
    BY <2>2, <2>3
<1>8. ASSUME join \/ JoinChain PROVE Goal
  BY <1>8 DEF join, JoinChain, JoinFrame, joinVars
<1>9. ASSUME NEW c \in Callers, JoinStep(c) PROVE Goal
  <2>1. JoinNext(c) => Follower(c) # Main
    BY NamesAssumption, PoolTypes DEF Follower, TypeInv, PoolTypeOK
  <2>2. QED
    BY <1>9, <2>1, JoinMoves, PoolTypes
<1> HIDE DEF Goal
<1>10. (\E c \in Callers : NotifySlow(c) \/ Spawn(c) \/ SpawnFail(c) \/ JoinStep(c)) => Goal
  BY <1>2, <1>3, <1>4, <1>9
<1>11. (\E t \in Workers :
          \/ Register(t) \/ WaitError(t) \/ WaitConsume(t) \/ WaitIdle(t)
          \/ DrainAndSleep(t) \/ RunDrain(t) \/ ExitDrain(t) \/ Unregister(t)
          \/ NotifyJoin(t) \/ WakeJoin(t)) => Goal
  BY <1>5, <1>6
<1>12. Goal
  BY <1>1, <1>7, <1>8, <1>10, <1>11, StepKinds
<1>13. QED
  BY <1>12 DEF Goal

(* Once the last thread has left, nobody comes back.                       *)
LEMMA JoinOKStep ==
  ASSUME TypeInv, MainOK, SyncCounts, JoinOK, [Next]_vars
  PROVE  JoinOK'
<1>0. sync \in Syncs
  BY PoolTypes
<1> SUFFICES ASSUME LastLeft' PROVE sync'.state = "Shutdown" /\ sync'.spawned = 0
  BY DEF JoinOK
<1>1. CASE LastLeft
  <2>1. sync.state = "Shutdown" /\ sync.spawned = 0
    BY <1>1 DEF JoinOK
  <2>2. LiveThreads = {} /\ Spawning = {}
    BY <2>1, NoWorkerLeft
  <2>3. ASSUME NEW t \in Workers, Unregister(t) PROVE FALSE
    BY <2>2, <2>3 DEF Unregister, LiveThreads, LeftPcs
  <2>4. ASSUME NEW c \in Callers, SpawnFail(c) PROVE FALSE
    BY <2>2, <2>4 DEF SpawnFail, Spawning
  <2>5. QED
    BY <2>1, <2>3, <2>4, ShutdownFrames
<1>2. CASE ~LastLeft
  <2>1. joinState[Main] # "NOTIFIED" /\ pc[Main] \notin JoinedPcs
        /\ \A t \in Workers : pc[t] # "notifyJoin"
    BY <1>2 DEF LastLeft
  <2>2. CASE joinState'[Main] = "NOTIFIED"
    <3>1. ASSUME NEW t \in Workers, NotifyJoin(t) PROVE FALSE
      BY <2>1, <3>1 DEF NotifyJoin
    <3>2. PICK c \in Callers : SpawnFail(c)
      BY <2>1, <2>2, <3>1, ShutdownFrames
    <3>3. sync.state = "Shutdown" /\ sync.spawned = 1
      BY <2>1, <2>2, <3>2 DEF SpawnFail
    <3>4. sync' = [sync EXCEPT !.spawned = @ - 1]
      BY <3>2 DEF SpawnFail
    <3>5. QED
      BY <1>0, <3>3, <3>4 DEF Syncs
  <2>3. CASE \E t \in Workers : pc'[t] = "notifyJoin"
    <3>1. PICK t \in Workers : pc'[t] = "notifyJoin"
      BY <2>3
    <3>2. Unregister(t)
      BY <2>1, <3>1, WorkerPaths
    <3>3. /\ pc' = [pc EXCEPT ![t] = IF sync.state = "Shutdown" /\ sync.spawned = 1
                                       THEN "notifyJoin" ELSE "joinWait"]
          /\ sync' = [sync EXCEPT !.spawned = @ - 1]
      BY <3>2 DEF Unregister, Go
    <3>4. sync.state = "Shutdown" /\ sync.spawned = 1
      BY <3>1, <3>3, PoolTypes
    <3>5. QED
      BY <1>0, <3>3, <3>4 DEF Syncs
  <2>4. CASE pc'[Main] \in JoinedPcs
    <3>1. join
      BY <2>1, <2>4, MainPaths
    <3>2. sync' = sync /\ pc' = [pc EXCEPT ![Main] =
                                   IF sync.state = "Shutdown" /\ sync.spawned = 0
                                     THEN "joinChain" ELSE "joinWait"]
      BY <3>1 DEF join, Go
    <3>3. QED
      BY <2>4, <3>2, PoolTypes DEF JoinedPcs
  <2>5. QED
    BY <2>2, <2>3, <2>4 DEF LastLeft
<1>3. QED
  BY <1>1, <1>2

(* A worker leaves because the pool was shut down.                         *)
LEMMA LeavingOKStep ==
  ASSUME TypeInv, MainOK, LeavingOK, [Next]_vars
  PROVE  LeavingOK'
<1> SUFFICES ASSUME NEW t \in Workers, pc'[t] \in LeavingPcs
             PROVE  sync'.state = "Shutdown"
  BY DEF LeavingOK
<1>1. sync.state = "Shutdown"
  BY WorkerPaths DEF LeavingOK
<1>2. QED
  BY <1>1, ShutdownFrames

(* An idle task waits in one queue, and a worker that leaves runs its own. *)
LEMMA IdleOKStep ==
  ASSUME TypeInv, MainOK, LeavingOK, IdleOK, [Next]_vars
  PROVE  IdleOK'
<1>0. idleQueue \in [Workers -> SUBSET IdleTasks] /\ idleRuns \in [IdleTasks -> Nat]
  BY DEF TypeInv, PoolTypeOK
<1>1. CASE idleQueue' = idleQueue /\ idleRuns' = idleRuns
  <2>1. ASSUME NEW t \in Workers, ExitDrain(t) PROVE idleQueue'[t] = {}
    BY <1>0, <2>1 DEF ExitDrain, drain_idle_events
  <2>2. \A t \in Workers : pc'[t] \in DrainedPcs => idleQueue'[t] = {}
    BY <1>1, <2>1, WorkerPaths DEF IdleOK
  <2>3. QED
    BY <1>1, <2>2 DEF IdleOK
<1>2. ASSUME NEW t \in Workers, drain_idle_events(t) PROVE IdleOK'
  <2>1. /\ idleQueue' = [idleQueue EXCEPT ![t] = {}]
        /\ \A k \in IdleTasks :
             idleRuns'[k] = idleRuns[k] + (IF k \in idleQueue[t] THEN 1 ELSE 0)
    BY <1>2 DEF drain_idle_events
  <2>2. idleQueue'[t] = {} /\ \A u \in Workers \ {t} : idleQueue'[u] = idleQueue[u]
    BY <1>0, <2>1
  <2>3. ASSUME NEW u \in Workers, pc'[u] \in DrainedPcs PROVE idleQueue'[u] = {}
    <3>1. CASE u = t
      BY <2>2, <3>1
    <3>2. CASE u # t /\ pc[u] \in DrainedPcs
      BY <2>2, <3>2 DEF IdleOK
    <3>3. CASE ExitDrain(u)
      BY <1>0, <3>3 DEF ExitDrain, drain_idle_events
    <3>4. QED
      BY <2>3, <3>1, <3>2, <3>3, WorkerPaths
  <2>4. ASSUME NEW k \in IdleTasks
        PROVE  /\ idleRuns'[k] <= 1
               /\ \A u \in Workers : k \in idleQueue'[u] => idleRuns'[k] = 0
               /\ \A u, v \in Workers : k \in idleQueue'[u] /\ k \in idleQueue'[v] => u = v
    <3>1. /\ idleRuns[k] \in Nat /\ idleRuns[k] <= 1
          /\ \A u \in Workers : k \in idleQueue[u] => idleRuns[k] = 0
          /\ \A u, v \in Workers : k \in idleQueue[u] /\ k \in idleQueue[v] => u = v
      BY <1>0 DEF IdleOK
    <3>2. idleRuns'[k] = idleRuns[k] + (IF k \in idleQueue[t] THEN 1 ELSE 0)
      BY <2>1
    <3>3. \A u \in Workers : k \in idleQueue'[u] => u # t /\ k \in idleQueue[u]
      BY <2>2
    <3>4. idleRuns'[k] <= 1
      BY <3>1, <3>2
    <3>5. \A u \in Workers : k \in idleQueue'[u] => k \notin idleQueue[t] /\ idleRuns[k] = 0
      BY <3>1, <3>3
    <3>6. \A u \in Workers : k \in idleQueue'[u] => idleRuns'[k] = 0
      BY <3>2, <3>5
    <3>7. QED
      BY <3>1, <3>3, <3>4, <3>6
  <2>5. QED
    BY <2>3, <2>4 DEF IdleOK
<1>3. CASE push_idle_task
  <2>1. PICK k \in IdleTasks, t \in Workers :
          /\ pc[t] \notin {"none", "register"} /\ idleRuns[k] = 0
          /\ \A u \in Workers : k \notin idleQueue[u]
          /\ idleQueue' = [idleQueue EXCEPT ![t] = @ \cup {k}]
    BY <1>3 DEF push_idle_task
  <2>2. /\ pc[Main] = "ready" /\ idleRuns' = idleRuns
        /\ pc' = [pc EXCEPT ![Main] = "wakeIdle"]
    BY <1>3 DEF push_idle_task, Go
  <2>3. sync.state # "Shutdown"
    BY <2>2 DEF MainOK, Closing, ClosingPcs, JoiningPcs
  <2>4. pc[t] \notin DrainedPcs
    BY <2>1, <2>3 DEF LeavingOK, LeavingPcs, DrainedPcs, LeftPcs
  <2>5. \A u \in Workers : pc'[u] = pc[u]
    BY <2>2, PoolTypes
  <2>6. \A u \in Workers : idleQueue'[u] = IF u = t THEN idleQueue[t] \cup {k} ELSE idleQueue[u]
    BY <1>0, <2>1
  <2>7. \A u \in Workers : pc'[u] \in DrainedPcs => idleQueue'[u] = {}
    BY <2>4, <2>5, <2>6 DEF IdleOK
  <2>8. ASSUME NEW j \in IdleTasks
        PROVE  /\ idleRuns'[j] <= 1
               /\ \A u \in Workers : j \in idleQueue'[u] => idleRuns'[j] = 0
               /\ \A u, v \in Workers : j \in idleQueue'[u] /\ j \in idleQueue'[v] => u = v
    <3>1. /\ idleRuns'[j] = idleRuns[j] /\ idleRuns[j] <= 1
          /\ \A u \in Workers : j \in idleQueue[u] => idleRuns[j] = 0
          /\ \A u, v \in Workers : j \in idleQueue[u] /\ j \in idleQueue[v] => u = v
      BY <2>2 DEF IdleOK
    <3>2. CASE j = k
      BY <2>1, <2>6, <3>1, <3>2
    <3>3. CASE j # k
      BY <2>6, <3>1, <3>3
    <3>4. QED
      BY <3>2, <3>3
  <2>9. QED
    BY <2>7, <2>8 DEF IdleOK
<1>4. ASSUME NEW t \in Workers, DrainAndSleep(t) \/ RunDrain(t) \/ ExitDrain(t)
      PROVE  IdleOK'
  BY <1>2, <1>4 DEF DrainAndSleep, RunDrain, ExitDrain
<1>5. QED
  BY <1>1, <1>3, <1>4, Frames

(* The stack stays a chain.                                                *)
LEMMA LinksOKStep ==
  ASSUME TypeInv, MainOK, LinksOK, [Next]_vars
  PROVE  LinksOK'
<1>0. /\ next \in [Workers -> Workers \cup {None}] /\ threads \in Workers \cup {None}
      /\ None \notin Workers
  BY NamesAssumption DEF TypeInv, PoolTypeOK
<1>a. \A t \in Workers : pc[t] \notin {"none", "register"} => pc'[t] \notin {"none", "register"}
  BY WorkerPaths
<1>1. CASE threads' = threads /\ next' = next /\ first' = first
  BY <1>1, <1>a DEF LinksOK
<1>2. CASE JoinChain
  <2>1. threads' = None /\ next' = next /\ first' = threads
    BY <1>2 DEF JoinChain
  <2>2. QED
    BY <1>0, <1>a, <2>1 DEF LinksOK
<1>3. ASSUME NEW t \in Workers, Register(t) PROVE LinksOK'
  <2>1. /\ pc[t] = "register" /\ threads' = t /\ pc' = [pc EXCEPT ![t] = "wait"]
        /\ next' = [next EXCEPT ![t] = threads] /\ first' = first
    BY <1>3 DEF Register, Go, joinVars
  <2>2. /\ pc'[t] = "wait" /\ next'[t] = threads
        /\ \A u \in Workers \ {t} : next'[u] = next[u]
    BY <1>0, <2>1, PoolTypes
  <2>3. threads # t /\ first # t /\ \A u \in Workers : next[u] # t
    BY <2>1 DEF LinksOK
  <2>4. \A v, u \in Workers :
          (threads' = v \/ first' = v \/ next'[u] = v) => pc'[v] \notin {"none", "register"}
    <3> SUFFICES ASSUME NEW v \in Workers, NEW u \in Workers,
                        threads' = v \/ first' = v \/ next'[u] = v
                 PROVE  pc'[v] \notin {"none", "register"}
      OBVIOUS
    <3>1. CASE v = t
      BY <2>2, <3>1
    <3>2. CASE v # t
      <4>1. threads = v \/ first = v \/ next[u] = v
        BY <2>1, <2>2, <3>2
      <4>2. QED
        BY <1>a, <4>1 DEF LinksOK
    <3>3. QED
      BY <3>1, <3>2
  <2>5. \A u \in Workers : next'[u] # threads'
    BY <2>1, <2>2, <2>3
  <2>6. \A u, v \in Workers : next'[u] = next'[v] /\ next'[u] # None => u = v
    BY <1>0, <2>2 DEF LinksOK
  <2>7. first' # None => first' # threads' /\ \A u \in Workers : next'[u] # first'
    BY <2>1, <2>2, <2>3 DEF LinksOK
  <2>8. QED
    BY <2>4, <2>5, <2>6, <2>7 DEF LinksOK
<1>4. QED
  BY <1>1, <1>2, <1>3, Frames

(* The chain of join events goes down the stack, one thread at a time.     *)
LEMMA TokensOKStep ==
  ASSUME TypeInv, MainOK, SyncCounts, JoinOK, LinksOK, TokensOK, [Next]_vars
  PROVE  TokensOK'
<1>0. /\ next \in [Workers -> Workers \cup {None}] /\ threads \in Workers \cup {None}
      /\ None \notin Workers
  BY NamesAssumption DEF TypeInv, PoolTypeOK
<1>a. /\ \A t \in Workers : pc[t] \in PassedPcs => pc'[t] \in PassedPcs
      /\ pc[Main] \in SwappedPcs => pc'[Main] \in SwappedPcs
  BY WorkerPaths, MainPaths
<1>b. SwappedPcs \subseteq ChainedPcs
  BY DEF SwappedPcs, ChainedPcs
\* Who has been notified: as before, or by the swap of this step.
<1>c. ASSUME NEW t \in Workers, Notified(t)'
      PROVE  Notified(t) \/ \E c \in Callers : JoinNext(c) /\ Follower(c) = t
  <2>1. CASE joinState'[t] = "NOTIFIED"
    BY <2>1, Frames DEF Notified
  <2>2. CASE pc'[t] \in PassingPcs
    <3>1. JoinConsume(t) => joinState[t] = "NOTIFIED"
      BY DEF JoinConsume
    <3>2. QED
      BY <2>2, <3>1, WorkerPaths DEF Notified
  <2>3. QED
    BY <1>c, <2>1, <2>2 DEF Notified
<1>1. CASE JoinChain
  <2>1. /\ pc[Main] = "joinChain" /\ threads' = None /\ first' = threads
        /\ pc' = [pc EXCEPT ![Main] = IF threads = None THEN "gone" ELSE "joinNext"]
    BY <1>1 DEF JoinChain, Go
  <2>2. pc'[Main] \in ChainedPcs
    BY <2>1, PoolTypes DEF ChainedPcs
  <2>3. \A t \in Workers : ~Notified(t)
    BY <2>1 DEF TokensOK, SwappedPcs
  <2>4. \A t \in Workers : ~Notified(t)'
    <3>1. joinState' = joinState /\ \A t \in Workers : pc'[t] = pc[t]
      BY <1>1, <2>1, PoolTypes DEF JoinChain
    <3>2. QED
      BY <2>3, <3>1 DEF Notified
  <2>5. QED
    BY <2>1, <2>2, <2>4 DEF TokensOK
<1>2. CASE threads' = threads /\ next' = next /\ first' = first /\ ~JoinChain
  <2>1. pc[Main] \in ChainedPcs <=> pc'[Main] \in ChainedPcs
    BY <1>2, MainPaths
  <2>2. ASSUME NEW t \in Workers, Notified(t)'
        PROVE  /\ pc'[Main] \in SwappedPcs
               /\ \A u \in Workers : next[u] = t => pc'[u] \in PassedPcs
    <3>1. CASE Notified(t)
      BY <1>a, <3>1 DEF TokensOK
    <3>2. ASSUME NEW c \in Callers, JoinNext(c), Follower(c) = t
          PROVE  /\ pc'[Main] \in SwappedPcs
                 /\ \A u \in Workers : next[u] = t => pc'[u] \in PassedPcs
      <4>1. pc[c] = "joinNext" /\ pc'[c] \in {"joinWake", Gone(c)}
        BY <3>2, PoolTypes DEF JoinNext, Go
      <4>2. CASE c = Main
        <5>1. first = t /\ pc'[Main] \in SwappedPcs
          BY <3>2, <4>1, <4>2 DEF Follower, Gone, SwappedPcs
        <5>2. \A u \in Workers : next[u] # t
          BY <1>0, <5>1 DEF LinksOK
        <5>3. QED
          BY <5>1, <5>2
      <4>3. CASE c # Main
        <5>1. c \in Workers /\ next[c] = t /\ pc'[c] \in PassedPcs
          BY <3>2, <4>1, <4>3, PoolTypes DEF Follower, Gone, PassedPcs
        <5>2. Notified(c)
          BY <4>1 DEF Notified, PassingPcs
        <5>3. pc'[Main] \in SwappedPcs
          BY <1>a, <5>1, <5>2 DEF TokensOK
        <5>4. \A u \in Workers : next[u] = t => u = c
          BY <1>0, <5>1 DEF LinksOK
        <5>5. QED
          BY <5>1, <5>3, <5>4
      <4>4. QED
        BY <4>2, <4>3
    <3>3. QED
      BY <1>c, <2>2, <3>1, <3>2
  <2>3. QED
    BY <1>2, <2>1, <2>2 DEF TokensOK
<1>3. ASSUME NEW t \in Workers, Register(t) PROVE TokensOK'
  <2>1. t \in LiveThreads
    BY <1>3 DEF Register, LiveThreads, LeftPcs
  <2>2. pc[Main] \notin JoinedPcs
    <3> SUFFICES ASSUME pc[Main] \in JoinedPcs PROVE FALSE
      OBVIOUS
    <3>1. LastLeft
      BY DEF LastLeft
    <3>2. sync.spawned = 0
      BY <3>1 DEF JoinOK
    <3>3. QED
      BY <2>1, <3>2, NoWorkerLeft
  <2>3. pc[Main] \notin ChainedPcs /\ pc[Main] \notin SwappedPcs
    BY <2>2 DEF JoinedPcs, ChainedPcs, SwappedPcs
  <2>4. /\ pc[t] = "register" /\ joinState' = joinState /\ first' = first
        /\ pc' = [pc EXCEPT ![t] = "wait"]
    BY <1>3 DEF Register, Go, joinVars
  <2>5. pc'[Main] = pc[Main] /\ \A u \in Workers : pc'[u] = IF u = t THEN "wait" ELSE pc[u]
    BY <2>4, PoolTypes
  <2>6. \A u \in Workers : ~Notified(u)
    BY <2>3 DEF TokensOK
  <2>7. \A u \in Workers : ~Notified(u)'
    BY <2>4, <2>5, <2>6 DEF Notified, PassingPcs
  <2>8. QED
    BY <2>3, <2>4, <2>5, <2>7 DEF TokensOK
<1>4. QED
  BY <1>1, <1>2, <1>3, Frames

LEMMA JoinInvInit == Init => JoinInv
<1> SUFFICES ASSUME Init PROVE JoinInv
  OBVIOUS
<1>0. TypeInv
  BY TypeInvInit
<1>1. /\ sync = Sync("Pending", FALSE, 0, 0) /\ threads = None
      /\ next = [t \in Workers |-> None] /\ isIdle = [t \in Workers |-> FALSE]
      /\ pc = [c \in Callers |-> IF c = Main THEN "ready" ELSE "none"]
      /\ ret = [c \in Callers |-> IF c = Main THEN "ready" ELSE "call"]
      /\ idleQueue = [t \in Workers |-> {}] /\ idleRuns = [k \in IdleTasks |-> 0]
      /\ joinState = [c \in Callers |-> "EMPTY"] /\ first = None
  BY DEF Init
<1>2. pc[Main] = "ready" /\ ret[Main] = "ready" /\ \A t \in Workers : pc[t] = "none"
  BY <1>1, NamesAssumption DEF Callers
<1>3. sync.state = "Pending" /\ sync.idle = 0 /\ sync.spawned = 0
  BY <1>1 DEF Sync
<1>4. SyncCounts
  <2>1. IdleThreads = {} /\ LiveThreads = {}
    BY <1>1, <1>2 DEF IdleThreads, LiveThreads
  <2>2. Spawning = {}
    BY <1>2 DEF Spawning, Callers
  <2>3. Cardinality({}) = 0
    BY FS_EmptySet
  <2>4. QED
    BY <1>3, <2>1, <2>2, <2>3 DEF SyncCounts
<1>5. MainOK
  BY <1>2, <1>3 DEF MainOK, Closing, ClosingPcs, JoiningPcs
<1>6. JoinOK /\ LeavingOK
  BY <1>1, <1>2 DEF JoinOK, LastLeft, JoinedPcs, LeavingOK, LeavingPcs, LeftPcs, Callers
<1>7. IdleOK
  BY <1>1 DEF IdleOK
<1>8. LinksOK /\ TokensOK
  BY <1>1, <1>2, NamesAssumption DEF LinksOK, TokensOK, Notified, ChainedPcs, SwappedPcs,
     PassingPcs, Callers
<1>9. QED
  BY <1>0, <1>4, <1>5, <1>6, <1>7, <1>8 DEF JoinInv

LEMMA JoinInvStep == JoinInv /\ [Next]_vars => JoinInv'
<1> SUFFICES ASSUME JoinInv, [Next]_vars PROVE JoinInv'
  OBVIOUS
<1>1. /\ TypeInv /\ SyncCounts /\ MainOK /\ JoinOK /\ LeavingOK /\ IdleOK /\ LinksOK
      /\ TokensOK
  BY DEF JoinInv
<1>2. TypeInv' /\ SyncCounts' /\ MainOK'
  BY <1>1, TypeInvStep, CountsStep, MainOKStep
<1>3. JoinOK' /\ LeavingOK' /\ IdleOK'
  BY <1>1, JoinOKStep, LeavingOKStep, IdleOKStep
<1>4. LinksOK' /\ TokensOK'
  BY <1>1, LinksOKStep, TokensOKStep
<1>5. QED
  BY <1>2, <1>3, <1>4 DEF JoinInv

(* The invariant behind the theorems that follow.                          *)
THEOREM JoinInvariant == Spec => []JoinInv
BY JoinInvInit, JoinInvStep, PTL DEF Spec

(* `idle` and `spawned` count the threads they stand for in every state,   *)
(* so no fetch_sub of the packed word borrows from its neighbour.          *)
THEOREM CountersAreExact == Spec => []SyncCounts
<1>1. JoinInv => SyncCounts
  BY DEF JoinInv
<1>2. QED
  BY <1>1, JoinInvariant, PTL

(* When join() goes on, no worker uses the pool any more.                  *)
LEMMA NobodyAfterJoin ==
  ASSUME JoinInv, pc[Main] \in JoinedPcs
  PROVE  LiveThreads = {} /\ sync.state = "Shutdown" /\ sync.spawned = 0
<1>1. LastLeft
  BY DEF LastLeft
<1>2. sync.state = "Shutdown" /\ sync.spawned = 0
  BY <1>1 DEF JoinInv, JoinOK
<1>3. QED
  BY <1>2, NoWorkerLeft DEF JoinInv

(* join() goes on only after every worker has counted itself out, however  *)
(* shutdown, refused spawns and leaving threads interleave.                *)
THEOREM PoolIsLeftFirst == Spec => []PoolOutlivesWorkers
<1>1. JoinInv => PoolOutlivesWorkers
  BY NobodyAfterJoin DEF PoolOutlivesWorkers, JoinedPcs
<1>2. QED
  BY <1>1, JoinInvariant, PTL

(* Every idle task that was pushed runs before drop() returns, and none    *)
(* runs twice.                                                             *)
THEOREM IdleTasksAreRun == Spec => []IdleTasksRunBeforeFree
<1>1. JoinInv => IdleTasksRunBeforeFree
  <2> SUFFICES ASSUME JoinInv PROVE IdleTasksRunBeforeFree
    OBVIOUS
  <2>1. IdleOK /\ MainOK
    BY DEF JoinInv
  <2>2. ASSUME freed, NEW t \in Workers PROVE idleQueue[t] = {}
    <3>1. LiveThreads = {}
      BY <2>2, NobodyAfterJoin DEF freed, JoinedPcs
    <3>2. pc[t] \in DrainedPcs
      BY <3>1 DEF LiveThreads, DrainedPcs
    <3>3. QED
      BY <2>1, <3>2 DEF IdleOK
  <2>3. QED
    BY <2>1, <2>2 DEF IdleOK, IdleTasksRunBeforeFree
<1>2. QED
  BY <1>1, JoinInvariant, PTL

(* A Thread whose worker is gone is not on the stack, no running thief has *)
(* it as a target, and the thread above it, or join(), has made the swap   *)
(* on its join_event.  What that thread may still do to it is the futex    *)
(* wake of Event::notify(): the theorem does not rule that out, for the    *)
(* code does not.                                                          *)
THEOREM StacksAreLeftAlone == Spec => []StacksOutliveAccess
<1>1. JoinInv => StacksOutliveAccess
  <2> SUFFICES ASSUME JoinInv, NEW t \in Workers, pc[t] = "exited"
               PROVE  /\ threads # t
                      /\ \A c \in Callers : Follower(c) = t => pc[c] \in {"joinWake", Gone(c)}
                      /\ \A u \in Workers : victim[u] = t \/ target[u] = t => u \notin LiveThreads
    BY DEF StacksOutliveAccess
  <2>1. Notified(t)
    BY DEF Notified, PassingPcs
  <2>2. /\ pc[Main] \in SwappedPcs /\ threads = None
        /\ \A u \in Workers : next[u] = t => pc[u] \in PassedPcs
    BY <2>1 DEF JoinInv, TokensOK, SwappedPcs, ChainedPcs
  <2>3. LiveThreads = {}
    BY <2>2, NobodyAfterJoin DEF SwappedPcs, JoinedPcs
  <2>4. threads # t
    BY <2>2, NamesAssumption
  <2>5. ASSUME NEW c \in Callers, Follower(c) = t PROVE pc[c] \in {"joinWake", Gone(c)}
    BY <2>2, <2>5 DEF Callers, Follower, Gone, SwappedPcs, PassedPcs
  <2>6. QED
    BY <2>3, <2>4, <2>5
<1>2. QED
  BY <1>1, JoinInvariant, PTL

-----------------------------------------------------------------------------
(* Every task runs once: the inductive invariant.                          *)

(* The places a task can be in, and the tasks in each of them.             *)
Slots == ({"list"} \X Callers) \cup ({"queue"} \X Queues) \cup ({"grab", "buf", "run"} \X Workers)

Holdings(l, q, g, b, r) ==
  [p \in Slots |-> CASE p[1] = "list" -> l[p[2]]
                     [] p[1] = "queue" -> q[p[2]]
                     [] p[1] = "grab" -> g[p[2]]
                     [] p[1] = "buf" -> b[p[2]]
                     [] p[1] = "run" -> {r[p[2]]} \ {None}]
hold == Holdings(list, queue, grab, buf, running)

Disjoint(h) == \A p, q \in Slots : p # q => h[p] \cap h[q] = {}
HeldIn(h, k) == \E p \in Slots : k \in h[p]
Held(k) == HeldIn(hold, k)
Unfinished == {k \in scheduled : Held(k)}

(* Where a thread is says what it has in its hands: a list only while it   *)
(* schedules, nodes it has grabbed only until it publishes them, and a     *)
(* node from pop() to finish(), whose callback has run if the thread       *)
(* returns to finish().                                                    *)
SchedulingPcs == {"add", "push", "pushBuffer", "overflow"}
HandOK(t) ==
  /\ running[t] # None <=> pc[t] \in NodePcs
  /\ grab[t] # {} => pc[t] = "publish"
  /\ list[t] # {} => pc[t] \in SchedulingPcs
  /\ pc[t] \in {"release", "call"} => ret[t] = "call"
  /\ pc[t] \in SchedulingPcs \cup {"finish"} => ret[t] = "finish"
  /\ pc[t] = "add" => list[t] \subseteq Kids[running[t]]
  /\ pc[t] \in NodePcs => runs[running[t]] = (IF ret[t] = "finish" THEN 1 ELSE 0)
HandsOK ==
  /\ \A t \in Workers : HandOK(t)
  /\ list[Main] # {} => pc[Main] \in {"add", "push"}

(* A task is in one place at most.  It is in a place from the moment its   *)
(* batch is put together, counted from wait_group.add() on, and leaves the *)
(* last place after its callback ran; the batch of a callback is nowhere   *)
(* before that callback runs.                                              *)
TaskOK(k) ==
  /\ runs[k] <= 1
  /\ runs[k] = 1 => k \in scheduled
  /\ k \in scheduled /\ ~Held(k) => runs[k] = 1
  /\ \A p \in Slots : k \in hold[p] /\ p[1] # "run" => runs[k] = 0
  /\ Held(k) => k \in scheduled \/ \E c \in Callers : pc[c] = "add" /\ k \in list[c]
  /\ \A c \in Callers : pc[c] = "add" /\ k \in list[c] => k \notin scheduled
  /\ \A j \in Kids[k] : runs[k] = 0 => j \notin scheduled /\ ~Held(j)
TasksOK ==
  /\ Disjoint(hold)
  /\ \A k \in Tasks : TaskOK(k)
  /\ waitGroup = Cardinality(Unfinished)

TaskInv == TypeInv /\ HandsOK /\ TasksOK

LEMMA SlotFacts ==
  ASSUME NEW l, NEW q, NEW g, NEW b, NEW r, NEW h, h = Holdings(l, q, g, b, r)
  PROVE  /\ \A c \in Callers : <<"list", c>> \in Slots /\ h[<<"list", c>>] = l[c]
         /\ \A x \in Queues : <<"queue", x>> \in Slots /\ h[<<"queue", x>>] = q[x]
         /\ \A t \in Workers : <<"grab", t>> \in Slots /\ h[<<"grab", t>>] = g[t]
         /\ \A t \in Workers : <<"buf", t>> \in Slots /\ h[<<"buf", t>>] = b[t]
         /\ \A t \in Workers : <<"run", t>> \in Slots /\ h[<<"run", t>>] = {r[t]} \ {None}
<1>1. \A c \in Callers : <<"list", c>> \in Slots /\ h[<<"list", c>>] = l[c]
  BY DEF Slots, Holdings
<1>2. \A x \in Queues : <<"queue", x>> \in Slots /\ h[<<"queue", x>>] = q[x]
  BY DEF Slots, Holdings
<1>3. \A t \in Workers : <<"grab", t>> \in Slots /\ h[<<"grab", t>>] = g[t]
  BY DEF Slots, Holdings
<1>4. \A t \in Workers : <<"buf", t>> \in Slots /\ h[<<"buf", t>>] = b[t]
  BY DEF Slots, Holdings
<1>5. \A t \in Workers : <<"run", t>> \in Slots /\ h[<<"run", t>>] = {r[t]} \ {None}
  BY DEF Slots, Holdings
<1>6. QED
  BY <1>1, <1>2, <1>3, <1>4, <1>5

LEMMA SlotKinds ==
  ASSUME NEW p \in Slots
  PROVE  \/ \E c \in Callers : p = <<"list", c>>
         \/ \E x \in Queues : p = <<"queue", x>>
         \/ \E t \in Workers : p = <<"grab", t>> \/ p = <<"buf", t>> \/ p = <<"run", t>>
BY DEF Slots

(* Tasks that move from one place to another stay in one place.            *)
LEMMA Transfer ==
  ASSUME NEW f, NEW g, NEW a \in Slots, NEW b \in Slots, a # b, NEW S, S \subseteq f[a],
         g[a] = f[a] \ S, g[b] = f[b] \cup S, \A p \in Slots \ {a, b} : g[p] = f[p],
         Disjoint(f), a[1] # "run"
  PROVE  /\ Disjoint(g)
         /\ \A k : HeldIn(g, k) <=> HeldIn(f, k)
         /\ \A k : \A p \in Slots : k \in g[p] /\ p[1] # "run" =>
              \E q \in Slots : k \in f[q] /\ q[1] # "run"
<1>1. Disjoint(g)
  BY DEF Disjoint
<1>2. ASSUME NEW k PROVE HeldIn(g, k) <=> HeldIn(f, k)
  <2>1. HeldIn(g, k) => HeldIn(f, k)
    <3>1. \A p \in Slots : k \in g[p] => k \in f[p] \/ k \in f[a]
      OBVIOUS
    <3>2. QED
      BY <3>1 DEF HeldIn
  <2>2. HeldIn(f, k) => HeldIn(g, k)
    <3>1. \A p \in Slots : k \in f[p] => k \in g[p] \/ k \in g[b]
      OBVIOUS
    <3>2. QED
      BY <3>1 DEF HeldIn
  <2>3. QED
    BY <2>1, <2>2
<1>3. ASSUME NEW k, NEW p \in Slots, k \in g[p], p[1] # "run"
      PROVE  \E q \in Slots : k \in f[q] /\ q[1] # "run"
  <2>1. k \in f[p] \/ k \in f[a]
    BY <1>3
  <2>2. QED
    BY <1>3, <2>1
<1>4. QED
  BY <1>1, <1>2, <1>3

(* A step that only moves tasks keeps TasksOK.                             *)
LEMMA MoveOK ==
  ASSUME TypeInv, TasksOK, Disjoint(hold'),
         \A k \in Tasks : HeldIn(hold', k) <=> HeldIn(hold, k),
         \A k \in Tasks : \A p \in Slots : k \in hold'[p] /\ p[1] # "run" =>
           \E q \in Slots : k \in hold[q] /\ q[1] # "run",
         runs' = runs, scheduled' = scheduled, waitGroup' = waitGroup,
         \A c \in Callers : /\ pc'[c] = "add" <=> pc[c] = "add"
                            /\ pc[c] = "add" => list'[c] = list[c]
  PROVE  TasksOK'
<1>1. \A k \in Tasks : Held(k)' <=> Held(k)
  BY DEF Held
<1>2. Disjoint(hold)'
  BY DEF Disjoint
<1>3. ASSUME NEW k \in Tasks PROVE TaskOK(k)'
  <2>1. TaskOK(k) /\ Kids[k] \subseteq Tasks
    BY TasksAssumption DEF TasksOK
  <2>2. \A p \in Slots : k \in hold'[p] /\ p[1] # "run" => runs'[k] = 0
    BY <2>1 DEF TaskOK
  <2>3. /\ runs'[k] <= 1
        /\ runs'[k] = 1 => k \in scheduled'
        /\ k \in scheduled' /\ ~(Held(k)') => runs'[k] = 1
    BY <1>1, <2>1 DEF TaskOK
  <2>4. Held(k)' => k \in scheduled' \/ \E c \in Callers : pc'[c] = "add" /\ k \in list'[c]
    BY <1>1, <2>1 DEF TaskOK
  <2>5. \A c \in Callers : pc'[c] = "add" /\ k \in list'[c] => k \notin scheduled'
    BY <2>1 DEF TaskOK
  <2>6. \A j \in Kids[k] : runs'[k] = 0 => j \notin scheduled' /\ ~(Held(j)')
    BY <1>1, <2>1 DEF TaskOK
  <2>7. QED
    BY <2>2, <2>3, <2>4, <2>5, <2>6 DEF TaskOK
<1>4. Unfinished' = Unfinished
  <2>1. scheduled \subseteq Tasks
    BY DEF TypeInv, PoolTypeOK
  <2>2. QED
    BY <1>1, <2>1 DEF Unfinished
<1>5. QED
  BY <1>2, <1>3, <1>4 DEF TasksOK

(* In particular one that moves some from one place to another.            *)
LEMMA TransferOK ==
  ASSUME TypeInv, TasksOK, NEW a \in Slots, NEW b \in Slots, a # b, a[1] # "run",
         NEW S, S \subseteq hold[a], hold'[a] = hold[a] \ S, hold'[b] = hold[b] \cup S,
         \A p \in Slots \ {a, b} : hold'[p] = hold[p],
         runs' = runs, scheduled' = scheduled, waitGroup' = waitGroup,
         \A c \in Callers : /\ pc'[c] = "add" <=> pc[c] = "add"
                            /\ pc[c] = "add" => list'[c] = list[c]
  PROVE  TasksOK'
<1>1. Disjoint(hold)
  BY DEF TasksOK
<1>2. /\ Disjoint(hold')
      /\ \A k : HeldIn(hold', k) <=> HeldIn(hold, k)
      /\ \A k : \A p \in Slots : k \in hold'[p] /\ p[1] # "run" =>
           \E q \in Slots : k \in hold[q] /\ q[1] # "run"
  BY <1>1, Transfer
<1>3. QED
  BY <1>2, MoveOK

(* What a step that touches no task may do with a thread.                  *)
SignalPcs == {"notify", "notifySlow", "event", "wake", "spawn"}
CalmPc(t) ==
  /\ ret'[t] = ret[t]
  /\ \/ pc'[t] = pc[t]
     \/ pc[t] \notin NodePcs \cup {"publish"} /\ pc'[t] \notin NodePcs \cup {"publish"}
     \/ pc[t] \in SignalPcs \cup {"release"} /\ pc'[t] \in SignalPcs \cup {ret[t]}
TaskFrame ==
  /\ list' = list /\ queue' = queue /\ grab' = grab /\ buf' = buf /\ running' = running
  /\ runs' = runs /\ scheduled' = scheduled /\ waitGroup' = waitGroup
Calm ==
  /\ TaskFrame
  /\ \A t \in Workers : CalmPc(t)
  /\ \/ pc'[Main] = pc[Main]
     \/ pc[Main] \notin {"add", "push"} /\ pc'[Main] \notin {"add", "push"}

LEMMA CalmStep ==
  ASSUME TaskInv, Calm
  PROVE  HandsOK' /\ TasksOK'
<1>0. TypeInv /\ HandsOK /\ TasksOK /\ TaskFrame
  BY DEF TaskInv, Calm
<1>1. ASSUME NEW t \in Workers PROVE HandOK(t)' /\ (pc'[t] = "add" <=> pc[t] = "add")
  <2>1. HandOK(t) /\ CalmPc(t) /\ ret[t] \in {"call", "finish"}
    BY <1>0, PoolTypes DEF HandsOK, Calm
  <2>2. /\ running'[t] = running[t] /\ grab'[t] = grab[t] /\ list'[t] = list[t]
        /\ runs' = runs /\ ret'[t] = ret[t]
    BY <1>0, <2>1 DEF TaskFrame, CalmPc
  <2>3. CASE pc'[t] = pc[t]
    BY <2>1, <2>2, <2>3 DEF HandOK
  <2>4. CASE pc[t] \notin NodePcs \cup {"publish"} /\ pc'[t] \notin NodePcs \cup {"publish"}
    BY <2>1, <2>2, <2>4 DEF HandOK, NodePcs, SchedulingPcs
  <2>5. CASE pc[t] \in SignalPcs \cup {"release"} /\ pc'[t] \in SignalPcs \cup {ret[t]}
    <3>1. /\ pc[t] \in NodePcs /\ pc'[t] \in NodePcs
          /\ pc[t] \notin SchedulingPcs \cup {"publish"}
          /\ pc'[t] \notin SchedulingPcs \cup {"publish", "release"}
      BY <2>1, <2>5 DEF SignalPcs, NodePcs, SchedulingPcs
    <3>2. pc'[t] = "call" => ret[t] = "call"
      BY <2>5 DEF SignalPcs
    <3>3. pc'[t] = "finish" => ret[t] = "finish"
      BY <2>5 DEF SignalPcs
    <3>4. pc[t] # "add" /\ pc'[t] # "add"
      BY <3>1 DEF SchedulingPcs
    <3>5. grab[t] = {} /\ list[t] = {} /\ running[t] # None
          /\ runs[running[t]] = IF ret[t] = "finish" THEN 1 ELSE 0
      BY <2>1, <3>1 DEF HandOK
    <3>6. QED
      BY <2>2, <3>1, <3>2, <3>3, <3>4, <3>5 DEF HandOK
  <2>6. QED
    BY <2>1, <2>3, <2>4, <2>5 DEF CalmPc
<1>2. /\ list'[Main] # {} => pc'[Main] \in {"add", "push"}
      /\ pc'[Main] = "add" <=> pc[Main] = "add"
  BY <1>0 DEF HandsOK, TaskFrame, Calm
<1>3. HandsOK'
  BY <1>1, <1>2 DEF HandsOK
<1>4. hold' = hold
  BY <1>0 DEF hold, TaskFrame
<1>5. \A c \in Callers : /\ pc'[c] = "add" <=> pc[c] = "add"
                         /\ pc[c] = "add" => list'[c] = list[c]
  BY <1>0, <1>1, <1>2 DEF Callers, TaskFrame
<1>6. Disjoint(hold)
  BY <1>0 DEF TasksOK
<1>7. TasksOK'
  BY <1>0, <1>4, <1>5, <1>6, MoveOK DEF TaskFrame
<1>8. QED
  BY <1>3, <1>7

(* Only these steps touch a task; the others are calm.                     *)
LEMMA CalmKinds ==
  ASSUME TypeInv, HandsOK, [Next]_vars
  PROVE  \/ Calm
         \/ \E c \in Callers : Add(c) \/ Push(c)
         \/ \E t \in Workers :
              \/ PushBuffer(t) \/ Overflow(t) \/ PushOverflow(t) \/ PopBuffer(t)
              \/ StealBuffer(t) \/ Fill(t) \/ Publish(t) \/ Call(t) \/ Finish(t)
         \/ schedule
<1>0. /\ pc \in [Callers -> MainPcs \cup WorkerPcs \cup CallerPcs]
      /\ ret \in [Callers -> {"ready", "warm", "join", "call", "finish"}]
      /\ Workers \subseteq Callers /\ Main \in Callers
      /\ \A t \in Workers : t # Main /\ ret[t] \in {"call", "finish"}
      /\ ret[Main] \in {"ready", "warm", "join"}
  BY PoolTypes
<1> USE DEF popVars, queueVars, taskVars
<1>a. ASSUME NEW c \in Callers, NEW p, pc' = [pc EXCEPT ![c] = p], ret' = ret, TaskFrame,
             pc[c] \in SignalPcs, p \in SignalPcs \cup {ret[c]} \/ (p = "ready" /\ c = Main)
      PROVE  Calm
  <2>1. pc'[c] = p /\ \A d \in Callers \ {c} : pc'[d] = pc[d]
    BY <1>0, <1>a
  <2>2. \A t \in Workers : CalmPc(t)
    BY <1>0, <1>a, <2>1 DEF CalmPc
  <2>3. \/ pc'[Main] = pc[Main]
        \/ pc[Main] \notin {"add", "push"} /\ pc'[Main] \notin {"add", "push"}
    BY <1>0, <1>a, <2>1 DEF SignalPcs
  <2>4. QED
    BY <1>a, <2>2, <2>3 DEF Calm
<1> DEFINE Away == {"none", "register", "wait", "drain", "sleep", "pop", "poolQueue", "count",
                    "steal", "stealBuffer", "fill", "runDrain", "exitDrain", "unregister",
                    "notifyJoin", "wakeJoin", "joinWait", "joinSleep", "joinNext", "joinWake",
                    "exited"}
<1>b. ASSUME NEW t \in Workers, TaskFrame, ret' = ret, pc[t] \in Away,
             pc' = pc \/ \E p \in Away : pc' = [pc EXCEPT ![t] = p]
      PROVE  Calm
  <2>1. /\ pc'[t] = pc[t] \/ pc'[t] \in Away
        /\ \A d \in Callers \ {t} : pc'[d] = pc[d]
    BY <1>0, <1>b
  <2>2. \A x \in Away : x \notin NodePcs \cup {"publish"}
    BY DEF NodePcs
  <2> HIDE DEF Away
  <2>3. \A u \in Workers : CalmPc(u)
    BY <1>0, <1>b, <2>1, <2>2 DEF CalmPc
  <2>4. pc'[Main] = pc[Main]
    BY <1>0, <2>1
  <2>5. QED
    BY <1>b, <2>3, <2>4 DEF Calm
<1>c. ASSUME NEW p, pc' = [pc EXCEPT ![Main] = p], TaskFrame, p \notin {"add", "push"},
             pc[Main] \notin {"add", "push"}, \A t \in Workers : ret'[t] = ret[t]
      PROVE  Calm
  <2>1. pc'[Main] = p /\ \A t \in Workers : pc'[t] = pc[t]
    BY <1>0, <1>c
  <2>2. QED
    BY <1>c, <2>1 DEF Calm, CalmPc
<1> HIDE DEF Away
<1>1. ASSUME NEW c \in Callers, Notify(c) \/ NotifySlow(c) PROVE Calm
  <2>1. TaskFrame /\ ret' = ret
    BY <1>1 DEF Notify, NotifySlow, TaskFrame
  <2>2. /\ pc[c] \in SignalPcs
        /\ \E p \in SignalPcs \cup {ret[c]} : pc' = [pc EXCEPT ![c] = p]
    BY <1>1 DEF Notify, NotifySlow, Go, SignalPcs
  <2>3. QED
    BY <1>a, <2>1, <2>2
<1>2. ASSUME NEW c \in Callers, EventNotify(c) \/ EventWake(c) PROVE Calm
  <2>1. TaskFrame /\ ret' = ret
    BY <1>2 DEF EventNotify, EventWake, TaskFrame
  <2>2. /\ pc[c] \in SignalPcs
        /\ \E p \in SignalPcs \cup {ret[c]} : pc' = [pc EXCEPT ![c] = p]
    BY <1>2 DEF EventNotify, EventWake, Go, SignalPcs
  <2>3. QED
    BY <1>a, <2>1, <2>2
<1>3. ASSUME NEW c \in Callers, SpawnFail(c) PROVE Calm
  <2>1. TaskFrame /\ ret' = ret
    BY <1>3 DEF SpawnFail, TaskFrame
  <2>2. pc[c] \in SignalPcs
    BY <1>3 DEF SpawnFail, SignalPcs
  <2>3. \E p : pc' = [pc EXCEPT ![c] = p] /\ (p = ret[c] \/ (p = "ready" /\ ret[c] = "warm"))
    BY <1>3 DEF SpawnFail, Go
  <2>4. ret[c] = "warm" => c = Main
    BY <1>0 DEF Callers
  <2>5. QED
    BY <1>a, <2>1, <2>2, <2>3, <2>4
<1>4. ASSUME NEW c \in Callers, Spawn(c) PROVE Calm
  <2> DEFINE n == Unstarted
  <2>1. n \in Workers /\ pc[n] = "none"
    BY <1>4 DEF Spawn, Unstarted
  <2>2. /\ pc[c] = "spawn" /\ pc' = [pc EXCEPT ![c] = ret[c], ![n] = "register"]
        /\ ret' = ret /\ TaskFrame
    BY <1>4 DEF Spawn, TaskFrame
  <2> HIDE DEF n
  <2>3. /\ pc'[n] = "register" /\ pc'[c] = ret[c]
        /\ \A d \in Callers \ {c, n} : pc'[d] = pc[d]
    BY <1>0, <2>1, <2>2
  <2>4. ASSUME NEW t \in Workers PROVE CalmPc(t)
    <3>1. CASE t = n
      BY <2>1, <2>2, <2>3, <3>1 DEF CalmPc, NodePcs
    <3>2. CASE t = c
      BY <2>2, <2>3, <3>2 DEF CalmPc, SignalPcs
    <3>3. CASE t # n /\ t # c
      BY <1>0, <2>2, <2>3, <3>3 DEF CalmPc
    <3>4. QED
      BY <3>1, <3>2, <3>3
  <2>5. \/ pc'[Main] = pc[Main]
        \/ pc[Main] \notin {"add", "push"} /\ pc'[Main] \notin {"add", "push"}
    BY <1>0, <2>1, <2>2, <2>3
  <2>6. QED
    BY <2>2, <2>4, <2>5 DEF Calm
<1>5. ASSUME NEW t \in Workers,
             \/ Register(t) \/ WaitError(t) \/ WaitConsume(t) \/ WaitIdle(t) \/ WaitSleep(t)
      PROVE Calm
  <2>1. TaskFrame /\ ret' = ret
    BY <1>5 DEF Register, WaitError, WaitConsume, WaitIdle, WaitSleep, TaskFrame
  <2>2. pc[t] \in Away /\ \E p \in Away : pc' = [pc EXCEPT ![t] = p]
    BY <1>5 DEF Register, WaitError, WaitConsume, WaitIdle, WaitSleep, Go, Away
  <2>3. QED
    BY <1>b, <2>1, <2>2
<1>6. ASSUME NEW t \in Workers,
             DrainAndSleep(t) \/ Sleep(t) \/ RunDrain(t) \/ ExitDrain(t)
      PROVE Calm
  <2>1. TaskFrame /\ ret' = ret
    BY <1>6 DEF DrainAndSleep, Sleep, RunDrain, ExitDrain, TaskFrame
  <2>2. pc[t] \in Away /\ (pc' = pc \/ \E p \in Away : pc' = [pc EXCEPT ![t] = p])
    BY <1>6 DEF DrainAndSleep, Sleep, RunDrain, ExitDrain, Go, Away
  <2>3. QED
    BY <1>b, <2>1, <2>2
<1>7. ASSUME NEW t \in Workers, Unregister(t) \/ NotifyJoin(t) \/ WakeJoin(t) PROVE Calm
  <2>1. TaskFrame /\ ret' = ret
    BY <1>7 DEF Unregister, NotifyJoin, WakeJoin, JoinFrame, TaskFrame
  <2>2. pc[t] \in Away /\ \E p \in Away : pc' = [pc EXCEPT ![t] = p]
    BY <1>7 DEF Unregister, NotifyJoin, WakeJoin, Go, Away
  <2>3. QED
    BY <1>b, <2>1, <2>2
<1>8. ASSUME NEW t \in Workers, PopOwnQueue(t) \/ PopPoolQueue(t) PROVE Calm
  <2>1. TaskFrame /\ ret' = ret
    BY <1>8 DEF PopOwnQueue, PopPoolQueue, TaskFrame
  <2>2. pc[t] \in Away /\ \E p \in Away : pc' = [pc EXCEPT ![t] = p]
    BY <1>8 DEF PopOwnQueue, PopPoolQueue, TryAcquireConsumer, Go, Away
  <2>3. QED
    BY <1>b, <2>1, <2>2
<1>9. ASSUME NEW t \in Workers, StealQueue(t) PROVE Calm
  <2>1. pc[t] = "steal" /\ \E v : StealFrom(t, v)
    BY <1>9 DEF StealQueue
  <2>2. PICK v : StealFrom(t, v)
    BY <2>1
  <2>3. TaskFrame /\ ret' = ret
    BY <2>2 DEF StealFrom, TaskFrame
  <2>4. pc[t] \in Away /\ \E p \in Away : pc' = [pc EXCEPT ![t] = p]
    BY <2>1, <2>2 DEF StealFrom, TryAcquireConsumer, Go, Away
  <2>5. QED
    BY <1>b, <2>3, <2>4
<1>10. ASSUME NEW t \in Workers, StealBufferEmpty(t) \/ PopNone(t) \/ CountThreads(t) PROVE Calm
  <2>1. TaskFrame /\ ret' = ret
    BY <1>10 DEF StealBufferEmpty, PopNone, CountThreads, TaskFrame
  <2>2. pc[t] \in Away /\ \E p \in Away : pc' = [pc EXCEPT ![t] = p]
    BY <1>10 DEF StealBufferEmpty, PopNone, CountThreads, Go, Away
  <2>3. QED
    BY <1>b, <2>1, <2>2
<1>11. ASSUME pc' = pc, ret' = ret, TaskFrame PROVE Calm
  BY <1>11 DEF Calm, CalmPc
<1>12. ASSUME NEW t \in Workers, SleepInterrupted(t) PROVE Calm
  BY <1>11, <1>12 DEF SleepInterrupted, TaskFrame
<1>13. ASSUME UNCHANGED vars PROVE Calm
  BY <1>11, <1>13 DEF vars, TaskFrame
<1>14. ASSUME NEW t \in Workers, Release(t) PROVE Calm
  <2>1. TaskFrame /\ ret' = ret /\ pc[t] = "release"
    BY <1>14 DEF Release, TaskFrame
  <2>2. PICK p \in {"notifySlow", "notify", "call"} : pc' = [pc EXCEPT ![t] = p]
    BY <1>14 DEF Release, AfterPop, Go
  <2>3. ret[t] = "call"
    BY <2>1 DEF HandsOK, HandOK
  <2>4. pc'[t] = p /\ \A d \in Callers \ {t} : pc'[d] = pc[d]
    BY <1>0, <2>2
  <2>5. CalmPc(t)
    BY <2>1, <2>2, <2>3, <2>4 DEF CalmPc, SignalPcs
  <2>6. \A u \in Workers \ {t} : CalmPc(u)
    BY <1>0, <2>1, <2>4 DEF CalmPc
  <2>7. pc'[Main] = pc[Main]
    BY <1>0, <2>4
  <2>8. QED
    BY <2>1, <2>5, <2>6, <2>7 DEF Calm
<1>15. ASSUME wait_for_all \/ push_idle_task \/ drop \/ shutdown \/ join PROVE Calm
  <2>1. TaskFrame /\ ret' = ret
    BY <1>15 DEF wait_for_all, push_idle_task, drop, shutdown, join, TaskFrame
  <2>2. /\ pc[Main] \in {"ready", "waitAll", "shutdown", "join"}
        /\ \E p \in {"ready", "waitAll", "wakeIdle", "shutdown", "eventShutdown", "join",
                     "joinChain", "joinWait"} : pc' = [pc EXCEPT ![Main] = p]
    BY <1>15 DEF wait_for_all, push_idle_task, drop, shutdown, join, Go
  <2>3. QED
    BY <1>c, <2>1, <2>2
<1>16. ASSUME JoinChain PROVE Calm
  <2>1. TaskFrame /\ ret' = ret
    BY <1>16 DEF JoinChain, JoinFrame, TaskFrame
  <2>2. /\ pc[Main] = "joinChain"
        /\ \E p \in {"joinNext", "gone"} : pc' = [pc EXCEPT ![Main] = p]
    BY <1>16 DEF JoinChain, Go
  <2>3. QED
    BY <1>c, <2>1, <2>2
<1>17. ASSUME NEW c \in Callers, JoinStep(c) PROVE Calm
  <2>1. TaskFrame
    BY <1>17 DEF JoinStep, JoinPublish, JoinFutexWait, JoinConsume, JoinNext, JoinWake, JoinFrame,
                 TaskFrame
  <2>2. /\ ret' = ret /\ pc[c] \in {"joinWait", "joinSleep", "joinNext", "joinWake"}
        /\ \E p : /\ pc' = [pc EXCEPT ![c] = p]
                  /\ p \in IF c = Main THEN {"joinSleep", "joinChain", "joinWake", "gone"}
                          ELSE {"joinSleep", "joinNext", "joinWake", "exited"}
    BY <1>17, JoinMoves
  <2>3. CASE c = Main
    BY <1>c, <2>1, <2>2, <2>3
  <2>4. CASE c # Main
    <3>1. c \in Workers
      BY <2>4 DEF Callers
    <3>2. pc[c] \in Away /\ \E p \in Away : pc' = [pc EXCEPT ![c] = p]
      BY <2>2, <2>4 DEF Away
    <3>3. QED
      BY <1>b, <2>1, <2>2, <3>1, <3>2
  <2>5. QED
    BY <2>3, <2>4
<1>18. ASSUME NEW c \in Callers, JoinInterrupted(c) PROVE Calm
  BY <1>11, <1>18 DEF JoinInterrupted, JoinFrame, TaskFrame
<1>19. ASSUME warm \/ wake_for_idle_events \/ EventShutdown PROVE Calm
  <2>1. TaskFrame
    BY <1>19 DEF warm, wake_for_idle_events, EventShutdown, TaskFrame
  <2>2. /\ pc[Main] \in {"ready", "warm", "wakeIdle", "eventShutdown"}
        /\ \E p \in {"spawn", "ready", "wake", "join"} : pc' = [pc EXCEPT ![Main] = p]
    BY <1>19 DEF warm, wake_for_idle_events, EventShutdown, Go
  <2>3. ret' = ret \/ \E x : ret' = [ret EXCEPT ![Main] = x]
    BY <1>19 DEF warm, wake_for_idle_events, EventShutdown
  <2>4. \A t \in Workers : ret'[t] = ret[t]
    BY <1>0, <2>3
  <2>5. QED
    BY <1>c, <2>1, <2>2, <2>4
<1>20. QED
  BY <1>1, <1>2, <1>3, <1>4, <1>5, <1>6, <1>7, <1>8, <1>9, <1>10, <1>12, <1>13, <1>14,
     <1>15, <1>16, <1>19, <1>17, <1>18, NextCases

LEMMA HoldFacts ==
  /\ \A c \in Callers : /\ <<"list", c>> \in Slots /\ hold[<<"list", c>>] = list[c]
                        /\ hold'[<<"list", c>>] = list'[c]
  /\ \A x \in Queues : /\ <<"queue", x>> \in Slots /\ hold[<<"queue", x>>] = queue[x]
                       /\ hold'[<<"queue", x>>] = queue'[x]
  /\ \A t \in Workers : /\ <<"grab", t>> \in Slots /\ hold[<<"grab", t>>] = grab[t]
                        /\ hold'[<<"grab", t>>] = grab'[t]
  /\ \A t \in Workers : /\ <<"buf", t>> \in Slots /\ hold[<<"buf", t>>] = buf[t]
                        /\ hold'[<<"buf", t>>] = buf'[t]
  /\ \A t \in Workers : /\ <<"run", t>> \in Slots /\ hold[<<"run", t>>] = {running[t]} \ {None}
                        /\ hold'[<<"run", t>>] = {running'[t]} \ {None}
<1>1. hold = Holdings(list, queue, grab, buf, running)
  BY DEF hold
<1>2. hold' = Holdings(list', queue', grab', buf', running')
  BY DEF hold
<1>3. QED
  BY <1>1, <1>2, SlotFacts

LEMMA HoldSame ==
  ASSUME NEW p \in Slots,
         \A c \in Callers : p = <<"list", c>> => list'[c] = list[c],
         \A x \in Queues : p = <<"queue", x>> => queue'[x] = queue[x],
         \A t \in Workers : p = <<"grab", t>> => grab'[t] = grab[t],
         \A t \in Workers : p = <<"buf", t>> => buf'[t] = buf[t],
         \A t \in Workers : p = <<"run", t>> => running'[t] = running[t]
  PROVE  hold'[p] = hold[p]
<1>1. CASE \E c \in Callers : p = <<"list", c>>
  BY <1>1, HoldFacts
<1>2. CASE \E x \in Queues : p = <<"queue", x>>
  BY <1>2, HoldFacts
<1>3. CASE \E t \in Workers : p = <<"grab", t>>
  BY <1>3, HoldFacts
<1>4. CASE \E t \in Workers : p = <<"buf", t>>
  BY <1>4, HoldFacts
<1>5. CASE \E t \in Workers : p = <<"run", t>>
  <2>1. PICK t \in Workers : p = <<"run", t>>
    BY <1>5
  <2>2. hold[p] = {running[t]} \ {None} /\ hold'[p] = {running'[t]} \ {None}
    BY <2>1, HoldFacts
  <2>3. running'[t] = running[t]
    BY <2>1
  <2>4. QED
    BY <2>2, <2>3
<1>6. QED
  BY <1>1, <1>2, <1>3, <1>4, <1>5, SlotKinds

LEMMA HandTypes ==
  ASSUME TypeInv
  PROVE  /\ list \in [Callers -> SUBSET Tasks] /\ queue \in [Queues -> SUBSET Tasks]
         /\ grab \in [Workers -> SUBSET Tasks] /\ buf \in [Workers -> SUBSET Tasks]
         /\ running \in [Workers -> Tasks \cup {None}] /\ None \notin Tasks
         /\ runs \in [Tasks -> Nat] /\ scheduled \subseteq Tasks
         /\ ret \in [Callers -> {"ready", "warm", "join", "call", "finish"}]
BY NamesAssumption DEF TypeInv, PoolTypeOK

(* The hands of the other threads.                                         *)
LEMMA OtherHands ==
  ASSUME HandsOK, NEW t \in Workers, HandOK(t)', t # Main,
         \A c \in Callers \ {t} : pc'[c] = pc[c] /\ list'[c] = list[c],
         \A u \in Workers \ {t} : /\ ret'[u] = ret[u] /\ running'[u] = running[u]
                                  /\ grab'[u] = grab[u]
                                  /\ running[u] # None => runs'[running[u]] = runs[running[u]]
  PROVE  HandsOK'
<1>1. ASSUME NEW u \in Workers \ {t} PROVE HandOK(u)'
  <2>1. HandOK(u) /\ u \in Callers \ {t}
    BY DEF HandsOK, Callers
  <2>2. /\ pc'[u] = pc[u] /\ list'[u] = list[u] /\ ret'[u] = ret[u]
        /\ running'[u] = running[u] /\ grab'[u] = grab[u]
        /\ running[u] # None => runs'[running[u]] = runs[running[u]]
    BY <2>1
  <2>3. QED
    BY <2>1, <2>2 DEF HandOK
<1>2. pc'[Main] = pc[Main] /\ list'[Main] = list[Main]
  BY DEF Callers
<1>3. QED
  BY <1>1, <1>2 DEF HandsOK

(* Queue::push() moves the list of the caller to a queue.                  *)
LEMMA PushToStep ==
  ASSUME TaskInv, NEW c \in Callers, NEW q \in Queues, PushTo(c, q),
         pc[c] \in {"push", "overflow"}
  PROVE  HandsOK' /\ TasksOK'
<1>0. /\ TypeInv /\ HandsOK /\ TasksOK /\ \A t \in Workers : t # Main /\ t \in Callers
  BY PoolTypes DEF TaskInv
<1>1. /\ queue' = [queue EXCEPT ![q] = @ \cup list[c]] /\ list' = [list EXCEPT ![c] = {}]
      /\ pc' = [pc EXCEPT ![c] = "notify"] /\ ret' = ret /\ grab' = grab /\ buf' = buf
      /\ running' = running /\ runs' = runs /\ scheduled' = scheduled
      /\ waitGroup' = waitGroup
  BY DEF PushTo, Go, popVars, taskVars
<1>2. /\ pc'[c] = "notify" /\ \A d \in Callers \ {c} : pc'[d] = pc[d]
      /\ list'[c] = {} /\ \A d \in Callers \ {c} : list'[d] = list[d]
      /\ queue'[q] = queue[q] \cup list[c] /\ \A x \in Queues \ {q} : queue'[x] = queue[x]
  BY <1>0, <1>1, PoolTypes, HandTypes
<1>3. HandsOK'
  <2>1. CASE c \in Workers
    <3>1. HandOK(c)
      BY <1>0, <2>1 DEF HandsOK
    <3>2. pc[c] \in SchedulingPcs /\ pc[c] \in NodePcs /\ pc[c] # "publish" /\ "notify" \in NodePcs
          /\ "notify" \notin SchedulingPcs
      BY DEF SchedulingPcs, NodePcs
    <3>3. HandOK(c)'
      BY <1>1, <1>2, <3>1, <3>2 DEF HandOK
    <3>4. QED
      BY <1>0, <1>1, <1>2, <2>1, <3>3, OtherHands
  <2>2. CASE c = Main
    <3>1. \A t \in Workers : HandOK(t)'
      BY <1>0, <1>1, <1>2, <2>2 DEF HandsOK, HandOK
    <3>2. QED
      BY <1>2, <2>2, <3>1 DEF HandsOK
  <2>3. QED
    BY <2>1, <2>2 DEF Callers
<1>4. TasksOK'
  <2> DEFINE a == <<"list", c>>
             b == <<"queue", q>>
             S == list[c]
  <2>1. /\ a \in Slots /\ b \in Slots /\ a # b /\ a[1] # "run"
        /\ S \subseteq hold[a] /\ hold'[a] = hold[a] \ S
        /\ hold'[b] = hold[b] \cup S
    BY <1>2, HoldFacts
  <2>2. \A p \in Slots \ {a, b} : hold'[p] = hold[p]
    BY <1>1, <1>2, HoldSame
  <2>3. \A d \in Callers : /\ pc'[d] = "add" <=> pc[d] = "add"
                           /\ pc[d] = "add" => list'[d] = list[d]
    BY <1>2
  <2> HIDE DEF a, b, S
  <2>4. QED
    BY <1>0, <1>1, <2>1, <2>2, <2>3, TransferOK
<1>5. QED
  BY <1>3, <1>4

(* Buffer::push() moves nodes between the list and the buffer of a worker. *)
LEMMA PushBufferStep ==
  ASSUME TaskInv, NEW t \in Workers, PushBuffer(t) \/ Overflow(t)
  PROVE  HandsOK' /\ TasksOK'
<1>0. TypeInv /\ HandsOK /\ TasksOK /\ HandOK(t) /\ t # Main /\ t \in Callers
  BY PoolTypes DEF TaskInv, HandsOK
<1>1. /\ pc[t] = "pushBuffer" /\ ret' = ret /\ grab' = grab /\ queue' = queue
      /\ running' = running /\ runs' = runs /\ scheduled' = scheduled
      /\ waitGroup' = waitGroup
  BY DEF PushBuffer, Overflow, popVars, queueVars, taskVars
<1>2. PICK S : \/ /\ S \subseteq list[t] /\ list' = [list EXCEPT ![t] = @ \ S]
                  /\ buf' = [buf EXCEPT ![t] = @ \cup S]
                  /\ \/ S = list[t] /\ pc' = [pc EXCEPT ![t] = "notify"]
                     \/ pc' = pc
               \/ /\ S \subseteq buf[t] /\ list' = [list EXCEPT ![t] = @ \cup S]
                  /\ buf' = [buf EXCEPT ![t] = @ \ S]
                  /\ pc' = [pc EXCEPT ![t] = "overflow"]
  BY DEF PushBuffer, Overflow, Go
<1>3. /\ \A d \in Callers \ {t} : pc'[d] = pc[d] /\ list'[d] = list[d]
      /\ \A u \in Workers \ {t} : buf'[u] = buf[u]
  BY <1>0, <1>2, PoolTypes, HandTypes
<1>4. \/ /\ S \subseteq list[t] /\ list'[t] = list[t] \ S /\ buf'[t] = buf[t] \cup S
         /\ (S = list[t] /\ pc'[t] = "notify") \/ pc'[t] = "pushBuffer"
      \/ /\ S \subseteq buf[t] /\ list'[t] = list[t] \cup S /\ buf'[t] = buf[t] \ S
         /\ pc'[t] = "overflow"
  BY <1>0, <1>1, <1>2, PoolTypes, HandTypes
<1>5. HandsOK'
  <2>1. /\ pc[t] \in SchedulingPcs /\ pc[t] \in NodePcs /\ pc[t] # "publish"
        /\ pc'[t] \in NodePcs /\ pc'[t] \notin {"publish", "release", "call", "add", "finish"}
        /\ list'[t] # {} => pc'[t] \in SchedulingPcs
    BY <1>1, <1>4 DEF SchedulingPcs, NodePcs
  <2>2. HandOK(t)'
    BY <1>0, <1>1, <2>1 DEF HandOK
  <2>3. QED
    BY <1>0, <1>1, <1>3, <2>2, OtherHands
<1>6. TasksOK'
  <2> DEFINE a == <<"list", t>>
             b == <<"buf", t>>
  <2>1. /\ a \in Slots /\ b \in Slots /\ a # b /\ a[1] # "run" /\ b[1] # "run"
        /\ hold[a] = list[t] /\ hold[b] = buf[t] /\ hold'[a] = list'[t] /\ hold'[b] = buf'[t]
    BY <1>0, HoldFacts
  <2>2. \A p \in Slots \ {a, b} : hold'[p] = hold[p]
    BY <1>1, <1>3, HoldSame
  <2>3. \A d \in Callers : /\ pc'[d] = "add" <=> pc[d] = "add"
                           /\ pc[d] = "add" => list'[d] = list[d]
    BY <1>1, <1>3, <1>4
  <2> HIDE DEF a, b
  <2>4. CASE S \subseteq list[t] /\ list'[t] = list[t] \ S /\ buf'[t] = buf[t] \cup S
    <3>1. S \subseteq hold[a] /\ hold'[a] = hold[a] \ S /\ hold'[b] = hold[b] \cup S
      BY <2>1, <2>4
    <3>2. QED
      BY <1>0, <1>1, <2>1, <2>2, <2>3, <3>1, TransferOK
  <2>5. CASE S \subseteq buf[t] /\ list'[t] = list[t] \cup S /\ buf'[t] = buf[t] \ S
    <3>1. S \subseteq hold[b] /\ hold'[b] = hold[b] \ S /\ hold'[a] = hold[a] \cup S
      BY <2>1, <2>5
    <3>2. \A p \in Slots \ {b, a} : hold'[p] = hold[p]
      BY <2>2
    <3>3. QED
      BY <1>0, <1>1, <2>1, <2>3, <3>1, <3>2, TransferOK
  <2>6. QED
    BY <1>4, <2>4, <2>5
<1>7. QED
  BY <1>5, <1>6

(* pop() takes a node of its own buffer.                                   *)
LEMMA PopBufferStep ==
  ASSUME TaskInv, NEW t \in Workers, PopBuffer(t)
  PROVE  HandsOK' /\ TasksOK'
<1>0. TypeInv /\ HandsOK /\ TasksOK /\ HandOK(t) /\ t # Main /\ t \in Callers
  BY PoolTypes DEF TaskInv, HandsOK
<1>1. PICK k \in buf[t] : /\ buf' = [buf EXCEPT ![t] = @ \ {k}]
                          /\ running' = [running EXCEPT ![t] = k]
  BY DEF PopBuffer
<1>2. /\ pc[t] = "pop" /\ ret' = [ret EXCEPT ![t] = "call"] /\ list' = list /\ queue' = queue
      /\ grab' = grab /\ runs' = runs /\ scheduled' = scheduled /\ waitGroup' = waitGroup
      /\ \E p \in {"notifySlow", "call"} : pc' = [pc EXCEPT ![t] = p]
  BY DEF PopBuffer, Go, queueVars, taskVars
<1>3. /\ pc'[t] \in {"notifySlow", "call"} /\ ret'[t] = "call"
      /\ \A d \in Callers \ {t} : pc'[d] = pc[d] /\ ret'[d] = ret[d]
      /\ k \in Tasks /\ k # None
      /\ running'[t] = k /\ \A u \in Workers \ {t} : running'[u] = running[u]
      /\ buf'[t] = buf[t] \ {k} /\ \A u \in Workers \ {t} : buf'[u] = buf[u]
  BY <1>0, <1>1, <1>2, PoolTypes, HandTypes
<1>4. running[t] = None /\ grab[t] = {} /\ list[t] = {}
  BY <1>0, <1>2 DEF HandOK, NodePcs, SchedulingPcs
<1>5. runs[k] = 0
  <2>1. TaskOK(k)
    BY <1>0, <1>3 DEF TasksOK
  <2>2. <<"buf", t>> \in Slots /\ hold[<<"buf", t>>] = buf[t]
    BY HoldFacts
  <2>3. QED
    BY <1>1, <2>1, <2>2 DEF TaskOK
<1>6. HandsOK'
  <2>1. HandOK(t)'
    BY <1>2, <1>3, <1>4, <1>5 DEF HandOK, NodePcs, SchedulingPcs
  <2>2. \A u \in Workers : u \in Callers
    BY DEF Callers
  <2>3. QED
    BY <1>0, <1>2, <1>3, <2>1, <2>2, OtherHands
<1>7. TasksOK'
  <2> DEFINE a == <<"buf", t>>
             b == <<"run", t>>
  <2>1. /\ a \in Slots /\ b \in Slots /\ a # b /\ a[1] # "run"
        /\ hold[a] = buf[t] /\ hold'[a] = buf[t] \ {k} /\ hold[b] = {} /\ hold'[b] = {k}
    BY <1>3, <1>4, HoldFacts
  <2>2. {k} \subseteq hold[a] /\ hold'[a] = hold[a] \ {k} /\ hold'[b] = hold[b] \cup {k}
    BY <1>1, <2>1
  <2>3. \A p \in Slots \ {a, b} : hold'[p] = hold[p]
    BY <1>2, <1>3, HoldSame
  <2>4. \A d \in Callers : /\ pc'[d] = "add" <=> pc[d] = "add"
                           /\ pc[d] = "add" => list'[d] = list[d]
    BY <1>2, <1>3
  <2> HIDE DEF a, b
  <2>5. QED
    BY <1>0, <1>2, <2>1, <2>2, <2>3, <2>4, TransferOK
<1>8. QED
  BY <1>6, <1>7

(* consume() and steal() take nodes from a queue or a buffer.              *)
LEMMA GrabStep ==
  ASSUME TaskInv, NEW t \in Workers, StealBuffer(t) \/ Fill(t)
  PROVE  HandsOK' /\ TasksOK'
<1>0. TypeInv /\ HandsOK /\ TasksOK /\ HandOK(t) /\ t # Main /\ t \in Callers
  BY PoolTypes DEF TaskInv, HandsOK
<1>1. /\ pc[t] \in {"stealBuffer", "fill"} /\ pc' = [pc EXCEPT ![t] = "publish"] /\ ret' = ret
      /\ list' = list /\ running' = running /\ runs' = runs /\ scheduled' = scheduled
      /\ waitGroup' = waitGroup
  BY DEF StealBuffer, Fill, Go, taskVars
<1>2. pc'[t] = "publish" /\ \A d \in Callers \ {t} : pc'[d] = pc[d]
  BY <1>0, <1>1, PoolTypes
<1>3. running[t] = None /\ grab[t] = {} /\ list[t] = {}
  BY <1>0, <1>1 DEF HandOK, NodePcs, SchedulingPcs
<1>4. PICK S \in SUBSET Tasks, a \in Slots :
        /\ a[1] # "run" /\ a # <<"grab", t>> /\ S \subseteq hold[a]
        /\ hold'[a] = hold[a] \ S /\ grab' = [grab EXCEPT ![t] = S]
        /\ \A p \in Slots \ {a, <<"grab", t>>} : hold'[p] = hold[p]
  <2>1. CASE StealBuffer(t)
    <3>1. PICK S \in SUBSET buf[victim[t]] :
            buf' = [buf EXCEPT ![victim[t]] = @ \ S] /\ grab' = [grab EXCEPT ![t] = S]
      BY <2>1 DEF StealBuffer, Stolen
    <3>2. victim[t] \in Workers /\ queue' = queue
      BY <1>0, <2>1 DEF StealBuffer, queueVars, TypeInv, LocalsOK
    <3> DEFINE a == <<"buf", victim[t]>>
    <3>3. /\ \A u \in Workers \ {t} : grab'[u] = grab[u]
          /\ buf'[victim[t]] = buf[victim[t]] \ S
          /\ \A u \in Workers \ {victim[t]} : buf'[u] = buf[u]
          /\ S \in SUBSET Tasks
      BY <1>0, <3>1, <3>2, HandTypes
    <3>4. a \in Slots /\ hold[a] = buf[victim[t]] /\ hold'[a] = hold[a] \ S
          /\ a[1] # "run" /\ a # <<"grab", t>>
      BY <3>2, <3>3, HoldFacts
    <3>5. \A p \in Slots \ {a, <<"grab", t>>} : hold'[p] = hold[p]
      BY <1>1, <3>2, <3>3, HoldSame
    <3> HIDE DEF a
    <3>6. QED
      BY <3>1, <3>3, <3>4, <3>5
  <2>2. CASE Fill(t)
    <3>1. PICK S \in SUBSET queue[from[t]] :
            queue' = [queue EXCEPT ![from[t]] = @ \ S] /\ grab' = [grab EXCEPT ![t] = S]
      BY <2>2 DEF Fill
    <3>2. from[t] \in Queues /\ buf' = buf
      BY <1>0, <2>2 DEF Fill, TypeInv, LocalsOK
    <3> DEFINE a == <<"queue", from[t]>>
    <3>3. /\ \A u \in Workers \ {t} : grab'[u] = grab[u]
          /\ queue'[from[t]] = queue[from[t]] \ S
          /\ \A x \in Queues \ {from[t]} : queue'[x] = queue[x]
          /\ S \in SUBSET Tasks
      BY <1>0, <3>1, <3>2, HandTypes
    <3>4. a \in Slots /\ hold[a] = queue[from[t]] /\ hold'[a] = hold[a] \ S
          /\ a[1] # "run" /\ a # <<"grab", t>>
      BY <3>2, <3>3, HoldFacts
    <3>5. \A p \in Slots \ {a, <<"grab", t>>} : hold'[p] = hold[p]
      BY <1>1, <3>2, <3>3, HoldSame
    <3> HIDE DEF a
    <3>6. QED
      BY <3>1, <3>3, <3>4, <3>5
  <2>3. QED
    BY <2>1, <2>2
<1>5. grab'[t] = S /\ \A u \in Workers \ {t} : grab'[u] = grab[u]
  BY <1>0, <1>4, HandTypes
<1>6. HandsOK'
  <2>1. HandOK(t)'
    BY <1>1, <1>2, <1>3 DEF HandOK, NodePcs, SchedulingPcs
  <2>2. QED
    BY <1>0, <1>1, <1>2, <1>5, <2>1, OtherHands
<1>7. TasksOK'
  <2> DEFINE b == <<"grab", t>>
  <2>1. b \in Slots /\ a # b /\ hold'[b] = hold[b] \cup S
    BY <1>3, <1>4, <1>5, HoldFacts
  <2>2. \A d \in Callers : /\ pc'[d] = "add" <=> pc[d] = "add"
                           /\ pc[d] = "add" => list'[d] = list[d]
    BY <1>1, <1>2
  <2>3. \A p \in Slots \ {a, b} : hold'[p] = hold[p]
    BY <1>4
  <2> HIDE DEF b
  <2>4. QED
    BY <1>0, <1>1, <1>4, <2>1, <2>2, <2>3, TransferOK
<1>8. QED
  BY <1>6, <1>7

(* consume() and steal() return one node and publish the others.           *)
LEMMA PublishStep ==
  ASSUME TaskInv, NEW t \in Workers, Publish(t)
  PROVE  HandsOK' /\ TasksOK'
<1>0. TypeInv /\ HandsOK /\ TasksOK /\ HandOK(t) /\ t # Main /\ t \in Callers
  BY PoolTypes DEF TaskInv, HandsOK
<1>1. PICK k \in grab[t] :
        /\ running' = [running EXCEPT ![t] = k]
        /\ buf' = [buf EXCEPT ![t] = @ \cup (grab[t] \ {k})]
        /\ \E p \in {"release", "notifySlow", "notify", "call"} : pc' = [pc EXCEPT ![t] = p]
  BY DEF Publish, AfterPop, Go
<1>2. /\ pc[t] = "publish" /\ ret' = [ret EXCEPT ![t] = "call"] /\ list' = list
      /\ queue' = queue /\ grab' = [grab EXCEPT ![t] = {}] /\ runs' = runs
      /\ scheduled' = scheduled /\ waitGroup' = waitGroup
  BY DEF Publish, queueVars, taskVars
<1>3. /\ pc'[t] \in {"release", "notifySlow", "notify", "call"} /\ ret'[t] = "call"
      /\ \A d \in Callers \ {t} : pc'[d] = pc[d] /\ ret'[d] = ret[d]
      /\ k \in Tasks /\ k # None
      /\ running'[t] = k /\ \A u \in Workers \ {t} : running'[u] = running[u]
      /\ grab'[t] = {} /\ \A u \in Workers \ {t} : grab'[u] = grab[u]
      /\ buf'[t] = buf[t] \cup (grab[t] \ {k})
      /\ \A u \in Workers \ {t} : buf'[u] = buf[u]
  BY <1>0, <1>1, <1>2, PoolTypes, HandTypes
<1>4. running[t] = None /\ list[t] = {}
  BY <1>0, <1>2 DEF HandOK, NodePcs, SchedulingPcs
<1>5. runs[k] = 0
  <2>1. TaskOK(k)
    BY <1>0, <1>3 DEF TasksOK
  <2>2. <<"grab", t>> \in Slots /\ hold[<<"grab", t>>] = grab[t]
    BY HoldFacts
  <2>3. QED
    BY <1>1, <2>1, <2>2 DEF TaskOK
<1>6. HandsOK'
  <2>1. HandOK(t)'
    BY <1>2, <1>3, <1>4, <1>5 DEF HandOK, NodePcs, SchedulingPcs
  <2>2. \A u \in Workers : u \in Callers
    BY DEF Callers
  <2>3. QED
    BY <1>0, <1>2, <1>3, <2>1, <2>2, OtherHands
<1>7. TasksOK'
  <2> DEFINE a == <<"grab", t>>
             b == <<"buf", t>>
             c == <<"run", t>>
             S == grab[t] \ {k}
             mid == [p \in Slots |-> IF p = a THEN {k} ELSE IF p = b THEN hold[b] \cup S
                                     ELSE hold[p]]
  <2>1. /\ a \in Slots /\ b \in Slots /\ c \in Slots /\ a # b /\ a # c /\ b # c /\ a[1] # "run"
        /\ hold[a] = grab[t] /\ hold'[a] = {} /\ hold'[b] = hold[b] \cup S
        /\ hold[c] = {} /\ hold'[c] = {k}
    BY <1>3, <1>4, HoldFacts
  <2>2. \A p \in Slots \ {a, b, c} : hold'[p] = hold[p]
    BY <1>2, <1>3, HoldSame
  <2>3. \A d \in Callers : /\ pc'[d] = "add" <=> pc[d] = "add"
                           /\ pc[d] = "add" => list'[d] = list[d]
    BY <1>2, <1>3
  <2>4. S \subseteq hold[a] /\ {k} = hold[a] \ S
    BY <1>1, <2>1
  <2>5. Disjoint(hold)
    BY <1>0 DEF TasksOK
  <2> HIDE DEF a, b, c, S
  <2>6. /\ mid[a] = hold[a] \ S /\ mid[b] = hold[b] \cup S /\ mid[c] = {} /\ mid[a] = {k}
        /\ \A p \in Slots \ {a, b} : mid[p] = hold[p]
    BY <2>1, <2>4
  <2>7. /\ hold'[a] = mid[a] \ {k} /\ hold'[c] = mid[c] \cup {k} /\ {k} \subseteq mid[a]
        /\ \A p \in Slots \ {a, c} : hold'[p] = mid[p]
    BY <2>1, <2>2, <2>6
  <2> HIDE DEF mid
  <2>8. /\ Disjoint(mid) /\ \A j : HeldIn(mid, j) <=> HeldIn(hold, j)
        /\ \A j : \A p \in Slots : j \in mid[p] /\ p[1] # "run" =>
             \E q \in Slots : j \in hold[q] /\ q[1] # "run"
    BY <2>1, <2>4, <2>5, <2>6, Transfer
  <2>9. /\ Disjoint(hold') /\ \A j : HeldIn(hold', j) <=> HeldIn(mid, j)
        /\ \A j : \A p \in Slots : j \in hold'[p] /\ p[1] # "run" =>
             \E q \in Slots : j \in mid[q] /\ q[1] # "run"
    <3> DEFINE one == {k}
    <3>1. /\ hold'[a] = mid[a] \ one /\ hold'[c] = mid[c] \cup one /\ one \subseteq mid[a]
          /\ \A p \in Slots \ {a, c} : hold'[p] = mid[p]
      BY <2>7
    <3>2. Disjoint(mid)
      BY <2>8
    <3>3. a \in Slots /\ c \in Slots /\ a # c /\ a[1] # "run"
      BY <2>1
    <3> HIDE DEF one
    <3>4. QED
      BY <3>1, <3>2, <3>3, Transfer
  <2>10. /\ \A j \in Tasks : HeldIn(hold', j) <=> HeldIn(hold, j)
         /\ \A j \in Tasks : \A p \in Slots : j \in hold'[p] /\ p[1] # "run" =>
              \E q \in Slots : j \in hold[q] /\ q[1] # "run"
    BY <2>8, <2>9
  <2>11. QED
    BY <1>0, <1>2, <2>3, <2>9, <2>10, MoveOK
<1>8. QED
  BY <1>6, <1>7

(* Tasks that were nowhere are put into one place.                         *)
LEMMA Grow ==
  ASSUME NEW f, NEW g, NEW a \in Slots, NEW S, g[a] = f[a] \cup S,
         \A p \in Slots \ {a} : g[p] = f[p], \A j \in S : ~HeldIn(f, j), Disjoint(f)
  PROVE  Disjoint(g) /\ \A k : HeldIn(g, k) <=> HeldIn(f, k) \/ k \in S
<1>1. \A j \in S : \A p \in Slots : j \notin f[p]
  BY DEF HeldIn
<1>2. Disjoint(g)
  BY <1>1 DEF Disjoint
<1>3. ASSUME NEW k PROVE HeldIn(g, k) <=> HeldIn(f, k) \/ k \in S
  <2>1. \A p \in Slots : k \in g[p] => k \in f[p] \/ k \in S
    OBVIOUS
  <2>2. \A p \in Slots : k \in f[p] => k \in g[p]
    OBVIOUS
  <2>3. k \in S => k \in g[a]
    OBVIOUS
  <2>4. QED
    BY <2>1, <2>2, <2>3 DEF HeldIn
<1>4. QED
  BY <1>2, <1>3

(* The callback of a node runs, and puts a batch together.                 *)
LEMMA CallStep ==
  ASSUME TaskInv, NEW t \in Workers, Call(t)
  PROVE  HandsOK' /\ TasksOK'
<1>0. TypeInv /\ HandsOK /\ TasksOK /\ HandOK(t) /\ t # Main /\ t \in Callers
  BY PoolTypes DEF TaskInv, HandsOK
<1>a. PICK k : k = running[t]
  OBVIOUS
<1>1. /\ pc[t] = "call" /\ runs' = [runs EXCEPT ![k] = @ + 1]
      /\ list' = [list EXCEPT ![t] = Kids[k]] /\ ret' = [ret EXCEPT ![t] = "finish"]
      /\ pc' = [pc EXCEPT ![t] = IF Kids[k] = {} THEN "finish" ELSE "add"]
      /\ queue' = queue /\ grab' = grab /\ buf' = buf /\ running' = running
      /\ scheduled' = scheduled /\ waitGroup' = waitGroup
  BY <1>a DEF Call, Go, popVars, queueVars
<1>2. k \in Tasks /\ k # None /\ runs[k] = 0 /\ list[t] = {} /\ grab[t] = {}
  <2>1. pc[t] \in NodePcs /\ pc[t] \notin SchedulingPcs /\ pc[t] # "publish" /\ ret[t] = "call"
    BY <1>0, <1>1 DEF HandOK, NodePcs, SchedulingPcs
  <2>2. k \in Tasks /\ k # None
    BY <1>0, <1>a, <2>1, HandTypes DEF TypeInv, LocalsOK
  <2>3. QED
    BY <1>0, <1>a, <2>1, <2>2 DEF HandOK
<1>3. /\ pc'[t] = (IF Kids[k] = {} THEN "finish" ELSE "add") /\ ret'[t] = "finish"
      /\ \A d \in Callers \ {t} : pc'[d] = pc[d] /\ ret'[d] = ret[d] /\ list'[d] = list[d]
      /\ list'[t] = Kids[k] /\ runs'[k] = 1 /\ \A j \in Tasks \ {k} : runs'[j] = runs[j]
  BY <1>0, <1>1, <1>2, PoolTypes, HandTypes
<1>4. TaskOK(k) /\ Kids[k] \subseteq Tasks /\ \A j \in Kids[k] : j \notin scheduled /\ ~Held(j)
  BY <1>0, <1>2, TasksAssumption DEF TasksOK, TaskOK
<1>5. <<"run", t>> \in Slots /\ k \in hold[<<"run", t>>]
  BY <1>2, <1>a, HoldFacts
<1>6. Disjoint(hold) /\ Held(k) /\ \A p \in Slots : k \in hold[p] => p = <<"run", t>>
  BY <1>0, <1>5 DEF TasksOK, Disjoint, Held, HeldIn
<1>7. \A u \in Workers : running[u] = k => u = t
  <2>1. \A u \in Workers : running[u] = k =>
          <<"run", u>> \in Slots /\ k \in hold[<<"run", u>>]
    BY <1>2, HoldFacts
  <2>2. QED
    BY <1>6, <2>1
<1>8. HandsOK'
  <2>1. HandOK(t)'
    BY <1>1, <1>2, <1>3, <1>a DEF HandOK, NodePcs, SchedulingPcs
  <2>2. \A u \in Workers : u \in Callers
    BY DEF Callers
  <2>3. \A u \in Workers \ {t} : running[u] # None => runs'[running[u]] = runs[running[u]]
    BY <1>0, <1>3, <1>7, HandTypes
  <2>4. QED
    BY <1>0, <1>1, <1>3, <2>1, <2>2, <2>3, OtherHands
<1>9. /\ Disjoint(hold') /\ \A j : HeldIn(hold', j) <=> HeldIn(hold, j) \/ j \in Kids[k]
      /\ \A p \in Slots \ {<<"list", t>>} : hold'[p] = hold[p]
      /\ hold'[<<"list", t>>] = Kids[k] /\ <<"list", t>> \in Slots
  <2> DEFINE a == <<"list", t>>
             S == Kids[k]
  <2>1. a \in Slots /\ hold'[a] = hold[a] \cup S /\ hold'[a] = Kids[k]
    BY <1>0, <1>2, <1>3, HoldFacts
  <2>2. \A p \in Slots \ {a} : hold'[p] = hold[p]
    BY <1>1, <1>3, HoldSame
  <2>3. \A j \in S : ~HeldIn(hold, j)
    BY <1>4 DEF Held
  <2> HIDE DEF a, S
  <2>4. Disjoint(hold') /\ \A j : HeldIn(hold', j) <=> HeldIn(hold, j) \/ j \in S
    BY <1>6, <2>1, <2>2, <2>3, Grow
  <2>5. QED
    BY <2>1, <2>2, <2>4 DEF a, S
<1>10. \A j : Held(j)' <=> Held(j) \/ j \in Kids[k]
  BY <1>9 DEF Held
<1>11. k \notin Kids[k]
  BY <1>4, <1>6
<1>12. k \in scheduled /\ \A c \in Callers : k \notin list[c]
  <2>1. \A c \in Callers : k \notin list[c]
    BY <1>6, HoldFacts
  <2>2. QED
    BY <1>4, <1>6, <2>1 DEF TaskOK
<1>13. TaskOK(k)'
  <2>1. \A p \in Slots : k \in hold'[p] => p[1] = "run"
    BY <1>6, <1>9, <1>11
  <2>2. \A c \in Callers : k \notin list'[c]
    BY <1>3, <1>11, <1>12
  <2>3. QED
    BY <1>1, <1>3, <1>12, <2>1, <2>2 DEF TaskOK
<1>14. ASSUME NEW j \in Tasks, j # k PROVE TaskOK(j)'
  <2>1. TaskOK(j) /\ runs'[j] = runs[j] /\ runs[j] \in Nat /\ Kids[j] \subseteq Tasks
    BY <1>0, <1>3, <1>14, TasksAssumption, HandTypes DEF TasksOK
  <2>2. j \in Kids[k] => runs[j] = 0
    BY <1>4, <2>1 DEF TaskOK
  <2>3. \A p \in Slots : j \in hold'[p] /\ p[1] # "run" => runs'[j] = 0
    BY <1>9, <2>1, <2>2 DEF TaskOK
  <2>4. /\ runs'[j] <= 1 /\ (runs'[j] = 1 => j \in scheduled')
        /\ (j \in scheduled' /\ ~(Held(j)') => runs'[j] = 1)
    BY <1>1, <1>10, <2>1 DEF TaskOK
  <2>5. Held(j)' => j \in scheduled' \/ \E c \in Callers : pc'[c] = "add" /\ j \in list'[c]
    <3>1. CASE j \in Kids[k]
      BY <1>0, <1>3, <3>1
    <3>2. CASE Held(j) /\ j \in scheduled
      BY <1>1, <3>2
    <3>3. CASE \E c \in Callers : pc[c] = "add" /\ j \in list[c]
      BY <1>1, <1>3, <3>3
    <3>4. QED
      BY <1>10, <2>1, <3>1, <3>2, <3>3 DEF TaskOK
  <2>6. \A c \in Callers : pc'[c] = "add" /\ j \in list'[c] => j \notin scheduled'
    BY <1>1, <1>3, <1>4, <2>1 DEF TaskOK
  <2>7. \A i \in Kids[j] : runs'[j] = 0 => i \notin scheduled' /\ ~(Held(i)')
    <3>1. \A i \in Kids[j] : i \notin Kids[k]
      BY <1>2, <1>14, OwnersAssumption
    <3>2. QED
      BY <1>1, <1>10, <2>1, <3>1 DEF TaskOK
  <2>8. QED
    BY <2>3, <2>4, <2>5, <2>6, <2>7 DEF TaskOK
<1>15. Unfinished' = Unfinished
  BY <1>1, <1>4, <1>10 DEF Unfinished
<1>16. waitGroup' = Cardinality(Unfinished')
  BY <1>0, <1>1, <1>15 DEF TasksOK
<1>17. TasksOK'
  <2>1. Disjoint(hold)'
    BY <1>9 DEF Disjoint
  <2>2. QED
    BY <1>13, <1>14, <1>16, <2>1 DEF TasksOK
<1>18. QED
  BY <1>8, <1>17

LEMMA UnfinishedFinite ==
  ASSUME TypeInv PROVE IsFiniteSet(Unfinished) /\ Cardinality(Unfinished) \in Nat
<1>1. Unfinished \in SUBSET Tasks
  BY HandTypes DEF Unfinished
<1>2. QED
  BY <1>1, TasksAssumption, FS_Subset, FS_CardinalityType

(* wait_group.finish(): the node leaves the last place it was in.          *)
LEMMA FinishStep ==
  ASSUME TaskInv, NEW t \in Workers, Finish(t)
  PROVE  HandsOK' /\ TasksOK'
<1>0. TypeInv /\ HandsOK /\ TasksOK /\ HandOK(t) /\ t # Main /\ t \in Callers
  BY PoolTypes DEF TaskInv, HandsOK
<1>a. PICK k : k = running[t]
  OBVIOUS
<1>1. /\ pc[t] = "finish" /\ running' = [running EXCEPT ![t] = None]
      /\ pc' = [pc EXCEPT ![t] = "pop"] /\ ret' = ret /\ list' = list
      /\ queue' = queue /\ grab' = grab /\ buf' = buf /\ runs' = runs
      /\ scheduled' = scheduled /\ waitGroup' = waitGroup - 1
  BY DEF Finish, Go, queueVars
<1>2. k \in Tasks /\ k # None /\ runs[k] = 1 /\ list[t] = {} /\ grab[t] = {}
  <2>1. pc[t] \in NodePcs /\ pc[t] \notin SchedulingPcs /\ pc[t] # "publish" /\ ret[t] = "finish"
    BY <1>0, <1>1 DEF HandOK, NodePcs, SchedulingPcs
  <2>2. k \in Tasks /\ k # None
    BY <1>0, <1>a, <2>1, HandTypes DEF TypeInv, LocalsOK
  <2>3. QED
    BY <1>0, <1>a, <2>1, <2>2 DEF HandOK
<1>3. /\ pc'[t] = "pop" /\ \A d \in Callers \ {t} : pc'[d] = pc[d]
      /\ running'[t] = None /\ \A u \in Workers \ {t} : running'[u] = running[u]
  BY <1>0, <1>1, PoolTypes, HandTypes
<1>4. HandsOK'
  <2>1. HandOK(t)'
    BY <1>1, <1>2, <1>3 DEF HandOK, NodePcs, SchedulingPcs
  <2>2. QED
    BY <1>0, <1>1, <1>3, <2>1, OtherHands
<1>5. /\ <<"run", t>> \in Slots /\ hold[<<"run", t>>] = {k} /\ hold'[<<"run", t>>] = {}
  BY <1>2, <1>3, <1>a, HoldFacts
<1>6. \A p \in Slots \ {<<"run", t>>} : hold'[p] = hold[p]
  BY <1>1, <1>3, HoldSame
<1>7. /\ Disjoint(hold) /\ \A p \in Slots : k \in hold[p] => p = <<"run", t>>
      /\ Held(k)
  BY <1>0, <1>5 DEF TasksOK, Disjoint, Held, HeldIn
<1>8. \A j : Held(j)' <=> Held(j) /\ j # k
  <2>1. ASSUME NEW j PROVE HeldIn(hold', j) <=> HeldIn(hold, j) /\ j # k
    <3>1. \A p \in Slots : j \in hold'[p] <=> j \in hold[p] /\ p # <<"run", t>>
      BY <1>5, <1>6
    <3>2. \A p \in Slots : p # <<"run", t>> /\ j \in hold[p] => j # k
      BY <1>7
    <3>3. j \in hold[<<"run", t>>] => j = k
      BY <1>5
    <3>4. QED
      BY <3>1, <3>2, <3>3 DEF HeldIn
  <2>2. QED
    BY <2>1 DEF Held
<1>9. ASSUME NEW j \in Tasks PROVE TaskOK(j)'
  <2>1. TaskOK(j) /\ runs' = runs /\ scheduled' = scheduled /\ list' = list
    BY <1>0, <1>1 DEF TasksOK
  <2>2. \A c \in Callers : pc'[c] = "add" <=> pc[c] = "add"
    BY <1>1, <1>3
  <2>3. \A p \in Slots : j \in hold'[p] => j \in hold[p]
    BY <1>5, <1>6
  <2>4. j = k => runs[j] = 1
    BY <1>2
  <2>5. \A p \in Slots : j \in hold'[p] /\ p[1] # "run" => runs'[j] = 0
    BY <2>1, <2>3 DEF TaskOK
  <2>6. /\ runs'[j] <= 1 /\ (runs'[j] = 1 => j \in scheduled')
        /\ (j \in scheduled' /\ ~(Held(j)') => runs'[j] = 1)
    BY <1>8, <2>1, <2>4 DEF TaskOK
  <2>7. /\ Held(j)' => j \in scheduled' \/ \E c \in Callers : pc'[c] = "add" /\ j \in list'[c]
        /\ \A c \in Callers : pc'[c] = "add" /\ j \in list'[c] => j \notin scheduled'
    BY <1>8, <2>1, <2>2 DEF TaskOK
  <2>8. \A i \in Kids[j] : runs'[j] = 0 => i \notin scheduled' /\ ~(Held(i)')
    BY <1>8, <2>1 DEF TaskOK
  <2>9. QED
    BY <2>5, <2>6, <2>7, <2>8 DEF TaskOK
<1>10. Unfinished' = Unfinished \ {k} /\ k \in Unfinished
  <2>1. k \in scheduled
    BY <1>0, <1>2 DEF TasksOK, TaskOK
  <2>2. QED
    BY <1>1, <1>7, <1>8, <2>1 DEF Unfinished
<1>11. waitGroup' = Cardinality(Unfinished')
  <2>1. Cardinality(Unfinished') = Cardinality(Unfinished) - 1
    BY <1>0, <1>10, UnfinishedFinite, FS_RemoveElement
  <2>2. QED
    BY <1>0, <1>1, <2>1 DEF TasksOK
<1>12. Disjoint(hold)'
  <2>1. \A p \in Slots : hold'[p] \subseteq hold[p]
    BY <1>5, <1>6
  <2>2. QED
    BY <1>7, <2>1 DEF Disjoint
<1>13. TasksOK'
  BY <1>9, <1>11, <1>12 DEF TasksOK
<1>14. QED
  BY <1>4, <1>13

(* Main puts a batch together from tasks that are nowhere.                 *)
LEMMA ScheduleStep ==
  ASSUME TaskInv, schedule
  PROVE  HandsOK' /\ TasksOK'
<1>0. /\ TypeInv /\ HandsOK /\ TasksOK /\ Main \in Callers
      /\ \A t \in Workers : t # Main /\ t \in Callers
  BY PoolTypes DEF TaskInv
<1>1. PICK S \in Batches : S \cap scheduled = {} /\ list' = [list EXCEPT ![Main] = S]
  BY DEF schedule
<1>2. /\ pc[Main] = "ready" /\ pc' = [pc EXCEPT ![Main] = "add"]
      /\ ret' = [ret EXCEPT ![Main] = "ready"] /\ queue' = queue /\ grab' = grab
      /\ buf' = buf /\ running' = running /\ runs' = runs /\ scheduled' = scheduled
      /\ waitGroup' = waitGroup
  BY DEF schedule, Go, popVars, queueVars, taskVars
<1>3. /\ pc'[Main] = "add" /\ list'[Main] = S /\ list[Main] = {} /\ S \subseteq Tasks
      /\ \A d \in Callers \ {Main} : pc'[d] = pc[d] /\ ret'[d] = ret[d] /\ list'[d] = list[d]
  BY <1>0, <1>1, <1>2, PoolTypes, HandTypes, TasksAssumption DEF HandsOK
<1>4. HandsOK'
  <2>1. ASSUME NEW t \in Workers PROVE HandOK(t)'
    <3>1. HandOK(t) /\ pc'[t] = pc[t] /\ ret'[t] = ret[t] /\ list'[t] = list[t]
      BY <1>0, <1>3 DEF HandsOK
    <3>2. QED
      BY <1>2, <3>1 DEF HandOK
  <2>2. QED
    BY <1>3, <2>1 DEF HandsOK
<1>5. ASSUME NEW j \in S PROVE ~Held(j)
  <2> SUFFICES ASSUME Held(j) PROVE FALSE
    OBVIOUS
  <2>1. TaskOK(j) /\ j \notin scheduled
    BY <1>0, <1>1, <1>3 DEF TasksOK
  <2>2. PICK c \in Callers : pc[c] = "add" /\ j \in list[c]
    BY <2>1 DEF TaskOK
  <2>3. c \in Workers
    BY <1>2, <2>2 DEF Callers
  <2>4. running[c] \in Tasks /\ j \in Kids[running[c]]
    BY <1>0, <2>2, <2>3 DEF HandsOK, HandOK, TypeInv, LocalsOK, NodePcs
  <2>5. QED
    BY <1>1, <2>4, OwnersAssumption
<1>6. /\ Disjoint(hold') /\ \A j : HeldIn(hold', j) <=> HeldIn(hold, j) \/ j \in S
      /\ \A p \in Slots \ {<<"list", Main>>} : hold'[p] = hold[p]
      /\ hold'[<<"list", Main>>] = S /\ <<"list", Main>> \in Slots
  <2> DEFINE a == <<"list", Main>>
  <2>1. a \in Slots /\ hold'[a] = hold[a] \cup S /\ hold'[a] = S
    BY <1>0, <1>3, HoldFacts
  <2>2. \A p \in Slots \ {a} : hold'[p] = hold[p]
    BY <1>2, <1>3, HoldSame
  <2>3. (\A j \in S : ~HeldIn(hold, j)) /\ Disjoint(hold)
    BY <1>0, <1>5 DEF Held, TasksOK
  <2> HIDE DEF a
  <2>4. Disjoint(hold') /\ \A j : HeldIn(hold', j) <=> HeldIn(hold, j) \/ j \in S
    BY <2>1, <2>2, <2>3, Grow
  <2>5. QED
    BY <2>1, <2>2, <2>4 DEF a
<1>7. \A j : Held(j)' <=> Held(j) \/ j \in S
  BY <1>6 DEF Held
<1>8. ASSUME NEW j \in Tasks PROVE TaskOK(j)'
  <2>1. /\ TaskOK(j) /\ runs' = runs /\ scheduled' = scheduled /\ runs[j] \in Nat
        /\ Kids[j] \subseteq Tasks
    BY <1>0, <1>2, HandTypes, TasksAssumption DEF TasksOK
  <2>2. j \in S => runs[j] = 0 /\ j \notin scheduled
    BY <1>1, <2>1 DEF TaskOK
  <2>3. \A p \in Slots : j \in hold'[p] /\ p[1] # "run" => runs'[j] = 0
    BY <1>6, <2>1, <2>2 DEF TaskOK
  <2>4. /\ runs'[j] <= 1 /\ (runs'[j] = 1 => j \in scheduled')
        /\ (j \in scheduled' /\ ~(Held(j)') => runs'[j] = 1)
    BY <1>7, <2>1 DEF TaskOK
  <2>5. Held(j)' => j \in scheduled' \/ \E c \in Callers : pc'[c] = "add" /\ j \in list'[c]
    <3>1. CASE j \in S
      BY <1>0, <1>3, <3>1
    <3>2. CASE Held(j) /\ j \in scheduled
      BY <1>2, <3>2
    <3>3. CASE \E c \in Callers : pc[c] = "add" /\ j \in list[c]
      BY <1>2, <1>3, <3>3
    <3>4. QED
      BY <1>7, <2>1, <3>1, <3>2, <3>3 DEF TaskOK
  <2>6. \A c \in Callers : pc'[c] = "add" /\ j \in list'[c] => j \notin scheduled'
    BY <1>3, <2>1, <2>2 DEF TaskOK
  <2>7. \A i \in Kids[j] : runs'[j] = 0 => i \notin scheduled' /\ ~(Held(i)')
    <3>1. \A i \in Kids[j] : i \notin S
      BY OwnersAssumption
    <3>2. QED
      BY <1>7, <2>1, <3>1 DEF TaskOK
  <2>8. QED
    BY <2>3, <2>4, <2>5, <2>6, <2>7 DEF TaskOK
<1>9. Unfinished' = Unfinished
  BY <1>1, <1>2, <1>7 DEF Unfinished
<1>10. TasksOK'
  <2>1. Disjoint(hold)'
    BY <1>6 DEF Disjoint
  <2>2. waitGroup' = Cardinality(Unfinished')
    BY <1>0, <1>2, <1>9 DEF TasksOK
  <2>3. QED
    BY <1>8, <2>1, <2>2 DEF TasksOK
<1>11. QED
  BY <1>4, <1>10

(* wait_group.add(): the batch of the caller counts from now on.           *)
LEMMA AddStep ==
  ASSUME TaskInv, NEW c \in Callers, Add(c)
  PROVE  HandsOK' /\ TasksOK'
<1>0. /\ TypeInv /\ HandsOK /\ TasksOK /\ \A t \in Workers : t # Main /\ t \in Callers
  BY PoolTypes DEF TaskInv
<1>1. /\ pc[c] = "add" /\ waitGroup' = waitGroup + Cardinality(list[c])
      /\ scheduled' = scheduled \cup list[c] /\ list' = list /\ queue' = queue
      /\ grab' = grab /\ buf' = buf /\ running' = running /\ runs' = runs /\ ret' = ret
      /\ \E p \in {"push", "pushBuffer"} : pc' = [pc EXCEPT ![c] = p] /\ (p = "push" \/ c # Main)
  BY DEF Add, Go, popVars, queueVars
<1>2. /\ pc'[c] \in {"push", "pushBuffer"} /\ (c = Main => pc'[c] = "push")
      /\ \A d \in Callers \ {c} : pc'[d] = pc[d]
  BY <1>0, <1>1, PoolTypes
<1>3. HandsOK'
  <2>1. CASE c \in Workers
    <3>1. HandOK(c)
      BY <1>0, <2>1 DEF HandsOK
    <3>2. HandOK(c)'
      BY <1>1, <1>2, <3>1 DEF HandOK, SchedulingPcs, NodePcs
    <3>3. QED
      BY <1>0, <1>1, <1>2, <2>1, <3>2, OtherHands
  <2>2. CASE c = Main
    <3>1. \A t \in Workers : HandOK(t)'
      BY <1>0, <1>1, <1>2, <2>2 DEF HandsOK, HandOK
    <3>2. QED
      BY <1>2, <2>2, <3>1 DEF HandsOK
  <2>3. QED
    BY <2>1, <2>2 DEF Callers
<1>4. hold' = hold /\ \A j : Held(j)' <=> Held(j)
  BY <1>1 DEF hold, Held
<1>5. <<"list", c>> \in Slots /\ hold[<<"list", c>>] = list[c] /\ \A j \in list[c] : Held(j)
  BY HoldFacts DEF Held, HeldIn
<1>6. list[c] \subseteq Tasks /\ list[c] \cap scheduled = {}
  <2>1. list[c] \subseteq Tasks
    BY <1>0, HandTypes
  <2>2. QED
    BY <1>0, <1>1, <2>1 DEF TasksOK, TaskOK
<1>7. \A d \in Callers \ {c} : list[d] \cap list[c] = {}
  <2>1. \A d \in Callers \ {c} : <<"list", d>> \in Slots /\ hold[<<"list", d>>] = list[d]
                                 /\ <<"list", d>> # <<"list", c>>
    BY HoldFacts
  <2>2. QED
    BY <1>0, <1>5, <2>1 DEF TasksOK, Disjoint
<1>8. ASSUME NEW j \in Tasks PROVE TaskOK(j)'
  <2>1. TaskOK(j) /\ runs' = runs /\ list' = list
    BY <1>0, <1>1 DEF TasksOK
  <2>2. \A p \in Slots : j \in hold'[p] /\ p[1] # "run" => runs'[j] = 0
    BY <1>4, <2>1 DEF TaskOK
  <2>3. /\ runs'[j] <= 1 /\ (runs'[j] = 1 => j \in scheduled')
        /\ (j \in scheduled' /\ ~(Held(j)') => runs'[j] = 1)
    BY <1>1, <1>4, <1>5, <2>1 DEF TaskOK
  <2>4. Held(j)' => j \in scheduled' \/ \E d \in Callers : pc'[d] = "add" /\ j \in list'[d]
    <3>1. CASE Held(j) /\ j \in scheduled
      BY <1>1, <3>1
    <3>2. CASE \E d \in Callers : pc[d] = "add" /\ j \in list[d]
      <4>1. PICK d \in Callers : pc[d] = "add" /\ j \in list[d]
        BY <3>2
      <4>2. CASE d = c
        BY <1>1, <4>1, <4>2
      <4>3. CASE d # c
        BY <1>2, <2>1, <4>1, <4>3
      <4>4. QED
        BY <4>2, <4>3
    <3>3. QED
      BY <1>4, <2>1, <3>1, <3>2 DEF TaskOK
  <2>5. \A d \in Callers : pc'[d] = "add" /\ j \in list'[d] => j \notin scheduled'
    <3> SUFFICES ASSUME NEW d \in Callers, pc'[d] = "add", j \in list'[d]
                 PROVE  j \notin scheduled \cup list[c]
      BY <1>1
    <3>1. d # c
      BY <1>2
    <3>2. pc[d] = "add" /\ j \in list[d]
      BY <1>2, <2>1, <3>1
    <3>3. QED
      BY <1>7, <2>1, <3>1, <3>2 DEF TaskOK
  <2>6. \A i \in Kids[j] : runs'[j] = 0 => i \notin scheduled' /\ ~(Held(i)')
    BY <1>1, <1>4, <1>5, <2>1 DEF TaskOK
  <2>7. QED
    BY <2>2, <2>3, <2>4, <2>5, <2>6 DEF TaskOK
<1>9. Unfinished' = Unfinished \cup list[c] /\ Unfinished \cap list[c] = {}
  BY <1>1, <1>4, <1>5, <1>6 DEF Unfinished
<1>10. waitGroup' = Cardinality(Unfinished')
  <2>1. IsFiniteSet(list[c]) /\ Cardinality(list[c]) \in Nat
    BY <1>6, TasksAssumption, FS_Subset, FS_CardinalityType
  <2>2. Cardinality({}) = 0
    BY FS_EmptySet
  <2>3. IsFiniteSet(Unfinished) /\ Cardinality(Unfinished) \in Nat
    BY <1>0, UnfinishedFinite
  <2>4. Cardinality(Unfinished') =
          Cardinality(Unfinished) + Cardinality(list[c]) - Cardinality(Unfinished \cap list[c])
    BY <1>9, <2>1, <2>3, FS_Union
  <2>5. Cardinality(Unfinished') = Cardinality(Unfinished) + Cardinality(list[c])
    <3>1. Cardinality(Unfinished \cap list[c]) = 0
      BY <1>9, <2>2
    <3>2. QED
      BY <2>1, <2>3, <2>4, <3>1
  <2>6. QED
    BY <1>0, <1>1, <2>5 DEF TasksOK
<1>11. TasksOK'
  <2>1. Disjoint(hold)'
    BY <1>0, <1>4 DEF TasksOK, Disjoint
  <2>2. QED
    BY <1>8, <1>10, <2>1 DEF TasksOK
<1>12. QED
  BY <1>3, <1>11

LEMMA TaskInvInit == Init => TaskInv
<1> SUFFICES ASSUME Init PROVE TaskInv
  OBVIOUS
<1>0. TypeInv
  BY TypeInvInit
<1>1. /\ pc = [c \in Callers |-> IF c = Main THEN "ready" ELSE "none"]
      /\ list = [c \in Callers |-> {}] /\ queue = [q \in Queues |-> {}]
      /\ grab = [t \in Workers |-> {}] /\ buf = [t \in Workers |-> {}]
      /\ running = [t \in Workers |-> None] /\ runs = [k \in Tasks |-> 0]
      /\ waitGroup = 0 /\ scheduled = {}
  BY DEF Init
<1>2. \A t \in Workers : /\ pc[t] = "none" /\ running[t] = None /\ grab[t] = {}
                         /\ list[t] = {} /\ t \in Callers
  BY <1>1, NamesAssumption DEF Callers
<1>3. HandsOK
  <2>1. \A t \in Workers : HandOK(t)
    BY <1>2 DEF HandOK, NodePcs, SchedulingPcs
  <2>2. list[Main] = {}
    BY <1>1 DEF Callers
  <2>3. QED
    BY <2>1, <2>2 DEF HandsOK
<1>4. \A p \in Slots : hold[p] = {}
  <2>1. ASSUME NEW p \in Slots PROVE hold[p] = {}
    <3>1. CASE \E c \in Callers : p = <<"list", c>>
      BY <1>1, <3>1, HoldFacts
    <3>2. CASE \E x \in Queues : p = <<"queue", x>>
      BY <1>1, <3>2, HoldFacts
    <3>3. CASE \E t \in Workers : p = <<"grab", t>>
      BY <1>1, <3>3, HoldFacts
    <3>4. CASE \E t \in Workers : p = <<"buf", t>>
      BY <1>1, <3>4, HoldFacts
    <3>5. CASE \E t \in Workers : p = <<"run", t>>
      <4>1. PICK t \in Workers : p = <<"run", t>>
        BY <3>5
      <4>2. hold[p] = {running[t]} \ {None} /\ running[t] = None
        BY <1>2, <4>1, HoldFacts
      <4>3. QED
        BY <4>2
    <3>6. QED
      BY <3>1, <3>2, <3>3, <3>4, <3>5, SlotKinds
  <2>2. QED
    BY <2>1
<1>5. \A k : ~Held(k)
  BY <1>4 DEF Held, HeldIn
<1>6. Disjoint(hold)
  BY <1>4 DEF Disjoint
<1>7. \A k \in Tasks : TaskOK(k)
  <2>1. \A c \in Callers : list[c] = {}
    BY <1>1
  <2>2. \A k \in Tasks : runs[k] = 0 /\ k \notin scheduled
    BY <1>1
  <2>3. \A j : j \notin scheduled
    BY <1>1
  <2>4. QED
    BY <1>4, <1>5, <2>1, <2>2, <2>3 DEF TaskOK
<1>8. waitGroup = Cardinality(Unfinished)
  <2>1. Unfinished = {}
    BY <1>1 DEF Unfinished
  <2>2. QED
    BY <1>1, <2>1, FS_EmptySet
<1>9. QED
  BY <1>0, <1>3, <1>6, <1>7, <1>8 DEF TaskInv, TasksOK

LEMMA TaskInvStep == TaskInv /\ [Next]_vars => TaskInv'
<1> SUFFICES ASSUME TaskInv, [Next]_vars PROVE TaskInv'
  OBVIOUS
<1>0. TypeInv /\ HandsOK
  BY DEF TaskInv
<1>1. TypeInv'
  BY <1>0, TypeInvStep
<1>2. ASSUME NEW c \in Callers, Push(c) PROVE HandsOK' /\ TasksOK'
  BY <1>2, PushToStep DEF Push, Queues
<1>3. ASSUME NEW t \in Workers, PushOverflow(t) PROVE HandsOK' /\ TasksOK'
  BY <1>3, PushToStep DEF PushOverflow, Queues, Callers
<1>4. HandsOK' /\ TasksOK'
  BY <1>0, <1>2, <1>3, CalmKinds, CalmStep, AddStep, PushBufferStep, PopBufferStep, GrabStep,
     PublishStep, CallStep, FinishStep, ScheduleStep
<1>5. QED
  BY <1>1, <1>4 DEF TaskInv

(* The invariant behind the two theorems that follow.                      *)
THEOREM TaskInvariant == Spec => []TaskInv
BY TaskInvInit, TaskInvStep, PTL DEF Spec

(* A task counts in one place if it is somewhere.                          *)
LEMMA PlacesCount ==
  ASSUME TaskInv, NEW k \in Tasks
  PROVE  Places(k) = IF Held(k) THEN 1 ELSE 0
<1> DEFINE L == {c \in Callers : k \in list[c]}
           Q == {q \in Queues : k \in queue[q]}
           G == {t \in Workers : k \in grab[t]}
           B == {t \in Workers : k \in buf[t]}
           R == {t \in Workers : running[t] = k}
<1>1. Places(k) =
        Cardinality(L) + Cardinality(Q) + Cardinality(G) + Cardinality(B) + Cardinality(R)
  BY DEF Places
<1>2. /\ \A x \in L : <<"list", x>> \in Slots /\ k \in hold[<<"list", x>>]
      /\ \A x \in Q : <<"queue", x>> \in Slots /\ k \in hold[<<"queue", x>>]
      /\ \A x \in G : <<"grab", x>> \in Slots /\ k \in hold[<<"grab", x>>]
      /\ \A x \in B : <<"buf", x>> \in Slots /\ k \in hold[<<"buf", x>>]
      /\ \A x \in R : <<"run", x>> \in Slots /\ k \in hold[<<"run", x>>]
  BY HoldFacts, NamesAssumption
<1>3. Cardinality({}) = 0 /\ \A x : Cardinality({x}) = 1
  BY FS_EmptySet, FS_Singleton
<1>4. CASE ~Held(k)
  <2>1. L = {} /\ Q = {} /\ G = {} /\ B = {} /\ R = {}
    BY <1>2, <1>4 DEF Held, HeldIn
  <2> HIDE DEF L, Q, G, B, R
  <2>2. QED
    BY <1>1, <1>3, <1>4, <2>1
<1>5. CASE Held(k)
  <2>1. PICK p \in Slots : k \in hold[p]
    BY <1>5 DEF Held, HeldIn
  <2>2. \A q \in Slots : k \in hold[q] => q = p
    BY <2>1 DEF TaskInv, TasksOK, Disjoint
  <2>3. CASE \E c \in Callers : p = <<"list", c>>
    <3>1. PICK c \in Callers : p = <<"list", c>>
      BY <2>3
    <3>2. c \in L
      BY <2>1, <3>1, HoldFacts
    <3>3. L = {c}
      BY <1>2, <2>2, <3>1, <3>2
    <3>4. Q = {}
      BY <1>2, <2>2, <3>1, <3>2
    <3>5. G = {}
      BY <1>2, <2>2, <3>1, <3>2
    <3>6. B = {}
      BY <1>2, <2>2, <3>1, <3>2
    <3>7. R = {}
      BY <1>2, <2>2, <3>1, <3>2
    <3> HIDE DEF L, Q, G, B, R
    <3>8. /\ Cardinality(L) = 1 /\ Cardinality(Q) = 0 /\ Cardinality(G) = 0
          /\ Cardinality(B) = 0 /\ Cardinality(R) = 0
      BY <1>3, <3>3, <3>4, <3>5, <3>6, <3>7
    <3>9. QED
      BY <1>1, <1>5, <3>8
  <2>4. CASE \E x \in Queues : p = <<"queue", x>>
    <3>1. PICK x \in Queues : p = <<"queue", x>>
      BY <2>4
    <3>2. x \in Q
      BY <2>1, <3>1, HoldFacts
    <3>3. L = {}
      BY <1>2, <2>2, <3>1, <3>2
    <3>4. Q = {x}
      BY <1>2, <2>2, <3>1, <3>2
    <3>5. G = {}
      BY <1>2, <2>2, <3>1, <3>2
    <3>6. B = {}
      BY <1>2, <2>2, <3>1, <3>2
    <3>7. R = {}
      BY <1>2, <2>2, <3>1, <3>2
    <3> HIDE DEF L, Q, G, B, R
    <3>8. /\ Cardinality(L) = 0 /\ Cardinality(Q) = 1 /\ Cardinality(G) = 0
          /\ Cardinality(B) = 0 /\ Cardinality(R) = 0
      BY <1>3, <3>3, <3>4, <3>5, <3>6, <3>7
    <3>9. QED
      BY <1>1, <1>5, <3>8
  <2>5. CASE \E t \in Workers : p = <<"grab", t>>
    <3>1. PICK t \in Workers : p = <<"grab", t>>
      BY <2>5
    <3>2. t \in G
      BY <2>1, <3>1, HoldFacts
    <3>3. L = {}
      BY <1>2, <2>2, <3>1, <3>2
    <3>4. Q = {}
      BY <1>2, <2>2, <3>1, <3>2
    <3>5. G = {t}
      BY <1>2, <2>2, <3>1, <3>2
    <3>6. B = {}
      BY <1>2, <2>2, <3>1, <3>2
    <3>7. R = {}
      BY <1>2, <2>2, <3>1, <3>2
    <3> HIDE DEF L, Q, G, B, R
    <3>8. /\ Cardinality(L) = 0 /\ Cardinality(Q) = 0 /\ Cardinality(G) = 1
          /\ Cardinality(B) = 0 /\ Cardinality(R) = 0
      BY <1>3, <3>3, <3>4, <3>5, <3>6, <3>7
    <3>9. QED
      BY <1>1, <1>5, <3>8
  <2>6. CASE \E t \in Workers : p = <<"buf", t>>
    <3>1. PICK t \in Workers : p = <<"buf", t>>
      BY <2>6
    <3>2. t \in B
      BY <2>1, <3>1, HoldFacts
    <3>3. L = {}
      BY <1>2, <2>2, <3>1, <3>2
    <3>4. Q = {}
      BY <1>2, <2>2, <3>1, <3>2
    <3>5. G = {}
      BY <1>2, <2>2, <3>1, <3>2
    <3>6. B = {t}
      BY <1>2, <2>2, <3>1, <3>2
    <3>7. R = {}
      BY <1>2, <2>2, <3>1, <3>2
    <3> HIDE DEF L, Q, G, B, R
    <3>8. /\ Cardinality(L) = 0 /\ Cardinality(Q) = 0 /\ Cardinality(G) = 0
          /\ Cardinality(B) = 1 /\ Cardinality(R) = 0
      BY <1>3, <3>3, <3>4, <3>5, <3>6, <3>7
    <3>9. QED
      BY <1>1, <1>5, <3>8
  <2>7. CASE \E t \in Workers : p = <<"run", t>>
    <3>1. PICK t \in Workers : p = <<"run", t>>
      BY <2>7
    <3>2. t \in R
      BY <2>1, <3>1, HoldFacts
    <3>3. L = {}
      BY <1>2, <2>2, <3>1, <3>2
    <3>4. Q = {}
      BY <1>2, <2>2, <3>1, <3>2
    <3>5. G = {}
      BY <1>2, <2>2, <3>1, <3>2
    <3>6. B = {}
      BY <1>2, <2>2, <3>1, <3>2
    <3>7. R = {t}
      BY <1>2, <2>2, <3>1, <3>2
    <3> HIDE DEF L, Q, G, B, R
    <3>8. /\ Cardinality(L) = 0 /\ Cardinality(Q) = 0 /\ Cardinality(G) = 0
          /\ Cardinality(B) = 0 /\ Cardinality(R) = 1
      BY <1>3, <3>3, <3>4, <3>5, <3>6, <3>7
    <3>9. QED
      BY <1>1, <1>5, <3>8
  <2>8. QED
    BY <2>3, <2>4, <2>5, <2>6, <2>7, SlotKinds
<1>6. QED
  BY <1>4, <1>5

(* No node is lost or duplicated between the queues, the buffers and the   *)
(* hands of the threads, and no callback runs twice, for any number of     *)
(* workers and thieves.                                                    *)
THEOREM TasksRunExactlyOnce == Spec => []ExactlyOnce
<1>1. ASSUME TaskInv, NEW k \in Tasks
      PROVE  /\ Places(k) <= 1 /\ runs[k] <= 1
             /\ k \in scheduled /\ Places(k) = 0 => runs[k] = 1
  <2>1. TaskOK(k) /\ Places(k) = IF Held(k) THEN 1 ELSE 0
    BY <1>1, PlacesCount DEF TaskInv, TasksOK
  <2>2. QED
    BY <2>1 DEF TaskOK
<1>2. TaskInv => ExactlyOnce
  BY <1>1 DEF ExactlyOnce
<1>3. QED
  BY <1>2, TaskInvariant, PTL

(* Main comes back from wait_for_all() when the group counts nothing.      *)
LEMMA WaitReturns ==
  ASSUME TypeInv, [Next]_vars, pc[Main] = "waitAll", pc'[Main] # "waitAll"
  PROVE  waitGroup = 0
<1>0. /\ pc \in [Callers -> MainPcs \cup WorkerPcs \cup CallerPcs]
      /\ Main \in Callers /\ \A t \in Workers : t # Main /\ t \in Callers
  BY PoolTypes
<1>a. \A t \in Workers : \A p : pc' # [pc EXCEPT ![t] = p]
  BY <1>0
<1>b. \A c \in Callers : pc[c] \notin MainPcs => c \in Workers
  BY DEF MainPcs, Callers
<1>1. ASSUME NEW c \in Callers,
             Add(c) \/ Push(c) \/ Notify(c) \/ NotifySlow(c) \/ EventNotify(c) \/ EventWake(c)
             \/ SpawnFail(c)
      PROVE  FALSE
  <2>1. c \in Workers
    BY <1>1, <1>b DEF Add, Push, Notify, NotifySlow, EventNotify, EventWake, SpawnFail, MainPcs
  <2>2. \E p : pc' = [pc EXCEPT ![c] = p]
    BY <1>1 DEF Add, Push, PushTo, Notify, NotifySlow, EventNotify, EventWake, SpawnFail, Go
  <2>3. QED
    BY <1>a, <2>1, <2>2
<1>2. ASSUME NEW c \in Callers, Spawn(c) PROVE FALSE
  <2>1. c \in Workers /\ Unstarted \in Workers
    BY <1>2, <1>b DEF Spawn, Unstarted, MainPcs
  <2>2. pc' = [pc EXCEPT ![c] = ret[c], ![Unstarted] = "register"]
    BY <1>2 DEF Spawn
  <2>3. QED
    BY <1>0, <2>1, <2>2
<1>3. ASSUME NEW t \in Workers,
             \/ PushBuffer(t) \/ Overflow(t) \/ PushOverflow(t) \/ Register(t) \/ WaitError(t)
             \/ WaitConsume(t) \/ WaitIdle(t) \/ WaitSleep(t)
      PROVE  FALSE
  <2>1. pc' = pc \/ \E p : pc' = [pc EXCEPT ![t] = p]
    BY <1>3 DEF PushBuffer, Overflow, PushOverflow, PushTo, Register, WaitError, WaitConsume,
                WaitIdle, WaitSleep, Go
  <2>2. QED
    BY <1>a, <2>1
<1>4. ASSUME NEW t \in Workers,
             DrainAndSleep(t) \/ Sleep(t) \/ SleepInterrupted(t) \/ PopBuffer(t)
      PROVE  FALSE
  <2>1. pc' = pc \/ \E p : pc' = [pc EXCEPT ![t] = p]
    BY <1>4 DEF DrainAndSleep, Sleep, SleepInterrupted, PopBuffer, Go
  <2>2. QED
    BY <1>a, <2>1
<1>5. ASSUME NEW t \in Workers,
             \/ PopOwnQueue(t) \/ PopPoolQueue(t) \/ StealQueue(t) \/ StealBuffer(t)
             \/ StealBufferEmpty(t) \/ PopNone(t) \/ Fill(t)
      PROVE  FALSE
  <2>1. \E p : pc' = [pc EXCEPT ![t] = p]
    BY <1>5 DEF PopOwnQueue, PopPoolQueue, StealQueue, StealFrom, TryAcquireConsumer,
                StealBuffer, StealBufferEmpty, PopNone, Fill, Go
  <2>2. QED
    BY <1>a, <2>1
<1>6. ASSUME NEW t \in Workers,
             \/ Publish(t) \/ Release(t) \/ Call(t) \/ Finish(t) \/ RunDrain(t) \/ ExitDrain(t)
             \/ Unregister(t) \/ NotifyJoin(t) \/ WakeJoin(t) \/ CountThreads(t)
      PROVE  FALSE
  <2>1. \E p : pc' = [pc EXCEPT ![t] = p]
    BY <1>6 DEF Publish, Release, Call, Finish, RunDrain, ExitDrain, Unregister, NotifyJoin,
                WakeJoin, CountThreads, Go
  <2>2. QED
    BY <1>a, <2>1
<1>7. ASSUME \/ schedule \/ warm \/ push_idle_task \/ wake_for_idle_events \/ drop \/ shutdown
             \/ EventShutdown \/ join \/ JoinChain
      PROVE  FALSE
  BY <1>7 DEF schedule, warm, push_idle_task, wake_for_idle_events, drop, shutdown,
              EventShutdown, join, JoinChain
<1>8. ASSUME wait_for_all PROVE waitGroup = 0
  BY <1>0, <1>8 DEF wait_for_all
<1>9. ~UNCHANGED vars
  BY DEF vars
<1>10. ASSUME NEW c \in Callers, JoinStep(c) \/ JoinInterrupted(c) PROVE FALSE
  <2>1. CASE JoinStep(c)
    <3>1. /\ pc[c] \in {"joinWait", "joinSleep", "joinNext", "joinWake"}
          /\ \E p : pc' = [pc EXCEPT ![c] = p]
      BY <2>1, JoinMoves
    <3>2. QED
      BY <1>a, <3>1 DEF Callers
  <2>2. CASE JoinInterrupted(c)
    BY <2>2 DEF JoinInterrupted
  <2>3. QED
    BY <1>10, <2>1, <2>2
<1>11. QED
  BY <1>1, <1>2, <1>3, <1>4, <1>5, <1>6, <1>7, <1>8, <1>9, <1>10, NextCases

(* When wait_for_all() returns, every task that was scheduled so far, by   *)
(* whomever, has run and was finished.                                     *)
THEOREM WaitForAllIsHonest == Spec => WaitForAllMeansDone
<1>1. ASSUME TaskInv, [Next]_vars, pc[Main] = "waitAll", pc'[Main] = "ready",
             NEW k \in scheduled
      PROVE  runs[k] = 1 /\ \A t \in Workers : running[t] # k
  <2>1. waitGroup = 0 /\ TypeInv
    BY <1>1, WaitReturns DEF TaskInv
  <2>2. Unfinished = {}
    BY <1>1, <2>1, UnfinishedFinite, FS_EmptySet DEF TaskInv, TasksOK
  <2>3. k \in Tasks /\ ~Held(k)
    BY <2>1, <2>2, HandTypes DEF Unfinished
  <2>4. runs[k] = 1
    BY <1>1, <2>3 DEF TaskInv, TasksOK, TaskOK
  <2>5. ASSUME NEW t \in Workers, running[t] = k PROVE FALSE
    <3>1. <<"run", t>> \in Slots /\ k \in hold[<<"run", t>>]
      BY <2>3, <2>5, HoldFacts, NamesAssumption
    <3>2. QED
      BY <2>3, <3>1 DEF Held, HeldIn
  <2>6. QED
    BY <2>4, <2>5
<1>2. TaskInv /\ [Next]_vars =>
        [pc[Main] = "waitAll" /\ pc'[Main] = "ready" =>
           \A k \in scheduled : runs[k] = 1 /\ \A t \in Workers : running[t] # k]_vars
  BY <1>1
<1>3. QED
  BY <1>2, TaskInvariant, PTL DEF Spec, WaitForAllMeansDone

=============================================================================
