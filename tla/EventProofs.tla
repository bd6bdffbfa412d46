---------------------------- MODULE EventProofs ----------------------------
(***************************************************************************)
(* Proofs about Event, for any number of waiters and wakers.               *)
(***************************************************************************)
EXTENDS Event, TLAPS

(* A new Event is well formed.                                             *)
LEMMA EventInitType == EventInit => EventTypeOK
<1> SUFFICES ASSUME EventInit PROVE EventTypeOK
  OBVIOUS
<1>1. closed \in BOOLEAN
  BY Zenon DEF EventInit
<1>2. shrunk \in [Waiters -> BOOLEAN]
  BY DEF EventInit
<1>3. /\ state \in Words
      /\ wpc \in [Waiters -> {"out", "check", "futex", "asleep"}]
      /\ acquireWith \in [Waiters -> {"EMPTY", "WAITING"}]
      /\ toWake \in [Wakers -> {"none", "one", "all"}]
      /\ \A t \in Waiters :
           wpc[t] = "out" => acquireWith[t] = "EMPTY" /\ ~shrunk[t]
  BY DEF EventInit, Words
<1> QED
  BY <1>1, <1>2, <1>3 DEF EventTypeOK

(* Every step of an Event keeps its state well formed; the thread pool,    *)
(* whose idle_event is an Event, uses this too.                            *)
LEMMA EventTypeStep == EventTypeOK /\ [EventNext]_evars => EventTypeOK'
<1> SUFFICES ASSUME EventTypeOK, [EventNext]_evars PROVE EventTypeOK'
  OBVIOUS
<1> USE DEF EventTypeOK, Words, Asleep
<1>1. ASSUME NEW t \in Waiters, WaitBegin(t) PROVE EventTypeOK'
  BY <1>1 DEF WaitBegin
<1>2. ASSUME NEW t \in Waiters, WaitShutdown(t) PROVE EventTypeOK'
  BY <1>2 DEF WaitShutdown, Return
<1>3. ASSUME NEW t \in Waiters, WaitConsume(t) PROVE EventTypeOK'
  BY <1>3 DEF WaitConsume, Return
<1>4. ASSUME NEW t \in Waiters, WaitPublish(t) PROVE EventTypeOK'
  BY <1>4 DEF WaitPublish
<1>5. ASSUME NEW t \in Waiters, FutexWait(t) PROVE EventTypeOK'
  BY <1>5 DEF FutexWait, Recheck
<1>6. ASSUME NEW t \in Waiters, FutexTimeout(t) PROVE EventTypeOK'
  BY <1>6 DEF FutexTimeout, Recheck
<1>7. ASSUME NEW t \in Waiters, FutexSpurious(t) PROVE EventTypeOK'
  BY <1>7 DEF FutexSpurious, Recheck
<1>8. ASSUME NEW k \in Notifiers, notify(k) \/ wake_for_idle_events(k)
      PROVE  EventTypeOK'
  BY <1>8 DEF notify, wake_for_idle_events, Swap, Wakers
<1>9. ASSUME NEW k \in Closers, shutdown(k) PROVE EventTypeOK'
  BY <1>9 DEF shutdown, Swap, Wakers
<1>10. ASSUME NEW k \in Wakers, FutexWake(k) PROVE EventTypeOK'
  BY <1>10 DEF FutexWake, Recheck
<1>11. CASE UNCHANGED evars
  BY <1>11 DEF evars
<1> QED
  BY <1>1, <1>2, <1>3, <1>4, <1>5, <1>6, <1>7, <1>8, <1>9, <1>10, <1>11 DEF EventNext

(* The state of an Event and of its waiters and wakers stays well formed   *)
(* through every interleaving of wait(), notify() and shutdown().          *)
THEOREM EventTypeCorrect == EventSpec => []EventTypeOK
<1>1. EventInit => EventTypeOK
  BY EventInitType
<1>2. EventTypeOK /\ [EventNext]_evars => EventTypeOK'
  BY EventTypeStep
<1> QED
  BY <1>1, <1>2, PTL DEF EventSpec

(* What the proof of SleepersCovered carries along: before shutdown() the  *)
(* word is never SHUTDOWN, so a woken waiter cannot return without leaving *)
(* WAITING or a token behind.                                              *)
NotYetClosed == ~closed => state # "SHUTDOWN"
CoveredInv == EventTypeOK /\ NotYetClosed /\ SleepersCovered

(* As long as nobody has called shutdown(), a thread asleep in wait() is   *)
(* never forgotten: the next notify() reaches the futex, a thread that     *)
(* slept is about to restore WAITING, or a wake is on its way.             *)
THEOREM NoSleeperForgotten == EventSpec => []SleepersCovered
<1>1. EventInit => CoveredInv
  <2> SUFFICES ASSUME EventInit PROVE CoveredInv
    OBVIOUS
  <2>1. EventTypeOK
    BY EventInitType
  <2>2. NotYetClosed /\ SleepersCovered
    BY DEF EventInit, NotYetClosed, SleepersCovered, Asleep
  <2> QED
    BY <2>1, <2>2 DEF CoveredInv
<1>2. CoveredInv /\ EventTypeOK' /\ [EventNext]_evars => CoveredInv'
  <2> SUFFICES ASSUME CoveredInv, EventTypeOK', [EventNext]_evars
               PROVE  NotYetClosed' /\ SleepersCovered'
    BY DEF CoveredInv
  <2> USE DEF CoveredInv, EventTypeOK, NotYetClosed, SleepersCovered, Asleep
  <2>1. ASSUME NEW t \in Waiters, WaitBegin(t)
        PROVE  NotYetClosed' /\ SleepersCovered'
    BY <2>1 DEF WaitBegin
  <2>2. ASSUME NEW t \in Waiters, WaitShutdown(t)
        PROVE  NotYetClosed' /\ SleepersCovered'
    BY <2>2 DEF WaitShutdown, Return
  <2>3. ASSUME NEW t \in Waiters, WaitConsume(t)
        PROVE  NotYetClosed' /\ SleepersCovered'
    BY <2>3 DEF WaitConsume, Return
  <2>4. ASSUME NEW t \in Waiters, WaitPublish(t)
        PROVE  NotYetClosed' /\ SleepersCovered'
    BY <2>4 DEF WaitPublish
  <2>5. ASSUME NEW t \in Waiters, FutexWait(t)
        PROVE  NotYetClosed' /\ SleepersCovered'
    BY <2>5 DEF FutexWait, Recheck
  <2>6. ASSUME NEW t \in Waiters, FutexTimeout(t)
        PROVE  NotYetClosed' /\ SleepersCovered'
    BY <2>6 DEF FutexTimeout, Recheck
  <2>7. ASSUME NEW t \in Waiters, FutexSpurious(t)
        PROVE  NotYetClosed' /\ SleepersCovered'
    BY <2>7 DEF FutexSpurious, Recheck
  <2>8. ASSUME NEW k \in Notifiers, notify(k) \/ wake_for_idle_events(k)
        PROVE  NotYetClosed' /\ SleepersCovered'
    BY <2>8 DEF notify, wake_for_idle_events, Swap, Wakers
  <2>9. ASSUME NEW k \in Closers, shutdown(k)
        PROVE  NotYetClosed' /\ SleepersCovered'
    BY <2>9 DEF shutdown, Swap
  <2>10. ASSUME NEW k \in Wakers, FutexWake(k)
        PROVE  NotYetClosed' /\ SleepersCovered'
    \* Whoever is woken will look at the word, and restore WAITING.
    <3>1. PICK S \in SUBSET Asleep :
            /\ toWake[k] = "all" => S = Asleep
            /\ toWake[k] = "one" =>
                 IF Asleep = {} THEN S = {} ELSE \E t \in Asleep : S = {t}
            /\ Recheck(S)
      BY <2>10 DEF FutexWake
    <3>2. toWake[k] \in {"one", "all"} /\ UNCHANGED <<state, closed>>
      BY <2>10 DEF FutexWake
    <3>3. CASE S = {}
      <4>1. Asleep = {}
        BY <3>1, <3>2, <3>3
      <4>2. Asleep' = {}
        BY <4>1, <3>1, <3>3 DEF Recheck
      <4> QED
        BY <4>2, <3>2
    <3>4. CASE S # {}
      <4>1. PICK t \in S : wpc'[t] = "check" /\ acquireWith'[t] = "WAITING"
        BY <3>1, <3>4 DEF Recheck
      <4> QED
        BY <4>1, <3>2
    <3> QED
      BY <3>3, <3>4
  <2>11. CASE UNCHANGED evars
    BY <2>11 DEF evars
  <2> QED
    BY <2>1, <2>2, <2>3, <2>4, <2>5, <2>6, <2>7, <2>8, <2>10, <2>11, <2>9 DEF EventNext
<1>3. CoveredInv => SleepersCovered
  BY DEF CoveredInv
<1>4. EventSpec => []EventTypeOK
  BY EventTypeCorrect
<1> QED
  BY <1>1, <1>2, <1>3, <1>4, PTL DEF EventSpec

=============================================================================
