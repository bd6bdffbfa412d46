-------------------------- MODULE FutexMutexProofs --------------------------
(* What the futex mutex promises, for any number of threads. *)
EXTENDS FutexMutex, TLAPS

mutexVars == <<word, mpc>>

\* Each thread is inside lock(), unlock() or neither (Mutex.rs, FutexImpl).
THEOREM MutexTypeCorrect == MutexSpec => []MutexTypeOK
<1>1. MutexInit => MutexTypeOK
  BY DEF MutexInit, MutexTypeOK
<1>2. MutexTypeOK /\ [MutexNext]_mutexVars => MutexTypeOK'
  <2> SUFFICES ASSUME MutexTypeOK, [MutexNext]_mutexVars PROVE MutexTypeOK'
    OBVIOUS
  <2>1. CASE UNCHANGED mutexVars
    BY <2>1 DEF MutexTypeOK, mutexVars
  <2>2. ASSUME NEW t \in Threads,
               TryLock(t) \/ LockSlow(t) \/ Unlock(t) \/ SlowLoad(t) \/ SlowSwap(t)
                 \/ FutexWait(t) \/ Spurious(t)
        PROVE  MutexTypeOK'
    BY <2>2 DEF MutexTypeOK, TryLock, LockSlow, Unlock, SlowLoad, SlowSwap, FutexWait,
                Spurious, At, Busy
  <2>3. ASSUME NEW t \in Threads, FutexWake(t) PROVE MutexTypeOK'
    BY <2>3 DEF MutexTypeOK, FutexWake
  <2>4. QED
    BY <2>1, <2>2, <2>3 DEF MutexNext, MutexStep
<1>3. QED
  BY <1>1, <1>2, PTL DEF MutexSpec, mutexVars

-----------------------------------------------------------------------------

LEMMA ExclusionStep ==
  ASSUME MutexTypeOK, MutexExclusion, [MutexNext]_mutexVars
  PROVE  MutexExclusion'
<1>1. CASE UNCHANGED mutexVars
  BY <1>1 DEF MutexExclusion, mutexVars
<1>2. ASSUME NEW t \in Threads, TryLock(t) PROVE MutexExclusion'
  BY <1>2 DEF MutexTypeOK, MutexExclusion, TryLock, At
<1>3. ASSUME NEW t \in Threads,
             LockSlow(t) \/ SlowLoad(t) \/ FutexWait(t) \/ Spurious(t)
      PROVE  MutexExclusion'
  <2>1. \A u \in Threads : mpc'[u] = "held" <=> mpc[u] = "held"
    BY <1>3 DEF MutexTypeOK, LockSlow, SlowLoad, FutexWait, Spurious, At
  <2>2. word' = word
    BY <1>3 DEF LockSlow, SlowLoad, FutexWait, Spurious
  <2>3. QED
    BY <2>1, <2>2 DEF MutexExclusion
<1>4. ASSUME NEW t \in Threads, SlowSwap(t) PROVE MutexExclusion'
  <2>1. CASE word = "unlocked"
    BY <1>4, <2>1 DEF MutexTypeOK, MutexExclusion, SlowSwap, At
  <2>2. CASE word # "unlocked"
    <3>1. \A u \in Threads : mpc'[u] = "held" <=> mpc[u] = "held"
      BY <1>4, <2>2 DEF MutexTypeOK, SlowSwap, At
    <3>2. word' # "unlocked"
      BY <1>4 DEF SlowSwap
    <3>3. QED
      BY <2>2, <3>1, <3>2 DEF MutexExclusion
  <2>3. QED
    BY <2>1, <2>2
<1>5. ASSUME NEW t \in Threads, Unlock(t) PROVE MutexExclusion'
  BY <1>5 DEF MutexTypeOK, MutexExclusion, Unlock, At
<1>6. ASSUME NEW t \in Threads, FutexWake(t) PROVE MutexExclusion'
  <2>1. \A u \in Threads : mpc'[u] = "held" <=> mpc[u] = "held"
    BY <1>6 DEF MutexTypeOK, FutexWake
  <2>2. word' = word
    BY <1>6 DEF FutexWake
  <2>3. QED
    BY <2>1, <2>2 DEF MutexExclusion
<1>7. QED
  BY <1>1, <1>2, <1>3, <1>4, <1>5, <1>6 DEF MutexNext, MutexStep

\* Two threads never hold the mutex, and it reads as unlocked exactly when nobody
\* does, whatever the contention and the spurious wake-ups.
THEOREM MutualExclusion == MutexSpec => []MutexExclusion
<1>1. MutexInit => MutexExclusion
  BY DEF MutexInit, MutexExclusion
<1>2. QED
  BY <1>1, ExclusionStep, MutexTypeCorrect, PTL DEF MutexSpec, mutexVars

-----------------------------------------------------------------------------

LEMMA OwedStep ==
  ASSUME MutexTypeOK, SleepersAreOwedAWake, [MutexNext]_mutexVars
  PROVE  SleepersAreOwedAWake'
<1>1. CASE UNCHANGED mutexVars
  BY <1>1 DEF SleepersAreOwedAWake, mutexVars
<1>2. ASSUME NEW t \in Threads, TryLock(t) PROVE SleepersAreOwedAWake'
  BY <1>2 DEF MutexTypeOK, SleepersAreOwedAWake, TryLock, At
<1>3. ASSUME NEW t \in Threads, LockSlow(t) PROVE SleepersAreOwedAWake'
  BY <1>3 DEF MutexTypeOK, SleepersAreOwedAWake, LockSlow, At
<1>4. ASSUME NEW t \in Threads, SlowLoad(t) PROVE SleepersAreOwedAWake'
  BY <1>4 DEF MutexTypeOK, SleepersAreOwedAWake, SlowLoad, At
<1>5. ASSUME NEW t \in Threads, SlowSwap(t) PROVE SleepersAreOwedAWake'
  BY <1>5 DEF SleepersAreOwedAWake, SlowSwap
<1>6. ASSUME NEW t \in Threads, FutexWait(t) PROVE SleepersAreOwedAWake'
  BY <1>6 DEF MutexTypeOK, SleepersAreOwedAWake, FutexWait, At
<1>7. ASSUME NEW t \in Threads, Unlock(t) PROVE SleepersAreOwedAWake'
  BY <1>7 DEF MutexTypeOK, SleepersAreOwedAWake, Unlock, At
<1>8. ASSUME NEW t \in Threads, FutexWake(t) PROVE SleepersAreOwedAWake'
  BY <1>8 DEF MutexTypeOK, SleepersAreOwedAWake, FutexWake
<1>9. ASSUME NEW t \in Threads, Spurious(t) PROVE SleepersAreOwedAWake'
  BY <1>9 DEF MutexTypeOK, SleepersAreOwedAWake, Spurious, At
<1>10. QED
  BY <1>1, <1>2, <1>3, <1>4, <1>5, <1>6, <1>7, <1>8, <1>9 DEF MutexNext, MutexStep

\* No sleeper is forgotten: unlock() calls the kernel only if it read the word as
\* contended, and yet a thread sleeps only while somebody is bound to wake it.
THEOREM NoSleeperForgotten == MutexSpec => []SleepersAreOwedAWake
<1>1. MutexInit => SleepersAreOwedAWake
  BY DEF MutexInit, SleepersAreOwedAWake
<1>2. QED
  BY <1>1, OwedStep, MutexTypeCorrect, PTL DEF MutexSpec, mutexVars

=============================================================================
