---------------------------- MODULE RwLockProofs ----------------------------
(* The reader-writer lock, for any number of threads and acquisitions. *)
EXTENDS RwLock, FiniteSetTheorems, TLAPS

lockMutex == INSTANCE FutexMutexProofs WITH word <- lockWord, mpc <- lpc

-----------------------------------------------------------------------------
(* The mutex that writers hold *)

LEMMA MutexSteps ==
  ASSUME NEW t \in Threads,
         mutex!TryLock(t) \/ mutex!LockSlow(t) \/ mutex!MutexStep(t) \/ mutex!Unlock(t)
           \/ mutex!FutexWake(t) \/ mutex!Spurious(t)
  PROVE  lockMutex!MutexNext
BY DEF mutex!TryLock, mutex!LockSlow, mutex!MutexStep, mutex!Unlock, mutex!FutexWake,
       mutex!Spurious, mutex!SlowLoad, mutex!SlowSwap, mutex!FutexWait, mutex!At, mutex!Busy,
       lockMutex!MutexNext, lockMutex!TryLock, lockMutex!LockSlow, lockMutex!MutexStep,
       lockMutex!Unlock, lockMutex!FutexWake, lockMutex!Spurious, lockMutex!SlowLoad,
       lockMutex!SlowSwap, lockMutex!FutexWait, lockMutex!At, lockMutex!Busy

\* The lock uses its mutex only through lock(), try_lock() and unlock()
\* (RwLock.rs, RawRwLock): it implements the mutex's own specification.
THEOREM LockUsesMutex == RwSpec => lockMutex!MutexSpec
<1>1. RwInit => lockMutex!MutexInit
  BY DEF RwInit, mutex!MutexInit, lockMutex!MutexInit
<1>2. [RwNext]_rwVars => [lockMutex!MutexNext]_<<lockWord, lpc>>
  <2> SUFFICES ASSUME [RwNext]_rwVars PROVE [lockMutex!MutexNext]_<<lockWord, lpc>>
    OBVIOUS
  <2>1. CASE UNCHANGED rwVars
    BY <2>1 DEF rwVars, mutexVars
  <2>2. ASSUME NEW t \in Threads,
               \/ LockAnnounce(t) \/ LockSet(t) \/ LockWait(t) \/ UnlockClear(t)
               \/ TryLockLoad(t) \/ TryLockSet(t) \/ LockShared(t) \/ LockSharedAdd(t)
               \/ TryLockSharedLoad(t) \/ TryLockSharedCas(t) \/ UnlockShared(t)
               \/ UnlockSharedPost(t)
        PROVE  UNCHANGED <<lockWord, lpc>>
    BY <2>2 DEF LockAnnounce, LockSet, LockWait, UnlockClear, TryLockLoad, TryLockSet,
                LockShared, LockSharedAdd, TryLockSharedLoad, TryLockSharedCas,
                UnlockShared, UnlockSharedPost, mutexVars
  <2>3. ASSUME NEW t \in Threads, NEW from, NEW to,
               Locking(t, from, to) \/ Unlocking(t, from, to)
        PROVE  lockMutex!MutexNext
    BY <2>3, MutexSteps DEF Locking, Unlocking
  <2>4. ASSUME NEW t \in Threads, TryLock(t) \/ TryLockSharedMutex(t) \/ Interrupted(t)
        PROVE  [lockMutex!MutexNext]_<<lockWord, lpc>>
    BY <2>4, MutexSteps DEF TryLock, TryLockSharedMutex, Interrupted, mutexVars
  <2>5. QED
    BY <2>1, <2>2, <2>3, <2>4 DEF RwNext, GoesOn
<1>3. QED
  BY <1>1, <1>2, PTL DEF RwSpec, lockMutex!MutexSpec

-----------------------------------------------------------------------------
(* The mutex of the semaphore *)

semMutex == INSTANCE FutexMutexProofs

LEMMA SemMutexSteps ==
  ASSUME NEW t \in Threads,
         semaphore!mutex!TryLock(t) \/ semaphore!mutex!LockSlow(t)
           \/ semaphore!mutex!MutexStep(t) \/ semaphore!mutex!Unlock(t)
           \/ semaphore!mutex!FutexWake(t) \/ semaphore!mutex!Spurious(t)
  PROVE  semMutex!MutexNext
BY DEF semaphore!mutex!TryLock, semaphore!mutex!LockSlow, semaphore!mutex!MutexStep,
       semaphore!mutex!Unlock, semaphore!mutex!FutexWake, semaphore!mutex!Spurious,
       semaphore!mutex!SlowLoad, semaphore!mutex!SlowSwap, semaphore!mutex!FutexWait,
       semaphore!mutex!At, semaphore!mutex!Busy,
       semMutex!MutexNext, semMutex!TryLock, semMutex!LockSlow, semMutex!MutexStep,
       semMutex!Unlock, semMutex!FutexWake, semMutex!Spurious, semMutex!SlowLoad,
       semMutex!SlowSwap, semMutex!FutexWait, semMutex!At, semMutex!Busy

LEMMA SemaphoreSteps ==
  ASSUME NEW t \in Threads,
         semaphore!WaitStep(t) \/ semaphore!PostStep(t) \/ semaphore!SignalStep(t)
           \/ semaphore!Spurious(t) \/ semaphore!Enter(t)
  PROVE  [semMutex!MutexNext]_<<word, mpc>>
<1>1. ASSUME NEW from, NEW to,
             semaphore!Locking(t, from, to) \/ semaphore!Unlocking(t, from, to)
      PROVE  semMutex!MutexNext
  BY <1>1, SemMutexSteps DEF semaphore!Locking, semaphore!Unlocking
<1>2. ASSUME \/ semaphore!TakePermit(t) \/ semaphore!AddPermit(t) \/ semaphore!WaitEpoch(t)
             \/ semaphore!WaitRegister(t) \/ semaphore!WaitSleep(t) \/ semaphore!WaitReload(t)
             \/ semaphore!WaitCheck(t) \/ semaphore!SignalReserve(t)
             \/ semaphore!SignalBump(t) \/ semaphore!SignalWake(t) \/ semaphore!Enter(t)
      PROVE  UNCHANGED <<word, mpc>>
  BY <1>2 DEF semaphore!TakePermit, semaphore!AddPermit, semaphore!WaitEpoch,
              semaphore!WaitRegister, semaphore!WaitSleep, semaphore!WaitReload,
              semaphore!WaitCheck, semaphore!SignalReserve, semaphore!SignalBump,
              semaphore!SignalWake, semaphore!Enter, semaphore!mutexVars
<1>3. ASSUME semaphore!Spurious(t) PROVE [semMutex!MutexNext]_<<word, mpc>>
  BY <1>3, SemMutexSteps DEF semaphore!Spurious, semaphore!mutexVars
<1>4. QED
  BY <1>1, <1>2, <1>3 DEF semaphore!WaitStep, semaphore!PostStep, semaphore!SignalStep

\* Semaphore::wait() and post() use their mutex only through lock() and unlock():
\* inside the reader-writer lock, too, it is the mutex of FutexMutex.
THEOREM SemaphoreUsesMutex == RwSpec => semMutex!MutexSpec
<1>1. RwInit => semMutex!MutexInit
  BY DEF RwInit, semaphore!SemInit, semaphore!mutex!MutexInit, semMutex!MutexInit
<1>2. [RwNext]_rwVars => [semMutex!MutexNext]_<<word, mpc>>
  <2> SUFFICES ASSUME [RwNext]_rwVars PROVE [semMutex!MutexNext]_<<word, mpc>>
    OBVIOUS
  <2>1. CASE UNCHANGED rwVars
    BY <2>1 DEF rwVars, semVars
  <2>2. ASSUME NEW t \in Threads,
               \/ LockAnnounce(t) \/ UnlockClear(t) \/ TryLock(t) \/ TryLockLoad(t)
               \/ TryLockSet(t) \/ LockShared(t) \/ LockSharedAdd(t)
               \/ TryLockSharedLoad(t) \/ TryLockSharedCas(t) \/ TryLockSharedMutex(t)
        PROVE  UNCHANGED <<word, mpc>>
    BY <2>2 DEF LockAnnounce, UnlockClear, TryLock, TryLockLoad, TryLockSet, LockShared,
                LockSharedAdd, TryLockSharedLoad, TryLockSharedCas, TryLockSharedMutex,
                semVars
  <2>3. ASSUME NEW t \in Threads, NEW from, NEW to,
               Locking(t, from, to) \/ Unlocking(t, from, to)
        PROVE  UNCHANGED <<word, mpc>>
    BY <2>3 DEF Locking, Unlocking, semVars
  <2>4. ASSUME NEW t \in Threads,
               LockSet(t) \/ UnlockShared(t) \/ LockWait(t) \/ UnlockSharedPost(t)
                 \/ Interrupted(t)
        PROVE  [semMutex!MutexNext]_<<word, mpc>>
    BY <2>4, SemaphoreSteps DEF LockSet, UnlockShared, LockWait, UnlockSharedPost, Interrupted,
                                semVars
  <2>5. QED
    BY <2>1, <2>2, <2>3, <2>4 DEF RwNext, GoesOn
<1>3. QED
  BY <1>1, <1>2, PTL DEF RwSpec, semMutex!MutexSpec

-----------------------------------------------------------------------------
(* The inductive invariant.  Whoever may set or has set IS_WRITING holds the *)
(* mutex; the word counts the threads that are in; and, until try_lock()     *)
(* races, a permit is posted, or is about to be, only for the one writer     *)
(* that waits for it, after the last reader has left.                        *)

Holds == {"w_set", "w_sem", "writing", "tw_load", "tw_or", "r_add"}
HeldOK == \A t \in Threads : pc[t] \in Holds => lpc[t] = "held"

SeenOK == \A t \in Threads : pc[t] = "tr_cas" => NoWriter(seen[t])

Readers == {t \in Threads : pc[t] \in {"r_unlock", "reading"}}
Announced == {t \in Threads : pc[t] \in {"w_mutex", "w_set"}}
CountsOK == state.readers = Cardinality(Readers) /\ state.writers = Cardinality(Announced)

WritingOK == state.writing <=> \E t \in Threads : pc[t] \in {"w_sem", "writing"}

\* The end of wait() and of post(), when the permit is taken or added.
Leaving == {"signal", "bump", "futex_wake", "unlock"}
Awaits(t) == pc[t] = "w_sem" /\ spc[t] \notin Leaving
Posts(t) == pc[t] = "r_post" /\ spc[t] \in {"lock", "add"}

PermitsOK ==
  /\ permits > 0 => permits = 1 /\ \A t \in Threads : ~ Posts(t)
  /\ \A t, u \in Threads : Posts(t) /\ Posts(u) => t = u
  /\ permits > 0 \/ (\E t \in Threads : Posts(t)) =>
       state.readers = 0 /\ \E t \in Threads : Awaits(t)
  /\ state.writing /\ state.readers > 0 => \E t \in Threads : Awaits(t)

RwInv ==
  /\ RwTypeOK /\ signals <= waiters
  /\ HeldOK /\ SeenOK /\ CountsOK /\ WritingOK
  /\ ~raced => PermitsOK

SemPlaces == {"out", "lock", "test", "epoch", "register", "release", "sleep", "asleep",
              "reload", "check", "relock", "add", "signal", "bump", "futex_wake", "unlock"}

\* What a step of the semaphore leaves behind, whoever takes it.
SemCoreOK ==
  /\ permits \in Nat /\ waiters \in Nat /\ signals \in Nat /\ signals <= waiters
  /\ stale \subseteq Threads
  /\ spc \in [Threads -> SemPlaces]

\* The others stay where they are, or are woken in the kernel.
OthersStay(t) ==
  \A u \in Threads \ {t} : spc'[u] = spc[u] \/ (spc[u] = "asleep" /\ spc'[u] = "reload")

\* wait(): a thread begins to leave with the permit that it takes.
LEMMA WaitStepFacts ==
  ASSUME SemCoreOK, NEW t \in Threads, semaphore!WaitStep(t)
  PROVE  /\ SemCoreOK' /\ OthersStay(t)
         /\ spc[t] \notin Leaving
         /\ \/ permits' = permits /\ spc'[t] \notin Leaving \cup {"out"}
            \/ permits > 0 /\ permits' = permits - 1 /\ spc'[t] \in Leaving
<1>1. ASSUME NEW from \in {"lock", "relock"}, semaphore!Locking(t, from, "test")
      PROVE  /\ spc[t] = from /\ spc'[t] \in {from, "test"}
             /\ \A u \in Threads \ {t} : spc'[u] = spc[u]
             /\ spc' \in [Threads -> SemPlaces]
             /\ UNCHANGED <<permits, waiters, signals, stale>>
  BY <1>1 DEF semaphore!Locking, semaphore!condVars, SemCoreOK, SemPlaces
<1>2. CASE semaphore!Locking(t, "lock", "test") \/ semaphore!Locking(t, "relock", "test")
  BY <1>1, <1>2 DEF SemCoreOK, OthersStay, Leaving
<1>3. CASE semaphore!Unlocking(t, "release", "sleep")
  BY <1>3 DEF semaphore!Unlocking, semaphore!condVars, SemCoreOK, SemPlaces, OthersStay, Leaving
<1>4. CASE semaphore!TakePermit(t)
  BY <1>4 DEF semaphore!TakePermit, semaphore!Goto, semaphore!condVars, SemCoreOK, SemPlaces,
              OthersStay, Leaving
<1>5. CASE semaphore!WaitEpoch(t) \/ semaphore!WaitRegister(t) \/ semaphore!WaitSleep(t)
           \/ semaphore!WaitReload(t)
  BY <1>5 DEF semaphore!WaitEpoch, semaphore!WaitRegister, semaphore!WaitSleep,
              semaphore!WaitReload, semaphore!Goto, semaphore!condVars, SemCoreOK, SemPlaces,
              OthersStay, Leaving
<1>6. CASE semaphore!WaitCheck(t)
  BY <1>6 DEF semaphore!WaitCheck, semaphore!Goto, SemCoreOK, SemPlaces, OthersStay, Leaving
<1>7. QED
  BY <1>2, <1>3, <1>4, <1>5, <1>6 DEF semaphore!WaitStep

\* post() adds one permit.
LEMMA PostStepFacts ==
  ASSUME SemCoreOK, NEW t \in Threads, semaphore!PostStep(t)
  PROVE  /\ SemCoreOK' /\ OthersStay(t)
         /\ spc[t] \in {"lock", "add"}
         /\ \/ permits' = permits /\ spc'[t] \in {"lock", "add"}
            \/ permits' = permits + 1 /\ spc'[t] \in Leaving
<1>1. CASE semaphore!Locking(t, "lock", "add")
  BY <1>1 DEF semaphore!Locking, semaphore!condVars, SemCoreOK, SemPlaces, OthersStay, Leaving
<1>2. CASE semaphore!AddPermit(t)
  BY <1>2 DEF semaphore!AddPermit, semaphore!Goto, semaphore!condVars, SemCoreOK, SemPlaces,
              OthersStay, Leaving
<1>3. QED
  BY <1>1, <1>2 DEF semaphore!PostStep

\* Condition::signal() and the unlock of either.
LEMMA SignalStepFacts ==
  ASSUME SemCoreOK, NEW t \in Threads, semaphore!SignalStep(t)
  PROVE  /\ SemCoreOK' /\ OthersStay(t) /\ permits' = permits
         /\ spc[t] \in Leaving /\ spc'[t] \in Leaving \cup {"out"}
<1>1. CASE semaphore!Unlocking(t, "unlock", "out")
  BY <1>1 DEF semaphore!Unlocking, semaphore!condVars, SemCoreOK, SemPlaces, OthersStay, Leaving
<1>2. CASE semaphore!SignalReserve(t)
  BY <1>2 DEF semaphore!SignalReserve, semaphore!Goto, SemCoreOK, SemPlaces, OthersStay, Leaving
<1>3. CASE semaphore!SignalBump(t)
  BY <1>3 DEF semaphore!SignalBump, semaphore!Goto, SemCoreOK, SemPlaces, OthersStay, Leaving
<1>4. CASE semaphore!SignalWake(t)
  BY <1>4 DEF semaphore!SignalWake, semaphore!condVars, SemCoreOK, SemPlaces, OthersStay, Leaving
<1>5. QED
  BY <1>1, <1>2, <1>3, <1>4 DEF semaphore!SignalStep

-----------------------------------------------------------------------------
(* What a step preserves, by the parts of the invariant *)

Places == {"idle", "w_mutex", "w_set", "w_sem", "writing", "w_unlock",
           "tw_load", "tw_or", "tw_unlock",
           "r_mutex", "r_add", "r_unlock", "reading", "r_post", "tr_cas", "tr_mutex"}

\* The word and the guards say nothing of the futexes.
Mutexes == mutex!MutexTypeOK /\ semaphore!mutex!MutexTypeOK
RwCoreOK ==
  /\ state \in Words
  /\ pc \in [Threads -> Places]
  /\ ops \in 0 .. MaxOps
  /\ seen \in [Threads -> Words \cup {None}]
  /\ raced \in BOOLEAN

LEMMA TypeParts == (RwTypeOK /\ signals <= waiters) <=> (RwCoreOK /\ SemCoreOK /\ Mutexes)
BY DEF RwTypeOK, RwCoreOK, SemCoreOK, Mutexes, semaphore!SemTypeOK, Places, SemPlaces

\* The thread that takes the step goes to x.
Moves(t, x) == x \in Places /\ pc' = [pc EXCEPT ![t] = x]

\* Nobody else loses the mutex.
MutexKept(t) == \A u \in Threads \ {t} : lpc[u] = "held" => lpc'[u] = "held"

LEMMA MutexStepFacts ==
  ASSUME Mutexes, NEW t \in Threads,
         \/ mutex!TryLock(t) \/ mutex!LockSlow(t) \/ mutex!MutexStep(t) \/ mutex!Unlock(t)
         \/ mutex!FutexWake(t) \/ mutex!Spurious(t)
  PROVE  MutexKept(t)
BY DEF Mutexes, mutex!MutexTypeOK, MutexKept, mutex!TryLock, mutex!LockSlow, mutex!MutexStep,
       mutex!Unlock, mutex!FutexWake, mutex!Spurious, mutex!SlowLoad, mutex!SlowSwap,
       mutex!FutexWait, mutex!At

LEMMA HeldStep ==
  ASSUME RwCoreOK, HeldOK, NEW t \in Threads, NEW x, Moves(t, x), MutexKept(t),
         x \in Holds => lpc'[t] = "held"
  PROVE  HeldOK'
BY DEF RwCoreOK, HeldOK, Moves, MutexKept, Holds

\* One thread at a time may set the bit or has set it.
LEMMA OneHolder ==
  ASSUME HeldOK, lockMutex!MutexExclusion, NEW t \in Threads, NEW u \in Threads,
         pc[t] \in Holds, pc[u] \in Holds
  PROVE  t = u
BY DEF HeldOK, lockMutex!MutexExclusion

LEMMA SetStep ==
  ASSUME NEW A, NEW B, NEW t, IsFiniteSet(A), B = A \cup {t} \/ B = A \ {t}
  PROVE  /\ IsFiniteSet(B)
         /\ Cardinality(A) \in Nat /\ Cardinality(B) \in Nat
         /\ t \in A => Cardinality(A) > 0
         /\ Cardinality(B) = IF t \in A THEN IF t \in B THEN Cardinality(A)
                                                      ELSE Cardinality(A) - 1
                             ELSE IF t \in B THEN Cardinality(A) + 1 ELSE Cardinality(A)
<1>1. Cardinality(A) \in Nat
  BY FS_CardinalityType
<1>2. CASE B = A
  BY <1>1, <1>2, FS_EmptySet
<1>3. CASE B = A \cup {t} /\ t \notin A
  BY <1>1, <1>3, FS_AddElement
<1>4. CASE B = A \ {t} /\ t \in A
  <2>1. IsFiniteSet(B) /\ Cardinality(B) = Cardinality(A) - 1
    BY <1>4, FS_RemoveElement
  <2>2. Cardinality(B) \in Nat
    BY <2>1, FS_CardinalityType
  <2>3. QED
    BY <1>1, <1>4, <2>1, <2>2
<1>5. t \in A => Cardinality(A) > 0
  BY <1>1, FS_EmptySet
<1>6. B = A \/ (B = A \cup {t} /\ t \notin A) \/ (B = A \ {t} /\ t \in A)
  OBVIOUS
<1>7. QED
  BY <1>2, <1>3, <1>4, <1>5, <1>6

In == {"r_unlock", "reading"}
Asks == {"w_mutex", "w_set"}

\* How the numbers of readers and of announced writers change.
LEMMA CountStep ==
  ASSUME RwCoreOK, CountsOK, NEW t \in Threads, NEW x, Moves(t, x)
  PROVE  /\ pc[t] \in In => state.readers > 0
         /\ pc[t] \in Asks => state.writers > 0
         /\ Cardinality(Readers') = IF pc[t] \in In
                                     THEN IF x \in In THEN state.readers ELSE state.readers - 1
                                     ELSE IF x \in In THEN state.readers + 1 ELSE state.readers
         /\ Cardinality(Announced') = IF pc[t] \in Asks
                                     THEN IF x \in Asks THEN state.writers ELSE state.writers - 1
                                     ELSE IF x \in Asks THEN state.writers + 1 ELSE state.writers
<1>1. IsFiniteSet(Readers) /\ IsFiniteSet(Announced)
  BY FS_Subset, RwAssumption DEF Readers, Announced
<1>2. /\ Readers' = IF x \in In THEN Readers \cup {t} ELSE Readers \ {t}
      /\ t \in Readers <=> pc[t] \in In
      /\ t \in Readers' <=> x \in In
  BY DEF RwCoreOK, Moves, Readers, In
<1>3. /\ Announced' = IF x \in Asks THEN Announced \cup {t} ELSE Announced \ {t}
      /\ t \in Announced <=> pc[t] \in Asks
      /\ t \in Announced' <=> x \in Asks
  BY DEF RwCoreOK, Moves, Announced, Asks
<1>4. /\ t \in Readers => Cardinality(Readers) > 0
      /\ Cardinality(Readers') = IF t \in Readers
                                  THEN IF t \in Readers' THEN Cardinality(Readers)
                                                         ELSE Cardinality(Readers) - 1
                                  ELSE IF t \in Readers' THEN Cardinality(Readers) + 1
                                                         ELSE Cardinality(Readers)
  <2>1. Readers' = Readers \cup {t} \/ Readers' = Readers \ {t}
    BY <1>2
  <2>2. QED
    BY <1>1, <2>1, SetStep
<1>5. /\ t \in Announced => Cardinality(Announced) > 0
      /\ Cardinality(Announced') = IF t \in Announced
                                  THEN IF t \in Announced' THEN Cardinality(Announced)
                                                           ELSE Cardinality(Announced) - 1
                                  ELSE IF t \in Announced' THEN Cardinality(Announced) + 1
                                                           ELSE Cardinality(Announced)
  <2>1. Announced' = Announced \cup {t} \/ Announced' = Announced \ {t}
    BY <1>3
  <2>2. QED
    BY <1>1, <2>1, SetStep
<1>6. QED
  BY <1>2, <1>3, <1>4, <1>5 DEF CountsOK

LEMMA NoReaders ==
  ASSUME CountsOK, state.readers = 0, NEW t \in Threads
  PROVE  pc[t] \notin In
<1>1. IsFiniteSet(Readers)
  BY FS_Subset, RwAssumption DEF Readers
<1>2. QED
  BY <1>1, FS_EmptySet DEF CountsOK, Readers, In

\* The step is seen neither in the counts nor by the semaphore.
SameSide(t, x) ==
  /\ pc[t] \in In <=> x \in In
  /\ pc[t] \in Asks <=> x \in Asks
  /\ pc[t] \notin {"w_sem", "writing", "r_post"} /\ x \notin {"w_sem", "writing", "r_post"}

\* Steps that leave the word and the semaphore alone.
LEMMA QuietStep ==
  ASSUME RwInv, Mutexes', RwCoreOK', HeldOK', SeenOK', NEW t \in Threads, NEW x, Moves(t, x),
         UNCHANGED <<state, raced, semVars>>,
         SameSide(t, x)
  PROVE  RwInv'
<1>1. RwCoreOK /\ SemCoreOK
  BY TypeParts DEF RwInv
<1>2. SemCoreOK'
  BY <1>1 DEF SemCoreOK, semVars
<1>3. CountsOK'
  BY <1>1, CountStep DEF RwInv, CountsOK, SameSide
<1>4. \A u \in Threads : /\ pc'[u] \in {"w_sem", "writing"} <=> pc[u] \in {"w_sem", "writing"}
                         /\ Awaits(u)' <=> Awaits(u)
                         /\ Posts(u)' <=> Posts(u)
  BY <1>1 DEF Moves, RwCoreOK, Awaits, Posts, semVars, SameSide
<1>5. WritingOK'
  BY <1>4 DEF RwInv, WritingOK
<1>6. ~raced' => PermitsOK'
  BY <1>4 DEF RwInv, PermitsOK, semVars, Awaits, Posts
<1>7. (RwTypeOK /\ signals <= waiters)'
  BY <1>2, TypeParts, PTL
<1>8. QED
  BY <1>3, <1>5, <1>6, <1>7 DEF RwInv

-----------------------------------------------------------------------------
(* The steps.  What they do to the two mutexes is known from FutexMutex.     *)

LEMMA Quiet ==
  ASSUME RwInv, Mutexes', NEW t \in Threads,
         \/ Locking(t, "w_mutex", "w_set") \/ Locking(t, "r_mutex", "r_add")
         \/ Unlocking(t, "w_unlock", "idle") \/ Unlocking(t, "tw_unlock", "idle")
         \/ Unlocking(t, "r_unlock", "reading")
         \/ TryLock(t) \/ TryLockLoad(t) \/ TryLockSharedLoad(t) \/ TryLockSharedMutex(t)
         \/ (LockShared(t) /\ ~NoWriter(state)) \/ (TryLockSharedCas(t) /\ state # seen[t])
  PROVE  RwInv'
<1>1. RwCoreOK /\ SemCoreOK /\ Mutexes /\ HeldOK /\ SeenOK
  BY TypeParts DEF RwInv
<1>2. ASSUME NEW from \in {"w_mutex", "r_mutex"}, NEW to \in {"w_set", "r_add"},
             Locking(t, from, to), from = "w_mutex" <=> to = "w_set"
      PROVE  RwInv'
  <2> DEFINE x == IF lpc'[t] = "held" THEN to ELSE from
  <2>1. /\ pc[t] = from /\ Moves(t, x) /\ MutexKept(t)
        /\ UNCHANGED <<state, ops, seen, raced, semVars>>
    BY <1>1, <1>2, MutexStepFacts DEF Locking, Moves, Places
  <2>2. x \in {from, to} /\ (x \in Holds => lpc'[t] = "held")
    BY DEF Holds
  <2>3. HeldOK'
    BY <1>1, <2>1, <2>2, HeldStep
  <2>4. RwCoreOK' /\ SeenOK'
    BY <1>1, <1>2, <2>1, <2>2 DEF RwCoreOK, SeenOK, Moves, NoWriter
  <2> HIDE DEF x
  <2>5. SameSide(t, x)
    BY <1>2, <2>1, <2>2 DEF In, Asks, SameSide
  <2>6. QED
    BY <2>1, <2>3, <2>4, <2>5, QuietStep
<1>3. ASSUME NEW from \in {"w_unlock", "tw_unlock", "r_unlock"}, NEW to \in {"idle", "reading"},
             Unlocking(t, from, to), from = "r_unlock" <=> to = "reading"
      PROVE  RwInv'
  <2> DEFINE x == IF lpc'[t] = "out" THEN to ELSE from
  <2>1. /\ pc[t] = from /\ Moves(t, x) /\ MutexKept(t)
        /\ UNCHANGED <<state, ops, seen, raced, semVars>>
    BY <1>1, <1>3, MutexStepFacts DEF Unlocking, Moves, Places
  <2>2. x \in {from, to}
    OBVIOUS
  <2> HIDE DEF x
  <2>3. HeldOK'
    BY <1>1, <1>3, <2>1, <2>2, HeldStep DEF Holds
  <2>4. RwCoreOK' /\ SeenOK'
    BY <1>1, <1>3, <2>1, <2>2 DEF RwCoreOK, SeenOK, Moves, NoWriter
  <2>5. SameSide(t, x)
    BY <1>3, <2>1, <2>2 DEF In, Asks, SameSide
  <2>6. QED
    BY <2>1, <2>3, <2>4, <2>5, QuietStep
<1>4. ASSUME NEW x, pc[t] \notin {"w_sem", "writing", "r_post"}, Moves(t, x), MutexKept(t),
             x \in Holds => lpc'[t] = "held", x = "tr_cas" => NoWriter(seen'[t]),
             SameSide(t, x), ops' \in 0 .. MaxOps,
             seen' \in [Threads -> Words \cup {None}],
             \A u \in Threads \ {t} : seen'[u] = seen[u],
             UNCHANGED <<state, raced, semVars>>
      PROVE  RwInv'
  <2>1. HeldOK'
    BY <1>1, <1>4, HeldStep
  <2>2. RwCoreOK'
    BY <1>1, <1>4 DEF RwCoreOK, Moves
  <2>3. SeenOK'
    BY <1>1, <1>4 DEF RwCoreOK, SeenOK, Moves, NoWriter
  <2>4. QED
    BY <1>4, <2>1, <2>2, <2>3, QuietStep
<1>5. CASE TryLock(t)
  <2>1. PICK x \in {"tw_load", "idle"} : Begin(t, x) /\ (x = "tw_load" => mutex!TryLock(t))
                                           /\ (x = "idle" => UNCHANGED mutexVars)
    BY <1>5 DEF TryLock
  <2>2. /\ pc[t] = "idle" /\ Moves(t, x) /\ ops' \in 0 .. MaxOps
        /\ UNCHANGED <<state, seen, raced, semVars>>
    BY <1>1, <1>5, <2>1, RwAssumption DEF TryLock, Begin, Goto, Moves, Places, RwCoreOK
  <2>3. MutexKept(t) /\ (x \in Holds => lpc'[t] = "held")
    <3>1. CASE x = "tw_load"
      <4>1. mutex!TryLock(t) /\ MutexKept(t)
        BY <1>1, <2>1, <3>1, MutexStepFacts
      <4>2. QED
        BY <1>1, <4>1 DEF mutex!TryLock, mutex!At, Mutexes, mutex!MutexTypeOK
    <3>2. CASE x = "idle"
      BY <2>1, <3>2 DEF MutexKept, mutexVars, Holds
    <3>3. QED
      BY <3>1, <3>2
  <2>4. QED
    BY <1>1, <1>4, <2>2, <2>3 DEF SameSide, In, Asks, RwCoreOK
<1>6. CASE TryLockLoad(t)
  <2>1. PICK x \in {"tw_or", "tw_unlock"} : Goto(t, "tw_load", x)
    BY <1>6 DEF TryLockLoad
  <2>2. /\ pc[t] = "tw_load" /\ Moves(t, x) /\ MutexKept(t)
        /\ UNCHANGED <<state, ops, seen, raced, semVars, lpc>>
    BY <1>6, <2>1 DEF TryLockLoad, Goto, Moves, Places, MutexKept, mutexVars
  <2>3. lpc'[t] = "held"
    BY <1>1, <2>2 DEF HeldOK, Holds
  <2>4. QED
    BY <1>1, <1>4, <2>2, <2>3 DEF SameSide, In, Asks, RwCoreOK
<1>7. CASE TryLockSharedLoad(t)
  <2>1. PICK x \in {"tr_cas", "tr_mutex"} :
             Begin(t, x) /\ (x = "tr_cas" <=> NoWriter(state))
    BY <1>7 DEF TryLockSharedLoad
  <2>2. UNCHANGED <<state, raced, semVars>> /\ MutexKept(t)
    BY <1>7 DEF TryLockSharedLoad, MutexKept, mutexVars
  <2>3. pc[t] = "idle" /\ Moves(t, x) /\ ops' \in 0 .. MaxOps
    BY <1>1, <2>1, RwAssumption DEF Begin, Goto, Moves, Places, RwCoreOK
  <2>4. PICK y \in Words \cup {None} :
             seen' = [seen EXCEPT ![t] = y] /\ (NoWriter(state) => y = state)
    BY <1>1, <1>7 DEF TryLockSharedLoad, RwCoreOK
  <2>5. /\ seen' \in [Threads -> Words \cup {None}]
        /\ seen'[t] = y
        /\ \A u \in Threads \ {t} : seen'[u] = seen[u]
    BY <1>1, <2>4 DEF RwCoreOK
  <2>6. x = "tr_cas" => NoWriter(seen'[t])
    BY <2>1, <2>4, <2>5
  <2>7. QED
    BY <1>4, <2>2, <2>3, <2>5, <2>6 DEF SameSide, In, Asks, Holds
<1>8. CASE TryLockSharedMutex(t)
  <2>1. PICK x \in {"r_add", "idle"} : Goto(t, "tr_mutex", x) /\ (x = "r_add" => mutex!TryLock(t))
                                           /\ (x = "idle" => UNCHANGED mutexVars)
    BY <1>8 DEF TryLockSharedMutex
  <2>2. /\ pc[t] = "tr_mutex" /\ Moves(t, x)
        /\ UNCHANGED <<state, ops, seen, raced, semVars>>
    BY <1>8, <2>1 DEF TryLockSharedMutex, Goto, Moves, Places
  <2>3. MutexKept(t) /\ (x \in Holds => lpc'[t] = "held")
    <3>1. CASE x = "r_add"
      <4>1. mutex!TryLock(t) /\ MutexKept(t)
        BY <1>1, <2>1, <3>1, MutexStepFacts
      <4>2. QED
        BY <1>1, <4>1 DEF mutex!TryLock, mutex!At, Mutexes, mutex!MutexTypeOK
    <3>2. CASE x = "idle"
      BY <2>1, <3>2 DEF MutexKept, mutexVars, Holds
    <3>3. QED
      BY <3>1, <3>2
  <2>4. QED
    BY <1>1, <1>4, <2>2, <2>3 DEF SameSide, In, Asks, RwCoreOK
<1>9. CASE LockShared(t) /\ ~NoWriter(state)
  <2>1. /\ pc[t] = "idle" /\ Moves(t, "r_mutex") /\ MutexKept(t) /\ ops' \in 0 .. MaxOps
        /\ UNCHANGED <<state, seen, raced, semVars>>
    BY <1>1, <1>9, RwAssumption DEF LockShared, Begin, Goto, Moves, Places, MutexKept,
                                    mutexVars, RwCoreOK
  <2>2. QED
    BY <1>1, <1>4, <2>1 DEF SameSide, In, Asks, Holds, RwCoreOK
<1>10. CASE TryLockSharedCas(t) /\ state # seen[t]
  <2>1. /\ pc[t] = "tr_cas" /\ Moves(t, "tr_mutex") /\ MutexKept(t)
        /\ seen' \in [Threads -> Words \cup {None}]
        /\ \A u \in Threads \ {t} : seen'[u] = seen[u]
        /\ UNCHANGED <<state, ops, raced, semVars>>
    BY <1>1, <1>10 DEF TryLockSharedCas, Goto, Moves, Places, MutexKept, mutexVars, RwCoreOK
  <2>2. QED
    BY <1>1, <1>4, <2>1 DEF SameSide, In, Asks, Holds, RwCoreOK
<1>11. QED
  BY <1>2, <1>3, <1>5, <1>6, <1>7, <1>8, <1>9, <1>10

\* Steps that change the word: the parts that do not depend on how.
LEMMA WordStep ==
  ASSUME RwInv, Mutexes', SemCoreOK', NEW t \in Threads, NEW x, Moves(t, x), MutexKept(t),
         x \in Holds => lpc'[t] = "held", x # "tr_cas",
         state' \in Words, raced' \in BOOLEAN, ops' \in 0 .. MaxOps,
         seen' \in [Threads -> Words \cup {None}],
         \A u \in Threads \ {t} : seen'[u] = seen[u],
         CountsOK', WritingOK', ~raced' => PermitsOK'
  PROVE  RwInv'
<1>1. RwCoreOK /\ HeldOK /\ SeenOK
  BY TypeParts DEF RwInv
<1>2. HeldOK'
  BY <1>1, HeldStep
<1>3. RwCoreOK'
  BY <1>1 DEF RwCoreOK, Moves
<1>4. SeenOK'
  BY <1>1 DEF RwCoreOK, SeenOK, Moves, NoWriter
<1>5. (RwTypeOK /\ signals <= waiters)'
  BY <1>3, TypeParts, PTL
<1>6. QED
  BY <1>2, <1>4, <1>5 DEF RwInv

\* lock() announces a writer.
LEMMA AnnounceInv ==
  ASSUME RwInv, Mutexes', NEW t \in Threads, LockAnnounce(t)
  PROVE  RwInv'
<1>1. RwCoreOK /\ SemCoreOK /\ CountsOK /\ HeldOK
  BY TypeParts DEF RwInv
<1>2. /\ pc[t] = "idle" /\ Moves(t, "w_mutex") /\ ops' \in 0 .. MaxOps
      /\ state' = [state EXCEPT !.writers = @ + 1]
      /\ UNCHANGED <<seen, raced, lpc, semVars>>
  BY <1>1, RwAssumption DEF LockAnnounce, Begin, Goto, Moves, Places, mutexVars, RwCoreOK
<1>3. /\ state' \in Words /\ state'.writers = state.writers + 1
      /\ state'.writing = state.writing /\ state'.readers = state.readers
  BY <1>1, <1>2 DEF RwCoreOK, Words
<1>4. CountsOK'
  BY <1>1, <1>2, <1>3, CountStep DEF CountsOK, In, Asks
<1>5. \A u \in Threads : /\ pc'[u] \in {"w_sem", "writing"} <=> pc[u] \in {"w_sem", "writing"}
                         /\ Awaits(u)' <=> Awaits(u)
                         /\ Posts(u)' <=> Posts(u)
  BY <1>1, <1>2 DEF Moves, RwCoreOK, Awaits, Posts, semVars
<1>6. WritingOK'
  BY <1>3, <1>5 DEF RwInv, WritingOK
<1>7. ~raced' => PermitsOK'
  BY <1>2, <1>3, <1>5 DEF RwInv, PermitsOK, semVars, Awaits, Posts
<1>8. SemCoreOK'
  BY <1>1, <1>2 DEF SemCoreOK, semVars
<1>9. MutexKept(t) /\ "w_mutex" \notin Holds
  BY <1>2 DEF MutexKept, Holds
<1>10. QED
  BY <1>1, <1>2, <1>3, <1>4, <1>6, <1>7, <1>8, <1>9, WordStep DEF RwCoreOK

\* A reader comes in: nobody writes.
LEMMA ReaderComes ==
  ASSUME RwInv, lockMutex!MutexExclusion, Mutexes', NEW t \in Threads,
         \/ LockShared(t) /\ NoWriter(state)
         \/ LockSharedAdd(t)
         \/ TryLockSharedCas(t) /\ state = seen[t]
  PROVE  RwInv'
<1>1. RwCoreOK /\ SemCoreOK /\ CountsOK /\ HeldOK /\ SeenOK /\ WritingOK
  BY TypeParts DEF RwInv
<1>2. PICK x \in In :
        /\ pc[t] \notin In \cup Asks \cup {"w_sem", "writing", "r_post"}
        /\ Moves(t, x) /\ ops' \in 0 .. MaxOps
        /\ state' = [state EXCEPT !.readers = @ + 1]
        /\ UNCHANGED <<raced, lpc, semVars>>
  BY <1>1, RwAssumption DEF LockShared, LockSharedAdd, TryLockSharedCas, Begin, Goto, Moves,
                            Places, mutexVars, RwCoreOK, In, Asks
<1>3. /\ seen' \in [Threads -> Words \cup {None}]
      /\ \A u \in Threads \ {t} : seen'[u] = seen[u]
  BY <1>1 DEF LockShared, LockSharedAdd, TryLockSharedCas, RwCoreOK
<1>4. ~state.writing
  <2>1. CASE LockShared(t) /\ NoWriter(state)
    BY <2>1 DEF NoWriter
  <2>2. CASE TryLockSharedCas(t) /\ state = seen[t]
    BY <1>1, <2>2 DEF SeenOK, NoWriter, TryLockSharedCas, Goto
  <2>3. CASE LockSharedAdd(t)
    <3>1. pc[t] = "r_add"
      BY <2>3 DEF LockSharedAdd, Goto
    <3>2. \A u \in Threads : pc[u] \notin {"w_sem", "writing"}
      BY <1>1, <3>1, OneHolder DEF Holds
    <3>3. QED
      BY <1>1, <3>2 DEF WritingOK
  <2>4. QED
    BY <2>1, <2>2, <2>3
<1>5. /\ state' \in Words /\ state'.readers = state.readers + 1
      /\ state'.writing = state.writing /\ state'.writers = state.writers
  BY <1>1, <1>2 DEF RwCoreOK, Words
<1>6. CountsOK'
  BY <1>1, <1>2, <1>5, CountStep DEF CountsOK, In, Asks
<1>7. \A u \in Threads : /\ pc'[u] \in {"w_sem", "writing"} <=> pc[u] \in {"w_sem", "writing"}
                         /\ Awaits(u)' <=> Awaits(u)
                         /\ Posts(u)' <=> Posts(u)
  BY <1>1, <1>2 DEF Moves, RwCoreOK, Awaits, Posts, semVars, In
<1>8. WritingOK'
  BY <1>5, <1>7 DEF RwInv, WritingOK
<1>9. \A u \in Threads : ~Awaits(u)
  BY <1>1, <1>4 DEF WritingOK, Awaits
<1>10. ~raced' => PermitsOK'
  BY <1>2, <1>4, <1>5, <1>7, <1>9 DEF RwInv, PermitsOK, semVars, Awaits, Posts
<1>11. SemCoreOK'
  BY <1>1, <1>2 DEF SemCoreOK, semVars
<1>12. MutexKept(t) /\ x \notin Holds /\ x # "tr_cas"
  BY <1>2 DEF MutexKept, Holds, In
<1>13. QED
  BY <1>1, <1>2, <1>3, <1>5, <1>6, <1>8, <1>10, <1>11, <1>12, WordStep DEF RwCoreOK

\* A reader leaves, and the last one before a writer begins to post.
LEMMA ReaderLeaves ==
  ASSUME RwInv, Mutexes', NEW t \in Threads, UnlockShared(t)
  PROVE  RwInv'
<1> DEFINE last == state.readers = 1 /\ state.writing
           x == IF last THEN "r_post" ELSE "idle"
<1>1. RwCoreOK /\ SemCoreOK /\ CountsOK /\ HeldOK /\ WritingOK
  BY TypeParts DEF RwInv
<1>2. /\ pc[t] = "reading" /\ Moves(t, x)
      /\ state' = [state EXCEPT !.readers = @ - 1]
      /\ IF last THEN semaphore!Enter(t) ELSE UNCHANGED semVars
      /\ UNCHANGED <<ops, seen, raced, lpc>>
  BY DEF UnlockShared, Goto, Moves, Places, mutexVars
<1>3. state.readers > 0
  BY <1>1, <1>2, CountStep DEF In
<1>4. /\ state' \in Words /\ state'.readers = state.readers - 1
      /\ state'.writing = state.writing /\ state'.writers = state.writers
  BY <1>1, <1>2, <1>3 DEF RwCoreOK, Words
<1>5. CountsOK'
  BY <1>1, <1>2, <1>4, CountStep DEF CountsOK, In, Asks
<1>6. /\ UNCHANGED <<permits, waiters, signals, stale>>
      /\ spc' = IF last THEN [spc EXCEPT ![t] = "lock"] ELSE spc
  BY <1>2 DEF semaphore!Enter, semaphore!Goto, semaphore!condVars, semVars
<1>7. SemCoreOK'
  BY <1>1, <1>6 DEF SemCoreOK, SemPlaces
<1>8. \A u \in Threads : /\ pc'[u] \in {"w_sem", "writing"} <=> pc[u] \in {"w_sem", "writing"}
                         /\ Awaits(u)' <=> Awaits(u)
                         /\ Posts(u)' <=> Posts(u) \/ (u = t /\ last)
  BY <1>1, <1>2, <1>6 DEF Moves, RwCoreOK, SemCoreOK, Awaits, Posts
<1>9. WritingOK'
  BY <1>4, <1>8 DEF RwInv, WritingOK
<1>10. ASSUME ~raced' PROVE PermitsOK'
  <2>1. PermitsOK /\ permits \in Nat
    BY <1>1, <1>2, <1>10 DEF RwInv, SemCoreOK
  <2>2. permits = 0 /\ \A u \in Threads : ~Posts(u)
    BY <1>3, <2>1 DEF PermitsOK
  <2>3. state.readers \in Nat
    BY <1>1 DEF RwCoreOK, Words
  <2>4. CASE last
    <3>1. state'.readers = 0 /\ permits' = 0
      BY <1>4, <1>6, <2>2, <2>4
    <3>2. PICK u \in Threads : Awaits(u)'
      BY <1>3, <1>8, <2>1, <2>4 DEF PermitsOK
    <3>3. \A r \in Threads : Posts(r)' => r = t
      BY <1>8, <2>2
    <3>4. QED
      BY <3>1, <3>2, <3>3 DEF PermitsOK
  <2>5. CASE ~last
    <3>1. permits' = 0 /\ \A u \in Threads : ~Posts(u)'
      BY <1>6, <1>8, <2>2, <2>5
    <3>2. state'.writing /\ state'.readers > 0 => \E u \in Threads : Awaits(u)'
      BY <1>3, <1>4, <1>8, <2>1 DEF PermitsOK
    <3>3. QED
      BY <3>1, <3>2 DEF PermitsOK
  <2>6. QED
    BY <2>4, <2>5
<1>11. MutexKept(t) /\ x \notin Holds /\ x # "tr_cas"
  BY <1>2 DEF MutexKept, Holds
<1> HIDE DEF x
<1>12. QED
  BY <1>1, <1>2, <1>4, <1>5, <1>7, <1>9, <1>10, <1>11, WordStep DEF RwCoreOK

\* The writer sets the bit, and waits if readers are in: nobody had set it.
LEMMA WriterSets ==
  ASSUME RwInv, lockMutex!MutexExclusion, Mutexes', NEW t \in Threads,
         LockSet(t) \/ TryLockSet(t)
  PROVE  RwInv'
<1>1. RwCoreOK /\ SemCoreOK /\ CountsOK /\ HeldOK /\ WritingOK
  BY TypeParts DEF RwInv
<1>2. PICK x \in {"w_sem", "writing"} :
        /\ pc[t] \in {"w_set", "tw_or"} /\ Moves(t, x)
        /\ IF x = "w_sem" THEN semaphore!Enter(t) ELSE UNCHANGED semVars
        /\ x = "w_sem" => state.readers # 0
        /\ ~raced' /\ state.readers # 0 => x = "w_sem"
        /\ UNCHANGED <<ops, seen, lpc>> /\ raced' \in BOOLEAN /\ (raced => raced')
  BY <1>1 DEF LockSet, TryLockSet, Goto, Moves, Places, mutexVars, RwCoreOK
<1>3. state' = IF pc[t] = "w_set" THEN [state EXCEPT !.writing = TRUE, !.writers = @ - 1]
                                    ELSE [state EXCEPT !.writing = TRUE]
  BY DEF LockSet, TryLockSet, Goto
<1>4. pc[t] = "w_set" => state.writers > 0
  BY <1>1, <1>2, CountStep DEF Asks
<1>5. /\ state' \in Words /\ state'.readers = state.readers /\ state'.writing
      /\ state'.writers = IF pc[t] = "w_set" THEN state.writers - 1 ELSE state.writers
  <2>1. CASE pc[t] = "w_set"
    <3>1. state \in Words /\ state.writers - 1 \in Nat
      BY <1>1, <1>4, <2>1 DEF RwCoreOK, Words
    <3>2. state' = [state EXCEPT !.writing = TRUE, !.writers = state.writers - 1]
      BY <1>3, <2>1, <3>1 DEF Words
    <3>3. QED
      BY <2>1, <3>1, <3>2 DEF Words
  <2>2. CASE pc[t] # "w_set"
    BY <1>1, <1>3, <2>2 DEF RwCoreOK, Words
  <2>3. QED
    BY <2>1, <2>2
<1>6. CountsOK'
  BY <1>1, <1>2, <1>5, CountStep DEF CountsOK, In, Asks
<1>7. /\ UNCHANGED <<permits, waiters, signals, stale>>
      /\ spc' = IF x = "w_sem" THEN [spc EXCEPT ![t] = "lock"] ELSE spc
  BY <1>2 DEF semaphore!Enter, semaphore!Goto, semaphore!condVars, semVars
<1>8. SemCoreOK'
  BY <1>1, <1>7 DEF SemCoreOK, SemPlaces
<1>9. \A u \in Threads : pc[u] \notin {"w_sem", "writing"}
  BY <1>1, <1>2, OneHolder DEF Holds
<1>10. \A u \in Threads : /\ Awaits(u)' <=> (u = t /\ x = "w_sem")
                          /\ Posts(u)' <=> Posts(u)
  BY <1>1, <1>2, <1>7, <1>9 DEF Moves, RwCoreOK, SemCoreOK, Awaits, Posts, Leaving
<1>11. WritingOK'
  BY <1>1, <1>2, <1>5 DEF WritingOK, Moves, RwCoreOK
<1>12. ASSUME ~raced' PROVE PermitsOK'
  <2>1. PermitsOK /\ permits \in Nat /\ \A u \in Threads : ~Awaits(u)
    BY <1>1, <1>2, <1>9, <1>12 DEF RwInv, SemCoreOK, Awaits
  <2>2. permits' = 0 /\ \A u \in Threads : ~Posts(u)'
    BY <1>7, <1>10, <2>1 DEF PermitsOK
  <2>3. state'.readers > 0 => \E u \in Threads : Awaits(u)'
    BY <1>1, <1>2, <1>5, <1>10, <1>12
  <2>4. QED
    BY <2>2, <2>3 DEF PermitsOK
<1>13. MutexKept(t) /\ lpc'[t] = "held" /\ x # "tr_cas"
  BY <1>1, <1>2 DEF MutexKept, Holds, HeldOK
<1>14. QED
  BY <1>1, <1>2, <1>5, <1>6, <1>8, <1>11, <1>12, <1>13, WordStep DEF RwCoreOK

\* The writer clears the bit.  No permit is left for a later one.
LEMMA WriterClears ==
  ASSUME RwInv, lockMutex!MutexExclusion, Mutexes', NEW t \in Threads, UnlockClear(t)
  PROVE  RwInv'
<1>1. RwCoreOK /\ SemCoreOK /\ CountsOK /\ HeldOK /\ WritingOK
  BY TypeParts DEF RwInv
<1>2. /\ pc[t] = "writing" /\ Moves(t, "w_unlock")
      /\ state' = [state EXCEPT !.writing = FALSE]
      /\ UNCHANGED <<ops, seen, raced, lpc, semVars>>
  BY DEF UnlockClear, Goto, Moves, Places, mutexVars
<1>3. /\ state' \in Words /\ state'.readers = state.readers /\ ~state'.writing
      /\ state'.writers = state.writers
  BY <1>1, <1>2 DEF RwCoreOK, Words
<1>4. CountsOK'
  BY <1>1, <1>2, <1>3, CountStep DEF CountsOK, In, Asks
<1>5. \A u \in Threads : pc[u] \in {"w_sem", "writing"} => u = t
  BY <1>1, <1>2, OneHolder DEF Holds
<1>6. WritingOK'
  BY <1>1, <1>2, <1>3, <1>5 DEF WritingOK, Moves, RwCoreOK
<1>7. \A u \in Threads : ~Awaits(u) /\ (Posts(u)' <=> Posts(u))
  BY <1>1, <1>2, <1>5 DEF Moves, RwCoreOK, Awaits, Posts, semVars
<1>8. ~raced' => PermitsOK'
  BY <1>2, <1>3, <1>7 DEF RwInv, PermitsOK, Awaits, Posts, semVars
<1>9. SemCoreOK'
  BY <1>1, <1>2 DEF SemCoreOK, semVars
<1>10. MutexKept(t) /\ "w_unlock" \notin Holds
  BY <1>2 DEF MutexKept, Holds
<1>11. QED
  BY <1>1, <1>2, <1>3, <1>4, <1>6, <1>8, <1>9, <1>10, WordStep DEF RwCoreOK

\* What the semaphore does is seen by the invariant only where a writer takes a
\* permit and where a reader adds one.
LEMMA SemaphoreInv ==
  ASSUME RwInv, lockMutex!MutexExclusion, Mutexes', NEW t \in Threads,
         LockWait(t) \/ UnlockSharedPost(t)
  PROVE  RwInv'
<1>1. RwCoreOK /\ SemCoreOK /\ CountsOK /\ HeldOK /\ WritingOK
  BY TypeParts DEF RwInv
<1>2. CASE LockWait(t)
  <2> DEFINE x == IF spc'[t] = "out" THEN "writing" ELSE "w_sem"
  <2>1. /\ pc[t] = "w_sem" /\ Moves(t, x)
        /\ UNCHANGED <<state, ops, seen, raced, lpc>>
    BY <1>2 DEF LockWait, Moves, Places, mutexVars
  <2>2. /\ SemCoreOK' /\ OthersStay(t)
        /\ \/ permits' = permits /\ spc[t] \notin Leaving /\ spc'[t] \notin Leaving \cup {"out"}
           \/ permits' = permits /\ spc[t] \in Leaving /\ spc'[t] \in Leaving \cup {"out"}
           \/ permits' = permits - 1 /\ permits > 0 /\ spc[t] \notin Leaving
              /\ spc'[t] \in Leaving
    BY <1>1, <1>2, WaitStepFacts, SignalStepFacts DEF LockWait
  <2>3. CountsOK'
    BY <1>1, <2>1, CountStep DEF CountsOK, In, Asks
  <2>4. WritingOK'
    BY <1>1, <2>1 DEF WritingOK, Moves, RwCoreOK
  <2>5. \A u \in Threads : pc[u] \in {"w_sem", "writing"} => u = t
    BY <1>1, <2>1, OneHolder DEF Holds
  <2>6. \A u \in Threads : /\ Posts(u)' <=> Posts(u)
                           /\ u # t => ~Awaits(u) /\ ~Awaits(u)'
    BY <1>1, <2>1, <2>2, <2>5 DEF Moves, RwCoreOK, SemCoreOK, Posts, Awaits, OthersStay
  <2>7. Awaits(t) <=> spc[t] \notin Leaving
    BY <2>1 DEF Awaits
  <2>8. Awaits(t)' <=> spc'[t] \notin Leaving \cup {"out"}
    BY <1>1, <2>1 DEF Awaits, Moves, RwCoreOK, Leaving
  <2>9. ASSUME ~raced' PROVE PermitsOK'
    <3>1. PermitsOK /\ permits \in Nat
      BY <1>1, <2>1, <2>9 DEF RwInv, SemCoreOK
    <3>2. CASE permits' = permits /\ (Awaits(t)' <=> Awaits(t))
      BY <2>1, <2>6, <3>1, <3>2 DEF PermitsOK, Awaits, Posts
    <3>3. CASE permits' = permits - 1 /\ permits > 0
      <4>1. permits' = 0 /\ state'.readers = 0 /\ \A u \in Threads : ~Posts(u)'
        BY <2>1, <2>6, <3>1, <3>3 DEF PermitsOK
      <4>2. QED
        BY <4>1 DEF PermitsOK
    <3>4. QED
      BY <2>2, <2>7, <2>8, <3>2, <3>3
  <2>10. MutexKept(t) /\ lpc'[t] = "held" /\ x # "tr_cas"
    BY <1>1, <2>1 DEF MutexKept, HeldOK, Holds
  <2> HIDE DEF x
  <2>11. QED
    BY <1>1, <2>1, <2>2, <2>3, <2>4, <2>9, <2>10, WordStep DEF RwCoreOK
<1>3. CASE UnlockSharedPost(t)
  <2> DEFINE x == IF spc'[t] = "out" THEN "idle" ELSE "r_post"
  <2>1. /\ pc[t] = "r_post" /\ Moves(t, x)
        /\ UNCHANGED <<state, ops, seen, raced, lpc>>
    BY <1>3 DEF UnlockSharedPost, Moves, Places, mutexVars
  <2>2. /\ SemCoreOK' /\ OthersStay(t)
        /\ \/ permits' = permits /\ (spc'[t] \in {"lock", "add"} <=> spc[t] \in {"lock", "add"})
           \/ permits' = permits + 1 /\ spc[t] \in {"lock", "add"}
              /\ spc'[t] \notin {"lock", "add"}
    BY <1>1, <1>3, PostStepFacts, SignalStepFacts DEF UnlockSharedPost, Leaving
  <2>3. CountsOK'
    BY <1>1, <2>1, CountStep DEF CountsOK, In, Asks
  <2>4. WritingOK'
    BY <1>1, <2>1 DEF WritingOK, Moves, RwCoreOK
  <2>5. \A u \in Threads : /\ u # t => (Posts(u)' <=> Posts(u))
                           /\ Awaits(u)' <=> Awaits(u)
    BY <1>1, <2>1, <2>2 DEF Moves, RwCoreOK, SemCoreOK, Posts, Awaits, OthersStay, Leaving
  <2>6. /\ Posts(t) <=> spc[t] \in {"lock", "add"}
        /\ Posts(t)' <=> spc'[t] \in {"lock", "add"}
    BY <1>1, <2>1 DEF Moves, RwCoreOK, Posts
  <2>7. ASSUME ~raced' PROVE PermitsOK'
    <3>1. PermitsOK /\ permits \in Nat
      BY <1>1, <2>1, <2>7 DEF RwInv, SemCoreOK
    <3>2. CASE permits' = permits /\ (Posts(t)' <=> Posts(t))
      <4>1. \A u \in Threads : Posts(u)' <=> Posts(u)
        BY <2>5, <3>2
      <4>2. QED
        BY <2>1, <2>5, <3>1, <3>2, <4>1 DEF PermitsOK, Awaits, Posts
    <3>3. CASE permits' = permits + 1 /\ Posts(t) /\ ~Posts(t)'
      <4>1. permits' = 1 /\ state'.readers = 0 /\ \E u \in Threads : Awaits(u)'
        BY <2>1, <2>5, <3>1, <3>3 DEF PermitsOK
      <4>2. \A u \in Threads : ~Posts(u)'
        BY <2>5, <3>1, <3>3 DEF PermitsOK
      <4>3. QED
        BY <4>1, <4>2 DEF PermitsOK
    <3>4. QED
      BY <2>2, <2>6, <3>2, <3>3
  <2>8. MutexKept(t) /\ x \notin Holds /\ x # "tr_cas"
    BY <2>1 DEF MutexKept, Holds
  <2> HIDE DEF x
  <2>9. QED
    BY <1>1, <2>1, <2>2, <2>3, <2>4, <2>7, <2>8, WordStep DEF RwCoreOK
<1>4. QED
  BY <1>2, <1>3

\* A wake-up for no reason moves a thread inside a futex.
LEMMA InterruptedInv ==
  ASSUME RwInv, Mutexes', NEW t \in Threads, Interrupted(t)
  PROVE  RwInv'
<1>1. RwCoreOK /\ SemCoreOK /\ Mutexes
  BY TypeParts DEF RwInv
<1>2. /\ UNCHANGED <<state, pc, ops, seen, raced, permits, waiters, signals, stale>>
      /\ \/ spc' = spc
         \/ spc[t] = "asleep" /\ spc' = [spc EXCEPT ![t] = "reload"]
  BY DEF Interrupted, semaphore!Spurious, semaphore!Goto, semaphore!condVars, semVars
<1>3. HeldOK'
  <2>1. mutex!Spurious(t) \/ UNCHANGED lpc
    BY DEF Interrupted, mutexVars
  <2>2. \A u \in Threads : lpc[u] = "held" => lpc'[u] = "held"
    BY <1>1, <2>1 DEF mutex!Spurious, mutex!At, Mutexes, mutex!MutexTypeOK
  <2>3. QED
    BY <1>2, <2>2 DEF RwInv, HeldOK
<1>4. RwCoreOK' /\ SeenOK' /\ CountsOK' /\ WritingOK'
  BY <1>1, <1>2 DEF RwInv, RwCoreOK, SeenOK, CountsOK, WritingOK, NoWriter, Readers, Announced
<1>5. SemCoreOK'
  BY <1>1, <1>2 DEF SemCoreOK, SemPlaces
<1>6. \A u \in Threads : (Posts(u)' <=> Posts(u)) /\ (Awaits(u)' <=> Awaits(u))
  BY <1>1, <1>2 DEF SemCoreOK, Posts, Awaits, Leaving
<1>7. ~raced' => PermitsOK'
  BY <1>2, <1>6 DEF RwInv, PermitsOK, Posts, Awaits
<1>8. (RwTypeOK /\ signals <= waiters)'
  BY <1>4, <1>5, TypeParts, PTL
<1>9. QED
  BY <1>3, <1>4, <1>7, <1>8 DEF RwInv

-----------------------------------------------------------------------------
(* What is proved *)

LEMMA RwStep ==
  ASSUME RwInv, lockMutex!MutexExclusion, Mutexes', [RwNext]_rwVars
  PROVE  RwInv'
<1>1. CASE UNCHANGED rwVars
  BY <1>1 DEF rwVars, mutexVars, semVars, RwInv, RwTypeOK, mutex!MutexTypeOK,
              semaphore!SemTypeOK, semaphore!mutex!MutexTypeOK, HeldOK, SeenOK, CountsOK,
              WritingOK, PermitsOK, Readers, Announced, Awaits, Posts, NoWriter
<1>2. QED
  BY <1>1, Quiet, AnnounceInv, ReaderComes, ReaderLeaves, WriterSets, WriterClears,
     SemaphoreInv, InterruptedInv DEF RwNext, GoesOn

THEOREM RwInvariant == RwSpec => []RwInv
<1>1. RwInit => RwInv
  <2> SUFFICES ASSUME RwInit PROVE RwInv
    OBVIOUS
  <2>1. RwTypeOK /\ signals <= waiters
    <3>1. Mutexes
      BY DEF RwInit, Mutexes, mutex!MutexInit, mutex!MutexTypeOK, semaphore!SemInit,
             semaphore!mutex!MutexInit, semaphore!mutex!MutexTypeOK
    <3>2. SemCoreOK
      BY DEF RwInit, semaphore!SemInit, SemCoreOK, SemPlaces
    <3>3. RwCoreOK
      <4>1. state \in Words
        BY DEF RwInit, Words
      <4>2. pc \in [Threads -> Places] /\ seen \in [Threads -> Words \cup {None}]
        BY DEF RwInit, Places
      <4>3. ops \in 0 .. MaxOps
        BY RwAssumption DEF RwInit
      <4>4. raced \in BOOLEAN
        BY Zenon DEF RwInit
      <4>5. QED
        BY <4>1, <4>2, <4>3, <4>4 DEF RwCoreOK
    <3>4. QED
      BY <3>1, <3>2, <3>3, TypeParts
  <2>2. CountsOK
    <3>1. Readers = {} /\ Announced = {}
      BY DEF RwInit, Readers, Announced
    <3>2. QED
      BY <3>1, FS_EmptySet DEF RwInit, CountsOK
  <2>3. HeldOK /\ SeenOK /\ WritingOK /\ PermitsOK
    BY DEF RwInit, HeldOK, Holds, SeenOK, WritingOK, PermitsOK, Posts, semaphore!SemInit
  <2>4. QED
    BY <2>1, <2>2, <2>3 DEF RwInv
<1>2. lockMutex!MutexTypeOK /\ semMutex!MutexTypeOK => Mutexes
  BY DEF lockMutex!MutexTypeOK, semMutex!MutexTypeOK, Mutexes, mutex!MutexTypeOK,
         semaphore!mutex!MutexTypeOK
<1>3. RwSpec => [](Mutexes /\ lockMutex!MutexExclusion)
  BY <1>2, LockUsesMutex, SemaphoreUsesMutex, lockMutex!MutexTypeCorrect,
     semMutex!MutexTypeCorrect, lockMutex!MutualExclusion, PTL
<1>4. RwInv /\ lockMutex!MutexExclusion /\ Mutexes' /\ [RwNext]_rwVars => RwInv'
  BY RwStep
<1>5. QED
  BY <1>1, <1>3, <1>4, PTL DEF RwSpec

\* The counts of the word, the permits of the semaphore and the waiters and signals
\* of its condition never go below zero (RawRwLock, Semaphore, Condition).
THEOREM RwTypeCorrect == RwSpec => []RwTypeOK
<1>1. RwInv => RwTypeOK
  BY DEF RwInv
<1>2. QED
  BY <1>1, RwInvariant, PTL

\* Until a try_lock() races with a reader, a writer is alone: lock() waits for the
\* readers that are in, and lock_shared() for the writer.
THEOREM WriterIsAlone == RwSpec => []WriterExclusion
<1>1. RwInv /\ lockMutex!MutexExclusion => WriterExclusion
  <2> SUFFICES ASSUME RwInv, lockMutex!MutexExclusion, ~raced,
                      NEW t \in Threads, NEW u \in Threads, pc[t] = "writing", t # u
               PROVE  pc[u] \notin {"writing", "reading"}
    BY DEF WriterExclusion
  <2>1. \A v \in Threads : pc[v] \in {"w_sem", "writing"} => v = t
    BY OneHolder DEF RwInv, Holds
  <2>2. state.readers \in Nat /\ ~(state.readers > 0)
    BY <2>1 DEF RwInv, RwTypeOK, Words, WritingOK, PermitsOK, Awaits
  <2>3. pc[u] \notin In
    BY <2>2, NoReaders DEF RwInv
  <2>4. QED
    BY <2>1, <2>3 DEF In
<1>2. QED
  BY <1>1, RwInvariant, LockUsesMutex, lockMutex!MutualExclusion, PTL

\* unlock_shared() posts a permit only for the writer that waits for it, and the
\* word counts the readers and the announced writers.
THEOREM PermitsAreAwaited == RwSpec => []NoStrayPermit
<1>1. RwInv => NoStrayPermit
  <2> SUFFICES ASSUME RwInv PROVE NoStrayPermit
    OBVIOUS
  <2> DEFINE posting == {t \in Threads : pc[t] = "r_post" /\ spc[t] \in {"lock", "add"}}
             waiting == {t \in Threads : pc[t] = "w_sem"
                           /\ spc[t] \notin {"signal", "bump", "futex_wake", "unlock"}}
  <2>1. posting = {t \in Threads : Posts(t)} /\ waiting = {t \in Threads : Awaits(t)}
    BY DEF Posts, Awaits, Leaving
  <2> HIDE DEF posting, waiting
  <2>2. /\ IsFiniteSet(posting) /\ Cardinality(posting) \in Nat
        /\ IsFiniteSet(waiting) /\ Cardinality(waiting) \in Nat
    BY <2>1, FS_Subset, FS_CardinalityType, RwAssumption
  <2>3. ASSUME ~raced PROVE permits + Cardinality(posting) <= Cardinality(waiting)
    <3>1. PermitsOK /\ permits \in Nat
      BY <2>3 DEF RwInv, RwTypeOK, semaphore!SemTypeOK
    <3>2. waiting # {} => Cardinality(waiting) > 0
      BY <2>2, FS_EmptySet
    <3>3. CASE posting = {}
      <4>1. Cardinality(posting) = 0
        BY <3>3, FS_EmptySet
      <4>2. permits > 0 => permits = 1 /\ waiting # {}
        BY <2>1, <3>1 DEF PermitsOK
      <4>3. QED
        BY <2>2, <3>1, <3>2, <4>1, <4>2
    <3>4. CASE posting # {}
      <4>1. PICK t \in Threads : Posts(t)
        BY <2>1, <3>4
      <4>2. permits = 0 /\ waiting # {} /\ posting = {t}
        BY <2>1, <3>1, <4>1 DEF PermitsOK
      <4>3. Cardinality(posting) = 1
        BY <4>2, FS_Singleton
      <4>4. QED
        BY <2>2, <3>2, <4>2, <4>3
    <3>5. QED
      BY <3>3, <3>4
  <2>4. /\ state.readers = Cardinality({t \in Threads : pc[t] \in {"r_unlock", "reading"}})
        /\ state.writers = Cardinality({t \in Threads : pc[t] \in {"w_mutex", "w_set"}})
    BY DEF RwInv, CountsOK, Readers, Announced
  <2>5. state.writing => \E t \in Threads : lpc[t] = "held"
    BY DEF RwInv, WritingOK, HeldOK, Holds
  <2>6. QED
    BY <2>3, <2>4, <2>5 DEF NoStrayPermit, posting, waiting
<1>2. QED
  BY <1>1, RwInvariant, PTL

=============================================================================
