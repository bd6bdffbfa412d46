------------------------------- MODULE RwLock -------------------------------
(***************************************************************************)
(* RawRwLock (src/threading/RwLock.rs): a word with the writing bit, the   *)
(* writers that wait and the readers that are in; a mutex that a writer    *)
(* holds while it writes; and a semaphore on which a writer waits for the  *)
(* last reader.  Both are modelled down to their futexes.                  *)
(***************************************************************************)
EXTENDS Integers, FiniteSets

CONSTANTS
  Threads,
  MaxOps,  \* bound: acquisitions, of all threads together
  None

ASSUME RwAssumption == IsFiniteSet(Threads) /\ MaxOps \in Nat

VARIABLES
  state,          \* the word: IS_WRITING, pending writers, active readers
  pc, ops,        \* where each thread is; how many acquisitions were begun
  seen,           \* the word that a thread in try_lock_shared() loaded
  raced,          \* a try_lock() set IS_WRITING while a reader was in
  lockWord, lpc,  \* mutex
  permits, waiters, signals, stale, spc, word, mpc  \* semaphore

mutex == INSTANCE FutexMutex WITH word <- lockWord, mpc <- lpc
semaphore == INSTANCE Semaphore

mutexVars == <<lockWord, lpc>>
semVars == <<permits, waiters, signals, stale, spc, word, mpc>>
rwVars == <<state, pc, ops, seen, raced, mutexVars, semVars>>

Words == [writing : BOOLEAN, writers : Nat, readers : Nat]

RwTypeOK ==
  /\ state \in Words
  /\ pc \in [Threads ->
       {"idle", "w_mutex", "w_set", "w_sem", "writing", "w_unlock",
        "tw_load", "tw_or", "tw_unlock",
        "r_mutex", "r_add", "r_unlock", "reading", "r_post", "tr_cas", "tr_mutex"}]
  /\ ops \in 0 .. MaxOps
  /\ seen \in [Threads -> Words \cup {None}]
  /\ raced \in BOOLEAN
  /\ mutex!MutexTypeOK /\ semaphore!SemTypeOK

RwInit ==
  /\ state = [writing |-> FALSE, writers |-> 0, readers |-> 0]
  /\ pc = [t \in Threads |-> "idle"]
  /\ ops = 0
  /\ seen = [t \in Threads |-> None]
  /\ raced = FALSE
  /\ mutex!MutexInit /\ semaphore!SemInit

Goto(t, from, to) == pc[t] = from /\ pc' = [pc EXCEPT ![t] = to]
Begin(t, to) ==
  Goto(t, "idle", to) /\ ops < MaxOps /\ ops' = ops + 1

\* state & (IS_WRITING | WRITER_MASK) == 0
NoWriter(s) == ~s.writing /\ s.writers = 0

\* A step of lock() or unlock() of the mutex; the call returns when the thread
\* holds it, or is out of it.
Locking(t, from, to) ==
  /\ pc[t] = from
  /\ mutex!TryLock(t) \/ mutex!LockSlow(t) \/ mutex!MutexStep(t)
  /\ pc' = [pc EXCEPT ![t] = IF lpc'[t] = "held" THEN to ELSE from]
  /\ UNCHANGED <<state, ops, seen, raced, semVars>>

Unlocking(t, from, to) ==
  /\ pc[t] = from
  /\ mutex!Unlock(t) \/ mutex!FutexWake(t)
  /\ pc' = [pc EXCEPT ![t] = IF lpc'[t] = "out" THEN to ELSE from]
  /\ UNCHANGED <<state, ops, seen, raced, semVars>>

-----------------------------------------------------------------------------
(* lock(), unlock(), try_lock() *)

LockAnnounce(t) ==
  /\ Begin(t, "w_mutex")
  /\ state' = [state EXCEPT !.writers = @ + 1]
  /\ UNCHANGED <<seen, raced, mutexVars, semVars>>

\* Mutant: the writer does not wait for the readers that are in.
LockSetAndGo(t) ==
  /\ Goto(t, "w_set", "writing")
  /\ state' = [state EXCEPT !.writing = TRUE, !.writers = @ - 1]
  /\ UNCHANGED <<ops, seen, raced, mutexVars, semVars>>

\* One fetch_add sets the bit and takes the reservation back.
LockSet(t) ==
  /\ Goto(t, "w_set", IF state.readers # 0 THEN "w_sem" ELSE "writing")
  /\ state' = [state EXCEPT !.writing = TRUE, !.writers = @ - 1]
  /\ IF state.readers # 0 THEN semaphore!Enter(t) ELSE UNCHANGED semVars
  /\ UNCHANGED <<ops, seen, raced, mutexVars>>

LockWait(t) ==
  /\ pc[t] = "w_sem"
  /\ semaphore!WaitStep(t) \/ semaphore!SignalStep(t)
  /\ pc' = [pc EXCEPT ![t] = IF spc'[t] = "out" THEN "writing" ELSE "w_sem"]
  /\ UNCHANGED <<state, ops, seen, raced, mutexVars>>

UnlockClear(t) ==
  /\ Goto(t, "writing", "w_unlock")
  /\ state' = [state EXCEPT !.writing = FALSE]
  /\ UNCHANGED <<ops, seen, raced, mutexVars, semVars>>

TryLock(t) ==
  /\ \/ Begin(t, "tw_load") /\ mutex!TryLock(t)
     \/ Begin(t, "idle") /\ mutex!Busy /\ UNCHANGED mutexVars
  /\ UNCHANGED <<state, seen, raced, semVars>>

TryLockLoad(t) ==
  /\ Goto(t, "tw_load", IF state.readers = 0 THEN "tw_or" ELSE "tw_unlock")
  /\ UNCHANGED <<state, ops, seen, raced, mutexVars, semVars>>

\* Mutant: the bit is set with the fetch_add of lock(), which takes back a
\* reservation that try_lock() never made.
TryLockSetAsLock(t) ==
  /\ Goto(t, "tw_or", "writing")
  /\ state' = [state EXCEPT !.writing = TRUE, !.writers = @ - 1]
  /\ raced' = (raced \/ state.readers # 0)
  /\ UNCHANGED <<ops, seen, mutexVars, semVars>>

\* A reader may have come since the load.
TryLockSet(t) ==
  /\ Goto(t, "tw_or", "writing")
  /\ state' = [state EXCEPT !.writing = TRUE]
  /\ raced' = (raced \/ state.readers # 0)
  /\ UNCHANGED <<ops, seen, mutexVars, semVars>>

-----------------------------------------------------------------------------
(* lock_shared(), try_lock_shared(), unlock_shared() *)

\* The loop of compare-exchanges ends in one that succeeds, or sees a writer.
LockShared(t) ==
  /\ IF NoWriter(state)
       THEN Begin(t, "reading") /\ state' = [state EXCEPT !.readers = @ + 1]
       ELSE Begin(t, "r_mutex") /\ UNCHANGED state
  /\ UNCHANGED <<seen, raced, mutexVars, semVars>>

LockSharedAdd(t) ==
  /\ Goto(t, "r_add", "r_unlock")
  /\ state' = [state EXCEPT !.readers = @ + 1]
  /\ UNCHANGED <<ops, seen, raced, mutexVars, semVars>>

TryLockSharedLoad(t) ==
  /\ Begin(t, IF NoWriter(state) THEN "tr_cas" ELSE "tr_mutex")
  /\ seen' = [seen EXCEPT ![t] = IF NoWriter(state) THEN state ELSE None]
  /\ UNCHANGED <<state, raced, mutexVars, semVars>>

TryLockSharedCas(t) ==
  /\ IF state = seen[t]
       THEN Goto(t, "tr_cas", "reading") /\ state' = [state EXCEPT !.readers = @ + 1]
       ELSE Goto(t, "tr_cas", "tr_mutex") /\ UNCHANGED state
  /\ seen' = [seen EXCEPT ![t] = None]
  /\ UNCHANGED <<ops, raced, mutexVars, semVars>>

TryLockSharedMutex(t) ==
  /\ \/ Goto(t, "tr_mutex", "r_add") /\ mutex!TryLock(t)
     \/ Goto(t, "tr_mutex", "idle") /\ mutex!Busy /\ UNCHANGED mutexVars
  /\ UNCHANGED <<state, ops, seen, raced, semVars>>

\* Mutant: every reader that leaves under a writer posts, not only the last.
UnlockSharedPostsAll(t) ==
  /\ Goto(t, "reading", IF state.writing THEN "r_post" ELSE "idle")
  /\ state' = [state EXCEPT !.readers = @ - 1]
  /\ IF state.writing THEN semaphore!Enter(t) ELSE UNCHANGED semVars
  /\ UNCHANGED <<ops, seen, raced, mutexVars>>

\* Mutant: the last reader looks for announced writers instead of IS_WRITING.
UnlockSharedForAnnounced(t) ==
  LET last == state.readers = 1 /\ state.writers > 0 IN
  /\ Goto(t, "reading", IF last THEN "r_post" ELSE "idle")
  /\ state' = [state EXCEPT !.readers = @ - 1]
  /\ IF last THEN semaphore!Enter(t) ELSE UNCHANGED semVars
  /\ UNCHANGED <<ops, seen, raced, mutexVars>>

UnlockShared(t) ==
  LET last == state.readers = 1 /\ state.writing IN
  /\ Goto(t, "reading", IF last THEN "r_post" ELSE "idle")
  /\ state' = [state EXCEPT !.readers = @ - 1]
  /\ IF last THEN semaphore!Enter(t) ELSE UNCHANGED semVars
  /\ UNCHANGED <<ops, seen, raced, mutexVars>>

UnlockSharedPost(t) ==
  /\ pc[t] = "r_post"
  /\ semaphore!PostStep(t) \/ semaphore!SignalStep(t)
  /\ pc' = [pc EXCEPT ![t] = IF spc'[t] = "out" THEN "idle" ELSE "r_post"]
  /\ UNCHANGED <<state, ops, seen, raced, mutexVars>>

-----------------------------------------------------------------------------

\* The thread goes on with the call it is in, or drops the guard it holds.
GoesOn(t) ==
  \/ Locking(t, "w_mutex", "w_set") \/ LockSet(t) \/ LockWait(t)
  \/ UnlockClear(t) \/ Unlocking(t, "w_unlock", "idle")
  \/ TryLockLoad(t) \/ TryLockSet(t) \/ Unlocking(t, "tw_unlock", "idle")
  \/ Locking(t, "r_mutex", "r_add") \/ LockSharedAdd(t) \/ Unlocking(t, "r_unlock", "reading")
  \/ TryLockSharedCas(t) \/ TryLockSharedMutex(t)
  \/ UnlockShared(t) \/ UnlockSharedPost(t)

\* futex(2) returns EINTR to a thread that sleeps.
Interrupted(t) ==
  /\ \/ mutex!Spurious(t) /\ UNCHANGED semVars
     \/ semaphore!Spurious(t) /\ UNCHANGED mutexVars
  /\ UNCHANGED <<state, pc, ops, seen, raced>>

RwNext ==
  \E t \in Threads :
    \/ LockAnnounce(t) \/ TryLock(t) \/ LockShared(t) \/ TryLockSharedLoad(t)
    \/ GoesOn(t) \/ Interrupted(t)

\* Every thread that can go on does, and every guard is dropped.  The threads
\* need not ask for the lock.
RwSpec == RwInit /\ [][RwNext]_rwVars /\ \A t \in Threads : WF_rwVars(GoesOn(t))

-----------------------------------------------------------------------------
(* Properties *)

\* The SAFETY argument of `unsafe impl Sync for RwLock': "either many shared &T
\* or one exclusive &mut T".  It holds until a try_lock() sets IS_WRITING after
\* a reader came in behind its back, the only way to break it.
WriterExclusion ==
  ~raced => \A t, u \in Threads :
    pc[t] = "writing" /\ t # u => pc[u] \notin {"writing", "reading"}

\* Nothing is left behind: unless try_lock() raced, a permit is posted for a
\* writer that waits for it and never for a later one, which would walk in on
\* its readers; and the counts in the word are those of the threads that are in
\* or that announced themselves, so no subtraction borrows from its neighbour.
NoStrayPermit ==
  LET posting == {t \in Threads : pc[t] = "r_post" /\ spc[t] \in {"lock", "add"}}
      waiting == {t \in Threads : pc[t] = "w_sem" /\ spc[t] \notin {"signal", "bump", "futex_wake", "unlock"}}
  IN /\ ~raced => permits + Cardinality(posting) <= Cardinality(waiting)
     /\ state.readers = Cardinality({t \in Threads : pc[t] \in {"r_unlock", "reading"}})
     /\ state.writers = Cardinality({t \in Threads : pc[t] \in {"w_mutex", "w_set"}})
     /\ state.writing => \E t \in Threads : lpc[t] = "held"

\* Every call returns and every guard is released, through the futexes of the
\* mutex, of the semaphore's mutex and of its condition: no wake-up is lost,
\* not even after a race of try_lock().
EveryoneReturns == \A t \in Threads : pc[t] # "idle" ~> pc[t] = "idle"

=============================================================================
