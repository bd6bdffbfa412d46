----------------------------- MODULE FutexMutex -----------------------------
(***************************************************************************)
(* Mutex on Linux (FutexImpl of src/threading/Mutex.rs): a word that is    *)
(* unlocked, locked, or contended, and threads that sleep on it in the     *)
(* kernel.  One action per access to the word or call of the kernel.       *)
(***************************************************************************)
CONSTANT Threads

VARIABLES
  word,  \* state
  mpc    \* where each thread is in lock() or unlock()

MutexTypeOK ==
  /\ word \in {"unlocked", "locked", "contended"}
  /\ mpc \in [Threads -> {"out", "slow", "swap", "futex", "asleep", "held", "wake"}]

MutexInit ==
  /\ word = "unlocked"
  /\ mpc = [t \in Threads |-> "out"]

At(t, from, to) == mpc[t] = from /\ mpc' = [mpc EXCEPT ![t] = to]

\* The fetch_or of try_lock(), on x86, finds the lock free ...
TryLock(t) ==
  /\ word = "unlocked" /\ word' = "locked"
  /\ At(t, "out", "held")

\* ... or changes nothing.  What follows is up to the caller.
Busy == word # "unlocked"

\* lock(): the fetch_or fails.
LockSlow(t) ==
  /\ Busy
  /\ At(t, "out", "slow")
  /\ UNCHANGED word

SlowLoad(t) ==
  /\ At(t, "slow", IF word = "contended" THEN "futex" ELSE "swap")
  /\ UNCHANGED word

SlowSwap(t) ==
  /\ At(t, "swap", IF word = "unlocked" THEN "held" ELSE "futex")
  /\ word' = "contended"

\* The kernel puts the thread to sleep only if the word is still contended.
FutexWait(t) ==
  /\ At(t, "futex", IF word = "contended" THEN "asleep" ELSE "swap")
  /\ UNCHANGED word

Unlock(t) ==
  /\ At(t, "held", IF word = "contended" THEN "wake" ELSE "out")
  /\ word' = "unlocked"

\* Futex::wake(1): one of the sleepers, if there is one.
FutexWake(t) ==
  LET asleep == {u \in Threads : mpc[u] = "asleep"} IN
  /\ mpc[t] = "wake"
  /\ \/ asleep = {} /\ mpc' = [mpc EXCEPT ![t] = "out"]
     \/ \E u \in asleep : mpc' = [mpc EXCEPT ![t] = "out", ![u] = "swap"]
  /\ UNCHANGED word

\* The kernel returns for no reason (EINTR): the loop swaps again.
Spurious(t) == At(t, "asleep", "swap") /\ UNCHANGED word

\* lock() and unlock() once they have begun.
MutexStep(t) == SlowLoad(t) \/ SlowSwap(t) \/ FutexWait(t) \/ FutexWake(t)

MutexNext ==
  \E t \in Threads :
    TryLock(t) \/ LockSlow(t) \/ Unlock(t) \/ MutexStep(t) \/ Spurious(t)

MutexSpec == MutexInit /\ [][MutexNext]_<<word, mpc>>

-----------------------------------------------------------------------------

\* Two threads never hold the mutex, and while one does the word says so.
MutexExclusion ==
  /\ \A t, u \in Threads : mpc[t] = "held" /\ mpc[u] = "held" => t = u
  /\ (\E t \in Threads : mpc[t] = "held") <=> word # "unlocked"

\* A thread sleeps only while somebody is bound to wake it: the holder will see
\* the word contended, or an unlocker is about to call the kernel, or a thread
\* that is awake will take the lock as contended.
SleepersAreOwedAWake ==
  (\E t \in Threads : mpc[t] = "asleep") =>
    \/ word = "contended"
    \/ \E t \in Threads : mpc[t] \in {"wake", "swap"}

=============================================================================
