----------------------------- MODULE Semaphore -----------------------------
(***************************************************************************)
(* Semaphore (src/threading/Semaphore.rs) with the Condition it waits on   *)
(* (src/threading/Condition.rs, futex implementation, no timeouts): permits*)
(* guarded by a mutex, a word of waiters and signals, and an epoch that is *)
(* the futex the waiters sleep on.                                         *)
(***************************************************************************)
EXTENDS Integers

CONSTANT Threads

VARIABLES
  permits,
  waiters, signals,  \* the two halves of Condition's state word
  stale,             \* threads whose copy of the epoch is out of date
  spc,               \* where each thread is in wait() or post()
  word, mpc          \* the semaphore's mutex

semVars == <<permits, waiters, signals, stale, spc, word, mpc>>

mutex == INSTANCE FutexMutex

SemTypeOK ==
  /\ permits \in Nat /\ waiters \in Nat /\ signals \in Nat
  /\ stale \subseteq Threads
  /\ spc \in [Threads ->
       {"out", "lock", "test", "epoch", "register", "release", "sleep", "asleep",
        "reload", "check", "relock", "add", "signal", "bump", "futex_wake", "unlock"}]
  /\ mutex!MutexTypeOK

SemInit ==
  /\ permits = 0 /\ waiters = 0 /\ signals = 0 /\ stale = {}
  /\ spc = [t \in Threads |-> "out"]
  /\ mutex!MutexInit

condVars == <<waiters, signals, stale>>
mutexVars == <<word, mpc>>
Goto(t, from, to) == spc[t] = from /\ spc' = [spc EXCEPT ![t] = to]

-----------------------------------------------------------------------------
(* The mutex: a step inside it keeps the thread where it is in the semaphore *)

\* lock() returns when the thread holds the mutex.
Locking(t, from, to) ==
  /\ spc[t] = from
  /\ mutex!TryLock(t) \/ mutex!LockSlow(t) \/ mutex!MutexStep(t)
  /\ spc' = [u \in Threads |-> IF u = t /\ mpc'[t] = "held" THEN to ELSE spc[u]]
  /\ UNCHANGED <<permits, condVars>>

Unlocking(t, from, to) ==
  /\ spc[t] = from
  /\ mutex!Unlock(t) \/ mutex!FutexWake(t)
  /\ spc' = [u \in Threads |-> IF u = t /\ mpc'[t] = "out" THEN to ELSE spc[u]]
  /\ UNCHANGED <<permits, condVars>>

-----------------------------------------------------------------------------
(* Condition::wait(), called with the mutex held *)

WaitEpoch(t) ==
  /\ Goto(t, "epoch", "register")
  /\ stale' = stale \ {t}
  /\ UNCHANGED <<permits, waiters, signals, mutexVars>>

WaitRegister(t) ==
  /\ Goto(t, "register", "release")
  /\ waiters' = waiters + 1
  /\ UNCHANGED <<permits, signals, stale, mutexVars>>

\* The kernel compares the epoch with the copy.
WaitSleep(t) ==
  /\ Goto(t, "sleep", IF t \in stale THEN "reload" ELSE "asleep")
  /\ UNCHANGED <<permits, condVars, mutexVars>>

WaitReload(t) ==
  /\ Goto(t, "reload", "check")
  /\ stale' = stale \ {t}
  /\ UNCHANGED <<permits, waiters, signals, mutexVars>>

\* Consume a signal, if there is one, or sleep again.
WaitCheck(t) ==
  /\ IF signals > 0
       THEN /\ Goto(t, "check", "relock")
            /\ waiters' = waiters - 1 /\ signals' = signals - 1
       ELSE /\ Goto(t, "check", "sleep")
            /\ UNCHANGED <<waiters, signals>>
  /\ UNCHANGED <<permits, stale, mutexVars>>

-----------------------------------------------------------------------------
(* Condition::signal(), then the mutex is unlocked *)

SignalReserve(t) ==
  /\ IF waiters > signals
       THEN Goto(t, "signal", "bump") /\ signals' = signals + 1
       ELSE Goto(t, "signal", "unlock") /\ UNCHANGED signals
  /\ UNCHANGED <<permits, waiters, stale, mutexVars>>

SignalBump(t) ==
  /\ Goto(t, "bump", "futex_wake")
  /\ stale' = Threads
  /\ UNCHANGED <<permits, waiters, signals, mutexVars>>

SignalWake(t) ==
  LET asleep == {u \in Threads : spc[u] = "asleep"} IN
  /\ spc[t] = "futex_wake"
  /\ \/ asleep = {} /\ spc' = [spc EXCEPT ![t] = "unlock"]
     \/ \E u \in asleep : spc' = [spc EXCEPT ![t] = "unlock", ![u] = "reload"]
  /\ UNCHANGED <<permits, condVars, mutexVars>>

-----------------------------------------------------------------------------
(* Semaphore *)

\* wait(): take a permit, and pass the signal on if there are more.
TakePermit(t) ==
  /\ IF permits = 0
       THEN Goto(t, "test", "epoch") /\ UNCHANGED permits
       ELSE /\ permits' = permits - 1
            /\ Goto(t, "test", IF permits > 1 THEN "signal" ELSE "unlock")
  /\ UNCHANGED <<condVars, mutexVars>>

AddPermit(t) ==
  /\ Goto(t, "add", "signal")
  /\ permits' = permits + 1
  /\ UNCHANGED <<condVars, mutexVars>>

\* wait() and post() begin by locking, to different ends.
WaitStep(t) ==
  \/ Locking(t, "lock", "test") \/ TakePermit(t)
  \/ WaitEpoch(t) \/ WaitRegister(t) \/ Unlocking(t, "release", "sleep") \/ WaitSleep(t)
  \/ WaitReload(t) \/ WaitCheck(t) \/ Locking(t, "relock", "test")
PostStep(t) == Locking(t, "lock", "add") \/ AddPermit(t)
SignalStep(t) ==
  SignalReserve(t) \/ SignalBump(t) \/ SignalWake(t) \/ Unlocking(t, "unlock", "out")

\* The kernel returns for no reason, from either futex.
Spurious(t) ==
  \/ Goto(t, "asleep", "reload") /\ UNCHANGED <<permits, condVars, mutexVars>>
  \/ mutex!Spurious(t) /\ UNCHANGED <<permits, condVars, spc>>

\* A thread that is outside enters wait() or post() and takes its first step.
Enter(t) == Goto(t, "out", "lock") /\ UNCHANGED <<permits, condVars, mutexVars>>

=============================================================================
