------------------------------- MODULE Event -------------------------------
(***************************************************************************)
(* `Event` of src/threading/ThreadPool.rs: one u32 word that stores at     *)
(* most one semaphore token, waited for and posted through a futex.        *)
(*                                                                         *)
(* A CAS retry loop whose failed rounds change nothing is one step, taken  *)
(* when the CAS succeeds.  What the code does in two steps stays in two:   *)
(* wait() publishes WAITING and then asks the kernel to sleep; wake()      *)
(* swaps the word and then asks the kernel to wake.                        *)
(***************************************************************************)

CONSTANTS
  Waiters,   \* threads that call wait()
  Notifiers, \* threads that call notify() or wake_for_idle_events()
  Closers    \* threads that call shutdown()

VARIABLES
  state,       \* Event.state
  wpc,         \* where each waiter is inside wait(); "out" when it is not
  acquireWith, \* wait()'s local: the value a consumed token leaves behind
  shrunk,      \* wait()'s local has_shrunk_memory: the 10 s timeout fired once
  toWake,      \* per waker: the futex wake that its swap still owes
  closed       \* history: shutdown() has been called

evars == <<state, wpc, acquireWith, shrunk, toWake, closed>>

Wakers == Notifiers \cup Closers

Words == {"EMPTY", "WAITING", "NOTIFIED", "SHUTDOWN"}

Asleep == {t \in Waiters : wpc[t] = "asleep"}

EventTypeOK ==
  /\ state \in Words
  /\ wpc \in [Waiters -> {"out", "check", "futex", "asleep"}]
  /\ acquireWith \in [Waiters -> {"EMPTY", "WAITING"}]
  /\ shrunk \in [Waiters -> BOOLEAN]
  /\ toWake \in [Wakers -> {"none", "one", "all"}]
  /\ closed \in BOOLEAN
  /\ \A t \in Waiters :
       wpc[t] = "out" => acquireWith[t] = "EMPTY" /\ ~shrunk[t]

EventInit ==
  /\ state = "EMPTY"
  /\ wpc = [t \in Waiters |-> "out"]
  /\ acquireWith = [t \in Waiters |-> "EMPTY"]
  /\ shrunk = [t \in Waiters |-> FALSE]
  /\ toWake = [k \in Wakers |-> "none"]
  /\ closed = FALSE

-----------------------------------------------------------------------------
(* wait() *)

\* A call starts with acquire_with = EMPTY and has_shrunk_memory = false: the
\* locals keep these values outside of calls.
WaitBegin(t) ==
  /\ wpc[t] = "out"
  /\ wpc' = [wpc EXCEPT ![t] = "check"]
  /\ UNCHANGED <<state, acquireWith, shrunk, toWake, closed>>

\* Mutant: the locals of wait() survive the call, as if they were fields.
ReturnKeepsLocals(t) ==
  /\ wpc' = [wpc EXCEPT ![t] = "out"]
  /\ UNCHANGED <<acquireWith, shrunk, toWake, closed>>

Return(t) ==
  /\ wpc' = [wpc EXCEPT ![t] = "out"]
  /\ acquireWith' = [acquireWith EXCEPT ![t] = "EMPTY"]
  /\ shrunk' = [shrunk EXCEPT ![t] = FALSE]
  /\ UNCHANGED <<toWake, closed>>

\* The event is shut down: return at once.
WaitShutdown(t) ==
  /\ wpc[t] = "check"
  /\ state = "SHUTDOWN"
  /\ Return(t)
  /\ UNCHANGED state

\* Mutant: the token is always consumed with EMPTY, also after a sleep.
ConsumeAsEmpty(t) ==
  /\ wpc[t] = "check"
  /\ state = "NOTIFIED"
  /\ state' = "EMPTY"
  /\ Return(t)

\* Consume a token and return.
WaitConsume(t) ==
  /\ wpc[t] = "check"
  /\ state = "NOTIFIED"
  /\ state' = acquireWith[t]
  /\ Return(t)

\* No token: make the word WAITING before going to the kernel.
WaitPublish(t) ==
  /\ wpc[t] = "check"
  /\ state \in {"EMPTY", "WAITING"}
  /\ state' = "WAITING"
  /\ wpc' = [wpc EXCEPT ![t] = "futex"]
  /\ UNCHANGED <<acquireWith, shrunk, toWake, closed>>

\* Back from the futex, for whatever reason: look at the word again, and from
\* now on leave WAITING behind.
Recheck(S) ==
  /\ wpc' = [t \in Waiters |-> IF t \in S THEN "check" ELSE wpc[t]]
  /\ acquireWith' =
       [t \in Waiters |-> IF t \in S THEN "WAITING" ELSE acquireWith[t]]

\* Mutant: the kernel does not compare the word with WAITING before sleeping.
SleepBlindly(t) ==
  /\ wpc[t] = "futex"
  /\ wpc' = [wpc EXCEPT ![t] = "asleep"]
  /\ UNCHANGED <<state, acquireWith, shrunk, toWake, closed>>

\* Futex::wait(&state, WAITING, ..): the kernel sleeps only on WAITING.
FutexWait(t) ==
  /\ wpc[t] = "futex"
  /\ IF state = "WAITING"
       THEN /\ wpc' = [wpc EXCEPT ![t] = "asleep"]
            /\ UNCHANGED acquireWith
       ELSE Recheck({t})
  /\ UNCHANGED <<state, shrunk, toWake, closed>>

\* The timeout of the first sleep of a wait() call; later sleeps have none.
FutexTimeout(t) ==
  /\ wpc[t] = "asleep"
  /\ ~shrunk[t]
  /\ shrunk' = [shrunk EXCEPT ![t] = TRUE]
  /\ Recheck({t})
  /\ UNCHANGED <<state, toWake, closed>>

\* A spurious return of the futex (EINTR).
FutexSpurious(t) ==
  /\ wpc[t] = "asleep"
  /\ Recheck({t})
  /\ UNCHANGED <<state, shrunk, toWake, closed>>

-----------------------------------------------------------------------------
(* wake(release_with, wake_threads) *)

\* Mutant: the swap overlooks that the word was WAITING.
SwapNoWake(k, release_with, wake_threads) ==
  /\ toWake[k] = "none"
  /\ state' = release_with
  /\ closed' = (closed \/ release_with = "SHUTDOWN")
  /\ toWake' = toWake
  /\ UNCHANGED <<wpc, acquireWith, shrunk>>

\* Swap the word; a futex wake is owed only if it was WAITING.
Swap(k, release_with, wake_threads) ==
  /\ toWake[k] = "none"
  /\ state' = release_with
  /\ toWake' = [toWake EXCEPT
                  ![k] = IF state = "WAITING" THEN wake_threads ELSE "none"]
  /\ closed' = (closed \/ release_with = "SHUTDOWN")
  /\ UNCHANGED <<wpc, acquireWith, shrunk>>

\* Futex::wake(&state, n): at most n of the sleeping threads.
FutexWake(k) ==
  /\ toWake[k] # "none"
  /\ toWake' = [toWake EXCEPT ![k] = "none"]
  /\ \E S \in SUBSET Asleep :
       /\ toWake[k] = "all" => S = Asleep
       /\ toWake[k] = "one" =>
            IF Asleep = {} THEN S = {} ELSE \E t \in Asleep : S = {t}
       /\ Recheck(S)
  /\ UNCHANGED <<state, shrunk, closed>>

notify(k)               == Swap(k, "NOTIFIED", "one")
wake_for_idle_events(k) == Swap(k, "NOTIFIED", "all")
shutdown(k)             == Swap(k, "SHUTDOWN", "all")

-----------------------------------------------------------------------------
EventNext ==
  \/ \E t \in Waiters :
       \/ WaitBegin(t)
       \/ WaitShutdown(t)
       \/ WaitConsume(t)
       \/ WaitPublish(t)
       \/ FutexWait(t)
       \/ FutexTimeout(t)
       \/ FutexSpurious(t)
  \/ \E k \in Notifiers : notify(k) \/ wake_for_idle_events(k)
  \/ \E k \in Closers : shutdown(k)
  \/ \E k \in Wakers : FutexWake(k)

\* A running thread keeps running, and the kernel delivers timeouts.  Nobody
\* has to call wait() or notify(), and spurious returns never have to happen.
EventFairness ==
  /\ \A t \in Waiters :
       /\ WF_evars(WaitShutdown(t))
       /\ WF_evars(WaitConsume(t))
       /\ WF_evars(WaitPublish(t))
       /\ WF_evars(FutexWait(t))
       /\ WF_evars(FutexTimeout(t))
  /\ \A k \in Wakers : WF_evars(FutexWake(k))

EventSpec == EventInit /\ [][EventNext]_evars /\ EventFairness

-----------------------------------------------------------------------------
(* Properties *)

(* Until shutdown(), a thread asleep in the kernel is never forgotten: the *)
(* word says WAITING (so the next notify() wakes somebody), or a waiter    *)
(* that already slept is about to look at the word and leave WAITING       *)
(* behind, or a waker still owes the futex a wake.  This is the reason     *)
(* wait() acquires with WAITING after a sleep.                             *)
SleepersCovered ==
  ~closed /\ Asleep # {} =>
    \/ state = "WAITING"
    \/ \E t \in Waiters : wpc[t] = "check" /\ acquireWith[t] = "WAITING"
    \/ \E k \in Wakers : toWake[k] # "none"

(* Until shutdown(), a token posted while some thread is inside wait() is  *)
(* consumed by a wait() that returns: notify() never leaves a token next   *)
(* to threads that sleep for ever.                                         *)
TokenDelivered ==
  (~closed /\ state = "NOTIFIED" /\ \E t \in Waiters : wpc[t] # "out")
    ~> (closed \/ state # "NOTIFIED")

(* shutdown() "wakes up any threads currently waiting on the Event": a     *)
(* thread asleep when the word is SHUTDOWN gets out of the kernel.         *)
ShutdownWakesSleepers ==
  \A t \in Waiters :
    (state = "SHUTDOWN" /\ wpc[t] = "asleep") ~> (wpc[t] # "asleep")

=============================================================================
