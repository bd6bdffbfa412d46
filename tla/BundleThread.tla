---------------------------- MODULE BundleThread ----------------------------
(***************************************************************************)
(* The thread that runs Bun.build() (src/bundler/BundleThread.rs): callers *)
(* push completions to an UnboundedQueue and wake the thread, which pops   *)
(* and runs them until the queue looks empty and then waits for the waker. *)
(***************************************************************************)
EXTENDS Sequences, Integers

CONSTANTS
  Enqueuers,    \* threads that call enqueue()
  Completions,  \* the completion structs, nodes of the queue
  None

ASSUME BundleAssumption == None \notin Completions

VARIABLES
  ready,       \* ready_event is set: spawn() returned
  signal,      \* the waker's eventfd counter is not zero
  tpc,         \* where the bundle thread is
  completion,  \* the completion it is working on
  epc,         \* where each enqueuer is
  done,        \* completions that complete_on_bundle_thread() was called for
  back, front, link, oldBack, chainFirst, cpc, first, nextItem, last, count,
  pending      \* the queue

queue == INSTANCE UnboundedQueue WITH
  Producers <- Enqueuers, Nodes <- Completions, MaxChain <- 1

queueVars == <<back, front, link, oldBack, chainFirst, cpc, first, nextItem, last,
               count, pending>>
bvars == <<ready, signal, tpc, completion, epc, done, queueVars>>

BundleTypeOK ==
  /\ queue!QueueTypeOK
  /\ ready \in BOOLEAN /\ signal \in BOOLEAN
  /\ tpc \in {"start", "pop", "popping", "generate", "failed", "collect", "wait"}
  /\ completion \in Completions \cup {None}
  /\ tpc \in {"generate", "failed"} => completion \in Completions
  /\ epc \in [Enqueuers -> {"out", "push", "wake"}]
  /\ done \subseteq Completions

BundleInit ==
  /\ ready = FALSE
  /\ signal = FALSE
  /\ tpc = "start"
  /\ completion = None
  /\ epc = [p \in Enqueuers |-> "out"]
  /\ done = {}
  /\ queue!QueueInit

-----------------------------------------------------------------------------
(* enqueue() *)

\* singleton::get() returns only after spawn() saw ready_event.  A completion
\* is enqueued once.
Enqueue(p) ==
  /\ ready
  /\ epc[p] = "out"
  /\ \E n \in Completions \ done : n # completion /\ queue!PushSwap(p, <<n>>)
  /\ epc' = [epc EXCEPT ![p] = "push"]
  /\ UNCHANGED <<ready, signal, tpc, completion, done>>

EnqueueLink(p) ==
  /\ epc[p] = "push"
  /\ queue!PushLink(p)
  /\ epc' = [epc EXCEPT ![p] = "wake"]
  /\ UNCHANGED <<ready, signal, tpc, completion, done>>

\* Mutant: a wake-up reaches only a thread that is already waiting.
WakeIfWaiting(p) ==
  /\ epc[p] = "wake"
  /\ signal' = (signal \/ tpc = "wait")
  /\ epc' = [epc EXCEPT ![p] = "out"]
  /\ UNCHANGED <<ready, tpc, completion, done, queueVars>>

EnqueueWake(p) ==
  /\ epc[p] = "wake"
  /\ signal' = TRUE
  /\ epc' = [epc EXCEPT ![p] = "out"]
  /\ UNCHANGED <<ready, tpc, completion, done, queueVars>>

-----------------------------------------------------------------------------
(* thread_main() *)

\* The waker is created before ready_event is set.
Start ==
  /\ tpc = "start"
  /\ ready' = TRUE
  /\ tpc' = "pop"
  /\ UNCHANGED <<signal, completion, epc, done, queueVars>>

PopBegin ==
  /\ tpc = "pop"
  /\ queue!PopFirst
  /\ tpc' = "popping"
  /\ UNCHANGED <<ready, signal, completion, epc, done>>

\* pop() until it returns; what it returns is the completion to work on.
PopGoesOn ==
  /\ tpc = "popping"
  /\ \/ queue!PopNext \/ queue!PopCas \/ queue!PopBack \/ queue!PopSpin \/ queue!PopStore
  /\ IF cpc' = "idle"
       THEN tpc' = "generate" /\ completion' = first
       ELSE UNCHANGED <<tpc, completion>>
  /\ UNCHANGED <<ready, signal, epc, done>>

\* The CAS of pop() fails.
PopRetries ==
  /\ tpc = "popping"
  /\ queue!PopRetry
  /\ tpc' = IF cpc' = "idle" THEN "collect" ELSE "popping"
  /\ UNCHANGED <<ready, signal, completion, epc, done>>

\* generate_in_new_thread() completes the build itself when it succeeds; when it
\* cannot configure a transpiler or the run fails it returns an error.
Generate ==
  /\ tpc = "generate"
  /\ \/ done' = done \cup {completion} /\ completion' = None /\ tpc' = "pop"
     \/ tpc' = "failed" /\ UNCHANGED <<done, completion>>
  /\ UNCHANGED <<ready, signal, epc, queueVars>>

\* Mutant: thread_main() ignores the error, and nobody completes the build.
IgnoreError ==
  /\ tpc = "failed"
  /\ completion' = None
  /\ tpc' = "pop"
  /\ UNCHANGED <<ready, signal, epc, done, queueVars>>

\* thread_main() completes the build that failed.
CompleteFailed ==
  /\ tpc = "failed"
  /\ done' = done \cup {completion}
  /\ completion' = None
  /\ tpc' = "pop"
  /\ UNCHANGED <<ready, signal, epc, queueVars>>

\* Mutant: a null completion is not noticed.
PopNothingUnchecked ==
  /\ tpc = "pop"
  /\ queue!PopEmpty
  /\ tpc' = "generate"
  /\ UNCHANGED <<ready, signal, completion, epc, done>>

\* Nothing left.
PopNothing ==
  /\ tpc = "pop"
  /\ queue!PopEmpty
  /\ tpc' = "collect"
  /\ UNCHANGED <<ready, signal, completion, epc, done>>

\* The generation is counted and the allocator collects, then the thread waits.
Collect ==
  /\ tpc = "collect"
  /\ tpc' = "wait"
  /\ UNCHANGED <<ready, signal, completion, epc, done, queueVars>>

\* read() of the eventfd blocks while its counter is zero and resets it.
Wait ==
  /\ tpc = "wait"
  /\ signal
  /\ signal' = FALSE
  /\ tpc' = "pop"
  /\ UNCHANGED <<ready, completion, epc, done, queueVars>>

\* read() is interrupted: its result is discarded.
WaitInterrupted ==
  /\ tpc = "wait"
  /\ tpc' = "pop"
  /\ UNCHANGED <<ready, signal, completion, epc, done, queueVars>>

-----------------------------------------------------------------------------
ThreadStep ==
  Start \/ PopBegin \/ PopGoesOn \/ Generate \/ CompleteFailed \/ PopNothing \/ Collect
  \/ Wait

BundleNext ==
  \/ \E p \in Enqueuers : Enqueue(p) \/ EnqueueLink(p) \/ EnqueueWake(p)
  \/ ThreadStep \/ PopRetries \/ WaitInterrupted

\* Threads keep running; nobody has to call enqueue(), and read() does not
\* have to be interrupted.  A CAS does not fail for ever.
BundleFairness ==
  /\ WF_bvars(ThreadStep)
  /\ SF_bvars(queue!PopCas /\ PopGoesOn)
  /\ \A p \in Enqueuers : WF_bvars(EnqueueLink(p) \/ EnqueueWake(p))

BundleSpec == BundleInit /\ [][BundleNext]_bvars /\ BundleFairness

-----------------------------------------------------------------------------
(* Properties *)

(* The thread never waits while a completion whose enqueue() has returned  *)
(* sits in the queue, unless the waker is signalled or some enqueue() that *)
(* has not returned will signal it.                                        *)
NoLostWakeup ==
  tpc = "wait" /\ pending # <<>> =>
    signal \/ \E p \in Enqueuers : epc[p] # "out"

(* Every completion that is enqueued is completed, with a result or with   *)
(* an error: Bun.build() never hangs in the queue.                         *)
EveryBuildCompletes ==
  \A n \in Completions : n \in queue!Queued ~> n \in done

=============================================================================
