--------------------------- MODULE UnboundedQueue ---------------------------
(***************************************************************************)
(* The intrusive lock-free queue of src/threading/unbounded_queue.rs: many *)
(* producers push nodes or chains of nodes, one consumer pops them singly  *)
(* or as a batch ("lock-free MPSC", src/bundler/BundleThread.rs).          *)
(*                                                                         *)
(* A step is one atomic access of `back`, of `front` or of a link.  A node *)
(* that the consumer has got back belongs to the program again, which may  *)
(* push it again or free it.                                               *)
(***************************************************************************)
EXTENDS Sequences, Integers

CONSTANTS
  Producers,
  Nodes,
  None,      \* a null pointer
  MaxChain   \* bound: the longest chain passed to push_batch()

ASSUME QueueAssumption == None \notin Nodes /\ MaxChain \in Nat \ {0}

VARIABLES
  back, front, \* UnboundedQueue.back, UnboundedQueue.front
  link,        \* the intrusive next pointer of each node
  oldBack,     \* push: old_back, while a producer still has to link its chain
  chainFirst,  \* push: first; None outside of push
  cpc,         \* where the consumer is
  first,       \* pop: first; pop_batch: the front of the batch
  nextItem,    \* pop: next_ptr or new_first; pop_batch: next_item
  last,        \* pop_batch: last
  count,       \* Batch.count
  pending      \* history: nodes passed to push and not yet returned, in order

qvars == <<back, front, link, oldBack, chainFirst, cpc, first, nextItem, last,
           count, pending>>
producerVars == <<oldBack, chainFirst>>

\* What the queue promises.
fifo == INSTANCE Fifo WITH items <- pending

Ptr == Nodes \cup {None}

Queued == {pending[i] : i \in DOMAIN pending}

QueueTypeOK ==
  /\ back \in Ptr /\ front \in Ptr
  /\ link \in [Nodes -> Ptr]
  /\ oldBack \in [Producers -> Ptr]
  /\ chainFirst \in [Producers -> Ptr]
  /\ cpc \in {"idle", "popNext", "popCas", "popBack", "popSpin", "popStore",
              "batchBack", "batchWalk", "iterate"}
  /\ first \in Ptr /\ nextItem \in Ptr /\ last \in Ptr
  /\ cpc # "idle" => first \in Nodes
  /\ cpc \in {"batchWalk", "popStore"} => nextItem \in Nodes
  /\ count \in Nat /\ (cpc = "iterate" => count > 0)
  /\ pending \in Seq(Nodes)

QueueInit ==
  /\ back = None /\ front = None
  /\ link = [n \in Nodes |-> None]
  /\ oldBack = [p \in Producers |-> None]
  /\ chainFirst = [p \in Producers |-> None]
  /\ cpc = "idle"
  /\ first = None /\ nextItem = None /\ last = None
  /\ count = 0
  /\ pending = <<>>

-----------------------------------------------------------------------------
(* push() and push_batch() *)

\* The links of a chain, whose last node gets null.
Linked(chain) ==
  [n \in Nodes |->
     IF \E i \in 1..Len(chain) - 1 : chain[i] = n
       THEN chain[CHOOSE j \in 2..Len(chain) : chain[j - 1] = n]
       ELSE IF n = chain[Len(chain)] THEN None ELSE link[n]]

\* The caller owns the chain; back.swap(last) makes it the queue's.
PushSwap(p, chain) ==
  /\ chainFirst[p] = None
  /\ \A i \in DOMAIN chain : chain[i] \notin Queued
  /\ link' = Linked(chain)
  /\ oldBack' = [oldBack EXCEPT ![p] = back]
  /\ chainFirst' = [chainFirst EXCEPT ![p] = chain[1]]
  /\ back' = chain[Len(chain)]
  /\ pending' = pending \o chain
  /\ UNCHANGED <<front, cpc, first, nextItem, last, count>>

\* Mutant: a chain pushed behind another one is not linked to it.
PushForgetsLink(p) ==
  /\ chainFirst[p] # None
  /\ front' = IF oldBack[p] # None THEN front ELSE chainFirst[p]
  /\ oldBack' = [oldBack EXCEPT ![p] = None]
  /\ chainFirst' = [chainFirst EXCEPT ![p] = None]
  /\ UNCHANGED <<back, link, cpc, first, nextItem, last, count, pending>>

\* Only then is the chain linked to what was there before.
PushLink(p) ==
  /\ chainFirst[p] # None
  /\ IF oldBack[p] # None
       THEN link' = [link EXCEPT ![oldBack[p]] = chainFirst[p]] /\ UNCHANGED front
       ELSE front' = chainFirst[p] /\ UNCHANGED link
  /\ oldBack' = [oldBack EXCEPT ![p] = None]
  /\ chainFirst' = [chainFirst EXCEPT ![p] = None]
  /\ UNCHANGED <<back, cpc, first, nextItem, last, count, pending>>

-----------------------------------------------------------------------------
(* pop() *)

\* The node goes back to the program.  One that is not in the queue, and comes
\* out a second time, leaves a history that no FIFO queue has.
Without(n) ==
  IF n \in Queued
    THEN LET i == CHOOSE j \in DOMAIN pending : pending[j] = n
         IN SubSeq(pending, 1, i - 1) \o SubSeq(pending, i + 1, Len(pending))
    ELSE <<None>>

ReturnFirst ==
  /\ pending' = Without(first)
  /\ cpc' = "idle"
  /\ first' = None
  /\ nextItem' = None

\* front is null: pop() returns null, pop_batch() an empty batch.
PopEmpty ==
  /\ cpc = "idle"
  /\ front = None
  /\ UNCHANGED qvars

PopFirst ==
  /\ cpc = "idle"
  /\ front # None
  /\ first' = front
  /\ cpc' = "popNext"
  /\ UNCHANGED <<back, front, link, producerVars, nextItem, last, count, pending>>

PopNext ==
  /\ cpc = "popNext"
  /\ nextItem' = link[first]
  /\ cpc' = "popCas"
  /\ UNCHANGED <<back, front, link, producerVars, first, last, count, pending>>

\* Mutant: front still leads to the node that is returned.
PopKeepsFront ==
  /\ cpc = "popCas"
  /\ front = first
  /\ IF nextItem # None
       THEN ReturnFirst /\ UNCHANGED front
       ELSE cpc' = "popBack" /\ front' = nextItem /\ UNCHANGED <<first, nextItem, pending>>
  /\ UNCHANGED <<back, link, producerVars, last, count>>

\* The CAS of front.  A null link: first may be the only node.
PopCas ==
  /\ cpc = "popCas"
  /\ front = first
  /\ front' = nextItem
  /\ IF nextItem # None
       THEN ReturnFirst
       ELSE cpc' = "popBack" /\ UNCHANGED <<first, nextItem, pending>>
  /\ UNCHANGED <<back, link, producerVars, last, count>>

\* The CAS fails, which compare_exchange_weak may do for no reason: start over
\* with the value that is in front now.
PopRetry ==
  /\ cpc = "popCas"
  /\ first' = front
  /\ nextItem' = None
  /\ cpc' = IF front = None THEN "idle" ELSE "popNext"
  /\ UNCHANGED <<back, front, link, producerVars, last, count, pending>>

\* Mutant: a plain store instead of the CAS.
PopClearsBack ==
  /\ cpc = "popBack"
  /\ back' = None /\ ReturnFirst
  /\ UNCHANGED <<front, link, producerVars, last, count>>

\* Mutant: a failed CAS is ignored.
PopIgnoresBack ==
  /\ cpc = "popBack"
  /\ back' = IF back = first THEN None ELSE back
  /\ ReturnFirst
  /\ UNCHANGED <<front, link, producerVars, last, count>>

\* The CAS of back, from first to null.
PopBack ==
  /\ cpc = "popBack"
  /\ IF back = first
       THEN back' = None /\ ReturnFirst
       ELSE cpc' = "popSpin" /\ UNCHANGED <<back, first, nextItem, pending>>
  /\ UNCHANGED <<front, link, producerVars, last, count>>

\* A push came in between: wait until it has set the link of first.
PopSpin ==
  /\ cpc = "popSpin"
  /\ link[first] # None
  /\ nextItem' = link[first]
  /\ cpc' = "popStore"
  /\ UNCHANGED <<back, front, link, producerVars, first, last, count, pending>>

\* Mutant: front is not restored.
PopForgetsFront ==
  /\ cpc = "popStore"
  /\ ReturnFirst
  /\ UNCHANGED <<back, front, link, producerVars, last, count>>

PopStore ==
  /\ cpc = "popStore"
  /\ front' = nextItem
  /\ ReturnFirst
  /\ UNCHANGED <<back, link, producerVars, last, count>>

-----------------------------------------------------------------------------
(* pop_batch() and BatchIterator::next() *)

\* Mutant: the first node of a batch is not counted.
BatchSkipsFirst ==
  /\ cpc = "idle"
  /\ front # None
  /\ first' = front
  /\ front' = None
  /\ count' = 0
  /\ cpc' = "batchBack"
  /\ UNCHANGED <<back, link, producerVars, nextItem, last, pending>>

BatchFront ==
  /\ cpc = "idle"
  /\ front # None
  /\ first' = front
  /\ front' = None
  /\ count' = 1
  /\ cpc' = "batchBack"
  /\ UNCHANGED <<back, link, producerVars, nextItem, last, pending>>

BatchBack ==
  /\ cpc = "batchBack"
  /\ last' = back
  /\ back' = None
  /\ nextItem' = first
  /\ cpc' = "batchWalk"
  /\ UNCHANGED <<front, link, producerVars, first, count, pending>>

\* Count the nodes up to last, waiting for links that are not yet set.
BatchWalk ==
  /\ cpc = "batchWalk"
  /\ IF nextItem = last
       THEN cpc' = "iterate" /\ UNCHANGED <<nextItem, count>>
       ELSE /\ link[nextItem] # None
            /\ nextItem' = link[nextItem]
            /\ count' = count + 1
            /\ UNCHANGED cpc
  /\ UNCHANGED <<back, front, link, producerVars, first, last, pending>>

\* The iterator has read the link before the node is handed out.
IteratorNext ==
  /\ cpc = "iterate"
  /\ pending' = Without(first)
  /\ count' = count - 1
  /\ first' = IF count = 1 THEN None ELSE link[first]
  /\ nextItem' = None
  /\ last' = IF count = 1 THEN None ELSE last
  /\ cpc' = IF count = 1 THEN "idle" ELSE "iterate"
  /\ UNCHANGED <<back, front, link, producerVars>>

-----------------------------------------------------------------------------
ConsumerStep ==
  \/ PopNext \/ PopCas \/ PopBack \/ PopSpin \/ PopStore
  \/ BatchBack \/ BatchWalk \/ IteratorNext

QueueNext ==
  \/ \E p \in Producers : (\E chain \in fifo!Chains : PushSwap(p, chain)) \/ PushLink(p)
  \/ PopEmpty \/ PopFirst \/ PopRetry \/ BatchFront
  \/ ConsumerStep

\* Producers finish a push and the consumer finishes a pop; nobody has to
\* start one.  A CAS does not fail for ever.
QueueFairness ==
  /\ WF_qvars(ConsumerStep)
  /\ SF_qvars(PopCas)
  /\ \A p \in Producers : WF_qvars(PushLink(p))

QueueSpec == QueueInit /\ [][QueueNext]_qvars /\ QueueFairness

-----------------------------------------------------------------------------
(* Properties *)

Pushing == {p \in Producers : chainFirst[p] # None}

(* Chains go in and nodes come out as in a FIFO queue: whatever the        *)
(* interleaving of swaps, links and pops, none is lost, returned twice or  *)
(* overtaken.  A push takes effect at its swap, a pop when it returns.     *)
IsFifo == fifo!FifoSpec

(* push_batch() writes the link of old_back after its swap: "still live    *)
(* (its `next` is null and no consumer has popped past it yet)".           *)
OldBackLive ==
  \A p \in Pushing : oldBack[p] # None =>
    /\ oldBack[p] \in Queued
    /\ link[oldBack[p]] = None
    /\ \A r \in Pushing : oldBack[r] = oldBack[p] => r = p

(* pop() returns null although nodes are pending only while the push of    *)
(* the oldest one has not returned: whoever pushes, and wakes the consumer *)
(* after that, is not overlooked.                                          *)
PopSeesReturnedPush ==
  cpc = "idle" /\ front = None /\ pending # <<>> =>
    \E p \in Pushing : chainFirst[p] = pending[1] /\ oldBack[p] = None

(* is_empty() looks at back: when it says true, every node that was pushed *)
(* is in the consumer's batch or has been returned.                        *)
IsEmptyHonest ==
  back = None /\ pending # <<>> =>
    cpc \in {"batchWalk", "iterate"} /\ last = pending[Len(pending)]

(* No pop() or pop_batch() spins for ever on a link: the push that it      *)
(* waits for needs nothing from the consumer.                              *)
PopReturns == cpc # "idle" ~> cpc = "idle"

=============================================================================
