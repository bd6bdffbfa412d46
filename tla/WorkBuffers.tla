---------------------------- MODULE WorkBuffers ----------------------------
(***************************************************************************)
(* What the run buffers of src/threading/ThreadPool.rs promise to the pool *)
(* and what ThreadPool builds on: each worker has a bag of at most         *)
(* CAPACITY nodes, which it fills and empties itself and from which others *)
(* take up to half at a time, each node for one of them.                   *)
(***************************************************************************)
EXTENDS Integers, FiniteSets

CONSTANTS Threads, Nodes, CAPACITY

VARIABLES
  bufs,  \* the nodes that are visible in each buffer
  hand,  \* nodes that a worker took and has not yet published or returned
  gone   \* nodes that left: returned to the caller, or overflowed

InUse == gone \cup UNION {bufs[t] \cup hand[t] : t \in Threads}

BuffersInit ==
  /\ bufs = [t \in Threads |-> {}]
  /\ hand = [t \in Threads |-> {}]
  /\ gone = {}

\* push() and consume() come with nodes that nobody else has.
Bring(t) ==
  /\ hand[t] = {}
  /\ \E S \in SUBSET (Nodes \ InUse) : hand' = [hand EXCEPT ![t] = S]
  /\ UNCHANGED <<bufs, gone>>

\* push() makes nodes visible, as many as there is room for.
Publish(t) ==
  \E S \in SUBSET hand[t] :
    /\ S # {} /\ Cardinality(bufs[t] \cup S) <= CAPACITY
    /\ bufs' = [bufs EXCEPT ![t] = @ \cup S]
    /\ hand' = [hand EXCEPT ![t] = @ \ S]
    /\ UNCHANGED gone

\* A full buffer: half of it leaves, with all that was to be pushed.
Overflow(t) ==
  /\ Cardinality(bufs[t]) = CAPACITY
  /\ \E S \in SUBSET bufs[t] :
       /\ Cardinality(S) = CAPACITY \div 2
       /\ bufs' = [bufs EXCEPT ![t] = @ \ S]
       /\ gone' = gone \cup S \cup hand[t]
  /\ hand' = [hand EXCEPT ![t] = {}]

Pop(t) ==
  \E n \in bufs[t] :
    /\ bufs' = [bufs EXCEPT ![t] = @ \ {n}]
    /\ gone' = gone \cup {n}
    /\ UNCHANGED hand

\* At most half of a buffer, rounded up.
Steal(t, v) ==
  /\ bufs[t] = {} /\ hand[t] = {}
  /\ \E S \in SUBSET bufs[v] :
       /\ S # {} /\ Cardinality(S) <= Cardinality(bufs[v]) - Cardinality(bufs[v]) \div 2
       /\ bufs' = [bufs EXCEPT ![v] = @ \ S]
       /\ hand' = [hand EXCEPT ![t] = S]
  /\ UNCHANGED gone

\* consume() and steal() return one node and make the others visible.
Return(t) ==
  \E n \in hand[t] :
    /\ bufs' = [bufs EXCEPT ![t] = @ \cup (hand[t] \ {n})]
    /\ hand' = [hand EXCEPT ![t] = {}]
    /\ gone' = gone \cup {n}

BuffersNext ==
  \E t \in Threads :
    \/ Bring(t) \/ Publish(t) \/ Overflow(t) \/ Pop(t) \/ Return(t)
    \/ \E v \in Threads \ {t} : Steal(t, v)

BuffersSpec == BuffersInit /\ [][BuffersNext]_<<bufs, hand, gone>>
=============================================================================
