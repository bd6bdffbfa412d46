----------------------------- MODULE RunBuffer -----------------------------
(***************************************************************************)
(* `Buffer` of src/threading/ThreadPool.rs: the bounded single-producer,   *)
(* multi-consumer ring of each worker.  Its owner pushes, pops, overflows  *)
(* and consumes from a queue; other workers steal from it.                 *)
(*                                                                         *)
(* A step is one access of a head, a tail or an array slot.  Indices wrap  *)
(* at Modulus (2^32 in the code) and a slot is the index modulo CAPACITY.  *)
(***************************************************************************)
EXTENDS Integers, Sequences, FiniteSets

CONSTANTS
  Threads,
  CAPACITY,  \* 256 in the code
  Modulus,   \* of Index; 2^32 in the code
  Start,     \* where the indices are when we start to look at the buffers
  MaxNodes,  \* bound: how many nodes are pushed or consumed in all
  MaxList,   \* bound: the longest list passed to push()
  None

\* Index::MAX >= CAPACITY, and both are powers of two.
ASSUME RingAssumption ==
  /\ CAPACITY \in Nat \ {0, 1}
  /\ Modulus \in Nat /\ CAPACITY < Modulus /\ Modulus % CAPACITY = 0
  /\ MaxNodes \in Nat
  /\ MaxList \in Nat \ {0}
  /\ Start \in 0..Modulus - 1

Nodes == 1..MaxNodes

VARIABLES
  head, tail, array, \* the fields of each worker's Buffer
  pc,                \* where each worker is
  h,                 \* its local head, or buffer_head in steal()
  n,                 \* push(), consume(): slots written beyond tail; steal(): steal_size
  copied,            \* steal(): how many nodes have been copied
  victim,            \* steal(): whose buffer
  list,              \* nodes still to be written
  fresh,             \* the next node that nobody has used
  gone               \* history: nodes returned or overflowed

rvars == <<head, tail, array, pc, h, n, copied, victim, list, fresh, gone>>

\* Mutant: an addition that does not wrap.
PlusUnwrapped(i, k) == i + k

Plus(i, k)  == (i + k) % Modulus             \* wrapping_add

Minus(i, j) == (i - j) % Modulus             \* wrapping_sub

Slot(t, i)  == array[t][i % CAPACITY]
Window(t, from, k) == {Slot(t, Plus(from, j)) : j \in 0..k - 1}

RingTypeOK ==
  /\ head \in [Threads -> 0..Modulus - 1]
  /\ tail \in [Threads -> 0..Modulus - 1]
  /\ array \in [Threads -> [0..CAPACITY - 1 -> Nodes \cup {None}]]
  /\ pc \in [Threads -> {"idle", "push", "pushHead", "pop", "consume", "stealHead",
                         "stealTail", "copy", "publish"}]
  /\ h \in [Threads -> 0..Modulus - 1]
  /\ n \in [Threads -> 0..CAPACITY]
  /\ copied \in [Threads -> 0..CAPACITY]
  /\ victim \in [Threads -> Threads \cup {None}]
  /\ list \in [Threads -> Seq(Nodes)]
  /\ fresh \in 1..MaxNodes + 1
  /\ gone \subseteq Nodes

RingInit ==
  /\ head = [t \in Threads |-> Start]
  /\ tail = [t \in Threads |-> Start]
  /\ array = [t \in Threads |-> [i \in 0..CAPACITY - 1 |-> None]]
  /\ pc = [t \in Threads |-> "idle"]
  /\ h = [t \in Threads |-> Start]
  /\ n = [t \in Threads |-> 0]
  /\ copied = [t \in Threads |-> 0]
  /\ victim = [t \in Threads |-> None]
  /\ list = [t \in Threads |-> <<>>]
  /\ fresh = 1
  /\ gone = {}

Go(t, label) == pc' = [pc EXCEPT ![t] = label]

\* The nodes that push() or consume() is called with.
Bring(t, k) ==
  /\ fresh + k <= MaxNodes + 1
  /\ list' = [list EXCEPT ![t] = [i \in 1..k |-> fresh + i - 1]]
  /\ fresh' = fresh + k

\* Back to the caller; dead locals keep no values.
Done(t) ==
  /\ Go(t, "idle")
  /\ h' = [h EXCEPT ![t] = Start]
  /\ n' = [n EXCEPT ![t] = 0]
  /\ copied' = [copied EXCEPT ![t] = 0]
  /\ victim' = [victim EXCEPT ![t] = None]
  /\ list' = [list EXCEPT ![t] = <<>>]

\* Bound: while a thief holds a head that it has loaded, that head does not move
\* by a whole turn of the indices.  The code takes this for granted.
NoLap(v, k) ==
  \A u \in Threads :
    victim[u] = v /\ pc[u] \in {"stealTail", "copy"} => Minus(head[v], h[u]) + k < Modulus

-----------------------------------------------------------------------------
(* push() *)

Push(t, k) ==
  /\ pc[t] = "idle"
  /\ Bring(t, k)
  /\ h' = [h EXCEPT ![t] = head[t]]
  /\ Go(t, "push")
  /\ UNCHANGED <<head, tail, array, n, copied, victim, gone>>

\* size: what push() believes to be in the ring, slots it has written included.
Size(t) == Minus(tail[t], h[t]) + n[t]

\* Mutant: one slot more than there are.
PushSlotTooMany(t) ==
  /\ pc[t] = "push" /\ list[t] # <<>>
  /\ Size(t) <= CAPACITY /\ n[t] < CAPACITY
  /\ array' = [array EXCEPT ![t][Plus(tail[t], n[t]) % CAPACITY] = Head(list[t])]
  /\ n' = [n EXCEPT ![t] = @ + 1]
  /\ list' = [list EXCEPT ![t] = Tail(@)]
  /\ UNCHANGED <<head, tail, pc, h, copied, victim, fresh, gone>>

\* One round of the loop that fills the free slots.
PushSlot(t) ==
  /\ pc[t] = "push" /\ list[t] # <<>>
  /\ Size(t) < CAPACITY
  /\ array' = [array EXCEPT ![t][Plus(tail[t], n[t]) % CAPACITY] = Head(list[t])]
  /\ n' = [n EXCEPT ![t] = @ + 1]
  /\ list' = [list EXCEPT ![t] = Tail(@)]
  /\ UNCHANGED <<head, tail, pc, h, copied, victim, fresh, gone>>

\* The slots become visible.  If nodes are left over, look at head again.
PushTail(t) ==
  /\ pc[t] = "push"
  /\ n[t] > 0 /\ (list[t] = <<>> \/ Size(t) = CAPACITY)
  /\ tail' = [tail EXCEPT ![t] = Plus(@, n[t])]
  /\ IF list[t] = <<>>
       THEN Done(t)
       ELSE /\ Go(t, "pushHead")
            /\ n' = [n EXCEPT ![t] = 0]
            /\ UNCHANGED <<h, copied, victim, list>>
  /\ UNCHANGED <<head, array, fresh, gone>>

PushHead(t) ==
  /\ pc[t] = "pushHead"
  /\ h' = [h EXCEPT ![t] = head[t]]
  /\ Go(t, "push")
  /\ UNCHANGED <<head, tail, array, n, copied, victim, list, fresh, gone>>

Full(t) == pc[t] = "push" /\ n[t] = 0 /\ Size(t) = CAPACITY

\* Mutant: the migrated half is not taken out with a CAS.
MigrateBlindly(t) ==
  /\ Full(t)
  /\ head' = [head EXCEPT ![t] = Plus(h[t], CAPACITY \div 2)]
  /\ gone' = gone \cup Window(t, h[t], CAPACITY \div 2)
                  \cup {list[t][i] : i \in DOMAIN list[t]}
  /\ Done(t)
  /\ UNCHANGED <<tail, array, fresh>>

\* The buffer is full: the CAS of head takes half of it out, and it overflows
\* together with the list.
Migrate(t) ==
  /\ Full(t)
  /\ head[t] = h[t] /\ NoLap(t, CAPACITY \div 2)
  /\ head' = [head EXCEPT ![t] = Plus(h[t], CAPACITY \div 2)]
  /\ gone' = gone \cup Window(t, h[t], CAPACITY \div 2)
                  \cup {list[t][i] : i \in DOMAIN list[t]}
  /\ Done(t)
  /\ UNCHANGED <<tail, array, fresh>>

\* The CAS fails: somebody has stolen, there is room.
MigrateFails(t) ==
  /\ Full(t)
  /\ head[t] # h[t]
  /\ h' = [h EXCEPT ![t] = head[t]]
  /\ UNCHANGED <<head, tail, array, pc, n, copied, victim, list, fresh, gone>>

-----------------------------------------------------------------------------
(* pop() *)

Pop(t) ==
  /\ pc[t] = "idle"
  /\ tail[t] # head[t]
  /\ h' = [h EXCEPT ![t] = head[t]]
  /\ Go(t, "pop")
  /\ UNCHANGED <<head, tail, array, n, copied, victim, list, fresh, gone>>

PopCas(t) ==
  /\ pc[t] = "pop"
  /\ head[t] = h[t] /\ NoLap(t, 1)
  /\ head' = [head EXCEPT ![t] = Plus(h[t], 1)]
  /\ gone' = gone \cup {Slot(t, h[t])}
  /\ Done(t)
  /\ UNCHANGED <<tail, array, fresh>>

\* The CAS fails: try again, or return None because nothing is left.
PopFails(t) ==
  /\ pc[t] = "pop"
  /\ head[t] # h[t]
  /\ IF tail[t] = head[t]
       THEN Done(t)
       ELSE /\ h' = [h EXCEPT ![t] = head[t]]
            /\ UNCHANGED <<pc, n, copied, victim, list>>
  /\ UNCHANGED <<head, tail, array, fresh, gone>>

-----------------------------------------------------------------------------
(* consume(): called when pop() found the buffer empty *)

Consume(t, k) ==
  /\ pc[t] = "idle"
  /\ head[t] = tail[t]
  /\ Bring(t, k)
  /\ Go(t, "consume")
  /\ UNCHANGED <<head, tail, array, h, n, copied, victim, gone>>

ConsumeSlot(t) ==
  /\ pc[t] = "consume" /\ list[t] # <<>> /\ n[t] < CAPACITY
  /\ array' = [array EXCEPT ![t][Plus(tail[t], n[t]) % CAPACITY] = Head(list[t])]
  /\ n' = [n EXCEPT ![t] = @ + 1]
  /\ list' = [list EXCEPT ![t] = Tail(@)]
  /\ UNCHANGED <<head, tail, pc, h, copied, victim, fresh, gone>>

\* An extra node is returned, or else the last one that was written.
ConsumeTail(t) ==
  /\ pc[t] = "consume" /\ (list[t] = <<>> \/ n[t] = CAPACITY)
  /\ LET extra  == list[t] # <<>>
         pushed == IF extra THEN n[t] ELSE n[t] - 1
     IN  /\ tail' = [tail EXCEPT ![t] = Plus(@, pushed)]
         /\ gone' = gone \cup {IF extra THEN Head(list[t]) ELSE Slot(t, Plus(tail[t], pushed))}
  /\ Done(t)
  /\ UNCHANGED <<head, array, fresh>>

-----------------------------------------------------------------------------
(* steal(): called when the worker's own buffer is empty *)

Steal(t, v) ==
  /\ pc[t] = "idle"
  /\ head[t] = tail[t]
  /\ victim' = [victim EXCEPT ![t] = v]
  /\ h' = [h EXCEPT ![t] = head[v]]
  /\ Go(t, "stealTail")
  /\ UNCHANGED <<head, tail, array, n, copied, list, fresh, gone>>

\* A size above CAPACITY: tail moved a lot since head was loaded.
StealTail(t) ==
  /\ pc[t] = "stealTail"
  /\ LET size == Minus(tail[victim[t]], h[t])
     IN  \/ /\ size > CAPACITY
            /\ Go(t, "stealHead")
            /\ UNCHANGED <<h, n, copied, victim, list>>
         \/ /\ size = 0
            /\ Done(t)
         \/ /\ size \in 1..CAPACITY
            /\ n' = [n EXCEPT ![t] = size - size \div 2]
            /\ Go(t, "copy")
            /\ UNCHANGED <<h, copied, victim, list>>
  /\ UNCHANGED <<head, tail, array, fresh, gone>>

StealHead(t) ==
  /\ pc[t] = "stealHead"
  /\ h' = [h EXCEPT ![t] = head[victim[t]]]
  /\ Go(t, "stealTail")
  /\ UNCHANGED <<head, tail, array, n, copied, victim, list, fresh, gone>>

\* Copy a node that the owner may be overwriting.
StealCopy(t) ==
  /\ pc[t] = "copy" /\ copied[t] < n[t]
  /\ array' = [array EXCEPT ![t][Plus(tail[t], copied[t]) % CAPACITY] =
                 Slot(victim[t], Plus(h[t], copied[t]))]
  /\ copied' = [copied EXCEPT ![t] = @ + 1]
  /\ UNCHANGED <<head, tail, pc, h, n, victim, list, fresh, gone>>

\* The CAS of the victim's head commits the steal.
StealCas(t) ==
  /\ pc[t] = "copy" /\ copied[t] = n[t]
  /\ head[victim[t]] = h[t] /\ NoLap(victim[t], n[t])
  /\ head' = [head EXCEPT ![victim[t]] = Plus(h[t], n[t])]
  /\ Go(t, "publish")
  /\ UNCHANGED <<tail, array, h, n, copied, victim, list, fresh, gone>>

\* The CAS fails: start over.
StealFails(t) ==
  /\ pc[t] = "copy" /\ copied[t] = n[t]
  /\ head[victim[t]] # h[t]
  /\ Go(t, "stealHead")
  /\ n' = [n EXCEPT ![t] = 0]
  /\ copied' = [copied EXCEPT ![t] = 0]
  /\ UNCHANGED <<head, tail, array, h, victim, list, fresh, gone>>

\* The last stolen node is returned, the others become visible.
StealPublish(t) ==
  /\ pc[t] = "publish"
  /\ tail' = [tail EXCEPT ![t] = Plus(@, n[t] - 1)]
  /\ gone' = gone \cup {Slot(t, Plus(tail[t], n[t] - 1))}
  /\ Done(t)
  /\ UNCHANGED <<head, array, fresh>>

-----------------------------------------------------------------------------
RingStep(t) ==
  \/ \E k \in 1..MaxList : Push(t, k)
  \/ PushSlot(t) \/ PushTail(t) \/ PushHead(t) \/ Migrate(t) \/ MigrateFails(t)
  \/ Pop(t) \/ PopCas(t) \/ PopFails(t)
  \/ \E k \in 1..CAPACITY + 1 : Consume(t, k)
  \/ ConsumeSlot(t) \/ ConsumeTail(t)
  \/ \E v \in Threads \ {t} : Steal(t, v)
  \/ StealTail(t) \/ StealHead(t) \/ StealCopy(t) \/ StealCas(t) \/ StealFails(t)
  \/ StealPublish(t)

RingNext == \E t \in Threads : RingStep(t)

RingSpec == RingInit /\ [][RingNext]_rvars

-----------------------------------------------------------------------------
(* Properties *)

(* The debug_assert of every operation: a ring never holds more than       *)
(* CAPACITY nodes, also when its indices wrap, and a worker that steals or *)
(* consumes has an empty ring.                                             *)
RingSizes ==
  \A t \in Threads :
    /\ Minus(tail[t], head[t]) <= CAPACITY
    /\ pc[t] \in {"consume", "stealHead", "stealTail", "copy", "publish"} =>
         head[t] = tail[t]

Visible(t) == Window(t, head[t], Minus(tail[t], head[t]))

Held(t) ==
  {list[t][i] : i \in DOMAIN list[t]}
    \cup (IF pc[t] \in {"push", "consume", "publish"} THEN Window(t, tail[t], n[t]) ELSE {})

abstract == INSTANCE WorkBuffers WITH
  bufs <- [t \in Threads |-> Visible(t)],
  hand <- [t \in Threads |-> Held(t)]

(* The rings implement the buffers that the pool relies on: through every  *)
(* interleaving of slot writes, copies and CASes, a node that is stolen,   *)
(* popped or migrated was visible until then and is taken by one thread    *)
(* only, and no torn or overwritten copy is ever committed.                *)
ImplementsBuffers == abstract!BuffersSpec

=============================================================================
