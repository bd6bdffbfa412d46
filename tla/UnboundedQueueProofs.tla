------------------------ MODULE UnboundedQueueProofs ------------------------
(* The lock-free queue, for any number of producers, nodes and chain lengths:
   it is a FIFO queue, and its safety invariants hold. *)
EXTENDS UnboundedQueue, SequenceTheorems, TLAPS

-----------------------------------------------------------------------------
(* The shape of the queue, which the properties above follow from.  The     *)
(* first k nodes are a batch that was cut off behind `last`; the others are *)
(* the queue proper.                                                        *)

Distinct == \A i, j \in DOMAIN pending : pending[i] = pending[j] => i = j

\* The push of p is about to link the i-th node to the next.
Joins(p, i) ==
  /\ p \in Pushing
  /\ oldBack[p] = pending[i] /\ chainFirst[p] = pending[i + 1]

\* A node leads to the next one, or a push that is under way will see to it.
LinksOK(k) ==
  \A i \in 1..Len(pending) :
    IF i = k \/ i = Len(pending)
      THEN link[pending[i]] = None
      ELSE \/ link[pending[i]] = pending[i + 1]
           \/ link[pending[i]] = None /\ \E p \in Producers : Joins(p, i)

\* Every push under way has its place, which it shares with no other: in front
\* of the queue proper, or behind a node whose link is null.
PushesOK(k) ==
  /\ \A p \in Producers : chainFirst[p] = None => oldBack[p] = None
  /\ \A p \in Pushing :
       \/ oldBack[p] = None /\ k < Len(pending) /\ chainFirst[p] = pending[k + 1]
          /\ front = None /\ cpc \in {"idle", "batchWalk", "iterate"}
       \/ \E i \in 1..Len(pending) - 1 :
            i # k /\ Joins(p, i) /\ link[pending[i]] = None
  /\ \A p, r \in Pushing : chainFirst[p] = chainFirst[r] => p = r

\* back and front, from outside and while the consumer has front in its hand.
EndsOK(k) ==
  /\ IF k = Len(pending) THEN back = None /\ front = None ELSE back = pending[Len(pending)]
  /\ cpc \in {"idle", "batchWalk", "iterate"} /\ k < Len(pending) =>
       \/ front = pending[k + 1]
       \/ \E p \in Pushing : oldBack[p] = None
  /\ cpc \in {"popNext", "popCas"} => front = first
  /\ cpc \in {"popBack", "popSpin", "popStore", "batchBack"} => front = None

ConsumerOK(k) ==
  /\ k > 0 <=> cpc \in {"batchWalk", "iterate"}
  /\ cpc # "idle" => pending # <<>> /\ first = pending[1]
  /\ cpc = "popCas" => nextItem \in {None, link[first]}
  /\ cpc \in {"popSpin", "popStore"} => Len(pending) > 1
  /\ cpc = "popStore" => nextItem = link[first]
  /\ cpc = "batchBack" => count = 1
  /\ k > 0 => /\ last = pending[k]
              /\ count \in 1..k
              /\ \A i \in 1..count - 1 : link[pending[i]] = pending[i + 1]
              /\ IF cpc = "batchWalk" THEN nextItem = pending[count] ELSE count = k

Shape(k) == LinksOK(k) /\ PushesOK(k) /\ EndsOK(k) /\ ConsumerOK(k)

QueueInv == QueueTypeOK /\ Distinct /\ \E k \in 0..Len(pending) : Shape(k)

-----------------------------------------------------------------------------
(* Sequences *)

LEMMA ChainFacts ==
  ASSUME NEW chain \in fifo!Chains
  PROVE  /\ chain \in Seq(Nodes)
         /\ Len(chain) \in Nat \ {0}
         /\ DOMAIN chain = 1..Len(chain)
         /\ \A i, j \in 1..Len(chain) : chain[i] = chain[j] => i = j
<1>1. PICK k \in 1..MaxChain : chain \in [1..k -> Nodes]
  BY DEF fifo!Chains
<1>2. k \in Nat /\ k > 0
  BY QueueAssumption
<1>3. chain \in Seq(Nodes) /\ Len(chain) = k
  BY <1>1, <1>2
<1>4. QED
  BY <1>1, <1>2, <1>3 DEF fifo!Chains

\* What Linked() makes of the links.
LEMMA LinkedChain ==
  ASSUME QueueTypeOK, NEW chain \in fifo!Chains
  PROVE  /\ Linked(chain) \in [Nodes -> Ptr]
         /\ \A i \in 1..Len(chain) - 1 : Linked(chain)[chain[i]] = chain[i + 1]
         /\ Linked(chain)[chain[Len(chain)]] = None
         /\ \A n \in Nodes : (\A i \in 1..Len(chain) : chain[i] # n) => Linked(chain)[n] = link[n]
<1> DEFINE L == Len(chain)
<1>1. /\ chain \in Seq(Nodes) /\ L \in Nat \ {0}
      /\ \A i \in 1..L : chain[i] \in Nodes
      /\ \A i, j \in 1..L : chain[i] = chain[j] => i = j
  BY ChainFacts
<1> HIDE DEF L
<1>2. ASSUME NEW i \in 1..L - 1
      PROVE  (CHOOSE j \in 2..L : chain[j - 1] = chain[i]) = i + 1
  <2>1. \A j \in 2..L : chain[j - 1] = chain[i] <=> j = i + 1
    BY <1>1
  <2>2. i + 1 \in 2..L
    BY <1>1
  <2>3. QED
    BY <2>1, <2>2
<1>3. \A i \in 1..L - 1 : Linked(chain)[chain[i]] = chain[i + 1]
  BY <1>1, <1>2 DEF Linked, L
<1>4. Linked(chain)[chain[L]] = None
  BY <1>1 DEF Linked, L
<1>5. \A n \in Nodes : (\A i \in 1..L : chain[i] # n) => Linked(chain)[n] = link[n]
  BY <1>1 DEF Linked, L
<1>6. ASSUME NEW n \in Nodes PROVE Linked(chain)[n] \in Ptr
  <2>1. CASE \E i \in 1..L - 1 : chain[i] = n
    BY <2>1, <1>1, <1>3 DEF Ptr
  <2>2. CASE n = chain[L]
    BY <2>2, <1>4 DEF Ptr
  <2>3. CASE \A i \in 1..L : chain[i] # n
    BY <2>3, <1>5 DEF QueueTypeOK
  <2>4. QED
    BY <2>1, <2>2, <2>3, <1>1
<1>7. Linked(chain) \in [Nodes -> Ptr]
  BY <1>6 DEF Linked
<1>8. QED
  BY <1>3, <1>4, <1>5, <1>7 DEF L

\* The node that leaves is the oldest.
LEMMA WithoutFirst ==
  ASSUME pending \in Seq(Nodes), Distinct, pending # <<>>
  PROVE  Without(pending[1]) = Tail(pending)
<1>1. Len(pending) \in Nat /\ Len(pending) > 0 /\ DOMAIN pending = 1..Len(pending)
  OBVIOUS
<1>2. pending[1] \in Queued
  BY <1>1 DEF Queued
<1> DEFINE pos == CHOOSE j \in DOMAIN pending : pending[j] = pending[1]
<1>3. Without(pending[1]) = SubSeq(pending, 1, pos - 1) \o SubSeq(pending, pos + 1, Len(pending))
  BY <1>2 DEF Without
<1>4. pos = 1
  BY <1>1 DEF Distinct
<1> HIDE DEF pos
<1>5. SubSeq(pending, 1, 0) = <<>>
  BY SubSeqEmpty
<1>6. SubSeq(pending, 2, Len(pending)) = Tail(pending)
  BY TailIsSubSeq
<1>7. Tail(pending) \in Seq(Nodes)
  BY HeadTailProperties
<1>8. Without(pending[1]) = <<>> \o Tail(pending)
  BY <1>3, <1>4, <1>5, <1>6
<1>9. QED
  BY <1>7, <1>8, ConcatEmptySeq

-----------------------------------------------------------------------------
(* The invariant is inductive *)

LEMMA InvFacts ==
  ASSUME QueueInv
  PROVE  /\ None \notin Nodes
         /\ pending \in Seq(Nodes) /\ Len(pending) \in Nat
         /\ \A i \in 1..Len(pending) : pending[i] \in Nodes
         /\ \A i, j \in 1..Len(pending) : pending[i] = pending[j] => i = j
         /\ back \in Ptr /\ front \in Ptr /\ link \in [Nodes -> Ptr]
         /\ oldBack \in [Producers -> Ptr] /\ chainFirst \in [Producers -> Ptr]
         /\ \A p \in Pushing : p \in Producers /\ chainFirst[p] \in Nodes
BY QueueAssumption DEF QueueInv, QueueTypeOK, Distinct, Pushing, Ptr

LEMMA InitInv == QueueInit => QueueInv
<1> SUFFICES ASSUME QueueInit PROVE QueueInv
  OBVIOUS
<1>1. QueueTypeOK /\ Distinct
  BY DEF QueueInit, QueueTypeOK, Ptr, Distinct
<1>2. Len(pending) = 0
  BY DEF QueueInit
<1>3. Shape(0)
  BY <1>2 DEF QueueInit, Shape, LinksOK, PushesOK, EndsOK, ConsumerOK, Pushing
<1>4. QED
  BY <1>1, <1>2, <1>3 DEF QueueInv

\* The swap of push_batch(): the chain comes behind the last node.
LEMMA PushSwapInv ==
  ASSUME QueueInv, NEW p \in Producers, NEW chain \in fifo!Chains, PushSwap(p, chain)
  PROVE  QueueInv'
<1> DEFINE L == Len(pending)
           M == Len(chain)
<1>1. /\ chain \in Seq(Nodes) /\ M \in Nat /\ M > 0 /\ L \in Nat
      /\ \A i \in 1..M : chain[i] \in Nodes
      /\ \A i \in 1..L : pending[i] \in Nodes
      /\ \A i, j \in 1..M : chain[i] = chain[j] => i = j
      /\ \A i, j \in 1..L : pending[i] = pending[j] => i = j
      /\ \A i \in 1..M, j \in 1..L : chain[i] # pending[j]
  BY ChainFacts DEF QueueInv, QueueTypeOK, Distinct, PushSwap, Queued
<1>2. /\ pending' \in Seq(Nodes) /\ Len(pending') = L + M
      /\ \A i \in 1..L : pending'[i] = pending[i]
      /\ \A j \in 1..M : pending'[L + j] = chain[j]
  BY <1>1 DEF PushSwap, QueueInv, QueueTypeOK
<1>3. /\ link' \in [Nodes -> Ptr]
      /\ \A i \in 1..M - 1 : link'[chain[i]] = chain[i + 1]
      /\ link'[chain[M]] = None
      /\ \A i \in 1..L : link'[pending[i]] = link[pending[i]]
  <2>1. link' = Linked(chain)
    BY DEF PushSwap
  <2>2. /\ Linked(chain) \in [Nodes -> Ptr]
        /\ \A i \in 1..M - 1 : Linked(chain)[chain[i]] = chain[i + 1]
        /\ Linked(chain)[chain[M]] = None
        /\ \A n \in Nodes : (\A i \in 1..M : chain[i] # n) => Linked(chain)[n] = link[n]
    BY LinkedChain DEF QueueInv
  <2>3. \A i \in 1..L : Linked(chain)[pending[i]] = link[pending[i]]
    BY <2>2, <1>1
  <2>4. QED
    BY <2>1, <2>2, <2>3
<1>4. PICK k \in 0..L : Shape(k)
  BY DEF QueueInv
<1>5. /\ None \notin Nodes
      /\ back \in Ptr /\ oldBack \in [Producers -> Ptr] /\ chainFirst \in [Producers -> Ptr]
      /\ chainFirst[p] = None
  BY QueueAssumption DEF QueueInv, QueueTypeOK, PushSwap
<1>6. /\ oldBack' = [oldBack EXCEPT ![p] = back]
      /\ chainFirst' = [chainFirst EXCEPT ![p] = chain[1]]
      /\ back' = chain[M]
      /\ UNCHANGED <<front, cpc, first, nextItem, last, count>>
  BY DEF PushSwap
<1> HIDE DEF L, M
<1>7. QueueTypeOK'
  BY <1>1, <1>2, <1>3, <1>5, <1>6 DEF QueueTypeOK, QueueInv, Ptr
<1>8. Distinct'
  <2> SUFFICES ASSUME NEW i \in 1..L + M, NEW j \in 1..L + M, pending'[i] = pending'[j]
               PROVE  i = j
    BY <1>2 DEF Distinct
  <2>1. (i \in 1..L \/ i - L \in 1..M) /\ (j \in 1..L \/ j - L \in 1..M)
    BY <1>1
  <2>2. /\ i - L \in 1..M => pending'[i] = chain[i - L]
        /\ j - L \in 1..M => pending'[j] = chain[j - L]
    BY <1>1, <1>2
  <2>3. QED
    BY <2>1, <2>2, <1>1, <1>2
<1>9. IF k = L THEN back = None ELSE back = pending[L]
  BY <1>4 DEF Shape, EndsOK, L
<1>l. \A i \in 1..L :
        IF i = k \/ i = L
          THEN link[pending[i]] = None
          ELSE \/ link[pending[i]] = pending[i + 1]
               \/ link[pending[i]] = None /\ \E r \in Producers : Joins(r, i)
  BY <1>4 DEF Shape, LinksOK, L
<1>10. Pushing' = Pushing \cup {p}
  BY <1>1, <1>5, <1>6 DEF Pushing
<1>11. LinksOK(k)'
  <2> SUFFICES ASSUME NEW i \in 1..L + M
               PROVE  IF i = k \/ i = L + M
                        THEN link'[pending'[i]] = None
                        ELSE \/ link'[pending'[i]] = pending'[i + 1]
                             \/ link'[pending'[i]] = None /\ \E r \in Producers : Joins(r, i)'
    BY <1>2 DEF LinksOK
  <2>1. CASE i > L
    <3>1. PICK j \in 1..M : i = L + j
      BY <2>1, <1>1
    <3>2. pending'[i] = chain[j] /\ (j < M => pending'[i + 1] = chain[j + 1])
      <4>1. j < M => j + 1 \in 1..M /\ i + 1 = L + (j + 1)
        BY <1>1, <3>1
      <4>2. QED
        BY <4>1, <1>2, <3>1
    <3>3. i # k /\ (i = L + M <=> j = M)
      BY <1>1, <1>4, <2>1, <3>1
    <3>4. j # M => j \in 1..M - 1
      BY <1>1
    <3>5. IF j = M THEN link'[pending'[i]] = None ELSE link'[pending'[i]] = pending'[i + 1]
      BY <3>2, <3>4, <1>1, <1>3
    <3>6. QED
      BY <3>3, <3>5
  <2>2. CASE i = L
    <3>1. i = k \/ Joins(p, i)'
      BY <2>2, <1>1, <1>2, <1>5, <1>6, <1>9, <1>10 DEF Joins
    <3>2. link'[pending'[i]] = None
      BY <2>2, <1>1, <1>2, <1>3, <1>l
    <3>3. QED
      BY <3>1, <3>2, <2>2, <1>1
  <2>3. CASE i < L
    <3>1. i \in 1..L /\ i + 1 \in 1..L
      BY <2>3, <1>1
    <3>2. /\ pending'[i] = pending[i] /\ pending'[i + 1] = pending[i + 1]
          /\ link'[pending'[i]] = link[pending[i]]
      BY <3>1, <1>2, <1>3
    <3>3. \A r \in Producers : Joins(r, i) => Joins(r, i)'
      BY <3>2, <1>5, <1>6, <1>10 DEF Joins, Pushing
    <3>4. QED
      BY <2>3, <3>1, <3>2, <3>3, <1>1, <1>l
  <2>4. QED
    BY <2>1, <2>2, <2>3, <1>1
<1>12. PushesOK(k)'
  <2>1. \A r \in Producers : chainFirst'[r] = None => oldBack'[r] = None
    BY <1>1, <1>4, <1>5, <1>6 DEF Shape, PushesOK
  <2>2. ASSUME NEW r \in Pushing'
        PROVE  \/ oldBack'[r] = None /\ k < L + M /\ chainFirst'[r] = pending'[k + 1]
                  /\ front' = None /\ cpc' \in {"idle", "batchWalk", "iterate"}
               \/ \E i \in 1..L + M - 1 : i # k /\ Joins(r, i)' /\ link'[pending'[i]] = None
    <3>1. CASE r = p /\ k = L
      <4>1. L + 1 = k + 1 /\ pending'[L + 1] = chain[1]
        BY <3>1, <1>1, <1>2
      <4>2. front = None /\ cpc \in {"idle", "batchWalk", "iterate"}
        BY <3>1, <1>4 DEF Shape, EndsOK, ConsumerOK, L, QueueInv, QueueTypeOK
      <4>3. QED
        BY <3>1, <4>1, <4>2, <1>1, <1>5, <1>6, <1>9
    <3>2. CASE r = p /\ k # L
      <4>1. L \in 1..L + M - 1 /\ L \in 1..L /\ pending'[L + 1] = chain[1] /\ pending'[L] = pending[L]
        BY <3>2, <1>1, <1>2
      <4>2. PICK m \in 1..L + M - 1 : m = L
        BY <4>1
      <4>3. Joins(r, m)'
        BY <3>2, <4>1, <4>2, <1>5, <1>6, <1>9, <1>10 DEF Joins
      <4>4. link'[pending'[m]] = None
        BY <4>1, <4>2, <1>3, <1>l
      <4>5. QED
        BY <3>2, <4>2, <4>3, <4>4
    <3>3. CASE r # p
      <4>1. r \in Pushing /\ r \in Producers /\ oldBack'[r] = oldBack[r] /\ chainFirst'[r] = chainFirst[r]
        BY <3>3, <1>5, <1>6, <1>10 DEF Pushing
      <4>2. \/ oldBack[r] = None /\ k < L /\ chainFirst[r] = pending[k + 1]
               /\ front = None /\ cpc \in {"idle", "batchWalk", "iterate"}
            \/ \E i \in 1..L - 1 : i # k /\ Joins(r, i) /\ link[pending[i]] = None
        BY <4>1, <1>4 DEF Shape, PushesOK, L
      <4>3. CASE oldBack[r] = None /\ k < L /\ chainFirst[r] = pending[k + 1]
                   /\ front = None /\ cpc \in {"idle", "batchWalk", "iterate"}
        <5>1. k + 1 \in 1..L /\ k < L + M
          BY <4>3, <1>1
        <5>2. QED
          BY <4>3, <5>1, <4>1, <1>2, <1>6
      <4>4. ASSUME NEW i \in 1..L - 1, i # k, Joins(r, i), link[pending[i]] = None
            PROVE  i \in 1..L + M - 1 /\ Joins(r, i)' /\ link'[pending'[i]] = None
        <5>1. i \in 1..L + M - 1 /\ i \in 1..L /\ i + 1 \in 1..L
          BY <1>1
        <5>2. pending'[i] = pending[i] /\ pending'[i + 1] = pending[i + 1]
          BY <5>1, <1>2
        <5>3. QED
          BY <4>1, <4>4, <5>1, <5>2, <1>3, <1>10 DEF Joins
      <4>5. QED
        BY <4>2, <4>3, <4>4
    <3>4. QED
      BY <3>1, <3>2, <3>3
  <2>3. ASSUME NEW r \in Pushing PROVE chainFirst[r] # chain[1]
    <3>1. \E i \in 1..L : chainFirst[r] = pending[i]
      <4>1. \/ k < L /\ chainFirst[r] = pending[k + 1]
            \/ \E i \in 1..L - 1 : chainFirst[r] = pending[i + 1]
        BY <1>4 DEF Shape, PushesOK, Joins, L
      <4>2. \A i \in 0..L - 1 : i + 1 \in 1..L
        BY <1>1
      <4>3. k < L => k \in 0..L - 1
        BY <1>1
      <4>4. \A i \in 1..L - 1 : i \in 0..L - 1
        BY <1>1
      <4>5. QED
        BY <4>1, <4>2, <4>3, <4>4
    <3>2. QED
      BY <3>1, <1>1
  <2>4. \A q, r \in Pushing' : chainFirst'[q] = chainFirst'[r] => q = r
    BY <2>3, <1>4, <1>5, <1>6, <1>10 DEF Shape, PushesOK, Pushing
  <2>5. QED
    <3>1. Len(pending') = L + M
      BY <1>2
    <3>2. SUFFICES ASSUME NEW r \in Pushing'
                   PROVE  \/ oldBack'[r] = None /\ k < Len(pending') /\ chainFirst'[r] = pending'[k + 1]
                             /\ front' = None /\ cpc' \in {"idle", "batchWalk", "iterate"}
                          \/ \E i \in 1..Len(pending') - 1 :
                               i # k /\ Joins(r, i)' /\ link'[pending'[i]] = None
      BY <2>1, <2>4 DEF PushesOK
    <3>3. QED
      BY <2>2, <3>1, <1>1 DEF Joins
<1>13. EndsOK(k)'
  <2>1. back' = pending'[L + M] /\ k # L + M
    BY <1>1, <1>2, <1>6
  <2>2. ASSUME cpc \in {"idle", "batchWalk", "iterate"}
        PROVE  front = pending'[k + 1] \/ \E r \in Pushing' : oldBack'[r] = None
    <3>1. CASE k = L
      BY <3>1, <1>5, <1>6, <1>9, <1>10
    <3>2. CASE k < L
      <4>1. k + 1 \in 1..L
        BY <3>2, <1>1
      <4>2. front = pending[k + 1] \/ \E r \in Pushing : oldBack[r] = None
        BY <2>2, <3>2, <1>4 DEF Shape, EndsOK, L
      <4>3. \A r \in Pushing : r # p /\ oldBack'[r] = oldBack[r]
        BY <1>5, <1>6 DEF Pushing
      <4>4. QED
        BY <4>1, <4>2, <4>3, <1>2, <1>10
    <3>3. QED
      BY <3>1, <3>2, <1>1
  <2>3. QED
    BY <2>1, <2>2, <1>2, <1>4, <1>6 DEF Shape, EndsOK
<1>14. ConsumerOK(k)'
  <2>1. cpc # "idle" => L > 0 /\ first = pending[1]
    BY <1>4, <1>1 DEF Shape, ConsumerOK, L, QueueInv, QueueTypeOK
  <2>2. cpc # "idle" => pending' # <<>> /\ first = pending'[1] /\ link'[first] = link[first]
    BY <2>1, <1>1, <1>2, <1>3
  <2>3. k > 0 => /\ last = pending'[k] /\ count \in 1..k
                 /\ \A i \in 1..count - 1 : link'[pending'[i]] = pending'[i + 1]
                 /\ IF cpc = "batchWalk" THEN nextItem = pending'[count] ELSE count = k
    <3> SUFFICES ASSUME k > 0
                 PROVE  /\ last = pending'[k] /\ count \in 1..k
                        /\ \A i \in 1..count - 1 : link'[pending'[i]] = pending'[i + 1]
                        /\ IF cpc = "batchWalk" THEN nextItem = pending'[count] ELSE count = k
      OBVIOUS
    <3>1. /\ last = pending[k] /\ count \in 1..k
          /\ \A i \in 1..count - 1 : link[pending[i]] = pending[i + 1]
          /\ IF cpc = "batchWalk" THEN nextItem = pending[count] ELSE count = k
      BY <1>4 DEF Shape, ConsumerOK
    <3>2. k \in 1..L /\ count \in 1..L /\ \A i \in 1..count - 1 : i \in 1..L /\ i + 1 \in 1..L
      BY <3>1, <1>1
    <3>3. QED
      BY <3>1, <3>2, <1>2, <1>3
  <2>4. cpc \in {"popSpin", "popStore"} => L > 1
    BY <1>4 DEF Shape, ConsumerOK, L
  <2>5. QED
    BY <2>2, <2>3, <2>4, <1>1, <1>2, <1>4, <1>6 DEF Shape, ConsumerOK
<1>15. k \in 0..Len(pending')
  BY <1>1, <1>2
<1>16. QED
  BY <1>7, <1>8, <1>11, <1>12, <1>13, <1>14, <1>15 DEF QueueInv, Shape

\* The second half of push_batch(): the first node of the chain goes into front,
\* or into the link of the old back.
LEMMA PushLinkInv ==
  ASSUME QueueInv, NEW p \in Producers, PushLink(p)
  PROVE  QueueInv'
<1> DEFINE L == Len(pending)
<1>1. /\ None \notin Nodes /\ L \in Nat
      /\ \A i \in 1..L : pending[i] \in Nodes
      /\ \A i, j \in 1..L : pending[i] = pending[j] => i = j
      /\ link \in [Nodes -> Ptr]
      /\ oldBack \in [Producers -> Ptr] /\ chainFirst \in [Producers -> Ptr]
      /\ p \in Pushing /\ chainFirst[p] \in Nodes
  BY InvFacts DEF PushLink, Pushing
<1>2. PICK k \in 0..L : Shape(k)
  BY DEF QueueInv
<1>3. /\ oldBack' = [oldBack EXCEPT ![p] = None]
      /\ chainFirst' = [chainFirst EXCEPT ![p] = None]
      /\ UNCHANGED <<back, cpc, first, nextItem, last, count, pending>>
  BY DEF PushLink
<1>4. Pushing' = Pushing \ {p}
  BY <1>1, <1>3 DEF Pushing
<1>5. \A r \in Pushing' : /\ r \in Producers /\ r # p /\ r \in Pushing
                         /\ oldBack'[r] = oldBack[r] /\ chainFirst'[r] = chainFirst[r]
                         /\ chainFirst[r] # chainFirst[p]
  BY <1>1, <1>2, <1>3, <1>4 DEF Pushing, Shape, PushesOK
<1>6. \A r \in Producers : chainFirst'[r] = None => oldBack'[r] = None
  BY <1>1, <1>2, <1>3 DEF Shape, PushesOK
<1>7. \A q, r \in Pushing' : chainFirst'[q] = chainFirst'[r] => q = r
  BY <1>2, <1>5 DEF Shape, PushesOK
<1>8. Distinct'
  BY <1>3 DEF QueueInv, Distinct
<1>9. CASE oldBack[p] = None
  <2>1. front' = chainFirst[p] /\ link' = link
    BY <1>9 DEF PushLink
  <2>2. /\ k < L /\ chainFirst[p] = pending[k + 1] /\ front = None
        /\ cpc \in {"idle", "batchWalk", "iterate"}
    BY <1>9, <1>1, <1>2 DEF Shape, PushesOK, Joins, L
  <2>3. QueueTypeOK'
    BY <1>1, <1>3, <2>1 DEF QueueInv, QueueTypeOK, Ptr
  <2>4. ASSUME NEW r \in Pushing'
        PROVE  \E i \in 1..L - 1 : i # k /\ Joins(r, i)' /\ link'[pending'[i]] = None
    <3>1. \E i \in 1..L - 1 : i # k /\ Joins(r, i) /\ link[pending[i]] = None
      BY <1>2, <1>5, <2>2 DEF Shape, PushesOK, L
    <3>2. QED
      BY <3>1, <1>3, <1>5, <2>1 DEF Joins
  <2>5. LinksOK(k)'
    <3>1. \A r \in Producers, i \in 1..L : Joins(r, i) => Joins(r, i)'
      BY <1>3, <1>4, <1>9, <1>1, <2>1, <2>2 DEF Joins, Pushing
    <3>2. QED
      BY <1>2, <1>3, <2>1, <3>1 DEF Shape, LinksOK, L, Joins
  <2>6. PushesOK(k)'
    BY <1>3, <1>6, <1>7, <2>4 DEF PushesOK, Joins, L
  <2>7. EndsOK(k)' /\ ConsumerOK(k)'
    BY <1>2, <1>3, <2>1, <2>2 DEF Shape, EndsOK, ConsumerOK, L
  <2>8. QED
    BY <2>3, <1>8, <2>5, <2>6, <2>7, <1>3 DEF QueueInv, Shape, L
<1>10. CASE oldBack[p] # None
  <2>1. link' = [link EXCEPT ![oldBack[p]] = chainFirst[p]] /\ front' = front
    BY <1>10 DEF PushLink
  <2>2. PICK m \in 1..L - 1 : m # k /\ Joins(p, m) /\ link[pending[m]] = None
    BY <1>10, <1>1, <1>2 DEF Shape, PushesOK, L
  <2>3. /\ m \in 1..L /\ m + 1 \in 1..L
        /\ oldBack[p] = pending[m] /\ chainFirst[p] = pending[m + 1]
    BY <2>2, <1>1 DEF Joins
  <2>4. /\ link'[pending[m]] = pending[m + 1]
        /\ \A i \in 1..L : i # m => link'[pending[i]] = link[pending[i]]
    BY <2>1, <2>3, <1>1
  <2>5. QueueTypeOK'
    BY <1>1, <1>3, <2>1, <2>3 DEF QueueInv, QueueTypeOK, Ptr
  <2>6. ASSUME NEW r \in Producers, NEW i \in 1..L, i # m, Joins(r, i)
        PROVE  Joins(r, i)'
    BY <2>6, <2>3, <1>1, <1>3, <1>4 DEF Joins
  <2>7. LinksOK(k)'
    <3> SUFFICES ASSUME NEW i \in 1..L
                 PROVE  IF i = k \/ i = L
                          THEN link'[pending[i]] = None
                          ELSE \/ link'[pending[i]] = pending[i + 1]
                               \/ link'[pending[i]] = None /\ \E r \in Producers : Joins(r, i)'
      BY <1>3 DEF LinksOK, L, Joins
    <3>1. IF i = k \/ i = L
            THEN link[pending[i]] = None
            ELSE \/ link[pending[i]] = pending[i + 1]
                 \/ link[pending[i]] = None /\ \E r \in Producers : Joins(r, i)
      BY <1>2 DEF Shape, LinksOK, L
    <3>2. CASE i = m
      BY <3>2, <2>2, <2>3, <2>4, <1>1
    <3>3. CASE i # m
      BY <3>1, <3>3, <2>4, <2>6 DEF Joins
    <3>4. QED
      BY <3>2, <3>3
  <2>8. PushesOK(k)'
    <3>1. ASSUME NEW r \in Pushing'
          PROVE  \/ oldBack'[r] = None /\ k < L /\ chainFirst'[r] = pending[k + 1]
                    /\ front = None /\ cpc \in {"idle", "batchWalk", "iterate"}
                 \/ \E i \in 1..L - 1 : i # k /\ Joins(r, i)' /\ link'[pending[i]] = None
      <4>1. \/ oldBack[r] = None /\ k < L /\ chainFirst[r] = pending[k + 1]
               /\ front = None /\ cpc \in {"idle", "batchWalk", "iterate"}
            \/ \E i \in 1..L - 1 : i # k /\ Joins(r, i) /\ link[pending[i]] = None
        BY <1>2, <1>5 DEF Shape, PushesOK, L
      <4>2. ASSUME NEW i \in 1..L - 1, i # k, Joins(r, i), link[pending[i]] = None
            PROVE  Joins(r, i)' /\ link'[pending[i]] = None
        <5>1. i \in 1..L /\ i # m
          BY <4>2, <2>3, <1>1, <1>5 DEF Joins
        <5>2. QED
          BY <5>1, <4>2, <2>4, <2>6, <1>5
      <4>3. QED
        BY <4>1, <4>2, <1>5 DEF Joins
    <3>2. QED
      BY <3>1, <1>3, <1>6, <1>7, <2>1 DEF PushesOK, Joins, L
  <2>9. EndsOK(k)'
    <3>1. (\E r \in Pushing : oldBack[r] = None) => \E r \in Pushing' : oldBack'[r] = None
      BY <1>4, <1>5, <1>10
    <3>2. QED
      BY <3>1, <1>2, <1>3, <2>1 DEF Shape, EndsOK, L
  <2>10. ConsumerOK(k)'
    <3>1. 1 \in 1..L /\ (link[pending[1]] # None => link'[pending[1]] = link[pending[1]])
      BY <1>1, <2>2, <2>3, <2>4
    <3>2. k > 0 => \A i \in 1..count - 1 : link'[pending[i]] = pending[i + 1]
      <4> SUFFICES ASSUME k > 0, NEW i \in 1..count - 1
                   PROVE  link'[pending[i]] = pending[i + 1]
        OBVIOUS
      <4>1. count \in 1..k /\ link[pending[i]] = pending[i + 1]
        BY <1>2 DEF Shape, ConsumerOK
      <4>2. i \in 1..L /\ i + 1 \in 1..L
        BY <4>1, <1>1
      <4>3. QED
        BY <4>1, <4>2, <1>1, <2>2, <2>4
    <3>3. cpc = "popStore" => nextItem \in Nodes
      BY DEF QueueInv, QueueTypeOK
    <3>4. QED
      BY <3>1, <3>2, <3>3, <1>1, <1>2, <1>3 DEF Shape, ConsumerOK
  <2>11. QED
    BY <2>5, <1>8, <2>7, <2>8, <2>9, <2>10, <1>3 DEF QueueInv, Shape, L
<1>11. QED
  BY <1>9, <1>10

-----------------------------------------------------------------------------
(* The consumer *)

\* No push is about to set front while front is set or in the consumer's hand.
LEMMA NoFrontPush ==
  ASSUME QueueInv, NEW k \in 0..Len(pending), Shape(k),
         front # None \/ cpc \notin {"idle", "batchWalk", "iterate"}
  PROVE  \A p \in Pushing : oldBack[p] # None
<1> SUFFICES ASSUME NEW p \in Pushing PROVE oldBack[p] # None
  OBVIOUS
<1>1. PICK i \in 1..Len(pending) - 1 : Joins(p, i)
  BY DEF Shape, PushesOK
<1>2. i \in 1..Len(pending)
  BY InvFacts
<1>3. QED
  BY <1>1, <1>2, InvFacts DEF Joins

\* A consumer outside of pop() that finds front set finds the oldest node there,
\* and no push is about to set front.
LEMMA FrontIsOldest ==
  ASSUME QueueInv, cpc = "idle", front # None
  PROVE  /\ Shape(0) /\ Len(pending) > 0 /\ front = pending[1]
         /\ \A p \in Pushing : oldBack[p] # None
<1>1. PICK k \in 0..Len(pending) : Shape(k)
  BY DEF QueueInv
<1>2. k = 0
  BY <1>1, InvFacts DEF Shape, ConsumerOK
<1>3. Len(pending) > 0
  BY <1>1, <1>2, InvFacts DEF Shape, EndsOK
<1>4. \A p \in Pushing : oldBack[p] # None
  BY <1>1, NoFrontPush
<1>5. QED
  BY <1>1, <1>2, <1>3, <1>4 DEF Shape, EndsOK

\* Steps that only read: nothing but the consumer's locals and front changes.
LEMMA ConsumerReads ==
  ASSUME QueueInv, NEW k \in 0..Len(pending), Shape(k),
         UNCHANGED <<back, link, oldBack, chainFirst, pending>>,
         \/ \A p \in Pushing : oldBack[p] # None
         \/ front' = front /\ cpc' \in {"idle", "batchWalk", "iterate"}
  PROVE  Distinct' /\ LinksOK(k)' /\ PushesOK(k)'
<1>1. Distinct' /\ LinksOK(k)'
  BY DEF QueueInv, Distinct, Shape, LinksOK, Joins, Pushing
<1>2. Pushing' = Pushing
  BY DEF Pushing
<1>3. PushesOK(k)'
  BY <1>2 DEF Shape, PushesOK, Joins
<1>4. QED
  BY <1>1, <1>3

LEMMA PopFirstInv == QueueInv /\ (PopFirst \/ BatchFront) => QueueInv'
<1> SUFFICES ASSUME QueueInv, PopFirst \/ BatchFront PROVE QueueInv'
  OBVIOUS
<1>1. /\ Shape(0) /\ Len(pending) > 0 /\ front = pending[1]
      /\ \A p \in Pushing : oldBack[p] # None
  BY FrontIsOldest DEF PopFirst, BatchFront
<1>2. UNCHANGED <<back, link, oldBack, chainFirst, pending>> /\ 0 \in 0..Len(pending)
  BY InvFacts DEF PopFirst, BatchFront, producerVars
<1>3. Distinct' /\ LinksOK(0)' /\ PushesOK(0)'
  BY <1>1, <1>2, ConsumerReads
<1>4. QueueTypeOK'
  BY <1>1, <1>2, InvFacts DEF QueueInv, QueueTypeOK, Ptr, PopFirst, BatchFront
<1>5. EndsOK(0)'
  BY <1>1, <1>2, InvFacts DEF Shape, EndsOK, PopFirst, BatchFront
<1>6. ConsumerOK(0)'
  BY <1>1, <1>2, InvFacts DEF Shape, ConsumerOK, PopFirst, BatchFront
<1>7. QED
  BY <1>2, <1>3, <1>4, <1>5, <1>6 DEF QueueInv, Shape

LEMMA PopReadsInv == QueueInv /\ (PopNext \/ PopRetry \/ PopSpin) => QueueInv'
<1> SUFFICES ASSUME QueueInv, PopNext \/ PopRetry \/ PopSpin PROVE QueueInv'
  OBVIOUS
<1>1. cpc \in {"popNext", "popCas", "popSpin"}
  BY DEF PopNext, PopRetry, PopSpin
<1>2. /\ UNCHANGED <<back, front, link, oldBack, chainFirst, pending, last, count>>
      /\ 0 \in 0..Len(pending)
  BY InvFacts DEF PopNext, PopRetry, PopSpin, producerVars
<1>3. Shape(0)
  <2>1. PICK k \in 0..Len(pending) : Shape(k)
    BY DEF QueueInv
  <2>2. k = 0
    BY <1>1, <2>1, InvFacts DEF Shape, ConsumerOK
  <2>3. QED
    BY <2>1, <2>2
<1>4. \A p \in Pushing : oldBack[p] # None
  BY <1>1, <1>2, <1>3, NoFrontPush
<1>5. Distinct' /\ LinksOK(0)' /\ PushesOK(0)'
  BY <1>2, <1>3, <1>4, ConsumerReads
<1>6. first \in Nodes /\ first = pending[1] /\ Len(pending) > 0
  BY <1>1, <1>3, InvFacts DEF Shape, ConsumerOK, QueueInv, QueueTypeOK
<1>7. PopRetry => front = first
  BY <1>3 DEF PopRetry, Shape, EndsOK
<1>8. QueueTypeOK'
  BY <1>1, <1>2, <1>6, <1>7, InvFacts DEF QueueInv, QueueTypeOK, Ptr, PopNext, PopRetry, PopSpin
<1>9. EndsOK(0)'
  BY <1>1, <1>2, <1>3, <1>6, <1>7, InvFacts DEF Shape, EndsOK, PopNext, PopRetry, PopSpin
<1>10. ConsumerOK(0)'
  BY <1>1, <1>2, <1>3, <1>6, <1>7, InvFacts DEF Shape, ConsumerOK, PopNext, PopRetry, PopSpin
<1>11. QED
  BY <1>2, <1>5, <1>8, <1>9, <1>10 DEF QueueInv, Shape

LEMMA BatchBackInv == QueueInv /\ BatchBack => QueueInv'
<1> SUFFICES ASSUME QueueInv, BatchBack PROVE QueueInv'
  OBVIOUS
<1> DEFINE L == Len(pending)
<1>1. /\ cpc = "batchBack" /\ cpc' = "batchWalk" /\ last' = back /\ back' = None
      /\ nextItem' = first /\ UNCHANGED <<front, link, oldBack, chainFirst, first, count, pending>>
  BY DEF BatchBack, producerVars
<1>2. Shape(0)
  <2>1. PICK k \in 0..Len(pending) : Shape(k)
    BY DEF QueueInv
  <2>2. k = 0
    BY <1>1, <2>1, InvFacts DEF Shape, ConsumerOK
  <2>3. QED
    BY <2>1, <2>2
<1>3. /\ L \in Nat /\ L > 0 /\ first = pending[1] /\ first \in Nodes /\ count = 1
      /\ back = pending[L] /\ front = None
  BY <1>1, <1>2, InvFacts DEF Shape, ConsumerOK, EndsOK, QueueInv, QueueTypeOK
<1>4. \A p \in Pushing : oldBack[p] # None
  BY <1>1, <1>2, <1>3, NoFrontPush
<1>5. PICK m \in 0..L : m = L
  BY <1>3
<1>6. QueueTypeOK' /\ Distinct'
  BY <1>1, <1>3, InvFacts DEF QueueInv, QueueTypeOK, Ptr, Distinct
<1>7. Pushing' = Pushing
  BY <1>1 DEF Pushing
<1>8. LinksOK(m)'
  BY <1>1, <1>2, <1>3, <1>5, <1>7 DEF Shape, LinksOK, Joins, L
<1>9. PushesOK(m)'
  BY <1>1, <1>2, <1>3, <1>4, <1>5, <1>7 DEF Shape, PushesOK, Joins, L
<1>10. EndsOK(m)' /\ ConsumerOK(m)'
  BY <1>1, <1>3, <1>5 DEF EndsOK, ConsumerOK, L
<1>11. QED
  BY <1>1, <1>5, <1>6, <1>8, <1>9, <1>10 DEF QueueInv, Shape, L

LEMMA BatchWalkInv == QueueInv /\ BatchWalk => QueueInv'
<1> SUFFICES ASSUME QueueInv, BatchWalk PROVE QueueInv'
  OBVIOUS
<1>1. /\ cpc = "batchWalk" /\ cpc' \in {"batchWalk", "iterate"}
      /\ UNCHANGED <<back, front, link, oldBack, chainFirst, first, last, pending>>
  BY DEF BatchWalk, producerVars
<1>2. PICK k \in 0..Len(pending) : Shape(k)
  BY DEF QueueInv
<1>3. Distinct' /\ LinksOK(k)' /\ PushesOK(k)'
  BY <1>1, <1>2, ConsumerReads
<1>4. /\ Len(pending) \in Nat /\ k > 0 /\ count \in 1..k /\ last = pending[k]
      /\ nextItem = pending[count]
      /\ \A i \in 1..count - 1 : link[pending[i]] = pending[i + 1]
  BY <1>1, <1>2, InvFacts DEF Shape, ConsumerOK
<1>5. EndsOK(k)'
  BY <1>1, <1>2 DEF Shape, EndsOK, Pushing
<1>6. CASE nextItem = last
  <2>0. count \in 1..Len(pending) /\ k \in 1..Len(pending)
    BY <1>4
  <2>1. count = k /\ cpc' = "iterate" /\ UNCHANGED <<nextItem, count>>
    BY <1>4, <1>6, <2>0, InvFacts DEF BatchWalk
  <2>2. QueueTypeOK' /\ ConsumerOK(k)'
    BY <1>1, <1>2, <1>4, <2>1 DEF QueueInv, QueueTypeOK, Shape, ConsumerOK
  <2>3. QED
    BY <1>1, <1>3, <1>5, <2>2 DEF QueueInv, Shape
<1>7. CASE nextItem # last
  <2>1. /\ link[nextItem] # None /\ nextItem' = link[nextItem] /\ count' = count + 1
        /\ cpc' = cpc
    BY <1>7 DEF BatchWalk
  <2>2. count # k /\ count \in 1..Len(pending) /\ count + 1 \in 1..k /\ count + 1 \in 1..Len(pending)
    BY <1>4, <1>7
  <2>3. link[pending[count]] = pending[count + 1]
    BY <1>2, <1>4, <2>1, <2>2 DEF Shape, LinksOK
  <2>4. \A i \in 1..count' - 1 : link[pending[i]] = pending[i + 1]
    BY <1>4, <2>1, <2>3
  <2>5. QueueTypeOK'
    BY <1>1, <1>4, <2>1, <2>2, <2>3, InvFacts DEF QueueInv, QueueTypeOK, Ptr
  <2>6. ConsumerOK(k)'
    BY <1>1, <1>2, <1>4, <2>1, <2>2, <2>3, <2>4 DEF Shape, ConsumerOK
  <2>7. QED
    BY <1>1, <1>3, <1>5, <2>5, <2>6 DEF QueueInv, Shape
<1>8. QED
  BY <1>6, <1>7

-----------------------------------------------------------------------------
(* The oldest node leaves *)

\* Positions move by one; the push that joins the i-th node to the next joins the
\* one before.
LEMMA TailShape ==
  ASSUME QueueInv, NEW k \in 0..Len(pending), Shape(k),
         pending # <<>>, pending' = Tail(pending),
         UNCHANGED <<link, oldBack, chainFirst>>,
         \A p \in Pushing : oldBack[p] # pending[1],
         NEW m \in Nat, m = IF k > 0 THEN k - 1 ELSE 0
  PROVE  /\ pending' \in Seq(Nodes) /\ Len(pending') = Len(pending) - 1
         /\ \A i \in 1..Len(pending') : pending'[i] = pending[i + 1]
         /\ m \in 0..Len(pending') /\ Distinct' /\ LinksOK(m)'
         /\ \A p \in Pushing :
              \/ oldBack[p] = None /\ k < Len(pending) /\ chainFirst[p] = pending[k + 1]
                 /\ front = None /\ cpc \in {"idle", "batchWalk", "iterate"}
              \/ \E i \in 1..Len(pending') - 1 :
                   i # m /\ Joins(p, i)' /\ link'[pending'[i]] = None
<1> DEFINE L == Len(pending)
<1>1. /\ None \notin Nodes /\ L \in Nat /\ L > 0
      /\ \A i \in 1..L : pending[i] \in Nodes
      /\ \A i, j \in 1..L : pending[i] = pending[j] => i = j
  BY InvFacts
<1>2. /\ pending' \in Seq(Nodes) /\ Len(pending') = L - 1
      /\ \A i \in 1..L - 1 : pending'[i] = pending[i + 1]
  BY InvFacts, HeadTailProperties
<1>3. Pushing' = Pushing
  BY DEF Pushing
<1> HIDE DEF L
<1>4. m \in 0..L - 1
  BY <1>1 DEF L
<1>5. Distinct'
  <2>1. \A i, j \in 1..L - 1 : pending'[i] = pending'[j] => i = j
    <3> SUFFICES ASSUME NEW i \in 1..L - 1, NEW j \in 1..L - 1, pending'[i] = pending'[j]
                 PROVE  i = j
      OBVIOUS
    <3>1. i + 1 \in 1..L /\ j + 1 \in 1..L
      BY <1>1
    <3>2. QED
      BY <1>1, <1>2, <3>1
  <2>2. QED
    BY <2>1, <1>2 DEF Distinct
<1>6. \A i \in 1..L :
        IF i = k \/ i = L
          THEN link[pending[i]] = None
          ELSE \/ link[pending[i]] = pending[i + 1]
               \/ link[pending[i]] = None /\ \E r \in Producers : Joins(r, i)
  BY DEF Shape, LinksOK, L
<1>7. ASSUME NEW i \in 1..L - 1 PROVE pending'[i] = pending[i + 1] /\ i + 1 \in 1..L
  BY <1>1, <1>2
<1>8. ASSUME NEW r \in Producers, NEW i \in 1..L - 2, Joins(r, i + 1)
      PROVE  Joins(r, i)'
  <2>1. i \in 1..L - 1 /\ i + 1 \in 1..L - 1
    BY <1>1
  <2>2. pending'[i] = pending[i + 1] /\ pending'[i + 1] = pending[i + 1 + 1]
    BY <1>7, <2>1
  <2>3. QED
    BY <1>3, <1>8, <2>2 DEF Joins
<1>9. LinksOK(m)'
  <2> SUFFICES ASSUME NEW i \in 1..L - 1
               PROVE  IF i = m \/ i = L - 1
                        THEN link'[pending'[i]] = None
                        ELSE \/ link'[pending'[i]] = pending'[i + 1]
                             \/ link'[pending'[i]] = None /\ \E r \in Producers : Joins(r, i)'
    BY <1>2 DEF LinksOK, Joins
  <2>1. i + 1 \in 1..L /\ (i = L - 1 <=> i + 1 = L) /\ (i # L - 1 => i \in 1..L - 2)
    BY <1>1
  <2>2. i = m <=> i + 1 = k
    BY <1>1
  <2>3. pending'[i] = pending[i + 1]
    BY <1>7
  <2>4. i # L - 1 => pending'[i + 1] = pending[i + 1 + 1]
    <3>1. i # L - 1 => i + 1 \in 1..L - 1
      BY <1>1
    <3>2. QED
      BY <3>1, <1>7
  <2>5. CASE i = m \/ i = L - 1
    BY <2>5, <2>1, <2>2, <2>3, <1>6
  <2>6. CASE i # m /\ i # L - 1
    <3>1. \/ link[pending[i + 1]] = pending[i + 1 + 1]
          \/ link[pending[i + 1]] = None /\ \E r \in Producers : Joins(r, i + 1)
      BY <2>6, <2>1, <2>2, <1>6
    <3>2. (\E r \in Producers : Joins(r, i + 1)) => \E r \in Producers : Joins(r, i)'
      BY <2>6, <2>1, <1>8
    <3>3. QED
      BY <3>1, <3>2, <2>3, <2>4, <2>6
  <2>7. QED
    BY <2>5, <2>6
<1>10. ASSUME NEW r \in Pushing, NEW i \in 1..L - 1, i # k, Joins(r, i), link[pending[i]] = None
       PROVE  \E j \in 1..L - 2 : j # m /\ Joins(r, j)' /\ link'[pending'[j]] = None
  <2>1. i # 1
    BY <1>10 DEF Joins
  <2>2. i - 1 \in 1..L - 2 /\ i - 1 # m /\ (i - 1) + 1 = i
    BY <2>1, <1>1, <1>10
  <2>3. PICK j \in 1..L - 2 : j = i - 1
    BY <2>2
  <2>4. r \in Producers /\ j + 1 = i /\ j \in 1..L - 1 /\ j # m
    BY <2>2, <2>3, <1>1 DEF Pushing
  <2>5. Joins(r, j)'
    BY <2>4, <1>8, <1>10
  <2>6. link'[pending'[j]] = None
    BY <2>4, <1>7, <1>10
  <2>7. QED
    BY <2>4, <2>5, <2>6
<1>11. ASSUME NEW r \in Pushing
       PROVE \/ oldBack[r] = None /\ k < L /\ chainFirst[r] = pending[k + 1]
                /\ front = None /\ cpc \in {"idle", "batchWalk", "iterate"}
             \/ \E i \in 1..Len(pending') - 1 :
                   i # m /\ Joins(r, i)' /\ link'[pending'[i]] = None
  <2>1. \/ oldBack[r] = None /\ k < L /\ chainFirst[r] = pending[k + 1]
           /\ front = None /\ cpc \in {"idle", "batchWalk", "iterate"}
        \/ \E i \in 1..L - 1 : i # k /\ Joins(r, i) /\ link[pending[i]] = None
    BY DEF Shape, PushesOK, L
  <2>2. Len(pending') - 1 = L - 2
    BY <1>1, <1>2
  <2>3. QED
    BY <2>1, <2>2, <1>10 DEF Joins
<1>12. QED
  BY <1>2, <1>4, <1>5, <1>9, <1>11 DEF L, Joins

\* pop() returns a node that has a successor.
LEMMA PopReturnsInv ==
  ASSUME QueueInv, PopStore \/ (PopCas /\ nextItem # None)
  PROVE  QueueInv' /\ pending # <<>> /\ pending' = Tail(pending)
<1> DEFINE L == Len(pending)
<1>1. cpc \in {"popCas", "popStore"} /\ cpc' = "idle"
  BY DEF PopStore, PopCas, ReturnFirst
<1>2. /\ UNCHANGED <<back, link, oldBack, chainFirst, last, count>>
      /\ front' = nextItem /\ first' = None /\ nextItem' = None /\ pending' = Without(first)
  BY DEF PopStore, PopCas, ReturnFirst, producerVars
<1>3. PICK k \in 0..L : Shape(k)
  BY DEF QueueInv
<1>4. k = 0 /\ pending # <<>> /\ first = pending[1] /\ nextItem = link[first] /\ nextItem # None
  <2>1. nextItem # None
    BY InvFacts DEF PopStore, QueueInv, QueueTypeOK
  <2>2. QED
    BY <1>1, <1>3, <2>1, InvFacts DEF Shape, ConsumerOK
<1>5. pending' = Tail(pending)
  BY <1>2, <1>4, WithoutFirst DEF QueueInv, QueueTypeOK
<1>6. /\ None \notin Nodes /\ L \in Nat /\ L > 0
      /\ \A i, j \in 1..L : pending[i] = pending[j] => i = j
      /\ \A i \in 1..L : pending[i] \in Nodes
  BY <1>4, InvFacts
<1>7. \A p \in Pushing : oldBack[p] # None
  BY <1>1, <1>3, NoFrontPush
<1>8. \A p \in Pushing : oldBack[p] # pending[1]
  <2> SUFFICES ASSUME NEW p \in Pushing PROVE oldBack[p] # pending[1]
    OBVIOUS
  <2>1. PICK i \in 1..L - 1 : Joins(p, i) /\ link[pending[i]] = None
    BY <1>3, <1>7 DEF Shape, PushesOK
  <2>2. i \in 1..L /\ 1 \in 1..L
    BY <1>6
  <2>3. QED
    BY <2>1, <2>2, <1>4, <1>6 DEF Joins
<1>9. L > 1 /\ link[pending[1]] = pending[2]
  BY <1>3, <1>4, <1>6 DEF Shape, LinksOK
<1>10. /\ pending' \in Seq(Nodes) /\ Len(pending') = L - 1
       /\ \A i \in 1..Len(pending') : pending'[i] = pending[i + 1]
       /\ 0 \in 0..Len(pending') /\ Distinct' /\ LinksOK(0)'
       /\ \A p \in Pushing :
            \/ oldBack[p] = None
            \/ \E i \in 1..Len(pending') - 1 : i # 0 /\ Joins(p, i)' /\ link'[pending'[i]] = None
  BY <1>2, <1>3, <1>4, <1>5, <1>8, TailShape
<1>11. Pushing' = Pushing
  BY <1>2 DEF Pushing
<1>12. PushesOK(0)'
  <2>1. \A p \in Pushing' :
          \E i \in 1..Len(pending') - 1 : i # 0 /\ Joins(p, i)' /\ link'[pending'[i]] = None
    BY <1>7, <1>10, <1>11
  <2>2. QED
    BY <2>1, <1>2, <1>3, <1>11 DEF Shape, PushesOK, Joins
<1>13. EndsOK(0)'
  <2>1. back = pending[L]
    BY <1>3, <1>4, <1>6 DEF Shape, EndsOK
  <2>2. L - 1 \in 1..Len(pending') /\ 1 \in 1..Len(pending') /\ Len(pending') # 0
    BY <1>6, <1>9, <1>10
  <2>3. pending'[L - 1] = pending[L] /\ pending'[1] = pending[2]
    BY <2>2, <1>6, <1>10
  <2>4. QED
    BY <2>1, <2>2, <2>3, <1>1, <1>2, <1>4, <1>9, <1>10 DEF EndsOK
<1>14. ConsumerOK(0)'
  BY <1>1 DEF ConsumerOK
<1>15. QueueTypeOK'
  BY <1>1, <1>2, <1>4, <1>6, <1>9, <1>10, InvFacts DEF QueueInv, QueueTypeOK, Ptr
<1>16. QED
  BY <1>4, <1>5, <1>10, <1>12, <1>13, <1>14, <1>15 DEF QueueInv, Shape

\* The CAS of back succeeds: first was the only node.
LEMMA PopLastInv ==
  ASSUME QueueInv, PopBack, back = first
  PROVE  QueueInv' /\ pending # <<>> /\ pending' = Tail(pending)
<1> DEFINE L == Len(pending)
<1>1. /\ cpc = "popBack" /\ cpc' = "idle" /\ back' = None
      /\ UNCHANGED <<front, link, oldBack, chainFirst, last, count>>
      /\ first' = None /\ nextItem' = None /\ pending' = Without(first)
  BY DEF PopBack, ReturnFirst, producerVars
<1>2. PICK k \in 0..L : Shape(k)
  BY DEF QueueInv
<1>3. k = 0 /\ pending # <<>> /\ first = pending[1] /\ L \in Nat /\ L > 0 /\ front = None
  BY <1>1, <1>2, InvFacts DEF Shape, ConsumerOK, EndsOK
<1>4. L = 1
  <2>1. back = pending[L] /\ 1 \in 1..L /\ L \in 1..L
    BY <1>2, <1>3 DEF Shape, EndsOK
  <2>2. QED
    BY <2>1, <1>3, InvFacts
<1>5. pending' = Tail(pending)
  BY <1>1, <1>3, WithoutFirst DEF QueueInv, QueueTypeOK
<1>6. pending' = <<>>
  BY <1>4, <1>5, InvFacts
<1>7. Pushing = {}
  <2>1. \A p \in Pushing : \E i \in 1..L - 1 : Joins(p, i)
    BY <1>1, <1>2 DEF Shape, PushesOK
  <2>2. QED
    BY <2>1, <1>4
<1>8. Pushing' = {}
  BY <1>1, <1>7 DEF Pushing
<1>9. Shape(0)'
  BY <1>1, <1>2, <1>3, <1>6, <1>8 DEF Shape, LinksOK, PushesOK, EndsOK, ConsumerOK
<1>10. QueueTypeOK' /\ Distinct'
  BY <1>1, <1>6, InvFacts DEF QueueInv, QueueTypeOK, Distinct, Ptr
<1>11. QED
  BY <1>3, <1>5, <1>6, <1>9, <1>10 DEF QueueInv

LEMMA PopKeepsInv ==
  ASSUME QueueInv, (PopCas /\ nextItem = None) \/ (PopBack /\ back # first)
  PROVE  QueueInv' /\ pending' = pending
<1> DEFINE L == Len(pending)
<1>1. /\ cpc \in {"popCas", "popBack"} /\ cpc' = IF cpc = "popCas" THEN "popBack" ELSE "popSpin"
      /\ UNCHANGED <<back, link, oldBack, chainFirst, last, count, first, nextItem, pending>>
      /\ front' = IF cpc = "popCas" THEN None ELSE front
  BY DEF PopBack, PopCas, producerVars
<1>2. PICK k \in 0..L : Shape(k)
  BY DEF QueueInv
<1>3. k = 0 /\ pending # <<>> /\ first = pending[1] /\ L \in Nat /\ L > 0
  BY <1>1, <1>2, InvFacts DEF Shape, ConsumerOK
<1>4. \A p \in Pushing : oldBack[p] # None
  BY <1>1, <1>2, NoFrontPush
<1>5. Distinct' /\ LinksOK(0)' /\ PushesOK(0)'
  BY <1>1, <1>2, <1>3, <1>4, ConsumerReads
<1>6. cpc = "popBack" => L > 1
  BY <1>1, <1>2, <1>3 DEF PopBack, PopCas, Shape, EndsOK
<1>7. EndsOK(0)'
  BY <1>1, <1>2, <1>3 DEF Shape, EndsOK
<1>8. ConsumerOK(0)'
  BY <1>1, <1>3, <1>6 DEF ConsumerOK
<1>9. QueueTypeOK'
  BY <1>1, InvFacts DEF QueueInv, QueueTypeOK, Ptr
<1>10. QED
  BY <1>1, <1>3, <1>5, <1>7, <1>8, <1>9 DEF QueueInv, Shape

\* BatchIterator::next().
LEMMA IteratorNextInv ==
  ASSUME QueueInv, IteratorNext
  PROVE  QueueInv' /\ pending # <<>> /\ pending' = Tail(pending)
<1> DEFINE L == Len(pending)
<1>1. /\ cpc = "iterate" /\ cpc' = (IF count = 1 THEN "idle" ELSE "iterate")
      /\ UNCHANGED <<back, front, link, oldBack, chainFirst>>
      /\ pending' = Without(first) /\ count' = count - 1
      /\ first' = (IF count = 1 THEN None ELSE link[first]) /\ nextItem' = None
      /\ last' = (IF count = 1 THEN None ELSE last)
  BY DEF IteratorNext, producerVars
<1>2. PICK k \in 0..L : Shape(k)
  BY DEF QueueInv
<1>3. /\ k > 0 /\ pending # <<>> /\ first = pending[1] /\ last = pending[k] /\ count = k
      /\ \A i \in 1..k - 1 : link[pending[i]] = pending[i + 1]
  BY <1>1, <1>2 DEF Shape, ConsumerOK
<1>4. pending' = Tail(pending)
  BY <1>1, <1>3, WithoutFirst DEF QueueInv, QueueTypeOK
<1>5. /\ None \notin Nodes /\ L \in Nat /\ L > 0
      /\ \A i, j \in 1..L : pending[i] = pending[j] => i = j
      /\ \A i \in 1..L : pending[i] \in Nodes
  BY <1>3, InvFacts
<1>6. \A p \in Pushing : oldBack[p] # pending[1]
  <2> SUFFICES ASSUME NEW p \in Pushing, oldBack[p] = pending[1] PROVE FALSE
    OBVIOUS
  <2>1. PICK i \in 1..L - 1 : i # k /\ Joins(p, i) /\ link[pending[i]] = None
    BY <1>2, <1>5 DEF Shape, PushesOK
  <2>2. i \in 1..L /\ 1 \in 1..L
    BY <1>5
  <2>3. i = 1
    BY <2>1, <2>2, <1>5 DEF Joins
  <2>4. 1 \in 1..k - 1 /\ 2 \in 1..L
    BY <2>1, <2>3, <1>3, <1>5
  <2>5. QED
    BY <2>1, <2>3, <2>4, <1>3, <1>5
<1>7. PICK m \in 0..L - 1 : m = k - 1
  BY <1>3, <1>5
<1>8. /\ pending' \in Seq(Nodes) /\ Len(pending') = L - 1
      /\ \A i \in 1..L - 1 : pending'[i] = pending[i + 1]
      /\ m \in 0..Len(pending') /\ Distinct' /\ LinksOK(m)'
      /\ \A p \in Pushing :
           \/ oldBack[p] = None /\ k < L /\ chainFirst[p] = pending[k + 1] /\ front = None
           \/ \E i \in 1..Len(pending') - 1 : i # m /\ Joins(p, i)' /\ link'[pending'[i]] = None
  <2>1. m \in Nat /\ m = IF k > 0 THEN k - 1 ELSE 0
    BY <1>3, <1>5, <1>7
  <2>2. QED
    BY <2>1, <1>1, <1>2, <1>3, <1>4, <1>6, TailShape
<1>9. Pushing' = Pushing
  BY <1>1 DEF Pushing
<1>10. PushesOK(m)'
  <2>1. k < L => m < Len(pending') /\ pending'[m + 1] = pending[k + 1]
    BY <1>3, <1>5, <1>7, <1>8
  <2>2. cpc' \in {"idle", "batchWalk", "iterate"}
    BY <1>1
  <2>3. \A p \in Pushing' :
          \/ oldBack'[p] = None /\ m < Len(pending') /\ chainFirst'[p] = pending'[m + 1] /\ front' = None
          \/ \E i \in 1..Len(pending') - 1 : i # m /\ Joins(p, i)' /\ link'[pending'[i]] = None
    BY <2>1, <1>1, <1>8, <1>9
  <2>4. QED
    BY <2>2, <2>3, <1>1, <1>2, <1>9 DEF Shape, PushesOK, Joins
<1>11. EndsOK(m)'
  <2>1. IF k = L THEN back = None /\ front = None ELSE back = pending[L]
    BY <1>2 DEF Shape, EndsOK
  <2>2. k < L => front = pending[k + 1] \/ \E p \in Pushing : oldBack[p] = None
    BY <1>1, <1>2 DEF Shape, EndsOK
  <2>3. k # L => L - 1 \in 1..L - 1 /\ pending'[L - 1] = pending[L]
    BY <1>3, <1>5, <1>8
  <2>4. m # L - 1 => m + 1 \in 1..L - 1 /\ pending'[m + 1] = pending[k + 1]
    BY <1>3, <1>5, <1>7, <1>8
  <2>5. k = L <=> m = Len(pending')
    BY <1>3, <1>5, <1>7, <1>8
  <2>6. QED
    BY <2>1, <2>2, <2>3, <2>4, <2>5, <1>1, <1>5, <1>7, <1>8, <1>9 DEF EndsOK
<1>12. ConsumerOK(m)'
  <2>1. CASE k = 1
    BY <2>1, <1>1, <1>3, <1>7 DEF ConsumerOK
  <2>2. CASE k > 1
    <3>1. 1 \in 1..L - 1 /\ m \in 1..L - 1 /\ 1 \in 1..k - 1 /\ Len(pending') > 0
      BY <2>2, <1>5, <1>7, <1>8
    <3>2. first' = pending'[1]
      BY <2>2, <3>1, <1>1, <1>3, <1>8
    <3>3. last' = pending'[m] /\ count' = m
      BY <2>2, <3>1, <1>1, <1>3, <1>5, <1>7, <1>8
    <3>4. \A i \in 1..m - 1 : link'[pending'[i]] = pending'[i + 1]
      <4> SUFFICES ASSUME NEW i \in 1..m - 1 PROVE link'[pending'[i]] = pending'[i + 1]
        OBVIOUS
      <4>1. i \in 1..L - 1 /\ i + 1 \in 1..L - 1 /\ i + 1 \in 1..k - 1
        BY <1>5, <1>7
      <4>2. pending'[i] = pending[i + 1] /\ pending'[i + 1] = pending[i + 1 + 1]
        BY <4>1, <1>8
      <4>3. QED
        BY <4>1, <4>2, <1>1, <1>3
    <3>5. cpc' = "iterate" /\ pending' # <<>> /\ m > 0
      BY <2>2, <3>1, <1>1, <1>3, <1>7
    <3>6. QED
      BY <3>1, <3>2, <3>3, <3>4, <3>5 DEF ConsumerOK
  <2>3. QED
    BY <2>1, <2>2, <1>3, <1>5
<1>13. QueueTypeOK'
  <2>1. k > 1 => link[pending[1]] \in Nodes
    <3>1. k > 1 => 1 \in 1..k - 1 /\ 2 \in 1..L
      BY <1>5
    <3>2. QED
      BY <3>1, <1>3, <1>5
  <2>2. count' \in Nat /\ (cpc' = "iterate" => count' > 0 /\ first' \in Nodes) /\ first' \in Ptr
    BY <2>1, <1>1, <1>3, <1>5 DEF Ptr
  <2>3. QED
    BY <2>2, <1>1, <1>8, InvFacts DEF QueueInv, QueueTypeOK, Ptr
<1>14. QED
  BY <1>3, <1>4, <1>8, <1>10, <1>11, <1>12, <1>13 DEF QueueInv, Shape

-----------------------------------------------------------------------------
(* The theorems *)

\* Every step keeps the invariant, and is a step of the FIFO queue or changes
\* nothing that it can see.
LEMMA QueueStep ==
  ASSUME QueueInv, [QueueNext]_qvars
  PROVE  QueueInv' /\ [fifo!Put \/ fifo!Take]_pending
<1>1. CASE UNCHANGED qvars
  BY <1>1 DEF qvars, QueueInv, QueueTypeOK, Distinct, Shape, LinksOK, PushesOK, EndsOK,
              ConsumerOK, Joins, Pushing, Ptr
<1>2. ASSUME NEW p \in Producers, NEW chain \in fifo!Chains, PushSwap(p, chain)
      PROVE  QueueInv' /\ fifo!Put
  BY <1>2, PushSwapInv DEF PushSwap, fifo!Put
<1>3. ASSUME NEW p \in Producers, PushLink(p)
      PROVE  QueueInv' /\ pending' = pending
  BY <1>3, PushLinkInv DEF PushLink
<1>4. CASE PopEmpty
  BY <1>4, <1>1 DEF PopEmpty
<1>5. CASE PopFirst \/ BatchFront
  BY <1>5, PopFirstInv DEF PopFirst, BatchFront
<1>6. CASE PopNext \/ PopRetry \/ PopSpin
  BY <1>6, PopReadsInv DEF PopNext, PopRetry, PopSpin
<1>7. CASE PopCas \/ PopBack \/ PopStore
  BY <1>7, PopReturnsInv, PopLastInv, PopKeepsInv DEF fifo!Take
<1>8. CASE BatchBack \/ BatchWalk
  BY <1>8, BatchBackInv, BatchWalkInv DEF BatchBack, BatchWalk
<1>9. CASE IteratorNext
  BY <1>9, IteratorNextInv DEF fifo!Take
<1>10. QED
  BY <1>1, <1>2, <1>3, <1>4, <1>5, <1>6, <1>7, <1>8, <1>9 DEF QueueNext, ConsumerStep

\* The invariant holds for any number of producers, nodes and chain lengths, and
\* without any fairness.
THEOREM QueueInvariant == QueueInit /\ [][QueueNext]_qvars => []QueueInv
<1>1. QueueInv /\ [QueueNext]_qvars => QueueInv'
  BY QueueStep
<1>2. QED
  BY <1>1, InitInv, PTL

\* The pointers and locals of push(), pop() and pop_batch() keep their types: in
\* particular none is null where it is followed.
THEOREM QueueTypeCorrect == QueueSpec => []QueueTypeOK
<1>1. QueueInv => QueueTypeOK
  BY DEF QueueInv
<1>2. QED
  BY <1>1, QueueInvariant, PTL DEF QueueSpec

\* Whatever the interleaving, the nodes come out in the order in which their
\* pushes swapped `back', each once (push_batch(), pop(), pop_batch()).
THEOREM QueueIsFifo == QueueSpec => IsFifo
<1>1. QueueInit => fifo!FifoInit
  BY DEF QueueInit, fifo!FifoInit
<1>2. QueueInv /\ [QueueNext]_qvars => [fifo!Put \/ fifo!Take]_pending
  BY QueueStep
<1>3. QED
  BY <1>1, <1>2, QueueInvariant, PTL DEF QueueSpec, IsFifo, fifo!FifoSpec

\* The node that push_batch() links its chain to has not been returned, its link
\* is null and nobody else will write it.
THEOREM OldBackIsLive == QueueSpec => []OldBackLive
<1>1. ASSUME QueueInv PROVE OldBackLive
  <2>1. PICK k \in 0..Len(pending) : Shape(k)
    BY <1>1 DEF QueueInv
  <2> SUFFICES ASSUME NEW p \in Pushing, oldBack[p] # None
               PROVE  /\ oldBack[p] \in Queued
                      /\ link[oldBack[p]] = None
                      /\ \A r \in Pushing : oldBack[r] = oldBack[p] => r = p
    BY DEF OldBackLive
  <2>2. PICK i \in 1..Len(pending) - 1 : Joins(p, i) /\ link[pending[i]] = None
    BY <2>1 DEF Shape, PushesOK
  <2>3. i \in 1..Len(pending)
    BY <1>1, InvFacts
  <2>4. ASSUME NEW r \in Pushing, oldBack[r] = oldBack[p] PROVE r = p
    <3>1. PICK j \in 1..Len(pending) - 1 : Joins(r, j)
      BY <2>1, <2>4 DEF Shape, PushesOK
    <3>2. j \in 1..Len(pending)
      BY <1>1, InvFacts
    <3>3. i = j
      BY <2>2, <2>3, <2>4, <3>1, <3>2, <1>1, InvFacts DEF Joins
    <3>4. QED
      BY <2>1, <2>2, <3>1, <3>3 DEF Joins, Shape, PushesOK
  <2>5. oldBack[p] \in Queued
    BY <2>2, <2>3, <1>1, InvFacts DEF Joins, Queued
  <2>6. QED
    BY <2>2, <2>4, <2>5 DEF Joins
<1>2. QED
  BY <1>1, QueueInvariant, PTL DEF QueueSpec

LEMMA OldestPushUnderWay ==
  ASSUME QueueInv
  PROVE  PopSeesReturnedPush
<1>1. PICK k \in 0..Len(pending) : Shape(k)
  BY DEF QueueInv
<1> SUFFICES ASSUME cpc = "idle", front = None, pending # <<>>
             PROVE  \E p \in Pushing : chainFirst[p] = pending[1] /\ oldBack[p] = None
  BY DEF PopSeesReturnedPush
<1>2. k = 0 /\ Len(pending) > 0 /\ 1 \in 1..Len(pending)
  BY <1>1, InvFacts DEF Shape, ConsumerOK
<1>3. front # pending[1]
  BY <1>2, InvFacts
<1>4. PICK p \in Pushing : oldBack[p] = None
  BY <1>1, <1>2, <1>3 DEF Shape, EndsOK
<1>5. \A i \in 1..Len(pending) - 1 : ~ Joins(p, i)
  <2>1. \A i \in 1..Len(pending) - 1 : i \in 1..Len(pending)
    BY InvFacts
  <2>2. QED
    BY <1>4, <2>1, InvFacts DEF Joins
<1>6. QED
  BY <1>1, <1>2, <1>4, <1>5 DEF Shape, PushesOK

\* pop() overlooks only nodes whose push has not returned.
THEOREM ReturnedPushIsSeen == QueueSpec => []PopSeesReturnedPush
<1>1. QueueInv => PopSeesReturnedPush
  BY OldestPushUnderWay
<1>2. QED
  BY <1>1, QueueInvariant, PTL DEF QueueSpec

\* is_empty() is right, up to the batch that the consumer holds.
THEOREM EmptyIsHonest == QueueSpec => []IsEmptyHonest
<1>1. ASSUME QueueInv PROVE IsEmptyHonest
  <2>1. PICK k \in 0..Len(pending) : Shape(k)
    BY <1>1 DEF QueueInv
  <2> SUFFICES ASSUME back = None, pending # <<>>
               PROVE  cpc \in {"batchWalk", "iterate"} /\ last = pending[Len(pending)]
    BY DEF IsEmptyHonest
  <2>2. Len(pending) \in 1..Len(pending)
    BY <1>1, InvFacts
  <2>3. k = Len(pending)
    BY <2>1, <2>2, <1>1, InvFacts DEF Shape, EndsOK
  <2>4. QED
    BY <2>1, <2>2, <2>3, <1>1, InvFacts DEF Shape, ConsumerOK
<1>2. QED
  BY <1>1, QueueInvariant, PTL DEF QueueSpec

=============================================================================
