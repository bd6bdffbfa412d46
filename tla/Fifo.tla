-------------------------------- MODULE Fifo --------------------------------
(***************************************************************************)
(* What UnboundedQueue of src/threading/unbounded_queue.rs promises to its *)
(* users: chains of nodes go in at the back as a whole, and single nodes   *)
(* come out at the front, in the same order and once each.                 *)
(***************************************************************************)
EXTENDS Sequences, Integers

CONSTANTS Nodes, MaxChain

VARIABLE items   \* the nodes in the queue, oldest first

\* Distinct nodes, linked to each other.
Chains == {s \in UNION {[1..k -> Nodes] : k \in 1..MaxChain} :
             \A i, j \in DOMAIN s : s[i] = s[j] => i = j}

FifoInit == items = <<>>

Put == \E chain \in Chains : items' = items \o chain

Take == items # <<>> /\ items' = Tail(items)

FifoSpec == FifoInit /\ [][Put \/ Take]_items
=============================================================================
