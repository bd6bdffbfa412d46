---------------------------- MODULE MCThreadPool ----------------------------
(***************************************************************************)
(* Instances of the thread pool.                                           *)
(***************************************************************************)
EXTENDS ThreadPool, TLC

CONSTANTS a, b, k1, k2, k3

\* The callback of a schedules three tasks, one more than a buffer of two can
\* hold: the buffer overflows into the run queue of the worker.
FamilyTasks == {a, k1, k2, k3}
FamilyBatches == {{a}}
FamilyKids == [k \in Tasks |-> IF k = a THEN {k1, k2, k3} ELSE {}]

\* Two batches that the owner schedules one after the other.
PairTasks == {a, b}
PairBatches == {{a}, {b}}
NoKids == [k \in Tasks |-> {}]

\* A single task is enough to start both workers.
SoloTasks == {a}
SoloBatches == {{a}}

Symmetry == Permutations({k1, k2, k3})
=============================================================================
