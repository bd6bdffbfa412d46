---------------------------- MODULE MCRunBuffer ----------------------------
(* Workers whose rings have indices that are about to wrap. *)
EXTENDS RunBuffer, TLC

Symmetry == Permutations(Threads)

=============================================================================
