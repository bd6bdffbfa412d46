------------------------- MODULE MCTestCoordinator -------------------------
(* Two slots and three files, one and two: with and without --bail=1, two workers
   that die or corrupt their pipe, one process that cannot be spawned. *)
EXTENDS TestCoordinator

=============================================================================
