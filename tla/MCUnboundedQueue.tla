-------------------------- MODULE MCUnboundedQueue --------------------------
(* Three producers and four nodes that are pushed again and again. *)
EXTENDS UnboundedQueue

=============================================================================
