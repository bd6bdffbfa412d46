------------------------------ MODULE MCRwLock ------------------------------
(* Three threads that ask for the lock four times between them, in any of the
   four ways: a writer that waits, a reader that comes late, and one more. *)
EXTENDS RwLock

=============================================================================
