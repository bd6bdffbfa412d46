--------------------------- MODULE MCEventTokens ---------------------------
(***************************************************************************)
(* Event with waiters, a notifier and a thread that shuts it down.         *)
(***************************************************************************)
EXTENDS Event
=============================================================================
