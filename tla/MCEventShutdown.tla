-------------------------- MODULE MCEventShutdown --------------------------
(***************************************************************************)
(* Event with one notifier and one thread that shuts it down: the instance *)
(* in which shutdown() may follow a notify() before anybody woke up.       *)
(***************************************************************************)
EXTENDS Event
=============================================================================
