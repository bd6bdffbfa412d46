---------------------------- MODULE MCMySQLQueue ----------------------------
(* A query that is sent as text and three that share one prepared statement, one
   of which cannot be bound. *)
EXTENDS MySQLQueue

CONSTANTS text, good, good2, bad, stmt

MCSignature == [q \in Queries \ Simple |-> stmt]

=============================================================================
