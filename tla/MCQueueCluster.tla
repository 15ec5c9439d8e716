--------------------------- MODULE MCQueueCluster ---------------------------
(* A small instance of QueueCluster for TLC: old processes have numbers that *)
(* no new one has. *)
EXTENDS QueueCluster

CONSTANTS f1

Before == {101, 102}
=============================================================================
