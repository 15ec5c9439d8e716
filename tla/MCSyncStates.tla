----------------------------- MODULE MCSyncStates -----------------------------
(* A small instance of SyncStates for TLC: ann has three tabs, bob one.       *)
EXTENDS SyncStates, TLC

CONSTANTS ann, bob, tab1, tab2, tab3, laptop

MCOwner == [s \in Socket |-> IF s = laptop THEN {bob} ELSE {ann}]

(* ann's tabs are interchangeable. *)
TabSymmetry == Permutations({tab1, tab2, tab3})
===============================================================================
