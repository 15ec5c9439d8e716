----------------------------- MODULE MCAssistant -----------------------------
(* A small instance of Assistant for TLC. *)
EXTENDS Assistant

CONSTANTS r1, r2

(* One meeting wants a guest, the other nobody. *)
MCWanted == [r \in Room |-> IF r = r1 THEN Guest ELSE {}]
==============================================================================
