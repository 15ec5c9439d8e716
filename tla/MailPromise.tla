------------------------------ MODULE MailPromise ------------------------------
(***************************************************************************)
(* What a sender may rely on once the outbound queue has answered, whatever *)
(* it does with files, timers, splits and bounces: nothing goes out before  *)
(* the answer, or after a refusal; a recipient gets the mail or is given up *)
(* (the sender is told, or nobody can be), and this once and for all. Only  *)
(* after a crash, or when a server took it unnoticed, may he get it twice,  *)
(* and only then or after an error while the mail was split may one be      *)
(* given up who has it. OutboundQueue implements this.                      *)
(***************************************************************************)
EXTENDS Naturals

CONSTANT Rcpt  (* the recipients *)

VARIABLES
  answer,    (* none yet, ok, refused, or lost in a crash                  *)
  served,    (* how often each recipient got the mail                      *)
  failed,    (* who was given up                                           *)
  unnoticed, (* for whom a server took the mail and it was not noticed     *)
  crashed,   (* the process has ended and was started again                *)
  mistaken   (* splitting a mail has failed                                *)

vars == <<answer, served, failed, unnoticed, crashed, mistaken>>

Init ==
  /\ answer = "none" /\ served = [r \in Rcpt |-> 0] /\ failed = {}
  /\ unnoticed = {} /\ crashed = FALSE /\ mistaken = FALSE

Answer ==
  /\ answer = "none" /\ answer' \in {"ok", "refused"}
  /\ UNCHANGED <<served, failed, unnoticed, crashed, mistaken>>

(* The mail is out of the hand of the client: accepted, or left by a crash. *)
Underway == answer = "ok" \/ crashed

Serve(S) ==
  /\ Underway
  /\ \A r \in S : served[r] = 0 \/ crashed \/ r \in unnoticed
  /\ \A r \in S : r \notin failed \/ crashed \/ mistaken
  /\ served' = [r \in Rcpt |-> IF r \in S THEN served[r] + 1 ELSE served[r]]
  /\ unnoticed' \in {unnoticed, unnoticed \cup S}
  /\ UNCHANGED <<answer, failed, crashed, mistaken>>

GiveUp(S) ==
  /\ Underway
  /\ \A r \in S : served[r] = 0 \/ crashed \/ mistaken' \/ r \in unnoticed
  /\ failed' = failed \cup S /\ mistaken' \in {mistaken, TRUE}
  /\ UNCHANGED <<answer, served, unnoticed, crashed>>

Crash ==
  /\ crashed' = TRUE
  /\ answer' = IF answer = "none" THEN "lost" ELSE answer
  /\ UNCHANGED <<served, failed, unnoticed, mistaken>>

Next == Answer \/ Crash \/ \E S \in SUBSET Rcpt : Serve(S) \/ GiveUp(S)

Spec == Init /\ [][Next]_vars
=============================================================================
