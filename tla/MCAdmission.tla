----------------------------- MODULE MCAdmission -----------------------------
(* A small instance of Admission for TLC. *)
EXTENDS Admission

(* As deployed (a sender without an MX may come again, a mismatch is only   *)
(* noted), and with each of the settings the other way.                     *)
Deployed == [reject_no_mx |-> FALSE, allow_mx_ip |-> TRUE, reject_mismatch |-> FALSE]
MCSettings ==
  {Deployed,
   [Deployed EXCEPT !.reject_mismatch = TRUE],
   [Deployed EXCEPT !.reject_no_mx = TRUE, !.allow_mx_ip = FALSE]}
==============================================================================
