---------------------------- MODULE MCOutboundQueue ----------------------------
(* A small instance of OutboundQueue for TLC: the two recipients share a domain *)
(* or not. *)
EXTENDS OutboundQueue

CONSTANTS ann, bob

OneDomainOrTwo == {<<{ann, bob}>>, <<{ann}, {bob}>>}
=================================================================================
