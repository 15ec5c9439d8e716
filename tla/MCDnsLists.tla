----------------------------- MODULE MCDnsLists ------------------------------
(* A small instance of DnsLists for TLC. *)
EXTENDS DnsLists, TLC
==============================================================================
