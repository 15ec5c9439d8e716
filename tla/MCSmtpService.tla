---------------------------- MODULE MCSmtpService ----------------------------
(* A small instance of SmtpService for TLC: ann writes to bob, bob answers,   *)
(* and ann writes to a noreply address; ann has two tabs.                     *)
EXTENDS SmtpService

CONSTANTS ann, bob, noreply, tab1, tab2, laptop, letter, answer, lost

MCOwner == [s \in Socket |-> IF s = laptop THEN bob ELSE ann]
MCFrom  == [m \in Letter |-> IF m = answer THEN bob ELSE ann]
MCTo    == [m \in Letter |-> IF m = letter THEN bob ELSE IF m = answer THEN ann ELSE noreply]
==============================================================================
