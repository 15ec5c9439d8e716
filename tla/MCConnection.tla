---------------------------- MODULE MCConnection ----------------------------
(* A small instance of Connection for TLC. *)
EXTENDS Connection

(* The hooks that have a plugin; quit has two, so that one is left to run   *)
(* when the next QUIT comes.                                                *)
MCPlugins == [h \in Hooks |->
  CASE h \in {"quit"} -> 2
    [] h \in {"connect", "rcpt", "queue", "deny", "reset_transaction", "disconnect"} -> 1
    [] OTHER -> 0]

MCAnswers == [h \in Hooks |->
  CASE h = "deny" -> {"CONT", "OK"}
    [] h \in {"quit", "reset_transaction", "disconnect"} -> {"CONT"}
    [] h = "rcpt" -> {"CONT", "OK", "DENY"}
    [] h = "queue" -> {"CONT", "OK"}
    [] OTHER -> {"CONT", "DENY"}]
=============================================================================
