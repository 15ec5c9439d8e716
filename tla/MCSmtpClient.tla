----------------------------- MODULE MCSmtpClient -----------------------------
(* A small instance of SmtpClient for TLC. *)
EXTENDS SmtpClient

(* The deployed settings (config/smtp_forward.ini) with and without TLS on  *)
(* the other side, all recipients in one message, and AUTH either way. With *)
(* two connections the pool keeps one for itself and the second mail waits; *)
(* with three both mails have a client.                                     *)
Deployed == [one_message_per_rcpt |-> TRUE, enable_tls |-> TRUE, auth |-> "none",
             max_connections |-> 2, offers |-> {"STARTTLS"}]
MCConfigs ==
  {Deployed,
   [Deployed EXCEPT !.offers = {}, !.max_connections = 3],
   [Deployed EXCEPT !.offers = {"XCLIENT"}],
   [Deployed EXCEPT !.one_message_per_rcpt = FALSE, !.offers = {}],
   [Deployed EXCEPT !.auth = "plain", !.offers = {"STARTTLS", "AUTH"}],
   [Deployed EXCEPT !.auth = "login", !.enable_tls = FALSE, !.offers = {"AUTH"}]}
=============================================================================
