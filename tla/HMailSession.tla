----------------------------- MODULE HMailSession -----------------------------
(***************************************************************************)
(* One attempt to deliver one queued mail: HMailItem in                    *)
(* email/outbound/hmail.js, from get_mx to the call that gives the mail a  *)
(* verdict. The hosts of all MXs are tried one after the other; with each  *)
(* the client and the remote server talk SMTP or LMTP, one command and one *)
(* reply at a time, over a new connection or one from the pool.            *)
(*                                                                         *)
(* A verdict is what the queue acts on: temp_fail (deferred), bounce       *)
(* (bounced), or finish_processing_mail (finished), which sorts the        *)
(* recipients into ok, fail and bounce. The server's words are remembered  *)
(* in said and accepted to compare them with.                              *)
(***************************************************************************)
EXTENDS Naturals, Sequences, SequencesExt

CONSTANTS
  NumRcpts,        (* the recipients of the mail are 1..NumRcpts           *)
  MaxHosts,        (* bound: hosts of all MXs together                     *)
  Options          (* the settings the attempt may be made with, and what  *)
                   (* replies its servers give                             *)

(* 250, another 2xx, 3xx, 4xx, 5xx, and a line smtp_regexp does not match *)
ReplyKinds == {"250", "251", "3xx", "4xx", "5xx", "bad"}

(* What a server answers by the letter of SMTP. *)
Orderly == {"250", "4xx", "5xx"}

ASSUME SizesTyped   == NumRcpts \in Nat \ {0} /\ MaxHosts \in Nat
ASSUME OptionsTyped ==
  Options \subseteq [lmtp : BOOLEAN, pooling : BOOLEAN, forceTls : BOOLEAN,
                    enableTls : BOOLEAN, hasAuth : BOOLEAN, codes : SUBSET ReplyKinds]

VARIABLES
  option,      (* the settings of this attempt                             *)
  cmd,         (* the command whose reply is awaited, or where the code is *)
  hosts,       (* hosts not tried yet                                      *)
  processing,  (* processing_mail of the present connection                *)
  secured,     (* TLS was negotiated                                       *)
  safe,        (* isSecure(): and the server's certificate was authorized  *)
  index,       (* recip_index                                              *)
  okRecips, failRecips, bounceRecips,
  lmtpIdx,     (* lmtp_rcpt_idx                                            *)
  verdicts,    (* what this attempt told the queue                         *)
  agreed,      (* server: the recipients it took at RCPT, in order         *)
  said,        (* server: its last word on a recipient in this session     *)
  accepted,    (* history: times a server took the mail for a recipient    *)
  cutShort     (* history: a connection was lost after one had taken it    *)

progress   == <<index, okRecips, failRecips, bounceRecips, lmtpIdx>>
server     == <<agreed, said, accepted, cutShort>>
connection == <<secured, safe>>
vars       == <<option, cmd, hosts, processing, verdicts, progress, server, connection>>

Rcpts == 1..NumRcpts

Lmtp      == option.lmtp       (* mx.using_lmtp                            *)
Pooling   == option.pooling    (* pool_concurrency_max is not 0            *)
ForceTls  == option.forceTls   (* todo.force_tls, or force_tls_hosts       *)
EnableTls == option.enableTls  (* enable_tls                               *)
HasAuth   == option.hasAuth    (* the MX has auth_user and auth_pass       *)

Commands == {"connect", "ehlo", "lhlo", "helo", "starttls", "upgrade", "auth", "mail", "rcpt",
             "data", "dot", "dot_lmtp", "rset", "quit"}

Success(code) == code \in {"250", "251"}

(* send_command refuses to write to an insecure socket if TLS is forced.    *)
(* Mutant: it does not.                                                     *)
Blocked_Never(c) == FALSE

Blocked(c) == ForceTls /\ c \notin {"ehlo", "starttls"} /\ ~safe

(* send_command while the mail is processed *)
Say(c) == IF Blocked(c) THEN cmd' = "none" /\ processing' = FALSE
                        ELSE cmd' = c /\ processing' = TRUE

(* send_command, processing_mail being reset: the mail has its verdict.     *)
(* Mutant: it is not reset.                                                 *)
SayLast_Processing(c) == cmd' = c /\ processing' = TRUE

SayLast(c) == cmd' = (IF Blocked(c) THEN "none" ELSE c) /\ processing' = FALSE

Hello == IF Lmtp THEN "lhlo" ELSE "ehlo"

Judge(verdict) == verdicts' = verdicts \cup {verdict}

(* temp_fail or bounce of the whole mail because of a reply *)
GiveUp(verdict) ==
  /\ SayLast(IF Pooling /\ ~Lmtp THEN "rset" ELSE "quit")
  /\ Judge(verdict)

(* finish_processing_mail: who failed is split off, and the rest delivered  *)
(* or discarded.                                                            *)
FinishProcessingMail(success) ==
  /\ Judge("finished")
  /\ IF Pooling /\ success THEN cmd' = "none" /\ processing' = FALSE
     ELSE SayLast(IF Pooling /\ ~Lmtp THEN "rset" ELSE "quit")
-----------------------------------------------------------------------------
Nothing == [r \in Rcpts |-> "nothing"]

Init ==
  /\ option \in Options
  /\ cmd = "mx" /\ hosts = 0 /\ processing = FALSE
  /\ secured = FALSE /\ safe = FALSE
  /\ index = 0 /\ okRecips = <<>> /\ failRecips = {} /\ bounceRecips = {} /\ lmtpIdx = 0
  /\ verdicts = {}
  /\ agreed = <<>> /\ said = Nothing /\ accepted = [r \in Rcpts |-> 0] /\ cutShort = FALSE

(* get_mx_respond, found_mx: there is no such domain, the lookup failed for *)
(* now, or there are hosts to try.                                          *)
FoundMx ==
  /\ cmd = "mx"
  /\ \/ \E verdict \in {"bounced", "deferred"} :
          Judge(verdict) /\ cmd' = "none" /\ UNCHANGED hosts
     \/ \E n \in 0..MaxHosts : hosts' = n /\ cmd' = "host" /\ UNCHANGED verdicts
  /\ UNCHANGED <<processing, progress, server, connection>>

(* try_deliver *)
TriedAllMXs ==
  /\ cmd = "host" /\ hosts = 0
  /\ cmd' = "none" /\ Judge("deferred")
  /\ UNCHANGED <<hosts, processing, progress, server, connection>>

(* hostlist.shift() and mxlist.shift(); mutant: the host stays in the list. *)
HostsLeft_Same == hosts

HostsLeft == hosts - 1

(* try_deliver_host and get_client: no connection, a new one, or one from   *)
(* the pool, which goes straight to MAIL.                                   *)
TryDeliverHost ==
  /\ cmd = "host" /\ hosts > 0
  /\ hosts' = HostsLeft
  /\ UNCHANGED <<verdicts, accepted, cutShort>>
  /\ \/ UNCHANGED <<cmd, processing, progress, agreed, said, connection>>
     \/ /\ index' = 0 /\ okRecips' = <<>> /\ failRecips' = {} /\ bounceRecips' = {} /\ lmtpIdx' = 0
        /\ agreed' = <<>> /\ said' = Nothing
        /\ \/ cmd' = "connect" /\ processing' = TRUE /\ secured' = FALSE /\ safe' = FALSE
           \/ /\ Pooling
              /\ \E encrypted \in BOOLEAN, authorized \in BOOLEAN :
                   /\ secured' = encrypted
                   /\ safe' = (encrypted /\ authorized)
                   /\ IF ForceTls /\ ~safe' THEN cmd' = "none" /\ processing' = FALSE
                                            ELSE cmd' = "mail" /\ processing' = TRUE
-----------------------------------------------------------------------------
(* Replies: a line is read while the mail is processed, or after RSET.      *)
Awaited(c) == cmd = c /\ processing

Greeted(code) ==
  /\ Awaited("connect") /\ Success(code)
  /\ Say(Hello)
  /\ UNCHANGED <<hosts, verdicts, progress, server, connection>>

(* auth_and_mail_phase *)
AuthAndMailPhase ==
  \/ Say("mail")
  \/ HasAuth /\ Say("auth")

(* process_ehlo_data: TLS is forced, or used if it is enabled, offered and  *)
(* not excluded for this host.                                              *)
ProcessEhloData(code) ==
  /\ \E c \in {"ehlo", "lhlo"} : Awaited(c)
  /\ Success(code)
  /\ UNCHANGED <<hosts, progress, server, connection>>
  /\ \E usable \in BOOLEAN :
       \/ (secured \/ (~ForceTls /\ ~(EnableTls /\ usable))) /\ AuthAndMailPhase /\ UNCHANGED verdicts
       \/ ~secured /\ EnableTls /\ usable /\ Say("starttls") /\ UNCHANGED verdicts
       \/ ~secured /\ ForceTls /\ ~(EnableTls /\ usable)
            /\ cmd' = "none" /\ processing' = FALSE /\ Judge("deferred")

StartTls(code) ==
  /\ Awaited("starttls") /\ Success(code)
  /\ Say("upgrade")
  /\ UNCHANGED <<hosts, verdicts, progress, server, connection>>

(* The callbacks of socket.upgrade: an unauthorized server will not do if   *)
(* TLS is forced; the others are greeted again.                             *)
Upgraded ==
  /\ Awaited("upgrade")
  /\ secured' = TRUE /\ safe' \in BOOLEAN
  /\ UNCHANGED <<hosts, progress, server>>
  /\ IF ForceTls /\ ~safe'
     THEN cmd' = "none" /\ processing' = FALSE /\ Judge("deferred")
     ELSE cmd' = Hello /\ UNCHANGED <<processing, verdicts>>

(* AUTH and HELO were accepted. *)
Introduced(code) ==
  /\ \E c \in {"auth", "helo"} : Awaited(c)
  /\ Success(code)
  /\ Say("mail")
  /\ UNCHANGED <<hosts, verdicts, progress, server, connection>>

MailTaken(code) ==
  /\ Awaited("mail") /\ Success(code)
  /\ index' = 1 /\ Say("rcpt")
  /\ UNCHANGED <<hosts, verdicts, okRecips, failRecips, bounceRecips, lmtpIdx, server, connection>>

(* The recipients a reply to RCPT adds to ok_recips; mutant: all not refused. *)
Granted_Loosely(code) == IF code \in {"250", "4xx"} THEN <<index>> ELSE <<>>

Granted(code) == IF code = "250" THEN <<index>> ELSE <<>>

(* The end of the RCPT TOs. *)
LastRcpt == index = NumRcpts

RcptReply(code) ==
  /\ Awaited("rcpt") /\ code \in {"250", "251", "4xx", "5xx"}
  /\ okRecips'     = okRecips \o Granted(code)
  /\ failRecips'   = IF code = "4xx" THEN failRecips \cup {index} ELSE failRecips
  /\ bounceRecips' = IF code = "5xx" THEN bounceRecips \cup {index} ELSE bounceRecips
  /\ agreed'       = IF Success(code) THEN Append(agreed, index) ELSE agreed
  /\ said'         = [said EXCEPT ![index] = IF code = "4xx" THEN "deferred"
                                             ELSE IF code = "5xx" THEN "refused" ELSE @]
  /\ UNCHANGED <<hosts, lmtpIdx, accepted, cutShort, connection>>
  /\ \/ ~LastRcpt /\ index' = index + 1 /\ Say("rcpt") /\ UNCHANGED verdicts
     \/ /\ LastRcpt /\ UNCHANGED index
        /\ \/ okRecips' # <<>> /\ Say("data") /\ UNCHANGED verdicts
           \/ okRecips' = <<>> /\ FinishProcessingMail(FALSE)

DataReply(code) ==
  /\ Awaited("data") /\ (Success(code) \/ code = "3xx")
  /\ Say(IF Lmtp THEN "dot_lmtp" ELSE "dot")
  /\ UNCHANGED <<hosts, verdicts, progress, server, connection>>

(* The server has the mail: for every recipient it agreed to (SMTP), or for *)
(* the one it answers for (LMTP).                                           *)
Taken(rcpts) ==
  /\ accepted' = [r \in Rcpts |-> IF r \in rcpts THEN accepted[r] + 1 ELSE accepted[r]]
  /\ said'     = [r \in Rcpts |-> IF r \in rcpts THEN "taken" ELSE said[r]]

DotReply(code) ==
  /\ Awaited("dot") /\ Success(code)
  /\ Taken(Range(agreed))
  /\ FinishProcessingMail(TRUE)
  /\ UNCHANGED <<hosts, progress, agreed, cutShort, connection>>

(* LMTP: one reply for each recipient the server agreed to, in order. *)
Answered == Cardinality({r \in Range(agreed) : said[r] # "nothing"})

AllAnswered == lmtpIdx' = Len(okRecips')

DotLmtpReply(code) ==
  /\ Awaited("dot_lmtp") /\ code \in {"250", "251", "4xx", "5xx"}
  /\ Answered < Len(agreed)
  /\ LET r == agreed[Answered + 1]
     IN  IF Success(code) THEN Taken({r})
         ELSE /\ said' = [said EXCEPT ![r] = IF code = "4xx" THEN "deferred" ELSE "refused"]
              /\ UNCHANGED accepted
  /\ lmtpIdx'      = IF Success(code) THEN lmtpIdx + 1 ELSE lmtpIdx
  /\ okRecips'     = IF Success(code) THEN okRecips ELSE Tail(okRecips)
  /\ failRecips'   = IF code = "4xx" THEN failRecips \cup {Head(okRecips)} ELSE failRecips
  /\ bounceRecips' = IF code = "5xx" THEN bounceRecips \cup {Head(okRecips)} ELSE bounceRecips
  /\ UNCHANGED <<hosts, index, agreed, cutShort, connection>>
  /\ \/ okRecips' = <<>> /\ FinishProcessingMail(FALSE)
     \/ okRecips' # <<>> /\ AllAnswered /\ FinishProcessingMail(TRUE)
     \/ okRecips' # <<>> /\ ~AllAnswered /\ UNCHANGED <<cmd, processing, verdicts>>
-----------------------------------------------------------------------------
(* Replies that end the attempt for the whole mail. *)
Upset(code) ==
  /\ processing
  /\ UNCHANGED <<hosts, progress, server, connection>>
  /\ \/ /\ code = "3xx" /\ cmd \notin {"data", "upgrade"}
        /\ GiveUp("deferred")
     \/ /\ code = "4xx" /\ cmd \notin {"rcpt", "dot_lmtp", "upgrade"}
        /\ GiveUp("deferred")
     \/ /\ code = "5xx" /\ cmd \notin {"ehlo", "rcpt", "dot_lmtp", "upgrade"}
        /\ GiveUp("bounced")
     \/ /\ code = "bad" /\ cmd # "upgrade"
        /\ cmd' = "none" /\ processing' = FALSE /\ Judge("bounced")

(* EHLO was refused: fall back to HELO. *)
FallBack(code) ==
  /\ Awaited("ehlo") /\ code = "5xx"
  /\ Say("helo")
  /\ UNCHANGED <<hosts, verdicts, progress, server, connection>>

(* The reply to the RSET of a mail that has its verdict already goes        *)
(* through the same code.                                                   *)
ResetReply(code) ==
  /\ cmd = "rset"
  /\ UNCHANGED <<hosts, processing, progress, server, connection>>
  /\ \/ code \in {"250", "251", "4xx", "5xx"} /\ cmd' = "none" /\ UNCHANGED verdicts
     \/ code = "3xx" /\ UNCHANGED cmd /\ Judge("deferred")
     \/ code = "bad" /\ cmd' = "none" /\ Judge("bounced")

(* The connection is closed, fails or times out. While the mail is          *)
(* processed the next host is tried, though the server may have taken it,   *)
(* and with LMTP may have said so for some of the recipients.               *)
(* Mutant: the next host is tried whether the mail is processed or not.     *)
Concerned_Always == cmd \in Commands

Concerned == processing

Lose ==
  /\ Concerned
  /\ cmd' = "host" /\ processing' = FALSE
  /\ UNCHANGED <<hosts, verdicts, progress, agreed, said, connection>>
  /\ \/ /\ cutShort' = (cutShort \/ (cmd = "dot_lmtp" /\ \E r \in Rcpts : said[r] = "taken"))
        /\ UNCHANGED accepted
     \/ /\ cmd \in {"dot", "dot_lmtp"}
        /\ cutShort' = TRUE
        /\ accepted' = [r \in Rcpts |-> IF r \in Range(agreed) /\ said[r] = "nothing"
                                        THEN accepted[r] + 1 ELSE accepted[r]]

(* After RSET or QUIT it is only given back. *)
Close ==
  /\ cmd \in {"rset", "quit"}
  /\ cmd' = "none"
  /\ UNCHANGED <<hosts, processing, verdicts, progress, server, connection>>

Reply(code) ==
  \/ Greeted(code) \/ ProcessEhloData(code) \/ StartTls(code) \/ Introduced(code)
  \/ MailTaken(code) \/ RcptReply(code) \/ DataReply(code) \/ DotReply(code)
  \/ DotLmtpReply(code) \/ Upset(code) \/ FallBack(code) \/ ResetReply(code)

Next ==
  /\ UNCHANGED option
  /\ \/ FoundMx \/ TriedAllMXs \/ TryDeliverHost \/ Upgraded \/ Lose \/ Close
     \/ \E code \in option.codes : Reply(code)

(* A connection has a timeout, so every wait ends with a reply or without. *)
Spec == Init /\ [][Next]_vars /\ WF_vars(Next)
-----------------------------------------------------------------------------
(* The types, and where in the dialogue which lists may be filled. *)
TypeOK ==
  /\ option \in Options
  /\ cmd \in Commands \cup {"mx", "host", "none"}
  /\ hosts \in 0..MaxHosts
  /\ processing \in BOOLEAN /\ secured \in BOOLEAN /\ safe \in BOOLEAN /\ cutShort \in BOOLEAN
  /\ processing => cmd \in Commands \ {"rset", "quit"}
  /\ index \in 0..NumRcpts /\ (cmd = "rcpt" => index > 0)
  /\ okRecips \in Seq(1..index) /\ Len(okRecips) <= NumRcpts
  /\ failRecips \cup bounceRecips \subseteq 1..index
  /\ lmtpIdx \in 0..NumRcpts
  /\ verdicts \subseteq {"bounced", "deferred", "finished"}
  /\ agreed \in Seq(1..index) /\ Len(agreed) <= NumRcpts
  /\ said \in [Rcpts -> {"nothing", "taken", "deferred", "refused"}]
  /\ accepted \in [Rcpts -> Nat]

Finished == "finished" \in verdicts

(* When finish_processing_mail sorts the recipients, nobody is left out: who *)
(* was not delivered to is tried again or bounced. With SMTP they are sorted *)
(* as the server said: those it took are delivered, those it put off tried   *)
(* again, those it refused bounced, as docs/Outbound.md promises of the      *)
(* ok_recips handed to the delivered hook. With LMTP, where the code mixes   *)
(* them up, at least nobody is sorted before the server spoke of him. It does *)
(* not hold where a RCPT is answered 251, which puts him in no list.          *)
SortedAsSaid ==
  /\ Range(okRecips) = {r \in Rcpts : said[r] = "taken"}
  /\ failRecips      = {r \in Rcpts : said[r] = "deferred"}
  /\ bounceRecips    = {r \in Rcpts : said[r] = "refused"}

EveryoneHeard == \A r \in Range(agreed) : said[r] # "nothing"

VerdictsTruthful ==
  Finished =>
    /\ Range(okRecips) \cup failRecips \cup bounceRecips = Rcpts
    /\ IF Lmtp THEN EveryoneHeard ELSE SortedAsSaid

(* No recipient gets the mail twice from one attempt, over all the hosts it *)
(* tries, and a mail that is bounced or put off as a whole was taken for    *)
(* nobody, unless a connection was lost after a server had taken the data.  *)
TakenOnce ==
  ~cutShort =>
    /\ \A r \in Rcpts : accepted[r] <= 1
    /\ verdicts \ {"finished"} # {} => \A r \in Rcpts : accepted[r] = 0

(* An attempt ends with one verdict: a mail that was put off or delivered   *)
(* is not bounced, nor put off again, by what comes after, if the servers   *)
(* answer by the letter.                                                    *)
OneVerdict == option.codes \subseteq Orderly => Cardinality(verdicts) <= 1

(* A mail whose TLS is forced is never spoken of over a connection that is  *)
(* not encrypted and authorized.                                            *)
ForcedTlsKept == ForceTls /\ cmd \in {"mail", "rcpt", "data", "dot", "dot_lmtp"} => safe

(* Whatever the servers answer, and however connections fail, the attempt   *)
(* comes to a verdict: without one the queue would keep the mail and its    *)
(* slot for ever. If TLS is forced, a command that may not be sent has none.*)
Decided == ForceTls \/ <>(verdicts # {})
=============================================================================
