------------------------------ MODULE SmtpClient ------------------------------
(***************************************************************************)
(* Forwarding a mail to a backend while its sender waits:                  *)
(* email/smtp_client.js, the client and the pool it comes from, driven by  *)
(* the queue hook of email/plugins/queue/smtp_forward.js.                  *)
(*                                                                         *)
(* An event on a client's socket runs every listener of the client before  *)
(* the next event, so an event is one action. The listeners are operators  *)
(* from the client's record to the one they leave; what they answer to the *)
(* hook and what they throw is noted in the record and taken from there by *)
(* Handled.                                                                *)
(***************************************************************************)
EXTENDS Integers, Sequences, FiniteSets

CONSTANTS
  Mails,     (* bound: mails one connection sends, in order                *)
  Rcpts,     (* recipients of a mail                                       *)
  Configs    (* the settings and what the backend offers                   *)

Offers == {"XCLIENT", "STARTTLS", "AUTH"}
Config == [one_message_per_rcpt : BOOLEAN, enable_tls : BOOLEAN,
           auth : {"none", "plain", "login"}, max_connections : Nat \ {0},
           offers : SUBSET Offers]

ASSUME BoundsTyped  == Mails \in Nat /\ Rcpts \in Nat \ {0}
ASSUME ConfigsTyped == Configs \subseteq Config

VARIABLES
  cfg,          (* one of Configs, for the whole run                       *)
  transaction,  (* the mail the connection is at, 0 when there is none     *)
  gone,         (* the connection that sends the mails has ended           *)
  hook,         (* the queue hook of each mail: what it was answered       *)
  borrowed,     (* the clients the pool counts as in use                   *)
  waiting,      (* mails that wait for a client, the oldest first          *)
  client,
  taken,        (* history: the messages the backend took from a client    *)
  crashed       (* history: an exception nobody catches ended the process  *)

vars == <<cfg, transaction, gone, hook, borrowed, waiting, client, taken, crashed>>

Mail == 1..Mails
Rcpt == 1..Rcpts
Own  == 0                       (* the client the pool acquires for itself *)
Client == {Own} \cup Mail       (* a mail has a client of its own          *)

Command == {"greeting", "ehlo", "helo", "xclient", "starttls", "auth", "user", "pass",
            "mail", "rcpt", "data", "dot", "rset"}
Pending == {"no", "waiting", "timeout"}
Answer  == {"NEXT", "OK", "DENY", "DENYSOFT"}

(* What is on its way to the backend: a command, with the mail whose sender *)
(* MAIL names or the recipient RCPT names.                                  *)
Line == [command : Command, arg : 0..(Mails + Rcpts)]

NewClient == [state |-> "IDLE", pool |-> FALSE, socket |-> "open", command |-> "greeting",
              connected |-> FALSE, secured |-> "absent", xclient |-> FALSE, auth |-> "no",
              auth_capability |-> FALSE, next |-> FALSE, listeners |-> "none", rcpt |-> 0,
              wire |-> <<[command |-> "greeting", arg |-> 0]>>, txn |-> 0, from |-> 0, to |-> {},
              answer |-> "none", throws |-> FALSE]
NoClient == [NewClient EXCEPT !.socket = "none", !.wire = <<>>]

(* txn is the mail whose hook made the client's listeners. answer and throws*)
(* are empty but while the listeners of an event run.                       *)
ClientRecord ==
  [state : {"IDLE", "ACTIVE", "RELEASED", "DESTROYED"}, pool : BOOLEAN,
   socket : {"none", "open", "upgrading", "closed"}, command : Command,
   connected : BOOLEAN, secured : {"absent", "pending", "yes"}, xclient : BOOLEAN,
   auth : {"no", "authenticating", "authenticated"}, auth_capability : BOOLEAN,
   next : BOOLEAN, listeners : {"none", "plugin", "released"}, rcpt : 0..Rcpts,
   wire : Seq(Line), txn : 0..Mails, from : 0..Mails, to : SUBSET Rcpt,
   answer : {"none"} \cup Answer, throws : BOOLEAN]

TypeOK ==
  /\ cfg \in Configs /\ transaction \in 0..Mails /\ gone \in BOOLEAN /\ crashed \in BOOLEAN
  /\ hook \in [Mail -> Pending \cup Answer]
  /\ borrowed \subseteq Client /\ Cardinality(borrowed) <= cfg.max_connections
  /\ waiting \in Seq(Mail)
  /\ client \in [Client -> {k \in ClientRecord : k.answer = "none" /\ ~k.throws}]
  /\ taken \in [Mail -> Seq([from : 0..Mails, to : SUBSET Rcpt])]

Init ==
  /\ cfg \in Configs /\ transaction = 0 /\ gone = FALSE /\ crashed = FALSE
  /\ hook = [m \in Mail |-> "no"]
  /\ borrowed = {} /\ waiting = <<>>
  /\ client = [c \in Client |-> NoClient]
  /\ taken = [m \in Mail |-> <<>>]

-----------------------------------------------------------------------------
(* The methods of a client                                                  *)

SendCommand(k, cmd, arg) ==
  [k EXCEPT !.command = cmd, !.wire = Append(@, [command |-> cmd, arg |-> arg])]

Throw(k) == [k EXCEPT !.throws = TRUE]

Destroy(k) ==
  IF k.state # "DESTROYED" /\ k.pool
  THEN [k EXCEPT !.state = "DESTROYED", !.socket = "closed", !.wire = <<>>]
  ELSE k

Release(k) ==
  IF ~k.connected \/ k.command = "data" THEN Destroy(k)
  ELSE IF k.state = "DESTROYED" THEN k
  ELSE SendCommand([k EXCEPT !.state = "RELEASED", !.listeners = "released"], "rset", 0)

CallNext(k, retval) ==
  IF k.next THEN [k EXCEPT !.next = FALSE, !.answer = retval] ELSE k

(* is_dead_sender asks whether the connection has a transaction, not which. *)
UnlessDeadSender(k, after) == IF transaction = 0 THEN Release(k) ELSE after

(* emit('error'): with no listener it is thrown.                            *)
Error(k) == IF k.listeners = "plugin" THEN CallNext(k, "NEXT") ELSE Throw(k)

-----------------------------------------------------------------------------
(* The listeners smtp_forward and get_client_plugin put on a client         *)

SendMail(k) == UnlessDeadSender(k, SendCommand(k, "mail", transaction))

OnHelo(k) ==
  IF cfg.auth = "none" \/ k.auth = "authenticated" THEN SendMail(k)
  ELSE IF cfg.auth = "plain" /\ k.auth_capability THEN SendCommand(k, "auth", 0)
  ELSE Throw(k)

OnAuth(k) ==
  IF k.auth = "authenticating" THEN k
  ELSE UnlessDeadSender(k, SendCommand([k EXCEPT !.auth = "authenticated"], "mail", transaction))

onCapabilitiesOutbound(k) ==
  IF "XCLIENT" \in cfg.offers /\ ~k.xclient THEN SendCommand(k, "xclient", 0)
  ELSE IF "STARTTLS" \in cfg.offers /\ k.secured # "yes" /\ cfg.enable_tls
       THEN SendCommand([k EXCEPT !.secured = "pending"], "starttls", 0)
  ELSE [k EXCEPT !.auth_capability = "AUTH" \in cfg.offers]

(* Mutant: AUTH does not wait for the TLS that was just asked for.          *)
ForwardAuth_AtOnce(k) ==
  IF cfg.auth = "none" THEN k
  ELSE SendCommand(IF cfg.auth = "login" THEN [k EXCEPT !.auth = "authenticating"] ELSE k,
                   "auth", 0)

(* auth() of smtp_forward listens to the same event, after the other.       *)
ForwardAuth(k) ==
  IF cfg.auth = "none" \/ k.secured = "pending" THEN k
  ELSE SendCommand(IF cfg.auth = "login" THEN [k EXCEPT !.auth = "authenticating"] ELSE k,
                   "auth", 0)

OnCapabilities(k) == ForwardAuth(onCapabilitiesOutbound(k))

SendRcpt(k) ==
  UnlessDeadSender(k,
    IF k.rcpt = Rcpts THEN SendCommand(k, "data", 0)
    ELSE SendCommand([k EXCEPT !.rcpt = @ + 1], "rcpt", k.rcpt + 1))

OnRcpt(k) == IF cfg.one_message_per_rcpt THEN SendCommand(k, "data", 0) ELSE SendRcpt(k)

StartData(k) == SendCommand(k, "dot", 0)

(* Mutant: OK with the first message.                                       *)
OnDot_First(k) == UnlessDeadSender(k, Release(CallNext(k, "OK")))

OnDot(k) ==
  UnlessDeadSender(k,
    IF k.rcpt < Rcpts THEN SendCommand(k, "rset", 0) ELSE Release(CallNext(k, "OK")))

(* Of a client in use smtp_forward names the sender of its own mail.        *)
OnRset(k) ==
  CASE k.listeners = "plugin" -> UnlessDeadSender(k, SendCommand(k, "mail", k.txn))
    [] k.listeners = "released" /\ k.state # "DESTROYED" ->
         [k EXCEPT !.state = "IDLE", !.listeners = "none"]
    [] OTHER -> k

OnBadCode(k, code) ==
  CASE k.listeners = "plugin" ->
         UnlessDeadSender(k, Release(CallNext(k, IF code = "5" THEN "DENY" ELSE "DENYSOFT")))
    [] k.listeners = "released" -> Destroy(k)
    [] OTHER -> k

-----------------------------------------------------------------------------
(* What the socket's listeners do with a reply, and when the socket ends    *)

Switch(k) ==
  CASE k.command = "xclient"  -> SendCommand([k EXCEPT !.xclient = TRUE], "ehlo", 0)
    [] k.command = "starttls" -> [k EXCEPT !.socket = "upgrading"]
    [] k.command = "greeting" -> LET open == [k EXCEPT !.connected = TRUE]
                                 IN IF k.listeners = "plugin" THEN SendCommand(open, "ehlo", 0)
                                    ELSE open
    [] k.command \in {"ehlo", "helo"} -> OnHelo(k)
    [] k.command = "mail" -> SendRcpt(k)
    [] k.command = "rcpt" -> OnRcpt(k)
    [] k.command = "data" -> UnlessDeadSender(k, StartData(k))
    [] k.command = "dot"  -> OnDot(k)
    [] k.command = "rset" -> OnRset(k)
    [] k.command = "auth" -> OnAuth(k)
    [] OTHER -> Throw(k)

(* Mutant: the handler goes on after a refusal.                             *)
MayGoOn_Always(k) == TRUE

MayGoOn(k) == k.state = "ACTIVE"

Coded(k, code) ==
  IF k.command = "xclient" /\ code = "5" THEN Switch([k EXCEPT !.command = "helo"])
  ELSE IF code \in {"4", "441", "5"}
  THEN LET heard == OnBadCode(k, code)
           left  == IF code = "441" THEN Destroy(heard) ELSE heard
       IN IF MayGoOn(heard) THEN Switch(left) ELSE heard
  ELSE Switch(k)

OnLine(k, code) ==
  CASE (k.command = "auth" \/ k.auth = "authenticating") /\ code = "3user" ->
         SendCommand(k, "user", 0)
    [] (k.command = "auth" \/ k.auth = "authenticating") /\ code = "3pass" ->
         SendCommand(k, "pass", 0)
    [] k.auth = "authenticating" /\ code = "2" ->
         IF k.listeners = "plugin" THEN OnAuth([k EXCEPT !.auth = "authenticated"])
         ELSE [k EXCEPT !.auth = "authenticated"]
    [] k.auth # "authenticating" /\ k.command = "ehlo" /\ code = "5" ->
         SendCommand(k, "helo", 0)
    [] k.auth # "authenticating" /\ k.command = "ehlo" /\ code # "5" ->
         LET offered == OnCapabilities(k)
         IN IF offered.command # "ehlo" THEN offered ELSE Coded(offered, code)
    [] OTHER -> Coded(k, code)

(* closed(): what a socket that errs, times out, closes or ends does.       *)
Closed(k) ==
  CASE k.state = "ACTIVE" -> Error(k)
    [] k.state \in {"IDLE", "RELEASED"} -> Destroy(k)
    [] OTHER -> k

-----------------------------------------------------------------------------
(* The backend                                                              *)

Codes(command) ==
  CASE command = "greeting" -> {"2", "4", "441", "5"}    (* 441: Connection timed out *)
    [] command \in {"ehlo", "mail", "rcpt", "dot"} -> {"2", "4", "5"}
    [] command \in {"helo", "xclient", "starttls"} -> {"2", "5"}
    [] command = "auth" -> IF cfg.auth = "login" THEN {"3user", "5"} ELSE {"2", "5"}
    [] command = "user" -> {"3pass"}
    [] command = "pass" -> {"2", "5"}
    [] command = "data" -> {"3", "4", "5"}
    [] command = "rset" -> {"2"}

(* What the backend holds of a mail after it has replied.                   *)
Held(k, sent, code) ==
  LET rest == [k EXCEPT !.wire = Tail(@)]
  IN CASE sent.command = "mail" /\ code = "2" -> [rest EXCEPT !.from = sent.arg, !.to = {}]
       [] sent.command = "rcpt" /\ code = "2" -> [rest EXCEPT !.to = @ \cup {sent.arg}]
       [] sent.command \in {"dot", "rset", "ehlo", "helo"} -> [rest EXCEPT !.from = 0, !.to = {}]
       [] OTHER -> rest

-----------------------------------------------------------------------------
(* The pool, which is generic-pool: it makes clients up to its maximum and  *)
(* then has those who ask wait in order.                                    *)

HasRoom(inuse) == Cardinality(inuse) < cfg.max_connections

(* get_client_plugin, when the pool has given the hook of mail m a client.  *)
Acquired(k, m) == [k EXCEPT !.listeners = "plugin", !.next = TRUE, !.txn = m]

(* get_pool makes the pool with the first mail, and takes a client from it. *)
OwnClient == [NewClient EXCEPT !.pool = TRUE, !.state = "ACTIVE"]

(* The variables after the listeners have left the record k of client c. The*)
(* answer ends the transaction, for no plugin of config/plugins that queues *)
(* a mail or resets one comes after smtp_forward.                           *)
Handled(c, k) ==
  LET freed == k.state = "DESTROYED" /\ client[c].state # "DESTROYED"
      inuse == IF freed THEN borrowed \ {c} ELSE borrowed
      after == [client EXCEPT ![c] = [k EXCEPT !.answer = "none", !.throws = FALSE]]
      heard == k.answer # "none" /\ hook[c] = "waiting"
  IN /\ IF waiting # <<>> /\ HasRoom(inuse)
        THEN /\ client' = [after EXCEPT ![Head(waiting)] = Acquired(NewClient, Head(waiting))]
             /\ borrowed' = inuse \cup {Head(waiting)}
             /\ waiting' = Tail(waiting)
        ELSE client' = after /\ borrowed' = inuse /\ UNCHANGED waiting
     /\ hook' = IF heard THEN [hook EXCEPT ![c] = k.answer] ELSE hook
     /\ transaction' = IF heard /\ transaction = c THEN 0 ELSE transaction
     /\ crashed' = k.throws
     /\ UNCHANGED <<cfg, gone>>

-----------------------------------------------------------------------------
(* Actions                                                                  *)

Running == ~crashed

Live(c) == Running /\ client[c].socket = "open"

(* The queue hook: a new mail of the connection. forward_enabled may say no.*)
QueueForward(m) ==
  /\ Running /\ ~gone /\ transaction = 0 /\ hook[m] = "no" /\ \A n \in 1..(m - 1) : hook[n] # "no"
  /\ transaction' = m /\ hook' = [hook EXCEPT ![m] = "waiting"]
  /\ LET new   == borrowed = {}
         inuse == IF new THEN {Own} ELSE borrowed
         base  == IF new THEN [client EXCEPT ![Own] = OwnClient] ELSE client
     IN IF HasRoom(inuse)
        THEN /\ client' = [base EXCEPT ![m] = Acquired(NewClient, m)]
             /\ borrowed' = inuse \cup {m}
             /\ UNCHANGED waiting
        ELSE client' = base /\ borrowed' = inuse /\ waiting' = Append(waiting, m)
  /\ UNCHANGED <<cfg, gone, taken, crashed>>

ForwardDisabled(m) ==
  /\ Running /\ ~gone /\ transaction = 0 /\ hook[m] = "no" /\ \A n \in 1..(m - 1) : hook[n] # "no"
  /\ hook' = [hook EXCEPT ![m] = "NEXT"]
  /\ UNCHANGED <<cfg, transaction, gone, borrowed, waiting, client, taken, crashed>>

(* The backend replies to the oldest command it has.                        *)
Reply(c) ==
  /\ Live(c) /\ client[c].wire # <<>>
  /\ LET sent == Head(client[c].wire)
         k    == client[c]
     IN \E code \in Codes(sent.command) :
          /\ Handled(c, OnLine(Held(k, sent, code), code))
          /\ taken' = IF sent.command = "dot" /\ code = "2"
                      THEN [taken EXCEPT ![c] = Append(@, [from |-> k.from, to |-> k.to])]
                      ELSE taken

(* A line that is no reply. A mail's own client has no pool, so destroy()   *)
(* leaves it as it is: replies to what was asked may still follow.          *)
Garbled(c) ==
  /\ Live(c)
  /\ Handled(c, Destroy(Error(client[c])))
  /\ UNCHANGED taken

(* 'secure' on the socket, after STARTTLS.                                  *)
OnSecured(c) ==
  /\ Running /\ client[c].socket = "upgrading"
  /\ Handled(c, SendCommand([client[c] EXCEPT !.socket = "open", !.secured = "yes"], "ehlo", 0))
  /\ UNCHANGED taken

(* 'error', 'close' or 'end' on the socket, TLS that fails included.        *)
SocketEnds(c) ==
  /\ Running /\ client[c].socket \in {"open", "upgrading"}
  /\ Handled(c, Closed([client[c] EXCEPT !.socket = "closed", !.wire = <<>>]))
  /\ UNCHANGED taken

(* 'timeout' on the socket, which stays open.                               *)
SocketIdle(c) ==
  /\ Running /\ client[c].socket \in {"open", "upgrading"}
  /\ Handled(c, Closed(client[c]))
  /\ UNCHANGED taken

(* plugins.js gives the hook up: the mail is not queued, and is reset.      *)
PluginTimeout(m) ==
  /\ Running /\ hook[m] = "waiting"
  /\ hook' = [hook EXCEPT ![m] = "timeout"]
  /\ transaction' = IF transaction = m THEN 0 ELSE transaction
  /\ UNCHANGED <<cfg, gone, borrowed, waiting, client, taken, crashed>>

SenderDisconnects ==
  /\ Running /\ ~gone /\ gone' = TRUE /\ transaction' = 0
  /\ UNCHANGED <<cfg, hook, borrowed, waiting, client, taken, crashed>>

Next ==
  \/ \E m \in Mail : QueueForward(m) \/ ForwardDisabled(m) \/ PluginTimeout(m)
  \/ \E c \in Client : Reply(c) \/ Garbled(c) \/ OnSecured(c) \/ SocketEnds(c) \/ SocketIdle(c)
  \/ SenderDisconnects

Spec == Init /\ [][Next]_vars

-----------------------------------------------------------------------------
(* Properties                                                               *)

(* The sender is told OK only when the backend has the message for every    *)
(* recipient, once each and with the mail's own sender (OnDot counts the    *)
(* recipients it has sent, through as many messages as that takes).         *)
OkMeansTaken ==
  \A m \in Mail : hook[m] = "OK" =>
    \A r \in Rcpt :
      Cardinality({i \in DOMAIN taken[m] : taken[m][i] = [from |-> m, to |-> taken[m][i].to]
                                           /\ r \in taken[m][i].to}) = 1

(* What the backend said of a mail is final: after OK or a refusal it takes *)
(* nothing more of it (OnBadCode answers and releases, and the line's       *)
(* handler stops there unless the client is still active). A mail that was  *)
(* given up instead, because its hook timed out or a line was no reply, is  *)
(* not sent while the connection is at no mail: its message goes out only if*)
(* a later mail has a transaction, which is_dead_sender takes for its own   *)
(* (what was on its way before may still be taken).                         *)
Sends(m) == \E i \in DOMAIN client[m].wire : client[m].wire[i].command = "dot"

AnswerFinal ==
  [][\A m \in Mail :
       /\ hook[m] \in {"OK", "DENY", "DENYSOFT"} => taken'[m] = taken[m]
       /\ hook[m] \in {"NEXT", "timeout"} /\ Sends(m)' /\ ~Sends(m) => transaction \notin {0, m}]_vars

(* What a client waits for is what the backend was last asked: one command  *)
(* at a time, through TLS, AUTH and the reset between two messages, so that *)
(* no reply is taken for that to another command.                           *)
InStep ==
  \A m \in Mail :
    /\ Len(client[m].wire) <= 1
    /\ client[m].wire # <<>> => Head(client[m].wire).command = client[m].command
=============================================================================
