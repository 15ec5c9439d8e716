------------------------------ MODULE Connection ------------------------------
(***************************************************************************)
(* An inbound SMTP connection of the mail server: email/connection.js, and *)
(* email/plugins.js, which runs the hooks its commands wait for.           *)
(*                                                                         *)
(* A plugin may answer before the call returns or much later, so the same  *)
(* method runs deep in the call stack or on an empty one. agenda holds     *)
(* what the running callback has still to do, the next call first: each    *)
(* method is an action that takes its call from the agenda and puts there  *)
(* the calls it makes, the closures it hands on included. Events (data, a  *)
(* closed socket, an answer, a timer) come in when the agenda is empty.    *)
(***************************************************************************)
EXTENDS Integers, Sequences

CONSTANTS
  Line,        (* the commands a client sends: a subset of Lines           *)
  Plugins,     (* how many plugins are registered on a hook                *)
  Answers,     (* what they may answer                                     *)
  MaxInput,    (* bound: lines received and not yet processed              *)
  MaxRcpts,    (* bound: recipients of a transaction                       *)
  MaxCalls     (* bound: calls of plugins that have not come back          *)

Lines == {"HELO", "EHLO", "MAIL", "RCPT", "DATA", "RSET", "QUIT", "text", "dot"}
Hooks == {"connect_init", "lookup_rdns", "connect", "helo", "ehlo", "capabilities", "mail",
          "rcpt", "rcpt_ok", "data", "data_post", "max_data_exceeded", "queue",
          "queue_outbound", "queue_ok", "rset", "quit", "unrecognized_command", "deny",
          "reset_transaction", "disconnect"}
Retvals == {"CONT", "OK", "DENY", "DENYDISCONNECT"}

ASSUME LinesKnown    == Line \subseteq Lines
ASSUME PluginsTyped  == Plugins \in [Hooks -> Nat]
ASSUME AnswersTyped  == Answers \in [Hooks -> SUBSET Retvals]
ASSUME BoundsTyped   == MaxInput \in Nat /\ MaxRcpts \in Nat /\ MaxCalls \in Nat

VARIABLES
  state, prev_state,
  input,         (* current_data: the lines received and not processed     *)
  hello, esmtp, relaying,
  transaction,   (* rcpt_to and rcpt_count.accept as numbers, and resetting*)
  agenda,        (* what the running callback has still to do              *)
  hooks_to_run, saved_hooks_to_run,   (* plugins left on a hook            *)
  deny_respond,  (* the closure deny_respond calls                         *)
  calls,         (* plugins that were called and have not come back        *)
  current_hook,  (* the call that a hook which must run cancels            *)
  awaiting,      (* the other callbacks that are still to come             *)
  owed,          (* history: replies the client has not had                *)
  derailed,      (* history: the state or the stack went out of control    *)
  barred,        (* history: a hook that must run was ended by its plugin  *)
  crashed        (* history: an exception nobody catches ended the process *)

vars == <<state, prev_state, input, hello, esmtp, relaying, transaction, agenda,
          hooks_to_run, saved_hooks_to_run, deny_respond, calls, current_hook, awaiting,
          owed, derailed, barred, crashed>>

session   == <<input, hello, esmtp, relaying>>
hooking   == <<hooks_to_run, saved_hooks_to_run, deny_respond, calls, current_hook>>
histories == <<derailed, barred, crashed>>

None        == "none"
NoTransaction == [open |-> FALSE, rcpt_to |-> 0, accept |-> 0, resetting |-> FALSE]
NoCall      == [at |-> "free", hook |-> None, cb |-> <<>>]

(***************************************************************************)
(* The calls an agenda is made of. cb is the closure a call takes.         *)
(***************************************************************************)
Call(op, hook, retval, cb) == [op |-> op, hook |-> hook, retval |-> retval, cb |-> cb]

Respond(cb)                 == Call("respond", None, None, cb)
RunHooks(hook, cb)          == Call("run_hooks", hook, None, cb)
RunNextHook(hook, cb)       == Call("run_next_hook", hook, None, cb)
Callback(hook, retval, cb)  == Call("callback", hook, retval, cb)
HookRespond(hook, retval, cb) == Call("hook_respond", hook, retval, cb)
ResetTransaction(cb)        == Call("reset_transaction", None, None, cb)
ProcessLine(line)           == Call("process_line", line, None, <<>>)
Set(what)                   == Call("set", what, None, <<>>)
ProcessData == Call("_process_data", None, None, <<>>)
LoopRespond == Call("loop_respond", None, None, <<>>)
Resume      == Call("resume", None, None, <<>>)
Disconnect  == Call("disconnect", None, None, <<>>)
Fail        == Call("fail", None, None, <<>>)

Next1 == Head(agenda)
At(op) == agenda # <<>> /\ Next1.op = op

(* What is called next; the rest follows when it has returned. *)
Proceed(cb) == agenda' = cb \o Tail(agenda)

(* An event may come in. A process that crashed is gone, and a connection   *)
(* that was derailed is not followed further.                               *)
Idle == agenda = <<>> /\ ~crashed /\ ~derailed

Stopped == state \in {"DISCONNECTING", "DISCONNECTED"}

(* is_required_hook; mutant: the disconnect hook is not one. *)
Required_Reset(hook) == hook = "reset_transaction"
Required(hook) == hook \in {"reset_transaction", "disconnect"}

(* run_hooks and run_next_hook do nothing for a client that is gone. *)
Aborted(hook) == Stopped /\ ~Required(hook)
-----------------------------------------------------------------------------
Init ==
  /\ state = "PAUSE" /\ prev_state = None
  /\ input = <<>> /\ hello = None /\ esmtp = FALSE /\ relaying \in BOOLEAN
  /\ transaction = NoTransaction
  /\ agenda = <<RunHooks("connect_init", <<>>)>>
  /\ hooks_to_run = 0 /\ saved_hooks_to_run = 0
  /\ deny_respond = HookRespond(None, None, <<>>)
  /\ calls = [i \in 1..MaxCalls |-> NoCall]
  /\ current_hook = 0
  /\ awaiting = {}
  /\ owed = 1
  /\ derailed = FALSE /\ barred = FALSE /\ crashed = FALSE

(* With PIPELINING a line may wait for the reply to the one before; one     *)
(* that must not has the buffer looked at again and again.                  *)
Pipelined == esmtp /\ (Head(input) \in {"RSET", "MAIL", "RCPT"} \/ Len(input) = 1)

ProcessDataStep ==
  /\ At("_process_data")
  /\ UNCHANGED <<state, prev_state, hello, esmtp, relaying, transaction, hooking, owed, histories>>
  /\ \/ /\ Stopped \/ input = <<>> \/ state = "PAUSE_DATA"
        /\ Proceed(<<>>)
        /\ UNCHANGED <<input, awaiting>>
     \/ /\ input # <<>> /\ state \in {"PAUSE", "PAUSE_SMTP"}
        /\ Proceed(<<>>)
        /\ awaiting' = IF Pipelined THEN awaiting ELSE awaiting \cup {"immediate"}
        /\ UNCHANGED input
     \/ /\ input # <<>> /\ state \in {"CMD", "LOOP", "DATA"}
        /\ input' = Tail(input)
        /\ Proceed(<<ProcessLine(Head(input)), ProcessData>>)
        /\ UNCHANGED awaiting

(* What a command calls. A refusal is a respond. *)
cmd_helo == <<ResetTransaction(<<Set("HELO"), RunHooks("helo", <<>>)>>)>>
cmd_ehlo == <<ResetTransaction(<<Set("EHLO"), RunHooks("ehlo", <<>>)>>)>>
cmd_quit == <<RunHooks("quit", <<>>)>>
cmd_rset == <<RunHooks("rset", <<>>)>>

cmd_mail ==
  IF hello = None THEN <<Respond(<<>>)>>
  ELSE <<ResetTransaction(<<Set("transaction"), RunHooks("mail", <<>>)>>)>>

cmd_rcpt ==
  IF ~transaction.open THEN <<Respond(<<>>)>> ELSE <<Set("rcpt"), RunHooks("rcpt", <<>>)>>

cmd_data ==
  IF ~transaction.open \/ transaction.rcpt_to = 0 THEN <<Respond(<<>>)>>
  ELSE <<RunHooks("data", <<>>)>>

Command(line) ==
  CASE line = "HELO" -> cmd_helo
    [] line = "EHLO" -> cmd_ehlo
    [] line = "MAIL" -> cmd_mail
    [] line = "RCPT" -> cmd_rcpt
    [] line = "DATA" -> cmd_data
    [] line = "RSET" -> cmd_rset
    [] line = "QUIT" -> cmd_quit
    [] OTHER -> <<RunHooks("unrecognized_command", <<>>)>>

(* process_line *)
ProcessLineStep ==
  /\ At("process_line")
  /\ UNCHANGED <<prev_state, input, hello, esmtp, relaying, transaction, hooking, awaiting,
                 histories>>
  /\ \/ /\ state = "CMD"
        /\ state' = "PAUSE_SMTP"
        /\ owed' = owed + 1
        /\ Proceed(Command(Next1.hook))
     \/ /\ state = "LOOP"
        /\ owed' = owed + 1
        /\ Proceed(IF Next1.hook = "QUIT" THEN cmd_quit ELSE <<Respond(<<>>)>>)
        /\ UNCHANGED state
     \/ /\ state = "DATA" /\ Next1.hook = "dot"
        /\ owed' = owed + 1
        /\ Proceed(<<Call("data_done", None, None, <<>>)>>)
        /\ UNCHANGED state
     \/ /\ state = "DATA" /\ Next1.hook # "dot"
        /\ Proceed(<<>>)
        /\ UNCHANGED <<state, owed>>

(* respond: a closure of its caller runs before more lines are processed.   *)
RespondStep ==
  /\ At("respond")
  /\ derailed' = (derailed \/ state = "DISCONNECTING")
  /\ UNCHANGED <<prev_state, session, transaction, hooking, awaiting, barred, crashed>>
  /\ \/ /\ state = "DISCONNECTED"
        /\ Proceed(Next1.cb)
        /\ UNCHANGED <<state, owed>>
     \/ /\ state # "DISCONNECTED"
        /\ state' = IF state = "LOOP" THEN state ELSE "CMD"
        /\ owed' = owed - 1
        /\ Proceed(Append(Next1.cb, ProcessData))

(* The assignments closures make; what a transaction that is gone has none  *)
(* of ends the process.                                                     *)
SetStep ==
  /\ At("set")
  /\ UNCHANGED <<prev_state, input, relaying, hooking, awaiting, owed, derailed, barred>>
  /\ LET what == Next1.hook
     IN  /\ hello' = CASE what \in {"HELO", "EHLO"} -> what
                       [] what = "no hello" -> None
                       [] OTHER -> hello
         /\ esmtp' = (esmtp \/ what = "esmtp")
         /\ state' = IF what = "data" THEN "DATA" ELSE state
         /\ transaction' =
              CASE what = "transaction" -> [NoTransaction EXCEPT !.open = TRUE]
                [] what = "rcpt" -> [transaction EXCEPT !.rcpt_to = @ + 1]
                [] what = "pop" -> [transaction EXCEPT !.rcpt_to = @ - 1]
                [] what = "accept" -> [transaction EXCEPT !.accept = @ + 1]
                [] OTHER -> transaction
         /\ crashed' = (what = "msg_status" /\ ~transaction.open)
         /\ agenda' = IF crashed' THEN <<>> ELSE Tail(agenda)

(* data_done, the message being too big, in a loop of servers, or complete. *)
DataDone ==
  /\ At("data_done")
  /\ prev_state' = state /\ state' = "PAUSE_DATA"
  /\ UNCHANGED <<session, transaction, hooking, owed, histories>>
  /\ \/ /\ Proceed(<<RunHooks("max_data_exceeded", <<>>)>>)
        /\ UNCHANGED awaiting
     \/ /\ Proceed(<<Respond(<<ResetTransaction(<<>>)>>)>>)
        /\ UNCHANGED awaiting
     \/ /\ awaiting' = awaiting \cup {"end_data"}
        /\ Proceed(<<>>)

(* reset_transaction: a transaction that is being reset already is dropped. *)
ResetTransactionStep ==
  /\ At("reset_transaction")
  /\ UNCHANGED <<session, hooking, awaiting, owed, histories>>
  /\ \/ /\ transaction.open /\ ~transaction.resetting
        /\ transaction' = [transaction EXCEPT !.resetting = TRUE]
        /\ state' = IF Stopped THEN state ELSE "PAUSE_DATA"
        /\ prev_state' = IF Stopped \/ state = "PAUSE_DATA" THEN prev_state ELSE state
        /\ Proceed(<<RunHooks("reset_transaction", Next1.cb)>>)
     \/ /\ ~transaction.open \/ transaction.resetting
        /\ transaction' = NoTransaction
        /\ Proceed(Next1.cb)
        /\ UNCHANGED <<state, prev_state>>

(* The pause it ends is over already, or is another one.                    *)
Stale ==
  /\ prev_state # None
  /\ \/ state \notin {"PAUSE_DATA", prev_state}
     \/ transaction.resetting \/ prev_state = "DATA"

ResumeStep ==
  /\ At("resume")
  /\ Proceed(<<>>)
  /\ UNCHANGED <<session, transaction, hooking, owed, barred, crashed>>
  /\ \/ /\ Stopped
        /\ UNCHANGED <<state, prev_state, awaiting, derailed>>
     \/ /\ ~Stopped
        /\ state' = IF prev_state = None THEN state ELSE prev_state
        /\ prev_state' = None
        /\ awaiting' = awaiting \cup {"immediate"}
        /\ derailed' = (derailed \/ Stale)

(* fail drops the plugins that were to come, disconnect does not.           *)
DisconnectStep ==
  /\ At("disconnect") \/ At("fail")
  /\ hooks_to_run' = IF At("fail") THEN 0 ELSE hooks_to_run
  /\ UNCHANGED <<prev_state, hello, esmtp, relaying, transaction, saved_hooks_to_run,
                 deny_respond, calls, current_hook, awaiting, owed, histories>>
  /\ state' = IF Stopped THEN state ELSE "DISCONNECTING"
  /\ input' = IF Stopped THEN input ELSE <<>>
  /\ Proceed(IF Stopped THEN <<>> ELSE <<ResetTransaction(<<RunHooks("disconnect", <<>>)>>)>>)

(* loop_respond *)
LoopRespondStep ==
  /\ At("loop_respond")
  /\ state' = IF Stopped THEN state ELSE "LOOP"
  /\ Proceed(IF Stopped THEN <<>> ELSE <<Respond(<<>>)>>)
  /\ UNCHANGED <<prev_state, session, transaction, hooking, awaiting, owed, histories>>
-----------------------------------------------------------------------------
(* plugins.run_hooks: a hook that must run cancels the call that is out.    *)
Cancelled ==
  IF current_hook = 0 THEN calls ELSE [calls EXCEPT ![current_hook].at = "cancelled"]

RunHooksStep ==
  /\ At("run_hooks")
  /\ UNCHANGED <<state, prev_state, session, transaction, deny_respond, current_hook,
                 awaiting, owed, derailed>>
  /\ LET hook == Next1.hook
     IN  \/ /\ Aborted(hook)
            /\ barred' = (barred \/ (hook = "deny" /\ Required(deny_respond.hook)))
            /\ Proceed(<<>>)
            /\ UNCHANGED <<hooks_to_run, saved_hooks_to_run, calls, crashed>>
         \/ /\ ~Aborted(hook)
            /\ ~Required(hook) /\ hook # "deny" /\ hooks_to_run > 0
            /\ crashed' = TRUE
            /\ agenda' = <<>>
            /\ UNCHANGED <<hooks_to_run, saved_hooks_to_run, calls, barred>>
         \/ /\ ~Aborted(hook)
            /\ Required(hook) \/ hook = "deny" \/ hooks_to_run = 0
            /\ calls' = IF Required(hook) THEN Cancelled ELSE calls
            /\ saved_hooks_to_run' = IF hook = "deny" THEN hooks_to_run ELSE saved_hooks_to_run
            /\ hooks_to_run' = Plugins[hook]
            /\ Proceed(<<RunNextHook(hook, Next1.cb)>>)
            /\ UNCHANGED <<barred, crashed>>

(* plugins.run_next_hook: the plugin answers at once or later.              *)
RunNextHookStep ==
  /\ At("run_next_hook")
  /\ UNCHANGED <<state, prev_state, session, transaction, saved_hooks_to_run, deny_respond,
                 awaiting, owed, histories>>
  /\ LET hook == Next1.hook
     IN  \/ /\ Aborted(hook) \/ hooks_to_run = 0
            /\ current_hook' = IF Aborted(hook) THEN current_hook ELSE 0
            /\ Proceed(IF Aborted(hook) THEN <<>> ELSE <<HookRespond(hook, "CONT", Next1.cb)>>)
            /\ UNCHANGED <<hooks_to_run, calls>>
         \/ /\ ~Aborted(hook) /\ hooks_to_run > 0
            /\ hooks_to_run' = hooks_to_run - 1
            /\ \/ \E retval \in Answers[hook] :
                    /\ Proceed(<<Callback(hook, retval, Next1.cb)>>)
                    /\ current_hook' = 0
                    /\ UNCHANGED calls
               \/ \E i \in 1..MaxCalls :
                    /\ calls[i].at = "free" /\ \A j \in 1..(i - 1) : calls[j].at # "free"
                    /\ calls' = [calls EXCEPT ![i] =
                                   [at |-> "out", hook |-> hook, cb |-> Next1.cb]]
                    /\ current_hook' = i
                    /\ Proceed(<<>>)

(* The callback of a plugin that was neither cancelled nor called back.     *)
CallbackStep ==
  /\ At("callback")
  /\ UNCHANGED <<state, prev_state, session, transaction, saved_hooks_to_run, calls,
                 current_hook, awaiting, owed, histories>>
  /\ LET hook   == Next1.hook
         retval == Next1.retval
     IN  \/ /\ Aborted(hook)
            /\ Proceed(<<>>)
            /\ UNCHANGED <<hooks_to_run, deny_respond>>
         \/ /\ ~Aborted(hook) /\ hooks_to_run > 0
            /\ retval = "CONT" \/ hook \in {"connect_init", "disconnect"}
            /\ Proceed(<<RunNextHook(hook, Next1.cb)>>)
            /\ UNCHANGED <<hooks_to_run, deny_respond>>
         \/ /\ ~Aborted(hook)
            /\ hooks_to_run = 0 \/ (retval # "CONT" /\ hook \notin {"connect_init", "disconnect"})
            /\ IF retval \in {"DENY", "DENYDISCONNECT"}
               THEN /\ deny_respond' = HookRespond(hook, retval, Next1.cb)
                    /\ Proceed(<<RunHooks("deny", <<>>)>>)
                    /\ UNCHANGED hooks_to_run
               ELSE /\ hooks_to_run' = 0
                    /\ Proceed(<<HookRespond(hook, retval, Next1.cb)>>)
                    /\ UNCHANGED deny_respond

(* deny_respond: a plugin may overrule the denial. When it was a plugin of   *)
(* the deny hook that refused, being too slow, the closure calls itself     *)
(* until the stack is full.                                                 *)
DenyRespond ==
  /\ At("hook_respond") /\ Next1.hook = "deny"
  /\ UNCHANGED <<state, prev_state, session, transaction, deny_respond, calls, current_hook,
                 awaiting, owed, barred, crashed>>
  /\ \/ /\ Next1.retval = "OK" /\ saved_hooks_to_run > 0
        /\ hooks_to_run' = saved_hooks_to_run
        /\ Proceed(<<RunNextHook(deny_respond.hook, deny_respond.cb)>>)
        /\ UNCHANGED <<saved_hooks_to_run, derailed>>
     \/ /\ Next1.retval = "OK" /\ saved_hooks_to_run = 0
        /\ Proceed(<<HookRespond(deny_respond.hook, "CONT", deny_respond.cb)>>)
        /\ UNCHANGED <<hooks_to_run, saved_hooks_to_run, derailed>>
     \/ /\ Next1.retval # "OK"
        /\ hooks_to_run' = 0 /\ saved_hooks_to_run' = 0
        /\ derailed' = (derailed \/ deny_respond.hook = "deny")
        /\ Proceed(IF deny_respond.hook = "deny" THEN <<>> ELSE <<deny_respond>>)

(* What the methods named after the hooks do with the outcome. A refusal is *)
(* told, and then comes what follows from it, or the end.                   *)
Denied(retval) == retval \in {"DENY", "DENYDISCONNECT"}
Refuse(retval, after) == <<Respond(IF retval = "DENY" THEN after ELSE <<Disconnect>>)>>
Turn(retval) == IF retval = "DENY" THEN <<LoopRespond>> ELSE <<Respond(<<Disconnect>>)>>
Grant == <<Respond(<<>>)>>
Abandon == <<ResetTransaction(<<>>)>>
Close == <<ResetTransaction(<<Resume>>)>>

connect_init_respond == <<RunHooks("lookup_rdns", <<>>)>>

lookup_rdns_respond(retval) ==
  CASE Denied(retval) -> Turn(retval)
    [] retval = "OK"  -> <<RunHooks("connect", <<>>)>>
    [] OTHER          -> <<>>

connect_respond(retval) == IF Denied(retval) THEN Turn(retval) ELSE Grant

helo_respond(retval) == IF Denied(retval) THEN Refuse(retval, <<Set("no hello")>>) ELSE Grant

ehlo_respond(retval) ==
  IF Denied(retval) THEN Refuse(retval, <<Set("no hello")>>)
  ELSE <<RunHooks("capabilities", <<>>), Set("esmtp")>>

capabilities_respond == Grant
quit_respond == <<Respond(<<Disconnect>>)>>
rset_respond == <<Respond(Abandon)>>
unrecognized_command_respond(retval) == IF Denied(retval) THEN Refuse(retval, <<>>) ELSE Grant

mail_respond(retval) == IF Denied(retval) THEN Refuse(retval, Abandon) ELSE Grant

(* Mutant: a refused recipient stays.                                       *)
rcpt_respond_Kept(retval) ==
  IF Denied(retval) THEN Refuse(retval, <<>>)
  ELSE IF retval = "OK" \/ relaying THEN <<RunHooks("rcpt_ok", <<>>)>>
  ELSE <<Respond(<<Set("pop")>>)>>

rcpt_respond(retval) ==
  IF Denied(retval) THEN Refuse(retval, <<Set("pop")>>)
  ELSE IF retval = "OK" \/ relaying THEN <<RunHooks("rcpt_ok", <<>>)>>
  ELSE <<Respond(<<Set("pop")>>)>>

rcpt_ok_respond(retval) ==
  IF Denied(retval) THEN Refuse(retval, <<Set("pop")>>) ELSE <<Respond(<<Set("accept")>>)>>

data_respond(retval) ==
  IF Denied(retval) THEN Refuse(retval, Abandon) ELSE <<Respond(<<Set("data")>>)>>

data_post_respond(retval) ==
  IF Denied(retval) THEN Refuse(retval, Close)
  ELSE <<RunHooks(IF relaying THEN "queue_outbound" ELSE "queue", <<>>)>>

max_data_exceeded_respond == <<Respond(Abandon)>>

queue_outbound_respond(retval) ==
  CASE Denied(retval) -> Refuse(retval, Close)
    [] retval = "OK"  -> <<RunHooks("queue_ok", <<>>)>>
    [] OTHER          -> <<>>

queue_respond(retval) ==
  CASE Denied(retval) -> Refuse(retval, Close)
    [] retval = "OK"  -> <<RunHooks("queue_ok", <<>>)>>
    [] OTHER          -> <<Respond(Close)>>

queue_ok_respond == <<Respond(Close)>>

Outcome(hook, retval) ==
  CASE hook = "connect_init" -> connect_init_respond
    [] hook = "lookup_rdns"  -> lookup_rdns_respond(retval)
    [] hook = "connect"      -> connect_respond(retval)
    [] hook = "helo"         -> helo_respond(retval)
    [] hook = "ehlo"         -> ehlo_respond(retval)
    [] hook = "capabilities" -> capabilities_respond
    [] hook = "quit"         -> quit_respond
    [] hook = "rset"         -> rset_respond
    [] hook = "mail"         -> mail_respond(retval)
    [] hook = "rcpt"         -> rcpt_respond(retval)
    [] hook = "rcpt_ok"      -> rcpt_ok_respond(retval)
    [] hook = "data"         -> data_respond(retval)
    [] hook = "data_post"    -> data_post_respond(retval)
    [] hook = "max_data_exceeded" -> max_data_exceeded_respond
    [] hook = "queue_outbound" -> queue_outbound_respond(retval)
    [] hook = "queue"        -> queue_respond(retval)
    [] hook = "queue_ok"     -> queue_ok_respond
    [] OTHER                 -> unrecognized_command_respond(retval)

(* These have nothing to say when the transaction is gone. *)
Orphaned(hook) == hook \in {"mail", "rcpt", "rcpt_ok", "data_post"} /\ ~transaction.open

(* Two outcomes wait for a callback: dns.reverse and outbound.send_email.   *)
Awaited(hook, retval) ==
  IF retval # "CONT" THEN {}
  ELSE IF hook = "lookup_rdns" THEN {"dns"}
  ELSE IF hook = "queue_outbound" THEN {"send_email"} ELSE {}

HookRespondStep ==
  /\ At("hook_respond") /\ Next1.hook \notin {"deny", "reset_transaction", "disconnect"}
  /\ awaiting' = awaiting \cup Awaited(Next1.hook, Next1.retval)
  /\ Proceed(IF Orphaned(Next1.hook) THEN <<>> ELSE Outcome(Next1.hook, Next1.retval))
  /\ UNCHANGED <<state, prev_state, session, transaction, hooking, owed, histories>>

ResetTransactionRespond ==
  /\ At("hook_respond") /\ Next1.hook = "reset_transaction"
  /\ transaction' = NoTransaction
  /\ Proceed(Append(Next1.cb, Resume))
  /\ UNCHANGED <<state, prev_state, session, hooking, awaiting, owed, histories>>

DisconnectRespond ==
  /\ At("hook_respond") /\ Next1.hook = "disconnect"
  /\ state' = "DISCONNECTED"
  /\ Proceed(<<>>)
  /\ UNCHANGED <<prev_state, session, transaction, hooking, awaiting, owed, histories>>
-----------------------------------------------------------------------------
(* Events. *)
Happens(cb) == Idle /\ agenda' = cb

(* A line arrives, unless the socket is paused. *)
Data(line) ==
  /\ ~Stopped /\ state # "PAUSE_DATA"
  /\ Len(input) < MaxInput
  /\ line = "RCPT" =>
       transaction.rcpt_to + Len(SelectSeq(input, LAMBDA l : l = "RCPT")) < MaxRcpts
  /\ Happens(<<ProcessData>>)
  /\ input' = Append(input, line)
  /\ UNCHANGED <<state, prev_state, hello, esmtp, relaying, transaction, hooking, awaiting,
                 owed, histories>>

(* The socket ends, closes or fails. *)
ClientGone ==
  /\ ~Stopped
  /\ Happens(<<Fail>>)
  /\ UNCHANGED <<state, prev_state, session, transaction, hooking, awaiting, owed, histories>>

(* The socket's timeout; the notice is a reply nobody asked for.            *)
Timeout ==
  /\ ~Stopped
  /\ Happens(<<Respond(<<Fail>>)>>)
  /\ owed' = 1
  /\ UNCHANGED <<state, prev_state, session, transaction, hooking, awaiting, histories>>

(* Mutant: the answer counts though the plugin's time was up. *)
PluginAnswers_Late(i, retval) ==
  /\ calls[i].at # "free"
  /\ retval \in Answers[calls[i].hook]
  /\ Happens(IF calls[i].at # "cancelled"
              THEN <<Callback(calls[i].hook, retval, calls[i].cb)>> ELSE <<>>)
  /\ calls' = [calls EXCEPT ![i] = NoCall]
  /\ current_hook' = 0
  /\ UNCHANGED <<state, prev_state, session, transaction, hooks_to_run, saved_hooks_to_run,
                 deny_respond, awaiting, owed, histories>>

PluginAnswers(i, retval) ==
  /\ calls[i].at # "free"
  /\ retval \in Answers[calls[i].hook]
  /\ Happens(IF calls[i].at = "out" THEN <<Callback(calls[i].hook, retval, calls[i].cb)>> ELSE <<>>)
  /\ calls' = [calls EXCEPT ![i] = NoCall]
  /\ current_hook' = 0
  /\ UNCHANGED <<state, prev_state, session, transaction, hooks_to_run, saved_hooks_to_run,
                 deny_respond, awaiting, owed, histories>>

(* The plugin's timer; its own answer will be ignored.                      *)
PluginTimesOut(i) ==
  /\ calls[i].at = "out"
  /\ \A j \in 1..MaxCalls : calls[j].at # "timed out"
  /\ Happens(<<Callback(calls[i].hook, "DENY", calls[i].cb)>>)
  /\ calls' = [calls EXCEPT ![i].at = "timed out"]
  /\ current_hook' = 0
  /\ UNCHANGED <<state, prev_state, session, transaction, hooks_to_run, saved_hooks_to_run,
                 deny_respond, awaiting, owed, histories>>

(* setImmediate *)
Immediate ==
  /\ "immediate" \in awaiting
  /\ Happens(<<ProcessData>>)
  /\ awaiting' = awaiting \ {"immediate"}
  /\ UNCHANGED <<state, prev_state, session, transaction, hooking, owed, histories>>

(* rdns_response, the callback of end_data, and that of send_email.         *)
Answered(what, cb) ==
  /\ what \in awaiting
  /\ Happens(cb)
  /\ awaiting' = awaiting \ {what}
  /\ UNCHANGED <<state, prev_state, session, transaction, hooking, owed, histories>>

RdnsResponse == Answered("dns", <<RunHooks("connect", <<>>)>>)

DataEnded ==
  Answered("end_data", IF transaction.open THEN <<RunHooks("data_post", <<>>)>> ELSE <<>>)

EmailSent == Answered("send_email", <<RunHooks("queue_ok", <<>>)>>)

EmailRefused ==
  Answered("send_email", <<Respond(<<Set("msg_status"), ResetTransaction(<<Resume>>)>>)>>)
-----------------------------------------------------------------------------
Runs ==
  \/ ProcessDataStep \/ ProcessLineStep \/ RespondStep \/ SetStep \/ DataDone
  \/ ResetTransactionStep \/ ResumeStep \/ DisconnectStep \/ LoopRespondStep
  \/ RunHooksStep \/ RunNextHookStep \/ CallbackStep
  \/ DenyRespond \/ HookRespondStep \/ ResetTransactionRespond \/ DisconnectRespond

Answer(i) == PluginTimesOut(i) \/ \E retval \in Retvals : PluginAnswers(i, retval)

(* What the process does, and those it waits for.                          *)
Progress ==
  \/ Runs \/ Immediate
  \/ \E i \in 1..MaxCalls : Answer(i)
  \/ RdnsResponse \/ DataEnded \/ EmailSent \/ EmailRefused

Next == Progress \/ (\E line \in Line : Data(line)) \/ ClientGone \/ Timeout

(* Node goes on with what it runs and with what is due; a plugin answers or *)
(* is timed out; the resolver, the message stream and the queue answer, in  *)
(* whatever order. Nothing obliges a client.                                *)
Spec == Init /\ [][Next]_vars /\ WF_vars(Progress)
-----------------------------------------------------------------------------
(* The type of the connection's state. *)
TypeOK ==
  /\ {state, prev_state} \subseteq {None, "PAUSE", "CMD", "LOOP", "DATA", "PAUSE_SMTP",
                                    "PAUSE_DATA", "DISCONNECTING", "DISCONNECTED"}
  /\ input \in Seq(Line) /\ Len(input) <= MaxInput
  /\ hello \in {None, "HELO", "EHLO"} /\ {esmtp, relaying} \subseteq BOOLEAN
  /\ transaction \in [open : BOOLEAN, rcpt_to : 0..MaxRcpts, accept : 0..MaxRcpts,
                      resetting : BOOLEAN]
  /\ {hooks_to_run, saved_hooks_to_run} \subseteq Nat
  /\ \A i \in 1..MaxCalls : calls[i].at \in {"free", "out", "timed out", "cancelled"}
  /\ current_hook \in 0..MaxCalls
  /\ awaiting \subseteq {"immediate", "dns", "end_data", "send_email"}
  /\ owed \in Int /\ {derailed, barred, crashed} \subseteq BOOLEAN

(* Replies come in the order of the commands: one at most is owed, none when*)
(* the connection is ready for a line, and a command is never answered      *)
(* twice. In LOOP, lines are answered while the hooks of a QUIT run.        *)
OneReplyEach ==
  Idle /\ ~Stopped /\ state # "LOOP" =>
    owed \in {0, 1} /\ (state \in {"CMD", "DATA"} => owed = 0)

(* One plugin at a time works for the connection, but for those a QUIT sent *)
(* in LOOP adds.                                                            *)
OneHookAtATime ==
  Idle /\ ~Stopped /\ state # "LOOP" =>
    \A i, j \in 1..MaxCalls : calls[i].at = "out" /\ calls[j].at = "out" => i = j

Pending == (\E i \in 1..MaxCalls : calls[i].at = "out") \/ awaiting \ {"immediate"} # {}

(* A connection that takes no line is waiting for an answer that will come, *)
(* and one that takes lines has not forgotten those it already has.         *)
NeverParked ==
  Idle =>
    /\ state \in {"PAUSE", "PAUSE_SMTP", "PAUSE_DATA"} => Pending
    /\ state \in {"CMD", "LOOP", "DATA"} /\ input # <<>> => "immediate" \in awaiting

(* The connection and its client go in step, though plugins answer late, not*)
(* in time, or within the call, and lines are sent ahead: neither waits for *)
(* the other in vain, nor takes a reply for another.                        *)
InStep == OneReplyEach /\ OneHookAtATime /\ NeverParked

(* The recipients of the transaction are those the client was granted, and  *)
(* data is only taken for some.                                             *)
RecipientsAgreed ==
  Idle /\ transaction.open /\ state \in {"CMD", "DATA"} =>
    /\ transaction.rcpt_to = transaction.accept
    /\ state = "DATA" => transaction.accept > 0

(* A disconnection comes to its end, unless the last plugin of a hook that  *)
(* must run refuses it, or the queue's refusal of a mail is answered then.  *)
DisconnectCompletes ==
  state = "DISCONNECTING" ~> state = "DISCONNECTED" \/ barred \/ derailed
=============================================================================
