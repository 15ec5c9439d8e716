------------------------------ MODULE Admission ------------------------------
(***************************************************************************)
(* What two filtering plugins find out about a client before its mails are *)
(* taken: helo.checks (email/plugins/helo.checks.js) when it introduces    *)
(* itself, mail_from.is_resolvable for every sender, who is looked up in   *)
(* the DNS. Both keep what they find, the one for the connection, the other*)
(* for the mail.                                                           *)
(*                                                                         *)
(* Of helo.checks there are the hooks that it registers: proto_mismatch,   *)
(* init and emit_log. Its nine checks of the name are never registered,    *)
(* because the loop over their names (line 34) runs over their indexes.    *)
(*                                                                         *)
(* A hook runs until it has asked something; answers come in any order,    *)
(* late ones included.                                                     *)
(***************************************************************************)
EXTENDS Integers, FiniteSets

CONSTANTS
  Settings,       (* of the plugins                                        *)
  MaxHelos, MaxMails,   (* bounds: commands of the connection              *)
  MaxExchanges    (* bound: exchanges in an MX answer                      *)

Setting == [reject_no_mx : BOOLEAN, allow_mx_ip : BOOLEAN, reject_mismatch : BOOLEAN]

ASSUME SettingsTyped == Settings \subseteq Setting
ASSUME BoundsTyped   == MaxHelos \in Nat /\ MaxMails \in Nat /\ MaxExchanges \in Nat

VARIABLES
  cfg,            (* one of Settings                                       *)
  hook,           (* what became of each hook that was run                 *)
  queries,        (* lookups for a hook that have no answer yet            *)
  helos,          (* each HELO or EHLO of the connection, with its mismatch*)
  esmtp,          (* an EHLO has succeeded                                 *)
  helo_host,      (* the results of helo.checks have the name of a HELO    *)
  transaction,    (* the mail the connection is at, 0 when there is none   *)
  found           (* of a mail: what the answers so far gave               *)

client == <<helos, esmtp, helo_host>>
vars   == <<cfg, hook, queries, client, transaction, found>>

HeloCalls == {"helo"} \X (1..MaxHelos)
MailCalls == {"mail"} \X (1..MaxMails)
Calls     == HeloCalls \cup MailCalls
Query     == [call : MailCalls, kind : {"mx", "exchange", "implicit"}, of : 0..MaxExchanges]

Outcome == {"CONT", "DENY", "DENYSOFT"}

TypeOK ==
  /\ cfg \in Settings
  /\ hook \in [Calls -> {"no", "waiting", "CONT", "DENY", "DENYSOFT"}]
  /\ queries \subseteq Query
  /\ helos \in [1..MaxHelos -> [verb : {"HELO", "EHLO"}, mismatch : BOOLEAN]]
  /\ helo_host \in BOOLEAN /\ esmtp \in BOOLEAN
  /\ transaction \in 0..MaxMails
  /\ found \in [1..MaxMails -> {"none", "nothing", "address", "bogus", "error"}]

Init ==
  /\ cfg \in Settings
  /\ hook = [c \in Calls |-> "no"] /\ queries = {}
  /\ helos = [i \in 1..MaxHelos |-> [verb |-> "HELO", mismatch |-> FALSE]]
  /\ esmtp = FALSE /\ helo_host = FALSE
  /\ transaction = 0 /\ found = [m \in 1..MaxMails |-> "none"]

-----------------------------------------------------------------------------
(* Hooks                                                                    *)

(* A hook has no say any more when it was answered, by its own timer or by  *)
(* that of plugins.js.                                                      *)
Answer(call, answer) ==
  hook' = IF hook[call] = "waiting" THEN [hook EXCEPT ![call] = answer] ELSE hook

(* The commands of each kind are sent in their order.                       *)
Turn(kind, n) ==
  /\ \A c \in Calls : hook[c] # "waiting"
  /\ hook[<<kind, n>>] = "no" /\ \A k \in 1..(n - 1) : hook[<<kind, k>>] # "no"

Done(q) == queries' = queries \ {q}

-----------------------------------------------------------------------------
(* helo.checks                                                              *)

proto_mismatch(verb) ==
  helo_host /\ (IF verb = "HELO" THEN esmtp ELSE ~esmtp)

(* proto_mismatch comes first, and when it refuses init does not run, which *)
(* remembers that there was a HELO. Then it is the other plugins' turn.     *)
HeloHook(i, verb) ==
  LET mismatch == proto_mismatch(verb)
      denied   == mismatch /\ cfg.reject_mismatch
  IN /\ Turn("helo", i)
     /\ hook' = [hook EXCEPT ![<<"helo", i>>] = IF denied THEN "DENY" ELSE "waiting"]
     /\ helos' = [helos EXCEPT ![i] = [verb |-> verb, mismatch |-> mismatch]]
     /\ helo_host' = (helo_host \/ ~denied) /\ transaction' = 0
     /\ UNCHANGED <<cfg, queries, esmtp, found>>

helo_respond_Plain(i, answer) == Answer(<<"helo", i>>, answer) /\ UNCHANGED esmtp

(* The answer to HELO or EHLO, and the connection after it.                 *)
helo_respond(i, answer) ==
  /\ Answer(<<"helo", i>>, answer)
  /\ esmtp' = (esmtp \/ (hook[<<"helo", i>>] = "waiting" /\ helos[i].verb = "EHLO" /\ answer = "CONT"))

(* The hooks of the other plugins have answered, or a timer for them.       *)
HeloAnswered(i, answer) ==
  /\ hook[<<"helo", i>>] = "waiting" /\ helo_respond(i, answer)
  /\ UNCHANGED <<cfg, queries, helos, helo_host, transaction, found>>

-----------------------------------------------------------------------------
(* mail_from.is_resolvable                                                  *)

Introduced ==
  \E i \in 1..MaxHelos : /\ hook[<<"helo", i>>] = "CONT"
                         /\ \A j \in (i + 1)..MaxHelos : hook[<<"helo", j>>] = "no"

(* MAIL, with a domain or without one. What is no CONT ends the transaction.*)
MailHook(m) ==
  /\ Turn("mail", m) /\ Introduced
  /\ transaction' = m
  /\ \/ hook' = [hook EXCEPT ![<<"mail", m>>] = "CONT"] /\ UNCHANGED <<queries, found>>
     \/ /\ hook' = [hook EXCEPT ![<<"mail", m>>] = "waiting"]
        /\ queries' = queries \cup {[call |-> <<"mail", m>>, kind |-> "mx", of |-> 0]}
        /\ found' = [found EXCEPT ![m] = "nothing"]
  /\ UNCHANGED <<cfg, client>>

mxDone(call, answer) ==
  /\ Answer(call, answer)
  /\ transaction' = IF hook[call] = "waiting" /\ answer # "CONT" THEN 0 ELSE transaction

NoMx == IF cfg.reject_no_mx THEN "DENY" ELSE "DENYSOFT"

check_results_AtOnce(call, pending, records) ==
  mxDone(call, IF records = "address" THEN "CONT" ELSE NoMx)

check_results(call, pending, records) ==
  IF pending # {} THEN UNCHANGED <<hook, transaction>>
  ELSE mxDone(call, IF records = "address" THEN "CONT" ELSE NoMx)

(* mxErr and implicit_mx ask for the connection's transaction.              *)
MxAnswer(q) ==
  /\ q.kind = "mx"
  /\ \/ /\ transaction = 0 /\ Done(q) /\ UNCHANGED <<hook, transaction, found>>
     \/ /\ transaction # 0 /\ Done(q) /\ mxDone(q.call, "DENYSOFT")
        /\ found' = [found EXCEPT ![q.call[2]] = "error"]
     \/ /\ transaction # 0 /\ UNCHANGED <<hook, transaction, found>>
        /\ queries' = (queries \ {q}) \cup {[q EXCEPT !.kind = "implicit"]}
     \/ \E names \in 0..MaxExchanges, literals \in BOOLEAN :
          LET asked == {[call |-> q.call, kind |-> "exchange", of |-> n] : n \in 1..names}
              had   == IF literals /\ cfg.allow_mx_ip THEN "address" ELSE "nothing"
          IN /\ names > 0 \/ literals
             /\ queries' = (queries \ {q}) \cup asked
             /\ found' = [found EXCEPT ![q.call[2]] = had]
             /\ check_results(q.call, asked, had)
  /\ UNCHANGED <<cfg, client>>

(* The addresses of one exchange: a good one, only bogus ones, or an error. *)
Found(was, of) == IF "address" \in {was, of} THEN "address" ELSE IF of = "bogus" THEN was ELSE of
ExchangeAnswer(q) ==
  /\ q.kind = "exchange" /\ Done(q)
  /\ \E of \in {"address", "bogus", "error"} :
       LET m       == q.call[2]
           records == Found(found[m], of)
       IN /\ found' = [found EXCEPT ![m] = records]
          /\ check_results(q.call, {p \in queries \ {q} : p.call = q.call}, records)
  /\ UNCHANGED <<cfg, client>>

(* implicit_mx lets a sender pass whose addresses are all bogus.            *)
ImplicitAnswer(q) ==
  /\ q.kind = "implicit" /\ Done(q)
  /\ \E of \in {"address", "bogus", "nothing"} :
       /\ found' = [found EXCEPT ![q.call[2]] = of]
       /\ mxDone(q.call, IF of = "nothing" THEN NoMx ELSE "CONT")
  /\ UNCHANGED <<cfg, client>>

-----------------------------------------------------------------------------
(* The timer of the plugin, or that of plugins.js.                          *)
Timeout(call) ==
  /\ hook[call] = "waiting"
  /\ mxDone(call, "DENYSOFT")
  /\ UNCHANGED <<cfg, queries, client, found>>

Answering ==
  \/ \E q \in queries : MxAnswer(q) \/ ExchangeAnswer(q) \/ ImplicitAnswer(q)
  \/ \E i \in 1..MaxHelos, answer \in Outcome : HeloAnswered(i, answer)

Commands ==
  \/ \E i \in 1..MaxHelos, verb \in {"HELO", "EHLO"} : HeloHook(i, verb)
  \/ \E m \in 1..MaxMails : MailHook(m)

Next ==
  \/ Answering \/ Commands
  \/ \E c \in MailCalls : Timeout(c)

Spec == Init /\ [][Next]_vars

-----------------------------------------------------------------------------
(* Properties                                                               *)

(* A sender is let pass only with an address that is not bogus, by an       *)
(* exchange or by himself, and refused for good only when every exchange    *)
(* has answered (of an implicit MX bogus addresses are enough).             *)
SenderResolves ==
  \A m \in 1..MaxMails :
    LET answer == hook[<<"mail", m>>]
        asked  == {q \in queries : q.call = <<"mail", m>>}
    IN /\ answer = "CONT" => found[m] \in {"none", "address", "bogus"}
       /\ answer = "DENY" => found[m] # "address" /\ asked = {}

(* proto_mismatch speaks of the other verb only of a client that used it, or*)
(* that was refused before: a refused EHLO does not count as one (line 438).*)
MismatchIsReal ==
  \A i \in 1..MaxHelos : helos[i].mismatch =>
    \E j \in 1..(i - 1) : helos[j].verb # helos[i].verb \/ hook[<<"helo", j>>] # "CONT"
=============================================================================
