----------------------------- MODULE SenderPolicy -----------------------------
(***************************************************************************)
(* The evaluation of a sender's policy: email/spf.js, asked by the hooks   *)
(* of email/plugins/spf.js for the HELO name and for the envelope sender.  *)
(*                                                                         *)
(* A call of check_host is a frame: the mechanisms and modifiers it has    *)
(* still to run and whom its result goes to. agenda holds the calls the    *)
(* running callback has still to make; DNS answers come in, in any order,  *)
(* when it is empty. What an address is compared with is left to the       *)
(* answer: "hit" is one that matches.                                      *)
(***************************************************************************)
EXTENDS Integers, Sequences

CONSTANTS
  Domains,
  Zones,        (* the policies that domains may publish                   *)
  Sessions,     (* who connects, and what the plugin is set to             *)
  LIMIT,        (* of lookups: 10 in the code                              *)
  MaxNames      (* bound: exchanges of an MX answer, names of a PTR answer *)

Qualifiers == {"+", "-", "~", "?"}
(* all, a, mx, ptr, exists, ip4 and ip6 (whose argument says whether the    *)
(* address is in the range), include (whose argument is a domain).          *)
Mech == [name : {"all", "a", "mx", "ptr", "exists", "ip"}, qualifier : Qualifiers,
         arg : {"", "hit", "bogus"}]
        \cup [name : {"include"}, qualifier : Qualifiers, arg : Domains]
Mod  == [name : {"redirect"}, arg : Domains] \cup [name : {"exp"}, arg : {""}]
(* What a TXT query of a domain brings: a policy, or why there is none.     *)
Record == [txt : {"policy", "none", "temp", "two", "syntax"}, mechs : Seq(Mech), mods : Seq(Mod)]
Session == [helo : {"literal"} \cup Domains, sender : {"null"} \cup Domains, relaying : BOOLEAN,
            context : {"sender", "myself"}, reject : BOOLEAN]

ASSUME ZonesTyped    == \A z \in Zones : \A d \in Domains : z[d] \in Record
ASSUME SessionsTyped == Sessions \subseteq Session
ASSUME BoundsTyped   == LIMIT \in Nat /\ MaxNames \in Nat

VARIABLES
  zone, session,       (* chosen once                                      *)
  hook,                (* of each check: what its hook was answered        *)
  spf_helo,            (* connection.notes.spf_helo                        *)
  frames,              (* calls of check_host                              *)
  counts,              (* count of each SPF object                         *)
  been_there,          (* of each check, shared by its SPF objects         *)
  groups,              (* the queries mech_mx and mech_ptr wait for        *)
  queries,             (* DNS queries that have no answer yet              *)
  agenda,
  lookups,             (* history: mechanisms and modifiers that looked up *)
  hits,                (* history: the mechanisms that decided             *)
  results,             (* history: the results a check's callback was given*)
  flawed               (* history: an exchange's address could not be found*)

policy_vars ==
  <<zone, session, hook, spf_helo, frames, counts, been_there, groups, queries, agenda, lookups,
    hits, results, flawed>>
plugin == <<zone, session, hook, spf_helo>>
engine == <<frames, counts, been_there, groups, queries, lookups>>

Checks  == {"helo", "mfrom", "own"}      (* own: by our public address      *)
Results == {"None", "Pass", "Fail", "SoftFail", "Neutral", "TempError", "PermError"}
Answers == {"CONT", "DENY", "DENYSOFT"}

PolicyTypeOK ==
  /\ hook \in [Checks -> {"no", "waiting", "timeout"} \cup Answers]
  /\ spf_helo \in {"none"} \cup Results
  /\ counts \in Seq(Nat) /\ Len(frames) >= Len(counts)
  /\ been_there \in [Checks -> SUBSET Domains]
  /\ \A q \in queries : q.frame \in DOMAIN frames
  /\ \A g \in DOMAIN groups : groups[g].pending \in 0..MaxNames
  /\ lookups \in [Checks -> Nat] /\ results \in [Checks -> Seq(Results)]

PolicyInit ==
  /\ zone \in Zones /\ session \in Sessions
  /\ hook = [s \in Checks |-> "no"] /\ spf_helo = "none"
  /\ frames = <<>> /\ counts = <<>> /\ been_there = [s \in Checks |-> {}]
  /\ groups = <<>> /\ queries = {} /\ agenda = <<>>
  /\ lookups = [s \in Checks |-> 0] /\ hits = {}
  /\ results = [s \in Checks |-> <<>>] /\ flawed = FALSE

return_const(qualifier) ==
  CASE qualifier = "+" -> "Pass" [] qualifier = "-" -> "Fail"
    [] qualifier = "~" -> "SoftFail" [] qualifier = "?" -> "Neutral"

-----------------------------------------------------------------------------
(* Calls                                                                    *)

Chain(f, r)  == [call |-> "mech_chain", frame |-> f, result |-> r]
Mods(f, r)   == [call |-> "mod_chain", frame |-> f, result |-> r]
Run(f, m)    == [call |-> m.name, frame |-> f, arg |-> m]

(* Whom the result of a check_host goes to: the plugin, the mech_include    *)
(* that called it or the chain of the record that was redirected.           *)
Back(f, r) == [call |-> frames[f].back.to, frame |-> frames[f].back.frame, result |-> r,
               check |-> frames[f].check]

Calling(name) == agenda # <<>> /\ Head(agenda).call = name
Goto(item)    == agenda' = <<item>> \o Tail(agenda)
Return        == agenda' = Tail(agenda)

Counted(f) ==
  /\ counts' = [counts EXCEPT ![frames[f].obj] = @ + 1]
  /\ lookups' = [lookups EXCEPT ![frames[f].check] = @ + 1]

Hit(f, m) ==
  hits' = hits \cup {[check |-> frames[f].check, included |-> frames[f].included,
                      qualifier |-> m.qualifier]}

(* check_host: the record is asked for.                                     *)
Frame(check, obj, domain, included, back) ==
  [check |-> check, obj |-> obj, domain |-> domain, included |-> included, back |-> back,
   mechs |-> <<>>, mods |-> <<>>]
Query(f, kind, m) == [frame |-> f, kind |-> kind, mech |-> m, group |-> 0, i |-> 0]
NoMech == [name |-> "all", qualifier |-> "?", arg |-> ""]
CheckHost(frame) ==
  /\ frames' = Append(frames, frame)
  /\ queries' = queries \cup {Query(Len(frames) + 1, "txt", NoMech)}

(* mech_chain_caller                                                        *)
MechChain ==
  /\ Calling("mech_chain")
  /\ LET f == Head(agenda).frame
         r == Head(agenda).result
     IN \/ /\ counts[frames[f].obj] > LIMIT
           /\ Goto(Back(f, "PermError")) /\ UNCHANGED frames
        \/ /\ counts[frames[f].obj] <= LIMIT /\ r # "None"
           /\ Goto(Back(f, r)) /\ UNCHANGED frames
        \/ /\ counts[frames[f].obj] <= LIMIT /\ r = "None" /\ frames[f].mechs = <<>>
           /\ Goto(IF frames[f].mods # <<>> THEN Mods(f, "None") ELSE Back(f, "Neutral"))
           /\ UNCHANGED frames
        \/ /\ counts[frames[f].obj] <= LIMIT /\ r = "None" /\ frames[f].mechs # <<>>
           /\ Goto(Run(f, Head(frames[f].mechs)))
           /\ frames' = [frames EXCEPT ![f].mechs = Tail(@)]
  /\ UNCHANGED <<plugin, counts, been_there, groups, queries, lookups, hits, results, flawed>>

(* mod_chain_caller                                                         *)
ModChain ==
  /\ Calling("mod_chain")
  /\ LET f == Head(agenda).frame
         r == Head(agenda).result
     IN \/ /\ counts[frames[f].obj] > LIMIT
           /\ Goto(Back(f, "PermError")) /\ UNCHANGED frames
        \/ /\ counts[frames[f].obj] <= LIMIT /\ r # "None"
           /\ Goto(Back(f, r)) /\ UNCHANGED frames
        \/ /\ counts[frames[f].obj] <= LIMIT /\ r = "None" /\ frames[f].mods = <<>>
           /\ Goto(Back(f, "Neutral")) /\ UNCHANGED frames
        \/ /\ counts[frames[f].obj] <= LIMIT /\ r = "None" /\ frames[f].mods # <<>>
           /\ Goto(Run(f, Head(frames[f].mods)))
           /\ frames' = [frames EXCEPT ![f].mods = Tail(@)]
  /\ UNCHANGED <<plugin, counts, been_there, groups, queries, lookups, hits, results, flawed>>

-----------------------------------------------------------------------------
(* The mechanisms                                                           *)

mech_all ==
  /\ Calling("all")
  /\ LET f == Head(agenda).frame  m == Head(agenda).arg
     IN Goto(Chain(f, return_const(m.qualifier))) /\ Hit(f, m)
  /\ UNCHANGED <<plugin, engine, results, flawed>>

mech_ip ==
  /\ Calling("ip")
  /\ LET f == Head(agenda).frame  m == Head(agenda).arg
     IN IF m.arg = "hit" THEN Goto(Chain(f, return_const(m.qualifier))) /\ Hit(f, m)
        ELSE Goto(Chain(f, "None")) /\ UNCHANGED hits
  /\ UNCHANGED <<plugin, engine, results, flawed>>

(* A new SPF object with the count so far; what it counts stays with it.    *)
mech_include ==
  /\ Calling("include")
  /\ LET f == Head(agenda).frame  domain == Head(agenda).arg.arg  fr == frames[f]
     IN IF domain \in been_there[fr.check]
        THEN Goto(Chain(f, "None")) /\ UNCHANGED engine
        ELSE /\ been_there' = [been_there EXCEPT ![fr.check] = @ \cup {domain}]
             /\ counts' = Append([counts EXCEPT ![fr.obj] = @ + 1], counts[fr.obj] + 1)
             /\ lookups' = [lookups EXCEPT ![fr.check] = @ + 1]
             /\ CheckHost(Frame(fr.check, Len(counts) + 1, domain, TRUE,
                                [to |-> "included", frame |-> f]))
             /\ Return /\ UNCHANGED groups
  /\ UNCHANGED <<plugin, hits, results, flawed>>

(* What an included record says of a sender, to the one that includes it;   *)
(* mutant: its failure is the sender's failure.                             *)
Included_Failing(r) ==
  CASE r \in {"Pass", "Fail", "TempError"} -> r
    [] r \in {"SoftFail", "Neutral"} -> "None"
    [] OTHER -> "PermError"
OfIncluded(r) ==
  CASE r = "Pass" -> "Pass"
    [] r \in {"Fail", "SoftFail", "Neutral"} -> "None"
    [] r = "TempError" -> "TempError"
    [] OTHER -> "PermError"

Included ==
  /\ Calling("included")
  /\ Goto(Chain(Head(agenda).frame, OfIncluded(Head(agenda).result)))
  /\ UNCHANGED <<plugin, engine, hits, results, flawed>>

(* mech_a, mech_exists, mech_mx and mech_ptr begin with one query.          *)
Lookup(mech) ==
  /\ Calling(mech)
  /\ LET f == Head(agenda).frame
     IN Counted(f) /\ queries' = queries \cup {Query(f, mech, Head(agenda).arg)}
  /\ Return
  /\ UNCHANGED <<plugin, frames, been_there, groups, hits, results, flawed>>

mod_redirect ==
  /\ Calling("redirect")
  /\ LET f == Head(agenda).frame  domain == Head(agenda).arg.arg  fr == frames[f]
     IN IF domain \in been_there[fr.check]
        THEN Goto(Mods(f, "None")) /\ UNCHANGED engine
        ELSE /\ been_there' = [been_there EXCEPT ![fr.check] = @ \cup {domain}]
             /\ Counted(f)
             /\ CheckHost(Frame(fr.check, fr.obj, domain, fr.included,
                                [to |-> "mod_chain", frame |-> f]))
             /\ Return /\ UNCHANGED groups
  /\ UNCHANGED <<plugin, hits, results, flawed>>

mod_exp ==
  /\ Calling("exp")
  /\ Goto(Mods(Head(agenda).frame, "None"))
  /\ UNCHANGED <<plugin, engine, hits, results, flawed>>

-----------------------------------------------------------------------------
(* The answers of the DNS                                                   *)

AnswerTo(q, kind) == agenda = <<>> /\ q.kind = kind
Arrived(q)        == queries' = queries \ {q}
Calls(item)       == agenda' = <<item>>

TxtAnswer(q) ==
  /\ AnswerTo(q, "txt") /\ Arrived(q)
  /\ LET f == q.frame  record == zone[frames[f].domain]
     IN CASE record.txt = "none" -> Calls(Back(f, "None")) /\ UNCHANGED frames
          [] record.txt = "temp" -> Calls(Back(f, "TempError")) /\ UNCHANGED frames
          [] record.txt \in {"two", "syntax"} -> Calls(Back(f, "PermError")) /\ UNCHANGED frames
          [] OTHER -> /\ frames' = [frames EXCEPT ![f].mechs = record.mechs, ![f].mods = record.mods]
                      /\ Calls(Chain(f, "None"))
  /\ UNCHANGED <<plugin, counts, been_there, groups, lookups, hits, results, flawed>>

Decide(q) == Calls(Chain(q.frame, return_const(q.mech.qualifier))) /\ Hit(q.frame, q.mech)
Without(q, r) == Calls(Chain(q.frame, r)) /\ UNCHANGED hits

AddressAnswer(q) ==
  /\ \/ AnswerTo(q, "a") /\ (Decide(q) \/ Without(q, "None") \/ Without(q, "TempError"))
     \/ AnswerTo(q, "exists") /\ (Decide(q) \/ Without(q, "None") \/ Without(q, "TempError"))
  /\ Arrived(q)
  /\ UNCHANGED <<plugin, frames, counts, been_there, groups, lookups, results, flawed>>

(* The exchanges, or the names of the address: each is asked for by itself, *)
(* and a set of more than LIMIT is an error.                                *)
NamesAnswer(q) ==
  /\ AnswerTo(q, "mx") \/ AnswerTo(q, "ptr")
  /\ \/ Without(q, "None") /\ Arrived(q) /\ UNCHANGED groups
     \/ q.kind = "mx" /\ Without(q, "TempError") /\ Arrived(q) /\ UNCHANGED groups
     \/ Without(q, "PermError") /\ Arrived(q) /\ UNCHANGED groups
     \/ \E n \in 1..MaxNames :
          /\ groups' = Append(groups, [pending |-> n, hit |-> FALSE])
          /\ queries' = (queries \ {q}) \cup
               {[q EXCEPT !.kind = "name", !.group = Len(groups) + 1, !.i = i] : i \in 1..n}
          /\ UNCHANGED <<agenda, hits>>
  /\ UNCHANGED <<plugin, frames, counts, been_there, lookups, results, flawed>>

(* How many are still asked after an answer; mutants: an address that is    *)
(* not found is not counted, and any answer is taken for the last.          *)
StillAsked_Found(g, found) == IF found = "temp" THEN groups[g].pending ELSE groups[g].pending - 1
StillAsked(g, found) == groups[g].pending - 1

NoneLeft_Any(pending) == TRUE
NoneLeft(pending) == pending = 0

(* The last of the addresses decides; an exchange that cannot be looked up  *)
(* is an error at once, whatever is still pending.                          *)
NameAnswer(q) ==
  /\ AnswerTo(q, "name") /\ Arrived(q)
  /\ LET g == q.group
     IN \E found \in {"hit", "miss", "temp"} :
          LET pending == StillAsked(g, found)
              last == NoneLeft(pending)
              hit  == groups[g].hit \/ found = "hit"
          IN /\ groups' = [groups EXCEPT ![g] = [pending |-> pending, hit |-> hit]]
             /\ CASE found = "temp" /\ q.mech.name = "mx" -> Without(q, "TempError")
                  [] ~last /\ ~(found = "temp" /\ q.mech.name = "mx") -> UNCHANGED <<agenda, hits>>
                  [] last /\ q.mech.arg = "bogus" /\ q.mech.name = "ptr" -> Without(q, "PermError")
                  [] last /\ hit /\ ~(found = "temp" /\ q.mech.name = "mx")
                          /\ ~(q.mech.arg = "bogus" /\ q.mech.name = "ptr") -> Decide(q)
                  [] OTHER -> Without(q, "None")
             /\ flawed' = (flawed \/ (found = "temp" /\ q.mech.name = "mx" /\ ~last))
  /\ UNCHANGED <<plugin, frames, counts, been_there, lookups, results>>

-----------------------------------------------------------------------------
(* The plugin                                                               *)

Check(s, domain) ==
  /\ CheckHost(Frame(s, Len(counts) + 1, domain, FALSE, [to |-> s, frame |-> 0]))
  /\ counts' = Append(counts, 0)
  /\ hook' = [hook EXCEPT ![s] = "waiting"]

(* return_results: the plugin is set to reject or to let everything pass.   *)
return_results(r) ==
  CASE session.reject /\ r \in {"None", "SoftFail", "Fail", "PermError"} -> "DENY"
    [] session.reject /\ r = "TempError" -> "DENYSOFT"
    [] OTHER -> "CONT"

Idle == agenda = <<>> /\ \A s \in Checks : hook[s] # "waiting"

helo_spf ==
  /\ Idle /\ hook["helo"] = "no" /\ hook["mfrom"] = "no"
  /\ IF session.helo = "literal"
     THEN /\ hook' = [hook EXCEPT !["helo"] = "CONT"]
          /\ UNCHANGED <<frames, queries, counts>>
     ELSE Check("helo", session.helo)
  /\ UNCHANGED <<zone, session, spf_helo, been_there, groups, agenda, lookups, hits, results, flawed>>

(* With an empty return path the result for HELO is used.                   *)
hook_mail ==
  /\ Idle /\ hook["helo"] # "no" /\ hook["mfrom"] = "no"
  /\ IF session.sender = "null"
     THEN /\ hook' = [hook EXCEPT !["mfrom"] = IF spf_helo = "none" THEN "CONT"
                                               ELSE return_results(spf_helo)]
          /\ UNCHANGED <<frames, queries, counts>>
     ELSE Check("mfrom", session.sender)
  /\ UNCHANGED <<zone, session, spf_helo, been_there, groups, agenda, lookups, hits, results, flawed>>

(* The callbacks of check_host: nothing comes of a result after the timer.  *)
Heard(s, r) == results' = [results EXCEPT ![s] = Append(@, r)]
Settle(s, reply) == hook' = IF hook[s] = "waiting" THEN [hook EXCEPT ![s] = reply] ELSE hook

HeloResult ==
  /\ Calling("helo") /\ Return
  /\ LET r == Head(agenda).result
     IN IF hook["helo"] = "timeout" THEN UNCHANGED <<hook, spf_helo, results>>
        ELSE spf_helo' = r /\ Settle("helo", "CONT") /\ Heard("helo", r)
  /\ UNCHANGED <<zone, session, engine, hits, flawed>>

(* In the context of ourselves a sender who does not pass is checked again  *)
(* as if it came from our own public address, which may not be known.       *)
MailResult ==
  /\ Calling("mfrom")
  /\ LET r     == Head(agenda).result
         again == session.relaying /\ session.context = "myself" /\ r # "Pass"
     IN \/ /\ again /\ CheckHost(Frame("own", Len(counts) + 1, session.sender, FALSE,
                                       [to |-> "own", frame |-> 0]))
           /\ counts' = Append(counts, 0) /\ UNCHANGED <<hook, results>>
        \/ /\ again /\ Settle("mfrom", "CONT") /\ UNCHANGED <<frames, queries, counts, results>>
        \/ /\ ~again /\ hook["mfrom"] = "timeout"
           /\ UNCHANGED <<frames, queries, counts, hook, results>>
        \/ /\ ~again /\ hook["mfrom"] # "timeout"
           /\ Settle("mfrom", return_results(r)) /\ Heard("mfrom", r)
           /\ UNCHANGED <<frames, queries, counts>>
  /\ Return
  /\ UNCHANGED <<zone, session, spf_helo, been_there, groups, lookups, hits, flawed>>

OwnResult ==
  /\ Calling("own") /\ Return
  /\ LET r == Head(agenda).result
     IN IF hook["mfrom"] = "timeout" THEN UNCHANGED <<hook, results>>
        ELSE Settle("mfrom", return_results(r)) /\ Heard("own", r)
  /\ UNCHANGED <<zone, session, spf_helo, engine, hits, flawed>>

Timeout(s) ==
  /\ agenda = <<>> /\ hook[s] = "waiting"
  /\ hook' = [hook EXCEPT ![s] = "timeout"]
  /\ UNCHANGED <<zone, session, spf_helo, engine, agenda, hits, results, flawed>>

Caller == MechChain \/ ModChain \/ mech_all \/ mech_ip \/ mech_include \/ Included
            \/ mod_redirect \/ mod_exp \/ HeloResult \/ MailResult \/ OwnResult
            \/ \E mech \in {"a", "exists", "mx", "ptr"} : Lookup(mech)
Answering == \E q \in queries : TxtAnswer(q) \/ AddressAnswer(q) \/ NamesAnswer(q) \/ NameAnswer(q)

PolicyNext == Caller \/ Answering \/ helo_spf \/ hook_mail \/ \E s \in Checks : Timeout(s)

(* The running callback ends, and every DNS query is answered in the end:   *)
(* the resolver gives up of itself.                                         *)
Fairness == WF_policy_vars(Caller) /\ WF_policy_vars(Answering)

PolicySpec == PolicyInit /\ [][PolicyNext]_policy_vars /\ Fairness

-----------------------------------------------------------------------------
(* Properties                                                               *)

(* A verdict comes from a mechanism that may give it. A sender fails only   *)
(* by a "-" mechanism of the record that was asked for or of one it         *)
(* redirects to: what an included record says of others is not taken for a  *)
(* failure (mech_include maps it to no result). He passes only by a         *)
(* mechanism that says so and matched, wherever the evaluation has been.    *)
VerdictEarned ==
  \A s \in Checks : \A i \in DOMAIN results[s] :
    /\ results[s][i] = "Fail" =>
         \E h \in hits : h.check = s /\ h.qualifier = "-" /\ ~h.included
    /\ results[s][i] = "Pass" => \E h \in hits : h.check = s /\ h.qualifier = "+"

(* The callback of a check is called once, unless one of several exchanges  *)
(* of an MX could not be looked up (mech_mx then reports the error at once  *)
(* and goes on to report what the others give).                             *)
HeardOnce == ~flawed => \A s \in Checks : Len(results[s]) <= 1

(* Every check ends without the plugin's timer: records that include and    *)
(* redirect to each other do not go on for ever, and a set of lookups, some *)
(* of which fail, gives its result with the last.                           *)
ChecksEnd == \A s \in {"helo", "mfrom"} : hook[s] = "waiting" ~> hook[s] # "waiting"
=============================================================================
