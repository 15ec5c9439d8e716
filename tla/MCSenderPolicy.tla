---------------------------- MODULE MCSenderPolicy ----------------------------
(* A small instance of SenderPolicy for TLC. *)
EXTENDS SenderPolicy

M(qualifier, name, arg) == [name |-> name, qualifier |-> qualifier, arg |-> arg]
Policy(mechs, mods) == [txt |-> "policy", mechs |-> mechs, mods |-> mods]
No(txt) == [txt |-> txt, mechs |-> <<>>, mods |-> <<>>]
Redirect(d) == [name |-> "redirect", arg |-> d]
Exp == [name |-> "exp", arg |-> ""]

MCDomains == {"d1", "d2", "d3"}

(* Records that include each other, with a "-" that is not the sender's own;*)
(* an MX before a redirect; records that redirect in a circle; included      *)
(* records that are wrong or missing; and lookups below two includes.       *)
MCZones ==
  {[d1 |-> Policy(<<M("+", "include", "d2"), M("~", "all", "")>>, <<>>),
    d2 |-> Policy(<<M("+", "a", ""), M("+", "include", "d1"), M("-", "all", "")>>, <<>>),
    d3 |-> No("none")],
   [d1 |-> Policy(<<M("+", "mx", "")>>, <<Exp, Redirect("d2")>>),
    d2 |-> Policy(<<M("-", "ip", "hit"), M("?", "all", "")>>, <<>>),
    d3 |-> No("none")],
   [d1 |-> Policy(<<M("+", "ip", "")>>, <<Redirect("d3")>>),
    d2 |-> No("none"),
    d3 |-> Policy(<<M("?", "ptr", ""), M("-", "exists", "")>>, <<Redirect("d1")>>)],
   [d1 |-> Policy(<<M("+", "include", "d2"), M("+", "include", "d3"), M("-", "all", "")>>, <<>>),
    d2 |-> Policy(<<M("-", "a", ""), M("+", "exists", "")>>, <<>>),
    d3 |-> No("syntax")],
   [d1 |-> Policy(<<M("+", "include", "d2"), M("+", "ptr", "bogus")>>, <<>>),
    d2 |-> No("temp"), d3 |-> No("two")],
   [d1 |-> Policy(<<M("+", "include", "d2"), M("+", "include", "d3"), M("~", "a", "")>>, <<>>),
    d2 |-> Policy(<<M("+", "a", ""), M("-", "mx", "")>>, <<>>),
    d3 |-> Policy(<<M("+", "exists", ""), M("+", "ip", "")>>, <<Redirect("d2")>>)]}

Inbound == [helo |-> "literal", sender |-> "d1", relaying |-> FALSE, context |-> "sender",
            reject |-> TRUE]
MCSessions ==
  {Inbound,
   [Inbound EXCEPT !.helo = "d1", !.sender = "null"],
   [Inbound EXCEPT !.helo = "d2", !.reject = FALSE],
   [Inbound EXCEPT !.relaying = TRUE, !.context = "myself"]}
=============================================================================
