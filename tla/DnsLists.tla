------------------------------ MODULE DnsLists -------------------------------
(***************************************************************************)
(* The DNS lists that the mail server asks about every client that connects*)
(* (email/plugins/dnsbl.js on dns_list_base.js), and the tests that take a *)
(* list out of use and put it back.                                        *)
(*                                                                         *)
(* The lookups for the clients and those of the tests are answered in any  *)
(* order; what a lookup finds is what the list is at that moment.          *)
(***************************************************************************)
EXTENDS Integers, FiniteSets

CONSTANTS
  Zones,          (* the lists of the configuration                        *)
  Clients         (* bound: the connections                                *)

Searches == {"first", "all"}
Periods  == {"never", "once", "again"}   (* periodic_checks: 0, below 5, 5 or more *)
Healths  == {"well", "silent", "world"}

VARIABLES
  search, reject, periodic,   (* of dnsbl.ini                               *)
  health,         (* silent: errs or times out. world: lists everybody      *)
  zones, disabled_zones,
  tests,          (* lookups of check_zones that have no answer yet         *)
  connect_hook,   (* per client, what became of it                          *)
  lookups,        (* per client, the lists that have not answered           *)
  hits            (* per client, the lists that answered with a listing     *)

settings == <<search, reject, periodic>>
lists    == <<zones, disabled_zones, tests>>
inquiry  == <<connect_hook, lookups, hits>>
lists_vars == <<settings, health, lists, inquiry>>

Test == [zone : Zones, step : {"loopback", "point"}, of : {"zones", "disabled_zones"}]

ListsTypeOK ==
  /\ search \in Searches /\ reject \in BOOLEAN /\ periodic \in Periods
  /\ health \in [Zones -> Healths]
  /\ zones \subseteq Zones /\ disabled_zones \subseteq Zones /\ tests \subseteq Test
  /\ connect_hook \in [Clients -> {"no", "waiting", "CONT", "DENY", "DENYSOFT"}]
  /\ lookups \in [Clients -> SUBSET Zones] /\ hits \in [Clients -> SUBSET Zones]

StartTests(enabled, disabled) ==
  {[zone |-> z, step |-> "loopback", of |-> "zones"] : z \in enabled} \cup
  {[zone |-> z, step |-> "loopback", of |-> "disabled_zones"] : z \in disabled}

(* register                                                                 *)
ListsInit ==
  /\ search \in Searches /\ reject \in BOOLEAN /\ periodic \in Periods
  /\ health \in [Zones -> Healths]
  /\ zones = Zones /\ disabled_zones = {}
  /\ tests = IF periodic = "never" THEN {} ELSE StartTests(Zones, {})
  /\ connect_hook = [c \in Clients |-> "no"]
  /\ lookups = [c \in Clients |-> {}] /\ hits = [c \in Clients |-> {}]

-----------------------------------------------------------------------------
(* The lists. Nothing is disabled unless check_zones allowed it.            *)

disable_zone_Lost(z) ==
  IF periodic # "never" /\ z \in zones
  THEN zones' = zones \ {z} /\ UNCHANGED disabled_zones
  ELSE UNCHANGED <<zones, disabled_zones>>

disable_zone(z) ==
  IF periodic # "never" /\ z \in zones
  THEN /\ zones' = zones \ {z}
       /\ disabled_zones' = disabled_zones \cup {z}
  ELSE UNCHANGED <<zones, disabled_zones>>

(* The interval is longer than a lookup. What is enabled again stays in     *)
(* disabled_zones, and is tested twice.                                     *)
check_zones ==
  /\ periodic = "again" /\ tests = {}
  /\ tests' = StartTests(zones, disabled_zones)
  /\ UNCHANGED <<settings, health, zones, disabled_zones, inquiry>>

(* The file of settings was written: every list is back in use.             *)
load_config ==
  /\ zones' = Zones
  /\ UNCHANGED <<settings, health, disabled_zones, tests, inquiry>>

(* 127.0.0.1 must not be listed. Short of a timeout, the test point is tried*)
(* also of a list that erred, or that was disabled for its odd answer.      *)
Loopback(t) ==
  /\ t \in tests /\ t.step = "loopback"
  /\ \/ /\ health[t.zone] # "well"
        /\ tests' = tests \ {t} /\ disable_zone(t.zone)
     \/ /\ health[t.zone] # "world"
        /\ tests' = (tests \ {t}) \cup {[t EXCEPT !.step = "point"]}
        /\ \/ UNCHANGED <<zones, disabled_zones>>
           \/ health[t.zone] = "silent" /\ disable_zone(t.zone)
  /\ UNCHANGED <<settings, health, inquiry>>

(* The test point, 127.0.0.2, must be listed.                               *)
Point(t) ==
  /\ t \in tests /\ t.step = "point"
  /\ tests' = tests \ {t}
  /\ IF health[t.zone] = "silent" THEN disable_zone(t.zone)
     ELSE zones' = zones \cup {t.zone} /\ UNCHANGED disabled_zones
  /\ UNCHANGED <<settings, health, inquiry>>

Change(z) ==
  /\ \E h \in Healths : health' = [health EXCEPT ![z] = h]
  /\ UNCHANGED <<settings, lists, inquiry>>

-----------------------------------------------------------------------------
(* The clients                                                              *)

Next1(c, answer) ==
  connect_hook' =
    IF connect_hook[c] = "waiting" THEN [connect_hook EXCEPT ![c] = answer] ELSE connect_hook

(* connect_first and connect_multi, which ask the lists in use.             *)
connect(c) ==
  /\ connect_hook[c] = "no"
  /\ connect_hook' = [connect_hook EXCEPT ![c] = IF zones = {} THEN "CONT" ELSE "waiting"]
  /\ lookups' = [lookups EXCEPT ![c] = zones]
  /\ UNCHANGED <<settings, health, lists, hits>>

Verdict(listed) == IF reject /\ listed # {} THEN "DENY" ELSE "CONT"

Conclusive_Any(c, z, hit) == lookups[c] = {z} \/ search = "first"

(* first: the first listing answers the hook. all: the last answer does, as *)
(* it does when there was no listing.                                       *)
Conclusive(c, z, hit) == lookups[c] = {z} \/ (hit /\ search = "first")

Listings(z) ==
  CASE health[z] = "world" -> {TRUE} [] health[z] = "silent" -> {FALSE} [] OTHER -> BOOLEAN

(* One lookup is answered. A list that times out is disabled, and so is one *)
(* whose answer is none of a list's.                                        *)
lookup(c, z) ==
  /\ z \in lookups[c]
  /\ \E hit \in Listings(z) :
     /\ lookups' = [lookups EXCEPT ![c] = @ \ {z}]
     /\ hits' = [hits EXCEPT ![c] = IF hit THEN @ \cup {z} ELSE @]
     /\ IF Conclusive(c, z, hit) THEN Next1(c, Verdict(hits'[c])) ELSE UNCHANGED connect_hook
     /\ \/ UNCHANGED <<zones, disabled_zones>>
        \/ health[z] = "silent" /\ disable_zone(z)
     /\ UNCHANGED <<settings, health, tests>>

(* The timer of plugins.js. The lookups go on.                              *)
HookTimeout(c) ==
  /\ connect_hook[c] = "waiting" /\ Next1(c, "DENYSOFT")
  /\ UNCHANGED <<settings, health, lists, lookups, hits>>

ListsNext ==
  \/ check_zones \/ load_config
  \/ \E t \in Test : Loopback(t) \/ Point(t)
  \/ \E z \in Zones : Change(z)
  \/ \E c \in Clients : connect(c) \/ HookTimeout(c) \/ \E z \in Zones : lookup(c, z)

(* The interval fires again and again, and every lookup is answered.        *)
ListsSpec ==
  /\ ListsInit /\ [][ListsNext]_lists_vars
  /\ WF_lists_vars(check_zones) /\ \A t \in Test : WF_lists_vars(Loopback(t) \/ Point(t))
  /\ \A c \in Clients, z \in Zones : WF_lists_vars(lookup(c, z))

-----------------------------------------------------------------------------
(* Properties                                                               *)

(* Unless plugins.js answered for it, the hook says what the lists said:    *)
(* nobody is refused without a listing, and nobody is let in (where listings*)
(* refuse) before every list that was asked has answered without one.       *)
ListsFollowed ==
  \A c \in Clients :
    /\ connect_hook[c] = "DENY" => reject /\ hits[c] # {}
    /\ connect_hook[c] = "CONT" /\ reject => hits[c] = {} /\ lookups[c] = {}

(* docs/plugins/dnsbl.md: "If a zone subsequently starts working correctly  *)
(* then it will be re-enabled", where there is an interval of tests.        *)
RecoveredZonesUsed ==
  periodic = "again" =>
    \A z \in Zones : <>[](health[z] = "well") => <>[](z \in zones)
=============================================================================
