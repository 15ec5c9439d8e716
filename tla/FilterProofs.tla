------------------------------ MODULE FilterProofs -----------------------------
(***************************************************************************)
(* The filters of Admission decide on what the DNS said and on what the    *)
(* connection showed before: proved for any number of HELOs, mails and     *)
(* exchanges, every setting, and answers in any order, late ones included. *)
(*                                                                         *)
(* What DnsLists says to a client is what the lists said: proved for any   *)
(* number of lists and clients, and for every order of answers, tests,     *)
(* changes of the settings and timeouts.                                   *)
(***************************************************************************)
EXTENDS Admission, DnsLists, TLAPS

(* Admission.                                                               *)
Helo(i) == hook[<<"helo", i>>]
Mail(m) == hook[<<"mail", m>>]
Asked(m) == {q \in queries : q.call = <<"mail", m>>}

-----------------------------------------------------------------------------
(* What is_resolvable rests on: a mail's lookups are one alone, or the ones *)
(* of its exchanges; once it has a verdict that is not a timeout, none.     *)
Mailed(m) ==
  /\ Mail(m) \in {"no", "CONT", "DENY"} => Asked(m) = {}
  /\ Mail(m) = "no" => found[m] = "none"
  /\ Mail(m) = "CONT" => found[m] \in {"none", "address", "bogus"}
  /\ Mail(m) = "DENY" => found[m] # "address"
  /\ \A p, q \in Asked(m) : p # q => p.kind = "exchange" /\ q.kind = "exchange"

MailInv == \A m \in 1..MaxMails : Mailed(m)

(* HELOs come one after the other, each when the last one was answered.     *)
Sequence ==
  \A i, k \in 1..MaxHelos : i < k /\ Helo(i) \in {"no", "waiting"} => Helo(k) = "no"

Ehlos   == esmtp <=> \E i \in 1..MaxHelos : helos[i].verb = "EHLO" /\ Helo(i) = "CONT"
Started == helo_host => \E j \in 1..MaxHelos : Helo(j) # "no"

(* A mismatch is one with another verb, or with a HELO that was refused for *)
(* good: neither changes any more.                                          *)
Mismatches ==
  \A i \in 1..MaxHelos : helos[i].mismatch =>
    \E j \in 1..MaxHelos : /\ j < i /\ Helo(j) \in Outcome
                           /\ helos[j].verb # helos[i].verb \/ Helo(j) # "CONT"

HeloInv == Sequence /\ Ehlos /\ Started /\ Mismatches

AdmissionInv == TypeOK /\ MailInv /\ HeloInv

-----------------------------------------------------------------------------
(* Calls and lookups. *)
LEMMA HeloCall == ASSUME NEW i \in 1..MaxHelos PROVE <<"helo", i>> \in Calls
  BY DEF Calls, HeloCalls

LEMMA MailCall == ASSUME NEW m \in 1..MaxMails PROVE <<"mail", m>> \in Calls /\ <<"mail", m>> \in MailCalls
  BY DEF Calls, MailCalls

LEMMA MailOf ==
  ASSUME NEW c \in MailCalls PROVE c[2] \in 1..MaxMails /\ c = <<"mail", c[2]>> /\ c \in Calls
  BY DEF Calls, MailCalls

LEMMA Apart ==
  ASSUME NEW i \in 1..MaxHelos, NEW m \in 1..MaxMails
  PROVE  <<"helo", i>> # <<"mail", m>>
  OBVIOUS

(* An answer changes its hook if that waits, and no other.                  *)
LEMMA Answered ==
  ASSUME TypeOK, NEW call \in Calls, NEW a \in Outcome, Answer(call, a)
  PROVE  /\ hook' \in [Calls -> {"no", "waiting", "CONT", "DENY", "DENYSOFT"}]
         /\ hook'[call] = IF hook[call] = "waiting" THEN a ELSE hook[call]
         /\ \A c \in Calls : c # call => hook'[c] = hook[c]
  BY DEF TypeOK, Answer, Outcome

-----------------------------------------------------------------------------
(* What changes the mails, and what does not. *)
LEMMA MailsKept ==
  ASSUME MailInv, \A m \in 1..MaxMails : Mail(m)' = Mail(m) /\ found'[m] = found[m] /\ Asked(m)' = Asked(m)
  PROVE  MailInv'
  <1>1. ASSUME NEW m \in 1..MaxMails PROVE Mailed(m)'
    BY DEF MailInv, Mailed
  <1>. QED  BY <1>1 DEF MailInv

LEMMA OneMail ==
  ASSUME MailInv, NEW m \in 1..MaxMails, Mailed(m)',
         \A k \in 1..MaxMails : k # m => Mail(k)' = Mail(k) /\ found'[k] = found[k] /\ Asked(k)' = Asked(k)
  PROVE  MailInv'
  <1>1. ASSUME NEW k \in 1..MaxMails PROVE Mailed(k)'
    <2>1. CASE k # m
      BY <2>1 DEF MailInv, Mailed
    <2>2. CASE k = m
      BY <2>2
    <2>. QED  BY <2>1, <2>2
  <1>. QED  BY <1>1 DEF MailInv

(* A step of a mail leaves the HELOs alone.                                 *)
LEMMA HelosKept ==
  ASSUME HeloInv, UNCHANGED client, \A i \in 1..MaxHelos : Helo(i)' = Helo(i)
  PROVE  HeloInv'
  <1>1. Sequence'
    BY DEF HeloInv, Sequence
  <1>2. Ehlos'
    BY DEF HeloInv, Ehlos, client
  <1>3. Started'
    BY DEF HeloInv, Started, client
  <1>4. Mismatches'
    BY DEF HeloInv, Mismatches, client
  <1>. QED  BY <1>1, <1>2, <1>3, <1>4 DEF HeloInv

(* The other plugins' hooks answer a HELO: if they let an EHLO pass, the    *)
(* connection is one of ESMTP.                                              *)
LEMMA HeloAnsweredStep ==
  ASSUME AdmissionInv, NEW i \in 1..MaxHelos, NEW a \in Outcome, HeloAnswered(i, a)
  PROVE  AdmissionInv'
  <1>1. TypeOK /\ MailInv /\ HeloInv
    BY DEF AdmissionInv
  <1>2. /\ Helo(i) = "waiting" /\ Answer(<<"helo", i>>, a)
        /\ esmtp' = (esmtp \/ (helos[i].verb = "EHLO" /\ a = "CONT"))
        /\ UNCHANGED <<cfg, queries, helos, helo_host, transaction, found>>
    BY DEF HeloAnswered, helo_respond, Helo
  <1>3. /\ hook' \in [Calls -> {"no", "waiting", "CONT", "DENY", "DENYSOFT"}]
        /\ Helo(i)' = a
        /\ \A c \in Calls : c # <<"helo", i>> => hook'[c] = hook[c]
    BY <1>1, <1>2, HeloCall, Answered DEF Helo
  <1>4. \A k \in 1..MaxHelos : k # i => Helo(k)' = Helo(k)
    BY <1>3, HeloCall DEF Helo
  <1>5. \A k \in 1..MaxHelos : (Helo(k)' = "no" <=> Helo(k) = "no") /\ (Helo(k) \in Outcome => Helo(k)' = Helo(k))
    BY <1>2, <1>3, <1>4 DEF Outcome
  <1>6. TypeOK'
    BY <1>1, <1>2, <1>3 DEF TypeOK
  <1>7. MailInv'
    <2>1. \A m \in 1..MaxMails : Mail(m)' = Mail(m) /\ Asked(m)' = Asked(m)
      BY <1>2, <1>3, MailCall, Apart DEF Mail, Asked
    <2>. QED  BY <1>1, <1>2, <2>1, MailsKept
  <1>8. Sequence'
    BY <1>1, <1>2, <1>3, <1>4, <1>5 DEF HeloInv, Sequence, Outcome
  <1>9. Started'
    BY <1>1, <1>2, <1>5 DEF HeloInv, Started
  <1>10. Ehlos'
    <2>1. CASE helos[i].verb = "EHLO" /\ a = "CONT"
      BY <1>2, <1>3, <2>1 DEF Ehlos
    <2>2. CASE ~(helos[i].verb = "EHLO" /\ a = "CONT")
      <3>1. \A k \in 1..MaxHelos : helos[k].verb = "EHLO" => (Helo(k)' = "CONT" <=> Helo(k) = "CONT")
        BY <1>2, <1>3, <1>4, <2>2
      <3>2. esmtp' <=> esmtp
        BY <1>1, <1>2, <2>2 DEF TypeOK
      <3>. QED  BY <1>1, <1>2, <3>1, <3>2 DEF HeloInv, Ehlos
    <2>. QED  BY <2>1, <2>2
  <1>11. Mismatches'
    BY <1>1, <1>2, <1>5 DEF HeloInv, Mismatches
  <1>. QED  BY <1>6, <1>7, <1>8, <1>9, <1>10, <1>11 DEF AdmissionInv, HeloInv

-----------------------------------------------------------------------------
LEMMA HeloRecord ==
  ASSUME NEW verb, NEW mismatch \in BOOLEAN
  PROVE  /\ [verb |-> verb, mismatch |-> mismatch].mismatch = mismatch
         /\ [verb |-> verb, mismatch |-> mismatch].verb = verb
  OBVIOUS

(* A HELO or EHLO comes when everything before it was answered, and waits   *)
(* or is refused for its mismatch.                                          *)
LEMMA HeloHookStep ==
  ASSUME AdmissionInv, NEW i \in 1..MaxHelos, NEW verb \in {"HELO", "EHLO"}, HeloHook(i, verb)
  PROVE  AdmissionInv'
  <1>1. TypeOK /\ MailInv /\ HeloInv
    BY DEF AdmissionInv
  <1>. DEFINE new    == [verb |-> verb, mismatch |-> proto_mismatch(verb)]
              answer == IF proto_mismatch(verb) /\ cfg.reject_mismatch THEN "DENY" ELSE "waiting"
  <1>2. /\ Helo(i) = "no" /\ \A k \in 1..MaxHelos : Helo(k) # "waiting"
        /\ hook' = [hook EXCEPT ![<<"helo", i>>] = answer]
        /\ helos' = [helos EXCEPT ![i] = new]
        /\ helo_host' \in BOOLEAN /\ transaction' = 0
        /\ UNCHANGED <<cfg, queries, esmtp, found>>
    BY <1>1, HeloCall DEF HeloHook, Turn, Helo, TypeOK
  <1>3. proto_mismatch(verb) \in BOOLEAN
    BY <1>1 DEF proto_mismatch, TypeOK
  <1>4. new.mismatch = proto_mismatch(verb) /\ new.verb = verb
    BY <1>3, HeloRecord, Zenon
  <1>5. new \in [verb : {"HELO", "EHLO"}, mismatch : BOOLEAN]
    BY <1>3
  <1>6. answer \in {"waiting", "DENY"}
    OBVIOUS
  <1>. HIDE DEF new, answer
  <1>7. /\ Helo(i)' = answer
        /\ \A k \in 1..MaxHelos : k # i => Helo(k)' = Helo(k)
        /\ \A m \in 1..MaxMails : Mail(m)' = Mail(m)
    BY <1>1, <1>2, HeloCall, MailCall DEF TypeOK, Helo, Mail
  <1>8. helos'[i] = new /\ \A k \in 1..MaxHelos : k # i => helos'[k] = helos[k]
    BY <1>1, <1>2 DEF TypeOK
  <1>9. TypeOK'
    <2>1. helos' \in [1..MaxHelos -> [verb : {"HELO", "EHLO"}, mismatch : BOOLEAN]]
      BY <1>1, <1>2, <1>5 DEF TypeOK
    <2>2. hook' \in [Calls -> {"no", "waiting", "CONT", "DENY", "DENYSOFT"}]
      BY <1>1, <1>2, <1>6 DEF TypeOK
    <2>. QED  BY <1>1, <1>2, <2>1, <2>2, BoundsTyped DEF TypeOK
  <1>10. MailInv'
    <2>1. \A m \in 1..MaxMails : found'[m] = found[m] /\ Asked(m)' = Asked(m)
      BY <1>2 DEF Asked
    <2>. QED  BY <1>1, <1>7, <2>1, MailsKept
  <1>11. \A k \in 1..MaxHelos : Helo(k) # "no" => k < i
    <2>. SUFFICES ASSUME NEW k \in 1..MaxHelos, Helo(k) # "no" PROVE k < i
      OBVIOUS
    <2>1. k # i
      BY <1>2
    <2>2. ~(i < k)
      BY <1>1, <1>2 DEF HeloInv, Sequence
    <2>. QED  BY <2>1, <2>2
  <1>12. \A k \in 1..MaxHelos : k < i => Helo(k) \in Outcome
    <2>1. \A k \in 1..MaxHelos : k < i => Helo(k) # "no"
      BY HeloCall DEF HeloHook, Turn, Helo
    <2>2. \A k \in 1..MaxHelos : Helo(k) \in Outcome \cup {"no", "waiting"}
      BY <1>1, HeloCall DEF TypeOK, Helo, Outcome
    <2>. QED  BY <1>2, <2>1, <2>2
  <1>13. Sequence'
    BY <1>6, <1>7, <1>11, <1>12 DEF Sequence, Outcome
  <1>14. Ehlos'
    <2>1. \A k \in 1..MaxHelos : helos'[k].verb = "EHLO" /\ Helo(k)' = "CONT"
                                   <=> helos[k].verb = "EHLO" /\ Helo(k) = "CONT"
      BY <1>2, <1>6, <1>7, <1>8
    <2>. QED  BY <1>1, <1>2, <2>1 DEF HeloInv, Ehlos
  <1>15. Started'
    BY <1>6, <1>7 DEF Started
  <1>16. Mismatches'
    <2>. SUFFICES ASSUME NEW k \in 1..MaxHelos, helos'[k].mismatch
         PROVE  \E j \in 1..MaxHelos : /\ j < k /\ Helo(j)' \in Outcome
                                       /\ helos'[j].verb # helos'[k].verb \/ Helo(j)' # "CONT"
      BY DEF Mismatches
    <2>1. CASE k = i
      <3>1. helo_host /\ (IF verb = "HELO" THEN esmtp ELSE ~esmtp) /\ helos'[k].verb = verb
        <4>1. helos'[k].mismatch = proto_mismatch(verb) /\ helos'[k].verb = verb
          BY <1>4, <1>8, <2>1, Zenon
        <4>2. proto_mismatch(verb)
          BY <4>1
        <4>. QED  BY <4>1, <4>2 DEF proto_mismatch
      <3>2. CASE verb = "HELO"
        <4>1. esmtp
          BY <3>1, <3>2
        <4>2. PICK j \in 1..MaxHelos : helos[j].verb = "EHLO" /\ Helo(j) = "CONT"
          BY <1>1, <4>1 DEF HeloInv, Ehlos
        <4>3. j < i
          BY <1>11, <4>2
        <4>. QED  BY <1>7, <1>8, <2>1, <3>1, <3>2, <4>2, <4>3 DEF Outcome
      <3>3. CASE verb = "EHLO"
        <4>1. PICK j \in 1..MaxHelos : Helo(j) # "no"
          BY <1>1, <3>1 DEF HeloInv, Started
        <4>2. j < i /\ Helo(j) \in Outcome
          BY <1>11, <1>12, <4>1
        <4>3. helos[j].verb # "EHLO" \/ Helo(j) # "CONT"
          BY <1>1, <3>1, <3>3 DEF HeloInv, Ehlos
        <4>. QED  BY <1>7, <1>8, <2>1, <3>1, <3>3, <4>2, <4>3
      <3>. QED  BY <3>2, <3>3
    <2>2. CASE k # i
      <3>1. PICK j \in 1..MaxHelos : /\ j < k /\ Helo(j) \in Outcome
                                     /\ helos[j].verb # helos[k].verb \/ Helo(j) # "CONT"
        BY <1>1, <1>8, <2>2 DEF HeloInv, Mismatches
      <3>2. j # i
        BY <1>2, <3>1 DEF Outcome
      <3>. QED  BY <1>7, <1>8, <2>2, <3>1, <3>2
    <2>. QED  BY <2>1, <2>2
  <1>. QED  BY <1>9, <1>10, <1>13, <1>14, <1>15, <1>16 DEF AdmissionInv, HeloInv

-----------------------------------------------------------------------------
(* A step of one mail: its lookups give way to New, its hook is answered or *)
(* left as it is, and nobody else's are touched.                            *)
LEMMA MailStep ==
  ASSUME AdmissionInv, NEW m \in 1..MaxMails, Mailed(m)',
         UNCHANGED <<cfg, client>>, transaction' \in 0..MaxMails,
         found' \in [1..MaxMails -> {"none", "nothing", "address", "bogus", "error"}],
         hook' \in [Calls -> {"no", "waiting", "CONT", "DENY", "DENYSOFT"}],
         \A c \in Calls : c # <<"mail", m>> => hook'[c] = hook[c],
         \A k \in 1..MaxMails : k # m => found'[k] = found[k],
         \A q \in queries' : q \in queries \/ (q \in Query /\ q.call = <<"mail", m>>),
         \A q \in queries : q.call # <<"mail", m>> => q \in queries'
  PROVE  AdmissionInv'
  <1>1. TypeOK /\ MailInv /\ HeloInv
    BY DEF AdmissionInv
  <1>2. TypeOK'
    BY <1>1 DEF TypeOK, client
  <1>3. MailInv'
    <2>1. ASSUME NEW k \in 1..MaxMails, k # m
          PROVE  Mail(k)' = Mail(k) /\ found'[k] = found[k] /\ Asked(k)' = Asked(k)
      <3>1. <<"mail", k>> # <<"mail", m>> /\ <<"mail", k>> \in Calls
        BY <2>1, MailCall
      <3>. QED  BY <2>1, <3>1 DEF Mail, Asked
    <2>. QED  BY <1>1, <2>1, OneMail
  <1>4. HeloInv'
    <2>1. \A i \in 1..MaxHelos : Helo(i)' = Helo(i)
      BY HeloCall, Apart DEF Helo
    <2>. QED  BY <1>1, <2>1, HelosKept
  <1>. QED  BY <1>2, <1>3, <1>4 DEF AdmissionInv

(* MAIL: without a domain it passes, with one its exchanges are asked for.  *)
LEMMA MailHookStep ==
  ASSUME AdmissionInv, NEW m \in 1..MaxMails, MailHook(m)
  PROVE  AdmissionInv'
  <1>1. TypeOK /\ MailInv /\ Mailed(m)
    BY DEF AdmissionInv, MailInv
  <1>2. Mail(m) = "no" /\ Asked(m) = {} /\ found[m] = "none"
    BY <1>1 DEF MailHook, Turn, Mail, Mailed
  <1>3. /\ UNCHANGED <<cfg, client>> /\ transaction' \in 0..MaxMails
    BY BoundsTyped DEF MailHook
  <1>4. CASE hook' = [hook EXCEPT ![<<"mail", m>>] = "CONT"] /\ UNCHANGED <<queries, found>>
    <2>1. Mail(m)' = "CONT" /\ Asked(m)' = {}
      BY <1>1, <1>2, <1>4, MailCall DEF TypeOK, Mail, Asked
    <2>2. Mailed(m)'
      BY <1>2, <1>4, <2>1 DEF Mailed
    <2>3. /\ hook' \in [Calls -> {"no", "waiting", "CONT", "DENY", "DENYSOFT"}]
          /\ \A c \in Calls : c # <<"mail", m>> => hook'[c] = hook[c]
      BY <1>1, <1>4 DEF TypeOK
    <2>4. found' \in [1..MaxMails -> {"none", "nothing", "address", "bogus", "error"}]
      BY <1>1, <1>4 DEF TypeOK
    <2>. QED  BY <1>3, <1>4, <2>2, <2>3, <2>4, MailStep
  <1>5. CASE hook' = [hook EXCEPT ![<<"mail", m>>] = "waiting"] 
             /\ queries' = queries \cup {[call |-> <<"mail", m>>, kind |-> "mx", of |-> 0]}
             /\ found' = [found EXCEPT ![m] = "nothing"]
    <2>. DEFINE new == [call |-> <<"mail", m>>, kind |-> "mx", of |-> 0]
    <2>1. queries' = queries \cup {new}
      BY <1>5
    <2>2. new \in Query /\ new.kind = "mx" /\ new.call = <<"mail", m>>
      BY MailCall, BoundsTyped DEF Query
    <2>. HIDE DEF new
    <2>3. Asked(m)' = {new}
      BY <1>2, <2>1, <2>2 DEF Asked
    <2>4. /\ hook' \in [Calls -> {"no", "waiting", "CONT", "DENY", "DENYSOFT"}]
          /\ \A c \in Calls : c # <<"mail", m>> => hook'[c] = hook[c]
          /\ Mail(m)' = "waiting"
      BY <1>1, <1>5, MailCall DEF TypeOK, Mail
    <2>5. Mailed(m)'
      BY <2>3, <2>4 DEF Mailed
    <2>6. /\ found' \in [1..MaxMails -> {"none", "nothing", "address", "bogus", "error"}]
          /\ \A k \in 1..MaxMails : k # m => found'[k] = found[k]
      BY <1>1, <1>5 DEF TypeOK
    <2>. QED  BY <1>3, <2>1, <2>2, <2>4, <2>5, <2>6, MailStep
  <1>. QED  BY <1>4, <1>5 DEF MailHook

(* What an answer to a mail's hook does: mxDone. What is found must suit it.*)
LEMMA MxDone ==
  ASSUME AdmissionInv, NEW m \in 1..MaxMails, NEW a \in Outcome, mxDone(<<"mail", m>>, a)
  PROVE  /\ hook' \in [Calls -> {"no", "waiting", "CONT", "DENY", "DENYSOFT"}]
         /\ \A c \in Calls : c # <<"mail", m>> => hook'[c] = hook[c]
         /\ Mail(m)' = IF Mail(m) = "waiting" THEN a ELSE Mail(m)
         /\ transaction' \in 0..MaxMails
  <1>1. TypeOK /\ Answer(<<"mail", m>>, a)
    BY DEF AdmissionInv, mxDone
  <1>2. transaction' \in 0..MaxMails
    BY <1>1, BoundsTyped DEF mxDone, TypeOK
  <1>. QED  BY <1>1, <1>2, MailCall, Answered DEF Mail

(* A lookup for a mail that is out says that its hook waits or was timed out.*)
LEMMA Pending ==
  ASSUME AdmissionInv, NEW q \in queries
  PROVE  /\ q.call[2] \in 1..MaxMails /\ q.call = <<"mail", q.call[2]>>
         /\ q \in Asked(q.call[2]) /\ q \in Query
         /\ Mail(q.call[2]) \in {"waiting", "DENYSOFT"}
  <1>1. q.call \in MailCalls
    BY DEF AdmissionInv, TypeOK, Query
  <1>2. q.call[2] \in 1..MaxMails /\ q.call = <<"mail", q.call[2]>>
    BY <1>1, MailOf
  <1>3. q \in Asked(q.call[2]) /\ q \in Query
    BY <1>2 DEF Asked, AdmissionInv, TypeOK
  <1>4. Mail(q.call[2]) \in {"no", "waiting", "CONT", "DENY", "DENYSOFT"}
    BY <1>2, MailCall DEF AdmissionInv, TypeOK, Mail
  <1>5. Mail(q.call[2]) \notin {"no", "CONT", "DENY"}
    BY <1>2, <1>3 DEF AdmissionInv, MailInv, Mailed
  <1>. QED  BY <1>2, <1>3, <1>4, <1>5

LEMMA QueryTyped ==
  ASSUME NEW q \in Query
  PROVE  [q EXCEPT !.kind = "implicit"] \in Query /\ [q EXCEPT !.kind = "implicit"].call = q.call
         /\ [q EXCEPT !.kind = "implicit"].kind = "implicit"
  BY DEF Query

(* The lookup of one mail gives way to others: what MailStep asks of sets.  *)
LEMMA Exchanged ==
  ASSUME AdmissionInv, NEW q \in queries, NEW m, m = q.call[2],
         NEW New, New \subseteq Query, \A p \in New : p.call = q.call,
         queries' = (queries \ {q}) \cup New
  PROVE  /\ \A p \in queries' : p \in queries \/ (p \in Query /\ p.call = <<"mail", m>>)
         /\ \A p \in queries : p.call # <<"mail", m>> => p \in queries'
         /\ Asked(m)' = (Asked(m) \ {q}) \cup New
  <1>1. q.call = <<"mail", m>>
    BY Pending
  <1>. QED  BY <1>1 DEF Asked

(* The MX records: an error, none (then the domain itself is asked for), or *)
(* exchanges, some of which may be addresses. Without a transaction nothing *)
(* is done with them.                                                       *)
LEMMA MxAnswerStep ==
  ASSUME AdmissionInv, NEW q \in queries, MxAnswer(q)
  PROVE  AdmissionInv'
  <1>. DEFINE m == q.call[2]
  <1>1. q.kind = "mx" /\ UNCHANGED <<cfg, client>>
    BY DEF MxAnswer
  <1>2. /\ m \in 1..MaxMails /\ q.call = <<"mail", m>> /\ q \in Asked(m) /\ q \in Query
        /\ Mail(m) \in {"waiting", "DENYSOFT"}
    BY <1>1, Pending
  <1>. HIDE DEF m
  <1>3. Asked(m) = {q}
    BY <1>1, <1>2 DEF AdmissionInv, MailInv, Mailed
  <1>4. TypeOK
    BY DEF AdmissionInv
  <1>5. CASE transaction = 0 /\ Done(q) /\ UNCHANGED <<hook, transaction, found>>
    <2>1. queries' = (queries \ {q}) \cup {}
      BY <1>5 DEF Done
    <2>2. /\ \A p \in queries' : p \in queries \/ (p \in Query /\ p.call = <<"mail", m>>)
          /\ \A p \in queries : p.call # <<"mail", m>> => p \in queries'
          /\ Asked(m)' = (Asked(m) \ {q}) \cup {}
      BY <1>1, <2>1, Exchanged DEF m
    <2>3. Mailed(m)'
      BY <1>2, <1>3, <1>5, <2>2 DEF Mailed, Mail
    <2>. QED  BY <1>1, <1>2, <1>4, <1>5, <2>2, <2>3, MailStep DEF TypeOK
  <1>6. CASE /\ Done(q) /\ mxDone(q.call, "DENYSOFT")
             /\ found' = [found EXCEPT ![q.call[2]] = "error"]
    <2>1. queries' = (queries \ {q}) \cup {}
      BY <1>6 DEF Done
    <2>2. /\ \A p \in queries' : p \in queries \/ (p \in Query /\ p.call = <<"mail", m>>)
          /\ \A p \in queries : p.call # <<"mail", m>> => p \in queries'
          /\ Asked(m)' = (Asked(m) \ {q}) \cup {}
      BY <1>1, <2>1, Exchanged DEF m
    <2>3. /\ hook' \in [Calls -> {"no", "waiting", "CONT", "DENY", "DENYSOFT"}]
          /\ \A c \in Calls : c # <<"mail", m>> => hook'[c] = hook[c]
          /\ Mail(m)' = "DENYSOFT" /\ transaction' \in 0..MaxMails
      BY <1>2, <1>6, MxDone DEF Outcome
    <2>4. /\ found' \in [1..MaxMails -> {"none", "nothing", "address", "bogus", "error"}]
          /\ \A k \in 1..MaxMails : k # m => found'[k] = found[k]
      BY <1>4, <1>6 DEF TypeOK, m
    <2>5. Mailed(m)'
      BY <1>3, <2>2, <2>3 DEF Mailed
    <2>. QED  BY <1>1, <1>2, <2>2, <2>3, <2>4, <2>5, MailStep
  <1>7. CASE /\ UNCHANGED <<hook, transaction, found>>
             /\ queries' = (queries \ {q}) \cup {[q EXCEPT !.kind = "implicit"]}
    <2>. DEFINE new == [q EXCEPT !.kind = "implicit"]
    <2>1. new \in Query /\ new.call = q.call /\ new.kind = "implicit"
      BY <1>1, <1>2, QueryTyped
    <2>2. queries' = (queries \ {q}) \cup {new}
      BY <1>7
    <2>. HIDE DEF new
    <2>3. /\ \A p \in queries' : p \in queries \/ (p \in Query /\ p.call = <<"mail", m>>)
          /\ \A p \in queries : p.call # <<"mail", m>> => p \in queries'
          /\ Asked(m)' = (Asked(m) \ {q}) \cup {new}
      <3>2. {new} \subseteq Query /\ \A p \in {new} : p.call = q.call
        BY <2>1
      <3>3. q.call = <<"mail", m>>
        BY <1>2
      <3>. QED  BY <2>2, <3>2, <3>3 DEF Asked
    <2>4. Mailed(m)'
      BY <1>2, <1>3, <1>7, <2>3 DEF Mailed, Mail
    <2>. QED  BY <1>1, <1>2, <1>4, <1>7, <2>3, <2>4, MailStep DEF TypeOK
  <1>8. ASSUME NEW names \in 0..MaxExchanges, NEW had \in {"address", "nothing"},
               NEW asked, asked = {[call |-> q.call, kind |-> "exchange", of |-> n] : n \in 1..names},
               queries' = (queries \ {q}) \cup asked,
               found' = [found EXCEPT ![q.call[2]] = had],
               check_results(q.call, asked, had)
        PROVE  AdmissionInv'
    <2>1. asked \subseteq Query /\ \A p \in asked : p.call = q.call /\ p.kind = "exchange"
      BY <1>2, <1>8, MailCall, BoundsTyped DEF Query
    <2>2. /\ \A p \in queries' : p \in queries \/ (p \in Query /\ p.call = <<"mail", m>>)
          /\ \A p \in queries : p.call # <<"mail", m>> => p \in queries'
          /\ Asked(m)' = (Asked(m) \ {q}) \cup asked
      <3>2. asked \subseteq Query /\ \A p \in asked : p.call = q.call
        BY <2>1
      <3>3. q.call = <<"mail", m>> /\ queries' = (queries \ {q}) \cup asked
        BY <1>2, <1>8
      <3>. QED  BY <3>2, <3>3 DEF Asked
    <2>3. Asked(m)' = asked
      BY <1>3, <2>1, <2>2, <1>1
    <2>4. /\ found' \in [1..MaxMails -> {"none", "nothing", "address", "bogus", "error"}]
          /\ \A k \in 1..MaxMails : k # m => found'[k] = found[k]
          /\ found'[m] = had
      BY <1>2, <1>4, <1>8 DEF TypeOK, m
    <2>5. CASE asked # {}
      <3>1. UNCHANGED <<hook, transaction>>
        BY <1>8, <2>5 DEF check_results
      <3>2. Mailed(m)'
        BY <1>2, <2>1, <2>3, <3>1 DEF Mailed, Mail
      <3>. QED  BY <1>1, <1>2, <1>4, <2>2, <2>4, <3>1, <3>2, MailStep DEF TypeOK
    <2>6. CASE asked = {}
      <3>1. mxDone(<<"mail", m>>, IF had = "address" THEN "CONT" ELSE NoMx)
        BY <1>2, <1>8, <2>6 DEF check_results
      <3>2. (IF had = "address" THEN "CONT" ELSE NoMx) \in Outcome
        BY DEF NoMx, Outcome
      <3>3. /\ hook' \in [Calls -> {"no", "waiting", "CONT", "DENY", "DENYSOFT"}]
            /\ \A c \in Calls : c # <<"mail", m>> => hook'[c] = hook[c]
            /\ Mail(m)' = IF Mail(m) = "waiting" THEN (IF had = "address" THEN "CONT" ELSE NoMx) ELSE Mail(m)
            /\ transaction' \in 0..MaxMails
        BY <1>2, <3>1, <3>2, MxDone
      <3>4. Mailed(m)'
        BY <1>2, <2>3, <2>4, <2>6, <3>3 DEF Mailed, NoMx
      <3>. QED  BY <1>1, <1>2, <2>2, <2>4, <3>3, <3>4, MailStep
    <2>. QED  BY <2>5, <2>6
  <1>9. ASSUME NEW names \in 0..MaxExchanges, NEW literals \in BOOLEAN,
          LET asked == {[call |-> q.call, kind |-> "exchange", of |-> n] : n \in 1..names}
              had   == IF literals /\ cfg.allow_mx_ip THEN "address" ELSE "nothing"
          IN /\ names > 0 \/ literals
             /\ queries' = (queries \ {q}) \cup asked
             /\ found' = [found EXCEPT ![q.call[2]] = had]
             /\ check_results(q.call, asked, had)
        PROVE AdmissionInv'
    <2>. DEFINE had == IF literals /\ cfg.allow_mx_ip THEN "address" ELSE "nothing"
                asked == {[call |-> q.call, kind |-> "exchange", of |-> n] : n \in 1..names}
    <2>1. had \in {"address", "nothing"}
      OBVIOUS
    <2>2. /\ queries' = (queries \ {q}) \cup asked /\ found' = [found EXCEPT ![q.call[2]] = had]
          /\ check_results(q.call, asked, had)
      BY <1>9
    <2>. HIDE DEF had
    <2>. QED  BY <1>8, <2>1, <2>2
  <1>. QED  BY <1>5, <1>6, <1>7, <1>9 DEF MxAnswer

(* The addresses of an exchange: the last one decides, if the mail's hook   *)
(* has not been answered by a timer.                                        *)
LEMMA ExchangeAnswerStep ==
  ASSUME AdmissionInv, NEW q \in queries, ExchangeAnswer(q)
  PROVE  AdmissionInv'
  <1>. DEFINE m == q.call[2]
  <1>1. q.kind = "exchange" /\ queries' = queries \ {q} /\ UNCHANGED <<cfg, client>>
    BY DEF ExchangeAnswer, Done
  <1>2. /\ m \in 1..MaxMails /\ q.call = <<"mail", m>> /\ q \in Asked(m) /\ q \in Query
        /\ Mail(m) \in {"waiting", "DENYSOFT"}
    BY <1>1, Pending
  <1>3. PICK of \in {"address", "bogus", "error"} :
          /\ found' = [found EXCEPT ![m] = Found(found[m], of)]
          /\ check_results(q.call, {p \in queries \ {q} : p.call = q.call}, Found(found[m], of))
    BY DEF ExchangeAnswer
  <1>. HIDE DEF m
  <1>. DEFINE records == Found(found[m], of)
              pending == {p \in queries \ {q} : p.call = q.call}
              answer  == IF records = "address" THEN "CONT" ELSE NoMx
  <1>4. TypeOK
    BY DEF AdmissionInv
  <1>5. Asked(m)' = pending /\ pending = Asked(m) \ {q}
    BY <1>1, <1>2 DEF Asked
  <1>6. /\ \A p \in queries' : p \in queries
        /\ \A p \in queries : p.call # <<"mail", m>> => p \in queries'
    BY <1>1, <1>2
  <1>7. records \in {"none", "nothing", "address", "bogus", "error"}
    BY <1>2, <1>4 DEF Found, TypeOK
  <1>8. /\ found' \in [1..MaxMails -> {"none", "nothing", "address", "bogus", "error"}]
        /\ \A k \in 1..MaxMails : k # m => found'[k] = found[k]
        /\ found'[m] = records
    BY <1>2, <1>3, <1>4, <1>7 DEF TypeOK
  <1>9. check_results(q.call, pending, records)
    BY <1>3
  <1>. HIDE DEF records, pending
  <1>10. CASE pending # {}
    <2>1. UNCHANGED <<hook, transaction>>
      BY <1>9, <1>10 DEF check_results
    <2>2. Mailed(m)'
      BY <1>2, <1>5, <2>1 DEF Mailed, Mail, AdmissionInv, MailInv
    <2>. QED  BY <1>1, <1>2, <1>4, <1>6, <1>8, <2>1, <2>2, MailStep DEF TypeOK
  <1>11. CASE pending = {}
    <2>1. mxDone(<<"mail", m>>, answer)
      BY <1>2, <1>9, <1>11 DEF check_results
    <2>2. answer \in Outcome /\ (answer = "CONT" <=> records = "address")
      BY DEF NoMx, Outcome
    <2>. HIDE DEF answer
    <2>3. /\ hook' \in [Calls -> {"no", "waiting", "CONT", "DENY", "DENYSOFT"}]
          /\ \A c \in Calls : c # <<"mail", m>> => hook'[c] = hook[c]
          /\ Mail(m)' = IF Mail(m) = "waiting" THEN answer ELSE Mail(m)
          /\ transaction' \in 0..MaxMails
      BY <1>2, <2>1, <2>2, MxDone
    <2>4. Mailed(m)'
      BY <1>2, <1>5, <1>8, <1>11, <2>2, <2>3 DEF Mailed, Outcome
    <2>. QED  BY <1>1, <1>2, <1>6, <1>8, <2>3, <2>4, MailStep
  <1>. QED  BY <1>10, <1>11

(* The addresses of the domain itself, asked for when it has no MX record.  *)
LEMMA ImplicitAnswerStep ==
  ASSUME AdmissionInv, NEW q \in queries, ImplicitAnswer(q)
  PROVE  AdmissionInv'
  <1>. DEFINE m == q.call[2]
  <1>1. q.kind = "implicit" /\ queries' = queries \ {q} /\ UNCHANGED <<cfg, client>>
    BY DEF ImplicitAnswer, Done
  <1>2. /\ m \in 1..MaxMails /\ q.call = <<"mail", m>> /\ q \in Asked(m) /\ q \in Query
        /\ Mail(m) \in {"waiting", "DENYSOFT"}
    BY <1>1, Pending
  <1>3. PICK of \in {"address", "bogus", "nothing"} :
          /\ found' = [found EXCEPT ![m] = of]
          /\ mxDone(q.call, IF of = "nothing" THEN NoMx ELSE "CONT")
    BY DEF ImplicitAnswer
  <1>. HIDE DEF m
  <1>. DEFINE answer == IF of = "nothing" THEN NoMx ELSE "CONT"
  <1>4. TypeOK
    BY DEF AdmissionInv
  <1>5. Asked(m)' = {}
    <2>1. Asked(m) = {q}
      BY <1>1, <1>2 DEF AdmissionInv, MailInv, Mailed
    <2>. QED  BY <1>1, <2>1 DEF Asked
  <1>6. /\ \A p \in queries' : p \in queries
        /\ \A p \in queries : p.call # <<"mail", m>> => p \in queries'
    BY <1>1, <1>2
  <1>7. /\ found' \in [1..MaxMails -> {"none", "nothing", "address", "bogus", "error"}]
        /\ \A k \in 1..MaxMails : k # m => found'[k] = found[k]
        /\ found'[m] = of
    BY <1>2, <1>3, <1>4 DEF TypeOK
  <1>8. /\ mxDone(<<"mail", m>>, answer) /\ answer \in Outcome
        /\ (answer = "CONT" => of # "nothing") /\ (answer = "DENY" => of = "nothing")
    BY <1>2, <1>3 DEF NoMx, Outcome
  <1>. HIDE DEF answer
  <1>9. /\ hook' \in [Calls -> {"no", "waiting", "CONT", "DENY", "DENYSOFT"}]
        /\ \A c \in Calls : c # <<"mail", m>> => hook'[c] = hook[c]
        /\ Mail(m)' = IF Mail(m) = "waiting" THEN answer ELSE Mail(m)
        /\ transaction' \in 0..MaxMails
    BY <1>2, <1>8, MxDone
  <1>10. Mailed(m)'
    BY <1>2, <1>5, <1>7, <1>8, <1>9 DEF Mailed, Outcome
  <1>. QED  BY <1>1, <1>2, <1>6, <1>7, <1>9, <1>10, MailStep

(* A hook that waits is answered by a timer; its lookups go on.             *)
LEMMA TimeoutStep ==
  ASSUME AdmissionInv, NEW call \in MailCalls, Timeout(call)
  PROVE  AdmissionInv'
  <1>1. TypeOK /\ MailInv
    BY DEF AdmissionInv
  <1>2. /\ hook[call] = "waiting" /\ mxDone(call, "DENYSOFT")
        /\ UNCHANGED <<cfg, queries, client, found>>
    BY DEF Timeout
  <1>. DEFINE m == call[2]
  <1>3. m \in 1..MaxMails /\ call = <<"mail", m>>
    BY MailOf
  <1>. HIDE DEF m
  <1>4. /\ hook' \in [Calls -> {"no", "waiting", "CONT", "DENY", "DENYSOFT"}]
        /\ \A c \in Calls : c # <<"mail", m>> => hook'[c] = hook[c]
        /\ Mail(m)' = "DENYSOFT" /\ transaction' \in 0..MaxMails
    BY <1>2, <1>3, MxDone DEF Outcome, Mail
  <1>5. Mailed(m)'
    BY <1>1, <1>2, <1>3, <1>4 DEF MailInv, Mailed, Asked
  <1>. QED  BY <1>1, <1>2, <1>3, <1>4, <1>5, MailStep DEF TypeOK

-----------------------------------------------------------------------------
LEMMA AdmissionInit == Init => AdmissionInv
  <1>. SUFFICES ASSUME Init PROVE AdmissionInv
    OBVIOUS
  <1>1. /\ \A i \in 1..MaxHelos : Helo(i) = "no" /\ ~helos[i].mismatch
        /\ \A m \in 1..MaxMails : Mail(m) = "no"
    BY HeloCall, MailCall DEF Init, Helo, Mail
  <1>2. TypeOK
    <2>1. [verb |-> "HELO", mismatch |-> FALSE] \in [verb : {"HELO", "EHLO"}, mismatch : BOOLEAN]
      OBVIOUS
    <2>2. helos \in [1..MaxHelos -> [verb : {"HELO", "EHLO"}, mismatch : BOOLEAN]]
      BY <2>1 DEF Init
    <2>3. transaction \in 0..MaxMails
      BY BoundsTyped DEF Init
    <2>. QED  BY <2>2, <2>3 DEF Init, TypeOK
  <1>3. MailInv
    BY <1>1 DEF Init, MailInv, Mailed, Asked
  <1>4. HeloInv
    BY <1>1 DEF Init, HeloInv, Sequence, Ehlos, Started, Mismatches
  <1>. QED  BY <1>2, <1>3, <1>4 DEF AdmissionInv

(* What the two filters keep of a connection goes with its hooks, whatever  *)
(* the order in which commands, answers and timers come.                    *)
THEOREM AdmissionInvariant == Spec => []AdmissionInv
  <1>1. AdmissionInv /\ [Next]_vars => AdmissionInv'
    <2>. SUFFICES ASSUME AdmissionInv, [Next]_vars PROVE AdmissionInv'
      OBVIOUS
    <2>1. CASE Answering
      BY <2>1, MxAnswerStep, ExchangeAnswerStep, ImplicitAnswerStep, HeloAnsweredStep DEF Answering
    <2>2. CASE Commands
      BY <2>2, HeloHookStep, MailHookStep DEF Commands
    <2>3. CASE UNCHANGED vars
      <3>1. UNCHANGED <<cfg, hook, queries, client, transaction, found>>
        BY <2>3 DEF vars
      <3>2. TypeOK'
        BY <3>1 DEF AdmissionInv, TypeOK, client
      <3>3. MailInv'
        BY <3>1, MailsKept DEF AdmissionInv, Mail, Asked
      <3>4. HeloInv'
        BY <3>1, HelosKept DEF AdmissionInv, Helo
      <3>. QED  BY <3>2, <3>3, <3>4 DEF AdmissionInv
    <2>. QED  BY <2>1, <2>2, <2>3, TimeoutStep DEF Next
  <1>. QED  BY <1>1, AdmissionInit, PTL DEF Spec

(* mail_from.is_resolvable lets a sender pass on an address only, and       *)
(* refuses him for good only when nothing it asked is still out.            *)
THEOREM SendersResolve == Spec => []SenderResolves
  <1>1. AdmissionInv => SenderResolves
    BY DEF AdmissionInv, MailInv, Mailed, SenderResolves, Mail, Asked
  <1>. QED  BY <1>1, AdmissionInvariant, PTL

(* proto_mismatch finds a client out only by another verb or by a HELO that *)
(* was refused.                                                             *)
THEOREM MismatchesReal == Spec => []MismatchIsReal
  <1>1. AdmissionInv => MismatchIsReal
    BY DEF AdmissionInv, HeloInv, Mismatches, MismatchIsReal, Helo
  <1>. QED  BY <1>1, AdmissionInvariant, PTL

-----------------------------------------------------------------------------
(* DnsLists.                                                                *)

(* What a client's hook says goes with the lookups that are left for it and *)
(* the listings it had. With search = "first" the first listing ends the    *)
(* wait; with "all" the last answer does, so that listings may be kept while*)
(* the hook waits, and are decided on when no lookup is left.               *)
Heard(c) ==
  /\ connect_hook[c] = "no" => lookups[c] = {} /\ hits[c] = {}
  /\ connect_hook[c] = "DENY" => reject /\ hits[c] # {}
  /\ connect_hook[c] = "CONT" /\ reject => hits[c] = {} /\ lookups[c] = {}
  /\ connect_hook[c] = "waiting" /\ search = "first" => hits[c] = {}

ListsInv == ListsTypeOK /\ \A c \in Clients : Heard(c)

-----------------------------------------------------------------------------
(* A step that leaves the clients and the settings alone: the tests, the    *)
(* lists changing, the settings' file.                                      *)
LEMMA ListsOnly ==
  ASSUME ListsInv, UNCHANGED <<settings, inquiry>>, ListsTypeOK'
  PROVE  ListsInv'
  BY DEF ListsInv, Heard, settings, inquiry

(* disable_zone moves lists that are known between the two tables.          *)
LEMMA DisableTyped ==
  ASSUME ListsTypeOK, NEW z \in Zones, disable_zone(z)
  PROVE  zones' \subseteq Zones /\ disabled_zones' \subseteq Zones
  BY DEF ListsTypeOK, disable_zone

LEMMA StartTestsTyped ==
  ASSUME NEW enabled \in SUBSET Zones, NEW disabled \in SUBSET Zones
  PROVE  StartTests(enabled, disabled) \subseteq Test
  BY DEF StartTests, Test

(* The tests at the interval and their answers.                             *)
LEMMA TestsStep ==
  ASSUME ListsInv, \/ check_zones \/ load_config
                   \/ \E t \in Test : Loopback(t) \/ Point(t)
                   \/ \E z \in Zones : Change(z)
  PROVE  ListsInv'
  <1>0. ListsTypeOK
    BY DEF ListsInv
  <1>1. CASE check_zones
    <2>1. tests' \subseteq Test
      BY <1>0, <1>1, StartTestsTyped DEF check_zones, ListsTypeOK
    <2>. QED  BY <1>0, <1>1, <2>1, ListsOnly DEF check_zones, ListsTypeOK, settings, inquiry
  <1>2. CASE load_config
    BY <1>0, <1>2, ListsOnly DEF load_config, ListsTypeOK, settings, inquiry
  <1>3. ASSUME NEW t \in Test, Loopback(t) PROVE ListsInv'
    <2>1. t.zone \in Zones /\ [t EXCEPT !.step = "point"] \in Test
      BY DEF Test
    <2>2. tests' \subseteq Test
      BY <1>0, <1>3, <2>1 DEF Loopback, ListsTypeOK
    <2>3. zones' \subseteq Zones /\ disabled_zones' \subseteq Zones
      BY <1>0, <1>3, <2>1, DisableTyped DEF Loopback, ListsTypeOK
    <2>. QED  BY <1>0, <1>3, <2>2, <2>3, ListsOnly DEF Loopback, ListsTypeOK, settings, inquiry
  <1>4. ASSUME NEW t \in Test, Point(t) PROVE ListsInv'
    <2>1. t.zone \in Zones
      BY DEF Test
    <2>2. zones' \subseteq Zones /\ disabled_zones' \subseteq Zones
      BY <1>0, <1>4, <2>1, DisableTyped DEF Point, ListsTypeOK
    <2>. QED  BY <1>0, <1>4, <2>2, ListsOnly DEF Point, ListsTypeOK, settings, inquiry
  <1>5. ASSUME NEW z \in Zones, Change(z) PROVE ListsInv'
    <2>1. health' \in [Zones -> Healths]
      BY <1>0, <1>5 DEF Change, ListsTypeOK
    <2>. QED  BY <1>0, <1>5, <2>1, ListsOnly DEF Change, ListsTypeOK, settings, inquiry, lists
  <1>. QED  BY <1>1, <1>2, <1>3, <1>4, <1>5

(* connect: the lists in use are asked, and if there are none the client    *)
(* goes on.                                                                 *)
LEMMA ConnectStep ==
  ASSUME ListsInv, NEW c \in Clients, connect(c)
  PROVE  ListsInv'
  <1>. USE DEF connect, settings, lists
  <1>1. ListsTypeOK'
    BY DEF ListsInv, ListsTypeOK
  <1>2. ASSUME NEW d \in Clients PROVE Heard(d)'
    <2>1. CASE d = c
      BY <2>1 DEF ListsInv, ListsTypeOK, Heard
    <2>2. CASE d # c
      BY <2>2 DEF ListsInv, ListsTypeOK, Heard
    <2>. QED  BY <2>1, <2>2
  <1>. QED  BY <1>1, <1>2 DEF ListsInv

(* A lookup is answered: it decides the hook if it is the last one or, with *)
(* search = "first", a listing.                                             *)
LEMMA LookupStep ==
  ASSUME ListsInv, NEW c \in Clients, NEW z \in Zones, lookup(c, z)
  PROVE  ListsInv'
  <1>1. PICK hit \in Listings(z) :
          /\ lookups' = [lookups EXCEPT ![c] = @ \ {z}]
          /\ hits' = [hits EXCEPT ![c] = IF hit THEN @ \cup {z} ELSE @]
          /\ IF Conclusive(c, z, hit) THEN Next1(c, Verdict(hits'[c])) ELSE UNCHANGED connect_hook
          /\ \/ UNCHANGED <<zones, disabled_zones>>
             \/ health[z] = "silent" /\ disable_zone(z)
          /\ UNCHANGED <<settings, health, tests>>
    BY DEF lookup
  <1>2. z \in lookups[c] /\ hit \in BOOLEAN
    BY <1>1 DEF lookup, Listings
  <1>3. ListsTypeOK
    BY DEF ListsInv
  <1>4. zones' \subseteq Zones /\ disabled_zones' \subseteq Zones
    BY <1>1, <1>3, DisableTyped DEF ListsTypeOK
  <1>5. connect_hook' \in [Clients -> {"no", "waiting", "CONT", "DENY", "DENYSOFT"}]
    BY <1>1, <1>3 DEF ListsTypeOK, Next1, Verdict
  <1>6. lookups' \in [Clients -> SUBSET Zones] /\ hits' \in [Clients -> SUBSET Zones]
    BY <1>1, <1>3 DEF ListsTypeOK
  <1>7. ListsTypeOK'
    BY <1>1, <1>3, <1>4, <1>5, <1>6 DEF ListsTypeOK, settings
  <1>8. ASSUME NEW d \in Clients PROVE Heard(d)'
    <2>1. CASE d = c
      <3>1. lookups'[c] = lookups[c] \ {z} /\ hits'[c] = (IF hit THEN hits[c] \cup {z} ELSE hits[c])
        BY <1>1, <1>3 DEF ListsTypeOK
      <3>2. connect_hook'[c] = IF Conclusive(c, z, hit) /\ connect_hook[c] = "waiting" THEN Verdict(hits'[c]) ELSE connect_hook[c]
        BY <1>1, <1>3 DEF ListsTypeOK, Next1
      <3>3. Heard(c) /\ search' = search /\ reject' = reject
        BY <1>1 DEF ListsInv, settings
      <3>. QED  BY <1>2, <2>1, <3>1, <3>2, <3>3 DEF Heard, Conclusive, Verdict
    <2>2. CASE d # c
      <3>1. connect_hook'[d] = connect_hook[d] /\ lookups'[d] = lookups[d] /\ hits'[d] = hits[d]
        BY <1>1, <1>3, <2>2 DEF ListsTypeOK, Next1
      <3>. QED  BY <1>1, <3>1 DEF ListsInv, Heard, settings
    <2>. QED  BY <2>1, <2>2
  <1>. QED  BY <1>7, <1>8 DEF ListsInv

(* plugins.js answers for a hook that waits.                                *)
LEMMA HookTimeoutStep ==
  ASSUME ListsInv, NEW c \in Clients, HookTimeout(c)
  PROVE  ListsInv'
  BY DEF ListsInv, ListsTypeOK, Heard, HookTimeout, Next1, settings, lists

(* The clients and the lists stay typed, and what a hook says goes with what*)
(* its client's lookups found, whatever the order of answers.               *)
THEOREM ListsInvariant == ListsSpec => []ListsInv
  <1>1. ListsInit => ListsInv
    <2>. SUFFICES ASSUME ListsInit PROVE ListsInv
      OBVIOUS
    <2>1. tests \subseteq Test
      BY StartTestsTyped DEF ListsInit
    <2>. QED  BY <2>1 DEF ListsInit, ListsInv, ListsTypeOK, Heard
  <1>2. ListsInv /\ [ListsNext]_lists_vars => ListsInv'
    <2>. SUFFICES ASSUME ListsInv, [ListsNext]_lists_vars PROVE ListsInv'
      OBVIOUS
    <2>1. CASE UNCHANGED lists_vars
      BY <2>1 DEF lists_vars, settings, lists, inquiry, ListsInv, ListsTypeOK, Heard
    <2>. QED  BY <2>1, TestsStep, ConnectStep, LookupStep, HookTimeoutStep DEF ListsNext
  <1>. QED  BY <1>1, <1>2, PTL DEF ListsSpec

(* Nobody is refused without a listing, and nobody is let in, where listings*)
(* refuse, before every list that was asked has answered without one:       *)
(* connect_first, connect_multi and the lookups of dns_list_base.js.        *)
THEOREM ListsAlwaysFollowed == ListsSpec => []ListsFollowed
  <1>1. ListsInv => ListsFollowed
    BY DEF ListsInv, Heard, ListsFollowed
  <1>. QED  BY <1>1, ListsInvariant, PTL
=============================================================================
