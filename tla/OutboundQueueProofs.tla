-------------------------- MODULE OutboundQueueProofs --------------------------
(* Proofs about OutboundQueue, for any number of recipients, files, retries,  *)
(* slots and mishaps: nobody accepted is lost, the queue implements           *)
(* MailPromise, and each task of the delivery queue calls back once.          *)
EXTENDS OutboundQueue, FiniteSetTheorems, TLAPS

(* What a step changes of the histories is visible everywhere below.          *)
USE DEF history

(* The mail is in the hands of the queue, a timer, an attempt or a rename.    *)
InHand == Places \ {"none", "ending"}

(* Whom a mail may still be sent to, or split off for, and who may still be   *)
(* served or given up by it.                                                  *)
Open(m) == m.toDefer \cup m.toBounce \cup (IF m.at \in InHand THEN m.rcpts ELSE {})
Owed(m) == Open(m) \cup (IF m.bounces > 0 THEN m.rcpts ELSE {})

(* A mail in hand has its file and one reference, and nothing is under way    *)
(* that would discard it.                                                     *)
WellKept(m) ==
  /\ m.toDefer \subseteq m.rcpts /\ m.toBounce \subseteq m.rcpts
  /\ m.toDefer \cap m.toBounce = {}
  /\ m.at \in InHand =>
       /\ m.disk = "file" /\ m.refcount = 1 /\ ~m.hooked /\ m.bounces = 0
       /\ m.toDefer = {} /\ m.toBounce = {} /\ m.failures <= MaxFailures

MailsKept == \A f \in Mail : WellKept(mail[f])

(* The new mails that were split off and will discard the old one when ready. *)
Split(g, f, cause) == mail[g].at = "split" /\ mail[g].origin = f /\ mail[g].cause = cause

SplitsInv ==
  /\ \A g \in Mail : mail[g].at = "split" =>
       /\ mail[g].origin \in Mail /\ mail[g].origin <= used
       /\ mail[g].cause \in {"deferred", "refused"}
       /\ mail[mail[g].origin].at \notin InHand
       /\ mail[g].cause = "deferred" => mail[mail[g].origin].toDefer = {}
       /\ mail[g].cause = "refused" => mail[mail[g].origin].toBounce = {}
  /\ \A g, h, f \in Mail, cause \in {"deferred", "refused"} :
       Split(g, f, cause) /\ Split(h, f, cause) => g = h

(* The references to a mail cover the calls that will discard it: the hook,   *)
(* a split for each of the two causes, and the bounce.                        *)
One(b) == IF b THEN 1 ELSE 0
Deferring(f) == mail[f].toDefer # {} \/ \E g \in Mail : Split(g, f, "deferred")
Refusing(f)  == mail[f].toBounce # {} \/ \E g \in Mail : Split(g, f, "refused")

Referenced ==
  \A f \in Mail : ~mail[f].told /\ ~mail[f].dropped =>
    mail[f].refcount >= One(mail[f].hooked) + One(Deferring(f)) + One(Refusing(f))
                          + One(mail[f].bounces > 0)

(* Until send_trans_email has answered there are its own files and no others. *)
Underway == reply = "ok" \/ crashed

Unwritten == \A f \in Mail : f > used => mail[f] = Blank

Writing ==
  /\ reply = "none" =>
       /\ used < Len(deliveries)
       /\ \A f \in Mail : f <= used => mail[f] = NewMail(deliveries[f], "held")
       /\ \A r \in Rcpt : delivered[r] = 0
  /\ ~Underway => \A f \in Mail :
       /\ mail[f].at \in {"none", "held"} /\ ~mail[f].hooked /\ mail[f].bounces = 0
       /\ mail[f].toDefer = {} /\ mail[f].toBounce = {}
  /\ reply = "none" => ~crashed
  /\ reply = "lost" => crashed

(* No server took the mail for r, or one did and it was not noticed.          *)
Fresh(r) == delivered[r] = 0 \/ r \in unnoticed

(* Without a crash one mail only is open for a recipient, who has not got it  *)
(* or only unnoticed; and without an error while splitting nobody is owed     *)
(* what was given up.                                                         *)
Exclusive ==
  ~crashed =>
    /\ \A f, g \in Mail : f # g => Open(mail[f]) \cap Open(mail[g]) = {}
    /\ \A f \in Mail : \A r \in Open(mail[f]) : Fresh(r)

Undecided ==
  ~crashed /\ ~splitFailed =>
    /\ \A f, g \in Mail : f # g => Owed(mail[f]) \cap Owed(mail[g]) = {}
    /\ \A f \in Mail : \A r \in Owed(mail[f]) : Fresh(r) /\ r \notin GivenUp
    /\ \A f \in Mail : mail[f].bounces > 0 =>
         mail[f].bounces = 1 /\ mail[f].toDefer = {} /\ mail[f].toBounce = {}

(* Whoever has no fate yet and was not let go unserved is owed the mail by a  *)
(* file that is there.                                                        *)
Over(r) == Resolved(r) \/ r \in unserved

Covered ==
  reply = "ok" => \A n \in DOMAIN deliveries : \A r \in deliveries[n] :
    Over(r) \/ \E f \in Mail : mail[f].disk = "file" /\ r \in Owed(mail[f])

QueueInv == /\ TypeOK /\ MailsKept /\ SplitsInv /\ Referenced /\ Unwritten /\ Writing
            /\ Exclusive /\ Undecided /\ Covered
-----------------------------------------------------------------------------
(* What the methods of HMailItem change of a mail.                            *)

Decided(m) == m.told \/ m.dropped

(* The fields that neither the end of a mail nor a bounce touches.            *)
Alike(m, n) ==
  /\ n.rcpts = m.rcpts /\ n.toDefer = m.toDefer /\ n.toBounce = m.toBounce
  /\ n.hooked = m.hooked /\ n.told = m.told

(* The number fields, stated apart from the other fields.                    *)
LEMMA Numbers ==
  ASSUME NEW m \in MailType
  PROVE  /\ m.refcount \in Int /\ m.bounces \in Nat /\ MaxFailures \in Nat
         /\ m.failures \in 0..(MaxFailures + 1)
  BY NumbersTyped DEF MailType

(* A mail stays a mail when one field is set.                                *)
LEMMA Counted ==
  ASSUME NEW m \in MailType
  PROVE  /\ \A i \in Int : [m EXCEPT !.refcount = i] \in MailType
         /\ \A i \in Nat, p \in Places : [m EXCEPT !.bounces = i, !.at = p] \in MailType
         /\ \A i \in 0..(MaxFailures + 1) : [m EXCEPT !.failures = i] \in MailType
         /\ \A p \in Places : [m EXCEPT !.at = p] \in MailType
         /\ [m EXCEPT !.disk = "unlinking"] \in MailType
         /\ [m EXCEPT !.dropped = TRUE] \in MailType
  BY DEF MailType

(* What the end of a mail, a discard, a bounce and a deferral make of it.    *)
LEMMA GoneEffect ==
  ASSUME NEW m \in MailType
  PROVE  /\ Gone(m) \in MailType /\ Alike(m, Gone(m))
         /\ Gone(m).at = "none" /\ Gone(m).refcount = m.refcount
         /\ Gone(m).bounces = m.bounces /\ Gone(m).dropped = m.dropped
  <1>. DEFINE n == [m EXCEPT !.disk = "unlinking", !.at = "none", !.failures = 0]
  <1>1. 0 \in 0..(MaxFailures + 1) /\ "none" \in Places
    BY NumbersTyped DEF Places
  <1>2. n \in MailType
    <2>1. [m EXCEPT !.disk = "unlinking"] \in MailType
      BY Counted
    <2>2. [m EXCEPT !.disk = "unlinking", !.at = "none"] \in MailType
      BY <1>1, <2>1, Counted
    <2>. QED  BY <1>1, <2>2, Counted
  <1>3. /\ Alike(m, n) /\ n.at = "none" /\ n.refcount = m.refcount
        /\ n.bounces = m.bounces /\ n.dropped = m.dropped
    BY DEF MailType, Alike
  <1>4. Gone(m) = NextCb(n)
    BY DEF Gone
  <1>. HIDE DEF n
  <1>5. NextCb(n) \in MailType
    BY <1>2 DEF NextCb, MailType
  <1>6. /\ Alike(n, NextCb(n)) /\ NextCb(n).at = n.at /\ NextCb(n).refcount = n.refcount
        /\ NextCb(n).bounces = n.bounces /\ NextCb(n).dropped = n.dropped
    BY <1>2 DEF NextCb, MailType, Alike
  <1>. QED  BY <1>3, <1>4, <1>5, <1>6 DEF Alike

LEMMA DiscardEffect ==
  ASSUME NEW m \in MailType
  PROVE  /\ Discard(m) \in MailType /\ Alike(m, Discard(m))
         /\ Discard(m).refcount = m.refcount - 1
         /\ Discard(m).bounces = m.bounces /\ Discard(m).dropped = m.dropped
         /\ m.refcount = 1 => Discard(m).at = "none"
         /\ m.refcount # 1 => /\ Discard(m).at = m.at /\ Discard(m).disk = m.disk
                              /\ Discard(m).failures = m.failures
         /\ Discard(m).at \in {m.at, "none"}
  <1>. DEFINE n == [m EXCEPT !.refcount = @ - 1]
  <1>1. n \in MailType
    <2>1. m.refcount - 1 \in Int
      BY Numbers
    <2>. QED  BY <2>1, Counted
  <1>2. /\ Alike(m, n) /\ n.refcount = m.refcount - 1
        /\ n.at = m.at /\ n.disk = m.disk /\ n.failures = m.failures
        /\ n.bounces = m.bounces /\ n.dropped = m.dropped
    BY DEF MailType, Alike
  <1>3. Discard(m) = IF n.refcount = 0 THEN Gone(n) ELSE n
    BY DEF Discard, Unreferenced
  <1>4. m.refcount \in Int
    BY Numbers
  <1>. HIDE DEF n
  <1>5. CASE n.refcount = 0
    BY <1>1, <1>2, <1>3, <1>4, <1>5, GoneEffect DEF Alike
  <1>6. CASE n.refcount # 0
    BY <1>1, <1>2, <1>3, <1>4, <1>6
  <1>. QED  BY <1>5, <1>6

(* A bounce drops the mail, or owes the sender a message.                     *)
BounceDropped(m, n) ==
  n.dropped /\ n.bounces = m.bounces /\ n.at \in {m.at, "none"} /\ (m.refcount = 1 => n.at = "none")

BounceOwed(m, n) ==
  /\ n.dropped = m.dropped /\ n.bounces = m.bounces + 1 /\ n.refcount = m.refcount
  /\ n.disk = m.disk /\ n.at = IF m.at = "none" THEN "none" ELSE "ending"

LEMMA BouncedEffect ==
  ASSUME NEW m \in MailType, NEW n \in Bounced(m)
  PROVE  n \in MailType /\ Alike(m, n) /\ (BounceDropped(m, n) \/ BounceOwed(m, n))
  <1>. DEFINE d == [m EXCEPT !.dropped = TRUE]
              b == [m EXCEPT !.bounces = @ + 1, !.at = IF @ = "none" THEN @ ELSE "ending"]
  <1>1. n = Discard(d) \/ n = Gone(d) \/ n = b
    BY DEF Bounced, DoubleBounce
  <1>2. d \in MailType /\ m.bounces + 1 \in Nat /\ (IF m.at = "none" THEN m.at ELSE "ending") \in Places
    <2>1. d \in MailType
      BY Counted
    <2>2. m.at \in Places
      BY DEF MailType
    <2>. QED  BY <2>1, <2>2, Numbers DEF Places
  <1>3. b \in MailType
    BY <1>2, Counted
  <1>4. /\ Alike(m, d) /\ d.dropped /\ d.bounces = m.bounces /\ d.at = m.at
        /\ d.refcount = m.refcount
    BY DEF MailType, Alike
  <1>5. Alike(m, b) /\ BounceOwed(m, b)
    BY DEF MailType, Alike, BounceOwed
  <1>. HIDE DEF d, b
  <1>6. CASE n = Discard(d)
    BY <1>2, <1>4, <1>6, DiscardEffect DEF Alike, BounceDropped
  <1>7. CASE n = Gone(d)
    BY <1>2, <1>4, <1>7, GoneEffect DEF Alike, BounceDropped
  <1>. QED  BY <1>1, <1>3, <1>5, <1>6, <1>7

(* Or the mail is renamed to wait.                                            *)
Waits(m, n) ==
  /\ n.dropped = m.dropped /\ n.bounces = m.bounces /\ n.refcount = m.refcount
  /\ n.disk = m.disk /\ n.at = "renaming" /\ n.failures <= MaxFailures

LEMMA TempFailedEffect ==
  ASSUME NEW m \in MailType, m.failures <= MaxFailures, NEW n \in TempFailed(m)
  PROVE  /\ n \in MailType /\ Alike(m, n)
         /\ BounceDropped(m, n) \/ BounceOwed(m, n) \/ Waits(m, n)
  <1>. DEFINE k == [m EXCEPT !.failures = @ + 1]
              d == [k EXCEPT !.dropped = TRUE]
              w == [k EXCEPT !.at = "renaming"]
  <1>1. m.failures + 1 \in 0..(MaxFailures + 1) /\ "renaming" \in Places
    BY Numbers DEF Places
  <1>2. k \in MailType
    BY <1>1, Counted
  <1>3. /\ Alike(m, k) /\ k.at = m.at /\ k.refcount = m.refcount
        /\ k.dropped = m.dropped /\ k.bounces = m.bounces /\ k.disk = m.disk
        /\ k.failures = m.failures + 1
    BY DEF MailType, Alike
  <1>4. n \in Bounced(k) \/ n = Discard(d) \/ (n = w /\ ~(k.failures > MaxFailures))
    BY DEF TempFailed, TooMany
  <1>. HIDE DEF k
  <1>5. d \in MailType /\ w \in MailType
    BY <1>1, <1>2, Counted
  <1>6. /\ Alike(k, d) /\ d.at = k.at /\ d.refcount = k.refcount
        /\ d.dropped /\ d.bounces = k.bounces
    BY <1>2 DEF MailType, Alike
  <1>7. /\ Alike(k, w) /\ w.at = "renaming" /\ w.refcount = k.refcount /\ w.failures = k.failures
        /\ w.dropped = k.dropped /\ w.bounces = k.bounces /\ w.disk = k.disk
    BY <1>2 DEF MailType, Alike
  <1>. HIDE DEF d, w
  <1>8. CASE n \in Bounced(k)
    BY <1>2, <1>3, <1>8, BouncedEffect DEF Alike, BounceDropped, BounceOwed
  <1>9. CASE n = Discard(d)
    BY <1>3, <1>5, <1>6, <1>9, DiscardEffect DEF Alike, BounceDropped
  <1>10. CASE n = w /\ ~(k.failures > MaxFailures)
    BY <1>1, <1>3, <1>5, <1>7, <1>10, Numbers DEF Alike, Waits
  <1>. QED  BY <1>4, <1>8, <1>9, <1>10
-----------------------------------------------------------------------------
(* What a step may make of one mail: it stays well kept, is owed to nobody    *)
(* new, and lets nobody go who was not served or given up, except lost, whom  *)
(* an attempt lets go unserved. ok are those served.                          *)
Fine(m, n, ok, lost) ==
  /\ n \in MailType /\ WellKept(n) /\ n.at # "split"
  /\ n.rcpts = m.rcpts /\ (m.told => n.told) /\ (m.dropped => n.dropped)
  /\ m.at \notin InHand =>
       n.at \notin InHand /\ n.toDefer \subseteq m.toDefer /\ n.toBounce \subseteq m.toBounce
  /\ ok \subseteq Open(m) /\ Open(n) \subseteq Open(m) \ ok
  /\ \A r \in Owed(m) : m.disk = "file" =>
       Decided(n) \/ r \in ok \/ r \in lost \/ (n.disk = "file" /\ r \in Owed(n))
  /\ ok # {} => Decided(n) = Decided(m)

(* What it may make of it when nothing went wrong.                            *)
Tidy(m, n, ok) ==
  /\ Owed(n) \subseteq Owed(m) \ ok
  /\ Decided(n) => Decided(m) \/ (Owed(n) = {} /\ m.rcpts \subseteq Owed(m))
  /\ n.bounces > 0 => n.bounces = 1 /\ n.toDefer = {} /\ n.toBounce = {}

Counts(f, n) ==
  ~n.told /\ ~n.dropped =>
    n.refcount >= One(n.hooked) + One(n.toDefer # {} \/ \E g \in Mail : Split(g, f, "deferred"))
                    + One(n.toBounce # {} \/ \E g \in Mail : Split(g, f, "refused"))
                    + One(n.bounces > 0)

(* One mail changes, and in an attempt some get it.                           *)
Local(f, n, ok, lost) ==
  /\ Underway /\ f <= used /\ mail[f].at # "split"
  /\ mail' = [mail EXCEPT ![f] = n]
  /\ delivered' = [r \in Rcpt |-> IF r \in ok THEN delivered[r] + 1 ELSE delivered[r]]
  /\ unserved' = unserved \cup lost /\ lost \subseteq Rcpt
  /\ UNCHANGED <<transaction, reply, used, crashed, unnoticed>> /\ bounceFailed' \in BOOLEAN
  /\ (splitFailed => splitFailed') /\ splitFailed' \in BOOLEAN /\ mishaps' \in 0..MaxMishaps
  /\ Fine(mail[f], n, ok, lost) /\ Counts(f, n)
  /\ ~crashed /\ ~splitFailed' => Tidy(mail[f], n, ok)

(* Such a step starts and ends no split, and the references still suffice.   *)
LEMMA LocalSplits ==
  ASSUME QueueInv, NEW f \in Mail, NEW n, NEW ok \in SUBSET Rcpt, NEW lost,
         Local(f, n, ok, lost)
  PROVE  SplitsInv' /\ Referenced'
  <1>. USE DEF QueueInv, TypeOK, Local
  <1>1. \A g \in Mail : mail'[g] = IF g = f THEN n ELSE mail[g]
    OBVIOUS
  <1>2. \A g, h \in Mail, cause \in {"deferred", "refused"} :
          Split(g, h, cause)' <=> Split(g, h, cause)
    BY <1>1 DEF Split, Fine
  <1>3. SplitsInv'
    BY <1>1, <1>2 DEF SplitsInv, Split, Fine
  <1>4. ASSUME NEW h \in Mail, ~mail'[h].told, ~mail'[h].dropped
        PROVE  mail'[h].refcount >= One(mail'[h].hooked) + One(Deferring(h)') + One(Refusing(h)')
                                      + One(mail'[h].bounces > 0)
    <2>1. CASE h = f
      BY <1>1, <1>2, <1>4, <2>1 DEF Counts, Deferring, Refusing
    <2>2. CASE h # f
      <3>1. mail'[h] = mail[h]
        BY <1>1, <2>2
      <3>2. (Deferring(h)' <=> Deferring(h)) /\ (Refusing(h)' <=> Refusing(h))
        BY <1>2, <3>1 DEF Deferring, Refusing
      <3>. QED  BY <1>4, <3>1, <3>2 DEF Referenced, One
    <2>. QED  BY <2>1, <2>2
  <1>. QED  BY <1>3, <1>4 DEF Referenced

(* Such a step keeps the whole invariant.                                    *)
LEMMA LocalStep ==
  ASSUME QueueInv, NEW f \in Mail, NEW n, NEW ok \in SUBSET Rcpt, NEW lost,
         Local(f, n, ok, lost)
  PROVE  QueueInv'
  <1>. USE DEF QueueInv, TypeOK, Local
  <1>1. \A g \in Mail : mail'[g] = IF g = f THEN n ELSE mail[g]
    OBVIOUS
  <1>2. TypeOK'
    <2>1. mail' \in [Mail -> MailType]
      BY DEF Fine
    <2>2. delivered' \in [Rcpt -> Nat]
      OBVIOUS
    <2>3. {nullSender', crashed', splitFailed', bounceFailed'} \subseteq BOOLEAN
          /\ {unnoticed', unserved'} \subseteq SUBSET Rcpt
      BY DEF transaction
    <2>. QED  BY <2>1, <2>2, <2>3 DEF transaction
  <1>3. SplitsInv' /\ Referenced'
    BY LocalSplits
  <1>4. MailsKept' /\ Unwritten' /\ Writing'
    <2>1. MailsKept'
      BY <1>1 DEF MailsKept, Fine
    <2>2. Unwritten'
      BY <1>1 DEF Unwritten, Mail
    <2>3. Writing'
      BY DEF Writing, Underway
    <2>. QED  BY <2>1, <2>2, <2>3
  <1>5. \A r \in Rcpt : delivered'[r] = IF r \in ok THEN delivered[r] + 1 ELSE delivered[r]
    OBVIOUS
  <1>6. Exclusive'
    <2>. SUFFICES ASSUME ~crashed PROVE Exclusive'
      BY DEF Exclusive
    <2>1. \A g \in Mail : Open(mail'[g]) \subseteq Open(mail[g]) /\ Open(mail[g]) \subseteq Rcpt
      BY <1>1 DEF Fine, MailType, Open
    <2>2. \A g \in Mail : \A r \in Open(mail'[g]) : r \notin ok
      BY <1>1 DEF Fine, Exclusive
    <2>. QED  BY <1>5, <2>1, <2>2 DEF Exclusive, Fresh
  <1>7. GivenUp' = GivenUp \cup (IF Decided(n) THEN mail[f].rcpts ELSE {})
    <2>1. GivenUp = {r \in Rcpt : \E g \in Mail : r \in mail[g].rcpts /\ Decided(mail[g])}
      BY DEF GivenUp, Decided
    <2>2. GivenUp' = {r \in Rcpt : \E g \in Mail : r \in mail'[g].rcpts /\ Decided(mail'[g])}
      BY DEF GivenUp, Decided
    <2>3. mail[f].rcpts \subseteq Rcpt
      BY DEF MailType
    <2>4. n.rcpts = mail[f].rcpts /\ (Decided(mail[f]) => Decided(n))
      BY DEF Fine, Decided
    <2>. QED  BY <1>1, <2>1, <2>2, <2>3, <2>4
  <1>8. Undecided'
    <2>. SUFFICES ASSUME ~crashed, ~splitFailed' PROVE Undecided'
      BY DEF Undecided
    <2>1. ~splitFailed /\ Tidy(mail[f], n, ok)
      OBVIOUS
    <2>2. \A g \in Mail : Owed(mail'[g]) \subseteq Owed(mail[g]) /\ Owed(mail[g]) \subseteq Rcpt
      <3>1. \A g \in Mail : Owed(mail[g]) \subseteq Rcpt
        BY DEF MailType, Open, Owed
      <3>. QED  BY <1>1, <2>1, <3>1 DEF Tidy
    <2>3. \A g, h \in Mail : g # h => Owed(mail[g]) \cap Owed(mail[h]) = {}
      BY <2>1 DEF Undecided
    <2>4. \A g \in Mail : \A r \in Owed(mail'[g]) : r \notin ok
      BY <1>1, <2>1, <2>3 DEF Fine, Tidy, Owed
    <2>5. \A g \in Mail : \A r \in Owed(mail'[g]) : r \notin GivenUp'
      <3>1. CASE Decided(n) => Decided(mail[f])
        <4>1. GivenUp' = GivenUp
          BY <1>7, <3>1 DEF GivenUp, Decided, MailType
        <4>. QED  BY <2>1, <2>2, <4>1 DEF Undecided
      <3>2. CASE Owed(n) = {} /\ mail[f].rcpts \subseteq Owed(mail[f])
        BY <1>1, <1>7, <2>1, <2>2, <2>3, <3>2 DEF Undecided
      <3>. QED  BY <2>1, <3>1, <3>2 DEF Tidy
    <2>6. \A g \in Mail : mail'[g].bounces > 0 =>
            mail'[g].bounces = 1 /\ mail'[g].toDefer = {} /\ mail'[g].toBounce = {}
      BY <1>1, <2>1 DEF Tidy, Undecided
    <2>. QED  BY <1>5, <2>1, <2>2, <2>3, <2>4, <2>5, <2>6 DEF Undecided, Fresh
  <1>9. Covered'
    <2>. SUFFICES ASSUME reply = "ok", NEW i \in DOMAIN deliveries, NEW r \in deliveries[i]
                  PROVE  Over(r)' \/ \E g \in Mail : mail'[g].disk = "file" /\ r \in Owed(mail'[g])
      BY DEF Covered, transaction
    <2>1. CASE Over(r)
      <3>1. r \in GivenUp => r \in GivenUp'
        BY <1>7
      <3>2. r \in Rcpt
        BY DeliveriesTyped
      <3>3. delivered[r] > 0 => delivered'[r] > 0
        BY <1>5, <3>2
      <3>. QED  BY <2>1, <3>1, <3>3 DEF Over, Resolved
    <2>2. ASSUME NEW g \in Mail, mail[g].disk = "file", r \in Owed(mail[g]), g # f
          PROVE  mail'[g].disk = "file" /\ r \in Owed(mail'[g])
      BY <1>1, <2>2
    <2>3. ASSUME mail[f].disk = "file", r \in Owed(mail[f])
          PROVE  Over(r)' \/ (n.disk = "file" /\ r \in Owed(n))
      <3>1. r \in mail[f].rcpts /\ r \in Rcpt
        BY <2>3 DEF Owed, Open, MailsKept, WellKept, MailType
      <3>2. Decided(n) \/ r \in ok \/ r \in lost \/ (n.disk = "file" /\ r \in Owed(n))
        BY <2>3 DEF Fine
      <3>3. Decided(n) => r \in GivenUp'
        BY <1>7, <3>1
      <3>4. r \in ok => delivered'[r] > 0
        BY <1>5, <3>1
      <3>. QED  BY <3>2, <3>3, <3>4 DEF Over, Resolved
    <2>. QED  BY <1>1, <2>1, <2>2, <2>3 DEF Covered
  <1>. QED  BY <1>2, <1>3, <1>4, <1>6, <1>8, <1>9

(* A mail in hand that is put off, bounced or dropped is one of these.        *)
LEMMA Handed ==
  ASSUME NEW m \in MailType, WellKept(m), m.at \in InHand,
         NEW n \in MailType, Alike(m, n),
         BounceDropped(m, n) \/ BounceOwed(m, n) \/ Waits(m, n)
  PROVE  /\ Fine(m, n, {}, {}) /\ Tidy(m, n, {})
         /\ ~n.told /\ ~n.dropped => n.refcount >= One(n.bounces > 0)
         /\ n.toDefer = {} /\ n.toBounce = {} /\ ~n.hooked
  <1>. USE DEF Alike, WellKept
  <1>1. CASE BounceDropped(m, n)
    BY <1>1 DEF BounceDropped, Fine, Tidy, Decided, Open, Owed, InHand, Places
  <1>2. CASE BounceOwed(m, n)
    <2>1. n.at = "ending" /\ n.bounces = 1 /\ n.refcount = 1 /\ n.disk = "file"
          /\ n.dropped = m.dropped
      BY <1>2, Numbers DEF BounceOwed, InHand, Places
    <2>. QED  BY <2>1 DEF Fine, Tidy, Decided, Open, Owed, InHand, Places, One
  <1>3. CASE Waits(m, n)
    <2>1. n.at = "renaming" /\ n.at \in InHand
      BY <1>3 DEF Waits, InHand, Places
    <2>. QED  BY <1>3, <2>1 DEF Waits, Fine, Tidy, Decided, Open, Owed, One
  <1>. QED  BY <1>1, <1>2, <1>3

(* Or it goes from one place to another.                                      *)
Moved(m, n) ==
  /\ n \in MailType /\ Alike(m, n) /\ n.at \in InHand \ {"split"}
  /\ n.disk = m.disk /\ n.refcount = m.refcount /\ n.bounces = m.bounces
  /\ n.dropped = m.dropped /\ n.failures = m.failures

(* Moving it is fine, and changes nothing that is owed.                      *)
LEMMA MovedFine ==
  ASSUME NEW m \in MailType, WellKept(m), m.at \in InHand, NEW n, Moved(m, n)
  PROVE  /\ Fine(m, n, {}, {}) /\ Tidy(m, n, {})
         /\ n.refcount >= One(n.bounces > 0)
         /\ n.toDefer = {} /\ n.toBounce = {} /\ ~n.hooked
  BY DEF Moved, Alike, WellKept, Fine, Tidy, Decided, Open, Owed, One

(* Giving the slot back touches the slot only.                               *)
LEMMA NextCbEffect ==
  ASSUME NEW m \in MailType
  PROVE  /\ NextCb(m) \in MailType /\ Alike(m, NextCb(m)) /\ NextCb(m).at = m.at
         /\ NextCb(m).disk = m.disk /\ NextCb(m).refcount = m.refcount
         /\ NextCb(m).bounces = m.bounces /\ NextCb(m).dropped = m.dropped
         /\ NextCb(m).failures = m.failures
  <1>. DEFINE v == IF m.slot = "held" THEN "freed"
                   ELSE IF m.slot = "freed" THEN "freed twice" ELSE m.slot
  <1>1. NextCb(m) \in MailType
    BY DEF NextCb, MailType
  <1>2. NextCb(m) = [m EXCEPT !.slot = v]
    BY DEF NextCb
  <1>. HIDE DEF v
  <1>. QED  BY <1>1, <1>2 DEF MailType, Alike

(* finish_processing_mail.                                                    *)
Parts(a, b, c) == Cardinality({p \in {a, b, c} : p # {}})

(* The reference count of a mail that was parted is the number of its parts. *)
LEMMA Counting ==
  ASSUME NEW a, NEW b, NEW c, a \cap b = {}, a \cap c = {}, b \cap c = {}
  PROVE  Parts(a, b, c)
           = (IF a = {} THEN 0 ELSE 1) + (IF b = {} THEN 0 ELSE 1) + (IF c = {} THEN 0 ELSE 1)
  <1>. DEFINE S == {p \in {a, b, c} : p # {}}
              A == IF a # {} THEN {a} ELSE {}
              B == IF b # {} THEN A \cup {b} ELSE A
              C == IF c # {} THEN B \cup {c} ELSE B
  <1>1. S = C
    OBVIOUS
  <1>2. IsFiniteSet(A) /\ Cardinality(A) = (IF a = {} THEN 0 ELSE 1)
    BY FS_EmptySet, FS_Singleton
  <1>3. b # {} => b \notin A
    OBVIOUS
  <1>4. IsFiniteSet(B) /\ Cardinality(B) = (IF a = {} THEN 0 ELSE 1) + (IF b = {} THEN 0 ELSE 1)
    <2>. HIDE DEF A
    <2>1. CASE b = {}
      BY <1>2, <2>1
    <2>2. CASE b # {}
      BY <1>2, <1>3, <2>2, FS_AddElement
    <2>. QED  BY <2>1, <2>2
  <1>5. c # {} => c \notin B
    OBVIOUS
  <1>6. Cardinality(C) = (IF a = {} THEN 0 ELSE 1) + (IF b = {} THEN 0 ELSE 1) + (IF c = {} THEN 0 ELSE 1)
    <2>. HIDE DEF B
    <2>1. CASE c = {}
      BY <1>4, <2>1
    <2>2. CASE c # {}
      <3>1. Cardinality(B \cup {c}) = Cardinality(B) + 1
        BY <1>4, <1>5, <2>2, FS_AddElement
      <3>. QED  BY <1>4, <2>2, <3>1
    <2>. QED  BY <2>1, <2>2
  <1>. QED  BY <1>1, <1>6 DEF Parts

(* Parting it is fine: who was served is owed nothing, those of the other     *)
(* lists still are, and whoever is in no list is let go.                      *)
LEMMA PartedFine ==
  ASSUME NEW m \in MailType, WellKept(m), m.at \in InHand,
         NEW ok \in SUBSET m.rcpts, NEW fail \in SUBSET (m.rcpts \ ok),
         NEW refused \in SUBSET (m.rcpts \ (ok \cup fail)),
         NEW got \in SUBSET (m.rcpts \ (fail \cup refused)), ok = {} => got = {},
         NEW n \in Parted(m, ok, fail, refused)
  PROVE  /\ Fine(m, n, got, m.rcpts \ (fail \cup refused \cup got)) /\ Tidy(m, n, got)
         /\ ~n.told /\ ~n.dropped =>
              n.refcount >= One(n.hooked) + One(n.toDefer # {}) + One(n.toBounce # {})
                              + One(n.bounces > 0)
  <1>. DEFINE lost == m.rcpts \ (fail \cup refused \cup got)
              size == Cardinality({p \in {ok, fail, refused} : p # {}})
              q == [m EXCEPT !.at = "ending", !.hooked = ok # {}, !.toDefer = fail,
                             !.toBounce = refused, !.refcount = size]
  <1>1. \/ fail = m.rcpts /\ n \in TempFailed(m)
        \/ refused = m.rcpts /\ n \in Bounced(m)
        \/ ok = {} /\ fail = {} /\ refused = {} /\ n = Discard(m)
        \/ n = q
    BY DEF Parted
  <1>2. ASSUME ok = {}, n \in TempFailed(m) \/ n \in Bounced(m)
        PROVE  /\ Fine(m, n, got, lost) /\ Tidy(m, n, got)
               /\ ~n.told /\ ~n.dropped =>
                    n.refcount >= One(n.hooked) + One(n.toDefer # {}) + One(n.toBounce # {})
                                    + One(n.bounces > 0)
    <2>1. /\ n \in MailType /\ Alike(m, n)
          /\ BounceDropped(m, n) \/ BounceOwed(m, n) \/ Waits(m, n)
      BY <1>2, TempFailedEffect, BouncedEffect DEF WellKept
    <2>2. /\ Fine(m, n, {}, {}) /\ Tidy(m, n, {})
          /\ ~n.told /\ ~n.dropped => n.refcount >= One(n.bounces > 0)
          /\ n.toDefer = {} /\ n.toBounce = {} /\ ~n.hooked
      BY <2>1, Handed
    <2>3. Fine(m, n, {}, lost)
      BY <2>2 DEF Fine
    <2>. QED  BY <1>2, <2>1, <2>2, <2>3, Numbers DEF One
  <1>3. CASE n = q
    <2>1. size = (IF ok = {} THEN 0 ELSE 1) + (IF fail = {} THEN 0 ELSE 1)
                   + (IF refused = {} THEN 0 ELSE 1)
      <3>1. ok \cap fail = {} /\ ok \cap refused = {} /\ fail \cap refused = {}
        OBVIOUS
      <3>2. size = Parts(ok, fail, refused)
        BY DEF Parts
      <3>. HIDE DEF size
      <3>. QED  BY <3>1, <3>2, Counting
    <2>2. size \in Int
      BY <2>1
    <2>3. q \in MailType
      BY <2>2 DEF MailType, Places
    <2>4. /\ q.at = "ending" /\ q.hooked = (ok # {}) /\ q.toDefer = fail /\ q.toBounce = refused
          /\ q.refcount = size /\ q.rcpts = m.rcpts /\ q.told = m.told /\ q.dropped = m.dropped
          /\ q.bounces = m.bounces /\ q.disk = m.disk
      BY DEF MailType
    <2>. HIDE DEF q, size
    <2>5. q.bounces = 0 /\ q.at \notin InHand /\ q.at # "split" /\ q.disk = "file"
      BY <2>4 DEF WellKept, InHand
    <2>6. Open(q) = fail \cup refused /\ Owed(q) = fail \cup refused
          /\ Open(m) = m.rcpts /\ Owed(m) = m.rcpts
      BY <2>4, <2>5 DEF Open, Owed, WellKept
    <2>7. WellKept(q)
      BY <2>4, <2>5 DEF WellKept
    <2>8. Fine(m, q, got, lost)
      BY <2>3, <2>4, <2>5, <2>6, <2>7 DEF Fine, Decided
    <2>9. Tidy(m, q, got)
      BY <2>4, <2>5, <2>6 DEF Tidy, Decided
    <2>10. q.refcount >= One(q.hooked) + One(q.toDefer # {}) + One(q.toBounce # {})
                           + One(q.bounces > 0)
      <3>1. q.hooked <=> ok # {}
        BY <2>4, Zenon
      <3>2. /\ One(q.hooked) = (IF ok = {} THEN 0 ELSE 1) /\ One(q.bounces > 0) = 0
            /\ One(q.toDefer # {}) = (IF fail = {} THEN 0 ELSE 1)
            /\ One(q.toBounce # {}) = (IF refused = {} THEN 0 ELSE 1)
        BY <2>4, <2>5, <3>1 DEF One
      <3>3. q.refcount = One(q.hooked) + One(q.toDefer # {}) + One(q.toBounce # {})
                           + One(q.bounces > 0)
        <4>1. q.refcount = size
          BY <2>4
        <4>. QED  BY <2>1, <3>2, <4>1
      <3>. QED  BY <2>2, <2>4, <3>3
    <2>. QED  BY <1>3, <2>8, <2>9, <2>10
  <1>4. CASE fail = m.rcpts /\ n \in TempFailed(m)
    BY <1>2, <1>4
  <1>5. CASE refused = m.rcpts /\ n \in Bounced(m)
    BY <1>2, <1>5
  <1>6. CASE ok = {} /\ fail = {} /\ refused = {} /\ n = Discard(m)
    <2>1. /\ n \in MailType /\ Alike(m, n) /\ n.refcount = 0 /\ n.at = "none"
          /\ n.bounces = 0 /\ n.dropped = m.dropped
      BY <1>6, DiscardEffect DEF WellKept
    <2>2. n.toDefer = {} /\ n.toBounce = {} /\ ~n.hooked /\ n.at \notin InHand /\ n.at # "split"
      BY <2>1 DEF WellKept, Alike, InHand
    <2>3. WellKept(n) /\ Open(n) = {} /\ Owed(n) = {}
      BY <2>1, <2>2 DEF WellKept, Open, Owed
    <2>4. Owed(m) = m.rcpts /\ Open(m) = m.rcpts /\ got = {} /\ lost = m.rcpts
      BY <1>6 DEF WellKept, Open, Owed
    <2>5. Fine(m, n, got, lost) /\ Tidy(m, n, got)
      BY <2>1, <2>2, <2>3, <2>4 DEF Fine, Tidy, Decided, Alike
    <2>. QED  BY <2>1, <2>2, <2>5 DEF One
  <1>. QED  BY <1>1, <1>3, <1>4, <1>5, <1>6
-----------------------------------------------------------------------------
(* Each step that changes one mail is such a step.                            *)
LEMMA NoSplits ==
  ASSUME QueueInv, NEW f \in Mail, mail[f].at \in InHand
  PROVE  \A g \in Mail, cause \in {"deferred", "refused"} : ~Split(g, f, cause)
  BY DEF QueueInv, SplitsInv, Split

(* A mail that is worked on was accepted, and was written.                   *)
LEMMA AtWork ==
  ASSUME QueueInv, NEW f \in Mail,
         \/ mail[f].at \notin {"none", "held"} \/ mail[f].hooked \/ mail[f].bounces > 0
         \/ mail[f].toDefer # {} \/ mail[f].toBounce # {}
  PROVE  Underway /\ f <= used /\ mail[f] \in MailType /\ WellKept(mail[f])
  <1>1. Underway
    BY DEF QueueInv, Writing
  <1>2. mail[f] # Blank
    BY DEF Blank
  <1>3. f <= used
    BY <1>2 DEF QueueInv, TypeOK, Unwritten, Mail
  <1>. QED  BY <1>1, <1>3 DEF QueueInv, TypeOK, MailsKept

(* A step that serves nobody serves the empty set.                           *)
LEMMA NobodyServed ==
  ASSUME QueueInv, UNCHANGED <<delivered, unserved>>
  PROVE  /\ delivered' = [r \in Rcpt |-> IF r \in {} THEN delivered[r] + 1 ELSE delivered[r]]
         /\ unserved' = unserved \cup {}
  BY DEF QueueInv, TypeOK

(* A mail moves on: _add_hmail, the timers, the delivery queue, the rename.   *)
LEMMA MovedLocal ==
  ASSUME QueueInv, NEW f \in Mail, mail[f].at \in InHand \ {"held", "split"},
         NEW n, Moved(mail[f], n), Become(f, n),
         UNCHANGED <<transaction, reply, used, history, crashed, splitFailed>>,
         mishaps' \in 0..MaxMishaps
  PROVE  Local(f, n, {}, {})
  <1>1. Underway /\ f <= used /\ mail[f] \in MailType /\ WellKept(mail[f])
    BY AtWork DEF InHand
  <1>2. /\ Fine(mail[f], n, {}, {}) /\ Tidy(mail[f], n, {})
        /\ n.refcount >= One(n.bounces > 0)
        /\ n.toDefer = {} /\ n.toBounce = {} /\ ~n.hooked /\ n \in MailType
    BY <1>1, MovedFine DEF Moved
  <1>3. \A g \in Mail, cause \in {"deferred", "refused"} : ~Split(g, f, cause)
    BY NoSplits
  <1>4. Counts(f, n)
    BY <1>2, <1>3, Numbers DEF Counts, One
  <1>. QED  BY <1>1, <1>2, <1>4, NobodyServed DEF Local, Become, QueueInv, TypeOK, transaction

(* The mishaps stay within their bound.                                      *)
LEMMA Ticks ==
  ASSUME QueueInv, UNCHANGED mishaps \/ Mishap
  PROVE  mishaps' \in 0..MaxMishaps
  BY NumbersTyped DEF QueueInv, TypeOK, Mishap

(* _add_hmail, a timer, the delivery queue, a DELAY, a rename.               *)
LEMMA LoadLocal ==
  ASSUME QueueInv, NEW f \in Mail, Load(f) PROVE \E n : Local(f, n, {}, {})
  <1>1. PICK place \in {"queue", "timer"} : Become(f, [mail[f] EXCEPT !.at = place])
    BY DEF Load
  <1>. DEFINE n == [mail[f] EXCEPT !.at = place]
  <1>2. mail[f].at \in InHand \ {"held", "split"} /\ mail[f] \in MailType
    BY DEF Load, InHand, Places, QueueInv, TypeOK
  <1>3. Moved(mail[f], n)
    BY <1>2 DEF MailType, Moved, Alike, InHand, Places
  <1>. QED  BY <1>1, <1>2, <1>3, MovedLocal, Ticks DEF Load

LEMMA TimerLocal ==
  ASSUME QueueInv, NEW f \in Mail, TimerFires(f) PROVE \E n : Local(f, n, {}, {})
  <1>. DEFINE n == [mail[f] EXCEPT !.at = "queue"]
  <1>2. mail[f].at \in InHand \ {"held", "split"} /\ mail[f] \in MailType
    BY DEF TimerFires, InHand, Places, QueueInv, TypeOK
  <1>3. Moved(mail[f], n)
    BY <1>2 DEF MailType, Moved, Alike, InHand, Places
  <1>. QED  BY <1>2, <1>3, MovedLocal, Ticks DEF TimerFires

LEMMA SendLocal ==
  ASSUME QueueInv, NEW f \in Mail, Send(f) PROVE \E n : Local(f, n, {}, {})
  <1>. DEFINE n == [mail[f] EXCEPT !.at = "sending", !.slot = "held"]
  <1>2. mail[f].at \in InHand \ {"held", "split"} /\ mail[f] \in MailType
    BY DEF Send, InHand, Places, QueueInv, TypeOK
  <1>3. Moved(mail[f], n)
    BY <1>2 DEF MailType, Moved, Alike, InHand, Places
  <1>. QED  BY <1>2, <1>3, MovedLocal, Ticks DEF Send

LEMMA SendDelayedLocal ==
  ASSUME QueueInv, NEW f \in Mail, SendDelayed(f) PROVE \E n : Local(f, n, {}, {})
  <1>. DEFINE k == [mail[f] EXCEPT !.at = "timer"]
  <1>2. mail[f].at \in InHand \ {"held", "split"} /\ mail[f] \in MailType
    BY DEF SendDelayed, InHand, Places, QueueInv, TypeOK
  <1>3. Moved(mail[f], k) /\ k \in MailType
    BY <1>2 DEF MailType, Moved, Alike, InHand, Places
  <1>4. Delayed(mail[f]) = NextCb(k)
    BY DEF Delayed
  <1>. HIDE DEF k
  <1>5. Moved(mail[f], Delayed(mail[f]))
    BY <1>3, <1>4, NextCbEffect DEF Moved, Alike
  <1>. QED  BY <1>2, <1>5, MovedLocal, Ticks DEF SendDelayed

LEMMA SendBlockedLocal ==
  ASSUME QueueInv, NEW f \in Mail, SendBlocked(f) PROVE \E n : Local(f, n, {}, {})
  <1>. DEFINE n == [mail[f] EXCEPT !.at = "blocked"]
  <1>2. mail[f].at \in InHand \ {"held", "split"} /\ mail[f] \in MailType
    BY DEF SendBlocked, InHand, Places, QueueInv, TypeOK
  <1>3. Moved(mail[f], n)
    BY <1>2 DEF MailType, Moved, Alike, InHand, Places
  <1>. QED  BY <1>2, <1>3, MovedLocal, Ticks DEF SendBlocked

LEMMA RenamedLocal ==
  ASSUME QueueInv, NEW f \in Mail, Renamed(f) PROVE \E n : Local(f, n, {}, {})
  <1>. DEFINE m == mail[f]
              k == [m EXCEPT !.attempts = m.failures, !.at = "timer"]
  <1>2. m.at \in InHand \ {"held", "split"} /\ m \in MailType /\ WellKept(m)
    BY DEF Renamed, InHand, Places, QueueInv, TypeOK, MailsKept
  <1>3. m.failures \in 0..MaxFailures
    BY <1>2, Numbers DEF WellKept
  <1>4. Moved(m, k) /\ k \in MailType
    BY <1>2, <1>3 DEF MailType, Moved, Alike, InHand, Places
  <1>5. Become(f, NextCb(k))
    BY DEF Renamed
  <1>. HIDE DEF k
  <1>6. Moved(m, NextCb(k))
    BY <1>4, NextCbEffect DEF Moved, Alike
  <1>. QED  BY <1>2, <1>5, <1>6, MovedLocal, Ticks DEF Renamed

(* The mail comes to one of its ends from an attempt or a rename.             *)
LEMMA RenameFailsLocal ==
  ASSUME QueueInv, NEW f \in Mail, RenameFails(f) PROVE \E n : Local(f, n, {}, {})
  <1>1. PICK n \in Bounced(mail[f]) : Become(f, n)
    BY DEF RenameFails, Unrenamed
  <1>2. Underway /\ f <= used /\ mail[f] \in MailType /\ WellKept(mail[f])
    BY AtWork DEF RenameFails
  <1>3. mail[f].at \in InHand /\ mail[f].at # "split"
    BY DEF RenameFails, InHand, Places
  <1>4. n \in MailType /\ Alike(mail[f], n) /\ (BounceDropped(mail[f], n) \/ BounceOwed(mail[f], n))
    BY <1>2, BouncedEffect
  <1>5. /\ Fine(mail[f], n, {}, {}) /\ Tidy(mail[f], n, {})
        /\ ~n.told /\ ~n.dropped => n.refcount >= One(n.bounces > 0)
        /\ n.toDefer = {} /\ n.toBounce = {} /\ ~n.hooked
    BY <1>2, <1>3, <1>4, Handed
  <1>6. \A g \in Mail, cause \in {"deferred", "refused"} : ~Split(g, f, cause)
    BY <1>3, NoSplits
  <1>7. Counts(f, n)
    BY <1>4, <1>5, <1>6, Numbers DEF Counts, One
  <1>8. mishaps' \in 0..MaxMishaps
    BY Ticks DEF RenameFails
  <1>9. Local(f, n, {}, {})
    BY <1>1, <1>2, <1>3, <1>5, <1>7, <1>8, NobodyServed
       DEF RenameFails, Local, Become, QueueInv, TypeOK, transaction
  <1>. QED  BY <1>9

(* An attempt ends: the one step that serves somebody.                       *)
LEMMA AttemptedLocal ==
  ASSUME QueueInv, NEW f \in Mail, Attempted(f)
  PROVE  \E got \in SUBSET Rcpt : \E n, lost : Local(f, n, got, lost)
  <1>. DEFINE m == mail[f]
              Verdict(ok, fail, refused, got) ==
                /\ ok = {} => got = {}
                /\ Serve(got)
                /\ unserved' = unserved \cup (m.rcpts \ (fail \cup refused \cup got))
                /\ \E n \in Parted(m, ok, fail, refused) : Become(f, n)
  <1>1. PICK ok \in SUBSET m.rcpts : \E fail \in SUBSET (m.rcpts \ ok) :
          \E refused \in SUBSET (m.rcpts \ (ok \cup fail)) :
          \E got \in SUBSET (m.rcpts \ (fail \cup refused)) : Verdict(ok, fail, refused, got)
    BY DEF Attempted
  <1>2. PICK fail \in SUBSET (m.rcpts \ ok) :
          \E refused \in SUBSET (m.rcpts \ (ok \cup fail)) :
          \E got \in SUBSET (m.rcpts \ (fail \cup refused)) : Verdict(ok, fail, refused, got)
    BY <1>1
  <1>3. PICK refused \in SUBSET (m.rcpts \ (ok \cup fail)) :
          \E got \in SUBSET (m.rcpts \ (fail \cup refused)) : Verdict(ok, fail, refused, got)
    BY <1>2
  <1>4. PICK got \in SUBSET (m.rcpts \ (fail \cup refused)) : Verdict(ok, fail, refused, got)
    BY <1>3
  <1>5. PICK n \in Parted(m, ok, fail, refused) : Become(f, n)
    BY <1>4
  <1>. DEFINE lost == m.rcpts \ (fail \cup refused \cup got)
  <1>6. Underway /\ f <= used /\ m \in MailType /\ WellKept(m)
    BY AtWork DEF Attempted
  <1>7. m.at \in InHand /\ m.at # "split"
    BY DEF Attempted, InHand, Places
  <1>8. /\ Fine(m, n, got, lost) /\ Tidy(m, n, got)
        /\ ~n.told /\ ~n.dropped =>
             n.refcount >= One(n.hooked) + One(n.toDefer # {}) + One(n.toBounce # {})
                             + One(n.bounces > 0)
    BY <1>4, <1>6, <1>7, PartedFine
  <1>9. \A g \in Mail, cause \in {"deferred", "refused"} : ~Split(g, f, cause)
    BY <1>7, NoSplits
  <1>10. Counts(f, n)
    BY <1>8, <1>9 DEF Counts
  <1>11. mishaps' \in 0..MaxMishaps
    BY Ticks DEF Attempted
  <1>12. got \in SUBSET Rcpt /\ lost \subseteq Rcpt
    BY <1>6 DEF MailType
  <1>13. Serve(got) /\ unserved' = unserved \cup lost
    BY <1>4
  <1>. HIDE DEF lost
  <1>14. Local(f, n, got, lost)
    BY <1>5, <1>6, <1>7, <1>8, <1>10, <1>11, <1>12, <1>13
       DEF Attempted, Local, Become, Serve, QueueInv, TypeOK, transaction
  <1>. QED  BY <1>12, <1>14

(* A server takes the mail unnoticed: nothing else changes.                  *)
LEMMA TakenStep ==
  ASSUME QueueInv, NEW f \in Mail, Taken(f)
  PROVE  QueueInv' /\ Promise!Next
  <1>. USE DEF QueueInv, TypeOK
  <1>1. PICK S \in SUBSET mail[f].rcpts : Serve(S) /\ unnoticed' = unnoticed \cup S
    BY DEF Taken
  <1>2. UNCHANGED <<nullSender, deliveries, reply, used, mail, unserved, bounceFailed, crashed, splitFailed>>
    BY DEF Taken, transaction
  <1>3. Underway /\ S \in SUBSET Rcpt /\ mishaps' \in 0..MaxMishaps
    BY <1>1, AtWork, Ticks DEF Taken, MailType
  <1>4. \A r \in Rcpt : delivered'[r] = IF r \in S THEN delivered[r] + 1 ELSE delivered[r]
    BY <1>1 DEF Serve
  <1>5. TypeOK'
    <2>1. delivered' \in [Rcpt -> Nat]
      BY <1>1 DEF Serve
    <2>. QED  BY <1>1, <1>2, <1>3, <2>1
  <1>6. MailsKept' /\ Unwritten' /\ SplitsInv' /\ Referenced'
    BY <1>2 DEF MailsKept, Unwritten, SplitsInv, Referenced, Split, Deferring, Refusing
  <1>7. Writing'
    BY <1>2, <1>3 DEF Writing, Underway
  <1>8. GivenUp' = GivenUp
    BY <1>2 DEF GivenUp
  <1>9. \A r \in Rcpt : Fresh(r) => Fresh(r)'
    BY <1>1, <1>4 DEF Fresh
  <1>10. \A g \in Mail : Owed(mail[g]) \subseteq Rcpt /\ Open(mail[g]) \subseteq Owed(mail[g])
    BY DEF Owed, Open, MailType
  <1>11. Exclusive' /\ Undecided'
    BY <1>2, <1>8, <1>9, <1>10 DEF Exclusive, Undecided
  <1>12. Covered'
    <2>1. \A r \in Rcpt : Over(r) => Over(r)'
      BY <1>2, <1>4, <1>8 DEF Over, Resolved
    <2>. QED  BY <1>2, <2>1, DeliveriesTyped DEF Covered
  <1>13. mail[f].at \in InHand
    BY DEF Taken, InHand, Places
  <1>14. S \subseteq Open(mail[f]) /\ S \subseteq Owed(mail[f])
    BY <1>13 DEF Open, Owed
  <1>15. Promise!Serve(S)
    <2>1. /\ \A r \in S : delivered[r] = 0 \/ crashed \/ r \in unnoticed
          /\ \A r \in S : r \notin GivenUp \/ crashed \/ splitFailed
      BY <1>14 DEF Exclusive, Undecided, Fresh
    <2>. QED  BY <1>1, <1>2, <1>3, <1>8, <2>1 DEF Promise!Serve, Promise!Underway, Underway, Serve
  <1>. QED  BY <1>3, <1>5, <1>6, <1>7, <1>11, <1>12, <1>15 DEF Promise!Next

(* The mail is discarded once for the hook, a bounce, or a split that failed. *)
LEMMA NotInHand ==
  ASSUME NEW m, WellKept(m),
         m.hooked \/ m.bounces > 0 \/ m.toDefer # {} \/ m.toBounce # {}
  PROVE  m.at \notin InHand
  BY DEF WellKept

(* The delivered hook answers.                                               *)
LEMMA DeliveredRespondLocal ==
  ASSUME QueueInv, NEW f \in Mail, DeliveredRespond(f) PROVE \E n : Local(f, n, {}, {})
  <1>. DEFINE m == mail[f]
              k == [m EXCEPT !.hooked = FALSE]
              n == Discard(k)
  <1>1. Underway /\ f <= used /\ m \in MailType /\ WellKept(m)
    BY AtWork DEF DeliveredRespond
  <1>2. m.at \notin InHand /\ m.at # "split"
    BY <1>1, NotInHand DEF DeliveredRespond, InHand, Places
  <1>3. /\ k \in MailType /\ k.rcpts = m.rcpts /\ k.toDefer = m.toDefer
        /\ k.toBounce = m.toBounce /\ ~k.hooked /\ k.told = m.told /\ k.dropped = m.dropped
        /\ k.bounces = m.bounces /\ k.refcount = m.refcount /\ k.at = m.at /\ k.disk = m.disk
        /\ k.failures = m.failures
    BY <1>1 DEF MailType
  <1>4. Become(f, n) /\ m.hooked
    BY DEF DeliveredRespond
  <1>. HIDE DEF k
  <1>5. /\ n \in MailType /\ Alike(k, n) /\ n.refcount = k.refcount - 1
        /\ n.bounces = k.bounces /\ n.dropped = k.dropped
        /\ k.refcount # 1 => n.at = k.at /\ n.disk = k.disk
        /\ n.at \in {k.at, "none"}
    BY <1>3, DiscardEffect
  <1>. HIDE DEF n
  <1>6. n.at \notin InHand /\ n.at # "split" /\ WellKept(n)
    BY <1>1, <1>2, <1>3, <1>5 DEF WellKept, Alike, InHand
  <1>7. ~m.told /\ ~m.dropped =>
          m.refcount >= 1 + One(Deferring(f)) + One(Refusing(f)) + One(m.bounces > 0)
    BY <1>4 DEF QueueInv, Referenced, One
  <1>8. Open(n) = Open(m) /\ Owed(n) = Owed(m) /\ (Decided(n) <=> Decided(m))
    BY <1>2, <1>3, <1>5, <1>6 DEF Open, Owed, Decided, Alike
  <1>9. \A r \in Owed(m) : m.disk = "file" => Decided(n) \/ n.disk = "file"
    <2>. SUFFICES ASSUME NEW r \in Owed(m), m.disk = "file", ~Decided(n) PROVE n.disk = "file"
      OBVIOUS
    <2>1. m.toDefer # {} \/ m.toBounce # {} \/ m.bounces > 0
      BY <1>2 DEF Owed, Open
    <2>2. Deferring(f) \/ Refusing(f) \/ m.bounces > 0
      BY <2>1 DEF Deferring, Refusing
    <2>3. m.refcount >= 2
      BY <1>1, <1>7, <1>8, <2>2, Numbers DEF Decided, One
    <2>. QED  BY <1>3, <1>5, <2>3
  <1>10. Fine(m, n, {}, {})
    BY <1>2, <1>3, <1>5, <1>6, <1>8, <1>9 DEF Fine, Alike, Decided
  <1>11. Counts(f, n)
    <2>1. n.refcount = m.refcount - 1 /\ m.refcount \in Int
      BY <1>1, <1>3, <1>5, Numbers
    <2>2. /\ n.toDefer = m.toDefer /\ n.toBounce = m.toBounce /\ n.bounces = m.bounces
          /\ ~n.hooked /\ n.told = m.told /\ n.dropped = m.dropped
      BY <1>3, <1>5 DEF Alike
    <2>. QED  BY <1>7, <2>1, <2>2 DEF Counts, One, Deferring, Refusing
  <1>12. ~crashed /\ ~splitFailed => Tidy(m, n, {})
    <2>. SUFFICES ASSUME ~crashed, ~splitFailed PROVE Tidy(m, n, {})
      OBVIOUS
    <2>1. m.bounces > 0 => m.bounces = 1 /\ m.toDefer = {} /\ m.toBounce = {}
      BY DEF QueueInv, Undecided
    <2>. QED  BY <1>3, <1>5, <1>8, <2>1 DEF Tidy, Alike
  <1>13. mishaps' \in 0..MaxMishaps
    BY Ticks DEF DeliveredRespond
  <1>14. Local(f, n, {}, {})
    BY <1>1, <1>2, <1>4, <1>10, <1>11, <1>12, <1>13, NobodyServed
       DEF DeliveredRespond, Local, Become, QueueInv, TypeOK, transaction
  <1>. QED  BY <1>14

(* The sender was told, or could not be: a bounce is over.                    *)
LEMMA BounceOver ==
  ASSUME QueueInv, NEW f \in Mail, mail[f].bounces > 0,
         NEW k \in MailType, k.rcpts = mail[f].rcpts, k.toDefer = mail[f].toDefer,
         k.toBounce = mail[f].toBounce, k.hooked = mail[f].hooked, Decided(k),
         mail[f].told => k.told, mail[f].dropped => k.dropped,
         k.bounces = mail[f].bounces - 1, k.at = mail[f].at,
         NEW n \in {Discard(k), Gone(k)}, Become(f, n), mishaps' \in 0..MaxMishaps,
         UNCHANGED <<transaction, reply, used, delivered, unnoticed, unserved, crashed, splitFailed>>,
         bounceFailed' \in BOOLEAN
  PROVE  Local(f, n, {}, {})
  <1>. DEFINE m == mail[f]
  <1>1. Underway /\ f <= used /\ m \in MailType /\ WellKept(m)
    BY AtWork
  <1>2. m.at \notin InHand /\ m.at # "split"
    BY <1>1, NotInHand DEF InHand, Places
  <1>3. /\ n \in MailType /\ Alike(k, n) /\ n.bounces = k.bounces /\ n.dropped = k.dropped
        /\ n.at \in {k.at, "none"}
    BY DiscardEffect, GoneEffect
  <1>4. n.at \notin InHand /\ n.at # "split" /\ WellKept(n)
    BY <1>1, <1>2, <1>3 DEF WellKept, Alike, InHand
  <1>5. Decided(n) /\ Open(n) = Open(m)
    BY <1>2, <1>3, <1>4 DEF Open, Decided, Alike
  <1>6. Fine(m, n, {}, {})
    BY <1>2, <1>3, <1>4, <1>5 DEF Fine, Alike
  <1>7. Counts(f, n)
    BY <1>5 DEF Counts, Decided
  <1>8. ~crashed /\ ~splitFailed => Tidy(m, n, {})
    <2>. SUFFICES ASSUME ~crashed, ~splitFailed PROVE Tidy(m, n, {})
      OBVIOUS
    <2>1. m.bounces = 1 /\ m.toDefer = {} /\ m.toBounce = {}
      BY DEF QueueInv, Undecided
    <2>2. n.bounces = 0 /\ Owed(n) = {}
      BY <1>3, <1>4, <2>1 DEF Alike, Owed, Open
    <2>3. m.rcpts \subseteq Owed(m)
      BY DEF Owed
    <2>. QED  BY <2>2, <2>3 DEF Tidy
  <1>. QED
    BY <1>1, <1>2, <1>6, <1>7, <1>8, NobodyServed
       DEF Local, Become, QueueInv, TypeOK, transaction

(* The two ways a bounce is over.                                            *)
LEMMA BounceQueuedLocal ==
  ASSUME QueueInv, NEW f \in Mail, BounceQueued(f) PROVE \E n : Local(f, n, {}, {})
  <1>. DEFINE m == mail[f]
              k == [m EXCEPT !.bounces = @ - 1, !.told = TRUE]
  <1>1. m \in MailType /\ m.bounces > 0
    BY DEF BounceQueued, QueueInv, TypeOK
  <1>2. m.bounces - 1 \in Nat
    BY <1>1, Numbers
  <1>3. k \in MailType
    BY <1>1, <1>2 DEF MailType
  <1>4. /\ k.rcpts = m.rcpts /\ k.toDefer = m.toDefer /\ k.toBounce = m.toBounce
        /\ k.hooked = m.hooked /\ k.told /\ k.dropped = m.dropped
        /\ k.bounces = m.bounces - 1 /\ k.at = m.at
    BY <1>1 DEF MailType
  <1>5. Become(f, Discard(k))
    BY DEF BounceQueued
  <1>. HIDE DEF k
  <1>6. Local(f, Discard(k), {}, {})
    BY <1>1, <1>3, <1>4, <1>5, BounceOver, Ticks DEF BounceQueued, Decided, QueueInv, TypeOK
  <1>. QED  BY <1>6

LEMMA BounceFailsLocal ==
  ASSUME QueueInv, NEW f \in Mail, BounceFails(f) PROVE \E n : Local(f, n, {}, {})
  <1>. DEFINE m == mail[f]
              b == [m EXCEPT !.bounces = @ - 1]
              k == [b EXCEPT !.dropped = TRUE]
  <1>1. m \in MailType /\ m.bounces > 0
    BY DEF BounceFails, QueueInv, TypeOK
  <1>2. m.bounces - 1 \in Nat
    BY <1>1, Numbers
  <1>3. b \in MailType /\ k \in MailType
    BY <1>1, <1>2 DEF MailType
  <1>4. /\ k.rcpts = m.rcpts /\ k.toDefer = m.toDefer /\ k.toBounce = m.toBounce
        /\ k.hooked = m.hooked /\ k.told = m.told /\ k.dropped
        /\ k.bounces = m.bounces - 1 /\ k.at = m.at
    BY <1>1 DEF MailType
  <1>5. Become(f, Gone(k))
    BY DEF BounceFails, DoubleBounce
  <1>. HIDE DEF b, k
  <1>6. Local(f, Gone(k), {}, {})
    BY <1>1, <1>3, <1>4, <1>5, BounceOver, Ticks DEF BounceFails, Decided
  <1>. QED  BY <1>6

(* The mail is bounced once or twice more, and nobody is split off.           *)
Bounces(m, n) ==
  /\ Alike(m, n) /\ n.at \in {m.at, "none", "ending"} /\ n.at # "split" /\ n.at \notin InHand
  /\ m.dropped => n.dropped
  /\ ~n.dropped => n.bounces > 0 /\ n.refcount = m.refcount /\ n.disk = m.disk

(* split_to_new_recipients met an error.                                     *)
LEMMA SplitFailsLocal ==
  ASSUME QueueInv, NEW f \in Mail, SplitFails(f) PROVE \E n : Local(f, n, {}, {})
  <1>. DEFINE m == mail[f]
              kd == [m EXCEPT !.toDefer = {}]
              kb == [m EXCEPT !.toBounce = {}]
  <1>1. m \in MailType
    BY DEF QueueInv, TypeOK
  <1>2. PICK k \in {kd, kb} : /\ k # m
                              /\ \E once \in Bounced(k) : \E n \in {once} \cup Bounced(once) :
                                   Become(f, n)
    BY DEF SplitFails
  <1>3. PICK once \in Bounced(k) : \E n \in {once} \cup Bounced(once) : Become(f, n)
    BY <1>2
  <1>4. PICK n \in {once} \cup Bounced(once) : Become(f, n)
    BY <1>3
  <1>5. /\ k \in MailType /\ k.rcpts = m.rcpts /\ k.hooked = m.hooked /\ k.told = m.told
        /\ k.dropped = m.dropped /\ k.bounces = m.bounces /\ k.refcount = m.refcount
        /\ k.at = m.at /\ k.disk = m.disk
    BY <1>1, <1>2 DEF MailType
  <1>6. \/ m.toDefer # {} /\ k.toDefer = {} /\ k.toBounce = m.toBounce
        \/ m.toBounce # {} /\ k.toBounce = {} /\ k.toDefer = m.toDefer
    <2>1. m.toDefer = {} => kd = m
      BY <1>1 DEF MailType
    <2>2. m.toBounce = {} => kb = m
      BY <1>1 DEF MailType
    <2>3. kd.toDefer = {} /\ kd.toBounce = m.toBounce
      BY <1>1 DEF MailType
    <2>4. kb.toBounce = {} /\ kb.toDefer = m.toDefer
      BY <1>1 DEF MailType
    <2>. HIDE DEF kd, kb
    <2>. QED  BY <1>2, <2>1, <2>2, <2>3, <2>4
  <1>. HIDE DEF kd, kb
  <1>7. Underway /\ f <= used /\ WellKept(m)
    BY <1>6, AtWork
  <1>8. m.at \notin InHand /\ m.at # "split"
    BY <1>6, <1>7, NotInHand DEF InHand, Places
  <1>9. /\ once \in MailType /\ Alike(k, once)
        /\ BounceDropped(k, once) \/ BounceOwed(k, once)
    BY <1>5, BouncedEffect
  <1>10. Bounces(k, once)
    BY <1>5, <1>8, <1>9, Numbers DEF Bounces, BounceDropped, BounceOwed, Alike, InHand
  <1>11. n \in MailType /\ Bounces(k, n)
    <2>1. CASE n = once
      BY <1>9, <1>10, <2>1
    <2>2. CASE n \in Bounced(once)
      <3>1. n \in MailType /\ Alike(once, n) /\ (BounceDropped(once, n) \/ BounceOwed(once, n))
        BY <1>9, <2>2, BouncedEffect
      <3>. QED  BY <1>5, <1>8, <1>9, <1>10, <3>1, Numbers
                DEF Bounces, BounceDropped, BounceOwed, Alike, InHand
    <2>. QED  BY <2>1, <2>2
  <1>12. WellKept(n)
    BY <1>5, <1>6, <1>7, <1>11 DEF WellKept, Bounces, Alike
  <1>13. Open(n) \subseteq Open(m) /\ Owed(m) \subseteq m.rcpts
    BY <1>6, <1>7, <1>8, <1>11 DEF Open, Owed, Bounces, Alike, WellKept
  <1>14. \A r \in Owed(m) : m.disk = "file" => Decided(n) \/ (n.disk = "file" /\ r \in Owed(n))
    BY <1>5, <1>11, <1>13 DEF Decided, Bounces, Alike, Owed
  <1>15. Fine(m, n, {}, {})
    BY <1>5, <1>6, <1>8, <1>11, <1>12, <1>13, <1>14 DEF Fine, Bounces, Alike
  <1>16. Counts(f, n)
    <2>. SUFFICES ASSUME ~n.told, ~n.dropped
                  PROVE  n.refcount >= One(n.hooked)
                           + One(n.toDefer # {} \/ \E g \in Mail : Split(g, f, "deferred"))
                           + One(n.toBounce # {} \/ \E g \in Mail : Split(g, f, "refused"))
                           + One(n.bounces > 0)
      BY DEF Counts
    <2>1. /\ n.refcount = m.refcount /\ n.hooked = m.hooked /\ n.toDefer = k.toDefer
          /\ n.toBounce = k.toBounce /\ ~m.told /\ ~m.dropped
      BY <1>5, <1>11 DEF Bounces, Alike
    <2>2. m.refcount >= One(m.hooked) + One(Deferring(f)) + One(Refusing(f)) + One(m.bounces > 0)
      BY <2>1 DEF QueueInv, Referenced
    <2>3. /\ m.toDefer # {} => \A g \in Mail : ~Split(g, f, "deferred")
          /\ m.toBounce # {} => \A g \in Mail : ~Split(g, f, "refused")
      BY DEF QueueInv, SplitsInv, Split
    <2>4. m.refcount \in Int
      BY <1>1, Numbers
    <2>5. CASE m.toDefer # {} /\ k.toDefer = {} /\ k.toBounce = m.toBounce
      BY <2>1, <2>2, <2>3, <2>4, <2>5 DEF One, Deferring, Refusing
    <2>6. CASE m.toBounce # {} /\ k.toBounce = {} /\ k.toDefer = m.toDefer
      BY <2>1, <2>2, <2>3, <2>4, <2>6 DEF One, Deferring, Refusing
    <2>. QED  BY <1>6, <2>5, <2>6
  <1>17. mishaps' \in 0..MaxMishaps
    BY Ticks DEF SplitFails
  <1>18. Local(f, n, {}, {})
    BY <1>4, <1>7, <1>8, <1>15, <1>16, <1>17, NobodyServed
       DEF SplitFails, Local, Become, QueueInv, TypeOK, transaction
  <1>. QED  BY <1>18
-----------------------------------------------------------------------------
(* The steps of several mails.                                                *)

(* A mail as it is written: nothing has happened to it.                       *)
New(m, R, places) ==
  /\ m \in MailType /\ m.rcpts = R /\ m.at \in places /\ m.disk = "file" /\ m.refcount = 1
  /\ ~m.hooked /\ m.bounces = 0 /\ m.toDefer = {} /\ m.toBounce = {} /\ m.failures = 0
  /\ ~m.told /\ ~m.dropped

(* A file that was never written, and one that has just been.                *)
LEMMA BlankFields ==
  /\ Blank \in MailType /\ Blank.disk = "none" /\ Blank.rcpts = {} /\ Blank.at = "none"
  /\ Blank.refcount = 1 /\ ~Blank.hooked /\ Blank.bounces = 0 /\ Blank.toDefer = {}
  /\ Blank.toBounce = {} /\ Blank.failures = 0 /\ ~Blank.told /\ ~Blank.dropped
  BY NumbersTyped DEF Blank, MailType, Places

LEMMA NewMailFields ==
  ASSUME NEW R \in SUBSET Rcpt, NEW place \in Places
  PROVE  New(NewMail(R, place), R, {place})
  <1>1. Blank \in MailType
    BY BlankFields
  <1>2. NewMail(R, place) \in MailType
    BY <1>1 DEF NewMail, MailType
  <1>. QED  BY <1>1, <1>2, BlankFields DEF NewMail, New, MailType

LEMMA NewKept ==
  ASSUME NEW m, NEW R, New(m, R, InHand)
  PROVE  WellKept(m) /\ Open(m) = R /\ Owed(m) = R /\ ~Decided(m)
  BY NumbersTyped DEF New, WellKept, Open, Owed, Decided

LEMMA BlankKept == WellKept(Blank) /\ Open(Blank) = {} /\ Owed(Blank) = {} /\ ~Decided(Blank)
  BY BlankFields DEF WellKept, Open, Owed, Decided, InHand

(* GivenUp, in the words used here.                                          *)
LEMMA GivenUpIs == GivenUp = {r \in Rcpt : \E f \in Mail : r \in mail[f].rcpts /\ Decided(mail[f])}
  BY DEF GivenUp, Decided

(* send_trans_email: one more file. All there is are its own new mails.       *)
LEMMA ProcessDeliveryStep ==
  ASSUME QueueInv, ProcessDelivery
  PROVE  QueueInv' /\ GivenUp' = GivenUp
  <1>. USE DEF QueueInv, TypeOK
  <1>1. reply = "none" /\ used < MaxMails /\ used' = used + 1 /\ used < Len(deliveries)
        /\ ~crashed /\ \A r \in Rcpt : delivered[r] = 0
    BY DEF ProcessDelivery, Writing
  <1>2. UNCHANGED <<history, nullSender, deliveries, mishaps, crashed, splitFailed>>
    BY DEF ProcessDelivery, transaction
  <1>3. /\ used \in Nat /\ used' \in Nat /\ used' \in 1..Len(deliveries) /\ used' \in Mail
        /\ used' \in 0..MaxMails /\ MaxMails \in Nat
    BY <1>1, DeliveriesTyped, NumbersTyped DEF Mail
  <1>4. \A f \in Mail : f <= used' => deliveries[f] \in SUBSET Rcpt
    BY <1>3, DeliveriesTyped DEF Mail
  <1>. DEFINE written == [mail EXCEPT ![used'] = NewMail(deliveries[used'], "held")]
  <1>5. \A f \in Mail : /\ f <= used' => written[f] = NewMail(deliveries[f], "held")
                        /\ f > used' => written[f] = Blank
    BY <1>1, <1>3 DEF Unwritten, Writing, Mail
  <1>6. \/ used' < Len(deliveries) /\ mail' = written /\ reply' = "none"
        \/ /\ ~(used' < Len(deliveries)) /\ reply' = "ok"
           /\ mail' = [f \in Mail |-> IF f <= used' THEN [written[f] EXCEPT !.at = "queue"]
                                                    ELSE written[f]]
    BY <1>1 DEF ProcessDelivery
  <1>. HIDE DEF written
  <1>7. "held" \in InHand /\ "queue" \in InHand /\ "held" \in Places /\ "queue" \in Places
    BY DEF InHand, Places
  <1>upTo. \A f \in Mail : (f <= used' \/ f > used') /\ ~(f <= used' /\ f > used')
    BY <1>3 DEF Mail
  <1>8. \A f \in Mail : /\ f <= used' => New(mail'[f], deliveries[f], {"held", "queue"})
                        /\ f > used' => mail'[f] = Blank
    <2>. SUFFICES ASSUME NEW f \in Mail
                  PROVE  /\ f <= used' => New(mail'[f], deliveries[f], {"held", "queue"})
                         /\ f > used' => mail'[f] = Blank
      OBVIOUS
    <2>1. CASE f > used'
      BY <1>upTo, <1>5, <1>6, <2>1
    <2>2. CASE f <= used'
      <3>1. written[f] = NewMail(deliveries[f], "held") /\ New(written[f], deliveries[f], {"held"})
        BY <1>4, <1>5, <1>7, <2>2, NewMailFields
      <3>2. New([written[f] EXCEPT !.at = "queue"], deliveries[f], {"queue"})
        <4>1. [written[f] EXCEPT !.at = "queue"] \in MailType
          BY <1>7, <3>1, Counted DEF New
        <4>. QED  BY <3>1, <4>1 DEF New, MailType
      <3>3. mail'[f] = written[f] \/ mail'[f] = [written[f] EXCEPT !.at = "queue"]
        BY <1>6, <2>2
      <3>. QED  BY <1>upTo, <2>2, <3>1, <3>2, <3>3 DEF New
    <2>. QED  BY <2>1, <2>2
  <1>9. \A f \in Mail :
          /\ f <= used' => /\ WellKept(mail'[f]) /\ Open(mail'[f]) = deliveries[f]
                           /\ Owed(mail'[f]) = deliveries[f]
          /\ f > used' => /\ WellKept(mail'[f]) /\ Open(mail'[f]) = {}
                          /\ Owed(mail'[f]) = {}
          /\ mail'[f].at # "split" /\ mail'[f] \in MailType /\ ~Decided(mail'[f])
    <2>1. \A m, R : New(m, R, {"held", "queue"}) => New(m, R, InHand) /\ m.at # "split"
      BY <1>7 DEF New
    <2>2. Blank.at # "split" /\ Blank \in MailType
      BY BlankFields
    <2>. QED  BY <1>3, <1>8, <2>1, <2>2, NewKept, BlankKept DEF New, Mail
  <1>10. mail' \in [Mail -> MailType]
    <2>1. written \in [Mail -> MailType]
      <3>1. NewMail(deliveries[used'], "held") \in MailType
        <4>1. deliveries[used'] \in SUBSET Rcpt
          BY <1>3, <1>4
        <4>. QED  BY <1>7, <4>1, NewMailFields DEF New
      <3>. QED  BY <1>3, <3>1 DEF written
    <2>2. DOMAIN mail' = Mail /\ mail' = [f \in Mail |-> mail'[f]]
      BY <1>6, <2>1
    <2>. QED  BY <1>9, <2>2
  <1>11. TypeOK'
    BY <1>2, <1>3, <1>6, <1>10
  <1>12. MailsKept' /\ SplitsInv'
    BY <1>3, <1>9 DEF MailsKept, SplitsInv, Split, Mail
  <1>13. Referenced'
    <2>1. \A f \in Mail : mail'[f].refcount = 1 /\ ~mail'[f].hooked /\ mail'[f].toDefer = {}
                           /\ mail'[f].toBounce = {} /\ mail'[f].bounces = 0
      BY <1>3, <1>8, BlankFields DEF New, Mail
    <2>2. \A f \in Mail : ~Deferring(f)' /\ ~Refusing(f)'
      BY <1>9, <2>1 DEF Deferring, Refusing, Split
    <2>. QED  BY <2>1, <2>2 DEF Referenced, One
  <1>14. Unwritten'
    BY <1>8 DEF Unwritten
  <1>15. Writing'
    <2>1. \A f \in Mail : /\ mail'[f].at \in {"none", "held", "queue"} /\ ~mail'[f].hooked
                          /\ mail'[f].toDefer = {} /\ mail'[f].toBounce = {} /\ mail'[f].bounces = 0
      BY <1>3, <1>8, BlankFields DEF New, Mail
    <2>2. CASE reply' = "none"
      <3>1. used' < Len(deliveries) /\ mail' = written
        BY <1>6, <2>2
      <3>2. \A f \in Mail : mail'[f].at \in {"none", "held"}
        <4>1. \A f \in Mail : f <= used' => New(written[f], deliveries[f], {"held"})
          BY <1>4, <1>5, <1>7, NewMailFields
        <4>. QED  BY <1>3, <1>5, <3>1, <4>1, BlankFields DEF New, Mail
      <3>. QED  BY <1>1, <1>2, <1>5, <2>1, <2>2, <3>1, <3>2 DEF Writing
    <2>3. CASE reply' = "ok"
      BY <2>3 DEF Writing, Underway
    <2>. QED  BY <1>6, <2>2, <2>3
  <1>16. \A f, g \in Mail : f # g => Owed(mail'[f]) \cap Owed(mail'[g]) = {}
                                       /\ Open(mail'[f]) \cap Open(mail'[g]) = {}
    <2>1. \A f, g \in Mail : f # g /\ f <= used' /\ g <= used' => deliveries[f] \cap deliveries[g] = {}
      <3>1. \A f \in Mail : f <= used' => f \in DOMAIN deliveries
        BY <1>3, DeliveriesTyped DEF Mail
      <3>. QED  BY <3>1, OneDelivery
    <2>. SUFFICES ASSUME NEW f \in Mail, NEW g \in Mail, f # g
                  PROVE  /\ Owed(mail'[f]) \cap Owed(mail'[g]) = {}
                         /\ Open(mail'[f]) \cap Open(mail'[g]) = {}
      OBVIOUS
    <2>2. CASE f > used' \/ g > used'
      <3>1. \A h \in Mail : h > used' => Owed(mail'[h]) = {} /\ Open(mail'[h]) = {}
        BY <1>9
      <3>. QED  BY <2>2, <3>1
    <2>3. CASE f <= used' /\ g <= used'
      BY <1>9, <2>1, <2>3
    <2>. QED  BY <1>upTo, <2>2, <2>3
  <1>17. \A f \in Mail : Owed(mail'[f]) \subseteq Rcpt /\ Open(mail'[f]) \subseteq Rcpt
    <2>. SUFFICES ASSUME NEW f \in Mail
                  PROVE  Owed(mail'[f]) \subseteq Rcpt /\ Open(mail'[f]) \subseteq Rcpt
      OBVIOUS
    <2>1. CASE f <= used'
      BY <1>4, <1>9, <2>1
    <2>2. CASE f > used'
      <3>1. Owed(mail'[f]) = {} /\ Open(mail'[f]) = {}
        BY <1>9, <2>2
      <3>. QED  BY <3>1
    <2>. QED  BY <1>upTo, <2>1, <2>2
  <1>18. GivenUp' = {}
    <2>1. GivenUp' = {r \in Rcpt : \E f \in Mail : r \in mail'[f].rcpts /\ Decided(mail'[f])}
      BY DEF GivenUp, Decided
    <2>. QED  BY <1>9, <2>1
  <1>19. GivenUp = {}
    <2>1. \A f \in Mail : ~Decided(mail[f])
      <3>1. \A f \in Mail : f <= used => New(mail[f], deliveries[f], {"held"})
        BY <1>1, <1>3, <1>4, <1>7, NewMailFields DEF Writing, Mail
      <3>2. \A f \in Mail : f > used => ~Decided(mail[f])
        BY BlankKept DEF Unwritten
      <3>. QED  BY <1>3, <3>1, <3>2 DEF New, Decided, Mail
    <2>. QED  BY <2>1, GivenUpIs
  <1>20. Exclusive'
    BY <1>1, <1>2, <1>16, <1>17 DEF Fresh, Exclusive
  <1>21. Undecided'
    <2>1. \A f \in Mail : mail'[f].bounces = 0
      BY <1>3, <1>8, BlankFields DEF New, Mail
    <2>2. \A f \in Mail : \A r \in Owed(mail'[f]) : Fresh(r)' /\ r \notin GivenUp'
      BY <1>1, <1>2, <1>17, <1>18 DEF Fresh
    <2>3. \A f \in Mail : ~(mail'[f].bounces > 0)
      BY <2>1
    <2>. QED  BY <1>16, <2>2, <2>3 DEF Undecided
  <1>22. Covered'
    <2>. SUFFICES ASSUME reply' = "ok", NEW i \in DOMAIN deliveries, NEW r \in deliveries[i]
                  PROVE  \E g \in Mail : mail'[g].disk = "file" /\ r \in Owed(mail'[g])
      BY <1>2 DEF Covered
    <2>1. i \in Mail /\ i <= used'
      BY <1>1, <1>3, <1>6, DeliveriesTyped DEF Mail
    <2>. QED  BY <1>8, <1>9, <2>1 DEF New
  <1>. QED  BY <1>11, <1>12, <1>13, <1>14, <1>15, <1>18, <1>19, <1>20, <1>21, <1>22

(* The files written so far are unlinked: there is nothing left to do.        *)
LEMMA RefuseDeliveryStep ==
  ASSUME QueueInv, RefuseDelivery
  PROVE  QueueInv' /\ GivenUp' = GivenUp
  <1>. USE DEF QueueInv, TypeOK
  <1>1. /\ reply = "none" /\ reply' = "refused" /\ ~crashed /\ used < Len(deliveries)
        /\ UNCHANGED <<nullSender, deliveries, used, history, crashed, splitFailed>>
        /\ mail' = [f \in Mail |-> IF mail[f].at = "held" THEN Gone(mail[f]) ELSE mail[f]]
        /\ \A r \in Rcpt : delivered[r] = 0
    BY DEF RefuseDelivery, Writing, transaction
  <1>2. mishaps' \in 0..MaxMishaps
    BY Ticks DEF RefuseDelivery
  <1>3. \A f \in Mail : mail[f] = Blank \/ New(mail[f], mail[f].rcpts, {"held"})
    <2>. SUFFICES ASSUME NEW f \in Mail, mail[f] # Blank PROVE New(mail[f], mail[f].rcpts, {"held"})
      OBVIOUS
    <2>1. f <= used /\ f \in DOMAIN deliveries
      BY <1>1, DeliveriesTyped DEF Unwritten, Mail
    <2>2. deliveries[f] \in SUBSET Rcpt /\ mail[f] = NewMail(deliveries[f], "held")
      BY <1>1, <2>1, DeliveriesTyped DEF Writing
    <2>. QED  BY <2>2, NewMailFields DEF New, Places
  <1>4. \A f \in Mail :
          /\ mail'[f] \in MailType /\ mail'[f].at = "none" /\ mail'[f].refcount = 1
          /\ ~mail'[f].hooked /\ mail'[f].toDefer = {} /\ mail'[f].toBounce = {}
          /\ mail'[f].bounces = 0 /\ ~Decided(mail'[f]) /\ ~Decided(mail[f])
          /\ mail[f] = Blank => mail'[f] = Blank
    <2>. SUFFICES ASSUME NEW f \in Mail
                  PROVE  /\ mail'[f] \in MailType /\ mail'[f].at = "none" /\ mail'[f].refcount = 1
                         /\ ~mail'[f].hooked /\ mail'[f].toDefer = {} /\ mail'[f].toBounce = {}
                         /\ mail'[f].bounces = 0 /\ ~Decided(mail'[f]) /\ ~Decided(mail[f])
                         /\ mail[f] = Blank => mail'[f] = Blank
      OBVIOUS
    <2>1. CASE mail[f] = Blank
      BY <1>1, <2>1, BlankFields DEF Decided
    <2>2. CASE New(mail[f], mail[f].rcpts, {"held"})
      BY <1>1, <2>2, GoneEffect, BlankFields DEF New, Decided, Alike
    <2>. QED  BY <1>3, <2>1, <2>2
  <1>5. \A f \in Mail : WellKept(mail'[f]) /\ Open(mail'[f]) = {} /\ Owed(mail'[f]) = {}
    BY <1>4 DEF WellKept, Open, Owed, InHand
  <1>6. TypeOK'
    <2>1. mail' \in [Mail -> MailType]
      BY <1>1, <1>4
    <2>. QED  BY <1>1, <1>2, <2>1
  <1>7. MailsKept' /\ SplitsInv' /\ Referenced'
    <2>1. \A f \in Mail : ~Deferring(f)' /\ ~Refusing(f)'
      BY <1>4 DEF Deferring, Refusing, Split
    <2>2. Referenced'
      BY <1>4, <2>1 DEF Referenced, One
    <2>. QED  BY <1>4, <1>5, <2>2 DEF MailsKept, SplitsInv, Split
  <1>8. Unwritten'
    BY <1>1, <1>4 DEF Unwritten
  <1>9. Writing'
    BY <1>1, <1>4 DEF Writing
  <1>10. GivenUp' = {} /\ GivenUp = {}
    <2>1. GivenUp' = {r \in Rcpt : \E f \in Mail : r \in mail'[f].rcpts /\ Decided(mail'[f])}
      BY DEF GivenUp, Decided
    <2>. QED  BY <1>4, <2>1, GivenUpIs
  <1>11. Exclusive' /\ Undecided' /\ Covered'
    <2>1. Exclusive'
      BY <1>5 DEF Exclusive
    <2>2. Undecided'
      <3>1. \A f \in Mail : ~(mail'[f].bounces > 0)
        BY <1>4
      <3>. QED  BY <1>5, <3>1 DEF Undecided
    <2>3. Covered'
      BY <1>1 DEF Covered
    <2>. QED  BY <2>1, <2>2, <2>3
  <1>. QED  BY <1>6, <1>7, <1>8, <1>9, <1>10, <1>11

(* load_queue: what a mail is made of from its file.                          *)
FromFile(m, d, p) ==
  [Blank EXCEPT !.disk = d, !.rcpts = m.rcpts, !.told = m.told, !.dropped = m.dropped,
                !.attempts = m.attempts, !.failures = m.attempts, !.at = p]

(* It keeps what the file says and nothing else.                             *)
LEMMA Reloaded ==
  ASSUME NEW m \in MailType, NEW d \in {"none", "file"}, NEW p \in Places,
         NEW n, n = FromFile(m, d, p)
  PROVE  /\ n \in MailType /\ n.disk = d /\ n.rcpts = m.rcpts /\ n.told = m.told
         /\ n.dropped = m.dropped /\ n.failures <= MaxFailures /\ n.at = p /\ n.refcount = 1
         /\ ~n.hooked /\ n.bounces = 0 /\ n.toDefer = {} /\ n.toBounce = {}
         /\ m = Blank /\ d = "none" /\ p = "none" => n = Blank
  <1>. DEFINE k == [Blank EXCEPT !.disk = d, !.rcpts = m.rcpts, !.told = m.told]
              l == [k EXCEPT !.dropped = m.dropped, !.attempts = m.attempts]
  <1>1. /\ k \in MailType /\ k.disk = d /\ k.rcpts = m.rcpts /\ k.told = m.told /\ k.failures = 0
        /\ k.at = "none" /\ k.refcount = 1 /\ ~k.hooked /\ k.bounces = 0
        /\ k.toDefer = {} /\ k.toBounce = {} /\ ~k.dropped
    BY BlankFields DEF MailType
  <1>2. d = "none" /\ m = Blank => k = Blank
    BY BlankFields DEF MailType
  <1>3. n = [l EXCEPT !.failures = m.attempts, !.at = p]
    BY DEF FromFile
  <1>. HIDE DEF k
  <1>4. /\ l \in MailType /\ l.disk = d /\ l.rcpts = m.rcpts /\ l.told = m.told
        /\ l.dropped = m.dropped /\ l.failures = 0 /\ l.at = "none" /\ l.refcount = 1
        /\ ~l.hooked /\ l.bounces = 0 /\ l.toDefer = {} /\ l.toBounce = {}
    BY <1>1 DEF MailType
  <1>5. m = Blank /\ k = Blank => l = Blank
    BY BlankFields DEF MailType
  <1>. HIDE DEF l
  <1>6. m.attempts \in 0..(MaxFailures + 1) /\ m.attempts <= MaxFailures
    <2>1. m.attempts \in 0..MaxFailures
      BY DEF MailType
    <2>. QED  BY <2>1, NumbersTyped
  <1>7. ASSUME m = Blank, p = "none", l = Blank PROVE n = Blank
    <2>1. [Blank EXCEPT !.failures = 0, !.at = "none"] = Blank
      BY BlankFields DEF MailType
    <2>2. m.attempts = 0
      BY <1>7 DEF Blank
    <2>. QED  BY <1>3, <1>7, <2>1, <2>2
  <1>8. n \in MailType
    BY <1>3, <1>4, <1>6 DEF MailType
  <1>9. /\ n.disk = l.disk /\ n.rcpts = l.rcpts /\ n.told = l.told /\ n.dropped = l.dropped
        /\ n.failures = m.attempts /\ n.at = p /\ n.refcount = l.refcount /\ n.hooked = l.hooked
        /\ n.bounces = l.bounces /\ n.toDefer = l.toDefer /\ n.toBounce = l.toBounce
    BY <1>3, <1>4 DEF MailType
  <1>. QED  BY <1>2, <1>4, <1>5, <1>6, <1>7, <1>8, <1>9

(* A crash: what is left is to be loaded, and nothing is under way.           *)
LEMMA RestartStep ==
  ASSUME QueueInv, Restart
  PROVE  QueueInv' /\ GivenUp' = GivenUp
  <1>. USE DEF QueueInv, TypeOK
  <1>1. /\ crashed' = TRUE /\ reply' = IF reply = "none" THEN "lost" ELSE reply
        /\ UNCHANGED <<nullSender, deliveries, used, history, splitFailed>>
    BY DEF Restart, transaction
  <1>2. mishaps' \in 0..MaxMishaps
    BY Ticks DEF Restart
  <1>. DEFINE Left(f, done) == IF f \in done \/ mail[f].disk = "none" THEN "none" ELSE "file"
              Old(f, done) == [mail[f] EXCEPT !.disk = Left(f, done)]
              Reread(f, done) ==
                [Blank EXCEPT !.disk = Old(f, done).disk, !.rcpts = Old(f, done).rcpts,
                   !.told = Old(f, done).told, !.dropped = Old(f, done).dropped,
                   !.attempts = Old(f, done).attempts, !.failures = Old(f, done).attempts,
                   !.at = IF Loaded(Old(f, done)) THEN "load" ELSE "none"]
  <1>3. PICK done \in SUBSET {f \in Mail : mail[f].disk = "unlinking"} :
          mail' = [f \in Mail |-> Reread(f, done)]
    BY DEF Restart
  <1>4. ASSUME NEW f \in Mail
        PROVE  /\ mail'[f] \in MailType
               /\ mail'[f].rcpts = mail[f].rcpts /\ mail'[f].told = mail[f].told
               /\ mail'[f].dropped = mail[f].dropped
               /\ mail[f].disk = "file" => mail'[f].disk = "file"
               /\ mail'[f].at = IF mail'[f].disk = "file" THEN "load" ELSE "none"
               /\ mail'[f].refcount = 1 /\ ~mail'[f].hooked /\ mail'[f].bounces = 0
               /\ mail'[f].toDefer = {} /\ mail'[f].toBounce = {}
               /\ mail'[f].failures <= MaxFailures
               /\ mail[f] = Blank => mail'[f] = Blank
    <2>1. PICK k \in MailType : k = mail[f]
      OBVIOUS
    <2>2. PICK left \in {"none", "file"} : left = Left(f, done)
      OBVIOUS
    <2>3. Old(f, done) = [k EXCEPT !.disk = left]
      BY <2>1, <2>2
    <2>4. mail'[f] = Reread(f, done)
      BY <1>3
    <2>. HIDE DEF Left, Old
    <2>5. /\ Old(f, done).disk = left /\ Old(f, done).rcpts = k.rcpts
          /\ Old(f, done).told = k.told /\ Old(f, done).dropped = k.dropped
          /\ Old(f, done).attempts = k.attempts
      BY <2>3 DEF MailType
    <2>6. PICK place \in Places : place = IF left = "file" THEN "load" ELSE "none"
      BY DEF Places
    <2>7. Reread(f, done) = FromFile(k, left, place)
      BY <2>5, <2>6 DEF FromFile, Loaded
    <2>8. mail'[f] = FromFile(k, left, place)
      <3>. HIDE DEF Reread
      <3>. QED  BY <2>4, <2>7
    <2>9. /\ mail'[f] \in MailType /\ mail'[f].disk = left /\ mail'[f].rcpts = k.rcpts
          /\ mail'[f].told = k.told /\ mail'[f].dropped = k.dropped
          /\ mail'[f].at = place /\ mail'[f].failures <= MaxFailures
          /\ mail'[f].refcount = 1 /\ ~mail'[f].hooked /\ mail'[f].bounces = 0
          /\ mail'[f].toDefer = {} /\ mail'[f].toBounce = {}
          /\ k = Blank /\ left = "none" /\ place = "none" => mail'[f] = Blank
      BY <2>8, Reloaded
    <2>10. /\ k.disk = "file" => left = "file"
           /\ k = Blank => left = "none"
      <3>1. k.disk = "none" => left = "none"
        BY <2>1, <2>2 DEF Left
      <3>2. k.disk = "file" => left = "file"
        BY <2>1, <2>2 DEF Left
      <3>. QED  BY <3>1, <3>2, BlankFields
    <2>. QED  BY <2>1, <2>6, <2>9, <2>10
  <1>. HIDE DEF Reread
  <1>5. TypeOK'
    <2>1. mail' \in [Mail -> MailType]
      BY <1>3, <1>4
    <2>. QED  BY <1>1, <1>2, <2>1
  <1>6. "load" \in InHand /\ "none" \notin InHand
    BY DEF InHand, Places
  <1>7. MailsKept'
    BY <1>4, <1>6 DEF MailsKept, WellKept
  <1>8. SplitsInv' /\ Referenced'
    <2>1. \A f \in Mail : mail'[f].at # "split"
      BY <1>4
    <2>2. \A f \in Mail : ~Deferring(f)' /\ ~Refusing(f)'
      BY <1>4, <2>1 DEF Deferring, Refusing, Split
    <2>3. Referenced'
      BY <1>4, <2>2 DEF Referenced, One
    <2>. QED  BY <2>1, <2>3 DEF SplitsInv, Split
  <1>9. Unwritten' /\ Writing'
    BY <1>1, <1>4 DEF Unwritten, Writing, Underway
  <1>10. GivenUp' = GivenUp
    BY <1>4 DEF GivenUp
  <1>11. Exclusive' /\ Undecided'
    BY <1>1 DEF Exclusive, Undecided
  <1>12. Covered'
    <2>. SUFFICES ASSUME reply = "ok", NEW i \in DOMAIN deliveries, NEW r \in deliveries[i]
                  PROVE  Over(r)' \/ \E f \in Mail : mail'[f].disk = "file" /\ r \in Owed(mail'[f])
      BY <1>1 DEF Covered
    <2>1. Over(r) => Over(r)'
      BY <1>1, <1>10 DEF Over, Resolved
    <2>2. ASSUME NEW f \in Mail, mail[f].disk = "file", r \in Owed(mail[f])
          PROVE  mail'[f].disk = "file" /\ r \in Owed(mail'[f])
      <3>1. r \in mail[f].rcpts
        BY <2>2 DEF Owed, Open, MailsKept, WellKept
      <3>. QED  BY <1>4, <1>6, <2>2, <3>1 DEF Owed, Open
    <2>. QED  BY <2>1, <2>2 DEF Covered
  <1>. QED  BY <1>5, <1>7, <1>8, <1>9, <1>10, <1>11, <1>12

(* split_to_new_recipients: R leaves the old mail k for the new mail n.       *)
SplitOff(f, cause, k, n, R) ==
  LET m == mail[f]
  IN  /\ Underway /\ f <= used /\ used' = used + 1 /\ used' \in Mail /\ f # used'
      /\ m \in MailType /\ WellKept(m) /\ m.at \notin InHand
      /\ mail' = [g \in Mail |-> IF g = used' THEN n ELSE IF g = f THEN k ELSE mail[g]]
      /\ k \in MailType /\ k.rcpts = m.rcpts /\ k.told = m.told /\ k.dropped = m.dropped
      /\ k.hooked = m.hooked /\ k.bounces = m.bounces /\ k.refcount = m.refcount
      /\ k.at = m.at /\ k.disk = m.disk
      /\ R # {}
      /\ cause = "deferred" => R = m.toDefer /\ k.toDefer = {} /\ k.toBounce = m.toBounce
      /\ cause = "refused" => R = m.toBounce /\ k.toBounce = {} /\ k.toDefer = m.toDefer
      /\ New(n, R, {"split"}) /\ n.origin = f /\ n.cause = cause

(* SplitWritten is such a step, whichever part is split off.                 *)
LEMMA SplitWrittenEffect ==
  ASSUME QueueInv, NEW f \in Mail, NEW cause \in {"deferred", "refused"}, SplitWritten(f, cause)
  PROVE  \E k, n, R : SplitOff(f, cause, k, n, R)
  <1>. DEFINE m == mail[f]
              R == IF cause = "deferred" THEN m.toDefer ELSE m.toBounce
              k == IF cause = "deferred" THEN [m EXCEPT !.toDefer = {}] ELSE [m EXCEPT !.toBounce = {}]
              b == NewMail(R, "split")
              n == [b EXCEPT !.origin = f, !.cause = cause]
  <1>1. /\ used < MaxMails /\ used' = used + 1 /\ R # {}
        /\ mail' = [mail EXCEPT ![f] = k, ![used'] = n]
    <2>1. CASE cause = "deferred"
      <3>1. /\ used < MaxMails /\ used' = used + 1 /\ m.toDefer # {}
            /\ mail' = [mail EXCEPT ![f].toDefer = {},
                   ![used'] = [NewMail(m.toDefer, "split") EXCEPT !.origin = f, !.cause = cause]]
        BY <2>1 DEF SplitWritten
      <3>. QED  BY <2>1, <3>1
    <2>2. CASE cause = "refused"
      <3>1. /\ used < MaxMails /\ used' = used + 1 /\ m.toBounce # {}
            /\ mail' = [mail EXCEPT ![f].toBounce = {},
                   ![used'] = [NewMail(m.toBounce, "split") EXCEPT !.origin = f, !.cause = cause]]
        BY <2>2 DEF SplitWritten
      <3>. QED  BY <2>2, <3>1
    <2>. QED  BY <2>1, <2>2
  <1>2. m.toDefer # {} \/ m.toBounce # {}
    BY <1>1
  <1>3. Underway /\ f <= used /\ m \in MailType /\ WellKept(m) /\ m.at \notin InHand
    <2>1. Underway /\ f <= used /\ m \in MailType /\ WellKept(m)
      BY <1>2, AtWork
    <2>. QED  BY <1>2, <2>1, NotInHand
  <1>4. used' \in Mail /\ f # used'
    <2>1. used \in 0..MaxMails /\ f \in 1..MaxMails /\ MaxMails \in Nat
      BY NumbersTyped DEF QueueInv, TypeOK, Mail
    <2>2. used' \in 1..MaxMails /\ f # used'
      BY <1>1, <1>3, <2>1
    <2>. QED  BY <2>2 DEF Mail
  <1>5. /\ k \in MailType /\ k.rcpts = m.rcpts /\ k.told = m.told /\ k.dropped = m.dropped
        /\ k.hooked = m.hooked /\ k.bounces = m.bounces /\ k.refcount = m.refcount
        /\ k.at = m.at /\ k.disk = m.disk
        /\ cause = "deferred" => R = m.toDefer /\ k.toDefer = {} /\ k.toBounce = m.toBounce
        /\ cause = "refused" => R = m.toBounce /\ k.toBounce = {} /\ k.toDefer = m.toDefer
    BY <1>3 DEF MailType
  <1>6. R \in SUBSET Rcpt
    BY <1>3 DEF MailType
  <1>. HIDE DEF R, k
  <1>7. New(b, R, {"split"})
    BY <1>6, NewMailFields DEF Places
  <1>. HIDE DEF b
  <1>8. f \in 0..MaxMails
    BY NumbersTyped DEF Mail
  <1>9. New(n, R, {"split"}) /\ n.origin = f /\ n.cause = cause
    BY <1>7, <1>8 DEF New, MailType
  <1>. HIDE DEF n
  <1>10. mail' = [g \in Mail |-> IF g = used' THEN n ELSE IF g = f THEN k ELSE mail[g]]
    <2>1. mail \in [Mail -> MailType]
      BY DEF QueueInv, TypeOK
    <2>. HIDE DEF m
    <2>. QED  BY <1>1, <1>4, <2>1
  <1>11. SplitOff(f, cause, k, n, R)
    BY <1>1, <1>3, <1>4, <1>5, <1>9, <1>10 DEF SplitOff
  <1>. QED  BY <1>11

(* It gives nobody up, and whoever was owed the mail by k is owed it by k or n. *)
LEMMA SplitWrittenStep ==
  ASSUME QueueInv, NEW f \in Mail, NEW cause \in {"deferred", "refused"}, SplitWritten(f, cause)
  PROVE  QueueInv' /\ GivenUp' = GivenUp
  <1>. USE DEF QueueInv, TypeOK
  <1>1. PICK k, n, R : SplitOff(f, cause, k, n, R)
    BY SplitWrittenEffect
  <1>. DEFINE m == mail[f]
  <1>new. PICK s : s = used'
    OBVIOUS
  <1>2. UNCHANGED <<nullSender, deliveries, reply, history, mishaps, crashed, splitFailed>>
    BY DEF SplitWritten, transaction
  <1>3. /\ \A g \in Mail : mail'[g] = IF g = s THEN n ELSE IF g = f THEN k ELSE mail[g]
        /\ s \in Mail /\ f # s /\ f <= used /\ used' = used + 1 /\ mail[s] = Blank /\ s = used'
    <2>1. /\ \A g \in Mail : mail'[g] = IF g = s THEN n ELSE IF g = f THEN k ELSE mail[g]
          /\ s \in Mail /\ f # s /\ f <= used /\ used' = used + 1
      BY <1>1, <1>new DEF SplitOff
    <2>2. s > used
      BY <1>new, <2>1 DEF Mail
    <2>. QED  BY <1>new, <2>1, <2>2 DEF Unwritten
  <1>4. /\ m \in MailType /\ WellKept(m) /\ m.at \notin InHand
        /\ k \in MailType /\ k.rcpts = m.rcpts /\ k.told = m.told /\ k.dropped = m.dropped
        /\ k.hooked = m.hooked /\ k.bounces = m.bounces /\ k.refcount = m.refcount
        /\ k.at = m.at /\ k.disk = m.disk /\ R # {}
        /\ cause = "deferred" => R = m.toDefer /\ k.toDefer = {} /\ k.toBounce = m.toBounce
        /\ cause = "refused" => R = m.toBounce /\ k.toBounce = {} /\ k.toDefer = m.toDefer
        /\ New(n, R, {"split"}) /\ n.origin = f /\ n.cause = cause
    BY <1>1 DEF SplitOff
  <1>5. "split" \in InHand
    BY DEF InHand, Places
  <1>6. /\ WellKept(n) /\ Open(n) = R /\ Owed(n) = R /\ ~Decided(n) /\ n \in MailType
        /\ n.at = "split" /\ n.disk = "file" /\ n.refcount = 1 /\ ~n.hooked /\ n.bounces = 0
        /\ n.toDefer = {} /\ n.toBounce = {}
    <2>1. New(n, R, InHand)
      BY <1>4, <1>5 DEF New
    <2>. QED  BY <1>4, <2>1, NewKept DEF New
  <1>7. WellKept(k)
    BY <1>4 DEF WellKept
  <1>8. Open(k) \cup R = Open(m) /\ Open(k) \cap R = {} /\ Open(m) \subseteq Rcpt
    BY <1>4 DEF Open, WellKept, MailType
  <1>9. TypeOK'
    <2>1. mail' \in [Mail -> MailType]
      <3>1. mail' = [g \in Mail |-> IF g = s THEN n ELSE IF g = f THEN k ELSE mail[g]]
        BY <1>1, <1>new DEF SplitOff
      <3>. QED  BY <1>4, <1>6, <3>1
    <2>2. used' \in 0..MaxMails
      BY <1>3 DEF Mail
    <2>. QED  BY <1>2, <2>1, <2>2
  <1>10. MailsKept'
    BY <1>3, <1>6, <1>7 DEF MailsKept
  <1>11. \A g, h \in Mail, c \in {"deferred", "refused"} :
           Split(g, h, c)' <=> IF g = s THEN h = f /\ c = cause ELSE Split(g, h, c)
    <2>. SUFFICES ASSUME NEW g \in Mail, NEW h \in Mail, NEW c \in {"deferred", "refused"}
                  PROVE  Split(g, h, c)' <=> IF g = s THEN h = f /\ c = cause ELSE Split(g, h, c)
      OBVIOUS
    <2>1. CASE g = s
      BY <1>3, <1>4, <1>6, <2>1 DEF Split
    <2>2. CASE g # s /\ g = f
      BY <1>3, <1>4, <1>5, <2>2 DEF Split
    <2>3. CASE g # s /\ g # f
      BY <1>3, <2>3 DEF Split
    <2>. QED  BY <2>1, <2>2, <2>3
  <1>12. \A g \in Mail : ~Split(g, f, cause)
    BY <1>4 DEF SplitsInv, Split
  <1>13. \A g, c : Split(g, s, c) /\ g \in Mail => FALSE
    <2>1. \A g \in Mail : mail[g].at = "split" => mail[g].origin # s
      <3>1. \A g \in Mail : mail[g].at = "split" => mail[g].origin \in Mail /\ mail[g].origin <= used
        BY DEF SplitsInv
      <3>. QED  BY <1>3, <3>1 DEF Mail
    <2>. QED  BY <2>1 DEF Split
  <1>14. SplitsInv'
    <2>1. ASSUME NEW g \in Mail, mail'[g].at = "split"
          PROVE  /\ mail'[g].origin \in Mail /\ mail'[g].origin <= used'
                 /\ mail'[g].cause \in {"deferred", "refused"}
                 /\ mail'[mail'[g].origin].at \notin InHand
                 /\ mail'[g].cause = "deferred" => mail'[mail'[g].origin].toDefer = {}
                 /\ mail'[g].cause = "refused" => mail'[mail'[g].origin].toBounce = {}
      <3>1. CASE g = s
        <4>1. f <= used'
          BY <1>3 DEF Mail
        <4>. QED  BY <1>3, <1>4, <3>1, <4>1
      <3>2. CASE g # s
        <4>1. g # f /\ mail'[g] = mail[g]
          BY <1>3, <1>4, <1>5, <2>1, <3>2
        <4>. DEFINE o == mail[g].origin
        <4>2. /\ o \in Mail /\ o <= used /\ mail[g].cause \in {"deferred", "refused"}
              /\ mail[o].at \notin InHand
              /\ mail[g].cause = "deferred" => mail[o].toDefer = {}
              /\ mail[g].cause = "refused" => mail[o].toBounce = {}
          BY <2>1, <4>1 DEF SplitsInv
        <4>3. o # s /\ o <= used'
          BY <1>3, <4>2 DEF Mail
        <4>4. mail'[o] = IF o = f THEN k ELSE mail[o]
          BY <1>3, <4>2, <4>3
        <4>. HIDE DEF o
        <4>5. /\ mail'[o].at \notin InHand
              /\ mail[g].cause = "deferred" => mail'[o].toDefer = {}
              /\ mail[g].cause = "refused" => mail'[o].toBounce = {}
          BY <1>4, <4>2, <4>4
        <4>. QED  BY <4>1, <4>2, <4>3, <4>5 DEF o
      <3>. QED  BY <3>1, <3>2
    <2>2. \A g, h, e \in Mail, c \in {"deferred", "refused"} :
            Split(g, e, c)' /\ Split(h, e, c)' => g = h
      BY <1>11, <1>12 DEF SplitsInv
    <2>. QED  BY <2>1, <2>2 DEF SplitsInv
  <1>15. Referenced'
    <2>. SUFFICES ASSUME NEW h \in Mail, ~mail'[h].told, ~mail'[h].dropped
                  PROVE  mail'[h].refcount >= One(mail'[h].hooked) + One(Deferring(h)')
                                                + One(Refusing(h)') + One(mail'[h].bounces > 0)
      BY DEF Referenced
    <2>1. CASE h = s
      <3>1. ~Deferring(h)' /\ ~Refusing(h)'
        BY <1>3, <1>6, <1>11, <1>13, <2>1 DEF Deferring, Refusing
      <3>. QED  BY <1>3, <1>6, <2>1, <3>1 DEF One
    <2>2. CASE h = f
      <3>1. (Deferring(h)' <=> Deferring(h)) /\ (Refusing(h)' <=> Refusing(h))
        <4>1. mail'[h] = k
          BY <1>3, <2>2
        <4>2. Split(s, f, cause)'
          BY <1>3, <1>11
        <4>3. \A g \in Mail, c \in {"deferred", "refused"} :
                c # cause => (Split(g, f, c)' <=> Split(g, f, c))
          <5>1. \A c : ~Split(s, f, c)
            BY <1>3, BlankFields DEF Split
          <5>. QED  BY <1>11, <5>1
        <4>4. CASE cause = "deferred"
          <5>1. m.toDefer # {} /\ k.toBounce = m.toBounce
            BY <1>4, <4>4
          <5>2. (Refusing(f)' <=> Refusing(f))
            BY <1>3, <4>1, <4>3, <4>4, <5>1, <2>2 DEF Refusing
          <5>3. Deferring(f)' /\ Deferring(f)
            BY <1>3, <4>2, <4>4, <5>1 DEF Deferring
          <5>. QED  BY <2>2, <5>2, <5>3
        <4>5. CASE cause = "refused"
          <5>1. m.toBounce # {} /\ k.toDefer = m.toDefer
            BY <1>4, <4>5
          <5>2. (Deferring(f)' <=> Deferring(f))
            BY <1>3, <4>1, <4>3, <4>5, <5>1, <2>2 DEF Deferring
          <5>3. Refusing(f)' /\ Refusing(f)
            BY <1>3, <4>2, <4>5, <5>1 DEF Refusing
          <5>. QED  BY <2>2, <5>2, <5>3
        <4>. QED  BY <4>4, <4>5
      <3>2. mail[h].refcount >= One(mail[h].hooked) + One(Deferring(h)) + One(Refusing(h))
                                  + One(mail[h].bounces > 0)
        BY <1>3, <1>4, <2>2 DEF Referenced
      <3>. QED  BY <1>3, <1>4, <2>2, <3>1, <3>2 DEF One
    <2>3. CASE h # s /\ h # f
      <3>1. mail'[h] = mail[h]
        BY <1>3, <2>3
      <3>2. (Deferring(h)' <=> Deferring(h)) /\ (Refusing(h)' <=> Refusing(h))
        <4>1. \A c \in {"deferred", "refused"} : ~Split(s, h, c)
          BY <1>3, BlankFields DEF Split
        <4>. QED  BY <1>3, <1>11, <2>3, <3>1, <4>1 DEF Deferring, Refusing
      <3>. QED  BY <3>1, <3>2 DEF Referenced, One
    <2>. QED  BY <2>1, <2>2, <2>3
  <1>16. Unwritten'
    <2>1. \A h \in Mail : h > used' => h > used /\ h # s /\ h # f
      BY <1>3 DEF Mail
    <2>. QED  BY <1>3, <2>1 DEF Unwritten
  <1>17. Writing'
    BY <1>1, <1>2 DEF Writing, Underway, SplitOff
  <1>18. GivenUp' = GivenUp
    <2>1. GivenUp' = {r \in Rcpt : \E g \in Mail : r \in mail'[g].rcpts /\ Decided(mail'[g])}
      BY DEF GivenUp, Decided
    <2>2. \A r \in Rcpt, g \in Mail :
            r \in mail'[g].rcpts /\ Decided(mail'[g]) <=> r \in mail[g].rcpts /\ Decided(mail[g])
      BY <1>3, <1>4, <1>6, BlankFields DEF Decided
    <2>. QED  BY <2>1, <2>2, GivenUpIs
  <1>19. ASSUME NEW g \in Mail
         PROVE  /\ Open(mail'[g]) = IF g = s THEN R ELSE IF g = f THEN Open(k) ELSE Open(mail[g])
                /\ Owed(mail'[g]) = IF g = s THEN R ELSE IF g = f THEN Owed(k) ELSE Owed(mail[g])
    BY <1>3, <1>6
  <1>20. Exclusive'
    BY <1>2, <1>3, <1>8, <1>19 DEF Fresh, Exclusive
  <1>21. Undecided'
    <2>. SUFFICES ASSUME ~crashed, ~splitFailed PROVE Undecided'
      BY <1>2 DEF Undecided
    <2>1. ~(m.bounces > 0)
      BY <1>4 DEF Undecided
    <2>2. Owed(k) = Open(k) /\ Owed(m) = Open(m)
      BY <1>4, <2>1 DEF Owed
    <2>3. /\ \A g, h \in Mail : g # h => Owed(mail[g]) \cap Owed(mail[h]) = {}
          /\ \A g \in Mail : \A r \in Owed(mail[g]) : Fresh(r) /\ r \notin GivenUp
          /\ \A g \in Mail : mail[g].bounces > 0 =>
               mail[g].bounces = 1 /\ mail[g].toDefer = {} /\ mail[g].toBounce = {}
      BY DEF Undecided
    <2>4. \A g, h \in Mail : g # h => Owed(mail'[g]) \cap Owed(mail'[h]) = {}
      <3>1. \A g \in Mail : /\ Owed(mail'[g]) \subseteq IF g = s THEN R ELSE Owed(mail[g])
                            /\ g = f => Owed(mail'[g]) \cap R = {}
        BY <1>3, <1>8, <1>19, <2>2
      <3>2. R \subseteq Owed(mail[f])
        BY <1>8, <2>2
      <3>. SUFFICES ASSUME NEW g \in Mail, NEW h \in Mail, g # h
                    PROVE  Owed(mail'[g]) \cap Owed(mail'[h]) = {}
        OBVIOUS
      <3>3. Owed(mail[g]) \cap Owed(mail[h]) = {} /\ (g # f => Owed(mail[g]) \cap R = {})
            /\ (h # f => Owed(mail[h]) \cap R = {})
        BY <2>3, <3>2
      <3>4. CASE g # s /\ h # s
        BY <3>1, <3>3, <3>4
      <3>5. CASE g = s
        BY <3>1, <3>3, <3>5
      <3>6. CASE h = s
        BY <3>1, <3>3, <3>6
      <3>. QED  BY <3>4, <3>5, <3>6
    <2>5. \A g \in Mail : \A r \in Owed(mail'[g]) : Fresh(r)' /\ r \notin GivenUp'
      <3>. SUFFICES ASSUME NEW g \in Mail, NEW r \in Owed(mail'[g])
                    PROVE  Fresh(r)' /\ r \notin GivenUp'
        OBVIOUS
      <3>1. r \in Owed(mail[g]) \/ r \in Owed(mail[f])
        BY <1>8, <1>19, <2>2
      <3>2. Fresh(r) /\ r \notin GivenUp
        BY <2>3, <3>1
      <3>. QED  BY <1>2, <1>18, <3>2 DEF Fresh
    <2>6. \A g \in Mail : mail'[g].bounces > 0 =>
            mail'[g].bounces = 1 /\ mail'[g].toDefer = {} /\ mail'[g].toBounce = {}
      BY <1>3, <1>4, <1>6, <2>1, <2>3
    <2>. QED  BY <2>4, <2>5, <2>6 DEF Undecided
  <1>22. Covered'
    <2>. SUFFICES ASSUME reply = "ok", NEW i \in DOMAIN deliveries, NEW r \in deliveries[i]
                  PROVE  Over(r)' \/ \E g \in Mail : mail'[g].disk = "file" /\ r \in Owed(mail'[g])
      BY <1>2 DEF Covered
    <2>1. Over(r) => Over(r)'
      BY <1>2, <1>18 DEF Over, Resolved
    <2>2. ASSUME NEW g \in Mail, mail[g].disk = "file", r \in Owed(mail[g])
          PROVE  \E h \in Mail : mail'[h].disk = "file" /\ r \in Owed(mail'[h])
      <3>1. CASE g = s
        BY <1>3, <2>2, <3>1, BlankFields
      <3>2. CASE g = f
        <4>1. Owed(m) \subseteq Owed(k) \cup R
          BY <1>4, <1>8 DEF Owed
        <4>2. mail'[s] = n /\ mail'[f] = k
          BY <1>3
        <4>3. CASE r \in R
          <5>1. mail'[s].disk = "file" /\ r \in Owed(mail'[s])
            BY <1>6, <4>2, <4>3
          <5>. QED  BY <1>3, <5>1
        <4>4. CASE r \in Owed(k)
          <5>1. mail'[f].disk = "file" /\ r \in Owed(mail'[f])
            BY <1>4, <2>2, <3>2, <4>2, <4>4
          <5>. QED  BY <5>1
        <4>. QED  BY <2>2, <3>2, <4>1, <4>3, <4>4
      <3>3. CASE g # s /\ g # f
        BY <1>3, <2>2, <3>3
      <3>. QED  BY <3>1, <3>2, <3>3
    <2>. QED  BY <2>1, <2>2 DEF Covered
  <1>. QED  BY <1>9, <1>10, <1>14, <1>15, <1>16, <1>17, <1>18, <1>20, <1>21, <1>22

(* The new mail is ready: it is put off or bounced, and the old one is        *)
(* discarded.                                                                 *)
SplitOver(g, o, n, q) ==
  LET m == mail[g]  p == mail[o]
  IN  /\ o \in Mail /\ o <= used /\ g <= used /\ o # g /\ Underway
      /\ m \in MailType /\ WellKept(m) /\ m.at = "split" /\ m.origin = o
      /\ p \in MailType /\ WellKept(p) /\ p.at \notin InHand
      /\ mail' = [h \in Mail |-> IF h = g THEN n ELSE IF h = o THEN q ELSE mail[h]]
      /\ Fine(m, n, {}, {}) /\ Tidy(m, n, {})
      /\ ~n.told /\ ~n.dropped => n.refcount >= One(n.bounces > 0)
      /\ n.toDefer = {} /\ n.toBounce = {} /\ ~n.hooked
      /\ q \in MailType /\ Alike(p, q) /\ q.refcount = p.refcount - 1
      /\ q.bounces = p.bounces /\ q.dropped = p.dropped
      /\ q.at \notin InHand /\ (p.refcount # 1 => q.disk = p.disk)

(* SplitReady is such a step.                                                *)
LEMMA SplitReadyEffect ==
  ASSUME QueueInv, NEW g \in Mail, SplitReady(g)
  PROVE  \E n : SplitOver(g, mail[g].origin, n, Discard(mail[mail[g].origin]))
  <1>. DEFINE m == mail[g]
              o == m.origin
              p == mail[o]
              q == Discard(p)
  <1>1. Underway /\ g <= used /\ m \in MailType /\ WellKept(m) /\ m.at = "split"
    BY AtWork DEF SplitReady
  <1>2. m.at \in InHand
    BY <1>1 DEF InHand, Places
  <1>3. o \in Mail /\ o <= used /\ p.at \notin InHand /\ o # g
    BY <1>1, <1>2 DEF QueueInv, SplitsInv
  <1>4. p \in MailType /\ WellKept(p)
    BY <1>3 DEF QueueInv, TypeOK, MailsKept
  <1>5. PICK k \in IF m.cause = "deferred" THEN TempFailed(m) ELSE Bounced(m) :
          mail' = [mail EXCEPT ![g] = [k EXCEPT !.origin = 0, !.cause = "none"],
                               ![mail[g].origin] = Discard(@)]
    BY DEF SplitReady
  <1>. DEFINE n == [k EXCEPT !.origin = 0, !.cause = "none"]
  <1>6. /\ k \in MailType /\ Alike(m, k)
        /\ BounceDropped(m, k) \/ BounceOwed(m, k) \/ Waits(m, k)
    BY <1>1, <1>2, <1>5, TempFailedEffect, BouncedEffect DEF WellKept
  <1>7. /\ n \in MailType /\ n.rcpts = k.rcpts /\ n.toDefer = k.toDefer /\ n.toBounce = k.toBounce
        /\ n.hooked = k.hooked /\ n.told = k.told /\ n.dropped = k.dropped
        /\ n.bounces = k.bounces /\ n.at = k.at /\ n.refcount = k.refcount /\ n.disk = k.disk
        /\ n.failures = k.failures
    <2>1. 0 \in 0..MaxMails
      BY NumbersTyped
    <2>. HIDE DEF m
    <2>2. n \in MailType
      BY <1>6, <2>1 DEF MailType
    <2>. QED  BY <1>6, <2>2 DEF MailType
  <1>8. mail' = [h \in Mail |-> IF h = g THEN n ELSE IF h = o THEN q ELSE mail[h]]
    <2>1. mail \in [Mail -> MailType]
      BY DEF QueueInv, TypeOK
    <2>. QED  BY <1>3, <1>5, <2>1
  <1>. HIDE DEF n
  <1>9. /\ n \in MailType /\ Alike(m, n)
        /\ BounceDropped(m, n) \/ BounceOwed(m, n) \/ Waits(m, n)
    BY <1>6, <1>7 DEF Alike, BounceDropped, BounceOwed, Waits
  <1>10. /\ Fine(m, n, {}, {}) /\ Tidy(m, n, {})
         /\ ~n.told /\ ~n.dropped => n.refcount >= One(n.bounces > 0)
         /\ n.toDefer = {} /\ n.toBounce = {} /\ ~n.hooked
    BY <1>1, <1>2, <1>9, Handed
  <1>11. /\ q \in MailType /\ Alike(p, q) /\ q.refcount = p.refcount - 1
         /\ q.bounces = p.bounces /\ q.dropped = p.dropped
         /\ q.at \in {p.at, "none"} /\ (p.refcount # 1 => q.disk = p.disk)
    BY <1>4, DiscardEffect
  <1>12. q.at \notin InHand
    BY <1>3, <1>11 DEF InHand
  <1>13. SplitOver(g, o, n, q)
    <2>. HIDE DEF m, q
    <2>. QED  BY <1>1, <1>3, <1>4, <1>8, <1>10, <1>11, <1>12 DEF m, SplitOver
  <1>. QED  BY <1>13

(* The old mail had a reference for the split, so what it still owes stays in its file. *)
LEMMA SplitReadyStep ==
  ASSUME QueueInv, NEW g \in Mail, SplitReady(g)
  PROVE  /\ QueueInv'
         /\ \E S \in SUBSET Rcpt : /\ GivenUp' = GivenUp \cup S
                                   /\ ~crashed => \A r \in S : Fresh(r)
  <1>. USE DEF QueueInv, TypeOK
  <1>1. PICK o, n, q : SplitOver(g, o, n, q)
    BY SplitReadyEffect
  <1>. DEFINE m == mail[g]
              p == mail[o]
  <1>2. UNCHANGED <<nullSender, deliveries, reply, used, history, mishaps, crashed, splitFailed>>
    BY DEF SplitReady, transaction
  <1>3. /\ o \in Mail /\ o <= used /\ g <= used /\ o # g /\ Underway
        /\ m \in MailType /\ WellKept(m) /\ m.at = "split" /\ m.origin = o
        /\ p \in MailType /\ WellKept(p) /\ p.at \notin InHand
        /\ \A h \in Mail : mail'[h] = IF h = g THEN n ELSE IF h = o THEN q ELSE mail[h]
    BY <1>1 DEF SplitOver
  <1>4. /\ Fine(m, n, {}, {}) /\ Tidy(m, n, {})
        /\ ~n.told /\ ~n.dropped => n.refcount >= One(n.bounces > 0)
        /\ n.toDefer = {} /\ n.toBounce = {} /\ ~n.hooked
    BY <1>1 DEF SplitOver
  <1>5. /\ q \in MailType /\ Alike(p, q) /\ q.refcount = p.refcount - 1
        /\ q.bounces = p.bounces /\ q.dropped = p.dropped
        /\ q.at \notin InHand /\ (p.refcount # 1 => q.disk = p.disk)
    BY <1>1 DEF SplitOver
  <1>6. "split" \in InHand
    BY DEF InHand, Places
  <1>7. WellKept(q) /\ Open(q) = Open(p) /\ Owed(q) = Owed(p) /\ (Decided(q) <=> Decided(p))
    BY <1>3, <1>5 DEF WellKept, Alike, Open, Owed, Decided
  <1>8. TypeOK'
    <2>1. mail' \in [Mail -> MailType]
      <3>1. mail' = [h \in Mail |-> IF h = g THEN n ELSE IF h = o THEN q ELSE mail[h]]
        BY <1>1 DEF SplitOver
      <3>. QED  BY <1>4, <1>5, <3>1 DEF Fine
    <2>. QED  BY <1>2, <2>1
  <1>9. MailsKept'
    BY <1>3, <1>4, <1>7 DEF MailsKept, Fine
  <1>10. \A h, e \in Mail, c \in {"deferred", "refused"} :
           Split(h, e, c)' <=> h # g /\ Split(h, e, c)
    <2>1. n.at # "split" /\ q.at # "split" /\ p.at # "split"
      BY <1>3, <1>4, <1>5, <1>6 DEF Fine
    <2>. QED  BY <1>3, <2>1 DEF Split
  <1>11. SplitsInv'
    <2>1. ASSUME NEW h \in Mail, mail'[h].at = "split"
          PROVE  /\ mail'[h].origin \in Mail /\ mail'[h].origin <= used'
                 /\ mail'[h].cause \in {"deferred", "refused"}
                 /\ mail'[mail'[h].origin].at \notin InHand
                 /\ mail'[h].cause = "deferred" => mail'[mail'[h].origin].toDefer = {}
                 /\ mail'[h].cause = "refused" => mail'[mail'[h].origin].toBounce = {}
      <3>1. mail'[h] = mail[h] /\ h # g /\ h # o
        BY <1>3, <1>4, <1>5, <1>6, <2>1 DEF Fine
      <3>2. PICK e : e = mail[h].origin
        OBVIOUS
      <3>3. /\ e \in Mail /\ e <= used /\ mail[h].cause \in {"deferred", "refused"}
            /\ mail[e].at \notin InHand
            /\ mail[h].cause = "deferred" => mail[e].toDefer = {}
            /\ mail[h].cause = "refused" => mail[e].toBounce = {}
        BY <2>1, <3>1, <3>2 DEF SplitsInv
      <3>4. mail'[e] = IF e = o THEN q ELSE mail[e]
        BY <1>3, <1>6, <3>3
      <3>5. /\ mail'[e].at \notin InHand
            /\ mail[h].cause = "deferred" => mail'[e].toDefer = {}
            /\ mail[h].cause = "refused" => mail'[e].toBounce = {}
        BY <1>5, <3>3, <3>4 DEF Alike
      <3>. QED  BY <1>2, <3>1, <3>2, <3>3, <3>5
    <2>2. \A h, i, e \in Mail, c \in {"deferred", "refused"} :
            Split(h, e, c)' /\ Split(i, e, c)' => h = i
      BY <1>10 DEF SplitsInv
    <2>. QED  BY <2>1, <2>2 DEF SplitsInv
  <1>12. PICK c \in {"deferred", "refused"} : Split(g, o, c) /\ m.cause = c
    BY <1>3 DEF SplitsInv, Split
  <1>13. /\ \A h \in Mail : ~Split(h, o, c)'
         /\ \A h \in Mail, d \in {"deferred", "refused"} :
              d # c => (Split(h, o, d)' <=> Split(h, o, d))
         /\ c = "deferred" => p.toDefer = {}
         /\ c = "refused" => p.toBounce = {}
    <2>1. \A h \in Mail : ~Split(h, o, c)'
      BY <1>3, <1>10, <1>12 DEF SplitsInv
    <2>2. \A d : d # c => ~Split(g, o, d)
      BY <1>12 DEF Split
    <2>3. (c = "deferred" => p.toDefer = {}) /\ (c = "refused" => p.toBounce = {})
      BY <1>3, <1>12 DEF SplitsInv
    <2>. QED  BY <1>3, <1>10, <2>1, <2>2, <2>3
  <1>14. ~Decided(p) =>
           /\ p.refcount \in Int
           /\ p.refcount >= 1 + One(p.hooked) + One(Deferring(o)') + One(Refusing(o)')
                              + One(p.bounces > 0)
    <2>. SUFFICES ASSUME ~Decided(p)
                  PROVE  p.refcount >= 1 + One(p.hooked) + One(Deferring(o)') + One(Refusing(o)')
                                         + One(p.bounces > 0)
      BY <1>3, Numbers
    <2>1. p.refcount >= One(p.hooked) + One(Deferring(o)) + One(Refusing(o)) + One(p.bounces > 0)
      BY <1>3 DEF Referenced, Decided
    <2>2. mail'[o] = q /\ q.toDefer = p.toDefer /\ q.toBounce = p.toBounce
      BY <1>3, <1>5 DEF Alike
    <2>3. CASE c = "deferred"
      <3>1. Deferring(o) /\ ~Deferring(o)'
        BY <1>3, <1>12, <1>13, <2>2, <2>3 DEF Deferring
      <3>2. Refusing(o)' <=> Refusing(o)
        BY <1>3, <1>13, <2>2, <2>3 DEF Refusing
      <3>. QED  BY <2>1, <3>1, <3>2 DEF One
    <2>4. CASE c = "refused"
      <3>1. Refusing(o) /\ ~Refusing(o)'
        BY <1>3, <1>12, <1>13, <2>2, <2>4 DEF Refusing
      <3>2. Deferring(o)' <=> Deferring(o)
        BY <1>3, <1>13, <2>2, <2>4 DEF Deferring
      <3>. QED  BY <2>1, <3>1, <3>2 DEF One
    <2>. QED  BY <2>3, <2>4
  <1>15. Referenced'
    <2>. SUFFICES ASSUME NEW h \in Mail, ~mail'[h].told, ~mail'[h].dropped
                  PROVE  mail'[h].refcount >= One(mail'[h].hooked) + One(Deferring(h)')
                                                + One(Refusing(h)') + One(mail'[h].bounces > 0)
      BY DEF Referenced
    <2>1. CASE h = g
      <3>1. \A i \in Mail, d \in {"deferred", "refused"} : ~Split(i, g, d)
        BY <1>3, <1>6, NoSplits
      <3>2. ~Deferring(h)' /\ ~Refusing(h)'
        BY <1>3, <1>4, <1>10, <2>1, <3>1 DEF Deferring, Refusing
      <3>3. mail'[h] = n /\ n \in MailType
        BY <1>3, <1>4, <2>1 DEF Fine
      <3>. QED  BY <1>4, <3>2, <3>3, Numbers DEF One
    <2>2. CASE h = o
      <3>1. mail'[h] = q /\ ~Decided(p)
        BY <1>3, <1>7, <2>2 DEF Decided
      <3>2. q.hooked = p.hooked /\ q.bounces = p.bounces /\ q.refcount = p.refcount - 1
        BY <1>5 DEF Alike
      <3>. QED  BY <1>14, <2>2, <3>1, <3>2 DEF One
    <2>3. CASE h # g /\ h # o
      <3>1. mail'[h] = mail[h]
        BY <1>3, <2>3
      <3>2. (Deferring(h)' <=> Deferring(h)) /\ (Refusing(h)' <=> Refusing(h))
        <4>1. \A d : ~Split(g, h, d)
          BY <1>3, <2>3 DEF Split
        <4>. QED  BY <1>10, <3>1, <4>1 DEF Deferring, Refusing
      <3>. QED  BY <3>1, <3>2 DEF Referenced, One
    <2>. QED  BY <2>1, <2>2, <2>3
  <1>16. Unwritten'
    <2>1. \A h \in Mail : h > used => h # g /\ h # o
      BY <1>3 DEF Mail
    <2>. QED  BY <1>2, <1>3, <2>1 DEF Unwritten
  <1>17. Writing'
    BY <1>2, <1>3 DEF Writing, Underway
  <1>18. /\ \A h \in Mail : Open(mail'[h]) \subseteq Open(mail[h])
         /\ \A h \in Mail : Owed(mail'[h]) \subseteq Owed(mail[h])
         /\ \A h \in Mail : Open(mail[h]) \subseteq Rcpt /\ Owed(mail[h]) \subseteq Rcpt
    <2>1. Open(n) \subseteq Open(m) /\ Owed(n) \subseteq Owed(m)
      BY <1>4 DEF Fine, Tidy
    <2>2. \A h \in Mail : Open(mail[h]) \subseteq Rcpt /\ Owed(mail[h]) \subseteq Rcpt
      BY DEF MailType, Open, Owed
    <2>. QED  BY <1>3, <1>7, <2>1, <2>2
  <1>. DEFINE S == IF Decided(n) THEN m.rcpts ELSE {}
  <1>19. GivenUp' = GivenUp \cup S
    <2>1. GivenUp' = {r \in Rcpt : \E h \in Mail : r \in mail'[h].rcpts /\ Decided(mail'[h])}
      BY DEF GivenUp, Decided
    <2>2. n.rcpts = m.rcpts /\ (Decided(m) => Decided(n)) /\ m.rcpts \subseteq Rcpt
      BY <1>3, <1>4 DEF Fine, Decided, MailType
    <2>3. q.rcpts = p.rcpts /\ (Decided(q) <=> Decided(p))
      BY <1>5, <1>7 DEF Alike
    <2>4. \A r \in Rcpt : (\E h \in Mail : r \in mail'[h].rcpts /\ Decided(mail'[h]))
            <=> (\E h \in Mail : r \in mail[h].rcpts /\ Decided(mail[h])) \/ r \in S
      BY <1>3, <2>2, <2>3
    <2>. QED  BY <2>1, <2>2, <2>4, GivenUpIs
  <1>20. S \subseteq Open(m) /\ S \in SUBSET Rcpt
    BY <1>3, <1>6 DEF Open, MailType
  <1>21. Exclusive'
    BY <1>2, <1>18 DEF Fresh, Exclusive
  <1>22. Undecided'
    <2>. SUFFICES ASSUME ~crashed, ~splitFailed PROVE Undecided'
      BY <1>2 DEF Undecided
    <2>1. /\ \A h, i \in Mail : h # i => Owed(mail[h]) \cap Owed(mail[i]) = {}
          /\ \A h \in Mail : \A r \in Owed(mail[h]) : Fresh(r) /\ r \notin GivenUp
          /\ \A h \in Mail : mail[h].bounces > 0 =>
               mail[h].bounces = 1 /\ mail[h].toDefer = {} /\ mail[h].toBounce = {}
      BY DEF Undecided
    <2>2. \A h, i \in Mail : h # i => Owed(mail'[h]) \cap Owed(mail'[i]) = {}
      BY <1>18, <2>1
    <2>3. \A h \in Mail : \A r \in Owed(mail'[h]) : r \notin S
      <3>1. CASE Decided(n) => Decided(m)
        <4>1. S \subseteq GivenUp
          BY <1>3, <3>1 DEF GivenUp, Decided, MailType
        <4>. QED  BY <1>18, <2>1, <4>1
      <3>2. CASE Owed(n) = {} /\ m.rcpts \subseteq Owed(m)
        <4>. SUFFICES ASSUME NEW h \in Mail, NEW r \in Owed(mail'[h]) PROVE r \notin S
          OBVIOUS
        <4>1. h # g
          BY <1>3, <3>2
        <4>. QED  BY <1>18, <2>1, <3>2, <4>1
      <3>. QED  BY <1>4, <3>1, <3>2 DEF Tidy
    <2>4. \A h \in Mail : \A r \in Owed(mail'[h]) : Fresh(r)' /\ r \notin GivenUp'
      BY <1>2, <1>18, <1>19, <2>1, <2>3 DEF Fresh
    <2>5. \A h \in Mail : mail'[h].bounces > 0 =>
            mail'[h].bounces = 1 /\ mail'[h].toDefer = {} /\ mail'[h].toBounce = {}
      BY <1>3, <1>4, <1>5, <2>1 DEF Tidy, Alike
    <2>. QED  BY <2>2, <2>4, <2>5 DEF Undecided
  <1>23. Covered'
    <2>. SUFFICES ASSUME reply = "ok", NEW i \in DOMAIN deliveries, NEW r \in deliveries[i]
                  PROVE  Over(r)' \/ \E h \in Mail : mail'[h].disk = "file" /\ r \in Owed(mail'[h])
      BY <1>2 DEF Covered
    <2>1. Over(r) => Over(r)'
      BY <1>2, <1>19 DEF Over, Resolved
    <2>2. ASSUME NEW h \in Mail, mail[h].disk = "file", r \in Owed(mail[h])
          PROVE  Over(r)' \/ (mail'[h].disk = "file" /\ r \in Owed(mail'[h]))
      <3>1. r \in mail[h].rcpts /\ r \in Rcpt
        BY <2>2 DEF Owed, Open, MailsKept, WellKept, MailType
      <3>2. CASE h = g
        <4>1. Decided(n) \/ (n.disk = "file" /\ r \in Owed(n))
          BY <1>4, <2>2, <3>2 DEF Fine
        <4>2. Decided(n) => r \in GivenUp'
          BY <1>19, <3>1, <3>2
        <4>. QED  BY <1>3, <3>2, <4>1, <4>2 DEF Over, Resolved
      <3>3. CASE h = o
        <4>1. CASE Decided(p)
          <5>1. r \in GivenUp
            BY <3>1, <3>3, <4>1 DEF GivenUp, Decided
          <5>. QED  BY <1>19, <5>1 DEF Over, Resolved
        <4>2. CASE ~Decided(p)
          <5>1. p.toDefer # {} \/ p.toBounce # {} \/ p.bounces > 0
            BY <1>3, <2>2, <3>3 DEF Owed, Open
          <5>2. Deferring(o)' \/ Refusing(o)' \/ p.bounces > 0
            BY <1>3, <1>5, <5>1 DEF Deferring, Refusing, Alike
          <5>3. p.refcount # 1
            BY <1>14, <4>2, <5>2 DEF One
          <5>. QED  BY <1>3, <1>5, <1>7, <2>2, <3>3, <5>3
        <4>. QED  BY <4>1, <4>2
      <3>4. CASE h # g /\ h # o
        BY <1>3, <2>2, <3>4
      <3>. QED  BY <3>2, <3>3, <3>4
    <2>. QED  BY <2>1, <2>2 DEF Covered
  <1>24. ~crashed => \A r \in S : Fresh(r)
    BY <1>20 DEF Exclusive
  <1>25. QueueInv'
    BY <1>8, <1>9, <1>11, <1>15, <1>16, <1>17, <1>21, <1>22, <1>23
  <1>. HIDE DEF S
  <1>. QED  BY <1>19, <1>20, <1>24, <1>25
-----------------------------------------------------------------------------
(* What the steps are to one who only knows the promise.                      *)
LEMMA LocalPromise ==
  ASSUME QueueInv, NEW f \in Mail, NEW n, NEW ok \in SUBSET Rcpt, NEW lost,
         Local(f, n, ok, lost), ok = {} \/ splitFailed' = splitFailed
  PROVE  Promise!Next
  <1>. USE DEF QueueInv, TypeOK
  <1>. DEFINE m == mail[f]
              S == IF Decided(n) /\ ~Decided(m) THEN m.rcpts ELSE {}
  <1>1. m \in MailType /\ Fine(m, n, ok, lost) /\ Underway /\ n.rcpts = m.rcpts
        /\ \A g \in Mail : mail'[g] = IF g = f THEN n ELSE mail[g]
    BY DEF Local, Fine
  <1>2. S \in SUBSET Rcpt /\ GivenUp' = GivenUp \cup S
    <2>1. GivenUp' = {r \in Rcpt : \E g \in Mail : r \in mail'[g].rcpts /\ Decided(mail'[g])}
      BY DEF GivenUp, Decided
    <2>2. (Decided(m) => Decided(n)) /\ m.rcpts \subseteq Rcpt
      BY <1>1 DEF Fine, Decided, MailType
    <2>. QED  BY <1>1, <2>1, <2>2, GivenUpIs
  <1>3. UNCHANGED <<reply, crashed, unnoticed>> /\ splitFailed' \in {splitFailed, TRUE}
        /\ delivered' = [r \in Rcpt |-> IF r \in ok THEN delivered[r] + 1 ELSE delivered[r]]
    BY DEF Local
  <1>4. CASE ok # {}
    <2>1. GivenUp' = GivenUp
      BY <1>1, <1>2, <1>4 DEF Fine
    <2>2. ok \subseteq Open(m) /\ ok \subseteq Owed(m)
      BY <1>1 DEF Fine, Owed
    <2>3. /\ \A r \in ok : delivered[r] = 0 \/ crashed \/ r \in unnoticed
          /\ \A r \in ok : r \notin GivenUp \/ crashed \/ splitFailed
      BY <2>2 DEF Exclusive, Undecided, Fresh
    <2>4. Promise!Serve(ok)
      BY <1>1, <1>3, <1>4, <2>1, <2>3 DEF Promise!Serve, Promise!Underway, Underway
    <2>. QED  BY <2>4 DEF Promise!Next
  <1>5. CASE ok = {}
    <2>1. ASSUME ~crashed, ~splitFailed', NEW r \in S PROVE Fresh(r)
      <3>1. Tidy(m, n, ok) /\ ~splitFailed
        BY <2>1 DEF Local
      <3>2. m.rcpts \subseteq Owed(m)
        BY <2>1, <3>1 DEF Tidy
      <3>. QED  BY <2>1, <3>1, <3>2 DEF Undecided
    <2>2. \A r \in S : delivered[r] = 0 \/ crashed \/ splitFailed' \/ r \in unnoticed
      BY <2>1 DEF Fresh
    <2>3. delivered' = delivered
      BY <1>3, <1>5
    <2>. HIDE DEF S
    <2>4. Promise!GiveUp(S)
      BY <1>1, <1>2, <1>3, <2>2, <2>3 DEF Promise!GiveUp, Promise!Underway, Underway
    <2>. QED  BY <1>2, <2>4 DEF Promise!Next
  <1>. QED  BY <1>4, <1>5

(* Every step keeps the invariant, and is a step of the promise or none.     *)
LEMMA NextStep ==
  ASSUME QueueInv, Next
  PROVE  QueueInv' /\ (Promise!Next \/ UNCHANGED Promise!vars)
  <1>1. CASE ProcessDelivery
    <2>1. QueueInv' /\ GivenUp' = GivenUp
      BY <1>1, ProcessDeliveryStep
    <2>2. reply = "none" /\ reply' \in {"none", "ok"}
          /\ UNCHANGED <<history, crashed, splitFailed>>
      BY <1>1 DEF ProcessDelivery
    <2>. QED  BY <2>1, <2>2 DEF Promise!Next, Promise!Answer, Promise!vars
  <1>2. CASE RefuseDelivery
    <2>1. QueueInv' /\ GivenUp' = GivenUp
      BY <1>2, RefuseDeliveryStep
    <2>2. reply = "none" /\ reply' = "refused" /\ UNCHANGED <<history, crashed, splitFailed>>
      BY <1>2 DEF RefuseDelivery
    <2>. QED  BY <2>1, <2>2 DEF Promise!Next, Promise!Answer
  <1>3. CASE Restart
    <2>1. QueueInv' /\ GivenUp' = GivenUp
      BY <1>3, RestartStep
    <2>2. crashed' = TRUE /\ reply' = (IF reply = "none" THEN "lost" ELSE reply)
          /\ UNCHANGED <<history, splitFailed>>
      BY <1>3 DEF Restart
    <2>. QED  BY <2>1, <2>2 DEF Promise!Next, Promise!Crash
  <1>4. ASSUME NEW f \in Mail, NEW cause \in {"deferred", "refused"}, SplitWritten(f, cause)
        PROVE  QueueInv' /\ (Promise!Next \/ UNCHANGED Promise!vars)
    <2>1. QueueInv' /\ GivenUp' = GivenUp
      BY <1>4, SplitWrittenStep
    <2>2. UNCHANGED <<reply, history, crashed, splitFailed>>
      BY <1>4 DEF SplitWritten
    <2>. QED  BY <2>1, <2>2 DEF Promise!vars
  <1>5. ASSUME NEW g \in Mail, SplitReady(g)
        PROVE  QueueInv' /\ Promise!Next
    <2>1. PICK S \in SUBSET Rcpt : /\ GivenUp' = GivenUp \cup S
                                   /\ ~crashed => \A r \in S : Fresh(r)
      BY <1>5, SplitReadyStep
    <2>2. QueueInv'
      BY <1>5, SplitReadyStep
    <2>3. UNCHANGED <<reply, history, crashed, splitFailed>>
      BY <1>5 DEF SplitReady
    <2>4. Underway
      BY <1>5, AtWork DEF SplitReady
    <2>5. Promise!GiveUp(S)
      BY <2>1, <2>3, <2>4 DEF Promise!GiveUp, Promise!Underway, Underway, Fresh
    <2>. QED  BY <2>2, <2>5 DEF Promise!Next
  <1>6. ASSUME NEW f \in Mail, NEW n, Local(f, n, {}, {}) PROVE QueueInv' /\ Promise!Next
    BY <1>6, LocalStep, LocalPromise
  <1>7. ASSUME NEW f \in Mail, Attempted(f) PROVE QueueInv' /\ Promise!Next
    <2>1. PICK got \in SUBSET Rcpt : \E n, lost : Local(f, n, got, lost)
      BY <1>7, AttemptedLocal
    <2>2. PICK n, lost : Local(f, n, got, lost)
      BY <2>1
    <2>3. splitFailed' = splitFailed
      BY <1>7 DEF Attempted
    <2>. QED  BY <2>2, <2>3, LocalStep, LocalPromise
  <1>8. ASSUME NEW f \in Mail,
               \/ Load(f) \/ TimerFires(f) \/ Send(f) \/ DeliveredRespond(f) \/ Renamed(f)
               \/ BounceQueued(f) \/ SendDelayed(f) \/ SplitFails(f) \/ RenameFails(f)
               \/ BounceFails(f) \/ SendBlocked(f)
        PROVE  QueueInv' /\ Promise!Next
    <2>1. \E n : Local(f, n, {}, {})
      BY <1>8, LoadLocal, TimerLocal, SendLocal, DeliveredRespondLocal, RenamedLocal,
         BounceQueuedLocal, SendDelayedLocal, SplitFailsLocal, RenameFailsLocal, BounceFailsLocal,
         SendBlockedLocal
    <2>. QED  BY <1>6, <2>1
  <1>9. ASSUME NEW f \in Mail, Taken(f) PROVE QueueInv' /\ Promise!Next
    BY <1>9, TakenStep
  <1>. QED  BY <1>1, <1>2, <1>3, <1>4, <1>5, <1>7, <1>8, <1>9 DEF Next, Progress

(* A step that changes nothing.                                              *)
LEMMA Stutter ==
  ASSUME QueueInv, UNCHANGED vars
  PROVE  QueueInv' /\ UNCHANGED Promise!vars
  <1>1. UNCHANGED <<nullSender, deliveries, reply, used, mail, history, mishaps, crashed, splitFailed>>
    BY DEF vars, transaction
  <1>2. TypeOK' /\ MailsKept' /\ Unwritten' /\ Writing'
    BY <1>1 DEF QueueInv, TypeOK, MailsKept, Unwritten, Writing, Underway
  <1>3. SplitsInv' /\ Referenced'
    BY <1>1 DEF QueueInv, SplitsInv, Referenced, Split, Deferring, Refusing
  <1>4. GivenUp' = GivenUp
    BY <1>1 DEF GivenUp
  <1>5. Exclusive' /\ Undecided' /\ Covered'
    BY <1>1, <1>4 DEF QueueInv, Exclusive, Undecided, Covered, Over, Resolved, Fresh
  <1>. QED  BY <1>1, <1>2, <1>3, <1>4, <1>5 DEF QueueInv, Promise!vars

(* The first state.                                                          *)
LEMMA Start == Init => QueueInv /\ Promise!Init
  <1>. SUFFICES ASSUME Init PROVE QueueInv /\ Promise!Init
    OBVIOUS
  <1>1. /\ deliveries \in DeliveryLists /\ {nullSender, crashed, splitFailed, bounceFailed} \subseteq BOOLEAN
        /\ unnoticed = {} /\ unserved = {}
        /\ reply = "none" /\ used = 0 /\ mail = [f \in Mail |-> Blank]
        /\ delivered = [r \in Rcpt |-> 0] /\ mishaps = 0 /\ crashed = FALSE /\ splitFailed = FALSE
    BY DEF Init
  <1>2. TypeOK
    BY <1>1, BlankFields, NumbersTyped DEF TypeOK
  <1>3. \A f \in Mail : mail[f] = Blank /\ f > used
    BY <1>1 DEF Mail
  <1>4. MailsKept /\ SplitsInv /\ Referenced
    <2>1. \A f \in Mail : mail[f].at # "split"
      BY <1>3, BlankFields
    <2>2. \A f \in Mail : ~Deferring(f) /\ ~Refusing(f)
      BY <1>3, <2>1, BlankFields DEF Deferring, Refusing, Split
    <2>3. Referenced
      BY <1>3, <2>2, BlankFields DEF Referenced, One
    <2>. QED  BY <1>3, <2>1, <2>3, BlankKept DEF MailsKept, SplitsInv, Split
  <1>5. Unwritten /\ Writing
    <2>1. used < Len(deliveries)
      BY <1>1, DeliveriesTyped
    <2>2. \A f \in Mail : ~(f <= used)
      BY <1>1 DEF Mail
    <2>. QED  BY <1>1, <1>3, <2>1, <2>2, BlankFields DEF Unwritten, Writing
  <1>6. GivenUp = {}
    BY <1>3, BlankKept, GivenUpIs
  <1>7. Exclusive /\ Undecided /\ Covered
    <2>1. \A f \in Mail : ~(mail[f].bounces > 0)
      BY <1>3, BlankFields
    <2>. QED  BY <1>1, <1>3, <2>1, BlankKept DEF Exclusive, Undecided, Covered, Fresh
  <1>. QED  BY <1>1, <1>2, <1>4, <1>5, <1>6, <1>7 DEF QueueInv, Promise!Init
-----------------------------------------------------------------------------
(* The inductive invariant, and with it the types.                            *)
THEOREM QueueInvariant == Spec => []QueueInv
  <1>1. Init => QueueInv
    BY Start
  <1>2. QueueInv /\ [Next]_vars => QueueInv'
    BY NextStep, Stutter
  <1>. QED  BY <1>1, <1>2, PTL DEF Spec

(* The variables keep their types.                                           *)
THEOREM QueueTyped == Spec => []TypeOK
  <1>1. QueueInv => TypeOK
    BY DEF QueueInv
  <1>. QED  BY <1>1, QueueInvariant, PTL

(* Once "Message Queued" was answered, every recipient has his fate or is in  *)
(* a file that a crash leaves, except whom an exchange let go unserved: a     *)
(* file with nobody left to serve may go, one somebody is owed may not.       *)
THEOREM NobodyEverLost == Spec => []NobodyLost
  <1>1. QueueInv => NobodyLost
    <2>. SUFFICES ASSUME QueueInv, reply = "ok", NEW i \in DOMAIN deliveries,
                         NEW r \in deliveries[i]
                  PROVE  \/ Resolved(r) \/ r \in unserved
                         \/ \E f \in Mail : mail[f].disk = "file" /\ r \in mail[f].rcpts
      BY DEF NobodyLost
    <2>1. Over(r) \/ \E f \in Mail : mail[f].disk = "file" /\ r \in Owed(mail[f])
      BY DEF QueueInv, Covered
    <2>2. \A f \in Mail : Owed(mail[f]) \subseteq mail[f].rcpts
      BY DEF QueueInv, MailsKept, WellKept, Owed, Open
    <2>. QED  BY <2>1, <2>2 DEF Over
  <1>. QED  BY <1>1, QueueInvariant, PTL

(* The queue implements MailPromise: nothing goes out before the answer or    *)
(* after a refusal; without a crash nobody is served twice but for whom a     *)
(* server took it unnoticed, and nobody else is both served and given up      *)
(* unless splitting failed.                                                   *)
THEOREM QueueKeepsPromise == Spec => PromiseKept
  <1>1. Init => Promise!Init
    BY Start
  <1>2. QueueInv /\ [Next]_vars => [Promise!Next]_Promise!vars
    BY NextStep, Stutter
  <1>. QED  BY <1>1, <1>2, QueueInvariant, PTL DEF Spec, PromiseKept, Promise!Spec
-----------------------------------------------------------------------------
(* The slots of the delivery queue: a task calls back exactly once.           *)

(* A mail no call is left for, and one that is done with its slot given back, *)
(* while a reference is left: a call that drops it would call back again.     *)
Idle(m)  == ~m.hooked /\ m.toDefer = {} /\ m.toBounce = {} /\ m.bounces = 0
Twice(m) == m.slot = "freed" /\ m.at = "none" /\ m.refcount > 0

(* Where a slot may be held.                                                  *)
SlotPlaced(m) ==
  /\ m.slot = "held" => m.at \in {"sending", "blocked", "renaming", "ending"}
  /\ m.at \in {"sending", "blocked"} => m.slot = "held"
  /\ m.at \in {"held", "split"} => m.slot = "none"

(* A slot was given back once, when the mail waits again or is done; and what *)
(* is done has no call left, or no reference for one to drop.                 *)
SlotDone(m) ==
  /\ m.slot # "freed twice"
  /\ m.slot = "freed" => m.at \in {"queue", "timer", "none"}
  /\ Twice(m) => Idle(m)

(* Nobody ends a mail that has calls left: that is done after an error while  *)
(* splitting only, if the mail has no sender or a bounce message failed.      *)
Clean == ~(splitFailed /\ (nullSender \/ bounceFailed))

(* Without such an error the bounce of a mail is the one call left for it, so *)
(* that it may be ended there and then if the message cannot be queued.       *)
Alone(m) ==
  m.bounces > 0 => /\ m.bounces = 1 /\ m.at = "ending" /\ ~m.hooked
                   /\ m.toDefer = {} /\ m.toBounce = {}

Unsplit(f) == \A g \in Mail : ~(mail[g].at = "split" /\ mail[g].origin = f)

SlotInv ==
  /\ \A f \in Mail : SlotPlaced(mail[f])
  /\ Clean => \A f \in Mail : SlotDone(mail[f])
  /\ Clean => \A f \in Mail : Unsplit(f) \/ ~Twice(mail[f])
  /\ ~splitFailed => \A f \in Mail : Alone(mail[f]) /\ (mail[f].bounces > 0 => Unsplit(f))

(* What next_cb makes of a slot.                                              *)
CalledBack(slot) == IF slot = "held" THEN "freed" ELSE IF slot = "freed" THEN "freed twice" ELSE slot

(* The three ways a call ends with a mail: it drops a reference, ends a mail  *)
(* that has no sender to be told, or owes the sender a message.               *)
Discarded(m, n) ==
  /\ n.refcount = m.refcount - 1
  /\ n.slot = IF m.refcount = 1 THEN CalledBack(m.slot) ELSE m.slot
  /\ n.at = IF m.refcount = 1 THEN "none" ELSE m.at

Vanished(m, n) ==
  /\ nullSender /\ Alike(m, n) /\ n.bounces = m.bounces
  /\ n.refcount = m.refcount /\ n.slot = CalledBack(m.slot) /\ n.at = "none"

Owing(m, n) ==
  /\ ~nullSender /\ n.refcount = m.refcount /\ n.slot = m.slot
  /\ n.at = IF m.at = "none" THEN "none" ELSE "ending"

LEMMA NextCbSlot ==
  ASSUME NEW m \in MailType
  PROVE  NextCb(m).slot = CalledBack(m.slot)
  BY DEF NextCb, CalledBack, MailType

LEMMA GoneSlot ==
  ASSUME NEW m \in MailType
  PROVE  Gone(m).slot = CalledBack(m.slot)
  <1>. DEFINE n == [m EXCEPT !.disk = "unlinking", !.at = "none", !.failures = 0]
  <1>1. 0 \in 0..(MaxFailures + 1) /\ "none" \in Places
    BY NumbersTyped DEF Places
  <1>2. n \in MailType
    <2>1. [m EXCEPT !.disk = "unlinking"] \in MailType
      BY Counted
    <2>2. [m EXCEPT !.disk = "unlinking", !.at = "none"] \in MailType
      BY <1>1, <2>1, Counted
    <2>. QED  BY <1>1, <2>2, Counted
  <1>3. n.slot = m.slot
    BY DEF MailType
  <1>4. Gone(m) = NextCb(n)
    BY DEF Gone
  <1>. HIDE DEF n
  <1>. QED  BY <1>2, <1>3, <1>4, NextCbSlot

LEMMA DiscardSlot ==
  ASSUME NEW m \in MailType
  PROVE  Discarded(m, Discard(m))
  <1>. DEFINE n == [m EXCEPT !.refcount = @ - 1]
  <1>1. n \in MailType
    <2>1. m.refcount - 1 \in Int
      BY Numbers
    <2>. QED  BY <2>1, Counted
  <1>2. n.refcount = m.refcount - 1 /\ n.slot = m.slot /\ n.at = m.at
    BY DEF MailType
  <1>3. Discard(m) = IF n.refcount = 0 THEN Gone(n) ELSE n
    BY DEF Discard, Unreferenced
  <1>4. m.refcount \in Int
    BY Numbers
  <1>. HIDE DEF n
  <1>5. CASE n.refcount = 0
    BY <1>1, <1>2, <1>3, <1>4, <1>5, GoneEffect, GoneSlot DEF Discarded
  <1>6. CASE n.refcount # 0
    BY <1>2, <1>3, <1>4, <1>6 DEF Discarded
  <1>. QED  BY <1>5, <1>6

LEMMA BouncedSlot ==
  ASSUME NEW m \in MailType, NEW n \in Bounced(m)
  PROVE  Discarded(m, n) \/ Vanished(m, n) \/ Owing(m, n)
  <1>. DEFINE d == [m EXCEPT !.dropped = TRUE]
              b == [m EXCEPT !.bounces = @ + 1, !.at = IF @ = "none" THEN @ ELSE "ending"]
  <1>1. n = Discard(d) \/ (nullSender /\ n = Gone(d)) \/ (~nullSender /\ n = b)
    BY DEF Bounced, DoubleBounce
  <1>2. d \in MailType
    BY Counted
  <1>3. /\ Alike(m, d) /\ d.bounces = m.bounces /\ d.at = m.at
        /\ d.refcount = m.refcount /\ d.slot = m.slot
    BY DEF MailType, Alike
  <1>4. b.refcount = m.refcount /\ b.slot = m.slot /\ b.at = IF m.at = "none" THEN "none" ELSE "ending"
    BY DEF MailType
  <1>. HIDE DEF d, b
  <1>5. CASE n = Discard(d)
    BY <1>2, <1>3, <1>5, DiscardSlot DEF Discarded
  <1>6. CASE nullSender /\ n = Gone(d)
    BY <1>2, <1>3, <1>6, GoneEffect, GoneSlot DEF Alike, Vanished
  <1>7. CASE ~nullSender /\ n = b
    BY <1>4, <1>7 DEF Owing
  <1>. QED  BY <1>1, <1>5, <1>6, <1>7

LEMMA TempFailedSlot ==
  ASSUME NEW m \in MailType, m.failures <= MaxFailures, NEW n \in TempFailed(m)
  PROVE  \/ Discarded(m, n) \/ Vanished(m, n) \/ Owing(m, n)
         \/ n.slot = m.slot /\ n.at = "renaming"
  <1>. DEFINE k == [m EXCEPT !.failures = @ + 1]
              d == [k EXCEPT !.dropped = TRUE]
              w == [k EXCEPT !.at = "renaming"]
  <1>1. k \in MailType
    <2>1. m.failures + 1 \in 0..(MaxFailures + 1)
      BY Numbers
    <2>. QED  BY <2>1, Counted
  <1>2. /\ Alike(m, k) /\ k.at = m.at /\ k.refcount = m.refcount
        /\ k.bounces = m.bounces /\ k.slot = m.slot
    BY DEF MailType, Alike
  <1>3. n \in Bounced(k) \/ n = Discard(d) \/ n = w
    BY DEF TempFailed
  <1>. HIDE DEF k
  <1>4. d \in MailType
    BY <1>1, Counted
  <1>5. d.at = k.at /\ d.refcount = k.refcount /\ d.slot = k.slot
    BY <1>1 DEF MailType
  <1>6. w.slot = k.slot /\ w.at = "renaming"
    BY <1>1 DEF MailType
  <1>. HIDE DEF d, w
  <1>7. CASE n \in Bounced(k)
    BY <1>1, <1>2, <1>7, BouncedSlot DEF Discarded, Vanished, Owing, Alike
  <1>8. CASE n = Discard(d)
    BY <1>2, <1>4, <1>5, <1>8, DiscardSlot DEF Discarded
  <1>. QED  BY <1>2, <1>3, <1>6, <1>7, <1>8

(* A mail out of hand stays where its slot belongs, whatever call ends; the   *)
(* last two say that it calls back once.                                      *)
Callable(m) ==
  /\ m.at \notin InHand /\ m.slot # "freed twice"
  /\ m.slot = "freed" => m.at = "none"
  /\ ~Twice(m)

LEMMA CallPlaced ==
  ASSUME NEW m, NEW n, SlotPlaced(m), m.at \in Places,
         Discarded(m, n) \/ Vanished(m, n) \/ Owing(m, n)
  PROVE  SlotPlaced(n)
  BY DEF SlotPlaced, Discarded, Vanished, Owing, CalledBack, Places

LEMMA CallableDone ==
  ASSUME NEW m, Callable(m)
  PROVE  SlotDone(m)
  BY DEF Callable, SlotDone, Twice

LEMMA CallOnce ==
  ASSUME NEW m \in MailType, NEW n, SlotPlaced(m), Callable(m), Discarded(m, n) \/ Owing(m, n)
  PROVE  Callable(n)
  <1>1. m.refcount \in Int
    BY Numbers
  <1>2. "none" \notin InHand /\ "ending" \notin InHand
    BY DEF InHand
  <1>3. CASE Discarded(m, n)
    <2>1. CASE m.refcount = 1
      <3>1. m.slot # "freed"
        <4>1. m.refcount > 0
          BY <2>1
        <4>. QED  BY <4>1 DEF Callable, Twice
      <3>2. n.refcount = 0 /\ n.at = "none" /\ n.slot = CalledBack(m.slot)
        BY <1>3, <2>1 DEF Discarded
      <3>3. CalledBack(m.slot) # "freed twice"
        BY <3>1 DEF Callable, CalledBack
      <3>4. ~(n.refcount > 0)
        BY <3>2
      <3>. QED  BY <1>2, <3>2, <3>3, <3>4 DEF Callable, Twice
    <2>2. CASE m.refcount # 1
      <3>1. n.refcount = m.refcount - 1 /\ n.at = m.at /\ n.slot = m.slot
        BY <1>3, <2>2 DEF Discarded
      <3>2. n.refcount > 0 => m.refcount > 0
        BY <1>1, <3>1
      <3>. QED  BY <3>1, <3>2 DEF Callable, Twice
    <2>. QED  BY <2>1, <2>2
  <1>4. CASE Owing(m, n)
    BY <1>2, <1>4 DEF SlotPlaced, Callable, Owing, Twice
  <1>. QED  BY <1>3, <1>4

(* A mail in hand has no bounce under way, and gets one at most.              *)
LEMMA HandedAlone ==
  ASSUME NEW m \in MailType, NEW n, WellKept(m), m.at \in InHand, Alike(m, n),
         BounceDropped(m, n) \/ BounceOwed(m, n) \/ Waits(m, n)
  PROVE  Alone(n)
  <1>1. /\ m.bounces = 0 /\ ~m.hooked /\ m.toDefer = {} /\ m.toBounce = {} /\ m.at # "none"
    BY DEF WellKept, InHand
  <1>. QED  BY <1>1 DEF Alike, BounceDropped, BounceOwed, Waits, Alone

(* A mail in hand has one reference and its slot, or none: whatever ends it   *)
(* gives the slot back once, and leaves no call behind.                       *)
LEMMA HandedSlot ==
  ASSUME NEW m \in MailType, NEW n, WellKept(m), SlotPlaced(m), Alike(m, n),
         m.at \in {"sending", "renaming", "split"},
         \/ Discarded(m, n) \/ Vanished(m, n) \/ Owing(m, n)
         \/ n.slot = m.slot /\ n.at = "renaming"
  PROVE  /\ SlotPlaced(n)
         /\ m.slot \in {"none", "held"} => SlotDone(n)
  <1>1. /\ m.refcount = 1 /\ ~m.hooked /\ m.bounces = 0 /\ m.toDefer = {} /\ m.toBounce = {}
    BY DEF WellKept, InHand, Places
  <1>2. SlotPlaced(n)
    BY CallPlaced DEF SlotPlaced, Places
  <1>3. ASSUME m.slot \in {"none", "held"} PROVE SlotDone(n)
    <2>1. CASE Discarded(m, n)
      <3>1. n.refcount = 0 /\ n.at = "none" /\ n.slot = CalledBack(m.slot)
        BY <1>1, <2>1 DEF Discarded
      <3>2. CalledBack(m.slot) # "freed twice"
        BY <1>3 DEF CalledBack
      <3>3. ~(n.refcount > 0)
        BY <3>1
      <3>. QED  BY <3>1, <3>2, <3>3 DEF SlotDone, Twice
    <2>2. CASE Vanished(m, n)
      BY <1>1, <1>3, <2>2 DEF Vanished, SlotDone, CalledBack, Twice, Idle, Alike
    <2>3. CASE Owing(m, n) \/ (n.slot = m.slot /\ n.at = "renaming")
      BY <1>3, <2>3 DEF Owing, SlotDone, Twice
    <2>. QED  BY <2>1, <2>2, <2>3
  <1>. QED  BY <1>2, <1>3

(* While a call is left for a mail, or a split of it is under way, it has not *)
(* given its slot back with a reference left.                                 *)
LEMMA StillCallable ==
  ASSUME NEW m, SlotPlaced(m), SlotDone(m), m.at \notin InHand, ~Idle(m) \/ ~Twice(m)
  PROVE  Callable(m)
  BY DEF SlotDone, Callable, InHand, Places

(* One mail changes that is not a fresh split, before or after.               *)
SlotStep(f, n) ==
  /\ mail' = [mail EXCEPT ![f] = n]
  /\ mail[f].at # "split" /\ n.at # "split"
  /\ nullSender' = nullSender /\ (splitFailed => splitFailed')
  /\ (bounceFailed => bounceFailed')
  /\ SlotPlaced(n)
  /\ Clean' => SlotDone(n)
  /\ Clean' => Unsplit(f) \/ ~Twice(n)
  /\ ~splitFailed' => Alone(n) /\ (n.bounces > 0 => Unsplit(f))

(* A mail in hand has no split, and so has one that only waits for a bounce.  *)
LEMMA UnsplitInHand ==
  ASSUME QueueInv, NEW f \in Mail, mail[f].at \in InHand
  PROVE  Unsplit(f)
  BY DEF QueueInv, SplitsInv, Unsplit

LEMMA SlotStepKeeps ==
  ASSUME QueueInv, SlotInv, NEW f \in Mail, NEW n, SlotStep(f, n)
  PROVE  SlotInv'
  <1>1. mail \in [Mail -> MailType]
    BY DEF QueueInv, TypeOK
  <1>2. \A g \in Mail : mail'[g] = IF g = f THEN n ELSE mail[g]
    BY <1>1 DEF SlotStep
  <1>3. Clean' => Clean
    BY DEF SlotStep, Clean
  <1>4. \A g \in Mail : SlotPlaced(mail'[g])
    BY <1>2 DEF SlotStep, SlotInv
  <1>5. ASSUME Clean' PROVE \A g \in Mail : SlotDone(mail'[g])
    BY <1>2, <1>3, <1>5 DEF SlotStep, SlotInv
  <1>6. \A g \in Mail : Unsplit(g) => Unsplit(g)'
    BY <1>2 DEF SlotStep, Unsplit
  <1>7. ASSUME Clean', NEW g \in Mail PROVE Unsplit(g)' \/ ~Twice(mail'[g])
    BY <1>2, <1>3, <1>6, <1>7 DEF SlotStep, SlotInv
  <1>8. ASSUME ~splitFailed', NEW g \in Mail
        PROVE  Alone(mail'[g]) /\ (mail'[g].bounces > 0 => Unsplit(g)')
    BY <1>2, <1>6, <1>8 DEF SlotStep, SlotInv
  <1>. QED  BY <1>4, <1>5, <1>7, <1>8 DEF SlotInv

(* A mail is moved, sent or blocked.                                          *)
LEMMA MovedSlot ==
  ASSUME QueueInv, SlotInv, NEW f \in Mail,
         Load(f) \/ TimerFires(f) \/ Send(f) \/ SendDelayed(f) \/ SendBlocked(f) \/ Renamed(f)
  PROVE  \E n : SlotStep(f, n)
  <1>. DEFINE m == mail[f]
  <1>1. m \in MailType /\ SlotPlaced(m) /\ (Clean => SlotDone(m))
    BY DEF QueueInv, TypeOK, SlotInv
  <1>2. UNCHANGED <<nullSender, bounceFailed, splitFailed>> /\ (Clean' <=> Clean)
    BY DEF Load, TimerFires, Send, SendDelayed, SendBlocked, Renamed, transaction, Clean
  <1>3. m.at \in {"load", "timer", "queue", "sending", "renaming"} /\ m.at \in InHand
    BY DEF Load, TimerFires, Send, SendDelayed, SendBlocked, Renamed, InHand, Places
  <1>4. ASSUME NEW n, Become(f, n), SlotPlaced(n), Clean => SlotDone(n),
               n.at # "split", n.bounces = m.bounces
        PROVE  SlotStep(f, n)
    <2>1. m.bounces = 0 /\ Unsplit(f)
      BY <1>3, UnsplitInHand DEF QueueInv, MailsKept, WellKept
    <2>2. ~(n.bounces > 0)
      BY <1>4, <2>1
    <2>. QED  BY <1>2, <1>3, <1>4, <2>1, <2>2 DEF SlotStep, Become, Alone
  <1>5. CASE Load(f) \/ TimerFires(f)
    <2>1. PICK place \in {"queue", "timer"} : Become(f, [m EXCEPT !.at = place])
      BY <1>5 DEF Load, TimerFires
    <2>. DEFINE n == [m EXCEPT !.at = place]
    <2>2. n.at = place /\ n.slot = m.slot /\ n.bounces = m.bounces
      BY <1>1 DEF MailType
    <2>. HIDE DEF n
    <2>3. m.at \in {"load", "timer"}
      BY <1>5 DEF Load, TimerFires
    <2>4. SlotPlaced(n)
      BY <1>1, <2>2, <2>3 DEF SlotPlaced
    <2>5. Clean => SlotDone(n)
      BY <1>1, <2>2 DEF SlotDone, Twice
    <2>. QED  BY <1>4, <2>1, <2>2, <2>4, <2>5 DEF n
  <1>6. CASE Send(f)
    <2>. DEFINE n == [m EXCEPT !.at = "sending", !.slot = "held"]
    <2>1. n.at = "sending" /\ n.slot = "held" /\ n.bounces = m.bounces
      BY <1>1 DEF MailType
    <2>2. Become(f, n)
      BY <1>6 DEF Send
    <2>. HIDE DEF n
    <2>. QED  BY <1>4, <2>1, <2>2 DEF SlotPlaced, SlotDone, Twice
  <1>7. ASSUME NEW k \in MailType, k.at = "timer", k.slot = m.slot, k.bounces = m.bounces,
               Become(f, NextCb(k)), m.at \in {"sending", "renaming"}
        PROVE  \E n : SlotStep(f, n)
    <2>1. NextCb(k).slot = CalledBack(m.slot)
      BY <1>7, NextCbSlot
    <2>2. NextCb(k).at = "timer" /\ NextCb(k).bounces = m.bounces
      BY <1>7, NextCbEffect DEF Alike
    <2>3. Clean => m.slot \in {"none", "held"}
      BY <1>1, <1>7 DEF SlotDone, MailType
    <2>4. SlotPlaced(NextCb(k))
      BY <2>1, <2>2 DEF SlotPlaced, CalledBack
    <2>5. Clean => SlotDone(NextCb(k))
      BY <2>1, <2>2, <2>3 DEF SlotDone, CalledBack, Twice
    <2>. QED  BY <1>4, <1>7, <2>2, <2>4, <2>5
  <1>8. CASE SendDelayed(f)
    <2>. DEFINE k == [m EXCEPT !.at = "timer"]
    <2>1. k \in MailType /\ k.at = "timer" /\ k.slot = m.slot /\ k.bounces = m.bounces
      BY <1>1 DEF MailType, Places
    <2>2. Become(f, NextCb(k)) /\ m.at = "sending"
      BY <1>8 DEF SendDelayed, Delayed
    <2>. HIDE DEF k
    <2>. QED  BY <1>7, <2>1, <2>2
  <1>9. CASE Renamed(f)
    <2>. DEFINE k == [m EXCEPT !.attempts = m.failures, !.at = "timer"]
    <2>1. WellKept(m)
      BY DEF QueueInv, MailsKept
    <2>2. m.failures \in 0..MaxFailures
      BY <1>1, <1>3, <2>1, Numbers DEF WellKept
    <2>3. k \in MailType /\ k.at = "timer" /\ k.slot = m.slot /\ k.bounces = m.bounces
      BY <1>1, <2>2 DEF MailType, Places
    <2>4. Become(f, NextCb(k)) /\ m.at = "renaming"
      BY <1>9 DEF Renamed
    <2>. HIDE DEF k
    <2>. QED  BY <1>7, <2>3, <2>4
  <1>10. CASE SendBlocked(f)
    <2>. DEFINE n == [m EXCEPT !.at = "blocked"]
    <2>1. n.at = "blocked" /\ n.slot = m.slot /\ n.bounces = m.bounces
      BY <1>1 DEF MailType
    <2>2. Become(f, n) /\ m.slot = "held"
      BY <1>1, <1>10 DEF SendBlocked, SlotPlaced
    <2>. HIDE DEF n
    <2>. QED  BY <1>4, <2>1, <2>2 DEF SlotPlaced, SlotDone, Twice
  <1>. QED  BY <1>5, <1>6, <1>8, <1>9, <1>10

(* A mail comes to one of its ends from an attempt or a rename; or its parts  *)
(* are split off, and it keeps the slot until the last of them is.            *)
LEMMA EndedSlot ==
  ASSUME QueueInv, SlotInv, NEW f \in Mail, mail[f].at \in {"sending", "renaming"}, NEW n,
         n \in TempFailed(mail[f]) \cup Bounced(mail[f]) \cup {Discard(mail[f])}, Become(f, n),
         UNCHANGED <<nullSender, bounceFailed, splitFailed>>
  PROVE  SlotStep(f, n)
  <1>. DEFINE m == mail[f]
  <1>1. /\ m \in MailType /\ SlotPlaced(m) /\ WellKept(m) /\ m.at \in InHand
        /\ (Clean => SlotDone(m)) /\ m.failures <= MaxFailures
    BY DEF QueueInv, TypeOK, MailsKept, SlotInv, WellKept, InHand, Places
  <1>2. Clean' <=> Clean
    BY DEF Clean
  <1>3. Clean => m.slot \in {"none", "held"}
    BY <1>1 DEF SlotDone, MailType
  <1>4. Alike(m, n) /\ Alone(n)
    <2>1. CASE n \in TempFailed(m) \cup Bounced(m)
      BY <1>1, <2>1, TempFailedEffect, BouncedEffect, HandedAlone
    <2>2. CASE n = Discard(m)
      <3>1. Alike(m, n) /\ n.bounces = m.bounces
        BY <1>1, <2>2, DiscardEffect
      <3>2. m.bounces = 0
        BY <1>1 DEF WellKept
      <3>. QED  BY <3>1, <3>2 DEF Alone
    <2>. QED  BY <2>1, <2>2
  <1>5. \/ Discarded(m, n) \/ Vanished(m, n) \/ Owing(m, n)
        \/ n.slot = m.slot /\ n.at = "renaming"
    BY <1>1, TempFailedSlot, BouncedSlot, DiscardSlot
  <1>6. SlotPlaced(n) /\ (Clean => SlotDone(n))
    BY <1>1, <1>3, <1>4, <1>5, HandedSlot
  <1>7. n.at # "split"
    BY <1>5 DEF Discarded, Vanished, Owing
  <1>8. Unsplit(f)
    BY <1>1, UnsplitInHand
  <1>. QED  BY <1>1, <1>2, <1>4, <1>6, <1>7, <1>8 DEF SlotStep, Become

LEMMA AttemptedSlot ==
  ASSUME QueueInv, SlotInv, NEW f \in Mail, Attempted(f)
  PROVE  \E n : SlotStep(f, n)
  <1>. DEFINE m == mail[f]
              Made(ok, fail, refused) == \E n \in Parted(m, ok, fail, refused) : Become(f, n)
  <1>1. PICK ok \in SUBSET m.rcpts : \E fail \in SUBSET (m.rcpts \ ok) :
          \E refused \in SUBSET (m.rcpts \ (ok \cup fail)) : Made(ok, fail, refused)
    BY DEF Attempted
  <1>2. PICK fail \in SUBSET (m.rcpts \ ok) :
          \E refused \in SUBSET (m.rcpts \ (ok \cup fail)) : Made(ok, fail, refused)
    BY <1>1
  <1>3. PICK refused \in SUBSET (m.rcpts \ (ok \cup fail)) : Made(ok, fail, refused)
    BY <1>2
  <1>4. PICK n \in Parted(m, ok, fail, refused) : Become(f, n)
    BY <1>3
  <1>5. /\ m.at = "sending" /\ UNCHANGED <<nullSender, bounceFailed, splitFailed>>
        /\ m \in MailType /\ (Clean' <=> Clean) /\ SlotPlaced(m)
    BY DEF Attempted, transaction, QueueInv, TypeOK, Clean, SlotInv
  <1>6. CASE n \in TempFailed(m) \cup Bounced(m) \cup {Discard(m)}
    BY <1>4, <1>5, <1>6, EndedSlot
  <1>7. CASE n \notin TempFailed(m) \cup Bounced(m) \cup {Discard(m)}
    <2>1. n = [m EXCEPT !.at = "ending", !.hooked = ok # {}, !.toDefer = fail, !.toBounce = refused,
                        !.refcount = Cardinality({p \in {ok, fail, refused} : p # {}})]
      BY <1>4, <1>7 DEF Parted
    <2>2. n.at = "ending" /\ n.slot = m.slot /\ n.bounces = m.bounces
      BY <1>5, <2>1 DEF MailType
    <2>3. m.slot = "held" /\ m.bounces = 0
      BY <1>5 DEF SlotPlaced, QueueInv, MailsKept, WellKept, InHand, Places
    <2>4. SlotPlaced(n) /\ SlotDone(n) /\ ~Twice(n)
      BY <2>2, <2>3 DEF SlotPlaced, SlotDone, Twice
    <2>5. ~(n.bounces > 0)
      BY <2>2, <2>3
    <2>. QED  BY <1>4, <1>5, <2>2, <2>4, <2>5 DEF SlotStep, Become, Alone
  <1>. QED  BY <1>6, <1>7

(* The hook answers, or a bounce is over: each drops one reference.           *)
LEMMA CalledSlot ==
  ASSUME QueueInv, SlotInv, NEW f \in Mail, ~Idle(mail[f]),
         NEW k \in MailType, k.at = mail[f].at, k.refcount = mail[f].refcount,
         k.slot = mail[f].slot, ~splitFailed => k.bounces = 0, Become(f, Discard(k)),
         UNCHANGED <<nullSender, bounceFailed, splitFailed>>
  PROVE  SlotStep(f, Discard(k))
  <1>. DEFINE m == mail[f]
              n == Discard(k)
  <1>1. SlotPlaced(m) /\ WellKept(m) /\ m \in MailType /\ (Clean => SlotDone(m))
    BY DEF QueueInv, TypeOK, MailsKept, SlotInv
  <1>2. m.at \notin InHand
    BY <1>1, Numbers, NotInHand DEF Idle
  <1>3. Discarded(k, n) /\ n.bounces = k.bounces
    BY DiscardSlot, DiscardEffect
  <1>. HIDE DEF n
  <1>4. k.at \in Places /\ SlotPlaced(k)
    BY <1>1 DEF SlotPlaced, MailType
  <1>5. SlotPlaced(n)
    BY <1>3, <1>4, CallPlaced
  <1>6. ASSUME Clean PROVE Callable(n)
    <2>1. Callable(m)
      BY <1>1, <1>2, <1>6, StillCallable
    <2>2. Callable(k)
      BY <2>1 DEF Callable, Twice
    <2>. QED  BY <1>3, <1>4, <2>2, CallOnce
  <1>7. m.at # "split" /\ n.at # "split"
    BY <1>2, <1>3 DEF Discarded, InHand, Places
  <1>8. Clean' <=> Clean
    BY DEF Clean
  <1>9. Clean' => SlotDone(n) /\ ~Twice(n)
    BY <1>6, <1>8, CallableDone DEF Callable
  <1>10. ~splitFailed => ~(n.bounces > 0)
    BY <1>3
  <1>. QED  BY <1>5, <1>7, <1>9, <1>10 DEF SlotStep, Become, Alone, n

(* double_bounce ends the mail, for which no other call is left unless an     *)
(* error while splitting left one.                                            *)
LEMMA BounceFailsSlot ==
  ASSUME QueueInv, SlotInv, NEW f \in Mail, BounceFails(f)
  PROVE  \E n : SlotStep(f, n)
  <1>. DEFINE m == mail[f]
              k == [m EXCEPT !.bounces = @ - 1, !.dropped = TRUE]
              n == Gone(k)
  <1>1. /\ m \in MailType /\ SlotPlaced(m) /\ WellKept(m) /\ (Clean => SlotDone(m))
        /\ m.bounces \in Nat /\ m.bounces > 0
    BY Numbers DEF QueueInv, TypeOK, MailsKept, SlotInv, BounceFails
  <1>2. /\ Become(f, n) /\ nullSender' = nullSender /\ splitFailed' = splitFailed /\ bounceFailed'
    <2>1. Become(f, DoubleBounce([m EXCEPT !.bounces = @ - 1]))
      BY DEF BounceFails
    <2>2. [[m EXCEPT !.bounces = @ - 1] EXCEPT !.dropped = TRUE] = k
      BY <1>1 DEF MailType
    <2>. QED  BY <2>1, <2>2 DEF BounceFails, DoubleBounce, transaction
  <1>3. k \in MailType /\ Alike(m, k) /\ k.slot = m.slot /\ k.bounces = m.bounces - 1
    <2>1. m.bounces - 1 \in Nat
      BY <1>1
    <2>. QED  BY <1>1, <2>1 DEF MailType, Alike
  <1>. HIDE DEF k
  <1>4. Alike(m, n) /\ n.at = "none" /\ n.bounces = m.bounces - 1 /\ n.slot = CalledBack(m.slot)
    BY <1>3, GoneEffect, GoneSlot DEF Alike
  <1>. HIDE DEF n
  <1>5. m.at # "split"
    BY <1>1, NotInHand DEF InHand, Places
  <1>6. SlotPlaced(n)
    BY <1>4 DEF SlotPlaced, CalledBack
  <1>7. ASSUME ~splitFailed
        PROVE  SlotDone(n) /\ Unsplit(f) /\ Alone(n) /\ ~(n.bounces > 0)
    <2>1. /\ m.bounces = 1 /\ m.at = "ending" /\ ~m.hooked /\ m.toDefer = {} /\ m.toBounce = {}
          /\ Unsplit(f) /\ SlotDone(m)
      BY <1>1, <1>7 DEF SlotInv, Alone, Clean
    <2>2. n.bounces = 0 /\ Idle(n)
      BY <1>4, <2>1 DEF Alike, Idle
    <2>3. n.slot # "freed twice"
      BY <1>4, <2>1 DEF SlotDone, CalledBack
    <2>4. ~(n.bounces > 0)
      BY <2>2
    <2>5. SlotDone(n)
      BY <1>4, <2>2, <2>3 DEF SlotDone
    <2>. QED  BY <2>1, <2>4, <2>5 DEF Alone
  <1>8. Clean' => ~splitFailed
    BY <1>2 DEF Clean
  <1>9. SlotStep(f, n)
    BY <1>2, <1>4, <1>5, <1>6, <1>7, <1>8 DEF SlotStep, Become
  <1>. QED  BY <1>9

LEMMA CallSlot ==
  ASSUME QueueInv, SlotInv, NEW f \in Mail, DeliveredRespond(f) \/ BounceQueued(f)
  PROVE  \E n : SlotStep(f, n)
  <1>. DEFINE m == mail[f]
  <1>1. m \in MailType /\ m.bounces \in Nat /\ (~splitFailed => Alone(m))
    BY Numbers DEF QueueInv, TypeOK, SlotInv
  <1>2. UNCHANGED <<nullSender, bounceFailed, splitFailed>>
    BY DEF DeliveredRespond, BounceQueued, transaction
  <1>3. CASE DeliveredRespond(f)
    <2>. DEFINE k == [m EXCEPT !.hooked = FALSE]
    <2>1. /\ k \in MailType /\ k.at = m.at /\ k.refcount = m.refcount /\ k.slot = m.slot
          /\ k.bounces = m.bounces
      BY <1>1 DEF MailType
    <2>2. Become(f, Discard(k)) /\ ~Idle(m) /\ m.hooked
      BY <1>3 DEF DeliveredRespond, Idle
    <2>. HIDE DEF k
    <2>3. ~splitFailed => k.bounces = 0
      BY <1>1, <2>1, <2>2 DEF Alone
    <2>. QED  BY <1>2, <2>1, <2>2, <2>3, CalledSlot
  <1>4. CASE BounceQueued(f)
    <2>. DEFINE k == [m EXCEPT !.bounces = @ - 1, !.told = TRUE]
    <2>1. m.bounces > 0 /\ m.bounces - 1 \in Nat
      BY <1>1, <1>4 DEF BounceQueued
    <2>2. /\ k \in MailType /\ k.at = m.at /\ k.refcount = m.refcount /\ k.slot = m.slot
          /\ k.bounces = m.bounces - 1
      BY <1>1, <2>1 DEF MailType
    <2>3. Become(f, Discard(k)) /\ ~Idle(m)
      BY <1>1, <1>4, <2>1 DEF BounceQueued, Idle
    <2>. HIDE DEF k
    <2>4. ~splitFailed => k.bounces = 0
      BY <1>1, <2>1, <2>2 DEF Alone
    <2>. QED  BY <1>2, <2>2, <2>3, <2>4, CalledSlot
  <1>. QED  BY <1>3, <1>4

(* An error while splitting: a second bounce may follow the first, which a    *)
(* mail with a sender survives.                                               *)
LEMMA SplitFailsSlot ==
  ASSUME QueueInv, SlotInv, NEW f \in Mail, SplitFails(f)
  PROVE  \E n : SlotStep(f, n)
  <1>. DEFINE m == mail[f]
              kd == [m EXCEPT !.toDefer = {}]
              kb == [m EXCEPT !.toBounce = {}]
  <1>1. PICK k \in {kd, kb} : /\ k # m
                              /\ \E once \in Bounced(k) : \E n \in {once} \cup Bounced(once) :
                                   Become(f, n)
    BY DEF SplitFails
  <1>2. PICK once \in Bounced(k) : \E n \in {once} \cup Bounced(once) : Become(f, n)
    BY <1>1
  <1>3. PICK n \in {once} \cup Bounced(once) : Become(f, n)
    BY <1>2
  <1>4. /\ m \in MailType /\ WellKept(m) /\ SlotPlaced(m) /\ (Clean => SlotDone(m))
        /\ nullSender' = nullSender /\ splitFailed' /\ bounceFailed' = bounceFailed
    BY DEF QueueInv, TypeOK, MailsKept, SlotInv, SplitFails, transaction
  <1>5. k \in MailType /\ k.at = m.at /\ k.slot = m.slot /\ k.refcount = m.refcount
    BY <1>1, <1>4 DEF MailType
  <1>6. m.toDefer # {} \/ m.toBounce # {}
    <2>1. m.toDefer = {} => kd = m
      BY <1>4 DEF MailType
    <2>2. m.toBounce = {} => kb = m
      BY <1>4 DEF MailType
    <2>. QED  BY <1>1, <2>1, <2>2
  <1>. HIDE DEF kd, kb
  <1>7. m.at \notin InHand
    BY <1>4, <1>6, NotInHand
  <1>8. m.at \in Places /\ SlotPlaced(k)
    BY <1>4, <1>5 DEF SlotPlaced, MailType
  <1>9. once \in MailType /\ (Discarded(k, once) \/ Vanished(k, once) \/ Owing(k, once))
    BY <1>5, BouncedEffect, BouncedSlot
  <1>10. once.at \in Places /\ SlotPlaced(once)
    BY <1>5, <1>8, <1>9, CallPlaced DEF MailType
  <1>11. SlotPlaced(n)
    BY <1>9, <1>10, CallPlaced, BouncedSlot
  <1>12. n.at # "split"
    <2>1. m.at # "split"
      BY <1>7 DEF InHand, Places
    <2>2. once.at # "split"
      BY <1>5, <1>9, <2>1 DEF Discarded, Vanished, Owing
    <2>. QED  BY <1>9, <2>2, BouncedSlot DEF Discarded, Vanished, Owing
  <1>13. ASSUME Clean' PROVE Callable(n)
    <2>1. ~nullSender /\ Clean
      BY <1>4, <1>13 DEF Clean
    <2>2. Callable(m)
      BY <1>4, <1>6, <1>7, <2>1, StillCallable DEF Idle
    <2>3. Callable(k)
      BY <1>5, <2>2 DEF Callable, Twice
    <2>4. Callable(once)
      BY <1>5, <1>8, <1>9, <2>1, <2>3, CallOnce DEF Vanished
    <2>5. CASE n = once
      BY <2>4, <2>5
    <2>6. CASE n \in Bounced(once)
      <3>1. Discarded(once, n) \/ Vanished(once, n) \/ Owing(once, n)
        BY <1>9, <2>6, BouncedSlot
      <3>. QED  BY <1>9, <1>10, <2>1, <2>4, <3>1, CallOnce DEF Vanished
    <2>. QED  BY <2>5, <2>6
  <1>14. Clean' => SlotDone(n) /\ ~Twice(n)
    BY <1>13, CallableDone DEF Callable
  <1>15. m.at # "split"
    BY <1>7 DEF InHand, Places
  <1>16. SlotStep(f, n)
    BY <1>3, <1>4, <1>11, <1>12, <1>14, <1>15 DEF SlotStep, Become
  <1>. QED  BY <1>16

(* A new mail is split off: the old one waits for it with a call left.        *)
LEMMA SplitWrittenSlot ==
  ASSUME QueueInv, SlotInv, NEW f \in Mail, NEW cause \in {"deferred", "refused"},
         SplitWritten(f, cause)
  PROVE  SlotInv'
  <1>1. PICK k, n, R : SplitOff(f, cause, k, n, R)
    BY SplitWrittenEffect
  <1>. DEFINE m == mail[f]
              u == used'
  <1>2. /\ u \in Mail /\ f # u /\ m.at \notin InHand
        /\ \A h \in Mail : mail'[h] = IF h = u THEN n ELSE IF h = f THEN k ELSE mail[h]
    BY <1>1 DEF SplitOff
  <1>. HIDE DEF u
  <1>3. k.slot = m.slot /\ n.slot = "none"
    <2>1. /\ m \in MailType /\ mail \in [Mail -> MailType]
          /\ k = mail'[f] /\ n = mail'[u]
      BY <1>2 DEF QueueInv, TypeOK
    <2>2. CASE cause = "deferred"
      <3>. DEFINE new == [NewMail(m.toDefer, "split") EXCEPT !.origin = f, !.cause = cause]
                  old == [m EXCEPT !.toDefer = {}]
      <3>1. mail' = [mail EXCEPT ![f] = old, ![u] = new]
        BY <2>2 DEF SplitWritten, u
      <3>2. new.slot = "none" /\ old.slot = m.slot
        BY <2>1 DEF NewMail, Blank, MailType
      <3>. HIDE DEF new, old
      <3>. QED  BY <1>2, <2>1, <3>1, <3>2
    <2>3. CASE cause = "refused"
      <3>. DEFINE new == [NewMail(m.toBounce, "split") EXCEPT !.origin = f, !.cause = cause]
                  old == [m EXCEPT !.toBounce = {}]
      <3>1. mail' = [mail EXCEPT ![f] = old, ![u] = new]
        BY <2>3 DEF SplitWritten, u
      <3>2. new.slot = "none" /\ old.slot = m.slot
        BY <2>1 DEF NewMail, Blank, MailType
      <3>. HIDE DEF new, old
      <3>. QED  BY <1>2, <2>1, <3>1, <3>2
    <2>. QED  BY <2>2, <2>3
  <1>4. /\ k.at = m.at /\ k.slot = m.slot /\ k.refcount = m.refcount /\ ~Idle(m)
        /\ k.at # "split" /\ k.bounces = m.bounces /\ (m.toDefer # {} \/ m.toBounce # {})
    <2>1. k.at # "split"
      BY <1>1 DEF SplitOff, InHand, Places
    <2>. QED  BY <1>3, <1>1, <2>1 DEF SplitOff, Idle
  <1>5. n.at = "split" /\ n.slot = "none" /\ n.origin = f /\ n.bounces = 0
    BY <1>3, <1>1 DEF SplitOff, New
  <1>6. /\ SlotPlaced(m) /\ (Clean => SlotDone(m)) /\ (Clean' <=> Clean)
        /\ splitFailed' = splitFailed /\ (~splitFailed => Alone(m))
    BY DEF SlotInv, SplitWritten, transaction, Clean
  <1>7. SlotPlaced(k) /\ SlotPlaced(n) /\ SlotDone(n) /\ ~Twice(n)
    BY <1>4, <1>5, <1>6 DEF SlotPlaced, SlotDone, Twice
  <1>8. ASSUME Clean PROVE SlotDone(k) /\ ~Twice(k)
    <2>1. ~Twice(m)
      BY <1>4, <1>6, <1>8 DEF SlotDone
    <2>. QED  BY <1>4, <1>6, <1>8, <2>1 DEF SlotDone, Twice
  <1>9. \A h \in Mail : SlotPlaced(mail'[h]) /\ (Clean => SlotDone(mail'[h]))
    BY <1>2, <1>7, <1>8 DEF SlotInv
  <1>10. \A h \in Mail : h # f /\ Unsplit(h) => Unsplit(h)'
    BY <1>2, <1>4, <1>5 DEF Unsplit
  <1>11. ASSUME Clean, NEW h \in Mail PROVE Unsplit(h)' \/ ~Twice(mail'[h])
    <2>1. CASE h = u
      BY <1>2, <1>7, <2>1
    <2>2. CASE h = f
      BY <1>2, <1>8, <1>11, <2>2
    <2>3. CASE h # u /\ h # f
      BY <1>2, <1>10, <1>11, <2>3 DEF SlotInv
    <2>. QED  BY <2>1, <2>2, <2>3
  <1>12. ASSUME ~splitFailed, NEW h \in Mail
         PROVE  Alone(mail'[h]) /\ (mail'[h].bounces > 0 => Unsplit(h)')
    <2>1. CASE h = u
      <3>1. ~(mail'[h].bounces > 0)
        BY <1>2, <1>5, <2>1
      <3>. QED  BY <3>1 DEF Alone
    <2>2. CASE h = f
      <3>1. ~(mail'[h].bounces > 0)
        BY <1>2, <1>4, <1>6, <1>12, <2>2 DEF Alone
      <3>. QED  BY <3>1 DEF Alone
    <2>3. CASE h # u /\ h # f
      BY <1>2, <1>10, <1>12, <2>3 DEF SlotInv
    <2>. QED  BY <2>1, <2>2, <2>3
  <1>. QED  BY <1>6, <1>9, <1>11, <1>12 DEF SlotInv

(* Its HMailItem is ready: it goes on, and the old one drops a reference.     *)
LEMMA SplitReadySlot ==
  ASSUME QueueInv, SlotInv, NEW g \in Mail, SplitReady(g)
  PROVE  SlotInv'
  <1>. DEFINE m == mail[g]
              o == m.origin
              p == mail[o]
              q == Discard(p)
  <1>1. PICK k \in IF m.cause = "deferred" THEN TempFailed(m) ELSE Bounced(m) :
          mail' = [mail EXCEPT ![g] = [k EXCEPT !.origin = 0, !.cause = "none"],
                               ![mail[g].origin] = Discard(@)]
    BY DEF SplitReady
  <1>2. /\ m \in MailType /\ m.at = "split" /\ WellKept(m) /\ SlotPlaced(m) /\ m.at \in InHand
        /\ m.slot = "none"
    BY DEF SplitReady, QueueInv, TypeOK, MailsKept, SlotInv, SlotPlaced, InHand, Places
  <1>3. /\ o \in Mail /\ p.at \notin InHand /\ o # g /\ p \in MailType /\ SlotPlaced(p)
        /\ (Clean => SlotDone(p)) /\ (Clean => ~Twice(p)) /\ (~splitFailed => ~(p.bounces > 0))
    BY <1>2 DEF QueueInv, TypeOK, SplitsInv, SlotInv, Unsplit
  <1>4. (Clean' <=> Clean) /\ splitFailed' = splitFailed
    BY DEF SplitReady, transaction, Clean
  <1>. DEFINE n == [k EXCEPT !.origin = 0, !.cause = "none"]
  <1>5. k \in MailType /\ Alike(m, k) /\ Alone(k)
    BY <1>1, <1>2, TempFailedEffect, BouncedEffect, HandedAlone DEF WellKept
  <1>6. \/ Discarded(m, k) \/ Vanished(m, k) \/ Owing(m, k)
        \/ k.slot = m.slot /\ k.at = "renaming"
    BY <1>1, <1>2, TempFailedSlot, BouncedSlot DEF WellKept
  <1>7. SlotPlaced(k) /\ SlotDone(k)
    <2>. HIDE DEF m
    <2>. QED  BY <1>2, <1>5, <1>6, HandedSlot
  <1>8. k.at # "split"
    <2>1. m.refcount = 1
      BY <1>2 DEF WellKept
    <2>. HIDE DEF m
    <2>. QED  BY <1>2, <1>6, <2>1 DEF Discarded, Vanished, Owing
  <1>9. \A h \in Mail : mail'[h] = IF h = g THEN n ELSE IF h = o THEN q ELSE mail[h]
    <2>1. mail \in [Mail -> MailType]
      BY DEF QueueInv, TypeOK
    <2>. QED  BY <1>1, <1>3, <2>1
  <1>10. /\ n.at = k.at /\ n.slot = k.slot /\ n.refcount = k.refcount /\ n.hooked = k.hooked
         /\ n.toDefer = k.toDefer /\ n.toBounce = k.toBounce /\ n.bounces = k.bounces
    BY <1>5 DEF MailType
  <1>. HIDE DEF n
  <1>11. SlotPlaced(n) /\ SlotDone(n) /\ n.at # "split" /\ Alone(n)
    BY <1>5, <1>7, <1>8, <1>10 DEF SlotPlaced, SlotDone, Twice, Idle, Alone
  <1>12. Discarded(p, q) /\ q.bounces = p.bounces
    BY <1>3, DiscardSlot, DiscardEffect
  <1>. HIDE DEF q
  <1>13. SlotPlaced(q) /\ q.at # "split"
    <2>1. p.at \in Places /\ p.at # "split"
      BY <1>3 DEF MailType, InHand, Places
    <2>. HIDE DEF p
    <2>. QED  BY <1>3, <1>12, <2>1, CallPlaced DEF Discarded
  <1>14. ASSUME Clean PROVE SlotDone(q) /\ ~Twice(q)
    <2>. HIDE DEF p
    <2>1. Callable(p)
      BY <1>3, <1>14, StillCallable
    <2>2. Callable(q)
      BY <1>3, <1>12, <2>1, CallOnce
    <2>. QED  BY <2>2, CallableDone DEF Callable
  <1>. HIDE DEF m, o, p
  <1>15. \A h \in Mail : SlotPlaced(mail'[h]) /\ (Clean => SlotDone(mail'[h]))
    BY <1>9, <1>11, <1>13, <1>14 DEF SlotInv
  <1>16. Unsplit(g)' /\ \A h \in Mail : Unsplit(h) => Unsplit(h)'
    <2>1. mail[g].at \in InHand
      BY <1>2 DEF m
    <2>2. Unsplit(g)
      BY <2>1, UnsplitInHand
    <2>. QED  BY <1>9, <1>11, <1>13, <2>2 DEF Unsplit
  <1>17. ASSUME Clean, NEW h \in Mail PROVE Unsplit(h)' \/ ~Twice(mail'[h])
    BY <1>9, <1>14, <1>16, <1>17 DEF SlotInv
  <1>18. ASSUME ~splitFailed, NEW h \in Mail
         PROVE  Alone(mail'[h]) /\ (mail'[h].bounces > 0 => Unsplit(h)')
    <2>1. CASE h = g
      BY <1>9, <1>11, <1>16, <2>1
    <2>2. CASE h # g /\ h = o
      <3>1. ~(mail'[h].bounces > 0)
        BY <1>3, <1>9, <1>12, <1>18, <2>2
      <3>. QED  BY <3>1 DEF Alone
    <2>3. CASE h # g /\ h # o
      BY <1>9, <1>16, <1>18, <2>3 DEF SlotInv
    <2>. QED  BY <2>1, <2>2, <2>3
  <1>. QED  BY <1>4, <1>15, <1>17, <1>18 DEF SlotInv

(* Where no slot was ever held nothing can be wrong with one.                 *)
LEMMA NoSlotYet ==
  ASSUME \A f \in Mail : /\ mail[f].slot = "none" /\ mail[f].bounces = 0
                         /\ mail[f].at \notin {"sending", "blocked", "split"}
  PROVE  SlotInv
  <1>1. \A f \in Mail : ~(mail[f].bounces > 0)
    OBVIOUS
  <1>. QED  BY <1>1 DEF SlotInv, SlotPlaced, SlotDone, Twice, Alone

LEMMA StillNoSlot ==
  ASSUME \A f \in Mail : /\ mail'[f].slot = "none" /\ mail'[f].bounces = 0
                         /\ mail'[f].at \notin {"sending", "blocked", "split"}
  PROVE  SlotInv'
  <1>1. \A f \in Mail : ~(mail'[f].bounces > 0)
    OBVIOUS
  <1>. QED  BY <1>1 DEF SlotInv, SlotPlaced, SlotDone, Twice, Alone

LEMMA NewSlot ==
  ASSUME NEW R, NEW place
  PROVE  /\ NewMail(R, place).slot = "none" /\ NewMail(R, place).at = place
         /\ NewMail(R, place).bounces = 0
  BY DEF NewMail, Blank

(* send_trans_email holds or pushes what it wrote, or takes it back; and      *)
(* after a crash the queue has all its slots again.                           *)
LEMMA WrittenSlot ==
  ASSUME QueueInv, reply = "none"
  PROVE  \A f \in Mail : /\ mail[f].slot = "none" /\ mail[f].bounces = 0
                         /\ mail[f].at \in {"none", "held"}
  <1>. TAKE f \in Mail
  <1>1. used \in Nat /\ f \in Nat
    BY NumbersTyped DEF QueueInv, TypeOK, Mail
  <1>2. CASE f <= used
    BY <1>2, NewSlot DEF QueueInv, Writing
  <1>3. CASE f > used
    BY <1>3 DEF QueueInv, Unwritten, Blank
  <1>. QED  BY <1>1, <1>2, <1>3

LEMMA ProcessDeliverySlot ==
  ASSUME QueueInv, ProcessDelivery
  PROVE  SlotInv'
  <1>1. reply = "none" /\ mail \in [Mail -> MailType]
    BY DEF ProcessDelivery, QueueInv, TypeOK
  <1>. DEFINE new == NewMail(deliveries[used'], "held")
              written == [mail EXCEPT ![used'] = new]
  <1>2. \/ mail' = written
        \/ mail' = [f \in Mail |-> IF f <= used' THEN [written[f] EXCEPT !.at = "queue"]
                                                 ELSE written[f]]
    BY DEF ProcessDelivery
  <1>3. new.slot = "none" /\ new.at = "held" /\ new.bounces = 0
    BY NewSlot DEF NewMail, Blank
  <1>4. ASSUME NEW f \in Mail
        PROVE  /\ written[f].slot = "none" /\ written[f].at \in {"none", "held"}
               /\ written[f].bounces = 0 /\ [written[f] EXCEPT !.at = "queue"].bounces = 0
               /\ [written[f] EXCEPT !.at = "queue"].slot = "none"
               /\ [written[f] EXCEPT !.at = "queue"].at = "queue"
    <2>1. written[f] = IF f = used' THEN new ELSE mail[f]
      BY <1>1
    <2>2. mail[f].slot = "none" /\ mail[f].at \in {"none", "held"} /\ mail[f].bounces = 0
      BY <1>1, WrittenSlot
    <2>3. CASE f = used'
      <3>1. written[f] = new
        BY <2>1, <2>3
      <3>2. /\ [new EXCEPT !.at = "queue"].slot = "none" /\ [new EXCEPT !.at = "queue"].at = "queue"
            /\ [new EXCEPT !.at = "queue"].bounces = 0
        BY DEF NewMail, Blank
      <3>. QED  BY <1>3, <3>1, <3>2
    <2>4. CASE f # used'
      <3>1. written[f] = mail[f]
        BY <2>1, <2>4
      <3>2. /\ [mail[f] EXCEPT !.at = "queue"].slot = mail[f].slot
            /\ [mail[f] EXCEPT !.at = "queue"].at = "queue"
            /\ [mail[f] EXCEPT !.at = "queue"].bounces = mail[f].bounces
        BY <1>1 DEF MailType
      <3>. QED  BY <2>2, <3>1, <3>2
    <2>. QED  BY <2>3, <2>4
  <1>. HIDE DEF written
  <1>5. \A f \in Mail : /\ mail'[f].slot = "none" /\ mail'[f].bounces = 0
                        /\ mail'[f].at \notin {"sending", "blocked", "split"}
    BY <1>2, <1>4
  <1>. QED  BY <1>5, StillNoSlot

LEMMA RefuseDeliverySlot ==
  ASSUME QueueInv, RefuseDelivery
  PROVE  SlotInv'
  <1>1. /\ mail' = [f \in Mail |-> IF mail[f].at = "held" THEN Gone(mail[f]) ELSE mail[f]]
        /\ reply = "none" /\ mail \in [Mail -> MailType]
    BY DEF RefuseDelivery, QueueInv, TypeOK
  <1>2. \A f \in Mail : /\ mail[f].slot = "none" /\ mail[f].bounces = 0
                        /\ mail[f].at \in {"none", "held"}
    BY <1>1, WrittenSlot
  <1>3. \A f \in Mail : /\ Gone(mail[f]).slot = "none" /\ Gone(mail[f]).at = "none"
                        /\ Gone(mail[f]).bounces = 0
    BY <1>1, <1>2, GoneSlot, GoneEffect DEF CalledBack
  <1>4. \A f \in Mail : /\ mail'[f].slot = "none" /\ mail'[f].bounces = 0
                        /\ mail'[f].at \notin {"sending", "blocked", "split"}
    BY <1>1, <1>2, <1>3
  <1>. QED  BY <1>4, StillNoSlot

LEMMA RestartSlot ==
  ASSUME QueueInv, Restart
  PROVE  SlotInv'
  <1>1. ASSUME NEW f \in Mail
        PROVE  /\ mail'[f].slot = "none" /\ mail'[f].bounces = 0
               /\ mail'[f].at \in {"load", "none"}
    <2>. DEFINE Old(done) == [mail[f] EXCEPT !.disk = IF f \in done \/ @ = "none" THEN "none" ELSE "file"]
                Place(m) == IF Loaded(m) THEN "load" ELSE "none"
    <2>1. PICK done : mail'[f] = FromFile(Old(done), Old(done).disk, Place(Old(done)))
      BY DEF Restart, FromFile
    <2>. HIDE DEF Old
    <2>2. \A m : /\ FromFile(m, m.disk, Place(m)).slot = "none"
                 /\ FromFile(m, m.disk, Place(m)).bounces = 0
                 /\ FromFile(m, m.disk, Place(m)).at = Place(m)
      BY DEF FromFile, Blank
    <2>. QED  BY <2>1, <2>2
  <1>. QED  BY <1>1, StillNoSlot

LEMMA SlotNext ==
  ASSUME QueueInv, SlotInv, Next
  PROVE  SlotInv'
  <1>1. CASE ProcessDelivery \/ RefuseDelivery \/ Restart
    BY <1>1, ProcessDeliverySlot, RefuseDeliverySlot, RestartSlot
  <1>2. ASSUME NEW f \in Mail, NEW cause \in {"deferred", "refused"}, SplitWritten(f, cause)
        PROVE  SlotInv'
    BY <1>2, SplitWrittenSlot
  <1>3. ASSUME NEW g \in Mail, SplitReady(g) PROVE SlotInv'
    BY <1>3, SplitReadySlot
  <1>4. ASSUME NEW f \in Mail, NEW n, SlotStep(f, n) PROVE SlotInv'
    BY <1>4, SlotStepKeeps
  <1>5. ASSUME NEW f \in Mail, RenameFails(f) PROVE \E n : SlotStep(f, n)
    <2>1. PICK n \in Bounced(mail[f]) : Become(f, n)
      BY <1>5 DEF RenameFails, Unrenamed
    <2>2. mail[f].at = "renaming" /\ UNCHANGED <<nullSender, bounceFailed, splitFailed>>
      BY <1>5 DEF RenameFails, transaction
    <2>. QED  BY <2>1, <2>2, EndedSlot
  <1>6. ASSUME NEW f \in Mail,
               \/ Load(f) \/ TimerFires(f) \/ Send(f) \/ SendDelayed(f) \/ SendBlocked(f)
               \/ Renamed(f)
               \/ Attempted(f) \/ DeliveredRespond(f) \/ BounceQueued(f) \/ BounceFails(f)
               \/ SplitFails(f) \/ RenameFails(f)
        PROVE  SlotInv'
    <2>1. \E n : SlotStep(f, n)
      BY <1>5, <1>6, MovedSlot, AttemptedSlot, CallSlot, BounceFailsSlot,
         SplitFailsSlot
    <2>. QED  BY <1>4, <2>1
  <1>7. ASSUME NEW f \in Mail, Taken(f) PROVE SlotInv'
    <2>1. UNCHANGED <<mail, nullSender, bounceFailed, splitFailed>>
      BY <1>7 DEF Taken, transaction
    <2>. QED  BY <2>1 DEF SlotInv, Unsplit, Clean
  <1>. QED  BY <1>1, <1>2, <1>3, <1>6, <1>7 DEF Next, Progress

LEMMA SlotStutter ==
  ASSUME SlotInv, UNCHANGED vars
  PROVE  SlotInv'
  BY DEF SlotInv, Unsplit, Clean, vars, transaction

(* The slots of the delivery queue, for every number of them: who is worked   *)
(* on or blocked holds one, who is done has called back once. A mail calls    *)
(* back twice only after an error while splitting, and then only one that has *)
(* no sender, or when a bounce message could not be queued.                   *)
THEOREM SlotsAlwaysExact == Spec => []SlotsExact
  <1>1. Init => SlotInv
    <2>. SUFFICES ASSUME Init PROVE SlotInv
      OBVIOUS
    <2>1. \A f \in Mail : /\ mail[f].slot = "none" /\ mail[f].bounces = 0
                          /\ mail[f].at \notin {"sending", "blocked", "split"}
      BY DEF Init, Blank
    <2>. QED  BY <2>1, NoSlotYet
  <1>2. QueueInv /\ SlotInv /\ [Next]_vars => SlotInv'
    BY SlotNext, SlotStutter
  <1>3. SlotInv => SlotsExact
    BY DEF SlotInv, SlotsExact, SlotPlaced, SlotDone, Clean
  <1>. QED  BY <1>1, <1>2, <1>3, QueueInvariant, PTL DEF Spec
=============================================================================
