----------------------------- MODULE OutboundQueue -----------------------------
(***************************************************************************)
(* The outbound mail queue: send_trans_email in email/outbound/index.js,   *)
(* the delivery, load and temp_fail queues of email/outbound/queue.js, and *)
(* what HMailItem in email/outbound/hmail.js does with the verdict of a    *)
(* delivery attempt (HMailSession).                                        *)
(*                                                                         *)
(* A mail is a file of the queue directory and, while the process lives,   *)
(* the HMailItem in charge of it. The files outlive a crash; what is in    *)
(* memory does not. Writes and renames take time and may fail; an unlink   *)
(* is ordered and not waited for, so that a crash may forget it. Time is   *)
(* abstracted: a timer fires at any moment after it was set. A file that   *)
(* is there can be read. The bounce message is itself a mail that goes the *)
(* same way; here it is queued or not.                                     *)
(*                                                                         *)
(* What a verdict says and what the server did differ in three ways, which *)
(* the histories unnoticed and unserved keep apart for each recipient: the *)
(* server took a mail and the exchange does not know it (the connection is *)
(* lost after the data, the answer cannot be read, LMTP's answers are put  *)
(* to the wrong recipients), the exchange counts somebody as served who is *)
(* not (LMTP again), and it has somebody in none of its lists (251).       *)
(***************************************************************************)
EXTENDS Integers, FiniteSets, Sequences

CONSTANTS
  Rcpt,            (* the recipients of one transaction                    *)
  DeliveryLists,   (* what get_deliveries may return: recipients by domain *)
  MaxFailures,     (* the length of temp_fail_intervals                    *)
  Slots,           (* concurrency_max                                      *)
  MaxMails,        (* bound: queue files written                           *)
  MaxMishaps       (* bound: crashes, writes and renames that fail, DELAYs *)
                   (* by send_email hooks, mails taken without notice and  *)
                   (* attempts blocked, all together                       *)

ASSUME DeliveriesTyped == DeliveryLists \subseteq Seq((SUBSET Rcpt) \ {{}}) \ {<<>>}
ASSUME OneDelivery     == \A d \in DeliveryLists : \A i, j \in DOMAIN d :
                            i # j => d[i] \cap d[j] = {}
ASSUME NumbersTyped    == /\ {MaxFailures, MaxMails, MaxMishaps} \subseteq Nat
                          /\ Slots \in Nat \ {0}

VARIABLES
  nullSender,  (* mail_from is <>                                          *)
  deliveries,  (* the recipients of the transaction, by domain             *)
  reply,       (* what the callback of send_trans_email was told           *)
  used,        (* queue files written so far: the mails are 1..used        *)
  mail,        (* the mails                                                *)
  delivered,   (* history: times a server took the mail for a recipient    *)
  unnoticed,   (* history: for whom one took it and the exchange missed it *)
  unserved,    (* history: whom a mail let go whom no server took it for   *)
  mishaps,     (* how many there were                                      *)
  crashed,     (* history: the process crashed and was started again       *)
  bounceFailed,(* history: a bounce message could not be queued            *)
  splitFailed  (* history: split_to_new_recipients met an error            *)

transaction == <<nullSender, deliveries>>

history == <<delivered, unnoticed, unserved, bounceFailed>>

vars == <<transaction, reply, used, mail, history, mishaps, crashed, splitFailed>>

Mail == 1..MaxMails

(* Where an HMailItem is: held by send_trans_email, fresh from a split, in  *)
(* one of the queues, with an attempt or a rename under way, blocked when    *)
(* its attempt ended with no verdict, or ending, when all that is left is    *)
(* calls that each discard it once.                                         *)
Places == {"none", "held", "split", "load", "queue", "sending", "blocked", "renaming",
           "timer", "ending"}

Blank == [disk |-> "none", rcpts |-> {}, attempts |-> 0, failures |-> 0, at |-> "none",
          refcount |-> 1, slot |-> "none", hooked |-> FALSE, toDefer |-> {}, toBounce |-> {},
          bounces |-> 0, origin |-> 0, cause |-> "none", told |-> FALSE, dropped |-> FALSE]

NewMail(rcpts, place) == [Blank EXCEPT !.disk = "file", !.rcpts = rcpts, !.at = place]
-----------------------------------------------------------------------------
(* What the methods of HMailItem make of a mail. *)

(* next_cb gives the slot of the delivery queue back. A second call for one *)
(* task is an error async throws.                                           *)
NextCb(m) == [m EXCEPT !.slot = IF @ = "held" THEN "freed"
                                ELSE IF @ = "freed" THEN "freed twice" ELSE @]

(* The file is unlinked and the task of the delivery queue ends. *)
Gone(m) == NextCb([m EXCEPT !.disk = "unlinking", !.at = "none", !.failures = 0])

Unreferenced(m) == m.refcount = 0

Discard(m) ==
  LET n == [m EXCEPT !.refcount = @ - 1]
  IN  IF Unreferenced(n) THEN Gone(n) ELSE n

DoubleBounce(m) == Gone([m EXCEPT !.dropped = TRUE])

(* bounce and bounce_respond: a plugin stops it, or the sender is told, if   *)
(* there is one.                                                            *)
Bounced(m) ==
  {Discard([m EXCEPT !.dropped = TRUE]),
   IF nullSender THEN DoubleBounce(m)
   ELSE [m EXCEPT !.bounces = @ + 1, !.at = IF @ = "none" THEN @ ELSE "ending"]}

(* temp_fail_intervals has run out. *)
TooMany(m) == m.failures > MaxFailures

(* temp_fail and deferred_respond: too many failures, dropped by a plugin,  *)
(* or renamed to wait.                                                      *)
TempFailed(m) ==
  LET n == [m EXCEPT !.failures = @ + 1]
  IN  IF TooMany(n) THEN Bounced(n)
      ELSE {Discard([n EXCEPT !.dropped = TRUE]), [n EXCEPT !.at = "renaming"]}
-----------------------------------------------------------------------------
Init ==
  /\ nullSender \in BOOLEAN /\ deliveries \in DeliveryLists
  /\ reply = "none" /\ used = 0
  /\ mail = [f \in Mail |-> Blank]
  /\ delivered = [r \in Rcpt |-> 0] /\ unnoticed = {} /\ unserved = {}
  /\ mishaps = 0 /\ crashed = FALSE /\ splitFailed = FALSE /\ bounceFailed = FALSE

Become(f, m) == mail' = [mail EXCEPT ![f] = m]

Mishap == mishaps < MaxMishaps /\ mishaps' = mishaps + 1

(* process_delivery: one more file written and renamed. With the last of    *)
(* them the client is told OK and all are pushed.                           *)
ProcessDelivery ==
  /\ reply = "none" /\ used < MaxMails
  /\ used' = used + 1
  /\ LET written == [mail EXCEPT ![used'] = NewMail(deliveries[used'], "held")]
     IN  IF used' < Len(deliveries) THEN mail' = written /\ UNCHANGED reply
         ELSE /\ mail' = [f \in Mail |-> IF f <= used' THEN [written[f] EXCEPT !.at = "queue"]
                                                      ELSE written[f]]
              /\ reply' = "ok"
  /\ UNCHANGED <<history, transaction, mishaps, crashed, splitFailed>>

(* A write or a rename failed: the files written so far are unlinked.       *)
RefuseDelivery ==
  /\ reply = "none" /\ Mishap
  /\ reply' = "refused"
  /\ mail' = [f \in Mail |-> IF mail[f].at = "held" THEN Gone(mail[f]) ELSE mail[f]]
  /\ UNCHANGED <<transaction, used, history, crashed, splitFailed>>

(* Mutant: a mail that was put off before is not loaded. *)
Loaded_Untried(m) == m.disk = "file" /\ m.attempts = 0

Loaded(m) == m.disk = "file"

(* A crash, and load_queue: each file left is to be loaded. Of the unlinks  *)
(* that were ordered some were done.                                        *)
Restart ==
  /\ Mishap /\ crashed' = TRUE
  /\ reply' = IF reply = "none" THEN "lost" ELSE reply
  /\ \E done \in SUBSET {f \in Mail : mail[f].disk = "unlinking"} :
       mail' = [f \in Mail |->
         LET m == [mail[f] EXCEPT !.disk = IF f \in done \/ @ = "none" THEN "none" ELSE "file"]
         IN  [Blank EXCEPT !.disk = m.disk, !.rcpts = m.rcpts, !.told = m.told,
                           !.dropped = m.dropped, !.attempts = m.attempts,
                           !.failures = m.attempts,
                           !.at = IF Loaded(m) THEN "load" ELSE "none"]]
  /\ UNCHANGED <<transaction, used, history, splitFailed>>

(* _add_file, the load queue, and _add_hmail, which may set a timer again.  *)
Load(f) ==
  /\ mail[f].at = "load"
  /\ \E place \in {"queue", "timer"} : Become(f, [mail[f] EXCEPT !.at = place])
  /\ UNCHANGED <<reply, used, history, transaction, mishaps, crashed, splitFailed>>

TimerFires(f) ==
  /\ mail[f].at = "timer"
  /\ Become(f, [mail[f] EXCEPT !.at = "queue"])
  /\ UNCHANGED <<reply, used, history, transaction, mishaps, crashed, splitFailed>>

(* The delivery queue runs a task when it has a slot. *)
Send(f) ==
  /\ mail[f].at = "queue"
  /\ Cardinality({g \in Mail : mail[g].slot = "held"}) < Slots
  /\ Become(f, [mail[f] EXCEPT !.at = "sending", !.slot = "held"])
  /\ UNCHANGED <<reply, used, history, transaction, mishaps, crashed, splitFailed>>

(* Mutant: the slot is kept. *)
Delayed_KeepingSlot(m) == [m EXCEPT !.at = "timer"]

Delayed(m) == NextCb([m EXCEPT !.at = "timer"])

SendDelayed(f) ==
  /\ mail[f].at = "sending"
  /\ Mishap
  /\ Become(f, Delayed(mail[f]))
  /\ UNCHANGED <<transaction, reply, used, history, crashed, splitFailed>>

Serve(S) == delivered' = [r \in Rcpt |-> IF r \in S THEN delivered[r] + 1 ELSE delivered[r]]

(* The server takes the mail, and the connection is lost before the answer   *)
(* to the data is read (the next host is tried), or the answer cannot be     *)
(* read, or it is one of LMTP's that is put to another recipient.            *)
Taken(f) ==
  /\ mail[f].at = "sending" /\ Mishap
  /\ \E S \in (SUBSET mail[f].rcpts) \ {{}} : Serve(S) /\ unnoticed' = unnoticed \cup S
  /\ UNCHANGED <<transaction, reply, used, mail, unserved, bounceFailed, crashed, splitFailed>>

(* Forced TLS: the command is not sent, over a plain connection of the pool  *)
(* or after EHLO was refused, and nothing else is done.                      *)
SendBlocked(f) ==
  /\ mail[f].at = "sending" /\ Mishap
  /\ Become(f, [mail[f] EXCEPT !.at = "blocked"])
  /\ UNCHANGED <<transaction, reply, used, history, crashed, splitFailed>>

(* Mutants: the refcount is not raised for the splits; the mail waits with  *)
(* all its recipients when some were put off.                               *)
Parted_Uncounted(m, ok, fail, refused) ==
  {[m EXCEPT !.at = "ending", !.hooked = ok # {}, !.toDefer = fail, !.toBounce = refused]}

Parted_Whole(m, ok, fail, refused) ==
  IF fail # {} THEN TempFailed(m)
  ELSE IF refused = m.rcpts THEN Bounced(m)
  ELSE IF ok \cup refused = {} THEN {Discard(m)}
  ELSE {[m EXCEPT !.at = "ending", !.hooked = ok # {}, !.toBounce = refused,
                  !.refcount = Cardinality({p \in {ok, refused} : p # {}})]}

(* finish_processing_mail: who failed is split off, unless all failed the   *)
(* same way. The delivered hook and each split discard the mail once; so it  *)
(* is gone at once when all were answered 251 and no list has anybody.       *)
Parted(m, ok, fail, refused) ==
  IF fail = m.rcpts THEN TempFailed(m)
  ELSE IF refused = m.rcpts THEN Bounced(m)
  ELSE IF ok \cup fail \cup refused = {} THEN {Discard(m)}
  ELSE {[m EXCEPT !.at = "ending", !.hooked = ok # {}, !.toDefer = fail, !.toBounce = refused,
                  !.refcount = Cardinality({p \in {ok, fail, refused} : p # {}})]}

(* A delivery attempt ends, with three lists that need not have everybody;   *)
(* temp_fail and bounce are as if all had failed. The server took the mail   *)
(* for those of ok, and it may have for those in no list if there was data   *)
(* to take. Only LMTP counts others as served, each in the place of one it   *)
(* has put in another list.                                                  *)
Attempted(f) ==
  /\ mail[f].at = "sending"
  /\ \E ok \in SUBSET mail[f].rcpts :
     \E fail \in SUBSET (mail[f].rcpts \ ok) :
     \E refused \in SUBSET (mail[f].rcpts \ (ok \cup fail)) :
     \E got \in SUBSET (mail[f].rcpts \ (fail \cup refused)) :
       /\ ok = {} => got = {}
       /\ Cardinality(ok \ got) <= Cardinality(unnoticed \cap (fail \cup refused))
       /\ Serve(got)
       /\ unserved' = unserved \cup (mail[f].rcpts \ (fail \cup refused \cup got))
       /\ \E m \in Parted(mail[f], ok, fail, refused) : Become(f, m)
  /\ UNCHANGED <<transaction, reply, used, unnoticed, bounceFailed, mishaps, crashed, splitFailed>>

DeliveredRespond(f) ==
  /\ mail[f].hooked
  /\ Become(f, Discard([mail[f] EXCEPT !.hooked = FALSE]))
  /\ UNCHANGED <<reply, used, history, transaction, mishaps, crashed, splitFailed>>

(* split_to_new_recipients has written and renamed a new file.              *)
SplitWritten(f, cause) ==
  /\ used < MaxMails
  /\ used' = used + 1
  /\ \/ /\ cause = "deferred" /\ mail[f].toDefer # {}
        /\ mail' = [mail EXCEPT ![f].toDefer = {},
             ![used'] = [NewMail(mail[f].toDefer, "split") EXCEPT !.origin = f, !.cause = cause]]
     \/ /\ cause = "refused" /\ mail[f].toBounce # {}
        /\ mail' = [mail EXCEPT ![f].toBounce = {},
             ![used'] = [NewMail(mail[f].toBounce, "split") EXCEPT !.origin = f, !.cause = cause]]
  /\ UNCHANGED <<reply, history, transaction, mishaps, crashed, splitFailed>>

(* Its HMailItem is ready: only now the old mail is discarded.              *)
SplitReady(g) ==
  /\ mail[g].at = "split"
  /\ \E m \in IF mail[g].cause = "deferred" THEN TempFailed(mail[g]) ELSE Bounced(mail[g]) :
       mail' = [mail EXCEPT ![g] = [m EXCEPT !.origin = 0, !.cause = "none"],
                            ![mail[g].origin] = Discard(@)]
  /\ UNCHANGED <<reply, used, history, transaction, mishaps, crashed, splitFailed>>

(* The whole mail is bounced instead: once, or twice if the file could not  *)
(* be written, for then the stream has two error handlers.                  *)
SplitFails(f) ==
  /\ Mishap /\ splitFailed' = TRUE
  /\ \E n \in {n \in {[mail[f] EXCEPT !.toDefer = {}], [mail[f] EXCEPT !.toBounce = {}]} :
                 n # mail[f]} :
       \E once \in Bounced(n) : \E m \in {once} \cup Bounced(once) : Become(f, m)
  /\ UNCHANGED <<transaction, reply, used, history, crashed>>

(* deferred_respond, when the rename is done: the failures are in the name. *)
Renamed(f) ==
  /\ mail[f].at = "renaming"
  /\ Become(f, NextCb([mail[f] EXCEPT !.attempts = mail[f].failures, !.at = "timer"]))
  /\ UNCHANGED <<reply, used, history, transaction, mishaps, crashed, splitFailed>>

Unrenamed(m) == Bounced(m)

RenameFails(f) ==
  /\ mail[f].at = "renaming" /\ Mishap
  /\ \E m \in Unrenamed(mail[f]) : Become(f, m)
  /\ UNCHANGED <<transaction, reply, used, history, crashed, splitFailed>>

(* The callback of send_email for the bounce message: it is in the queue.    *)
BounceQueued(f) ==
  /\ mail[f].bounces > 0
  /\ Become(f, Discard([mail[f] EXCEPT !.bounces = @ - 1, !.told = TRUE]))
  /\ UNCHANGED <<reply, used, history, transaction, mishaps, crashed, splitFailed>>

(* The bounce message could not be made up or queued: double_bounce unlinks  *)
(* the file and calls next_cb, whatever else refers to the mail.             *)
BounceFails(f) ==
  /\ mail[f].bounces > 0 /\ Mishap
  /\ Become(f, DoubleBounce([mail[f] EXCEPT !.bounces = @ - 1])) /\ bounceFailed' = TRUE
  /\ UNCHANGED <<transaction, reply, used, delivered, unnoticed, unserved, crashed, splitFailed>>

(* What the process does of itself. *)
Progress ==
  \/ ProcessDelivery
  \/ \E f \in Mail :
       \/ Load(f) \/ TimerFires(f) \/ Send(f) \/ Attempted(f)
       \/ DeliveredRespond(f) \/ SplitReady(f) \/ Renamed(f) \/ BounceQueued(f)
       \/ \E cause \in {"deferred", "refused"} : SplitWritten(f, cause)

Next ==
  \/ Progress
  \/ RefuseDelivery \/ Restart
  \/ \E f \in Mail : SendDelayed(f) \/ Taken(f) \/ SendBlocked(f)
                     \/ SplitFails(f) \/ RenameFails(f) \/ BounceFails(f)

(* Timers fire, files are written, hooks answer and attempts end in a verdict, *)
(* unless forced TLS blocks them: such an attempt is over and never gets one. *)
Spec == Init /\ [][Next]_vars /\ WF_vars(Progress)
-----------------------------------------------------------------------------
MailType ==
  [disk : {"none", "file", "unlinking"}, rcpts : SUBSET Rcpt, attempts : 0..MaxFailures,
   failures : 0..(MaxFailures + 1), at : Places, refcount : Int,
   slot : {"none", "held", "freed", "freed twice"}, hooked : BOOLEAN, toDefer : SUBSET Rcpt,
   toBounce : SUBSET Rcpt, bounces : Nat, origin : 0..MaxMails,
   cause : {"none", "deferred", "refused"}, told : BOOLEAN, dropped : BOOLEAN]

TypeOK ==
  /\ deliveries \in DeliveryLists
  /\ {nullSender, crashed, splitFailed, bounceFailed} \subseteq BOOLEAN
  /\ reply \in {"none", "ok", "refused", "lost"}
  /\ used \in 0..MaxMails
  /\ mail \in [Mail -> MailType]
  /\ delivered \in [Rcpt -> Nat] /\ {unnoticed, unserved} \subseteq SUBSET Rcpt
  /\ mishaps \in 0..MaxMishaps

(* A recipient's fate is known: he has the mail, the sender was told, or it *)
(* was given up: by a plugin, because a bounce has no sender to be told, or *)
(* because the bounce message could not be queued.                          *)
GivenUp == {r \in Rcpt : \E f \in Mail : r \in mail[f].rcpts /\ (mail[f].told \/ mail[f].dropped)}

Resolved(r) == delivered[r] > 0 \/ r \in GivenUp

(* send_trans_email answered "Message Queued": from then on every recipient *)
(* has his fate, or is in a queue file that a crash at this moment leaves.  *)
(* Except who was answered 251 and put in no list, or counted as served by   *)
(* LMTP in another's place: he is let go and nobody is told.                 *)
NobodyLost ==
  reply = "ok" => \A n \in DOMAIN deliveries : \A r \in deliveries[n] :
    Resolved(r) \/ r \in unserved \/ \E f \in Mail : mail[f].disk = "file" /\ r \in mail[f].rcpts

(* The queue keeps the promise its answer makes: who was served or given up *)
(* is so for good, however the mail is split, put off, renamed and bounced.  *)
(* The promise excepts a crash, an error while splitting, and the recipient  *)
(* for whom a server took the mail unnoticed: he may get it again, or be     *)
(* given up though he has it.                                                *)
Promise == INSTANCE MailPromise WITH
  answer   <- reply,
  served   <- delivered,
  failed   <- GivenUp,
  mistaken <- splitFailed

PromiseKept == Promise!Spec

(* A task of the delivery queue calls back exactly once: while the mail is  *)
(* worked on, or blocked, it holds its slot, and afterwards it has given it  *)
(* back, once. Only after an error while splitting may a mail call twice: one *)
(* without a sender, or one when a bounce message could not be queued.       *)
SlotsExact ==
  \A f \in Mail :
    /\ mail[f].slot = "held" => mail[f].at \in {"sending", "blocked", "renaming", "ending"}
    /\ mail[f].at \in {"sending", "blocked"} => mail[f].slot = "held"
    /\ mail[f].slot = "freed twice" => splitFailed /\ (nullSender \/ bounceFailed)

(* In the end every recipient of an accepted mail has his fate, and no slot *)
(* of the delivery queue is held, if the bound on the mails is not reached.  *)
(* Excepted are who was let go unserved, a mail that forced TLS blocks,      *)
(* which keeps its file and its slot until a restart, and every recipient    *)
(* when such mails have all the slots.                                       *)
Stuck == {f \in Mail : mail[f].at = "blocked"}

Settled(r) == Resolved(r) \/ r \in unserved \/ \E f \in Stuck : r \in mail[f].rcpts

EventuallyResolved ==
  []<>(\/ crashed /\ used = MaxMails
       \/ /\ \A f \in Mail : mail[f].slot = "held" => f \in Stuck
          /\ reply = "ok" /\ Cardinality(Stuck) < Slots =>
               \A n \in DOMAIN deliveries : \A r \in deliveries[n] : Settled(r))
=============================================================================
