------------------------------ MODULE SmtpProofs ------------------------------
(***************************************************************************)
(* Proofs about the two ends of a mail's way over SMTP: the store the web   *)
(* client reads (SmtpService), for any number of addresses, sockets and     *)
(* mails, and the client that forwards a mail to a backend while its sender *)
(* waits (SmtpClient), for any number of mails and recipients and every     *)
(* setting but XCLIENT together with AUTH.                                  *)
(***************************************************************************)
EXTENDS SmtpService, SmtpClient, FiniteSetTheorems, TLAPS

-----------------------------------------------------------------------------
(* SmtpService                                                              *)

LEMMA ListsTyped ==
  ASSUME StoreTypeOK, NEW a \in Address PROVE AllMails(a) \in Lists
  BY DEF StoreTypeOK, AllMails, InMails, OutMails, Lists

(* An address is known by a socket that joined with it. *)
JoinedOwn == \A a \in Address : connected[a] # NoSocket => a = Owner[connected[a]]

(* What was answered "Sent" is stored. *)
SentStored == \A m \in Letter : request[m] = "sent" /\ To[m] \in Address => mailsList[m] > 0

StoreInv == /\ StoreTypeOK /\ JoinedOwn /\ SentStored /\ ConnectedOpen /\ InboxCurrent /\ SentShown

LEMMA StoreBegins == StoreInit => StoreInv
  <1>. SUFFICES ASSUME StoreInit PROVE StoreInv
    OBVIOUS
  <1>1. StoreTypeOK
    BY DEF StoreInit, StoreTypeOK
  <1>2. JoinedOwn /\ SentStored /\ ConnectedOpen
    BY DEF StoreInit, JoinedOwn, SentStored, ConnectedOpen
  <1>3. InboxCurrent /\ SentShown
    BY NullsDistinct DEF StoreInit, InboxCurrent, SentShown
  <1>. QED  BY <1>1, <1>2, <1>3 DEF StoreInv

LEMMA ProcessMailTyped ==
  ASSUME StoreInv, NEW m \in Letter, NEW updateUser \in SUBSET Address,
         ProcessMail(m, updateUser)
  PROVE  /\ mailsList' \in [Letter -> Nat] /\ notices' \in [Address -> Nat]
         /\ stale' \subseteq Socket
  <1>1. mailsList' \in [Letter -> Nat] /\ notices' \in [Address -> Nat]
    BY DEF ProcessMail, StoreInv, StoreTypeOK
  <1>2. \A a \in Address : Told(a) \subseteq Socket
    BY DEF Told
  <1>3. Nudged(m, updateUser) \subseteq Address
    BY DEF Nudged
  <1>4. stale' \subseteq Socket
    BY <1>2, <1>3 DEF ProcessMail, StoreInv, StoreTypeOK
  <1>. QED  BY <1>1, <1>4

(* Storing a mail keeps every list current or tells its client. *)
LEMMA ProcessMailShown ==
  ASSUME StoreInv, NEW m \in Letter, NEW updateUser \in SUBSET Address,
         ProcessMail(m, updateUser),
         \A k \in Letter : request'[k] = request[k] \/ (k = m /\ From[m] \in updateUser)
  PROVE  JoinedOwn' /\ ConnectedOpen' /\ InboxCurrent' /\ SentShown'
  <1>. USE NullsDistinct, MailsTyped DEF StoreInv, StoreTypeOK
  <1>1. conn' = conn /\ connected' = connected /\ lists' = lists
    BY DEF ProcessMail
  <1>2. JoinedOwn' /\ ConnectedOpen'
    BY <1>1 DEF JoinedOwn, ConnectedOpen, IsOpen
  <1>3. ASSUME NEW a \in Address, NEW s \in Socket, connected[a] = s,
               a \in Nudged(m, updateUser)
        PROVE  s \in stale'
    <2>1. s \in Told(a)
      BY <1>1, <1>3 DEF Told
    <2>. QED  BY <1>3, <2>1 DEF ProcessMail
  <1>4. stale \subseteq stale'
    BY DEF ProcessMail
  <1>5. ASSUME NEW a \in Address, NEW s \in Socket, connected'[a] = s, s \notin stale'
        PROVE  lists'[s] # NoLists /\ lists'[s].in = InMails(a)'
    <2>1. connected[a] = s /\ s \notin stale
      BY <1>1, <1>4, <1>5
    <2>2. a \notin Nudged(m, updateUser)
      BY <1>3, <1>5, <2>1
    <2>3. InMails(a)' = InMails(a)
      BY <2>2 DEF ProcessMail, InMails, Nudged
    <2>. QED  BY <1>1, <2>1, <2>3 DEF InboxCurrent
  <1>6. ASSUME NEW k \in Letter, NEW s \in Socket, request'[k] = "sent", To[k] \in Address,
               connected'[From[k]] = s, s \notin stale'
        PROVE  lists'[s] # NoLists /\ lists'[s].out[k] > 0
    <2>1. connected[From[k]] = s /\ s \notin stale
      BY <1>1, <1>4, <1>6
    <2>2. From[k] \notin updateUser
      BY <1>3, <1>6, <2>1 DEF Nudged
    <2>3. request[k] = "sent"
      BY <1>6, <2>2
    <2>. QED  BY <1>1, <1>6, <2>1, <2>3 DEF SentShown
  <1>. QED  BY <1>2, <1>5, <1>6 DEF InboxCurrent, SentShown

LEMMA ProcessMailStored ==
  ASSUME StoreInv, NEW m \in Letter, NEW updateUser \in SUBSET Address,
         ProcessMail(m, updateUser),
         \A k \in Letter : request'[k] = request[k] \/ k = m
  PROVE  SentStored'
  BY MailsTyped DEF StoreInv, StoreTypeOK, ProcessMail, SentStored

LEMMA StoreKeeps == StoreInv /\ [StoreNext]_store_vars => StoreInv'
  <1>. SUFFICES ASSUME StoreInv, [StoreNext]_store_vars PROVE StoreInv'
    OBVIOUS
  <1>. USE NullsDistinct, MailsTyped, OwnersTyped
  <1>1. ASSUME NEW s \in Socket, Connect(s) PROVE StoreInv'
    BY <1>1 DEF Connect, StoreInv, StoreTypeOK, JoinedOwn, SentStored, ConnectedOpen, InboxCurrent,
                SentShown, IsOpen, InMails
  <1>2. ASSUME NEW s \in Socket, JoinClient(s) PROVE StoreInv'
    <2>1. s \in stale' /\ stale \subseteq stale' /\ stale' \subseteq Socket
      BY <1>2 DEF JoinClient, Told, StoreInv, StoreTypeOK
    <2>2. \A a \in Address : connected'[a] = IF a = Owner[s] THEN s ELSE connected[a]
      BY <1>2 DEF JoinClient, StoreInv, StoreTypeOK
    <2>3. StoreTypeOK' /\ JoinedOwn' /\ SentStored' /\ ConnectedOpen'
      BY <1>2, <2>1, <2>2
         DEF JoinClient, StoreInv, StoreTypeOK, JoinedOwn, SentStored, ConnectedOpen, IsOpen
    <2>4. InboxCurrent' /\ SentShown'
      BY <1>2, <2>1, <2>2 DEF JoinClient, StoreInv, StoreTypeOK, InboxCurrent, SentShown, InMails
    <2>. QED  BY <2>3, <2>4 DEF StoreInv
  <1>3. ASSUME NEW s \in Socket, Disconnect(s) PROVE StoreInv'
    <2>1. StoreTypeOK' /\ JoinedOwn' /\ SentStored' /\ ConnectedOpen'
      BY <1>3 DEF Disconnect, Forgotten, StoreInv, StoreTypeOK, JoinedOwn, SentStored,
                  ConnectedOpen, IsOpen
    <2>2. InboxCurrent' /\ SentShown'
      BY <1>3 DEF Disconnect, StoreInv, StoreTypeOK, InboxCurrent, SentShown, InMails
    <2>. QED  BY <2>1, <2>2 DEF StoreInv
  <1>4. ASSUME NEW s \in Socket, Fetch(s) PROVE StoreInv'
    <2>1. AllMails(Owner[s]) \in Lists
      BY ListsTyped DEF StoreInv
    <2>2. StoreTypeOK' /\ JoinedOwn' /\ SentStored' /\ ConnectedOpen'
      BY <1>4, <2>1 DEF Fetch, StoreInv, StoreTypeOK, JoinedOwn, SentStored, ConnectedOpen, IsOpen
    <2>3. /\ lists'[s].in = InMails(Owner[s]) /\ lists'[s].out = OutMails(Owner[s])
          /\ lists'[s] # NoLists
      BY <1>4, <2>1, NoListsDistinct DEF Fetch, StoreInv, StoreTypeOK, AllMails, Lists
    <2>4. \A t \in Socket : t # s => lists'[t] = lists[t] /\ (t \in stale => t \in stale')
      BY <1>4 DEF Fetch, StoreInv, StoreTypeOK
    <2>5. InboxCurrent'
      <3>. SUFFICES ASSUME NEW a \in Address, NEW t \in Socket, connected[a] = t
                    PROVE  t \in stale' \/ (lists'[t] # NoLists /\ lists'[t].in = InMails(a))
        BY <1>4 DEF Fetch, InboxCurrent, InMails
      <3>1. CASE t = s
        BY <2>3, <3>1 DEF StoreInv, JoinedOwn
      <3>2. CASE t # s
        BY <2>4, <3>2 DEF StoreInv, InboxCurrent
      <3>. QED  BY <3>1, <3>2
    <2>6. SentShown'
      <3>. SUFFICES ASSUME NEW m \in Letter, NEW t \in Socket, request[m] = "sent",
                           To[m] \in Address, connected[From[m]] = t
                    PROVE  t \in stale' \/ (lists'[t] # NoLists /\ lists'[t].out[m] > 0)
        BY <1>4 DEF Fetch, SentShown
      <3>1. CASE t = s
        <4>1. From[m] = Owner[s] /\ mailsList[m] > 0
          BY <3>1 DEF StoreInv, JoinedOwn, SentStored
        <4>. QED  BY <2>3, <3>1, <4>1 DEF OutMails
      <3>2. CASE t # s
        BY <2>4, <3>2 DEF StoreInv, SentShown
      <3>. QED  BY <3>1, <3>2
    <2>. QED  BY <2>2, <2>5, <2>6 DEF StoreInv
  <1>5. ASSUME NEW m \in Letter, Send(m) \/ SendFailed(m) PROVE StoreInv'
    <2>1. StoreTypeOK'
      BY <1>5 DEF Send, SendFailed, StoreInv, StoreTypeOK
    <2>2. \A k \in Letter : request'[k] = "sent" => request[k] = "sent"
      BY <1>5 DEF Send, SendFailed, StoreInv, StoreTypeOK
    <2>. QED
      BY <1>5, <2>1, <2>2 DEF Send, SendFailed, StoreInv, JoinedOwn, SentStored,
                              ConnectedOpen, InboxCurrent, SentShown, IsOpen, InMails
  <1>10. ASSUME NEW m \in Letter, OnData(m) PROVE StoreInv'
    <2>1. StoreTypeOK'
      BY <1>10 DEF OnData, StoreInv, StoreTypeOK
    <2>. QED
      BY <1>10, <2>1 DEF OnData, StoreInv, JoinedOwn, SentStored,
                         ConnectedOpen, InboxCurrent, SentShown, IsOpen, InMails
  <1>6. ASSUME NEW m \in Letter, Sent(m) PROVE StoreInv'
    <2>1. ProcessMail(m, {From[m]}) /\ {From[m]} \in SUBSET Address
      BY <1>6 DEF Sent
    <2>2. /\ request' \in [Letter -> {"none", "sending", "sent", "failed"}]
          /\ parsing' = parsing
          /\ \A k \in Letter : request'[k] = request[k] \/ k = m
      BY <1>6 DEF Sent, StoreInv, StoreTypeOK
    <2>3. /\ mailsList' \in [Letter -> Nat] /\ notices' \in [Address -> Nat]
          /\ stale' \subseteq Socket
      BY <2>1, ProcessMailTyped
    <2>4. UNCHANGED <<conn, connected, delivered, lists>>
      BY <2>1 DEF ProcessMail
    <2>5. StoreTypeOK'
      BY <2>2, <2>3, <2>4 DEF StoreInv, StoreTypeOK
    <2>. QED  BY <2>1, <2>2, <2>5, ProcessMailStored, ProcessMailShown DEF StoreInv
  <1>7. ASSUME NEW m \in Letter, Parsed(m) PROVE StoreInv'
    <2>1. ProcessMail(m, {}) /\ request' = request
      BY <1>7 DEF Parsed
    <2>2. parsing' \in [Letter -> Nat]
      BY <1>7 DEF Parsed, Unparsed, StoreInv, StoreTypeOK
    <2>3. /\ mailsList' \in [Letter -> Nat] /\ notices' \in [Address -> Nat]
          /\ stale' \subseteq Socket
      BY <2>1, ProcessMailTyped
    <2>4. UNCHANGED <<conn, connected, delivered, lists>>
      BY <2>1 DEF ProcessMail
    <2>5. StoreTypeOK'
      BY <2>1, <2>2, <2>3, <2>4 DEF StoreInv, StoreTypeOK
    <2>. QED  BY <2>1, <2>5, ProcessMailStored, ProcessMailShown DEF StoreInv
  <1>8. ASSUME NEW a \in Address, PostNotice(a) PROVE StoreInv'
    BY <1>8 DEF PostNotice, StoreInv, StoreTypeOK, JoinedOwn, SentStored,
                ConnectedOpen, InboxCurrent, SentShown, IsOpen, InMails
  <1>9. CASE UNCHANGED store_vars
    BY <1>9 DEF store_vars, StoreInv, StoreTypeOK, JoinedOwn, SentStored,
                ConnectedOpen, InboxCurrent, SentShown, IsOpen, InMails
  <1>. QED  BY <1>1, <1>2, <1>3, <1>4, <1>5, <1>6, <1>7, <1>8, <1>9, <1>10 DEF StoreNext

(* The mail store's invariant, for any number of clients and mails. *)
THEOREM StoreInvariant == StoreSpec => []StoreInv
  BY StoreBegins, StoreKeeps, PTL DEF StoreSpec

(* The service keeps its state in its type: a mail is parsed as often as    *)
(* Haraka delivered it, no socket but a client's is known.                  *)
THEOREM TypeCorrect == StoreSpec => []StoreTypeOK
  <1>1. StoreInv => StoreTypeOK
    BY DEF StoreInv
  <1>. QED  BY <1>1, StoreInvariant, PTL

(* processMail and JOIN_CLIENT leave no joined client with an inbox that    *)
(* lacks a mail it was not told of.                                         *)
THEOREM InboxAlwaysCurrent == StoreSpec => []InboxCurrent
  <1>1. StoreInv => InboxCurrent
    BY DEF StoreInv
  <1>. QED  BY <1>1, StoreInvariant, PTL

(* A mail whose POST /send was answered "Sent" is in the sender's list, or  *)
(* the sender was told to fetch it.                                         *)
THEOREM SentAlwaysShown == StoreSpec => []SentShown
  <1>1. StoreInv => SentShown
    BY DEF StoreInv
  <1>. QED  BY <1>1, StoreInvariant, PTL

(* The disconnect handler leaves no closed socket known. *)
THEOREM ConnectedAlwaysOpen == StoreSpec => []ConnectedOpen
  <1>1. StoreInv => ConnectedOpen
    BY DEF StoreInv
  <1>. QED  BY <1>1, StoreInvariant, PTL

(* Only the disconnect handler forgets an address, and only for the socket  *)
(* it is known by: a client is not forgotten because an older tab goes.     *)
THEOREM NeverForgotten == StoreSpec => KeptUnlessGone
  <1>. DEFINE Kept == \A a \in Address : connected[a] # NoSocket /\ connected'[a] = NoSocket
                                          => conn'[connected[a]] = "closed"
  <1>1. ASSUME StoreInv, [StoreNext]_store_vars PROVE Kept
    <2>. USE <1>1, NullsDistinct, OwnersTyped DEF StoreInv, StoreTypeOK
    <2>1. ASSUME NEW s \in Socket, JoinClient(s) PROVE Kept
      BY <2>1 DEF JoinClient
    <2>2. ASSUME NEW s \in Socket, Disconnect(s) PROVE Kept
      BY <2>2 DEF Disconnect, Forgotten
    <2>3. ASSUME NEW s \in Socket, Connect(s) \/ Fetch(s) PROVE Kept
      BY <2>3 DEF Connect, Fetch
    <2>4. ASSUME NEW m \in Letter, Send(m) \/ Sent(m) \/ SendFailed(m) \/ OnData(m) \/ Parsed(m)
          PROVE  Kept
      BY <2>4 DEF Send, Sent, SendFailed, OnData, Parsed, ProcessMail
    <2>5. ASSUME NEW a \in Address, PostNotice(a) PROVE Kept
      BY <2>5 DEF PostNotice
    <2>6. CASE UNCHANGED store_vars
      BY <2>6 DEF store_vars
    <2>. QED  BY <2>1, <2>2, <2>3, <2>4, <2>5, <2>6 DEF StoreNext
  <1>2. StoreInv /\ [StoreNext]_store_vars => [Kept]_store_vars
    BY <1>1
  <1>. QED  BY <1>2, StoreInvariant, PTL DEF StoreSpec, KeptUnlessGone

-----------------------------------------------------------------------------
(* SmtpClient                                                               *)

Fits(command, arg) ==
  /\ arg \in 0..(Mails + Rcpts)
  /\ command = "mail" => arg \in 0..Mails
  /\ command = "rcpt" => arg \in Rcpt

Asked(k) == <<[command |-> k.command, arg |-> Head(k.wire).arg]>>

(* A client of a mail: it is nobody's to destroy, and at most one command,  *)
(* the one it remembers, is on its way.                                     *)
Kind(k) ==
  /\ k \in ClientRecord /\ k.pool = FALSE /\ k.state \in {"IDLE", "RELEASED"}
  /\ k.socket # "none" /\ (k.socket # "open" => k.wire = <<>>)
  /\ k.wire # <<>> => k.wire = Asked(k) /\ Fits(k.command, Head(k.wire).arg)

(* One that may send.                                                       *)
Free(k) == Kind(k) /\ k.socket = "open" /\ k.wire = <<>>

(* XCLIENT and AUTH are not both to be done: the listeners of smtp_forward  *)
(* and of get_client_plugin would each send theirs.                         *)
Separate == \A c \in Configs : c.auth = "none" \/ "XCLIENT" \notin c.offers

Set == cfg \in Configs /\ transaction \in 0..Mails /\ Separate

LEMMA Limits == Mails \in Nat /\ Rcpts \in Nat /\ Rcpts >= 1
  BY BoundsTyped

(* A record after it has sent the only command there is.                    *)
Written(k, cmd, arg) ==
  [k EXCEPT !.command = cmd, !.wire = <<[command |-> cmd, arg |-> arg]>>]

LEMMA Posts ==
  ASSUME NEW k, Free(k), NEW cmd \in Command, NEW arg, Fits(cmd, arg)
  PROVE  /\ Kind(SendCommand(k, cmd, arg))
         /\ SendCommand(k, cmd, arg) = Written(k, cmd, arg)
         /\ SendCommand(k, cmd, arg).command = cmd
  <1>. DEFINE line == [command |-> cmd, arg |-> arg]
  <1>1. line \in Line
    BY DEF Fits, Line
  <1>2. Append(k.wire, line) = <<line>> /\ <<line>> \in Seq(Line) /\ Head(<<line>>) = line
    BY <1>1 DEF Free, Kind
  <1>3. SendCommand(k, cmd, arg) = [k EXCEPT !.command = cmd, !.wire = <<line>>]
    BY <1>2 DEF SendCommand, Free, Kind, ClientRecord
  <1>. DEFINE r == [k EXCEPT !.command = cmd, !.wire = <<line>>]
  <1>. HIDE DEF line
  <1>4. r \in ClientRecord /\ r.pool = FALSE /\ r.state \in {"IDLE", "RELEASED"} /\ r.socket = "open"
        /\ r.command = cmd /\ r.wire = <<line>>
    BY <1>2 DEF Free, Kind, ClientRecord
  <1>. HIDE DEF r
  <1>5. Head(r.wire).arg = arg
    BY <1>2, <1>4 DEF line
  <1>6. Kind(r)
    BY <1>4, <1>5 DEF Kind, Asked, line
  <1>. QED  BY <1>3, <1>4, <1>6 DEF r, line, Written

LEMMA PostsNothing ==
  ASSUME NEW k, Free(k), NEW cmd \in Command \ {"mail", "rcpt"}
  PROVE  Kind(SendCommand(k, cmd, 0)) /\ SendCommand(k, cmd, 0).command = cmd
  <1>1. cmd \in Command /\ Fits(cmd, 0)
    BY Limits DEF Fits
  <1>. QED  BY <1>1, Posts

LEMMA FreeKind == ASSUME NEW k, Free(k) PROVE Kind(k)
  BY DEF Free

LEMMA DestroyNot == ASSUME NEW k, Kind(k) PROVE Destroy(k) = k
  BY DEF Kind, Destroy

(* Two clients that differ in nothing a command or a verdict rests on.      *)
Same(k, h) ==
  /\ h \in ClientRecord /\ h.state = k.state /\ h.pool = k.pool /\ h.socket = k.socket
  /\ h.command = k.command /\ h.next = k.next /\ h.listeners = k.listeners /\ h.rcpt = k.rcpt
  /\ h.wire = k.wire /\ h.from = k.from /\ h.to = k.to /\ h.answer = k.answer /\ h.txn = k.txn

LEMMA Alike ==
  ASSUME NEW k \in ClientRecord
  PROVE  /\ Same(k, Throw(k)) /\ Throw(k).auth = k.auth
         /\ Same(k, [k EXCEPT !.connected = TRUE])
         /\ [k EXCEPT !.connected = TRUE].auth = k.auth
         /\ Same(k, [k EXCEPT !.xclient = TRUE]) /\ [k EXCEPT !.xclient = TRUE].auth = k.auth
         /\ Same(k, [k EXCEPT !.auth = "authenticated"])
         /\ [k EXCEPT !.auth = "authenticated"].auth = "authenticated"
  <1>1. Same(k, [k EXCEPT !.throws = TRUE]) /\ [k EXCEPT !.throws = TRUE].auth = k.auth
    BY DEF Same, ClientRecord
  <1>2. Same(k, [k EXCEPT !.connected = TRUE]) /\ [k EXCEPT !.connected = TRUE].auth = k.auth
    BY DEF Same, ClientRecord
  <1>3. Same(k, [k EXCEPT !.xclient = TRUE]) /\ [k EXCEPT !.xclient = TRUE].auth = k.auth
    BY DEF Same, ClientRecord
  <1>4. /\ Same(k, [k EXCEPT !.auth = "authenticated"])
        /\ [k EXCEPT !.auth = "authenticated"].auth = "authenticated"
    BY DEF Same, ClientRecord
  <1>. QED  BY <1>1, <1>2, <1>3, <1>4 DEF Throw

LEMMA SameFree == ASSUME NEW k, Free(k), NEW h, Same(k, h) PROVE Free(h)
  BY DEF Free, Kind, Same

LEMMA ThrowFree == ASSUME NEW k, Free(k) PROVE Free(Throw(k)) /\ Same(k, Throw(k))
  BY Alike, SameFree DEF Free, Kind

LEMMA CallNextFree == ASSUME NEW k, Free(k), NEW v \in Answer PROVE Free(CallNext(k, v))
  <1>1. Free([k EXCEPT !.next = FALSE, !.answer = v])
    BY DEF Free, Kind, ClientRecord
  <1>. QED  BY <1>1 DEF CallNext

LEMMA ReleaseKind == ASSUME NEW k, Free(k) PROVE Kind(Release(k))
  <1>. DEFINE r == [k EXCEPT !.state = "RELEASED", !.listeners = "released"]
  <1>1. Free(r)
    BY DEF Free, Kind, ClientRecord
  <1>. HIDE DEF r
  <1>2. Kind(SendCommand(r, "rset", 0))
    BY <1>1, PostsNothing DEF Command
  <1>. QED  BY <1>2, DestroyNot, FreeKind DEF Release, r

LEMMA UnlessKind ==
  ASSUME NEW k, Free(k), NEW after, transaction # 0 => Kind(after)
  PROVE  Kind(UnlessDeadSender(k, after))
  BY ReleaseKind DEF UnlessDeadSender

LEMMA SendMailKind == ASSUME Set, NEW k, Free(k) PROVE Kind(SendMail(k))
  <1>1. Fits("mail", transaction) /\ "mail" \in Command
    BY Limits DEF Fits, Set, Command
  <1>. QED  BY <1>1, Posts, UnlessKind DEF SendMail

LEMMA OnHeloKind == ASSUME Set, NEW k, Free(k) PROVE Kind(OnHelo(k))
  <1>1. Kind(SendCommand(k, "auth", 0))
    BY PostsNothing DEF Command
  <1>. QED  BY <1>1, SendMailKind, ThrowFree, FreeKind DEF OnHelo

LEMMA OnAuthKind == ASSUME Set, NEW k, Free(k) PROVE Kind(OnAuth(k))
  <1>. DEFINE r == [k EXCEPT !.auth = "authenticated"]
  <1>1. Free(r)
    BY DEF Free, Kind, ClientRecord
  <1>. HIDE DEF r
  <1>2. Fits("mail", transaction) /\ "mail" \in Command
    BY Limits DEF Fits, Set, Command
  <1>3. Kind(SendCommand(r, "mail", transaction))
    BY <1>1, <1>2, Posts
  <1>. QED  BY <1>3, UnlessKind, FreeKind DEF OnAuth, r

LEMMA CapabilitiesKind ==
  ASSUME Set, NEW k, Free(k)
  PROVE  /\ Kind(OnCapabilities(k))
         /\ OnCapabilities(k).command \in {"xclient", "starttls", "auth"} \/ Free(OnCapabilities(k))
  <1>1. CASE "XCLIENT" \in cfg.offers /\ ~k.xclient
    <2>1. onCapabilitiesOutbound(k) = SendCommand(k, "xclient", 0)
      BY <1>1 DEF onCapabilitiesOutbound
    <2>2. cfg.auth = "none"
      BY <1>1 DEF Set, Separate
    <2>. QED  BY <2>1, <2>2, PostsNothing DEF OnCapabilities, ForwardAuth, Command
  <1>2. CASE ~("XCLIENT" \in cfg.offers /\ ~k.xclient)
             /\ "STARTTLS" \in cfg.offers /\ k.secured # "yes" /\ cfg.enable_tls
    <2>. DEFINE r == [k EXCEPT !.secured = "pending"]
    <2>1. Free(r) /\ r.secured = "pending"
      BY DEF Free, Kind, ClientRecord
    <2>. HIDE DEF r
    <2>2. onCapabilitiesOutbound(k) = SendCommand(r, "starttls", 0)
      BY <1>2 DEF onCapabilitiesOutbound, r
    <2>3. SendCommand(r, "starttls", 0).secured = "pending"
      BY <2>1 DEF SendCommand, Free, Kind, ClientRecord
    <2>4. Kind(SendCommand(r, "starttls", 0)) /\ SendCommand(r, "starttls", 0).command = "starttls"
      BY <2>1, PostsNothing DEF Command
    <2>. QED  BY <2>2, <2>3, <2>4 DEF OnCapabilities, ForwardAuth
  <1>3. CASE ~("XCLIENT" \in cfg.offers /\ ~k.xclient)
             /\ ~("STARTTLS" \in cfg.offers /\ k.secured # "yes" /\ cfg.enable_tls)
    <2>. DEFINE offered == "AUTH" \in cfg.offers
                r == [k EXCEPT !.auth_capability = offered]
                l == [r EXCEPT !.auth = "authenticating"]
    <2>. HIDE DEF offered
    <2>1. offered \in BOOLEAN => Free(r)
      BY DEF Free, Kind, ClientRecord
    <2>0. offered \in BOOLEAN
      BY DEF offered
    <2>. HIDE DEF r
    <2>2. Free(l)
      BY <2>0, <2>1 DEF Free, Kind, ClientRecord
    <2>. HIDE DEF l
    <2>3. onCapabilitiesOutbound(k) = r
      BY <1>3 DEF onCapabilitiesOutbound, r, offered
    <2>4. /\ Kind(SendCommand(r, "auth", 0)) /\ SendCommand(r, "auth", 0).command = "auth"
          /\ Kind(SendCommand(l, "auth", 0)) /\ SendCommand(l, "auth", 0).command = "auth"
      BY <2>0, <2>1, <2>2, PostsNothing DEF Command
    <2>. QED  BY <2>0, <2>1, <2>3, <2>4, FreeKind DEF OnCapabilities, ForwardAuth, l
  <1>. QED  BY <1>1, <1>2, <1>3

LEMMA SendRcptKind == ASSUME Set, NEW k, Free(k) PROVE Kind(SendRcpt(k))
  <1>1. Kind(SendCommand(k, "data", 0))
    BY PostsNothing DEF Command
  <1>2. ASSUME k.rcpt # Rcpts PROVE Kind(SendCommand([k EXCEPT !.rcpt = @ + 1], "rcpt", k.rcpt + 1))
    <2>. DEFINE r == [k EXCEPT !.rcpt = @ + 1]
    <2>1. k.rcpt + 1 \in Rcpt /\ k.rcpt \in 0..Rcpts
      BY <1>2, Limits DEF Free, Kind, ClientRecord, Rcpt
    <2>2. Free(r)
      BY <2>1, Limits DEF Free, Kind, ClientRecord, Rcpt
    <2>. HIDE DEF r
    <2>3. Fits("rcpt", k.rcpt + 1) /\ "rcpt" \in Command
      BY <2>1, Limits DEF Fits, Rcpt, Command
    <2>4. Kind(SendCommand(r, "rcpt", k.rcpt + 1))
      BY <2>2, <2>3, Posts
    <2>. QED  BY <2>4 DEF r
  <1>. QED  BY <1>1, <1>2, UnlessKind DEF SendRcpt

LEMMA OnDotKind == ASSUME Set, NEW k, Free(k) PROVE Kind(OnDot(k))
  <1>1. Kind(SendCommand(k, "rset", 0))
    BY PostsNothing DEF Command
  <1>2. Kind(Release(CallNext(k, "OK")))
    BY CallNextFree, ReleaseKind DEF Answer
  <1>. QED  BY <1>1, <1>2, UnlessKind DEF OnDot

LEMMA OnRsetKind == ASSUME Set, NEW k, Free(k) PROVE Kind(OnRset(k))
  <1>1. Kind([k EXCEPT !.state = "IDLE", !.listeners = "none"])
    BY DEF Free, Kind, ClientRecord
  <1>2. CASE k.listeners = "plugin"
    <2>1. Fits("mail", k.txn) /\ "mail" \in Command
      BY Limits DEF Fits, Command, Free, Kind, ClientRecord
    <2>2. Kind(SendCommand(k, "mail", k.txn))
      BY <2>1, Posts
    <2>. QED  BY <1>2, <2>2, UnlessKind DEF OnRset
  <1>3. CASE k.listeners # "plugin"
    BY <1>1, <1>3, FreeKind DEF OnRset
  <1>. QED  BY <1>2, <1>3

LEMMA OnBadCodeKind == ASSUME NEW k, Free(k), NEW code PROVE Kind(OnBadCode(k, code))
  <1>1. Kind(Release(CallNext(k, IF code = "5" THEN "DENY" ELSE "DENYSOFT")))
    BY CallNextFree, ReleaseKind DEF Answer
  <1>2. CASE k.listeners = "plugin"
    BY <1>1, <1>2, UnlessKind DEF OnBadCode
  <1>3. CASE k.listeners # "plugin"
    BY <1>3, FreeKind, DestroyNot DEF OnBadCode
  <1>. QED  BY <1>2, <1>3

LEMMA SwitchKind == ASSUME Set, NEW k, Free(k) PROVE Kind(Switch(k))
  <1>1. ASSUME k.command = "xclient" PROVE Kind(Switch(k))
    <2>. DEFINE r == [k EXCEPT !.xclient = TRUE]
    <2>1. Free(r)
      BY DEF Free, Kind, ClientRecord
    <2>. HIDE DEF r
    <2>2. Kind(SendCommand(r, "ehlo", 0))
      BY <2>1, PostsNothing DEF Command
    <2>. QED  BY <1>1, <2>2 DEF Switch, r
  <1>2. ASSUME k.command = "starttls" PROVE Kind(Switch(k))
    BY <1>2 DEF Switch, Free, Kind, ClientRecord
  <1>3. ASSUME k.command = "greeting" PROVE Kind(Switch(k))
    <2>. DEFINE r == [k EXCEPT !.connected = TRUE]
    <2>1. Free(r)
      BY DEF Free, Kind, ClientRecord
    <2>2. Switch(k) = IF k.listeners = "plugin" THEN SendCommand(r, "ehlo", 0) ELSE r
      BY <1>3 DEF Switch
    <2>. HIDE DEF r
    <2>3. Kind(SendCommand(r, "ehlo", 0))
      BY <2>1, PostsNothing DEF Command
    <2>. QED  BY <2>1, <2>2, <2>3, FreeKind
  <1>4. ASSUME k.command \in {"ehlo", "helo"} PROVE Kind(Switch(k))
    BY <1>4, OnHeloKind DEF Switch
  <1>5. ASSUME k.command \in {"mail", "rcpt", "data", "dot", "rset", "auth"} PROVE Kind(Switch(k))
    <2>1. Kind(SendCommand(k, "data", 0)) /\ Kind(StartData(k))
      BY PostsNothing DEF Command, StartData
    <2>2. Kind(OnRcpt(k)) /\ Kind(UnlessDeadSender(k, StartData(k)))
      BY <2>1, SendRcptKind, UnlessKind DEF OnRcpt
    <2>. QED  BY <1>5, <2>2, SendRcptKind, OnDotKind, OnRsetKind, OnAuthKind DEF Switch
  <1>6. ASSUME k.command \in {"user", "pass"} PROVE Kind(Switch(k))
    BY <1>6, ThrowFree, FreeKind DEF Switch
  <1>. QED  BY <1>1, <1>2, <1>3, <1>4, <1>5, <1>6 DEF Free, Kind, ClientRecord, Command

LEMMA CodedKind == ASSUME Set, NEW k, Free(k), NEW code PROVE Kind(Coded(k, code))
  <1>. DEFINE h == [k EXCEPT !.command = "helo"]
  <1>1. Free(h)
    BY DEF Free, Kind, ClientRecord, Command
  <1>. HIDE DEF h
  <1>2. Kind(Switch(h)) /\ Kind(Switch(k)) /\ Kind(OnBadCode(k, code))
    BY <1>1, SwitchKind, OnBadCodeKind
  <1>3. ~MayGoOn(OnBadCode(k, code))
    BY <1>2 DEF MayGoOn, Kind
  <1>. QED  BY <1>2, <1>3 DEF Coded, h

LEMMA OnLineKind == ASSUME Set, NEW k, Free(k), NEW code PROVE Kind(OnLine(k, code))
  <1>. DEFINE a == [k EXCEPT !.auth = "authenticated"]
  <1>1. Free(a)
    BY DEF Free, Kind, ClientRecord
  <1>. HIDE DEF a
  <1>2. Kind(OnAuth(a)) /\ Kind(a)
    BY <1>1, OnAuthKind, FreeKind
  <1>3. Kind(SendCommand(k, "user", 0)) /\ Kind(SendCommand(k, "pass", 0)) /\ Kind(SendCommand(k, "helo", 0))
    BY PostsNothing DEF Command
  <1>4. Kind(Coded(k, code))
    BY CodedKind
  <1>. DEFINE o == OnCapabilities(k)
  <1>5. Kind(IF o.command # "ehlo" THEN o ELSE Coded(o, code))
    BY CapabilitiesKind, CodedKind
  <1>. HIDE DEF o
  <1>. QED  BY <1>2, <1>3, <1>4, <1>5 DEF OnLine, a, o
-----------------------------------------------------------------------------
(* The client whose mail the connection waits for                           *)

(* What is left of a record when a command has been sent.                   *)
Posted(r, k, cmd, arg) ==
  /\ r.wire # <<>> /\ Head(r.wire).arg = arg
  /\ r.command = cmd /\ r.socket = "open" /\ r.state = k.state
  /\ r.next = k.next /\ r.listeners = k.listeners /\ r.auth = k.auth
  /\ r.rcpt = k.rcpt /\ r.from = k.from /\ r.to = k.to /\ r.answer = k.answer /\ r.txn = k.txn

LEMMA PostsRest ==
  ASSUME NEW k, Free(k), NEW cmd \in Command, NEW arg, Fits(cmd, arg)
  PROVE  Posted(SendCommand(k, cmd, arg), k, cmd, arg)
  <1>. DEFINE line == [command |-> cmd, arg |-> arg]
              r == [k EXCEPT !.command = cmd, !.wire = <<line>>]
  <1>1. SendCommand(k, cmd, arg) = r
    <2>1. SendCommand(k, cmd, arg) = Written(k, cmd, arg)
      BY Posts
    <2>. QED  BY <2>1 DEF Written
  <1>2. Head(<<line>>) = line /\ line.arg = arg /\ <<line>> # <<>>
    OBVIOUS
  <1>. HIDE DEF line
  <1>3. /\ r.wire = <<line>>
        /\ r.command = cmd /\ r.socket = "open" /\ r.state = k.state
        /\ r.next = k.next /\ r.listeners = k.listeners /\ r.auth = k.auth
        /\ r.rcpt = k.rcpt /\ r.from = k.from /\ r.to = k.to /\ r.answer = k.answer /\ r.txn = k.txn
    BY DEF Free, Kind, ClientRecord
  <1>. HIDE DEF r
  <1>. QED  BY <1>1, <1>2, <1>3 DEF Posted

(* The commands before the first MAIL.                                      *)
Prelude == {"greeting", "ehlo", "helo", "xclient", "starttls", "auth", "user", "pass"}

(* What the backend holds, and how far the client is, when a command is on  *)
(* its way: with a message for each recipient, the last one's only.         *)
Phase(m, command, arg, auth, rcpt, from, to) ==
  /\ auth = "authenticating" => command \in {"auth", "user", "pass"}
  /\ command \in Prelude => rcpt = 0
  /\ command = "mail" => arg = m /\ rcpt < Rcpts /\ (rcpt = 0 \/ cfg.one_message_per_rcpt)
  /\ command = "rcpt" => /\ arg = rcpt /\ rcpt >= 1 /\ from = m
                         /\ to = IF cfg.one_message_per_rcpt THEN {} ELSE 1..(rcpt - 1)
  /\ command \in {"data", "dot"} => /\ from = m /\ rcpt >= 1
                                    /\ IF cfg.one_message_per_rcpt THEN to = {rcpt}
                                       ELSE rcpt = Rcpts /\ to = Rcpt
  /\ command = "rset" => cfg.one_message_per_rcpt /\ rcpt < Rcpts

Eager(m, k) == k.next /\ k.listeners = "plugin" /\ k.txn = m

Going(m, k) ==
  /\ Eager(m, k)
  /\ k.socket = "upgrading" => k.rcpt = 0 /\ k.auth # "authenticating" /\ k.command = "starttls"
  /\ k.wire # <<>> =>
       Phase(m, k.command, Head(k.wire).arg, k.auth, k.rcpt, k.from, k.to)

(* The recipients that are done, the first ones.                            *)
BaseOf(command, rcpt) ==
  IF ~cfg.one_message_per_rcpt THEN 0
  ELSE IF command \in {"rcpt", "data", "dot"} THEN rcpt - 1 ELSE rcpt
Base(k) == BaseOf(k.command, k.rcpt)

(* A client that will not have the backend take anything any more.          *)
Idle(k) ==
  k.socket # "upgrading" /\ (k.wire # <<>> => k.command = "rset" /\ k.listeners = "released")

(* One that goes on from a point where n recipients are done.               *)
GoesOn(m, k, n) ==
  /\ k.answer = "none" /\ Going(m, k)
  /\ k.wire # <<>> \/ k.socket = "upgrading" => Base(k) = n

LEMMA GoingPosted ==
  ASSUME NEW m, NEW k, Free(k), Eager(m, k), k.answer = "none", NEW cmd \in Command, NEW arg,
         Fits(cmd, arg), Phase(m, cmd, arg, k.auth, k.rcpt, k.from, k.to),
         NEW n, n = BaseOf(cmd, k.rcpt)
  PROVE  GoesOn(m, SendCommand(k, cmd, arg), n)
  <1>. DEFINE r == SendCommand(k, cmd, arg)
  <1>1. /\ Head(r.wire).arg = arg
        /\ r.command = cmd /\ r.socket = "open"
        /\ r.next = k.next /\ r.listeners = k.listeners /\ r.auth = k.auth
        /\ r.rcpt = k.rcpt /\ r.from = k.from /\ r.to = k.to /\ r.answer = k.answer /\ r.txn = k.txn
    BY PostsRest DEF Posted
  <1>. HIDE DEF r
  <1>2. GoesOn(m, r, n)
    BY <1>1 DEF GoesOn, Going, Eager, Base
  <1>. QED  BY <1>2 DEF r

(* A listener that sends nothing and does not answer.                       *)
LEMMA GoingStill ==
  ASSUME NEW m, NEW k, Free(k), Eager(m, k), k.answer = "none", NEW n
  PROVE  GoesOn(m, k, n)
  BY DEF GoesOn, Going, Free

LEMMA ReleaseRest ==
  ASSUME NEW k, Free(k)
  PROVE  Release(k).answer = k.answer /\ Idle(Release(k))
  <1>1. CASE ~k.connected \/ k.command = "data"
    BY <1>1, DestroyNot, FreeKind DEF Release, Idle, Free
  <1>2. CASE ~(~k.connected \/ k.command = "data")
    <2>. DEFINE r == [k EXCEPT !.state = "RELEASED", !.listeners = "released"]
    <2>1. Free(r) /\ r.answer = k.answer /\ r.listeners = "released"
      BY DEF Free, Kind, ClientRecord
    <2>. HIDE DEF r
    <2>2. "rset" \in Command /\ Fits("rset", 0)
      BY Limits DEF Command, Fits
    <2>3. Posted(SendCommand(r, "rset", 0), r, "rset", 0)
      BY <2>1, <2>2, PostsRest
    <2>4. Release(k) = SendCommand(r, "rset", 0)
      BY <1>2 DEF Release, r, Free, Kind
    <2>. QED  BY <2>1, <2>3, <2>4 DEF Idle, Posted
  <1>. QED  BY <1>1, <1>2

(* An answer to the hook, and the client is released.                       *)
LEMMA Answers ==
  ASSUME NEW m, NEW k, Free(k), Eager(m, k), NEW v \in Answer
  PROVE  LET r == Release(CallNext(k, v)) IN r.answer = v /\ Idle(r)
  <1>1. CallNext(k, v).answer = v
    BY DEF CallNext, Eager, Free, Kind, ClientRecord
  <1>. QED  BY <1>1, CallNextFree, ReleaseRest

Refusal(r) == r.answer \in {"DENY", "DENYSOFT"} /\ Idle(r)

LEMMA Refuses ==
  ASSUME NEW m, NEW k, Free(k), Eager(m, k), transaction # 0, NEW code \in {"4", "441", "5"},
         ~(k.command = "xclient" /\ code = "5")
  PROVE  Refusal(Coded(k, code))
  <1>. DEFINE v == IF code = "5" THEN "DENY" ELSE "DENYSOFT"
              h == OnBadCode(k, code)
  <1>1. v \in Answer /\ v \in {"DENY", "DENYSOFT"}
    BY DEF Answer
  <1>. HIDE DEF v
  <1>2. h = Release(CallNext(k, v))
    BY DEF OnBadCode, UnlessDeadSender, Eager, v
  <1>3. h.answer = v /\ Idle(h)
    BY <1>1, <1>2, Answers
  <1>4. Kind(h)
    BY OnBadCodeKind
  <1>. HIDE DEF h
  <1>5. ~MayGoOn(h)
    BY <1>4 DEF MayGoOn, Kind
  <1>. QED  BY <1>1, <1>3, <1>5 DEF Coded, Refusal, h

(* With the mail's own transaction a listener that sends MAIL sends its own.*)
LEMMA GoingMail ==
  ASSUME Set, NEW m \in Mail, transaction = m, NEW k, Free(k), Eager(m, k), k.answer = "none",
         k.auth # "authenticating", k.rcpt < Rcpts, k.rcpt = 0 \/ cfg.one_message_per_rcpt
  PROVE  GoesOn(m, SendMail(k), k.rcpt)
  <1>1. SendMail(k) = SendCommand(k, "mail", m)
    BY Limits DEF SendMail, UnlessDeadSender, Mail
  <1>2. "mail" \in Command /\ Fits("mail", m) /\ BaseOf("mail", k.rcpt) = k.rcpt
    BY Limits DEF Command, Fits, Set, BaseOf
  <1>3. Phase(m, "mail", m, k.auth, k.rcpt, k.from, k.to)
    BY DEF Phase, Prelude
  <1>. QED  BY <1>1, <1>2, <1>3, GoingPosted

(* Before the first MAIL.                                                   *)
LEMMA GoingPrelude ==
  ASSUME NEW m, NEW k, Free(k), Eager(m, k), k.answer = "none", k.rcpt = 0, NEW cmd \in Prelude,
         k.auth = "authenticating" => cmd \in {"auth", "user", "pass"}
  PROVE  GoesOn(m, SendCommand(k, cmd, 0), 0)
  <1>1. cmd \in Command /\ Fits(cmd, 0) /\ BaseOf(cmd, k.rcpt) = 0
    BY Limits DEF Command, Fits, BaseOf, Prelude
  <1>2. Phase(m, cmd, 0, k.auth, k.rcpt, k.from, k.to)
    BY DEF Phase, Prelude
  <1>. QED  BY <1>1, <1>2, GoingPosted

LEMMA GoingHelo ==
  ASSUME Set, NEW m \in Mail, transaction = m, NEW k, Free(k), Eager(m, k), k.answer = "none",
         k.auth # "authenticating", k.rcpt = 0
  PROVE  GoesOn(m, OnHelo(k), 0)
  <1>1. GoesOn(m, SendMail(k), 0) /\ GoesOn(m, SendCommand(k, "auth", 0), 0)
    BY GoingMail, GoingPrelude, Limits DEF Prelude
  <1>2. Free(Throw(k)) /\ Eager(m, Throw(k)) /\ Throw(k).answer = "none"
    BY ThrowFree DEF Same, Eager
  <1>3. GoesOn(m, Throw(k), 0)
    BY <1>2, GoingStill
  <1>. QED  BY <1>1, <1>3 DEF OnHelo

LEMMA GoingAuth ==
  ASSUME Set, NEW m \in Mail, transaction = m, NEW k, Free(k), Eager(m, k), k.answer = "none",
         k.auth # "authenticating", k.rcpt = 0
  PROVE  GoesOn(m, OnAuth(k), 0)
  <1>. DEFINE r == [k EXCEPT !.auth = "authenticated"]
  <1>1. Free(r) /\ Eager(m, r) /\ r.answer = "none" /\ r.auth = "authenticated" /\ r.rcpt = 0
    BY DEF Free, Kind, ClientRecord, Eager
  <1>2. OnAuth(k) = SendMail(r)
    BY Limits DEF OnAuth, SendMail, UnlessDeadSender, Mail
  <1>. HIDE DEF r
  <1>. QED  BY <1>1, <1>2, GoingMail, Limits
(* EHLO was answered: XCLIENT, STARTTLS or AUTH, or none of them.           *)
Fresh(m, k) == /\ Free(k) /\ Eager(m, k) /\ k.answer = "none" /\ k.auth # "authenticating" /\ k.rcpt = 0

LEMMA StaysFresh ==
  ASSUME NEW m, NEW k, Free(k), Eager(m, k), k.answer = "none", k.rcpt = 0, NEW h, Same(k, h),
         h.auth # "authenticating"
  PROVE  Fresh(m, h)
  <1>1. Free(h)
    BY SameFree
  <1>. QED  BY <1>1 DEF Same, Fresh, Eager

(* What a client is after one of these changes.                             *)
LEMMA FreshSteps ==
  ASSUME NEW m, NEW k, Free(k), Eager(m, k), k.answer = "none", k.rcpt = 0
  PROVE  /\ Fresh(m, [k EXCEPT !.auth = "authenticated"])
         /\ k.auth # "authenticating" =>
              /\ Fresh(m, [k EXCEPT !.connected = TRUE]) /\ Fresh(m, [k EXCEPT !.xclient = TRUE])
              /\ Fresh(m, [k EXCEPT !.command = "helo"])
              /\ [k EXCEPT !.command = "helo"].command = "helo"
  <1>1. k \in ClientRecord
    BY DEF Free, Kind
  <1>2. Fresh(m, [k EXCEPT !.auth = "authenticated"])
    BY <1>1, Alike, StaysFresh
  <1>3. ASSUME k.auth # "authenticating"
        PROVE  Fresh(m, [k EXCEPT !.connected = TRUE]) /\ Fresh(m, [k EXCEPT !.xclient = TRUE])
    <2>1. Fresh(m, [k EXCEPT !.connected = TRUE])
      BY <1>1, <1>3, Alike, StaysFresh
    <2>2. Fresh(m, [k EXCEPT !.xclient = TRUE])
      BY <1>1, <1>3, Alike, StaysFresh
    <2>. QED  BY <2>1, <2>2
  <1>4. ASSUME k.auth # "authenticating"
        PROVE  Fresh(m, [k EXCEPT !.command = "helo"]) /\ [k EXCEPT !.command = "helo"].command = "helo"
    <2>. DEFINE q == [k EXCEPT !.command = "helo"]
    <2>1. /\ q \in ClientRecord /\ q.command = "helo" /\ q.pool = k.pool /\ q.state = k.state
          /\ q.socket = k.socket /\ q.wire = k.wire
      BY <1>1 DEF ClientRecord, Command
    <2>2. /\ q.next = k.next /\ q.listeners = k.listeners /\ q.rcpt = k.rcpt /\ q.auth = k.auth
          /\ q.answer = k.answer /\ q.txn = k.txn
      BY <1>1 DEF ClientRecord
    <2>. HIDE DEF q
    <2>3. Free(q)
      BY <2>1 DEF Free, Kind
    <2>4. Fresh(m, q) /\ q.command = "helo"
      BY <2>1, <2>2, <2>3, <1>4 DEF Fresh, Eager
    <2>. QED  BY <2>4 DEF q
  <1>. QED  BY <1>2, <1>3, <1>4

LEMMA GoingCapabilities ==
  ASSUME Set, NEW m \in Mail, NEW k, Fresh(m, k), k.command = "ehlo"
  PROVE  LET o == OnCapabilities(k)
         IN \/ GoesOn(m, o, 0) /\ o.command # "ehlo"
            \/ Fresh(m, o) /\ o.command = "ehlo"
  <1>. DEFINE o == OnCapabilities(k)
  <1>1. CASE "XCLIENT" \in cfg.offers /\ ~k.xclient
    <2>1. cfg.auth = "none"
      BY <1>1 DEF Set, Separate
    <2>2. o = SendCommand(k, "xclient", 0)
      BY <1>1, <2>1 DEF OnCapabilities, ForwardAuth, onCapabilitiesOutbound
    <2>. HIDE DEF o
    <2>3. GoesOn(m, o, 0)
      BY <2>2, GoingPrelude DEF Fresh, Prelude
    <2>4. o.command = "xclient"
      BY <2>2, PostsNothing DEF Fresh, Command
    <2>. QED  BY <2>3, <2>4 DEF o
  <1>2. CASE ~("XCLIENT" \in cfg.offers /\ ~k.xclient)
             /\ "STARTTLS" \in cfg.offers /\ k.secured # "yes" /\ cfg.enable_tls
    <2>. DEFINE r == [k EXCEPT !.secured = "pending"]
    <2>1. Fresh(m, r) /\ r.secured = "pending"
      BY DEF Free, Kind, ClientRecord, Fresh, Eager
    <2>. HIDE DEF r
    <2>2. onCapabilitiesOutbound(k) = SendCommand(r, "starttls", 0)
      BY <1>2 DEF onCapabilitiesOutbound, r
    <2>3. SendCommand(r, "starttls", 0).secured = "pending"
      BY <2>1 DEF SendCommand, Free, Kind, ClientRecord, Fresh
    <2>4. o = SendCommand(r, "starttls", 0)
      BY <2>2, <2>3 DEF OnCapabilities, ForwardAuth
    <2>. HIDE DEF o
    <2>5. GoesOn(m, o, 0)
      BY <2>1, <2>4, GoingPrelude DEF Fresh, Prelude
    <2>6. o.command = "starttls"
      BY <2>1, <2>4, PostsNothing DEF Fresh, Command
    <2>. QED  BY <2>5, <2>6 DEF o
  <1>3. CASE ~("XCLIENT" \in cfg.offers /\ ~k.xclient)
             /\ ~("STARTTLS" \in cfg.offers /\ k.secured # "yes" /\ cfg.enable_tls)
    <2>. DEFINE offered == "AUTH" \in cfg.offers
                r == [k EXCEPT !.auth_capability = offered]
                l == [r EXCEPT !.auth = "authenticating"]
    <2>0. offered \in BOOLEAN
      OBVIOUS
    <2>. HIDE DEF offered
    <2>1. Fresh(m, r) /\ r.command = "ehlo"
      BY <2>0 DEF Free, Kind, ClientRecord, Fresh, Eager
    <2>2. onCapabilitiesOutbound(k) = r
      BY <1>3 DEF onCapabilitiesOutbound, offered
    <2>. HIDE DEF r
    <2>3. Free(l) /\ Eager(m, l) /\ l.answer = "none" /\ l.auth = "authenticating" /\ l.rcpt = 0
      BY <2>1 DEF Free, Kind, ClientRecord, Fresh, Eager
    <2>. HIDE DEF l
    <2>4. CASE cfg.auth = "none" \/ r.secured = "pending"
      <3>1. o = r
        BY <2>2, <2>4 DEF OnCapabilities, ForwardAuth
      <3>. QED  BY <2>1, <3>1
    <2>5. CASE ~(cfg.auth = "none" \/ r.secured = "pending")
      <3>1. o = SendCommand(IF cfg.auth = "login" THEN l ELSE r, "auth", 0)
        BY <2>2, <2>5 DEF OnCapabilities, ForwardAuth, l
      <3>. HIDE DEF o
      <3>2. GoesOn(m, o, 0)
        BY <2>1, <2>3, <3>1, GoingPrelude DEF Fresh, Prelude
      <3>3. o.command = "auth"
        BY <2>1, <2>3, <3>1, PostsNothing DEF Fresh, Command
      <3>. QED  BY <3>2, <3>3 DEF o
    <2>. QED  BY <2>4, <2>5
  <1>. QED  BY <1>1, <1>2, <1>3

(* What is left when the backend has taken the command from the socket.     *)
HeldAs(k, code, h) ==
  /\ Free(h) /\ h.answer = k.answer /\ h.next = k.next /\ h.listeners = k.listeners /\ h.txn = k.txn
  /\ h.auth = k.auth /\ h.rcpt = k.rcpt /\ h.command = k.command
  /\ k.command = "mail" /\ code = "2" => h.from = Head(k.wire).arg /\ h.to = {}
  /\ k.command = "rcpt" /\ code = "2" => h.from = k.from /\ h.to = k.to \cup {Head(k.wire).arg}
  /\ k.command = "data" => h.from = k.from /\ h.to = k.to

LEMMA HeldRest ==
  ASSUME NEW k, Kind(k), k.socket = "open", k.wire # <<>>, NEW code
  PROVE  Head(k.wire).command = k.command /\ HeldAs(k, code, Held(k, Head(k.wire), code))
  <1>. DEFINE sent == Head(k.wire)  rest == [k EXCEPT !.wire = Tail(@)]
  <1>1. /\ sent.command = k.command /\ Tail(k.wire) = <<>> /\ Fits(k.command, sent.arg)
        /\ k \in ClientRecord
    <2>. DEFINE x == Head(k.wire).arg
    <2>1. k.wire = <<[command |-> k.command, arg |-> x]>> /\ Fits(k.command, x) /\ k \in ClientRecord
      BY DEF Kind, Asked
    <2>. HIDE DEF x
    <2>2. Head(k.wire) = [command |-> k.command, arg |-> x] /\ Tail(k.wire) = <<>>
      BY <2>1
    <2>. QED  BY <2>1, <2>2
  <1>. HIDE DEF sent
  <1>2. /\ Free(rest) /\ rest.from = k.from /\ rest.to = k.to /\ rest.answer = k.answer
        /\ rest.next = k.next /\ rest.listeners = k.listeners /\ rest.auth = k.auth
        /\ rest.rcpt = k.rcpt /\ rest.command = k.command /\ rest.txn = k.txn
    <2>1. rest = [k EXCEPT !.wire = <<>>]
      BY <1>1
    <2>. QED  BY <1>1, <2>1 DEF Free, Kind, ClientRecord
  <1>3. CASE k.command = "mail" /\ code = "2"
    <2>1. sent.arg \in 0..Mails /\ Held(k, sent, code) = [rest EXCEPT !.from = sent.arg, !.to = {}]
      BY <1>1, <1>3 DEF Held, Fits
    <2>. HIDE DEF rest
    <2>2. HeldAs(k, code, [rest EXCEPT !.from = sent.arg, !.to = {}])
      BY <1>2, <1>3, <2>1 DEF HeldAs, Free, Kind, ClientRecord, sent
    <2>. QED  BY <1>1, <2>1, <2>2 DEF sent
  <1>4. CASE k.command = "rcpt" /\ code = "2"
    <2>1. sent.arg \in Rcpt /\ Held(k, sent, code) = [rest EXCEPT !.to = @ \cup {sent.arg}]
      BY <1>1, <1>4 DEF Held, Fits
    <2>. HIDE DEF rest
    <2>2. rest.to \cup {sent.arg} \in SUBSET Rcpt
      BY <1>2, <2>1 DEF Free, Kind, ClientRecord
    <2>. DEFINE both == rest.to \cup {sent.arg}
    <2>3. both = k.to \cup {Head(k.wire).arg} /\ [rest EXCEPT !.to = @ \cup {sent.arg}] = [rest EXCEPT !.to = both]
      BY <1>2 DEF sent
    <2>. HIDE DEF both
    <2>. DEFINE q == [rest EXCEPT !.to = both]
    <2>4. Free(q)
      BY <1>2, <2>2 DEF Free, Kind, ClientRecord, both
    <2>5. /\ q.answer = k.answer /\ q.next = k.next /\ q.listeners = k.listeners /\ q.from = k.from
          /\ q.auth = k.auth /\ q.rcpt = k.rcpt /\ q.command = k.command /\ q.to = both /\ q.txn = k.txn
      BY <1>2 DEF Free, Kind, ClientRecord
    <2>. HIDE DEF q
    <2>6. HeldAs(k, code, q)
      BY <1>4, <2>3, <2>4, <2>5 DEF HeldAs
    <2>. QED  BY <1>1, <2>1, <2>3, <2>6 DEF sent, q
  <1>5. CASE k.command \in {"dot", "rset", "ehlo", "helo"}
    <2>1. Held(k, sent, code) = [rest EXCEPT !.from = 0, !.to = {}]
      BY <1>1, <1>5 DEF Held
    <2>. HIDE DEF rest
    <2>. DEFINE q == [rest EXCEPT !.from = 0, !.to = {}]
    <2>2. 0 \in 0..Mails
      BY Limits
    <2>3. /\ Free(q) /\ q.answer = k.answer /\ q.next = k.next /\ q.listeners = k.listeners
          /\ q.auth = k.auth /\ q.rcpt = k.rcpt /\ q.command = k.command /\ q.txn = k.txn
      BY <1>2, <2>2 DEF Free, Kind, ClientRecord
    <2>. HIDE DEF q
    <2>4. HeldAs(k, code, q)
      BY <1>5, <2>3 DEF HeldAs
    <2>. QED  BY <1>1, <2>1, <2>4 DEF sent, q
  <1>6. CASE ~(k.command = "mail" /\ code = "2") /\ ~(k.command = "rcpt" /\ code = "2")
             /\ k.command \notin {"dot", "rset", "ehlo", "helo"}
    <2>1. Held(k, sent, code) = rest
      BY <1>1, <1>6 DEF Held
    <2>. HIDE DEF rest
    <2>. QED  BY <1>1, <1>2, <1>6, <2>1 DEF HeldAs, sent
  <1>. QED  BY <1>3, <1>4, <1>5, <1>6

(* What a reply to a client's command does, when its mail is waited for.    *)
Done(k, code) == k.command = "dot" /\ code = "2"
Heard(m, k, code, r) ==
  \/ Refusal(r)
  \/ Done(k, code) /\ r.answer = "OK" /\ Idle(r) /\ k.rcpt = Rcpts
  \/ Done(k, code) /\ cfg.one_message_per_rcpt /\ GoesOn(m, r, k.rcpt)
  \/ ~Done(k, code) /\ GoesOn(m, r, Base(k))

LEMMA HeardPrelude ==
  ASSUME Set, NEW m \in Mail, transaction = m, NEW k, Kind(k), k.socket = "open", k.wire # <<>>,
         k.answer = "none", Going(m, k), NEW code \in Codes(k.command), k.command \in Prelude
  PROVE  Heard(m, k, code, OnLine(Held(k, Head(k.wire), code), code))
  <1>. DEFINE h == Held(k, Head(k.wire), code)
  <1>1. /\ Free(h) /\ Eager(m, h) /\ h.answer = "none" /\ h.rcpt = 0 /\ h.command = k.command
        /\ h.auth = "authenticating" => h.command \in {"auth", "user", "pass"}
    <2>1. HeldAs(k, code, h)
      BY HeldRest
    <2>. HIDE DEF h
    <2>2. Phase(m, k.command, Head(k.wire).arg, k.auth, k.rcpt, k.from, k.to) /\ Eager(m, k)
      BY DEF Going
    <2>3. k.rcpt = 0 /\ (k.auth = "authenticating" => k.command \in {"auth", "user", "pass"})
      BY <2>2 DEF Phase
    <2>. QED  BY <2>1, <2>2, <2>3 DEF HeldAs, Eager
  <1>2. transaction # 0 /\ Base(k) = 0 /\ ~Done(k, code)
    BY Limits DEF Mail, Base, BaseOf, Going, Phase, Prelude, Done
  <1>. HIDE DEF h
  <1>. SUFFICES Refusal(OnLine(h, code)) \/ GoesOn(m, OnLine(h, code), 0)
    BY <1>2 DEF Heard, h
  <1>3. CASE h.command = "greeting"
    <2>1. OnLine(h, code) = Coded(h, code)
      BY <1>1, <1>3 DEF OnLine
    <2>2. CASE code = "2"
      <3>. DEFINE q == [h EXCEPT !.connected = TRUE]
      <3>1. OnLine(h, code) = SendCommand(q, "ehlo", 0)
        BY <1>1, <1>3, <2>1, <2>2 DEF Coded, Switch, Eager
      <3>2. Fresh(m, q)
        BY <1>1, <1>3, FreshSteps
      <3>. HIDE DEF q
      <3>. QED  BY <3>1, <3>2, GoingPrelude DEF Fresh, Prelude
    <2>3. CASE code # "2"
      <3>1. code \in {"4", "441", "5"}
        BY <1>1, <1>3, <2>3 DEF Codes
      <3>. QED  BY <1>1, <1>2, <1>3, <2>1, <3>1, Refuses
    <2>. QED  BY <2>2, <2>3
  <1>4. CASE h.command = "ehlo"
    <2>1. CASE code = "5"
      <3>1. OnLine(h, code) = SendCommand(h, "helo", 0)
        BY <1>1, <1>4, <2>1 DEF OnLine
      <3>. QED  BY <1>1, <1>4, <3>1, GoingPrelude DEF Prelude
    <2>2. CASE code # "5"
      <3>. DEFINE o == OnCapabilities(h)
      <3>1. code \in {"2", "4"}
        BY <1>1, <1>4, <2>2 DEF Codes
      <3>2. OnLine(h, code) = IF o.command # "ehlo" THEN o ELSE Coded(o, code)
        BY <1>1, <1>4, <3>1 DEF OnLine
      <3>3. \/ GoesOn(m, o, 0) /\ o.command # "ehlo"
            \/ Fresh(m, o) /\ o.command = "ehlo"
        BY <1>1, <1>4, GoingCapabilities DEF Fresh
      <3>. HIDE DEF o
      <3>4. CASE Fresh(m, o) /\ o.command = "ehlo" /\ code = "4"
        BY <1>2, <3>2, <3>4, Refuses DEF Fresh
      <3>5. CASE Fresh(m, o) /\ o.command = "ehlo" /\ code = "2"
        <4>1. OnLine(h, code) = OnHelo(o)
          BY <3>2, <3>5 DEF Coded, Switch
        <4>. QED  BY <3>5, <4>1, GoingHelo DEF Fresh
      <3>. QED  BY <3>1, <3>2, <3>3, <3>4, <3>5
    <2>. QED  BY <2>1, <2>2
  <1>5. CASE h.command = "helo"
    <2>1. OnLine(h, code) = Coded(h, code) /\ code \in {"2", "5"}
      BY <1>1, <1>5 DEF OnLine, Codes
    <2>2. CASE code = "2"
      <3>1. OnLine(h, code) = OnHelo(h)
        BY <1>5, <2>1, <2>2 DEF Coded, Switch
      <3>. QED  BY <1>1, <1>5, <3>1, GoingHelo
    <2>3. CASE code = "5"
      BY <1>1, <1>2, <1>5, <2>1, <2>3, Refuses
    <2>. QED  BY <2>1, <2>2, <2>3
  <1>6. CASE h.command = "xclient"
    <2>1. OnLine(h, code) = Coded(h, code) /\ code \in {"2", "5"}
      BY <1>1, <1>6 DEF OnLine, Codes
    <2>2. CASE code = "2"
      <3>. DEFINE q == [h EXCEPT !.xclient = TRUE]
      <3>1. OnLine(h, code) = SendCommand(q, "ehlo", 0)
        BY <1>6, <2>1, <2>2 DEF Coded, Switch
      <3>2. Fresh(m, q)
        BY <1>1, <1>6, FreshSteps
      <3>. HIDE DEF q
      <3>. QED  BY <3>1, <3>2, GoingPrelude DEF Fresh, Prelude
    <2>3. CASE code = "5"
      <3>. DEFINE q == [h EXCEPT !.command = "helo"]
      <3>1. Fresh(m, q) /\ q.command = "helo"
        BY <1>1, <1>6, FreshSteps
      <3>2. Coded(h, code) = Switch(q)
        BY <1>6, <2>3 DEF Coded
      <3>. HIDE DEF q
      <3>3. Switch(q) = OnHelo(q)
        BY <3>1 DEF Switch
      <3>. QED  BY <2>1, <3>1, <3>2, <3>3, GoingHelo DEF Fresh
    <2>. QED  BY <2>1, <2>2, <2>3
  <1>7. CASE h.command = "starttls"
    <2>1. OnLine(h, code) = Coded(h, code) /\ code \in {"2", "5"}
      BY <1>1, <1>7 DEF OnLine, Codes
    <2>2. CASE code = "2"
      <3>1. OnLine(h, code) = [h EXCEPT !.socket = "upgrading"]
        BY <1>7, <2>1, <2>2 DEF Coded, Switch
      <3>2. GoesOn(m, [h EXCEPT !.socket = "upgrading"], 0)
        BY <1>1, <1>7 DEF GoesOn, Going, Eager, Free, Kind, ClientRecord, Base, BaseOf
      <3>. QED  BY <3>1, <3>2
    <2>3. CASE code = "5"
      BY <1>1, <1>2, <1>7, <2>1, <2>3, Refuses
    <2>. QED  BY <2>1, <2>2, <2>3
  <1>8. CASE h.command \in {"auth", "user", "pass"}
    <2>. DEFINE a == [h EXCEPT !.auth = "authenticated"]
    <2>1. Fresh(m, a)
      BY <1>1, FreshSteps
    <2>. HIDE DEF a
    <2>2. code \in {"2", "3user", "3pass", "5"}
      BY <1>1, <1>8 DEF Codes
    <2>3. CASE code \in {"3user", "3pass"} /\ (h.command = "auth" \/ h.auth = "authenticating")
      <3>1. OnLine(h, code) = SendCommand(h, IF code = "3user" THEN "user" ELSE "pass", 0)
        BY <2>3 DEF OnLine
      <3>. QED  BY <1>1, <3>1, GoingPrelude DEF Prelude
    <2>4. CASE code = "2" /\ h.auth = "authenticating"
      <3>1. OnLine(h, code) = OnAuth(a)
        BY <1>1, <2>4 DEF OnLine, Eager, a
      <3>. QED  BY <2>1, <3>1, GoingAuth DEF Fresh
    <2>5. CASE code = "5"
      <3>1. OnLine(h, code) = Coded(h, code)
        BY <1>8, <2>5 DEF OnLine
      <3>. QED  BY <1>1, <1>2, <1>8, <2>5, <3>1, Refuses
    <2>6. CASE code = "2" /\ h.auth # "authenticating" /\ h.command = "auth"
      <3>1. OnLine(h, code) = OnAuth(h)
        BY <2>6 DEF OnLine, Coded, Switch
      <3>. QED  BY <1>1, <2>6, <3>1, GoingAuth
    <2>7. CASE code \in {"2", "3user", "3pass"} /\ h.auth # "authenticating" /\ h.command # "auth"
      <3>1. OnLine(h, code) = Throw(h)
        BY <1>8, <2>7 DEF OnLine, Coded, Switch
      <3>2. Free(Throw(h)) /\ Eager(m, Throw(h)) /\ Throw(h).answer = "none"
        BY <1>1, ThrowFree DEF Same, Eager
      <3>. QED  BY <3>1, <3>2, GoingStill
    <2>. QED  BY <2>2, <2>3, <2>4, <2>5, <2>6, <2>7
  <1>. QED  BY <1>1, <1>3, <1>4, <1>5, <1>6, <1>7, <1>8 DEF Prelude

(* A reply that is no refusal is left to the listeners of the command.      *)
LEMMA CodedSwitches ==
  ASSUME NEW k, NEW code \in {"2", "3"} PROVE Coded(k, code) = Switch(k)
  BY DEF Coded

LEMMA HeardMail ==
  ASSUME Set, NEW m \in Mail, transaction = m, NEW k, Kind(k), k.socket = "open", k.wire # <<>>,
         k.answer = "none", Going(m, k), NEW code \in Codes(k.command), k.command \notin Prelude
  PROVE  Heard(m, k, code, OnLine(Held(k, Head(k.wire), code), code))
  <1>. DEFINE h == Held(k, Head(k.wire), code)  arg == Head(k.wire).arg
  <1>1. /\ Free(h) /\ Eager(m, h) /\ h.answer = "none" /\ h.command = k.command /\ h.rcpt = k.rcpt
        /\ h.auth # "authenticating" /\ k.rcpt \in 0..Rcpts
    <2>1. HeldAs(k, code, h)
      BY HeldRest
    <2>. HIDE DEF h
    <2>. QED  BY <2>1 DEF HeldAs, Going, Eager, Phase, Prelude, Kind, ClientRecord
  <1>2. /\ k.command = "mail" /\ code = "2" => h.from = arg /\ h.to = {}
        /\ k.command = "rcpt" /\ code = "2" => h.from = k.from /\ h.to = k.to \cup {arg}
        /\ k.command = "data" => h.from = k.from /\ h.to = k.to
    <2>1. HeldAs(k, code, h)
      BY HeldRest
    <2>. HIDE DEF h
    <2>. QED  BY <2>1 DEF HeldAs
  <1>3. Phase(m, k.command, arg, k.auth, k.rcpt, k.from, k.to) /\ transaction # 0
    BY Limits DEF Going, Mail
  <1>. HIDE DEF h, arg
  <1>. SUFFICES Heard(m, k, code, OnLine(h, code))
    BY DEF h
  <1>4. OnLine(h, code) = Coded(h, code)
    BY <1>1 DEF OnLine, Prelude
  <1>5. CASE code \in {"4", "5"}
    BY <1>1, <1>3, <1>4, <1>5, Refuses DEF Heard, Prelude
  <1>6. CASE k.command = "mail" /\ code = "2"
    <2>. DEFINE q == [h EXCEPT !.rcpt = k.rcpt + 1]
    <2>1. /\ k.rcpt # Rcpts /\ h.from = m /\ h.to = {} /\ (k.rcpt = 0 \/ cfg.one_message_per_rcpt)
          /\ k.rcpt + 1 \in Rcpt /\ k.rcpt + 1 \in 0..Rcpts
      BY <1>1, <1>2, <1>3, <1>6, Limits DEF Phase, Rcpt
    <2>2. OnLine(h, code) = SendCommand(q, "rcpt", k.rcpt + 1)
      BY <1>1, <1>3, <1>4, <1>6, <2>1, CodedSwitches DEF Switch, SendRcpt, UnlessDeadSender
    <2>3. /\ Free(q) /\ Eager(m, q) /\ q.answer = "none" /\ q.rcpt = k.rcpt + 1 /\ q.from = m
          /\ q.to = {} /\ q.auth # "authenticating" /\ k.rcpt + 1 \in Rcpt
      BY <1>1, <2>1 DEF Free, Kind, ClientRecord, Eager
    <2>. HIDE DEF q
    <2>4. Fits("rcpt", k.rcpt + 1) /\ "rcpt" \in Command
      BY <2>3, Limits DEF Fits, Rcpt, Command
    <2>5. Phase(m, "rcpt", k.rcpt + 1, q.auth, q.rcpt, q.from, q.to)
      BY <1>1, <2>1, <2>3 DEF Phase, Prelude
    <2>6. BaseOf("rcpt", q.rcpt) = Base(k)
      BY <1>1, <1>6, <2>3 DEF BaseOf, Base
    <2>7. GoesOn(m, SendCommand(q, "rcpt", k.rcpt + 1), Base(k))
      BY <2>3, <2>4, <2>5, <2>6, GoingPosted
    <2>. QED  BY <1>6, <2>2, <2>7 DEF Heard, Done
  <1>7. CASE k.command = "rcpt" /\ code = "2"
    <2>1. /\ k.rcpt >= 1 /\ h.from = m
          /\ h.to = (IF cfg.one_message_per_rcpt THEN {} ELSE 1..(k.rcpt - 1)) \cup {k.rcpt}
      BY <1>2, <1>3, <1>7 DEF Phase
    <2>2. OnLine(h, code) = OnRcpt(h)
      BY <1>1, <1>4, <1>7, CodedSwitches DEF Switch
    <2>3. CASE cfg.one_message_per_rcpt \/ k.rcpt = Rcpts
      <3>1. OnLine(h, code) = SendCommand(h, "data", 0)
        BY <1>1, <1>3, <2>2, <2>3 DEF OnRcpt, SendRcpt, UnlessDeadSender
      <3>2. ~cfg.one_message_per_rcpt => h.to = Rcpt
        BY <1>1, <2>1, <2>3, Limits DEF Rcpt
      <3>3. Phase(m, "data", 0, h.auth, h.rcpt, h.from, h.to)
        BY <1>1, <2>1, <2>3, <3>2 DEF Phase, Prelude
      <3>4. Fits("data", 0) /\ "data" \in Command /\ BaseOf("data", h.rcpt) = Base(k)
        BY <1>1, <1>7, Limits DEF Fits, Command, Base, BaseOf
      <3>5. GoesOn(m, SendCommand(h, "data", 0), Base(k))
        BY <1>1, <3>3, <3>4, GoingPosted
      <3>. QED  BY <1>7, <3>1, <3>5 DEF Heard, Done
    <2>4. CASE ~(cfg.one_message_per_rcpt \/ k.rcpt = Rcpts)
      <3>. DEFINE q == [h EXCEPT !.rcpt = k.rcpt + 1]
      <3>1. OnLine(h, code) = SendCommand(q, "rcpt", k.rcpt + 1)
        BY <1>1, <1>3, <2>2, <2>4 DEF OnRcpt, SendRcpt, UnlessDeadSender
      <3>2. h.to = 1..k.rcpt /\ k.rcpt + 1 \in Rcpt /\ k.rcpt + 1 \in 0..Rcpts
        BY <1>1, <2>1, <2>4, Limits DEF Rcpt
      <3>3. /\ Free(q) /\ Eager(m, q) /\ q.answer = "none" /\ q.rcpt = k.rcpt + 1 /\ q.from = m
            /\ q.to = 1..k.rcpt /\ q.auth # "authenticating" /\ k.rcpt + 1 \in Rcpt
        BY <1>1, <2>1, <3>2 DEF Free, Kind, ClientRecord, Eager
      <3>. HIDE DEF q
      <3>4. Fits("rcpt", k.rcpt + 1) /\ "rcpt" \in Command
        BY <3>3, Limits DEF Fits, Rcpt, Command
      <3>5. Phase(m, "rcpt", k.rcpt + 1, q.auth, q.rcpt, q.from, q.to)
        BY <1>1, <2>1, <2>4, <3>3 DEF Phase, Prelude
      <3>6. BaseOf("rcpt", q.rcpt) = Base(k)
        BY <2>4 DEF BaseOf, Base
      <3>7. GoesOn(m, SendCommand(q, "rcpt", k.rcpt + 1), Base(k))
        BY <3>3, <3>4, <3>5, <3>6, GoingPosted
      <3>. QED  BY <1>7, <3>1, <3>7 DEF Heard, Done
    <2>. QED  BY <2>3, <2>4
  <1>8. CASE k.command = "data" /\ code = "3"
    <2>1. OnLine(h, code) = SendCommand(h, "dot", 0)
      BY <1>1, <1>3, <1>4, <1>8, CodedSwitches DEF Switch, UnlessDeadSender, StartData
    <2>2. Phase(m, "dot", 0, h.auth, h.rcpt, h.from, h.to)
      BY <1>1, <1>2, <1>3, <1>8 DEF Phase, Prelude
    <2>3. Fits("dot", 0) /\ "dot" \in Command /\ BaseOf("dot", h.rcpt) = Base(k)
      BY <1>1, <1>8, Limits DEF Fits, Command, Base, BaseOf
    <2>4. GoesOn(m, SendCommand(h, "dot", 0), Base(k))
      BY <1>1, <2>2, <2>3, GoingPosted
    <2>. QED  BY <1>8, <2>1, <2>4 DEF Heard, Done
  <1>9. CASE k.command = "dot" /\ code = "2"
    <2>1. OnLine(h, code) = OnDot(h) /\ Done(k, code)
      BY <1>1, <1>4, <1>9, CodedSwitches DEF Switch, Done
    <2>2. CASE k.rcpt < Rcpts
      <3>1. cfg.one_message_per_rcpt
        BY <1>1, <1>3, <1>9, <2>2, Limits DEF Phase
      <3>2. OnDot(h) = SendCommand(h, "rset", 0)
        BY <1>1, <1>3, <2>2 DEF OnDot, UnlessDeadSender
      <3>3. Phase(m, "rset", 0, h.auth, h.rcpt, h.from, h.to)
        BY <1>1, <2>2, <3>1 DEF Phase, Prelude
      <3>4. Fits("rset", 0) /\ "rset" \in Command /\ BaseOf("rset", h.rcpt) = k.rcpt
        BY <1>1, <3>1, Limits DEF Fits, Command, Base, BaseOf
      <3>5. GoesOn(m, SendCommand(h, "rset", 0), k.rcpt)
        BY <1>1, <3>3, <3>4, GoingPosted
      <3>. QED  BY <2>1, <3>1, <3>2, <3>5 DEF Heard
    <2>3. CASE ~(k.rcpt < Rcpts)
      <3>1. OnDot(h) = Release(CallNext(h, "OK")) /\ k.rcpt = Rcpts
        BY <1>1, <1>3, <2>3, Limits DEF OnDot, UnlessDeadSender
      <3>2. OnDot(h).answer = "OK" /\ Idle(OnDot(h))
        BY <1>1, <3>1, Answers DEF Answer
      <3>. QED  BY <2>1, <3>1, <3>2 DEF Heard
    <2>. QED  BY <2>2, <2>3
  <1>10. CASE k.command = "rset" /\ code = "2"
    <2>1. OnLine(h, code) = SendMail(h)
      BY <1>1, <1>4, <1>10, CodedSwitches DEF Switch, OnRset, Eager, SendMail
    <2>2. cfg.one_message_per_rcpt /\ k.rcpt < Rcpts
      BY <1>3, <1>10 DEF Phase
    <2>3. GoesOn(m, SendMail(h), k.rcpt)
      BY <1>1, <2>2, GoingMail
    <2>4. Base(k) = k.rcpt
      BY <1>10, <2>2 DEF Base, BaseOf
    <2>. QED  BY <1>10, <2>1, <2>3, <2>4 DEF Heard, Done
  <1>. QED
    <2>1. k.command \in {"mail", "rcpt", "data", "dot", "rset"}
      BY DEF Kind, ClientRecord, Command, Prelude
    <2>. QED  BY <2>1, <1>5, <1>6, <1>7, <1>8, <1>9, <1>10 DEF Codes

(* A reply to a client whose hook was answered: it is that to RSET.         *)
LEMMA IdleReply ==
  ASSUME NEW k, Kind(k), k.socket = "open", k.wire # <<>>, Idle(k), NEW code \in Codes(k.command)
  PROVE  /\ k.command = "rset"
         /\ OnLine(Held(k, Head(k.wire), code), code).wire = <<>>
         /\ OnLine(Held(k, Head(k.wire), code), code).socket = "open"
  <1>. DEFINE h == Held(k, Head(k.wire), code)
  <1>1. Free(h) /\ h.command = "rset" /\ h.listeners = "released" /\ code = "2" /\ k.command = "rset"
    BY HeldRest DEF HeldAs, Idle, Codes
  <1>. HIDE DEF h
  <1>2. ASSUME h.auth = "authenticating"
        PROVE  OnLine(h, code).wire = <<>> /\ OnLine(h, code).socket = "open"
    <2>1. OnLine(h, code) = [h EXCEPT !.auth = "authenticated"]
      BY <1>1, <1>2 DEF OnLine
    <2>2. /\ [h EXCEPT !.auth = "authenticated"].wire = <<>>
          /\ [h EXCEPT !.auth = "authenticated"].socket = "open"
      BY <1>1, Alike DEF Free, Kind, Same
    <2>. QED  BY <2>1, <2>2
  <1>3. ASSUME h.auth # "authenticating"
        PROVE  OnLine(h, code).wire = <<>> /\ OnLine(h, code).socket = "open"
    <2>1. OnLine(h, code) = OnRset(h)
      BY <1>1, <1>3, CodedSwitches DEF OnLine, Switch
    <2>2. h \in ClientRecord /\ h.wire = <<>> /\ h.socket = "open"
      BY <1>1 DEF Free, Kind
    <2>3. [h EXCEPT !.state = "IDLE", !.listeners = "none"].wire = h.wire
          /\ [h EXCEPT !.state = "IDLE", !.listeners = "none"].socket = h.socket
      BY <2>2 DEF ClientRecord
    <2>4. OnRset(h) = h \/ OnRset(h) = [h EXCEPT !.state = "IDLE", !.listeners = "none"]
      BY <1>1 DEF OnRset
    <2>. QED  BY <2>1, <2>2, <2>3, <2>4
  <1>. QED  BY <1>1, <1>2, <1>3 DEF h

-----------------------------------------------------------------------------
(* The client of a mail nobody waits for: the connection has no transaction *)

(* A record that answers nothing, and has no message on its way.            *)
Mute(r) == r.answer = "none" /\ (r.wire # <<>> => r.command # "dot")

LEMMA DeadUnless ==
  ASSUME transaction = 0, NEW k, Free(k), Mute(k), NEW after
  PROVE  Mute(UnlessDeadSender(k, after))
  BY ReleaseRest DEF UnlessDeadSender, Idle, Mute

LEMMA MutePosts ==
  ASSUME NEW k, Free(k), Mute(k), NEW cmd \in Command \ {"mail", "rcpt", "dot"}
  PROVE  Mute(SendCommand(k, cmd, 0))
  <1>1. cmd \in Command /\ Fits(cmd, 0)
    BY Limits DEF Fits
  <1>. QED  BY <1>1, PostsRest DEF Posted, Mute

LEMMA MuteThrow ==
  ASSUME NEW k, Free(k), Mute(k) PROVE Mute(Throw(k))
  BY DEF Throw, Free, Kind, Mute, ClientRecord

LEMMA DeadHelo ==
  ASSUME transaction = 0, NEW k, Free(k), Mute(k)
  PROVE  Mute(OnHelo(k)) /\ Mute(SendMail(k))
  <1>1. Mute(SendCommand(k, "auth", 0))
    BY MutePosts DEF Command
  <1>2. Mute(SendMail(k))
    BY DeadUnless DEF SendMail
  <1>. QED  BY <1>1, <1>2, MuteThrow DEF OnHelo

LEMMA MuteCapabilities ==
  ASSUME Set, NEW k, Free(k), Mute(k)
  PROVE  Mute(OnCapabilities(k))
  <1>1. CASE "XCLIENT" \in cfg.offers /\ ~k.xclient
    <2>1. cfg.auth = "none"
      BY <1>1 DEF Set, Separate
    <2>2. OnCapabilities(k) = SendCommand(k, "xclient", 0)
      BY <1>1, <2>1 DEF OnCapabilities, ForwardAuth, onCapabilitiesOutbound
    <2>. QED  BY <2>2, MutePosts DEF Command
  <1>2. CASE ~("XCLIENT" \in cfg.offers /\ ~k.xclient)
             /\ "STARTTLS" \in cfg.offers /\ k.secured # "yes" /\ cfg.enable_tls
    <2>. DEFINE r == [k EXCEPT !.secured = "pending"]
    <2>1. Free(r) /\ Mute(r) /\ r.secured = "pending"
      BY DEF Free, Kind, Mute, ClientRecord
    <2>. HIDE DEF r
    <2>2. onCapabilitiesOutbound(k) = SendCommand(r, "starttls", 0)
      BY <1>2 DEF onCapabilitiesOutbound, r
    <2>3. SendCommand(r, "starttls", 0).secured = "pending"
      BY <2>1 DEF SendCommand, Free, Kind, Mute, ClientRecord
    <2>4. OnCapabilities(k) = SendCommand(r, "starttls", 0)
      BY <2>2, <2>3 DEF OnCapabilities, ForwardAuth
    <2>. QED  BY <2>1, <2>4, MutePosts DEF Command
  <1>3. CASE ~("XCLIENT" \in cfg.offers /\ ~k.xclient)
             /\ ~("STARTTLS" \in cfg.offers /\ k.secured # "yes" /\ cfg.enable_tls)
    <2>. DEFINE offered == "AUTH" \in cfg.offers
                r == [k EXCEPT !.auth_capability = offered]
                l == [r EXCEPT !.auth = "authenticating"]
    <2>1. offered \in BOOLEAN
      OBVIOUS
    <2>. HIDE DEF offered
    <2>2. Free(r) /\ Mute(r)
      BY <2>1 DEF Free, Kind, Mute, ClientRecord
    <2>3. onCapabilitiesOutbound(k) = r
      BY <1>3 DEF onCapabilitiesOutbound, offered
    <2>. HIDE DEF r
    <2>4. Free(l) /\ Mute(l)
      BY <2>2 DEF Free, Kind, Mute, ClientRecord
    <2>5. OnCapabilities(k) = r \/ OnCapabilities(k) = SendCommand(IF cfg.auth = "login" THEN l ELSE r, "auth", 0)
      BY <2>3 DEF OnCapabilities, ForwardAuth
    <2>. HIDE DEF l
    <2>. QED  BY <2>2, <2>4, <2>5, MutePosts DEF Command
  <1>. QED  BY <1>1, <1>2, <1>3

LEMMA DeadSwitch ==
  ASSUME transaction = 0, NEW k, Free(k), Mute(k)
  PROVE  Mute(Switch(k))
  <1>1. CASE k.command = "xclient"
    <2>. DEFINE r == [k EXCEPT !.xclient = TRUE]
    <2>1. Free(r) /\ Mute(r) /\ Switch(k) = SendCommand(r, "ehlo", 0)
      BY <1>1 DEF Free, Kind, Mute, ClientRecord, Switch
    <2>. HIDE DEF r
    <2>. QED  BY <2>1, MutePosts DEF Command
  <1>2. CASE k.command = "starttls"
    BY <1>2 DEF Switch, Free, Kind, Mute, ClientRecord
  <1>3. CASE k.command = "greeting"
    <2>. DEFINE r == [k EXCEPT !.connected = TRUE]
    <2>1. /\ Free(r) /\ Mute(r)
          /\ Switch(k) = IF k.listeners = "plugin" THEN SendCommand(r, "ehlo", 0) ELSE r
      BY <1>3 DEF Free, Kind, Mute, ClientRecord, Switch
    <2>. HIDE DEF r
    <2>. QED  BY <2>1, MutePosts DEF Command
  <1>4. CASE k.command \in {"ehlo", "helo"}
    BY <1>4, DeadHelo DEF Switch
  <1>5. CASE k.command \in {"mail", "data", "dot"}
    BY <1>5, DeadUnless DEF Switch, SendRcpt, OnDot
  <1>6. CASE k.command = "rcpt"
    <2>1. Mute(SendCommand(k, "data", 0))
      BY MutePosts DEF Command
    <2>2. Mute(SendRcpt(k))
      BY DeadUnless DEF SendRcpt
    <2>. QED  BY <1>6, <2>1, <2>2 DEF Switch, OnRcpt
  <1>7. CASE k.command = "auth"
    <2>1. Mute(OnAuth(k))
      BY DeadUnless DEF OnAuth
    <2>. QED  BY <1>7, <2>1 DEF Switch
  <1>8. CASE k.command = "rset"
    <2>1. Mute([k EXCEPT !.state = "IDLE", !.listeners = "none"])
      BY DEF Free, Kind, Mute, ClientRecord
    <2>2. Mute(UnlessDeadSender(k, SendCommand(k, "mail", k.txn)))
      BY DeadUnless
    <2>3. Mute(OnRset(k))
      BY <2>1, <2>2 DEF OnRset
    <2>. QED  BY <1>8, <2>3 DEF Switch
  <1>9. CASE k.command \in {"user", "pass"}
    BY <1>9, MuteThrow DEF Switch
  <1>. QED  BY <1>1, <1>2, <1>3, <1>4, <1>5, <1>6, <1>7, <1>8, <1>9 DEF Free, Kind, Mute, ClientRecord, Command

LEMMA DeadCoded ==
  ASSUME transaction = 0, NEW k, Free(k), Mute(k), NEW code
  PROVE  Mute(Coded(k, code))
  <1>. DEFINE h == [k EXCEPT !.command = "helo"]
  <1>1. Free(h) /\ Mute(h)
    BY DEF Free, Kind, Mute, ClientRecord, Command
  <1>. HIDE DEF h
  <1>2. Mute(Switch(h)) /\ Mute(Switch(k))
    BY <1>1, DeadSwitch
  <1>3. Mute(OnBadCode(k, code))
    BY DeadUnless, DestroyNot, FreeKind DEF OnBadCode
  <1>4. ~MayGoOn(OnBadCode(k, code))
    BY OnBadCodeKind DEF MayGoOn, Kind
  <1>. QED  BY <1>2, <1>3, <1>4 DEF Coded, h

LEMMA DeadReply ==
  ASSUME Set, transaction = 0, NEW k, Free(k), Mute(k), NEW code
  PROVE  Mute(OnLine(k, code))
  <1>. DEFINE a == [k EXCEPT !.auth = "authenticated"]  o == OnCapabilities(k)
  <1>1. Free(a) /\ Mute(a)
    BY DEF Free, Kind, Mute, ClientRecord
  <1>. HIDE DEF a
  <1>2. Mute(OnAuth(a))
    BY <1>1, DeadUnless DEF OnAuth
  <1>3. /\ Mute(SendCommand(k, "user", 0)) /\ Mute(SendCommand(k, "pass", 0))
        /\ Mute(SendCommand(k, "helo", 0))
    BY MutePosts DEF Command
  <1>4. Mute(Coded(k, code))
    BY DeadCoded
  <1>5. Mute(IF o.command # "ehlo" THEN o ELSE Coded(o, code))
    <2>1. Mute(o) /\ (o.command = "ehlo" => Free(o))
      BY MuteCapabilities, CapabilitiesKind
    <2>. HIDE DEF o
    <2>. QED  BY <2>1, DeadCoded
  <1>. HIDE DEF o
  <1>. QED  BY <1>1, <1>2, <1>3, <1>4, <1>5 DEF OnLine, a, o

-----------------------------------------------------------------------------
(* What the backend has taken                                               *)

Message == [from : 0..Mails, to : SUBSET Rcpt]

(* The messages of the mail m that are for r.                               *)
TakenFor(m, s, r) ==
  {i \in DOMAIN s : s[i] = [from |-> m, to |-> s[i].to] /\ r \in s[i].to}

(* The first n recipients have the mail once, the others not at all.        *)
Served(m, s, n) ==
  \A r \in Rcpt : Cardinality(TakenFor(m, s, r)) = IF r <= n THEN 1 ELSE 0
Delivered(m, n) == Served(m, taken[m], n)

LEMMA NothingTaken == ASSUME NEW m PROVE Served(m, <<>>, 0)
  <1>1. \A r : TakenFor(m, <<>>, r) = {}
    BY DEF TakenFor
  <1>2. Cardinality({}) = 0
    BY FS_EmptySet
  <1>3. \A r \in Rcpt : ~(r <= 0)
    BY Limits DEF Rcpt
  <1>. QED  BY <1>1, <1>2, <1>3 DEF Served

LEMMA TakesMore ==
  ASSUME NEW m \in Mail, NEW s \in Seq(Message), NEW to \in SUBSET Rcpt, NEW r \in Rcpt
  PROVE  LET more == Append(s, [from |-> m, to |-> to])
         IN Cardinality(TakenFor(m, more, r))
              = Cardinality(TakenFor(m, s, r)) + IF r \in to THEN 1 ELSE 0
  <1>. DEFINE x == [from |-> m, to |-> to]  more == Append(s, x)  n == Len(s) + 1
  <1>1. /\ more \in Seq(Message) /\ DOMAIN s = 1..Len(s) /\ DOMAIN more = 1..n
        /\ \A i \in 1..Len(s) : more[i] = s[i]
        /\ more[n] = x /\ Len(s) \in Nat
    BY Limits DEF Message, Mail
  <1>2. TakenFor(m, more, r) = IF r \in to THEN TakenFor(m, s, r) \cup {n} ELSE TakenFor(m, s, r)
    <2>. HIDE DEF more
    <2>1. \A i \in 1..Len(s) : i \in TakenFor(m, more, r) <=> i \in TakenFor(m, s, r)
      BY <1>1 DEF TakenFor
    <2>2. n \in TakenFor(m, more, r) <=> r \in to
      BY <1>1 DEF TakenFor
    <2>3. TakenFor(m, more, r) \subseteq 1..n /\ TakenFor(m, s, r) \subseteq 1..Len(s)
      BY <1>1 DEF TakenFor
    <2>4. 1..n = 1..Len(s) \cup {n} /\ n \notin 1..Len(s)
      BY <1>1
    <2>. DEFINE A == TakenFor(m, more, r)  B == TakenFor(m, s, r)  I == 1..Len(s)
    <2>. SUFFICES A = IF r \in to THEN B \cup {n} ELSE B
      BY DEF more
    <2>5. \A i \in I : i \in A <=> i \in B
      BY <2>1
    <2>6. (n \in A <=> r \in to) /\ A \subseteq I \cup {n} /\ B \subseteq I
      BY <2>2, <2>3, <2>4
    <2>. HIDE DEF A, B, I, n
    <2>7. ASSUME r \in to PROVE A = B \cup {n}
      BY <2>5, <2>6, <2>7
    <2>8. ASSUME r \notin to PROVE A = B
      BY <2>5, <2>6, <2>8
    <2>. QED  BY <2>7, <2>8
  <1>3. n \notin TakenFor(m, s, r)
    BY <1>1 DEF TakenFor
  <1>4. IsFiniteSet(TakenFor(m, s, r))
    <2>1. IsFiniteSet(1..Len(s))
      BY <1>1, FS_Interval
    <2>2. TakenFor(m, s, r) \subseteq 1..Len(s)
      BY <1>1 DEF TakenFor
    <2>. QED  BY <2>1, <2>2, FS_Subset
  <1>5. /\ Cardinality(TakenFor(m, s, r) \cup {n}) = Cardinality(TakenFor(m, s, r)) + 1
        /\ Cardinality(TakenFor(m, s, r)) \in Nat
    BY <1>3, <1>4, FS_AddElement, FS_CardinalityType
  <1>. HIDE DEF more, n
  <1>. QED  BY <1>2, <1>5 DEF more

LEMMA ServesNext ==
  ASSUME NEW m \in Mail, NEW s \in Seq(Message), NEW n \in Rcpt, Served(m, s, n - 1)
  PROVE  Served(m, Append(s, [from |-> m, to |-> {n}]), n)
  <1>. SUFFICES ASSUME NEW r \in Rcpt
                PROVE  Cardinality(TakenFor(m, Append(s, [from |-> m, to |-> {n}]), r))
                         = IF r <= n THEN 1 ELSE 0
    BY DEF Served
  <1>1. Cardinality(TakenFor(m, Append(s, [from |-> m, to |-> {n}]), r))
          = Cardinality(TakenFor(m, s, r)) + IF r \in {n} THEN 1 ELSE 0
    BY TakesMore
  <1>2. Cardinality(TakenFor(m, s, r)) = IF r <= n - 1 THEN 1 ELSE 0
    BY DEF Served
  <1>3. r \in Nat /\ n \in Nat
    BY Limits DEF Rcpt
  <1>. QED  BY <1>1, <1>2, <1>3

LEMMA ServesAll ==
  ASSUME NEW m \in Mail, NEW s \in Seq(Message), Served(m, s, 0)
  PROVE  Served(m, Append(s, [from |-> m, to |-> Rcpt]), Rcpts)
  <1>. SUFFICES ASSUME NEW r \in Rcpt
                PROVE  Cardinality(TakenFor(m, Append(s, [from |-> m, to |-> Rcpt]), r))
                         = IF r <= Rcpts THEN 1 ELSE 0
    BY DEF Served
  <1>1. Cardinality(TakenFor(m, Append(s, [from |-> m, to |-> Rcpt]), r))
          = Cardinality(TakenFor(m, s, r)) + IF r \in Rcpt THEN 1 ELSE 0
    BY TakesMore
  <1>2. Cardinality(TakenFor(m, s, r)) = IF r <= 0 THEN 1 ELSE 0
    BY DEF Served
  <1>3. r \in Nat /\ 1 <= r /\ r <= Rcpts
    BY Limits DEF Rcpt
  <1>. QED  BY <1>1, <1>2, <1>3

-----------------------------------------------------------------------------
(* The inductive invariant                                                  *)

(* The connection's transaction is that of the mail whose hook waits.       *)
Senders ==
  /\ transaction # 0 => hook[transaction] = "waiting"
  /\ gone => transaction = 0
  /\ \A m \in Mail : hook[m] = "waiting" => gone \/ transaction = m

(* Those that wait for a client have none, and wait once.                   *)
Queue ==
  /\ \A i \in DOMAIN waiting :
       client[waiting[i]] = NoClient /\ hook[waiting[i]] \in {"waiting", "timeout"}
  /\ \A i, j \in DOMAIN waiting : waiting[i] = waiting[j] => i = j

(* The client of a mail: none before its time; one that goes on while its   *)
(* mail is the connection's, from the recipients that are done; one that    *)
(* has nothing taken after the backend's verdict, which is OK for all of    *)
(* them only.                                                               *)
Verdict == {"OK", "DENY", "DENYSOFT"}
ClientOf(m) ==
  /\ IF client[m] = NoClient THEN taken[m] = <<>> ELSE Kind(client[m])
  /\ hook[m] = "no" => client[m] = NoClient
  /\ hook[m] \in Verdict => Idle(client[m])
  /\ hook[m] = "OK" => Delivered(m, Rcpts)
  /\ transaction = m /\ client[m] # NoClient =>
       /\ Going(m, client[m])
       /\ client[m].wire # <<>> \/ client[m].socket = "upgrading" => Delivered(m, Base(client[m]))

Clients == \A m \in Mail : ClientOf(m)

(* The client the pool took for itself is told nothing after the greeting.  *)
OwnKind(k) ==
  /\ k.command = "greeting" /\ k.listeners = "none" /\ k.state \in {"ACTIVE", "DESTROYED"}
  /\ k.pool = TRUE /\ k.socket \in {"open", "closed"}
  /\ k.wire = <<>> \/ k.wire = <<[command |-> "greeting", arg |-> 0]>>
OwnKept == client[Own] = NoClient \/ OwnKind(client[Own])

Inv == TypeOK /\ Senders /\ Queue /\ Clients /\ OwnKept

Stored(k) == k \in ClientRecord /\ k.answer = "none" /\ ~k.throws
Settled(k) == [k EXCEPT !.answer = "none", !.throws = FALSE]

LEMMA New ==
  /\ Stored(NewClient) /\ Stored(NoClient) /\ NoClient.socket = "none" /\ NoClient.wire = <<>>
  /\ OwnKind(OwnClient) /\ Stored(OwnClient)
  <1>. DEFINE line == [command |-> "greeting", arg |-> 0]
  <1>1. line \in Line
    BY Limits DEF Line, Command
  <1>2. 0 \in 0..Rcpts /\ 0 \in 0..Mails /\ <<line>> \in Seq(Line) /\ <<>> \in Seq(Line)
    BY <1>1, Limits
  <1>3. Stored(NewClient) /\ NewClient.wire = <<line>>
    BY <1>2 DEF Stored, NewClient, ClientRecord, Command
  <1>4. Stored(NoClient) /\ NoClient.socket = "none" /\ NoClient.wire = <<>>
    BY <1>2, <1>3 DEF Stored, NoClient, NewClient, ClientRecord
  <1>5. Stored(OwnClient) /\ OwnKind(OwnClient)
    BY <1>2, <1>3 DEF Stored, OwnClient, OwnKind, NewClient, ClientRecord
  <1>. QED  BY <1>3, <1>4, <1>5

LEMMA Kinds == 0 \notin Mail /\ Own \in Client /\ Mail \subseteq Client /\ Client = Mail \cup {Own}
               /\ Mail \subseteq 0..Mails /\ IsFiniteSet(Client)
  <1>1. IsFiniteSet(0..Mails) /\ Client \subseteq 0..Mails
    BY Limits, FS_Interval DEF Client, Mail, Own
  <1>2. IsFiniteSet(Client)
    BY <1>1, FS_Subset
  <1>. QED  BY <1>2, Limits DEF Client, Mail, Own

(* The client a mail gets begins with the greeting.                         *)
LEMMA AcquiredGoes ==
  ASSUME NEW m \in Mail
  PROVE  LET k == Acquired(NewClient, m)
         IN Stored(k) /\ Kind(k) /\ k.socket = "open" /\ Going(m, k) /\ Base(k) = 0
  <1>. DEFINE k == Acquired(NewClient, m)  line == [command |-> "greeting", arg |-> 0]
  <1>1. Stored(NewClient)
    BY New
  <1>2. /\ k.wire = <<line>> /\ k.pool = FALSE /\ k.state = "IDLE" /\ k.socket = "open"
        /\ k.command = "greeting" /\ k.next = TRUE /\ k.listeners = "plugin" /\ k.rcpt = 0
        /\ k.auth = "no" /\ k.txn = m
    BY DEF Acquired, NewClient
  <1>3. Stored(k)
    <2>1. NewClient \in ClientRecord /\ m \in 0..Mails /\ NewClient.answer = "none" /\ ~NewClient.throws
      BY <1>1, Kinds DEF Stored
    <2>. HIDE DEF line
    <2>. QED  BY <2>1 DEF Acquired, Stored, ClientRecord
  <1>. HIDE DEF k
  <1>4. Head(k.wire) = line /\ line.arg = 0 /\ line.command = "greeting"
    BY <1>2
  <1>5. Fits("greeting", 0)
    BY Limits DEF Fits
  <1>6. Kind(k)
    BY <1>2, <1>3, <1>4, <1>5 DEF Kind, Asked, Stored
  <1>7. Going(m, k)
    BY <1>2, <1>4 DEF Going, Eager, Phase, Prelude
  <1>. QED  BY <1>2, <1>3, <1>6, <1>7 DEF k, Base, BaseOf

LEMMA Settles ==
  ASSUME NEW r, Kind(r)
  PROVE  LET k == Settled(r)
         IN /\ Stored(k) /\ Kind(k) /\ k.socket = r.socket /\ k.wire = r.wire
            /\ Idle(r) => Idle(k)
            /\ \A m : Going(m, r) => Going(m, k)
            /\ Base(k) = Base(r)
  <1>. DEFINE k == Settled(r)
  <1>1. /\ k.socket = r.socket /\ k.wire = r.wire /\ k.command = r.command /\ k.rcpt = r.rcpt
        /\ k.next = r.next /\ k.listeners = r.listeners /\ k.auth = r.auth /\ k.from = r.from
        /\ k.to = r.to /\ k.pool = r.pool /\ k.state = r.state /\ k.txn = r.txn
    BY DEF Settled, Kind, ClientRecord
  <1>2. Stored(k)
    BY DEF Settled, Kind, ClientRecord, Stored
  <1>. HIDE DEF k
  <1>3. Kind(k)
    BY <1>1, <1>2 DEF Kind, Asked, Stored
  <1>4. /\ Idle(r) => Idle(k)
        /\ \A m : Going(m, r) => Going(m, k)
        /\ Base(k) = Base(r)
    BY <1>1 DEF Idle, Going, Eager, Base
  <1>. QED  BY <1>1, <1>2, <1>3, <1>4 DEF k

LEMMA InvInit == Init => Inv
  <1>. SUFFICES ASSUME Init PROVE Inv
    OBVIOUS
  <1>1. TypeOK
    <2>1. cfg.max_connections \in Nat
      BY ConfigsTyped DEF Init, Config
    <2>2. Cardinality({}) <= cfg.max_connections
      BY <2>1, FS_EmptySet
    <2>3. client \in [Client -> {k \in ClientRecord : k.answer = "none" /\ ~k.throws}]
      BY New DEF Init, Stored
    <2>4. hook \in [Mail -> Pending \cup Answer]
      BY DEF Init, Pending
    <2>5. transaction \in 0..Mails /\ waiting \in Seq(Mail)
      BY Limits DEF Init
    <2>6. taken \in [Mail -> Seq([from : 0..Mails, to : SUBSET Rcpt])]
      BY DEF Init
    <2>. QED  BY <2>2, <2>3, <2>4, <2>5, <2>6 DEF Init, TypeOK
  <1>2. Senders /\ Queue
    BY DEF Init, Senders, Queue
  <1>3. ASSUME NEW m \in Mail PROVE ClientOf(m)
    <2>1. client[m] = NoClient /\ taken[m] = <<>> /\ hook[m] = "no"
      BY DEF Init, Client
    <2>. QED  BY <2>1, New DEF ClientOf, Init, Verdict
  <1>4. OwnKept
    BY DEF Init, OwnKept, Client
  <1>. QED  BY <1>1, <1>2, <1>3, <1>4 DEF Inv, Clients

(* One more client, when there is room.                                     *)
LEMMA OneMore ==
  ASSUME TypeOK, NEW inuse \in SUBSET Client, NEW c \in Client, HasRoom(inuse)
  PROVE  inuse \cup {c} \subseteq Client /\ Cardinality(inuse \cup {c}) <= cfg.max_connections
  <1>1. IsFiniteSet(inuse) /\ cfg.max_connections \in Nat
    BY Kinds, FS_Subset, ConfigsTyped DEF TypeOK, Config
  <1>2. /\ Cardinality(inuse) \in Nat
        /\ Cardinality(inuse \cup {c}) = IF c \in inuse THEN Cardinality(inuse) ELSE Cardinality(inuse) + 1
    BY <1>1, FS_AddElement, FS_CardinalityType
  <1>3. Cardinality(inuse) < cfg.max_connections
    BY DEF HasRoom
  <1>. QED  BY <1>1, <1>2, <1>3

(* A mail that waited gets a client.                                        *)
Acquires(x) ==
  /\ x \in Mail /\ client[x] = NoClient /\ hook[x] \in {"waiting", "timeout"}
  /\ client'[x] = Acquired(NewClient, x)

(* What becomes of the pool while one client c comes to k.                  *)
Pooled(c, k) ==
  /\ borrowed' \subseteq Client /\ Cardinality(borrowed') <= cfg.max_connections
  /\ waiting' \in Seq(Mail)
  /\ client' \in [Client -> {q \in ClientRecord : q.answer = "none" /\ ~q.throws}]
  /\ client'[c] = k
  /\ \A x \in Client \ {c} : client'[x] = client[x] \/ Acquires(x)
  /\ \A i \in DOMAIN waiting' :
       client'[waiting'[i]] = NoClient /\ hook[waiting'[i]] \in {"waiting", "timeout"} /\ waiting'[i] # c
  /\ \A i, j \in DOMAIN waiting' : waiting'[i] = waiting'[j] => i = j

LEMMA PoolStep ==
  ASSUME Inv, NEW c \in Client, client[c].socket # "none", NEW r, Stored(Settled(r)), Handled(c, r)
  PROVE  Pooled(c, Settled(r))
  <1>. DEFINE freed == r.state = "DESTROYED" /\ client[c].state # "DESTROYED"
              inuse == IF freed THEN borrowed \ {c} ELSE borrowed
              k     == Settled(r)
              after == [client EXCEPT ![c] = k]
  <1>1. /\ inuse \subseteq Client /\ inuse \subseteq borrowed
        /\ waiting \in Seq(Mail)
        /\ client \in [Client -> {q \in ClientRecord : q.answer = "none" /\ ~q.throws}]
    BY DEF Inv, TypeOK
  <1>2. Cardinality(inuse) <= cfg.max_connections
    <2>1. IsFiniteSet(borrowed) /\ IsFiniteSet(inuse) /\ cfg.max_connections \in Nat
      BY <1>1, Kinds, FS_Subset, ConfigsTyped DEF Inv, TypeOK, Config
    <2>2. Cardinality(inuse) <= Cardinality(borrowed)
      BY <1>1, <2>1, FS_Subset
    <2>. QED  BY <2>1, <2>2, FS_CardinalityType DEF Inv, TypeOK
  <1>3. k \in {q \in ClientRecord : q.answer = "none" /\ ~q.throws}
    BY DEF Stored
  <1>4. \A i \in DOMAIN waiting : waiting[i] \in Mail /\ waiting[i] # c
    <2>1. \A i \in DOMAIN waiting : client[waiting[i]].socket = "none"
      BY New DEF Inv, Queue
    <2>. QED  BY <1>1, <2>1
  <1>5. Handled(c, r) =>
          \/ /\ waiting # <<>> /\ HasRoom(inuse)
             /\ client' = [after EXCEPT ![Head(waiting)] = Acquired(NewClient, Head(waiting))]
             /\ borrowed' = inuse \cup {Head(waiting)}
             /\ waiting' = Tail(waiting)
          \/ client' = after /\ borrowed' = inuse /\ waiting' = waiting
    BY DEF Handled, Settled
  <1>. HIDE DEF inuse, k
  <1>6. CASE client' = after /\ borrowed' = inuse /\ waiting' = waiting
    <2>1. client' \in [Client -> {q \in ClientRecord : q.answer = "none" /\ ~q.throws}]
      BY <1>1, <1>3, <1>6
    <2>2. client'[c] = k /\ \A x \in Client \ {c} : client'[x] = client[x]
      BY <1>1, <1>6
    <2>3. \A i \in DOMAIN waiting' :
            client'[waiting'[i]] = NoClient /\ hook[waiting'[i]] \in {"waiting", "timeout"} /\ waiting'[i] # c
      BY <1>4, <1>6, <2>2, Kinds DEF Inv, Queue
    <2>. QED  BY <1>1, <1>2, <1>6, <2>1, <2>2, <2>3 DEF Pooled, Inv, Queue, k
  <1>7. CASE /\ waiting # <<>> /\ HasRoom(inuse)
             /\ client' = [after EXCEPT ![Head(waiting)] = Acquired(NewClient, Head(waiting))]
             /\ borrowed' = inuse \cup {Head(waiting)}
             /\ waiting' = Tail(waiting)
    <2>. DEFINE h == Head(waiting)  g == Acquired(NewClient, h)
    <2>1. /\ h = waiting[1] /\ 1 \in DOMAIN waiting /\ h \in Mail /\ h # c /\ h \in Client
          /\ client[h] = NoClient /\ hook[h] \in {"waiting", "timeout"}
      BY <1>1, <1>4, <1>7, Kinds DEF Inv, Queue
    <2>2. g \in {q \in ClientRecord : q.answer = "none" /\ ~q.throws}
      BY <2>1, AcquiredGoes DEF Stored
    <2>. HIDE DEF g, h
    <2>3. /\ client' \in [Client -> {q \in ClientRecord : q.answer = "none" /\ ~q.throws}]
          /\ client'[c] = k /\ client'[h] = g
          /\ \A x \in Client \ {c, h} : client'[x] = client[x]
      BY <1>1, <1>3, <1>7, <2>1, <2>2 DEF g, h
    <2>4. Acquires(h)
      BY <2>1, <2>3 DEF Acquires, g
    <2>5. borrowed' \subseteq Client /\ Cardinality(borrowed') <= cfg.max_connections
      BY <1>1, <1>7, <2>1, OneMore DEF Inv, h
    <2>6. /\ waiting' \in Seq(Mail) /\ DOMAIN waiting' = 1..(Len(waiting) - 1)
          /\ DOMAIN waiting = 1..Len(waiting) /\ Len(waiting) \in Nat
          /\ \A i \in DOMAIN waiting' : waiting'[i] = waiting[i + 1]
      BY <1>1, <1>7
    <2>7. \A i \in DOMAIN waiting' : i + 1 \in DOMAIN waiting /\ waiting'[i] # h /\ i \in Nat
      BY <2>1, <2>6 DEF Inv, Queue
    <2>8. \A i \in DOMAIN waiting' :
            client'[waiting'[i]] = NoClient /\ hook[waiting'[i]] \in {"waiting", "timeout"} /\ waiting'[i] # c
      <3>. SUFFICES ASSUME NEW i \in DOMAIN waiting'
                    PROVE  client'[waiting'[i]] = NoClient /\ hook[waiting'[i]] \in {"waiting", "timeout"}
                           /\ waiting'[i] # c
        OBVIOUS
      <3>1. waiting'[i] \in Client \ {c, h}
        BY <1>4, <2>6, <2>7, Kinds
      <3>. QED  BY <2>3, <2>6, <2>7, <3>1 DEF Inv, Queue
    <2>9. \A i, j \in DOMAIN waiting' : waiting'[i] = waiting'[j] => i = j
      <3>. SUFFICES ASSUME NEW i \in DOMAIN waiting', NEW j \in DOMAIN waiting',
                           waiting'[i] = waiting'[j]
                    PROVE  i = j
        OBVIOUS
      <3>1. i + 1 = j + 1
        BY <2>6, <2>7 DEF Inv, Queue
      <3>. QED  BY <2>7, <3>1
    <2>. QED  BY <2>3, <2>4, <2>5, <2>6, <2>8, <2>9 DEF Pooled, k
  <1>. QED  BY <1>5, <1>6, <1>7 DEF k

-----------------------------------------------------------------------------
(* One client after an event                                                *)

LEMMA SettingsStay ==
  ASSUME cfg' = cfg, NEW m, NEW k PROVE (Going(m, k)' <=> Going(m, k)) /\ Base(k)' = Base(k)
  BY DEF Going, Phase, Eager, Base, BaseOf

(* The clients of the other mails.                                          *)
LEMMA Others ==
  ASSUME Inv, NEW c \in Client, NEW k, Pooled(c, k), NEW x \in Mail, x # c,
         hook'[x] = hook[x], taken'[x] = taken[x], cfg' = cfg,
         transaction' = x => transaction = x
  PROVE  ClientOf(x)'
  <1>1. ClientOf(x) /\ x \in Client
    BY Kinds DEF Inv, Clients
  <1>2. CASE client'[x] = client[x]
    BY <1>1, <1>2 DEF ClientOf, Delivered, Going, Phase, Eager, Base, BaseOf
  <1>3. CASE Acquires(x)
    <2>. DEFINE g == Acquired(NewClient, x)
    <2>1. Stored(g) /\ Kind(g) /\ g.socket = "open" /\ Going(x, g) /\ Base(g) = 0
      BY AcquiredGoes
    <2>2. g # NoClient
      BY <2>1, New
    <2>3. Going(x, g)' /\ Base(g)' = 0
      BY <2>1, SettingsStay
    <2>4. client[x] = NoClient /\ client'[x] = g /\ hook'[x] \in {"waiting", "timeout"} /\ taken'[x] = <<>>
      BY <1>1, <1>3 DEF Acquires, ClientOf
    <2>5. Served(x, taken'[x], 0)
      BY <2>4, NothingTaken
    <2>. HIDE DEF g
    <2>6. Going(x, client[x])' /\ Base(client[x])' = 0
      BY <2>3, <2>4 DEF Going, Phase, Eager, Base, BaseOf
    <2>. QED  BY <2>1, <2>2, <2>4, <2>5, <2>6 DEF ClientOf, Delivered, Verdict
  <1>. QED  BY <1>1, <1>2, <1>3 DEF Pooled

(* What the record r that the listeners leave must be for the mail m.       *)
Left(m, r) ==
  /\ Kind(r)
  /\ hook[m] \in Verdict => Idle(r) /\ taken'[m] = taken[m]
  /\ hook[m] = "waiting" /\ r.answer \in Verdict =>
       Idle(r) /\ (r.answer = "OK" => Served(m, taken'[m], Rcpts))
  /\ transaction = m /\ r.answer = "none" =>
       /\ Going(m, r)
       /\ r.wire # <<>> \/ r.socket = "upgrading" => Served(m, taken'[m], Base(r))

LEMMA MailStep ==
  ASSUME Inv, NEW m \in Mail, client[m] # NoClient, NEW r, Left(m, r), Handled(m, r), crashed' \in BOOLEAN,
         taken' \in [Mail -> Seq(Message)], \A x \in Mail \ {m} : taken'[x] = taken[x]
  PROVE  Inv'
  <1>. DEFINE k == Settled(r)
  <1>1. /\ Stored(k) /\ Kind(k) /\ k.socket = r.socket /\ k.wire = r.wire
        /\ Idle(r) => Idle(k)
        /\ \A x : Going(x, r) => Going(x, k)
        /\ Base(k) = Base(r)
    BY Settles DEF Left
  <1>2. client[m].socket # "none" /\ ClientOf(m) /\ m \in Client
    BY Kinds DEF Inv, Clients, ClientOf, Kind
  <1>3. Pooled(m, k)
    BY <1>1, <1>2, PoolStep
  <1>. DEFINE heard == r.answer # "none" /\ hook[m] = "waiting"
  <1>4. /\ hook' = IF heard THEN [hook EXCEPT ![m] = r.answer] ELSE hook
        /\ transaction' = IF heard /\ transaction = m THEN 0 ELSE transaction
        /\ cfg' = cfg /\ gone' = gone
    BY DEF Handled
  <1>5. r.answer \in {"none"} \cup Answer
    BY DEF Left, Kind, ClientRecord
  <1>. HIDE DEF k
  <1>6. /\ \A x \in Mail \ {m} : hook'[x] = hook[x]
        /\ hook'[m] = IF heard THEN r.answer ELSE hook[m]
        /\ hook' \in [Mail -> Pending \cup Answer]
    BY <1>4, <1>5 DEF Inv, TypeOK
  <1>7. TypeOK'
    <2>1. transaction' \in 0..Mails /\ cfg' \in Configs /\ gone' \in BOOLEAN
      BY <1>4, Limits DEF Inv, TypeOK
    <2>2. /\ borrowed' \subseteq Client /\ Cardinality(borrowed') <= cfg'.max_connections
          /\ waiting' \in Seq(Mail)
          /\ client' \in [Client -> {q \in ClientRecord : q.answer = "none" /\ ~q.throws}]
      BY <1>3, <1>4 DEF Pooled
    <2>. QED  BY <1>6, <2>1, <2>2 DEF TypeOK, Message
  <1>8. Senders'
    <2>1. transaction # 0 => transaction \in Mail
      BY DEF Inv, TypeOK, Mail
    <2>2. transaction' # 0 => transaction' = transaction /\ hook'[transaction'] = "waiting"
      BY <1>4, <1>6, <2>1 DEF Inv, Senders
    <2>3. gone' => transaction' = 0
      BY <1>4 DEF Inv, Senders
    <2>4. ASSUME NEW x \in Mail, hook'[x] = "waiting" PROVE gone' \/ transaction' = x
      <3>1. hook[x] = "waiting" /\ (x = m => ~heard)
        BY <1>5, <1>6, <2>4 DEF Answer
      <3>2. gone \/ transaction = x
        BY <3>1 DEF Inv, Senders
      <3>. QED  BY <1>4, <3>1, <3>2
    <2>. QED  BY <2>2, <2>3, <2>4 DEF Senders
  <1>9. Queue'
    BY <1>3, <1>6 DEF Pooled, Queue, Inv, TypeOK
  <1>10. ASSUME NEW x \in Mail, x # m PROVE ClientOf(x)'
    <2>1. transaction' = x => transaction = x
      BY <1>4, Limits DEF Mail
    <2>. QED  BY <1>2, <1>3, <1>4, <1>6, <1>10, <2>1, Others
  <1>11. ClientOf(m)'
    <2>1. client'[m] = k /\ k # NoClient
      BY <1>1, <1>3, New DEF Pooled, Kind
    <2>2. hook[m] # "no"
      BY <1>2 DEF ClientOf
    <2>3. hook'[m] # "no"
      BY <1>5, <1>6, <2>2 DEF Answer
    <2>4. hook'[m] \in Verdict => Idle(k)
      BY <1>1, <1>6 DEF Left, Verdict
    <2>5. hook'[m] = "OK" => Served(m, taken'[m], Rcpts)
      BY <1>2, <1>6 DEF Left, ClientOf, Delivered, Verdict
    <2>6. transaction' = m => /\ Going(m, k)
                              /\ k.wire # <<>> \/ k.socket = "upgrading" => Served(m, taken'[m], Base(k))
      <3>1. transaction' = m => transaction = m /\ r.answer = "none"
        BY <1>4, Limits DEF Mail, Inv, Senders
      <3>. QED  BY <1>1, <3>1 DEF Left
    <2>7. (Going(m, k)' <=> Going(m, k)) /\ Base(k)' = Base(k)
      BY <1>4, SettingsStay
    <2>8. (Going(m, client[m])' <=> Going(m, k)) /\ Base(client[m])' = Base(k)
      BY <2>1, <1>4 DEF Going, Phase, Eager, Base, BaseOf
    <2>. QED  BY <1>1, <2>1, <2>3, <2>4, <2>5, <2>6, <2>8 DEF ClientOf, Delivered
  <1>12. OwnKept'
    <2>1. client'[Own] = client[Own]
      BY <1>2, <1>3, Kinds DEF Pooled, Acquires, Own
    <2>. QED  BY <2>1 DEF Inv, OwnKept
  <1>. QED  BY <1>7, <1>8, <1>9, <1>10, <1>11, <1>12 DEF Inv, Clients

LEMMA SetInv == ASSUME Inv, Separate PROVE Set
  BY DEF Inv, TypeOK, Set

(* The backend replies to a command.                                        *)
LEMMA ReplyStep ==
  ASSUME Inv, Separate, NEW m \in Mail, Reply(m) PROVE Inv'
  <1>. DEFINE k == client[m]  sent == Head(k.wire)
  <1>1. k # NoClient /\ k.socket = "open" /\ k.wire # <<>>
    BY New DEF Reply, Live
  <1>2. Kind(k) /\ ClientOf(m) /\ k.answer = "none" /\ m \in Client
    BY <1>1, Kinds DEF Inv, Clients, ClientOf, TypeOK
  <1>3. sent.command = k.command
    BY <1>1, <1>2, HeldRest
  <1>4. PICK code \in Codes(sent.command) :
          /\ Handled(m, OnLine(Held(k, sent, code), code))
          /\ taken' = IF sent.command = "dot" /\ code = "2"
                      THEN [taken EXCEPT ![m] = Append(@, [from |-> k.from, to |-> k.to])]
                      ELSE taken
    BY DEF Reply
  <1>. DEFINE h == Held(k, sent, code)  r == OnLine(h, code)
  <1>5. Free(h) /\ h.answer = "none"
    <2>1. HeldAs(k, code, h)
      BY <1>1, <1>2, HeldRest
    <2>. HIDE DEF h, k
    <2>. QED  BY <1>2, <2>1 DEF HeldAs
  <1>6. Kind(r) /\ Set
    BY <1>5, OnLineKind, SetInv
  <1>7. /\ taken' \in [Mail -> Seq(Message)] /\ \A x \in Mail \ {m} : taken'[x] = taken[x]
        /\ Done(k, code) => taken'[m] = Append(taken[m], [from |-> k.from, to |-> k.to])
        /\ ~Done(k, code) => taken'[m] = taken[m]
    <2>1. [from |-> k.from, to |-> k.to] \in Message
      BY <1>2 DEF Kind, ClientRecord, Message
    <2>2. taken \in [Mail -> Seq(Message)] /\ taken[m] \in Seq(Message)
      BY DEF Inv, TypeOK, Message
    <2>3. Append(taken[m], [from |-> k.from, to |-> k.to]) \in Seq(Message)
      BY <2>1, <2>2
    <2>. QED  BY <1>3, <1>4, <2>2, <2>3 DEF Done
  <1>8. ASSUME transaction = m
        PROVE  /\ Heard(m, k, code, r)
               /\ Done(k, code) /\ cfg.one_message_per_rcpt => Served(m, taken'[m], k.rcpt)
               /\ Done(k, code) /\ k.rcpt = Rcpts => Served(m, taken'[m], Rcpts)
               /\ ~Done(k, code) => Served(m, taken'[m], Base(k))
    <2>1. Going(m, k) /\ Delivered(m, Base(k))
      BY <1>1, <1>2, <1>8 DEF ClientOf
    <2>2. Heard(m, k, code, r)
      BY <1>1, <1>2, <1>3, <1>4, <1>6, <1>8, <2>1, HeardPrelude, HeardMail
    <2>. HIDE DEF r, h
    <2>3. CASE Done(k, code)
      <3>1. /\ k.from = m /\ k.rcpt >= 1 /\ k.rcpt \in Rcpt /\ taken[m] \in Seq(Message)
            /\ IF cfg.one_message_per_rcpt THEN k.to = {k.rcpt} ELSE k.rcpt = Rcpts /\ k.to = Rcpt
        <4>1. taken[m] \in Seq(Message) /\ k.rcpt \in 0..Rcpts
          BY <1>2 DEF Inv, TypeOK, Message, Kind, ClientRecord
        <4>2. Phase(m, "dot", Head(k.wire).arg, k.auth, k.rcpt, k.from, k.to)
          BY <1>1, <2>1, <2>3 DEF Going, Done
        <4>. HIDE DEF k
        <4>3. k.from = m /\ k.rcpt >= 1
              /\ IF cfg.one_message_per_rcpt THEN k.to = {k.rcpt} ELSE k.rcpt = Rcpts /\ k.to = Rcpt
          BY <4>2 DEF Phase
        <4>. QED  BY <4>1, <4>3, Limits DEF Rcpt
      <3>2. CASE cfg.one_message_per_rcpt
        <4>1. Served(m, taken[m], k.rcpt - 1)
          BY <2>1, <2>3, <3>2 DEF Delivered, Base, BaseOf, Done
        <4>. HIDE DEF k
        <4>2. taken'[m] = Append(taken[m], [from |-> m, to |-> {k.rcpt}])
          BY <1>7, <2>3, <3>1, <3>2
        <4>3. Served(m, taken'[m], k.rcpt)
          BY <3>1, <4>1, <4>2, ServesNext
        <4>. QED  BY <2>2, <2>3, <4>3
      <3>3. CASE ~cfg.one_message_per_rcpt
        <4>1. Served(m, taken[m], 0)
          BY <2>1, <3>3 DEF Delivered, Base, BaseOf
        <4>. HIDE DEF k
        <4>2. taken'[m] = Append(taken[m], [from |-> m, to |-> Rcpt])
          BY <1>7, <2>3, <3>1, <3>3
        <4>3. Served(m, taken'[m], Rcpts)
          BY <3>1, <4>1, <4>2, ServesAll
        <4>. QED  BY <2>2, <2>3, <3>3, <4>3
      <3>. QED  BY <3>2, <3>3
    <2>4. CASE ~Done(k, code)
      BY <1>7, <2>1, <2>2, <2>4 DEF Delivered
    <2>. QED  BY <2>3, <2>4
  <1>9. ASSUME hook[m] \in Verdict PROVE Idle(r) /\ ~Done(k, code)
    <2>1. Idle(k)
      BY <1>2, <1>9 DEF ClientOf
    <2>2. k.command = "rset" /\ r.wire = <<>> /\ r.socket = "open"
      BY <1>1, <1>2, <1>3, <1>4, <2>1, IdleReply
    <2>. QED  BY <2>2 DEF Idle, Done
  <1>10. ASSUME transaction = 0 PROVE r.answer = "none"
    BY <1>5, <1>6, <1>10, DeadReply DEF Mute, Free
  <1>. HIDE DEF r, h
  <1>11. hook[m] = "waiting" => transaction = 0 \/ transaction = m
    BY DEF Inv, Senders
  <1>12. Left(m, r)
    <2>1. hook[m] = "waiting" /\ r.answer \in Verdict =>
            Idle(r) /\ (r.answer = "OK" => Served(m, taken'[m], Rcpts))
      BY <1>8, <1>10, <1>11 DEF Heard, Refusal, GoesOn, Verdict
    <2>2. transaction = m /\ r.answer = "none" =>
            /\ Going(m, r)
            /\ r.wire # <<>> \/ r.socket = "upgrading" => Served(m, taken'[m], Base(r))
      BY <1>8 DEF Heard, Refusal, GoesOn
    <2>. QED  BY <1>6, <1>7, <1>9, <2>1, <2>2 DEF Left
  <1>13. Handled(m, r)
    BY <1>4 DEF r, h
  <1>14. crashed' \in BOOLEAN
    BY <1>6, <1>13 DEF Handled, Kind, ClientRecord
  <1>. QED  BY <1>1, <1>7, <1>12, <1>13, <1>14, MailStep

(* The socket of a mail's client does something by itself.                  *)
LEMMA MailEvent ==
  ASSUME Inv, NEW m \in Mail, client[m] # NoClient, NEW r, Handled(m, r), taken' = taken,
         Kind(r), r.answer \in {"none", "NEXT"},
         hook[m] \in Verdict => Idle(r),
         transaction = m /\ r.answer = "none" =>
           /\ Going(m, r)
           /\ r.wire # <<>> \/ r.socket = "upgrading" => Delivered(m, Base(r))
  PROVE  Inv'
  <1>1. Left(m, r)
    BY DEF Left, Delivered, Verdict
  <1>2. taken' \in [Mail -> Seq(Message)] /\ \A x \in Mail \ {m} : taken'[x] = taken[x]
    BY DEF Inv, TypeOK, Message
  <1>3. crashed' \in BOOLEAN
    BY DEF Handled, Kind, ClientRecord
  <1>. QED  BY <1>1, <1>2, <1>3, MailStep

(* What is known of the client of an event.                                 *)
LEMMA MailClient ==
  ASSUME Inv, NEW m \in Mail, client[m].socket # "none"
  PROVE  client[m] # NoClient /\ ClientOf(m) /\ Kind(client[m]) /\ client[m].answer = "none"
  <1>1. client[m] # NoClient /\ ClientOf(m) /\ m \in Client
    BY New, Kinds DEF Inv, Clients
  <1>. QED  BY <1>1 DEF ClientOf, Inv, TypeOK

(* A client whose socket is closed.                                         *)
LEMMA CutOff ==
  ASSUME NEW k, Kind(k), k.answer = "none"
  PROVE  LET d == [k EXCEPT !.socket = "closed", !.wire = <<>>]
         IN /\ Kind(d) /\ Idle(d) /\ d.answer = "none" /\ d.next = k.next /\ d.txn = k.txn
            /\ d.listeners = k.listeners /\ d.wire = <<>> /\ d.socket = "closed"
  <1>. DEFINE d == [k EXCEPT !.socket = "closed", !.wire = <<>>]
  <1>1. <<>> \in Seq(Line)
    OBVIOUS
  <1>2. /\ d \in ClientRecord /\ d.pool = k.pool /\ d.state = k.state /\ d.answer = "none"
        /\ d.next = k.next /\ d.listeners = k.listeners /\ d.wire = <<>> /\ d.socket = "closed"
        /\ d.txn = k.txn
    BY <1>1 DEF Kind, ClientRecord
  <1>. HIDE DEF d
  <1>. QED  BY <1>2 DEF Kind, Idle, d

(* A line that is no reply.                                                 *)
LEMMA ErrorKind ==
  ASSUME NEW m, NEW k, Kind(k), k.answer = "none"
  PROVE  LET r == Error(k)
         IN /\ Kind(r) /\ (Idle(k) => Idle(r)) /\ r.wire = k.wire
            /\ r.answer \in {"none", "NEXT"} /\ (Eager(m, k) => r.answer = "NEXT")
  <1>. DEFINE r == Error(k)
  <1>0. k \in ClientRecord
    BY DEF Kind
  <1>1. /\ r \in ClientRecord /\ r.pool = k.pool /\ r.state = k.state /\ r.socket = k.socket
        /\ r.wire = k.wire /\ r.command = k.command /\ r.listeners = k.listeners
        /\ r.answer \in {"none", "NEXT"} /\ (Eager(m, k) => r.answer = "NEXT")
    <2>1. CASE k.listeners = "plugin" /\ k.next
      <3>1. r = [k EXCEPT !.next = FALSE, !.answer = "NEXT"]
        BY <2>1 DEF Error, CallNext
      <3>. HIDE DEF r
      <3>. QED  BY <1>0, <3>1 DEF ClientRecord, Answer
    <2>2. CASE k.listeners = "plugin" /\ ~k.next
      BY <1>0, <2>2 DEF Error, CallNext, Eager
    <2>3. CASE k.listeners # "plugin"
      <3>1. r = Throw(k)
        BY <2>3 DEF Error
      <3>2. Same(k, r)
        BY <1>0, <3>1, Alike
      <3>. HIDE DEF r
      <3>. QED  BY <2>3, <3>2 DEF Same, Eager
    <2>. QED  BY <2>1, <2>2, <2>3
  <1>. HIDE DEF r
  <1>. QED  BY <1>1 DEF Kind, Asked, Idle, r

LEMMA GarbledStep ==
  ASSUME Inv, NEW m \in Mail, Garbled(m) PROVE Inv'
  <1>. DEFINE k == client[m]  r == Error(k)
  <1>1. k # NoClient /\ ClientOf(m) /\ Kind(k) /\ k.answer = "none"
    BY MailClient DEF Garbled, Live
  <1>2. Handled(m, Destroy(r)) /\ taken' = taken
    BY DEF Garbled
  <1>3. transaction = m => Eager(m, k)
    BY <1>1 DEF ClientOf, Going
  <1>4. hook[m] \in Verdict => Idle(k)
    BY <1>1 DEF ClientOf
  <1>. HIDE DEF k
  <1>5. /\ Kind(r) /\ (Idle(k) => Idle(r))
        /\ r.answer \in {"none", "NEXT"} /\ (Eager(m, k) => r.answer = "NEXT")
    BY <1>1, ErrorKind
  <1>6. Destroy(r) = r
    BY <1>5, DestroyNot
  <1>. HIDE DEF r
  <1>. QED  BY <1>1, <1>2, <1>3, <1>4, <1>5, <1>6, MailEvent DEF k

LEMMA SecuredStep ==
  ASSUME Inv, NEW m \in Mail, OnSecured(m) PROVE Inv'
  <1>. DEFINE k == client[m]  s == [k EXCEPT !.socket = "open", !.secured = "yes"]
              r == SendCommand(s, "ehlo", 0)
  <1>1. k # NoClient /\ ClientOf(m) /\ Kind(k) /\ k.answer = "none" /\ k.socket = "upgrading"
    BY MailClient DEF OnSecured
  <1>2. Free(s) /\ s.answer = "none" /\ s.next = k.next /\ s.listeners = k.listeners
        /\ s.auth = k.auth /\ s.rcpt = k.rcpt /\ s.txn = k.txn
    <2>1. /\ s \in ClientRecord /\ s.pool = k.pool /\ s.state = k.state /\ s.socket = "open"
          /\ s.wire = k.wire /\ s.answer = k.answer
      BY <1>1 DEF Kind, ClientRecord
    <2>2. /\ s.next = k.next /\ s.listeners = k.listeners /\ s.auth = k.auth /\ s.rcpt = k.rcpt
          /\ s.txn = k.txn
      BY <1>1 DEF Kind, ClientRecord
    <2>. HIDE DEF s
    <2>. QED  BY <1>1, <2>1, <2>2 DEF Kind, Free
  <1>. HIDE DEF s
  <1>3. Kind(r) /\ r.answer = "none"
    BY <1>2, PostsNothing, MutePosts DEF Command, Mute, Free
  <1>4. hook[m] \notin Verdict
    BY <1>1 DEF ClientOf, Idle
  <1>5. ASSUME transaction = m PROVE GoesOn(m, r, 0) /\ Delivered(m, 0)
    <2>1. Eager(m, k) /\ k.rcpt = 0 /\ k.auth # "authenticating" /\ k.command = "starttls"
          /\ Delivered(m, Base(k))
      BY <1>1, <1>5 DEF ClientOf, Going
    <2>2. Base(k) = 0
      BY <2>1 DEF Base, BaseOf
    <2>3. Eager(m, s)
      BY <1>2, <2>1 DEF Eager
    <2>. QED  BY <1>2, <2>1, <2>2, <2>3, GoingPrelude DEF Prelude
  <1>. HIDE DEF r
  <1>6. Handled(m, r) /\ taken' = taken
    BY DEF OnSecured, r, s
  <1>7. transaction = m => Going(m, r) /\ (r.wire # <<>> \/ r.socket = "upgrading" => Delivered(m, Base(r)))
    BY <1>5 DEF GoesOn
  <1>. QED  BY <1>1, <1>3, <1>4, <1>6, <1>7, MailEvent

LEMMA SocketStep ==
  ASSUME Inv, NEW m \in Mail, SocketEnds(m) \/ SocketIdle(m) PROVE Inv'
  <1>. DEFINE k == client[m]  d == [k EXCEPT !.socket = "closed", !.wire = <<>>]
  <1>1. k # NoClient /\ ClientOf(m) /\ Kind(k) /\ k.answer = "none"
    BY MailClient DEF SocketEnds, SocketIdle
  <1>2. Kind(d) /\ Idle(d) /\ d.answer = "none" /\ d.next = k.next /\ d.listeners = k.listeners
        /\ d.txn = k.txn /\ d.wire = <<>> /\ d.socket = "closed"
    BY <1>1, CutOff
  <1>3. Closed(d) = d /\ Closed(k) = k
    BY <1>1, <1>2, DestroyNot DEF Closed, Kind
  <1>4. CASE SocketEnds(m)
    <2>1. Handled(m, d) /\ taken' = taken
      BY <1>3, <1>4 DEF SocketEnds
    <2>. HIDE DEF d
    <2>2. transaction = m => Eager(m, d)
      BY <1>1, <1>2 DEF ClientOf, Going, Eager
    <2>3. transaction = m => Going(m, d)
      BY <1>2, <2>2 DEF Going
    <2>. QED  BY <1>1, <1>2, <2>1, <2>3, MailEvent
  <1>5. CASE SocketIdle(m)
    <2>1. Handled(m, k) /\ taken' = taken
      BY <1>3, <1>5 DEF SocketIdle
    <2>2. /\ hook[m] \in Verdict => Idle(k)
          /\ transaction = m => /\ Going(m, k)
                                /\ k.wire # <<>> \/ k.socket = "upgrading" => Delivered(m, Base(k))
      BY <1>1 DEF ClientOf
    <2>. HIDE DEF k
    <2>. QED  BY <1>1, <2>1, <2>2, MailEvent DEF k
  <1>. QED  BY <1>4, <1>5

-----------------------------------------------------------------------------
(* The client the pool took for itself                                      *)

OwnLeft(k) == OwnKind(k) /\ k \in ClientRecord /\ k.answer = "none"

LEMMA OwnSteps ==
  ASSUME NEW k, OwnLeft(k)
  PROVE  /\ OwnLeft(Destroy(k)) /\ OwnLeft(Throw(k)) /\ OwnLeft([k EXCEPT !.connected = TRUE])
         /\ OwnLeft([k EXCEPT !.wire = <<>>]) /\ OwnLeft([k EXCEPT !.auth = "authenticated"])
         /\ OwnLeft([k EXCEPT !.socket = "closed", !.wire = <<>>])
  <1>1. <<>> \in Seq(Line)
    OBVIOUS
  <1>2. OwnLeft([k EXCEPT !.state = "DESTROYED", !.socket = "closed", !.wire = <<>>])
    BY <1>1 DEF OwnLeft, OwnKind, ClientRecord
  <1>3. OwnLeft(Destroy(k))
    BY <1>2 DEF Destroy
  <1>4. OwnLeft(Throw(k)) /\ OwnLeft([k EXCEPT !.connected = TRUE])
        /\ OwnLeft([k EXCEPT !.auth = "authenticated"])
    <2>1. /\ Same(k, Throw(k)) /\ Same(k, [k EXCEPT !.connected = TRUE])
          /\ Same(k, [k EXCEPT !.auth = "authenticated"])
      BY Alike DEF OwnLeft
    <2>2. ASSUME NEW h, Same(k, h) PROVE OwnLeft(h)
      BY <2>2 DEF OwnLeft, OwnKind, Same
    <2>. QED  BY <2>1, <2>2
  <1>5. OwnLeft([k EXCEPT !.wire = <<>>]) /\ OwnLeft([k EXCEPT !.socket = "closed", !.wire = <<>>])
    BY <1>1 DEF OwnLeft, OwnKind, ClientRecord
  <1>. QED  BY <1>3, <1>4, <1>5

LEMMA SettlesOwn ==
  ASSUME NEW r, OwnLeft(r) PROVE Stored(Settled(r)) /\ OwnKind(Settled(r))
  BY DEF OwnLeft, OwnKind, ClientRecord, Settled, Stored

(* A client that waits for something is left as it is by the others' steps. *)
LEMMA SameClient ==
  ASSUME Inv, NEW x \in Mail, client'[x] = client[x], taken'[x] = taken[x], cfg' = cfg,
         hook'[x] # hook[x] => hook'[x] = "timeout" /\ hook[x] = "waiting",
         transaction' = x => transaction = x
  PROVE  ClientOf(x)'
  <1>1. ClientOf(x)
    BY DEF Inv, Clients
  <1>2. (Going(x, client[x])' <=> Going(x, client[x])) /\ Base(client[x])' = Base(client[x])
    BY DEF Going, Phase, Eager, Base, BaseOf
  <1>. QED  BY <1>1, <1>2 DEF ClientOf, Delivered, Verdict

LEMMA OwnStep ==
  ASSUME Inv, client[Own].socket # "none", NEW r, OwnLeft(r), Handled(Own, r), taken' = taken
  PROVE  Inv'
  <1>. DEFINE k == Settled(r)
  <1>1. Stored(k) /\ OwnKind(k)
    BY SettlesOwn
  <1>2. Pooled(Own, k)
    BY <1>1, Kinds, PoolStep
  <1>3. hook' = hook /\ transaction' = transaction /\ cfg' = cfg /\ gone' = gone /\ crashed' \in BOOLEAN
    BY DEF Handled, OwnLeft, ClientRecord
  <1>. HIDE DEF k
  <1>4. TypeOK'
    <2>1. /\ borrowed' \subseteq Client /\ Cardinality(borrowed') <= cfg'.max_connections
          /\ waiting' \in Seq(Mail)
          /\ client' \in [Client -> {q \in ClientRecord : q.answer = "none" /\ ~q.throws}]
      BY <1>2, <1>3 DEF Pooled
    <2>. QED  BY <1>3, <2>1 DEF Inv, TypeOK
  <1>5. Senders'
    BY <1>3 DEF Inv, Senders
  <1>6. Queue'
    BY <1>2, <1>3 DEF Pooled, Queue
  <1>7. ASSUME NEW x \in Mail PROVE ClientOf(x)'
    BY <1>2, <1>3, Kinds, Others DEF Own
  <1>8. OwnKept'
    BY <1>1, <1>2 DEF Pooled, OwnKept
  <1>. QED  BY <1>4, <1>5, <1>6, <1>7, <1>8 DEF Inv, Clients

LEMMA OwnEvent ==
  ASSUME Inv, Reply(Own) \/ Garbled(Own) \/ OnSecured(Own) \/ SocketEnds(Own) \/ SocketIdle(Own)
  PROVE  Inv'
  <1>. DEFINE k == client[Own]  d == [k EXCEPT !.socket = "closed", !.wire = <<>>]
              w == [k EXCEPT !.wire = <<>>]
  <1>1. k.socket # "none"
    BY DEF Reply, Garbled, OnSecured, SocketEnds, SocketIdle, Live
  <1>2. OwnLeft(k) /\ k.socket # "upgrading"
    BY <1>1, New, Kinds DEF Inv, OwnKept, TypeOK, OwnLeft, OwnKind
  <1>3. OwnLeft(d) /\ OwnLeft(w)
    BY <1>2, OwnSteps
  <1>4. CASE Reply(Own)
    <2>1. k.wire = <<[command |-> "greeting", arg |-> 0]>>
      BY <1>2, <1>4 DEF Reply, OwnLeft, OwnKind
    <2>. DEFINE sent == Head(k.wire)
    <2>2. sent.command = "greeting" /\ Tail(k.wire) = <<>>
      BY <2>1
    <2>. HIDE DEF sent
    <2>3. PICK code \in Codes(sent.command) :
            Handled(Own, OnLine(Held(k, sent, code), code)) /\ taken' = taken
      BY <1>4, <2>2 DEF Reply, sent
    <2>4. code \in {"2", "4", "441", "5"} /\ Held(k, sent, code) = w
      BY <2>2 DEF Held, Codes
    <2>5. w.command = "greeting" /\ w.listeners = "none"
      BY <1>3 DEF OwnLeft, OwnKind
    <2>. HIDE DEF w
    <2>6. OwnLeft(OnLine(w, code))
      <3>1. ASSUME NEW q, OwnLeft(q) PROVE OwnLeft(Switch(q))
        <4>1. Switch(q) = [q EXCEPT !.connected = TRUE]
          BY <3>1 DEF Switch, OwnLeft, OwnKind
        <4>. QED  BY <3>1, <4>1, OwnSteps
      <3>2. OnBadCode(w, code) = w
        BY <2>5 DEF OnBadCode
      <3>3. OwnLeft(Destroy(w)) /\ OwnLeft([w EXCEPT !.auth = "authenticated"])
        BY <1>3, OwnSteps
      <3>4. OwnLeft(Coded(w, code))
        BY <1>3, <2>4, <2>5, <3>1, <3>2, <3>3 DEF Coded
      <3>5. OnLine(w, code) = [w EXCEPT !.auth = "authenticated"] \/ OnLine(w, code) = Coded(w, code)
        BY <2>4, <2>5 DEF OnLine
      <3>. QED  BY <3>3, <3>4, <3>5
    <2>. QED  BY <1>1, <2>3, <2>4, <2>6, OwnStep
  <1>5. CASE Garbled(Own)
    <2>1. Error(k) = Throw(k)
      BY <1>2 DEF Error, OwnLeft, OwnKind
    <2>2. OwnLeft(Destroy(Error(k)))
      BY <1>2, <2>1, OwnSteps
    <2>3. Handled(Own, Destroy(Error(k))) /\ taken' = taken
      BY <1>5 DEF Garbled
    <2>. QED  BY <1>1, <2>2, <2>3, OwnStep
  <1>6. ASSUME NEW q, OwnLeft(q) PROVE OwnLeft(Closed(q))
    <2>1. Error(q) = Throw(q) /\ q.state \in {"ACTIVE", "DESTROYED"}
      BY <1>6 DEF Error, OwnLeft, OwnKind
    <2>2. Closed(q) = Throw(q) \/ Closed(q) = q
      BY <2>1 DEF Closed
    <2>. QED  BY <1>6, <2>2, OwnSteps
  <1>7. CASE SocketEnds(Own)
    BY <1>1, <1>3, <1>6, <1>7, OwnStep DEF SocketEnds
  <1>8. CASE SocketIdle(Own)
    BY <1>1, <1>2, <1>6, <1>8, OwnStep DEF SocketIdle
  <1>9. ~OnSecured(Own)
    BY <1>2 DEF OnSecured
  <1>. QED  BY <1>4, <1>5, <1>7, <1>8, <1>9

-----------------------------------------------------------------------------
(* The connection's own steps                                               *)

(* The clients stay, and the hook of m is answered, given up, or not.       *)
LEMMA HookStep ==
  ASSUME Inv, client' = client, taken' = taken, cfg' = cfg, borrowed' = borrowed, waiting' = waiting,
         crashed' = crashed, gone' \in BOOLEAN, hook' \in [Mail -> Pending \cup Answer],
         transaction' \in {0, transaction},
         \A x \in Mail : hook'[x] # hook[x] =>
           \/ hook'[x] = "timeout" /\ hook[x] = "waiting" /\ transaction' # x
           \/ hook'[x] = "NEXT" /\ hook[x] = "no",
         gone' => transaction' = 0, gone => gone',
         transaction' # transaction /\ transaction \in Mail /\ hook'[transaction] = "waiting" => gone'
  PROVE  Inv'
  <1>1. TypeOK'
    <2>1. /\ cfg' \in Configs /\ transaction' \in 0..Mails /\ crashed' \in BOOLEAN
          /\ borrowed' \subseteq Client /\ Cardinality(borrowed') <= cfg'.max_connections
          /\ waiting' \in Seq(Mail)
      BY Limits DEF Inv, TypeOK
    <2>2. /\ client' \in [Client -> {q \in ClientRecord : q.answer = "none" /\ ~q.throws}]
          /\ taken' \in [Mail -> Seq([from : 0..Mails, to : SUBSET Rcpt])]
      BY DEF Inv, TypeOK
    <2>. QED  BY <2>1, <2>2 DEF TypeOK
  <1>2. transaction \in Mail \cup {0}
    BY Limits DEF Inv, TypeOK, Mail
  <1>3. ASSUME NEW x \in Mail, hook'[x] = "waiting" PROVE hook[x] = "waiting"
    BY <1>3
  <1>4. Senders'
    <2>1. transaction' # 0 => hook'[transaction'] = "waiting"
      BY <1>2 DEF Inv, Senders
    <2>2. ASSUME NEW x \in Mail, hook'[x] = "waiting" PROVE gone' \/ transaction' = x
      <3>1. gone \/ transaction = x
        BY <1>3, <2>2 DEF Inv, Senders
      <3>. QED  BY <2>2, <3>1
    <2>. QED  BY <2>1, <2>2 DEF Senders
  <1>5. Queue'
    <2>1. \A i \in DOMAIN waiting : waiting[i] \in Mail
      BY DEF Inv, TypeOK
    <2>. QED  BY <2>1 DEF Inv, Queue
  <1>6. ASSUME NEW x \in Mail PROVE ClientOf(x)'
    <2>1. transaction' = x => transaction = x
      BY Kinds
    <2>2. CASE hook'[x] # hook[x] => hook'[x] = "timeout" /\ hook[x] = "waiting"
      BY <2>1, <2>2, SameClient
    <2>3. CASE hook'[x] = "NEXT" /\ hook[x] = "no"
      <3>1. client'[x] = NoClient /\ taken'[x] = <<>>
        BY <2>3 DEF Inv, Clients, ClientOf
      <3>2. transaction' # x
        BY <2>1, <2>3, Kinds DEF Inv, Senders
      <3>. QED  BY <2>3, <3>1, <3>2 DEF ClientOf, Verdict
    <2>. QED  BY <2>2, <2>3
  <1>7. OwnKept'
    BY DEF Inv, OwnKept
  <1>. QED  BY <1>1, <1>4, <1>5, <1>6, <1>7 DEF Inv, Clients

LEMMA ForwardStep ==
  ASSUME Inv, NEW m \in Mail, QueueForward(m) PROVE Inv'
  <1>. DEFINE new   == borrowed = {}
              inuse == IF new THEN {Own} ELSE borrowed
              base  == IF new THEN [client EXCEPT ![Own] = OwnClient] ELSE client
              g     == Acquired(NewClient, m)
              Records == {q \in ClientRecord : q.answer = "none" /\ ~q.throws}
  <1>1. /\ client[m] = NoClient /\ taken[m] = <<>> /\ hook[m] = "no" /\ transaction = 0 /\ ~gone
        /\ m # Own /\ m \in Client /\ m # 0
    BY Kinds DEF QueueForward, Inv, Clients, ClientOf, Own
  <1>2. /\ transaction' = m /\ hook' = [hook EXCEPT ![m] = "waiting"]
        /\ cfg' = cfg /\ gone' = gone /\ taken' = taken /\ crashed' = crashed
    BY DEF QueueForward
  <1>3. \/ /\ HasRoom(inuse) /\ client' = [base EXCEPT ![m] = g] /\ borrowed' = inuse \cup {m}
           /\ waiting' = waiting
        \/ ~HasRoom(inuse) /\ client' = base /\ borrowed' = inuse /\ waiting' = Append(waiting, m)
    BY DEF QueueForward
  <1>4. base \in [Client -> Records] /\ base[m] = NoClient
        /\ \A x \in Mail : base[x] = client[x]
    <2>1. OwnClient \in Records /\ client \in [Client -> Records]
      BY New DEF Stored, Inv, TypeOK
    <2>. HIDE DEF Records
    <2>. QED  BY <1>1, <2>1, Kinds DEF Own
  <1>5. base[Own] = client[Own] \/ base[Own] = OwnClient
    BY Kinds DEF Inv, TypeOK
  <1>6. inuse \subseteq Client /\ Cardinality(inuse) <= cfg.max_connections
    <2>1. Cardinality({Own}) = 1 /\ cfg.max_connections \in Nat \ {0}
      BY FS_Singleton, ConfigsTyped DEF Inv, TypeOK, Config
    <2>. QED  BY <2>1, Kinds DEF Inv, TypeOK
  <1>7. g \in Records /\ Kind(g) /\ g.socket = "open" /\ Going(m, g) /\ Base(g) = 0 /\ g # NoClient
    BY AcquiredGoes, New DEF Stored
  <1>. HIDE DEF inuse, base, g, Records
  <1>8. /\ client' \in [Client -> Records]
        /\ \A x \in Mail \ {m} : client'[x] = client[x]
        /\ client'[Own] = base[Own]
        /\ client'[m] \in {NoClient, g}
    BY <1>1, <1>3, <1>4, <1>7, Kinds
  <1>9. hook' \in [Mail -> Pending \cup Answer] /\ hook'[m] = "waiting"
        /\ \A x \in Mail \ {m} : hook'[x] = hook[x]
    BY <1>2 DEF Inv, TypeOK, Pending
  <1>10. TypeOK'
    <2>1. borrowed' \subseteq Client /\ Cardinality(borrowed') <= cfg.max_connections
      BY <1>1, <1>3, <1>6, OneMore DEF Inv
    <2>2. waiting' \in Seq(Mail)
      <3>1. waiting \in Seq(Mail)
        BY DEF Inv, TypeOK
      <3>2. Append(waiting, m) \in Seq(Mail)
        BY <3>1
      <3>. QED  BY <1>3, <3>1, <3>2
    <2>3. transaction' \in 0..Mails
      BY <1>2, Kinds
    <2>. QED  BY <1>2, <1>8, <1>9, <2>1, <2>2, <2>3 DEF Inv, TypeOK, Records
  <1>11. Senders'
    BY <1>1, <1>2, <1>9, Kinds DEF Inv, Senders
  <1>12. \A i \in DOMAIN waiting : /\ waiting[i] \in Mail \ {m} /\ client'[waiting[i]] = NoClient
                                  /\ hook'[waiting[i]] \in {"waiting", "timeout"}
    <2>1. \A i \in DOMAIN waiting : waiting[i] \in Mail /\ waiting[i] # m
      <3>1. \A i \in DOMAIN waiting : waiting[i] \in Mail
        BY DEF Inv, TypeOK
      <3>2. \A i \in DOMAIN waiting : hook[waiting[i]] # "no"
        BY DEF Inv, Queue
      <3>. QED  BY <1>1, <3>1, <3>2
    <2>. QED  BY <1>8, <1>9, <2>1 DEF Inv, Queue
  <1>13. Queue'
    <2>1. CASE waiting' = waiting
      BY <1>12, <2>1 DEF Queue, Inv
    <2>2. CASE ~HasRoom(inuse) /\ client' = base /\ waiting' = Append(waiting, m)
      <3>1. /\ waiting \in Seq(Mail) /\ Len(waiting) \in Nat /\ DOMAIN waiting = 1..Len(waiting)
            /\ DOMAIN waiting' = 1..(Len(waiting) + 1) /\ waiting'[Len(waiting) + 1] = m
            /\ \A i \in DOMAIN waiting : waiting'[i] = waiting[i]
        BY <2>2 DEF Inv, TypeOK
      <3>2. client'[m] = NoClient
        BY <1>4, <2>2
      <3>3. ASSUME NEW i \in DOMAIN waiting' PROVE i \in DOMAIN waiting \/ i = Len(waiting) + 1
        BY <3>1
      <3>4. \A i \in DOMAIN waiting' :
              client'[waiting'[i]] = NoClient /\ hook'[waiting'[i]] \in {"waiting", "timeout"}
        BY <1>9, <1>12, <3>1, <3>2, <3>3
      <3>5. \A i, j \in DOMAIN waiting' : waiting'[i] = waiting'[j] => i = j
        BY <1>12, <3>1, <3>3 DEF Inv, Queue
      <3>. QED  BY <3>4, <3>5 DEF Queue
    <2>. QED  BY <1>3, <2>1, <2>2
  <1>14. ASSUME NEW x \in Mail \ {m} PROVE ClientOf(x)'
    <2>1. transaction' # x
      BY <1>2
    <2>. QED  BY <1>2, <1>8, <1>9, <2>1, SameClient
  <1>15. ClientOf(m)'
    <2>1. CASE client'[m] = NoClient
      BY <1>1, <1>2, <1>9, <2>1 DEF ClientOf, Verdict
    <2>2. CASE client'[m] = g
      <3>1. Served(m, taken'[m], 0)
        BY <1>1, <1>2, NothingTaken
      <3>2. Going(m, client[m])' /\ Base(client[m])' = 0
        BY <1>2, <1>7, <2>2 DEF Going, Phase, Eager, Base, BaseOf
      <3>. QED  BY <1>7, <1>9, <2>2, <3>1, <3>2 DEF ClientOf, Delivered, Verdict
    <2>. QED  BY <1>8, <2>1, <2>2
  <1>16. OwnKept'
    BY <1>5, <1>8, New DEF Inv, OwnKept
  <1>. QED  BY <1>10, <1>11, <1>13, <1>14, <1>15, <1>16 DEF Inv, Clients

LEMMA InvStep ==
  ASSUME Separate, Inv, [Next]_vars PROVE Inv'
  <1>1. ASSUME NEW m \in Mail, QueueForward(m) PROVE Inv'
    BY <1>1, ForwardStep
  <1>2. ASSUME NEW m \in Mail, ForwardDisabled(m) PROVE Inv'
    <2>1. /\ hook[m] = "no" /\ hook' = [hook EXCEPT ![m] = "NEXT"] /\ transaction' = transaction
          /\ client' = client /\ taken' = taken /\ cfg' = cfg /\ borrowed' = borrowed
          /\ waiting' = waiting /\ crashed' = crashed /\ gone' = gone
      BY <1>2 DEF ForwardDisabled
    <2>2. /\ hook' \in [Mail -> Pending \cup Answer] /\ hook'[m] = "NEXT"
          /\ \A x \in Mail \ {m} : hook'[x] = hook[x]
      BY <2>1 DEF Inv, TypeOK, Answer
    <2>3. gone \in BOOLEAN /\ (gone => transaction = 0)
      BY DEF Inv, TypeOK, Senders
    <2>. QED  BY <2>1, <2>2, <2>3, HookStep
  <1>3. ASSUME NEW m \in Mail, PluginTimeout(m) PROVE Inv'
    <2>1. /\ hook[m] = "waiting" /\ hook' = [hook EXCEPT ![m] = "timeout"]
          /\ transaction' = IF transaction = m THEN 0 ELSE transaction
          /\ client' = client /\ taken' = taken /\ cfg' = cfg /\ borrowed' = borrowed
          /\ waiting' = waiting /\ crashed' = crashed /\ gone' = gone
      BY <1>3 DEF PluginTimeout
    <2>2. /\ hook' \in [Mail -> Pending \cup Answer] /\ hook'[m] = "timeout"
          /\ \A x \in Mail \ {m} : hook'[x] = hook[x]
      BY <2>1 DEF Inv, TypeOK, Pending
    <2>3. gone \in BOOLEAN /\ (gone => transaction = 0) /\ transaction' # m
      BY <2>1, Kinds DEF Inv, TypeOK, Senders
    <2>. QED  BY <2>1, <2>2, <2>3, HookStep
  <1>4. CASE SenderDisconnects
    <2>1. /\ hook' = hook /\ gone' = TRUE /\ transaction' = 0
          /\ client' = client /\ taken' = taken /\ cfg' = cfg /\ borrowed' = borrowed
          /\ waiting' = waiting /\ crashed' = crashed
      BY <1>4 DEF SenderDisconnects
    <2>2. hook \in [Mail -> Pending \cup Answer]
      BY DEF Inv, TypeOK
    <2>. QED  BY <2>1, <2>2, HookStep
  <1>5. ASSUME NEW c \in Client, Reply(c) \/ Garbled(c) \/ OnSecured(c) \/ SocketEnds(c) \/ SocketIdle(c)
        PROVE  Inv'
    <2>1. CASE c = Own
      BY <1>5, <2>1, OwnEvent
    <2>2. CASE c \in Mail
      BY <1>5, <2>2, ReplyStep, GarbledStep, SecuredStep, SocketStep
    <2>. QED  BY <2>1, <2>2, Kinds
  <1>6. CASE UNCHANGED vars
    <2>1. hook \in [Mail -> Pending \cup Answer] /\ gone \in BOOLEAN /\ (gone => transaction = 0)
      BY DEF Inv, TypeOK, Senders
    <2>. QED  BY <1>6, <2>1, HookStep DEF vars
  <1>. QED  BY <1>1, <1>2, <1>3, <1>4, <1>5, <1>6 DEF Next

-----------------------------------------------------------------------------
(* The invariant holds of every client of every connection, where not both  *)
(* XCLIENT and AUTH are to be done (smtp_forward and get_client_plugin      *)
(* would each send their command at once).                                  *)
THEOREM ClientInvariant == ASSUME Separate PROVE Spec => []Inv
  <1>1. Init => Inv
    BY InvInit
  <1>2. Inv /\ [Next]_vars => Inv'
    BY InvStep
  <1>. QED  BY <1>1, <1>2, PTL DEF Spec

(* Types, and the pool lends no more clients than max_connections, however  *)
(* many mails wait and however the clients end.                             *)
THEOREM PoolTyped == ASSUME Separate PROVE Spec => []TypeOK
  <1>1. Inv => TypeOK
    BY DEF Inv
  <1>. QED  BY <1>1, ClientInvariant, PTL

(* The sender is told OK only when the backend has taken the mail, with its *)
(* own sender, exactly once for each recipient: in one message or in one    *)
(* message per recipient, with STARTTLS, AUTH or XCLIENT before it.         *)
THEOREM Taken == ASSUME Separate PROVE Spec => []OkMeansTaken
  <1>1. ASSUME Inv PROVE OkMeansTaken
    <2>. SUFFICES ASSUME NEW m \in Mail, hook[m] = "OK", NEW r \in Rcpt
                  PROVE  Cardinality(TakenFor(m, taken[m], r)) = 1
      BY DEF OkMeansTaken, TakenFor
    <2>1. Served(m, taken[m], Rcpts)
      BY <1>1 DEF Inv, Clients, ClientOf, Delivered
    <2>2. r <= Rcpts
      BY Limits DEF Rcpt
    <2>. QED  BY <2>1, <2>2 DEF Served
  <1>. QED  BY <1>1, ClientInvariant, PTL

(* A client has at most one command on its way and it is the one it waits   *)
(* for: no reply is taken for that to another command.                      *)
THEOREM OneAtATime == ASSUME Separate PROVE Spec => []InStep
  <1>1. ASSUME Inv PROVE InStep
    <2>. SUFFICES ASSUME NEW m \in Mail
                  PROVE  /\ Len(client[m].wire) <= 1
                         /\ client[m].wire # <<>> => Head(client[m].wire).command = client[m].command
      BY DEF InStep
    <2>1. CASE client[m].wire = <<>>
      BY <2>1
    <2>2. CASE client[m].wire # <<>>
      <3>1. Kind(client[m])
        BY <1>1, <2>2, New DEF Inv, Clients, ClientOf
      <3>2. client[m].wire = Asked(client[m])
        BY <2>2, <3>1 DEF Kind
      <3>. DEFINE line == [command |-> client[m].command, arg |-> Head(client[m].wire).arg]
      <3>3. line.command = client[m].command
        OBVIOUS
      <3>4. client[m].wire = <<line>>
        BY <3>2 DEF Asked
      <3>. HIDE DEF line
      <3>5. Len(<<line>>) = 1 /\ Head(<<line>>) = line
        OBVIOUS
      <3>. QED  BY <3>3, <3>4, <3>5
    <2>. QED  BY <2>1, <2>2
  <1>. QED  BY <1>1, ClientInvariant, PTL

(* What an event of the client c leaves of the client of the mail m.        *)
LEMMA HandledLeaves ==
  ASSUME TypeOK, NEW m \in Mail, NEW c \in Client, NEW r, Handled(c, r)
  PROVE  \/ client'[m] = client[m]
         \/ client'[m] = Acquired(NewClient, m)
         \/ c = m /\ client'[m] = Settled(r)
  <1>. DEFINE k == Settled(r)  after == [client EXCEPT ![c] = k]  h == Head(waiting)
  <1>1. /\ client \in [Client -> {q \in ClientRecord : q.answer = "none" /\ ~q.throws}]
        /\ waiting \in Seq(Mail) /\ m \in Client
    BY Kinds DEF TypeOK
  <1>2. \/ waiting # <<>> /\ client' = [after EXCEPT ![h] = Acquired(NewClient, h)]
        \/ client' = after
    BY DEF Handled, Settled
  <1>. HIDE DEF k, h
  <1>3. after[m] = client[m] \/ (c = m /\ after[m] = k)
    BY <1>1
  <1>4. client'[m] = after[m] \/ client'[m] = Acquired(NewClient, m)
    BY <1>1, <1>2
  <1>. QED  BY <1>3, <1>4 DEF k

SendsIt(k) == \E i \in DOMAIN k.wire : k.wire[i].command = "dot"

LEMMA OneSent ==
  ASSUME NEW k, Kind(k), SendsIt(k) PROVE k.wire # <<>> /\ k.command = "dot"
  <1>. DEFINE line == [command |-> k.command, arg |-> Head(k.wire).arg]
  <1>1. k.wire # <<>>
    BY DEF SendsIt
  <1>2. k.wire = <<line>> /\ line.command = k.command
    BY <1>1 DEF Kind, Asked
  <1>. HIDE DEF line
  <1>. QED  BY <1>1, <1>2 DEF SendsIt

(* Without a transaction of the connection no message is begun.             *)
LEMMA SentBySomeone ==
  ASSUME Inv, Separate, Next, transaction = 0, NEW m \in Mail, hook[m] # "no",
         SendsIt(client'[m])
  PROVE  SendsIt(client[m])
  <1>0. m \in Client /\ TypeOK
    BY Kinds DEF Inv
  <1>1. ~SendsIt(Acquired(NewClient, m))
    <2>1. Kind(Acquired(NewClient, m)) /\ Acquired(NewClient, m).command = "greeting"
      BY AcquiredGoes DEF Acquired, NewClient
    <2>. QED  BY <2>1, OneSent
  <1>2. ASSUME NEW c \in Client, Reply(c) PROVE SendsIt(client[m])
    <2>. DEFINE k == client[c]  sent == Head(k.wire)
    <2>1. PICK code \in Codes(sent.command) : Handled(c, OnLine(Held(k, sent, code), code))
      BY <1>2 DEF Reply
    <2>. DEFINE h == Held(k, sent, code)  r == OnLine(h, code)
    <2>2. \/ client'[m] = client[m] \/ client'[m] = Acquired(NewClient, m)
          \/ (c = m /\ client'[m] = Settled(r))
      BY <1>0, <2>1, HandledLeaves
    <2>3. ASSUME c = m PROVE ~SendsIt(Settled(r))
      <3>1. k.socket = "open" /\ k.wire # <<>>
        BY <1>2 DEF Reply, Live
      <3>2. Kind(k) /\ k.answer = "none"
        BY <2>3, <3>1, MailClient
      <3>3. HeldAs(k, code, h)
        BY <3>1, <3>2, HeldRest
      <3>. HIDE DEF h, k
      <3>4. Free(h) /\ Mute(h) /\ Set
        BY <3>2, <3>3, SetInv DEF HeldAs, Mute, Free
      <3>5. Mute(r) /\ Kind(r)
        BY <3>4, DeadReply, OnLineKind
      <3>. HIDE DEF r
      <3>6. ~SendsIt(r)
        BY <3>5, OneSent DEF Mute
      <3>7. Settled(r).wire = r.wire
        BY <3>5, Settles
      <3>. QED  BY <3>6, <3>7 DEF SendsIt
    <2>. HIDE DEF r
    <2>. QED  BY <1>1, <2>2, <2>3
  <1>3. ASSUME NEW c \in Client, NEW r, Handled(c, r),
               c = m => Kind(r) /\ (r.wire = client[m].wire \/ r.wire = <<>> \/ r.command = "ehlo")
        PROVE  SendsIt(client[m])
    <2>1. \/ client'[m] = client[m] \/ client'[m] = Acquired(NewClient, m)
          \/ (c = m /\ client'[m] = Settled(r))
      BY <1>0, <1>3, HandledLeaves
    <2>2. ASSUME c = m, SendsIt(Settled(r)) PROVE SendsIt(client[m])
      <3>1. Settled(r).wire = r.wire
        BY <1>3, <2>2, Settles
      <3>2. SendsIt(r)
        BY <2>2, <3>1 DEF SendsIt
      <3>3. r.wire # <<>> /\ r.command = "dot"
        BY <1>3, <2>2, <3>2, OneSent
      <3>. QED  BY <1>3, <2>2, <3>2, <3>3 DEF SendsIt
    <2>. QED  BY <1>1, <2>1, <2>2
  <1>4. ASSUME NEW c \in Client, Garbled(c) PROVE SendsIt(client[m])
    <2>. DEFINE k == client[c]
    <2>1. Handled(c, Destroy(Error(k)))
      BY <1>4 DEF Garbled
    <2>2. ASSUME c = m PROVE Kind(Destroy(Error(k))) /\ Destroy(Error(k)).wire = k.wire
      <3>1. Kind(k) /\ k.answer = "none"
        BY <1>4, <2>2, MailClient DEF Garbled, Live
      <3>. HIDE DEF k
      <3>2. Kind(Error(k)) /\ Error(k).wire = k.wire
        BY <3>1, ErrorKind
      <3>. QED  BY <3>2, DestroyNot
    <2>. QED  BY <1>3, <2>1, <2>2
  <1>5. ASSUME NEW c \in Client, OnSecured(c) PROVE SendsIt(client[m])
    <2>. DEFINE s == [client[c] EXCEPT !.socket = "open", !.secured = "yes"]
                r == SendCommand(s, "ehlo", 0)
    <2>1. Handled(c, r)
      BY <1>5 DEF OnSecured
    <2>2. ASSUME c = m PROVE Kind(r) /\ r.command = "ehlo"
      <3>1. Kind(client[c]) /\ client[c].socket = "upgrading"
        BY <1>5, <2>2, MailClient DEF OnSecured
      <3>2. Free(s)
        BY <3>1 DEF Kind, Free, ClientRecord
      <3>. HIDE DEF s
      <3>. QED  BY <3>2, PostsNothing DEF Command
    <2>. HIDE DEF r
    <2>. QED  BY <1>3, <2>1, <2>2
  <1>6. ASSUME NEW c \in Client, SocketEnds(c) \/ SocketIdle(c) PROVE SendsIt(client[m])
    <2>. DEFINE k == client[c]  d == [k EXCEPT !.socket = "closed", !.wire = <<>>]
    <2>1. Handled(c, Closed(d)) \/ Handled(c, Closed(k))
      BY <1>6 DEF SocketEnds, SocketIdle
    <2>2. ASSUME c = m PROVE /\ Kind(Closed(d)) /\ Closed(d).wire = <<>>
                             /\ Kind(Closed(k)) /\ Closed(k).wire = k.wire
      <3>1. Kind(k) /\ k.answer = "none"
        BY <1>6, <2>2, MailClient DEF SocketEnds, SocketIdle
      <3>. HIDE DEF k
      <3>2. Kind(d) /\ d.wire = <<>>
        BY <3>1, CutOff
      <3>. HIDE DEF d
      <3>. QED  BY <3>1, <3>2, DestroyNot DEF Closed, Kind
    <2>. HIDE DEF d
    <2>. QED  BY <1>3, <2>1, <2>2
  <1>7. ASSUME NEW x \in Mail, QueueForward(x) PROVE client'[m] = client[m]
    <2>1. x # m /\ m # Own /\ client \in [Client -> {q \in ClientRecord : q.answer = "none" /\ ~q.throws}]
      BY <1>7, Kinds DEF QueueForward, Inv, TypeOK, Own
    <2>. QED  BY <1>0, <1>7, <2>1 DEF QueueForward
  <1>8. ASSUME NEW x \in Mail, ForwardDisabled(x) \/ PluginTimeout(x) PROVE client'[m] = client[m]
    BY <1>8 DEF ForwardDisabled, PluginTimeout
  <1>9. ASSUME SenderDisconnects PROVE client'[m] = client[m]
    BY <1>9 DEF SenderDisconnects
  <1>. QED  BY <1>2, <1>4, <1>5, <1>6, <1>7, <1>8, <1>9 DEF Next

(* Once the backend's verdict on a mail has been passed on, OK or a refusal,*)
(* it takes nothing more of it; and a mail that was given up, because its   *)
(* hook timed out or a line was no reply, is begun to be sent only while a  *)
(* later mail of the connection has the transaction is_dead_sender asks for.*)
THEOREM Final == ASSUME Separate PROVE Spec => AnswerFinal
  <1>. DEFINE Silent == \A m \in Mail :
         /\ hook[m] \in {"OK", "DENY", "DENYSOFT"} => taken'[m] = taken[m]
         /\ hook[m] \in {"NEXT", "timeout"} /\ Sends(m)' /\ ~Sends(m) => transaction \notin {0, m}
  <1>1. ASSUME Inv, [Next]_vars PROVE [Silent]_vars
    <2>. SUFFICES ASSUME Next, NEW m \in Mail
                  PROVE  /\ hook[m] \in Verdict => taken'[m] = taken[m]
                         /\ hook[m] \in {"NEXT", "timeout"} /\ Sends(m)' /\ ~Sends(m) =>
                              transaction \notin {0, m}
      BY <1>1 DEF Verdict
    <2>1. ASSUME NEW c \in Client, Reply(c), hook[m] \in Verdict PROVE taken'[m] = taken[m]
      <3>. DEFINE k == client[c]  sent == Head(k.wire)
      <3>1. PICK code : taken' = IF sent.command = "dot" /\ code = "2"
                                 THEN [taken EXCEPT ![c] = Append(@, [from |-> k.from, to |-> k.to])]
                                 ELSE taken
        BY <2>1 DEF Reply
      <3>2. CASE c # m
        BY <1>1, <3>1, <3>2 DEF Inv, TypeOK
      <3>3. CASE c = m
        <4>1. k.wire # <<>> /\ k.socket = "open"
          BY <2>1 DEF Reply, Live
        <4>2. Kind(k) /\ Idle(k)
          BY <1>1, <2>1, <3>3, <4>1, MailClient DEF ClientOf
        <4>3. sent.command = "rset"
          BY <4>1, <4>2, HeldRest DEF Idle
        <4>. QED  BY <3>1, <4>3
      <3>. QED  BY <3>2, <3>3
    <2>2. (\E c \in Client : Reply(c)) \/ taken' = taken
      BY DEF Next, QueueForward, ForwardDisabled, PluginTimeout, Garbled, OnSecured, SocketEnds,
         SocketIdle, SenderDisconnects
    <2>3. ASSUME hook[m] \in {"NEXT", "timeout"}, Sends(m)', ~Sends(m)
          PROVE  transaction \notin {0, m}
      <3>1. transaction # m
        BY <1>1, <2>3, Kinds DEF Inv, Senders
      <3>2. SendsIt(client'[m]) /\ ~SendsIt(client[m])
        BY <2>3 DEF Sends, SendsIt
      <3>3. transaction # 0
        BY <1>1, <2>3, <3>2, SentBySomeone
      <3>. QED  BY <3>1, <3>3
    <2>. QED  BY <2>1, <2>2, <2>3
  <1>. QED  BY <1>1, ClientInvariant, PTL DEF Spec, AnswerFinal
=============================================================================
