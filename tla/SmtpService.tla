------------------------------ MODULE SmtpService ------------------------------
(***************************************************************************)
(* The mail store: smtp/src/smtp.service.ts, with the SMTP callbacks of     *)
(* smtp/src/server.ts. Mails come in over SMTP from Haraka (onData) or from *)
(* the web client (POST /send), which hands them to Haraka and stores them  *)
(* itself when Haraka took them. Clients that joined with an address are    *)
(* told that their lists changed, and fetch them (GET /mails).              *)
(*                                                                         *)
(* Haraka is external: it takes or refuses a mail, and may hand one to this *)
(* service at any time after it was given it, whatever it answered.         *)
(***************************************************************************)
EXTENDS Naturals

CONSTANTS
  Address, Socket, Letter,
  Owner,           (* the address a socket's client joins with             *)
  From, To,        (* a mail's sender and first recipient, or NoAddress    *)
  Refused,         (* the addresses that start with noreply@               *)
  NoSocket, NoAddress, NoLists,
  MaxCopies        (* bound: times Haraka delivers one mail                *)

ASSUME OwnersTyped   == Owner \in [Socket -> Address]
ASSUME MailsTyped    == From \in [Letter -> Address] /\ To \in [Letter -> Address \cup {NoAddress}]
ASSUME NullsDistinct == NoSocket \notin Socket /\ NoAddress \notin Address
ASSUME NoListsDistinct == NoLists \notin [in : [Letter -> Nat], out : [Letter -> Nat]]
ASSUME CopiesTyped   == MaxCopies \in Nat

VARIABLES
  conn,        (* socket.io's view of a socket: fresh, open or closed      *)
  connected,   (* the connected Map: an address's socket                   *)
  mailsList,   (* the copies of each mail in mailsList                     *)
  request,     (* the state of the web client's POST /send of a mail       *)
  parsing,     (* the onData calls whose parser has not called back        *)
  delivered,   (* the times Haraka has delivered a mail                    *)
  notices,     (* per address, the timers that will post to sync           *)
  stale,       (* the sockets told by MAILS_LIST that have not fetched yet *)
  lists        (* what a socket's client fetched last                      *)

store_vars == <<conn, connected, mailsList, request, parsing, delivered, notices, stale, lists>>

IsOpen(s) == conn[s] = "open"

(* getInMails, getOutMails *)
InMails(a)  == [m \in Letter |-> IF To[m] = a THEN mailsList[m] ELSE 0]
OutMails(a) == [m \in Letter |-> IF From[m] = a THEN mailsList[m] ELSE 0]

AllMails(a) == [in |-> InMails(a), out |-> OutMails(a)]

(* updateMailList: the address's socket, if any, is told to fetch again.    *)
Told(a) == {s \in Socket : connected'[a] = s}

(* processMail for addresses that are to be told; a mail without recipient  *)
(* is not stored. The notice goes to whoever is connected now, 1.5 s later. *)
(* Mutants: the recipient is told only if nobody else is named; the other   *)
(* one named is forgotten.                                                  *)
Nudged_Either(m, updateUser) ==
  IF updateUser # {} THEN updateUser ELSE {To[m]} \cap Address

Nudged_ToOnly(m, updateUser) == {To[m]} \cap Address

Nudged(m, updateUser) == ({To[m]} \cap Address) \cup updateUser

ProcessMail(m, updateUser) ==
  /\ UNCHANGED <<conn, connected, delivered, lists>>
  /\ mailsList' = IF To[m] \in Address THEN [mailsList EXCEPT ![m] = @ + 1] ELSE mailsList
  /\ notices'   = [a \in Address |-> IF a = To[m] /\ connected[a] # NoSocket
                                     THEN notices[a] + 1 ELSE notices[a]]
  /\ stale'     = stale \cup UNION {Told(a) : a \in Nudged(m, updateUser)}
-----------------------------------------------------------------------------
StoreInit ==
  /\ conn      = [s \in Socket |-> "fresh"]
  /\ connected = [a \in Address |-> NoSocket]
  /\ mailsList = [m \in Letter |-> 0]
  /\ request   = [m \in Letter |-> "none"]
  /\ parsing   = [m \in Letter |-> 0]
  /\ delivered = [m \in Letter |-> 0]
  /\ notices   = [a \in Address |-> 0]
  /\ stale     = {}
  /\ lists     = [s \in Socket |-> NoLists]

Connect(s) ==
  /\ conn[s] = "fresh"
  /\ conn' = [conn EXCEPT ![s] = "open"]
  /\ UNCHANGED <<connected, mailsList, request, parsing, delivered, notices, stale, lists>>

(* JOIN_CLIENT *)
JoinClient(s) ==
  /\ IsOpen(s)
  /\ connected' = [connected EXCEPT ![Owner[s]] = s]
  /\ stale'     = stale \cup Told(Owner[s])
  /\ UNCHANGED <<conn, mailsList, request, parsing, delivered, notices, lists>>

(* The disconnect handler forgets the address this socket is known for.     *)
(* Mutant: the address the client had joined with, by whatever socket.      *)
Forgotten_ByAddress(s) == {Owner[s]}

Forgotten(s) == {a \in Address : connected[a] = s}

Disconnect(s) ==
  /\ IsOpen(s)
  /\ conn'      = [conn EXCEPT ![s] = "closed"]
  /\ connected' = [a \in Address |-> IF a \in Forgotten(s) THEN NoSocket ELSE connected[a]]
  /\ UNCHANGED <<mailsList, request, parsing, delivered, notices, stale, lists>>

(* POST /send hands the mail to Haraka. *)
Send(m) ==
  /\ request[m] = "none"
  /\ request' = [request EXCEPT ![m] = "sending"]
  /\ UNCHANGED <<conn, connected, mailsList, parsing, delivered, notices, stale, lists>>

(* Haraka took the mail: it is stored and the sender is told too. *)
Sent(m) ==
  /\ request[m] = "sending"
  /\ request' = [request EXCEPT ![m] = "sent"]
  /\ UNCHANGED parsing
  /\ ProcessMail(m, {From[m]})

SendFailed(m) ==
  /\ request[m] = "sending"
  /\ request' = [request EXCEPT ![m] = "failed"]
  /\ UNCHANGED <<conn, connected, mailsList, parsing, delivered, notices, stale, lists>>

(* Haraka delivers a mail it was given; onRcptTo refuses some recipients.   *)
OnData(m) ==
  /\ request[m] # "none" /\ delivered[m] < MaxCopies
  /\ To[m] \notin Refused
  /\ delivered' = [delivered EXCEPT ![m] = @ + 1]
  /\ parsing'   = [parsing EXCEPT ![m] = @ + 1]
  /\ UNCHANGED <<conn, connected, mailsList, request, notices, stale, lists>>

(* simpleParser calls back once.                                            *)

Unparsed(m) == parsing[m] > 0

Parsed(m) ==
  /\ Unparsed(m)
  /\ parsing' = [parsing EXCEPT ![m] = @ - 1]
  /\ UNCHANGED request
  /\ ProcessMail(m, {})

(* The timer posts the notice to the sync service. *)
PostNotice(a) ==
  /\ notices[a] > 0
  /\ notices' = [notices EXCEPT ![a] = @ - 1]
  /\ UNCHANGED <<conn, connected, mailsList, request, parsing, delivered, stale, lists>>

(* GET /mails of a client that was told. *)
Fetch(s) ==
  /\ s \in stale /\ IsOpen(s)
  /\ stale' = stale \ {s}
  /\ lists' = [lists EXCEPT ![s] = AllMails(Owner[s])]
  /\ UNCHANGED <<conn, connected, mailsList, request, parsing, delivered, notices>>

StoreNext ==
  \/ \E s \in Socket : Connect(s) \/ JoinClient(s) \/ Disconnect(s) \/ Fetch(s)
  \/ \E m \in Letter : Send(m) \/ Sent(m) \/ SendFailed(m) \/ OnData(m) \/ Parsed(m)
  \/ \E a \in Address : PostNotice(a)

StoreSpec == StoreInit /\ [][StoreNext]_store_vars
-----------------------------------------------------------------------------
Lists == [in : [Letter -> Nat], out : [Letter -> Nat]]

(* The type of the service's state and of what clients fetched. *)
StoreTypeOK ==
  /\ conn      \in [Socket -> {"fresh", "open", "closed"}]
  /\ connected \in [Address -> Socket \cup {NoSocket}]
  /\ mailsList \in [Letter -> Nat]
  /\ request   \in [Letter -> {"none", "sending", "sent", "failed"}]
  /\ parsing   \in [Letter -> Nat]
  /\ delivered \in [Letter -> Nat]
  /\ notices   \in [Address -> Nat]
  /\ stale     \subseteq Socket
  /\ lists     \in [Socket -> Lists \cup {NoLists}]

(* Whatever way a mail comes, the client joined for its recipient has it in *)
(* its list or was told to fetch; a client that joined anew, or whose older *)
(* tab was closed meanwhile, included.                                      *)
InboxCurrent ==
  \A a \in Address, s \in Socket :
    connected[a] = s => s \in stale \/ (lists[s] # NoLists /\ lists[s].in = InMails(a))

(* When POST /send was answered "Sent", the sender's client has the mail in *)
(* its list of sent mails, or was told to fetch.                            *)
SentShown ==
  \A m \in Letter, s \in Socket :
    request[m] = "sent" /\ To[m] \in Address /\ connected[From[m]] = s
      => s \in stale \/ (lists[s] # NoLists /\ lists[s].out[m] > 0)

(* A known socket is open: nothing is sent to, and no list is owed by, a    *)
(* client that is gone.                                                     *)
ConnectedOpen == \A a \in Address : connected[a] # NoSocket => IsOpen(connected[a])

(* The client that joined last for an address is never forgotten because    *)
(* another one of the same address goes.                                    *)
KeptUnlessGone ==
  [][\A a \in Address : connected[a] # NoSocket /\ connected'[a] = NoSocket
                          => conn'[connected[a]] = "closed"]_store_vars
=============================================================================
