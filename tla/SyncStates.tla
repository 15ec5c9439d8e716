------------------------------ MODULE SyncStates ------------------------------
(***************************************************************************)
(* The presence service: sync/src/syncStates/syncStates.service.ts. It      *)
(* remembers for every user the socket that announced the user last, tells  *)
(* all clients who is present, and passes notices posted over HTTP by the   *)
(* other services (meeting invitations, mails, chat messages) to that       *)
(* socket. A user may have several sockets open (tabs, devices).            *)
(***************************************************************************)
CONSTANTS
  User, Socket,
  Owner,           (* the users a socket's client announces                *)
  NoSocket, NoView

ASSUME OwnersTyped   == Owner \in [Socket -> SUBSET User]
ASSUME NullsDistinct == NoSocket \notin Socket

VARIABLES
  conn,       (* socket.io's view of a socket: fresh, open or closed       *)
  members,    (* the members Map: the socket of a present user             *)
  shown,      (* the last SYNC_MEMBERS a socket received                   *)
  announced,  (* history: the users a socket has announced                 *)
  latest,     (* history: the socket that announced a user last            *)
  told        (* history: the users whose notices a socket has received    *)

sync_vars == <<conn, members, shown, announced, latest, told>>

Present   == {u \in User : members[u] # NoSocket}
IsOpen(s) == conn[s] = "open"

(* emitSyncMembers reaches every open socket.                                 *)

EmitSyncMembers ==
  shown' = [s \in Socket |-> IF conn'[s] = "open" THEN Present' ELSE shown[s]]
-----------------------------------------------------------------------------
SyncInit ==
  /\ conn      = [s \in Socket |-> "fresh"]
  /\ members   = [u \in User |-> NoSocket]
  /\ shown     = [s \in Socket |-> NoView]
  /\ announced = [s \in Socket |-> {}]
  /\ latest    = [u \in User |-> NoSocket]
  /\ told      = [s \in Socket |-> {}]

Connect(s) ==
  /\ conn[s] = "fresh"
  /\ conn' = [conn EXCEPT ![s] = "open"]
  /\ UNCHANGED <<members, shown, announced, latest, told>>

(* SYNC_MEMBER_CONNECT: connectMember replaces whatever socket was known.   *)
SyncMemberConnect(s, u) ==
  /\ IsOpen(s)
  /\ members'   = [members EXCEPT ![u] = s]
  /\ announced' = [announced EXCEPT ![s] = @ \cup {u}]
  /\ latest'    = [latest EXCEPT ![u] = s]
  /\ UNCHANGED <<conn, told>>
  /\ EmitSyncMembers

(* The disconnect handler forgets one user whose known socket this is; a    *)
(* user known by a later socket stays. Mutant: it forgets the user the      *)
(* socket had announced, by whatever socket the user is known now.          *)
Gone_ByUser(s) == announced[s] \cap Present

Gone(s) == {u \in User : members[u] = s}

(* Mutant: the others are not told. *)
Forget_Silently(s) ==
  /\ \E u \in Gone(s) : members' = [members EXCEPT ![u] = NoSocket]
  /\ UNCHANGED shown

Forget(s) ==
  /\ \E u \in Gone(s) : members' = [members EXCEPT ![u] = NoSocket]
  /\ EmitSyncMembers

Disconnect(s) ==
  /\ IsOpen(s)
  /\ conn' = [conn EXCEPT ![s] = "closed"]
  /\ UNCHANGED <<announced, latest, told>>
  /\ \/ Forget(s)
     \/ Gone(s) = {} /\ UNCHANGED <<members, shown>>

(* emitServerMessage to the user's socket; a notice for an absent user is   *)
(* dropped.                                                                 *)
Recipients(u) == {s \in Socket : IsOpen(s) /\ members[u] = s}

Notice(u) ==
  /\ told' = [s \in Socket |-> IF s \in Recipients(u) THEN told[s] \cup {u} ELSE told[s]]
  /\ UNCHANGED <<conn, members, shown, announced, latest>>

SyncNext ==
  \/ \E s \in Socket : \/ Connect(s)
                       \/ Disconnect(s)
                       \/ \E u \in Owner[s] : SyncMemberConnect(s, u)
  \/ \E u \in User : Notice(u)

SyncSpec == SyncInit /\ [][SyncNext]_sync_vars
-----------------------------------------------------------------------------
(* The type of the service's state and of the histories. *)
SyncTypeOK ==
  /\ conn      \in [Socket -> {"fresh", "open", "closed"}]
  /\ members   \in [User -> Socket \cup {NoSocket}]
  /\ shown     \in [Socket -> (SUBSET User) \cup {NoView}]
  /\ announced \in [Socket -> SUBSET User]
  /\ latest    \in [User -> Socket \cup {NoSocket}]
  /\ told      \in [Socket -> SUBSET User]

(* Closing an older tab never takes a user offline: while the socket that   *)
(* announced a user last is open, the user is present and reached there.    *)
LatestReachable ==
  \A u \in User : latest[u] # NoSocket /\ IsOpen(latest[u]) => members[u] = latest[u]

(* Nobody is shown as present through a socket that is gone. It needs       *)
(* clients that announce one user each: the disconnect handler forgets one. *)
NoGhosts == \A u \in Present : IsOpen(members[u])

(* A client that was told who is present was told what is so now.           *)
ShownCurrent == \A s \in Socket : IsOpen(s) /\ shown[s] # NoView => shown[s] = Present

(* A notice reaches only sockets that announced the user it is for.         *)
NoticesPrivate == \A s \in Socket : told[s] \subseteq announced[s]
=============================================================================
