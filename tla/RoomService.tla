----------------------------- MODULE RoomService -----------------------------
(***************************************************************************)
(* The meeting server: webrtc/src/room/room.service.ts, driven by the      *)
(* socket handlers of webrtc/src/server.ts.                                *)
(*                                                                         *)
(* Node runs one handler at a time to its end, so a handler is one action. *)
(* What interleaves is the handlers of different sockets and the callbacks *)
(* of the two timers a handler may leave behind: the one that announces a  *)
(* join 100 ms later, and the one that deletes an empty room 30 s later.   *)
(* Both callbacks hold the room object they were armed with. updateRoom    *)
(* replaces that object in roomsList by a shallow copy, which shares the   *)
(* members Map and the messages array with the old one but not startTime.  *)
(***************************************************************************)
EXTENDS Naturals, FiniteSets

CONSTANTS
  Room,            (* the ids uuid() may give to rooms                     *)
  User,            (* user ids, those of the bots included                 *)
  Bot,             (* the ids uuid() may give to assistants                *)
  Socket,          (* the ids of socket.io sockets, never reused           *)
  Owner,           (* the users a socket's client acts for                 *)
  Key,             (* room keys                                            *)
  Modes,           (* the values of privateMode clients send               *)
  InviteLists,     (* the invite lists clients send                        *)
  ModeratorLists,  (* the moderator lists clients send                     *)
  NoSocket, NoKey, NoView,
  MaxJoinTimers,   (* bound: join announcements pending per room           *)
  MaxReapers       (* bound: deletion timers pending per room              *)

ASSUME UsersFinite   == IsFiniteSet(User)
ASSUME BotsAreUsers  == Bot \subseteq User
ASSUME OwnersTyped   == Owner \in [Socket -> SUBSET User]
ASSUME ListsTyped    == /\ Modes \subseteq BOOLEAN
                        /\ InviteLists \subseteq SUBSET User
                        /\ ModeratorLists \subseteq SUBSET User
ASSUME NullsDistinct == NoSocket \notin Socket /\ NoKey \notin Key
ASSUME BoundsTyped   == MaxJoinTimers \in Nat /\ MaxReapers \in Nat

VARIABLES
  conn,        (* socket.io's view of a socket: fresh, open or closed      *)
  joined,      (* the sockets in the socket.io room of a meeting           *)
  issued,      (* the room ids and bot ids uuid() has handed out           *)
  roomsList,   (* the keys of roomsList                                    *)
  room,        (* the object roomsList holds, without its shared parts     *)
  seat,        (* members: the socketId of a user's Member, or NoSocket    *)
  media,       (* the socket that turned the member's mic or camera on     *)
  announce,    (* join timers pending: on the object in roomsList (fresh)  *)
               (* and on an object updateRoom has replaced (stale)         *)
  reaper,      (* deletion timers pending                                  *)
  listSeen,    (* the last ROOMS_LIST sent to a socket                     *)
  dataSeen,    (* the last ROOM_DATA sent to a socket since it joined      *)
  chatSeen,    (* the sockets that hold the room's present MESSAGES_LIST   *)
  visited,     (* history: rooms somebody has joined                       *)
  split,       (* history: rooms copied while a join timer was pending     *)
  robbed       (* history: rooms where a device removed another's member   *)

vars == <<conn, joined, issued, roomsList, room, seat, media, announce, reaper,
          listSeen, dataSeen, chatSeen, visited, split, robbed>>

RoomObject == [privateMode : BOOLEAN, key : Key \cup {NoKey}, started : BOOLEAN,
               invites : SUBSET User, moderators : SUBSET User]

Occupants(r) == {u \in User : seat[r][u] # NoSocket}
IsOpen(s)    == conn[s] = "open"

(***************************************************************************)
(* What clients are shown: an entry of ROOMS_LIST, and ROOM_DATA.          *)
(***************************************************************************)
RoomPrev(r) ==
  IF r \in roomsList
  THEN [privateMode |-> room[r].privateMode, started |-> room[r].started,
        invites |-> room[r].invites, membersCount |-> Cardinality(Occupants(r))]
  ELSE NoView

RoomsPrevList == [r \in Room |-> RoomPrev(r)]

RoomData(r) == [object  |-> room[r], members |-> seat[r],
                mediaOn |-> {u \in User : media[r][u] # NoSocket}]

(* sendRooms: io.emit reaches every open socket. *)
SendRooms ==
  listSeen' = [s \in Socket |-> IF conn'[s] = "open" THEN RoomsPrevList' ELSE listSeen[s]]

(* sendRoom: io.to(roomId).emit, and nothing once the room is not listed.   *)
(* A socket out of the socket.io room keeps no view of it.                  *)
RoomDataSent(r) ==
  [s \in Socket |-> IF s \notin joined'[r] THEN NoView
                    ELSE IF r \in roomsList' THEN RoomData(r)' ELSE dataSeen[r][s]]

SendRoom(r) == dataSeen' = [dataSeen EXCEPT ![r] = RoomDataSent(r)]

(* Mutant: the list is sent before the message is pushed. *)
MessagesSent_Before(r) == {}

(* push, sort and sendMessages: whoever listens holds the new list, unless  *)
(* the room is gone and the list is only reachable from a timer.            *)
MessagesSent(r) == IF r \in roomsList' THEN joined'[r] ELSE {}

PushMessage(r) == chatSeen' = [chatSeen EXCEPT ![r] = MessagesSent(r)]

NoJoinPending(r) == announce[r].fresh + announce[r].stale = 0

(* A timer fires once if it was set. *)
Due(timers) == timers > 0
-----------------------------------------------------------------------------
Init ==
  /\ conn      = [s \in Socket |-> "fresh"]
  /\ joined    = [r \in Room |-> {}]
  /\ issued    = {}
  /\ roomsList = {}
  /\ room      = [r \in Room |-> [privateMode |-> FALSE, key |-> NoKey, started |-> FALSE,
                                  invites |-> {}, moderators |-> {}]]
  /\ seat      = [r \in Room |-> [u \in User |-> NoSocket]]
  /\ media     = [r \in Room |-> [u \in User |-> NoSocket]]
  /\ announce  = [r \in Room |-> [fresh |-> 0, stale |-> 0]]
  /\ reaper    = [r \in Room |-> 0]
  /\ listSeen  = [s \in Socket |-> NoView]
  /\ dataSeen  = [r \in Room |-> [s \in Socket |-> NoView]]
  /\ chatSeen  = [r \in Room |-> {}]
  /\ visited   = {}
  /\ split     = {}
  /\ robbed    = {}

(* connectedClient *)
Connect(s) ==
  /\ conn[s] = "fresh"
  /\ conn'     = [conn EXCEPT ![s] = "open"]
  /\ listSeen' = [listSeen EXCEPT ![s] = RoomsPrevList]
  /\ UNCHANGED <<joined, issued, roomsList, room, seat, media, announce, reaper,
                 dataSeen, chatSeen, visited, split, robbed>>

(* createRoom: the new room has no key when the client sent none. *)
CreateRoom(s, u, private, key, invites) ==
  /\ IsOpen(s)
  /\ \E r \in Room \ issued :
       /\ issued'    = issued \cup {r}
       /\ roomsList' = roomsList \cup {r}
       /\ room'      = [room EXCEPT ![r] =
                          [privateMode |-> private, key |-> key, started |-> FALSE,
                           invites |-> invites, moderators |-> {u}]]
  /\ UNCHANGED <<conn, joined, seat, media, announce, reaper, dataSeen, chatSeen,
                 visited, split, robbed>>
  /\ SendRooms

(* joinMember admits whoever the room is open to, is invited, or shows the key. *)
Admitted(r, u, key) ==
  \/ ~room[r].privateMode
  \/ u \in room[r].invites
  \/ key # NoKey /\ key = room[r].key

(* The sockets that keep listening when u joins: the device the user is     *)
(* seated with is told to go and leaves the socket.io room.                 *)
TakenOver(r, u) == {t \in Socket : seat[r][u] = t /\ conn[t] = "open"}

(* Mutant: the old device is told to go but stays in the socket.io room. *)
StillListening_All(r, u) == joined[r]

StillListening(r, u) == joined[r] \ TakenOver(r, u)

(* Mutant: the old device leaves after the new one joined. *)
Listening_LateLeave(s, r, u) == (joined[r] \cup {s}) \ TakenOver(r, u)

Listening(s, r, u) == StillListening(r, u) \cup {s}

(* A new Member, all media off, takes the place of the old one. *)
NewMedia(r, u) == [media EXCEPT ![r][u] = NoSocket]

(* joinMember, the announcement being left to a timer. sendRooms and        *)
(* sendRoom are called at once when another device is superseded.           *)
JoinMember(s, r, u, key) ==
  /\ IsOpen(s) /\ r \in roomsList
  /\ Admitted(r, u, key)
  /\ announce[r].fresh + announce[r].stale < MaxJoinTimers
  /\ seat'     = [seat EXCEPT ![r][u] = s]
  /\ media'    = NewMedia(r, u)
  /\ joined'   = [joined EXCEPT ![r] = Listening(s, r, u)]
  /\ announce' = [announce EXCEPT ![r].fresh = @ + 1]
  /\ visited'  = visited \cup {r}
  /\ UNCHANGED <<conn, issued, roomsList, room, reaper, split, robbed>>
  /\ chatSeen' = [chatSeen EXCEPT ![r] = @ \cap StillListening(r, u)]
  /\ dataSeen' = [dataSeen EXCEPT ![r] =
                    [t \in Socket |-> IF t \notin StillListening(r, u) THEN NoView
                                      ELSE IF TakenOver(r, u) # {} THEN RoomData(r)'
                                      ELSE @[t]]]
  /\ IF TakenOver(r, u) # {} THEN SendRooms ELSE UNCHANGED listSeen

(* The outer setTimeout of join. It sets startTime on the object it holds.  *)
AnnounceJoin(r, object) ==
  /\ Due(announce[r][object])
  /\ announce' = [announce EXCEPT ![r][object] = @ - 1]
  /\ room'     = IF object = "fresh" THEN [room EXCEPT ![r].started = TRUE] ELSE room
  /\ UNCHANGED <<conn, joined, issued, roomsList, seat, media, reaper, visited, split,
                 robbed>>
  /\ SendRooms /\ SendRoom(r) /\ PushMessage(r)

(* leaveMember for every room and user of Left: the member goes, the socket *)
(* leaves the socket.io rooms of Out, an empty room is left to a timer, and *)
(* the rooms are sent what remains.                                         *)
Emptied(Left) == {r \in {l[1] : l \in Left} : Occupants(r)' = {}}

Depart(s, Left, Out) ==
  LET rooms == {l[1] : l \in Left}
  IN  /\ seat'   = [r \in Room |-> [u \in User |->
                      IF <<r, u>> \in Left THEN NoSocket ELSE seat[r][u]]]
      /\ media'  = [r \in Room |-> [u \in User |->
                      IF <<r, u>> \in Left THEN NoSocket ELSE media[r][u]]]
      /\ joined' = [r \in Room |-> IF r \in Out THEN joined[r] \ {s} ELSE joined[r]]
      /\ reaper' = [r \in Room |-> IF r \in Emptied(Left) THEN reaper[r] + 1 ELSE reaper[r]]
      /\ \A r \in Room : reaper'[r] <= MaxReapers
      /\ UNCHANGED <<issued, roomsList, room, announce, visited, split>>
      /\ IF Left # {} THEN SendRooms ELSE UNCHANGED listSeen
      /\ dataSeen' = [r \in Room |-> IF r \in rooms THEN RoomDataSent(r)
                        ELSE [t \in Socket |-> IF t \in joined'[r] THEN dataSeen[r][t]
                                               ELSE NoView]]
      /\ chatSeen' = [r \in Room |-> IF r \in rooms THEN MessagesSent(r)
                                     ELSE chatSeen[r] \cap joined'[r]]

(* leaveMember asks neither for a member nor for the member's own socket. *)
LeaveMember(s, r, u) ==
  /\ IsOpen(s) /\ r \in roomsList
  /\ UNCHANGED conn
  /\ robbed' = IF seat[r][u] \in {s, NoSocket} THEN robbed ELSE robbed \cup {r}
  /\ Depart(s, {<<r, u>>}, {r})

(* socket.io takes the socket out of all rooms, then disconnectedSocket     *)
(* calls leaveMember for the members of this socket.                        *)
SeatsOf(s) == {l \in roomsList \X User : seat[l[1]][l[2]] = s}

Disconnect(s) ==
  /\ IsOpen(s)
  /\ conn' = [conn EXCEPT ![s] = "closed"]
  /\ UNCHANGED robbed
  /\ Depart(s, SeatsOf(s), Room)

(* updateMember: the flags (mic, camera, screen) of the socket's own member. *)
UpdateMember(s, r, u, on) ==
  /\ IsOpen(s) /\ r \in roomsList
  /\ seat[r][u] = s
  /\ media' = [media EXCEPT ![r][u] = IF on THEN s ELSE NoSocket]
  /\ UNCHANGED <<conn, joined, issued, roomsList, room, seat, announce, reaper, listSeen,
                 chatSeen, visited, split, robbed>>
  /\ SendRoom(r)

(* updateRoom puts a copy of the room object in roomsList. Join timers keep *)
(* the object they were armed with. The notices posted to the newly invited *)
(* go to the sync service, which keeps no state of them.                    *)
Copied(r, private, invites, moderators) ==
  [room[r] EXCEPT !.privateMode = private, !.invites = invites, !.moderators = moderators]

MayUpdate(s, r, u) == seat[r][u] = s /\ (u \in room[r].moderators \/ u \in Bot)

UpdateRoom(s, r, u, private, invites, moderators) ==
  /\ IsOpen(s) /\ r \in roomsList
  /\ MayUpdate(s, r, u)
  /\ room'     = [room EXCEPT ![r] = Copied(r, private, invites, moderators)]
  /\ announce' = [announce EXCEPT ![r] = [fresh |-> 0, stale |-> @.fresh + @.stale]]
  /\ split'    = IF announce[r].fresh > 0 /\ ~room[r].started THEN split \cup {r} ELSE split
  /\ UNCHANGED <<conn, joined, issued, roomsList, seat, media, reaper, chatSeen, visited,
                 robbed>>
  /\ SendRooms /\ SendRoom(r)

(* Mutants: the room is deleted without looking again; it is spared while a *)
(* join is still to be announced.                                           *)
MayDelete_Unchecked(r) == TRUE

MayDelete_Idle(r) == Occupants(r) = {} /\ NoJoinPending(r)

(* The setTimeout of deleteRoom. *)
MayDelete(r) == Occupants(r) = {}

DeleteRoomFires(r) ==
  /\ Due(reaper[r])
  /\ reaper' = [reaper EXCEPT ![r] = @ - 1]
  /\ UNCHANGED <<conn, joined, issued, room, seat, media, announce, dataSeen, chatSeen,
                 visited, split, robbed>>
  /\ \/ /\ MayDelete(r)
        /\ roomsList' = roomsList \ {r}
        /\ SendRooms
     \/ /\ ~MayDelete(r)
        /\ UNCHANGED <<roomsList, listSeen>>

(* newMessage *)
NewMessage(s, r) ==
  /\ IsOpen(s) /\ r \in roomsList
  /\ UNCHANGED <<conn, joined, issued, roomsList, room, seat, media, announce, reaper,
                 listSeen, dataSeen, visited, split, robbed>>
  /\ PushMessage(r)

(* inviteAssistant and kickAssistant change the invites; the bot is told by *)
(* an event. Whichever bot find() meets first is kicked.                    *)
BotsIn(r) == Occupants(r) \cap Bot

SetInvites(r, invites) ==
  /\ room' = [room EXCEPT ![r].invites = invites]
  /\ UNCHANGED <<conn, joined, roomsList, seat, media, announce, reaper, chatSeen, visited,
                 split, robbed>>
  /\ SendRooms /\ SendRoom(r)

InviteAssistant(s, r) ==
  /\ IsOpen(s) /\ r \in roomsList
  /\ BotsIn(r) = {}
  /\ \E b \in Bot \ issued :
       /\ issued' = issued \cup {b}
       /\ SetInvites(r, room[r].invites \cup {b})

KickAssistant(s, r) ==
  /\ IsOpen(s) /\ r \in roomsList
  /\ UNCHANGED issued
  /\ \E b \in BotsIn(r) : SetInvites(r, room[r].invites \ {b})
-----------------------------------------------------------------------------
ClientStep(s) ==
  \/ Connect(s)
  \/ Disconnect(s)
  \/ \E u \in Owner[s], private \in Modes, key \in Key \cup {NoKey}, invites \in InviteLists :
       CreateRoom(s, u, private, key, invites)
  \/ \E r \in Room :
       \/ \E u \in Owner[s] :
            \/ \E key \in Key \cup {NoKey} : JoinMember(s, r, u, key)
            \/ LeaveMember(s, r, u)
            \/ \E on \in BOOLEAN : UpdateMember(s, r, u, on)
            \/ \E private \in Modes, invites \in InviteLists, moderators \in ModeratorLists :
                 UpdateRoom(s, r, u, private, invites, moderators)
       \/ NewMessage(s, r)
       \/ InviteAssistant(s, r)
       \/ KickAssistant(s, r)

TimerStep(r) ==
  \/ \E object \in {"fresh", "stale"} : AnnounceJoin(r, object)
  \/ DeleteRoomFires(r)

Next == (\E s \in Socket : ClientStep(s)) \/ (\E r \in Room : TimerStep(r))

Spec == Init /\ [][Next]_vars
-----------------------------------------------------------------------------
(* The views the code may have sent. *)
PrevView == [privateMode : BOOLEAN, started : BOOLEAN, invites : SUBSET User,
             membersCount : Nat]
DataView == [object : RoomObject, members : [User -> Socket \cup {NoSocket}],
             mediaOn : SUBSET User]

ServerTypeOK ==
  /\ conn      \in [Socket -> {"fresh", "open", "closed"}]
  /\ joined    \in [Room -> SUBSET Socket]
  /\ issued    \subseteq Room \cup Bot
  /\ roomsList \subseteq Room
  /\ room      \in [Room -> RoomObject]
  /\ seat      \in [Room -> [User -> Socket \cup {NoSocket}]]
  /\ media     \in [Room -> [User -> Socket \cup {NoSocket}]]
  /\ announce  \in [Room -> [fresh : Nat, stale : Nat]]
  /\ reaper    \in [Room -> Nat]

ViewTypeOK ==
  /\ listSeen  \in [Socket -> [Room -> PrevView \cup {NoView}] \cup {NoView}]
  /\ dataSeen  \in [Room -> [Socket -> DataView \cup {NoView}]]
  /\ chatSeen  \in [Room -> SUBSET Socket]

(* The type of every variable of the server and of what its clients hold.   *)
TypeOK == ServerTypeOK /\ ViewTypeOK /\ visited \cup split \cup robbed \subseteq Room

(* The sockets that hold a seat of a room. *)
Seated(r) == {s \in Socket : \E u \in User : seat[r][u] = s}

(* Every member of a room is reachable: its socket is open and listens to   *)
(* the socket.io room, whatever joins, takeovers, leaves and disconnections *)
(* came before. It needs clients that act for one user each: a socket with  *)
(* two members in a room leaves the socket.io room with the first of them.  *)
MembersListen == \A r \in Room : \A s \in Seated(r) : IsOpen(s) /\ s \in joined[r]

(* Nobody listens to a meeting without being seen in its member list (the   *)
(* superseded device of a takeover in particular), unless a superseded      *)
(* device has removed the member another device had taken over: leaveMember *)
(* does not ask for the member's socket.                                    *)
ListenersAreMembers == \A r \in Room \ robbed : joined[r] \subseteq Seated(r)

(* A room that was emptied is not kept for ever: while it is listed and     *)
(* empty a deletion timer is pending, even if earlier timers found it       *)
(* occupied and fired in vain. As node fires what was set, the room goes    *)
(* or is used again.                                                        *)
EmptyRoomDoomed ==
  \A r \in roomsList \cap visited : Occupants(r) = {} => reaper[r] > 0

(* No timer callback takes away a meeting that is in use, though deletion   *)
(* timers are never cancelled: a room leaves roomsList only when it has no   *)
(* members, and no listeners but those a superseded device deprived of      *)
(* their member.                                                            *)
OccupiedRoomKept ==
  [][\A r \in roomsList \ roomsList' :
       /\ Occupants(r) = {}
       /\ r \notin robbed => joined[r] = {}]_vars

(* What a connected client was last told of a room in ROOMS_LIST is what    *)
(* the server holds, except between a join and its delayed announcement.    *)
RoomsListCurrent ==
  \A r \in Room : NoJoinPending(r) =>
    \A s \in Socket : IsOpen(s) => listSeen[s][r] = RoomPrev(r)

(* What a listener was last told in ROOM_DATA is what the server holds,     *)
(* except between a join and its announcement.                              *)
RoomDataCurrent ==
  \A r \in roomsList : NoJoinPending(r) =>
    \A s \in joined[r] : dataSeen[r][s] = RoomData(r)

(* The same for the chat: the messages array survives the copies updateRoom *)
(* makes, so a callback that holds an old room object adds to the same chat.*)
ChatCurrent == \A r \in roomsList : NoJoinPending(r) => joined[r] \subseteq chatSeen[r]

(* Every client that listens was last told what the server holds: the list  *)
(* of rooms, the room and its chat, however handlers and timers interleave, *)
(* except between a join and its announcement.                              *)
ViewsCurrent == RoomsListCurrent /\ RoomDataCurrent /\ ChatCurrent

(* A member shown with the microphone or the camera on turned it on from    *)
(* the device that holds the seat now.                                      *)
MediaFromSeat ==
  \A r \in Room, u \in User : media[r][u] # NoSocket => media[r][u] = seat[r][u]

(* An occupied meeting whose joins were all announced has a start time,     *)
(* unless updateRoom copied the room object between the first join and its  *)
(* announcement: startTime is then set on the object that was replaced.     *)
StartTimeKept ==
  \A r \in roomsList \ split : Occupants(r) # {} /\ NoJoinPending(r) => room[r].started
=============================================================================
