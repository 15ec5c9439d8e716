-------------------------- MODULE RoomServiceProofs --------------------------
(***************************************************************************)
(* Proofs about RoomService, for any number of rooms, users and sockets.   *)
(***************************************************************************)
EXTENDS RoomService, FiniteSetTheorems, TLAPS

LEMMA OccupantsFinite == ASSUME NEW r \in Room PROVE Cardinality(Occupants(r)) \in Nat
  <1>1. Occupants(r) \subseteq User  BY DEF Occupants
  <1>2. IsFiniteSet(Occupants(r))    BY <1>1, UsersFinite, FS_Subset
  <1>. QED  BY <1>2, FS_CardinalityType

(* What is sent to clients is a view of the right type. *)
ViewsOK == /\ RoomsPrevList \in [Room -> PrevView \cup {NoView}]
           /\ \A r \in Room : RoomData(r) \in DataView

LEMMA ViewsTyped == ServerTypeOK => ViewsOK
  <1>. SUFFICES ASSUME ServerTypeOK PROVE ViewsOK
    OBVIOUS
  <1>1. ASSUME NEW r \in Room PROVE RoomPrev(r) \in PrevView \cup {NoView}
    BY <1>1, OccupantsFinite DEF RoomPrev, PrevView, ServerTypeOK, RoomObject
  <1>2. ASSUME NEW r \in Room PROVE RoomData(r) \in DataView
    BY <1>2 DEF RoomData, DataView, ServerTypeOK
  <1>. QED  BY <1>1, <1>2 DEF RoomsPrevList, ViewsOK

LEMMA NextViewsTyped == ServerTypeOK' => ViewsOK'
  BY ViewsTyped, PTL

LEMMA SendRoomsTyped ==
  ASSUME TypeOK, ServerTypeOK', SendRooms
  PROVE  listSeen' \in [Socket -> [Room -> PrevView \cup {NoView}] \cup {NoView}]
  BY NextViewsTyped DEF ViewsOK, SendRooms, TypeOK, ViewTypeOK

LEMMA RoomDataSentTyped ==
  ASSUME TypeOK, ServerTypeOK', NEW r \in Room
  PROVE  RoomDataSent(r) \in [Socket -> DataView \cup {NoView}]
  BY NextViewsTyped DEF ViewsOK, RoomDataSent, TypeOK, ViewTypeOK

LEMMA SendRoomTyped ==
  ASSUME TypeOK, ServerTypeOK', NEW r \in Room, SendRoom(r)
  PROVE  dataSeen' \in [Room -> [Socket -> DataView \cup {NoView}]]
  BY RoomDataSentTyped DEF SendRoom, TypeOK, ViewTypeOK

LEMMA PushMessageTyped ==
  ASSUME TypeOK, ServerTypeOK', NEW r \in Room, PushMessage(r)
  PROVE  chatSeen' \in [Room -> SUBSET Socket]
  BY DEF PushMessage, MessagesSent, TypeOK, ServerTypeOK, ViewTypeOK
-----------------------------------------------------------------------------
(* Every step keeps the types: first of the server's own state, then of the *)
(* views of it that the step sends.                                         *)
LEMMA RoomObjectUpdates ==
  ASSUME NEW o \in RoomObject, NEW private \in BOOLEAN,
         NEW invites \in SUBSET User, NEW moderators \in SUBSET User
  PROVE  /\ [o EXCEPT !.started = TRUE] \in RoomObject
         /\ [o EXCEPT !.invites = invites] \in RoomObject
         /\ [o EXCEPT !.privateMode = private, !.invites = invites,
                      !.moderators = moderators] \in RoomObject
  BY DEF RoomObject

LEMMA TimerUpdates ==
  ASSUME NEW o \in [fresh : Nat, stale : Nat], NEW object \in {"fresh", "stale"},
         o[object] > 0
  PROVE  [o EXCEPT ![object] = @ - 1] \in [fresh : Nat, stale : Nat]
  <1>1. CASE object = "fresh"  BY <1>1
  <1>2. CASE object = "stale"  BY <1>2
  <1>. QED  BY <1>1, <1>2

LEMMA JoinTyped ==
  ASSUME TypeOK, NEW s \in Socket, NEW r \in Room, NEW u \in User,
         NEW key \in Key \cup {NoKey}, JoinMember(s, r, u, key)
  PROVE  TypeOK'
  <1>1. joined' \in [Room -> SUBSET Socket]
    BY DEF JoinMember, Listening, StillListening, TypeOK, ServerTypeOK
  <1>2. media' \in [Room -> [User -> Socket \cup {NoSocket}]]
    BY DEF JoinMember, NewMedia, TypeOK, ServerTypeOK
  <1>3. announce' \in [Room -> [fresh : Nat, stale : Nat]]
    <2>1. announce[r] \in [fresh : Nat, stale : Nat]
      BY DEF TypeOK, ServerTypeOK
    <2>2. [announce[r] EXCEPT !.fresh = @ + 1] \in [fresh : Nat, stale : Nat]
      BY <2>1
    <2>. QED  BY <2>2 DEF JoinMember, TypeOK, ServerTypeOK
  <1>4. ServerTypeOK'
    BY <1>1, <1>2, <1>3 DEF JoinMember, TypeOK, ServerTypeOK
  <1>5. listSeen' \in [Socket -> [Room -> PrevView \cup {NoView}] \cup {NoView}]
    BY <1>4, SendRoomsTyped DEF JoinMember, TypeOK, ViewTypeOK
  <1>6. dataSeen' \in [Room -> [Socket -> DataView \cup {NoView}]]
    BY <1>4, NextViewsTyped DEF JoinMember, ViewsOK, TypeOK, ViewTypeOK
  <1>7. chatSeen' \in [Room -> SUBSET Socket]
    BY DEF JoinMember, TypeOK, ViewTypeOK
  <1>. QED  BY <1>4, <1>5, <1>6, <1>7 DEF JoinMember, TypeOK, ViewTypeOK

LEMMA AnnounceTyped ==
  ASSUME TypeOK, NEW r \in Room, NEW object \in {"fresh", "stale"},
         AnnounceJoin(r, object)
  PROVE  TypeOK'
  <1>1. announce' \in [Room -> [fresh : Nat, stale : Nat]]
    <2>1. announce[r] \in [fresh : Nat, stale : Nat]
      BY DEF TypeOK, ServerTypeOK
    <2>2. announce[r][object] > 0
      BY DEF AnnounceJoin, Due
    <2>3. [announce[r] EXCEPT ![object] = @ - 1] \in [fresh : Nat, stale : Nat]
      BY <2>1, <2>2, TimerUpdates
    <2>. QED  BY <2>3 DEF AnnounceJoin, TypeOK, ServerTypeOK
  <1>2. room' \in [Room -> RoomObject]
    BY RoomObjectUpdates DEF AnnounceJoin, TypeOK, ServerTypeOK
  <1>3. ServerTypeOK'
    BY <1>1, <1>2 DEF AnnounceJoin, TypeOK, ServerTypeOK
  <1>. QED
    BY <1>3, SendRoomsTyped, SendRoomTyped, PushMessageTyped
    DEF AnnounceJoin, TypeOK, ViewTypeOK

LEMMA DepartTyped ==
  ASSUME TypeOK, NEW s \in Socket, NEW Left \in SUBSET (Room \X User), NEW Out \in SUBSET Room,
         Depart(s, Left, Out), conn' \in [Socket -> {"fresh", "open", "closed"}]
  PROVE  ServerTypeOK' /\ ViewTypeOK'
  <1>1. reaper' \in [Room -> Nat]
    BY DEF Depart, TypeOK, ServerTypeOK
  <1>2. joined' \in [Room -> SUBSET Socket]
    BY DEF Depart, TypeOK, ServerTypeOK
  <1>3. /\ seat'  \in [Room -> [User -> Socket \cup {NoSocket}]]
        /\ media' \in [Room -> [User -> Socket \cup {NoSocket}]]
    BY DEF Depart, TypeOK, ServerTypeOK
  <1>4. ServerTypeOK'
    BY <1>1, <1>2, <1>3 DEF Depart, TypeOK, ServerTypeOK
  <1>5. listSeen' \in [Socket -> [Room -> PrevView \cup {NoView}] \cup {NoView}]
    BY <1>4, SendRoomsTyped DEF Depart, TypeOK, ViewTypeOK
  <1>6. dataSeen' \in [Room -> [Socket -> DataView \cup {NoView}]]
    BY <1>4, RoomDataSentTyped DEF Depart, TypeOK, ViewTypeOK
  <1>7. chatSeen' \in [Room -> SUBSET Socket]
    BY <1>2 DEF Depart, MessagesSent, TypeOK, ViewTypeOK
  <1>. QED  BY <1>4, <1>5, <1>6, <1>7 DEF ViewTypeOK

LEMMA UpdateRoomTyped ==
  ASSUME TypeOK, NEW s \in Socket, NEW r \in Room, NEW u \in User, NEW private \in BOOLEAN,
         NEW invites \in SUBSET User, NEW moderators \in SUBSET User,
         UpdateRoom(s, r, u, private, invites, moderators)
  PROVE  TypeOK'
  <1>1. Copied(r, private, invites, moderators) \in RoomObject
    BY RoomObjectUpdates DEF Copied, TypeOK, ServerTypeOK
  <1>2. announce' \in [Room -> [fresh : Nat, stale : Nat]]
    BY DEF UpdateRoom, TypeOK, ServerTypeOK
  <1>3. ServerTypeOK'
    BY <1>1, <1>2 DEF UpdateRoom, TypeOK, ServerTypeOK
  <1>. QED
    BY <1>3, SendRoomsTyped, SendRoomTyped DEF UpdateRoom, TypeOK, ViewTypeOK

LEMMA SetInvitesTyped ==
  ASSUME TypeOK, NEW r \in Room, NEW invites \in SUBSET User, SetInvites(r, invites),
         issued' \subseteq Room \cup Bot
  PROVE  TypeOK'
  <1>1. room' \in [Room -> RoomObject]
    BY RoomObjectUpdates DEF SetInvites, TypeOK, ServerTypeOK
  <1>2. ServerTypeOK'
    BY <1>1 DEF SetInvites, TypeOK, ServerTypeOK
  <1>. QED
    BY <1>2, SendRoomsTyped, SendRoomTyped DEF SetInvites, TypeOK, ViewTypeOK

LEMMA CreateTyped ==
  ASSUME TypeOK, NEW s \in Socket, NEW u \in User, NEW private \in BOOLEAN,
         NEW key \in Key \cup {NoKey}, NEW invites \in SUBSET User,
         CreateRoom(s, u, private, key, invites)
  PROVE  TypeOK'
  <1>1. PICK r \in Room \ issued :
          /\ issued'    = issued \cup {r}
          /\ roomsList' = roomsList \cup {r}
          /\ room'      = [room EXCEPT ![r] =
                             [privateMode |-> private, key |-> key, started |-> FALSE,
                              invites |-> invites, moderators |-> {u}]]
    BY DEF CreateRoom
  <1>2. room' \in [Room -> RoomObject]
    BY <1>1 DEF TypeOK, ServerTypeOK, RoomObject
  <1>3. ServerTypeOK'
    BY <1>1, <1>2 DEF CreateRoom, TypeOK, ServerTypeOK
  <1>. QED  BY <1>3, SendRoomsTyped DEF CreateRoom, TypeOK, ViewTypeOK

LEMMA UpdateMemberTyped ==
  ASSUME TypeOK, NEW s \in Socket, NEW r \in Room, NEW u \in User, NEW on \in BOOLEAN,
         UpdateMember(s, r, u, on)
  PROVE  TypeOK'
  <1>1. media' \in [Room -> [User -> Socket \cup {NoSocket}]]
    BY DEF UpdateMember, TypeOK, ServerTypeOK
  <1>2. ServerTypeOK'
    BY <1>1 DEF UpdateMember, TypeOK, ServerTypeOK
  <1>. QED  BY <1>2, SendRoomTyped DEF UpdateMember, TypeOK, ViewTypeOK

LEMMA DeleteTyped ==
  ASSUME TypeOK, NEW r \in Room, DeleteRoomFires(r)
  PROVE  TypeOK'
  <1>1. reaper' \in [Room -> Nat]
    BY DEF DeleteRoomFires, Due, TypeOK, ServerTypeOK
  <1>2. ServerTypeOK'
    BY <1>1 DEF DeleteRoomFires, TypeOK, ServerTypeOK
  <1>. QED  BY <1>2, SendRoomsTyped DEF DeleteRoomFires, TypeOK, ViewTypeOK

-----------------------------------------------------------------------------
(* What the runs of TLC suppose of the constants' types when they pick a    *)
(* client's arguments.                                                      *)
LEMMA OwnersAreUsers == ASSUME NEW s \in Socket, NEW u \in Owner[s] PROVE u \in User
  BY OwnersTyped

(* Every step of a client, named: the cases of Next used below.             *)
ClientCases(s) ==
  \/ Connect(s)
  \/ Disconnect(s)
  \/ \E u \in User, private \in BOOLEAN, key \in Key \cup {NoKey}, invites \in SUBSET User :
       CreateRoom(s, u, private, key, invites)
  \/ \E r \in Room : NewMessage(s, r) \/ InviteAssistant(s, r) \/ KickAssistant(s, r)
  \/ \E r \in Room, u \in Owner[s], key \in Key \cup {NoKey} : JoinMember(s, r, u, key)
  \/ \E r \in Room, u \in Owner[s] : LeaveMember(s, r, u)
  \/ \E r \in Room, u \in User, on \in BOOLEAN : UpdateMember(s, r, u, on)
  \/ \E r \in Room, u \in User, private \in BOOLEAN, invites \in SUBSET User,
        moderators \in SUBSET User : UpdateRoom(s, r, u, private, invites, moderators)

LEMMA ClientStepCases == ASSUME NEW s \in Socket, ClientStep(s) PROVE ClientCases(s)
  BY OwnersAreUsers, ListsTyped DEF ClientStep, ClientCases

(* Type correctness: no handler and no timer callback leaves a variable, or *)
(* a view sent to a client, outside its type.                               *)
LEMMA TypeStep == TypeOK /\ [Next]_vars => TypeOK'
  <1>. SUFFICES ASSUME TypeOK, [Next]_vars PROVE TypeOK'
    OBVIOUS
  <1>1. ASSUME NEW s \in Socket, Connect(s) PROVE TypeOK'
    <2>1. RoomsPrevList \in [Room -> PrevView \cup {NoView}]
      BY ViewsTyped DEF ViewsOK, TypeOK
    <2>2. ServerTypeOK'
      BY <1>1 DEF Connect, TypeOK, ServerTypeOK
    <2>. QED  BY <1>1, <2>1, <2>2 DEF Connect, TypeOK, ViewTypeOK
  <1>2. ASSUME NEW s \in Socket, Disconnect(s) PROVE TypeOK'
    <2>1. SeatsOf(s) \in SUBSET (Room \X User)
      BY DEF SeatsOf, TypeOK, ServerTypeOK
    <2>2. conn' \in [Socket -> {"fresh", "open", "closed"}]
      BY <1>2 DEF Disconnect, TypeOK, ServerTypeOK
    <2>. QED  BY <1>2, <2>1, <2>2, DepartTyped DEF Disconnect, Depart, TypeOK
  <1>3. ASSUME NEW s \in Socket, NEW r \in Room, NEW u \in User, LeaveMember(s, r, u)
        PROVE  TypeOK'
    <2>1. conn' \in [Socket -> {"fresh", "open", "closed"}]
      BY <1>3 DEF LeaveMember, TypeOK, ServerTypeOK
    <2>2. Depart(s, {<<r, u>>}, {r}) /\ robbed' \subseteq Room
      BY <1>3 DEF LeaveMember, TypeOK
    <2>3. {<<r, u>>} \in SUBSET (Room \X User) /\ {r} \in SUBSET Room
      OBVIOUS
    <2>4. ServerTypeOK' /\ ViewTypeOK'
      BY <2>1, <2>2, <2>3, DepartTyped
    <2>. QED  BY <2>2, <2>4 DEF Depart, TypeOK
  <1>4. ASSUME NEW s \in Socket, NEW r \in Room,
               NewMessage(s, r) \/ InviteAssistant(s, r) \/ KickAssistant(s, r)
        PROVE  TypeOK'
    <2>1. CASE NewMessage(s, r)
      BY <2>1, PushMessageTyped DEF NewMessage, TypeOK, ServerTypeOK, ViewTypeOK
    <2>2. CASE InviteAssistant(s, r)
      <3>1. PICK b \in Bot \ issued :
              issued' = issued \cup {b} /\ SetInvites(r, room[r].invites \cup {b})
        BY <2>2 DEF InviteAssistant
      <3>2. room[r].invites \cup {b} \in SUBSET User
        BY BotsAreUsers DEF TypeOK, ServerTypeOK, RoomObject
      <3>. QED  BY <3>1, <3>2, SetInvitesTyped DEF TypeOK, ServerTypeOK
    <2>3. CASE KickAssistant(s, r)
      <3>1. PICK b \in BotsIn(r) : SetInvites(r, room[r].invites \ {b})
        BY <2>3 DEF KickAssistant
      <3>2. room[r].invites \ {b} \in SUBSET User
        BY DEF TypeOK, ServerTypeOK, RoomObject
      <3>. QED
        BY <2>3, <3>1, <3>2, SetInvitesTyped DEF KickAssistant, TypeOK, ServerTypeOK
    <2>. QED  BY <1>4, <2>1, <2>2, <2>3
  <1>5. ASSUME NEW s \in Socket, ClientStep(s) PROVE TypeOK'
    BY <1>1, <1>2, <1>3, <1>4, <1>5, ClientStepCases, OwnersAreUsers,
       CreateTyped, JoinTyped, UpdateMemberTyped, UpdateRoomTyped
    DEF ClientCases
  <1>6. ASSUME NEW r \in Room, TimerStep(r) PROVE TypeOK'
    BY <1>6, AnnounceTyped, DeleteTyped DEF TimerStep
  <1>7. CASE UNCHANGED vars
    BY <1>7 DEF vars, TypeOK, ServerTypeOK, ViewTypeOK
  <1>. QED  BY <1>5, <1>6, <1>7 DEF Next

LEMMA TypeInit == Init => TypeOK
  <1>. SUFFICES ASSUME Init PROVE TypeOK
    OBVIOUS
  <1>1. room \in [Room -> RoomObject]
    <2>1. [privateMode |-> FALSE, key |-> NoKey, started |-> FALSE,
           invites |-> {}, moderators |-> {}] \in RoomObject
      BY DEF RoomObject
    <2>. QED  BY <2>1 DEF Init
  <1>2. announce \in [Room -> [fresh : Nat, stale : Nat]]
    BY DEF Init
  <1>3. ServerTypeOK
    BY <1>1, <1>2 DEF Init, ServerTypeOK
  <1>. QED  BY <1>3 DEF Init, TypeOK, ViewTypeOK

(* The variables of the service and of its clients keep their types. *)
THEOREM TypeCorrect == Spec => []TypeOK
  BY TypeInit, TypeStep, PTL DEF Spec
-----------------------------------------------------------------------------
(* The life of a room. An empty room that is listed has a deletion timer;   *)
(* to keep that, rooms nobody created must be unvisited, rooms that left    *)
(* the list must be empty, and a start time must be set or still to be set  *)
(* by a timer that holds the present room object.                           *)
KnownRooms     == roomsList \cup visited \subseteq issued
DeadRoomsEmpty == \A r \in Room \ roomsList : Occupants(r) = {}
StartPending   == \A r \in roomsList \ split :
                    Occupants(r) # {} /\ announce[r].fresh = 0 => room[r].started

LifeInv == TypeOK /\ KnownRooms /\ DeadRoomsEmpty /\ EmptyRoomDoomed
             /\ MediaFromSeat /\ StartPending

(* What leaveMember and disconnectedSocket have in common. *)
LEMMA DepartLife ==
  ASSUME LifeInv, NEW s \in Socket, NEW Left \in SUBSET (roomsList \X User),
         NEW Out \in SUBSET Room, Depart(s, Left, Out)
  PROVE  KnownRooms' /\ DeadRoomsEmpty' /\ EmptyRoomDoomed' /\ MediaFromSeat' /\ StartPending'
  <1>. USE DEF LifeInv, TypeOK, ServerTypeOK
  <1>1. \A r \in Room, u \in User :
          seat'[r][u] = IF <<r, u>> \in Left THEN NoSocket ELSE seat[r][u]
    BY DEF Depart
  <1>2. \A r \in Room : Occupants(r)' \subseteq Occupants(r)
    BY <1>1 DEF Occupants
  <1>3. KnownRooms' /\ DeadRoomsEmpty'
    BY <1>2 DEF Depart, KnownRooms, DeadRoomsEmpty
  <1>4. ASSUME NEW r \in roomsList, r \in visited, Occupants(r)' = {}
        PROVE  reaper'[r] > 0
    <2>1. CASE r \in Emptied(Left)
      BY <2>1 DEF Depart
    <2>2. CASE r \notin Emptied(Left)
      <3>1. \A u \in User : <<r, u>> \notin Left
        BY <1>4, <2>2 DEF Emptied
      <3>2. Occupants(r)' = Occupants(r)
        BY <1>1, <3>1 DEF Occupants
      <3>. QED  BY <1>4, <2>2, <3>2 DEF Depart, EmptyRoomDoomed
    <2>. QED  BY <2>1, <2>2
  <1>5. EmptyRoomDoomed'
    BY <1>4 DEF Depart, EmptyRoomDoomed
  <1>6. MediaFromSeat'
    BY <1>1 DEF Depart, MediaFromSeat
  <1>7. StartPending'
    BY <1>2 DEF Depart, StartPending
  <1>. QED  BY <1>3, <1>5, <1>6, <1>7

LEMMA LifeInit == Init => LifeInv
  BY TypeInit DEF Init, LifeInv, KnownRooms, DeadRoomsEmpty, EmptyRoomDoomed, MediaFromSeat,
     StartPending, Occupants

LEMMA LifeStep == LifeInv /\ [Next]_vars => LifeInv'
  <1>. SUFFICES ASSUME LifeInv, [Next]_vars PROVE LifeInv'
    OBVIOUS
  <1>t. TypeOK'
    BY TypeStep DEF LifeInv
  <1>. USE DEF LifeInv, TypeOK, ServerTypeOK
  <1>. DEFINE Rest == KnownRooms /\ DeadRoomsEmpty /\ EmptyRoomDoomed /\ MediaFromSeat
                        /\ StartPending
  <1>1. ASSUME NEW s \in Socket, Connect(s) \/ (\E r \in Room : NewMessage(s, r)) PROVE Rest'
    BY <1>1 DEF Connect, NewMessage, KnownRooms, DeadRoomsEmpty, EmptyRoomDoomed,
                MediaFromSeat, StartPending, Occupants
  <1>2. ASSUME NEW s \in Socket, Disconnect(s) PROVE Rest'
    <2>1. SeatsOf(s) \in SUBSET (roomsList \X User)
      BY DEF SeatsOf
    <2>. QED  BY <1>2, <2>1, DepartLife DEF Disconnect
  <1>3. ASSUME NEW s \in Socket, NEW r \in Room, NEW u \in User, LeaveMember(s, r, u)
        PROVE  Rest'
    <2>1. {<<r, u>>} \in SUBSET (roomsList \X User)
      BY <1>3 DEF LeaveMember
    <2>2. Depart(s, {<<r, u>>}, {r}) /\ {r} \in SUBSET Room
      BY <1>3 DEF LeaveMember
    <2>. QED  BY <2>1, <2>2, DepartLife
  <1>4. ASSUME NEW s \in Socket, NEW u \in User, NEW private \in BOOLEAN,
               NEW key \in Key \cup {NoKey}, NEW invites \in SUBSET User,
               CreateRoom(s, u, private, key, invites)
        PROVE  Rest'
    <2>1. PICK r \in Room \ issued :
            /\ issued'    = issued \cup {r}
            /\ roomsList' = roomsList \cup {r}
            /\ room'      = [room EXCEPT ![r] =
                               [privateMode |-> private, key |-> key, started |-> FALSE,
                                invites |-> invites, moderators |-> {u}]]
      BY <1>4 DEF CreateRoom
    <2>2. \A q \in Room : Occupants(q)' = Occupants(q)
      BY <1>4 DEF CreateRoom, Occupants
    <2>3. KnownRooms' /\ DeadRoomsEmpty'
      BY <1>4, <2>1, <2>2 DEF CreateRoom, KnownRooms, DeadRoomsEmpty
    <2>4. EmptyRoomDoomed' /\ MediaFromSeat'
      BY <1>4, <2>1, <2>2 DEF CreateRoom, KnownRooms, EmptyRoomDoomed, MediaFromSeat
    <2>5. Occupants(r) = {}
      BY <2>1 DEF KnownRooms, DeadRoomsEmpty
    <2>6. StartPending'
      BY <1>4, <2>1, <2>2, <2>5 DEF CreateRoom, StartPending
    <2>. QED  BY <2>3, <2>4, <2>6
  <1>5. ASSUME NEW s \in Socket, NEW r \in Room, NEW u \in User,
               NEW key \in Key \cup {NoKey}, JoinMember(s, r, u, key)
        PROVE  Rest'
    <2>1. u \in Occupants(r)' /\ \A q \in Room \ {r} : Occupants(q)' = Occupants(q)
      BY <1>5, NullsDistinct DEF JoinMember, Occupants
    <2>2. KnownRooms' /\ DeadRoomsEmpty' /\ EmptyRoomDoomed'
      BY <1>5, <2>1 DEF JoinMember, KnownRooms, DeadRoomsEmpty, EmptyRoomDoomed
    <2>3. MediaFromSeat'
      BY <1>5 DEF JoinMember, NewMedia, MediaFromSeat
    <2>4. announce'[r].fresh > 0
      BY <1>5 DEF JoinMember
    <2>5. StartPending'
      BY <1>5, <2>1, <2>4 DEF JoinMember, StartPending
    <2>. QED  BY <2>2, <2>3, <2>5
  <1>6. ASSUME NEW s \in Socket, NEW r \in Room, NEW u \in User, NEW on \in BOOLEAN,
               UpdateMember(s, r, u, on)
        PROVE  Rest'
    <2>1. MediaFromSeat'
      BY <1>6 DEF UpdateMember, MediaFromSeat
    <2>. QED
      BY <1>6, <2>1 DEF UpdateMember, KnownRooms, DeadRoomsEmpty, EmptyRoomDoomed,
                        StartPending, Occupants
  <1>7. ASSUME NEW s \in Socket, NEW r \in Room, NEW u \in User, NEW private \in BOOLEAN,
               NEW invites \in SUBSET User, NEW moderators \in SUBSET User,
               UpdateRoom(s, r, u, private, invites, moderators)
        PROVE  Rest'
    <2>1. \A q \in Room : Occupants(q)' = Occupants(q)
      BY <1>7 DEF UpdateRoom, Occupants
    <2>2. room'[r].started = room[r].started /\ \A q \in Room \ {r} : room'[q] = room[q]
      BY <1>7 DEF UpdateRoom, Copied, RoomObject
    <2>3. \A q \in Room \ {r} : announce'[q] = announce[q]
      BY <1>7 DEF UpdateRoom
    <2>4. r \notin split' => announce[r].fresh = 0 \/ room[r].started
      BY <1>7 DEF UpdateRoom
    <2>5. StartPending'
      BY <1>7, <2>1, <2>2, <2>3, <2>4 DEF UpdateRoom, StartPending
    <2>. QED
      BY <1>7, <2>1, <2>5 DEF UpdateRoom, KnownRooms, DeadRoomsEmpty, EmptyRoomDoomed,
                              MediaFromSeat
  <1>8. ASSUME NEW s \in Socket, NEW r \in Room, InviteAssistant(s, r) \/ KickAssistant(s, r)
        PROVE  Rest'
    <2>1. PICK invites : SetInvites(r, invites) /\ issued \subseteq issued'
      BY <1>8 DEF InviteAssistant, KickAssistant
    <2>2. \A q \in Room : room'[q].started = room[q].started
      BY <2>1 DEF SetInvites, RoomObject
    <2>. QED
      BY <2>1, <2>2 DEF SetInvites, KnownRooms, DeadRoomsEmpty, EmptyRoomDoomed,
                        MediaFromSeat, StartPending, Occupants
  <1>9. ASSUME NEW r \in Room, NEW object \in {"fresh", "stale"}, AnnounceJoin(r, object)
        PROVE  Rest'
    <2>1. \A q \in Room \ {r} : room'[q] = room[q] /\ announce'[q] = announce[q]
      BY <1>9 DEF AnnounceJoin
    <2>2. CASE object = "fresh"
      <3>1. room'[r].started
        BY <1>9, <2>2 DEF AnnounceJoin, RoomObject
      <3>. QED
        BY <1>9, <2>1, <3>1 DEF AnnounceJoin, KnownRooms, DeadRoomsEmpty, EmptyRoomDoomed,
                                MediaFromSeat, StartPending, Occupants
    <2>3. CASE object = "stale"
      <3>1. announce'[r].fresh = announce[r].fresh
        BY <1>9, <2>3 DEF AnnounceJoin
      <3>. QED
        BY <1>9, <2>1, <2>3, <3>1
        DEF AnnounceJoin, KnownRooms, DeadRoomsEmpty, EmptyRoomDoomed, MediaFromSeat,
            StartPending, Occupants
    <2>. QED  BY <2>2, <2>3
  <1>10. ASSUME NEW r \in Room, DeleteRoomFires(r) PROVE Rest'
    <2>1. \A q \in Room : Occupants(q)' = Occupants(q)
      BY <1>10 DEF DeleteRoomFires, Occupants
    <2>2. EmptyRoomDoomed'
      BY <1>10, <2>1 DEF DeleteRoomFires, MayDelete, EmptyRoomDoomed
    <2>. QED
      BY <1>10, <2>1, <2>2
      DEF DeleteRoomFires, MayDelete, KnownRooms, DeadRoomsEmpty, MediaFromSeat, StartPending
  <1>11. ASSUME UNCHANGED vars PROVE Rest'
    BY <1>11 DEF vars, KnownRooms, DeadRoomsEmpty, EmptyRoomDoomed, MediaFromSeat,
                 StartPending, Occupants
  <1>. HIDE DEF Rest, LifeInv, TypeOK, ServerTypeOK
  <1>12. ASSUME NEW s \in Socket, ClientStep(s) PROVE Rest'
    BY <1>1, <1>2, <1>3, <1>4, <1>5, <1>6, <1>7, <1>8, <1>12, ClientStepCases, OwnersAreUsers
    DEF ClientCases
  <1>13. ASSUME NEW r \in Room, TimerStep(r) PROVE Rest'
    BY <1>9, <1>10, <1>13 DEF TimerStep
  <1>14. Rest'
    BY <1>11, <1>12, <1>13 DEF Next
  <1>. QED  BY <1>t, <1>14 DEF Rest, LifeInv

(* The inductive invariant behind the lifetime of a room. *)
THEOREM LifeInvariant == Spec => []LifeInv
  BY LifeInit, LifeStep, PTL DEF Spec

(* A room that was emptied has a deletion timer as long as it stays empty   *)
(* and listed.                                                              *)
THEOREM EmptyRoomsDoomed == Spec => []EmptyRoomDoomed
  BY LifeInvariant, PTL DEF LifeInv

(* Camera and microphone are never shown on by a device that lost its seat. *)
THEOREM MediaFromSeatAlways == Spec => []MediaFromSeat
  BY LifeInvariant, PTL DEF LifeInv

(* startTime is only lost by updateRoom copying the room under a join timer. *)
LEMMA StartPendingImplies == LifeInv => StartTimeKept
  BY DEF LifeInv, TypeOK, ServerTypeOK, StartPending, StartTimeKept, NoJoinPending

(* An occupied meeting whose joins were all announced has a start time. *)
THEOREM StartTimesKept == Spec => []StartTimeKept
  BY LifeInvariant, StartPendingImplies, PTL

-----------------------------------------------------------------------------
(* Who listens. These facts need clients that act for one user each: then a *)
(* socket that leaves the socket.io room with one member has no other in it.*)
SingleUser == \A s \in Socket : \A u, v \in Owner[s] : u = v

SeatsOwned == \A r \in Room, u \in User : seat[r][u] # NoSocket => u \in Owner[seat[r][u]]

ListenInv == /\ LifeInv /\ SeatsOwned /\ MembersListen /\ ListenersAreMembers

LEMMA ListenInit == Init => ListenInv
  BY LifeInit, NullsDistinct
  DEF Init, ListenInv, SeatsOwned, MembersListen, ListenersAreMembers, Seated

(* s goes with members of its own (Left) from the rooms Out, and with all   *)
(* of its members if its connection is lost.                                *)
LEMMA DepartListen ==
  ASSUME ListenInv, NEW s \in Socket, NEW Left \in SUBSET (Room \X User),
         NEW Out \in SUBSET Room, Depart(s, Left, Out),
         \A t \in Socket : conn'[t] = conn[t] \/ t = s,
         \A r \in Out, u \in User : seat[r][u] = s => <<r, u>> \in Left,
         conn' = conn \/ Out = Room
  PROVE  SeatsOwned' /\ MembersListen'
  <1>. USE DEF ListenInv, LifeInv, TypeOK, ServerTypeOK
  <1>1. \A r \in Room, u \in User :
          seat'[r][u] = IF <<r, u>> \in Left THEN NoSocket ELSE seat[r][u]
    BY DEF Depart
  <1>2. \A r \in Room : joined'[r] = IF r \in Out THEN joined[r] \ {s} ELSE joined[r]
    BY DEF Depart
  <1>3. SeatsOwned'
    BY <1>1 DEF SeatsOwned
  <1>4. ASSUME NEW r \in Room, NEW t \in Socket, NEW u \in User, seat'[r][u] = t
        PROVE  conn'[t] = "open" /\ t \in joined'[r]
    <2>1. seat[r][u] = t /\ <<r, u>> \notin Left
      BY <1>1, <1>4, NullsDistinct
    <2>2. conn[t] = "open" /\ t \in joined[r]
      BY <2>1 DEF MembersListen, Seated, IsOpen
    <2>3. r \in Out => t # s
      BY <2>1
    <2>. QED  BY <1>2, <2>2, <2>3
  <1>5. MembersListen'
    BY <1>4 DEF MembersListen, Seated, IsOpen
  <1>. QED  BY <1>3, <1>5

LEMMA DisconnectListen ==
  ASSUME ListenInv, NEW s \in Socket, Disconnect(s)
  PROVE  SeatsOwned' /\ MembersListen' /\ ListenersAreMembers'
  <1>. USE DEF ListenInv, LifeInv, TypeOK, ServerTypeOK
  <1>1. Depart(s, SeatsOf(s), Room) /\ SeatsOf(s) \in SUBSET (Room \X User)
    BY DEF Disconnect, SeatsOf
  <1>2. \A r \in Room, u \in User : seat[r][u] = s => <<r, u>> \in SeatsOf(s)
    BY NullsDistinct DEF SeatsOf, DeadRoomsEmpty, Occupants
  <1>3. \A t \in Socket : conn'[t] = conn[t] \/ t = s
    BY DEF Disconnect
  <1>4. SeatsOwned' /\ MembersListen'
    BY <1>1, <1>2, <1>3, DepartListen
  <1>5. \A r \in Room, u \in User :
          seat'[r][u] = IF <<r, u>> \in SeatsOf(s) THEN NoSocket ELSE seat[r][u]
    BY <1>1 DEF Depart
  <1>6. \A r \in Room : joined'[r] = joined[r] \ {s}
    BY <1>1 DEF Depart
  <1>7. ASSUME NEW r \in Room \ robbed, NEW t \in Socket, t \in joined'[r]
        PROVE  \E u \in User : seat'[r][u] = t
    <2>1. t # s /\ t \in joined[r]
      BY <1>6, <1>7
    <2>2. PICK u \in User : seat[r][u] = t
      BY <2>1 DEF ListenersAreMembers, Seated
    <2>3. <<r, u>> \notin SeatsOf(s)
      BY <2>1, <2>2 DEF SeatsOf
    <2>. QED  BY <1>5, <2>2, <2>3
  <1>8. robbed' = robbed
    BY DEF Disconnect
  <1>9. ListenersAreMembers'
    BY <1>6, <1>7, <1>8 DEF ListenersAreMembers, Seated
  <1>. QED  BY <1>4, <1>9

LEMMA LeaveListen ==
  ASSUME ListenInv, SingleUser, NEW s \in Socket, NEW r \in Room, NEW u \in Owner[s],
         LeaveMember(s, r, u)
  PROVE  SeatsOwned' /\ MembersListen' /\ ListenersAreMembers'
  <1>. USE OwnersAreUsers DEF ListenInv, LifeInv, TypeOK, ServerTypeOK
  <1>1. /\ Depart(s, {<<r, u>>}, {r}) /\ conn' = conn
        /\ {<<r, u>>} \in SUBSET (Room \X User) /\ {r} \in SUBSET Room
    BY DEF LeaveMember
  <1>2. \A q \in {r}, v \in User : seat[q][v] = s => <<q, v>> \in {<<r, u>>}
    BY NullsDistinct DEF SeatsOwned, SingleUser
  <1>3. SeatsOwned' /\ MembersListen'
    BY <1>1, <1>2, DepartListen
  <1>4. \A q \in Room, v \in User :
          seat'[q][v] = IF q = r /\ v = u THEN NoSocket ELSE seat[q][v]
    BY <1>1 DEF Depart
  <1>5. \A q \in Room : joined'[q] = IF q = r THEN joined[q] \ {s} ELSE joined[q]
    BY <1>1 DEF Depart
  <1>6. ASSUME NEW q \in Room \ robbed', NEW t \in Socket, t \in joined'[q]
        PROVE  \E v \in User : seat'[q][v] = t
    <2>1. q \notin robbed /\ t \in joined[q] /\ (q = r => t # s)
      BY <1>5, <1>6 DEF LeaveMember
    <2>2. PICK v \in User : seat[q][v] = t
      BY <2>1 DEF ListenersAreMembers, Seated
    <2>3. q = r => seat[r][u] \in {s, NoSocket}
      BY <1>6 DEF LeaveMember
    <2>4. ~(q = r /\ v = u)
      BY <2>1, <2>2, <2>3, NullsDistinct
    <2>. QED  BY <1>4, <2>2, <2>4
  <1>7. \A q \in Room : joined'[q] \subseteq Socket
    BY <1>5
  <1>8. ListenersAreMembers'
    BY <1>6, <1>7 DEF ListenersAreMembers, Seated
  <1>. QED  BY <1>3, <1>8

LEMMA JoinListen ==
  ASSUME ListenInv, SingleUser, NEW s \in Socket, NEW r \in Room, NEW u \in Owner[s],
         NEW key \in Key \cup {NoKey}, JoinMember(s, r, u, key)
  PROVE  SeatsOwned' /\ MembersListen' /\ ListenersAreMembers'
  <1>. USE OwnersAreUsers DEF ListenInv, LifeInv, TypeOK, ServerTypeOK
  <1>1. \A q \in Room, v \in User :
          seat'[q][v] = IF q = r /\ v = u THEN s ELSE seat[q][v]
    BY DEF JoinMember
  <1>2. \A q \in Room : joined'[q] = IF q = r THEN (joined[r] \ TakenOver(r, u)) \cup {s}
                                     ELSE joined[q]
    BY DEF JoinMember, Listening, StillListening
  <1>3. conn' = conn /\ conn[s] = "open" /\ robbed' = robbed
    BY DEF JoinMember, IsOpen
  <1>4. SeatsOwned'
    BY <1>1 DEF SeatsOwned
  <1>5. ASSUME NEW q \in Room, NEW t \in Socket, NEW v \in User, seat'[q][v] = t
        PROVE  conn'[t] = "open" /\ t \in joined'[q]
    <2>1. CASE t = s /\ q = r
      BY <1>2, <1>3, <2>1
    <2>2. CASE q = r /\ t # s
      <3>1. v # u /\ seat[r][v] = t
        BY <1>1, <1>5, <2>2
      <3>2. v \in Owner[t] /\ (seat[r][u] = t => u \in Owner[t])
        BY <3>1, NullsDistinct DEF SeatsOwned
      <3>3. t \notin TakenOver(r, u)
        BY <3>1, <3>2 DEF TakenOver, SingleUser
      <3>. QED  BY <1>2, <1>3, <2>2, <3>1, <3>3 DEF MembersListen, Seated, IsOpen
    <2>3. CASE q # r
      BY <1>1, <1>2, <1>3, <1>5, <2>3 DEF MembersListen, Seated, IsOpen
    <2>. QED  BY <2>1, <2>2, <2>3
  <1>6. ASSUME NEW q \in Room \ robbed, NEW t \in Socket, t \in joined'[q]
        PROVE  \E v \in User : seat'[q][v] = t
    <2>1. CASE t = s /\ q = r
      BY <1>1, <2>1
    <2>2. CASE q = r /\ t # s
      <3>1. t \in joined[r] /\ t \notin TakenOver(r, u)
        BY <1>2, <1>6, <2>2
      <3>2. PICK v \in User : seat[r][v] = t
        BY <1>6, <2>2, <3>1 DEF ListenersAreMembers, Seated
      <3>3. conn[t] = "open"
        BY <3>2 DEF MembersListen, Seated, IsOpen
      <3>4. v # u
        BY <3>1, <3>2, <3>3 DEF TakenOver
      <3>. QED  BY <1>1, <2>2, <3>2, <3>4
    <2>3. CASE q # r
      <3>1. t \in joined[q]
        BY <1>2, <1>6, <2>3
      <3>2. PICK v \in User : seat[q][v] = t
        BY <1>6, <3>1 DEF ListenersAreMembers, Seated
      <3>. QED  BY <1>1, <2>3, <3>2
    <2>. QED  BY <2>1, <2>2, <2>3
  <1>7. MembersListen'
    BY <1>5 DEF MembersListen, Seated, IsOpen
  <1>8. \A q \in Room : joined'[q] \subseteq Socket
    BY <1>2
  <1>9. ListenersAreMembers'
    BY <1>3, <1>6, <1>8 DEF ListenersAreMembers, Seated
  <1>. QED  BY <1>4, <1>7, <1>9

LEMMA ListenStep == ASSUME SingleUser PROVE ListenInv /\ [Next]_vars => ListenInv'
  <1>. SUFFICES ASSUME ListenInv, [Next]_vars PROVE ListenInv'
    OBVIOUS
  <1>. DEFINE Rest == SeatsOwned /\ MembersListen /\ ListenersAreMembers
  <1>t. LifeInv'
    BY LifeStep DEF ListenInv
  <1>1. ASSUME UNCHANGED <<joined, seat, robbed>>,
               \A s \in Socket : IsOpen(s) => IsOpen(s)'
        PROVE  Rest'
    BY <1>1 DEF ListenInv, SeatsOwned, MembersListen, ListenersAreMembers, Seated
  <1>2. ASSUME NEW s \in Socket, Connect(s) PROVE Rest'
    BY <1>1, <1>2 DEF Connect, IsOpen, ListenInv, LifeInv, TypeOK, ServerTypeOK
  <1>3. ASSUME NEW s \in Socket, NEW r \in Room,
               NewMessage(s, r) \/ InviteAssistant(s, r) \/ KickAssistant(s, r)
        PROVE  Rest'
    BY <1>1, <1>3 DEF NewMessage, InviteAssistant, KickAssistant, SetInvites, IsOpen
  <1>. HIDE DEF Rest
  <1>4. ASSUME NEW s \in Socket, ClientStep(s) PROVE Rest'
    <2>1. ASSUME NEW u \in User, NEW private \in BOOLEAN, NEW key \in Key \cup {NoKey},
                 NEW invites \in SUBSET User, CreateRoom(s, u, private, key, invites)
          PROVE  Rest'
      BY <1>1, <2>1 DEF CreateRoom, IsOpen
    <2>2. ASSUME NEW r \in Room, NEW u \in User, NEW on \in BOOLEAN, UpdateMember(s, r, u, on)
          PROVE  Rest'
      BY <1>1, <2>2 DEF UpdateMember, IsOpen
    <2>3. ASSUME NEW r \in Room, NEW u \in User, NEW private \in BOOLEAN,
                 NEW invites \in SUBSET User, NEW moderators \in SUBSET User,
                 UpdateRoom(s, r, u, private, invites, moderators)
          PROVE  Rest'
      BY <1>1, <2>3 DEF UpdateRoom, IsOpen
    <2>. QED
      BY <1>2, <1>3, <1>4, <2>1, <2>2, <2>3, ClientStepCases, DisconnectListen, LeaveListen,
         JoinListen
      DEF Rest, ClientCases
  <1>5. ASSUME NEW r \in Room, TimerStep(r) PROVE Rest'
    BY <1>1, <1>5 DEF TimerStep, AnnounceJoin, DeleteRoomFires, IsOpen
  <1>6. ASSUME UNCHANGED vars PROVE Rest'
    BY <1>1, <1>6 DEF vars, IsOpen
  <1>7. Rest'
    BY <1>4, <1>5, <1>6 DEF Next
  <1>. QED  BY <1>t, <1>7 DEF Rest, ListenInv

(* Members and listeners agree, if every user has one socket. *)
THEOREM ListenInvariant == ASSUME SingleUser PROVE Spec => []ListenInv
  BY ListenInit, ListenStep, PTL DEF Spec

(* Members are connected and hear their room, when clients act for one user *)
(* each.                                                                    *)
THEOREM MembersAlwaysListen == ASSUME SingleUser PROVE Spec => []MembersListen
  BY ListenInvariant, PTL DEF ListenInv

(* Nobody hears a room without being seen in it, as long as no superseded   *)
(* device removed a member of it.                                           *)
THEOREM NobodyEavesdrops == ASSUME SingleUser PROVE Spec => []ListenersAreMembers
  BY ListenInvariant, PTL DEF ListenInv

(* A timer callback deletes a room only if it is empty and nobody listens.  *)
LEMMA DeletionStep ==
  ListenInv /\ [Next]_vars =>
    [\A r \in roomsList \ roomsList' :
       /\ Occupants(r) = {}
       /\ r \notin robbed => joined[r] = {}]_vars
  <1>. SUFFICES ASSUME ListenInv, Next, NEW r \in roomsList \ roomsList'
       PROVE  Occupants(r) = {} /\ (r \notin robbed => joined[r] = {})
    OBVIOUS
  <1>. USE DEF ListenInv, LifeInv, TypeOK, ServerTypeOK
  <1>1. r \in Room
    OBVIOUS
  <1>2. ASSUME NEW s \in Socket PROVE ~ClientStep(s)
    <2>1. ClientCases(s) => r \in roomsList'
      BY DEF ClientCases, Connect, Disconnect, CreateRoom, JoinMember, LeaveMember, Depart,
             UpdateMember, UpdateRoom, NewMessage, InviteAssistant, KickAssistant, SetInvites
    <2>. QED  BY <2>1, ClientStepCases
  <1>3. PICK q \in Room : TimerStep(q)
    BY <1>2 DEF Next
  <1>4. Occupants(r) = {}
    BY <1>3 DEF TimerStep, AnnounceJoin, DeleteRoomFires, MayDelete
  <1>5. Seated(r) = {}
    BY <1>1, <1>4, NullsDistinct DEF Seated, Occupants
  <1>. QED  BY <1>1, <1>4, <1>5 DEF ListenersAreMembers

(* No step deletes a room somebody is in, if every user has one socket. *)
THEOREM OccupiedRoomsKept == ASSUME SingleUser PROVE Spec => OccupiedRoomKept
  BY ListenInvariant, DeletionStep, PTL DEF Spec, OccupiedRoomKept

-----------------------------------------------------------------------------
(* What clients see. Whoever is sent something is sent what the server holds*)
(* after the step; what has to be shown is that nobody is left out, and that*)
(* a room cannot be listed again with listeners of an earlier time.         *)
JoinedVisited == \A r \in Room : joined[r] # {} => r \in visited

Informed(r) ==
  NoJoinPending(r) => /\ \A s \in joined[r] : dataSeen[r][s] = RoomData(r)
                      /\ joined[r] \subseteq chatSeen[r]

ViewInv == LifeInv /\ JoinedVisited /\ RoomsListCurrent /\ \A r \in roomsList : Informed(r)

(* After sendRooms every client knows the list.                             *)
LEMMA ListSent == SendRooms => RoomsListCurrent'
  BY DEF SendRooms, RoomsListCurrent, RoomsPrevList, IsOpen

(* A step that says nothing of the rooms had better change no entry.        *)
LEMMA ListKept ==
  ASSUME RoomsListCurrent, UNCHANGED <<conn, roomsList, listSeen>>,
         \A r \in Room : NoJoinPending(r)' => NoJoinPending(r) /\ RoomPrev(r)' = RoomPrev(r)
  PROVE  RoomsListCurrent'
  BY DEF RoomsListCurrent, IsOpen

(* After sendRoom the listeners know the room, while their chat is as it was.*)
LEMMA RoomSent ==
  ASSUME TypeOK, NEW r \in roomsList', r \in Room, SendRoom(r)
  PROVE  \A s \in joined'[r] : s \in Socket => dataSeen'[r][s] = RoomData(r)'
  BY DEF SendRoom, RoomDataSent, TypeOK, ViewTypeOK

(* A step that does not touch a room keeps its listeners informed.          *)
LEMMA Untouched ==
  ASSUME NEW r, Informed(r), joined'[r] \subseteq joined[r],
         NoJoinPending(r)' => NoJoinPending(r),
         room'[r] = room[r], seat'[r] = seat[r], media'[r] = media[r],
         \A s \in joined'[r] : dataSeen'[r][s] = dataSeen[r][s],
         chatSeen[r] \cap joined'[r] \subseteq chatSeen'[r]
  PROVE  Informed(r)'
  <1>1. RoomData(r)' = RoomData(r)
    BY DEF RoomData
  <1>. QED  BY <1>1 DEF Informed

(* leaveMember and disconnectedSocket: the rooms left are sent what remains.*)
LEMMA DepartViews ==
  ASSUME ViewInv, NEW s \in Socket, NEW Left \in SUBSET (roomsList \X User),
         NEW Out \in SUBSET Room, Depart(s, Left, Out),
         \A t \in Socket : IsOpen(t)' => IsOpen(t)
  PROVE  JoinedVisited' /\ RoomsListCurrent' /\ \A r \in roomsList' : Informed(r)'
  <1>. USE DEF ViewInv, LifeInv, TypeOK, ServerTypeOK, ViewTypeOK
  <1>1. \A r \in Room : joined'[r] \subseteq joined[r] /\ joined'[r] \subseteq Socket
    BY DEF Depart
  <1>2. JoinedVisited'
    BY <1>1 DEF Depart, JoinedVisited
  <1>3. \A r \in Room : NoJoinPending(r)' <=> NoJoinPending(r)
    BY DEF Depart, NoJoinPending
  <1>4. RoomsListCurrent'
    <2>1. CASE Left # {}
      BY <2>1, ListSent DEF Depart
    <2>2. CASE Left = {}
      <3>1. \A r \in Room : Occupants(r)' = Occupants(r)
        BY <2>2 DEF Depart, Occupants
      <3>2. \A r \in Room : RoomPrev(r)' = RoomPrev(r)
        BY <3>1 DEF Depart, RoomPrev
      <3>. QED  BY <1>3, <2>2, <3>2 DEF Depart, RoomsListCurrent
    <2>. QED  BY <2>1, <2>2
  <1>5. ASSUME NEW r \in roomsList PROVE Informed(r)'
    <2>1. CASE r \in {l[1] : l \in Left}
      <3>1. roomsList' = roomsList
        BY DEF Depart
      <3>2. dataSeen'[r] = RoomDataSent(r) /\ chatSeen'[r] = MessagesSent(r)
        BY <2>1 DEF Depart
      <3>3. \A t \in joined'[r] : dataSeen'[r][t] = RoomData(r)'
        BY <1>1, <3>1, <3>2 DEF RoomDataSent
      <3>4. chatSeen'[r] = joined'[r]
        BY <3>1, <3>2 DEF MessagesSent
      <3>. QED  BY <3>3, <3>4 DEF Informed
    <2>2. CASE r \notin {l[1] : l \in Left}
      <3>1. seat'[r] = seat[r] /\ media'[r] = media[r] /\ room'[r] = room[r]
        <4>1. \A u \in User : <<r, u>> \notin Left
          BY <2>2
        <4>2. seat'[r] = [u \in User |-> seat[r][u]]
          BY <4>1 DEF Depart
        <4>3. media'[r] = [u \in User |-> media[r][u]]
          BY <4>1 DEF Depart
        <4>4. seat[r] = [u \in User |-> seat[r][u]] /\ media[r] = [u \in User |-> media[r][u]]
          OBVIOUS
        <4>5. room'[r] = room[r]
          BY DEF Depart
        <4>. QED  BY <4>2, <4>3, <4>4, <4>5
      <3>2. \A t \in joined'[r] : dataSeen'[r][t] = dataSeen[r][t]
        BY <1>1, <2>2 DEF Depart
      <3>3. chatSeen[r] \cap joined'[r] \subseteq chatSeen'[r]
        BY <2>2 DEF Depart
      <3>. QED  BY <1>1, <1>3, <3>1, <3>2, <3>3, Untouched
    <2>. QED  BY <2>1, <2>2
  <1>. QED  BY <1>2, <1>4, <1>5 DEF Depart

(* joinMember tells nobody, unless it takes a seat over; the views of the   *)
(* room are owed until its announcement.                                    *)
LEMMA JoinViews ==
  ASSUME ViewInv, NEW s \in Socket, NEW r \in Room, NEW u \in User,
         NEW key \in Key \cup {NoKey}, JoinMember(s, r, u, key)
  PROVE  JoinedVisited' /\ RoomsListCurrent' /\ \A q \in roomsList' : Informed(q)'
  <1>. USE DEF ViewInv, LifeInv, TypeOK, ServerTypeOK, ViewTypeOK
  <1>1. announce'[r].fresh = announce[r].fresh + 1 /\ announce'[r].stale = announce[r].stale
    BY DEF JoinMember
  <1>2. announce[r].fresh \in Nat /\ announce[r].stale \in Nat
    OBVIOUS
  <1>3. ~NoJoinPending(r)'
    BY <1>1, <1>2 DEF NoJoinPending
  <1>4. ASSUME NEW q \in Room, q # r
        PROVE  /\ seat'[q] = seat[q] /\ media'[q] = media[q] /\ room'[q] = room[q]
               /\ joined'[q] = joined[q] /\ chatSeen'[q] = chatSeen[q]
               /\ dataSeen'[q] = dataSeen[q] /\ announce'[q] = announce[q]
    BY <1>4 DEF JoinMember, NewMedia
  <1>5. JoinedVisited'
    BY <1>4 DEF JoinMember, JoinedVisited
  <1>6. \A q \in Room : NoJoinPending(q)' => NoJoinPending(q) /\ RoomPrev(q)' = RoomPrev(q)
    <2>. SUFFICES ASSUME NEW q \in Room, NoJoinPending(q)'
         PROVE  NoJoinPending(q) /\ RoomPrev(q)' = RoomPrev(q)
      OBVIOUS
    <2>1. q # r
      BY <1>3
    <2>2. NoJoinPending(q)
      BY <1>4, <2>1 DEF NoJoinPending
    <2>3. Occupants(q)' = Occupants(q) /\ room'[q] = room[q]
      BY <1>4, <2>1 DEF Occupants
    <2>4. roomsList' = roomsList
      BY DEF JoinMember
    <2>. QED  BY <2>2, <2>3, <2>4 DEF RoomPrev
  <1>7. RoomsListCurrent'
    <2>1. CASE TakenOver(r, u) # {}
      BY <2>1, ListSent DEF JoinMember
    <2>2. CASE TakenOver(r, u) = {}
      <3>1. UNCHANGED <<conn, roomsList, listSeen>>
        BY <2>2 DEF JoinMember
      <3>. QED  BY <1>6, <3>1, ListKept
    <2>. QED  BY <2>1, <2>2
  <1>8. ASSUME NEW q \in roomsList PROVE Informed(q)'
    <2>1. CASE q = r
      BY <1>3, <2>1 DEF Informed
    <2>2. CASE q # r
      <3>1. NoJoinPending(q)' => NoJoinPending(q)
        BY <1>6
      <3>. QED  BY <1>4, <2>2, <3>1, Untouched
    <2>. QED  BY <2>1, <2>2
  <1>. QED  BY <1>5, <1>7, <1>8 DEF JoinMember

(* A step that lists rooms and sends one of them, whose chat it keeps.      *)
LEMMA SentViews ==
  ASSUME ViewInv, NEW r \in roomsList, SendRooms \/ RoomsListCurrent', SendRoom(r),
         UNCHANGED <<joined, roomsList, seat, chatSeen, visited>>,
         \A q \in Room \ {r} : /\ room'[q] = room[q] /\ media'[q] = media[q]
                               /\ announce'[q] = announce[q],
         NoJoinPending(r)' => NoJoinPending(r)
  PROVE  JoinedVisited' /\ RoomsListCurrent' /\ \A q \in roomsList' : Informed(q)'
  <1>. USE DEF ViewInv, LifeInv, TypeOK, ServerTypeOK
  <1>1. JoinedVisited' /\ RoomsListCurrent'
    BY ListSent DEF JoinedVisited
  <1>2. Informed(r)'
    BY RoomSent DEF Informed
  <1>3. ASSUME NEW q \in roomsList \ {r} PROVE Informed(q)'
    <2>1. dataSeen'[q] = dataSeen[q]
      BY DEF SendRoom, ViewTypeOK
    <2>2. NoJoinPending(q)' => NoJoinPending(q)
      BY DEF NoJoinPending
    <2>. QED  BY <2>1, <2>2, Untouched
  <1>. QED  BY <1>1, <1>2, <1>3

(* The announcement of a join tells everybody everything.                   *)
LEMMA AnnounceViews ==
  ASSUME ViewInv, NEW r \in Room, NEW object \in {"fresh", "stale"}, AnnounceJoin(r, object)
  PROVE  JoinedVisited' /\ RoomsListCurrent' /\ \A q \in roomsList' : Informed(q)'
  <1>. USE DEF ViewInv, LifeInv, TypeOK, ServerTypeOK, ViewTypeOK
  <1>1. JoinedVisited' /\ RoomsListCurrent'
    BY ListSent DEF AnnounceJoin, JoinedVisited
  <1>2. ASSUME NEW q \in roomsList PROVE Informed(q)'
    <2>1. CASE q = r
      <3>1. \A s \in joined'[r] : dataSeen'[r][s] = RoomData(r)'
        BY <1>2, <2>1, RoomSent DEF AnnounceJoin
      <3>2. joined'[r] \subseteq chatSeen'[r]
        BY <1>2, <2>1 DEF AnnounceJoin, PushMessage, MessagesSent
      <3>. QED  BY <2>1, <3>1, <3>2 DEF Informed
    <2>2. CASE q # r
      <3>1. /\ joined'[q] = joined[q] /\ seat'[q] = seat[q] /\ media'[q] = media[q]
            /\ room'[q] = room[q] /\ announce'[q] = announce[q]
        BY <2>2 DEF AnnounceJoin
      <3>2. dataSeen'[q] = dataSeen[q] /\ chatSeen'[q] = chatSeen[q]
        BY <2>2 DEF AnnounceJoin, SendRoom, PushMessage
      <3>3. NoJoinPending(q)' => NoJoinPending(q)
        BY <3>1 DEF NoJoinPending
      <3>. QED  BY <3>1, <3>2, <3>3, Untouched
    <2>. QED  BY <2>1, <2>2
  <1>. QED  BY <1>1, <1>2 DEF AnnounceJoin

LEMMA ViewStep == ViewInv /\ [Next]_vars => ViewInv'
  <1>. SUFFICES ASSUME ViewInv, [Next]_vars PROVE ViewInv'
    OBVIOUS
  <1>. DEFINE Rest == JoinedVisited /\ RoomsListCurrent /\ \A r \in roomsList : Informed(r)
  <1>t. LifeInv'
    BY LifeStep DEF ViewInv
  <1>. USE DEF ViewInv, LifeInv, TypeOK, ServerTypeOK, ViewTypeOK
  <1>1. ASSUME UNCHANGED <<joined, room, seat, media, announce, dataSeen, visited>>,
               roomsList' \subseteq roomsList, RoomsListCurrent',
               \A r \in roomsList' : chatSeen[r] \subseteq chatSeen'[r]
        PROVE  Rest'
    <2>1. \A r \in roomsList' : NoJoinPending(r)' => NoJoinPending(r)
      BY <1>1 DEF NoJoinPending
    <2>2. \A r \in roomsList' : Informed(r)'
      BY <1>1, <2>1, Untouched
    <2>. QED  BY <1>1, <2>2 DEF JoinedVisited
  <1>2. ASSUME NEW s \in Socket, Connect(s) PROVE Rest'
    <2>1. \A r \in Room : RoomPrev(r)' = RoomPrev(r) /\ (NoJoinPending(r)' => NoJoinPending(r))
      BY <1>2 DEF Connect, RoomPrev, NoJoinPending, Occupants
    <2>2. \A t \in Socket : listSeen'[t] = IF t = s THEN RoomsPrevList ELSE listSeen[t]
      BY <1>2 DEF Connect
    <2>3. \A t \in Socket : t # s => conn'[t] = conn[t]
      BY <1>2 DEF Connect
    <2>4. RoomsListCurrent'
      <3>. SUFFICES ASSUME NEW r \in Room, NoJoinPending(r)', NEW t \in Socket, IsOpen(t)'
           PROVE  listSeen'[t][r] = RoomPrev(r)'
        BY DEF RoomsListCurrent
      <3>1. CASE t = s
        BY <2>1, <2>2, <3>1 DEF RoomsPrevList
      <3>2. CASE t # s
        BY <2>1, <2>2, <2>3, <3>2 DEF RoomsListCurrent, IsOpen
      <3>. QED  BY <3>1, <3>2
    <2>. QED  BY <1>1, <1>2, <2>4 DEF Connect
  <1>3. ASSUME NEW s \in Socket, Disconnect(s) PROVE Rest'
    <2>1. SeatsOf(s) \in SUBSET (roomsList \X User)
      BY DEF SeatsOf
    <2>2. \A t \in Socket : IsOpen(t)' => IsOpen(t)
      BY <1>3 DEF Disconnect, IsOpen
    <2>. QED  BY <1>3, <2>1, <2>2, DepartViews DEF Disconnect
  <1>4. ASSUME NEW s \in Socket, NEW r \in Room, NEW u \in User, LeaveMember(s, r, u)
        PROVE  Rest'
    <2>1. {<<r, u>>} \in SUBSET (roomsList \X User) /\ {r} \in SUBSET Room
      BY <1>4 DEF LeaveMember
    <2>2. \A t \in Socket : IsOpen(t)' => IsOpen(t)
      BY <1>4 DEF LeaveMember, IsOpen
    <2>. QED  BY <1>4, <2>1, <2>2, DepartViews DEF LeaveMember
  <1>5. ASSUME NEW s \in Socket, NEW u \in User, NEW private \in BOOLEAN,
               NEW key \in Key \cup {NoKey}, NEW invites \in SUBSET User,
               CreateRoom(s, u, private, key, invites)
        PROVE  Rest'
    <2>1. PICK r \in Room \ issued :
            /\ roomsList' = roomsList \cup {r}
            /\ \A q \in Room : q # r => room'[q] = room[q]
      BY <1>5 DEF CreateRoom
    <2>2. joined[r] = {}
      BY <2>1 DEF JoinedVisited, KnownRooms
    <2>3. JoinedVisited' /\ RoomsListCurrent'
      BY <1>5, ListSent DEF CreateRoom, JoinedVisited
    <2>4. Informed(r)'
      BY <1>5, <2>2 DEF CreateRoom, Informed
    <2>5. ASSUME NEW q \in roomsList, q # r PROVE Informed(q)'
      <3>1. NoJoinPending(q)' => NoJoinPending(q)
        BY <1>5 DEF CreateRoom, NoJoinPending
      <3>2. room'[q] = room[q]
        BY <2>1, <2>5
      <3>. QED  BY <1>5, <3>1, <3>2, Untouched DEF CreateRoom
    <2>. QED  BY <2>1, <2>3, <2>4, <2>5
  <1>6. ASSUME NEW s \in Socket, NEW r \in Room, NewMessage(s, r) PROVE Rest'
    <2>1. \A q \in Room : NoJoinPending(q)' => NoJoinPending(q) /\ RoomPrev(q)' = RoomPrev(q)
      BY <1>6 DEF NewMessage, NoJoinPending, RoomPrev, Occupants
    <2>2. RoomsListCurrent'
      BY <1>6, <2>1, ListKept DEF NewMessage
    <2>3. ASSUME NEW q \in roomsList PROVE Informed(q)'
      <3>1. q = r => chatSeen'[q] = joined'[q]
        BY <1>6, <2>3 DEF NewMessage, PushMessage, MessagesSent
      <3>2. q # r => chatSeen'[q] = chatSeen[q]
        BY <1>6 DEF NewMessage, PushMessage
      <3>3. chatSeen[q] \cap joined'[q] \subseteq chatSeen'[q]
        BY <3>1, <3>2
      <3>4. NoJoinPending(q)' => NoJoinPending(q)
        BY <2>1
      <3>. QED  BY <1>6, <3>3, <3>4, Untouched DEF NewMessage
    <2>. QED  BY <1>6, <2>2, <2>3 DEF NewMessage, JoinedVisited
  <1>7. ASSUME NEW s \in Socket, NEW r \in Room, InviteAssistant(s, r) \/ KickAssistant(s, r)
        PROVE  Rest'
    <2>1. PICK invites : SetInvites(r, invites)
      BY <1>7 DEF InviteAssistant, KickAssistant
    <2>2. r \in roomsList
      BY <1>7 DEF InviteAssistant, KickAssistant
    <2>3. NoJoinPending(r)' => NoJoinPending(r)
      BY <2>1 DEF SetInvites, NoJoinPending
    <2>. QED  BY <2>1, <2>2, <2>3, SentViews DEF SetInvites
  <1>8. ASSUME NEW s \in Socket, NEW r \in Room, NEW u \in User, NEW on \in BOOLEAN,
               UpdateMember(s, r, u, on)
        PROVE  Rest'
    <2>1. \A q \in Room : NoJoinPending(q)' => NoJoinPending(q) /\ RoomPrev(q)' = RoomPrev(q)
      BY <1>8 DEF UpdateMember, NoJoinPending, RoomPrev, Occupants
    <2>2. RoomsListCurrent'
      BY <1>8, <2>1, ListKept DEF UpdateMember
    <2>. QED  BY <1>8, <2>1, <2>2, SentViews DEF UpdateMember
  <1>9. ASSUME NEW s \in Socket, NEW r \in Room, NEW u \in User, NEW private \in BOOLEAN,
               NEW invites \in SUBSET User, NEW moderators \in SUBSET User,
               UpdateRoom(s, r, u, private, invites, moderators)
        PROVE  Rest'
    <2>1. announce'[r].fresh + announce'[r].stale = announce[r].fresh + announce[r].stale
      BY <1>9 DEF UpdateRoom
    <2>2. NoJoinPending(r)' => NoJoinPending(r)
      BY <2>1 DEF NoJoinPending
    <2>. QED  BY <1>9, <2>2, SentViews DEF UpdateRoom
  <1>10. ASSUME NEW r \in Room, DeleteRoomFires(r) PROVE Rest'
    <2>1. RoomsListCurrent'
      <3>1. CASE SendRooms
        BY <3>1, ListSent
      <3>2. CASE UNCHANGED <<roomsList, listSeen>>
        <4>1. \A q \in Room : NoJoinPending(q)' => NoJoinPending(q) /\ RoomPrev(q)' = RoomPrev(q)
          BY <1>10, <3>2 DEF DeleteRoomFires, NoJoinPending, RoomPrev, Occupants
        <4>. QED  BY <1>10, <3>2, <4>1, ListKept DEF DeleteRoomFires
      <3>. QED  BY <1>10, <3>1, <3>2 DEF DeleteRoomFires
    <2>. QED  BY <1>1, <1>10, <2>1 DEF DeleteRoomFires
  <1>11. ASSUME UNCHANGED vars PROVE Rest'
    <2>1. \A q \in Room : NoJoinPending(q)' => NoJoinPending(q) /\ RoomPrev(q)' = RoomPrev(q)
      BY <1>11 DEF vars, NoJoinPending, RoomPrev, Occupants
    <2>2. RoomsListCurrent'
      BY <1>11, <2>1, ListKept DEF vars
    <2>. QED  BY <1>1, <1>11, <2>2 DEF vars
  <1>12. ASSUME NEW s \in Socket, ClientStep(s) PROVE Rest'
    <2>1. ClientCases(s)
      BY <1>12, ClientStepCases
    <2>. HIDE DEF Rest, ViewInv, LifeInv
    <2>2. ASSUME NEW r \in Room, NEW u \in Owner[s], NEW key \in Key \cup {NoKey},
                 JoinMember(s, r, u, key)
          PROVE  Rest'
      BY <2>2, JoinViews, OwnersAreUsers DEF Rest
    <2>. QED
      BY <1>2, <1>3, <1>4, <1>5, <1>6, <1>7, <1>8, <1>9, <2>1, <2>2, OwnersAreUsers DEF ClientCases
  <1>13. ASSUME NEW r \in Room, TimerStep(r) PROVE Rest'
    BY <1>10, <1>13, AnnounceViews DEF TimerStep
  <1>14. Rest'
    BY <1>11, <1>12, <1>13 DEF Next
  <1>. QED  BY <1>t, <1>14

LEMMA ViewInit == Init => ViewInv
  BY LifeInit DEF Init, ViewInv, JoinedVisited, RoomsListCurrent, Informed, IsOpen

LEMMA ViewInvImplies == ViewInv => ViewsCurrent
  BY DEF ViewInv, Informed, ViewsCurrent, RoomsListCurrent, RoomDataCurrent, ChatCurrent

(* Whatever handlers and timers interleave, a client that listens was last  *)
(* told what the server holds, except between a join and its announcement.  *)
THEOREM ViewsAlwaysCurrent == Spec => []ViewsCurrent
  BY ViewInit, ViewStep, ViewInvImplies, PTL DEF Spec
=============================================================================
