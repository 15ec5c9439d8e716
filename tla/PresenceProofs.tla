---------------------------- MODULE PresenceProofs ----------------------------
(***************************************************************************)
(* Proofs about who is there: the users that the presence service shows    *)
(* (SyncStates), for any number of users and sockets, and the assistant's  *)
(* bots in their meetings (Assistant), for any number of rooms, bots and   *)
(* guests, and of messages and timers under way.                           *)
(***************************************************************************)
EXTENDS SyncStates, Assistant, FiniteSetTheorems, FunctionTheorems, TLAPS

-----------------------------------------------------------------------------
(* SyncStates                                                               *)


(* What the properties rest on: a socket was open when it announced, it is    *)
(* known for users it announced, and it was shown nothing before it was open. *)
Announcements ==
  /\ \A u \in User : latest[u] # NoSocket => conn[latest[u]] # "fresh"
  /\ \A u \in Present : u \in announced[members[u]] /\ conn[members[u]] # "fresh"
  /\ \A s \in Socket : conn[s] = "fresh" => shown[s] = NoView
  /\ \A s \in Socket : announced[s] \subseteq Owner[s]

PresenceInv == /\ SyncTypeOK /\ Announcements
               /\ LatestReachable /\ ShownCurrent /\ NoticesPrivate

LEMMA PresenceInit == SyncInit => PresenceInv
  <1>. SUFFICES ASSUME SyncInit PROVE PresenceInv
    OBVIOUS
  <1>1. SyncTypeOK
    <2>1. announced \in [Socket -> SUBSET User] /\ told \in [Socket -> SUBSET User]
      BY DEF SyncInit
    <2>2. shown \in [Socket -> (SUBSET User) \cup {NoView}]
      BY DEF SyncInit
    <2>. QED  BY <2>1, <2>2 DEF SyncInit, SyncTypeOK
  <1>2. Announcements /\ LatestReachable
    BY DEF SyncInit, Announcements, LatestReachable, Present
  <1>3. ShownCurrent /\ NoticesPrivate
    BY DEF SyncInit, ShownCurrent, NoticesPrivate, IsOpen
  <1>. QED  BY <1>1, <1>2, <1>3 DEF PresenceInv

LEMMA PresenceStep == PresenceInv /\ [SyncNext]_sync_vars => PresenceInv'
  <1>. SUFFICES ASSUME PresenceInv, [SyncNext]_sync_vars PROVE PresenceInv'
    OBVIOUS
  <1>. USE NullsDistinct DEF PresenceInv, SyncTypeOK, Announcements, LatestReachable,
       ShownCurrent, NoticesPrivate, IsOpen, Present
  <1>1. ASSUME NEW s \in Socket, Connect(s) PROVE PresenceInv'
    BY <1>1 DEF Connect
  <1>2. ASSUME NEW s \in Socket, NEW u \in Owner[s], SyncMemberConnect(s, u)
        PROVE  PresenceInv'
    <2>1. u \in User
      BY OwnersTyped
    <2>2. SyncTypeOK' /\ LatestReachable'
      BY <1>2, <2>1 DEF SyncMemberConnect, EmitSyncMembers
    <2>3. Announcements'
      BY <1>2, <2>1 DEF SyncMemberConnect, EmitSyncMembers
    <2>4. ShownCurrent' /\ NoticesPrivate'
      BY <1>2, <2>1 DEF SyncMemberConnect, EmitSyncMembers
    <2>. QED  BY <2>2, <2>3, <2>4
  <1>3. ASSUME NEW s \in Socket, Disconnect(s) PROVE PresenceInv'
    <2>1. CASE Forget(s)
      <3>1. PICK u \in Gone(s) : members' = [members EXCEPT ![u] = NoSocket]
        BY <2>1 DEF Forget
      <3>2. SyncTypeOK' /\ LatestReachable'
        BY <1>3, <2>1, <3>1 DEF Disconnect, Forget, EmitSyncMembers, Gone
      <3>3. Announcements'
        BY <1>3, <2>1, <3>1 DEF Disconnect, Forget, EmitSyncMembers, Gone
      <3>4. ShownCurrent' /\ NoticesPrivate'
        BY <1>3, <2>1, <3>1 DEF Disconnect, Forget, EmitSyncMembers, Gone
      <3>. QED  BY <3>2, <3>3, <3>4
    <2>2. CASE UNCHANGED <<members, shown>>
      BY <1>3, <2>2 DEF Disconnect
    <2>. QED  BY <1>3, <2>1, <2>2 DEF Disconnect
  <1>4. ASSUME NEW u \in User, Notice(u) PROVE PresenceInv'
    BY <1>4 DEF Notice, Recipients
  <1>5. CASE UNCHANGED sync_vars
    BY <1>5 DEF sync_vars
  <1>. QED  BY <1>1, <1>2, <1>3, <1>4, <1>5 DEF SyncNext

(* The inductive invariant of the presence table. *)
THEOREM PresenceInvariant == SyncSpec => []PresenceInv
  BY PresenceInit, PresenceStep, PTL DEF SyncSpec

(* An older tab that closes never takes its user offline.                     *)
THEOREM LatestAlwaysReachable == SyncSpec => []LatestReachable
  BY PresenceInvariant, PTL DEF PresenceInv

(* Every connected client that was told anything knows who is present now.    *)
THEOREM ShownAlwaysCurrent == SyncSpec => []ShownCurrent
  BY PresenceInvariant, PTL DEF PresenceInv

(* Notices reach only sockets that announced their addressee.                 *)
THEOREM NoticesAlwaysPrivate == SyncSpec => []NoticesPrivate
  BY PresenceInvariant, PTL DEF PresenceInv
-------------------------------------------------------------------------------
(* The disconnect handler forgets one user: that is all of them when a client *)
(* announces one user.                                                        *)
SingleUser == \A s \in Socket : \A u, v \in Owner[s] : u = v

LEMMA GhostStep ==
  ASSUME SingleUser PROVE PresenceInv /\ NoGhosts /\ [SyncNext]_sync_vars => NoGhosts'
  <1>. SUFFICES ASSUME PresenceInv, NoGhosts, [SyncNext]_sync_vars PROVE NoGhosts'
    OBVIOUS
  <1>. USE NullsDistinct DEF PresenceInv, SyncTypeOK, NoGhosts, IsOpen, Present
  <1>1. ASSUME NEW s \in Socket, Connect(s) PROVE NoGhosts'
    BY <1>1 DEF Connect
  <1>2. ASSUME NEW s \in Socket, NEW u \in Owner[s], SyncMemberConnect(s, u)
        PROVE  NoGhosts'
    BY <1>2, OwnersTyped DEF SyncMemberConnect
  <1>3. ASSUME NEW s \in Socket, Disconnect(s) PROVE NoGhosts'
    <2>1. \A u, v \in Gone(s) : u = v
      BY DEF Gone, Announcements, SingleUser
    <2>2. \A u \in User : members'[u] # s
      BY <1>3, <2>1 DEF Disconnect, Forget, Gone
    <2>3. \A u \in User : members'[u] \in {members[u], NoSocket}
      BY <1>3 DEF Disconnect, Forget, Gone
    <2>. QED  BY <1>3, <2>2, <2>3 DEF Disconnect
  <1>4. ASSUME UNCHANGED <<conn, members>> PROVE NoGhosts'
    BY <1>4
  <1>. QED  BY <1>1, <1>2, <1>3, <1>4 DEF SyncNext, Notice, sync_vars

(* Nobody stays present through a lost connection.                            *)
THEOREM NeverGhosts == ASSUME SingleUser PROVE SyncSpec => []NoGhosts
  <1>1. SyncInit => NoGhosts
    BY DEF SyncInit, NoGhosts, Present
  <1>. QED  BY <1>1, PresenceInvariant, GhostStep, PTL DEF SyncSpec

-----------------------------------------------------------------------------
(* Assistant                                                                *)

(* Where a bot of room r is on its way.                                     *)
InvitedAt(i, r, b) == down[i].note = <<"invited", r, b>>
KickedAt(i, r)     == down[i].note = <<"kicked", r>>
LookAt(i, r, b)    == slow[i] = [kind |-> "look", room |-> r, bot |-> b]
JoinAt(i, r, b)    == quick[i] = [kind |-> "join", room |-> r, bot |-> b]
Asks(q, op, r, b)  == q.op = op /\ q.room = r /\ q.bot = b

Early(r, b) ==
  \/ \E i \in 1..Len(down) : InvitedAt(i, r, b)
  \/ \E i \in 1..Len(slow) : LookAt(i, r, b)
  \/ \E i \in 1..Len(quick) : JoinAt(i, r, b)
Seating(r, b) == <<r, b>> \in seats \/ \E i \in 1..Len(up) : Asks(up[i], "join", r, b)

OneComing ==
  \A r \in Room \ again : \A b, c \in Bot :
    (Early(r, b) \/ Seating(r, b)) /\ (Early(r, c) \/ Seating(r, c)) => b = c

Tokens ==
  /\ \A r, q \in Room, b \in Bot :
       /\ \A i, j \in 1..Len(down) : InvitedAt(i, r, b) /\ InvitedAt(j, q, b) => i = j
       /\ \A i, j \in 1..Len(slow) : LookAt(i, r, b) /\ LookAt(j, q, b) => i = j
       /\ \A i, j \in 1..Len(quick) : JoinAt(i, r, b) /\ JoinAt(j, q, b) => i = j
       /\ \A i \in 1..Len(down) : InvitedAt(i, r, b) =>
            /\ \A j \in 1..Len(slow) : ~LookAt(j, q, b)
            /\ \A j \in 1..Len(quick) : ~JoinAt(j, q, b)
       /\ \A i \in 1..Len(slow) : LookAt(i, r, b) => \A j \in 1..Len(quick) : ~JoinAt(j, q, b)
       /\ Early(r, b) => core[b].state = "none"
       /\ Early(r, b) => b \in issued
  /\ \A b \in Bot : core[b].state # "none" => b \in issued
  /\ \A i \in 1..Len(quick) : quick[i].kind = "join"
  /\ \A i \in 1..Len(slow) : slow[i].kind # "join"

Rooted ==
  /\ \A r \in Room, b \in Bot : <<r, b>> \in seats => core[b].state # "none" /\ core[b].room = r
  /\ \A i \in 1..Len(up) :
       /\ core[up[i].bot].state # "none" /\ core[up[i].bot].room = up[i].room
       /\ up[i].op = "leave" => core[up[i].bot].state = "destroyed"
  /\ \A p \in asking : core[p[1]].state # "none"
  /\ \A i \in 1..Len(slow) : slow[i].kind = "leave" => core[slow[i].bot].state # "none"
  /\ \A r \in Room : rooms[r] # None => core[rooms[r]].state # "none" /\ core[rooms[r]].room = r
  /\ \A b \in Bot :
       /\ core[b].state # "none" => core[b].room # None
       /\ core[b].value # None => core[b].value.room = core[b].room

Here ==
  \A b \in Live :
    /\ joined \subseteq {core[b].room}
    /\ \A c \in Live : core[c].room = core[b].room
    /\ \A i \in 1..Len(up) : up[i].op = "join" => up[i].room = core[b].room
    /\ \A i \in 1..Len(down) : down[i].data # None => down[i].data.room = core[b].room

Allowed(r, ids) == ids \cap Guest \subseteq Wanted[r]

Out(q, s, r, b, n) ==
  \/ \E j \in 1..n : /\ Asks(q[j], "leave", r, b)
                     /\ \A k \in 1..n : k > j => ~Asks(q[k], "join", r, b)
  \/ <<r, b>> \notin s /\ \A k \in 1..n : ~Asks(q[k], "join", r, b)

Owned ==
  /\ \A r \in Room : Allowed(r, invites[r])
  /\ \A i \in 1..Len(down) :
       /\ down[i].data # None => Allowed(down[i].data.room, down[i].data.invites)
       /\ \A how \in {"text", "voice"}, what \in Guest \cup {"leave"} :
            down[i].note = <<how, what>> =>
              down[i].data # None /\ what \in Wanted[down[i].data.room] \cup {"leave"}
  /\ \A b \in Live : /\ core[b].value # None => Allowed(core[b].room, core[b].value.invites)
                     /\ \A g \in Guest : <<b, g>> \in asking => g \in Wanted[core[b].room]
  /\ \A i \in 1..Len(up) : up[i].op = "update" =>
       Allowed(up[i].room, up[i].invites) \/ Out(up, seats, up[i].room, up[i].bot, i - 1)

Departed ==
  \A b \in Bot : core[b].state = "destroyed" =>
    /\ core[b].value # None => Out(up, seats, core[b].room, b, Len(up))
    /\ core[b].value = None => core[b].room \in again \/ ~Seating(core[b].room, b)

Ends(i, b) == slow[i].kind = "leave" /\ slow[i].bot = b
Dismissed(b) == \E i \in 1..Len(slow) : Ends(i, b)
Together ==
  \A i \in 1..Len(slow) : slow[i].kind = "leave" =>
    \A b \in Live : Dismissed(b) /\ core[b].value # None

Known ==
  \A r \in Room \ again, b \in Bot :
    /\ core[b].state = "live" /\ Seating(r, b) => rooms[r] = b
    /\ \A i \in 1..Len(down) : KickedAt(i, r) =>
         /\ Early(r, b) => \E j \in 1..Len(down) : j > i /\ InvitedAt(j, r, b)
         /\ core[b].state = "live" /\ core[b].value = None /\ Seating(r, b) =>
              down[i].data # None
    /\ <<r, b>> \in kicked =>
         core[b].state = "destroyed" \/ \E i \in 1..Len(down) : KickedAt(i, r)

Listening ==
  \A r \in Room \ again, b \in Bot :
    core[b].state = "live" /\ ~Dismissed(b) =>
      /\ <<r, b>> \in seats =>
           r \in joined /\ \A c \in Bot, i \in 1..Len(up) : ~Asks(up[i], "leave", r, c)
      /\ \A k \in 1..Len(up) : Asks(up[k], "join", r, b) =>
           \A c \in Bot, i \in 1..Len(up) : i > k => ~Asks(up[i], "leave", r, c)

Orderly == Tokens /\ Rooted /\ Here /\ Owned /\ Departed /\ Together /\ Known /\ Listening
AssistantInv == TypeOK /\ OneComing /\ (~shared => Orderly)
-----------------------------------------------------------------------------
(* Queues, and what they hold *)

LEMMA Appended ==
  ASSUME NEW S, NEW s \in Seq(S), NEW x \in S
  PROVE  /\ Append(s, x) \in Seq(S) /\ Len(s) \in Nat /\ Len(Append(s, x)) = Len(s) + 1
         /\ \A i \in 1..Len(s) : Append(s, x)[i] = s[i]
         /\ Append(s, x)[Len(s) + 1] = x
OBVIOUS

LEMMA Shortened ==
  ASSUME NEW S, NEW s \in Seq(S), s # <<>>
  PROVE  /\ Tail(s) \in Seq(S) /\ Len(s) \in Nat /\ Len(s) > 0 /\ Len(Tail(s)) = Len(s) - 1
         /\ \A i \in 1..(Len(s) - 1) : Tail(s)[i] = s[i + 1]
         /\ Head(s) = s[1] /\ s[1] \in S
OBVIOUS

LEMMA Joined ==
  ASSUME NEW S, NEW s \in Seq(S), NEW t \in Seq(S)
  PROVE  /\ s \o t \in Seq(S) /\ Len(s) \in Nat /\ Len(t) \in Nat /\ Len(s \o t) = Len(s) + Len(t)
         /\ \A i \in 1..Len(s) : (s \o t)[i] = s[i]
         /\ \A i \in 1..Len(t) : (s \o t)[Len(s) + i] = t[i]
OBVIOUS

LEMMA At == ASSUME NEW S, NEW s \in Seq(S), NEW i \in 1..Len(s) PROVE s[i] \in S
OBVIOUS

(* A set of timers in some order. *)
LEMMA Ordered ==
  ASSUME NEW S, IsFiniteSet(S)
  PROVE  SetToSeq(S) \in Seq(S) /\ \A x \in S : \E i \in 1..Len(SetToSeq(S)) : SetToSeq(S)[i] = x
<1> DEFINE n == Cardinality(S)  f == SetToSeq(S)
<1>1. n \in Nat /\ ExistsBijection(1..n, S) BY FS_CardinalityType
<1>2. PICK g \in Bijection(1..n, S) : TRUE BY <1>1 DEF ExistsBijection
<1>3. g \in [1..n -> S] /\ IsInjective(g)
  BY <1>2 DEF Bijection, Injection
<1>4. f \in [1..n -> S] /\ IsInjective(f) BY <1>3 DEF SetToSeq
<1>5. f \in Injection(1..n, S) BY <1>4 DEF Injection
<1>6. Cardinality(1..n) = n BY <1>1, FS_Interval
<1>7. f \in Surjection(1..n, S) BY <1>5, <1>6, FS_Injection
<1>8. \A x \in S : \E i \in 1..n : f[i] = x BY <1>7 DEF Surjection
<1>9. f \in Seq(S) /\ Len(f) = n BY <1>1, <1>4
<1> QED BY <1>8, <1>9

LEMMA Notes ==
  ASSUME NEW n \in Note, n # <<>>
  PROVE  /\ n[1] = "invited" => n = <<"invited", n[2], n[3]>> /\ n[2] \in Room /\ n[3] \in Bot
         /\ n[1] = "kicked" => n = <<"kicked", n[2]>> /\ n[2] \in Room
         /\ n[1] \in {"text", "voice"} => n = <<n[1], n[2]>> /\ n[2] \in Guest \cup {"leave"}
         /\ n[1] \in {"invited", "kicked", "text", "voice"}
BY DEF Note

(* An event with a note that is sent to who listens to r. *)
Posted(r, note) ==
  /\ down' \in Seq(Event) /\ Len(down') = Len(down) + 1 /\ Len(down) \in Nat
  /\ \A i \in 1..Len(down) : down'[i] = down[i]
  /\ down'[Len(down) + 1].note = note
  /\ IF r \in joined' THEN down'[Len(down) + 1].data = [room |-> r, invites |-> invites'[r]]
     ELSE down'[Len(down) + 1].data = None

LEMMA SendPosts ==
  ASSUME down \in Seq(Event), NEW r \in Room, NEW note \in Note, Send(r, note),
         invites' \in [Room -> SUBSET Ids]
  PROVE  Posted(r, note)
<1> DEFINE e == Told(r, note)
<1>1. e \in Event BY DEF Told, Event, View
<1>2. /\ e.note = note
      /\ e.data = IF r \in joined' THEN [room |-> r, invites |-> invites'[r]] ELSE None
  BY DEF Told
<1> HIDE DEF e
<1>3. down' = Append(down, e) BY DEF Send, e
<1> QED BY <1>1, <1>2, <1>3, Appended DEF Posted

Persist == UNCHANGED <<seats, joined, up, assistant, drops, shared>>

(* What people do: something that is no invitation, an invitation, a kick.  *)
Talked(r, note) ==
  /\ Posted(r, note) /\ Persist /\ UNCHANGED <<issued, again, kicked>>
  /\ note = <<>> \/ \E how \in {"text", "voice"}, what \in Wanted[r] \cup {"leave"} :
                      note = <<how, what>> /\ r \in joined
InvitedBot(r, b) ==
  /\ Posted(r, <<"invited", r, b>>) /\ Persist /\ UNCHANGED kicked
  /\ BotsIn(r) = {} /\ b \notin issued /\ issued' = issued \cup {b}
  /\ again' = IF Coming(r) THEN again \cup {r} ELSE again
KickedBot(r, b) ==
  /\ Posted(r, <<"kicked", r>>) /\ Persist /\ UNCHANGED <<issued, again>>
  /\ <<r, b>> \in seats /\ kicked' = kicked \cup {<<r, b>>}

Invitations ==
  /\ invites' \in [Room -> SUBSET Ids]
  /\ \A q \in Room : Allowed(q, invites[q]) => Allowed(q, invites'[q])

LEMMA PersonsDo ==
  ASSUME TypeOK, Persons
  PROVE  /\ Invitations /\ present' \subseteq Room
         /\ \E r \in Room : \/ \E note \in Note : Talked(r, note)
                            \/ \E b \in Bot : InvitedBot(r, b) \/ KickedBot(r, b)
<1> USE DEF TypeOK
<1>1. ASSUME NEW r \in Room, ComeOrGo(r)
      PROVE  /\ Invitations /\ present' \subseteq Room
             /\ \E note \in Note : Talked(r, note)
  <2>1. <<>> \in Note BY DEF Note
  <2>2. invites' = invites /\ Send(r, <<>>) BY <1>1 DEF ComeOrGo
  <2>3. Posted(r, <<>>) BY <2>1, <2>2, SendPosts
  <2> QED BY <1>1, <2>1, <2>2, <2>3
          DEF ComeOrGo, ByPerson, Talked, Persist, Invitations, assistant, history
<1>2. ASSUME NEW r \in Room, NEW g \in Guest, UpdateByPerson(r, g)
      PROVE  /\ Invitations /\ present' \subseteq Room
             /\ \E note \in Note : Talked(r, note)
  <2>1. <<>> \in Note BY DEF Note
  <2>2. /\ g \in Wanted[r] /\ Send(r, <<>>)
        /\ invites' = [invites EXCEPT ![r] = IF g \in @ THEN @ \ {g} ELSE @ \cup {g}]
    BY <1>2 DEF UpdateByPerson
  <2>3. Invitations BY <2>2 DEF Invitations, Allowed, Ids
  <2>4. Posted(r, <<>>) BY <2>1, <2>2, <2>3, SendPosts DEF Invitations
  <2> QED BY <1>2, <2>1, <2>3, <2>4
          DEF UpdateByPerson, ByPerson, Talked, Persist, assistant, history
<1>3. ASSUME NEW r \in Room, NEW how \in {"text", "voice"}, NEW what, Say(r, how, what)
      PROVE  /\ Invitations /\ present' \subseteq Room
             /\ \E note \in Note : Talked(r, note)
  <2>1. r \in joined /\ what \in Wanted[r] \cup {"leave"} /\ Send(r, <<how, what>>)
        /\ UNCHANGED <<server, history>>
    BY <1>3 DEF Say
  <2>2. <<how, what>> \in Note BY <2>1, WantedTyped DEF Note
  <2>3. Posted(r, <<how, what>>) BY <2>1, <2>2, SendPosts DEF server
  <2>4. Talked(r, <<how, what>>)
    BY <1>3, <2>1, <2>3 DEF Say, ByPerson, Talked, Persist, server, assistant, history
  <2> QED BY <2>1, <2>2, <2>4 DEF Invitations, server
<1>4. ASSUME NEW r \in Room, InviteAssistant(r)
      PROVE  /\ Invitations /\ present' \subseteq Room
             /\ \E b \in Bot : InvitedBot(r, b)
  <2> DEFINE b == CHOOSE new \in Bot : new \notin issued
  <2>1. b \in Bot /\ b \notin issued BY <1>4 DEF InviteAssistant
  <2>2. /\ issued' = issued \cup {b} /\ invites' = [invites EXCEPT ![r] = @ \cup {b}]
        /\ Send(r, <<"invited", r, b>>)
    BY <1>4 DEF InviteAssistant
  <2> HIDE DEF b
  <2>3. <<"invited", r, b>> \in Note BY <2>1 DEF Note
  <2>4. Invitations BY <2>1, <2>2, BotsTyped DEF Invitations, Allowed, Ids
  <2>5. Posted(r, <<"invited", r, b>>) BY <2>2, <2>3, <2>4, SendPosts DEF Invitations
  <2>6. InvitedBot(r, b)
    BY <1>4, <2>1, <2>2, <2>5
       DEF InviteAssistant, MayInvite, ByPerson, InvitedBot, Persist, assistant
  <2> QED BY <1>4, <2>1, <2>4, <2>6 DEF InviteAssistant
<1>5. ASSUME NEW r \in Room, KickAssistant(r)
      PROVE  /\ Invitations /\ present' \subseteq Room
             /\ \E b \in Bot : KickedBot(r, b)
  <2>1. PICK b \in BotsIn(r) : /\ invites' = [invites EXCEPT ![r] = @ \ {b}]
                               /\ kicked' = kicked \cup {<<r, b>>}
    BY <1>5 DEF KickAssistant
  <2>2. b \in Bot /\ <<r, b>> \in seats BY DEF BotsIn
  <2>3. <<"kicked", r>> \in Note BY DEF Note
  <2>4. Invitations BY <2>1 DEF Invitations, Allowed
  <2>5. Posted(r, <<"kicked", r>>) BY <1>5, <2>3, <2>4, SendPosts DEF Invitations, KickAssistant
  <2>6. KickedBot(r, b)
    BY <1>5, <2>1, <2>2, <2>5 DEF KickAssistant, ByPerson, KickedBot, Persist, assistant
  <2> QED BY <1>5, <2>2, <2>4, <2>6 DEF KickAssistant
<1> QED BY <1>1, <1>2, <1>3, <1>4, <1>5 DEF Persons

Popped(s, t, S) ==
  /\ t \in Seq(S) /\ Len(s) \in Nat /\ Len(s) > 0 /\ Len(t) = Len(s) - 1
  /\ \A i \in 1..(Len(s) - 1) : t[i] = s[i + 1]

LEMMA Pops ==
  ASSUME NEW S, NEW s \in Seq(S), s # <<>>
  PROVE  Popped(s, Tail(s), S) /\ Head(s) = s[1] /\ s[1] \in S
BY Shortened DEF Popped

Pushed(s, t, S, x) ==
  /\ t \in Seq(S) /\ Len(s) \in Nat /\ Len(t) = Len(s) + 1
  /\ \A i \in 1..Len(s) : t[i] = s[i]
  /\ t[Len(s) + 1] = x

LEMMA Pushes ==
  ASSUME NEW S, NEW s \in Seq(S), NEW x \in S
  PROVE  Pushed(s, Append(s, x), S, x)
BY Appended DEF Pushed

(* What the server does with the first request. *)
Handled ==
  /\ Popped(up, up', Request) /\ up[1] \in Request
  /\ kicked' = kicked \cap seats'
  /\ UNCHANGED <<assistant, drops, again, shared, issued, present>>

Admitted(q) ==
  /\ q.op = "join" /\ seats' = seats \cup {<<q.room, q.bot>>} /\ joined' = joined \cup {q.room}
  /\ invites' = invites /\ Posted(q.room, <<>>)
Left(q) ==
  /\ q.op = "leave" /\ seats' = seats \ {<<q.room, q.bot>>} /\ joined' = joined \ {q.room}
  /\ invites' = invites /\ Posted(q.room, <<>>)
Updated(q) ==
  /\ q.op = "update" /\ <<q.room, q.bot>> \in seats
  /\ invites' = [invites EXCEPT ![q.room] = q.invites]
  /\ UNCHANGED <<seats, joined>> /\ Posted(q.room, <<>>)
Refused(q) == q.op \in {"join", "update"} /\ UNCHANGED <<seats, joined, invites, down>>

LEMMA ServerDoes ==
  ASSUME TypeOK, ServerStep
  PROVE  /\ Handled /\ invites' \in [Room -> SUBSET Ids]
         /\ Admitted(up[1]) \/ Left(up[1]) \/ Updated(up[1]) \/ Refused(up[1])
<1> USE DEF TypeOK
<1> DEFINE q == up[1]
<1>1. Popped(up, up', Request) /\ Head(up) = q /\ q \in Request
  BY Pops DEF ServerStep
<1>2. q.room \in Room /\ q.bot \in Bot /\ q.invites \in SUBSET Ids BY <1>1 DEF Request
<1>3. kicked' = kicked \cap seats' /\ UNCHANGED <<assistant, drops, again, shared>>
  BY DEF ServerStep
<1>4. JoinMember(q) \/ LeaveMember(q) \/ UpdateRoom(q) BY <1>1 DEF ServerStep
<1>5. <<>> \in Note BY DEF Note
<1> HIDE DEF q
<1>6. CASE JoinMember(q) /\ q.bot \in invites[q.room]
  <2>1. Posted(q.room, <<>>) BY <1>2, <1>5, <1>6, SendPosts DEF JoinMember
  <2>2. Admitted(q) /\ UNCHANGED <<issued, present>> BY <1>6, <2>1 DEF JoinMember, Admitted
  <2>3. invites' = invites BY <2>2 DEF Admitted
  <2> QED BY <1>1, <1>3, <2>2, <2>3 DEF Handled, q
<1>7. CASE JoinMember(q) /\ q.bot \notin invites[q.room]
  <2>1. Refused(q) /\ UNCHANGED server BY <1>7 DEF JoinMember, Refused, server
  <2> QED BY <1>1, <1>3, <2>1 DEF Handled, q, server
<1>8. CASE LeaveMember(q)
  <2>1. Posted(q.room, <<>>) BY <1>2, <1>5, <1>8, SendPosts DEF LeaveMember
  <2>2. Left(q) /\ UNCHANGED <<issued, present>> BY <1>8, <2>1 DEF LeaveMember, Left
  <2>3. invites' = invites BY <2>2 DEF Left
  <2> QED BY <1>1, <1>3, <2>2, <2>3 DEF Handled, q
<1>9. CASE UpdateRoom(q) /\ MayUpdate(q)
  <2>1. invites' = [invites EXCEPT ![q.room] = q.invites] /\ Send(q.room, <<>>)
    BY <1>9 DEF UpdateRoom
  <2>2. Posted(q.room, <<>>) BY <1>2, <1>5, <2>1, SendPosts
  <2>3. Updated(q) /\ UNCHANGED <<issued, present>>
    BY <1>9, <2>1, <2>2 DEF UpdateRoom, Updated, MayUpdate
  <2> QED BY <1>1, <1>2, <1>3, <2>1, <2>3 DEF Handled, q
<1>10. CASE UpdateRoom(q) /\ ~MayUpdate(q)
  <2>1. Refused(q) /\ UNCHANGED server BY <1>10 DEF UpdateRoom, Refused, server
  <2> QED BY <1>1, <1>3, <2>1 DEF Handled, q, server
<1> QED BY <1>4, <1>6, <1>7, <1>8, <1>9, <1>10

(* What the assistant does with the first event. *)
Fed(b) == IF b \in Live /\ down[1].data # None THEN down[1].data ELSE core[b].value
Received ==
  /\ Popped(down, down', Event) /\ down[1] \in Event
  /\ UNCHANGED <<server, quick, drops, history, shared>>
(* The cores take the data, and the bot of the room is let go if kicked.    *)
Taken(b, state) == core'[b] = [state |-> state, room |-> core[b].room, value |-> Fed(b)]
AllTake == \A b \in Bot : Taken(b, core[b].state)
Goes(b, value) ==
  IF value = None THEN up' = up
  ELSE Pushed(up, up', Request, [op |-> "leave", room |-> value.room, bot |-> b, invites |-> {}])

GotInvited(r, b) ==
  /\ down[1].note = <<"invited", r, b>> /\ AllTake
  /\ Pushed(slow, slow', Timer, [kind |-> "look", room |-> r, bot |-> b])
  /\ UNCHANGED <<rooms, asking, up>>
GotKicked(r) ==
  /\ down[1].note = <<"kicked", r>> /\ rooms' = [rooms EXCEPT ![r] = None]
  /\ IF rooms[r] = None THEN AllTake /\ up' = up
     ELSE /\ \A b \in Bot : Taken(b, IF b = rooms[r] THEN "destroyed" ELSE core[b].state)
          /\ Goes(rooms[r], Fed(rooms[r]))
  /\ UNCHANGED <<slow, asking>>
GotLeave(how) ==
  /\ how \in {"text", "voice"} /\ down[1].note = <<how, "leave">> /\ AllTake
  /\ Len(slow) \in Nat /\ slow' \in Seq(Timer) /\ Len(slow') >= Len(slow)
  /\ \A i \in 1..Len(slow) : slow'[i] = slow[i]
  /\ \A i \in 1..Len(slow') : i > Len(slow) =>
       \E b \in Hearing(how) : slow'[i] = [kind |-> "leave", room |-> core[b].room, bot |-> b]
  /\ \A b \in Hearing(how) : \E i \in 1..Len(slow') : slow'[i].kind = "leave" /\ slow'[i].bot = b
  /\ UNCHANGED <<rooms, asking, up>>
GotGuest(how, g) ==
  /\ how \in {"text", "voice"} /\ g \in Guest /\ g # "leave"
  /\ down[1].note = <<how, g>> /\ AllTake
  /\ asking' = asking \cup (Hearing(how) \X {g})
  /\ UNCHANGED <<slow, rooms, up>>
GotNothing == down[1].note = <<>> /\ AllTake /\ UNCHANGED <<slow, rooms, asking, up>>

Got ==
  \/ \E r \in Room, b \in Bot : GotInvited(r, b)
  \/ \E r \in Room : GotKicked(r)
  \/ \E how \in {"text", "voice"} : GotLeave(how) \/ \E g \in Guest : GotGuest(how, g)
  \/ GotNothing

LEMMA CoreParts ==
  ASSUME TypeOK, NEW b \in Bot
  PROVE  /\ core[b] = [state |-> core[b].state, room |-> core[b].room, value |-> core[b].value]
         /\ core[b] \in Core /\ core[b].room \in Room \cup {None}
         /\ core[b].value \in View \cup {None}
         /\ core[b].state \in {"none", "live", "destroyed"}
         /\ core[b].value # None => core[b].value \in View /\ core[b].value.room \in Room
<1>1. core[b] \in Core BY DEF TypeOK
<1> QED BY <1>1 DEF Core, View

LEMMA Feeding ==
  ASSUME TypeOK, down # <<>>, NEW b \in Bot
  PROVE  /\ WithData(Head(down).data)[b] =
              [state |-> core[b].state, room |-> core[b].room, value |-> Fed(b)]
         /\ Fed(b) \in View \cup {None}
<1>1. Head(down) = down[1] /\ down[1] \in Event BY Pops DEF TypeOK
<1>2. down[1].data \in View \cup {None} BY <1>1 DEF Event
<1>3. core[b] = [state |-> core[b].state, room |-> core[b].room, value |-> core[b].value]
  BY CoreParts
<1> DEFINE d == down[1].data
<1>4. WithData(Head(down).data)[b] = IF b \in Live /\ d # None THEN [core[b] EXCEPT !.value = d]
                                     ELSE core[b]
  BY <1>1 DEF WithData
<1>5. [core[b] EXCEPT !.value = d] = [state |-> core[b].state, room |-> core[b].room, value |-> d]
  BY <1>3
<1>6. Fed(b) = IF b \in Live /\ d # None THEN d ELSE core[b].value BY DEF Fed
<1> HIDE DEF d
<1>7. Fed(b) \in View \cup {None} BY <1>2, <1>6, CoreParts DEF d
<1> QED BY <1>3, <1>4, <1>5, <1>6, <1>7

LEMMA GoodbyeGoes ==
  ASSUME TypeOK, NEW b \in Bot, NEW value \in View \cup {None}, Goodbye(b, value)
  PROVE  Goes(b, value)
<1> DEFINE q == [op |-> "leave", room |-> value.room, bot |-> b, invites |-> {}]
<1>1. CASE value # None
  <2>1. q \in Request BY <1>1 DEF Request, View
  <2>2. up' = Append(up, q) BY <1>1 DEF Goodbye, Emit
  <2> HIDE DEF q
  <2>3. Pushed(up, up', Request, q) BY <2>1, <2>2, Pushes DEF TypeOK
  <2> QED BY <1>1, <2>3 DEF Goes, q
<1> QED BY <1>1 DEF Goodbye, Goes

(* The timers of those who are told to leave, in the order of Request1. *)
Dismissals(H) == SetToSeq({[kind |-> "leave", room |-> core[b].room, bot |-> b] : b \in H})

LEMMA DismissalsOf ==
  ASSUME TypeOK, Rooted, NEW H, H \subseteq Bot, \A b \in H : core[b].state # "none"
  PROVE  /\ Dismissals(H) \in Seq(Timer)
         /\ \A i \in 1..Len(Dismissals(H)) : \E b \in H :
              Dismissals(H)[i] = [kind |-> "leave", room |-> core[b].room, bot |-> b]
         /\ \A b \in H : \E i \in 1..Len(Dismissals(H)) :
              Dismissals(H)[i].kind = "leave" /\ Dismissals(H)[i].bot = b
<1> DEFINE f == [b \in H |-> [kind |-> "leave", room |-> core[b].room, bot |-> b]]
           T == {[kind |-> "leave", room |-> core[b].room, bot |-> b] : b \in H}
           s == Dismissals(H)
<1>1. ASSUME NEW b \in H PROVE f[b] \in Timer
  <2>1. core[b].room \in Room BY CoreParts DEF Rooted
  <2> QED BY <2>1 DEF Timer
<1>2. /\ T = {f[b] : b \in H}
      /\ \A b \in H : f[b] = [kind |-> "leave", room |-> core[b].room, bot |-> b]
      /\ \A b \in H : f[b].kind = "leave" /\ f[b].bot = b
  OBVIOUS
<1>3. f \in [H -> T] /\ \A x \in T : \E b \in H : f[b] = x OBVIOUS
<1>4. s = SetToSeq(T) BY DEF Dismissals
<1> HIDE DEF f, T, s
<1>5. T \subseteq Timer BY <1>1, <1>2
<1>6. f \in Surjection(H, T) BY <1>3 DEF Surjection
<1>7. IsFiniteSet(H) BY BotsTyped, FS_Subset
<1>8. IsFiniteSet(T) BY <1>6, <1>7, FS_Surjection
<1>9. s \in Seq(T) /\ \A x \in T : \E i \in 1..Len(s) : s[i] = x BY <1>4, <1>8, Ordered
<1>10. s \in Seq(Timer) /\ \A i \in 1..Len(s) : s[i] \in T BY <1>5, <1>9, At
<1>11. \A i \in 1..Len(s) : \E b \in H : s[i] = f[b] BY <1>2, <1>10
<1>12. \A b \in H : \E i \in 1..Len(s) : s[i] = f[b] BY <1>2, <1>9
<1>13. ASSUME NEW i \in 1..Len(s)
       PROVE  \E b \in H : s[i] = [kind |-> "leave", room |-> core[b].room, bot |-> b]
  <2>1. PICK b \in H : s[i] = f[b] BY <1>11
  <2> QED BY <1>2, <2>1
<1>14. ASSUME NEW b \in H PROVE \E i \in 1..Len(s) : s[i].kind = "leave" /\ s[i].bot = b
  <2>1. PICK i \in 1..Len(s) : s[i] = f[b] BY <1>12
  <2>2. f[b].kind = "leave" /\ f[b].bot = b BY <1>2
  <2> QED BY <2>1, <2>2
<1> QED BY <1>10, <1>13, <1>14 DEF s

LEMMA ReceiveDoes ==
  ASSUME TypeOK, Rooted, Receive
  PROVE  /\ Received /\ Got /\ roomsValue' \subseteq Room /\ core' \in [Bot -> Core]
         /\ slow' \in Seq(Timer) /\ up' \in Seq(Request) /\ asking' \subseteq Bot \X Guest
         /\ rooms' \in [Room -> Bot \cup {None}]
<1> DEFINE e == down[1]
<1>1. down # <<>> /\ Popped(down, down', Event) /\ Head(down) = e /\ e \in Event
  BY Pops DEF Receive, TypeOK
<1>2. Received BY <1>1 DEF Receive, Received
<1>3. roomsValue' \subseteq Room /\ e.note \in Note BY <1>1 DEF Receive, Event
<1> DEFINE note == e.note
<1> DEFINE W == WithData(Head(down).data)
<1>4. /\ core' = AfterNote(note)
      /\ \/ Invited(note) \/ Kicked(note) \/ Request1(note)
         \/ note = <<>> /\ UNCHANGED <<slow, rooms, asking, up>>
  BY <1>1 DEF Receive
<1>5. \A b \in Bot : /\ W[b] = [state |-> core[b].state, room |-> core[b].room, value |-> Fed(b)]
                     /\ Fed(b) \in View \cup {None} /\ W[b] \in Core
  <2>1. TAKE b \in Bot
  <2>2. /\ W[b] = [state |-> core[b].state, room |-> core[b].room, value |-> Fed(b)]
        /\ Fed(b) \in View \cup {None}
    BY <1>1, Feeding
  <2> HIDE DEF W
  <2>3. core[b].state \in {"none", "live", "destroyed"} /\ core[b].room \in Room \cup {None}
    BY CoreParts
  <2>4. W[b] \in Core BY <2>2, <2>3 DEF Core
  <2> QED BY <2>2, <2>4
<1>6. W \in [Bot -> Core]
  <2>1. W = [b \in Bot |-> W[b]] BY DEF WithData
  <2> QED BY <1>5, <2>1
<1>7. note \in Note BY <1>3
<1> HIDE DEF W, e, note
<1>8. ASSUME core' = W PROVE AllTake /\ core' \in [Bot -> Core]
  BY <1>5, <1>6, <1>8 DEF AllTake, Taken
<1>9. CASE note = <<>> /\ UNCHANGED <<slow, rooms, asking, up>>
  <2>1. core' = W BY <1>4, <1>9 DEF AfterNote, W
  <2> QED BY <1>2, <1>3, <1>8, <1>9, <2>1 DEF Got, GotNothing, TypeOK, e, note
<1>10. CASE Invited(note)
  <2>1. /\ note # <<>> /\ note[1] = "invited"
        /\ slow' = Append(slow, [kind |-> "look", room |-> note[2], bot |-> note[3]])
        /\ UNCHANGED <<rooms, asking, up>>
    BY <1>10 DEF Invited
  <2>2. note = <<"invited", note[2], note[3]>> /\ note[2] \in Room /\ note[3] \in Bot
    BY <1>7, <2>1, Notes
  <2>3. core' = W BY <1>4, <2>1 DEF AfterNote, W
  <2>4. PICK r \in Room, b \in Bot : r = note[2] /\ b = note[3] BY <2>2
  <2>5. Pushed(slow, slow', Timer, [kind |-> "look", room |-> r, bot |-> b])
    <3>1. [kind |-> "look", room |-> r, bot |-> b] \in Timer BY DEF Timer
    <3> QED BY <2>1, <2>4, <3>1, Pushes DEF TypeOK
  <2>6. GotInvited(r, b)
    BY <1>8, <2>1, <2>2, <2>3, <2>4, <2>5 DEF GotInvited, e, note
  <2> QED BY <1>2, <1>3, <1>8, <2>1, <2>3, <2>5, <2>6 DEF Got, TypeOK, Pushed
<1>11. CASE Kicked(note)
  <2>1. note # <<>> /\ note[1] = "kicked" /\ UNCHANGED <<slow, asking>>
        /\ rooms' = [rooms EXCEPT ![note[2]] = None]
    BY <1>11 DEF Kicked
  <2>2. note = <<"kicked", note[2]>> /\ note[2] \in Room BY <1>7, <2>1, Notes
  <2>3. PICK r \in Room : r = note[2] BY <2>2
  <2>4. CASE rooms[r] = None
    <3>1. core' = W /\ up' = up
      BY <1>4, <1>11, <2>1, <2>3, <2>4 DEF AfterNote, Kicked, W
    <3>2. GotKicked(r) BY <1>8, <2>1, <2>2, <2>3, <2>4, <3>1 DEF GotKicked, e, note
    <3> QED BY <1>2, <1>3, <1>8, <2>1, <3>1, <3>2 DEF Got, TypeOK
  <2>5. CASE rooms[r] # None
    <3>1. PICK c \in Bot : c = rooms[r] BY <2>5 DEF TypeOK
    <3>2. core' = [W EXCEPT ![c].state = "destroyed"]
      BY <1>4, <2>1, <2>3, <2>5, <3>1 DEF AfterNote, W
    <3>3. Goodbye(c, W[c].value) BY <1>11, <2>3, <2>5, <3>1 DEF Kicked, W
    <3>4. \A b \in Bot : Taken(b, IF b = c THEN "destroyed" ELSE core[b].state)
      BY <1>5, <1>6, <3>2 DEF Taken
    <3>5. core' \in [Bot -> Core]
      <4> DEFINE v == [W[c] EXCEPT !.state = "destroyed"]
      <4>1. W[c] \in Core BY <1>6
      <4>2. v \in Core BY <4>1 DEF Core
      <4>3. core' = [W EXCEPT ![c] = v] BY <3>2
      <4> HIDE DEF v
      <4> QED BY <1>6, <4>2, <4>3
    <3>6. W[c].value = Fed(c) /\ Fed(c) \in View \cup {None}
      <4>1. /\ W[c] = [state |-> core[c].state, room |-> core[c].room, value |-> Fed(c)]
            /\ Fed(c) \in View \cup {None}
        BY <1>5
      <4> QED BY <4>1
    <3>7. Goes(c, Fed(c)) BY <3>3, <3>6, GoodbyeGoes
    <3>8. GotKicked(r) BY <2>1, <2>2, <2>3, <2>5, <3>1, <3>4, <3>7 DEF GotKicked, e, note
    <3> QED BY <1>2, <1>3, <2>1, <3>5, <3>7, <3>8 DEF Got, TypeOK, Goes, Pushed
  <2> QED BY <2>4, <2>5
<1>12. CASE Request1(note)
  <2>1. note # <<>> /\ note[1] \in {"text", "voice"} /\ UNCHANGED <<rooms, up>>
    BY <1>12 DEF Request1
  <2>2. note = <<note[1], note[2]>> /\ note[2] \in Guest \cup {"leave"} BY <1>7, <2>1, Notes
  <2>3. PICK how \in {"text", "voice"}, what \in Guest \cup {"leave"} :
          how = note[1] /\ what = note[2] /\ note = <<how, what>>
    BY <2>1, <2>2
  <2>4. core' = W BY <1>4, <2>1 DEF AfterNote, W
  <2> DEFINE H == Hearing(how)
  <2>5. H \subseteq Bot /\ \A b \in H : core[b].state # "none"
    BY DEF Hearing, Live
  <2>6. CASE what = "leave"
    <3>1. slow' = slow \o Dismissals(H) /\ asking' = asking
      BY <1>12, <2>1, <2>3, <2>6 DEF Request1, Dismissals
    <3> DEFINE s == Dismissals(H)
    <3>2. /\ s \in Seq(Timer)
          /\ \A i \in 1..Len(s) :
               \E b \in H : s[i] = [kind |-> "leave", room |-> core[b].room, bot |-> b]
          /\ \A b \in H : \E i \in 1..Len(s) : s[i].kind = "leave" /\ s[i].bot = b
      BY <2>5, DismissalsOf
    <3> HIDE DEF s, H
    <3>10. /\ slow' \in Seq(Timer) /\ Len(slow) \in Nat /\ Len(s) \in Nat
           /\ Len(slow') = Len(slow) + Len(s)
           /\ \A i \in 1..Len(slow) : slow'[i] = slow[i]
           /\ \A i \in 1..Len(s) : slow'[Len(slow) + i] = s[i]
      BY <3>1, <3>2, Joined DEF TypeOK, s
    <3>11. ASSUME NEW i \in 1..Len(slow'), i > Len(slow)
           PROVE  \E b \in H : slow'[i] = [kind |-> "leave", room |-> core[b].room, bot |-> b]
      <4>1. i - Len(slow) \in 1..Len(s) /\ i = Len(slow) + (i - Len(slow)) BY <3>10, <3>11
      <4>2. slow'[i] = s[i - Len(slow)] BY <3>10, <4>1
      <4> QED BY <3>2, <4>1, <4>2
    <3>12. ASSUME NEW b \in H
           PROVE  \E i \in 1..Len(slow') : slow'[i].kind = "leave" /\ slow'[i].bot = b
      <4>1. PICK j \in 1..Len(s) : s[j].kind = "leave" /\ s[j].bot = b BY <3>2
      <4>2. Len(slow) + j \in 1..Len(slow') /\ slow'[Len(slow) + j] = s[j] BY <3>10
      <4> QED BY <4>1, <4>2
    <3>13. GotLeave(how)
      <4>1. down[1].note = <<how, "leave">> /\ AllTake /\ Len(slow') >= Len(slow)
        BY <1>8, <2>3, <2>4, <2>6, <3>10 DEF e, note
      <4> QED BY <2>1, <3>1, <3>10, <3>11, <3>12, <4>1 DEF GotLeave, H
    <3> QED BY <1>2, <1>3, <1>8, <2>1, <2>4, <3>1, <3>10, <3>13 DEF Got, TypeOK
  <2>7. CASE what # "leave"
    <3>1. what \in Guest /\ slow' = slow /\ asking' = asking \cup (H \X {what})
      BY <1>12, <2>1, <2>3, <2>7 DEF Request1
    <3>2. GotGuest(how, what)
      BY <1>8, <2>1, <2>3, <2>4, <2>7, <3>1 DEF GotGuest, e, note
    <3> QED BY <1>2, <1>3, <1>8, <2>1, <2>4, <2>5, <3>1, <3>2 DEF Got, TypeOK
  <2> QED BY <2>6, <2>7
<1> QED BY <1>4, <1>9, <1>10, <1>11, <1>12

(* What the timers of three seconds do. *)
SameCore(b) == core'[b] = core[b]
Ticked ==
  /\ Popped(slow, slow', Timer) /\ slow[1] \in Timer
  /\ UNCHANGED <<server, down, roomsValue, rooms, asking, drops, history, shared>>
Looked(r, b) ==
  /\ slow[1] = [kind |-> "look", room |-> r, bot |-> b] /\ UNCHANGED <<core, up>>
  /\ quick' = quick \/ Pushed(quick, quick', Timer, [kind |-> "join", room |-> r, bot |-> b])
LetGo(b) ==
  /\ slow[1].kind = "leave" /\ slow[1].bot = b /\ Goes(b, core[b].value) /\ quick' = quick
  /\ core'[b] = [state |-> "destroyed", room |-> core[b].room, value |-> core[b].value]
  /\ \A c \in Bot : c # b => SameCore(c)

LEMMA SlowTimerDoes ==
  ASSUME TypeOK, SlowTimer
  PROVE  /\ Ticked /\ core' \in [Bot -> Core] /\ up' \in Seq(Request) /\ quick' \in Seq(Timer)
         /\ \/ \E r \in Room, b \in Bot : Looked(r, b)
            \/ \E b \in Bot : LetGo(b)
<1> DEFINE t == slow[1]
<1>1. slow # <<>> /\ Popped(slow, slow', Timer) /\ Head(slow) = t /\ t \in Timer
  BY Pops DEF SlowTimer, TypeOK
<1>2. Ticked BY <1>1 DEF SlowTimer, Ticked
<1>3. Look(t) \/ LeaveRoom(t) BY <1>1 DEF SlowTimer
<1>4. /\ t.kind \in {"look", "join", "leave"} /\ t.room \in Room /\ t.bot \in Bot
      /\ t = [kind |-> t.kind, room |-> t.room, bot |-> t.bot]
  BY <1>1 DEF Timer
<1> HIDE DEF t
<1>5. CASE Look(t)
  <2> DEFINE n == [t EXCEPT !.kind = "join"]
  <2>1. /\ t.kind = "look" /\ UNCHANGED <<core, up>>
        /\ quick' = IF t.room \in roomsValue THEN Append(quick, n) ELSE quick
    BY <1>5 DEF Look
  <2>2. n = [kind |-> "join", room |-> t.room, bot |-> t.bot] BY <1>4
  <2> HIDE DEF n
  <2>3. n \in Timer BY <1>4, <2>2 DEF Timer
  <2>4. quick' = quick \/ Pushed(quick, quick', Timer, n) BY <2>1, <2>3, Pushes DEF TypeOK
  <2>5. Looked(t.room, t.bot) BY <1>4, <2>1, <2>2, <2>4 DEF Looked, t
  <2> QED BY <1>2, <1>4, <2>1, <2>4, <2>5 DEF TypeOK, Pushed
<1>6. CASE LeaveRoom(t)
  <2>1. PICK b \in Bot : b = t.bot BY <1>4
  <2>2. /\ t.kind = "leave" /\ Goodbye(b, core[b].value) /\ core' = Destroyed(b)
        /\ quick' = quick
    BY <1>6, <2>1 DEF LeaveRoom
  <2>3. core[b].value \in View \cup {None} BY CoreParts
  <2>4. Goes(b, core[b].value) BY <2>2, <2>3, GoodbyeGoes
  <2> DEFINE v == [core[b] EXCEPT !.state = "destroyed"]
  <2>5. /\ v = [state |-> "destroyed", room |-> core[b].room, value |-> core[b].value]
        /\ v \in Core
    <3>1. core[b] = [state |-> core[b].state, room |-> core[b].room, value |-> core[b].value]
          /\ core[b] \in Core
      BY CoreParts
    <3> QED BY <3>1 DEF Core
  <2>6. core' = [core EXCEPT ![b] = v] BY <2>2 DEF Destroyed
  <2> HIDE DEF v
  <2>7. core' \in [Bot -> Core] /\ core'[b] = v /\ \A c \in Bot : c # b => SameCore(c)
    BY <2>5, <2>6 DEF TypeOK, SameCore
  <2>8. LetGo(b) BY <2>1, <2>2, <2>4, <2>5, <2>7 DEF LetGo, t
  <2>9. up' \in Seq(Request) BY <2>4 DEF Goes, Pushed, TypeOK
  <2> QED BY <1>2, <2>2, <2>7, <2>8, <2>9 DEF TypeOK
<1> QED BY <1>3, <1>5, <1>6

(* The bot of the first timer of a second joins. *)
Connected(r, b) ==
  /\ Popped(quick, quick', Timer)
  /\ quick[1].room = r /\ quick[1].bot = b /\ quick[1] \in Timer
  /\ core'[b] = [state |-> "live", room |-> r, value |-> None]
  /\ \A c \in Bot : c # b => SameCore(c)
  /\ rooms' = [rooms EXCEPT ![r] = b] /\ shared' = (shared \/ Elsewhere(r))
  /\ Pushed(up, up', Request, [op |-> "join", room |-> r, bot |-> b, invites |-> {}])
  /\ UNCHANGED <<server, down, roomsValue, slow, asking, drops, history>>

LEMMA ConnectDoes ==
  ASSUME TypeOK, ConnectToRoom
  PROVE  core' \in [Bot -> Core] /\ \E r \in Room, b \in Bot : Connected(r, b)
<1> DEFINE t == quick[1]
<1>1. quick # <<>> /\ Popped(quick, quick', Timer) /\ Head(quick) = t /\ t \in Timer
  BY Pops DEF ConnectToRoom, TypeOK
<1>2. PICK r \in Room, b \in Bot : t.room = r /\ t.bot = b BY <1>1 DEF Timer
<1> DEFINE q == [op |-> "join", room |-> r, bot |-> b, invites |-> {}]
           v == [state |-> "live", room |-> r, value |-> None]
<1>3. /\ core' = [core EXCEPT ![b] = v] /\ rooms' = [rooms EXCEPT ![r] = b]
      /\ up' = Append(up, q) /\ shared' = (shared \/ Elsewhere(r))
      /\ UNCHANGED <<server, down, roomsValue, slow, asking, drops, history>>
  BY <1>1, <1>2 DEF ConnectToRoom, Emit
<1>4. q \in Request BY DEF Request
<1>5. v \in Core BY DEF Core
<1> HIDE DEF t, q, v
<1>6. Pushed(up, up', Request, q) BY <1>3, <1>4, Pushes DEF TypeOK
<1>7. core' \in [Bot -> Core] /\ core'[b] = v /\ \A c \in Bot : c # b => SameCore(c)
  BY <1>3, <1>5 DEF TypeOK, SameCore
<1>8. Connected(r, b) BY <1>1, <1>2, <1>3, <1>6, <1>7 DEF Connected, t, q, v
<1> QED BY <1>7, <1>8

(* An employee that was asked for is there, or not. *)
AskedBy(b, g) ==
  /\ <<b, g>> \in asking /\ asking' = asking \ {<<b, g>>}
  /\ UNCHANGED <<server, down, roomsValue, slow, quick, rooms, drops, history, shared>>
Listed(b, g) ==
  LET list == core[b].value.invites \cup {g}
  IN /\ core[b].value # None /\ list \in SUBSET Ids
     /\ core'[b] = [state |-> core[b].state, room |-> core[b].room,
                    value |-> [room |-> core[b].value.room, invites |-> list]]
     /\ \A c \in Bot : c # b => SameCore(c)
     /\ Pushed(up, up', Request, [op |-> "update", room |-> core[b].room, bot |-> b, invites |-> list])

LEMMA ViewWith ==
  ASSUME NEW v \in View, NEW list
  PROVE  [v EXCEPT !.invites = list] = [room |-> v.room, invites |-> list]
BY DEF View

LEMMA FetchedDoes ==
  ASSUME TypeOK, Rooted, Fetched
  PROVE  /\ core' \in [Bot -> Core] /\ up' \in Seq(Request)
         /\ \E b \in Bot, g \in Guest : AskedBy(b, g) /\ (Listed(b, g) \/ UNCHANGED <<core, up>>)
<1>1. PICK b \in Bot, g \in Guest : InviteMember(b, g) \/ NobodyFound(b, g) BY DEF Fetched
<1>2. AskedBy(b, g) BY <1>1 DEF InviteMember, NobodyFound, AskedBy
<1> DEFINE list == core[b].value.invites \cup {g}
           q == [op |-> "update", room |-> core[b].room, bot |-> b, invites |-> list]
<1>3. CASE InviteMember(b, g) /\ core[b].value # None
  <2> DEFINE v == [core[b] EXCEPT !.value.invites = list]
  <2>1. core' = [core EXCEPT ![b] = v] /\ up' = Append(up, q) BY <1>3 DEF InviteMember, Emit
  <2>2. core[b] = [state |-> core[b].state, room |-> core[b].room, value |-> core[b].value]
        /\ core[b] \in Core /\ core[b].value \in View
    BY <1>3, CoreParts
  <2>3. core[b].room \in Room BY <1>2, CoreParts DEF Rooted, AskedBy
  <2>4. list \in SUBSET Ids BY <2>2 DEF View, Ids
  <2>5. v = [state |-> core[b].state, room |-> core[b].room,
             value |-> [room |-> core[b].value.room, invites |-> list]]
    <3> DEFINE w == [core[b].value EXCEPT !.invites = list]
    <3>2. w = [room |-> core[b].value.room, invites |-> list] BY <2>2, ViewWith
    <3>3. v = [core[b] EXCEPT !.value = w] OBVIOUS
    <3> HIDE DEF w, v, list
    <3> QED BY <2>2, <3>2, <3>3
  <2>6. q \in Request BY <2>3, <2>4 DEF Request
  <2>7. v \in Core
    <3>1. [room |-> core[b].value.room, invites |-> list] \in View BY <2>2, <2>4 DEF View
    <3>2. core[b].state \in {"none", "live", "destroyed"} BY CoreParts
    <3> HIDE DEF v, list
    <3> QED BY <2>3, <2>5, <3>1, <3>2 DEF Core
  <2> HIDE DEF v, q, list
  <2>8. core' \in [Bot -> Core] /\ core'[b] = v /\ \A c \in Bot : c # b => SameCore(c)
    BY <2>1, <2>7 DEF TypeOK, SameCore
  <2>9. Pushed(up, up', Request, q) BY <2>1, <2>6, Pushes DEF TypeOK
  <2>10. Listed(b, g) BY <1>3, <2>4, <2>5, <2>8, <2>9 DEF Listed, q, list
  <2> QED BY <1>2, <2>8, <2>9, <2>10 DEF Pushed
<1>4. CASE NobodyFound(b, g) \/ (InviteMember(b, g) /\ core[b].value = None)
  <2>1. UNCHANGED <<core, up>> BY <1>4 DEF InviteMember, NobodyFound
  <2> QED BY <1>2, <2>1 DEF TypeOK
<1> QED BY <1>1, <1>3, <1>4

(* The socket breaks and is there again. *)
Broken ==
  /\ seats' = {} /\ joined' = {} /\ kicked' = {} /\ drops' \in 0..MaxDrops
  /\ up' = <<>> \/ up' = up
  /\ UNCHANGED <<present, invites, issued, assistant, again, shared>>
  /\ down' \in Seq(Event) /\ Len(down') = 1 /\ down'[1].data = None /\ down'[1].note = <<>>

LEMMA ReconnectDoes ==
  ASSUME TypeOK, Reconnect
  PROVE  Broken
<1> DEFINE e == [rooms |-> {q \in Room : Members(q)' # {}}, data |-> None, note |-> <<>>]
<1>1. e \in Event /\ e.data = None /\ e.note = <<>> BY DEF Event, Note
<1>2. down' = <<e>> BY DEF Reconnect
<1> HIDE DEF e
<1>3. down' \in Seq(Event) /\ Len(down') = 1 /\ down'[1] = e BY <1>1, <1>2
<1>4. drops' \in 0..MaxDrops BY BoundsTyped DEF Reconnect, TypeOK
<1> QED BY <1>1, <1>3, <1>4 DEF Reconnect, Broken

LEMMA NothingThere == ASSUME NEW S PROVE <<>> \in Seq(S) /\ Len(<<>>) = 0
OBVIOUS

LEMMA TypeInit == ASSUME Init PROVE TypeOK
<1>1. core \in [Bot -> Core] /\ rooms \in [Room -> Bot \cup {None}]
  <2>1. [state |-> "none", room |-> None, value |-> None] \in Core BY DEF Core
  <2> QED BY <2>1 DEF Init
<1>2. invites \in [Room -> SUBSET Ids] BY DEF Init
<1>3. drops \in 0..MaxDrops BY BoundsTyped DEF Init
<1>4. /\ down \in Seq(Event) /\ up \in Seq(Request) /\ slow \in Seq(Timer)
      /\ quick \in Seq(Timer)
  BY NothingThere DEF Init
<1>5. /\ present = {} /\ seats = {} /\ joined = {} /\ issued = {} /\ roomsValue = {}
      /\ asking = {} /\ again = {} /\ shared = FALSE /\ kicked = {}
  BY DEF Init
<1> QED BY <1>1, <1>2, <1>3, <1>4, <1>5 DEF TypeOK

LEMMA TypeStep ==
  ASSUME TypeOK, Rooted, Next
  PROVE  TypeOK'
<1>1. CASE Persons
  <2>1. /\ Invitations /\ present' \subseteq Room
        /\ \E r \in Room : \/ \E note \in Note : Talked(r, note)
                           \/ \E b \in Bot : InvitedBot(r, b) \/ KickedBot(r, b)
    BY <1>1, PersonsDo
  <2>2. PICK r \in Room : \/ \E note \in Note : Talked(r, note)
                          \/ \E b \in Bot : InvitedBot(r, b) \/ KickedBot(r, b)
    BY <2>1
  <2>3. Persist /\ down' \in Seq(Event) BY <2>2 DEF Talked, InvitedBot, KickedBot, Posted
  <2>4. issued' \subseteq Bot /\ again' \subseteq Room /\ kicked' \subseteq seats
    BY <2>2 DEF Talked, InvitedBot, KickedBot, TypeOK
  <2> QED BY <2>1, <2>3, <2>4 DEF TypeOK, Persist, Invitations, assistant
<1>2. CASE ServerStep
  <2>1. /\ Handled /\ invites' \in [Room -> SUBSET Ids]
        /\ Admitted(up[1]) \/ Left(up[1]) \/ Updated(up[1]) \/ Refused(up[1])
    BY <1>2, ServerDoes
  <2>2. up[1].room \in Room /\ up[1].bot \in Bot BY <2>1 DEF Handled, Request
  <2>3. seats' \subseteq Room \X Bot /\ joined' \subseteq Room /\ down' \in Seq(Event)
    BY <2>1, <2>2 DEF Admitted, Left, Updated, Refused, Posted, TypeOK
  <2> QED BY <2>1, <2>3 DEF TypeOK, Handled, Popped, assistant
<1>3. CASE Receive
  BY <1>3, ReceiveDoes DEF TypeOK, Received, Popped, server, history
<1>4. CASE SlowTimer
  BY <1>4, SlowTimerDoes DEF TypeOK, Ticked, Popped, server, history
<1>5. CASE ConnectToRoom
  <2>1. core' \in [Bot -> Core] /\ \E r \in Room, b \in Bot : Connected(r, b)
    BY <1>5, ConnectDoes
  <2>2. PICK r \in Room, b \in Bot : Connected(r, b) BY <2>1
  <2>3. rooms' \in [Room -> Bot \cup {None}] BY <2>2 DEF Connected, TypeOK
  <2>4. shared' \in BOOLEAN BY <2>2 DEF Connected, Elsewhere, TypeOK
  <2> QED BY <2>1, <2>2, <2>3, <2>4 DEF TypeOK, Connected, Popped, Pushed, server, history
<1>6. CASE Fetched
  <2>1. /\ core' \in [Bot -> Core] /\ up' \in Seq(Request)
        /\ \E b \in Bot, g \in Guest : AskedBy(b, g) /\ (Listed(b, g) \/ UNCHANGED <<core, up>>)
    BY <1>6, FetchedDoes
  <2> QED BY <2>1 DEF TypeOK, AskedBy, server, history
<1>7. CASE Reconnect
  <2>1. Broken BY <1>7, ReconnectDoes
  <2>2. up' \in Seq(Request) BY <2>1, NothingThere DEF Broken, TypeOK
  <2>3. UNCHANGED <<roomsValue, slow, quick, rooms, core, asking>> BY <2>1 DEF Broken, assistant
  <2>4. /\ seats' = {} /\ joined' = {} /\ kicked' = {} /\ drops' \in 0..MaxDrops
        /\ UNCHANGED <<present, invites, issued, again, shared>> /\ down' \in Seq(Event)
    BY <2>1 DEF Broken
  <2> QED BY <2>2, <2>3, <2>4 DEF TypeOK
<1> QED BY <1>1, <1>2, <1>3, <1>4, <1>5, <1>6, <1>7 DEF Next

-----------------------------------------------------------------------------
(* What a step does *)

ByPeople ==
  Invitations /\ \E r \in Room : \/ \E note \in Note : Talked(r, note)
                                 \/ \E b \in Bot : InvitedBot(r, b) \/ KickedBot(r, b)
ByServer == Handled /\ (Admitted(up[1]) \/ Left(up[1]) \/ Updated(up[1]) \/ Refused(up[1]))
ByEvent  == Received /\ Got
BySlow   == Ticked /\ \/ \E r \in Room, b \in Bot : Looked(r, b)
                      \/ \E b \in Bot : LetGo(b)
ByQuick  == \E r \in Room, b \in Bot : Connected(r, b)
ByAnswer == \E b \in Bot, g \in Guest : AskedBy(b, g) /\ (Listed(b, g) \/ UNCHANGED <<core, up>>)
Step == ByPeople \/ ByServer \/ ByEvent \/ BySlow \/ ByQuick \/ ByAnswer \/ Broken

LEMMA NextDoes ==
  ASSUME TypeOK, Rooted, Next
  PROVE  Step
<1>1. CASE Persons BY <1>1, PersonsDo DEF Step, ByPeople
<1>2. CASE ServerStep BY <1>2, ServerDoes DEF Step, ByServer
<1>3. CASE Receive BY <1>3, ReceiveDoes DEF Step, ByEvent
<1>4. CASE SlowTimer BY <1>4, SlowTimerDoes DEF Step, BySlow
<1>5. CASE ConnectToRoom BY <1>5, ConnectDoes DEF Step, ByQuick
<1>6. CASE Fetched BY <1>6, FetchedDoes DEF Step, ByAnswer
<1>7. CASE Reconnect BY <1>7, ReconnectDoes DEF Step
<1> QED BY <1>1, <1>2, <1>3, <1>4, <1>5, <1>6, <1>7 DEF Next

(* The bot that connects was on its way and had no core. *)
LEMMA ConnectsNew ==
  ASSUME TypeOK, Tokens, NEW r \in Room, NEW b \in Bot, Connected(r, b)
  PROVE  /\ 1 \in 1..Len(quick) /\ JoinAt(1, r, b) /\ Early(r, b) /\ core[b].state = "none"
<1>1. 1 \in 1..Len(quick) /\ quick[1] \in Timer /\ quick[1].room = r /\ quick[1].bot = b
  BY DEF Connected, Popped
<1>2. quick[1].kind = "join" BY <1>1 DEF Tokens
<1>3. JoinAt(1, r, b) BY <1>1, <1>2 DEF JoinAt, Timer
<1>4. Early(r, b) BY <1>1, <1>3 DEF Early
<1> QED BY <1>1, <1>3, <1>4 DEF Tokens

(* A core keeps its room, and what is destroyed stays so. *)
Lasting(b) ==
  core[b].state # "none" =>
    /\ core'[b].room = core[b].room
    /\ core[b].state = "destroyed" => core'[b].state = "destroyed"
    /\ core[b].state = "live" => core'[b].state \in {"live", "destroyed"}
LEMMA CoreLasts ==
  ASSUME TypeOK, Tokens, Step, NEW b \in Bot
  PROVE  Lasting(b)
<1>1. CASE ByPeople BY <1>1 DEF ByPeople, Talked, InvitedBot, KickedBot, Persist, assistant, Lasting
<1>2. CASE ByServer BY <1>2 DEF ByServer, Handled, assistant, Lasting
<1>3. CASE ByEvent
  <2>1. \E state \in {core[b].state, "destroyed"} : Taken(b, state)
    BY <1>3 DEF ByEvent, Got, GotInvited, GotKicked, GotLeave, GotGuest, GotNothing, AllTake
  <2>2. PICK state \in {core[b].state, "destroyed"} : Taken(b, state) BY <2>1
  <2> QED BY <2>2 DEF Taken, Lasting
<1>4. CASE BySlow
  <2>1. CASE \E r \in Room, c \in Bot : Looked(r, c) BY <2>1 DEF Looked, Lasting
  <2>2. ASSUME NEW c \in Bot, LetGo(c) PROVE Lasting(b)
    BY <2>2 DEF LetGo, SameCore, Lasting
  <2> QED BY <1>4, <2>1, <2>2 DEF BySlow
<1>5. CASE ByQuick
  <2>1. PICK r \in Room, c \in Bot : Connected(r, c) BY <1>5 DEF ByQuick
  <2>2. core[c].state = "none" BY <2>1, ConnectsNew
  <2> QED BY <2>1, <2>2 DEF Connected, SameCore, Lasting
<1>6. CASE ByAnswer
  <2>1. PICK c \in Bot, g \in Guest : Listed(c, g) \/ UNCHANGED <<core, up>> BY <1>6 DEF ByAnswer
  <2> QED BY <2>1 DEF Listed, SameCore, Lasting
<1>7. CASE Broken BY <1>7 DEF Broken, assistant, Lasting
<1> QED BY <1>1, <1>2, <1>3, <1>4, <1>5, <1>6, <1>7 DEF Step

(* A bot comes to be on its way only by an invitation. *)
LEMMA PostedKeeps ==
  ASSUME NEW r, NEW note, Posted(r, note), note = <<>> \/ note[1] # "invited",
         NEW i \in 1..Len(down'), NEW q, NEW b, InvitedAt(i, q, b)'
  PROVE  i \in 1..Len(down) /\ InvitedAt(i, q, b)
<1>1. CASE i \in 1..Len(down) BY <1>1 DEF Posted, InvitedAt
<1>2. CASE i = Len(down) + 1
  <2>1. note = <<"invited", q, b>> BY <1>2 DEF Posted, InvitedAt
  <2>2. <<"invited", q, b>>[1] = "invited" /\ <<"invited", q, b>> # <<>> OBVIOUS
  <2> QED BY <2>1, <2>2
<1> QED BY <1>1, <1>2 DEF Posted

LEMMA EarlyFrom ==
  ASSUME TypeOK, Tokens, Step, NEW r \in Room, NEW b \in Bot, Early(r, b)'
  PROVE  Early(r, b) \/ InvitedBot(r, b)
<1>1. CASE ByPeople
  <2>1. /\ slow' = slow /\ quick' = quick
        /\ \E q \in Room : \/ \E note \in Note : Talked(q, note)
                           \/ \E c \in Bot : InvitedBot(q, c) \/ KickedBot(q, c)
    BY <1>1 DEF ByPeople, Talked, InvitedBot, KickedBot, Persist, assistant
  <2>2. CASE \E i \in 1..Len(down') : InvitedAt(i, r, b)'
    <3>1. PICK i \in 1..Len(down') : InvitedAt(i, r, b)' BY <2>2
    <3>2. PICK q \in Room : \/ \E note \in Note : Talked(q, note)
                            \/ \E c \in Bot : InvitedBot(q, c) \/ KickedBot(q, c)
      BY <2>1
    <3>3. ASSUME NEW note \in Note, Talked(q, note) PROVE Early(r, b)
      <4>1. Posted(q, note) /\ (note = <<>> \/ note[1] # "invited") BY <3>3 DEF Talked
      <4> QED BY <3>1, <4>1, PostedKeeps DEF Early
    <3>4. ASSUME NEW c \in Bot, KickedBot(q, c) PROVE Early(r, b)
      <4>1. Posted(q, <<"kicked", q>>) BY <3>4 DEF KickedBot
      <4>2. <<"kicked", q>>[1] # "invited" OBVIOUS
      <4> QED BY <3>1, <4>1, <4>2, PostedKeeps DEF Early
    <3>5. ASSUME NEW c \in Bot, InvitedBot(q, c) PROVE Early(r, b) \/ InvitedBot(r, b)
      <4>1. Posted(q, <<"invited", q, c>>) BY <3>5 DEF InvitedBot
      <4>2. CASE i \in 1..Len(down) BY <3>1, <4>1, <4>2 DEF Posted, InvitedAt, Early
      <4>3. CASE i = Len(down) + 1
        <5>1. <<"invited", q, c>> = <<"invited", r, b>> BY <3>1, <4>1, <4>3 DEF Posted, InvitedAt
        <5>2. q = r /\ c = b BY <5>1
        <5> QED BY <3>5, <5>2
      <4> QED BY <4>1, <4>2, <4>3 DEF Posted
    <3> QED BY <3>2, <3>3, <3>4, <3>5
  <2> QED BY <2>1, <2>2 DEF Early, LookAt, JoinAt
<1>2. CASE ByServer
  <2>1. slow' = slow /\ quick' = quick BY <1>2 DEF ByServer, Handled, assistant
  <2>2. down' = down \/ \E q \in Room : Posted(q, <<>>)
    BY <1>2 DEF ByServer, Handled, Request, Admitted, Left, Updated, Refused
  <2>3. ASSUME NEW i \in 1..Len(down'), InvitedAt(i, r, b)' PROVE Early(r, b)
    BY <2>2, <2>3, PostedKeeps DEF Early, InvitedAt
  <2> QED BY <2>1, <2>3 DEF Early, LookAt, JoinAt
<1>3. CASE ByEvent
  <2>1. quick' = quick /\ Popped(down, down', Event) BY <1>3 DEF ByEvent, Received
  <2>2. ASSUME NEW i \in 1..Len(down'), InvitedAt(i, r, b)' PROVE Early(r, b)
    <3>1. i + 1 \in 1..Len(down) /\ InvitedAt(i + 1, r, b) BY <2>1, <2>2 DEF Popped, InvitedAt
    <3> QED BY <3>1 DEF Early
  <2>3. ASSUME NEW i \in 1..Len(slow'), LookAt(i, r, b)' PROVE Early(r, b)
    <3>1. CASE i \in 1..Len(slow) /\ slow'[i] = slow[i] BY <2>3, <3>1 DEF LookAt, Early
    <3>2. ASSUME NEW q \in Room, NEW c \in Bot, GotInvited(q, c),
                 ~(i \in 1..Len(slow) /\ slow'[i] = slow[i])
          PROVE  Early(r, b)
      <4>1. slow'[i] = [kind |-> "look", room |-> q, bot |-> c]
        BY <3>2 DEF GotInvited, Pushed
      <4>2. q = r /\ c = b BY <2>3, <4>1 DEF LookAt
      <4>3. 1 \in 1..Len(down) /\ InvitedAt(1, r, b)
        BY <2>1, <3>2, <4>2 DEF GotInvited, InvitedAt, Popped
      <4> QED BY <4>3 DEF Early
    <3>3. ASSUME NEW how, GotLeave(how), ~(i \in 1..Len(slow) /\ slow'[i] = slow[i])
          PROVE  FALSE
      <4>1. i > Len(slow) BY <3>3 DEF GotLeave
      <4>2. PICK c \in Hearing(how) : slow'[i] = [kind |-> "leave", room |-> core[c].room, bot |-> c]
        BY <2>3, <3>3, <4>1 DEF GotLeave
      <4>3. slow'[i].kind = "leave" BY <4>2
      <4> QED BY <2>3, <4>3 DEF LookAt
    <3>4. CASE slow' = slow BY <2>3, <3>4 DEF LookAt, Early
    <3> QED BY <1>3, <3>1, <3>2, <3>3, <3>4
            DEF ByEvent, Got, GotKicked, GotGuest, GotNothing
  <2> QED BY <2>1, <2>2, <2>3 DEF Early, JoinAt
<1>4. CASE BySlow
  <2>1. down' = down /\ Popped(slow, slow', Timer) BY <1>4 DEF BySlow, Ticked
  <2>2. ASSUME NEW i \in 1..Len(slow'), LookAt(i, r, b)' PROVE Early(r, b)
    <3>1. i + 1 \in 1..Len(slow) /\ slow'[i] = slow[i + 1] BY <2>1, <2>2 DEF Popped
    <3>2. LookAt(i + 1, r, b) BY <2>2, <3>1 DEF LookAt
    <3> QED BY <3>1, <3>2 DEF Early
  <2>3. ASSUME NEW i \in 1..Len(quick'), JoinAt(i, r, b)' PROVE Early(r, b)
    <3>1. CASE i \in 1..Len(quick) /\ quick'[i] = quick[i] BY <2>3, <3>1 DEF JoinAt, Early
    <3>2. ASSUME NEW q \in Room, NEW c \in Bot, Looked(q, c),
                 ~(i \in 1..Len(quick) /\ quick'[i] = quick[i])
          PROVE  Early(r, b)
      <4>1. quick'[i] = [kind |-> "join", room |-> q, bot |-> c]
        BY <3>2 DEF Looked, Pushed
      <4>2. q = r /\ c = b BY <2>3, <4>1 DEF JoinAt
      <4>3. 1 \in 1..Len(slow) /\ LookAt(1, r, b)
        BY <2>1, <3>2, <4>2 DEF Looked, LookAt, Popped
      <4> QED BY <4>3 DEF Early
    <3>3. CASE quick' = quick BY <2>3, <3>3 DEF JoinAt, Early
    <3> QED BY <1>4, <3>1, <3>2, <3>3 DEF BySlow, LetGo
  <2> QED BY <2>1, <2>2, <2>3 DEF Early, InvitedAt
<1>5. CASE ByQuick
  <2>1. down' = down /\ slow' = slow /\ Popped(quick, quick', Timer)
    BY <1>5 DEF ByQuick, Connected
  <2>2. ASSUME NEW i \in 1..Len(quick'), JoinAt(i, r, b)' PROVE Early(r, b)
    <3>1. i + 1 \in 1..Len(quick) /\ JoinAt(i + 1, r, b) BY <2>1, <2>2 DEF Popped, JoinAt
    <3> QED BY <3>1 DEF Early
  <2> QED BY <2>1, <2>2 DEF Early, InvitedAt, LookAt
<1>6. CASE ByAnswer
  BY <1>6 DEF ByAnswer, AskedBy, Early, InvitedAt, LookAt, JoinAt
<1>7. CASE Broken
  <2>1. slow' = slow /\ quick' = quick /\ Len(down') = 1 /\ down'[1].note = <<>>
    BY <1>7 DEF Broken, assistant
  <2>2. ASSUME NEW i \in 1..Len(down'), InvitedAt(i, r, b)' PROVE FALSE
    <3>1. <<>> = <<"invited", r, b>> BY <2>1, <2>2 DEF InvitedAt
    <3> QED BY <3>1
  <2> QED BY <2>1, <2>2 DEF Early, LookAt, JoinAt
<1> QED BY <1>1, <1>2, <1>3, <1>4, <1>5, <1>6, <1>7 DEF Step

(* What is sent up. *)
SentUp(op, r, b) ==
  /\ \E ids : Pushed(up, up', Request, [op |-> op, room |-> r, bot |-> b, invites |-> ids])
  /\ UNCHANGED <<seats, joined>>

LEMMA GoesSends ==
  ASSUME TypeOK, NEW b, NEW value, Goes(b, value), UNCHANGED <<seats, joined>>
  PROVE  UNCHANGED <<up, seats, joined>> \/ (value # None /\ SentUp("leave", value.room, b))
BY DEF Goes, SentUp

(* How the seats and the requests change. *)
LEMMA UpDoes ==
  ASSUME TypeOK, Step
  PROVE  \/ UNCHANGED <<up, seats, joined>>
         \/ ByServer
         \/ \E r \in Room : /\ ByEvent /\ GotKicked(r) /\ rooms[r] # None /\ Fed(rooms[r]) # None
                            /\ SentUp("leave", Fed(rooms[r]).room, rooms[r])
         \/ \E b \in Bot : /\ BySlow /\ LetGo(b) /\ core[b].value # None
                           /\ SentUp("leave", core[b].value.room, b)
         \/ \E r \in Room, b \in Bot : Connected(r, b) /\ SentUp("join", r, b)
         \/ \E b \in Bot, g \in Guest : AskedBy(b, g) /\ Listed(b, g) /\ SentUp("update", core[b].room, b)
         \/ Broken
<1>1. CASE ByPeople BY <1>1 DEF ByPeople, Talked, InvitedBot, KickedBot, Persist
<1>2. CASE ByEvent
  <2>1. UNCHANGED <<seats, joined>> BY <1>2 DEF ByEvent, Received, server
  <2>2. ASSUME NEW r \in Room, GotKicked(r), rooms[r] # None PROVE Goes(rooms[r], Fed(rooms[r]))
    BY <2>2 DEF GotKicked
  <2>3. up' = up \/ \E r \in Room : GotKicked(r) /\ rooms[r] # None
    BY <1>2 DEF ByEvent, Got, GotInvited, GotKicked, GotLeave, GotGuest, GotNothing
  <2> QED BY <1>2, <2>1, <2>2, <2>3, GoesSends
<1>3. CASE BySlow
  <2>1. UNCHANGED <<seats, joined>> BY <1>3 DEF BySlow, Ticked, server
  <2>2. up' = up \/ \E b \in Bot : LetGo(b) BY <1>3 DEF BySlow, Looked
  <2>3. ASSUME NEW b \in Bot, LetGo(b) PROVE Goes(b, core[b].value) BY <2>3 DEF LetGo
  <2> QED BY <1>3, <2>1, <2>2, <2>3, GoesSends
<1>4. CASE ByQuick
  <2>1. PICK r \in Room, b \in Bot : Connected(r, b) BY <1>4 DEF ByQuick
  <2>2. SentUp("join", r, b) BY <2>1 DEF Connected, SentUp, server
  <2> QED BY <2>1, <2>2
<1>5. CASE ByAnswer
  <2>1. PICK b \in Bot, g \in Guest : AskedBy(b, g) /\ (Listed(b, g) \/ UNCHANGED <<core, up>>)
    BY <1>5 DEF ByAnswer
  <2>2. UNCHANGED <<seats, joined>> BY <2>1 DEF AskedBy, server
  <2>3. CASE Listed(b, g)
    <3>1. SentUp("update", core[b].room, b) BY <2>2, <2>3 DEF Listed, SentUp
    <3> QED BY <2>1, <2>3, <3>1
  <2> QED BY <2>1, <2>2, <2>3
<1> QED BY <1>1, <1>2, <1>3, <1>4, <1>5 DEF Step

LEMMA SeatingFrom ==
  ASSUME TypeOK, Step, NEW r \in Room, NEW b \in Bot, Seating(r, b)'
  PROVE  Seating(r, b) \/ Connected(r, b)
<1>1. CASE UNCHANGED <<up, seats, joined>> BY <1>1 DEF Seating
<1>2. CASE ByServer
  <2>1. Popped(up, up', Request) BY <1>2 DEF ByServer, Handled
  <2>2. ASSUME NEW i \in 1..Len(up'), Asks(up'[i], "join", r, b) PROVE Seating(r, b)
    <3>1. i + 1 \in 1..Len(up) /\ Asks(up[i + 1], "join", r, b) BY <2>1, <2>2 DEF Popped
    <3> QED BY <3>1 DEF Seating
  <2>3. ASSUME <<r, b>> \in seats' PROVE Seating(r, b)
    <3>1. <<r, b>> \in seats \/ (Admitted(up[1]) /\ <<r, b>> = <<up[1].room, up[1].bot>>)
      BY <1>2, <2>3 DEF ByServer, Admitted, Left, Updated, Refused
    <3>2. CASE Admitted(up[1]) /\ <<r, b>> = <<up[1].room, up[1].bot>>
      <4>1. 1 \in 1..Len(up) /\ Asks(up[1], "join", r, b) BY <2>1, <3>2 DEF Popped, Asks, Admitted
      <4> QED BY <4>1 DEF Seating
    <3> QED BY <3>1, <3>2 DEF Seating
  <2> QED BY <2>2, <2>3 DEF Seating
<1>3. ASSUME NEW op, NEW q, NEW c, SentUp(op, q, c) PROVE Seating(r, b) \/ (op = "join" /\ q = r /\ c = b)
  <2>1. seats' = seats /\ Len(up) \in Nat /\ Len(up') = Len(up) + 1
        /\ (\A i \in 1..Len(up) : up'[i] = up[i])
        /\ up'[Len(up) + 1].op = op /\ up'[Len(up) + 1].room = q /\ up'[Len(up) + 1].bot = c
    BY <1>3 DEF SentUp, Pushed
  <2>2. ASSUME NEW i \in 1..Len(up'), Asks(up'[i], "join", r, b)
        PROVE  Seating(r, b) \/ (op = "join" /\ q = r /\ c = b)
    <3>1. i \in 1..Len(up) \/ i = Len(up) + 1 BY <2>1, <2>2
    <3> QED BY <2>1, <2>2, <3>1 DEF Asks, Seating
  <2> QED BY <2>1, <2>2 DEF Seating
<1>4. CASE Broken BY <1>4, NothingThere DEF Broken, Seating
<1> QED BY <1>1, <1>2, <1>3, <1>4, UpDoes

-----------------------------------------------------------------------------
(* The parts of the invariant, one by one *)

LEMMA AgainGrows == ASSUME Step PROVE again \subseteq again'
BY DEF Step, ByPeople, Talked, InvitedBot, KickedBot, ByServer, Handled, ByEvent, Received,
       BySlow, Ticked, ByQuick, Connected, ByAnswer, AskedBy, Broken, history

(* A room whose bots are all gone may invite, unless one is on its way.     *)
LEMMA NoneOnItsWay ==
  ASSUME TypeOK, Tokens, NEW r \in Room, NEW c \in Bot, BotsIn(r) = {}, ~Coming(r)
  PROVE  ~Early(r, c) /\ ~Seating(r, c)
<1>1. ASSUME NEW i \in 1..Len(down), InvitedAt(i, r, c) PROVE FALSE
  <2>1. i \in DOMAIN down BY DEF TypeOK
  <2> QED BY <1>1, <2>1 DEF InvitedAt, Coming
<1>2. ASSUME NEW i \in 1..Len(slow), LookAt(i, r, c) PROVE FALSE
  <2>1. slow[i] \in ToSet(slow) BY DEF ToSet, TypeOK
  <2>2. slow[i].kind # "leave" /\ slow[i].room = r BY <1>2 DEF LookAt
  <2> QED BY <2>1, <2>2 DEF Coming
<1>3. ASSUME NEW i \in 1..Len(quick), JoinAt(i, r, c) PROVE FALSE
  <2>1. quick[i] \in ToSet(quick) BY DEF ToSet, TypeOK
  <2>2. quick[i].kind # "leave" /\ quick[i].room = r BY <1>3 DEF JoinAt
  <2> QED BY <2>1, <2>2 DEF Coming
<1>4. ASSUME NEW i \in 1..Len(up), Asks(up[i], "join", r, c) PROVE FALSE
  <2>1. up[i] \in ToSet(up) BY DEF ToSet, TypeOK
  <2> QED BY <1>4, <2>1 DEF Coming, Asks
<1>5. <<r, c>> \notin seats BY DEF BotsIn
<1> QED BY <1>1, <1>2, <1>3, <1>4, <1>5 DEF Early, Seating

LEMMA OneComingStep ==
  ASSUME TypeOK, OneComing, Tokens, Step
  PROVE  OneComing'
<1> SUFFICES ASSUME NEW r \in Room, r \notin again', NEW b \in Bot, NEW c \in Bot,
                    Early(r, b)' \/ Seating(r, b)', Early(r, c)' \/ Seating(r, c)'
             PROVE  b = c
  BY DEF OneComing
<1>1. r \in Room \ again BY AgainGrows
<1>2. ASSUME NEW a \in Bot, Early(r, a)' \/ Seating(r, a)'
      PROVE  Early(r, a) \/ Seating(r, a) \/ InvitedBot(r, a)
  <2>1. CASE Early(r, a)' BY <2>1, EarlyFrom
  <2>2. CASE Seating(r, a)' BY <2>2, SeatingFrom, ConnectsNew
  <2> QED BY <1>2, <2>1, <2>2
<1>3. CASE \E a \in Bot : InvitedBot(r, a)
  <2>1. PICK a \in Bot : InvitedBot(r, a) BY <1>3
  <2>2. BotsIn(r) = {} /\ again' = IF Coming(r) THEN again \cup {r} ELSE again
    BY <2>1 DEF InvitedBot
  <2>3. ~Coming(r) BY <2>2
  <2>4. \A e \in Bot : ~Early(r, e) /\ ~Seating(r, e) BY <2>2, <2>3, NoneOnItsWay
  <2>5. \A e \in Bot : InvitedBot(r, e) => e = a
    <3>1. TAKE e \in Bot
    <3>2. HAVE InvitedBot(r, e)
    <3>3. a \notin issued /\ issued' = issued \cup {a} /\ issued' = issued \cup {e}
      BY <2>1, <3>2 DEF InvitedBot
    <3> QED BY <3>3
  <2> QED BY <1>2, <2>4, <2>5
<1>4. CASE ~\E a \in Bot : InvitedBot(r, a)
  BY <1>1, <1>2, <1>4 DEF OneComing
<1> QED BY <1>3, <1>4

(* The last data of a core is of its room. *)
LEMMA FedHere ==
  ASSUME TypeOK, Rooted, Here, Received, NEW b \in Bot, Fed(b) # None
  PROVE  Fed(b).room = core[b].room
<1>1. 1 \in 1..Len(down) BY DEF Received, Popped
<1>2. CASE b \in Live /\ down[1].data # None
  <2>1. down[1].data.room = core[b].room BY <1>1, <1>2 DEF Here
  <2> QED BY <1>2, <2>1 DEF Fed
<1>3. CASE ~(b \in Live /\ down[1].data # None) BY <1>3 DEF Fed, Rooted
<1> QED BY <1>2, <1>3

LEMMA LetGoStarted ==
  ASSUME TypeOK, Rooted, Ticked, NEW b \in Bot, LetGo(b)
  PROVE  core[b].state # "none" /\ 1 \in 1..Len(slow)
BY DEF Ticked, Popped, LetGo, Rooted

LEMMA RequestAt ==
  ASSUME NEW s \in Seq(Request), NEW i \in 1..Len(s)
  PROVE  s[i].bot \in Bot /\ s[i].room \in Room
<1>1. s[i] \in Request BY At
<1> QED BY <1>1 DEF Request
LEMMA TimerAt ==
  ASSUME NEW s \in Seq(Timer), NEW i \in 1..Len(s)
  PROVE  s[i].bot \in Bot /\ s[i].room \in Room
<1>1. s[i] \in Timer BY At
<1> QED BY <1>1 DEF Timer

(* A request is of a bot with a core of that room, destroyed if it leaves.  *)
Fits(q) == /\ core'[q.bot].state # "none" /\ core'[q.bot].room = q.room
           /\ q.op = "leave" => core'[q.bot].state = "destroyed"

LEMMA RootedStep ==
  ASSUME TypeOK, TypeOK', Tokens, Rooted, Here, Step
  PROVE  Rooted'
<1>1. \A b \in Bot : Lasting(b) BY CoreLasts
<1>2. ASSUME NEW r \in Room, NEW b \in Bot, <<r, b>> \in seats'
      PROVE  core'[b].state # "none" /\ core'[b].room = r
  <2>1. core[b].state # "none" /\ core[b].room = r
    <3>1. CASE <<r, b>> \in seats BY <3>1 DEF Rooted
    <3>2. CASE <<r, b>> \notin seats
      <4>1. ByServer
        BY <1>2, <3>2, UpDoes DEF SentUp, Broken
      <4>2. Admitted(up[1]) /\ <<r, b>> = <<up[1].room, up[1].bot>>
        BY <1>2, <3>2, <4>1 DEF ByServer, Admitted, Left, Updated, Refused
      <4>3. 1 \in 1..Len(up) BY <4>1 DEF ByServer, Handled, Popped
      <4> QED BY <4>2, <4>3 DEF Rooted
    <3> QED BY <3>1, <3>2
  <2> QED BY <1>1, <2>1, CoreParts DEF Lasting
<1>3. ASSUME NEW i \in 1..Len(up')
      PROVE  Fits(up'[i])
  <2>1. ASSUME NEW k \in 1..Len(up) PROVE Fits(up[k])
    <3>1. up[k].bot \in Bot BY RequestAt DEF TypeOK
    <3>2. core[up[k].bot].state # "none" /\ core[up[k].bot].room = up[k].room
          /\ (up[k].op = "leave" => core[up[k].bot].state = "destroyed")
      BY DEF Rooted
    <3>3. core[up[k].bot].state \in {"none", "live", "destroyed"} BY <3>1, CoreParts
    <3> QED BY <1>1, <3>1, <3>2, <3>3 DEF Lasting, Fits
  <2>2. CASE UNCHANGED <<up, seats, joined>> BY <2>1, <2>2
  <2>3. CASE ByServer
    <3>1. i + 1 \in 1..Len(up) /\ up'[i] = up[i + 1] BY <2>3 DEF ByServer, Handled, Popped
    <3> QED BY <2>1, <3>1
  <2>4. ASSUME NEW op, NEW r, NEW b \in Bot, SentUp(op, r, b),
               core'[b].state # "none", core'[b].room = r,
               op = "leave" => core'[b].state = "destroyed"
        PROVE  Fits(up'[i])
    <3>1. CASE i \in 1..Len(up)
      <4>1. up'[i] = up[i] BY <2>4, <3>1 DEF SentUp, Pushed
      <4> QED BY <2>1, <3>1, <4>1
    <3>2. CASE i \notin 1..Len(up)
      <4>1. i = Len(up) + 1 BY <2>4, <3>2 DEF SentUp, Pushed
      <4>2. up'[i].op = op /\ up'[i].room = r /\ up'[i].bot = b
        BY <2>4, <4>1 DEF SentUp, Pushed
      <4> QED BY <2>4, <4>2 DEF Fits
    <3> QED BY <3>1, <3>2
  <2>5. ASSUME NEW r \in Room, GotKicked(r), rooms[r] # None, Fed(rooms[r]) # None, ByEvent,
               SentUp("leave", Fed(rooms[r]).room, rooms[r])
        PROVE  Fits(up'[i])
    <3>1. PICK c \in Bot : c = rooms[r] BY <2>5 DEF TypeOK
    <3>2. Fed(c).room = core[c].room BY <2>5, <3>1, FedHere DEF ByEvent
    <3>3. core'[c].state = "destroyed" /\ core'[c].room = core[c].room
      <4>1. \A b \in Bot : Taken(b, IF b = rooms[r] THEN "destroyed" ELSE core[b].state)
        BY <2>5 DEF GotKicked
      <4>2. Taken(c, "destroyed") BY <3>1, <4>1
      <4> QED BY <4>2 DEF Taken
    <3> QED BY <2>4, <2>5, <3>1, <3>2, <3>3
  <2>6. ASSUME NEW b \in Bot, LetGo(b), core[b].value # None, SentUp("leave", core[b].value.room, b)
        PROVE  Fits(up'[i])
    <3>1. core'[b].state = "destroyed" /\ core'[b].room = core[b].room BY <2>6 DEF LetGo
    <3>2. core[b].value.room = core[b].room BY <2>6 DEF Rooted
    <3> QED BY <2>4, <2>6, <3>1, <3>2
  <2>7. ASSUME NEW r \in Room, NEW b \in Bot, Connected(r, b), SentUp("join", r, b)
        PROVE  Fits(up'[i])
    <3>1. core'[b].state = "live" /\ core'[b].room = r BY <2>7 DEF Connected
    <3> QED BY <2>4, <2>7, <3>1
  <2>8. ASSUME NEW b \in Bot, NEW g \in Guest, AskedBy(b, g), Listed(b, g),
               SentUp("update", core[b].room, b)
        PROVE  Fits(up'[i])
    <3>1. core'[b].state = core[b].state /\ core'[b].room = core[b].room BY <2>8 DEF Listed
    <3>2. core[b].state # "none" BY <2>8 DEF AskedBy, Rooted
    <3> QED BY <2>4, <2>8, <3>1, <3>2
  <2>9. CASE Broken BY <2>1, <2>9, NothingThere DEF Broken
  <2> QED BY <2>2, <2>3, <2>5, <2>6, <2>7, <2>8, <2>9, UpDoes
<1>4. ASSUME NEW p \in asking' PROVE core'[p[1]].state # "none"
  <2>1. p[1] \in Bot BY DEF TypeOK
  <2>2. core[p[1]].state # "none"
    <3>1. CASE p \in asking BY <3>1 DEF Rooted
    <3>2. CASE p \notin asking
      <4>1. asking' = asking \/ asking' \subseteq asking \/ \E how, g : GotGuest(how, g)
        BY DEF Step, ByPeople, Talked, InvitedBot, KickedBot, Persist, ByServer, Handled, ByEvent, Got,
               GotInvited, GotKicked, GotLeave, GotNothing, BySlow, Ticked, ByQuick, Connected,
               ByAnswer, AskedBy, Broken, assistant
      <4>2. PICK how, g : GotGuest(how, g) BY <1>4, <3>2, <4>1
      <4>3. p \in Hearing(how) \X {g} BY <1>4, <3>2, <4>2 DEF GotGuest
      <4> QED BY <4>3 DEF Hearing, Live
    <3> QED BY <3>1, <3>2
  <2> QED BY <1>1, <2>1, <2>2, CoreParts DEF Lasting
<1>5. ASSUME NEW i \in 1..Len(slow'), slow'[i].kind = "leave" PROVE core'[slow'[i].bot].state # "none"
  <2>1. slow'[i].bot \in Bot BY TimerAt DEF TypeOK
  <2>2. core[slow'[i].bot].state # "none"
    <3>1. ASSUME NEW k \in 1..Len(slow), slow'[i] = slow[k] PROVE core[slow'[i].bot].state # "none"
      BY <1>5, <3>1 DEF Rooted
    <3>2. CASE slow' = slow BY <3>1, <3>2
    <3>3. CASE Ticked BY <3>1, <3>3 DEF Ticked, Popped
    <3>4. ASSUME NEW r, NEW b, GotInvited(r, b) PROVE core[slow'[i].bot].state # "none"
      <4>1. i \in 1..Len(slow) \/ i = Len(slow) + 1 BY <3>4 DEF GotInvited, Pushed
      <4>2. CASE i = Len(slow) + 1
        <5>1. slow'[i].kind = "look" BY <3>4, <4>2 DEF GotInvited, Pushed
        <5> QED BY <1>5, <5>1
      <4>3. CASE i \in 1..Len(slow)
        <5>1. slow'[i] = slow[i] BY <3>4, <4>3 DEF GotInvited, Pushed
        <5> QED BY <3>1, <4>3, <5>1
      <4> QED BY <4>1, <4>2, <4>3
    <3>5. ASSUME NEW how, GotLeave(how) PROVE core[slow'[i].bot].state # "none"
      <4>1. CASE i \in 1..Len(slow) BY <3>1, <3>5, <4>1 DEF GotLeave
      <4>2. CASE i \notin 1..Len(slow)
        <5>1. PICK c \in Hearing(how) : slow'[i] = [kind |-> "leave", room |-> core[c].room, bot |-> c]
          BY <3>5, <4>2 DEF GotLeave
        <5>2. core[c].state # "none" BY DEF Hearing, Live
        <5> QED BY <5>1, <5>2
      <4> QED BY <4>1, <4>2
    <3>6. \/ slow' = slow \/ Ticked \/ (\E r, b : GotInvited(r, b)) \/ \E how : GotLeave(how)
      BY DEF Step, ByPeople, Talked, InvitedBot, KickedBot, Persist, ByServer, Handled, ByEvent, Got,
             GotKicked, GotGuest, GotNothing, BySlow, ByQuick, Connected,
             ByAnswer, AskedBy, Broken, assistant
    <3> QED BY <3>2, <3>3, <3>4, <3>5, <3>6
  <2> QED BY <1>1, <2>1, <2>2, CoreParts DEF Lasting
<1>6. ASSUME NEW r \in Room, rooms'[r] # None
      PROVE  core'[rooms'[r]].state # "none" /\ core'[rooms'[r]].room = r
  <2>1. CASE rooms'[r] = rooms[r]
    <3>1. rooms[r] \in Bot BY <1>6, <2>1 DEF TypeOK
    <3>2. core[rooms[r]].state # "none" /\ core[rooms[r]].room = r BY <1>6, <2>1 DEF Rooted
    <3> QED BY <1>1, <2>1, <3>1, <3>2, CoreParts DEF Lasting
  <2>2. CASE rooms'[r] # rooms[r]
    <3>1. (\E q \in Room : GotKicked(q)) \/ (\E q \in Room, b \in Bot : Connected(q, b))
      BY <2>2 DEF Step, ByPeople, Talked, InvitedBot, KickedBot, Persist, ByServer, Handled, ByEvent, Got,
             GotInvited, GotGuest, GotLeave, GotNothing, BySlow, Ticked, ByQuick,
             ByAnswer, AskedBy, Broken, assistant
    <3>2. PICK q \in Room, b \in Bot : Connected(q, b)
      BY <1>6, <2>2, <3>1 DEF GotKicked, TypeOK
    <3>3. r = q /\ rooms'[r] = b BY <2>2, <3>2 DEF Connected, TypeOK
    <3> QED BY <3>2, <3>3 DEF Connected
  <2> QED BY <2>1, <2>2
<1>7. ASSUME NEW b \in Bot
      PROVE  /\ core'[b].state # "none" => core'[b].room # None
             /\ core'[b].value # None => core'[b].value.room = core'[b].room
  <2>1. /\ core[b].state # "none" => core[b].room # None
        /\ core[b].value # None => core[b].value.room = core[b].room
    BY DEF Rooted
  <2>2. CASE core'[b] = core[b] BY <2>1, <2>2
  <2>3. CASE ByEvent
    <3>1. \E state : Taken(b, state) /\ (state = core[b].state \/ \E r \in Room : b = rooms[r])
      BY <2>3 DEF ByEvent, Got, GotInvited, GotKicked, GotGuest, GotLeave, GotNothing, AllTake
    <3>2. PICK state : Taken(b, state) /\ (state = core[b].state \/ \E r \in Room : b = rooms[r])
      BY <3>1
    <3>3. core'[b].room = core[b].room /\ core'[b].value = Fed(b) /\ core'[b].state = state
      BY <3>2 DEF Taken
    <3>4. Fed(b) # None => Fed(b).room = core[b].room BY <2>3, FedHere DEF ByEvent
    <3>5. (\E r \in Room : b = rooms[r]) => core[b].state # "none"
      BY NoneDistinct DEF Rooted, TypeOK
    <3> QED BY <2>1, <3>2, <3>3, <3>4, <3>5
  <2>4. ASSUME NEW c \in Bot, LetGo(c), Ticked PROVE <1>7!2
    BY <2>1, <2>4, LetGoStarted DEF LetGo, SameCore
  <2>5. ASSUME NEW r \in Room, NEW c \in Bot, Connected(r, c) PROVE <1>7!2
    BY <2>1, <2>5, NoneDistinct DEF Connected, SameCore
  <2>6. ASSUME NEW c \in Bot, NEW g \in Guest, Listed(c, g) PROVE <1>7!2
    BY <2>1, <2>6 DEF Listed, SameCore
  <2>7. \/ core' = core \/ ByEvent \/ (\E c \in Bot : LetGo(c) /\ Ticked)
        \/ (\E r \in Room, c \in Bot : Connected(r, c)) \/ \E c \in Bot, g \in Guest : Listed(c, g)
    BY DEF Step, ByPeople, Talked, InvitedBot, KickedBot, Persist, ByServer, Handled,
           BySlow, Looked, ByQuick, ByAnswer, Broken, assistant
  <2> QED BY <2>2, <2>3, <2>4, <2>5, <2>6, <2>7
<1> QED BY <1>2, <1>3, <1>4, <1>5, <1>6, <1>7 DEF Rooted, Fits

(* Which invitations and timers are new, and where the others were. *)
DownFrom(k) ==
  \A i \in 1..Len(down'), r \in Room, b \in Bot : InvitedAt(i, r, b)' =>
    \/ i + k \in 1..Len(down) /\ InvitedAt(i + k, r, b)
    \/ i = Len(down) + 1 /\ InvitedBot(r, b)
SlowFrom(k) ==
  \A i \in 1..Len(slow'), r \in Room, b \in Bot : LookAt(i, r, b)' =>
    \/ i + k \in 1..Len(slow) /\ LookAt(i + k, r, b)
    \/ i = Len(slow) + 1 /\ ByEvent /\ GotInvited(r, b)
QuickFrom(k) ==
  \A i \in 1..Len(quick'), r \in Room, b \in Bot : JoinAt(i, r, b)' =>
    \/ i + k \in 1..Len(quick) /\ JoinAt(i + k, r, b)
    \/ i = Len(quick) + 1 /\ BySlow /\ Looked(r, b)

LEMMA DownMoves ==
  ASSUME TypeOK, Step
  PROVE  \E k \in {0, 1} : DownFrom(k) /\ (ByEvent => k = 1)
<1>1. CASE ByEvent
  <2>1. Popped(down, down', Event) BY <1>1 DEF ByEvent, Received
  <2>2. DownFrom(1)
    <3>1. ASSUME NEW i \in 1..Len(down'), NEW r \in Room, NEW b \in Bot, InvitedAt(i, r, b)'
          PROVE  i + 1 \in 1..Len(down) /\ InvitedAt(i + 1, r, b)
      BY <2>1, <3>1 DEF Popped, InvitedAt
    <3> QED BY <3>1 DEF DownFrom
  <2> QED BY <2>2
<1>2. CASE ~ByEvent
  <2> SUFFICES ASSUME NEW i \in 1..Len(down'), NEW r \in Room, NEW b \in Bot, InvitedAt(i, r, b)'
               PROVE  \/ i \in 1..Len(down) /\ InvitedAt(i, r, b)
                      \/ i = Len(down) + 1 /\ InvitedBot(r, b)
    <3>1. \A i \in 1..Len(down') : i + 0 = i OBVIOUS
    <3> QED BY <1>2, <3>1 DEF DownFrom
  <2>1. CASE down' = down BY <2>1 DEF InvitedAt
  <2>2. ASSUME NEW q, NEW note, Posted(q, note), note = <<>> \/ note[1] # "invited"
        PROVE  i \in 1..Len(down) /\ InvitedAt(i, r, b)
    BY <2>2, PostedKeeps
  <2>3. ASSUME NEW q, Posted(q, <<"kicked", q>>) PROVE i \in 1..Len(down) /\ InvitedAt(i, r, b)
    <3>1. <<"kicked", q>>[1] # "invited" OBVIOUS
    <3> QED BY <2>2, <2>3, <3>1
  <2>4. ASSUME NEW q \in Room, NEW c \in Bot, InvitedBot(q, c)
        PROVE  \/ i \in 1..Len(down) /\ InvitedAt(i, r, b)
               \/ i = Len(down) + 1 /\ InvitedBot(r, b)
    <3>1. Posted(q, <<"invited", q, c>>) BY <2>4 DEF InvitedBot
    <3>2. CASE i \in 1..Len(down) BY <3>1, <3>2 DEF Posted, InvitedAt
    <3>3. CASE i \notin 1..Len(down)
      <4>1. i = Len(down) + 1 BY <3>1, <3>3 DEF Posted
      <4>2. <<"invited", q, c>> = <<"invited", r, b>> BY <3>1, <4>1 DEF Posted, InvitedAt
      <4>3. q = r /\ c = b BY <4>2
      <4> QED BY <2>4, <4>1, <4>3
    <3> QED BY <3>2, <3>3
  <2>5. CASE Broken
    <3>1. i = 1 /\ down'[1].note = <<>> BY <2>5 DEF Broken
    <3>2. <<>> = <<"invited", r, b>> BY <3>1 DEF InvitedAt
    <3> QED BY <3>2
  <2>6. \/ down' = down \/ (\E q, note : Posted(q, note) /\ (note = <<>> \/ note[1] # "invited"))
        \/ (\E q : Posted(q, <<"kicked", q>>)) \/ (\E q \in Room, c \in Bot : InvitedBot(q, c))
        \/ Broken
    <3>1. CASE ByServer BY <3>1 DEF ByServer, Admitted, Left, Updated, Refused
    <3>2. CASE ByPeople
      <4>1. ASSUME NEW q \in Room, NEW note, Talked(q, note)
            PROVE  Posted(q, note) /\ (note = <<>> \/ note[1] # "invited")
        BY <4>1 DEF Talked
      <4> QED BY <3>2, <4>1 DEF ByPeople, KickedBot
    <3> QED BY <1>2, <3>1, <3>2 DEF Step, BySlow, Ticked, ByQuick, Connected, ByAnswer, AskedBy
  <2> QED BY <2>1, <2>2, <2>3, <2>4, <2>5, <2>6
<1> QED BY <1>1, <1>2

(* What becomes of the timers. *)
LEMMA SlowMoves ==
  ASSUME TypeOK, Step
  PROVE  /\ \E k \in {0, 1} : SlowFrom(k) /\ (BySlow => k = 1)
         /\ \/ slow' = slow \/ BySlow
            \/ \E r \in Room, b \in Bot : ByEvent /\ GotInvited(r, b)
            \/ \E how : ByEvent /\ GotLeave(how)
<1>1. \/ slow' = slow \/ BySlow
      \/ \E r \in Room, b \in Bot : ByEvent /\ GotInvited(r, b)
      \/ \E how : ByEvent /\ GotLeave(how)
  BY DEF Step, ByPeople, Talked, InvitedBot, KickedBot, Persist, ByServer, Handled, ByEvent, Got,
         GotKicked, GotGuest, GotNothing, ByQuick, Connected, ByAnswer, AskedBy, Broken, assistant
<1>2. CASE BySlow
  <2>1. Popped(slow, slow', Timer) BY <1>2 DEF BySlow, Ticked
  <2>2. SlowFrom(1)
    <3>1. ASSUME NEW i \in 1..Len(slow'), NEW r \in Room, NEW b \in Bot, LookAt(i, r, b)'
          PROVE  i + 1 \in 1..Len(slow) /\ LookAt(i + 1, r, b)
      <4>1. i + 1 \in 1..Len(slow) /\ slow'[i] = slow[i + 1] BY <2>1 DEF Popped
      <4> QED BY <3>1, <4>1 DEF LookAt
    <3> QED BY <3>1 DEF SlowFrom
  <2> QED BY <1>1, <2>2
<1>3. CASE ~BySlow
  <2> SUFFICES ASSUME NEW i \in 1..Len(slow'), NEW r \in Room, NEW b \in Bot, LookAt(i, r, b)'
               PROVE  \/ i \in 1..Len(slow) /\ LookAt(i, r, b)
                      \/ i = Len(slow) + 1 /\ ByEvent /\ GotInvited(r, b)
    <3>1. \A i \in 1..Len(slow') : i + 0 = i OBVIOUS
    <3> QED BY <1>1, <1>3, <3>1 DEF SlowFrom
  <2>1. CASE slow' = slow BY <2>1 DEF LookAt
  <2>2. ASSUME NEW q \in Room, NEW c \in Bot, ByEvent, GotInvited(q, c)
        PROVE  \/ i \in 1..Len(slow) /\ LookAt(i, r, b)
               \/ i = Len(slow) + 1 /\ ByEvent /\ GotInvited(r, b)
    <3>1. Pushed(slow, slow', Timer, [kind |-> "look", room |-> q, bot |-> c])
      BY <2>2 DEF GotInvited
    <3>2. CASE i \in 1..Len(slow)
      <4>1. slow'[i] = slow[i] BY <3>1, <3>2 DEF Pushed
      <4> QED BY <3>2, <4>1 DEF LookAt
    <3>3. CASE i \notin 1..Len(slow)
      <4>1. i = Len(slow) + 1 BY <3>1, <3>3 DEF Pushed
      <4>2. slow'[i] = [kind |-> "look", room |-> q, bot |-> c] BY <3>1, <4>1 DEF Pushed
      <4>3. q = r /\ c = b BY <4>2 DEF LookAt
      <4> QED BY <2>2, <4>1, <4>3
    <3> QED BY <3>2, <3>3
  <2>3. ASSUME NEW how, GotLeave(how)
        PROVE  i \in 1..Len(slow) /\ LookAt(i, r, b)
    <3>1. CASE i \in 1..Len(slow)
      <4>1. slow'[i] = slow[i] BY <2>3, <3>1 DEF GotLeave
      <4> QED BY <3>1, <4>1 DEF LookAt
    <3>2. CASE i \notin 1..Len(slow)
      <4>1. i > Len(slow) BY <2>3, <3>2 DEF GotLeave
      <4>2. PICK c \in Hearing(how) : slow'[i] = [kind |-> "leave", room |-> core[c].room, bot |-> c]
        BY <2>3, <4>1 DEF GotLeave
      <4>3. slow'[i].kind = "leave" BY <4>2
      <4> QED BY <4>3 DEF LookAt
    <3> QED BY <3>1, <3>2
  <2> QED BY <1>1, <1>3, <2>1, <2>2, <2>3
<1> QED BY <1>1, <1>2, <1>3

LEMMA QuickMoves ==
  ASSUME TypeOK, Step
  PROVE  /\ \E k \in {0, 1} : QuickFrom(k) /\ (ByQuick => k = 1)
         /\ quick' = quick \/ ByQuick \/ \E r \in Room, b \in Bot : BySlow /\ Looked(r, b)
<1>1. quick' = quick \/ ByQuick \/ \E r \in Room, b \in Bot : BySlow /\ Looked(r, b)
  BY DEF Step, ByPeople, Talked, InvitedBot, KickedBot, Persist, ByServer, Handled, ByEvent, Received,
         BySlow, LetGo, ByAnswer, AskedBy, Broken, assistant
<1>2. CASE ByQuick
  <2>1. Popped(quick, quick', Timer) BY <1>2 DEF ByQuick, Connected
  <2>2. QuickFrom(1)
    <3>1. ASSUME NEW i \in 1..Len(quick'), NEW r \in Room, NEW b \in Bot, JoinAt(i, r, b)'
          PROVE  i + 1 \in 1..Len(quick) /\ JoinAt(i + 1, r, b)
      <4>1. i + 1 \in 1..Len(quick) /\ quick'[i] = quick[i + 1] BY <2>1 DEF Popped
      <4> QED BY <3>1, <4>1 DEF JoinAt
    <3> QED BY <3>1 DEF QuickFrom
  <2> QED BY <1>1, <2>2
<1>3. CASE ~ByQuick
  <2> SUFFICES ASSUME NEW i \in 1..Len(quick'), NEW r \in Room, NEW b \in Bot, JoinAt(i, r, b)'
               PROVE  \/ i \in 1..Len(quick) /\ JoinAt(i, r, b)
                      \/ i = Len(quick) + 1 /\ BySlow /\ Looked(r, b)
    <3>1. \A i \in 1..Len(quick') : i + 0 = i OBVIOUS
    <3> QED BY <1>1, <1>3, <3>1 DEF QuickFrom
  <2>1. CASE quick' = quick BY <2>1 DEF JoinAt
  <2>2. ASSUME NEW q \in Room, NEW c \in Bot, BySlow, Looked(q, c), quick' # quick
        PROVE  \/ i \in 1..Len(quick) /\ JoinAt(i, r, b)
               \/ i = Len(quick) + 1 /\ BySlow /\ Looked(r, b)
    <3>1. Pushed(quick, quick', Timer, [kind |-> "join", room |-> q, bot |-> c])
      BY <2>2 DEF Looked
    <3>2. CASE i \in 1..Len(quick)
      <4>1. quick'[i] = quick[i] BY <3>1, <3>2 DEF Pushed
      <4> QED BY <3>2, <4>1 DEF JoinAt
    <3>3. CASE i \notin 1..Len(quick)
      <4>1. i = Len(quick) + 1 BY <3>1, <3>3 DEF Pushed
      <4>2. quick'[i] = [kind |-> "join", room |-> q, bot |-> c] BY <3>1, <4>1 DEF Pushed
      <4>3. q = r /\ c = b BY <4>2 DEF JoinAt
      <4> QED BY <2>2, <4>1, <4>3
    <3> QED BY <3>2, <3>3
  <2> QED BY <1>1, <1>3, <2>1, <2>2
<1> QED BY <1>1, <1>2, <1>3

(* What a step makes of a core. *)
KickedOut(b) == \E r \in Room : GotKicked(r) /\ rooms[r] = b
CoreDoes(b) ==
  \/ core'[b] = core[b]
  \/ ByEvent /\ (Taken(b, core[b].state) \/ (Taken(b, "destroyed") /\ KickedOut(b)))
  \/ BySlow /\ LetGo(b)
  \/ \E r \in Room : Connected(r, b)
  \/ \E g \in Guest : AskedBy(b, g) /\ Listed(b, g)

LEMMA CoreChanges == ASSUME TypeOK, Step, NEW b \in Bot PROVE CoreDoes(b)
<1>1. CASE ByEvent
  <2>1. Taken(b, core[b].state) \/ \E r \in Room : GotKicked(r) /\ b = rooms[r] /\ Taken(b, "destroyed")
    <3>1. ASSUME NEW r \in Room, GotKicked(r)
          PROVE  Taken(b, core[b].state) \/ (b = rooms[r] /\ Taken(b, "destroyed"))
      <4>1. AllTake \/ \A c \in Bot : Taken(c, IF c = rooms[r] THEN "destroyed" ELSE core[c].state)
        BY <3>1 DEF GotKicked
      <4> QED BY <4>1 DEF AllTake
    <3> QED BY <1>1, <3>1 DEF ByEvent, Got, GotInvited, GotGuest, GotLeave, GotNothing, AllTake
  <2> QED BY <1>1, <2>1 DEF CoreDoes, KickedOut
<1>2. CASE BySlow BY <1>2 DEF BySlow, Looked, LetGo, SameCore, CoreDoes
<1>3. CASE ByQuick BY <1>3 DEF ByQuick, Connected, SameCore, CoreDoes
<1>4. CASE ByAnswer
  <2>1. PICK c \in Bot, g \in Guest : AskedBy(c, g) /\ (Listed(c, g) \/ UNCHANGED <<core, up>>)
    BY <1>4 DEF ByAnswer
  <2>2. c # b => core'[b] = core[b] BY <2>1 DEF Listed, SameCore
  <2> QED BY <2>1, <2>2 DEF CoreDoes
<1> QED BY <1>1, <1>2, <1>3, <1>4
        DEF Step, ByPeople, Talked, InvitedBot, KickedBot, Persist, ByServer, Handled, Broken, assistant,
            CoreDoes

(* A core comes to be only where a bot connects. *)
LEMMA CoreFrom ==
  ASSUME TypeOK, Rooted, Step, NEW b \in Bot, core'[b].state # "none"
  PROVE  core[b].state # "none" \/ \E r \in Room : Connected(r, b)
<1>1. KickedOut(b) => core[b].state # "none" BY NoneDistinct DEF KickedOut, Rooted
<1>2. BySlow /\ LetGo(b) => core[b].state # "none" BY LetGoStarted DEF BySlow
<1>3. ASSUME NEW g \in Guest, Listed(b, g) PROVE core'[b].state = core[b].state
  BY <1>3 DEF Listed
<1>4. \A state : Taken(b, state) => core'[b].state = state BY DEF Taken
<1>5. CoreDoes(b) BY CoreChanges
<1> QED BY <1>1, <1>2, <1>3, <1>4, <1>5 DEF CoreDoes

(* The employee is added to the list of the last data. *)
LEMMA ListedValue ==
  ASSUME TypeOK, NEW b \in Bot, NEW g \in Guest, Listed(b, g)
  PROVE  /\ core'[b].value # None /\ core'[b].value.room = core[b].value.room
         /\ core'[b].value.invites = core[b].value.invites \cup {g}
         /\ core'[b].state = core[b].state /\ core'[b].room = core[b].room
<1> DEFINE list == core[b].value.invites \cup {g}
           v == [room |-> core[b].value.room, invites |-> list]
<1>1. /\ core'[b] = [state |-> core[b].state, room |-> core[b].room, value |-> v]
      /\ list \in SUBSET Ids /\ core[b].value # None
  BY DEF Listed
<1>2. core[b].value.room \in Room BY <1>1, CoreParts
<1>3. v \in View BY <1>1, <1>2 DEF View
<1>4. v.room = core[b].value.room /\ v.invites = list OBVIOUS
<1> HIDE DEF v
<1> QED BY <1>1, <1>3, <1>4, NoneDistinct

(* Once there is data of the room, there is always some. *)
LEMMA ValueLasts ==
  ASSUME TypeOK, Step, NEW b \in Bot, core[b].value # None, \A r \in Room : ~Connected(r, b)
  PROVE  core'[b].value # None
<1>1. Fed(b) # None BY DEF Fed
<1>2. LetGo(b) => core'[b].value = core[b].value BY DEF LetGo
<1>3. \A g \in Guest : Listed(b, g) => core'[b].value # None BY ListedValue
<1>4. \A state : Taken(b, state) => core'[b].value = Fed(b) BY DEF Taken
<1>5. CoreDoes(b) BY CoreChanges
<1> QED BY <1>1, <1>2, <1>3, <1>4, <1>5 DEF CoreDoes

LEMMA IssuedGrows == ASSUME Step PROVE issued \subseteq issued'
BY DEF Step, ByPeople, Talked, InvitedBot, KickedBot, ByServer, Handled, ByEvent, Received,
       BySlow, Ticked, ByQuick, Connected, ByAnswer, AskedBy, Broken, server

LEMMA TokensStep ==
  ASSUME TypeOK, TypeOK', Tokens, Rooted, Step
  PROVE  Tokens'
<1>1. PICK d \in {0, 1} : DownFrom(d) /\ (ByEvent => d = 1) BY DownMoves
<1>2. PICK s \in {0, 1} : SlowFrom(s) /\ (BySlow => s = 1) BY SlowMoves
<1>3. PICK k \in {0, 1} : QuickFrom(k) /\ (ByQuick => k = 1) BY QuickMoves
<1>4. Len(down) \in Nat /\ Len(slow) \in Nat /\ Len(quick) \in Nat
  BY DEF TypeOK
<1>5. ASSUME NEW r \in Room, NEW b \in Bot, InvitedBot(r, b)
      PROVE  /\ b \notin issued /\ ~ByEvent /\ ~BySlow
             /\ \A q \in Room : ~Early(q, b)
  <2>1. b \notin issued /\ Len(down') = Len(down) + 1 BY <1>5 DEF InvitedBot, Posted
  <2>2. ~ByEvent BY <1>4, <2>1 DEF ByEvent, Received, Popped
  <2>3. ~BySlow BY <1>4, <2>1 DEF BySlow, Ticked
  <2> QED BY <2>1, <2>2, <2>3 DEF Tokens
<1>6. ASSUME NEW r \in Room, NEW b \in Bot, ByEvent, GotInvited(r, b)
      PROVE  1 \in 1..Len(down) /\ InvitedAt(1, r, b)
  BY <1>6 DEF ByEvent, Received, Popped, GotInvited, InvitedAt
<1>7. ASSUME NEW r \in Room, NEW b \in Bot, BySlow, Looked(r, b)
      PROVE  1 \in 1..Len(slow) /\ LookAt(1, r, b)
  BY <1>7 DEF BySlow, Ticked, Popped, Looked, LookAt
<1>8. ~(ByEvent /\ BySlow)
  BY <1>4 DEF ByEvent, Received, BySlow, Ticked, Popped
<1>9. ASSUME NEW r \in Room, NEW q \in Room, NEW b \in Bot
      PROVE  /\ \A i, j \in 1..Len(down) : InvitedAt(i, r, b) /\ InvitedAt(j, q, b) => i = j
             /\ \A i, j \in 1..Len(slow) : LookAt(i, r, b) /\ LookAt(j, q, b) => i = j
             /\ \A i, j \in 1..Len(quick) : JoinAt(i, r, b) /\ JoinAt(j, q, b) => i = j
             /\ \A i \in 1..Len(down) : InvitedAt(i, r, b) =>
                  /\ Early(r, b)
                  /\ \A j \in 1..Len(slow) : ~LookAt(j, q, b)
                  /\ \A j \in 1..Len(quick) : ~JoinAt(j, q, b)
             /\ \A i \in 1..Len(slow) : LookAt(i, r, b) =>
                  Early(r, b) /\ \A j \in 1..Len(quick) : ~JoinAt(j, q, b)
             /\ \A i \in 1..Len(quick) : JoinAt(i, r, b) => Early(r, b)
  BY DEF Tokens, Early
<1>10. ASSUME NEW r \in Room, NEW q \in Room, NEW b \in Bot
       PROVE  /\ \A i, j \in 1..Len(down') : InvitedAt(i, r, b)' /\ InvitedAt(j, q, b)' => i = j
              /\ \A i, j \in 1..Len(slow') : LookAt(i, r, b)' /\ LookAt(j, q, b)' => i = j
              /\ \A i, j \in 1..Len(quick') : JoinAt(i, r, b)' /\ JoinAt(j, q, b)' => i = j
              /\ \A i \in 1..Len(down') : InvitedAt(i, r, b)' =>
                   /\ \A j \in 1..Len(slow') : ~LookAt(j, q, b)'
                   /\ \A j \in 1..Len(quick') : ~JoinAt(j, q, b)'
              /\ \A i \in 1..Len(slow') : LookAt(i, r, b)' => \A j \in 1..Len(quick') : ~JoinAt(j, q, b)'
  <2>1. ASSUME NEW i \in 1..Len(down'), NEW j \in 1..Len(down'), InvitedAt(i, r, b)', InvitedAt(j, q, b)'
        PROVE  i = j
    <3>1. /\ (i + d \in 1..Len(down) /\ InvitedAt(i + d, r, b)) \/ (i = Len(down) + 1 /\ InvitedBot(r, b))
          /\ (j + d \in 1..Len(down) /\ InvitedAt(j + d, q, b)) \/ (j = Len(down) + 1 /\ InvitedBot(q, b))
      BY <1>1, <2>1 DEF DownFrom
    <3>2. CASE i + d \in 1..Len(down) /\ InvitedAt(i + d, r, b)
      <4>1. Early(r, b) BY <1>9, <3>2
      <4>2. ~InvitedBot(q, b) BY <1>5, <4>1
      <4>3. i + d = j + d BY <1>9, <3>1, <3>2, <4>2
      <4> QED BY <4>3
    <3>3. CASE i = Len(down) + 1 /\ InvitedBot(r, b) BY <1>5, <1>9, <3>1, <3>3
    <3> QED BY <3>1, <3>2, <3>3
  <2>2. ASSUME NEW i \in 1..Len(slow'), NEW j \in 1..Len(slow'), LookAt(i, r, b)', LookAt(j, q, b)'
        PROVE  i = j
    <3>1. /\ (i + s \in 1..Len(slow) /\ LookAt(i + s, r, b))
             \/ (i = Len(slow) + 1 /\ ByEvent /\ GotInvited(r, b))
          /\ (j + s \in 1..Len(slow) /\ LookAt(j + s, q, b))
             \/ (j = Len(slow) + 1 /\ ByEvent /\ GotInvited(q, b))
      BY <1>2, <2>2 DEF SlowFrom
    <3>2. CASE i + s \in 1..Len(slow) /\ LookAt(i + s, r, b)
      <4>1. ~(ByEvent /\ GotInvited(q, b)) BY <1>6, <1>9, <3>2
      <4>2. i + s = j + s BY <1>9, <3>1, <3>2, <4>1
      <4> QED BY <4>2
    <3>3. CASE i = Len(slow) + 1 /\ ByEvent /\ GotInvited(r, b) BY <1>6, <1>9, <3>1, <3>3
    <3> QED BY <3>1, <3>2, <3>3
  <2>3. ASSUME NEW i \in 1..Len(quick'), NEW j \in 1..Len(quick'), JoinAt(i, r, b)', JoinAt(j, q, b)'
        PROVE  i = j
    <3>1. /\ (i + k \in 1..Len(quick) /\ JoinAt(i + k, r, b))
             \/ (i = Len(quick) + 1 /\ BySlow /\ Looked(r, b))
          /\ (j + k \in 1..Len(quick) /\ JoinAt(j + k, q, b))
             \/ (j = Len(quick) + 1 /\ BySlow /\ Looked(q, b))
      BY <1>3, <2>3 DEF QuickFrom
    <3>2. CASE i + k \in 1..Len(quick) /\ JoinAt(i + k, r, b)
      <4>1. ~(BySlow /\ Looked(q, b)) BY <1>7, <1>9, <3>2
      <4>2. i + k = j + k BY <1>9, <3>1, <3>2, <4>1
      <4> QED BY <4>2
    <3>3. CASE i = Len(quick) + 1 /\ BySlow /\ Looked(r, b) BY <1>7, <1>9, <3>1, <3>3
    <3> QED BY <3>1, <3>2, <3>3
  <2>4. ASSUME NEW i \in 1..Len(down'), NEW j \in 1..Len(slow'), InvitedAt(i, r, b)', LookAt(j, q, b)'
        PROVE  FALSE
    <3>1. /\ (i + d \in 1..Len(down) /\ InvitedAt(i + d, r, b)) \/ (i = Len(down) + 1 /\ InvitedBot(r, b))
          /\ (j + s \in 1..Len(slow) /\ LookAt(j + s, q, b))
             \/ (j = Len(slow) + 1 /\ ByEvent /\ GotInvited(q, b))
      BY <1>1, <1>2, <2>4 DEF DownFrom, SlowFrom
    <3>2. CASE i + d \in 1..Len(down) /\ InvitedAt(i + d, r, b)
      <4>1. ByEvent /\ GotInvited(q, b) BY <1>9, <3>1, <3>2
      <4>2. 1 \in 1..Len(down) /\ InvitedAt(1, q, b) BY <1>6, <4>1
      <4>3. i + d = 1 /\ d = 1 BY <1>1, <1>9, <3>2, <4>1, <4>2
      <4> QED BY <4>3
    <3>3. CASE i = Len(down) + 1 /\ InvitedBot(r, b)
      <4>1. ~ByEvent /\ ~Early(q, b) BY <1>5, <3>3
      <4> QED BY <1>9, <3>1, <4>1
    <3> QED BY <3>1, <3>2, <3>3
  <2>5. ASSUME NEW i \in 1..Len(down'), NEW j \in 1..Len(quick'), InvitedAt(i, r, b)', JoinAt(j, q, b)'
        PROVE  FALSE
    <3>1. /\ (i + d \in 1..Len(down) /\ InvitedAt(i + d, r, b)) \/ (i = Len(down) + 1 /\ InvitedBot(r, b))
          /\ (j + k \in 1..Len(quick) /\ JoinAt(j + k, q, b))
             \/ (j = Len(quick) + 1 /\ BySlow /\ Looked(q, b))
      BY <1>1, <1>3, <2>5 DEF DownFrom, QuickFrom
    <3>2. CASE i + d \in 1..Len(down) /\ InvitedAt(i + d, r, b)
      <4>1. BySlow /\ Looked(q, b) BY <1>9, <3>1, <3>2
      <4>2. 1 \in 1..Len(slow) /\ LookAt(1, q, b) BY <1>7, <4>1
      <4> QED BY <1>9, <3>2, <4>2
    <3>3. CASE i = Len(down) + 1 /\ InvitedBot(r, b)
      <4>1. ~BySlow /\ ~Early(q, b) BY <1>5, <3>3
      <4> QED BY <1>9, <3>1, <4>1
    <3> QED BY <3>1, <3>2, <3>3
  <2>6. ASSUME NEW i \in 1..Len(slow'), NEW j \in 1..Len(quick'), LookAt(i, r, b)', JoinAt(j, q, b)'
        PROVE  FALSE
    <3>1. /\ (i + s \in 1..Len(slow) /\ LookAt(i + s, r, b))
             \/ (i = Len(slow) + 1 /\ ByEvent /\ GotInvited(r, b))
          /\ (j + k \in 1..Len(quick) /\ JoinAt(j + k, q, b))
             \/ (j = Len(quick) + 1 /\ BySlow /\ Looked(q, b))
      BY <1>2, <1>3, <2>6 DEF SlowFrom, QuickFrom
    <3>2. CASE i + s \in 1..Len(slow) /\ LookAt(i + s, r, b)
      <4>1. BySlow /\ Looked(q, b) BY <1>9, <3>1, <3>2
      <4>2. 1 \in 1..Len(slow) /\ LookAt(1, q, b) BY <1>7, <4>1
      <4>3. i + s = 1 /\ s = 1 BY <1>2, <1>9, <3>2, <4>1, <4>2
      <4> QED BY <4>3
    <3>3. CASE i = Len(slow) + 1 /\ ByEvent /\ GotInvited(r, b)
      <4>1. 1 \in 1..Len(down) /\ InvitedAt(1, r, b) BY <1>6, <3>3
      <4>2. ~BySlow BY <1>8, <3>3
      <4> QED BY <1>9, <3>1, <4>1, <4>2
    <3> QED BY <3>1, <3>2, <3>3
  <2> QED BY <2>1, <2>2, <2>3, <2>4, <2>5, <2>6
<1>11. ASSUME NEW r \in Room, NEW b \in Bot, Early(r, b)'
       PROVE  core'[b].state = "none" /\ b \in issued'
  <2>1. Early(r, b) \/ InvitedBot(r, b) BY <1>11, EarlyFrom
  <2>2. CASE Early(r, b)
    <3>1. core[b].state = "none" /\ b \in issued BY <2>2 DEF Tokens
    <3>2. ASSUME NEW q \in Room, Connected(q, b) PROVE FALSE
      <4>1. ByQuick BY <3>2 DEF ByQuick
      <4>2. 1 \in 1..Len(quick) /\ JoinAt(1, q, b) BY <3>2, ConnectsNew
      <4>3. down' = down /\ slow' = slow BY <3>2 DEF Connected
      <4>4. ASSUME NEW i \in 1..Len(quick'), JoinAt(i, r, b)' PROVE FALSE
        <5>1. i + k \in 1..Len(quick) /\ JoinAt(i + k, r, b) /\ k = 1
          <6>1. ~BySlow BY <4>3, <1>4 DEF BySlow, Ticked, Popped
          <6> QED BY <1>3, <4>1, <4>4, <6>1 DEF QuickFrom
        <5>2. i + k = 1 BY <1>9, <4>2, <5>1
        <5> QED BY <5>1, <5>2
      <4>5. CASE \E i \in 1..Len(down) : InvitedAt(i, r, b) BY <1>9, <4>2, <4>5
      <4>6. CASE \E i \in 1..Len(slow) : LookAt(i, r, b) BY <1>9, <4>2, <4>6
      <4> QED BY <1>11, <4>3, <4>4, <4>5, <4>6 DEF Early, InvitedAt, LookAt
    <3> QED BY <3>1, <3>2, CoreFrom, IssuedGrows
  <2>3. CASE InvitedBot(r, b)
    <3>1. b \notin issued /\ b \in issued' /\ core' = core
      BY <2>3 DEF InvitedBot, Persist, assistant
    <3> QED BY <3>1 DEF Tokens
  <2> QED BY <2>1, <2>2, <2>3
<1>12. ASSUME NEW b \in Bot, core'[b].state # "none" PROVE b \in issued'
  BY <1>12, CoreFrom, ConnectsNew, IssuedGrows DEF Tokens
<1>13. ASSUME NEW i \in 1..Len(quick') PROVE quick'[i].kind = "join"
  <2>1. CASE quick' = quick BY <2>1 DEF Tokens
  <2>2. CASE ByQuick
    <3>1. i + 1 \in 1..Len(quick) /\ quick'[i] = quick[i + 1]
      BY <2>2 DEF ByQuick, Connected, Popped
    <3> QED BY <3>1 DEF Tokens
  <2>3. ASSUME NEW r \in Room, NEW b \in Bot, Looked(r, b), quick' # quick
        PROVE  quick'[i].kind = "join"
    <3>1. Pushed(quick, quick', Timer, [kind |-> "join", room |-> r, bot |-> b])
      BY <2>3 DEF Looked
    <3>2. CASE i \in 1..Len(quick) BY <3>1, <3>2 DEF Pushed, Tokens
    <3>3. CASE i \notin 1..Len(quick)
      <4>1. i = Len(quick) + 1 BY <3>1, <3>3 DEF Pushed
      <4> QED BY <3>1, <4>1 DEF Pushed
    <3> QED BY <3>2, <3>3
  <2> QED BY <2>1, <2>2, <2>3, QuickMoves
<1>14. ASSUME NEW i \in 1..Len(slow') PROVE slow'[i].kind # "join"
  <2>1. CASE slow' = slow BY <2>1 DEF Tokens
  <2>2. CASE BySlow
    <3>1. i + 1 \in 1..Len(slow) /\ slow'[i] = slow[i + 1]
      BY <2>2 DEF BySlow, Ticked, Popped
    <3> QED BY <3>1 DEF Tokens
  <2>3. ASSUME NEW r \in Room, NEW b \in Bot, GotInvited(r, b) PROVE slow'[i].kind # "join"
    <3>1. Pushed(slow, slow', Timer, [kind |-> "look", room |-> r, bot |-> b])
      BY <2>3 DEF GotInvited
    <3>2. CASE i \in 1..Len(slow) BY <3>1, <3>2 DEF Pushed, Tokens
    <3>3. CASE i \notin 1..Len(slow)
      <4>1. i = Len(slow) + 1 BY <3>1, <3>3 DEF Pushed
      <4>2. slow'[i] = [kind |-> "look", room |-> r, bot |-> b] BY <3>1, <4>1 DEF Pushed
      <4> QED BY <4>2
    <3> QED BY <3>2, <3>3
  <2>4. ASSUME NEW how, GotLeave(how) PROVE slow'[i].kind # "join"
    <3>1. CASE i \in 1..Len(slow) BY <2>4, <3>1 DEF GotLeave, Tokens
    <3>2. CASE i \notin 1..Len(slow)
      <4>1. i > Len(slow) BY <2>4, <3>2 DEF GotLeave
      <4>2. PICK c \in Hearing(how) : slow'[i] = [kind |-> "leave", room |-> core[c].room, bot |-> c]
        BY <2>4, <4>1 DEF GotLeave
      <4> QED BY <4>2
    <3> QED BY <3>1, <3>2
  <2> QED BY <2>1, <2>2, <2>3, <2>4, SlowMoves
<1> QED BY <1>10, <1>11, <1>12, <1>13, <1>14 DEF Tokens

(* Where what is live, joined or under way comes from. *)
LEMMA LiveFrom ==
  ASSUME TypeOK, Tokens, Rooted, Step, NEW b \in Bot, core'[b].state = "live"
  PROVE  (core[b].state = "live" /\ core'[b].room = core[b].room) \/ \E r \in Room : Connected(r, b)
<1>1. CASE core[b].state # "none"
  <2>1. Lasting(b) /\ core[b].state \in {"none", "live", "destroyed"} BY CoreLasts, CoreParts
  <2> QED BY <1>1, <2>1 DEF Lasting
<1>2. CASE core[b].state = "none" BY <1>2, CoreFrom
<1> QED BY <1>1, <1>2

LEMMA JoinedFrom ==
  ASSUME TypeOK, Step, NEW r \in joined'
  PROVE  r \in joined \/ (ByServer /\ Admitted(up[1]) /\ up[1].room = r)
<1>1. CASE ByServer BY <1>1 DEF ByServer, Admitted, Left, Updated, Refused
<1>2. CASE joined' = joined BY <1>2
<1>3. CASE Broken BY <1>3 DEF Broken
<1> QED BY <1>1, <1>2, <1>3, UpDoes DEF SentUp

LEMMA JoinFrom ==
  ASSUME TypeOK, Step, NEW i \in 1..Len(up'), up'[i].op = "join"
  PROVE  \/ \E k \in 1..Len(up) : up'[i] = up[k]
         \/ \E r \in Room, b \in Bot : Connected(r, b) /\ up'[i].room = r /\ up'[i].bot = b
<1>1. CASE UNCHANGED <<up, seats, joined>> BY <1>1
<1>2. CASE ByServer BY <1>2 DEF ByServer, Handled, Popped
<1>3. ASSUME NEW op, NEW r, NEW b, SentUp(op, r, b)
      PROVE  \/ \E k \in 1..Len(up) : up'[i] = up[k]
             \/ op = "join" /\ up'[i].room = r /\ up'[i].bot = b
  <2>1. CASE i \in 1..Len(up) BY <1>3, <2>1 DEF SentUp, Pushed
  <2>2. CASE i \notin 1..Len(up)
    <3>1. i = Len(up) + 1 BY <1>3, <2>2 DEF SentUp, Pushed
    <3>2. up'[i].op = op /\ up'[i].room = r /\ up'[i].bot = b BY <1>3, <3>1 DEF SentUp, Pushed
    <3> QED BY <3>2
  <2> QED BY <2>1, <2>2
<1>4. CASE Broken BY <1>4, NothingThere DEF Broken
<1> QED BY <1>1, <1>2, <1>3, <1>4, UpDoes

LEMMA EventFrom ==
  ASSUME TypeOK, Step, NEW i \in 1..Len(down')
  PROVE  \/ \E k \in 1..Len(down) : down'[i] = down[k]
         \/ \E r \in Room : \E note : Posted(r, note) /\ i = Len(down) + 1
         \/ Broken /\ down'[i].data = None /\ down'[i].note = <<>>
<1>1. ASSUME NEW r \in Room, NEW note, Posted(r, note)
      PROVE  (\E k \in 1..Len(down) : down'[i] = down[k]) \/ i = Len(down) + 1
  BY <1>1 DEF Posted
<1>2. CASE ByPeople BY <1>1, <1>2 DEF ByPeople, Talked, InvitedBot, KickedBot
<1>3. CASE ByServer
  <2>1. up[1].room \in Room BY <1>3 DEF ByServer, Handled, Request
  <2> QED BY <1>1, <1>3, <2>1 DEF ByServer, Admitted, Left, Updated, Refused
<1>4. CASE ByEvent BY <1>4 DEF ByEvent, Received, Popped
<1>5. CASE Broken
  <2>1. i = 1 BY <1>5 DEF Broken
  <2> QED BY <1>5, <2>1 DEF Broken
<1> QED BY <1>2, <1>3, <1>4, <1>5 DEF Step, BySlow, Ticked, ByQuick, Connected, ByAnswer, AskedBy

LEMMA DataFrom ==
  ASSUME TypeOK, Step, NEW i \in 1..Len(down'), down'[i].data # None
  PROVE  \/ \E k \in 1..Len(down) : down'[i] = down[k]
         \/ /\ down'[i].data.room \in joined'
            /\ down'[i].data.invites = invites'[down'[i].data.room]
<1>1. ASSUME NEW r \in Room, NEW note, Posted(r, note), i = Len(down) + 1
      PROVE  /\ down'[i].data.room \in joined'
             /\ down'[i].data.invites = invites'[down'[i].data.room]
  <2>1. r \in joined' /\ down'[i].data = [room |-> r, invites |-> invites'[r]]
    BY <1>1 DEF Posted
  <2> QED BY <2>1
<1> QED BY <1>1, EventFrom

LEMMA HereStep ==
  ASSUME TypeOK, TypeOK', Tokens, Rooted, Here, Step, ~shared, ~shared'
  PROVE  Here'
<1>1. ASSUME NEW r \in Room, \A c \in Live : core[c].room = r, joined \subseteq {r},
             \A i \in 1..Len(up) : up[i].op = "join" => up[i].room = r,
             \A i \in 1..Len(down) : down[i].data # None => down[i].data.room = r,
             \A q \in Room, c \in Bot : Connected(q, c) => q = r
      PROVE  /\ joined' \subseteq {r}
             /\ \A c \in Live' : core'[c].room = r
             /\ \A i \in 1..Len(up') : up'[i].op = "join" => up'[i].room = r
             /\ \A i \in 1..Len(down') : down'[i].data # None => down'[i].data.room = r
  <2>1. joined' \subseteq {r}
    <3>1. ASSUME ByServer, Admitted(up[1]) PROVE up[1].room = r
      <4>1. 1 \in 1..Len(up) /\ up[1].op = "join" BY <3>1 DEF ByServer, Handled, Popped, Admitted
      <4> QED BY <1>1, <4>1
    <3> QED BY <1>1, <3>1, JoinedFrom
  <2>2. ASSUME NEW c \in Live' PROVE core'[c].room = r
    <3>1. c \in Bot /\ core'[c].state = "live" BY DEF Live
    <3>2. CASE core[c].state = "live" /\ core'[c].room = core[c].room BY <1>1, <3>1, <3>2 DEF Live
    <3>3. ASSUME NEW q \in Room, Connected(q, c) PROVE core'[c].room = r
      <4>1. q = r BY <1>1, <3>1, <3>3
      <4>2. core'[c].room = q BY <3>3 DEF Connected
      <4> QED BY <4>1, <4>2
    <3> QED BY <3>1, <3>2, <3>3, LiveFrom
  <2>3. ASSUME NEW i \in 1..Len(up'), up'[i].op = "join" PROVE up'[i].room = r
    BY <1>1, <2>3, JoinFrom
  <2>4. ASSUME NEW i \in 1..Len(down'), down'[i].data # None PROVE down'[i].data.room = r
    BY <1>1, <2>1, <2>4, DataFrom
  <2> QED BY <2>1, <2>2, <2>3, <2>4
<1>2. ASSUME NEW b \in Live' PROVE Here!(b)'
  <2>1. b \in Bot /\ core'[b].state = "live" BY DEF Live
  <2>2. ASSUME NEW q \in Room, NEW c \in Bot, Connected(q, c)
        PROVE  /\ \A e \in Live : core[e].room = q
               /\ joined \subseteq {q}
               /\ \A i \in 1..Len(up) : up[i].op = "join" => up[i].room = q
               /\ \A i \in 1..Len(down) : down[i].data # None => down[i].data.room = q
    <3>1. ~Elsewhere(q) BY <2>2 DEF Connected
    <3>2. (\A i \in 1..Len(up) : up[i] \in ToSet(up)) /\ \A i \in 1..Len(down) : down[i] \in ToSet(down)
      BY DEF ToSet, TypeOK
    <3> QED BY <3>1, <3>2 DEF Elsewhere
  <2>3. \A q \in Room, c \in Bot : Connected(q, c) => ByQuick BY DEF ByQuick
  <2>4. CASE \E q \in Room, c \in Bot : Connected(q, c)
    <3>1. PICK q \in Room, c \in Bot : Connected(q, c) BY <2>4
    <3>2. \A p \in Room, e \in Bot : Connected(p, e) => p = q BY <3>1 DEF Connected
    <3>3. /\ joined' \subseteq {q}
          /\ \A e \in Live' : core'[e].room = q
          /\ \A i \in 1..Len(up') : up'[i].op = "join" => up'[i].room = q
          /\ \A i \in 1..Len(down') : down'[i].data # None => down'[i].data.room = q
      BY <1>1, <2>2, <3>1, <3>2
    <3> QED BY <3>3
  <2>5. CASE ~\E q \in Room, c \in Bot : Connected(q, c)
    <3>1. core[b].state = "live" /\ core'[b].room = core[b].room BY <2>1, <2>5, LiveFrom
    <3>2. b \in Live BY <2>1, <3>1 DEF Live
    <3>3. core[b].room \in Room BY <2>1, <3>1, CoreParts DEF Rooted
    <3>4. /\ joined' \subseteq {core[b].room}
          /\ \A e \in Live' : core'[e].room = core[b].room
          /\ \A i \in 1..Len(up') : up'[i].op = "join" => up'[i].room = core[b].room
          /\ \A i \in 1..Len(down') : down'[i].data # None => down'[i].data.room = core[b].room
      BY <1>1, <2>5, <3>2, <3>3 DEF Here
    <3> QED BY <3>1, <3>4
  <2> QED BY <2>4, <2>5
<1> QED BY <1>2 DEF Here

(* Who is told to leave stays so until it has left. *)
LEMMA DismissedLasts ==
  ASSUME TypeOK, Step, NEW b \in Bot, core'[b].state = "live", Dismissed(b)
  PROVE  Dismissed(b)'
<1>0. PICK k \in 1..Len(slow) : Ends(k, b) BY DEF Dismissed
<1>1. ASSUME NEW n \in 1..Len(slow'), slow'[n] = slow[k] PROVE Dismissed(b)'
  BY <1>0, <1>1 DEF Dismissed, Ends
<1>2. CASE slow' = slow BY <1>1, <1>2
<1>3. CASE BySlow
  <2>1. Popped(slow, slow', Timer) BY <1>3 DEF BySlow, Ticked
  <2>2. CASE k = 1
    <3>1. slow[1].kind = "leave" /\ slow[1].bot = b BY <1>0, <2>2 DEF Ends
    <3>2. ASSUME NEW r \in Room, NEW c \in Bot, Looked(r, c) PROVE FALSE
      <4>1. slow[1] = [kind |-> "look", room |-> r, bot |-> c] BY <3>2 DEF Looked
      <4> QED BY <3>1, <4>1
    <3>3. PICK c \in Bot : LetGo(c) BY <1>3, <3>2 DEF BySlow
    <3>4. c = b BY <3>1, <3>3 DEF LetGo
    <3>5. core'[c].state = "destroyed" BY <3>3 DEF LetGo
    <3> QED BY <3>4, <3>5
  <2>3. CASE k # 1
    <3>1. k - 1 \in 1..Len(slow') /\ slow'[k - 1] = slow[(k - 1) + 1] /\ (k - 1) + 1 = k
      BY <2>1, <2>3 DEF Popped
    <3> QED BY <1>1, <3>1
  <2> QED BY <2>2, <2>3
<1>4. ASSUME NEW r \in Room, NEW c \in Bot, GotInvited(r, c) PROVE Dismissed(b)'
  <2>1. k \in 1..Len(slow') /\ slow'[k] = slow[k] BY <1>4 DEF GotInvited, Pushed
  <2> QED BY <1>1, <2>1
<1>5. ASSUME NEW how, GotLeave(how) PROVE Dismissed(b)'
  <2>1. k \in 1..Len(slow') /\ slow'[k] = slow[k] BY <1>5 DEF GotLeave
  <2> QED BY <1>1, <2>1
<1> QED BY <1>2, <1>3, <1>4, <1>5, SlowMoves

LEMMA TogetherStep ==
  ASSUME TypeOK, TypeOK', Tokens, Rooted, Owned, Together, Step, ~shared, ~shared'
  PROVE  Together'
<1> SUFFICES ASSUME NEW i \in 1..Len(slow'), slow'[i].kind = "leave", NEW b \in Live'
             PROVE  Dismissed(b)' /\ core'[b].value # None
  BY DEF Together
<1>1. b \in Bot /\ core'[b].state = "live" BY DEF Live
<1>2. \A r \in Room : ~Connected(r, b)
  <2>1. SUFFICES ASSUME NEW r \in Room, Connected(r, b) PROVE FALSE OBVIOUS
  <2>2. ~Elsewhere(r) /\ slow' = slow BY <2>1 DEF Connected
  <2>3. slow[i] \in ToSet(slow) BY <2>2 DEF ToSet, TypeOK
  <2> QED BY <2>2, <2>3 DEF Elsewhere
<1>3. core[b].state = "live" /\ b \in Live BY <1>1, <1>2, LiveFrom DEF Live
<1>4. CASE \E k \in 1..Len(slow) : slow[k].kind = "leave"
  <2>1. core[b].value # None /\ Dismissed(b) BY <1>3, <1>4 DEF Together
  <2>2. core'[b].value # None BY <1>1, <1>2, <2>1, ValueLasts
  <2>4. Dismissed(b)' BY <1>1, <2>1, DismissedLasts
  <2> QED BY <2>2, <2>4
<1>5. CASE ~\E k \in 1..Len(slow) : slow[k].kind = "leave"
  <2>1. ~BySlow
    <3>1. SUFFICES ASSUME BySlow PROVE FALSE OBVIOUS
    <3>2. i + 1 \in 1..Len(slow) /\ slow'[i] = slow[i + 1] BY <3>1 DEF BySlow, Ticked, Popped
    <3> QED BY <1>5, <3>2
  <2>2. slow' # slow BY <1>5
  <2>3. ASSUME NEW r \in Room, NEW c \in Bot, GotInvited(r, c) PROVE FALSE
    <3>1. Pushed(slow, slow', Timer, [kind |-> "look", room |-> r, bot |-> c])
      BY <2>3 DEF GotInvited
    <3>2. CASE i \in 1..Len(slow) BY <1>5, <3>1, <3>2 DEF Pushed
    <3>3. CASE i \notin 1..Len(slow)
      <4>1. i = Len(slow) + 1 BY <3>1, <3>3 DEF Pushed
      <4>2. slow'[i] = [kind |-> "look", room |-> r, bot |-> c] BY <3>1, <4>1 DEF Pushed
      <4> QED BY <4>2
    <3> QED BY <3>2, <3>3
  <2>4. PICK how : ByEvent /\ GotLeave(how) BY <2>1, <2>2, <2>3, SlowMoves
  <2>5. how \in {"text", "voice"} /\ down[1].note = <<how, "leave">> BY <2>4 DEF GotLeave
  <2>6. 1 \in 1..Len(down) BY <2>4 DEF ByEvent, Received, Popped
  <2>7. down[1].data # None BY <2>5, <2>6 DEF Owned
  <2>8. core'[b].value = down[1].data
    <3>1. Taken(b, core[b].state) BY <1>1, <2>4 DEF GotLeave, AllTake
    <3>2. Fed(b) = down[1].data BY <1>3, <2>7 DEF Fed
    <3> QED BY <3>1, <3>2 DEF Taken
  <2>9. b \in Hearing(how) BY <1>1, <1>3, <2>5 DEF Hearing
  <2>10. Dismissed(b)' BY <2>4, <2>9 DEF GotLeave, Dismissed, Ends
  <2> QED BY <2>7, <2>8, <2>10
<1> QED BY <1>4, <1>5

(* A bot that has left stays out, whatever is served or sent. *)
LEMMA OutServed ==
  ASSUME TypeOK, ByServer, NEW r \in Room, NEW b \in Bot, NEW n \in 1..Len(up), Out(up, seats, r, b, n)
  PROVE  Out(up', seats', r, b, n - 1)
<1>1. Popped(up, up', Request) BY DEF ByServer, Handled
<1>2. \A i \in 1..(n - 1) : i \in 1..Len(up') /\ up'[i] = up[i + 1] /\ i + 1 \in 1..n
  BY <1>1 DEF Popped
<1>3. ASSUME \A k \in 1..n : ~Asks(up[k], "join", r, b), <<r, b>> \notin seats'
      PROVE  Out(up', seats', r, b, n - 1)
  BY <1>2, <1>3 DEF Out
<1>4. CASE \E j \in 1..n : Asks(up[j], "leave", r, b) /\ \A k \in 1..n : k > j => ~Asks(up[k], "join", r, b)
  <2>1. PICK j \in 1..n : /\ Asks(up[j], "leave", r, b)
                          /\ \A k \in 1..n : k > j => ~Asks(up[k], "join", r, b)
    BY <1>4
  <2>2. CASE j = 1
    <3>1. Left(up[1]) /\ up[1].room = r /\ up[1].bot = b
      BY <2>1, <2>2 DEF ByServer, Asks, Admitted, Updated, Refused
    <3>2. <<r, b>> \notin seats' BY <3>1 DEF Left
    <3>3. ~Asks(up[1], "join", r, b) BY <2>1, <2>2 DEF Asks
    <3>4. \A k \in 1..n : ~Asks(up[k], "join", r, b) BY <2>1, <2>2, <3>3
    <3> QED BY <1>3, <3>2, <3>4
  <2>3. CASE j # 1
    <3>1. j - 1 \in 1..(n - 1) /\ (j - 1) + 1 = j BY <2>3
    <3>2. Asks(up'[j - 1], "leave", r, b) BY <1>2, <2>1, <3>1
    <3>3. \A k \in 1..(n - 1) : k > j - 1 => ~Asks(up'[k], "join", r, b) BY <1>2, <2>1
    <3> QED BY <3>1, <3>2, <3>3 DEF Out
  <2> QED BY <2>2, <2>3
<1>5. CASE <<r, b>> \notin seats /\ \A k \in 1..n : ~Asks(up[k], "join", r, b)
  <2>1. <<r, b>> \notin seats'
    <3>1. CASE Admitted(up[1])
      <4>1. 1 \in 1..n BY DEF TypeOK
      <4>2. <<r, b>> # <<up[1].room, up[1].bot>> BY <1>5, <3>1, <4>1 DEF Admitted, Asks
      <4> QED BY <1>5, <3>1, <4>2 DEF Admitted
    <3> QED BY <1>5, <3>1 DEF ByServer, Left, Updated, Refused
  <2> QED BY <1>3, <1>5, <2>1
<1> QED BY <1>4, <1>5 DEF Out

LEMMA OutSent ==
  ASSUME TypeOK, NEW op, NEW q, NEW c, SentUp(op, q, c),
         NEW r \in Room, NEW b \in Bot, NEW n \in 0..Len(up), Out(up, seats, r, b, n)
  PROVE  /\ Out(up', seats', r, b, n)
         /\ n = Len(up) /\ ~(op = "join" /\ q = r /\ c = b) => Out(up', seats', r, b, Len(up'))
<1>1. /\ Len(up) \in Nat /\ Len(up') = Len(up) + 1 /\ seats' = seats
      /\ \A i \in 1..Len(up) : up'[i] = up[i]
      /\ up'[Len(up) + 1].op = op /\ up'[Len(up) + 1].room = q /\ up'[Len(up) + 1].bot = c
  BY DEF SentUp, Pushed
<1>2. \A i \in 1..n : up'[i] = up[i] BY <1>1
<1>3. Out(up', seats', r, b, n) BY <1>1, <1>2 DEF Out
<1>4. ASSUME n = Len(up), ~(op = "join" /\ q = r /\ c = b) PROVE Out(up', seats', r, b, Len(up) + 1)
  <2>1. \A i \in 1..(Len(up) + 1) : i \in 1..n \/ i = Len(up) + 1 BY <1>1, <1>4
  <2>2. ~Asks(up'[Len(up) + 1], "join", r, b) BY <1>1, <1>4 DEF Asks
  <2>3. \A i \in 1..n : i \in 1..(Len(up) + 1) BY <1>1, <1>4
  <2> QED BY <1>1, <1>3, <2>1, <2>2, <2>3 DEF Out
<1> QED BY <1>1, <1>3, <1>4

LEMMA LeavesLast ==
  ASSUME TypeOK, NEW r \in Room, NEW b \in Bot, SentUp("leave", r, b)
  PROVE  Out(up', seats', r, b, Len(up'))
<1>1. /\ Len(up) \in Nat /\ Len(up') = Len(up) + 1
      /\ up'[Len(up) + 1].op = "leave" /\ up'[Len(up) + 1].room = r /\ up'[Len(up) + 1].bot = b
  BY DEF SentUp, Pushed
<1>2. Asks(up'[Len(up')], "leave", r, b) /\ Len(up') \in 1..Len(up') BY <1>1 DEF Asks
<1>3. \A k \in 1..Len(up') : ~(k > Len(up')) BY <1>1
<1> QED BY <1>2, <1>3 DEF Out

LEMMA OutBroken ==
  ASSUME TypeOK, Broken, NEW r \in Room, NEW b \in Bot, NEW n \in 0..Len(up), Out(up, seats, r, b, n)
  PROVE  /\ up' = up => Out(up', seats', r, b, n)
         /\ up' = <<>> => Out(up', seats', r, b, 0)
<1>1. <<r, b>> \notin seats' BY DEF Broken
<1>2. up' = up => Out(up', seats', r, b, n) BY <1>1 DEF Out
<1>3. \A i \in 1..0 : FALSE OBVIOUS
<1>4. Out(up', seats', r, b, 0) BY <1>1, <1>3 DEF Out
<1> QED BY <1>2, <1>4

LEMMA OutStays ==
  ASSUME TypeOK, Step, NEW r \in Room, NEW b \in Bot, Out(up, seats, r, b, Len(up)), ~Connected(r, b)
  PROVE  Out(up', seats', r, b, Len(up'))
<1>1. Len(up) \in Nat /\ Len(up) \in 0..Len(up) BY DEF TypeOK
<1>2. CASE UNCHANGED <<up, seats, joined>> BY <1>2 DEF Out
<1>3. CASE ByServer
  <2>1. Len(up) \in 1..Len(up) /\ Len(up') = Len(up) - 1 BY <1>3 DEF ByServer, Handled, Popped
  <2> QED BY <1>3, <2>1, OutServed
<1>4. CASE \E op, q, c : SentUp(op, q, c) /\ ~(op = "join" /\ q = r /\ c = b)
  BY <1>1, <1>4, OutSent
<1>5. CASE Broken
  <2>1. up' = up \/ up' = <<>> BY <1>5 DEF Broken
  <2> QED BY <1>1, <1>5, <2>1, OutBroken, NothingThere
<1> QED BY <1>2, <1>3, <1>4, <1>5, UpDoes

LEMMA DepartedStep ==
  ASSUME TypeOK, TypeOK', Tokens, Rooted, Here, Departed, Together, Known, Step
  PROVE  Departed'
<1> SUFFICES ASSUME NEW b \in Bot, NEW r, r = core'[b].room, core'[b].state = "destroyed"
             PROVE  /\ core'[b].value # None => Out(up', seats', r, b, Len(up'))
                    /\ core'[b].value = None => r \in again' \/ ~Seating(r, b)'
  BY DEF Departed, Seating
<1>1. core[b].state # "none" /\ r = core[b].room /\ r \in Room
  <2>1. core[b].state # "none"
    <3>1. \A q \in Room : ~Connected(q, b)
      <4> SUFFICES ASSUME NEW q \in Room, Connected(q, b) PROVE FALSE OBVIOUS
      <4>1. core'[b].state = "live" BY DEF Connected
      <4> QED BY <4>1
    <3> QED BY <3>1, CoreFrom
  <2> QED BY <2>1, CoreLasts, CoreParts DEF Lasting, Rooted
<1>6. \A q \in Room : ~Connected(q, b)
  <2> SUFFICES ASSUME NEW q \in Room, Connected(q, b) PROVE FALSE OBVIOUS
  <2>1. core'[b].state = "live" BY DEF Connected
  <2> QED BY <2>1
<1>2. ~Connected(r, b) BY <1>1, <1>6
<1>3. r \in again => r \in again' BY AgainGrows
<1>4. ~Seating(r, b) => ~Seating(r, b)' BY <1>1, <1>2, SeatingFrom
<1>5. CASE core[b].state = "destroyed"
  <2>1. CASE core[b].value = None
    <3>1. r \in again \/ ~Seating(r, b) BY <1>1, <1>5, <2>1 DEF Departed
    <3>2. core'[b].value = None
      <4>1. Fed(b) = None BY <1>5, <2>1 DEF Fed, Live
      <4>2. LetGo(b) => core'[b].value = core[b].value BY DEF LetGo
      <4>3. \A g \in Guest : ~Listed(b, g) BY <2>1 DEF Listed
      <4>4. \A state : Taken(b, state) => core'[b].value = Fed(b) BY DEF Taken
      <4>5. CoreDoes(b) BY CoreChanges
      <4> QED BY <1>6, <2>1, <4>1, <4>2, <4>3, <4>4, <4>5 DEF CoreDoes
    <3> QED BY <1>1, <1>3, <1>4, <3>1, <3>2
  <2>2. CASE core[b].value # None
    <3>1. Out(up, seats, r, b, Len(up)) BY <1>1, <1>5, <2>2 DEF Departed
    <3>2. Out(up', seats', r, b, Len(up')) BY <1>1, <1>2, <3>1, OutStays
    <3>3. core'[b].value # None BY <1>6, <2>2, ValueLasts
    <3> QED BY <1>1, <3>2, <3>3
  <2> QED BY <2>1, <2>2
<1>7. CASE core[b].state = "live"
  <2>1. \/ ByEvent /\ Taken(b, "destroyed") /\ KickedOut(b)
        \/ BySlow /\ LetGo(b)
    <3>1. Taken(b, core[b].state) => core'[b].state = "live" BY <1>7 DEF Taken
    <3>2. \A g \in Guest : Listed(b, g) => core'[b].state = "live" BY <1>7, ListedValue
    <3>3. CoreDoes(b) BY CoreChanges
    <3> QED BY <1>6, <1>7, <3>1, <3>2, <3>3 DEF CoreDoes
  <2>2. CASE ByEvent /\ Taken(b, "destroyed") /\ KickedOut(b)
    <3>1. PICK q \in Room : GotKicked(q) /\ rooms[q] = b BY <2>2 DEF KickedOut
    <3>2. rooms[q] # None /\ Goes(b, Fed(b)) /\ core'[b].value = Fed(b)
      BY <2>2, <3>1, NoneDistinct DEF GotKicked, Taken
    <3>3. q = r BY <1>1, <3>1, <3>2 DEF Rooted
    <3>4. CASE Fed(b) # None
      <4>1. Fed(b).room = r BY <1>1, <2>2, <3>4, FedHere DEF ByEvent
      <4>2. UNCHANGED <<seats, joined>> BY <2>2 DEF ByEvent, Received, server
      <4>3. SentUp("leave", r, b) BY <3>2, <3>4, <4>1, <4>2 DEF Goes, SentUp
      <4> QED BY <1>1, <3>2, <3>4, <4>3, LeavesLast
    <3>5. CASE Fed(b) = None
      <4>1. b \in Live BY <1>7 DEF Live
      <4>2. core[b].value = None /\ down[1].data = None BY <3>5, <4>1 DEF Fed
      <4>3. 1 \in 1..Len(down) /\ KickedAt(1, r)
        BY <2>2, <3>1, <3>3 DEF ByEvent, Received, Popped, GotKicked, KickedAt
      <4>4. r \in again \/ ~Seating(r, b) BY <1>1, <1>7, <4>2, <4>3 DEF Known
      <4> QED BY <1>1, <1>3, <1>4, <3>2, <3>5, <4>4
    <3> QED BY <3>4, <3>5
  <2>3. CASE BySlow /\ LetGo(b)
    <3>1. slow[1].kind = "leave" /\ 1 \in 1..Len(slow) /\ b \in Live
      BY <1>7, <2>3, LetGoStarted DEF BySlow, LetGo, Live
    <3>2. core[b].value # None BY <3>1 DEF Together
    <3>3. core[b].value.room = r /\ core'[b].value = core[b].value BY <2>3, <3>2 DEF Rooted, LetGo
    <3>4. UNCHANGED <<seats, joined>> BY <2>3 DEF BySlow, Ticked, server
    <3>5. SentUp("leave", r, b) BY <2>3, <3>2, <3>3, <3>4 DEF LetGo, Goes, SentUp
    <3> QED BY <1>1, <3>2, <3>3, <3>5, LeavesLast
  <2> QED BY <2>1, <2>2, <2>3
<1> QED BY <1>1, <1>5, <1>7, CoreParts

(* What people and updates make of the invites is what the room wants. *)
LEMMA InvitesAllowed ==
  ASSUME TypeOK, Owned, Step, NEW r \in Room
  PROVE  Allowed(r, invites'[r])
<1>1. Allowed(r, invites[r]) BY DEF Owned
<1>2. CASE invites' = invites BY <1>1, <1>2
<1>3. CASE ByPeople BY <1>1, <1>3 DEF ByPeople, Invitations
<1>4. CASE ByServer
  <2>1. CASE Updated(up[1])
    <3>1. 1 \in 1..Len(up) BY <1>4 DEF ByServer, Handled, Popped
    <3>2. /\ up[1].op = "update" /\ <<up[1].room, up[1].bot>> \in seats
          /\ invites' = [invites EXCEPT ![up[1].room] = up[1].invites]
      BY <2>1 DEF Updated
    <3>3. ~Out(up, seats, up[1].room, up[1].bot, 1 - 1) BY <3>2 DEF Out
    <3>4. Allowed(up[1].room, up[1].invites) BY <3>1, <3>2, <3>3 DEF Owned
    <3>5. r = up[1].room => invites'[r] = up[1].invites BY <3>2 DEF TypeOK
    <3>6. r # up[1].room => invites'[r] = invites[r] BY <3>2 DEF TypeOK
    <3> QED BY <1>1, <3>4, <3>5, <3>6
  <2> QED BY <1>2, <1>4, <2>1 DEF ByServer, Admitted, Left, Refused
<1> QED BY <1>2, <1>3, <1>4
        DEF Step, ByEvent, Received, BySlow, Ticked, ByQuick, Connected, ByAnswer, AskedBy, Broken, server

(* What was said is said in the meeting whose data comes with it. *)
Saying(e) ==
  \A how \in {"text", "voice"}, what \in Guest \cup {"leave"} :
    e.note = <<how, what>> => e.data # None /\ what \in Wanted[e.data.room] \cup {"leave"}

LEMMA SayingStep ==
  ASSUME TypeOK, TypeOK', Owned, Step, NEW i \in 1..Len(down')
  PROVE  Saying(down'[i])
<1>1. \A k \in 1..Len(down) : Saying(down[k]) BY DEF Owned, Saying
<1>2. ASSUME NEW r, NEW note, Posted(r, note), note = <<>> \/ note[1] \in {"invited", "kicked"}
      PROVE  Saying(down'[i])
  <2>1. CASE i \in 1..Len(down) BY <1>1, <1>2, <2>1 DEF Posted
  <2>2. CASE i \notin 1..Len(down)
    <3>1. i = Len(down) + 1 BY <1>2, <2>2 DEF Posted
    <3>2. down'[i].note = note BY <1>2, <3>1 DEF Posted
    <3>3. ASSUME NEW how \in {"text", "voice"}, NEW what PROVE note # <<how, what>>
      <4>1. <<how, what>> # <<>> /\ <<how, what>>[1] = how OBVIOUS
      <4> QED BY <1>2, <4>1
    <3> QED BY <3>2, <3>3 DEF Saying
  <2> QED BY <2>1, <2>2
<1>3. ASSUME NEW r \in Room, NEW note \in Note, Talked(r, note) PROVE Saying(down'[i])
  <2>1. CASE note = <<>> BY <1>2, <1>3, <2>1 DEF Talked
  <2>2. CASE note # <<>>
    <3>1. PICK how \in {"text", "voice"}, what \in Wanted[r] \cup {"leave"} :
            note = <<how, what>> /\ r \in joined
      BY <1>3, <2>2 DEF Talked
    <3>2. Posted(r, note) /\ joined' = joined BY <1>3 DEF Talked, Persist
    <3>3. CASE i \in 1..Len(down) BY <1>1, <3>2, <3>3 DEF Posted
    <3>4. CASE i \notin 1..Len(down)
      <4>1. i = Len(down) + 1 BY <3>2, <3>4 DEF Posted
      <4>2. down'[i].note = note /\ down'[i].data = [room |-> r, invites |-> invites'[r]]
        BY <3>1, <3>2, <4>1 DEF Posted
      <4>3. down'[i].data # None /\ down'[i].data.room = r
        <5>1. invites'[r] \in SUBSET Ids BY DEF TypeOK
        <5>2. [room |-> r, invites |-> invites'[r]] \in View BY <5>1 DEF View
        <5> QED BY <4>2, <5>2, NoneDistinct
      <4>4. ASSUME NEW h \in {"text", "voice"}, NEW w, note = <<h, w>> PROVE w = what
        BY <3>1, <4>4
      <4> QED BY <4>2, <4>3, <4>4 DEF Saying
    <3> QED BY <3>3, <3>4
  <2> QED BY <2>1, <2>2
<1>4. CASE ByPeople
  <2>1. ASSUME NEW r \in Room, NEW b \in Bot, InvitedBot(r, b) PROVE Saying(down'[i])
    <3>1. <<"invited", r, b>>[1] = "invited" OBVIOUS
    <3> QED BY <1>2, <2>1, <3>1 DEF InvitedBot
  <2>2. ASSUME NEW r \in Room, NEW b \in Bot, KickedBot(r, b) PROVE Saying(down'[i])
    <3>1. <<"kicked", r>>[1] = "kicked" OBVIOUS
    <3> QED BY <1>2, <2>2, <3>1 DEF KickedBot
  <2> QED BY <1>3, <1>4, <2>1, <2>2 DEF ByPeople
<1>5. CASE down' = down BY <1>1, <1>5
<1>6. CASE ByServer BY <1>2, <1>5, <1>6 DEF ByServer, Admitted, Left, Updated, Refused
<1>7. CASE ByEvent BY <1>1, <1>7 DEF ByEvent, Received, Popped
<1>8. CASE Broken
  <2>1. down'[i].note = <<>> BY <1>8 DEF Broken
  <2>2. \A how, what : <<>> # <<how, what>> OBVIOUS
  <2> QED BY <2>1, <2>2 DEF Saying
<1> QED BY <1>4, <1>5, <1>6, <1>7, <1>8 DEF Step, BySlow, Ticked, ByQuick, Connected, ByAnswer, AskedBy

LEMMA OwnedStep ==
  ASSUME TypeOK, TypeOK', Tokens, Rooted, Here, Owned, Departed, Step
  PROVE  Owned'
<1>1. \A r \in Room : Allowed(r, invites'[r]) BY InvitesAllowed
<1>2. ASSUME NEW i \in 1..Len(down'), down'[i].data # None
      PROVE  Allowed(down'[i].data.room, down'[i].data.invites)
  <2>1. CASE \E k \in 1..Len(down) : down'[i] = down[k] BY <1>2, <2>1 DEF Owned
  <2>2. CASE /\ down'[i].data.room \in joined'
             /\ down'[i].data.invites = invites'[down'[i].data.room]
    <3>1. down'[i].data.room \in Room BY <2>2 DEF TypeOK
    <3> QED BY <1>1, <2>2, <3>1
  <2> QED BY <1>2, <2>1, <2>2, DataFrom
<1>3. ASSUME NEW b \in Live', core'[b].value # None PROVE Allowed(core'[b].room, core'[b].value.invites)
  <2>1. b \in Bot /\ core'[b].state = "live" BY DEF Live
  <2>2. \A r \in Room : ~Connected(r, b) BY <1>3 DEF Connected
  <2>3. core[b].state = "live" /\ core'[b].room = core[b].room /\ b \in Live
    BY <2>1, <2>2, LiveFrom DEF Live
  <2>4. core[b].value # None => Allowed(core[b].room, core[b].value.invites) BY <2>3 DEF Owned
  <2>5. ASSUME NEW state, ByEvent, Taken(b, state)
        PROVE  Allowed(core'[b].room, core'[b].value.invites)
    <3>1. core'[b].value = Fed(b) BY <2>5 DEF Taken
    <3>2. CASE down[1].data # None
      <4>1. Fed(b) = down[1].data BY <2>3, <3>2 DEF Fed
      <4>2. 1 \in 1..Len(down) BY <2>5 DEF ByEvent, Received, Popped
      <4>3. Allowed(down[1].data.room, down[1].data.invites) BY <3>2, <4>2 DEF Owned
      <4>4. down[1].data.room = core[b].room BY <2>3, <3>2, <4>2 DEF Here
      <4> QED BY <2>3, <3>1, <4>1, <4>3, <4>4
    <3>3. CASE down[1].data = None BY <1>3, <2>3, <2>4, <3>1, <3>3 DEF Fed
    <3> QED BY <3>2, <3>3
  <2>6. ASSUME NEW g \in Guest, AskedBy(b, g), Listed(b, g)
        PROVE  Allowed(core'[b].room, core'[b].value.invites)
    <3>1. core[b].value # None BY <2>6 DEF Listed
    <3>2. core'[b].value.invites = core[b].value.invites \cup {g} BY <2>1, <2>6, ListedValue
    <3>3. g \in Wanted[core[b].room] BY <2>3, <2>6 DEF Owned, AskedBy
    <3> QED BY <2>3, <2>4, <3>1, <3>2, <3>3 DEF Allowed
  <2>7. LetGo(b) => core'[b].state = "destroyed" BY DEF LetGo
  <2>8. core'[b] = core[b] => Allowed(core'[b].room, core'[b].value.invites) BY <1>3, <2>4
  <2>9. CoreDoes(b) BY <2>1, CoreChanges
  <2> QED BY <2>1, <2>2, <2>5, <2>6, <2>7, <2>8, <2>9 DEF CoreDoes
<1>4. ASSUME NEW b \in Live', NEW g \in Guest, <<b, g>> \in asking' PROVE g \in Wanted[core'[b].room]
  <2>1. b \in Bot /\ core'[b].state = "live" BY DEF Live
  <2>2. CASE <<b, g>> \in asking
    <3>1. <<b, g>>[1] = b OBVIOUS
    <3>2. core[b].state # "none" BY <2>2, <3>1 DEF Rooted
    <3>3. \A r \in Room : ~Connected(r, b) BY <2>1, <3>2, ConnectsNew
    <3>4. core'[b].room = core[b].room /\ b \in Live BY <2>1, <3>3, LiveFrom DEF Live
    <3> QED BY <2>2, <3>4 DEF Owned
  <2>3. CASE <<b, g>> \notin asking
    <3>1. asking' = asking \/ asking' \subseteq asking
          \/ \E how \in {"text", "voice"}, what \in Guest : ByEvent /\ GotGuest(how, what)
      BY DEF Step, ByPeople, Talked, InvitedBot, KickedBot, Persist, ByServer, Handled, ByEvent, Got,
             GotInvited, GotKicked, GotLeave, GotNothing, BySlow, Ticked, ByQuick, Connected,
             ByAnswer, AskedBy, Broken, assistant
    <3>2. PICK how \in {"text", "voice"}, what \in Guest : ByEvent /\ GotGuest(how, what)
      BY <1>4, <2>3, <3>1
    <3>3. /\ asking' = asking \cup (Hearing(how) \X {what}) /\ what # "leave"
          /\ down[1].note = <<how, what>>
      BY <3>2 DEF GotGuest
    <3>4. what = g BY <1>4, <2>3, <3>3
    <3>5. 1 \in 1..Len(down) BY <3>2 DEF ByEvent, Received, Popped
    <3>6. down[1].data # None /\ g \in Wanted[down[1].data.room]
      BY <3>3, <3>4, <3>5 DEF Owned
    <3>7. \A r \in Room : ~Connected(r, b)
      <4>1. down' # down BY <3>2 DEF ByEvent, Received, Popped
      <4> QED BY <4>1 DEF Connected
    <3>8. core'[b].room = core[b].room /\ b \in Live BY <2>1, <3>7, LiveFrom DEF Live
    <3>9. down[1].data.room = core[b].room BY <3>5, <3>6, <3>8 DEF Here
    <3> QED BY <3>6, <3>8, <3>9
  <2> QED BY <2>2, <2>3
<1>5. ASSUME NEW i \in 1..Len(up'), up'[i].op = "update"
      PROVE  Allowed(up'[i].room, up'[i].invites) \/ Out(up', seats', up'[i].room, up'[i].bot, i - 1)
  <2>1. ASSUME NEW k \in 1..Len(up), up[k].op = "update"
        PROVE  /\ Allowed(up[k].room, up[k].invites) \/ Out(up, seats, up[k].room, up[k].bot, k - 1)
               /\ up[k].room \in Room /\ up[k].bot \in Bot /\ k - 1 \in 0..Len(up)
    BY <2>1, RequestAt DEF Owned, TypeOK
  <2>2. CASE UNCHANGED <<up, seats, joined>> BY <1>5, <2>1, <2>2
  <2>3. CASE ByServer
    <3>1. i + 1 \in 1..Len(up) /\ up'[i] = up[i + 1] /\ (i + 1) - 1 = i /\ i \in 1..Len(up)
      BY <2>3 DEF ByServer, Handled, Popped
    <3>2. Allowed(up'[i].room, up'[i].invites) \/ Out(up, seats, up'[i].room, up'[i].bot, i)
      BY <1>5, <2>1, <3>1
    <3>3. up'[i].room \in Room /\ up'[i].bot \in Bot BY RequestAt DEF TypeOK
    <3> QED BY <2>3, <3>1, <3>2, <3>3, OutServed
  <2>4. ASSUME NEW op, NEW r, NEW b, SentUp(op, r, b), i \in 1..Len(up)
        PROVE  Allowed(up'[i].room, up'[i].invites) \/ Out(up', seats', up'[i].room, up'[i].bot, i - 1)
    <3>1. up'[i] = up[i] BY <2>4 DEF SentUp, Pushed
    <3> QED BY <1>5, <2>1, <2>4, <3>1, OutSent
  <2>5. ASSUME NEW op, NEW r, NEW b, SentUp(op, r, b), i \notin 1..Len(up)
        PROVE  op = "update" /\ up'[i].room = r /\ up'[i].bot = b /\ i = Len(up) + 1
    <3>1. i = Len(up) + 1 BY <2>5 DEF SentUp, Pushed
    <3>2. up'[i].op = op /\ up'[i].room = r /\ up'[i].bot = b BY <2>5, <3>1 DEF SentUp, Pushed
    <3> QED BY <1>5, <3>1, <3>2
  <2>6. ASSUME NEW b \in Bot, NEW g \in Guest, AskedBy(b, g), Listed(b, g),
               SentUp("update", core[b].room, b), i \notin 1..Len(up)
        PROVE  Allowed(up'[i].room, up'[i].invites) \/ Out(up', seats', up'[i].room, up'[i].bot, i - 1)
    <3> DEFINE list == core[b].value.invites \cup {g}
    <3>1. i = Len(up) + 1 /\ up'[i].room = core[b].room /\ up'[i].bot = b BY <2>5, <2>6
    <3>2. up'[Len(up) + 1] = [op |-> "update", room |-> core[b].room, bot |-> b, invites |-> list]
          /\ core[b].value # None
      BY <2>6 DEF Listed, Pushed
    <3>3. up'[i].invites = list BY <3>1, <3>2
    <3>4. <<b, g>> \in asking /\ <<b, g>>[1] = b BY <2>6 DEF AskedBy
    <3>5. core[b].state # "none" BY <3>4 DEF Rooted
    <3>6. CASE core[b].state = "live"
      <4>1. b \in Live BY <3>6 DEF Live
      <4>2. Allowed(core[b].room, core[b].value.invites) /\ g \in Wanted[core[b].room]
        BY <3>2, <3>4, <4>1 DEF Owned
      <4> QED BY <3>1, <3>3, <4>2 DEF Allowed
    <3>7. CASE core[b].state = "destroyed"
      <4>1. Out(up, seats, core[b].room, b, Len(up)) BY <3>2, <3>7 DEF Departed
      <4>2. core[b].room \in Room BY <3>5, CoreParts DEF Rooted
      <4>3. Len(up) \in 0..Len(up) /\ i - 1 = Len(up) BY <3>1 DEF TypeOK
      <4>4. Out(up', seats', core[b].room, b, Len(up)) BY <2>6, <4>1, <4>2, <4>3, OutSent
      <4> QED BY <3>1, <4>3, <4>4
    <3> QED BY <3>5, <3>6, <3>7, CoreParts
  <2>7. CASE Broken
    <3>1. up' = up BY <2>7, NothingThere DEF Broken
    <3> QED BY <1>5, <2>1, <2>7, <3>1, OutBroken
  <2>8. CASE i \in 1..Len(up) BY <2>2, <2>3, <2>4, <2>7, <2>8, UpDoes
  <2>9. CASE i \notin 1..Len(up)
    <3>1. \A r, b : ~SentUp("leave", r, b) /\ ~SentUp("join", r, b) BY <2>5, <2>9
    <3> QED BY <2>2, <2>3, <2>6, <2>7, <2>9, <3>1, UpDoes
  <2> QED BY <2>8, <2>9
<1>6. \A i \in 1..Len(down') : Saying(down'[i]) BY SayingStep
<1> QED BY <1>1, <1>2, <1>3, <1>4, <1>5, <1>6 DEF Owned, Saying

LEMMA SeatingHas ==
  ASSUME Rooted, NEW r \in Room, NEW b \in Bot, Seating(r, b)
  PROVE  core[b].state # "none" /\ core[b].room = r
BY DEF Seating, Rooted, Asks

LEMMA SeatingHasNone ==
  ASSUME TypeOK, Tokens, Rooted, NEW q \in Room, NEW b \in Bot, Connected(q, b), NEW r \in Room
  PROVE  ~Seating(r, b)
BY SeatingHas, ConnectsNew

LEMMA RoomsFrom ==
  ASSUME TypeOK, Step
  PROVE  rooms' = rooms \/ (\E q \in Room : ByEvent /\ GotKicked(q))
         \/ \E q \in Room, c \in Bot : Connected(q, c)
BY DEF Step, ByPeople, Talked, InvitedBot, KickedBot, Persist, ByServer, Handled, ByEvent, Got,
       GotInvited, GotGuest, GotLeave, GotNothing, BySlow, Ticked, ByQuick,
       ByAnswer, AskedBy, Broken, assistant

LEMMA KickedFrom ==
  ASSUME TypeOK, Step, NEW r \in Room, NEW b \in Bot, <<r, b>> \in kicked'
  PROVE  ~Broken /\ (<<r, b>> \in kicked \/ KickedBot(r, b))
<1>1. ASSUME NEW q \in Room, NEW c \in Bot, KickedBot(q, c), <<r, b>> \notin kicked PROVE KickedBot(r, b)
  <2>1. <<r, b>> = <<q, c>> BY <1>1 DEF KickedBot
  <2>2. r = q /\ b = c BY <2>1
  <2> QED BY <1>1, <2>2
<1>2. ~Broken BY DEF Broken
<1>3. CASE ByPeople
  <2>1. kicked' = kicked \/ \E q \in Room, c \in Bot : KickedBot(q, c)
    BY <1>3 DEF ByPeople, Talked, InvitedBot
  <2> QED BY <1>1, <1>2, <2>1
<1>4. CASE ByServer BY <1>2, <1>4 DEF ByServer, Handled
<1>5. CASE kicked' = kicked BY <1>2, <1>5
<1>6. \/ ByPeople \/ ByServer \/ kicked' = kicked
  BY <1>2 DEF Step, ByEvent, Received, BySlow, Ticked, ByQuick, Connected, ByAnswer, AskedBy, history
<1> QED BY <1>3, <1>4, <1>5, <1>6

(* The queue of events moves by one where one is received. *)
DownShifts(k) ==
  /\ k \in {0, 1}
  /\ \A i \in 1..Len(down') : \/ i + k \in 1..Len(down) /\ down'[i] = down[i + k]
                              \/ ByPeople /\ i = Len(down) + 1 /\ Len(down') = i
                              \/ down'[i].note = <<>>
  /\ \A j \in 1..Len(down) : j > k => j - k \in 1..Len(down') /\ down'[j - k] = down[j]
  /\ k = 1 => ByEvent

LEMMA DownShift ==
  ASSUME TypeOK, Step, ~Broken
  PROVE  \E k : DownShifts(k)
<1>1. CASE ByEvent
  <2>1. Popped(down, down', Event) BY <1>1 DEF ByEvent, Received
  <2>2. DownShifts(1) BY <1>1, <2>1 DEF Popped, DownShifts
  <2> QED BY <2>2
<1>2. ASSUME NEW r, NEW note, Posted(r, note), ByPeople \/ note = <<>>
      PROVE  DownShifts(0)
  <2>1. \A j \in 1..Len(down) : j - 0 \in 1..Len(down') /\ down'[j - 0] = down[j]
    BY <1>2 DEF Posted
  <2>2. ASSUME NEW i \in 1..Len(down')
        PROVE  \/ i + 0 \in 1..Len(down) /\ down'[i] = down[i + 0]
               \/ ByPeople /\ i = Len(down) + 1 /\ Len(down') = i
               \/ down'[i].note = <<>>
    <3>1. CASE i \in 1..Len(down) BY <1>2, <3>1 DEF Posted
    <3>2. CASE i \notin 1..Len(down)
      <4>1. i = Len(down) + 1 /\ Len(down') = i BY <1>2, <3>2 DEF Posted
      <4>2. down'[i].note = note BY <1>2, <4>1 DEF Posted
      <4> QED BY <1>2, <4>1, <4>2
    <3> QED BY <3>1, <3>2
  <2> QED BY <2>1, <2>2 DEF DownShifts
<1>3. CASE down' = down
  <2>1. \A i \in 1..Len(down) : i + 0 = i /\ i - 0 = i OBVIOUS
  <2>2. DownShifts(0) BY <1>3, <2>1 DEF DownShifts
  <2> QED BY <2>2
<1>4. CASE ByPeople BY <1>2, <1>4 DEF ByPeople, Talked, InvitedBot, KickedBot
<1>5. CASE ByServer BY <1>2, <1>3, <1>5 DEF ByServer, Admitted, Left, Updated, Refused
<1> QED BY <1>1, <1>3, <1>4, <1>5 DEF Step, BySlow, Ticked, ByQuick, Connected, ByAnswer, AskedBy

(* A kick that is new was of a bot with a seat. *)
LEMMA KickNew ==
  ASSUME TypeOK, ByPeople, NEW r \in Room, NEW i, i = Len(down) + 1, KickedAt(i, r)'
  PROVE  \E c \in Bot : KickedBot(r, c)
<1>1. ASSUME NEW q, NEW note, Posted(q, note) PROVE note = <<"kicked", r>>
  BY <1>1 DEF Posted, KickedAt
<1>2. ASSUME NEW q \in Room, NEW note \in Note, Talked(q, note) PROVE FALSE
  <2>1. note = <<"kicked", r>> BY <1>1, <1>2 DEF Talked
  <2>2. <<"kicked", r>> # <<>> /\ <<"kicked", r>>[1] = "kicked" OBVIOUS
  <2>3. \A how \in {"text", "voice"} : \A what : <<how, what>>[1] # "kicked" OBVIOUS
  <2> QED BY <1>2, <2>1, <2>2, <2>3 DEF Talked
<1>3. ASSUME NEW q \in Room, NEW c \in Bot, InvitedBot(q, c) PROVE FALSE
  <2>1. <<"invited", q, c>> = <<"kicked", r>> BY <1>1, <1>3 DEF InvitedBot
  <2>2. <<"invited", q, c>>[1] = "invited" /\ <<"kicked", r>>[1] = "kicked" OBVIOUS
  <2> QED BY <2>1, <2>2
<1>4. ASSUME NEW q \in Room, NEW c \in Bot, KickedBot(q, c) PROVE q = r
  <2>1. <<"kicked", q>> = <<"kicked", r>> BY <1>1, <1>4 DEF KickedBot
  <2> QED BY <2>1
<1> QED BY <1>2, <1>3, <1>4 DEF ByPeople

(* The event that is received while a kick comes first is that kick. *)
LEMMA KickGot ==
  ASSUME TypeOK, ByEvent, NEW r \in Room, KickedAt(1, r)
  PROVE  GotKicked(r)
<1>1. down[1].note = <<"kicked", r>> BY DEF KickedAt
<1>2. <<"kicked", r>> # <<>> /\ <<"kicked", r>>[1] = "kicked" OBVIOUS
<1>3. \A q, b : <<"invited", q, b>>[1] = "invited" OBVIOUS
<1>4. \A how, what : <<how, what>>[1] = how OBVIOUS
<1>5. \A q : <<"kicked", q>> = <<"kicked", r>> => q = r OBVIOUS
<1>6. PICK q \in Room : GotKicked(q)
  BY <1>1, <1>2, <1>3, <1>4 DEF ByEvent, Got, GotInvited, GotLeave, GotGuest, GotNothing
<1>7. q = r BY <1>1, <1>5, <1>6 DEF GotKicked
<1> QED BY <1>6, <1>7

(* A bot in the table that is kicked is destroyed. *)
LEMMA KickDestroys ==
  ASSUME TypeOK, NEW q \in Room, GotKicked(q), NEW b \in Bot, rooms[q] = b
  PROVE  core'[b].state = "destroyed"
<1>1. rooms[q] # None BY NoneDistinct
<1>2. Taken(b, "destroyed") BY <1>1 DEF GotKicked
<1> QED BY <1>2 DEF Taken

LEMMA KnownStep ==
  ASSUME TypeOK, TypeOK', Tokens, Rooted, OneComing, Together, Known, Listening, Step
  PROVE  Known'
<1> SUFFICES ASSUME NEW r \in Room, r \notin again', NEW b \in Bot
             PROVE  /\ core'[b].state = "live" /\ Seating(r, b)' => rooms'[r] = b
                    /\ \A i \in 1..Len(down') : KickedAt(i, r)' =>
                         /\ Early(r, b)' => \E j \in 1..Len(down') : j > i /\ InvitedAt(j, r, b)'
                         /\ core'[b].state = "live" /\ core'[b].value = None /\ Seating(r, b)' =>
                              down'[i].data # None
                    /\ <<r, b>> \in kicked' =>
                         core'[b].state = "destroyed" \/ \E i \in 1..Len(down') : KickedAt(i, r)'
  BY DEF Known
<1>1. r \in Room \ again BY AgainGrows
(* One that is live and seated or about to be: it just connected, or was so before. *)
<1>2. ASSUME core'[b].state = "live", Seating(r, b)'
      PROVE  Connected(r, b) \/ (core[b].state = "live" /\ Seating(r, b) /\ \A q \in Room : ~Connected(q, b))
  <2>1. Seating(r, b) \/ Connected(r, b) BY <1>2, SeatingFrom
  <2>2. Seating(r, b) => \A q \in Room : ~Connected(q, b) BY SeatingHasNone
  <2> QED BY <1>2, <2>1, <2>2, LiveFrom
<1>3. ASSUME core'[b].state = "live", Seating(r, b)' PROVE rooms'[r] = b
  <2>1. CASE Connected(r, b) BY <2>1 DEF Connected, TypeOK
  <2>2. CASE core[b].state = "live" /\ Seating(r, b)
    <3>1. rooms[r] = b BY <1>1, <2>2 DEF Known
    <3>2. ASSUME NEW q \in Room, GotKicked(q) PROVE rooms'[r] = b
      <4>1. q # r BY <1>3, <3>1, <3>2, KickDestroys
      <4>2. rooms' = [rooms EXCEPT ![q] = None] BY <3>2 DEF GotKicked
      <4> QED BY <3>1, <4>1, <4>2 DEF TypeOK
    <3>3. ASSUME NEW q \in Room, NEW c \in Bot, Connected(q, c) PROVE rooms'[r] = b
      <4>1. rooms' = [rooms EXCEPT ![q] = c] BY <3>3 DEF Connected
      <4>2. Early(q, c) BY <3>3, ConnectsNew
      <4>3. q = r => c = b BY <1>1, <2>2, <4>2 DEF OneComing
      <4> QED BY <3>1, <4>1, <4>3 DEF TypeOK
    <3> QED BY <3>1, <3>2, <3>3, RoomsFrom
  <2> QED BY <1>2, <1>3, <2>1, <2>2
<1>4. ASSUME NEW i \in 1..Len(down'), KickedAt(i, r)'
      PROVE  /\ Early(r, b)' => \E j \in 1..Len(down') : j > i /\ InvitedAt(j, r, b)'
             /\ core'[b].state = "live" /\ core'[b].value = None /\ Seating(r, b)' => down'[i].data # None
  <2>1. down'[i].note = <<"kicked", r>> /\ <<"kicked", r>> # <<>> BY <1>4 DEF KickedAt
  <2>2. ~Broken
    <3> SUFFICES ASSUME Broken PROVE FALSE OBVIOUS
    <3>1. i = 1 /\ down'[1].note = <<>> BY DEF Broken
    <3> QED BY <2>1, <3>1
  <2>3. PICK k : DownShifts(k) BY <2>2, DownShift
  <2>4. k \in {0, 1} /\ Len(down) \in Nat BY <2>3 DEF DownShifts, TypeOK
  <2>5. CASE i + k \in 1..Len(down) /\ down'[i] = down[i + k]
    <3>1. KickedAt(i + k, r) BY <1>4, <2>5 DEF KickedAt
    <3>2. ASSUME Early(r, b)' PROVE \E j \in 1..Len(down') : j > i /\ InvitedAt(j, r, b)'
      <4>1. CASE Early(r, b)
        <5>1. PICK j \in 1..Len(down) : j > i + k /\ InvitedAt(j, r, b)
          BY <1>1, <2>5, <3>1, <4>1 DEF Known
        <5>2. j > k /\ j - k > i BY <2>4, <5>1
        <5>3. j - k \in 1..Len(down') /\ down'[j - k] = down[j] BY <2>3, <5>1, <5>2 DEF DownShifts
        <5> QED BY <5>1, <5>2, <5>3 DEF InvitedAt
      <4>2. CASE InvitedBot(r, b)
        <5>1. Posted(r, <<"invited", r, b>>) BY <4>2 DEF InvitedBot
        <5>2. ASSUME NEW n, n = Len(down) + 1
              PROVE  n \in 1..Len(down') /\ n > i /\ InvitedAt(n, r, b)'
          BY <2>4, <2>5, <5>1, <5>2 DEF Posted, InvitedAt
        <5> QED BY <5>2
      <4> QED BY <3>2, <4>1, <4>2, EarlyFrom
    <3>3. ASSUME core'[b].state = "live", core'[b].value = None, Seating(r, b)' PROVE down'[i].data # None
      <4>1. CASE Connected(r, b)
        <5>1. Early(r, b) /\ 1 \in 1..Len(quick) /\ JoinAt(1, r, b) BY <4>1, ConnectsNew
        <5>2. PICK j \in 1..Len(down) : InvitedAt(j, r, b) BY <1>1, <2>5, <3>1, <5>1 DEF Known
        <5> QED BY <5>1, <5>2 DEF Tokens
      <4>2. CASE core[b].state = "live" /\ Seating(r, b) /\ \A q \in Room : ~Connected(q, b)
        <5>1. core[b].value = None BY <3>3, <4>2, ValueLasts
        <5>2. down[i + k].data # None BY <1>1, <2>5, <3>1, <4>2, <5>1 DEF Known
        <5> QED BY <2>5, <5>2
      <4> QED BY <1>2, <3>3, <4>1, <4>2
    <3> QED BY <3>2, <3>3
  <2>6. CASE ByPeople /\ i = Len(down) + 1 /\ Len(down') = i
    <3>1. PICK c \in Bot : KickedBot(r, c) BY <1>4, <2>6, KickNew
    <3>2. <<r, c>> \in seats /\ Posted(r, <<"kicked", r>>) /\ Persist BY <3>1 DEF KickedBot
    <3>3. Seating(r, c) BY <3>2 DEF Seating
    <3>4. ASSUME Early(r, b)' PROVE FALSE
      <4>1. ~InvitedBot(r, b)
        <5> SUFFICES ASSUME InvitedBot(r, b) PROVE FALSE OBVIOUS
        <5>1. down'[i].note = <<"invited", r, b>> BY <2>6 DEF InvitedBot, Posted
        <5>2. <<"invited", r, b>>[1] = "invited" /\ <<"kicked", r>>[1] = "kicked" OBVIOUS
        <5> QED BY <2>1, <5>1, <5>2
      <4>2. Early(r, b) BY <3>4, <4>1, EarlyFrom
      <4>3. b = c BY <1>1, <3>3, <4>2 DEF OneComing
      <4>4. core[b].state = "none" BY <4>2 DEF Tokens
      <4> QED BY <3>3, <4>3, <4>4, SeatingHas
    <3>5. ASSUME core'[b].state = "live", core'[b].value = None, Seating(r, b)' PROVE down'[i].data # None
      <4>1. core' = core /\ joined' = joined /\ UNCHANGED <<seats, up>> BY <3>2 DEF Persist, assistant
      <4>2. Seating(r, b) BY <3>5, <4>1 DEF Seating
      <4>3. b = c BY <1>1, <3>3, <4>2 DEF OneComing
      <4>4. ~Dismissed(b)
        <5>1. b \in Live BY <3>5, <4>1 DEF Live
        <5> QED BY <3>5, <4>1, <5>1 DEF Dismissed, Ends, Together
      <4>5. r \in joined BY <1>1, <3>2, <3>5, <4>1, <4>3, <4>4 DEF Listening
      <4>6. down'[i].data = [room |-> r, invites |-> invites'[r]]
        BY <2>6, <3>2, <4>1, <4>5 DEF Posted
      <4>7. [room |-> r, invites |-> invites'[r]] \in View BY DEF View, TypeOK
      <4> QED BY <4>6, <4>7, NoneDistinct
    <3> QED BY <3>4, <3>5
  <2> QED BY <2>1, <2>3, <2>5, <2>6 DEF DownShifts
<1>5. ASSUME <<r, b>> \in kicked'
      PROVE  core'[b].state = "destroyed" \/ \E i \in 1..Len(down') : KickedAt(i, r)'
  <2>1. ~Broken /\ (<<r, b>> \in kicked \/ KickedBot(r, b)) BY <1>5, KickedFrom
  <2>2. PICK k : DownShifts(k) BY <2>1, DownShift
  <2>3. CASE KickedBot(r, b)
    <3>1. Posted(r, <<"kicked", r>>) BY <2>3 DEF KickedBot
    <3>3. ASSUME NEW n, n = Len(down) + 1 PROVE n \in 1..Len(down') /\ KickedAt(n, r)'
      BY <3>1, <3>3 DEF Posted, KickedAt
    <3> QED BY <3>3
  <2>4. CASE <<r, b>> \in kicked
    <3>1. Seating(r, b) BY <2>4 DEF TypeOK, Seating
    <3>2. core[b].state # "none" BY <3>1, SeatingHas
    <3>3. CASE core[b].state = "destroyed" BY <3>2, <3>3, CoreLasts DEF Lasting
    <3>4. CASE core[b].state = "live"
      <4>1. PICK j \in 1..Len(down) : KickedAt(j, r) BY <1>1, <2>4, <3>4 DEF Known
      <4>2. rooms[r] = b BY <1>1, <3>1, <3>4 DEF Known
      <4>3. CASE j > k
        <5>1. j - k \in 1..Len(down') /\ down'[j - k] = down[j] BY <2>2, <4>3 DEF DownShifts
        <5> QED BY <4>1, <5>1 DEF KickedAt
      <4>4. CASE ~(j > k)
        <5>1. j = 1 /\ ByEvent BY <2>2, <4>4 DEF DownShifts
        <5>2. GotKicked(r) BY <4>1, <5>1, KickGot
        <5> QED BY <4>2, <5>2, KickDestroys
      <4> QED BY <4>3, <4>4
    <3> QED BY <3>2, <3>3, <3>4, CoreParts
  <2> QED BY <2>1, <2>3, <2>4
<1> QED BY <1>3, <1>4, <1>5

LEMMA ListeningStep ==
  ASSUME TypeOK, TypeOK', Tokens, Rooted, Here, Together, Known, Listening, Step
  PROVE  Listening'
<1> DEFINE Heard(q, c) ==
      /\ <<q, c>> \in seats' =>
           q \in joined' /\ \A d \in Bot, i \in 1..Len(up') : ~Asks(up'[i], "leave", q, d)
      /\ \A k \in 1..Len(up') : Asks(up'[k], "join", q, c) =>
           \A d \in Bot, i \in 1..Len(up') : i > k => ~Asks(up'[i], "leave", q, d)
<1> SUFFICES ASSUME NEW r \in Room, r \notin again', NEW b \in Bot,
                    core'[b].state = "live", ~Dismissed(b)'
             PROVE  Heard(r, b)
  BY DEF Listening
<1>1. r \in Room \ again BY AgainGrows
<1>2. ASSUME NEW q \in Room, Connected(q, b)
      PROVE  /\ <<r, b>> \notin seats'
             /\ \A k \in 1..Len(up') : Asks(up'[k], "join", r, b) => k = Len(up')
  <2>1. ~Seating(r, b) BY <1>2, SeatingHasNone
  <2>2. seats' = seats /\ Len(up) \in Nat /\ Len(up') = Len(up) + 1
        /\ \A k \in 1..Len(up) : up'[k] = up[k]
    BY <1>2 DEF Connected, server, Pushed
  <2>3. ASSUME NEW k \in 1..Len(up'), Asks(up'[k], "join", r, b) PROVE k = Len(up')
    <3>1. k \notin 1..Len(up) BY <2>1, <2>2, <2>3 DEF Seating
    <3> QED BY <2>2, <3>1
  <2> QED BY <2>1, <2>2, <2>3 DEF Seating
<1>3. CASE \E q \in Room : Connected(q, b)
  <2>1. Len(up') \in Nat BY DEF TypeOK
  <2>2. ASSUME NEW k \in 1..Len(up'), Asks(up'[k], "join", r, b), NEW i \in 1..Len(up') PROVE ~(i > k)
    <3>1. k = Len(up') BY <1>2, <1>3, <2>2
    <3> QED BY <2>1, <3>1
  <2> QED BY <1>2, <1>3, <2>2
<1>4. CASE \A q \in Room : ~Connected(q, b)
  <2>1. core[b].state = "live" /\ core'[b].room = core[b].room BY <1>4, LiveFrom
  <2>2. ~Dismissed(b) BY DismissedLasts
  <2>3. <<r, b>> \in seats =>
          r \in joined /\ \A c \in Bot, i \in 1..Len(up) : ~Asks(up[i], "leave", r, c)
    BY <1>1, <2>1, <2>2 DEF Listening
  <2>4. \A k \in 1..Len(up) : Asks(up[k], "join", r, b) =>
          \A c \in Bot, i \in 1..Len(up) : i > k => ~Asks(up[i], "leave", r, c)
    BY <1>1, <2>1, <2>2 DEF Listening
  <2>5. CASE UNCHANGED <<up, seats, joined>> BY <2>3, <2>4, <2>5
  <2>6. CASE ByServer
    <3>1. Popped(up, up', Request) /\ up[1].room \in Room /\ up[1].bot \in Bot
      BY <2>6 DEF ByServer, Handled, Request
    <3>2. 1 \in 1..Len(up) BY <3>1 DEF Popped
    <3>3. \A i \in 1..Len(up') : i + 1 \in 1..Len(up) /\ up'[i] = up[i + 1] /\ i + 1 > 1
      BY <3>1 DEF Popped
    <3>4. ASSUME NEW k \in 1..Len(up'), Asks(up'[k], "join", r, b), NEW c \in Bot,
                 NEW i \in 1..Len(up'), i > k
          PROVE  ~Asks(up'[i], "leave", r, c)
      <4>1. i + 1 > k + 1 BY <3>4
      <4> QED BY <2>4, <3>3, <3>4, <4>1
    <3>5. ASSUME <<r, b>> \in seats'
          PROVE  r \in joined' /\ \A c \in Bot, i \in 1..Len(up') : ~Asks(up'[i], "leave", r, c)
      <4>1. CASE <<r, b>> \in seats
        <5>1. r \in joined /\ \A c \in Bot, i \in 1..Len(up) : ~Asks(up[i], "leave", r, c)
          BY <2>3, <4>1
        <5>2. r \in joined'
          <6>1. CASE Left(up[1])
            <7>1. up[1].op = "leave" /\ joined' = joined \ {up[1].room} BY <6>1 DEF Left
            <7>2. up[1].room # r BY <3>1, <3>2, <5>1, <7>1 DEF Asks
            <7> QED BY <5>1, <7>1, <7>2
          <6> QED BY <2>6, <5>1, <6>1 DEF ByServer, Admitted, Updated, Refused
        <5> QED BY <3>3, <5>1, <5>2
      <4>2. CASE <<r, b>> \notin seats
        <5>1. Admitted(up[1]) /\ <<r, b>> = <<up[1].room, up[1].bot>>
          BY <2>6, <3>5, <4>2 DEF ByServer, Admitted, Left, Updated, Refused
        <5>2. Asks(up[1], "join", r, b) /\ r \in joined' BY <5>1 DEF Admitted, Asks
        <5>3. \A c \in Bot, i \in 1..Len(up) : i > 1 => ~Asks(up[i], "leave", r, c)
          BY <2>4, <3>2, <5>2
        <5> QED BY <3>3, <5>2, <5>3
      <4> QED BY <4>1, <4>2
    <3> QED BY <3>4, <3>5
  <2>7. ASSUME NEW op, NEW q, NEW a, SentUp(op, q, a),
               op = "leave" /\ q = r => ~Seating(r, b), op = "join" => a # b
        PROVE  Heard(r, b)
    <3>1. /\ Len(up) \in Nat /\ Len(up') = Len(up) + 1 /\ UNCHANGED <<seats, joined>>
          /\ \A i \in 1..Len(up) : up'[i] = up[i]
          /\ up'[Len(up) + 1].op = op /\ up'[Len(up) + 1].room = q /\ up'[Len(up) + 1].bot = a
      BY <2>7 DEF SentUp, Pushed
    <3>2. \A i \in 1..Len(up') : i \in 1..Len(up) \/ i = Len(up) + 1 BY <3>1
    <3>3. Seating(r, b) => \A c \in Bot : ~Asks(up'[Len(up) + 1], "leave", r, c)
      BY <2>7, <3>1 DEF Asks
    <3>4. ~Asks(up'[Len(up) + 1], "join", r, b) BY <2>7, <3>1 DEF Asks
    <3>5. ASSUME <<r, b>> \in seats'
          PROVE  r \in joined' /\ \A c \in Bot, i \in 1..Len(up') : ~Asks(up'[i], "leave", r, c)
      <4>1. Seating(r, b) /\ <<r, b>> \in seats BY <3>1, <3>5 DEF Seating
      <4> QED BY <2>3, <3>1, <3>2, <3>3, <4>1
    <3>6. ASSUME NEW k \in 1..Len(up'), Asks(up'[k], "join", r, b), NEW c \in Bot,
                 NEW i \in 1..Len(up'), i > k
          PROVE  ~Asks(up'[i], "leave", r, c)
      <4>1. k \in 1..Len(up) /\ Asks(up[k], "join", r, b) BY <3>1, <3>2, <3>4, <3>6
      <4>2. Seating(r, b) BY <4>1 DEF Seating
      <4>3. CASE i \in 1..Len(up) BY <2>4, <3>1, <3>6, <4>1, <4>3
      <4>4. CASE i = Len(up) + 1 BY <3>3, <4>2, <4>4
      <4> QED BY <3>2, <4>3, <4>4
    <3> QED BY <3>5, <3>6
  <2>8. ASSUME NEW q \in Room, ByEvent, GotKicked(q), rooms[q] # None, Fed(rooms[q]) # None,
               SentUp("leave", Fed(rooms[q]).room, rooms[q])
        PROVE  Heard(r, b)
    <3>1. PICK c \in Bot : c = rooms[q] BY <2>8 DEF TypeOK
    <3>2. Fed(c).room = core[c].room /\ core[c].room = q
      BY <2>8, <3>1, FedHere DEF ByEvent, Rooted
    <3>3. ASSUME q = r PROVE ~Seating(r, b)
      <4> SUFFICES ASSUME Seating(r, b) PROVE FALSE OBVIOUS
      <4>1. rooms[r] = b BY <1>1, <2>1 DEF Known
      <4>2. core'[b].state = "destroyed" BY <2>8, <3>3, <4>1, KickDestroys
      <4> QED BY <4>2
    <3> QED BY <2>7, <2>8, <3>1, <3>2, <3>3
  <2>9. ASSUME NEW c \in Bot, LetGo(c), BySlow PROVE FALSE
    <3>1. slow[1].kind = "leave" /\ 1 \in 1..Len(slow) BY <2>9 DEF BySlow, Ticked, Popped, LetGo
    <3>2. b \in Live BY <2>1 DEF Live
    <3> QED BY <2>2, <3>1, <3>2 DEF Together
  <2>10. ASSUME NEW q \in Room, NEW c \in Bot, Connected(q, c), SentUp("join", q, c)
         PROVE  Heard(r, b)
    <3>1. c # b BY <1>4, <2>10
    <3> QED BY <2>7, <2>10, <3>1
  <2>11. ASSUME NEW c \in Bot, NEW q, SentUp("update", q, c) PROVE Heard(r, b)
    BY <2>7, <2>11
  <2>12. CASE Broken
    <3>1. seats' = {} /\ (up' = up \/ up' = <<>>) BY <2>12 DEF Broken
    <3> QED BY <2>4, <3>1, NothingThere
  <2> QED BY <2>5, <2>6, <2>8, <2>9, <2>10, <2>11, <2>12, UpDoes
<1> QED BY <1>3, <1>4

(* Nothing is under way at first, no timer is set and there are no cores.   *)
LEMMA Beginning ==
  ASSUME Init
  PROVE  /\ 1..Len(down) = {} /\ 1..Len(up) = {} /\ 1..Len(slow) = {} /\ 1..Len(quick) = {}
         /\ seats = {} /\ asking = {} /\ kicked = {} /\ joined = {}
         /\ \A r \in Room : invites[r] = {} /\ rooms[r] = None
         /\ \A b \in Bot : core[b] = [state |-> "none", room |-> None, value |-> None]
<1>1. \A n \in {Len(down), Len(up), Len(slow), Len(quick)} : n = 0 BY NothingThere DEF Init
<1>2. 1..0 = {} OBVIOUS
<1> QED BY <1>1, <1>2 DEF Init

LEMMA OrderlyAtFirst == ASSUME Init PROVE OneComing /\ Orderly
<1>1. \A r, b : ~Early(r, b) /\ ~Seating(r, b) BY Beginning DEF Early, Seating
<1>2. \A b \in Bot : core[b].state = "none" /\ core[b].value = None BY Beginning
<1>3. Live = {} BY <1>2 DEF Live
<1>4. OneComing BY <1>1 DEF OneComing
<1>5. Tokens BY <1>1, <1>2, Beginning DEF Tokens
<1>6. Rooted BY <1>2, Beginning DEF Rooted
<1>7. Here /\ Together BY <1>3, Beginning DEF Here, Together
<1>8. Owned BY <1>3, Beginning DEF Owned, Allowed
<1>9. Departed /\ Known /\ Listening BY <1>2, Beginning DEF Departed, Known, Listening
<1> QED BY <1>4, <1>5, <1>6, <1>7, <1>8, <1>9 DEF Orderly

LEMMA OrderlyStep == ASSUME AssistantInv, Next PROVE AssistantInv'
<1>1. ~shared /\ TypeOK /\ OneComing /\ Orderly BY DEF AssistantInv, Next
<1>2. TypeOK' BY <1>1, TypeStep DEF Orderly
<1>3. Step BY <1>1, NextDoes DEF Orderly
<1>4. OneComing' BY <1>1, <1>3, OneComingStep DEF Orderly
<1>5. ASSUME ~shared' PROVE Orderly'
  <2>1. Tokens' BY <1>1, <1>2, <1>3, TokensStep DEF Orderly
  <2>2. Rooted' BY <1>1, <1>2, <1>3, RootedStep DEF Orderly
  <2>3. Here' BY <1>1, <1>2, <1>3, <1>5, HereStep DEF Orderly
  <2>4. Owned' BY <1>1, <1>2, <1>3, OwnedStep DEF Orderly
  <2>5. Departed' BY <1>1, <1>2, <1>3, DepartedStep DEF Orderly
  <2>6. Together' BY <1>1, <1>2, <1>3, <1>5, TogetherStep DEF Orderly
  <2>7. Known' BY <1>1, <1>2, <1>3, KnownStep DEF Orderly
  <2>8. Listening' BY <1>1, <1>2, <1>3, ListeningStep DEF Orderly
  <2> QED BY <2>1, <2>2, <2>3, <2>4, <2>5, <2>6, <2>7, <2>8 DEF Orderly
<1> QED BY <1>2, <1>4, <1>5 DEF AssistantInv

LEMMA OrderlyRests == ASSUME AssistantInv, UNCHANGED vars PROVE AssistantInv'
<1>1. /\ UNCHANGED <<present, seats, invites, joined, issued, down, up, drops, shared>>
      /\ UNCHANGED <<roomsValue, slow, quick, rooms, core, asking, again, kicked>>
  BY DEF vars, server, assistant, history
<1>2. TypeOK' BY <1>1 DEF AssistantInv, TypeOK
<1>3. ASSUME NEW r, NEW b PROVE (Early(r, b)' <=> Early(r, b)) /\ (Seating(r, b)' <=> Seating(r, b))
  <2>1. Early(r, b)' <=> Early(r, b) BY <1>1 DEF Early, InvitedAt, LookAt, JoinAt
  <2>2. Seating(r, b)' <=> Seating(r, b) BY <1>1 DEF Seating
  <2> QED BY <2>1, <2>2
<1>4. OneComing' BY <1>1, <1>3 DEF AssistantInv, OneComing
<1>5. ASSUME ~shared' PROVE Orderly'
  <2>1. Orderly BY <1>1, <1>5 DEF AssistantInv
  <2>2. Live' = Live /\ \A b : Dismissed(b)' <=> Dismissed(b) BY <1>1 DEF Live, Dismissed, Ends
  <2>3. Tokens'
    <3>1. ASSUME NEW i, NEW r, NEW b
          PROVE  /\ InvitedAt(i, r, b)' <=> InvitedAt(i, r, b)
                 /\ LookAt(i, r, b)' <=> LookAt(i, r, b)
                 /\ JoinAt(i, r, b)' <=> JoinAt(i, r, b)
      BY <1>1 DEF InvitedAt, LookAt, JoinAt
    <3> QED BY <1>1, <1>3, <2>1, <3>1 DEF Orderly, Tokens
  <2>4. Rooted' BY <1>1, <2>1 DEF Orderly, Rooted
  <2>5. Here' /\ Together' BY <1>1, <2>1, <2>2 DEF Orderly, Here, Together
  <2>6. Owned' BY <1>1, <2>1, <2>2 DEF Orderly, Owned, Out, Asks
  <2>7. Departed' BY <1>1, <1>3, <2>1 DEF Orderly, Departed, Out, Asks
  <2>8. Known'
    <3>1. ASSUME NEW i, NEW r, NEW b
          PROVE  (InvitedAt(i, r, b)' <=> InvitedAt(i, r, b)) /\ (KickedAt(i, r)' <=> KickedAt(i, r))
      BY <1>1 DEF InvitedAt, KickedAt
    <3> QED BY <1>1, <1>3, <2>1, <3>1 DEF Orderly, Known
  <2>9. Listening' BY <1>1, <2>1, <2>2 DEF Orderly, Listening, Asks
  <2> QED BY <2>3, <2>4, <2>5, <2>6, <2>7, <2>8, <2>9 DEF Orderly
<1> QED BY <1>2, <1>4, <1>5 DEF AssistantInv

(* The invariant of the assistant holds in every state: where a bot of each *)
(* room is on its way from the invitation to its seat, and what is still to *)
(* come for a core that was told to leave.                                  *)
THEOREM AssistantKeeps == Spec => []AssistantInv
<1>1. Init => AssistantInv BY TypeInit, OrderlyAtFirst DEF AssistantInv
<1>2. AssistantInv /\ [Next]_vars => AssistantInv' BY OrderlyStep, OrderlyRests
<1> QED BY <1>1, <1>2, PTL DEF Spec

(* The queues, the tables and the sets of the assistant keep their types.   *)
THEOREM AssistantIsTyped == Spec => []TypeOK
<1>1. AssistantInv => TypeOK BY DEF AssistantInv
<1> QED BY <1>1, AssistantKeeps, PTL

(* No room has two bots, unless one was invited while another was on its    *)
(* way, which inviteAssistant does not see.                                 *)
THEOREM OnlyOneBot == Spec => []OneBot
<1>1. ASSUME AssistantInv, NEW r \in Room, r \notin again PROVE Cardinality(BotsIn(r)) <= 1
  <2>1. \A b, c \in BotsIn(r) : b = c BY <1>1 DEF AssistantInv, OneComing, BotsIn, Seating
  <2>2. CASE BotsIn(r) = {} BY <2>2, FS_EmptySet
  <2>3. CASE BotsIn(r) # {}
    <3>1. PICK b : BotsIn(r) = {b} BY <2>1, <2>3
    <3>2. Cardinality({b}) = 1 BY FS_Singleton
    <3> QED BY <3>1, <3>2
  <2> QED BY <2>2, <2>3
<1>2. AssistantInv => OneBot BY <1>1 DEF OneBot
<1> QED BY <1>2, AssistantKeeps, PTL

(* A bot that has a seat and is not told to leave listens to its meeting,   *)
(* as long as the assistant is done with one meeting before the next.       *)
THEOREM SeatedAreListening == Spec => []SeatedListens
<1>1. ASSUME AssistantInv, ~shared, NEW r \in Room, NEW b \in Bot, <<r, b>> \in seats,
             r \notin again, r \notin joined
      PROVE  Leaving(b)
  <2>1. TypeOK /\ Rooted /\ Departed /\ Listening BY <1>1 DEF AssistantInv, Orderly
  <2>2. core[b].state # "none" /\ core[b].room = r BY <1>1, <2>1 DEF Rooted
  <2>3. CASE core[b].state = "destroyed"
    <3>1. Seating(r, b) BY <1>1 DEF Seating
    <3>2. Out(up, seats, r, b, Len(up)) BY <1>1, <2>1, <2>2, <2>3, <3>1 DEF Departed
    <3>3. PICK j \in 1..Len(up) : Asks(up[j], "leave", r, b) BY <1>1, <3>2 DEF Out
    <3>4. up[j] \in ToSet(up) BY <2>1, <3>3 DEF ToSet, TypeOK
    <3> QED BY <3>3, <3>4 DEF Leaving, Asks
  <2>4. CASE core[b].state = "live"
    <3>1. Dismissed(b) BY <1>1, <2>1, <2>4 DEF Listening
    <3>2. PICK i \in 1..Len(slow) : Ends(i, b) BY <3>1 DEF Dismissed
    <3>3. slow[i] \in ToSet(slow) BY <2>1, <3>2 DEF ToSet, TypeOK
    <3> QED BY <3>2, <3>3 DEF Leaving, Ends
  <2> QED BY <2>1, <2>2, <2>3, <2>4, CoreParts
<1>2. ASSUME AssistantInv PROVE SeatedListens
  <2> SUFFICES ASSUME NEW l \in seats, l[1] \notin again, ~shared, l[1] \notin joined
               PROVE  Leaving(l[2])
    BY DEF SeatedListens
  <2>1. l[1] \in Room /\ l[2] \in Bot /\ l = <<l[1], l[2]>> BY <1>2 DEF AssistantInv, TypeOK
  <2> QED BY <1>1, <1>2, <2>1
<1> QED BY <1>2, AssistantKeeps, PTL

(* What is said in a meeting never changes whom another meeting invites, as *)
(* long as the assistant is done with one meeting before the next.          *)
THEOREM InvitesAreOwn == Spec => []InvitesOwn
<1>1. AssistantInv => InvitesOwn BY DEF AssistantInv, Orderly, Owned, Allowed, InvitesOwn
<1> QED BY <1>1, AssistantKeeps, PTL

(* A kicked bot has no seat any more once nothing is under way, on the same *)
(* condition: the core is destroyed, and its word to leave has been heard.  *)
THEOREM KickedAreGone == Spec => []KickedLeaves
<1>1. ASSUME AssistantInv, down = <<>>, up = <<>>, ~shared,
             NEW r \in Room, NEW b \in Bot, <<r, b>> \in kicked, r \notin again
      PROVE  FALSE
  <2>1. TypeOK /\ Rooted /\ Departed /\ Known BY <1>1 DEF AssistantInv, Orderly
  <2>2. 1..Len(down) = {} /\ 1..Len(up) = {}
    <3>1. Len(down) = 0 /\ Len(up) = 0 BY <1>1, NothingThere
    <3> QED BY <3>1
  <2>3. <<r, b>> \in seats /\ core[b].room = r BY <1>1, <2>1 DEF TypeOK, Rooted
  <2>4. core[b].state = "destroyed" BY <1>1, <2>1, <2>2 DEF Known
  <2>5. Seating(r, b) BY <2>3 DEF Seating
  <2>6. Out(up, seats, r, b, Len(up)) BY <1>1, <2>1, <2>3, <2>4, <2>5 DEF Departed
  <2> QED BY <2>2, <2>3, <2>6 DEF Out
<1>2. ASSUME AssistantInv PROVE KickedLeaves
  <2> SUFFICES ASSUME down = <<>>, up = <<>>, NEW l \in kicked, l[1] \notin again, ~shared
               PROVE  FALSE
    BY DEF KickedLeaves
  <2>1. l[1] \in Room /\ l[2] \in Bot /\ l = <<l[1], l[2]>> BY <1>2 DEF AssistantInv, TypeOK
  <2> QED BY <1>1, <1>2, <2>1
<1> QED BY <1>2, AssistantKeeps, PTL
===============================================================================
