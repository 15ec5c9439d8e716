------------------------------ MODULE Assistant ------------------------------
(***************************************************************************)
(* The assistant (assistant/src): one process on one socket, which sits in *)
(* the meetings it was invited to with a bot, a RoomCore, for each.        *)
(*                                                                         *)
(* The meeting server is here only as far as the assistant meets it (the   *)
(* whole of it is RoomService): private rooms that stay, with one person   *)
(* each who comes and goes. What one handler of the server sends arrives   *)
(* together; the socket keeps the order both ways and may break.           *)
(***************************************************************************)
EXTENDS Naturals, FiniteSets, Sequences, SequencesExt

CONSTANTS
  Room,           (* the meetings                                          *)
  Bot,            (* the ids inviteAssistant gives out                     *)
  Guest,          (* the employees one may invite                          *)
  Wanted,         (* those the person of a room may want there             *)
  None,
  MaxWire, MaxTimers,   (* bounds: messages under way and timers set when a*)
                        (* person does something                           *)
  MaxDrops        (* bound: breaks of the socket                           *)

ASSUME WantedTyped  == Wanted \in [Room -> SUBSET Guest]
ASSUME BotsTyped    == IsFiniteSet(Bot) /\ Bot \cap Guest = {}
ASSUME BoundsTyped  == MaxWire \in Nat /\ MaxTimers \in Nat /\ MaxDrops \in Nat

VARIABLES
  present,        (* the rooms whose person is there                       *)
  seats,          (* the members that are bots: pairs of a room and a bot  *)
  invites,        (* of each room                                          *)
  joined,         (* the rooms the assistant's socket listens to           *)
  issued,         (* the bot ids given out                                 *)
  down, up,       (* under way to and from the assistant                   *)
  roomsValue,     (* the rooms with members, as last told                  *)
  slow, quick,    (* its timers of three seconds and of one, in order      *)
  rooms,          (* its table of cores                                    *)
  core,           (* what became of each bot                               *)
  asking,         (* requests for the employees: a core and a guest        *)
  drops,          (* breaks so far                                         *)
  again,          (* history: rooms invited to while a bot was on its way  *)
  shared,         (* history: it joined one meeting before another was done  *)
  kicked          (* history: bots with a seat that somebody kicked        *)

server    == <<present, seats, invites, joined, issued>>
assistant == <<roomsValue, slow, quick, rooms, core, asking>>
history   == <<again, kicked>>
vars      == <<server, down, up, assistant, drops, history, shared>>

Ids  == Bot \cup Guest
View == [room : Room, invites : SUBSET Ids]
ASSUME NoneDistinct == None \notin Room /\ None \notin Bot /\ None \notin View

Note == ({"invited"} \X Room \X Bot) \cup ({"kicked"} \X Room)
        \cup ({"text", "voice"} \X (Guest \cup {"leave"})) \cup {<<>>}
Event   == [rooms : SUBSET Room, data : View \cup {None}, note : Note]
Request == [op : {"join", "leave", "update"}, room : Room, bot : Bot, invites : SUBSET Ids]
Timer   == [kind : {"look", "join", "leave"}, room : Room, bot : Bot]
Core    == [state : {"none", "live", "destroyed"}, room : Room \cup {None},
            value : View \cup {None}]

TypeOK ==
  /\ present \subseteq Room /\ seats \subseteq Room \X Bot /\ joined \subseteq Room
  /\ invites \in [Room -> SUBSET Ids] /\ issued \subseteq Bot
  /\ down \in Seq(Event) /\ up \in Seq(Request)
  /\ roomsValue \subseteq Room /\ slow \in Seq(Timer) /\ quick \in Seq(Timer)
  /\ rooms \in [Room -> Bot \cup {None}] /\ core \in [Bot -> Core]
  /\ asking \subseteq Bot \X Guest
  /\ drops \in 0..MaxDrops /\ again \subseteq Room /\ shared \in BOOLEAN
  /\ kicked \subseteq seats

Init ==
  /\ present = {} /\ seats = {} /\ joined = {} /\ issued = {}
  /\ invites = [r \in Room |-> {}]
  /\ down = <<>> /\ up = <<>>
  /\ roomsValue = {} /\ slow = <<>> /\ quick = <<>> /\ asking = {}
  /\ rooms = [r \in Room |-> None]
  /\ core = [b \in Bot |-> [state |-> "none", room |-> None, value |-> None]]
  /\ drops = 0 /\ again = {} /\ shared = FALSE
  /\ kicked = {}

-----------------------------------------------------------------------------
(* The meeting server                                                       *)

BotsIn(r) == {b \in Bot : <<r, b>> \in seats}
Members(r) == BotsIn(r) \cup (present \cap {r})

(* sendRooms and sendRoom of r, and a note of what else is sent: to whoever *)
(* listens to r, or to everybody.                                           *)
Told(r, note) ==
  [rooms |-> {q \in Room : Members(q)' # {}},
   data  |-> IF r \in joined' THEN [room |-> r, invites |-> invites'[r]] ELSE None,
   note  |-> note]

Send(r, note) == down' = Append(down, Told(r, note))

Quiet == Len(down) + Len(up) < MaxWire

ByPerson == Quiet /\ UNCHANGED <<up, assistant, drops, shared>>

ComeOrGo(r) ==
  /\ ByPerson
  /\ present' = IF r \in present THEN present \ {r} ELSE present \cup {r}
  /\ UNCHANGED <<seats, invites, joined, issued, history>>
  /\ Send(r, <<>>)

(* updateRoom by the person, who adds or takes back a guest.                *)
UpdateByPerson(r, g) ==
  /\ ByPerson /\ r \in present /\ g \in Wanted[r]
  /\ invites' = [invites EXCEPT ![r] = IF g \in @ THEN @ \ {g} ELSE @ \cup {g}]
  /\ UNCHANGED <<present, seats, joined, issued, history>>
  /\ Send(r, <<>>)

(* A bot that was invited and has not taken its seat.                       *)
Coming(r) ==
  \/ \E i \in DOMAIN down : \E b \in Bot : down[i].note = <<"invited", r, b>>
  \/ \E t \in ToSet(slow) \cup ToSet(quick) : t.kind # "leave" /\ t.room = r
  \/ \E q \in ToSet(up) : q.op = "join" /\ q.room = r

MayInvite_Again(r) == TRUE

MayInvite(r) == BotsIn(r) = {}

InviteAssistant(r) ==
  /\ ByPerson /\ MayInvite(r) /\ issued # Bot
  /\ LET b == CHOOSE new \in Bot : new \notin issued
     IN
       /\ issued' = issued \cup {b}
       /\ invites' = [invites EXCEPT ![r] = @ \cup {b}]
       /\ UNCHANGED <<present, seats, joined, kicked>>
       /\ again' = IF Coming(r) THEN again \cup {r} ELSE again
       /\ Send(r, <<"invited", r, b>>)

(* Whichever bot comes first among the members.                             *)
KickAssistant(r) ==
  /\ ByPerson
  /\ \E b \in BotsIn(r) :
       /\ invites' = [invites EXCEPT ![r] = @ \ {b}]
       /\ kicked' = kicked \cup {<<r, b>>}
  /\ UNCHANGED <<present, seats, joined, issued, again>>
  /\ Send(r, <<"kicked", r>>)

(* A person tells the assistant to leave or to invite somebody: in the chat *)
(* or by voice, which only those hear who listen to the room.               *)
Say(r, how, what) ==
  /\ ByPerson /\ r \in present \cap joined /\ what \in Wanted[r] \cup {"leave"}
  /\ Len(slow) < MaxTimers
  /\ UNCHANGED <<server, history>>
  /\ Send(r, <<how, what>>)

(* joinMember admits those who are invited.                                 *)
JoinMember(q) ==
  /\ q.op = "join"
  /\ IF q.bot \in invites[q.room]
     THEN /\ seats' = seats \cup {<<q.room, q.bot>>} /\ joined' = joined \cup {q.room}
          /\ UNCHANGED <<present, invites, issued>>
          /\ Send(q.room, <<>>)
     ELSE UNCHANGED <<server, down>>

LeaveMember_Seated(q) ==
  /\ q.op = "leave"
  /\ joined' = joined \ {q.room}
  /\ UNCHANGED <<present, seats, invites, issued>>
  /\ Send(q.room, <<>>)

(* leaveMember, which takes the socket out of the room it names.            *)
LeaveMember(q) ==
  /\ q.op = "leave"
  /\ seats' = seats \ {<<q.room, q.bot>>} /\ joined' = joined \ {q.room}
  /\ UNCHANGED <<present, invites, issued>>
  /\ Send(q.room, <<>>)

MayUpdate_Any(q) == TRUE

MayUpdate(q) == <<q.room, q.bot>> \in seats

(* updateRoom by a bot, which has to be a member.                           *)
UpdateRoom(q) ==
  /\ q.op = "update"
  /\ IF MayUpdate(q)
     THEN /\ invites' = [invites EXCEPT ![q.room] = q.invites]
          /\ UNCHANGED <<present, seats, joined, issued>>
          /\ Send(q.room, <<>>)
     ELSE UNCHANGED <<server, down>>

ServerStep ==
  /\ up # <<>> /\ up' = Tail(up)
  /\ JoinMember(Head(up)) \/ LeaveMember(Head(up)) \/ UpdateRoom(Head(up))
  /\ kicked' = kicked \cap seats'
  /\ UNCHANGED <<assistant, drops, again, shared>>

-----------------------------------------------------------------------------
(* The assistant                                                            *)

Emit(op, r, b, list) ==
  up' = Append(up, [op |-> op, room |-> r, bot |-> b, invites |-> list])

(* destroy tells the room of the last data to let the bot go.               *)
Destroyed(b) == [core EXCEPT ![b].state = "destroyed"]
Goodbye(b, value) == IF value = None THEN UNCHANGED up ELSE Emit("leave", value.room, b, {})

(* The cores that take room data and chat, and those that take what is said:*)
(* the voice is subscribed to until the process ends.                       *)
Live     == {b \in Bot : core[b].state = "live"}
Hearing(how) == IF how = "text" THEN Live ELSE {b \in Bot : core[b].state # "none"}

(* The data is taken by every core, whatever its room.                      *)
WithData(data) ==
  [b \in Bot |-> IF b \in Live /\ data # None THEN [core[b] EXCEPT !.value = data] ELSE core[b]]

Invited(note) ==
  /\ note # <<>> /\ note[1] = "invited"
  /\ slow' = Append(slow, [kind |-> "look", room |-> note[2], bot |-> note[3]])
  /\ UNCHANGED <<rooms, asking, up>>

Kicked_Kept(note) ==
  /\ note # <<>> /\ note[1] = "kicked"
  /\ rooms' = [rooms EXCEPT ![note[2]] = None]
  /\ UNCHANGED <<slow, asking, up>>

Kicked(note) ==
  /\ note # <<>> /\ note[1] = "kicked"
  /\ LET b == rooms[note[2]]
     IN IF b = None THEN UNCHANGED up ELSE Goodbye(b, WithData(Head(down).data)[b].value)
  /\ rooms' = [rooms EXCEPT ![note[2]] = None]
  /\ UNCHANGED <<slow, asking>>

(* request: the actions leaveRoom and inviteMember of every core that hears.*)
Request1(note) ==
  /\ note # <<>> /\ note[1] \in {"text", "voice"}
  /\ IF note[2] = "leave"
     THEN /\ slow' = slow \o SetToSeq({[kind |-> "leave", room |-> core[b].room, bot |-> b] :
                                         b \in Hearing(note[1])})
          /\ UNCHANGED asking
     ELSE /\ asking' = asking \cup (Hearing(note[1]) \X {note[2]})
          /\ UNCHANGED slow
  /\ UNCHANGED <<rooms, up>>

AfterNote(note) ==
  IF note # <<>> /\ note[1] = "kicked" /\ rooms[note[2]] # None
  THEN [WithData(Head(down).data) EXCEPT ![rooms[note[2]]].state = "destroyed"]
  ELSE WithData(Head(down).data)

Receive ==
  /\ down # <<>> /\ down' = Tail(down)
  /\ LET e == Head(down)
     IN /\ roomsValue' = e.rooms
        /\ core' = AfterNote(e.note)
        /\ \/ Invited(e.note) \/ Kicked(e.note) \/ Request1(e.note)
           \/ e.note = <<>> /\ UNCHANGED <<slow, rooms, asking, up>>
  /\ UNCHANGED <<server, quick, drops, history, shared>>

(* After three seconds: is anybody in the room?                             *)
Look(t) ==
  /\ t.kind = "look"
  /\ quick' = IF t.room \in roomsValue THEN Append(quick, [t EXCEPT !.kind = "join"]) ELSE quick
  /\ UNCHANGED <<core, up>>

(* leaveRoom, which leaves the core in the table.                           *)
LeaveRoom(t) ==
  /\ t.kind = "leave"
  /\ Goodbye(t.bot, core[t.bot].value)
  /\ core' = Destroyed(t.bot)
  /\ UNCHANGED quick

SlowTimer ==
  /\ slow # <<>> /\ slow' = Tail(slow)
  /\ Look(Head(slow)) \/ LeaveRoom(Head(slow))
  /\ UNCHANGED <<server, down, roomsValue, rooms, asking, drops, history, shared>>

(* The assistant is not done with other meetings: it has a core there, it   *)
(* listens or is about to, data is under way, or cores were told to leave.  *)
Elsewhere(r) ==
  \/ joined \ {r} # {} \/ \E b \in Live : core[b].room # r
  \/ \E q \in ToSet(up) : q.op = "join" /\ q.room # r
  \/ \E e \in ToSet(down) : e.data # None /\ e.data.room # r
  \/ \E t \in ToSet(slow) : t.kind = "leave"

(* connectToRoom, of a bot that is new.                                     *)
ConnectToRoom ==
  /\ quick # <<>> /\ quick' = Tail(quick)
  /\ LET t == Head(quick)
     IN /\ core' = [core EXCEPT ![t.bot] = [state |-> "live", room |-> t.room, value |-> None]]
        /\ rooms' = [rooms EXCEPT ![t.room] = t.bot]
        /\ Emit("join", t.room, t.bot, {})
        /\ shared' = (shared \/ Elsewhere(t.room))
  /\ UNCHANGED <<server, down, roomsValue, slow, asking, drops, history>>

(* The employees are there: the list of the last data, and one more.        *)
InviteMember(b, g) ==
  /\ <<b, g>> \in asking /\ asking' = asking \ {<<b, g>>}
  /\ LET list == core[b].value.invites \cup {g}
     IN IF core[b].value = None THEN UNCHANGED <<core, up>>
        ELSE /\ core' = [core EXCEPT ![b].value.invites = list]
             /\ Emit("update", core[b].room, b, list)
  /\ UNCHANGED <<server, down, roomsValue, slow, quick, rooms, drops, history, shared>>

(* Nobody of that name, or no answer.                                       *)
NobodyFound(b, g) ==
  /\ <<b, g>> \in asking /\ asking' = asking \ {<<b, g>>}
  /\ UNCHANGED <<server, down, up, roomsValue, slow, quick, rooms, core, drops, history, shared>>

(* The socket breaks and is there again: disconnectedSocket takes the bots  *)
(* out, what was under way is lost or kept to be sent, and nobody rejoins.  *)
Reconnect ==
  /\ drops < MaxDrops /\ drops' = drops + 1
  /\ seats' = {} /\ joined' = {} /\ kicked' = {}
  /\ up' \in {<<>>, up}
  /\ UNCHANGED <<present, invites, issued, assistant, again, shared>>
  /\ down' = <<[rooms |-> {q \in Room : Members(q)' # {}}, data |-> None, note |-> <<>>]>>

-----------------------------------------------------------------------------
Persons ==
  \E r \in Room : \/ ComeOrGo(r) \/ InviteAssistant(r) \/ KickAssistant(r)
                  \/ \E g \in Guest : UpdateByPerson(r, g)
                  \/ \E how \in {"text", "voice"}, what \in Guest \cup {"leave"} : Say(r, how, what)

Fetched == \E b \in Bot, g \in Guest : InviteMember(b, g) \/ NobodyFound(b, g)

(* Bound: a behaviour ends where the assistant joins a meeting while it is  *)
(* not done with another, of which the properties say nothing.              *)
Next ==
  /\ ~shared
  /\ Persons \/ ServerStep \/ Receive \/ SlowTimer \/ ConnectToRoom \/ Fetched \/ Reconnect

Spec == Init /\ [][Next]_vars

-----------------------------------------------------------------------------
(* Properties                                                               *)

(* There are two bots in a meeting only if the second was invited while the *)
(* first was on its way (room.service.ts:339 sees only those that joined).  *)
OneBot == \A r \in Room \ again : Cardinality(BotsIn(r)) <= 1

(* A bot that is told to leave: with it leaves each core that left before,  *)
(* which still hears the voices, and the first takes the socket with it.    *)
Leaving(b) ==
  \/ \E t \in ToSet(slow) : t.kind = "leave" /\ t.bot = b
  \/ \E q \in ToSet(up) : q.op = "leave" /\ q.bot = b

(* A bot that has a seat and is not told to leave listens to its meeting, as*)
(* long as nobody invited twice and no meeting was joined before another was*)
(* done: leaving names the room of the last data that came, of whichever it *)
(* is, and data of a meeting that was left still comes.                     *)
SeatedListens ==
  \A l \in seats : l[1] \in again \/ shared \/ Leaving(l[2]) \/ l[1] \in joined

(* What is said in one meeting changes the invites of no other, unless the  *)
(* assistant joined one before another was done.                            *)
InvitesOwn == shared \/ \A r \in Room : invites[r] \cap Guest \subseteq Wanted[r]

(* A kicked bot leaves: it has no seat any more once nothing is under way   *)
(* and no timer is set, on the same conditions.                             *)
KickedLeaves ==
  down = <<>> /\ up = <<>> /\ slow = <<>> /\ quick = <<>> =>
    \A l \in kicked : l[1] \in again \/ shared
=============================================================================
