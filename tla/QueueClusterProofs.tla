-------------------------- MODULE QueueClusterProofs ---------------------------
(***************************************************************************)
(* Proofs about QueueCluster, for any number of workers, files, faults and *)
(* commands of the operator: a queue file is in the hand of one process,   *)
(* none is forgotten and none is served twice, but where the code says so. *)
(***************************************************************************)
EXTENDS QueueCluster, FiniteSetTheorems, TLAPS

Order     == [event : {"load"}, pid : Nat]
Telling   == [event : {"flush", "flush domain", "push", "discard"}, file : File, name : Nat]
FileState == [disk : {"none", "dot", "there", "gone"}, pid : Nat, name : Nat]
Items     == [proc : Proc, file : File, name : Nat,
              at : {"wait", "load", "queue", "timer", "sending", "taken"},
              todo : {"unread", "read", "never"}, loading : BOOLEAN, flushed : BOOLEAN]
Takeover  == [proc : Proc, pid : Nat, left : SUBSET File, done : SUBSET File,
              name : [File -> Nat]]
Entry     == [file : File, name : Nat, pid : Nat]
Listing   == [proc : Proc, domain : File, listed : SUBSET Entry]
Master    == [listening : BOOLEAN, own : SUBSET Proc, todo : SUBSET Proc, fresh : SUBSET Proc,
              limit : Nat]

TypeOK ==
  /\ proc \in [Proc -> {"none", "up", "stopping", "dead"}]
  /\ master \in Master
  /\ inbox \in [Proc -> Seq(Order \cup Telling)]
  /\ file \in [File -> FileState]
  /\ items \subseteq Items /\ taking \subseteq Takeover /\ flushing \subseteq Listing
  /\ served \in [File -> Nat] /\ doubtful \subseteq File /\ abandoned \subseteq File
  /\ \A f \in File : file[f].disk = "dot" => file[f].pid \in Proc

-----------------------------------------------------------------------------
(* Memory belongs to processes that are there, and what is in it to the     *)
(* process whose number the file bears, as long as the file is there.       *)
Living ==
  /\ \A i \in items : Alive(i.proc)
  /\ \A t \in taking : Alive(t.proc)
  /\ \A l \in flushing : Alive(l.proc)
  /\ \A p \in Proc : Alive(p) \/ inbox[p] = <<>>

Own(f, pid) == file[f].disk = "gone" \/ (file[f].disk = "there" /\ file[f].pid = pid)

Owned ==
  /\ \A i \in items : Own(i.file, i.proc)
  /\ \A t \in taking : /\ \A f \in t.done : Own(f, t.proc)
                       /\ \A f \in t.left : Own(f, t.pid)
  /\ \A l \in flushing : \A e \in l.listed : e.pid = l.proc => Own(e.file, l.proc)

(* Orders are about processes that are over, and each such process is taken *)
(* over once, by order or already.                                          *)
Over(pid) == pid \in OldPids \/ (pid \in Proc /\ proc[pid] = "dead")

Ordered(p, n, pid) == n \in DOMAIN inbox[p] /\ inbox[p][n].event = "load" /\ inbox[p][n].pid = pid

OrdersOver  == \A p \in Proc, n, o \in Nat : Ordered(p, n, o) => Over(o) /\ \A t \in taking : t.pid # o
OrderedOnce == \A p, q \in Proc, n, k, o \in Nat : Ordered(p, n, o) /\ Ordered(q, k, o) => p = q /\ n = k
TakenOnce   == \A s, t \in taking : Over(t.pid) /\ (s.pid = t.pid => s = t)

(* Whoever holds a file, present or gone, is alone in it. What a flush has  *)
(* listed of its own files is held, too: it may become an item.             *)
Holds(p, f) ==
  \/ \E i \in items : i.proc = p /\ i.file = f
  \/ \E t \in taking : t.proc = p /\ f \in t.left \cup t.done
  \/ \E l \in flushing : l.proc = p /\ \E e \in l.listed : e.file = f /\ e.pid = p

OneHolder == \A f \in File, p, q \in Proc : Holds(p, f) /\ Holds(q, f) => p = q

(* A file is kept by a takeover, by an order to take its process over, or by*)
(* an item that knows its name.                                             *)
Waiting(o) == \E p \in Proc, n \in Nat : Ordered(p, n, o)

Kept(f) ==
  \/ \E t \in taking : f \in t.left \/ (f \in t.done /\ t.name[f] = file[f].name)
  \/ \E o \in Nat : o = file[f].pid /\ Waiting(o)
  \/ \E i \in items : i.file = f /\ i.name = file[f].name

AllKept == \A f \in File : file[f].disk = "there" /\ f \notin abandoned => Kept(f)

(* The file of a mail that was never flushed by domain, nor cut off while it*)
(* was being answered, has one item at most, which knows its name and is    *)
(* the reason why it counts as served.                                      *)
Lone(f) ==
  /\ \A i, j \in items : i.file = f /\ j.file = f => i = j
  /\ \A s, t \in taking : f \in s.left \cup s.done /\ f \in t.left \cup t.done => s = t
  /\ \A i \in items, t \in taking : ~(i.file = f /\ f \in t.left \cup t.done)

Known(f) ==
  file[f].disk = "there" => /\ \A i \in items : i.file = f => file[f].name = i.name
                            /\ \A t \in taking : f \in t.done => file[f].name = t.name[f]

Reason(f) == served[f] = 0 \/ (served[f] = 1 /\ (file[f].disk = "gone" \/ \E i \in items : i.file = f /\ i.at = "taken"))

Singles == \A f \in File \ doubtful : Lone(f) /\ Known(f) /\ Reason(f)

HandsInv == Living /\ Owned /\ OrdersOver /\ OrderedOnce /\ TakenOnce /\ OneHolder

ClusterInv == TypeOK /\ HandsInv /\ AllKept /\ Singles

-----------------------------------------------------------------------------
(* Words. *)
LEMMA AliveNotOver == ASSUME TypeOK, NEW p \in Proc, Alive(p) PROVE ~Over(p)
  BY ProcsTyped DEF Over, Alive, Proc

(* Whatever is in memory belongs to a process that is not over.             *)
LEMMA InMemory ==
  ASSUME TypeOK, Living
  PROVE  /\ \A i \in items : i.proc \in Proc /\ i.file \in File /\ ~Over(i.proc)
         /\ \A t \in taking : t.proc \in Proc /\ t.pid \in Nat /\ ~Over(t.proc)
         /\ \A l \in flushing : l.proc \in Proc /\ ~Over(l.proc)
  <1>1. ASSUME NEW i \in items PROVE i.proc \in Proc /\ i.file \in File /\ ~Over(i.proc)
    <2>1. i.proc \in Proc /\ i.file \in File
      BY DEF TypeOK, Items
    <2>. QED  BY <2>1, AliveNotOver DEF Living
  <1>2. ASSUME NEW t \in taking PROVE t.proc \in Proc /\ t.pid \in Nat /\ ~Over(t.proc)
    <2>1. t.proc \in Proc /\ t.pid \in Nat
      BY DEF TypeOK, Takeover
    <2>. QED  BY <2>1, AliveNotOver DEF Living
  <1>3. ASSUME NEW l \in flushing PROVE l.proc \in Proc /\ ~Over(l.proc)
    <2>1. l.proc \in Proc
      BY DEF TypeOK, Listing
    <2>. QED  BY <2>1, AliveNotOver DEF Living
  <1>. QED  BY <1>1, <1>2, <1>3

(* A file that is there and bears the number of a process that is over is in*)
(* no hand but the one that takes that process over.                        *)
LEMMA OverHeld ==
  ASSUME TypeOK, Living, Owned, NEW f \in File, file[f].disk = "there", Over(file[f].pid)
  PROVE  /\ \A i \in items : i.file # f
         /\ \A t \in taking : f \notin t.done /\ (f \in t.left => t.pid = file[f].pid)
         /\ \A l \in flushing : \A e \in l.listed : e.file = f => e.pid # l.proc
  BY InMemory DEF Owned, Own

(* A file that bears the number of a process that lives is in no other hand.*)
LEMMA LivingHeld ==
  ASSUME TypeOK, Living, Owned, TakenOnce, NEW f \in File, file[f].disk = "there", ~Over(file[f].pid)
  PROVE  /\ \A i \in items : i.file = f => i.proc = file[f].pid
         /\ \A t \in taking : f \in t.left \cup t.done => f \notin t.left /\ t.proc = file[f].pid
         /\ \A l \in flushing : \A e \in l.listed : e.file = f /\ e.pid = l.proc => l.proc = file[f].pid
  BY DEF Owned, Own, TakenOnce

(* A file that is not there yet is in nobody's hand.                        *)
LEMMA Unheld ==
  ASSUME Owned, NEW f \in File, file[f].disk \in {"none", "dot"}
  PROVE  /\ \A i \in items : i.file # f
         /\ \A t \in taking : f \notin t.left \cup t.done
         /\ \A l \in flushing : \A e \in l.listed : e.file = f => e.pid # l.proc
  BY DEF Owned, Own

(* Handling one message leaves the others, each one place further on.       *)
LEMMA TailOrders ==
  ASSUME TypeOK, NEW p \in Proc, inbox[p] # <<>>, inbox' = [inbox EXCEPT ![p] = Tail(@)]
  PROVE  /\ \A q \in Proc, n, o \in Nat : Ordered(q, n, o)' => Ordered(q, IF q = p THEN n + 1 ELSE n, o)
         /\ \A o \in Nat : (Head(inbox[p]).event = "load" => Head(inbox[p]).pid # o) /\ Waiting(o) => Waiting(o)'
  <1>1. inbox[p] \in Seq(Order \cup Telling) /\ Len(inbox[p]) \in Nat /\ DOMAIN inbox[p] = 1..Len(inbox[p])
    BY DEF TypeOK
  <1>2. DOMAIN Tail(inbox[p]) = 1..(Len(inbox[p]) - 1)
        /\ \A n \in 1..(Len(inbox[p]) - 1) : Tail(inbox[p])[n] = inbox[p][n + 1]
    BY <1>1
  <1>3. Head(inbox[p]) = inbox[p][1]
    BY <1>1
  <1>4. inbox'[p] = Tail(inbox[p]) /\ \A q \in Proc : q # p => inbox'[q] = inbox[q]
    BY DEF TypeOK
  <1>5. ASSUME NEW q \in Proc, NEW n \in Nat, NEW o \in Nat, Ordered(q, n, o)'
        PROVE  Ordered(q, IF q = p THEN n + 1 ELSE n, o)
    <2>1. CASE q # p
      BY <1>4, <1>5, <2>1 DEF Ordered
    <2>2. CASE q = p
      <3>1. n \in 1..(Len(inbox[p]) - 1) /\ Tail(inbox[p])[n].event = "load" /\ Tail(inbox[p])[n].pid = o
        BY <1>2, <1>4, <1>5, <2>2 DEF Ordered
      <3>2. n + 1 \in 1..Len(inbox[p]) /\ Tail(inbox[p])[n] = inbox[p][n + 1]
        BY <1>1, <1>2, <3>1
      <3>3. Ordered(p, n + 1, o)
        BY <1>1, <3>1, <3>2 DEF Ordered
      <3>. QED  BY <3>3, <2>2
    <2>. QED  BY <2>1, <2>2
  <1>6. ASSUME NEW o \in Nat, Head(inbox[p]).event = "load" => Head(inbox[p]).pid # o,
               NEW q \in Proc, NEW n \in Nat, Ordered(q, n, o)
        PROVE  Waiting(o)'
    <2>1. CASE q # p
      BY <1>4, <1>6, <2>1 DEF Ordered, Waiting
    <2>2. CASE q = p
      <3>1. n \in 1..Len(inbox[p]) /\ n # 1
        BY <1>1, <1>3, <1>6, <2>2 DEF Ordered
      <3>2. n - 1 \in 1..(Len(inbox[p]) - 1) /\ Tail(inbox[p])[n - 1] = inbox[p][n]
        BY <1>1, <1>2, <3>1
      <3>3. Ordered(p, n - 1, o)'
        BY <1>2, <1>4, <1>6, <2>2, <3>2 DEF Ordered
      <3>. QED  BY <3>2, <3>3, <1>1 DEF Waiting
    <2>. QED  BY <2>1, <2>2
  <1>. QED  BY <1>5, <1>6 DEF Waiting

(* Messages that are no orders to load change no order.                     *)
LEMMA TellOrders ==
  ASSUME TypeOK, NEW m, m.event # "load", SendAll(m)
  PROVE  \A q \in Proc, n, o \in Nat : Ordered(q, n, o)' <=> Ordered(q, n, o)
  <1> SUFFICES ASSUME NEW q \in Proc, NEW n \in Nat, NEW o \in Nat
               PROVE  Ordered(q, n, o)' <=> Ordered(q, n, o)
    OBVIOUS
  <1>1. inbox[q] \in Seq(Order \cup Telling) /\ Len(inbox[q]) \in Nat /\ DOMAIN inbox[q] = 1..Len(inbox[q])
    BY DEF TypeOK
  <1>2. CASE inbox'[q] = inbox[q]
    BY <1>2 DEF Ordered
  <1>3. CASE inbox'[q] = Append(inbox[q], m)
    <2>1. /\ DOMAIN inbox'[q] = 1..(Len(inbox[q]) + 1)
          /\ \A k \in 1..Len(inbox[q]) : inbox'[q][k] = inbox[q][k]
          /\ inbox'[q][Len(inbox[q]) + 1] = m
      BY <1>1, <1>3
    <2>. QED  BY <1>1, <2>1 DEF Ordered
  <1>. QED  BY <1>2, <1>3 DEF SendAll

-----------------------------------------------------------------------------
(* Types. *)
LEMMA ItemTyped ==
  ASSUME NEW p \in Proc, NEW f \in File, NEW n \in Nat, NEW at \in {"wait", "load", "queue"}
  PROVE  Item(p, f, n, at) \in Items
  <1>1. FALSE \in BOOLEAN
    OBVIOUS
  <1>. QED  BY <1>1 DEF Item, Items

LEMMA ItemAt ==
  ASSUME NEW i \in Items, NEW at \in {"wait", "load", "queue", "timer", "sending", "taken"}, NEW n \in Nat
  PROVE  /\ [i EXCEPT !.at = at] \in Items
         /\ [i EXCEPT !.name = n, !.at = at] \in Items
         /\ [i EXCEPT !.at = at, !.loading = TRUE] \in Items
         /\ [i EXCEPT !.todo = "read", !.loading = FALSE] \in Items
         /\ [i EXCEPT !.todo = "never"] \in Items
         /\ [i EXCEPT !.flushed = TRUE] \in Items
  BY Zenon DEF Items

LEMMA FiredTyped == ASSUME NEW i \in Items PROVE Fired(i) \in Items
  BY ItemAt DEF Fired

LEMMA ReplaceTyped ==
  ASSUME TypeOK, NEW i \in items, NEW j \in Items, Replace(i, j) PROVE items' \subseteq Items
  BY DEF TypeOK, Replace

LEMMA TailTyped ==
  ASSUME TypeOK, NEW p \in Proc, inbox[p] # <<>>, inbox' = [inbox EXCEPT ![p] = Tail(@)]
  PROVE  inbox' \in [Proc -> Seq(Order \cup Telling)]
  <1>1. Tail(inbox[p]) \in Seq(Order \cup Telling)
    BY DEF TypeOK
  <1>. QED  BY <1>1 DEF TypeOK

LEMMA FileNamed ==
  ASSUME TypeOK, NEW f \in File PROVE file[f].name \in Nat /\ file[f].pid \in Nat /\ file[f] \in FileState
  BY DEF TypeOK, FileState

LEMMA HeadOrder ==
  ASSUME TypeOK, NEW p \in Proc, inbox[p] # <<>>, Head(inbox[p]).event = "load"
  PROVE  Ordered(p, 1, Head(inbox[p]).pid) /\ Head(inbox[p]).pid \in Nat
  <1>1. inbox[p] \in Seq(Order \cup Telling)
    BY DEF TypeOK
  <1>2. Head(inbox[p]) = inbox[p][1] /\ 1 \in DOMAIN inbox[p] /\ Head(inbox[p]) \in Order \cup Telling
    BY <1>1
  <1>3. Head(inbox[p]) \notin Telling
    BY DEF Telling
  <1>. QED  BY <1>2, <1>3 DEF Ordered, Order

LEMMA HeadTelling ==
  ASSUME TypeOK, NEW p \in Proc, inbox[p] # <<>>, Head(inbox[p]).event # "load"
  PROVE  Head(inbox[p]).file \in File /\ Head(inbox[p]).name \in Nat
  <1>1. inbox[p] \in Seq(Order \cup Telling)
    BY DEF TypeOK
  <1>2. Head(inbox[p]) \in Order \cup Telling
    BY <1>1
  <1>. QED  BY <1>2 DEF Order, Telling

LEMMA Renamed ==
  ASSUME NEW x \in FileState
  PROVE  /\ [x EXCEPT !.name = @ + 1] \in FileState /\ [x EXCEPT !.name = @ + 1].disk = x.disk
         /\ [x EXCEPT !.name = @ + 1].pid = x.pid /\ [x EXCEPT !.name = @ + 1].name = x.name + 1
         /\ [x EXCEPT !.disk = "there"] \in FileState /\ [x EXCEPT !.disk = "there"].disk = "there"
         /\ [x EXCEPT !.disk = "there"].pid = x.pid /\ [x EXCEPT !.disk = "there"].name = x.name
  BY DEF FileState

LEMMA SeqTyped ==
  ASSUME NEW S, NEW s \in Seq(S), NEW m \in S
  PROVE  Append(s, m) \in Seq(S) /\ <<m>> \in Seq(S) /\ <<>> \in Seq(S)
  OBVIOUS

(* Unlinking a file.                                                        *)
LEMMA UnlinkTyped ==
  ASSUME TypeOK, NEW x, x.file \in File, Unlink(x)
  PROVE  /\ file' \in [File -> FileState]
         /\ \A f \in File : file'[f] = file[f] \/ file'[f] = NoFile("gone")
  <1>1. NoFile("gone") \in FileState
    BY DEF NoFile, FileState
  <1>. QED  BY <1>1 DEF TypeOK, Unlink

LEMMA DotsTyped ==
  ASSUME TypeOK, \A f \in File : file'[f] = file[f] \/ file'[f].disk # "dot"
  PROVE  \A f \in File : file'[f].disk = "dot" => file'[f].pid \in Proc
  BY DEF TypeOK

LEMMA OrderTyped == \A o \in Nat : [event |-> "load", pid |-> o] \in Order
  BY DEF Order

LEMMA TellingTyped ==
  ASSUME NEW event \in {"flush", "flush domain", "push", "discard"}, NEW f \in File, NEW n \in Nat
  PROVE  [event |-> event, file |-> f, name |-> n] \in Telling
  BY DEF Telling

LEMMA ItemsStepTyped ==
  ASSUME TypeOK, NEW i \in items, LoadFile(i) \/ ReadTodo(i) \/ Send(i) \/ Taken(i) \/ Done(i) \/ PutOff(i) \/ Fire(i)
  PROVE  TypeOK'
  <1>0. i \in Items /\ i.file \in File
    BY DEF TypeOK, Items
  <1>1. CASE LoadFile(i)
    <2>1. items' \subseteq Items
      BY <1>0, <1>1, ItemAt, ReplaceTyped DEF LoadFile
    <2>. QED  BY <1>1, <2>1 DEF LoadFile, TypeOK, history
  <1>2. CASE ReadTodo(i)
    <2>1. items' \subseteq Items
      BY <1>0, <1>2, ItemAt, ReplaceTyped DEF ReadTodo
    <2>. QED  BY <1>2, <2>1 DEF ReadTodo, TypeOK, history
  <1>3. CASE Send(i)
    <2>1. items' \subseteq Items
      BY <1>0, <1>3, ItemAt, ReplaceTyped DEF Send
    <2>. QED  BY <1>3, <2>1 DEF Send, TypeOK, history
  <1>4. CASE Taken(i)
    <2>1. items' \subseteq Items
      BY <1>0, <1>4, ItemAt, ReplaceTyped DEF Taken
    <2>. QED  BY <1>0, <1>4, <2>1 DEF Taken, TypeOK
  <1>5. CASE Done(i)
    <2>1. /\ file' \in [File -> FileState]
          /\ \A f \in File : file'[f] = file[f] \/ file'[f] = NoFile("gone")
      BY <1>0, <1>5, UnlinkTyped DEF Done
    <2>2. \A f \in File : file'[f].disk = "dot" => file'[f].pid \in Proc
      BY <2>1, DotsTyped DEF NoFile
    <2>. QED  BY <1>5, <2>1, <2>2 DEF Done, TypeOK, history
  <1>6. CASE PutOff(i)
    <2>1. i.name + 1 \in Nat
      BY <1>0 DEF Items
    <2>2. items' \subseteq Items
      BY <1>0, <1>6, <2>1, ItemAt, ReplaceTyped DEF PutOff
    <2>3. file' = [file EXCEPT ![i.file] = [file[i.file] EXCEPT !.name = @ + 1]]
      BY <1>6 DEF PutOff
    <2>4. [file[i.file] EXCEPT !.name = @ + 1] \in FileState /\ file[i.file].disk = "there"
          /\ [file[i.file] EXCEPT !.name = @ + 1].disk = "there"
      BY <1>0, <1>6, FileNamed, Renamed DEF PutOff, There
    <2>5. file' \in [File -> FileState]
      BY <1>0, <2>3, <2>4 DEF TypeOK
    <2>6. \A f \in File : file'[f].disk = "dot" => file'[f].pid \in Proc
      BY <1>0, <2>3, <2>4, DotsTyped DEF TypeOK
    <2>. QED  BY <1>6, <2>2, <2>5, <2>6 DEF PutOff, TypeOK, history
  <1>7. CASE Fire(i)
    <2>1. items' \subseteq Items
      BY <1>0, <1>7, FiredTyped, ReplaceTyped DEF Fire
    <2>. QED  BY <1>7, <2>1 DEF Fire, TypeOK, history
  <1>. QED  BY <1>1, <1>2, <1>3, <1>4, <1>5, <1>6, <1>7

LEMMA TakeoverStepTyped ==
  ASSUME TypeOK, \/ \E p \in Proc : LoadPidQueue(p) \/ \E f \in File : WriteFile(p, f)
                 \/ \E f \in File : Queued(f)
                 \/ \E t \in taking : AddFiles(t) \/ \E f \in File : RenameToActualPid(t, f)
  PROVE  TypeOK'
  <1>1. ASSUME NEW p \in Proc, LoadPidQueue(p) PROVE TypeOK'
    <2>1. inbox' \in [Proc -> Seq(Order \cup Telling)]
      BY <1>1, TailTyped DEF LoadPidQueue
    <2>2. Head(inbox[p]).pid \in Nat
      BY <1>1, HeadOrder DEF LoadPidQueue
    <2>3. taking' \subseteq Takeover
      BY <1>1, <2>2 DEF LoadPidQueue, TypeOK, Takeover, Sought, OfPid
    <2>4. NoFile("gone") \in FileState /\ NoFile("gone").disk = "gone"
      BY DEF NoFile, FileState
    <2>5. file' \in [File -> FileState] /\ \A f \in File : file'[f] = file[f] \/ file'[f].disk # "dot"
      BY <1>1, <2>4 DEF LoadPidQueue, TypeOK
    <2>. QED  BY <1>1, <2>1, <2>3, <2>5, DotsTyped DEF LoadPidQueue, TypeOK, history
  <1>2. ASSUME NEW p \in Proc, NEW f \in File, WriteFile(p, f) PROVE TypeOK'
    <2>1. p \in Nat
      BY ProcsTyped DEF Proc
    <2>2. [disk |-> "dot", pid |-> p, name |-> 0] \in FileState
      BY <2>1 DEF FileState
    <2>3. file' \in [File -> FileState] /\ \A g \in File : file'[g].disk = "dot" => file'[g].pid \in Proc
      BY <1>2, <2>2 DEF WriteFile, TypeOK
    <2>. QED  BY <1>2, <2>3 DEF WriteFile, TypeOK, history
  <1>3. ASSUME NEW f \in File, Queued(f) PROVE TypeOK'
    <2>1. file[f] \in FileState /\ file[f].pid \in Proc
      BY <1>3, FileNamed DEF Queued, TypeOK
    <2>2. file' = [file EXCEPT ![f] = [file[f] EXCEPT !.disk = "there"]]
      BY <1>3 DEF Queued
    <2>3. file' \in [File -> FileState] /\ \A g \in File : file'[g] = file[g] \/ file'[g].disk # "dot"
      BY <2>1, <2>2, Renamed DEF TypeOK
    <2>4. Item(file[f].pid, f, file[f].name, "queue") \in Items
      BY <2>1, FileNamed, ItemTyped
    <2>5. items' \subseteq Items
      BY <1>3, <2>4 DEF Queued, TypeOK
    <2>. QED  BY <1>3, <2>3, <2>5, DotsTyped DEF Queued, TypeOK, history
  <1>4. ASSUME NEW t \in taking, AddFiles(t) PROVE TypeOK'
    <2>1. t.proc \in Proc /\ t.done \subseteq File /\ \A f \in t.done : t.name[f] \in Nat
      BY DEF TypeOK, Takeover
    <2>2. \A f \in t.done, at \in {"wait", "load"} : Item(t.proc, f, t.name[f], at) \in Items
      BY <2>1, ItemTyped
    <2>3. items' \subseteq Items
      BY <1>4, <2>2 DEF AddFiles, TypeOK
    <2>4. taking' \subseteq Takeover
      BY <1>4 DEF AddFiles, TypeOK
    <2>. QED  BY <1>4, <2>3, <2>4 DEF AddFiles, TypeOK, history
  <1>5. ASSUME NEW t \in taking, NEW f \in File, RenameToActualPid(t, f) PROVE TypeOK'
    <2>1. t \in Takeover /\ t.proc \in Proc
      BY DEF TypeOK, Takeover
    <2>a. ASSUME NEW s \in Takeover, NEW n \in Nat
          PROVE  [s EXCEPT !.left = @ \ {f}, !.done = @ \cup {f}, !.name[f] = n] \in Takeover
      <3>. DEFINE names == [s.name EXCEPT ![f] = n]
      <3>1. names \in [File -> Nat] /\ s.left \ {f} \in SUBSET File /\ s.done \cup {f} \in SUBSET File
        BY DEF Takeover
      <3>. HIDE DEF names
      <3>2. [s EXCEPT !.left = @ \ {f}, !.done = @ \cup {f}, !.name = names] \in Takeover
        BY <3>1 DEF Takeover
      <3>3. [s EXCEPT !.left = @ \ {f}, !.done = @ \cup {f}, !.name[f] = n]
              = [s EXCEPT !.left = @ \ {f}, !.done = @ \cup {f}, !.name = names]
        BY DEF names, Takeover
      <3>. QED  BY <3>2, <3>3
    <2>2. /\ [t EXCEPT !.left = @ \ {f}, !.done = @ \cup {f}, !.name[f] = file[f].name + 1] \in Takeover
          /\ [t EXCEPT !.left = @ \ {f}] \in Takeover
      <3>1. file[f].name + 1 \in Nat
        BY FileNamed
      <3>2. [t EXCEPT !.left = @ \ {f}] \in Takeover
        BY <2>1 DEF Takeover
      <3>. QED  BY <2>1, <2>a, <3>1, <3>2
    <2>3. taking' \subseteq Takeover
      BY <1>5, <2>2 DEF RenameToActualPid, TypeOK
    <2>4. abandoned' \subseteq File
      BY <1>5 DEF RenameToActualPid, TypeOK
    <2>5. [disk |-> "there", pid |-> t.proc, name |-> file[f].name + 1] \in FileState
      <3>1. t.proc \in Nat
        BY <2>1, ProcsTyped DEF Proc
      <3>. QED  BY <3>1, FileNamed DEF FileState
    <2>6. file' \in [File -> FileState] /\ \A g \in File : file'[g] = file[g] \/ file'[g].disk # "dot"
      <3>. DEFINE moved == [disk |-> "there", pid |-> t.proc, name |-> file[f].name + 1]
      <3>1. file' = file \/ file' = [file EXCEPT ![f] = moved]
        BY <1>5 DEF RenameToActualPid
      <3>2. moved \in FileState /\ moved.disk = "there"
        BY <2>5
      <3>. HIDE DEF moved
      <3>. QED  BY <3>1, <3>2 DEF TypeOK
    <2>. QED  BY <1>5, <2>3, <2>4, <2>6, DotsTyped DEF RenameToActualPid, TypeOK
  <1>. QED  BY <1>1, <1>2, <1>3, <1>4, <1>5

LEMMA CommandStepTyped ==
  ASSUME TypeOK, \/ Commanded
                 \/ \E p \in Proc : FlushQueue(p) \/ QueuePush(p) \/ QueueDiscard(p) \/ FlushDomain(p)
                 \/ \E l \in flushing : FlushListed(l)
  PROVE  TypeOK'
  <1>0. \A p \in Proc : \A i \in Timers(p) : i \in Items /\ Fired(i) \in Items
    BY FiredTyped DEF Timers, TypeOK
  <1>1. ASSUME NEW f \in File, NEW event \in {"flush", "flush domain", "push", "discard"},
               SendAll([event |-> event, file |-> f, name |-> file[f].name])
        PROVE  inbox' \in [Proc -> Seq(Order \cup Telling)]
    <2>1. [event |-> event, file |-> f, name |-> file[f].name] \in Telling
      BY TellingTyped, FileNamed
    <2>. DEFINE m == [event |-> event, file |-> f, name |-> file[f].name]
    <2>a. m \in Order \cup Telling
      BY <2>1
    <2>. HIDE DEF m
    <2>2. \A p \in Proc : Append(inbox[p], m) \in Seq(Order \cup Telling)
      BY <2>a, SeqTyped DEF TypeOK
    <2>3. SendAll(m)
      BY <1>1 DEF m
    <2>. QED  BY <2>2, <2>3 DEF SendAll, TypeOK
  <1>2. CASE Commanded
    BY <1>1, <1>2 DEF Commanded, TypeOK, history
  <1>3. ASSUME NEW p \in Proc, FlushQueue(p) PROVE TypeOK'
    <2>1. inbox' \in [Proc -> Seq(Order \cup Telling)]
      BY <1>3, TailTyped DEF FlushQueue, Handle
    <2>2. items' \subseteq Items
      BY <1>0, <1>3 DEF FlushQueue, Run, TypeOK
    <2>. QED  BY <1>3, <2>1, <2>2 DEF FlushQueue, TypeOK, history
  <1>4. ASSUME NEW p \in Proc, QueuePush(p) PROVE TypeOK'
    <2>1. inbox' \in [Proc -> Seq(Order \cup Telling)]
      BY <1>4, TailTyped DEF QueuePush, Handle
    <2>2. items' \subseteq Items
      BY <1>0, <1>4 DEF QueuePush, Named, Run, TypeOK
    <2>. QED  BY <1>4, <2>1, <2>2 DEF QueuePush, TypeOK, history
  <1>5. ASSUME NEW p \in Proc, QueueDiscard(p) PROVE TypeOK'
    <2>1. inbox' \in [Proc -> Seq(Order \cup Telling)]
      BY <1>5, TailTyped DEF QueueDiscard, Handle
    <2>2. items' \subseteq Items
      BY <1>5 DEF QueueDiscard, TypeOK
    <2>3. Head(inbox[p]).file \in File
      BY <1>5, HeadTelling DEF QueueDiscard, Handle
    <2>4. Unlink(Head(inbox[p]))
      BY <1>5 DEF QueueDiscard
    <2>5. /\ file' \in [File -> FileState]
          /\ \A f \in File : file'[f] = file[f] \/ file'[f] = NoFile("gone")
      BY <2>3, <2>4, UnlinkTyped
    <2>6. \A f \in File : file'[f].disk = "dot" => file'[f].pid \in Proc
      BY <2>5, DotsTyped DEF NoFile
    <2>. QED  BY <1>5, <2>1, <2>2, <2>5, <2>6 DEF QueueDiscard, TypeOK, history
  <1>6. ASSUME NEW p \in Proc, FlushDomain(p) PROVE TypeOK'
    <2>1. inbox' \in [Proc -> Seq(Order \cup Telling)]
      BY <1>6, TailTyped DEF FlushDomain, Handle
    <2>2. Head(inbox[p]).file \in File
      BY <1>6, HeadTelling DEF FlushDomain, Handle
    <2>. DEFINE Listed == {[file |-> f, name |-> file[f].name, pid |-> file[f].pid] :
                             f \in {f \in File : file[f].disk = "there"}}
    <2>3. Listed \subseteq Entry
      BY FileNamed DEF Entry
    <2>a. flushing' = flushing \cup {[proc |-> p, domain |-> Head(inbox[p]).file, listed |-> Listed]}
      BY <1>6 DEF FlushDomain
    <2>. HIDE DEF Listed
    <2>4. flushing' \subseteq Listing
      BY <2>a, <2>2, <2>3 DEF TypeOK, Listing
    <2>. QED  BY <1>6, <2>1, <2>4 DEF FlushDomain, TypeOK, history
  <1>7. ASSUME NEW l \in flushing, FlushListed(l) PROVE TypeOK'
    <2>1. l.proc \in Proc /\ l.listed \subseteq Entry
      BY DEF TypeOK, Listing
    <2>2. \A e \in l.listed : e.file \in File /\ e.name \in Nat /\ Item(l.proc, e.file, e.name, "queue") \in Items
      BY <2>1, ItemTyped DEF Entry
    <2>. DEFINE It(e) == [Item(l.proc, e.file, e.name, "queue") EXCEPT !.flushed = TRUE]
                Its   == {e \in l.listed : e.pid = l.proc /\ e.file = l.domain}
    <2>3. \A e \in l.listed : It(e) \in Items
      BY <2>2, ItemAt
    <2>a. items' = items \cup {It(e) : e \in Its} /\ doubtful' = doubtful \cup {e.file : e \in Its}
      BY <1>7 DEF FlushListed
    <2>. HIDE DEF It
    <2>4. items' \subseteq Items /\ doubtful' \subseteq File
      BY <2>a, <2>2, <2>3 DEF TypeOK
    <2>. QED  BY <1>7, <2>4 DEF FlushListed, TypeOK
  <1>. QED  BY <1>2, <1>3, <1>4, <1>5, <1>6, <1>7

(* A replacement is a process that was never there, and has no message but  *)
(* the order to take its predecessor over.                                  *)
LEMMA Replacement ==
  ASSUME TypeOK, NEW p \in Proc, NEW q \in Proc, NEW state \in {"stopping", "dead"}, Replaced(p, q, state), Alive(p)
  PROVE  /\ q # p /\ proc[q] = "none" /\ proc'[q] = "up" /\ proc'[p] = state
         /\ inbox'[q] = Told(p, q, state)
         /\ inbox'[p] = IF state = "dead" THEN <<>> ELSE inbox[p]
         /\ \A r \in Proc \ {p, q} : proc'[r] = proc[r] /\ inbox'[r] = inbox[r]
         /\ proc' \in [Proc -> {"none", "up", "stopping", "dead"}]
         /\ inbox' \in [Proc -> Seq(Order \cup Telling)]
  <1>1. /\ proc[q] = "none"
        /\ proc' = [proc EXCEPT ![p] = state, ![q] = "up"]
        /\ inbox' = [inbox EXCEPT ![p] = IF state = "dead" THEN <<>> ELSE @, ![q] = Told(p, q, state)]
    BY DEF Replaced, Forked, Unborn
  <1>2. q # p
    BY <1>1 DEF Alive
  <1>3. Told(p, q, state) \in Seq(Order \cup Telling)
    <2>1. p \in Nat
      BY ProcsTyped DEF Proc
    <2>2. [event |-> "load", pid |-> p] \in Order \cup Telling
      BY <2>1, OrderTyped
    <2>3. Told(p, q, state) = <<[event |-> "load", pid |-> p]>> \/ Told(p, q, state) = <<>>
      BY DEF Told
    <2>4. <<[event |-> "load", pid |-> p]>> \in Seq(Order \cup Telling)
      BY <2>2, SeqTyped
    <2>5. <<>> \in Seq(Order \cup Telling)
      OBVIOUS
    <2>. QED  BY <2>3, <2>4, <2>5, Zenon
  <1>5. /\ proc'[q] = "up" /\ proc'[p] = state /\ \A r \in Proc \ {p, q} : proc'[r] = proc[r]
        /\ proc' \in [Proc -> {"none", "up", "stopping", "dead"}]
    BY <1>1, <1>2 DEF TypeOK
  <1>6. /\ inbox'[q] = Told(p, q, state) /\ inbox'[p] = (IF state = "dead" THEN <<>> ELSE inbox[p])
        /\ \A r \in Proc \ {p, q} : inbox'[r] = inbox[r]
    BY <1>1, <1>2 DEF TypeOK
  <1>7. inbox' \in [Proc -> Seq(Order \cup Telling)]
    <2>1. inbox \in [Proc -> Seq(Order \cup Telling)] /\ <<>> \in Seq(Order \cup Telling)
      BY DEF TypeOK
    <2>2. \A r \in Proc : inbox'[r] \in Seq(Order \cup Telling)
      BY <2>1, <1>3, <1>6
    <2>3. inbox' = [r \in Proc |-> inbox'[r]]
      BY <2>1, <1>1
    <2>. QED  BY <2>2, <2>3
  <1>. QED  BY <1>1, <1>2, <1>5, <1>6, <1>7

LEMMA EndedTyped ==
  ASSUME TypeOK, NEW p \in Proc, Ended(p)
  PROVE  /\ items' \subseteq Items /\ taking' \subseteq Takeover /\ flushing' \subseteq Listing
         /\ doubtful' \subseteq File /\ OfPid(p) \subseteq File /\ Owed(p) \subseteq File
  <1>1. \A i \in items : i.file \in File
    BY DEF TypeOK, Items
  <1>. QED  BY <1>1 DEF Ended, TypeOK, Owed, OfPid

LEMMA MasterFields ==
  ASSUME NEW m \in Master, NEW p \in Proc
  PROVE  /\ \A q \in Proc : [m EXCEPT !.todo = @ \ {p}, !.fresh = @ \cup {q}] \in Master
         /\ [m EXCEPT !.fresh = @ \ {p}, !.own = @ \cup {p}] \in Master
  BY DEF Master

LEMMA HeardTyped ==
  ASSUME TypeOK, NEW p \in Proc, Alive(p), Heard(p) \/ Unheard(p)
  PROVE  TypeOK'
  <1>1. Ended(p) /\ UNCHANGED master
    BY DEF Heard, Unheard
  <1>2. CASE Heard(p)
    <2>1. PICK q \in Proc : Replaced(p, q, "dead")
      BY <1>2 DEF Heard
    <2>2. /\ proc' \in [Proc -> {"none", "up", "stopping", "dead"}]
          /\ inbox' \in [Proc -> Seq(Order \cup Telling)]
      BY <2>1, Replacement
    <2>3. abandoned' = abandoned \cup Owed(p)
      BY <1>2 DEF Heard
    <2>. QED  BY <1>1, <2>2, <2>3, EndedTyped DEF Ended, TypeOK
  <1>3. CASE Unheard(p)
    <2>1. abandoned' = abandoned \cup OfPid(p) \cup Owed(p)
      BY <1>3 DEF Unheard
    <2>2. proc' \in [Proc -> {"none", "up", "stopping", "dead"}]
      BY <1>3 DEF Unheard, TypeOK
    <2>3. inbox' \in [Proc -> Seq(Order \cup Telling)]
      BY <1>3 DEF Unheard, TypeOK
    <2>. QED  BY <1>1, <2>1, <2>2, <2>3, EndedTyped DEF Ended, TypeOK
  <1>. QED  BY <1>2, <1>3

LEMMA EndStepTyped ==
  ASSUME TypeOK, GracefulRestart \/ \E p \in Proc : Die(p) \/ Stop(p) \/ Listening(p) \/ Exit(p)
  PROVE  TypeOK'
  <1>1. CASE GracefulRestart
    <2>. DEFINE workers == {p \in Proc : proc[p] = "up"}
                limit   == IF Cardinality(workers) < 3 THEN 1 ELSE Cardinality(workers) - 1
    <2>1. Cardinality(workers) \in Nat
      <3>1. IsFiniteSet(Proc)
        BY FS_Interval, ProcsTyped DEF Proc
      <3>2. IsFiniteSet(workers)
        BY <3>1, FS_Subset
      <3>. QED  BY <3>2, FS_CardinalityType
    <2>2. limit \in Nat
      BY <2>1
    <2>3. master' = [master EXCEPT !.listening = FALSE, !.todo = workers, !.limit = limit]
      BY <1>1 DEF GracefulRestart
    <2>4. workers \in SUBSET Proc
      OBVIOUS
    <2>. HIDE DEF workers, limit
    <2>5. master' \in Master
      BY <2>2, <2>3, <2>4 DEF TypeOK, Master
    <2>. QED  BY <1>1, <2>5 DEF GracefulRestart, TypeOK, history
  <1>2. ASSUME NEW p \in Proc, Die(p) \/ Exit(p) PROVE TypeOK'
    BY <1>2, HeardTyped DEF Die, Exit, Alive
  <1>3. ASSUME NEW p \in Proc, Stop(p) PROVE TypeOK'
    <2>1. PICK q \in Proc : Replaced(p, q, "stopping") /\ master' = [master EXCEPT !.todo = @ \ {p}, !.fresh = @ \cup {q}]
      BY <1>3 DEF Stop
    <2>2. Alive(p)
      BY <1>3 DEF Stop, Alive
    <2>3. /\ proc' \in [Proc -> {"none", "up", "stopping", "dead"}]
          /\ inbox' \in [Proc -> Seq(Order \cup Telling)]
      BY <2>1, <2>2, Replacement
    <2>4. master' \in Master
      BY <2>1, MasterFields DEF TypeOK
    <2>. QED  BY <1>3, <2>3, <2>4 DEF Stop, TypeOK, history
  <1>4. ASSUME NEW p \in Proc, Listening(p) PROVE TypeOK'
    <2>1. master' \in Master
      BY <1>4, MasterFields DEF Listening, TypeOK
    <2>. QED  BY <1>4, <2>1 DEF Listening, TypeOK, history
  <1>. QED  BY <1>1, <1>2, <1>3, <1>4

-----------------------------------------------------------------------------
(* Who has what in hand. *)
LEMMA Typings ==
  ASSUME TypeOK
  PROVE  /\ \A i \in items : i.proc \in Proc /\ i.file \in File /\ i.name \in Nat
         /\ \A t \in taking : t.proc \in Proc /\ t.pid \in Nat /\ t.left \subseteq File /\ t.done \subseteq File
         /\ \A l \in flushing : l.proc \in Proc /\ l.listed \subseteq Entry
         /\ \A e \in Entry : e.file \in File /\ e.pid \in Nat /\ e.name \in Nat
  BY DEF TypeOK, Items, Takeover, Listing, Entry

Tailed(p) == inbox[p] # <<>> /\ inbox' = [inbox EXCEPT ![p] = Tail(@)]

LEMMA OrdersKept ==
  ASSUME TypeOK, OrdersOver, OrderedOnce, UNCHANGED proc,
         \A s \in taking' : \E t \in taking : s.pid = t.pid,
         UNCHANGED inbox \/ \E p \in Proc : Tailed(p)
  PROVE  OrdersOver' /\ OrderedOnce'
  <1>1. CASE UNCHANGED inbox
    BY <1>1 DEF OrdersOver, OrderedOnce, Ordered, Over
  <1>2. ASSUME NEW p \in Proc, Tailed(p) PROVE OrdersOver' /\ OrderedOnce'
    <2>. DEFINE At(q, n) == IF q = p THEN n + 1 ELSE n
    <2>1. \A q \in Proc, n, o \in Nat : Ordered(q, n, o)' => Ordered(q, At(q, n), o)
      BY <1>2, TailOrders DEF Tailed
    <2>2. \A q \in Proc, n \in Nat : At(q, n) \in Nat
      OBVIOUS
    <2>3. \A q \in Proc, n, k \in Nat : At(q, n) = At(q, k) => n = k
      OBVIOUS
    <2>. HIDE DEF At
    <2>4. OrdersOver'
      <3>1. ASSUME NEW q \in Proc, NEW n \in Nat, NEW o \in Nat, Ordered(q, n, o)'
            PROVE  Over(o)' /\ \A t \in taking' : t.pid # o
        <4>1. Ordered(q, At(q, n), o) /\ At(q, n) \in Nat
          BY <3>1, <2>1, <2>2
        <4>2. Over(o) /\ \A t \in taking : t.pid # o
          BY <4>1 DEF OrdersOver
        <4>. QED  BY <4>2 DEF Over
      <3>. QED  BY <3>1 DEF OrdersOver
    <2>5. OrderedOnce'
      BY <2>1, <2>2, <2>3 DEF OrderedOnce
    <2>. QED  BY <2>4, <2>5
  <1>. QED  BY <1>1, <1>2

LEMMA LivingKept ==
  ASSUME TypeOK, Living, UNCHANGED proc,
         \A j \in items' : Alive(j.proc), \A t \in taking' : Alive(t.proc), \A l \in flushing' : Alive(l.proc),
         UNCHANGED inbox \/ \E p \in Proc : Tailed(p)
  PROVE  Living'
  <1>1. \A p : Alive(p)' <=> Alive(p)
    BY DEF Alive
  <1>2. \A p \in Proc : Alive(p) \/ inbox'[p] = <<>>
    <2>1. CASE UNCHANGED inbox
      BY <2>1 DEF Living
    <2>2. ASSUME NEW q \in Proc, Tailed(q) PROVE \A p \in Proc : Alive(p) \/ inbox'[p] = <<>>
      BY <2>2 DEF Living, Tailed, TypeOK
    <2>. QED  BY <2>1, <2>2
  <1>. QED  BY <1>1, <1>2 DEF Living

(* A step that hands nobody anything new.                                   *)
LEMMA HandsKept ==
  ASSUME TypeOK, HandsInv, UNCHANGED <<proc, taking, flushing>>,
         \A j \in items' : \E i \in items : i.proc = j.proc /\ i.file = j.file,
         \A f \in File : \A o : Own(f, o) => Own(f, o)',
         UNCHANGED inbox \/ \E p \in Proc : Tailed(p)
  PROVE  HandsInv'
  <1>1. Living'
    BY LivingKept DEF HandsInv, Living
  <1>2. Owned'
    BY Typings DEF HandsInv, Owned
  <1>3. OrdersOver' /\ OrderedOnce'
    BY OrdersKept DEF HandsInv
  <1>4. TakenOnce'
    BY DEF HandsInv, TakenOnce, Over
  <1>5. OneHolder'
    <2>1. \A f \in File, p \in Proc : Holds(p, f)' => Holds(p, f)
      BY DEF Holds
    <2>. QED  BY <2>1 DEF HandsInv, OneHolder
  <1>. QED  BY <1>1, <1>2, <1>3, <1>4, <1>5 DEF HandsInv

LEMMA UnlinkOwn ==
  ASSUME TypeOK, NEW x, x.file \in File, Unlink(x)
  PROVE  \A f \in File : \A o : Own(f, o) => Own(f, o)'
  BY UnlinkTyped DEF Own, NoFile

LEMMA FiredFields == \A i : Fired(i).proc = i.proc /\ Fired(i).file = i.file /\ Fired(i).name = i.name
  BY DEF Fired

LEMMA ItemFields ==
  ASSUME NEW i \in Items, NEW at, NEW n
  PROVE  /\ [i EXCEPT !.at = at].proc = i.proc /\ [i EXCEPT !.at = at].file = i.file
         /\ [i EXCEPT !.at = at].name = i.name /\ [i EXCEPT !.at = at].at = at
         /\ [i EXCEPT !.name = n, !.at = at].proc = i.proc /\ [i EXCEPT !.name = n, !.at = at].file = i.file
         /\ [i EXCEPT !.name = n, !.at = at].name = n /\ [i EXCEPT !.name = n, !.at = at].at = at
         /\ [i EXCEPT !.at = at, !.loading = TRUE].proc = i.proc
         /\ [i EXCEPT !.at = at, !.loading = TRUE].file = i.file
         /\ [i EXCEPT !.at = at, !.loading = TRUE].name = i.name
         /\ [i EXCEPT !.at = at, !.loading = TRUE].at = at
         /\ [i EXCEPT !.todo = "read", !.loading = FALSE].proc = i.proc
         /\ [i EXCEPT !.todo = "read", !.loading = FALSE].file = i.file
         /\ [i EXCEPT !.todo = "read", !.loading = FALSE].name = i.name
         /\ [i EXCEPT !.todo = "read", !.loading = FALSE].at = i.at
         /\ [i EXCEPT !.todo = "never"].proc = i.proc /\ [i EXCEPT !.todo = "never"].file = i.file
         /\ [i EXCEPT !.todo = "never"].name = i.name /\ [i EXCEPT !.todo = "never"].at = i.at
         /\ [i EXCEPT !.flushed = TRUE].proc = i.proc
         /\ [i EXCEPT !.flushed = TRUE].file = i.file
  BY Zenon DEF Items

(* What an item does by itself, and what is done to the items of a process. *)
InPlace(i, j) == j.proc = i.proc /\ j.file = i.file

LEMMA ItemsStepHands ==
  ASSUME TypeOK, HandsInv, NEW i \in items,
         LoadFile(i) \/ ReadTodo(i) \/ Send(i) \/ Taken(i) \/ Done(i) \/ PutOff(i) \/ Fire(i)
  PROVE  HandsInv'
  <1>1. i \in Items /\ i.file \in File
    BY DEF TypeOK, Items
  <1>2. UNCHANGED <<proc, taking, flushing, inbox>>
    BY DEF LoadFile, ReadTodo, Send, Taken, Done, PutOff, Fire
  <1>3. \/ items' = items \ {i}
        \/ \E j : InPlace(i, j) /\ items' = (items \ {i}) \cup {j}
    <2>1. CASE LoadFile(i)
      BY <1>1, <2>1, ItemFields DEF LoadFile, Replace, InPlace
    <2>2. CASE ReadTodo(i)
      BY <1>1, <2>2, ItemFields DEF ReadTodo, Replace, InPlace
    <2>3. CASE Send(i)
      BY <1>1, <2>3, ItemFields DEF Send, Replace, InPlace
    <2>4. CASE Taken(i)
      BY <1>1, <2>4, ItemFields DEF Taken, Replace, InPlace
    <2>5. CASE Done(i)
      BY <2>5 DEF Done
    <2>6. CASE PutOff(i)
      <3>1. InPlace(i, [i EXCEPT !.name = i.name + 1, !.at = "timer"])
        BY <1>1, ItemFields DEF InPlace
      <3>2. items' = (items \ {i}) \cup {[i EXCEPT !.name = i.name + 1, !.at = "timer"]}
        BY <2>6 DEF PutOff, Replace
      <3>. QED  BY <3>1, <3>2
    <2>7. CASE Fire(i)
      BY <2>7, FiredFields DEF Fire, Replace, InPlace
    <2>. QED  BY <2>1, <2>2, <2>3, <2>4, <2>5, <2>6, <2>7
  <1>4. \A j \in items' : \E k \in items : k.proc = j.proc /\ k.file = j.file
    BY <1>3 DEF InPlace
  <1>5. \A f \in File : \A o : Own(f, o) => Own(f, o)'
    <2>1. CASE UNCHANGED file
      BY <2>1 DEF Own
    <2>2. CASE Done(i)
      BY <1>1, <2>2, UnlinkOwn DEF Done
    <2>3. CASE PutOff(i)
      <3>1. file' = [file EXCEPT ![i.file] = [file[i.file] EXCEPT !.name = @ + 1]]
        BY <2>3 DEF PutOff
      <3>2. [file[i.file] EXCEPT !.name = @ + 1].disk = file[i.file].disk
            /\ [file[i.file] EXCEPT !.name = @ + 1].pid = file[i.file].pid
        BY <1>1, FileNamed, Renamed
      <3>3. \A f \in File : file'[f].disk = file[f].disk /\ file'[f].pid = file[f].pid
        BY <3>1, <3>2 DEF TypeOK
      <3>. QED  BY <3>3 DEF Own
    <2>. QED  BY <2>1, <2>2, <2>3 DEF LoadFile, ReadTodo, Send, Taken, Fire
  <1>. QED  BY <1>2, <1>4, <1>5, HandsKept

LEMMA CommandStepHands ==
  ASSUME TypeOK, HandsInv, NEW p \in Proc, FlushQueue(p) \/ QueuePush(p) \/ QueueDiscard(p)
  PROVE  HandsInv'
  <1>1. UNCHANGED <<proc, taking, flushing>> /\ Tailed(p)
    BY DEF FlushQueue, QueuePush, QueueDiscard, Handle, Tailed
  <1>2. \A j \in items' : \E k \in items : k.proc = j.proc /\ k.file = j.file
    <2>1. \A timers : timers \subseteq items /\ Run(timers) =>
             \A j \in items' : \E k \in items : k.proc = j.proc /\ k.file = j.file
      BY FiredFields DEF Run
    <2>2. Timers(p) \subseteq items /\ Named(p) \subseteq items
      BY DEF Timers, Named
    <2>3. CASE FlushQueue(p)
      BY <2>1, <2>2, <2>3 DEF FlushQueue
    <2>4. CASE QueuePush(p)
      <3>1. CASE UNCHANGED items
        BY <3>1
      <3>2. ASSUME NEW i \in Named(p), Run({i})
            PROVE  \A j \in items' : \E k \in items : k.proc = j.proc /\ k.file = j.file
        BY <2>1, <2>2, <3>2
      <3>. QED  BY <2>4, <3>1, <3>2 DEF QueuePush
    <2>5. CASE QueueDiscard(p)
      BY <2>5 DEF QueueDiscard
    <2>. QED  BY <2>3, <2>4, <2>5
  <1>3. \A f \in File : \A o : Own(f, o) => Own(f, o)'
    <2>1. CASE UNCHANGED file
      BY <2>1 DEF Own
    <2>2. CASE QueueDiscard(p)
      <3>1. Head(inbox[p]).file \in File
        BY <2>2, HeadTelling DEF QueueDiscard, Handle
      <3>2. Unlink(Head(inbox[p]))
        BY <2>2 DEF QueueDiscard
      <3>. QED  BY <3>1, <3>2, UnlinkOwn
    <2>. QED  BY <2>1, <2>2 DEF FlushQueue, QueuePush
  <1>. QED  BY <1>1, <1>2, <1>3, HandsKept

LEMMA CommandedHands ==
  ASSUME TypeOK, HandsInv, Commanded
  PROVE  HandsInv'
  <1>1. PICK g \in File, event \in {"flush", "flush domain", "push", "discard"} :
          SendAll([event |-> event, file |-> g, name |-> file[g].name])
    BY DEF Commanded
  <1>2. \A q \in Proc, n, o \in Nat : Ordered(q, n, o)' <=> Ordered(q, n, o)
    <2>. DEFINE m == [event |-> event, file |-> g, name |-> file[g].name]
    <2>1. m.event # "load" /\ SendAll(m)
      BY <1>1
    <2>. HIDE DEF m
    <2>. QED  BY <2>1, TellOrders
  <1>3. OrdersOver' /\ OrderedOnce'
    <2>1. UNCHANGED <<proc, taking>>
      BY DEF Commanded
    <2>2. \A o : Over(o)' <=> Over(o)
      BY <2>1 DEF Over
    <2>3. OrdersOver'
      BY <1>2, <2>1, <2>2 DEF HandsInv, OrdersOver
    <2>4. OrderedOnce'
      BY <1>2 DEF HandsInv, OrderedOnce
    <2>. QED  BY <2>3, <2>4
  <1>4. Living'
    BY <1>1 DEF HandsInv, Living, Alive, Commanded, SendAll
  <1>5. Owned' /\ TakenOnce' /\ OneHolder'
    <2>1. UNCHANGED <<proc, file, items, taking, flushing>>
      BY DEF Commanded
    <2>2. Owned'
      BY <2>1 DEF HandsInv, Owned, Own
    <2>3. TakenOnce'
      BY <2>1 DEF HandsInv, TakenOnce, Over
    <2>4. OneHolder'
      <3>1. \A f \in File, p \in Proc : Holds(p, f)' => Holds(p, f)
        BY <2>1 DEF Holds
      <3>. QED  BY <3>1 DEF HandsInv, OneHolder
    <2>. QED  BY <2>2, <2>3, <2>4
  <1>. QED  BY <1>3, <1>4, <1>5 DEF HandsInv

(* A listing holds what is its process's own, and gives that on.            *)
LEMMA FlushDomainHands ==
  ASSUME TypeOK, HandsInv, NEW p \in Proc, FlushDomain(p)
  PROVE  HandsInv'
  <1>. DEFINE Listed == {[file |-> f, name |-> file[f].name, pid |-> file[f].pid] :
                           f \in {f \in File : file[f].disk = "there"}}
              new    == [proc |-> p, domain |-> Head(inbox[p]).file, listed |-> Listed]
  <1>1. /\ flushing' = flushing \cup {new} /\ UNCHANGED <<proc, file, items, taking>> /\ Tailed(p) /\ Alive(p)
        /\ new.proc = p /\ new.listed = Listed
    BY DEF FlushDomain, Handle, Tailed
  <1>2. \A e \in Listed : e.file \in File /\ file[e.file].disk = "there" /\ file[e.file].pid = e.pid
    OBVIOUS
  <1>. HIDE DEF new, Listed
  <1>3. Living'
    BY <1>1, LivingKept DEF HandsInv, Living
  <1>4. Owned'
    BY <1>1, <1>2 DEF HandsInv, Owned, Own
  <1>5. OrdersOver' /\ OrderedOnce' /\ TakenOnce'
    BY <1>1, OrdersKept DEF HandsInv, TakenOnce, Over
  <1>6. OneHolder'
    <2>1. ~Over(p)
      BY <1>1, AliveNotOver
    <2>2. ASSUME NEW f \in File, NEW q \in Proc, Holds(q, f)'
          PROVE  Holds(q, f) \/ (q = p /\ file[f].disk = "there" /\ file[f].pid = p)
      BY <1>1, <1>2, <2>2 DEF Holds
    <2>3. ASSUME NEW f \in File, file[f].disk = "there", file[f].pid = p, NEW q \in Proc, Holds(q, f) PROVE q = p
      BY <2>1, <2>3, LivingHeld DEF HandsInv, Holds
    <2>. QED  BY <2>2, <2>3 DEF HandsInv, OneHolder
  <1>. QED  BY <1>3, <1>4, <1>5, <1>6 DEF HandsInv

LEMMA FlushListedHands ==
  ASSUME TypeOK, HandsInv, NEW l \in flushing, FlushListed(l)
  PROVE  HandsInv'
  <1>. DEFINE It(e) == [Item(l.proc, e.file, e.name, "queue") EXCEPT !.flushed = TRUE]
              Its   == {e \in l.listed : e.pid = l.proc /\ e.file = l.domain}
  <1>1. /\ items' = items \cup {It(e) : e \in Its} /\ flushing' = flushing \ {l}
        /\ UNCHANGED <<proc, inbox, file, taking>>
    BY DEF FlushListed
  <1>2. \A e : It(e).proc = l.proc /\ It(e).file = e.file
    BY DEF Item
  <1>3. Its \subseteq l.listed /\ \A e \in Its : e.pid = l.proc
    OBVIOUS
  <1>. HIDE DEF It, Its
  <1>4. Living'
    BY <1>1, <1>2, LivingKept DEF HandsInv, Living
  <1>5. Owned'
    BY <1>1, <1>2, <1>3 DEF HandsInv, Owned, Own
  <1>6. OrdersOver' /\ OrderedOnce' /\ TakenOnce'
    BY <1>1, OrdersKept DEF HandsInv, TakenOnce, Over
  <1>7. OneHolder'
    <2>1. \A f \in File, q \in Proc : Holds(q, f)' => Holds(q, f)
      BY <1>1, <1>2, <1>3 DEF Holds
    <2>. QED  BY <2>1 DEF HandsInv, OneHolder
  <1>. QED  BY <1>4, <1>5, <1>6, <1>7 DEF HandsInv

(* A takeover begins: an order about a process that is over, of whose files *)
(* nobody has one.                                                          *)
LEMMA LoadPidQueueHands ==
  ASSUME TypeOK, HandsInv, NEW p \in Proc, LoadPidQueue(p)
  PROVE  HandsInv'
  <1>. DEFINE o   == Head(inbox[p]).pid
              new == [proc |-> p, pid |-> o, left |-> OfPid(o), done |-> {}, name |-> [f \in File |-> 0]]
  <1>1. /\ taking' = taking \cup {new} /\ UNCHANGED <<proc, items, flushing>> /\ Tailed(p) /\ Alive(p)
        /\ new.proc = p /\ new.pid = o /\ new.left = OfPid(o) /\ new.done = {}
    BY DEF LoadPidQueue, Tailed, Sought
  <1>2. Ordered(p, 1, o) /\ o \in Nat
    BY HeadOrder DEF LoadPidQueue
  <1>3. Over(o) /\ \A t \in taking : t.pid # o
    BY <1>2 DEF HandsInv, OrdersOver
  <1>4. \A f \in OfPid(o) : f \in File /\ file[f].disk = "there" /\ file[f].pid = o
    BY DEF OfPid
  <1>5. \A f \in File : file'[f] = file[f] \/ (file[f].disk = "dot" /\ file'[f] = NoFile("gone"))
    BY DEF LoadPidQueue
  <1>6. \A f \in File : \A x : Own(f, x) => Own(f, x)'
    BY <1>5 DEF Own
  <1>7. \A q : \A f : Ordered(q, f, o) => (q = p /\ f = 1) \/ q \notin Proc \/ f \notin Nat
    BY <1>2 DEF HandsInv, OrderedOnce
  <1>. HIDE DEF o, new
  <1>8. Living'
    BY <1>1, LivingKept DEF HandsInv, Living
  <1>9. Owned'
    <2>1. \A f \in OfPid(o) : Own(f, o)
      BY <1>4 DEF Own
    <2>. QED  BY <1>1, <1>4, <1>6, <2>1, Typings DEF HandsInv, Owned
  <1>10. OrdersOver' /\ OrderedOnce'
    <2>. DEFINE At(q, n) == IF q = p THEN n + 1 ELSE n
    <2>1. \A q \in Proc, n, x \in Nat : Ordered(q, n, x)' => Ordered(q, At(q, n), x)
      BY <1>1, TailOrders DEF Tailed
    <2>2. \A q \in Proc, n \in Nat : At(q, n) \in Nat /\ (q = p /\ n # 0 => At(q, n) # 1)
      OBVIOUS
    <2>3. \A q \in Proc, n, k \in Nat : At(q, n) = At(q, k) => n = k
      OBVIOUS
    <2>. HIDE DEF At
    <2>4. ASSUME NEW q \in Proc, NEW n \in Nat, NEW x \in Nat, Ordered(q, n, x)'
          PROVE  Over(x)' /\ \A t \in taking' : t.pid # x
      <3>1. Ordered(q, At(q, n), x) /\ At(q, n) \in Nat
        BY <2>1, <2>2, <2>4
      <3>a. inbox'[q] \in Seq(Order \cup Telling)
        BY <1>1, TailTyped DEF Tailed
      <3>b. n # 0
        BY <2>4, <3>a DEF Ordered
      <3>2. x # o
        BY <1>7, <2>2, <3>1, <3>b
      <3>3. Over(x) /\ \A t \in taking : t.pid # x
        BY <3>1 DEF HandsInv, OrdersOver
      <3>. QED  BY <1>1, <3>2, <3>3 DEF Over
    <2>5. OrderedOnce'
      BY <2>1, <2>2, <2>3 DEF HandsInv, OrderedOnce
    <2>. QED  BY <2>4, <2>5 DEF OrdersOver
  <1>11. TakenOnce'
    BY <1>1, <1>3 DEF HandsInv, TakenOnce, Over
  <1>12. OneHolder'
    <2>1. ASSUME NEW f \in File, NEW q \in Proc, Holds(q, f)' PROVE Holds(q, f) \/ (q = p /\ f \in OfPid(o))
      BY <1>1, <2>1 DEF Holds
    <2>2. ASSUME NEW f \in OfPid(o), NEW q \in Proc PROVE ~Holds(q, f)
      BY <1>3, <1>4, OverHeld DEF HandsInv, Holds
    <2>. QED  BY <2>1, <2>2 DEF HandsInv, OneHolder
  <1>. QED  BY <1>8, <1>9, <1>10, <1>11, <1>12 DEF HandsInv

(* A file to be taken over changes its name, or not, and stays in that hand.*)
LEMMA RenameHands ==
  ASSUME TypeOK, HandsInv, NEW t \in taking, NEW f \in File, RenameToActualPid(t, f)
  PROVE  HandsInv'
  <1>. DEFINE kept == [t EXCEPT !.left = @ \ {f}, !.done = @ \cup {f}, !.name[f] = file[f].name + 1]
              lost == [t EXCEPT !.left = @ \ {f}]
  <1>1. t \in Takeover /\ t.proc \in Proc /\ f \in t.left
    BY DEF TypeOK, Takeover, RenameToActualPid
  <1>2. /\ kept.proc = t.proc /\ kept.pid = t.pid /\ kept.left = t.left \ {f} /\ kept.done = t.done \cup {f}
        /\ lost.proc = t.proc /\ lost.pid = t.pid /\ lost.left = t.left \ {f} /\ lost.done = t.done
    BY <1>1 DEF Takeover
  <1>3. UNCHANGED <<proc, inbox, items, flushing>>
    BY DEF RenameToActualPid
  <1>4. \/ /\ taking' = (taking \ {t}) \cup {kept} /\ file[f].disk = "there" /\ file'[f].disk = "there"
           /\ file'[f].pid = t.proc /\ \A g \in File : g # f => file'[g] = file[g]
        \/ taking' = (taking \ {t}) \cup {lost} /\ UNCHANGED file
    <2>. DEFINE moved == [disk |-> "there", pid |-> t.proc, name |-> file[f].name + 1]
    <2>1. \/ taking' = (taking \ {t}) \cup {kept} /\ file[f].disk = "there" /\ file' = [file EXCEPT ![f] = moved]
          \/ taking' = (taking \ {t}) \cup {lost} /\ UNCHANGED file
      BY DEF RenameToActualPid
    <2>2. moved.disk = "there" /\ moved.pid = t.proc
      OBVIOUS
    <2>. HIDE DEF moved, kept, lost
    <2>. QED  BY <2>1, <2>2 DEF TypeOK
  <1>. HIDE DEF kept, lost
  <1>5. PICK new : /\ taking' = (taking \ {t}) \cup {new} /\ new.proc = t.proc /\ new.pid = t.pid
                   /\ new.left = t.left \ {f} /\ t.done \subseteq new.done /\ new.done \subseteq t.done \cup {f}
                   /\ \/ UNCHANGED file /\ new.done = t.done
                      \/ /\ file[f].disk = "there" /\ file'[f].disk = "there"
                         /\ file'[f].pid = t.proc /\ \A g \in File : g # f => file'[g] = file[g]
    BY <1>2, <1>4
  <1>6. Living'
    BY <1>3, <1>5, LivingKept DEF HandsInv, Living
  <1>7. OrdersOver' /\ OrderedOnce'
    BY <1>3, <1>5, OrdersKept DEF HandsInv
  <1>8. TakenOnce'
    BY <1>3, <1>5 DEF HandsInv, TakenOnce, Over
  <1>9. OneHolder'
    <2>1. ASSUME NEW g \in File, NEW q \in Proc, Holds(q, g)' PROVE Holds(q, g)
      BY <1>1, <1>3, <1>5, <2>1 DEF Holds
    <2>. QED  BY <2>1 DEF HandsInv, OneHolder
  <1>10. Owned'
    <2>1. CASE UNCHANGED file /\ new.done = t.done
      BY <1>3, <1>5, <2>1 DEF HandsInv, Owned, Own
    <2>2. CASE /\ file[f].disk = "there" /\ file'[f].disk = "there"
               /\ file'[f].pid = t.proc /\ \A g \in File : g # f => file'[g] = file[g]
      <3>1. file[f].pid = t.pid /\ Over(file[f].pid)
        BY <1>1, <2>2 DEF HandsInv, Owned, Own, TakenOnce
      <3>2. /\ \A i \in items : i.file # f
            /\ \A s \in taking : f \notin s.done /\ (f \in s.left => s.pid = t.pid)
            /\ \A l \in flushing : \A e \in l.listed : e.file = f => e.pid # l.proc
        BY <2>2, <3>1, OverHeld DEF HandsInv
      <3>3. \A s \in taking : s # t => f \notin s.left
        BY <3>2 DEF HandsInv, TakenOnce
      <3>4. \A g \in File : \A x : g # f => (Own(g, x)' <=> Own(g, x))
        BY <2>2 DEF Own
      <3>5. Own(f, t.proc)'
        BY <2>2 DEF Own
      <3>6. \A i \in items : Own(i.file, i.proc)'
        BY <3>2, <3>4, Typings DEF HandsInv, Owned
      <3>7. \A l \in flushing : \A e \in l.listed : e.pid = l.proc => Own(e.file, l.proc)'
        BY <3>2, <3>4, Typings DEF HandsInv, Owned
      <3>8. \A s \in taking \ {t} : (\A g \in s.done : Own(g, s.proc)') /\ (\A g \in s.left : Own(g, s.pid)')
        BY <3>2, <3>3, <3>4, Typings DEF HandsInv, Owned
      <3>9. (\A g \in new.done : Own(g, t.proc)') /\ (\A g \in new.left : Own(g, t.pid)')
        BY <1>5, <3>4, <3>5, Typings DEF HandsInv, Owned
      <3>. QED  BY <1>3, <1>5, <3>6, <3>7, <3>8, <3>9 DEF Owned
    <2>. QED  BY <1>5, <2>1, <2>2
  <1>. QED  BY <1>6, <1>7, <1>8, <1>9, <1>10 DEF HandsInv

LEMMA AddFilesHands ==
  ASSUME TypeOK, HandsInv, NEW t \in taking, AddFiles(t)
  PROVE  HandsInv'
  <1>1. UNCHANGED <<proc, inbox, file, flushing>> /\ taking' = taking \ {t}
    BY DEF AddFiles
  <1>2. \A j \in items' : j \in items \/ (j.proc = t.proc /\ j.file \in t.done)
    BY DEF AddFiles, Item
  <1>3. Living'
    BY <1>1, <1>2, LivingKept DEF HandsInv, Living
  <1>4. Owned'
    BY <1>1, <1>2 DEF HandsInv, Owned, Own
  <1>5. OrdersOver' /\ OrderedOnce' /\ TakenOnce'
    BY <1>1, OrdersKept DEF HandsInv, TakenOnce, Over
  <1>6. OneHolder'
    <2>1. ASSUME NEW g \in File, NEW q \in Proc, Holds(q, g)' PROVE Holds(q, g)
      BY <1>1, <1>2, <2>1 DEF Holds
    <2>. QED  BY <2>1 DEF HandsInv, OneHolder
  <1>. QED  BY <1>3, <1>4, <1>5, <1>6 DEF HandsInv

LEMMA NewFileHands ==
  ASSUME TypeOK, HandsInv, NEW f \in File, Queued(f) \/ \E p \in Proc : WriteFile(p, f)
  PROVE  HandsInv'
  <1>1. CASE Queued(f)
    <2>. DEFINE new == Item(file[f].pid, f, file[f].name, "queue")
    <2>1. /\ items' = items \cup {new} /\ new.proc = file[f].pid /\ new.file = f
          /\ UNCHANGED <<proc, inbox, taking, flushing>>
      BY <1>1 DEF Queued, Item
    <2>2. file[f].disk = "dot" /\ Alive(file[f].pid)
      BY <1>1 DEF Queued
    <2>3. file'[f].disk = "there" /\ file'[f].pid = file[f].pid /\ \A g \in File : g # f => file'[g] = file[g]
      <3>1. file' = [file EXCEPT ![f] = [file[f] EXCEPT !.disk = "there"]]
        BY <1>1 DEF Queued
      <3>. QED  BY <3>1, FileNamed, Renamed DEF TypeOK
    <2>4. Living'
      <3>. HIDE DEF new
      <3>. QED  BY <2>1, <2>2, LivingKept DEF HandsInv, Living
    <2>5. Owned'
      <3>. HIDE DEF new
      <3>1. \A g \in File : \A x : Own(g, x) => Own(g, x)'
        BY <2>2, <2>3 DEF Own
      <3>2. Own(f, file[f].pid)'
        BY <2>3 DEF Own
      <3>3. \A i \in items : Own(i.file, i.proc)'
        BY <3>1, Typings DEF HandsInv, Owned
      <3>4. \A t \in taking : (\A g \in t.done : Own(g, t.proc)') /\ (\A g \in t.left : Own(g, t.pid)')
        BY <3>1, Typings DEF HandsInv, Owned
      <3>5. \A l \in flushing : \A e \in l.listed : e.pid = l.proc => Own(e.file, l.proc)'
        BY <3>1, Typings DEF HandsInv, Owned
      <3>6. ASSUME NEW j, j = new PROVE Own(j.file, j.proc)'
        BY <2>1, <2>3, <3>6 DEF Own
      <3>. QED  BY <2>1, <3>3, <3>4, <3>5, <3>6 DEF Owned
    <2>6. OrdersOver' /\ OrderedOnce' /\ TakenOnce'
      BY <2>1, OrdersKept DEF HandsInv, TakenOnce, Over
    <2>7. OneHolder'
      <3>. HIDE DEF new
      <3>1. ASSUME NEW g \in File, NEW q \in Proc, Holds(q, g)' PROVE Holds(q, g) \/ (q = file[f].pid /\ g = f)
        BY <2>1, <3>1 DEF Holds
      <3>2. \A q \in Proc : ~Holds(q, f)
        BY <2>2, Unheld DEF HandsInv, Holds
      <3>. QED  BY <3>1, <3>2 DEF HandsInv, OneHolder
    <2>. QED  BY <2>4, <2>5, <2>6, <2>7 DEF HandsInv
  <1>2. ASSUME NEW p \in Proc, WriteFile(p, f) PROVE HandsInv'
    <2>1. \A g \in File : \A x : Own(g, x) => Own(g, x)'
      BY <1>2 DEF WriteFile, Own, TypeOK
    <2>2. UNCHANGED <<proc, inbox, items, taking, flushing>>
      BY <1>2 DEF WriteFile
    <2>. QED  BY <2>1, <2>2, HandsKept
  <1>. QED  BY <1>1, <1>2

(* A process ends, and another takes over what it had.                      *)
LEMMA EndedHands ==
  ASSUME TypeOK, HandsInv, NEW p \in Proc, Ended(p), UNCHANGED file
  PROVE  /\ Owned' /\ OneHolder'
         /\ \A i \in items' : i \in items /\ i.proc # p
         /\ \A t \in taking' : t \in taking /\ t.proc # p
         /\ \A l \in flushing' : l \in flushing /\ l.proc # p
  <1>1. /\ \A i \in items' : i \in items /\ i.proc # p
        /\ \A t \in taking' : t \in taking /\ t.proc # p
        /\ \A l \in flushing' : l \in flushing /\ l.proc # p
    BY DEF Ended
  <1>2. Owned'
    BY <1>1 DEF HandsInv, Owned, Own
  <1>3. ASSUME NEW g \in File, NEW q \in Proc, Holds(q, g)' PROVE Holds(q, g)
    BY <1>1, <1>3 DEF Holds
  <1>. QED  BY <1>1, <1>2, <1>3 DEF HandsInv, OneHolder

LEMMA HeardHands ==
  ASSUME TypeOK, HandsInv, NEW p \in Proc, Alive(p), Heard(p)
  PROVE  HandsInv'
  <1>1. Ended(p) /\ UNCHANGED file
    BY DEF Heard, Ended
  <1>2. PICK q \in Proc : /\ q # p /\ proc[q] = "none" /\ proc'[q] = "up" /\ proc'[p] = "dead"
                          /\ inbox'[q] = Told(p, q, "dead") /\ inbox'[p] = <<>>
                          /\ \A r \in Proc \ {p, q} : proc'[r] = proc[r] /\ inbox'[r] = inbox[r]
    BY Replacement DEF Heard
  <1>3. inbox'[q] = <<[event |-> "load", pid |-> p]>> /\ ~Alive(q) /\ inbox[q] = <<>>
    BY <1>1, <1>2 DEF Told, Alive, HandsInv, Living
  <1>4. \A r \in Proc : r # p /\ Alive(r) => Alive(r)'
    BY <1>2 DEF Alive
  <1>5. \A o : Over(o) => Over(o)'
    BY <1>1, <1>2 DEF Over
  <1>6. Over(p)' /\ ~Over(p)
    BY <1>1, <1>2, AliveNotOver DEF Over
  <1>7. ASSUME NEW r \in Proc, NEW n \in Nat, NEW o \in Nat, Ordered(r, n, o)'
        PROVE  (r = q /\ n = 1 /\ o = p) \/ (r # q /\ Ordered(r, n, o))
    <2>1. CASE r = q
      BY <1>3, <1>7, <2>1 DEF Ordered
    <2>2. CASE r = p
      BY <1>2, <1>7, <2>2 DEF Ordered
    <2>3. CASE r # p /\ r # q
      BY <1>2, <1>7, <2>3 DEF Ordered
    <2>. QED  BY <2>1, <2>2, <2>3
  <1>8. Living'
    <2>1. /\ \A i \in items' : Alive(i.proc)'
          /\ \A t \in taking' : Alive(t.proc)'
          /\ \A l \in flushing' : Alive(l.proc)'
      BY <1>1, <1>4, EndedHands, Typings DEF HandsInv, Living
    <2>2. \A r \in Proc : Alive(r)' \/ inbox'[r] = <<>>
      BY <1>2, <1>4 DEF HandsInv, Living, Alive
    <2>. QED  BY <2>1, <2>2 DEF Living
  <1>9. \A t \in taking : t.pid # p
    BY <1>6 DEF HandsInv, TakenOnce
  <1>10. OrdersOver'
    <2>1. ASSUME NEW r \in Proc, NEW n \in Nat, NEW o \in Nat, Ordered(r, n, o)'
          PROVE  Over(o)' /\ \A t \in taking' : t.pid # o
      <3>1. CASE o = p
        BY <1>1, <1>6, <1>9, <3>1, EndedHands
      <3>2. CASE Ordered(r, n, o)
        BY <1>1, <1>5, <3>2, EndedHands DEF HandsInv, OrdersOver
      <3>. QED  BY <1>7, <2>1, <3>1, <3>2
    <2>. QED  BY <2>1 DEF OrdersOver
  <1>11. OrderedOnce'
    <2>1. \A r \in Proc, n \in Nat : p \in Nat => ~Ordered(r, n, p)
      BY <1>6 DEF HandsInv, OrdersOver
    <2>2. p \in Nat
      BY ProcsTyped DEF Proc
    <2>3. ASSUME NEW a \in Proc, NEW b \in Proc, NEW n \in Nat, NEW k \in Nat, NEW o \in Nat,
                 Ordered(a, n, o)', Ordered(b, k, o)'
          PROVE  a = b /\ n = k
      <3>1. (a = q /\ n = 1 /\ o = p) \/ Ordered(a, n, o)
        BY <1>7, <2>3
      <3>2. (b = q /\ k = 1 /\ o = p) \/ Ordered(b, k, o)
        BY <1>7, <2>3
      <3>. QED  BY <2>1, <2>2, <3>1, <3>2 DEF HandsInv, OrderedOnce
    <2>. QED  BY <2>3 DEF OrderedOnce
  <1>12. TakenOnce'
    BY <1>1, <1>5, EndedHands DEF HandsInv, TakenOnce
  <1>. QED  BY <1>1, <1>8, <1>10, <1>11, <1>12, EndedHands DEF HandsInv

LEMMA StopHands ==
  ASSUME TypeOK, HandsInv, NEW p \in Proc, Stop(p)
  PROVE  HandsInv'
  <1>1. proc[p] = "up" /\ Alive(p) /\ (\E q \in Proc : Replaced(p, q, "stopping")) /\ UNCHANGED <<file, items, taking, flushing>>
    BY DEF Stop, Alive
  <1>2. PICK q \in Proc : /\ q # p /\ proc[q] = "none" /\ proc'[q] = "up" /\ proc'[p] = "stopping"
                          /\ inbox'[q] = Told(p, q, "stopping") /\ inbox'[p] = inbox[p]
                          /\ \A r \in Proc \ {p, q} : proc'[r] = proc[r] /\ inbox'[r] = inbox[r]
    BY <1>1, Replacement
  <1>3. inbox'[q] = <<>> /\ inbox[q] = <<>>
    BY <1>1, <1>2 DEF Told, Alive, HandsInv, Living
  <1>4. \A r \in Proc : inbox'[r] = inbox[r] /\ (Alive(r) => Alive(r)')
    BY <1>2, <1>3 DEF Alive
  <1>5. \A o : Over(o) => Over(o)'
    BY <1>1, <1>2 DEF Over
  <1>6. Living'
    BY <1>1, <1>4, Typings DEF HandsInv, Living
  <1>7. \A r \in Proc : \A n, o : Ordered(r, n, o)' <=> Ordered(r, n, o)
    BY <1>4 DEF Ordered
  <1>8. OrdersOver' /\ OrderedOnce'
    BY <1>1, <1>5, <1>7 DEF HandsInv, OrdersOver, OrderedOnce
  <1>9. Owned' /\ OneHolder'
    BY <1>1 DEF HandsInv, Owned, Own, OneHolder, Holds
  <1>10. TakenOnce'
    BY <1>1, <1>5 DEF HandsInv, TakenOnce
  <1>. QED  BY <1>6, <1>8, <1>9, <1>10 DEF HandsInv

LEMMA UnheardHands ==
  ASSUME TypeOK, HandsInv, NEW p \in Proc, Alive(p), Unheard(p)
  PROVE  HandsInv'
  <1>1. Alive(p) /\ Ended(p) /\ UNCHANGED file
    BY DEF Unheard, Ended
  <1>2. /\ proc'[p] = "dead" /\ inbox'[p] = <<>>
        /\ \A r \in Proc \ {p} : proc'[r] = proc[r] /\ inbox'[r] = inbox[r]
    BY DEF Unheard, TypeOK
  <1>3. \A r \in Proc : r # p /\ Alive(r) => Alive(r)'
    BY <1>2 DEF Alive
  <1>4. \A o : Over(o) => Over(o)'
    BY <1>1, <1>2 DEF Over
  <1>5. Living'
    <2>1. /\ \A i \in items' : Alive(i.proc)'
          /\ \A t \in taking' : Alive(t.proc)'
          /\ \A l \in flushing' : Alive(l.proc)'
      BY <1>1, <1>3, EndedHands, Typings DEF HandsInv, Living
    <2>2. \A r \in Proc : Alive(r)' \/ inbox'[r] = <<>>
      BY <1>2, <1>3 DEF HandsInv, Living
    <2>. QED  BY <2>1, <2>2 DEF Living
  <1>6. \A r \in Proc, n, o \in Nat : Ordered(r, n, o)' => Ordered(r, n, o)
    <2>1. \A n, o : ~Ordered(p, n, o)'
      BY <1>2 DEF Ordered
    <2>2. \A r \in Proc \ {p} : \A n, o : Ordered(r, n, o)' => Ordered(r, n, o)
      BY <1>2 DEF Ordered
    <2>. QED  BY <2>1, <2>2
  <1>7. OrdersOver' /\ OrderedOnce'
    BY <1>1, <1>4, <1>6, EndedHands DEF HandsInv, OrdersOver, OrderedOnce
  <1>8. TakenOnce'
    BY <1>1, <1>4, EndedHands DEF HandsInv, TakenOnce
  <1>. QED  BY <1>1, <1>5, <1>7, <1>8, EndedHands DEF HandsInv

LEMMA RestartHands ==
  ASSUME TypeOK, HandsInv, GracefulRestart \/ \E p \in Proc : Listening(p)
  PROVE  HandsInv'
  <1>1. UNCHANGED <<proc, inbox, file, items, taking, flushing>>
    BY DEF GracefulRestart, Listening
  <1>2. \A f \in File : \A o : Own(f, o) => Own(f, o)'
    BY <1>1 DEF Own
  <1>. QED  BY <1>1, <1>2, HandsKept

-----------------------------------------------------------------------------
(* No file is forgotten. *)
LEMMA StillKept ==
  ASSUME NEW f \in File, Kept(f), file'[f] = file[f],
         \A t \in taking : f \in t.left \cup t.done =>
           \E s \in taking' : /\ f \in t.left => f \in s.left
                              /\ f \in t.done => f \in s.done /\ s.name[f] = t.name[f],
         \A o \in Nat : Waiting(o) /\ o = file[f].pid => Waiting(o)',
         \A i \in items : i.file = f /\ i.name = file[f].name =>
           \E j \in items' : j.file = f /\ j.name = file[f].name
  PROVE  Kept(f)'
  BY DEF Kept

LEMMA SameOrders ==
  ASSUME \A r \in Proc : inbox'[r] = inbox[r] PROVE \A o : Waiting(o) <=> Waiting(o)'
  BY DEF Waiting, Ordered

LEMMA UnlinkKept ==
  ASSUME TypeOK, NEW x, x.file \in File, Unlink(x), NEW f \in File, file'[f].disk = "there"
  PROVE  file'[f] = file[f] /\ ~(x.file = f /\ x.name = file[f].name)
  BY DEF Unlink, There, NoFile, TypeOK

LEMMA ItemsStepKept ==
  ASSUME TypeOK, AllKept, NEW i \in items,
         LoadFile(i) \/ ReadTodo(i) \/ Send(i) \/ Taken(i) \/ Done(i) \/ PutOff(i) \/ Fire(i)
  PROVE  AllKept'
  <1>1. i \in Items /\ i.file \in File
    BY DEF TypeOK, Items
  <1>2. UNCHANGED <<proc, taking, flushing, inbox, abandoned>>
    BY DEF LoadFile, ReadTodo, Send, Taken, Done, PutOff, Fire, history
  <1>3. \A o : Waiting(o) <=> Waiting(o)'
    BY <1>2, SameOrders
  <1>4. CASE \E j : InPlace(i, j) /\ j.name = i.name /\ items' = (items \ {i}) \cup {j} /\ UNCHANGED file
    <2>1. PICK j : InPlace(i, j) /\ j.name = i.name /\ items' = (items \ {i}) \cup {j} /\ UNCHANGED file
      BY <1>4
    <2>2. ASSUME NEW f \in File, Kept(f) PROVE Kept(f)'
      BY <1>2, <1>3, <2>1, <2>2, StillKept DEF InPlace
    <2>. QED  BY <1>2, <2>1, <2>2 DEF AllKept
  <1>5. CASE LoadFile(i) \/ ReadTodo(i) \/ Send(i) \/ Taken(i) \/ Fire(i)
    <2>1. CASE LoadFile(i)
      BY <1>1, <1>4, <2>1, ItemFields DEF LoadFile, Replace, InPlace
    <2>2. CASE ReadTodo(i)
      BY <1>1, <1>4, <2>2, ItemFields DEF ReadTodo, Replace, InPlace
    <2>3. CASE Send(i)
      BY <1>1, <1>4, <2>3, ItemFields DEF Send, Replace, InPlace
    <2>4. CASE Taken(i)
      <3>1. LET j == [i EXCEPT !.at = "taken"] IN InPlace(i, j) /\ j.name = i.name
        BY <1>1, ItemFields DEF InPlace
      <3>2. items' = (items \ {i}) \cup {[i EXCEPT !.at = "taken"]} /\ UNCHANGED file
        BY <2>4 DEF Taken, Replace
      <3>. QED  BY <1>4, <3>1, <3>2
    <2>5. CASE Fire(i)
      BY <1>4, <2>5, FiredFields DEF Fire, Replace, InPlace
    <2>. QED  BY <1>5, <2>1, <2>2, <2>3, <2>4, <2>5
  <1>6. CASE Done(i)
    <2>1. ASSUME NEW f \in File, file'[f].disk = "there", f \notin abandoned' PROVE Kept(f)'
      <3>1. file'[f] = file[f] /\ ~(i.file = f /\ i.name = file[f].name)
        BY <1>1, <1>6, <2>1, UnlinkKept DEF Done
      <3>2. items' = items \ {i}
        BY <1>6 DEF Done
      <3>3. Kept(f)
        BY <1>2, <2>1, <3>1 DEF AllKept
      <3>. QED  BY <1>2, <1>3, <3>1, <3>2, <3>3, StillKept
    <2>. QED  BY <2>1 DEF AllKept
  <1>7. CASE PutOff(i)
    <2>. DEFINE j == [i EXCEPT !.name = i.name + 1, !.at = "timer"]
    <2>1. j.file = i.file /\ j.name = i.name + 1
      BY <1>1, ItemFields
    <2>2. items' = (items \ {i}) \cup {j} /\ file' = [file EXCEPT ![i.file] = [file[i.file] EXCEPT !.name = @ + 1]]
          /\ file[i.file].name = i.name
      BY <1>7 DEF PutOff, Replace, There
    <2>. HIDE DEF j
    <2>3. ASSUME NEW f \in File, file'[f].disk = "there", f \notin abandoned' PROVE Kept(f)'
      <3>1. CASE f = i.file
        <4>1. file'[f].name = i.name + 1
          BY <1>1, <2>2, <3>1, FileNamed, Renamed DEF TypeOK
        <4>. QED  BY <2>1, <2>2, <3>1, <4>1 DEF Kept
      <3>2. CASE f # i.file
        <4>1. file'[f] = file[f]
          BY <2>2, <3>2 DEF TypeOK
        <4>2. Kept(f)
          BY <1>2, <2>3, <4>1 DEF AllKept
        <4>. QED  BY <1>2, <1>3, <2>2, <3>2, <4>1, <4>2, StillKept
      <3>. QED  BY <3>1, <3>2
    <2>. QED  BY <2>3 DEF AllKept
  <1>. QED  BY <1>5, <1>6, <1>7

LEMMA RunKept ==
  ASSUME NEW timers, timers \subseteq items, Run(timers), NEW i \in items
  PROVE  \E j \in items' : j.file = i.file /\ j.name = i.name
  BY FiredFields DEF Run

LEMMA CommandStepKept ==
  ASSUME TypeOK, AllKept, NEW p \in Proc, FlushQueue(p) \/ QueuePush(p) \/ QueueDiscard(p) \/ FlushDomain(p)
  PROVE  AllKept'
  <1>1. UNCHANGED <<proc, taking, abandoned>> /\ Tailed(p) /\ Head(inbox[p]).event # "load"
    BY DEF FlushQueue, QueuePush, QueueDiscard, FlushDomain, Handle, Tailed, history
  <1>2. \A o \in Nat : Waiting(o) => Waiting(o)'
    BY <1>1, TailOrders DEF Tailed
  <1>3. CASE UNCHANGED file /\ \A i \in items : \E j \in items' : j.file = i.file /\ j.name = i.name
    <2>1. ASSUME NEW f \in File, Kept(f) PROVE Kept(f)'
      BY <1>1, <1>2, <1>3, <2>1, StillKept
    <2>. QED  BY <1>1, <1>3, <2>1 DEF AllKept
  <1>4. CASE FlushQueue(p)
    <2>1. Timers(p) \subseteq items
      BY DEF Timers
    <2>. QED  BY <1>3, <1>4, <2>1, RunKept DEF FlushQueue
  <1>5. CASE QueuePush(p)
    <2>1. CASE UNCHANGED items
      BY <1>3, <1>5, <2>1 DEF QueuePush
    <2>2. ASSUME NEW i \in Named(p), Run({i}) PROVE AllKept'
      <3>1. {i} \subseteq items
        BY DEF Named, Timers
      <3>. QED  BY <1>3, <1>5, <2>2, <3>1, RunKept DEF QueuePush
    <2>. QED  BY <1>5, <2>1, <2>2 DEF QueuePush
  <1>6. CASE FlushDomain(p)
    BY <1>3, <1>6 DEF FlushDomain
  <1>7. CASE QueueDiscard(p)
    <2>. DEFINE order == Head(inbox[p])
    <2>1. order.file \in File /\ Unlink(order)
      BY <1>7, HeadTelling DEF QueueDiscard, Handle
    <2>2. items' = items \/ \E i \in items : i.file = order.file /\ i.name = order.name /\ items' = items \ {i}
      BY <1>7 DEF QueueDiscard, Named, Timers
    <2>. HIDE DEF order
    <2>3. ASSUME NEW f \in File, file'[f].disk = "there", f \notin abandoned' PROVE Kept(f)'
      <3>1. file'[f] = file[f] /\ ~(order.file = f /\ order.name = file[f].name)
        BY <2>1, <2>3, UnlinkKept
      <3>2. Kept(f)
        BY <1>1, <2>3, <3>1 DEF AllKept
      <3>. QED  BY <1>1, <1>2, <2>2, <3>1, <3>2, StillKept
    <2>. QED  BY <2>3 DEF AllKept
  <1>. QED  BY <1>4, <1>5, <1>6, <1>7

LEMMA OtherCommandKept ==
  ASSUME TypeOK, AllKept, Commanded \/ GracefulRestart \/ (\E p \in Proc : Listening(p)) \/ \E l \in flushing : FlushListed(l)
  PROVE  AllKept'
  <1>1. UNCHANGED <<file, taking, abandoned>> /\ items \subseteq items'
    BY DEF Commanded, FlushListed, GracefulRestart, Listening, history
  <1>2. \A o \in Nat : Waiting(o) => Waiting(o)'
    <2>1. CASE Commanded
      <3>1. PICK f \in File, event \in {"flush", "flush domain", "push", "discard"} :
              SendAll([event |-> event, file |-> f, name |-> file[f].name])
        BY <2>1 DEF Commanded
      <3>. DEFINE m == [event |-> event, file |-> f, name |-> file[f].name]
      <3>2. m.event # "load" /\ SendAll(m)
        BY <3>1
      <3>. HIDE DEF m
      <3>3. \A q \in Proc, n, o \in Nat : Ordered(q, n, o)' <=> Ordered(q, n, o)
        BY <3>2, TellOrders
      <3>. QED  BY <3>3 DEF Waiting
    <2>2. CASE GracefulRestart \/ (\E p \in Proc : Listening(p)) \/ \E l \in flushing : FlushListed(l)
      BY <2>2, SameOrders DEF FlushListed, GracefulRestart, Listening
    <2>. QED  BY <2>1, <2>2
  <1>3. ASSUME NEW f \in File, Kept(f) PROVE Kept(f)'
    BY <1>1, <1>2, <1>3, StillKept
  <1>. QED  BY <1>1, <1>3 DEF AllKept

LEMMA LoadPidQueueKept ==
  ASSUME TypeOK, AllKept, NEW p \in Proc, LoadPidQueue(p)
  PROVE  AllKept'
  <1>. DEFINE o   == Head(inbox[p]).pid
              new == [proc |-> p, pid |-> o, left |-> OfPid(o), done |-> {}, name |-> [f \in File |-> 0]]
  <1>1. /\ taking' = taking \cup {new} /\ UNCHANGED <<items, abandoned>> /\ Tailed(p)
        /\ new.left = OfPid(o) /\ Head(inbox[p]).event = "load"
    BY DEF LoadPidQueue, Tailed, Sought, history
  <1>2. \A x \in Nat : x # o /\ Waiting(x) => Waiting(x)'
    BY <1>1, TailOrders DEF Tailed
  <1>3. ASSUME NEW f \in File, file'[f].disk = "there", f \notin abandoned' PROVE Kept(f)'
    <2>1. file'[f] = file[f] /\ file[f].disk = "there"
      BY <1>3 DEF LoadPidQueue, NoFile
    <2>2. Kept(f)
      BY <1>1, <1>3, <2>1 DEF AllKept
    <2>3. CASE file[f].pid = o
      <3>1. f \in OfPid(o)
        BY <2>1, <2>3 DEF OfPid
      <3>. HIDE DEF new
      <3>. QED  BY <1>1, <3>1 DEF Kept
    <2>4. CASE file[f].pid # o
      <3>. HIDE DEF new, o
      <3>. QED  BY <1>1, <1>2, <2>1, <2>2, <2>4, StillKept
    <2>. QED  BY <2>3, <2>4
  <1>. QED  BY <1>3 DEF AllKept

LEMMA RenameKept ==
  ASSUME TypeOK, AllKept, NEW t \in taking, NEW f \in File, RenameToActualPid(t, f)
  PROVE  AllKept'
  <1>. DEFINE kept == [t EXCEPT !.left = @ \ {f}, !.done = @ \cup {f}, !.name[f] = file[f].name + 1]
              lost == [t EXCEPT !.left = @ \ {f}]
              moved == [disk |-> "there", pid |-> t.proc, name |-> file[f].name + 1]
  <1>1. t \in Takeover
    BY DEF TypeOK
  <1>2. /\ kept.left = t.left \ {f} /\ kept.done = t.done \cup {f} /\ kept.name[f] = moved.name
        /\ \A g \in File : g # f => kept.name[g] = t.name[g]
        /\ lost.left = t.left \ {f} /\ lost.done = t.done /\ lost.name = t.name
    BY <1>1 DEF Takeover
  <1>3. \/ taking' = (taking \ {t}) \cup {kept} /\ file' = [file EXCEPT ![f] = moved] /\ UNCHANGED abandoned
        \/ /\ taking' = (taking \ {t}) \cup {lost} /\ UNCHANGED file
           /\ abandoned \subseteq abandoned' /\ (file[f].disk = "there" => f \in abandoned')
    BY DEF RenameToActualPid
  <1>4. \A o : Waiting(o) <=> Waiting(o)'
    BY SameOrders DEF RenameToActualPid
  <1>5. UNCHANGED items
    BY DEF RenameToActualPid
  <1>. HIDE DEF kept, lost, moved
  <1>6. ASSUME NEW g \in File, file'[g].disk = "there", g \notin abandoned' PROVE Kept(g)'
    <2>1. CASE g = f
      <3>1. CASE taking' = (taking \ {t}) \cup {kept} /\ file' = [file EXCEPT ![f] = moved]
        <4>1. file'[f] = moved
          BY <3>1 DEF TypeOK
        <4>. QED  BY <1>2, <2>1, <3>1, <4>1 DEF Kept
      <3>. QED  BY <1>3, <1>6, <2>1, <3>1
    <2>2. CASE g # f
      <3>1. file'[g] = file[g]
        BY <1>3, <2>2 DEF TypeOK
      <3>2. \A s \in taking : \E r \in taking' : /\ g \in s.left => g \in r.left
                                                 /\ g \in s.done => g \in r.done /\ r.name[g] = s.name[g]
        BY <1>2, <1>3, <2>2
      <3>3. Kept(g)
        BY <1>3, <1>6, <3>1 DEF AllKept
      <3>. QED  BY <1>4, <1>5, <3>1, <3>2, <3>3, StillKept
    <2>. QED  BY <2>1, <2>2
  <1>. QED  BY <1>6 DEF AllKept

LEMMA AddFilesKept ==
  ASSUME TypeOK, AllKept, NEW t \in taking, AddFiles(t)
  PROVE  AllKept'
  <1>1. UNCHANGED <<file, inbox, abandoned>> /\ taking' = taking \ {t} /\ t.left = {} /\ items \subseteq items'
    BY DEF AddFiles, history
  <1>2. \A f \in t.done : \E j \in items' : j.file = f /\ j.name = t.name[f]
    <2>1. PICK due \in SUBSET t.done :
            items' = items \cup {Item(t.proc, f, t.name[f], IF f \in due THEN "load" ELSE "wait") : f \in t.done}
      BY DEF AddFiles
    <2>2. \A f, n, at : Item(t.proc, f, n, at).file = f /\ Item(t.proc, f, n, at).name = n
      BY DEF Item
    <2>. QED  BY <2>1, <2>2
  <1>3. \A o : Waiting(o) <=> Waiting(o)'
    BY <1>1, SameOrders
  <1>4. ASSUME NEW f \in File, Kept(f) PROVE Kept(f)'
    <2>1. CASE f \in t.done /\ t.name[f] = file[f].name
      BY <1>1, <1>2, <2>1 DEF Kept
    <2>2. CASE f \notin t.done
      BY <1>1, <1>3, <1>4, <2>2, StillKept
    <2>3. CASE t.name[f] # file[f].name
      BY <1>1, <1>3, <1>4, <2>3 DEF Kept
    <2>. QED  BY <2>1, <2>2, <2>3
  <1>. QED  BY <1>1, <1>4 DEF AllKept

LEMMA NewFileKept ==
  ASSUME TypeOK, AllKept, NEW g \in File, Queued(g) \/ \E p \in Proc : WriteFile(p, g)
  PROVE  AllKept'
  <1>1. UNCHANGED <<taking, inbox, abandoned>> /\ items \subseteq items'
    BY DEF Queued, WriteFile, history
  <1>2. \A f \in File : f # g => file'[f] = file[f]
    BY DEF Queued, WriteFile, TypeOK
  <1>3. \A o : Waiting(o) <=> Waiting(o)'
    BY <1>1, SameOrders
  <1>4. ASSUME NEW f \in File, file'[f].disk = "there", f \notin abandoned' PROVE Kept(f)'
    <2>1. CASE f # g
      <3>1. Kept(f)
        BY <1>1, <1>2, <1>4, <2>1 DEF AllKept
      <3>. QED  BY <1>1, <1>2, <1>3, <2>1, <3>1, StillKept
    <2>2. CASE f = g /\ Queued(g)
      <3>. DEFINE new == Item(file[g].pid, g, file[g].name, "queue")
      <3>1. new \in items' /\ new.file = g /\ new.name = file[g].name
        BY <2>2 DEF Queued, Item
      <3>2. file' = [file EXCEPT ![g] = [file[g] EXCEPT !.disk = "there"]]
        BY <2>2 DEF Queued
      <3>3. file'[g].name = file[g].name
        BY <3>2, FileNamed, Renamed DEF TypeOK
      <3>4. ASSUME NEW j, j = new PROVE j \in items' /\ j.file = f /\ j.name = file'[f].name
        BY <2>2, <3>1, <3>3, <3>4
      <3>. QED  BY <3>4 DEF Kept
    <2>3. CASE f = g /\ \E p \in Proc : WriteFile(p, g)
      BY <1>4, <2>3 DEF WriteFile, TypeOK
    <2>. QED  BY <2>1, <2>2, <2>3
  <1>. QED  BY <1>4 DEF AllKept

(* What a process had is ordered or abandoned when it ends.                 *)
LEMMA EndKept ==
  ASSUME TypeOK, HandsInv, AllKept, NEW p \in Proc, Ended(p), NEW f \in File,
         file[f].disk = "there", f \notin abandoned, f \notin Owed(p), UNCHANGED file,
         \A r \in Proc, n, o \in Nat : r # p /\ Ordered(r, n, o) => Ordered(r, n, o)',
         file[f].pid = p => \A o \in Nat : o = p => Waiting(o)'
  PROVE  Kept(f)'
  <1>0. p \in Nat
    BY ProcsTyped DEF Proc
  <1>1. CASE file[f].pid = p
    BY <1>0, <1>1 DEF Kept
  <1>2. CASE file[f].pid # p
    <2>1. Kept(f)
      BY DEF AllKept
    <2>2. \A t \in taking : f \in t.left \cup t.done => t \in taking'
      <3>1. ASSUME NEW t \in taking, f \in t.left \cup t.done, t.proc = p PROVE FALSE
        <4>1. f \in t.left /\ file[f].pid = t.pid
          BY <1>2, <3>1, Typings DEF HandsInv, Owned, Own
        <4>2. f \in OfPid(t.pid)
          BY <4>1 DEF OfPid
        <4>. QED  BY <3>1, <4>2 DEF Owed
      <3>. QED  BY <3>1 DEF Ended
    <2>3. \A o \in Nat : Waiting(o) /\ o = file[f].pid => Waiting(o)'
      <3>1. ASSUME NEW o \in Nat, o = file[f].pid, NEW r \in Proc, NEW n \in Nat, Ordered(r, n, o) PROVE r # p
        <4>1. SUFFICES ASSUME r = p PROVE f \in Owed(p)
          OBVIOUS
        <4>2. f \in OfPid(inbox[p][n].pid)
          BY <3>1, <4>1 DEF OfPid, Ordered
        <4>. QED  BY <3>1, <4>1, <4>2 DEF Owed, Ordered
      <3>. QED  BY <3>1 DEF Waiting
    <2>4. \A i \in items : i.file = f => i \in items'
      <3>1. \A i \in items : i.file = f => i.proc # p
        BY <1>2 DEF HandsInv, Owned, Own
      <3>. QED  BY <3>1 DEF Ended
    <2>. QED  BY <2>1, <2>2, <2>3, <2>4, StillKept
  <1>. QED  BY <1>1, <1>2

LEMMA HeardKept ==
  ASSUME TypeOK, HandsInv, AllKept, NEW p \in Proc, Alive(p), Heard(p)
  PROVE  AllKept'
  <1>0. p \in Nat
    BY ProcsTyped DEF Proc
  <1>1. Ended(p) /\ UNCHANGED file /\ abandoned' = abandoned \cup Owed(p)
    BY DEF Heard, Ended
  <1>2. PICK q \in Proc : /\ q # p /\ proc[q] = "none" /\ inbox'[q] = Told(p, q, "dead")
                          /\ \A r \in Proc \ {p, q} : inbox'[r] = inbox[r]
    BY Replacement DEF Heard
  <1>3. inbox[q] = <<>> /\ inbox'[q] = <<[event |-> "load", pid |-> p]>>
    BY <1>1, <1>2 DEF Told, Alive, HandsInv, Living
  <1>4. \A r \in Proc, n, o \in Nat : r # p /\ Ordered(r, n, o) => Ordered(r, n, o)'
    BY <1>2, <1>3 DEF Ordered
  <1>5. Ordered(q, 1, p)'
    BY <1>3 DEF Ordered
  <1>6. \A o \in Nat : o = p => Waiting(o)'
    BY <1>5 DEF Waiting
  <1>. QED  BY <1>1, <1>4, <1>6, EndKept DEF AllKept

LEMMA UnheardKept ==
  ASSUME TypeOK, HandsInv, AllKept, NEW p \in Proc, Unheard(p)
  PROVE  AllKept'
  <1>1. Ended(p) /\ UNCHANGED file /\ abandoned' = abandoned \cup OfPid(p) \cup Owed(p)
        /\ inbox' = [inbox EXCEPT ![p] = <<>>]
    BY DEF Unheard, Ended
  <1>2. \A r \in Proc, n, o \in Nat : r # p /\ Ordered(r, n, o) => Ordered(r, n, o)'
    BY <1>1 DEF Ordered, TypeOK
  <1>3. \A f \in File : file[f].disk = "there" /\ f \notin abandoned' => file[f].pid # p
    BY <1>1 DEF OfPid
  <1>4. \A f \in File : file[f].disk = "there" /\ f \notin abandoned' => Kept(f)'
    BY <1>1, <1>2, <1>3, EndKept
  <1>. QED  BY <1>1, <1>4 DEF AllKept

LEMMA EndStepKept ==
  ASSUME TypeOK, HandsInv, AllKept, NEW p \in Proc, Die(p) \/ Stop(p) \/ Exit(p)
  PROVE  AllKept'
  <1>1. CASE Die(p) \/ Exit(p)
    BY <1>1, HeardKept, UnheardKept DEF Die, Exit, Alive
  <1>2. CASE Stop(p)
    <2>1. proc[p] = "up" /\ Alive(p) /\ (\E q \in Proc : Replaced(p, q, "stopping"))
          /\ UNCHANGED <<file, items, taking, abandoned>>
      BY <1>2 DEF Stop, Alive, history
    <2>2. PICK q \in Proc : /\ q # p /\ proc[q] = "none" /\ inbox'[q] = Told(p, q, "stopping") /\ inbox'[p] = inbox[p]
                            /\ \A r \in Proc \ {p, q} : inbox'[r] = inbox[r]
      BY <2>1, Replacement
    <2>3. \A r \in Proc : inbox'[r] = inbox[r]
      BY <2>1, <2>2 DEF Told, Alive, HandsInv, Living
    <2>4. \A o : Waiting(o) <=> Waiting(o)'
      BY <2>3, SameOrders
    <2>5. ASSUME NEW f \in File, Kept(f) PROVE Kept(f)'
      BY <2>1, <2>4, <2>5, StillKept
    <2>. QED  BY <2>1, <2>5 DEF AllKept
  <1>. QED  BY <1>1, <1>2

-----------------------------------------------------------------------------
(* Nobody is served twice. *)

(* One file's items are as they were, or fewer, and so are its takeovers;   *)
(* none that was taken by the server is forgotten.                          *)
LEMMA StillSingle ==
  ASSUME NEW f \in File, Lone(f), Known(f), Reason(f), served'[f] = served[f],
         file'[f] = file[f] \/ file'[f].disk = "gone",
         \A j \in items' : j.file = f => j \in items,
         \A i \in items : i.file = f /\ i.at = "taken" => i \in items' \/ file'[f].disk = "gone",
         \A s \in taking' : f \in s.left \cup s.done => s \in taking
  PROVE  (Lone(f) /\ Known(f) /\ Reason(f))'
  <1>1. Lone(f)'
    BY DEF Lone
  <1>2. Known(f)'
    BY DEF Known
  <1>3. Reason(f)'
    BY DEF Reason
  <1>. QED  BY <1>1, <1>2, <1>3

LEMMA ItemsStepSingles ==
  ASSUME TypeOK, HandsInv, Singles, NEW i \in items,
         LoadFile(i) \/ ReadTodo(i) \/ Send(i) \/ Taken(i) \/ Done(i) \/ PutOff(i) \/ Fire(i)
  PROVE  Singles'
  <1>1. i \in Items /\ i.file \in File
    BY DEF TypeOK, Items
  <1>2. UNCHANGED <<taking, doubtful>>
    BY DEF LoadFile, ReadTodo, Send, Taken, Done, PutOff, Fire, history
  <1>3. ASSUME NEW j, InPlace(i, j), items' = (items \ {i}) \cup {j}, NEW f \in File \ doubtful, f = i.file
        PROVE  Lone(f)' /\ (\A k \in items' : k.file = f => k = j) /\ \A t \in taking' : f \notin t.left \cup t.done
    <2>1. Lone(f)
      BY <1>3 DEF Singles
    <2>2. \A k \in items' : k.file = f => k = j
      BY <1>3, <2>1 DEF Lone, InPlace
    <2>3. \A t \in taking' : f \notin t.left \cup t.done
      BY <1>2, <1>3, <2>1 DEF Lone
    <2>. QED  BY <2>2, <2>3 DEF Lone
  <1>4. ASSUME NEW j, InPlace(i, j), items' = (items \ {i}) \cup {j}, NEW f \in File \ doubtful, f # i.file,
               file'[f] = file[f], served'[f] = served[f]
        PROVE  (Lone(f) /\ Known(f) /\ Reason(f))'
    <2>1. Lone(f) /\ Known(f) /\ Reason(f)
      BY DEF Singles
    <2>. QED  BY <1>2, <1>4, <2>1, StillSingle DEF InPlace
  <1>5. CASE \E j : /\ InPlace(i, j) /\ j.name = i.name /\ items' = (items \ {i}) \cup {j}
                    /\ UNCHANGED <<file, served>> /\ (i.at = "taken" => j.at = "taken")
    <2>1. PICK j : /\ InPlace(i, j) /\ j.name = i.name /\ items' = (items \ {i}) \cup {j}
                   /\ UNCHANGED <<file, served>> /\ (i.at = "taken" => j.at = "taken")
      BY <1>5
    <2>2. ASSUME NEW f \in File \ doubtful, f = i.file PROVE (Lone(f) /\ Known(f) /\ Reason(f))'
      <3>1. Lone(f)' /\ (\A k \in items' : k.file = f => k = j) /\ \A t \in taking' : f \notin t.left \cup t.done
        BY <1>3, <2>1, <2>2
      <3>2. Lone(f) /\ Known(f) /\ Reason(f)
        BY DEF Singles
      <3>3. Known(f)'
        BY <2>1, <2>2, <3>1, <3>2 DEF Known
      <3>4. Reason(f)'
        BY <2>1, <2>2, <3>1, <3>2 DEF Reason, InPlace
      <3>. QED  BY <3>1, <3>3, <3>4
    <2>3. ASSUME NEW f \in File \ doubtful, f # i.file PROVE (Lone(f) /\ Known(f) /\ Reason(f))'
      BY <1>4, <2>1, <2>3
    <2>. QED  BY <1>2, <2>2, <2>3 DEF Singles
  <1>6. CASE LoadFile(i) \/ ReadTodo(i) \/ Send(i) \/ Fire(i)
    <2>1. CASE LoadFile(i)
      <3>1. PICK at \in {"queue", "timer"} : items' = (items \ {i}) \cup {[i EXCEPT !.at = at, !.loading = TRUE]}
        BY <2>1 DEF LoadFile, Replace
      <3>2. LET j == [i EXCEPT !.at = at, !.loading = TRUE] IN InPlace(i, j) /\ j.name = i.name
        BY <1>1, ItemFields DEF InPlace
      <3>3. i.at # "taken" /\ UNCHANGED <<file, served>>
        BY <2>1 DEF LoadFile, history
      <3>. QED  BY <1>5, <3>1, <3>2, <3>3
    <2>2. CASE ReadTodo(i)
      <3>1. \E j \in {[i EXCEPT !.todo = "read", !.loading = FALSE], [i EXCEPT !.todo = "never"]} :
              items' = (items \ {i}) \cup {j}
        BY <2>2 DEF ReadTodo, Replace
      <3>2. \A j \in {[i EXCEPT !.todo = "read", !.loading = FALSE], [i EXCEPT !.todo = "never"]} :
              InPlace(i, j) /\ j.name = i.name /\ j.at = i.at
        BY <1>1, ItemFields DEF InPlace
      <3>3. UNCHANGED <<file, served>>
        BY <2>2 DEF ReadTodo, history
      <3>. QED  BY <1>5, <3>1, <3>2, <3>3
    <2>3. CASE Send(i)
      <3>1. items' = (items \ {i}) \cup {[i EXCEPT !.at = "sending"]} /\ i.at # "taken" /\ UNCHANGED <<file, served>>
        BY <2>3 DEF Send, Replace, history
      <3>2. LET j == [i EXCEPT !.at = "sending"] IN InPlace(i, j) /\ j.name = i.name
        BY <1>1, ItemFields DEF InPlace
      <3>. QED  BY <1>5, <3>1, <3>2
    <2>4. CASE Fire(i)
      <3>1. items' = (items \ {i}) \cup {Fired(i)} /\ i.at # "taken" /\ UNCHANGED <<file, served>>
        BY <2>4 DEF Fire, Replace, Timers, history
      <3>2. InPlace(i, Fired(i)) /\ Fired(i).name = i.name
        BY FiredFields DEF InPlace
      <3>. QED  BY <1>5, <3>1, <3>2
    <2>. QED  BY <1>6, <2>1, <2>2, <2>3, <2>4
  <1>7. CASE Taken(i)
    <2>. DEFINE j == [i EXCEPT !.at = "taken"]
    <2>1. InPlace(i, j) /\ j.name = i.name /\ j.at = "taken"
      BY <1>1, ItemFields DEF InPlace
    <2>2. /\ items' = (items \ {i}) \cup {j} /\ UNCHANGED file /\ i.at = "sending"
          /\ served' = [served EXCEPT ![i.file] = @ + 1] /\ file[i.file].disk = "there"
      BY <1>7 DEF Taken, Replace, There
    <2>. HIDE DEF j
    <2>3. ASSUME NEW f \in File \ doubtful, f = i.file PROVE (Lone(f) /\ Known(f) /\ Reason(f))'
      <3>1. Lone(f)' /\ (\A k \in items' : k.file = f => k = j) /\ \A t \in taking' : f \notin t.left \cup t.done
        BY <1>3, <2>1, <2>2, <2>3
      <3>2. Lone(f) /\ Known(f) /\ Reason(f)
        BY DEF Singles
      <3>3. Known(f)'
        BY <2>1, <2>2, <2>3, <3>1, <3>2 DEF Known
      <3>4. served[f] = 0
        BY <2>2, <2>3, <3>2 DEF Reason, Lone
      <3>5. served'[f] = 1
        BY <1>1, <2>2, <2>3, <3>4 DEF TypeOK
      <3>6. j \in items' /\ j.file = f
        BY <2>1, <2>2, <2>3 DEF InPlace
      <3>7. Reason(f)'
        BY <2>1, <3>5, <3>6 DEF Reason
      <3>. QED  BY <3>1, <3>3, <3>7
    <2>4. ASSUME NEW f \in File \ doubtful, f # i.file PROVE (Lone(f) /\ Known(f) /\ Reason(f))'
      <3>1. served'[f] = served[f]
        BY <2>2, <2>4 DEF TypeOK
      <3>. QED  BY <1>4, <2>1, <2>2, <2>4, <3>1
    <2>. QED  BY <1>2, <2>3, <2>4 DEF Singles
  <1>8. CASE Done(i)
    <2>1. items' = items \ {i} /\ UNCHANGED served /\ Unlink(i)
      BY <1>8 DEF Done, history
    <2>2. ASSUME NEW f \in File \ doubtful PROVE (Lone(f) /\ Known(f) /\ Reason(f))'
      <3>1. Lone(f) /\ Known(f) /\ Reason(f)
        BY DEF Singles
      <3>2. file'[f] = file[f] \/ file'[f].disk = "gone"
        BY <1>1, <2>1, UnlinkTyped DEF NoFile
      <3>3. f = i.file => file'[f].disk = "gone"
        <4>1. SUFFICES ASSUME f = i.file, file[f].disk # "gone" PROVE file'[f].disk = "gone"
          BY <3>2
        <4>2. There(i.file, i.name)
          BY <3>1, <4>1 DEF HandsInv, Owned, Own, Known, There
        <4>. QED  BY <2>1, <4>1, <4>2 DEF Unlink, NoFile, TypeOK
      <3>. QED  BY <1>2, <2>1, <3>1, <3>2, <3>3, StillSingle
    <2>. QED  BY <1>2, <2>2 DEF Singles
  <1>9. CASE PutOff(i)
    <2>. DEFINE j == [i EXCEPT !.name = i.name + 1, !.at = "timer"]
    <2>1. InPlace(i, j) /\ j.name = i.name + 1
      BY <1>1, ItemFields DEF InPlace
    <2>2. /\ items' = (items \ {i}) \cup {j} /\ file' = [file EXCEPT ![i.file] = [file[i.file] EXCEPT !.name = @ + 1]]
          /\ file[i.file].name = i.name /\ file[i.file].disk = "there" /\ i.at = "sending" /\ UNCHANGED served
      BY <1>9 DEF PutOff, Replace, There, history
    <2>. HIDE DEF j
    <2>3. ASSUME NEW f \in File \ doubtful, f = i.file PROVE (Lone(f) /\ Known(f) /\ Reason(f))'
      <3>1. Lone(f)' /\ (\A k \in items' : k.file = f => k = j) /\ \A t \in taking' : f \notin t.left \cup t.done
        BY <1>3, <2>1, <2>2, <2>3
      <3>2. Lone(f) /\ Known(f) /\ Reason(f)
        BY DEF Singles
      <3>3. file'[f].name = i.name + 1
        BY <1>1, <2>2, <2>3, FileNamed, Renamed DEF TypeOK
      <3>4. Known(f)'
        BY <2>1, <3>1, <3>3 DEF Known
      <3>5. served[f] = 0
        BY <2>2, <2>3, <3>2 DEF Reason, Lone
      <3>6. Reason(f)'
        BY <2>2, <3>5 DEF Reason
      <3>. QED  BY <3>1, <3>4, <3>6
    <2>4. ASSUME NEW f \in File \ doubtful, f # i.file PROVE (Lone(f) /\ Known(f) /\ Reason(f))'
      <3>1. file'[f] = file[f]
        BY <2>2, <2>4 DEF TypeOK
      <3>. QED  BY <1>4, <2>1, <2>2, <2>4, <3>1
    <2>. QED  BY <1>2, <2>3, <2>4 DEF Singles
  <1>. QED  BY <1>6, <1>7, <1>8, <1>9

LEMMA SameSingles == ASSUME Singles, UNCHANGED <<items, taking, file, served, doubtful>> PROVE Singles'
  BY DEF Singles, Lone, Known, Reason

LEMMA RunSingles ==
  ASSUME Singles, UNCHANGED <<taking, file, served, doubtful>>,
         NEW timers, timers \subseteq items, \A i \in timers : i.at # "taken", Run(timers)
  PROVE  Singles'
  <1> SUFFICES ASSUME NEW f \in File \ doubtful PROVE (Lone(f) /\ Known(f) /\ Reason(f))'
    BY DEF Singles
  <1>1. Lone(f) /\ Known(f) /\ Reason(f)
    BY DEF Singles
  <1>2. \A j \in items' : \E i \in items : /\ i.file = j.file /\ i.name = j.name
                                           /\ IF i \in timers THEN j = Fired(i) ELSE j = i
    BY FiredFields DEF Run
  <1>3. Lone(f)'
    BY <1>1, <1>2 DEF Lone
  <1>4. Known(f)'
    BY <1>1, <1>2 DEF Known
  <1>5. \A i \in items : i.at = "taken" => i \in items'
    BY DEF Run
  <1>6. Reason(f)'
    BY <1>1, <1>5 DEF Reason
  <1>. QED  BY <1>3, <1>4, <1>6

LEMMA CommandStepSingles ==
  ASSUME TypeOK, Singles, NEW p \in Proc, FlushQueue(p) \/ QueuePush(p) \/ QueueDiscard(p) \/ FlushDomain(p)
  PROVE  Singles'
  <1>1. \A i \in Timers(p) \cup Named(p) : i \in items /\ i.at # "taken"
    BY DEF Timers, Named
  <1>2. CASE FlushQueue(p)
    BY <1>1, <1>2, RunSingles DEF FlushQueue, history
  <1>3. CASE QueuePush(p)
    <2>1. CASE UNCHANGED items
      BY <1>3, <2>1, SameSingles DEF QueuePush, history
    <2>2. ASSUME NEW i \in Named(p), Run({i}) PROVE Singles'
      BY <1>1, <1>3, <2>2, RunSingles DEF QueuePush, history
    <2>. QED  BY <1>3, <2>1, <2>2 DEF QueuePush
  <1>4. CASE FlushDomain(p)
    BY <1>4, SameSingles DEF FlushDomain, history
  <1>5. CASE QueueDiscard(p)
    <2>. DEFINE order == Head(inbox[p])
    <2>1. order.file \in File /\ Unlink(order)
      BY <1>5, HeadTelling DEF QueueDiscard, Handle
    <2>2. /\ items' \subseteq items /\ (\A i \in items : i.at = "taken" => i \in items')
          /\ UNCHANGED <<taking, served, doubtful>>
      BY <1>1, <1>5 DEF QueueDiscard, history
    <2>. HIDE DEF order
    <2>3. ASSUME NEW f \in File \ doubtful PROVE (Lone(f) /\ Known(f) /\ Reason(f))'
      <3>1. Lone(f) /\ Known(f) /\ Reason(f)
        BY DEF Singles
      <3>2. file'[f] = file[f] \/ file'[f].disk = "gone"
        BY <2>1, UnlinkTyped DEF NoFile
      <3>. QED  BY <2>2, <3>1, <3>2, StillSingle
    <2>. QED  BY <2>2, <2>3 DEF Singles
  <1>. QED  BY <1>2, <1>3, <1>4, <1>5

LEMMA OtherCommandSingles ==
  ASSUME TypeOK, Singles, Commanded \/ GracefulRestart \/ (\E p \in Proc : Listening(p)) \/ \E l \in flushing : FlushListed(l)
  PROVE  Singles'
  <1>1. CASE Commanded
    BY <1>1, SameSingles DEF Commanded, history
  <1>2. CASE GracefulRestart \/ \E p \in Proc : Listening(p)
    BY <1>2, SameSingles DEF GracefulRestart, Listening, history
  <1>3. ASSUME NEW l \in flushing, FlushListed(l) PROVE Singles'
    <2>. DEFINE It(e) == [Item(l.proc, e.file, e.name, "queue") EXCEPT !.flushed = TRUE]
                Its   == {e \in l.listed : e.pid = l.proc /\ e.file = l.domain}
    <2>1. /\ items' = items \cup {It(e) : e \in Its} /\ doubtful' = doubtful \cup {e.file : e \in Its}
          /\ UNCHANGED <<taking, file, served>>
      BY <1>3 DEF FlushListed
    <2>2. \A e : It(e).file = e.file
      BY DEF Item
    <2>. HIDE DEF It, Its
    <2>3. \A j \in items' : j \in items \/ j.file \in doubtful'
      BY <2>1, <2>2
    <2>4. ASSUME NEW f \in File \ doubtful' PROVE (Lone(f) /\ Known(f) /\ Reason(f))'
      <3>1. Lone(f) /\ Known(f) /\ Reason(f)
        BY <2>1 DEF Singles
      <3>. QED  BY <2>1, <2>3, <3>1, StillSingle
    <2>. QED  BY <2>4 DEF Singles
  <1>. QED  BY <1>1, <1>2, <1>3

LEMMA LoadPidQueueSingles ==
  ASSUME TypeOK, HandsInv, Singles, NEW p \in Proc, LoadPidQueue(p)
  PROVE  Singles'
  <1>. DEFINE o   == Head(inbox[p]).pid
              new == [proc |-> p, pid |-> o, left |-> OfPid(o), done |-> {}, name |-> [f \in File |-> 0]]
  <1>1. /\ taking' = taking \cup {new} /\ UNCHANGED <<items, served, doubtful>>
        /\ new.left = OfPid(o) /\ new.done = {}
    BY DEF LoadPidQueue, Sought, history
  <1>2. Ordered(p, 1, o) /\ o \in Nat
    BY HeadOrder DEF LoadPidQueue
  <1>3. Over(o) /\ \A t \in taking : t.pid # o
    BY <1>2 DEF HandsInv, OrdersOver
  <1>4. \A f \in OfPid(o) : f \in File /\ file[f].disk = "there" /\ file[f].pid = o
    BY DEF OfPid
  <1>5. \A f \in File : file'[f] = file[f] \/ file'[f].disk = "gone"
    BY DEF LoadPidQueue, NoFile
  <1>6. \A f \in OfPid(o) : /\ \A i \in items : i.file # f
                            /\ \A t \in taking : f \notin t.left \cup t.done
    BY <1>3, <1>4, OverHeld DEF HandsInv
  <1>. HIDE DEF o, new
  <1>7. ASSUME NEW f \in File \ doubtful PROVE (Lone(f) /\ Known(f) /\ Reason(f))'
    <2>1. Lone(f) /\ Known(f) /\ Reason(f)
      BY DEF Singles
    <2>2. CASE f \notin OfPid(o)
      <3>1. \A s \in taking' : f \in s.left \cup s.done => s \in taking
        BY <1>1, <2>2
      <3>. QED  BY <1>1, <1>5, <2>1, <3>1, StillSingle
    <2>3. CASE f \in OfPid(o)
      <3>1. Lone(f)'
        BY <1>1, <1>6, <2>1, <2>3 DEF Lone
      <3>2. Known(f)'
        BY <1>1, <1>6, <2>3 DEF Known
      <3>3. Reason(f)'
        BY <1>1, <1>6, <1>4, <2>1, <2>3 DEF Reason
      <3>. QED  BY <3>1, <3>2, <3>3
    <2>. QED  BY <2>2, <2>3
  <1>. QED  BY <1>1, <1>7 DEF Singles

LEMMA RenameSingles ==
  ASSUME TypeOK, HandsInv, Singles, NEW t \in taking, NEW f \in File, RenameToActualPid(t, f)
  PROVE  Singles'
  <1>. DEFINE kept == [t EXCEPT !.left = @ \ {f}, !.done = @ \cup {f}, !.name[f] = file[f].name + 1]
              lost == [t EXCEPT !.left = @ \ {f}]
              moved == [disk |-> "there", pid |-> t.proc, name |-> file[f].name + 1]
  <1>1. t \in Takeover /\ f \in t.left
    BY DEF TypeOK, RenameToActualPid
  <1>2. /\ kept.left = t.left \ {f} /\ kept.done = t.done \cup {f} /\ kept.name[f] = moved.name
        /\ \A g \in File : g # f => kept.name[g] = t.name[g]
        /\ lost.left = t.left \ {f} /\ lost.done = t.done /\ lost.name = t.name
    BY <1>1 DEF Takeover
  <1>3. \/ /\ taking' = (taking \ {t}) \cup {kept} /\ file[f].disk = "there" /\ file' = [file EXCEPT ![f] = moved]
        \/ taking' = (taking \ {t}) \cup {lost} /\ UNCHANGED file
    BY DEF RenameToActualPid
  <1>4. UNCHANGED <<items, served, doubtful>>
    BY DEF RenameToActualPid
  <1>5. moved.disk = "there"
    OBVIOUS
  <1>. HIDE DEF kept, lost, moved
  <1>6. PICK new : /\ taking' = (taking \ {t}) \cup {new}
                   /\ new.left \cup new.done \subseteq t.left \cup t.done
                   /\ \A g \in File : g # f /\ g \in new.done => g \in t.done /\ new.name[g] = t.name[g]
                   /\ f \in new.done => (file'[f].name = new.name[f] /\ file[f].disk = "there") \/ (UNCHANGED file /\ f \in t.done /\ new.name = t.name)
    <2>1. CASE taking' = (taking \ {t}) \cup {kept} /\ file[f].disk = "there" /\ file' = [file EXCEPT ![f] = moved]
      <3>1. file'[f] = moved
        BY <2>1 DEF TypeOK
      <3>. QED  BY <1>1, <1>2, <2>1, <3>1
    <2>2. CASE taking' = (taking \ {t}) \cup {lost} /\ UNCHANGED file
      BY <1>1, <1>2, <2>2
    <2>. QED  BY <1>3, <2>1, <2>2
  <1>7. \A g \in File : g # f => file'[g] = file[g]
    BY <1>3 DEF TypeOK
  <1>8. UNCHANGED file \/ (file[f].disk = "there" /\ file'[f].disk = "there")
    BY <1>3, <1>5 DEF TypeOK
  <1>9. ASSUME NEW g \in File \ doubtful PROVE (Lone(g) /\ Known(g) /\ Reason(g))'
    <2>1. Lone(g) /\ Known(g) /\ Reason(g)
      BY DEF Singles
    <2>2. \A s \in taking' : g \in s.left \cup s.done =>
             (IF s = new THEN g \in t.left \cup t.done ELSE s \in taking /\ s # t)
      BY <1>6
    <2>3. Lone(g)'
      BY <1>4, <2>1, <2>2 DEF Lone
    <2>4. g = f => \A i \in items : i.file # g
      BY <1>1, <2>1 DEF Lone
    <2>5. Known(g)'
      <3>1. \A i \in items' : i.file = g /\ file'[g].disk = "there" => file'[g].name = i.name
        BY <1>4, <1>7, <2>1, <2>4 DEF Known
      <3>2. ASSUME g = f, NEW s \in taking', g \in s.done, file'[g].disk = "there" PROVE file'[g].name = s.name[g]
        <4>1. s = new
          BY <1>1, <2>1, <2>2, <3>2 DEF Lone
        <4>. QED  BY <1>6, <2>1, <3>2, <4>1 DEF Known
      <3>3. ASSUME g # f, NEW s \in taking', g \in s.done, file'[g].disk = "there" PROVE file'[g].name = s.name[g]
        BY <1>6, <1>7, <2>1, <3>3 DEF Known
      <3>. QED  BY <3>1, <3>2, <3>3 DEF Known
    <2>6. Reason(g)'
      BY <1>4, <1>7, <1>8, <2>1 DEF Reason
    <2>. QED  BY <2>3, <2>5, <2>6
  <1>. QED  BY <1>4, <1>9 DEF Singles

LEMMA AddFilesSingles ==
  ASSUME TypeOK, HandsInv, Singles, NEW t \in taking, AddFiles(t)
  PROVE  Singles'
  <1>1. UNCHANGED <<file, served, doubtful>> /\ taking' = taking \ {t}
    BY DEF AddFiles, history
  <1>2. PICK due \in SUBSET t.done :
          items' = items \cup {Item(t.proc, f, t.name[f], IF f \in due THEN "load" ELSE "wait") : f \in t.done}
    BY DEF AddFiles
  <1>. DEFINE It(f) == Item(t.proc, f, t.name[f], IF f \in due THEN "load" ELSE "wait")
  <1>3. \A f : It(f).file = f /\ It(f).name = t.name[f]
    BY DEF Item
  <1>4. items' = items \cup {It(f) : f \in t.done}
    BY <1>2
  <1>. HIDE DEF It
  <1>5. ASSUME NEW f \in File \ doubtful PROVE (Lone(f) /\ Known(f) /\ Reason(f))'
    <2>1. Lone(f) /\ Known(f) /\ Reason(f)
      BY DEF Singles
    <2>2. CASE f \notin t.done
      <3>1. \A j \in items' : j.file = f => j \in items
        BY <1>3, <1>4, <2>2
      <3>. QED  BY <1>1, <1>4, <2>1, <3>1, StillSingle
    <2>3. CASE f \in t.done
      <3>1. \A i \in items : i.file # f
        BY <2>1, <2>3 DEF Lone
      <3>2. \A j \in items' : j.file = f => j = It(f) /\ j.name = t.name[f]
        BY <1>3, <1>4, <3>1
      <3>3. \A s \in taking' : f \notin s.left \cup s.done
        BY <1>1, <2>1, <2>3 DEF Lone
      <3>4. Lone(f)'
        BY <3>2, <3>3 DEF Lone
      <3>5. Known(f)'
        BY <1>1, <2>1, <2>3, <3>2, <3>3 DEF Known
      <3>6. Reason(f)'
        BY <1>1, <2>1, <3>1 DEF Reason
      <3>. QED  BY <3>4, <3>5, <3>6
    <2>. QED  BY <2>2, <2>3
  <1>. QED  BY <1>1, <1>5 DEF Singles

LEMMA NewFileSingles ==
  ASSUME TypeOK, HandsInv, Singles, NEW g \in File, Queued(g) \/ \E p \in Proc : WriteFile(p, g)
  PROVE  Singles'
  <1>1. UNCHANGED <<taking, served, doubtful>> /\ file[g].disk \in {"none", "dot"}
    BY DEF Queued, WriteFile, history
  <1>2. \A f \in File : f # g => file'[f] = file[f]
    BY DEF Queued, WriteFile, TypeOK
  <1>3. /\ \A i \in items : i.file # g
        /\ \A t \in taking : g \notin t.left \cup t.done
    BY <1>1, Unheld DEF HandsInv
  <1>4. items \subseteq items' /\ \A j \in items' : j \notin items => j.file = g
    BY DEF Queued, WriteFile, Item
  <1>5. \A j, k \in items' : j.file = g /\ k.file = g => j = k /\ (file'[g].disk = "there" => j.name = file'[g].name)
    <2>1. CASE Queued(g)
      <3>. DEFINE new == Item(file[g].pid, g, file[g].name, "queue")
      <3>1. items' = items \cup {new} /\ new.name = file[g].name
        BY <2>1 DEF Queued, Item
      <3>2. file' = [file EXCEPT ![g] = [file[g] EXCEPT !.disk = "there"]]
        BY <2>1 DEF Queued
      <3>3. file'[g].name = file[g].name
        BY <3>2, FileNamed, Renamed DEF TypeOK
      <3>. HIDE DEF new
      <3>. QED  BY <1>3, <3>1, <3>3
    <2>2. CASE \E p \in Proc : WriteFile(p, g)
      BY <1>3, <2>2 DEF WriteFile
    <2>. QED  BY <2>1, <2>2
  <1>6. ASSUME NEW f \in File \ doubtful PROVE (Lone(f) /\ Known(f) /\ Reason(f))'
    <2>1. Lone(f) /\ Known(f) /\ Reason(f)
      BY DEF Singles
    <2>2. CASE f # g
      BY <1>1, <1>2, <1>4, <2>1, <2>2, StillSingle
    <2>3. CASE f = g
      <3>1. served[f] = 0
        BY <1>1, <1>3, <2>1, <2>3 DEF Reason
      <3>2. Lone(f)'
        BY <1>1, <1>3, <1>5, <2>3 DEF Lone
      <3>3. Known(f)'
        BY <1>1, <1>3, <1>5, <2>3 DEF Known
      <3>4. Reason(f)'
        BY <1>1, <3>1 DEF Reason
      <3>. QED  BY <3>2, <3>3, <3>4
    <2>. QED  BY <2>2, <2>3
  <1>. QED  BY <1>1, <1>6 DEF Singles

LEMMA EndStepSingles ==
  ASSUME TypeOK, Singles, NEW p \in Proc, Die(p) \/ Stop(p) \/ Exit(p)
  PROVE  Singles'
  <1>1. CASE Stop(p)
    BY <1>1, SameSingles DEF Stop, history
  <1>2. CASE Die(p) \/ Exit(p)
    <2>1. Ended(p)
      BY <1>2 DEF Die, Exit, Heard, Unheard
    <2>2. ASSUME NEW f \in File \ doubtful' PROVE (Lone(f) /\ Known(f) /\ Reason(f))'
      <3>1. f \notin doubtful /\ \A i \in items : i.file = f /\ i.at = "taken" => i \in items'
        BY <2>1 DEF Ended
      <3>2. Lone(f) /\ Known(f) /\ Reason(f)
        BY <3>1 DEF Singles
      <3>3. items' \subseteq items /\ taking' \subseteq taking /\ UNCHANGED <<file, served>>
        BY <2>1 DEF Ended
      <3>. QED  BY <3>1, <3>2, <3>3, StillSingle
    <2>. QED  BY <2>2 DEF Singles
  <1>. QED  BY <1>1, <1>2

-----------------------------------------------------------------------------
(* The invariant. *)

(* What was dealt out are orders, about each process once.                  *)
LEMMA DealtOrders ==
  ASSUME NEW pids, pids \subseteq OldPids, NEW deal \in Dealt(pids)
  PROVE  /\ deal \in [Proc -> Seq(Order \cup Telling)]
         /\ \A p \in Proc : \A n \in DOMAIN deal[p] : deal[p][n].event = "load" /\ deal[p][n].pid \in pids
         /\ \A p, q \in Proc : \A n \in DOMAIN deal[p], k \in DOMAIN deal[q] :
              deal[p][n].pid = deal[q][k].pid => p = q /\ n = k
         /\ \A o \in pids : \E p \in 1..Nodes : \E n \in DOMAIN deal[p] : deal[p][n].pid = o
         /\ \A p \in Proc : p > Nodes => deal[p] = <<>>
  <1>1. \A p \in Proc : \E k \in 0..Cardinality(pids) : deal[p] \in [1..k -> [event : {"load"}, pid : pids]]
    <2>1. deal \in [Proc -> UNION {[1..k -> [event : {"load"}, pid : pids]] : k \in 0..Cardinality(pids)}]
      BY Zenon DEF Dealt
    <2>2. \A p \in Proc : deal[p] \in UNION {[1..k -> [event : {"load"}, pid : pids]] : k \in 0..Cardinality(pids)}
      BY <2>1, Zenon
    <2>. QED  BY <2>2, Zenon
  <1>2. deal = [p \in Proc |-> deal[p]]
    BY DEF Dealt
  <1>3. [event : {"load"}, pid : pids] \subseteq Order
    BY ProcsTyped DEF Order
  <1>4. ASSUME NEW p \in Proc
        PROVE  /\ deal[p] \in Seq(Order \cup Telling)
               /\ \A n \in DOMAIN deal[p] : deal[p][n].event = "load" /\ deal[p][n].pid \in pids
    <2>1. PICK k \in 0..Cardinality(pids) : deal[p] \in [1..k -> [event : {"load"}, pid : pids]]
      BY <1>1
    <2>2. k \in Nat
      BY <1>1, <2>1, FS_CardinalityType, FS_Subset, ProcsTyped
    <2>. QED  BY <1>3, <2>1, <2>2
  <1>. QED  BY <1>2, <1>4 DEF Dealt

LEMMA ClusterInit == Init => ClusterInv
  <1> SUFFICES ASSUME Init PROVE ClusterInv
    OBVIOUS
  <1>. DEFINE Pids == {o \in OldPids : OfPid(o) # {}}
  <1>1. /\ inbox \in [Proc -> Seq(Order \cup Telling)]
        /\ \A p \in Proc : \A n \in DOMAIN inbox[p] : inbox[p][n].event = "load" /\ inbox[p][n].pid \in Pids
        /\ \A p, q \in Proc : \A n \in DOMAIN inbox[p], k \in DOMAIN inbox[q] :
             inbox[p][n].pid = inbox[q][k].pid => p = q /\ n = k
        /\ \A o \in Pids : \E p \in 1..Nodes : \E n \in DOMAIN inbox[p] : inbox[p][n].pid = o
        /\ \A p \in Proc : p > Nodes => inbox[p] = <<>>
    <2>1. Pids \subseteq OldPids /\ inbox \in Dealt(Pids)
      BY DEF Init
    <2>. HIDE DEF Pids
    <2>. QED  BY <2>1, DealtOrders
  <1>2. Pids \subseteq OldPids /\ OldPids \subseteq Nat
    BY ProcsTyped
  <1>3. \A f \in File : /\ file[f] \in FileState /\ file[f].disk \in {"none", "there"}
                        /\ file[f].disk = "there" => file[f].pid \in Pids
    <2>1. \A o \in OldPids : [disk |-> "there", pid |-> o, name |-> 0] \in FileState
      BY <1>2 DEF FileState
    <2>2. NoFile("none") \in FileState /\ NoFile("none").disk = "none"
      BY DEF NoFile, FileState
    <2>3. ASSUME NEW f \in File
          PROVE file[f] \in {NoFile("none")} \cup {[disk |-> "there", pid |-> o, name |-> 0] : o \in OldPids}
      BY DEF Init
    <2>4. ASSUME NEW f \in File, file[f].disk = "there" PROVE file[f].pid \in Pids
      <3>1. file[f].pid \in OldPids
        BY <2>2, <2>3, <2>4
      <3>2. f \in OfPid(file[f].pid)
        BY <2>4 DEF OfPid
      <3>. QED  BY <3>1, <3>2
    <2>5. \A f \in File : file[f] \in FileState /\ file[f].disk \in {"none", "there"}
      BY <2>1, <2>2, <2>3
    <2>. QED  BY <2>4, <2>5
  <1>. HIDE DEF Pids
  <1>4. TypeOK
    <2>1. file \in [File -> FileState]
      <3>1. file = [f \in File |-> file[f]]
        BY DEF Init
      <3>. QED  BY <1>3, <3>1
    <2>2. master \in Master
      BY DEF Init, Master
    <2>. QED  BY <1>1, <1>3, <2>1, <2>2 DEF Init, TypeOK
  <1>5. HandsInv
    <2>1. Living
      <3>1. \A p \in Proc : Alive(p) \/ p > Nodes
        BY ProcsTyped DEF Init, Alive, Proc
      <3>. QED  BY <1>1, <3>1 DEF Init, Living
    <2>2. OrdersOver /\ OrderedOnce
      BY <1>1, <1>2 DEF Init, OrdersOver, OrderedOnce, Ordered, Over
    <2>. QED  BY <2>1, <2>2 DEF Init, HandsInv, Owned, TakenOnce, OneHolder, Holds
  <1>6. AllKept
    <2>1. \A o \in Pids : o \in Nat /\ Waiting(o)
      <3>1. 1..Nodes \subseteq Proc
        BY ProcsTyped DEF Proc
      <3>2. \A p \in Proc : DOMAIN inbox[p] \subseteq Nat
        BY <1>1
      <3>3. ASSUME NEW o \in Pids PROVE Waiting(o)
        <4>1. PICK p \in 1..Nodes : \E n \in DOMAIN inbox[p] : inbox[p][n].pid = o
          BY <1>1
        <4>2. PICK n \in DOMAIN inbox[p] : inbox[p][n].pid = o
          BY <4>1
        <4>3. p \in Proc /\ n \in Nat /\ Ordered(p, n, o)
          BY <1>1, <3>1, <3>2, <4>2 DEF Ordered
        <4>. QED  BY <4>3 DEF Waiting
      <3>. QED  BY <1>2, <3>3
    <2>. QED  BY <1>3, <2>1 DEF AllKept, Kept
  <1>7. Singles
    BY <1>3 DEF Init, Singles, Lone, Known, Reason
  <1>. QED  BY <1>4, <1>5, <1>6, <1>7 DEF ClusterInv

LEMMA ClusterStep == ClusterInv /\ [Next]_vars => ClusterInv'
  <1> SUFFICES ASSUME ClusterInv, [Next]_vars PROVE ClusterInv'
    OBVIOUS
  <1>0. TypeOK /\ HandsInv /\ AllKept /\ Singles
    BY DEF ClusterInv
  <1>1. CASE UNCHANGED vars
    <2>1. UNCHANGED <<proc, master, inbox, file, items, taking, flushing, served, doubtful, abandoned>>
      BY <1>1 DEF vars, history
    <2>2. TypeOK'
      BY <1>0, <2>1 DEF TypeOK
    <2>3. HandsInv'
      BY <1>0, <2>1, HandsKept DEF Own
    <2>4. Singles'
      BY <1>0, <2>1, SameSingles
    <2>5. AllKept'
      <3>1. \A o : Waiting(o) <=> Waiting(o)'
        BY <2>1, SameOrders
      <3>2. ASSUME NEW f \in File, Kept(f) PROVE Kept(f)'
        BY <2>1, <3>1, <3>2, StillKept
      <3>. QED  BY <1>0, <2>1, <3>2 DEF AllKept
    <2>. QED  BY <2>2, <2>3, <2>4, <2>5 DEF ClusterInv
  <1>2. CASE Commanded
    BY <1>0, <1>2, CommandStepTyped, CommandedHands, OtherCommandKept, OtherCommandSingles DEF ClusterInv
  <1>3. CASE GracefulRestart \/ \E p \in Proc : Listening(p)
    BY <1>0, <1>3, EndStepTyped, RestartHands, OtherCommandKept, OtherCommandSingles DEF ClusterInv
  <1>4. ASSUME NEW p \in Proc, LoadPidQueue(p) PROVE ClusterInv'
    BY <1>0, <1>4, TakeoverStepTyped, LoadPidQueueHands, LoadPidQueueKept, LoadPidQueueSingles DEF ClusterInv
  <1>5. ASSUME NEW p \in Proc, FlushQueue(p) \/ QueuePush(p) \/ QueueDiscard(p) PROVE ClusterInv'
    BY <1>0, <1>5, CommandStepTyped, CommandStepHands, CommandStepKept, CommandStepSingles DEF ClusterInv
  <1>6. ASSUME NEW p \in Proc, FlushDomain(p) PROVE ClusterInv'
    BY <1>0, <1>6, CommandStepTyped, FlushDomainHands, CommandStepKept, CommandStepSingles DEF ClusterInv
  <1>7. ASSUME NEW p \in Proc, Die(p) \/ Stop(p) \/ Exit(p) PROVE ClusterInv'
    <2>1. HandsInv'
      BY <1>0, <1>7, HeardHands, UnheardHands, StopHands DEF Die, Exit, Alive
    <2>. QED  BY <1>0, <1>7, <2>1, EndStepTyped, EndStepKept, EndStepSingles DEF ClusterInv
  <1>8. ASSUME NEW f \in File, Queued(f) \/ \E p \in Proc : WriteFile(p, f) PROVE ClusterInv'
    BY <1>0, <1>8, TakeoverStepTyped, NewFileHands, NewFileKept, NewFileSingles DEF ClusterInv
  <1>9. ASSUME NEW t \in taking, AddFiles(t) PROVE ClusterInv'
    BY <1>0, <1>9, TakeoverStepTyped, AddFilesHands, AddFilesKept, AddFilesSingles DEF ClusterInv
  <1>10. ASSUME NEW t \in taking, NEW f \in File, RenameToActualPid(t, f) PROVE ClusterInv'
    BY <1>0, <1>10, TakeoverStepTyped, RenameHands, RenameKept, RenameSingles DEF ClusterInv
  <1>11. ASSUME NEW i \in items,
                LoadFile(i) \/ ReadTodo(i) \/ Send(i) \/ Taken(i) \/ Done(i) \/ PutOff(i) \/ Fire(i)
         PROVE  ClusterInv'
    BY <1>0, <1>11, ItemsStepTyped, ItemsStepHands, ItemsStepKept, ItemsStepSingles DEF ClusterInv
  <1>12. ASSUME NEW l \in flushing, FlushListed(l) PROVE ClusterInv'
    BY <1>0, <1>12, CommandStepTyped, FlushListedHands, OtherCommandKept, OtherCommandSingles DEF ClusterInv
  <1>. QED  BY <1>1, <1>2, <1>3, <1>4, <1>5, <1>6, <1>7, <1>8, <1>9, <1>10, <1>11, <1>12 DEF Next

(* The invariant the three properties rest on holds of every run.           *)
THEOREM ClusterInvariant == Spec => []ClusterInv
  BY ClusterInit, ClusterStep, PTL DEF Spec

LEMMA ClusterImpliesKeeper == ClusterInv => OneKeeper
  <1> SUFFICES ASSUME ClusterInv, NEW f \in File, NEW p \in Proc, NEW q \in Proc, InHand(p, f), InHand(q, f)
               PROVE  p = q
    BY DEF OneKeeper
  <1>0. TypeOK /\ HandsInv
    BY DEF ClusterInv
  <1>1. ASSUME NEW r \in Proc, InHand(r, f)
        PROVE  Holds(r, f) \/ \E n, o \in Nat : Ordered(r, n, o) /\ f \in OfPid(o)
    <2>1. ASSUME NEW n \in DOMAIN inbox[r], inbox[r][n].event = "load", f \in OfPid(inbox[r][n].pid)
          PROVE  n \in Nat /\ inbox[r][n].pid \in Nat /\ Ordered(r, n, inbox[r][n].pid)
      <3>1. inbox[r] \in Seq(Order \cup Telling)
        BY <1>0 DEF TypeOK
      <3>2. n \in Nat /\ inbox[r][n] \in Order \cup Telling
        BY <3>1
      <3>3. inbox[r][n] \in Order
        BY <2>1, <3>2 DEF Telling
      <3>. QED  BY <2>1, <3>2, <3>3 DEF Order, Ordered
    <2>. QED  BY <1>1, <2>1 DEF InHand, ToTake, Holds
  <1>2. ASSUME NEW r \in Proc, NEW n \in Nat, NEW o \in Nat, Ordered(r, n, o), f \in OfPid(o),
               NEW s \in Proc, Holds(s, f)
        PROVE  FALSE
    <2>1. Over(o) /\ \A t \in taking : t.pid # o
      BY <1>0, <1>2 DEF HandsInv, OrdersOver
    <2>2. file[f].disk = "there" /\ file[f].pid = o
      BY <1>2 DEF OfPid
    <2>. QED  BY <1>0, <1>2, <2>1, <2>2, OverHeld DEF HandsInv, Holds
  <1>3. CASE Holds(p, f) /\ Holds(q, f)
    BY <1>0, <1>3 DEF HandsInv, OneHolder
  <1>4. CASE ~Holds(p, f) \/ ~Holds(q, f)
    <2>1. PICK n \in Nat, o \in Nat : Ordered(p, n, o) /\ f \in OfPid(o)
      BY <1>1, <1>2, <1>4
    <2>2. PICK k \in Nat, x \in Nat : Ordered(q, k, x) /\ f \in OfPid(x)
      BY <1>1, <1>2, <1>4
    <2>3. o = x
      BY <2>1, <2>2 DEF OfPid
    <2>. QED  BY <1>0, <2>1, <2>2, <2>3 DEF HandsInv, OrderedOnce
  <1>. QED  BY <1>3, <1>4

(* No two processes have a queue file in hand, however workers die, are     *)
(* replaced, are restarted and are told to flush.                           *)
THEOREM AlwaysOneKeeper == Spec => []OneKeeper
  BY ClusterInvariant, ClusterImpliesKeeper, PTL

(* No queue file is forgotten, but those of a takeover that was cut short,  *)
(* of a rename that failed, and of a worker whose end nobody heard of.      *)
THEOREM NoneEverForgotten == Spec => []NoneForgotten
  <1>1. ClusterInv => NoneForgotten
    <2> SUFFICES ASSUME ClusterInv, NEW f \in File, file[f].disk = "there", f \notin abandoned
                 PROVE  \/ \E t \in taking : f \in t.left \/ (f \in t.done /\ There(f, t.name[f]))
                        \/ \E p \in Proc : ToTake(p, f)
                        \/ \E i \in items : i.file = f /\ There(f, i.name)
      BY DEF NoneForgotten
    <2>1. TypeOK /\ Kept(f)
      BY DEF ClusterInv, AllKept
    <2>2. CASE \E t \in taking : f \in t.left \/ (f \in t.done /\ t.name[f] = file[f].name)
      BY <2>2 DEF There
    <2>3. CASE \E o \in Nat : o = file[f].pid /\ Waiting(o)
      BY <2>3 DEF Waiting, Ordered, ToTake, OfPid
    <2>4. CASE \E i \in items : i.file = f /\ i.name = file[f].name
      BY <2>4 DEF There
    <2>. QED  BY <2>1, <2>2, <2>3, <2>4 DEF Kept
  <1>. QED  BY <1>1, ClusterInvariant, PTL

(* A mail that was never flushed by domain, nor being answered when its     *)
(* process ended, is taken by its server once at most.                      *)
THEOREM AlwaysServedOnce == Spec => []ServedOnce
  <1>1. ClusterInv => ServedOnce
    BY DEF ClusterInv, Singles, Reason, ServedOnce
  <1>. QED  BY <1>1, ClusterInvariant, PTL

=============================================================================
