------------------------------ MODULE QueueCluster ------------------------------
(***************************************************************************)
(* The queue directory shared by the worker processes of a cluster: the    *)
(* master forks them, hands the files of dead processes over and passes    *)
(* commands on (email/server.js), a worker renames what it takes over,     *)
(* loads it and waits (email/outbound/queue.js, timer_queue.js), and an    *)
(* HMailItem reads its file (email/outbound/hmail.js).                     *)
(*                                                                         *)
(* A file bears the number of the process in charge of it in its name, and *)
(* nothing else: there is no lock. Here the number of a process is the     *)
(* process; a new one has a number no file bears. What an attempt does to  *)
(* a mail is OutboundQueue's; here all recipients have one verdict. Plugins*)
(* of the deferred and bounce hooks let the mail go on. An unlink and the  *)
(* rename of a mail that is put off are done at once.                      *)
(***************************************************************************)
EXTENDS Integers, FiniteSets, Sequences

CONSTANTS
  File,        (* the mails                                                *)
  Nodes,       (* nodes of smtp.ini: how many workers                      *)
  OldPids,     (* the processes of the run before, one may be left files   *)
  Slots,       (* concurrency_max                                          *)
  MaxProcs,    (* bound: processes forked                                  *)
  MaxNames,    (* bound: renames of one file                               *)
  MaxFaults,   (* bound: processes that die, renames that fail             *)
  MaxCommands  (* bound: commands of the operator                          *)

ASSUME ProcsTyped == /\ {Nodes, Slots} \subseteq Nat \ {0}
                     /\ {MaxProcs, MaxNames, MaxFaults, MaxCommands} \subseteq Nat
                     /\ Nodes <= MaxProcs /\ IsFiniteSet(OldPids)
                     /\ OldPids \subseteq Nat \ 1..MaxProcs

Proc == 1..MaxProcs

VARIABLES
  proc,       (* the processes: none yet, up, stopping or dead              *)
  master,     (* what the master listens to, and its graceful restart       *)
  inbox,      (* what the master sent to each and it has not handled        *)
  file,       (* the queue directory                                        *)
  items,      (* the HMailItems, and the names that wait to become one      *)
  taking,     (* load_queue_files of a worker: what it has still to rename  *)
  flushing,   (* list_queue of a worker: what it has listed                 *)
  served,     (* history: how often each mail was taken by its server       *)
  doubtful,   (* history: mails flushed by domain, or being answered when   *)
              (* their process ended                                        *)
  abandoned,  (* history: files that nobody was told of                     *)
  faults, commands  (* how many there were                                  *)

history == <<served, doubtful, abandoned>>
vars == <<proc, master, inbox, file, items, taking, flushing, history, faults, commands>>

Alive(p) == proc[p] \in {"up", "stopping"}

There(f, name) == file[f].disk = "there" /\ file[f].name = name

NoFile(why) == [disk |-> why, pid |-> 0, name |-> 0]

OfPid(pid) == {f \in File : file[f].disk = "there" /\ file[f].pid = pid}

(* An item as it is made: "wait" and "load" are names on their way through  *)
(* the load queue; an HMailItem waits in the "queue" or for its "timer", is *)
(* "sending", or was "taken" by the server. It reads its file on its own.   *)
Item(p, f, name, at) == [proc |-> p, file |-> f, name |-> name, at |-> at, todo |-> "unread",
                         loading |-> FALSE, flushed |-> FALSE]

Replace(i, j) == items' = (items \ {i}) \cup {j}
-----------------------------------------------------------------------------
(* The numbers found in the queue directory, dealt out to the workers in    *)
(* turn, whichever comes first.                                             *)
Dealt(pids) ==
  {deal \in [Proc -> UNION {[1..n -> [event : {"load"}, pid : pids]] : n \in 0..Cardinality(pids)}] :
     /\ \A o \in pids : \E p \in 1..Nodes : \E n \in DOMAIN deal[p] : deal[p][n].pid = o
     /\ \A p, q \in Proc : \A n \in DOMAIN deal[p], k \in DOMAIN deal[q] :
          deal[p][n].pid = deal[q][k].pid => p = q /\ n = k
     /\ \A p \in Proc : p > Nodes => deal[p] = <<>>
     /\ \A p \in 1..Nodes : \A q \in 1..(p - 1) : Len(deal[q]) - Len(deal[p]) \in {0, 1}}

(* init_master_respond: the files found bear the numbers of old processes.  *)
Init ==
  /\ proc = [p \in Proc |-> IF p <= Nodes THEN "up" ELSE "none"]
  /\ master = [listening |-> TRUE, own |-> {}, todo |-> {}, fresh |-> {}, limit |-> 1]
  /\ file \in [File -> {NoFile("none")} \cup {[disk |-> "there", pid |-> o, name |-> 0] : o \in OldPids}]
  /\ inbox \in Dealt({o \in OldPids : OfPid(o) # {}})
  /\ items = {} /\ taking = {} /\ flushing = {}
  /\ served = [f \in File |-> 0] /\ doubtful = {} /\ abandoned = {}
  /\ faults = 0 /\ commands = 0

Fault   == faults < MaxFaults /\ faults' = faults + 1
Command == commands < MaxCommands /\ commands' = commands + 1
-----------------------------------------------------------------------------
(* The files of dead processes. *)

(* Mutant: the number in the name is not looked at. *)
Sought_Any(pid) == {f \in File : file[f].disk = "there"}

Sought(pid) == OfPid(pid)

(* load_pid_queue: temporary files are deleted, whoever is writing them,    *)
(* and the files of the process are listed, each to be renamed.             *)
LoadPidQueue(p) ==
  /\ Alive(p) /\ inbox[p] # <<>> /\ Head(inbox[p]).event = "load"
  /\ LET pid == Head(inbox[p]).pid
     IN  taking' = taking \cup {[proc |-> p, pid |-> pid, left |-> Sought(pid), done |-> {},
                                    name |-> [f \in File |-> 0]]}
  /\ file' = [f \in File |-> IF file[f].disk = "dot" THEN NoFile("gone") ELSE file[f]]
  /\ inbox' = [inbox EXCEPT ![p] = Tail(@)]
  /\ UNCHANGED <<proc, master, items, flushing, history, faults, commands>>

(* rename_to_actual_pid, whose new name is remembered; a file that cannot   *)
(* be renamed is passed over.                                               *)
RenameToActualPid(t, f) ==
  /\ t \in taking /\ f \in t.left
  /\ LET gone == file[f].disk # "there"
     IN  \/ /\ ~gone
            /\ file' = [file EXCEPT ![f] = [disk |-> "there", pid |-> t.proc, name |-> @.name + 1]]
            /\ taking' = (taking \ {t}) \cup {[t EXCEPT !.left = @ \ {f}, !.done = @ \cup {f},
                                                         !.name[f] = file[f].name + 1]}
            /\ UNCHANGED <<faults, abandoned>>
         \/ /\ IF gone THEN UNCHANGED <<faults, abandoned>>
                       ELSE Fault /\ abandoned' = abandoned \cup {f}
            /\ taking' = (taking \ {t}) \cup {[t EXCEPT !.left = @ \ {f}]}
            /\ UNCHANGED file
  /\ UNCHANGED <<proc, master, inbox, items, flushing, served, doubtful, commands>>

(* When all are renamed: _add_file of each, which waits until it is due.    *)
AddFiles(t) ==
  /\ t \in taking /\ t.left = {}
  /\ taking' = taking \ {t}
  /\ \E due \in SUBSET t.done :
       items' = items \cup {Item(t.proc, f, t.name[f], IF f \in due THEN "load" ELSE "wait") : f \in t.done}
  /\ UNCHANGED <<proc, master, inbox, file, flushing, history, faults, commands>>

(* A worker of the load queue makes the HMailItem and _add_hmail queues it  *)
(* at once or sets a timer again; its slot is held until the file is read.  *)
LoadFile(i) ==
  /\ i \in items /\ i.at = "load"
  /\ Cardinality({j \in items : j.proc = i.proc /\ j.loading}) < Slots
  /\ \E at \in {"queue", "timer"} : Replace(i, [i EXCEPT !.at = at, !.loading = TRUE])
  /\ UNCHANGED <<proc, master, inbox, file, taking, flushing, history, faults, commands>>

(* size_file and read_todo. If the file has gone the item is never ready,   *)
(* its bounce waits for that, and so does its slot; when its attempts have  *)
(* run out the process ends of it instead, which is Die.                    *)
ReadTodo(i) ==
  /\ i \in items /\ i.todo = "unread" /\ i.at \notin {"wait", "load"}
  /\ Replace(i, IF There(i.file, i.name) THEN [i EXCEPT !.todo = "read", !.loading = FALSE]
                                         ELSE [i EXCEPT !.todo = "never"])
  /\ UNCHANGED <<proc, master, inbox, file, taking, flushing, history, faults, commands>>
-----------------------------------------------------------------------------
(* Mails come in and go out. *)

(* process_delivery: a file is written under a temporary name.              *)
WriteFile(p, f) ==
  /\ Alive(p) /\ file[f].disk = "none"
  /\ file' = [file EXCEPT ![f] = [disk |-> "dot", pid |-> p, name |-> 0]]
  /\ UNCHANGED <<proc, master, inbox, items, taking, flushing, history, faults, commands>>

(* It is renamed and queued. (If it was deleted meanwhile the client is     *)
(* told to try again.)                                                      *)
Queued(f) ==
  /\ file[f].disk = "dot" /\ Alive(file[f].pid)
  /\ file' = [file EXCEPT ![f].disk = "there"]
  /\ items' = items \cup {Item(file[f].pid, f, file[f].name, "queue")}
  /\ UNCHANGED <<proc, master, inbox, taking, flushing, history, faults, commands>>

Send(i) ==
  /\ i \in items /\ i.at = "queue"
  /\ Cardinality({j \in items : j.proc = i.proc /\ j.at \in {"sending", "taken"}}) < Slots
  /\ Replace(i, [i EXCEPT !.at = "sending"])
  /\ UNCHANGED <<proc, master, inbox, file, taking, flushing, history, faults, commands>>

(* The server has taken the mail, all of which could be read.               *)
Taken(i) ==
  /\ i \in items /\ i.at = "sending" /\ i.todo = "read" /\ There(i.file, i.name)
  /\ served' = [served EXCEPT ![i.file] = @ + 1]
  /\ Replace(i, [i EXCEPT !.at = "taken"])
  /\ UNCHANGED <<proc, master, inbox, file, taking, flushing, doubtful, abandoned, faults, commands>>

Unlink(i) ==
  file' = IF There(i.file, i.name) THEN [file EXCEPT ![i.file] = NoFile("gone")] ELSE file

(* delivered_respond, or the mail is bounced: the file is unlinked, if it   *)
(* still has the name the item knows.                                       *)
Done(i) ==
  /\ i \in items /\ i.at \in {"sending", "taken"} /\ i.todo = "read"
  /\ Unlink(i) /\ items' = items \ {i}
  /\ UNCHANGED <<proc, master, inbox, taking, flushing, history, faults, commands>>

(* temp_fail and deferred_respond: renamed to wait, or else bounced.        *)
PutOff(i) ==
  /\ i \in items /\ i.at = "sending" /\ i.todo = "read"
  /\ There(i.file, i.name) /\ i.name < MaxNames
  /\ file' = [file EXCEPT ![i.file].name = @ + 1]
  /\ Replace(i, [i EXCEPT !.name = @ + 1, !.at = "timer"])
  /\ UNCHANGED <<proc, master, inbox, taking, flushing, history, faults, commands>>

(* The callback of a timer: the name is loaded, or the mail sent.           *)
Fired(i) == [i EXCEPT !.at = IF i.at = "wait" THEN "load" ELSE "queue"]

Timers(p) == {i \in items : i.proc = p /\ i.at \in {"wait", "timer"}}

Fire(i) ==
  /\ i \in Timers(i.proc) /\ proc[i.proc] # "stopping"
  /\ Replace(i, Fired(i))
  /\ UNCHANGED <<proc, master, inbox, file, taking, flushing, history, faults, commands>>
-----------------------------------------------------------------------------
(* The commands of the operator. *)

SendAll(order) == inbox' = [p \in Proc |-> IF Alive(p) THEN Append(inbox[p], order) ELSE inbox[p]]

(* flushQueue with and without a domain, and the commands PUSH and DISCARD  *)
(* of the status plugin: every worker is told.                              *)
Commanded ==
  /\ Command
  /\ \E f \in File, event \in {"flush", "flush domain", "push", "discard"} :
       SendAll([event |-> event, file |-> f, name |-> file[f].name])
  /\ UNCHANGED <<proc, master, file, items, taking, flushing, history, faults>>

Handle(p, event) ==
  /\ Alive(p) /\ inbox[p] # <<>> /\ Head(inbox[p]).event = event
  /\ inbox' = [inbox EXCEPT ![p] = Tail(@)]

Run(timers) == items' = (items \ timers) \cup {Fired(i) : i \in timers}

FlushQueue(p) ==
  /\ Handle(p, "flush") /\ Run(Timers(p))
  /\ UNCHANGED <<proc, master, file, taking, flushing, history, faults, commands>>

Named(p) == LET order == Head(inbox[p])
            IN  {i \in Timers(p) : i.file = order.file /\ i.name = order.name}

QueuePush(p) ==
  /\ Handle(p, "push")
  /\ \/ Named(p) = {} /\ UNCHANGED items
     \/ \E i \in Named(p) : Run({i})
  /\ UNCHANGED <<proc, master, file, taking, flushing, history, faults, commands>>

QueueDiscard(p) ==
  /\ Handle(p, "discard")
  /\ \/ Named(p) = {} /\ UNCHANGED items
     \/ \E i \in Named(p) : items' = items \ {i}
  /\ LET order == Head(inbox[p])
     IN  Unlink(order)
  /\ UNCHANGED <<proc, master, taking, flushing, history, faults, commands>>

(* list_queue of a flush by domain: every file there is listed, whosever.   *)
FlushDomain(p) ==
  /\ Handle(p, "flush domain")
  /\ flushing' = flushing \cup
       {[proc |-> p, domain |-> Head(inbox[p]).file,
         listed |-> {[file |-> f, name |-> file[f].name, pid |-> file[f].pid] :
                       f \in {f \in File : file[f].disk = "there"}}]}
  /\ UNCHANGED <<proc, master, file, items, taking, history, faults, commands>>

(* _list_file has read them all, the last of them now; one that has gone is *)
(* never answered, nor is the list then. Those of the domain and of the     *)
(* process are queued, though an item or a timer may have them already.     *)
FlushListed(l) ==
  /\ l \in flushing /\ \E e \in l.listed : There(e.file, e.name)
  /\ flushing' = flushing \ {l}
  /\ LET own == {e \in l.listed : e.pid = l.proc /\ e.file = l.domain}
     IN  /\ items' = items \cup
               {[Item(l.proc, e.file, e.name, "queue") EXCEPT !.flushed = TRUE] : e \in own}
         /\ doubtful' = doubtful \cup {e.file : e \in own}
  /\ UNCHANGED <<proc, master, inbox, file, taking, served, abandoned, faults, commands>>
-----------------------------------------------------------------------------
(* Processes end. *)

Unborn == {q \in Proc : proc[q] = "none"}

(* What the replacement of a worker is told: to load the files of the one   *)
(* that has died, and nothing when it was replaced by a graceful restart.   *)
(* Mutants: that always; its own number.                                    *)
Told_Always(p, q, state) == <<[event |-> "load", pid |-> p]>>

Told_Own(p, q, state) == IF state = "dead" THEN <<[event |-> "load", pid |-> q]>> ELSE <<>>

Told(p, q, state) == IF state = "dead" THEN <<[event |-> "load", pid |-> p]>> ELSE <<>>

Forked(p) == p \in Unborn /\ \A r \in Unborn : p <= r

Replaced(p, q, state) ==
  /\ Forked(q)
  /\ proc' = [proc EXCEPT ![p] = state, ![q] = "up"]
  /\ inbox' = [inbox EXCEPT ![p] = IF state = "dead" THEN <<>> ELSE @, ![q] = Told(p, q, state)]

(* What it was ordered to take over and has not. *)
Owed(p) ==
  UNION ({OfPid(t.pid) : t \in {t \in taking : t.proc = p}}
    \cup {OfPid(inbox[p][n].pid) : n \in {n \in DOMAIN inbox[p] : inbox[p][n].event = "load"}})

(* What is in memory is gone; a mail that was being answered may be sent    *)
(* again.                                                                   *)
Ended(p) ==
  /\ items' = {i \in items : i.proc # p}
  /\ taking' = {t \in taking : t.proc # p}
  /\ flushing' = {l \in flushing : l.proc # p}
  /\ doubtful' = doubtful \cup {i.file : i \in {i \in items : i.proc = p /\ i.at = "taken"}}
  /\ UNCHANGED <<file, served, commands>>

(* Somebody listens for the exit of a worker until the first graceful       *)
(* restart, and then only for that of the workers which came with one.      *)
Watched(p) == master.listening \/ p \in master.own

(* cluster_exit_listener replaces a worker that failed, by an exit code or  *)
(* a signal.                                                                *)
Heard(p) ==
  /\ Watched(p) /\ \E q \in Proc : Replaced(p, q, "dead")
  /\ Ended(p) /\ abandoned' = abandoned \cup Owed(p)
  /\ UNCHANGED master

(* A worker that exits with 0, or that nobody listens for, is not replaced, *)
(* and nobody is told of its files.                                         *)
Unheard(p) ==
  /\ proc' = [proc EXCEPT ![p] = "dead"] /\ inbox' = [inbox EXCEPT ![p] = <<>>]
  /\ Ended(p) /\ abandoned' = abandoned \cup OfPid(p) \cup Owed(p)
  /\ UNCHANGED master

Die(p) == proc[p] = "up" /\ Fault /\ (Heard(p) \/ Unheard(p))

(* gracefulRestart: all listeners for exits are removed. It is ignored      *)
(* while one is under way, for ever if one of its new workers never listens.*)
GracefulRestart ==
  /\ Command
  /\ master.todo = {} /\ master.fresh = {} /\ \A p \in Proc : proc[p] # "stopping"
  /\ LET workers == {p \in Proc : proc[p] = "up"}
     IN  master' = [master EXCEPT !.listening = FALSE, !.todo = workers,
                                  !.limit = IF Cardinality(workers) < 3 THEN 1 ELSE Cardinality(workers) - 1]
  /\ UNCHANGED <<proc, inbox, file, items, taking, flushing, history, faults>>

(* One worker after another, so many at a time, is told to stop its timers  *)
(* and to disconnect, and a new one is forked.                              *)
Stop(p) ==
  /\ p \in master.todo /\ \A q \in master.todo : p <= q
  /\ proc[p] = "up" /\ Cardinality(master.fresh) < master.limit
  /\ \E q \in Proc : /\ Replaced(p, q, "stopping")
                     /\ master' = [master EXCEPT !.todo = @ \ {p}, !.fresh = @ \cup {q}]
  /\ UNCHANGED <<file, items, taking, flushing, history, faults, commands>>

(* The new worker listens, and has a listener for its exit.                 *)
Listening(p) ==
  /\ p \in master.fresh /\ proc[p] = "up"
  /\ master' = [master EXCEPT !.fresh = @ \ {p}, !.own = @ \cup {p}]
  /\ UNCHANGED <<proc, inbox, file, items, taking, flushing, history, faults, commands>>

(* A worker that was stopped exits, or is killed after a minute. *)
Exit(p) == proc[p] = "stopping" /\ UNCHANGED faults /\ (Heard(p) \/ Unheard(p))
-----------------------------------------------------------------------------
Next ==
  \/ Commanded \/ GracefulRestart
  \/ \E p \in Proc :
       \/ LoadPidQueue(p) \/ FlushQueue(p) \/ QueuePush(p) \/ QueueDiscard(p) \/ FlushDomain(p)
       \/ Die(p) \/ Stop(p) \/ Listening(p) \/ Exit(p)
       \/ \E f \in File : WriteFile(p, f)
  \/ \E f \in File : Queued(f)
  \/ \E t \in taking : AddFiles(t) \/ \E f \in File : RenameToActualPid(t, f)
  \/ \E i \in items : LoadFile(i) \/ ReadTodo(i) \/ Send(i) \/ Taken(i) \/ Done(i) \/ PutOff(i) \/ Fire(i)
  \/ \E l \in flushing : FlushListed(l)

Spec == Init /\ [][Next]_vars
-----------------------------------------------------------------------------
(* There is no lock on a queue file, and yet no two processes have it in    *)
(* hand: neither as an item nor to be taken over, nor are ordered to, while *)
(* workers die, are replaced and are told to flush and to restart.          *)
ToTake(p, f) == \E n \in DOMAIN inbox[p] : inbox[p][n].event = "load" /\ f \in OfPid(inbox[p][n].pid)

InHand(p, f) ==
  \/ ToTake(p, f)
  \/ \E t \in taking : t.proc = p /\ f \in t.left \cup t.done
  \/ \E i \in items : i.proc = p /\ i.file = f

OneKeeper == \A f \in File : \A p, q \in Proc : InHand(p, f) /\ InHand(q, f) => p = q

(* Every file of the queue is in the hand of a process under the name it    *)
(* has now, whichever worker dies at whichever moment, unless it died with  *)
(* a takeover unfinished, a rename of the takeover failed, or nobody heard  *)
(* of its end: a worker that a graceful restart stopped, one that exited    *)
(* with 0, and after a restart every worker which did not come with one, a  *)
(* replacement forked by cluster_exit_listener included.                    *)
NoneForgotten ==
  \A f \in File : file[f].disk = "there" /\ f \notin abandoned =>
    \/ \E t \in taking : f \in t.left \/ (f \in t.done /\ There(f, t.name[f]))
    \/ \E p \in Proc : ToTake(p, f)
    \/ \E i \in items : i.file = f /\ There(f, i.name)

(* A mail is taken twice by its server only if it was flushed by domain, or *)
(* its process ended before the answer was dealt with.                      *)
ServedOnce == \A f \in File : served[f] > 1 => f \in doubtful
=============================================================================
