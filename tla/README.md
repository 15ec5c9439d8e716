# Companyly microservices: TLA+ models, model checking and proofs

This directory holds the specifications of the services in `src/`: TLA+ modules translated from
the code, TLC configurations that check them on small instances, and proofs that TLAPS checks for
every instance. `PROJECT.json` maps each definition to the lines it stands for, lists the runs,
the mutants (a plausible bug per property that the run then finds), the hazards of the code and
the theorems.

    tlasany M.tla                              # parse
    tlc -workers 2 -config X.cfg MCX.tla       # model-check
    tlapm XProofs.tla                          # check the proofs

## 1. The system

Companyly is a set of node services around a web client: meetings, presence, web mail, a voice
assistant, and a mail server (Haraka, vendored under `src/email` and run as part of the product).

| part | state it keeps | operations | talks to |
|---|---|---|---|
| **webrtc** (`src/webrtc`) | `roomsList`: rooms with members, invites, moderators, chat, start time; socket.io rooms; timers | create, join (with takeover by a second device), leave, disconnect, update member or room, chat, invite or kick the assistant; two timers | web clients and the assistant (socket.io); posts invitations to sync |
| **sync** (`src/sync`) | `members`: user → socket | announce, disconnect; three HTTP notices | web clients; webrtc, smtp and chat post to it |
| **smtp** (`src/smtp`) | `connected`: address → socket; `mailsList` | join, disconnect, `GET /mails`, `POST /send`, SMTP `onData` | web clients; hands mails to email and receives them from it; posts to sync |
| **assistant** (`src/assistant`) | a table of rooms it sits in, one core per room, streams of room data | invited, kicked, answers to speech and text | a client of webrtc |
| **email: inbound** (`connection.js`, `plugins.js`, `transaction.js`) | per connection: state, buffered lines, transaction, hooks under way | the SMTP commands, hooks and their timeouts, disconnection | SMTP clients; the plugins; the outbound queue |
| **email: filters** (`spf.js`, `plugins/helo.checks.js`, `mail_from.is_resolvable.js`, `dnsbl.js`, …) | results kept for the connection or the mail, lists in use | hooks that ask the DNS | DNS; answers to `plugins.js` |
| **email: forwarding** (`smtp_client.js`, `plugins/queue/smtp_forward.js`) | clients of a backend and the pool they come from | the queue hook | a backend server |
| **email: outbound** (`outbound/*.js`) | queue files; delivery, load and deferral queues; pooled sockets | write a transaction's files, load, deliver, split, defer, bounce, discard | remote SMTP and LMTP servers |
| **email: cluster** (`server.js`) | the workers | fork, replace a worker that ended, flush, graceful restart | its workers, by messages |

How they interact: a meeting invitation goes webrtc → sync → client; a mail goes client → smtp →
email (inbound with its filters, then `smtp_forward` or outbound) → smtp → sync → client; the
assistant is an ordinary socket of webrtc that is told by an event that it was invited; the workers
of the mail server share one queue directory.

**What is hard.** Node runs one callback at a time, so nothing is torn in the middle of a
function, but all that waits is interleaved: sockets of one user close after newer ones opened,
timers fire on objects that were replaced or used again, plugins answer within the call or after
their time, DNS answers come in any order and after the mail is over, remote servers answer
anything, connections die between two replies, files outlive the process and are taken over by
another. `hazards` in `PROJECT.json` names each such place at its line, with the properties that
watch it or the reason why none does.

**What makes each part correct.**

- *webrtc*: members can be reached and whoever listens is seen; clients see what the server holds;
  empty rooms go, occupied ones stay.
- *assistant*: one bot a meeting, which listens to it, changes its invites only, and goes when told.
- *sync*: the latest announcement of a user decides where he is reached; nobody gone is shown.
- *smtp*: no list misses a mail its client was not told of.
- *inbound*: one reply per command in order; nobody waits for nobody; the transaction holds the
  recipients the client was granted; disconnections end.
- *filters*: a verdict rests on answers that allow it, comes once, and comes at all.
- *forwarding*: OK means taken by the backend, for everybody and once; a refusal is final.
- *outbound dialogue*: exactly one verdict, which is what the server said of each recipient.
- *outbound queue*: whom the server accepted gets the mail, or the sender a bounce, once, across
  splits, retries and restarts; files and slots are never forgotten.
- *cluster*: a queue file is in the hands of one worker, and of one always.

## 2. The modules

| module | models | MC module | cfg | proofs |
|---|---|---|---|---|
| `RoomService` | `webrtc/src/room/room.service.ts`, handlers of `server.ts` | `MCRoomService` | RoomTakeover | `RoomServiceProofs` |
| `Assistant` | `assistant/src`: `index.ts`, `core/meeting`, two actions; the part of `room.service.ts` they meet | `MCAssistant` | Assistant | `PresenceProofs` |
| `SyncStates` | `sync/src/syncStates/syncStates.service.ts` | `MCSyncStates` | SyncStates | `PresenceProofs` |
| `SmtpService` | `smtp/src/smtp.service.ts`, `server.ts` | `MCSmtpService` | SmtpService | `SmtpProofs` |
| `Connection` | `email/connection.js`, `plugins.js`, part of `transaction.js` | `MCConnection` | Connection | `ConnectionProofs` |
| `SenderPolicy` | `email/spf.js`, `plugins/spf.js` | `MCSenderPolicy` | SenderPolicy | `VerdictProofs` |
| `Admission` | `plugins/helo.checks.js`, `plugins/mail_from.is_resolvable.js` | `MCAdmission` | Admission | `FilterProofs` |
| `DnsLists` | `plugins/dns_list_base.js`, `plugins/dnsbl.js` | `MCDnsLists` | DnsLists | `FilterProofs` |
| `SmtpClient` | `email/smtp_client.js`, `plugins/queue/smtp_forward.js` | `MCSmtpClient` | SmtpClient | `SmtpProofs` |
| `HMailSession` | one delivery attempt of `email/outbound/hmail.js` | `MCHMailSession` | HMailSession | `VerdictProofs` |
| `MailPromise` | what a sender may rely on (abstract) | – | – | – |
| `OutboundQueue` | `email/outbound/queue.js`, `index.js`, the rest of `hmail.js`; implements `MailPromise` | `MCOutboundQueue` | OutboundQueue | `OutboundQueueProofs` |
| `QueueCluster` | the same directory under several workers: `email/server.js`, `outbound/queue.js`, `timer_queue.js`, `plugins/status.js` | `MCQueueCluster` | QueueCluster | `QueueClusterProofs` |

`Assistant` and `RoomService` meet at the socket events of the meeting server: `Assistant` has its
own, smaller meeting server in it, translated from the same lines. `OutboundQueue` takes a delivery
attempt, which is `HMailSession`, as one step; `QueueCluster` takes what `OutboundQueue` does with a
verdict as one step, and has the directory, the processes and the operator instead.

### RoomService

A handler is one action: node does not interrupt it. `roomsList` is the set of keys, `room[r]` the
fields of the listed object that `updateRoom` copies, `seat[r][u]` the socket of the member `u`
(`NoSocket`: no member), `joined[r]` the socket.io room, `media` which device turned the member's
media on. `updateRoom` replaces the object by a shallow copy, so that a join timer armed before it
holds an object nobody lists any more: `announce[r]` counts the timers on the listed object
(`fresh`) and on a replaced one (`stale`); only the former sets the start time. `reaper[r]` counts
the deletion timers, which nothing cancels. `listSeen`, `dataSeen` and `chatSeen` are what was last
sent to a client: `sendRooms` reaches every open socket, `sendRoom` and `sendMessages` those of
the socket.io room.

The histories `visited`, `split` and `robbed` say where the code itself gives an exception:
a room never joined has no deletion timer; an update between a join and its announcement loses the
start time; `leaveMember` does not compare sockets, so that a superseded device can remove the
member another device has taken over.

`Owner[s]` is the set of users the client of a socket acts for. The web client acts for one;
the theorems about listening need that (`SingleUser`). The assistant breaks it: all its bots share
one socket, and when two of them sit in one room the first that leaves takes the socket out of the
socket.io room of the other. The type, life-time, media and start-time theorems hold without it.

Left out: the relays of voice, the SERVER_MESSAGE notices and the inner timer that sends one of
them (they change no state), the order of chat messages, names and texts.

### Assistant

`down` and `up` are what is under way between the meeting server and the assistant's one socket;
what one handler sends arrives together. `slow` and `quick` are the timers of three seconds and of
one that every invitation, word and departure goes through, `rooms` the table of cores (one per
meeting, a later one replaces an earlier), `core[b]` what became of the bot `b`. `Hearing` is what
is alive of a core once it was destroyed: its subscription to what is said. `asking` are the
requests for the employees. `again` marks meetings to which a second bot was invited while the
first was on its way, and `shared` is set when the assistant joins a meeting before it is done with
another (`Elsewhere`): a core is live there, its socket listens or is about to, cores were told to
leave, or data of the other meeting is still under way. Its streams are not filtered by room
(`room.core.ts:141`), so that a new core takes data of a meeting that was just left for its own, and
the model follows that no further.

### SyncStates

`members`, and what each client was last `shown`. `announced` and `latest` are histories: what the
code promises is about the latest announcement, while the code looks the closing socket up.
`find()` takes one member of a socket that announced several; the model takes any of them.

### SmtpService

`mailsList` counts the copies of each mail (a mail sent by `POST /send` to an address of the
product is stored by the answer and by the delivery that comes back). A client told by MAILS_LIST
is `stale` until it fetches; a list is current if it is what `getInMails` would give now. The mail
server is external: it takes or refuses a mail, and delivers it up to `MaxCopies` times, before or
after its answer. A client joins with one address (`Owner`). Mails the parser cannot read and
attachments are left out.

### Connection

The same function of `connection.js` runs deep in the call stack, when a plugin answers within its
call, or on an empty one, when it answers later; what the code does next depends on it. `agenda`
is that call stack: the calls the running callback has still to make. Every method is an action
that takes its call from the agenda and puts the calls it makes in front, closures included; events
(a line, a closed socket, a socket timeout, an answer, a plugin's time) come in when the agenda is
empty, as in node. The plugins of a hook are counted; an answer is any value of `Answers[hook]`,
within the call, later, or after the plugin's time.

`owed` counts the replies the client has not had. Three histories mark what the code has no way
back from, and the properties that depend on them say so:

- `derailed`: the resume that `reset_transaction_respond` makes after its callback
  (`connection.js:672`) came for a pause that was over, because a reply was already given within that
  callback, or ended another pause (`Stale`), `respond` was called while disconnecting, or
  the deny hook's own plugin was timed out and its closure calls itself (`plugins.js:505`);
- `barred`: a plugin refused or outlived one of the hooks that must run (`reset_transaction`,
  `disconnect`), and the deny hook it then goes through is not one that runs for a
  disconnected client;
- `crashed`: an exception nobody catches: a second QUIT during the first one's hooks in LOOP
  (`connection.js:388`), or a refused mail written to a transaction that is gone.

The model stops at `derailed` and `crashed` states and goes on after `barred`. So the properties
of `Connection` hold up to the first of them; the hazards list the lines.

Left out: AUTH, STARTTLS and commands of plugins, the PROXY prelude, VRFY, NOOP, HELP, the limits
on lengths, message bodies and headers, and the texts of replies.

### SenderPolicy

A call of `check_host` is a frame: the mechanisms and modifiers it has still to run, and whom its
result goes to (the hook, an include, a redirect). Within one callback the code runs on from
mechanism to mechanism, so `agenda` is a call stack here too, and DNS answers come in when it is
empty. `groups` are the lookups of one mechanism that are out together (the exchanges of an MX, the
names of a PTR) with the count the code calls `pending`. `zone` is what the domains publish; what an
address is compared with is left to the answer ("hit"). `counts` and `been_there` are passed on as
the code does: an include gets a copy of the count and shares the table of places. The hooks of
`plugins/spf.js` decide from verdict, `relaying` and the settings. `flawed` marks an MX one of whose
exchanges could not be looked up: `mech_mx` then reports the error at once and goes on reporting.

Left out: macros, CIDR arithmetic, the text of `exp`, and that the parser drops an include's own
qualifier (the code ignores it; so does the model).

### Admission

One connection that introduces itself and sends mails in any order the server lets it. `hook` is
what became of each hook; `queries` are lookups without an answer, late ones included: a hook that
was answered by its own timer or by that of `plugins.js` still gets them. `MailHook`, `MxAnswer`,
`ExchangeAnswer` and `ImplicitAnswer` are `hook_mail` and its closures. Of `helo.checks` the model has
the hooks that are registered, `proto_mismatch`, `init` and `emit_log`: the loop that should register
the nine checks of the name runs over the indexes of their list (`helo.checks.js:34`), so that none of
them ever runs. `helo_host` is the result `init` keeps for the connection, and `HeloAnswered` is the
answer of the other plugins, after which the connection notes whether an EHLO succeeded.

### DnsLists

`health` is what a list is at this moment, which may change at any time; `tests` are the two
lookups of `check_zones` under way, `lookups` those for clients, `hits` the listings so far. A list
that lists 127.0.0.1 or does not list 127.0.0.2 leaves `zones`; the test at the interval looks at
`zones` and `disabled_zones` and puts a list back. `load_config` is the settings read again.

### SmtpClient

An event on a client's socket runs every listener before the next event, so it is one action; the
listeners are operators from a client's record to the one they leave, and what they answer to the
hook or throw is taken from the record afterwards. `client[m]` is the client the mail `m` was
given, `wire` what it asked and the backend has not answered, `command` and `state` the code's.
`borrowed` are the clients the pool counts as in use, `waiting` the mails that wait for one, `txn` the
mail whose hook made the client's listeners. The backend answers with any reply or none, hangs up, or
talks nonsense, keeps an envelope, and `taken` is what it accepted: the truth OK is compared with.
`Garbled` is a line that is no reply: the hook goes on to the next plugin, and `destroy` is called, which
does nothing for a mail's own client, as that has no pool (`smtp_client.js:57`, `260`). Its socket and
its listeners stay, and what the backend replies afterwards drives the dialogue on.

`smtp_forward` is the last queue plugin and there is none for `reset_transaction`, as in
`config/plugins`: so its answer ends the transaction, NEXT included. With another behind it the
transaction would be there until that one has answered.

Left out: several hosts, XCLIENT together with AUTH, STARTTLS refused by the TLS library, and the
text of messages.

### HMailSession

`cmd` is the command whose reply is awaited. `Reply(code)` is the handler of a line, which all
commands share; `TryDeliverHost` starts the next host with a new or a pooled connection;
`Lose` and `Close` are the ends of a connection. `okRecips`, `failRecips`, `bounceRecips`, `index`
and `lmtpIdx` are the code's variables. `said` and `accepted` are what the server said and did,
the truth the verdicts are compared with. A reply is of one of six kinds: 250, another 2xx, 3xx,
4xx, 5xx, or a line that is no reply; `option.codes` says which of them the servers of a behaviour
give, `Orderly` being those of a server that answers by the letter.

### MailPromise and OutboundQueue

`MailPromise` is the queue as its user sees it: an answer, how often each recipient was served, who
was given up. Once answered, each recipient is served or given up, once and for all. A crash may
serve twice, and a crash or an error while splitting may give up one who was served; either may happen
to a recipient for whom a server took the mail unnoticed (`unnoticed`), which is an exception for him
alone.
`OutboundQueue!Promise` instantiates it, `served` being the deliveries and `failed` the recipients
of mails that were told of or dropped.

In `OutboundQueue` a mail is a file (`disk`) and an `HMailItem` somewhere (`at`): held by
`send_trans_email`, in the load or delivery queue, in a timer, being sent, being renamed, or `ending`,
when only calls are left that each discard it once. `refcount`, `slot` (the task of the async queue),
`attempts` (in the file name) and `failures` (in memory) are the code's. A delivery attempt is
`HMailSession` seen from outside, with what that does wrong: it ends with three lists (`Attempted`)
that need not have everybody, for a recipient answered 251 is in none; `finish_processing_mail` splits
off and counts by the lists (`Parted`), and a mail whose lists are all empty is discarded. LMTP may
count one as served who is not, in the place of another who is (`got` against `ok`). `Taken` is a
server that takes the mail without the exchange noticing: the connection is lost before the answer to
the data is read, that answer cannot be read, or it is put to another recipient. `SendBlocked` is an
attempt that forced TLS ends with no verdict: the mail is `blocked`, with its file and its slot, until
a restart. `unnoticed`, `unserved` (whom a mail let go and no server took it for) and `bounceFailed`
are the histories that the properties name in their exceptions. `Restart` is a crash and `load_queue`:
memory is gone, files are there, and an ordered unlink may have happened or not. Files that are there
can be read, and the length of delays is left out.

### QueueCluster

A file bears the pid of the process in charge of it in its name, and there is no lock. `file` is
the directory: a temporary file, a queue file with its pid and how often it was renamed, or gone.
`items` are the `HMailItem`s and the names on their way to become one; each knows the name it was
made with, and reads its file on its own (`todo`), so that it may find it gone. `taking` is
`load_queue_files` of a worker between its listing and its last rename, `flushing` the same of
`list_queue`. `inbox` are the messages of the master. At the start the files bear pids of an
earlier run, which the master deals out to its workers in turn, whichever it finds first.

`master` is what `server.js` keeps: whether its listener for exits is in place (`listening`), which
workers have a listener of their own (`own`), and the graceful restart under way: workers whose turn
has not come (`todo`), new ones that do not listen yet (`fresh`), and how many at a time (`limit`). A
worker ends by itself (`Die`) or as it was told to (`Exit`). If somebody listens (`Watched`) and it
failed, by a code or a signal, it is replaced by one that is told to load its files (`Heard`). If it
exits with 0, or nobody listens, it is not replaced and nobody is told (`Unheard`). A graceful restart
removes every listener for exits, and only the workers that come with it get one, once they listen
(`server.js:173`, `215`); a replacement that `cluster_exit_listener` forks afterwards gets none.

`doubtful` marks mails that were flushed by domain, or were being answered when their process ended;
`abandoned` those that nobody is told of: left behind by a worker that died with a takeover
unfinished, by a rename that failed, or by a worker whose end was not heard.

A process is its number here: pids are not reused while files bear them. Where they are (a container
whose workers get the same pids at each start), a worker would find files of its own pid that it
was never told to load, and one told to load them would take its own new files again. When a
graceful restart comes to a worker that has died, the master throws (`server.js:182`); there the model
goes no further with that restart.

## 3. What the runs check

| run | instance | shows | time |
|---|---|---|---|
| `takeover` | one room, one user with two devices, one bot; 2 join timers, 1 deletion timer | in every order of joins, takeovers, leaves, updates, invitations and timers members can be heard, whoever hears is a member, clients see what the server holds; an occupied room stays, an empty one has its deletion pending | 1.5 min |
| `assistant` | two meetings, two bots, one guest, one break of the socket | one bot a meeting, which listens, changes its own invites and leaves when kicked | 1.5 min |
| `presence` | a user with three tabs and one with one; symmetry of tabs | presence and routing follow the latest announcement | 2 s |
| `mail_store` | two users, one with two tabs; a mail to a user and one to a refused address, two copies each | no list misses a mail its client was not told of | 40 s |
| `connection` | two lines ahead, one recipient, two plugin calls out; two plugins on `quit`, one on six hooks | replies and hooks stay in step, nothing is parked, recipients agree, disconnections end | 1.5 min |
| `sender_policy` | six zones of three domains, four sessions, two names per MX or PTR, a lookup limit of 3 | verdicts are earned, heard once, and come | 1 min |
| `admission` | three HELOs, two mails, two exchanges, three settings | senders pass and fall on answers; a mismatch of HELO and EHLO is noted only of a client that used both, or was refused | 7 s |
| `dns_lists` | two lists, one client, every setting | the client gets the lists' word, a list that works again is used again | 1 min |
| `smtp_client` | two mails, two recipients, six settings, pools of two and three | OK means taken, what the backend said is final, a mail given up is not sent while the connection is at none, replies are not mixed up | 2 min |
| `session` | three recipients, two hosts; every setting with orderly replies, SMTP with any line but 251 | verdicts are true, one, and come; nobody is served twice; forced TLS is kept | 20 s |
| `queue` | two recipients in one domain or two, with or without a sender; one slot, one retry, three files, one mishap (a mail taken unnoticed and a blocked attempt included) | implements `MailPromise`; nobody accepted is lost or forgotten, slots come back, but in the cases named below | 1.5 min |
| `cluster` | two workers of up to four processes, one file, one slot, two renames, two faults, one command | one keeper for the file, never forgotten, not served twice | 15 s |

**Bounds.** Each is a constant named in its module and appears in guards only. Two devices are enough
to supersede and be superseded; three tabs to have an older, a newer and a closed one; two join timers
to have a fresh and a stale one at once. One deletion timer per room is enough for a room that is
emptied and joined again with its timer pending. Two meetings are what the assistant mixes up; people
act there only when nothing is under way (`MaxWire`), while everything the assistant and the server do
then overlaps, and the proofs are for any number of messages. Two hosts show the move from one to the
next; three recipients every combination of taken, put off and refused. Two lines ahead are the line
being processed under a callback and the one it may overtake. Three files are a mail and both of its
splits, or two mails and a split; one mishap (crash, failed write or rename, delay by a plugin, mail
taken unnoticed, attempt blocked) at every point of every history. Four processes and two faults reach
the longest chain the listeners of exits make: a graceful restart, its new worker listens and then
fails, it is replaced by its own listener, and that replacement fails unheard; the other worker is the
one that must keep its hands off. One file is what each property speaks of; two are too many states
for TLC, and the proofs are for any number. Three HELOs are one, another that uses the other verb or
is refused, and the one compared. The zones of `MCSenderPolicy` have circles of includes and of
redirects, lookups below two includes, and records that are missing, doubled or wrong. The sockets'
ids are not reused, as in socket.io; a closed one stays closed, so a reconnecting client is a further
socket.

**Deadlock** is not checked: every instance has a finite number of sockets, rooms, mails, hosts or
lines that may all be used up, an attempt ends with its verdict and a connection with its end. What
must not stop is stated as liveness (`Decided`, `EventuallyResolved`, `DisconnectCompletes`,
`ChecksEnd`, `RecoveredZonesUsed`) or within an invariant (`InStep` of `Connection` has
`NeverParked`; `EmptyRoomDoomed` says that the timer is there that ends an empty room).

**Fairness.** Only what node or the code itself does is fair: a reply is waited for with a socket
timeout, so that a wait ends one way or the other (`HMailSession`); the queue's own steps go on, while
mishaps are never required, and an attempt ends in a verdict unless forced TLS blocked it, from where
nothing goes on (`OutboundQueue`); running callbacks go on, plugins answer or are timed out, resolver,
stream and queue call back (`Connection`), one weak fairness condition for all of it together, so that
no order among them is assumed; the resolver answers or times out (`SenderPolicy`, `DnsLists`) and the
interval of `check_zones` comes round. No client is obliged to do anything, no list to work. The other
modules claim no liveness. That an emptied room goes is an invariant, `EmptyRoomDoomed`: a listed room
that was visited and is empty has a deletion timer pending, and as node fires the timers that are set
and nothing clears this one, the room goes or is used again.

**Exceptions in properties.** Each is in the property's text, and the code does go wrong there; section 4
says how.

- `NobodyLost` and `EventuallyResolved` except a recipient who is let go unserved: one answered 251,
  who is in no list, or one LMTP counted as served in another's place.
- `PromiseKept` excepts a crash, an error while splitting, and the recipient for whom a server took
  the mail unnoticed: he may get it again, or be given up though he has it.
- `EventuallyResolved` excepts a mail that forced TLS left without a verdict, everybody when such
  mails have all the slots, and a history with a crash that has used up the files the bound allows.
- `SlotsExact` excepts an error while splitting a mail that has no sender, or whose bounce message
  could not be queued: `double_bounce` then ends it whatever else refers to it.
- `NoneForgotten` excepts the files of a worker whose end nobody heard (one that a graceful restart
  stopped, that exited with 0, or after a restart one that did not come with it), a takeover cut short
  and a rename that failed. `ServedOnce` excepts a flush by domain, and a process that ended while a
  mail was being answered.
- `AnswerFinal` says of a mail that was given up (timed out, or a garbled line) that it is not sent
  while the connection is at no mail; with a later one, `is_dead_sender` finds a transaction and lets
  it go on.
- `VerdictsTruthful` asks less of LMTP, and does not hold where a RCPT is answered 251, which the run
  leaves out.
- `OneBot`, `SeatedListens`, `InvitesOwn`, `ListenersAreMembers`, `DisconnectCompletes` and
  `HeardOnce` except what `again`, `shared`, `robbed`, `barred` and `flawed` mark. The hazards that
  these marks stand for are not caught; the properties show that nothing else breaks them.

`TakenOnce` excepts a connection lost after a server had taken the data,
which no client of SMTP can tell from a failure. `OneVerdict` asks for orderly replies: the reply to
RSET comes when the verdict is given, and a line that is no reply then gives another one. `Decided`
excepts forced TLS.

## 4. What the code does that its documents or a reader would not expect

None of these is a run of its own: the models follow the code, and the properties say around them
what does hold.

*Outbound dialogue.* With TLS forced, a pooled plain connection or a refused EHLO ends the attempt
without a verdict, and the mail and its slot are stuck (`hmail.js:470`; `docs/Outbound.md:160` says
"sent over TLS or defer"). LMTP replies after the data remove the first of `ok_recips`, not the
recipient answered: verdicts can be exchanged (`hmail.js:753`; `docs/Outbound.md:263`). A recipient
answered 251 is in no list; if all are, the mail is discarded with neither hook run (`hmail.js:898`;
`docs/Outbound.md:368`). A connection lost between two LMTP answers restarts the mail for the one
already served, and one lost after SMTP data was taken but not answered does so for all
(`hmail.js:413`).

*Queue.* When a bounce message cannot be made up or queued, `double_bounce` unlinks the file and gives
the slot back whatever `refcount` says (`hmail.js:1306`, `1320`). Flushing a domain makes a second
item for a file that may have one: the mail may go out twice, and an item whose file has gone keeps
its slot of the load or delivery queue for ever (`queue.js:250`, `queue.js:33`). One file that
vanishes while the queue is listed hangs the list (`queue.js:209`). A mail that is not due when its
file is loaded waits its delay twice, as `cur_time` is set once (`queue.js:143`). DISCARD of the
status plugin stops a timer and unlinks the file, and leaves an item that is being sent alone, where
`docs/plugins/status.md:23` says "stop delivering email file".

*Cluster.* A graceful restart never hands the files of the worker it replaces over to anyone
(`server.js:211`): they wait for the next start. It removes the listener for exits of every worker,
and only its own new ones get another (`173`, `215`): a replacement forked afterwards (`581`) is not
replaced when it fails, and its files wait too. A worker that exits with 0 is not replaced (`579`). If
the turn of a restart comes to a worker that is gone, the master throws (`182`); if a new worker never
listens, every later restart is ignored (`164`). A worker that dies with a takeover unfinished leaves
the rest of it unclaimed. A replacement deletes every temporary file of the directory, those that
other workers are writing included (`queue.js:281`): the client is told to try again.

*Forwarding.* A client that is released goes back to no pool: the mail's client never gets the field
`pool` that `release` asks for (`smtp_client.js:346`, `222`), so a slot comes back only when the
socket ends. For the same reason a line that is no reply does not end the dialogue: the hook has gone
on to the next plugin, while the socket stays open and the backend's next replies send the mail on
(`smtp_client.js:57`, `260`). What would stop it is `is_dead_sender`, which asks for any transaction
of the connection (`281`), a later mail's too. An error before a listener is there ends the process
(`smtp_client.js:173`).

*Filters.* The limit of lookups is counted per branch: an include passes its count down and never back
(`spf.js:354`). The loop that registers the checks of `helo.checks` runs over the indexes of their
list, so that the settings it looks up are those of "0", "1" and so on: none of the nine checks that
`config/helo.checks.ini` offers besides `proto_mismatch` ever runs (`helo.checks.js:34`).
`proto_mismatch` compares with the last EHLO that succeeded (`438`). Errors of the lookups of
exchanges count as no exchange, so that `reject_no_mx` refuses for good
(`mail_from.is_resolvable.js:111`; `docs/plugins/mail_from.is_resolvable.md:29` says "DNS errors
always return DENYSOFT"). A sender without an MX passes with bogus addresses (`203`), and late answers
act on the mail the connection is at by then (`145`, `166`). A list put back in use stays in
`disabled_zones` (`dns_list_base.js:180`).

*Meetings.* A room emptied, joined again and emptied again is deleted by the first timer, before the
delay logged for the second has passed (`room.service.ts:283`).

*Assistant.* With two meetings at once it leaves, and writes into, the one whose data came last
(`room.core.ts:141`, `223`, `240`). Data of a meeting it just left may reach the core of the next one.
What is said reaches every core, those that left included
(`index.ts:62`). Two invitations in a row seat two bots, and the second stays for good
(`index.ts:31`). Leaving by voice keeps the core in the table, and nobody joins again when the
socket breaks.

## 5. What is proved

All proofs are for any number of sockets, users, rooms, mails, recipients and retries, from the
named assumptions of the modules (types of the constants, null values distinct, `User` finite so
that members can be counted, the deliveries of a transaction disjoint) and nothing else. Each
invariant was first checked by TLC on the instances of section 3.

**RoomServiceProofs.** `TypeCorrect` is inductive by itself: each action's lemma shows that the
server's part (`ServerTypeOK`) is kept, and `NextViewsTyped` that what is then sent is typed.
`LifeInv` adds what `EmptyRoomDoomed`, `MediaFromSeat` and `StartTimeKept` need: ids are not used
twice (`KnownRooms`), a deleted room has no members, for deletion looks at the members when it
fires (`DeadRoomsEmpty`), and an occupied listed room that has not started has a fresh join timer
(`StartPending`). None of the three is inductive without them: `CreateRoom` could meet old members
under a new id, and an announcement could be missing. `LifeInvariant` gives `EmptyRoomsDoomed`,
`MediaFromSeatAlways` and `StartTimesKept`.
`ListenInv` adds that a seat belongs to a user of its socket (`SeatsOwned`); with `SingleUser` it
gives `MembersAlwaysListen` and `NobodyEavesdrops`, the takeover (`JoinListen`) being the hard case:
whoever leaves the socket.io room has just lost his only seat there. `OccupiedRoomsKept` is an
action property: from `ListenInv`, an empty room has no listeners either, unless it was `robbed`.
`ViewsAlwaysCurrent` needs `LifeInv` and that rooms with listeners were joined (`JoinedVisited`), or
a room created under an old id would have listeners who were never told of it; `Informed` then says
of each listener that what he was last sent is what the server holds.

**PresenceProofs**, of `SyncStates`. `PresenceInv` (types, announcements within `Owner`, latest
announcement known, views current, notices private) is inductive; `NeverGhosts` needs `SingleUser`,
for `find()` forgets one user of the closing socket.

**PresenceProofs**, of `Assistant`. The four properties relate what the meeting server holds to what
the assistant's socket, timers and cores still have to do, so that `AssistantInv` follows each bot on
its way. A bot is `Early` while its invitation, its look after three seconds or its join after one
more is ahead, and `Seating` once its request is under way or it has the seat. `Tokens`: it is at one
of these places at a time, and its core is new until it connects. `OneComing`: in a room that is not
in `again` only one bot is on its way or seated, and `OnlyOneBot` follows; a second invitation can
come only if `inviteAssistant` sees no member while a first is on its way, and that is what marks
`again`. The rest holds while the assistant is done with one meeting before it joins the next
(`~shared`). `Here`: all that is live, listens or is under way is of one room. `Departed`: for a core
that was destroyed, a last leave is under way with no join behind it (`Out`), or it has no seat and
asks for none; one that was destroyed before any data reached it had no seat to leave. `Together`:
what dismisses a core dismisses all that are live, since each hears the word, and they have their data
by then. `Known`: a seated bot that is live is the one of the table, so that a kick finds it, and a
kick is under way as long as a kicked bot is not destroyed. `Listening`: behind a join there is no
leave that would take the socket out of the room. `Owned`: lists of guests in data, cores, requests
and words are allowed in their room, but for an update of a bot that will be out by then, which the
server refuses. `SeatedAreListening`, `InvitesAreOwn` and `KickedAreGone` follow. The events are first
brought to a form that says what moves in which queue (`Step`, `NextDoes`); each part of the invariant
has a lemma over that. Two conditions of the model came from this proof: data of a meeting that was
left may still be under way when the assistant joins another one, which `shared` now marks, and a kick
finds the data that was sent before it already taken.

**SmtpProofs**, of `SmtpService`. `StoreInv` joins to `InboxCurrent` and `SentShown` what they rest on: an
address is known by a socket that joined with it (`JoinedOwn`, or the list fetched is another
address's), a mail answered "Sent" is stored (`SentStored`), and a known socket is open
(`ConnectedOpen`, or a fetch could be owed for ever by a closed one). `NeverForgotten` is the action
property that an address is dropped from `connected` only with its own socket.

**OutboundQueueProofs.** That nobody accepted is lost (`NobodyEverLost`) and that the queue
implements `MailPromise` (`QueueKeepsPromise`) rest on one invariant, `QueueInv`. Its words are whom
a mail is *open* for (whoever it may still be sent to or split off for) and whom it is *owed* to
(those, and the recipients of a bounce under way). Its parts:

- `MailsKept`: a mail in the hands of a queue, a timer, an attempt or a rename has its file, one
  reference, and nothing under way that discards it;
- `SplitsInv`: a split that is not ready has an old mail, which is in nobody's hands, and is the only
  one of its cause;
- `Referenced`: the references to a mail cover the calls that will discard it (the hook, a split for
  each cause, the bounce) as long as nobody was told and it was not dropped. This is what
  `finish_processing_mail` counts, and why the file of a mail is there when the last of its splits is
  ready;
- `Covered`: whoever has no fate yet, and was not let go unserved, is owed the mail by a file that is
  there;
- `Exclusive`, without a crash: one mail only is open for a recipient, who has not got it, or a server
  took it for him unnoticed. `Undecided`, without an error while splitting too: nobody is owed what he
  was given up for;
- `Writing` and `Unwritten`: until the answer there are the transaction's own files and no others.

Most actions change one mail: `LocalStep` shows once that such a change keeps the invariant if it is
`Fine` (owed to nobody new, nobody let go without a fate) and its references suffice, and one lemma
per action shows that it is. `ProcessDelivery`, `RefuseDelivery`, `Restart`, `SplitWritten` and
`SplitReady` have lemmas of their own. For the refinement the same facts say which step of
`MailPromise` each action is: an attempt that served somebody is `Serve`, and so is a mail that was
taken unnoticed; every other change of one mail is a `GiveUp` (of nobody, mostly), the answers
`Answer`, a restart `Crash`, writing a split a stutter.

**Slots** (the last part of `OutboundQueueProofs`). `SlotsExact` needs `SlotInv` on top of `QueueInv`:
a slot is held only by a mail that is worked on or blocked (`SlotPlaced`), and a mail whose slot is
freed, while it still has references, has no call left that could free it again (`SlotDone`, `Twice`),
nor a split that will (`Unsplit`). `double_bounce` ends a mail whatever refers to it. That does no
harm as long as no split failed: then the bounce is the one call left for its mail (`Alone`), and a
mail without a sender is ended when nothing else is under way. The exception (`Clean`) is the code's
own: after an error while splitting, a mail that has no sender, or whose bounce message fails, is
ended at once and by its splits later.

**QueueClusterProofs.** All three properties of the shared directory follow from `ClusterInv`.
`Living` and `Owned` say what the number in a file's name is worth: memory belongs to processes that
are there, and a file in it bears its process's number, or is gone; a file to be taken over bears the
number of the process that is over. That a name is enough and no lock is needed rests on `OrdersOver`,
`OrderedOnce` and `TakenOnce`: orders are about processes that are over, and each such process is
taken over once. `OneHolder` is `OneKeeper` for what is in memory, files that are gone and listings of
a flush included, without which a file that comes back could not be excluded. `AllKept` is
`NoneForgotten`, where `abandoned` takes all that is lost when a worker ends unheard; `Singles` says
that a mail that is not `doubtful` has one item, which knows its name (`Known`) and is the reason why
it counts as served (`Reason`), so that it cannot be served again. The proof has a lemma for each
action and each of the three: the ends of processes that are heard and those that are not have lemmas
of their own. It needs the assumption that the old numbers are none of the new ones (`ProcsTyped`).

**FilterProofs**, of `Admission`. The lookups of a mail are one alone, or those of its exchanges, and
none is left once it passed or was refused for good (`Mailed`): `SendersResolve` follows. HELOs come
one after the other (`Sequence`), `esmtp` is set exactly if an EHLO passed (`Ehlos`), and there is a
result only after a HELO (`Started`). A mismatch is one with an earlier HELO whose answer no longer
changes (`Mismatches`), and `MismatchesReal` follows. Answers after a timeout are the case that needs
care.

**FilterProofs**, of `DnsLists`. `Heard` relates what a client's hook said to the lookups that are out
and the listings it had, by the setting of `search`; tests of the lists and their moves between the
two tables (`TestsStep`) leave it alone, whenever they come. The two modules share a proof module, and
have no name in common, for each is about hooks of one connection that wait for the DNS.

**ConnectionProofs.** `GoesInStep` and `AgreesOnRecipients` say that `InStep` and `RecipientsAgreed`
hold for any number of plugins on each hook with any answers, any lines sent ahead and any number of
recipients. They rest on one invariant, `Inv`, about who has the turn:

- `OneTurn`: it is the first call of the agenda, or the one plugin that is out, or the one callback
  that is awaited (the resolver, the message stream, the queue), or the client, and nobody else has
  it. Whose turn it is says what `state`, `prev_state`, the transaction and `owed` are: `Stage` for a
  hook that runs, `Replying` for a reply with what its closure will do, `Setting` for an assignment
  of a closure, `Resetting`, `Listening` for the client, `Resuming` when a resume on the agenda will
  give it the turn;
- `Shape`: an agenda holds at most one call that goes on (or an assignment and the call that follows
  it) and below it only what is left over from calls that have returned: to look at the buffer, to
  resume, to note ESMTP (`Filled`). This is what makes a deep call stack as good as an empty one: a
  method that runs under many others leaves them nothing to do but that;
- `Looping` and `Ending`: a connection in LOOP has no transaction and waits for nothing but hooks of
  a QUIT; nothing on the agenda of one that ends takes it back;
- `Driven`: lines received will be looked at, by a call of the agenda or by setImmediate.

There is a lemma for each method (`RespondKeeps`, `ResetTransactionKeeps`, ...) and each event, over
lemmas on how an agenda grows and shrinks (`Pushed`, `Popped`, `Top`) and what a call that goes on
has to bring (`GoesOn`, `ComesToRest`, `RestsOn`). The proof follows a connection until `derailed`
or `crashed`, as the properties do. Looking for `Inv` found one more way in which the resume of
`connection.js:672` goes wrong: left over from a reset, it may end the pause of `data_done` while a
plugin of `max_data_exceeded` is out, and the client is listened to before it has its reply. `Stale`
now marks that too.

**VerdictProofs**, of `HMailSession`. `IInv` says where a dialogue can be: what the command that was
sent last awaits (`Awaiting`), that nothing is under way after a verdict but the answer to RSET or
QUIT (`Quiet`), and where each recipient stands, by command (`Dialogue`, `Pending`, `Unspent`,
`Lists`). `ForcedTls` and `OneVerdictOnly` follow for all settings. `NobodyTwice` and
`SortedTruthfully` have a hypothesis about what a server may say, since without it the code does
otherwise: an LMTP server that answers one recipient's data with 3xx, or with a line that is no reply,
makes hmail.js put off everybody, those it has delivered to included; and a recipient who was answered
251 is named in no list. The settings that the `session` run checks have neither.

**VerdictProofs**, of `SenderPolicy`. `PolicyInv` has two halves. `Evaluation` says of every call that is
due, and of every result heard, that `hits` accounts for it (`Earned`): a mechanism of the check has
matched, of the sender's own record if it is a Fail that leads to one. For that a call must know its
way back: a frame serves one check, and what is redirected is included exactly if the record that
redirects is (`Linked`). `VerdictEarned` follows, also where the code is `flawed`. `Single` says that
the evaluation of a check is at one place, in the call that is due, in one lookup or in the lookups of
one group, and that nothing was heard while it goes on; a group's `pending` is the number of its names
without an answer (`GroupsCounted`), which is why exactly one of them is the last. `HeardOnce` follows,
until `flawed`, for any zones, sessions, limits and numbers of names.

**SmtpProofs**, of `SmtpClient`. `Inv` relates a client to the backend and to the hook of its mail.
`Kind` is what every listener keeps: a mail's client is not the pool's to destroy (`pool` is FALSE, so
that `destroy` does nothing), and at most the command it remembers is unanswered. While its mail is
the connection's transaction the client is `Going`: for each command, the recipients it has sent
(`Phase`), the sender and recipients the backend holds, and which recipients have been taken
(`Delivered`, `Base`); once the hook has the backend's verdict it is `Idle`, with at most an RSET under
way, so that the backend can take nothing more. After a garbled line or a timeout it is not `Idle`: the
socket of a mail's own client stays open and its command unanswered, and the dialogue goes on where it
was if a later mail has a transaction by then. `AnswerFinal` therefore has two parts, the second about
the step that sends a message (`SendsIt`): only the listeners send one, and they ask `is_dead_sender`
first. While the connection is at no mail, a client answers nothing and sends no message (`DeadReply`).
`OkMeansTaken`, `InStep` and `AnswerFinal`
follow, and that the pool keeps its maximum, for any number of mails, recipients and clients. The
listeners are proved one by one, as operators on records (`GoingHelo`, `GoingAuth`, `HeardMail`, ...),
and the events from them. All of it has the hypothesis `Separate`: XCLIENT and AUTH are not both to be
done. With both, `onCapabilitiesOutbound` sends XCLIENT and `auth()` of `smtp_forward`, which listens
to the same event, sends AUTH at once; TLC then finds replies taken for those to another command,
and OK for a mail that was not taken. The configurations of `smtp_client` keep to the hypothesis.


**Only model-checked**: the liveness properties `EventuallyResolved`, `DisconnectCompletes`, `Decided`,
`ChecksEnd` and `RecoveredZonesUsed`, which rest on fairness and are out of the prover's reach. Every
invariant and every action property of a run is stated by a theorem. No module uses RECURSIVE operators.

## 6. Not modelled

Each part is listed in `PROJECT.json` with its reason. In short:

- the peer server of webrtc (a library started with its options) and the assistant's recognition
  and answers: `Assistant` takes what was understood as any word at any time;
- the pool of outbound sockets (`client_pool.js`): `HMailSession` takes a pooled connection in any
  state the pool can give, but how long it stays there is not followed;
- the host pool: `failed()` is reached only from a listener of clients that are destroyed already, so
  that it chooses among hosts as if all were up;
- MX lookup and outbound TLS, sockets and TLS, DKIM: cryptography and the DNS, whose outcome is an
  input of the models;
- the authentication plugins, and AUTH and STARTTLS in `Connection`; plugins that only score or
  rewrite a message: `Connection` takes any answer of a plugin at any time;
- greylisting: it awaits calls that the redis client this repository depends on does not return
  promises for, so that what its source says and what it does differ in every step;
- other queue plugins, listings and statistics, configuration, address syntax, the web pages.

## 7. Plan

What is left, the most important behaviour first.

1. **HMailSession implements an attempt**: the step `Attempted` of `OutboundQueue` as an abstract
   specification of one delivery attempt, with the orderly replies as its assumption.
2. **Connection**: AUTH, STARTTLS, the PROXY prelude and the limits on lines and data.
3. **Pools**: `client_pool.js` together with the paths of `hmail.js` that release a socket or do not.
4. **Pure algorithms** as functions checked against a reference: names of queue files, sorting of MX
   records, the macros of SPF.
