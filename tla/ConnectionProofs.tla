--------------------------- MODULE ConnectionProofs ---------------------------
(***************************************************************************)
(* That a connection and its client go in step (InStep) and agree on the   *)
(* recipients (RecipientsAgreed), for any plugins with any answers, any    *)
(* commands sent ahead and any number of recipients.                       *)
(*                                                                         *)
(* The argument: somebody always has the turn, and nobody else has. It is  *)
(* the client, or the first call of the agenda, or a plugin whose call is  *)
(* out, or the resolver, the message stream or the queue. OneTurn says so, *)
(* and what state, prev_state, the transaction and owed are by whose turn  *)
(* it is (Stage and its likes). Shape says that an agenda holds one call   *)
(* that goes on and, after it, only what is left to do when it has: to look*)
(* at the buffer, to resume. Looping and Ending say that a connection that *)
(* loops or ends does so for good, and Driven that lines received are not  *)
(* forgotten.                                                              *)
(***************************************************************************)
EXTENDS Connection, SequenceTheorems, TLAPS

(* agenda is a sequence, of whatever. *)
Listed(s) == s \in Seq({s[i] : i \in DOMAIN s})

(* What is left to do when the first call has returned. *)
Filler(x) == x.op \in {"_process_data", "resume"} \/ (x.op = "set" /\ x.hook = "esmtp")
Filled(s) == \A i \in 1..Len(s) : Filler(s[i])

(* The closures that are passed on. *)
Starts == {<<Set("HELO"), RunHooks("helo", <<>>)>>, <<Set("EHLO"), RunHooks("ehlo", <<>>)>>,
           <<Set("transaction"), RunHooks("mail", <<>>)>>}
Endings  == {<<>>, <<Resume>>}
ResetCbs == Endings \cup Starts \cup {<<RunHooks("disconnect", <<>>)>>}

Partings  == {<<Disconnect>>, <<Fail>>}
Rejected  == <<Set("msg_status"), ResetTransaction(<<Resume>>)>>
Replies   == {<<>>, <<Set("no hello")>>, <<Set("pop")>>, <<Set("accept")>>, <<Set("data")>>,
              Abandon, Close, Rejected}

Hooked(hook, cb) ==
  /\ hook \in Hooks \cup {None}
  /\ IF hook = "reset_transaction" THEN cb \in ResetCbs ELSE cb = <<>>
HookOps == {"run_hooks", "run_next_hook", "callback", "hook_respond"}
Told(x) == x.op \in {"callback", "hook_respond"} => x.retval \in Retvals \/ x.hook = None

(* A call that goes on alone. *)
Single(x) ==
  \/ x.op \in HookOps /\ Hooked(x.hook, x.cb) /\ Told(x)
  \/ x.op = "respond" /\ x.cb \in Partings \cup Replies
  \/ x.op = "reset_transaction" /\ x.cb \in ResetCbs
  \/ x.op = "set" /\ x.hook \in {"no hello", "pop", "accept", "data"}
  \/ x.op \in {"process_line", "data_done", "loop_respond", "disconnect", "fail"}

(* An assignment and the call that comes after it. *)
Follows(what, y) ==
  \/ what = "HELO" /\ y = RunHooks("helo", <<>>)
  \/ what = "EHLO" /\ y = RunHooks("ehlo", <<>>)
  \/ what = "transaction" /\ y = RunHooks("mail", <<>>)
  \/ what = "rcpt" /\ y = RunHooks("rcpt", <<>>)
  \/ what = "msg_status" /\ y = ResetTransaction(<<Resume>>)

ShapeOf(s) ==
  \/ Filled(s)
  \/ s # <<>> /\ Single(Head(s)) /\ Filled(Tail(s))
  \/ /\ s # <<>> /\ Head(s).op = "set"
     /\ Tail(s) # <<>> /\ Follows(Head(s).hook, Head(Tail(s))) /\ Filled(Tail(Tail(s)))

Shape == ShapeOf(agenda)

(* Nothing goes on: what the agenda holds is left over. *)
Resting == agenda = <<>> \/ Filler(Head(agenda))
-----------------------------------------------------------------------------
(* What each stage of a command says of the rest. *)
Paused    == state \in {"PAUSE", "PAUSE_SMTP", "PAUSE_DATA"}
Before(S) == prev_state \in S
Suspended ==
  \/ state = "PAUSE_SMTP" /\ Before({None, "PAUSE_SMTP"})
  \/ state = "PAUSE_DATA" /\ prev_state = "PAUSE_SMTP"
Received  == state = "PAUSE_DATA" /\ prev_state = "DATA"
Unpaused(s) == state = s /\ Before({None, "PAUSE_SMTP"})

Mailing(n) == transaction.open /\ transaction.rcpt_to = transaction.accept + n
Kept       == ~transaction.resetting
Agreed     == Kept /\ (transaction.open => transaction.rcpt_to = transaction.accept)
Granted    == Kept /\ Mailing(0) /\ transaction.accept > 0

(* A plugin's hook runs. When deny was denied it ends in a loop: nobody has *)
(* the turn any more.                                                       *)
Stage(hook, cb) ==
  \/ /\ hook = "deny" /\ Paused /\ owed \in {0, 1}
     /\ Before({None, "CMD", "PAUSE_SMTP", "DATA"}) /\ (prev_state = "CMD" => transaction.resetting)
  \/ /\ hook \in {"connect_init", "lookup_rdns", "connect"}
     /\ owed = 1 /\ state = "PAUSE" /\ prev_state = None /\ ~transaction.open /\ Kept
  \/ /\ hook \in {"helo", "ehlo", "capabilities", "quit", "rset", "unrecognized_command"}
     /\ owed = 1 /\ Suspended /\ Agreed
  \/ hook = "mail" /\ owed = 1 /\ Suspended /\ Kept /\ Mailing(0)
  \/ hook \in {"rcpt", "rcpt_ok"} /\ owed = 1 /\ Suspended /\ Kept /\ Mailing(1)
  \/ hook = "data" /\ owed = 1 /\ Suspended /\ Granted
  \/ /\ hook \in {"data_post", "max_data_exceeded", "queue", "queue_outbound", "queue_ok"}
     /\ owed = 1 /\ Received /\ Kept /\ Mailing(0)
  \/ /\ hook = "reset_transaction" /\ state = "PAUSE_DATA"
     /\ transaction.open /\ transaction.resetting
     /\ \/ cb \in Endings /\ owed = 0 /\ prev_state = "CMD"
        \/ cb \in Starts /\ owed = 1 /\ prev_state = "PAUSE_SMTP"

(* The deny hook runs for the one that was denied. *)
Turned(hook, cb) ==
  IF hook = "deny" THEN Stage(deny_respond.hook, deny_respond.cb) ELSE Stage(hook, cb)

(* A reply is due, and then what follows from it. *)
Replying(cb) ==
  /\ owed = 1 /\ Paused /\ Kept
  /\ \/ cb \in {<<>>, <<Set("no hello")>>} /\ Before({None, "PAUSE_SMTP"}) /\ Agreed
     \/ cb \in {<<Set("pop")>>, <<Set("accept")>>} /\ Before({None, "PAUSE_SMTP"}) /\ Mailing(1)
     \/ cb = <<Set("data")>> /\ Before({None, "PAUSE_SMTP"}) /\ Granted
     \/ /\ cb \in {Abandon, Close, Rejected}
        /\ Before({None, "PAUSE_SMTP", "DATA"}) /\ (prev_state = "DATA" => transaction.open)

Dropping ==
  /\ owed = 0 /\ state = "CMD" /\ Kept
  /\ Before({None, "PAUSE_SMTP", "DATA"}) /\ (prev_state = "DATA" => transaction.open)

Resetting(cb) ==
  \/ cb \in Endings /\ Dropping
  \/ cb \in Starts /\ owed = 1 /\ Unpaused("PAUSE_SMTP") /\ Kept

Setting(what) ==
  \/ what \in {"HELO", "EHLO"} /\ owed = 1 /\ Suspended /\ Agreed
  \/ what = "transaction" /\ owed = 1 /\ Suspended /\ Kept
  \/ what = "rcpt" /\ owed = 1 /\ Suspended /\ Kept /\ Mailing(0)
  \/ what = "no hello" /\ owed = 0 /\ Unpaused("CMD") /\ Agreed
  \/ what \in {"pop", "accept"} /\ owed = 0 /\ Unpaused("CMD") /\ Kept /\ Mailing(1)
  \/ what = "data" /\ owed = 0 /\ Unpaused("CMD") /\ Granted
  \/ what = "msg_status" /\ Dropping

(* It is the client's turn. *)
Listening == owed = 0 /\ ((Unpaused("CMD") /\ Agreed) \/ (Unpaused("DATA") /\ Granted))

(* It will be when the connection resumes. *)
Resuming ==
  /\ owed = 0 /\ state = "PAUSE_DATA" /\ prev_state = "CMD" /\ Agreed
  /\ \E i \in 1..Len(agenda) : agenda[i].op = "resume"

Going(x) ==
  \/ x.op \in HookOps /\ Turned(x.hook, x.cb)
  \/ x.op = "respond" /\ Replying(x.cb)
  \/ x.op = "reset_transaction" /\ Resetting(x.cb)
  \/ x.op = "set" /\ Setting(x.hook)
  \/ x.op = "process_line" /\ Listening
  \/ x.op = "data_done" /\ owed = 1 /\ state = "DATA" /\ Granted
  \/ x.op = "loop_respond" /\ owed = 1 /\ state = "PAUSE" /\ ~transaction.open

Parting(x) ==
  \/ x.op \in {"disconnect", "fail"}
  \/ x.op = "respond" /\ x.cb \in Partings

Out(i) == calls[i].at = "out"
Waits  == awaiting \ {"immediate"}
NoneOut == \A i \in 1..MaxCalls : ~Out(i)

Waiting(what) ==
  \/ what = "dns" /\ Stage("connect", <<>>)
  \/ what = "end_data" /\ Stage("data_post", <<>>)
  \/ what = "send_email" /\ Stage("queue_ok", <<>>)

Followed == ~(Stopped \/ state = "LOOP" \/ derailed \/ crashed)

OneTurn ==
  \/ ~Resting /\ Parting(Head(agenda))
  \/ ~Resting /\ NoneOut /\ Waits = {} /\ Going(Head(agenda))
  \/ Resting /\ NoneOut /\ Waits = {} /\ (Listening \/ Resuming)
  \/ /\ Resting /\ Waits = {}
     /\ \E i \in 1..MaxCalls : /\ Out(i) /\ Turned(calls[i].hook, calls[i].cb)
                               /\ \A j \in 1..MaxCalls : Out(j) => j = i
  \/ Resting /\ NoneOut /\ \E what \in Waits : Waits = {what} /\ Waiting(what)
-----------------------------------------------------------------------------
(* A client that is told off in a loop may only leave. *)
Leaving(hook) == hook = "quit" \/ (hook = "deny" /\ deny_respond.hook \in {"quit", "deny"})

LoopsOn(x) ==
  \/ Parting(x)
  \/ x.op \in HookOps /\ Leaving(x.hook)
  \/ x.op = "respond" /\ x.cb = <<>>
  \/ x.op = "process_line"

Looping ==
  /\ ~transaction.open /\ Waits = {}
  /\ \A i \in 1..MaxCalls : Out(i) => Leaving(calls[i].hook)
  /\ Resting \/ LoopsOn(Head(agenda))

(* Nothing brings a connection back that ends. *)
EndsOn(x) ==
  \/ x.op \in {"run_hooks", "run_next_hook", "callback", "reset_transaction", "disconnect", "fail"}
  \/ x.op = "hook_respond" /\ Required(x.hook)
  \/ x.op = "respond" /\ x.cb # <<Set("data")>>
  \/ x.op = "set" /\ x.hook # "data"

Ending == Resting \/ EndsOn(Head(agenda))

(* The lines received will be looked at. *)
DrivenBy(s) == \E i \in 1..Len(s) : s[i].op \in {"_process_data", "respond"}
Driven == input # <<>> => "immediate" \in awaiting \/ DrivenBy(agenda)

CallsTyped ==
  /\ calls \in [1..MaxCalls -> [at : {"free", "out", "timed out", "cancelled"},
                                hook : Hooks \cup {None}, cb : ResetCbs]]
  /\ \A i \in 1..MaxCalls : Hooked(calls[i].hook, calls[i].cb)
  /\ deny_respond.op = "hook_respond" /\ Hooked(deny_respond.hook, deny_respond.cb)
  /\ Told(deny_respond)

Typed ==
  /\ Listed(agenda)
  /\ transaction \in [open : BOOLEAN, rcpt_to : Int, accept : Nat, resetting : BOOLEAN]
  /\ CallsTyped
  /\ owed \in Int /\ input \in Seq(Line)
  /\ crashed => agenda = <<>>

Inv ==
  /\ Typed
  /\ Shape
  /\ Followed => OneTurn
  /\ state = "LOOP" /\ ~derailed /\ ~crashed => Looping
  /\ Stopped /\ ~derailed /\ ~crashed => Ending
  /\ state \in {"CMD", "LOOP", "DATA"} /\ ~derailed /\ ~crashed => Driven
-----------------------------------------------------------------------------
(* An agenda, call by call. *)
Push(x, s) == <<x>> \o s

LEMMA AnyListed == ASSUME NEW S, NEW s \in Seq(S) PROVE Listed(s)
<1> DEFINE T == {s[i] : i \in DOMAIN s}
<1>1. s \in [1..Len(s) -> S] /\ Len(s) \in Nat /\ DOMAIN s = 1..Len(s)
  BY LenProperties
<1>2. s \in [1..Len(s) -> T]
  BY <1>1
<1>3. s \in Seq(T)
  BY <1>1, <1>2, SeqDef
<1> QED
  BY <1>3 DEF Listed

LEMMA EmptyListed == Listed(<<>>) /\ Filled(<<>>)
<1>1. <<>> \in Seq({}) /\ Len(<<>>) = 0
  BY EmptySeq
<1>2. Listed(<<>>)
  BY <1>1, AnyListed
<1>3. 1..Len(<<>>) = {}
  BY <1>1
<1> QED
  BY <1>2, <1>3 DEF Filled

LEMMA Pushed ==
  ASSUME NEW x, NEW s, Listed(s)
  PROVE  /\ Listed(Push(x, s)) /\ Push(x, s) # <<>>
         /\ Head(Push(x, s)) = x /\ Tail(Push(x, s)) = s
         /\ Len(Push(x, s)) = Len(s) + 1 /\ Len(s) \in Nat
         /\ Push(x, s)[1] = x
         /\ \A i \in 1..Len(s) : Push(x, s)[i + 1] = s[i]
<1> DEFINE S == {s[i] : i \in DOMAIN s} \cup {x}
<1> DEFINE p == Push(x, s)
<1>1. s \in Seq(S)
  BY SeqMonotonic DEF Listed
<1>2. <<x>> \in Seq(S) /\ Len(<<x>>) = 1 /\ <<x>>[1] = x
  OBVIOUS
<1>3. Len(s) \in Nat
  BY <1>1, LenProperties
<1>4. p \in Seq(S) /\ Len(p) = Len(s) + 1
  BY <1>1, <1>2, ConcatProperties DEF Push
<1>5. \A i \in 1..(1 + Len(s)) : p[i] = IF i <= 1 THEN <<x>>[i] ELSE s[i - 1]
  BY <1>1, <1>2, ConcatProperties DEF Push
<1>6. p # <<>>
  BY <1>3, <1>4, EmptySeq
<1>7. p[1] = x
  BY <1>2, <1>3, <1>5
<1>8. \A i \in 1..Len(s) : p[i + 1] = s[i]
  BY <1>3, <1>5
<1> HIDE DEF p
<1>9. Head(p) = x
  BY <1>7
<1>10. Tail(p) \in Seq(S) /\ Len(Tail(p)) = Len(s) /\ \A i \in 1..Len(s) : Tail(p)[i] = p[i + 1]
  BY <1>3, <1>4, <1>6, HeadTailProperties
<1>11. Tail(p) = s
  BY <1>1, <1>8, <1>10, SeqEqual
<1>12. Listed(p)
  BY <1>4, AnyListed
<1> QED
  BY <1>3, <1>4, <1>6, <1>7, <1>8, <1>9, <1>11, <1>12 DEF p

LEMMA Popped ==
  ASSUME NEW s, Listed(s), s # <<>>
  PROVE  /\ Listed(Tail(s)) /\ s = Push(Head(s), Tail(s))
<1> DEFINE S == {s[i] : i \in DOMAIN s}
<1>1. s \in Seq(S)
  BY DEF Listed
<1>2. Tail(s) \in Seq(S) /\ Len(Tail(s)) = Len(s) - 1 /\ \A i \in 1..Len(Tail(s)) : Tail(s)[i] = s[i + 1]
  BY <1>1, HeadTailProperties
<1>3. Listed(Tail(s))
  BY <1>2, AnyListed
<1>4. Len(s) \in Nat \ {0}
  BY <1>1, EmptySeq
<1>5. Head(s) \in S
  BY <1>1, HeadTailProperties
<1>6. <<Head(s)>> \in Seq(S) /\ Len(<<Head(s)>>) = 1
  BY <1>5
<1>7. Push(Head(s), Tail(s)) \in Seq(S)
  BY <1>2, <1>6, ConcatProperties DEF Push
<1>8. /\ Len(Push(Head(s), Tail(s))) = Len(Tail(s)) + 1
      /\ Push(Head(s), Tail(s))[1] = Head(s)
      /\ \A i \in 1..Len(Tail(s)) : Push(Head(s), Tail(s))[i + 1] = Tail(s)[i]
  <2> DEFINE x == Head(s)  t == Tail(s)
  <2>1. Listed(t)
    BY <1>3
  <2> HIDE DEF x, t
  <2>2. /\ Len(Push(x, t)) = Len(t) + 1
        /\ Push(x, t)[1] = x
        /\ \A i \in 1..Len(t) : Push(x, t)[i + 1] = t[i]
    BY <2>1, Pushed
  <2> QED
    BY <2>2 DEF x, t
<1>9. Len(Push(Head(s), Tail(s))) = Len(s)
  BY <1>2, <1>4, <1>8
<1>10. ASSUME NEW i \in 1..Len(s) PROVE s[i] = Push(Head(s), Tail(s))[i]
  <2>1. CASE i = 1
    BY <1>8, <2>1
  <2>2. CASE i # 1
    <3>1. i - 1 \in 1..Len(Tail(s)) /\ (i - 1) + 1 = i
      BY <1>2, <1>4, <2>2
    <3> QED
      BY <1>2, <1>8, <3>1
  <2> QED
    BY <2>1, <2>2
<1>11. s = Push(Head(s), Tail(s))
  BY <1>1, <1>7, <1>9, <1>10, SeqEqual
<1> QED
  BY <1>3, <1>11

LEMMA Joined == ASSUME NEW x, NEW y PROVE <<x>> \o <<y>> = <<x, y>>
<1> DEFINE U == {x, y}
<1>1. <<x>> \in Seq(U) /\ <<y>> \in Seq(U) /\ <<x, y>> \in Seq(U) /\ Len(<<x>>) = 1 /\ Len(<<y>>) = 1
      /\ Len(<<x, y>>) = 2
  OBVIOUS
<1>2. /\ <<x>> \o <<y>> \in Seq(U)
      /\ Len(<<x>> \o <<y>>) = 2
      /\ \A i \in 1..2 : (<<x>> \o <<y>>)[i] = IF i <= 1 THEN <<x>>[i] ELSE <<y>>[i - 1]
  BY <1>1, ConcatProperties
<1>3. (<<x>> \o <<y>>)[1] = x /\ (<<x>> \o <<y>>)[2] = y
  BY <1>2
<1>4. \A i \in 1..2 : (<<x>> \o <<y>>)[i] = <<x, y>>[i]
  BY <1>3
<1> QED
  BY <1>1, <1>2, <1>4, SeqEqual

(* What a closure of one or two calls puts on an agenda. *)
LEMMA PutsTwo ==
  ASSUME NEW s, Listed(s), NEW x, NEW y
  PROVE  <<x, y>> \o s = Push(x, Push(y, s))
<1> DEFINE U == {s[i] : i \in DOMAIN s} \cup {x, y}
<1>1. s \in Seq(U) /\ <<x>> \in Seq(U) /\ <<y>> \in Seq(U)
  BY SeqMonotonic DEF Listed
<1>2. (<<x>> \o <<y>>) \o s = <<x>> \o (<<y>> \o s)
  BY <1>1, ConcatAssociative
<1>3. <<x>> \o <<y>> = <<x, y>>
  BY Joined
<1> QED
  BY <1>2, <1>3 DEF Push

LEMMA Puts ==
  ASSUME NEW s, Listed(s)
  PROVE  /\ <<>> \o s = s
         /\ \A x : <<x>> \o s = Push(x, s)
<1>1. s \in Seq({s[i] : i \in DOMAIN s})
  BY DEF Listed
<1> QED
  BY <1>1, ConcatEmptySeq DEF Push

(* A closure that one more call is put behind. *)
Behind(cb, p, s) == Append(cb, p) \o s
On(cb, s) == cb \o s

LEMMA AppendedOn ==
  ASSUME NEW cb, Listed(cb), NEW p, NEW s, Listed(s)
  PROVE  Behind(cb, p, s) = On(cb, Push(p, s))
<1> DEFINE U == {cb[i] : i \in DOMAIN cb} \cup {s[i] : i \in DOMAIN s} \cup {p}
<1>1. cb \in Seq(U) /\ s \in Seq(U) /\ <<p>> \in Seq(U) /\ p \in U
  BY SeqMonotonic DEF Listed
<1>2. Append(cb, p) = cb \o <<p>>
  BY <1>1, AppendIsConcat
<1>3. (cb \o <<p>>) \o s = cb \o (<<p>> \o s)
  BY <1>1, ConcatAssociative
<1> QED
  BY <1>2, <1>3 DEF Push, Behind, On

LEMMA ShortListed ==
  ASSUME NEW cb, cb = <<>> \/ (\E y : cb = <<y>>) \/ (\E y, z : cb = <<y, z>>)
  PROVE  Listed(cb)
<1>1. CASE cb = <<>>
  BY <1>1, EmptyListed
<1>2. ASSUME NEW y, cb = <<y>> PROVE Listed(cb)
  <2>1. <<y>> \in Seq({y})
    OBVIOUS
  <2> QED
    BY <1>2, <2>1, AnyListed
<1>3. ASSUME NEW y, NEW z, cb = <<y, z>> PROVE Listed(cb)
  <2>1. <<y, z>> \in Seq({y, z})
    OBVIOUS
  <2> QED
    BY <1>3, <2>1, AnyListed
<1> QED
  BY <1>1, <1>2, <1>3

LEMMA FilledPush ==
  ASSUME NEW x, NEW s, Listed(s)
  PROVE  Filled(Push(x, s)) <=> Filler(x) /\ Filled(s)
<1>1. /\ Len(Push(x, s)) = Len(s) + 1 /\ Len(s) \in Nat
      /\ Push(x, s)[1] = x
      /\ \A i \in 1..Len(s) : Push(x, s)[i + 1] = s[i]
  BY Pushed
<1>2. ASSUME Filled(Push(x, s)) PROVE Filler(x) /\ Filled(s)
  <2>1. Filler(x)
    BY <1>1, <1>2 DEF Filled
  <2>2. ASSUME NEW i \in 1..Len(s) PROVE Filler(s[i])
    <3>1. i + 1 \in 1..Len(Push(x, s))
      BY <1>1
    <3> QED
      BY <1>1, <1>2, <3>1 DEF Filled
  <2> QED
    BY <2>1, <2>2 DEF Filled
<1>3. ASSUME Filler(x), Filled(s) PROVE Filled(Push(x, s))
  <2>1. ASSUME NEW i \in 1..Len(Push(x, s)) PROVE Filler(Push(x, s)[i])
    <3>1. CASE i = 1
      BY <1>1, <1>3, <3>1
    <3>2. CASE i # 1
      <4>1. i - 1 \in 1..Len(s) /\ (i - 1) + 1 = i
        BY <1>1, <3>2
      <4> QED
        BY <1>1, <1>3, <4>1 DEF Filled
    <3> QED
      BY <3>1, <3>2
  <2> QED
    BY <2>1 DEF Filled
<1> QED
  BY <1>2, <1>3

(* Some call of an agenda is of a kind. *)
HasOp(s, ops) == \E i \in 1..Len(s) : s[i].op \in ops

LEMMA HasPush ==
  ASSUME NEW x, NEW s, Listed(s), NEW ops
  PROVE  HasOp(Push(x, s), ops) <=> x.op \in ops \/ HasOp(s, ops)
<1>1. /\ Len(Push(x, s)) = Len(s) + 1 /\ Len(s) \in Nat
      /\ Push(x, s)[1] = x
      /\ \A i \in 1..Len(s) : Push(x, s)[i + 1] = s[i]
  BY Pushed
<1>2. ASSUME NEW i \in 1..Len(Push(x, s)), Push(x, s)[i].op \in ops
      PROVE  x.op \in ops \/ HasOp(s, ops)
  <2>1. CASE i = 1
    BY <1>1, <1>2, <2>1
  <2>2. CASE i # 1
    <3>1. i - 1 \in 1..Len(s) /\ (i - 1) + 1 = i
      BY <1>1, <2>2
    <3> QED
      BY <1>1, <1>2, <3>1 DEF HasOp
  <2> QED
    BY <2>1, <2>2
<1>3. ASSUME x.op \in ops PROVE HasOp(Push(x, s), ops)
  BY <1>1, <1>3 DEF HasOp
<1>4. ASSUME NEW i \in 1..Len(s), s[i].op \in ops PROVE HasOp(Push(x, s), ops)
  <2>1. i + 1 \in 1..Len(Push(x, s)) /\ Push(x, s)[i + 1].op \in ops
    BY <1>1, <1>4
  <2> QED
    BY <2>1 DEF HasOp
<1> QED
  BY <1>2, <1>3, <1>4 DEF HasOp

LEMMA HasNone == ASSUME NEW ops PROVE ~HasOp(<<>>, ops)
BY EmptySeq DEF HasOp
-----------------------------------------------------------------------------
(* The top of the agenda, and what is left below it. *)
LEMMA RestingFilled ==
  ASSUME NEW s, Listed(s), Filled(s)
  PROVE  s = <<>> \/ Filler(Head(s))
<1>1. CASE s # <<>>
  <2> DEFINE x == Head(s)  t == Tail(s)
  <2>1. Listed(t) /\ s = Push(x, t)
    BY <1>1, Popped
  <2> HIDE DEF x, t
  <2>2. Filled(Push(x, t))
    BY <2>1
  <2>3. Filler(x)
    BY <2>1, <2>2, FilledPush
  <2> QED
    BY <2>3 DEF x
<1> QED
  BY <1>1

LEMMA FilledTail ==
  ASSUME NEW s, Listed(s), Filled(s), s # <<>>
  PROVE  Filler(Head(s)) /\ Filled(Tail(s))
<1> DEFINE x == Head(s)  t == Tail(s)
<1>1. Listed(t) /\ s = Push(x, t)
  BY Popped
<1> HIDE DEF x, t
<1>2. Filled(Push(x, t))
  BY <1>1
<1>3. Filler(x) /\ Filled(t)
  BY <1>1, <1>2, FilledPush
<1> QED
  BY <1>3 DEF x, t

LEMMA Top ==
  ASSUME Listed(agenda), Shape, agenda # <<>>, NEW x, x = Head(agenda), NEW t, t = Tail(agenda)
  PROVE  /\ Listed(t) /\ agenda = Push(x, t)
         /\ Filler(x) => Filled(t)
         /\ x.op \notin {"set", "_process_data", "resume"} => Single(x) /\ Filled(t) /\ ~Filler(x)
         /\ x.op = "set" /\ x.hook # "esmtp" =>
              \/ x.hook \in {"no hello", "pop", "accept", "data"} /\ Filled(t)
              \/ t # <<>> /\ Follows(x.hook, Head(t)) /\ Filled(Tail(t)) /\ Listed(Tail(t))
                 /\ t = Push(Head(t), Tail(t))
<1>1. Listed(t) /\ agenda = Push(x, t)
  BY Popped
<1>2. \/ Filler(x) /\ Filled(t)
      \/ Single(x) /\ Filled(t)
      \/ x.op = "set" /\ t # <<>> /\ Follows(x.hook, Head(t)) /\ Filled(Tail(t))
  BY FilledTail DEF Shape, ShapeOf
<1>3. t # <<>> => Listed(Tail(t)) /\ t = Push(Head(t), Tail(t))
  BY <1>1, Popped
<1>4. Filler(x) => Filled(t)
  BY <1>2 DEF Filler, Single, Follows, HookOps
<1>5. x.op \notin {"set", "_process_data", "resume"} => Single(x) /\ Filled(t) /\ ~Filler(x)
  BY <1>2 DEF Filler
<1>6. x.op = "set" /\ x.hook # "esmtp" =>
        \/ x.hook \in {"no hello", "pop", "accept", "data"} /\ Filled(t)
        \/ t # <<>> /\ Follows(x.hook, Head(t)) /\ Filled(Tail(t))
  BY <1>2 DEF Filler, Single, HookOps
<1> QED
  BY <1>1, <1>3, <1>4, <1>5, <1>6

LEMMA ShapePush ==
  ASSUME NEW x, NEW s, Listed(s), Filled(s), Single(x)
  PROVE  ShapeOf(Push(x, s))
BY Pushed DEF ShapeOf

LEMMA ShapePair ==
  ASSUME NEW x, NEW y, NEW s, Listed(s), Filled(s), x.op = "set", Follows(x.hook, y)
  PROVE  ShapeOf(Push(x, Push(y, s)))
<1> DEFINE u == Push(y, s)
<1>1. Listed(u) /\ u # <<>> /\ Head(u) = y /\ Tail(u) = s
  BY Pushed
<1> HIDE DEF u
<1>2. Push(x, u) # <<>> /\ Head(Push(x, u)) = x /\ Tail(Push(x, u)) = u
  BY <1>1, Pushed
<1>3. ShapeOf(Push(x, u))
  BY <1>1, <1>2 DEF ShapeOf
<1> QED
  BY <1>3 DEF u

(* The next agenda, when something goes on in it, and when nothing does. *)
LEMMA NextGoing ==
  ASSUME NEW y, NEW s, Listed(s), ~Filler(y), agenda' = Push(y, s)
  PROVE  Listed(agenda') /\ ~Resting' /\ Head(agenda') = y /\ agenda' # <<>>
BY Pushed DEF Resting

LEMMA NextResting ==
  ASSUME NEW s, Listed(s), Filled(s), agenda' = s
  PROVE  Listed(agenda') /\ Resting' /\ Shape'
BY RestingFilled DEF Resting, Shape, ShapeOf

LEMMA DrivenHas == ASSUME NEW s PROVE DrivenBy(s) <=> HasOp(s, {"_process_data", "respond"})
BY DEF DrivenBy, HasOp

LEMMA DrivenPush ==
  ASSUME NEW x, NEW s, Listed(s)
  PROVE  DrivenBy(Push(x, s)) <=> x.op \in {"_process_data", "respond"} \/ DrivenBy(s)
BY HasPush, DrivenHas

LEMMA StageKept ==
  ASSUME NEW hook, NEW cb, UNCHANGED <<state, prev_state, transaction, owed>>
  PROVE  Stage(hook, cb)' <=> Stage(hook, cb)
BY DEF Stage, Paused, Before, Suspended, Received, Mailing, Kept, Agreed, Granted

(* The turn of a hook. *)
LEMMA HookTurn ==
  ASSUME Inv, Followed, agenda # <<>>, NEW x, x = Head(agenda), x.op \in HookOps
  PROVE  NoneOut /\ Waits = {} /\ Turned(x.hook, x.cb)
<1>1. OneTurn
  BY DEF Inv
<1>2. ~Resting
  BY DEF Resting, Filler, HookOps
<1>3. ~Parting(x)
  BY DEF Parting, HookOps
<1>4. NoneOut /\ Waits = {} /\ Going(x)
  BY <1>1, <1>2, <1>3 DEF OneTurn
<1> QED
  BY <1>4 DEF Going, HookOps

(* One step of a hook follows another. *)
LEMMA HookStep ==
  ASSUME Inv, agenda # <<>>,
         NEW x, x = Head(agenda), x.op \in HookOps,
         NEW y, y.op \in HookOps, Hooked(y.hook, y.cb), Told(y), agenda' = Push(y, Tail(agenda)),
         UNCHANGED <<state, prev_state, transaction, owed, input, awaiting, crashed>>,
         derailed => derailed',
         CallsTyped',
         \A i \in 1..MaxCalls : Out(i)' => Out(i) /\ calls'[i].hook = calls[i].hook,
         Followed /\ Turned(x.hook, x.cb) => Turned(y.hook, y.cb)',
         state = "LOOP" /\ ~derailed /\ Leaving(x.hook) => Leaving(y.hook)',
         state = "LOOP" /\ ~derailed => (deny_respond.hook \in {"quit", "deny"} => deny_respond'.hook \in {"quit", "deny"}),
         Stopped /\ ~derailed /\ y.op = "hook_respond" => Required(y.hook)
  PROVE  Inv'
<1> PICK t : t = Tail(agenda)
  OBVIOUS
<1>1. Listed(t) /\ agenda = Push(x, t) /\ Filled(t)
  BY Top DEF Inv, Typed, HookOps
<1>2. ~Filler(y) /\ agenda' = Push(y, t)
  BY DEF Filler, HookOps
<1>3. Listed(agenda') /\ ~Resting' /\ Head(agenda') = y /\ agenda' # <<>>
  BY <1>1, <1>2, NextGoing
<1>4. ~crashed /\ ~crashed'
  BY DEF Inv, Typed
<1>5. Typed'
  BY <1>3, <1>4 DEF Inv, Typed
<1>6. Shape'
  <2>1. Single(y)
    BY DEF Single
  <2>2. ShapeOf(Push(y, t))
    BY <1>1, <2>1, ShapePush
  <2> QED
    BY <1>2, <2>2 DEF Shape
<1>7. Followed' => OneTurn'
  <2> SUFFICES ASSUME Followed' PROVE OneTurn'
    OBVIOUS
  <2>1. Followed
    BY DEF Followed, Stopped
  <2>2. NoneOut /\ Waits = {} /\ Turned(x.hook, x.cb)
    BY <2>1, HookTurn
  <2>3. Going(y)'
    BY <2>1, <2>2 DEF Going
  <2>4. NoneOut' /\ Waits' = {}
    BY <2>2 DEF NoneOut, Waits
  <2> QED
    BY <1>3, <2>3, <2>4 DEF OneTurn
<1>8. (state = "LOOP" /\ ~derailed /\ ~crashed => Looping)'
  <2> SUFFICES ASSUME state' = "LOOP", ~derailed' PROVE Looping'
    OBVIOUS
  <2>1. Looping /\ state = "LOOP" /\ ~derailed
    BY <1>4 DEF Inv
  <2>2. Leaving(x.hook)
    BY <2>1 DEF Looping, LoopsOn, Resting, Filler, Parting, HookOps
  <2>3. Leaving(y.hook)'
    BY <2>1, <2>2
  <2>4. ASSUME NEW i \in 1..MaxCalls, Out(i)' PROVE Leaving(calls[i].hook)'
    BY <2>1, <2>4 DEF Looping, LoopsOn, Leaving
  <2>5. ~transaction'.open /\ Waits' = {}
    BY <2>1 DEF Looping, LoopsOn, Waits
  <2> QED
    BY <1>3, <2>3, <2>4, <2>5 DEF Looping, LoopsOn
<1>9. (Stopped /\ ~derailed /\ ~crashed => Ending)'
  <2> SUFFICES ASSUME Stopped', ~derailed' PROVE Ending'
    OBVIOUS
  <2>1. y.op = "hook_respond" => Required(y.hook)
    BY DEF Stopped
  <2> QED
    BY <1>3, <2>1 DEF Ending, EndsOn, HookOps
<1>10. (state \in {"CMD", "LOOP", "DATA"} /\ ~derailed /\ ~crashed => Driven)'
  <2>1. DrivenBy(agenda) => DrivenBy(agenda')
    <3>1. DrivenBy(Push(x, t)) => DrivenBy(t)
      <4>1. x.op \notin {"_process_data", "respond"}
        BY DEF HookOps
      <4> QED
        BY <1>1, <4>1, DrivenPush
    <3>2. DrivenBy(t) => DrivenBy(Push(y, t))
      BY <1>1, DrivenPush
    <3> QED
      BY <1>1, <1>2, <3>1, <3>2
  <2> QED
    BY <1>4, <2>1 DEF Inv, Driven
<1> QED
  BY <1>5, <1>6, <1>7, <1>8, <1>9, <1>10 DEF Inv
-----------------------------------------------------------------------------
(* The calls of plugins. *)
CallType == [at : {"free", "out", "timed out", "cancelled"}, hook : Hooks \cup {None}, cb : ResetCbs]

LEMMA CancelledCall ==
  ASSUME CallsTyped, NEW i \in 1..MaxCalls, NEW a \in {"free", "out", "timed out", "cancelled"}
  PROVE  LET c == [calls EXCEPT ![i].at = a]
         IN  /\ c \in [1..MaxCalls -> CallType]
             /\ \A j \in 1..MaxCalls : /\ c[j].hook = calls[j].hook /\ c[j].cb = calls[j].cb
                                       /\ c[j].at = IF j = i THEN a ELSE calls[j].at
<1> DEFINE r == [calls[i] EXCEPT !.at = a]
<1>1. calls \in [1..MaxCalls -> CallType]
  BY DEF CallsTyped, CallType
<1>2. calls[i] \in CallType
  BY <1>1
<1>3. r \in CallType /\ r.hook = calls[i].hook /\ r.cb = calls[i].cb /\ r.at = a
  BY <1>2 DEF CallType
<1>4. [calls EXCEPT ![i].at = a] = [calls EXCEPT ![i] = r]
  OBVIOUS
<1> HIDE DEF r
<1> QED
  BY <1>1, <1>3, <1>4

LEMMA CancelledTyped ==
  ASSUME CallsTyped
  PROVE  /\ Cancelled \in [1..MaxCalls -> CallType]
         /\ \A j \in 1..MaxCalls : /\ Cancelled[j].hook = calls[j].hook /\ Cancelled[j].cb = calls[j].cb
                                   /\ Cancelled[j].at \in {calls[j].at, "cancelled"}
<1>1. calls \in [1..MaxCalls -> CallType]
  BY DEF CallsTyped, CallType
<1>2. CASE current_hook = 0
  BY <1>1, <1>2 DEF Cancelled
<1>3. CASE current_hook # 0 /\ current_hook \in 1..MaxCalls
  <2> DEFINE c == [calls EXCEPT ![current_hook].at = "cancelled"]
  <2>1. /\ c \in [1..MaxCalls -> CallType]
        /\ \A j \in 1..MaxCalls : /\ c[j].hook = calls[j].hook /\ c[j].cb = calls[j].cb
                                  /\ c[j].at = IF j = current_hook THEN "cancelled" ELSE calls[j].at
    BY <1>3, CancelledCall
  <2>2. Cancelled = c
    BY <1>3 DEF Cancelled
  <2> HIDE DEF c
  <2> QED
    BY <2>1, <2>2
<1>4. CASE current_hook # 0 /\ current_hook \notin 1..MaxCalls
  <2>1. [calls EXCEPT ![current_hook].at = "cancelled"] = calls
    BY <1>1, <1>4
  <2> QED
    BY <1>1, <1>4, <2>1 DEF Cancelled
<1> QED
  BY <1>2, <1>3, <1>4

LEMMA Ended ==
  ASSUME Inv, Typed', Shape', Stopped', Ending'
  PROVE  Inv'
BY DEF Inv, Followed, Stopped

LEMMA Dropped ==
  ASSUME Inv, Stopped, agenda # <<>>,
         NEW x, x = Head(agenda), x.op \notin {"set", "_process_data", "resume"},
         agenda' = Tail(agenda), CallsTyped',
         UNCHANGED <<state, transaction, owed, input, crashed>>
  PROVE  Inv'
<1> PICK t : t = Tail(agenda)
  OBVIOUS
<1>1. Listed(t) /\ Filled(t)
  BY Top DEF Inv, Typed
<1>2. Listed(agenda') /\ Resting' /\ Shape'
  BY <1>1, NextResting
<1>3. Typed'
  BY <1>2 DEF Inv, Typed
<1>4. Stopped' /\ Ending'
  BY <1>2 DEF Stopped, Ending, EndsOn
<1> QED
  BY <1>2, <1>3, <1>4, Ended

LEMMA Crashes ==
  ASSUME Inv, crashed', agenda' = <<>>, CallsTyped', UNCHANGED <<transaction, owed, input>>
  PROVE  Inv'
<1>1. Listed(agenda') /\ Shape'
  BY EmptyListed DEF Shape, ShapeOf
<1> QED
  BY <1>1 DEF Inv, Typed, Followed

LEMMA RunHooksKeeps == ASSUME Inv, RunHooksStep PROVE Inv'
<1> PICK x : x = Head(agenda)
  OBVIOUS
<1> DEFINE y == RunNextHook(x.hook, x.cb)
<1>1. agenda # <<>> /\ x.op = "run_hooks" /\ x.op \in HookOps /\ x = Next1
  BY DEF RunHooksStep, At, Next1, HookOps
<1>2. Listed(Tail(agenda)) /\ Hooked(x.hook, x.cb) /\ x.op \notin {"set", "_process_data", "resume"}
  BY <1>1, Top DEF Inv, Typed, Single, HookOps
<1>3. CallsTyped
  BY DEF Inv, Typed
<1>4. UNCHANGED <<state, prev_state, transaction, owed, input, awaiting, derailed, deny_respond>>
  BY DEF RunHooksStep, session
<1>5. CASE Aborted(x.hook) /\ Proceed(<<>>) /\ UNCHANGED <<calls, crashed>>
  <2>1. agenda' = Tail(agenda)
    BY <1>2, <1>5, Puts DEF Proceed
  <2>2. CallsTyped'
    BY <1>3, <1>4, <1>5 DEF CallsTyped
  <2>3. Stopped
    BY <1>5 DEF Aborted
  <2> QED
    BY <1>1, <1>2, <1>4, <1>5, <2>1, <2>2, <2>3, Dropped
<1>6. CASE crashed' /\ agenda' = <<>> /\ UNCHANGED calls
  <2>1. CallsTyped'
    BY <1>3, <1>4, <1>6 DEF CallsTyped
  <2> QED
    BY <1>4, <1>6, <2>1, Crashes
<1>7. CASE /\ ~Aborted(x.hook) /\ calls' = (IF Required(x.hook) THEN Cancelled ELSE calls)
           /\ Proceed(<<y>>) /\ UNCHANGED crashed
  <2>1. agenda' = Push(y, Tail(agenda))
    BY <1>2, <1>7, Puts DEF Proceed
  <2>2. y.op = "run_next_hook" /\ y.hook = x.hook /\ y.cb = x.cb
    BY DEF RunNextHook, Call
  <2>8. Told(y)
    BY <2>2 DEF Told
  <2> HIDE DEF y
  <2>3. /\ calls' \in [1..MaxCalls -> CallType]
        /\ \A j \in 1..MaxCalls : /\ calls'[j].hook = calls[j].hook /\ calls'[j].cb = calls[j].cb
                                  /\ calls'[j].at \in {calls[j].at, "cancelled"}
    BY <1>3, <1>7, CancelledTyped DEF CallsTyped, CallType
  <2>4. CallsTyped'
    BY <1>3, <1>4, <2>3 DEF CallsTyped, CallType
  <2>5. \A i \in 1..MaxCalls : Out(i)' => Out(i) /\ calls'[i].hook = calls[i].hook
    BY <2>3 DEF Out
  <2>6. Turned(x.hook, x.cb) => Turned(y.hook, y.cb)'
    BY <1>4, <2>2, StageKept DEF Turned
  <2>7. Leaving(x.hook) => Leaving(y.hook)'
    BY <1>4, <2>2 DEF Leaving
  <2> QED
    BY <1>1, <1>2, <1>4, <1>7, <2>1, <2>2, <2>4, <2>5, <2>6, <2>7, <2>8, HookStep DEF HookOps
<1> QED
  BY <1>1, <1>5, <1>6, <1>7 DEF RunHooksStep, RunNextHook

(* A plugin is called, and does not answer at once. *)
LEMMA CallsOut ==
  ASSUME Inv, agenda # <<>>, NEW x, x = Head(agenda), x.op = "run_next_hook", ~Aborted(x.hook),
         NEW i \in 1..MaxCalls,
         calls' = [calls EXCEPT ![i] = [at |-> "out", hook |-> x.hook, cb |-> x.cb]],
         calls[i].at = "free", agenda' = Tail(agenda),
         UNCHANGED <<state, prev_state, transaction, owed, input, awaiting, deny_respond,
                     derailed, crashed>>
  PROVE  Inv'
<1> PICK t : t = Tail(agenda)
  OBVIOUS
<1> DEFINE r == [at |-> "out", hook |-> x.hook, cb |-> x.cb]
<1>1. Listed(t) /\ agenda = Push(x, t) /\ Filled(t) /\ Hooked(x.hook, x.cb) /\ x.op \in HookOps
  BY Top DEF Inv, Typed, HookOps, Single
<1>2. Listed(agenda') /\ Resting' /\ Shape'
  BY <1>1, NextResting
<1>3. calls \in [1..MaxCalls -> CallType]
  BY DEF Inv, Typed, CallsTyped, CallType
<1>4. r \in CallType /\ r.at = "out" /\ r.hook = x.hook /\ r.cb = x.cb
  BY <1>1 DEF Hooked, CallType, ResetCbs, Endings
<1>5. calls' = [calls EXCEPT ![i] = r]
  OBVIOUS
<1> HIDE DEF r
<1>6. calls' \in [1..MaxCalls -> CallType] /\ calls'[i] = r /\ \A j \in 1..MaxCalls : j # i => calls'[j] = calls[j]
  BY <1>3, <1>4, <1>5
<1>7. CallsTyped'
  BY <1>1, <1>4, <1>6 DEF Inv, Typed, CallsTyped, CallType
<1>8. Typed'
  BY <1>2, <1>7 DEF Inv, Typed
<1>9. Followed' => OneTurn'
  <2> SUFFICES ASSUME Followed' PROVE OneTurn'
    OBVIOUS
  <2>1. Followed
    BY DEF Followed, Stopped
  <2>2. NoneOut /\ Waits = {} /\ Turned(x.hook, x.cb)
    BY <1>1, <2>1, HookTurn
  <2>3. Turned(x.hook, x.cb)'
    BY <2>2, StageKept DEF Turned
  <2>4. Turned(calls[i].hook, calls[i].cb)'
    BY <1>4, <1>6, <2>3 DEF Turned
  <2>5. Out(i)' /\ \A j \in 1..MaxCalls : Out(j)' => j = i
    BY <1>4, <1>6, <2>2 DEF Out, NoneOut
  <2>6. Waits' = {}
    BY <2>2 DEF Waits
  <2> QED
    BY <1>2, <2>4, <2>5, <2>6 DEF OneTurn
<1>10. (state = "LOOP" /\ ~derailed /\ ~crashed => Looping)'
  <2> SUFFICES ASSUME state' = "LOOP", ~derailed', ~crashed' PROVE Looping'
    OBVIOUS
  <2>1. Looping
    BY DEF Inv
  <2>2. Leaving(x.hook)
    BY <1>1, <2>1 DEF Looping, LoopsOn, Resting, Filler, Parting, HookOps
  <2>3. ASSUME NEW j \in 1..MaxCalls, Out(j)' PROVE Leaving(calls[j].hook)'
    <3>1. CASE j = i
      BY <1>4, <1>6, <2>2, <3>1 DEF Leaving
    <3>2. CASE j # i
      BY <1>6, <2>1, <2>3, <3>2 DEF Leaving, Looping, LoopsOn, Out
    <3> QED
      BY <3>1, <3>2
  <2>4. ~transaction'.open /\ Waits' = {}
    BY <2>1 DEF Looping, LoopsOn, Waits
  <2> QED
    BY <1>2, <2>3, <2>4 DEF Looping, LoopsOn
<1>11. Ending'
  BY <1>2 DEF Ending, EndsOn
<1>12. (state \in {"CMD", "LOOP", "DATA"} /\ ~derailed /\ ~crashed => Driven)'
  <2>1. DrivenBy(Push(x, t)) => DrivenBy(t)
    BY <1>1, DrivenPush
  <2>2. DrivenBy(agenda) => DrivenBy(agenda')
    BY <1>1, <2>1
  <2> QED
    BY <2>2 DEF Inv, Driven
<1> QED
  BY <1>2, <1>8, <1>9, <1>10, <1>11, <1>12 DEF Inv

LEMMA RunNextHookKeeps == ASSUME Inv, RunNextHookStep PROVE Inv'
<1> PICK x : x = Head(agenda)
  OBVIOUS
<1>1. agenda # <<>> /\ x.op = "run_next_hook" /\ x.op \in HookOps /\ x = Next1
  BY DEF RunNextHookStep, At, Next1, HookOps
<1>2. Listed(Tail(agenda)) /\ Hooked(x.hook, x.cb) /\ x.op \notin {"set", "_process_data", "resume"}
  BY <1>1, Top DEF Inv, Typed, Single, HookOps
<1>3. CallsTyped
  BY DEF Inv, Typed
<1>4. UNCHANGED <<state, prev_state, transaction, owed, input, awaiting, derailed, crashed, deny_respond>>
  BY DEF RunNextHookStep, session, histories
<1>5. ASSUME NEW y, y.op \in HookOps, y.hook = x.hook, y.cb = x.cb, Told(y), ~Aborted(x.hook),
             Proceed(<<y>>), UNCHANGED calls
      PROVE  Inv'
  <2>1. agenda' = Push(y, Tail(agenda))
    BY <1>2, <1>5, Puts DEF Proceed
  <2>2. CallsTyped'
    BY <1>3, <1>4, <1>5 DEF CallsTyped
  <2>3. \A i \in 1..MaxCalls : Out(i)' => Out(i) /\ calls'[i].hook = calls[i].hook
    BY <1>5 DEF Out
  <2>4. Turned(x.hook, x.cb) => Turned(y.hook, y.cb)'
    BY <1>4, <1>5, StageKept DEF Turned
  <2>5. Leaving(x.hook) => Leaving(y.hook)'
    BY <1>4, <1>5 DEF Leaving
  <2>6. Stopped => Required(y.hook)
    BY <1>5 DEF Aborted
  <2>7. Hooked(y.hook, y.cb)
    BY <1>2, <1>5
  <2> QED
    BY <1>1, <1>4, <1>5, <2>1, <2>2, <2>3, <2>4, <2>5, <2>6, <2>7, HookStep
<1>6. CASE Aborted(x.hook) /\ Proceed(<<>>) /\ UNCHANGED calls
  <2>1. agenda' = Tail(agenda)
    BY <1>2, <1>6, Puts DEF Proceed
  <2>2. CallsTyped'
    BY <1>3, <1>4, <1>6 DEF CallsTyped
  <2>3. Stopped
    BY <1>6 DEF Aborted
  <2> QED
    BY <1>1, <1>2, <1>4, <2>1, <2>2, <2>3, Dropped
<1>7. CASE ~Aborted(x.hook) /\ Proceed(<<HookRespond(x.hook, "CONT", x.cb)>>) /\ UNCHANGED calls
  BY <1>5, <1>7 DEF HookRespond, Call, HookOps, Told, Retvals
<1>8. ASSUME NEW retval \in Answers[x.hook], ~Aborted(x.hook), Proceed(<<Callback(x.hook, retval, x.cb)>>), UNCHANGED calls
      PROVE  Inv'
  <2>1. retval \in Retvals \/ x.hook = None
    BY <1>2, AnswersTyped DEF Hooked
  <2> QED
    BY <1>5, <1>8, <2>1 DEF Callback, Call, HookOps, Told
<1>9. ASSUME ~Aborted(x.hook), NEW i \in 1..MaxCalls, calls[i].at = "free",
             calls' = [calls EXCEPT ![i] = [at |-> "out", hook |-> x.hook, cb |-> x.cb]], Proceed(<<>>)
      PROVE  Inv'
  <2>1. agenda' = Tail(agenda)
    BY <1>2, <1>9, Puts DEF Proceed
  <2> QED
    BY <1>1, <1>4, <1>9, <2>1, CallsOut
<1>10. \/ Aborted(x.hook) /\ Proceed(<<>>) /\ UNCHANGED calls
       \/ ~Aborted(x.hook) /\ Proceed(<<HookRespond(x.hook, "CONT", x.cb)>>) /\ UNCHANGED calls
       \/ \E retval \in Answers[x.hook] :
            ~Aborted(x.hook) /\ Proceed(<<Callback(x.hook, retval, x.cb)>>) /\ UNCHANGED calls
       \/ \E i \in 1..MaxCalls :
            /\ ~Aborted(x.hook) /\ calls[i].at = "free" /\ Proceed(<<>>)
            /\ calls' = [calls EXCEPT ![i] = [at |-> "out", hook |-> x.hook, cb |-> x.cb]]
  BY <1>1 DEF RunNextHookStep
<1> QED
  BY <1>6, <1>7, <1>8, <1>9, <1>10

(* Who denies the denial never hears of it. *)
LEMMA StageDeny ==
  ASSUME NEW hook, NEW cb, NEW cb2, Stage(hook, cb)
  PROVE  Stage("deny", cb2)
BY DEF Stage, Paused, Before, Suspended, Received, Kept, None

LEMMA DenyTurn ==
  ASSUME NEW hook, NEW cb, NEW cb2, deny_respond'.hook = hook, deny_respond'.cb = cb
  PROVE  Turned("deny", cb2)' <=> Stage(hook, cb)'
BY DEF Turned, Stage, Paused, Before, Suspended, Received, Mailing, Kept, Agreed, Granted

LEMMA CallbackKeeps == ASSUME Inv, CallbackStep PROVE Inv'
<1> PICK x : x = Head(agenda)
  OBVIOUS
<1>1. agenda # <<>> /\ x.op = "callback" /\ x.op \in HookOps /\ x = Next1
  BY DEF CallbackStep, At, Next1, HookOps
<1>2. /\ Listed(Tail(agenda)) /\ Hooked(x.hook, x.cb) /\ x.op \notin {"set", "_process_data", "resume"}
      /\ x.retval \in Retvals \/ x.hook = None
  BY <1>1, Top DEF Inv, Typed, Single, HookOps, Told
<1>3. CallsTyped
  BY DEF Inv, Typed
<1>4. UNCHANGED <<state, prev_state, transaction, owed, input, awaiting, derailed, crashed, calls>>
  BY DEF CallbackStep, session, histories
<1>5. \A i \in 1..MaxCalls : Out(i)' => Out(i) /\ calls'[i].hook = calls[i].hook
  BY <1>4 DEF Out
<1>6. CASE Aborted(x.hook) /\ Proceed(<<>>) /\ UNCHANGED deny_respond
  <2>1. agenda' = Tail(agenda)
    BY <1>2, <1>6, Puts DEF Proceed
  <2>2. CallsTyped'
    BY <1>3, <1>4, <1>6 DEF CallsTyped
  <2>3. Stopped
    BY <1>6 DEF Aborted
  <2> QED
    BY <1>1, <1>2, <1>4, <2>1, <2>2, <2>3, Dropped
<1>7. ASSUME NEW y, y.op \in HookOps, y.hook = x.hook, y.cb = x.cb, Told(y), ~Aborted(x.hook),
             Proceed(<<y>>), UNCHANGED deny_respond
      PROVE  Inv'
  <2>1. agenda' = Push(y, Tail(agenda))
    BY <1>2, <1>7, Puts DEF Proceed
  <2>2. CallsTyped'
    BY <1>3, <1>4, <1>7 DEF CallsTyped
  <2>3. Turned(x.hook, x.cb) => Turned(y.hook, y.cb)'
    BY <1>4, <1>7, StageKept DEF Turned
  <2>4. Leaving(x.hook) => Leaving(y.hook)'
    BY <1>4, <1>7 DEF Leaving
  <2>5. Stopped => Required(y.hook)
    BY <1>7 DEF Aborted
  <2>6. Hooked(y.hook, y.cb)
    BY <1>2, <1>7
  <2> QED
    BY <1>1, <1>4, <1>5, <1>7, <2>1, <2>2, <2>3, <2>4, <2>5, <2>6, HookStep
<1>8. CASE /\ ~Aborted(x.hook) /\ deny_respond' = HookRespond(x.hook, x.retval, x.cb)
           /\ Proceed(<<RunHooks("deny", <<>>)>>)
  <2> PICK y : y = RunHooks("deny", <<>>)
    OBVIOUS
  <2>1. y.op = "run_hooks" /\ y.hook = "deny" /\ y.cb = <<>>
    BY DEF RunHooks, Call
  <2>9. Told(y)
    BY <2>1 DEF Told
  <2>2. deny_respond'.op = "hook_respond" /\ deny_respond'.hook = x.hook /\ deny_respond'.cb = x.cb
        /\ deny_respond'.retval = x.retval
    BY <1>8 DEF HookRespond, Call
  <2>3. agenda' = Push(y, Tail(agenda))
    BY <1>2, <1>8, Puts DEF Proceed
  <2>4. CallsTyped'
    BY <1>2, <1>3, <1>4, <2>2 DEF CallsTyped, Hooked, Told
  <2>5. ASSUME Turned(x.hook, x.cb) PROVE Turned(y.hook, y.cb)'
    <3>1. Stage(x.hook, x.cb)
      <4>1. CASE x.hook = "deny"
        BY <2>5, <4>1, StageDeny DEF Turned
      <4>2. CASE x.hook # "deny"
        BY <2>5, <4>2 DEF Turned
      <4> QED
        BY <4>1, <4>2
    <3>2. Stage(x.hook, x.cb)'
      BY <1>4, <3>1, StageKept
    <3> QED
      BY <2>1, <2>2, <3>2, DenyTurn
  <2>6. Leaving(x.hook) => Leaving(y.hook)' /\ deny_respond'.hook \in {"quit", "deny"}
    BY <2>1, <2>2 DEF Leaving
  <2>7. Hooked(y.hook, y.cb) /\ y.op \in HookOps /\ y.op # "hook_respond"
    BY <2>1 DEF Hooked, HookOps, Hooks
  <2>8. state = "LOOP" /\ ~derailed => Leaving(x.hook)
    BY <1>1 DEF Inv, Typed, Looping, LoopsOn, Resting, Filler, Parting, HookOps
  <2> QED
    BY <1>1, <1>4, <1>5, <2>3, <2>4, <2>5, <2>6, <2>7, <2>8, <2>9, HookStep
<1>9. \/ Aborted(x.hook) /\ Proceed(<<>>) /\ UNCHANGED deny_respond
      \/ ~Aborted(x.hook) /\ Proceed(<<RunNextHook(x.hook, x.cb)>>) /\ UNCHANGED deny_respond
      \/ /\ ~Aborted(x.hook) /\ deny_respond' = HookRespond(x.hook, x.retval, x.cb)
         /\ Proceed(<<RunHooks("deny", <<>>)>>)
      \/ ~Aborted(x.hook) /\ Proceed(<<HookRespond(x.hook, x.retval, x.cb)>>) /\ UNCHANGED deny_respond
  BY <1>1 DEF CallbackStep
<1>10. CASE ~Aborted(x.hook) /\ Proceed(<<RunNextHook(x.hook, x.cb)>>) /\ UNCHANGED deny_respond
  BY <1>7, <1>10 DEF RunNextHook, Call, HookOps, Told
<1>11. CASE ~Aborted(x.hook) /\ Proceed(<<HookRespond(x.hook, x.retval, x.cb)>>) /\ UNCHANGED deny_respond
  BY <1>2, <1>7, <1>11 DEF HookRespond, Call, HookOps, Told
<1> QED
  BY <1>6, <1>8, <1>9, <1>10, <1>11

LEMMA DenyRespondKeeps == ASSUME Inv, DenyRespond PROVE Inv'
<1> PICK x : x = Head(agenda)
  OBVIOUS
<1> PICK d : d = deny_respond
  OBVIOUS
<1>1. agenda # <<>> /\ x.op = "hook_respond" /\ x.hook = "deny" /\ x.op \in HookOps /\ x = Next1
  BY DEF DenyRespond, At, Next1, HookOps
<1>2. Listed(Tail(agenda)) /\ Filled(Tail(agenda)) /\ x.op \notin {"set", "_process_data", "resume"}
  BY <1>1, Top DEF Inv, Typed, HookOps
<1>3. CallsTyped /\ Hooked(d.hook, d.cb) /\ d.op = "hook_respond" /\ Told(d)
  BY DEF Inv, Typed, CallsTyped
<1>4. UNCHANGED <<state, prev_state, transaction, owed, input, awaiting, crashed, calls, deny_respond>>
  BY DEF DenyRespond, session
<1>5. CallsTyped' /\ \A i \in 1..MaxCalls : Out(i)' => Out(i) /\ calls'[i].hook = calls[i].hook
  BY <1>3, <1>4 DEF Out, CallsTyped
<1>6. ASSUME NEW y, y.op \in HookOps, y.hook = d.hook, y.cb = d.cb, Told(y), Proceed(<<y>>), derailed => derailed'
      PROVE  Inv'
  <2>1. agenda' = Push(y, Tail(agenda))
    BY <1>2, <1>6, Puts DEF Proceed
  <2>2. Turned(x.hook, x.cb) => Turned(y.hook, y.cb)'
    BY <1>1, <1>4, <1>6, StageKept DEF Turned
  <2>3. Leaving(x.hook) => Leaving(y.hook)'
    BY <1>1, <1>4, <1>6 DEF Leaving
  <2>4. ~(Stopped /\ ~derailed)
    BY <1>1 DEF Inv, Typed, Ending, EndsOn, Resting, Filler, Required
  <2>5. Hooked(y.hook, y.cb)
    BY <1>3, <1>6
  <2> QED
    BY <1>1, <1>4, <1>5, <1>6, <2>1, <2>2, <2>3, <2>4, <2>5, HookStep
<1>7. CASE derailed' /\ Proceed(<<>>)
  <2>1. agenda' = Tail(agenda)
    BY <1>2, <1>7, Puts DEF Proceed
  <2>2. Listed(agenda') /\ Resting' /\ Shape'
    BY <1>2, <2>1, NextResting
  <2>3. Typed'
    BY <1>1, <1>4, <1>5, <2>2 DEF Inv, Typed
  <2> QED
    BY <1>7, <2>2, <2>3 DEF Inv, Followed
<1>8. CASE Proceed(<<RunNextHook(d.hook, d.cb)>>) /\ UNCHANGED derailed
  BY <1>6, <1>8 DEF RunNextHook, Call, HookOps, Told
<1>9. CASE Proceed(<<HookRespond(d.hook, "CONT", d.cb)>>) /\ UNCHANGED derailed
  BY <1>6, <1>9 DEF HookRespond, Call, HookOps, Told, Retvals
<1>10. CASE Proceed(<<d>>) /\ (derailed => derailed')
  BY <1>3, <1>6, <1>10 DEF HookOps
<1> QED
  BY <1>7, <1>8, <1>9, <1>10 DEF DenyRespond

(* What a method named after a hook makes of the outcome. *)
LEMMA OutcomeStep ==
  ASSUME Inv, HookRespondStep, NEW x, x = Head(agenda), x.hook # "quit",
         NEW t, t = Tail(agenda), NEW u, Listed(u), Filled(u), DrivenBy(t) => DrivenBy(u),
         NEW y, agenda' = Push(y, u), Single(y), awaiting' = awaiting,
         Followed /\ Stage(x.hook, x.cb) => Going(y)' \/ Parting(y)
  PROVE  Inv'
<1>1. agenda # <<>> /\ x.op = "hook_respond" /\ x.hook \notin {"deny", "reset_transaction", "disconnect"} /\ x.op \in HookOps
  BY DEF HookRespondStep, At, Next1, HookOps
<1>2. Listed(t) /\ agenda = Push(x, t) /\ Filled(t)
  BY <1>1, Top DEF Inv, Typed, HookOps
<1>3. UNCHANGED <<state, prev_state, transaction, owed, input, derailed, crashed, calls, deny_respond>>
  BY DEF HookRespondStep, session, histories, hooking
<1>4. ~Filler(y)
  BY DEF Single, Filler, HookOps
<1>5. Listed(agenda') /\ ~Resting' /\ Head(agenda') = y /\ agenda' # <<>>
  BY <1>4, NextGoing
<1>6. ~crashed /\ ~crashed'
  BY <1>1, <1>3 DEF Inv, Typed
<1>7. Typed'
  BY <1>3, <1>5, <1>6 DEF Inv, Typed, CallsTyped
<1>8. Shape'
  BY ShapePush DEF Shape
<1>9. Followed' => OneTurn'
  <2> SUFFICES ASSUME Followed' PROVE OneTurn'
    OBVIOUS
  <2>1. Followed
    BY <1>3 DEF Followed, Stopped
  <2>2. NoneOut /\ Waits = {} /\ Stage(x.hook, x.cb)
    BY <1>1, <2>1, HookTurn DEF Turned
  <2>3. Going(y)' \/ Parting(y)'
    BY <2>1, <2>2 DEF Parting
  <2>4. NoneOut' /\ Waits' = {}
    BY <1>3, <2>2 DEF NoneOut, Waits, Out
  <2> QED
    BY <1>5, <2>3, <2>4 DEF OneTurn
<1>10. ~(state = "LOOP" /\ ~derailed)
  BY <1>1, <1>6 DEF Inv, Looping, LoopsOn, Resting, Filler, Parting, HookOps, Leaving
<1>11. ~(Stopped /\ ~derailed)
  BY <1>1, <1>6 DEF Inv, Ending, EndsOn, Resting, Filler, Required
<1>12. (state \in {"CMD", "LOOP", "DATA"} /\ ~derailed /\ ~crashed => Driven)'
  <2>1. DrivenBy(agenda) => DrivenBy(agenda')
    <3>1. DrivenBy(Push(x, t)) => DrivenBy(t)
      BY <1>1, <1>2, DrivenPush
    <3>2. DrivenBy(u) => DrivenBy(Push(y, u))
      BY DrivenPush
    <3> QED
      BY <1>2, <3>1, <3>2
  <2> QED
    BY <1>3, <1>6, <2>1 DEF Inv, Driven
<1> QED
  BY <1>3, <1>7, <1>8, <1>9, <1>10, <1>11, <1>12 DEF Inv, Stopped

(* Who quits leaves, from a loop as well. *)
LEMMA QuitStep ==
  ASSUME Inv, HookRespondStep, Head(agenda).hook = "quit"
  PROVE  Inv'
<1> PICK x : x = Head(agenda)
  OBVIOUS
<1> PICK t : t = Tail(agenda)
  OBVIOUS
<1> DEFINE y == Respond(<<Disconnect>>)
<1>1. agenda # <<>> /\ x.op = "hook_respond" /\ x.hook = "quit" /\ x.op \in HookOps
  BY DEF HookRespondStep, At, Next1, HookOps
<1>2. Listed(t) /\ agenda = Push(x, t) /\ Filled(t)
  BY <1>1, Top DEF Inv, Typed, HookOps
<1>3. /\ UNCHANGED <<state, prev_state, transaction, owed, input, derailed, crashed, calls, deny_respond>>
      /\ UNCHANGED awaiting
  BY <1>1 DEF HookRespondStep, session, histories, hooking, Awaited, Next1
<1>4. Proceed(<<y>>)
  BY <1>1 DEF HookRespondStep, Orphaned, Outcome, quit_respond, Next1
<1>5. agenda' = Push(y, t)
  BY <1>2, <1>4, Puts DEF Proceed
<1>6. y.op = "respond" /\ y.cb \in Partings
  BY DEF Respond, Call, Partings
<1> HIDE DEF y
<1>7. ~Filler(y) /\ Single(y) /\ Parting(y)
  BY <1>6 DEF Filler, Single, Parting
<1>8. Listed(agenda') /\ ~Resting' /\ Head(agenda') = y /\ agenda' # <<>>
  BY <1>2, <1>5, <1>7, NextGoing
<1>9. ~crashed /\ ~crashed'
  BY <1>1, <1>3 DEF Inv, Typed
<1>10. Typed'
  BY <1>3, <1>8, <1>9 DEF Inv, Typed, CallsTyped
<1>11. Shape'
  BY <1>2, <1>5, <1>7, ShapePush DEF Shape
<1>12. OneTurn'
  BY <1>7, <1>8 DEF OneTurn, Parting
<1>13. (state = "LOOP" /\ ~derailed /\ ~crashed => Looping)'
  BY <1>3, <1>7, <1>8, <1>9 DEF Inv, Looping, LoopsOn, Parting, Waits, Out, Leaving
<1>14. ~(Stopped /\ ~derailed)
  BY <1>1, <1>9 DEF Inv, Ending, EndsOn, Resting, Filler, Required
<1>15. (state \in {"CMD", "LOOP", "DATA"} /\ ~derailed /\ ~crashed => Driven)'
  <2>1. DrivenBy(agenda) => DrivenBy(agenda')
    <3>1. DrivenBy(Push(x, t)) => DrivenBy(t)
      BY <1>1, <1>2, DrivenPush
    <3>2. DrivenBy(t) => DrivenBy(Push(y, t))
      BY <1>2, DrivenPush
    <3> QED
      BY <1>2, <1>5, <3>1, <3>2
  <2> QED
    BY <1>3, <1>9, <2>1 DEF Inv, Driven
<1> QED
  BY <1>3, <1>10, <1>11, <1>12, <1>13, <1>14, <1>15 DEF Inv, Stopped

LEMMA SilentStep ==
  ASSUME Inv, HookRespondStep, NEW x, x = Head(agenda), x.hook # "quit",
         agenda' = Tail(agenda), NEW w, awaiting' = awaiting \cup w,
         Followed /\ Stage(x.hook, x.cb) =>
           \E what \in {"dns", "send_email"} : w = {what} /\ Waiting(what)
  PROVE  Inv'
<1> PICK t : t = Tail(agenda)
  OBVIOUS
<1>1. agenda # <<>> /\ x.op = "hook_respond" /\ x.hook \notin {"deny", "reset_transaction", "disconnect"} /\ x.op \in HookOps
  BY DEF HookRespondStep, At, Next1, HookOps
<1>2. Listed(t) /\ agenda = Push(x, t) /\ Filled(t)
  BY <1>1, Top DEF Inv, Typed, HookOps
<1>3. UNCHANGED <<state, prev_state, transaction, owed, input, derailed, crashed, calls, deny_respond>>
  BY DEF HookRespondStep, session, histories, hooking
<1>4. Listed(agenda') /\ Resting' /\ Shape'
  BY <1>2, NextResting
<1>5. ~crashed /\ ~crashed'
  BY <1>1, <1>3 DEF Inv, Typed
<1>6. Typed'
  BY <1>3, <1>4, <1>5 DEF Inv, Typed, CallsTyped
<1>7. Followed' => OneTurn'
  <2> SUFFICES ASSUME Followed' PROVE OneTurn'
    OBVIOUS
  <2>1. Followed
    BY <1>3 DEF Followed, Stopped
  <2>2. NoneOut /\ Waits = {} /\ Stage(x.hook, x.cb)
    BY <1>1, <2>1, HookTurn DEF Turned
  <2>3. PICK what \in {"dns", "send_email"} : w = {what} /\ Waiting(what)
    BY <2>1, <2>2
  <2>4. Waiting(what)'
    BY <1>3, <2>3, StageKept DEF Waiting
  <2>5. NoneOut' /\ Waits' = {what}
    BY <1>3, <2>2, <2>3 DEF NoneOut, Waits, Out
  <2> QED
    BY <1>4, <2>4, <2>5 DEF OneTurn
<1>8. ~(state = "LOOP" /\ ~derailed)
  BY <1>1, <1>5 DEF Inv, Looping, LoopsOn, Resting, Filler, Parting, HookOps, Leaving
<1>9. Ending'
  BY <1>4 DEF Ending, EndsOn
<1>10. (state \in {"CMD", "LOOP", "DATA"} /\ ~derailed /\ ~crashed => Driven)'
  <2>1. DrivenBy(Push(x, t)) => DrivenBy(t)
    BY <1>1, <1>2, DrivenPush
  <2>2. DrivenBy(agenda) => DrivenBy(agenda')
    BY <1>2, <2>1
  <2> QED
    BY <1>3, <1>5, <2>2 DEF Inv, Driven
<1> QED
  BY <1>3, <1>4, <1>6, <1>7, <1>8, <1>9, <1>10 DEF Inv

(* It tells the client, or runs the next hook. *)
LEMMA StillListed ==
  ASSUME Inv, HookRespondStep
  PROVE  Listed(Tail(agenda)) /\ Filled(Tail(agenda))
<1> PICK x : x = Head(agenda)
  OBVIOUS
<1>1. agenda # <<>> /\ x.op = "hook_respond"
  BY DEF HookRespondStep, At, Next1
<1> QED
  BY <1>1, Top DEF Inv, Typed

LEMMA ReplyStep ==
  ASSUME Inv, HookRespondStep, NEW x, x = Head(agenda), x.hook # "quit",
         NEW cb \in Partings \cup Replies, Proceed(<<Respond(cb)>>), awaiting' = awaiting,
         Followed /\ Stage(x.hook, x.cb) => cb \in Partings \/ Replying(cb)
  PROVE  Inv'
<1> PICK t : t = Tail(agenda)
  OBVIOUS
<1> PICK y : y = Respond(cb)
  OBVIOUS
<1>1. Listed(t) /\ Filled(t)
  BY StillListed
<1>2. y.op = "respond" /\ y.cb = cb
  BY DEF Respond, Call
<1>3. agenda' = Push(y, t)
  BY <1>1, Puts DEF Proceed
<1>4. Single(y)
  BY <1>2 DEF Single
<1>5. UNCHANGED <<state, prev_state, transaction, owed>>
  BY DEF HookRespondStep
<1>6. Followed /\ Stage(x.hook, x.cb) => Going(y)' \/ Parting(y)
  BY <1>2, <1>5 DEF Going, Parting, Replying, Paused, Before, Kept, Agreed, Mailing, Granted
<1> QED
  BY <1>1, <1>3, <1>4, <1>6, OutcomeStep

LEMMA HookNextStep ==
  ASSUME Inv, HookRespondStep, NEW x, x = Head(agenda), x.hook # "quit",
         NEW hook \in Hooks \ {"deny", "reset_transaction"},
         Proceed(<<RunHooks(hook, <<>>)>>), awaiting' = awaiting,
         Followed /\ Stage(x.hook, x.cb) => Stage(hook, <<>>)
  PROVE  Inv'
<1> PICK t : t = Tail(agenda)
  OBVIOUS
<1> PICK y : y = RunHooks(hook, <<>>)
  OBVIOUS
<1>1. Listed(t) /\ Filled(t)
  BY StillListed
<1>2. y.op = "run_hooks" /\ y.hook = hook /\ y.cb = <<>>
  BY DEF RunHooks, Call
<1>3. agenda' = Push(y, t)
  BY <1>1, Puts DEF Proceed
<1>4. Single(y) /\ y.op \in HookOps
  BY <1>2 DEF Single, Hooked, HookOps, Told
<1>5. UNCHANGED <<state, prev_state, transaction, owed>>
  BY DEF HookRespondStep
<1>6. Followed /\ Stage(x.hook, x.cb) => Going(y)'
  BY <1>2, <1>4, <1>5, StageKept DEF Going, Turned
<1> QED
  BY <1>1, <1>3, <1>4, <1>6, OutcomeStep

LEMMA RefuseStep ==
  ASSUME Inv, HookRespondStep, NEW x, x = Head(agenda), x.hook # "quit", NEW retval,
         NEW after \in Replies, Proceed(Refuse(retval, after)), awaiting' = awaiting,
         Followed /\ Stage(x.hook, x.cb) => Replying(after)
  PROVE  Inv'
<1>1. CASE retval = "DENY"
  <2>1. Proceed(<<Respond(after)>>)
    BY <1>1 DEF Refuse
  <2> QED
    BY <2>1, ReplyStep
<1>2. CASE retval # "DENY"
  <2>1. Proceed(<<Respond(<<Disconnect>>)>>)
    BY <1>2 DEF Refuse
  <2> QED
    BY <2>1, ReplyStep DEF Partings
<1> QED
  BY <1>1, <1>2

LEMMA TurnStep ==
  ASSUME Inv, HookRespondStep, NEW x, x = Head(agenda), x.hook # "quit", NEW retval,
         Proceed(Turn(retval)), awaiting' = awaiting,
         Followed /\ Stage(x.hook, x.cb) => owed = 1 /\ state = "PAUSE" /\ ~transaction.open
  PROVE  Inv'
<1>1. CASE retval = "DENY"
  <2> PICK t : t = Tail(agenda)
    OBVIOUS
  <2> PICK y : y = LoopRespond
    OBVIOUS
  <2>1. Listed(t) /\ Filled(t)
    BY StillListed
  <2>2. y.op = "loop_respond"
    BY DEF LoopRespond, Call
  <2>3. agenda' = Push(y, t)
    BY <1>1, <2>1, Puts DEF Proceed, Turn
  <2>4. Single(y)
    BY <2>2 DEF Single
  <2>5. UNCHANGED <<state, prev_state, transaction, owed>>
    BY DEF HookRespondStep
  <2>6. Followed /\ Stage(x.hook, x.cb) => Going(y)'
    BY <2>2, <2>5 DEF Going
  <2> QED
    BY <2>1, <2>3, <2>4, <2>6, OutcomeStep
<1>2. CASE retval # "DENY"
  <2>1. Proceed(<<Respond(<<Disconnect>>)>>)
    BY <1>2 DEF Turn
  <2> QED
    BY <2>1, ReplyStep DEF Partings
<1> QED
  BY <1>1, <1>2

(* After EHLO the capabilities are asked for, and then esmtp is set. *)
LEMMA EhloStep ==
  ASSUME Inv, HookRespondStep, NEW x, x = Head(agenda), x.hook = "ehlo",
         Proceed(<<RunHooks("capabilities", <<>>), Set("esmtp")>>), awaiting' = awaiting
  PROVE  Inv'
<1> PICK t : t = Tail(agenda)
  OBVIOUS
<1> PICK y : y = RunHooks("capabilities", <<>>)
  OBVIOUS
<1> PICK z : z = Set("esmtp")
  OBVIOUS
<1> PICK u : u = Push(z, t)
  OBVIOUS
<1>1. Listed(t) /\ Filled(t)
  BY StillListed
<1>2. y.op = "run_hooks" /\ y.hook = "capabilities" /\ y.cb = <<>>
  BY DEF RunHooks, Call
<1>3. z.op = "set" /\ z.hook = "esmtp"
  BY DEF Set, Call
<1>4. agenda' = Push(y, u)
  <2>1. agenda' = <<y, z>> \o t
    BY DEF Proceed
  <2>2. <<y, z>> \o t = Push(y, Push(z, t))
    BY <1>1, PutsTwo
  <2> QED
    BY <2>1, <2>2
<1>5. Filler(z)
  BY <1>3 DEF Filler
<1>6. Listed(u) /\ Filled(u) /\ (DrivenBy(t) => DrivenBy(u))
  BY <1>1, <1>5, Pushed, FilledPush, DrivenPush
<1>7. Single(y) /\ y.op \in HookOps
  BY <1>2 DEF Single, Hooked, HookOps, Hooks, Told
<1>8. UNCHANGED <<state, prev_state, transaction, owed>>
  BY DEF HookRespondStep
<1>9. Stage("ehlo", x.cb) => Stage("capabilities", <<>>)
  BY DEF Stage
<1>10. Followed /\ Stage(x.hook, x.cb) => Going(y)'
  BY <1>2, <1>7, <1>8, <1>9, StageKept DEF Going, Turned
<1> QED
  BY <1>1, <1>4, <1>6, <1>7, <1>10, OutcomeStep

(* Which reply a stage may give. *)
LEMMA StageReplies ==
  ASSUME Inv, NEW hook, NEW cb, Stage(hook, cb)
  PROVE  /\ hook \in {"connect", "helo", "ehlo", "capabilities", "unrecognized_command", "mail"} => Replying(<<>>)
         /\ hook \in {"helo", "ehlo"} => Replying(<<Set("no hello")>>)
         /\ hook \in {"rset", "mail", "data", "max_data_exceeded"} => Replying(Abandon)
         /\ hook \in {"rcpt", "rcpt_ok"} => Replying(<<Set("pop")>>) /\ Replying(<<Set("accept")>>)
         /\ hook = "data" => Replying(<<Set("data")>>)
         /\ hook \in {"data_post", "queue", "queue_outbound", "queue_ok"} => Replying(Close)
<1>1. hook \in {"connect", "helo", "ehlo", "capabilities", "unrecognized_command", "mail"} => Replying(<<>>)
  <2>1. transaction.accept \in Nat
    BY DEF Inv, Typed
  <2> QED
    BY <2>1 DEF Stage, Replying, Suspended, Before, Paused, Agreed, Mailing, Kept, None
<1>2. hook \in {"helo", "ehlo"} => Replying(<<Set("no hello")>>)
  BY DEF Stage, Replying, Suspended, Before, Paused, Agreed, Kept, None
<1>3. hook \in {"rset", "mail", "data", "max_data_exceeded"} => Replying(Abandon)
  BY DEF Stage, Replying, Suspended, Received, Before, Paused, Agreed, Mailing, Kept, Granted, None
<1>4. hook \in {"rcpt", "rcpt_ok"} => Replying(<<Set("pop")>>) /\ Replying(<<Set("accept")>>)
  BY DEF Stage, Replying, Suspended, Before, Paused, Kept, None
<1>5. hook = "data" => Replying(<<Set("data")>>)
  BY DEF Stage, Replying, Suspended, Before, Paused, Kept, None, Granted
<1>6. hook \in {"data_post", "queue", "queue_outbound", "queue_ok"} => Replying(Close)
  BY DEF Stage, Replying, Received, Before, Paused, Mailing, Kept, None
<1> QED
  BY <1>1, <1>2, <1>3, <1>4, <1>5, <1>6

LEMMA StageNext ==
  ASSUME NEW hook, NEW cb, Stage(hook, cb)
  PROVE  /\ hook = "connect_init" => Stage("lookup_rdns", <<>>)
         /\ hook = "lookup_rdns" => Stage("connect", <<>>)
         /\ hook = "rcpt" => Stage("rcpt_ok", <<>>)
         /\ hook = "data_post" => Stage("queue", <<>>) /\ Stage("queue_outbound", <<>>)
         /\ hook \in {"queue", "queue_outbound"} => Stage("queue_ok", <<>>)
         /\ hook \in {"connect_init", "lookup_rdns", "connect"} => owed = 1 /\ state = "PAUSE" /\ ~transaction.open
         /\ hook \in {"mail", "rcpt", "rcpt_ok", "data_post"} => transaction.open
         /\ hook \in Hooks
BY DEF Stage, Mailing, Hooks

LEMMA RepliesListed ==
  /\ {<<>>, <<Set("no hello")>>, <<Set("pop")>>, <<Set("accept")>>, <<Set("data")>>, Abandon, Close} \subseteq Replies
BY DEF Replies

LEMMA HookRespondKeeps == ASSUME Inv, HookRespondStep PROVE Inv'
<1> PICK x : x = Head(agenda)
  OBVIOUS
<1> PICK r : r = x.retval
  OBVIOUS
<1> PICK h : h = x.hook
  OBVIOUS
<1>1. agenda # <<>> /\ x.op = "hook_respond" /\ h \notin {"deny", "reset_transaction", "disconnect"} /\ x = Next1
  BY DEF HookRespondStep, At, Next1
<1>2. h = None \/ r \in Retvals
  BY <1>1, Top DEF Inv, Typed, Single, Told, HookOps
<1>3. awaiting' = awaiting \cup Awaited(h, r)
  BY <1>1 DEF HookRespondStep
<1>4. h \notin {"lookup_rdns", "queue_outbound"} \/ r # "CONT" => awaiting' = awaiting
  BY <1>3 DEF Awaited
<1>5. CASE h = "quit"
  BY <1>1, <1>5, QuitStep
<1>6. CASE Orphaned(h)
  <2>1. agenda' = Tail(agenda)
    BY <1>1, <1>6, StillListed, Puts DEF HookRespondStep, Proceed
  <2>2. awaiting' = awaiting \cup {} /\ h # "quit"
    BY <1>4, <1>6 DEF Orphaned
  <2>3. ~Stage(x.hook, x.cb)
    BY <1>6, StageNext DEF Orphaned
  <2> QED
    BY <2>1, <2>2, <2>3, SilentStep
<1> SUFFICES ASSUME h # "quit", ~Orphaned(h) PROVE Inv'
  BY <1>5, <1>6
<1>7. Proceed(Outcome(h, r))
  BY <1>1 DEF HookRespondStep
<1>8. ASSUME NEW after \in Replies, Proceed(Refuse(r, after)), awaiting' = awaiting,
             Stage(h, x.cb) => Replying(after)
      PROVE  Inv'
  BY <1>8, RefuseStep
<1>9. ASSUME NEW cb \in Replies, Proceed(<<Respond(cb)>>), awaiting' = awaiting,
             Stage(h, x.cb) => Replying(cb)
      PROVE  Inv'
  BY <1>9, ReplyStep
<1>10. ASSUME NEW hook \in Hooks \ {"deny", "reset_transaction"},
              Proceed(<<RunHooks(hook, <<>>)>>), awaiting' = awaiting,
              Stage(h, x.cb) => Stage(hook, <<>>)
       PROVE  Inv'
  BY <1>10, HookNextStep
<1>11. ASSUME NEW w, awaiting' = awaiting \cup w, Proceed(<<>>),
              Stage(h, x.cb) => \E what \in {"dns", "send_email"} : w = {what} /\ Waiting(what)
       PROVE  Inv'
  <2>1. agenda' = Tail(agenda)
    BY <1>11, StillListed, Puts DEF Proceed
  <2> QED
    BY <1>11, <2>1, SilentStep
<1>12. CASE h = "connect_init"
  <2>1. Proceed(<<RunHooks("lookup_rdns", <<>>)>>)
    BY <1>7, <1>12 DEF Outcome, connect_init_respond
  <2> QED
    BY <1>4, <1>10, <1>12, <2>1, StageNext DEF Hooks
<1>13. CASE h = "lookup_rdns"
  <2>1. Proceed(lookup_rdns_respond(r))
    BY <1>7, <1>13 DEF Outcome
  <2>2. CASE Denied(r)
    <3>1. Proceed(Turn(r)) /\ awaiting' = awaiting
      BY <1>4, <2>1, <2>2 DEF lookup_rdns_respond, Denied
    <3> QED
      BY <1>13, <3>1, StageNext, TurnStep
  <2>3. CASE r = "OK"
    <3>1. Proceed(<<RunHooks("connect", <<>>)>>) /\ awaiting' = awaiting
      BY <1>4, <2>1, <2>3 DEF lookup_rdns_respond, Denied
    <3> QED
      BY <1>10, <1>13, <3>1, StageNext DEF Hooks
  <2>4. CASE r = "CONT"
    <3>1. Proceed(<<>>) /\ awaiting' = awaiting \cup {"dns"}
      BY <1>3, <1>13, <2>1, <2>4 DEF lookup_rdns_respond, Denied, Awaited
    <3>2. Stage(h, x.cb) => Waiting("dns")
      BY <1>13, StageNext DEF Waiting
    <3> QED
      BY <1>11, <3>1, <3>2
  <2> QED
    BY <1>2, <1>13, <2>2, <2>3, <2>4 DEF Denied, Retvals, None
<1>14. CASE h = "connect"
  <2>1. Proceed(IF Denied(r) THEN Turn(r) ELSE Grant)
    BY <1>7, <1>14 DEF Outcome, connect_respond
  <2>2. CASE Denied(r)
    BY <1>4, <1>14, <2>1, <2>2, StageNext, TurnStep
  <2>3. CASE ~Denied(r)
    BY <1>4, <1>9, <1>14, <2>1, <2>3, StageReplies, RepliesListed DEF Grant
  <2> QED
    BY <2>2, <2>3
<1>15. CASE h \in {"helo", "ehlo"} /\ Denied(r)
  <2>1. Proceed(Refuse(r, <<Set("no hello")>>))
    BY <1>7, <1>15 DEF Outcome, helo_respond, ehlo_respond
  <2> QED
    BY <1>4, <1>8, <1>15, <2>1, StageReplies, RepliesListed
<1>16. CASE h = "helo" /\ ~Denied(r)
  <2>1. Proceed(<<Respond(<<>>)>>)
    BY <1>7, <1>16 DEF Outcome, helo_respond, Grant
  <2> QED
    BY <1>4, <1>9, <1>16, <2>1, StageReplies, RepliesListed
<1>17. CASE h = "ehlo" /\ ~Denied(r)
  <2>1. Proceed(<<RunHooks("capabilities", <<>>), Set("esmtp")>>)
    BY <1>7, <1>17 DEF Outcome, ehlo_respond
  <2> QED
    BY <1>4, <1>17, <2>1, EhloStep
<1>18. CASE h = "capabilities"
  <2>1. Proceed(<<Respond(<<>>)>>)
    BY <1>7, <1>18 DEF Outcome, capabilities_respond, Grant
  <2> QED
    BY <1>4, <1>9, <1>18, <2>1, StageReplies, RepliesListed
<1>19. CASE h \in {"rset", "max_data_exceeded"}
  <2>1. Proceed(<<Respond(Abandon)>>)
    BY <1>7, <1>19 DEF Outcome, rset_respond, max_data_exceeded_respond
  <2> QED
    BY <1>4, <1>9, <1>19, <2>1, StageReplies, RepliesListed
<1>20. CASE h \in {"mail", "data"} /\ Denied(r)
  <2>1. Proceed(Refuse(r, Abandon))
    BY <1>7, <1>20 DEF Outcome, mail_respond, data_respond
  <2> QED
    BY <1>4, <1>8, <1>20, <2>1, StageReplies, RepliesListed
<1>21. CASE h = "mail" /\ ~Denied(r)
  <2>1. Proceed(<<Respond(<<>>)>>)
    BY <1>7, <1>21 DEF Outcome, mail_respond, Grant
  <2> QED
    BY <1>4, <1>9, <1>21, <2>1, StageReplies, RepliesListed
<1>22. CASE h = "data" /\ ~Denied(r)
  <2>1. Proceed(<<Respond(<<Set("data")>>)>>)
    BY <1>7, <1>22 DEF Outcome, data_respond
  <2> QED
    BY <1>4, <1>9, <1>22, <2>1, StageReplies, RepliesListed
<1>23. CASE h \in {"rcpt", "rcpt_ok"} /\ Denied(r)
  <2>1. Proceed(Refuse(r, <<Set("pop")>>))
    <3>1. CASE h = "rcpt"
      BY <1>7, <1>23, <3>1 DEF Outcome, rcpt_respond
    <3>2. CASE h = "rcpt_ok"
      BY <1>7, <1>23, <3>2 DEF Outcome, rcpt_ok_respond
    <3> QED
      BY <1>23, <3>1, <3>2
  <2> QED
    BY <1>4, <1>8, <1>23, <2>1, StageReplies, RepliesListed
<1>24. CASE h = "rcpt" /\ ~Denied(r)
  <2>1. Proceed(<<RunHooks("rcpt_ok", <<>>)>>) \/ Proceed(<<Respond(<<Set("pop")>>)>>)
    BY <1>7, <1>24 DEF Outcome, rcpt_respond
  <2>2. CASE Proceed(<<RunHooks("rcpt_ok", <<>>)>>)
    BY <1>4, <1>10, <1>24, <2>2, StageNext DEF Hooks
  <2>3. CASE Proceed(<<Respond(<<Set("pop")>>)>>)
    BY <1>4, <1>9, <1>24, <2>3, StageReplies, RepliesListed
  <2> QED
    BY <2>1, <2>2, <2>3
<1>25. CASE h = "rcpt_ok" /\ ~Denied(r)
  <2>1. Proceed(<<Respond(<<Set("accept")>>)>>)
    BY <1>7, <1>25 DEF Outcome, rcpt_ok_respond
  <2> QED
    BY <1>4, <1>9, <1>25, <2>1, StageReplies, RepliesListed
<1>26. CASE h \in {"data_post", "queue", "queue_outbound"} /\ Denied(r)
  <2>1. Proceed(Refuse(r, Close)) /\ awaiting' = awaiting
    BY <1>4, <1>7, <1>26 DEF Outcome, data_post_respond, queue_respond, queue_outbound_respond, Denied
  <2> QED
    BY <1>8, <1>26, <2>1, StageReplies, RepliesListed
<1>27. CASE h = "data_post" /\ ~Denied(r)
  <2> PICK hook : hook = (IF relaying THEN "queue_outbound" ELSE "queue")
    OBVIOUS
  <2>1. Proceed(<<RunHooks(hook, <<>>)>>) /\ hook \in {"queue", "queue_outbound"}
    BY <1>7, <1>27 DEF Outcome, data_post_respond
  <2>2. hook \in Hooks \ {"deny", "reset_transaction"} /\ (Stage(h, x.cb) => Stage(hook, <<>>))
    BY <1>27, <2>1, StageNext DEF Hooks
  <2> QED
    BY <1>4, <1>10, <1>27, <2>1, <2>2
<1>28. CASE h \in {"queue", "queue_outbound"} /\ r = "OK"
  <2>1. Proceed(<<RunHooks("queue_ok", <<>>)>>) /\ awaiting' = awaiting
    BY <1>4, <1>7, <1>28 DEF Outcome, queue_respond, queue_outbound_respond, Denied
  <2> QED
    BY <1>10, <1>28, <2>1, StageNext DEF Hooks
<1>29. CASE h = "queue" /\ ~Denied(r) /\ r # "OK"
  <2>1. Proceed(<<Respond(Close)>>)
    BY <1>7, <1>29 DEF Outcome, queue_respond
  <2> QED
    BY <1>4, <1>9, <1>29, <2>1, StageReplies, RepliesListed
<1>30. CASE h = "queue_outbound" /\ r = "CONT"
  <2>1. Proceed(<<>>) /\ awaiting' = awaiting \cup {"send_email"}
    BY <1>3, <1>7, <1>30 DEF Outcome, queue_outbound_respond, Denied, Awaited
  <2>2. Stage(h, x.cb) => Waiting("send_email")
    BY <1>30, StageNext DEF Waiting
  <2> QED
    BY <1>11, <2>1, <2>2
<1>31. CASE h = "queue_ok"
  <2>1. Proceed(<<Respond(Close)>>)
    BY <1>7, <1>31 DEF Outcome, queue_ok_respond
  <2> QED
    BY <1>4, <1>9, <1>31, <2>1, StageReplies, RepliesListed
<1>32. CASE h \notin {"connect_init", "lookup_rdns", "connect", "helo", "ehlo", "capabilities", "rset", "mail",
                      "rcpt", "rcpt_ok", "data", "data_post", "max_data_exceeded", "queue", "queue_outbound",
                      "queue_ok"}
  <2>1. Proceed(unrecognized_command_respond(r)) /\ awaiting' = awaiting
    BY <1>4, <1>7, <1>32 DEF Outcome
  <2>2. Stage(h, x.cb) => Replying(<<>>)
    <3>1. Stage(h, x.cb) => h = "unrecognized_command"
      BY <1>1, <1>32 DEF Stage
    <3> QED
      BY <3>1, StageReplies
  <2>3. CASE Denied(r)
    BY <1>8, <2>1, <2>2, <2>3, RepliesListed DEF unrecognized_command_respond
  <2>4. CASE ~Denied(r)
    BY <1>9, <2>1, <2>2, <2>4, RepliesListed DEF unrecognized_command_respond, Grant
  <2> QED
    BY <2>3, <2>4
<1>33. r \in {"OK", "CONT"} \/ Denied(r) \/ h = None
  BY <1>2 DEF Retvals, Denied
<1> QED
  BY <1>12, <1>13, <1>14, <1>15, <1>16, <1>17, <1>18, <1>19, <1>20, <1>21, <1>22, <1>23, <1>24, <1>25,
     <1>26, <1>27, <1>28, <1>29, <1>30, <1>31, <1>32, <1>33 DEF None
-----------------------------------------------------------------------------
(* The steps that are not a hook's. Who has the turn, by the first call. *)
LEMMA GoingTurn ==
  ASSUME Inv, Followed, agenda # <<>>, NEW x, x = Head(agenda), ~Filler(x), ~Parting(x)
  PROVE  NoneOut /\ Waits = {} /\ Going(x)
<1>1. OneTurn /\ ~Resting
  BY DEF Inv, Resting
<1> QED
  BY <1>1 DEF OneTurn

LEMMA StagePaused ==
  ASSUME NEW hook, NEW cb, Stage(hook, cb)
  PROVE  /\ Paused /\ hook # None
         /\ Before({None, "CMD", "PAUSE_SMTP", "DATA"})
BY DEF Stage, Paused, Before, Suspended, Received, None

LEMMA TurnPaused ==
  ASSUME NEW hook, NEW cb, Turned(hook, cb)
  PROVE  Paused /\ Before({None, "CMD", "PAUSE_SMTP", "DATA"})
BY StagePaused DEF Turned

LEMMA WaitPaused ==
  ASSUME NEW what, Waiting(what)
  PROVE  Paused /\ Before({None, "CMD", "PAUSE_SMTP", "DATA"})
BY StagePaused DEF Waiting

LEMMA TurnKept ==
  ASSUME NEW hook, NEW cb, UNCHANGED <<state, prev_state, transaction, owed, deny_respond>>
  PROVE  Turned(hook, cb)' <=> Turned(hook, cb)
BY StageKept DEF Turned

LEMMA WaitKept ==
  ASSUME NEW what, UNCHANGED <<state, prev_state, transaction, owed>>
  PROVE  Waiting(what)' <=> Waiting(what)
BY StageKept DEF Waiting

(* A call that was left over is gone. *)
LEMMA LeftOver ==
  ASSUME Inv, agenda # <<>>, NEW x, x = Head(agenda), Filler(x)
  PROVE  /\ Resting /\ Listed(Tail(agenda)) /\ Filled(Tail(agenda))
         /\ agenda = Push(x, Tail(agenda))
         /\ x.op \notin {"_process_data", "respond"} => (DrivenBy(agenda) => DrivenBy(Tail(agenda)))
         /\ x.op # "resume" => (HasOp(agenda, {"resume"}) => HasOp(Tail(agenda), {"resume"}))
<1>1. Listed(Tail(agenda)) /\ Filled(Tail(agenda)) /\ agenda = Push(x, Tail(agenda))
  BY Top DEF Inv, Typed
<1>2. DrivenBy(Push(x, Tail(agenda))) <=> x.op \in {"_process_data", "respond"} \/ DrivenBy(Tail(agenda))
  BY <1>1, DrivenPush
<1>3. HasOp(Push(x, Tail(agenda)), {"resume"}) <=> x.op \in {"resume"} \/ HasOp(Tail(agenda), {"resume"})
  BY <1>1, HasPush
<1> QED
  BY <1>1, <1>2, <1>3 DEF Resting

(* Whoever has the turn keeps it. *)
LEMMA RestsOn ==
  ASSUME Inv, Resting, Listed(agenda'), Filled(agenda'),
         Followed /\ Resuming /\ HasOp(agenda, {"resume"}) => HasOp(agenda', {"resume"}),
         UNCHANGED <<state, prev_state, transaction, owed, deny_respond, derailed>>, CallsTyped',
         \A i \in 1..MaxCalls : (Out(i)' <=> Out(i)) /\ (Out(i) => calls'[i] = calls[i]),
         crashed' <=> crashed, Waits' = Waits, input' \in Seq(Line), crashed => agenda' = <<>>,
         state \in {"CMD", "LOOP", "DATA"} /\ ~derailed /\ ~crashed => Driven'
  PROVE  Inv'
<1>1. Resting' /\ Shape'
  BY NextResting
<1>2. Typed'
  BY DEF Inv, Typed
<1>3. Followed' => OneTurn'
  <2> SUFFICES ASSUME Followed' PROVE OneTurn'
    OBVIOUS
  <2>1. Followed
    BY DEF Followed, Stopped
  <2>2. OneTurn
    BY <2>1 DEF Inv
  <2>3. CASE NoneOut /\ Waits = {} /\ (Listening \/ Resuming)
    <3>1. NoneOut'
      BY <2>3 DEF NoneOut
    <3>2. Listening => Listening'
      BY DEF Listening, Unpaused, Before, Agreed, Kept, Granted, Mailing
    <3>3. Resuming => Resuming'
      BY <2>1 DEF Resuming, Agreed, Kept, HasOp
    <3> QED
      BY <1>1, <2>3, <3>1, <3>2, <3>3 DEF OneTurn
  <2>4. CASE /\ Waits = {}
             /\ \E i \in 1..MaxCalls : /\ Out(i) /\ Turned(calls[i].hook, calls[i].cb)
                                       /\ \A j \in 1..MaxCalls : Out(j) => j = i
    <3> PICK i \in 1..MaxCalls : /\ Out(i) /\ Turned(calls[i].hook, calls[i].cb)
                                 /\ \A j \in 1..MaxCalls : Out(j) => j = i
      BY <2>4
    <3>1. Out(i)' /\ \A j \in 1..MaxCalls : Out(j)' => j = i
      OBVIOUS
    <3> PICK h, cb : h = calls[i].hook /\ cb = calls[i].cb
      OBVIOUS
    <3>2. Turned(h, cb)'
      BY TurnKept
    <3>3. Turned(calls[i].hook, calls[i].cb)'
      BY <3>2 DEF Turned
    <3> QED
      BY <1>1, <2>4, <3>1, <3>3 DEF OneTurn
  <2>5. CASE NoneOut /\ \E what \in Waits : Waits = {what} /\ Waiting(what)
    <3> PICK what \in Waits : Waits = {what} /\ Waiting(what)
      BY <2>5
    <3>1. NoneOut' /\ Waiting(what)'
      BY <2>5, WaitKept DEF NoneOut
    <3> QED
      BY <1>1, <3>1 DEF OneTurn
  <2> QED
    BY <2>2, <2>3, <2>4, <2>5 DEF OneTurn
<1>4. (state = "LOOP" /\ ~derailed /\ ~crashed => Looping)'
  BY <1>1 DEF Inv, Looping, LoopsOn, Leaving
<1>5. Ending'
  BY <1>1 DEF Ending, EndsOn
<1> QED
  BY <1>1, <1>2, <1>3, <1>4, <1>5 DEF Inv

(* Another call goes on. *)
LEMMA GoesOn ==
  ASSUME Inv, ~crashed, ~crashed', NEW y, NEW s, Listed(s), agenda' = Push(y, s), ~Filler(y), ShapeOf(Push(y, s)),
         UNCHANGED <<calls, deny_respond, awaiting>>,
         transaction' \in [open : BOOLEAN, rcpt_to : Int, accept : Nat, resetting : BOOLEAN],
         owed' \in Int, input' \in Seq(Line),
         Followed' => Parting(y) \/ (NoneOut /\ Waits = {} /\ Going(y)'),
         state' = "LOOP" /\ ~derailed' =>
           /\ ~transaction'.open /\ Waits = {} /\ LoopsOn(y)'
           /\ \A i \in 1..MaxCalls : Out(i) => Leaving(calls[i].hook),
         Stopped' /\ ~derailed' => EndsOn(y),
         state' \in {"CMD", "LOOP", "DATA"} /\ ~derailed' => Driven'
  PROVE  Inv'
<1>1. Listed(agenda') /\ ~Resting' /\ Head(agenda') = y /\ agenda' # <<>>
  BY NextGoing
<1>2. Typed'
  BY <1>1 DEF Inv, Typed, CallsTyped
<1>3. Shape'
  BY DEF Shape
<1>4. Followed' => OneTurn'
  <2>1. NoneOut => NoneOut'
    BY DEF NoneOut, Out
  <2>2. Waits' = Waits
    BY DEF Waits
  <2>3. Parting(y) => Parting(y)'
    BY DEF Parting
  <2> QED
    BY <1>1, <2>1, <2>2, <2>3 DEF OneTurn
<1>5. (state = "LOOP" /\ ~derailed /\ ~crashed => Looping)'
  BY <1>1 DEF Looping, Waits, Out, Leaving, LoopsOn
<1>6. (Stopped /\ ~derailed /\ ~crashed => Ending)'
  BY <1>1 DEF Ending, EndsOn
<1> QED
  BY <1>2, <1>3, <1>4, <1>5, <1>6 DEF Inv

LEMMA RestOn ==
  ASSUME Inv, Resting, Listed(agenda'), Filled(agenda'),
         Followed /\ Resuming /\ HasOp(agenda, {"resume"}) => HasOp(agenda', {"resume"}),
         UNCHANGED <<state, prev_state, transaction, owed, calls, deny_respond, derailed>>,
         crashed' <=> crashed, Waits' = Waits, input' \in Seq(Line), crashed => agenda' = <<>>,
         state \in {"CMD", "LOOP", "DATA"} /\ ~derailed /\ ~crashed => Driven'
  PROVE  Inv'
<1>1. CallsTyped'
  BY DEF Inv, Typed, CallsTyped
<1>2. \A i \in 1..MaxCalls : (Out(i)' <=> Out(i)) /\ (Out(i) => calls'[i] = calls[i])
  BY DEF Out
<1> QED
  BY <1>1, <1>2, RestsOn

(* Nothing does: it is the client's turn, or will be. *)
LEMMA ComesToRest ==
  ASSUME Inv, ~crashed, ~crashed', NEW s, Listed(s), Filled(s), agenda' = s,
         UNCHANGED <<calls, deny_respond>>, Waits' = Waits,
         transaction' \in [open : BOOLEAN, rcpt_to : Int, accept : Nat, resetting : BOOLEAN],
         owed' \in Int, input' \in Seq(Line),
         Followed' => NoneOut /\ Waits = {} /\ (Listening' \/ Resuming'),
         state' = "LOOP" /\ ~derailed' =>
           /\ ~transaction'.open /\ Waits = {}
           /\ \A i \in 1..MaxCalls : Out(i) => Leaving(calls[i].hook),
         state' \in {"CMD", "LOOP", "DATA"} /\ ~derailed' => Driven'
  PROVE  Inv'
<1>1. Listed(agenda') /\ Resting' /\ Shape'
  BY NextResting
<1>2. Typed'
  BY <1>1 DEF Inv, Typed, CallsTyped
<1>3. Followed' => OneTurn'
  <2>1. NoneOut => NoneOut'
    BY DEF NoneOut, Out
  <2> QED
    BY <1>1, <2>1 DEF OneTurn
<1>4. (state = "LOOP" /\ ~derailed /\ ~crashed => Looping)'
  BY <1>1 DEF Looping, Out, Leaving
<1>5. Ending'
  BY <1>1 DEF Ending
<1> QED
  BY <1>1, <1>2, <1>3, <1>4, <1>5 DEF Inv

(* What a call that goes on leaves below it. *)
LEMMA Below ==
  ASSUME Inv, agenda # <<>>, NEW x, x = Head(agenda), x.op \notin {"set", "_process_data", "resume"},
         NEW t, t = Tail(agenda)
  PROVE  /\ Listed(t) /\ Filled(t) /\ Single(x) /\ ~Filler(x) /\ ~Resting /\ ~crashed
         /\ x.op # "respond" => (DrivenBy(agenda) => DrivenBy(t))
<1>1. Listed(t) /\ Filled(t) /\ agenda = Push(x, t) /\ Single(x) /\ ~Filler(x)
  BY Top DEF Inv, Typed
<1>2. DrivenBy(Push(x, t)) <=> x.op \in {"_process_data", "respond"} \/ DrivenBy(t)
  BY <1>1, DrivenPush
<1> QED
  BY <1>1, <1>2 DEF Inv, Typed, Resting

LEMMA Transactions ==
  /\ NoTransaction \in [open : BOOLEAN, rcpt_to : Int, accept : Nat, resetting : BOOLEAN]
  /\ ~NoTransaction.open /\ ~NoTransaction.resetting
BY DEF NoTransaction

LEMMA ProcessDataKeeps == ASSUME Inv, ProcessDataStep PROVE Inv'
<1> PICK x : x = Head(agenda)
  OBVIOUS
<1> PICK t : t = Tail(agenda)
  OBVIOUS
<1>1. agenda # <<>> /\ x.op = "_process_data" /\ Filler(x) /\ ~crashed
  BY DEF ProcessDataStep, At, Next1, Filler, Inv, Typed
<1>2. /\ Resting /\ Listed(t) /\ Filled(t)
      /\ HasOp(agenda, {"resume"}) => HasOp(t, {"resume"})
  BY <1>1, LeftOver
<1>3. UNCHANGED <<state, prev_state, transaction, owed, calls, deny_respond, derailed, crashed>>
  BY DEF ProcessDataStep, hooking, histories
<1>4. input \in Seq(Line)
  BY DEF Inv, Typed
<1>5. CASE (Stopped \/ input = <<>> \/ state = "PAUSE_DATA") /\ Proceed(<<>>) /\ UNCHANGED <<input, awaiting>>
  <2>1. agenda' = t
    BY <1>2, <1>5, Puts DEF Proceed
  <2>2. state \in {"CMD", "LOOP", "DATA"} => Driven'
    BY <1>5 DEF Driven, Stopped
  <2> QED
    BY <1>1, <1>2, <1>3, <1>4, <1>5, <2>1, <2>2, RestOn DEF Waits
<1>6. CASE /\ state \in {"PAUSE", "PAUSE_SMTP"} /\ Proceed(<<>>) /\ UNCHANGED input
           /\ awaiting' = IF Pipelined THEN awaiting ELSE awaiting \cup {"immediate"}
  <2>1. agenda' = t
    BY <1>2, <1>6, Puts DEF Proceed
  <2>2. Waits' = Waits
    BY <1>6 DEF Waits
  <2> QED
    BY <1>1, <1>2, <1>3, <1>4, <1>6, <2>1, <2>2, RestOn
<1>7. CASE /\ input # <<>> /\ state \in {"CMD", "LOOP", "DATA"} /\ input' = Tail(input)
           /\ Proceed(<<ProcessLine(Head(input)), ProcessData>>) /\ UNCHANGED awaiting
  <2> PICK y : y = ProcessLine(Head(input))
    OBVIOUS
  <2> PICK z : z = ProcessData
    OBVIOUS
  <2> PICK s : s = Push(z, t)
    OBVIOUS
  <2>1. y.op = "process_line" /\ z.op = "_process_data"
    BY DEF ProcessLine, ProcessData, Call
  <2>2. <<y, z>> \o t = Push(y, Push(z, t))
    BY <1>2, PutsTwo
  <2>3. agenda' = Push(y, s)
    BY <1>7, <2>2 DEF Proceed
  <2>4. Filler(z)
    BY <2>1 DEF Filler
  <2>5. Listed(s) /\ Filled(s)
    BY <1>2, <2>4, Pushed, FilledPush
  <2>6. DrivenBy(s)
    BY <1>2, <2>1, DrivenPush
  <2>7. DrivenBy(agenda')
    BY <2>3, <2>5, <2>6, DrivenPush
  <2>8. ~Filler(y) /\ ShapeOf(Push(y, s))
    <3>1. ~Filler(y) /\ Single(y)
      BY <2>1 DEF Filler, Single
    <3> QED
      BY <2>5, <3>1, ShapePush
  <2>9. Followed' => NoneOut /\ Waits = {} /\ Going(y)'
    <3> SUFFICES ASSUME Followed' PROVE NoneOut /\ Waits = {} /\ Going(y)'
      OBVIOUS
    <3>1. Followed
      BY <1>3 DEF Followed, Stopped
    <3>2. ~Paused
      BY <1>7 DEF Paused
    <3>3. NoneOut /\ Waits = {} /\ Listening
      BY <1>2, <3>1, <3>2, TurnPaused, WaitPaused DEF Inv, OneTurn, Resuming, Paused
    <3>4. Listening'
      BY <1>3, <3>3 DEF Listening, Unpaused, Before, Agreed, Kept, Granted, Mailing
    <3> QED
      BY <2>1, <3>3, <3>4 DEF Going
  <2>10. state' = "LOOP" /\ ~derailed' =>
           /\ ~transaction'.open /\ Waits = {} /\ LoopsOn(y)'
           /\ \A i \in 1..MaxCalls : Out(i) => Leaving(calls[i].hook)
    BY <1>1, <1>3, <2>1 DEF Inv, Looping, LoopsOn
  <2>11. ~Stopped'
    BY <1>3, <1>7 DEF Stopped
  <2>12. Driven'
    BY <2>7 DEF Driven
  <2>13. input' \in Seq(Line)
    BY <1>4, <1>7, HeadTailProperties
  <2> QED
    BY <1>1, <1>3, <1>7, <2>3, <2>5, <2>8, <2>9, <2>10, <2>11, <2>12, <2>13, GoesOn DEF Inv, Typed
<1> QED
  BY <1>5, <1>6, <1>7 DEF ProcessDataStep

(* A command is taken. *)
LEMMA CommandStep ==
  ASSUME Inv, ProcessLineStep, state = "CMD", state' = "PAUSE_SMTP", owed' = owed + 1,
         NEW y, NEW s, Listed(s), agenda' = Push(y, s), ~Filler(y), ShapeOf(Push(y, s)),
         owed' = 1 /\ Unpaused("PAUSE_SMTP")' /\ Suspended' /\ Agreed' => Going(y)'
  PROVE  Inv'
<1> PICK x : x = Head(agenda)
  OBVIOUS
<1>1. agenda # <<>> /\ x.op = "process_line" /\ ~crashed /\ ~Filler(x) /\ ~Parting(x)
  BY DEF ProcessLineStep, At, Next1, Inv, Typed, Filler, Parting
<1>2. /\ UNCHANGED <<prev_state, input, transaction, awaiting, calls, deny_respond, derailed, crashed>>
  BY DEF ProcessLineStep, hooking, histories
<1>3. Followed' => NoneOut /\ Waits = {} /\ Going(y)'
  <2> SUFFICES ASSUME Followed' PROVE NoneOut /\ Waits = {} /\ Going(y)'
    OBVIOUS
  <2>1. Followed
    BY <1>2 DEF Followed, Stopped
  <2>2. NoneOut /\ Waits = {} /\ Going(x)
    BY <1>1, <2>1, GoingTurn
  <2>3. Listening
    BY <1>1, <2>2 DEF Going, HookOps
  <2>4. owed' = 1 /\ Unpaused("PAUSE_SMTP")' /\ Suspended' /\ Agreed'
    BY <1>2, <2>3 DEF Listening, Unpaused, Before, Suspended, Agreed, Kept
  <2> QED
    BY <2>2, <2>4
<1>4. owed' \in Int
  BY DEF Inv, Typed
<1> QED
  BY <1>1, <1>2, <1>3, <1>4, GoesOn DEF Inv, Typed, Stopped

(* Most commands make one call. *)
LEMMA CommandCalls ==
  ASSUME Inv, ProcessLineStep, state = "CMD", state' = "PAUSE_SMTP", owed' = owed + 1,
         NEW y, Proceed(<<y>>), Single(y), ~Filler(y),
         owed' = 1 /\ Unpaused("PAUSE_SMTP")' /\ Suspended' /\ Agreed' => Going(y)'
  PROVE  Inv'
<1> PICK x : x = Head(agenda)
  OBVIOUS
<1> PICK t : t = Tail(agenda)
  OBVIOUS
<1>1. agenda # <<>> /\ x.op = "process_line"
  BY DEF ProcessLineStep, At, Next1
<1>2. Listed(t) /\ Filled(t)
  BY <1>1, Below
<1>3. agenda' = Push(y, t)
  BY <1>2, Puts DEF Proceed
<1>4. ShapeOf(Push(y, t))
  BY <1>2, ShapePush
<1> QED
  BY <1>2, <1>3, <1>4, CommandStep

LEMMA ClosuresTold ==
  /\ \A hook : \A cb : LET y == RunHooks(hook, cb) IN y.op = "run_hooks" /\ y.hook = hook /\ y.cb = cb
  /\ \A cb : LET y == ResetTransaction(cb) IN y.op = "reset_transaction" /\ y.cb = cb
  /\ \A cb : LET y == Respond(cb) IN y.op = "respond" /\ y.cb = cb
  /\ \A what : LET y == Set(what) IN y.op = "set" /\ y.hook = what
BY DEF RunHooks, ResetTransaction, Respond, Set, Call

LEMMA CommandResets ==
  ASSUME Inv, ProcessLineStep, state = "CMD", state' = "PAUSE_SMTP", owed' = owed + 1,
         NEW cb \in Starts, Proceed(<<ResetTransaction(cb)>>)
  PROVE  Inv'
<1> PICK y : y = ResetTransaction(cb)
  OBVIOUS
<1>1. y.op = "reset_transaction" /\ y.cb = cb
  BY ClosuresTold
<1>2. Single(y) /\ ~Filler(y)
  BY <1>1 DEF Single, Filler, ResetCbs
<1>3. owed' = 1 /\ Unpaused("PAUSE_SMTP")' /\ Suspended' /\ Agreed' => Going(y)'
  BY <1>1 DEF Going, Resetting, Agreed
<1> QED
  BY <1>2, <1>3, CommandCalls

LEMMA CommandHooks ==
  ASSUME Inv, ProcessLineStep, state = "CMD", state' = "PAUSE_SMTP", owed' = owed + 1,
         NEW hook \in Hooks \ {"deny", "reset_transaction"}, Proceed(<<RunHooks(hook, <<>>)>>),
         owed' = 1 /\ Suspended' /\ Agreed' => Stage(hook, <<>>)'
  PROVE  Inv'
<1> PICK y : y = RunHooks(hook, <<>>)
  OBVIOUS
<1>1. y.op = "run_hooks" /\ y.hook = hook /\ y.cb = <<>>
  BY ClosuresTold
<1>2. Single(y) /\ ~Filler(y) /\ y.op \in HookOps
  BY <1>1 DEF Single, Filler, HookOps, Hooked, Told
<1>3. owed' = 1 /\ Suspended' /\ Agreed' => Going(y)'
  <2>1. Stage(hook, <<>>)' => Stage(y.hook, y.cb)'
    BY <1>1 DEF Stage
  <2> QED
    BY <1>1, <1>2, <2>1 DEF Going, Turned
<1> QED
  BY <1>2, <1>3, CommandCalls

LEMMA CommandRefused ==
  ASSUME Inv, ProcessLineStep, state = "CMD", state' = "PAUSE_SMTP", owed' = owed + 1,
         Proceed(<<Respond(<<>>)>>)
  PROVE  Inv'
<1> PICK y : y = Respond(<<>>)
  OBVIOUS
<1>1. y.op = "respond" /\ y.cb = <<>>
  BY ClosuresTold
<1>2. Single(y) /\ ~Filler(y)
  BY <1>1 DEF Single, Filler, Replies
<1>3. owed' = 1 /\ Unpaused("PAUSE_SMTP")' /\ Suspended' /\ Agreed' => Going(y)'
  BY <1>1 DEF Going, Replying, Paused, Agreed, Unpaused, Before
<1> QED
  BY <1>2, <1>3, CommandCalls

LEMMA CommandRcpt ==
  ASSUME Inv, ProcessLineStep, state = "CMD", state' = "PAUSE_SMTP", owed' = owed + 1,
         transaction.open, Proceed(<<Set("rcpt"), RunHooks("rcpt", <<>>)>>)
  PROVE  Inv'
<1> PICK x : x = Head(agenda)
  OBVIOUS
<1> PICK t : t = Tail(agenda)
  OBVIOUS
<1> PICK y : y = Set("rcpt")
  OBVIOUS
<1> PICK z : z = RunHooks("rcpt", <<>>)
  OBVIOUS
<1> PICK s : s = Push(z, t)
  OBVIOUS
<1>1. agenda # <<>> /\ x.op = "process_line"
  BY DEF ProcessLineStep, At, Next1
<1>2. Listed(t) /\ Filled(t)
  BY <1>1, Below
<1>3. y.op = "set" /\ y.hook = "rcpt"
  BY ClosuresTold
<1>4. <<y, z>> \o t = Push(y, Push(z, t))
  BY <1>2, PutsTwo
<1>5. agenda' = Push(y, s)
  BY <1>4 DEF Proceed
<1>6. Follows(y.hook, z)
  BY <1>3 DEF Follows
<1>7. ShapeOf(Push(y, s)) /\ Listed(s)
  BY <1>2, <1>3, <1>6, ShapePair, Pushed
<1>8. ~Filler(y)
  BY <1>3 DEF Filler
<1>9. Suspended' /\ Agreed' /\ owed' = 1 => Going(y)'
  <2>1. transaction' = transaction /\ transaction.accept \in Nat
    BY DEF ProcessLineStep, Inv, Typed
  <2>2. Agreed' => Kept' /\ Mailing(0)'
    BY <2>1 DEF Agreed, Mailing
  <2> QED
    BY <1>3, <2>2 DEF Going, Setting
<1> QED
  BY <1>5, <1>7, <1>8, <1>9, CommandStep

LEMMA CommandTaken ==
  ASSUME Inv, ProcessLineStep, state = "CMD", state' = "PAUSE_SMTP", owed' = owed + 1,
         NEW line, Proceed(Command(line))
  PROVE  Inv'
<1>1. transaction' = transaction /\ transaction.rcpt_to \in Int /\ transaction.accept \in Nat
  BY DEF ProcessLineStep, Inv, Typed
<1>2. CASE line = "HELO"
  <2>1. Proceed(<<ResetTransaction(<<Set("HELO"), RunHooks("helo", <<>>)>>)>>)
    BY <1>2 DEF Command, cmd_helo
  <2> QED
    BY <2>1, CommandResets DEF Starts
<1>3. CASE line = "EHLO"
  <2>1. Proceed(<<ResetTransaction(<<Set("EHLO"), RunHooks("ehlo", <<>>)>>)>>)
    BY <1>3 DEF Command, cmd_ehlo
  <2> QED
    BY <2>1, CommandResets DEF Starts
<1>4. CASE line = "MAIL"
  <2>1. \/ Proceed(<<Respond(<<>>)>>)
        \/ Proceed(<<ResetTransaction(<<Set("transaction"), RunHooks("mail", <<>>)>>)>>)
    BY <1>4 DEF Command, cmd_mail
  <2>2. CASE Proceed(<<ResetTransaction(<<Set("transaction"), RunHooks("mail", <<>>)>>)>>)
    BY <2>2, CommandResets DEF Starts
  <2> QED
    BY <2>1, <2>2, CommandRefused
<1>5. CASE line = "RCPT"
  <2>1. \/ Proceed(<<Respond(<<>>)>>)
        \/ transaction.open /\ Proceed(<<Set("rcpt"), RunHooks("rcpt", <<>>)>>)
    BY <1>5 DEF Command, cmd_rcpt
  <2> QED
    BY <2>1, CommandRefused, CommandRcpt
<1>6. CASE line = "DATA"
  <2>1. \/ Proceed(<<Respond(<<>>)>>)
        \/ transaction.open /\ transaction.rcpt_to # 0 /\ Proceed(<<RunHooks("data", <<>>)>>)
    BY <1>6 DEF Command, cmd_data
  <2>2. CASE transaction.open /\ transaction.rcpt_to # 0 /\ Proceed(<<RunHooks("data", <<>>)>>)
    <3>1. Agreed' => Granted'
      BY <1>1, <2>2 DEF Agreed, Granted, Mailing
    <3>2. owed' = 1 /\ Suspended' /\ Agreed' => Stage("data", <<>>)'
      BY <3>1 DEF Stage, Agreed
    <3> QED
      BY <2>2, <3>2, CommandHooks DEF Hooks
  <2> QED
    BY <2>1, <2>2, CommandRefused
<1>7. CASE line = "RSET"
  <2>1. Proceed(<<RunHooks("rset", <<>>)>>)
    BY <1>7 DEF Command, cmd_rset
  <2>2. owed' = 1 /\ Suspended' /\ Agreed' => Stage("rset", <<>>)'
    BY DEF Stage
  <2> QED
    BY <2>1, <2>2, CommandHooks DEF Hooks
<1>8. CASE line = "QUIT"
  <2>1. Proceed(<<RunHooks("quit", <<>>)>>)
    BY <1>8 DEF Command, cmd_quit
  <2>2. owed' = 1 /\ Suspended' /\ Agreed' => Stage("quit", <<>>)'
    BY DEF Stage
  <2> QED
    BY <2>1, <2>2, CommandHooks DEF Hooks
<1>9. CASE line \notin {"HELO", "EHLO", "MAIL", "RCPT", "DATA", "RSET", "QUIT"}
  <2>1. Proceed(<<RunHooks("unrecognized_command", <<>>)>>)
    BY <1>9 DEF Command
  <2>2. owed' = 1 /\ Suspended' /\ Agreed' => Stage("unrecognized_command", <<>>)'
    BY DEF Stage
  <2> QED
    BY <2>1, <2>2, CommandHooks DEF Hooks
<1> QED
  BY <1>2, <1>3, <1>4, <1>5, <1>6, <1>7, <1>8, <1>9

LEMMA ProcessLineKeeps == ASSUME Inv, ProcessLineStep PROVE Inv'
<1> PICK x : x = Head(agenda)
  OBVIOUS
<1> PICK t : t = Tail(agenda)
  OBVIOUS
<1>1. agenda # <<>> /\ x.op = "process_line" /\ x = Next1 /\ ~Parting(x)
  BY DEF ProcessLineStep, At, Next1, Parting
<1>2. Listed(t) /\ Filled(t) /\ ~Filler(x) /\ ~crashed /\ ~Resting /\ (DrivenBy(agenda) => DrivenBy(t))
  BY <1>1, Below
<1>3. /\ UNCHANGED <<prev_state, input, transaction, awaiting, calls, deny_respond, derailed, crashed>>
  BY DEF ProcessLineStep, hooking, histories
<1>4. Followed => NoneOut /\ Waits = {} /\ Listening
  BY <1>1, <1>2, GoingTurn DEF Going, HookOps
<1>5. owed \in Int /\ owed + 1 \in Int
  BY DEF Inv, Typed
<1>6. CASE state = "CMD" /\ state' = "PAUSE_SMTP" /\ owed' = owed + 1 /\ Proceed(Command(x.hook))
  BY <1>6, CommandTaken
<1>7. ASSUME state = "LOOP", state' = "LOOP", owed' = owed + 1, NEW y, Proceed(<<y>>), Single(y), ~Filler(y),
             \/ y.op = "respond" /\ y.cb = <<>>
             \/ y.op = "run_hooks" /\ y.hook = "quit"
      PROVE  Inv'
  <2>1. agenda' = Push(y, t)
    BY <1>2, <1>7, Puts DEF Proceed
  <2>2. ShapeOf(Push(y, t))
    BY <1>2, <1>7, ShapePush
  <2>3. LoopsOn(y)'
    BY <1>7 DEF LoopsOn, HookOps, Leaving
  <2>4. DrivenBy(agenda) => DrivenBy(agenda')
    BY <1>2, <2>1, DrivenPush
  <2>5. ~Followed' /\ ~Stopped'
    BY <1>7 DEF Followed, Stopped
  <2>6. ~derailed' => Driven'
    BY <1>2, <1>3, <1>7, <2>4 DEF Inv, Driven
  <2>7. ~derailed' => /\ ~transaction'.open /\ Waits = {}
                      /\ \A i \in 1..MaxCalls : Out(i) => Leaving(calls[i].hook)
    BY <1>2, <1>3, <1>7 DEF Inv, Looping
  <2> QED
    BY <1>2, <1>3, <1>5, <1>7, <2>1, <2>2, <2>3, <2>5, <2>6, <2>7, GoesOn DEF Inv, Typed
<1>8. CASE /\ state = "LOOP" /\ state' = state /\ owed' = owed + 1
           /\ Proceed(IF x.hook = "QUIT" THEN cmd_quit ELSE <<Respond(<<>>)>>)
  <2>1. CASE x.hook = "QUIT"
    <3> PICK y : y = RunHooks("quit", <<>>)
      OBVIOUS
    <3>1. y.op = "run_hooks" /\ y.hook = "quit" /\ y.cb = <<>>
      BY ClosuresTold
    <3>2. Proceed(<<y>>)
      BY <1>8, <2>1 DEF cmd_quit
    <3>3. Single(y) /\ ~Filler(y)
      BY <3>1 DEF Single, Filler, HookOps, Hooked, Told, Hooks
    <3> QED
      BY <1>7, <1>8, <3>1, <3>2, <3>3
  <2>2. CASE x.hook # "QUIT"
    <3> PICK y : y = Respond(<<>>)
      OBVIOUS
    <3>1. y.op = "respond" /\ y.cb = <<>>
      BY ClosuresTold
    <3>2. Proceed(<<y>>)
      BY <1>8, <2>2
    <3>3. Single(y) /\ ~Filler(y)
      BY <3>1 DEF Single, Filler, Replies
    <3> QED
      BY <1>7, <1>8, <3>1, <3>2, <3>3
  <2> QED
    BY <2>1, <2>2
<1>9. CASE state = "DATA" /\ UNCHANGED state /\ owed' = owed + 1 /\ Proceed(<<Call("data_done", None, None, <<>>)>>)
  <2> PICK y : y = Call("data_done", None, None, <<>>)
    OBVIOUS
  <2>1. y.op = "data_done"
    BY DEF Call
  <2>2. Single(y) /\ ~Filler(y)
    BY <2>1 DEF Single, Filler
  <2>3. agenda' = Push(y, t)
    BY <1>2, <1>9, Puts DEF Proceed
  <2>4. ShapeOf(Push(y, t))
    BY <1>2, <2>2, ShapePush
  <2>5. DrivenBy(agenda) => DrivenBy(agenda')
    BY <1>2, <2>3, DrivenPush
  <2>6. ~derailed' => Driven'
    BY <1>2, <1>3, <1>9, <2>5 DEF Inv, Driven
  <2>7. Followed' => NoneOut /\ Waits = {} /\ Going(y)'
    <3> SUFFICES ASSUME Followed' PROVE NoneOut /\ Waits = {} /\ Going(y)'
      OBVIOUS
    <3>1. Followed
      BY <1>3, <1>9 DEF Followed, Stopped
    <3>2. owed = 0 /\ Granted
      BY <1>4, <1>9, <3>1 DEF Listening, Unpaused
    <3>3. Granted'
      BY <1>3, <3>2 DEF Granted, Kept, Mailing
    <3> QED
      BY <1>4, <1>9, <2>1, <3>1, <3>2, <3>3 DEF Going
  <2>8. ~Stopped' /\ state' # "LOOP"
    BY <1>9 DEF Stopped
  <2> QED
    BY <1>2, <1>3, <1>5, <1>9, <2>2, <2>3, <2>4, <2>6, <2>7, <2>8, GoesOn DEF Inv, Typed
<1>10. CASE state = "DATA" /\ UNCHANGED <<state, owed>> /\ Proceed(<<>>)
  <2>1. agenda' = t
    BY <1>2, <1>10, Puts DEF Proceed
  <2>2. Waits' = Waits
    BY <1>3 DEF Waits
  <2>3. Followed' => NoneOut /\ Waits = {} /\ Listening'
    <3> SUFFICES ASSUME Followed' PROVE NoneOut /\ Waits = {} /\ Listening'
      OBVIOUS
    <3>1. Followed
      BY <1>3, <1>10 DEF Followed, Stopped
    <3> QED
      BY <1>3, <1>4, <1>10, <3>1 DEF Listening, Unpaused, Before, Agreed, Granted, Kept, Mailing
  <2>4. ~derailed' => Driven'
    BY <1>2, <1>3, <1>10, <2>1 DEF Inv, Driven
  <2> QED
    BY <1>2, <1>3, <1>5, <1>10, <2>1, <2>2, <2>3, <2>4, ComesToRest DEF Inv, Typed
<1> QED
  BY <1>1, <1>6, <1>8, <1>9, <1>10 DEF ProcessLineStep

(* Which turn a closure was told in. *)
LEMMA ReplyingNone ==
  ASSUME Replying(<<>>)
  PROVE  owed = 1 /\ Kept /\ Before({None, "PAUSE_SMTP"}) /\ Agreed
<1>1. \A y : <<>> # <<y>>
  OBVIOUS
<1>2. <<>> # Rejected /\ <<>> # Abandon /\ <<>> # Close
  BY <1>1 DEF Rejected, Abandon, Close
<1> QED
  BY <1>1, <1>2 DEF Replying

LEMMA ReplyingCall ==
  ASSUME NEW y, Replying(<<y>>)
  PROVE  /\ owed = 1 /\ Kept
         /\ y.op = "set" /\ y.hook = "no hello" => Before({None, "PAUSE_SMTP"}) /\ Agreed
         /\ y.op = "set" /\ y.hook \in {"pop", "accept"} => Before({None, "PAUSE_SMTP"}) /\ Mailing(1)
         /\ y.op = "set" /\ y.hook = "data" => Before({None, "PAUSE_SMTP"}) /\ Granted
         /\ y.op = "reset_transaction" =>
              Before({None, "PAUSE_SMTP", "DATA"}) /\ (prev_state = "DATA" => transaction.open)
<1>1. <<y>> # <<>> /\ \A z : <<y>> = <<z>> => y = z
  OBVIOUS
<1>2. \A a, b : <<y>> # <<a, b>>
  OBVIOUS
<1>3. <<y>> # Rejected
  BY <1>2 DEF Rejected
<1>4. /\ <<y>> = <<Set("no hello")>> => y.op = "set" /\ y.hook = "no hello"
      /\ <<y>> = <<Set("pop")>> => y.op = "set" /\ y.hook = "pop"
      /\ <<y>> = <<Set("accept")>> => y.op = "set" /\ y.hook = "accept"
      /\ <<y>> = <<Set("data")>> => y.op = "set" /\ y.hook = "data"
  <2>1. \A what : <<y>> = <<Set(what)>> => y = Set(what)
    BY <1>1
  <2>2. \A what : y = Set(what) => y.op = "set" /\ y.hook = what
    BY DEF Set, Call
  <2> QED
    BY <2>1, <2>2
<1>5. <<y>> \in {Abandon, Close} => y.op = "reset_transaction"
  BY <1>1, ClosuresTold DEF Abandon, Close
<1>6. owed = 1 /\ Kept
  BY DEF Replying
<1>7. y.op = "set" /\ y.hook = "no hello" => Before({None, "PAUSE_SMTP"}) /\ Agreed
  BY <1>1, <1>3, <1>4, <1>5 DEF Replying
<1>8. y.op = "set" /\ y.hook \in {"pop", "accept"} => Before({None, "PAUSE_SMTP"}) /\ Mailing(1)
  BY <1>1, <1>3, <1>4, <1>5 DEF Replying
<1>9. y.op = "set" /\ y.hook = "data" => Before({None, "PAUSE_SMTP"}) /\ Granted
  BY <1>1, <1>3, <1>4, <1>5 DEF Replying
<1>10. y.op = "reset_transaction" =>
         Before({None, "PAUSE_SMTP", "DATA"}) /\ (prev_state = "DATA" => transaction.open)
  BY <1>1, <1>3, <1>4, <1>5 DEF Replying
<1> QED
  BY <1>6, <1>7, <1>8, <1>9, <1>10

LEMMA ReplyingRejected ==
  ASSUME Replying(Rejected)
  PROVE  owed = 1 /\ Kept /\ Before({None, "PAUSE_SMTP", "DATA"}) /\ (prev_state = "DATA" => transaction.open)
<1>1. \A a, b, y : <<a, b>> # <<y>> /\ <<a, b>> # <<>>
  OBVIOUS
<1>2. \A y : Rejected # <<y>> /\ Rejected # <<>>
  BY <1>1 DEF Rejected
<1> QED
  BY <1>2 DEF Replying

(* What follows a reply, and the lines after it. *)
LEMMA RespondForm ==
  ASSUME Inv, RespondStep, NEW x, x = Head(agenda)
  PROVE  \E u : /\ Listed(u) /\ Filled(u) /\ (state # "DISCONNECTED" => DrivenBy(u))
                /\ x.cb = <<>> => agenda' = u
                /\ \A y : x.cb = <<y>> => agenda' = Push(y, u)
                /\ \A y, z : x.cb = <<y, z>> => agenda' = Push(y, Push(z, u))
<1> PICK u : u = IF state = "DISCONNECTED" THEN Tail(agenda) ELSE Push(ProcessData, Tail(agenda))
  OBVIOUS
<1> SUFFICES /\ Listed(u) /\ Filled(u) /\ (state # "DISCONNECTED" => DrivenBy(u))
             /\ x.cb = <<>> => agenda' = u
             /\ \A y : x.cb = <<y>> => agenda' = Push(y, u)
             /\ \A y, z : x.cb = <<y, z>> => agenda' = Push(y, Push(z, u))
  OBVIOUS
<1> PICK t : t = Tail(agenda)
  OBVIOUS
<1> PICK p : p = ProcessData
  OBVIOUS
<1>1. agenda # <<>> /\ x.op = "respond" /\ x = Next1
  BY DEF RespondStep, At, Next1
<1>2. Listed(t) /\ Filled(t)
  BY <1>1, Below
<1>3. p.op = "_process_data" /\ Filler(p)
  BY DEF ProcessData, Call, Filler
<1>4. CASE state = "DISCONNECTED"
  <2>1. agenda' = x.cb \o t /\ u = t
    BY <1>1, <1>4 DEF RespondStep, Proceed
  <2>2. /\ <<>> \o t = t
        /\ \A y : <<y>> \o t = Push(y, t)
    BY <1>2, Puts
  <2>3. \A y, z : <<y, z>> \o t = Push(y, Push(z, t))
    BY <1>2, PutsTwo
  <2> QED
    BY <1>2, <1>4, <2>1, <2>2, <2>3
<1>5. CASE state # "DISCONNECTED"
  <2>1. agenda' = Append(x.cb, p) \o t /\ u = Push(p, t)
    BY <1>1, <1>5 DEF RespondStep, Proceed
  <2>2. Listed(u) /\ Filled(u)
    BY <1>2, <1>3, <2>1, Pushed, FilledPush
  <2>3. DrivenBy(u)
    <3>1. DrivenBy(Push(p, t))
      BY <1>2, <1>3, DrivenPush
    <3> QED
      BY <2>1, <3>1
  <2>4. ASSUME Listed(x.cb) PROVE agenda' = x.cb \o u
    <3>1. agenda' = Behind(x.cb, p, t)
      BY <2>1 DEF Behind
    <3>2. agenda' = On(x.cb, u)
      BY <1>2, <2>1, <2>4, <3>1, AppendedOn
    <3> QED
      BY <3>2 DEF On
  <2>5. x.cb = <<>> => agenda' = u
    BY <2>2, <2>4, ShortListed, Puts
  <2>6. ASSUME NEW y, x.cb = <<y>> PROVE agenda' = Push(y, u)
    <3>1. agenda' = <<y>> \o u
      BY <2>4, <2>6, ShortListed
    <3> QED
      BY <2>2, <3>1, Puts
  <2>7. ASSUME NEW y, NEW z, x.cb = <<y, z>> PROVE agenda' = Push(y, Push(z, u))
    <3>1. agenda' = <<y, z>> \o u
      BY <2>4, <2>7, ShortListed
    <3> QED
      BY <2>2, <3>1, PutsTwo
  <2> QED
    BY <1>5, <2>2, <2>3, <2>5, <2>6, <2>7
<1> QED
  BY <1>4, <1>5

LEMMA RespondTurn ==
  ASSUME Inv, RespondStep, NEW x, x = Head(agenda)
  PROVE  /\ agenda # <<>> /\ x.op = "respond" /\ ~crashed /\ ~crashed' /\ x.cb \in Partings \cup Replies
         /\ UNCHANGED <<prev_state, input, transaction, awaiting, calls, deny_respond>>
         /\ owed' \in Int
         /\ Followed' => /\ state' = "CMD" /\ owed' = owed - 1
                         /\ Parting(x) \/ (NoneOut /\ Waits = {} /\ Replying(x.cb))
         /\ state' = "LOOP" /\ ~derailed' =>
              /\ ~transaction'.open /\ Waits = {} /\ (x.cb \in Partings \/ x.cb = <<>>)
              /\ \A i \in 1..MaxCalls : Out(i) => Leaving(calls[i].hook)
         /\ Stopped' /\ ~derailed' => state = "DISCONNECTED" /\ x.cb # <<Set("data")>>
         /\ state' \in {"CMD", "LOOP", "DATA"} => state # "DISCONNECTED"
<1>1. agenda # <<>> /\ x.op = "respond" /\ x = Next1
  BY DEF RespondStep, At, Next1
<1>2. Single(x) /\ ~Filler(x) /\ ~Resting /\ ~crashed
  BY <1>1, Below
<1>3. /\ UNCHANGED <<prev_state, input, transaction, awaiting, calls, deny_respond, crashed>>
      /\ derailed' = (derailed \/ state = "DISCONNECTING")
  BY DEF RespondStep, session, hooking
<1>4. \/ state = "DISCONNECTED" /\ UNCHANGED <<state, owed>>
      \/ state # "DISCONNECTED" /\ owed' = owed - 1 /\ state' = (IF state = "LOOP" THEN state ELSE "CMD")
  BY DEF RespondStep
<1>5. x.cb \in Partings \cup Replies
  BY <1>1, <1>2 DEF Single, HookOps
<1>6. owed' \in Int
  BY <1>4 DEF Inv, Typed
<1>7. Followed' => /\ state' = "CMD" /\ owed' = owed - 1
                   /\ Parting(x) \/ (NoneOut /\ Waits = {} /\ Replying(x.cb))
  <2> SUFFICES ASSUME Followed' PROVE /\ state' = "CMD" /\ owed' = owed - 1
                                      /\ Parting(x) \/ (NoneOut /\ Waits = {} /\ Replying(x.cb))
    OBVIOUS
  <2>1. Followed /\ state' = "CMD" /\ owed' = owed - 1
    BY <1>3, <1>4 DEF Followed, Stopped
  <2>2. ~Parting(x) => NoneOut /\ Waits = {} /\ Going(x)
    BY <1>1, <1>2, <2>1, GoingTurn
  <2> QED
    BY <1>1, <2>1, <2>2 DEF Going, HookOps
<1>8. state' = "LOOP" /\ ~derailed' =>
              /\ ~transaction'.open /\ Waits = {} /\ (x.cb \in Partings \/ x.cb = <<>>)
              /\ \A i \in 1..MaxCalls : Out(i) => Leaving(calls[i].hook)
  BY <1>1, <1>2, <1>3, <1>4 DEF Inv, Looping, LoopsOn, Parting, HookOps
<1>9. Stopped' /\ ~derailed' => state = "DISCONNECTED" /\ x.cb # <<Set("data")>>
  BY <1>1, <1>2, <1>3, <1>4 DEF Inv, Ending, EndsOn, Stopped
<1>10. state' \in {"CMD", "LOOP", "DATA"} => state # "DISCONNECTED"
  BY <1>4
<1> QED
  BY <1>1, <1>2, <1>3, <1>5, <1>6, <1>7, <1>8, <1>9, <1>10

LEMMA RespondGoes ==
  ASSUME Inv, RespondStep, NEW x, x = Head(agenda),
         NEW y, NEW s, Listed(s), agenda' = Push(y, s), ~Filler(y), ShapeOf(Push(y, s)),
         state # "DISCONNECTED" => DrivenBy(s),
         x.cb # <<>>, x.cb \in Partings => Parting(y),
         x.cb = <<Set("data")>> \/ EndsOn(y),
         Replying(x.cb) /\ state' = "CMD" /\ owed' = owed - 1 /\ UNCHANGED <<prev_state, transaction>> => Going(y)'
  PROVE  Inv'
<1>1. /\ agenda # <<>> /\ x.op = "respond" /\ ~crashed /\ ~crashed'
      /\ UNCHANGED <<prev_state, input, transaction, awaiting, calls, deny_respond>>
      /\ owed' \in Int
      /\ Followed' => /\ state' = "CMD" /\ owed' = owed - 1
                      /\ Parting(x) \/ (NoneOut /\ Waits = {} /\ Replying(x.cb))
      /\ state' = "LOOP" /\ ~derailed' =>
           /\ ~transaction'.open /\ Waits = {} /\ (x.cb \in Partings \/ x.cb = <<>>)
           /\ \A i \in 1..MaxCalls : Out(i) => Leaving(calls[i].hook)
      /\ Stopped' /\ ~derailed' => x.cb # <<Set("data")>>
      /\ state' \in {"CMD", "LOOP", "DATA"} => state # "DISCONNECTED"
  BY RespondTurn
<1>2. Followed' => Parting(y) \/ (NoneOut /\ Waits = {} /\ Going(y)')
  BY <1>1 DEF Parting
<1>3. state' = "LOOP" /\ ~derailed' => LoopsOn(y)'
  BY <1>1 DEF LoopsOn, Parting
<1>4. DrivenBy(s) => DrivenBy(agenda')
  BY DrivenPush
<1>5. state' \in {"CMD", "LOOP", "DATA"} /\ ~derailed' => Driven'
  BY <1>1, <1>4 DEF Driven
<1> QED
  BY <1>1, <1>2, <1>3, <1>5, GoesOn DEF Inv, Typed

LEMMA RespondKeeps == ASSUME Inv, RespondStep PROVE Inv'
<1> PICK x : x = Head(agenda)
  OBVIOUS
<1>1. PICK u :
      /\ Listed(u) /\ Filled(u) /\ (state # "DISCONNECTED" => DrivenBy(u))
      /\ x.cb = <<>> => agenda' = u
      /\ \A y : x.cb = <<y>> => agenda' = Push(y, u)
      /\ \A y, z : x.cb = <<y, z>> => agenda' = Push(y, Push(z, u))
  BY RespondForm
<1>2. /\ agenda # <<>> /\ x.op = "respond" /\ ~crashed /\ ~crashed' /\ x.cb \in Partings \cup Replies
      /\ UNCHANGED <<prev_state, input, transaction, awaiting, calls, deny_respond>>
      /\ owed' \in Int
      /\ Followed' => /\ state' = "CMD" /\ owed' = owed - 1
                      /\ Parting(x) \/ (NoneOut /\ Waits = {} /\ Replying(x.cb))
      /\ state' = "LOOP" /\ ~derailed' =>
           /\ ~transaction'.open /\ Waits = {}
           /\ \A i \in 1..MaxCalls : Out(i) => Leaving(calls[i].hook)
      /\ state' \in {"CMD", "LOOP", "DATA"} => state # "DISCONNECTED"
  BY RespondTurn
<1>3. \A a : <<>> # <<a>>
  OBVIOUS
<1>10. owed = 1 /\ owed' = owed - 1 => owed' = 0
  OBVIOUS
<1>4. CASE x.cb = <<>>
  <2>1. agenda' = u
    BY <1>1, <1>4
  <2>2. ~Parting(x)
    BY <1>2, <1>3, <1>4 DEF Parting, Partings
  <2>3. Followed' => NoneOut /\ Waits = {} /\ Listening'
    <3> SUFFICES ASSUME Followed' PROVE NoneOut /\ Waits = {} /\ Listening'
      OBVIOUS
    <3>1. state' = "CMD" /\ owed' = owed - 1 /\ NoneOut /\ Waits = {} /\ Replying(<<>>)
      BY <1>2, <1>4, <2>2
    <3>2. owed = 1 /\ Kept /\ Before({None, "PAUSE_SMTP"}) /\ Agreed
      BY <3>1, ReplyingNone
    <3> QED
      BY <1>2, <3>1, <3>2 DEF Listening, Unpaused, Before, Agreed, Kept
  <2>4. Waits' = Waits
    BY <1>2 DEF Waits
  <2>5. state' \in {"CMD", "LOOP", "DATA"} /\ ~derailed' => Driven'
    BY <1>1, <1>2, <2>1 DEF Driven
  <2> QED
    BY <1>1, <1>2, <2>1, <2>3, <2>4, <2>5, ComesToRest DEF Inv, Typed
<1>5. ASSUME NEW y, x.cb = <<y>>, Single(y), x.cb \in Partings => Parting(y), x.cb = <<Set("data")>> \/ EndsOn(y),
             Replying(x.cb) /\ state' = "CMD" /\ owed' = owed - 1 /\ UNCHANGED <<prev_state, transaction>> => Going(y)'
      PROVE  Inv'
  <2>1. agenda' = Push(y, u)
    BY <1>1, <1>5
  <2>2. ~Filler(y)
    BY <1>5 DEF Single, Filler, HookOps
  <2>3. ShapeOf(Push(y, u))
    BY <1>1, <1>5, ShapePush
  <2>4. x.cb # <<>>
    BY <1>3, <1>5
  <2> QED
    BY <1>1, <1>5, <2>1, <2>2, <2>3, <2>4, RespondGoes
<1>6. CASE x.cb \in Partings
  <2>1. PICK y \in {Disconnect, Fail} : x.cb = <<y>>
    BY <1>6 DEF Partings
  <2>2. y.op \in {"disconnect", "fail"}
    BY DEF Disconnect, Fail, Call
  <2>3. Single(y) /\ Parting(y) /\ EndsOn(y)
    BY <2>2 DEF Single, Parting, EndsOn
  <2>4. ~Replying(x.cb)
    <3>1. ~Replying(<<y>>)
      <4>1. \A what : <<y>> # <<Set(what)>>
        <5>1. \A what : Set(what).op = "set"
          BY ClosuresTold
        <5> QED
          BY <2>2, <5>1
      <4>2. <<y>> # Abandon /\ <<y>> # Close
        <5>1. \A cb : ResetTransaction(cb).op = "reset_transaction"
          BY ClosuresTold
        <5> QED
          BY <2>2, <5>1 DEF Abandon, Close
      <4>3. <<y>> # <<>> /\ \A a, b : <<y>> # <<a, b>>
        OBVIOUS
      <4> QED
        BY <4>1, <4>2, <4>3 DEF Replying, Rejected
    <3> QED
      BY <2>1, <3>1
  <2> QED
    BY <1>5, <2>1, <2>3, <2>4
<1> SUFFICES ASSUME x.cb \notin Partings PROVE Inv'
  BY <1>6
<1>7. ASSUME NEW what \in {"no hello", "pop", "accept", "data"}, x.cb = <<Set(what)>>
      PROVE  Inv'
  <2> PICK y : y = Set(what)
    OBVIOUS
  <2>1. y.op = "set" /\ y.hook = what
    BY ClosuresTold
  <2>2. x.cb = <<y>> /\ Single(y)
    BY <1>7, <2>1 DEF Single
  <2>3. what = "data" \/ EndsOn(y)
    BY <2>1 DEF EndsOn
  <2>4. ASSUME Replying(x.cb), state' = "CMD", owed' = owed - 1, prev_state' = prev_state, transaction' = transaction
        PROVE  Going(y)'
    <3>1. Replying(<<y>>)
      BY <2>2, <2>4
    <3>2. owed = 1 /\ Kept /\ Before({None, "PAUSE_SMTP"})
          /\ (what = "no hello" => Agreed) /\ (what \in {"pop", "accept"} => Mailing(1)) /\ (what = "data" => Granted)
      BY <2>1, <3>1, ReplyingCall
    <3>7. state' = "CMD" /\ prev_state' = prev_state /\ transaction' = transaction
      BY <2>4
    <3>8. owed = 1
      BY <3>2
    <3>9. owed' = 0
      BY <1>10, <2>4, <3>8
    <3>3. owed' = 0 /\ Kept' /\ Unpaused("CMD")'
      BY <3>2, <3>7, <3>9 DEF Kept, Unpaused, Before
    <3>4. (Agreed => Agreed') /\ (Mailing(1) => Mailing(1)') /\ (Granted => Granted')
      BY <2>4 DEF Agreed, Kept, Granted, Mailing
    <3>5. Setting(what)'
      BY <3>2, <3>3, <3>4 DEF Setting
    <3>6. Setting(y.hook)'
      BY <2>1, <3>5
    <3> QED
      BY <2>1, <3>6 DEF Going
  <2> QED
    BY <1>5, <1>7, <2>2, <2>3, <2>4
<1>8. ASSUME NEW cb \in Endings, x.cb = <<ResetTransaction(cb)>>
      PROVE  Inv'
  <2> PICK y : y = ResetTransaction(cb)
    OBVIOUS
  <2>1. y.op = "reset_transaction" /\ y.cb = cb
    BY ClosuresTold
  <2>2. x.cb = <<y>> /\ Single(y) /\ EndsOn(y)
    BY <1>8, <2>1 DEF Single, EndsOn, ResetCbs
  <2>3. ASSUME Replying(x.cb), state' = "CMD", owed' = owed - 1, prev_state' = prev_state, transaction' = transaction
        PROVE  Going(y)'
    <3>1. Replying(<<y>>)
      BY <2>2, <2>3
    <3>2. /\ owed = 1 /\ Kept /\ Before({None, "PAUSE_SMTP", "DATA"})
          /\ prev_state = "DATA" => transaction.open
      BY <2>1, <3>1, ReplyingCall
    <3> QED
      BY <2>1, <2>3, <3>2 DEF Going, Resetting, Dropping, Before, Kept
  <2> QED
    BY <1>5, <2>2, <2>3
<1>9. CASE x.cb = Rejected
  <2> PICK y : y = Set("msg_status")
    OBVIOUS
  <2> PICK z : z = ResetTransaction(<<Resume>>)
    OBVIOUS
  <2> PICK s : s = Push(z, u)
    OBVIOUS
  <2>1. y.op = "set" /\ y.hook = "msg_status"
    BY ClosuresTold
  <2>2. x.cb = <<y, z>> /\ agenda' = Push(y, s)
    BY <1>1, <1>9 DEF Rejected
  <2>3. ShapeOf(Push(y, s)) /\ Listed(s)
    <3>1. Follows(y.hook, z)
      BY <2>1 DEF Follows
    <3> QED
      BY <1>1, <2>1, <3>1, ShapePair, Pushed
  <2>4. state # "DISCONNECTED" => DrivenBy(s)
    BY <1>1, DrivenPush
  <2>5. ~Filler(y) /\ EndsOn(y)
    BY <2>1 DEF Filler, EndsOn
  <2>6. x.cb # <<>> /\ \A a : x.cb # <<a>>
    BY <2>2
  <2>7. Replying(x.cb) /\ state' = "CMD" /\ owed' = owed - 1 /\ UNCHANGED <<prev_state, transaction>> => Going(y)'
    <3> SUFFICES ASSUME Replying(Rejected), state' = "CMD", owed' = owed - 1, prev_state' = prev_state, transaction' = transaction
                 PROVE  Going(y)'
      BY <1>9
    <3>1. owed = 1 /\ Kept /\ Before({None, "PAUSE_SMTP", "DATA"}) /\ (prev_state = "DATA" => transaction.open)
      BY ReplyingRejected
    <3>2. Dropping'
      BY <3>1 DEF Dropping, Before, Kept
    <3> QED
      BY <2>1, <3>2 DEF Going, Setting
  <2>8. x.cb \notin Partings
    BY <2>6 DEF Partings
  <2> QED
    BY <2>2, <2>3, <2>4, <2>5, <2>6, <2>7, <2>8, RespondGoes
<1> QED
  BY <1>2, <1>4, <1>6, <1>7, <1>8, <1>9 DEF Replies, Abandon, Close, Endings

(* What an assignment changes. *)
LEMMA SetChanges ==
  ASSUME Inv, SetStep, NEW x, x = Head(agenda)
  PROVE  /\ agenda # <<>> /\ x.op = "set" /\ ~crashed
         /\ UNCHANGED <<prev_state, input, awaiting, owed, derailed, calls, deny_respond>>
         /\ state' = IF x.hook = "data" THEN "DATA" ELSE state
         /\ crashed' <=> x.hook = "msg_status" /\ ~transaction.open
         /\ crashed' => agenda' = <<>>
         /\ ~crashed' => agenda' = Tail(agenda)
         /\ x.hook \notin {"transaction", "rcpt", "pop", "accept"} => UNCHANGED transaction
         /\ x.hook = "transaction" => transaction' = [NoTransaction EXCEPT !.open = TRUE]
         /\ x.hook = "rcpt" => transaction' = [transaction EXCEPT !.rcpt_to = @ + 1]
         /\ x.hook = "pop" => transaction' = [transaction EXCEPT !.rcpt_to = @ - 1]
         /\ x.hook = "accept" => transaction' = [transaction EXCEPT !.accept = @ + 1]
<1>1. agenda # <<>> /\ x.op = "set" /\ x = Next1 /\ ~crashed
  BY DEF SetStep, At, Next1, Inv, Typed
<1>2. UNCHANGED <<prev_state, input, awaiting, owed, derailed, calls, deny_respond>>
  BY DEF SetStep, hooking
<1>3. /\ state' = (IF x.hook = "data" THEN "DATA" ELSE state)
      /\ crashed' = (x.hook = "msg_status" /\ ~transaction.open)
      /\ agenda' = IF crashed' THEN <<>> ELSE Tail(agenda)
  BY <1>1 DEF SetStep
<1>4. transaction' =
        CASE x.hook = "transaction" -> [NoTransaction EXCEPT !.open = TRUE]
          [] x.hook = "rcpt" -> [transaction EXCEPT !.rcpt_to = @ + 1]
          [] x.hook = "pop" -> [transaction EXCEPT !.rcpt_to = @ - 1]
          [] x.hook = "accept" -> [transaction EXCEPT !.accept = @ + 1]
          [] OTHER -> transaction
  BY <1>1 DEF SetStep
<1>5. /\ x.hook \notin {"transaction", "rcpt", "pop", "accept"} => UNCHANGED transaction
      /\ x.hook = "transaction" => transaction' = [NoTransaction EXCEPT !.open = TRUE]
      /\ x.hook = "rcpt" => transaction' = [transaction EXCEPT !.rcpt_to = @ + 1]
      /\ x.hook = "pop" => transaction' = [transaction EXCEPT !.rcpt_to = @ - 1]
      /\ x.hook = "accept" => transaction' = [transaction EXCEPT !.accept = @ + 1]
  BY <1>4
<1> QED
  BY <1>1, <1>2, <1>3, <1>5

TransactionType == [open : BOOLEAN, rcpt_to : Int, accept : Nat, resetting : BOOLEAN]

LEMMA SetTransaction ==
  ASSUME NEW tr \in TransactionType
  PROVE  LET opened == [NoTransaction EXCEPT !.open = TRUE]
             more == [tr EXCEPT !.rcpt_to = @ + 1]
             less == [tr EXCEPT !.rcpt_to = @ - 1]
             granted == [tr EXCEPT !.accept = @ + 1]
         IN  /\ {opened, more, less, granted} \subseteq TransactionType
             /\ opened.open /\ opened.rcpt_to = opened.accept + 0 /\ ~opened.resetting
             /\ more.open = tr.open /\ more.resetting = tr.resetting
             /\ tr.rcpt_to = tr.accept + 0 => more.rcpt_to = more.accept + 1
             /\ less.open = tr.open /\ less.resetting = tr.resetting
             /\ tr.rcpt_to = tr.accept + 1 => less.rcpt_to = less.accept
             /\ granted.open = tr.open /\ granted.resetting = tr.resetting
             /\ tr.rcpt_to = tr.accept + 1 => granted.rcpt_to = granted.accept
<1> DEFINE opened == [NoTransaction EXCEPT !.open = TRUE]
           more == [tr EXCEPT !.rcpt_to = @ + 1]
           less == [tr EXCEPT !.rcpt_to = @ - 1]
           granted == [tr EXCEPT !.accept = @ + 1]
<1>1. tr.open \in BOOLEAN /\ tr.rcpt_to \in Int /\ tr.accept \in Nat /\ tr.resetting \in BOOLEAN
  BY DEF TransactionType
<1>2. opened \in TransactionType /\ opened.open /\ opened.rcpt_to = opened.accept + 0 /\ ~opened.resetting
  <2> PICK n : n = NoTransaction
    OBVIOUS
  <2>1. n \in TransactionType /\ n.rcpt_to = 0 /\ n.accept = 0 /\ ~n.resetting
    BY DEF NoTransaction, TransactionType
  <2>2. /\ opened \in TransactionType /\ opened.open /\ opened.resetting = n.resetting
        /\ opened.rcpt_to = n.rcpt_to /\ opened.accept = n.accept
    BY <2>1 DEF TransactionType
  <2> HIDE DEF opened
  <2> QED
    BY <2>1, <2>2
<1>3. /\ more \in TransactionType /\ more.open = tr.open /\ more.resetting = tr.resetting
      /\ more.rcpt_to = tr.rcpt_to + 1 /\ more.accept = tr.accept
  BY DEF TransactionType
<1>4. /\ less \in TransactionType /\ less.open = tr.open /\ less.resetting = tr.resetting
      /\ less.rcpt_to = tr.rcpt_to - 1 /\ less.accept = tr.accept
  BY DEF TransactionType
<1>5. /\ granted \in TransactionType /\ granted.open = tr.open /\ granted.resetting = tr.resetting
      /\ granted.rcpt_to = tr.rcpt_to /\ granted.accept = tr.accept + 1
  BY DEF TransactionType
<1> HIDE DEF opened, more, less, granted
<1>6. /\ tr.rcpt_to = tr.accept + 0 => more.rcpt_to = more.accept + 1
      /\ tr.rcpt_to = tr.accept + 1 => less.rcpt_to = less.accept
      /\ tr.rcpt_to = tr.accept + 1 => granted.rcpt_to = granted.accept
  BY <1>1, <1>3, <1>4, <1>5
<1> QED
  BY <1>2, <1>3, <1>4, <1>5, <1>6 DEF opened, more, less, granted

LEMMA SetTurn ==
  ASSUME Inv, SetStep, NEW x, x = Head(agenda), ~Filler(x)
  PROVE  /\ Followed => NoneOut /\ Waits = {} /\ Setting(x.hook)
         /\ ~(state = "LOOP" /\ ~derailed)
         /\ Stopped /\ ~derailed => x.hook # "data"
<1>1. agenda # <<>> /\ x.op = "set" /\ ~crashed
  BY DEF SetStep, At, Next1, Inv, Typed
<1>2. ~Resting /\ ~Parting(x)
  BY <1>1 DEF Resting, Parting
<1>3. Followed => NoneOut /\ Waits = {} /\ Setting(x.hook)
  BY <1>1, <1>2, GoingTurn DEF Going, HookOps
<1>4. ~(state = "LOOP" /\ ~derailed)
  BY <1>1, <1>2 DEF Inv, Looping, LoopsOn, HookOps
<1>5. Stopped /\ ~derailed => x.hook # "data"
  BY <1>1, <1>2 DEF Inv, Ending, EndsOn
<1> QED
  BY <1>3, <1>4, <1>5

LEMMA SetSingle ==
  ASSUME Inv, SetStep, NEW x, x = Head(agenda), x.hook \in {"no hello", "pop", "accept", "data"},
         NEW t, t = Tail(agenda), Listed(t), Filled(t), agenda = Push(x, t)
  PROVE  Inv'
<1>1. /\ agenda # <<>> /\ x.op = "set" /\ ~crashed
      /\ UNCHANGED <<prev_state, input, awaiting, owed, derailed, calls, deny_respond>>
      /\ state' = IF x.hook = "data" THEN "DATA" ELSE state
      /\ crashed' <=> x.hook = "msg_status" /\ ~transaction.open
      /\ ~crashed' => agenda' = Tail(agenda)
      /\ x.hook \in {"no hello", "data"} => UNCHANGED transaction
      /\ x.hook = "pop" => transaction' = [transaction EXCEPT !.rcpt_to = @ - 1]
      /\ x.hook = "accept" => transaction' = [transaction EXCEPT !.accept = @ + 1]
  BY SetChanges
<1>2. ~Filler(x)
  BY <1>1 DEF Filler
<1>3. /\ Followed => NoneOut /\ Waits = {} /\ Setting(x.hook)
      /\ ~(state = "LOOP" /\ ~derailed)
      /\ Stopped /\ ~derailed => x.hook # "data"
  BY <1>2, SetTurn
<1>4. ~crashed' /\ agenda' = t
  BY <1>1
<1>5. transaction \in TransactionType
  BY DEF Inv, Typed, TransactionType
<1>6. /\ transaction' \in TransactionType
      /\ x.hook \in {"pop", "accept"} =>
           /\ transaction'.open = transaction.open /\ transaction'.resetting = transaction.resetting
           /\ transaction.rcpt_to = transaction.accept + 1 => transaction'.rcpt_to = transaction'.accept
  BY <1>1, <1>5, SetTransaction
<1>7. Waits' = Waits
  BY <1>1 DEF Waits
<1>8. state' \in {"CMD", "LOOP", "DATA"} /\ ~derailed' => Followed
  BY <1>1, <1>3 DEF Followed, Stopped
<1>9. Followed' => NoneOut /\ Waits = {} /\ Listening'
  <2> SUFFICES ASSUME Followed' PROVE NoneOut /\ Waits = {} /\ Listening'
    OBVIOUS
  <2>1. Followed
    BY <1>1, <1>3 DEF Followed, Stopped
  <2>2. NoneOut /\ Waits = {} /\ Setting(x.hook)
    BY <1>3, <2>1
  <2>3. CASE x.hook = "no hello"
    <3>1. owed = 0 /\ Unpaused("CMD") /\ Agreed
      BY <2>2, <2>3 DEF Setting
    <3>2. owed' = 0 /\ Unpaused("CMD")' /\ Agreed'
      BY <1>1, <2>3, <3>1 DEF Unpaused, Before, Agreed, Kept
    <3> QED
      BY <2>2, <3>2 DEF Listening
  <2>4. CASE x.hook \in {"pop", "accept"}
    <3>1. owed = 0 /\ Unpaused("CMD") /\ Kept /\ Mailing(1)
      BY <2>2, <2>4 DEF Setting
    <3>2. owed' = 0 /\ Unpaused("CMD")'
      BY <1>1, <2>4, <3>1 DEF Unpaused, Before
    <3>3. Agreed'
      BY <1>6, <2>4, <3>1 DEF Agreed, Kept, Mailing
    <3> QED
      BY <2>2, <3>2, <3>3 DEF Listening
  <2>5. CASE x.hook = "data"
    <3>1. owed = 0 /\ Unpaused("CMD") /\ Granted
      BY <2>2, <2>5 DEF Setting
    <3>2. owed' = 0 /\ Unpaused("DATA")' /\ Granted'
      BY <1>1, <2>5, <3>1 DEF Unpaused, Before, Granted, Kept, Mailing
    <3> QED
      BY <2>2, <3>2 DEF Listening
  <2> QED
    BY <2>3, <2>4, <2>5
<1>10. state' \in {"CMD", "LOOP", "DATA"} /\ ~derailed' => Driven'
  <2> SUFFICES ASSUME state' \in {"CMD", "LOOP", "DATA"}, ~derailed' PROVE Driven'
    OBVIOUS
  <2>1. state \in {"CMD", "LOOP", "DATA"}
    <3>1. Followed
      BY <1>8
    <3>2. CASE x.hook = "data"
      BY <1>3, <3>1, <3>2 DEF Setting, Unpaused
    <3> QED
      BY <1>1, <3>2
  <2>2. DrivenBy(Push(x, t)) => DrivenBy(t)
    BY <1>1, DrivenPush
  <2> QED
    BY <1>1, <1>4, <2>1, <2>2 DEF Inv, Driven
<1>11. ~(state' = "LOOP" /\ ~derailed')
  BY <1>1, <1>3
<1> QED
  BY <1>1, <1>4, <1>6, <1>7, <1>9, <1>10, <1>11, ComesToRest DEF Inv, Typed, TransactionType

LEMMA SetPair ==
  ASSUME Inv, SetStep, NEW x, x = Head(agenda), x.hook # "esmtp", ~crashed',
         NEW t, t = Tail(agenda), Listed(t), agenda = Push(x, t),
         NEW y, NEW s, t = Push(y, s), Follows(x.hook, y), Listed(s), Filled(s)
  PROVE  Inv'
<1>1. /\ agenda # <<>> /\ x.op = "set" /\ ~crashed
      /\ UNCHANGED <<prev_state, input, awaiting, owed, derailed, calls, deny_respond>>
      /\ state' = IF x.hook = "data" THEN "DATA" ELSE state
      /\ crashed' <=> x.hook = "msg_status" /\ ~transaction.open
      /\ ~crashed' => agenda' = Tail(agenda)
      /\ x.hook \notin {"transaction", "rcpt", "pop", "accept"} => UNCHANGED transaction
      /\ x.hook = "transaction" => transaction' = [NoTransaction EXCEPT !.open = TRUE]
      /\ x.hook = "rcpt" => transaction' = [transaction EXCEPT !.rcpt_to = @ + 1]
  BY SetChanges
<1>2. ~Filler(x)
  BY <1>1 DEF Filler
<1>3. /\ Followed => NoneOut /\ Waits = {} /\ Setting(x.hook)
      /\ ~(state = "LOOP" /\ ~derailed)
  BY <1>2, SetTurn
<1>4. x.hook \in {"HELO", "EHLO", "transaction", "rcpt", "msg_status"} /\ state' = state
  BY <1>1 DEF Follows
<1>5. transaction \in TransactionType
  BY DEF Inv, Typed, TransactionType
<1>6. /\ transaction' \in TransactionType
      /\ x.hook \in {"HELO", "EHLO", "msg_status"} => UNCHANGED transaction
      /\ x.hook = "transaction" =>
           transaction'.open /\ ~transaction'.resetting /\ transaction'.rcpt_to = transaction'.accept + 0
      /\ x.hook = "rcpt" =>
           /\ transaction'.open = transaction.open /\ transaction'.resetting = transaction.resetting
           /\ transaction.rcpt_to = transaction.accept + 0 => transaction'.rcpt_to = transaction'.accept + 1
  BY <1>1, <1>4, <1>5, SetTransaction
<1>7. /\ y.op \in {"run_hooks", "reset_transaction"} /\ Single(y) /\ ~Filler(y)
      /\ x.hook = "HELO" => y.op = "run_hooks" /\ y.hook = "helo" /\ y.cb = <<>>
      /\ x.hook = "EHLO" => y.op = "run_hooks" /\ y.hook = "ehlo" /\ y.cb = <<>>
      /\ x.hook = "transaction" => y.op = "run_hooks" /\ y.hook = "mail" /\ y.cb = <<>>
      /\ x.hook = "rcpt" => y.op = "run_hooks" /\ y.hook = "rcpt" /\ y.cb = <<>>
      /\ x.hook = "msg_status" => y.op = "reset_transaction" /\ y.cb = <<Resume>>
  <2>1. /\ y.op \in {"run_hooks", "reset_transaction"}
        /\ x.hook = "HELO" => y.op = "run_hooks" /\ y.hook = "helo" /\ y.cb = <<>>
        /\ x.hook = "EHLO" => y.op = "run_hooks" /\ y.hook = "ehlo" /\ y.cb = <<>>
        /\ x.hook = "transaction" => y.op = "run_hooks" /\ y.hook = "mail" /\ y.cb = <<>>
        /\ x.hook = "rcpt" => y.op = "run_hooks" /\ y.hook = "rcpt" /\ y.cb = <<>>
        /\ x.hook = "msg_status" => y.op = "reset_transaction" /\ y.cb = <<Resume>>
    BY ClosuresTold DEF Follows
  <2>2. ~Filler(y)
    BY <2>1 DEF Filler
  <2>3. Single(y)
    BY <1>4, <2>1 DEF Single, HookOps, Hooked, Hooks, Told, ResetCbs, Endings
  <2> QED
    BY <2>1, <2>2, <2>3
<1>8. Followed' => NoneOut /\ Waits = {} /\ Going(y)'
  <2> SUFFICES ASSUME Followed' PROVE NoneOut /\ Waits = {} /\ Going(y)'
    OBVIOUS
  <2>1. Followed
    BY <1>1, <1>4 DEF Followed, Stopped
  <2>2. NoneOut /\ Waits = {} /\ Setting(x.hook)
    BY <1>3, <2>1
  <2>3. CASE x.hook = "msg_status"
    <3>1. Dropping'
      BY <1>1, <1>4, <1>6, <2>2, <2>3 DEF Setting, Dropping, Before, Kept
    <3> QED
      BY <1>7, <2>2, <2>3, <3>1 DEF Going, Resetting, Endings
  <2>4. ASSUME NEW hook, y.op = "run_hooks", y.hook = hook, y.cb = <<>>, hook # "deny", Stage(hook, <<>>)'
        PROVE  Going(y)'
    <3>1. Stage(y.hook, y.cb)'
      BY <2>4 DEF Stage
    <3> QED
      BY <2>4, <3>1 DEF Going, Turned, HookOps
  <2>5. CASE x.hook \in {"HELO", "EHLO"}
    <3>1. owed' = 1 /\ Suspended' /\ Agreed'
      BY <1>1, <1>4, <1>6, <2>2, <2>5 DEF Setting, Suspended, Before, Agreed, Kept
    <3>2. Stage("helo", <<>>)' /\ Stage("ehlo", <<>>)'
      BY <3>1 DEF Stage
    <3> QED
      BY <1>7, <2>2, <2>4, <2>5, <3>2
  <2>6. CASE x.hook = "transaction"
    <3>1. owed' = 1 /\ Suspended'
      BY <1>1, <1>4, <2>2, <2>6 DEF Setting, Suspended, Before
    <3>2. Kept' /\ Mailing(0)'
      BY <1>6, <2>6 DEF Kept, Mailing
    <3>3. Stage("mail", <<>>)'
      BY <3>1, <3>2 DEF Stage
    <3> QED
      BY <1>7, <2>2, <2>4, <2>6, <3>3
  <2>7. CASE x.hook = "rcpt"
    <3>1. owed' = 1 /\ Suspended'
      BY <1>1, <1>4, <2>2, <2>7 DEF Setting, Suspended, Before
    <3>2. Kept' /\ Mailing(1)'
      BY <1>6, <2>2, <2>7 DEF Setting, Kept, Mailing
    <3>3. Stage("rcpt", <<>>)'
      BY <3>1, <3>2 DEF Stage
    <3> QED
      BY <1>7, <2>2, <2>4, <2>7, <3>3
  <2> QED
    BY <1>4, <2>3, <2>5, <2>6, <2>7
<1>9. agenda' = Push(y, s) /\ ShapeOf(Push(y, s))
  BY <1>1, <1>7, ShapePush
<1>10. EndsOn(y)
  BY <1>7 DEF EndsOn
<1>11. state' \in {"CMD", "LOOP", "DATA"} /\ ~derailed' => Driven'
  <2>1. DrivenBy(Push(x, t)) => DrivenBy(t)
    BY <1>1, DrivenPush
  <2> QED
    BY <1>1, <1>4, <2>1 DEF Inv, Driven
<1>12. ~(state' = "LOOP" /\ ~derailed')
  BY <1>1, <1>3, <1>4
<1> QED
  BY <1>1, <1>6, <1>7, <1>8, <1>9, <1>10, <1>11, <1>12, GoesOn DEF Inv, Typed, TransactionType

LEMMA SetKeeps == ASSUME Inv, SetStep PROVE Inv'
<1> PICK x : x = Head(agenda)
  OBVIOUS
<1> PICK t : t = Tail(agenda)
  OBVIOUS
<1>1. /\ agenda # <<>> /\ x.op = "set" /\ ~crashed
      /\ UNCHANGED <<prev_state, input, awaiting, owed, derailed, calls, deny_respond>>
      /\ state' = IF x.hook = "data" THEN "DATA" ELSE state
      /\ crashed' <=> x.hook = "msg_status" /\ ~transaction.open
      /\ crashed' => agenda' = <<>>
      /\ ~crashed' => agenda' = t
      /\ x.hook \notin {"transaction", "rcpt", "pop", "accept"} => UNCHANGED transaction
  BY SetChanges
<1>2. CASE crashed'
  <2>1. CallsTyped'
    BY <1>1 DEF Inv, Typed, CallsTyped
  <2> QED
    BY <1>1, <1>2, <2>1, Crashes
<1>3. CASE x.hook = "esmtp"
  <2>1. Filler(x)
    BY <1>1, <1>3 DEF Filler
  <2>2. /\ Resting /\ Listed(t) /\ Filled(t)
        /\ DrivenBy(agenda) => DrivenBy(t)
        /\ HasOp(agenda, {"resume"}) => HasOp(t, {"resume"})
    BY <1>1, <2>1, LeftOver
  <2>3. ~crashed' /\ agenda' = t /\ state' = state /\ UNCHANGED transaction
    BY <1>1, <1>3
  <2>4. state \in {"CMD", "LOOP", "DATA"} /\ ~derailed /\ ~crashed => Driven'
    BY <1>1, <2>2, <2>3 DEF Inv, Driven
  <2> QED
    BY <1>1, <2>2, <2>3, <2>4, RestOn DEF Inv, Typed, Waits
<1>4. CASE x.hook # "esmtp" /\ ~crashed'
  <2>1. /\ Listed(t) /\ agenda = Push(x, t)
        /\ \/ x.hook \in {"no hello", "pop", "accept", "data"} /\ Filled(t)
           \/ t # <<>> /\ Follows(x.hook, Head(t)) /\ Filled(Tail(t)) /\ Listed(Tail(t))
              /\ t = Push(Head(t), Tail(t))
    BY <1>1, <1>4, Top DEF Inv, Typed
  <2>2. CASE x.hook \in {"no hello", "pop", "accept", "data"} /\ Filled(t)
    BY <2>1, <2>2, SetSingle
  <2>3. CASE t # <<>> /\ Follows(x.hook, Head(t)) /\ Filled(Tail(t)) /\ Listed(Tail(t))
             /\ t = Push(Head(t), Tail(t))
    BY <1>4, <2>1, <2>3, SetPair
  <2> QED
    BY <2>1, <2>2, <2>3
<1> QED
  BY <1>2, <1>3, <1>4

LEMMA DataDoneKeeps == ASSUME Inv, DataDone PROVE Inv'
<1> PICK x : x = Head(agenda)
  OBVIOUS
<1> PICK t : t = Tail(agenda)
  OBVIOUS
<1>1. agenda # <<>> /\ x.op = "data_done" /\ ~Parting(x)
  BY DEF DataDone, At, Next1, Parting
<1>2. Listed(t) /\ Filled(t) /\ ~Filler(x) /\ ~crashed /\ ~Resting
  BY <1>1, Below
<1>3. /\ UNCHANGED <<input, transaction, owed, calls, deny_respond, derailed, crashed>>
      /\ prev_state' = state /\ state' = "PAUSE_DATA"
  BY DEF DataDone, session, hooking, histories
<1>4. ASSUME ~derailed PROVE Followed
  <2>1. ~(state = "LOOP") /\ ~Stopped
    BY <1>1, <1>2, <1>4 DEF Inv, Looping, Ending, LoopsOn, EndsOn, HookOps
  <2> QED
    BY <1>2, <1>4, <2>1 DEF Followed
<1>5. Followed => NoneOut /\ Waits = {} /\ owed = 1 /\ state = "DATA" /\ Granted
  BY <1>1, <1>2, GoingTurn DEF Going, HookOps
<1>6. Followed' => NoneOut /\ Waits = {} /\ owed' = 1 /\ Received' /\ Kept' /\ Mailing(0)' /\ transaction'.open
  <2> SUFFICES ASSUME Followed' PROVE NoneOut /\ Waits = {} /\ owed' = 1 /\ Received' /\ Kept' /\ Mailing(0)' /\ transaction'.open
    OBVIOUS
  <2>1. Followed
    BY <1>3, <1>4 DEF Followed
  <2> QED
    BY <1>3, <1>5, <2>1 DEF Received, Granted, Kept, Mailing
<1>7. ~Stopped' /\ state' \notin {"CMD", "LOOP", "DATA"}
  BY <1>3 DEF Stopped
<1>8. ASSUME NEW y, Proceed(<<y>>), awaiting' = awaiting, Single(y), ~Filler(y),
             Followed' => Going(y)'
      PROVE  Inv'
  <2>1. agenda' = Push(y, t)
    BY <1>2, <1>8, Puts DEF Proceed
  <2>2. ShapeOf(Push(y, t))
    BY <1>2, <1>8, ShapePush
  <2> QED
    BY <1>2, <1>3, <1>6, <1>7, <1>8, <2>1, <2>2, GoesOn DEF Inv, Typed
<1>9. CASE Proceed(<<RunHooks("max_data_exceeded", <<>>)>>) /\ awaiting' = awaiting
  <2> PICK y : y = RunHooks("max_data_exceeded", <<>>)
    OBVIOUS
  <2>1. y.op = "run_hooks" /\ y.hook = "max_data_exceeded" /\ y.cb = <<>>
    BY ClosuresTold
  <2>2. Single(y) /\ ~Filler(y)
    BY <2>1 DEF Single, Filler, HookOps, Hooked, Hooks, Told
  <2>3. Followed' => Stage("max_data_exceeded", <<>>)'
    BY <1>6 DEF Stage
  <2>4. Followed' => Stage(y.hook, y.cb)'
    BY <2>1, <2>3 DEF Stage
  <2>5. Followed' => Going(y)'
    BY <2>1, <2>4 DEF Going, Turned, HookOps
  <2> QED
    BY <1>8, <1>9, <2>2, <2>5
<1>10. CASE Proceed(<<Respond(<<ResetTransaction(<<>>)>>)>>) /\ awaiting' = awaiting
  <2> PICK y : y = Respond(Abandon)
    OBVIOUS
  <2>1. y.op = "respond" /\ y.cb = Abandon
    BY ClosuresTold
  <2>2. Single(y) /\ ~Filler(y)
    BY <2>1 DEF Single, Filler, Replies
  <2>3. Followed' => Replying(Abandon)'
    BY <1>6 DEF Replying, Paused, Received, Before
  <2>4. Followed' => Going(y)'
    BY <2>1, <2>3 DEF Going
  <2>5. Proceed(<<y>>)
    BY <1>10 DEF Abandon
  <2> QED
    BY <1>8, <1>10, <2>2, <2>4, <2>5
<1>11. CASE Proceed(<<>>) /\ awaiting' = awaiting \cup {"end_data"}
  <2>1. agenda' = t
    BY <1>2, <1>11, Puts DEF Proceed
  <2>2. Listed(agenda') /\ Resting' /\ Shape'
    BY <1>2, <2>1, NextResting
  <2>3. Typed'
    BY <1>2, <1>3, <2>2 DEF Inv, Typed, CallsTyped
  <2>4. Followed' => OneTurn'
    <3> SUFFICES ASSUME Followed' PROVE OneTurn'
      OBVIOUS
    <3>1. Stage("data_post", <<>>)'
      BY <1>6 DEF Stage
    <3>2. Waits' = {"end_data"} /\ NoneOut'
      BY <1>3, <1>6, <1>11 DEF Waits, NoneOut, Out
    <3>3. Waiting("end_data")'
      BY <3>1 DEF Waiting
    <3> QED
      BY <2>2, <3>2, <3>3 DEF OneTurn
  <2> QED
    BY <1>3, <1>7, <2>2, <2>3, <2>4 DEF Inv, Stopped
<1> QED
  BY <1>9, <1>10, <1>11 DEF DataDone

LEMMA StartsApart ==
  /\ <<>> \notin Starts /\ <<Resume>> \notin Starts
  /\ \A hook : <<RunHooks(hook, <<>>)>> \notin Starts \cup Endings
  /\ \A y, z : <<y, z>> \notin Endings
<1>1. \A a, b, c : <<a, b>> # <<c>> /\ <<a, b>> # <<>> /\ <<c>> # <<>>
  OBVIOUS
<1>2. ASSUME NEW hook PROVE <<RunHooks(hook, <<>>)>> # <<Resume>>
  <2>1. RunHooks(hook, <<>>).op = "run_hooks" /\ Resume.op = "resume"
    BY DEF RunHooks, Resume, Call
  <2> QED
    BY <2>1
<1> QED
  BY <1>1, <1>2 DEF Starts, Endings

LEMMA StartCalls ==
  ASSUME NEW cb \in Starts
  PROVE  \E y, z : /\ cb = <<y, z>> /\ y.op = "set" /\ y.hook \in {"HELO", "EHLO", "transaction"}
                   /\ Follows(y.hook, z)
<1>1. \A what : Set(what).op = "set" /\ Set(what).hook = what
  BY DEF Set, Call
<1>2. CASE cb = <<Set("HELO"), RunHooks("helo", <<>>)>>
  BY <1>1, <1>2 DEF Follows
<1>3. CASE cb = <<Set("EHLO"), RunHooks("ehlo", <<>>)>>
  BY <1>1, <1>3 DEF Follows
<1>4. CASE cb = <<Set("transaction"), RunHooks("mail", <<>>)>>
  BY <1>1, <1>4 DEF Follows
<1> QED
  BY <1>2, <1>3, <1>4 DEF Starts

(* A transaction is over, and what was to follow goes on. *)
LEMMA OverStep ==
  ASSUME Inv, agenda # <<>>, NEW x, x = Head(agenda), ~crashed,
         x.op = "reset_transaction" \/ (x.op = "hook_respond" /\ x.hook = "reset_transaction"),
         NEW cb \in ResetCbs, NEW s, Listed(s), Filled(s), DrivenBy(Tail(agenda)) => DrivenBy(s),
         cb = <<>> => agenda' = s,
         \A y : cb = <<y>> => agenda' = Push(y, s),
         \A y, z : cb = <<y, z>> => agenda' = Push(y, Push(z, s)),
         transaction' = NoTransaction,
         UNCHANGED <<state, prev_state, owed, input, awaiting, calls, deny_respond, derailed, crashed>>,
         Followed => /\ NoneOut /\ Waits = {} /\ cb \in Endings \cup Starts
                     /\ cb \in Starts => owed = 1 /\ Suspended
                     /\ cb = <<>> => Listening' \/ Resuming'
                     /\ cb = <<Resume>> => Listening' \/ Resuming'
  PROVE  Inv'
<1>1. ~(state' = "LOOP" /\ ~derailed')
  BY DEF Inv, Looping, LoopsOn, Resting, Filler, Parting, HookOps, Leaving
<1>2. Followed' <=> Followed
  BY DEF Followed, Stopped
<1>3. transaction' \in TransactionType /\ ~transaction'.open /\ ~transaction'.resetting
  BY Transactions DEF TransactionType
<1>4. Waits' = Waits
  BY DEF Waits
<1>5. ASSUME DrivenBy(s) => DrivenBy(agenda')
      PROVE  state' \in {"CMD", "LOOP", "DATA"} /\ ~derailed' => Driven'
  <2>1. x.op \notin {"set", "_process_data", "resume", "respond"}
    OBVIOUS
  <2>2. DrivenBy(agenda) => DrivenBy(Tail(agenda))
    BY <2>1, Below
  <2> QED
    BY <1>5, <2>2 DEF Inv, Driven
<1>6. CASE cb = <<>>
  <2>1. agenda' = s
    BY <1>6
  <2> QED
    BY <1>1, <1>2, <1>3, <1>4, <1>5, <1>6, <2>1, ComesToRest DEF Inv, Typed, TransactionType
<1>7. CASE cb = <<Resume>>
  <2> PICK y : y = Resume
    OBVIOUS
  <2> PICK u : u = Push(y, s)
    OBVIOUS
  <2>1. agenda' = u
    BY <1>7
  <2>2. Filler(y)
    BY DEF Resume, Call, Filler
  <2>3. Listed(u) /\ Filled(u)
    BY <2>2, Pushed, FilledPush
  <2>4. DrivenBy(s) => DrivenBy(agenda')
    BY <2>1, DrivenPush
  <2> QED
    BY <1>1, <1>2, <1>3, <1>4, <1>5, <1>7, <2>1, <2>3, <2>4, ComesToRest DEF Inv, Typed, TransactionType
<1>8. CASE cb = <<RunHooks("disconnect", <<>>)>>
  <2> PICK y : y = RunHooks("disconnect", <<>>)
    OBVIOUS
  <2>1. y.op = "run_hooks" /\ y.hook = "disconnect" /\ y.cb = <<>>
    BY ClosuresTold
  <2>2. agenda' = Push(y, s)
    BY <1>8
  <2>3. Single(y) /\ ~Filler(y) /\ EndsOn(y)
    BY <2>1 DEF Single, Filler, EndsOn, HookOps, Hooked, Hooks, Told
  <2>4. ShapeOf(Push(y, s))
    BY <2>3, ShapePush
  <2>5. DrivenBy(s) => DrivenBy(agenda')
    BY <2>2, DrivenPush
  <2>6. ~Followed
    BY <1>8, StartsApart
  <2> QED
    BY <1>1, <1>2, <1>3, <1>5, <2>2, <2>3, <2>4, <2>5, <2>6, GoesOn DEF Inv, Typed, TransactionType
<1>9. CASE cb \in Starts
  <2>1. PICK y, z : /\ cb = <<y, z>> /\ y.op = "set" /\ y.hook \in {"HELO", "EHLO", "transaction"}
                    /\ Follows(y.hook, z)
    BY <1>9, StartCalls
  <2> PICK u : u = Push(z, s)
    OBVIOUS
  <2>2. agenda' = Push(y, u)
    BY <2>1
  <2>3. ~Filler(y) /\ EndsOn(y)
    BY <2>1 DEF Filler, EndsOn
  <2>4. ShapeOf(Push(y, u)) /\ Listed(u)
    BY <2>1, ShapePair, Pushed
  <2>5. DrivenBy(s) => DrivenBy(agenda')
    BY <2>2, <2>4, DrivenPush
  <2>6. Followed => NoneOut /\ Waits = {} /\ Going(y)'
    BY <1>3, <1>9, <2>1 DEF Going, Setting, Suspended, Before, Agreed, Kept
  <2> QED
    BY <1>1, <1>2, <1>3, <1>5, <2>2, <2>3, <2>4, <2>5, <2>6, GoesOn DEF Inv, Typed, TransactionType
<1> QED
  BY <1>6, <1>7, <1>8, <1>9 DEF ResetCbs, Endings

LEMMA ResetShort ==
  ASSUME NEW cb \in ResetCbs
  PROVE  Listed(cb)
<1>1. CASE cb \in Starts
  BY <1>1, StartCalls, ShortListed
<1>2. CASE cb \notin Starts
  BY <1>2, ShortListed DEF ResetCbs, Endings
<1> QED
  BY <1>1, <1>2

LEMMA ResetTransactionKeeps == ASSUME Inv, ResetTransactionStep PROVE Inv'
<1> PICK x : x = Head(agenda)
  OBVIOUS
<1>a. PICK t : t = Tail(agenda)
  OBVIOUS
<1>0. PICK cb : cb = x.cb
  OBVIOUS
<1>1. agenda # <<>> /\ x.op = "reset_transaction" /\ x = Next1 /\ ~Parting(x)
  BY DEF ResetTransactionStep, At, Next1, Parting
<1>2. /\ Listed(t) /\ Filled(t) /\ ~Filler(x) /\ ~crashed /\ ~Resting /\ Single(x)
      /\ DrivenBy(agenda) => DrivenBy(t)
      /\ DrivenBy(Tail(agenda)) => DrivenBy(t)
  BY <1>a, <1>1, Below
<1>3. UNCHANGED <<input, awaiting, calls, deny_respond, owed, derailed, crashed>>
  BY DEF ResetTransactionStep, session, hooking, histories
<1>4. cb \in ResetCbs
  BY <1>0, <1>1, <1>2 DEF Single, HookOps
<1>5. Followed => NoneOut /\ Waits = {} /\ Resetting(cb)
  BY <1>0, <1>1, <1>2, GoingTurn DEF Going, HookOps
<1>6. ~(state = "LOOP" /\ ~derailed)
  BY <1>1, <1>2 DEF Inv, Looping, LoopsOn, HookOps
<1>7. CASE /\ transaction.open /\ ~transaction.resetting
           /\ transaction' = [transaction EXCEPT !.resetting = TRUE]
           /\ state' = (IF Stopped THEN state ELSE "PAUSE_DATA")
           /\ prev_state' = (IF Stopped \/ state = "PAUSE_DATA" THEN prev_state ELSE state)
           /\ Proceed(<<RunHooks("reset_transaction", cb)>>)
  <2> PICK y : y = RunHooks("reset_transaction", cb)
    OBVIOUS
  <2>1. y.op = "run_hooks" /\ y.hook = "reset_transaction" /\ y.cb = cb
    BY ClosuresTold
  <2>2. agenda' = Push(y, t)
    BY <1>a, <1>2, <1>7, Puts DEF Proceed
  <2>3. Single(y) /\ ~Filler(y) /\ EndsOn(y)
    BY <1>4, <2>1 DEF Single, Filler, EndsOn, HookOps, Hooked, Hooks, Told
  <2>4. ShapeOf(Push(y, t))
    BY <1>2, <2>3, ShapePush
  <2>5. transaction \in TransactionType
    BY DEF Inv, Typed, TransactionType
  <2>6. transaction' \in TransactionType /\ transaction'.open /\ transaction'.resetting
    BY <1>7, <2>5 DEF TransactionType
  <2>7. Followed' => NoneOut /\ Waits = {} /\ Going(y)'
    <3> SUFFICES ASSUME Followed' PROVE NoneOut /\ Waits = {} /\ Going(y)'
      OBVIOUS
    <3>1. Followed
      BY <1>3, <1>6, <1>7 DEF Followed, Stopped
    <3>2. state' = "PAUSE_DATA" /\ prev_state' = (IF state = "PAUSE_DATA" THEN prev_state ELSE state)
      BY <1>7, <3>1 DEF Followed
    <3>3. Stage("reset_transaction", cb)'
      <4>1. CASE cb \in Endings /\ owed = 0 /\ state = "CMD"
        BY <1>3, <2>6, <3>2, <4>1 DEF Stage
      <4>2. CASE cb \in Starts /\ owed = 1 /\ state = "PAUSE_SMTP"
        BY <1>3, <2>6, <3>2, <4>2 DEF Stage
      <4> QED
        BY <1>5, <3>1, <4>1, <4>2 DEF Resetting, Dropping, Unpaused
    <3>4. Stage(y.hook, y.cb)'
      BY <2>1, <3>3 DEF Stage
    <3>5. Turned(y.hook, y.cb)'
      BY <2>1, <3>4 DEF Turned
    <3> QED
      BY <1>5, <2>1, <3>1, <3>5 DEF Going, HookOps
  <2>8. state' \notin {"CMD", "LOOP", "DATA"}
    BY <1>7 DEF Stopped
  <2> QED
    BY <1>2, <1>3, <2>2, <2>3, <2>4, <2>6, <2>7, <2>8, GoesOn DEF Inv, Typed, TransactionType
<1>8. CASE /\ ~transaction.open \/ transaction.resetting
           /\ transaction' = NoTransaction /\ Proceed(cb) /\ UNCHANGED <<state, prev_state>>
  <2>1. agenda' = cb \o t
    BY <1>a, <1>8 DEF Proceed
  <2>2. /\ cb = <<>> => agenda' = t
        /\ \A y : cb = <<y>> => agenda' = Push(y, t)
    BY <1>2, <2>1, Puts
  <2>3. \A y, z : cb = <<y, z>> => agenda' = Push(y, Push(z, t))
    BY <1>2, <2>1, PutsTwo
  <2>4. Followed => /\ NoneOut /\ Waits = {} /\ cb \in Endings \cup Starts
                    /\ cb \in Starts => owed = 1 /\ Suspended
                    /\ cb = <<>> => Listening' \/ Resuming'
                    /\ cb = <<Resume>> => Listening' \/ Resuming'
    <3> SUFFICES ASSUME Followed
                 PROVE  /\ NoneOut /\ Waits = {} /\ cb \in Endings \cup Starts
                        /\ cb \in Starts => owed = 1 /\ Suspended
                        /\ cb \in Endings => Listening'
      BY DEF Endings
    <3>1. NoneOut /\ Waits = {} /\ Resetting(cb)
      BY <1>5
    <3>2. cb \in Starts => cb \notin Endings
      BY StartsApart DEF Endings
    <3>3. CASE cb \in Endings /\ Dropping
      <4>1. prev_state \in {None, "PAUSE_SMTP"} /\ owed = 0 /\ state = "CMD"
        BY <1>8, <3>3 DEF Dropping, Before, Kept
      <4>2. ~transaction'.open /\ ~transaction'.resetting
        BY <1>8, Transactions
      <4>3. Listening'
        BY <1>3, <1>8, <4>1, <4>2 DEF Listening, Unpaused, Before, Agreed, Kept
      <4> QED
        BY <3>1, <3>2, <3>3, <4>3
    <3>4. CASE cb \in Starts /\ owed = 1 /\ Unpaused("PAUSE_SMTP")
      BY <3>1, <3>2, <3>4 DEF Suspended, Unpaused
    <3> QED
      BY <3>1, <3>3, <3>4 DEF Resetting
  <2>5. UNCHANGED <<state, prev_state, owed, input, awaiting, calls, deny_respond, derailed, crashed>>
    BY <1>3, <1>8
  <2>6. transaction' = NoTransaction
    BY <1>8
  <2> QED
    BY <1>1, <1>2, <1>4, <2>2, <2>3, <2>4, <2>5, <2>6, OverStep
<1> QED
  BY <1>0, <1>1, <1>7, <1>8 DEF ResetTransactionStep

LEMMA ResetRespondKeeps == ASSUME Inv, ResetTransactionRespond PROVE Inv'
<1> PICK x : x = Head(agenda)
  OBVIOUS
<1> PICK t : t = Tail(agenda)
  OBVIOUS
<1> PICK cb : cb = x.cb
  OBVIOUS
<1> PICK r : r = Resume
  OBVIOUS
<1> PICK s : s = Push(r, t)
  OBVIOUS
<1>1. agenda # <<>> /\ x.op = "hook_respond" /\ x.hook = "reset_transaction" /\ x = Next1 /\ x.op \in HookOps
  BY DEF ResetTransactionRespond, At, Next1, HookOps
<1>2. /\ Listed(t) /\ Filled(t) /\ ~crashed /\ Single(x)
  BY <1>1, Below
<1>3. /\ UNCHANGED <<state, prev_state, input, awaiting, calls, deny_respond, owed, derailed, crashed>>
      /\ transaction' = NoTransaction
  BY DEF ResetTransactionRespond, session, hooking, histories
<1>4. cb \in ResetCbs
  BY <1>1, <1>2 DEF Single, Hooked
<1>5. r.op = "resume" /\ Filler(r)
  BY DEF Resume, Call, Filler
<1>6. Listed(s) /\ Filled(s)
  BY <1>2, <1>5, Pushed, FilledPush
<1>7. DrivenBy(t) => DrivenBy(s)
  BY <1>2, DrivenPush
<1>8. agenda' = cb \o s
  <2>1. agenda' = Behind(cb, r, t)
    BY <1>1 DEF ResetTransactionRespond, Proceed, Behind
  <2>2. agenda' = On(cb, s)
    BY <1>2, <1>4, <2>1, ResetShort, AppendedOn
  <2> QED
    BY <2>2 DEF On
<1>9. /\ cb = <<>> => agenda' = s
      /\ \A y : cb = <<y>> => agenda' = Push(y, s)
  BY <1>6, <1>8, Puts
<1>10. \A y, z : cb = <<y, z>> => agenda' = Push(y, Push(z, s))
  <2> TAKE y, z
  <2>1. <<y, z>> \o s = Push(y, Push(z, s))
    BY ONLY <1>6, PutsTwo
  <2> QED
    BY <1>8, <2>1
<1>11. HasOp(s, {"resume"})
  BY <1>2, <1>5, HasPush
<1>12. cb \in Endings => HasOp(agenda', {"resume"})
  <2>1. CASE cb = <<>>
    BY <1>9, <1>11, <2>1
  <2>2. CASE cb = <<Resume>>
    <3>1. agenda' = Push(r, s)
      BY <1>9, <2>2
    <3> QED
      BY <1>5, <1>6, <3>1, HasPush
  <2> QED
    BY <2>1, <2>2 DEF Endings
<1>13. Followed => /\ NoneOut /\ Waits = {} /\ cb \in Endings \cup Starts
                   /\ cb \in Starts => owed = 1 /\ Suspended
                   /\ cb = <<>> => Listening' \/ Resuming'
                   /\ cb = <<Resume>> => Listening' \/ Resuming'
  <2> SUFFICES ASSUME Followed
               PROVE  /\ NoneOut /\ Waits = {} /\ cb \in Endings \cup Starts
                      /\ cb \in Starts => owed = 1 /\ Suspended
                      /\ cb \in Endings => Resuming'
    BY DEF Endings
  <2>1. NoneOut /\ Waits = {} /\ Stage("reset_transaction", cb)
    BY <1>1, HookTurn DEF Turned
  <2>2. cb \in Starts => cb \notin Endings
    BY StartsApart DEF Endings
  <2>3. \/ cb \in Endings /\ owed = 0 /\ prev_state = "CMD" /\ state = "PAUSE_DATA"
        \/ cb \in Starts /\ owed = 1 /\ prev_state = "PAUSE_SMTP" /\ state = "PAUSE_DATA"
    BY <2>1 DEF Stage
  <2>4. cb \in Starts => owed = 1 /\ Suspended
    BY <2>2, <2>3 DEF Suspended
  <2>5. ~transaction'.open /\ ~transaction'.resetting
    BY <1>3, Transactions
  <2>6. ASSUME cb \in Endings PROVE Resuming'
    <3>1. \E i \in 1..Len(agenda') : agenda'[i].op = "resume"
      BY <1>12, <2>6 DEF HasOp
    <3> QED
      BY <1>3, <2>2, <2>3, <2>5, <2>6, <3>1 DEF Resuming, Agreed, Kept
  <2> QED
    BY <2>1, <2>3, <2>4, <2>6
<1> QED
  BY <1>1, <1>2, <1>3, <1>4, <1>6, <1>7, <1>9, <1>10, <1>13, OverStep
-----------------------------------------------------------------------------
(* Once the connection is derailed or has ended nobody has the turn. *)
LEMMA OffTrack == ASSUME Typed', Shape', derailed' PROVE Inv'
BY DEF Inv, Followed

LEMMA DisconnectRespondKeeps == ASSUME Inv, DisconnectRespond PROVE Inv'
<1> PICK x : x = Head(agenda)
  OBVIOUS
<1> PICK t : t = Tail(agenda)
  OBVIOUS
<1>1. agenda # <<>> /\ x.op = "hook_respond"
  BY DEF DisconnectRespond, At, Next1
<1>2. Listed(t) /\ Filled(t) /\ ~crashed
  BY <1>1, Below
<1>3. agenda' = t
  BY <1>2, Puts DEF DisconnectRespond, Proceed
<1>4. Listed(agenda') /\ Resting' /\ Shape'
  BY <1>2, <1>3, NextResting
<1>5. UNCHANGED <<transaction, calls, deny_respond, owed, input, crashed>> /\ state' = "DISCONNECTED"
  BY DEF DisconnectRespond, session, hooking, histories
<1>6. Typed'
  BY <1>2, <1>4, <1>5 DEF Inv, Typed, CallsTyped
<1>7. Stopped' /\ Ending'
  BY <1>4, <1>5 DEF Stopped, Ending
<1> QED
  BY <1>4, <1>6, <1>7, Ended

(* A pause that is not over lasts through a resume that is not for it. *)
LEMMA ResumeStage ==
  ASSUME NEW hook, NEW cb, Stage(hook, cb), prev_state # None, ~Stale,
         state' = prev_state, prev_state' = None, UNCHANGED <<transaction, owed>>
  PROVE  Stage(hook, cb)' /\ prev_state # "LOOP"
<1>1. prev_state # "DATA" /\ ~transaction.resetting /\ state \in {"PAUSE_DATA", prev_state}
  BY DEF Stale
<1>2. prev_state = "PAUSE_SMTP" /\ owed \in {0, 1}
  BY <1>1 DEF Stage, Before, Suspended, Received, None
<1>3. state' = "PAUSE_SMTP" /\ Paused' /\ Before({None, "CMD", "PAUSE_SMTP", "DATA"})' /\ Suspended'
  BY <1>2 DEF Paused, Before, Suspended
<1>4. /\ Agreed => Agreed'
      /\ Kept => Kept'
      /\ Granted => Granted'
      /\ Mailing(0) => Mailing(0)'
      /\ Mailing(1) => Mailing(1)'
  BY DEF Agreed, Kept, Granted, Mailing
<1>5. prev_state' # "CMD"
  BY DEF None
<1>6. ~(hook = "reset_transaction" /\ transaction.open /\ transaction.resetting)
  BY <1>1
<1>7. ~Received
  BY <1>1 DEF Received
<1>8. prev_state # "LOOP"
  BY <1>2
<1>9. CASE hook = "deny"
  BY <1>2, <1>3, <1>5, <1>8, <1>9 DEF Stage
<1>10. CASE hook # "deny" /\ Suspended
  BY <1>2, <1>3, <1>4, <1>6, <1>7, <1>8, <1>10 DEF Stage
<1>11. hook = "deny" \/ Suspended
  BY <1>6, <1>7 DEF Stage
<1> QED
  BY <1>9, <1>10, <1>11

LEMMA ResumeKeeps == ASSUME Inv, ResumeStep PROVE Inv'
<1> PICK x : x = Head(agenda)
  OBVIOUS
<1> PICK t : t = Tail(agenda)
  OBVIOUS
<1>1. agenda # <<>> /\ x.op = "resume" /\ Filler(x) /\ ~crashed
  BY DEF ResumeStep, At, Next1, Filler, Inv, Typed
<1>2. Resting /\ Listed(t) /\ Filled(t)
  BY <1>1, LeftOver
<1>3. agenda' = t
  BY <1>2, Puts DEF ResumeStep, Proceed
<1>4. /\ UNCHANGED <<input, transaction, owed, calls, deny_respond, crashed>>
      /\ Waits' = Waits
  BY DEF ResumeStep, session, hooking, Waits
<1>5. Listed(agenda') /\ Resting' /\ Shape'
  BY <1>2, <1>3, NextResting
<1>6. Typed'
  BY <1>1, <1>4, <1>5 DEF Inv, Typed, CallsTyped
<1>7. input' \in Seq(Line)
  BY <1>6 DEF Typed
<1>8. CASE Stopped /\ UNCHANGED <<state, prev_state, awaiting, derailed>>
  <2>1. ~Followed /\ state \notin {"CMD", "LOOP", "DATA"}
    BY <1>8 DEF Followed, Stopped
  <2> QED
    BY <1>1, <1>2, <1>3, <1>4, <1>7, <1>8, <2>1, RestOn
<1>9. CASE /\ ~Stopped /\ state' = (IF prev_state = None THEN state ELSE prev_state)
           /\ prev_state' = None /\ awaiting' = awaiting \cup {"immediate"}
           /\ derailed' = (derailed \/ Stale)
  <2>1. Driven'
    BY <1>9 DEF Driven
  <2>2. CASE prev_state = None
    <3>1. ~Resuming /\ ~Stale
      BY <2>2 DEF Resuming, Stale, None
    <3>2. UNCHANGED <<state, prev_state>> /\ (derailed' <=> derailed)
      BY <1>9, <2>2, <3>1
    <3> QED
      BY <1>1, <1>2, <1>3, <1>4, <1>7, <2>1, <3>1, <3>2, RestOn
  <2>3. CASE derailed'
    BY <1>5, <1>6, <2>3, OffTrack
  <2>4. CASE prev_state # None /\ ~derailed'
    <3>1. ~Stale /\ ~derailed /\ state' = prev_state /\ prev_state' = None
      BY <1>9, <2>4
    <3>2. prev_state # "DATA" /\ ~transaction.resetting /\ state \in {"PAUSE_DATA", prev_state}
      BY <2>4, <3>1 DEF Stale
    <3>3. Followed => ~Listening
      BY <2>4, <3>2 DEF Listening, Unpaused, Before
    <3>4. Resuming => Listening' /\ prev_state # "LOOP"
      BY <1>4, <3>1 DEF Resuming, Listening, Unpaused, Before, Agreed, Kept
    <3>5. ASSUME Followed PROVE OneTurn' /\ prev_state # "LOOP"
      <4>1. OneTurn
        BY <3>5 DEF Inv
      <4>2. CASE NoneOut /\ Waits = {} /\ (Listening \/ Resuming)
        <5>1. NoneOut' /\ Listening' /\ prev_state # "LOOP"
          BY <1>4, <3>3, <3>4, <3>5, <4>2 DEF NoneOut, Out
        <5> QED
          BY <1>4, <1>5, <4>2, <5>1 DEF OneTurn
      <4>3. CASE /\ Waits = {}
                 /\ \E i \in 1..MaxCalls : /\ Out(i) /\ Turned(calls[i].hook, calls[i].cb)
                                           /\ \A j \in 1..MaxCalls : Out(j) => j = i
        <5> PICK i \in 1..MaxCalls : /\ Out(i) /\ Turned(calls[i].hook, calls[i].cb)
                                     /\ \A j \in 1..MaxCalls : Out(j) => j = i
          BY <4>3
        <5>1. Out(i)' /\ \A j \in 1..MaxCalls : Out(j)' => j = i
          BY <1>4 DEF Out
        <5> PICK h, cb : h = calls[i].hook /\ cb = calls[i].cb
          OBVIOUS
        <5>2. Turned(h, cb)' /\ prev_state # "LOOP"
          BY <1>4, <2>4, <3>1, ResumeStage DEF Turned
        <5>3. Turned(calls[i].hook, calls[i].cb)'
          BY <1>4, <5>2 DEF Turned
        <5> QED
          BY <1>4, <1>5, <4>3, <5>1, <5>2, <5>3 DEF OneTurn
      <4>4. CASE NoneOut /\ \E what \in Waits : Waits = {what} /\ Waiting(what)
        <5> PICK what \in Waits : Waits = {what} /\ Waiting(what)
          BY <4>4
        <5>1. NoneOut' /\ Waiting(what)' /\ prev_state # "LOOP"
          BY <1>4, <2>4, <3>1, <4>4, ResumeStage DEF NoneOut, Out, Waiting
        <5> QED
          BY <1>4, <1>5, <5>1 DEF OneTurn
      <4> QED
        BY <1>2, <4>1, <4>2, <4>3, <4>4 DEF OneTurn
    <3>6. Followed' => OneTurn'
      <4>1. Followed' => Followed
        BY <1>1, <1>4, <1>9, <3>1, <3>2 DEF Followed, Stopped
      <4> QED
        BY <3>5, <4>1
    <3>7. state' = "LOOP" => Looping'
      <4>1. CASE state = "LOOP"
        <5>1. Looping
          BY <1>1, <3>1, <4>1 DEF Inv
        <5> QED
          BY <1>4, <1>5, <5>1 DEF Looping, Out, Leaving
      <4>2. CASE state # "LOOP"
        <5>1. Followed
          BY <1>1, <1>9, <3>1, <4>2 DEF Followed
        <5> QED
          BY <3>1, <3>5, <5>1
      <4> QED
        BY <4>1, <4>2
    <3>8. Ending'
      BY <1>5 DEF Ending
    <3> QED
      BY <1>5, <1>6, <2>1, <3>6, <3>7, <3>8 DEF Inv
  <2> QED
    BY <2>2, <2>3, <2>4
<1> QED
  BY <1>8, <1>9 DEF ResumeStep

LEMMA DisconnectKeeps == ASSUME Inv, DisconnectStep PROVE Inv'
<1> PICK x : x = Head(agenda)
  OBVIOUS
<1>a. PICK t : t = Tail(agenda)
  OBVIOUS
<1>1. agenda # <<>> /\ x.op \in {"disconnect", "fail"}
  BY DEF DisconnectStep, At, Next1
<1>2. Listed(t) /\ Filled(t) /\ ~crashed
  BY <1>a, <1>1, Below
<1>3. UNCHANGED <<transaction, calls, deny_respond, awaiting, owed, derailed, crashed>>
  BY DEF DisconnectStep, histories
<1>4. CASE Stopped /\ UNCHANGED <<state, input>> /\ Proceed(<<>>)
  <2>1. agenda' = Tail(agenda)
    BY <1>a, <1>2, <1>4, Puts DEF Proceed
  <2>2. CallsTyped'
    BY <1>3 DEF Inv, Typed, CallsTyped
  <2> QED
    BY <1>1, <1>3, <1>4, <2>1, <2>2, Dropped
<1>5. CASE /\ ~Stopped /\ state' = "DISCONNECTING" /\ input' = <<>>
           /\ Proceed(<<ResetTransaction(<<RunHooks("disconnect", <<>>)>>)>>)
  <2> PICK y : y = ResetTransaction(<<RunHooks("disconnect", <<>>)>>)
    OBVIOUS
  <2>1. y.op = "reset_transaction" /\ y.cb = <<RunHooks("disconnect", <<>>)>>
    BY DEF ResetTransaction, Call
  <2>2. Single(y) /\ ~Filler(y) /\ EndsOn(y)
    BY <2>1 DEF Single, Filler, EndsOn, ResetCbs
  <2>3. agenda' = Push(y, t)
    BY <1>a, <1>2, <1>5, Puts DEF Proceed
  <2>4. ShapeOf(Push(y, t))
    BY <1>2, <2>2, ShapePush
  <2>5. input' \in Seq(Line)
    BY <1>5
  <2>6. ~Followed' /\ state' \notin {"CMD", "LOOP", "DATA"}
    BY <1>5 DEF Followed, Stopped
  <2> QED
    BY <1>2, <1>3, <2>2, <2>3, <2>4, <2>5, <2>6, GoesOn DEF Inv, Typed
<1> QED
  BY <1>4, <1>5 DEF DisconnectStep

LEMMA LoopRespondKeeps == ASSUME Inv, LoopRespondStep PROVE Inv'
<1> PICK x : x = Head(agenda)
  OBVIOUS
<1>a. PICK t : t = Tail(agenda)
  OBVIOUS
<1>1. agenda # <<>> /\ x.op = "loop_respond" /\ ~Parting(x)
  BY DEF LoopRespondStep, At, Next1, Parting
<1>2. Listed(t) /\ Filled(t) /\ ~crashed /\ ~Filler(x) /\ ~Resting
  BY <1>a, <1>1, Below
<1>3. UNCHANGED <<input, transaction, calls, deny_respond, awaiting, owed, derailed, crashed>>
  BY DEF LoopRespondStep, session, hooking, histories
<1>4. CASE Stopped /\ UNCHANGED state /\ Proceed(<<>>)
  <2>1. agenda' = Tail(agenda)
    BY <1>a, <1>2, <1>4, Puts DEF Proceed
  <2>2. CallsTyped'
    BY <1>3 DEF Inv, Typed, CallsTyped
  <2> QED
    BY <1>1, <1>3, <1>4, <2>1, <2>2, Dropped
<1>5. CASE ~Stopped /\ state' = "LOOP" /\ Proceed(<<Respond(<<>>)>>)
  <2> PICK y : y = Respond(<<>>)
    OBVIOUS
  <2>1. y.op = "respond" /\ y.cb = <<>>
    BY ClosuresTold
  <2>2. Single(y) /\ ~Filler(y) /\ LoopsOn(y)'
    BY <2>1 DEF Single, Filler, Replies, LoopsOn
  <2>3. agenda' = Push(y, t)
    BY <1>a, <1>2, <1>5, Puts DEF Proceed
  <2>4. ShapeOf(Push(y, t))
    BY <1>2, <2>2, ShapePush
  <2>5. ASSUME ~derailed
        PROVE  /\ ~transaction'.open /\ Waits = {}
               /\ \A i \in 1..MaxCalls : Out(i) => Leaving(calls[i].hook)
    <3>1. state # "LOOP"
      BY <1>1, <1>2, <2>5 DEF Inv, Looping, LoopsOn, HookOps
    <3>2. NoneOut /\ Waits = {} /\ Going(x)
      BY <1>1, <1>2, <1>5, <2>5, <3>1, GoingTurn DEF Followed
    <3>3. ~transaction.open
      BY <1>1, <3>2 DEF Going, HookOps
    <3> QED
      BY <1>3, <3>2, <3>3 DEF NoneOut
  <2>6. ~Followed' /\ ~Stopped'
    BY <1>5 DEF Followed, Stopped
  <2>7. Driven'
    BY <1>2, <2>1, <2>3, DrivenPush DEF Driven
  <2> QED
    BY <1>2, <1>3, <1>5, <2>2, <2>3, <2>4, <2>5, <2>6, <2>7, GoesOn DEF Inv, Typed
<1> QED
  BY <1>4, <1>5 DEF LoopRespondStep
-----------------------------------------------------------------------------
(* Events. Nothing is left of the call before. *)
LEMMA IdleRests ==
  ASSUME Inv, Idle
  PROVE  /\ Resting /\ ~Resuming /\ ~crashed /\ ~derailed
         /\ Listed(<<>>) /\ Filled(<<>>) /\ ~DrivenBy(agenda)
         /\ \A y : agenda' = <<y>> => agenda' = Push(y, <<>>)
         /\ CallsTyped /\ deny_respond.op = "hook_respond"
         /\ owed \in Int /\ input \in Seq(Line) /\ transaction \in TransactionType
<1>1. agenda = <<>> /\ ~crashed /\ ~derailed
  BY DEF Idle
<1>2. ~HasOp(agenda, {"resume"}) /\ ~DrivenBy(agenda)
  BY <1>1, HasNone, DrivenHas
<1>3. ~Resuming
  BY <1>2 DEF Resuming, HasOp
<1>4. \A y : <<y>> \o <<>> = Push(y, <<>>)
  BY EmptyListed, Puts
<1>5. \A y : <<y>> \o <<>> = <<y>>
  <2> TAKE y
  <2>1. <<y>> \in Seq({y})
    OBVIOUS
  <2> QED
    BY ONLY <2>1, ConcatEmptySeq
<1>6. \A y : agenda' = <<y>> => agenda' = Push(y, <<>>)
  BY <1>4, <1>5
<1> QED
  BY <1>1, <1>2, <1>3, <1>6, EmptyListed DEF Inv, Typed, CallsTyped, TransactionType, Resting

(* The buffer is looked at. *)
LEMMA LooksAgain ==
  ASSUME Inv, Idle, agenda' = <<ProcessData>>, input' \in Seq(Line), Waits' = Waits,
         UNCHANGED <<state, prev_state, transaction, owed, calls, deny_respond, derailed, crashed>>
  PROVE  Inv'
<1> PICK y : y = ProcessData
  OBVIOUS
<1>1. y.op = "_process_data" /\ Filler(y)
  BY DEF ProcessData, Call, Filler
<1>2. agenda' = Push(y, <<>>)
  BY IdleRests
<1>3. Listed(agenda') /\ Filled(agenda')
  BY <1>1, <1>2, EmptyListed, Pushed, FilledPush
<1>4. Driven'
  BY <1>1, <1>2, EmptyListed, DrivenPush DEF Driven
<1>5. Resting /\ ~Resuming /\ ~crashed
  BY IdleRests
<1> QED
  BY <1>3, <1>4, <1>5, RestOn

LEMMA DataKeeps == ASSUME Inv, NEW line \in Line, Data(line) PROVE Inv'
<1>1. Idle /\ agenda' = <<ProcessData>> /\ input' = Append(input, line)
  BY DEF Data, Happens
<1>2. input' \in Seq(Line)
  BY <1>1, IdleRests
<1>3. /\ UNCHANGED <<state, prev_state, transaction, owed, calls, deny_respond, derailed, crashed>>
      /\ Waits' = Waits
  BY DEF Data, hooking, histories, Waits
<1> QED
  BY <1>1, <1>2, <1>3, LooksAgain

LEMMA ImmediateKeeps == ASSUME Inv, Immediate PROVE Inv'
<1>1. Idle /\ agenda' = <<ProcessData>>
  BY DEF Immediate, Happens
<1>2. /\ UNCHANGED <<state, prev_state, input, transaction, owed, calls, deny_respond, derailed, crashed>>
      /\ Waits' = Waits
  BY DEF Immediate, session, hooking, histories, Waits
<1>3. input' \in Seq(Line)
  BY <1>1, <1>2, IdleRests
<1> QED
  BY <1>1, <1>2, <1>3, LooksAgain

(* The connection is given up. *)
LEMMA GivenUp ==
  ASSUME Inv, Idle, ~Stopped, NEW y, agenda' = <<y>>, Parting(y), Single(y), owed' \in Int,
         UNCHANGED <<state, prev_state, input, transaction, awaiting, calls, deny_respond,
                     derailed, crashed>>
  PROVE  Inv'
<1>1. Listed(<<>>) /\ Filled(<<>>) /\ agenda' = Push(y, <<>>) /\ ~crashed /\ ~derailed
  BY IdleRests
<1>2. ~Filler(y)
  BY DEF Parting, Filler
<1>3. ShapeOf(Push(y, <<>>))
  BY <1>1, ShapePush
<1>4. LoopsOn(y)'
  BY DEF LoopsOn, Parting
<1>5. ~Stopped'
  BY DEF Stopped
<1>6. state' = "LOOP" => /\ ~transaction'.open /\ Waits = {}
                         /\ \A i \in 1..MaxCalls : Out(i) => Leaving(calls[i].hook)
  BY <1>1 DEF Inv, Looping
<1>7. state' \in {"CMD", "LOOP", "DATA"} => Driven'
  BY <1>1, IdleRests DEF Inv, Driven
<1>8. transaction' \in TransactionType /\ input' \in Seq(Line)
  BY IdleRests
<1> QED
  BY <1>1, <1>2, <1>3, <1>4, <1>5, <1>6, <1>7, <1>8, GoesOn DEF TransactionType

LEMMA ClientGoneKeeps == ASSUME Inv, ClientGone PROVE Inv'
<1> PICK y : y = Fail
  OBVIOUS
<1>1. Idle /\ ~Stopped /\ agenda' = <<y>>
  BY DEF ClientGone, Happens
<1>2. y.op = "fail"
  BY DEF Fail, Call
<1>3. Parting(y) /\ Single(y)
  BY <1>2 DEF Parting, Single
<1>4. /\ UNCHANGED <<state, prev_state, input, transaction, awaiting, calls, deny_respond, derailed, crashed>>
      /\ owed' \in Int
  BY <1>1, IdleRests DEF ClientGone, session, hooking, histories
<1> QED
  BY <1>1, <1>3, <1>4, GivenUp

LEMMA TimeoutKeeps == ASSUME Inv, Timeout PROVE Inv'
<1> PICK y : y = Respond(<<Fail>>)
  OBVIOUS
<1>1. Idle /\ ~Stopped /\ agenda' = <<y>>
  BY DEF Timeout, Happens
<1>2. y.op = "respond" /\ y.cb = <<Fail>>
  BY DEF Respond, Call
<1>3. Parting(y) /\ Single(y)
  BY <1>2 DEF Parting, Single, Partings
<1>4. /\ UNCHANGED <<state, prev_state, input, transaction, awaiting, calls, deny_respond, derailed, crashed>>
      /\ owed' \in Int
  BY DEF Timeout, session, hooking, histories
<1> QED
  BY <1>1, <1>3, <1>4, GivenUp

(* A plugin calls back, or its timer does. *)
LEMMA CalledBack ==
  ASSUME Inv, Idle, NEW i \in 1..MaxCalls, Out(i), NEW retval \in Retvals,
         agenda' = <<Callback(calls[i].hook, retval, calls[i].cb)>>, CallsTyped',
         ~Out(i)', \A j \in 1..MaxCalls : j # i => calls'[j] = calls[j],
         UNCHANGED <<state, prev_state, input, transaction, owed, awaiting, deny_respond,
                     derailed, crashed>>
  PROVE  Inv'
<1> PICK h, cb : h = calls[i].hook /\ cb = calls[i].cb
  OBVIOUS
<1>a. PICK y : y = Callback(calls[i].hook, retval, calls[i].cb)
  OBVIOUS
<1>1. y.op = "callback" /\ y.hook = h /\ y.cb = cb /\ y.retval = retval /\ y.op \in HookOps
  BY <1>a DEF Callback, Call, HookOps
<1>2. agenda' = Push(y, <<>>) /\ Resting /\ ~crashed /\ ~derailed /\ ~DrivenBy(agenda)
  BY <1>a, IdleRests
<1>3. Hooked(h, cb)
  BY IdleRests DEF CallsTyped
<1>4. Single(y) /\ ~Filler(y)
  BY <1>1, <1>3 DEF Single, Filler, Told
<1>5. Listed(agenda') /\ ~Resting' /\ Head(agenda') = y /\ agenda' # <<>>
  BY <1>2, <1>4, EmptyListed, NextGoing
<1>6. Shape'
  BY <1>2, <1>4, EmptyListed, ShapePush DEF Shape
<1>7. Typed'
  BY <1>2, <1>5 DEF Inv, Typed
<1>8. \A j \in 1..MaxCalls : Out(j)' => Out(j) /\ calls'[j] = calls[j]
  BY DEF Out
<1>9. Followed' => OneTurn'
  <2> SUFFICES ASSUME Followed' PROVE OneTurn'
    OBVIOUS
  <2>1. OneTurn
    BY DEF Inv, Followed, Stopped
  <2>2. /\ Waits = {}
        /\ \E k \in 1..MaxCalls : /\ Out(k) /\ Turned(calls[k].hook, calls[k].cb)
                                  /\ \A j \in 1..MaxCalls : Out(j) => j = k
    BY <1>2, <2>1 DEF OneTurn, NoneOut
  <2>3. Turned(h, cb) /\ \A j \in 1..MaxCalls : Out(j) => j = i
    BY <2>2
  <2>4. NoneOut' /\ Waits' = {}
    BY <1>8, <2>2, <2>3 DEF NoneOut, Waits
  <2>5. Turned(h, cb)'
    BY <2>3, TurnKept
  <2>6. Turned(y.hook, y.cb)'
    BY <1>1, <2>5 DEF Turned
  <2>7. Going(y)'
    BY <1>1, <2>6 DEF Going
  <2> QED
    BY <1>5, <2>4, <2>7 DEF OneTurn
<1>10. (state = "LOOP" /\ ~derailed /\ ~crashed => Looping)'
  <2> SUFFICES ASSUME state = "LOOP" PROVE Looping'
    OBVIOUS
  <2>1. Looping
    BY <1>2 DEF Inv
  <2>2. LoopsOn(y)'
    BY <1>1, <2>1 DEF Looping, LoopsOn, Leaving
  <2> QED
    BY <1>5, <1>8, <2>1, <2>2 DEF Looping, Waits, Leaving
<1>11. Ending'
  BY <1>1, <1>5 DEF Ending, EndsOn
<1>12. (state \in {"CMD", "LOOP", "DATA"} /\ ~derailed /\ ~crashed => Driven)'
  BY <1>2 DEF Inv, Driven
<1> QED
  BY <1>6, <1>7, <1>9, <1>10, <1>11, <1>12 DEF Inv

LEMMA PluginAnswersKeeps ==
  ASSUME Inv, NEW i \in 1..MaxCalls, NEW retval \in Retvals, PluginAnswers(i, retval)
  PROVE  Inv'
<1>1. Idle /\ CallsTyped
  BY IdleRests DEF PluginAnswers, Happens
<1>2. calls' = [calls EXCEPT ![i] = NoCall]
  BY DEF PluginAnswers
<1>3. /\ NoCall \in CallType /\ NoCall.hook = None /\ NoCall.cb = <<>> /\ NoCall.at = "free"
      /\ Hooked(NoCall.hook, NoCall.cb)
  BY DEF NoCall, CallType, Hooked, ResetCbs, Endings, None
<1>4. /\ calls' \in [1..MaxCalls -> CallType] /\ calls'[i] = NoCall
      /\ \A j \in 1..MaxCalls : j # i => calls'[j] = calls[j]
  BY <1>1, <1>2, <1>3 DEF CallsTyped, CallType
<1>5. UNCHANGED <<state, prev_state, input, transaction, owed, awaiting, deny_respond, derailed, crashed>>
  BY DEF PluginAnswers, session, histories
<1>6. CallsTyped'
  BY <1>1, <1>3, <1>4, <1>5 DEF CallsTyped, CallType
<1>7. ~Out(i)'
  BY <1>3, <1>4 DEF Out
<1>8. CASE Out(i)
  <2>1. agenda' = <<Callback(calls[i].hook, retval, calls[i].cb)>>
    BY <1>8 DEF PluginAnswers, Happens, Out
  <2> QED
    BY <1>1, <1>4, <1>5, <1>6, <1>7, <1>8, <2>1, CalledBack
<1>9. CASE ~Out(i)
  <2>1. agenda' = <<>>
    BY <1>9 DEF PluginAnswers, Happens, Out
  <2>2. \A j \in 1..MaxCalls : (Out(j)' <=> Out(j)) /\ (Out(j) => calls'[j] = calls[j])
    BY <1>4, <1>7, <1>9 DEF Out
  <2>3. Resting /\ ~Resuming /\ ~crashed /\ Listed(agenda') /\ Filled(agenda') /\ input' \in Seq(Line)
    BY <1>1, <1>5, <2>1, IdleRests
  <2>4. state \in {"CMD", "LOOP", "DATA"} => Driven'
    BY <1>1, <1>5, IdleRests DEF Inv, Driven
  <2>5. Waits' = Waits
    BY <1>5 DEF Waits
  <2> QED
    BY <1>5, <1>6, <2>1, <2>2, <2>3, <2>4, <2>5, RestsOn
<1> QED
  BY <1>8, <1>9

LEMMA PluginTimesOutKeeps ==
  ASSUME Inv, NEW i \in 1..MaxCalls, PluginTimesOut(i)
  PROVE  Inv'
<1>1. Idle /\ CallsTyped /\ Out(i)
  BY IdleRests DEF PluginTimesOut, Happens, Out
<1>2. calls' = [calls EXCEPT ![i].at = "timed out"]
  BY DEF PluginTimesOut
<1>3. /\ calls' \in [1..MaxCalls -> CallType]
      /\ \A j \in 1..MaxCalls : /\ calls'[j].hook = calls[j].hook /\ calls'[j].cb = calls[j].cb
                                /\ calls'[j].at = IF j = i THEN "timed out" ELSE calls[j].at
  BY <1>1, <1>2, CancelledCall
<1>4. UNCHANGED <<state, prev_state, input, transaction, owed, awaiting, deny_respond, derailed, crashed>>
  BY DEF PluginTimesOut, session, histories
<1>5. CallsTyped'
  BY <1>1, <1>3, <1>4 DEF CallsTyped, CallType
<1>6. ~Out(i)' /\ \A j \in 1..MaxCalls : j # i => calls'[j] = calls[j]
  BY <1>1, <1>2, <1>3 DEF Out, CallsTyped
<1>7. agenda' = <<Callback(calls[i].hook, "DENY", calls[i].cb)>> /\ "DENY" \in Retvals
  BY DEF PluginTimesOut, Happens, Retvals
<1> QED
  BY <1>1, <1>4, <1>5, <1>6, <1>7, CalledBack
-----------------------------------------------------------------------------
(* The resolver, the message stream and the queue answer. *)
LEMMA AnswerTurn ==
  ASSUME Inv, Idle, NEW what, what \in Waits
  PROVE  /\ state # "LOOP"
         /\ Followed => NoneOut /\ Waits = {what} /\ Waiting(what)
<1>1. ~crashed /\ ~derailed /\ Resting
  BY IdleRests
<1>2. state # "LOOP"
  BY <1>1 DEF Inv, Looping
<1>3. ASSUME Followed PROVE NoneOut /\ Waits = {what} /\ Waiting(what)
  BY <1>1, <1>3 DEF Inv, OneTurn
<1> QED
  BY <1>2, <1>3

LEMMA AnsweredStep ==
  ASSUME Inv, Idle, NEW what, what \in Waits, awaiting' = awaiting \ {what},
         NEW y, Single(y), ~Filler(y), agenda' = <<y>>, EndsOn(y),
         UNCHANGED <<state, prev_state, input, transaction, owed, calls, deny_respond,
                     derailed, crashed>>,
         Followed /\ Waiting(what) => Going(y)'
  PROVE  Inv'
<1>1. Listed(<<>>) /\ Filled(<<>>) /\ agenda' = Push(y, <<>>) /\ ~crashed /\ ~derailed /\ CallsTyped
  BY IdleRests
<1>2. Listed(agenda') /\ ~Resting' /\ Head(agenda') = y /\ agenda' # <<>>
  BY <1>1, NextGoing
<1>3. Shape'
  BY <1>1, ShapePush DEF Shape
<1>4. Typed'
  BY <1>1, <1>2 DEF Inv, Typed, CallsTyped
<1>5. state # "LOOP" /\ (Followed => NoneOut /\ Waits = {what} /\ Waiting(what))
  BY AnswerTurn
<1>6. Followed' => OneTurn'
  <2> SUFFICES ASSUME Followed' PROVE OneTurn'
    OBVIOUS
  <2>1. Followed
    BY DEF Followed, Stopped
  <2>2. NoneOut' /\ Waits' = {}
    BY <1>5, <2>1 DEF NoneOut, Out, Waits
  <2>3. Going(y)'
    BY <1>5, <2>1
  <2> QED
    BY <1>2, <2>2, <2>3 DEF OneTurn
<1>7. Ending'
  BY <1>2 DEF Ending, EndsOn
<1>8. (state \in {"CMD", "LOOP", "DATA"} /\ ~derailed /\ ~crashed => Driven)'
  <2>1. what # "immediate"
    BY DEF Waits
  <2>2. "immediate" \in awaiting => "immediate" \in awaiting'
    BY <2>1
  <2> QED
    BY <1>1, <2>2, IdleRests DEF Inv, Driven
<1> QED
  BY <1>3, <1>4, <1>5, <1>6, <1>7, <1>8 DEF Inv

LEMMA AnsweredFrame ==
  ASSUME NEW what \in {"dns", "end_data", "send_email"}, NEW cb, Answered(what, cb)
  PROVE  /\ Idle /\ what \in Waits /\ awaiting' = awaiting \ {what} /\ agenda' = cb
         /\ UNCHANGED <<state, prev_state, input, transaction, owed, calls, deny_respond,
                        derailed, crashed>>
BY DEF Answered, Happens, session, hooking, histories, Waits

LEMMA HookAnswered ==
  ASSUME Inv, NEW what \in {"dns", "end_data", "send_email"},
         NEW hook \in {"connect", "data_post", "queue_ok"},
         Waiting(what) => Stage(hook, <<>>),
         Answered(what, <<RunHooks(hook, <<>>)>>)
  PROVE  Inv'
<1> PICK y : y = RunHooks(hook, <<>>)
  OBVIOUS
<1>1. y.op = "run_hooks" /\ y.hook = hook /\ y.cb = <<>>
  BY DEF RunHooks, Call
<1>2. Single(y) /\ ~Filler(y) /\ EndsOn(y)
  BY <1>1 DEF Single, Filler, EndsOn, HookOps, Hooked, Hooks, Told
<1>3. /\ Idle /\ what \in Waits /\ awaiting' = awaiting \ {what} /\ agenda' = <<y>>
      /\ UNCHANGED <<state, prev_state, input, transaction, owed, calls, deny_respond, derailed, crashed>>
  BY AnsweredFrame
<1>4. ASSUME Waiting(what) PROVE Going(y)'
  <2>1. Stage(hook, <<>>)'
    BY <1>3, <1>4, StageKept
  <2>2. Stage(y.hook, y.cb)'
    BY <1>1, <2>1 DEF Stage
  <2>3. Turned(y.hook, y.cb)'
    BY <1>1, <2>2 DEF Turned
  <2> QED
    BY <1>1, <2>3 DEF Going, HookOps
<1> QED
  BY <1>2, <1>3, <1>4, AnsweredStep

LEMMA RdnsResponseKeeps == ASSUME Inv, RdnsResponse PROVE Inv'
BY HookAnswered DEF RdnsResponse, Waiting

LEMMA EmailSentKeeps == ASSUME Inv, EmailSent PROVE Inv'
BY HookAnswered DEF EmailSent, Waiting

LEMMA DataEndedKeeps == ASSUME Inv, DataEnded PROVE Inv'
<1>1. CASE transaction.open
  <2>1. Answered("end_data", <<RunHooks("data_post", <<>>)>>)
    BY <1>1 DEF DataEnded
  <2> QED
    BY <2>1, HookAnswered DEF Waiting
<1>2. CASE ~transaction.open
  <2>1. Answered("end_data", <<>>)
    BY <1>2 DEF DataEnded
  <2>2. /\ Idle /\ "end_data" \in Waits /\ agenda' = <<>>
        /\ UNCHANGED <<state, prev_state, input, transaction, owed, calls, deny_respond, derailed, crashed>>
    BY <2>1, AnsweredFrame
  <2>3. ~Followed /\ state # "LOOP" /\ ~crashed /\ ~derailed
    BY <1>2, <2>2, AnswerTurn, IdleRests DEF Waiting, Stage, Mailing
  <2>4. Stopped'
    BY <2>2, <2>3 DEF Followed, Stopped
  <2>5. Listed(agenda') /\ Resting' /\ Shape'
    BY <2>2, EmptyListed, NextResting
  <2>6. Typed' /\ Ending'
    BY <2>2, <2>5 DEF Inv, Typed, CallsTyped, Ending
  <2> QED
    BY <2>4, <2>5, <2>6, Ended
<1> QED
  BY <1>1, <1>2

LEMMA EmailRefusedKeeps == ASSUME Inv, EmailRefused PROVE Inv'
<1> PICK y : y = Respond(Rejected)
  OBVIOUS
<1>1. y.op = "respond" /\ y.cb = Rejected
  BY DEF Respond, Call
<1>2. Rejected # <<Set("data")>>
  <2>1. \A a, b, c : <<a, b>> # <<c>>
    OBVIOUS
  <2> QED
    BY <2>1 DEF Rejected
<1>3. Single(y) /\ ~Filler(y) /\ EndsOn(y)
  BY <1>1, <1>2 DEF Single, Filler, EndsOn, Replies
<1>4. Answered("send_email", <<y>>)
  BY DEF EmailRefused, Rejected
<1>5. /\ Idle /\ "send_email" \in Waits /\ awaiting' = awaiting \ {"send_email"} /\ agenda' = <<y>>
      /\ UNCHANGED <<state, prev_state, input, transaction, owed, calls, deny_respond, derailed, crashed>>
  BY <1>4, AnsweredFrame
<1>6. ASSUME Waiting("send_email") PROVE Going(y)'
  <2>1. owed = 1 /\ Received /\ Kept /\ Mailing(0)
    BY <1>6 DEF Waiting, Stage
  <2>2. Replying(Rejected)'
    BY <1>5, <2>1 DEF Replying, Received, Paused, Kept, Mailing, Before
  <2> QED
    BY <1>1, <2>2 DEF Going
<1> QED
  BY <1>3, <1>5, <1>6, AnsweredStep
-----------------------------------------------------------------------------
LEMMA InitInv == ASSUME Init PROVE Inv
<1> PICK y : y = RunHooks("connect_init", <<>>)
  OBVIOUS
<1>1. y.op = "run_hooks" /\ y.hook = "connect_init" /\ y.cb = <<>>
  BY DEF RunHooks, Call
<1>2. Single(y) /\ ~Filler(y)
  BY <1>1 DEF Single, Filler, HookOps, Hooked, Hooks, Told
<1>3. <<y>> \o <<>> = Push(y, <<>>) /\ <<y>> \o <<>> = <<y>>
  <2>1. <<y>> \in Seq({y})
    OBVIOUS
  <2>2. <<y>> \o <<>> = <<y>>
    BY ONLY <2>1, ConcatEmptySeq
  <2> QED
    BY <2>2, EmptyListed, Puts
<1>4. agenda = Push(y, <<>>)
  BY <1>3 DEF Init
<1>5. Listed(agenda) /\ Head(agenda) = y /\ agenda # <<>>
  BY <1>4, EmptyListed, Pushed
<1>6. Shape
  BY <1>2, <1>4, EmptyListed, ShapePush DEF Shape
<1>7. CallsTyped /\ NoneOut
  <2>1. NoCall \in CallType /\ Hooked(NoCall.hook, NoCall.cb) /\ NoCall.at = "free"
    BY DEF NoCall, CallType, Hooked, ResetCbs, Endings, None
  <2>2. /\ HookRespond(None, None, <<>>).op = "hook_respond"
        /\ HookRespond(None, None, <<>>).hook = None /\ HookRespond(None, None, <<>>).cb = <<>>
    BY DEF HookRespond, Call
  <2>3. Hooked(None, <<>>)
    BY DEF Hooked, None
  <2>4. \A i \in 1..MaxCalls : calls[i] = NoCall
    BY DEF Init
  <2>5. calls \in [1..MaxCalls -> CallType]
    BY <2>1 DEF Init
  <2>6. Told(deny_respond)
    BY <2>2 DEF Init, Told
  <2>7. deny_respond.op = "hook_respond" /\ Hooked(deny_respond.hook, deny_respond.cb)
    BY <2>2, <2>3 DEF Init
  <2> QED
    BY <2>1, <2>4, <2>5, <2>6, <2>7 DEF CallsTyped, CallType, NoneOut, Out
<1>8. Typed
  BY <1>5, <1>7 DEF Init, Typed, NoTransaction
<1>9. Going(y)
  <2>1. Stage("connect_init", <<>>)
    BY DEF Init, Stage, NoTransaction, Kept
  <2> QED
    BY <1>1, <2>1 DEF Going, Turned, HookOps
<1>10. OneTurn
  BY <1>2, <1>5, <1>7, <1>9 DEF OneTurn, Resting, Waits, Init
<1>11. ~Stopped /\ state = "PAUSE"
  BY DEF Init, Stopped
<1> QED
  BY <1>6, <1>8, <1>10, <1>11 DEF Inv

LEMMA GoingKept ==
  ASSUME NEW x, UNCHANGED <<state, prev_state, transaction, owed, deny_respond>>
  PROVE  Going(x)' <=> Going(x)
<1>1. Turned(x.hook, x.cb)' <=> Turned(x.hook, x.cb)
  BY TurnKept
<1>2. Replying(x.cb)' <=> Replying(x.cb)
  BY DEF Replying, Paused, Kept, Before, Agreed, Mailing, Granted
<1>3. Resetting(x.cb)' <=> Resetting(x.cb)
  BY DEF Resetting, Dropping, Unpaused, Before, Kept
<1>4. Setting(x.hook)' <=> Setting(x.hook)
  BY DEF Setting, Suspended, Unpaused, Before, Kept, Agreed, Mailing, Granted, Dropping
<1>5. Listening' <=> Listening
  BY DEF Listening, Unpaused, Before, Kept, Agreed, Mailing, Granted
<1>6. Granted' <=> Granted
  BY DEF Kept, Mailing, Granted
<1> QED
  BY <1>1, <1>2, <1>3, <1>4, <1>5, <1>6 DEF Going

LEMMA StutterKeeps == ASSUME Inv, UNCHANGED vars PROVE Inv'
<1>1. UNCHANGED <<state, prev_state, input, transaction, agenda, calls, deny_respond, awaiting,
                  owed, derailed, crashed>>
  BY DEF vars
<1>2. CASE Resting
  <2>1. Filled(agenda)
    <3>1. CASE agenda = <<>>
      BY <3>1, EmptyListed
    <3>2. CASE agenda # <<>>
      <4> PICK x : x = Head(agenda)
        OBVIOUS
      <4> PICK t : t = Tail(agenda)
        OBVIOUS
      <4>1. Filler(x)
        BY <1>2, <3>2 DEF Resting
      <4>2. Listed(t) /\ Filled(t) /\ agenda = Push(x, t)
        BY <3>2, <4>1, Top DEF Inv, Typed
      <4>3. Filled(Push(x, t))
        BY <4>1, <4>2, FilledPush
      <4> QED
        BY <4>2, <4>3
    <3> QED
      BY <3>1, <3>2
  <2>3. Listed(agenda') /\ Filled(agenda') /\ (crashed => agenda' = <<>>) /\ input' \in Seq(Line)
    BY <1>1, <2>1 DEF Inv, Typed
  <2>4. Waits' = Waits /\ (Driven => Driven')
    BY <1>1 DEF Waits, Driven
  <2>5. HasOp(agenda, {"resume"}) => HasOp(agenda', {"resume"})
    BY <1>1
  <2> QED
    BY <1>1, <1>2, <2>3, <2>4, <2>5, RestOn DEF Inv
<1>3. CASE ~Resting
  <2> PICK x : x = Head(agenda)
    OBVIOUS
  <2>1. ~Resting' /\ Head(agenda') = x /\ Typed' /\ Shape'
    BY <1>1, <1>3 DEF Inv, Typed, CallsTyped, Shape, Resting
  <2>2. (NoneOut <=> NoneOut') /\ Waits' = Waits /\ (Driven => Driven') /\ (Followed' <=> Followed)
    BY <1>1 DEF NoneOut, Out, Waits, Driven, Followed, Stopped
  <2>3. Going(x)' <=> Going(x)
    BY <1>1, GoingKept
  <2>4. Followed' => OneTurn'
    BY <1>3, <2>1, <2>2, <2>3 DEF Inv, OneTurn
  <2>5. Looping => Looping'
    BY <1>1, <1>3, <2>1, <2>2 DEF Looping, Out, LoopsOn, Leaving
  <2>6. Ending => Ending'
    BY <1>3, <2>1 DEF Ending
  <2> QED
    BY <1>1, <2>1, <2>2, <2>4, <2>5, <2>6 DEF Inv, Stopped
<1> QED
  BY <1>2, <1>3

(* Every step keeps the invariant. *)
LEMMA NextInv == ASSUME Inv, [Next]_vars PROVE Inv'
<1>1. ASSUME Runs PROVE Inv'
  BY <1>1, ProcessDataKeeps, ProcessLineKeeps, RespondKeeps, SetKeeps, DataDoneKeeps,
     ResetTransactionKeeps, ResumeKeeps, DisconnectKeeps, LoopRespondKeeps,
     RunHooksKeeps, RunNextHookKeeps, CallbackKeeps,
     DenyRespondKeeps, HookRespondKeeps, ResetRespondKeeps, DisconnectRespondKeeps DEF Runs
<1>2. ASSUME NEW i \in 1..MaxCalls, Answer(i) PROVE Inv'
  BY <1>2, PluginTimesOutKeeps, PluginAnswersKeeps DEF Answer
<1>3. ASSUME NEW line \in Line, Data(line) PROVE Inv'
  BY <1>3, DataKeeps
<1> QED
  BY <1>1, <1>2, <1>3, ImmediateKeeps, RdnsResponseKeeps, DataEndedKeeps, EmailSentKeeps,
     EmailRefusedKeeps, ClientGoneKeeps, TimeoutKeeps, StutterKeeps DEF Next, Progress

(* The turn is always somebody's: Inv holds of every state of a connection,  *)
(* whatever its plugins, its client and its timers do (connection.js,        *)
(* plugins.js).                                                              *)
THEOREM Invariance == Spec => []Inv
<1>1. Inv /\ [Next]_vars => Inv'
  BY NextInv
<1> QED
  BY <1>1, InitInv, PTL DEF Spec
-----------------------------------------------------------------------------
(* What the turn says when an event may come in. *)
LEMMA IdleTurn ==
  ASSUME Inv, Idle, ~Stopped, state # "LOOP"
  PROVE  \/ NoneOut /\ Waits = {} /\ Listening
         \/ /\ Paused /\ owed \in {0, 1} /\ Waits = {}
            /\ \E i \in 1..MaxCalls : Out(i) /\ \A j \in 1..MaxCalls : Out(j) => j = i
         \/ Paused /\ owed = 1 /\ NoneOut /\ Waits # {}
<1>1. Resting /\ ~Resuming /\ ~crashed /\ ~derailed
  BY IdleRests
<1>2. OneTurn
  BY <1>1 DEF Inv, Followed
<1>3. \A hook, cb : Turned(hook, cb) => Paused /\ owed \in {0, 1}
  BY DEF Turned, Stage, Paused, Suspended, Received
<1>4. \A what : Waiting(what) => Paused /\ owed = 1
  BY DEF Waiting, Stage, Paused, Suspended, Received
<1> QED
  BY <1>1, <1>2, <1>3, <1>4 DEF OneTurn

LEMMA InvInStep == ASSUME Inv PROVE InStep
<1>1. OneReplyEach
  <2> SUFFICES ASSUME Idle, ~Stopped, state # "LOOP"
               PROVE  owed \in {0, 1} /\ (state \in {"CMD", "DATA"} => owed = 0)
    BY DEF OneReplyEach
  <2> QED
    BY IdleTurn DEF Listening, Paused
<1>2. OneHookAtATime
  <2> SUFFICES ASSUME Idle, ~Stopped, state # "LOOP",
                      NEW i \in 1..MaxCalls, NEW j \in 1..MaxCalls, Out(i), Out(j)
               PROVE  i = j
    BY DEF OneHookAtATime, Out
  <2> QED
    BY IdleTurn DEF NoneOut
<1>3. NeverParked
  <2> SUFFICES ASSUME Idle
               PROVE  /\ state \in {"PAUSE", "PAUSE_SMTP", "PAUSE_DATA"} => Pending
                      /\ state \in {"CMD", "LOOP", "DATA"} /\ input # <<>> => "immediate" \in awaiting
    BY DEF NeverParked
  <2>1. ASSUME state \in {"PAUSE", "PAUSE_SMTP", "PAUSE_DATA"} PROVE Pending
    <3>1. ~Stopped /\ state # "LOOP" /\ ~Listening
      BY <2>1 DEF Stopped, Listening, Unpaused
    <3>2. (\E i \in 1..MaxCalls : Out(i)) \/ Waits # {}
      BY <3>1, IdleTurn
    <3> QED
      BY <3>2 DEF Pending, Out, Waits
  <2>2. ASSUME state \in {"CMD", "LOOP", "DATA"}, input # <<>> PROVE "immediate" \in awaiting
    BY <2>2, IdleRests DEF Inv, Driven
  <2> QED
    BY <2>1, <2>2
<1> QED
  BY <1>1, <1>2, <1>3 DEF InStep

LEMMA InvAgreed == ASSUME Inv PROVE RecipientsAgreed
<1> SUFFICES ASSUME Idle, transaction.open, state \in {"CMD", "DATA"}
             PROVE  /\ transaction.rcpt_to = transaction.accept
                    /\ state = "DATA" => transaction.accept > 0
  BY DEF RecipientsAgreed
<1>1. ~Stopped /\ state # "LOOP" /\ ~Paused
  BY DEF Stopped, Paused
<1>2. Listening
  BY <1>1, IdleTurn
<1>3. transaction.accept \in Nat /\ transaction.rcpt_to \in Int
  BY DEF Inv, Typed
<1> QED
  BY <1>2, <1>3 DEF Listening, Unpaused, Agreed, Granted, Mailing

(* A connection and its client go in step: one reply to each command, one    *)
(* plugin at a time, and nobody waits in vain, however late the plugins      *)
(* answer and however many lines are sent ahead (_process_data, respond,     *)
(* run_hooks and the methods named after the hooks); until one of the things *)
(* happens that derailed names: a resume for a pause that is over, a deny    *)
(* hook that is denied itself, or a reply once the connection ends.          *)
THEOREM GoesInStep == Spec => []InStep
BY Invariance, InvInStep, PTL

(* The recipients of a transaction are those the client was granted, and     *)
(* data is taken for some of them only (cmd_rcpt, rcpt_respond,              *)
(* rcpt_ok_respond, cmd_data, reset_transaction); with the same exceptions.  *)
THEOREM AgreesOnRecipients == Spec => []RecipientsAgreed
BY Invariance, InvAgreed, PTL
=============================================================================
