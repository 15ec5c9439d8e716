----------------------------- MODULE VerdictProofs -----------------------------
(* Verdicts and what they rest on, for any number of recipients, hosts, domains *)
(* and records. The first part is about one attempt to deliver a mail           *)
(* (HMailSession): its invariant says how far the dialogue is, and what the     *)
(* lists of the code and the words of the server are at that point of it. The   *)
(* second is about the policy of a sender (SenderPolicy): its invariant says    *)
(* that every call that is due accounts for the result it hands on, and that    *)
(* the evaluation of a check is at one place.                                   *)
EXTENDS HMailSession, SenderPolicy, FiniteSetTheorems, FunctionTheorems, TLAPS

(* The commands before the first RCPT, and where a mail with a verdict is.    *)
Early == {"connect", "ehlo", "lhlo", "helo", "starttls", "upgrade", "auth", "mail"}
Late  == {"rcpt", "data", "dot"}
Over  == {"none", "rset", "quit"}

Awaiting == processing <=> cmd \in Early \cup Late \cup {"dot_lmtp"}

Quiet == verdicts # {} => cmd \in Over

AtMostOne == option.codes \subseteq Orderly => \A v, w \in verdicts : v = w

(* Nothing is said of a recipient before RCPT; what is said up to the dot is  *)
(* no delivery, and nothing of those the server has agreed to.                *)
Fresh ==
  /\ index = 0 /\ okRecips = <<>> /\ failRecips = {} /\ bounceRecips = {} /\ lmtpIdx = 0
  /\ agreed = <<>> /\ said = Nothing

Unsaid == \A i \in 1..Len(agreed) : said[agreed[i]] = "nothing"

Untaken == \A r \in Rcpts : said[r] # "taken"

Ahead ==
  /\ Len(agreed) < index /\ Len(okRecips) < index
  /\ \A i \in 1..Len(agreed) : agreed[i] < index
  /\ \A r \in Rcpts : r >= index => said[r] = "nothing"

Distinct == \A i, j \in 1..Len(agreed) : agreed[i] = agreed[j] => i = j

(* LMTP: the first k recipients the server agreed to have their answers.      *)
AnsweredTo(k) == \A i \in 1..Len(agreed) : said[agreed[i]] # "nothing" <=> i <= k

Dialogue ==
  /\ Distinct
  /\ cmd \in Early => Fresh
  /\ cmd \in Late => lmtpIdx = 0 /\ Unsaid /\ Untaken
  /\ cmd = "rcpt" => Ahead
  /\ cmd = "dot" => ~Lmtp
  /\ cmd = "dot_lmtp" => Lmtp /\ Answered \in 0..Len(agreed) /\ AnsweredTo(Answered)

(* DATA is sent for recipients there are, and LMTP answers are owed for some. *)
Pending == cmd \in {"data", "dot", "dot_lmtp"} => lmtpIdx < Len(okRecips)

(* What the server has for certain: nothing before the dot, and in LMTP what  *)
(* it said so of; no mail is reset or put off that was taken, provided that   *)
(* a server of LMTP answers the dot with neither 3xx nor an unreadable line.  *)
LmtpByTheLetter == Lmtp => option.codes \cap {"3xx", "bad"} = {}

Unspent ==
  LmtpByTheLetter /\ ~cutShort =>
    /\ \A r \in Rcpts : accepted[r] <= 1
    /\ (cmd # "dot_lmtp" /\ (verdicts \ {"finished"} # {} \/ verdicts = {} \/ cmd = "rset"))
         => \A r \in Rcpts : accepted[r] = 0
    /\ cmd = "dot_lmtp" => \A r \in Rcpts : accepted[r] = IF said[r] = "taken" THEN 1 ELSE 0

(* The lists when the first n recipients were named, no reply being 251.      *)
Plain == "251" \notin option.codes

Sorted(n) ==
  /\ okRecips = agreed
  /\ Range(agreed) = {r \in Rcpts : r <= n /\ said[r] = "nothing"}
  /\ failRecips    = {r \in Rcpts : said[r] = "deferred"}
  /\ bounceRecips  = {r \in Rcpts : said[r] = "refused"}

AllSorted == (Range(okRecips) \cup failRecips \cup bounceRecips) = Rcpts

(* LMTP: who has been answered for is counted by lmtp_rcpt_idx, or is gone    *)
(* from ok_recips.                                                            *)
Balanced == Answered + Len(okRecips) = lmtpIdx + Len(agreed)

Lists ==
  Plain =>
    /\ cmd = "rcpt" => Sorted(index - 1)
    /\ cmd \in {"data", "dot"} => Sorted(NumRcpts)
    /\ cmd = "dot_lmtp" => AllSorted /\ Balanced

IInv ==
  /\ TypeOK /\ Awaiting /\ Quiet /\ AtMostOne /\ ForcedTlsKept
  /\ Dialogue /\ Pending /\ Unspent /\ Lists
  /\ Plain => VerdictsTruthful
-----------------------------------------------------------------------------
(* Sequences of recipients: longer ranges, one more at the end, one less at   *)
(* the head.                                                                  *)
LEMMA SeqWiden ==
  ASSUME NEW m \in Nat, NEW n \in Nat, m <= n, NEW s \in Seq(1..m)
  PROVE  s \in Seq(1..n)
OBVIOUS

LEMMA EmptyWhenNone ==
  ASSUME NEW s \in Seq(1..0)
  PROVE  s = <<>>
OBVIOUS

LEMMA Element ==
  ASSUME NEW S, NEW s \in Seq(S), NEW i \in 1..Len(s)
  PROVE  s[i] \in S
OBVIOUS

LEMMA AppendedRange ==
  ASSUME NEW S, NEW s \in Seq(S), NEW e \in S
  PROVE  /\ Append(s, e) \in Seq(S)
         /\ Len(Append(s, e)) = Len(s) + 1
         /\ \A i \in 1..Len(s) : Append(s, e)[i] = s[i]
         /\ Append(s, e)[Len(s) + 1] = e
         /\ Range(Append(s, e)) = Range(s) \cup {e}
<1> DEFINE t == Append(s, e)
<1>1. t \in Seq(S) /\ Len(t) = Len(s) + 1
  OBVIOUS
<1>2. t[Len(s) + 1] = e
  OBVIOUS
<1>3. \A i \in 1..Len(s) : t[i] = s[i]
  OBVIOUS
<1>4. DOMAIN t = 1..(Len(s) + 1) /\ DOMAIN s = 1..Len(s) /\ Len(s) \in Nat
  BY <1>1
<1> HIDE DEF t
<1>5. Range(t) = Range(s) \cup {e}
  BY <1>2, <1>3, <1>4 DEF Range
<1> QED
  BY <1>1, <1>2, <1>3, <1>5 DEF t

LEMMA TailRange ==
  ASSUME NEW S, NEW s \in Seq(S), s # <<>>
  PROVE  /\ Tail(s) \in Seq(S) /\ Len(Tail(s)) = Len(s) - 1
         /\ Head(s) \in S
         /\ Range(s) = {Head(s)} \cup Range(Tail(s))
<1> DEFINE t == Tail(s)
<1>1. Len(s) \in Nat \ {0} /\ DOMAIN s = 1..Len(s)
  OBVIOUS
<1>2. t \in Seq(S) /\ Len(t) = Len(s) - 1 /\ DOMAIN t = 1..(Len(s) - 1)
  OBVIOUS
<1>3. \A i \in 1..(Len(s) - 1) : t[i] = s[i + 1]
  OBVIOUS
<1>4. Head(s) = s[1] /\ s[1] \in S
  OBVIOUS
<1> HIDE DEF t
<1>5. \A i \in 2..Len(s) : i - 1 \in 1..(Len(s) - 1) /\ t[i - 1] = s[i]
  BY <1>1, <1>3
<1>6. ASSUME NEW x \in Range(s) PROVE x = s[1] \/ x \in Range(t)
  <2>1. PICK i \in 1..Len(s) : x = s[i]
    BY <1>1 DEF Range
  <2>2. i = 1 \/ i \in 2..Len(s)
    BY <1>1
  <2> QED
    BY <2>1, <2>2, <1>5, <1>2 DEF Range
<1>7. ASSUME NEW x \in Range(t) PROVE x \in Range(s)
  <2>1. PICK i \in 1..(Len(s) - 1) : x = t[i]
    BY <1>2 DEF Range
  <2>2. i + 1 \in 1..Len(s)
    BY <1>1
  <2> QED
    BY <2>1, <2>2, <1>1, <1>3 DEF Range
<1>8. s[1] \in Range(s)
  BY <1>1 DEF Range
<1> QED
  BY <1>2, <1>4, <1>6, <1>7, <1>8 DEF t

LEMMA ConcatOne ==
  ASSUME NEW S, NEW s \in Seq(S), NEW e \in S
  PROVE  s \o <<e>> = Append(s, e) /\ s \o <<>> = s
OBVIOUS

(* If the answers came in order, who has one is counted by how far they came. *)
LEMMA AnsweredCount ==
  ASSUME NEW s \in Seq(Rcpts), NEW word, NEW k \in 0..Len(s),
         \A i, j \in 1..Len(s) : s[i] = s[j] => i = j,
         \A i \in 1..Len(s) : word[s[i]] # "nothing" <=> i <= k
  PROVE  Cardinality({r \in Range(s) : word[r] # "nothing"}) = k
<1> DEFINE T == {r \in Range(s) : word[r] # "nothing"}
           f == [i \in 1..k |-> s[i]]
<1>1. DOMAIN s = 1..Len(s) /\ Len(s) \in Nat /\ k \in Nat /\ k <= Len(s)
  OBVIOUS
<1>2. T = {s[i] : i \in 1..k}
  BY <1>1 DEF Range
<1> HIDE DEF T
<1>3. f \in [1..k -> T] /\ \A t \in T : \E i \in 1..k : f[i] = t
  BY <1>2
<1>4. \A i, j \in 1..k : f[i] = f[j] => i = j
  BY <1>1
<1>5. ExistsBijection(1..k, T)
  <2> HIDE DEF f
  <2>1. DOMAIN f = 1..k
    BY <1>3
  <2>2. IsInjective(f)
    BY <1>4, <2>1 DEF IsInjective
  <2>3. f \in Injection(1..k, T)
    BY <2>2, <1>3 DEF Injection
  <2>4. f \in Surjection(1..k, T)
    BY <1>3 DEF Surjection
  <2> QED
    BY <2>3, <2>4 DEF Bijection, ExistsBijection
<1>6. IsFiniteSet(1..k) /\ Cardinality(1..k) = k
  BY FS_Interval, <1>1
<1>7. Cardinality(T) = k
  BY <1>5, <1>6, FS_Bijection
<1> QED
  BY <1>7 DEF T
-----------------------------------------------------------------------------
(* The types.                                                                 *)
LEMMA Types ==
  ASSUME TypeOK
  PROVE  /\ NumRcpts \in Nat \ {0} /\ MaxHosts \in Nat
         /\ index \in Nat /\ index <= NumRcpts /\ hosts \in Nat /\ lmtpIdx \in Nat
         /\ okRecips \in Seq(Rcpts) /\ agreed \in Seq(Rcpts)
         /\ Len(okRecips) \in Nat /\ Len(agreed) \in Nat
         /\ failRecips \subseteq Rcpts /\ bounceRecips \subseteq Rcpts
         /\ said \in [Rcpts -> {"nothing", "taken", "deferred", "refused"}]
         /\ accepted \in [Rcpts -> Nat]
<1>1. NumRcpts \in Nat \ {0} /\ MaxHosts \in Nat /\ index \in Nat /\ index <= NumRcpts
  BY SizesTyped DEF TypeOK
<1>2. okRecips \in Seq(Rcpts) /\ agreed \in Seq(Rcpts)
  BY <1>1, SeqWiden DEF TypeOK, Rcpts
<1>3. failRecips \subseteq Rcpts /\ bounceRecips \subseteq Rcpts
  BY <1>1 DEF TypeOK, Rcpts
<1>4. said \in [Rcpts -> {"nothing", "taken", "deferred", "refused"}]
  BY DEF TypeOK
<1> QED
  BY <1>1, <1>2, <1>3, <1>4 DEF TypeOK, Rcpts

LEMMA Empty ==
  ASSUME NEW S
  PROVE  <<>> \in Seq(S) /\ Len(<<>>) = 0
OBVIOUS

LEMMA InitTyped == Init => TypeOK
<1> SUFFICES ASSUME Init PROVE TypeOK
  OBVIOUS
<1>1. okRecips \in Seq(1..index) /\ Len(okRecips) = 0 /\ agreed \in Seq(1..index) /\ Len(agreed) = 0
  BY Empty DEF Init
<1>3. failRecips \cup bounceRecips \subseteq 1..index /\ index \in 0..NumRcpts /\ lmtpIdx \in 0..NumRcpts
  BY SizesTyped DEF Init
<1>2. said \in [Rcpts -> {"nothing", "taken", "deferred", "refused"}] /\ accepted \in [Rcpts -> Nat]
  BY DEF Init, Nothing
<1>4. cmd \in Commands \cup {"mx", "host", "none"} /\ cmd # "rcpt" /\ hosts \in 0..MaxHosts
  BY SizesTyped DEF Init
<1>5. Len(okRecips) <= NumRcpts /\ Len(agreed) <= NumRcpts
  BY <1>1, SizesTyped
<1>6. option \in Options /\ processing = FALSE /\ secured = FALSE /\ safe = FALSE /\ cutShort = FALSE
        /\ verdicts = {}
  BY DEF Init
<1> QED
  BY <1>1, <1>2, <1>3, <1>4, <1>5, <1>6 DEF TypeOK

(* The actions that leave the lists and the words alone.                      *)
LEMMA DialogueTyped ==
  ASSUME TypeOK, UNCHANGED <<option, hosts, progress, server>>,
         cmd' \in Commands \cup {"mx", "host", "none"},
         processing' \in BOOLEAN, processing' => cmd' \in Commands \ {"rset", "quit"},
         cmd' = "rcpt" => cmd = "rcpt",
         secured' \in BOOLEAN, safe' \in BOOLEAN,
         verdicts' \subseteq {"bounced", "deferred", "finished"}
  PROVE  TypeOK'
BY DEF TypeOK, progress, server

(* A verdict ends the processing.                                             *)
LEMMA FinishEnds ==
  ASSUME NEW success \in BOOLEAN, FinishProcessingMail(success)
  PROVE  /\ verdicts' = verdicts \cup {"finished"} /\ processing' = FALSE /\ cmd' \in Over
         /\ cmd' = "rset" => ~success /\ ~Lmtp
BY DEF FinishProcessingMail, Judge, SayLast, Over

LEMMA SaidTyped ==
  ASSUME NEW c, Say(c)
  PROVE  \/ cmd' = c /\ processing' = TRUE /\ ~Blocked(c)
         \/ cmd' = "none" /\ processing' = FALSE
BY DEF Say

(* Where a reply to RCPT leads.                                               *)
LEMMA RcptMoves ==
  ASSUME NEW code, RcptReply(code)
  PROVE  \/ ~LastRcpt /\ index' = index + 1 /\ Say("rcpt") /\ verdicts' = verdicts
         \/ LastRcpt /\ index' = index /\ okRecips' # <<>> /\ Say("data") /\ verdicts' = verdicts
         \/ LastRcpt /\ index' = index /\ okRecips' = <<>> /\ FinishProcessingMail(FALSE)
BY DEF RcptReply

(* What a reply to RCPT makes of the lists.                                   *)
LEMMA RcptLists ==
  ASSUME TypeOK, Dialogue, NEW code, RcptReply(code)
  PROVE  /\ cmd = "rcpt" /\ index \in Rcpts
         /\ okRecips' = IF code = "250" THEN Append(okRecips, index) ELSE okRecips
         /\ agreed' = IF Success(code) THEN Append(agreed, index) ELSE agreed
         /\ okRecips' \in Seq(1..index) /\ agreed' \in Seq(1..index)
         /\ Len(agreed') <= index /\ Len(okRecips') <= index
         /\ index' \in Rcpts
         /\ failRecips' \cup bounceRecips' \subseteq 1..index
         /\ said' \in [Rcpts -> {"nothing", "taken", "deferred", "refused"}]
<1>1. cmd = "rcpt" /\ index \in Rcpts /\ index \in 1..index
  BY Types DEF RcptReply, Awaited, TypeOK, Rcpts
<1>2. Ahead
  BY <1>1 DEF Dialogue
<1>3. okRecips \in Seq(1..index) /\ agreed \in Seq(1..index)
  BY DEF TypeOK
<1>4. okRecips' = IF code = "250" THEN Append(okRecips, index) ELSE okRecips
  BY <1>1, <1>3, ConcatOne DEF RcptReply, Granted
<1>5. agreed' = IF Success(code) THEN Append(agreed, index) ELSE agreed
  BY DEF RcptReply
<1>6. Len(Append(okRecips, index)) = Len(okRecips) + 1 /\ Append(okRecips, index) \in Seq(1..index)
  BY <1>1, <1>3, AppendedRange
<1>7. Len(Append(agreed, index)) = Len(agreed) + 1 /\ Append(agreed, index) \in Seq(1..index)
  BY <1>1, <1>3, AppendedRange
<1>8. Len(okRecips) < index /\ Len(agreed) < index
  BY <1>2 DEF Ahead
<1>9. okRecips' \in Seq(1..index) /\ Len(okRecips') <= index
  <2>1. Len(okRecips) \in Nat /\ index \in Nat
    BY Types
  <2>2. CASE code = "250"
    <3>1. okRecips' = Append(okRecips, index)
      BY <1>4, <2>2
    <3> QED
      BY <3>1, <2>1, <1>6, <1>8
  <2>3. CASE code # "250"
    <3>1. okRecips' = okRecips
      BY <1>4, <2>3
    <3> QED
      BY <3>1, <2>1, <1>3, <1>8
  <2> QED
    BY <2>2, <2>3
<1>10. agreed' \in Seq(1..index) /\ Len(agreed') <= index
  <2>1. Len(agreed) \in Nat /\ index \in Nat
    BY Types
  <2>2. CASE Success(code)
    <3>1. agreed' = Append(agreed, index)
      BY <1>5, <2>2
    <3> QED
      BY <3>1, <2>1, <1>7, <1>8
  <2>3. CASE ~Success(code)
    <3>1. agreed' = agreed
      BY <1>5, <2>3
    <3> QED
      BY <3>1, <2>1, <1>3, <1>8
  <2> QED
    BY <2>2, <2>3
<1>11. index' \in Rcpts
  <2>1. index' = index \/ (index # NumRcpts /\ index' = index + 1)
    BY RcptMoves DEF LastRcpt
  <2> QED
    BY <2>1, <1>1, SizesTyped DEF Rcpts
<1>12. failRecips' \cup bounceRecips' \subseteq 1..index
  BY <1>1 DEF RcptReply, TypeOK
<1>13. said' \in [Rcpts -> {"nothing", "taken", "deferred", "refused"}]
  BY <1>1 DEF RcptReply, TypeOK
<1> QED
  BY <1>1, <1>4, <1>5, <1>9, <1>10, <1>11, <1>12, <1>13

LEMMA RcptTyped ==
  ASSUME TypeOK, Dialogue, NEW code, RcptReply(code), UNCHANGED option
  PROVE  TypeOK'
<1>1. index \in Nat /\ index' \in 1..NumRcpts /\ index' \in Nat /\ index <= index' /\ index <= NumRcpts
  <2>1. index' = index \/ index' = index + 1
    BY RcptMoves
  <2> QED
    BY <2>1, RcptLists, Types DEF Rcpts
<1>2. okRecips' \in Seq(1..index') /\ agreed' \in Seq(1..index')
  BY <1>1, RcptLists, SeqWiden
<1>3. Len(okRecips') <= NumRcpts /\ Len(agreed') <= NumRcpts
  <2>1. Len(okRecips') \in Nat /\ Len(agreed') \in Nat /\ Len(okRecips') <= index /\ Len(agreed') <= index
    BY <1>2, RcptLists
  <2> QED
    BY <1>1, <2>1, SizesTyped
<1>4. failRecips' \cup bounceRecips' \subseteq 1..index'
  BY <1>1, RcptLists
<1>5. /\ cmd' \in Commands \cup {"mx", "host", "none"} /\ processing' \in BOOLEAN
      /\ processing' => cmd' \in Commands \ {"rset", "quit"}
      /\ verdicts' \subseteq {"bounced", "deferred", "finished"}
  BY RcptMoves, SaidTyped, FinishEnds DEF TypeOK, Commands, Over
<1>6. UNCHANGED <<option, hosts, lmtpIdx, accepted, cutShort, secured, safe>>
  BY DEF RcptReply, connection
<1> QED
  BY <1>1, <1>2, <1>3, <1>4, <1>5, <1>6, RcptLists DEF TypeOK

(* What an answer to the dot of LMTP makes of the lists, and where it leads.  *)
LEMMA LmtpLists ==
  ASSUME TypeOK, Dialogue, Pending, NEW code, DotLmtpReply(code)
  PROVE  /\ cmd = "dot_lmtp" /\ Answered < Len(agreed) /\ agreed[Answered + 1] \in Rcpts
         /\ okRecips # <<>> /\ okRecips \in Seq(1..index) /\ Head(okRecips) \in 1..index
         /\ okRecips' \in Seq(1..index)
         /\ Success(code) => okRecips' = okRecips /\ lmtpIdx' = lmtpIdx + 1
         /\ ~Success(code) => /\ Len(okRecips') = Len(okRecips) - 1 /\ lmtpIdx' = lmtpIdx
                              /\ Range(okRecips) = {Head(okRecips)} \cup Range(okRecips')
         /\ lmtpIdx' <= Len(okRecips') /\ lmtpIdx' \in Nat
<1>1. cmd = "dot_lmtp" /\ Answered < Len(agreed)
  BY DEF DotLmtpReply, Awaited
<1>2. lmtpIdx < Len(okRecips) /\ Answered \in 0..Len(agreed)
  BY <1>1 DEF Pending, Dialogue
<1>3. okRecips \in Seq(1..index) /\ okRecips # <<>>
  BY <1>2, Types, Empty DEF TypeOK
<1>4. /\ Tail(okRecips) \in Seq(1..index) /\ Len(Tail(okRecips)) = Len(okRecips) - 1
      /\ Head(okRecips) \in 1..index /\ Range(okRecips) = {Head(okRecips)} \cup Range(Tail(okRecips))
  BY <1>3, TailRange
<1>5. agreed[Answered + 1] \in Rcpts
  BY <1>1, <1>2, Types
<1>6. okRecips' = IF Success(code) THEN okRecips ELSE Tail(okRecips)
  BY DEF DotLmtpReply
<1>7. lmtpIdx' = IF Success(code) THEN lmtpIdx + 1 ELSE lmtpIdx
  BY DEF DotLmtpReply
<1>8. lmtpIdx' <= Len(okRecips') /\ lmtpIdx' \in Nat
  <2>1. lmtpIdx \in Nat /\ Len(okRecips) \in Nat
    BY Types
  <2>2. CASE Success(code)
    BY <1>2, <1>6, <1>7, <2>1, <2>2
  <2>3. CASE ~Success(code)
    <3>1. lmtpIdx' = lmtpIdx /\ Len(okRecips') = Len(okRecips) - 1
      BY <1>4, <1>6, <1>7, <2>3
    <3> QED
      BY <1>2, <2>1, <3>1
  <2> QED
    BY <2>2, <2>3
<1> QED
  BY <1>1, <1>3, <1>4, <1>5, <1>6, <1>7, <1>8

LEMMA LmtpMoves ==
  ASSUME NEW code, DotLmtpReply(code)
  PROVE  \/ okRecips' = <<>> /\ FinishProcessingMail(FALSE)
         \/ okRecips' # <<>> /\ lmtpIdx' = Len(okRecips') /\ FinishProcessingMail(TRUE)
         \/ okRecips' # <<>> /\ lmtpIdx' # Len(okRecips') /\ UNCHANGED <<cmd, processing, verdicts>>
BY DEF DotLmtpReply, AllAnswered

LEMMA LmtpWords ==
  ASSUME TypeOK, Dialogue, Pending, NEW code, DotLmtpReply(code)
  PROVE  \E r \in Rcpts :
           /\ r = agreed[Answered + 1]
           /\ said' = [said EXCEPT ![r] = IF Success(code) THEN "taken"
                                          ELSE IF code = "4xx" THEN "deferred" ELSE "refused"]
           /\ accepted' = IF Success(code) THEN [accepted EXCEPT ![r] = @ + 1] ELSE accepted
<1> DEFINE r == agreed[Answered + 1]
<1>1. r \in Rcpts
  BY LmtpLists
<1>2. said \in [Rcpts -> {"nothing", "taken", "deferred", "refused"}] /\ accepted \in [Rcpts -> Nat]
  BY Types
<1>3. IF Success(code) THEN Taken({r})
      ELSE /\ said' = [said EXCEPT ![r] = IF code = "4xx" THEN "deferred" ELSE "refused"]
           /\ UNCHANGED accepted
  BY DEF DotLmtpReply
<1> HIDE DEF r
<1>4. CASE Success(code)
  BY <1>1, <1>2, <1>3, <1>4 DEF r, Taken
<1>5. CASE ~Success(code)
  BY <1>1, <1>2, <1>3, <1>5 DEF r
<1> QED
  BY <1>4, <1>5

LEMMA DotLmtpTyped ==
  ASSUME TypeOK, Dialogue, Pending, NEW code, DotLmtpReply(code), UNCHANGED option
  PROVE  TypeOK'
<1>1. okRecips' \in Seq(1..index') /\ Len(okRecips') <= NumRcpts /\ lmtpIdx' \in 0..NumRcpts
  <2>1. index' = index /\ Len(okRecips') <= Len(okRecips) /\ Len(okRecips) <= NumRcpts
    BY LmtpLists, Types DEF DotLmtpReply, TypeOK
  <2> QED
    BY <2>1, LmtpLists, Types
<1>2. failRecips' \cup bounceRecips' \subseteq 1..index'
  BY LmtpLists DEF DotLmtpReply, TypeOK
<1>3. PICK r \in Rcpts :
           /\ said' = [said EXCEPT ![r] = IF Success(code) THEN "taken"
                                          ELSE IF code = "4xx" THEN "deferred" ELSE "refused"]
           /\ accepted' = IF Success(code) THEN [accepted EXCEPT ![r] = @ + 1] ELSE accepted
  BY LmtpWords
<1>4. /\ said' \in [Rcpts -> {"nothing", "taken", "deferred", "refused"}]
      /\ accepted' \in [Rcpts -> Nat]
  BY <1>3, Types
<1>5. /\ cmd' \in Commands \cup {"mx", "host", "none"} /\ processing' \in BOOLEAN
      /\ cmd' # "rcpt"
      /\ processing' => cmd' \in Commands \ {"rset", "quit"}
      /\ verdicts' \subseteq {"bounced", "deferred", "finished"}
  BY LmtpMoves, LmtpLists, FinishEnds DEF TypeOK, Commands, Over
<1>6. UNCHANGED <<option, hosts, index, agreed, cutShort, secured, safe>>
  BY DEF DotLmtpReply, connection
<1>7. agreed' \in Seq(1..index') /\ Len(agreed') <= NumRcpts
  BY <1>6 DEF TypeOK
<1>8. /\ option' \in Options /\ hosts' \in 0..MaxHosts /\ index' \in 0..NumRcpts
      /\ secured' \in BOOLEAN /\ safe' \in BOOLEAN /\ cutShort' \in BOOLEAN
  BY <1>6 DEF TypeOK
<1> QED
  BY <1>1, <1>2, <1>4, <1>5, <1>7, <1>8 DEF TypeOK

LEMMA StepTyped ==
  ASSUME TypeOK, Awaiting, Quiet, Dialogue, Pending, [Next]_vars
  PROVE  TypeOK'
<1> USE DEF Commands
<1>0. Early \cup Late \cup {"dot_lmtp"} = Commands \ {"rset", "quit"}
  BY DEF Early, Late
<1>1. CASE UNCHANGED vars
  BY <1>1 DEF vars, TypeOK, progress, server, connection
<1> SUFFICES ASSUME Next PROVE TypeOK'
  BY <1>1
<1>2. CASE FoundMx
  BY <1>2, SizesTyped DEF FoundMx, Next, TypeOK, Judge, progress, server, connection
<1>3. CASE TriedAllMXs
  BY <1>3, DialogueTyped DEF TriedAllMXs, Next, TypeOK, Judge, connection
<1>4. CASE TryDeliverHost
  <2>1. hosts' \in 0..MaxHosts /\ option' \in Options
    BY <1>4, SizesTyped, Types DEF TryDeliverHost, HostsLeft, Next, TypeOK
  <2>2. CASE UNCHANGED <<cmd, processing, progress, agreed, said, connection>>
    BY <1>4, <2>1, <2>2 DEF TryDeliverHost, TypeOK, progress, connection
  <2>3. CASE ~UNCHANGED <<cmd, processing, progress, agreed, said, connection>>
    <3>1. okRecips' \in Seq(1..index') /\ Len(okRecips') = 0 /\ agreed' \in Seq(1..index')
            /\ Len(agreed') = 0
      <4>1. okRecips' = <<>> /\ agreed' = <<>>
        BY <1>4, <2>3 DEF TryDeliverHost
      <4> QED
        BY <4>1, Empty
    <3>2. said' \in [Rcpts -> {"nothing", "taken", "deferred", "refused"}]
      BY <1>4, <2>3 DEF TryDeliverHost, Nothing
    <3>3. secured' \in BOOLEAN /\ safe' \in BOOLEAN
      BY <1>4, <2>3 DEF TryDeliverHost
    <3>4. cmd' \in {"connect", "mail", "none"} /\ processing' \in BOOLEAN
            /\ (processing' => cmd' # "none")
      BY <1>4, <2>3 DEF TryDeliverHost
    <3>5. index' = 0 /\ lmtpIdx' = 0 /\ failRecips' = {} /\ bounceRecips' = {}
      BY <1>4, <2>3 DEF TryDeliverHost
    <3>6. UNCHANGED <<verdicts, accepted, cutShort>>
      BY <1>4 DEF TryDeliverHost
    <3> QED
      BY <2>1, <3>1, <3>2, <3>3, <3>4, <3>5, <3>6, SizesTyped DEF TypeOK
  <2> QED
    BY <2>2, <2>3
<1>5. CASE Upgraded
  <2>1. cmd' \in {"none", "lhlo", "ehlo"} /\ processing' \in BOOLEAN
          /\ (processing' => cmd' # "none") /\ verdicts' \subseteq verdicts \cup {"deferred"}
    BY <1>5 DEF Upgraded, Awaited, Hello, TypeOK, Judge
  <2> QED
    BY <1>5, <2>1, DialogueTyped DEF Upgraded, Next, TypeOK
<1>6. CASE Lose
  <2>1. accepted' \in [Rcpts -> Nat]
    BY <1>6 DEF Lose, TypeOK
  <2>2. cutShort' \in BOOLEAN
    BY <1>6 DEF Lose, TypeOK
  <2> QED
    BY <1>6, <2>1, <2>2 DEF Lose, Next, TypeOK, progress, connection
<1>7. CASE Close
  BY <1>7, DialogueTyped, <1>0 DEF Close, Awaiting, Next, TypeOK, connection
<1>8. ASSUME NEW code \in option.codes, Reply(code) PROVE TypeOK'
  <2>1. CASE Greeted(code)
    BY <2>1, DialogueTyped DEF Greeted, Say, Hello, Next, TypeOK, connection
  <2>2. CASE ProcessEhloData(code)
    BY <2>2, DialogueTyped
       DEF ProcessEhloData, AuthAndMailPhase, Say, Next, TypeOK, Judge, connection
  <2>3. CASE StartTls(code)
    BY <2>3, DialogueTyped DEF StartTls, Say, Next, TypeOK, connection
  <2>4. CASE Introduced(code)
    BY <2>4, DialogueTyped DEF Introduced, Say, Next, TypeOK, connection
  <2>5. CASE MailTaken(code)
    <3>1. cmd = "mail" /\ index = 0
      BY <2>5 DEF MailTaken, Awaited, Dialogue, Early, Fresh
    <3>2. index' = 1 /\ okRecips' \in Seq(1..1) /\ agreed' \in Seq(1..1)
      BY <2>5, <3>1, SeqWiden DEF MailTaken, TypeOK, server
    <3> QED
      <4>1. cmd' \in {"rcpt", "none"} /\ processing' \in BOOLEAN
              /\ (processing' => cmd' \in Commands \ {"rset", "quit"})
        BY <2>5, SaidTyped DEF MailTaken, Commands
      <4>2. failRecips' = {} /\ bounceRecips' = {} /\ lmtpIdx' = 0 /\ index' \in 0..NumRcpts
              /\ index' > 0
        BY <2>5, <3>1, SizesTyped DEF MailTaken, Dialogue, Early, Fresh
      <4>3. UNCHANGED <<option, hosts, verdicts, okRecips, agreed, said, accepted, cutShort, secured, safe>>
        BY <2>5 DEF MailTaken, Next, server, connection
      <4> QED
        BY <3>2, <4>1, <4>2, <4>3, SizesTyped DEF TypeOK
  <2>6. CASE RcptReply(code)
    BY <2>6, RcptTyped DEF Next
  <2>7. CASE DataReply(code)
    BY <2>7, DialogueTyped DEF DataReply, Say, Next, TypeOK, connection
  <2>8. CASE DotReply(code)
    <3>1. accepted' \in [Rcpts -> Nat]
            /\ said' \in [Rcpts -> {"nothing", "taken", "deferred", "refused"}]
      BY <2>8 DEF DotReply, Taken, TypeOK
    <3>2. verdicts' = verdicts \cup {"finished"} /\ ~processing' /\ processing' \in BOOLEAN
            /\ cmd' \in Over
      BY <2>8 DEF DotReply, FinishProcessingMail, Judge, SayLast, Over
    <3> QED
      BY <2>8, <3>1, <3>2 DEF DotReply, Next, TypeOK, progress, connection, Over
  <2>9. CASE DotLmtpReply(code)
    BY <2>9, DotLmtpTyped DEF Next
  <2>10. CASE Upset(code)
    BY <2>10, DialogueTyped DEF Upset, GiveUp, SayLast, Next, TypeOK, Judge, connection
  <2>11. CASE FallBack(code)
    BY <2>11, DialogueTyped DEF FallBack, Say, Next, TypeOK, connection
  <2>12. CASE ResetReply(code)
    BY <2>12, DialogueTyped, <1>0 DEF ResetReply, Awaiting, Next, TypeOK, Judge, connection
  <2> QED
    BY <1>8, <2>1, <2>2, <2>3, <2>4, <2>5, <2>6, <2>7, <2>8, <2>9, <2>10, <2>11, <2>12 DEF Reply
<1> QED
  BY <1>2, <1>3, <1>4, <1>5, <1>6, <1>7, <1>8 DEF Next
-----------------------------------------------------------------------------
(* The actions that leave the lists and the words alone, by where they lead:  *)
(* to the next command before RCPT, to the dot, to the first host, to silence *)
(* (a connection given back, or a command that may not be sent), to a verdict *)
(* or through the reply to the RSET of a mail that has one.                   *)
Onward == cmd \in Early /\ cmd' \in Early /\ processing' = TRUE /\ verdicts' = verdicts
ToDot  == cmd = "data" /\ cmd' = (IF Lmtp THEN "dot_lmtp" ELSE "dot") /\ processing' = TRUE
          /\ verdicts' = verdicts
ToHost == cmd = "mx" /\ cmd' = "host" /\ processing' = processing /\ verdicts' = verdicts
Silent == cmd \in Early \cup {"data", "rset", "quit"} /\ cmd' = "none" /\ processing' = FALSE
          /\ verdicts' = verdicts
Doom   ==
  /\ cmd \in {"mx", "host", "dot_lmtp"} \cup Early \cup Late
  /\ cmd = "dot_lmtp" => option.codes \cap {"3xx", "bad"} # {}
  /\ cmd' \in Over /\ processing' = FALSE
  /\ \E v \in {"deferred", "bounced"} : verdicts' = verdicts \cup {v}
Again  ==
  /\ cmd = "rset" /\ cmd' \in {"rset", "none"} /\ processing' = processing
  /\ \/ verdicts' = verdicts
     \/ /\ ~(option.codes \subseteq Orderly)
        /\ \E v \in {"deferred", "bounced"} : verdicts' = verdicts \cup {v}

Talk ==
  /\ UNCHANGED <<option, progress, server>>
  /\ Onward \/ ToDot \/ ToHost \/ Silent \/ Doom \/ Again

LEMMA Settings ==
  ASSUME UNCHANGED option
  PROVE  /\ Lmtp' = Lmtp /\ Pooling' = Pooling /\ ForceTls' = ForceTls
         /\ LmtpByTheLetter' = LmtpByTheLetter /\ Plain' = Plain
BY DEF Lmtp, Pooling, ForceTls, LmtpByTheLetter, Plain

LEMMA Talks ==
  ASSUME TypeOK, Awaiting, UNCHANGED option, NEW code \in option.codes,
         \/ Greeted(code) \/ ProcessEhloData(code) \/ StartTls(code) \/ Introduced(code)
         \/ DataReply(code) \/ Upset(code) \/ FallBack(code) \/ ResetReply(code)
  PROVE  Talk
<1> USE DEF Awaited, Early
<1>1. CASE Greeted(code)
  BY <1>1 DEF Greeted, Say, Hello, Talk, Onward, Silent
<1>2. CASE ProcessEhloData(code)
  <2>1. cmd \in {"ehlo", "lhlo"} /\ UNCHANGED <<progress, server>>
    BY <1>2 DEF ProcessEhloData
  <2>2. \/ (Say("mail") \/ Say("auth") \/ Say("starttls")) /\ verdicts' = verdicts
        \/ cmd' = "none" /\ processing' = FALSE /\ verdicts' = verdicts \cup {"deferred"}
    BY <1>2 DEF ProcessEhloData, AuthAndMailPhase, Judge
  <2> QED
    BY <2>1, <2>2 DEF Say, Talk, Onward, Silent, Doom, Over
<1>3. CASE StartTls(code)
  BY <1>3 DEF StartTls, Say, Talk, Onward, Silent
<1>4. CASE Introduced(code)
  BY <1>4 DEF Introduced, Say, Talk, Onward, Silent
<1>5. CASE DataReply(code)
  BY <1>5 DEF DataReply, Say, Talk, ToDot, Silent
<1>6. CASE Upset(code)
  <2>1. cmd \in Early \cup Late \cup {"dot_lmtp"} /\ UNCHANGED <<progress, server>>
    BY <1>6 DEF Upset, Awaiting
  <2>2. cmd' \in Over /\ processing' = FALSE
    BY <1>6 DEF Upset, GiveUp, SayLast, Over
  <2>3. \E v \in {"deferred", "bounced"} : verdicts' = verdicts \cup {v}
    BY <1>6 DEF Upset, GiveUp, Judge
  <2>4. cmd = "dot_lmtp" => code \in {"3xx", "bad"}
    BY <1>6 DEF Upset
  <2> QED
    BY <2>1, <2>2, <2>3, <2>4 DEF Talk, Doom
<1>7. CASE FallBack(code)
  BY <1>7 DEF FallBack, Say, Talk, Onward, Silent
<1>8. CASE ResetReply(code)
  <2>1. cmd = "rset" /\ cmd' \in {"rset", "none"} /\ processing' = processing
          /\ UNCHANGED <<progress, server>>
    BY <1>8 DEF ResetReply
  <2>2. \/ verdicts' = verdicts
        \/ /\ code \in {"3xx", "bad"}
           /\ \E v \in {"deferred", "bounced"} : verdicts' = verdicts \cup {v}
    BY <1>8 DEF ResetReply, Judge
  <2>3. code \in {"3xx", "bad"} => ~(option.codes \subseteq Orderly)
    BY DEF Orderly
  <2> QED
    BY <2>1, <2>2, <2>3 DEF Talk, Again
<1> QED
  BY <1>1, <1>2, <1>3, <1>4, <1>5, <1>6, <1>7, <1>8

(* A step is one of these, or one of the six that move the lists.             *)
LEMMA Kinds ==
  ASSUME TypeOK, Awaiting, [Next]_vars
  PROVE  /\ UNCHANGED option
         /\ \/ UNCHANGED vars \/ Talk \/ TryDeliverHost \/ Lose
            \/ \E code \in option.codes :
                 MailTaken(code) \/ RcptReply(code) \/ DotReply(code) \/ DotLmtpReply(code)
<1>1. UNCHANGED option
  BY DEF Next, vars
<1>2. CASE FoundMx \/ TriedAllMXs \/ Upgraded \/ Close
  <2>1. CASE FoundMx
    <3>1. cmd = "mx" /\ UNCHANGED <<progress, server>> /\ processing' = processing
      BY <2>1 DEF FoundMx
    <3>2. processing = FALSE
      BY <3>1 DEF Awaiting, Early, Late, TypeOK
    <3>3. \/ cmd' = "host" /\ verdicts' = verdicts
          \/ /\ cmd' = "none"
             /\ \E v \in {"deferred", "bounced"} : verdicts' = verdicts \cup {v}
      BY <2>1 DEF FoundMx, Judge
    <3>4. ToHost \/ Doom
      BY <3>1, <3>2, <3>3 DEF ToHost, Doom, Over
    <3> QED
      BY <1>1, <3>1, <3>4 DEF Talk
  <2>2. CASE TriedAllMXs
    <3>1. cmd = "host" /\ cmd' = "none" /\ UNCHANGED <<progress, server>>
            /\ processing' = processing /\ verdicts' = verdicts \cup {"deferred"}
      BY <2>2 DEF TriedAllMXs, Judge
    <3>2. processing = FALSE
      BY <3>1 DEF Awaiting, Early, Late, TypeOK
    <3>3. Doom
      BY <3>1, <3>2 DEF Doom, Over
    <3> QED
      BY <1>1, <3>1, <3>3 DEF Talk
  <2>3. CASE Upgraded
    BY <1>1, <2>3 DEF Upgraded, Awaited, Early, Hello, Judge, Talk, Onward, Doom, Over
  <2>4. CASE Close
    BY <1>1, <2>4 DEF Close, Talk, Silent, Awaiting, Early, Late, TypeOK
  <2> QED
    BY <1>1, <1>2, <2>1, <2>2, <2>3, <2>4
<1>3. ASSUME NEW code \in option.codes, Reply(code)
      PROVE  Talk \/ MailTaken(code) \/ RcptReply(code) \/ DotReply(code) \/ DotLmtpReply(code)
  BY <1>1, <1>3, Talks DEF Reply
<1> QED
  BY <1>1, <1>2, <1>3 DEF Next
-----------------------------------------------------------------------------
(* Where the code is, and how many verdicts there are.                        *)
LEMMA TryMoves ==
  ASSUME TryDeliverHost
  PROVE  /\ cmd = "host" /\ UNCHANGED <<verdicts, accepted, cutShort>>
         /\ \/ UNCHANGED <<cmd, processing, progress, agreed, said>>
            \/ /\ Fresh'
               /\ \/ cmd' \in {"connect", "mail"} /\ processing' = TRUE
                  \/ cmd' = "none" /\ processing' = FALSE
<1>1. cmd = "host" /\ UNCHANGED <<verdicts, accepted, cutShort>>
  BY DEF TryDeliverHost
<1>2. CASE UNCHANGED <<cmd, processing, progress, agreed, said, connection>>
  BY <1>1, <1>2
<1>3. CASE ~UNCHANGED <<cmd, processing, progress, agreed, said, connection>>
  <2>1. /\ index' = 0 /\ okRecips' = <<>> /\ failRecips' = {} /\ bounceRecips' = {} /\ lmtpIdx' = 0
        /\ agreed' = <<>> /\ said' = Nothing
    BY <1>3 DEF TryDeliverHost
  <2>2. \/ cmd' \in {"connect", "mail"} /\ processing' = TRUE
        \/ cmd' = "none" /\ processing' = FALSE
    BY <1>3 DEF TryDeliverHost
  <2>3. Nothing' = Nothing
    BY DEF Nothing, Rcpts
  <2> QED
    BY <1>1, <2>1, <2>2, <2>3 DEF Fresh
<1> QED
  BY <1>2, <1>3

(* The six actions that move the lists, by cmd, processing and verdicts.      *)
Staying == cmd' = cmd /\ processing' = processing /\ verdicts' = verdicts
Taking  == cmd = "host" /\ cmd' \in Early /\ processing' = TRUE /\ verdicts' = verdicts
Naming  == cmd \in {"mail", "rcpt"} /\ cmd' \in {"rcpt", "data"} /\ processing' = TRUE
           /\ verdicts' = verdicts
Hushed  == cmd \in {"host", "mail", "rcpt"} /\ cmd' = "none" /\ processing' = FALSE
           /\ verdicts' = verdicts
Ending  == cmd \in {"rcpt", "dot", "dot_lmtp"} /\ cmd' \in Over /\ processing' = FALSE
           /\ verdicts' = verdicts \cup {"finished"}
Leaving == cmd' = "host" /\ processing = TRUE /\ processing' = FALSE /\ verdicts' = verdicts

LEMMA Moves ==
  ASSUME TypeOK, Dialogue, Pending, NEW code,
         \/ TryDeliverHost \/ Lose \/ MailTaken(code) \/ RcptReply(code) \/ DotReply(code)
         \/ DotLmtpReply(code)
  PROVE  Staying \/ Taking \/ Naming \/ Hushed \/ Ending \/ Leaving
<1> USE DEF Staying, Taking, Naming, Hushed, Ending, Leaving, Early
<1>1. CASE TryDeliverHost
  BY <1>1, TryMoves
<1>2. CASE Lose
  BY <1>2 DEF Lose, Concerned, TypeOK
<1>3. CASE MailTaken(code)
  <2>1. cmd = "mail" /\ verdicts' = verdicts /\ Say("rcpt")
    BY <1>3 DEF MailTaken, Awaited
  <2> QED
    BY <2>1, SaidTyped
<1>4. CASE RcptReply(code)
  <2>1. cmd = "rcpt"
    BY <1>4 DEF RcptReply, Awaited
  <2> QED
    BY <1>4, <2>1, RcptMoves, SaidTyped, FinishEnds
<1>5. CASE DotReply(code)
  <2>1. cmd = "dot" /\ FinishProcessingMail(TRUE)
    BY <1>5 DEF DotReply, Awaited
  <2> QED
    BY <2>1, FinishEnds
<1>6. CASE DotLmtpReply(code)
  <2>1. cmd = "dot_lmtp"
    BY <1>6 DEF DotLmtpReply, Awaited
  <2> QED
    BY <1>6, <2>1, LmtpMoves, FinishEnds
<1> QED
  BY <1>1, <1>2, <1>3, <1>4, <1>5, <1>6

LEMMA StepPlaced ==
  ASSUME TypeOK, Awaiting, Quiet, AtMostOne, Dialogue, Pending, [Next]_vars
  PROVE  Awaiting' /\ Quiet' /\ AtMostOne'
<1> USE DEF Early, Late, Over
<1>1. option' = option
  BY Kinds
<1>2. CASE UNCHANGED vars
  BY <1>2 DEF vars, Awaiting, Quiet, AtMostOne
<1>3. CASE Talk
  <2>1. Awaiting'
    BY <1>3 DEF Talk, Onward, ToDot, ToHost, Silent, Doom, Again, Awaiting
  <2>2. Quiet'
    BY <1>3 DEF Talk, Onward, ToDot, ToHost, Silent, Doom, Again, Quiet
  <2>3. AtMostOne'
    <3>1. CASE verdicts' = verdicts
      BY <1>1, <3>1 DEF AtMostOne
    <3>2. CASE Doom
      <4>1. verdicts = {}
        BY <3>2 DEF Doom, Quiet
      <4> QED
        BY <4>1, <3>2 DEF Doom, AtMostOne
    <3>3. CASE ~(option.codes \subseteq Orderly)
      BY <1>1, <3>3 DEF AtMostOne
    <3> QED
      BY <1>3, <3>1, <3>2, <3>3 DEF Talk, Onward, ToDot, ToHost, Silent, Again
  <2> QED
    BY <2>1, <2>2, <2>3
<1>4. CASE Staying
  BY <1>1, <1>4 DEF Staying, Awaiting, Quiet, AtMostOne
<1>5. CASE Taking \/ Naming \/ Hushed \/ Leaving
  <2>1. verdicts' = verdicts
    BY <1>5 DEF Taking, Naming, Hushed, Leaving
  <2>2. Awaiting' /\ (cmd' \in Over \/ verdicts = {})
    BY <1>5 DEF Taking, Naming, Hushed, Leaving, Awaiting, Quiet
  <2> QED
    BY <1>1, <2>1, <2>2 DEF Quiet, AtMostOne
<1>6. CASE Ending
  <2>1. verdicts = {}
    BY <1>6 DEF Ending, Quiet
  <2> QED
    BY <2>1, <1>6 DEF Ending, Awaiting, Quiet, AtMostOne
<1>7. Staying \/ Taking \/ Naming \/ Hushed \/ Ending \/ Leaving \/ UNCHANGED vars \/ Talk
  BY Kinds, Moves
<1> QED
  BY <1>2, <1>3, <1>4, <1>5, <1>6, <1>7

(* A command is only sent where forced TLS allows it.                         *)
LEMMA SaidSafe ==
  ASSUME NEW c \in {"mail", "rcpt", "data", "dot", "dot_lmtp"}, Say(c),
         ForceTls' = ForceTls, safe' = safe
  PROVE  ForcedTlsKept'
BY DEF Say, Blocked, ForcedTlsKept

LEMMA StepForced ==
  ASSUME TypeOK, Awaiting, ForcedTlsKept, [Next]_vars
  PROVE  ForcedTlsKept'
<1> DEFINE Mailing == {"mail", "rcpt", "data", "dot", "dot_lmtp"}
<1>0. option' = option /\ ForceTls' = ForceTls
  BY Kinds, Settings
<1>a. ASSUME cmd' \notin Mailing PROVE ForcedTlsKept'
  BY <1>a DEF ForcedTlsKept
<1>b. ASSUME cmd' = cmd, safe' = safe PROVE ForcedTlsKept'
  BY <1>b, <1>0 DEF ForcedTlsKept
<1>1. CASE UNCHANGED vars
  BY <1>1, <1>b DEF vars, connection
<1>2. CASE FoundMx \/ TriedAllMXs \/ Lose \/ Close
  BY <1>2, <1>a DEF FoundMx, TriedAllMXs, Lose, Close
<1>3. CASE TryDeliverHost
  BY <1>3, <1>0, <1>a, <1>b DEF TryDeliverHost, ForcedTlsKept, connection
<1>4. CASE Upgraded
  BY <1>4, <1>a DEF Upgraded, Hello
<1>5. ASSUME NEW code \in option.codes, Reply(code) PROVE ForcedTlsKept'
  <2>1. CASE Greeted(code) \/ StartTls(code) \/ FallBack(code)
    BY <2>1, <1>a DEF Greeted, StartTls, FallBack, Say, Hello
  <2>2. CASE ProcessEhloData(code)
    <3>1. safe' = safe
      BY <2>2 DEF ProcessEhloData, connection
    <3>2. Say("mail") \/ Say("auth") \/ Say("starttls") \/ cmd' = "none"
      BY <2>2 DEF ProcessEhloData, AuthAndMailPhase
    <3> QED
      BY <3>1, <3>2, <1>0, <1>a, SaidSafe, SaidTyped
  <2>3. CASE Introduced(code) \/ MailTaken(code) \/ DataReply(code)
    <3>1. safe' = safe
      BY <2>3 DEF Introduced, MailTaken, DataReply, connection
    <3>2. \E c \in Mailing : Say(c)
      BY <2>3 DEF Introduced, MailTaken, DataReply
    <3> QED
      BY <3>1, <3>2, <1>0, SaidSafe
  <2>4. CASE RcptReply(code)
    <3>1. safe' = safe
      BY <2>4 DEF RcptReply, connection
    <3>2. (\E c \in Mailing : Say(c)) \/ cmd' \in Over
      BY <2>4, RcptMoves, FinishEnds
    <3> QED
      BY <3>1, <3>2, <1>0, <1>a, SaidSafe DEF Over
  <2>5. CASE DotReply(code)
    BY <2>5, <1>a, FinishEnds DEF DotReply, Over
  <2>6. CASE DotLmtpReply(code)
    <3>1. safe' = safe
      BY <2>6 DEF DotLmtpReply, connection
    <3>2. cmd' = cmd \/ cmd' \in Over
      BY <2>6, LmtpMoves, FinishEnds
    <3> QED
      BY <3>1, <3>2, <1>a, <1>b DEF Over
  <2>7. CASE Upset(code)
    BY <2>7, <1>a DEF Upset, GiveUp, SayLast
  <2>8. CASE ResetReply(code)
    BY <2>8, <1>a DEF ResetReply
  <2> QED
    BY <1>5, <2>1, <2>2, <2>3, <2>4, <2>5, <2>6, <2>7, <2>8 DEF Reply
<1> QED
  BY <1>1, <1>2, <1>3, <1>4, <1>5 DEF Next
-----------------------------------------------------------------------------
(* The words of the server.                                                   *)
LEMMA AnsweredIs ==
  ASSUME TypeOK, Distinct, NEW k \in 0..Len(agreed), AnsweredTo(k)
  PROVE  Answered = k
<1>1. agreed \in Seq(Rcpts) /\ said \in [Rcpts -> {"nothing", "taken", "deferred", "refused"}]
  BY Types
<1>2. \A i, j \in 1..Len(agreed) : agreed[i] = agreed[j] => i = j
  BY DEF Distinct
<1>3. \A i \in 1..Len(agreed) : said[agreed[i]] # "nothing" <=> i <= k
  BY DEF AnsweredTo
<1>4. Cardinality({r \in Range(agreed) : said[r] # "nothing"}) = k
  BY <1>1, <1>2, <1>3, AnsweredCount
<1> QED
  BY <1>4 DEF Answered

LEMMA UnsaidNone ==
  ASSUME TypeOK, Distinct, Unsaid
  PROVE  Answered = 0 /\ AnsweredTo(0) /\ 0 \in 0..Len(agreed)
<1>1. 0 \in 0..Len(agreed)
  BY Types
<1>2. AnsweredTo(0)
  BY DEF AnsweredTo, Unsaid
<1> QED
  BY <1>1, <1>2, AnsweredIs

(* One answer of LMTP is for the first who had none.                          *)
LEMMA LmtpAnswer ==
  ASSUME TypeOK, Dialogue, Pending, NEW code, DotLmtpReply(code)
  PROVE  /\ agreed' = agreed /\ Answered' = Answered + 1
         /\ AnsweredTo(Answered)' /\ Answered' \in 0..Len(agreed')
         /\ Distinct'
<1> DEFINE k == Answered
<1>1. cmd = "dot_lmtp" /\ k < Len(agreed) /\ agreed' = agreed
  BY LmtpLists DEF DotLmtpReply
<1>2. k \in 0..Len(agreed) /\ AnsweredTo(k) /\ Distinct
  BY <1>1 DEF Dialogue
<1> HIDE DEF k
<1>3. k + 1 \in 1..Len(agreed) /\ k \in Nat /\ Len(agreed) \in Nat
  BY <1>1, <1>2, Types
<1>4. PICK r \in Rcpts, w \in {"taken", "deferred", "refused"} :
        r = agreed[k + 1] /\ said' = [said EXCEPT ![r] = w]
  <2>1. PICK r \in Rcpts :
           /\ r = agreed[k + 1]
           /\ said' = [said EXCEPT ![r] = IF Success(code) THEN "taken"
                                          ELSE IF code = "4xx" THEN "deferred" ELSE "refused"]
    BY LmtpWords DEF k
  <2> DEFINE w == IF Success(code) THEN "taken" ELSE IF code = "4xx" THEN "deferred" ELSE "refused"
  <2>2. w \in {"taken", "deferred", "refused"}
    OBVIOUS
  <2> QED
    BY <2>1, <2>2
<1>5. \A i \in 1..Len(agreed) : agreed[i] \in Rcpts
  BY Types
<1>6. said \in [Rcpts -> {"nothing", "taken", "deferred", "refused"}]
  BY Types
<1>7. ASSUME NEW i \in 1..Len(agreed)
      PROVE  said'[agreed[i]] # "nothing" <=> i <= k + 1
  <2>1. CASE i = k + 1
    BY <2>1, <1>3, <1>4, <1>6
  <2>2. CASE i # k + 1
    <3>1. agreed[i] # r
      BY <2>2, <1>2, <1>3, <1>4 DEF Distinct
    <3>2. said'[agreed[i]] = said[agreed[i]]
      BY <3>1, <1>4, <1>5, <1>6
    <3>3. said[agreed[i]] # "nothing" <=> i <= k
      BY <1>2 DEF AnsweredTo
    <3> QED
      BY <2>2, <3>2, <3>3, <1>3
  <2> QED
    BY <2>1, <2>2
<1>8. /\ agreed' \in Seq(Rcpts)
      /\ said' \in [Rcpts -> {"nothing", "taken", "deferred", "refused"}]
  BY <1>1, <1>4, Types
<1>9. /\ k + 1 \in 0..Len(agreed')
      /\ \A i, j \in 1..Len(agreed') : agreed'[i] = agreed'[j] => i = j
      /\ \A i \in 1..Len(agreed') : said'[agreed'[i]] # "nothing" <=> i <= k + 1
  BY <1>1, <1>2, <1>3, <1>7 DEF Distinct
<1>10. Cardinality({x \in Range(agreed') : said'[x] # "nothing"}) = k + 1
  BY <1>8, <1>9, AnsweredCount
<1>11. Answered' = k + 1
  BY <1>10 DEF Answered
<1>12. \A i \in 1..Len(agreed') : said'[agreed'[i]] # "nothing" <=> i <= Answered'
  BY <1>9, <1>11
<1> QED
  BY <1>1, <1>9, <1>11, <1>12 DEF k, AnsweredTo, Distinct

LEMMA RcptDialogue ==
  ASSUME TypeOK, Dialogue, NEW code, RcptReply(code)
  PROVE  /\ Distinct' /\ Unsaid' /\ Untaken' /\ lmtpIdx' = 0
         /\ cmd' = "rcpt" => Ahead'
<1>1. /\ cmd = "rcpt" /\ index \in Rcpts /\ Ahead /\ Distinct /\ Unsaid /\ Untaken /\ lmtpIdx' = 0
  BY RcptLists DEF Dialogue, Late, RcptReply
<1>2. /\ agreed \in Seq(Rcpts) /\ Len(agreed) \in Nat /\ index \in Nat
      /\ said \in [Rcpts -> {"nothing", "taken", "deferred", "refused"}]
  BY Types
<1>3. agreed' = IF Success(code) THEN Append(agreed, index) ELSE agreed
  BY RcptLists
<1>4. PICK w \in {"deferred", "refused", said[index]} :
        said' = [said EXCEPT ![index] = w] /\ (Success(code) => w = said[index])
  <2> DEFINE w == IF code = "4xx" THEN "deferred" ELSE IF code = "5xx" THEN "refused" ELSE said[index]
  <2>1. said' = [said EXCEPT ![index] = w]
    BY <1>1, <1>2 DEF RcptReply
  <2>2. Success(code) => w = said[index]
    BY DEF Success
  <2> QED
    BY <2>1, <2>2
<1>5. said[index] = "nothing"
  BY <1>1, <1>2 DEF Ahead
<1>6. \A r \in Rcpts : said'[r] = IF r = index THEN w ELSE said[r]
  BY <1>1, <1>2, <1>4
<1>7. \A i \in 1..Len(agreed) : agreed[i] \in Rcpts /\ agreed[i] # index /\ agreed[i] < index
  BY <1>1, <1>2 DEF Ahead
<1>8. Untaken'
  BY <1>1, <1>5, <1>6 DEF Untaken, Rcpts
<1>9. Distinct' /\ Unsaid' /\ (\A i \in 1..Len(agreed') : agreed'[i] <= index)
  <2>1. CASE ~Success(code)
    <3>1. agreed' = agreed
      BY <2>1, <1>3
    <3>2. \A i \in 1..Len(agreed) : said'[agreed[i]] = "nothing"
      BY <1>1, <1>6, <1>7 DEF Unsaid
    <3> QED
      BY <3>1, <3>2, <1>1, <1>2, <1>7, Types DEF Distinct, Unsaid, Rcpts
  <2>2. CASE Success(code)
    <3> DEFINE t == Append(agreed, index)
    <3>1. /\ Len(t) = Len(agreed) + 1 /\ t[Len(agreed) + 1] = index
          /\ \A i \in 1..Len(agreed) : t[i] = agreed[i]
      BY <1>1, <1>2, AppendedRange
    <3>2. agreed' = t
      BY <2>2, <1>3
    <3> HIDE DEF t
    <3>3. \A i \in 1..Len(t) : i \in 1..Len(agreed) \/ i = Len(agreed) + 1
      BY <3>1, <1>2
    <3>4. \A i, j \in 1..Len(t) : t[i] = t[j] => i = j
      BY <3>1, <3>3, <1>1, <1>7 DEF Distinct
    <3>5. \A i \in 1..Len(t) : said'[t[i]] = "nothing"
      <4>1. ASSUME NEW i \in 1..Len(agreed) PROVE said'[t[i]] = "nothing"
        BY <3>1, <1>1, <1>6, <1>7 DEF Unsaid
      <4>2. said'[index] = "nothing"
        BY <2>2, <1>1, <1>4, <1>5, <1>6
      <4> QED
        BY <3>1, <3>3, <4>1, <4>2
    <3>6. \A i \in 1..Len(t) : t[i] <= index
      BY <3>1, <3>3, <1>2, <1>7 DEF Rcpts
    <3> QED
      BY <3>2, <3>4, <3>5, <3>6 DEF Distinct, Unsaid
  <2> QED
    BY <2>1, <2>2
<1>10. ASSUME cmd' = "rcpt" PROVE Ahead'
  <2>1. index' = index + 1
    BY <1>10, RcptMoves, SaidTyped, FinishEnds DEF Over
  <2>2. Len(agreed') < index' /\ Len(okRecips') < index'
    <3>1. Len(agreed') \in Nat /\ Len(okRecips') \in Nat
      BY RcptLists
    <3> QED
      BY <2>1, <3>1, <1>2, RcptLists
  <2>3. \A i \in 1..Len(agreed') : agreed'[i] < index'
    <3>1. agreed' \in Seq(1..index)
      BY RcptLists
    <3>2. \A i \in 1..Len(agreed') : agreed'[i] \in 1..index
      BY <3>1, Element
    <3> QED
      BY <3>2, <2>1, <1>2
  <2>4. \A r \in Rcpts : r >= index' => said'[r] = "nothing"
    BY <2>1, <1>1, <1>2, <1>6 DEF Ahead, Rcpts
  <2> QED
    BY <2>2, <2>3, <2>4 DEF Ahead, Rcpts
<1> QED
  BY <1>1, <1>8, <1>9, <1>10

(* What the actions keep that leave the lists and the words alone.            *)
LEMMA WordsKept ==
  ASSUME UNCHANGED <<progress, agreed, said>>
  PROVE  /\ Distinct' = Distinct /\ Fresh' = Fresh /\ Unsaid' = Unsaid /\ Untaken' = Untaken
         /\ Ahead' = Ahead /\ Answered' = Answered /\ AnsweredTo(Answered)' = AnsweredTo(Answered)
BY DEF progress, Distinct, Fresh, Nothing, Unsaid, Untaken, Ahead, Rcpts, Answered, AnsweredTo

LEMMA StepDialogue ==
  ASSUME TypeOK, TypeOK', Awaiting, Dialogue, Pending, [Next]_vars
  PROVE  Dialogue' /\ Pending'
<1> USE DEF Early, Late, Over
<1>1. option' = option /\ Lmtp' = Lmtp
  BY Kinds, Settings
<1>2. CASE UNCHANGED vars
  <2>1. UNCHANGED <<progress, agreed, said>> /\ cmd' = cmd
    BY <1>2 DEF vars, server
  <2> QED
    BY <1>1, <2>1, WordsKept DEF Dialogue, Pending, progress
<1>3. CASE Talk
  <2>1. UNCHANGED <<progress, agreed, said>>
    BY <1>3 DEF Talk, server
  <2>2. CASE Onward
    BY <2>1, <2>2, <1>1, WordsKept DEF Onward, Dialogue, Pending
  <2>3. CASE ToDot
    <3>1. cmd = "data" /\ cmd' = IF Lmtp THEN "dot_lmtp" ELSE "dot"
      BY <2>3 DEF ToDot
    <3>2. Distinct /\ Unsaid /\ Untaken /\ lmtpIdx = 0
      BY <3>1 DEF Dialogue
    <3>3. Answered \in 0..Len(agreed) /\ AnsweredTo(Answered)
      BY <3>2, UnsaidNone
    <3>4. Pending'
      BY <3>1, <2>1 DEF Pending, progress
    <3>5. Answered' \in 0..Len(agreed')
      BY <2>1, <3>3, WordsKept
    <3> QED
      BY <1>1, <2>1, <3>1, <3>2, <3>3, <3>4, <3>5, WordsKept DEF Dialogue, progress
  <2>4. CASE ToHost \/ Silent \/ Doom \/ Again
    BY <2>1, <2>4, <1>1, WordsKept DEF ToHost, Silent, Doom, Again, Dialogue, Pending
  <2> QED
    BY <1>3, <2>2, <2>3, <2>4 DEF Talk
<1>4. CASE TryDeliverHost
  <2>1. CASE UNCHANGED <<cmd, processing, progress, agreed, said>>
    BY <1>1, <1>4, <2>1, TryMoves, WordsKept DEF Dialogue, Pending
  <2>2. CASE Fresh' /\ cmd' \in {"connect", "mail", "none"}
    <3>1. Distinct'
      BY <2>2, Empty DEF Fresh, Distinct
    <3> QED
      BY <3>1, <2>2 DEF Dialogue, Pending
  <2> QED
    BY <1>4, <2>1, <2>2, TryMoves
<1>5. CASE Lose
  BY <1>5, <1>1, WordsKept DEF Lose, Dialogue, Pending
<1>6. ASSUME NEW code, MailTaken(code) PROVE Dialogue' /\ Pending'
  <2>1. cmd = "mail" /\ Fresh
    BY <1>6 DEF MailTaken, Awaited, Dialogue
  <2>2. cmd' \in {"rcpt", "none"}
    BY <1>6, SaidTyped DEF MailTaken
  <2>3. /\ index' = 1 /\ okRecips' = <<>> /\ agreed' = <<>> /\ lmtpIdx' = 0
        /\ said' = [r \in Rcpts |-> "nothing"]
    BY <1>6, <2>1 DEF MailTaken, Fresh, server, Nothing
  <2>4. Distinct' /\ Unsaid' /\ Untaken' /\ Ahead'
    <3>1. Len(agreed') = 0 /\ Len(okRecips') = 0
      BY <2>3, Empty
    <3>2. Distinct' /\ Unsaid'
      BY <3>1 DEF Distinct, Unsaid
    <3>3. Untaken'
      BY <2>3 DEF Untaken, Rcpts
    <3>4. Ahead'
      BY <2>3, <3>1 DEF Ahead, Rcpts
    <3> QED
      BY <3>2, <3>3, <3>4
  <2> QED
    BY <2>2, <2>3, <2>4 DEF Dialogue, Pending
<1>7. ASSUME NEW code, RcptReply(code) PROVE Dialogue' /\ Pending'
  <2>1. cmd' \in {"rcpt", "data"} \cup Over /\ (cmd' = "data" => okRecips' # <<>>)
    BY <1>7, RcptMoves, SaidTyped, FinishEnds
  <2>2. Len(okRecips') \in Nat /\ (okRecips' # <<>> => Len(okRecips') > 0)
    BY Types DEF TypeOK
  <2>3. Dialogue'
    BY <1>7, <2>1, RcptDialogue DEF Dialogue
  <2>4. Pending'
    BY <1>7, <2>1, <2>2, RcptDialogue DEF Pending
  <2> QED
    BY <2>3, <2>4
<1>8. ASSUME NEW code, DotReply(code) PROVE Dialogue' /\ Pending'
  <2>1. cmd' \in Over /\ agreed' = agreed
    BY <1>8, FinishEnds DEF DotReply
  <2> QED
    BY <2>1 DEF Dialogue, Pending, Distinct
<1>9. ASSUME NEW code, DotLmtpReply(code) PROVE Dialogue' /\ Pending'
  <2>1. cmd = "dot_lmtp" /\ Lmtp
    BY <1>9, LmtpLists DEF Dialogue
  <2>2. CASE cmd' \in Over
    BY <1>9, <2>2, LmtpAnswer DEF Dialogue, Pending
  <2>3. CASE cmd' = cmd /\ lmtpIdx' # Len(okRecips')
    <3>1. lmtpIdx' < Len(okRecips')
      BY <1>9, <2>3, LmtpLists
    <3> QED
      BY <1>1, <1>9, <2>1, <2>3, <3>1, LmtpAnswer DEF Dialogue, Pending
  <2> QED
    BY <1>9, <2>2, <2>3, LmtpMoves, FinishEnds
<1> QED
  BY <1>2, <1>3, <1>4, <1>5, <1>6, <1>7, <1>8, <1>9, Kinds
-----------------------------------------------------------------------------
(* What the server has taken.                                                 *)
Untouched == \A r \in Rcpts : accepted[r] = 0

(* Before the dot, and while a mail is reset, nobody has it.                  *)
LEMMA UntouchedBefore ==
  ASSUME Quiet, Unspent, LmtpByTheLetter, ~cutShort, cmd \notin {"dot_lmtp", "none", "quit"}
  PROVE  Untouched
BY DEF Quiet, Unspent, Untouched, Over

LEMMA UntouchedAfter ==
  ASSUME UNCHANGED accepted, Untouched, cmd' # "dot_lmtp"
  PROVE  Unspent'
BY DEF Unspent, Untouched, Rcpts

LEMMA LetterKept ==
  ASSUME UNCHANGED option, LmtpByTheLetter' /\ ~cutShort' => Unspent'
  PROVE  Unspent'
BY DEF Unspent

LEMMA TalkUnspent ==
  ASSUME TypeOK, Quiet, Dialogue, Unspent, Talk, LmtpByTheLetter, ~cutShort
  PROVE  Unspent'
<1> USE DEF Early, Late, Over
<1>1. UNCHANGED <<accepted, said>>
  BY DEF Talk, server
<1>2. CASE cmd = "quit"
  <2>1. cmd' = "none" /\ verdicts' = verdicts
    BY <1>2 DEF Talk, Onward, ToDot, ToHost, Silent, Doom, Again
  <2> QED
    BY <1>1, <1>2, <2>1 DEF Unspent, LmtpByTheLetter, Talk, server, Lmtp, Rcpts
<1>3. CASE cmd # "quit"
  <2>1. cmd \notin {"none", "dot_lmtp"}
    <3>1. cmd # "none"
      BY DEF Talk, Onward, ToDot, ToHost, Silent, Doom, Again
    <3>2. cmd = "dot_lmtp" => Lmtp /\ option.codes \cap {"3xx", "bad"} # {}
      BY DEF Dialogue, Talk, Onward, ToDot, ToHost, Silent, Doom, Again
    <3> QED
      BY <3>1, <3>2 DEF LmtpByTheLetter
  <2>2. Untouched
    BY <1>3, <2>1, UntouchedBefore
  <2>3. CASE cmd' # "dot_lmtp"
    BY <1>1, <2>2, <2>3, UntouchedAfter
  <2>4. CASE cmd' = "dot_lmtp"
    <3>1. cmd = "data"
      BY <2>4 DEF Talk, Onward, ToDot, ToHost, Silent, Doom, Again
    <3>2. \A r \in Rcpts : said[r] # "taken"
      BY <3>1 DEF Dialogue, Untaken
    <3>3. \A r \in Rcpts : accepted'[r] = 0 /\ said'[r] # "taken"
      BY <1>1, <2>2, <3>2 DEF Untouched
    <3> QED
      BY <2>4, <3>3 DEF Unspent, Rcpts
  <2> QED
    BY <2>3, <2>4
<1> QED
  BY <1>2, <1>3

LEMMA LoseUnspent ==
  ASSUME TypeOK, Awaiting, Quiet, Unspent, Lose, LmtpByTheLetter, ~cutShort'
  PROVE  Unspent'
<1>1. /\ cmd' = "host" /\ processing
      /\ UNCHANGED accepted /\ cutShort' = (cutShort \/ (cmd = "dot_lmtp" /\ \E r \in Rcpts : said[r] = "taken"))
  BY DEF Lose, Concerned
<1>2. ~cutShort /\ (cmd = "dot_lmtp" => \A r \in Rcpts : said[r] # "taken")
  BY <1>1
<1>3. cmd \notin Over
  BY <1>1 DEF Awaiting, Early, Late, Over
<1>4. Untouched
  <2>1. CASE cmd = "dot_lmtp"
    BY <1>2, <2>1 DEF Unspent, Untouched
  <2>2. CASE cmd # "dot_lmtp"
    BY <1>2, <1>3, <2>2, UntouchedBefore DEF Over
  <2> QED
    BY <2>1, <2>2
<1> QED
  BY <1>1, <1>4, UntouchedAfter

LEMMA DotUnspent ==
  ASSUME TypeOK, Quiet, Unspent, NEW code, DotReply(code), LmtpByTheLetter, ~cutShort
  PROVE  Unspent'
<1>1. cmd = "dot" /\ verdicts = {}
  BY DEF DotReply, Awaited, Quiet, Over
<1>2. Untouched
  BY <1>1, UntouchedBefore
<1>3. \A r \in Rcpts : accepted'[r] <= 1
  BY <1>2 DEF Untouched, DotReply, Taken
<1>4. verdicts' = {"finished"} /\ cmd' \in {"none", "quit"}
  BY <1>1, FinishEnds DEF DotReply, Over
<1> QED
  BY <1>3, <1>4 DEF Unspent, Rcpts

LEMMA LmtpUnspent ==
  ASSUME TypeOK, Quiet, Dialogue, Pending, Unspent, NEW code, DotLmtpReply(code),
         LmtpByTheLetter, ~cutShort
  PROVE  Unspent'
<1>1. cmd = "dot_lmtp" /\ verdicts = {} /\ Lmtp
  BY LmtpLists DEF Quiet, Over, Dialogue
<1>2. \A r \in Rcpts : accepted[r] = IF said[r] = "taken" THEN 1 ELSE 0
  BY <1>1 DEF Unspent
<1>3. PICK q \in Rcpts :
           /\ q = agreed[Answered + 1]
           /\ said' = [said EXCEPT ![q] = IF Success(code) THEN "taken"
                                          ELSE IF code = "4xx" THEN "deferred" ELSE "refused"]
           /\ accepted' = IF Success(code) THEN [accepted EXCEPT ![q] = @ + 1] ELSE accepted
  BY LmtpWords
<1>4. said[q] = "nothing"
  <2>1. Answered \in 0..Len(agreed) /\ AnsweredTo(Answered) /\ Answered < Len(agreed)
    BY <1>1, LmtpLists DEF Dialogue
  <2>2. Answered + 1 \in 1..Len(agreed) /\ ~(Answered + 1 <= Answered)
    BY <2>1, Types
  <2> QED
    BY <1>3, <2>1, <2>2 DEF AnsweredTo
<1>5. \A r \in Rcpts : accepted'[r] = IF said'[r] = "taken" THEN 1 ELSE 0
  <2>1. /\ accepted \in [Rcpts -> Nat]
        /\ said \in [Rcpts -> {"nothing", "taken", "deferred", "refused"}]
    BY Types
  <2>2. CASE Success(code)
    BY <2>1, <2>2, <1>2, <1>3, <1>4
  <2>3. CASE ~Success(code)
    BY <2>1, <2>3, <1>2, <1>3, <1>4
  <2> QED
    BY <2>2, <2>3
<1>6. \A r \in Rcpts : accepted'[r] <= 1
  BY <1>5
<1>7. \/ cmd' = "dot_lmtp"
      \/ verdicts' = {"finished"} /\ cmd' \in {"none", "quit"}
  BY <1>1, LmtpMoves, FinishEnds DEF Over
<1> QED
  BY <1>5, <1>6, <1>7 DEF Unspent, Rcpts

LEMMA StepUnspent ==
  ASSUME TypeOK, Awaiting, Quiet, Dialogue, Pending, Unspent, [Next]_vars
  PROVE  Unspent'
<1>0. UNCHANGED option /\ LmtpByTheLetter' = LmtpByTheLetter
  BY Kinds, Settings
<1> SUFFICES ASSUME LmtpByTheLetter, ~cutShort' PROVE Unspent'
  BY <1>0, LetterKept
<1>1. CASE UNCHANGED vars
  BY <1>1 DEF vars, server, Unspent, LmtpByTheLetter, Lmtp, Rcpts
<1>2. CASE Talk
  BY <1>2, TalkUnspent DEF Talk, server
<1>3. CASE TryDeliverHost
  <2>1. cmd = "host" /\ UNCHANGED <<accepted, cutShort>> /\ cmd' \in {"host", "connect", "mail", "none"}
    BY <1>3, TryMoves
  <2> QED
    BY <2>1, UntouchedBefore, UntouchedAfter
<1>4. CASE Lose
  BY <1>4, LoseUnspent
<1>5. ASSUME NEW code, MailTaken(code) \/ RcptReply(code) PROVE Unspent'
  <2>1. cmd \in {"mail", "rcpt"} /\ UNCHANGED <<accepted, cutShort>>
    BY <1>5 DEF MailTaken, RcptReply, Awaited, server
  <2>2. cmd' \in {"rcpt", "data"} \cup Over
    BY <1>5, SaidTyped, RcptMoves, FinishEnds DEF MailTaken, Over
  <2> QED
    BY <2>1, <2>2, UntouchedBefore, UntouchedAfter DEF Over
<1>6. ASSUME NEW code, DotReply(code) PROVE Unspent'
  BY <1>6, DotUnspent DEF DotReply
<1>7. ASSUME NEW code, DotLmtpReply(code) PROVE Unspent'
  BY <1>7, LmtpUnspent DEF DotLmtpReply
<1> QED
  BY <1>1, <1>2, <1>3, <1>4, <1>5, <1>6, <1>7, Kinds
-----------------------------------------------------------------------------
(* The lists.                                                                 *)
LEMMA ListsKept ==
  ASSUME UNCHANGED <<option, progress, agreed, said>>
  PROVE  /\ \A n : Sorted(n)' = Sorted(n)
         /\ AllSorted' = AllSorted /\ Balanced' = Balanced
         /\ SortedAsSaid' = SortedAsSaid /\ EveryoneHeard' = EveryoneHeard
         /\ Plain' = Plain /\ Lmtp' = Lmtp /\ Rcpts' = Rcpts
<1> USE DEF Rcpts
<1>1. \A n : Sorted(n)' = Sorted(n)
  BY DEF progress, Sorted
<1>2. Balanced' = Balanced
  BY WordsKept DEF progress, Balanced
<1> QED
  BY <1>1, <1>2 DEF progress, AllSorted, SortedAsSaid, EveryoneHeard, Plain, Lmtp

LEMMA Unfinished ==
  ASSUME verdicts' = {}
  PROVE  VerdictsTruthful'
BY DEF VerdictsTruthful, Finished

(* All were named and none is still to be answered for.                       *)
LEMMA SortedAll ==
  ASSUME TypeOK, Sorted(NumRcpts)
  PROVE  AllSorted \/ (\E r \in Rcpts : said[r] = "taken")
BY Types DEF Sorted, AllSorted, Rcpts

LEMMA TalkLists ==
  ASSUME TypeOK, Dialogue, Lists, Talk
  PROVE  Lists'
<1> USE DEF Early, Late, Over
<1>1. UNCHANGED <<option, progress, agreed, said>>
  BY DEF Talk, server
<1>2. CASE ToDot
  <2> SUFFICES ASSUME Plain PROVE Lists'
    BY <1>1, ListsKept DEF Lists
  <2>1. cmd = "data" /\ cmd' \in {"dot", "dot_lmtp"}
    BY <1>2 DEF ToDot
  <2>2. Sorted(NumRcpts) /\ Distinct /\ Unsaid /\ Untaken /\ lmtpIdx = 0
    BY <2>1 DEF Lists, Dialogue
  <2>3. Balanced
    BY <2>2, UnsaidNone, Types DEF Sorted, Balanced
  <2>4. AllSorted
    BY <2>2, SortedAll DEF Untaken
  <2> QED
    BY <1>1, <2>1, <2>2, <2>3, <2>4, ListsKept DEF Lists
<1>3. CASE ~ToDot
  <2>1. cmd' \in Early \cup Over \cup {"host"}
    BY <1>3 DEF Talk, Onward, ToHost, Silent, Doom, Again
  <2> QED
    BY <2>1 DEF Lists
<1> QED
  BY <1>2, <1>3

LEMMA TalkTruthful ==
  ASSUME VerdictsTruthful, Talk
  PROVE  VerdictsTruthful'
<1>1. UNCHANGED <<option, progress, agreed, said>>
  BY DEF Talk, server
<1>2. Finished' => Finished
  BY DEF Finished, Talk, Onward, ToDot, ToHost, Silent, Doom, Again
<1>3. UNCHANGED <<okRecips, failRecips, bounceRecips>>
  BY <1>1 DEF progress
<1> QED
  BY <1>1, <1>2, <1>3, ListsKept DEF VerdictsTruthful

(* RCPT: one recipient more is named.                                         *)
LEMMA RcptSorted ==
  ASSUME TypeOK, Dialogue, Sorted(index - 1), NEW code, RcptReply(code), code # "251",
         NEW n, n = index
  PROVE  Sorted(n)'
<1>1. /\ cmd = "rcpt" /\ index \in Rcpts /\ Ahead
      /\ index \in Nat /\ \A r \in Rcpts : r \in Nat
      /\ agreed \in Seq(Rcpts) /\ okRecips = agreed
      /\ said \in [Rcpts -> {"nothing", "taken", "deferred", "refused"}]
  BY RcptLists, Types DEF Dialogue, Sorted, Rcpts
<1>2. said[index] = "nothing"
  BY <1>1 DEF Ahead
<1>3. code \in {"250", "4xx", "5xx"}
  BY DEF RcptReply
<1>4. \A r \in Rcpts : r <= index <=> r = index \/ r <= index - 1
  BY <1>1
<1>5. /\ Range(agreed) = {r \in Rcpts : r <= index - 1 /\ said[r] = "nothing"}
      /\ failRecips    = {r \in Rcpts : said[r] = "deferred"}
      /\ bounceRecips  = {r \in Rcpts : said[r] = "refused"}
  BY DEF Sorted
<1>6. CASE code = "250"
  <2>1. okRecips' = Append(agreed, index) /\ agreed' = Append(agreed, index)
    BY <1>1, <1>6, RcptLists DEF Success
  <2>2. Range(agreed') = Range(agreed) \cup {index}
    BY <1>1, <2>1, AppendedRange
  <2>3. said' = said /\ failRecips' = failRecips /\ bounceRecips' = bounceRecips
    BY <1>1, <1>6 DEF RcptReply
  <2>4. Range(agreed') = {r \in Rcpts : r <= n /\ said'[r] = "nothing"}
    BY <1>1, <1>2, <1>4, <1>5, <2>2, <2>3
  <2> QED
    BY <1>5, <2>1, <2>3, <2>4 DEF Sorted, Rcpts
<1>7. CASE code # "250"
  <2>1. okRecips' = okRecips /\ agreed' = agreed
    BY <1>3, <1>7, RcptLists DEF Success
  <2>2. PICK w \in {"deferred", "refused"} :
          said' = [said EXCEPT ![index] = w] /\ w = IF code = "4xx" THEN "deferred" ELSE "refused"
    BY <1>3, <1>7 DEF RcptReply
  <2>3. \A r \in Rcpts : said'[r] = IF r = index THEN w ELSE said[r]
    BY <1>1, <2>2
  <2>4. failRecips' = {r \in Rcpts : said'[r] = "deferred"}
    <3>1. failRecips' = IF code = "4xx" THEN failRecips \cup {index} ELSE failRecips
      BY DEF RcptReply
    <3> QED
      BY <1>1, <1>2, <1>5, <2>2, <2>3, <3>1
  <2>5. bounceRecips' = {r \in Rcpts : said'[r] = "refused"}
    <3>1. bounceRecips' = IF code = "5xx" THEN bounceRecips \cup {index} ELSE bounceRecips
      BY DEF RcptReply
    <3> QED
      BY <1>1, <1>2, <1>3, <1>5, <1>7, <2>2, <2>3, <3>1
  <2>6. Range(agreed') = {r \in Rcpts : r <= n /\ said'[r] = "nothing"}
    <3>1. ASSUME NEW r \in Rcpts
          PROVE  r <= n /\ said'[r] = "nothing" <=> r <= index - 1 /\ said[r] = "nothing"
      BY <1>1, <1>4, <2>2, <2>3
    <3> QED
      BY <1>5, <2>1, <3>1
  <2> QED
    BY <1>1, <2>1, <2>4, <2>5, <2>6 DEF Sorted, Rcpts
<1> QED
  BY <1>6, <1>7

LEMMA RcptListed ==
  ASSUME TypeOK, TypeOK', Quiet, Dialogue, Lists, NEW code, RcptReply(code), Plain, code # "251",
         UNCHANGED option
  PROVE  Lists' /\ VerdictsTruthful'
<1>1. cmd = "rcpt" /\ index \in Nat
  BY RcptLists, Types
<1>2. Sorted(index - 1)
  BY <1>1 DEF Lists
<1>3. ASSUME NEW n, n = index PROVE Sorted(n)'
  BY <1>2, <1>3, RcptSorted
<1>4. verdicts = {}
  BY <1>1 DEF Quiet, Over
<1>5. CASE ~LastRcpt /\ index' = index + 1 /\ Say("rcpt") /\ verdicts' = verdicts
  <2>1. cmd' \in {"rcpt", "none"}
    BY <1>5, SaidTyped
  <2>2. PICK n : n = index
    OBVIOUS
  <2>3. index' - 1 = n
    BY <1>1, <1>5, <2>2
  <2>4. Sorted(index - 1)'
    BY <1>3, <2>2, <2>3 DEF Sorted
  <2> QED
    BY <1>4, <1>5, <2>1, <2>4, Unfinished DEF Lists
<1>6. CASE LastRcpt /\ index' = index /\ okRecips' # <<>> /\ Say("data") /\ verdicts' = verdicts
  <2>1. cmd' \in {"data", "none"}
    BY <1>6, SaidTyped
  <2>2. Sorted(NumRcpts)'
    BY <1>3, <1>6 DEF LastRcpt
  <2> QED
    BY <1>4, <1>6, <2>1, <2>2, Unfinished DEF Lists
<1>7. CASE LastRcpt /\ index' = index /\ okRecips' = <<>> /\ FinishProcessingMail(FALSE)
  <2>1. cmd' \in Over
    BY <1>7, FinishEnds
  <2>2. Sorted(NumRcpts)' /\ Untaken'
    BY <1>3, <1>7, RcptDialogue DEF LastRcpt
  <2>3. Range(agreed') = {} /\ Range(okRecips') = {} /\ agreed' = <<>>
    BY <1>7, <2>2 DEF Sorted, Range
  <2>4. said' \in [Rcpts -> {"nothing", "taken", "deferred", "refused"}]
    BY RcptLists
  <2>5. SortedAsSaid'
    BY <2>2, <2>3 DEF Sorted, SortedAsSaid, Untaken, Rcpts
  <2>6. \A r \in Rcpts : said'[r] \in {"deferred", "refused"}
    <3> TAKE r \in Rcpts
    <3>1. said'[r] # "taken"
      BY <2>2 DEF Untaken
    <3>2. r <= NumRcpts /\ r \notin Range(agreed')
      BY <2>3, Types DEF Rcpts
    <3>3. said'[r] # "nothing"
      BY <2>2, <3>2 DEF Sorted
    <3> QED
      BY <2>4, <3>1, <3>3
  <2>7. (Range(okRecips') \cup failRecips' \cup bounceRecips') = Rcpts
    BY <2>2, <2>3, <2>6 DEF Sorted, Rcpts
  <2>8. EveryoneHeard'
    BY <2>3 DEF EveryoneHeard
  <2> QED
    BY <2>1, <2>5, <2>7, <2>8 DEF Lists, VerdictsTruthful, Rcpts, Over
<1> QED
  BY <1>5, <1>6, <1>7, RcptMoves

(* The dot: whoever the server had agreed to was taken.                       *)
LEMMA DotListed ==
  ASSUME TypeOK, Dialogue, Lists, NEW code, DotReply(code), Plain, UNCHANGED option
  PROVE  Lists' /\ VerdictsTruthful'
<1>1. cmd = "dot" /\ cmd' \in Over /\ ~Lmtp /\ Lmtp' = Lmtp
  BY FinishEnds, Settings DEF DotReply, Awaited, Dialogue
<1>2. Sorted(NumRcpts) /\ Untaken
  BY <1>1 DEF Lists, Dialogue, Late
<1>3. UNCHANGED <<okRecips, failRecips, bounceRecips, agreed>>
  BY DEF DotReply, progress
<1>4. /\ said \in [Rcpts -> {"nothing", "taken", "deferred", "refused"}]
      /\ \A r \in Rcpts : r <= NumRcpts
  BY Types DEF Rcpts
<1>5. \A r \in Rcpts : said'[r] = IF r \in Range(agreed) THEN "taken" ELSE said[r]
  BY DEF DotReply, Taken
<1>6. Range(okRecips) = Range(agreed) /\ Range(agreed) = {r \in Rcpts : said[r] = "nothing"}
  BY <1>2, <1>4 DEF Sorted
<1>7. Range(okRecips) = {r \in Rcpts : said'[r] = "taken"}
  BY <1>2, <1>5, <1>6 DEF Untaken
<1>8. failRecips = {r \in Rcpts : said'[r] = "deferred"}
  BY <1>2, <1>5, <1>6 DEF Sorted
<1>9. bounceRecips = {r \in Rcpts : said'[r] = "refused"}
  BY <1>2, <1>5, <1>6 DEF Sorted
<1>10. (Range(okRecips) \cup failRecips \cup bounceRecips) = Rcpts
  BY <1>2, <1>4, <1>6 DEF Sorted, Untaken
<1>11. SortedAsSaid'
  BY <1>3, <1>7, <1>8, <1>9 DEF SortedAsSaid, Rcpts
<1> QED
  BY <1>1, <1>3, <1>10, <1>11 DEF Lists, VerdictsTruthful, Rcpts, Over

(* The answers to the dot of LMTP.                                            *)
LEMMA LmtpListed ==
  ASSUME TypeOK, TypeOK', Quiet, Dialogue, Pending, Lists, NEW code, DotLmtpReply(code), Plain,
         UNCHANGED option
  PROVE  Lists' /\ VerdictsTruthful'
<1>1. cmd = "dot_lmtp" /\ Lmtp /\ verdicts = {} /\ Lmtp'
  BY LmtpLists, Settings DEF Dialogue, Quiet, Over
<1>2. AllSorted /\ Balanced
  BY <1>1 DEF Lists
<1>3. AllSorted'
  <2>1. code \in {"250", "251", "4xx", "5xx"}
        /\ failRecips' = (IF code = "4xx" THEN failRecips \cup {Head(okRecips)} ELSE failRecips)
        /\ bounceRecips' = (IF code = "5xx" THEN bounceRecips \cup {Head(okRecips)} ELSE bounceRecips)
    BY DEF DotLmtpReply
  <2>2. CASE Success(code)
    BY <1>2, <2>1, <2>2, LmtpLists DEF AllSorted, Success, Rcpts
  <2>3. CASE ~Success(code)
    <3>1. Range(okRecips) = {Head(okRecips)} \cup Range(okRecips')
      BY <2>3, LmtpLists
    <3>2. Head(okRecips) \in failRecips' \cup bounceRecips'
      BY <2>1, <2>3 DEF Success
    <3>3. Range(okRecips) \cup failRecips \cup bounceRecips
            = Range(okRecips') \cup failRecips' \cup bounceRecips'
      BY <2>1, <3>1, <3>2
    <3> QED
      BY <1>2, <3>3 DEF AllSorted, Rcpts
  <2> QED
    BY <2>2, <2>3
<1>4. Balanced'
  <2>1. /\ Answered' = Answered + 1 /\ agreed' = agreed /\ Answered \in Nat
        /\ Len(okRecips) \in Nat /\ Len(agreed) \in Nat /\ lmtpIdx \in Nat
    BY <1>1, LmtpAnswer, Types DEF Dialogue
  <2>2. CASE Success(code)
    BY <1>2, <2>1, <2>2, LmtpLists DEF Balanced
  <2>3. CASE ~Success(code)
    <3>1. Len(okRecips') = Len(okRecips) - 1 /\ lmtpIdx' = lmtpIdx
      BY <2>3, LmtpLists
    <3> QED
      BY <1>2, <2>1, <3>1 DEF Balanced
  <2> QED
    BY <2>2, <2>3
<1>5. CASE UNCHANGED <<cmd, processing, verdicts>>
  BY <1>1, <1>3, <1>4, <1>5, Unfinished DEF Lists
<1>6. CASE cmd' \in Over /\ lmtpIdx' = Len(okRecips')
  <2>1. Answered' = Len(agreed')
    <3>1. Answered' \in Nat /\ Len(okRecips') \in Nat /\ Len(agreed') \in Nat
      BY LmtpAnswer, Types
    <3> QED
      BY <1>4, <1>6, <3>1 DEF Balanced
  <2>2. \A i \in 1..Len(agreed') : said'[agreed'[i]] # "nothing"
    BY <2>1, LmtpAnswer DEF AnsweredTo
  <2>3. agreed' \in Seq(Rcpts)
    BY LmtpLists, LmtpAnswer, Types
  <2>4. EveryoneHeard'
    BY <2>2, <2>3 DEF EveryoneHeard, Range
  <2> QED
    BY <1>1, <1>3, <1>6, <2>4 DEF Lists, VerdictsTruthful, AllSorted, Rcpts, Over
<1>7. ASSUME okRecips' = <<>> PROVE lmtpIdx' = Len(okRecips')
  <2>1. Len(okRecips') = 0
    BY <1>7, Empty
  <2> QED
    BY <2>1, LmtpLists
<1> QED
  BY <1>5, <1>6, <1>7, LmtpMoves, FinishEnds

LEMMA StepListed ==
  ASSUME TypeOK, TypeOK', Awaiting, Quiet, Dialogue, Pending, Lists, Plain => VerdictsTruthful,
         [Next]_vars
  PROVE  Lists' /\ (Plain' => VerdictsTruthful')
<1>0. UNCHANGED option /\ Plain' = Plain
  BY Kinds, Settings
<1> SUFFICES ASSUME Plain PROVE Lists' /\ VerdictsTruthful'
  BY <1>0 DEF Lists
<1>1. CASE UNCHANGED vars
  <2>1. UNCHANGED <<option, progress, agreed, said>> /\ UNCHANGED <<cmd, verdicts>>
    BY <1>1 DEF vars, server
  <2>2. UNCHANGED <<index, okRecips, failRecips, bounceRecips>> /\ NumRcpts' = NumRcpts
    BY <2>1 DEF progress
  <2>3. Sorted(index - 1)' = Sorted(index - 1) /\ Sorted(NumRcpts)' = Sorted(NumRcpts)
    BY <2>1, <2>2, Zenon DEF Sorted, Rcpts
  <2>4. Lists'
    BY <2>1, <2>3, ListsKept DEF Lists
  <2> QED
    BY <2>1, <2>2, <2>4, ListsKept DEF VerdictsTruthful, Finished
<1>2. CASE Talk
  BY <1>2, TalkLists, TalkTruthful
<1>3. CASE TryDeliverHost \/ Lose
  <2>1. cmd' \in {"host", "connect", "mail", "none"}
    BY <1>3, TryMoves DEF Lose
  <2>2. cmd \notin Over /\ verdicts' = verdicts
    BY <1>3, TryMoves DEF Lose, Concerned, Awaiting, Early, Late, Over
  <2> QED
    BY <2>1, <2>2, Unfinished DEF Lists, Quiet
<1>4. ASSUME NEW code, MailTaken(code) PROVE Lists' /\ VerdictsTruthful'
  <2>1. cmd = "mail" /\ Fresh /\ verdicts' = verdicts /\ verdicts = {}
    BY <1>4 DEF MailTaken, Awaited, Dialogue, Early, Quiet, Over
  <2>2. cmd' \in {"rcpt", "none"}
    BY <1>4, SaidTyped DEF MailTaken
  <2>3. /\ index' = 1 /\ okRecips' = <<>> /\ agreed' = <<>> /\ failRecips' = {} /\ bounceRecips' = {}
        /\ said' = [r \in Rcpts |-> "nothing"]
    BY <1>4, <2>1 DEF MailTaken, Fresh, server, Nothing
  <2>4. Range(agreed') = {}
    BY <2>3 DEF Range
  <2>5. {r \in Rcpts : r <= 0 /\ said'[r] = "nothing"} = {}
    BY Types DEF Rcpts
  <2>6. index' - 1 = 0
    BY <2>3
  <2>7. Sorted(index - 1)'
    BY <2>3, <2>4, <2>5, <2>6 DEF Sorted, Rcpts
  <2> QED
    BY <2>1, <2>2, <2>7, Unfinished DEF Lists
<1>5. ASSUME NEW code \in option.codes, RcptReply(code) \/ DotReply(code) \/ DotLmtpReply(code)
      PROVE  Lists' /\ VerdictsTruthful'
  <2>1. code # "251"
    BY DEF Plain
  <2> QED
    BY <1>0, <1>5, <2>1, RcptListed, DotListed, LmtpListed
<1> QED
  BY <1>1, <1>2, <1>3, <1>4, <1>5, Kinds
-----------------------------------------------------------------------------
(* The invariant is inductive.                                                *)
LEMMA InitInv == Init => IInv
<1> SUFFICES ASSUME Init PROVE IInv
  OBVIOUS
<1>1. TypeOK /\ Awaiting /\ Quiet /\ AtMostOne /\ ForcedTlsKept
  BY InitTyped DEF Init, Awaiting, Quiet, AtMostOne, ForcedTlsKept, Early, Late
<1>2. Dialogue /\ Pending /\ Lists
  <2>1. Distinct
    BY Empty DEF Init, Distinct
  <2> QED
    BY <2>1 DEF Init, Dialogue, Pending, Lists, Early, Late
<1>3. Unspent
  BY DEF Init, Unspent
<1>4. VerdictsTruthful
  BY DEF Init, VerdictsTruthful, Finished
<1> QED
  BY <1>1, <1>2, <1>3, <1>4 DEF IInv

LEMMA StepInv == IInv /\ [Next]_vars => IInv'
<1> SUFFICES ASSUME IInv, [Next]_vars PROVE IInv'
  OBVIOUS
<1>1. /\ TypeOK /\ Awaiting /\ Quiet /\ AtMostOne /\ ForcedTlsKept
      /\ Dialogue /\ Pending /\ Unspent /\ Lists
      /\ Plain => VerdictsTruthful
  BY DEF IInv
<1>2. TypeOK'
  BY <1>1, StepTyped
<1>3. Awaiting' /\ Quiet' /\ AtMostOne'
  BY <1>1, StepPlaced
<1>4. ForcedTlsKept'
  BY <1>1, StepForced
<1>5. Dialogue' /\ Pending'
  BY <1>1, <1>2, StepDialogue
<1>6. Unspent'
  BY <1>1, StepUnspent
<1>7. Lists' /\ (Plain' => VerdictsTruthful')
  BY <1>1, <1>2, StepListed
<1> QED
  BY <1>2, <1>3, <1>4, <1>5, <1>6, <1>7 DEF IInv

THEOREM Invariance == Spec => []IInv
BY InitInv, StepInv, PTL DEF Spec
-----------------------------------------------------------------------------
(* Every list of hmail.js holds recipients of the mail only, those named so   *)
(* far; and send_command, the sockets and the verdicts stay in their ranges.  *)
THEOREM TypeCorrect == Spec => []TypeOK
<1>1. IInv => TypeOK
  BY DEF IInv
<1> QED
  BY <1>1, Invariance, PTL

(* Over a connection that is not encrypted and authorized nothing of a mail   *)
(* whose TLS is forced is said, whichever way the connection was come by.     *)
THEOREM ForcedTls == Spec => []ForcedTlsKept
<1>1. IInv => ForcedTlsKept
  BY DEF IInv
<1> QED
  BY <1>1, Invariance, PTL

(* One attempt gives one verdict, if the servers answer by the letter.        *)
THEOREM OneVerdictOnly == Spec => []OneVerdict
<1>1. ASSUME IInv PROVE OneVerdict
  <2> SUFFICES ASSUME option.codes \subseteq Orderly PROVE Cardinality(verdicts) <= 1
    BY DEF OneVerdict
  <2>1. \A v, w \in verdicts : v = w
    BY <1>1 DEF IInv, AtMostOne
  <2>2. CASE verdicts = {}
    BY <2>2, FS_EmptySet
  <2>3. CASE verdicts # {}
    <3>1. PICK v : v \in verdicts
      BY <2>3
    <3>2. verdicts = {v}
      BY <2>1, <3>1
    <3>3. Cardinality({v}) = 1
      BY FS_Singleton
    <3> QED
      BY <3>2, <3>3
  <2> QED
    BY <2>2, <2>3
<1> QED
  BY <1>1, Invariance, PTL

(* No recipient gets the mail twice from one attempt, nor does one get a mail *)
(* that is bounced or put off as a whole, unless a connection was lost after  *)
(* a server had taken it. An LMTP server that says 3xx or nonsense half way   *)
(* through its answers makes hmail.js put off what it has delivered: where    *)
(* the settings have such servers it does not hold.                           *)
THEOREM NobodyTwice ==
  ASSUME \A o \in Options : o.lmtp => o.codes \cap {"3xx", "bad"} = {}
  PROVE  Spec => []TakenOnce
<1>1. ASSUME IInv PROVE TakenOnce
  <2> SUFFICES ASSUME ~cutShort
               PROVE  /\ \A r \in Rcpts : accepted[r] <= 1
                      /\ verdicts \ {"finished"} # {} => \A r \in Rcpts : accepted[r] = 0
    BY DEF TakenOnce
  <2>1. LmtpByTheLetter
    BY <1>1 DEF IInv, TypeOK, LmtpByTheLetter, Lmtp
  <2>2. verdicts # {} => cmd # "dot_lmtp"
    BY <1>1 DEF IInv, Quiet, Over
  <2> QED
    BY <1>1, <2>1, <2>2 DEF IInv, Unspent
<1> QED
  BY <1>1, Invariance, PTL

(* finish_processing_mail leaves nobody out and sorts as the server said, if  *)
(* no server answers RCPT with 251, which rcpt_to takes for granted and puts  *)
(* in no list.                                                                *)
THEOREM SortedTruthfully ==
  ASSUME \A o \in Options : "251" \notin o.codes
  PROVE  Spec => []VerdictsTruthful
<1>1. ASSUME IInv PROVE VerdictsTruthful
  <2>1. Plain
    BY <1>1 DEF IInv, TypeOK, Plain
  <2> QED
    BY <1>1, <2>1 DEF IInv
<1> QED
  BY <1>1, Invariance, PTL

-----------------------------------------------------------------------------
(* The policy of a sender. Calls of check_host hand each other results: what is *)
(* claimed of a result must be claimed of every call that still carries one,    *)
(* with whether the record is included or not, and a call must know its way     *)
(* back to the check it serves. That a check is heard once rests on where its   *)
(* evaluation is: in the call that is due, in one query, or in the queries of   *)
(* one group, whose number the code keeps in pending.                           *)

MechNames == {"all", "a", "mx", "ptr", "exists", "ip", "include"}

CallFrame ==
  [check : Checks, obj : Nat, domain : Domains, included : BOOLEAN,
   back : [to : Checks \cup {"included", "mod_chain"}, frame : Nat],
   mechs : Seq(Mech), mods : Seq(Mod)]

(* A frame has a count; its result goes to the plugin's callback of its     *)
(* check, or to a frame of the same check; what is redirected is included   *)
(* exactly if the record that redirects is.                                 *)
Linked(f) ==
  LET fr == frames[f]
  IN /\ fr.obj \in DOMAIN counts
     /\ fr.check # "helo" => session.sender \in Domains
     /\ fr.back.to \in Checks => fr.back.to = fr.check /\ ~fr.included
     /\ fr.back.to \notin Checks => /\ fr.back.frame \in DOMAIN frames
                                    /\ frames[fr.back.frame].check = fr.check
     /\ fr.back.to = "mod_chain" => frames[fr.back.frame].included = fr.included

(* A result of check s that hits account for.                               *)
Earned(s, included, r) ==
  /\ r = "Fail" /\ ~included => \E h \in hits : h.check = s /\ h.qualifier = "-" /\ ~h.included
  /\ r = "Pass" => \E h \in hits : h.check = s /\ h.qualifier = "+"

(* A call that is due.                                                      *)
ChainDue(i) ==
  /\ i.call \in {"mech_chain", "mod_chain"} /\ i.frame \in DOMAIN frames /\ i.result \in Results
  /\ Earned(frames[i.frame].check, frames[i.frame].included, i.result)
IncludedDue(i) ==
  /\ i.call = "included" /\ i.frame \in DOMAIN frames /\ i.result \in Results
  /\ Earned(frames[i.frame].check, TRUE, i.result)
ResultDue(i) ==
  /\ i.call \in Checks /\ i.result \in Results /\ Earned(i.call, FALSE, i.result)
  /\ i.call # "helo" => session.sender \in Domains
MechDue(i) ==
  /\ i.call \in MechNames /\ i.frame \in DOMAIN frames /\ i.arg \in Mech /\ i.arg.name = i.call
ModDue(i) ==
  /\ i.call \in {"redirect", "exp"} /\ i.frame \in DOMAIN frames /\ i.arg \in Mod
  /\ i.arg.name = i.call
Due(i) == ChainDue(i) \/ IncludedDue(i) \/ ResultDue(i) \/ MechDue(i) \/ ModDue(i)

NamesOf(g) == {q \in queries : q.kind = "name" /\ q.group = g}

Queried == [frame : Nat, kind : {"txt", "a", "exists", "mx", "ptr", "name"}, mech : Mech,
            group : Nat, i : Nat]
Asking(q) ==
  /\ q \in Queried /\ q.frame \in DOMAIN frames
  /\ q.kind = "name" => q.group \in DOMAIN groups

PolicyTyped ==
  /\ zone \in Zones /\ session \in Session
  /\ hook \in [Checks -> {"no", "waiting", "timeout"} \cup Answers]
  /\ spf_helo \in {"none"} \cup Results
  /\ been_there \in [Checks -> SUBSET Domains] /\ lookups \in [Checks -> Nat]
  /\ counts \in Seq(Nat) /\ frames \in Seq(CallFrame) /\ Len(counts) <= Len(frames)
  /\ results \in [Checks -> Seq(Results)]

(* The history of what was heard is earned.                                 *)
ResultsEarned ==
  \A s \in Checks : \A i \in DOMAIN results[s] : Earned(s, FALSE, results[s][i])

GroupsCounted ==
  /\ groups \in Seq([pending : 0..MaxNames, hit : BOOLEAN])
  /\ IsFiniteSet(queries)
  /\ \A g \in DOMAIN groups : Cardinality(NamesOf(g)) = groups[g].pending

Evaluation ==
  /\ PolicyTyped /\ GroupsCounted /\ ResultsEarned
  /\ \A f \in DOMAIN frames : Linked(f)
  /\ \A q \in queries : Asking(q)
  /\ agenda = <<>> \/ (agenda = <<Head(agenda)>> /\ Due(Head(agenda)))

(* The evaluation of a check is at one place: a call that is due, a query,  *)
(* or the queries of one group.                                             *)
QueriesOf(s) == {q \in queries : frames[q.frame].check = s}
CheckOf(i) == IF i.call \in Checks THEN i.call ELSE frames[i.frame].check
HasTurn(s) == agenda # <<>> /\ CheckOf(Head(agenda)) = s
Busy(s) == HasTurn(s) \/ QueriesOf(s) # {}

OnePlace(Q) ==
  \A q, p \in Q : q = p \/ (q.kind = "name" /\ p.kind = "name" /\ q.group = p.group)

HookOf(s) == IF s = "own" THEN "mfrom" ELSE s

AtOnePlace(s) ==
  /\ OnePlace(QueriesOf(s)) /\ (HasTurn(s) => QueriesOf(s) = {})
  /\ Busy(s) => results[s] = <<>>
  /\ Len(results[s]) <= 1
  /\ Busy(s) \/ results[s] # <<>> => hook[HookOf(s)] # "no"
  /\ s = "own" /\ (Busy(s) \/ results[s] # <<>>) => ~Busy("mfrom")

Single == ~flawed => \A s \in Checks : AtOnePlace(s)

PolicyInv == Evaluation /\ Single

-----------------------------------------------------------------------------
(* Mechanisms and what they may say                                             *)

LEMMA MechParts ==
  ASSUME NEW m \in Mech
  PROVE  /\ m.name \in MechNames /\ m.qualifier \in Qualifiers
         /\ m.name = "include" => m.arg \in Domains
BY DEF Mech, MechNames

LEMMA ModParts ==
  ASSUME NEW m \in Mod
  PROVE  m.name \in {"redirect", "exp"} /\ (m.name = "redirect" => m.arg \in Domains)
BY DEF Mod

LEMMA NoMechMech == NoMech \in Mech
BY DEF NoMech, Mech, Qualifiers

LEMMA Verdicts ==
  ASSUME NEW q \in Qualifiers
  PROVE  /\ return_const(q) \in Results
         /\ return_const(q) = "Fail" <=> q = "-"
         /\ return_const(q) = "Pass" <=> q = "+"
BY DEF return_const, Qualifiers, Results

LEMMA IncludedVerdicts ==
  ASSUME NEW r \in Results
  PROVE  /\ OfIncluded(r) \in Results /\ OfIncluded(r) # "Fail"
         /\ OfIncluded(r) = "Pass" <=> r = "Pass"
BY DEF OfIncluded, Results

LEMMA Verdict == \A r : return_results(r) \in Answers
BY DEF return_results, Answers

-----------------------------------------------------------------------------
(* What outlives a step: frames are read on and added, hits are added           *)

(* The frames of a step are those of before, further on, and new ones.      *)
Further ==
  /\ DOMAIN frames \subseteq DOMAIN frames'
  /\ \A f \in DOMAIN frames :
       /\ frames'[f].check = frames[f].check /\ frames'[f].included = frames[f].included
       /\ frames'[f].obj = frames[f].obj /\ frames'[f].back = frames[f].back
       /\ frames'[f].domain = frames[f].domain
Grow ==
  /\ Further /\ DOMAIN counts \subseteq DOMAIN counts' /\ UNCHANGED session /\ hits \subseteq hits'

LEMMA EarnedStays ==
  ASSUME hits \subseteq hits', NEW s, NEW included, NEW r, Earned(s, included, r)
  PROVE  Earned(s, included, r)'
BY DEF Earned

LEMMA LinkedStays ==
  ASSUME Grow, NEW f \in DOMAIN frames, Linked(f)
  PROVE  Linked(f)'
BY DEF Grow, Further, Linked, Checks

LEMMA DueStays ==
  ASSUME Grow, NEW i, Due(i)
  PROVE  Due(i)'
<1>1. CASE ChainDue(i)
  <2>1. ChainDue(i)' BY <1>1, EarnedStays DEF ChainDue, Grow, Further
  <2> QED BY <2>1 DEF Due
<1>2. CASE IncludedDue(i)
  <2>1. IncludedDue(i)' BY <1>2, EarnedStays DEF IncludedDue, Grow, Further
  <2> QED BY <2>1 DEF Due
<1>3. CASE ResultDue(i)
  <2>1. ResultDue(i)' BY <1>3, EarnedStays DEF ResultDue, Grow
  <2> QED BY <2>1 DEF Due
<1>4. CASE MechDue(i)
  <2>1. MechDue(i)' BY <1>4 DEF MechDue, Grow, Further
  <2> QED BY <2>1 DEF Due
<1>5. CASE ModDue(i)
  <2>1. ModDue(i)' BY <1>5 DEF ModDue, Grow, Further
  <2> QED BY <2>1 DEF Due
<1> QED BY <1>1, <1>2, <1>3, <1>4, <1>5 DEF Due

(* The check of an item that is due is that of its frame.                   *)
LEMMA CheckStays ==
  ASSUME Grow, NEW i, Due(i)
  PROVE  CheckOf(i)' = CheckOf(i) /\ (i.call \notin Checks => i.frame \in DOMAIN frames)
<1>1. i.call \notin Checks => i.frame \in DOMAIN frames
  BY DEF Due, ChainDue, IncludedDue, ResultDue, MechDue, ModDue
<1> QED BY <1>1 DEF CheckOf, Grow, Further

LEMMA AskingStays ==
  ASSUME Further, DOMAIN groups \subseteq DOMAIN groups', NEW q, Asking(q)
  PROVE  Asking(q)'
BY DEF Further, Asking

-----------------------------------------------------------------------------
(* Items                                                                    *)

LEMMA ChainIsDue ==
  ASSUME NEW f \in DOMAIN frames, NEW r \in Results, frames[f].check \in Checks,
         Earned(frames[f].check, frames[f].included, r)
  PROVE  /\ Due(Chain(f, r)) /\ CheckOf(Chain(f, r)) = frames[f].check
         /\ Due(Mods(f, r)) /\ CheckOf(Mods(f, r)) = frames[f].check
BY DEF Due, ChainDue, Chain, Mods, CheckOf, Checks

LEMMA BackIsDue ==
  ASSUME frames \in Seq(CallFrame), NEW f \in DOMAIN frames, Linked(f), NEW r \in Results,
         Earned(frames[f].check, frames[f].included, r)
  PROVE  Due(Back(f, r)) /\ CheckOf(Back(f, r)) = frames[f].check
<1> DEFINE fr == frames[f]  i == Back(f, r)
<1>1. /\ fr \in CallFrame
      /\ i.call = fr.back.to /\ i.frame = fr.back.frame /\ i.result = r
  BY DEF Back
<1>2. fr.check \in Checks /\ fr.back.to \in Checks \cup {"included", "mod_chain"}
  BY <1>1 DEF CallFrame
<1>3. CASE fr.back.to \in Checks
  <2>1. fr.back.to = fr.check /\ ~fr.included BY <1>3 DEF Linked
  <2>2. Earned(fr.check, FALSE, r) BY <2>1, <1>1 DEF Earned
  <2>3. ResultDue(i) BY <1>1, <1>3, <2>1, <2>2 DEF ResultDue, Linked
  <2> QED BY <1>1, <1>3, <2>1, <2>3 DEF Due, CheckOf
<1>4. CASE fr.back.to = "included"
  <2>1. fr.back.frame \in DOMAIN frames /\ frames[fr.back.frame].check = fr.check
    BY <1>4 DEF Linked, Checks
  <2>2. Earned(fr.check, TRUE, r) BY DEF Earned
  <2>3. IncludedDue(i) BY <1>1, <1>4, <2>1, <2>2 DEF IncludedDue
  <2> QED BY <1>1, <1>4, <2>1, <2>3 DEF Due, CheckOf, Checks
<1>5. CASE fr.back.to = "mod_chain"
  <2>1. /\ fr.back.frame \in DOMAIN frames /\ frames[fr.back.frame].check = fr.check
        /\ frames[fr.back.frame].included = fr.included
    BY <1>5 DEF Linked, Checks
  <2>3. ChainDue(i) BY <1>1, <1>5, <2>1 DEF ChainDue
  <2> QED BY <1>1, <1>5, <2>1, <2>3 DEF Due, CheckOf, Checks
<1> QED BY <1>2, <1>3, <1>4, <1>5

LEMMA RunIsDue ==
  ASSUME NEW f \in DOMAIN frames, frames[f].check \in Checks
  PROVE  /\ \A m \in Mech : Due(Run(f, m)) /\ CheckOf(Run(f, m)) = frames[f].check
         /\ \A m \in Mod : Due(Run(f, m)) /\ CheckOf(Run(f, m)) = frames[f].check
<1>1. ASSUME NEW m \in Mech PROVE Due(Run(f, m)) /\ CheckOf(Run(f, m)) = frames[f].check
  <2>1. m.name \in MechNames BY MechParts
  <2>2. MechDue(Run(f, m)) BY <2>1 DEF MechDue, Run
  <2> QED BY <2>1, <2>2 DEF Due, CheckOf, Run, Checks, MechNames
<1>2. ASSUME NEW m \in Mod PROVE Due(Run(f, m)) /\ CheckOf(Run(f, m)) = frames[f].check
  <2>1. m.name \in {"redirect", "exp"} BY ModParts
  <2>2. ModDue(Run(f, m)) BY <2>1 DEF ModDue, Run
  <2> QED BY <2>1, <2>2 DEF Due, CheckOf, Run, Checks
<1> QED BY <1>1, <1>2

-----------------------------------------------------------------------------
(* Frames                                                                   *)

LEMMA FrameTyped ==
  ASSUME NEW check \in Checks, NEW obj \in Nat, NEW domain \in Domains, NEW included \in BOOLEAN,
         NEW to \in Checks \cup {"included", "mod_chain"}, NEW frame \in Nat
  PROVE  Frame(check, obj, domain, included, [to |-> to, frame |-> frame]) \in CallFrame
<1>1. <<>> \in Seq(Mech) /\ <<>> \in Seq(Mod) OBVIOUS
<1> QED BY <1>1 DEF Frame, CallFrame

LEMMA SeqPut ==
  ASSUME NEW S, NEW s \in Seq(S), NEW i \in DOMAIN s, NEW x \in S
  PROVE  /\ [s EXCEPT ![i] = x] \in Seq(S) /\ Len([s EXCEPT ![i] = x]) = Len(s)
         /\ DOMAIN [s EXCEPT ![i] = x] = DOMAIN s /\ [s EXCEPT ![i] = x][i] = x
         /\ \A j \in DOMAIN s : j # i => [s EXCEPT ![i] = x][j] = s[j]
OBVIOUS

(* mech_chain_caller and mod_chain_caller take one, and a record is read.   *)
LEMMA FrameRead ==
  ASSUME frames \in Seq(CallFrame), NEW f \in DOMAIN frames,
         NEW mechs \in Seq(Mech), NEW mods \in Seq(Mod),
         frames' = [frames EXCEPT ![f].mechs = mechs, ![f].mods = mods]
  PROVE  frames' \in Seq(CallFrame) /\ Further /\ Len(frames') = Len(frames)
<1>1. frames[f] \in CallFrame OBVIOUS
<1>2. [frames[f] EXCEPT !.mechs = mechs, !.mods = mods] \in CallFrame BY <1>1 DEF CallFrame
<1>3. frames' = [frames EXCEPT ![f] = [frames[f] EXCEPT !.mechs = mechs, !.mods = mods]]
  BY <1>1 DEF CallFrame
<1> DEFINE x == [frames[f] EXCEPT !.mechs = mechs, !.mods = mods]
<1>4. /\ frames' \in Seq(CallFrame) /\ Len(frames') = Len(frames) /\ DOMAIN frames' = DOMAIN frames
      /\ frames'[f] = x /\ \A g \in DOMAIN frames : g # f => frames'[g] = frames[g]
  <2>1. x \in CallFrame /\ frames' = [frames EXCEPT ![f] = x] BY <1>2, <1>3
  <2> HIDE DEF x
  <2>2. /\ [frames EXCEPT ![f] = x] \in Seq(CallFrame) /\ Len([frames EXCEPT ![f] = x]) = Len(frames)
        /\ DOMAIN [frames EXCEPT ![f] = x] = DOMAIN frames /\ [frames EXCEPT ![f] = x][f] = x
        /\ \A g \in DOMAIN frames : g # f => [frames EXCEPT ![f] = x][g] = frames[g]
    BY <2>1, SeqPut, Zenon
  <2> QED BY <2>1, <2>2
<1>6. Further
  <2>1. ASSUME NEW g \in DOMAIN frames, g # f PROVE frames'[g] = frames[g] BY <2>1, <1>4
  <2>2. frames'[f] = [frames[f] EXCEPT !.mechs = mechs, !.mods = mods] BY <1>4
  <2>3. /\ frames'[f].check = frames[f].check /\ frames'[f].included = frames[f].included
        /\ frames'[f].obj = frames[f].obj /\ frames'[f].back = frames[f].back
        /\ frames'[f].domain = frames[f].domain
    BY <2>2, <1>1 DEF CallFrame
  <2> QED BY <1>4, <2>1, <2>3 DEF Further
<1> QED BY <1>4, <1>6

LEMMA FrameMore ==
  ASSUME frames \in Seq(CallFrame), NEW frame \in CallFrame, frames' = Append(frames, frame)
  PROVE  /\ frames' \in Seq(CallFrame) /\ Further /\ Len(frames') = Len(frames) + 1
         /\ DOMAIN frames' = DOMAIN frames \cup {Len(frames) + 1}
         /\ frames'[Len(frames) + 1] = frame
BY DEF Further

-----------------------------------------------------------------------------
(* Steps of one check leave the others where they are                           *)

(* The queries of a check, after a step.                                    *)
LEMMA QueriesKept ==
  ASSUME \A q \in queries : Asking(q), Further, NEW t
  PROVE  /\ queries' = queries => (QueriesOf(t))' = QueriesOf(t)
         /\ \A p : queries' = queries \ {p} => (QueriesOf(t))' = QueriesOf(t) \ {p}
         /\ \A p : queries' = queries \cup {p} =>
              /\ frames'[p.frame].check = t => (QueriesOf(t))' = QueriesOf(t) \cup {p}
              /\ frames'[p.frame].check # t => (QueriesOf(t))' = QueriesOf(t)
<1>1. \A q \in queries : frames'[q.frame].check = frames[q.frame].check
  BY DEF Asking, Further
<1> QED BY <1>1 DEF QueriesOf

(* A step of the evaluation of check s.                                     *)
LEMMA ThreadStep ==
  ASSUME Single, NEW s \in Checks, Busy(s), UNCHANGED <<hook, results>>, flawed => flawed',
         \A t \in Checks \ {s} : /\ (QueriesOf(t))' \subseteq QueriesOf(t)
                                 /\ HasTurn(t)' => HasTurn(t),
         ~flawed' => /\ OnePlace((QueriesOf(s))')
                     /\ HasTurn(s)' => (QueriesOf(s))' = {}
  PROVE  Single'
<1> SUFFICES ASSUME ~flawed', NEW t \in Checks PROVE AtOnePlace(t)'
  BY DEF Single
<1>1. AtOnePlace(t)
  BY DEF Single
<1>2. \A u \in Checks : Busy(u)' => Busy(u)
  BY DEF Busy
<1>3. OnePlace((QueriesOf(t))') /\ (HasTurn(t)' => (QueriesOf(t))' = {})
  BY <1>1 DEF AtOnePlace, OnePlace
<1>4. "mfrom" \in Checks
  BY DEF Checks
<1> QED BY <1>1, <1>2, <1>3, <1>4 DEF AtOnePlace, HookOf

-----------------------------------------------------------------------------
(* The groups                                                               *)

LEMMA GroupsSame ==
  ASSUME GroupsCounted, UNCHANGED groups, NEW p, p.kind # "name",
         queries' = queries \/ queries' = queries \ {p} \/ queries' = queries \cup {p}
  PROVE  GroupsCounted'
<1>1. IsFiniteSet(queries')
  <2>1. IsFiniteSet(queries) BY DEF GroupsCounted
  <2>2. IsFiniteSet(queries \ {p}) /\ IsFiniteSet(queries \cup {p})
    BY <2>1, FS_AddElement, FS_RemoveElement, Zenon
  <2> QED BY <2>1, <2>2
<1>2. \A g : (NamesOf(g))' = NamesOf(g)
  BY DEF NamesOf
<1> QED BY <1>1, <1>2 DEF GroupsCounted

LEMMA GroupAnswered ==
  ASSUME GroupsCounted, NEW p \in queries, Asking(p), p.kind = "name", queries' = queries \ {p},
         NEW hit \in BOOLEAN,
         groups' = [groups EXCEPT ![p.group] = [pending |-> groups[p.group].pending - 1, hit |-> hit]]
  PROVE  /\ GroupsCounted' /\ DOMAIN groups' = DOMAIN groups
         /\ groups[p.group].pending = 1 => NamesOf(p.group) = {p}
<1> DEFINE g == p.group  G == [pending : 0..MaxNames, hit : BOOLEAN]
           x == [pending |-> groups[g].pending - 1, hit |-> hit]
<1>1. /\ g \in DOMAIN groups /\ groups \in Seq(G) /\ IsFiniteSet(queries) /\ MaxNames \in Nat
      /\ Cardinality(NamesOf(g)) = groups[g].pending /\ p \in NamesOf(g)
      /\ \A h \in DOMAIN groups : Cardinality(NamesOf(h)) = groups[h].pending
  BY BoundsTyped DEF GroupsCounted, Asking, NamesOf
<1>2. IsFiniteSet(NamesOf(g)) /\ IsFiniteSet(queries')
  BY <1>1, FS_Subset, FS_RemoveElement DEF NamesOf
<1>3. /\ Cardinality(NamesOf(g) \ {p}) = Cardinality(NamesOf(g)) - 1
      /\ Cardinality(NamesOf(g)) \in Nat /\ Cardinality(NamesOf(g)) # 0
  BY <1>1, <1>2, FS_RemoveElement, FS_CardinalityType, FS_EmptySet
<1>4. groups[g] \in G /\ groups[g].pending \in 0..MaxNames
  <2>1. groups[g] \in G
    <3> HIDE DEF G
    <3> QED BY <1>1
  <2> QED BY <2>1
<1>5. x \in G
  BY <1>1, <1>3, <1>4
<1>6. groups' = [groups EXCEPT ![g] = x]
  OBVIOUS
<1>7. (NamesOf(g))' = NamesOf(g) \ {p} /\ \A h : h # g => (NamesOf(h))' = NamesOf(h)
  BY DEF NamesOf
<1>8. x.pending = groups[g].pending - 1
  OBVIOUS
<1>9. /\ groups' \in Seq(G) /\ DOMAIN groups' = DOMAIN groups /\ groups'[g] = x
      /\ \A h \in DOMAIN groups : h # g => groups'[h] = groups[h]
  <2> HIDE DEF x
  <2> QED BY <1>1, <1>5, <1>6, SeqPut
<1>10. GroupsCounted'
  <2>1. ASSUME NEW h \in DOMAIN groups' PROVE Cardinality((NamesOf(h))') = groups'[h].pending
    <3>1. CASE h = g BY <1>1, <1>3, <1>7, <1>8, <1>9, <3>1
    <3>2. CASE h # g BY <1>1, <1>7, <1>9, <2>1, <3>2
    <3> QED BY <3>1, <3>2
  <2> HIDE DEF G
  <2> QED BY <1>2, <1>9, <2>1 DEF GroupsCounted, G
<1>11. ASSUME groups[g].pending = 1 PROVE NamesOf(g) = {p}
  <2>1. Cardinality(NamesOf(g) \ {p}) = 0 /\ IsFiniteSet(NamesOf(g) \ {p})
    BY <1>1, <1>2, <1>3, <1>11, FS_RemoveElement
  <2>2. NamesOf(g) \ {p} = {}
    BY <2>1, FS_EmptySet
  <2> QED BY <1>1, <2>2
<1> QED BY <1>9, <1>10, <1>11

(* A query is replaced by those for n names.                                *)
Asked(q, g, n) == {[q EXCEPT !.kind = "name", !.group = g, !.i = i] : i \in 1..n}

LEMMA AskedNames ==
  ASSUME NEW q \in Queried, NEW g \in Nat, NEW n \in Nat
  PROVE  /\ IsFiniteSet(Asked(q, g, n)) /\ Cardinality(Asked(q, g, n)) = n
         /\ \A a \in Asked(q, g, n) : /\ a \in Queried /\ a.kind = "name" /\ a.group = g
                                      /\ a.frame = q.frame /\ a.mech = q.mech
<1> DEFINE A(i) == [q EXCEPT !.kind = "name", !.group = g, !.i = i]
           f == [i \in 1..n |-> A(i)]
<1>1. ASSUME NEW i \in 1..n
      PROVE  /\ A(i) \in Queried /\ A(i).kind = "name" /\ A(i).group = g
             /\ A(i).frame = q.frame /\ A(i).mech = q.mech /\ A(i).i = i
  <2>1. i \in Nat OBVIOUS
  <2> QED BY <2>1 DEF Queried
<1> HIDE DEF A
<1>2. Asked(q, g, n) = {A(i) : i \in 1..n}
  BY DEF Asked, A
<1>3. f \in Bijection(1..n, Asked(q, g, n))
  <2>1. f \in [1..n -> Asked(q, g, n)] BY <1>2
  <2>2. \A i, j \in 1..n : f[i] = f[j] => i = j BY <1>1
  <2>3. \A a \in Asked(q, g, n) : \E i \in 1..n : f[i] = a BY <1>2
  <2> QED BY <2>1, <2>2, <2>3, Fun_IsBij
<1>4. IsFiniteSet(Asked(q, g, n)) /\ Cardinality(Asked(q, g, n)) = n
  <2>1. ExistsBijection(1..n, Asked(q, g, n)) BY <1>3 DEF ExistsBijection
  <2>2. n \in Nat /\ ExistsBijection(1..n, Asked(q, g, n)) BY <2>1
  <2>3. IsFiniteSet(Asked(q, g, n)) BY <2>2, FS_NatBijection
  <2> QED BY <2>1, <2>3, FS_CountingElements
<1> QED BY <1>1, <1>2, <1>4

LEMMA GroupOpened ==
  ASSUME GroupsCounted, \A q \in queries : Asking(q), NEW p \in queries, p.kind # "name",
         NEW n \in 1..MaxNames, queries' = (queries \ {p}) \cup Asked(p, Len(groups) + 1, n),
         groups' = Append(groups, [pending |-> n, hit |-> FALSE])
  PROVE  /\ GroupsCounted' /\ DOMAIN groups \subseteq DOMAIN groups'
         /\ Len(groups) + 1 \in DOMAIN groups'
<1> DEFINE G == [pending : 0..MaxNames, hit : BOOLEAN]  x == [pending |-> n, hit |-> FALSE]
<1>0. PICK N \in Nat : N = Len(groups) + 1
  BY DEF GroupsCounted
<1> DEFINE new == Asked(p, N, n)
<1>1. /\ groups \in Seq(G) /\ MaxNames \in Nat /\ n \in Nat /\ p \in Queried
      /\ \A h \in DOMAIN groups : Cardinality(NamesOf(h)) = groups[h].pending
      /\ IsFiniteSet(queries)
  BY BoundsTyped DEF GroupsCounted, Asking
<1>2. x \in G /\ x.pending = n
  BY <1>1
<1>3. groups' = Append(groups, x) OBVIOUS
<1>4. /\ groups' \in Seq(G) /\ DOMAIN groups' = DOMAIN groups \cup {N} /\ N \notin DOMAIN groups
      /\ groups'[N] = x /\ \A h \in DOMAIN groups : groups'[h] = groups[h]
  <2> HIDE DEF x, G
  <2> QED BY <1>0, <1>1, <1>2, <1>3
<1>5. /\ IsFiniteSet(new) /\ Cardinality(new) = n
      /\ \A a \in new : a.kind = "name" /\ a.group = N
  BY <1>1, AskedNames
<1> HIDE DEF new
<1>6. queries' = (queries \ {p}) \cup new BY <1>0 DEF new
<1>7. NamesOf(N) = {} BY <1>4 DEF NamesOf, Asking
<1>8. (NamesOf(N))' = new
  <2>1. \A a \in queries : ~(a.kind = "name" /\ a.group = N) BY <1>7 DEF NamesOf
  <2>2. (NamesOf(N))' = {a \in queries' : a.kind = "name" /\ a.group = N} BY DEF NamesOf
  <2> QED BY <1>5, <1>6, <2>1, <2>2
<1>9. \A h : h # N => (NamesOf(h))' = NamesOf(h) BY <1>5, <1>6 DEF NamesOf
<1>10. IsFiniteSet(queries')
  <2>1. IsFiniteSet(queries \ {p}) BY <1>1, FS_RemoveElement, Zenon
  <2>2. IsFiniteSet((queries \ {p}) \cup new) BY <1>5, <2>1, FS_Union, Zenon
  <2> QED BY <1>6, <2>2
<1>11. ASSUME NEW h \in DOMAIN groups' PROVE Cardinality((NamesOf(h))') = groups'[h].pending
  <2>1. CASE h = N BY <1>2, <1>4, <1>5, <1>8, <2>1
  <2>2. CASE h # N BY <1>1, <1>4, <1>9, <1>11, <2>2
  <2> QED BY <2>1, <2>2
<1>12. GroupsCounted'
  <2> HIDE DEF G
  <2> QED BY <1>4, <1>10, <1>11 DEF GroupsCounted, G
<1> QED BY <1>0, <1>4, <1>12

-----------------------------------------------------------------------------
(* Steps, by what is due before and after                                       *)

LEMMA Empties == \A x : <<x>> \o <<>> = <<x>> /\ Head(<<x>>) = x /\ Tail(<<x>>) = <<>> /\ <<x>> # <<>>
OBVIOUS

(* The one call that is due.                                                *)
LEMMA TheCall ==
  ASSUME Evaluation, agenda # <<>>
  PROVE  Due(Head(agenda)) /\ Tail(agenda) = <<>>
BY Empties DEF Evaluation

LEMMA ResultsStay ==
  ASSUME ResultsEarned, UNCHANGED results, hits \subseteq hits'
  PROVE  ResultsEarned'
BY EarnedStays DEF ResultsEarned

(* A due item comes from another, and frames may have been read on.         *)
LEMMA ItemStep ==
  ASSUME PolicyInv, agenda # <<>>, NEW i, agenda' = <<i>> \o Tail(agenda),
         frames' \in Seq(CallFrame), Further, Len(frames') = Len(frames), hits \subseteq hits',
         Due(i)', CheckOf(i)' = CheckOf(Head(agenda)), CheckOf(Head(agenda)) \in Checks,
         UNCHANGED <<plugin, counts, been_there, groups, queries, lookups, results, flawed>>
  PROVE  PolicyInv'
<1>1. /\ UNCHANGED <<zone, session, hook, spf_helo, counts, been_there>>
      /\ UNCHANGED <<groups, queries, lookups, results, flawed>>
  BY DEF plugin
<1>2. Grow BY <1>1 DEF Grow
<1>3. agenda' = <<i>> /\ Head(agenda') = i /\ agenda' # <<>> BY TheCall, Empties DEF PolicyInv
<1>4. PolicyTyped' BY <1>1 DEF PolicyInv, Evaluation, PolicyTyped
<1>5. GroupsCounted' BY <1>1 DEF PolicyInv, Evaluation, GroupsCounted, NamesOf
<1>6. ResultsEarned' BY <1>1, ResultsStay DEF PolicyInv, Evaluation
<1>7. DOMAIN frames' = DOMAIN frames BY DEF PolicyInv, Evaluation, PolicyTyped
<1>8. \A f \in DOMAIN frames' : Linked(f)' BY <1>2, <1>7, LinkedStays DEF PolicyInv, Evaluation
<1>9. \A q \in queries' : Asking(q)' BY <1>1, AskingStays DEF PolicyInv, Evaluation
<1>10. Evaluation' BY <1>3, <1>4, <1>5, <1>6, <1>8, <1>9 DEF Evaluation
<1>11. Single'
  <2> DEFINE s == CheckOf(Head(agenda))
  <2>1. PICK t \in Checks : t = s OBVIOUS
  <2>2. HasTurn(t) /\ Busy(t) /\ Single /\ HasTurn(t)' /\ \A u \in Checks \ {t} : ~HasTurn(u)'
    BY <2>1, <1>3 DEF HasTurn, Busy, PolicyInv
  <2>3. \A u : (QueriesOf(u))' = QueriesOf(u)
    BY <1>1, QueriesKept DEF PolicyInv, Evaluation
  <2>4. ~flawed' => OnePlace((QueriesOf(t))') /\ (HasTurn(t)' => (QueriesOf(t))' = {})
    BY <2>2, <2>3, <1>1 DEF Single, AtOnePlace
  <2> HIDE DEF s
  <2> QED BY <2>2, <2>3, <2>4, <1>1, ThreadStep
<1> QED BY <1>10, <1>11 DEF PolicyInv

(* What is due asks the DNS, itself or by a check_host.                     *)
LEMMA AskStep ==
  ASSUME PolicyInv, agenda # <<>>, agenda' = Tail(agenda), CheckOf(Head(agenda)) \in Checks,
         frames' \in Seq(CallFrame), counts' \in Seq(Nat), Grow, Len(counts') <= Len(frames'),
         \A f \in DOMAIN frames' \ DOMAIN frames : Linked(f)',
         NEW p, queries' = queries \cup {p}, Asking(p)', p.kind # "name",
         frames'[p.frame].check = CheckOf(Head(agenda)),
         been_there' \in [Checks -> SUBSET Domains], lookups' \in [Checks -> Nat],
         UNCHANGED <<plugin, groups, hits, results, flawed>>
  PROVE  PolicyInv'
<1>1. /\ UNCHANGED <<zone, session, hook, spf_helo, groups>>
      /\ UNCHANGED <<hits, results, flawed>>
  BY DEF plugin
<1>3. agenda' = <<>> BY TheCall DEF PolicyInv
<1>4. PolicyTyped' BY <1>1 DEF PolicyInv, Evaluation, PolicyTyped
<1>5. GroupsCounted' BY <1>1, GroupsSame DEF PolicyInv, Evaluation
<1>6. ResultsEarned' BY <1>1, ResultsStay DEF PolicyInv, Evaluation
<1>8. \A f \in DOMAIN frames' : Linked(f)' BY LinkedStays DEF PolicyInv, Evaluation
<1>9. \A q \in queries' : Asking(q)' BY <1>1, AskingStays DEF PolicyInv, Evaluation, Grow
<1>10. Evaluation' BY <1>3, <1>4, <1>5, <1>6, <1>8, <1>9 DEF Evaluation
<1>11. Single'
  <2> DEFINE s == CheckOf(Head(agenda))
  <2>1. PICK t \in Checks : t = s OBVIOUS
  <2>2. HasTurn(t) /\ Busy(t) /\ Single /\ \A u \in Checks : ~HasTurn(u)'
    BY <2>1, <1>3 DEF HasTurn, Busy, PolicyInv
  <2>3. /\ \A u : u # t => (QueriesOf(u))' = QueriesOf(u)
        /\ (QueriesOf(t))' = QueriesOf(t) \cup {p}
    BY <2>1, QueriesKept DEF PolicyInv, Evaluation, Grow
  <2>4. ~flawed => QueriesOf(t) = {} BY <2>2 DEF Single, AtOnePlace
  <2>5. ~flawed' => OnePlace((QueriesOf(t))') BY <2>3, <2>4, <1>1 DEF OnePlace
  <2>6. \A u \in Checks \ {t} : (QueriesOf(u))' \subseteq QueriesOf(u) /\ (HasTurn(u)' => HasTurn(u))
    BY <2>2, <2>3
  <2>7. ~flawed' => OnePlace((QueriesOf(t))') /\ (HasTurn(t)' => (QueriesOf(t))' = {})
    BY <2>2, <2>5
  <2>8. UNCHANGED <<hook, results>> /\ (flawed => flawed') /\ Busy(t) /\ Single
    BY <1>1, <2>2
  <2> HIDE DEF s
  <2> QED BY <2>6, <2>7, <2>8, ThreadStep
<1> QED BY <1>10, <1>11 DEF PolicyInv

(* A query is answered: what is due next.                                   *)
LEMMA AnswerStep ==
  ASSUME PolicyInv, agenda = <<>>, NEW q \in queries, q.kind # "name", queries' = queries \ {q},
         NEW i, agenda' = <<i>>, frames' \in Seq(CallFrame), Further, Len(frames') = Len(frames),
         hits \subseteq hits', Due(i)', CheckOf(i)' = frames[q.frame].check,
         UNCHANGED <<plugin, counts, been_there, groups, lookups, results, flawed>>
  PROVE  PolicyInv'
<1>1. /\ UNCHANGED <<zone, session, hook, spf_helo, counts, been_there>>
      /\ UNCHANGED <<groups, lookups, results, flawed>>
  BY DEF plugin
<1>2. Grow BY <1>1 DEF Grow
<1>3. Head(agenda') = i /\ agenda' # <<>> BY Empties
<1>4. PolicyTyped' BY <1>1 DEF PolicyInv, Evaluation, PolicyTyped
<1>5. GroupsCounted' BY <1>1, GroupsSame DEF PolicyInv, Evaluation
<1>6. ResultsEarned' BY <1>1, ResultsStay DEF PolicyInv, Evaluation
<1>7. DOMAIN frames' = DOMAIN frames BY DEF PolicyInv, Evaluation, PolicyTyped
<1>8. \A f \in DOMAIN frames' : Linked(f)' BY <1>2, <1>7, LinkedStays DEF PolicyInv, Evaluation
<1>9. \A r \in queries' : Asking(r)' BY <1>1, AskingStays DEF PolicyInv, Evaluation
<1>10. Evaluation' BY <1>3, <1>4, <1>5, <1>6, <1>8, <1>9 DEF Evaluation
<1>11. Single'
  <2>1. PICK t \in Checks : t = frames[q.frame].check
    <3>1. frames[q.frame] \in CallFrame BY DEF PolicyInv, Evaluation, Asking, PolicyTyped
    <3> QED BY <3>1 DEF CallFrame
  <2>2. Busy(t) /\ Single /\ q \in QueriesOf(t) /\ \A u \in Checks \ {t} : ~HasTurn(u)'
    BY <2>1, <1>3 DEF HasTurn, Busy, PolicyInv, QueriesOf
  <2>3. \A u : (QueriesOf(u))' = QueriesOf(u) \ {q}
    BY QueriesKept DEF PolicyInv, Evaluation
  <2>4. ~flawed => QueriesOf(t) = {q} BY <2>2 DEF Single, AtOnePlace, OnePlace
  <2>5. ~flawed' => (QueriesOf(t))' = {} BY <2>3, <2>4, <1>1
  <2> QED BY <2>2, <2>3, <2>5, <1>1, ThreadStep DEF OnePlace
<1> QED BY <1>10, <1>11 DEF PolicyInv

-----------------------------------------------------------------------------
(* The actions                                                                  *)

LEMMA WhatIsDue ==
  ASSUME Evaluation, agenda # <<>>
  PROVE  LET i == Head(agenda)
         IN /\ i.call \in {"mech_chain", "mod_chain"} => ChainDue(i)
            /\ i.call = "included" => IncludedDue(i)
            /\ i.call \in Checks => ResultDue(i)
            /\ i.call \in MechNames => MechDue(i)
            /\ i.call \in {"redirect", "exp"} => ModDue(i)
            /\ CheckOf(i) \in Checks
            /\ i.call \notin Checks =>
                 /\ CheckOf(i) = frames[i.frame].check
                 /\ i.frame \in DOMAIN frames /\ frames[i.frame] \in CallFrame /\ Linked(i.frame)
<1> DEFINE i == Head(agenda)
<1>1. Due(i) BY TheCall
<1> HIDE DEF i
<1>2. /\ i.call \in {"mech_chain", "mod_chain"} => ChainDue(i)
      /\ i.call = "included" => IncludedDue(i)
      /\ i.call \in Checks => ResultDue(i)
      /\ i.call \in MechNames => MechDue(i)
      /\ i.call \in {"redirect", "exp"} => ModDue(i)
  BY <1>1 DEF Due, ChainDue, IncludedDue, ResultDue, MechDue, ModDue, Checks, MechNames
<1>3. i.call \notin Checks => i.frame \in DOMAIN frames
  BY <1>1 DEF Due, ChainDue, IncludedDue, ResultDue, MechDue, ModDue
<1>4. i.call \notin Checks => frames[i.frame] \in CallFrame /\ Linked(i.frame)
  BY <1>3 DEF Evaluation, PolicyTyped
<1>5. /\ CheckOf(i) \in Checks
      /\ i.call \notin Checks => CheckOf(i) = frames[i.frame].check
  BY <1>4 DEF CheckOf, CallFrame
<1> QED BY <1>2, <1>3, <1>4, <1>5 DEF i

LEMMA Stand == UNCHANGED frames => Further
BY DEF Further

(* The next item is due already.                                            *)
LEMMA GotoStep ==
  ASSUME PolicyInv, agenda # <<>>, NEW i, Goto(i), frames' \in Seq(CallFrame), Further,
         Len(frames') = Len(frames), hits \subseteq hits', Due(i), CheckOf(i) = CheckOf(Head(agenda)),
         UNCHANGED <<plugin, counts, been_there, groups, queries, lookups, results, flawed>>
  PROVE  PolicyInv'
<1>1. Grow BY DEF Grow, plugin
<1>2. Due(i)' /\ CheckOf(i)' = CheckOf(i) BY <1>1, DueStays, CheckStays
<1>3. CheckOf(Head(agenda)) \in Checks BY WhatIsDue DEF PolicyInv
<1>4. agenda' = <<i>> \o Tail(agenda) BY DEF Goto
<1> QED BY <1>2, <1>3, <1>4, ItemStep

LEMMA DecidedIsDue ==
  ASSUME NEW f \in DOMAIN frames, frames[f].check \in Checks, NEW m \in Mech, Hit(f, m),
         UNCHANGED frames
  PROVE  LET i == Chain(f, return_const(m.qualifier))
         IN Due(i)' /\ CheckOf(i)' = frames[f].check /\ hits \subseteq hits'
<1> DEFINE h == [check |-> frames[f].check, included |-> frames[f].included, qualifier |-> m.qualifier]
           r == return_const(m.qualifier)
<1>1. hits' = hits \cup {h} BY DEF Hit
<1>2. r \in Results /\ (r = "Fail" => m.qualifier = "-") /\ (r = "Pass" => m.qualifier = "+")
  BY MechParts, Verdicts
<1>3. h \in hits' /\ h.check = frames[f].check /\ h.included = frames[f].included
      /\ h.qualifier = m.qualifier
  BY <1>1
<1> HIDE DEF r, h
<1>4. Earned(frames[f].check, frames[f].included, r)' BY <1>2, <1>3 DEF Earned
<1>5. Due(Chain(f, r))' /\ CheckOf(Chain(f, r))' = frames[f].check
  BY <1>2, <1>4 DEF Due, ChainDue, Chain, CheckOf, Checks
<1> QED BY <1>1, <1>5 DEF r

LEMMA NoVerdict ==
  ASSUME NEW r, r # "Pass", r # "Fail"
  PROVE  \A s, included : Earned(s, included, r)
BY DEF Earned

LEMMA SomeResults == {"None", "Neutral", "TempError", "PermError"} \subseteq Results
BY DEF Results

LEMMA Heads ==
  ASSUME NEW S, NEW s \in Seq(S), s # <<>>
  PROVE  Head(s) \in S /\ Tail(s) \in Seq(S)
OBVIOUS

LEMMA OnMechChain ==
  ASSUME PolicyInv, MechChain \/ ModChain
  PROVE  PolicyInv'
<1> DEFINE i == Head(agenda)  f == i.frame  r == i.result
<1>1. /\ agenda # <<>> /\ i.call \in {"mech_chain", "mod_chain"}
      /\ UNCHANGED <<plugin, counts, been_there, groups, queries, lookups, results, flawed>>
      /\ UNCHANGED hits
  BY DEF MechChain, ModChain, Calling
<1>2. /\ ChainDue(i) /\ CheckOf(i) = frames[f].check /\ f \in DOMAIN frames
      /\ frames[f] \in CallFrame /\ Linked(f) /\ frames \in Seq(CallFrame)
  BY <1>1, WhatIsDue DEF PolicyInv, Evaluation, PolicyTyped, Checks
<1>3. r \in Results /\ Earned(frames[f].check, frames[f].included, r) /\ frames[f].check \in Checks
  BY <1>2 DEF ChainDue, CallFrame
<1> HIDE DEF i, f, r
<1>4. \A v \in {r, "PermError", "Neutral"} :
        Due(Back(f, v)) /\ CheckOf(Back(f, v)) = CheckOf(i)
  BY <1>2, <1>3, BackIsDue, NoVerdict, SomeResults
<1>5. Due(Mods(f, "None")) /\ CheckOf(Mods(f, "None")) = CheckOf(i)
  BY <1>2, <1>3, ChainIsDue, NoVerdict, SomeResults
<1>6. ASSUME NEW v, Due(v), CheckOf(v) = CheckOf(i), Goto(v), UNCHANGED frames PROVE PolicyInv'
  <2>1. CheckOf(v) = CheckOf(Head(agenda)) BY <1>6 DEF i
  <2> QED BY <2>1, <1>1, <1>2, <1>6, GotoStep, Stand
<1>7. ASSUME NEW m \in Mech, frames[f].mechs # <<>>, Goto(Run(f, m)),
             frames' = [frames EXCEPT ![f].mechs = Tail(@)]
      PROVE  PolicyInv'
  <2>1. frames[f].mechs \in Seq(Mech) /\ frames[f].mods \in Seq(Mod) BY <1>2 DEF CallFrame
  <2>2. Tail(frames[f].mechs) \in Seq(Mech) BY <2>1, <1>7, Heads
  <2>3. frames' = [frames EXCEPT ![f].mechs = Tail(frames[f].mechs), ![f].mods = frames[f].mods]
    BY <1>2, <1>7 DEF CallFrame
  <2>4. frames' \in Seq(CallFrame) /\ Further /\ Len(frames') = Len(frames)
    BY <1>2, <2>1, <2>2, <2>3, FrameRead
  <2>5. Due(Run(f, m)) /\ CheckOf(Run(f, m)) = CheckOf(Head(agenda))
    BY <1>2, <1>3, RunIsDue DEF i
  <2> QED BY <1>1, <1>7, <2>4, <2>5, GotoStep
<1>8. ASSUME NEW m \in Mod, frames[f].mods # <<>>, Goto(Run(f, m)),
             frames' = [frames EXCEPT ![f].mods = Tail(@)]
      PROVE  PolicyInv'
  <2>1. frames[f].mechs \in Seq(Mech) /\ frames[f].mods \in Seq(Mod) BY <1>2 DEF CallFrame
  <2>2. Tail(frames[f].mods) \in Seq(Mod) BY <2>1, <1>8, Heads
  <2>3. frames' = [frames EXCEPT ![f].mechs = frames[f].mechs, ![f].mods = Tail(frames[f].mods)]
    BY <1>2, <1>8 DEF CallFrame
  <2>4. frames' \in Seq(CallFrame) /\ Further /\ Len(frames') = Len(frames)
    BY <1>2, <2>1, <2>2, <2>3, FrameRead
  <2>5. Due(Run(f, m)) /\ CheckOf(Run(f, m)) = CheckOf(Head(agenda))
    BY <1>2, <1>3, RunIsDue DEF i
  <2> QED BY <1>1, <1>8, <2>4, <2>5, GotoStep
<1>9. /\ frames[f].mechs # <<>> => Head(frames[f].mechs) \in Mech
      /\ frames[f].mods # <<>> => Head(frames[f].mods) \in Mod
  BY <1>2, Heads DEF CallFrame
<1>10. CASE MechChain
  <2>1. \/ Goto(Back(f, "PermError")) /\ UNCHANGED frames
        \/ Goto(Back(f, r)) /\ UNCHANGED frames
        \/ Goto(Mods(f, "None")) /\ UNCHANGED frames
        \/ Goto(Back(f, "Neutral")) /\ UNCHANGED frames
        \/ /\ frames[f].mechs # <<>> /\ Goto(Run(f, Head(frames[f].mechs)))
           /\ frames' = [frames EXCEPT ![f].mechs = Tail(@)]
    BY <1>10 DEF MechChain, f, r, i
  <2> QED BY <2>1, <1>4, <1>5, <1>6, <1>7, <1>9
<1>11. CASE ModChain
  <2>1. \/ Goto(Back(f, "PermError")) /\ UNCHANGED frames
        \/ Goto(Back(f, r)) /\ UNCHANGED frames
        \/ Goto(Back(f, "Neutral")) /\ UNCHANGED frames
        \/ /\ frames[f].mods # <<>> /\ Goto(Run(f, Head(frames[f].mods)))
           /\ frames' = [frames EXCEPT ![f].mods = Tail(@)]
    BY <1>11 DEF ModChain, f, r, i
  <2> QED BY <2>1, <1>4, <1>6, <1>8, <1>9
<1> QED BY <1>10, <1>11

LEMMA OnItem ==
  ASSUME PolicyInv, mech_all \/ mech_ip \/ Included \/ mod_exp
  PROVE  PolicyInv'
<1> DEFINE i == Head(agenda)  f == i.frame
<1>1. /\ agenda # <<>> /\ i.call \in {"all", "ip", "included", "exp"}
      /\ UNCHANGED <<plugin, counts, been_there, groups, queries, lookups, results, flawed>>
      /\ UNCHANGED frames
  BY DEF mech_all, mech_ip, Included, mod_exp, Calling, engine
<1>2. /\ CheckOf(i) = frames[f].check /\ f \in DOMAIN frames
      /\ frames[f] \in CallFrame /\ frames \in Seq(CallFrame)
      /\ i.call \in {"all", "ip"} => i.arg \in Mech
      /\ i.call = "included" => IncludedDue(i)
  BY <1>1, WhatIsDue DEF PolicyInv, Evaluation, PolicyTyped, Checks, MechNames, MechDue
<1>3. frames[f].check \in Checks /\ frames[f].included \in BOOLEAN BY <1>2 DEF CallFrame
<1> HIDE DEF i, f
<1>4. ASSUME NEW v \in Results, Earned(frames[f].check, frames[f].included, v), UNCHANGED hits,
             Goto(Chain(f, v)) \/ Goto(Mods(f, v))
      PROVE  PolicyInv'
  <2>1. /\ Due(Chain(f, v)) /\ CheckOf(Chain(f, v)) = CheckOf(Head(agenda))
        /\ Due(Mods(f, v)) /\ CheckOf(Mods(f, v)) = CheckOf(Head(agenda))
    BY <1>2, <1>3, <1>4, ChainIsDue DEF i
  <2> QED BY <2>1, <1>1, <1>2, <1>4, GotoStep, Stand
<1>5. ASSUME i.call \in {"all", "ip"}, Goto(Chain(f, return_const(i.arg.qualifier))), Hit(f, i.arg)
      PROVE  PolicyInv'
  <2>0. PICK g \in DOMAIN frames, m \in Mech : g = f /\ m = i.arg
    BY <1>2, <1>5
  <2> DEFINE x == Chain(g, return_const(m.qualifier))
  <2>1. Due(x)' /\ CheckOf(x)' = CheckOf(Head(agenda)) /\ hits \subseteq hits'
    <3>1. frames[g].check \in Checks /\ Hit(g, m) /\ frames[g].check = CheckOf(Head(agenda))
      BY <1>2, <1>3, <1>5, <2>0 DEF i
    <3> QED BY <1>1, <3>1, DecidedIsDue
  <2>2. agenda' = <<x>> \o Tail(agenda) BY <1>5, <2>0 DEF Goto
  <2>3. CheckOf(Head(agenda)) \in Checks BY <1>2, <1>3 DEF i
  <2> HIDE DEF x
  <2> QED BY <2>1, <2>2, <2>3, <1>1, <1>2, ItemStep, Stand
<1>6. CASE mech_all BY <1>5, <1>6 DEF mech_all, Calling, i, f
<1>7. CASE mech_ip
  <2>1. CASE i.arg.arg = "hit" BY <1>5, <1>7, <2>1 DEF mech_ip, Calling, i, f
  <2>2. CASE i.arg.arg # "hit"
    BY <1>4, <1>7, <2>2, NoVerdict, SomeResults DEF mech_ip, i, f
  <2> QED BY <2>1, <2>2
<1>8. CASE Included
  <2>1. i.call = "included" /\ Goto(Chain(f, OfIncluded(i.result))) /\ UNCHANGED hits
    BY <1>8 DEF Included, Calling, i, f
  <2>2. i.result \in Results /\ Earned(frames[f].check, TRUE, i.result)
    BY <2>1, <1>2 DEF IncludedDue, f
  <2>3. /\ OfIncluded(i.result) \in Results
        /\ Earned(frames[f].check, frames[f].included, OfIncluded(i.result))
    BY <2>2, IncludedVerdicts DEF Earned
  <2> QED BY <2>1, <2>3, <1>4
<1>9. CASE mod_exp
  BY <1>4, <1>9, NoVerdict, SomeResults DEF mod_exp, i, f
<1> QED BY <1>6, <1>7, <1>8, <1>9

LEMMA AskedFrame ==
  ASSUME Evaluation, NEW q \in queries
  PROVE  /\ q \in Queried /\ q.mech \in Mech /\ q.frame \in DOMAIN frames
         /\ frames[q.frame] \in CallFrame /\ Linked(q.frame) /\ frames[q.frame].check \in Checks
         /\ frames \in Seq(CallFrame) /\ Asking(q)
<1>1. q \in Queried /\ q.mech \in Mech /\ q.frame \in DOMAIN frames
  BY DEF Evaluation, Asking, Queried
<1>2. frames[q.frame] \in CallFrame /\ Linked(q.frame) /\ frames \in Seq(CallFrame)
  BY <1>1 DEF Evaluation, PolicyTyped
<1> QED BY <1>1, <1>2 DEF CallFrame, Evaluation

LEMMA AnswerGoto ==
  ASSUME PolicyInv, agenda = <<>>, NEW q \in queries, q.kind # "name", Arrived(q),
         NEW i, Calls(i), frames' \in Seq(CallFrame), Further, Len(frames') = Len(frames),
         hits \subseteq hits', Due(i), CheckOf(i) = frames[q.frame].check,
         UNCHANGED <<plugin, counts, been_there, groups, lookups, results, flawed>>
  PROVE  PolicyInv'
<1>1. Grow BY DEF Grow, plugin
<1>2. Due(i)' /\ CheckOf(i)' = CheckOf(i) BY <1>1, DueStays, CheckStays
<1>3. queries' = queries \ {q} /\ agenda' = <<i>> BY DEF Arrived, Calls
<1> QED BY <1>2, <1>3, AnswerStep

LEMMA WithoutStep ==
  ASSUME PolicyInv, agenda = <<>>, NEW q \in queries, q.kind # "name", Arrived(q),
         NEW r \in {"None", "TempError", "PermError"}, Without(q, r),
         UNCHANGED <<plugin, frames, counts, been_there, groups, lookups, results, flawed>>
  PROVE  PolicyInv'
<1>1. /\ q.frame \in DOMAIN frames /\ frames \in Seq(CallFrame)
      /\ frames[q.frame].check \in Checks
  BY AskedFrame DEF PolicyInv
<1>2. Due(Chain(q.frame, r)) /\ CheckOf(Chain(q.frame, r)) = frames[q.frame].check
  BY <1>1, ChainIsDue, NoVerdict, SomeResults
<1>3. Calls(Chain(q.frame, r)) /\ hits \subseteq hits' BY DEF Without
<1> QED BY <1>1, <1>2, <1>3, AnswerGoto, Stand

LEMMA DecideStep ==
  ASSUME PolicyInv, agenda = <<>>, NEW q \in queries, q.kind # "name", Arrived(q), Decide(q),
         UNCHANGED <<plugin, frames, counts, been_there, groups, lookups, results, flawed>>
  PROVE  PolicyInv'
<1> DEFINE i == Chain(q.frame, return_const(q.mech.qualifier))
<1>1. /\ q.frame \in DOMAIN frames /\ frames \in Seq(CallFrame) /\ q.mech \in Mech
      /\ frames[q.frame].check \in Checks
  BY AskedFrame DEF PolicyInv
<1>2. Due(i)' /\ CheckOf(i)' = frames[q.frame].check /\ hits \subseteq hits'
  BY <1>1, DecidedIsDue DEF Decide
<1>3. queries' = queries \ {q} /\ agenda' = <<i>> BY DEF Arrived, Decide, Calls
<1> HIDE DEF i
<1> QED BY <1>1, <1>2, <1>3, AnswerStep, Stand

LEMMA OnTxt ==
  ASSUME PolicyInv, NEW q \in queries, TxtAnswer(q)
  PROVE  PolicyInv'
<1> DEFINE f == q.frame  record == zone[frames[f].domain]
<1>1. /\ agenda = <<>> /\ q.kind # "name" /\ Arrived(q) /\ UNCHANGED hits
      /\ UNCHANGED <<plugin, counts, been_there, groups, lookups, results, flawed>>
  BY DEF TxtAnswer, AnswerTo
<1>2. /\ f \in DOMAIN frames /\ frames \in Seq(CallFrame) /\ frames[f] \in CallFrame
      /\ Linked(f) /\ frames[f].check \in Checks
  BY AskedFrame DEF PolicyInv
<1>3. record \in Record
  BY <1>2, ZonesTyped DEF CallFrame, PolicyInv, Evaluation, PolicyTyped
<1>4. record.mechs \in Seq(Mech) /\ record.mods \in Seq(Mod)
  BY <1>3 DEF Record
<1>5. \/ Calls(Back(f, "None")) /\ UNCHANGED frames
      \/ Calls(Back(f, "TempError")) /\ UNCHANGED frames
      \/ Calls(Back(f, "PermError")) /\ UNCHANGED frames
      \/ /\ frames' = [frames EXCEPT ![f].mechs = record.mechs, ![f].mods = record.mods]
         /\ Calls(Chain(f, "None"))
  BY DEF TxtAnswer
<1> HIDE DEF record
<1>6. ASSUME NEW r \in {"None", "TempError", "PermError"}, Calls(Back(f, r)), UNCHANGED frames
      PROVE  PolicyInv'
  <2>1. Due(Back(f, r)) /\ CheckOf(Back(f, r)) = frames[f].check
    BY <1>2, BackIsDue, NoVerdict, SomeResults
  <2> QED BY <1>1, <1>2, <1>6, <2>1, AnswerGoto, Stand
<1>7. ASSUME frames' = [frames EXCEPT ![f].mechs = record.mechs, ![f].mods = record.mods],
             Calls(Chain(f, "None"))
      PROVE  PolicyInv'
  <2>1. frames' \in Seq(CallFrame) /\ Further /\ Len(frames') = Len(frames)
    BY <1>2, <1>4, <1>7, FrameRead
  <2>2. Due(Chain(f, "None")) /\ CheckOf(Chain(f, "None")) = frames[f].check
    BY <1>2, ChainIsDue, NoVerdict, SomeResults
  <2> QED BY <1>1, <1>7, <2>1, <2>2, AnswerGoto
<1> QED BY <1>5, <1>6, <1>7

LEMMA OnAddress ==
  ASSUME PolicyInv, NEW q \in queries, AddressAnswer(q)
  PROVE  PolicyInv'
<1>1. /\ agenda = <<>> /\ q.kind # "name" /\ Arrived(q)
      /\ UNCHANGED <<plugin, frames, counts, been_there, groups, lookups, results, flawed>>
      /\ Decide(q) \/ Without(q, "None") \/ Without(q, "TempError")
  BY DEF AddressAnswer, AnswerTo
<1> QED BY <1>1, DecideStep, WithoutStep

LEMMA OnNames ==
  ASSUME PolicyInv, NEW q \in queries, NamesAnswer(q)
  PROVE  PolicyInv'
<1>1. /\ agenda = <<>> /\ q.kind # "name"
      /\ UNCHANGED <<plugin, frames, counts, been_there, lookups, results, flawed>>
  BY DEF NamesAnswer, AnswerTo
<1>2. \/ /\ Without(q, "None") \/ Without(q, "TempError") \/ Without(q, "PermError")
         /\ Arrived(q) /\ UNCHANGED groups
      \/ \E n \in 1..MaxNames :
           /\ groups' = Append(groups, [pending |-> n, hit |-> FALSE])
           /\ queries' = (queries \ {q}) \cup Asked(q, Len(groups) + 1, n)
           /\ UNCHANGED <<agenda, hits>>
  BY DEF NamesAnswer, Asked
<1>3. CASE /\ Without(q, "None") \/ Without(q, "TempError") \/ Without(q, "PermError")
           /\ Arrived(q) /\ UNCHANGED groups
  BY <1>1, <1>3, WithoutStep
<1>4. ASSUME NEW n \in 1..MaxNames, groups' = Append(groups, [pending |-> n, hit |-> FALSE]),
             queries' = (queries \ {q}) \cup Asked(q, Len(groups) + 1, n),
             UNCHANGED <<agenda, hits>>
      PROVE  PolicyInv'
  <2>1. /\ UNCHANGED <<zone, session, hook, spf_helo, frames, counts, been_there>>
        /\ UNCHANGED <<agenda, lookups, hits, results, flawed>>
    BY <1>1, <1>4 DEF plugin
  <2>2. Grow /\ Further BY <2>1, Stand DEF Grow
  <2>3. /\ q \in Queried /\ q.frame \in DOMAIN frames /\ frames[q.frame].check \in Checks
    BY AskedFrame DEF PolicyInv
  <2>4. PICK N \in Nat : N = Len(groups) + 1
    BY DEF PolicyInv, Evaluation, GroupsCounted
  <2>5. n \in Nat BY BoundsTyped
  <2> DEFINE new == Asked(q, N, n)
  <2>6. \A a \in new : /\ a \in Queried /\ a.kind = "name" /\ a.group = N
                       /\ a.frame = q.frame /\ a.mech = q.mech
    BY <2>3, <2>4, <2>5, AskedNames
  <2>7. queries' = (queries \ {q}) \cup new BY <1>4, <2>4
  <2>8. GroupsCounted' /\ DOMAIN groups \subseteq DOMAIN groups' /\ N \in DOMAIN groups'
    BY <1>1, <1>4, <2>4, GroupOpened DEF PolicyInv, Evaluation
  <2> HIDE DEF new
  <2>9. PolicyTyped' BY <2>1 DEF PolicyInv, Evaluation, PolicyTyped
  <2>10. ResultsEarned' BY <2>1, ResultsStay DEF PolicyInv, Evaluation
  <2>11. \A f \in DOMAIN frames' : Linked(f)' BY <2>1, <2>2, LinkedStays DEF PolicyInv, Evaluation
  <2>12. ASSUME NEW r \in queries' PROVE Asking(r)'
    <3>1. CASE r \in queries BY <3>1, <2>2, <2>8, AskingStays DEF PolicyInv, Evaluation
    <3>2. CASE r \in new BY <3>2, <2>1, <2>3, <2>6, <2>8 DEF Asking
    <3> QED BY <2>7, <2>12, <3>1, <3>2
  <2>13. Evaluation' BY <1>1, <2>1, <2>8, <2>9, <2>10, <2>11, <2>12 DEF Evaluation
  <2>14. Single'
    <3>1. PICK t \in Checks : t = frames[q.frame].check BY <2>3
    <3>2. Busy(t) /\ Single /\ q \in QueriesOf(t) /\ \A u \in Checks : ~HasTurn(u)'
      BY <3>1, <1>1, <2>1 DEF HasTurn, Busy, PolicyInv, QueriesOf
    <3>3. /\ \A u : u # t => (QueriesOf(u))' = QueriesOf(u)
          /\ (QueriesOf(t))' = (QueriesOf(t) \ {q}) \cup new
      BY <3>1, <2>1, <2>6, <2>7 DEF QueriesOf
    <3>4. ~flawed => QueriesOf(t) = {q}
      BY <1>1, <3>2 DEF Single, AtOnePlace, OnePlace
    <3>5. ~flawed' => OnePlace((QueriesOf(t))')
      BY <2>1, <2>6, <3>3, <3>4 DEF OnePlace
    <3>6. \A u \in Checks \ {t} : (QueriesOf(u))' \subseteq QueriesOf(u) /\ (HasTurn(u)' => HasTurn(u))
      BY <3>2, <3>3
    <3>7. ~flawed' => OnePlace((QueriesOf(t))') /\ (HasTurn(t)' => (QueriesOf(t))' = {})
      BY <3>2, <3>5
    <3>8. UNCHANGED <<hook, results>> /\ (flawed => flawed') BY <2>1
    <3> QED BY <3>2, <3>6, <3>7, <3>8, ThreadStep
  <2> QED BY <2>13, <2>14 DEF PolicyInv
<1> QED BY <1>2, <1>3, <1>4

LEMMA SeqAt == ASSUME NEW S, NEW s \in Seq(S), NEW i \in DOMAIN s PROVE s[i] \in S
OBVIOUS

LEMMA NameStep ==
  ASSUME PolicyInv, agenda = <<>>, NEW q \in queries, q.kind = "name", Arrived(q),
         NEW hit \in BOOLEAN,
         groups' = [groups EXCEPT ![q.group] = [pending |-> groups[q.group].pending - 1, hit |-> hit]],
         UNCHANGED <<plugin, frames, counts, been_there, lookups, results>>,
         hits \subseteq hits', flawed => flawed',
         \/ agenda' = <<>>
         \/ \E i : /\ agenda' = <<i>> /\ Due(i)' /\ CheckOf(i)' = frames[q.frame].check
                   /\ flawed' \/ groups[q.group].pending = 1
  PROVE  PolicyInv'
<1>1. /\ UNCHANGED <<zone, session, hook, spf_helo, frames, counts, been_there>>
      /\ UNCHANGED <<lookups, results>> /\ queries' = queries \ {q}
  BY DEF plugin, Arrived
<1>2. Grow /\ Further BY <1>1, Stand DEF Grow
<1>3. Asking(q) /\ q.frame \in DOMAIN frames /\ frames[q.frame].check \in Checks
  BY AskedFrame DEF PolicyInv
<1>4. /\ GroupsCounted' /\ DOMAIN groups' = DOMAIN groups
      /\ groups[q.group].pending = 1 => NamesOf(q.group) = {q}
  BY <1>1, <1>3, GroupAnswered DEF PolicyInv, Evaluation
<1>5. PolicyTyped' BY <1>1 DEF PolicyInv, Evaluation, PolicyTyped
<1>6. ResultsEarned' BY <1>1, ResultsStay DEF PolicyInv, Evaluation
<1>7. \A f \in DOMAIN frames' : Linked(f)' BY <1>1, <1>2, LinkedStays DEF PolicyInv, Evaluation
<1>8. \A r \in queries' : Asking(r)'
  BY <1>1, <1>2, <1>4, AskingStays DEF PolicyInv, Evaluation
<1>9. (agenda = <<>> \/ (agenda = <<Head(agenda)>> /\ Due(Head(agenda))))'
  BY Empties
<1>10. Evaluation' BY <1>4, <1>5, <1>6, <1>7, <1>8, <1>9 DEF Evaluation
<1>11. Single'
  <2>1. PICK t \in Checks : t = frames[q.frame].check BY <1>3
  <2>2. Busy(t) /\ Single /\ q \in QueriesOf(t) BY <2>1 DEF Busy, PolicyInv, QueriesOf
  <2>3. \A u \in Checks \ {t} : ~HasTurn(u)' BY <2>1, Empties DEF HasTurn
  <2>4. \A u : (QueriesOf(u))' = QueriesOf(u) \ {q}
    BY <1>1, <1>2, QueriesKept DEF PolicyInv, Evaluation
  <2>5. ~flawed => OnePlace(QueriesOf(t)) BY <2>2 DEF Single, AtOnePlace
  <2>6. ~flawed' => OnePlace((QueriesOf(t))') BY <2>4, <2>5 DEF OnePlace
  <2>7. ASSUME ~flawed', HasTurn(t)' PROVE (QueriesOf(t))' = {}
    <3>1. groups[q.group].pending = 1 BY <2>7 DEF HasTurn
    <3>2. \A p \in QueriesOf(t) : p \in NamesOf(q.group)
      BY <2>2, <2>5, <2>7 DEF OnePlace, QueriesOf, NamesOf
    <3> QED BY <1>4, <2>4, <3>1, <3>2
  <2>8. \A u \in Checks \ {t} : (QueriesOf(u))' \subseteq QueriesOf(u) /\ (HasTurn(u)' => HasTurn(u))
    BY <2>3, <2>4
  <2>9. UNCHANGED <<hook, results>> /\ (flawed => flawed') BY <1>1
  <2> QED BY <2>2, <2>6, <2>7, <2>8, <2>9, ThreadStep
<1> QED BY <1>10, <1>11 DEF PolicyInv

LEMMA OnName ==
  ASSUME PolicyInv, NEW q \in queries, NameAnswer(q)
  PROVE  PolicyInv'
<1> DEFINE g == q.group
<1>1. /\ agenda = <<>> /\ q.kind = "name" /\ Arrived(q)
      /\ UNCHANGED <<plugin, frames, counts, been_there, lookups, results>>
  BY DEF NameAnswer, AnswerTo
<1>2. /\ q.frame \in DOMAIN frames /\ q.mech \in Mech /\ frames[q.frame].check \in Checks
      /\ q.group \in DOMAIN groups
  BY <1>1, AskedFrame DEF PolicyInv, Asking
<1>3. groups[g] \in [pending : 0..MaxNames, hit : BOOLEAN]
  <2>1. groups \in Seq([pending : 0..MaxNames, hit : BOOLEAN])
    BY DEF PolicyInv, Evaluation, GroupsCounted
  <2> QED BY <1>2, <2>1, SeqAt
<1>4. PICK found \in {"hit", "miss", "temp"} :
        LET pending == StillAsked(g, found)
            last == NoneLeft(pending)
            hit  == groups[g].hit \/ found = "hit"
        IN /\ groups' = [groups EXCEPT ![g] = [pending |-> pending, hit |-> hit]]
           /\ CASE found = "temp" /\ q.mech.name = "mx" -> Without(q, "TempError")
                [] ~last /\ ~(found = "temp" /\ q.mech.name = "mx") -> UNCHANGED <<agenda, hits>>
                [] last /\ q.mech.arg = "bogus" /\ q.mech.name = "ptr" -> Without(q, "PermError")
                [] last /\ hit /\ ~(found = "temp" /\ q.mech.name = "mx")
                        /\ ~(q.mech.arg = "bogus" /\ q.mech.name = "ptr") -> Decide(q)
                [] OTHER -> Without(q, "None")
           /\ flawed' = (flawed \/ (found = "temp" /\ q.mech.name = "mx" /\ ~last))
  BY Zenon DEF NameAnswer
<1> DEFINE last == groups[g].pending = 1
<1>5. PICK hit \in BOOLEAN :
        groups' = [groups EXCEPT ![g] = [pending |-> groups[g].pending - 1, hit |-> hit]]
  BY <1>3, <1>4 DEF StillAsked
<1>6. /\ flawed => flawed'
      /\ \/ UNCHANGED <<agenda, hits>>
         \/ /\ \E r \in {"None", "TempError", "PermError"} : Without(q, r)
            /\ flawed' \/ last
         \/ Decide(q) /\ (flawed' \/ last)
  <2>1. NoneLeft(StillAsked(g, found)) <=> last BY <1>3, BoundsTyped DEF StillAsked, NoneLeft
  <2> HIDE DEF last
  <2> QED BY <1>4, <2>1
<1>7. CASE UNCHANGED <<agenda, hits>>
  BY <1>1, <1>5, <1>6, <1>7, NameStep
<1>8. ASSUME NEW r \in {"None", "TempError", "PermError"}, Without(q, r), flawed' \/ last
      PROVE  PolicyInv'
  <2> DEFINE i == Chain(q.frame, r)
  <2>1. Due(i) /\ CheckOf(i) = frames[q.frame].check
    BY <1>2, ChainIsDue, NoVerdict, SomeResults
  <2>2. Grow /\ agenda' = <<i>> /\ hits \subseteq hits'
    BY <1>1, <1>8, Stand DEF Grow, plugin, Without, Calls
  <2>3. Due(i)' /\ CheckOf(i)' = frames[q.frame].check BY <2>1, <2>2, DueStays, CheckStays
  <2> HIDE DEF i
  <2> QED BY <1>1, <1>5, <1>6, <1>8, <2>2, <2>3, NameStep
<1>9. ASSUME Decide(q), flawed' \/ last PROVE PolicyInv'
  <2> DEFINE i == Chain(q.frame, return_const(q.mech.qualifier))
  <2>1. Due(i)' /\ CheckOf(i)' = frames[q.frame].check /\ hits \subseteq hits'
    BY <1>1, <1>2, <1>9, DecidedIsDue DEF Decide
  <2>2. agenda' = <<i>> BY <1>9 DEF Decide, Calls
  <2> HIDE DEF i
  <2> QED BY <1>1, <1>5, <1>6, <1>9, <2>1, <2>2, NameStep
<1> QED BY <1>6, <1>7, <1>8, <1>9

(* A check_host that begins asks for its record.                            *)
LEMMA Begun ==
  ASSUME frames \in Seq(CallFrame), NEW frame \in CallFrame, CheckHost(frame)
  PROVE  /\ frames' \in Seq(CallFrame) /\ Further /\ Len(frames') = Len(frames) + 1
         /\ \A g \in DOMAIN frames' \ DOMAIN frames : frames'[g] = frame
         /\ \E p : /\ queries' = queries \cup {p} /\ p.kind # "name" /\ Asking(p)'
                   /\ frames'[p.frame] = frame
<1> DEFINE n == Len(frames) + 1  p == Query(n, "txt", NoMech)
<1>1. /\ frames' \in Seq(CallFrame) /\ Further /\ Len(frames') = n
      /\ DOMAIN frames' = DOMAIN frames \cup {n} /\ frames'[n] = frame /\ n \in Nat
  BY FrameMore DEF CheckHost
<1>2. queries' = queries \cup {p} BY DEF CheckHost
<1>3. PICK q : q = p OBVIOUS
<1>4. q \in Queried /\ q.kind = "txt" /\ q.frame = n
  BY <1>1, <1>3, NoMechMech DEF Query, Queried
<1>5. Asking(q)' BY <1>1, <1>4 DEF Asking
<1> HIDE DEF n, p
<1> QED BY <1>1, <1>2, <1>3, <1>4, <1>5 DEF n

LEMMA Counting ==
  ASSUME counts \in Seq(Nat), NEW o \in DOMAIN counts
  PROVE  LET c == [counts EXCEPT ![o] = @ + 1]
         IN /\ c \in Seq(Nat) /\ Len(c) = Len(counts) /\ DOMAIN c = DOMAIN counts
            /\ counts[o] + 1 \in Nat
<1>1. counts[o] + 1 \in Nat BY SeqAt
<1>2. [counts EXCEPT ![o] = @ + 1] = [counts EXCEPT ![o] = counts[o] + 1] OBVIOUS
<1> QED BY <1>1, <1>2, SeqPut

LEMMA Appending ==
  ASSUME NEW S, NEW s \in Seq(S), NEW x \in S
  PROVE  /\ Append(s, x) \in Seq(S) /\ Len(Append(s, x)) = Len(s) + 1
         /\ DOMAIN s \subseteq DOMAIN Append(s, x) /\ Len(s) + 1 \in DOMAIN Append(s, x)
OBVIOUS

LEMMA OnLookup ==
  ASSUME PolicyInv, NEW mech \in {"a", "exists", "mx", "ptr"}, Lookup(mech)
  PROVE  PolicyInv'
<1> DEFINE i == Head(agenda)
<1>1. /\ agenda # <<>> /\ i.call = mech /\ agenda' = Tail(agenda)
      /\ UNCHANGED <<plugin, frames, been_there, groups, hits, results, flawed>>
      /\ Counted(i.frame) /\ queries' = queries \cup {Query(i.frame, mech, i.arg)}
  BY DEF Lookup, Calling, Return
<1>2. /\ MechDue(i) /\ CheckOf(i) = frames[i.frame].check /\ CheckOf(i) \in Checks
      /\ i.frame \in DOMAIN frames /\ Linked(i.frame)
  BY <1>1, WhatIsDue DEF PolicyInv, MechNames, Checks
<1> HIDE DEF i
<1>3. PICK f \in DOMAIN frames, p \in {Query(i.frame, mech, i.arg)} :
        f = i.frame /\ p = Query(f, mech, i.arg)
  BY <1>2
<1>4. /\ frames \in Seq(CallFrame) /\ counts \in Seq(Nat) /\ Len(counts) <= Len(frames)
      /\ been_there \in [Checks -> SUBSET Domains] /\ lookups \in [Checks -> Nat]
      /\ frames[f].obj \in DOMAIN counts
  BY <1>2, <1>3 DEF PolicyInv, Evaluation, PolicyTyped, Linked
<1>5. /\ counts' \in Seq(Nat) /\ Len(counts') = Len(counts) /\ DOMAIN counts' = DOMAIN counts
      /\ lookups' \in [Checks -> Nat]
  <2>1. /\ counts' = [counts EXCEPT ![frames[f].obj] = @ + 1]
        /\ lookups' = [lookups EXCEPT ![frames[f].check] = @ + 1]
    BY <1>1, <1>3 DEF Counted
  <2>2. frames[f].check \in Checks BY <1>2, <1>3
  <2>3. lookups' \in [Checks -> Nat] BY <1>4, <2>1, <2>2
  <2> QED BY <1>4, <2>1, <2>3, Counting
<1>6. Further /\ Grow BY <1>1, <1>5, Stand DEF Grow, plugin
<1>7. p \in Queried /\ p.kind = mech /\ p.frame = f /\ queries' = queries \cup {p}
  BY <1>1, <1>2, <1>3, <1>4 DEF Query, Queried, MechDue
<1>8. Asking(p)' BY <1>1, <1>7 DEF Asking
<1>9. frames'[p.frame].check = CheckOf(Head(agenda)) /\ CheckOf(Head(agenda)) \in Checks
  BY <1>1, <1>2, <1>3, <1>7 DEF i
<1>10. Len(counts') <= Len(frames') BY <1>1, <1>4, <1>5
<1> QED BY <1>1, <1>4, <1>5, <1>6, <1>7, <1>8, <1>9, <1>10, AskStep

(* mech_include and mod_redirect, when the domain has not been there.       *)
LEMMA IntoRecord ==
  ASSUME PolicyInv, agenda # <<>>, Return, NEW f \in DOMAIN frames, Linked(f),
         frames[f].check = CheckOf(Head(agenda)), NEW frame \in CallFrame, CheckHost(frame),
         frame.check = frames[f].check, frame.obj \in DOMAIN counts', frame.back.frame = f,
         \/ frame.back.to = "included"
         \/ frame.back.to = "mod_chain" /\ frame.included = frames[f].included,
         counts' \in Seq(Nat), DOMAIN counts \subseteq DOMAIN counts', Len(counts') <= Len(counts) + 1,
         been_there' \in [Checks -> SUBSET Domains], lookups' \in [Checks -> Nat],
         UNCHANGED <<plugin, groups, hits, results, flawed>>
  PROVE  PolicyInv'
<1>1. /\ frames' \in Seq(CallFrame) /\ Further /\ Len(frames') = Len(frames) + 1
      /\ \A g \in DOMAIN frames' \ DOMAIN frames : frames'[g] = frame
  BY Begun DEF PolicyInv, Evaluation, PolicyTyped
<1>2. PICK p : /\ queries' = queries \cup {p} /\ p.kind # "name" /\ Asking(p)'
               /\ frames'[p.frame] = frame
  BY Begun DEF PolicyInv, Evaluation, PolicyTyped
<1>3. Grow /\ session' = session BY <1>1 DEF Grow, plugin
<1>4. Len(counts') <= Len(frames')
  BY <1>1 DEF PolicyInv, Evaluation, PolicyTyped
<1>5. /\ f \in DOMAIN frames' /\ frames'[f].check = frames[f].check
      /\ frames'[f].included = frames[f].included
      /\ frames[f].check # "helo" => session.sender \in Domains
  BY <1>1 DEF Further, Linked
<1>6. ASSUME NEW g \in DOMAIN frames' \ DOMAIN frames PROVE Linked(g)'
  <2>1. frames'[g] = frame BY <1>1, <1>6
  <2> QED BY <2>1, <1>3, <1>5 DEF Linked, Checks
<1>7. frames'[p.frame].check = CheckOf(Head(agenda)) /\ CheckOf(Head(agenda)) \in Checks
  BY <1>2, WhatIsDue DEF PolicyInv
<1>8. agenda' = Tail(agenda) BY DEF Return
<1> QED BY <1>1, <1>2, <1>3, <1>4, <1>6, <1>7, <1>8, AskStep

LEMMA OnInclude ==
  ASSUME PolicyInv, mech_include \/ mod_redirect
  PROVE  PolicyInv'
<1> DEFINE i == Head(agenda)  f == i.frame  domain == i.arg.arg  fr == frames[f]
<1>1. /\ agenda # <<>> /\ i.call \in {"include", "redirect"}
      /\ UNCHANGED <<plugin, hits, results, flawed>>
      /\ mech_include => i.call = "include"
      /\ mod_redirect => i.call = "redirect"
  BY DEF mech_include, mod_redirect, Calling
<1>2. /\ i.call = "include" => i.arg \in Mech /\ i.arg.name = "include"
      /\ i.call = "redirect" => i.arg \in Mod /\ i.arg.name = "redirect"
      /\ CheckOf(i) = fr.check /\ fr.check \in Checks
      /\ f \in DOMAIN frames /\ fr \in CallFrame /\ Linked(f)
  BY <1>1, WhatIsDue DEF PolicyInv, MechNames, Checks, MechDue, ModDue
<1>3. domain \in Domains BY <1>1, <1>2, MechParts, ModParts
<1>4. /\ frames \in Seq(CallFrame) /\ counts \in Seq(Nat) /\ Len(counts) <= Len(frames)
      /\ been_there \in [Checks -> SUBSET Domains] /\ lookups \in [Checks -> Nat]
      /\ fr.obj \in DOMAIN counts /\ fr.included \in BOOLEAN /\ f \in Nat /\ fr.obj \in Nat
  <2>1. /\ frames \in Seq(CallFrame) /\ counts \in Seq(Nat) /\ Len(counts) <= Len(frames)
        /\ been_there \in [Checks -> SUBSET Domains] /\ lookups \in [Checks -> Nat]
    BY DEF PolicyInv, Evaluation, PolicyTyped
  <2>2. fr.obj \in DOMAIN counts BY <1>2 DEF Linked
  <2>3. fr.included \in BOOLEAN BY <1>2 DEF CallFrame
  <2> HIDE DEF f
  <2> QED BY <1>2, <2>1, <2>2, <2>3
<1> HIDE DEF domain
<1>5. [been_there EXCEPT ![fr.check] = @ \cup {domain}] \in [Checks -> SUBSET Domains]
  BY <1>2, <1>3, <1>4
<1>6. [lookups EXCEPT ![fr.check] = @ + 1] \in [Checks -> Nat]
  BY <1>2, <1>4
<1> DEFINE c == [counts EXCEPT ![fr.obj] = @ + 1]
<1>7. /\ c \in Seq(Nat) /\ Len(c) = Len(counts) /\ DOMAIN c = DOMAIN counts
      /\ counts[fr.obj] + 1 \in Nat
  BY <1>4, Counting
<1>8. ASSUME UNCHANGED engine, Goto(Chain(f, "None")) \/ Goto(Mods(f, "None"))
      PROVE  PolicyInv'
  <2>1. /\ UNCHANGED <<frames, counts, been_there, groups, queries, lookups>>
    BY <1>8 DEF engine
  <2>2. /\ Due(Chain(f, "None")) /\ CheckOf(Chain(f, "None")) = CheckOf(Head(agenda))
        /\ Due(Mods(f, "None")) /\ CheckOf(Mods(f, "None")) = CheckOf(Head(agenda))
    BY <1>2, ChainIsDue, NoVerdict, SomeResults
  <2> HIDE DEF f
  <2> QED BY <1>1, <1>4, <1>8, <2>1, <2>2, GotoStep, Stand
<1> HIDE DEF c
<1>9. ASSUME been_there' = [been_there EXCEPT ![fr.check] = @ \cup {domain}],
             counts' = Append(c, counts[fr.obj] + 1),
             lookups' = [lookups EXCEPT ![fr.check] = @ + 1],
             CheckHost(Frame(fr.check, Len(counts) + 1, domain, TRUE,
                             [to |-> "included", frame |-> f])),
             Return, UNCHANGED groups
      PROVE  PolicyInv'
  <2>1. PICK x : x = Frame(fr.check, Len(counts) + 1, domain, TRUE, [to |-> "included", frame |-> f])
    OBVIOUS
  <2>2. x \in CallFrame
    <3>1. Len(counts) + 1 \in Nat BY <1>4
    <3> QED BY <2>1, <3>1, <1>2, <1>3, <1>4, FrameTyped
  <2>3. /\ x.check = fr.check /\ x.obj = Len(counts) + 1 /\ x.back.frame = f
        /\ x.back.to = "included"
    BY <2>1 DEF Frame
  <2>4. /\ counts' \in Seq(Nat) /\ Len(counts') = Len(counts) + 1
        /\ DOMAIN counts \subseteq DOMAIN counts' /\ Len(counts) + 1 \in DOMAIN counts'
    BY <1>7, <1>9, Appending
  <2>5. PICK g \in DOMAIN frames : g = f BY <1>2
  <2>6. CheckHost(x) /\ Len(counts') <= Len(counts) + 1
    <3>1. CheckHost(x) BY <1>9, <2>1
    <3>2. Len(counts) + 1 \in Nat BY <1>4
    <3> QED BY <2>4, <3>1, <3>2
  <2>7. Linked(g) /\ frames[g].check = CheckOf(Head(agenda)) /\ x.check = frames[g].check
        /\ x.back.frame = g /\ x.obj \in DOMAIN counts'
    BY <1>2, <2>3, <2>4, <2>5
  <2>8. been_there' \in [Checks -> SUBSET Domains] /\ lookups' \in [Checks -> Nat]
    BY <1>5, <1>6, <1>9
  <2> HIDE DEF f
  <2> QED BY <1>1, <1>9, <2>2, <2>3, <2>4, <2>6, <2>7, <2>8, IntoRecord
<1>10. ASSUME been_there' = [been_there EXCEPT ![fr.check] = @ \cup {domain}], Counted(f),
              CheckHost(Frame(fr.check, fr.obj, domain, fr.included,
                              [to |-> "mod_chain", frame |-> f])),
              Return, UNCHANGED groups
       PROVE  PolicyInv'
  <2>1. PICK x : x = Frame(fr.check, fr.obj, domain, fr.included, [to |-> "mod_chain", frame |-> f])
    OBVIOUS
  <2>2. x \in CallFrame BY <2>1, <1>2, <1>3, <1>4, FrameTyped
  <2>3. /\ x.check = fr.check /\ x.obj = fr.obj /\ x.back.frame = f
        /\ x.back.to = "mod_chain" /\ x.included = fr.included
    BY <2>1 DEF Frame
  <2>4. /\ counts' = c /\ lookups' = [lookups EXCEPT ![fr.check] = @ + 1]
    BY <1>10 DEF Counted, c
  <2>5. PICK g \in DOMAIN frames : g = f BY <1>2
  <2>6. /\ counts' \in Seq(Nat) /\ DOMAIN counts' = DOMAIN counts /\ Len(counts') <= Len(counts) + 1
    BY <1>4, <1>7, <2>4
  <2>7. Linked(g) /\ frames[g].check = CheckOf(Head(agenda)) /\ x.check = frames[g].check
        /\ x.back.frame = g /\ x.obj \in DOMAIN counts' /\ x.included = frames[g].included
        /\ CheckHost(x)
    BY <1>2, <1>4, <1>10, <2>1, <2>3, <2>5, <2>6
  <2>8. been_there' \in [Checks -> SUBSET Domains] /\ lookups' \in [Checks -> Nat]
    BY <1>5, <1>6, <1>10, <2>4
  <2> HIDE DEF f
  <2> QED BY <1>1, <1>10, <2>2, <2>3, <2>6, <2>7, <2>8, IntoRecord
<1>11. CASE mech_include
  BY <1>8, <1>9, <1>11 DEF mech_include, domain, c
<1>12. CASE mod_redirect
  BY <1>8, <1>10, <1>12 DEF mod_redirect, domain
<1> QED BY <1>11, <1>12

-----------------------------------------------------------------------------
(* The plugin                                                                   *)

Hooks == [Checks -> {"no", "waiting", "timeout"} \cup Answers]
(* A hook that was called stays called.                                     *)
HooksKept == hook' \in Hooks /\ \A t \in Checks : hook[t] # "no" => hook'[t] # "no"

LEMMA HookSet ==
  ASSUME hook \in Hooks, NEW s \in Checks, NEW a \in {"waiting", "timeout"} \cup Answers,
         hook' = [hook EXCEPT ![s] = a]
  PROVE  HooksKept /\ hook'[s] # "no"
<1>1. a # "no" BY DEF Answers
<1> QED BY <1>1 DEF Hooks, HooksKept

LEMMA Settles ==
  ASSUME hook \in Hooks, NEW s \in Checks, NEW a \in Answers, Settle(s, a)
  PROVE  HooksKept
<1>1. CASE hook[s] = "waiting" BY <1>1, HookSet DEF Settle
<1>2. CASE hook[s] # "waiting" BY <1>2 DEF Settle, HooksKept
<1> QED BY <1>1, <1>2

(* A hook is answered, and nothing else happens.                            *)
LEMMA HookStep ==
  ASSUME PolicyInv, HooksKept,
         UNCHANGED <<zone, session, spf_helo, frames, counts, been_there, groups, queries, agenda>>,
         UNCHANGED <<lookups, hits, results, flawed>>
  PROVE  PolicyInv'
<1>1. Grow /\ Further BY Stand DEF Grow
<1>2. PolicyTyped' BY DEF PolicyInv, Evaluation, PolicyTyped, HooksKept, Hooks
<1>3. GroupsCounted' BY DEF PolicyInv, Evaluation, GroupsCounted, NamesOf
<1>4. ResultsEarned' BY ResultsStay DEF PolicyInv, Evaluation
<1>5. \A f \in DOMAIN frames' : Linked(f)' BY <1>1, LinkedStays DEF PolicyInv, Evaluation
<1>6. \A q \in queries' : Asking(q)' BY <1>1, AskingStays DEF PolicyInv, Evaluation
<1>7. (agenda = <<>> \/ (agenda = <<Head(agenda)>> /\ Due(Head(agenda))))'
  <2>1. ASSUME NEW i, Due(i) PROVE Due(i)' BY <1>1, <2>1, DueStays
  <2> QED BY <2>1 DEF PolicyInv, Evaluation
<1>8. Evaluation' BY <1>2, <1>3, <1>4, <1>5, <1>6, <1>7 DEF Evaluation
<1>9. Single'
  <2> SUFFICES ASSUME ~flawed', NEW t \in Checks PROVE AtOnePlace(t)'
    BY DEF Single
  <2>1. AtOnePlace(t) BY DEF PolicyInv, Single
  <2>2. \A u : (QueriesOf(u))' = QueriesOf(u) BY DEF QueriesOf
  <2>3. \A u : HasTurn(u)' = HasTurn(u) /\ Busy(u)' = Busy(u)
    BY <2>2 DEF HasTurn, CheckOf, Busy
  <2>4. HookOf(t) \in Checks BY DEF HookOf, Checks
  <2> QED BY <2>1, <2>2, <2>3, <2>4 DEF AtOnePlace, HooksKept
<1> QED BY <1>8, <1>9 DEF PolicyInv

(* The callback of a check_host the plugin called.                          *)
LEMMA ResultStep ==
  ASSUME PolicyInv, agenda # <<>>, Return, NEW s \in Checks, Head(agenda).call = s, HooksKept,
         spf_helo' \in {"none"} \cup Results,
         UNCHANGED results \/ Heard(s, Head(agenda).result),
         UNCHANGED <<zone, session, engine, hits, flawed>>
  PROVE  PolicyInv'
<1> DEFINE r == Head(agenda).result
<1>1. /\ UNCHANGED <<zone, session, frames, counts, been_there, groups, queries, lookups, hits, flawed>>
      /\ agenda' = <<>>
  BY TheCall DEF engine, Return, PolicyInv
<1>2. r \in Results /\ Earned(s, FALSE, r) /\ CheckOf(Head(agenda)) = s
  BY WhatIsDue DEF PolicyInv, ResultDue, CheckOf
<1>3. Grow /\ Further BY <1>1, Stand DEF Grow
<1>4. results \in [Checks -> Seq(Results)] BY DEF PolicyInv, Evaluation, PolicyTyped
<1> HIDE DEF r
<1>5. /\ results' \in [Checks -> Seq(Results)]
      /\ \A t \in Checks : t # s => results'[t] = results[t]
      /\ results'[s] = results[s] \/ results'[s] = Append(results[s], r)
  <2>1. CASE UNCHANGED results BY <2>1, <1>4
  <2>2. CASE Heard(s, Head(agenda).result)
    <3>1. results' = [results EXCEPT ![s] = Append(results[s], r)] BY <2>2, <1>4 DEF Heard, r
    <3>2. Append(results[s], r) \in Seq(Results) BY <1>2, <1>4
    <3> QED BY <1>4, <3>1, <3>2
  <2> QED BY <2>1, <2>2
<1>6. PolicyTyped' BY <1>1, <1>5 DEF PolicyInv, Evaluation, PolicyTyped, HooksKept, Hooks
<1>7. GroupsCounted' BY <1>1 DEF PolicyInv, Evaluation, GroupsCounted, NamesOf
<1>8. ResultsEarned'
  <2> SUFFICES ASSUME NEW t \in Checks, NEW i \in DOMAIN results'[t]
               PROVE  Earned(t, FALSE, results'[t][i])
    BY <1>1 DEF ResultsEarned, Earned
  <2>1. \A j \in DOMAIN results[t] : Earned(t, FALSE, results[t][j])
    BY DEF PolicyInv, Evaluation, ResultsEarned
  <2>2. CASE results'[t] = results[t] BY <2>1, <2>2
  <2>3. CASE t = s /\ results'[s] = Append(results[s], r)
    <3>1. results[s] \in Seq(Results) BY <1>4
    <3>2. i \in DOMAIN results[s] \/ results'[s][i] = r BY <2>3, <3>1
    <3>3. i \in DOMAIN results[s] => results'[s][i] = results[s][i] BY <2>3, <3>1
    <3> QED BY <1>2, <2>1, <2>3, <3>2, <3>3
  <2> QED BY <1>5, <2>2, <2>3
<1>9. \A f \in DOMAIN frames' : Linked(f)' BY <1>1, <1>3, LinkedStays DEF PolicyInv, Evaluation
<1>10. \A q \in queries' : Asking(q)' BY <1>1, <1>3, AskingStays DEF PolicyInv, Evaluation
<1>11. Evaluation' BY <1>1, <1>6, <1>7, <1>8, <1>9, <1>10 DEF Evaluation
<1>12. Single'
  <2> SUFFICES ASSUME ~flawed', NEW t \in Checks PROVE AtOnePlace(t)'
    BY DEF Single
  <2>1. \A u \in Checks : AtOnePlace(u) BY <1>1 DEF PolicyInv, Single
  <2>2. \A u : (QueriesOf(u))' = QueriesOf(u) /\ ~HasTurn(u)'
    BY <1>1 DEF QueriesOf, HasTurn
  <2>3. HasTurn(s) /\ Busy(s) /\ ~Busy(s)' /\ results[s] = <<>>
    BY <1>2, <2>1, <2>2 DEF HasTurn, Busy, AtOnePlace
  <2>4. \A u \in Checks : Busy(u)' => Busy(u) /\ u # s BY <2>2, <2>3 DEF Busy
  <2>5. Len(results'[s]) <= 1
    <3>1. Len(<<>>) = 0 /\ Len(Append(<<>>, r)) = 1 OBVIOUS
    <3>2. results'[s] = <<>> \/ results'[s] = Append(<<>>, r) BY <1>5, <2>3
    <3>3. Len(results'[s]) = 0 \/ Len(results'[s]) = 1 BY <3>1, <3>2, Zenon
    <3>4. \A n : n = 0 \/ n = 1 => n <= 1 OBVIOUS
    <3> QED BY <3>3, <3>4, Zenon
  <2>6. Len(results'[t]) <= 1 /\ (Busy(t)' => results'[t] = <<>>)
    BY <1>5, <2>1, <2>4, <2>5 DEF AtOnePlace
  <2>7. Busy(t)' \/ results'[t] # <<>> => Busy(t) \/ results[t] # <<>>
    BY <1>5, <2>3, <2>4
  <2>8. HookOf(t) \in Checks /\ "mfrom" \in Checks BY DEF HookOf, Checks
  <2>9. OnePlace((QueriesOf(t))') BY <2>1, <2>2 DEF AtOnePlace, OnePlace
  <2> QED BY <2>1, <2>2, <2>4, <2>6, <2>7, <2>8, <2>9 DEF AtOnePlace, HooksKept
<1> QED BY <1>11, <1>12 DEF PolicyInv

(* The plugin begins a check that has nothing under way.                    *)
Unbegun(s) == ~Busy(s) /\ results[s] = <<>>

LEMMA NewCheck ==
  ASSUME PolicyInv, agenda' = <<>>, NEW s \in Checks, NEW domain \in Domains,
         CheckHost(Frame(s, Len(counts) + 1, domain, FALSE, [to |-> s, frame |-> 0])),
         counts' = Append(counts, 0), s # "helo" => session.sender \in Domains,
         HooksKept, ~flawed => hook'[HookOf(s)] # "no",
         ~flawed => Unbegun(s),
         ~flawed /\ s = "own" => QueriesOf("mfrom") = {},
         ~flawed /\ s = "mfrom" => Unbegun("own"),
         UNCHANGED <<zone, session, spf_helo, been_there, groups, lookups, hits, results, flawed>>
  PROVE  PolicyInv'
<1>1. /\ frames \in Seq(CallFrame) /\ counts \in Seq(Nat) /\ Len(counts) <= Len(frames)
  BY DEF PolicyInv, Evaluation, PolicyTyped
<1>2. PICK x : x = Frame(s, Len(counts) + 1, domain, FALSE, [to |-> s, frame |-> 0])
  OBVIOUS
<1>3. x \in CallFrame
  <2>1. Len(counts) + 1 \in Nat BY <1>1
  <2> QED BY <1>2, <2>1, FrameTyped
<1>4. /\ x.check = s /\ x.obj = Len(counts) + 1 /\ x.back.to = s /\ x.included = FALSE
  BY <1>2 DEF Frame
<1>5. CheckHost(x) BY <1>2
<1>6. /\ frames' \in Seq(CallFrame) /\ Further /\ Len(frames') = Len(frames) + 1
      /\ \A g \in DOMAIN frames' \ DOMAIN frames : frames'[g] = x
  BY <1>1, <1>3, <1>5, Begun
<1>7. PICK p : /\ queries' = queries \cup {p} /\ p.kind # "name" /\ Asking(p)'
               /\ frames'[p.frame] = x
  BY <1>1, <1>3, <1>5, Begun
<1>8. /\ counts' \in Seq(Nat) /\ Len(counts') = Len(counts) + 1 /\ DOMAIN counts \subseteq DOMAIN counts'
      /\ Len(counts) + 1 \in DOMAIN counts'
  BY <1>1, Appending
<1>9. Grow /\ session' = session BY <1>6, <1>8 DEF Grow
<1>10. PolicyTyped' BY <1>1, <1>6, <1>8 DEF PolicyInv, Evaluation, PolicyTyped, HooksKept, Hooks
<1>11. GroupsCounted' BY <1>7, GroupsSame DEF PolicyInv, Evaluation
<1>12. ResultsEarned' BY ResultsStay DEF PolicyInv, Evaluation
<1>13. ASSUME NEW g \in DOMAIN frames' PROVE Linked(g)'
  <2>1. CASE g \in DOMAIN frames BY <2>1, <1>9, LinkedStays DEF PolicyInv, Evaluation
  <2>2. CASE g \notin DOMAIN frames
    <3>1. frames'[g] = x BY <1>6, <1>13, <2>2
    <3> QED BY <3>1, <1>4, <1>8, <1>9 DEF Linked, Checks
  <2> QED BY <2>1, <2>2
<1>14. \A q \in queries' : Asking(q)' BY <1>6, <1>7, AskingStays DEF PolicyInv, Evaluation
<1>15. Evaluation' BY <1>10, <1>11, <1>12, <1>13, <1>14 DEF Evaluation
<1>16. Single'
  <2> SUFFICES ASSUME ~flawed', NEW t \in Checks PROVE AtOnePlace(t)'
    BY DEF Single
  <2>1. AtOnePlace(t) /\ ~flawed BY DEF PolicyInv, Single
  <2>2. /\ \A u : u # s => (QueriesOf(u))' = QueriesOf(u)
        /\ (QueriesOf(s))' = QueriesOf(s) \cup {p}
    BY <1>4, <1>6, <1>7, QueriesKept DEF PolicyInv, Evaluation
  <2>3. \A u : ~HasTurn(u)' BY DEF HasTurn
  <2>4. QueriesOf(s) = {} /\ results[s] = <<>> BY <2>1 DEF Unbegun, Busy
  <2>5. \A u : u # s => (Busy(u)' => Busy(u)) BY <2>2, <2>3 DEF Busy
  <2>6. HookOf(t) \in Checks BY DEF HookOf, Checks
  <2>7. CASE t = s
    <3>1. OnePlace((QueriesOf(s))') BY <2>2, <2>4 DEF OnePlace
    <3>2. s = "own" => ~Busy("mfrom")' BY <2>1, <2>2, <2>3 DEF Busy
    <3> QED BY <2>3, <2>4, <2>7, <3>1, <3>2 DEF AtOnePlace
  <2>8. CASE t # s
    <3>1. OnePlace((QueriesOf(t))') BY <2>1, <2>2, <2>8 DEF AtOnePlace
    <3>2. t = "own" /\ (Busy(t)' \/ results'[t] # <<>>) => ~Busy("mfrom")'
      BY <2>1, <2>5, <2>8 DEF AtOnePlace, Unbegun
    <3> QED BY <2>1, <2>3, <2>5, <2>6, <2>8, <3>1, <3>2 DEF AtOnePlace, HooksKept
  <2> QED BY <2>7, <2>8
<1> QED BY <1>15, <1>16 DEF PolicyInv

LEMMA OnHelo ==
  ASSUME PolicyInv, helo_spf
  PROVE  PolicyInv'
<1>1. /\ agenda = <<>> /\ agenda' = <<>> /\ hook["helo"] = "no" /\ "helo" \in Checks
      /\ UNCHANGED <<zone, session, spf_helo, been_there, groups, agenda, lookups, hits, results, flawed>>
  BY DEF helo_spf, Idle, Checks
<1>2. hook \in Hooks /\ session \in Session
  BY DEF PolicyInv, Evaluation, PolicyTyped, Hooks
<1>3. CASE session.helo = "literal"
  <2>1. hook' = [hook EXCEPT !["helo"] = "CONT"] /\ UNCHANGED <<frames, queries, counts>>
    BY <1>3 DEF helo_spf
  <2>2. HooksKept BY <1>1, <1>2, <2>1, HookSet DEF Answers
  <2> QED BY <1>1, <2>1, <2>2, HookStep
<1>4. CASE session.helo # "literal"
  <2>1. /\ CheckHost(Frame("helo", Len(counts) + 1, session.helo, FALSE, [to |-> "helo", frame |-> 0]))
        /\ counts' = Append(counts, 0) /\ hook' = [hook EXCEPT !["helo"] = "waiting"]
    BY <1>4 DEF helo_spf, Check
  <2>2. HooksKept /\ hook'[HookOf("helo")] # "no" BY <1>1, <1>2, <2>1, HookSet DEF HookOf
  <2>3. session.helo \in Domains BY <1>2, <1>4 DEF Session
  <2>4. ~flawed => Unbegun("helo")
    BY <1>1 DEF PolicyInv, Single, AtOnePlace, HookOf, Unbegun
  <2> QED BY <1>1, <2>1, <2>2, <2>3, <2>4, NewCheck
<1> QED BY <1>3, <1>4

LEMMA OnMail ==
  ASSUME PolicyInv, hook_mail
  PROVE  PolicyInv'
<1>1. /\ agenda = <<>> /\ agenda' = <<>> /\ hook["mfrom"] = "no" /\ "mfrom" \in Checks
      /\ "own" \in Checks
      /\ UNCHANGED <<zone, session, spf_helo, been_there, groups, agenda, lookups, hits, results, flawed>>
  BY DEF hook_mail, Idle, Checks
<1>2. hook \in Hooks /\ session \in Session
  BY DEF PolicyInv, Evaluation, PolicyTyped, Hooks
<1>3. CASE session.sender = "null"
  <2>1. PICK a \in Answers : /\ hook' = [hook EXCEPT !["mfrom"] = a]
                             /\ UNCHANGED <<frames, queries, counts>>
    BY <1>3, Verdict DEF hook_mail, Answers
  <2>2. HooksKept BY <1>1, <1>2, <2>1, HookSet
  <2> QED BY <1>1, <2>1, <2>2, HookStep
<1>4. CASE session.sender # "null"
  <2>1. /\ CheckHost(Frame("mfrom", Len(counts) + 1, session.sender, FALSE,
                           [to |-> "mfrom", frame |-> 0]))
        /\ counts' = Append(counts, 0) /\ hook' = [hook EXCEPT !["mfrom"] = "waiting"]
    BY <1>4 DEF hook_mail, Check
  <2>2. HooksKept /\ hook'[HookOf("mfrom")] # "no" BY <1>1, <1>2, <2>1, HookSet DEF HookOf
  <2>3. session.sender \in Domains BY <1>2, <1>4 DEF Session
  <2>4. ~flawed => Unbegun("mfrom") /\ Unbegun("own")
    BY <1>1 DEF PolicyInv, Single, AtOnePlace, HookOf, Unbegun
  <2> QED BY <1>1, <2>1, <2>2, <2>3, <2>4, NewCheck
<1> QED BY <1>3, <1>4

LEMMA OnHeloResult ==
  ASSUME PolicyInv, HeloResult
  PROVE  PolicyInv'
<1>1. /\ agenda # <<>> /\ Head(agenda).call = "helo" /\ Return /\ "helo" \in Checks
      /\ UNCHANGED <<zone, session, engine, hits, flawed>>
      /\ hook \in Hooks /\ spf_helo \in {"none"} \cup Results
  BY DEF HeloResult, Calling, Checks, PolicyInv, Evaluation, PolicyTyped, Hooks
<1>2. CASE UNCHANGED <<hook, spf_helo, results>>
  <2>1. HooksKept /\ spf_helo' \in {"none"} \cup Results /\ UNCHANGED results
    BY <1>1, <1>2 DEF HooksKept
  <2> QED BY <1>1, <2>1, ResultStep
<1>3. ASSUME spf_helo' = Head(agenda).result, Settle("helo", "CONT"), Heard("helo", Head(agenda).result)
      PROVE  PolicyInv'
  <2>1. HooksKept BY <1>1, <1>3, Settles DEF Answers
  <2>2. spf_helo' \in {"none"} \cup Results
    BY <1>1, <1>3, WhatIsDue DEF PolicyInv, ResultDue
  <2> QED BY <1>1, <1>3, <2>1, <2>2, ResultStep
<1> QED BY <1>2, <1>3 DEF HeloResult

LEMMA OnMailResult ==
  ASSUME PolicyInv, MailResult
  PROVE  PolicyInv'
<1>1. /\ agenda # <<>> /\ Head(agenda).call = "mfrom" /\ Return
      /\ "mfrom" \in Checks /\ "own" \in Checks
      /\ UNCHANGED <<zone, session, spf_helo, been_there, groups, lookups, hits, flawed>>
      /\ hook \in Hooks /\ spf_helo \in {"none"} \cup Results
  BY DEF MailResult, Calling, Checks, PolicyInv, Evaluation, PolicyTyped, Hooks
<1>2. \/ /\ CheckHost(Frame("own", Len(counts) + 1, session.sender, FALSE, [to |-> "own", frame |-> 0]))
         /\ counts' = Append(counts, 0) /\ UNCHANGED <<hook, results>>
      \/ /\ UNCHANGED <<frames, queries, counts>>
         /\ \/ UNCHANGED results /\ (Settle("mfrom", "CONT") \/ UNCHANGED hook)
            \/ \E r : Settle("mfrom", return_results(r)) /\ Heard("mfrom", Head(agenda).result)
  BY DEF MailResult
<1>3. CASE /\ CheckHost(Frame("own", Len(counts) + 1, session.sender, FALSE,
                              [to |-> "own", frame |-> 0]))
           /\ counts' = Append(counts, 0) /\ UNCHANGED <<hook, results>>
  <2>1. /\ HooksKept /\ hook'[HookOf("own")] = hook["mfrom"] BY <1>1, <1>3 DEF HooksKept, HookOf
  <2>2. session.sender \in Domains /\ CheckOf(Head(agenda)) = "mfrom"
    BY <1>1, WhatIsDue DEF PolicyInv, ResultDue, CheckOf
  <2>3. HasTurn("mfrom") /\ Busy("mfrom") BY <1>1, <2>2 DEF HasTurn, Busy
  <2>4. ~flawed => hook["mfrom"] # "no" /\ QueriesOf("mfrom") = {} /\ Unbegun("own")
    BY <1>1, <2>3 DEF PolicyInv, Single, AtOnePlace, HookOf, Unbegun
  <2>5. agenda' = <<>> BY <1>1, TheCall DEF Return, PolicyInv
  <2> QED BY <1>1, <1>3, <2>1, <2>2, <2>4, <2>5, NewCheck
<1>4. CASE /\ UNCHANGED <<frames, queries, counts>>
           /\ UNCHANGED results \/ Heard("mfrom", Head(agenda).result)
           /\ HooksKept
  <2>1. UNCHANGED <<zone, session, engine, hits, flawed>> /\ spf_helo' \in {"none"} \cup Results
    BY <1>1, <1>4 DEF engine
  <2> QED BY <1>1, <1>4, <2>1, ResultStep
<1>5. ASSUME NEW a \in Answers, Settle("mfrom", a) PROVE HooksKept
  BY <1>1, <1>5, Settles
<1>6. UNCHANGED hook => HooksKept BY <1>1 DEF HooksKept
<1>7. "CONT" \in Answers BY DEF Answers
<1> QED BY <1>2, <1>3, <1>4, <1>5, <1>6, <1>7, Verdict

LEMMA OnOwnResult ==
  ASSUME PolicyInv, OwnResult
  PROVE  PolicyInv'
<1>1. /\ agenda # <<>> /\ Head(agenda).call = "own" /\ Return
      /\ "mfrom" \in Checks /\ "own" \in Checks
      /\ UNCHANGED <<zone, session, spf_helo, engine, hits, flawed>>
      /\ hook \in Hooks /\ spf_helo \in {"none"} \cup Results
  BY DEF OwnResult, Calling, Checks, PolicyInv, Evaluation, PolicyTyped, Hooks
<1>2. \/ UNCHANGED <<hook, results>>
      \/ \E r : Settle("mfrom", return_results(r)) /\ Heard("own", Head(agenda).result)
  BY DEF OwnResult
<1>3. HooksKept /\ (UNCHANGED results \/ Heard("own", Head(agenda).result))
  <2>1. CASE UNCHANGED <<hook, results>> BY <1>1, <2>1 DEF HooksKept
  <2>2. CASE \E r : Settle("mfrom", return_results(r)) /\ Heard("own", Head(agenda).result)
    BY <1>1, <2>2, Verdict, Settles
  <2> QED BY <1>2, <2>1, <2>2
<1>4. spf_helo' \in {"none"} \cup Results BY <1>1
<1> QED BY <1>1, <1>3, <1>4, ResultStep

LEMMA OnTimeout ==
  ASSUME PolicyInv, NEW s \in Checks, Timeout(s)
  PROVE  PolicyInv'
<1>1. /\ hook' = [hook EXCEPT ![s] = "timeout"] /\ hook \in Hooks
      /\ UNCHANGED <<zone, session, spf_helo, frames, counts, been_there, groups, queries, agenda>>
      /\ UNCHANGED <<lookups, hits, results, flawed>>
  BY DEF Timeout, engine, PolicyInv, Evaluation, PolicyTyped, Hooks
<1>2. HooksKept BY <1>1, HookSet
<1> QED BY <1>1, <1>2, HookStep

LEMMA PolicyKept ==
  ASSUME PolicyInv, [PolicyNext]_policy_vars
  PROVE  PolicyInv'
<1>1. CASE Caller
  <2>1. ASSUME NEW mech \in {"a", "exists", "mx", "ptr"}, Lookup(mech) PROVE PolicyInv'
    BY <2>1, OnLookup
  <2> QED BY <1>1, <2>1, OnMechChain, OnItem, OnInclude, OnHeloResult, OnMailResult, OnOwnResult DEF Caller
<1>2. CASE Answering
  BY <1>2, OnTxt, OnAddress, OnNames, OnName DEF Answering
<1>3. CASE UNCHANGED policy_vars
  <2>1. /\ UNCHANGED <<zone, session, spf_helo, frames, counts, been_there, groups, queries, agenda>>
        /\ UNCHANGED <<lookups, hits, results, flawed, hook>>
    BY <1>3 DEF policy_vars
  <2>2. HooksKept BY <2>1 DEF HooksKept, Hooks, PolicyInv, Evaluation, PolicyTyped
  <2> QED BY <2>1, <2>2, HookStep
<1> QED BY <1>1, <1>2, <1>3, OnHelo, OnMail, OnTimeout DEF PolicyNext

LEMMA PolicyBegins == PolicyInit => PolicyInv
<1> SUFFICES ASSUME PolicyInit PROVE PolicyInv
  OBVIOUS
<1>1. PolicyTyped
  <2>1. session \in Session BY SessionsTyped DEF PolicyInit
  <2>2. <<>> \in Seq(Nat) /\ <<>> \in Seq(CallFrame) /\ <<>> \in Seq(Results) /\ Len(<<>>) = 0
    OBVIOUS
  <2> QED BY <2>1, <2>2 DEF PolicyInit, PolicyTyped, Checks
<1>2. GroupsCounted
  <2>1. groups = <<>> /\ queries = {} BY DEF PolicyInit
  <2>2. IsFiniteSet(queries) BY <2>1, FS_EmptySet
  <2>3. groups \in Seq([pending : 0..MaxNames, hit : BOOLEAN]) /\ DOMAIN groups = {} BY <2>1
  <2> QED BY <2>2, <2>3 DEF GroupsCounted
<1>3. \A s \in Checks : results[s] = <<>> BY DEF PolicyInit
<1>4. ResultsEarned BY <1>3 DEF ResultsEarned
<1>5. Evaluation BY <1>1, <1>2, <1>4 DEF Evaluation, PolicyInit
<1>6. \A s : QueriesOf(s) = {} /\ ~HasTurn(s) BY DEF PolicyInit, QueriesOf, HasTurn
<1>7. Single BY <1>3, <1>6 DEF Single, AtOnePlace, OnePlace, Busy
<1> QED BY <1>5, <1>7 DEF PolicyInv

(* Whatever records the domains publish and in whatever order the DNS answers:  *)
(* calls, queries and groups are linked to their check, and every result under  *)
(* way is accounted for.                                                        *)
THEOREM PolicyInvariant == PolicySpec => []PolicyInv
<1>1. PolicyInv /\ [PolicyNext]_policy_vars => PolicyInv' BY PolicyKept
<1> QED BY <1>1, PolicyBegins, PTL DEF PolicySpec

(* Counts, groups and results stay in their types; a group never waits for more *)
(* names than were asked, and pending never falls below zero.                   *)
THEOREM PolicyIsTyped == PolicySpec => []PolicyTypeOK
<1>1. PolicyInv => PolicyTypeOK
  <2> SUFFICES ASSUME PolicyInv PROVE PolicyTypeOK
    OBVIOUS
  <2>1. PolicyTyped /\ GroupsCounted /\ \A q \in queries : Asking(q) BY DEF PolicyInv, Evaluation
  <2>2. Len(frames) >= Len(counts) BY <2>1 DEF PolicyTyped
  <2>3. \A q \in queries : q.frame \in DOMAIN frames BY <2>1 DEF Asking
  <2>4. ASSUME NEW g \in DOMAIN groups PROVE groups[g].pending \in 0..MaxNames
    <3>1. groups[g] \in [pending : 0..MaxNames, hit : BOOLEAN]
      BY <2>1, SeqAt DEF GroupsCounted
    <3> QED BY <3>1
  <2> QED BY <2>1, <2>2, <2>3, <2>4 DEF PolicyTypeOK, PolicyTyped
<1> QED BY <1>1, PolicyInvariant, PTL

(* A check of spf.js says Fail only by a "-" mechanism of the sender's own      *)
(* record or of one it redirects to, and Pass only by a "+" that matched.       *)
THEOREM VerdictsEarned == PolicySpec => []VerdictEarned
<1>1. PolicyInv => VerdictEarned
  BY DEF PolicyInv, Evaluation, ResultsEarned, Earned, VerdictEarned
<1> QED BY <1>1, PolicyInvariant, PTL

(* check_host calls back once, unless an exchange of an MX could not be looked  *)
(* up while others were still asked (mech_mx goes on after its error).          *)
THEOREM ChecksHeardOnce == PolicySpec => []HeardOnce
<1>1. PolicyInv => HeardOnce
  BY DEF PolicyInv, Single, AtOnePlace, HeardOnce
<1> QED BY <1>1, PolicyInvariant, PTL
=============================================================================
