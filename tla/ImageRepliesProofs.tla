-------------------------- MODULE ImageRepliesProofs --------------------------
(***************************************************************************)
(* For any number of panes and decodes, any deadline and any bounds: the   *)
(* scheduler's entry of a pane is the one of its pending decode, the three *)
(* readers of the deadline agree on every decode, and a verdict is final.  *)
(*                                                                         *)
(* DeadlineAgreed is not inductive: the expiry writes "timeout" from an    *)
(* old clock reading and from a finish time looked up by pane, while the   *)
(* worker may finish afterwards.  IInv adds what ties the scheduler's      *)
(* entry, the worker's stamp and the token together (Entries), that a      *)
(* timeout is only given when the deadline has passed (Verdicted), and     *)
(* that the expiry's list holds pending decodes (Listed).                  *)
(*                                                                         *)
(* On top of it stands QInv, of the reply queues: it adds to RepliesKept   *)
(* that a waiting slot holds its whole reservation, that what was written  *)
(* was given its number before, and which pane may hold replies that are   *)
(* ready.  That a pane has one decode pending at most (KeyOfPending) is    *)
(* what makes a slot that is taken away the one its decode owned.          *)
(***************************************************************************)
EXTENDS ImageReplies, SumLemmas, TLAPS

(* The types of the variables the argument is about. *)
Typed == /\ clock \in Nat /\ clock <= MaxTime
         /\ now \in Nat /\ now <= clock
         /\ nextToken \in Nat /\ nextToken <= MaxToken
         /\ owner = [t \in 1..nextToken |-> owner[t]]
         /\ \A t \in 1..nextToken : owner[t].pane \in Panes /\ owner[t].acceptUntil \in Nat
         /\ pending \subseteq 1..nextToken
         /\ job \in [Panes -> [token : Nat, finishedAt : 0..Never]]
         /\ turn = "feed" => turnPane \in Panes
         /\ stamp \in [Tokens -> 0..Never]
         /\ verdict \in [Tokens -> Verdicts]

(* An entry of the scheduler belongs to a decode of its pane, carries its   *)
(* worker's stamp, and outlives at most a timeout or a close.               *)
Entries == \A p \in Panes : job[p] # NoJob =>
    /\ job[p].token \in 1..nextToken
    /\ owner[job[p].token].pane = p
    /\ stamp[job[p].token] = job[p].finishedAt
    /\ verdict[job[p].token] \in {None, "timeout"}

Listed == turn = "expire" => todo \subseteq pending

Verdicted == /\ \A t \in pending : verdict[t] = None
             /\ \A t \in Tokens : t > nextToken => verdict[t] = None /\ stamp[t] = Never
             /\ \A t \in 1..nextToken :
                   verdict[t] = "timeout" => owner[t].acceptUntil <= clock

IInv == Typed /\ Entries /\ Listed /\ Verdicted /\ KeyOfPending /\ DeadlineAgreed

(* What the argument is about, and what it is not. *)
core == <<clock, nextToken, owner, pending, job, verdict, stamp>>

-----------------------------------------------------------------------------
LEMMA Bounded == /\ Deadline \in Nat /\ MaxTime \in Nat /\ MaxToken \in Nat
                 /\ Never \in Nat /\ Never > MaxTime /\ Tokens = 1..MaxToken
  BY ReplyBounds DEF Never, Tokens

(* Appending to a sequence that is given by its elements. *)
LEMMA Appended ==
  ASSUME NEW n \in Nat, NEW s, s = [i \in 1..n |-> s[i]], NEW e
  PROVE  /\ Append(s, e) = [i \in 1..(n + 1) |-> Append(s, e)[i]]
         /\ Append(s, e)[n + 1] = e
         /\ \A i \in 1..n : Append(s, e)[i] = s[i]
<1> DEFINE S == {s[i] : i \in 1..n} \cup {e}
<1>1. s \in [1..n -> S]
  OBVIOUS
<1>2. s \in Seq(S) /\ e \in S /\ Len(s) = n
  BY <1>1
<1> QED BY <1>2

LEMMA InitInv == Init => IInv
  BY Bounded
  DEF Init, IInv, Typed, Entries, Listed, Verdicted, KeyOfPending, DeadlineAgreed,
      NoJob, Verdicts, None

(* Steps of the panes alone, and those that only move the owner's turn. *)
LEMMA OtherStep ==
  ASSUME IInv, UNCHANGED core, now' \in {now, 0, clock},
         \/ UNCHANGED <<turn, turnPane, todo>>
         \/ turn' = "feed" /\ turnPane' \in Panes
         \/ turn' \in {"idle", "transfers"}
         \/ turn' = "expire" /\ todo' = pending
  PROVE  IInv'
<1> USE DEF IInv, core
<1>1. Typed'
  BY DEF Typed, Never, Tokens
<1>2. Entries' /\ Verdicted' /\ KeyOfPending' /\ DeadlineAgreed'
  BY DEF Entries, Verdicted, KeyOfPending, DeadlineAgreed, Never, Tokens
<1>3. Listed'
  BY DEF Listed
<1> QED BY <1>1, <1>2, <1>3

LEMMA TickStep == IInv /\ Tick => IInv'
<1> SUFFICES ASSUME IInv, Tick PROVE IInv'
  OBVIOUS
<1> USE Bounded DEF IInv, Tick, turnVars, history
<1>1. Typed'
  BY DEF Typed
<1>2. Entries' /\ Listed' /\ KeyOfPending' /\ DeadlineAgreed'
  BY DEF Entries, Listed, KeyOfPending, DeadlineAgreed, InTime
<1>3. Verdicted'
  BY DEF Typed, Verdicted
<1> QED BY <1>1, <1>2, <1>3

LEMMA SubmitStep ==
  ASSUME NEW protocol, NEW reply, NEW outcome
  PROVE  IInv /\ SubmitDecode(protocol, reply, outcome) => IInv'
<1> SUFFICES ASSUME IInv, SubmitDecode(protocol, reply, outcome) PROVE IInv'
  OBVIOUS
<1>1. UNCHANGED <<clock, turn, turnPane, now, todo, verdict, stamp>> /\ turn = "feed"
  BY DEF SubmitDecode, turnVars, history
<1>2. CASE UNCHANGED <<nextToken, owner, pending, job>>
  BY <1>1, <1>2, OtherStep DEF core
<1>3. ASSUME NEW rec, rec.pane = turnPane, rec.acceptUntil = clock + Deadline,
             outcome = "accepted", nextToken < MaxToken,
             nextToken' = nextToken + 1, owner' = Append(owner, rec),
             pending' = pending \cup {nextToken + 1},
             job' = [job EXCEPT ![turnPane] = [token |-> nextToken + 1, finishedAt |-> Never]],
             PaneKeyFree(turnPane)
      PROVE  IInv'
  <2> DEFINE new == nextToken + 1
  <2> USE <1>1, <1>3, Bounded DEF IInv
  <2>1. /\ owner' = [t \in 1..new |-> owner'[t]] /\ owner'[new] = rec
        /\ \A t \in 1..nextToken : owner'[t] = owner[t]
        /\ turnPane \in Panes /\ nextToken \in Nat /\ new \in Tokens
    BY Appended DEF Typed
  <2>2. Typed'
    BY SMTT(30), <2>1 DEF Typed
  <2>3. verdict[new] = None /\ stamp[new] = Never
    BY <2>1 DEF Verdicted, Typed
  <2>4. Entries'
    BY <2>1, <2>3 DEF Entries, Typed
  <2>5. Listed'
    BY DEF Listed
  <2>6. Verdicted'
    BY SMTT(30), <2>1, <2>3 DEF Verdicted, Typed, None
  <2>7. KeyOfPending'
    <3>1. job[turnPane].token = 0
      BY DEF PaneKeyFree, NoJob
    <3>2. \A t \in pending : owner'[t] = owner[t] /\ owner[t].pane # turnPane
      <4> SUFFICES ASSUME NEW t \in pending
                   PROVE  owner'[t] = owner[t] /\ owner[t].pane # turnPane
        OBVIOUS
      <4>1. t \in 1..nextToken /\ t # 0
        BY <2>1 DEF Typed
      <4>2. job[owner[t].pane].token = t
        BY DEF KeyOfPending
      <4> QED BY <2>1, <3>1, <4>1, <4>2
    <3>3. \A t \in pending : job'[owner'[t].pane] = job[owner[t].pane]
      BY <2>1, <3>2 DEF Typed
    <3>4. job'[owner'[new].pane].token = new
      BY <2>1 DEF Typed
    <3> QED BY <3>3, <3>4 DEF KeyOfPending
  <2>8. DeadlineAgreed'
    BY <2>1, <2>3 DEF DeadlineAgreed, Typed, None
  <2> QED BY <2>2, <2>4, <2>5, <2>6, <2>7, <2>8
<1> QED BY <1>2, <1>3 DEF SubmitDecode

LEMMA FinishStep ==
  ASSUME NEW p \in Panes
  PROVE  IInv /\ FinishJob(p) => IInv'
<1> SUFFICES ASSUME IInv, FinishJob(p) PROVE IInv'
  OBVIOUS
<1> DEFINE t == job[p].token
<1> USE Bounded DEF IInv
<1>1. /\ job[p] # NoJob /\ job[p].finishedAt = Never
      /\ stamp' = [stamp EXCEPT ![t] = clock]
      /\ UNCHANGED <<clock, nextToken, owner, pending, turn, turnPane, now, todo, verdict>>
  BY DEF FinishJob, turnVars
<1>2. /\ t \in 1..nextToken /\ t \in Tokens /\ owner[t].pane = p
      /\ verdict[t] \in {None, "timeout"} /\ stamp[t] = Never
  BY <1>1 DEF Entries, Typed
<1>3. /\ job' \in [Panes -> [token : Nat, finishedAt : 0..Never]]
      /\ job'[p].token = t /\ job'[p].finishedAt = clock
      /\ \A q \in Panes : q # p => job'[q] = job[q]
  <2>1. job \in [Panes -> [token : Nat, finishedAt : 0..Never]] /\ clock \in 0..Never
    BY DEF Typed
  <2>2. job' = [job EXCEPT ![p].finishedAt = clock]
    BY DEF FinishJob
  <2> QED BY <2>1, <2>2
<1>4. Typed'
  BY <1>1, <1>2, <1>3 DEF Typed
<1>5. Entries'
  <2> SUFFICES ASSUME NEW q \in Panes, job'[q] # NoJob
               PROVE  /\ job'[q].token \in 1..nextToken'
                      /\ owner'[job'[q].token].pane = q
                      /\ stamp'[job'[q].token] = job'[q].finishedAt
                      /\ verdict'[job'[q].token] \in {None, "timeout"}
    BY DEF Entries
  <2>1. CASE q = p
    BY <1>1, <1>2, <1>3, <2>1 DEF Typed
  <2>2. CASE q # p
    <3>1. job'[q] = job[q] /\ job[q] # NoJob
      BY <1>3, <2>2
    <3>2. job[q].token # t /\ job[q].token \in Tokens
      BY <1>2, <2>2, <3>1 DEF Entries, Typed
    <3>3. stamp'[job[q].token] = stamp[job[q].token]
      BY <1>1, <3>2 DEF Typed
    <3> QED BY <1>1, <3>1, <3>3 DEF Entries
  <2> QED BY <2>1, <2>2
<1>6. Listed'
  BY <1>1 DEF Listed
<1>7. KeyOfPending'
  <2>1. \A q \in Panes : job'[q].token = job[q].token
    BY <1>3
  <2> QED BY <1>1, <2>1 DEF KeyOfPending, Typed
<1>8. Verdicted'
  BY <1>1, <1>2 DEF Verdicted, Typed
<1>9. DeadlineAgreed'
  BY <1>1, <1>2 DEF DeadlineAgreed, Verdicted, Typed, None
<1> QED BY <1>4, <1>5, <1>6, <1>7, <1>8, <1>9

LEMMA ApplyStep ==
  ASSUME NEW p \in Panes, NEW result
  PROVE  IInv /\ ApplyCompletion(p, result) => IInv'
<1> SUFFICES ASSUME IInv, ApplyCompletion(p, result) PROVE IInv'
  OBVIOUS
<1> DEFINE t == job[p].token
           code == Disposition(t, p, job[p].finishedAt, result)
<1> USE Bounded DEF IInv
<1>1. /\ job[p] # NoJob /\ job' = [job EXCEPT ![p] = NoJob]
      /\ pending' = pending \ {t}
      /\ verdict' = [verdict EXCEPT ![t] = IF t \in pending THEN code ELSE @]
      /\ turn = "idle"
      /\ UNCHANGED <<clock, nextToken, owner, now, stamp, turn, turnPane, todo>>
  BY DEF ApplyCompletion, turnVars
<1>2. /\ t \in 1..nextToken /\ t \in Tokens /\ owner[t].pane = p
      /\ stamp[t] = job[p].finishedAt
  BY <1>1 DEF Entries, Typed
<1>3. code \in {"dropped", "failed", "cancelled", "ok"}
  BY DEF Disposition
<1>4. code = "ok" => stamp[t] < owner[t].acceptUntil
  BY <1>2 DEF Disposition, InTime
<1>5. Typed'
  BY <1>1, <1>2, <1>3 DEF Typed, NoJob, Verdicts
<1>6. \A q \in Panes : job'[q] # NoJob =>
         q # p /\ job'[q] = job[q] /\ job[q].token # t
  BY <1>1, <1>2 DEF Entries, Typed
<1>7. Entries'
  <2> SUFFICES ASSUME NEW q \in Panes, job'[q] # NoJob
               PROVE  /\ job'[q].token \in 1..nextToken'
                      /\ owner'[job'[q].token].pane = q
                      /\ stamp'[job'[q].token] = job'[q].finishedAt
                      /\ verdict'[job'[q].token] \in {None, "timeout"}
    BY DEF Entries
  <2>1. job'[q] = job[q] /\ job[q].token # t /\ job[q] # NoJob
    BY <1>6
  <2>2. verdict'[job[q].token] = verdict[job[q].token]
    BY <1>1, <2>1 DEF Entries, Typed
  <2> QED BY <1>1, <2>1, <2>2 DEF Entries
<1>8. Listed'
  BY <1>1 DEF Listed
<1>9. Verdicted'
  BY <1>1, <1>2, <1>3 DEF Verdicted, Typed, None
<1>10. KeyOfPending'
  BY <1>1, <1>2 DEF KeyOfPending, Typed
<1>11. DeadlineAgreed'
  BY <1>1, <1>2, <1>3, <1>4 DEF DeadlineAgreed, Typed
<1> QED BY <1>5, <1>7, <1>8, <1>9, <1>10, <1>11

LEMMA ExpireStep ==
  ASSUME NEW t \in todo
  PROVE  IInv /\ ExpireOne(t) => IInv'
<1> SUFFICES ASSUME IInv, ExpireOne(t) PROVE IInv'
  OBVIOUS
<1> USE Bounded DEF IInv
<1>1. /\ turn = "expire" /\ todo' = todo \ {t} /\ t \in pending
      /\ t \in 1..nextToken /\ t \in Tokens
      /\ UNCHANGED <<clock, nextToken, owner, now, stamp, turn, turnPane, job>>
  BY DEF ExpireOne, Listed, Typed
<1>2. CASE ~Expires(t)
  <2>1. UNCHANGED <<pending, verdict>>
    BY <1>2 DEF ExpireOne
  <2> QED BY <1>1, <2>1
          DEF Typed, Entries, Listed, Verdicted, KeyOfPending, DeadlineAgreed
<1>3. CASE Expires(t)
  <2>1. pending' = pending \ {t} /\ verdict' = [verdict EXCEPT ![t] = "timeout"]
    BY <1>3 DEF ExpireOne, Settle
  <2> DEFINE p == owner[t].pane
  <2>2. p \in Panes /\ job[p].token = t /\ job[p] # NoJob
    <3>1. p \in Panes /\ t # 0
      BY <1>1 DEF Typed
    <3>2. job[p].token = t
      BY <1>1 DEF KeyOfPending
    <3> QED BY <3>1, <3>2 DEF NoJob
  <2>3. owner[t].acceptUntil <= clock
    BY <1>1, <1>3 DEF Expires, Typed
  <2>4. stamp[t] >= owner[t].acceptUntil
    BY <1>1, <1>3, <2>2 DEF Expires, CompletionBefore, Entries, Typed
  <2>5. Typed'
    BY <1>1, <2>1 DEF Typed, Verdicts
  <2>6. Entries'
    BY <1>1, <2>1 DEF Entries, Typed
  <2>7. Listed' /\ KeyOfPending'
    BY <1>1, <2>1 DEF Listed, KeyOfPending
  <2>8. Verdicted'
    BY <1>1, <2>1, <2>3 DEF Verdicted, Typed
  <2>9. DeadlineAgreed'
    BY <1>1, <2>1, <2>4 DEF DeadlineAgreed, Typed
  <2> QED BY <2>5, <2>6, <2>7, <2>8, <2>9
<1> QED BY <1>2, <1>3

LEMMA ShutdownStep == IInv /\ Shutdown => IInv'
  BY Bounded
  DEF IInv, Shutdown, turnVars, history, Typed, Entries, Listed, Verdicted, KeyOfPending,
      DeadlineAgreed, NoJob

LEMMA NextStep == IInv /\ [Next]_vars => IInv'
<1> SUFFICES ASSUME IInv, [Next]_vars PROVE IInv'
  OBVIOUS
<1>1. CASE UNCHANGED vars
  BY <1>1, OtherStep DEF vars, core, turnVars, history
<1>2. CASE Tick
  BY <1>2, TickStep
<1>3. ASSUME NEW p \in Panes, BeginFeed(p) PROVE IInv'
  BY <1>3, OtherStep DEF BeginFeed, core, history
<1>4. ASSUME NEW p \in Panes, FinishJob(p) PROVE IInv'
  BY <1>4, FinishStep
<1>5. ASSUME NEW p \in Panes, Resize(p) PROVE IInv'
  BY <1>5, OtherStep DEF Resize, core, turnVars, history
<1>6. ASSUME NEW p \in Panes, ClosePane(p) PROVE IInv'
  BY <1>6, OtherStep DEF ClosePane, core, turnVars, history
<1>7. CASE Feed
  <2>1. ASSUME NEW touches, EraseCells(touches) PROVE IInv'
    BY <2>1, OtherStep DEF EraseCells, core, turnVars, history
  <2>2. ASSUME NEW n, ParserReply(n) PROVE IInv'
    BY <2>2, OtherStep DEF ParserReply, core, turnVars, history
  <2>3. ASSUME NEW n, NEW command, NEW c, KittyAnswer(n, command, c) PROVE IInv'
    BY <2>3, OtherStep DEF KittyAnswer, core, turnVars, history
  <2>4. ASSUME NEW protocol, NEW reply, NEW outcome, SubmitDecode(protocol, reply, outcome)
        PROVE  IInv'
    BY <2>4, SubmitStep
  <2> QED BY <1>7, <2>1, <2>2, <2>3, <2>4 DEF Feed
<1>8. CASE EndFeed
  BY <1>8, OtherStep DEF EndFeed, core, history
<1>9. CASE Deliver
  BY <1>9, ApplyStep DEF Deliver
<1>10. CASE Expire
  <2>1. CASE BeginExpiry
    BY <2>1, OtherStep DEF BeginExpiry, core, history
  <2>2. ASSUME NEW p \in Panes, ExpireTransfer(p) PROVE IInv'
    BY <2>2, OtherStep DEF ExpireTransfer, core, turnVars, history
  <2>3. CASE BeginTokens
    BY <2>3, OtherStep DEF BeginTokens, core, history
  <2>4. ASSUME NEW t \in todo, ExpireOne(t) PROVE IInv'
    BY <2>4, ExpireStep
  <2>5. CASE EndExpiry
    BY <2>5, OtherStep DEF EndExpiry, core, history
  <2> QED BY <1>10, <2>1, <2>2, <2>3, <2>4, <2>5 DEF Expire
<1>11. CASE Shutdown
  BY <1>11, ShutdownStep
<1> QED
  BY <1>1, <1>2, <1>3, <1>4, <1>5, <1>6, <1>7, <1>8, <1>9, <1>10, <1>11 DEF Next

(* The strengthened invariant holds of every state of the specification. *)
THEOREM ImageInvariance == Spec => []IInv
  BY InitInv, NextStep, PTL DEF Spec

(* The completion time that the expiry looks up by pane is that of the decode *)
(* it is about to expire, although a pane submits decodes again and again.    *)
THEOREM PaneKeyNamesDecode == Spec => []KeyOfPending
<1>1. IInv => KeyOfPending
  BY DEF IInv
<1> QED BY <1>1, ImageInvariance, PTL

(* No decode succeeds that ended after its deadline, and none is given ETIME *)
(* that ended before it: the three threads' readings of the time agree.       *)
THEOREM DeadlineRespected == Spec => []DeadlineAgreed
<1>1. IInv => DeadlineAgreed
  BY DEF IInv
<1> QED BY <1>1, ImageInvariance, PTL

(* What was decided of a decode is never revised: not by a completion that *)
(* comes after the timeout, nor by a timeout after the completion.          *)
THEOREM VerdictsFinal == Spec => VerdictFinal
<1> DEFINE Step == \A t \in Tokens : verdict[t] # None => verdict'[t] = verdict[t]
<1>1. IInv /\ [Next]_vars => [Step]_vars
  <2> SUFFICES ASSUME IInv, Next PROVE Step
    OBVIOUS
  <2>1. CASE UNCHANGED verdict
    BY <2>1
  <2>2. ASSUME NEW p \in Panes, NEW r, ApplyCompletion(p, r) PROVE Step
    BY <2>2 DEF ApplyCompletion, IInv, Typed, Verdicted
  <2>3. ASSUME NEW t \in todo, ExpireOne(t) PROVE Step
    <3>1. t \in pending /\ verdict[t] = None
      BY <2>3 DEF ExpireOne, IInv, Listed, Verdicted
    <3> QED BY <2>3, <3>1 DEF ExpireOne, IInv, Typed
  <2> QED
    BY ZenonT(30), <2>1, <2>2, <2>3
    DEF Next, Tick, BeginFeed, FinishJob, Resize, ClosePane, Feed, EraseCells, ParserReply,
        KittyAnswer, SubmitDecode, EndFeed, Deliver, Expire, BeginExpiry, ExpireTransfer,
        BeginTokens, EndExpiry, Shutdown, history
<1> QED BY <1>1, ImageInvariance, PTL DEF Spec, VerdictFinal

-----------------------------------------------------------------------------
(* The operations of one reply queue. *)

(* A queue as it always is: the slots that wait still hold their whole *)
(* reservation.                                                         *)
Sound(q) ==
    /\ q \in ReplyQueues /\ Accounted(q) /\ Ordered(q)
    /\ \A i \in DOMAIN q.entries : ~q.entries[i].ready => q.entries[i].reserved = HardReplyBytes

(* Ordered and the bound of a slot, of the entries alone. *)
InOrder(entries, n) == \A i \in DOMAIN entries :
    /\ entries[i].sequence <= n
    /\ \A j \in DOMAIN entries : i < j => entries[i].sequence < entries[j].sequence

FullSlots(entries) ==
    \A i \in DOMAIN entries : ~entries[i].ready => entries[i].reserved = HardReplyBytes

(* The entries that wait, and their slots. *)
Waiting(entries) == {i \in DOMAIN entries : ~entries[i].ready}
Slots(q) == {q.entries[i].sequence : i \in Waiting(q.entries)}

(* Nothing but a slot holds replies back. *)
HeadWaits(q) == q.entries = <<>> \/ ~q.entries[1].ready

(* What was written to a session: in order, and before all that is queued. *)
Written(s, q) ==
    /\ s \in Seq(Nat)
    /\ \A i, j \in DOMAIN s : i < j => s[i] < s[j]
    /\ \A i \in DOMAIN s : s[i] <= q.next
    /\ \A i \in DOMAIN s, j \in DOMAIN q.entries : s[i] < q.entries[j].sequence

(* The bytes of each entry, as the function that Bytes sums. *)
Amounts(s) == [i \in DOMAIN s |-> s[i].reserved]

(* Each entry of a queue is one, and its bytes are a natural number. *)
LEMMA EntryTyped ==
  ASSUME NEW s \in Seq(ReplyEntry)
  PROVE  /\ DOMAIN s = 1..Len(s) /\ Len(s) \in Nat /\ IsFiniteSet(DOMAIN s)
         /\ \A i \in DOMAIN s : /\ s[i].sequence \in Nat \ {0} /\ s[i].reserved \in Nat
                               /\ Amounts(s)[i] = s[i].reserved /\ Amounts(s)[i] \in Nat
<1>1. DOMAIN s = 1..Len(s) /\ Len(s) \in Nat
  OBVIOUS
<1>2. ASSUME NEW i \in DOMAIN s
      PROVE  /\ s[i].sequence \in Nat \ {0} /\ s[i].reserved \in Nat
             /\ Amounts(s)[i] = s[i].reserved
  <2>1. s[i] \in ReplyEntry
    OBVIOUS
  <2>2. s[i].sequence \in Nat \ {0} /\ s[i].reserved \in Nat
    BY <2>1 DEF ReplyEntry
  <2> QED BY <2>2 DEF Amounts
<1>3. IsFiniteSet(1..Len(s))
  BY <1>1, FS_Interval
<1> QED BY <1>1, <1>2, <1>3

(* The bytes of the entries are a natural number. *)
LEMMA BytesTyped ==
  ASSUME NEW s \in Seq(ReplyEntry)
  PROVE  /\ Bytes(s) \in Nat /\ IsFiniteSet(DOMAIN s)
         /\ Bytes(s) = SumFunctionOnSet(Amounts(s), DOMAIN s)
<1>2. IsFiniteSet(DOMAIN s)
  BY EntryTyped
<1>3. \A i \in DOMAIN s : Amounts(s)[i] \in Nat
  BY EntryTyped
<1>4. Bytes(s) = SumFunctionOnSet(Amounts(s), DOMAIN s)
  BY DEF Bytes, Amounts
<1>5. SumFunctionOnSet(Amounts(s), DOMAIN s) \in Nat
  BY <1>2, <1>3, SumElement
<1> QED BY <1>2, <1>4, <1>5

(* An empty queue holds no bytes. *)
LEMMA BytesEmpty == Bytes(<<>>) = 0
<1>1. DOMAIN <<>> = {}
  OBVIOUS
<1> QED BY Zenon, <1>1, SumEmpty DEF Bytes

(* The bytes with one more entry. *)
LEMMA BytesAppend ==
  ASSUME NEW s \in Seq(ReplyEntry), NEW e \in ReplyEntry
  PROVE  Bytes(Append(s, e)) = Bytes(s) + e.reserved
<1> DEFINE t == Append(s, e)
           n == Len(s)
<1>1. t \in Seq(ReplyEntry) /\ n \in Nat /\ DOMAIN s = 1..n /\ DOMAIN t = 1..(n + 1)
  OBVIOUS
<1>2. t[n + 1] = e /\ \A i \in 1..n : t[i] = s[i]
  OBVIOUS
<1> HIDE DEF t, n
<1>a. \A i \in 1..n : Amounts(s)[i] = s[i].reserved /\ s[i].reserved \in Nat
  BY <1>1, EntryTyped
<1>b. \A i \in 1..(n + 1) : Amounts(t)[i] = t[i].reserved /\ t[i].reserved \in Nat
  BY <1>1, EntryTyped
<1>c. n + 1 \in 1..(n + 1) /\ \A i \in 1..n : i \in 1..(n + 1)
  BY <1>1
<1>3. \A i \in 1..n : Amounts(s)[i] \in Nat /\ Amounts(t)[i] = Amounts(s)[i]
  BY <1>a, <1>b, <1>c, <1>2
<1>4. Amounts(t)[n + 1] = e.reserved /\ e.reserved \in Nat
  BY <1>b, <1>c, <1>2
<1>5. IsFiniteSet(1..n) /\ n + 1 \notin 1..n /\ 1..(n + 1) = (1..n) \cup {n + 1}
  <2>1. IsFiniteSet(1..n)
    BY <1>1, FS_Interval
  <2> QED BY <2>1, <1>1
<1>6. SumFunctionOnSet(Amounts(t), 1..n) = SumFunctionOnSet(Amounts(s), 1..n)
  BY <1>3, <1>5, SumSame
<1>7. SumFunctionOnSet(Amounts(t), (1..n) \cup {n + 1})
        = SumFunctionOnSet(Amounts(t), 1..n) + Amounts(t)[n + 1]
  <2>1. \A i \in 1..n : Amounts(t)[i] \in Nat
    BY <1>3
  <2> DEFINE A == 1..n
  <2>2. IsFiniteSet(A) /\ n + 1 \notin A /\ \A i \in A : Amounts(t)[i] \in Nat
    BY <1>5, <2>1
  <2>3. Amounts(t)[n + 1] \in Nat
    BY <1>4
  <2> DEFINE f == Amounts(t)
             x == n + 1
  <2>4. IsFiniteSet(A) /\ x \notin A /\ f[x] \in Nat
    BY <2>2, <2>3
  <2>5. \A y \in A : f[y] \in Nat
    BY <2>2
  <2> HIDE DEF A, f, x
  <2>6. SumFunctionOnSet(f, A \cup {x}) = SumFunctionOnSet(f, A) + f[x]
    BY <2>4, <2>5, SumAdd
  <2> QED BY Zenon, <2>6 DEF A, f, x
<1>8. Bytes(t) = SumFunctionOnSet(Amounts(t), (1..n) \cup {n + 1})
  BY Zenon, <1>1, <1>5, BytesTyped
<1>9. Bytes(s) = SumFunctionOnSet(Amounts(s), 1..n)
  BY Zenon, <1>1, BytesTyped
<1> QED BY <1>4, <1>6, <1>7, <1>8, <1>9 DEF t

(* The bytes with another entry in the place of one. *)
LEMMA BytesReplace ==
  ASSUME NEW s \in Seq(ReplyEntry), NEW i \in DOMAIN s, NEW e \in ReplyEntry
  PROVE  Bytes([s EXCEPT ![i] = e]) + s[i].reserved = Bytes(s) + e.reserved
<1> DEFINE t == [s EXCEPT ![i] = e]
<1>1. t \in Seq(ReplyEntry) /\ DOMAIN t = DOMAIN s
  OBVIOUS
<1>2. t[i] = e /\ \A j \in DOMAIN s \ {i} : t[j] = s[j]
  OBVIOUS
<1> HIDE DEF t
<1>3. \A j \in DOMAIN s : s[j].reserved \in Nat /\ t[j].reserved \in Nat
  BY <1>1, EntryTyped
<1>4. \A j \in DOMAIN s : Amounts(s)[j] = s[j].reserved /\ Amounts(t)[j] = t[j].reserved
  BY <1>1, EntryTyped
<1>a. \A j \in DOMAIN s \ {i} : Amounts(s)[j] \in Nat /\ Amounts(t)[j] = Amounts(s)[j]
  BY <1>2, <1>3, <1>4
<1>5. IsFiniteSet(DOMAIN s) /\ IsFiniteSet(DOMAIN s \ {i})
  BY BytesTyped, FS_RemoveElement
<1>6. SumFunctionOnSet(Amounts(t), DOMAIN s \ {i}) = SumFunctionOnSet(Amounts(s), DOMAIN s \ {i})
  BY <1>a, <1>5, SumSame
<1>7. SumFunctionOnSet(Amounts(t), DOMAIN s)
        = Amounts(t)[i] + SumFunctionOnSet(Amounts(t), DOMAIN s \ {i})
  BY <1>3, <1>4, <1>5, SumElement
<1>8. SumFunctionOnSet(Amounts(s), DOMAIN s)
        = Amounts(s)[i] + SumFunctionOnSet(Amounts(s), DOMAIN s \ {i})
  BY <1>3, <1>4, <1>5, SumElement
<1>9. SumFunctionOnSet(Amounts(s), DOMAIN s \ {i}) \in Nat
  BY <1>3, <1>4, <1>5, SumElement
<1>10. /\ Bytes(t) = SumFunctionOnSet(Amounts(t), DOMAIN s)
       /\ Bytes(s) = SumFunctionOnSet(Amounts(s), DOMAIN s)
  BY Zenon, <1>1, BytesTyped
<1>11. Amounts(t)[i] = e.reserved /\ Amounts(s)[i] = s[i].reserved /\ e.reserved \in Nat
       /\ s[i].reserved \in Nat
  BY <1>2, <1>3, <1>4
<1> QED BY <1>6, <1>7, <1>8, <1>9, <1>10, <1>11 DEF t

(* The bytes of a queue are those of a prefix and of the rest. *)
LEMMA BytesCut ==
  ASSUME NEW s \in Seq(ReplyEntry), NEW n \in 0..Len(s)
  PROVE  Bytes(s) = Bytes(SubSeq(s, 1, n)) + Bytes(SubSeq(s, n + 1, Len(s)))
<1> DEFINE a == SubSeq(s, 1, n)
           b == SubSeq(s, n + 1, Len(s))
           A == 1..n
           B == (n + 1)..Len(s)
           C == 1..(Len(s) - n)
<1>1. /\ a \in Seq(ReplyEntry) /\ DOMAIN a = A
      /\ b \in Seq(ReplyEntry) /\ DOMAIN b = C
      /\ \A i \in A : a[i] = s[i]
      /\ \A i \in C : b[i] = s[n + i]
  OBVIOUS
<1>2. A \cup B = DOMAIN s /\ A \cap B = {}
  <2>1. DOMAIN s = 1..Len(s) /\ Len(s) \in Nat
    OBVIOUS
  <2> QED BY <2>1
<1>3. IsFiniteSet(A) /\ IsFiniteSet(B) /\ IsFiniteSet(C)
  BY FS_Interval
<1>4. \A i \in DOMAIN s : Amounts(s)[i] = s[i].reserved /\ s[i].reserved \in Nat
  BY EntryTyped
<1>5. \A i \in A : i \in DOMAIN s /\ Amounts(a)[i] = s[i].reserved
  BY <1>1 DEF Amounts
<1>6. \A i \in C : n + i \in B /\ n + i \in DOMAIN s /\ Amounts(b)[i] = s[n + i].reserved
  BY <1>1 DEF Amounts
<1>7. Reindexes([i \in C |-> n + i], C, B, Amounts(b), Amounts(s))
  <2>1. [i \in C |-> n + i] \in [C -> B]
    BY <1>6
  <2>2. \A z \in B : z - n \in C /\ n + (z - n) = z
    OBVIOUS
  <2>3. \A x, y \in C : n + x = n + y => x = y
    OBVIOUS
  <2> HIDE DEF A, B, C, a, b
  <2>4. \A z \in B : \E x \in C : [i \in C |-> n + i][x] = z
    BY <2>2
  <2>5. \A x \in C : Amounts(b)[x] \in Nat /\ Amounts(s)[[i \in C |-> n + i][x]] = Amounts(b)[x]
    BY <1>4, <1>6
  <2> QED BY <2>1, <2>3, <2>4, <2>5 DEF Reindexes
<1> HIDE DEF A, B, C, a, b
<1>8. SumFunctionOnSet(Amounts(s), B) = SumFunctionOnSet(Amounts(b), C)
  BY <1>3, <1>7, SumReindex
<1>9. SumFunctionOnSet(Amounts(a), A) = SumFunctionOnSet(Amounts(s), A)
  BY <1>3, <1>4, <1>5, SumSame
<1>10. \A i \in A \cup B : Amounts(s)[i] \in Nat
  BY <1>2, <1>4
<1>11. SumFunctionOnSet(Amounts(s), A \cup B)
         = SumFunctionOnSet(Amounts(s), A) + SumFunctionOnSet(Amounts(s), B)
  BY <1>2, <1>3, <1>10, SumUnion
<1>12. /\ Bytes(a) = SumFunctionOnSet(Amounts(a), A)
       /\ Bytes(b) = SumFunctionOnSet(Amounts(b), C)
       /\ Bytes(s) = SumFunctionOnSet(Amounts(s), A \cup B)
  BY Zenon, <1>1, <1>2, BytesTyped
<1>13. Bytes(s) = Bytes(a) + Bytes(b)
  BY <1>8, <1>9, <1>11, <1>12
<1> QED BY <1>13 DEF a, b

-----------------------------------------------------------------------------
(* What a sound queue is, field by field. *)
LEMMA SoundTyped ==
  ASSUME NEW q, Sound(q)
  PROVE  /\ q.entries \in Seq(ReplyEntry) /\ q.next \in Nat /\ q.pendingBytes \in Nat
         /\ q.reservedSlots \in Nat
         /\ q.pendingBytes = Bytes(q.entries)
         /\ q.reservedSlots = Cardinality(Waiting(q.entries))
         /\ q.pendingBytes <= HardPendingReplyBytesPane
         /\ IsFiniteSet(Waiting(q.entries))
         /\ InOrder(q.entries, q.next) /\ FullSlots(q.entries)
<1>1. /\ q.entries \in Seq(ReplyEntry) /\ q.next \in Nat /\ q.pendingBytes \in Nat
      /\ q.reservedSlots \in Nat
  BY DEF Sound, ReplyQueues
<1>2. Waiting(q.entries) \in SUBSET DOMAIN q.entries
  BY DEF Waiting
<1>3. IsFiniteSet(Waiting(q.entries))
  BY <1>1, <1>2, BytesTyped, FS_Subset
<1>4. InOrder(q.entries, q.next) /\ FullSlots(q.entries)
  BY DEF InOrder, FullSlots, Sound, Ordered
<1> QED BY <1>1, <1>3, <1>4 DEF Sound, Accounted, Waiting

(* What makes a queue sound, field by field. *)
MadeOf(r, s, n, b, w) ==
    /\ r = [entries |-> s, next |-> n, pendingBytes |-> b, reservedSlots |-> w]
    /\ s \in Seq(ReplyEntry) /\ n \in Nat /\ b \in Nat /\ w \in Nat
    /\ b = Bytes(s) /\ w = Cardinality(Waiting(s)) /\ b <= HardPendingReplyBytesPane
    /\ InOrder(s, n) /\ FullSlots(s)

(* Such a queue is sound. *)
LEMMA SoundIf ==
  ASSUME NEW r, NEW s, NEW n, NEW b, NEW w, MadeOf(r, s, n, b, w)
  PROVE  Sound(r) /\ r.entries = s /\ r.next = n
<1>1. r \in ReplyQueues
  BY DEF MadeOf, ReplyQueues
<1>2. r.entries = s /\ r.next = n /\ r.pendingBytes = b /\ r.reservedSlots = w
  BY DEF MadeOf
<1>3. Accounted(r)
  BY Zenon, <1>2 DEF MadeOf, Accounted, Waiting
<1>4. InOrder(s, n) /\ FullSlots(s)
  BY DEF MadeOf
<1>5. Ordered(r)
  BY <1>2, <1>4 DEF Ordered, InOrder
<1>6. \A i \in DOMAIN r.entries : ~r.entries[i].ready => r.entries[i].reserved = HardReplyBytes
  BY <1>2, <1>4 DEF FullSlots
<1> QED BY <1>1, <1>2, <1>3, <1>5, <1>6 DEF Sound

(* A slot is a sequence number that was given, and never 0. *)
LEMMA SlotsTyped ==
  ASSUME NEW q, Sound(q)
  PROVE  \A k \in Slots(q) : k \in Nat \ {0} /\ k <= q.next
<1> SUFFICES ASSUME NEW i \in Waiting(q.entries)
             PROVE  q.entries[i].sequence \in Nat \ {0} /\ q.entries[i].sequence <= q.next
  BY DEF Slots
<1> QED BY SoundTyped, EntryTyped DEF Sound, Ordered, Waiting

(* A new entry at the end, with the next sequence number. *)
Appends(q, e, r) ==
    /\ e \in ReplyEntry
    /\ e.sequence = q.next + 1
    /\ ~e.ready => e.reserved = HardReplyBytes
    /\ q.pendingBytes + e.reserved <= HardPendingReplyBytesPane
    /\ r = [entries |-> Append(q.entries, e), next |-> q.next + 1,
            pendingBytes |-> q.pendingBytes + e.reserved,
            reservedSlots |-> q.reservedSlots + (IF e.ready THEN 0 ELSE 1)]

(* An entry that waits adds its number to the slots; one that is ready does not. *)
LEMMA AppendSound ==
  ASSUME NEW q, Sound(q), NEW e, NEW r, Appends(q, e, r)
  PROVE  /\ Sound(r)
         /\ Slots(r) = Slots(q) \cup (IF e.ready THEN {} ELSE {e.sequence})
         /\ \A s : Written(s, q) => Written(s, r)
<1>a. /\ e \in ReplyEntry
      /\ e.sequence = q.next + 1
      /\ ~e.ready => e.reserved = HardReplyBytes
      /\ q.pendingBytes + e.reserved <= HardPendingReplyBytesPane
  BY DEF Appends
<1> DEFINE s == q.entries
           t == Append(s, e)
           n == Len(s)
<1>1. /\ s \in Seq(ReplyEntry) /\ n \in Nat /\ DOMAIN s = 1..n /\ q.next \in Nat
      /\ q.pendingBytes \in Nat /\ q.reservedSlots \in Nat
      /\ e.reserved \in Nat
  BY <1>a, SoundTyped DEF ReplyEntry
<1>2. /\ t \in Seq(ReplyEntry) /\ DOMAIN t = 1..(n + 1)
      /\ t[n + 1] = e /\ \A i \in 1..n : t[i] = s[i]
  BY <1>1, <1>a
<1>3. Bytes(t) = q.pendingBytes + e.reserved
  BY <1>1, <1>a, BytesAppend, SoundTyped
<1>4. InOrder(s, q.next) /\ FullSlots(s) /\ \A i \in 1..n : s[i].sequence \in Nat
  BY <1>1, SoundTyped, EntryTyped
<1> HIDE DEF s, t, n
<1>5. Waiting(t) = Waiting(s) \cup (IF e.ready THEN {} ELSE {n + 1})
  BY <1>1, <1>2 DEF Waiting
<1>6. n + 1 \notin Waiting(s) /\ IsFiniteSet(Waiting(s)) /\ q.reservedSlots = Cardinality(Waiting(s))
  <2>1. n + 1 \notin Waiting(s)
    BY <1>1 DEF Waiting
  <2> QED BY <2>1, SoundTyped DEF s
<1>7. Cardinality(Waiting(t)) = q.reservedSlots + (IF e.ready THEN 0 ELSE 1)
  <2>1. CASE e.ready
    <3>1. Waiting(t) = Waiting(s)
      BY <1>5, <2>1
    <3> QED BY <1>1, <1>6, <2>1, <3>1
  <2>2. CASE ~e.ready
    <3>1. Waiting(t) = Waiting(s) \cup {n + 1}
      BY <1>5, <2>2
    <3>2. Cardinality(Waiting(s) \cup {n + 1}) = Cardinality(Waiting(s)) + 1
      BY <1>6, FS_AddElement
    <3>3. Cardinality(Waiting(t)) = q.reservedSlots + 1
      BY Zenon, <1>6, <3>1, <3>2
    <3> QED BY <2>2, <3>3
  <2> QED BY <2>1, <2>2
<1>8. InOrder(t, q.next + 1) /\ FullSlots(t)
  <2>1. ASSUME NEW i \in DOMAIN t PROVE t[i].sequence <= q.next + 1
    BY <1>1, <1>2, <1>4, <1>a DEF InOrder
  <2>2. ASSUME NEW i \in DOMAIN t, NEW j \in DOMAIN t, i < j
        PROVE  t[i].sequence < t[j].sequence
    <3>1. i \in 1..n /\ t[i] = s[i] /\ s[i].sequence <= q.next /\ s[i].sequence \in Nat
      BY <1>1, <1>2, <1>4, <2>2 DEF InOrder
    <3>2. CASE j = n + 1
      BY <1>1, <1>2, <1>a, <3>1, <3>2
    <3>3. CASE j \in 1..n
      BY <1>1, <1>2, <1>4, <2>2, <3>1, <3>3 DEF InOrder
    <3> QED BY <1>1, <1>2, <3>2, <3>3
  <2>3. FullSlots(t)
    BY <1>1, <1>2, <1>4, <1>a DEF FullSlots
  <2> QED BY <2>1, <2>2, <2>3 DEF InOrder
<1>9. Sound(r) /\ r.entries = t /\ r.next = q.next + 1
  <2> DEFINE nn == q.next + 1
             b == q.pendingBytes + e.reserved
             w == q.reservedSlots + (IF e.ready THEN 0 ELSE 1)
  <2>1. nn \in Nat /\ b \in Nat /\ w \in Nat
    BY <1>1, <1>a
  <2>2. r = [entries |-> t, next |-> nn, pendingBytes |-> b, reservedSlots |-> w]
    BY DEF t, s, Appends
  <2>3. b <= HardPendingReplyBytesPane
    BY <1>a
  <2> HIDE DEF nn, b, w
  <2>4. InOrder(t, nn)
    BY <1>8 DEF nn
  <2>5. b = Bytes(t) /\ w = Cardinality(Waiting(t))
    BY <1>3, <1>7 DEF b, w
  <2>6. Sound(r) /\ r.entries = t /\ r.next = nn
    <3>1. MadeOf(r, t, nn, b, w)
      BY <1>2, <1>8, <2>1, <2>2, <2>3, <2>4, <2>5 DEF MadeOf
    <3> QED BY <3>1, SoundIf
  <2> QED BY <2>6 DEF nn
<1>10. Slots(r) = Slots(q) \cup (IF e.ready THEN {} ELSE {e.sequence})
  <2>1. Slots(r) = {t[i].sequence : i \in Waiting(t)} /\ Slots(q) = {s[i].sequence : i \in Waiting(s)}
    BY <1>9 DEF Slots, s
  <2>2. \A i \in Waiting(s) : t[i] = s[i]
    BY <1>1, <1>2 DEF Waiting
  <2>3. CASE e.ready
    <3>1. Waiting(t) = Waiting(s)
      BY <1>5, <2>3
    <3> QED BY <2>1, <2>2, <2>3, <3>1
  <2>4. CASE ~e.ready
    <3>1. Waiting(t) = Waiting(s) \cup {n + 1}
      BY <1>5, <2>4
    <3>2. {t[i].sequence : i \in Waiting(s) \cup {n + 1}}
            = {t[i].sequence : i \in Waiting(s)} \cup {t[n + 1].sequence}
      OBVIOUS
    <3>3. {t[i].sequence : i \in Waiting(s)} = {s[i].sequence : i \in Waiting(s)}
      BY <2>2
    <3> QED BY Zenon, <1>2, <2>1, <2>4, <3>1, <3>2, <3>3
  <2> QED BY <2>3, <2>4
<1>11. ASSUME NEW v, Written(v, q) PROVE Written(v, r)
  <2>a. v \in Seq(Nat) /\ \A i \in DOMAIN v : v[i] \in Nat
    <3>1. v \in Seq(Nat)
      BY <1>11 DEF Written
    <3> QED BY <3>1
  <2>1. /\ \A i, j \in DOMAIN v : i < j => v[i] < v[j]
        /\ \A i \in DOMAIN v : v[i] <= q.next /\ v[i] \in Nat
        /\ \A i \in DOMAIN v, j \in 1..n : v[i] < s[j].sequence
    BY <1>1, <1>11, <2>a DEF Written, s
  <2>2. \A i \in DOMAIN v : v[i] <= q.next + 1 /\ v[i] < q.next + 1
    BY <1>1, <2>1
  <2>3. \A i \in DOMAIN v, j \in DOMAIN t : v[i] < t[j].sequence
    BY <1>1, <1>2, <1>a, <2>1, <2>2
  <2> QED BY <1>9, <2>a, <2>1, <2>2, <2>3 DEF Written
<1> QED BY <1>9, <1>10, <1>11

(* A sequence number that is spent without an entry. *)
LEMMA SpendSound ==
  ASSUME NEW q, Sound(q), NEW r, r = [q EXCEPT !.next = @ + 1]
  PROVE  /\ Sound(r) /\ Slots(r) = Slots(q)
         /\ \A s : Written(s, q) => Written(s, r)
<1> DEFINE m == q.next + 1
<1>1. q \in ReplyQueues
  BY DEF Sound
<1>2. r = [entries |-> q.entries, next |-> m, pendingBytes |-> q.pendingBytes,
           reservedSlots |-> q.reservedSlots]
  BY <1>1 DEF ReplyQueues
<1>3. /\ q.entries \in Seq(ReplyEntry) /\ q.next \in Nat /\ q.pendingBytes \in Nat
      /\ q.reservedSlots \in Nat /\ m \in Nat
      /\ q.pendingBytes = Bytes(q.entries)
      /\ q.reservedSlots = Cardinality(Waiting(q.entries))
      /\ q.pendingBytes <= HardPendingReplyBytesPane
      /\ InOrder(q.entries, q.next) /\ FullSlots(q.entries)
  BY SoundTyped
<1>4. InOrder(q.entries, m)
  <2>1. \A i \in DOMAIN q.entries : q.entries[i].sequence \in Nat
    BY <1>3, EntryTyped
  <2> QED BY <1>3, <2>1 DEF InOrder
<1> HIDE DEF m
<1>5. Sound(r) /\ r.entries = q.entries /\ r.next = m
  <2>1. MadeOf(r, q.entries, m, q.pendingBytes, q.reservedSlots)
    BY <1>2, <1>3, <1>4 DEF MadeOf
  <2> QED BY <2>1, SoundIf
<1>6. Slots(r) = Slots(q)
  BY Zenon, <1>5 DEF Slots
<1>7. ASSUME NEW s, Written(s, q) PROVE Written(s, r)
  <2>1. s \in Seq(Nat)
    BY <1>7 DEF Written
  <2>2. \A i \in DOMAIN s : s[i] \in Nat
    BY <2>1
  <2>3. \A i \in DOMAIN s : s[i] <= m
    BY <1>3, <1>7, <2>2 DEF Written, m
  <2> QED BY <1>5, <1>7, <2>3 DEF Written
<1> QED BY <1>5, <1>6, <1>7

(* A reply that is known at once adds no slot. *)
LEMMA QueueReplySound ==
  ASSUME NEW q, Sound(q), NEW n \in Nat
  PROVE  /\ Sound(QueueReply(q, n)) /\ Slots(QueueReply(q, n)) = Slots(q)
         /\ \A s : Written(s, q) => Written(s, QueueReply(q, n))
<1>1. CASE n = 0 \/ n > HardReplyBytes \/ ~Fits(q, n)
  <2>1. QueueReply(q, n) = [q EXCEPT !.next = @ + 1]
    BY <1>1 DEF QueueReply
  <2> QED BY <2>1, SpendSound
<1>2. CASE ~(n = 0 \/ n > HardReplyBytes \/ ~Fits(q, n))
  <2> DEFINE e == [sequence |-> q.next + 1, reserved |-> n, ready |-> TRUE]
             r == QueueReply(q, n)
  <2>1. /\ q.next \in Nat /\ q.pendingBytes \in Nat /\ q.reservedSlots \in Nat
        /\ q \in ReplyQueues
    BY SoundTyped DEF Sound
  <2>2. e \in ReplyEntry /\ e.sequence = q.next + 1 /\ e.reserved = n /\ e.ready
    BY <2>1 DEF ReplyEntry
  <2>3. q.pendingBytes + n <= HardPendingReplyBytesPane
    BY <1>2, <2>1, ReplyAssumption DEF Fits
  <2>4. r = [entries |-> Append(q.entries, e), next |-> q.next + 1,
             pendingBytes |-> q.pendingBytes + n, reservedSlots |-> q.reservedSlots]
    BY <1>2, <2>1 DEF QueueReply, ReplyQueues
  <2>5. q.reservedSlots + (IF e.ready THEN 0 ELSE 1) = q.reservedSlots
    BY <2>1, <2>2
  <2> HIDE DEF e, r
  <2>6. r = [entries |-> Append(q.entries, e), next |-> q.next + 1,
             pendingBytes |-> q.pendingBytes + e.reserved,
             reservedSlots |-> q.reservedSlots + (IF e.ready THEN 0 ELSE 1)]
    BY <2>2, <2>4, <2>5
  <2>9. q.pendingBytes + e.reserved <= HardPendingReplyBytesPane
    BY <2>2, <2>3
  <2>7. /\ Sound(r) /\ Slots(r) = Slots(q) \cup (IF e.ready THEN {} ELSE {e.sequence})
        /\ \A s : Written(s, q) => Written(s, r)
    <3>1. Appends(q, e, r)
      BY <2>2, <2>6, <2>9 DEF Appends
    <3> QED BY <3>1, AppendSound
  <2>8. Slots(r) = Slots(q)
    BY <2>2, <2>7
  <2> QED BY <2>7, <2>8 DEF r
<1> QED BY <1>1, <1>2

(* A reservation adds its slot, which is new, or no slot. *)
LEMMA ReserveSound ==
  ASSUME NEW q, Sound(q)
  PROVE  LET r == ReserveImageReply(q) k == ReserveSlot(q) IN
         /\ Sound(r) /\ k \in Nat /\ k \notin Slots(q)
         /\ Slots(r) = IF k = 0 THEN Slots(q) ELSE Slots(q) \cup {k}
         /\ \A s : Written(s, q) => Written(s, r)
<1> DEFINE r == ReserveImageReply(q)
           k == ReserveSlot(q)
<1>1. /\ q.next \in Nat /\ q.pendingBytes \in Nat /\ q.reservedSlots \in Nat
      /\ q \in ReplyQueues
  BY SoundTyped DEF Sound
<1>n. k \notin Slots(q)
  BY <1>1, SlotsTyped DEF ReserveSlot
<1>2. CASE k = 0
  <2>1. r = [q EXCEPT !.next = @ + 1]
    BY <1>2 DEF ReserveImageReply
  <2> HIDE DEF r, k
  <2>2. Sound(r) /\ Slots(r) = Slots(q) /\ \A s : Written(s, q) => Written(s, r)
    BY <2>1, SpendSound
  <2> QED BY <1>n, <1>2, <2>2 DEF r, k
<1>3. CASE k # 0
  <2> DEFINE e == [sequence |-> q.next + 1, reserved |-> HardReplyBytes, ready |-> FALSE]
  <2>1. k = q.next + 1 /\ Fits(q, HardReplyBytes) /\ HardReplyBytes \in Nat
    BY <1>3, ReplyAssumption DEF ReserveSlot
  <2>2. e \in ReplyEntry /\ e.sequence = q.next + 1 /\ e.reserved = HardReplyBytes /\ ~e.ready
    BY <1>1, <2>1 DEF ReplyEntry
  <2>3. q.pendingBytes + HardReplyBytes <= HardPendingReplyBytesPane
    BY <1>1, <2>1, ReplyAssumption DEF Fits
  <2>4. r = [entries |-> Append(q.entries, e), next |-> q.next + 1,
             pendingBytes |-> q.pendingBytes + HardReplyBytes,
             reservedSlots |-> q.reservedSlots + 1]
    BY <1>1, <1>3 DEF ReserveImageReply, ReplyQueues, OneMoreSlot
  <2> HIDE DEF e, r, k
  <2>5. r = [entries |-> Append(q.entries, e), next |-> q.next + 1,
             pendingBytes |-> q.pendingBytes + e.reserved,
             reservedSlots |-> q.reservedSlots + (IF e.ready THEN 0 ELSE 1)]
    BY <2>2, <2>4
  <2>6. q.pendingBytes + e.reserved <= HardPendingReplyBytesPane
    BY <2>2, <2>3
  <2>7. /\ Sound(r) /\ Slots(r) = Slots(q) \cup (IF e.ready THEN {} ELSE {e.sequence})
        /\ \A s : Written(s, q) => Written(s, r)
    <3>1. Appends(q, e, r)
      BY <2>2, <2>5, <2>6 DEF Appends
    <3> QED BY <3>1, AppendSound
  <2>8. Slots(r) = Slots(q) \cup {k} /\ k \in Nat
    BY <1>1, <2>1, <2>2, <2>7
  <2> QED BY <1>n, <1>3, <2>7, <2>8 DEF r, k
<1> QED BY <1>2, <1>3

(* A cleared queue owes nothing. *)
LEMMA ClearSound ==
  ASSUME NEW q, Sound(q)
  PROVE  LET r == ClearReplies(q) IN
         /\ Sound(r) /\ Slots(r) = {} /\ HeadWaits(r)
         /\ \A s : Written(s, q) => Written(s, r)
<1> DEFINE r == ClearReplies(q)
           e == << >>
<1>1. q \in ReplyQueues /\ q.next \in Nat
  BY SoundTyped DEF Sound
<1>2. r = [entries |-> e, next |-> q.next, pendingBytes |-> 0, reservedSlots |-> 0]
  <2>1. q = [entries |-> q.entries, next |-> q.next, pendingBytes |-> q.pendingBytes,
             reservedSlots |-> q.reservedSlots]
    BY <1>1 DEF ReplyQueues
  <2>2. r.next = q.next /\ r.entries = << >> /\ r.pendingBytes = 0 /\ r.reservedSlots = 0
    BY <2>1 DEF ClearReplies
  <2>3. DOMAIN r = {"entries", "next", "pendingBytes", "reservedSlots"}
    BY <2>1 DEF ClearReplies
  <2>4. r = [f \in {"entries", "next", "pendingBytes", "reservedSlots"} |-> r[f]]
    BY <2>3 DEF ClearReplies
  <2> HIDE DEF r
  <2> QED BY <2>2, <2>4
<1>3. /\ e \in Seq(ReplyEntry) /\ DOMAIN e = {} /\ Waiting(e) = {}
      /\ InOrder(e, q.next) /\ FullSlots(e)
  BY DEF Waiting, InOrder, FullSlots
<1>4. Cardinality(Waiting(e)) = 0
  BY <1>3, FS_EmptySet
<1>5. 0 = Bytes(e)
  BY BytesEmpty
<1>6. 0 \in Nat /\ 0 <= HardPendingReplyBytesPane
  BY ReplyAssumption
<1> HIDE DEF e, r
<1>7. Sound(r) /\ r.entries = e /\ r.next = q.next
  <2>1. MadeOf(r, e, q.next, 0, 0)
    BY <1>1, <1>2, <1>3, <1>4, <1>5, <1>6 DEF MadeOf
  <2> QED BY <2>1, SoundIf
<1>8. Slots(r) = {} /\ HeadWaits(r)
  BY <1>3, <1>7 DEF Slots, HeadWaits, e
<1>9. \A s : Written(s, q) => Written(s, r)
  BY <1>3, <1>7 DEF Written
<1> QED BY <1>7, <1>8, <1>9 DEF r

(* The entry of a waiting slot, and the only one with its number. *)
LEMMA AwaitsOne ==
  ASSUME NEW q, Sound(q), NEW k \in Nat
  PROVE  /\ Awaits(q, k) = {i \in Waiting(q.entries) : q.entries[i].sequence = k}
         /\ Awaits(q, k) = {} <=> k \notin Slots(q)
         /\ \A i \in Awaits(q, k), j \in DOMAIN q.entries : j # i => q.entries[j].sequence # k
<1>1. /\ q.entries \in Seq(ReplyEntry) /\ FullSlots(q.entries) /\ InOrder(q.entries, q.next)
      /\ HardReplyBytes # 0
  BY SoundTyped, ReplyAssumption
<1>2. Awaits(q, k) = {i \in Waiting(q.entries) : q.entries[i].sequence = k}
  BY <1>1 DEF Awaits, Waiting, FullSlots
<1>3. Awaits(q, k) = {} <=> k \notin Slots(q)
  BY <1>2 DEF Slots
<1>4. ASSUME NEW i \in Awaits(q, k), NEW j \in DOMAIN q.entries, j # i
      PROVE  q.entries[j].sequence # k
  <2>1. i \in DOMAIN q.entries /\ q.entries[i].sequence = k
    BY DEF Awaits
  <2>2. i \in Int /\ j \in Int /\ q.entries[j].sequence \in Nat /\ (i < j \/ j < i)
    BY <1>1, <1>4, <2>1, EntryTyped
  <2>3. q.entries[i].sequence < q.entries[j].sequence
        \/ q.entries[j].sequence < q.entries[i].sequence
    BY <1>1, <2>1, <2>2 DEF InOrder
  <2> QED BY <2>1, <2>2, <2>3
<1> QED BY <1>2, <1>3, <1>4

(* The entry that a completion leaves. *)
LEMMA EntryDone ==
  ASSUME NEW x \in ReplyEntry, NEW c \in Nat
  PROVE  LET e == [x EXCEPT !.ready = TRUE, !.reserved = c] IN
         e \in ReplyEntry /\ e.sequence = x.sequence /\ e.reserved = c /\ e.ready
<1> DEFINE e == [x EXCEPT !.ready = TRUE, !.reserved = c]
           F == {"sequence", "reserved", "ready"}
<1>1. x.sequence \in Nat \ {0} /\ DOMAIN x = F
  BY DEF ReplyEntry
<1>2. e = [f \in DOMAIN x |-> IF f = "reserved" THEN c ELSE IF f = "ready" THEN TRUE ELSE x[f]]
  BY <1>1
<1>3. e.sequence = x.sequence /\ e.reserved = c /\ DOMAIN e = F /\ e = [f \in F |-> e[f]]
  BY <1>1, <1>2
<1>4. e.ready = TRUE
  BY Zenon, <1>1, <1>2
<1> HIDE DEF e
<1>5. e = [sequence |-> e.sequence, reserved |-> e.reserved, ready |-> e.ready]
  BY <1>3
<1>6. e \in ReplyEntry
  BY Zenon, <1>1, <1>3, <1>4, <1>5 DEF ReplyEntry
<1> QED BY <1>3, <1>4, <1>6 DEF e

(* A completion takes its slot away, if it is there, and no other. *)
LEMMA CompleteSound ==
  ASSUME NEW q, Sound(q), NEW k \in Nat, NEW n \in Nat
  PROVE  LET r == CompleteImageReply(q, k, n) IN
         /\ Sound(r) /\ Slots(r) = Slots(q) \ {k}
         /\ \A s : Written(s, q) => Written(s, r)
<1> DEFINE r == CompleteImageReply(q, k, n)
<1>1. CASE Awaits(q, k) = {}
  <2>1. r = q
    BY <1>1 DEF CompleteImageReply
  <2>2. Slots(q) = Slots(q) \ {k}
    BY <1>1, AwaitsOne
  <2> HIDE DEF r
  <2>3. Sound(r) /\ Slots(r) = Slots(q) \ {k} /\ \A s : Written(s, q) => Written(s, r)
    BY Zenon, <2>1, <2>2
  <2> QED BY <2>3 DEF r
<1>2. CASE Awaits(q, k) # {}
  <2> DEFINE i == CHOOSE i \in Awaits(q, k) : TRUE
             s == q.entries
             e == [s[i] EXCEPT !.ready = TRUE, !.reserved = Charged(n)]
             t == [s EXCEPT ![i] = e]
             b == (q.pendingBytes - s[i].reserved) + Charged(n)
             w == q.reservedSlots - 1
  <2>1. i \in Awaits(q, k)
    BY <1>2
  <2>2. r = [q EXCEPT !.reservedSlots = w, !.pendingBytes = b, !.entries = t]
    BY <1>2 DEF CompleteImageReply
  <2> HIDE DEF i, r
  <2>3. /\ s \in Seq(ReplyEntry) /\ InOrder(s, q.next) /\ FullSlots(s) /\ q \in ReplyQueues
        /\ q.pendingBytes = Bytes(s) /\ q.pendingBytes \in Nat /\ q.next \in Nat
        /\ q.pendingBytes <= HardPendingReplyBytesPane
        /\ q.reservedSlots = Cardinality(Waiting(s)) /\ IsFiniteSet(Waiting(s))
        /\ q.reservedSlots \in Nat
    BY SoundTyped DEF Sound
  <2>4. /\ i \in Waiting(s) /\ i \in DOMAIN s /\ s[i].sequence = k /\ ~s[i].ready
        /\ \A j \in DOMAIN s : j # i => s[j].sequence # k
    BY <2>1, AwaitsOne DEF Waiting
  <2>5. s[i].reserved = HardReplyBytes /\ Charged(n) \in 1..HardReplyBytes
        /\ HardReplyBytes \in Nat
    BY <2>3, <2>4, ReplyAssumption DEF FullSlots, Charged
  <2>6. s[i] \in ReplyEntry
    BY <2>3, <2>4
  <2>8. e \in ReplyEntry /\ e.sequence = k /\ e.reserved = Charged(n) /\ e.ready
    <3>1. Charged(n) \in Nat
      BY <2>5
    <3>2. e \in ReplyEntry /\ e.sequence = s[i].sequence /\ e.reserved = Charged(n) /\ e.ready
      BY Zenon, <2>6, <3>1, EntryDone
    <3> QED BY <2>4, <3>2
  <2> HIDE DEF e, s
  <2>9. /\ t \in Seq(ReplyEntry) /\ DOMAIN t = DOMAIN s /\ t[i] = e
        /\ \A j \in DOMAIN s : j # i => t[j] = s[j]
    BY <2>3, <2>4, <2>8
  <2>10. Bytes(t) + s[i].reserved = Bytes(s) + e.reserved /\ Bytes(t) \in Nat
    BY <2>3, <2>4, <2>8, <2>9, BytesReplace, BytesTyped
  <2> HIDE DEF t
  <2>11. b = Bytes(t) /\ b \in Nat /\ b <= HardPendingReplyBytesPane
    BY <2>3, <2>5, <2>8, <2>10, ReplyAssumption
  <2>12. Waiting(t) = Waiting(s) \ {i}
    BY <2>4, <2>8, <2>9 DEF Waiting
  <2>13. w = Cardinality(Waiting(t)) /\ w \in Nat
    <3>1. /\ IsFiniteSet(Waiting(s) \ {i})
          /\ Cardinality(Waiting(s) \ {i}) = Cardinality(Waiting(s)) - 1
      BY <2>3, <2>4, FS_RemoveElement
    <3>2. Cardinality(Waiting(s) \ {i}) \in Nat
      BY <3>1, FS_CardinalityType
    <3> DEFINE W == Waiting(s) \ {i}
    <3> HIDE DEF W
    <3>3. w = Cardinality(W) /\ Cardinality(W) \in Nat
      BY <2>3, <3>1, <3>2 DEF W
    <3> QED BY Zenon, <2>12, <3>3 DEF W
  <2>14. \A j \in DOMAIN t : t[j].sequence = s[j].sequence
    BY <2>4, <2>8, <2>9
  <2>15. InOrder(t, q.next) /\ FullSlots(t)
    BY <2>3, <2>8, <2>9, <2>14 DEF InOrder, FullSlots
  <2>16. r = [entries |-> t, next |-> q.next, pendingBytes |-> b, reservedSlots |-> w]
    BY <2>2, <2>3 DEF ReplyQueues
  <2> HIDE DEF b, w
  <2>17. Sound(r) /\ r.entries = t /\ r.next = q.next
    <3>1. MadeOf(r, t, q.next, b, w)
      BY <2>3, <2>9, <2>11, <2>13, <2>15, <2>16 DEF MadeOf
    <3> QED BY <3>1, SoundIf
  <2>18. Slots(r) = Slots(q) \ {k}
    <3>1. Slots(r) = {t[j].sequence : j \in Waiting(t)} /\ Slots(q) = {s[j].sequence : j \in Waiting(s)}
      BY <2>17 DEF Slots, s
    <3>2. \A j \in Waiting(s) : j \in DOMAIN s /\ j \in DOMAIN t
      BY <2>9 DEF Waiting
    <3>3. {t[j].sequence : j \in Waiting(t)} = {s[j].sequence : j \in Waiting(s) \ {i}}
      BY <2>12, <2>14, <3>2
    <3>4. {s[j].sequence : j \in Waiting(s) \ {i}} = {s[j].sequence : j \in Waiting(s)} \ {k}
      BY <2>4, <3>2
    <3> QED BY Zenon, <3>1, <3>3, <3>4
  <2>19. ASSUME NEW v, Written(v, q) PROVE Written(v, r)
    BY <2>9, <2>14, <2>17, <2>19 DEF Written, s
  <2> QED BY <2>17, <2>18, <2>19 DEF r
<1> QED BY <1>1, <1>2

-----------------------------------------------------------------------------
(* The ready prefix ends at the first entry that waits. *)
LEMMA Prefix ==
  ASSUME NEW q, Sound(q)
  PROVE  LET n == ReadyPrefix(q) IN
         /\ n \in 0..Len(q.entries)
         /\ \A i \in 1..n : q.entries[i].ready
         /\ n < Len(q.entries) => ~q.entries[n + 1].ready
<1> DEFINE s == q.entries
           Good(n) == /\ \A i \in 1..n : s[i].ready
                      /\ n < Len(s) => ~s[n + 1].ready
<1>1. s \in Seq(ReplyEntry) /\ IsFiniteSet(Waiting(s))
  BY SoundTyped
<1>2. Len(s) \in Nat /\ DOMAIN s = 1..Len(s) /\ Waiting(s) \subseteq 1..Len(s)
  BY <1>1 DEF Waiting
<1>3. \E n \in 0..Len(s) : Good(n)
  <2>1. CASE Waiting(s) = {}
    <3>1. \A i \in 1..Len(s) : s[i].ready
      BY <1>2, <2>1 DEF Waiting
    <3>2. Len(s) \in 0..Len(s) /\ Good(Len(s))
      BY <1>2, <3>1
    <3> QED BY <3>2
  <2>2. CASE Waiting(s) # {}
    <3>1. PICK m \in Waiting(s) : \A x \in Waiting(s) : m <= x
      <4>1. Waiting(s) \subseteq Int
        BY <1>2
      <4> QED BY <1>1, <2>2, <4>1, LeastElement
    <3>2. m \in 1..Len(s) /\ ~s[m].ready
      BY <1>2 DEF Waiting
    <3>3. m - 1 \in 0..Len(s) /\ (m - 1) + 1 = m
      BY <1>2, <3>2
    <3>4. \A i \in 1..(m - 1) : s[i].ready
      BY <1>2, <3>1, <3>2 DEF Waiting
    <3>5. Good(m - 1)
      BY <3>2, <3>3, <3>4
    <3> HIDE DEF Good
    <3> QED BY <3>3, <3>5
  <2> QED BY <2>1, <2>2
<1>4. ReadyPrefix(q) \in 0..Len(s) /\ Good(ReadyPrefix(q))
  BY <1>3 DEF ReadyPrefix
<1> QED BY <1>4

(* The entries from the n-th on: the same ones wait. *)
LEMMA WaitingCut ==
  ASSUME NEW s \in Seq(ReplyEntry), NEW n \in 0..Len(s),
         \A i \in 1..n : s[i].ready
  PROVE  LET t == SubSeq(s, n + 1, Len(s)) IN
         /\ t \in Seq(ReplyEntry) /\ DOMAIN t = 1..(Len(s) - n)
         /\ \A i \in DOMAIN t : n + i \in DOMAIN s /\ t[i] = s[n + i]
         /\ Cardinality(Waiting(t)) = Cardinality(Waiting(s))
         /\ {t[i].sequence : i \in Waiting(t)} = {s[i].sequence : i \in Waiting(s)}
<1> DEFINE t == SubSeq(s, n + 1, Len(s))
           shift == [i \in Waiting(t) |-> n + i]
<1>1. /\ t \in Seq(ReplyEntry) /\ DOMAIN t = 1..(Len(s) - n)
      /\ \A i \in 1..(Len(s) - n) : t[i] = s[n + i]
  OBVIOUS
<1>2. DOMAIN s = 1..Len(s) /\ Len(s) \in Nat /\ n \in Nat
  OBVIOUS
<1> HIDE DEF t
<1>3. \A i \in DOMAIN t : n + i \in DOMAIN s /\ t[i] = s[n + i]
  BY <1>1, <1>2
<1>4. \A i \in Waiting(t) : n + i \in Waiting(s) /\ t[i] = s[n + i] /\ i \in Int
  BY <1>1, <1>2, <1>3 DEF Waiting
<1>5. \A j \in Waiting(s) : j - n \in Waiting(t) /\ n + (j - n) = j /\ t[j - n] = s[j]
  <2> SUFFICES ASSUME NEW j \in Waiting(s)
               PROVE  j - n \in Waiting(t) /\ n + (j - n) = j /\ t[j - n] = s[j]
    OBVIOUS
  <2>1. j \in 1..Len(s) /\ ~s[j].ready /\ j \notin 1..n
    BY <1>2 DEF Waiting
  <2>2. j - n \in 1..(Len(s) - n) /\ n + (j - n) = j
    BY <1>2, <2>1
  <2>3. t[j - n] = s[j]
    BY <1>1, <2>2
  <2> QED BY <1>1, <2>1, <2>2, <2>3 DEF Waiting
<1>6. IsFiniteSet(Waiting(t))
  <2>1. Waiting(t) \in SUBSET DOMAIN t
    BY DEF Waiting
  <2> QED BY <1>1, <2>1, BytesTyped, FS_Subset
<1>7. shift \in Bijection(Waiting(t), Waiting(s))
  <2>1. shift \in [Waiting(t) -> Waiting(s)]
    BY <1>4
  <2>2. shift \in Injection(Waiting(t), Waiting(s))
    BY <1>2, <1>4, <2>1 DEF Injection, IsInjective
  <2>3. \A j \in Waiting(s) : \E i \in Waiting(t) : shift[i] = j
    BY <1>5
  <2> QED BY <2>1, <2>2, <2>3 DEF Bijection, Surjection
<1>8. Cardinality(Waiting(t)) = Cardinality(Waiting(s))
  BY <1>6, <1>7, FS_Bijection DEF ExistsBijection
<1>9. {t[i].sequence : i \in Waiting(t)} = {s[i].sequence : i \in Waiting(s)}
  <2> DEFINE T == {t[i].sequence : i \in Waiting(t)}
             S == {s[i].sequence : i \in Waiting(s)}
  <2>1. ASSUME NEW k \in T PROVE k \in S
    <3>1. PICK i \in Waiting(t) : k = t[i].sequence
      OBVIOUS
    <3> QED BY <1>4, <3>1
  <2>2. ASSUME NEW k \in S PROVE k \in T
    <3>1. PICK j \in Waiting(s) : k = s[j].sequence
      OBVIOUS
    <3>2. j - n \in Waiting(t) /\ k = t[j - n].sequence
      BY <1>5, <3>1
    <3> QED BY <3>2
  <2> QED BY <2>1, <2>2
<1> QED BY <1>1, <1>3, <1>8, <1>9 DEF t

(* Where the elements of a concatenation come from. *)
LEMMA Concatenated ==
  ASSUME NEW v \in Seq(Nat), NEW f \in Seq(Nat)
  PROVE  LET m == Len(v) n == Len(f) w == v \o f IN
         /\ m \in Nat /\ n \in Nat /\ DOMAIN v = 1..m
         /\ w \in Seq(Nat) /\ DOMAIN w = 1..(m + n)
         /\ \A i \in 1..m : w[i] = v[i] /\ v[i] \in Nat
         /\ \A i \in (m + 1)..(m + n) : w[i] = f[i - m]
<1>1. /\ Len(v) \in Nat /\ Len(f) \in Nat /\ DOMAIN v = 1..Len(v)
      /\ v \o f \in Seq(Nat) /\ Len(v \o f) = Len(v) + Len(f)
  OBVIOUS
<1>2. DOMAIN (v \o f) = 1..(Len(v) + Len(f))
  BY <1>1
<1>3. ASSUME NEW i \in 1..(Len(v) + Len(f))
      PROVE  (v \o f)[i] = IF i <= Len(v) THEN v[i] ELSE f[i - Len(v)]
  BY <1>1
<1>4. \A i \in 1..Len(v) : v[i] \in Nat
  BY <1>1
<1> QED BY <1>1, <1>2, <1>3, <1>4

(* A flush leaves the slots, with one of them at the head, and writes in order. *)
LEMMA FlushSound ==
  ASSUME NEW q, Sound(q)
  PROVE  LET r == FlushReplies(q) IN
         /\ Sound(r) /\ Slots(r) = Slots(q) /\ HeadWaits(r)
         /\ \A v : Written(v, q) => Written(v \o Flushed(q), r)
<1> DEFINE r == FlushReplies(q)
           n == ReadyPrefix(q)
           s == q.entries
           t == SubSeq(s, n + 1, Len(s))
           u == SubSeq(s, 1, n)
           b == q.pendingBytes - Bytes(u)
           f == Flushed(q)
<1>1. /\ s \in Seq(ReplyEntry) /\ InOrder(s, q.next) /\ FullSlots(s) /\ q \in ReplyQueues
      /\ q.pendingBytes = Bytes(s) /\ q.pendingBytes \in Nat /\ q.next \in Nat
      /\ q.pendingBytes <= HardPendingReplyBytesPane
      /\ q.reservedSlots = Cardinality(Waiting(s)) /\ q.reservedSlots \in Nat
      /\ \A i \in DOMAIN s : s[i].sequence \in Nat
  BY SoundTyped, EntryTyped DEF Sound
<1>2. /\ n \in 0..Len(s) /\ \A i \in 1..n : s[i].ready
      /\ n < Len(s) => ~s[n + 1].ready
  BY Prefix
<1>3. r = [q EXCEPT !.pendingBytes = b, !.entries = t]
  BY DEF FlushReplies
<1>4. f = [i \in 1..n |-> s[i].sequence]
  BY DEF Flushed
<1>5. DOMAIN s = 1..Len(s) /\ Len(s) \in Nat /\ n \in Nat
  BY <1>1, <1>2
<1> HIDE DEF r, n, s, f
<1>6. /\ t \in Seq(ReplyEntry) /\ DOMAIN t = 1..(Len(s) - n)
      /\ \A i \in DOMAIN t : n + i \in DOMAIN s /\ t[i] = s[n + i]
      /\ Cardinality(Waiting(t)) = Cardinality(Waiting(s))
      /\ {t[i].sequence : i \in Waiting(t)} = {s[i].sequence : i \in Waiting(s)}
  BY <1>1, <1>2, WaitingCut
<1>7. u \in Seq(ReplyEntry)
  BY <1>1, <1>2
<1>8. Bytes(s) = Bytes(u) + Bytes(t)
  BY <1>1, <1>2, BytesCut
<1>9. Bytes(t) \in Nat /\ Bytes(u) \in Nat
  BY <1>6, <1>7, BytesTyped
<1> HIDE DEF t, u
<1>10. b = Bytes(t) /\ b \in Nat /\ b <= HardPendingReplyBytesPane
  BY <1>1, <1>8, <1>9, ReplyAssumption
<1>11. InOrder(t, q.next) /\ FullSlots(t)
  <2>1. ASSUME NEW i \in DOMAIN t
        PROVE  /\ t[i].sequence <= q.next
               /\ \A j \in DOMAIN t : i < j => t[i].sequence < t[j].sequence
               /\ ~t[i].ready => t[i].reserved = HardReplyBytes
    <3>1. i \in Int /\ n + i \in DOMAIN s /\ t[i] = s[n + i]
      BY <1>5, <1>6
    <3>2. ASSUME NEW j \in DOMAIN t, i < j PROVE t[i].sequence < t[j].sequence
      <4>1. n + j \in DOMAIN s /\ t[j] = s[n + j] /\ n + i < n + j
        BY <1>5, <1>6, <3>1, <3>2
      <4> QED BY <1>1, <3>1, <4>1 DEF InOrder
    <3> QED BY <1>1, <3>1, <3>2 DEF InOrder, FullSlots
  <2> QED BY <2>1 DEF InOrder, FullSlots
<1> HIDE DEF b
<1>12. r = [entries |-> t, next |-> q.next, pendingBytes |-> b, reservedSlots |-> q.reservedSlots]
  BY <1>1, <1>3 DEF ReplyQueues
<1>13. q.reservedSlots = Cardinality(Waiting(t))
  BY Zenon, <1>1, <1>6
<1>14. Sound(r) /\ r.entries = t /\ r.next = q.next
  <2>1. MadeOf(r, t, q.next, b, q.reservedSlots)
    BY <1>1, <1>6, <1>10, <1>11, <1>12, <1>13 DEF MadeOf
  <2> QED BY <2>1, SoundIf
<1>15. Slots(r) = Slots(q)
  BY Zenon, <1>6, <1>14 DEF Slots, s
<1>16. HeadWaits(r)
  <2>1. CASE n < Len(s)
    <3>1. 1 \in DOMAIN t /\ t[1] = s[n + 1]
      BY <1>5, <1>6, <2>1
    <3> QED BY <1>2, <1>14, <2>1, <3>1 DEF HeadWaits
  <2>2. CASE n = Len(s)
    <3>1. t = << >>
      BY <1>5, <1>6, <2>2
    <3> QED BY <1>14, <3>1 DEF HeadWaits
  <2>3. n < Len(s) \/ n = Len(s)
    <3> DEFINE l == Len(s)
    <3>1. n \in Nat /\ l \in Nat
      BY <1>5
    <3>2. n \in 0..l
      BY <1>2
    <3> HIDE DEF l
    <3>3. n <= l
      BY <3>1, <3>2
    <3>4. n < l \/ n = l
      BY <3>1, <3>3
    <3> QED BY Zenon, <3>4 DEF l
  <2> QED BY <2>1, <2>2, <2>3
<1>17. ASSUME NEW v, Written(v, q) PROVE Written(v \o f, r)
  <2> DEFINE m == Len(v)
             w == v \o f
  <2>1. v \in Seq(Nat)
    BY <1>17 DEF Written
  <2>2. f \in Seq(Nat) /\ Len(f) = n /\ DOMAIN f = 1..n
    BY <1>1, <1>2, <1>4, <1>5
  <2>3. /\ m \in Nat /\ DOMAIN v = 1..m /\ w \in Seq(Nat) /\ DOMAIN w = 1..(m + n)
        /\ \A i \in 1..m : w[i] = v[i] /\ v[i] \in Nat
        /\ \A i \in (m + 1)..(m + n) : w[i] = f[i - m]
    BY <1>5, <2>1, <2>2, Concatenated
  <2> HIDE DEF m, w
  <2>4. /\ \A i, j \in 1..m : i < j => v[i] < v[j]
        /\ \A i \in 1..m : v[i] <= q.next
        /\ \A i \in 1..m, j \in DOMAIN s : v[i] < s[j].sequence
    BY <1>17, <2>3 DEF Written, s
  <2>5. ASSUME NEW i \in (m + 1)..(m + n)
        PROVE  i - m \in 1..n /\ i - m \in DOMAIN s /\ w[i] = s[i - m].sequence
    <3>1. i - m \in 1..n /\ w[i] = f[i - m]
      BY <1>5, <2>3
    <3>2. i - m \in DOMAIN s
      BY <1>2, <1>5, <3>1
    <3>3. f[i - m] = s[i - m].sequence
      BY <1>4, <3>1
    <3> QED BY <3>1, <3>2, <3>3
  <2>6. \A i \in DOMAIN w : i \in 1..m \/ i \in (m + 1)..(m + n)
    BY <1>5, <2>3
  <2>7. ASSUME NEW i \in DOMAIN w, NEW j \in DOMAIN w, i < j PROVE w[i] < w[j]
    <3>1. CASE j \in 1..m
      BY <2>3, <2>4, <2>6, <2>7, <3>1
    <3>2. CASE i \in 1..m /\ j \in (m + 1)..(m + n)
      <4>1. w[i] = v[i] /\ j - m \in DOMAIN s /\ w[j] = s[j - m].sequence
        BY <2>3, <2>5, <3>2
      <4> QED BY <2>4, <3>2, <4>1
    <3>3. CASE i \in (m + 1)..(m + n) /\ j \in (m + 1)..(m + n)
      <4>1. i - m \in DOMAIN s /\ j - m \in DOMAIN s /\ i - m < j - m
        BY <2>3, <2>5, <2>7, <3>3
      <4>2. w[i] = s[i - m].sequence /\ w[j] = s[j - m].sequence
        BY <2>5, <3>3
      <4> QED BY <1>1, <4>1, <4>2 DEF InOrder
    <3>4. i \in 1..m /\ ~(j \in 1..m) => j \in (m + 1)..(m + n)
      BY <2>6
    <3>5. ~(i \in 1..m) => ~(j \in 1..m)
      BY <2>3, <2>6, <2>7
    <3> QED BY <2>6, <3>1, <3>2, <3>3, <3>4, <3>5
  <2>8. ASSUME NEW i \in DOMAIN w
        PROVE  w[i] <= q.next /\ \A j \in DOMAIN t : w[i] < t[j].sequence
    <3>1. CASE i \in 1..m
      BY <1>6, <2>3, <2>4, <3>1
    <3>2. CASE i \in (m + 1)..(m + n)
      <4>1. i - m \in 1..n /\ i - m \in DOMAIN s /\ w[i] = s[i - m].sequence
        BY <2>5, <3>2
      <4>2. ASSUME NEW j \in DOMAIN t PROVE w[i] < t[j].sequence
        <5>1. n + j \in DOMAIN s /\ t[j] = s[n + j] /\ j \in 1..(Len(s) - n)
          BY <1>6
        <5>2. i - m < n + j
          BY <1>5, <4>1, <5>1
        <5> QED BY <1>1, <4>1, <5>1, <5>2 DEF InOrder
      <4> QED BY <1>1, <4>1, <4>2 DEF InOrder
    <3> QED BY <2>6, <3>1, <3>2
  <2>9. w \in Seq(Nat)
    BY <2>3
  <2>10. Written(w, r)
    BY <1>14, <2>7, <2>8, <2>9 DEF Written
  <2> QED BY <2>10 DEF w
<1> QED BY <1>14, <1>15, <1>16, <1>17 DEF r, f

-----------------------------------------------------------------------------
(* The queues of all panes. *)

(* The slots that the pending decodes of a pane own. *)
Owed(p) == {owner[t].slot : t \in {t \in pending : owner[t].pane = p /\ owner[t].slot # 0}}

(* What holds of a pane: only the pane that is being fed may hold replies  *)
(* that nothing holds back.                                                 *)
Kept(p) == /\ Sound(replies[p]) /\ Written(sent[p], replies[p])
           /\ p \in open => Slots(replies[p]) = Owed(p)
           /\ HeadWaits(replies[p]) \/ (turn = "feed" /\ turnPane = p)

(* Only kitty decodes are answered. *)
SlotOf(t) == owner[t].slot \in Nat /\ (owner[t].protocol # "kitty" => owner[t].slot = 0)

QInv == /\ open \subseteq Panes
        /\ replies = [p \in Panes |-> replies[p]] /\ sent = [p \in Panes |-> sent[p]]
        /\ \A t \in 1..nextToken : SlotOf(t)
        /\ \A p \in Panes : Kept(p)

(* The queue of a new pane. *)
LEMMA EmptyKept ==
  /\ Sound(EmptyQueue) /\ Slots(EmptyQueue) = {} /\ HeadWaits(EmptyQueue)
  /\ Written(<< >>, EmptyQueue)
<1> DEFINE e == << >>
<1>1. EmptyQueue = [entries |-> e, next |-> 0, pendingBytes |-> 0, reservedSlots |-> 0]
  BY DEF EmptyQueue
<1>2. /\ e \in Seq(ReplyEntry) /\ DOMAIN e = {} /\ Waiting(e) = {}
      /\ InOrder(e, 0) /\ FullSlots(e)
  BY DEF Waiting, InOrder, FullSlots
<1>3. 0 = Cardinality(Waiting(e))
  BY <1>2, FS_EmptySet
<1>4. 0 = Bytes(e) /\ 0 \in Nat /\ 0 <= HardPendingReplyBytesPane
  BY BytesEmpty, ReplyAssumption
<1>5. e \in Seq(Nat)
  OBVIOUS
<1> HIDE DEF e
<1>6. Sound(EmptyQueue) /\ EmptyQueue.entries = e /\ EmptyQueue.next = 0
  <2>1. MadeOf(EmptyQueue, e, 0, 0, 0)
    BY <1>1, <1>2, <1>3, <1>4 DEF MadeOf
  <2> QED BY <2>1, SoundIf
<1>7. Slots(EmptyQueue) = {} /\ HeadWaits(EmptyQueue)
  BY <1>2, <1>6 DEF Slots, HeadWaits, e
<1>8. Written(e, EmptyQueue)
  BY <1>2, <1>5 DEF Written
<1> QED BY <1>6, <1>7, <1>8 DEF e

(* Every pane starts with nothing owed. *)
LEMMA InitQueues == Init => QInv
<1> SUFFICES ASSUME Init PROVE QInv
  OBVIOUS
<1>1. /\ open = Panes /\ replies = [p \in Panes |-> EmptyQueue]
      /\ sent = [p \in Panes |-> << >>] /\ nextToken = 0 /\ pending = {}
  BY DEF Init
<1>2. 1..nextToken = {}
  BY <1>1
<1>3. ASSUME NEW p \in Panes PROVE Kept(p)
  <2>1. replies[p] = EmptyQueue /\ sent[p] = << >> /\ Owed(p) = {}
    BY <1>1 DEF Owed
  <2> QED BY Zenon, <2>1, EmptyKept DEF Kept
<1> QED BY <1>1, <1>2, <1>3 DEF QInv

(* Steps that leave the queues and what the decodes are owed as they are. *)
LEMMA QuietStep ==
  ASSUME QInv, UNCHANGED <<queues, nextToken, owner, pending>>, open' = open,
         turn # "feed" \/ UNCHANGED <<turn, turnPane>>
  PROVE  QInv'
<1>1. UNCHANGED <<replies, sent, nextToken, owner, pending>>
  BY DEF queues
<1>2. ASSUME NEW p \in Panes PROVE Kept(p)'
  <2>1. Kept(p)
    BY DEF QInv
  <2>2. Owed(p)' = Owed(p)
    BY <1>1 DEF Owed
  <2> QED BY <1>1, <2>1, <2>2 DEF Kept
<1> QED BY <1>1, <1>2 DEF QInv, SlotOf

(* A step on one pane's queue that leaves the other panes alone. *)
LEMMA PaneStep ==
  ASSUME QInv, NEW p \in Panes, NEW r, NEW v, Sound(r), Written(v, r),
         replies' = [replies EXCEPT ![p] = r], sent' = [sent EXCEPT ![p] = v],
         open' = open,
         p \in open => Slots(r) = Owed(p)',
         \A o \in Panes \ {p} : Owed(o)' = Owed(o),
         \A t \in 1..nextToken' : SlotOf(t)',
         HeadWaits(r) \/ (turn' = "feed" /\ turnPane' = p),
         turn # "feed" \/ turnPane = p \/ UNCHANGED <<turn, turnPane>>
  PROVE  QInv'
<1>1. /\ replies' = [o \in Panes |-> replies'[o]] /\ sent' = [o \in Panes |-> sent'[o]]
      /\ replies'[p] = r /\ sent'[p] = v
      /\ \A o \in Panes \ {p} : replies'[o] = replies[o] /\ sent'[o] = sent[o]
  BY DEF QInv
<1>2. Kept(p)'
  BY <1>1 DEF Kept
<1>3. ASSUME NEW o \in Panes \ {p} PROVE Kept(o)'
  <2>1. Kept(o)
    BY DEF QInv
  <2>2. replies'[o] = replies[o] /\ sent'[o] = sent[o] /\ Owed(o)' = Owed(o) /\ o # p
    BY <1>1
  <2> QED BY <2>1, <2>2 DEF Kept
<1> QED BY <1>1, <1>2, <1>3 DEF QInv

(* The same, of a flush. *)
LEMMA FlushStep ==
  ASSUME QInv, NEW p \in Panes, NEW q, Sound(q), Written(sent[p], q), Flush(p, q),
         open' = open,
         p \in open => Slots(q) = Owed(p)',
         \A o \in Panes \ {p} : Owed(o)' = Owed(o),
         \A t \in 1..nextToken' : SlotOf(t)',
         turn # "feed" \/ turnPane = p \/ UNCHANGED <<turn, turnPane>>
  PROVE  QInv'
<1> DEFINE r == FlushReplies(q)
           v == sent[p] \o Flushed(q)
<1>1. Sound(r) /\ Slots(r) = Slots(q) /\ HeadWaits(r) /\ Written(v, r)
  BY FlushSound
<1>2. replies' = [replies EXCEPT ![p] = r] /\ sent' = [sent EXCEPT ![p] = v]
  BY DEF Flush
<1> HIDE DEF r, v
<1>3. p \in open => Slots(r) = Owed(p)'
  BY <1>1
<1> QED BY <1>1, <1>2, <1>3, PaneStep

(* A report the terminal answers by itself waits for the end of the feed. *)
LEMMA ParserStep ==
  ASSUME NEW n \in ReplySizes
  PROVE  IInv /\ QInv /\ ParserReply(n) => QInv'
<1> SUFFICES ASSUME IInv, QInv, ParserReply(n) PROVE QInv'
  OBVIOUS
<1>0. turn = "feed" /\ turnPane \in Panes
  BY DEF ParserReply, IInv, Typed
<1>p. PICK p \in Panes : p = turnPane
  BY <1>0
<1> DEFINE r == QueueReply(replies[p], n)
<1>1. /\ turn = "feed" /\ replies' = [replies EXCEPT ![p] = r]
      /\ UNCHANGED <<open, sent, nextToken, owner, pending, turn, turnPane>>
  BY <1>p DEF ParserReply, panes, turnVars
<1>2. n \in Nat
  BY ReplyBounds
<1>3. Kept(p) /\ sent = [sent EXCEPT ![p] = sent[p]]
  BY <1>2 DEF QInv
<1>4. Sound(r) /\ Slots(r) = Slots(replies[p]) /\ Written(sent[p], r)
  BY <1>2, <1>3, QueueReplySound DEF Kept
<1>5. /\ \A o : Owed(o)' = Owed(o)
      /\ \A t \in 1..nextToken' : SlotOf(t)'
  BY <1>1 DEF Owed, QInv, SlotOf
<1>6. p \in open => Slots(r) = Owed(p)'
  BY <1>3, <1>4, <1>5 DEF Kept
<1> HIDE DEF r
<1> QED BY <1>p, <1>1, <1>3, <1>4, <1>5, <1>6, PaneStep DEF Kept

(* A reply that is known at once is queued and flushed. *)
LEMMA AnswerStep ==
  ASSUME IInv, QInv, NEW p \in Panes, NEW n \in Nat,
         Flush(p, QueueReply(replies[p], n)),
         UNCHANGED <<open, nextToken, owner, pending, turn, turnPane>>
  PROVE  QInv'
<1> DEFINE q == QueueReply(replies[p], n)
<1>1. Kept(p)
  BY DEF QInv
<1>2. Sound(q) /\ Slots(q) = Slots(replies[p]) /\ Written(sent[p], q)
  BY <1>1, QueueReplySound DEF Kept
<1>3. /\ \A o : Owed(o)' = Owed(o)
      /\ \A t \in 1..nextToken' : SlotOf(t)'
  BY DEF Owed, QInv, SlotOf
<1>4. p \in open => Slots(q) = Owed(p)'
  BY <1>1, <1>2, <1>3 DEF Kept
<1> HIDE DEF q
<1>5. Flush(p, q)
  BY DEF q
<1> QED BY <1>2, <1>3, <1>4, <1>5, FlushStep

(* The end of a feed flushes. *)
LEMMA EndFeedStep == IInv /\ QInv /\ EndFeed => QInv'
<1> SUFFICES ASSUME IInv, QInv, EndFeed PROVE QInv'
  OBVIOUS
<1>0. turn = "feed" /\ turnPane \in Panes
  BY DEF EndFeed, IInv, Typed
<1>p. PICK p \in Panes : p = turnPane
  BY <1>0
<1>1. /\ Flush(p, replies[p])
      /\ UNCHANGED <<open, nextToken, owner, pending>>
  BY <1>p DEF EndFeed
<1>3. Kept(p)
  BY DEF QInv
<1>4. /\ \A o : Owed(o)' = Owed(o)
      /\ \A t \in 1..nextToken' : SlotOf(t)'
  BY <1>1 DEF Owed, QInv, SlotOf
<1>5. Sound(replies[p]) /\ Written(sent[p], replies[p])
      /\ (p \in open => Slots(replies[p]) = Owed(p)')
  BY <1>3, <1>4 DEF Kept
<1> QED BY <1>p, <1>1, <1>4, <1>5, FlushStep

(* What a kitty command reserves, if it is to be answered. *)
LEMMA ReservedOrNot ==
  ASSUME NEW q, Sound(q), NEW wants \in BOOLEAN
  PROVE  LET k == IF wants THEN ReserveSlot(q) ELSE 0
             r == IF wants THEN ReserveImageReply(q) ELSE q IN
         /\ Sound(r) /\ k \in Nat /\ k \notin Slots(q)
         /\ Slots(r) = IF k = 0 THEN Slots(q) ELSE Slots(q) \cup {k}
         /\ \A s : Written(s, q) => Written(s, r)
<1>1. CASE wants
  BY <1>1, ReserveSound
<1>2. CASE ~wants
  <2>1. 0 \notin Slots(q)
    BY SlotsTyped
  <2> QED BY <1>2, <2>1
<1> QED BY <1>1, <1>2

(* A pane whose key is free has no decode pending. *)
LEMMA NonePending ==
  ASSUME IInv, NEW p \in Panes, PaneKeyFree(p)
  PROVE  (\A t \in pending : owner[t].pane # p) /\ Owed(p) = {}
<1> SUFFICES ASSUME NEW t \in pending PROVE owner[t].pane # p
  BY DEF Owed
<1>1. t \in 1..nextToken /\ t # 0
  BY DEF IInv, Typed
<1>2. job[owner[t].pane].token = t /\ job[p].token = 0
  BY DEF IInv, KeyOfPending, PaneKeyFree, NoJob
<1> QED BY <1>1, <1>2

(* An accepted decode: its owner's record and what the pane then owes. *)
LEMMA Accept ==
  ASSUME IInv, QInv, NEW p \in Panes, NEW k \in Nat, NEW rec, PaneKeyFree(p),
         rec.pane = p, rec.slot = k, rec.protocol # "kitty" => k = 0,
         nextToken' = nextToken + 1, owner' = Append(owner, rec),
         pending' = pending \cup {nextToken + 1}
  PROVE  /\ Owed(p)' = (IF k = 0 THEN {} ELSE {k})
         /\ \A o \in Panes \ {p} : Owed(o)' = Owed(o)
         /\ \A t \in 1..nextToken' : SlotOf(t)'
<1> DEFINE new == nextToken + 1
<1>1. nextToken \in Nat /\ owner = [t \in 1..nextToken |-> owner[t]] /\ pending \subseteq 1..nextToken
  BY DEF IInv, Typed
<1>2. owner'[new] = rec /\ \A t \in 1..nextToken : owner'[t] = owner[t]
  BY <1>1, Appended
<1>3. \A t \in pending : owner[t].pane # p /\ owner'[t] = owner[t]
  BY <1>1, <1>2, NonePending
<1>4. Owed(p)' = (IF k = 0 THEN {} ELSE {k})
  <2>1. {t \in pending' : owner'[t].pane = p /\ owner'[t].slot # 0} = IF k = 0 THEN {} ELSE {new}
    BY <1>2, <1>3
  <2>2. CASE k = 0
    BY <2>1, <2>2 DEF Owed
  <2>3. CASE k # 0
    <3>1. {t \in pending' : owner'[t].pane = p /\ owner'[t].slot # 0} = {new}
      BY <2>1, <2>3
    <3>2. {owner'[t].slot : t \in {new}} = {k}
      BY <1>2
    <3>3. Owed(p)' = {k}
      BY Zenon, <3>1, <3>2 DEF Owed
    <3> QED BY <2>3, <3>3
  <2> QED BY <2>2, <2>3
<1>5. ASSUME NEW o \in Panes \ {p} PROVE Owed(o)' = Owed(o)
  <2>1. {t \in pending' : owner'[t].pane = o /\ owner'[t].slot # 0}
          = {t \in pending : owner[t].pane = o /\ owner[t].slot # 0}
    BY <1>2, <1>3
  <2>2. \A t \in {t \in pending : owner[t].pane = o /\ owner[t].slot # 0} : owner'[t].slot = owner[t].slot
    BY <1>3
  <2> DEFINE T == {t \in pending : owner[t].pane = o /\ owner[t].slot # 0}
  <2>3. {owner'[t].slot : t \in T} = {owner[t].slot : t \in T}
    BY <2>2
  <2> QED BY Zenon, <2>1, <2>3 DEF Owed
<1>6. \A t \in 1..nextToken' : SlotOf(t)'
  <2> SUFFICES ASSUME NEW t \in 1..(nextToken + 1) PROVE SlotOf(t)'
    OBVIOUS
  <2>1. t = new \/ t \in 1..nextToken
    BY <1>1
  <2>2. CASE t = new
    BY <1>2, <2>2 DEF SlotOf
  <2>3. CASE t \in 1..nextToken
    BY <1>2, <2>3 DEF QInv, SlotOf
  <2> QED BY <2>1, <2>2, <2>3
<1> QED BY <1>4, <1>5, <1>6

(* A submitted decode owns its slot; a refused one is answered at once. *)
LEMMA SubmitQueues ==
  ASSUME NEW protocol, NEW reply, NEW outcome
  PROVE  IInv /\ QInv /\ SubmitDecode(protocol, reply, outcome) => QInv'
<1> SUFFICES ASSUME IInv, QInv, SubmitDecode(protocol, reply, outcome) PROVE QInv'
  OBVIOUS
<1>0. turn = "feed" /\ turnPane \in Panes
  BY DEF SubmitDecode, IInv, Typed
<1>p. PICK p \in Panes : p = turnPane
  BY <1>0
<1> DEFINE q == replies[p]
           wants == protocol = "kitty" /\ reply # "all"
           k == IF wants THEN ReserveSlot(q) ELSE 0
           r == IF wants THEN ReserveImageReply(q) ELSE q
           ends == CompleteImageReply(r, k, Encode(reply = "errors", outcome))
           accepts == outcome = "accepted" /\ (wants => k # 0)
           rec == [pane |-> p, protocol |-> protocol, slot |-> k, quiet |-> reply = "errors",
                   generation |-> CaptureGeneration(protocol), anchor |-> anchor[p],
                   seen |-> generation[p], acceptUntil |-> clock + Deadline]
<1>1. /\ outcome = "accepted" => PaneKeyFree(p)
      /\ IF accepts
         THEN /\ nextToken' = nextToken + 1 /\ owner' = Append(owner, rec)
              /\ pending' = pending \cup {nextToken + 1}
         ELSE UNCHANGED <<nextToken, owner, pending>>
      /\ IF protocol = "kitty" THEN Flush(p, IF outcome = "accepted" THEN r ELSE ends)
         ELSE UNCHANGED queues
      /\ UNCHANGED <<open, turn, turnPane>>
  BY <1>p DEF SubmitDecode, panes, turnVars
<1>2. rec.pane = p /\ rec.slot = k /\ (rec.protocol # "kitty" => k = 0)
  OBVIOUS
<1>3. Kept(p)
  BY DEF QInv
<1>4. /\ Sound(r) /\ k \in Nat /\ k \notin Slots(q)
      /\ Slots(r) = IF k = 0 THEN Slots(q) ELSE Slots(q) \cup {k}
      /\ \A s : Written(s, q) => Written(s, r)
  BY <1>3, ReservedOrNot DEF Kept
<1>5. Sound(ends) /\ Slots(ends) = Slots(r) \ {k} /\ \A s : Written(s, r) => Written(s, ends)
  <2>1. Encode(reply = "errors", outcome) \in Nat
    BY DEF Encode
  <2> HIDE DEF r, k
  <2> QED BY <1>4, <2>1, CompleteSound
<1>6. /\ Sound(q) /\ Written(sent[p], q) /\ (p \in open => Slots(q) = Owed(p))
      /\ Written(sent[p], r) /\ Written(sent[p], ends)
  BY <1>3, <1>4, <1>5 DEF Kept
<1>7. 0 \notin Slots(q)
  BY <1>6, SlotsTyped
<1>8. protocol # "kitty" => k = 0 /\ r = q
  OBVIOUS
<1>9. outcome = "accepted" /\ ~accepts => k = 0
  OBVIOUS
<1> HIDE DEF q, r, k, ends, rec
<1>10. CASE accepts
  <2>1. PaneKeyFree(p) /\ outcome = "accepted"
    BY <1>1, <1>10
  <2>2. /\ Owed(p)' = (IF k = 0 THEN {} ELSE {k})
        /\ \A o \in Panes \ {p} : Owed(o)' = Owed(o)
        /\ \A t \in 1..nextToken' : SlotOf(t)'
    <3>1. /\ nextToken' = nextToken + 1 /\ owner' = Append(owner, rec)
          /\ pending' = pending \cup {nextToken + 1}
      BY <1>1, <1>10
    <3> QED BY <1>2, <1>4, <2>1, <3>1, Accept
  <2>3. Owed(p) = {}
    BY <2>1, NonePending
  <2>4. p \in open => Slots(r) = Owed(p)'
    BY <1>4, <1>6, <2>2, <2>3
  <2>5. CASE protocol = "kitty"
    <3>1. Flush(p, r)
      BY <1>1, <2>1, <2>5
    <3> QED BY <1>p, <1>1, <1>4, <1>6, <2>2, <2>4, <3>1, FlushStep
  <2>6. CASE protocol # "kitty"
    <3>1. replies' = [replies EXCEPT ![p] = r] /\ sent' = [sent EXCEPT ![p] = sent[p]]
      BY <1>1, <1>8, <2>6 DEF QInv, queues, q
    <3>2. HeadWaits(r) \/ (turn' = "feed" /\ turnPane' = p)
      BY <1>0, <1>1, <1>p
    <3> QED BY <1>p, <1>1, <1>4, <1>6, <2>2, <2>4, <3>1, <3>2, PaneStep
  <2> QED BY <2>5, <2>6
<1>11. CASE ~accepts
  <2>1. UNCHANGED <<nextToken, owner, pending>>
    BY <1>1, <1>11
  <2>2. /\ \A o : Owed(o)' = Owed(o)
        /\ \A t \in 1..nextToken' : SlotOf(t)'
    BY <2>1 DEF Owed, QInv, SlotOf
  <2>3. CASE protocol # "kitty"
    BY <1>1, <2>1, <2>3, QuietStep
  <2>4. CASE protocol = "kitty" /\ outcome = "accepted"
    <3>1. Flush(p, r) /\ Slots(r) = Slots(q)
      BY <1>1, <1>4, <1>9, <1>11, <2>4
    <3>2. p \in open => Slots(r) = Owed(p)'
      BY <1>6, <2>2, <3>1
    <3> QED BY <1>p, <1>1, <1>4, <1>6, <2>2, <3>1, <3>2, FlushStep
  <2>5. CASE protocol = "kitty" /\ outcome # "accepted"
    <3>1. Flush(p, ends) /\ Slots(ends) = Slots(q)
      BY <1>1, <1>4, <1>5, <1>7, <2>5
    <3>2. p \in open => Slots(ends) = Owed(p)'
      BY <1>6, <2>2, <3>1
    <3> QED BY <1>p, <1>1, <1>5, <1>6, <2>2, <3>1, <3>2, FlushStep
  <2> QED BY <2>3, <2>4, <2>5
<1> QED BY <1>10, <1>11

(* The decode that holds its pane's key is the only one the pane may owe. *)
LEMMA Settled ==
  ASSUME IInv, QInv, NEW p \in Panes, NEW t \in 1..nextToken, owner[t].pane = p,
         job[p].token = t, pending' = pending \ {t}, owner' = owner, nextToken' = nextToken
  PROVE  /\ Owed(p) = (IF t \in pending /\ owner[t].slot # 0 THEN {owner[t].slot} ELSE {})
         /\ Owed(p)' = {}
         /\ \A o \in Panes \ {p} : Owed(o)' = Owed(o)
         /\ \A x \in 1..nextToken' : SlotOf(x)'
         /\ owner[t].slot \in Nat /\ (owner[t].protocol # "kitty" => owner[t].slot = 0)
<1>1. \A x \in pending : owner[x].pane = p => x = t
  BY DEF IInv, KeyOfPending
<1>2. Owed(p) = (IF t \in pending /\ owner[t].slot # 0 THEN {owner[t].slot} ELSE {})
  <2>1. {x \in pending : owner[x].pane = p /\ owner[x].slot # 0}
          = IF t \in pending /\ owner[t].slot # 0 THEN {t} ELSE {}
    BY <1>1
  <2>2. CASE t \in pending /\ owner[t].slot # 0
    <3>1. {x \in pending : owner[x].pane = p /\ owner[x].slot # 0} = {t}
      BY <2>1, <2>2
    <3>2. {owner[x].slot : x \in {t}} = {owner[t].slot}
      OBVIOUS
    <3>3. Owed(p) = {owner[t].slot}
      BY Zenon, <3>1, <3>2 DEF Owed
    <3> QED BY <2>2, <3>3
  <2>3. CASE ~(t \in pending /\ owner[t].slot # 0)
    BY <2>1, <2>3 DEF Owed
  <2> QED BY <2>2, <2>3
<1>3. Owed(p)' = {}
  BY <1>1 DEF Owed
<1>4. ASSUME NEW o \in Panes \ {p} PROVE Owed(o)' = Owed(o)
  <2>1. {x \in pending' : owner'[x].pane = o /\ owner'[x].slot # 0}
          = {x \in pending : owner[x].pane = o /\ owner[x].slot # 0}
    OBVIOUS
  <2> QED BY Zenon, <2>1 DEF Owed
<1>5. \A x \in 1..nextToken' : SlotOf(x)'
  BY DEF QInv, SlotOf
<1>6. owner[t].slot \in Nat /\ (owner[t].protocol # "kitty" => owner[t].slot = 0)
  BY DEF QInv, SlotOf
<1> QED BY <1>2, <1>3, <1>4, <1>5, <1>6

(* A decode is settled with an answer, or where none is owed. *)
LEMMA SettleQueues ==
  ASSUME IInv, QInv, NEW p \in Panes, NEW t \in 1..nextToken, owner[t].pane = p,
         job[p].token = t, pending' = pending \ {t}, turn # "feed",
         UNCHANGED <<open, owner, nextToken, turn>>,
         \/ /\ p \in open => t \notin pending \/ owner[t].slot = 0
            /\ UNCHANGED queues
         \/ /\ p \in open /\ t \in pending
            /\ \E n \in Nat : Flush(p, CompleteImageReply(replies[p], owner[t].slot, n))
  PROVE  QInv'
<1>1. /\ Owed(p) = (IF t \in pending /\ owner[t].slot # 0 THEN {owner[t].slot} ELSE {})
      /\ Owed(p)' = {}
      /\ \A o \in Panes \ {p} : Owed(o)' = Owed(o)
      /\ \A x \in 1..nextToken' : SlotOf(x)'
      /\ owner[t].slot \in Nat
  BY Settled
<1>2. /\ Sound(replies[p]) /\ Written(sent[p], replies[p]) /\ HeadWaits(replies[p])
      /\ p \in open => Slots(replies[p]) = Owed(p)
  BY DEF QInv, Kept
<1>3. CASE (p \in open => t \notin pending \/ owner[t].slot = 0) /\ UNCHANGED queues
  <2>1. /\ replies' = [replies EXCEPT ![p] = replies[p]] /\ sent' = [sent EXCEPT ![p] = sent[p]]
    BY <1>3 DEF QInv, queues
  <2>2. p \in open => Slots(replies[p]) = Owed(p)'
    BY <1>1, <1>2, <1>3
  <2> QED BY <1>1, <1>2, <2>1, <2>2, PaneStep
<1>4. ASSUME p \in open, t \in pending, NEW n \in Nat,
             Flush(p, CompleteImageReply(replies[p], owner[t].slot, n))
      PROVE  QInv'
  <2> DEFINE q == CompleteImageReply(replies[p], owner[t].slot, n)
             k == owner[t].slot
  <2>1. Sound(q) /\ Slots(q) = Slots(replies[p]) \ {k} /\ Written(sent[p], q)
    BY <1>1, <1>2, CompleteSound
  <2>2. Slots(q) = Owed(p)'
    BY <1>1, <1>2, <1>4, <2>1
  <2> HIDE DEF q
  <2>3. Flush(p, q)
    BY <1>4 DEF q
  <2> QED BY <1>1, <2>1, <2>2, <2>3, FlushStep
<1> QED BY <1>3, <1>4

(* A completion that still counts is answered, unless nothing is owed. *)
LEMMA ApplyQueues ==
  ASSUME NEW p \in Panes, NEW result
  PROVE  IInv /\ QInv /\ ApplyCompletion(p, result) => QInv'
<1> SUFFICES ASSUME IInv, QInv, ApplyCompletion(p, result) PROVE QInv'
  OBVIOUS
<1> DEFINE code == Disposition(job[p].token, p, job[p].finishedAt, result)
<1>1. PICK t : t = job[p].token
  OBVIOUS
<1>2. /\ job[p] # NoJob /\ pending' = pending \ {t} /\ turn = "idle"
      /\ UNCHANGED <<open, owner, nextToken, turn>>
      /\ IF t \in pending /\ p \in open /\ owner[t].protocol = "kitty"
         THEN Flush(p, CompleteImageReply(replies[p], owner[t].slot, Encode(owner[t].quiet, code)))
         ELSE UNCHANGED queues
  BY <1>1 DEF ApplyCompletion, turnVars
<1>3. t \in 1..nextToken /\ owner[t].pane = p
  BY <1>1, <1>2 DEF IInv, Entries
<1>4. owner[t].protocol # "kitty" => owner[t].slot = 0
  BY <1>3 DEF QInv, SlotOf
<1>5. Encode(owner[t].quiet, code) \in Nat
  BY DEF Encode
<1> HIDE DEF code
<1> QED BY <1>1, <1>2, <1>3, <1>4, <1>5, SettleQueues

(* A decode that expires is answered with ETIME. *)
LEMMA ExpireQueues ==
  ASSUME NEW t \in todo
  PROVE  IInv /\ QInv /\ ExpireOne(t) => QInv'
<1> SUFFICES ASSUME IInv, QInv, ExpireOne(t) PROVE QInv'
  OBVIOUS
<1>1. /\ turn = "expire" /\ t \in pending /\ t \in 1..nextToken
      /\ UNCHANGED <<open, owner, nextToken, turn, turnPane>>
  BY DEF ExpireOne, panes, IInv, Listed, Typed
<1>2. CASE ~Expires(t)
  BY <1>1, <1>2, QuietStep DEF ExpireOne
<1>3. CASE Expires(t)
  <2>1. PICK p \in Panes : p = owner[t].pane
    BY <1>1 DEF IInv, Typed
  <2>2. job[p].token = t
    BY <1>1, <2>1 DEF IInv, KeyOfPending
  <2>3. pending' = pending \ {t}
    BY <1>3 DEF ExpireOne, Settle
  <2>4. IF p \in open /\ owner[t].slot # 0
        THEN Flush(p, CompleteImageReply(replies[p], owner[t].slot,
                                         Encode(owner[t].quiet, "timeout")))
        ELSE UNCHANGED queues
    BY <1>3, <2>1 DEF ExpireOne
  <2>5. Encode(owner[t].quiet, "timeout") \in Nat
    BY DEF Encode
  <2> QED BY <1>1, <2>1, <2>2, <2>3, <2>4, <2>5, SettleQueues
<1> QED BY <1>2, <1>3

(* A closed pane's queue is empty, and it is owed nothing. *)
LEMMA CloseQueues ==
  ASSUME QInv, turn = "idle", NEW ps \in SUBSET open, open' = open \ ps,
         replies' = [p \in Panes |-> IF p \in ps THEN ClearReplies(replies[p]) ELSE replies[p]],
         UNCHANGED <<sent, owner, nextToken, turn, turnPane>>,
         \A p \in open \ ps : Owed(p)' = Owed(p)
  PROVE  QInv'
<1>1. ASSUME NEW p \in Panes PROVE Kept(p)'
  <2>1. Kept(p)
    BY DEF QInv
  <2>2. Sound(ClearReplies(replies[p])) /\ HeadWaits(ClearReplies(replies[p]))
        /\ Written(sent[p], ClearReplies(replies[p]))
    BY <2>1, ClearSound DEF Kept
  <2>3. CASE p \in ps
    <3>1. replies'[p] = ClearReplies(replies[p]) /\ p \notin open'
      BY <2>3
    <3> QED BY <2>2, <3>1 DEF Kept
  <2>4. CASE p \notin ps
    <3>1. replies'[p] = replies[p] /\ (p \in open' => p \in open /\ Owed(p)' = Owed(p))
      BY <2>4
    <3> QED BY <2>1, <3>1 DEF Kept
  <2> QED BY <2>3, <2>4
<1> QED BY <1>1 DEF QInv, SlotOf

(* A closed pane forgets its replies; the others owe what they owed. *)
LEMMA ClosePaneQueues ==
  ASSUME NEW p \in Panes
  PROVE  QInv /\ ClosePane(p) => QInv'
<1> SUFFICES ASSUME QInv, ClosePane(p) PROVE QInv'
  OBVIOUS
<1>1. /\ turn = "idle" /\ p \in open /\ open' = open \ {p}
      /\ replies' = [replies EXCEPT ![p] = ClearReplies(@)]
      /\ UNCHANGED <<sent, owner, nextToken, turn, turnPane, pending>>
  BY DEF ClosePane, turnVars
<1>2. replies' = [o \in Panes |-> IF o \in {p} THEN ClearReplies(replies[o]) ELSE replies[o]]
  BY <1>1 DEF QInv
<1>3. \A o : Owed(o)' = Owed(o)
  BY <1>1 DEF Owed
<1>4. {p} \in SUBSET open
  BY <1>1
<1> QED BY <1>1, <1>2, <1>3, <1>4, CloseQueues

(* Nothing is owed once the mux is down. *)
LEMMA ShutdownQueues == QInv /\ Shutdown => QInv'
<1> SUFFICES ASSUME QInv, Shutdown PROVE QInv'
  OBVIOUS
<1>1. /\ turn = "idle" /\ open' = {} /\ replies' = [p \in Panes |-> ClearReplies(replies[p])]
      /\ UNCHANGED <<sent, owner, nextToken, turn, turnPane>>
  BY DEF Shutdown, turnVars
<1>2. ASSUME NEW p \in Panes PROVE Kept(p)'
  <2>1. Kept(p) /\ replies'[p] = ClearReplies(replies[p])
    BY <1>1 DEF QInv
  <2>2. /\ Sound(ClearReplies(replies[p])) /\ HeadWaits(ClearReplies(replies[p]))
        /\ Written(sent[p], ClearReplies(replies[p]))
    BY <2>1, ClearSound DEF Kept
  <2> QED BY <1>1, <2>1, <2>2 DEF Kept
<1> QED BY <1>1, <1>2 DEF QInv, SlotOf

(* Every step keeps every queue. *)
LEMMA NextQueues == IInv /\ QInv /\ [Next]_vars => QInv'
<1> SUFFICES ASSUME IInv, QInv, [Next]_vars PROVE QInv'
  OBVIOUS
<1>1. CASE UNCHANGED vars
  BY <1>1, QuietStep DEF vars, panes, turnVars
<1>2. CASE Tick
  BY <1>2, QuietStep DEF Tick, panes, turnVars
<1>3. ASSUME NEW p \in Panes, BeginFeed(p) PROVE QInv'
  BY <1>3, QuietStep DEF BeginFeed, panes
<1>4. ASSUME NEW p \in Panes, FinishJob(p) PROVE QInv'
  BY <1>4, QuietStep DEF FinishJob, panes, turnVars
<1>5. ASSUME NEW p \in Panes, Resize(p) PROVE QInv'
  BY <1>5, QuietStep DEF Resize, turnVars
<1>6. ASSUME NEW p \in Panes, ClosePane(p) PROVE QInv'
  BY <1>6, ClosePaneQueues
<1>7. CASE Feed
  <2>1. ASSUME NEW touches, EraseCells(touches) PROVE QInv'
    BY <2>1, QuietStep DEF EraseCells, turnVars
  <2>2. ASSUME NEW n \in ReplySizes, ParserReply(n) PROVE QInv'
    BY <2>2, ParserStep
  <2>3. ASSUME NEW n \in ReplySizes, NEW command, NEW c, KittyAnswer(n, command, c) PROVE QInv'
    <3>1. /\ turn = "feed" /\ Flush(turnPane, QueueReply(replies[turnPane], n))
          /\ UNCHANGED <<open, nextToken, owner, pending, turn, turnPane>>
      BY <2>3 DEF KittyAnswer, turnVars
    <3>2. turnPane \in Panes /\ n \in Nat
      BY <3>1, ReplyBounds DEF IInv, Typed
    <3>3. PICK p \in Panes : p = turnPane
      BY <3>2
    <3> QED BY <3>1, <3>2, <3>3, AnswerStep
  <2>4. ASSUME NEW protocol, NEW reply, NEW outcome, SubmitDecode(protocol, reply, outcome)
        PROVE  QInv'
    BY <2>4, SubmitQueues
  <2> QED BY <1>7, <2>1, <2>2, <2>3, <2>4 DEF Feed
<1>8. CASE EndFeed
  BY <1>8, EndFeedStep
<1>9. CASE Deliver
  BY <1>9, ApplyQueues DEF Deliver
<1>10. CASE Expire
  <2>1. CASE BeginExpiry
    BY <2>1, QuietStep DEF BeginExpiry, panes
  <2>2. ASSUME NEW p \in Panes, ExpireTransfer(p) PROVE QInv'
    <3>1. /\ Flush(p, QueueReply(replies[p], 1)) /\ 1 \in Nat
          /\ UNCHANGED <<open, nextToken, owner, pending, turn, turnPane>>
      BY <2>2 DEF ExpireTransfer, panes, turnVars
    <3> QED BY <3>1, AnswerStep
  <2>3. CASE BeginTokens
    BY <2>3, QuietStep DEF BeginTokens, panes
  <2>4. ASSUME NEW t \in todo, ExpireOne(t) PROVE QInv'
    BY <2>4, ExpireQueues
  <2>5. CASE EndExpiry
    BY <2>5, QuietStep DEF EndExpiry, panes
  <2> QED BY <1>10, <2>1, <2>2, <2>3, <2>4, <2>5 DEF Expire
<1>11. CASE Shutdown
  BY <1>11, ShutdownQueues
<1> QED
  BY <1>1, <1>2, <1>3, <1>4, <1>5, <1>6, <1>7, <1>8, <1>9, <1>10, <1>11 DEF Next

(* The invariant is at least RepliesKept: as a pane has at most one decode
   pending, one slot means one decode. *)
LEMMA KeptIsKept == IInv /\ QInv => RepliesKept
<1> SUFFICES ASSUME IInv, QInv PROVE RepliesKept
  OBVIOUS
<1>1. ASSUME NEW p \in Panes
      PROVE  Accounted(replies[p]) /\ Ordered(replies[p]) /\ Written(sent[p], replies[p])
             /\ (turn = "idle" => HeadWaits(replies[p]))
  BY DEF QInv, Kept, Sound
<1>2. ASSUME NEW p \in open
      PROVE  LET slots == {replies[p].entries[i].sequence :
                         i \in {i \in DOMAIN replies[p].entries : ~replies[p].entries[i].ready}}
                 mine == {t \in pending : owner[t].pane = p /\ owner[t].slot # 0}
             IN  /\ slots = {owner[t].slot : t \in mine}
                 /\ Cardinality(slots) = Cardinality(mine)
  <2> DEFINE slots == {replies[p].entries[i].sequence :
                         i \in {i \in DOMAIN replies[p].entries : ~replies[p].entries[i].ready}}
             mine == {t \in pending : owner[t].pane = p /\ owner[t].slot # 0}
  <2>1. slots = {owner[t].slot : t \in mine}
    <3>1. Slots(replies[p]) = Owed(p)
      BY DEF QInv, Kept
    <3> QED BY Zenon, <3>1 DEF Slots, Waiting, Owed
  <2>2. \A t, x \in mine : t = x
    BY DEF IInv, KeyOfPending
  <2>3. CASE mine = {}
    <3>1. slots = {}
      BY <2>1, <2>3
    <3> HIDE DEF slots, mine
    <3>2. Cardinality(slots) = Cardinality(mine)
      BY <2>3, <3>1
    <3> QED BY <2>1, <3>2 DEF slots, mine
  <2>4. CASE mine # {}
    <3>1. PICK t : t \in mine
      BY <2>4
    <3> HIDE DEF slots, mine
    <3>2. mine = {t} /\ slots = {owner[t].slot}
      BY <2>1, <2>2, <3>1
    <3>3. Cardinality({t}) = 1 /\ Cardinality({owner[t].slot}) = 1
      BY FS_Singleton
    <3>4. Cardinality(slots) = Cardinality(mine)
      BY Zenon, <3>2, <3>3
    <3> QED BY <2>1, <3>4 DEF slots, mine
  <2> QED BY <2>3, <2>4
<1>3. open \subseteq Panes
  BY DEF QInv
<1>4. RepliesAccounted
  BY Zenon, <1>1, <1>2 DEF RepliesAccounted
<1>5. RepliesInOrder
  BY <1>1 DEF RepliesInOrder, Written, HeadWaits
<1> QED BY <1>4, <1>5 DEF RepliesKept

(* What a pane is owed arrives, once and in the order of the commands: the   *)
(* counters of every queue are what its entries say, each slot that waits is *)
(* of exactly one pending decode of that pane and every pending decode's     *)
(* slot still waits, although decodes complete, fail, time out and lose      *)
(* their pane in any order (submitKittyDecodeScoped, applyKittyCompletion,   *)
(* applyImageExpiryOperation, closePane and reply_queue.go).                 *)
THEOREM RepliesNeverLost == Spec => []RepliesKept
<1>1. Init => IInv /\ QInv
  BY InitInv, InitQueues
<1>2. (IInv /\ QInv) /\ [Next]_vars => (IInv /\ QInv)'
  BY NextStep, NextQueues
<1>3. IInv /\ QInv => RepliesKept
  BY KeptIsKept
<1> QED BY <1>1, <1>2, <1>3, PTL DEF Spec
=============================================================================
