----------------------------- MODULE ImageReplies -----------------------------
(***************************************************************************)
(* How the mux answers image commands (internal/mux/mux_kitty.go and       *)
(* mux_sixel.go): a command reserves its place in the pane's replies, its  *)
(* decode runs on the shared scheduler, and its answer comes from whoever  *)
(* is first of the completion, the 250 ms acceptance deadline, the pane's  *)
(* close and the shutdown.                                                 *)
(*                                                                         *)
(* The mux owner is one thread: `turn` says which of its operations is in  *)
(* progress.  Workers finish, and time passes, between any two steps.  The *)
(* scheduler is the one of WorkLedger: `job` is the work that holds the    *)
(* pane's key, with the finish time CompletionTime reports.                *)
(***************************************************************************)
EXTENDS ReplyQueue, FiniteSets

CONSTANTS Panes, NoPane,
          Protocols,      \* a subset of {"kitty", "sixel"}; iTerm is as sixel
          ReplySizes,     \* lengths of the replies that are known at once
          Deadline,       \* HardAcceptanceDeadline
          MaxTime, MaxToken, MaxSequence, MaxGeneration   \* bounds of the instance

ASSUME ReplyBounds == /\ {Deadline, MaxTime, MaxToken, MaxSequence, MaxGeneration} \subseteq Nat
                      /\ ReplySizes \subseteq Nat
                      /\ NoPane \notin Panes
                      /\ Protocols \subseteq {"kitty", "sixel"}

Tokens == 1..MaxToken
None == "none"

VARIABLES up,          \* the mux is not shut down
          clock,
          open,        \* panes in the registry
          replies,     \* pane.replies
          generation,  \* Terminal.ImageGeneration
          captured,    \* pane.snapshot.ImageGeneration, as of the last capture
          anchor,      \* ImageAnchorGeneration and reflowGen
          nextToken,
          owner,       \* what the owner recorded about each submitted decode
          pending,     \* kittyPending and sixelPending
          job,         \* the scheduler's active entry of each pane
          turn, turnPane, now, todo,
          sent,        \* history: sequence numbers written to each session
          verdict,     \* history: how each decode ended
          stamp        \* history: when its worker finished

queues == <<replies, sent>>
panes == <<open, generation, captured, anchor>>
turnVars == <<turn, turnPane, now, todo>>
history == <<verdict, stamp>>
vars == <<up, clock, panes, queues, nextToken, owner, pending, job, turnVars, history>>

NoJob == [token |-> 0, finishedAt |-> 0]
Never == MaxTime + 1     \* activeState.finishedAt is zero: not finished yet

Verdicts == {None, "ok", "failed", "cancelled", "timeout", "dropped"}

Owners == [pane : Panes, protocol : Protocols, slot : Nat, quiet : BOOLEAN,
           generation : Nat, anchor : Nat, seen : Nat, acceptUntil : Nat]

(* The state is well formed. *)
TypeOK == /\ up \in BOOLEAN
          /\ clock \in 0..MaxTime
          /\ open \subseteq Panes
          /\ replies \in [Panes -> ReplyQueues]
          /\ generation \in [Panes -> Nat] /\ captured \in [Panes -> Nat]
          /\ anchor \in [Panes -> Nat]
          /\ nextToken \in 0..MaxToken
          /\ DOMAIN owner = 1..nextToken /\ \A t \in DOMAIN owner : owner[t] \in Owners
          /\ pending \subseteq DOMAIN owner
          /\ job \in [Panes -> [token : 0..MaxToken, finishedAt : 0..Never]]
          /\ turn \in {"idle", "feed", "transfers", "expire"}
          /\ turnPane \in Panes \cup {NoPane}
          /\ now \in 0..MaxTime
          /\ todo \subseteq DOMAIN owner
          /\ sent \in [Panes -> Seq(Nat)]
          /\ verdict \in [Tokens -> Verdicts]
          /\ stamp \in [Tokens -> 0..Never]

Init == /\ up = TRUE /\ clock = 0 /\ open = Panes
        /\ replies = [p \in Panes |-> EmptyQueue]
        /\ generation = [p \in Panes |-> 0] /\ captured = [p \in Panes |-> 0]
        /\ anchor = [p \in Panes |-> 0]
        /\ nextToken = 0 /\ owner = <<>> /\ pending = {}
        /\ job = [p \in Panes |-> NoJob]
        /\ turn = "idle" /\ turnPane = NoPane /\ now = 0 /\ todo = {}
        /\ sent = [p \in Panes |-> <<>>]
        /\ verdict = [t \in Tokens |-> None]
        /\ stamp = [t \in Tokens |-> Never]

-----------------------------------------------------------------------------
Tick == /\ clock < MaxTime
        /\ clock' = clock + 1
        /\ UNCHANGED <<up, panes, queues, nextToken, owner, pending, job, turnVars, history>>

(* ReplyPlan.Encode: one byte stands for an encoded answer; "quiet" plans *)
(* (q=1) encode no success.                                               *)
Encode(quiet, code) == IF quiet /\ code = "ok" THEN 0 ELSE 1

FlushForgotten(p, q) == /\ replies' = [replies EXCEPT ![p] = q]   \* a mutant
                        /\ UNCHANGED sent
Flush(p, q) == /\ replies' = [replies EXCEPT ![p] = FlushReplies(q)]
               /\ sent' = [sent EXCEPT ![p] = @ \o Flushed(q)]

-----------------------------------------------------------------------------
(* advancePaneScoped: the parser runs over a chunk, calling the sinks as it *)
(* meets commands, and the replies that are ready are written at the end.   *)
BeginFeed(p) ==
    /\ up /\ turn = "idle" /\ p \in open
    /\ turn' = "feed" /\ turnPane' = p
    /\ UNCHANGED <<up, clock, panes, queues, nextToken, owner, pending, job, now, todo, history>>

(* Text that erases cells moves the anchor generation, and that of the    *)
(* images when it touches one; the snapshot sees it at the next capture.   *)
EraseCells(touches) ==
    /\ turn = "feed"
    /\ anchor[turnPane] < MaxGeneration
    /\ anchor' = [anchor EXCEPT ![turnPane] = @ + 1]
    /\ touches => generation[turnPane] \in 1..(MaxGeneration - 1)
    /\ generation' = [generation EXCEPT ![turnPane] = IF touches THEN @ + 1 ELSE @]
    /\ UNCHANGED <<up, clock, open, captured, queues, nextToken, owner, pending, job,
                   turnVars, history>>

(* Parser.Reply: a report the terminal answers by itself. *)
ParserReply(n) ==
    /\ turn = "feed"
    /\ replies[turnPane].next < MaxSequence
    /\ replies' = [replies EXCEPT ![turnPane] = QueueReply(@, n)]
    /\ UNCHANGED <<up, clock, panes, sent, nextToken, owner, pending, job, turnVars, history>>

(* dispatchKittyOperation for a failure, a delete or a placement: it is    *)
(* answered at once, and ends in a flush.  Delete and place also capture.  *)
KittyAnswer(n, command, changes) ==
    /\ turn = "feed" /\ "kitty" \in Protocols
    /\ replies[turnPane].next < MaxSequence
    /\ Flush(turnPane, QueueReply(replies[turnPane], n))
    /\ changes => /\ command # "failure"
                  /\ generation[turnPane] \in 1..(MaxGeneration - 1)
    /\ generation' = [generation EXCEPT ![turnPane] = IF changes THEN @ + 1 ELSE @]
    /\ captured' = [captured EXCEPT ![turnPane] =
                       IF command # "failure" THEN generation'[turnPane] ELSE @]
    /\ UNCHANGED <<up, clock, open, anchor, nextToken, owner, pending, job, turnVars, history>>

CaptureGeneration(protocol) ==
    IF protocol = "kitty" THEN captured[turnPane] ELSE generation[turnPane]

FreePane(p) == TRUE                                               \* a mutant
PaneKeyFree(p) == job[p] = NoJob

(* submitKittyDecodeScoped and submitSixelDecodeScoped.  `reply` is the    *)
(* command's quiet level; `outcome` is what NewDecodeJob and Submit say.    *)
SubmitDecode(protocol, reply, outcome) ==
    LET p == turnPane
        wants == protocol = "kitty" /\ reply # "all"
        slot == IF wants THEN ReserveSlot(replies[p]) ELSE 0
        reserved == IF wants THEN ReserveImageReply(replies[p]) ELSE replies[p]
        quiet == reply = "errors"
    IN
    /\ turn = "feed"
    /\ nextToken < MaxToken
    /\ clock + Deadline < MaxTime
    /\ wants => replies[p].next < MaxSequence
    /\ outcome = "accepted" => PaneKeyFree(p)
    /\ protocol = "sixel" => reply = "all"
    /\ IF outcome = "accepted" /\ (wants => slot # 0)
       THEN /\ nextToken' = nextToken + 1
            /\ owner' = Append(owner,
                    [pane |-> p, protocol |-> protocol, slot |-> slot, quiet |-> quiet,
                     generation |-> CaptureGeneration(protocol), anchor |-> anchor[p],
                     seen |-> generation[p], acceptUntil |-> clock + Deadline])
            /\ pending' = pending \cup {nextToken + 1}
            /\ job' = [job EXCEPT ![p] = [token |-> nextToken + 1, finishedAt |-> Never]]
       ELSE UNCHANGED <<nextToken, owner, pending, job>>
    /\ IF protocol = "kitty"
       THEN Flush(p, IF outcome = "accepted" THEN reserved
                     ELSE CompleteImageReply(reserved, slot, Encode(quiet, outcome)))
       ELSE UNCHANGED queues
    /\ UNCHANGED <<up, clock, panes, turnVars, history>>

EndFeed ==
    /\ turn = "feed"
    /\ Flush(turnPane, replies[turnPane])
    /\ captured' = [captured EXCEPT ![turnPane] = generation[turnPane]]
    /\ turn' = "idle" /\ turnPane' = NoPane
    /\ UNCHANGED <<up, clock, open, generation, anchor, nextToken, owner, pending, job,
                   now, todo, history>>

-----------------------------------------------------------------------------
(* A worker ends Job.Run and publishCompletion stamps the time. *)
FinishJob(p) ==
    /\ job[p] # NoJob
    /\ job[p].finishedAt = Never
    /\ job' = [job EXCEPT ![p].finishedAt = clock]
    /\ stamp' = [stamp EXCEPT ![job[p].token] = clock]
    /\ UNCHANGED <<up, clock, panes, queues, nextToken, owner, pending, turnVars, verdict>>

AcceptsAtDeadline(t, at) == at <= owner[t].acceptUntil            \* a mutant
InTime(t, at) == at < owner[t].acceptUntil

Unchanged(t, p) ==
    /\ owner[t].anchor = anchor[p]
    /\ owner[t].generation = IF owner[t].protocol = "kitty" THEN captured[p] ELSE generation[p]

(* What the owner decides of a completion that is still pending.  `result`  *)
(* says that the decode failed, answers a query, or holds a candidate that  *)
(* core.Terminal.CommitImage publishes or refuses.                          *)
Disposition(t, p, at, result) ==
    IF p \notin open THEN "dropped"
    ELSE IF result = "broken" THEN "failed"
    ELSE IF ~(InTime(t, at) /\ Unchanged(t, p)) THEN "cancelled"
    ELSE IF result = "refused" THEN "failed" ELSE "ok"

SettleLater(t) == UNCHANGED pending                               \* a mutant
Settle(t) == pending' = pending \ {t}

(* drain takes a completion and applies it; Finish releases the pane's key. *)
ApplyCompletion(p, result) ==
    LET t == job[p].token
        code == Disposition(t, p, job[p].finishedAt, result)
        live == t \in pending
    IN
    /\ up /\ turn = "idle"
    /\ job[p] # NoJob /\ job[p].finishedAt # Never
    /\ job' = [job EXCEPT ![p] = NoJob]
    /\ result = "query" => owner[t].protocol = "kitty"
    /\ pending' = pending \ {t}
    /\ verdict' = [verdict EXCEPT ![t] = IF live THEN code ELSE @]
    /\ IF live /\ code = "ok" /\ result = "committed"
       THEN /\ generation[p] < MaxGeneration
            /\ generation' = [generation EXCEPT ![p] = @ + 1]
       ELSE UNCHANGED generation
    /\ captured' = [captured EXCEPT ![p] =
            IF live /\ p \in open /\ (owner[t].protocol = "kitty" \/ code = "ok")
            THEN generation'[p] ELSE @]
    /\ IF live /\ p \in open /\ owner[t].protocol = "kitty"
       THEN Flush(p, CompleteImageReply(replies[p], owner[t].slot, Encode(owner[t].quiet, code)))
       ELSE UNCHANGED queues
    /\ UNCHANGED <<up, clock, open, anchor, nextToken, owner, turnVars, stamp>>

-----------------------------------------------------------------------------
(* applyImageExpiryOperation: the time is read once, before the loops over *)
(* the pending decodes; completionTime takes the scheduler's lock for each. *)
BeginExpiry ==
    /\ up /\ turn = "idle"
    /\ turn' = "transfers" /\ now' = clock
    /\ UNCHANGED <<up, clock, panes, queues, nextToken, owner, pending, job, turnPane, todo, history>>

(* A pane's adapter gives up a transfer that outlived its deadline. *)
ExpireTransfer(p) ==
    /\ turn = "transfers" /\ p \in open /\ "kitty" \in Protocols
    /\ replies[p].next < MaxSequence
    /\ Flush(p, QueueReply(replies[p], 1))
    /\ UNCHANGED <<up, clock, panes, nextToken, owner, pending, job, turnVars, history>>

BeginTokens ==
    /\ turn = "transfers"
    /\ turn' = "expire" /\ todo' = pending
    /\ UNCHANGED <<up, clock, panes, queues, nextToken, owner, pending, job, turnPane, now, history>>

(* imageCompletionBefore: the scheduler answers for the pane, not the token. *)
CompletionBefore(t) ==
    LET j == job[owner[t].pane] IN j # NoJob /\ j.finishedAt < owner[t].acceptUntil

ExpiresFinished(t) ==                                             \* a mutant
    now >= owner[t].acceptUntil /\ job[owner[t].pane].finishedAt # Never
Expires(t) == now >= owner[t].acceptUntil /\ ~CompletionBefore(t)

ExpireOne(t) ==
    LET p == owner[t].pane IN
    /\ turn = "expire" /\ t \in todo
    /\ todo' = todo \ {t}
    /\ IF Expires(t)
       THEN /\ Settle(t)
            /\ verdict' = [verdict EXCEPT ![t] = "timeout"]
            /\ IF p \in open /\ owner[t].slot # 0
               THEN Flush(p, CompleteImageReply(replies[p], owner[t].slot,
                                                Encode(owner[t].quiet, "timeout")))
               ELSE UNCHANGED queues
       ELSE UNCHANGED <<pending, verdict, queues>>
    /\ UNCHANGED <<up, clock, panes, nextToken, owner, job, turn, turnPane, now, stamp>>

EndExpiry ==
    /\ turn = "expire" /\ todo = {}
    /\ turn' = "idle" /\ now' = 0
    /\ UNCHANGED <<up, clock, panes, queues, nextToken, owner, pending, job, turnPane,
                   todo, history>>

-----------------------------------------------------------------------------
(* A reflow moves anchors; the projection is captured afterwards. *)
Reflow(ps) ==
    /\ \A p \in ps : anchor[p] < MaxGeneration
    /\ anchor' = [p \in Panes |-> IF p \in ps THEN anchor[p] + 1 ELSE anchor[p]]
    /\ captured' = [p \in Panes |-> IF p \in ps THEN generation[p] ELSE captured[p]]

Resize(p) ==
    /\ up /\ turn = "idle" /\ p \in open
    /\ Reflow({p})
    /\ UNCHANGED <<up, clock, open, generation, queues, nextToken, owner, pending, job,
                   turnVars, history>>

(* closePane clears the replies and lays the window out again, which reflows *)
(* some of the others; a decode under way stays pending.                     *)
ClosePane(p) ==
    /\ up /\ turn = "idle" /\ p \in open
    /\ open' = open \ {p}
    /\ replies' = [replies EXCEPT ![p] = ClearReplies(@)]
    /\ \E ps \in SUBSET (open \ {p}) : Reflow(ps)
    /\ UNCHANGED <<up, clock, generation, sent, nextToken, owner, pending, job,
                   turnVars, history>>

(* shutdown closes the scheduler, forgets what is pending and closes panes. *)
Shutdown ==
    /\ up /\ turn = "idle"
    /\ up' = FALSE
    /\ job' = [p \in Panes |-> NoJob]
    /\ pending' = {}
    /\ open' = {}
    /\ replies' = [p \in Panes |-> ClearReplies(replies[p])]
    /\ UNCHANGED <<clock, generation, captured, anchor, sent, nextToken, owner, turnVars, history>>

-----------------------------------------------------------------------------
Feed == \/ \E touches \in BOOLEAN : EraseCells(touches)
        \/ \E n \in ReplySizes : ParserReply(n)
        \/ \E n \in ReplySizes, c \in BOOLEAN, command \in {"failure", "deleteOrPlace"} :
              KittyAnswer(n, command, c)
        \/ \E protocol \in Protocols, reply \in {"answer", "errors", "all"},
              outcome \in {"accepted", "limit", "invalid"} :
              SubmitDecode(protocol, reply, outcome)

Deliver == \E p \in Panes, r \in {"broken", "query", "committed", "refused"} :
              ApplyCompletion(p, r)
Expire == \/ BeginExpiry \/ (\E p \in Panes : ExpireTransfer(p)) \/ BeginTokens
          \/ (\E t \in todo : ExpireOne(t)) \/ EndExpiry

Next == \/ Tick
        \/ \E p \in Panes : BeginFeed(p) \/ FinishJob(p) \/ Resize(p) \/ ClosePane(p)
        \/ Feed \/ EndFeed \/ Deliver \/ Expire \/ Shutdown

Spec == Init /\ [][Next]_vars

(* Time passes; the owner ends what it began and its main loop drains, that *)
(* is expires and takes completions, again and again: it sleeps no longer   *)
(* than NextImageDeadline.  A worker may never end its decode.              *)
FairSpec == /\ Spec
            /\ WF_vars(Tick) /\ WF_vars(EndFeed)
            /\ WF_vars(BeginTokens) /\ WF_vars(\E t \in todo : ExpireOne(t)) /\ WF_vars(EndExpiry)
            /\ SF_vars(BeginExpiry) /\ SF_vars(Deliver)

-----------------------------------------------------------------------------
(* The counters of every pane's queue agree with its entries and stay under *)
(* the hard bound, so that no unsigned subtraction wraps.  A slot that      *)
(* waits at an open pane belongs to exactly one pending decode, and a       *)
(* pending decode's slot still waits: nothing else will complete it, and a  *)
(* slot nobody owns would hold back every later reply for good.             *)
RepliesAccounted ==
    /\ \A p \in Panes : Accounted(replies[p])
    /\ \A p \in open :
        LET slots == {replies[p].entries[i].sequence :
                         i \in {i \in DOMAIN replies[p].entries : ~replies[p].entries[i].ready}}
            mine == {t \in pending : owner[t].pane = p /\ owner[t].slot # 0}
        IN  /\ slots = {owner[t].slot : t \in mine}
            /\ Cardinality(slots) = Cardinality(mine)

(* Replies are written in the order of the commands they answer, each once, *)
(* although decodes complete and time out in any order; and whenever the    *)
(* owner returns to its loop, no reply is held back by anything but a slot  *)
(* that waits.                                                              *)
RepliesInOrder == \A p \in Panes :
    /\ Ordered(replies[p])
    /\ turn = "idle" => replies[p].entries = <<>> \/ ~replies[p].entries[1].ready
    /\ \A i, j \in DOMAIN sent[p] : i < j => sent[p][i] < sent[p][j]
    /\ \A i \in DOMAIN sent[p], j \in DOMAIN replies[p].entries :
          sent[p][i] < replies[p].entries[j].sequence

(* What a pane is owed arrives: both of the above.                           *)
RepliesKept == RepliesAccounted /\ RepliesInOrder

(* The scheduler's entry of a pane is the one of its pending decode: the      *)
(* completion time the expiry reads by pane is that of the token it expires.  *)
KeyOfPending == \A t \in pending : job[owner[t].pane].token = t

(* The worker's stamp, the completion and the expiry agree on what was in    *)
(* time: no success after the deadline, and no ETIME for a decode that ended *)
(* before it, even when the expiry looks before the completion is delivered. *)
DeadlineAgreed == \A t \in DOMAIN owner :
    /\ verdict[t] = "ok" => stamp[t] < owner[t].acceptUntil
    /\ verdict[t] = "timeout" => stamp[t] >= owner[t].acceptUntil

(* A decode is disposed of once: a late completion never revises a timeout. *)
VerdictFinal ==
    [][\A t \in Tokens : verdict[t] # None => verdict'[t] = verdict[t]]_vars

(* docs/architecture.md:142: "The owner captures ... generations ... at frame *)
(* termination": a decode that ended well and in time is cancelled only when  *)
(* its pane changed after the frame.                                          *)
CancelsOnlyStale ==
    [][\A t \in pending : verdict'[t] = "cancelled" =>
          \/ ~InTime(t, stamp[t])
          \/ owner[t].seen # generation[owner[t].pane]
          \/ owner[t].anchor # anchor[owner[t].pane]]_vars

(* Every decode is eventually disposed of, even if its worker never ends,   *)
(* and no slot holds back the replies of a pane for ever.                   *)
DecodesSettle ==
    /\ \A t \in Tokens : (t \in pending) ~> (t \notin pending)
    /\ \A p \in Panes :
        (replies[p].entries # <<>>) ~> (replies[p].entries = <<>>)

=============================================================================
