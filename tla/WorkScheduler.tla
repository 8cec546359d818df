---------------------------- MODULE WorkScheduler ----------------------------
(***************************************************************************)
(* internal/workscheduler/scheduler.go: a bounded queue of jobs, a fixed   *)
(* pool of workers, and a bounded list of results handed back to one       *)
(* consumer.  The mux builds it for image decoding, keyed by pane.         *)
(*                                                                         *)
(* One action is one critical section of Scheduler.mu, or one step outside *)
(* it that another goroutine could interleave with.  A goroutine parked in *)
(* sync.Cond.Wait has a pc of its own; Signal moves one parked goroutine   *)
(* back to its loop test, and is lost when nobody is parked.               *)
(***************************************************************************)
EXTENDS Naturals, Sequences, FiniteSets

CONSTANTS Works, Keys, KeyOf,
          Workers,          \* Options.Workers goroutines
          QueueCapacity,    \* Options.QueueCapacity, for the queue and the results
          NoWork

ASSUME WorkAssumption == /\ KeyOf \in [Works -> Keys]
                         /\ NoWork \notin Works
ASSUME CapacityAssumption == /\ QueueCapacity \in Nat \ {0}
                             /\ Workers # {}

VARIABLES queue,        \* Scheduler.queue
          active,       \* keys of Scheduler.active
          finished,     \* the active keys whose activeState.finishedAt is set
          closed,       \* Scheduler.closed
          results,      \* Scheduler.results
          resultReady,  \* a token is in the channel of capacity 1
          pc,           \* where each worker goroutine is
          holding,      \* the work a worker has taken
          consumer,     \* where the goroutine that drains Ready() is
          taken,        \* the completion it is applying
          closer,       \* where Close is
          closing,      \* the jobs or results Close still has to close
          fate,         \* history: what has become of each work
          ends          \* history: times its job or result was closed or delivered

sched == <<queue, active, finished, closed, results, resultReady>>
vars == <<queue, active, finished, closed, results, resultReady, pc, holding,
          consumer, taken, closer, closing, fate, ends>>

Elements(s) == {s[i] : i \in DOMAIN s}

Labels == {"take", "waitWork", "run", "publish", "waitSpace", "recheck", "wake", "exited"}
Fates == {"new", "accepted", "rejected", "delivered", "closed"}

(* The state is well formed. *)
TypeOK == /\ queue \in Seq(Works)
          /\ active \subseteq Keys
          /\ finished \subseteq active
          /\ closed \in BOOLEAN
          /\ results \in Seq(Works)
          /\ resultReady \in BOOLEAN
          /\ pc \in [Workers -> Labels]
          /\ holding \in [Workers -> Works \cup {NoWork}]
          /\ consumer \in {"idle", "received", "applying"}
          /\ taken \in Works \cup {NoWork}
          /\ closer \in {"open", "closeJobs", "closeResults", "done"}
          /\ closing \in Seq(Works)
          /\ fate \in [Works -> Fates]
          /\ ends \in [Works -> Nat]

Init == /\ queue = <<>> /\ active = {} /\ finished = {} /\ closed = FALSE
        /\ results = <<>> /\ resultReady = FALSE
        /\ pc = [p \in Workers |-> "take"]
        /\ holding = [p \in Workers |-> NoWork]
        /\ consumer = "idle" /\ taken = NoWork
        /\ closer = "open" /\ closing = <<>>
        /\ fate = [w \in Works |-> "new"]
        /\ ends = [w \in Works |-> 0]

-----------------------------------------------------------------------------
End(w, f) == /\ fate' = [fate EXCEPT ![w] = f]
             /\ ends' = [ends EXCEPT ![w] = @ + 1]

(* sync.Cond.Signal: one goroutine parked at `from` returns to its test *)
(* at `to`; nothing happens when none is parked.                        *)
Signal(from, to) ==
    IF \E p \in Workers : pc[p] = from
    THEN \E p \in Workers : /\ pc[p] = from
                            /\ pc' = [pc EXCEPT ![p] = to]
    ELSE pc' = pc

WakesNobody == pc' = pc                                           \* a mutant
WakeWorker == Signal("waitWork", "take")
WakePublisher == Signal("waitSpace", "recheck")

-----------------------------------------------------------------------------
(* Submit, on any goroutine. *)
AdmitsWhenClosed(w) == KeyOf[w] \notin active                     \* a mutant
Admits(w) == ~closed /\ KeyOf[w] \notin active

EnterStamped(k) == active' = active \cup {k} /\ finished' = finished \cup {k} \* a mutant
Enter(k) == active' = active \cup {k} /\ finished' = finished \ {k}

SubmitAccepted(w) ==
    /\ fate[w] = "new"
    /\ Admits(w)
    /\ Len(queue) < QueueCapacity
    /\ Enter(KeyOf[w])
    /\ queue' = Append(queue, w)
    /\ WakeWorker
    /\ fate' = [fate EXCEPT ![w] = "accepted"]
    /\ UNCHANGED <<closed, results, resultReady, holding, consumer,
                   taken, closer, closing, ends>>

(* ErrClosed, ErrOwnerActive or ErrQueueFull: Submit closes the job itself. *)
SubmitRejected(w) ==
    /\ fate[w] = "new"
    /\ ~Admits(w) \/ Len(queue) = QueueCapacity
    /\ End(w, "rejected")
    /\ UNCHANGED <<sched, pc, holding, consumer, taken, closer, closing>>

-----------------------------------------------------------------------------
(* The worker loop.  takeWork: *)
ExitOnClose(p) ==
    /\ pc[p] = "take"
    /\ closed
    /\ pc' = [pc EXCEPT ![p] = "exited"]
    /\ UNCHANGED <<sched, holding, consumer, taken, closer, closing, fate, ends>>

AwaitWork(p) ==
    /\ pc[p] = "take"
    /\ ~closed
    /\ queue = <<>>
    /\ pc' = [pc EXCEPT ![p] = "waitWork"]
    /\ UNCHANGED <<sched, holding, consumer, taken, closer, closing, fate, ends>>

TakeWork(p) ==
    /\ pc[p] = "take"
    /\ ~closed
    /\ queue # <<>>
    /\ queue' = Tail(queue)
    /\ holding' = [holding EXCEPT ![p] = Head(queue)]
    /\ pc' = [pc EXCEPT ![p] = "run"]
    /\ UNCHANGED <<active, finished, closed, results, resultReady, consumer,
                   taken, closer, closing, fate, ends>>

(* Job.Run returns, with a result whether or not the context was cancelled. *)
RunJob(p) ==
    /\ pc[p] = "run"
    /\ pc' = [pc EXCEPT ![p] = "publish"]
    /\ UNCHANGED <<sched, holding, consumer, taken, closer, closing, fate, ends>>

(* publishCompletion finds the scheduler closed, on entry or when it is *)
(* woken from the wait for space: the worker closes the result itself.  *)
DropResult(p) ==
    /\ pc[p] \in {"publish", "recheck"}
    /\ closed
    /\ End(holding[p], "closed")
    /\ holding' = [holding EXCEPT ![p] = NoWork]
    /\ pc' = [pc EXCEPT ![p] = "take"]
    /\ UNCHANGED <<sched, consumer, taken, closer, closing>>

(* The finish time is stamped once, on entry, before any wait for space. *)
StampsNever(p) == finished' = finished                            \* a mutant
Stamp(p) == finished' = IF pc[p] = "publish" /\ KeyOf[holding[p]] \in active
                        THEN finished \cup {KeyOf[holding[p]]}
                        ELSE finished

Room == Len(results) < QueueCapacity

AwaitSpace(p) ==
    /\ pc[p] \in {"publish", "recheck"}
    /\ ~closed
    /\ ~Room
    /\ Stamp(p)
    /\ pc' = [pc EXCEPT ![p] = "waitSpace"]
    /\ UNCHANGED <<queue, active, closed, results, resultReady, holding,
                   consumer, taken, closer, closing, fate, ends>>

Publish(p) ==
    /\ pc[p] \in {"publish", "recheck"}
    /\ ~closed
    /\ Room
    /\ Stamp(p)
    /\ results' = Append(results, holding[p])
    /\ resultReady' = TRUE
    /\ holding' = [holding EXCEPT ![p] = NoWork]
    /\ pc' = [pc EXCEPT ![p] = "wake"]
    /\ UNCHANGED <<queue, active, closed, consumer, taken, closer, closing, fate, ends>>

(* Options.Wake runs outside the lock; workers.Wait waits for it too. *)
WakeOwner(p) ==
    /\ pc[p] = "wake"
    /\ pc' = [pc EXCEPT ![p] = "take"]
    /\ UNCHANGED <<sched, holding, consumer, taken, closer, closing, fate, ends>>

-----------------------------------------------------------------------------
(* The consumer: the select on Ready(), TakeCompletion, then Finish once *)
(* the completion is applied.                                            *)
ReceiveReady ==
    /\ consumer = "idle"
    /\ resultReady
    /\ resultReady' = FALSE
    /\ consumer' = "received"
    /\ UNCHANGED <<queue, active, finished, closed, results, pc, holding, taken,
                   closer, closing, fate, ends>>

TakeNothing ==
    /\ consumer = "received"
    /\ results = <<>>
    /\ consumer' = "idle"
    /\ UNCHANGED <<sched, pc, holding, taken, closer, closing, fate, ends>>

RearmsNever == resultReady' = resultReady                         \* a mutant
Rearm == resultReady' = (resultReady \/ Len(results) > 1)

TakeCompletion ==
    /\ consumer = "received"
    /\ results # <<>>
    /\ taken' = Head(results)
    /\ results' = Tail(results)
    /\ WakePublisher
    /\ Rearm
    /\ consumer' = "applying"
    /\ End(Head(results), "delivered")
    /\ UNCHANGED <<queue, active, finished, closed, holding, closer, closing>>

Forget(ks) == active' = active \ ks /\ finished' = finished \ ks

Finish ==
    /\ consumer = "applying"
    /\ Forget({KeyOf[taken]})
    /\ consumer' = "idle"
    /\ taken' = NoWork
    /\ UNCHANGED <<queue, closed, results, resultReady, pc, holding, closer,
                   closing, fate, ends>>

-----------------------------------------------------------------------------
(* Close: its first critical section. *)
Broadcast == pc' = [p \in Workers |-> CASE pc[p] = "waitWork" -> "take"
                                        [] pc[p] = "waitSpace" -> "recheck"
                                        [] OTHER -> pc[p]]

NoJobs == <<>>                                                    \* a mutant
QueuedJobs == queue

CloseBegin ==
    /\ closer = "open"
    /\ closed' = TRUE
    /\ closing' = QueuedJobs
    /\ queue' = <<>>
    /\ Forget({KeyOf[w] : w \in Elements(queue)})
    /\ Broadcast
    /\ closer' = "closeJobs"
    /\ UNCHANGED <<results, resultReady, holding, consumer, taken, fate, ends>>

(* The loops that close the queued jobs, then the leftover results. *)
CloseOne ==
    /\ closing # <<>>
    /\ End(Head(closing), "closed")
    /\ closing' = Tail(closing)
    /\ UNCHANGED <<sched, pc, holding, consumer, taken, closer>>

(* workers.Wait returns, and the second critical section takes the results. *)
JoinsAtOnce == TRUE                                               \* a mutant
WorkersGone == \A p \in Workers : pc[p] = "exited"

JoinWorkers ==
    /\ closer = "closeJobs"
    /\ closing = <<>>
    /\ WorkersGone
    /\ closing' = results
    /\ results' = <<>>
    /\ closer' = "closeResults"
    /\ UNCHANGED <<queue, active, finished, closed, resultReady, pc, holding,
                   consumer, taken, fate, ends>>

CloseReturn ==
    /\ closer = "closeResults"
    /\ closing = <<>>
    /\ closer' = "done"
    /\ UNCHANGED <<sched, pc, holding, consumer, taken, closing, fate, ends>>

-----------------------------------------------------------------------------
Submit(w) == SubmitAccepted(w) \/ SubmitRejected(w)
Worker(p) == \/ ExitOnClose(p) \/ AwaitWork(p) \/ TakeWork(p) \/ RunJob(p)
             \/ DropResult(p) \/ AwaitSpace(p) \/ Publish(p) \/ WakeOwner(p)
Consumer == ReceiveReady \/ TakeNothing \/ TakeCompletion \/ Finish
CloseStep == CloseOne \/ JoinWorkers \/ CloseReturn

Next == \/ \E w \in Works : Submit(w)
        \/ \E p \in Workers : Worker(p)
        \/ Consumer
        \/ CloseBegin
        \/ CloseStep

Spec == Init /\ [][Next]_vars

(* A runnable worker is scheduled and Job.Run returns; the main loop keeps *)
(* draining (it sleeps at most maxWake); Close, once called, goes on.      *)
(* Nobody is obliged to call Submit or Close.                              *)
FairSpec == /\ Spec
            /\ \A p \in Workers : WF_vars(Worker(p))
            /\ WF_vars(Consumer)
            /\ WF_vars(CloseStep)

-----------------------------------------------------------------------------
(* Where a work can be between its acceptance and its end. *)
Held == {holding[p] : p \in Workers} \ {NoWork}
Applying == {taken} \ {NoWork}
Pending == Elements(queue) \cup Held \cup Elements(results) \cup Elements(closing)
Outstanding == Elements(queue) \cup Held \cup Elements(results) \cup Applying

(* Every job and every result is closed or delivered exactly once: none is *)
(* closed twice, none is dropped, whoever finds the scheduler closed first. *)
EndsOnce == \A w \in Works :
    /\ ends[w] = (IF fate[w] \in {"new", "accepted"} THEN 0 ELSE 1)
    /\ fate[w] = "accepted" <=> w \in Pending

(* One key has one work between Submit and Finish (ErrOwnerActive), through *)
(* the queue, a worker, the wait for space, the results and its delivery.   *)
OneWorkPerKey == \A v, w \in Outstanding : KeyOf[v] = KeyOf[w] => v = w

(* Neither slice outgrows the capacity New gave it. *)
WithinCapacity == Len(queue) <= QueueCapacity /\ Len(results) <= QueueCapacity

(* The token in resultReady is lossy, yet a result never waits unannounced. *)
ResultsAnnounced == results # <<>> => resultReady \/ consumer = "received"

(* Signal wakes one goroutine and is lost on none: still, no worker sleeps  *)
(* while there is more work, or more space, than awake workers will take.   *)
NoLostSignal ==
    LET At(l) == {p \in Workers : pc[p] = l} IN
    /\ At("waitWork") # {} => Len(queue) <= Cardinality(At("take"))
    /\ At("waitSpace") # {} =>
          QueueCapacity - Len(results) <= Cardinality(At("recheck"))

(* CompletionTime answers for the work in progress, never for an earlier   *)
(* one of the same key, and it does answer for every result that waits:    *)
(* the expiry of a decode trusts both.                                     *)
StampIsCurrent == ~closed =>
    /\ \A k \in finished : \E w \in Outstanding :
          /\ KeyOf[w] = k
          /\ w \notin Elements(queue)
          /\ \A p \in Workers : holding[p] = w => pc[p] \in {"waitSpace", "recheck"}
    /\ \A w \in Elements(results) : KeyOf[w] \in finished

(* When Close returns, nothing is left behind and no goroutine is alive. *)
QuietAfterClose == closer = "done" =>
    /\ \A p \in Workers : pc[p] = "exited"
    /\ \A w \in Works : fate[w] # "accepted"

(* An accepted work is eventually delivered or closed, and Close returns:  *)
(* no worker is left parked on a condition.                                *)
WorkEnds ==
    /\ \A w \in Works : (fate[w] = "accepted") ~> (fate[w] # "accepted")
    /\ (closer = "closeJobs") ~> (closer = "done")

Ledger == INSTANCE WorkLedger WITH busy <- active, shut <- closed
(* The scheduler keeps the promise stated in WorkLedger. *)
ImplementsLedger == Ledger!Spec
=============================================================================
