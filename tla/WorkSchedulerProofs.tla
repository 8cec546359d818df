------------------------- MODULE WorkSchedulerProofs -------------------------
(***************************************************************************)
(* For any number of workers, works and keys and any capacity: the type    *)
(* invariant of WorkScheduler, the safety invariants about the ownership   *)
(* of jobs and results, and the refinement of WorkLedger.                  *)
(*                                                                         *)
(* EndsOnce and OneWorkPerKey are not inductive alone.  IInv adds that the *)
(* places a work can be in are disjoint and hold it once, that a work in   *)
(* progress keeps its key active, and how the program counters relate to   *)
(* what they hold.  StampIsCurrent needs StampInv (a worker that waits for *)
(* space has stamped its key) and NoLostSignal needs SignalInv (which adds *)
(* that nobody sleeps once the scheduler is closed).                       *)
(***************************************************************************)
EXTENDS WorkScheduler, FiniteSetTheorems, TLAPS

Once(s) == \A i, j \in DOMAIN s : s[i] = s[j] => i = j

(* What the program counters say about the variables they guard. *)
Shape == /\ \A p \in Workers : holding[p] # NoWork <=>
                                  pc[p] \in {"run", "publish", "waitSpace", "recheck"}
         /\ taken # NoWork <=> consumer = "applying"
         /\ closed <=> closer # "open"
         /\ closed => queue = <<>>
         /\ closer = "open" => closing = <<>>
         /\ closer = "done" => closing = <<>>
         /\ closer \in {"closeResults", "done"} =>
               results = <<>> /\ \A p \in Workers : pc[p] = "exited"

(* A work is in one place, and once in it. *)
Apart == /\ Once(queue) /\ Once(results) /\ Once(closing)
         /\ \A w \in Elements(queue) : w \notin Elements(results) \cup Elements(closing)
         /\ \A w \in Elements(results) : w \notin Elements(closing)
         /\ \A p \in Workers : holding[p] \notin
               Elements(queue) \cup Elements(results) \cup Elements(closing)
         /\ \A p, q \in Workers : holding[p] = holding[q] /\ holding[p] # NoWork => p = q

KeysActive == \A w \in Outstanding : KeyOf[w] \in active
TakenDelivered == taken # NoWork => fate[taken] = "delivered"

IInv == /\ TypeOK /\ Shape /\ Apart
        /\ EndsOnce /\ KeysActive /\ OneWorkPerKey /\ TakenDelivered

-----------------------------------------------------------------------------
(* What the queue operations do to the elements of a sequence. *)
LEMMA EmptyElements == Elements(<<>>) = {} /\ Once(<<>>)
  BY DEF Elements, Once

LEMMA AppendElements ==
  ASSUME NEW S, NEW s \in Seq(S), NEW e \in S
  PROVE  /\ Append(s, e) \in Seq(S)
         /\ Len(Append(s, e)) = Len(s) + 1
         /\ Elements(Append(s, e)) = Elements(s) \cup {e}
         /\ Once(s) /\ e \notin Elements(s) => Once(Append(s, e))
<1> DEFINE t == Append(s, e)
<1>1. /\ t \in Seq(S) /\ Len(t) = Len(s) + 1 /\ DOMAIN t = 1..(Len(s) + 1)
      /\ \A i \in DOMAIN s : i \in DOMAIN t /\ t[i] = s[i]
      /\ t[Len(s) + 1] = e /\ Len(s) \in Nat /\ DOMAIN s = 1..Len(s)
  OBVIOUS
<1>2. Elements(t) = Elements(s) \cup {e}
  BY <1>1 DEF Elements
<1>3. Once(s) /\ e \notin Elements(s) => Once(t)
  BY <1>1 DEF Elements, Once
<1> QED BY <1>1, <1>2, <1>3

LEMMA TailElements ==
  ASSUME NEW S, NEW s \in Seq(S), s # <<>>
  PROVE  /\ Tail(s) \in Seq(S) /\ Head(s) \in S /\ Head(s) \in Elements(s)
         /\ Len(Tail(s)) = Len(s) - 1
         /\ Elements(s) = Elements(Tail(s)) \cup {Head(s)}
         /\ Once(s) => Once(Tail(s)) /\ Head(s) \notin Elements(Tail(s))
<1> DEFINE t == Tail(s)
<1>1. /\ t \in Seq(S) /\ Head(s) = s[1] /\ Head(s) \in S
      /\ Len(s) \in Nat /\ Len(s) >= 1 /\ Len(t) = Len(s) - 1
      /\ DOMAIN s = 1..Len(s) /\ DOMAIN t = 1..(Len(s) - 1)
      /\ \A i \in DOMAIN t : i + 1 \in DOMAIN s /\ t[i] = s[i + 1]
  OBVIOUS
<1>2. \A i \in DOMAIN s : i = 1 \/ (i - 1 \in DOMAIN t /\ t[i - 1] = s[i])
  BY <1>1
<1>3. Elements(s) = Elements(t) \cup {Head(s)}
  <2>1. Elements(s) \subseteq Elements(t) \cup {Head(s)}
    <3> SUFFICES ASSUME NEW i \in DOMAIN s PROVE s[i] \in Elements(t) \cup {Head(s)}
      BY DEF Elements
    <3> QED BY <1>1, <1>2 DEF Elements
  <2>2. Elements(t) \cup {Head(s)} \subseteq Elements(s)
    BY <1>1 DEF Elements
  <2> QED BY <2>1, <2>2
<1>4. Once(s) => Once(t) /\ Head(s) \notin Elements(t)
  BY <1>1 DEF Elements, Once
<1> QED BY <1>1, <1>3, <1>4

LEMMA ElementsIn ==
  ASSUME NEW S, NEW s \in Seq(S)
  PROVE  /\ Elements(s) \subseteq S
         /\ Len(s) \in Nat
         /\ s = <<>> <=> Len(s) = 0
         /\ s = <<>> <=> Elements(s) = {}
  BY DEF Elements

-----------------------------------------------------------------------------
LEMMA InitIInv == Init => IInv
<1> SUFFICES ASSUME Init PROVE IInv
  OBVIOUS
<1>1. TypeOK
  <2>1. <<>> \in Seq(Works)
    OBVIOUS
  <2> QED BY <2>1 DEF Init, TypeOK, Labels, Fates
<1>2. /\ Elements(queue) = {} /\ Elements(results) = {} /\ Elements(closing) = {}
      /\ Once(queue) /\ Once(results) /\ Once(closing) /\ Held = {} /\ Applying = {}
  BY EmptyElements DEF Init, Held, Applying
<1>3. Shape /\ TakenDelivered
  BY DEF Init, Shape, TakenDelivered
<1>4. Apart
  BY <1>2 DEF Init, Apart
<1>5. EndsOnce /\ KeysActive /\ OneWorkPerKey
  BY <1>2 DEF Init, EndsOnce, KeysActive, OneWorkPerKey, Pending, Outstanding
<1> QED BY <1>1, <1>3, <1>4, <1>5 DEF IInv

(* Steps that move a program counter and no work. *)
Places == <<queue, results, closing, holding, taken, fate, ends>>

LEMMA PlacesUnchanged ==
  ASSUME IInv, UNCHANGED Places, active' = active
  PROVE  Apart' /\ EndsOnce' /\ KeysActive' /\ OneWorkPerKey' /\ TakenDelivered'
BY DEF IInv, Places, Apart, Once, Elements, EndsOnce, Pending, KeysActive, Outstanding,
       OneWorkPerKey, Held, Applying, TakenDelivered

LEMMA WorkerMoves ==
  ASSUME IInv, NEW p \in Workers,
         ExitOnClose(p) \/ AwaitWork(p) \/ RunJob(p) \/ AwaitSpace(p) \/ WakeOwner(p)
  PROVE  IInv'
<1>1. UNCHANGED Places /\ active' = active
  BY DEF Places, sched, ExitOnClose, AwaitWork, RunJob, AwaitSpace, WakeOwner
<1>2. CASE ExitOnClose(p)
  BY <1>1, <1>2, PlacesUnchanged DEF IInv, TypeOK, Shape, ExitOnClose, sched, Labels
<1>3. CASE AwaitWork(p)
  BY <1>1, <1>3, PlacesUnchanged DEF IInv, TypeOK, Shape, AwaitWork, sched, Labels
<1>4. CASE RunJob(p)
  BY <1>1, <1>4, PlacesUnchanged DEF IInv, TypeOK, Shape, RunJob, sched, Labels
<1>5. CASE AwaitSpace(p)
  BY <1>1, <1>5, PlacesUnchanged DEF IInv, TypeOK, Shape, AwaitSpace, Stamp, Labels
<1>6. CASE WakeOwner(p)
  BY <1>1, <1>6, PlacesUnchanged DEF IInv, TypeOK, Shape, WakeOwner, sched, Labels
<1> QED BY <1>2, <1>3, <1>4, <1>5, <1>6

LEMMA OthersMove ==
  ASSUME IInv, ReceiveReady \/ TakeNothing \/ CloseReturn
  PROVE  IInv'
<1>1. UNCHANGED Places /\ active' = active
  BY DEF Places, sched, ReceiveReady, TakeNothing, CloseReturn
<1>2. CASE ReceiveReady
  BY <1>1, <1>2, PlacesUnchanged DEF IInv, TypeOK, Shape, ReceiveReady
<1>3. CASE TakeNothing
  BY <1>1, <1>3, PlacesUnchanged DEF IInv, TypeOK, Shape, TakeNothing, sched
<1>4. CASE CloseReturn
  BY <1>1, <1>4, PlacesUnchanged DEF IInv, TypeOK, Shape, CloseReturn, sched
<1> QED BY <1>2, <1>3, <1>4

(* Signal moves at most one parked goroutine, and to the test it names. *)
LEMMA SignalMoves ==
  ASSUME TypeOK, NEW from \in Labels, NEW to \in Labels, Signal(from, to)
  PROVE  /\ pc' \in [Workers -> Labels]
         /\ \A p \in Workers : pc'[p] = pc[p] \/ (pc[p] = from /\ pc'[p] = to)
BY DEF TypeOK, Signal

LEMMA AcceptedStep ==
  ASSUME IInv, NEW w \in Works, SubmitAccepted(w)
  PROVE  IInv'
<1> USE DEF IInv
<1>1. /\ queue' \in Seq(Works) /\ Elements(queue') = Elements(queue) \cup {w}
      /\ w \notin Elements(queue) => Once(queue')
  BY AppendElements DEF TypeOK, SubmitAccepted, Apart
<1>2. /\ pc' \in [Workers -> Labels]
      /\ \A p \in Workers : pc'[p] = pc[p] \/ (pc[p] = "waitWork" /\ pc'[p] = "take")
  BY SignalMoves DEF SubmitAccepted, WakeWorker, Labels
<1>3. /\ Elements(results') = Elements(results) /\ Elements(closing') = Elements(closing)
      /\ Held' = Held /\ Applying' = Applying
  BY DEF SubmitAccepted, Held, Applying
<1>4. w \notin Pending /\ w # taken
  BY WorkAssumption DEF SubmitAccepted, EndsOnce, TakenDelivered
<1>5. TypeOK'
  BY <1>1, <1>2, WorkAssumption DEF TypeOK, SubmitAccepted, Enter, Fates
<1>6. Shape'
  BY <1>2 DEF TypeOK, Shape, SubmitAccepted, Admits
<1>7. Apart'
  <2>1. \A p \in Workers : holding[p] # w
    BY <1>4, WorkAssumption DEF Pending, Held
  <2>2. Once(queue') /\ Once(results') /\ Once(closing')
    BY <1>1, <1>4 DEF Apart, SubmitAccepted, Pending, Once
  <2> QED BY <1>1, <1>3, <1>4, <2>1, <2>2 DEF Apart, SubmitAccepted, Pending
<1>8. EndsOnce' /\ TakenDelivered'
  <2>1. Pending' = Pending \cup {w}
    BY <1>1, <1>3 DEF Pending
  <2> QED BY <2>1, <1>4 DEF TypeOK, EndsOnce, TakenDelivered, SubmitAccepted
<1>9. KeysActive' /\ OneWorkPerKey'
  <2>1. Outstanding' = Outstanding \cup {w}
    BY <1>1, <1>3 DEF Outstanding
  <2> QED BY <2>1 DEF KeysActive, OneWorkPerKey, SubmitAccepted, Admits, Enter
<1> QED BY <1>5, <1>6, <1>7, <1>8, <1>9

LEMMA RejectedStep ==
  ASSUME IInv, NEW w \in Works, SubmitRejected(w)
  PROVE  IInv'
<1> USE DEF IInv, SubmitRejected, End, sched
<1>1. TypeOK' /\ Shape'
  BY SMTT(30) DEF TypeOK, Shape, Fates
<1>2. Apart' /\ KeysActive' /\ OneWorkPerKey'
  BY DEF Apart, Once, Elements, KeysActive, OneWorkPerKey, Outstanding, Held, Applying
<1>3. Pending' = Pending
  BY DEF Pending, Elements, Held
<1>4. EndsOnce' /\ TakenDelivered'
  BY <1>3 DEF TypeOK, EndsOnce, TakenDelivered
<1> QED BY <1>1, <1>2, <1>4

LEMMA TakeWorkStep ==
  ASSUME IInv, NEW p \in Workers, TakeWork(p)
  PROVE  IInv'
<1> USE DEF IInv
<1> DEFINE w == Head(queue)
<1>1. /\ queue' \in Seq(Works) /\ w \in Works /\ w \in Elements(queue)
      /\ Elements(queue) = Elements(queue') \cup {w}
      /\ Once(queue') /\ w \notin Elements(queue')
  BY TailElements DEF TypeOK, TakeWork, Apart
<1>2. /\ Elements(results') = Elements(results) /\ Elements(closing') = Elements(closing)
      /\ Applying' = Applying
  BY DEF TakeWork, Applying
<1>3. holding[p] = NoWork /\ w # NoWork /\ \A q \in Workers : holding[q] # w
  BY <1>1, WorkAssumption DEF TakeWork, Shape, Apart
<1>4. holding' = [holding EXCEPT ![p] = w] /\ holding \in [Workers -> Works \cup {NoWork}]
  BY DEF TakeWork, TypeOK
<1>5. Held' = Held \cup {w}
  BY <1>3, <1>4 DEF Held
<1>6. TypeOK'
  BY <1>1 DEF TypeOK, TakeWork, Labels
<1>7. Shape'
  BY <1>3, <1>4 DEF TypeOK, Shape, TakeWork
<1>8. Apart'
  <2>1. Once(results') /\ Once(closing')
    BY DEF Apart, TakeWork
  <2> QED BY <1>1, <1>2, <1>3, <1>4, <2>1 DEF Apart
<1>9. EndsOnce' /\ TakenDelivered'
  <2>1. Pending' = Pending
    BY <1>1, <1>2, <1>5 DEF Pending
  <2> QED BY <2>1 DEF EndsOnce, TakenDelivered, TakeWork
<1>10. KeysActive' /\ OneWorkPerKey'
  <2>1. Outstanding' = Outstanding
    BY <1>1, <1>2, <1>5 DEF Outstanding
  <2> QED BY <2>1 DEF KeysActive, OneWorkPerKey, TakeWork
<1> QED BY <1>6, <1>7, <1>8, <1>9, <1>10

(* A worker that holds a work lets go of it. *)
LEMMA HandsOver ==
  ASSUME IInv, NEW p \in Workers, holding[p] # NoWork,
         holding' = [holding EXCEPT ![p] = NoWork]
  PROVE  /\ holding[p] \in Works /\ holding[p] \in Held
         /\ Held' = Held \ {holding[p]}
         /\ holding' \in [Workers -> Works \cup {NoWork}]
<1> DEFINE w == holding[p]
<1>1. /\ holding \in [Workers -> Works \cup {NoWork}] /\ w \in Works
      /\ \A q \in Workers : holding[q] = w => q = p
  BY DEF IInv, TypeOK, Apart
<1>2. \A q \in Workers : holding'[q] = IF q = p THEN NoWork ELSE holding[q]
  BY <1>1
<1>3. ASSUME NEW x PROVE x \in Held' <=> x \in Held \ {w}
  BY <1>1, <1>2 DEF Held
<1> QED BY <1>1, <1>3 DEF Held

LEMMA DropResultStep ==
  ASSUME IInv, NEW p \in Workers, DropResult(p)
  PROVE  IInv'
<1> USE DEF IInv
<1> DEFINE w == holding[p]
<1>1. /\ w \in Works /\ w \in Held /\ Held' = Held \ {w}
      /\ holding' = [holding EXCEPT ![p] = NoWork]
      /\ holding' \in [Workers -> Works \cup {NoWork}]
  BY HandsOver DEF DropResult, Shape
<1>2. /\ Elements(queue') = Elements(queue) /\ Elements(results') = Elements(results)
      /\ Elements(closing') = Elements(closing) /\ Applying' = Applying
      /\ Once(queue') /\ Once(results') /\ Once(closing')
  BY DEF DropResult, sched, Applying, Apart
<1>3. TypeOK'
  BY <1>1 DEF TypeOK, DropResult, sched, End, Fates, Labels
<1>4. Shape'
  BY <1>1 DEF TypeOK, Shape, DropResult, sched
<1>5. Apart'
  <2>1. \A q \in Workers : holding'[q] = IF q = p THEN NoWork ELSE holding[q]
    BY <1>1 DEF TypeOK
  <2>2. NoWork \notin Elements(queue) \cup Elements(results) \cup Elements(closing)
    BY WorkAssumption, ElementsIn DEF TypeOK
  <2> QED BY <1>2, <2>1, <2>2 DEF Apart
<1>6. EndsOnce' /\ TakenDelivered'
  <2>1. fate[w] = "accepted" /\ w # taken
    BY <1>1, WorkAssumption DEF EndsOnce, Pending, TakenDelivered
  <2>2. Pending' = Pending \ {w}
    <3>1. w \notin Elements(queue) \cup Elements(results) \cup Elements(closing)
      BY DEF Apart
    <3> QED BY <1>1, <1>2, <3>1 DEF Pending
  <2> QED BY <1>1, <2>1, <2>2 DEF TypeOK, EndsOnce, TakenDelivered, DropResult, End
<1>7. KeysActive' /\ OneWorkPerKey'
  <2>1. Outstanding' \subseteq Outstanding
    BY <1>1, <1>2 DEF Outstanding
  <2> QED BY <2>1 DEF KeysActive, OneWorkPerKey, DropResult, sched
<1> QED BY <1>3, <1>4, <1>5, <1>6, <1>7

LEMMA PublishStep ==
  ASSUME IInv, NEW p \in Workers, Publish(p)
  PROVE  IInv'
<1> USE DEF IInv
<1> DEFINE w == holding[p]
<1>1. /\ w \in Works /\ w \in Held /\ Held' = Held \ {w}
      /\ holding' = [holding EXCEPT ![p] = NoWork]
      /\ holding' \in [Workers -> Works \cup {NoWork}]
  BY HandsOver DEF Publish, Shape
<1>2. /\ results' \in Seq(Works) /\ Elements(results') = Elements(results) \cup {w}
      /\ w \notin Elements(results) => Once(results')
  BY <1>1, AppendElements DEF TypeOK, Publish, Apart
<1>3. /\ Elements(queue') = Elements(queue) /\ Elements(closing') = Elements(closing)
      /\ Applying' = Applying /\ Once(queue') /\ Once(closing')
  BY DEF Publish, Applying, Apart
<1>4. w \notin Elements(queue) \cup Elements(results) \cup Elements(closing)
  BY DEF Apart
<1>5. TypeOK'
  BY <1>1, <1>2 DEF TypeOK, Publish, Stamp, Labels
<1>6. Shape'
  BY <1>1 DEF TypeOK, Shape, Publish
<1>7. Apart'
  <2>1. \A q \in Workers : holding'[q] = IF q = p THEN NoWork ELSE holding[q]
    BY <1>1 DEF TypeOK
  <2>2. NoWork \notin Elements(queue) \cup Elements(results) \cup Elements(closing)
    BY WorkAssumption, ElementsIn DEF TypeOK
  <2>3. w # NoWork /\ \A q \in Workers : q # p => holding[q] # w
    BY <1>1, WorkAssumption DEF Apart
  <2> QED BY <1>2, <1>3, <1>4, <2>1, <2>2, <2>3 DEF Apart
<1>8. EndsOnce' /\ TakenDelivered'
  <2>1. Pending' = Pending
    BY <1>1, <1>2, <1>3 DEF Pending
  <2> QED BY <2>1 DEF EndsOnce, TakenDelivered, Publish
<1>9. KeysActive' /\ OneWorkPerKey'
  <2>1. Outstanding' = Outstanding
    BY <1>1, <1>2, <1>3 DEF Outstanding
  <2> QED BY <2>1 DEF KeysActive, OneWorkPerKey, Publish
<1> QED BY <1>5, <1>6, <1>7, <1>8, <1>9

LEMMA TakeCompletionStep ==
  ASSUME IInv, TakeCompletion
  PROVE  IInv'
<1> USE DEF IInv
<1> DEFINE w == Head(results)
<1>1. /\ results' \in Seq(Works) /\ w \in Works /\ w \in Elements(results)
      /\ Elements(results) = Elements(results') \cup {w}
      /\ Once(results') /\ w \notin Elements(results')
  BY TailElements DEF TypeOK, TakeCompletion, Apart
<1>2. /\ Elements(queue') = Elements(queue) /\ Elements(closing') = Elements(closing)
      /\ Held' = Held /\ Applying' = {w} /\ Once(queue') /\ Once(closing')
      /\ holding' = holding
  BY <1>1, WorkAssumption DEF TakeCompletion, Held, Applying, Apart
<1>3. /\ pc' \in [Workers -> Labels]
      /\ \A p \in Workers : pc'[p] = pc[p] \/ (pc[p] = "waitSpace" /\ pc'[p] = "recheck")
  BY SignalMoves DEF TakeCompletion, WakePublisher, Labels
<1>4. w \notin Held /\ w \notin Elements(queue) /\ w \notin Elements(closing)
  BY <1>1 DEF Apart, Held
<1>5. fate[w] = "accepted" /\ taken = NoWork
  BY <1>1 DEF EndsOnce, Pending, Shape, TakeCompletion
<1>6. TypeOK'
  BY <1>1, <1>3 DEF TypeOK, TakeCompletion, Rearm, End, Fates
<1>7. Shape'
  BY <1>1, <1>3, WorkAssumption DEF TypeOK, Shape, TakeCompletion
<1>8. Apart'
  BY <1>1, <1>2 DEF Apart
<1>9. EndsOnce' /\ TakenDelivered'
  <2>1. Pending' = Pending \ {w}
    BY <1>1, <1>2, <1>4 DEF Pending
  <2> QED BY <1>1, <1>5, <2>1 DEF TypeOK, EndsOnce, TakenDelivered, TakeCompletion, End
<1>10. KeysActive' /\ OneWorkPerKey'
  <2>1. Outstanding' \subseteq Outstanding
    BY <1>1, <1>2 DEF Outstanding
  <2> QED BY <2>1 DEF KeysActive, OneWorkPerKey, TakeCompletion
<1> QED BY <1>6, <1>7, <1>8, <1>9, <1>10

LEMMA FinishStep ==
  ASSUME IInv, Finish
  PROVE  IInv'
<1> USE DEF IInv
<1>1. /\ Elements(queue') = Elements(queue) /\ Elements(closing') = Elements(closing)
      /\ Elements(results') = Elements(results) /\ Held' = Held /\ Applying' = {}
      /\ holding' = holding /\ Once(queue') /\ Once(closing') /\ Once(results')
  BY DEF Finish, Held, Applying, Apart
<1>2. taken \in Works /\ taken \in Outstanding /\ fate[taken] = "delivered"
  BY DEF TypeOK, Shape, Finish, Outstanding, Applying, TakenDelivered
<1>3. TypeOK' /\ Shape'
  BY DEF TypeOK, Shape, Finish, Forget
<1>4. Apart'
  BY <1>1 DEF Apart
<1>5. EndsOnce' /\ TakenDelivered'
  <2>1. Pending' = Pending
    BY <1>1 DEF Pending
  <2> QED BY <2>1 DEF EndsOnce, TakenDelivered, Finish
<1>6. taken \notin Pending
  BY <1>2 DEF EndsOnce
<1>7. KeysActive' /\ OneWorkPerKey'
  <2>1. Outstanding' = Outstanding \ {taken}
    BY <1>1, <1>6, WorkAssumption DEF Outstanding, Pending, Applying
  <2> QED BY <1>2, <2>1 DEF KeysActive, OneWorkPerKey, Finish, Forget
<1> QED BY <1>3, <1>4, <1>5, <1>7

LEMMA CloseBeginStep ==
  ASSUME IInv, CloseBegin
  PROVE  IInv'
<1> USE DEF IInv
<1>1. /\ Elements(queue') = {} /\ Elements(closing') = Elements(queue)
      /\ Elements(closing) = {} /\ Elements(results') = Elements(results)
      /\ Held' = Held /\ Applying' = Applying /\ holding' = holding
      /\ Once(queue') /\ Once(closing') /\ Once(results')
  BY EmptyElements DEF CloseBegin, QueuedJobs, Held, Applying, Apart, Shape
<1>2. TypeOK'
  <2>1. <<>> \in Seq(Works)
    OBVIOUS
  <2>2. pc' \in [Workers -> Labels]
    BY DEF TypeOK, CloseBegin, Broadcast, Labels
  <2> QED BY <2>1, <2>2 DEF TypeOK, CloseBegin, Forget, QueuedJobs
<1>3. Shape'
  BY DEF TypeOK, Shape, CloseBegin, Broadcast
<1>4. Apart'
  BY <1>1 DEF Apart
<1>5. EndsOnce' /\ TakenDelivered'
  <2>1. Pending' = Pending
    BY <1>1 DEF Pending
  <2> QED BY <2>1 DEF EndsOnce, TakenDelivered, CloseBegin
<1>6. KeysActive' /\ OneWorkPerKey'
  <2>1. Outstanding' = Outstanding \ Elements(queue)
    <3>1. taken \notin Elements(queue)
      BY ElementsIn, WorkAssumption DEF TypeOK, EndsOnce, Pending, TakenDelivered
    <3> QED BY <1>1, <3>1 DEF Outstanding, Apart, Held, Applying
  <2>2. Elements(queue) \subseteq Outstanding
    BY DEF Outstanding
  <2> QED BY <2>1, <2>2 DEF KeysActive, OneWorkPerKey, CloseBegin, Forget
<1> QED BY <1>2, <1>3, <1>4, <1>5, <1>6

LEMMA CloseOneStep ==
  ASSUME IInv, CloseOne
  PROVE  IInv'
<1> USE DEF IInv
<1> DEFINE w == Head(closing)
<1>1. /\ closing' \in Seq(Works) /\ w \in Works /\ w \in Elements(closing)
      /\ Elements(closing) = Elements(closing') \cup {w}
      /\ Once(closing') /\ w \notin Elements(closing')
  BY TailElements DEF TypeOK, CloseOne, Apart
<1>2. /\ Elements(queue') = Elements(queue) /\ Elements(results') = Elements(results)
      /\ Held' = Held /\ Applying' = Applying /\ Once(queue') /\ Once(results')
      /\ holding' = holding
  BY DEF CloseOne, sched, Held, Applying, Apart
<1>3. w \notin Held /\ w \notin Elements(queue) /\ w \notin Elements(results)
  BY <1>1 DEF Apart, Held
<1>4. fate[w] = "accepted" /\ w # taken
  BY <1>1, WorkAssumption DEF EndsOnce, Pending, TakenDelivered
<1>5. TypeOK'
  BY <1>1 DEF TypeOK, CloseOne, sched, End, Fates
<1>6. Shape'
  BY DEF Shape, CloseOne, sched
<1>7. Apart'
  BY <1>1, <1>2 DEF Apart
<1>8. EndsOnce' /\ TakenDelivered'
  <2>1. Pending' = Pending \ {w}
    BY <1>1, <1>2, <1>3 DEF Pending
  <2> QED BY <1>1, <1>4, <2>1 DEF TypeOK, EndsOnce, TakenDelivered, CloseOne, End
<1>9. KeysActive' /\ OneWorkPerKey'
  <2>1. Outstanding' = Outstanding
    BY <1>2 DEF Outstanding
  <2> QED BY <2>1 DEF KeysActive, OneWorkPerKey, CloseOne, sched
<1> QED BY <1>5, <1>6, <1>7, <1>8, <1>9

LEMMA JoinStep ==
  ASSUME IInv, JoinWorkers
  PROVE  IInv'
<1> USE DEF IInv
<1>1. /\ Elements(results') = {} /\ Elements(closing') = Elements(results)
      /\ Elements(closing) = {} /\ Elements(queue') = Elements(queue)
      /\ Held' = Held /\ Applying' = Applying /\ holding' = holding
      /\ Once(queue') /\ Once(closing') /\ Once(results')
  BY EmptyElements DEF JoinWorkers, Held, Applying, Apart
<1>2. TypeOK'
  BY DEF TypeOK, JoinWorkers
<1>3. Shape'
  BY DEF Shape, JoinWorkers, WorkersGone
<1>4. Apart'
  BY <1>1 DEF Apart
<1>5. EndsOnce' /\ TakenDelivered'
  <2>1. Pending' = Pending
    BY <1>1 DEF Pending
  <2> QED BY <2>1 DEF EndsOnce, TakenDelivered, JoinWorkers
<1>6. KeysActive' /\ OneWorkPerKey'
  <2>1. Outstanding' \subseteq Outstanding
    BY <1>1 DEF Outstanding
  <2> QED BY <2>1 DEF KeysActive, OneWorkPerKey, JoinWorkers
<1> QED BY <1>2, <1>3, <1>4, <1>5, <1>6

LEMMA StutterStep ==
  ASSUME IInv, UNCHANGED vars
  PROVE  IInv'
<1>1. UNCHANGED Places /\ active' = active
  BY DEF vars, Places
<1> QED BY <1>1, PlacesUnchanged DEF vars, IInv, TypeOK, Shape

(* Every step of the scheduler, its consumer and Close keeps IInv. *)
LEMMA NextIInv == IInv /\ [Next]_vars => IInv'
<1> SUFFICES ASSUME IInv, [Next]_vars PROVE IInv'
  OBVIOUS
<1>1. CASE \E w \in Works : Submit(w)
  BY <1>1, AcceptedStep, RejectedStep DEF Submit
<1>2. CASE \E p \in Workers : Worker(p)
  BY <1>2, WorkerMoves, TakeWorkStep, DropResultStep, PublishStep DEF Worker
<1>3. CASE Consumer
  BY <1>3, OthersMove, TakeCompletionStep, FinishStep DEF Consumer
<1>4. CASE CloseBegin
  BY <1>4, CloseBeginStep
<1>5. CASE CloseStep
  BY <1>5, CloseOneStep, JoinStep, OthersMove DEF CloseStep
<1>6. CASE UNCHANGED vars
  BY <1>6, StutterStep
<1> QED BY <1>1, <1>2, <1>3, <1>4, <1>5, <1>6 DEF Next

(* The inductive invariant holds in every reachable state. *)
THEOREM Invariance == Spec => []IInv
<1>1. Init => IInv
  BY InitIInv
<1>2. IInv /\ [Next]_vars => IInv'
  BY NextIInv
<1> QED BY <1>1, <1>2, PTL DEF Spec

(* Type correctness of the scheduler, its workers and the history. *)
THEOREM TypeCorrect == Spec => []TypeOK
<1>1. IInv => TypeOK
  BY DEF IInv
<1> QED BY <1>1, Invariance, PTL

(* Jobs and results are closed or delivered exactly once (scheduler.go's    *)
(* Submit, publishCompletion, TakeCompletion and Close together).           *)
THEOREM DisposalExactlyOnce == Spec => []EndsOnce
<1>1. IInv => EndsOnce
  BY DEF IInv
<1> QED BY <1>1, Invariance, PTL

(* ErrOwnerActive protects a key from Submit until Finish. *)
THEOREM KeyExclusion == Spec => []OneWorkPerKey
<1>1. IInv => OneWorkPerKey
  BY DEF IInv
<1> QED BY <1>1, Invariance, PTL

(* After Close returns no worker runs and no work is left. *)
THEOREM QuietClose == Spec => []QuietAfterClose
<1>1. IInv => QuietAfterClose
  <2> SUFFICES ASSUME IInv, closer = "done" PROVE QuietAfterClose
    BY DEF QuietAfterClose
  <2>1. queue = <<>> /\ results = <<>> /\ closing = <<>> /\ Held = {}
        /\ \A p \in Workers : pc[p] = "exited"
    BY DEF IInv, Shape, Held
  <2>2. Pending = {}
    BY <2>1, EmptyElements DEF Pending
  <2> QED BY <2>1, <2>2 DEF IInv, EndsOnce, QuietAfterClose
<1> QED BY <1>1, Invariance, PTL

-----------------------------------------------------------------------------
LEMMA CapacityStep == IInv /\ WithinCapacity /\ [Next]_vars => WithinCapacity'
<1> SUFFICES ASSUME IInv, WithinCapacity, [Next]_vars PROVE WithinCapacity'
  OBVIOUS
<1>1. /\ queue \in Seq(Works) /\ results \in Seq(Works) /\ QueueCapacity \in Nat \ {0}
      /\ holding \in [Workers -> Works \cup {NoWork}]
      /\ Len(queue) \in Nat /\ Len(results) \in Nat
      /\ Len(queue) <= QueueCapacity /\ Len(results) <= QueueCapacity
  BY CapacityAssumption DEF IInv, TypeOK, WithinCapacity
<1>2. CASE \E w \in Works : SubmitAccepted(w)
  BY <1>1, <1>2, AppendElements DEF SubmitAccepted, WithinCapacity
<1>3. CASE \E p \in Workers : TakeWork(p)
  BY <1>1, <1>3, TailElements DEF TakeWork, WithinCapacity
<1>4. CASE \E p \in Workers : Publish(p)
  <2> PICK p \in Workers : Publish(p)
    BY <1>4
  <2>1. holding[p] \in Works
    BY <1>1 DEF IInv, Shape, Publish
  <2> QED BY <1>1, <2>1, AppendElements DEF Publish, Room, WithinCapacity
<1>5. CASE TakeCompletion
  BY <1>1, <1>5, TailElements DEF TakeCompletion, WithinCapacity
<1>6. CASE CloseBegin
  BY <1>1, <1>6 DEF CloseBegin, WithinCapacity
<1>7. CASE JoinWorkers
  BY <1>1, <1>7 DEF JoinWorkers, WithinCapacity
<1>8. CASE UNCHANGED <<queue, results>>
  BY <1>1, <1>8 DEF WithinCapacity
<1> QED
  BY <1>2, <1>3, <1>4, <1>5, <1>6, <1>7, <1>8
  DEF Next, vars, sched, Submit, SubmitRejected, Worker, ExitOnClose, AwaitWork, RunJob,
      DropResult, AwaitSpace, WakeOwner, Consumer, ReceiveReady, TakeNothing, Finish,
      CloseStep, CloseOne, CloseReturn

(* Neither the queue nor the results outgrow the capacity given to New. *)
THEOREM CapacityKept == Spec => []WithinCapacity
<1>1. Init => WithinCapacity
  BY CapacityAssumption DEF Init, WithinCapacity
<1>2. IInv /\ WithinCapacity /\ [Next]_vars => WithinCapacity'
  BY CapacityStep
<1> QED BY <1>1, <1>2, Invariance, PTL DEF Spec

(* The token: a result is announced, or the consumer is about to look. *)
LEMMA AnnouncedStep == IInv /\ ResultsAnnounced /\ [Next]_vars => ResultsAnnounced'
<1> SUFFICES ASSUME IInv, ResultsAnnounced, [Next]_vars PROVE ResultsAnnounced'
  OBVIOUS
<1> USE DEF ResultsAnnounced
<1>1. CASE \E p \in Workers : Publish(p)
  BY <1>1 DEF Publish
<1>2. CASE TakeCompletion
  <2>1. results \in Seq(Works) /\ results # <<>> /\ results' = Tail(results)
    BY <1>2 DEF TakeCompletion, IInv, TypeOK
  <2>2. results' # <<>> => Len(results) > 1
    BY <2>1
  <2> QED BY <1>2, <2>2 DEF TakeCompletion, Rearm
<1>3. CASE ReceiveReady \/ TakeNothing
  BY <1>3 DEF ReceiveReady, TakeNothing, sched
<1>4. CASE Finish
  BY <1>4 DEF Finish
<1>5. CASE JoinWorkers
  BY <1>5 DEF JoinWorkers
<1>6. CASE UNCHANGED <<results, resultReady, consumer>>
  BY <1>6
<1> QED
  BY <1>1, <1>2, <1>3, <1>4, <1>5, <1>6
  DEF Next, vars, sched, Submit, SubmitAccepted, SubmitRejected, Worker, ExitOnClose,
      AwaitWork, TakeWork, RunJob, DropResult, AwaitSpace, WakeOwner, Consumer,
      CloseBegin, CloseStep, CloseOne, CloseReturn

(* The lossy wake token of Ready() never hides a published result. *)
THEOREM NeverUnannounced == Spec => []ResultsAnnounced
<1>1. Init => ResultsAnnounced
  BY DEF Init, ResultsAnnounced
<1>2. IInv /\ ResultsAnnounced /\ [Next]_vars => ResultsAnnounced'
  BY AnnouncedStep
<1> QED BY <1>1, <1>2, Invariance, PTL DEF Spec

-----------------------------------------------------------------------------
(* OneWorkPerKey speaks of works until Finish; the refinement also needs it *)
(* of the works Close has taken out of the queue and not yet closed.        *)
InFlight == {w \in Works : fate[w] = "accepted"} \cup Applying
KeysApart == \A v, w \in InFlight : KeyOf[v] = KeyOf[w] => v = w

LEMMA KeysApartStep == IInv /\ KeysApart /\ [Next]_vars => KeysApart'
<1> SUFFICES ASSUME IInv, KeysApart, [Next]_vars PROVE KeysApart'
  OBVIOUS
<1>1. TypeOK /\ EndsOnce
  BY DEF IInv
<1>2. CASE \E w \in Works : SubmitAccepted(w)
  <2> PICK w \in Works : SubmitAccepted(w)
    BY <1>2
  <2>1. InFlight' = InFlight \cup {w}
    BY <1>1 DEF TypeOK, InFlight, Applying, SubmitAccepted
  <2>2. Elements(closing) = {}
    BY EmptyElements DEF IInv, Shape, SubmitAccepted, Admits
  <2>3. InFlight \subseteq Outstanding
    BY <1>1, <2>2 DEF InFlight, EndsOnce, Pending, Outstanding
  <2>4. \A v \in InFlight : KeyOf[v] # KeyOf[w]
    BY <2>3 DEF IInv, KeysActive, SubmitAccepted, Admits
  <2> QED BY <2>1, <2>4 DEF KeysApart
<1>3. CASE TakeCompletion
  <2>1. results \in Seq(Works) /\ Head(results) \in Elements(results)
    BY <1>1, <1>3, TailElements DEF TypeOK, TakeCompletion
  <2>2. Head(results) \in Works /\ fate[Head(results)] = "accepted"
    BY <1>1, <2>1, ElementsIn DEF EndsOnce, Pending
  <2>3. InFlight' \subseteq InFlight
    BY <1>1, <1>3, <2>2 DEF TypeOK, InFlight, Applying, TakeCompletion, End
  <2> QED BY <2>3 DEF KeysApart
<1>4. CASE /\ Applying' \subseteq Applying
           /\ \A w \in Works : fate'[w] = "accepted" => fate[w] = "accepted"
  BY <1>4 DEF InFlight, KeysApart
<1>5. ASSUME NEW w, NEW f, f # "accepted", taken' = taken,
             fate' = [fate EXCEPT ![w] = f]
      PROVE  KeysApart'
  <2>1. Applying' \subseteq Applying
    BY <1>5 DEF Applying
  <2>2. \A v \in Works : fate'[v] = "accepted" => fate[v] = "accepted"
    BY <1>1, <1>5 DEF TypeOK
  <2> QED BY <1>4, <2>1, <2>2
<1>6. ASSUME NEW w \in Works, SubmitRejected(w) PROVE KeysApart'
  <2>1. fate' = [fate EXCEPT ![w] = "rejected"] /\ taken' = taken
    BY <1>6 DEF SubmitRejected, End
  <2> QED BY <1>5, <2>1
<1>7. ASSUME NEW p \in Workers, DropResult(p) PROVE KeysApart'
  <2>1. fate' = [fate EXCEPT ![holding[p]] = "closed"] /\ taken' = taken
    BY <1>7 DEF DropResult, End
  <2> QED BY <1>5, <2>1
<1>8. CASE CloseOne
  <2>1. fate' = [fate EXCEPT ![Head(closing)] = "closed"] /\ taken' = taken
    BY <1>8 DEF CloseOne, End
  <2> QED BY <1>5, <2>1
<1>9. CASE Finish \/ UNCHANGED <<fate, taken>>
  <2>1. Applying' \subseteq Applying /\ fate' = fate
    BY <1>9 DEF Applying, Finish
  <2> QED BY <1>4, <2>1
<1> QED
  BY <1>2, <1>3, <1>6, <1>7, <1>8, <1>9
  DEF Next, vars, Submit, Worker, ExitOnClose, AwaitWork, TakeWork, RunJob, AwaitSpace,
      Publish, WakeOwner, Consumer, ReceiveReady, TakeNothing, CloseBegin, CloseStep,
      JoinWorkers, CloseReturn

LEMMA LedgerInit == Init => Ledger!Init
  BY DEF Init, Ledger!Init

(* Every step of the scheduler is a step of the ledger or leaves it alone. *)
LEMMA LedgerStep == IInv /\ KeysApart /\ [Next]_vars => [Ledger!Next]_(Ledger!vars)
<1> SUFFICES ASSUME IInv, KeysApart, [Next]_vars
             PROVE  Ledger!Next \/ UNCHANGED <<fate, active, closed>>
  BY DEF Ledger!vars
<1>1. TypeOK /\ EndsOnce /\ Shape
  BY DEF IInv
<1>2. ASSUME NEW w \in Works, SubmitAccepted(w) PROVE Ledger!Next
  <2>1. Ledger!Accept(w)
    BY <1>2 DEF SubmitAccepted, Admits, Enter, Ledger!Accept
  <2> QED BY <2>1 DEF Ledger!Next
<1>3. ASSUME NEW w \in Works, SubmitRejected(w) PROVE Ledger!Next
  <2>1. Ledger!Reject(w)
    BY <1>3 DEF SubmitRejected, sched, End, Ledger!Reject
  <2> QED BY <2>1 DEF Ledger!Next
<1>4. ASSUME NEW p \in Workers, DropResult(p) PROVE Ledger!Next
  <2>1. holding[p] \in Works /\ holding[p] \in Held
    BY <1>1, <1>4 DEF TypeOK, Shape, DropResult, Held
  <2>2. Ledger!Discard(holding[p])
    BY <1>1, <1>4, <2>1 DEF DropResult, sched, End, EndsOnce, Pending, Ledger!Discard
  <2> QED BY <2>1, <2>2 DEF Ledger!Next
<1>5. CASE TakeCompletion
  <2>1. Head(results) \in Works /\ Head(results) \in Elements(results)
    BY <1>1, <1>5, TailElements DEF TypeOK, TakeCompletion
  <2>2. Ledger!Deliver(Head(results))
    BY <1>1, <1>5, <2>1 DEF TakeCompletion, End, EndsOnce, Pending, Ledger!Deliver
  <2> QED BY <2>1, <2>2 DEF Ledger!Next
<1>6. CASE Finish
  <2>1. taken \in Works /\ fate[taken] = "delivered" /\ taken \in InFlight
    BY <1>1, <1>6 DEF TypeOK, Shape, Finish, IInv, TakenDelivered, InFlight, Applying
  <2>2. \A w \in Works : KeyOf[w] = KeyOf[taken] => fate[w] # "accepted"
    BY <2>1 DEF KeysApart, InFlight
  <2>3. KeyOf[taken] \in Keys
    BY <2>1, WorkAssumption
  <2>4. Ledger!Finish(KeyOf[taken])
    BY <1>6, <2>2 DEF Finish, Forget, Ledger!Finish
  <2> QED BY <2>3, <2>4 DEF Ledger!Next
<1>7. CASE CloseBegin
  <2>1. ~closed
    BY <1>1, <1>7 DEF Shape, CloseBegin
  <2>2. Ledger!Shut
    BY <1>7, <2>1 DEF CloseBegin, Forget, Ledger!Shut
  <2> QED BY <2>2 DEF Ledger!Next
<1>8. CASE CloseOne
  <2>1. Head(closing) \in Works /\ Head(closing) \in Elements(closing)
    BY <1>1, <1>8, TailElements DEF TypeOK, CloseOne
  <2>2. closed
    BY <1>1, <1>8 DEF Shape, CloseOne
  <2>3. Ledger!Discard(Head(closing))
    BY <1>1, <1>8, <2>1, <2>2 DEF CloseOne, sched, End, EndsOnce, Pending, Ledger!Discard
  <2> QED BY <2>1, <2>3 DEF Ledger!Next
<1> QED
  BY <1>2, <1>3, <1>4, <1>5, <1>6, <1>7, <1>8
  DEF Next, vars, sched, Submit, Worker, ExitOnClose, AwaitWork, TakeWork, RunJob,
      AwaitSpace, Publish, WakeOwner, Consumer, ReceiveReady, TakeNothing, CloseStep,
      JoinWorkers, CloseReturn

(* The scheduler implements the ledger its clients rely on. *)
THEOREM SchedulerImplementsLedger == Spec => ImplementsLedger
<1>1. Init => KeysApart
  BY DEF Init, KeysApart, InFlight, Applying
<1>2. IInv /\ KeysApart /\ [Next]_vars => KeysApart'
  BY KeysApartStep
<1>3. Init => Ledger!Init
  BY LedgerInit
<1>4. IInv /\ KeysApart /\ [Next]_vars => [Ledger!Next]_(Ledger!vars)
  BY LedgerStep
<1> QED BY <1>1, <1>2, <1>3, <1>4, Invariance, PTL DEF Spec, ImplementsLedger, Ledger!Spec

-----------------------------------------------------------------------------
(* StampIsCurrent lacks one thing to be inductive: a worker that waits for  *)
(* space, or rechecks, has stamped the key of what it holds.                *)
Stamped == ~closed => \A p \in Workers :
    pc[p] \in {"waitSpace", "recheck"} => KeyOf[holding[p]] \in finished

(* The work that a finish time of k answers for. *)
Answers(w, k) ==
    /\ w \in Outstanding /\ KeyOf[w] = k /\ w \notin Elements(queue)
    /\ \A p \in Workers : holding[p] = w => pc[p] \in {"waitSpace", "recheck"}

StampInv ==
    /\ Stamped
    /\ ~closed => /\ \A k \in finished : \E w \in Works : Answers(w, k)
                  /\ \A w \in Elements(results) : KeyOf[w] \in finished

LEMMA OutstandingWorks ==
  ASSUME TypeOK
  PROVE  Outstanding \subseteq Works
  BY ElementsIn DEF TypeOK, Outstanding, Held, Applying

LEMMA StampAccepted ==
  ASSUME IInv, StampInv, NEW w \in Works, SubmitAccepted(w)
  PROVE  StampInv'
<1> USE DEF IInv
<1>1. /\ ~closed /\ closed' = closed /\ KeyOf[w] \notin active
      /\ finished' = finished \ {KeyOf[w]}
      /\ UNCHANGED << results, holding, taken >>
  BY DEF SubmitAccepted, Admits, Enter
<1>2. /\ Elements(queue') = Elements(queue) \cup {w}
      /\ \A p \in Workers : pc'[p] = pc[p] \/ (pc[p] = "waitWork" /\ pc'[p] = "take")
  BY AppendElements, SignalMoves DEF TypeOK, SubmitAccepted, WakeWorker, Labels
<1>3. Outstanding' = Outstanding \cup {w} /\ Elements(results') = Elements(results)
  BY <1>1, <1>2 DEF Outstanding, Held, Applying
<1>4. \A v \in Outstanding : KeyOf[v] # KeyOf[w]
  BY <1>1 DEF KeysActive
<1>5. \A p \in Workers : pc[p] \in {"waitSpace", "recheck"} => holding[p] \in Outstanding
  BY DEF Shape, Outstanding, Held
<1>6. \A v \in Works, k \in finished : Answers(v, k) => Answers(v, k)'
  BY <1>1, <1>2, <1>3, <1>4 DEF Answers
<1>7. Stamped'
  BY <1>1, <1>2, <1>4, <1>5 DEF Stamped, StampInv
<1>8. Elements(results) \subseteq Outstanding
  BY DEF Outstanding
<1> QED BY <1>1, <1>3, <1>4, <1>6, <1>7, <1>8 DEF StampInv

LEMMA StampTake ==
  ASSUME IInv, StampInv, NEW p \in Workers, TakeWork(p)
  PROVE  StampInv'
<1> USE DEF IInv
<1> DEFINE h == Head(queue)
<1>1. /\ ~closed /\ UNCHANGED << closed, finished, results, taken >>
      /\ pc' = [pc EXCEPT ![p] = "run"] /\ holding' = [holding EXCEPT ![p] = h]
      /\ holding[p] = NoWork
  BY DEF TakeWork, Shape
<1>2. h \in Elements(queue) /\ Elements(queue) = Elements(queue') \cup {h} /\ h \in Works
  BY TailElements DEF TypeOK, TakeWork
<1> HIDE DEF h
<1>3. \A q \in Workers : /\ pc'[q] = IF q = p THEN "run" ELSE pc[q]
                         /\ holding'[q] = IF q = p THEN h ELSE holding[q]
  BY <1>1 DEF TypeOK
<1>4. Held' = Held \cup {h}
  BY <1>1, <1>2, <1>3, WorkAssumption DEF Held
<1>5. Outstanding' = Outstanding /\ Elements(results') = Elements(results)
  BY <1>1, <1>2, <1>4 DEF Outstanding, Applying
<1>6. \A v \in Works, k \in finished : Answers(v, k) => Answers(v, k)'
  BY <1>2, <1>3, <1>5 DEF Answers
<1>7. Stamped'
  BY <1>1, <1>3 DEF Stamped, StampInv
<1> QED BY <1>1, <1>5, <1>6, <1>7 DEF StampInv

LEMMA StampAwaits ==
  ASSUME IInv, StampInv, NEW p \in Workers, AwaitSpace(p)
  PROVE  StampInv'
<1> USE DEF IInv
<1>0. holding[p] \in Works
  BY DEF TypeOK, Shape, AwaitSpace
<1> PICK w \in Works : w = holding[p]
  BY <1>0
<1>1. /\ ~closed /\ UNCHANGED << closed, queue, results, holding, taken >>
      /\ pc[p] \in {"publish", "recheck"} /\ pc' = [pc EXCEPT ![p] = "waitSpace"]
  BY DEF AwaitSpace
<1>2. \A q \in Workers : pc'[q] = IF q = p THEN "waitSpace" ELSE pc[q]
  BY <1>1 DEF TypeOK
<1>3. Outstanding' = Outstanding /\ Elements(results') = Elements(results)
      /\ Elements(queue') = Elements(queue)
  BY <1>1 DEF Outstanding, Held, Applying
<1>4. w \in Outstanding /\ w \in Works /\ w \notin Elements(queue)
      /\ \A q \in Workers : holding[q] = w => q = p
  BY <1>1 DEF TypeOK, Shape, Apart, Outstanding, Held
<1>5. KeyOf[w] \in active
  BY <1>4 DEF KeysActive
<1>6. finished' = finished \cup {KeyOf[w]}
  <2>1. CASE pc[p] = "publish"
    BY <2>1, <1>5 DEF AwaitSpace, Stamp
  <2>2. CASE pc[p] = "recheck"
    BY <2>2, <1>1 DEF AwaitSpace, Stamp, StampInv, Stamped
  <2> QED BY <1>1, <2>1, <2>2
<1>7. Answers(w, KeyOf[w])'
  BY <1>1, <1>2, <1>3, <1>4 DEF Answers
<1>8. \A v \in Works, k \in finished : Answers(v, k) => Answers(v, k)'
  BY <1>1, <1>2, <1>3 DEF Answers
<1>9. Stamped'
  BY <1>1, <1>2, <1>6 DEF Stamped, StampInv
<1> QED BY <1>1, <1>3, <1>4, <1>6, <1>7, <1>8, <1>9 DEF StampInv

LEMMA StampPublish ==
  ASSUME IInv, StampInv, NEW p \in Workers, Publish(p)
  PROVE  StampInv'
<1> USE DEF IInv
<1>0. holding[p] \in Works
  BY DEF TypeOK, Shape, Publish
<1> PICK w \in Works : w = holding[p]
  BY <1>0
<1>1. /\ ~closed /\ UNCHANGED << closed, queue, taken >> /\ results' = Append(results, w)
      /\ pc[p] \in {"publish", "recheck"} /\ pc' = [pc EXCEPT ![p] = "wake"]
      /\ holding' = [holding EXCEPT ![p] = NoWork] /\ w # NoWork
  BY DEF Publish, Shape
<1>2. /\ w \in Works /\ Held' = Held \ {w} /\ w \in Held
  BY <1>1, HandsOver
<1>3. Elements(results') = Elements(results) \cup {w} /\ Elements(queue') = Elements(queue)
  BY <1>1, <1>2, AppendElements DEF TypeOK
<1>4. Outstanding' = Outstanding /\ w \in Outstanding /\ w \notin Elements(queue)
  BY <1>1, <1>2, <1>3 DEF Outstanding, Applying, Apart
<1>5. KeyOf[w] \in active
  BY <1>4 DEF KeysActive
<1>6. \A q \in Workers : /\ pc'[q] = IF q = p THEN "wake" ELSE pc[q]
                         /\ holding'[q] = IF q = p THEN NoWork ELSE holding[q]
                         /\ holding[q] = w => q = p
  BY <1>1, <1>2 DEF TypeOK, Apart
<1>7. finished' = finished \cup {KeyOf[w]}
  <2>1. CASE pc[p] = "publish"
    BY <2>1, <1>5 DEF Publish, Stamp
  <2>2. CASE pc[p] = "recheck"
    BY <2>2, <1>1 DEF Publish, Stamp, StampInv, Stamped
  <2> QED BY <1>1, <2>1, <2>2
<1>8. Answers(w, KeyOf[w])'
  BY <1>1, <1>2, <1>3, <1>4, <1>6 DEF Answers
<1>9. \A v \in Works, k \in finished : Answers(v, k) => Answers(v, k)'
  BY <1>1, <1>3, <1>4, <1>6, WorkAssumption DEF Answers
<1>10. Stamped'
  BY <1>1, <1>6, <1>7 DEF Stamped, StampInv
<1> QED BY <1>1, <1>2, <1>3, <1>7, <1>8, <1>9, <1>10 DEF StampInv

LEMMA StampTakeCompletion ==
  ASSUME IInv, StampInv, TakeCompletion
  PROVE  StampInv'
<1> USE DEF IInv
<1> DEFINE h == Head(results)
<1>1. /\ UNCHANGED << closed, queue, finished, holding >> /\ taken = NoWork /\ taken' = h
  BY DEF TakeCompletion, Shape
<1>2. h \in Works /\ Elements(results) = Elements(results') \cup {h}
  BY TailElements DEF TypeOK, TakeCompletion
<1>3. \A q \in Workers : pc'[q] = pc[q] \/ (pc[q] = "waitSpace" /\ pc'[q] = "recheck")
  BY SignalMoves DEF TakeCompletion, WakePublisher, Labels
<1>4. Outstanding' = Outstanding /\ Elements(queue') = Elements(queue)
  BY <1>1, <1>2, WorkAssumption DEF Outstanding, Held, Applying
<1>5. \A v \in Works, k \in finished : Answers(v, k) => Answers(v, k)'
  BY <1>1, <1>3, <1>4 DEF Answers
<1>6. Stamped'
  BY <1>1, <1>3 DEF Stamped, StampInv
<1> QED BY <1>1, <1>2, <1>5, <1>6 DEF StampInv

LEMMA StampFinish ==
  ASSUME IInv, StampInv, Finish
  PROVE  StampInv'
<1> USE DEF IInv
<1>1. /\ UNCHANGED << closed, queue, results, holding, pc >> /\ taken # NoWork
      /\ taken' = NoWork /\ finished' = finished \ {KeyOf[taken]}
  BY DEF Finish, Forget, Shape
<1>2. /\ Elements(results') = Elements(results) /\ Elements(queue') = Elements(queue)
      /\ taken \in Outstanding /\ Held' = Held
      /\ Outstanding' = Elements(queue) \cup Held \cup Elements(results)
  BY <1>1 DEF Outstanding, Held, Applying
<1>3. taken \notin Elements(queue) \cup Held \cup Elements(results)
  BY <1>1 DEF TypeOK, TakenDelivered, EndsOnce, Pending
<1>4. \A v \in Outstanding' : KeyOf[v] # KeyOf[taken]
  BY <1>2, <1>3 DEF OneWorkPerKey, Outstanding
<1>5. \A v \in Works, k \in finished' : Answers(v, k) => Answers(v, k)'
  BY <1>1, <1>2 DEF Answers, Outstanding, Applying
<1>6. \A p \in Workers : pc[p] \in {"waitSpace", "recheck"} => holding[p] \in Outstanding'
  BY <1>2 DEF Shape, Held
<1>7. Stamped'
  BY <1>1, <1>4, <1>6 DEF Stamped, StampInv
<1> QED BY <1>1, <1>2, <1>4, <1>5, <1>7 DEF StampInv

LEMMA StampStep == IInv /\ StampInv /\ [Next]_vars => StampInv'
<1> SUFFICES ASSUME IInv, StampInv, [Next]_vars PROVE StampInv'
  OBVIOUS
<1>1. CASE closed'
  BY <1>1 DEF StampInv, Stamped
<1>2. ASSUME ~closed, UNCHANGED << closed, queue, finished, results, holding, taken >>,
             \A p \in Workers : pc[p] \in {"waitSpace", "recheck"} <=>
                                pc'[p] \in {"waitSpace", "recheck"}
      PROVE  StampInv'
  BY <1>2 DEF StampInv, Stamped, Answers, Outstanding, Elements, Held, Applying
<1>3. ASSUME NEW p \in Workers, ~closed', AwaitWork(p) \/ RunJob(p) \/ WakeOwner(p)
      PROVE  StampInv'
  BY <1>2, <1>3 DEF AwaitWork, RunJob, WakeOwner, sched, IInv, TypeOK
<1>4. ASSUME NEW w \in Works, SubmitRejected(w), ~closed' PROVE StampInv'
  BY <1>2, <1>4 DEF SubmitRejected, sched
<1>5. CASE ~closed' /\ (ReceiveReady \/ TakeNothing \/ UNCHANGED vars)
  BY <1>2, <1>5 DEF ReceiveReady, TakeNothing, sched, vars
<1>6. ASSUME NEW p \in Workers, ExitOnClose(p) \/ DropResult(p) PROVE closed'
  BY <1>6 DEF ExitOnClose, DropResult, sched
<1>7. CASE CloseBegin
  BY <1>1, <1>7 DEF CloseBegin
<1>8. CASE CloseStep
  <2>1. closed' = closed /\ closer # "open"
    BY <1>8 DEF CloseStep, CloseOne, JoinWorkers, CloseReturn, sched, IInv, Shape
  <2> QED BY <2>1, <1>1 DEF IInv, Shape
<1> QED BY <1>1, <1>3, <1>4, <1>5, <1>6, <1>7, <1>8, StampAccepted, StampTake,
           StampAwaits, StampPublish, StampTakeCompletion, StampFinish
        DEF Next, Submit, Worker, Consumer

(* CompletionTime never answers with the finish time of an earlier work of  *)
(* the same key, and answers for every result that waits (publishCompletion *)
(* and Finish of scheduler.go).                                             *)
THEOREM StampsCurrent == Spec => []StampIsCurrent
<1>1. Init => StampInv
  BY EmptyElements DEF Init, StampInv, Stamped
<1>2. IInv /\ StampInv /\ [Next]_vars => StampInv'
  BY StampStep
<1>3. IInv /\ StampInv => StampIsCurrent
  BY DEF StampInv, Answers, StampIsCurrent
<1> QED BY <1>1, <1>2, <1>3, Invariance, PTL DEF Spec

-----------------------------------------------------------------------------
(* The workers at a label, and how many they are. *)
AtLabel(l) == {p \in Workers : pc[p] = l}

(* One worker moves from a label to another. *)
LEMMA OneMoves ==
  ASSUME IsFiniteSet(Workers), TypeOK, NEW p \in Workers, NEW from \in Labels,
         NEW to \in Labels, pc[p] = from, from # to, pc' = [pc EXCEPT ![p] = to]
  PROVE  /\ p \in AtLabel(from) /\ AtLabel(from)' = AtLabel(from) \ {p}
         /\ p \notin AtLabel(to) /\ AtLabel(to)' = AtLabel(to) \cup {p}
         /\ \A m \in Labels \ {from, to} : AtLabel(m)' = AtLabel(m)
         /\ Cardinality(AtLabel(from)') = Cardinality(AtLabel(from)) - 1
         /\ Cardinality(AtLabel(to)') = Cardinality(AtLabel(to)) + 1
<1>1. \A q \in Workers : pc'[q] = IF q = p THEN to ELSE pc[q]
  BY DEF TypeOK
<1>2. /\ p \in AtLabel(from) /\ AtLabel(from)' = AtLabel(from) \ {p}
      /\ p \notin AtLabel(to) /\ AtLabel(to)' = AtLabel(to) \cup {p}
      /\ \A m \in Labels \ {from, to} : AtLabel(m)' = AtLabel(m)
  BY <1>1 DEF AtLabel
<1>3. IsFiniteSet(AtLabel(from)) /\ IsFiniteSet(AtLabel(to))
  <2>1. AtLabel(from) \subseteq Workers /\ AtLabel(to) \subseteq Workers
    BY DEF AtLabel
  <2> QED BY <2>1, FS_Subset
<1>4. Cardinality(AtLabel(to)') = Cardinality(AtLabel(to)) + 1
  BY <1>2, <1>3, FS_AddElement
<1>5. Cardinality(AtLabel(from)') = Cardinality(AtLabel(from)) - 1
  BY ZenonT(30), <1>2, <1>3, FS_RemoveElement
<1> QED BY <1>2, <1>4, <1>5

LEMMA Counts ==
  ASSUME IsFiniteSet(Workers), NEW S \in SUBSET Workers
  PROVE  Cardinality(S) \in Nat /\ (S # {} => Cardinality(S) > 0)
<1>1. IsFiniteSet(S)
  BY FS_Subset
<1> QED BY <1>1, FS_CardinalityType, FS_EmptySet

(* A signal: who slept at `from` is one less, who is at `to` one more. *)
LEMMA SignalCounts ==
  ASSUME IsFiniteSet(Workers), TypeOK, NEW from \in Labels, NEW to \in Labels,
         from # to, Signal(from, to)
  PROVE  /\ \A m \in Labels \ {from, to} : AtLabel(m)' = AtLabel(m)
         /\ AtLabel(from) = {} => AtLabel(from)' = {}
         /\ AtLabel(from) # {} =>
               Cardinality(AtLabel(to)') = Cardinality(AtLabel(to)) + 1
<1>1. CASE AtLabel(from) = {}
  <2>1. pc' = pc
    BY <1>1 DEF Signal, AtLabel
  <2> QED BY <1>1, <2>1 DEF AtLabel
<1>2. CASE AtLabel(from) # {}
  <2>1. PICK p \in Workers : pc[p] = from /\ pc' = [pc EXCEPT ![p] = to]
    BY <1>2 DEF Signal, AtLabel
  <2> QED BY <1>2, <2>1, OneMoves
<1> QED BY <1>1, <1>2

(* The two halves of NoLostSignal, and that nobody sleeps once the          *)
(* scheduler is closed: what makes the broadcast of Close enough.           *)
WorkersAwake ==
    AtLabel("waitWork") # {} => Len(queue) <= Cardinality(AtLabel("take"))
PublishersAwake ==
    AtLabel("waitSpace") # {} =>
        QueueCapacity - Len(results) <= Cardinality(AtLabel("recheck"))
NobodySleeps == closed => AtLabel("waitWork") = {} /\ AtLabel("waitSpace") = {}
SignalInv == WorkersAwake /\ PublishersAwake /\ NobodySleeps

LEMMA SignalStep ==
  ASSUME IsFiniteSet(Workers)
  PROVE  IInv /\ WithinCapacity /\ SignalInv /\ [Next]_vars => SignalInv'
<1> SUFFICES ASSUME IInv, WithinCapacity, SignalInv, [Next]_vars PROVE SignalInv'
  OBVIOUS
<1> USE DEF IInv, SignalInv
<1>1. /\ TypeOK /\ queue \in Seq(Works) /\ results \in Seq(Works)
      /\ QueueCapacity \in Nat /\ Len(queue) \in Nat /\ Len(results) \in Nat
      /\ Len(queue) <= QueueCapacity /\ Len(results) <= QueueCapacity
      /\ {"take", "waitWork", "waitSpace", "recheck", "run", "publish", "wake",
          "exited"} = Labels
  BY CapacityAssumption DEF TypeOK, WithinCapacity, Labels
<1>2. \A l : /\ Cardinality(AtLabel(l)) \in Nat
             /\ AtLabel(l) # {} => Cardinality(AtLabel(l)) > 0
             /\ Cardinality(AtLabel(l)') \in Nat
  <2> TAKE l
  <2>1. AtLabel(l) \in SUBSET Workers /\ AtLabel(l)' \in SUBSET Workers
    BY DEF AtLabel
  <2> QED BY <2>1, Counts
<1>3. ASSUME NEW w \in Works, SubmitAccepted(w) PROVE SignalInv'
  <2>1. Len(queue') = Len(queue) + 1 /\ results' = results /\ closed' = closed /\ ~closed
    BY <1>1, <1>3, AppendElements DEF SubmitAccepted, Admits
  <2>2. /\ AtLabel("waitSpace")' = AtLabel("waitSpace")
        /\ AtLabel("recheck")' = AtLabel("recheck")
        /\ AtLabel("waitWork") = {} => AtLabel("waitWork")' = {}
        /\ AtLabel("waitWork") # {} =>
              Cardinality(AtLabel("take")') = Cardinality(AtLabel("take")) + 1
    BY <1>1, <1>3, SignalCounts DEF SubmitAccepted, WakeWorker
  <2>3. WorkersAwake'
    BY <1>1, <1>2, <2>1, <2>2 DEF WorkersAwake
  <2>4. PublishersAwake' /\ NobodySleeps'
    BY <2>1, <2>2 DEF PublishersAwake, NobodySleeps
  <2> QED BY <2>3, <2>4
<1>4. CASE TakeCompletion
  <2>1. Len(results') = Len(results) - 1 /\ UNCHANGED << queue, closed >>
    BY <1>1, <1>4, TailElements DEF TakeCompletion
  <2>2. /\ AtLabel("waitWork")' = AtLabel("waitWork")
        /\ AtLabel("take")' = AtLabel("take")
        /\ AtLabel("waitSpace") = {} => AtLabel("waitSpace")' = {}
        /\ AtLabel("waitSpace") # {} =>
              Cardinality(AtLabel("recheck")') = Cardinality(AtLabel("recheck")) + 1
    BY <1>1, <1>4, SignalCounts DEF TakeCompletion, WakePublisher
  <2>3. PublishersAwake'
    BY <1>1, <1>2, <2>1, <2>2 DEF PublishersAwake
  <2>4. WorkersAwake' /\ NobodySleeps'
    BY <2>1, <2>2 DEF WorkersAwake, NobodySleeps
  <2> QED BY <2>3, <2>4
<1>5. ASSUME NEW p \in Workers, TakeWork(p) PROVE SignalInv'
  <2>1. /\ Len(queue') = Len(queue) - 1 /\ results' = results /\ closed' = closed
        /\ pc[p] = "take" /\ pc' = [pc EXCEPT ![p] = "run"]
    BY <1>1, <1>5, TailElements DEF TakeWork
  <2>2. /\ AtLabel("waitWork")' = AtLabel("waitWork")
        /\ AtLabel("waitSpace")' = AtLabel("waitSpace")
        /\ AtLabel("recheck")' = AtLabel("recheck")
        /\ Cardinality(AtLabel("take")') = Cardinality(AtLabel("take")) - 1
    BY ZenonT(30), <1>1, <2>1, OneMoves DEF Labels
  <2>3. WorkersAwake'
    BY <1>1, <1>2, <2>1, <2>2 DEF WorkersAwake
  <2> QED BY <2>1, <2>2, <2>3 DEF PublishersAwake, NobodySleeps
<1>6. ASSUME NEW p \in Workers, AwaitWork(p) PROVE SignalInv'
  <2>1. /\ queue = << >> /\ UNCHANGED << queue, results, closed >> /\ ~closed
        /\ pc[p] = "take" /\ pc' = [pc EXCEPT ![p] = "waitWork"]
    BY <1>6 DEF AwaitWork, sched
  <2>2. /\ AtLabel("waitSpace")' = AtLabel("waitSpace")
        /\ AtLabel("recheck")' = AtLabel("recheck")
        /\ Cardinality(AtLabel("take")') \in Nat
    BY ZenonT(30), <1>1, <1>2, <2>1, OneMoves DEF Labels
  <2>3. WorkersAwake'
    BY <2>1, <2>2 DEF WorkersAwake
  <2> QED BY <2>1, <2>2, <2>3 DEF PublishersAwake, NobodySleeps
<1>7. ASSUME NEW p \in Workers, AwaitSpace(p) PROVE SignalInv'
  <2>1. /\ Len(results) >= QueueCapacity /\ UNCHANGED << queue, results, closed >>
        /\ ~closed /\ pc[p] \in {"publish", "recheck"}
        /\ pc' = [pc EXCEPT ![p] = "waitSpace"]
    BY <1>1, <1>7 DEF AwaitSpace, Room
  <2>2. /\ AtLabel("waitWork")' = AtLabel("waitWork")
        /\ AtLabel("take")' = AtLabel("take")
        /\ Cardinality(AtLabel("recheck")') \in Nat
    BY <1>1, <1>2, <2>1, OneMoves DEF Labels
  <2>3. PublishersAwake'
    BY <1>1, <2>1, <2>2 DEF PublishersAwake
  <2> QED BY <2>1, <2>2, <2>3 DEF WorkersAwake, NobodySleeps
<1>8. ASSUME NEW p \in Workers, Publish(p) PROVE SignalInv'
  <2>1. /\ holding[p] \in Works /\ UNCHANGED << queue, closed >> /\ ~closed
        /\ results' = Append(results, holding[p])
        /\ pc[p] \in {"publish", "recheck"} /\ pc' = [pc EXCEPT ![p] = "wake"]
    BY <1>1, <1>8 DEF TypeOK, Shape, Publish
  <2>2. Len(results') = Len(results) + 1
    BY <1>1, <2>1, AppendElements
  <2>3. /\ AtLabel("waitWork")' = AtLabel("waitWork")
        /\ AtLabel("take")' = AtLabel("take")
        /\ AtLabel("waitSpace")' = AtLabel("waitSpace")
        /\ \/ AtLabel("recheck")' = AtLabel("recheck")
           \/ Cardinality(AtLabel("recheck")') = Cardinality(AtLabel("recheck")) - 1
    BY <1>1, <2>1, OneMoves DEF Labels
  <2>4. PublishersAwake'
    BY <1>1, <1>2, <2>2, <2>3 DEF PublishersAwake
  <2> QED BY <2>1, <2>3, <2>4 DEF WorkersAwake, NobodySleeps
<1>9. ASSUME NEW p \in Workers, ExitOnClose(p) \/ DropResult(p) PROVE SignalInv'
  <2>1. closed /\ UNCHANGED << queue, results, closed >>
    BY <1>9 DEF ExitOnClose, DropResult, sched
  <2>2. AtLabel("waitWork")' = {} /\ AtLabel("waitSpace")' = {}
    BY <1>9, <2>1 DEF ExitOnClose, DropResult, NobodySleeps, AtLabel, TypeOK
  <2> QED BY <2>2 DEF WorkersAwake, PublishersAwake, NobodySleeps
<1>10. ASSUME NEW p \in Workers, RunJob(p) PROVE SignalInv'
  <2>1. /\ UNCHANGED << queue, results, closed >>
        /\ pc[p] = "run" /\ pc' = [pc EXCEPT ![p] = "publish"]
    BY <1>10 DEF RunJob, sched
  <2>2. \A l \in {"take", "waitWork", "waitSpace", "recheck"} : AtLabel(l)' = AtLabel(l)
    BY <1>1, <2>1, OneMoves DEF Labels
  <2> QED BY <2>1, <2>2 DEF WorkersAwake, PublishersAwake, NobodySleeps
<1>11. ASSUME NEW p \in Workers, WakeOwner(p) PROVE SignalInv'
  <2>1. /\ UNCHANGED << queue, results, closed >>
        /\ pc[p] = "wake" /\ pc' = [pc EXCEPT ![p] = "take"]
    BY <1>11 DEF WakeOwner, sched
  <2>2. /\ \A l \in {"waitWork", "waitSpace", "recheck"} : AtLabel(l)' = AtLabel(l)
        /\ Cardinality(AtLabel("take")') = Cardinality(AtLabel("take")) + 1
    BY <1>1, <2>1, OneMoves DEF Labels
  <2>3. WorkersAwake'
    BY <1>1, <1>2, <2>1, <2>2 DEF WorkersAwake
  <2> QED BY <2>1, <2>2, <2>3 DEF PublishersAwake, NobodySleeps
<1>12. CASE CloseBegin
  <2>1. AtLabel("waitWork")' = {} /\ AtLabel("waitSpace")' = {}
    BY <1>12 DEF CloseBegin, Broadcast, AtLabel
  <2> QED BY <2>1 DEF WorkersAwake, PublishersAwake, NobodySleeps
<1>13. CASE JoinWorkers
  <2>1. AtLabel("waitWork")' = {} /\ AtLabel("waitSpace")' = {}
    BY <1>13 DEF JoinWorkers, WorkersGone, AtLabel
  <2> QED BY <2>1 DEF WorkersAwake, PublishersAwake, NobodySleeps
<1>14. CASE UNCHANGED << queue, results, closed, pc >>
  BY <1>14 DEF WorkersAwake, PublishersAwake, NobodySleeps, AtLabel
<1> QED
  BY <1>3, <1>4, <1>5, <1>6, <1>7, <1>8, <1>9, <1>10, <1>11, <1>12, <1>13, <1>14
  DEF Next, vars, sched, Submit, SubmitRejected, Worker, Consumer, ReceiveReady,
      TakeNothing, Finish, CloseStep, CloseOne, CloseReturn

(* Signal is lost when nobody waits; still no worker sleeps while there is   *)
(* more work, or more space, than awake workers will take (the conditions   *)
(* of scheduler.go).  The pool is finite: New starts Options.Workers.        *)
THEOREM SignalsSuffice ==
  ASSUME IsFiniteSet(Workers)
  PROVE  Spec => []NoLostSignal
<1>1. Init => SignalInv
  BY DEF Init, SignalInv, WorkersAwake, PublishersAwake, NobodySleeps, AtLabel
<1>2. IInv /\ WithinCapacity /\ SignalInv /\ [Next]_vars => SignalInv'
  BY SignalStep
<1>3. SignalInv => NoLostSignal
  BY DEF SignalInv, WorkersAwake, PublishersAwake, AtLabel, NoLostSignal
<1> QED BY <1>1, <1>2, <1>3, Invariance, CapacityKept, PTL DEF Spec
=============================================================================
