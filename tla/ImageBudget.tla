----------------------------- MODULE ImageBudget -----------------------------
(***************************************************************************)
(* internal/termimage/budget.go: the counters that bound what images may   *)
(* hold, one set for each pane and one for the process.  A reservation     *)
(* takes, kind after kind, the pane's counter and then the process's, each *)
(* by compare-and-swap and without a lock; if one is refused it gives back *)
(* what it took, last first.  Decode workers and the owner reserve and     *)
(* release concurrently.                                                   *)
(*                                                                         *)
(* One action is one compare-and-swap that succeeds, or one that refuses.  *)
(***************************************************************************)
EXTENDS Integers, Sequences, FiniteSets, Functions

CONSTANTS
    Goroutines, Panes,
    KindOrder,          \* the kinds, in the order reserve takes them
    PaneLimit, ProcessLimit,
    Usages              \* what callers ask for: functions from kinds to amounts

Kinds == {KindOrder[i] : i \in DOMAIN KindOrder}

KindAssumption ==
    /\ KindOrder \in Seq(Kinds)
    /\ \A i, j \in DOMAIN KindOrder : KindOrder[i] = KindOrder[j] => i = j
LimitAssumption ==
    /\ PaneLimit \in [Kinds -> Nat] /\ ProcessLimit \in [Kinds -> Nat]
    /\ Usages \subseteq [Kinds -> Nat]
    /\ IsFiniteSet(Goroutines) /\ IsFiniteSet(Panes) /\ IsFiniteSet(Usages) /\ Panes # {}

VARIABLES
    pane,               \* budgetCounters of each pane
    process,            \* budgetCounters of the process
    call,               \* each goroutine's call of reserve or of Close
    leases              \* how many reservations of a usage each pane has open

vars == <<pane, process, call, leases>>

NoUsage == [k \in Kinds |-> 0]
NoCall == [at |-> "idle", pane |-> CHOOSE p \in Panes : TRUE, usage |-> NoUsage, taken |-> {}]

Init ==
    /\ pane = [p \in Panes |-> NoUsage]
    /\ process = NoUsage
    /\ call = [g \in Goroutines |-> NoCall]
    /\ leases = [x \in Panes \X Usages |-> 0]

-----------------------------------------------------------------------------
(* A kind has two counters.  reservePair skips an amount of 0, and takes    *)
(* the pane's counter before the process's.                                 *)
Counters(usage) == {i \in DOMAIN KindOrder : usage[KindOrder[i]] # 0} \X {"pane", "process"}
Before(c, d) == c[1] < d[1] \/ (c[1] = d[1] /\ c[2] = "pane" /\ d[2] = "process")

Value(c, p) == IF c[2] = "pane" THEN pane[p][KindOrder[c[1]]] ELSE process[KindOrder[c[1]]]
Limit(c) == IF c[2] = "pane" THEN PaneLimit[KindOrder[c[1]]] ELSE ProcessLimit[KindOrder[c[1]]]

(* The counter a call takes next, and the one it gives back next. *)
Untaken(g) == Counters(call[g].usage) \ call[g].taken
Following(g) == CHOOSE c \in Untaken(g) : \A d \in Untaken(g) : c = d \/ Before(c, d)
Topmost(g) == CHOOSE c \in call[g].taken : \A d \in call[g].taken : c = d \/ Before(d, c)

Amount(c, g) == call[g].usage[KindOrder[c[1]]]
FitsSoFar(c, g) == Value(c, call[g].pane) < Limit(c)              \* a mutant
Fits(c, g) == Value(c, call[g].pane) + Amount(c, g) <= Limit(c)

Add(c, g, sign) ==
    IF c[2] = "pane"
    THEN pane' = [pane EXCEPT ![call[g].pane][KindOrder[c[1]]] = @ + sign * Amount(c, g)]
         /\ UNCHANGED process
    ELSE process' = [process EXCEPT ![KindOrder[c[1]]] = @ + sign * Amount(c, g)]
         /\ UNCHANGED pane

Complete(g) == call[g].taken = Counters(call[g].usage)

Reserve(g, p, u) ==
    /\ call[g].at = "idle"
    /\ call' = [call EXCEPT ![g] = [at |-> "up", pane |-> p, usage |-> u, taken |-> {}]]
    /\ UNCHANGED <<pane, process, leases>>

(* reserveCounter *)
ReserveCounter(g) ==
    /\ call[g].at = "up" /\ ~Complete(g)
    /\ Fits(Following(g), g)
    /\ Add(Following(g), g, 1)
    /\ call' = [call EXCEPT ![g].taken = @ \cup {Following(g)}]
    /\ UNCHANGED leases

ForgetsPane(g) == call[g].taken \ {<<Following(g)[1], "pane">>}    \* a mutant
StillTaken(g) == call[g].taken

RefuseCounter(g) ==
    /\ call[g].at = "up" /\ ~Complete(g)
    /\ ~Fits(Following(g), g)
    /\ call' = [call EXCEPT ![g].at = "down", ![g].taken = StillTaken(g)]
    /\ UNCHANGED <<pane, process, leases>>

Grant(g) ==
    /\ call[g].at = "up" /\ Complete(g)
    /\ leases' = [leases EXCEPT ![<<call[g].pane, call[g].usage>>] = @ + 1]
    /\ call' = [call EXCEPT ![g] = NoCall]
    /\ UNCHANGED <<pane, process>>

KeepsOpen(p, u) == leases                                         \* a mutant
Closed(p, u) == [leases EXCEPT ![<<p, u>>] = @ - 1]

(* reservation.Close, by whoever holds it: its flag lets one caller through. *)
Close(g, p, u) ==
    /\ call[g].at = "idle" /\ leases[<<p, u>>] > 0
    /\ leases' = Closed(p, u)
    /\ call' = [call EXCEPT ![g] = [at |-> "down", pane |-> p, usage |-> u,
                                    taken |-> Counters(u)]]
    /\ UNCHANGED <<pane, process>>

(* releaseCounter: the process's counter of a kind before the pane's.       *)
ReleaseCounter(g) ==
    /\ call[g].at = "down" /\ call[g].taken # {}
    /\ Add(Topmost(g), g, -1)
    /\ call' = [call EXCEPT ![g].taken = @ \ {Topmost(g)}]
    /\ UNCHANGED leases

Return(g) ==
    /\ call[g].at = "down" /\ call[g].taken = {}
    /\ call' = [call EXCEPT ![g] = NoCall]
    /\ UNCHANGED <<pane, process, leases>>

Step(g) ==
    \/ ReserveCounter(g) \/ RefuseCounter(g) \/ Grant(g)
    \/ ReleaseCounter(g) \/ Return(g)

Next == \E g \in Goroutines :
    \/ \E p \in Panes, u \in Usages : Reserve(g, p, u) \/ Close(g, p, u)
    \/ Step(g)

Spec == Init /\ [][Next]_vars
-----------------------------------------------------------------------------
(* What a call under way holds of a kind, of the pane's counters or of the  *)
(* process's.                                                               *)
Holds(g, of, k) ==
    IF \E c \in call[g].taken : KindOrder[c[1]] = k /\ c[2] = of THEN call[g].usage[k] ELSE 0

(* What open reservations and calls hold of a pane's counter, and of the    *)
(* process's.                                                               *)
InPane(p, k) ==
    SumFunctionOnSet([u \in Usages |-> leases[<<p, u>>] * u[k]], Usages)
    + SumFunctionOnSet([g \in Goroutines |->
                          IF call[g].pane = p THEN Holds(g, "pane", k) ELSE 0], Goroutines)
InProcess(k) ==
    SumFunctionOnSet([x \in Panes \X Usages |-> leases[x] * x[2][k]], Panes \X Usages)
    + SumFunctionOnSet([g \in Goroutines |-> Holds(g, "process", k)], Goroutines)

(* Every counter is the sum of what open reservations and calls under way   *)
(* hold of it, and within its limit: nothing is counted twice or for ever,  *)
(* and releaseCounter never meets less than it has to give back (it would   *)
(* panic), in whatever order calls overlap, fail half way and are undone.   *)
BudgetExact ==
    /\ \A k \in Kinds :
          /\ \A p \in Panes : pane[p][k] = InPane(p, k) /\ pane[p][k] <= PaneLimit[k]
          /\ process[k] = InProcess(k) /\ process[k] <= ProcessLimit[k]
    /\ \A g \in Goroutines : call[g].at = "down" /\ call[g].taken # {} =>
          Value(Topmost(g), call[g].pane) >= Amount(Topmost(g), g)
=============================================================================
