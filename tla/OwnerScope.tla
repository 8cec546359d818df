------------------------------ MODULE OwnerScope ------------------------------
(***************************************************************************)
(* Who may change the mux (src/internal/mux/owner.go, the dispatch of      *)
(* owner_facade.go and owner_window.go, and Shutdown).                     *)
(*                                                                         *)
(* The owner is bound to one thread, on which the goroutine that made it   *)
(* is locked until the shutdown.  Every operation enters a scope, checks   *)
(* it wherever it changes the mux, and leaves it.  Callbacks of an         *)
(* operation (resolvers, attestors, clipboard, wake-ups) may call the      *)
(* owner again on the same thread; other goroutines call it from other     *)
(* threads; and a scope may be kept after its operation ended.             *)
(***************************************************************************)
EXTENDS Naturals, Sequences, FiniteSets

CONSTANTS Goroutines, Main,   \* Main made the owner
          WindowIDs,
          MaxScopes, MaxIncarnation   \* bounds on the counters

MainAssumption == Main \in Goroutines

VARIABLES
    onOwnerThread,  \* the goroutines that run on the owner's thread
    threadLocked,   \* the thread is Main's alone
    closed, generation,
    activeScope,    \* nonce of the scope that is entered, 0 for none
    nextScope,
    entering,       \* per goroutine: its call that has not entered yet
    frames,         \* per goroutine: the scopes of its nested operations
    kept,           \* scopes somebody has a copy of
    windows,        \* live window -> incarnation
    nextIncarnation,
    changed         \* the last change: << goroutine, scope >>
vars == << onOwnerThread, threadLocked, closed, generation, activeScope, nextScope,
           entering, frames, kept, windows, nextIncarnation, changed >>

NoOrigin == << 0, 0 >>
Live == DOMAIN windows
Identities == {<< w, windows[w] >> : w \in Live}
NoScope == [nonce |-> 0, generation |-> 0, origin |-> NoOrigin]
NotCalling == [step |-> "none", origin |-> NoOrigin, nonce |-> 0]

Init ==
    /\ onOwnerThread = {Main} /\ threadLocked = TRUE
    /\ closed = FALSE /\ generation = 1
    /\ activeScope = 0 /\ nextScope = 0
    /\ entering = [g \in Goroutines |-> NotCalling]
    /\ frames = [g \in Goroutines |-> << >>]
    /\ kept = {}
    /\ \E w \in WindowIDs : windows = [v \in {w} |-> 1]
    /\ nextIncarnation = 2
    /\ changed = << Main, NoScope >>

gate == << closed, generation, activeScope, nextScope >>
-----------------------------------------------------------------------------
(* The Go scheduler moves a goroutine to or from the owner's thread.       *)
Reschedule(g) ==
    /\ ~threadLocked
    /\ onOwnerThread' \in {onOwnerThread \cup {g}, onOwnerThread \ {g}}
    /\ UNCHANGED << threadLocked, gate, entering, frames, kept, windows,
                    nextIncarnation, changed >>

(* An operation of the owner, or of the capability of a window that lives  *)
(* or lived.                                                               *)
Call(g, origin) ==
    /\ entering[g] = NotCalling /\ nextScope < MaxScopes
    /\ entering' = [entering EXCEPT ![g] =
            [step |-> "check", origin |-> origin, nonce |-> 0]]
    /\ UNCHANGED << onOwnerThread, threadLocked, gate, frames, kept, windows,
                    nextIncarnation, changed >>

Refuse(g) == entering' = [entering EXCEPT ![g] = NotCalling]

(* enterAttested, up to the nonce: closed, thread, generation, busy.       *)
Check(g) ==
    /\ entering[g].step = "check"
    /\ IF closed \/ g \notin onOwnerThread \/ generation # 1 \/ activeScope # 0
       THEN Refuse(g) /\ UNCHANGED nextScope
       ELSE /\ nextScope' = nextScope + 1
            /\ entering' = [entering EXCEPT ![g].step = "swap",
                                            ![g].nonce = nextScope + 1]
    /\ UNCHANGED << onOwnerThread, threadLocked, closed, generation, activeScope,
                    frames, kept, windows, nextIncarnation, changed >>

(* The scope is entered if none is.                                        *)
Swap(g) ==
    /\ entering[g].step = "swap"
    /\ IF activeScope = 0
       THEN /\ activeScope' = entering[g].nonce
            /\ entering' = [entering EXCEPT ![g].step = "recheck"]
       ELSE Refuse(g) /\ UNCHANGED activeScope
    /\ UNCHANGED << onOwnerThread, threadLocked, closed, generation, nextScope,
                    frames, kept, windows, nextIncarnation, changed >>

(* The owner may have closed in between.                                   *)
Recheck(g) ==
    /\ entering[g].step = "recheck"
    /\ IF closed \/ generation # 1
       THEN /\ activeScope' = IF activeScope = entering[g].nonce THEN 0 ELSE activeScope
            /\ UNCHANGED << frames, kept >>
       ELSE LET scope == [nonce |-> entering[g].nonce, generation |-> generation,
                          origin |-> entering[g].origin]
            IN /\ frames' = [frames EXCEPT ![g] = Append(@, scope)]
               /\ kept' = kept \cup {scope}
               /\ UNCHANGED activeScope
    /\ Refuse(g)
    /\ UNCHANGED << onOwnerThread, threadLocked, closed, generation, nextScope,
                    windows, nextIncarnation, changed >>

(* Mutant: the nonce is not compared.                                      *)
ValidOnThread(g, scope) ==
    /\ scope.generation = generation /\ ~closed
    /\ g \in onOwnerThread
    /\ scope.origin = NoOrigin \/ scope.origin \in Identities

(* mutationScope.valid and validOrigin.                                    *)
Valid(g, scope) ==
    /\ scope.generation = generation /\ ~closed
    /\ g \in onOwnerThread
    /\ scope.nonce # 0 /\ activeScope = scope.nonce
    /\ scope.origin = NoOrigin \/ scope.origin \in Identities

(* Code that has a copy of a scope, in an operation, a callback or later,  *)
(* changes the mux: opens a window, closes one, or something else.         *)
Change(g, scope) ==
    /\ Valid(g, scope)
    /\ changed' = << g, scope >>
    /\ \/ UNCHANGED << windows, nextIncarnation >>
       \/ /\ nextIncarnation <= MaxIncarnation
          /\ \E w \in WindowIDs \ Live :
                windows' = [v \in Live \cup {w} |-> IF v = w THEN nextIncarnation
                                                    ELSE windows[v]]
          /\ nextIncarnation' = nextIncarnation + 1
       \/ /\ \E w \in Live : windows' = [v \in Live \ {w} |-> windows[v]]
          /\ UNCHANGED nextIncarnation
    /\ UNCHANGED << onOwnerThread, threadLocked, gate, entering, frames, kept >>

(* The deferred leave of the innermost operation.                          *)
Leave(g) ==
    /\ frames[g] # << >> /\ entering[g] = NotCalling
    /\ LET scope == frames[g][Len(frames[g])] IN
       activeScope' = IF activeScope = scope.nonce THEN 0 ELSE activeScope
    /\ frames' = [frames EXCEPT ![g] = SubSeq(@, 1, Len(@) - 1)]
    /\ UNCHANGED << onOwnerThread, threadLocked, closed, generation, nextScope,
                    entering, kept, windows, nextIncarnation, changed >>

(* Mutant: Shutdown gives the thread back before it publishes the close.   *)
UnlocksFirst(g) ==
    /\ frames[g] # << >> /\ Valid(g, frames[g][Len(frames[g])])
    /\ threadLocked' = FALSE
    /\ UNCHANGED << onOwnerThread, gate, entering, frames, kept, windows,
                    nextIncarnation, changed >>

(* Shutdown, in the operation that committed it: publishClosed.            *)
PublishClosed(g) ==
    /\ frames[g] # << >> /\ Valid(g, frames[g][Len(frames[g])])
    /\ generation' = generation + 1 /\ closed' = TRUE
    /\ UNCHANGED << onOwnerThread, threadLocked, activeScope, nextScope, entering,
                    frames, kept, windows, nextIncarnation, changed >>

(* The end of Shutdown, or a later Shutdown: the thread is given back.     *)
Unlock(g) ==
    /\ closed /\ threadLocked /\ g \in onOwnerThread
    /\ threadLocked' = FALSE
    /\ UNCHANGED << onOwnerThread, gate, entering, frames, kept, windows,
                    nextIncarnation, changed >>

Origins == {NoOrigin} \cup (WindowIDs \X (1..MaxIncarnation))

Next == \E g \in Goroutines :
    \/ Reschedule(g) \/ Check(g) \/ Swap(g) \/ Recheck(g) \/ Leave(g)
    \/ PublishClosed(g) \/ Unlock(g)
    \/ \E origin \in Origins : Call(g, origin)
    \/ \E scope \in kept : Change(g, scope)

Spec == Init /\ [][Next]_vars
-----------------------------------------------------------------------------
Innermost(g) == IF frames[g] = << >> THEN NoScope ELSE frames[g][Len(frames[g])]

(* Whatever callbacks, other goroutines and copies of scopes do, a change  *)
(* of the mux is made by the goroutine that owns it, in the one operation  *)
(* that runs, before the shutdown, and for a window that still is the one  *)
(* the operation was called for.                                           *)
OnlyTheRunningOperation ==
    [][changed' # changed =>
        LET g == changed'[1]
            scope == changed'[2]
        IN /\ g = Main /\ ~closed
           /\ scope = Innermost(Main) /\ Len(frames[Main]) = 1
           /\ scope.origin \in Identities \cup {NoOrigin}]_vars
=============================================================================
