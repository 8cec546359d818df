----------------------------- MODULE WorkLedger -----------------------------
(***************************************************************************)
(* What a client of internal/workscheduler may rely on, with nothing of    *)
(* how it is done: every work handed to Submit ends exactly once, the      *)
(* works of one key are served one at a time, and only Close may throw an  *)
(* accepted work away.  WorkScheduler implements this specification.       *)
(***************************************************************************)
CONSTANTS Works,    \* the works clients ever submit
          Keys,     \* the owners of works (pane identifiers in the program)
          KeyOf     \* the Key field of each work

VARIABLES fate,     \* what has become of each work
          busy,     \* the keys a new work is refused for
          shut      \* Close has begun

vars == <<fate, busy, shut>>

Fates == {"new", "accepted", "rejected", "delivered", "closed"}

TypeOK == /\ fate \in [Works -> Fates]
          /\ busy \subseteq Keys
          /\ shut \in BOOLEAN

Init == /\ fate = [w \in Works |-> "new"]
        /\ busy = {}
        /\ shut = FALSE

(* Submit returned nil. *)
Accept(w) == /\ fate[w] = "new"
             /\ ~shut
             /\ KeyOf[w] \notin busy
             /\ fate' = [fate EXCEPT ![w] = "accepted"]
             /\ busy' = busy \cup {KeyOf[w]}
             /\ UNCHANGED shut

(* Submit returned an error and closed the job: allowed at any time, since *)
(* the queue may be full.                                                  *)
Reject(w) == /\ fate[w] = "new"
             /\ fate' = [fate EXCEPT ![w] = "rejected"]
             /\ UNCHANGED <<busy, shut>>

(* TakeCompletion returned the result of w to its client. *)
Deliver(w) == /\ fate[w] = "accepted"
              /\ fate' = [fate EXCEPT ![w] = "delivered"]
              /\ UNCHANGED <<busy, shut>>

(* The client called Finish for the key of a work delivered to it.  The key *)
(* belongs to nobody else: none of its works is still under way.            *)
Finish(k) == /\ \A w \in Works : KeyOf[w] = k => fate[w] # "accepted"
             /\ busy' = busy \ {k}
             /\ UNCHANGED <<fate, shut>>

(* Close forbids further works and forgets the keys of the queued ones. *)
Shut == /\ ~shut
        /\ shut' = TRUE
        /\ \E kept \in SUBSET busy : busy' = kept
        /\ UNCHANGED fate

(* Close, or a worker that sees it, closes the job or its result. *)
Discard(w) == /\ shut
              /\ fate[w] = "accepted"
              /\ fate' = [fate EXCEPT ![w] = "closed"]
              /\ UNCHANGED <<busy, shut>>

Next == \/ \E w \in Works : Accept(w) \/ Reject(w) \/ Deliver(w) \/ Discard(w)
        \/ \E k \in Keys : Finish(k)
        \/ Shut

Spec == Init /\ [][Next]_vars
=============================================================================
