------------------------------ MODULE ImageStore ------------------------------
(***************************************************************************)
(* internal/termimage: the images of one pane.  The owner's thread begins  *)
(* transfers, publishes decoded candidates as resources, removes them, and *)
(* resets or closes the store, each in steps; a decode worker meanwhile    *)
(* takes the payload of a transfer and reserves, registers, fills and      *)
(* seals a candidate without the owner's lock.  Published states are       *)
(* immutable and replaced by one compare-and-swap; the epoch tells what    *)
(* belongs to a state that is gone.                                        *)
(*                                                                         *)
(* One action is one atomic access that others can tell apart.  Candidates *)
(* and transfers are Go pointers: they are numbered as they are made.  A   *)
(* lease of decoded memory counts 1, and moves with its pixels from the    *)
(* candidate to the resource made of it, so both have one number.  How a   *)
(* reservation takes its counters is ImageBudget; here it succeeds at once *)
(* or is refused, which other panes can cause at any time.                 *)
(***************************************************************************)
EXTENDS Integers, Sequences, FiniteSets

CONSTANTS
    Workers, Images,
    DecodedLimit, TransferLimit,    \* limits of the pane, in leases
    MaxCandidates, MaxTransfers, MaxEpoch, MaxGeneration    \* bounds

ASSUME StoreBounds ==
    {DecodedLimit, TransferLimit, MaxCandidates, MaxTransfers, MaxEpoch, MaxGeneration} \subseteq Nat

VARIABLES
    state,              \* the published storeState
    resetting, prepared, preparedClose,     \* what the owner has under way
    owner,              \* where the owner is, and what it has yet to close
    candidates, pending,    \* the registries
    candidate, transfer,    \* every candidate and transfer made
    decoded, transfers, \* the pane's counters
    job,                \* each worker's decode
    named               \* history: the pixels every published reference named

vars == <<state, resetting, prepared, preparedClose, owner, candidates, pending,
          candidate, transfer, decoded, transfers, job, named>>
(* what only the owner changes *)
ownerVars == <<state, resetting, prepared, preparedClose, owner, named>>

NoRef == [generation |-> 0, pixels |-> 0]
NoPrepared == [kind |-> "none"]
NoJob == [at |-> "idle", transfer |-> 0, epoch |-> 0, scratch |-> FALSE, candidate |-> 0]

Init ==
    /\ state = [epoch |-> 1, closed |-> FALSE, next |-> 0,
                resources |-> [i \in Images |-> NoRef]]
    /\ resetting = FALSE /\ preparedClose = FALSE
    /\ prepared = NoPrepared
    /\ owner = [at |-> "idle", pixels |-> {}]
    /\ candidates = {} /\ pending = {}
    /\ candidate = <<>> /\ transfer = <<>>
    /\ decoded = 0 /\ transfers = 0
    /\ job = [g \in Workers |-> NoJob]
    /\ named = {}

Current(epoch) == ~state.closed /\ ~resetting /\ state.epoch = epoch
Pixels(resources) == {resources[i].pixels : i \in Images} \ {0}

-----------------------------------------------------------------------------
(* A decode worker. *)
At(g, at) == job' = [job EXCEPT ![g].at = at]

(* TakeSealedPayload: the job takes over what the transfer holds.           *)
TakePayload(g, t) ==
    /\ job[g] = NoJob /\ transfer[t].state = "sealed"
    /\ Current(transfer[t].epoch)
    /\ transfer' = [transfer EXCEPT ![t].state = "taken"]
    /\ pending' = pending \ {t}
    /\ job' = [job EXCEPT ![g] = [NoJob EXCEPT !.at = "started", !.transfer = t]]
    /\ UNCHANGED <<ownerVars, candidates, candidate, decoded, transfers>>

(* The store was reset or closed since: the job closes the transfer.        *)
PayloadRefused(t) ==
    /\ transfer[t].state = "sealed" /\ ~Current(transfer[t].epoch)
    /\ transfer' = [transfer EXCEPT ![t].state = "closed"]
    /\ pending' = pending \ {t} /\ transfers' = transfers - 1
    /\ UNCHANGED <<ownerVars, candidates, candidate, decoded, job>>

(* ReserveDecodeScratch and NewDecodedCandidate first look at the state ... *)
Look(g) ==
    /\ job[g].at \in {"started", "scratched"}
    /\ ~state.closed /\ ~resetting
    /\ job' = [job EXCEPT ![g].at = IF @ = "started" THEN "wantScratch" ELSE "wantCandidate",
                          ![g].epoch = state.epoch]
    /\ UNCHANGED <<ownerVars, candidates, pending, candidate, transfer, decoded, transfers>>

(* ... then reserve ... *)
ReserveDecoded(g) ==
    /\ job[g].at \in {"wantScratch", "wantCandidate"}
    /\ decoded + 1 <= DecodedLimit
    /\ decoded' = decoded + 1
    /\ At(g, IF job[g].at = "wantScratch" THEN "checkScratch" ELSE "checkCandidate")
    /\ UNCHANGED <<ownerVars, candidates, pending, candidate, transfer, transfers>>

(* ... and look again: ReserveDecodeScratch keeps the lease ... *)
KeepScratch(g) ==
    /\ job[g].at = "checkScratch" /\ Current(job[g].epoch)
    /\ job' = [job EXCEPT ![g].at = "scratched", ![g].scratch = TRUE]
    /\ UNCHANGED <<ownerVars, candidates, pending, candidate, transfer, decoded, transfers>>

(* ... and NewDecodedCandidate, having allocated the pixels, looks once     *)
(* more under candidateMu before it registers.                              *)
AllocatePixels(g) ==
    /\ job[g].at = "checkCandidate"
    /\ ~state.closed /\ state.epoch = job[g].epoch
    /\ At(g, "register")
    /\ UNCHANGED <<ownerVars, candidates, pending, candidate, transfer, decoded, transfers>>

RegistersAnyway(g) == TRUE                                        \* a mutant
RegistersStale(g) == ~state.closed /\ ~resetting                  \* a mutant
MayRegister(g) == Current(job[g].epoch)

Register(g, i) ==
    /\ job[g].at = "register" /\ Len(candidate) < MaxCandidates
    /\ MayRegister(g)
    /\ candidate' = Append(candidate, [image |-> i, epoch |-> job[g].epoch, state |-> "open"])
    /\ candidates' = candidates \cup {Len(candidate) + 1}
    /\ job' = [job EXCEPT ![g].at = "decoding", ![g].candidate = Len(candidate) + 1]
    /\ UNCHANGED <<ownerVars, pending, transfer, decoded, transfers>>

Leases(g) == (IF job[g].scratch THEN 1 ELSE 0)
             + (IF job[g].at \in {"checkScratch", "checkCandidate", "register"} THEN 1 ELSE 0)

(* Any of these calls was refused, or found the store changed, or the data  *)
(* was bad, or the context cancelled: the job gives back all it holds.      *)
Fail(g) ==
    LET c == job[g].candidate
        mine == job[g].at = "decoding" /\ candidate[c].state = "open"
    IN /\ job[g].at # "idle"
       /\ candidate' = IF mine THEN [candidate EXCEPT ![c].state = "closed"] ELSE candidate
       /\ candidates' = candidates \ {c}
       /\ decoded' = decoded - Leases(g) - (IF mine THEN 1 ELSE 0)
       /\ transfers' = transfers - 1
       /\ job' = [job EXCEPT ![g] = NoJob]
       /\ UNCHANGED <<ownerVars, pending, transfer>>

(* SealWrites: the candidate is the job's result. *)
Seal(g) ==
    LET c == job[g].candidate
    IN /\ job[g].at = "decoding" /\ candidate[c].state = "open"
       /\ candidate' = [candidate EXCEPT ![c].state = "sealed"]
       /\ decoded' = decoded - Leases(g)
       /\ transfers' = transfers - 1
       /\ job' = [job EXCEPT ![g] = NoJob]
       /\ UNCHANGED <<ownerVars, candidates, pending, transfer>>

(* DecodedCandidate.Close of a result nobody wants, on any thread.          *)
Closable(C) == {c \in C : candidate[c].state \in {"open", "sealed"}}
CandidatesClosed(C) ==
    [c \in DOMAIN candidate |->
        IF c \in Closable(C) THEN [candidate[c] EXCEPT !.state = "closed"] ELSE candidate[c]]

CloseResult(c) ==
    /\ candidate[c].state = "sealed"
    /\ candidate' = CandidatesClosed({c})
    /\ candidates' = candidates \ {c}
    /\ decoded' = decoded - 1
    /\ UNCHANGED <<ownerVars, pending, transfer, transfers, job>>

-----------------------------------------------------------------------------
(* The owner.  preparedClose keeps it from every operation but the close.   *)
MayEnter == owner.at = "idle" /\ ~preparedClose /\ ~state.closed

Open(T) == {t \in T : transfer[t].state \in {"open", "sealed"}}
TransfersClosed(T) ==
    [t \in DOMAIN transfer |->
        IF t \in Open(T) THEN [transfer[t] EXCEPT !.state = "closed"] ELSE transfer[t]]

BeginTransfer ==
    /\ owner.at = "idle" /\ Len(transfer) < MaxTransfers
    /\ ~state.closed /\ ~resetting
    /\ transfers + 1 <= TransferLimit
    /\ transfers' = transfers + 1
    /\ transfer' = Append(transfer, [epoch |-> state.epoch, state |-> "open"])
    /\ pending' = pending \cup {Len(transfer) + 1}
    /\ UNCHANGED <<ownerVars, candidates, candidate, decoded, job>>

SealTransfer(t) ==
    /\ owner.at = "idle" /\ transfer[t].state = "open"
    /\ transfer' = [transfer EXCEPT ![t].state = "sealed"]
    /\ UNCHANGED <<ownerVars, candidates, pending, candidate, decoded, transfers, job>>

(* closeLocked: the transfer failed, expired or was given up. *)
CloseTransfer(t) ==
    /\ owner.at = "idle" /\ Open({t}) # {}
    /\ transfer' = TransfersClosed({t})
    /\ pending' = pending \ {t} /\ transfers' = transfers - 1
    /\ UNCHANGED <<ownerVars, candidates, candidate, decoded, job>>

ValidFor(c) == candidate[c].state = "sealed" /\ Current(candidate[c].epoch)

(* prepareCandidate claims the pixels and their lease. *)
PrepareCandidate(c) ==
    LET i == candidate[c].image
        ref == [generation |-> state.next + 1, pixels |-> c]
    IN /\ MayEnter /\ ~resetting /\ prepared = NoPrepared
       /\ ValidFor(c) /\ state.next < MaxGeneration
       /\ candidate' = [candidate EXCEPT ![c].state = "claimed"]
       /\ candidates' = candidates \ {c}
       /\ prepared' = [kind |-> "candidate", published |-> FALSE, made |-> {c},
                       retired |-> {state.resources[i].pixels} \ {0},
                       candidates |-> {}, pending |-> {},
                       next |-> [state EXCEPT !.resources[i] = ref, !.next = ref.generation]]
       /\ UNCHANGED <<state, resetting, preparedClose, owner, named, pending, transfer,
                      decoded, transfers, job>>

PrepareRemoval(S) ==
    /\ MayEnter /\ ~resetting /\ prepared = NoPrepared
    /\ prepared' = [kind |-> "removal", published |-> FALSE, made |-> {},
                    retired |-> {state.resources[i].pixels : i \in S} \ {0},
                    candidates |-> {}, pending |-> {},
                    next |-> [state EXCEPT !.resources =
                                [i \in Images |-> IF i \in S THEN NoRef ELSE @[i]]]]
    /\ UNCHANGED <<state, resetting, preparedClose, owner, named, candidates, pending,
                   candidate, transfer, decoded, transfers, job>>

(* commit: what was published stands, and what it replaced is closed.       *)
CommitOf(p) ==
    /\ prepared' = NoPrepared
    /\ candidate' = CandidatesClosed(p.candidates)
    /\ candidates' = candidates \ p.candidates
    /\ transfer' = TransfersClosed(p.pending)
    /\ pending' = pending \ p.pending
    /\ transfers' = transfers - Cardinality(Open(p.pending))
    /\ decoded' = decoded - Cardinality(p.retired) - Cardinality(Closable(p.candidates))

AbortForgets(p) == decoded                                        \* a mutant
AfterAbort(p) == decoded - Cardinality(p.made)

(* abort: what was made for it is closed. *)
AbortOf(p) ==
    /\ prepared' = NoPrepared
    /\ decoded' = AfterAbort(p)
    /\ UNCHANGED <<candidate, candidates, transfer, pending, transfers>>

(* resolvePrepared *)
Resolve ==
    CASE prepared = NoPrepared ->
            UNCHANGED <<prepared, candidate, candidates, transfer, pending, transfers, decoded>>
      [] prepared # NoPrepared /\ prepared.published -> CommitOf(prepared)
      [] OTHER -> AbortOf(prepared)

(* prepareReset stops registration, resolves what was prepared ... *)
BeginReset ==
    /\ MayEnter /\ ~resetting /\ state.epoch < MaxEpoch
    /\ resetting' = TRUE
    /\ owner' = [owner EXCEPT !.at = "collect"]
    /\ Resolve
    /\ UNCHANGED <<state, preparedClose, named, job>>

(* ... and collects the registries, each under its lock. *)
PrepareReset ==
    /\ owner.at = "collect"
    /\ prepared' = [kind |-> "reset", published |-> FALSE, made |-> {},
                    retired |-> Pixels(state.resources),
                    candidates |-> candidates, pending |-> pending,
                    next |-> [state EXCEPT !.epoch = @ + 1,
                                           !.resources = [i \in Images |-> NoRef]]]
    /\ owner' = [owner EXCEPT !.at = "idle"]
    /\ UNCHANGED <<state, resetting, preparedClose, named, candidates, pending, candidate,
                   transfer, decoded, transfers, job>>

GenerationRestarts == [prepared.next EXCEPT !.next = IF prepared.kind = "reset" THEN 0 ELSE @]  \* a mutant
NextState == prepared.next

(* publishPrepared: the state first ... *)
Publish ==
    /\ MayEnter /\ prepared # NoPrepared /\ ~prepared.published
    /\ state' = NextState
    /\ prepared' = [prepared EXCEPT !.published = TRUE]
    /\ named' = named \cup {<<i, prepared.next.resources[i].generation,
                              prepared.next.resources[i].pixels>> :
                            i \in {i \in Images : prepared.next.resources[i] # NoRef}}
    /\ owner' = [owner EXCEPT !.at = IF prepared.kind = "reset" THEN "swap" ELSE "idle"]
    /\ UNCHANGED <<resetting, preparedClose, candidates, pending, candidate, transfer,
                   decoded, transfers, job>>

(* ... and after a reset the registries. *)
SwapRegistries ==
    /\ owner.at = "swap"
    /\ candidates' = {} /\ pending' = {}
    /\ owner' = [owner EXCEPT !.at = "idle"]
    /\ UNCHANGED <<state, resetting, prepared, preparedClose, named, candidate, transfer,
                   decoded, transfers, job>>

Commit ==
    /\ MayEnter /\ prepared # NoPrepared /\ prepared.published
    /\ CommitOf(prepared)
    /\ owner' = [owner EXCEPT !.at = IF prepared.kind = "reset" THEN "reopen" ELSE "idle"]
    /\ UNCHANGED <<state, resetting, preparedClose, named, job>>

Abort ==
    /\ MayEnter /\ prepared # NoPrepared /\ ~prepared.published
    /\ AbortOf(prepared)
    /\ owner' = [owner EXCEPT !.at = IF prepared.kind = "reset" THEN "reopen" ELSE "idle"]
    /\ UNCHANGED <<state, resetting, preparedClose, named, job>>

(* The last step of a reset: registration is possible again. *)
Reopen ==
    /\ owner.at = "reopen"
    /\ resetting' = FALSE
    /\ owner' = [owner EXCEPT !.at = "idle"]
    /\ UNCHANGED <<state, prepared, preparedClose, named, candidates, pending, candidate,
                   transfer, decoded, transfers, job>>

-----------------------------------------------------------------------------
(* Closing: a preflight that is committed or aborted. *)
PrepareClose ==
    /\ MayEnter
    /\ preparedClose' = TRUE
    /\ UNCHANGED <<state, resetting, prepared, owner, named, candidates, pending, candidate,
                   transfer, decoded, transfers, job>>

AbortClose ==
    /\ owner.at = "idle" /\ preparedClose
    /\ preparedClose' = FALSE
    /\ UNCHANGED <<state, resetting, prepared, owner, named, candidates, pending, candidate,
                   transfer, decoded, transfers, job>>

ResolvesNothing ==                                                \* a mutant
    UNCHANGED <<prepared, candidate, candidates, transfer, pending, transfers, decoded>>
ResolveFirst == Resolve

(* closeOwned resolves what is prepared ... *)
BeginClose ==
    /\ owner.at = "idle" /\ preparedClose
    /\ ResolveFirst
    /\ owner' = [owner EXCEPT !.at = "close"]
    /\ UNCHANGED <<state, resetting, preparedClose, named, job>>

(* ... publishes the closed state ... *)
PublishClosed ==
    /\ owner.at = "close"
    /\ state' = [state EXCEPT !.closed = TRUE, !.epoch = @ + 1,
                              !.resources = [i \in Images |-> NoRef]]
    /\ owner' = [at |-> "take", pixels |-> Pixels(state.resources)]
    /\ UNCHANGED <<resetting, prepared, preparedClose, named, candidates, pending, candidate,
                   transfer, decoded, transfers, job>>

(* ... takes and closes the registered candidates ... *)
TakeCandidates ==
    /\ owner.at = "take"
    /\ candidate' = CandidatesClosed(candidates)
    /\ decoded' = decoded - Cardinality(Closable(candidates))
    /\ candidates' = {}
    /\ owner' = [owner EXCEPT !.at = "finish"]
    /\ UNCHANGED <<state, resetting, prepared, preparedClose, named, pending, transfer,
                   transfers, job>>

(* ... the transfers and the resources, and releases the owner.             *)
FinishClose ==
    /\ owner.at = "finish"
    /\ transfer' = TransfersClosed(pending)
    /\ transfers' = transfers - Cardinality(Open(pending))
    /\ pending' = {}
    /\ decoded' = decoded - Cardinality(owner.pixels)
    /\ resetting' = FALSE /\ preparedClose' = FALSE
    /\ owner' = [at |-> "released", pixels |-> {}]
    /\ UNCHANGED <<state, prepared, named, candidates, candidate, job>>

-----------------------------------------------------------------------------
Worker(g) ==
    \/ \E t \in DOMAIN transfer : TakePayload(g, t)
    \/ Look(g) \/ ReserveDecoded(g) \/ KeepScratch(g) \/ AllocatePixels(g)
    \/ \E i \in Images : Register(g, i)
    \/ Seal(g) \/ Fail(g)

Owner ==
    \/ BeginTransfer
    \/ \E t \in DOMAIN transfer : SealTransfer(t) \/ CloseTransfer(t)
    \/ \E c \in DOMAIN candidate : PrepareCandidate(c)
    \/ \E S \in SUBSET Images : PrepareRemoval(S)
    \/ BeginReset \/ PrepareReset
    \/ Publish \/ SwapRegistries \/ Commit \/ Abort \/ Reopen
    \/ PrepareClose \/ AbortClose
    \/ BeginClose \/ PublishClosed \/ TakeCandidates \/ FinishClose

Next ==
    \/ Owner
    \/ \E g \in Workers : Worker(g)
    \/ \E t \in DOMAIN transfer : PayloadRefused(t)
    \/ \E c \in DOMAIN candidate : CloseResult(c)

Spec == Init /\ [][Next]_vars
-----------------------------------------------------------------------------
(* Pixels somebody will still close: registered, published, prepared,       *)
(* replaced by what was published, or in the owner's hands while it closes. *)
(* What is prepared can be resolved only as long as there is an owner.      *)
Unresolved == prepared # NoPrepared /\ owner.at # "released"
Reachable ==
    Closable(candidates) \cup Pixels(state.resources) \cup owner.pixels
    \cup (IF ~Unresolved THEN {}
          ELSE IF prepared.published THEN prepared.retired \cup Closable(prepared.candidates)
          ELSE prepared.made)

(* What the counters say is reserved is what reachable candidates, resources *)
(* and jobs hold, in every interleaving of a job with a reset or a close,    *)
(* with what was prepared before it: no memory is charged to nobody, and no  *)
(* candidate or transfer that can still be closed has been dropped.          *)
NothingLeaks ==
    LET Running == {g \in Workers : job[g].at # "idle"}
        ReachableTransfers ==
            Open(pending \cup IF Unresolved THEN prepared.pending ELSE {})
    IN /\ decoded = Cardinality(Reachable)
                    + Cardinality({g \in Workers : job[g].scratch})
                    + Cardinality({g \in Running : job[g].at \in
                                       {"checkScratch", "checkCandidate", "register"}})
       /\ Closable(DOMAIN candidate) \subseteq Reachable
       /\ transfers = Cardinality(ReachableTransfers) + Cardinality(Running)
       /\ Open(DOMAIN transfer) = ReachableTransfers

(* What is published was decoded in the epoch it is published in; and when   *)
(* no reset is under way, so was every candidate that is registered.         *)
EpochsKept ==
    /\ \A c \in Pixels(state.resources) : candidate[c].epoch = state.epoch
    /\ ~resetting /\ ~state.closed =>
          \A c \in candidates : candidate[c].epoch = state.epoch

(* A reference of image and generation names the same pixels for ever, over  *)
(* aborts and resets: readers and the GPU's cache keep pixels by reference.  *)
RefsNameOne ==
    \A r, s \in named : r[1] = s[1] /\ r[2] = s[2] => r[3] = s[3]

(* A reader of the store gets the pixels it asked for: both of the above.    *)
PublicationsKept == EpochsKept /\ RefsNameOne
=============================================================================
