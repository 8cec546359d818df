--------------------------- MODULE ImageStoreProofs ---------------------------
(***************************************************************************)
(* Three of the models of MCImages, each for any values of its constants.  *)
(*                                                                         *)
(* The store: what is published was decoded in its epoch and a reference   *)
(* names one image for ever; and, for finitely many workers, the counters  *)
(* are exactly what candidates, resources and jobs hold.  The budget: its  *)
(* counters are what leases and calls hold.  The screens: placements stay  *)
(* on their text and agree with resources and reservations.                *)
(*                                                                         *)
(* No property of the store is inductive.  A publication takes over what   *)
(* was staged before, so Claimed, Epochs and Names also speak of the       *)
(* staged state; a staged state outlives other steps because claimed       *)
(* candidates stay claimed, and Phases says which steps of the owner meet  *)
(* one.  The counters are kept by every close only if nothing is closed    *)
(* twice (Claimed: pixels are in one place) and if what is forgotten was   *)
(* closed (Registered).  Jobs gives each open candidate its one job.  The  *)
(* arguments for the other two stand before their lemmas.                  *)
(***************************************************************************)
EXTENDS MCImages, SumLemmas, SequenceTheorems, FiniteSetTheorems, TLAPS

Ref == [generation : Nat, pixels : Nat]
States == [epoch : Nat, closed : BOOLEAN, next : Nat, resources : [Images -> Ref]]
Candidate == [image : Images, epoch : Nat, state : {"open", "sealed", "claimed", "closed"}]
Transfer == [epoch : Nat, state : {"open", "sealed", "taken", "closed"}]
Replacement ==
    [kind : {"candidate", "removal", "reset"}, published : BOOLEAN,
     made : SUBSET Nat, retired : SUBSET Nat, candidates : SUBSET Nat, pending : SUBSET Nat,
     next : States]
Job == [at : {"idle", "started", "wantScratch", "checkScratch", "scratched",
              "wantCandidate", "checkCandidate", "register", "decoding"},
        transfer : Nat, epoch : Nat, scratch : BOOLEAN, candidate : Nat]

Typed ==
    /\ state \in States
    /\ resetting \in BOOLEAN /\ preparedClose \in BOOLEAN
    /\ prepared \in {NoPrepared} \cup Replacement
    /\ owner \in [at : {"idle", "collect", "swap", "reopen", "close", "take", "finish", "released"},
                  pixels : SUBSET Nat]
    /\ candidate \in Seq(Candidate) /\ transfer \in Seq(Transfer)
    /\ candidates \subseteq DOMAIN candidate /\ pending \subseteq DOMAIN transfer
    /\ job \in [Workers -> Job]
    /\ named \subseteq Images \X Nat \X Nat

Staged == prepared # NoPrepared /\ ~prepared.published
Published == prepared # NoPrepared /\ prepared.published

(* How far a job is, and what it has then; a candidate has one job.        *)
Jobs ==
    /\ \A g \in Workers :
        /\ job[g].at \in {"idle", "started", "wantScratch", "checkScratch"} => ~job[g].scratch
        /\ IF job[g].at = "decoding"
           THEN /\ job[g].candidate \in DOMAIN candidate
                /\ candidate[job[g].candidate].state \in {"open", "closed"}
           ELSE job[g].candidate = 0
    /\ \A g, h \in Workers :
        job[g].at = "decoding" /\ job[h].at = "decoding" /\ job[g].candidate = job[h].candidate
        => g = h

(* Where the owner is while a replacement is prepared or a reset runs.     *)
Phases ==
    /\ owner.at \notin {"idle", "swap"} => prepared = NoPrepared
    /\ owner.at \notin {"take", "finish"} => owner.pixels = {}
    /\ owner.at \in {"take", "finish", "released"} =>
          state.resources = [i \in Images |-> NoRef]
    /\ owner.at = "collect" => resetting
    /\ owner.at = "swap" => Published /\ prepared.kind = "reset"
    /\ prepared # NoPrepared /\ prepared.kind = "reset" => resetting

(* Whatever can still be closed is registered, or is closed by the commit  *)
(* of what was published.                                                  *)
Registered ==
    /\ prepared # NoPrepared => /\ prepared.candidates \subseteq DOMAIN candidate
                                /\ prepared.pending \subseteq DOMAIN transfer
    /\ Closable(DOMAIN candidate)
          \subseteq candidates \cup (IF Published THEN prepared.candidates ELSE {})
    /\ Open(DOMAIN transfer)
          \subseteq pending \cup (IF Published THEN prepared.pending ELSE {})
    /\ prepared # NoPrepared /\ prepared.kind = "reset" =>
          candidates \subseteq prepared.candidates /\ pending \subseteq prepared.pending

(* Pixels that were claimed and not closed.                                *)
Owned == Pixels(state.resources) \cup owner.pixels
         \cup (IF prepared = NoPrepared THEN {}
               ELSE IF prepared.published THEN prepared.retired ELSE prepared.made)
OnePlace(refs) ==
    \A i, j \in Images : refs[i].pixels = refs[j].pixels /\ i # j => refs[i].pixels = 0
Claimed ==
    /\ \A c \in Owned : c \in DOMAIN candidate /\ candidate[c].state = "claimed"
    /\ OnePlace(state.resources)
    /\ Published => prepared.retired \cap Pixels(state.resources) = {}
    /\ Staged =>
        /\ OnePlace(prepared.next.resources)
        /\ Pixels(prepared.next.resources) \cup prepared.retired
              = Pixels(state.resources) \cup prepared.made
        /\ prepared.made \cap Pixels(state.resources) = {}
        /\ prepared.retired \cap Pixels(prepared.next.resources) = {}

Scratched == {g \in Workers : job[g].scratch}
Reserving == {g \in Workers : job[g].at \in {"checkScratch", "checkCandidate", "register"}}
Busy == {g \in Workers : job[g].at # "idle"}
MemoryCounted ==
    decoded = Cardinality(Closable(DOMAIN candidate)) + Cardinality(Owned)
              + Cardinality(Scratched) + Cardinality(Reserving)
TransfersCounted == transfers = Cardinality(Open(DOMAIN transfer)) + Cardinality(Busy)
Counted == MemoryCounted /\ TransfersCounted

Epochs ==
    /\ \A c \in Pixels(state.resources) : candidate[c].epoch = state.epoch
    /\ ~state.closed /\ owner.at # "swap" => \A c \in candidates : candidate[c].epoch = state.epoch
    /\ Staged =>
        /\ \A c \in Pixels(prepared.next.resources) : candidate[c].epoch = prepared.next.epoch
        /\ prepared.kind # "reset" => prepared.next.epoch = state.epoch

Names ==
    /\ RefsNameOne
    /\ \A i \in Images : state.resources[i] # NoRef =>
          << i, state.resources[i].generation, state.resources[i].pixels >> \in named
    /\ \A r \in named : r[2] <= state.next
    /\ Staged =>
        /\ state.next <= prepared.next.next
        /\ \A i \in Images :
            \/ prepared.next.resources[i] \in {NoRef, state.resources[i]}
            \/ prepared.next.resources[i].generation \in (state.next + 1)..prepared.next.next

IInv == Typed /\ Jobs /\ Phases /\ Registered /\ Claimed /\ Epochs /\ Names
-----------------------------------------------------------------------------
(* Candidates and transfers. *)
LEMMA Lengths ==
    ASSUME Typed
    PROVE  /\ Len(candidate) \in Nat /\ DOMAIN candidate = 1..Len(candidate)
           /\ Len(transfer) \in Nat /\ DOMAIN transfer = 1..Len(transfer)
           /\ \A c \in DOMAIN candidate : candidate[c] \in Candidate
           /\ \A t \in DOMAIN transfer : transfer[t] \in Transfer
           /\ IsFiniteSet(DOMAIN candidate) /\ IsFiniteSet(DOMAIN transfer)
<1>1. candidate \in Seq(Candidate) /\ transfer \in Seq(Transfer) BY DEF Typed
<1>2. Len(candidate) \in Nat /\ Len(transfer) \in Nat BY <1>1
<1>3. DOMAIN candidate = 1..Len(candidate) /\ DOMAIN transfer = 1..Len(transfer) BY <1>1
<1>4. IsFiniteSet(1..Len(candidate)) /\ IsFiniteSet(1..Len(transfer)) BY <1>2, FS_Interval
<1> QED BY <1>1, <1>2, <1>3, <1>4

LEMMA SequenceOf ==
    ASSUME NEW S, NEW n \in Nat, NEW s \in [1..n -> S]
    PROVE  s \in Seq(S) /\ DOMAIN s = 1..n
BY SeqDef

LEMMA CandidatesClosing ==
    ASSUME Typed, NEW C, candidate' = CandidatesClosed(C)
    PROVE  /\ candidate' \in Seq(Candidate) /\ DOMAIN candidate' = DOMAIN candidate
           /\ Closable(DOMAIN candidate)' = Closable(DOMAIN candidate) \ C
           /\ \A c \in DOMAIN candidate :
                /\ candidate'[c].epoch = candidate[c].epoch
                /\ candidate[c].state \in {"claimed", "closed"} =>
                      candidate'[c].state = candidate[c].state
                /\ candidate'[c].state \in {candidate[c].state, "closed"}
<1> USE Lengths
<1>1. \A c \in DOMAIN candidate :
        /\ [candidate[c] EXCEPT !.state = "closed"] \in Candidate
        /\ [candidate[c] EXCEPT !.state = "closed"].epoch = candidate[c].epoch
        /\ [candidate[c] EXCEPT !.state = "closed"].state = "closed"
    BY DEF Candidate
<1>2. \A c \in DOMAIN candidate :
        candidate'[c] = IF c \in C /\ candidate[c].state \in {"open", "sealed"}
                        THEN [candidate[c] EXCEPT !.state = "closed"] ELSE candidate[c]
    BY DEF CandidatesClosed, Closable
<1>3. DOMAIN candidate' = DOMAIN candidate BY DEF CandidatesClosed
<1>4. candidate' \in [1..Len(candidate) -> Candidate]
    <2>1. \A c \in 1..Len(candidate) : candidate'[c] \in Candidate BY <1>1, <1>2
    <2>2. candidate' = [c \in 1..Len(candidate) |-> candidate'[c]]
        BY DEF CandidatesClosed
    <2> QED BY <2>1, <2>2
<1>5. candidate' \in Seq(Candidate) BY <1>4, SequenceOf
<1>6. Closable(DOMAIN candidate)' = Closable(DOMAIN candidate) \ C
    BY <1>1, <1>2, <1>3 DEF Closable
<1> QED BY <1>1, <1>2, <1>3, <1>5, <1>6

LEMMA TransfersClosing ==
    ASSUME Typed, NEW T, transfer' = TransfersClosed(T)
    PROVE  /\ transfer' \in Seq(Transfer) /\ DOMAIN transfer' = DOMAIN transfer
           /\ Open(DOMAIN transfer)' = Open(DOMAIN transfer) \ T
<1> USE Lengths
<1>1. \A t \in DOMAIN transfer :
        /\ [transfer[t] EXCEPT !.state = "closed"] \in Transfer
        /\ [transfer[t] EXCEPT !.state = "closed"].state = "closed"
    BY DEF Transfer
<1>2. \A t \in DOMAIN transfer :
        transfer'[t] = IF t \in T /\ transfer[t].state \in {"open", "sealed"}
                        THEN [transfer[t] EXCEPT !.state = "closed"] ELSE transfer[t]
    BY DEF TransfersClosed, Open
<1>3. DOMAIN transfer' = DOMAIN transfer BY DEF TransfersClosed
<1>4. transfer' \in [1..Len(transfer) -> Transfer]
    <2>1. \A t \in 1..Len(transfer) : transfer'[t] \in Transfer BY <1>1, <1>2
    <2>2. transfer' = [t \in 1..Len(transfer) |-> transfer'[t]]
        BY DEF TransfersClosed
    <2> QED BY <2>1, <2>2
<1>5. transfer' \in Seq(Transfer) BY <1>4, SequenceOf
<1>6. Open(DOMAIN transfer)' = Open(DOMAIN transfer) \ T
    BY <1>1, <1>2, <1>3 DEF Open
<1> QED BY <1>3, <1>5, <1>6

(* One candidate, or transfer, changes its state. *)
LEMMA CandidateMoved ==
    ASSUME Typed, NEW c \in DOMAIN candidate, NEW s \in {"sealed", "claimed", "closed"},
           candidate' = [candidate EXCEPT ![c].state = s]
    PROVE  /\ candidate' \in Seq(Candidate) /\ DOMAIN candidate' = DOMAIN candidate
           /\ candidate'[c].state = s /\ candidate'[c].epoch = candidate[c].epoch
           /\ candidate'[c].image = candidate[c].image
           /\ \A d \in DOMAIN candidate \ {c} : candidate'[d] = candidate[d]
<1> USE Lengths
<1> DEFINE r == [candidate[c] EXCEPT !.state = s]
<1>1. r \in Candidate /\ r.state = s /\ r.epoch = candidate[c].epoch /\ r.image = candidate[c].image
    BY DEF Candidate
<1>2. candidate' = [candidate EXCEPT ![c] = r] OBVIOUS
<1> HIDE DEF r
<1>3. candidate' \in [1..Len(candidate) -> Candidate] BY <1>1, <1>2
<1>4. candidate' \in Seq(Candidate) BY <1>3, SequenceOf
<1> QED BY <1>1, <1>2, <1>4

LEMMA TransferMoved ==
    ASSUME Typed, NEW t \in DOMAIN transfer, NEW s \in {"sealed", "taken", "closed"},
           transfer' = [transfer EXCEPT ![t].state = s]
    PROVE  /\ transfer' \in Seq(Transfer) /\ DOMAIN transfer' = DOMAIN transfer
           /\ transfer'[t].state = s
           /\ \A u \in DOMAIN transfer \ {t} : transfer'[u] = transfer[u]
<1> USE Lengths
<1> DEFINE r == [transfer[t] EXCEPT !.state = s]
<1>1. r \in Transfer /\ r.state = s BY DEF Transfer
<1>2. transfer' = [transfer EXCEPT ![t] = r] OBVIOUS
<1> HIDE DEF r
<1>3. transfer' \in [1..Len(transfer) -> Transfer] BY <1>1, <1>2
<1>4. transfer' \in Seq(Transfer) BY <1>3, SequenceOf
<1> QED BY <1>1, <1>2, <1>4
-----------------------------------------------------------------------------
(* Four operations of the owner settle what is prepared, each before       *)
(* something else: a commit, an abort, a reset and a close.                *)
Settles ==
    /\ owner.at = "idle"
    /\ UNCHANGED << state, preparedClose, named, job >>
    /\ owner' = [owner EXCEPT !.at = owner'.at]
    /\ owner'.at \in {"idle", "collect", "reopen", "close"}
    /\ resetting' \in {resetting, TRUE}
    /\ owner'.at = "collect" => resetting'
    /\ prepared' = NoPrepared
    /\ \/ /\ prepared = NoPrepared
          /\ UNCHANGED << candidate, candidates, transfer, pending, transfers, decoded >>
       \/ Published /\ CommitOf(prepared)
       \/ Staged /\ AbortOf(prepared)

LEMMA SettlesOr ==
    ASSUME Typed, BeginReset \/ BeginClose \/ Commit \/ Abort
    PROVE  Settles
<1>1. \A at : [owner EXCEPT !.at = at].at = at BY DEF Typed
<1>2. Resolve => /\ prepared' = NoPrepared
                 /\ \/ /\ prepared = NoPrepared
                       /\ UNCHANGED << candidate, candidates, transfer, pending, transfers, decoded >>
                    \/ Published /\ CommitOf(prepared)
                    \/ Staged /\ AbortOf(prepared)
    <2>1. CASE prepared = NoPrepared BY <2>1 DEF Resolve
    <2>2. CASE prepared # NoPrepared /\ prepared.published
        BY <2>2 DEF Resolve, Published, CommitOf
    <2>3. CASE prepared # NoPrepared /\ ~prepared.published
        BY <2>3 DEF Resolve, Staged, AbortOf
    <2> QED BY <2>1, <2>2, <2>3
<1>3. CASE BeginReset
    BY <1>1, <1>2, <1>3 DEF BeginReset, Settles, MayEnter
<1>4. CASE BeginClose BY <1>1, <1>2, <1>4 DEF BeginClose, Settles, ResolveFirst
<1>5. CASE Commit BY <1>1, <1>5 DEF Commit, Settles, MayEnter, CommitOf, Published
<1>6. CASE Abort BY <1>1, <1>6 DEF Abort, Settles, MayEnter, AbortOf, Staged
<1> QED BY <1>3, <1>4, <1>5, <1>6

(* The other operations of the owner, and what anybody may do. *)
LEMMA Steps ==
    ASSUME Typed, Next
    PROVE  \/ \E g \in Workers : Worker(g)
           \/ \E t \in DOMAIN transfer : PayloadRefused(t) \/ SealTransfer(t) \/ CloseTransfer(t)
           \/ \E c \in DOMAIN candidate : CloseResult(c) \/ PrepareCandidate(c)
           \/ \E S \in SUBSET Images : PrepareRemoval(S)
           \/ BeginTransfer \/ Settles \/ PrepareReset \/ Publish \/ SwapRegistries
           \/ Reopen \/ PrepareClose \/ AbortClose \/ PublishClosed \/ TakeCandidates
           \/ FinishClose
BY SettlesOr DEF Next, Owner

LEMMA StagedRecord ==
    ASSUME Typed, NEW c \in DOMAIN candidate, PrepareCandidate(c)
    PROVE  /\ prepared' \in Replacement /\ prepared' # NoPrepared /\ Staged' /\ ~Published'
           /\ prepared'.kind = "candidate" /\ prepared'.made = {c}
           /\ prepared'.retired = {state.resources[candidate[c].image].pixels} \ {0}
           /\ prepared'.candidates = {} /\ prepared'.pending = {}
           /\ prepared'.next.epoch = state.epoch
           /\ prepared'.next.next = state.next + 1
           /\ \A i \in Images : prepared'.next.resources[i] =
                IF i = candidate[c].image
                THEN [generation |-> state.next + 1, pixels |-> c]
                ELSE state.resources[i]
<1> DEFINE i == candidate[c].image
           ref == [generation |-> state.next + 1, pixels |-> c]
           next == [state EXCEPT !.resources[i] = ref, !.next = ref.generation]
           made == [kind |-> "candidate", published |-> FALSE, made |-> {c},
                    retired |-> {state.resources[i].pixels} \ {0},
                    candidates |-> {}, pending |-> {}, next |-> next]
<1>1. prepared' = made BY DEF PrepareCandidate
<1>2. state \in States /\ state.next \in Nat /\ state.resources \in [Images -> Ref] /\ state.epoch \in Nat
    BY DEF Typed, States
<1>3. i \in Images /\ c \in Nat BY Lengths DEF Candidate
<1>4. ref \in Ref /\ ref.generation = state.next + 1 /\ ref.pixels = c BY <1>2, <1>3 DEF Ref
<1> HIDE DEF i, ref
<1>5. next \in States /\ next.epoch = state.epoch /\ next.next = state.next + 1
        /\ next.resources = [state.resources EXCEPT ![i] = ref]
    <2> DEFINE rs == [state.resources EXCEPT ![i] = ref]
    <2>1. rs \in [Images -> Ref] BY <1>2, <1>4
    <2>2. next = [state EXCEPT !.resources = rs, !.next = state.next + 1] BY <1>4
    <2>3. state.next + 1 \in Nat BY <1>2
    <2>4. state \in States BY <1>2
    <2> HIDE DEF rs, next
    <2>5. next \in States BY <2>1, <2>2, <2>3, <2>4 DEF States
    <2>6. next.epoch = state.epoch /\ next.next = state.next + 1 /\ next.resources = rs
        BY <1>2, <2>1, <2>2 DEF States
    <2> QED BY <2>5, <2>6 DEF rs
<1>6. \A j \in Images : next.resources[j] = IF j = i THEN ref ELSE state.resources[j]
    BY <1>2, <1>3, <1>5
<1>7. state.resources[i].pixels \in Nat BY <1>2, <1>3 DEF Ref
<1> HIDE DEF next
<1>8. made \in Replacement BY <1>3, <1>5, <1>7 DEF Replacement
<1>9. made.kind = "candidate" /\ ~made.published /\ made # NoPrepared
    BY DEF NoPrepared
<1>10. Staged' /\ ~Published'
    BY <1>1, <1>9 DEF Staged, Published
<1> QED BY <1>1, <1>4, <1>5, <1>6, <1>8, <1>9, <1>10 DEF i, ref

LEMMA RemovalRecord ==
    ASSUME Typed, NEW S \in SUBSET Images, PrepareRemoval(S)
    PROVE  /\ prepared' \in Replacement /\ prepared' # NoPrepared /\ Staged' /\ ~Published'
           /\ prepared'.kind = "removal" /\ prepared'.made = {}
           /\ prepared'.retired = {state.resources[i].pixels : i \in S} \ {0}
           /\ prepared'.candidates = {} /\ prepared'.pending = {}
           /\ prepared'.next.epoch = state.epoch
           /\ prepared'.next.next = state.next
           /\ \A i \in Images : prepared'.next.resources[i] =
                IF i \in S THEN NoRef ELSE state.resources[i]
<1> DEFINE rs == [i \in Images |-> IF i \in S THEN NoRef ELSE state.resources[i]]
           next == [state EXCEPT !.resources = rs]
           made == [kind |-> "removal", published |-> FALSE, made |-> {},
                    retired |-> {state.resources[i].pixels : i \in S} \ {0},
                    candidates |-> {}, pending |-> {}, next |-> next]
<1>1. prepared' = made BY DEF PrepareRemoval
<1>2. state \in States /\ state.next \in Nat /\ state.resources \in [Images -> Ref] /\ state.epoch \in Nat
    BY DEF Typed, States
<1>3. rs \in [Images -> Ref] BY <1>2 DEF Ref, NoRef
<1>4. \A i \in Images : rs[i] = IF i \in S THEN NoRef ELSE state.resources[i] OBVIOUS
<1>5. \A i \in Images : state.resources[i].pixels \in Nat BY <1>2 DEF Ref
<1> HIDE DEF rs
<1>6. next \in States /\ next.epoch = state.epoch /\ next.next = state.next
        /\ next.resources = rs
    BY <1>2, <1>3 DEF States
<1> HIDE DEF next
<1>7. made \in Replacement BY <1>5, <1>6 DEF Replacement
<1>8. made.kind = "removal" /\ ~made.published /\ made # NoPrepared BY DEF NoPrepared
<1>9. Staged' /\ ~Published' BY <1>1, <1>8 DEF Staged, Published
<1> QED BY <1>1, <1>4, <1>6, <1>7, <1>8, <1>9

LEMMA ResetRecord ==
    ASSUME Typed, PrepareReset
    PROVE  /\ prepared' \in Replacement /\ prepared' # NoPrepared /\ Staged' /\ ~Published'
           /\ prepared'.kind = "reset" /\ prepared'.made = {}
           /\ prepared'.retired = Pixels(state.resources)
           /\ prepared'.candidates = candidates /\ prepared'.pending = pending
           /\ prepared'.next.next = state.next
           /\ prepared'.next.resources = [i \in Images |-> NoRef]
<1> DEFINE rs == [i \in Images |-> NoRef]
           next == [state EXCEPT !.epoch = state.epoch + 1, !.resources = rs]
           made == [kind |-> "reset", published |-> FALSE, made |-> {},
                    retired |-> Pixels(state.resources),
                    candidates |-> candidates, pending |-> pending, next |-> next]
<1>1. prepared' = made BY DEF PrepareReset
<1>2. state \in States /\ state.next \in Nat /\ state.resources \in [Images -> Ref]
        /\ state.epoch + 1 \in Nat
    BY DEF Typed, States
<1>3. rs \in [Images -> Ref] BY DEF Ref, NoRef
<1>4. Pixels(state.resources) \subseteq Nat BY <1>2 DEF Pixels, Ref
<1>5. candidates \subseteq Nat /\ pending \subseteq Nat BY Lengths DEF Typed
<1> HIDE DEF rs
<1>6. next \in States /\ next.next = state.next /\ next.resources = rs
    BY <1>2, <1>3 DEF States
<1> HIDE DEF next
<1>7. made \in Replacement BY <1>4, <1>5, <1>6 DEF Replacement
<1>8. made.kind = "reset" /\ ~made.published /\ made # NoPrepared BY DEF NoPrepared
<1>9. Staged' /\ ~Published' BY <1>1, <1>8 DEF Staged, Published
<1> QED BY <1>1, <1>6, <1>7, <1>8, <1>9 DEF rs

LEMMA PublishedRecord ==
    ASSUME Typed, Publish
    PROVE  /\ Staged /\ ~Published /\ prepared \in Replacement
           /\ prepared' \in Replacement /\ prepared' # NoPrepared /\ Published' /\ ~Staged'
           /\ prepared'.kind = prepared.kind /\ prepared'.made = prepared.made
           /\ prepared'.retired = prepared.retired
           /\ prepared'.candidates = prepared.candidates
           /\ prepared'.pending = prepared.pending
           /\ state' = prepared.next /\ state' \in States
<1>1. prepared \in Replacement /\ prepared # NoPrepared BY DEF Publish, Typed
<1>2. prepared' = [prepared EXCEPT !.published = TRUE] BY DEF Publish
<1>3. prepared' \in Replacement BY <1>1, <1>2 DEF Replacement
<1>4. /\ prepared'.kind = prepared.kind /\ prepared'.made = prepared.made
      /\ prepared'.retired = prepared.retired
      /\ prepared'.candidates = prepared.candidates
      /\ prepared'.pending = prepared.pending
    BY <1>1, <1>2 DEF Replacement
<1>5. prepared'.published = TRUE BY <1>1, <1>2 DEF Replacement
<1>6. prepared' # NoPrepared BY <1>3 DEF Replacement, NoPrepared
<1>7. Staged /\ ~Published BY <1>1 DEF Publish, Staged, Published
<1>8. Published' /\ ~Staged' BY <1>5, <1>6 DEF Staged, Published
<1>9. state' = prepared.next /\ state' \in States
    BY <1>1 DEF Publish, NextState, Replacement
<1> QED BY <1>1, <1>3, <1>4, <1>6, <1>7, <1>8, <1>9

LEMMA ClosedRecord ==
    ASSUME Typed, PublishClosed
    PROVE  /\ state' \in States /\ state'.closed = TRUE /\ state'.next = state.next
           /\ state'.resources = [i \in Images |-> NoRef]
           /\ owner'.at = "take" /\ owner'.pixels = Pixels(state.resources)
           /\ owner' \in [at : {"take"}, pixels : SUBSET Nat]
<1> DEFINE rs == [i \in Images |-> NoRef]
<1>1. state \in States /\ state.next \in Nat /\ state.resources \in [Images -> Ref]
        /\ state.epoch + 1 \in Nat
    BY DEF Typed, States
<1>2. rs \in [Images -> Ref] BY DEF Ref, NoRef
<1>3. state' = [state EXCEPT !.closed = TRUE, !.epoch = state.epoch + 1, !.resources = rs]
    BY DEF PublishClosed
<1>4. Pixels(state.resources) \subseteq Nat BY <1>1 DEF Pixels, Ref
<1>5. /\ owner'.at = "take" /\ owner'.pixels = Pixels(state.resources)
      /\ owner' \in [at : {"take"}, pixels : SUBSET Nat]
    BY <1>4 DEF PublishClosed
<1> HIDE DEF rs
<1>6. state' \in States /\ state'.closed = TRUE /\ state'.next = state.next /\ state'.resources = rs
    BY <1>1, <1>2, <1>3 DEF States
<1> QED BY <1>5, <1>6 DEF rs
-----------------------------------------------------------------------------
(* A job that moves on, and one that ends. *)
LEMMA JobMoved ==
    ASSUME Typed, NEW g \in Workers, NEW r \in Job, job' = [job EXCEPT ![g] = r]
    PROVE  /\ job' \in [Workers -> Job] /\ job'[g] = r
           /\ \A h \in Workers \ {g} : job'[h] = job[h]
BY DEF Typed

LEMMA NoJobIsJob == NoJob \in Job /\ ~NoJob.scratch /\ NoJob.at = "idle" /\ NoJob.candidate = 0
BY DEF NoJob, Job

LEMMA JobSteps ==
    ASSUME Typed, NEW g \in Workers, Worker(g)
    PROVE  \E r \in Job : job' = [job EXCEPT ![g] = r]
<1>1. job[g] \in Job /\ job \in [Workers -> Job] /\ state.epoch \in Nat BY DEF Typed, States
<1>2. \A at \in {"idle", "started", "wantScratch", "checkScratch", "scratched",
                 "wantCandidate", "checkCandidate", "register", "decoding"}, e \in Nat, c \in Nat :
        /\ [job[g] EXCEPT !.at = at] \in Job
        /\ [job[g] EXCEPT !.at = at, !.epoch = e] \in Job
        /\ [job[g] EXCEPT !.at = at, !.scratch = TRUE] \in Job
        /\ [job[g] EXCEPT !.at = at, !.candidate = c] \in Job
    BY <1>1 DEF Job
<1>3. ASSUME NEW t \in DOMAIN transfer, TakePayload(g, t)
      PROVE  \E r \in Job : job' = [job EXCEPT ![g] = r]
    <2> DEFINE r == [NoJob EXCEPT !.at = "started", !.transfer = t]
    <2>1. t \in Nat BY Lengths
    <2>2. r \in Job BY <2>1 DEF NoJob, Job
    <2>3. job' = [job EXCEPT ![g] = r] BY <1>3 DEF TakePayload
    <2> QED BY <2>2, <2>3
<1>4. CASE Look(g)
    <2>1. job' = [job EXCEPT ![g] = [job[g] EXCEPT
                    !.at = IF job[g].at = "started" THEN "wantScratch" ELSE "wantCandidate",
                    !.epoch = state.epoch]]
        BY <1>1, <1>4 DEF Look
    <2> QED BY <1>1, <1>2, <2>1
<1>5. CASE ReserveDecoded(g)
    <2>1. job' = [job EXCEPT ![g] = [job[g] EXCEPT
                    !.at = IF job[g].at = "wantScratch" THEN "checkScratch" ELSE "checkCandidate"]]
        BY <1>1, <1>5 DEF ReserveDecoded, At
    <2> QED BY <1>2, <2>1
<1>6. CASE KeepScratch(g)
    <2>1. job' = [job EXCEPT ![g] = [job[g] EXCEPT !.at = "scratched", !.scratch = TRUE]]
        BY <1>1, <1>6 DEF KeepScratch
    <2> QED BY <1>2, <2>1
<1>7. CASE AllocatePixels(g)
    <2>1. job' = [job EXCEPT ![g] = [job[g] EXCEPT !.at = "register"]]
        BY <1>1, <1>7 DEF AllocatePixels, At
    <2> QED BY <1>2, <2>1
<1>8. ASSUME NEW i \in Images, Register(g, i)
      PROVE  \E r \in Job : job' = [job EXCEPT ![g] = r]
    <2>1. job' = [job EXCEPT ![g] = [job[g] EXCEPT !.at = "decoding",
                                                    !.candidate = Len(candidate) + 1]]
        BY <1>1, <1>8 DEF Register
    <2>2. Len(candidate) + 1 \in Nat BY Lengths
    <2> QED BY <1>2, <2>1, <2>2
<1>9. CASE Seal(g) \/ Fail(g) BY <1>9, NoJobIsJob DEF Seal, Fail
<1> QED BY <1>3, <1>4, <1>5, <1>6, <1>7, <1>8, <1>9 DEF Worker

LEMMA TypedStep ==
    ASSUME IInv, Next
    PROVE  Typed'
<1>0. Typed /\ Jobs BY DEF IInv
<1> USE <1>0
<1>1. candidate \in Seq(Candidate) /\ transfer \in Seq(Transfer)
        /\ candidates \subseteq DOMAIN candidate /\ pending \subseteq DOMAIN transfer
    BY DEF Typed
<1>2. ASSUME NEW g \in Workers, Worker(g)
      PROVE  Typed'
    <2>1. job' \in [Workers -> Job] BY <1>2, JobSteps, JobMoved
    <2>2. UNCHANGED ownerVars
        BY <1>2 DEF Worker, TakePayload, Look, ReserveDecoded, KeepScratch, AllocatePixels,
                    Register, Seal, Fail
    <2>3. /\ candidate' \in Seq(Candidate)
          /\ candidates' \subseteq DOMAIN candidate'
        <3>1. CASE UNCHANGED << candidate, candidates >> BY <1>1, <3>1
        <3>2. ASSUME NEW i \in Images, Register(g, i)
              PROVE  candidate' \in Seq(Candidate) /\ candidates' \subseteq DOMAIN candidate'
            <4> DEFINE r == [image |-> i, epoch |-> job[g].epoch, state |-> "open"]
            <4>1. job[g].epoch \in Nat BY DEF Typed, Job
            <4>2. r \in Candidate BY <4>1 DEF Candidate
            <4>3. candidate' = Append(candidate, r)
                    /\ candidates' = candidates \cup {Len(candidate) + 1}
                BY <3>2 DEF Register
            <4> HIDE DEF r
            <4>4. candidate' \in Seq(Candidate) /\ Len(candidate') = Len(candidate) + 1
                BY <1>1, <4>2, <4>3
            <4> QED BY <1>1, <4>3, <4>4, Lengths
        <3>3. ASSUME job[g].at = "decoding", NEW s \in {"sealed", "closed"},
                     candidate' = [candidate EXCEPT ![job[g].candidate].state = s],
                     candidates' \subseteq candidates
              PROVE  candidate' \in Seq(Candidate) /\ candidates' \subseteq DOMAIN candidate'
            <4>1. job[g].candidate \in DOMAIN candidate BY <3>3 DEF Jobs
            <4> QED BY <1>1, <3>3, <4>1, CandidateMoved
        <3>4. CASE Seal(g) BY <3>3, <3>4 DEF Seal
        <3>5. CASE Fail(g) BY <1>1, <3>3, <3>5 DEF Fail
        <3> QED BY <1>2, <3>1, <3>2, <3>4, <3>5
            DEF Worker, TakePayload, Look, ReserveDecoded, KeepScratch, AllocatePixels
    <2>4. transfer' \in Seq(Transfer) /\ pending' \subseteq DOMAIN transfer'
        <3>1. ASSUME NEW t \in DOMAIN transfer, TakePayload(g, t)
              PROVE  transfer' \in Seq(Transfer) /\ pending' \subseteq DOMAIN transfer'
            BY <1>1, <3>1, TransferMoved DEF TakePayload
        <3> QED BY <1>1, <1>2, <3>1
            DEF Worker, Look, ReserveDecoded, KeepScratch, AllocatePixels, Register, Seal, Fail
    <2> QED BY <2>1, <2>2, <2>3, <2>4 DEF Typed, ownerVars
<1>3. ASSUME UNCHANGED << ownerVars, candidates, candidate, job >>,
             transfer' \in Seq(Transfer), pending' \subseteq DOMAIN transfer'
      PROVE  Typed'
    BY <1>3 DEF Typed, ownerVars
<1>4. ASSUME NEW t \in DOMAIN transfer, PayloadRefused(t) \/ SealTransfer(t) \/ CloseTransfer(t)
      PROVE  Typed'
    <2>1. CASE PayloadRefused(t)
        BY <1>1, <1>3, <2>1, TransferMoved DEF PayloadRefused
    <2>2. CASE SealTransfer(t)
        BY <1>1, <1>3, <2>2, TransferMoved DEF SealTransfer
    <2>3. CASE CloseTransfer(t)
        BY <1>1, <1>3, <2>3, TransfersClosing DEF CloseTransfer
    <2> QED BY <1>4, <2>1, <2>2, <2>3
<1>5. CASE BeginTransfer
    <2> DEFINE r == [epoch |-> state.epoch, state |-> "open"]
    <2>1. r \in Transfer BY DEF Typed, States, Transfer
    <2>2. transfer' = Append(transfer, r) /\ pending' = pending \cup {Len(transfer) + 1}
        BY <1>5 DEF BeginTransfer
    <2> HIDE DEF r
    <2>3. transfer' \in Seq(Transfer) /\ Len(transfer') = Len(transfer) + 1 BY <1>1, <2>1, <2>2
    <2>4. pending' \subseteq DOMAIN transfer' BY <1>1, <2>2, <2>3, Lengths
    <2> QED BY <1>3, <1>5, <2>3, <2>4 DEF BeginTransfer
<1>6. ASSUME NEW c \in DOMAIN candidate, CloseResult(c)
      PROVE  Typed'
    <2>1. candidate' \in Seq(Candidate) /\ candidates' \subseteq DOMAIN candidate'
        BY <1>1, <1>6, CandidatesClosing DEF CloseResult
    <2> QED BY <1>6, <2>1 DEF CloseResult, Typed, ownerVars
<1>7. ASSUME NEW c \in DOMAIN candidate, PrepareCandidate(c)
      PROVE  Typed'
    <2>1. candidate' = [candidate EXCEPT ![c].state = "claimed"] /\ candidates' = candidates \ {c}
        BY <1>7 DEF PrepareCandidate
    <2>2. candidate' \in Seq(Candidate) /\ candidates' \subseteq DOMAIN candidate'
        BY <1>1, <2>1, CandidateMoved
    <2>3. prepared' \in Replacement BY <1>7, StagedRecord
    <2> QED BY <1>7, <2>2, <2>3 DEF PrepareCandidate, Typed
<1>8. ASSUME NEW S \in SUBSET Images, PrepareRemoval(S)
      PROVE  Typed'
    <2>1. prepared' \in Replacement BY <1>8, RemovalRecord
    <2> QED BY <1>8, <2>1 DEF PrepareRemoval, Typed
<1>9. CASE Settles
    <2>1. /\ candidate' \in Seq(Candidate) /\ candidates' \subseteq DOMAIN candidate'
          /\ transfer' \in Seq(Transfer) /\ pending' \subseteq DOMAIN transfer'
        <3>1. CASE UNCHANGED << candidate, candidates, transfer, pending >> BY <1>1, <3>1
        <3>2. CASE CommitOf(prepared)
            BY <1>1, <3>2, CandidatesClosing, TransfersClosing DEF CommitOf
        <3>3. CASE AbortOf(prepared) BY <1>1, <3>3 DEF AbortOf
        <3> QED BY <1>9, <3>1, <3>2, <3>3 DEF Settles
    <2>2. owner' \in [at : {"idle", "collect", "swap", "reopen", "close", "take", "finish", "released"},
                      pixels : SUBSET Nat]
        BY <1>9 DEF Settles, Typed
    <2>3. prepared' = NoPrepared /\ resetting' \in BOOLEAN /\ UNCHANGED << state, preparedClose, named, job >>
        BY <1>9 DEF Settles, Typed
    <2> QED BY <2>1, <2>2, <2>3 DEF Typed
<1>10. CASE PrepareReset
    <2>1. prepared' \in Replacement BY <1>10, ResetRecord
    <2> QED BY <1>10, <2>1 DEF PrepareReset, Typed
<1>11. CASE Publish
    <2>1. prepared' \in Replacement /\ state' \in States /\ prepared.next \in States
        BY <1>11, PublishedRecord
    <2>2. named' \subseteq Images \X Nat \X Nat
        <3>1. \A i \in Images : prepared.next.resources[i].generation \in Nat
                                /\ prepared.next.resources[i].pixels \in Nat
            BY <2>1 DEF States, Ref
        <3> QED BY <1>11, <3>1 DEF Publish, Typed
    <2> QED BY <1>11, <2>1, <2>2 DEF Publish, Typed
<1>12. CASE SwapRegistries \/ Reopen \/ PrepareClose \/ AbortClose
    BY <1>12 DEF SwapRegistries, Reopen, PrepareClose, AbortClose, Typed
<1>13. CASE PublishClosed
    <2>1. state' \in States /\ owner' \in [at : {"take"}, pixels : SUBSET Nat]
        BY <1>13, ClosedRecord
    <2> QED BY <1>13, <2>1 DEF PublishClosed, Typed
<1>14. CASE TakeCandidates
    <2>1. candidate' \in Seq(Candidate) BY <1>14, CandidatesClosing DEF TakeCandidates
    <2> QED BY <1>14, <2>1 DEF TakeCandidates, Typed
<1>15. CASE FinishClose
    <2>1. transfer' \in Seq(Transfer) BY <1>15, TransfersClosing DEF FinishClose
    <2> QED BY <1>15, <2>1 DEF FinishClose, Typed
<1> QED BY <1>2, <1>4, <1>5, <1>6, <1>7, <1>8, <1>9, <1>10, <1>11, <1>12, <1>13, <1>14, <1>15, Steps
-----------------------------------------------------------------------------
(* What each step does to the candidates that can still be closed. *)
LEMMA Registering ==
    ASSUME IInv, NEW g \in Workers, NEW i \in Images, Register(g, i)
    PROVE  LET n == Len(candidate) + 1 IN
           /\ n \in Nat /\ n \notin DOMAIN candidate /\ DOMAIN candidate' = DOMAIN candidate \cup {n}
           /\ \A c \in DOMAIN candidate : candidate'[c] = candidate[c]
           /\ candidate'[n].state = "open" /\ candidate'[n].epoch = state.epoch
           /\ candidates' = candidates \cup {n}
           /\ Closable(DOMAIN candidate)' = Closable(DOMAIN candidate) \cup {n}
           /\ ~resetting /\ ~state.closed
<1> DEFINE n == Len(candidate) + 1
           r == [image |-> i, epoch |-> job[g].epoch, state |-> "open"]
<1>1. Typed /\ candidate \in Seq(Candidate) BY DEF IInv, Typed
<1>2. job[g].epoch \in Nat BY <1>1 DEF Typed, Job
<1>3. r \in Candidate /\ r.state = "open" /\ r.epoch = job[g].epoch BY <1>2 DEF Candidate
<1>4. candidate' = Append(candidate, r) /\ candidates' = candidates \cup {n}
    BY DEF Register
<1>5. job[g].epoch = state.epoch /\ ~resetting /\ ~state.closed
    BY DEF Register, MayRegister, Current
<1> HIDE DEF r
<1>6. n \in Nat /\ n \notin DOMAIN candidate BY <1>1, Lengths
<1>7. DOMAIN candidate' = DOMAIN candidate \cup {n} /\ candidate'[n] = r
        /\ \A c \in DOMAIN candidate : candidate'[c] = candidate[c]
    <2>1. Len(candidate') = n /\ candidate' \in Seq(Candidate) BY <1>1, <1>3, <1>4
    <2>2. DOMAIN candidate' = 1..n BY <2>1
    <2>3. DOMAIN candidate = 1..Len(candidate) /\ Len(candidate) \in Nat BY <1>1, Lengths
    <2> QED BY <1>1, <1>3, <1>4, <2>2, <2>3
<1>8. Closable(DOMAIN candidate)' = Closable(DOMAIN candidate) \cup {n}
    BY <1>3, <1>6, <1>7 DEF Closable
<1> QED BY <1>3, <1>4, <1>5, <1>6, <1>7, <1>8

LEMMA Sealing ==
    ASSUME IInv, NEW g \in Workers, Seal(g)
    PROVE  LET c == job[g].candidate IN
           /\ job[g].at = "decoding" /\ c \in DOMAIN candidate /\ DOMAIN candidate' = DOMAIN candidate
           /\ candidate[c].state = "open" /\ candidate'[c].state = "sealed"
           /\ candidate'[c].epoch = candidate[c].epoch
           /\ \A d \in DOMAIN candidate \ {c} : candidate'[d] = candidate[d]
           /\ candidates' = candidates
           /\ Closable(DOMAIN candidate)' = Closable(DOMAIN candidate)
<1> DEFINE c == job[g].candidate
<1>1. Typed /\ Jobs BY DEF IInv
<1>2. job[g].at = "decoding" /\ c \in DOMAIN candidate BY <1>1 DEF Jobs, Seal
<1>3. candidate[c].state = "open" /\ candidate' = [candidate EXCEPT ![c].state = "sealed"]
        /\ candidates' = candidates
    BY DEF Seal
<1>4. /\ DOMAIN candidate' = DOMAIN candidate
      /\ candidate'[c].state = "sealed" /\ candidate'[c].epoch = candidate[c].epoch
      /\ \A d \in DOMAIN candidate \ {c} : candidate'[d] = candidate[d]
    BY <1>1, <1>2, <1>3, CandidateMoved
<1>5. Closable(DOMAIN candidate)' = Closable(DOMAIN candidate) BY <1>2, <1>3, <1>4 DEF Closable
<1> QED BY <1>2, <1>3, <1>4, <1>5

LEMMA Failing ==
    ASSUME IInv, NEW g \in Workers, Fail(g)
    PROVE  LET c == job[g].candidate
               mine == job[g].at = "decoding" /\ candidate[c].state = "open"
           IN
           /\ DOMAIN candidate' = DOMAIN candidate
           /\ \A d \in DOMAIN candidate \ {c} : candidate'[d] = candidate[d]
           /\ mine => /\ c \in Closable(DOMAIN candidate) /\ candidate'[c].state = "closed"
                      /\ candidate'[c].epoch = candidate[c].epoch
           /\ ~mine => candidate' = candidate /\ c \notin Closable(DOMAIN candidate)
           /\ candidates' = candidates \ {c}
           /\ Closable(DOMAIN candidate)' = Closable(DOMAIN candidate) \ {c}
<1> DEFINE c == job[g].candidate
           mine == job[g].at = "decoding" /\ candidate[c].state = "open"
<1>1. Typed /\ Jobs BY DEF IInv
<1>2. candidates' = candidates \ {c}
        /\ candidate' = IF mine THEN [candidate EXCEPT ![c].state = "closed"] ELSE candidate
    BY DEF Fail
<1>3. CASE mine
    <2>1. c \in DOMAIN candidate BY <1>1, <1>3 DEF Jobs
    <2>2. /\ DOMAIN candidate' = DOMAIN candidate
          /\ candidate'[c].state = "closed" /\ candidate'[c].epoch = candidate[c].epoch
          /\ \A d \in DOMAIN candidate \ {c} : candidate'[d] = candidate[d]
        BY <1>1, <1>2, <1>3, <2>1, CandidateMoved
    <2>3. Closable(DOMAIN candidate)' = Closable(DOMAIN candidate) \ {c}
        BY <2>1, <2>2 DEF Closable
    <2>4. c \in Closable(DOMAIN candidate) BY <1>3, <2>1 DEF Closable
    <2> QED BY <1>2, <1>3, <2>2, <2>3, <2>4
<1>4. CASE ~mine
    <2>1. c \notin Closable(DOMAIN candidate)
        <3>1. CASE job[g].at = "decoding"
            BY <1>1, <1>4, <3>1 DEF Jobs, Closable
        <3>2. CASE job[g].at # "decoding"
            BY <1>1, <3>2, Lengths DEF Jobs, Closable
        <3> QED BY <3>1, <3>2
    <2>2. Closable(DOMAIN candidate)' = Closable(DOMAIN candidate) BY <1>2, <1>4 DEF Closable
    <2> HIDE DEF c, mine
    <2>3. candidate' = candidate BY <1>2, <1>4
    <2> QED BY <1>2, <1>4, <2>1, <2>2, <2>3 DEF c, mine
<1> QED BY <1>3, <1>4

LEMMA Claiming ==
    ASSUME IInv, NEW c \in DOMAIN candidate, PrepareCandidate(c)
    PROVE  /\ DOMAIN candidate' = DOMAIN candidate
           /\ candidate[c].state = "sealed" /\ candidate'[c].state = "claimed"
           /\ candidate'[c].epoch = candidate[c].epoch /\ candidate[c].epoch = state.epoch
           /\ \A d \in DOMAIN candidate \ {c} : candidate'[d] = candidate[d]
           /\ candidates' = candidates \ {c}
           /\ Closable(DOMAIN candidate)' = Closable(DOMAIN candidate) \ {c}
           /\ c \in Closable(DOMAIN candidate)
<1>1. Typed BY DEF IInv
<1>2. /\ candidate[c].state = "sealed" /\ candidate[c].epoch = state.epoch
      /\ candidate' = [candidate EXCEPT ![c].state = "claimed"] /\ candidates' = candidates \ {c}
    BY DEF PrepareCandidate, ValidFor, Current
<1>3. /\ DOMAIN candidate' = DOMAIN candidate
      /\ candidate'[c].state = "claimed" /\ candidate'[c].epoch = candidate[c].epoch
      /\ \A d \in DOMAIN candidate \ {c} : candidate'[d] = candidate[d]
    BY <1>1, <1>2, CandidateMoved
<1> QED BY <1>2, <1>3 DEF Closable

(* Who keeps a candidate open, and what is claimed or closed stays so.     *)
LEMMA CandidatesLast ==
    ASSUME IInv, Next
    PROVE  \A c \in DOMAIN candidate :
              /\ c \in DOMAIN candidate'
              /\ candidate'[c].epoch = candidate[c].epoch
              /\ candidate[c].state \in {"claimed", "closed"} =>
                    candidate'[c].state = candidate[c].state
              /\ candidate[c].state = "open" =>
                    \/ candidate'[c].state \in {"open", "closed"}
                    \/ \E g \in Workers : Seal(g) /\ job[g].candidate = c
<1>0. Typed BY DEF IInv
<1> SUFFICES ASSUME NEW c \in DOMAIN candidate
             PROVE  /\ c \in DOMAIN candidate'
                    /\ candidate'[c].epoch = candidate[c].epoch
                    /\ candidate[c].state \in {"claimed", "closed"} =>
                          candidate'[c].state = candidate[c].state
                    /\ candidate[c].state = "open" =>
                          \/ candidate'[c].state \in {"open", "closed"}
                          \/ \E g \in Workers : Seal(g) /\ job[g].candidate = c
    OBVIOUS
<1>1. CASE UNCHANGED candidate BY <1>1
<1>2. ASSUME NEW C, candidate' = CandidatesClosed(C)
      PROVE  /\ c \in DOMAIN candidate'
             /\ candidate'[c].epoch = candidate[c].epoch
             /\ candidate[c].state \in {"claimed", "closed"} =>
                   candidate'[c].state = candidate[c].state
             /\ candidate[c].state = "open" => candidate'[c].state \in {"open", "closed"}
    BY <1>0, <1>2, CandidatesClosing
<1>3. ASSUME NEW g \in Workers, Worker(g)
      PROVE  /\ c \in DOMAIN candidate'
             /\ candidate'[c].epoch = candidate[c].epoch
             /\ candidate[c].state \in {"claimed", "closed"} =>
                   candidate'[c].state = candidate[c].state
             /\ candidate[c].state = "open" =>
                   \/ candidate'[c].state \in {"open", "closed"}
                   \/ Seal(g) /\ job[g].candidate = c
    <2>1. ASSUME NEW i \in Images, Register(g, i)
          PROVE  c \in DOMAIN candidate' /\ candidate'[c] = candidate[c]
        BY <2>1, Registering
    <2>2. CASE Seal(g) BY <2>2, Sealing
    <2>3. CASE Fail(g) BY <2>3, Failing DEF Closable
    <2> QED BY <1>1, <1>3, <2>1, <2>2, <2>3
        DEF Worker, TakePayload, Look, ReserveDecoded, KeepScratch, AllocatePixels
<1>4. ASSUME NEW d \in DOMAIN candidate, PrepareCandidate(d)
      PROVE  /\ c \in DOMAIN candidate'
             /\ candidate'[c].epoch = candidate[c].epoch
             /\ candidate[c].state \in {"claimed", "closed"} =>
                   candidate'[c].state = candidate[c].state
             /\ candidate[c].state = "open" => candidate'[c].state \in {"open", "closed"}
    BY <1>4, Claiming
<1>5. CASE Settles
    <2>1. candidate' = candidate \/ candidate' = CandidatesClosed(prepared.candidates)
        BY <1>5 DEF Settles, CommitOf, AbortOf
    <2> QED BY <1>1, <1>2, <2>1
<1>6. ASSUME NEW d \in DOMAIN candidate, CloseResult(d)
      PROVE  candidate' = CandidatesClosed({d})
    BY <1>6 DEF CloseResult
<1>7. TakeCandidates => candidate' = CandidatesClosed(candidates) BY DEF TakeCandidates
<1> QED BY <1>0, <1>1, <1>2, <1>3, <1>4, <1>5, <1>6, <1>7, Steps
    DEF PayloadRefused, SealTransfer, CloseTransfer, PrepareRemoval, BeginTransfer, PrepareReset,
        Publish, SwapRegistries, Reopen, PrepareClose, AbortClose, PublishClosed, FinishClose
-----------------------------------------------------------------------------
(* Jobs, and where the owner is. *)
LEMMA JobsStep ==
    ASSUME IInv, Next
    PROVE  Jobs'
<1>0. Typed /\ Jobs /\ Typed' BY TypedStep DEF IInv
<1>1. ASSUME NEW h \in Workers, job'[h] = job[h]
      PROVE  /\ job'[h].at \in {"idle", "started", "wantScratch", "checkScratch"} => ~job'[h].scratch
             /\ IF job'[h].at = "decoding"
                THEN /\ job'[h].candidate \in DOMAIN candidate'
                     /\ candidate'[job'[h].candidate].state \in {"open", "closed"}
                ELSE job'[h].candidate = 0
    <2>1. job'[h].at \in {"idle", "started", "wantScratch", "checkScratch"} => ~job'[h].scratch
        BY <1>0, <1>1 DEF Jobs
    <2>2. CASE job[h].at # "decoding" BY <1>0, <1>1, <2>1, <2>2 DEF Jobs
    <2>3. CASE job[h].at = "decoding"
        <3> DEFINE c == job[h].candidate
        <3>1. c \in DOMAIN candidate /\ candidate[c].state \in {"open", "closed"}
            BY <1>0, <2>3 DEF Jobs
        <3>2. ASSUME NEW g \in Workers, Seal(g), job[g].candidate = c
              PROVE  FALSE
            <4>1. job[g].at = "decoding" /\ job' = [job EXCEPT ![g] = NoJob]
                BY <3>2 DEF Seal
            <4>2. g = h BY <1>0, <2>3, <3>2, <4>1 DEF Jobs
            <4>3. job'[h].at = "idle" BY <1>0, <4>1, <4>2, NoJobIsJob, JobMoved
            <4> QED BY <1>1, <2>3, <4>3
        <3>3. c \in DOMAIN candidate' /\ candidate'[c].state \in {"open", "closed"}
            BY <3>1, <3>2, CandidatesLast
        <3> QED BY <1>1, <2>1, <2>3, <3>3
    <2> QED BY <2>2, <2>3
<1>2. CASE UNCHANGED job
    BY <1>0, <1>1, <1>2 DEF Jobs
<1>3. ASSUME NEW g \in Workers, Worker(g)
      PROVE  Jobs'
    <2>0. PICK r \in Job : job' = [job EXCEPT ![g] = r] BY <1>0, <1>3, JobSteps
    <2>1. job'[g] = r /\ \A h \in Workers \ {g} : job'[h] = job[h] BY <1>0, <2>0, JobMoved
    <2>2. /\ job'[g].at \in {"idle", "started", "wantScratch", "checkScratch"} => ~job'[g].scratch
          /\ job'[g].at # "decoding" => job'[g].candidate = 0
          /\ job'[g].at = "decoding" =>
                /\ job'[g].candidate \in DOMAIN candidate' \ DOMAIN candidate
                /\ candidate'[job'[g].candidate].state = "open"
        <3> USE <1>0
        <3>0. job[g] \in Job /\ job \in [Workers -> Job] BY DEF Typed
        <3>1. ASSUME NEW t \in DOMAIN transfer, TakePayload(g, t)
              PROVE  ~job'[g].scratch /\ job'[g].at = "started" /\ job'[g].candidate = 0
            BY <3>0, <3>1 DEF TakePayload, NoJob
        <3>2. CASE Look(g)
            <4>1. job'[g].at = IF job[g].at = "started" THEN "wantScratch" ELSE "wantCandidate"
                BY <3>0, <3>2 DEF Look, Job
            <4>2. job'[g].scratch = job[g].scratch /\ job'[g].candidate = job[g].candidate
                BY <3>0, <3>2 DEF Look, Job
            <4> QED BY <3>2, <4>1, <4>2 DEF Look, Jobs
        <3>3. CASE ReserveDecoded(g)
            <4>1. job'[g].at = IF job[g].at = "wantScratch" THEN "checkScratch" ELSE "checkCandidate"
                BY <3>0, <3>3 DEF ReserveDecoded, At, Job
            <4>2. job'[g].scratch = job[g].scratch /\ job'[g].candidate = job[g].candidate
                BY <3>0, <3>3 DEF ReserveDecoded, At, Job
            <4> QED BY <3>3, <4>1, <4>2 DEF ReserveDecoded, Jobs
        <3>4. CASE KeepScratch(g)
            <4>1. job'[g].at = "scratched" /\ job'[g].candidate = job[g].candidate
                BY <3>0, <3>4 DEF KeepScratch, Job
            <4> QED BY <3>4, <4>1 DEF KeepScratch, Jobs
        <3>5. CASE AllocatePixels(g)
            <4>1. job'[g].at = "register" /\ job'[g].candidate = job[g].candidate
                BY <3>0, <3>5 DEF AllocatePixels, At, Job
            <4> QED BY <3>5, <4>1 DEF AllocatePixels, Jobs
        <3>6. ASSUME NEW i \in Images, Register(g, i)
              PROVE  /\ job'[g].at = "decoding"
                     /\ job'[g].candidate \in DOMAIN candidate' \ DOMAIN candidate
                     /\ candidate'[job'[g].candidate].state = "open"
            <4>1. job'[g].at = "decoding" /\ job'[g].candidate = Len(candidate) + 1
                BY <3>0, <3>6 DEF Register, Job
            <4> QED BY <3>6, <4>1, Registering
        <3>7. CASE Seal(g) \/ Fail(g)
            <4>1. job'[g] = NoJob BY <3>0, <3>7 DEF Seal, Fail
            <4> QED BY <4>1, NoJobIsJob
        <3> QED BY <1>3, <3>1, <3>2, <3>3, <3>4, <3>5, <3>6, <3>7 DEF Worker
    <2>3. ASSUME NEW h \in Workers \ {g}, job'[h].at = "decoding", job'[g].at = "decoding"
          PROVE  job'[h].candidate # job'[g].candidate
        BY <1>0, <2>1, <2>2, <2>3 DEF Jobs
    <2>4. ASSUME NEW h \in Workers, NEW k \in Workers,
                 job'[h].at = "decoding" /\ job'[k].at = "decoding"
                    /\ job'[h].candidate = job'[k].candidate
          PROVE  h = k
        <3>1. CASE h = g \/ k = g BY <2>3, <2>4, <3>1
        <3>2. CASE h # g /\ k # g BY <1>0, <2>1, <2>4, <3>2 DEF Jobs
        <3> QED BY <3>1, <3>2
    <2>5. ASSUME NEW h \in Workers
          PROVE  /\ job'[h].at \in {"idle", "started", "wantScratch", "checkScratch"} => ~job'[h].scratch
                 /\ IF job'[h].at = "decoding"
                    THEN /\ job'[h].candidate \in DOMAIN candidate'
                         /\ candidate'[job'[h].candidate].state \in {"open", "closed"}
                    ELSE job'[h].candidate = 0
        BY <1>1, <2>1, <2>2, <2>5
    <2> QED BY <2>4, <2>5 DEF Jobs
<1> QED BY <1>0, <1>2, <1>3, Steps
    DEF PayloadRefused, SealTransfer, CloseTransfer, CloseResult, PrepareCandidate, PrepareRemoval,
        BeginTransfer, Settles, PrepareReset, Publish, SwapRegistries, Reopen, PrepareClose,
        AbortClose, PublishClosed, TakeCandidates, FinishClose

LEMMA PhasesStep ==
    ASSUME IInv, Next
    PROVE  Phases'
<1>0. Typed /\ Phases BY DEF IInv
<1> USE <1>0
<1>1. ASSUME UNCHANGED ownerVars
      PROVE  Phases'
    BY <1>1 DEF Phases, Published, ownerVars
<1>2. CASE \E g \in Workers : Worker(g)
    BY <1>1, <1>2 DEF Worker, TakePayload, Look, ReserveDecoded, KeepScratch, AllocatePixels,
                    Register, Seal, Fail
<1>3. CASE BeginTransfer \/ \E t \in DOMAIN transfer : PayloadRefused(t) \/ SealTransfer(t) \/ CloseTransfer(t)
    BY <1>1, <1>3 DEF BeginTransfer, PayloadRefused, SealTransfer, CloseTransfer
<1>4. ASSUME NEW c \in DOMAIN candidate, CloseResult(c) \/ PrepareCandidate(c)
      PROVE  Phases'
    <2>1. CASE CloseResult(c) BY <1>1, <2>1 DEF CloseResult
    <2>2. CASE PrepareCandidate(c)
        <3>1. prepared'.kind = "candidate" BY <2>2, StagedRecord
        <3> QED BY <2>2, <3>1 DEF PrepareCandidate, MayEnter, Phases
    <2> QED BY <1>4, <2>1, <2>2
<1>5. ASSUME NEW S \in SUBSET Images, PrepareRemoval(S)
      PROVE  Phases'
    <2>1. prepared'.kind = "removal" BY <1>5, RemovalRecord
    <2> QED BY <1>5, <2>1 DEF PrepareRemoval, MayEnter, Phases
<1>6. CASE Settles
    <2>1. owner'.pixels = owner.pixels BY <1>6 DEF Settles, Typed
    <2> QED BY <1>6, <2>1 DEF Settles, Phases
<1>7. CASE PrepareReset
    <2>1. owner'.at = "idle" /\ owner'.pixels = owner.pixels BY <1>7 DEF PrepareReset, Typed
    <2> QED BY <1>7, <2>1 DEF PrepareReset, Phases
<1>8. CASE Publish
    <2>1. Published' /\ prepared'.kind = prepared.kind /\ prepared # NoPrepared
        BY <1>8, PublishedRecord DEF Staged
    <2>2. owner'.at = (IF prepared.kind = "reset" THEN "swap" ELSE "idle")
            /\ owner'.pixels = owner.pixels /\ resetting' = resetting /\ owner.at = "idle"
        BY <1>8 DEF Publish, Typed, MayEnter
    <2> QED BY <2>1, <2>2 DEF Phases
<1>9. CASE SwapRegistries
    <2>1. owner'.at = "idle" /\ owner'.pixels = owner.pixels BY <1>9 DEF SwapRegistries, Typed
    <2> QED BY <1>9, <2>1 DEF SwapRegistries, Phases
<1>10. CASE Reopen
    <2>1. owner'.at = "idle" /\ owner'.pixels = owner.pixels BY <1>10 DEF Reopen, Typed
    <2> QED BY <1>10, <2>1 DEF Reopen, Phases
<1>11. CASE PrepareClose \/ AbortClose
    BY <1>11 DEF PrepareClose, AbortClose, Phases, Published
<1>12. CASE PublishClosed
    <2>1. owner'.at = "take" /\ state'.resources = [i \in Images |-> NoRef]
        BY <1>12, ClosedRecord
    <2> QED BY <1>12, <2>1 DEF PublishClosed, Phases
<1>13. CASE TakeCandidates
    <2>1. owner'.at = "finish" BY <1>13 DEF TakeCandidates, Typed
    <2> QED BY <1>13, <2>1 DEF TakeCandidates, Phases
<1>14. CASE FinishClose
    BY <1>14 DEF FinishClose, Phases
<1> QED BY <1>2, <1>3, <1>4, <1>5, <1>6, <1>7, <1>8, <1>9, <1>10, <1>11, <1>12, <1>13, <1>14, Steps
-----------------------------------------------------------------------------
(* The registries. *)
LEMMA Taking ==
    ASSUME IInv, NEW t \in DOMAIN transfer, NEW s \in {"taken", "closed"},
           transfer[t].state \in {"open", "sealed"},
           transfer' = [transfer EXCEPT ![t].state = s]
    PROVE  /\ DOMAIN transfer' = DOMAIN transfer
           /\ Open(DOMAIN transfer)' = Open(DOMAIN transfer) \ {t}
           /\ t \in Open(DOMAIN transfer)
<1>1. Typed BY DEF IInv
<1>2. /\ DOMAIN transfer' = DOMAIN transfer /\ transfer'[t].state = s
      /\ \A u \in DOMAIN transfer \ {t} : transfer'[u] = transfer[u]
    BY <1>1, TransferMoved
<1> QED BY <1>2 DEF Open

LEMMA Beginning ==
    ASSUME IInv, BeginTransfer
    PROVE  LET n == Len(transfer) + 1 IN
           /\ n \notin DOMAIN transfer /\ DOMAIN transfer' = DOMAIN transfer \cup {n}
           /\ Open(DOMAIN transfer)' = Open(DOMAIN transfer) \cup {n}
           /\ pending' = pending \cup {n} /\ ~resetting
<1> DEFINE n == Len(transfer) + 1
           r == [epoch |-> state.epoch, state |-> "open"]
<1>1. Typed /\ transfer \in Seq(Transfer) BY DEF IInv, Typed
<1>2. r \in Transfer /\ r.state = "open" BY <1>1 DEF Typed, States, Transfer
<1>3. transfer' = Append(transfer, r) /\ pending' = pending \cup {n} /\ ~resetting
    BY DEF BeginTransfer
<1> HIDE DEF r
<1>4. n \notin DOMAIN transfer BY <1>1, Lengths
<1>5. DOMAIN transfer' = DOMAIN transfer \cup {n} /\ transfer'[n] = r
        /\ \A t \in DOMAIN transfer : transfer'[t] = transfer[t]
    <2>1. Len(transfer') = n /\ transfer' \in Seq(Transfer) BY <1>1, <1>2, <1>3
    <2>2. DOMAIN transfer' = 1..n BY <2>1
    <2>3. DOMAIN transfer = 1..Len(transfer) /\ Len(transfer) \in Nat BY <1>1, Lengths
    <2> QED BY <1>1, <1>2, <1>3, <2>2, <2>3
<1>6. Open(DOMAIN transfer)' = Open(DOMAIN transfer) \cup {n}
    BY <1>2, <1>4, <1>5 DEF Open
<1> QED BY <1>3, <1>4, <1>5, <1>6

(* Most steps change one of the two registries and not what is prepared.   *)
CandidatesKept ==
    /\ DOMAIN candidate \subseteq DOMAIN candidate'
    /\ Closable(DOMAIN candidate)' \cap Closable(DOMAIN candidate) \cap candidates \subseteq candidates'
    /\ Closable(DOMAIN candidate)' \ Closable(DOMAIN candidate) \subseteq candidates'
    /\ resetting => candidates' \subseteq candidates
TransfersKept ==
    /\ DOMAIN transfer \subseteq DOMAIN transfer'
    /\ Open(DOMAIN transfer)' \cap Open(DOMAIN transfer) \cap pending \subseteq pending'
    /\ Open(DOMAIN transfer)' \ Open(DOMAIN transfer) \subseteq pending'
    /\ resetting => pending' \subseteq pending

LEMMA KeptRegistered ==
    ASSUME IInv, UNCHANGED << prepared, resetting >>, CandidatesKept, TransfersKept
    PROVE  Registered'
<1>1. Registered /\ Phases BY DEF IInv
<1>2. Published' = Published BY DEF Published
<1>3. prepared # NoPrepared /\ prepared.kind = "reset" => resetting BY <1>1 DEF Phases
<1>4. prepared' # NoPrepared => /\ prepared'.candidates \subseteq DOMAIN candidate'
                                /\ prepared'.pending \subseteq DOMAIN transfer'
    BY <1>1 DEF Registered, CandidatesKept, TransfersKept
<1>5. CASE Published
    BY <1>1, <1>2, <1>3, <1>4, <1>5 DEF Registered, CandidatesKept, TransfersKept
<1>6. CASE ~Published
    BY <1>1, <1>2, <1>3, <1>4, <1>6 DEF Registered, CandidatesKept, TransfersKept
<1> QED BY <1>5, <1>6

LEMMA SameCandidates == ASSUME UNCHANGED << candidate, candidates >> PROVE CandidatesKept
BY DEF CandidatesKept, Closable
LEMMA SameTransfers == ASSUME UNCHANGED << transfer, pending >> PROVE TransfersKept
BY DEF TransfersKept, Open

LEMMA RegisteredStep ==
    ASSUME IInv, Next
    PROVE  Registered'
<1>0. Typed /\ Phases /\ Registered BY DEF IInv
<1> USE <1>0
<1>1. ASSUME NEW g \in Workers, Worker(g)
      PROVE  Registered'
    <2>1. UNCHANGED << prepared, resetting >>
        BY <1>1 DEF Worker, TakePayload, Look, ReserveDecoded, KeepScratch, AllocatePixels,
                    Register, Seal, Fail, ownerVars
    <2>2. CandidatesKept
        <3>1. ASSUME NEW i \in Images, Register(g, i) PROVE CandidatesKept
            BY <3>1, Registering DEF CandidatesKept
        <3>2. CASE Seal(g) BY <3>2, Sealing DEF CandidatesKept
        <3>3. CASE Fail(g) BY <3>3, Failing DEF CandidatesKept
        <3> QED BY <1>1, <3>1, <3>2, <3>3, SameCandidates
            DEF Worker, TakePayload, Look, ReserveDecoded, KeepScratch, AllocatePixels
    <2>3. TransfersKept
        <3>1. ASSUME NEW t \in DOMAIN transfer, TakePayload(g, t) PROVE TransfersKept
            BY <3>1, Taking DEF TakePayload, TransfersKept
        <3> QED BY <1>1, <3>1, SameTransfers
            DEF Worker, Look, ReserveDecoded, KeepScratch, AllocatePixels, Register, Seal, Fail
    <2> QED BY <2>1, <2>2, <2>3, KeptRegistered
<1>2. ASSUME NEW t \in DOMAIN transfer, PayloadRefused(t) \/ SealTransfer(t) \/ CloseTransfer(t)
      PROVE  Registered'
    <2>1. UNCHANGED << prepared, resetting, candidate, candidates >>
        BY <1>2 DEF PayloadRefused, SealTransfer, CloseTransfer, ownerVars
    <2>2. CASE PayloadRefused(t)
        BY <2>1, <2>2, Taking, SameCandidates, KeptRegistered DEF PayloadRefused, TransfersKept
    <2>3. CASE SealTransfer(t)
        <3>1. transfer[t].state = "open" /\ transfer' = [transfer EXCEPT ![t].state = "sealed"]
                /\ pending' = pending
            BY <2>3 DEF SealTransfer
        <3>2. /\ DOMAIN transfer' = DOMAIN transfer /\ transfer'[t].state = "sealed"
              /\ \A u \in DOMAIN transfer \ {t} : transfer'[u] = transfer[u]
            BY <3>1, TransferMoved
        <3>3. TransfersKept BY <3>1, <3>2 DEF TransfersKept, Open
        <3> QED BY <2>1, <3>3, SameCandidates, KeptRegistered
    <2>4. CASE CloseTransfer(t)
        <3>1. transfer' = TransfersClosed({t}) /\ pending' = pending \ {t}
            BY <2>4 DEF CloseTransfer
        <3>2. TransfersKept BY <3>1, TransfersClosing DEF TransfersKept
        <3> QED BY <2>1, <3>2, SameCandidates, KeptRegistered
    <2> QED BY <1>2, <2>2, <2>3, <2>4
<1>3. CASE BeginTransfer
    <2>1. TransfersKept BY <1>3, Beginning DEF TransfersKept
    <2> QED BY <1>3, <2>1, SameCandidates, KeptRegistered DEF BeginTransfer, ownerVars
<1>4. ASSUME NEW c \in DOMAIN candidate, CloseResult(c)
      PROVE  Registered'
    <2>1. candidate' = CandidatesClosed({c}) /\ candidates' = candidates \ {c}
        BY <1>4 DEF CloseResult
    <2>2. CandidatesKept BY <2>1, CandidatesClosing DEF CandidatesKept
    <2> QED BY <1>4, <2>2, SameTransfers, KeptRegistered DEF CloseResult, ownerVars
<1>5. ASSUME NEW c \in DOMAIN candidate, PrepareCandidate(c)
      PROVE  Registered'
    <2>1. prepared = NoPrepared /\ ~Published /\ UNCHANGED << transfer, pending >>
        BY <1>5 DEF PrepareCandidate, Published
    <2>2. Open(DOMAIN transfer)' = Open(DOMAIN transfer) BY <2>1 DEF Open
    <2>3. /\ ~Published' /\ prepared'.kind = "candidate"
          /\ prepared'.candidates = {} /\ prepared'.pending = {}
        BY <1>5, StagedRecord
    <2>4. Closable(DOMAIN candidate)' = Closable(DOMAIN candidate) \ {c} /\ candidates' = candidates \ {c}
        BY <1>5, Claiming
    <2> QED BY <2>1, <2>2, <2>3, <2>4 DEF Registered
<1>6. ASSUME NEW S \in SUBSET Images, PrepareRemoval(S)
      PROVE  Registered'
    <2>1. prepared = NoPrepared /\ ~Published
            /\ UNCHANGED << candidate, candidates, transfer, pending >>
        BY <1>6 DEF PrepareRemoval, Published
    <2>2. Open(DOMAIN transfer)' = Open(DOMAIN transfer)
            /\ Closable(DOMAIN candidate)' = Closable(DOMAIN candidate)
        BY <2>1 DEF Open, Closable
    <2>3. /\ ~Published' /\ prepared'.kind = "removal"
          /\ prepared'.candidates = {} /\ prepared'.pending = {}
        BY <1>6, RemovalRecord
    <2> QED BY <2>1, <2>2, <2>3 DEF Registered
<1>7. CASE Settles
    <2>1. prepared' = NoPrepared /\ ~Published' BY <1>7 DEF Settles, Published
    <2>2. ASSUME UNCHANGED << candidate, candidates, transfer, pending >>, ~Published
          PROVE  Registered'
        <3>1. Open(DOMAIN transfer)' = Open(DOMAIN transfer)
                /\ Closable(DOMAIN candidate)' = Closable(DOMAIN candidate)
            BY <2>2 DEF Open, Closable
        <3> QED BY <2>1, <2>2, <3>1 DEF Registered
    <2>3. CASE Published /\ CommitOf(prepared)
        <3>1. Closable(DOMAIN candidate)' = Closable(DOMAIN candidate) \ prepared.candidates
            BY <2>3, CandidatesClosing DEF CommitOf
        <3>2. Open(DOMAIN transfer)' = Open(DOMAIN transfer) \ prepared.pending
            BY <2>3, TransfersClosing DEF CommitOf
        <3> QED BY <2>1, <2>3, <3>1, <3>2 DEF Registered, CommitOf
    <2>4. CASE Staged /\ AbortOf(prepared) BY <2>2, <2>4 DEF AbortOf, Staged, Published
    <2>5. CASE prepared = NoPrepared
              /\ UNCHANGED << candidate, candidates, transfer, pending, transfers, decoded >>
        BY <2>2, <2>5 DEF Published
    <2> QED BY <1>7, <2>3, <2>4, <2>5 DEF Settles
<1>8. CASE PrepareReset
    <2>1. prepared = NoPrepared /\ ~Published
            /\ UNCHANGED << candidate, candidates, transfer, pending >>
        BY <1>8 DEF PrepareReset, Phases, Published
    <2>2. Open(DOMAIN transfer)' = Open(DOMAIN transfer)
            /\ Closable(DOMAIN candidate)' = Closable(DOMAIN candidate)
        BY <2>1 DEF Open, Closable
    <2>3. ~Published' /\ prepared'.candidates = candidates /\ prepared'.pending = pending
        BY <1>8, ResetRecord
    <2> QED BY <2>1, <2>2, <2>3 DEF Registered, Typed
<1>9. CASE Publish
    <2>1. UNCHANGED << candidate, candidates, transfer, pending >> BY <1>9 DEF Publish
    <2>2. Open(DOMAIN transfer)' = Open(DOMAIN transfer)
            /\ Closable(DOMAIN candidate)' = Closable(DOMAIN candidate)
        BY <2>1 DEF Open, Closable
    <2>3. /\ ~Published /\ prepared # NoPrepared /\ prepared'.kind = prepared.kind
          /\ prepared'.candidates = prepared.candidates /\ prepared'.pending = prepared.pending
        BY <1>9, PublishedRecord DEF Staged
    <2> QED BY <2>1, <2>2, <2>3 DEF Registered
<1>10. CASE SwapRegistries
    <2>1. UNCHANGED << prepared, candidate, transfer >> /\ candidates' = {} /\ pending' = {}
        BY <1>10 DEF SwapRegistries
    <2>2. Published /\ prepared.kind = "reset" /\ prepared # NoPrepared /\ Published'
        BY <1>10, <2>1 DEF SwapRegistries, Phases, Published
    <2>3. Open(DOMAIN transfer)' = Open(DOMAIN transfer)
            /\ Closable(DOMAIN candidate)' = Closable(DOMAIN candidate)
        BY <2>1 DEF Open, Closable
    <2> QED BY <2>1, <2>2, <2>3 DEF Registered
<1>11. CASE Reopen
    <2>1. prepared = NoPrepared /\ UNCHANGED << prepared, candidate, candidates, transfer, pending >>
        BY <1>11 DEF Reopen, Phases
    <2>2. Open(DOMAIN transfer)' = Open(DOMAIN transfer)
            /\ Closable(DOMAIN candidate)' = Closable(DOMAIN candidate)
        BY <2>1 DEF Open, Closable
    <2> QED BY <2>1, <2>2 DEF Registered, Published
<1>12. CASE PrepareClose \/ AbortClose \/ PublishClosed
    BY <1>12, SameCandidates, SameTransfers, KeptRegistered DEF PrepareClose, AbortClose, PublishClosed
<1>13. CASE TakeCandidates
    <2>1. prepared = NoPrepared /\ UNCHANGED << prepared, transfer, pending >> /\ candidates' = {}
        BY <1>13 DEF TakeCandidates, Phases
    <2>2. Closable(DOMAIN candidate)' = Closable(DOMAIN candidate) \ candidates
        BY <1>13, CandidatesClosing DEF TakeCandidates
    <2>3. Open(DOMAIN transfer)' = Open(DOMAIN transfer) BY <2>1 DEF Open
    <2> QED BY <2>1, <2>2, <2>3 DEF Registered, Published
<1>14. CASE FinishClose
    <2>1. prepared = NoPrepared /\ UNCHANGED << prepared, candidate, candidates >> /\ pending' = {}
        BY <1>14 DEF FinishClose, Phases
    <2>2. Open(DOMAIN transfer)' = Open(DOMAIN transfer) \ pending
        BY <1>14, TransfersClosing DEF FinishClose
    <2>3. Closable(DOMAIN candidate)' = Closable(DOMAIN candidate) BY <2>1 DEF Closable
    <2> QED BY <2>1, <2>2, <2>3 DEF Registered, Published
<1> QED BY <1>1, <1>2, <1>3, <1>4, <1>5, <1>6, <1>7, <1>8, <1>9, <1>10, <1>11, <1>12, <1>13, <1>14, Steps
-----------------------------------------------------------------------------
(* Claimed pixels: only a claim adds, only settling and closing take away. *)
LEMMA NoPixels == Pixels([i \in Images |-> NoRef]) = {}
BY DEF Pixels, NoRef

LEMMA OwnedSame ==
    ASSUME IInv, UNCHANGED ownerVars \/ (\E S \in SUBSET Images : PrepareRemoval(S))
                 \/ PrepareReset \/ Publish \/ SwapRegistries \/ Reopen \/ PrepareClose
                 \/ AbortClose \/ PublishClosed \/ TakeCandidates
    PROVE  Owned' = Owned
<1>0. Typed /\ Phases /\ Claimed BY DEF IInv
<1> USE <1>0
<1>1. CASE UNCHANGED ownerVars BY <1>1 DEF Owned, ownerVars, Pixels
<1>2. ASSUME NEW S \in SUBSET Images, PrepareRemoval(S)
      PROVE  Owned' = Owned
    <2>1. prepared = NoPrepared /\ UNCHANGED << state, owner >> BY <1>2 DEF PrepareRemoval
    <2>2. prepared' # NoPrepared /\ ~prepared'.published /\ prepared'.made = {}
        BY <1>2, RemovalRecord DEF Staged
    <2> QED BY <2>1, <2>2 DEF Owned, Pixels
<1>3. CASE PrepareReset
    <2>1. prepared = NoPrepared /\ state' = state /\ owner'.pixels = owner.pixels
        BY <1>3 DEF PrepareReset, Phases, Typed
    <2>2. prepared' # NoPrepared /\ ~prepared'.published /\ prepared'.made = {}
        BY <1>3, ResetRecord DEF Staged
    <2> QED BY <2>1, <2>2 DEF Owned, Pixels
<1>4. CASE Publish
    <2>1. /\ Staged /\ prepared # NoPrepared /\ ~prepared.published
          /\ prepared' # NoPrepared /\ prepared'.published
          /\ prepared'.retired = prepared.retired /\ state' = prepared.next
        BY <1>4, PublishedRecord DEF Staged, Published
    <2>2. owner'.pixels = owner.pixels BY <1>4 DEF Publish, Typed
    <2>3. Pixels(prepared.next.resources) \cup prepared.retired
             = Pixels(state.resources) \cup prepared.made
        BY <2>1 DEF Claimed
    <2>4. Pixels(state'.resources) = Pixels(prepared.next.resources) BY <2>1
    <2>5. Owned' = Pixels(prepared.next.resources) \cup owner.pixels \cup prepared.retired
        BY <2>1, <2>2, <2>4 DEF Owned, Pixels
    <2>6. Owned = Pixels(state.resources) \cup owner.pixels \cup prepared.made
        BY <2>1 DEF Owned
    <2> QED BY <2>3, <2>5, <2>6
<1>5. CASE SwapRegistries \/ Reopen \/ PrepareClose \/ AbortClose \/ TakeCandidates
    <2>1. owner'.pixels = owner.pixels /\ UNCHANGED << state, prepared >>
        BY <1>5 DEF SwapRegistries, Reopen, PrepareClose, AbortClose, TakeCandidates, Typed
    <2> QED BY <2>1 DEF Owned, Pixels
<1>6. CASE PublishClosed
    <2>1. prepared = NoPrepared /\ prepared' = NoPrepared /\ owner.pixels = {}
        BY <1>6 DEF PublishClosed, Phases
    <2>2. state'.resources = [i \in Images |-> NoRef] /\ owner'.pixels = Pixels(state.resources)
        BY <1>6, ClosedRecord
    <2>3. Pixels(state'.resources) = {} BY <2>2, NoPixels
    <2>4. Owned' = owner'.pixels BY <2>1, <2>3 DEF Owned, Pixels
    <2>5. Owned = Pixels(state.resources) BY <2>1 DEF Owned
    <2> QED BY <2>2, <2>4, <2>5
<1> QED BY <1>1, <1>2, <1>3, <1>4, <1>5, <1>6

LEMMA OwnedClaiming ==
    ASSUME IInv, NEW c \in DOMAIN candidate, PrepareCandidate(c)
    PROVE  c \notin Owned /\ Owned' = Owned \cup {c}
<1>0. Typed /\ Claimed BY DEF IInv
<1>1. prepared = NoPrepared /\ UNCHANGED << state, owner >> BY DEF PrepareCandidate
<1>2. prepared' # NoPrepared /\ ~prepared'.published /\ prepared'.made = {c}
    BY <1>0, StagedRecord DEF Staged
<1>3. candidate[c].state = "sealed" BY Claiming
<1> QED BY <1>0, <1>1, <1>2, <1>3 DEF Owned, Pixels, Claimed

(* What settling gives up. *)
GivenUp == IF prepared = NoPrepared THEN {}
           ELSE IF prepared.published THEN prepared.retired ELSE prepared.made

LEMMA OwnedSettling ==
    ASSUME IInv, Settles
    PROVE  GivenUp \subseteq Owned /\ Owned' = Owned \ GivenUp
<1>0. Typed /\ Claimed /\ Phases BY DEF IInv
<1>1. owner.pixels = {} /\ owner'.pixels = {} /\ prepared' = NoPrepared /\ state' = state
    BY <1>0 DEF Settles, Phases, Typed
<1>2. Owned' = Pixels(state.resources) BY <1>1 DEF Owned, Pixels
<1>3. Owned = Pixels(state.resources) \cup GivenUp BY <1>1 DEF Owned, GivenUp
<1>4. GivenUp \cap Pixels(state.resources) = {}
    BY <1>0 DEF GivenUp, Claimed, Staged, Published
<1> QED BY <1>2, <1>3, <1>4

LEMMA OwnedClosing ==
    ASSUME IInv, FinishClose
    PROVE  Owned = owner.pixels /\ Owned' = {}
<1>0. Typed /\ Phases BY DEF IInv
<1>1. prepared = NoPrepared /\ state.resources = [i \in Images |-> NoRef]
        /\ UNCHANGED << prepared, state >> /\ owner'.pixels = {}
    BY <1>0 DEF FinishClose, Phases
<1> QED BY <1>1, NoPixels DEF Owned, Pixels

(* The pixels of a prepared state, for each way of preparing one. *)
LEMMA StagedPixels ==
    ASSUME IInv, NEW c \in DOMAIN candidate, PrepareCandidate(c)
    PROVE  /\ OnePlace(prepared'.next.resources)
           /\ Pixels(prepared'.next.resources) \cup prepared'.retired = Pixels(state.resources) \cup {c}
           /\ c \notin Pixels(state.resources)
           /\ prepared'.retired \cap Pixels(prepared'.next.resources) = {}
<1>0. Typed /\ Claimed BY DEF IInv
<1> DEFINE i == candidate[c].image
           new == prepared'.next.resources
           old == state.resources
<1>1. i \in Images /\ c \in Nat /\ c # 0 BY <1>0, Lengths DEF Candidate
<1>2. /\ prepared'.retired = {old[i].pixels} \ {0}
      /\ \A j \in Images : new[j].pixels = IF j = i THEN c ELSE old[j].pixels
    <2> DEFINE ref == [generation |-> state.next + 1, pixels |-> c]
    <2>1. prepared'.retired = {old[i].pixels} \ {0} BY <1>0, StagedRecord
    <2>2. \A j \in Images : new[j] = IF j = i THEN ref ELSE old[j] BY <1>0, StagedRecord
    <2>3. ref.pixels = c OBVIOUS
    <2> HIDE DEF ref, new, old, i
    <2>4. \A j \in Images : new[j].pixels = IF j = i THEN c ELSE old[j].pixels BY <2>2, <2>3
    <2> QED BY <2>1, <2>4
<1>3. c \notin Pixels(old) BY OwnedClaiming DEF Owned
<1>4. \A j \in Images : old[j].pixels # c BY <1>1, <1>3 DEF Pixels
<1>5. OnePlace(old) BY <1>0 DEF Claimed
<1> HIDE DEF i, new, old
<1>6. OnePlace(new) BY <1>2, <1>4, <1>5 DEF OnePlace
<1>7. Pixels(new) \cup prepared'.retired = Pixels(old) \cup {c}
    BY <1>1, <1>2 DEF Pixels
<1>8. prepared'.retired \cap Pixels(new) = {}
    BY <1>1, <1>2, <1>4, <1>5 DEF Pixels, OnePlace
<1> QED BY <1>3, <1>6, <1>7, <1>8 DEF new, old

LEMMA RemovedPixels ==
    ASSUME IInv, NEW S \in SUBSET Images, PrepareRemoval(S)
    PROVE  /\ OnePlace(prepared'.next.resources)
           /\ Pixels(prepared'.next.resources) \cup prepared'.retired = Pixels(state.resources)
           /\ prepared'.retired \cap Pixels(prepared'.next.resources) = {}
<1>0. Typed /\ Claimed BY DEF IInv
<1> DEFINE new == prepared'.next.resources
           old == state.resources
<1>1. /\ prepared'.retired = {old[i].pixels : i \in S} \ {0}
      /\ \A j \in Images : new[j] = IF j \in S THEN NoRef ELSE old[j]
    BY <1>0, RemovalRecord
<1>2. \A j \in Images : new[j].pixels = IF j \in S THEN 0 ELSE old[j].pixels
    BY <1>1 DEF NoRef
<1>3. OnePlace(old) BY <1>0 DEF Claimed
<1> HIDE DEF new, old
<1>4. OnePlace(new) BY <1>2, <1>3 DEF OnePlace
<1>5. Pixels(new) \cup prepared'.retired = Pixels(old) BY <1>1, <1>2 DEF Pixels
<1>6. prepared'.retired \cap Pixels(new) = {} BY <1>1, <1>2, <1>3 DEF Pixels, OnePlace
<1> QED BY <1>4, <1>5, <1>6 DEF new, old

LEMMA ClaimedStep ==
    ASSUME IInv, Next
    PROVE  Claimed'
<1>0. Typed /\ Phases /\ Claimed BY DEF IInv
<1> USE <1>0
<1> DEFINE Held(c) == c \in DOMAIN candidate' /\ candidate'[c].state = "claimed"
<1>1. \A c \in Owned : Held(c)
    BY CandidatesLast DEF Claimed
<1>2. ASSUME UNCHANGED << state, prepared >>, Owned' \subseteq Owned
      PROVE  Claimed'
    BY <1>1, <1>2 DEF Claimed, Staged, Published, OnePlace, Pixels
<1>3. ASSUME UNCHANGED ownerVars
      PROVE  Claimed'
    <2>1. Owned' = Owned BY <1>3, OwnedSame
    <2>2. UNCHANGED << state, prepared >> BY <1>3 DEF ownerVars
    <2> QED BY <1>2, <2>1, <2>2
<1>4. CASE \E g \in Workers : Worker(g)
    BY <1>3, <1>4 DEF Worker, TakePayload, Look, ReserveDecoded, KeepScratch, AllocatePixels,
                    Register, Seal, Fail
<1>5. CASE BeginTransfer \/ \E t \in DOMAIN transfer : PayloadRefused(t) \/ SealTransfer(t) \/ CloseTransfer(t)
    BY <1>3, <1>5 DEF BeginTransfer, PayloadRefused, SealTransfer, CloseTransfer
<1>6. ASSUME NEW c \in DOMAIN candidate, CloseResult(c)
      PROVE  Claimed'
    BY <1>3, <1>6 DEF CloseResult
<1>7. ASSUME NEW c \in DOMAIN candidate, PrepareCandidate(c)
      PROVE  Claimed'
    <2>1. state' = state BY <1>7 DEF PrepareCandidate
    <2>2. Staged' /\ ~Published' /\ prepared'.made = {c} BY <1>7, StagedRecord
    <2>3. Owned' = Owned \cup {c} BY <1>7, OwnedClaiming
    <2>4. Held(c) BY <1>7, Claiming
    <2>5. \A d \in Owned' : Held(d) BY <1>1, <2>3, <2>4
    <2>6. OnePlace(state'.resources) BY <2>1 DEF Claimed
    <2>7. /\ OnePlace(prepared'.next.resources)
          /\ Pixels(prepared'.next.resources) \cup prepared'.retired
                = Pixels(state'.resources) \cup prepared'.made
          /\ prepared'.made \cap Pixels(state'.resources) = {}
          /\ prepared'.retired \cap Pixels(prepared'.next.resources) = {}
        BY <1>7, <2>1, <2>2, StagedPixels
    <2> QED BY <2>2, <2>5, <2>6, <2>7 DEF Claimed, OnePlace, Pixels
<1>8. ASSUME NEW S \in SUBSET Images, PrepareRemoval(S)
      PROVE  Claimed'
    <2>1. state' = state BY <1>8 DEF PrepareRemoval
    <2>2. Staged' /\ ~Published' /\ prepared'.made = {} BY <1>8, RemovalRecord
    <2>3. Owned' = Owned BY <1>8, OwnedSame
    <2>4. \A d \in Owned' : Held(d) BY <1>1, <2>3
    <2>5. OnePlace(state'.resources) BY <2>1 DEF Claimed
    <2>6. /\ OnePlace(prepared'.next.resources)
          /\ Pixels(prepared'.next.resources) \cup prepared'.retired
                = Pixels(state'.resources) \cup prepared'.made
          /\ prepared'.made \cap Pixels(state'.resources) = {}
          /\ prepared'.retired \cap Pixels(prepared'.next.resources) = {}
        BY <1>8, <2>1, <2>2, RemovedPixels
    <2> QED BY <2>2, <2>4, <2>5, <2>6 DEF Claimed, OnePlace, Pixels
<1>9. CASE Settles
    <2>1. prepared' = NoPrepared /\ state' = state BY <1>9 DEF Settles
    <2>2. Owned' \subseteq Owned BY <1>9, OwnedSettling
    <2> QED BY <1>1, <2>1, <2>2 DEF Claimed, Staged, Published, OnePlace
<1>10. CASE PrepareReset
    <2>1. state' = state BY <1>10 DEF PrepareReset
    <2>2. /\ Staged' /\ ~Published' /\ prepared'.made = {}
          /\ prepared'.retired = Pixels(state.resources)
          /\ prepared'.next.resources = [i \in Images |-> NoRef]
        BY <1>10, ResetRecord
    <2>3. Owned' = Owned BY <1>10, OwnedSame
    <2>4. \A d \in Owned' : Held(d) BY <1>1, <2>3
    <2>5. OnePlace(state'.resources) BY <2>1 DEF Claimed
    <2>6. Pixels(prepared'.next.resources) = {} BY <2>2, NoPixels
    <2>7. OnePlace(prepared'.next.resources) BY <2>2 DEF OnePlace, NoRef
    <2>8. Pixels(state'.resources) = prepared'.retired BY <2>1, <2>2
    <2> QED BY <2>2, <2>4, <2>5, <2>6, <2>7, <2>8 DEF Claimed, OnePlace, Pixels
<1>11. CASE Publish
    <2>1. /\ Staged /\ Published' /\ ~Staged' /\ prepared'.retired = prepared.retired
          /\ state' = prepared.next
        BY <1>11, PublishedRecord
    <2>2. Owned' = Owned BY <1>11, OwnedSame
    <2>3. OnePlace(prepared.next.resources)
            /\ prepared.retired \cap Pixels(prepared.next.resources) = {}
        BY <2>1 DEF Claimed
    <2>4. OnePlace(state'.resources) /\ prepared'.retired \cap Pixels(state'.resources) = {}
        BY <2>1, <2>3
    <2> QED BY <1>1, <2>1, <2>2, <2>4 DEF Claimed, OnePlace, Pixels
<1>12. CASE SwapRegistries \/ Reopen \/ PrepareClose \/ AbortClose \/ TakeCandidates
    <2>1. UNCHANGED << state, prepared >>
        BY <1>12 DEF SwapRegistries, Reopen, PrepareClose, AbortClose, TakeCandidates
    <2>2. Owned' = Owned BY <1>12, OwnedSame
    <2> QED BY <1>2, <2>1, <2>2
<1>13. CASE PublishClosed
    <2>1. prepared' = NoPrepared BY <1>13 DEF PublishClosed, Phases
    <2>2. Owned' = Owned BY <1>13, OwnedSame
    <2>3. state'.resources = [i \in Images |-> NoRef] BY <1>13, ClosedRecord
    <2>4. OnePlace(state'.resources) BY <2>3 DEF OnePlace, NoRef
    <2> QED BY <1>1, <2>1, <2>2, <2>4 DEF Claimed, Staged, Published, OnePlace
<1>14. CASE FinishClose
    <2>1. UNCHANGED << state, prepared >> BY <1>14 DEF FinishClose
    <2>2. Owned' \subseteq Owned BY <1>14, OwnedClosing
    <2> QED BY <1>2, <2>1, <2>2
<1> QED BY <1>4, <1>5, <1>6, <1>7, <1>8, <1>9, <1>10, <1>11, <1>12, <1>13, <1>14, Steps
-----------------------------------------------------------------------------
(* The epochs of what is published, staged or registered. *)
LEMMA EpochsStep ==
    ASSUME IInv, Next
    PROVE  Epochs'
<1>0. Typed /\ Phases /\ Claimed /\ Epochs BY DEF IInv
<1> USE <1>0
<1>1. \A c \in DOMAIN candidate : candidate'[c].epoch = candidate[c].epoch BY CandidatesLast
<1>2. Pixels(state.resources) \subseteq DOMAIN candidate BY DEF Claimed, Owned
<1>3. Staged => Pixels(prepared.next.resources) \subseteq DOMAIN candidate
    <2>1. Staged => prepared.made \subseteq Owned BY DEF Owned, Staged
    <2> QED BY <1>2, <2>1 DEF Claimed
<1>4. candidates \subseteq DOMAIN candidate BY DEF Typed
<1>5. ASSUME UNCHANGED << state, prepared >>, owner'.at # "swap" => owner.at # "swap",
             ~state.closed => \A c \in candidates' \ candidates : candidate'[c].epoch = state.epoch
      PROVE  Epochs'
    <2>1. Staged' = Staged BY <1>5 DEF Staged
    <2>2. \A c \in Pixels(state'.resources) : candidate'[c].epoch = state'.epoch
        BY <1>1, <1>2, <1>5 DEF Epochs
    <2>3. ~state'.closed /\ owner'.at # "swap" => \A c \in candidates' : candidate'[c].epoch = state'.epoch
        BY <1>1, <1>4, <1>5 DEF Epochs
    <2>4. Staged' =>
            /\ \A c \in Pixels(prepared'.next.resources) : candidate'[c].epoch = prepared'.next.epoch
            /\ prepared'.kind # "reset" => prepared'.next.epoch = state'.epoch
        BY <1>1, <1>3, <1>5, <2>1 DEF Epochs
    <2> QED BY <2>2, <2>3, <2>4 DEF Epochs, Pixels
<1>6. ASSUME UNCHANGED ownerVars, candidates' \subseteq candidates
      PROVE  Epochs'
    BY <1>5, <1>6 DEF ownerVars
<1>7. ASSUME NEW g \in Workers, Worker(g)
      PROVE  Epochs'
    <2>1. ASSUME NEW i \in Images, Register(g, i)
          PROVE  Epochs'
        BY <1>5, <2>1, Registering DEF Register, ownerVars
    <2> QED BY <1>6, <1>7, <2>1
        DEF Worker, TakePayload, Look, ReserveDecoded, KeepScratch, AllocatePixels, Seal, Fail
<1>8. CASE BeginTransfer \/ \E t \in DOMAIN transfer : PayloadRefused(t) \/ SealTransfer(t) \/ CloseTransfer(t)
    BY <1>6, <1>8 DEF BeginTransfer, PayloadRefused, SealTransfer, CloseTransfer
<1>9. ASSUME NEW c \in DOMAIN candidate, CloseResult(c)
      PROVE  Epochs'
    BY <1>6, <1>9 DEF CloseResult
<1>10. ASSUME UNCHANGED << state, owner >>, candidates' \subseteq candidates, Staged',
              prepared'.next.epoch = state.epoch,
              \A c \in Pixels(prepared'.next.resources) : candidate'[c].epoch = state.epoch
       PROVE  Epochs'
    <2>1. \A c \in Pixels(state'.resources) : candidate'[c].epoch = state'.epoch
        BY <1>1, <1>2, <1>10 DEF Epochs
    <2>2. ~state'.closed /\ owner'.at # "swap" => \A c \in candidates' : candidate'[c].epoch = state'.epoch
        BY <1>1, <1>4, <1>10 DEF Epochs
    <2>3. /\ \A c \in Pixels(prepared'.next.resources) : candidate'[c].epoch = prepared'.next.epoch
          /\ prepared'.next.epoch = state'.epoch
        BY <1>10
    <2> QED BY <2>1, <2>2, <2>3 DEF Epochs, Pixels
<1>11. ASSUME NEW c \in DOMAIN candidate, PrepareCandidate(c)
       PROVE  Epochs'
    <2>1. Staged' /\ prepared'.next.epoch = state.epoch BY <1>11, StagedRecord
    <2>2. candidate'[c].epoch = state.epoch /\ candidates' \subseteq candidates BY <1>11, Claiming
    <2>3. Pixels(prepared'.next.resources) \subseteq Pixels(state.resources) \cup {c}
        BY <1>11, StagedPixels
    <2>4. \A d \in Pixels(prepared'.next.resources) : candidate'[d].epoch = state.epoch
        BY <1>1, <1>2, <2>2, <2>3 DEF Epochs
    <2> QED BY <1>10, <1>11, <2>1, <2>2, <2>4 DEF PrepareCandidate
<1>12. ASSUME NEW S \in SUBSET Images, PrepareRemoval(S)
       PROVE  Epochs'
    <2>1. Staged' /\ prepared'.next.epoch = state.epoch BY <1>12, RemovalRecord
    <2>2. Pixels(prepared'.next.resources) \subseteq Pixels(state.resources)
        BY <1>12, RemovedPixels
    <2>3. \A d \in Pixels(prepared'.next.resources) : candidate'[d].epoch = state.epoch
        BY <1>1, <1>2, <2>2 DEF Epochs
    <2> QED BY <1>10, <1>12, <2>1, <2>3 DEF PrepareRemoval
<1>13. CASE Settles
    <2>1. prepared' = NoPrepared /\ state' = state /\ owner.at = "idle" /\ candidates' \subseteq candidates
        BY <1>13 DEF Settles, CommitOf, AbortOf
    <2>2. \A c \in Pixels(state'.resources) : candidate'[c].epoch = state'.epoch
        BY <1>1, <1>2, <2>1 DEF Epochs
    <2>3. ~state'.closed => \A c \in candidates' : candidate'[c].epoch = state'.epoch
        BY <1>1, <1>4, <2>1 DEF Epochs
    <2>4. ~Staged' BY <2>1 DEF Staged
    <2> QED BY <2>2, <2>3, <2>4 DEF Epochs, Pixels
<1>14. CASE PrepareReset
    <2>1. UNCHANGED << state, candidate, candidates >> /\ owner.at = "collect"
        BY <1>14 DEF PrepareReset
    <2>2. prepared'.kind = "reset" /\ Pixels(prepared'.next.resources) = {}
        BY <1>14, ResetRecord, NoPixels
    <2> QED BY <2>1, <2>2 DEF Epochs, Pixels
<1>15. CASE Publish
    <2>1. /\ Staged /\ ~Staged' /\ state' = prepared.next BY <1>15, PublishedRecord
    <2>2. UNCHANGED << candidate, candidates >> /\ owner.at = "idle" /\ ~state.closed
            /\ owner'.at = (IF prepared.kind = "reset" THEN "swap" ELSE "idle")
        BY <1>15 DEF Publish, MayEnter, Typed
    <2>3. \A c \in Pixels(state'.resources) : candidate'[c].epoch = state'.epoch
        BY <2>1, <2>2 DEF Epochs
    <2>4. owner'.at # "swap" => \A c \in candidates' : candidate'[c].epoch = state'.epoch
        BY <2>1, <2>2 DEF Epochs
    <2> QED BY <2>1, <2>3, <2>4 DEF Epochs, Pixels
<1>16. CASE SwapRegistries
    <2>1. UNCHANGED << state, prepared, candidate >> /\ candidates' = {} BY <1>16 DEF SwapRegistries
    <2>2. Staged' = Staged BY <2>1 DEF Staged
    <2> QED BY <2>1, <2>2 DEF Epochs, Pixels
<1>17. CASE Reopen \/ PrepareClose \/ AbortClose \/ TakeCandidates \/ FinishClose
    <2>1. UNCHANGED << state, prepared >> /\ candidates' \subseteq candidates /\ owner.at # "swap"
        BY <1>17 DEF Reopen, PrepareClose, AbortClose, TakeCandidates, FinishClose, MayEnter
    <2> QED BY <1>5, <2>1
<1>18. CASE PublishClosed
    <2>1. prepared' = NoPrepared BY <1>18 DEF PublishClosed, Phases
    <2>2. state'.closed /\ state'.resources = [i \in Images |-> NoRef] BY <1>18, ClosedRecord
    <2>3. Pixels(state'.resources) = {} BY <2>2, NoPixels
    <2> QED BY <2>1, <2>2, <2>3 DEF Epochs, Staged, Pixels
<1> QED BY <1>7, <1>8, <1>9, <1>11, <1>12, <1>13, <1>14, <1>15, <1>16, <1>17, <1>18, Steps
-----------------------------------------------------------------------------
(* A new reference has a generation that none had. *)
LEMMA NamesStep ==
    ASSUME IInv, Next
    PROVE  Names'
<1>0. Typed /\ Phases /\ Names BY DEF IInv
<1> USE <1>0
<1>1. ASSUME UNCHANGED << state, prepared, named >>
      PROVE  Names'
    <2>1. Staged' = Staged BY <1>1 DEF Staged
    <2> QED BY <1>1, <2>1 DEF Names, RefsNameOne
<1>2. ASSUME UNCHANGED << state, named >>,
             Staged' => /\ state.next <= prepared'.next.next
                        /\ \A i \in Images :
                            \/ prepared'.next.resources[i] \in {NoRef, state.resources[i]}
                            \/ prepared'.next.resources[i].generation
                                  \in (state.next + 1)..prepared'.next.next
      PROVE  Names'
    BY <1>2 DEF Names, RefsNameOne
<1>3. state.next \in Nat BY DEF Typed, States
<1>4. CASE \E g \in Workers : Worker(g)
    BY <1>1, <1>4 DEF Worker, TakePayload, Look, ReserveDecoded, KeepScratch, AllocatePixels,
                    Register, Seal, Fail, ownerVars
<1>5. CASE BeginTransfer \/ \E t \in DOMAIN transfer : PayloadRefused(t) \/ SealTransfer(t) \/ CloseTransfer(t)
    BY <1>1, <1>5 DEF BeginTransfer, PayloadRefused, SealTransfer, CloseTransfer, ownerVars
<1>6. ASSUME NEW c \in DOMAIN candidate, CloseResult(c)
      PROVE  Names'
    BY <1>1, <1>6 DEF CloseResult, ownerVars
<1>7. ASSUME NEW c \in DOMAIN candidate, PrepareCandidate(c)
      PROVE  Names'
    <2> DEFINE ref == [generation |-> state.next + 1, pixels |-> c]
    <2>1. prepared'.next.next = state.next + 1
            /\ \A i \in Images : prepared'.next.resources[i] =
                 IF i = candidate[c].image THEN ref ELSE state.resources[i]
        BY <1>7, StagedRecord
    <2>2. ref.generation = state.next + 1 OBVIOUS
    <2> HIDE DEF ref
    <2>3. \A i \in Images :
            \/ prepared'.next.resources[i] = state.resources[i]
            \/ prepared'.next.resources[i].generation = state.next + 1
        BY <2>1, <2>2
    <2>4. state.next + 1 \in (state.next + 1)..(state.next + 1) /\ state.next <= state.next + 1
        BY <1>3
    <2> QED BY <1>2, <1>7, <2>1, <2>3, <2>4 DEF PrepareCandidate
<1>8. ASSUME NEW S \in SUBSET Images, PrepareRemoval(S)
      PROVE  Names'
    <2>1. prepared'.next.next = state.next
            /\ \A i \in Images : prepared'.next.resources[i] \in {NoRef, state.resources[i]}
        BY <1>8, RemovalRecord
    <2>2. state.next <= state.next BY <1>3
    <2> QED BY <1>2, <1>8, <2>1, <2>2 DEF PrepareRemoval
<1>9. CASE Settles
    BY <1>2, <1>9 DEF Settles, Staged
<1>10. CASE PrepareReset
    <2>1. prepared'.next.next = state.next
            /\ \A i \in Images : prepared'.next.resources[i] = NoRef
        BY <1>10, ResetRecord
    <2>2. state.next <= state.next BY <1>3
    <2> QED BY <1>2, <1>10, <2>1, <2>2 DEF PrepareReset
<1>11. CASE Publish
    <2> DEFINE old == state.resources
               new == prepared.next.resources
               n == prepared.next.next
    <2>1. Staged /\ ~Staged' /\ state' = prepared.next /\ state' \in States
        BY <1>11, PublishedRecord
    <2>2. named' = named \cup {<< i, new[i].generation, new[i].pixels >> :
                                i \in {i \in Images : new[i] # NoRef}}
        BY <1>11 DEF Publish
    <2>3. /\ n \in Nat /\ state.next <= n
          /\ \A i \in Images : new[i].generation \in Nat
          /\ \A i \in Images : \/ new[i] \in {NoRef, old[i]}
                               \/ new[i].generation \in (state.next + 1)..n
        BY <2>1 DEF Names, States, Ref
    <2>4. \A r \in named : r[2] \in Nat /\ r[2] <= state.next BY DEF Names, Typed
    <2>5. \A i \in Images : new[i] # NoRef =>
            \/ << i, new[i].generation, new[i].pixels >> \in named
            \/ state.next < new[i].generation /\ new[i].generation <= n
        <3> SUFFICES ASSUME NEW i \in Images, new[i] # NoRef
                     PROVE  \/ << i, new[i].generation, new[i].pixels >> \in named
                            \/ state.next < new[i].generation /\ new[i].generation <= n
            OBVIOUS
        <3>1. CASE new[i] = old[i]
            <4>1. old[i] # NoRef BY <3>1
            <4>2. << i, old[i].generation, old[i].pixels >> \in named BY <4>1 DEF Names
            <4> QED BY <3>1, <4>2
        <3>2. CASE new[i].generation \in (state.next + 1)..n BY <1>3, <2>3, <3>2
        <3> QED BY <2>3, <3>1, <3>2
    <2> HIDE DEF new, n, old
    <2>6. \A r \in named' : r[2] <= n
        BY <1>3, <2>2, <2>3, <2>4, <2>5
    <2>7. RefsNameOne'
        <3> SUFFICES ASSUME NEW r \in named', NEW s \in named', r[1] = s[1], r[2] = s[2]
                     PROVE  r[3] = s[3]
            BY DEF RefsNameOne
        <3>1. ASSUME NEW q \in named'
              PROVE  \/ q \in named
                     \/ /\ q[1] \in Images /\ q = << q[1], new[q[1]].generation, new[q[1]].pixels >>
                        /\ state.next < q[2]
            BY <2>2, <2>5, <3>1
        <3>2. CASE r \in named /\ s \in named BY <3>2 DEF Names, RefsNameOne
        <3>3. CASE r \in named /\ s \notin named BY <1>3, <2>4, <3>1, <3>3
        <3>4. CASE r \notin named /\ s \in named BY <1>3, <2>4, <3>1, <3>4
        <3>5. CASE r \notin named /\ s \notin named
            <4>1. r[3] = new[r[1]].pixels /\ s[3] = new[s[1]].pixels BY <3>1, <3>5
            <4> QED BY <4>1
        <3> QED BY <3>2, <3>3, <3>4, <3>5
    <2>8. \A i \in Images : new[i] # NoRef => << i, new[i].generation, new[i].pixels >> \in named'
        BY <2>2
    <2>9. state'.resources = new /\ state'.next = n BY <2>1 DEF new, n
    <2> QED BY <2>1, <2>6, <2>7, <2>8, <2>9 DEF Names
<1>12. CASE SwapRegistries \/ Reopen \/ PrepareClose \/ AbortClose \/ TakeCandidates \/ FinishClose
    BY <1>1, <1>12 DEF SwapRegistries, Reopen, PrepareClose, AbortClose, TakeCandidates, FinishClose
<1>13. CASE PublishClosed
    <2>1. prepared' = NoPrepared /\ named' = named BY <1>13 DEF PublishClosed, Phases
    <2>2. state'.next = state.next /\ state'.resources = [i \in Images |-> NoRef]
        BY <1>13, ClosedRecord
    <2> QED BY <2>1, <2>2 DEF Names, RefsNameOne, Staged
<1> QED BY <1>4, <1>5, <1>6, <1>7, <1>8, <1>9, <1>10, <1>11, <1>12, <1>13, Steps
-----------------------------------------------------------------------------
LEMMA Initially == Init => IInv
<1> SUFFICES ASSUME Init PROVE IInv
    OBVIOUS
<1> USE DEF Init
<1>1. Typed
    <2>1. state \in States BY DEF States, Ref, NoRef
    <2>2. job \in [Workers -> Job] BY NoJobIsJob
    <2>3. candidate \in Seq(Candidate) /\ transfer \in Seq(Transfer) OBVIOUS
    <2> QED BY <2>1, <2>2, <2>3 DEF Typed
<1>2. Jobs BY NoJobIsJob DEF Jobs
<1>3. Phases BY DEF Phases
<1>4. Registered BY DEF Registered, Closable, Open
<1>5. Owned = {} BY NoPixels DEF Owned
<1>6. Claimed BY <1>5 DEF Claimed, OnePlace, NoRef, Staged, Published
<1>7. Epochs BY NoPixels DEF Epochs, Staged
<1>8. Names BY DEF Names, RefsNameOne, Staged
<1> QED BY <1>1, <1>2, <1>3, <1>4, <1>6, <1>7, <1>8 DEF IInv

LEMMA Stuttering == IInv /\ UNCHANGED vars => IInv'
<1> SUFFICES ASSUME IInv, UNCHANGED vars PROVE IInv'
    OBVIOUS
<1> USE DEF IInv, vars
<1>1. Typed' BY DEF Typed
<1>2. Jobs' BY DEF Jobs
<1>3. Phases' BY DEF Phases, Published
<1>4. Registered' BY DEF Registered, Closable, Open, Published
<1>5. Owned' = Owned BY DEF Owned, Pixels
<1>6. Claimed' BY <1>5 DEF Claimed, OnePlace, Pixels, Staged, Published
<1>7. Epochs' BY DEF Epochs, Pixels, Staged
<1>8. Names' BY DEF Names, RefsNameOne, Staged
<1> QED BY <1>1, <1>2, <1>3, <1>4, <1>6, <1>7, <1>8

(* The invariant is inductive. *)
THEOREM StoreInvariant == Spec => []IInv
<1>1. IInv /\ [Next]_vars => IInv'
    BY TypedStep, JobsStep, PhasesStep, RegisteredStep, ClaimedStep, EpochsStep, NamesStep,
       Stuttering DEF IInv
<1> QED BY Initially, <1>1, PTL DEF Spec

(* A reader of the store gets the pixels it asked for: what is published   *)
(* was decoded in the epoch it is published in, through resets that race   *)
(* decode jobs, and a reference names the same pixels for ever.            *)
THEOREM PublicationsSound == Spec => []PublicationsKept
<1>1. IInv => PublicationsKept
    <2> SUFFICES ASSUME IInv PROVE PublicationsKept
        OBVIOUS
    <2>1. Phases /\ Epochs /\ Names BY DEF IInv
    <2>2. owner.at = "swap" => resetting BY <2>1 DEF Phases, Published
    <2> QED BY <2>1, <2>2 DEF PublicationsKept, EpochsKept, Epochs, Names
<1> QED BY StoreInvariant, <1>1, PTL
-----------------------------------------------------------------------------
(* The counters. *)
One(b) == IF b THEN 1 ELSE 0

LEMMA OneMoved ==
    ASSUME NEW S, NEW T, NEW x, IsFiniteSet(S), T \ {x} = S \ {x}
    PROVE  /\ Cardinality(S) \in Nat /\ Cardinality(T) \in Nat
           /\ Cardinality(T) = Cardinality(S) + One(x \in T) - One(x \in S)
<1>1. Cardinality(S) \in Nat BY FS_CardinalityType
<1>2. CASE (x \in S) = (x \in T)
    <2>1. T = S BY <1>2
    <2> QED BY <1>1, <2>1 DEF One
<1>3. CASE x \in S /\ x \notin T
    <2>1. T = S \ {x} BY <1>3
    <2>2. IsFiniteSet(T) /\ Cardinality(T) = Cardinality(S) - 1 BY <1>3, <2>1, FS_RemoveElement
    <2>3. Cardinality(T) \in Nat BY <2>2, FS_CardinalityType
    <2> QED BY <1>1, <1>3, <2>2, <2>3 DEF One
<1>4. CASE x \notin S /\ x \in T
    <2>1. T = S \cup {x} BY <1>4
    <2>2. Cardinality(T) = Cardinality(S) + 1 BY <1>4, <2>1, FS_AddElement
    <2> QED BY <1>1, <1>4, <2>2 DEF One
<1> QED BY <1>2, <1>3, <1>4

LEMMA SomeGone ==
    ASSUME NEW S, NEW R, IsFiniteSet(S)
    PROVE  /\ Cardinality(S) \in Nat /\ Cardinality(S \cap R) \in Nat
           /\ Cardinality(S \ R) = Cardinality(S) - Cardinality(S \cap R)
<1>1. IsFiniteSet(S \cap R) BY FS_Intersection
<1> QED BY <1>1, FS_Difference, FS_CardinalityType

LEMMA AllFinite ==
    ASSUME IInv, IsFiniteSet(Workers)
    PROVE  /\ IsFiniteSet(Closable(DOMAIN candidate)) /\ IsFiniteSet(Owned)
           /\ IsFiniteSet(Scratched) /\ IsFiniteSet(Reserving)
           /\ IsFiniteSet(Open(DOMAIN transfer)) /\ IsFiniteSet(Busy)
           /\ Cardinality(Closable(DOMAIN candidate)) \in Nat /\ Cardinality(Owned) \in Nat
           /\ Cardinality(Scratched) \in Nat /\ Cardinality(Reserving) \in Nat
           /\ Cardinality(Open(DOMAIN transfer)) \in Nat /\ Cardinality(Busy) \in Nat
<1>1. Typed /\ Claimed BY DEF IInv
<1>2. IsFiniteSet(DOMAIN candidate) /\ IsFiniteSet(DOMAIN transfer) BY <1>1, Lengths
<1>3. Closable(DOMAIN candidate) \subseteq DOMAIN candidate /\ Owned \subseteq DOMAIN candidate
        /\ Open(DOMAIN transfer) \subseteq DOMAIN transfer
    BY <1>1 DEF Closable, Open, Claimed
<1>4. Scratched \subseteq Workers /\ Reserving \subseteq Workers /\ Busy \subseteq Workers
    BY DEF Scratched, Reserving, Busy
<1>5. /\ IsFiniteSet(Closable(DOMAIN candidate)) /\ IsFiniteSet(Owned)
      /\ IsFiniteSet(Open(DOMAIN transfer))
    BY <1>2, <1>3, FS_Subset
<1>6. IsFiniteSet(Scratched) /\ IsFiniteSet(Reserving) /\ IsFiniteSet(Busy)
    BY <1>4, FS_Subset
<1> QED BY <1>5, <1>6, FS_CardinalityType

(* What a job holds changes with the job. *)
LEMMA JobCounts ==
    ASSUME IInv, IsFiniteSet(Workers), NEW g \in Workers, Worker(g)
    PROVE  /\ Cardinality(Scratched') = Cardinality(Scratched) + One(job'[g].scratch) - One(job[g].scratch)
           /\ Cardinality(Reserving') = Cardinality(Reserving)
                + One(job'[g].at \in {"checkScratch", "checkCandidate", "register"})
                - One(job[g].at \in {"checkScratch", "checkCandidate", "register"})
           /\ Cardinality(Busy') = Cardinality(Busy) + One(job'[g].at # "idle") - One(job[g].at # "idle")
<1>1. Typed BY DEF IInv
<1>2. \A h \in Workers \ {g} : job'[h] = job[h] BY <1>1, JobSteps, JobMoved
<1>3. Scratched' \ {g} = Scratched \ {g} /\ Reserving' \ {g} = Reserving \ {g}
        /\ Busy' \ {g} = Busy \ {g}
    BY <1>2 DEF Scratched, Reserving, Busy
<1>4. /\ Cardinality(Scratched') = Cardinality(Scratched) + One(g \in Scratched') - One(g \in Scratched)
      /\ Cardinality(Reserving') = Cardinality(Reserving) + One(g \in Reserving') - One(g \in Reserving)
      /\ Cardinality(Busy') = Cardinality(Busy) + One(g \in Busy') - One(g \in Busy)
    BY <1>3, AllFinite, OneMoved
<1>5. One(g \in Scratched') = One(job'[g].scratch) /\ One(g \in Scratched) = One(job[g].scratch)
    BY DEF One, Scratched
<1>6. /\ One(g \in Reserving') = One(job'[g].at \in {"checkScratch", "checkCandidate", "register"})
      /\ One(g \in Reserving) = One(job[g].at \in {"checkScratch", "checkCandidate", "register"})
      /\ One(g \in Busy') = One(job'[g].at # "idle") /\ One(g \in Busy) = One(job[g].at # "idle")
    BY DEF One, Reserving, Busy
<1> QED BY <1>4, <1>5, <1>6

LEMMA JobsMemory ==
    ASSUME IInv, MemoryCounted, IsFiniteSet(Workers), NEW g \in Workers, Worker(g)
    PROVE  MemoryCounted'
<1> DEFINE R == {"checkScratch", "checkCandidate", "register"}
           here == job[g]
           there == job'[g]
           C == Closable(DOMAIN candidate)
<1>0. Typed /\ Jobs BY DEF IInv
<1>1. here \in Job /\ job \in [Workers -> Job] BY <1>0 DEF Typed
<1>2. Owned' = Owned
    <2>1. UNCHANGED ownerVars
        BY DEF Worker, TakePayload, Look, ReserveDecoded, KeepScratch, AllocatePixels,
               Register, Seal, Fail
    <2> QED BY <2>1, OwnedSame
<1>3. /\ Cardinality(Scratched') = Cardinality(Scratched) + One(there.scratch) - One(here.scratch)
      /\ Cardinality(Reserving') = Cardinality(Reserving) + One(there.at \in R) - One(here.at \in R)
    BY JobCounts
<1>4. /\ Cardinality(Scratched) \in Nat /\ Cardinality(Reserving) \in Nat
      /\ Cardinality(Owned) \in Nat /\ Cardinality(C) \in Nat /\ IsFiniteSet(C)
    BY AllFinite
<1>5. decoded \in Int BY <1>4 DEF MemoryCounted
<1>6. ASSUME NEW m \in {0, 1}, NEW n \in {0, 1}, NEW p \in {0, 1}, NEW q \in {0, 1},
             One(there.scratch) = m, One(here.scratch) = n,
             One(there.at \in R) = p, One(here.at \in R) = q,
             Cardinality(C') \in Int,
             decoded' = decoded + (Cardinality(C') - Cardinality(C)) + (m - n) + (p - q)
      PROVE  MemoryCounted'
    <2>1. Cardinality(Scratched') = Cardinality(Scratched) + m - n
            /\ Cardinality(Reserving') = Cardinality(Reserving) + p - q
        BY <1>3, <1>6
    <2> HIDE DEF C, R
    <2>2. decoded' = Cardinality(C') + Cardinality(Owned')
                     + Cardinality(Scratched') + Cardinality(Reserving')
        <3>1. decoded = Cardinality(C) + Cardinality(Owned)
                        + Cardinality(Scratched) + Cardinality(Reserving)
            BY DEF MemoryCounted, C
        <3> QED BY <1>2, <1>4, <1>6, <2>1, <3>1
    <2> QED BY <2>2 DEF MemoryCounted, C
<1>7. UNCHANGED candidate => C' = C BY DEF Closable
<1>9. ASSUME NEW t \in DOMAIN transfer, TakePayload(g, t)
      PROVE  MemoryCounted'
    <2>1. here = NoJob /\ there = [NoJob EXCEPT !.at = "started", !.transfer = t]
            /\ UNCHANGED << candidate, decoded >>
        BY <1>1, <1>9 DEF TakePayload
    <2>2. ~here.scratch /\ ~there.scratch BY <2>1 DEF NoJob
    <2>3. here.at \notin R /\ there.at \notin R BY <2>1 DEF NoJob
    <2>4. One(there.scratch) = 0 /\ One(here.scratch) = 0 BY <2>2 DEF One
    <2>5. One(there.at \in R) = 0 /\ One(here.at \in R) = 0 BY <2>3 DEF One
    <2> QED BY <1>4, <1>5, <1>6, <1>7, <2>1, <2>4, <2>5
<1>10. ASSUME there.scratch = here.scratch, NEW p \in {0, 1}, NEW q \in {0, 1},
              One(there.at \in R) = p, One(here.at \in R) = q,
              Cardinality(C') \in Int,
              decoded' = decoded + (Cardinality(C') - Cardinality(C)) + (p - q)
       PROVE  MemoryCounted'
    <2>1. PICK m \in {0, 1} : One(here.scratch) = m BY DEF One
    <2>2. One(there.scratch) = m BY <1>10, <2>1
    <2>3. decoded' = decoded + (Cardinality(C') - Cardinality(C)) + (m - m) + (p - q)
        BY <1>4, <1>5, <1>10
    <2> QED BY <1>6, <1>10, <2>1, <2>2, <2>3
<1>11. CASE Look(g)
    <2>1. /\ here.at \in {"started", "scratched"} /\ there.scratch = here.scratch
          /\ UNCHANGED << candidate, decoded >>
        BY <1>1, <1>11 DEF Look, Job
    <2>2. there.at \in {"wantScratch", "wantCandidate"} BY <1>1, <1>11 DEF Look, Job
    <2>3. One(there.at \in R) = 0 /\ One(here.at \in R) = 0 BY <2>1, <2>2 DEF One
    <2> QED BY <1>4, <1>5, <1>7, <1>10, <2>1, <2>3
<1>12. CASE ReserveDecoded(g)
    <2>1. /\ here.at \in {"wantScratch", "wantCandidate"} /\ there.scratch = here.scratch
          /\ candidate' = candidate /\ decoded' = decoded + 1
        BY <1>1, <1>12 DEF ReserveDecoded, At, Job
    <2>2. there.at \in {"checkScratch", "checkCandidate"}
        BY <1>1, <1>12 DEF ReserveDecoded, At, Job
    <2>3. One(there.at \in R) = 1 /\ One(here.at \in R) = 0 BY <2>1, <2>2 DEF One
    <2> QED BY <1>4, <1>5, <1>7, <1>10, <2>1, <2>3
<1>13. CASE KeepScratch(g)
    <2>1. /\ here.at = "checkScratch" /\ there.at = "scratched"
          /\ UNCHANGED << candidate, decoded >>
        BY <1>1, <1>13 DEF KeepScratch, Job
    <2>2. there.scratch = TRUE BY <1>1, <1>13 DEF KeepScratch, Job
    <2>3. ~here.scratch BY <1>0, <2>1 DEF Jobs
    <2>4. One(there.scratch) = 1 /\ One(here.scratch) = 0 BY <2>2, <2>3 DEF One
    <2>5. One(there.at \in R) = 0 /\ One(here.at \in R) = 1 BY <2>1 DEF One
    <2> QED BY <1>4, <1>5, <1>6, <1>7, <2>1, <2>4, <2>5
<1>14. CASE AllocatePixels(g)
    <2>1. /\ here.at = "checkCandidate" /\ there.at = "register" /\ there.scratch = here.scratch
          /\ UNCHANGED << candidate, decoded >>
        BY <1>1, <1>14 DEF AllocatePixels, At, Job
    <2>2. One(there.at \in R) = 1 /\ One(here.at \in R) = 1 BY <2>1 DEF One
    <2> QED BY <1>4, <1>5, <1>7, <1>10, <2>1, <2>2
<1>15. ASSUME NEW i \in Images, Register(g, i)
       PROVE  MemoryCounted'
    <2>1. /\ here.at = "register" /\ there.at = "decoding" /\ there.scratch = here.scratch
          /\ decoded' = decoded
        BY <1>1, <1>15 DEF Register, Job
    <2>2. One(there.at \in R) = 0 /\ One(here.at \in R) = 1 BY <2>1 DEF One
    <2>3. C' = C \cup {Len(candidate) + 1} /\ Len(candidate) + 1 \notin C
        BY <1>15, Registering DEF Closable
    <2>4. Cardinality(C') = Cardinality(C) + 1 BY <1>4, <2>3, FS_AddElement
    <2> QED BY <1>4, <1>5, <1>10, <2>1, <2>2, <2>4
<1>16. CASE Seal(g) \/ Fail(g)
    <2>1. there = NoJob BY <1>1, <1>16 DEF Seal, Fail
    <2>2. One(there.scratch) = 0
        <3>1. ~there.scratch BY <2>1, NoJobIsJob
        <3> QED BY <3>1 DEF One
    <2>3. One(there.at \in R) = 0
        <3>1. there.at \notin R BY <2>1, NoJobIsJob
        <3> QED BY <3>1 DEF One
    <2>4. PICK n \in {0, 1} : One(here.scratch) = n BY DEF One
    <2>5. PICK q \in {0, 1} : One(here.at \in R) = q BY DEF One
    <2>6. Leases(g) = n + q BY <2>4, <2>5 DEF Leases, One
    <2>7. Cardinality(C') \in Int /\ decoded' = decoded + (Cardinality(C') - Cardinality(C)) - (n + q)
        <3>1. CASE Seal(g)
            <4>1. C' = C BY <3>1, Sealing
            <4>2. decoded' = decoded - Leases(g) BY <3>1 DEF Seal
            <4> QED BY <1>4, <1>5, <2>6, <4>1, <4>2
        <3>2. CASE Fail(g)
            <4> DEFINE c == here.candidate
                       mine == here.at = "decoding" /\ candidate[c].state = "open"
            <4>1. C' = C \ {c} BY <3>2, Failing
            <4>2. mine <=> c \in C BY <3>2, Failing
            <4>3. decoded' = decoded - Leases(g) - (IF mine THEN 1 ELSE 0) BY <3>2 DEF Fail
            <4> HIDE DEF C, mine, c
            <4>4. Cardinality(C') = Cardinality(C) - (IF mine THEN 1 ELSE 0) /\ Cardinality(C') \in Int
                <5>1. CASE mine
                    <6>1. Cardinality(C') = Cardinality(C) - 1
                        BY <1>4, <4>1, <4>2, <5>1, FS_RemoveElement
                    <6> QED BY <1>4, <5>1, <6>1
                <5>2. CASE ~mine
                    <6>1. C' = C BY <4>1, <4>2, <5>2
                    <6> QED BY <1>4, <5>2, <6>1
                <5> QED BY <5>1, <5>2
            <4> QED BY <1>4, <1>5, <2>6, <4>3, <4>4
        <3> QED BY <1>16, <3>1, <3>2
    <2>8. decoded' = decoded + (Cardinality(C') - Cardinality(C)) + (0 - n) + (0 - q)
        BY <1>4, <1>5, <2>7
    <2> QED BY <1>6, <2>2, <2>3, <2>4, <2>5, <2>7, <2>8
<1> QED BY <1>9, <1>11, <1>12, <1>13, <1>14, <1>15, <1>16 DEF Worker

LEMMA MemoryStep ==
    ASSUME IInv, MemoryCounted, IsFiniteSet(Workers), Next
    PROVE  MemoryCounted'
<1> DEFINE C == Closable(DOMAIN candidate)
<1>0. Typed /\ Phases /\ Registered /\ Claimed BY DEF IInv
<1>1. /\ Cardinality(Scratched) \in Nat /\ Cardinality(Reserving) \in Nat
      /\ Cardinality(Owned) \in Nat /\ Cardinality(C) \in Nat
      /\ IsFiniteSet(C) /\ IsFiniteSet(Owned)
    BY AllFinite
<1>2. decoded = Cardinality(C) + Cardinality(Owned) + Cardinality(Scratched) + Cardinality(Reserving)
    BY DEF MemoryCounted
<1>3. ASSUME job' = job, NEW m \in Nat, NEW n \in Nat,
             Cardinality(C') = Cardinality(C) - m, Cardinality(Owned') = Cardinality(Owned) - n,
             decoded' = decoded - m - n
      PROVE  MemoryCounted'
    <2>1. Scratched' = Scratched /\ Reserving' = Reserving BY <1>3 DEF Scratched, Reserving
    <2> HIDE DEF C
    <2>2. decoded' = Cardinality(C') + Cardinality(Owned') + Cardinality(Scratched) + Cardinality(Reserving)
        BY <1>1, <1>2, <1>3
    <2> QED BY <2>1, <2>2 DEF MemoryCounted, C
<1>4. ASSUME UNCHANGED << job, decoded, candidate >>, Owned' = Owned
      PROVE  MemoryCounted'
    <2>1. C' = C BY <1>4 DEF Closable
    <2> QED BY <1>4, <2>1 DEF MemoryCounted, Scratched, Reserving
<1>5. CASE BeginTransfer \/ \E t \in DOMAIN transfer : PayloadRefused(t) \/ SealTransfer(t) \/ CloseTransfer(t)
    <2>1. UNCHANGED << ownerVars, job, decoded, candidate >>
        BY <1>5 DEF BeginTransfer, PayloadRefused, SealTransfer, CloseTransfer
    <2> QED BY <1>4, <2>1, OwnedSame
<1>6. ASSUME NEW c \in DOMAIN candidate, CloseResult(c)
      PROVE  MemoryCounted'
    <2>1. /\ UNCHANGED << ownerVars, job >> /\ decoded' = decoded - 1
          /\ candidate[c].state = "sealed" /\ candidate' = CandidatesClosed({c})
        BY <1>6 DEF CloseResult
    <2>2. C' = C \ {c} /\ c \in C BY <1>0, <2>1, CandidatesClosing DEF Closable
    <2>3. Cardinality(C') = Cardinality(C) - 1 BY <1>1, <2>2, FS_RemoveElement
    <2>4. Owned' = Owned BY <2>1, OwnedSame
    <2>5. decoded' = decoded - 1 - 0 /\ Cardinality(Owned') = Cardinality(Owned) - 0
        BY <1>1, <1>2, <2>1, <2>4
    <2> QED BY <1>3, <2>1, <2>3, <2>5
<1>7. ASSUME NEW c \in DOMAIN candidate, PrepareCandidate(c)
      PROVE  MemoryCounted'
    <2>1. UNCHANGED << job, decoded >> BY <1>7 DEF PrepareCandidate
    <2>2. C' = C \ {c} /\ c \in C BY <1>7, Claiming
    <2>3. Owned' = Owned \cup {c} /\ c \notin Owned BY <1>7, OwnedClaiming
    <2>4. Cardinality(C') = Cardinality(C) - 1 BY <1>1, <2>2, FS_RemoveElement
    <2>5. Cardinality(Owned') = Cardinality(Owned) + 1 BY <1>1, <2>3, FS_AddElement
    <2>6. Scratched' = Scratched /\ Reserving' = Reserving BY <2>1 DEF Scratched, Reserving
    <2> HIDE DEF C
    <2>7. decoded' = Cardinality(C') + Cardinality(Owned') + Cardinality(Scratched) + Cardinality(Reserving)
        BY <1>1, <1>2, <2>1, <2>4, <2>5
    <2> QED BY <2>6, <2>7 DEF MemoryCounted, C
<1>8. CASE Settles
    <2>1. GivenUp \subseteq Owned /\ Owned' = Owned \ GivenUp BY <1>8, OwnedSettling
    <2>2. Cardinality(GivenUp) \in Nat /\ Cardinality(Owned') = Cardinality(Owned) - Cardinality(GivenUp)
        <3>1. Owned \cap GivenUp = GivenUp BY <2>1
        <3>2. /\ Cardinality(Owned \cap GivenUp) \in Nat
              /\ Cardinality(Owned \ GivenUp) = Cardinality(Owned) - Cardinality(Owned \cap GivenUp)
            BY <1>1, SomeGone
        <3> QED BY <2>1, <3>1, <3>2
    <2>3. job' = job BY <1>8 DEF Settles
    <2>4. CASE prepared = NoPrepared /\ UNCHANGED << candidate, decoded >>
        <3>1. Owned' = Owned BY <2>1, <2>4 DEF GivenUp
        <3> QED BY <1>4, <2>3, <2>4, <3>1
    <2>5. CASE Published /\ CommitOf(prepared)
        <3> DEFINE P == prepared.candidates
        <3>1. GivenUp = prepared.retired BY <2>5 DEF GivenUp, Published
        <3>2. C' = C \ P BY <1>0, <2>5, CandidatesClosing DEF CommitOf
        <3>3. Closable(P) = C \cap P
            <4>1. P \subseteq DOMAIN candidate BY <1>0, <2>5 DEF Registered, Published
            <4> QED BY <4>1 DEF Closable
        <3>4. /\ Cardinality(C \cap P) \in Nat
              /\ Cardinality(C') = Cardinality(C) - Cardinality(C \cap P)
            BY <1>1, <3>2, SomeGone
        <3>5. decoded' = decoded - Cardinality(GivenUp) - Cardinality(C \cap P)
            BY <2>5, <3>1, <3>3 DEF CommitOf
        <3> HIDE DEF C, P
        <3>6. decoded' = decoded - Cardinality(C \cap P) - Cardinality(GivenUp)
            BY <1>1, <1>2, <2>2, <3>4, <3>5
        <3> QED BY <1>3, <2>2, <2>3, <3>4, <3>6 DEF C
    <2>6. CASE Staged /\ AbortOf(prepared)
        <3>1. GivenUp = prepared.made BY <2>6 DEF GivenUp, Staged
        <3>2. decoded' = decoded - Cardinality(GivenUp) /\ candidate' = candidate
            BY <2>6, <3>1 DEF AbortOf, AfterAbort
        <3>3. C' = C BY <3>2 DEF Closable
        <3>4. Cardinality(C') = Cardinality(C) - 0 BY <1>1, <3>3
        <3>5. decoded' = decoded - 0 - Cardinality(GivenUp) BY <1>1, <1>2, <3>2
        <3> QED BY <1>3, <2>2, <2>3, <3>4, <3>5
    <2> QED BY <1>8, <2>4, <2>5, <2>6 DEF Settles
<1>9. CASE (\E S \in SUBSET Images : PrepareRemoval(S)) \/ PrepareReset \/ Publish \/ SwapRegistries
           \/ Reopen \/ PrepareClose \/ AbortClose \/ PublishClosed
    <2>1. UNCHANGED << job, decoded, candidate >>
        BY <1>9 DEF PrepareRemoval, PrepareReset, Publish, SwapRegistries, Reopen, PrepareClose,
                    AbortClose, PublishClosed
    <2>2. Owned' = Owned BY <1>9, OwnedSame
    <2> QED BY <1>4, <2>1, <2>2
<1>10. CASE TakeCandidates
    <2>1. /\ job' = job /\ candidate' = CandidatesClosed(candidates)
          /\ decoded' = decoded - Cardinality(Closable(candidates))
        BY <1>10 DEF TakeCandidates
    <2>2. C' = C \ candidates BY <1>0, <2>1, CandidatesClosing
    <2>3. Closable(candidates) = C \cap candidates BY <1>0 DEF Typed, Closable
    <2>4. /\ Cardinality(C \cap candidates) \in Nat
          /\ Cardinality(C') = Cardinality(C) - Cardinality(C \cap candidates)
        BY <1>1, <2>2, SomeGone
    <2>5. Owned' = Owned BY <1>10, OwnedSame
    <2>6. Cardinality(Owned') = Cardinality(Owned) - 0 BY <1>1, <2>5
    <2>7. decoded' = decoded - Cardinality(C \cap candidates) - 0
        BY <1>1, <1>2, <2>1, <2>3, <2>4
    <2> QED BY <1>3, <2>1, <2>4, <2>6, <2>7
<1>11. CASE FinishClose
    <2>1. /\ UNCHANGED << job, candidate >> /\ decoded' = decoded - Cardinality(owner.pixels)
        BY <1>11 DEF FinishClose
    <2>2. Owned = owner.pixels /\ Owned' = {} BY <1>11, OwnedClosing
    <2>3. C' = C BY <2>1 DEF Closable
    <2>4. Cardinality(C') = Cardinality(C) - 0 BY <1>1, <2>3
    <2>5. Cardinality(Owned') = Cardinality(Owned) - Cardinality(Owned) BY <1>1, <2>2, FS_EmptySet
    <2>6. decoded' = decoded - 0 - Cardinality(Owned) BY <1>1, <1>2, <2>1, <2>2
    <2> QED BY <1>1, <1>3, <2>1, <2>4, <2>5, <2>6
<1>12. ASSUME NEW g \in Workers, Worker(g)
       PROVE  MemoryCounted'
    BY <1>12, JobsMemory
<1> QED BY <1>0, <1>5, <1>6, <1>7, <1>8, <1>9, <1>10, <1>11, <1>12, Steps

LEMMA TransfersStep ==
    ASSUME IInv, TransfersCounted, IsFiniteSet(Workers), Next
    PROVE  TransfersCounted'
<1> DEFINE T == Open(DOMAIN transfer)
<1>0. Typed /\ Phases /\ Registered BY DEF IInv
<1>1. Cardinality(T) \in Nat /\ Cardinality(Busy) \in Nat /\ IsFiniteSet(T) BY AllFinite
<1>2. transfers = Cardinality(T) + Cardinality(Busy) BY DEF TransfersCounted
<1>3. ASSUME UNCHANGED << transfer, transfers >>, Cardinality(Busy') = Cardinality(Busy)
      PROVE  TransfersCounted'
    <2>1. T' = T BY <1>3 DEF Open
    <2> QED BY <1>3, <2>1 DEF TransfersCounted
<1>4. UNCHANGED job => Busy' = Busy BY DEF Busy
<1>5. ASSUME Busy' = Busy, NEW n \in Nat, Cardinality(T') = Cardinality(T) - n,
             transfers' = transfers - n
      PROVE  TransfersCounted'
    <2> HIDE DEF T
    <2>1. transfers' = Cardinality(T') + Cardinality(Busy) BY <1>1, <1>2, <1>5
    <2> QED BY <1>5, <2>1 DEF TransfersCounted, T
<1>6. ASSUME NEW g \in Workers, Worker(g)
      PROVE  TransfersCounted'
    <2> DEFINE here == job[g]
               there == job'[g]
    <2>1. here \in Job /\ job \in [Workers -> Job] BY <1>0 DEF Typed
    <2>2. Cardinality(Busy') = Cardinality(Busy) + One(there.at # "idle") - One(here.at # "idle")
        BY <1>6, JobCounts
    <2>3. ASSUME NEW t \in DOMAIN transfer, TakePayload(g, t)
          PROVE  TransfersCounted'
        <3>1. here = NoJob /\ there = [NoJob EXCEPT !.at = "started", !.transfer = t]
                /\ transfers' = transfers
            BY <2>1, <2>3 DEF TakePayload
        <3>2. here.at = "idle" /\ there.at = "started" BY <3>1 DEF NoJob
        <3>3. Cardinality(Busy') = Cardinality(Busy) + 1 BY <1>1, <2>2, <3>2 DEF One
        <3>4. T' = T \ {t} /\ t \in T BY <2>3, Taking DEF TakePayload
        <3>5. Cardinality(T') = Cardinality(T) - 1 BY <1>1, <3>4, FS_RemoveElement
        <3> HIDE DEF T
        <3>6. transfers' = Cardinality(T') + Cardinality(Busy') BY <1>1, <1>2, <3>1, <3>3, <3>5
        <3> QED BY <3>6 DEF TransfersCounted, T
    <2>4. CASE Look(g) \/ ReserveDecoded(g) \/ KeepScratch(g) \/ AllocatePixels(g)
               \/ \E i \in Images : Register(g, i)
        <3>1. UNCHANGED << transfer, transfers >>
            BY <2>4 DEF Look, ReserveDecoded, KeepScratch, AllocatePixels, Register
        <3>2. here.at # "idle"
            BY <2>4 DEF Look, ReserveDecoded, KeepScratch, AllocatePixels, Register
        <3>3. there.at # "idle"
            <4>1. Look(g) => there.at \in {"wantScratch", "wantCandidate"}
                BY <2>1 DEF Look, Job
            <4>2. ReserveDecoded(g) => there.at \in {"checkScratch", "checkCandidate"}
                BY <2>1 DEF ReserveDecoded, At, Job
            <4>3. KeepScratch(g) => there.at = "scratched" BY <2>1 DEF KeepScratch, Job
            <4>4. AllocatePixels(g) => there.at = "register" BY <2>1 DEF AllocatePixels, At, Job
            <4>5. ASSUME NEW i \in Images, Register(g, i)
                  PROVE  there.at = "decoding"
                BY <2>1, <4>5 DEF Register, Job
            <4> QED BY <2>4, <4>1, <4>2, <4>3, <4>4, <4>5
        <3>4. Cardinality(Busy') = Cardinality(Busy) BY <1>1, <2>2, <3>2, <3>3 DEF One
        <3> QED BY <1>3, <3>1, <3>4
    <2>5. CASE Seal(g) \/ Fail(g)
        <3>1. transfer' = transfer /\ transfers' = transfers - 1 /\ there = NoJob /\ here.at # "idle"
            BY <2>1, <2>5 DEF Seal, Fail
        <3>2. there.at = "idle" BY <3>1, NoJobIsJob
        <3>3. Cardinality(Busy') = Cardinality(Busy) - 1 BY <1>1, <2>2, <3>1, <3>2 DEF One
        <3>4. T' = T BY <3>1 DEF Open
        <3> HIDE DEF T
        <3>5. transfers' = Cardinality(T') + Cardinality(Busy') BY <1>1, <1>2, <3>1, <3>3, <3>4
        <3> QED BY <3>5 DEF TransfersCounted, T
    <2> QED BY <1>6, <2>3, <2>4, <2>5 DEF Worker
<1>7. ASSUME NEW t \in DOMAIN transfer, PayloadRefused(t) \/ SealTransfer(t) \/ CloseTransfer(t)
      PROVE  TransfersCounted'
    <2>0. Busy' = Busy BY <1>4, <1>7 DEF PayloadRefused, SealTransfer, CloseTransfer
    <2>1. CASE PayloadRefused(t)
        <3>1. T' = T \ {t} /\ t \in T BY <2>1, Taking DEF PayloadRefused
        <3>2. Cardinality(T') = Cardinality(T) - 1 BY <1>1, <3>1, FS_RemoveElement
        <3> QED BY <1>5, <2>0, <2>1, <3>2 DEF PayloadRefused
    <2>2. CASE SealTransfer(t)
        <3>1. transfer[t].state = "open" /\ transfer' = [transfer EXCEPT ![t].state = "sealed"]
                /\ transfers' = transfers
            BY <2>2 DEF SealTransfer
        <3>2. /\ DOMAIN transfer' = DOMAIN transfer /\ transfer'[t].state = "sealed"
              /\ \A u \in DOMAIN transfer \ {t} : transfer'[u] = transfer[u]
            BY <1>0, <3>1, TransferMoved
        <3>3. T' = T BY <3>1, <3>2 DEF Open
        <3>4. Cardinality(T') = Cardinality(T) - 0 /\ transfers' = transfers - 0
            BY <1>1, <1>2, <3>1, <3>3
        <3> QED BY <1>5, <2>0, <3>4
    <2>3. CASE CloseTransfer(t)
        <3>1. transfer' = TransfersClosed({t}) /\ transfers' = transfers - 1 /\ t \in T
            BY <2>3 DEF CloseTransfer, Open
        <3>2. T' = T \ {t} BY <1>0, <3>1, TransfersClosing
        <3>3. Cardinality(T') = Cardinality(T) - 1 BY <1>1, <3>1, <3>2, FS_RemoveElement
        <3> QED BY <1>5, <2>0, <3>1, <3>3
    <2> QED BY <1>7, <2>1, <2>2, <2>3
<1>8. CASE BeginTransfer
    <2>1. T' = T \cup {Len(transfer) + 1} /\ Len(transfer) + 1 \notin T
        BY <1>8, Beginning DEF Open
    <2>2. Cardinality(T') = Cardinality(T) + 1 BY <1>1, <2>1, FS_AddElement
    <2>3. Busy' = Busy /\ transfers' = transfers + 1 BY <1>4, <1>8 DEF BeginTransfer
    <2> HIDE DEF T
    <2>4. transfers' = Cardinality(T') + Cardinality(Busy) BY <1>1, <1>2, <2>2, <2>3
    <2> QED BY <2>3, <2>4 DEF TransfersCounted, T
<1>9. CASE Settles
    <2>1. Busy' = Busy BY <1>4, <1>9 DEF Settles
    <2>2. CASE UNCHANGED << transfer, transfers >> BY <1>3, <2>1, <2>2
    <2>3. CASE Published /\ CommitOf(prepared)
        <3> DEFINE P == prepared.pending
        <3>1. T' = T \ P BY <1>0, <2>3, TransfersClosing DEF CommitOf
        <3>2. Open(P) = T \cap P
            <4>1. P \subseteq DOMAIN transfer BY <1>0, <2>3 DEF Registered, Published
            <4> QED BY <4>1 DEF Open
        <3>3. /\ Cardinality(T \cap P) \in Nat
              /\ Cardinality(T') = Cardinality(T) - Cardinality(T \cap P)
            BY <1>1, <3>1, SomeGone
        <3>4. transfers' = transfers - Cardinality(T \cap P) BY <2>3, <3>2 DEF CommitOf
        <3> QED BY <1>5, <2>1, <3>3, <3>4
    <2> QED BY <1>9, <2>2, <2>3 DEF Settles, AbortOf
<1>10. CASE FinishClose
    <2>1. /\ job' = job /\ transfer' = TransfersClosed(pending)
          /\ transfers' = transfers - Cardinality(Open(pending))
        BY <1>10 DEF FinishClose
    <2>2. T' = T \ pending BY <1>0, <2>1, TransfersClosing
    <2>3. Open(pending) = T \cap pending BY <1>0 DEF Typed, Open
    <2>4. /\ Cardinality(T \cap pending) \in Nat
          /\ Cardinality(T') = Cardinality(T) - Cardinality(T \cap pending)
        BY <1>1, <2>2, SomeGone
    <2> QED BY <1>4, <1>5, <2>1, <2>3, <2>4
<1>11. ASSUME UNCHANGED << transfer, transfers, job >>
       PROVE  TransfersCounted'
    BY <1>3, <1>4, <1>11
<1> QED BY <1>0, <1>6, <1>7, <1>8, <1>9, <1>10, <1>11, Steps
    DEF CloseResult, PrepareCandidate, PrepareRemoval, PrepareReset, Publish, SwapRegistries,
        Reopen, PrepareClose, AbortClose, PublishClosed, TakeCandidates

LEMMA CountedInitially == Init => Counted
<1> SUFFICES ASSUME Init PROVE Counted
    OBVIOUS
<1>1. Closable(DOMAIN candidate) = {} /\ Open(DOMAIN transfer) = {} BY DEF Init, Closable, Open
<1>2. Owned = {} BY NoPixels DEF Init, Owned
<1>3. Scratched = {} /\ Reserving = {} /\ Busy = {}
    BY NoJobIsJob DEF Init, Scratched, Reserving, Busy
<1>4. Cardinality({}) = 0 BY FS_EmptySet
<1>5. decoded = 0 /\ transfers = 0 BY DEF Init
<1> QED BY <1>1, <1>2, <1>3, <1>4, <1>5 DEF Counted, MemoryCounted, TransfersCounted

(* With a finite pool of workers the two counters are exact in every state: *)
(* they are what candidates, resources and jobs hold, so nothing is charged *)
(* to nobody, and all that can still be closed is registered or with the    *)
(* owner.                                                                   *)
THEOREM NothingLeaked ==
    ASSUME IsFiniteSet(Workers)
    PROVE  Spec => []NothingLeaks
<1>1. IInv /\ Counted /\ [Next]_vars => Counted'
    <2> SUFFICES ASSUME IInv, Counted, [Next]_vars PROVE Counted'
        OBVIOUS
    <2>1. CASE Next BY <2>1, MemoryStep, TransfersStep DEF Counted
    <2>2. CASE UNCHANGED vars
        BY <2>2 DEF vars, Counted, MemoryCounted, TransfersCounted, Owned, Scratched, Reserving,
                    Busy, Closable, Open, Pixels
    <2> QED BY <2>1, <2>2
<1>2. IInv /\ Counted => NothingLeaks
    <2> SUFFICES ASSUME IInv, Counted PROVE NothingLeaks
        OBVIOUS
    <2>0. Typed /\ Phases /\ Registered /\ Claimed BY DEF IInv
    <2>1. Unresolved <=> prepared # NoPrepared BY <2>0 DEF Unresolved, Phases
    <2> DEFINE C == Closable(DOMAIN candidate)
               T == Open(DOMAIN transfer)
               Waiting == Open(pending \cup IF Unresolved THEN prepared.pending ELSE {})
    <2>2. Reachable = C \cup Owned
        <3>1. C = Closable(candidates)
                  \cup (IF Published THEN Closable(prepared.candidates) ELSE {})
            BY <2>0 DEF Registered, Published, Closable, Typed
        <3>2. CASE prepared = NoPrepared
            BY <2>1, <3>1, <3>2 DEF Reachable, Owned, Published
        <3>3. CASE prepared # NoPrepared /\ prepared.published
            BY <2>1, <3>1, <3>3 DEF Reachable, Owned, Published
        <3>4. CASE prepared # NoPrepared /\ ~prepared.published
            BY <2>1, <3>1, <3>4 DEF Reachable, Owned, Published
        <3> QED BY <3>2, <3>3, <3>4
    <2>3. C \cap Owned = {} BY <2>0 DEF Claimed, Closable
    <2>4. Cardinality(Reachable) = Cardinality(C) + Cardinality(Owned)
        <3>1. IsFiniteSet(C) /\ IsFiniteSet(Owned) BY AllFinite
        <3>2. Cardinality(C \cup Owned) = Cardinality(C) + Cardinality(Owned) - Cardinality({})
            BY <2>3, <3>1, FS_Union
        <3> QED BY <2>2, <3>1, <3>2, FS_EmptySet, FS_CardinalityType
    <2>5. T = Waiting
        <3>1. CASE prepared = NoPrepared
            BY <2>0, <2>1, <3>1 DEF Registered, Published, Open, Typed
        <3>2. CASE prepared # NoPrepared
            BY <2>0, <2>1, <3>2 DEF Registered, Open, Typed
        <3> QED BY <3>1, <3>2
    <2>6. {g \in {g \in Workers : job[g].at # "idle"} :
             job[g].at \in {"checkScratch", "checkCandidate", "register"}} = Reserving
        BY DEF Reserving
    <2> QED BY <2>2, <2>4, <2>5, <2>6
        DEF NothingLeaks, Counted, MemoryCounted, TransfersCounted, Scratched, Busy
<1> QED BY CountedInitially, StoreInvariant, <1>1, <1>2, PTL DEF Spec
-----------------------------------------------------------------------------
(* The budget (ImageBudget).  Its invariant says of any calls and leases    *)
(* what BudgetExact says of the current ones, so that the sums can be       *)
(* followed from one state to the next: a step changes the summand of one   *)
(* goroutine, or of one usage, and SumChange says how far the sum moves.    *)
(* A counter that is taken or given back moves by that much (CounterTaken); *)
(* a lease that a call turns into, or the other way round, holds the same   *)
(* (LeaseForCall); the rest leaves what is held alone (CallOnly).           *)
Places == (DOMAIN KindOrder) \X {"pane", "process"}
Call == [at : {"idle", "up", "down"}, pane : Panes, usage : [Budget!Kinds -> Nat], taken : SUBSET Places]

(* What a call q holds of a kind, and sums of what leases ls and calls cl hold. *)
Part(q, of, k) ==
    IF \E c \in q.taken : KindOrder[c[1]] = k /\ c[2] = of THEN q.usage[k] ELSE 0
LeasedOf(ls, p, k) == [u \in Usages |-> ls[<<p, u>>] * u[k]]
LeasedOfAll(ls, k) == [x \in Panes \X Usages |-> ls[x] * x[2][k]]
PartIn(q, p, k) == IF q.pane = p THEN Part(q, "pane", k) ELSE 0
TakenOf(cl, p, k) == [g \in Goroutines |-> PartIn(cl[g], p, k)]
TakenOfAll(cl, k) == [g \in Goroutines |-> Part(cl[g], "process", k)]
PaneSum(ls, cl, p, k) ==
    SumFunctionOnSet(LeasedOf(ls, p, k), Usages) + SumFunctionOnSet(TakenOf(cl, p, k), Goroutines)
AllSum(ls, cl, k) ==
    SumFunctionOnSet(LeasedOfAll(ls, k), Panes \X Usages)
    + SumFunctionOnSet(TakenOfAll(cl, k), Goroutines)

CallsTyped(cl) ==
    /\ cl \in [Goroutines -> Call]
    /\ \A g \in Goroutines :
          /\ cl[g].taken \subseteq Budget!Counters(cl[g].usage)
          /\ cl[g].at = "idle" => cl[g].taken = {}
          /\ cl[g].at # "idle" => cl[g].usage \in Usages
LeasesTyped(ls) == ls \in [Panes \X Usages -> Nat]
Exact(ls, cl, m, n) ==
    /\ m \in [Panes -> [Budget!Kinds -> Int]] /\ n \in [Budget!Kinds -> Int]
    /\ \A k \in Budget!Kinds :
          /\ \A p \in Panes : m[p][k] = PaneSum(ls, cl, p, k) /\ m[p][k] <= PaneLimit[k]
          /\ n[k] = AllSum(ls, cl, k) /\ n[k] <= ProcessLimit[k]

BInv == CallsTyped(call) /\ LeasesTyped(leases) /\ Exact(leases, call, pane, process)

(* The instance's copies of library operators are the library's.           *)
LEMMA SameFinite == ASSUME NEW S PROVE Budget!IsFiniteSet(S) = IsFiniteSet(S)
  BY DEF Budget!IsFiniteSet, IsFiniteSet

LEMMA SameSum ==
    ASSUME NEW f, NEW S
    PROVE  Budget!SumFunctionOnSet(f, S) = SumFunctionOnSet(f, S)
  BY DEF Budget!SumFunctionOnSet, Budget!FoldFunctionOnSet, Budget!MapThenFoldSet,
         SumFunctionOnSet, FoldFunctionOnSet, MapThenFoldSet

(* What the budget's constants are. *)
LEMMA Budgeted ==
    /\ IsFiniteSet(Goroutines) /\ IsFiniteSet(Usages) /\ IsFiniteSet(Panes \X Usages)
    /\ Usages \subseteq [Budget!Kinds -> Nat] /\ Panes # {}
    /\ PaneLimit \in [Budget!Kinds -> Nat] /\ ProcessLimit \in [Budget!Kinds -> Nat]
    /\ \A i \in DOMAIN KindOrder : KindOrder[i] \in Budget!Kinds
    /\ \A i, j \in DOMAIN KindOrder : KindOrder[i] = KindOrder[j] => i = j
    /\ Len(KindOrder) \in Nat /\ DOMAIN KindOrder = 1..Len(KindOrder)
<1>1. /\ IsFiniteSet(Goroutines) /\ IsFiniteSet(Usages) /\ IsFiniteSet(Panes)
      /\ Usages \subseteq [Budget!Kinds -> Nat] /\ Panes # {}
      /\ PaneLimit \in [Budget!Kinds -> Nat] /\ ProcessLimit \in [Budget!Kinds -> Nat]
    BY BudgetAssumption, SameFinite DEF Budget!LimitAssumption
<1>2. \A i \in DOMAIN KindOrder : KindOrder[i] \in Budget!Kinds BY DEF Budget!Kinds
<1>3. /\ \A i, j \in DOMAIN KindOrder : KindOrder[i] = KindOrder[j] => i = j
      /\ KindOrder \in Seq(Budget!Kinds)
    BY BudgetAssumption DEF Budget!KindAssumption
<1>4. Len(KindOrder) \in Nat /\ DOMAIN KindOrder = 1..Len(KindOrder) BY <1>3
<1> QED BY <1>1, <1>2, <1>3, <1>4, FS_Product

(* A product with one factor one more. *)
LEMMA OneMore == /\ \A a, b \in Nat : a * b \in Nat
                 /\ \A a, b \in Nat : (a + 1) * b = a * b + b
  OBVIOUS

(* Where two functions differ in one place, their sums differ as they do there. *)
SameBut(S, x, f, h) ==
    /\ IsFiniteSet(S) /\ x \in S /\ \A y \in S : f[y] \in Nat /\ h[y] \in Nat
    /\ \A y \in S \ {x} : h[y] = f[y]

(* The sum moves by the change of its one summand. *)
LEMMA SumChange ==
    ASSUME NEW S, NEW x, NEW f, NEW h, SameBut(S, x, f, h)
    PROVE  /\ SumFunctionOnSet(f, S) \in Nat /\ SumFunctionOnSet(h, S) \in Nat
           /\ SumFunctionOnSet(h, S) = SumFunctionOnSet(f, S) - f[x] + h[x]
           /\ SumFunctionOnSet(f, S) >= f[x]
<1>0. /\ IsFiniteSet(S) /\ x \in S /\ \A y \in S : f[y] \in Nat /\ h[y] \in Nat
      /\ \A y \in S \ {x} : h[y] = f[y]
    BY DEF SameBut
<1>1. SumFunctionOnSet(f, S) \in Nat /\ SumFunctionOnSet(f, S) = f[x] + SumFunctionOnSet(f, S \ {x})
    BY <1>0, SumElement
<1>2. SumFunctionOnSet(h, S) \in Nat /\ SumFunctionOnSet(h, S) = h[x] + SumFunctionOnSet(h, S \ {x})
    BY <1>0, SumElement
<1>3. IsFiniteSet(S \ {x}) BY <1>0, FS_Subset
<1>4. SumFunctionOnSet(h, S \ {x}) = SumFunctionOnSet(f, S \ {x}) BY <1>0, <1>3, SumSame
<1>5. SumFunctionOnSet(f, S \ {x}) \in Nat BY <1>0, <1>3, SumElement
<1> QED BY <1>0, <1>1, <1>2, <1>4, <1>5

(* What a call holds is a natural number, and nothing before it took a counter. *)
LEMMA PartOf ==
    ASSUME NEW q \in Call, NEW k \in Budget!Kinds, NEW of
    PROVE  /\ Part(q, of, k) \in Nat
           /\ \A p : PartIn(q, p, k) \in Nat
           /\ q.taken = {} => Part(q, of, k) = 0 /\ \A p : PartIn(q, p, k) = 0
<1>1. q.usage[k] \in Nat BY DEF Call
<1> QED BY <1>1 DEF Part, PartIn

(* The sums are natural numbers, no less than what any lease or call adds.  *)
LEMMA SumsNatural ==
    ASSUME NEW ls, LeasesTyped(ls), NEW cl, CallsTyped(cl), NEW k \in Budget!Kinds
    PROVE  /\ \A h \in Goroutines : \A p : TakenOf(cl, p, k)[h] \in Nat
           /\ \A h \in Goroutines : TakenOfAll(cl, k)[h] \in Nat
           /\ \A u \in Usages, p \in Panes : LeasedOf(ls, p, k)[u] \in Nat
           /\ \A x \in Panes \X Usages : LeasedOfAll(ls, k)[x] \in Nat
           /\ \A p : SumFunctionOnSet(TakenOf(cl, p, k), Goroutines) \in Nat
           /\ SumFunctionOnSet(TakenOfAll(cl, k), Goroutines) \in Nat
           /\ \A p \in Panes : SumFunctionOnSet(LeasedOf(ls, p, k), Usages) \in Nat
           /\ SumFunctionOnSet(LeasedOfAll(ls, k), Panes \X Usages) \in Nat
<1>1. \A h \in Goroutines : cl[h] \in Call BY DEF CallsTyped
<1>2. \A h \in Goroutines : \A p : TakenOf(cl, p, k)[h] \in Nat
    BY <1>1, PartOf DEF TakenOf
<1>3. \A h \in Goroutines : TakenOfAll(cl, k)[h] \in Nat
    BY <1>1, PartOf DEF TakenOfAll
<1>4. \A u \in Usages : u[k] \in Nat BY Budgeted
<1>5. ASSUME NEW u \in Usages, NEW p \in Panes
      PROVE  LeasedOf(ls, p, k)[u] \in Nat
    <2>1. ls[<<p, u>>] \in Nat BY DEF LeasesTyped
    <2> QED BY <1>4, <2>1, OneMore DEF LeasedOf
<1>6. ASSUME NEW x \in Panes \X Usages
      PROVE  LeasedOfAll(ls, k)[x] \in Nat
    <2>1. ls[x] \in Nat /\ x[2] \in Usages BY DEF LeasesTyped
    <2> QED BY <1>4, <2>1, OneMore DEF LeasedOfAll
<1>7. \A p : SumFunctionOnSet(TakenOf(cl, p, k), Goroutines) \in Nat
    BY <1>2, Budgeted, SumElement
<1>8. SumFunctionOnSet(TakenOfAll(cl, k), Goroutines) \in Nat BY <1>3, Budgeted, SumElement
<1>9. \A p \in Panes : SumFunctionOnSet(LeasedOf(ls, p, k), Usages) \in Nat
    BY <1>5, Budgeted, SumElement
<1>10. SumFunctionOnSet(LeasedOfAll(ls, k), Panes \X Usages) \in Nat BY <1>6, Budgeted, SumElement
<1> QED BY <1>2, <1>3, <1>5, <1>6, <1>7, <1>8, <1>9, <1>10

(* One call moves on. *)
LEMMA CallMoves ==
    ASSUME NEW ls, LeasesTyped(ls), NEW cl, CallsTyped(cl), NEW cl2, CallsTyped(cl2),
           NEW g \in Goroutines, \A h \in Goroutines \ {g} : cl2[h] = cl[h], NEW k \in Budget!Kinds
    PROVE  /\ AllSum(ls, cl2, k) = AllSum(ls, cl, k)
                                   - Part(cl[g], "process", k) + Part(cl2[g], "process", k)
           /\ AllSum(ls, cl, k) >= Part(cl[g], "process", k)
           /\ \A p \in Panes :
                 /\ PaneSum(ls, cl2, p, k) =
                       PaneSum(ls, cl, p, k) - PartIn(cl[g], p, k) + PartIn(cl2[g], p, k)
                 /\ PaneSum(ls, cl, p, k) >= PartIn(cl[g], p, k)
<1>1. /\ \A h \in Goroutines : \A p : TakenOf(cl, p, k)[h] \in Nat /\ TakenOf(cl2, p, k)[h] \in Nat
      /\ \A h \in Goroutines : TakenOfAll(cl, k)[h] \in Nat /\ TakenOfAll(cl2, k)[h] \in Nat
    BY SumsNatural
<1>2. /\ \A p \in Panes : SumFunctionOnSet(LeasedOf(ls, p, k), Usages) \in Nat
      /\ SumFunctionOnSet(LeasedOfAll(ls, k), Panes \X Usages) \in Nat
    BY SumsNatural
<1>3. /\ TakenOfAll(cl, k)[g] = Part(cl[g], "process", k)
      /\ TakenOfAll(cl2, k)[g] = Part(cl2[g], "process", k)
      /\ \A h \in Goroutines \ {g} : TakenOfAll(cl2, k)[h] = TakenOfAll(cl, k)[h]
    BY DEF TakenOfAll
<1>4. \A p : /\ TakenOf(cl, p, k)[g] = PartIn(cl[g], p, k)
              /\ TakenOf(cl2, p, k)[g] = PartIn(cl2[g], p, k)
              /\ \A h \in Goroutines \ {g} : TakenOf(cl2, p, k)[h] = TakenOf(cl, p, k)[h]
    BY DEF TakenOf
<1>5. /\ SumFunctionOnSet(TakenOfAll(cl, k), Goroutines) \in Nat
      /\ SumFunctionOnSet(TakenOfAll(cl2, k), Goroutines)
           = SumFunctionOnSet(TakenOfAll(cl, k), Goroutines)
             - TakenOfAll(cl, k)[g] + TakenOfAll(cl2, k)[g]
      /\ SumFunctionOnSet(TakenOfAll(cl, k), Goroutines) >= TakenOfAll(cl, k)[g]
    <2> DEFINE f == TakenOfAll(cl, k)
               h == TakenOfAll(cl2, k)
    <2>1. SameBut(Goroutines, g, f, h) BY <1>1, <1>3, Budgeted DEF SameBut
    <2> HIDE DEF f, h
    <2>2. /\ SumFunctionOnSet(f, Goroutines) \in Nat
          /\ SumFunctionOnSet(h, Goroutines) = SumFunctionOnSet(f, Goroutines) - f[g] + h[g]
          /\ SumFunctionOnSet(f, Goroutines) >= f[g]
        BY <2>1, SumChange
    <2> QED BY <2>2 DEF f, h
<1>6. ASSUME NEW p \in Panes
      PROVE  /\ SumFunctionOnSet(TakenOf(cl, p, k), Goroutines) \in Nat
             /\ SumFunctionOnSet(TakenOf(cl2, p, k), Goroutines)
                  = SumFunctionOnSet(TakenOf(cl, p, k), Goroutines)
                    - TakenOf(cl, p, k)[g] + TakenOf(cl2, p, k)[g]
             /\ SumFunctionOnSet(TakenOf(cl, p, k), Goroutines) >= TakenOf(cl, p, k)[g]
    <2> DEFINE f == TakenOf(cl, p, k)
               h == TakenOf(cl2, p, k)
    <2>1. SameBut(Goroutines, g, f, h) BY <1>1, <1>4, Budgeted DEF SameBut
    <2> HIDE DEF f, h
    <2>2. /\ SumFunctionOnSet(f, Goroutines) \in Nat
          /\ SumFunctionOnSet(h, Goroutines) = SumFunctionOnSet(f, Goroutines) - f[g] + h[g]
          /\ SumFunctionOnSet(f, Goroutines) >= f[g]
        BY <2>1, SumChange
    <2> QED BY <2>2 DEF f, h
<1>7. TakenOfAll(cl, k)[g] \in Nat /\ TakenOfAll(cl2, k)[g] \in Nat
      /\ \A p : TakenOf(cl, p, k)[g] \in Nat /\ TakenOf(cl2, p, k)[g] \in Nat
    BY <1>1
<1> QED BY <1>2, <1>3, <1>4, <1>5, <1>6, <1>7 DEF AllSum, PaneSum

(* A lease of usage u more. *)
LeaseAdded(ls, ls2, p, u) ==
    /\ LeasesTyped(ls) /\ LeasesTyped(ls2) /\ p \in Panes /\ u \in Usages
    /\ ls2[<<p, u>>] = ls[<<p, u>>] + 1
    /\ \A x \in (Panes \X Usages) \ {<<p, u>>} : ls2[x] = ls[x]

(* Its pane's sums and the process's grow by u. *)
LEMMA Leasing ==
    ASSUME NEW ls, NEW ls2, NEW p, NEW u, LeaseAdded(ls, ls2, p, u),
           NEW cl, CallsTyped(cl), NEW k \in Budget!Kinds
    PROVE  /\ AllSum(ls2, cl, k) = AllSum(ls, cl, k) + u[k]
           /\ \A r \in Panes : PaneSum(ls2, cl, r, k) =
                 PaneSum(ls, cl, r, k) + (IF r = p THEN u[k] ELSE 0)
<1>0. /\ LeasesTyped(ls) /\ LeasesTyped(ls2) /\ p \in Panes /\ u \in Usages
      /\ <<p, u>> \in Panes \X Usages /\ ls2[<<p, u>>] = ls[<<p, u>>] + 1
      /\ \A x \in (Panes \X Usages) \ {<<p, u>>} : ls2[x] = ls[x]
    BY DEF LeaseAdded
<1>1. /\ \A v \in Usages, r \in Panes : LeasedOf(ls, r, k)[v] \in Nat /\ LeasedOf(ls2, r, k)[v] \in Nat
      /\ \A x \in Panes \X Usages : LeasedOfAll(ls, k)[x] \in Nat /\ LeasedOfAll(ls2, k)[x] \in Nat
    BY <1>0, SumsNatural
<1>2. /\ \A r \in Panes : SumFunctionOnSet(TakenOf(cl, r, k), Goroutines) \in Nat
      /\ SumFunctionOnSet(TakenOfAll(cl, k), Goroutines) \in Nat
    BY <1>0, SumsNatural
<1>3. u[k] \in Nat
    <2>1. \A v \in Usages : v[k] \in Nat BY Budgeted
    <2> QED BY <1>0, <2>1
<1>4. ls[<<p, u>>] \in Nat BY <1>0 DEF LeasesTyped
<1>5. ls2[<<p, u>>] * u[k] = ls[<<p, u>>] * u[k] + u[k]
    <2> DEFINE a == ls[<<p, u>>]
               b == u[k]
    <2>1. a \in Nat /\ b \in Nat /\ ls2[<<p, u>>] = a + 1 BY <1>0, <1>3, <1>4
    <2> HIDE DEF a, b
    <2>2. (a + 1) * b = a * b + b BY <2>1, OneMore
    <2> QED BY <2>1, <2>2 DEF a, b
<1>6. /\ LeasedOfAll(ls2, k)[<<p, u>>] = LeasedOfAll(ls, k)[<<p, u>>] + u[k]
      /\ \A x \in (Panes \X Usages) \ {<<p, u>>} : LeasedOfAll(ls2, k)[x] = LeasedOfAll(ls, k)[x]
    BY <1>0, <1>5 DEF LeasedOfAll
<1>7. ASSUME NEW r \in Panes
      PROVE  /\ LeasedOf(ls2, r, k)[u] = LeasedOf(ls, r, k)[u] + (IF r = p THEN u[k] ELSE 0)
             /\ \A v \in Usages \ {u} : LeasedOf(ls2, r, k)[v] = LeasedOf(ls, r, k)[v]
    <2>1. \A v \in Usages : <<r, v>> # <<p, u>> => ls2[<<r, v>>] = ls[<<r, v>>] BY <1>0
    <2>2. \A v \in Usages : <<r, v>> # <<p, u>> => LeasedOf(ls2, r, k)[v] = LeasedOf(ls, r, k)[v]
        BY <2>1 DEF LeasedOf
    <2>3. r = p => LeasedOf(ls2, r, k)[u] = LeasedOf(ls, r, k)[u] + u[k]
        BY <1>0, <1>5 DEF LeasedOf
    <2>4. r # p => LeasedOf(ls2, r, k)[u] = LeasedOf(ls, r, k)[u] BY <1>0, <2>2
    <2>5. LeasedOf(ls, r, k)[u] \in Nat BY <1>0, <1>1
    <2>6. \A v \in Usages \ {u} : LeasedOf(ls2, r, k)[v] = LeasedOf(ls, r, k)[v] BY <2>2
    <2> QED BY <2>3, <2>4, <2>5, <2>6
<1>8. SumFunctionOnSet(LeasedOfAll(ls2, k), Panes \X Usages)
        = SumFunctionOnSet(LeasedOfAll(ls, k), Panes \X Usages) + u[k]
      /\ SumFunctionOnSet(LeasedOfAll(ls, k), Panes \X Usages) \in Nat
    <2> DEFINE f == LeasedOfAll(ls, k)
               h == LeasedOfAll(ls2, k)
               S == Panes \X Usages
               x == <<p, u>>
    <2>1. SameBut(S, x, f, h) BY <1>0, <1>1, <1>6, Budgeted DEF SameBut
    <2>2. h[x] = f[x] + u[k] /\ f[x] \in Nat BY <1>0, <1>1, <1>6
    <2> HIDE DEF f, h, S, x
    <2>3. /\ SumFunctionOnSet(f, S) \in Nat
          /\ SumFunctionOnSet(h, S) = SumFunctionOnSet(f, S) - f[x] + h[x]
        BY <2>1, SumChange
    <2>4. SumFunctionOnSet(h, S) = SumFunctionOnSet(f, S) + u[k]
        BY <1>3, <2>2, <2>3
    <2> QED BY <2>3, <2>4 DEF f, h, S
<1>9. ASSUME NEW r \in Panes
      PROVE  /\ SumFunctionOnSet(LeasedOf(ls2, r, k), Usages)
                  = SumFunctionOnSet(LeasedOf(ls, r, k), Usages) + (IF r = p THEN u[k] ELSE 0)
             /\ SumFunctionOnSet(LeasedOf(ls, r, k), Usages) \in Nat
    <2> DEFINE f == LeasedOf(ls, r, k)
               h == LeasedOf(ls2, r, k)
               more == IF r = p THEN u[k] ELSE 0
    <2>1. SameBut(Usages, u, f, h) BY <1>0, <1>1, <1>7, Budgeted DEF SameBut
    <2>2. more \in Nat /\ h[u] = f[u] + more /\ f[u] \in Nat BY <1>0, <1>1, <1>3, <1>7
    <2> HIDE DEF f, h, more
    <2>3. /\ SumFunctionOnSet(f, Usages) \in Nat
          /\ SumFunctionOnSet(h, Usages) = SumFunctionOnSet(f, Usages) - f[u] + h[u]
        BY <2>1, SumChange
    <2>4. SumFunctionOnSet(h, Usages) = SumFunctionOnSet(f, Usages) + more
        BY <2>2, <2>3
    <2> QED BY <2>3, <2>4 DEF f, h, more
<1> QED
    <2>1. AllSum(ls2, cl, k) = AllSum(ls, cl, k) + u[k] BY <1>2, <1>3, <1>8 DEF AllSum
    <2>2. ASSUME NEW r \in Panes
          PROVE  PaneSum(ls2, cl, r, k) = PaneSum(ls, cl, r, k) + (IF r = p THEN u[k] ELSE 0)
        BY <1>2, <1>3, <1>9 DEF PaneSum
    <2> QED BY <2>1, <2>2

-----------------------------------------------------------------------------
(* Some counter comes first, and some last, in any of a call's.            *)
LEMMA OrderEnds ==
    ASSUME NEW S, S \subseteq Places, S # {}
    PROVE  /\ \E c \in S : \A d \in S : c = d \/ Budget!Before(c, d)
           /\ \E c \in S : \A d \in S : c = d \/ Budget!Before(d, c)
<1> DEFINE I == {c[1] : c \in S}
           J == {0 - i : i \in I}
<1>0. \A c \in S : /\ c[1] \in DOMAIN KindOrder /\ c[1] \in Int
                   /\ c[2] \in {"pane", "process"} /\ c = <<c[1], c[2]>>
    BY Budgeted DEF Places
<1>1. I \subseteq DOMAIN KindOrder /\ I \subseteq Int BY <1>0
<1>2. IsFiniteSet(I)
    <2>1. IsFiniteSet(DOMAIN KindOrder) BY Budgeted, FS_Interval
    <2> QED BY <1>1, <2>1, FS_Subset
<1>3. IsFiniteSet(J)
    <2>1. ASSUME NEW i \in I PROVE 0 - i \in (0 - Len(KindOrder))..0
        <3>1. i \in 1..Len(KindOrder) /\ Len(KindOrder) \in Nat BY <1>1, Budgeted
        <3> HIDE DEF I
        <3> QED BY <3>1
    <2>3. J \subseteq (0 - Len(KindOrder))..0 BY <2>1
    <2>2. IsFiniteSet((0 - Len(KindOrder))..0) BY Budgeted, FS_Interval
    <2> QED BY <2>2, <2>3, FS_Subset
<1>4. I # {} /\ J # {} /\ J \subseteq Int BY <1>1
<1>5. \E i \in I : \A j \in I : i <= j
    <2> HIDE DEF I
    <2> QED BY <1>1, <1>2, <1>4, LeastElement
<1>6. \E i \in I : \A j \in I : j <= i
    <2>1. \E m \in J : \A n \in J : m <= n
        <3> HIDE DEF J
        <3> QED BY <1>3, <1>4, LeastElement
    <2>2. PICK i \in I : \A n \in J : 0 - i <= n BY <2>1
    <2>3. \A j \in I : 0 - i <= 0 - j BY <2>2
    <2>4. i \in Int /\ \A j \in I : j \in Int BY <1>1
    <2> HIDE DEF I
    <2>5. \A j \in I : j <= i BY <2>3, <2>4
    <2> QED BY <2>2, <2>5
<1>7. \E c \in S : \A d \in S : c = d \/ Budget!Before(c, d)
    <2>1. PICK i \in I : \A j \in I : i <= j BY <1>5
    <2>2. \A d \in S : i < d[1] \/ d[1] = i BY <1>0, <1>1, <2>1
    <2>3. PICK b \in S : b[1] = i BY <2>1
    <2>4. CASE \E c \in S : c[1] = i /\ c[2] = "pane"
        <3>1. PICK c \in S : c[1] = i /\ c[2] = "pane" BY <2>4
        <3>2. \A d \in S : c = d \/ Budget!Before(c, d)
            BY <1>0, <2>2, <3>1 DEF Budget!Before
        <3> QED BY <3>2
    <2>5. CASE \A c \in S : c[1] = i => c[2] # "pane"
        <3>1. \A d \in S : b = d \/ Budget!Before(b, d)
            BY <1>0, <2>2, <2>3, <2>5 DEF Budget!Before
        <3> QED BY <3>1
    <2> QED BY <2>4, <2>5
<1>8. \E c \in S : \A d \in S : c = d \/ Budget!Before(d, c)
    <2>1. PICK i \in I : \A j \in I : j <= i BY <1>6
    <2>2. \A d \in S : d[1] < i \/ d[1] = i BY <1>0, <1>1, <2>1
    <2>3. PICK b \in S : b[1] = i BY <2>1
    <2>4. CASE \E c \in S : c[1] = i /\ c[2] = "process"
        <3>1. PICK c \in S : c[1] = i /\ c[2] = "process" BY <2>4
        <3>2. \A d \in S : c = d \/ Budget!Before(d, c)
            BY <1>0, <2>2, <3>1 DEF Budget!Before
        <3> QED BY <3>2
    <2>5. CASE \A c \in S : c[1] = i => c[2] # "process"
        <3>1. \A d \in S : b = d \/ Budget!Before(d, b)
            BY <1>0, <2>2, <2>3, <2>5 DEF Budget!Before
        <3> QED BY <3>1
    <2> QED BY <2>4, <2>5
<1> QED BY <1>7, <1>8

(* The next counter is one that is needed and not taken, the last one taken *)
(* is taken.                                                                *)
LEMMA NextAndLast ==
    ASSUME CallsTyped(call), NEW g \in Goroutines
    PROVE  /\ ~Budget!Complete(g) => Budget!Following(g) \in Budget!Untaken(g)
           /\ call[g].taken # {} => Budget!Topmost(g) \in call[g].taken
           /\ Budget!Untaken(g) \subseteq Places
<1>1. call[g] \in Call /\ call[g].taken \subseteq Budget!Counters(call[g].usage) BY DEF CallsTyped
<1>2. Budget!Untaken(g) \subseteq Places /\ call[g].taken \subseteq Places
    BY <1>1 DEF Budget!Untaken, Budget!Counters, Places, Call
<1>3. ASSUME ~Budget!Complete(g) PROVE Budget!Following(g) \in Budget!Untaken(g)
    <2>1. Budget!Untaken(g) # {} BY <1>1, <1>3 DEF Budget!Untaken, Budget!Complete
    <2>2. \E c \in Budget!Untaken(g) : \A d \in Budget!Untaken(g) : c = d \/ Budget!Before(c, d)
        BY <1>2, <2>1, OrderEnds
    <2> QED BY <2>2 DEF Budget!Following
<1>4. ASSUME call[g].taken # {} PROVE Budget!Topmost(g) \in call[g].taken
    <2>1. \E c \in call[g].taken : \A d \in call[g].taken : c = d \/ Budget!Before(d, c)
        BY <1>2, <1>4, OrderEnds
    <2> QED BY <2>1 DEF Budget!Topmost
<1> QED BY <1>2, <1>3, <1>4

(* A call that took one counter more holds of that counter what it asks of  *)
(* its kind.                                                                *)
TakesOne(q, r, c) ==
    /\ q \in Call /\ r \in Call /\ c \in Places \ q.taken
    /\ r.taken = q.taken \cup {c} /\ r.pane = q.pane /\ r.usage = q.usage

(* Of any other counter the call holds what it held. *)
LEMMA PartGrows ==
    ASSUME NEW q, NEW r, NEW c, TakesOne(q, r, c), NEW k \in Budget!Kinds, NEW of
    PROVE  /\ q.usage[k] \in Nat
           /\ Part(r, of, k) = Part(q, of, k)
                + (IF KindOrder[c[1]] = k /\ c[2] = of THEN q.usage[k] ELSE 0)
<1>1. /\ q \in Call /\ r \in Call /\ c \in Places \ q.taken
      /\ r.taken = q.taken \cup {c} /\ r.pane = q.pane /\ r.usage = q.usage
    BY DEF TakesOne
<1>2. q.usage[k] \in Nat BY <1>1 DEF Call
<1>3. q.taken \subseteq Places BY <1>1 DEF Call
<1>4. CASE KindOrder[c[1]] = k /\ c[2] = of
    <2>1. \A d \in q.taken : ~(KindOrder[d[1]] = k /\ d[2] = of)
        <3> SUFFICES ASSUME NEW d \in q.taken, KindOrder[d[1]] = k, d[2] = of PROVE FALSE
            OBVIOUS
        <3>1. d \in Places /\ c \in Places BY <1>1, <1>3
        <3>2. /\ d = <<d[1], d[2]>> /\ c = <<c[1], c[2]>>
              /\ d[1] \in DOMAIN KindOrder /\ c[1] \in DOMAIN KindOrder
            BY <3>1 DEF Places
        <3>3. d[1] = c[1] BY <1>4, <3>2, Budgeted
        <3>4. c = d BY <1>4, <3>2, <3>3
        <3> QED BY <1>1, <3>4
    <2>2. Part(q, of, k) = 0 BY <2>1 DEF Part
    <2>3. Part(r, of, k) = q.usage[k] BY <1>1, <1>4 DEF Part
    <2> QED BY <1>2, <1>4, <2>2, <2>3
<1>5. CASE ~(KindOrder[c[1]] = k /\ c[2] = of)
    <2>1. (\E d \in r.taken : KindOrder[d[1]] = k /\ d[2] = of)
            <=> \E d \in q.taken : KindOrder[d[1]] = k /\ d[2] = of
        BY <1>1, <1>5
    <2>2. Part(r, of, k) = Part(q, of, k) BY <1>1, <2>1 DEF Part
    <2>3. Part(q, of, k) \in Nat BY <1>1, PartOf
    <2> QED BY <1>2, <1>5, <2>2, <2>3
<1> QED BY <1>2, <1>4, <1>5

(* A call that took all its counters holds what it asks for. *)
LEMMA PartComplete ==
    ASSUME NEW q \in Call, q.taken = Budget!Counters(q.usage), NEW k \in Budget!Kinds,
           NEW of \in {"pane", "process"}
    PROVE  Part(q, of, k) = q.usage[k]
<1>1. CASE q.usage[k] = 0 BY <1>1 DEF Part
<1>2. CASE q.usage[k] # 0
    <2>1. PICK i \in DOMAIN KindOrder : KindOrder[i] = k BY DEF Budget!Kinds
    <2>2. <<i, of>> \in q.taken BY <1>2, <2>1 DEF Budget!Counters
    <2>3. \E c \in q.taken : KindOrder[c[1]] = k /\ c[2] = of BY <2>1, <2>2
    <2> QED BY <2>3 DEF Part
<1> QED BY <1>1, <1>2

-----------------------------------------------------------------------------
(* What leases and calls hold together is a natural number. *)
LEMMA HeldNatural ==
    ASSUME NEW ls, LeasesTyped(ls), NEW cl, CallsTyped(cl), NEW k \in Budget!Kinds
    PROVE  AllSum(ls, cl, k) \in Nat /\ \A p \in Panes : PaneSum(ls, cl, p, k) \in Nat
<1>1. /\ SumFunctionOnSet(LeasedOfAll(ls, k), Panes \X Usages) \in Nat
      /\ SumFunctionOnSet(TakenOfAll(cl, k), Goroutines) \in Nat
    BY SumsNatural
<1>2. \A p \in Panes : /\ SumFunctionOnSet(LeasedOf(ls, p, k), Usages) \in Nat
                       /\ SumFunctionOnSet(TakenOf(cl, p, k), Goroutines) \in Nat
    BY SumsNatural
<1>3. AllSum(ls, cl, k) \in Nat BY <1>1 DEF AllSum
<1>4. \A p \in Panes : PaneSum(ls, cl, p, k) \in Nat BY <1>2 DEF PaneSum
<1> QED BY <1>3, <1>4

(* One goroutine, g, goes from cl to cl2. *)
Moves(cl, cl2, g) ==
    /\ CallsTyped(cl) /\ CallsTyped(cl2) /\ g \in Goroutines
    /\ \A h \in Goroutines \ {g} : cl2[h] = cl[h]

SameHeld(q, r) ==
    \A k \in Budget!Kinds : /\ Part(r, "process", k) = Part(q, "process", k)
                      /\ \A p \in Panes : PartIn(r, p, k) = PartIn(q, p, k)

(* The counters stay exact when a call goes on with what it holds. *)
LEMMA Neutral ==
    ASSUME NEW ls, LeasesTyped(ls), NEW cl, NEW cl2, NEW g, Moves(cl, cl2, g),
           NEW m, NEW n, Exact(ls, cl, m, n), SameHeld(cl[g], cl2[g])
    PROVE  Exact(ls, cl2, m, n)
<1> SUFFICES ASSUME NEW k \in Budget!Kinds
             PROVE  /\ AllSum(ls, cl2, k) = AllSum(ls, cl, k)
                    /\ \A p \in Panes : PaneSum(ls, cl2, p, k) = PaneSum(ls, cl, p, k)
    BY Zenon DEF Exact
<1>1. /\ CallsTyped(cl) /\ CallsTyped(cl2) /\ g \in Goroutines
      /\ \A h \in Goroutines \ {g} : cl2[h] = cl[h]
    BY DEF Moves
<1>2. cl[g] \in Call BY <1>1 DEF CallsTyped
<1>3. AllSum(ls, cl, k) \in Nat /\ \A p \in Panes : PaneSum(ls, cl, p, k) \in Nat
    BY <1>1, HeldNatural
<1>4. Part(cl[g], "process", k) \in Nat /\ \A p : PartIn(cl[g], p, k) \in Nat
    BY <1>2, PartOf
<1>5. /\ AllSum(ls, cl2, k) = AllSum(ls, cl, k)
                              - Part(cl[g], "process", k) + Part(cl2[g], "process", k)
      /\ \A p \in Panes : PaneSum(ls, cl2, p, k) =
            PaneSum(ls, cl, p, k) - PartIn(cl[g], p, k) + PartIn(cl2[g], p, k)
    BY <1>1, CallMoves
<1>6. /\ Part(cl2[g], "process", k) = Part(cl[g], "process", k)
      /\ \A p \in Panes : PartIn(cl2[g], p, k) = PartIn(cl[g], p, k)
    BY DEF SameHeld
<1> QED BY <1>3, <1>4, <1>5, <1>6

(* What one more counter c changes of what is held of a counter. *)
More(q, c, of, k) == IF KindOrder[c[1]] = k /\ c[2] = of THEN q.usage[k] ELSE 0

Shifts(ls, cl, cl2, q, c, k) ==
    /\ \A of : More(q, c, of, k) \in Nat
    /\ AllSum(ls, cl2, k) = AllSum(ls, cl, k) + More(q, c, "process", k)
    /\ \A p \in Panes : PaneSum(ls, cl2, p, k) = PaneSum(ls, cl, p, k)
          + (IF p = q.pane THEN More(q, c, "pane", k) ELSE 0)

(* The sums grow by what a counter c, taken, adds. *)
LEMMA CounterTaken ==
    ASSUME NEW ls, LeasesTyped(ls), NEW cl, NEW cl2, NEW g, Moves(cl, cl2, g),
           NEW c, TakesOne(cl[g], cl2[g], c), NEW k \in Budget!Kinds
    PROVE  Shifts(ls, cl, cl2, cl[g], c, k)
<1>1. /\ CallsTyped(cl) /\ CallsTyped(cl2) /\ g \in Goroutines
      /\ \A h \in Goroutines \ {g} : cl2[h] = cl[h]
    BY DEF Moves
<1>2. cl[g] \in Call /\ cl2[g].pane = cl[g].pane BY DEF TakesOne
<1>3. AllSum(ls, cl, k) \in Nat /\ \A p \in Panes : PaneSum(ls, cl, p, k) \in Nat
    BY <1>1, HeldNatural
<1>4. \A of : Part(cl[g], of, k) \in Nat BY <1>2, PartOf
<1>5. /\ AllSum(ls, cl2, k) = AllSum(ls, cl, k)
                              - Part(cl[g], "process", k) + Part(cl2[g], "process", k)
      /\ \A p \in Panes : PaneSum(ls, cl2, p, k) =
            PaneSum(ls, cl, p, k) - PartIn(cl[g], p, k) + PartIn(cl2[g], p, k)
    BY <1>1, CallMoves
<1>6. \A of : Part(cl2[g], of, k) = Part(cl[g], of, k) + More(cl[g], c, of, k)
    BY PartGrows DEF More
<1>7. \A of : More(cl[g], c, of, k) \in Nat BY PartGrows DEF More
<1>8. AllSum(ls, cl2, k) = AllSum(ls, cl, k) + More(cl[g], c, "process", k)
    BY <1>3, <1>4, <1>5, <1>6, <1>7
<1>9. ASSUME NEW p \in Panes
      PROVE  PaneSum(ls, cl2, p, k) = PaneSum(ls, cl, p, k)
                 + (IF p = cl[g].pane THEN More(cl[g], c, "pane", k) ELSE 0)
    <2>1. CASE p = cl[g].pane
        <3>1. /\ PartIn(cl[g], p, k) = Part(cl[g], "pane", k)
              /\ PartIn(cl2[g], p, k) = Part(cl2[g], "pane", k)
            BY <1>2, <2>1 DEF PartIn
        <3> QED BY <1>3, <1>4, <1>5, <1>6, <1>7, <2>1, <3>1
    <2>2. CASE p # cl[g].pane
        <3>1. PartIn(cl[g], p, k) = 0 /\ PartIn(cl2[g], p, k) = 0 BY <1>2, <2>2 DEF PartIn
        <3> QED BY <1>3, <1>5, <2>2, <3>1
    <2> QED BY <2>1, <2>2
<1> QED BY <1>7, <1>8, <1>9 DEF Shifts

(* What adding to one counter, or taking from it, does to the others. *)
LEMMA Adding ==
    ASSUME NEW c \in Places, NEW g \in Goroutines, call[g] \in Call, NEW n \in {1, 0 - 1},
           pane \in [Panes -> [Budget!Kinds -> Int]], process \in [Budget!Kinds -> Int], Budget!Add(c, g, n)
    PROVE  /\ pane' \in [Panes -> [Budget!Kinds -> Int]] /\ process' \in [Budget!Kinds -> Int]
           /\ \A k \in Budget!Kinds :
                 /\ process'[k] = process[k] + n * More(call[g], c, "process", k)
                 /\ \A p \in Panes : pane'[p][k] = pane[p][k]
                       + (IF p = call[g].pane THEN n * More(call[g], c, "pane", k) ELSE 0)
<1> DEFINE kind == KindOrder[c[1]]
           p0 == call[g].pane
<1>1. /\ c[1] \in DOMAIN KindOrder /\ c[2] \in {"pane", "process"} /\ kind \in Budget!Kinds
      /\ p0 \in Panes /\ call[g].usage[kind] \in Nat
    BY Budgeted DEF Places, Call
<1>2. n * 0 = 0 /\ n * call[g].usage[kind] \in Int BY <1>1
<1>3. CASE c[2] = "pane"
    <2> DEFINE x == n * call[g].usage[kind]
               row == [pane[p0] EXCEPT ![kind] = pane[p0][kind] + x]
    <2>1. pane' = [pane EXCEPT ![p0] = row] /\ process' = process
        BY <1>3, Zenon DEF Budget!Add, Budget!Amount
    <2>2. pane[p0] \in [Budget!Kinds -> Int] /\ x \in Int BY <1>1, <1>2
    <2>3. row \in [Budget!Kinds -> Int] /\ row[kind] = pane[p0][kind] + x
          /\ \A k \in Budget!Kinds \ {kind} : row[k] = pane[p0][k]
        <3> HIDE DEF x, kind, p0
        <3> QED BY <1>1, <2>2
    <2>4. /\ pane' \in [Panes -> [Budget!Kinds -> Int]]
          /\ pane'[p0] = row /\ \A p \in Panes \ {p0} : pane'[p] = pane[p]
        <3> HIDE DEF row, p0
        <3> QED BY <1>1, <2>1, <2>3
    <2>5. \A k \in Budget!Kinds : More(call[g], c, "process", k) = 0 BY <1>3 DEF More
    <2>6. \A k \in Budget!Kinds : More(call[g], c, "pane", k) = IF k = kind THEN call[g].usage[kind] ELSE 0
        BY <1>3 DEF More
    <2>7. ASSUME NEW k \in Budget!Kinds, NEW p \in Panes
          PROVE  pane'[p][k] = pane[p][k]
                       + (IF p = p0 THEN n * More(call[g], c, "pane", k) ELSE 0)
        <3>0. pane[p][k] \in Int BY <2>2
        <3>1. CASE p = p0 /\ k = kind BY <1>1, <2>3, <2>4, <2>6, <3>1
        <3>2. CASE p = p0 /\ k # kind BY <1>1, <1>2, <2>3, <2>4, <2>6, <3>0, <3>2
        <3>3. CASE p # p0 BY <1>1, <2>4, <3>0, <3>3
        <3> QED BY <3>1, <3>2, <3>3
    <2>8. \A k \in Budget!Kinds : process'[k] = process[k] + n * More(call[g], c, "process", k)
        BY <1>2, <2>1, <2>5
    <2> QED BY <2>1, <2>4, <2>7, <2>8
<1>4. CASE c[2] = "process"
    <2>1. /\ process' = [process EXCEPT ![kind] = @ + n * call[g].usage[kind]]
          /\ pane' = pane
        BY <1>4 DEF Budget!Add, Budget!Amount
    <2>2. process' \in [Budget!Kinds -> Int] BY <1>1, <1>2, <2>1
    <2>3. \A k \in Budget!Kinds : More(call[g], c, "pane", k) = 0 BY <1>4 DEF More
    <2>4. \A k \in Budget!Kinds : More(call[g], c, "process", k)
                             = IF k = kind THEN call[g].usage[kind] ELSE 0
        BY <1>4 DEF More
    <2>5. \A k \in Budget!Kinds : process'[k] = process[k] + n * More(call[g], c, "process", k)
        BY <1>1, <1>2, <2>1, <2>4
    <2>6. \A k \in Budget!Kinds, p \in Panes : pane[p][k] \in Int OBVIOUS
    <2>7. \A k \in Budget!Kinds, p \in Panes : pane'[p][k] = pane[p][k]
                       + (IF p = p0 THEN n * More(call[g], c, "pane", k) ELSE 0)
        BY <1>2, <2>1, <2>3, <2>6
    <2> QED BY <2>1, <2>2, <2>5, <2>7
<1> QED BY <1>1, <1>3, <1>4

-----------------------------------------------------------------------------
Sensible(q) ==
    /\ q \in Call /\ q.taken \subseteq Budget!Counters(q.usage)
    /\ q.at = "idle" => q.taken = {}
    /\ q.at # "idle" => q.usage \in Usages

(* A goroutine's call becomes q. *)
LEMMA CallSet ==
    ASSUME NEW cl, CallsTyped(cl), NEW g \in Goroutines, NEW q, Sensible(q)
    PROVE  Moves(cl, [cl EXCEPT ![g] = q], g) /\ [cl EXCEPT ![g] = q][g] = q
<1> DEFINE cl2 == [cl EXCEPT ![g] = q]
<1>1. cl \in [Goroutines -> Call] /\ q \in Call BY DEF CallsTyped, Sensible
<1>2. /\ cl2 \in [Goroutines -> Call] /\ cl2[g] = q
      /\ \A h \in Goroutines \ {g} : cl2[h] = cl[h]
    BY <1>1
<1> HIDE DEF cl2
<1>3. CallsTyped(cl2)
    <2> SUFFICES ASSUME NEW h \in Goroutines
                 PROVE  /\ cl2[h].taken \subseteq Budget!Counters(cl2[h].usage)
                        /\ cl2[h].at = "idle" => cl2[h].taken = {}
                        /\ cl2[h].at # "idle" => cl2[h].usage \in Usages
        BY <1>2 DEF CallsTyped
    <2>1. CASE h = g BY <1>2, <2>1 DEF Sensible
    <2>2. CASE h # g BY <1>2, <2>2 DEF CallsTyped
    <2> QED BY <2>1, <2>2
<1>4. Moves(cl, cl2, g) /\ cl2[g] = q BY <1>2, <1>3 DEF Moves
<1> QED BY <1>4 DEF cl2

(* Every call is a sensible one. *)
LEMMA CallIs ==
    ASSUME CallsTyped(call), NEW g \in Goroutines
    PROVE  Sensible(call[g])
  BY DEF CallsTyped, Sensible

(* A goroutine in no call holds nothing. *)
LEMMA IdleIs == Sensible(Budget!NoCall) /\ Budget!NoCall.taken = {} /\ Budget!NoCall.at = "idle"
<1>1. (CHOOSE p \in Panes : TRUE) \in Panes BY Budgeted
<1>2. Budget!NoUsage \in [Budget!Kinds -> Nat] BY DEF Budget!NoUsage
<1>3. Budget!NoCall \in Call BY <1>1, <1>2 DEF Budget!NoCall, Call
<1> QED BY <1>3 DEF Sensible, Budget!NoCall

(* Calls begin and end, and turn back, without a change of what they hold. *)
LEMMA CallOnly ==
    ASSUME BInv, NEW g \in Goroutines, NEW q, Sensible(q), call' = [call EXCEPT ![g] = q],
           pane' = pane, process' = process, leases' = leases,
           \/ call[g].taken = {} /\ q.taken = {}
           \/ q.taken = call[g].taken /\ q.pane = call[g].pane /\ q.usage = call[g].usage
    PROVE  BInv'
<1>1. CallsTyped(call) /\ LeasesTyped(leases) /\ Exact(leases, call, pane, process) BY DEF BInv
<1>2. Moves(call, call', g) /\ call'[g] = q
    <2>1. CallsTyped(call) /\ Sensible(q) /\ g \in Goroutines BY <1>1
    <2>2. Moves(call, [call EXCEPT ![g] = q], g) /\ [call EXCEPT ![g] = q][g] = q
        BY ONLY <2>1, CallSet
    <2> QED BY <2>2, Zenon
<1>3. call[g] \in Call /\ q \in Call BY <1>1, CallIs DEF Sensible
<1>4. ASSUME NEW k \in Budget!Kinds
      PROVE  /\ Part(q, "process", k) = Part(call[g], "process", k)
             /\ \A p \in Panes : PartIn(q, p, k) = PartIn(call[g], p, k)
    <2>1. CASE call[g].taken = {} /\ q.taken = {} BY <1>3, <2>1, PartOf
    <2>2. CASE q.taken = call[g].taken /\ q.pane = call[g].pane /\ q.usage = call[g].usage
        BY <2>2 DEF Part, PartIn
    <2> QED BY <2>1, <2>2
<1>5. Exact(leases, call', pane, process)
    <2>1. SameHeld(call[g], call'[g]) BY <1>2, <1>4 DEF SameHeld
    <2> QED BY <1>1, <1>2, <2>1, Neutral
<1>6. CallsTyped(call') BY <1>2 DEF Moves
<1> QED BY <1>1, <1>5, <1>6 DEF BInv

(* reserve is called: nothing is taken yet. *)
LEMMA ReserveStep ==
    ASSUME BInv, NEW g \in Goroutines, NEW p \in Panes, NEW u \in Usages, Budget!Reserve(g, p, u)
    PROVE  BInv'
<1> DEFINE q == [at |-> "up", pane |-> p, usage |-> u, taken |-> {}]
<1>1. call[g].taken = {} BY DEF BInv, CallsTyped, Budget!Reserve
<1>2. Sensible(q) /\ q.taken = {}
    <2>1. u \in [Budget!Kinds -> Nat] BY Budgeted
    <2> QED BY <2>1 DEF Sensible, Call
<1>3. /\ call' = [call EXCEPT ![g] = q] /\ pane' = pane /\ process' = process
      /\ leases' = leases
    BY DEF Budget!Reserve
<1> HIDE DEF q
<1> QED BY <1>1, <1>2, <1>3, CallOnly

(* A counter is refused: what was taken is still held. *)
LEMMA RefuseStep ==
    ASSUME BInv, NEW g \in Goroutines, Budget!RefuseCounter(g)
    PROVE  BInv'
<1> DEFINE q == [call[g] EXCEPT !.at = "down"]
<1>1. Sensible(call[g]) /\ call \in [Goroutines -> Call] BY CallIs DEF BInv, CallsTyped
<1>2. call[g] \in Call /\ call[g].at = "up" BY <1>1 DEF Sensible, Budget!RefuseCounter
<1>3. /\ q \in Call /\ q.at = "down" /\ q.taken = call[g].taken /\ q.pane = call[g].pane
      /\ q.usage = call[g].usage
    BY <1>2 DEF Call
<1>4. call' = [call EXCEPT ![g] = q]
    <2>1. call' = [call EXCEPT ![g] = [[@ EXCEPT !.at = "down"] EXCEPT !.taken = call[g].taken]]
        BY DEF Budget!RefuseCounter, Budget!StillTaken
    <2>2. [[call[g] EXCEPT !.at = "down"] EXCEPT !.taken = call[g].taken] = q
        BY <1>2 DEF Call
    <2> QED BY <1>1, <2>1, <2>2
<1>5. pane' = pane /\ process' = process /\ leases' = leases BY DEF Budget!RefuseCounter
<1> HIDE DEF q
<1>6. Sensible(q) BY <1>1, <1>2, <1>3 DEF Sensible
<1> QED BY <1>3, <1>4, <1>5, <1>6, CallOnly

(* A call that gave back everything returns. *)
LEMMA ReturnStep ==
    ASSUME BInv, NEW g \in Goroutines, Budget!Return(g)
    PROVE  BInv'
<1>1. call[g].taken = {} /\ call' = [call EXCEPT ![g] = Budget!NoCall]
      /\ pane' = pane /\ process' = process /\ leases' = leases
    BY DEF Budget!Return
<1> QED BY <1>1, IdleIs, CallOnly

(* A counter is taken. *)
LEMMA ReserveCounterStep ==
    ASSUME BInv, NEW g \in Goroutines, Budget!ReserveCounter(g)
    PROVE  BInv'
<1> DEFINE c == Budget!Following(g)
           q == [call[g] EXCEPT !.taken = @ \cup {c}]
<1>1. /\ CallsTyped(call) /\ LeasesTyped(leases) /\ Exact(leases, call, pane, process)
      /\ pane \in [Panes -> [Budget!Kinds -> Int]] /\ process \in [Budget!Kinds -> Int]
    BY DEF BInv, Exact
<1>2. Sensible(call[g]) /\ call[g] \in Call BY <1>1, CallIs DEF Sensible
<1>3. c \in Budget!Untaken(g) /\ c \in Places \ call[g].taken /\ c \in Budget!Counters(call[g].usage)
    <2>1. Budget!Following(g) \in Budget!Untaken(g) /\ Budget!Untaken(g) \subseteq Places
        BY <1>1, NextAndLast DEF Budget!ReserveCounter
    <2> QED BY <2>1 DEF Budget!Untaken
<1>4. Budget!Fits(c, g) /\ Budget!Add(c, g, 1) /\ leases' = leases /\ call[g].at = "up"
      /\ call' = [call EXCEPT ![g] = q]
    BY Zenon DEF Budget!ReserveCounter
<1> HIDE DEF c
<1>5. /\ q \in Call /\ q.at = "up" /\ q.taken = call[g].taken \cup {c}
      /\ q.pane = call[g].pane /\ q.usage = call[g].usage
    BY <1>2, <1>3, <1>4 DEF Call
<1> HIDE DEF q
<1>6. Sensible(q) BY <1>2, <1>3, <1>4, <1>5 DEF Sensible
<1>7. Moves(call, call', g) /\ call'[g] = q
    <2>1. /\ Moves(call, [call EXCEPT ![g] = q], g) /\ [call EXCEPT ![g] = q][g] = q
        BY <1>1, <1>6, CallSet
    <2> QED BY <1>4, <2>1, Zenon
<1>8. TakesOne(call[g], call'[g], c) BY <1>2, <1>3, <1>5, <1>7 DEF TakesOne
<1>9. ASSUME NEW k \in Budget!Kinds
      PROVE  /\ \A of : More(call[g], c, of, k) \in Nat
             /\ AllSum(leases, call', k)
                  = AllSum(leases, call, k) + More(call[g], c, "process", k)
             /\ \A p \in Panes : PaneSum(leases, call', p, k) = PaneSum(leases, call, p, k)
                  + (IF p = call[g].pane THEN More(call[g], c, "pane", k) ELSE 0)
    <2>1. Shifts(leases, call, call', call[g], c, k) BY <1>1, <1>7, <1>8, CounterTaken
    <2> QED BY <2>1 DEF Shifts
<1>10. /\ pane' \in [Panes -> [Budget!Kinds -> Int]] /\ process' \in [Budget!Kinds -> Int]
       /\ \A k \in Budget!Kinds :
            /\ process'[k] = process[k] + 1 * More(call[g], c, "process", k)
            /\ \A p \in Panes : pane'[p][k] = pane[p][k]
                  + (IF p = call[g].pane THEN 1 * More(call[g], c, "pane", k) ELSE 0)
    BY <1>1, <1>2, <1>3, <1>4, Adding
<1>11. ASSUME NEW k \in Budget!Kinds
       PROVE  /\ process'[k] = AllSum(leases, call', k) /\ process'[k] <= ProcessLimit[k]
              /\ \A p \in Panes : pane'[p][k] = PaneSum(leases, call', p, k)
                                  /\ pane'[p][k] <= PaneLimit[k]
    <2>1. \A of : More(call[g], c, of, k) \in Nat BY <1>9
    <2>2. /\ process'[k] = process[k] + More(call[g], c, "process", k)
          /\ \A p \in Panes : pane'[p][k] = pane[p][k]
                  + (IF p = call[g].pane THEN More(call[g], c, "pane", k) ELSE 0)
        BY <1>10, <2>1
    <2>3. /\ process[k] = AllSum(leases, call, k) /\ process[k] <= ProcessLimit[k]
          /\ \A p \in Panes : pane[p][k] = PaneSum(leases, call, p, k) /\ pane[p][k] <= PaneLimit[k]
        BY <1>1 DEF Exact
    <2>4. ASSUME KindOrder[c[1]] = k /\ c[2] = "process"
          PROVE  process'[k] <= ProcessLimit[k]
        <3>1. More(call[g], c, "process", k) = call[g].usage[k] BY <2>4 DEF More
        <3> QED BY <1>4, <2>2, <2>4, <3>1 DEF Budget!Fits, Budget!Value, Budget!Limit, Budget!Amount
    <2>5. ASSUME KindOrder[c[1]] = k /\ c[2] = "pane"
          PROVE  pane'[call[g].pane][k] <= PaneLimit[k]
        <3>1. More(call[g], c, "pane", k) = call[g].usage[k] BY <2>5 DEF More
        <3>2. call[g].pane \in Panes BY <1>2 DEF Call
        <3> QED BY <1>4, <2>2, <2>5, <3>1, <3>2 DEF Budget!Fits, Budget!Value, Budget!Limit, Budget!Amount
    <2>6. /\ ~(KindOrder[c[1]] = k /\ c[2] = "process") => More(call[g], c, "process", k) = 0
          /\ ~(KindOrder[c[1]] = k /\ c[2] = "pane") => More(call[g], c, "pane", k) = 0
        BY DEF More
    <2>7. process[k] \in Int /\ \A p \in Panes : pane[p][k] \in Int BY <1>1
    <2>8. process'[k] = AllSum(leases, call', k)
          /\ \A p \in Panes : pane'[p][k] = PaneSum(leases, call', p, k)
        BY <1>9, <2>2, <2>3
    <2>9. process'[k] <= ProcessLimit[k] BY <2>2, <2>3, <2>4, <2>6, <2>7
    <2>10. ASSUME NEW p \in Panes
           PROVE  pane'[p][k] <= PaneLimit[k]
        <3>1. CASE p = call[g].pane BY <2>2, <2>3, <2>5, <2>6, <2>7, <3>1
        <3>2. CASE p # call[g].pane BY <2>2, <2>3, <2>7, <3>2
        <3> QED BY <3>1, <3>2
    <2> QED BY <2>8, <2>9, <2>10
<1>12. Exact(leases, call', pane', process') BY <1>10, <1>11 DEF Exact
<1>13. CallsTyped(call') BY <1>7 DEF Moves
<1> QED BY <1>1, <1>4, <1>12, <1>13 DEF BInv

(* A counter is given back. *)
LEMMA ReleaseCounterStep ==
    ASSUME BInv, NEW g \in Goroutines, Budget!ReleaseCounter(g)
    PROVE  BInv'
<1> DEFINE c == Budget!Topmost(g)
           q == [call[g] EXCEPT !.taken = @ \ {c}]
<1>1. /\ CallsTyped(call) /\ LeasesTyped(leases) /\ Exact(leases, call, pane, process)
      /\ pane \in [Panes -> [Budget!Kinds -> Int]] /\ process \in [Budget!Kinds -> Int]
    BY DEF BInv, Exact
<1>2. Sensible(call[g]) /\ call[g] \in Call BY <1>1, CallIs DEF Sensible
<1>3. c \in call[g].taken /\ c \in Places
    <2>1. Budget!Topmost(g) \in call[g].taken BY <1>1, NextAndLast DEF Budget!ReleaseCounter
    <2>2. call[g].taken \subseteq Places BY <1>2 DEF Call
    <2> QED BY <2>1, <2>2
<1>4. Budget!Add(c, g, -1) /\ leases' = leases /\ call[g].at = "down"
      /\ call' = [call EXCEPT ![g] = q]
    BY Zenon DEF Budget!ReleaseCounter
<1>5. Budget!Add(c, g, 0 - 1)
    <2>1. -1 = 0 - 1 OBVIOUS
    <2> QED BY <1>4, <2>1
<1> HIDE DEF c
<1>6. /\ q \in Call /\ q.at = "down" /\ q.taken = call[g].taken \ {c}
      /\ q.pane = call[g].pane /\ q.usage = call[g].usage
    BY <1>2, <1>3, <1>4 DEF Call
<1> HIDE DEF q
<1>7. Sensible(q) BY <1>2, <1>3, <1>4, <1>6 DEF Sensible
<1>8. Moves(call, call', g) /\ call'[g] = q
    <2>1. /\ Moves(call, [call EXCEPT ![g] = q], g) /\ [call EXCEPT ![g] = q][g] = q
        BY <1>1, <1>7, CallSet
    <2> QED BY <1>4, <2>1, Zenon
<1>9. Moves(call', call, g) BY <1>8 DEF Moves
<1>10. TakesOne(call'[g], call[g], c) BY <1>2, <1>3, <1>6, <1>8 DEF TakesOne
<1>11. \A of, k : More(call'[g], c, of, k) = More(call[g], c, of, k)
    BY <1>6, <1>8 DEF More
<1>12. ASSUME NEW k \in Budget!Kinds
       PROVE  /\ \A of : More(call[g], c, of, k) \in Nat
              /\ AllSum(leases, call, k)
                   = AllSum(leases, call', k) + More(call[g], c, "process", k)
              /\ \A p \in Panes : PaneSum(leases, call, p, k) = PaneSum(leases, call', p, k)
                   + (IF p = call[g].pane THEN More(call[g], c, "pane", k) ELSE 0)
    <2>1. Shifts(leases, call', call, call'[g], c, k) BY <1>1, <1>9, <1>10, CounterTaken
    <2>2. call'[g].pane = call[g].pane BY <1>6, <1>8
    <2> QED BY <1>11, <2>1, <2>2 DEF Shifts
<1>13. /\ pane' \in [Panes -> [Budget!Kinds -> Int]] /\ process' \in [Budget!Kinds -> Int]
       /\ \A k \in Budget!Kinds :
            /\ process'[k] = process[k] + (0 - 1) * More(call[g], c, "process", k)
            /\ \A p \in Panes : pane'[p][k] = pane[p][k]
                  + (IF p = call[g].pane THEN (0 - 1) * More(call[g], c, "pane", k) ELSE 0)
    BY <1>1, <1>2, <1>3, <1>5, Adding
<1>14. ASSUME NEW k \in Budget!Kinds
       PROVE  /\ process'[k] = AllSum(leases, call', k) /\ process'[k] <= ProcessLimit[k]
              /\ \A p \in Panes : pane'[p][k] = PaneSum(leases, call', p, k)
                                  /\ pane'[p][k] <= PaneLimit[k]
    <2>1. \A of : More(call[g], c, of, k) \in Nat BY <1>12
    <2>2. /\ process'[k] = process[k] - More(call[g], c, "process", k)
          /\ \A p \in Panes : pane'[p][k] = pane[p][k]
                  - (IF p = call[g].pane THEN More(call[g], c, "pane", k) ELSE 0)
        BY <1>1, <1>13, <2>1
    <2>3. /\ process[k] = AllSum(leases, call, k) /\ process[k] <= ProcessLimit[k]
          /\ \A p \in Panes : pane[p][k] = PaneSum(leases, call, p, k) /\ pane[p][k] <= PaneLimit[k]
        BY <1>1 DEF Exact
    <2>4. CallsTyped(call') BY <1>8 DEF Moves
    <2>5. AllSum(leases, call', k) \in Nat /\ \A p \in Panes : PaneSum(leases, call', p, k) \in Nat
        BY <1>1, <2>4, HeldNatural
    <2>6. ProcessLimit[k] \in Nat /\ PaneLimit[k] \in Nat BY Budgeted
    <2>7. process'[k] = AllSum(leases, call', k) /\ process'[k] <= ProcessLimit[k]
        BY <1>12, <2>1, <2>2, <2>3, <2>5, <2>6
    <2>8. ASSUME NEW p \in Panes
          PROVE  pane'[p][k] = PaneSum(leases, call', p, k) /\ pane'[p][k] <= PaneLimit[k]
        <3> DEFINE more == IF p = call[g].pane THEN More(call[g], c, "pane", k) ELSE 0
        <3>1. /\ more \in Nat /\ pane'[p][k] = pane[p][k] - more
              /\ PaneSum(leases, call, p, k) = PaneSum(leases, call', p, k) + more
            BY <1>12, <2>1, <2>2
        <3> HIDE DEF more
        <3> QED BY <2>3, <2>5, <2>6, <3>1
    <2> QED BY <2>7, <2>8
<1>15. Exact(leases, call', pane', process') BY <1>13, <1>14 DEF Exact
<1>16. CallsTyped(call') BY <1>8 DEF Moves
<1> QED BY <1>1, <1>4, <1>15, <1>16 DEF BInv

(* A lease holds what a complete call holds: nothing changes when one turns *)
(* into the other.  ls has the lease that q, in cl, stands for.             *)
Swaps(ls, ls2, cl, cl2, g, p, u) ==
    /\ Moves(cl, cl2, g) /\ LeaseAdded(ls, ls2, p, u)
    /\ cl[g].taken = Budget!Counters(u) /\ cl[g].usage = u /\ cl[g].pane = p /\ cl2[g].taken = {}

(* Lease and call hold the same of every counter. *)
LEMMA LeaseForCall ==
    ASSUME NEW ls, NEW ls2, NEW cl, NEW cl2, NEW g, NEW p, NEW u,
           Swaps(ls, ls2, cl, cl2, g, p, u), NEW k \in Budget!Kinds
    PROVE  /\ AllSum(ls2, cl2, k) = AllSum(ls, cl, k)
           /\ \A r \in Panes : PaneSum(ls2, cl2, r, k) = PaneSum(ls, cl, r, k)
<1>0. /\ Moves(cl, cl2, g) /\ LeaseAdded(ls, ls2, p, u)
      /\ cl[g].taken = Budget!Counters(u) /\ cl[g].usage = u /\ cl[g].pane = p /\ cl2[g].taken = {}
    BY DEF Swaps
<1>1. /\ CallsTyped(cl) /\ CallsTyped(cl2) /\ g \in Goroutines
      /\ \A h \in Goroutines \ {g} : cl2[h] = cl[h]
      /\ cl[g] \in Call /\ cl2[g] \in Call
    BY <1>0 DEF Moves, CallsTyped
<1>2. LeasesTyped(ls) /\ LeasesTyped(ls2) /\ u \in Usages BY <1>0 DEF LeaseAdded
<1>3. u[k] \in Nat
    <2>1. \A v \in Usages : v[k] \in Nat BY Budgeted
    <2> QED BY <1>2, <2>1
<1>4. /\ AllSum(ls, cl, k) \in Nat /\ AllSum(ls, cl2, k) \in Nat
      /\ \A r \in Panes : PaneSum(ls, cl, r, k) \in Nat /\ PaneSum(ls, cl2, r, k) \in Nat
    BY <1>1, <1>2, HeldNatural
<1>5. Part(cl[g], "process", k) = u[k] /\ Part(cl[g], "pane", k) = u[k]
    <2>1. cl[g].taken = Budget!Counters(cl[g].usage) BY <1>0
    <2>2. /\ Part(cl[g], "process", k) = cl[g].usage[k]
          /\ Part(cl[g], "pane", k) = cl[g].usage[k]
        BY <1>1, <2>1, PartComplete
    <2> QED BY <1>0, <2>2
<1>6. Part(cl2[g], "process", k) = 0 /\ \A r : PartIn(cl2[g], r, k) = 0 BY <1>0, <1>1, PartOf
<1>7. \A r \in Panes : PartIn(cl[g], r, k) = IF r = p THEN u[k] ELSE 0 BY <1>0, <1>5 DEF PartIn
<1>8. /\ AllSum(ls, cl2, k) = AllSum(ls, cl, k)
                              - Part(cl[g], "process", k) + Part(cl2[g], "process", k)
      /\ \A r \in Panes : PaneSum(ls, cl2, r, k) =
            PaneSum(ls, cl, r, k) - PartIn(cl[g], r, k) + PartIn(cl2[g], r, k)
    BY <1>1, <1>2, CallMoves
<1>9. /\ AllSum(ls2, cl2, k) = AllSum(ls, cl2, k) + u[k]
      /\ \A r \in Panes : PaneSum(ls2, cl2, r, k) =
            PaneSum(ls, cl2, r, k) + (IF r = p THEN u[k] ELSE 0)
    BY <1>0, <1>1, Leasing
<1>10. AllSum(ls2, cl2, k) = AllSum(ls, cl, k) BY <1>3, <1>4, <1>5, <1>6, <1>8, <1>9
<1>11. ASSUME NEW r \in Panes
       PROVE  PaneSum(ls2, cl2, r, k) = PaneSum(ls, cl, r, k)
    BY <1>3, <1>4, <1>6, <1>7, <1>8, <1>9
<1> QED BY <1>10, <1>11

(* reserve returns: the call's counters become the lease's. *)
LEMMA GrantStep ==
    ASSUME BInv, NEW g \in Goroutines, Budget!Grant(g)
    PROVE  BInv'
<1> DEFINE p == call[g].pane
           u == call[g].usage
<1>1. /\ CallsTyped(call) /\ LeasesTyped(leases) /\ Exact(leases, call, pane, process)
      /\ Sensible(call[g]) /\ call[g] \in Call
    BY CallIs DEF BInv, Sensible
<1>2. /\ p \in Panes /\ u \in Usages /\ call[g].taken = Budget!Counters(u)
      /\ leases' = [leases EXCEPT ![<<p, u>>] = @ + 1]
      /\ call' = [call EXCEPT ![g] = Budget!NoCall]
      /\ pane' = pane /\ process' = process
    BY <1>1 DEF Budget!Grant, Budget!Complete, Sensible, Call
<1> HIDE DEF p, u
<1>3. Moves(call, call', g) /\ call'[g] = Budget!NoCall
    <2>1. /\ Moves(call, [call EXCEPT ![g] = Budget!NoCall], g)
          /\ [call EXCEPT ![g] = Budget!NoCall][g] = Budget!NoCall
        BY <1>1, IdleIs, CallSet
    <2> QED BY <1>2, <2>1, Zenon
<1>4. LeaseAdded(leases, leases', p, u)
    <2>1. <<p, u>> \in Panes \X Usages /\ leases \in [Panes \X Usages -> Nat]
        BY <1>1, <1>2 DEF LeasesTyped
    <2>2. /\ leases' \in [Panes \X Usages -> Nat]
          /\ leases'[<<p, u>>] = leases[<<p, u>>] + 1
          /\ \A x \in (Panes \X Usages) \ {<<p, u>>} : leases'[x] = leases[x]
        BY <1>2, <2>1
    <2> QED BY <1>2, <2>1, <2>2 DEF LeaseAdded, LeasesTyped
<1>5. call'[g].taken = {} /\ call[g].usage = u /\ call[g].pane = p BY <1>3, IdleIs DEF p, u
<1>6. ASSUME NEW k \in Budget!Kinds
      PROVE  /\ AllSum(leases', call', k) = AllSum(leases, call, k)
             /\ \A r \in Panes : PaneSum(leases', call', r, k) = PaneSum(leases, call, r, k)
    <2>1. Swaps(leases, leases', call, call', g, p, u) BY <1>2, <1>3, <1>4, <1>5 DEF Swaps
    <2> QED BY <2>1, LeaseForCall
<1>7. Exact(leases', call', pane', process') BY <1>1, <1>2, <1>6 DEF Exact
<1>8. CallsTyped(call') /\ LeasesTyped(leases') BY <1>3, <1>4 DEF Moves, LeaseAdded
<1> QED BY <1>7, <1>8 DEF BInv

(* A lease's counters become those of the call that closes it. *)
LEMMA CloseStep ==
    ASSUME BInv, NEW g \in Goroutines, NEW p \in Panes, NEW u \in Usages, Budget!Close(g, p, u)
    PROVE  BInv'
<1> DEFINE q == [at |-> "down", pane |-> p, usage |-> u, taken |-> Budget!Counters(u)]
<1>1. /\ CallsTyped(call) /\ LeasesTyped(leases) /\ Exact(leases, call, pane, process)
      /\ Sensible(call[g]) /\ call[g].taken = {}
    BY CallIs DEF BInv, Sensible, Budget!Close
<1>2. /\ leases[<<p, u>>] > 0 /\ leases' = [leases EXCEPT ![<<p, u>>] = @ - 1]
      /\ call' = [call EXCEPT ![g] = q]
      /\ pane' = pane /\ process' = process
    BY DEF Budget!Close, Budget!Closed
<1>3. Sensible(q) /\ q.taken = Budget!Counters(u) /\ q.usage = u /\ q.pane = p
    <2>1. u \in [Budget!Kinds -> Nat] BY Budgeted
    <2>2. Budget!Counters(u) \subseteq Places BY DEF Budget!Counters, Places
    <2> QED BY <2>1, <2>2 DEF Sensible, Call
<1> HIDE DEF q
<1>4. Moves(call, call', g) /\ call'[g] = q
    <2>1. /\ Moves(call, [call EXCEPT ![g] = q], g) /\ [call EXCEPT ![g] = q][g] = q
        BY <1>1, <1>3, CallSet
    <2> QED BY <1>2, <2>1, Zenon
<1>5. LeaseAdded(leases', leases, p, u)
    <2>1. <<p, u>> \in Panes \X Usages /\ leases \in [Panes \X Usages -> Nat]
        BY <1>1 DEF LeasesTyped
    <2>2. leases[<<p, u>>] - 1 \in Nat BY <1>2, <2>1
    <2>3. /\ leases' \in [Panes \X Usages -> Nat]
          /\ leases'[<<p, u>>] = leases[<<p, u>>] - 1
          /\ \A x \in (Panes \X Usages) \ {<<p, u>>} : leases'[x] = leases[x]
        BY <1>2, <2>1, <2>2
    <2>4. leases[<<p, u>>] = leases'[<<p, u>>] + 1 BY <2>1, <2>3
    <2> QED BY <2>1, <2>3, <2>4 DEF LeaseAdded, LeasesTyped
<1>6. Moves(call', call, g) BY <1>4 DEF Moves
<1>7. ASSUME NEW k \in Budget!Kinds
      PROVE  /\ AllSum(leases, call, k) = AllSum(leases', call', k)
             /\ \A r \in Panes : PaneSum(leases, call, r, k) = PaneSum(leases', call', r, k)
    <2>1. call'[g].taken = Budget!Counters(u) /\ call'[g].usage = u /\ call'[g].pane = p
        BY <1>3, <1>4
    <2>2. Swaps(leases', leases, call', call, g, p, u) BY <1>1, <1>5, <1>6, <2>1 DEF Swaps
    <2> QED BY <2>2, LeaseForCall
<1>8. Exact(leases', call', pane', process') BY <1>1, <1>2, <1>7 DEF Exact
<1>9. CallsTyped(call') /\ LeasesTyped(leases') BY <1>4, <1>5 DEF Moves, LeaseAdded
<1> QED BY <1>8, <1>9 DEF BInv

-----------------------------------------------------------------------------
(* Zeros add up to zero. *)
LEMMA SumZero ==
    ASSUME NEW S, IsFiniteSet(S), NEW f, \A x \in S : f[x] = 0
    PROVE  SumFunctionOnSet(f, S) = 0
<1> DEFINE g == [T \in SUBSET S |-> 0]
<1>1. Additive(g, f, S)
    <2>1. \A T \in SUBSET S : \A x \in T : T \ {x} \in SUBSET S /\ f[x] = 0 OBVIOUS
    <2>2. \A T \in SUBSET S : \A x \in T : g[T] = f[x] + g[T \ {x}] BY <2>1
    <2>3. g \in [SUBSET S -> Nat] /\ g[{}] = 0 OBVIOUS
    <2> QED BY <2>2, <2>3 DEF Additive
<1>2. g[S] = 0 OBVIOUS
<1> HIDE DEF g
<1> QED BY <1>1, <1>2, SumIs

(* At first nothing is held. *)
LEMMA BudgetBegins == Budget!Init => BInv
<1> SUFFICES ASSUME Budget!Init PROVE BInv
    OBVIOUS
<1>1. /\ pane = [p \in Panes |-> Budget!NoUsage] /\ process = Budget!NoUsage
      /\ call = [g \in Goroutines |-> Budget!NoCall]
      /\ leases = [x \in Panes \X Usages |-> 0]
    BY DEF Budget!Init
<1>2. Sensible(Budget!NoCall) /\ Budget!NoCall \in Call /\ Budget!NoCall.taken = {}
    BY IdleIs DEF Sensible
<1>3. CallsTyped(call)
    <2>1. call \in [Goroutines -> Call] /\ \A g \in Goroutines : call[g] = Budget!NoCall BY <1>1, <1>2
    <2> QED BY <1>2, <2>1 DEF CallsTyped, Sensible
<1>4. LeasesTyped(leases) /\ \A x \in Panes \X Usages : leases[x] = 0
    BY <1>1 DEF LeasesTyped
<1>5. Budget!NoUsage \in [Budget!Kinds -> Int] /\ \A k \in Budget!Kinds : Budget!NoUsage[k] = 0 BY DEF Budget!NoUsage
<1>6. ASSUME NEW k \in Budget!Kinds
      PROVE  /\ AllSum(leases, call, k) = 0
             /\ \A p \in Panes : PaneSum(leases, call, p, k) = 0
    <2>1. \A u \in Usages : u[k] \in Nat /\ 0 * u[k] = 0
        <3>1. \A n \in Nat : 0 * n = 0 OBVIOUS
        <3>2. \A u \in Usages : u[k] \in Nat BY Budgeted
        <3> QED BY <3>1, <3>2
    <2>2. \A g \in Goroutines : TakenOfAll(call, k)[g] = 0
        BY <1>1, <1>2, PartOf DEF TakenOfAll
    <2>3. \A p : \A g \in Goroutines : TakenOf(call, p, k)[g] = 0
        BY <1>1, <1>2, PartOf DEF TakenOf
    <2>4. \A x \in Panes \X Usages : LeasedOfAll(leases, k)[x] = 0
        BY <1>4, <2>1 DEF LeasedOfAll
    <2>5. \A p \in Panes : \A u \in Usages : LeasedOf(leases, p, k)[u] = 0
        BY <1>4, <2>1 DEF LeasedOf
    <2>6. SumFunctionOnSet(TakenOfAll(call, k), Goroutines) = 0 BY <2>2, SumZero, Budgeted
    <2>7. \A p : SumFunctionOnSet(TakenOf(call, p, k), Goroutines) = 0 BY <2>3, SumZero, Budgeted
    <2>8. SumFunctionOnSet(LeasedOfAll(leases, k), Panes \X Usages) = 0 BY <2>4, SumZero, Budgeted
    <2>9. \A p \in Panes : SumFunctionOnSet(LeasedOf(leases, p, k), Usages) = 0
        BY <2>5, SumZero, Budgeted
    <2> QED BY <2>6, <2>7, <2>8, <2>9 DEF AllSum, PaneSum
<1>7. \A k \in Budget!Kinds : 0 <= ProcessLimit[k] /\ 0 <= PaneLimit[k] BY Budgeted
<1>8. Exact(leases, call, pane, process)
    <2>1. pane \in [Panes -> [Budget!Kinds -> Int]] /\ process \in [Budget!Kinds -> Int] BY <1>1, <1>5
    <2>2. \A k \in Budget!Kinds : process[k] = 0 /\ \A p \in Panes : pane[p][k] = 0 BY <1>1, <1>5
    <2> QED BY <1>6, <1>7, <2>1, <2>2 DEF Exact
<1> QED BY <1>3, <1>4, <1>8 DEF BInv

(* Every step keeps the counters exact. *)
LEMMA CountersStep ==
    ASSUME BInv, Budget!Next
    PROVE  BInv'
<1>1. PICK g \in Goroutines :
          (\E p \in Panes, u \in Usages : Budget!Reserve(g, p, u) \/ Budget!Close(g, p, u)) \/ Budget!Step(g)
    BY DEF Budget!Next
<1>2. ASSUME NEW p \in Panes, NEW u \in Usages, Budget!Reserve(g, p, u) \/ Budget!Close(g, p, u)
      PROVE  BInv'
    BY <1>2, ReserveStep, CloseStep
<1>3. CASE Budget!Step(g)
    BY <1>3, ReserveCounterStep, RefuseStep, GrantStep, ReleaseCounterStep, ReturnStep DEF Budget!Step
<1> QED BY <1>1, <1>2, <1>3

(* The invariant says what BudgetExact says, and that no call has more to   *)
(* give back than its counter has.                                          *)
LEMMA BudgetFollows == BInv => Budget!BudgetExact
<1> SUFFICES ASSUME BInv PROVE Budget!BudgetExact
    OBVIOUS
<1>1. CallsTyped(call) /\ LeasesTyped(leases) /\ Exact(leases, call, pane, process) BY DEF BInv
<1>2. ASSUME NEW k \in Budget!Kinds
      PROVE  /\ \A p \in Panes : pane[p][k] = Budget!InPane(p, k) /\ pane[p][k] <= PaneLimit[k]
             /\ process[k] = Budget!InProcess(k) /\ process[k] <= ProcessLimit[k]
    <2>1. Budget!InProcess(k) = AllSum(leases, call, k)
        BY SameSum DEF Budget!InProcess, AllSum, LeasedOfAll, TakenOfAll, Budget!Holds, Part
    <2>2. \A p \in Panes : Budget!InPane(p, k) = PaneSum(leases, call, p, k)
        BY SameSum DEF Budget!InPane, PaneSum, LeasedOf, TakenOf, Budget!Holds, Part, PartIn
    <2> QED BY <1>1, <2>1, <2>2 DEF Exact
<1>3. ASSUME NEW g \in Goroutines, call[g].taken # {}
      PROVE  Budget!Value(Budget!Topmost(g), call[g].pane) >= Budget!Amount(Budget!Topmost(g), g)
    <2> DEFINE c == Budget!Topmost(g)
               k == KindOrder[c[1]]
               p == call[g].pane
    <2>1. c \in call[g].taken BY <1>1, <1>3, NextAndLast
    <2>2. call[g] \in Call BY <1>1 DEF CallsTyped
    <2>3. c[1] \in DOMAIN KindOrder /\ c[2] \in {"pane", "process"} /\ p \in Panes
        BY <2>1, <2>2 DEF Call, Places
    <2>4. k \in Budget!Kinds BY <2>3 DEF Budget!Kinds
    <2>5. Part(call[g], c[2], k) = Budget!Amount(c, g) BY <2>1 DEF Part, Budget!Amount
    <2> HIDE DEF c
    <2>6. /\ AllSum(leases, call, k) >= Part(call[g], "process", k)
          /\ PaneSum(leases, call, p, k) >= PartIn(call[g], p, k)
        BY <1>1, <2>3, <2>4, CallMoves
    <2>7. pane[p][k] = PaneSum(leases, call, p, k) /\ process[k] = AllSum(leases, call, k)
        BY <1>1, <2>3, <2>4 DEF Exact
    <2>8. Budget!Value(c, p) >= Budget!Amount(c, g)
        <3>1. CASE c[2] = "pane" BY <2>5, <2>6, <2>7, <3>1 DEF PartIn, Budget!Value
        <3>2. CASE c[2] = "process" BY <2>5, <2>6, <2>7, <3>2 DEF Budget!Value
        <3> QED BY <2>3, <3>1, <3>2
    <2> QED BY <2>8 DEF c
<1> QED BY <1>2, <1>3 DEF Budget!BudgetExact

(* The budget is shared without a lock, and for any goroutines, panes,      *)
(* kinds, limits and usages its counters are what open reservations and     *)
(* calls under way hold of them, within their limits, whatever calls        *)
(* overlap, are refused half way and undone: BInv is also an invariant of   *)
(* the steps of the other components, which leave the budget alone.         *)
THEOREM BudgetAlwaysExact == MCSpec => []BudgetExact
<1>1. MCInit => BInv BY BudgetBegins DEF MCInit
<1>2. BInv /\ [StoreStep \/ TerminalStep \/ BudgetStep \/ ParserStep]_allVars
      => BInv'
    <2>1. BInv /\ UNCHANGED budgetVars => BInv' BY DEF budgetVars, BInv
    <2>2. StoreStep \/ TerminalStep \/ ParserStep => UNCHANGED budgetVars
        BY DEF StoreStep, TerminalStep, ParserStep
    <2>3. BudgetStep => Budget!Next BY DEF BudgetStep
    <2>4. UNCHANGED allVars => UNCHANGED budgetVars BY DEF allVars
    <2> QED BY <2>1, <2>2, <2>3, <2>4, CountersStep
<1>3. BInv => BudgetExact BY BudgetFollows DEF BudgetExact
<1> QED BY <1>1, <1>2, <1>3, PTL DEF MCSpec

-----------------------------------------------------------------------------
(* Placements on their text (TerminalImages).                               *)
(* PInv adds to PlacementsKept that placements are records whose offsets    *)
(* lie in their rectangle, that IDs are unique, so that moving placements   *)
(* keeps their number, and that an anchor a decode still trusts is on the   *)
(* screen shown.  Every operation of the screen is a Redraws: some          *)
(* placements retire and each other one goes with its text (Carries); that  *)
(* it does is a fact about cells, of each operation by itself.              *)

(* A placement, whose cells are where their text is.                        *)
IsPlacement(p) ==
    /\ p \in [alternate : BOOLEAN, id : {p.id}, image : Terminal!ImageIDs, generation : {0, 1},
              row : Nat, col : Terminal!LiveCols, rows : Nat \ {0}, cols : Nat \ {0}, on : {p.on}]
    /\ DOMAIN p.on \subseteq (0 .. p.rows - 1) \X (0 .. p.cols - 1)
    /\ \A o \in DOMAIN p.on : p.on[o] = <<p.row + o[1], p.col + o[2]>>

(* A decode whose anchor has not moved.                                     *)
IsAnchored(j) ==
    /\ j \in [kind : {"kitty", "local"}, image : Terminal!ImageIDs, id : {j.id}, span : Spans,
              row : Nat, col : Terminal!LiveCols, alternate : BOOLEAN, on : {j.on},
              imageMoved : BOOLEAN, snapshotMoved : BOOLEAN]
    /\ j.on = <<j.row, j.col>>

ScreenTyped ==
    alternateScreen \in BOOLEAN /\ scrollbackRows \in Nat /\ scrollbackCapacity \in Nat
IdsUnique(placements) == \A p, q \in placements : p.id = q.id => p = q
(* A store holds what placements show.                                      *)
Backed(placements, store, count) ==
    /\ IsFiniteSet(placements) /\ IdsUnique(placements)
    /\ \A p \in placements : IsPlacement(p) /\ store[p.image] = p.generation
    /\ store \in [Terminal!ImageIDs -> {-1, 0, 1}]
    /\ \A i \in Local : store[i] # -1 => \E p \in placements : p.image = i
    /\ count = Cardinality(placements) /\ count <= PlacementLimit
NoneLeft(alternate, placements) ==
    alternate = FALSE => \A p \in placements : p.alternate = FALSE
JobFollows(j, alternate) ==
    j \in {Terminal!NoJob, Terminal!MovedJob} \/ (IsAnchored(j) /\ j.alternate = alternate)
PInv ==
    /\ ScreenTyped
    /\ Backed(sidecars, resources, reserved)
    /\ NoneLeft(alternateScreen, sidecars)
    /\ JobFollows(decode, alternateScreen)

(* Facts about the numbers of the terminal.                                 *)
LEMMA TerminalNumbers ==
    /\ Rows \in Nat /\ Rows > 0 /\ Cols \in Nat /\ Cols > 1 /\ PlacementLimit \in Nat
    /\ Capacities \subseteq Nat /\ Spans \subseteq (Nat \ {0}) \X (Nat \ {0})
    /\ Cursors \subseteq (0 .. Rows - 1) \X (0 .. Cols - 1)
    /\ \A i \in Local : i \notin Wire
BY PlacementAssumption DEF Terminal!TerminalBounds

(* The copy of Cardinality of the instance is that of the library.           *)
LEMMA SameCount == \A S : Terminal!Cardinality(S) = Cardinality(S)
  BY DEF Terminal!Cardinality, Cardinality

(* The lesser of two lengths.                                                *)
LEMMA MinOfTwo ==
    ASSUME NEW a \in Nat, NEW b \in Nat
    PROVE  Terminal!Min({a, b}) \in Nat /\ Terminal!Min({a, b}) <= a /\ Terminal!Min({a, b}) <= b
<1>1. \E x \in {a, b} : \A y \in {a, b} : x <= y OBVIOUS
<1>2. Terminal!Min({a, b}) \in {a, b} /\ \A y \in {a, b} : Terminal!Min({a, b}) <= y
    BY <1>1 DEF Terminal!Min
<1> QED BY <1>2

(* The same image, perhaps elsewhere.                                       *)
SameImage(p, q) ==
    /\ q.id = p.id /\ q.image = p.image
    /\ q.generation = p.generation /\ q.alternate = p.alternate

Carries(p, q) == IsPlacement(q) /\ SameImage(p, q)

(* p moves by r rows and c columns to m, and its text to "on".              *)
Follows(p, r, c, m, on) ==
    /\ r \in Int /\ c \in Int /\ p.row + r \in Nat /\ p.col + c \in Terminal!LiveCols
    /\ m = Terminal!Shifted(p, r, c) \/ (m = p /\ r = 0 /\ c = 0)
    /\ DOMAIN on = DOMAIN p.on
    /\ \A o \in DOMAIN p.on : on[o] = <<p.row + r + o[1], p.col + c + o[2]>>

(* A placement that moves with the text under it stays a placement.         *)
LEMMA PlacementFollows ==
    ASSUME NEW p, IsPlacement(p), NEW r, NEW c, NEW m, NEW on, Follows(p, r, c, m, on)
    PROVE  Carries(p, [m EXCEPT !.on = on])
<1> DEFINE q == [m EXCEPT !.on = on]
<1>0. /\ r \in Int /\ c \in Int /\ p.row + r \in Nat /\ p.col + c \in Terminal!LiveCols
      /\ DOMAIN on = DOMAIN p.on
      /\ \A o \in DOMAIN p.on : on[o] = <<p.row + r + o[1], p.col + c + o[2]>>
    BY Zenon DEF Follows
<1>1. /\ q.id = p.id /\ q.image = p.image
      /\ q.generation = p.generation /\ q.row = p.row + r /\ q.col = p.col + c
      /\ q.rows = p.rows /\ q.cols = p.cols /\ q.on = on
  <2>1. CASE m = p /\ r = 0 /\ c = 0
      BY <2>1, TerminalNumbers DEF IsPlacement, Terminal!LiveCols
  <2>2. CASE m = Terminal!Shifted(p, r, c)
      BY <2>2, <1>0 DEF Terminal!Shifted, IsPlacement
  <2> QED BY <2>1, <2>2, Zenon DEF Follows
<1>2. q.alternate = p.alternate /\ q.alternate \in BOOLEAN
  <2>1. CASE m = p
      BY <2>1, Zenon DEF IsPlacement
  <2>2. CASE m = Terminal!Shifted(p, r, c)
      BY <2>2, Zenon DEF IsPlacement, Terminal!Shifted
  <2> QED BY <2>1, <2>2, Zenon DEF Follows
<1>3. q \in [alternate : BOOLEAN, id : {q.id}, image : Terminal!ImageIDs, generation : {0, 1},
             row : Nat, col : Terminal!LiveCols, rows : Nat \ {0}, cols : Nat \ {0}, on : {q.on}]
    BY <1>0, <1>1, <1>2 DEF Follows, Terminal!Shifted, IsPlacement
<1> HIDE DEF q
<1>4. DOMAIN q.on \subseteq (0 .. q.rows - 1) \X (0 .. q.cols - 1)
    BY <1>0, <1>1, Zenon DEF IsPlacement
<1>5. \A o \in DOMAIN q.on : q.on[o] = <<q.row + o[1], q.col + o[2]>>
    BY <1>0, <1>1, Zenon
<1>6. IsPlacement(q) /\ SameImage(p, q)
    BY <1>1, <1>2, <1>3, <1>4, <1>5, Zenon DEF IsPlacement, SameImage
<1> QED BY <1>6 DEF q, Carries

(* What a mutation of one screen does to the placements: those of           *)
(* "retired" go, every other one becomes the placement at[p].               *)
Redraws(alternate, retired, at) ==
    /\ retired \subseteq Terminal!Side(alternate)
    /\ sidecars' = {at[p] : p \in sidecars \ retired}
    /\ \A p \in sidecars \ retired : Carries(p, at[p])
    /\ resources' = Terminal!Without(Terminal!FinalEphemeral(retired, sidecars'))
    /\ reserved' = reserved - Cardinality(retired)

(* ... and then the store still holds what placements show.                 *)
LEMMA RedrawsKeepBacked ==
    ASSUME Backed(sidecars, resources, reserved),
           NEW alternate, NEW retired, NEW at, Redraws(alternate, retired, at)
    PROVE  Backed(sidecars', resources', reserved')
<1> USE TerminalNumbers
<1> DEFINE kept == sidecars \ retired
<1> DEFINE final == Terminal!FinalEphemeral(retired, sidecars')
<1>1. /\ IsFiniteSet(sidecars) /\ IdsUnique(sidecars)
      /\ \A p \in sidecars : IsPlacement(p) /\ resources[p.image] = p.generation
      /\ resources \in [Terminal!ImageIDs -> {-1, 0, 1}]
      /\ \A i \in Local : resources[i] # -1 => \E p \in sidecars : p.image = i
      /\ reserved = Cardinality(sidecars) /\ reserved <= PlacementLimit
    BY Zenon DEF Backed
<1>2. /\ retired \subseteq sidecars
      /\ sidecars' = {at[p] : p \in kept}
      /\ \A p \in kept : IsPlacement(at[p]) /\ SameImage(p, at[p])
      /\ resources' = Terminal!Without(final)
      /\ reserved' = reserved - Cardinality(retired)
    BY Zenon DEF Redraws, Carries, Terminal!Side
<1> HIDE DEF kept, final
<1>3. IsFiniteSet(kept) /\ IsFiniteSet(retired)
      /\ Cardinality(kept) = Cardinality(sidecars) - Cardinality(retired)
      /\ Cardinality(retired) \in Nat /\ Cardinality(sidecars) \in Nat
  <2>1. IsFiniteSet(retired)
      BY <1>1, <1>2, FS_Subset, Zenon
  <2>2. IsFiniteSet(kept) /\ Cardinality(kept) = Cardinality(sidecars) - Cardinality(sidecars \cap retired)
      BY <1>1, FS_Difference, Zenon DEF kept
  <2>3. sidecars \cap retired = retired
      BY <1>2, Zenon
  <2> QED BY <1>1, <2>1, <2>2, <2>3, FS_CardinalityType, Zenon
<1>4. kept \subseteq sidecars
    BY Zenon DEF kept
<1>5. IsFiniteSet(sidecars') /\ Cardinality(sidecars') = Cardinality(kept)
  <2> DEFINE f == [p \in kept |-> at[p]]
  <2>1. f \in Bijection(kept, sidecars')
    <3>1. \A p, q \in kept : f[p] = f[q] => p = q
      <4> SUFFICES ASSUME NEW p \in kept, NEW q \in kept, f[p] = f[q] PROVE p = q
          OBVIOUS
      <4>1. at[p] = at[q]
          OBVIOUS
      <4> HIDE DEF f
      <4>2. p.id = q.id
          BY <4>1, <1>2, Zenon DEF SameImage
      <4> QED BY <4>2, <1>1, <1>4, Zenon DEF IdsUnique
    <3>2. f \in [kept -> sidecars']
        BY <1>2
    <3>3. \A s \in sidecars' : \E p \in kept : f[p] = s
        BY <1>2
    <3> HIDE DEF f
    <3> QED BY <3>1, <3>2, <3>3, Zenon DEF Bijection, Injection, Surjection, IsInjective
  <2> QED BY <2>1, <1>3, FS_Bijection, Zenon DEF ExistsBijection
<1>6. \A p, q \in sidecars' : p.id = q.id => p = q
  <2>0. SUFFICES \A p, q \in kept : at[p].id = at[q].id => at[p] = at[q]
      BY <1>2
  <2> SUFFICES ASSUME NEW p \in kept, NEW q \in kept, at[p].id = at[q].id PROVE at[p] = at[q]
      BY Zenon
  <2>1. p.id = q.id
      BY <1>2, Zenon DEF SameImage
  <2> QED BY <1>1, <1>4, <2>1, Zenon DEF IdsUnique
<1>7. resources' \in [Terminal!ImageIDs -> {-1, 0, 1}]
    BY <1>1, <1>2 DEF Terminal!Without
<1>8. \A p \in sidecars' : IsPlacement(p) /\ resources'[p.image] = p.generation
  <2> SUFFICES ASSUME NEW p \in kept
               PROVE  IsPlacement(at[p]) /\ resources'[at[p].image] = at[p].generation
      BY <1>2, Zenon
  <2>1. /\ IsPlacement(at[p]) /\ at[p].image = p.image /\ at[p].generation = p.generation
        /\ IsPlacement(p) /\ resources[p.image] = p.generation
      BY <1>1, <1>2, <1>4, Zenon DEF SameImage
  <2>2. Terminal!Ref(at[p]) \in Terminal!Refs(sidecars')
      BY <1>2, Zenon DEF Terminal!Refs
  <2>3. <<p.image, resources[p.image]>> = Terminal!Ref(at[p])
      BY <2>1, Zenon DEF Terminal!Ref
  <2>4. <<p.image, resources[p.image]>> \notin final
      BY <2>2, <2>3, Zenon DEF final, Terminal!FinalEphemeral
  <2>5. p.image \in Terminal!ImageIDs
      BY <2>1 DEF IsPlacement
  <2>6. resources'[p.image] = resources[p.image]
      BY <1>2, <2>4, <2>5, Zenon DEF Terminal!Without
  <2> QED BY <2>1, <2>6, Zenon
<1>9. ASSUME NEW i \in Local, resources'[i] # -1 PROVE \E p \in sidecars' : p.image = i
  <2>1. i \in Terminal!ImageIDs /\ ~Terminal!Durable(i)
      BY TerminalNumbers, Zenon DEF Terminal!ImageIDs, Terminal!Durable
  <2>2. <<i, resources[i]>> \notin final /\ resources[i] # -1
      BY <1>2, <1>9, <2>1, Zenon DEF Terminal!Without
  <2>3. PICK p \in sidecars : p.image = i
      BY <1>1, <2>2, Zenon
  <2>4. CASE p \in kept
      BY <1>2, <2>3, <2>4, Zenon DEF SameImage
  <2>5. CASE p \in retired
    <3>1. Terminal!Ref(p) = <<i, resources[i]>>
        BY <1>1, <2>3, Zenon DEF Terminal!Ref
    <3>2. Terminal!Ref(p) \in Terminal!Refs(retired)
        BY <2>5, Zenon DEF Terminal!Refs
    <3>3. Terminal!Ref(p)[1] = i /\ Terminal!Ref(p)[2] = resources[i]
        BY <3>1
    <3>4. Terminal!Ref(p) \in Terminal!Refs(sidecars')
        BY <2>1, <2>2, <3>1, <3>2, <3>3, Zenon DEF final, Terminal!FinalEphemeral
    <3>5. PICK q \in kept : Terminal!Ref(p) = Terminal!Ref(at[q])
        BY <1>2, <3>4, Zenon DEF Terminal!Refs
    <3>6. at[q].image = i
        BY <3>3, <3>5 DEF Terminal!Ref
    <3> QED BY <1>2, <3>6, Zenon
  <2> QED BY <2>3, <2>4, <2>5, Zenon DEF kept
<1>10. reserved' = Cardinality(sidecars') /\ reserved' <= PlacementLimit
    BY <1>1, <1>2, <1>3, <1>5
<1> QED BY <1>5, <1>6, <1>7, <1>8, <1>9, <1>10, Zenon DEF Backed, IdsUnique

-----------------------------------------------------------------------------
(* Where the operations of the screen put the cells of a placement they     *)
(* keep: each cell moves as far as the placement.                           *)
LEMMA CellOfPlacement ==
    ASSUME NEW p, IsPlacement(p), NEW o \in DOMAIN p.on
    PROVE  /\ o[1] \in 0 .. p.rows - 1 /\ o[2] \in 0 .. p.cols - 1
           /\ p.on[o] = <<p.row + o[1], p.col + o[2]>>
           /\ p.on[o] # Terminal!Gone
           /\ p.row \in Nat /\ p.col \in Terminal!LiveCols /\ p.col \in Nat /\ p.col < Cols
           /\ p.rows \in Nat /\ p.rows > 0 /\ p.cols \in Nat /\ p.cols > 0
<1>1. /\ p.row \in Nat /\ p.col \in Terminal!LiveCols /\ p.rows \in Nat \ {0} /\ p.cols \in Nat \ {0}
    BY DEF IsPlacement
<1>2. o \in (0 .. p.rows - 1) \X (0 .. p.cols - 1)
    BY Zenon DEF IsPlacement
<1>3. o[1] \in 0 .. p.rows - 1 /\ o[2] \in 0 .. p.cols - 1
    BY <1>2
<1>4. p.on[o] = <<p.row + o[1], p.col + o[2]>>
    BY Zenon DEF IsPlacement
<1>5. p.on[o] # Terminal!Gone
    BY <1>1, <1>3, <1>4 DEF Terminal!Gone
<1> QED BY <1>1, <1>3, <1>4, <1>5, TerminalNumbers DEF Terminal!LiveCols

(* A placement the rows top .. bottom do not touch.                         *)
Outside(p, top, bottom) == p.row + p.rows <= Terminal!Base + top \/ p.row >= Terminal!Base + bottom + 1

(* Where a scroll puts a cell of a placement it keeps.                       *)
LEMMA ScrolledUpCell ==
    ASSUME NEW p, IsPlacement(p), NEW o \in DOMAIN p.on, Terminal!Base \in Nat,
           NEW top \in Nat, NEW bottom \in Nat, NEW lines \in Nat,
           Outside(p, top, bottom)
             \/ (p.row >= Terminal!Base + top + lines /\ p.row + p.rows <= Terminal!Base + bottom + 1)
    PROVE  Terminal!CellScrolledUp(p.on[o], top, bottom, lines) =
             IF Outside(p, top, bottom) THEN p.on[o]
             ELSE <<p.row + (-lines) + o[1], p.col + o[2]>>
<1> DEFINE a == p.row + o[1]
           b == p.col + o[2]
<1>1. /\ o[1] \in 0 .. p.rows - 1 /\ o[2] \in 0 .. p.cols - 1
      /\ p.on[o] = <<a, b>>
      /\ p.row \in Nat /\ p.col \in Nat /\ p.rows \in Nat /\ p.cols \in Nat
    BY CellOfPlacement, Zenon
<1>2. Terminal!CellScrolledUp(<<a, b>>, top, bottom, lines) =
        IF a - Terminal!Base \notin top .. bottom THEN <<a, b>>
        ELSE IF a - Terminal!Base < top + lines THEN Terminal!Gone ELSE <<a - lines, b>>
    BY DEF Terminal!CellScrolledUp
<1>3. CASE Outside(p, top, bottom)
  <2>1. a - Terminal!Base \notin top .. bottom
      BY <1>1, <1>3 DEF Outside
  <2> QED BY <1>1, <1>2, <1>3, <2>1, Zenon
<1>4. CASE ~Outside(p, top, bottom)
  <2>1. ~(a - Terminal!Base \notin top .. bottom) /\ ~(a - Terminal!Base < top + lines)
      BY <1>1, <1>4 DEF Outside
  <2>2. a - lines = p.row + (-lines) + o[1]
      BY <1>1
  <2> QED BY <1>1, <1>2, <1>4, <2>1, <2>2, Zenon
<1> QED BY <1>3, <1>4

LEMMA ScrolledDownCell ==
    ASSUME NEW p, IsPlacement(p), NEW o \in DOMAIN p.on, Terminal!Base \in Nat,
           NEW top \in Nat, NEW bottom \in Nat, NEW lines \in Nat,
           Outside(p, top, bottom)
             \/ (p.row >= Terminal!Base + top /\ p.row + p.rows <= Terminal!Base + bottom - lines + 1)
    PROVE  Terminal!CellScrolledDown(p.on[o], top, bottom, lines) =
             IF Outside(p, top, bottom) THEN p.on[o]
             ELSE <<p.row + lines + o[1], p.col + o[2]>>
<1> DEFINE a == p.row + o[1]
           b == p.col + o[2]
<1>1. /\ o[1] \in 0 .. p.rows - 1 /\ o[2] \in 0 .. p.cols - 1
      /\ p.on[o] = <<a, b>>
      /\ p.row \in Nat /\ p.col \in Nat /\ p.rows \in Nat /\ p.cols \in Nat
    BY CellOfPlacement, Zenon
<1>2. Terminal!CellScrolledDown(<<a, b>>, top, bottom, lines) =
        IF a - Terminal!Base \notin top .. bottom THEN <<a, b>>
        ELSE IF a - Terminal!Base > bottom - lines THEN Terminal!Gone ELSE <<a + lines, b>>
    BY DEF Terminal!CellScrolledDown
<1>3. CASE Outside(p, top, bottom)
  <2>1. a - Terminal!Base \notin top .. bottom
      BY <1>1, <1>3 DEF Outside
  <2> QED BY <1>1, <1>2, <1>3, <2>1, Zenon
<1>4. CASE ~Outside(p, top, bottom)
  <2>1. ~(a - Terminal!Base \notin top .. bottom) /\ ~(a - Terminal!Base > bottom - lines)
      BY <1>1, <1>4 DEF Outside
  <2>2. a + lines = p.row + lines + o[1]
      BY <1>1
  <2> QED BY <1>1, <1>2, <1>4, <2>1, <2>2, Zenon
<1> QED BY <1>3, <1>4

-----------------------------------------------------------------------------
(* After an operation that moves or retires placements no anchor captured   *)
(* before it is trusted.                                                    *)
LEMMA RedrawsKeepPictures ==
    ASSUME PInv, ScreenTyped', NEW alternate, NEW retired, NEW at,
           Redraws(alternate, retired, at), JobFollows(decode', alternateScreen'),
           NoneLeft(alternateScreen', sidecars \ retired)
    PROVE  PInv'
<1>1. Backed(sidecars', resources', reserved')
    BY RedrawsKeepBacked, Zenon DEF PInv
<1>2. NoneLeft(alternateScreen', sidecars')
    BY Zenon DEF Redraws, Carries, SameImage, NoneLeft
<1> QED BY <1>1, <1>2, Zenon DEF PInv

(* What retires only helps.                                                  *)
LEMMA NoneLeftOfSubset ==
    ASSUME PInv, NEW retired
    PROVE  NoneLeft(alternateScreen, sidecars \ retired)
BY Zenon DEF PInv, NoneLeft

(* An anchor that is not trusted has nothing to follow.                      *)
LEMMA MovedFollows ==
    ASSUME decode' \in {Terminal!NoJob, Terminal!MovedJob}, NEW alternate
    PROVE  JobFollows(decode', alternate)
BY Zenon DEF JobFollows

(* The rows above the screen, and placements, by themselves.                 *)
LEMMA PicturesTyped ==
    ASSUME PInv
    PROVE  Terminal!Base \in Nat /\ \A p \in sidecars : IsPlacement(p)
BY DEF PInv, ScreenTyped, Terminal!Base, Backed

(* After invalidateImageCursorAnchors there is no anchor left.               *)
LEMMA AnchorsMovedTwoWays ==
    ASSUME NEW j PROVE Terminal!AnchorsMoved(j) \in {Terminal!NoJob, Terminal!MovedJob}
BY Zenon DEF Terminal!AnchorsMoved

(* A shift leaves the memory of the text to Carry.                           *)
LEMMA ShiftedOn ==
    ASSUME NEW p, IsPlacement(p), NEW r, NEW c, NEW m, m = p \/ m = Terminal!Shifted(p, r, c)
    PROVE  m.on = p.on
BY DEF Terminal!Shifted, IsPlacement

(* A placement in rows that a scroll moves by "delta".                      *)
LEMMA FollowsInRows ==
    ASSUME NEW p, IsPlacement(p), NEW top, NEW bottom, NEW delta \in Int,
           NEW on, DOMAIN on = DOMAIN p.on,
           ~Outside(p, top, bottom) => p.row + delta >= 0,
           \A o \in DOMAIN p.on :
             on[o] = IF Outside(p, top, bottom) THEN p.on[o]
                     ELSE <<p.row + delta + o[1], p.col + o[2]>>
    PROVE  Carries(p, [Terminal!MovedInRows(p, top, bottom, delta) EXCEPT !.on = on])
<1>0. p.row \in Nat /\ p.col \in Terminal!LiveCols /\ p.col \in Nat
    BY DEF IsPlacement, Terminal!LiveCols
<1> DEFINE m == Terminal!MovedInRows(p, top, bottom, delta)
<1>1. m = IF Outside(p, top, bottom) THEN p ELSE Terminal!Shifted(p, delta, 0)
    BY Zenon DEF Terminal!MovedInRows, Terminal!PlacementRect, Terminal!Rect, Outside
<1> HIDE DEF m
<1>2. CASE Outside(p, top, bottom)
  <2>1. \A o \in DOMAIN p.on : on[o] = <<p.row + 0 + o[1], p.col + 0 + o[2]>>
    <3> SUFFICES ASSUME NEW o \in DOMAIN p.on PROVE on[o] = <<p.row + 0 + o[1], p.col + 0 + o[2]>>
        OBVIOUS
    <3>1. on[o] = <<p.row + o[1], p.col + o[2]>>
        BY <1>2, Zenon DEF IsPlacement
    <3>2. p.row + 0 = p.row /\ p.col + 0 = p.col
        BY <1>0
    <3> QED BY <3>1, <3>2, Zenon
  <2>2. Follows(p, 0, 0, m, on)
      BY <1>0, <1>1, <1>2, <2>1 DEF Follows
  <2> QED BY <2>2, PlacementFollows, Zenon DEF m
<1>3. CASE ~Outside(p, top, bottom)
  <2>1. p.col + 0 = p.col /\ p.row + delta \in Nat
      BY <1>0, <1>3
  <2>2. Follows(p, delta, 0, m, on)
      BY <1>0, <1>1, <1>3, <2>1 DEF Follows
  <2> QED BY <2>2, PlacementFollows, Zenon DEF m
<1> QED BY <1>2, <1>3

(* Images in the rows that scroll go with them; those that overlap them retire. *)
LEMMA ScrollUpRegionStep ==
    ASSUME PInv, NEW top \in Nat, NEW bottom \in Nat, NEW lines \in Nat,
           Terminal!ScrollUpRegion(top, bottom, lines)
    PROVE  PInv'
<1> DEFINE Keep(p) == Terminal!KeptInRows(p, top, bottom, top + lines, bottom)
           Moved(p) == Terminal!MovedInRows(p, top, bottom, -lines)
           Carry(cell) == Terminal!CellScrolledUp(cell, top, bottom, lines)
           retired == {p \in Terminal!Side(alternateScreen) : ~Keep(p)}
           on(m) == [o \in DOMAIN m.on |-> IF m.on[o] = Terminal!Gone THEN Terminal!Gone ELSE Carry(m.on[o])]
           Q(p) == IF p.alternate = alternateScreen
                   THEN [Moved(p) EXCEPT !.on = on(Moved(p))] ELSE p
           at == [p \in sidecars |-> Q(p)]
<1>1. Terminal!Mutate(alternateScreen, Keep, Moved, Carry, FALSE) /\ UNCHANGED Terminal!screenVars
    BY Zenon DEF Terminal!ScrollUpRegion
<1>2. sidecars' = {Q(p) : p \in sidecars \ retired}
    BY <1>1, Zenon DEF Terminal!Mutate, Terminal!Placed, Terminal!Carried
<1>3. /\ resources' = Terminal!Without(Terminal!FinalEphemeral(retired, sidecars'))
      /\ reserved' = reserved - Cardinality(retired)
      /\ decode' \in {Terminal!NoJob, Terminal!MovedJob}
    BY <1>1, AnchorsMovedTwoWays, SameCount, Zenon DEF Terminal!Mutate
<1>4. ASSUME NEW p \in sidecars \ retired PROVE Carries(p, Q(p))
  <2>0. IsPlacement(p) /\ Terminal!Base \in Nat
      BY PicturesTyped, Zenon
  <2>1. CASE p.alternate # alternateScreen
      BY <2>0, <2>1, Zenon DEF Carries, SameImage
  <2>2. CASE p.alternate = alternateScreen
    <3>1. Keep(p)
        BY <2>2, Zenon DEF Terminal!Side
    <3>2. Outside(p, top, bottom)
            \/ (p.row >= Terminal!Base + top + lines /\ p.row + p.rows <= Terminal!Base + bottom + 1)
        BY <3>1, <2>0 DEF Terminal!KeptInRows, Terminal!PlacementRect, Terminal!Rect, Outside, IsPlacement
    <3>3. Moved(p).on = p.on
        BY <2>0, ShiftedOn, Zenon DEF Terminal!MovedInRows
    <3>4. ASSUME NEW o \in DOMAIN p.on
          PROVE  on(Moved(p))[o] = Carry(p.on[o])
        BY <3>3, <2>0, CellOfPlacement, Zenon
    <3>5. DOMAIN on(Moved(p)) = DOMAIN p.on
        BY <3>3, Zenon
    <3> HIDE DEF on, Moved, retired
    <3>6. ASSUME NEW o \in DOMAIN p.on
          PROVE  on(Moved(p))[o] = IF Outside(p, top, bottom) THEN p.on[o]
                                   ELSE <<p.row + (-lines) + o[1], p.col + o[2]>>
      <4>1. Carry(p.on[o]) = IF Outside(p, top, bottom) THEN p.on[o]
                              ELSE <<p.row + (-lines) + o[1], p.col + o[2]>>
          BY <3>2, <2>0, ScrolledUpCell
      <4> HIDE DEF Carry
      <4> QED BY <3>4, <4>1, Zenon
    <3>7. -lines \in Int /\ (~Outside(p, top, bottom) => p.row + (-lines) >= 0)
        BY <3>2, <2>0 DEF IsPlacement
    <3>8. Carries(p, [Terminal!MovedInRows(p, top, bottom, -lines) EXCEPT !.on = on(Moved(p))])
        BY <3>5, <3>6, <3>7, <2>0, FollowsInRows, Zenon
    <3> QED BY <3>8, <2>2, Zenon DEF Moved
  <2> QED BY <2>1, <2>2, Zenon
<1>5. Redraws(alternateScreen, retired, at)
  <2>1. sidecars' = {at[p] : p \in sidecars \ retired}
      BY <1>2
  <2>2. \A p \in sidecars \ retired : Carries(p, at[p])
      BY <1>4
  <2>3. retired \subseteq Terminal!Side(alternateScreen)
      OBVIOUS
  <2> HIDE DEF at, retired
  <2> QED BY <1>3, <2>1, <2>2, <2>3, Zenon DEF Redraws
<1>6. ScreenTyped' /\ alternateScreen' = alternateScreen
    BY <1>1, Zenon DEF Terminal!screenVars, PInv, ScreenTyped
<1> HIDE DEF at, retired
<1> QED BY <1>3, <1>5, <1>6, MovedFollows, RedrawsKeepPictures, NoneLeftOfSubset, Zenon

LEMMA ScrollDownRegionStep ==
    ASSUME PInv, NEW top \in Nat, NEW bottom \in Nat, NEW lines \in Nat,
           Terminal!ScrollDownRegion(top, bottom, lines)
    PROVE  PInv'
<1> DEFINE Keep(p) == Terminal!KeptInRows(p, top, bottom, top, bottom - lines)
           Moved(p) == Terminal!MovedInRows(p, top, bottom, lines)
           Carry(cell) == Terminal!CellScrolledDown(cell, top, bottom, lines)
           retired == {p \in Terminal!Side(alternateScreen) : ~Keep(p)}
           on(m) == [o \in DOMAIN m.on |-> IF m.on[o] = Terminal!Gone THEN Terminal!Gone ELSE Carry(m.on[o])]
           Q(p) == IF p.alternate = alternateScreen
                   THEN [Moved(p) EXCEPT !.on = on(Moved(p))] ELSE p
           at == [p \in sidecars |-> Q(p)]
<1>1. Terminal!Mutate(alternateScreen, Keep, Moved, Carry, FALSE) /\ UNCHANGED Terminal!screenVars
    BY Zenon DEF Terminal!ScrollDownRegion
<1>2. sidecars' = {Q(p) : p \in sidecars \ retired}
    BY <1>1, Zenon DEF Terminal!Mutate, Terminal!Placed, Terminal!Carried
<1>3. /\ resources' = Terminal!Without(Terminal!FinalEphemeral(retired, sidecars'))
      /\ reserved' = reserved - Cardinality(retired)
      /\ decode' \in {Terminal!NoJob, Terminal!MovedJob}
    BY <1>1, AnchorsMovedTwoWays, SameCount, Zenon DEF Terminal!Mutate
<1>4. ASSUME NEW p \in sidecars \ retired PROVE Carries(p, Q(p))
  <2>0. IsPlacement(p) /\ Terminal!Base \in Nat
      BY PicturesTyped, Zenon
  <2>1. CASE p.alternate # alternateScreen
      BY <2>0, <2>1, Zenon DEF Carries, SameImage
  <2>2. CASE p.alternate = alternateScreen
    <3>1. Keep(p)
        BY <2>2, Zenon DEF Terminal!Side
    <3>2. Outside(p, top, bottom)
            \/ (p.row >= Terminal!Base + top /\ p.row + p.rows <= Terminal!Base + bottom - lines + 1)
        BY <3>1, <2>0 DEF Terminal!KeptInRows, Terminal!PlacementRect, Terminal!Rect, Outside, IsPlacement
    <3>3. Moved(p).on = p.on
        BY <2>0, ShiftedOn, Zenon DEF Terminal!MovedInRows
    <3>4. ASSUME NEW o \in DOMAIN p.on
          PROVE  on(Moved(p))[o] = Carry(p.on[o])
        BY <3>3, <2>0, CellOfPlacement, Zenon
    <3>5. DOMAIN on(Moved(p)) = DOMAIN p.on
        BY <3>3, Zenon
    <3> HIDE DEF on, Moved, retired
    <3>6. ASSUME NEW o \in DOMAIN p.on
          PROVE  on(Moved(p))[o] = IF Outside(p, top, bottom) THEN p.on[o]
                                   ELSE <<p.row + lines + o[1], p.col + o[2]>>
      <4>1. Carry(p.on[o]) = IF Outside(p, top, bottom) THEN p.on[o]
                              ELSE <<p.row + lines + o[1], p.col + o[2]>>
          BY <3>2, <2>0, ScrolledDownCell
      <4> HIDE DEF Carry
      <4> QED BY <3>4, <4>1, Zenon
    <3>7. lines \in Int /\ (~Outside(p, top, bottom) => p.row + lines >= 0)
        BY <3>2, <2>0 DEF IsPlacement
    <3>8. Carries(p, [Terminal!MovedInRows(p, top, bottom, lines) EXCEPT !.on = on(Moved(p))])
        BY <3>5, <3>6, <3>7, <2>0, FollowsInRows, Zenon
    <3> QED BY <3>8, <2>2, Zenon DEF Moved
  <2> QED BY <2>1, <2>2, Zenon
<1>5. Redraws(alternateScreen, retired, at)
  <2>1. sidecars' = {at[p] : p \in sidecars \ retired}
      BY <1>2
  <2>2. \A p \in sidecars \ retired : Carries(p, at[p])
      BY <1>4
  <2>3. retired \subseteq Terminal!Side(alternateScreen)
      OBVIOUS
  <2> HIDE DEF at, retired
  <2> QED BY <1>3, <2>1, <2>2, <2>3, Zenon DEF Redraws
<1>6. ScreenTyped' /\ alternateScreen' = alternateScreen
    BY <1>1, Zenon DEF Terminal!screenVars, PInv, ScreenTyped
<1> HIDE DEF at, retired
<1> QED BY <1>3, <1>5, <1>6, MovedFollows, RedrawsKeepPictures, NoneLeftOfSubset, Zenon

(* A placement that stays, with its text.                                    *)
LEMMA FollowsInPlace ==
    ASSUME NEW p, IsPlacement(p), NEW on, DOMAIN on = DOMAIN p.on,
           \A o \in DOMAIN p.on : on[o] = <<p.row + 0 + o[1], p.col + 0 + o[2]>>
    PROVE  Carries(p, [p EXCEPT !.on = on])
<1>1. p.row + 0 \in Nat /\ p.col + 0 \in Terminal!LiveCols /\ 0 \in Int
    BY TerminalNumbers DEF IsPlacement, Terminal!LiveCols
<1>2. Follows(p, 0, 0, p, on)
    BY <1>1, Zenon DEF Follows
<1> QED BY <1>2, PlacementFollows, Zenon

(* Erasing leaves the cells of the placements it does not meet.              *)
LEMMA ErasedCell ==
    ASSUME NEW p, IsPlacement(p),
           NEW rect \in [top : Nat, bottom : Nat, left : Nat, right : Nat],
           ~Terminal!Intersect(Terminal!PlacementRect(p), rect)
    PROVE  \A o \in DOMAIN p.on :
             Terminal!CellErased(p.on[o], rect) = <<p.row + 0 + o[1], p.col + 0 + o[2]>>
<1> SUFFICES ASSUME NEW o \in DOMAIN p.on
             PROVE  Terminal!CellErased(p.on[o], rect) = <<p.row + 0 + o[1], p.col + 0 + o[2]>>
    OBVIOUS
<1> DEFINE a == p.row + o[1]
           b == p.col + o[2]
<1>1. /\ o[1] \in 0 .. p.rows - 1 /\ o[2] \in 0 .. p.cols - 1
      /\ p.on[o] = <<a, b>>
      /\ p.row \in Nat /\ p.col \in Nat /\ p.rows \in Nat /\ p.cols \in Nat
    BY CellOfPlacement, Zenon
<1>2. ~(/\ a >= rect.top /\ a + 1 <= rect.bottom
        /\ b >= rect.left /\ b + 1 <= rect.right)
    BY <1>1 DEF Terminal!Intersect, Terminal!PlacementRect, Terminal!Rect
<1>3. ~Terminal!Contains(rect, Terminal!Rect(a, a + 1, b, b + 1))
    BY <1>2 DEF Terminal!Contains, Terminal!Rect
<1>4. <<a, b>>[1] = a /\ <<a, b>>[2] = b
    OBVIOUS
<1>5. a = p.row + 0 + o[1] /\ b = p.col + 0 + o[2]
    BY <1>1
<1> HIDE DEF a, b
<1> QED BY <1>1, <1>3, <1>4, <1>5, Zenon DEF Terminal!CellErased

LEMMA EraseStep ==
    ASSUME PInv, NEW top \in Nat, NEW bottom \in Nat, NEW left \in Nat, NEW right \in Nat,
           Terminal!Erase(top, bottom, left, right)
    PROVE  PInv'
<1> DEFINE rect == Terminal!Rect(Terminal!Base + top, Terminal!Base + bottom, left, right)
           Keep(p) == ~Terminal!Intersect(Terminal!PlacementRect(p), rect)
           Carry(cell) == Terminal!CellErased(cell, rect)
           retired == {p \in Terminal!Side(alternateScreen) : ~Keep(p)}
           on(m) == [o \in DOMAIN m.on |-> IF m.on[o] = Terminal!Gone THEN Terminal!Gone ELSE Carry(m.on[o])]
           Q(p) == IF p.alternate = alternateScreen THEN [p EXCEPT !.on = on(p)] ELSE p
           at == [p \in sidecars |-> Q(p)]
<1>1. Terminal!Mutate(alternateScreen, Keep, Terminal!Stay, Carry, FALSE) /\ UNCHANGED Terminal!screenVars
    BY Zenon DEF Terminal!Erase
<1>2. sidecars' = {Q(p) : p \in sidecars \ retired}
    BY <1>1, Zenon DEF Terminal!Mutate, Terminal!Placed, Terminal!Carried, Terminal!Stay
<1>3. /\ resources' = Terminal!Without(Terminal!FinalEphemeral(retired, sidecars'))
      /\ reserved' = reserved - Cardinality(retired)
      /\ decode' \in {Terminal!NoJob, Terminal!MovedJob}
    BY <1>1, AnchorsMovedTwoWays, SameCount, Zenon DEF Terminal!Mutate
<1>4. ASSUME NEW p \in sidecars \ retired PROVE Carries(p, Q(p))
  <2>0. IsPlacement(p) /\ Terminal!Base \in Nat
      BY PicturesTyped, Zenon
  <2>1. CASE p.alternate # alternateScreen
      BY <2>0, <2>1, Zenon DEF Carries, SameImage
  <2>2. CASE p.alternate = alternateScreen
    <3>1. Keep(p)
        BY <2>2, Zenon DEF Terminal!Side
    <3>2. ASSUME NEW o \in DOMAIN p.on
          PROVE  on(p)[o] = Carry(p.on[o])
        BY <2>0, CellOfPlacement, Zenon
    <3> HIDE DEF on
    <3>3. ASSUME NEW o \in DOMAIN p.on
          PROVE  on(p)[o] = <<p.row + 0 + o[1], p.col + 0 + o[2]>>
      <4>1. rect \in [top : Nat, bottom : Nat, left : Nat, right : Nat]
          BY <2>0 DEF Terminal!Rect
      <4> HIDE DEF rect
      <4>2. Carry(p.on[o]) = <<p.row + 0 + o[1], p.col + 0 + o[2]>>
          BY <3>1, <4>1, <2>0, ErasedCell, Zenon
      <4> QED BY <4>2, <3>2, Zenon
    <3>4. DOMAIN on(p) = DOMAIN p.on
        BY Zenon DEF on
    <3>5. Carries(p, [p EXCEPT !.on = on(p)])
        BY <3>3, <3>4, <2>0, FollowsInPlace, Zenon
    <3> QED BY <3>5, <2>2, Zenon
  <2> QED BY <2>1, <2>2, Zenon
<1>5. Redraws(alternateScreen, retired, at)
  <2>1. sidecars' = {at[p] : p \in sidecars \ retired}
      BY <1>2
  <2>2. \A p \in sidecars \ retired : Carries(p, at[p])
      BY <1>4
  <2>3. retired \subseteq Terminal!Side(alternateScreen)
      OBVIOUS
  <2> HIDE DEF at, retired
  <2> QED BY <1>3, <2>1, <2>2, <2>3, Zenon DEF Redraws
<1>6. ScreenTyped' /\ alternateScreen' = alternateScreen
    BY <1>1, Zenon DEF Terminal!screenVars, PInv, ScreenTyped
<1> HIDE DEF at, retired
<1> QED BY <1>3, <1>5, <1>6, MovedFollows, RedrawsKeepPictures, NoneLeftOfSubset, Zenon

(* An insertion leaves alone what lies outside the rest of its row ...       *)
LEMMA NotInsertedCell ==
    ASSUME NEW p, IsPlacement(p), NEW line \in Nat, NEW col \in Nat, NEW n \in Nat,
           ~Terminal!Intersect(Terminal!PlacementRect(p), Terminal!Rect(line, line + 1, col, Cols)),
           NEW o \in DOMAIN p.on
    PROVE  Terminal!CellInserted(p.on[o], line, col, n) = <<p.row + 0 + o[1], p.col + 0 + o[2]>>
<1>0. /\ p.row \in Nat /\ p.col \in Nat /\ p.col < Cols /\ Cols \in Nat
      /\ p.rows \in Nat /\ p.rows > 0 /\ p.cols \in Nat /\ p.cols > 0
    BY TerminalNumbers DEF IsPlacement, Terminal!LiveCols
<1>1. ASSUME NEW a \in Nat, NEW b \in Nat
      PROVE  Terminal!CellInserted(<<a, b>>, line, col, n) =
               IF a # line \/ b < col THEN <<a, b>>
               ELSE IF b >= Cols - n THEN Terminal!Gone ELSE <<line, b + n>>
    BY DEF Terminal!CellInserted
<1> DEFINE a == p.row + o[1]
           b == p.col + o[2]
<1>2. /\ o[1] \in 0 .. p.rows - 1 /\ o[2] \in 0 .. p.cols - 1
      /\ p.on[o] = <<a, b>>
    BY CellOfPlacement, Zenon
<1>3. a \in Nat /\ b \in Nat /\ (a # line \/ b < col)
    BY <1>0, <1>2 DEF Terminal!Intersect, Terminal!PlacementRect, Terminal!Rect
<1>4. a = p.row + 0 + o[1] /\ b = p.col + 0 + o[2]
    BY <1>0, <1>2
<1> HIDE DEF a, b
<1> QED BY <1>1, <1>2, <1>3, <1>4, Zenon

(* ... and moves to the right what lies in the part of it that stays.        *)
LEMMA InsertedCell ==
    ASSUME NEW p, IsPlacement(p), NEW line \in Nat, NEW col \in Nat, NEW n \in Nat,
           Terminal!Contains(Terminal!Rect(line, line + 1, col, Cols - n), Terminal!PlacementRect(p))
    PROVE  /\ p.col + n \in Terminal!LiveCols
           /\ \A o \in DOMAIN p.on :
                Terminal!CellInserted(p.on[o], line, col, n) = <<p.row + 0 + o[1], p.col + n + o[2]>>
<1>0. /\ p.row \in Nat /\ p.col \in Nat /\ p.col < Cols /\ Cols \in Nat
      /\ p.rows \in Nat /\ p.rows > 0 /\ p.cols \in Nat /\ p.cols > 0
    BY TerminalNumbers DEF IsPlacement, Terminal!LiveCols
<1>1. ASSUME NEW a \in Nat, NEW b \in Nat
      PROVE  Terminal!CellInserted(<<a, b>>, line, col, n) =
               IF a # line \/ b < col THEN <<a, b>>
               ELSE IF b >= Cols - n THEN Terminal!Gone ELSE <<line, b + n>>
    BY DEF Terminal!CellInserted
<1>2. /\ p.row >= line /\ p.row + p.rows <= line + 1
      /\ p.col >= col /\ p.col + n >= col /\ p.col + n + p.cols <= Cols
    BY <1>0 DEF Terminal!Contains, Terminal!PlacementRect, Terminal!Rect
<1>3. p.col + n \in Terminal!LiveCols
    BY <1>0, <1>2, TerminalNumbers DEF Terminal!LiveCols
<1> SUFFICES ASSUME NEW o \in DOMAIN p.on
             PROVE  Terminal!CellInserted(p.on[o], line, col, n) = <<p.row + 0 + o[1], p.col + n + o[2]>>
    BY <1>3
<1> DEFINE a == p.row + o[1]
           b == p.col + o[2]
<1>4. /\ o[1] \in 0 .. p.rows - 1 /\ o[2] \in 0 .. p.cols - 1
      /\ p.on[o] = <<a, b>>
    BY CellOfPlacement, Zenon
<1>5. a \in Nat /\ b \in Nat /\ ~(a # line \/ b < col) /\ ~(b >= Cols - n)
    BY <1>0, <1>2, <1>4
<1>6. line = p.row + 0 + o[1] /\ b + n = p.col + n + o[2]
    BY <1>0, <1>4, <1>5
<1>7. Terminal!CellInserted(<<a, b>>, line, col, n) = <<line, b + n>>
  <2> HIDE DEF a, b
  <2> QED BY <1>1, <1>5, Zenon
<1> HIDE DEF a, b
<1> QED BY <1>4, <1>6, <1>7, Zenon

(* The same of a deletion, which moves it to the left.                       *)
LEMMA NotDeletedCell ==
    ASSUME NEW p, IsPlacement(p), NEW line \in Nat, NEW col \in Nat, NEW n \in Nat,
           ~Terminal!Intersect(Terminal!PlacementRect(p), Terminal!Rect(line, line + 1, col, Cols)),
           NEW o \in DOMAIN p.on
    PROVE  Terminal!CellDeleted(p.on[o], line, col, n) = <<p.row + 0 + o[1], p.col + 0 + o[2]>>
<1>0. /\ p.row \in Nat /\ p.col \in Nat /\ p.col < Cols /\ Cols \in Nat
      /\ p.rows \in Nat /\ p.rows > 0 /\ p.cols \in Nat /\ p.cols > 0
    BY TerminalNumbers DEF IsPlacement, Terminal!LiveCols
<1>1. ASSUME NEW a \in Nat, NEW b \in Nat
      PROVE  Terminal!CellDeleted(<<a, b>>, line, col, n) =
               IF a # line \/ b < col THEN <<a, b>>
               ELSE IF b < col + n THEN Terminal!Gone ELSE <<line, b + (-n)>>
    BY DEF Terminal!CellDeleted
<1> DEFINE a == p.row + o[1]
           b == p.col + o[2]
<1>2. /\ o[1] \in 0 .. p.rows - 1 /\ o[2] \in 0 .. p.cols - 1
      /\ p.on[o] = <<a, b>>
    BY CellOfPlacement, Zenon
<1>3. a \in Nat /\ b \in Nat /\ (a # line \/ b < col)
    BY <1>0, <1>2 DEF Terminal!Intersect, Terminal!PlacementRect, Terminal!Rect
<1>4. a = p.row + 0 + o[1] /\ b = p.col + 0 + o[2]
    BY <1>0, <1>2
<1> HIDE DEF a, b
<1> QED BY <1>1, <1>2, <1>3, <1>4, Zenon

LEMMA DeletedCell ==
    ASSUME NEW p, IsPlacement(p), NEW line \in Nat, NEW col \in Nat, NEW n \in Nat,
           Terminal!Contains(Terminal!Rect(line, line + 1, col + n, Cols), Terminal!PlacementRect(p))
    PROVE  /\ p.col + (-n) \in Terminal!LiveCols
           /\ \A o \in DOMAIN p.on :
                Terminal!CellDeleted(p.on[o], line, col, n) = <<p.row + 0 + o[1], p.col + (-n) + o[2]>>
<1>0. /\ p.row \in Nat /\ p.col \in Nat /\ p.col < Cols /\ Cols \in Nat
      /\ p.rows \in Nat /\ p.rows > 0 /\ p.cols \in Nat /\ p.cols > 0
    BY TerminalNumbers DEF IsPlacement, Terminal!LiveCols
<1>1. ASSUME NEW a \in Nat, NEW b \in Nat
      PROVE  Terminal!CellDeleted(<<a, b>>, line, col, n) =
               IF a # line \/ b < col THEN <<a, b>>
               ELSE IF b < col + n THEN Terminal!Gone ELSE <<line, b + (-n)>>
    BY DEF Terminal!CellDeleted
<1>2. /\ p.row >= line /\ p.row + p.rows <= line + 1
      /\ p.col >= col /\ p.col + (-n) >= col /\ p.col + (-n) + p.cols <= Cols - n
    BY <1>0 DEF Terminal!Contains, Terminal!PlacementRect, Terminal!Rect
<1>3. p.col + (-n) \in Terminal!LiveCols
    BY <1>0, <1>2, TerminalNumbers DEF Terminal!LiveCols
<1> SUFFICES ASSUME NEW o \in DOMAIN p.on
             PROVE  Terminal!CellDeleted(p.on[o], line, col, n) = <<p.row + 0 + o[1], p.col + (-n) + o[2]>>
    BY <1>3
<1> DEFINE a == p.row + o[1]
           b == p.col + o[2]
<1>4. /\ o[1] \in 0 .. p.rows - 1 /\ o[2] \in 0 .. p.cols - 1
      /\ p.on[o] = <<a, b>>
    BY CellOfPlacement, Zenon
<1>5. a \in Nat /\ b \in Nat /\ ~(a # line \/ b < col) /\ ~(b < col + n)
    BY <1>0, <1>2, <1>4
<1>6. line = p.row + 0 + o[1] /\ b + (-n) = p.col + (-n) + o[2]
    BY <1>0, <1>4, <1>5
<1>7. Terminal!CellDeleted(<<a, b>>, line, col, n) = <<line, b + (-n)>>
  <2> HIDE DEF a, b
  <2> QED BY <1>1, <1>5, Zenon
<1> HIDE DEF a, b
<1> QED BY <1>4, <1>6, <1>7, Zenon

LEMMA EditCharsStep ==
    ASSUME PInv, NEW insert \in BOOLEAN, NEW row \in Nat, NEW col \in Nat, NEW n \in Nat,
           Terminal!EditChars(insert, row, col, n)
    PROVE  PInv'
<1> DEFINE line == Terminal!Base + row
           affected == Terminal!Rect(line, line + 1, col, Cols)
           movable == IF insert THEN [affected EXCEPT !.right = Cols - n]
                                ELSE [affected EXCEPT !.left = col + n]
           Untouched(p) == ~Terminal!Intersect(Terminal!PlacementRect(p), affected)
           Keep(p) == Untouched(p) \/ Terminal!Contains(movable, Terminal!PlacementRect(p))
           by == IF insert THEN n ELSE -n
           Moved(p) == IF Untouched(p) THEN p ELSE Terminal!Shifted(p, 0, by)
           Carry(cell) == IF insert THEN Terminal!CellInserted(cell, line, col, n)
                                    ELSE Terminal!CellDeleted(cell, line, col, n)
           retired == {p \in Terminal!Side(alternateScreen) : ~Keep(p)}
           on(m) == [o \in DOMAIN m.on |-> IF m.on[o] = Terminal!Gone THEN Terminal!Gone ELSE Carry(m.on[o])]
           Q(p) == IF p.alternate = alternateScreen
                   THEN [Moved(p) EXCEPT !.on = on(Moved(p))] ELSE p
           at == [p \in sidecars |-> Q(p)]
<1>1. Terminal!Mutate(alternateScreen, Keep, Moved, Carry, FALSE) /\ UNCHANGED Terminal!screenVars
    BY Zenon DEF Terminal!EditChars
<1>2. sidecars' = {Q(p) : p \in sidecars \ retired}
    BY <1>1, Zenon DEF Terminal!Mutate, Terminal!Placed, Terminal!Carried
<1>3. /\ resources' = Terminal!Without(Terminal!FinalEphemeral(retired, sidecars'))
      /\ reserved' = reserved - Cardinality(retired)
      /\ decode' \in {Terminal!NoJob, Terminal!MovedJob}
    BY <1>1, AnchorsMovedTwoWays, SameCount, Zenon DEF Terminal!Mutate
<1>4. ASSUME NEW p \in sidecars \ retired PROVE Carries(p, Q(p))
  <2>0. IsPlacement(p) /\ Terminal!Base \in Nat
      BY PicturesTyped, Zenon
  <2>1. CASE p.alternate # alternateScreen
      BY <2>0, <2>1, Zenon DEF Carries, SameImage
  <2>2. CASE p.alternate = alternateScreen
    <3>1. Keep(p)
        BY <2>2, Zenon DEF Terminal!Side
    <3>2. Moved(p).on = p.on
        BY <2>0, ShiftedOn, Zenon
    <3>3. ASSUME NEW o \in DOMAIN p.on
          PROVE  on(Moved(p))[o] = Carry(p.on[o])
        BY <3>2, <2>0, CellOfPlacement, Zenon
    <3>4. DOMAIN on(Moved(p)) = DOMAIN p.on
        BY <3>2, Zenon
    <3>5. line \in Nat /\ p.row + 0 \in Nat /\ p.col + 0 \in Terminal!LiveCols /\ by \in Int /\ 0 \in Int
        BY <2>0, TerminalNumbers DEF IsPlacement, Terminal!LiveCols
    <3>8. line \in Nat
        BY <3>5
    <3> HIDE DEF line, on, retired
    <3>6. CASE Untouched(p)
      <4>1. ASSUME NEW o \in DOMAIN p.on
            PROVE  Carry(p.on[o]) = <<p.row + 0 + o[1], p.col + 0 + o[2]>>
        <5>1. /\ Terminal!CellInserted(p.on[o], line, col, n) = <<p.row + 0 + o[1], p.col + 0 + o[2]>>
              /\ Terminal!CellDeleted(p.on[o], line, col, n) = <<p.row + 0 + o[1], p.col + 0 + o[2]>>
            BY <3>8, <3>6, <2>0, NotInsertedCell, NotDeletedCell
        <5> QED BY <5>1, Zenon
      <4>2. Moved(p) = p
          BY <3>6, Zenon
      <4> HIDE DEF Moved, Carry
      <4>3. Follows(p, 0, 0, Moved(p), on(Moved(p)))
          BY <3>3, <3>4, <3>5, <4>1, <4>2, Zenon DEF Follows
      <4> QED BY <4>3, <2>0, <2>2, PlacementFollows, Zenon
    <3>7. CASE ~Untouched(p)
      <4>1. p.col + by \in Terminal!LiveCols
            /\ \A o \in DOMAIN p.on : Carry(p.on[o]) = <<p.row + 0 + o[1], p.col + by + o[2]>>
        <5>1. CASE insert
          <6>1. movable = Terminal!Rect(line, line + 1, col, Cols - n) /\ by = n
              BY <5>1 DEF Terminal!Rect
          <6>2. Terminal!Contains(Terminal!Rect(line, line + 1, col, Cols - n), Terminal!PlacementRect(p))
              BY <3>1, <3>7, <6>1, Zenon
          <6>3. /\ p.col + n \in Terminal!LiveCols
                /\ \A o \in DOMAIN p.on : Terminal!CellInserted(p.on[o], line, col, n)
                                             = <<p.row + 0 + o[1], p.col + n + o[2]>>
              BY <6>2, <3>8, <2>0, InsertedCell
          <6> QED BY <5>1, <6>3, Zenon
        <5>2. CASE ~insert
          <6>1. movable = Terminal!Rect(line, line + 1, col + n, Cols) /\ by = -n
              BY <5>2 DEF Terminal!Rect
          <6>2. Terminal!Contains(Terminal!Rect(line, line + 1, col + n, Cols), Terminal!PlacementRect(p))
              BY <3>1, <3>7, <6>1, Zenon
          <6>3. /\ p.col + (-n) \in Terminal!LiveCols
                /\ \A o \in DOMAIN p.on : Terminal!CellDeleted(p.on[o], line, col, n)
                                             = <<p.row + 0 + o[1], p.col + (-n) + o[2]>>
              BY <6>2, <3>8, <2>0, DeletedCell
          <6> QED BY <5>2, <6>3, Zenon
        <5> QED BY <5>1, <5>2
      <4>2. Moved(p) = Terminal!Shifted(p, 0, by)
          BY <3>7, Zenon
      <4> HIDE DEF Moved, Carry, by
      <4>3. Follows(p, 0, by, Moved(p), on(Moved(p)))
          BY <3>3, <3>4, <3>5, <4>1, <4>2, Zenon DEF Follows
      <4> QED BY <4>3, <2>0, <2>2, PlacementFollows, Zenon
    <3> QED BY <3>6, <3>7
  <2> QED BY <2>1, <2>2, Zenon
<1>5. Redraws(alternateScreen, retired, at)
  <2>1. sidecars' = {at[p] : p \in sidecars \ retired}
      BY <1>2
  <2>2. \A p \in sidecars \ retired : Carries(p, at[p])
      BY <1>4
  <2>3. retired \subseteq Terminal!Side(alternateScreen)
      OBVIOUS
  <2> HIDE DEF at, retired
  <2> QED BY <1>3, <2>1, <2>2, <2>3, Zenon DEF Redraws
<1>6. ScreenTyped' /\ alternateScreen' = alternateScreen
    BY <1>1, Zenon DEF Terminal!screenVars, PInv, ScreenTyped
<1> HIDE DEF at, retired
<1> QED BY <1>3, <1>5, <1>6, MovedFollows, RedrawsKeepPictures, NoneLeftOfSubset, Zenon

-----------------------------------------------------------------------------
(* Rows leave the history: what is on later rows follows, and when none     *)
(* leaves nothing moves.                                                    *)
LEMMA AppendedCell ==
    ASSUME NEW a \in Nat, NEW b \in Nat, NEW lines \in Nat, NEW kept \in Nat,
           NEW dropped \in Nat, dropped = scrollbackRows + lines - kept,
           scrollbackRows \in Nat, a >= dropped
    PROVE  Terminal!CellAppended(<<a, b>>, lines, kept, dropped) = <<a - dropped, b>>
<1> DEFINE live == a - scrollbackRows
<1>1. CASE live < 0
  <2>1. Terminal!CellAppended(<<a, b>>, lines, kept, dropped) = Terminal!CellDropped(<<a, b>>, dropped)
      BY <1>1 DEF Terminal!CellAppended
  <2> QED BY <2>1 DEF Terminal!CellDropped
<1>2. CASE ~(live < 0) /\ live < lines
  <2>1. Terminal!CellAppended(<<a, b>>, lines, kept, dropped)
          = Terminal!CellDropped(<<scrollbackRows + live, b>>, dropped)
      BY <1>2 DEF Terminal!CellAppended
  <2>2. scrollbackRows + live = a
      OBVIOUS
  <2> HIDE DEF live
  <2> QED BY <2>1, <2>2 DEF Terminal!CellDropped
<1>3. CASE ~(live < 0) /\ ~(live < lines)
  <2>1. Terminal!CellAppended(<<a, b>>, lines, kept, dropped) = <<kept + live - lines, b>>
      BY <1>3 DEF Terminal!CellAppended
  <2>2. kept + live - lines = a - dropped
      OBVIOUS
  <2> HIDE DEF live
  <2> QED BY <2>1, <2>2, Zenon
<1> QED BY <1>1, <1>2, <1>3, Zenon

LEMMA DroppedCell ==
    ASSUME NEW a \in Nat, NEW b \in Nat, NEW count \in Nat, a >= count
    PROVE  Terminal!CellDropped(<<a, b>>, count) = <<a - count, b>>
BY DEF Terminal!CellDropped

(* A placement on rows that stay moves by the count that leaves.             *)
LEMMA FollowsDropped ==
    ASSUME NEW p, IsPlacement(p), NEW count \in Nat, p.row >= count,
           NEW on, DOMAIN on = DOMAIN p.on,
           \A o \in DOMAIN p.on : on[o] = <<(p.row + o[1]) - count, p.col + o[2]>>,
           NEW m, m = IF count > 0 THEN Terminal!Shifted(p, -count, 0) ELSE p
    PROVE  Carries(p, [m EXCEPT !.on = on])
<1>1. /\ p.row \in Nat /\ p.col \in Terminal!LiveCols /\ p.col \in Nat /\ -count \in Int /\ 0 \in Int
      /\ p.row + (-count) \in Nat /\ p.col + 0 \in Terminal!LiveCols
    BY TerminalNumbers DEF IsPlacement, Terminal!LiveCols
<1>2. ASSUME NEW o \in DOMAIN p.on
      PROVE  on[o] = <<p.row + (-count) + o[1], p.col + 0 + o[2]>>
  <2>1. o[1] \in Int /\ o[2] \in Int
      BY CellOfPlacement
  <2>2. (p.row + o[1]) - count = p.row + (-count) + o[1] /\ p.col + o[2] = p.col + 0 + o[2]
      BY <1>1, <2>1
  <2> QED BY <2>2, Zenon
<1>3. m = Terminal!Shifted(p, -count, 0) \/ (m = p /\ -count = 0 /\ 0 = 0)
    OBVIOUS
<1>4. Follows(p, -count, 0, m, on)
    BY <1>1, <1>2, <1>3, Zenon DEF Follows
<1> QED BY <1>4, PlacementFollows, Zenon

(* Without retired placements resources and reservations stay.               *)
LEMMA NothingRetired ==
    ASSUME PInv, UNCHANGED <<resources, reserved>>
    PROVE  /\ resources' = Terminal!Without(Terminal!FinalEphemeral({}, sidecars'))
           /\ reserved' = reserved - Cardinality({})
<1>1. Terminal!FinalEphemeral({}, sidecars') = {}
    BY Zenon DEF Terminal!FinalEphemeral, Terminal!Refs
<1>2. resources \in [Terminal!ImageIDs -> {-1, 0, 1}] /\ reserved = Cardinality(sidecars)
      /\ IsFiniteSet(sidecars)
    BY Zenon DEF PInv, Backed
<1>3. Terminal!Without({}) = resources
    BY <1>2 DEF Terminal!Without
<1>4. Cardinality({}) = 0 /\ reserved \in Nat
    BY <1>2, FS_EmptySet, FS_CardinalityType, Zenon
<1> QED BY <1>1, <1>3, <1>4

(* An anchor whose text does not move stays one.                             *)
LEMMA AnchorStays ==
    ASSUME NEW j, IsAnchored(j), NEW on, on = j.on, NEW k, k = [j EXCEPT !.on = on]
    PROVE  IsAnchored(k) /\ k.alternate = j.alternate
<1>1. /\ k.id = j.id /\ k.row = j.row /\ k.col = j.col /\ k.on = j.on
    BY DEF IsAnchored
<1>2. k.alternate = j.alternate
    BY Zenon DEF IsAnchored
<1>3. k \in [kind : {"kitty", "local"}, image : Terminal!ImageIDs, id : {k.id}, span : Spans,
             row : Nat, col : Terminal!LiveCols, alternate : BOOLEAN, on : {k.on},
             imageMoved : BOOLEAN, snapshotMoved : BOOLEAN]
    BY <1>1 DEF IsAnchored
<1> QED BY <1>1, <1>2, <1>3, Zenon DEF IsAnchored

LEMMA JobStays ==
    ASSUME PInv, NEW carried,
           IsAnchored(decode) => carried = decode.on,
           decode' = IF Terminal!Anchored(decode) /\ decode.alternate = FALSE /\ decode.on # Terminal!Gone
                  THEN [decode EXCEPT !.on = carried] ELSE decode
    PROVE  JobFollows(decode', alternateScreen)
<1>1. CASE decode \in {Terminal!NoJob, Terminal!MovedJob}
    BY <1>1, Zenon DEF JobFollows, Terminal!Anchored
<1>2. CASE IsAnchored(decode) /\ decode.alternate = alternateScreen
    BY <1>2, AnchorStays, Zenon DEF JobFollows
<1> QED BY <1>1, <1>2, Zenon DEF PInv, JobFollows

(* dropPrimaryImageRows under a history that shrinks ...                     *)
LEMMA DropsDropped ==
    ASSUME PInv, ScreenTyped', alternateScreen' = alternateScreen,
           NEW count \in Nat, NEW captures,
           LET Carry(cell) == Terminal!CellDropped(cell, count) IN Terminal!DropRows(count, Carry, captures)
    PROVE  PInv'
<1> DEFINE Carry(cell) == Terminal!CellDropped(cell, count)
           retired == IF count > 0 THEN {p \in Terminal!Side(FALSE) : ~(p.row >= count)} ELSE {}
           on(m) == [o \in DOMAIN m.on |-> IF m.on[o] = Terminal!Gone THEN Terminal!Gone ELSE Carry(m.on[o])]
           Moved(p) == IF count > 0 THEN Terminal!Shifted(p, -count, 0) ELSE p
           Q(p) == IF p.alternate = FALSE
                   THEN [Moved(p) EXCEPT !.on = on(Moved(p))] ELSE p
           at == [p \in sidecars |-> Q(p)]
<1>1. Terminal!DropRows(count, Carry, captures) /\ count \in Nat
    BY Zenon
<1>2. /\ sidecars' = {Q(p) : p \in sidecars \ retired}
      /\ resources' = Terminal!Without(Terminal!FinalEphemeral(retired, sidecars'))
      /\ reserved' = reserved - Cardinality(retired)
      /\ JobFollows(decode', alternateScreen')
  <2>1. CASE count > 0
    <3> DEFINE Keep(p) == p.row >= count
               Goes(p) == Terminal!Shifted(p, -count, 0)
    <3>1. Terminal!Mutate(FALSE, Keep, Goes, Carry, captures)
        BY <1>1, <2>1, Zenon DEF Terminal!DropRows
    <3>2. sidecars' = {Q(p) : p \in sidecars \ retired}
        BY <3>1, <2>1, Zenon DEF Terminal!Mutate, Terminal!Placed, Terminal!Carried
    <3>3. /\ resources' = Terminal!Without(Terminal!FinalEphemeral(retired, sidecars'))
          /\ reserved' = reserved - Cardinality(retired)
          /\ decode' \in {Terminal!NoJob, Terminal!MovedJob}
        BY <3>1, <2>1, AnchorsMovedTwoWays, SameCount, Zenon DEF Terminal!Mutate
    <3> QED BY <3>2, <3>3, MovedFollows, Zenon
  <2>2. CASE ~(count > 0)
    <3>1. Terminal!Follow(FALSE, Carry)
        BY <1>1, <2>2, Zenon DEF Terminal!DropRows
    <3>2. sidecars' = {Q(p) : p \in sidecars} /\ UNCHANGED <<resources, reserved>>
        BY <3>1, <2>2, Zenon DEF Terminal!Follow, Terminal!Placed, Terminal!Carried, Terminal!Stay
    <3>3. retired = {} /\ sidecars \ {} = sidecars
        BY <2>2, Zenon
    <3>4. JobFollows(decode', alternateScreen')
      <4>1. decode' = IF Terminal!Anchored(decode) /\ decode.alternate = FALSE /\ decode.on # Terminal!Gone
                   THEN [decode EXCEPT !.on = Carry(decode.on)] ELSE decode
          BY <3>1, Zenon DEF Terminal!Follow, Terminal!JobCarried
      <4>2. ASSUME IsAnchored(decode) PROVE Carry(decode.on) = decode.on
        <5>1. decode.row \in Nat /\ decode.col \in Nat /\ decode.on = <<decode.row, decode.col>>
            BY <4>2, TerminalNumbers DEF IsAnchored, Terminal!LiveCols
        <5>2. decode.row >= count /\ decode.row - count = decode.row
            BY <1>1, <2>2, <5>1
        <5>3. Carry(<<decode.row, decode.col>>) = <<decode.row - count, decode.col>>
            BY <1>1, <5>1, <5>2, DroppedCell
        <5> QED BY <5>1, <5>2, <5>3, Zenon
      <4> HIDE DEF Carry
      <4> QED BY <4>1, <4>2, JobStays, Zenon
    <3> QED BY <3>2, <3>3, <3>4, NothingRetired, Zenon
  <2> QED BY <2>1, <2>2
<1>3. ASSUME NEW p \in sidecars \ retired PROVE Carries(p, Q(p))
  <2>0. IsPlacement(p)
      BY PicturesTyped, Zenon
  <2>1. CASE p.alternate # FALSE
      BY <2>0, <2>1, Zenon DEF Carries, SameImage
  <2>2. CASE p.alternate = FALSE
    <3>1. p.row >= count /\ p.row \in Nat
        BY <1>1, <2>0, <2>2 DEF Terminal!Side, IsPlacement
    <3>2. Moved(p).on = p.on
        BY <2>0, ShiftedOn, Zenon
    <3>3. ASSUME NEW o \in DOMAIN p.on
          PROVE  on(Moved(p))[o] = Carry(p.on[o])
        BY <3>2, <2>0, CellOfPlacement, Zenon
    <3>4. DOMAIN on(Moved(p)) = DOMAIN p.on
        BY <3>2, Zenon
    <3> HIDE DEF on
    <3>5. ASSUME NEW o \in DOMAIN p.on
          PROVE  on(Moved(p))[o] = <<(p.row + o[1]) - count, p.col + o[2]>>
      <4> DEFINE a == p.row + o[1]
                 b == p.col + o[2]
      <4>1. a \in Nat /\ b \in Nat /\ a >= count /\ p.on[o] = <<a, b>>
          BY <1>1, <3>1, <2>0, CellOfPlacement
      <4> HIDE DEF a, b, retired
      <4>2. Carry(<<a, b>>) = <<a - count, b>>
          BY <1>1, <4>1, DroppedCell
      <4> HIDE DEF Carry
      <4>3. on(Moved(p))[o] = <<a - count, b>>
          BY <3>3, <4>1, <4>2, Zenon
      <4> QED BY <4>3 DEF a, b
    <3>6. Carries(p, [Moved(p) EXCEPT !.on = on(Moved(p))])
      <4>1. Moved(p) = IF count > 0 THEN Terminal!Shifted(p, -count, 0) ELSE p
          OBVIOUS
      <4> HIDE DEF Moved
      <4> QED BY <1>1, <3>1, <3>4, <3>5, <4>1, <2>0, FollowsDropped, Zenon
    <3> QED BY <3>6, <2>2, Zenon
  <2> QED BY <2>1, <2>2, Zenon
<1>4. Redraws(FALSE, retired, at)
  <2>1. sidecars' = {at[p] : p \in sidecars \ retired}
      BY <1>2
  <2>2. \A p \in sidecars \ retired : Carries(p, at[p])
      BY <1>3
  <2>3. retired \subseteq Terminal!Side(FALSE)
      OBVIOUS
  <2> HIDE DEF at, retired
  <2> QED BY <1>2, <2>1, <2>2, <2>3, Zenon DEF Redraws
<1> HIDE DEF at, retired
<1> QED BY <1>2, <1>4, RedrawsKeepPictures, NoneLeftOfSubset, Zenon

(* ... and under one that is appended to while it is full.                   *)
LEMMA DropsAppended ==
    ASSUME PInv, ScreenTyped', alternateScreen' = alternateScreen,
           NEW lines \in Nat, NEW kept \in Nat, NEW count \in Nat, NEW captures,
           count = scrollbackRows + lines - kept,
           LET Carry(cell) == Terminal!CellAppended(cell, lines, kept, count)
           IN  Terminal!DropRows(count, Carry, captures)
    PROVE  PInv'
<1> DEFINE Carry(cell) == Terminal!CellAppended(cell, lines, kept, count)
           retired == IF count > 0 THEN {p \in Terminal!Side(FALSE) : ~(p.row >= count)} ELSE {}
           on(m) == [o \in DOMAIN m.on |-> IF m.on[o] = Terminal!Gone THEN Terminal!Gone ELSE Carry(m.on[o])]
           Moved(p) == IF count > 0 THEN Terminal!Shifted(p, -count, 0) ELSE p
           Q(p) == IF p.alternate = FALSE
                   THEN [Moved(p) EXCEPT !.on = on(Moved(p))] ELSE p
           at == [p \in sidecars |-> Q(p)]
<1>1. /\ Terminal!DropRows(count, Carry, captures) /\ count \in Nat
      /\ scrollbackRows \in Nat /\ lines \in Nat /\ kept \in Nat
      /\ count = scrollbackRows + lines - kept
    BY Zenon DEF PInv, ScreenTyped
<1>2. /\ sidecars' = {Q(p) : p \in sidecars \ retired}
      /\ resources' = Terminal!Without(Terminal!FinalEphemeral(retired, sidecars'))
      /\ reserved' = reserved - Cardinality(retired)
      /\ JobFollows(decode', alternateScreen')
  <2>1. CASE count > 0
    <3> DEFINE Keep(p) == p.row >= count
               Goes(p) == Terminal!Shifted(p, -count, 0)
    <3>1. Terminal!Mutate(FALSE, Keep, Goes, Carry, captures)
        BY <1>1, <2>1, Zenon DEF Terminal!DropRows
    <3>2. sidecars' = {Q(p) : p \in sidecars \ retired}
        BY <3>1, <2>1, Zenon DEF Terminal!Mutate, Terminal!Placed, Terminal!Carried
    <3>3. /\ resources' = Terminal!Without(Terminal!FinalEphemeral(retired, sidecars'))
          /\ reserved' = reserved - Cardinality(retired)
          /\ decode' \in {Terminal!NoJob, Terminal!MovedJob}
        BY <3>1, <2>1, AnchorsMovedTwoWays, SameCount, Zenon DEF Terminal!Mutate
    <3> QED BY <3>2, <3>3, MovedFollows, Zenon
  <2>2. CASE ~(count > 0)
    <3>1. Terminal!Follow(FALSE, Carry)
        BY <1>1, <2>2, Zenon DEF Terminal!DropRows
    <3>2. sidecars' = {Q(p) : p \in sidecars} /\ UNCHANGED <<resources, reserved>>
        BY <3>1, <2>2, Zenon DEF Terminal!Follow, Terminal!Placed, Terminal!Carried, Terminal!Stay
    <3>3. retired = {} /\ sidecars \ {} = sidecars
        BY <2>2, Zenon
    <3>4. JobFollows(decode', alternateScreen')
      <4>1. decode' = IF Terminal!Anchored(decode) /\ decode.alternate = FALSE /\ decode.on # Terminal!Gone
                   THEN [decode EXCEPT !.on = Carry(decode.on)] ELSE decode
          BY <3>1, Zenon DEF Terminal!Follow, Terminal!JobCarried
      <4>2. ASSUME IsAnchored(decode) PROVE Carry(decode.on) = decode.on
        <5>1. decode.row \in Nat /\ decode.col \in Nat /\ decode.on = <<decode.row, decode.col>>
            BY <4>2, TerminalNumbers DEF IsAnchored, Terminal!LiveCols
        <5>2. decode.row >= count /\ decode.row - count = decode.row
            BY <1>1, <2>2, <5>1
        <5>3. Carry(<<decode.row, decode.col>>) = <<decode.row - count, decode.col>>
            BY <1>1, <5>1, <5>2, AppendedCell
        <5> QED BY <5>1, <5>2, <5>3, Zenon
      <4> HIDE DEF Carry
      <4> QED BY <4>1, <4>2, JobStays, Zenon
    <3> QED BY <3>2, <3>3, <3>4, NothingRetired, Zenon
  <2> QED BY <2>1, <2>2
<1>3. ASSUME NEW p \in sidecars \ retired PROVE Carries(p, Q(p))
  <2>0. IsPlacement(p)
      BY PicturesTyped, Zenon
  <2>1. CASE p.alternate # FALSE
      BY <2>0, <2>1, Zenon DEF Carries, SameImage
  <2>2. CASE p.alternate = FALSE
    <3>1. p.row >= count /\ p.row \in Nat
        BY <1>1, <2>0, <2>2 DEF Terminal!Side, IsPlacement
    <3>2. Moved(p).on = p.on
        BY <2>0, ShiftedOn, Zenon
    <3>3. ASSUME NEW o \in DOMAIN p.on
          PROVE  on(Moved(p))[o] = Carry(p.on[o])
        BY <3>2, <2>0, CellOfPlacement, Zenon
    <3>4. DOMAIN on(Moved(p)) = DOMAIN p.on
        BY <3>2, Zenon
    <3> HIDE DEF on
    <3>5. ASSUME NEW o \in DOMAIN p.on
          PROVE  on(Moved(p))[o] = <<(p.row + o[1]) - count, p.col + o[2]>>
      <4> DEFINE a == p.row + o[1]
                 b == p.col + o[2]
      <4>1. a \in Nat /\ b \in Nat /\ a >= count /\ p.on[o] = <<a, b>>
          BY <1>1, <3>1, <2>0, CellOfPlacement
      <4> HIDE DEF a, b, retired
      <4>2. Carry(<<a, b>>) = <<a - count, b>>
          BY <1>1, <4>1, AppendedCell
      <4> HIDE DEF Carry
      <4>3. on(Moved(p))[o] = <<a - count, b>>
          BY <3>3, <4>1, <4>2, Zenon
      <4> QED BY <4>3 DEF a, b
    <3>6. Carries(p, [Moved(p) EXCEPT !.on = on(Moved(p))])
      <4>1. Moved(p) = IF count > 0 THEN Terminal!Shifted(p, -count, 0) ELSE p
          OBVIOUS
      <4> HIDE DEF Moved
      <4> QED BY <1>1, <3>1, <3>4, <3>5, <4>1, <2>0, FollowsDropped, Zenon
    <3> QED BY <3>6, <2>2, Zenon
  <2> QED BY <2>1, <2>2, Zenon
<1>4. Redraws(FALSE, retired, at)
  <2>1. sidecars' = {at[p] : p \in sidecars \ retired}
      BY <1>2
  <2>2. \A p \in sidecars \ retired : Carries(p, at[p])
      BY <1>3
  <2>3. retired \subseteq Terminal!Side(FALSE)
      OBVIOUS
  <2> HIDE DEF at, retired
  <2> QED BY <1>2, <2>1, <2>2, <2>3, Zenon DEF Redraws
<1> HIDE DEF at, retired
<1> QED BY <1>2, <1>4, RedrawsKeepPictures, NoneLeftOfSubset, Zenon

LEMMA ScrollUpPrimaryStep ==
    ASSUME PInv, NEW lines \in Nat, Terminal!ScrollUpPrimary(lines)
    PROVE  PInv'
<1> DEFINE kept == Terminal!Min({scrollbackCapacity, scrollbackRows + lines})
           count == scrollbackRows + lines - kept
           Carry(cell) == Terminal!CellAppended(cell, lines, kept, count)
<1>1. /\ scrollbackRows' = kept /\ alternateScreen' = alternateScreen
      /\ scrollbackCapacity' = scrollbackCapacity
    BY Zenon DEF Terminal!ScrollUpPrimary
<1>2. Terminal!DropRows(count, Carry, FALSE)
    BY Zenon DEF Terminal!ScrollUpPrimary
<1>3. kept \in Nat /\ count \in Nat
  <2>1. scrollbackCapacity \in Nat /\ scrollbackRows + lines \in Nat /\ scrollbackRows \in Nat
      BY DEF PInv, ScreenTyped
  <2>2. kept \in Nat /\ kept <= scrollbackRows + lines
      BY <2>1, MinOfTwo, Zenon
  <2> HIDE DEF kept
  <2> QED BY <2>1, <2>2
<1>4. ScreenTyped'
    BY <1>1, <1>3, Zenon DEF PInv, ScreenTyped
<1>5. count = scrollbackRows + lines - kept
    OBVIOUS
<1> HIDE DEF kept, count
<1> QED BY <1>1, <1>2, <1>3, <1>4, <1>5, DropsAppended, Zenon

LEMMA ClearScrollbackStep ==
    ASSUME PInv, Terminal!ClearScrollback
    PROVE  PInv'
<1> DEFINE Carry(cell) == Terminal!CellDropped(cell, scrollbackRows)
<1>1. /\ scrollbackRows' = 0 /\ alternateScreen' = alternateScreen
      /\ scrollbackCapacity' = scrollbackCapacity
    BY Zenon DEF Terminal!ClearScrollback
<1>2. Terminal!DropRows(scrollbackRows, Carry, FALSE)
    BY Zenon DEF Terminal!ClearScrollback
<1>3. ScreenTyped' /\ scrollbackRows \in Nat
  <2>1. 0 \in Nat
      OBVIOUS
  <2> QED BY <1>1, <2>1, Zenon DEF PInv, ScreenTyped
<1> QED BY <1>1, <1>2, <1>3, DropsDropped, Zenon

LEMMA SetScrollbackCapacityStep ==
    ASSUME PInv, NEW capacity \in Nat, Terminal!SetScrollbackCapacity(capacity)
    PROVE  PInv'
<1> DEFINE kept == Terminal!Min({scrollbackRows, capacity})
           count == scrollbackRows - kept
           Carry(cell) == Terminal!CellDropped(cell, count)
<1>1. /\ scrollbackRows' = kept /\ alternateScreen' = alternateScreen
      /\ scrollbackCapacity' = capacity
    BY Zenon DEF Terminal!SetScrollbackCapacity
<1>2. Terminal!DropRows(count, Carry, TRUE)
    BY Zenon DEF Terminal!SetScrollbackCapacity
<1>3. kept \in Nat /\ count \in Nat
  <2>1. scrollbackRows \in Nat
      BY DEF PInv, ScreenTyped
  <2>2. kept \in Nat /\ kept <= scrollbackRows
      BY <2>1, MinOfTwo, Zenon
  <2> HIDE DEF kept
  <2> QED BY <2>1, <2>2
<1>4. ScreenTyped'
    BY <1>1, <1>3, Zenon DEF PInv, ScreenTyped
<1> HIDE DEF kept, count
<1> QED BY <1>1, <1>2, <1>3, <1>4, DropsDropped, Zenon

LEMMA EnterAlternateStep ==
    ASSUME PInv, Terminal!EnterAlternate
    PROVE  PInv'
<1>1. /\ alternateScreen' = TRUE
      /\ UNCHANGED <<scrollbackRows, scrollbackCapacity, sidecars, resources, reserved>>
      /\ decode' \in {Terminal!NoJob, Terminal!MovedJob}
    BY AnchorsMovedTwoWays, Zenon DEF Terminal!EnterAlternate
<1>2. ScreenTyped'
    BY <1>1, Zenon DEF PInv, ScreenTyped
<1>3. Backed(sidecars', resources', reserved')
    BY <1>1, Zenon DEF PInv
<1>4. NoneLeft(alternateScreen', sidecars')
    BY <1>1, Zenon DEF NoneLeft
<1> QED BY <1>1, <1>2, <1>3, <1>4, MovedFollows, Zenon DEF PInv

(* The placements of the alternate screen are those that retire.             *)
LEMMA ExitAlternateStep ==
    ASSUME PInv, Terminal!ExitAlternate
    PROVE  PInv'
<1> DEFINE Keep(p) == FALSE
           Carry(cell) == Terminal!Gone
           retired == {p \in Terminal!Side(TRUE) : ~Keep(p)}
           Q(p) == IF p.alternate = TRUE
                   THEN [p EXCEPT !.on = [o \in DOMAIN p.on |->
                                            IF p.on[o] = Terminal!Gone THEN Terminal!Gone ELSE Carry(p.on[o])]]
                   ELSE p
           at == [p \in sidecars |-> Q(p)]
<1>1. /\ Terminal!Mutate(TRUE, Keep, Terminal!Stay, Carry, FALSE)
      /\ alternateScreen' = FALSE /\ UNCHANGED <<scrollbackRows, scrollbackCapacity>>
    BY Zenon DEF Terminal!ExitAlternate
<1>2. sidecars' = {Q(p) : p \in sidecars \ retired}
    BY <1>1, Zenon DEF Terminal!Mutate, Terminal!Placed, Terminal!Carried, Terminal!Stay
<1>3. /\ resources' = Terminal!Without(Terminal!FinalEphemeral(retired, sidecars'))
      /\ reserved' = reserved - Cardinality(retired)
      /\ decode' \in {Terminal!NoJob, Terminal!MovedJob}
    BY <1>1, AnchorsMovedTwoWays, SameCount, Zenon DEF Terminal!Mutate
<1>4. retired = Terminal!Side(TRUE)
    OBVIOUS
<1>5. ASSUME NEW p \in sidecars \ retired
      PROVE  p.alternate = FALSE /\ Carries(p, Q(p))
  <2>1. IsPlacement(p)
      BY PicturesTyped, Zenon
  <2>2. p.alternate \in BOOLEAN
      BY <2>1, Zenon DEF IsPlacement
  <2>3. p.alternate # TRUE
      BY <1>4, Zenon DEF Terminal!Side
  <2>4. p.alternate = FALSE
      BY <2>2, <2>3, Zenon
  <2>5. Q(p) = p
      BY <2>3, Zenon
  <2> QED BY <2>1, <2>4, <2>5, Zenon DEF Carries, SameImage
<1>6. Redraws(TRUE, retired, at)
  <2>1. sidecars' = {at[p] : p \in sidecars \ retired}
      BY <1>2
  <2>2. \A p \in sidecars \ retired : Carries(p, at[p])
      BY <1>5
  <2>3. retired \subseteq Terminal!Side(TRUE)
      OBVIOUS
  <2> HIDE DEF at, retired
  <2> QED BY <1>3, <2>1, <2>2, <2>3, Zenon DEF Redraws
<1>7. ScreenTyped'
    BY <1>1, Zenon DEF PInv, ScreenTyped
<1>8. NoneLeft(alternateScreen', sidecars \ retired)
    BY <1>5, Zenon DEF NoneLeft
<1> HIDE DEF at, retired
<1> QED BY <1>3, <1>6, <1>7, <1>8, MovedFollows, RedrawsKeepPictures, Zenon

(* An empty store.                                                           *)
LEMMA BackedNothing ==
    Backed({}, [i \in Terminal!ImageIDs |-> -1], 0)
<1>1. Cardinality({}) = 0 /\ IsFiniteSet({})
    BY FS_EmptySet, Zenon
<1>2. \A i \in Local : i \in Terminal!ImageIDs
    BY Zenon DEF Terminal!ImageIDs
<1> QED BY <1>1, <1>2, TerminalNumbers DEF Backed, IdsUnique

LEMMA ResetStep ==
    ASSUME PInv, Terminal!Reset
    PROVE  PInv'
<1>1. /\ sidecars' = {} /\ reserved' = 0 /\ resources' = [i \in Terminal!ImageIDs |-> -1]
      /\ UNCHANGED Terminal!screenVars /\ decode' \in {Terminal!NoJob, Terminal!MovedJob}
    BY AnchorsMovedTwoWays, Zenon DEF Terminal!Reset
<1>2. ScreenTyped' /\ alternateScreen' = alternateScreen
    BY <1>1, Zenon DEF PInv, ScreenTyped, Terminal!screenVars
<1>3. Backed(sidecars', resources', reserved')
    BY <1>1, BackedNothing, Zenon
<1>4. NoneLeft(alternateScreen', sidecars')
    BY <1>1, Zenon DEF NoneLeft
<1> QED BY <1>1, <1>2, <1>3, <1>4, MovedFollows, Zenon DEF PInv

-----------------------------------------------------------------------------
(* Commands and decodes.                                                    *)
LEMMA NewIsPlacement ==
    ASSUME alternateScreen \in BOOLEAN, NEW id, NEW image \in Terminal!ImageIDs,
           NEW generation \in {0, 1}, NEW row \in Nat, NEW col \in Terminal!LiveCols, NEW span \in Spans
    PROVE  LET q == Terminal!NewPlacement(id, image, generation, row, col, span)
           IN  /\ IsPlacement(q) /\ q.id = id /\ q.image = image
               /\ q.generation = generation /\ q.alternate = alternateScreen
<1> DEFINE q == Terminal!NewPlacement(id, image, generation, row, col, span)
           offsets == {o \in (0 .. span[1] - 1) \X (0 .. span[2] - 1) :
                          row + o[1] < Terminal!Base + Rows /\ col + o[2] < Cols}
           on == [o \in offsets |-> <<row + o[1], col + o[2]>>]
<1>1. span[1] \in Nat \ {0} /\ span[2] \in Nat \ {0}
    BY TerminalNumbers
<1>2. /\ q.id = id /\ q.image = image /\ q.generation = generation
      /\ q.row = row /\ q.col = col /\ q.rows = span[1] /\ q.cols = span[2] /\ q.on = on
    BY DEF Terminal!NewPlacement
<1>3. q.alternate = alternateScreen
    BY Zenon DEF Terminal!NewPlacement
<1>4. q \in [alternate : BOOLEAN, id : {q.id}, image : Terminal!ImageIDs, generation : {0, 1},
             row : Nat, col : Terminal!LiveCols, rows : Nat \ {0}, cols : Nat \ {0}, on : {q.on}]
  <2>1. q.alternate \in BOOLEAN
      BY <1>3, Zenon
  <2>2. q = [alternate |-> q.alternate, id |-> q.id, image |-> q.image,
             generation |-> q.generation, row |-> q.row, col |-> q.col,
             rows |-> q.rows, cols |-> q.cols, on |-> q.on]
      BY <1>2, <1>3, Zenon DEF Terminal!NewPlacement
  <2> HIDE DEF q
  <2> QED BY <1>1, <1>2, <2>1, <2>2
<1>5. DOMAIN q.on \subseteq (0 .. q.rows - 1) \X (0 .. q.cols - 1)
  <2>1. DOMAIN on = offsets
      OBVIOUS
  <2>2. offsets \subseteq (0 .. span[1] - 1) \X (0 .. span[2] - 1)
      OBVIOUS
  <2> HIDE DEF q, on, offsets
  <2> QED BY <1>2, <2>1, <2>2, Zenon
<1>6. \A o \in DOMAIN q.on : q.on[o] = <<q.row + o[1], q.col + o[2]>>
  <2>1. \A o \in DOMAIN on : on[o] = <<row + o[1], col + o[2]>>
      OBVIOUS
  <2> HIDE DEF q, on
  <2> QED BY <1>2, <2>1, Zenon
<1>7. IsPlacement(q)
  <2> HIDE DEF q, on
  <2> QED BY <1>4, <1>5, <1>6, Zenon DEF IsPlacement
<1> QED BY <1>2, <1>3, <1>7, Zenon

(* Flags of a decode change without its anchor.                             *)
LEMMA FlagsMove ==
    ASSUME NEW j, NEW alternate, JobFollows(j, alternate)
    PROVE  /\ JobFollows(Terminal!ImagesMoved(j), alternate)
           /\ JobFollows(Terminal!SnapshotMoved(j), alternate)
<1>1. CASE ~Terminal!Anchored(j)
    BY <1>1, Zenon DEF Terminal!ImagesMoved, Terminal!SnapshotMoved
<1>2. CASE Terminal!Anchored(j)
  <2>1. IsAnchored(j) /\ j.alternate = alternate
      BY <1>2, Zenon DEF JobFollows, Terminal!Anchored
  <2>2. ASSUME NEW k, k = [j EXCEPT !.imageMoved = TRUE] \/ k = [j EXCEPT !.snapshotMoved = TRUE]
        PROVE  JobFollows(k, alternate)
    <3>1. k.id = j.id /\ k.row = j.row /\ k.col = j.col /\ k.on = j.on
        BY <2>1, <2>2 DEF IsAnchored
    <3>2. k.alternate = alternate
        BY <2>1, <2>2, Zenon DEF IsAnchored
    <3>3. j \in [kind : {"kitty", "local"}, image : Terminal!ImageIDs, id : {j.id}, span : Spans,
                 row : Nat, col : Terminal!LiveCols, alternate : BOOLEAN, on : {j.on},
                 imageMoved : BOOLEAN, snapshotMoved : BOOLEAN]
        BY <2>1, Zenon DEF IsAnchored
    <3>4. k \in [kind : {"kitty", "local"}, image : Terminal!ImageIDs, id : {j.id}, span : Spans,
                 row : Nat, col : Terminal!LiveCols, alternate : BOOLEAN, on : {j.on},
                 imageMoved : BOOLEAN, snapshotMoved : BOOLEAN]
      <4>1. CASE k = [j EXCEPT !.imageMoved = TRUE]
          BY <3>3, <4>1
      <4>2. CASE k = [j EXCEPT !.snapshotMoved = TRUE]
          BY <3>3, <4>2
      <4> QED BY <4>1, <4>2, <2>2
    <3>5. IsAnchored(k)
        BY <2>1, <3>1, <3>4, Zenon DEF IsAnchored
    <3> QED BY <3>2, <3>5, Zenon DEF JobFollows
  <2> QED BY <1>2, <2>2, Zenon DEF Terminal!ImagesMoved, Terminal!SnapshotMoved
<1> QED BY <1>1, <1>2

LEMMA JobFollowsMoved ==
    ASSUME PInv
    PROVE  /\ JobFollows(Terminal!SnapshotMoved(Terminal!ImagesMoved(decode)), alternateScreen)
           /\ JobFollows(Terminal!SnapshotMoved(decode), alternateScreen)
BY FlagsMove, Zenon DEF PInv

(* An operation that leaves the screen as it is.                            *)
LEMMA SameScreen ==
    ASSUME PInv, UNCHANGED Terminal!screenVars, Backed(sidecars', resources', reserved'),
           NoneLeft(alternateScreen, sidecars'), JobFollows(decode', alternateScreen)
    PROVE  PInv'
<1>1. ScreenTyped' /\ alternateScreen' = alternateScreen
    BY Zenon DEF PInv, ScreenTyped, Terminal!screenVars
<1> QED BY <1>1, Zenon DEF PInv

(* A placement is added to a screen.                                        *)
LEMMA BackedOneMore ==
    ASSUME NEW placements, NEW store, NEW count, Backed(placements, store, count),
           count < PlacementLimit, NEW q, IsPlacement(q),
           store[q.image] = q.generation, Terminal!FreeId(q.id, placements)
    PROVE  Backed(placements \cup {q}, store, count + 1)
<1>1. /\ IsFiniteSet(placements) /\ IdsUnique(placements)
      /\ \A p \in placements : IsPlacement(p) /\ store[p.image] = p.generation
      /\ store \in [Terminal!ImageIDs -> {-1, 0, 1}]
      /\ \A i \in Local : store[i] # -1 => \E p \in placements : p.image = i
      /\ count = Cardinality(placements) /\ count <= PlacementLimit
    BY Zenon DEF Backed
<1>2. q \notin placements
    BY Zenon DEF Terminal!FreeId
<1>3. IsFiniteSet(placements \cup {q}) /\ Cardinality(placements \cup {q}) = count + 1
    BY <1>1, <1>2, FS_AddElement, Zenon
<1>4. IdsUnique(placements \cup {q})
    BY <1>1, Zenon DEF IdsUnique, Terminal!FreeId
<1>5. count + 1 <= PlacementLimit
    BY <1>1, FS_CardinalityType, TerminalNumbers
<1> QED BY <1>1, <1>3, <1>4, <1>5, Zenon DEF Backed

LEMMA PlaceExistingStep ==
    ASSUME PInv, NEW image \in Terminal!ImageIDs, NEW id, NEW row \in Nat, NEW col \in Terminal!LiveCols,
           NEW span \in Spans, Terminal!PlaceExisting(image, id, row, col, span)
    PROVE  PInv'
<1> DEFINE q == Terminal!NewPlacement(id, image, resources[image], Terminal!Base + row, col, span)
<1>1. /\ resources[image] # -1 /\ Terminal!FreeId(id, sidecars) /\ reserved < PlacementLimit
      /\ sidecars' = sidecars \cup {q} /\ reserved' = reserved + 1
      /\ decode' = Terminal!SnapshotMoved(Terminal!ImagesMoved(decode)) /\ UNCHANGED <<Terminal!screenVars, resources>>
    BY Zenon DEF Terminal!PlaceExisting
<1>2. resources \in [Terminal!ImageIDs -> {-1, 0, 1}] /\ alternateScreen \in BOOLEAN
    BY Zenon DEF PInv, Backed, ScreenTyped
<1>3. resources[image] \in {0, 1} /\ Terminal!Base + row \in Nat
    BY <1>1, <1>2, PicturesTyped
<1>4. /\ IsPlacement(q) /\ q.id = id /\ q.image = image
      /\ q.generation = resources[image] /\ q.alternate = alternateScreen
  <2> DEFINE generation == resources[image]
             line == Terminal!Base + row
  <2>1. generation \in {0, 1} /\ line \in Nat
      BY <1>3
  <2> HIDE DEF generation, line
  <2> DEFINE new == Terminal!NewPlacement(id, image, generation, line, col, span)
  <2>2. /\ IsPlacement(new) /\ new.id = id /\ new.image = image
        /\ new.generation = generation /\ new.alternate = alternateScreen
      BY <1>2, <2>1, NewIsPlacement
  <2> QED BY <2>2, Zenon DEF generation, line
<1> HIDE DEF q
<1>5. Backed(sidecars \cup {q}, resources, reserved + 1)
    BY <1>1, <1>4, BackedOneMore, Zenon DEF PInv
<1>6. NoneLeft(alternateScreen, sidecars')
    BY <1>1, <1>4, Zenon DEF PInv, NoneLeft
<1> QED BY <1>1, <1>5, <1>6, JobFollowsMoved, SameScreen, Zenon

(* What a deletion does when "matched" are the placements it matches.       *)
Deletes(matched, deleteResource) ==
    LET refs == Terminal!Refs(matched)
        retired == IF deleteResource THEN {p \in sidecars : Terminal!Ref(p) \in refs} ELSE matched
        remaining == sidecars \ retired
        removed == Terminal!FinalEphemeral(retired, remaining) \cup (IF deleteResource THEN refs ELSE {})
    IN /\ matched \subseteq sidecars
       /\ sidecars' = remaining
       /\ resources' = Terminal!Without(removed)
       /\ reserved' = reserved - Cardinality(retired)
       /\ decode' = Terminal!SnapshotMoved(Terminal!ImagesMoved(decode))
       /\ UNCHANGED Terminal!screenVars

(* What remains is backed, and no local resource outlives its last placement. *)
LEMMA DeletesKeep ==
    ASSUME PInv, NEW matched, NEW deleteResource \in BOOLEAN, Deletes(matched, deleteResource)
    PROVE  PInv'
<1> DEFINE refs == Terminal!Refs(matched)
           retired == IF deleteResource THEN {p \in sidecars : Terminal!Ref(p) \in refs} ELSE matched
           remaining == sidecars \ retired
           removed == Terminal!FinalEphemeral(retired, remaining) \cup (IF deleteResource THEN refs ELSE {})
<1>1. /\ sidecars' = remaining /\ resources' = Terminal!Without(removed)
      /\ reserved' = reserved - Cardinality(retired)
      /\ decode' = Terminal!SnapshotMoved(Terminal!ImagesMoved(decode)) /\ UNCHANGED Terminal!screenVars
      /\ retired \subseteq sidecars
    BY Zenon DEF Deletes
<1>2. /\ IsFiniteSet(sidecars) /\ IdsUnique(sidecars)
      /\ \A p \in sidecars : IsPlacement(p) /\ resources[p.image] = p.generation
      /\ resources \in [Terminal!ImageIDs -> {-1, 0, 1}]
      /\ \A i \in Local : resources[i] # -1 => \E p \in sidecars : p.image = i
      /\ reserved = Cardinality(sidecars) /\ reserved <= PlacementLimit
    BY Zenon DEF PInv, Backed
<1>3. /\ IsFiniteSet(remaining)
      /\ Cardinality(remaining) = reserved - Cardinality(retired)
      /\ Cardinality(retired) \in Nat /\ reserved \in Nat
  <2>1. IsFiniteSet(retired)
      BY <1>1, <1>2, FS_Subset, Zenon
  <2>2. IsFiniteSet(remaining)
        /\ Cardinality(remaining) = Cardinality(sidecars) - Cardinality(sidecars \cap retired)
    <3> HIDE DEF retired
    <3> QED BY <1>2, FS_Difference, Zenon
  <2> HIDE DEF retired
  <2>3. sidecars \cap retired = retired
      BY <1>1, Zenon
  <2> QED BY <1>2, <2>1, <2>2, <2>3, FS_CardinalityType, Zenon
<1>4. ASSUME NEW p \in remaining PROVE Terminal!Ref(p) \notin removed
  <2>1. Terminal!Ref(p) \in Terminal!Refs(remaining)
      BY Zenon DEF Terminal!Refs
  <2>2. Terminal!Ref(p) \notin Terminal!FinalEphemeral(retired, remaining)
    <3> HIDE DEF retired, remaining
    <3> QED BY <2>1, Zenon DEF Terminal!FinalEphemeral
  <2>3. deleteResource => Terminal!Ref(p) \notin refs
      BY Zenon
  <2> QED BY <2>2, <2>3, Zenon
<1>5. ASSUME NEW i \in Terminal!ImageIDs, <<i, resources[i]>> \notin removed
      PROVE  resources'[i] = resources[i]
    BY <1>1, <1>5, Zenon DEF Terminal!Without
<1>6. ASSUME NEW i \in Terminal!ImageIDs, resources'[i] # -1
      PROVE  <<i, resources[i]>> \notin Terminal!FinalEphemeral(retired, remaining) /\ resources[i] # -1
    BY <1>1, <1>6, Zenon DEF Terminal!Without
<1> HIDE DEF removed
<1>7. \A p \in remaining : IsPlacement(p) /\ resources'[p.image] = p.generation
  <2> SUFFICES ASSUME NEW p \in remaining
               PROVE  IsPlacement(p) /\ resources'[p.image] = p.generation
      BY Zenon
  <2>1. IsPlacement(p) /\ resources[p.image] = p.generation /\ p.image \in Terminal!ImageIDs
      BY <1>2 DEF IsPlacement
  <2>2. <<p.image, resources[p.image]>> = Terminal!Ref(p)
      BY <2>1, Zenon DEF Terminal!Ref
  <2> QED BY <1>4, <1>5, <2>1, <2>2, Zenon
<1>8. ASSUME NEW i \in Local, resources'[i] # -1 PROVE \E p \in remaining : p.image = i
  <2> HIDE DEF retired
  <2>1. i \in Terminal!ImageIDs /\ ~Terminal!Durable(i)
      BY TerminalNumbers, Zenon DEF Terminal!ImageIDs, Terminal!Durable
  <2>2. <<i, resources[i]>> \notin Terminal!FinalEphemeral(retired, remaining) /\ resources[i] # -1
      BY <1>6, <1>8, <2>1, Zenon
  <2>3. PICK p \in sidecars : p.image = i
      BY <1>2, <2>2, Zenon
  <2>4. CASE p \in retired
    <3>1. Terminal!Ref(p) = <<i, resources[i]>> /\ Terminal!Ref(p)[1] = i /\ Terminal!Ref(p)[2] = resources[i]
        BY <1>2, <2>3 DEF Terminal!Ref
    <3>2. Terminal!Ref(p) \in Terminal!Refs(retired)
        BY <2>4, Zenon DEF Terminal!Refs
    <3>3. Terminal!Ref(p) \in Terminal!Refs(remaining)
      <4> HIDE DEF remaining
      <4> QED BY <2>1, <2>2, <3>1, <3>2, Zenon DEF Terminal!FinalEphemeral
    <3>4. PICK q \in remaining : Terminal!Ref(p) = Terminal!Ref(q)
        BY <3>3, Zenon DEF Terminal!Refs
    <3>5. q.image = i
        BY <3>1, <3>4 DEF Terminal!Ref
    <3> QED BY <3>5, Zenon
  <2> QED BY <2>3, <2>4, Zenon
<1>9. resources' \in [Terminal!ImageIDs -> {-1, 0, 1}]
    BY <1>1, <1>2 DEF Terminal!Without
<1>10. Backed(sidecars', resources', reserved')
  <2>1. IdsUnique(remaining)
      BY <1>2, Zenon DEF IdsUnique
  <2>2. reserved' = Cardinality(remaining) /\ reserved' <= PlacementLimit
      BY <1>1, <1>2, <1>3, TerminalNumbers
  <2> HIDE DEF remaining
  <2> QED BY <1>1, <1>3, <1>7, <1>8, <1>9, <2>1, <2>2, Zenon DEF Backed
<1>11. NoneLeft(alternateScreen, sidecars')
    BY <1>1, Zenon DEF PInv, NoneLeft
<1> QED BY <1>1, <1>10, <1>11, JobFollowsMoved, SameScreen, Zenon

LEMMA DeleteStep ==
    ASSUME PInv, NEW deleteResource \in BOOLEAN,
           \/ Terminal!DeleteAll(deleteResource)
           \/ \E image \in Wire : Terminal!DeleteImage(image, deleteResource)
           \/ \E row, col : Terminal!DeleteUnderCursor(row, col, deleteResource)
    PROVE  PInv'
<1>1. CASE Terminal!DeleteAll(deleteResource)
  <2> DEFINE matched == {p \in Terminal!Active : p.image \in Wire /\ TRUE}
  <2>1. Deletes(matched, deleteResource)
      BY <1>1, SameCount, Zenon DEF Terminal!DeleteAll, Terminal!Delete, Deletes, Terminal!Active, Terminal!Side
  <2> QED BY <2>1, DeletesKeep, Zenon
<1>2. ASSUME NEW image \in Wire, Terminal!DeleteImage(image, deleteResource) PROVE PInv'
  <2> DEFINE matched == {p \in Terminal!Active : p.image \in Wire /\ p.image = image}
  <2>1. Deletes(matched, deleteResource)
      BY <1>2, SameCount, Zenon DEF Terminal!DeleteImage, Terminal!Delete, Deletes, Terminal!Active, Terminal!Side
  <2> QED BY <2>1, DeletesKeep, Zenon
<1>3. ASSUME NEW row, NEW col, Terminal!DeleteUnderCursor(row, col, deleteResource) PROVE PInv'
  <2> DEFINE cursor == Terminal!Rect(Terminal!Base + row, Terminal!Base + row + 1, col, col + 1)
             matched == {p \in Terminal!Active : p.image \in Wire
                                          /\ Terminal!Intersect(Terminal!PlacementRect(p), cursor)}
  <2>1. Deletes(matched, deleteResource)
      BY <1>3, SameCount, Zenon DEF Terminal!DeleteUnderCursor, Terminal!Delete, Deletes, Terminal!Active, Terminal!Side
  <2> QED BY <2>1, DeletesKeep, Zenon
<1> QED BY <1>1, <1>2, <1>3, Zenon

LEMMA NewIsAnchored ==
    ASSUME PInv, NEW kind \in {"kitty", "local"}, NEW image \in Terminal!ImageIDs, NEW id,
           NEW row \in Nat, NEW col \in Terminal!LiveCols, NEW span \in Spans
    PROVE  JobFollows(Terminal!NewJob(kind, image, id, row, col, span), alternateScreen)
<1> DEFINE j == Terminal!NewJob(kind, image, id, row, col, span)
<1>1. j.id = id /\ j.row = Terminal!Base + row /\ j.col = col /\ j.on = <<Terminal!Base + row, col>>
    BY DEF Terminal!NewJob
<1>2. j.alternate = alternateScreen /\ alternateScreen \in BOOLEAN
    BY Zenon DEF Terminal!NewJob, PInv, ScreenTyped
<1>3. Terminal!Base + row \in Nat
    BY PicturesTyped
<1>4. j \in [kind : {"kitty", "local"}, image : Terminal!ImageIDs, id : {j.id}, span : Spans,
             row : Nat, col : Terminal!LiveCols, alternate : BOOLEAN, on : {j.on},
             imageMoved : BOOLEAN, snapshotMoved : BOOLEAN]
    BY <1>2, <1>3 DEF Terminal!NewJob
<1> HIDE DEF j
<1>5. IsAnchored(j)
    BY <1>1, <1>4, Zenon DEF IsAnchored
<1> QED BY <1>2, <1>5, Zenon DEF JobFollows, j

(* A decode begins or ends, and no placement changes.                       *)
LEMMA DecodeAlone ==
    ASSUME PInv, UNCHANGED <<Terminal!screenVars, sidecars, resources, reserved>>,
           JobFollows(decode', alternateScreen)
    PROVE  PInv'
<1>1. Backed(sidecars', resources', reserved') /\ NoneLeft(alternateScreen, sidecars')
    BY Zenon DEF PInv
<1> QED BY <1>1, SameScreen, Zenon

LEMMA SubmitStep ==
    ASSUME PInv, NEW image \in Terminal!ImageIDs, NEW id, NEW row \in Nat, NEW col \in Terminal!LiveCols,
           NEW span \in Spans,
           Terminal!SubmitKitty(image, id, row, col, span) \/ Terminal!SubmitLocal(image, row, col, span)
    PROVE  PInv'
<1>1. /\ UNCHANGED <<Terminal!screenVars, sidecars, resources, reserved>>
      /\ \/ decode' = Terminal!NewJob("kitty", image, id, row, col, span)
         \/ decode' = Terminal!NewJob("local", image, image, row, col, span)
    BY Zenon DEF Terminal!SubmitKitty, Terminal!SubmitLocal
<1>2. JobFollows(decode', alternateScreen)
    BY <1>1, NewIsAnchored, Zenon
<1> QED BY <1>1, <1>2, DecodeAlone, Zenon

LEMMA EndChunkStep ==
    ASSUME PInv, Terminal!EndChunk
    PROVE  PInv'
<1>1. /\ UNCHANGED <<Terminal!screenVars, sidecars, resources, reserved>>
      /\ decode' = IF snapshotStale THEN Terminal!SnapshotMoved(decode) ELSE decode
    BY Zenon DEF Terminal!EndChunk
<1>2. JobFollows(decode', alternateScreen)
    BY <1>1, JobFollowsMoved, Zenon DEF PInv
<1> QED BY <1>1, <1>2, DecodeAlone, Zenon

LEMMA DecodeRefused ==
    ASSUME PInv, Terminal!Refuse
    PROVE  PInv'
<1>1. UNCHANGED <<Terminal!screenVars, sidecars, resources, reserved>> /\ decode' \in {Terminal!NoJob, Terminal!MovedJob}
    BY Zenon DEF Terminal!Refuse
<1> QED BY <1>1, MovedFollows, DecodeAlone, Zenon

(* A candidate replaces the resource of its image, and its placement takes  *)
(* over a lease.                                                            *)
LEMMA CommittedBacked ==
    ASSUME PInv, NEW image \in Terminal!ImageIDs, NEW id, NEW row \in Nat, NEW col \in Terminal!LiveCols,
           NEW span \in Spans, Terminal!Committed(image, id, row, col, span)
    PROVE  Backed(sidecars', resources', reserved') /\ NoneLeft(alternateScreen, sidecars')
<1> DEFINE old == {p \in sidecars : Terminal!Ref(p) = <<image, resources[image]>>}
           rest == sidecars \ old
           generation == IF resources[image] = 0 THEN 1 ELSE 0
           new == {Terminal!NewPlacement(i, image, generation, row, col, span) : i \in {id} \ {Terminal!NoId}}
           store == [resources EXCEPT ![image] = generation]
           count == reserved - Cardinality(old)
           q == Terminal!NewPlacement(id, image, generation, row, col, span)
<1>1. /\ Terminal!Durable(image) \/ (id # Terminal!NoId /\ ~(resources[image] # -1))
      /\ id # Terminal!NoId => Terminal!FreeId(id, rest) /\ (old # {} \/ reserved < PlacementLimit)
      /\ sidecars' = rest \cup new /\ resources' = store
      /\ reserved' = reserved - Cardinality(old) + Cardinality(new)
    BY SameCount, Zenon DEF Terminal!Committed
<1>2. /\ IsFiniteSet(sidecars) /\ IdsUnique(sidecars)
      /\ \A p \in sidecars : IsPlacement(p) /\ resources[p.image] = p.generation
      /\ resources \in [Terminal!ImageIDs -> {-1, 0, 1}]
      /\ \A i \in Local : resources[i] # -1 => \E p \in sidecars : p.image = i
      /\ reserved = Cardinality(sidecars) /\ reserved <= PlacementLimit
      /\ NoneLeft(alternateScreen, sidecars) /\ alternateScreen \in BOOLEAN
    BY Zenon DEF PInv, Backed, ScreenTyped
<1>3. ASSUME NEW p \in sidecars PROVE p \in old <=> p.image = image
  <2>1. Terminal!Ref(p) = <<p.image, resources[p.image]>>
      BY <1>2, Zenon DEF Terminal!Ref
  <2>2. p.image = image => Terminal!Ref(p) = <<image, resources[image]>>
      BY <2>1, Zenon
  <2>3. Terminal!Ref(p) = <<image, resources[image]>> => p.image = image
      BY DEF Terminal!Ref
  <2> QED BY <2>2, <2>3, Zenon
<1>4. generation \in {0, 1} /\ store \in [Terminal!ImageIDs -> {-1, 0, 1}]
      /\ store[image] = generation /\ \A i \in Terminal!ImageIDs \ {image} : store[i] = resources[i]
    BY <1>2
<1>5. /\ IsFiniteSet(rest) /\ count = Cardinality(rest) /\ count <= PlacementLimit
      /\ count \in Nat /\ (old # {} => count < PlacementLimit)
      /\ (old = {} => count = reserved)
  <2>1. old \subseteq sidecars /\ sidecars \cap old = old
      OBVIOUS
  <2> HIDE DEF old
  <2>2. IsFiniteSet(old)
      BY <1>2, <2>1, FS_Subset, Zenon
  <2>3. IsFiniteSet(rest) /\ Cardinality(rest) = Cardinality(sidecars) - Cardinality(old)
      BY <1>2, <2>1, FS_Difference, Zenon
  <2>4. Cardinality(rest) \in Nat /\ Cardinality(old) \in Nat /\ reserved \in Nat
      BY <1>2, <2>2, <2>3, FS_CardinalityType, Zenon
  <2>5. Cardinality(old) = 0 <=> old = {}
      BY <2>2, FS_EmptySet, Zenon
  <2> HIDE DEF rest
  <2> QED BY <1>2, <2>3, <2>4, <2>5, TerminalNumbers
<1>6. \A p \in rest : IsPlacement(p) /\ store[p.image] = p.generation
  <2> SUFFICES ASSUME NEW p \in rest PROVE IsPlacement(p) /\ store[p.image] = p.generation
      BY Zenon
  <2>1. IsPlacement(p) /\ resources[p.image] = p.generation /\ p.image \in Terminal!ImageIDs
      BY <1>2 DEF IsPlacement
  <2> QED BY <1>3, <1>4, <2>1, Zenon
<1>7. ASSUME NEW i \in Local, i # image, store[i] # -1 PROVE \E p \in rest : p.image = i
  <2>1. i \in Terminal!ImageIDs
      BY Zenon DEF Terminal!ImageIDs
  <2>2. PICK p \in sidecars : p.image = i
      BY <1>2, <1>4, <1>7, <2>1, Zenon
  <2> QED BY <1>3, <1>7, <2>2, Zenon
<1>8. IdsUnique(rest)
    BY <1>2, Zenon DEF IdsUnique
<1>9. CASE id = Terminal!NoId
  <2>1. new = {} /\ Cardinality({}) = 0
      BY <1>9, FS_EmptySet, Zenon
  <2>2. image \notin Local
      BY <1>1, <1>9, TerminalNumbers, Zenon DEF Terminal!Durable
  <2> HIDE DEF new, rest, store, old, generation
  <2>3. sidecars' = rest /\ reserved' = count
      BY <1>1, <1>5, <2>1
  <2>4. Backed(rest, store, count)
      BY <1>4, <1>5, <1>6, <1>7, <1>8, <2>2, Zenon DEF Backed
  <2>5. NoneLeft(alternateScreen, rest)
      BY <1>2, Zenon DEF NoneLeft, rest
  <2> QED BY <1>1, <2>3, <2>4, <2>5, Zenon
<1>10. CASE id # Terminal!NoId
  <2>1. new = {q}
      BY <1>10
  <2>2. IsPlacement(q) /\ q.id = id /\ q.image = image
        /\ q.generation = generation /\ q.alternate = alternateScreen
    <3> HIDE DEF generation
    <3> QED BY <1>2, <1>4, NewIsPlacement
  <2> HIDE DEF q, new, rest, store, old, generation
  <2>3. count < PlacementLimit
      BY <1>1, <1>5, <1>10
  <2>4. q \notin rest
      BY <1>1, <1>10, <2>2, Zenon DEF Terminal!FreeId
  <2>5. IsFiniteSet(rest \cup {q}) /\ Cardinality(rest \cup {q}) = Cardinality(rest) + 1
      BY <1>5, <2>4, FS_AddElement, Zenon
  <2>6. Cardinality({q}) = 1
      BY FS_Singleton, Zenon
  <2>7. reserved' = Cardinality(rest \cup {q}) /\ reserved' <= PlacementLimit
      BY <1>1, <1>5, <2>1, <2>3, <2>5, <2>6, TerminalNumbers
  <2>8. IdsUnique(rest \cup {q})
      BY <1>1, <1>8, <1>10, <2>2, Zenon DEF IdsUnique, Terminal!FreeId
  <2>9. \A p \in rest \cup {q} : IsPlacement(p) /\ store[p.image] = p.generation
      BY <1>4, <1>6, <2>2, Zenon
  <2>10. \A i \in Local : store[i] # -1 => \E p \in rest \cup {q} : p.image = i
      BY <1>7, <2>2, Zenon
  <2>11. Backed(rest \cup {q}, store, reserved')
      BY <1>4, <2>5, <2>7, <2>8, <2>9, <2>10, Zenon DEF Backed
  <2>12. NoneLeft(alternateScreen, rest \cup {q})
      BY <1>2, <2>2, Zenon DEF NoneLeft, rest
  <2> QED BY <1>1, <2>1, <2>11, <2>12, Zenon
<1> QED BY <1>9, <1>10

(* A candidate that is published was decoded for an anchor that has not moved. *)
LEMMA DeliverStep ==
    ASSUME PInv, Terminal!Deliver
    PROVE  PInv'
<1>1. /\ decode # Terminal!NoJob /\ ~Terminal!Stale(decode)
      /\ Terminal!Committed(decode.image, decode.id, decode.row, decode.col, decode.span)
      /\ decode' \in {Terminal!NoJob, Terminal!MovedJob} /\ UNCHANGED Terminal!screenVars
    BY Zenon DEF Terminal!Deliver
<1>2. IsAnchored(decode)
    BY <1>1, Zenon DEF PInv, JobFollows, Terminal!Stale
<1>3. decode.image \in Terminal!ImageIDs /\ decode.row \in Nat /\ decode.col \in Terminal!LiveCols /\ decode.span \in Spans
    BY <1>2 DEF IsAnchored
<1>4. Backed(sidecars', resources', reserved') /\ NoneLeft(alternateScreen, sidecars')
    BY <1>1, <1>3, CommittedBacked, Zenon
<1> QED BY <1>1, <1>4, MovedFollows, SameScreen, Zenon

-----------------------------------------------------------------------------
(* The invariant holds at the start ...                                      *)
LEMMA PicturesBegin ==
    ASSUME Terminal!Init
    PROVE  PInv
<1>1. /\ alternateScreen = FALSE /\ scrollbackRows = 0 /\ scrollbackCapacity \in Capacities
      /\ sidecars = {} /\ reserved = 0 /\ resources = [i \in Terminal!ImageIDs |-> -1] /\ decode = Terminal!NoJob
    BY Zenon DEF Terminal!Init
<1>2. ScreenTyped
    BY <1>1, TerminalNumbers DEF ScreenTyped
<1>3. Backed(sidecars, resources, reserved)
    BY <1>1, BackedNothing, Zenon
<1>4. NoneLeft(alternateScreen, sidecars) /\ JobFollows(decode, alternateScreen)
    BY <1>1, Zenon DEF NoneLeft, JobFollows
<1> QED BY <1>2, <1>3, <1>4, Zenon DEF PInv

(* ... is kept by every step ...                                             *)
LEMMA PicturesStep ==
    ASSUME PInv, Terminal!Next
    PROVE  PInv'
<1>1. CASE Terminal!Screen
  <2>1. ASSUME NEW lines \in 1 .. Rows, Terminal!ScrollUpPrimary(lines) PROVE PInv'
    <3>1. lines \in Nat
        BY TerminalNumbers
    <3> QED BY <2>1, <3>1, ScrollUpPrimaryStep, Zenon
  <2>2. ASSUME NEW bottom \in 1 .. Rows - 1, NEW top \in 0 .. bottom,
               NEW lines \in 1 .. bottom - top + 1,
               Terminal!ScrollUpRegion(top, bottom, lines) \/ Terminal!ScrollDownRegion(top, bottom, lines)
        PROVE  PInv'
    <3>1. bottom \in Nat /\ top \in Nat /\ lines \in Nat
        BY TerminalNumbers
    <3> QED BY <2>2, <3>1, ScrollUpRegionStep, ScrollDownRegionStep, Zenon
  <2>3. ASSUME NEW row \in Terminal!LiveRows, NEW left \in Terminal!LiveCols, NEW right \in left + 1 .. Cols,
               Terminal!Erase(row, row + 1, left, right)
        PROVE  PInv'
    <3>1. row \in Nat /\ row + 1 \in Nat /\ left \in Nat /\ right \in Nat
        BY TerminalNumbers DEF Terminal!LiveRows, Terminal!LiveCols
    <3> QED BY <2>3, <3>1, EraseStep, Zenon
  <2>4. ASSUME Terminal!Erase(0, Rows, 0, Cols) PROVE PInv'
    <3>1. 0 \in Nat /\ Rows \in Nat /\ Cols \in Nat
        BY TerminalNumbers
    <3> QED BY <2>4, <3>1, EraseStep, Zenon
  <2>5. ASSUME NEW insert \in BOOLEAN, NEW row \in Terminal!LiveRows, NEW col \in Terminal!LiveCols,
               NEW n \in 1 .. Cols - col, Terminal!EditChars(insert, row, col, n)
        PROVE  PInv'
    <3>1. row \in Nat /\ col \in Nat /\ n \in Nat
        BY TerminalNumbers DEF Terminal!LiveRows, Terminal!LiveCols
    <3> QED BY <2>5, <3>1, EditCharsStep, Zenon
  <2> QED BY <1>1, <2>1, <2>2, <2>3, <2>4, <2>5, ClearScrollbackStep, EnterAlternateStep,
             ExitAlternateStep, ResetStep, Zenon DEF Terminal!Screen
<1>2. CASE Terminal!Commands
  <2>1. PICK cursor \in Cursors : LET row == cursor[1]  col == cursor[2] IN
          \/ \E deleteResource \in BOOLEAN : Terminal!DeleteUnderCursor(row, col, deleteResource)
          \/ \E span \in Spans :
               \/ \E image \in Wire, id \in PlacementIDs :
                    Terminal!PlaceExisting(image, id, row, col, span)
               \/ \E image \in Wire, id \in PlacementIDs \cup {Terminal!NoId} :
                    Terminal!SubmitKitty(image, id, row, col, span)
               \/ \E image \in Local : Terminal!SubmitLocal(image, row, col, span)
      BY <1>2, Zenon DEF Terminal!Commands
  <2> DEFINE row == cursor[1]
             col == cursor[2]
  <2>2. row \in Nat /\ col \in Terminal!LiveCols
      BY TerminalNumbers DEF Terminal!LiveCols
  <2>3. /\ \A image \in Wire : image \in Terminal!ImageIDs
        /\ \A image \in Local : image \in Terminal!ImageIDs
      BY Zenon DEF Terminal!ImageIDs
  <2> HIDE DEF row, col
  <2>4. ASSUME NEW deleteResource \in BOOLEAN, Terminal!DeleteUnderCursor(row, col, deleteResource)
        PROVE  PInv'
      BY <2>4, DeleteStep, Zenon
  <2>5. ASSUME NEW span \in Spans, NEW image \in Wire, NEW id \in PlacementIDs,
               Terminal!PlaceExisting(image, id, row, col, span)
        PROVE  PInv'
      BY <2>2, <2>3, <2>5, PlaceExistingStep, Zenon
  <2>6. ASSUME NEW span \in Spans, NEW image \in Wire, NEW id,
               Terminal!SubmitKitty(image, id, row, col, span)
        PROVE  PInv'
      BY <2>2, <2>3, <2>6, SubmitStep, Zenon
  <2>7. ASSUME NEW span \in Spans, NEW image \in Local, Terminal!SubmitLocal(image, row, col, span)
        PROVE  PInv'
      BY <2>2, <2>3, <2>7, SubmitStep, Zenon
  <2> QED BY <2>1, <2>4, <2>5, <2>6, <2>7, Zenon DEF row, col
<1>3. ASSUME NEW capacity \in Capacities, Terminal!SetScrollbackCapacity(capacity) PROVE PInv'
  <2>1. capacity \in Nat
      BY TerminalNumbers
  <2> QED BY <1>3, <2>1, SetScrollbackCapacityStep, Zenon
<1> QED BY <1>1, <1>2, <1>3, DeleteStep, EndChunkStep, DeliverStep, DecodeRefused, Zenon DEF Terminal!Next

LEMMA PicturesStutter ==
    ASSUME PInv, UNCHANGED Terminal!vars
    PROVE  PInv'
<1>1. UNCHANGED <<Terminal!screenVars, sidecars, resources, reserved>> /\ decode' = decode
    BY Zenon DEF Terminal!vars, Terminal!screenVars
<1> QED BY <1>1, DecodeAlone, Zenon DEF PInv

(* ... and says what PlacementsKept says.                                    *)
LEMMA PicturesKept ==
    ASSUME PInv
    PROVE  Terminal!PlacementsKept
<1>1. Terminal!AnchorsFollowText
  <2>1. ASSUME NEW p \in sidecars, NEW o \in DOMAIN p.on
        PROVE  p.on[o] = <<p.row + o[1], p.col + o[2]>>
      BY PicturesTyped, Zenon DEF IsPlacement
  <2>2. Terminal!Anchored(decode) => decode.on = <<decode.row, decode.col>> /\ decode.alternate = alternateScreen
      BY Zenon DEF PInv, JobFollows, Terminal!Anchored, IsAnchored
  <2> QED BY <2>1, <2>2, Zenon DEF Terminal!AnchorsFollowText
<1>2. Terminal!PlacementsBacked
  <2>1. ~alternateScreen => Terminal!Side(TRUE) = {}
    <3>1. ASSUME alternateScreen = FALSE, NEW p \in sidecars PROVE p.alternate # TRUE
        BY <3>1, Zenon DEF PInv, NoneLeft
    <3> QED BY <3>1, Zenon DEF Terminal!Side, PInv, ScreenTyped
  <2> QED BY <2>1, SameCount, Zenon DEF PInv, Backed, Terminal!PlacementsBacked
<1> QED BY <1>1, <1>2 DEF Terminal!PlacementsKept

(* For any size of the screens, any images and any lengths of history,      *)
(* placements and captured anchors stay on their text, and agree with       *)
(* resources and reservations: PInv is also an invariant of the steps of    *)
(* the other components, which leave the terminal alone.                    *)
THEOREM PlacementsAlwaysKept == MCSpec => []PlacementsKept
<1>1. MCInit => PInv BY PicturesBegin DEF MCInit
<1>2. PInv /\ [StoreStep \/ TerminalStep \/ BudgetStep \/ ParserStep]_allVars
      => PInv'
    <2>1. PInv /\ UNCHANGED terminalVars => PInv'
        BY PicturesStutter, Zenon DEF terminalVars, Terminal!vars
    <2>2. StoreStep \/ BudgetStep \/ ParserStep => UNCHANGED terminalVars
        BY Zenon DEF StoreStep, BudgetStep, ParserStep
    <2>3. TerminalStep => Terminal!Next BY Zenon DEF TerminalStep
    <2>4. UNCHANGED allVars => UNCHANGED terminalVars BY DEF allVars
    <2> QED BY <2>1, <2>2, <2>3, <2>4, PicturesStep
<1>3. PInv => PlacementsKept BY PicturesKept DEF PlacementsKept
<1> QED BY <1>1, <1>2, <1>3, PTL DEF MCSpec
==============================================================================
