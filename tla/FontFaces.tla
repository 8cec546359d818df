----------------------------- MODULE FontFaces -----------------------------
(***************************************************************************)
(* internal/fontglyph/cache: the cache of parsed font faces.  Goroutines   *)
(* acquire faces by key; the first to ask for a source loads its bytes and *)
(* the first to ask for a face parses it, both outside the lock, while the *)
(* others wait.  Faces in use are pinned by leases; the least recently     *)
(* used of the others are evicted to stay under two limits.                *)
(*                                                                         *)
(* One action is one critical section of Manager.mu, with the private work *)
(* before it.  Entries and blobs are Go pointers that outlive their place  *)
(* in the maps: they are numbered as they are allocated, and a goroutine   *)
(* keeps the numbers it holds.  A face owner is known by its entry.        *)
(***************************************************************************)
EXTENDS Integers, Sequences, FiniteSets, Functions

CONSTANTS
    Callers,            \* goroutines that acquire faces
    Keys, Sources,
    SourceOf,           \* the source of each key
    KnownSize,          \* the size callers state for a source, 0 if unknown
    LoadSizes,          \* the sizes a load may turn out to have
    MaxFaces, MaxBytes, \* limits of the manager
    MaxEntries          \* bound: entries ever allocated

ASSUME KeyAssumption == SourceOf \in [Keys -> Sources]
ASSUME SizeAssumption ==
    /\ KnownSize \in [Sources -> Nat] /\ LoadSizes \subseteq Nat
    /\ {MaxFaces, MaxBytes, MaxEntries} \subseteq Nat
ASSUME CallersAssumption == IsFiniteSet(Callers)

VARIABLES
    cache,              \* the Manager, and every entry and blob it allocated
    owner,              \* each entry's face owner: "none", "live" or "closed"
    call                \* each goroutine's call of Acquire, and its lease

vars == <<cache, owner, call>>

Entry == [key : Keys, state : {"loading", "ready", "missing"}, waiters : Nat,
          pins : Nat, source : Nat, failed : BOOLEAN]
Blob == [of : Sources, state : {"loading", "ready"}, reserved : Nat, data : Nat, refs : Int,
         failed : BOOLEAN]

NoCall == [at |-> "idle", entry |-> 0, evicted |-> {}]

Init ==
    /\ cache = [entries |-> <<>>, sources |-> <<>>, bytes |-> 0, recency |-> <<>>,
                entry |-> <<>>, blob |-> <<>>]
    /\ owner = <<>>
    /\ call = [c \in Callers |-> NoCall]

-----------------------------------------------------------------------------
(* The manager's operations, as functions of its state m. *)
Without(f, x) == [y \in DOMAIN f \ {x} |-> f[y]]
With(f, x, v) == [y \in DOMAIN f \cup {x} |-> IF y = x THEN v ELSE f[y]]

Reservation(s) == IF KnownSize[s] = 0 THEN MaxBytes ELSE KnownSize[s]

FacesIn(m) == {m.entries[k] : k \in DOMAIN m.entries}

(* sourceCharge *)
Charge(blob) == IF blob.reserved # 0 THEN blob.reserved ELSE blob.data

Touched(m, e) == Append(SelectSeq(m.recency, LAMBDA x : x # e), e)

Bytes(m, blobs) == SumFunctionOnSet([b \in blobs |-> Charge(m.blob[b])], blobs)

References(m, faces, b) == Cardinality({e \in faces : m.entry[e].source = b})

ReleasedNever(m, faces) ==                                        \* a mutant
    [m EXCEPT !.blob =
        [b \in DOMAIN m.blob |-> [m.blob[b] EXCEPT !.refs = @ - References(m, faces, b)]]]
(* releaseSourceLocked, for each of the faces: a source that is referred to *)
(* by no other goes.                                                        *)
Released(m, faces) ==
    LET free == {b \in DOMAIN m.blob : /\ m.blob[b].refs = References(m, faces, b)
                                       /\ m.blob[b].refs # 0}
    IN  [m EXCEPT
            !.blob = [b \in DOMAIN m.blob |->
                [m.blob[b] EXCEPT !.refs = @ - References(m, faces, b),
                                  !.data = IF b \in free THEN 0 ELSE @]],
            !.sources = [s \in {s \in DOMAIN @ : @[s] \notin free} |-> @[s]],
            !.bytes = @ - Bytes(m, free)]

(* detachFaceLocked, for each of the faces *)
Detached(m, faces) ==
    [Released(m, faces) EXCEPT
        !.entries = [k \in {k \in DOMAIN @ : @[k] \notin faces} |-> @[k]],
        !.recency = SelectSeq(@, LAMBDA e : e \notin faces),
        !.entry = [e \in DOMAIN @ |->
            IF e \in faces THEN [@[e] EXCEPT !.state = "missing", !.source = 0] ELSE @[e]]]

EvictsPinned(m, e) == m.entry[e].state = "ready"                  \* a mutant
Evictable(m, e) == m.entry[e].state = "ready" /\ m.entry[e].pins = 0

CountsBytesOnly(m, faces, more) == m.bytes + more <= MaxBytes     \* a mutant
HasRoom(m, faces, more) ==
    /\ Cardinality(DOMAIN m.entries) + faces <= MaxFaces
    /\ m.bytes + more <= MaxBytes

(* makeRoomLocked: the least recently used faces go, no more than it takes, *)
(* until there is room or all are pinned or loading; none goes for the sake *)
(* of what exceeds a limit by itself.                                       *)
MakeRoom(m, faces, more) ==
    LET fits == faces <= MaxFaces /\ more <= MaxBytes
        last == Cardinality(FacesIn(m))    \* recency has no face twice
        Oldest(n) == {e \in FacesIn(m) : Evictable(m, e) /\ \E i \in DOMAIN m.recency :
                                                             i <= n /\ m.recency[i] = e}
        enough == {n \in 0..last : HasRoom(Detached(m, Oldest(n)), faces, more)}
        evicted == IF ~fits THEN {}
                   ELSE Oldest(IF enough = {} THEN last
                               ELSE CHOOSE n \in enough : \A i \in enough : n <= i)
    IN  [m |-> Detached(m, evicted), evicted |-> evicted, ok |-> fits /\ enough # {}]

ClosesNone(evicted) == owner                                      \* a mutant
(* closeEvictedOwners, outside the lock *)
Close(evicted) == [e \in DOMAIN owner |-> IF e \in evicted THEN "closed" ELSE owner[e]]

Leased(e) == [NoCall EXCEPT !.at = "leased", !.entry = e]
Proceed(c, at) == call' = [call EXCEPT ![c].at = at]

-----------------------------------------------------------------------------
(* Acquire finds the face ready, and pins it ... *)
AcquireHit(c, k) ==
    LET e == cache.entries[k]
    IN /\ call[c] = NoCall /\ k \in DOMAIN cache.entries
       /\ cache.entry[e].state = "ready"
       /\ cache' = [cache EXCEPT !.entry[e].pins = @ + 1, !.recency = Touched(cache, e)]
       /\ call' = [call EXCEPT ![c] = Leased(e)]
       /\ UNCHANGED owner

(* ... or another goroutine at work on it, and waits ... *)
AcquireWait(c, k) ==
    LET e == cache.entries[k]
    IN /\ call[c] = NoCall /\ k \in DOMAIN cache.entries
       /\ cache.entry[e].state = "loading"
       /\ cache' = [cache EXCEPT !.entry[e].waiters = @ + 1]
       /\ call' = [call EXCEPT ![c] = [NoCall EXCEPT !.at = "waiting", !.entry = e]]
       /\ UNCHANGED owner

NewEntry(k, b) == [key |-> k, state |-> "loading", waiters |-> 0, pins |-> 0,
                   source |-> b, failed |-> FALSE]

Started(c, at, e, evicted) ==
    call' = [call EXCEPT ![c] = [at |-> at, entry |-> e, evicted |-> evicted]]

MissingOrLoading(s) ==                                            \* a mutant
    s \in DOMAIN cache.sources => cache.blob[cache.sources[s]].state = "loading"
Missing(s) == s \notin DOMAIN cache.sources

(* ... or nothing of its source, and reserves the bytes to load it ... *)
AcquireSource(c, k) ==
    LET s == SourceOf[k]
        e == Len(cache.entry) + 1
        b == Len(cache.blob) + 1
        r == MakeRoom(cache, 1, Reservation(s))
    IN /\ call[c] = NoCall /\ e <= MaxEntries
       /\ k \notin DOMAIN cache.entries /\ Missing(s)
       /\ r.ok
       /\ cache' = [r.m EXCEPT
              !.entry = Append(@, NewEntry(k, b)),
              !.blob = Append(@, [of |-> s, state |-> "loading", reserved |-> Reservation(s),
                                  data |-> 0, refs |-> 1, failed |-> FALSE]),
              !.entries = With(@, k, e), !.sources = With(@, s, b),
              !.bytes = @ + Reservation(s)]
       /\ owner' = Append(owner, "none")
       /\ Started(c, "load", e, r.evicted)

HoldsNever(m, b) == m                                             \* a mutant
(* The pending face keeps its source while admission evicts. *)
Holds(m, b) == [m EXCEPT !.blob[b].refs = @ + 1]

(* ... or another face of its source, loaded or being loaded. *)
AcquireShared(c, k) ==
    LET s == SourceOf[k]
        b == cache.sources[s]
        e == Len(cache.entry) + 1
        r == MakeRoom(Holds(cache, b), 1, 0)
    IN /\ call[c] = NoCall /\ e <= MaxEntries
       /\ k \notin DOMAIN cache.entries /\ s \in DOMAIN cache.sources
       /\ r.ok
       /\ cache' = [r.m EXCEPT
              !.entry = Append(@, NewEntry(k, b)),
              !.entries = With(@, k, e)]
       /\ owner' = Append(owner, "none")
       /\ Started(c, IF cache.blob[b].state = "loading" THEN "waitSource" ELSE "parse",
                  e, r.evicted)

(* There is no room: ErrCapacity. *)
AcquireRefused(c, k) ==
    LET s == SourceOf[k]
        known == s \in DOMAIN cache.sources
        b == cache.sources[s]
        r == IF known THEN MakeRoom(Holds(cache, b), 1, 0)
             ELSE MakeRoom(cache, 1, Reservation(s))
    IN /\ call[c] = NoCall
       /\ k \notin DOMAIN cache.entries
       /\ ~r.ok
       /\ cache' = IF known THEN [r.m EXCEPT !.blob[b].refs = @ - 1] ELSE r.m
       /\ owner' = Close(r.evicted)
       /\ UNCHANGED call

-----------------------------------------------------------------------------
SourceOfCall(c) == cache.entry[call[c].entry].source

Finished(c, e) == call' = [call EXCEPT ![c] = IF e = 0 THEN NoCall ELSE Leased(e)]

ReservesOnly(n, b) == 0                                           \* a mutant
Growth(n, b) == n - cache.blob[b].reserved

(* The load returned n bytes: publishSource, which may need more room.      *)
LoadPublishes(c, n) ==
    LET b == SourceOfCall(c)
        r == IF Growth(n, b) > 0 THEN MakeRoom(cache, 0, Growth(n, b))
             ELSE [m |-> cache, evicted |-> {}, ok |-> TRUE]
    IN /\ call[c].at = "load" /\ n <= MaxBytes
       /\ IF r.ok
          THEN /\ cache' = [r.m EXCEPT
                      !.bytes = @ + Growth(n, b),
                      !.blob[b] = [@ EXCEPT !.reserved = 0, !.data = n, !.state = "ready"]]
               /\ Started(c, "parse", call[c].entry, call[c].evicted \cup r.evicted)
          ELSE /\ cache' = r.m
               /\ Started(c, "fail", call[c].entry, call[c].evicted \cup r.evicted)
       /\ UNCHANGED owner

FacesFailedOwn(c) == {call[c].entry}                              \* a mutant
FacesFailed(c) == {cache.entries[k] : k \in
    {k \in DOMAIN cache.entries : cache.entry[cache.entries[k]].source = SourceOfCall(c)}}

(* The load failed or returned too much, or found no room: failSource       *)
(* gives up every face of the source and wakes who waits for them.          *)
FailSource(c) ==
    LET b == SourceOfCall(c)
        S == FacesFailed(c)
    IN /\ call[c].at \in {"load", "fail"}
       /\ cache' = [cache EXCEPT
              !.sources = Without(@, cache.blob[b].of),
              !.bytes = @ - cache.blob[b].reserved,
              !.blob[b] = [@ EXCEPT !.reserved = 0, !.refs = 0, !.failed = TRUE],
              !.entries = [k \in {k \in DOMAIN @ : @[k] \notin S} |-> @[k]],
              !.entry = [e \in DOMAIN @ |->
                  IF e \in S THEN [@[e] EXCEPT !.state = "missing", !.failed = TRUE]
                  ELSE @[e]]]
       /\ owner' = Close(call[c].evicted)
       /\ Finished(c, 0)

(* The wait for another goroutine's load is over. *)
SourceLoaded(c) ==
    LET b == SourceOfCall(c)
    IN /\ call[c].at = "waitSource"
       /\ cache.blob[b].state = "ready" \/ cache.blob[b].failed
       /\ IF cache.blob[b].failed
          THEN Finished(c, 0) /\ owner' = Close(call[c].evicted)
          ELSE Proceed(c, "parse") /\ UNCHANGED owner
       /\ UNCHANGED cache

PinsOwn(e) == 1                                                   \* a mutant
PinsAtBirth(e) == 1 + cache.entry[e].waiters

(* The parser returned a face: those who wait for it are pinned with it.    *)
ParseSucceeds(c) ==
    LET e == call[c].entry
    IN /\ call[c].at = "parse"
       /\ cache' = [cache EXCEPT
              !.entry[e] = [@ EXCEPT !.state = "ready", !.pins = PinsAtBirth(e), !.waiters = 0],
              !.recency = Touched(cache, e)]
       /\ owner' = [Close(call[c].evicted) EXCEPT ![e] = "live"]
       /\ Finished(c, e)

(* The parser refused the bytes: failFace. *)
ParseFails(c) ==
    LET e == call[c].entry
        m == [cache EXCEPT !.entries = Without(@, cache.entry[e].key),
                           !.entry[e] = [@ EXCEPT !.state = "missing", !.failed = TRUE]]
    IN /\ call[c].at = "parse"
       /\ cache' = Released(m, {e})
       /\ owner' = Close(call[c].evicted)
       /\ Finished(c, 0)

(* A waiter is woken, and takes the lock again to read the error or the     *)
(* face: it was pinned by the goroutine that woke it.                       *)
Woken(c) ==
    LET e == call[c].entry
    IN /\ call[c].at = "waiting"
       /\ cache.entry[e].state # "loading"
       /\ Finished(c, IF cache.entry[e].failed THEN 0 ELSE e)
       /\ UNCHANGED <<cache, owner>>

(* Lease.Close *)
CloseLease(c) ==
    LET e == call[c].entry
    IN /\ call[c].at = "leased"
       /\ cache' = [cache EXCEPT !.entry[e].pins = IF @ > 0 THEN @ - 1 ELSE @]
       /\ Finished(c, 0)
       /\ UNCHANGED owner

Acquire(c) == \E k \in Keys :
    \/ AcquireHit(c, k) \/ AcquireWait(c, k) \/ AcquireSource(c, k)
    \/ AcquireShared(c, k) \/ AcquireRefused(c, k)

Step(c) ==
    \/ \E n \in LoadSizes : LoadPublishes(c, n)
    \/ FailSource(c) \/ SourceLoaded(c)
    \/ ParseSucceeds(c) \/ ParseFails(c) \/ Woken(c)

Next == \E c \in Callers : Acquire(c) \/ Step(c) \/ CloseLease(c)

Spec == Init /\ [][Next]_vars

(* Loads and parses end, and a goroutine that can go on does. *)
FairSpec == Spec /\ \A c \in Callers : WF_vars(Step(c))
-----------------------------------------------------------------------------
InMap == FacesIn(cache)
At(places) == {c \in Callers : call[c].at \in places}
Users(e, places) == Cardinality({c \in At(places) : call[c].entry = e})

TypeOK ==
    /\ DOMAIN cache.entries \subseteq Keys
    /\ InMap \subseteq DOMAIN cache.entry
    /\ DOMAIN cache.sources \subseteq Sources
    /\ \A s \in DOMAIN cache.sources : cache.sources[s] \in DOMAIN cache.blob
    /\ cache.bytes \in Nat
    /\ cache.recency \in Seq(InMap)
    /\ cache.entry \in Seq(Entry) /\ cache.blob \in Seq(Blob)
    /\ owner \in [DOMAIN cache.entry -> {"none", "live", "closed"}]
    /\ \A c \in Callers :
          /\ call[c].at \in {"idle", "waiting", "load", "fail", "waitSource", "parse", "leased"}
          /\ call[c].entry \in DOMAIN cache.entry \cup {0}
          /\ call[c].evicted \subseteq DOMAIN cache.entry

(* A face that is leased, or promised to a goroutine that was woken and has *)
(* not run yet, is in the cache with its owner open: eviction to make room  *)
(* for others never takes it, on whatever path it was pinned.  And the      *)
(* parser, which runs outside the lock, always has its source's bytes.      *)
InUseKept ==
    \A c \in Callers :
        LET e == call[c].entry IN
        /\ call[c].at = "leased" \/ (call[c].at = "waiting" /\ cache.entry[e].state = "ready")
            => e \in InMap /\ cache.entry[e].state = "ready" /\ owner[e] = "live"
        /\ call[c].at = "parse" =>
               /\ cache.blob[SourceOfCall(c)].refs > 0
               /\ cache.blob[SourceOfCall(c)].data \in LoadSizes

(* The bytes counted are those reserved or held, a source is held by as     *)
(* many faces as are in the cache for it, and by at least one, and no face  *)
(* is without its source: nothing is charged for ever, and nothing stays    *)
(* half made, after a failed load, parse or admission.  The limits on faces *)
(* and bytes hold throughout, although sizes are known only after loading.  *)
(* Pins are exactly the leases held or promised: none is lost, so a face    *)
(* can be evicted once, and only once, they are closed.                     *)
PinsAndBytes ==
    LET held == {cache.sources[s] : s \in DOMAIN cache.sources}
    IN /\ \A e \in InMap : cache.entry[e].source \in held
       /\ cache.bytes = Bytes(cache, held)
       /\ \A b \in held :
             /\ cache.blob[b].refs > 0
             /\ cache.blob[b].refs =
                   Cardinality({e \in InMap : cache.entry[e].source = b})
       /\ Cardinality(InMap) <= MaxFaces /\ cache.bytes <= MaxBytes
       /\ \A e \in InMap :
             IF cache.entry[e].state = "ready"
             THEN cache.entry[e].pins = Users(e, {"leased", "waiting"})
             ELSE cache.entry[e].waiters = Users(e, {"waiting"})

(* Concurrent misses load a source once and parse a face once.  (A goroutine *)
(* that has still to learn that the load failed does not count.)            *)
SingleFlight ==
    LET Working == {c \in At({"load", "fail", "waitSource", "parse"}) :
                       ~cache.blob[SourceOfCall(c)].failed}
    IN \A c, d \in Working : c # d =>
        LET Key(x) == cache.entry[call[x].entry].key IN
        /\ Key(c) # Key(d)
        /\ {c, d} \subseteq At({"load", "fail"}) => SourceOf[Key(c)] # SourceOf[Key(d)]

(* Every face that was made is in the cache, or was evicted and closed, or  *)
(* a goroutine is about to close it; what is closed is out of the cache.    *)
FacesClosed ==
    /\ \A e \in DOMAIN owner : owner[e] = "live" =>
          e \in InMap \/ \E c \in Callers : e \in call[c].evicted
    /\ \A c, d \in Callers : c # d => call[c].evicted \cap call[d].evicted = {}
    /\ \A c \in Callers : \A e \in call[c].evicted : e \notin InMap /\ owner[e] = "live"

(* Memory and faces are accounted for: PinsAndBytes and FacesClosed.        *)
FacesAccounted == PinsAndBytes /\ FacesClosed

(* Acquire returns: every waiter is woken, also when a load or parse fails. *)
AcquireReturns ==
    \A c \in Callers : call[c].at = "waiting" ~> call[c].at \in {"idle", "leased"}
=============================================================================
