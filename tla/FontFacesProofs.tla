-------------------------- MODULE FontFacesProofs --------------------------
EXTENDS FontFaces, SumLemmas, FiniteSetTheorems, TLAPS

(* Proofs about the font face cache (FontFaces). The inductive invariant is *)
(* IInv: the cache's maps, references and bytes agree (Sound), every        *)
(* goroutine's place in Acquire fits the face it is at, and no two at work  *)
(* share a face or a load (CallsSound), and a face's owner is open while it *)
(* is ready and closed, or due to be closed, once it is gone (OwnersSound). *)
(* Each is stated of a value m of the cache, not of the variable, for an    *)
(* action goes through several of them: it marks a source as in use, evicts *)
(* faces until there is room, adds a source and then a face. Between two of *)
(* them a source may have one reference no face has taken up yet: the X of  *)
(* Sound(m, X).                                                             *)

-----------------------------------------------------------------------------
Held(m) == {m.sources[s] : s \in DOMAIN m.sources}
Holders(m, b) == {e \in FacesIn(m) : m.entry[e].source = b}

(* The cache's records are whole: a key leads to a face of its own, a       *)
(* source to a blob of its own, and a face that is not in the map is given  *)
(* up.                                                                      *)
Formed(m) ==
    /\ DOMAIN m = {"entries", "sources", "bytes", "recency", "entry", "blob"}
    /\ m.entry \in Seq(Entry) /\ m.blob \in Seq(Blob)
    /\ DOMAIN m.entries \subseteq Keys /\ IsFiniteSet(DOMAIN m.entries)
    /\ \A k \in DOMAIN m.entries :
          /\ m.entries[k] \in DOMAIN m.entry
          /\ m.entry[m.entries[k]].key = k
          /\ m.entry[m.entries[k]].state \in {"loading", "ready"}
          /\ ~m.entry[m.entries[k]].failed
    /\ \A e \in DOMAIN m.entry \ FacesIn(m) : m.entry[e].state = "missing"
    /\ DOMAIN m.sources \subseteq Sources
    /\ \A s \in DOMAIN m.sources :
          /\ m.sources[s] \in DOMAIN m.blob
          /\ m.blob[m.sources[s]].of = s
          /\ ~m.blob[m.sources[s]].failed

(* A face in the map has the source of its key, loaded if the face is.      *)
Sourced(m) ==
    \A k \in DOMAIN m.entries :
        /\ SourceOf[k] \in DOMAIN m.sources
        /\ m.entry[m.entries[k]].source = m.sources[SourceOf[k]]
        /\ m.entry[m.entries[k]].state = "ready" => m.blob[m.sources[SourceOf[k]]].state = "ready"

(* A source is referred to by its faces, and by the pending face in X, if   *)
(* any; and by one at least.                                                *)
Referred(m, X) ==
    \A b \in Held(m) :
        /\ m.blob[b].refs = Cardinality(Holders(m, b)) + (IF b \in X THEN 1 ELSE 0)
        /\ m.blob[b].refs > 0
        /\ IF m.blob[b].state = "ready"
           THEN m.blob[b].reserved = 0 /\ m.blob[b].data \in LoadSizes
           ELSE m.blob[b].data = 0

Charged(m) ==
    /\ m.bytes = Bytes(m, Held(m))
    /\ m.bytes <= MaxBytes
    /\ Cardinality(DOMAIN m.entries) <= MaxFaces

Sound(m, X) == Formed(m) /\ Sourced(m) /\ Referred(m, X) /\ Charged(m)

(* What a goroutine's place in Acquire says of its face. *)
Placed(m, q) ==
    /\ q.at \in {"idle", "waiting", "load", "fail", "waitSource", "parse", "leased"}
    /\ q.at = "idle" => q = NoCall
    /\ q.at # "idle" => q.entry \in DOMAIN m.entry
    /\ q.at \in {"load", "fail"} =>
          /\ q.entry \in FacesIn(m) /\ m.entry[q.entry].state = "loading"
          /\ m.blob[m.entry[q.entry].source].state = "loading"
    /\ q.at = "waitSource" =>
          \/ q.entry \in FacesIn(m) /\ m.entry[q.entry].state = "loading"
          \/ /\ q.entry \notin FacesIn(m)
             /\ m.entry[q.entry].source \in DOMAIN m.blob
             /\ m.blob[m.entry[q.entry].source].failed
    /\ q.at = "parse" =>
          /\ q.entry \in FacesIn(m) /\ m.entry[q.entry].state = "loading"
          /\ m.blob[m.entry[q.entry].source].state = "ready"
    /\ q.at = "waiting" => q.entry \in FacesIn(m) \/ m.entry[q.entry].failed
    /\ q.at = "leased" => q.entry \in FacesIn(m) /\ m.entry[q.entry].state = "ready"
    /\ q.at \in {"waiting", "leased"} => q.evicted = {}

Distinct(m, calls) ==
    \A c, d \in Callers : c # d =>
        /\ {calls[c].at, calls[d].at} \subseteq {"load", "fail", "waitSource", "parse"}
              => calls[c].entry # calls[d].entry
        /\ {calls[c].at, calls[d].at} \subseteq {"load", "fail"}
              => m.entry[calls[c].entry].source # m.entry[calls[d].entry].source

UsersOf(calls, e) == {c \in Callers : calls[c].at \in {"leased", "waiting"} /\ calls[c].entry = e}

Pinned(m, calls) ==
    \A e \in FacesIn(m) :
        Cardinality(UsersOf(calls, e)) =
            IF m.entry[e].state = "ready" THEN m.entry[e].pins ELSE m.entry[e].waiters

CallsSound(m, calls) ==
    /\ DOMAIN calls = Callers
    /\ \A c \in Callers : Placed(m, calls[c]) /\ DOMAIN calls[c] = {"at", "entry", "evicted"}
    /\ Distinct(m, calls) /\ Pinned(m, calls)

OwnersSound(m, owners, calls) ==
    /\ owners \in Seq({"none", "live", "closed"}) /\ DOMAIN owners = DOMAIN m.entry
    /\ \A e \in FacesIn(m) : owners[e] = IF m.entry[e].state = "ready" THEN "live" ELSE "none"
    /\ \A e \in DOMAIN owners : owners[e] = "live" =>
          e \in FacesIn(m) \/ \E c \in Callers : e \in calls[c].evicted
    /\ \A c \in Callers : \A e \in calls[c].evicted :
          e \in DOMAIN owners /\ e \notin FacesIn(m) /\ owners[e] = "live"
    /\ \A c, d \in Callers : c # d => calls[c].evicted \cap calls[d].evicted = {}

IInv == Sound(cache, {}) /\ CallsSound(cache, call) /\ OwnersSound(cache, owner, call)
-----------------------------------------------------------------------------
(* What the assumptions on the constants give. *)
LEMMA Constants == /\ \A k \in Keys : SourceOf[k] \in Sources
                   /\ \A s \in Sources : KnownSize[s] \in Nat /\ Reservation(s) \in Nat
                   /\ LoadSizes \subseteq Nat /\ IsFiniteSet(Callers)
                   /\ MaxFaces \in Nat /\ MaxBytes \in Nat /\ MaxEntries \in Nat
  BY KeyAssumption, SizeAssumption, CallersAssumption DEF Reservation

(* The faces in the map are entries, one for each key, and finitely many.   *)
LEMMA FacesKeyed ==
    ASSUME NEW m, Formed(m)
    PROVE  /\ FacesIn(m) \subseteq DOMAIN m.entry
           /\ IsFiniteSet(DOMAIN m.entry) /\ IsFiniteSet(FacesIn(m))
           /\ Cardinality(FacesIn(m)) <= Cardinality(DOMAIN m.entries)
           /\ Cardinality(DOMAIN m.entries) \in Nat
           /\ \A e \in FacesIn(m) : /\ m.entry[e].key \in DOMAIN m.entries
                                    /\ m.entries[m.entry[e].key] = e
           /\ \A k \in DOMAIN m.entries : m.entries[k] \in FacesIn(m)
<1>1. FacesIn(m) \subseteq DOMAIN m.entry BY DEF Formed, FacesIn
<1>2. Len(m.entry) \in Nat /\ DOMAIN m.entry = 1..Len(m.entry) BY DEF Formed
<1>3. IsFiniteSet(DOMAIN m.entry) BY <1>2, FS_Interval
<1>4. IsFiniteSet(FacesIn(m)) BY <1>1, <1>3, FS_Subset
<1>5. \A k \in DOMAIN m.entries : m.entries[k] \in FacesIn(m) BY DEF FacesIn
<1>6. \A e \in FacesIn(m) : /\ m.entry[e].key \in DOMAIN m.entries
                            /\ m.entries[m.entry[e].key] = e
    BY DEF FacesIn, Formed
<1>7. Cardinality(FacesIn(m)) <= Cardinality(DOMAIN m.entries)
    <2> DEFINE f == [e \in FacesIn(m) |-> m.entry[e].key]
    <2>1. f \in Injection(FacesIn(m), DOMAIN m.entries) BY <1>6 DEF Injection, IsInjective
    <2>2. IsFiniteSet(DOMAIN m.entries) BY DEF Formed
    <2> QED BY <2>1, <2>2, FS_Injection
<1>8. Cardinality(DOMAIN m.entries) \in Nat BY FS_CardinalityType DEF Formed
<1> QED BY <1>1, <1>3, <1>4, <1>5, <1>6, <1>7, <1>8

(* The sources in the map are blobs, one for each source, finitely many,    *)
(* and charged for a natural number of bytes.                               *)
LEMMA HeldBlobs ==
    ASSUME NEW m, Formed(m)
    PROVE  /\ Held(m) \subseteq DOMAIN m.blob
           /\ IsFiniteSet(DOMAIN m.blob) /\ IsFiniteSet(Held(m))
           /\ \A b \in Held(m) : /\ m.blob[b].of \in DOMAIN m.sources
                                 /\ m.sources[m.blob[b].of] = b
                                 /\ ~m.blob[b].failed
           /\ \A b \in DOMAIN m.blob : m.blob[b] \in Blob /\ Charge(m.blob[b]) \in Nat
           /\ \A s \in DOMAIN m.sources : m.sources[s] \in Held(m)
<1>1. Held(m) \subseteq DOMAIN m.blob BY DEF Formed, Held
<1>2. Len(m.blob) \in Nat /\ DOMAIN m.blob = 1..Len(m.blob) BY DEF Formed
<1>3. IsFiniteSet(DOMAIN m.blob) BY <1>2, FS_Interval
<1>4. IsFiniteSet(Held(m)) BY <1>1, <1>3, FS_Subset
<1>5. \A b \in DOMAIN m.blob : m.blob[b] \in Blob BY DEF Formed
<1>6. \A b \in DOMAIN m.blob : Charge(m.blob[b]) \in Nat BY <1>5 DEF Blob, Charge
<1> QED BY <1>1, <1>3, <1>4, <1>5, <1>6 DEF Held, Formed

(* A set of blobs with natural charges adds up to a natural number.         *)
LEMMA BytesNat ==
    ASSUME NEW m, Formed(m), NEW B \in SUBSET DOMAIN m.blob
    PROVE  IsFiniteSet(B) /\ Bytes(m, B) \in Nat
<1>1. IsFiniteSet(B) BY HeldBlobs, FS_Subset
<1> DEFINE f == [b \in B |-> Charge(m.blob[b])]
<1>2. \A b \in B : f[b] \in Nat BY HeldBlobs
<1>3. SumFunctionOnSet(f, B) \in Nat
    <2> HIDE DEF f
    <2> QED BY <1>1, <1>2, SumElement
<1> QED BY <1>1, <1>3 DEF Bytes

(* Two caches that charge the same for these blobs count the same bytes.    *)
LEMMA BytesSame ==
    ASSUME NEW m, Formed(m), NEW B \in SUBSET DOMAIN m.blob, NEW d,
           \A b \in B : Charge(d.blob[b]) = Charge(m.blob[b])
    PROVE  Bytes(d, B) = Bytes(m, B)
<1>1. [b \in B |-> Charge(d.blob[b])] = [b \in B |-> Charge(m.blob[b])] OBVIOUS
<1> QED BY <1>1 DEF Bytes

(* The bytes of two disjoint sets of blobs.                                 *)
LEMMA BytesUnion ==
    ASSUME NEW m, Formed(m), NEW B \in SUBSET DOMAIN m.blob, NEW C \in SUBSET DOMAIN m.blob,
           B \cap C = {}
    PROVE  Bytes(m, B \cup C) = Bytes(m, B) + Bytes(m, C)
<1> DEFINE f == [b \in B \cup C |-> Charge(m.blob[b])]
           g == [b \in B |-> Charge(m.blob[b])]
           h == [b \in C |-> Charge(m.blob[b])]
<1>1. IsFiniteSet(B) /\ IsFiniteSet(C) BY BytesNat
<1>2. /\ \A b \in B \cup C : f[b] \in Nat
      /\ \A b \in B : f[b] \in Nat /\ g[b] = f[b]
      /\ \A b \in C : f[b] \in Nat /\ h[b] = f[b]
    BY HeldBlobs
<1>3. /\ Bytes(m, B \cup C) = SumFunctionOnSet(f, B \cup C)
      /\ Bytes(m, B) = SumFunctionOnSet(g, B) /\ Bytes(m, C) = SumFunctionOnSet(h, C)
    BY Zenon DEF Bytes
<1> HIDE DEF f, g, h
<1>4. SumFunctionOnSet(f, B \cup C) = SumFunctionOnSet(f, B) + SumFunctionOnSet(f, C)
    BY <1>1, <1>2, SumUnion
<1>5. SumFunctionOnSet(g, B) = SumFunctionOnSet(f, B) BY <1>1, <1>2, SumSame
<1>6. SumFunctionOnSet(h, C) = SumFunctionOnSet(f, C) BY <1>1, <1>2, SumSame
<1> QED BY <1>3, <1>4, <1>5, <1>6

(* The bytes of one blob. *)
LEMMA BytesOne ==
    ASSUME NEW m, Formed(m), NEW b \in DOMAIN m.blob
    PROVE  Bytes(m, {b}) = Charge(m.blob[b])
<1> DEFINE f == [x \in {b} |-> Charge(m.blob[x])]
<1>1. Bytes(m, {b}) = SumFunctionOnSet(f, {b}) BY Zenon DEF Bytes
<1>2. f[b] = Charge(m.blob[b]) /\ f[b] \in Nat BY HeldBlobs
<1> HIDE DEF f
<1>3. IsFiniteSet({b}) /\ \A x \in {b} : f[x] \in Nat BY <1>2, FS_Singleton
<1>4. SumFunctionOnSet(f, {b}) = f[b] + SumFunctionOnSet(f, {b} \ {b}) BY <1>3, SumElement
<1>5. {b} \ {b} = {} OBVIOUS
<1>6. SumFunctionOnSet(f, {b} \ {b}) = 0 BY <1>5, SumEmpty
<1> QED BY <1>1, <1>2, <1>4, <1>6

-----------------------------------------------------------------------------
(* d is what m becomes when the faces F are taken out: by eviction          *)
(* (Detached), or after a failed parse (Released).                          *)
Freed(m, F) == {b \in DOMAIN m.blob : /\ m.blob[b].refs = References(m, F, b)
                                      /\ m.blob[b].refs # 0}

Gone(m, d, F) ==
    /\ F \subseteq FacesIn(m)
    /\ DOMAIN d = DOMAIN m
    /\ DOMAIN d.entries = {k \in DOMAIN m.entries : m.entries[k] \notin F}
    /\ \A k \in DOMAIN d.entries : d.entries[k] = m.entries[k]
    /\ d.entry \in Seq(Entry) /\ DOMAIN d.entry = DOMAIN m.entry
    /\ \A e \in DOMAIN m.entry \ F : d.entry[e] = m.entry[e]
    /\ \A e \in F : d.entry[e].state = "missing"
    /\ d.blob = [b \in DOMAIN m.blob |->
            [m.blob[b] EXCEPT !.refs = @ - References(m, F, b),
                              !.data = IF b \in Freed(m, F) THEN 0 ELSE @]]
    /\ d.sources = [s \in {s \in DOMAIN m.sources : m.sources[s] \notin Freed(m, F)}
                        |-> m.sources[s]]
    /\ d.bytes = m.bytes - Bytes(m, Freed(m, F))

(* A blob with other references and other data. *)
Refilled(x, y, r, n) ==
    /\ y.refs = r /\ y.data = n
    /\ y.of = x.of /\ y.state = x.state /\ y.reserved = x.reserved /\ y.failed = x.failed

(* A blob given other references and other data is a blob, the same         *)
(* otherwise.                                                               *)
LEMMA BlobWith ==
    ASSUME NEW x \in Blob, NEW r \in Int, NEW n \in Nat, NEW y,
           y = [x EXCEPT !.refs = r, !.data = n]
    PROVE  y \in Blob /\ Refilled(x, y, r, n)
<1>1. x = [of |-> x.of, state |-> x.state, reserved |-> x.reserved, data |-> x.data,
           refs |-> x.refs, failed |-> x.failed]
    BY DEF Blob
<1>2. y = [of |-> x.of, state |-> x.state, reserved |-> x.reserved, data |-> n,
           refs |-> r, failed |-> x.failed]
    BY <1>1
<1>3. y.of = x.of /\ y.state = x.state /\ y.reserved = x.reserved /\ y.refs = r /\ y.data = n
    BY <1>2
<1>4. y.failed = x.failed BY Zenon, <1>2
<1>5. /\ x.of \in Sources /\ x.state \in {"loading", "ready"} /\ x.reserved \in Nat
      /\ x.failed \in BOOLEAN
    BY DEF Blob
<1>6. y \in Blob BY <1>2, <1>5 DEF Blob
<1>7. Refilled(x, y, r, n) BY Zenon, <1>3, <1>4 DEF Refilled
<1> QED BY <1>6, <1>7

(* What the blobs are then. *)
BlobsLeft(m, d, F) ==
    /\ DOMAIN d.blob = DOMAIN m.blob /\ d.blob \in Seq(Blob)
    /\ \A b \in DOMAIN m.blob :
          /\ d.blob[b].of = m.blob[b].of /\ d.blob[b].state = m.blob[b].state
          /\ d.blob[b].reserved = m.blob[b].reserved
          /\ d.blob[b].failed = m.blob[b].failed
          /\ d.blob[b].refs = m.blob[b].refs - References(m, F, b)
          /\ b \notin Freed(m, F) => d.blob[b].data = m.blob[b].data

(* Taking faces out leaves blobs: with the references of the faces that     *)
(* went taken off, and with their data only as long as a face refers to     *)
(* them.                                                                    *)
LEMMA GoneBlobs ==
    ASSUME NEW m, Formed(m), NEW F \in SUBSET FacesIn(m), NEW d, Gone(m, d, F)
    PROVE  /\ \A b \in DOMAIN m.blob : References(m, F, b) \in Nat
           /\ BlobsLeft(m, d, F)
<1>1. ASSUME NEW b PROVE References(m, F, b) \in Nat
    <2>1. {e \in F : m.entry[e].source = b} \in SUBSET FacesIn(m) OBVIOUS
    <2>2. IsFiniteSet({e \in F : m.entry[e].source = b}) BY <2>1, FacesKeyed, FS_Subset
    <2> QED BY <2>2, FS_CardinalityType DEF References
<1>2. \A b \in DOMAIN m.blob : m.blob[b] \in Blob BY HeldBlobs
<1> DEFINE n(b) == IF b \in Freed(m, F) THEN 0 ELSE m.blob[b].data
           g(b) == [m.blob[b] EXCEPT !.refs = @ - References(m, F, b),
                                     !.data = IF b \in Freed(m, F) THEN 0 ELSE @]
<1>3. ASSUME NEW b \in DOMAIN m.blob
      PROVE  /\ g(b) \in Blob
             /\ g(b).of = m.blob[b].of /\ g(b).state = m.blob[b].state
             /\ g(b).reserved = m.blob[b].reserved
             /\ g(b).failed = m.blob[b].failed
             /\ g(b).refs = m.blob[b].refs - References(m, F, b)
             /\ b \notin Freed(m, F) => g(b).data = m.blob[b].data
    <2>1. m.blob[b].refs - References(m, F, b) \in Int /\ n(b) \in Nat BY <1>1, <1>2 DEF Blob
    <2>2. g(b) = [m.blob[b] EXCEPT !.refs = m.blob[b].refs - References(m, F, b), !.data = n(b)]
        OBVIOUS
    <2>3. b \notin Freed(m, F) => n(b) = m.blob[b].data OBVIOUS
    <2> HIDE DEF g, n
    <2>4. \A x \in Blob, r \in Int, z \in Nat : \A y :
              y = [x EXCEPT !.refs = r, !.data = z] => y \in Blob /\ Refilled(x, y, r, z)
        BY BlobWith
    <2>5. PICK x, r, z : /\ x = m.blob[b] /\ r = m.blob[b].refs - References(m, F, b)
                         /\ z = n(b)
        OBVIOUS
    <2>6. g(b) = [x EXCEPT !.refs = r, !.data = z] BY Zenon, <2>2, <2>5
    <2>7. x \in Blob /\ r \in Int /\ z \in Nat BY Zenon, <1>2, <2>1, <2>5
    <2>8. g(b) \in Blob /\ Refilled(x, g(b), r, z) BY Zenon, <2>4, <2>6, <2>7
    <2>9. g(b) \in Blob
          /\ Refilled(m.blob[b], g(b), m.blob[b].refs - References(m, F, b), n(b))
        BY Zenon, <2>5, <2>8
    <2> QED BY Zenon, <2>3, <2>9 DEF Refilled
<1>4. d.blob = [b \in DOMAIN m.blob |-> g(b)] BY DEF Gone
<1> HIDE DEF g
<1>5. Len(m.blob) \in Nat /\ DOMAIN m.blob = 1..Len(m.blob) BY DEF Formed
<1>6. d.blob \in Seq(Blob) BY <1>3, <1>4, <1>5
<1>7. BlobsLeft(m, d, F) BY <1>3, <1>4, <1>6 DEF BlobsLeft
<1> QED BY <1>1, <1>7

(* Taking faces out leaves the cache sound, with the others untouched: a    *)
(* source goes exactly when the last of its faces went.                     *)
LEMMA GoneSound ==
    ASSUME NEW m, NEW X, Sound(m, X), NEW F \in SUBSET FacesIn(m), NEW d, Gone(m, d, F)
    PROVE  /\ Sound(d, X)
           /\ FacesIn(d) = FacesIn(m) \ F
           /\ Held(d) = Held(m) \ Freed(m, F) /\ X \cap Held(m) \subseteq Held(d)
           /\ Cardinality(DOMAIN d.entries) + (IF F = {} THEN 0 ELSE 1)
                 <= Cardinality(DOMAIN m.entries)
<1> DEFINE A == Freed(m, F)
           U(b) == {e \in F : m.entry[e].source = b}
<1>0. Formed(m) BY DEF Sound
<1>10. BlobsLeft(m, d, F) BY <1>0, GoneBlobs
<1>1. FacesIn(d) = FacesIn(m) \ F
    <2>1. ASSUME NEW k \in DOMAIN d.entries
          PROVE  d.entries[k] \in FacesIn(m) \ F
        <3>1. k \in DOMAIN m.entries /\ m.entries[k] \notin F /\ d.entries[k] = m.entries[k]
            BY DEF Gone
        <3> QED BY <3>1 DEF FacesIn
    <2>2. ASSUME NEW k \in DOMAIN m.entries, m.entries[k] \notin F
          PROVE  m.entries[k] \in FacesIn(d)
        <3>1. k \in DOMAIN d.entries /\ d.entries[k] = m.entries[k] BY <2>2 DEF Gone
        <3> QED BY <3>1 DEF FacesIn
    <2> QED BY <2>1, <2>2 DEF FacesIn
<1>2. \A k \in DOMAIN d.entries : k \in DOMAIN m.entries /\ m.entries[k] \notin F
    BY DEF Gone
<1>3. ASSUME NEW b \in DOMAIN m.blob
      PROVE  /\ References(m, F, b) \in Nat /\ m.blob[b].refs \in Int
             /\ Cardinality(Holders(m, b)) \in Nat /\ Cardinality(Holders(d, b)) \in Nat
             /\ Cardinality(Holders(d, b)) = Cardinality(Holders(m, b)) - References(m, F, b)
             /\ References(m, F, b) # 0 => \E e \in F : m.entry[e].source = b
    <2>1. \A e \in FacesIn(m) \ F : d.entry[e] = m.entry[e] BY <1>0, FacesKeyed DEF Gone
    <2>2. Holders(d, b) = Holders(m, b) \ U(b) BY <1>1, <2>1 DEF Holders
    <2>3. Holders(m, b) \cap U(b) = U(b) BY DEF Holders
    <2>4. Holders(m, b) \in SUBSET FacesIn(m) /\ IsFiniteSet(FacesIn(m))
        BY <1>0, FacesKeyed DEF Holders
    <2>5. IsFiniteSet(Holders(m, b)) BY <2>4, FS_Subset
    <2>6. IsFiniteSet(Holders(d, b))
          /\ Cardinality(Holders(d, b)) = Cardinality(Holders(m, b)) - Cardinality(U(b))
        <3> HIDE DEF U
        <3>1. /\ IsFiniteSet(Holders(m, b) \ U(b))
              /\ Cardinality(Holders(m, b) \ U(b))
                    = Cardinality(Holders(m, b)) - Cardinality(Holders(m, b) \cap U(b))
            BY <2>5, FS_Difference
        <3> QED BY Zenon, <2>2, <2>3, <3>1
    <2>7. References(m, F, b) = Cardinality(U(b)) BY DEF References
    <2>8. U(b) = {} => Cardinality(U(b)) = 0 BY FS_EmptySet
    <2>9. m.blob[b].refs \in Int BY <1>0, HeldBlobs DEF Blob
    <2> QED BY <1>0, <2>5, <2>6, <2>7, <2>8, <2>9, FS_CardinalityType, GoneBlobs
<1>4. ASSUME NEW e \in FacesIn(m)
      PROVE  m.entry[e].source \in Held(m)
    BY <1>0, FacesKeyed DEF Sound, Sourced, Held
<1>5. A \in SUBSET Held(m)
    BY <1>3, <1>4 DEF Freed
<1>6. /\ DOMAIN d.sources = {s \in DOMAIN m.sources : m.sources[s] \notin A}
      /\ \A s \in DOMAIN d.sources : d.sources[s] = m.sources[s]
    BY DEF Gone
<1>7. Held(d) = Held(m) \ A BY <1>6 DEF Held
<1>8. ASSUME NEW b \in Held(m)
      PROVE  /\ b \in DOMAIN m.blob
             /\ m.blob[b].refs = Cardinality(Holders(m, b)) + (IF b \in X THEN 1 ELSE 0)
             /\ m.blob[b].refs > 0
             /\ b \in A <=> Cardinality(Holders(d, b)) = 0 /\ b \notin X
    <2>1. b \in DOMAIN m.blob BY <1>0, HeldBlobs
    <2>2. /\ m.blob[b].refs = Cardinality(Holders(m, b)) + (IF b \in X THEN 1 ELSE 0)
          /\ m.blob[b].refs > 0
        BY DEF Sound, Referred
    <2> QED BY <1>3, <2>1, <2>2 DEF Freed
<1>9. X \cap Held(m) \subseteq Held(d) BY <1>7, <1>8
<1>11. IsFiniteSet(DOMAIN m.entries) /\ DOMAIN d.entries \in SUBSET DOMAIN m.entries
    BY <1>2 DEF Sound, Formed
<1>12. /\ IsFiniteSet(DOMAIN d.entries) /\ Cardinality(DOMAIN d.entries) \in Nat
       /\ Cardinality(DOMAIN m.entries) \in Nat
       /\ Cardinality(DOMAIN d.entries) <= Cardinality(DOMAIN m.entries)
       /\ Cardinality(DOMAIN d.entries) = Cardinality(DOMAIN m.entries)
             => DOMAIN d.entries = DOMAIN m.entries
    BY <1>11, FS_Subset, FS_CardinalityType
<1>13. Cardinality(DOMAIN d.entries) + (IF F = {} THEN 0 ELSE 1) <= Cardinality(DOMAIN m.entries)
    <2>1. ASSUME NEW e \in F PROVE DOMAIN d.entries # DOMAIN m.entries
        BY <1>0, <1>2, FacesKeyed
    <2> QED BY <1>12, <2>1
<1> HIDE DEF A, U
<1>14. Formed(d)
    <2>1. DOMAIN d = {"entries", "sources", "bytes", "recency", "entry", "blob"}
        BY DEF Gone, Sound, Formed
    <2>2. d.entry \in Seq(Entry) /\ d.blob \in Seq(Blob) BY <1>10 DEF Gone, BlobsLeft
    <2>3. DOMAIN d.entries \subseteq Keys /\ IsFiniteSet(DOMAIN d.entries)
        BY <1>11, <1>12 DEF Sound, Formed
    <2>4. ASSUME NEW k \in DOMAIN d.entries
          PROVE  /\ d.entries[k] \in DOMAIN d.entry
                 /\ d.entry[d.entries[k]].key = k
                 /\ d.entry[d.entries[k]].state \in {"loading", "ready"}
                 /\ ~d.entry[d.entries[k]].failed
        <3>1. d.entries[k] = m.entries[k] /\ m.entries[k] \in DOMAIN m.entry \ F
            BY <1>0, <1>2 DEF Gone, Formed
        <3>2. d.entry[m.entries[k]] = m.entry[m.entries[k]] BY <3>1 DEF Gone
        <3>3. /\ m.entry[m.entries[k]].key = k
              /\ m.entry[m.entries[k]].state \in {"loading", "ready"}
              /\ ~m.entry[m.entries[k]].failed
            BY <1>0, <1>2, Zenon DEF Formed
        <3>4. DOMAIN d.entry = DOMAIN m.entry BY DEF Gone
        <3>5. d.entry[d.entries[k]] = m.entry[m.entries[k]] BY <3>1, <3>2
        <3> QED BY <3>1, <3>3, <3>4, <3>5
    <2>5. ASSUME NEW e \in DOMAIN d.entry \ FacesIn(d)
          PROVE  d.entry[e].state = "missing"
        BY <1>0, <1>1 DEF Gone, Formed
    <2>6. DOMAIN d.sources \subseteq Sources BY <1>0, <1>6 DEF Formed
    <2>7. ASSUME NEW s \in DOMAIN d.sources
          PROVE  /\ d.sources[s] \in DOMAIN d.blob
                 /\ d.blob[d.sources[s]].of = s
                 /\ ~d.blob[d.sources[s]].failed
        BY <1>0, <1>6, <1>10 DEF Formed, BlobsLeft
    <2> QED BY <2>1, <2>2, <2>3, <2>4, <2>5, <2>6, <2>7 DEF Formed
<1>15. Sourced(d)
    <2> SUFFICES ASSUME NEW k \in DOMAIN d.entries
                 PROVE  /\ SourceOf[k] \in DOMAIN d.sources
                        /\ d.entry[d.entries[k]].source = d.sources[SourceOf[k]]
                        /\ d.entry[d.entries[k]].state = "ready"
                              => d.blob[d.sources[SourceOf[k]]].state = "ready"
        BY DEF Sourced
    <2> DEFINE e == m.entries[k]
               b == m.sources[SourceOf[k]]
    <2>1. k \in DOMAIN m.entries /\ e \in FacesIn(m) \ F /\ e \in DOMAIN m.entry
        BY <1>0, <1>2, FacesKeyed
    <2>2. /\ SourceOf[k] \in DOMAIN m.sources /\ m.entry[e].source = b
          /\ m.entry[e].state = "ready" => m.blob[b].state = "ready"
        BY <2>1 DEF Sound, Sourced
    <2>3. d.entries[k] = e /\ d.entry[e] = m.entry[e] BY <2>1 DEF Gone
    <2>4. b \in Held(m) /\ b \in DOMAIN m.blob BY <1>0, <2>2, HeldBlobs
    <2>5. e \in Holders(d, b) BY <1>1, <2>1, <2>2, <2>3 DEF Holders
    <2>6. Cardinality(Holders(d, b)) # 0
        <3>1. IsFiniteSet(FacesIn(d)) BY <1>14, FacesKeyed
        <3>2. IsFiniteSet(Holders(d, b))
            <4>1. Holders(d, b) \in SUBSET FacesIn(d) BY DEF Holders
            <4> QED BY <3>1, <4>1, FS_Subset
        <3> QED BY <2>5, <3>2, FS_EmptySet
    <2>7. b \notin A BY <1>8, <2>4, <2>6
    <2>8. SourceOf[k] \in DOMAIN d.sources /\ d.sources[SourceOf[k]] = b
        BY <1>6, <2>2, <2>7
    <2> QED BY <1>10, <2>2, <2>3, <2>4, <2>8 DEF BlobsLeft
<1>16. Referred(d, X)
    <2> SUFFICES ASSUME NEW b \in Held(d)
                 PROVE  /\ d.blob[b].refs = Cardinality(Holders(d, b)) + (IF b \in X THEN 1 ELSE 0)
                        /\ d.blob[b].refs > 0
                        /\ IF d.blob[b].state = "ready"
                           THEN d.blob[b].reserved = 0 /\ d.blob[b].data \in LoadSizes
                           ELSE d.blob[b].data = 0
        BY DEF Referred
    <2>1. b \in Held(m) /\ b \notin A BY <1>7
    <2>2. b \in DOMAIN m.blob BY <1>8, <2>1
    <2>3. /\ d.blob[b].refs = Cardinality(Holders(d, b)) + (IF b \in X THEN 1 ELSE 0)
          /\ d.blob[b].refs > 0
        BY SMTT(20), <1>3, <1>8, <1>10, <2>1, <2>2 DEF BlobsLeft
    <2>4. IF m.blob[b].state = "ready"
          THEN m.blob[b].reserved = 0 /\ m.blob[b].data \in LoadSizes
          ELSE m.blob[b].data = 0
        BY <2>1 DEF Sound, Referred
    <2>5. /\ d.blob[b].state = m.blob[b].state /\ d.blob[b].reserved = m.blob[b].reserved
          /\ d.blob[b].data = m.blob[b].data
        BY <1>10, <2>1, <2>2 DEF BlobsLeft, A
    <2> QED BY <2>3, <2>4, <2>5
<1>17. Charged(d)
    <2>1. Held(m) \in SUBSET DOMAIN m.blob BY <1>0, HeldBlobs
    <2>2. Held(d) \in SUBSET DOMAIN m.blob /\ A \in SUBSET DOMAIN m.blob
          /\ Held(d) \cap A = {} /\ Held(d) \cup A = Held(m)
        BY <1>5, <1>7, <2>1
    <2>3. Bytes(m, Held(d) \cup A) = Bytes(m, Held(d)) + Bytes(m, A)
        BY <1>0, <2>2, BytesUnion
    <2>4. Bytes(m, Held(m)) = Bytes(m, Held(d)) + Bytes(m, A) BY Zenon, <2>2, <2>3
    <2>5. \A b \in Held(d) : Charge(d.blob[b]) = Charge(m.blob[b])
        BY <1>10, <1>7, <2>1 DEF Charge, BlobsLeft, A
    <2>6. Bytes(d, Held(d)) = Bytes(m, Held(d)) BY <1>0, <2>2, <2>5, BytesSame
    <2>7. Bytes(m, Held(d)) \in Nat /\ Bytes(m, A) \in Nat BY <1>0, <2>2, BytesNat
    <2>8. m.bytes = Bytes(m, Held(m)) /\ m.bytes <= MaxBytes
          /\ Cardinality(DOMAIN m.entries) <= MaxFaces
        BY DEF Sound, Charged
    <2>9. d.bytes = m.bytes - Bytes(m, A) BY DEF Gone, A
    <2> QED BY <1>12, <2>4, <2>6, <2>7, <2>8, <2>9, Constants DEF Charged
<1> QED BY <1>1, <1>7, <1>9, <1>13, <1>14, <1>15, <1>16, <1>17 DEF Sound, A

(* A face that is given up. *)
LEMMA GivenUp ==
    ASSUME NEW x \in Entry, NEW y, y = [x EXCEPT !.state = "missing", !.source = 0]
    PROVE  y \in Entry /\ y.state = "missing"
<1>1. x = [key |-> x.key, state |-> x.state, waiters |-> x.waiters, pins |-> x.pins,
           source |-> x.source, failed |-> x.failed]
    BY DEF Entry
<1>2. y = [key |-> x.key, state |-> "missing", waiters |-> x.waiters, pins |-> x.pins,
           source |-> 0, failed |-> x.failed]
    BY <1>1
<1>3. x.key \in Keys /\ x.waiters \in Nat /\ x.pins \in Nat /\ x.failed \in BOOLEAN
    BY DEF Entry
<1> QED BY <1>2, <1>3 DEF Entry

(* Detached takes the faces out. *)
LEMMA DetachedGone ==
    ASSUME NEW m, Formed(m), NEW F \in SUBSET FacesIn(m)
    PROVE  Gone(m, Detached(m, F), F)
<1> DEFINE R == Released(m, F)
           D == Detached(m, F)
           blobs == [b \in DOMAIN m.blob |->
                [m.blob[b] EXCEPT !.refs = @ - References(m, F, b),
                                  !.data = IF b \in Freed(m, F) THEN 0 ELSE @]]
           sources == [s \in {s \in DOMAIN m.sources : m.sources[s] \notin Freed(m, F)}
                            |-> m.sources[s]]
           entries == [k \in {k \in DOMAIN m.entries : m.entries[k] \notin F} |-> m.entries[k]]
           entry == [e \in DOMAIN m.entry |->
                IF e \in F THEN [m.entry[e] EXCEPT !.state = "missing", !.source = 0]
                ELSE m.entry[e]]
<1>1. R = [m EXCEPT !.blob = blobs, !.sources = sources, !.bytes = @ - Bytes(m, Freed(m, F))]
    BY Zenon DEF Released, Freed
<1>2. D = [R EXCEPT !.entries = [k \in {k \in DOMAIN @ : @[k] \notin F} |-> @[k]],
                    !.recency = SelectSeq(@, LAMBDA e : e \notin F),
                    !.entry = [e \in DOMAIN @ |->
                        IF e \in F THEN [@[e] EXCEPT !.state = "missing", !.source = 0] ELSE @[e]]]
    BY DEF Detached
<1>3. DOMAIN m = {"entries", "sources", "bytes", "recency", "entry", "blob"} BY DEF Formed
<1>4. F \subseteq DOMAIN m.entry BY FacesKeyed
<1>5. ASSUME NEW e \in DOMAIN m.entry
      PROVE  entry[e] \in Entry /\ (e \in F => entry[e].state = "missing")
             /\ (e \notin F => entry[e] = m.entry[e])
    <2>1. m.entry[e] \in Entry BY DEF Formed
    <2>2. CASE e \in F
        <3>1. entry[e] = [m.entry[e] EXCEPT !.state = "missing", !.source = 0] BY <2>2
        <3> HIDE DEF entry
        <3> QED BY <2>1, <2>2, <3>1, GivenUp
    <2>3. CASE e \notin F BY <2>1, <2>3
    <2> QED BY <2>2, <2>3
<1>6. entry \in Seq(Entry) /\ DOMAIN entry = DOMAIN m.entry
    <2>1. Len(m.entry) \in Nat /\ DOMAIN m.entry = 1..Len(m.entry) BY DEF Formed
    <2>2. DOMAIN entry = DOMAIN m.entry OBVIOUS
    <2>3. entry = [e \in 1..Len(m.entry) |-> entry[e]] BY <2>1
    <2> HIDE DEF entry
    <2> QED BY <1>5, <2>1, <2>2, <2>3
<1> HIDE DEF R, D
<1>7. /\ DOMAIN R = DOMAIN m /\ R.blob = blobs /\ R.sources = sources
      /\ R.bytes = m.bytes - Bytes(m, Freed(m, F))
      /\ R.entries = m.entries /\ R.entry = m.entry
    <2> HIDE DEF blobs, sources
    <2> QED BY <1>1, <1>3
<1>8. /\ DOMAIN D = DOMAIN m /\ D.blob = blobs /\ D.sources = sources
      /\ D.bytes = m.bytes - Bytes(m, Freed(m, F))
      /\ D.entries = entries /\ D.entry = entry
    <2> HIDE DEF blobs, sources
    <2>1. DOMAIN D = DOMAIN m /\ D.blob = R.blob /\ D.sources = R.sources /\ D.bytes = R.bytes
        BY <1>2, <1>3, <1>7
    <2>2. D.entries = [k \in {k \in DOMAIN R.entries : R.entries[k] \notin F} |-> R.entries[k]]
        BY <1>2, <1>3, <1>7
    <2>3. D.entry = [e \in DOMAIN R.entry |->
            IF e \in F THEN [R.entry[e] EXCEPT !.state = "missing", !.source = 0] ELSE R.entry[e]]
        BY <1>2, <1>3, <1>7
    <2> QED BY <1>7, <2>1, <2>2, <2>3
<1>9. \A e \in DOMAIN m.entry \ F : D.entry[e] = m.entry[e] BY <1>5, <1>8
<1>10. \A e \in F : D.entry[e].state = "missing" BY <1>4, <1>5, <1>8
<1>11. D.entry \in Seq(Entry) /\ DOMAIN D.entry = DOMAIN m.entry BY Zenon, <1>6, <1>8
<1>12. DOMAIN D.entries = {k \in DOMAIN m.entries : m.entries[k] \notin F}
       /\ \A k \in DOMAIN D.entries : D.entries[k] = m.entries[k]
    BY <1>8
<1>13. Gone(m, D, F) BY <1>8, <1>9, <1>10, <1>11, <1>12, Zenon DEF Gone
<1> QED BY <1>13 DEF D

(* makeRoomLocked takes out faces that are ready and not pinned, says yes   *)
(* only when there is room, and has taken none out when it says no to one   *)
(* face of a source that is there.                                          *)
Room(m, r, faces, more) ==
    /\ r.evicted \subseteq {e \in FacesIn(m) : Evictable(m, e)}
    /\ Gone(m, r.m, r.evicted)
    /\ r.ok \in BOOLEAN
    /\ r.ok => HasRoom(r.m, faces, more)
    /\ ~r.ok /\ faces = 1 /\ more = 0 => r.evicted = {}

(* makeRoomLocked leaves a sound cache, evicts only ready faces that nobody *)
(* pins, and when it succeeds there is room for what was asked.             *)
LEMMA RoomMade ==
    ASSUME NEW m, NEW X, Sound(m, X), NEW faces \in Nat, NEW more \in Nat
    PROVE  Room(m, MakeRoom(m, faces, more), faces, more)
<1> DEFINE fits == faces <= MaxFaces /\ more <= MaxBytes
           last == Cardinality(FacesIn(m))
           Oldest(n) == {e \in FacesIn(m) : Evictable(m, e) /\ \E i \in DOMAIN m.recency :
                                                             i <= n /\ m.recency[i] = e}
           enough == {n \in 0..last : HasRoom(Detached(m, Oldest(n)), faces, more)}
           first == CHOOSE n \in enough : \A i \in enough : n <= i
           evicted == IF ~fits THEN {} ELSE Oldest(IF enough = {} THEN last ELSE first)
           r == MakeRoom(m, faces, more)
<1>1. r = [m |-> Detached(m, evicted), evicted |-> evicted, ok |-> fits /\ enough # {}]
    BY DEF MakeRoom
<1>2. \A n : Oldest(n) \in SUBSET {e \in FacesIn(m) : Evictable(m, e)} OBVIOUS
<1>3. \A n \in enough : n \in 0..last /\ HasRoom(Detached(m, Oldest(n)), faces, more) OBVIOUS
<1>4. \A n \in 0..last : HasRoom(Detached(m, Oldest(n)), faces, more) => n \in enough OBVIOUS
<1>5. Formed(m) BY DEF Sound
<1>6. last \in Nat BY <1>5, FacesKeyed, FS_CardinalityType
<1> HIDE DEF r, Oldest, enough, last
<1>7. evicted \in SUBSET {e \in FacesIn(m) : Evictable(m, e)} BY <1>2
<1>8. enough # {} => first \in enough
    <2>1. IsFiniteSet(0..last) BY <1>6, FS_Interval
    <2>2. enough \in SUBSET (0..last) BY <1>3
    <2>3. IsFiniteSet(enough) BY <2>1, <2>2, FS_Subset
    <2>5. enough \subseteq Int BY <1>6, <2>2
    <2>4. enough # {} => \E n \in enough : \A i \in enough : n <= i BY <2>3, <2>5, LeastElement
    <2> QED BY <2>4
<1>9. ASSUME fits, enough # {} PROVE HasRoom(Detached(m, evicted), faces, more)
    <2>1. evicted = Oldest(first) BY <1>9
    <2> HIDE DEF evicted, first
    <2> QED BY <1>3, <1>8, <1>9, <2>1
<1>10. ASSUME ~(fits /\ enough # {}), faces = 1, more = 0 PROVE evicted = {}
    <2> SUFFICES ASSUME evicted # {} PROVE FALSE
        OBVIOUS
    <2>1. enough = {} /\ evicted = Oldest(last) BY <1>10
    <2> HIDE DEF evicted
    <2>2. ~HasRoom(Detached(m, evicted), faces, more) BY <1>4, <1>6, <2>1
    <2>3. Gone(m, Detached(m, evicted), evicted) BY <1>5, <1>7, DetachedGone
    <2>4. /\ Sound(Detached(m, evicted), X)
          /\ Cardinality(DOMAIN Detached(m, evicted).entries) + (IF evicted = {} THEN 0 ELSE 1)
                <= Cardinality(DOMAIN m.entries)
        BY <1>7, <2>3, GoneSound
    <2>5. Formed(Detached(m, evicted)) BY <2>4 DEF Sound
    <2>6. Cardinality(DOMAIN m.entries) <= MaxFaces /\ Detached(m, evicted).bytes <= MaxBytes
        BY <2>4 DEF Sound, Charged
    <2>7. /\ Cardinality(DOMAIN m.entries) \in Nat
          /\ Cardinality(DOMAIN Detached(m, evicted).entries) \in Nat
        BY <1>5, <2>5, FacesKeyed
    <2>8. Detached(m, evicted).bytes \in Nat
        <3>1. Held(Detached(m, evicted)) \in SUBSET DOMAIN Detached(m, evicted).blob
            BY <2>5, HeldBlobs
        <3> QED BY <2>4, <2>5, <3>1, BytesNat DEF Sound, Charged
    <2> QED BY <1>10, <2>2, <2>4, <2>6, <2>7, <2>8, Constants DEF HasRoom
<1> HIDE DEF evicted, fits
<1>11. Gone(m, Detached(m, evicted), evicted) BY <1>5, <1>7, DetachedGone
<1>12. r.m = Detached(m, evicted) /\ r.evicted = evicted BY <1>1
<1>13. r.ok = (fits /\ enough # {}) BY <1>1, Zenon
<1>14. Room(m, r, faces, more)
    BY Zenon, <1>7, <1>9, <1>10, <1>11, <1>12, <1>13 DEF Room
<1> QED BY <1>14 DEF r

-----------------------------------------------------------------------------
(* The parts of a cache. *)
Made(d, entries, sources, bytes, entry, blob) ==
    /\ DOMAIN d = {"entries", "sources", "bytes", "recency", "entry", "blob"}
    /\ d.entries = entries /\ d.sources = sources /\ d.bytes = bytes
    /\ d.entry = entry /\ d.blob = blob

(* A blob whose references are counted anew. *)
Recounted(m, d, b, r) ==
    Made(d, m.entries, m.sources, m.bytes, m.entry, [m.blob EXCEPT ![b].refs = r])

(* The pending face's hold on a source, taken or given back.                *)
LEMMA RecountedSound ==
    ASSUME NEW m, NEW X, Sound(m, X), NEW Y, NEW b \in Held(m), NEW d, NEW r \in Int,
           Recounted(m, d, b, r), r > 0,
           r = Cardinality(Holders(m, b)) + (IF b \in Y THEN 1 ELSE 0),
           \A x \in Held(m) \ {b} : x \in X <=> x \in Y
    PROVE  /\ Sound(d, Y)
           /\ FacesIn(d) = FacesIn(m) /\ d.entry = m.entry /\ d.sources = m.sources
           /\ DOMAIN d.blob = DOMAIN m.blob
           /\ \A x \in DOMAIN m.blob : /\ d.blob[x].state = m.blob[x].state
                                       /\ d.blob[x].failed = m.blob[x].failed
<1>0. Formed(m) BY DEF Sound
<1>1. /\ DOMAIN d = {"entries", "sources", "bytes", "recency", "entry", "blob"}
      /\ d.entries = m.entries /\ d.sources = m.sources /\ d.bytes = m.bytes
      /\ d.entry = m.entry /\ d.blob = [m.blob EXCEPT ![b].refs = r]
    BY DEF Recounted, Made
<1>2. FacesIn(d) = FacesIn(m) BY <1>1 DEF FacesIn
<1>3. Held(d) = Held(m) /\ \A x : Holders(d, x) = Holders(m, x)
    BY <1>1, <1>2 DEF Held, Holders
<1>4. b \in DOMAIN m.blob /\ Len(m.blob) \in Nat /\ DOMAIN m.blob = 1..Len(m.blob)
    BY <1>0, HeldBlobs DEF Formed
<1>5. \A x \in DOMAIN m.blob : m.blob[x] \in Blob BY <1>0, HeldBlobs
<1> DEFINE y == [m.blob[b] EXCEPT !.refs = r]
<1>6. d.blob = [m.blob EXCEPT ![b] = y] BY <1>1
<1>7. y \in Blob /\ Refilled(m.blob[b], y, r, m.blob[b].data)
    <2>1. m.blob[b] = [of |-> m.blob[b].of, state |-> m.blob[b].state,
                       reserved |-> m.blob[b].reserved, data |-> m.blob[b].data,
                       refs |-> m.blob[b].refs, failed |-> m.blob[b].failed]
          /\ m.blob[b].data \in Nat
        BY <1>4, <1>5 DEF Blob
    <2>2. y = [m.blob[b] EXCEPT !.refs = r, !.data = m.blob[b].data] BY <2>1
    <2> HIDE DEF y
    <2> QED BY Zenon, <1>4, <1>5, <2>1, <2>2, BlobWith
<1> HIDE DEF y
<1>8. /\ DOMAIN d.blob = DOMAIN m.blob /\ d.blob[b] = y
      /\ \A x \in DOMAIN m.blob \ {b} : d.blob[x] = m.blob[x]
    BY <1>4, <1>6
<1>9. \A x \in DOMAIN m.blob : d.blob[x] \in Blob BY <1>5, <1>7, <1>8
<1>10. d.blob \in Seq(Blob)
    <2> DEFINE g(x) == IF x = b THEN y ELSE m.blob[x]
    <2>1. d.blob = [x \in 1..Len(m.blob) |-> g(x)] BY <1>4, <1>6
    <2>2. \A x \in 1..Len(m.blob) : g(x) \in Blob BY <1>4, <1>8, <1>9
    <2> HIDE DEF g
    <2> QED BY <1>4, <2>1, <2>2
<1>11. \A x \in DOMAIN m.blob :
          /\ d.blob[x].of = m.blob[x].of /\ d.blob[x].state = m.blob[x].state
          /\ d.blob[x].reserved = m.blob[x].reserved /\ d.blob[x].data = m.blob[x].data
          /\ d.blob[x].failed = m.blob[x].failed
    BY Zenon, <1>7, <1>8 DEF Refilled
<1>12. Formed(d) BY <1>0, <1>1, <1>2, <1>8, <1>10, <1>11 DEF Formed
<1>13. Sourced(d)
    <2>1. \A s \in DOMAIN m.sources : m.sources[s] \in DOMAIN m.blob BY <1>0 DEF Formed
    <2> QED BY <1>1, <1>11, <2>1 DEF Sound, Sourced
<1>14. Referred(d, Y)
    <2> SUFFICES ASSUME NEW x \in Held(m)
                 PROVE  /\ d.blob[x].refs = Cardinality(Holders(m, x)) + (IF x \in Y THEN 1 ELSE 0)
                        /\ d.blob[x].refs > 0
                        /\ IF d.blob[x].state = "ready"
                           THEN d.blob[x].reserved = 0 /\ d.blob[x].data \in LoadSizes
                           ELSE d.blob[x].data = 0
        BY <1>3 DEF Referred
    <2>1. x \in DOMAIN m.blob BY <1>0, HeldBlobs
    <2>2. /\ m.blob[x].refs = Cardinality(Holders(m, x)) + (IF x \in X THEN 1 ELSE 0)
          /\ m.blob[x].refs > 0
          /\ IF m.blob[x].state = "ready"
             THEN m.blob[x].reserved = 0 /\ m.blob[x].data \in LoadSizes
             ELSE m.blob[x].data = 0
        BY DEF Sound, Referred
    <2>3. CASE x = b BY <1>7, <1>8, <1>11, <2>1, <2>2, <2>3 DEF Refilled
    <2>4. CASE x # b BY <1>8, <2>1, <2>2, <2>4
    <2> QED BY <2>3, <2>4
<1>15. Charged(d)
    <2>1. Held(m) \in SUBSET DOMAIN m.blob BY <1>0, HeldBlobs
    <2>2. \A x \in Held(m) : Charge(d.blob[x]) = Charge(m.blob[x])
        BY <1>11, <2>1 DEF Charge
    <2>3. Bytes(d, Held(m)) = Bytes(m, Held(m)) BY <1>0, <2>1, <2>2, BytesSame
    <2> QED BY <1>1, <1>3, <2>3 DEF Sound, Charged
<1> QED BY <1>1, <1>2, <1>8, <1>11, <1>12, <1>13, <1>14, <1>15 DEF Sound

(* A new face of a source that is held for it. *)
FaceAdded(m, d, k, b) ==
    /\ k \in Keys \ DOMAIN m.entries
    /\ SourceOf[k] \in DOMAIN m.sources /\ m.sources[SourceOf[k]] = b
    /\ Made(d, With(m.entries, k, Len(m.entry) + 1), m.sources, m.bytes,
            Append(m.entry, NewEntry(k, b)), m.blob)

(* The map and the list of entries, with a new one. *)
Grown(m, d, n, x) ==
    /\ n \notin DOMAIN m.entry /\ FacesIn(d) = FacesIn(m) \cup {n}
    /\ DOMAIN d.entry = DOMAIN m.entry \cup {n} /\ d.entry[n] = x
    /\ \A e \in DOMAIN m.entry : d.entry[e] = m.entry[e]

(* A cache whose blob b is promised to a face stays sound when the face is  *)
(* put into the map, given room for one more face.                          *)
LEMMA FaceAddedSound ==
    ASSUME NEW m, NEW b, Sound(m, {b}), NEW k, NEW d, FaceAdded(m, d, k, b),
           HasRoom(m, 1, 0)
    PROVE  /\ Sound(d, {})
           /\ Grown(m, d, Len(m.entry) + 1, NewEntry(k, b))
           /\ d.sources = m.sources /\ d.blob = m.blob
<1> DEFINE n == Len(m.entry) + 1
<1>0. Formed(m) BY DEF Sound
<1>1. /\ DOMAIN d = {"entries", "sources", "bytes", "recency", "entry", "blob"}
      /\ d.entries = With(m.entries, k, n) /\ d.sources = m.sources /\ d.bytes = m.bytes
      /\ d.entry = Append(m.entry, NewEntry(k, b)) /\ d.blob = m.blob
    BY DEF FaceAdded, Made
<1>2. k \in Keys /\ k \notin DOMAIN m.entries /\ SourceOf[k] \in DOMAIN m.sources
      /\ m.sources[SourceOf[k]] = b
    BY DEF FaceAdded
<1>3. /\ DOMAIN d.entries = DOMAIN m.entries \cup {k} /\ d.entries[k] = n
      /\ \A x \in DOMAIN m.entries : d.entries[x] = m.entries[x]
    BY <1>1, <1>2 DEF With
<1>4. b \in Held(m) /\ b \in DOMAIN m.blob /\ b \in Nat
    <2>1. b \in Held(m) /\ b \in DOMAIN m.blob BY <1>0, <1>2, HeldBlobs
    <2>2. DOMAIN m.blob = 1..Len(m.blob) /\ Len(m.blob) \in Nat BY <1>0 DEF Formed
    <2> QED BY <2>1, <2>2
<1>5. NewEntry(k, b) \in Entry BY <1>2, <1>4 DEF NewEntry, Entry
<1>6. m.entry \in Seq(Entry) /\ Len(m.entry) \in Nat /\ DOMAIN m.entry = 1..Len(m.entry)
    BY <1>0 DEF Formed
<1>7. /\ d.entry \in Seq(Entry) /\ n \notin DOMAIN m.entry
      /\ DOMAIN d.entry = DOMAIN m.entry \cup {n} /\ d.entry[n] = NewEntry(k, b)
      /\ \A e \in DOMAIN m.entry : d.entry[e] = m.entry[e]
    BY <1>1, <1>5, <1>6
<1>8. /\ NewEntry(k, b).key = k /\ NewEntry(k, b).state = "loading"
      /\ NewEntry(k, b).source = b
    BY DEF NewEntry
<1>9. ~NewEntry(k, b).failed BY Zenon DEF NewEntry
<1> HIDE DEF n
<1>10. FacesIn(d) = FacesIn(m) \cup {n} BY <1>3 DEF FacesIn
<1>11. Held(d) = Held(m) BY <1>1 DEF Held
<1>12. FacesIn(m) \subseteq DOMAIN m.entry /\ IsFiniteSet(FacesIn(m)) BY <1>0, FacesKeyed
<1>13. Formed(d)
    <2>1. d.entry \in Seq(Entry) /\ d.blob \in Seq(Blob) BY <1>0, <1>1, <1>7 DEF Formed
    <2>2. DOMAIN d.entries \subseteq Keys /\ IsFiniteSet(DOMAIN d.entries)
        BY <1>0, <1>2, <1>3, FS_AddElement DEF Formed
    <2>3. ASSUME NEW x \in DOMAIN d.entries
          PROVE  /\ d.entries[x] \in DOMAIN d.entry
                 /\ d.entry[d.entries[x]].key = x
                 /\ d.entry[d.entries[x]].state \in {"loading", "ready"}
                 /\ ~d.entry[d.entries[x]].failed
        <3>1. CASE x = k BY <1>3, <1>7, <1>8, <1>9, <3>1
        <3>2. CASE x # k
            <4>1. x \in DOMAIN m.entries /\ d.entries[x] = m.entries[x] BY <1>3, <3>2
            <4>2. /\ m.entries[x] \in DOMAIN m.entry /\ m.entry[m.entries[x]].key = x
                  /\ m.entry[m.entries[x]].state \in {"loading", "ready"}
                  /\ ~m.entry[m.entries[x]].failed
                BY Zenon, <1>0, <4>1 DEF Formed
            <4>3. d.entry[d.entries[x]] = m.entry[m.entries[x]] BY <1>7, <4>1, <4>2
            <4> QED BY <1>7, <4>1, <4>2, <4>3
        <3> QED BY <3>1, <3>2
    <2>4. \A e \in DOMAIN d.entry \ FacesIn(d) : d.entry[e].state = "missing"
        BY <1>0, <1>7, <1>10 DEF Formed
    <2> QED BY <1>0, <1>1, <2>1, <2>2, <2>3, <2>4 DEF Formed
<1>14. Sourced(d)
    <2>1. \A x \in DOMAIN m.entries : m.entries[x] \in DOMAIN m.entry BY <1>0 DEF Formed
    <2> QED BY <1>1, <1>2, <1>3, <1>7, <1>8, <2>1 DEF Sound, Sourced
<1>15. Referred(d, {})
    <2> SUFFICES ASSUME NEW x \in Held(m)
                 PROVE  /\ m.blob[x].refs = Cardinality(Holders(d, x))
                        /\ m.blob[x].refs > 0
                        /\ IF m.blob[x].state = "ready"
                           THEN m.blob[x].reserved = 0 /\ m.blob[x].data \in LoadSizes
                           ELSE m.blob[x].data = 0
        <3>1. \A x : IF x \in {} THEN FALSE ELSE TRUE OBVIOUS
        <3>2. \A x \in Held(d) : Cardinality(Holders(d, x)) \in Nat
            <4>1. IsFiniteSet(FacesIn(d)) BY <1>13, FacesKeyed
            <4>2. \A x : Holders(d, x) \in SUBSET FacesIn(d) BY DEF Holders
            <4>3. \A x : IsFiniteSet(Holders(d, x)) BY <4>1, <4>2, FS_Subset
            <4> QED BY <4>3, FS_CardinalityType
        <3> QED BY <1>1, <1>11, <3>2 DEF Referred
    <2>1. /\ m.blob[x].refs = Cardinality(Holders(m, x)) + (IF x \in {b} THEN 1 ELSE 0)
          /\ m.blob[x].refs > 0
          /\ IF m.blob[x].state = "ready"
             THEN m.blob[x].reserved = 0 /\ m.blob[x].data \in LoadSizes
             ELSE m.blob[x].data = 0
        BY DEF Sound, Referred
    <2>2. Holders(m, x) \in SUBSET FacesIn(m) /\ n \notin Holders(m, x)
        BY <1>7, <1>12 DEF Holders
    <2>3. IsFiniteSet(Holders(m, x)) BY <1>12, <2>2, FS_Subset
    <2>4. Holders(d, x) = IF x = b THEN Holders(m, x) \cup {n} ELSE Holders(m, x)
        BY <1>7, <1>8, <1>10, <1>12 DEF Holders
    <2>5. Cardinality(Holders(m, x)) \in Nat
          /\ Cardinality(Holders(m, x) \cup {n}) = Cardinality(Holders(m, x)) + 1
        BY <2>2, <2>3, FS_AddElement, FS_CardinalityType
    <2> QED BY <2>1, <2>4, <2>5
<1>16. Charged(d)
    <2>1. Bytes(d, Held(d)) = Bytes(m, Held(m)) BY <1>1, <1>11 DEF Bytes
    <2>2. Cardinality(DOMAIN d.entries) = Cardinality(DOMAIN m.entries) + 1
        <3>1. IsFiniteSet(DOMAIN m.entries) BY <1>0 DEF Formed
        <3>2. Cardinality(DOMAIN m.entries \cup {k}) = Cardinality(DOMAIN m.entries) + 1
            BY <1>2, <3>1, FS_AddElement
        <3> QED BY <1>3, <3>2
    <2> QED BY <1>1, <2>1, <2>2 DEF Sound, Charged, HasRoom
<1>17. Grown(m, d, n, NewEntry(k, b)) BY <1>7, <1>10 DEF Grown
<1> QED BY <1>1, <1>13, <1>14, <1>15, <1>16, <1>17 DEF Sound, n

(* A new blob, of a source that nothing holds yet, held by the pending face. *)
NewBlob(s) == [of |-> s, state |-> "loading", reserved |-> Reservation(s),
               data |-> 0, refs |-> 1, failed |-> FALSE]

BlobAdded(m, d, s) ==
    /\ s \in Sources \ DOMAIN m.sources
    /\ Made(d, m.entries, With(m.sources, s, Len(m.blob) + 1), m.bytes + Reservation(s),
            m.entry, Append(m.blob, NewBlob(s)))

(* The map and the list of blobs, with a new one. *)
WithBlob(m, d, s, n) ==
    /\ n \notin DOMAIN m.blob
    /\ d.entry = m.entry /\ d.entries = m.entries /\ FacesIn(d) = FacesIn(m)
    /\ s \in DOMAIN d.sources /\ d.sources[s] = n
    /\ DOMAIN d.blob = DOMAIN m.blob \cup {n} /\ d.blob[n] = NewBlob(s)
    /\ \A b \in DOMAIN m.blob : d.blob[b] = m.blob[b]

(* A new loading source keeps the cache sound, with a reference promised to *)
(* the face that is to come, given room for its reservation.                *)
LEMMA BlobAddedSound ==
    ASSUME NEW m, Sound(m, {}), NEW s, NEW d, BlobAdded(m, d, s),
           HasRoom(m, 1, Reservation(s)), NEW n, n = Len(m.blob) + 1
    PROVE  Sound(d, {n}) /\ HasRoom(d, 1, 0) /\ WithBlob(m, d, s, n)
<1>0. Formed(m) BY DEF Sound
<1>1. /\ DOMAIN d = {"entries", "sources", "bytes", "recency", "entry", "blob"}
      /\ d.entries = m.entries /\ d.sources = With(m.sources, s, n)
      /\ d.bytes = m.bytes + Reservation(s)
      /\ d.entry = m.entry /\ d.blob = Append(m.blob, NewBlob(s))
    BY DEF BlobAdded, Made
<1>2. s \in Sources /\ s \notin DOMAIN m.sources /\ Reservation(s) \in Nat
    BY Constants DEF BlobAdded
<1>3. /\ DOMAIN d.sources = DOMAIN m.sources \cup {s} /\ d.sources[s] = n
      /\ \A x \in DOMAIN m.sources : d.sources[x] = m.sources[x]
    BY <1>1, <1>2 DEF With
<1>4. NewBlob(s) \in Blob BY <1>2 DEF NewBlob, Blob
<1>5. m.blob \in Seq(Blob) /\ Len(m.blob) \in Nat /\ DOMAIN m.blob = 1..Len(m.blob)
    BY <1>0 DEF Formed
<1>6. /\ d.blob \in Seq(Blob) /\ n \notin DOMAIN m.blob
      /\ DOMAIN d.blob = DOMAIN m.blob \cup {n} /\ d.blob[n] = NewBlob(s)
      /\ \A b \in DOMAIN m.blob : d.blob[b] = m.blob[b]
    BY <1>1, <1>4, <1>5
<1>7. /\ NewBlob(s).of = s /\ NewBlob(s).state = "loading" /\ NewBlob(s).data = 0
      /\ NewBlob(s).refs = 1 /\ NewBlob(s).reserved = Reservation(s)
    BY DEF NewBlob
<1>8. ~NewBlob(s).failed BY Zenon DEF NewBlob
<1>9. FacesIn(d) = FacesIn(m) BY <1>1 DEF FacesIn
<1>10. Held(d) = Held(m) \cup {n} BY <1>3 DEF Held
<1>11. Held(m) \subseteq DOMAIN m.blob BY <1>0, HeldBlobs
<1>12. Formed(d)
    <2>1. d.entry \in Seq(Entry) /\ d.blob \in Seq(Blob) BY <1>0, <1>1, <1>6 DEF Formed
    <2>2. DOMAIN d.sources \subseteq Sources BY <1>0, <1>2, <1>3 DEF Formed
    <2>3. ASSUME NEW x \in DOMAIN d.sources
          PROVE  /\ d.sources[x] \in DOMAIN d.blob
                 /\ d.blob[d.sources[x]].of = x
                 /\ ~d.blob[d.sources[x]].failed
        <3>1. CASE x = s BY <1>3, <1>6, <1>7, <1>8, <3>1
        <3>2. CASE x # s
            <4>1. x \in DOMAIN m.sources /\ d.sources[x] = m.sources[x] BY <1>3, <3>2
            <4>2. /\ m.sources[x] \in DOMAIN m.blob /\ m.blob[m.sources[x]].of = x
                  /\ ~m.blob[m.sources[x]].failed
                BY Zenon, <1>0, <4>1 DEF Formed
            <4>3. d.blob[d.sources[x]] = m.blob[m.sources[x]] BY <1>6, <4>1, <4>2
            <4> QED BY <1>6, <4>1, <4>2, <4>3
        <3> QED BY <3>1, <3>2
    <2> QED BY <1>0, <1>1, <1>9, <2>1, <2>2, <2>3 DEF Formed
<1>13. Sourced(d)
    <2>1. \A x \in DOMAIN m.sources : m.sources[x] \in DOMAIN m.blob BY <1>0 DEF Formed
    <2> QED BY <1>1, <1>3, <1>6, <2>1 DEF Sound, Sourced
<1>14. \A e \in FacesIn(m) : m.entry[e].source \in DOMAIN m.blob
    BY <1>0, <1>11, FacesKeyed, HeldBlobs DEF Sound, Sourced
<1>15. Holders(d, n) = {} /\ \A b : Holders(d, b) = Holders(m, b)
    BY <1>1, <1>6, <1>9, <1>14 DEF Holders
<1>16. Referred(d, {n})
    <2> SUFFICES ASSUME NEW b \in Held(d)
                 PROVE  /\ d.blob[b].refs = Cardinality(Holders(d, b)) + (IF b \in {n} THEN 1 ELSE 0)
                        /\ d.blob[b].refs > 0
                        /\ IF d.blob[b].state = "ready"
                           THEN d.blob[b].reserved = 0 /\ d.blob[b].data \in LoadSizes
                           ELSE d.blob[b].data = 0
        BY DEF Referred
    <2>1. CASE b = n
        <3>1. Cardinality(Holders(d, n)) = 0 BY <1>15, FS_EmptySet
        <3> QED BY <1>6, <1>7, <2>1, <3>1
    <2>2. CASE b # n
        <3>1. b \in Held(m) /\ b \in DOMAIN m.blob BY <1>10, <1>11, <2>2
        <3>2. /\ m.blob[b].refs = Cardinality(Holders(m, b)) + (IF b \in {} THEN 1 ELSE 0)
              /\ m.blob[b].refs > 0
              /\ IF m.blob[b].state = "ready"
                 THEN m.blob[b].reserved = 0 /\ m.blob[b].data \in LoadSizes
                 ELSE m.blob[b].data = 0
            BY <3>1 DEF Sound, Referred
        <3> QED BY <1>6, <1>15, <2>2, <3>1, <3>2
    <2> QED BY <2>1, <2>2
<1>17. d.bytes <= MaxBytes /\ Cardinality(DOMAIN d.entries) + 1 <= MaxFaces
       /\ m.bytes + Reservation(s) <= MaxBytes
    BY <1>1 DEF HasRoom
<1>18. Charged(d) /\ d.bytes \in Nat
    <2>1. /\ Held(m) \in SUBSET DOMAIN d.blob /\ {n} \in SUBSET DOMAIN d.blob
          /\ Held(m) \cap {n} = {} /\ Held(m) \in SUBSET DOMAIN m.blob
        BY <1>6, <1>11
    <2>2. Bytes(d, Held(m) \cup {n}) = Bytes(d, Held(m)) + Bytes(d, {n})
        BY <1>12, <2>1, BytesUnion
    <2>3. Bytes(d, {n}) = Charge(d.blob[n]) BY <1>6, <1>12, BytesOne
    <2>4. Charge(d.blob[n]) = Reservation(s) BY <1>6, <1>7 DEF Charge
    <2>5. \A b \in Held(m) : Charge(d.blob[b]) = Charge(m.blob[b]) BY <1>6, <2>1
    <2>6. Bytes(d, Held(m)) = Bytes(m, Held(m)) BY <1>0, <2>1, <2>5, BytesSame
    <2>7. m.bytes = Bytes(m, Held(m)) /\ m.bytes \in Nat
        BY <1>0, <2>1, BytesNat DEF Sound, Charged
    <2>8. Bytes(d, Held(d)) = m.bytes + Reservation(s)
        BY Zenon, <1>10, <2>2, <2>3, <2>4, <2>6, <2>7
    <2>9. Cardinality(DOMAIN d.entries) <= MaxFaces BY <1>1 DEF Sound, Charged
    <2> QED BY <1>1, <1>2, <1>17, <2>7, <2>8, <2>9 DEF Charged
<1>19. HasRoom(d, 1, 0) BY <1>17, <1>18 DEF HasRoom
<1>20. Sound(d, {n}) BY <1>12, <1>13, <1>16, <1>18 DEF Sound
<1> QED BY <1>1, <1>3, <1>6, <1>9, <1>19, <1>20 DEF WithBlob

(* A face that changes its count of users, or becomes ready. *)
Marked(m, d, e, x) ==
    Made(d, m.entries, m.sources, m.bytes, [m.entry EXCEPT ![e] = x], m.blob)

Marks(m, e, x) ==
    /\ x \in Entry /\ x.key = m.entry[e].key /\ x.source = m.entry[e].source
    /\ ~x.failed /\ x.state \in {"loading", "ready"}
    /\ x.state = "ready" => m.blob[m.entry[e].source].state = "ready"

(* Changing the counters or the state of one face in the map, as Marks      *)
(* allows, keeps the cache sound.                                           *)
LEMMA MarkedSound ==
    ASSUME NEW m, Sound(m, {}), NEW e \in FacesIn(m), NEW x, Marks(m, e, x),
           NEW d, Marked(m, d, e, x)
    PROVE  /\ Sound(d, {}) /\ FacesIn(d) = FacesIn(m)
           /\ d.blob = m.blob /\ DOMAIN d.entry = DOMAIN m.entry /\ d.entry[e] = x
           /\ \A y \in DOMAIN m.entry \ {e} : d.entry[y] = m.entry[y]
<1>0. Formed(m) BY DEF Sound
<1>1. /\ DOMAIN d = {"entries", "sources", "bytes", "recency", "entry", "blob"}
      /\ d.entries = m.entries /\ d.sources = m.sources /\ d.bytes = m.bytes
      /\ d.entry = [m.entry EXCEPT ![e] = x] /\ d.blob = m.blob
    BY DEF Marked, Made
<1>2. e \in DOMAIN m.entry /\ m.entry \in Seq(Entry) BY <1>0, FacesKeyed DEF Formed
<1>3. /\ x \in Entry /\ x.key = m.entry[e].key /\ x.source = m.entry[e].source
      /\ x.state \in {"loading", "ready"}
      /\ x.state = "ready" => m.blob[m.entry[e].source].state = "ready"
    BY DEF Marks
<1>4. ~x.failed BY DEF Marks
<1>5. /\ d.entry \in Seq(Entry) /\ DOMAIN d.entry = DOMAIN m.entry /\ d.entry[e] = x
      /\ \A y \in DOMAIN m.entry \ {e} : d.entry[y] = m.entry[y]
    BY <1>1, <1>2, <1>3
<1>6. /\ FacesIn(d) = FacesIn(m) /\ Held(d) = Held(m)
      /\ \A y \in DOMAIN m.entry : d.entry[y].key = m.entry[y].key
                                  /\ d.entry[y].source = m.entry[y].source
    BY <1>1, <1>3, <1>5 DEF FacesIn, Held
<1>7. \A b : Holders(d, b) = Holders(m, b)
    BY <1>0, <1>6, FacesKeyed DEF Holders
<1>8. Formed(d)
    <2>1. ASSUME NEW k \in DOMAIN m.entries
          PROVE  /\ m.entries[k] \in DOMAIN m.entry
                 /\ d.entry[m.entries[k]].key = k
                 /\ d.entry[m.entries[k]].state \in {"loading", "ready"}
                 /\ ~d.entry[m.entries[k]].failed
        <3>1. /\ m.entries[k] \in DOMAIN m.entry /\ m.entry[m.entries[k]].key = k
              /\ m.entry[m.entries[k]].state \in {"loading", "ready"}
              /\ ~m.entry[m.entries[k]].failed
            BY Zenon, <1>0 DEF Formed
        <3>2. CASE m.entries[k] = e BY <1>3, <1>4, <1>5, <3>1, <3>2
        <3>3. CASE m.entries[k] # e
            <4>1. d.entry[m.entries[k]] = m.entry[m.entries[k]] BY <1>5, <3>1, <3>3
            <4> QED BY <3>1, <4>1
        <3> QED BY <3>2, <3>3
    <2>2. \A y \in DOMAIN d.entry \ FacesIn(d) : d.entry[y].state = "missing"
        BY <1>0, <1>5, <1>6 DEF Formed
    <2>3. d.entry \in Seq(Entry) /\ d.blob \in Seq(Blob) BY <1>0, <1>1, <1>5 DEF Formed
    <2> QED BY <1>0, <1>1, <1>5, <2>1, <2>2, <2>3 DEF Formed
<1>9. Sourced(d)
    <2> SUFFICES ASSUME NEW k \in DOMAIN m.entries
                 PROVE  /\ SourceOf[k] \in DOMAIN m.sources
                        /\ d.entry[m.entries[k]].source = m.sources[SourceOf[k]]
                        /\ d.entry[m.entries[k]].state = "ready"
                              => m.blob[m.sources[SourceOf[k]]].state = "ready"
        BY <1>1 DEF Sourced
    <2>1. /\ SourceOf[k] \in DOMAIN m.sources
          /\ m.entry[m.entries[k]].source = m.sources[SourceOf[k]]
          /\ m.entry[m.entries[k]].state = "ready"
                => m.blob[m.sources[SourceOf[k]]].state = "ready"
        BY DEF Sound, Sourced
    <2>2. m.entries[k] \in DOMAIN m.entry BY <1>0 DEF Formed
    <2>3. CASE m.entries[k] = e BY <1>3, <1>5, <2>1, <2>3
    <2>4. CASE m.entries[k] # e BY <1>5, <2>1, <2>2, <2>4
    <2> QED BY <2>3, <2>4
<1>10. Referred(d, {}) BY <1>1, <1>6, <1>7 DEF Sound, Referred
<1>11. Charged(d)
    <2>1. Bytes(d, Held(d)) = Bytes(m, Held(m)) BY <1>1, <1>6 DEF Bytes
    <2> QED BY <1>1, <2>1 DEF Sound, Charged
<1> QED BY <1>1, <1>5, <1>6, <1>8, <1>9, <1>10, <1>11 DEF Sound

(* The load of a source came back with n bytes. *)
Loaded(m, d, b, n) ==
    Made(d, m.entries, m.sources, m.bytes + (n - m.blob[b].reserved), m.entry,
         [m.blob EXCEPT ![b] = [@ EXCEPT !.reserved = 0, !.data = n, !.state = "ready"]])

(* A blob with another state, as a load or its failure leaves it. *)
Rewritten(x, y, state, data) ==
    /\ y.of = x.of /\ y.reserved = 0 /\ y.state = state /\ y.data = data

(* A source whose load ended holds its bytes and no reservation. *)
LEMMA BlobLoaded ==
    ASSUME NEW x \in Blob, NEW n \in Nat, NEW y,
           y = [x EXCEPT !.reserved = 0, !.data = n, !.state = "ready"]
    PROVE  y \in Blob /\ Rewritten(x, y, "ready", n) /\ y.refs = x.refs /\ y.failed = x.failed
<1>1. x = [of |-> x.of, state |-> x.state, reserved |-> x.reserved, data |-> x.data,
           refs |-> x.refs, failed |-> x.failed]
    BY DEF Blob
<1>2. y = [of |-> x.of, state |-> "ready", reserved |-> 0, data |-> n,
           refs |-> x.refs, failed |-> x.failed]
    BY <1>1
<1>3. x.of \in Sources /\ x.refs \in Int /\ x.failed \in BOOLEAN BY DEF Blob
<1>4. y \in Blob BY <1>2, <1>3 DEF Blob
<1>5. Rewritten(x, y, "ready", n) /\ y.refs = x.refs BY <1>2 DEF Rewritten
<1>6. y.failed = x.failed BY Zenon, <1>2
<1> QED BY <1>4, <1>5, <1>6

(* What is charged and what is held when one blob that is held is loaded.   *)
LEMMA LoadedSound ==
    ASSUME NEW m, Sound(m, {}), NEW b \in Held(m), NEW n \in LoadSizes,
           m.blob[b].state = "loading", NEW d, Loaded(m, d, b, n), d.bytes <= MaxBytes
    PROVE  /\ Sound(d, {}) /\ FacesIn(d) = FacesIn(m) /\ d.entry = m.entry
           /\ DOMAIN d.blob = DOMAIN m.blob /\ d.blob[b].state = "ready"
           /\ \A x \in DOMAIN m.blob : d.blob[x].failed = m.blob[x].failed
           /\ \A x \in DOMAIN m.blob \ {b} : d.blob[x] = m.blob[x]
<1> DEFINE y == [m.blob[b] EXCEPT !.reserved = 0, !.data = n, !.state = "ready"]
<1>0. Formed(m) /\ n \in Nat BY Constants DEF Sound
<1>1. /\ DOMAIN d = {"entries", "sources", "bytes", "recency", "entry", "blob"}
      /\ d.entries = m.entries /\ d.sources = m.sources /\ d.entry = m.entry
      /\ d.bytes = m.bytes + (n - m.blob[b].reserved)
      /\ d.blob = [m.blob EXCEPT ![b] = y]
    BY DEF Loaded, Made
<1>2. b \in DOMAIN m.blob /\ Len(m.blob) \in Nat /\ DOMAIN m.blob = 1..Len(m.blob)
    BY <1>0, HeldBlobs DEF Formed
<1>3. \A x \in DOMAIN m.blob : m.blob[x] \in Blob BY <1>0, HeldBlobs
<1>4. y \in Blob /\ Rewritten(m.blob[b], y, "ready", n) /\ y.refs = m.blob[b].refs
      /\ y.failed = m.blob[b].failed
    <2>1. \A x \in Blob : \A z : z = [x EXCEPT !.reserved = 0, !.data = n, !.state = "ready"] =>
             z \in Blob /\ Rewritten(x, z, "ready", n) /\ z.refs = x.refs /\ z.failed = x.failed
        BY <1>0, BlobLoaded
    <2>2. m.blob[b] \in Blob BY <1>2, <1>3
    <2> QED BY Zenon, <2>1, <2>2
<1>5. y.state = "ready" /\ y.of = m.blob[b].of /\ y.reserved = 0 /\ y.data = n
    BY <1>4 DEF Rewritten
<1> HIDE DEF y
<1>6. /\ DOMAIN d.blob = DOMAIN m.blob /\ d.blob[b] = y
      /\ \A x \in DOMAIN m.blob \ {b} : d.blob[x] = m.blob[x]
    BY <1>1, <1>2
<1>7. d.blob \in Seq(Blob)
    <2> DEFINE g(x) == IF x = b THEN y ELSE m.blob[x]
    <2>1. d.blob = [x \in 1..Len(m.blob) |-> g(x)] BY <1>1, <1>2
    <2>2. \A x \in 1..Len(m.blob) : g(x) \in Blob BY <1>2, <1>3, <1>4
    <2> HIDE DEF g
    <2> QED BY <1>2, <2>1, <2>2
<1>8. \A x \in DOMAIN m.blob : d.blob[x].failed = m.blob[x].failed BY Zenon, <1>4, <1>6
<1>9. \A x \in DOMAIN m.blob : d.blob[x].of = m.blob[x].of BY <1>5, <1>6
<1>10. FacesIn(d) = FacesIn(m) /\ Held(d) = Held(m) /\ \A x : Holders(d, x) = Holders(m, x)
    BY <1>1 DEF FacesIn, Held, Holders
<1>11. Formed(d) BY <1>0, <1>1, <1>6, <1>7, <1>8, <1>9, <1>10 DEF Formed
<1>12. Sourced(d)
    <2>1. \A s \in DOMAIN m.sources : m.sources[s] \in DOMAIN m.blob BY <1>0 DEF Formed
    <2>2. \A x \in DOMAIN m.blob : m.blob[x].state = "ready" => d.blob[x].state = "ready"
        BY <1>5, <1>6
    <2> QED BY <1>1, <2>1, <2>2 DEF Sound, Sourced
<1>13. Held(m) \in SUBSET DOMAIN m.blob BY <1>0, HeldBlobs
<1>14. \A x \in Held(m) :
          /\ m.blob[x].refs = Cardinality(Holders(m, x)) + (IF x \in {} THEN 1 ELSE 0)
          /\ m.blob[x].refs > 0
          /\ IF m.blob[x].state = "ready"
             THEN m.blob[x].reserved = 0 /\ m.blob[x].data \in LoadSizes
             ELSE m.blob[x].data = 0
    BY DEF Sound, Referred
<1>15. Referred(d, {})
    <2> SUFFICES ASSUME NEW x \in Held(m)
                 PROVE  /\ d.blob[x].refs = Cardinality(Holders(m, x)) + (IF x \in {} THEN 1 ELSE 0)
                        /\ d.blob[x].refs > 0
                        /\ IF d.blob[x].state = "ready"
                           THEN d.blob[x].reserved = 0 /\ d.blob[x].data \in LoadSizes
                           ELSE d.blob[x].data = 0
        BY <1>10 DEF Referred
    <2>1. CASE x = b BY <1>4, <1>5, <1>6, <1>14, <2>1
    <2>2. CASE x # b BY <1>6, <1>13, <1>14, <2>2
    <2> QED BY <2>1, <2>2
<1>16. Charged(d)
    <2> DEFINE B == Held(m) \ {b}
    <2>1. B \in SUBSET DOMAIN m.blob /\ {b} \in SUBSET DOMAIN m.blob /\ B \cap {b} = {}
          /\ B \cup {b} = Held(m) /\ DOMAIN d.blob = DOMAIN m.blob
        BY <1>2, <1>6, <1>13
    <2> HIDE DEF B
    <2>2. Bytes(m, Held(m)) = Bytes(m, B) + Bytes(m, {b})
        <3>1. Bytes(m, B \cup {b}) = Bytes(m, B) + Bytes(m, {b}) BY <1>0, <2>1, BytesUnion
        <3> QED BY Zenon, <2>1, <3>1
    <2>3. Bytes(d, Held(m)) = Bytes(d, B) + Bytes(d, {b})
        <3>1. B \in SUBSET DOMAIN d.blob /\ {b} \in SUBSET DOMAIN d.blob BY <2>1
        <3>2. Bytes(d, B \cup {b}) = Bytes(d, B) + Bytes(d, {b})
            BY <1>11, <2>1, <3>1, BytesUnion
        <3> QED BY Zenon, <2>1, <3>2
    <2>4. \A x \in B : Charge(d.blob[x]) = Charge(m.blob[x]) BY <1>6, <1>13 DEF B
    <2>5. Bytes(d, B) = Bytes(m, B) /\ Bytes(m, B) \in Nat BY <1>0, <2>1, <2>4, BytesSame, BytesNat
    <2>6. Bytes(m, {b}) = Charge(m.blob[b]) BY <1>0, <1>2, BytesOne
    <2>7. Bytes(d, {b}) = Charge(d.blob[b]) BY <1>2, <1>6, <1>11, BytesOne
    <2>8. Charge(m.blob[b]) = m.blob[b].reserved /\ m.blob[b].reserved \in Nat
        <3>1. m.blob[b].data = 0 BY <1>14
        <3> QED BY <1>2, <1>3, <3>1 DEF Charge, Blob
    <2>9. Charge(d.blob[b]) = n BY <1>5, <1>6 DEF Charge
    <2>10. m.bytes = Bytes(m, Held(m)) /\ Cardinality(DOMAIN m.entries) <= MaxFaces
        BY DEF Sound, Charged
    <2>11. Bytes(d, Held(d)) = Bytes(m, B) + n BY Zenon, <1>10, <2>3, <2>5, <2>7, <2>9
    <2>12. m.bytes = Bytes(m, B) + m.blob[b].reserved BY Zenon, <2>2, <2>6, <2>8, <2>10
    <2>13. d.bytes = Bytes(d, Held(d)) BY <1>0, <1>1, <2>5, <2>8, <2>11, <2>12
    <2> QED BY <1>1, <2>10, <2>13 DEF Charged
<1> QED BY <1>1, <1>5, <1>6, <1>8, <1>10, <1>11, <1>12, <1>15, <1>16 DEF Sound

(* A face that is given up with an error, and keeps its source to tell. *)
LEMMA FaceFailed ==
    ASSUME NEW x \in Entry, NEW y, y = [x EXCEPT !.state = "missing", !.failed = TRUE]
    PROVE  y \in Entry /\ y.state = "missing" /\ y.source = x.source /\ y.failed
<1>1. x = [key |-> x.key, state |-> x.state, waiters |-> x.waiters, pins |-> x.pins,
           source |-> x.source, failed |-> x.failed]
    BY DEF Entry
<1>2. y = [key |-> x.key, state |-> "missing", waiters |-> x.waiters, pins |-> x.pins,
           source |-> x.source, failed |-> TRUE]
    BY <1>1
<1>3. x.key \in Keys /\ x.waiters \in Nat /\ x.pins \in Nat /\ x.source \in Nat BY DEF Entry
<1>4. y \in Entry BY <1>2, <1>3 DEF Entry
<1>5. y.state = "missing" /\ y.source = x.source BY <1>2
<1>6. y.failed BY Zenon, <1>2
<1> QED BY <1>4, <1>5, <1>6

(* The blob of a load that failed. *)
LEMMA BlobFailed ==
    ASSUME NEW x \in Blob, NEW y, y = [x EXCEPT !.reserved = 0, !.refs = 0, !.failed = TRUE]
    PROVE  y \in Blob /\ y.of = x.of /\ y.state = x.state /\ y.failed
<1>1. x = [of |-> x.of, state |-> x.state, reserved |-> x.reserved, data |-> x.data,
           refs |-> x.refs, failed |-> x.failed]
    BY DEF Blob
<1>2. y = [of |-> x.of, state |-> x.state, reserved |-> 0, data |-> x.data,
           refs |-> 0, failed |-> TRUE]
    BY <1>1
<1>3. x.of \in Sources /\ x.state \in {"loading", "ready"} /\ x.data \in Nat BY DEF Blob
<1>4. y \in Blob
    <2>1. [of |-> x.of, state |-> x.state, reserved |-> 0, data |-> x.data,
           refs |-> 0, failed |-> TRUE] \in Blob
        BY <1>3 DEF Blob
    <2> QED BY Zenon, <1>2, <2>1
<1>5. y.of = x.of /\ y.state = x.state BY <1>2
<1>6. y.failed BY Zenon, <1>2
<1> QED BY <1>4, <1>5, <1>6

(* The faces S of blob b are given up, and b with them. *)
SourceGone(m, d, b, S) ==
    Made(d, [k \in {k \in DOMAIN m.entries : m.entries[k] \notin S} |-> m.entries[k]],
         Without(m.sources, m.blob[b].of), m.bytes - m.blob[b].reserved,
         [e \in DOMAIN m.entry |->
            IF e \in S THEN [m.entry[e] EXCEPT !.state = "missing", !.failed = TRUE]
            ELSE m.entry[e]],
         [m.blob EXCEPT ![b] = [@ EXCEPT !.reserved = 0, !.refs = 0, !.failed = TRUE]])

SourceLost(m, d, b, S) ==
    /\ Sound(d, {}) /\ FacesIn(d) = FacesIn(m) \ S
    /\ \A e \in S : m.entry[e].state = "loading"
    /\ DOMAIN d.entry = DOMAIN m.entry /\ DOMAIN d.blob = DOMAIN m.blob
    /\ \A e \in S : d.entry[e].failed /\ d.entry[e].source = b
    /\ \A e \in DOMAIN m.entry \ S : d.entry[e] = m.entry[e]
    /\ d.blob[b].failed /\ d.blob[b].state = "loading"
    /\ \A x \in DOMAIN m.blob \ {b} : d.blob[x] = m.blob[x]

(* Giving up a source that is being loaded, with all its faces, leaves      *)
(* nothing of it.                                                           *)
LEMMA SourceGoneSound ==
    ASSUME NEW m, Sound(m, {}), NEW b \in Held(m), m.blob[b].state = "loading",
           NEW d, SourceGone(m, d, b, Holders(m, b))
    PROVE  SourceLost(m, d, b, Holders(m, b))
<1> DEFINE y == [m.blob[b] EXCEPT !.reserved = 0, !.refs = 0, !.failed = TRUE]
           S == Holders(m, b)
           f(e) == [m.entry[e] EXCEPT !.state = "missing", !.failed = TRUE]
<1>0. Formed(m) BY DEF Sound
<1>1. /\ DOMAIN d = {"entries", "sources", "bytes", "recency", "entry", "blob"}
      /\ d.entries = [k \in {k \in DOMAIN m.entries : m.entries[k] \notin S} |-> m.entries[k]]
      /\ d.sources = Without(m.sources, m.blob[b].of)
      /\ d.entry = [e \in DOMAIN m.entry |-> IF e \in S THEN f(e) ELSE m.entry[e]]
      /\ d.bytes = m.bytes - m.blob[b].reserved
      /\ d.blob = [m.blob EXCEPT ![b] = y]
    BY Zenon DEF SourceGone, Made
<1>2. b \in DOMAIN m.blob /\ Len(m.blob) \in Nat /\ DOMAIN m.blob = 1..Len(m.blob)
    BY <1>0, HeldBlobs DEF Formed
<1>3. \A x \in DOMAIN m.blob : m.blob[x] \in Blob BY <1>0, HeldBlobs
<1>4. y \in Blob /\ y.of = m.blob[b].of /\ y.state = "loading" /\ y.failed
    <2>1. \A x \in Blob : \A z : z = [x EXCEPT !.reserved = 0, !.refs = 0, !.failed = TRUE] =>
             z \in Blob /\ z.of = x.of /\ z.state = x.state /\ z.failed
        BY BlobFailed
    <2>2. m.blob[b] \in Blob BY <1>2, <1>3
    <2> QED BY Zenon, <2>1, <2>2
<1>5. S \subseteq FacesIn(m) /\ \A e \in S : e \in DOMAIN m.entry /\ m.entry[e].source = b
    BY <1>0, FacesKeyed DEF Holders
<1>6. \A e \in S : f(e) \in Entry /\ f(e).state = "missing" /\ f(e).source = b /\ f(e).failed
    <2>1. \A x \in Entry : \A z : z = [x EXCEPT !.state = "missing", !.failed = TRUE] =>
             z \in Entry /\ z.state = "missing" /\ z.source = x.source /\ z.failed
        BY FaceFailed
    <2>2. \A e \in S : m.entry[e] \in Entry BY <1>0, <1>5 DEF Formed
    <2> QED BY ZenonT(30), <1>5, <2>1, <2>2
<1> HIDE DEF y, f
<1>7. \A e \in S : m.entry[e].state = "loading"
    <2>1. ASSUME NEW e \in S
          PROVE  /\ m.entry[e].state \in {"loading", "ready"}
                 /\ m.entry[e].state = "ready" => m.blob[b].state = "ready"
        <3>1. PICK k \in DOMAIN m.entries : m.entries[k] = e
            BY <1>0, <1>5, FacesKeyed
        <3>2. m.entry[e].state \in {"loading", "ready"} BY <1>0, <3>1 DEF Formed
        <3>3. /\ m.entry[e].source = m.sources[SourceOf[k]]
              /\ m.entry[e].state = "ready" => m.blob[m.sources[SourceOf[k]]].state = "ready"
            BY <3>1 DEF Sound, Sourced
        <3>4. m.entry[e].source = b BY <1>5
        <3> QED BY <3>2, <3>3, <3>4
    <2> QED BY <2>1
<1>8. \A k \in DOMAIN m.entries : m.entries[k] \in S <=> m.entry[m.entries[k]].source = b
    BY <1>0, FacesKeyed DEF Holders
<1> HIDE DEF S
<1>9. /\ DOMAIN d.entries = {k \in DOMAIN m.entries : m.entries[k] \notin S}
      /\ \A k \in DOMAIN d.entries : d.entries[k] = m.entries[k]
    BY <1>1
<1>10. FacesIn(d) = FacesIn(m) \ S
    <2>1. FacesIn(d) \subseteq FacesIn(m) \ S BY <1>9 DEF FacesIn
    <2>2. ASSUME NEW k \in DOMAIN m.entries, m.entries[k] \notin S
          PROVE  m.entries[k] \in FacesIn(d)
        <3>1. k \in DOMAIN d.entries /\ d.entries[k] = m.entries[k] BY <1>9, <2>2
        <3> QED BY <3>1 DEF FacesIn
    <2> QED BY <2>1, <2>2 DEF FacesIn
<1>11. /\ DOMAIN d.entry = DOMAIN m.entry
       /\ \A e \in S : d.entry[e] = f(e)
       /\ \A e \in DOMAIN m.entry \ S : d.entry[e] = m.entry[e]
    BY <1>1, <1>5
<1>12. d.entry \in Seq(Entry)
    <2> DEFINE g(e) == IF e \in S THEN f(e) ELSE m.entry[e]
    <2>1. Len(m.entry) \in Nat /\ DOMAIN m.entry = 1..Len(m.entry)
          /\ \A e \in DOMAIN m.entry : m.entry[e] \in Entry
        BY <1>0 DEF Formed
    <2>2. d.entry = [e \in 1..Len(m.entry) |-> g(e)] BY <1>1, <2>1
    <2>3. \A e \in 1..Len(m.entry) : g(e) \in Entry BY <1>6, <2>1
    <2> HIDE DEF g
    <2> QED BY <2>1, <2>2, <2>3
<1>13. /\ DOMAIN d.blob = DOMAIN m.blob /\ d.blob[b] = y
       /\ \A x \in DOMAIN m.blob \ {b} : d.blob[x] = m.blob[x]
    BY <1>1, <1>2
<1>14. d.blob \in Seq(Blob)
    <2> DEFINE g(x) == IF x = b THEN y ELSE m.blob[x]
    <2>1. d.blob = [x \in 1..Len(m.blob) |-> g(x)] BY <1>1, <1>2
    <2>2. \A x \in 1..Len(m.blob) : g(x) \in Blob BY <1>2, <1>3, <1>4
    <2> HIDE DEF g
    <2> QED BY <1>2, <2>1, <2>2
<1>15. /\ \A s \in DOMAIN m.sources : m.sources[s] = b <=> s = m.blob[b].of
       /\ m.blob[b].of \in DOMAIN m.sources
    BY <1>0, HeldBlobs DEF Formed
<1>16. /\ DOMAIN d.sources = DOMAIN m.sources \ {m.blob[b].of}
       /\ \A s \in DOMAIN d.sources : d.sources[s] = m.sources[s] /\ m.sources[s] # b
    BY <1>1, <1>15 DEF Without
<1>17. Held(d) = Held(m) \ {b}
    <2>1. Held(d) \subseteq Held(m) \ {b} BY <1>16 DEF Held
    <2>2. ASSUME NEW s \in DOMAIN m.sources, m.sources[s] # b
          PROVE  m.sources[s] \in Held(d)
        <3>1. s \in DOMAIN d.sources /\ d.sources[s] = m.sources[s] BY <1>15, <1>16, <2>2
        <3> QED BY <3>1 DEF Held
    <2> QED BY <2>1, <2>2 DEF Held
<1>18. \A x \in Held(d) : Holders(d, x) = Holders(m, x)
    <2>1. FacesIn(m) \subseteq DOMAIN m.entry BY <1>0, FacesKeyed
    <2> QED BY <1>5, <1>10, <1>11, <1>17, <2>1 DEF Holders
<1>19. Formed(d)
    <2>1. DOMAIN d.entries \subseteq Keys /\ IsFiniteSet(DOMAIN d.entries)
        <3>1. DOMAIN d.entries \in SUBSET DOMAIN m.entries BY <1>9
        <3> QED BY <1>0, <3>1, FS_Subset DEF Formed
    <2>2. ASSUME NEW k \in DOMAIN d.entries
          PROVE  /\ d.entries[k] \in DOMAIN d.entry
                 /\ d.entry[d.entries[k]].key = k
                 /\ d.entry[d.entries[k]].state \in {"loading", "ready"}
                 /\ ~d.entry[d.entries[k]].failed
        <3>1. k \in DOMAIN m.entries /\ m.entries[k] \notin S /\ d.entries[k] = m.entries[k]
            BY <1>9
        <3>2. /\ m.entries[k] \in DOMAIN m.entry /\ m.entry[m.entries[k]].key = k
              /\ m.entry[m.entries[k]].state \in {"loading", "ready"}
              /\ ~m.entry[m.entries[k]].failed
            BY Zenon, <1>0, <3>1 DEF Formed
        <3>3. d.entry[d.entries[k]] = m.entry[m.entries[k]] BY <1>11, <3>1, <3>2
        <3> QED BY <1>11, <3>1, <3>2, <3>3
    <2>3. \A e \in DOMAIN d.entry \ FacesIn(d) : d.entry[e].state = "missing"
        BY <1>0, <1>6, <1>10, <1>11 DEF Formed
    <2>4. DOMAIN d.sources \subseteq Sources BY <1>0, <1>16 DEF Formed
    <2>5. ASSUME NEW s \in DOMAIN d.sources
          PROVE  /\ d.sources[s] \in DOMAIN d.blob /\ d.blob[d.sources[s]].of = s
                 /\ ~d.blob[d.sources[s]].failed
        <3>1. s \in DOMAIN m.sources /\ d.sources[s] = m.sources[s] /\ m.sources[s] # b
            BY <1>16
        <3>2. /\ m.sources[s] \in DOMAIN m.blob /\ m.blob[m.sources[s]].of = s
              /\ ~m.blob[m.sources[s]].failed
            BY Zenon, <1>0, <3>1 DEF Formed
        <3>3. d.blob[d.sources[s]] = m.blob[m.sources[s]] BY <1>13, <3>1, <3>2
        <3> QED BY <1>13, <3>1, <3>2, <3>3
    <2> QED BY <1>1, <1>12, <1>14, <2>1, <2>2, <2>3, <2>4, <2>5 DEF Formed
<1>20. Sourced(d)
    <2> SUFFICES ASSUME NEW k \in DOMAIN d.entries
                 PROVE  /\ SourceOf[k] \in DOMAIN d.sources
                        /\ d.entry[d.entries[k]].source = d.sources[SourceOf[k]]
                        /\ d.entry[d.entries[k]].state = "ready"
                              => d.blob[d.sources[SourceOf[k]]].state = "ready"
        BY DEF Sourced
    <2>1. /\ k \in DOMAIN m.entries /\ m.entries[k] \notin S /\ d.entries[k] = m.entries[k]
          /\ m.entries[k] \in DOMAIN m.entry
        BY <1>0, <1>9 DEF Formed
    <2>2. /\ SourceOf[k] \in DOMAIN m.sources
          /\ m.entry[m.entries[k]].source = m.sources[SourceOf[k]]
          /\ m.entry[m.entries[k]].state = "ready"
                => m.blob[m.sources[SourceOf[k]]].state = "ready"
        BY <2>1 DEF Sound, Sourced
    <2>3. m.sources[SourceOf[k]] # b /\ m.sources[SourceOf[k]] \in DOMAIN m.blob
        BY <1>0, <1>8, <2>1, <2>2 DEF Formed
    <2>4. SourceOf[k] \in DOMAIN d.sources /\ d.sources[SourceOf[k]] = m.sources[SourceOf[k]]
        BY <1>15, <1>16, <2>2, <2>3
    <2> QED BY <1>11, <1>13, <2>1, <2>2, <2>3, <2>4
<1>21. Referred(d, {})
    <2>1. Held(m) \subseteq DOMAIN m.blob BY <1>0, HeldBlobs
    <2> QED BY <1>13, <1>17, <1>18, <2>1 DEF Sound, Referred
<1>22. Charged(d)
    <2> DEFINE B == Held(m) \ {b}
    <2>1. B \in SUBSET DOMAIN m.blob /\ {b} \in SUBSET DOMAIN m.blob /\ B \cap {b} = {}
          /\ B \cup {b} = Held(m) /\ Held(d) = B
        BY <1>0, <1>2, <1>17, HeldBlobs
    <2>2. \A x \in B : d.blob[x] = m.blob[x] BY <1>13, <2>1
    <2> HIDE DEF B
    <2>3. Bytes(m, Held(m)) = Bytes(m, B) + Bytes(m, {b})
        <3>1. Bytes(m, B \cup {b}) = Bytes(m, B) + Bytes(m, {b}) BY <1>0, <2>1, BytesUnion
        <3> QED BY Zenon, <2>1, <3>1
    <2>4. \A x \in B : Charge(d.blob[x]) = Charge(m.blob[x]) BY <2>2
    <2>5. Bytes(d, B) = Bytes(m, B) /\ Bytes(m, B) \in Nat
        BY <1>0, <2>1, <2>4, BytesSame, BytesNat
    <2>6. Bytes(m, {b}) = Charge(m.blob[b]) BY <1>0, <1>2, BytesOne
    <2>7. Charge(m.blob[b]) = m.blob[b].reserved /\ m.blob[b].reserved \in Nat
        <3>1. m.blob[b].data = 0 BY DEF Sound, Referred
        <3> QED BY <1>2, <1>3, <3>1 DEF Charge, Blob
    <2>8. /\ m.bytes = Bytes(m, Held(m)) /\ m.bytes <= MaxBytes
          /\ Cardinality(DOMAIN m.entries) <= MaxFaces
        BY DEF Sound, Charged
    <2>9. m.bytes = Bytes(m, B) + m.blob[b].reserved BY Zenon, <2>3, <2>6, <2>7, <2>8
    <2>10. Bytes(d, Held(d)) = Bytes(m, B) BY Zenon, <2>1, <2>5
    <2>11. Cardinality(DOMAIN d.entries) <= MaxFaces
        <3>1. DOMAIN d.entries \in SUBSET DOMAIN m.entries BY <1>9
        <3>2. IsFiniteSet(DOMAIN m.entries) BY <1>0 DEF Formed
        <3>3. /\ Cardinality(DOMAIN d.entries) <= Cardinality(DOMAIN m.entries)
              /\ IsFiniteSet(DOMAIN d.entries)
            BY <3>1, <3>2, FS_Subset
        <3>4. Cardinality(DOMAIN d.entries) \in Nat /\ Cardinality(DOMAIN m.entries) \in Nat
            BY <3>2, <3>3, FS_CardinalityType
        <3> QED BY <2>8, <3>3, <3>4, Constants
    <2> QED BY <1>1, <2>5, <2>7, <2>8, <2>9, <2>10, <2>11, Constants DEF Charged
<1>23. Sound(d, {}) BY <1>19, <1>20, <1>21, <1>22 DEF Sound
<1>24. /\ \A e \in S : d.entry[e].failed /\ d.entry[e].source = b
       /\ d.blob[b].failed /\ d.blob[b].state = "loading"
    BY Zenon, <1>4, <1>6, <1>11, <1>13
<1> QED BY Zenon, <1>7, <1>10, <1>11, <1>13, <1>23, <1>24 DEF S, SourceLost

-----------------------------------------------------------------------------
(* A face in the map has its source held. *)
LEMMA SourceHeld ==
    ASSUME NEW m, NEW X, Sound(m, X), NEW e \in FacesIn(m)
    PROVE  /\ m.entry[e].source \in Held(m) /\ m.entry[e].source \in DOMAIN m.blob
           /\ ~m.blob[m.entry[e].source].failed
           /\ m.entry[e].state = "ready" => m.blob[m.entry[e].source].state = "ready"
           /\ m.entry[e].state \in {"loading", "ready"} /\ e \in DOMAIN m.entry
           /\ m.entry[e].source = m.sources[SourceOf[m.entry[e].key]]
<1>0. Formed(m) BY DEF Sound
<1>1. m.entry[e].key \in DOMAIN m.entries /\ m.entries[m.entry[e].key] = e
      /\ e \in DOMAIN m.entry
    BY <1>0, FacesKeyed
<1>2. /\ SourceOf[m.entry[e].key] \in DOMAIN m.sources
      /\ m.entry[e].source = m.sources[SourceOf[m.entry[e].key]]
      /\ m.entry[e].state = "ready"
            => m.blob[m.sources[SourceOf[m.entry[e].key]]].state = "ready"
    BY <1>1 DEF Sound, Sourced
<1>3. m.entry[e].source \in Held(m) BY <1>0, <1>2, HeldBlobs
<1>4. m.entry[e].source \in DOMAIN m.blob /\ ~m.blob[m.entry[e].source].failed
    BY <1>0, <1>3, HeldBlobs
<1>5. m.entry[e].state \in {"loading", "ready"} BY <1>0, <1>1 DEF Formed
<1> QED BY <1>1, <1>2, <1>3, <1>4, <1>5

(* What a step leaves as it was for the goroutines that hold entry e. *)
Unmoved(m, d, e) ==
    /\ e \in DOMAIN d.entry
    /\ e \in FacesIn(m) <=> e \in FacesIn(d)
    /\ d.entry[e].state = m.entry[e].state /\ d.entry[e].source = m.entry[e].source
    /\ d.entry[e].failed = m.entry[e].failed
    /\ m.entry[e].source \in DOMAIN m.blob =>
          /\ m.entry[e].source \in DOMAIN d.blob
          /\ d.blob[m.entry[e].source].state = m.blob[m.entry[e].source].state
          /\ d.blob[m.entry[e].source].failed = m.blob[m.entry[e].source].failed

(* A goroutine stays well placed when its own face and source do not move. *)
LEMMA PlacedKept ==
    ASSUME NEW m, NEW X, Sound(m, X), NEW d, NEW q, Placed(m, q),
           q.at # "idle" => Unmoved(m, d, q.entry)
    PROVE  Placed(d, q)
<1>1. ASSUME q.entry \in FacesIn(m) PROVE m.entry[q.entry].source \in DOMAIN m.blob
    BY <1>1, SourceHeld
<1>2. CASE q.at = "idle" BY <1>2 DEF Placed
<1>3. CASE q.at # "idle"
    <2>1. Unmoved(m, d, q.entry) BY <1>3
    <2>2. /\ q.at \in {"waiting", "load", "fail", "waitSource", "parse", "leased"}
          /\ q.at \in {"waiting", "leased"} => q.evicted = {}
        BY <1>3 DEF Placed
    <2>3. CASE q.at \in {"load", "fail"} BY Zenon, <1>1, <2>1, <2>2, <2>3 DEF Placed, Unmoved
    <2>4. CASE q.at = "waitSource" BY Zenon, <1>1, <2>1, <2>2, <2>4 DEF Placed, Unmoved
    <2>5. CASE q.at = "parse" BY Zenon, <1>1, <2>1, <2>2, <2>5 DEF Placed, Unmoved
    <2>6. CASE q.at = "waiting" BY Zenon, <1>1, <2>1, <2>2, <2>6 DEF Placed, Unmoved
    <2>7. CASE q.at = "leased" BY Zenon, <1>1, <2>1, <2>2, <2>7 DEF Placed, Unmoved
    <2> QED BY <2>2, <2>3, <2>4, <2>5, <2>6, <2>7
<1> QED BY <1>2, <1>3

Works(q) == q.at \in {"load", "fail", "waitSource", "parse"}
Loads(q) == q.at \in {"load", "fail"}
Uses(q, e) == q.at \in {"leased", "waiting"} /\ q.entry = e

(* The users of a face when one goroutine moves. *)
LEMMA UsersStep ==
    ASSUME NEW calls, DOMAIN calls = Callers, NEW c \in Callers, NEW q, NEW e,
           NEW calls2, DOMAIN calls2 = Callers, calls2[c] = q,
           \A x \in Callers \ {c} : calls2[x] = calls[x]
    PROVE  /\ Cardinality(UsersOf(calls, e)) \in Nat /\ Cardinality(UsersOf(calls2, e)) \in Nat
           /\ Cardinality(UsersOf(calls2, e)) + (IF Uses(calls[c], e) THEN 1 ELSE 0) =
                 Cardinality(UsersOf(calls, e)) + (IF Uses(q, e) THEN 1 ELSE 0)
<1> DEFINE U == UsersOf(calls, e) \ {c}
<1>1. UsersOf(calls, e) = IF Uses(calls[c], e) THEN U \cup {c} ELSE U BY DEF UsersOf, Uses
<1>2. UsersOf(calls2, e) = IF Uses(q, e) THEN U \cup {c} ELSE U BY DEF UsersOf, Uses
<1>3. IsFiniteSet(U) /\ c \notin U
    <2>1. U \in SUBSET Callers BY DEF UsersOf
    <2> QED BY <2>1, FS_Subset, Constants
<1> HIDE DEF U
<1>4. Cardinality(U) \in Nat /\ Cardinality(U \cup {c}) = Cardinality(U) + 1
    BY <1>3, FS_AddElement, FS_CardinalityType
<1> QED BY <1>1, <1>2, <1>4

(* What remains to be shown of a step of goroutine c to place q.            *)
Moves(m, d, calls, calls2, c, q) ==
    /\ c \in Callers /\ DOMAIN calls2 = Callers /\ calls2[c] = q
    /\ \A x \in Callers \ {c} : calls2[x] = calls[x]
    /\ DOMAIN q = {"at", "entry", "evicted"} /\ Placed(d, q)
    /\ \A x \in Callers \ {c} :
          /\ Placed(d, calls[x])
          /\ Loads(calls[x]) => d.entry[calls[x].entry].source = m.entry[calls[x].entry].source
          /\ Works(q) /\ Works(calls[x]) => q.entry # calls[x].entry
          /\ Loads(q) /\ Loads(calls[x]) =>
                d.entry[q.entry].source # m.entry[calls[x].entry].source

(* When one goroutine moves and the faces of the others stay put, the calls *)
(* are sound after it.                                                      *)
LEMMA CallsStep ==
    ASSUME NEW m, NEW d, NEW calls, NEW calls2, NEW c, NEW q, CallsSound(m, calls),
           Moves(m, d, calls, calls2, c, q), Pinned(d, calls2)
    PROVE  CallsSound(d, calls2)
<1>1. \A x \in Callers : Placed(d, calls2[x]) /\ DOMAIN calls2[x] = {"at", "entry", "evicted"}
    BY DEF Moves, CallsSound
<1>2. Distinct(d, calls2)
    <2> SUFFICES ASSUME NEW x \in Callers, NEW y \in Callers, x # y
                 PROVE  /\ Works(calls2[x]) /\ Works(calls2[y]) => calls2[x].entry # calls2[y].entry
                        /\ Loads(calls2[x]) /\ Loads(calls2[y]) =>
                              d.entry[calls2[x].entry].source # d.entry[calls2[y].entry].source
        BY DEF Distinct, Works, Loads
    <2>1. /\ Works(calls[x]) /\ Works(calls[y]) => calls[x].entry # calls[y].entry
          /\ Loads(calls[x]) /\ Loads(calls[y]) =>
                m.entry[calls[x].entry].source # m.entry[calls[y].entry].source
        BY DEF CallsSound, Distinct, Works, Loads
    <2>2. CASE x = c
        <3>1. calls2[x] = q /\ calls2[y] = calls[y] /\ y \in Callers \ {c} BY <2>2 DEF Moves
        <3> QED BY <3>1 DEF Moves
    <2>3. CASE y = c
        <3>1. calls2[y] = q /\ calls2[x] = calls[x] /\ x \in Callers \ {c} BY <2>3 DEF Moves
        <3> QED BY <3>1 DEF Moves
    <2>4. CASE x # c /\ y # c
        <3>1. calls2[x] = calls[x] /\ calls2[y] = calls[y] /\ {x, y} \subseteq Callers \ {c}
            BY <2>4 DEF Moves
        <3> QED BY <2>1, <3>1 DEF Moves
    <2> QED BY <2>2, <2>3, <2>4
<1> QED BY <1>1, <1>2 DEF CallsSound, Moves

(* Faces that are evicted are in nobody's hands. *)
LEMMA EvictedUnused ==
    ASSUME NEW m, NEW X, Sound(m, X), NEW calls, CallsSound(m, calls),
           NEW e \in FacesIn(m), Evictable(m, e), NEW c \in Callers, calls[c].at # "idle"
    PROVE  calls[c].entry # e
<1> SUFFICES ASSUME calls[c].entry = e PROVE FALSE
    OBVIOUS
<1>1. m.entry[e].state = "ready" /\ m.entry[e].pins = 0 BY DEF Evictable
<1>2. Placed(m, calls[c]) BY DEF CallsSound
<1>3. calls[c].at \in {"waiting", "leased"} BY <1>1, <1>2 DEF Placed
<1>4. c \in UsersOf(calls, e) BY <1>3 DEF UsersOf
<1>5. IsFiniteSet(UsersOf(calls, e))
    <2>1. UsersOf(calls, e) \in SUBSET Callers BY DEF UsersOf
    <2> QED BY <2>1, FS_Subset, Constants
<1>6. Cardinality(UsersOf(calls, e)) = 0 BY <1>1 DEF CallsSound, Pinned
<1> QED BY <1>4, <1>5, <1>6, FS_EmptySet

(* An entry that stays when faces are taken out. *)
LEMMA GoneUnmoved ==
    ASSUME NEW m, NEW X, Sound(m, X), NEW F \in SUBSET FacesIn(m), NEW d, Gone(m, d, F),
           NEW e \in DOMAIN m.entry, e \notin F
    PROVE  Unmoved(m, d, e)
<1>0. Formed(m) BY DEF Sound
<1>1. d.entry[e] = m.entry[e] /\ e \in DOMAIN d.entry BY DEF Gone
<1>2. FacesIn(d) = FacesIn(m) \ F BY GoneSound
<1>3. BlobsLeft(m, d, F) BY <1>0, GoneBlobs
<1>4. m.entry[e].source \in DOMAIN m.blob =>
          /\ m.entry[e].source \in DOMAIN d.blob
          /\ d.blob[m.entry[e].source].state = m.blob[m.entry[e].source].state
          /\ d.blob[m.entry[e].source].failed = m.blob[m.entry[e].source].failed
    BY Zenon, <1>3 DEF BlobsLeft
<1> QED BY Zenon, <1>1, <1>2, <1>4 DEF Unmoved

(* Eviction leaves the goroutines' calls sound. *)
LEMMA GoneCalls ==
    ASSUME NEW m, NEW X, Sound(m, X), NEW calls, CallsSound(m, calls), NEW F,
           F \subseteq {e \in FacesIn(m) : Evictable(m, e)}, NEW d, Gone(m, d, F)
    PROVE  /\ CallsSound(d, calls)
           /\ \A c \in Callers : calls[c].at # "idle" => Unmoved(m, d, calls[c].entry)
<1>1. ASSUME NEW c \in Callers, calls[c].at # "idle"
      PROVE  Unmoved(m, d, calls[c].entry)
    <2>1. calls[c].entry \in DOMAIN m.entry BY <1>1 DEF CallsSound, Placed
    <2>2. calls[c].entry \notin F BY <1>1, EvictedUnused
    <2> QED BY <2>1, <2>2, GoneUnmoved
<1>2. \A c \in Callers : Placed(d, calls[c]) BY <1>1, PlacedKept DEF CallsSound
<1>3. Distinct(d, calls) BY <1>1 DEF CallsSound, Distinct, Unmoved
<1>4. Pinned(d, calls)
    <2>1. FacesIn(d) = FacesIn(m) \ F BY GoneSound
    <2>2. \A e \in FacesIn(d) : d.entry[e] = m.entry[e]
        BY <2>1, FacesKeyed DEF Gone, Sound
    <2> QED BY <2>1, <2>2 DEF CallsSound, Pinned
<1> QED BY <1>1, <1>2, <1>3, <1>4 DEF CallsSound

-----------------------------------------------------------------------------
(* The owners of the faces, as each kind of step leaves them: nothing       *)
(* happens to them ...                                                      *)
StatesKept(m, d) ==
    /\ DOMAIN d.entry = DOMAIN m.entry /\ FacesIn(d) = FacesIn(m)
    /\ \A e \in FacesIn(m) : d.entry[e].state = m.entry[e].state

(* The owners stay sound when the faces in the map keep their states, ... *)
LEMMA OwnersSame ==
    ASSUME NEW m, NEW d, NEW o, NEW calls, NEW calls2, OwnersSound(m, o, calls),
           StatesKept(m, d), \A x \in Callers : calls2[x].evicted = calls[x].evicted
    PROVE  OwnersSound(d, o, calls2)
  BY DEF OwnersSound, StatesKept

(* ... faces are evicted, and goroutine c is to close them ... *)
LEMMA OwnersEvict ==
    ASSUME NEW m, NEW d, NEW o, NEW calls, NEW calls2, OwnersSound(m, o, calls), NEW F,
           F \subseteq {e \in FacesIn(m) : m.entry[e].state = "ready"},
           FacesIn(m) \subseteq DOMAIN m.entry,
           DOMAIN d.entry = DOMAIN m.entry, FacesIn(d) = FacesIn(m) \ F,
           \A e \in FacesIn(d) : d.entry[e].state = m.entry[e].state,
           NEW c \in Callers, calls2[c].evicted = calls[c].evicted \cup F,
           \A x \in Callers \ {c} : calls2[x].evicted = calls[x].evicted
    PROVE  OwnersSound(d, o, calls2)
<1>1. \A e \in F : o[e] = "live" /\ e \in FacesIn(m) /\ e \in DOMAIN o BY DEF OwnersSound
<1>2. /\ o \in Seq({"none", "live", "closed"}) /\ DOMAIN o = DOMAIN d.entry
      /\ \A e \in FacesIn(d) : o[e] = IF d.entry[e].state = "ready" THEN "live" ELSE "none"
    BY DEF OwnersSound
<1>3. ASSUME NEW e \in DOMAIN o, o[e] = "live"
      PROVE  e \in FacesIn(d) \/ \E x \in Callers : e \in calls2[x].evicted
    <2>1. e \in FacesIn(m) \/ \E x \in Callers : e \in calls[x].evicted
        BY <1>3 DEF OwnersSound
    <2> QED BY <2>1
<1>4. ASSUME NEW x \in Callers, NEW e \in calls2[x].evicted
      PROVE  e \in DOMAIN o /\ e \notin FacesIn(d) /\ o[e] = "live"
    <2>1. e \in calls[x].evicted \/ (x = c /\ e \in F) BY <1>4
    <2> QED BY <1>1, <2>1 DEF OwnersSound
<1>5. ASSUME NEW x \in Callers, NEW y \in Callers, x # y
      PROVE  calls2[x].evicted \cap calls2[y].evicted = {}
    <2>1. calls[x].evicted \cap calls[y].evicted = {} BY <1>5 DEF OwnersSound
    <2>2. \A z \in Callers : calls[z].evicted \cap F = {} BY <1>1 DEF OwnersSound
    <2> QED BY <1>5, <2>1, <2>2
<1> QED BY <1>2, <1>3, <1>4, <1>5 DEF OwnersSound

(* ... goroutine c closes what it evicted, and faces that were never made   *)
(* may be given up ...                                                      *)
LEMMA OwnersClosed ==
    ASSUME NEW m, NEW d, NEW o, NEW o2, NEW calls, NEW calls2, OwnersSound(m, o, calls),
           NEW c \in Callers,
           o2 = [e \in DOMAIN o |-> IF e \in calls[c].evicted THEN "closed" ELSE o[e]],
           FacesIn(m) \subseteq DOMAIN m.entry,
           DOMAIN d.entry = DOMAIN m.entry, FacesIn(d) \subseteq FacesIn(m),
           \A e \in FacesIn(d) : d.entry[e].state = m.entry[e].state,
           \A e \in FacesIn(m) \ FacesIn(d) : m.entry[e].state # "ready",
           calls2[c].evicted = {},
           \A x \in Callers \ {c} : calls2[x].evicted = calls[x].evicted
    PROVE  OwnersSound(d, o2, calls2)
<1>1. \A e \in FacesIn(d) : e \notin calls[c].evicted BY DEF OwnersSound
<1>2. \A x \in Callers \ {c} : \A e \in calls[x].evicted : e \notin calls[c].evicted
    BY DEF OwnersSound
<1>3. DOMAIN o = DOMAIN m.entry /\ o \in Seq({"none", "live", "closed"}) BY DEF OwnersSound
<1>4. \A e \in DOMAIN o : o2[e] = IF e \in calls[c].evicted THEN "closed" ELSE o[e]
    OBVIOUS
<1>5. o2 \in Seq({"none", "live", "closed"}) /\ DOMAIN o2 = DOMAIN o
    <2> DEFINE g(e) == IF e \in calls[c].evicted THEN "closed" ELSE o[e]
    <2>1. Len(o) \in Nat /\ DOMAIN o = 1..Len(o) BY <1>3
    <2>2. \A e \in 1..Len(o) : g(e) \in {"none", "live", "closed"} BY <1>3, <2>1
    <2>3. o2 = [e \in 1..Len(o) |-> g(e)] BY <2>1
    <2> HIDE DEF g
    <2> QED BY <2>1, <2>2, <2>3
<1>6. \A e \in FacesIn(m) : e \in DOMAIN o => o[e] = IF m.entry[e].state = "ready" THEN "live" ELSE "none"
    BY DEF OwnersSound
<1>7. ASSUME NEW e \in FacesIn(d)
      PROVE  o2[e] = IF d.entry[e].state = "ready" THEN "live" ELSE "none"
    <2>1. e \in FacesIn(m) /\ o[e] = IF d.entry[e].state = "ready" THEN "live" ELSE "none"
        BY DEF OwnersSound
    <2>2. e \in DOMAIN o BY <1>3, <2>1
    <2> QED BY <1>1, <1>4, <2>1, <2>2
<1>8. ASSUME NEW e \in DOMAIN o2, o2[e] = "live"
      PROVE  e \in FacesIn(d) \/ \E x \in Callers : e \in calls2[x].evicted
    <2>1. e \in DOMAIN o /\ o[e] = "live" /\ e \notin calls[c].evicted BY <1>4, <1>5, <1>8
    <2>2. e \in FacesIn(m) \/ \E x \in Callers : e \in calls[x].evicted
        BY <2>1 DEF OwnersSound
    <2>3. e \in FacesIn(m) => e \in FacesIn(d) BY <1>6, <2>1
    <2> QED BY <2>1, <2>2, <2>3
<1>9. ASSUME NEW x \in Callers, NEW e \in calls2[x].evicted
      PROVE  e \in DOMAIN o2 /\ e \notin FacesIn(d) /\ o2[e] = "live"
    <2>1. x # c /\ e \in calls[x].evicted BY <1>9
    <2>2. e \in DOMAIN o /\ e \notin FacesIn(m) /\ o[e] = "live" BY <2>1 DEF OwnersSound
    <2> QED BY <1>2, <1>4, <1>5, <2>1, <2>2
<1>10. \A x, y \in Callers : x # y => calls2[x].evicted \cap calls2[y].evicted = {}
    BY DEF OwnersSound
<1>11. DOMAIN o2 = DOMAIN d.entry BY <1>3, <1>5
<1> QED BY <1>5, <1>7, <1>8, <1>9, <1>10, <1>11 DEF OwnersSound

(* ... a face is made ... *)
LEMMA OwnerBorn ==
    ASSUME NEW m, NEW d, NEW o, NEW o2, NEW calls, OwnersSound(m, o, calls),
           NEW e \in FacesIn(m), e \in DOMAIN m.entry, o2 = [o EXCEPT ![e] = "live"],
           DOMAIN d.entry = DOMAIN m.entry, FacesIn(d) = FacesIn(m),
           d.entry[e].state = "ready",
           \A x \in FacesIn(m) \ {e} : d.entry[x].state = m.entry[x].state
    PROVE  OwnersSound(d, o2, calls)
<1>1. o \in Seq({"none", "live", "closed"}) /\ DOMAIN o = DOMAIN m.entry BY DEF OwnersSound
<1>2. /\ o2 \in Seq({"none", "live", "closed"}) /\ DOMAIN o2 = DOMAIN o /\ o2[e] = "live"
      /\ \A x \in DOMAIN o \ {e} : o2[x] = o[x]
    BY <1>1
<1>3. \A x \in FacesIn(m) \ {e} : o2[x] = o[x]
    <2>1. \A x : x # e => o2[x] = o[x] BY <1>1
    <2> QED BY <2>1
<1>4. \A c \in Callers : \A x \in calls[c].evicted : x # e /\ x \in DOMAIN o BY DEF OwnersSound
<1> QED BY <1>1, <1>2, <1>3, <1>4 DEF OwnersSound

(* ... or a new entry waits for its face. *)
LEMMA OwnerAdded ==
    ASSUME NEW m, NEW d, NEW o, NEW calls, OwnersSound(m, o, calls),
           FacesIn(m) \subseteq DOMAIN m.entry, NEW n, n = Len(m.entry) + 1,
           m.entry \in Seq(Entry),
           FacesIn(d) = FacesIn(m) \cup {n}, DOMAIN d.entry = DOMAIN m.entry \cup {n},
           \A e \in DOMAIN m.entry : d.entry[e] = m.entry[e], d.entry[n].state = "loading"
    PROVE  OwnersSound(d, Append(o, "none"), calls)
<1> DEFINE o2 == Append(o, "none")
<1>1. o \in Seq({"none", "live", "closed"}) /\ DOMAIN o = DOMAIN m.entry BY DEF OwnersSound
<1>2. Len(o) = Len(m.entry) /\ Len(o) \in Nat
    <2>1. DOMAIN o = 1..Len(o) /\ DOMAIN m.entry = 1..Len(m.entry)
          /\ Len(o) \in Nat /\ Len(m.entry) \in Nat
        BY <1>1
    <2>2. \A a, b \in Nat : 1..a = 1..b => a = b
        <3>1. \A a, b \in Nat : 1..a = 1..b => a <= b
            <4>1. \A a \in Nat : a > 0 => a \in 1..a OBVIOUS
            <4> QED BY <4>1
        <3> QED BY <3>1
    <2>3. 1..Len(o) = 1..Len(m.entry) BY <1>1, <2>1
    <2> QED BY <2>1, <2>2, <2>3
<1>3. /\ o2 \in Seq({"none", "live", "closed"}) /\ DOMAIN o2 = DOMAIN o \cup {n}
      /\ o2[n] = "none" /\ n \notin DOMAIN o /\ \A x \in DOMAIN o : o2[x] = o[x]
    BY <1>1, <1>2
<1> HIDE DEF o2
<1>4. \A c \in Callers : \A x \in calls[c].evicted : x # n /\ x \in DOMAIN o
    BY <1>3 DEF OwnersSound
<1>5. OwnersSound(d, o2, calls) BY <1>1, <1>3, <1>4 DEF OwnersSound
<1> QED BY <1>5 DEF o2

-----------------------------------------------------------------------------
(* The calls do not notice what only happens to sources nobody loads. *)
LEMMA CallsSame ==
    ASSUME NEW m, NEW X, Sound(m, X), NEW calls, CallsSound(m, calls), NEW d,
           d.entry = m.entry, FacesIn(d) = FacesIn(m), DOMAIN m.blob \subseteq DOMAIN d.blob,
           \A b \in DOMAIN m.blob : /\ d.blob[b].state = m.blob[b].state
                                    /\ d.blob[b].failed = m.blob[b].failed
    PROVE  CallsSound(d, calls)
<1>1. \A e \in DOMAIN m.entry : Unmoved(m, d, e) BY Zenon DEF Unmoved
<1>2. \A c \in Callers : calls[c].at # "idle" => calls[c].entry \in DOMAIN m.entry
    BY DEF CallsSound, Placed
<1>3. \A c \in Callers : Placed(d, calls[c]) BY <1>1, <1>2, PlacedKept DEF CallsSound
<1>4. Distinct(d, calls) BY DEF CallsSound, Distinct
<1>5. Pinned(d, calls) BY DEF CallsSound, Pinned
<1> QED BY <1>3, <1>4, <1>5 DEF CallsSound

(* A face is new: its first goroutine begins to load or parse it. *)
Begins(m, calls, calls2, c, q, b) ==
    /\ c \in Callers /\ DOMAIN calls2 = Callers /\ calls2[c] = q
    /\ \A x \in Callers \ {c} : calls2[x] = calls[x]
    /\ calls[c].at = "idle"
    /\ DOMAIN q = {"at", "entry", "evicted"}
    /\ q.entry = Len(m.entry) + 1
    /\ q.at \in {"load", "waitSource", "parse"}
    /\ q.at = "parse" => m.blob[b].state = "ready"
    /\ q.at = "load" =>
          /\ m.blob[b].state = "loading"
          /\ \A x \in Callers : Loads(calls[x]) => m.entry[calls[x].entry].source # b

(* The goroutine that put a new face into the map is its only user, and the *)
(* calls stay sound.                                                        *)
LEMMA NewFaceCalls ==
    ASSUME NEW m, NEW b, Sound(m, {b}), NEW calls, CallsSound(m, calls), NEW k, NEW d,
           FaceAdded(m, d, k, b), HasRoom(m, 1, 0), NEW c, NEW q, NEW calls2,
           Begins(m, calls, calls2, c, q, b)
    PROVE  CallsSound(d, calls2)
<1> DEFINE n == Len(m.entry) + 1
<1>1. /\ n \notin DOMAIN m.entry /\ FacesIn(d) = FacesIn(m) \cup {n}
      /\ DOMAIN d.entry = DOMAIN m.entry \cup {n} /\ d.entry[n] = NewEntry(k, b)
      /\ \A e \in DOMAIN m.entry : d.entry[e] = m.entry[e]
      /\ d.blob = m.blob
    <2>1. Grown(m, d, n, NewEntry(k, b)) /\ d.blob = m.blob BY FaceAddedSound
    <2> QED BY <2>1 DEF Grown
<1>2. /\ NewEntry(k, b).state = "loading" /\ NewEntry(k, b).source = b
      /\ NewEntry(k, b).waiters = 0
    BY DEF NewEntry
<1>3. /\ c \in Callers /\ DOMAIN calls2 = Callers /\ calls2[c] = q
      /\ \A x \in Callers \ {c} : calls2[x] = calls[x]
      /\ calls[c].at = "idle" /\ DOMAIN q = {"at", "entry", "evicted"}
      /\ q.entry = n /\ q.at \in {"load", "waitSource", "parse"}
    BY DEF Begins
<1> HIDE DEF n
<1>4. \A e \in DOMAIN m.entry : Unmoved(m, d, e) BY <1>1 DEF Unmoved
<1>5. \A x \in Callers : calls[x].at # "idle" => calls[x].entry \in DOMAIN m.entry
    BY DEF CallsSound, Placed
<1>6. \A x \in Callers : Placed(d, calls[x]) BY <1>4, <1>5, PlacedKept DEF CallsSound
<1>7. Placed(d, q) BY <1>1, <1>2, <1>3 DEF Placed, Begins
<1>8. \A x \in Callers : Works(calls[x]) => calls[x].entry # n BY <1>1, <1>5 DEF Works
<1>9. \A x \in Callers : Loads(calls[x]) =>
          d.entry[calls[x].entry].source = m.entry[calls[x].entry].source
    BY <1>1, <1>5 DEF Loads
<1>10. \A x \in Callers : Loads(q) /\ Loads(calls[x]) =>
          d.entry[q.entry].source # m.entry[calls[x].entry].source
    BY <1>1, <1>2, <1>3 DEF Loads, Begins
<1>11. Moves(m, d, calls, calls2, c, q)
    BY <1>3, <1>6, <1>7, <1>8, <1>9, <1>10 DEF Moves
<1>12. Pinned(d, calls2)
    <2> SUFFICES ASSUME NEW e \in FacesIn(d)
                 PROVE  Cardinality(UsersOf(calls2, e)) =
                          IF d.entry[e].state = "ready" THEN d.entry[e].pins ELSE d.entry[e].waiters
        BY DEF Pinned
    <2>1. ~Uses(q, e) /\ ~Uses(calls[c], e) BY <1>3 DEF Uses
    <2>2. Cardinality(UsersOf(calls2, e)) = Cardinality(UsersOf(calls, e))
        BY <1>3, <2>1, UsersStep DEF CallsSound
    <2>3. CASE e = n
        <3>1. UsersOf(calls, n) = {} BY <1>1, <1>5 DEF UsersOf
        <3>2. Cardinality(UsersOf(calls, e)) = 0 BY <2>3, <3>1, FS_EmptySet
        <3> QED BY <1>1, <1>2, <2>2, <2>3, <3>2
    <2>4. CASE e # n
        <3>1. e \in FacesIn(m) /\ d.entry[e] = m.entry[e] BY <1>1, <2>4, FacesKeyed DEF Sound
        <3> QED BY <2>2, <3>1 DEF CallsSound, Pinned
    <2> QED BY <2>3, <2>4
<1> QED BY <1>11, <1>12, CallsStep

(* Faces F are out, and nobody has noticed. *)
Trimmed(m, d, F, calls) ==
    /\ CallsSound(d, calls)
    /\ FacesIn(d) = FacesIn(m) \ F
    /\ F \subseteq {e \in FacesIn(m) : m.entry[e].state = "ready"}
    /\ FacesIn(m) \subseteq DOMAIN m.entry
    /\ DOMAIN d.entry = DOMAIN m.entry /\ Len(d.entry) = Len(m.entry)
    /\ DOMAIN d.blob = DOMAIN m.blob /\ Len(d.blob) = Len(m.blob)
    /\ \A e \in FacesIn(d) : d.entry[e] = m.entry[e]
    /\ DOMAIN d.entries \subseteq DOMAIN m.entries
    /\ DOMAIN d.sources \subseteq DOMAIN m.sources
    /\ \A b \in DOMAIN m.blob : /\ d.blob[b].state = m.blob[b].state
                                /\ d.blob[b].of = m.blob[b].of
                                /\ d.blob[b].reserved = m.blob[b].reserved

(* Evicting nothing is a way to trim the cache. *)
LEMMA TrimmedNone ==
    ASSUME NEW m, NEW X, Sound(m, X), NEW calls, CallsSound(m, calls)
    PROVE  Trimmed(m, m, {}, calls)
<1>1. FacesIn(m) \subseteq DOMAIN m.entry BY FacesKeyed DEF Sound
<1> QED BY <1>1 DEF Trimmed

(* Room is made: what is left is sound, and goroutine c is to close what    *)
(* was evicted.                                                             *)
LEMMA RoomSound ==
    ASSUME NEW m, NEW X, Sound(m, X), NEW calls, CallsSound(m, calls), NEW r, NEW faces, NEW more,
           Room(m, r, faces, more)
    PROVE  /\ Sound(r.m, X) /\ Trimmed(m, r.m, r.evicted, calls)
           /\ X \cap Held(m) \subseteq Held(r.m)
<1>0. Formed(m) /\ FacesIn(m) \subseteq DOMAIN m.entry BY FacesKeyed DEF Sound
<1>1. /\ r.evicted \subseteq {e \in FacesIn(m) : Evictable(m, e)}
      /\ Gone(m, r.m, r.evicted) /\ r.evicted \in SUBSET FacesIn(m)
    BY DEF Room
<1>2. /\ Sound(r.m, X) /\ FacesIn(r.m) = FacesIn(m) \ r.evicted
      /\ X \cap Held(m) \subseteq Held(r.m)
    BY <1>1, GoneSound
<1>3. CallsSound(r.m, calls) BY <1>1, GoneCalls
<1>4. BlobsLeft(m, r.m, r.evicted) BY <1>0, <1>1, GoneBlobs
<1>5. \A a, b \in Nat : 1..a = 1..b => a = b
    <2>1. \A a, b \in Nat : 1..a = 1..b => a <= b
        <3>1. \A a \in Nat : a > 0 => a \in 1..a OBVIOUS
        <3> QED BY <3>1
    <2> QED BY <2>1
<1>6. DOMAIN r.m.entry = DOMAIN m.entry /\ Len(r.m.entry) = Len(m.entry)
    <2>1. DOMAIN r.m.entry = DOMAIN m.entry BY <1>1 DEF Gone
    <2>2. /\ DOMAIN r.m.entry = 1..Len(r.m.entry) /\ Len(r.m.entry) \in Nat
          /\ DOMAIN m.entry = 1..Len(m.entry) /\ Len(m.entry) \in Nat
        BY <1>2, <1>0 DEF Sound, Formed
    <2> QED BY <1>5, <2>1, <2>2
<1>7. DOMAIN r.m.blob = DOMAIN m.blob /\ Len(r.m.blob) = Len(m.blob)
    <2>1. DOMAIN r.m.blob = DOMAIN m.blob BY <1>4 DEF BlobsLeft
    <2>2. /\ DOMAIN r.m.blob = 1..Len(r.m.blob) /\ Len(r.m.blob) \in Nat
          /\ DOMAIN m.blob = 1..Len(m.blob) /\ Len(m.blob) \in Nat
        BY <1>2, <1>0 DEF Sound, Formed
    <2> QED BY <1>5, <2>1, <2>2
<1>8. \A e \in FacesIn(r.m) : r.m.entry[e] = m.entry[e] BY <1>0, <1>1, <1>2 DEF Gone
<1>9. /\ DOMAIN r.m.entries \subseteq DOMAIN m.entries
      /\ DOMAIN r.m.sources \subseteq DOMAIN m.sources
    BY <1>1 DEF Gone
<1>10. r.evicted \subseteq {e \in FacesIn(m) : m.entry[e].state = "ready"}
    BY <1>1 DEF Evictable
<1>11. \A b \in DOMAIN m.blob : /\ r.m.blob[b].state = m.blob[b].state
                                /\ r.m.blob[b].of = m.blob[b].of
                                /\ r.m.blob[b].reserved = m.blob[b].reserved
    BY <1>4 DEF BlobsLeft
<1>12. Trimmed(m, r.m, r.evicted, calls)
    BY Zenon, <1>0, <1>2, <1>3, <1>6, <1>7, <1>8, <1>9, <1>10, <1>11 DEF Trimmed
<1> QED BY <1>2, <1>12

-----------------------------------------------------------------------------
(* Goroutine c takes place q; the others keep theirs. *)
LEMMA CallTurns ==
    ASSUME IInv, NEW c \in Callers, NEW q, call' = [call EXCEPT ![c] = q]
    PROVE  /\ DOMAIN call' = Callers /\ call'[c] = q
           /\ \A x \in Callers \ {c} : call'[x] = call[x]
<1>1. DOMAIN call = Callers BY DEF IInv, CallsSound
<1> QED BY <1>1

(* The empty cache is sound. *)
LEMMA Begun == Init => IInv
<1> SUFFICES ASSUME Init PROVE IInv
    OBVIOUS
<1> DEFINE m == [entries |-> <<>>, sources |-> <<>>, bytes |-> 0, recency |-> <<>>,
                 entry |-> <<>>, blob |-> <<>>]
<1>1. cache = m /\ owner = <<>> /\ call = [c \in Callers |-> NoCall] BY DEF Init
<1>2. /\ DOMAIN m = {"entries", "sources", "bytes", "recency", "entry", "blob"}
      /\ m.entries = <<>> /\ m.sources = <<>> /\ m.bytes = 0
      /\ m.entry = <<>> /\ m.blob = <<>>
    OBVIOUS
<1> HIDE DEF m
<1>3. DOMAIN m.entries = {} /\ DOMAIN m.sources = {} /\ DOMAIN m.entry = {} /\ DOMAIN m.blob = {}
    BY <1>2
<1>4. FacesIn(m) = {} /\ Held(m) = {} BY <1>3 DEF FacesIn, Held
<1>5. Formed(m) BY <1>2, <1>3, <1>4, FS_EmptySet DEF Formed
<1>6. Sourced(m) /\ Referred(m, {}) BY <1>3, <1>4 DEF Sourced, Referred
<1>7. Charged(m)
    <2>1. Bytes(m, {}) = 0 BY SumEmpty DEF Bytes
    <2>2. Cardinality(DOMAIN m.entries) = 0 BY <1>3, FS_EmptySet
    <2> QED BY <1>2, <1>4, <2>1, <2>2, Constants DEF Charged
<1>8. /\ NoCall.at = "idle" /\ NoCall.evicted = {}
      /\ DOMAIN NoCall = {"at", "entry", "evicted"}
    BY DEF NoCall
<1>9. \A c \in Callers : call[c] = NoCall /\ Placed(m, call[c]) BY <1>1, <1>8 DEF Placed
<1>10. CallsSound(m, call) BY <1>1, <1>4, <1>8, <1>9 DEF CallsSound, Distinct, Pinned
<1>11. OwnersSound(m, owner, call)
    <2>1. owner \in Seq({"none", "live", "closed"}) /\ DOMAIN owner = {} BY <1>1
    <2> QED BY <1>3, <1>4, <1>8, <1>9, <2>1 DEF OwnersSound
<1> QED BY <1>1, <1>5, <1>6, <1>7, <1>10, <1>11 DEF IInv, Sound

(* A face that is there already is marked: it has one user more or less.    *)
Recounts(m, calls, calls2, c, q, e, x) ==
    /\ DOMAIN calls2 = Callers /\ calls2[c] = q
    /\ \A y \in Callers \ {c} : calls2[y] = calls[y]
    /\ DOMAIN q = {"at", "entry", "evicted"} /\ ~Works(q)
    /\ (IF x.state = "ready" THEN x.pins ELSE x.waiters)
             + (IF Uses(calls[c], e) THEN 1 ELSE 0)
           = (IF x.state = "ready" THEN m.entry[e].pins ELSE m.entry[e].waiters)
             + (IF Uses(q, e) THEN 1 ELSE 0)
    /\ \A y \in FacesIn(m) \ {e} : Uses(calls[c], y) <=> Uses(q, y)

(* A goroutine that takes or gives back a pin or a place among the waiters  *)
(* of its face, and counts itself there, keeps the calls sound.             *)
LEMMA MarkedCalls ==
    ASSUME NEW m, Sound(m, {}), NEW calls, CallsSound(m, calls), NEW e \in FacesIn(m), NEW x,
           Marks(m, e, x), NEW d, Marked(m, d, e, x), x.state = m.entry[e].state,
           NEW c \in Callers, NEW q, Placed(d, q), NEW calls2,
           Recounts(m, calls, calls2, c, q, e, x)
    PROVE  CallsSound(d, calls2) /\ StatesKept(m, d)
<1>1. /\ FacesIn(d) = FacesIn(m) /\ d.blob = m.blob
      /\ DOMAIN d.entry = DOMAIN m.entry /\ d.entry[e] = x
      /\ \A y \in DOMAIN m.entry \ {e} : d.entry[y] = m.entry[y]
    BY MarkedSound
<1>0. e \in DOMAIN m.entry /\ ~m.entry[e].failed /\ FacesIn(m) \subseteq DOMAIN m.entry
    BY FacesKeyed DEF Sound, Formed, FacesIn
<1>2. ASSUME NEW y \in DOMAIN m.entry
      PROVE  /\ d.entry[y].state = m.entry[y].state /\ d.entry[y].source = m.entry[y].source
             /\ d.entry[y].failed = m.entry[y].failed
    <2>1. CASE y = e
        <3>1. x.source = m.entry[e].source BY DEF Marks
        <3>2. m.entry[e].failed \in BOOLEAN
            <4>1. m.entry[e] \in Entry BY <1>0 DEF Sound, Formed
            <4> QED BY <4>1 DEF Entry
        <3>3. ~x.failed BY DEF Marks
        <3>4. x.failed \in BOOLEAN BY DEF Marks, Entry
        <3>5. d.entry[y].failed = m.entry[y].failed BY Zenon, <1>0, <1>1, <2>1, <3>2, <3>3, <3>4
        <3> QED BY <1>1, <2>1, <3>1, <3>5
    <2>2. CASE y # e BY Zenon, <1>1, <2>2
    <2> QED BY <2>1, <2>2
<1>3. \A y \in DOMAIN m.entry : Unmoved(m, d, y) BY Zenon, <1>1, <1>2 DEF Unmoved
<1>4. \A y \in Callers : calls[y].at # "idle" => calls[y].entry \in DOMAIN m.entry
    BY DEF CallsSound, Placed
<1>5. \A y \in Callers : Placed(d, calls[y]) BY <1>3, <1>4, PlacedKept DEF CallsSound
<1>6. \A y \in Callers : Loads(calls[y]) =>
          d.entry[calls[y].entry].source = m.entry[calls[y].entry].source
    BY <1>2, <1>4 DEF Loads
<1>7. Moves(m, d, calls, calls2, c, q) BY <1>5, <1>6 DEF Moves, Recounts, Works, Loads
<1>8. Pinned(d, calls2)
    <2> SUFFICES ASSUME NEW y \in FacesIn(m)
                 PROVE  Cardinality(UsersOf(calls2, y)) =
                          IF d.entry[y].state = "ready" THEN d.entry[y].pins ELSE d.entry[y].waiters
        BY <1>1 DEF Pinned
    <2>1. /\ Cardinality(UsersOf(calls, y)) \in Nat /\ Cardinality(UsersOf(calls2, y)) \in Nat
          /\ Cardinality(UsersOf(calls2, y)) + (IF Uses(calls[c], y) THEN 1 ELSE 0) =
                 Cardinality(UsersOf(calls, y)) + (IF Uses(q, y) THEN 1 ELSE 0)
        BY UsersStep DEF CallsSound, Recounts
    <2>2. Cardinality(UsersOf(calls, y)) =
             IF m.entry[y].state = "ready" THEN m.entry[y].pins ELSE m.entry[y].waiters
        BY DEF CallsSound, Pinned
    <2>3. CASE y = e
        <3>1. x.pins \in Nat /\ x.waiters \in Nat BY DEF Marks, Entry
        <3> QED BY <1>1, <2>1, <2>2, <2>3, <3>1 DEF Recounts
    <2>4. CASE y # e
        <3>1. d.entry[y] = m.entry[y] BY <1>0, <1>1, <2>4
        <3> QED BY <2>1, <2>2, <2>4, <3>1 DEF Recounts
    <2> QED BY <2>3, <2>4
<1>9. StatesKept(m, d) BY <1>0, <1>1, <1>2 DEF StatesKept
<1> QED BY <1>7, <1>8, <1>9, CallsStep

(* An entry whose counts or state change. *)
LEMMA EntryMarked ==
    ASSUME NEW m, Sound(m, {}), NEW e \in FacesIn(m), NEW s \in {"loading", "ready"},
           NEW p \in Nat, NEW w \in Nat, NEW x,
           x = [key |-> m.entry[e].key, state |-> s, waiters |-> w, pins |-> p,
                source |-> m.entry[e].source, failed |-> m.entry[e].failed],
           s = "ready" => m.blob[m.entry[e].source].state = "ready"
    PROVE  Marks(m, e, x) /\ x.state = s /\ x.pins = p /\ x.waiters = w
<1>1. e \in DOMAIN m.entry /\ ~m.entry[e].failed BY FacesKeyed DEF Sound, Formed, FacesIn
<1>2. m.entry[e] \in Entry BY <1>1 DEF Sound, Formed
<1>3. m.entry[e].key \in Keys /\ m.entry[e].source \in Nat /\ m.entry[e].failed \in BOOLEAN
    BY <1>2 DEF Entry
<1>4. x \in Entry BY <1>3 DEF Entry
<1>5. /\ x.key = m.entry[e].key /\ x.source = m.entry[e].source /\ x.state = s
      /\ x.pins = p /\ x.waiters = w
    OBVIOUS
<1>6. ~x.failed BY Zenon, <1>1
<1> QED BY <1>4, <1>5, <1>6 DEF Marks

(* The fields of an entry in the map. *)
LEMMA EntryFields ==
    ASSUME NEW m, Sound(m, {}), NEW e \in FacesIn(m)
    PROVE  /\ m.entry[e] = [key |-> m.entry[e].key, state |-> m.entry[e].state,
                waiters |-> m.entry[e].waiters, pins |-> m.entry[e].pins,
                source |-> m.entry[e].source, failed |-> m.entry[e].failed]
           /\ m.entry[e].pins \in Nat /\ m.entry[e].waiters \in Nat
           /\ e \in DOMAIN m.entry /\ m.entry \in Seq(Entry)
           /\ DOMAIN m = {"entries", "sources", "bytes", "recency", "entry", "blob"}
<1>1. e \in DOMAIN m.entry /\ m.entry \in Seq(Entry) BY FacesKeyed DEF Sound, Formed
<1>2. m.entry[e] \in Entry BY <1>1
<1> QED BY <1>1, <1>2 DEF Entry, Sound, Formed

(* What a goroutine keeps when it holds a lease and when it is idle. *)
LEMMA LeasedIs ==
    ASSUME NEW e
    PROVE  /\ Leased(e).at = "leased" /\ Leased(e).entry = e /\ Leased(e).evicted = {}
           /\ DOMAIN Leased(e) = {"at", "entry", "evicted"}
           /\ NoCall.at = "idle" /\ NoCall.evicted = {}
           /\ DOMAIN NoCall = {"at", "entry", "evicted"}
  BY DEF Leased, NoCall

(* AcquireHit pins a face for one more lease. *)
LEMMA HitStep ==
    ASSUME IInv, NEW c \in Callers, NEW k \in Keys, AcquireHit(c, k)
    PROVE  IInv'
<1> DEFINE e == cache.entries[k]
<1>1. Sound(cache, {}) /\ CallsSound(cache, call) /\ OwnersSound(cache, owner, call) BY DEF IInv
<1>2. /\ call[c] = NoCall /\ k \in DOMAIN cache.entries /\ cache.entry[e].state = "ready"
      /\ cache' = [cache EXCEPT !.entry[e].pins = @ + 1, !.recency = Touched(cache, e)]
      /\ call' = [call EXCEPT ![c] = Leased(e)] /\ owner' = owner
    BY DEF AcquireHit
<1>3. e \in FacesIn(cache) BY <1>2 DEF FacesIn
<1> HIDE DEF e
<1> DEFINE x == [key |-> cache.entry[e].key, state |-> "ready",
                 waiters |-> cache.entry[e].waiters, pins |-> cache.entry[e].pins + 1,
                 source |-> cache.entry[e].source, failed |-> cache.entry[e].failed]
<1>4. /\ cache.entry[e] = [key |-> cache.entry[e].key, state |-> cache.entry[e].state,
            waiters |-> cache.entry[e].waiters, pins |-> cache.entry[e].pins,
            source |-> cache.entry[e].source, failed |-> cache.entry[e].failed]
      /\ cache.entry[e].pins \in Nat /\ cache.entry[e].waiters \in Nat
      /\ e \in DOMAIN cache.entry /\ cache.entry \in Seq(Entry)
      /\ DOMAIN cache = {"entries", "sources", "bytes", "recency", "entry", "blob"}
    BY Zenon, <1>1, <1>3, EntryFields
<1>5. cache.blob[cache.entry[e].source].state = "ready" BY <1>1, <1>2, <1>3, SourceHeld
<1>6. Marks(cache, e, x) /\ x.state = "ready" /\ x.pins = cache.entry[e].pins + 1
    BY <1>1, <1>3, <1>4, <1>5, EntryMarked
<1>7. Marked(cache, cache', e, x)
    <2>1. [cache.entry[e] EXCEPT !.pins = @ + 1] = x BY <1>2, <1>4
    <2>2. cache' = [cache EXCEPT !.entry = [cache.entry EXCEPT
                        ![e] = [cache.entry[e] EXCEPT !.pins = @ + 1]],
                    !.recency = Touched(cache, e)]
        BY <1>2, <1>4
    <2> HIDE DEF x
    <2>3. cache' = [cache EXCEPT !.entry = [cache.entry EXCEPT ![e] = x],
                                 !.recency = Touched(cache, e)]
        BY Zenon, <2>1, <2>2
    <2> QED BY <1>4, <2>3 DEF Marked, Made
<1> HIDE DEF x
<1>8. /\ DOMAIN call' = Callers /\ call'[c] = Leased(e)
      /\ \A y \in Callers \ {c} : call'[y] = call[y]
    BY <1>2, CallTurns
<1>9. /\ Sound(cache', {}) /\ FacesIn(cache') = FacesIn(cache)
      /\ DOMAIN cache'.entry = DOMAIN cache.entry /\ cache'.entry[e] = x
    BY <1>1, <1>3, <1>6, <1>7, MarkedSound
<1>10. Placed(cache', Leased(e)) BY <1>3, <1>4, <1>6, <1>9, LeasedIs DEF Placed
<1>11. CallsSound(cache', call') /\ StatesKept(cache, cache')
    <2>1. ~Uses(call[c], e) /\ Uses(Leased(e), e) /\ ~Works(Leased(e))
          /\ \A y \in FacesIn(cache) \ {e} : ~Uses(call[c], y) /\ ~Uses(Leased(e), y)
        BY <1>2, LeasedIs DEF Uses, Works
    <2>2. Recounts(cache, call, call', c, Leased(e), e, x)
        BY <1>2, <1>4, <1>6, <1>8, <2>1, LeasedIs DEF Recounts
    <2>3. x.state = cache.entry[e].state BY <1>2, <1>6
    <2> QED BY <1>1, <1>3, <1>6, <1>7, <1>10, <2>2, <2>3, MarkedCalls
<1>12. OwnersSound(cache', owner', call')
    <2>1. \A y \in Callers : call'[y].evicted = call[y].evicted BY <1>2, <1>8, LeasedIs
    <2>2. OwnersSound(cache', owner, call') BY <1>1, <1>11, <2>1, OwnersSame
    <2> QED BY <1>2, <2>2
<1> QED BY <1>9, <1>11, <1>12 DEF IInv

(* AcquireWait adds a waiter to a face that is being made. *)
LEMMA WaitStep ==
    ASSUME IInv, NEW c \in Callers, NEW k \in Keys, AcquireWait(c, k)
    PROVE  IInv'
<1> DEFINE e == cache.entries[k]
           q == [NoCall EXCEPT !.at = "waiting", !.entry = e]
<1>1. Sound(cache, {}) /\ CallsSound(cache, call) /\ OwnersSound(cache, owner, call) BY DEF IInv
<1>2. /\ call[c] = NoCall /\ k \in DOMAIN cache.entries /\ cache.entry[e].state = "loading"
      /\ cache' = [cache EXCEPT !.entry[e].waiters = @ + 1]
      /\ call' = [call EXCEPT ![c] = q] /\ owner' = owner
    BY DEF AcquireWait
<1>3. e \in FacesIn(cache) BY <1>2 DEF FacesIn
<1>a. /\ q.at = "waiting" /\ q.entry = e /\ q.evicted = {}
      /\ DOMAIN q = {"at", "entry", "evicted"}
    BY DEF NoCall
<1> HIDE DEF e, q
<1> DEFINE x == [key |-> cache.entry[e].key, state |-> "loading",
                 waiters |-> cache.entry[e].waiters + 1, pins |-> cache.entry[e].pins,
                 source |-> cache.entry[e].source, failed |-> cache.entry[e].failed]
<1>4. /\ cache.entry[e] = [key |-> cache.entry[e].key, state |-> cache.entry[e].state,
            waiters |-> cache.entry[e].waiters, pins |-> cache.entry[e].pins,
            source |-> cache.entry[e].source, failed |-> cache.entry[e].failed]
      /\ cache.entry[e].pins \in Nat /\ cache.entry[e].waiters \in Nat
      /\ e \in DOMAIN cache.entry /\ cache.entry \in Seq(Entry)
      /\ DOMAIN cache = {"entries", "sources", "bytes", "recency", "entry", "blob"}
    BY Zenon, <1>1, <1>3, EntryFields
<1>6. Marks(cache, e, x) /\ x.state = "loading" /\ x.waiters = cache.entry[e].waiters + 1
    BY <1>1, <1>3, <1>4, EntryMarked
<1>7. Marked(cache, cache', e, x)
    <2>1. [cache.entry[e] EXCEPT !.waiters = @ + 1] = x BY <1>2, <1>4
    <2>2. cache' = [cache EXCEPT !.entry = [cache.entry EXCEPT
                        ![e] = [cache.entry[e] EXCEPT !.waiters = @ + 1]]]
        BY <1>2, <1>4
    <2> HIDE DEF x
    <2>3. cache' = [cache EXCEPT !.entry = [cache.entry EXCEPT ![e] = x]]
        BY Zenon, <2>1, <2>2
    <2> QED BY <1>4, <2>3 DEF Marked, Made
<1> HIDE DEF x
<1>8. /\ DOMAIN call' = Callers /\ call'[c] = q
      /\ \A y \in Callers \ {c} : call'[y] = call[y]
    BY <1>2, CallTurns
<1>9. /\ Sound(cache', {}) /\ FacesIn(cache') = FacesIn(cache)
      /\ DOMAIN cache'.entry = DOMAIN cache.entry /\ cache'.entry[e] = x
    BY <1>1, <1>3, <1>6, <1>7, MarkedSound
<1>10. Placed(cache', q) BY <1>a, <1>3, <1>4, <1>9 DEF Placed
<1>11. CallsSound(cache', call') /\ StatesKept(cache, cache')
    <2>1. ~Uses(call[c], e) /\ Uses(q, e) /\ ~Works(q)
          /\ \A y \in FacesIn(cache) \ {e} : ~Uses(call[c], y) /\ ~Uses(q, y)
        BY <1>a, <1>2, LeasedIs DEF Uses, Works
    <2>2. Recounts(cache, call, call', c, q, e, x)
        BY <1>a, <1>2, <1>4, <1>6, <1>8, <2>1 DEF Recounts
    <2>3. x.state = cache.entry[e].state BY <1>2, <1>6
    <2> QED BY <1>1, <1>3, <1>6, <1>7, <1>10, <2>2, <2>3, MarkedCalls
<1>12. OwnersSound(cache', owner', call')
    <2>1. \A y \in Callers : call'[y].evicted = call[y].evicted BY <1>a, <1>2, <1>8, LeasedIs
    <2>2. OwnersSound(cache', owner, call') BY <1>1, <1>11, <2>1, OwnersSame
    <2> QED BY <1>2, <2>2
<1> QED BY <1>9, <1>11, <1>12 DEF IInv

(* CloseLease takes the pin away that the lease had. *)
LEMMA CloseStep ==
    ASSUME IInv, NEW c \in Callers, CloseLease(c)
    PROVE  IInv'
<1> DEFINE e == call[c].entry
<1>1. Sound(cache, {}) /\ CallsSound(cache, call) /\ OwnersSound(cache, owner, call) BY DEF IInv
<1>2. /\ call[c].at = "leased"
      /\ cache' = [cache EXCEPT !.entry[e].pins = IF @ > 0 THEN @ - 1 ELSE @]
      /\ call' = [call EXCEPT ![c] = NoCall] /\ owner' = owner
    BY DEF CloseLease, Finished
<1>3. e \in FacesIn(cache) /\ cache.entry[e].state = "ready" /\ call[c].evicted = {}
    BY <1>1, <1>2 DEF CallsSound, Placed
<1>a. Uses(call[c], e) /\ \A y \in FacesIn(cache) \ {e} : ~Uses(call[c], y)
    BY <1>2 DEF Uses
<1>b. e = call[c].entry OBVIOUS
<1> HIDE DEF e
<1>4. /\ cache.entry[e] = [key |-> cache.entry[e].key, state |-> cache.entry[e].state,
            waiters |-> cache.entry[e].waiters, pins |-> cache.entry[e].pins,
            source |-> cache.entry[e].source, failed |-> cache.entry[e].failed]
      /\ cache.entry[e].pins \in Nat /\ cache.entry[e].waiters \in Nat
      /\ e \in DOMAIN cache.entry /\ cache.entry \in Seq(Entry)
      /\ DOMAIN cache = {"entries", "sources", "bytes", "recency", "entry", "blob"}
    BY Zenon, <1>1, <1>3, EntryFields
<1>c. cache.entry[e].pins > 0
    <2>1. c \in UsersOf(call, e) BY <1>a DEF UsersOf, Uses
    <2>2. IsFiniteSet(UsersOf(call, e))
        <3>1. UsersOf(call, e) \in SUBSET Callers BY DEF UsersOf
        <3> QED BY <3>1, FS_Subset, Constants
    <2>3. Cardinality(UsersOf(call, e)) # 0 BY <2>1, <2>2, FS_EmptySet
    <2>4. Cardinality(UsersOf(call, e)) = cache.entry[e].pins
        BY <1>1, <1>3 DEF CallsSound, Pinned
    <2> QED BY <1>4, <2>3, <2>4
<1> DEFINE x == [key |-> cache.entry[e].key, state |-> "ready",
                 waiters |-> cache.entry[e].waiters, pins |-> cache.entry[e].pins - 1,
                 source |-> cache.entry[e].source, failed |-> cache.entry[e].failed]
<1>5. cache.blob[cache.entry[e].source].state = "ready" BY <1>1, <1>3, SourceHeld
<1>6. Marks(cache, e, x) /\ x.state = "ready" /\ x.pins = cache.entry[e].pins - 1
    <2>1. cache.entry[e].pins - 1 \in Nat BY <1>4, <1>c
    <2> QED BY <1>1, <1>3, <1>4, <1>5, <2>1, EntryMarked
<1>7. Marked(cache, cache', e, x)
    <2>1. [cache.entry[e] EXCEPT !.pins = cache.entry[e].pins - 1] = x BY <1>3, <1>4
    <2>2. cache' = [cache EXCEPT !.entry = [cache.entry EXCEPT
                        ![e] = [cache.entry[e] EXCEPT !.pins = cache.entry[e].pins - 1]]]
        BY <1>2, <1>4, <1>c
    <2> HIDE DEF x
    <2>3. cache' = [cache EXCEPT !.entry = [cache.entry EXCEPT ![e] = x]]
        BY Zenon, <2>1, <2>2
    <2> QED BY <1>4, <2>3 DEF Marked, Made
<1> HIDE DEF x
<1>8. /\ DOMAIN call' = Callers /\ call'[c] = NoCall
      /\ \A y \in Callers \ {c} : call'[y] = call[y]
    BY <1>2, CallTurns
<1>9. Sound(cache', {}) BY <1>1, <1>3, <1>6, <1>7, MarkedSound
<1>10. Placed(cache', NoCall) BY LeasedIs DEF Placed
<1>11. CallsSound(cache', call') /\ StatesKept(cache, cache')
    <2>1. ~Works(NoCall) /\ \A y : ~Uses(NoCall, y) BY LeasedIs DEF Uses, Works
    <2>2. Recounts(cache, call, call', c, NoCall, e, x)
        BY <1>a, <1>3, <1>4, <1>6, <1>8, <2>1, LeasedIs DEF Recounts
    <2>3. x.state = cache.entry[e].state BY <1>3, <1>6
    <2> QED BY <1>1, <1>3, <1>6, <1>7, <1>10, <2>2, <2>3, MarkedCalls
<1>12. OwnersSound(cache', owner', call')
    <2>1. \A y \in Callers : call'[y].evicted = call[y].evicted BY <1>3, <1>8, LeasedIs
    <2>2. OwnersSound(cache', owner, call') BY <1>1, <1>11, <2>1, OwnersSame
    <2> QED BY <1>2, <2>2
<1> QED BY <1>9, <1>11, <1>12 DEF IInv

(* Pins and waiters stay right for faces whose users stay.                  *)
LEMMA PinnedSame ==
    ASSUME NEW m, NEW d, NEW calls, NEW calls2, NEW c \in Callers, NEW q, CallsSound(m, calls),
           DOMAIN calls2 = Callers, calls2[c] = q,
           \A x \in Callers \ {c} : calls2[x] = calls[x],
           FacesIn(d) \subseteq FacesIn(m), \A e \in FacesIn(d) : d.entry[e] = m.entry[e],
           \A e \in FacesIn(d) : Uses(calls[c], e) <=> Uses(q, e)
    PROVE  Pinned(d, calls2)
<1> SUFFICES ASSUME NEW e \in FacesIn(d)
             PROVE  Cardinality(UsersOf(calls2, e)) =
                      IF d.entry[e].state = "ready" THEN d.entry[e].pins ELSE d.entry[e].waiters
    BY DEF Pinned
<1>1. /\ Cardinality(UsersOf(calls, e)) \in Nat /\ Cardinality(UsersOf(calls2, e)) \in Nat
      /\ Cardinality(UsersOf(calls2, e)) + (IF Uses(calls[c], e) THEN 1 ELSE 0) =
             Cardinality(UsersOf(calls, e)) + (IF Uses(q, e) THEN 1 ELSE 0)
    BY UsersStep DEF CallsSound
<1>2. Cardinality(UsersOf(calls, e)) =
         IF m.entry[e].state = "ready" THEN m.entry[e].pins ELSE m.entry[e].waiters
    BY DEF CallsSound, Pinned
<1> QED BY <1>1, <1>2

(* A goroutine's fields. *)
LEMMA CallFields ==
    ASSUME IInv, NEW c \in Callers
    PROVE  /\ Sound(cache, {}) /\ CallsSound(cache, call) /\ OwnersSound(cache, owner, call)
           /\ Placed(cache, call[c]) /\ DOMAIN call[c] = {"at", "entry", "evicted"}
           /\ DOMAIN call = Callers
           /\ Formed(cache) /\ FacesIn(cache) \subseteq DOMAIN cache.entry
  BY FacesKeyed DEF IInv, CallsSound, Sound

(* Workers have faces of their own, and loaders sources of their own. *)
LEMMA Apart ==
    ASSUME NEW m, NEW calls, CallsSound(m, calls), NEW x \in Callers, NEW y \in Callers, x # y
    PROVE  /\ Works(calls[x]) /\ Works(calls[y]) => calls[x].entry # calls[y].entry
           /\ Loads(calls[x]) /\ Loads(calls[y]) =>
                 m.entry[calls[x].entry].source # m.entry[calls[y].entry].source
  BY DEF CallsSound, Distinct, Works, Loads

(* SourceLoaded: who waited for a load fails with it, or parses.            *)
LEMMA SourceLoadedStep ==
    ASSUME IInv, NEW c \in Callers, SourceLoaded(c)
    PROVE  IInv'
<1> DEFINE e == call[c].entry
           b == cache.entry[e].source
<1>1. /\ Sound(cache, {}) /\ CallsSound(cache, call) /\ OwnersSound(cache, owner, call)
      /\ Placed(cache, call[c]) /\ DOMAIN call[c] = {"at", "entry", "evicted"}
      /\ DOMAIN call = Callers
      /\ Formed(cache) /\ FacesIn(cache) \subseteq DOMAIN cache.entry
    BY CallFields
<1>2. call[c].at = "waitSource" /\ cache' = cache
      /\ (cache.blob[b].state = "ready" \/ cache.blob[b].failed)
    BY DEF SourceLoaded, SourceOfCall
<1>3. \A x : ~Uses(call[c], x) BY <1>2 DEF Uses
<1>4. \A x \in Callers : Placed(cache, call[x]) BY <1>1 DEF CallsSound
<1>5. CASE cache.blob[b].failed
    <2>1. call' = [call EXCEPT ![c] = NoCall] /\ owner' = Close(call[c].evicted)
        BY <1>5 DEF SourceLoaded, SourceOfCall, Finished
    <2>2. /\ DOMAIN call' = Callers /\ call'[c] = NoCall
          /\ \A y \in Callers \ {c} : call'[y] = call[y]
        BY <2>1, CallTurns
    <2>3. Placed(cache, NoCall) /\ ~Works(NoCall) /\ ~Loads(NoCall) /\ \A x : ~Uses(NoCall, x)
        BY LeasedIs DEF Placed, Works, Loads, Uses
    <2>4. Moves(cache, cache, call, call', c, NoCall)
        BY <1>4, <2>2, <2>3, LeasedIs DEF Moves
    <2>5. Pinned(cache, call') BY <1>1, <1>3, <2>2, <2>3, PinnedSame
    <2>6. CallsSound(cache, call') BY <1>1, <2>4, <2>5, CallsStep
    <2>7. OwnersSound(cache, owner', call')
        <3>1. owner' = [x \in DOMAIN owner |-> IF x \in call[c].evicted THEN "closed" ELSE owner[x]]
            BY <2>1 DEF Close
        <3> QED BY <1>1, <2>2, <3>1, LeasedIs, OwnersClosed
    <2> QED BY <1>1, <1>2, <2>6, <2>7 DEF IInv
<1>6. CASE ~cache.blob[b].failed
    <2> DEFINE q == [call[c] EXCEPT !.at = "parse"]
    <2>1. call' = [call EXCEPT ![c].at = "parse"] /\ owner' = owner
        BY <1>6 DEF SourceLoaded, SourceOfCall, Proceed
    <2>a. call' = [call EXCEPT ![c] = q] BY <1>1, <2>1
    <2>b. /\ q.at = "parse" /\ q.entry = e /\ q.evicted = call[c].evicted
          /\ DOMAIN q = {"at", "entry", "evicted"}
        BY <1>1
    <2> HIDE DEF q
    <2>2. /\ DOMAIN call' = Callers /\ call'[c] = q
          /\ \A y \in Callers \ {c} : call'[y] = call[y]
        BY <2>a, CallTurns
    <2>3. e \in FacesIn(cache) /\ cache.entry[e].state = "loading" /\ e \in DOMAIN cache.entry
          /\ cache.blob[b].state = "ready"
        BY <1>1, <1>2, <1>6 DEF Placed
    <2>4. Placed(cache, q) BY <2>b, <2>3 DEF Placed
    <2>5. ~Loads(q) /\ Works(call[c]) /\ \A x : ~Uses(q, x)
        BY <1>2, <2>b DEF Loads, Works, Uses
    <2>6. \A x \in Callers \ {c} : Works(call[x]) => q.entry # call[x].entry
        BY <1>1, <2>b, <2>5, Apart
    <2>7. Moves(cache, cache, call, call', c, q)
        BY <1>4, <2>b, <2>2, <2>4, <2>5, <2>6 DEF Moves
    <2>8. Pinned(cache, call') BY <1>1, <1>3, <2>2, <2>5, PinnedSame
    <2>9. CallsSound(cache, call') BY <1>1, <2>7, <2>8, CallsStep
    <2>10. OwnersSound(cache, owner, call')
        <3>1. StatesKept(cache, cache) BY DEF StatesKept
        <3>2. \A x \in Callers : call'[x].evicted = call[x].evicted BY <2>b, <2>2
        <3> QED BY <1>1, <3>1, <3>2, OwnersSame
    <2> QED BY <1>1, <1>2, <2>1, <2>9, <2>10 DEF IInv
<1> QED BY <1>5, <1>6

(* Woken: the waiter fails with the face, or has the pin it was given.      *)
LEMMA WokenStep ==
    ASSUME IInv, NEW c \in Callers, Woken(c)
    PROVE  IInv'
<1> DEFINE e == call[c].entry
           q == IF cache.entry[e].failed \/ e = 0 THEN NoCall ELSE Leased(e)
<1>1. /\ Sound(cache, {}) /\ CallsSound(cache, call) /\ OwnersSound(cache, owner, call)
      /\ Placed(cache, call[c]) /\ DOMAIN call[c] = {"at", "entry", "evicted"}
      /\ DOMAIN call = Callers
      /\ Formed(cache) /\ FacesIn(cache) \subseteq DOMAIN cache.entry
    BY CallFields
<1>2. /\ call[c].at = "waiting" /\ cache.entry[e].state # "loading"
      /\ cache' = cache /\ owner' = owner
    BY DEF Woken
<1>3. call' = [call EXCEPT ![c] = q] BY DEF Woken, Finished
<1>4. /\ e \in FacesIn(cache) \/ cache.entry[e].failed
      /\ call[c].evicted = {} /\ e \in DOMAIN cache.entry
    BY <1>1, <1>2 DEF Placed
<1>5. /\ e # 0
      /\ e \in FacesIn(cache) => ~cache.entry[e].failed /\ cache.entry[e].state = "ready"
    <2>1. e # 0 BY <1>1, <1>4 DEF Formed
    <2>2. e \in FacesIn(cache) => ~cache.entry[e].failed BY <1>1 DEF Formed, FacesIn
    <2>3. e \in FacesIn(cache) => cache.entry[e].state = "ready"
        BY <1>1, <1>2, SourceHeld
    <2> QED BY <2>1, <2>2, <2>3
<1>6. \A x : Uses(call[c], x) <=> x = e BY <1>2 DEF Uses
<1>7. /\ q \in {NoCall, Leased(e)} /\ (q = Leased(e) <=> e \in FacesIn(cache))
      /\ q = NoCall <=> e \notin FacesIn(cache)
    BY <1>4, <1>5, LeasedIs
<1> HIDE DEF e, q
<1>8. /\ DOMAIN call' = Callers /\ call'[c] = q
      /\ \A y \in Callers \ {c} : call'[y] = call[y]
    BY <1>3, CallTurns
<1>9. /\ DOMAIN q = {"at", "entry", "evicted"} /\ q.evicted = {} /\ ~Works(q) /\ ~Loads(q)
      /\ \A x \in FacesIn(cache) : Uses(q, x) <=> x = e
    BY <1>7, LeasedIs DEF Works, Loads, Uses
<1>10. Placed(cache, q) BY <1>4, <1>5, <1>7, LeasedIs DEF Placed
<1>11. \A x \in Callers : Placed(cache, call[x]) BY <1>1 DEF CallsSound
<1>12. Moves(cache, cache, call, call', c, q) BY <1>8, <1>9, <1>10, <1>11 DEF Moves
<1>13. Pinned(cache, call') BY <1>1, <1>6, <1>8, <1>9, PinnedSame
<1>14. CallsSound(cache, call') BY <1>1, <1>12, <1>13, CallsStep
<1>15. OwnersSound(cache, owner, call')
    <2>1. StatesKept(cache, cache) BY DEF StatesKept
    <2>2. \A x \in Callers : call'[x].evicted = call[x].evicted BY <1>4, <1>8, <1>9
    <2> QED BY <1>1, <2>1, <2>2, OwnersSame
<1> QED BY <1>1, <1>2, <1>14, <1>15 DEF IInv

(* The entry of a face that was made. *)
LEMMA EntryReady ==
    ASSUME NEW r \in Entry, NEW p
    PROVE  [r EXCEPT !.state = "ready", !.pins = p, !.waiters = 0] =
              [key |-> r.key, state |-> "ready", waiters |-> 0, pins |-> p,
               source |-> r.source, failed |-> r.failed]
<1> DEFINE a == [r EXCEPT !.state = "ready"]
           b == [a EXCEPT !.pins = p]
           d == [b EXCEPT !.waiters = 0]
<1>1. r = [key |-> r.key, state |-> r.state, waiters |-> r.waiters, pins |-> r.pins,
           source |-> r.source, failed |-> r.failed]
    BY DEF Entry
<1>2. a = [key |-> r.key, state |-> "ready", waiters |-> r.waiters, pins |-> r.pins,
           source |-> r.source, failed |-> r.failed]
    BY <1>1
<1> HIDE DEF a
<1>3. b = [key |-> r.key, state |-> "ready", waiters |-> r.waiters, pins |-> p,
           source |-> r.source, failed |-> r.failed]
    BY <1>2
<1> HIDE DEF b
<1>4. d = [key |-> r.key, state |-> "ready", waiters |-> 0, pins |-> p,
           source |-> r.source, failed |-> r.failed]
    BY <1>3
<1>5. [r EXCEPT !.state = "ready", !.pins = p, !.waiters = 0] = d
    BY Zenon DEF a, b, d
<1> QED BY <1>4, <1>5

(* ParseSucceeds: the face is ready, with a pin for everyone who waits.     *)
LEMMA ParsedStep ==
    ASSUME IInv, NEW c \in Callers, ParseSucceeds(c)
    PROVE  IInv'
<1> DEFINE e == call[c].entry
<1>1. /\ Sound(cache, {}) /\ CallsSound(cache, call) /\ OwnersSound(cache, owner, call)
      /\ Placed(cache, call[c]) /\ DOMAIN call[c] = {"at", "entry", "evicted"}
      /\ DOMAIN call = Callers
      /\ Formed(cache) /\ FacesIn(cache) \subseteq DOMAIN cache.entry
    BY CallFields
<1>2. /\ call[c].at = "parse"
      /\ cache' = [cache EXCEPT
              !.entry[e] = [@ EXCEPT !.state = "ready", !.pins = PinsAtBirth(e), !.waiters = 0],
              !.recency = Touched(cache, e)]
      /\ owner' = [Close(call[c].evicted) EXCEPT ![e] = "live"]
    BY DEF ParseSucceeds
<1>3. /\ e \in FacesIn(cache) /\ cache.entry[e].state = "loading"
      /\ cache.blob[cache.entry[e].source].state = "ready"
    BY <1>1, <1>2 DEF Placed
<1>a. call' = [call EXCEPT ![c] = Leased(e)]
    <2>1. e # 0 BY <1>1, <1>3 DEF Formed
    <2> QED BY <2>1 DEF ParseSucceeds, Finished
<1>b. Works(call[c]) /\ \A x : ~Uses(call[c], x) BY <1>2 DEF Works, Uses
<1>c. e = call[c].entry OBVIOUS
<1> HIDE DEF e
<1> DEFINE x == [key |-> cache.entry[e].key, state |-> "ready", waiters |-> 0,
                 pins |-> 1 + cache.entry[e].waiters,
                 source |-> cache.entry[e].source, failed |-> cache.entry[e].failed]
<1>4. /\ cache.entry[e] = [key |-> cache.entry[e].key, state |-> cache.entry[e].state,
            waiters |-> cache.entry[e].waiters, pins |-> cache.entry[e].pins,
            source |-> cache.entry[e].source, failed |-> cache.entry[e].failed]
      /\ cache.entry[e].pins \in Nat /\ cache.entry[e].waiters \in Nat
      /\ e \in DOMAIN cache.entry /\ cache.entry \in Seq(Entry)
      /\ DOMAIN cache = {"entries", "sources", "bytes", "recency", "entry", "blob"}
    BY Zenon, <1>1, <1>3, EntryFields
<1>6. /\ Marks(cache, e, x) /\ x.state = "ready" /\ x.pins = 1 + cache.entry[e].waiters
      /\ x.source = cache.entry[e].source
    <2>1. 0 \in Nat /\ 1 + cache.entry[e].waiters \in Nat BY <1>4
    <2> QED BY <1>1, <1>3, <1>4, <2>1, EntryMarked
<1>7. Marked(cache, cache', e, x)
    <2>1. [cache.entry[e] EXCEPT !.state = "ready", !.pins = PinsAtBirth(e), !.waiters = 0] = x
        <3>1. PinsAtBirth(e) = 1 + cache.entry[e].waiters BY DEF PinsAtBirth
        <3>2. cache.entry[e] \in Entry BY <1>4
        <3> QED BY <3>1, <3>2, EntryReady
    <2>2. cache' = [cache EXCEPT !.entry = [cache.entry EXCEPT
                        ![e] = [cache.entry[e] EXCEPT !.state = "ready", !.pins = PinsAtBirth(e),
                                                      !.waiters = 0]],
                    !.recency = Touched(cache, e)]
        BY <1>2, <1>4
    <2> HIDE DEF x
    <2>3. cache' = [cache EXCEPT !.entry = [cache.entry EXCEPT ![e] = x],
                                 !.recency = Touched(cache, e)]
        BY Zenon, <2>1, <2>2
    <2> QED BY <1>4, <2>3 DEF Marked, Made
<1> HIDE DEF x
<1>8. /\ DOMAIN call' = Callers /\ call'[c] = Leased(e)
      /\ \A y \in Callers \ {c} : call'[y] = call[y]
    BY <1>a, CallTurns
<1>9. /\ Sound(cache', {}) /\ FacesIn(cache') = FacesIn(cache) /\ cache'.blob = cache.blob
      /\ DOMAIN cache'.entry = DOMAIN cache.entry /\ cache'.entry[e] = x
      /\ \A y \in DOMAIN cache.entry \ {e} : cache'.entry[y] = cache.entry[y]
    BY <1>1, <1>3, <1>6, <1>7, MarkedSound
<1>10. Placed(cache', Leased(e)) BY <1>3, <1>4, <1>6, <1>9, LeasedIs DEF Placed
<1>11. ASSUME NEW y \in Callers \ {c}
       PROVE  Placed(cache', call[y])
    <2>1. Placed(cache, call[y]) BY <1>1 DEF CallsSound
    <2>2. Works(call[y]) => call[y].entry # e BY <1>1, <1>b, <1>c, Apart
    <2>3. CASE call[y].at = "idle" \/ call[y].entry # e
        <3>1. call[y].at # "idle" => call[y].entry \in DOMAIN cache.entry \ {e}
            BY <2>1, <2>3 DEF Placed
        <3>2. \A z \in DOMAIN cache.entry \ {e} : Unmoved(cache, cache', z)
            BY Zenon, <1>9 DEF Unmoved
        <3> QED BY <1>1, <2>1, <3>1, <3>2, PlacedKept
    <2>4. CASE call[y].at # "idle" /\ call[y].entry = e
        <3>1. call[y].at = "waiting" /\ call[y].evicted = {}
            BY <1>3, <2>1, <2>2, <2>4 DEF Placed, Works
        <3> QED BY <1>3, <1>4, <1>9, <2>4, <3>1 DEF Placed
    <2> QED BY <2>3, <2>4
<1>12. CallsSound(cache', call')
    <2>1. ~Works(Leased(e)) /\ ~Loads(Leased(e)) /\ \A y : Uses(Leased(e), y) <=> y = e
        BY LeasedIs DEF Works, Loads, Uses
    <2>2. ASSUME NEW y \in Callers \ {c}, Loads(call[y])
          PROVE  cache'.entry[call[y].entry].source = cache.entry[call[y].entry].source
        <3>1. call[y].entry \in DOMAIN cache.entry BY <1>1, <2>2 DEF CallsSound, Placed, Loads
        <3> QED BY <1>6, <1>9, <3>1
    <2>3. Moves(cache, cache', call, call', c, Leased(e))
        BY <1>8, <1>10, <1>11, <2>1, <2>2, LeasedIs DEF Moves
    <2>4. Pinned(cache', call')
        <3> SUFFICES ASSUME NEW y \in FacesIn(cache)
                     PROVE  Cardinality(UsersOf(call', y)) =
                              IF cache'.entry[y].state = "ready" THEN cache'.entry[y].pins
                              ELSE cache'.entry[y].waiters
            BY <1>9 DEF Pinned
        <3>1. /\ Cardinality(UsersOf(call, y)) \in Nat /\ Cardinality(UsersOf(call', y)) \in Nat
              /\ Cardinality(UsersOf(call', y)) + (IF Uses(call[c], y) THEN 1 ELSE 0) =
                     Cardinality(UsersOf(call, y)) + (IF Uses(Leased(e), y) THEN 1 ELSE 0)
            BY <1>1, <1>8, UsersStep
        <3>2. Cardinality(UsersOf(call, y)) =
                 IF cache.entry[y].state = "ready" THEN cache.entry[y].pins
                 ELSE cache.entry[y].waiters
            BY <1>1 DEF CallsSound, Pinned
        <3>3. CASE y = e BY <1>3, <1>4, <1>6, <1>9, <1>b, <2>1, <3>1, <3>2, <3>3
        <3>4. CASE y # e
            <4>1. cache'.entry[y] = cache.entry[y] BY <1>1, <1>9, <3>4
            <4> QED BY <1>b, <2>1, <3>1, <3>2, <3>4, <4>1
        <3> QED BY <3>3, <3>4
    <2> QED BY <1>1, <2>3, <2>4, CallsStep
<1>13. OwnersSound(cache', owner', call')
    <2>1. Close(call[c].evicted)
            = [y \in DOMAIN owner |-> IF y \in call[c].evicted THEN "closed" ELSE owner[y]]
        BY DEF Close
    <2>2. OwnersSound(cache, Close(call[c].evicted), call')
        BY <1>1, <1>8, <2>1, LeasedIs, OwnersClosed
    <2>3. \A y \in FacesIn(cache) \ {e} : cache'.entry[y].state = cache.entry[y].state
        BY <1>1, <1>9
    <2> QED BY <1>2, <1>3, <1>4, <1>6, <1>9, <2>2, <2>3, OwnerBorn
<1> QED BY <1>9, <1>12, <1>13 DEF IInv

(* A face that the parser refused is out of the cache, and its source with  *)
(* it if it was the last.                                                   *)
LEMMA ParseGone ==
    ASSUME NEW m, Formed(m), NEW e \in FacesIn(m), NEW m2, NEW d,
           m2 = [m EXCEPT !.entries = Without(@, m.entry[e].key),
                          !.entry[e] = [@ EXCEPT !.state = "missing", !.failed = TRUE]],
           d = Released(m2, {e})
    PROVE  Gone(m, d, {e}) /\ d.entry[e].failed
<1> DEFINE F == {e}
           y == [m.entry[e] EXCEPT !.state = "missing", !.failed = TRUE]
           entries == Without(m.entries, m.entry[e].key)
           entry == [m.entry EXCEPT ![e] = y]
           free == {b \in DOMAIN m2.blob : /\ m2.blob[b].refs = References(m2, F, b)
                                           /\ m2.blob[b].refs # 0}
           Left(x, r, n) == [x EXCEPT !.refs = r, !.data = n]
           blobs == [b \in DOMAIN m2.blob |->
                Left(m2.blob[b], m2.blob[b].refs - References(m2, F, b),
                     IF b \in free THEN 0 ELSE m2.blob[b].data)]
           left == [b \in DOMAIN m.blob |->
                Left(m.blob[b], m.blob[b].refs - References(m, F, b),
                     IF b \in Freed(m, F) THEN 0 ELSE m.blob[b].data)]
           sources == [s \in {s \in DOMAIN m2.sources : m2.sources[s] \notin free}
                            |-> m2.sources[s]]
<1>1. d = [m2 EXCEPT !.blob = blobs, !.sources = sources, !.bytes = @ - Bytes(m2, free)]
    BY Zenon DEF Released
<1>2. DOMAIN m = {"entries", "sources", "bytes", "recency", "entry", "blob"} BY DEF Formed
<1>3. /\ e \in DOMAIN m.entry /\ m.entry[e].key \in DOMAIN m.entries
      /\ \A k \in DOMAIN m.entries : m.entries[k] = e <=> k = m.entry[e].key
    BY FacesKeyed DEF Formed
<1>4. m.entry[e] \in Entry BY <1>3 DEF Formed
<1>5. y \in Entry /\ y.state = "missing" /\ y.source = m.entry[e].source /\ y.failed
    <2>1. \A x \in Entry : \A z : z = [x EXCEPT !.state = "missing", !.failed = TRUE] =>
             z \in Entry /\ z.state = "missing" /\ z.source = x.source /\ z.failed
        BY FaceFailed
    <2> QED BY Zenon, <1>4, <2>1
<1>6. /\ DOMAIN m2 = DOMAIN m /\ m2.entries = entries /\ m2.entry = entry
      /\ m2.blob = m.blob /\ m2.sources = m.sources /\ m2.bytes = m.bytes
    <2>1. m2 = [m EXCEPT !.entries = entries, !.entry = entry] BY <1>2
    <2> HIDE DEF entries, entry
    <2> QED BY <1>2, <2>1
<1> HIDE DEF y
<1>7. /\ DOMAIN d = DOMAIN m /\ d.entries = entries /\ d.entry = entry
      /\ d.blob = blobs /\ d.sources = sources /\ d.bytes = m.bytes - Bytes(m2, free)
    <2> HIDE DEF entries, entry, blobs, sources, free
    <2> QED BY <1>1, <1>2, <1>6
<1>8. /\ DOMAIN entry = DOMAIN m.entry /\ entry[e] = y
      /\ \A x \in DOMAIN m.entry \ {e} : entry[x] = m.entry[x]
    BY <1>3
<1>9. entry \in Seq(Entry)
    <2> DEFINE g(x) == IF x = e THEN y ELSE m.entry[x]
    <2>1. Len(m.entry) \in Nat /\ DOMAIN m.entry = 1..Len(m.entry)
          /\ \A x \in DOMAIN m.entry : m.entry[x] \in Entry
        BY DEF Formed
    <2>2. entry = [x \in 1..Len(m.entry) |-> g(x)] BY <2>1
    <2>3. \A x \in 1..Len(m.entry) : g(x) \in Entry BY <1>5, <2>1
    <2> HIDE DEF g, entry
    <2> QED BY <2>1, <2>2, <2>3
<1>10. \A b : References(m2, F, b) = References(m, F, b)
    <2>1. entry[e].source = m.entry[e].source BY <1>5, <1>8
    <2>2. \A b : {x \in F : m2.entry[x].source = b} = {x \in F : m.entry[x].source = b}
        BY <1>6, <2>1
    <2> QED BY <2>2 DEF References
<1>11. free = Freed(m, F)
    <2> HIDE DEF F
    <2> QED BY Zenon, <1>6, <1>10 DEF Freed
<1>a. left = [b \in DOMAIN m.blob |->
            [m.blob[b] EXCEPT !.refs = @ - References(m, F, b),
                              !.data = IF b \in Freed(m, F) THEN 0 ELSE @]]
    BY Zenon
<1> HIDE DEF F, free, Left
<1>12. blobs = left BY <1>6, <1>10, <1>11
<1> HIDE DEF left
<1>13. sources = [s \in {s \in DOMAIN m.sources : m.sources[s] \notin Freed(m, F)}
                      |-> m.sources[s]]
    BY <1>6, <1>11
<1>14. Bytes(m2, free) = Bytes(m, Freed(m, F))
    <2>1. [b \in free |-> Charge(m2.blob[b])] = [b \in Freed(m, F) |-> Charge(m.blob[b])]
        BY <1>6, <1>11
    <2> QED BY Zenon, <1>11, <2>1 DEF Bytes
<1> USE DEF F
<1>15. /\ DOMAIN entries = {k \in DOMAIN m.entries : m.entries[k] \notin F}
       /\ \A k \in DOMAIN entries : entries[k] = m.entries[k]
    BY <1>3 DEF Without
<1>16. F \subseteq FacesIn(m) OBVIOUS
<1>17. /\ \A x \in DOMAIN m.entry \ F : d.entry[x] = m.entry[x]
       /\ \A x \in F : d.entry[x].state = "missing" /\ d.entry[x].failed
    <2> HIDE DEF entry
    <2> QED BY <1>5, <1>7, <1>8
<1> HIDE DEF F, entries, entry, blobs, sources
<1>18. Gone(m, d, F)
    BY Zenon, <1>a, <1>7, <1>8, <1>9, <1>12, <1>13, <1>14, <1>15, <1>16, <1>17 DEF Gone
<1>19. e \in F BY DEF F
<1> QED BY Zenon, <1>17, <1>18, <1>19 DEF F

(* ParseFails: the waiters get the error. *)
LEMMA RefusedStep ==
    ASSUME IInv, NEW c \in Callers, ParseFails(c)
    PROVE  IInv'
<1> DEFINE e == call[c].entry
           F == {e}
<1>1. /\ Sound(cache, {}) /\ CallsSound(cache, call) /\ OwnersSound(cache, owner, call)
      /\ Placed(cache, call[c]) /\ DOMAIN call[c] = {"at", "entry", "evicted"}
      /\ DOMAIN call = Callers
      /\ Formed(cache) /\ FacesIn(cache) \subseteq DOMAIN cache.entry
    BY CallFields
<1>2. call[c].at = "parse" /\ owner' = Close(call[c].evicted)
      /\ call' = [call EXCEPT ![c] = NoCall]
    BY DEF ParseFails, Finished
<1>3. e \in FacesIn(cache) /\ cache.entry[e].state = "loading" BY <1>1, <1>2 DEF Placed
<1>4. Gone(cache, cache', F) /\ cache'.entry[e].failed
    BY <1>1, <1>3, ParseGone DEF ParseFails
<1>5. /\ Sound(cache', {}) /\ FacesIn(cache') = FacesIn(cache) \ F
      /\ DOMAIN cache'.entry = DOMAIN cache.entry
    <2>1. F \in SUBSET FacesIn(cache) BY <1>3
    <2> HIDE DEF F
    <2>2. Sound(cache', {}) /\ FacesIn(cache') = FacesIn(cache) \ F
        BY SMTT(20), <1>1, <1>4, <2>1, GoneSound
    <2>3. DOMAIN cache'.entry = DOMAIN cache.entry BY <1>4 DEF Gone
    <2> QED BY <2>2, <2>3
<1>6. \A x \in DOMAIN cache.entry \ F : Unmoved(cache, cache', x) /\ cache'.entry[x] = cache.entry[x]
    <2>1. F \in SUBSET FacesIn(cache) BY <1>3
    <2> QED BY <1>1, <1>4, <2>1, GoneUnmoved DEF Gone
<1>7. /\ DOMAIN call' = Callers /\ call'[c] = NoCall
      /\ \A y \in Callers \ {c} : call'[y] = call[y]
    BY <1>2, CallTurns
<1>8. Works(call[c]) /\ \A x : ~Uses(call[c], x) BY <1>2 DEF Works, Uses
<1>9. ASSUME NEW y \in Callers \ {c}
      PROVE  Placed(cache', call[y])
             /\ (Works(call[y]) => call[y].entry \in DOMAIN cache.entry \ F)
    <2>1. Placed(cache, call[y]) BY <1>1 DEF CallsSound
    <2>2. Works(call[y]) => call[y].entry # e BY <1>1, <1>8, Apart
    <2>3. call[y].at # "idle" => call[y].entry \in DOMAIN cache.entry BY <2>1 DEF Placed
    <2>4. Works(call[y]) => call[y].entry \in DOMAIN cache.entry \ F
        BY <2>2, <2>3 DEF Works
    <2>5. CASE call[y].at = "idle" \/ call[y].entry # e
        <3>1. call[y].at # "idle" => Unmoved(cache, cache', call[y].entry)
            BY <1>6, <2>3, <2>5
        <3>2. Placed(cache', call[y]) BY <1>1, <2>1, <3>1, PlacedKept
        <3> QED BY <2>4, <3>2
    <2>6. CASE call[y].at # "idle" /\ call[y].entry = e
        <3>1. call[y].at = "waiting" /\ call[y].evicted = {}
            BY <1>3, <2>1, <2>2, <2>6 DEF Placed, Works
        <3>2. call[y].entry \in DOMAIN cache'.entry /\ cache'.entry[call[y].entry].failed
            BY <1>4, <1>5, <2>3, <2>6
        <3>3. Placed(cache', call[y]) BY <3>1, <3>2 DEF Placed
        <3> QED BY <2>4, <3>3
    <2> QED BY <2>5, <2>6
<1> HIDE DEF e, F
<1>10. Placed(cache', NoCall) /\ ~Works(NoCall) /\ ~Loads(NoCall) /\ \A x : ~Uses(NoCall, x)
    BY LeasedIs DEF Placed, Works, Loads, Uses
<1>11. CallsSound(cache', call')
    <2>1. \A y \in Callers \ {c} : Loads(call[y]) =>
              cache'.entry[call[y].entry].source = cache.entry[call[y].entry].source
        BY <1>6, <1>9 DEF Works, Loads
    <2>2. Moves(cache, cache', call, call', c, NoCall)
        BY <1>7, <1>9, <1>10, <2>1, LeasedIs DEF Moves
    <2>3. Pinned(cache', call')
        <3>1. FacesIn(cache') \subseteq FacesIn(cache)
              /\ \A x \in FacesIn(cache') : cache'.entry[x] = cache.entry[x]
            BY <1>1, <1>5, <1>6
        <3> QED BY <1>1, <1>7, <1>8, <1>10, <3>1, PinnedSame
    <2> QED BY <1>1, <2>2, <2>3, CallsStep
<1>12. OwnersSound(cache', owner', call')
    <2>1. owner' = [y \in DOMAIN owner |-> IF y \in call[c].evicted THEN "closed" ELSE owner[y]]
        BY <1>2 DEF Close
    <2>2. /\ FacesIn(cache') \subseteq FacesIn(cache)
          /\ \A x \in FacesIn(cache') : cache'.entry[x].state = cache.entry[x].state
          /\ \A x \in FacesIn(cache) \ FacesIn(cache') : cache.entry[x].state # "ready"
        BY <1>1, <1>3, <1>5, <1>6 DEF F
    <2> QED BY <1>1, <1>5, <1>7, <2>1, <2>2, LeasedIs, OwnersClosed
<1> QED BY <1>5, <1>11, <1>12 DEF IInv

(* FailSource gives the source up, with the faces that wait for it.         *)
FailedSource(m, d, b, S) ==
    d = [m EXCEPT
            !.sources = Without(@, m.blob[b].of),
            !.bytes = @ - m.blob[b].reserved,
            !.blob[b] = [@ EXCEPT !.reserved = 0, !.refs = 0, !.failed = TRUE],
            !.entries = [k \in {k \in DOMAIN @ : @[k] \notin S} |-> @[k]],
            !.entry = [e \in DOMAIN @ |->
                IF e \in S THEN [@[e] EXCEPT !.state = "missing", !.failed = TRUE] ELSE @[e]]]

(* finishSourceLocked of a load that failed gives up the faces of the       *)
(* source, and no others.                                                   *)
LEMMA SourceGivenUp ==
    ASSUME NEW m, Formed(m), NEW b, NEW S, NEW d, FailedSource(m, d, b, S)
    PROVE  SourceGone(m, d, b, S)
<1> DEFINE entries == [k \in {k \in DOMAIN m.entries : m.entries[k] \notin S} |-> m.entries[k]]
           entry == [e \in DOMAIN m.entry |->
                IF e \in S THEN [m.entry[e] EXCEPT !.state = "missing", !.failed = TRUE]
                ELSE m.entry[e]]
           blob == [m.blob EXCEPT ![b] = [@ EXCEPT !.reserved = 0, !.refs = 0, !.failed = TRUE]]
           sources == Without(m.sources, m.blob[b].of)
           bytes == m.bytes - m.blob[b].reserved
<1>1. DOMAIN m = {"entries", "sources", "bytes", "recency", "entry", "blob"} BY DEF Formed
<1>2. d = [m EXCEPT !.sources = sources, !.bytes = bytes, !.blob = blob, !.entries = entries,
                    !.entry = entry]
    BY Zenon DEF FailedSource
<1> HIDE DEF sources, bytes, blob, entries, entry
<1>3. Made(d, entries, sources, bytes, entry, blob) BY <1>1, <1>2 DEF Made
<1> QED BY Zenon, <1>3 DEF SourceGone, sources, bytes, blob, entries, entry

(* A load that fails gives up its source with all the faces that share it,  *)
(* and keeps the invariant.                                                 *)
LEMMA FailStep ==
    ASSUME IInv, NEW c \in Callers, FailSource(c)
    PROVE  IInv'
<1> DEFINE e == call[c].entry
           b == cache.entry[e].source
           S == Holders(cache, b)
<1>1. /\ Sound(cache, {}) /\ CallsSound(cache, call) /\ OwnersSound(cache, owner, call)
      /\ Placed(cache, call[c]) /\ DOMAIN call[c] = {"at", "entry", "evicted"}
      /\ DOMAIN call = Callers
      /\ Formed(cache) /\ FacesIn(cache) \subseteq DOMAIN cache.entry
    BY CallFields
<1>2. /\ call[c].at \in {"load", "fail"} /\ owner' = Close(call[c].evicted)
      /\ call' = [call EXCEPT ![c] = NoCall]
    BY DEF FailSource, Finished
<1>3. /\ e \in FacesIn(cache) /\ cache.entry[e].state = "loading"
      /\ cache.blob[b].state = "loading"
    BY <1>1, <1>2 DEF Placed
<1>4. b \in Held(cache) /\ ~cache.blob[b].failed BY <1>1, <1>3, SourceHeld
<1>5. FacesFailed(c) = S BY DEF FacesFailed, SourceOfCall, Holders, FacesIn
<1>6. SourceGone(cache, cache', b, S)
    <2> HIDE DEF S
    <2>1. FailedSource(cache, cache', b, S)
        BY Zenon, <1>5 DEF FailSource, SourceOfCall, FailedSource
    <2> QED BY <1>1, <2>1, SourceGivenUp
<1>7. Works(call[c]) /\ Loads(call[c]) /\ \A x : ~Uses(call[c], x)
    BY <1>2 DEF Works, Loads, Uses
<1>8. S \subseteq FacesIn(cache) /\ \A x \in FacesIn(cache) : x \in S <=> cache.entry[x].source = b
    BY DEF Holders
<1>9. b = cache.entry[call[c].entry].source /\ S = Holders(cache, b) OBVIOUS
<1> HIDE DEF e, b, S
<1>10. /\ Sound(cache', {}) /\ FacesIn(cache') = FacesIn(cache) \ S
       /\ \A x \in S : cache.entry[x].state = "loading"
       /\ DOMAIN cache'.entry = DOMAIN cache.entry /\ DOMAIN cache'.blob = DOMAIN cache.blob
       /\ \A x \in S : cache'.entry[x].failed /\ cache'.entry[x].source = b
       /\ \A x \in DOMAIN cache.entry \ S : cache'.entry[x] = cache.entry[x]
       /\ cache'.blob[b].failed
       /\ \A x \in DOMAIN cache.blob \ {b} : cache'.blob[x] = cache.blob[x]
    <2>1. SourceGone(cache, cache', b, Holders(cache, b)) BY <1>6, <1>9
    <2>2. b \in Held(cache) /\ cache.blob[b].state = "loading" BY <1>3, <1>4
    <2>3. Sound(cache, {}) BY <1>1
    <2>4. SourceLost(cache, cache', b, Holders(cache, b)) BY <2>1, <2>2, <2>3, SourceGoneSound
    <2> QED BY <1>9, <2>4 DEF SourceLost
<1>11. b \in DOMAIN cache.blob BY <1>1, <1>4, HeldBlobs
<1>12. /\ DOMAIN call' = Callers /\ call'[c] = NoCall
       /\ \A y \in Callers \ {c} : call'[y] = call[y]
    BY <1>2, CallTurns
<1>13. ASSUME NEW y \in Callers \ {c}
       PROVE  Placed(cache', call[y])
    <2>1. Placed(cache, call[y]) BY <1>1 DEF CallsSound
    <2>2. Loads(call[y]) => cache.entry[call[y].entry].source # b BY <1>1, <1>7, <1>9, Apart
    <2>3. call[y].at # "idle" => call[y].entry \in DOMAIN cache.entry BY <2>1 DEF Placed
    <2>4. CASE call[y].at # "idle" /\ call[y].entry \in S
        <3>1. cache.entry[call[y].entry].source = b /\ call[y].entry \in FacesIn(cache)
            BY <1>8, <2>4
        <3>2. call[y].at \in {"waiting", "waitSource"}
            BY <1>3, <1>10, <2>1, <2>2, <2>4, <3>1 DEF Placed, Loads
        <3>3. /\ call[y].entry \in DOMAIN cache'.entry /\ call[y].entry \notin FacesIn(cache')
              /\ cache'.entry[call[y].entry].failed /\ cache'.entry[call[y].entry].source = b
            BY <1>10, <2>3, <2>4
        <3>4. call[y].at = "waiting" => call[y].evicted = {} BY <2>1 DEF Placed
        <3> QED BY <1>10, <1>11, <3>2, <3>3, <3>4 DEF Placed
    <2>5. CASE call[y].at # "idle" /\ call[y].entry \notin S
        <3>1. /\ cache'.entry[call[y].entry] = cache.entry[call[y].entry]
              /\ call[y].entry \in FacesIn(cache) <=> call[y].entry \in FacesIn(cache')
              /\ call[y].entry \in DOMAIN cache'.entry
            BY <1>10, <2>3, <2>5
        <3>2. CASE cache.entry[call[y].entry].source = b
            <4>1. call[y].entry \notin FacesIn(cache) BY <1>8, <2>5, <3>2
            <4>2. call[y].at = "waiting" /\ cache.entry[call[y].entry].failed
                  /\ call[y].evicted = {}
                BY <1>4, <2>1, <2>5, <3>2, <4>1 DEF Placed
            <4> QED BY <3>1, <4>2 DEF Placed
        <3>3. CASE cache.entry[call[y].entry].source # b
            <4>1. Unmoved(cache, cache', call[y].entry)
                BY Zenon, <1>10, <3>1, <3>3 DEF Unmoved
            <4> QED BY <1>1, <2>1, <4>1, PlacedKept
        <3> QED BY <3>2, <3>3
    <2>6. CASE call[y].at = "idle" BY <1>1, <2>1, <2>6, PlacedKept
    <2> QED BY <2>4, <2>5, <2>6
<1>14. Placed(cache', NoCall) /\ ~Works(NoCall) /\ ~Loads(NoCall) /\ \A x : ~Uses(NoCall, x)
    BY LeasedIs DEF Placed, Works, Loads, Uses
<1>15. CallsSound(cache', call')
    <2>1. ASSUME NEW y \in Callers \ {c}, Loads(call[y])
          PROVE  cache'.entry[call[y].entry].source = cache.entry[call[y].entry].source
        <3>1. call[y].entry \in DOMAIN cache.entry BY <1>1, <2>1 DEF CallsSound, Placed, Loads
        <3> QED BY <1>8, <1>10, <3>1
    <2>2. Moves(cache, cache', call, call', c, NoCall)
        BY <1>12, <1>13, <1>14, <2>1, LeasedIs DEF Moves
    <2>3. FacesIn(cache') \subseteq FacesIn(cache)
          /\ \A x \in FacesIn(cache') : cache'.entry[x] = cache.entry[x]
        BY <1>1, <1>10
    <2>4. Pinned(cache', call') BY <1>1, <1>7, <1>12, <1>14, <2>3, PinnedSame
    <2> QED BY <1>1, <2>2, <2>4, CallsStep
<1>16. OwnersSound(cache', owner', call')
    <2>1. owner' = [y \in DOMAIN owner |-> IF y \in call[c].evicted THEN "closed" ELSE owner[y]]
        BY <1>2 DEF Close
    <2>2. /\ FacesIn(cache') \subseteq FacesIn(cache)
          /\ \A x \in FacesIn(cache') : cache'.entry[x].state = cache.entry[x].state
          /\ \A x \in FacesIn(cache) \ FacesIn(cache') : cache.entry[x].state # "ready"
        BY <1>1, <1>10
    <2> QED BY <1>1, <1>10, <1>12, <2>1, <2>2, LeasedIs, OwnersClosed
<1> QED BY <1>10, <1>15, <1>16 DEF IInv

(* The room that publishSource makes. *)
LEMMA PublishRoom ==
    ASSUME IInv, NEW b \in Held(cache), NEW n \in LoadSizes, NEW r,
           r = IF Growth(n, b) > 0 THEN MakeRoom(cache, 0, Growth(n, b))
               ELSE [m |-> cache, evicted |-> {}, ok |-> TRUE]
    PROVE  /\ Sound(r.m, {}) /\ Trimmed(cache, r.m, r.evicted, call)
           /\ r.ok => r.m.bytes + Growth(n, b) <= MaxBytes
<1>1. Sound(cache, {}) /\ CallsSound(cache, call) /\ Formed(cache) BY DEF IInv, Sound
<1>2. cache.blob[b].reserved \in Nat /\ n \in Nat
    <2>1. cache.blob[b] \in Blob BY <1>1, HeldBlobs
    <2> QED BY <2>1, Constants DEF Blob
<1>3. CASE Growth(n, b) > 0
    <2>1. Growth(n, b) \in Nat BY <1>2, <1>3 DEF Growth
    <2>2. r = MakeRoom(cache, 0, Growth(n, b)) BY <1>3
    <2>3. Room(cache, r, 0, Growth(n, b)) BY <1>1, <2>1, <2>2, RoomMade
    <2>4. r.ok => r.m.bytes + Growth(n, b) <= MaxBytes BY <2>3 DEF Room, HasRoom
    <2>5. Sound(r.m, {}) /\ Trimmed(cache, r.m, r.evicted, call) BY <1>1, <2>3, RoomSound
    <2> QED BY <2>4, <2>5
<1>4. CASE ~(Growth(n, b) > 0)
    <2>1. r.m = cache /\ r.evicted = {} BY <1>4
    <2>2. Trimmed(cache, cache, {}, call) BY <1>1, TrimmedNone
    <2>3. cache.bytes \in Nat /\ cache.bytes <= MaxBytes
        <3>1. Held(cache) \in SUBSET DOMAIN cache.blob BY <1>1, HeldBlobs
        <3>2. Bytes(cache, Held(cache)) \in Nat BY <1>1, <3>1, BytesNat
        <3> QED BY <1>1, <3>2 DEF Sound, Charged
    <2>4. cache.bytes + Growth(n, b) <= MaxBytes BY <1>2, <1>4, <2>3, Constants DEF Growth
    <2> QED BY <1>1, <2>1, <2>2, <2>4
<1> QED BY <1>3, <1>4

(* The loader of a source, when room is made: it keeps its face and source. *)
Loader(d, q, b) ==
    /\ Loads(q) /\ q.entry \in FacesIn(d) /\ q.entry \in DOMAIN d.entry
    /\ d.entry[q.entry].state = "loading" /\ d.entry[q.entry].source = b
    /\ b \in Held(d) /\ d.blob[b].state = "loading" /\ b \in DOMAIN d.blob
    /\ ~d.blob[b].failed

(* A goroutine that loads is at a face in the map that is loading, of a     *)
(* source in the map that is loading and has not failed.                    *)
LEMMA LoaderIs ==
    ASSUME NEW m, Sound(m, {}), NEW calls, CallsSound(m, calls), NEW c \in Callers,
           calls[c].at \in {"load", "fail"}
    PROVE  Loader(m, calls[c], m.entry[calls[c].entry].source)
<1>1. /\ calls[c].entry \in FacesIn(m) /\ m.entry[calls[c].entry].state = "loading"
      /\ m.blob[m.entry[calls[c].entry].source].state = "loading"
    BY DEF CallsSound, Placed
<1> QED BY <1>1, SourceHeld DEF Loader, Loads

(* Its load is in: it goes on to parse. *)
LEMMA LoadedCalls ==
    ASSUME NEW m, Sound(m, {}), NEW calls, CallsSound(m, calls), NEW c \in Callers, NEW b,
           Loader(m, calls[c], b), NEW n \in LoadSizes, NEW d, Loaded(m, d, b, n),
           d.bytes <= MaxBytes, NEW q, q.at = "parse", q.entry = calls[c].entry,
           DOMAIN q = {"at", "entry", "evicted"}, NEW calls2, DOMAIN calls2 = Callers,
           calls2[c] = q, \A y \in Callers \ {c} : calls2[y] = calls[y]
    PROVE  CallsSound(d, calls2)
<1>1. b \in Held(m) /\ m.blob[b].state = "loading" /\ b \in DOMAIN m.blob /\ ~m.blob[b].failed
    BY DEF Loader
<1>2. /\ FacesIn(d) = FacesIn(m) /\ d.entry = m.entry
      /\ DOMAIN d.blob = DOMAIN m.blob /\ d.blob[b].state = "ready"
      /\ \A x \in DOMAIN m.blob \ {b} : d.blob[x] = m.blob[x]
    BY <1>1, LoadedSound
<1>3. Works(calls[c]) /\ Loads(calls[c]) /\ b = m.entry[calls[c].entry].source
      /\ (\A x : ~Uses(calls[c], x)) /\ (\A x : ~Uses(q, x)) /\ ~Loads(q)
    BY DEF Loader, Works, Loads, Uses
<1>4. ASSUME NEW y \in Callers \ {c}
      PROVE  Placed(d, calls[y])
    <2>1. Placed(m, calls[y]) BY DEF CallsSound
    <2>2. Loads(calls[y]) => m.entry[calls[y].entry].source # b BY <1>3, Apart
    <2>3. calls[y].at # "idle" => calls[y].entry \in DOMAIN m.entry BY <2>1 DEF Placed
    <2>4. CASE calls[y].at # "idle" /\ m.entry[calls[y].entry].source = b
        <3>1. calls[y].at \in {"waiting", "waitSource", "parse", "leased"}
            BY <2>1, <2>2, <2>4 DEF Placed, Loads
        <3> QED BY <1>1, <1>2, <2>1, <2>4, <3>1 DEF Placed
    <2>5. CASE calls[y].at # "idle" /\ m.entry[calls[y].entry].source # b
        <3>1. Unmoved(m, d, calls[y].entry) BY Zenon, <1>2, <2>3, <2>5 DEF Unmoved
        <3> QED BY <2>1, <3>1, PlacedKept
    <2>6. CASE calls[y].at = "idle" BY <2>1, <2>6, PlacedKept
    <2> QED BY <2>4, <2>5, <2>6
<1>5. Placed(d, q) BY <1>2 DEF Placed, Loader
<1>6. \A y \in Callers \ {c} : Works(calls[y]) => q.entry # calls[y].entry BY <1>3, Apart
<1>7. Moves(m, d, calls, calls2, c, q) BY <1>2, <1>3, <1>4, <1>5, <1>6 DEF Moves
<1>8. Pinned(d, calls2) BY <1>2, <1>3, PinnedSame
<1> QED BY <1>7, <1>8, CallsStep

(* There was no room for it: it is to fail. *)
LEMMA UnloadedCalls ==
    ASSUME NEW m, Sound(m, {}), NEW calls, CallsSound(m, calls), NEW c \in Callers, NEW b,
           Loader(m, calls[c], b), NEW q, q.at = "fail", q.entry = calls[c].entry,
           DOMAIN q = {"at", "entry", "evicted"}, NEW calls2, DOMAIN calls2 = Callers,
           calls2[c] = q, \A y \in Callers \ {c} : calls2[y] = calls[y]
    PROVE  CallsSound(m, calls2)
<1>1. Works(calls[c]) /\ Loads(calls[c])
      /\ (\A x : ~Uses(calls[c], x)) /\ (\A x : ~Uses(q, x))
    BY DEF Loader, Works, Loads, Uses
<1>2. \A y \in Callers : Placed(m, calls[y]) BY DEF CallsSound
<1>3. Placed(m, q) BY DEF Placed, Loader
<1>4. \A y \in Callers \ {c} :
          /\ Works(calls[y]) => q.entry # calls[y].entry
          /\ Loads(calls[y]) => m.entry[q.entry].source # m.entry[calls[y].entry].source
    BY <1>1, Apart
<1>5. Moves(m, m, calls, calls2, c, q) BY <1>2, <1>3, <1>4 DEF Moves
<1>6. Pinned(m, calls2) BY <1>1, PinnedSame
<1> QED BY <1>5, <1>6, CallsStep

(* LoadPublishes: the bytes are charged, if there is room for them. *)
LEMMA PublishStep ==
    ASSUME IInv, NEW c \in Callers, NEW n \in LoadSizes, LoadPublishes(c, n)
    PROVE  IInv'
<1> DEFINE b == SourceOfCall(c)
           r == IF Growth(n, b) > 0 THEN MakeRoom(cache, 0, Growth(n, b))
                ELSE [m |-> cache, evicted |-> {}, ok |-> TRUE]
           d == r.m
           F == r.evicted
           Q(at) == [at |-> at, entry |-> call[c].entry, evicted |-> call[c].evicted \cup F]
<1>1. /\ Sound(cache, {}) /\ CallsSound(cache, call) /\ OwnersSound(cache, owner, call)
      /\ Placed(cache, call[c]) /\ DOMAIN call[c] = {"at", "entry", "evicted"}
      /\ DOMAIN call = Callers
      /\ Formed(cache) /\ FacesIn(cache) \subseteq DOMAIN cache.entry
    BY CallFields
<1>2. /\ call[c].at = "load" /\ owner' = owner
      /\ r.ok => /\ cache' = [d EXCEPT
                      !.bytes = @ + Growth(n, b),
                      !.blob[b] = [@ EXCEPT !.reserved = 0, !.data = n, !.state = "ready"]]
                 /\ call' = [call EXCEPT ![c] = Q("parse")]
      /\ ~r.ok => cache' = d /\ call' = [call EXCEPT ![c] = Q("fail")]
    BY Zenon DEF LoadPublishes, Started
<1>3. b = cache.entry[call[c].entry].source BY DEF SourceOfCall
<1>4. Loader(cache, call[c], b)
    <2>1. Loader(cache, call[c], cache.entry[call[c].entry].source)
        BY <1>1, <1>2, LoaderIs
    <2> QED BY <1>3, <2>1, Zenon
<1>5. b \in Held(cache) /\ b \in DOMAIN cache.blob BY <1>4 DEF Loader
<1>6. /\ Sound(d, {}) /\ Trimmed(cache, d, F, call)
      /\ r.ok => d.bytes + Growth(n, b) <= MaxBytes
    <2> HIDE DEF b
    <2> QED BY <1>5, PublishRoom
<1>7. \A at : /\ DOMAIN Q(at) = {"at", "entry", "evicted"} /\ Q(at).at = at
              /\ Q(at).entry = call[c].entry /\ Q(at).evicted = call[c].evicted \cup F
    OBVIOUS
<1> DEFINE ok == r.ok
<1>8. ok => /\ cache' = [d EXCEPT
                      !.bytes = @ + Growth(n, b),
                      !.blob[b] = [@ EXCEPT !.reserved = 0, !.data = n, !.state = "ready"]]
            /\ call' = [call EXCEPT ![c] = Q("parse")]
            /\ d.bytes + Growth(n, b) <= MaxBytes
    BY <1>2, <1>6
<1>9. ~ok => cache' = d /\ call' = [call EXCEPT ![c] = Q("fail")] BY <1>2
<1> HIDE DEF b, r, d, F, Q, ok
<1>10. /\ CallsSound(d, call) /\ FacesIn(d) = FacesIn(cache) \ F
       /\ F \subseteq {e \in FacesIn(cache) : cache.entry[e].state = "ready"}
       /\ DOMAIN d.entry = DOMAIN cache.entry
       /\ \A e \in FacesIn(d) : d.entry[e] = cache.entry[e]
       /\ d.blob[b].reserved = cache.blob[b].reserved
    BY <1>5, <1>6 DEF Trimmed
<1>11. Loader(d, call[c], b)
    <2>1. Loader(d, call[c], d.entry[call[c].entry].source) BY <1>2, <1>6, <1>10, LoaderIs
    <2>2. d.entry[call[c].entry].source = b BY <1>3, <1>10, <2>1 DEF Loader
    <2> QED BY <2>1, <2>2
<1>12. ASSUME NEW at, call' = [call EXCEPT ![c] = Q(at)]
       PROVE  /\ DOMAIN call' = Callers /\ call'[c] = Q(at)
              /\ \A y \in Callers \ {c} : call'[y] = call[y]
    BY <1>12, CallTurns
<1>13. CASE ok
    <2>1. /\ DOMAIN call' = Callers /\ call'[c] = Q("parse")
          /\ \A y \in Callers \ {c} : call'[y] = call[y]
        BY <1>8, <1>12, <1>13
    <2>2. Loaded(d, cache', b, n) /\ cache'.bytes <= MaxBytes
        <3> DEFINE blob == [d.blob EXCEPT ![b] = [@ EXCEPT !.reserved = 0, !.data = n,
                                                           !.state = "ready"]]
                   bytes == d.bytes + (n - d.blob[b].reserved)
        <3>1. DOMAIN d = {"entries", "sources", "bytes", "recency", "entry", "blob"}
            BY <1>6 DEF Sound, Formed
        <3>2. Growth(n, b) = n - d.blob[b].reserved BY <1>10 DEF Growth
        <3>3. cache' = [d EXCEPT !.bytes = bytes, !.blob = blob]
            BY Zenon, <1>8, <1>13, <3>2
        <3>4. bytes <= MaxBytes BY Zenon, <1>8, <1>13, <3>2
        <3> HIDE DEF blob, bytes
        <3>5. Made(cache', d.entries, d.sources, bytes, d.entry, blob) /\ cache'.bytes = bytes
            BY <3>1, <3>3 DEF Made
        <3> QED BY Zenon, <3>4, <3>5 DEF Loaded, blob, bytes
    <2>3. Sound(cache', {}) /\ FacesIn(cache') = FacesIn(d) /\ cache'.entry = d.entry
        BY <1>6, <1>11, <2>2, LoadedSound DEF Loader
    <2>4. CallsSound(cache', call') BY <1>6, <1>7, <1>10, <1>11, <2>1, <2>2, LoadedCalls
    <2>5. OwnersSound(cache', owner, call')
        <3>1. call'[c].evicted = call[c].evicted \cup F BY <1>7, <2>1
        <3> QED BY SMTT(20), <1>1, <1>10, <2>1, <2>3, <3>1, OwnersEvict
    <2> QED BY <1>2, <2>3, <2>4, <2>5 DEF IInv
<1>14. CASE ~ok
    <2>1. /\ DOMAIN call' = Callers /\ call'[c] = Q("fail") /\ cache' = d
          /\ \A y \in Callers \ {c} : call'[y] = call[y]
        BY <1>9, <1>12, <1>14
    <2>2. CallsSound(d, call') BY <1>6, <1>7, <1>10, <1>11, <2>1, UnloadedCalls
    <2>3. OwnersSound(d, owner, call')
        <3>1. call'[c].evicted = call[c].evicted \cup F BY <1>7, <2>1
        <3> QED BY <1>1, <1>10, <2>1, <3>1, OwnersEvict
    <2> QED BY <1>2, <1>6, <2>1, <2>2, <2>3 DEF IInv
<1> QED BY <1>13, <1>14

-----------------------------------------------------------------------------
(* The faces of the cache, with F taken out. *)
Evicts(d, F) ==
    /\ DOMAIN d.entry = DOMAIN cache.entry /\ FacesIn(d) = FacesIn(cache) \ F
    /\ F \subseteq {e \in FacesIn(cache) : cache.entry[e].state = "ready"}
    /\ \A e \in FacesIn(d) : d.entry[e] = cache.entry[e]

(* The owners stay sound when a goroutine evicts faces and is to close      *)
(* their owners.                                                            *)
LEMMA OwnersTrim ==
    ASSUME IInv, NEW c \in Callers, NEW d, NEW F, Evicts(d, F), NEW calls2,
           calls2[c].evicted = call[c].evicted \cup F,
           \A x \in Callers \ {c} : calls2[x].evicted = call[x].evicted
    PROVE  OwnersSound(d, owner, calls2)
<1>1. OwnersSound(cache, owner, call) /\ FacesIn(cache) \subseteq DOMAIN cache.entry
    BY CallFields
<1>2. /\ F \subseteq {e \in FacesIn(cache) : cache.entry[e].state = "ready"}
      /\ DOMAIN d.entry = DOMAIN cache.entry /\ FacesIn(d) = FacesIn(cache) \ F
      /\ \A e \in FacesIn(d) : d.entry[e].state = cache.entry[e].state
    BY DEF Evicts
<1> QED BY <1>1, <1>2, OwnersEvict

(* A new face is added to what admission left. *)
LEMMA FaceTaken ==
    ASSUME IInv, NEW c \in Callers, call[c] = NoCall, NEW left, NEW b, NEW k, NEW out, NEW q,
           Sound(left, {b}), CallsSound(left, call), HasRoom(left, 1, 0), FaceAdded(left, cache', k, b),
           Evicts(left, out), Begins(left, call, call', c, q, b), q.evicted = out,
           owner' = Append(owner, "none")
    PROVE  IInv'
<1>1. OwnersSound(cache, owner, call) /\ FacesIn(cache) \subseteq DOMAIN cache.entry
    BY CallFields
<1>2. Formed(left) /\ FacesIn(left) \subseteq DOMAIN left.entry /\ left.entry \in Seq(Entry)
    BY FacesKeyed DEF Sound, Formed
<1>3. Sound(cache', {}) /\ Grown(left, cache', Len(left.entry) + 1, NewEntry(k, b))
    BY FaceAddedSound
<1>4. CallsSound(cache', call') BY NewFaceCalls
<1>5. /\ call'[c] = q /\ call[c].evicted = {}
      /\ \A x \in Callers \ {c} : call'[x] = call[x]
    BY LeasedIs DEF Begins
<1>6. OwnersSound(left, owner, call')
    <2>1. call'[c].evicted = call[c].evicted \cup out BY <1>5
    <2>2. \A x \in Callers \ {c} : call'[x].evicted = call[x].evicted BY <1>5
    <2> QED BY <2>1, <2>2, OwnersTrim
<1>7. OwnersSound(cache', Append(owner, "none"), call')
    <2> DEFINE n == Len(left.entry) + 1
    <2>1. NewEntry(k, b).state = "loading" BY DEF NewEntry
    <2>2. /\ FacesIn(cache') = FacesIn(left) \cup {n}
          /\ DOMAIN cache'.entry = DOMAIN left.entry \cup {n}
          /\ \A e \in DOMAIN left.entry : cache'.entry[e] = left.entry[e]
          /\ cache'.entry[n].state = "loading"
        BY <1>3, <2>1 DEF Grown
    <2>3. n = Len(left.entry) + 1 OBVIOUS
    <2> HIDE DEF n
    <2> QED BY <1>2, <1>6, <2>2, <2>3, OwnerAdded
<1> QED BY <1>3, <1>4, <1>7 DEF IInv

(* A source that is held for a face to come. *)
LEMMA HeldFor ==
    ASSUME NEW m, Sound(m, {}), NEW calls, CallsSound(m, calls), NEW s \in DOMAIN m.sources,
           NEW b, b = m.sources[s], NEW h, h = Holds(m, b)
    PROVE  /\ b \in Held(m) /\ Sound(h, {b}) /\ CallsSound(h, calls)
           /\ FacesIn(h) = FacesIn(m) /\ h.entry = m.entry /\ h.sources = m.sources
           /\ h.entries = m.entries /\ b \in Held(h) /\ h.blob[b].of = s
           /\ h.blob[b].state = m.blob[b].state /\ h.blob[b].state \in {"loading", "ready"}
<1>1. Formed(m) /\ DOMAIN m = {"entries", "sources", "bytes", "recency", "entry", "blob"}
    BY DEF Sound, Formed
<1>2. b \in Held(m) /\ b \in DOMAIN m.blob /\ m.blob[b] \in Blob BY <1>1, HeldBlobs DEF Formed
<1>3. m.blob[b].refs = Cardinality(Holders(m, b)) /\ m.blob[b].refs > 0
    <2>1. Holders(m, b) \in SUBSET FacesIn(m) BY DEF Holders
    <2>2. Cardinality(Holders(m, b)) \in Nat
        BY <1>1, <2>1, FacesKeyed, FS_Subset, FS_CardinalityType
    <2> QED BY <1>2, <2>2 DEF Sound, Referred
<1>4. m.blob[b].refs \in Int /\ m.blob[b].state \in {"loading", "ready"} BY <1>2 DEF Blob
<1>5. Recounted(m, h, b, m.blob[b].refs + 1)
    <2> DEFINE blob == [m.blob EXCEPT ![b].refs = m.blob[b].refs + 1]
    <2>1. h = [m EXCEPT !.blob = blob] BY <1>1, <1>2 DEF Holds
    <2> HIDE DEF blob
    <2>2. Made(h, m.entries, m.sources, m.bytes, m.entry, blob) BY <1>1, <2>1 DEF Made
    <2> QED BY Zenon, <2>2 DEF Recounted, blob
<1>6. /\ Sound(h, {b}) /\ FacesIn(h) = FacesIn(m) /\ h.entry = m.entry
      /\ h.sources = m.sources /\ DOMAIN h.blob = DOMAIN m.blob
      /\ \A x \in DOMAIN m.blob : /\ h.blob[x].state = m.blob[x].state
                                  /\ h.blob[x].failed = m.blob[x].failed
    <2> DEFINE n == m.blob[b].refs + 1
               Y == {b}
    <2>1. n \in Int /\ n > 0 /\ n = Cardinality(Holders(m, b)) + (IF b \in Y THEN 1 ELSE 0)
        BY <1>3, <1>4
    <2>2. \A x \in Held(m) \ {b} : x \in {} <=> x \in Y OBVIOUS
    <2>3. Recounted(m, h, b, n) BY <1>5
    <2> HIDE DEF n, Y
    <2>4. /\ Sound(h, Y) /\ FacesIn(h) = FacesIn(m) /\ h.entry = m.entry
          /\ h.sources = m.sources /\ DOMAIN h.blob = DOMAIN m.blob
          /\ \A x \in DOMAIN m.blob : /\ h.blob[x].state = m.blob[x].state
                                      /\ h.blob[x].failed = m.blob[x].failed
        BY <1>2, <2>1, <2>2, <2>3, RecountedSound
    <2> QED BY <2>4 DEF Y
<1>7. CallsSound(h, calls) BY <1>6, CallsSame
<1>8. b \in Held(h) /\ h.blob[b].of = s
    <2>1. s \in DOMAIN h.sources /\ h.sources[s] = b BY <1>6
    <2> QED BY <1>6, <2>1 DEF Held, Sound, Formed
<1>9. h.entries = m.entries BY <1>5 DEF Recounted, Made
<1> QED BY <1>2, <1>4, <1>6, <1>7, <1>8, <1>9

(* The room that admission makes for a face of a source that is held. *)
Shared(s, b, r) ==
    /\ Sound(r.m, {b}) /\ CallsSound(r.m, call) /\ Evicts(r.m, r.evicted)
    /\ Len(r.m.entry) = Len(cache.entry)
    /\ DOMAIN r.m.entries \subseteq DOMAIN cache.entries
    /\ s \in DOMAIN r.m.sources /\ r.m.sources[s] = b /\ b \in Held(r.m)
    /\ r.m.blob[b].state = cache.blob[b].state
    /\ cache.blob[b].state \in {"loading", "ready"}
    /\ r.ok => HasRoom(r.m, 1, 0)
    /\ ~r.ok => r.evicted = {}

(* Room made while the source is held leaves the source in the cache, and   *)
(* the calls and owners sound.                                              *)
LEMMA SharedRoom ==
    ASSUME IInv, NEW s \in DOMAIN cache.sources, NEW b, b = cache.sources[s], NEW r,
           r = MakeRoom(Holds(cache, b), 1, 0)
    PROVE  Shared(s, b, r)
<1> DEFINE h == Holds(cache, b)
<1>1. Sound(cache, {}) /\ CallsSound(cache, call) BY DEF IInv
<1>2. /\ b \in Held(cache) /\ Sound(h, {b}) /\ CallsSound(h, call)
      /\ FacesIn(h) = FacesIn(cache) /\ h.entry = cache.entry /\ h.sources = cache.sources
      /\ h.entries = cache.entries /\ b \in Held(h) /\ h.blob[b].of = s
      /\ h.blob[b].state = cache.blob[b].state /\ h.blob[b].state \in {"loading", "ready"}
    BY <1>1, HeldFor
<1>3. r = MakeRoom(h, 1, 0) OBVIOUS
<1> HIDE DEF h
<1>4. Room(h, r, 1, 0) BY <1>2, <1>3, RoomMade
<1>5. Sound(r.m, {b}) /\ Trimmed(h, r.m, r.evicted, call) /\ b \in Held(r.m)
    <2> DEFINE X == {b}
    <2>1. Sound(h, X) BY <1>2
    <2>2. b \in X \cap Held(h) BY <1>2
    <2> HIDE DEF X
    <2>3. Sound(r.m, X) /\ Trimmed(h, r.m, r.evicted, call) /\ X \cap Held(h) \subseteq Held(r.m)
        BY <1>2, <1>4, <2>1, RoomSound
    <2> QED BY <2>2, <2>3 DEF X
<1>6. b \in DOMAIN h.blob BY <1>2, HeldBlobs DEF Sound
<1>7. r.m.blob[b].of = s /\ r.m.blob[b].state = cache.blob[b].state
    BY <1>2, <1>5, <1>6 DEF Trimmed
<1>8. s \in DOMAIN r.m.sources /\ r.m.sources[s] = b BY <1>5, <1>7, HeldBlobs DEF Sound
<1>9. /\ CallsSound(r.m, call) /\ Len(r.m.entry) = Len(cache.entry)
      /\ DOMAIN r.m.entries \subseteq DOMAIN cache.entries
    BY <1>2, <1>5 DEF Trimmed
<1>10. Evicts(r.m, r.evicted)
    <2>1. Evicts(r.m, r.evicted) <=>
            /\ DOMAIN r.m.entry = DOMAIN h.entry /\ FacesIn(r.m) = FacesIn(h) \ r.evicted
            /\ r.evicted \subseteq {e \in FacesIn(h) : h.entry[e].state = "ready"}
            /\ \A e \in FacesIn(r.m) : r.m.entry[e] = h.entry[e]
        BY <1>2, Zenon DEF Evicts
    <2> QED BY <1>5, <2>1 DEF Trimmed
<1>11. (r.ok => HasRoom(r.m, 1, 0)) /\ (~r.ok => r.evicted = {}) BY <1>4 DEF Room
<1> QED BY <1>2, <1>5, <1>7, <1>8, <1>9, <1>10, <1>11 DEF Shared

(* AcquireShared: a face of a source that is there. *)
SharedTake(c, k, s, b, r, e, q) ==
    /\ call[c] = NoCall /\ k \in Keys \ DOMAIN cache.entries
    /\ s \in DOMAIN cache.sources /\ s = SourceOf[k] /\ b = cache.sources[s]
    /\ r = MakeRoom(Holds(cache, b), 1, 0) /\ r.ok
    /\ e = Len(cache.entry) + 1 /\ DOMAIN q = {"at", "entry", "evicted"}
    /\ q.at = (IF cache.blob[b].state = "loading" THEN "waitSource" ELSE "parse")
    /\ q.entry = e /\ q.evicted = r.evicted /\ call' = [call EXCEPT ![c] = q]
    /\ cache' = [r.m EXCEPT !.entry = Append(@, NewEntry(k, b)), !.entries = With(@, k, e)]
    /\ owner' = Append(owner, "none")

(* A face that shares a source already in the cache, added after room was   *)
(* made, keeps the invariant.                                               *)
LEMMA SharedTaken ==
    ASSUME IInv, NEW c \in Callers, NEW k, NEW s, NEW b, NEW r, NEW e, NEW q,
           SharedTake(c, k, s, b, r, e, q)
    PROVE  IInv'
<1>0. /\ call[c] = NoCall /\ k \in Keys \ DOMAIN cache.entries
      /\ s \in DOMAIN cache.sources /\ s = SourceOf[k] /\ b = cache.sources[s]
      /\ r = MakeRoom(Holds(cache, b), 1, 0) /\ r.ok
      /\ e = Len(cache.entry) + 1 /\ DOMAIN q = {"at", "entry", "evicted"}
      /\ q.at = (IF cache.blob[b].state = "loading" THEN "waitSource" ELSE "parse")
      /\ q.entry = e /\ q.evicted = r.evicted /\ call' = [call EXCEPT ![c] = q]
      /\ cache' = [r.m EXCEPT !.entry = Append(@, NewEntry(k, b)), !.entries = With(@, k, e)]
      /\ owner' = Append(owner, "none")
    BY Zenon DEF SharedTake
<1>1. /\ Sound(r.m, {b}) /\ CallsSound(r.m, call) /\ Evicts(r.m, r.evicted)
      /\ Len(r.m.entry) = Len(cache.entry)
      /\ DOMAIN r.m.entries \subseteq DOMAIN cache.entries
      /\ s \in DOMAIN r.m.sources /\ r.m.sources[s] = b
      /\ r.m.blob[b].state = cache.blob[b].state
      /\ cache.blob[b].state \in {"loading", "ready"}
      /\ HasRoom(r.m, 1, 0)
    <2>1. Shared(s, b, r) BY <1>0, SharedRoom
    <2> QED BY <1>0, <2>1 DEF Shared
<1>2. e = Len(r.m.entry) + 1 BY <1>0, <1>1
<1>3. FaceAdded(r.m, cache', k, b)
    <2> DEFINE entries == With(r.m.entries, k, e)
               entry == Append(r.m.entry, NewEntry(k, b))
    <2>1. DOMAIN r.m = {"entries", "sources", "bytes", "recency", "entry", "blob"}
        BY <1>1 DEF Sound, Formed
    <2>2. cache' = [r.m EXCEPT !.entry = entry, !.entries = entries] BY <1>0, <2>1
    <2>3. k \in Keys \ DOMAIN r.m.entries BY <1>0, <1>1
    <2> HIDE DEF entries, entry
    <2>4. Made(cache', entries, r.m.sources, r.m.bytes, entry, r.m.blob)
        BY <2>1, <2>2 DEF Made
    <2> QED BY Zenon, <1>0, <1>1, <1>2, <2>3, <2>4 DEF FaceAdded, entries, entry
<1>4. /\ DOMAIN call' = Callers /\ call'[c] = q
      /\ \A x \in Callers \ {c} : call'[x] = call[x]
    BY <1>0, CallTurns
<1>5. Begins(r.m, call, call', c, q, b)
    <2>1. call[c].at = "idle" BY <1>0, LeasedIs
    <2>2. q.at \in {"load", "waitSource", "parse"} /\ q.at # "load"
          /\ (q.at = "parse" => r.m.blob[b].state = "ready")
        BY <1>0, <1>1
    <2> QED BY <1>0, <1>2, <1>4, <2>1, <2>2 DEF Begins
<1> QED BY <1>0, <1>1, <1>3, <1>5, FaceTaken

(* AcquireShared keeps the invariant. *)
LEMMA SharedStep ==
    ASSUME IInv, NEW c \in Callers, NEW k \in Keys, AcquireShared(c, k)
    PROVE  IInv'
<1> DEFINE s == SourceOf[k]
           b == cache.sources[s]
           e == Len(cache.entry) + 1
           r == MakeRoom(Holds(cache, b), 1, 0)
           q == [at |-> IF cache.blob[b].state = "loading" THEN "waitSource" ELSE "parse",
                 entry |-> e, evicted |-> r.evicted]
<1>1. /\ call[c] = NoCall /\ k \in Keys \ DOMAIN cache.entries /\ s \in DOMAIN cache.sources /\ r.ok
      /\ cache' = [r.m EXCEPT !.entry = Append(@, NewEntry(k, b)), !.entries = With(@, k, e)]
      /\ owner' = Append(owner, "none") /\ call' = [call EXCEPT ![c] = q]
    BY Zenon DEF AcquireShared, Started
<1>2. /\ DOMAIN q = {"at", "entry", "evicted"} /\ q.entry = e /\ q.evicted = r.evicted
      /\ q.at = (IF cache.blob[b].state = "loading" THEN "waitSource" ELSE "parse")
    OBVIOUS
<1>3. s = SourceOf[k] /\ b = cache.sources[s] /\ r = MakeRoom(Holds(cache, b), 1, 0)
      /\ e = Len(cache.entry) + 1
    OBVIOUS
<1> HIDE DEF s, b, e, r, q
<1>4. SharedTake(c, k, s, b, r, e, q) BY Zenon, <1>1, <1>2, <1>3 DEF SharedTake
<1> QED BY <1>4, SharedTaken

(* The room that admission makes for a face and its source. *)
Alone(s, r) ==
    /\ Sound(r.m, {}) /\ CallsSound(r.m, call) /\ Evicts(r.m, r.evicted)
    /\ Len(r.m.entry) = Len(cache.entry)
    /\ DOMAIN r.m.blob = DOMAIN cache.blob /\ Len(r.m.blob) = Len(cache.blob)
    /\ DOMAIN r.m.entries \subseteq DOMAIN cache.entries
    /\ DOMAIN r.m.sources \subseteq DOMAIN cache.sources
    /\ r.ok => HasRoom(r.m, 1, Reservation(s))

(* Room made for a source of its own leaves the cache without that source,  *)
(* and the calls and owners sound.                                          *)
LEMMA AloneRoom ==
    ASSUME IInv, NEW s \in Sources, NEW r, r = MakeRoom(cache, 1, Reservation(s))
    PROVE  Alone(s, r)
<1>1. Sound(cache, {}) /\ CallsSound(cache, call) BY DEF IInv
<1>2. Room(cache, r, 1, Reservation(s)) BY <1>1, Constants, RoomMade
<1>3. Sound(r.m, {}) /\ Trimmed(cache, r.m, r.evicted, call) BY <1>1, <1>2, RoomSound
<1>4. Evicts(r.m, r.evicted) BY <1>3 DEF Trimmed, Evicts
<1>5. r.ok => HasRoom(r.m, 1, Reservation(s)) BY <1>2 DEF Room
<1> QED BY <1>3, <1>4, <1>5 DEF Trimmed, Alone

(* AcquireSource: a face of a source that nothing holds, and the source.    *)
SourceTake(c, k, s, b, r, e, q) ==
    /\ call[c] = NoCall /\ k \in Keys \ DOMAIN cache.entries
    /\ s = SourceOf[k] /\ s \notin DOMAIN cache.sources
    /\ r = MakeRoom(cache, 1, Reservation(s)) /\ r.ok
    /\ e = Len(cache.entry) + 1 /\ b = Len(cache.blob) + 1
    /\ DOMAIN q = {"at", "entry", "evicted"} /\ q.at = "load"
    /\ q.entry = e /\ q.evicted = r.evicted /\ call' = [call EXCEPT ![c] = q]
    /\ cache' = [r.m EXCEPT
            !.entry = Append(@, NewEntry(k, b)), !.blob = Append(@, NewBlob(s)),
            !.entries = With(@, k, e), !.sources = With(@, s, b),
            !.bytes = @ + Reservation(s)]
    /\ owner' = Append(owner, "none")

(* A new source with its first face, added after room was made, keeps the   *)
(* invariant.                                                               *)
LEMMA SourceTaken ==
    ASSUME IInv, NEW c \in Callers, NEW k, NEW s, NEW b, NEW r, NEW e, NEW q,
           SourceTake(c, k, s, b, r, e, q)
    PROVE  IInv'
<1>0. /\ call[c] = NoCall /\ k \in Keys \ DOMAIN cache.entries
      /\ s = SourceOf[k] /\ s \notin DOMAIN cache.sources
      /\ r = MakeRoom(cache, 1, Reservation(s)) /\ r.ok
      /\ e = Len(cache.entry) + 1 /\ b = Len(cache.blob) + 1
      /\ DOMAIN q = {"at", "entry", "evicted"} /\ q.at = "load"
      /\ q.entry = e /\ q.evicted = r.evicted /\ call' = [call EXCEPT ![c] = q]
      /\ cache' = [r.m EXCEPT
              !.entry = Append(@, NewEntry(k, b)), !.blob = Append(@, NewBlob(s)),
              !.entries = With(@, k, e), !.sources = With(@, s, b),
              !.bytes = @ + Reservation(s)]
      /\ owner' = Append(owner, "none")
    BY Zenon DEF SourceTake
<1>1. /\ Sound(r.m, {}) /\ CallsSound(r.m, call) /\ Evicts(r.m, r.evicted)
      /\ Len(r.m.entry) = Len(cache.entry) /\ Len(r.m.blob) = Len(cache.blob)
      /\ DOMAIN r.m.entries \subseteq DOMAIN cache.entries
      /\ DOMAIN r.m.sources \subseteq DOMAIN cache.sources
      /\ HasRoom(r.m, 1, Reservation(s)) /\ s \in Sources
    <2>1. s \in Sources BY <1>0, Constants
    <2>2. Alone(s, r) BY <1>0, <2>1, AloneRoom
    <2> QED BY <1>0, <2>1, <2>2 DEF Alone
<1>2. e = Len(r.m.entry) + 1 /\ b = Len(r.m.blob) + 1 BY <1>0, <1>1
<1>3. DOMAIN r.m = {"entries", "sources", "bytes", "recency", "entry", "blob"}
    BY <1>1 DEF Sound, Formed
<1> DEFINE d == [r.m EXCEPT !.blob = Append(@, NewBlob(s)), !.sources = With(@, s, b),
                            !.bytes = @ + Reservation(s)]
<1>4. BlobAdded(r.m, d, s)
    <2> DEFINE blob == Append(r.m.blob, NewBlob(s))
               sources == With(r.m.sources, s, b)
               bytes == r.m.bytes + Reservation(s)
    <2>1. d = [r.m EXCEPT !.blob = blob, !.sources = sources, !.bytes = bytes] BY <1>3
    <2>2. s \in Sources \ DOMAIN r.m.sources BY <1>0, <1>1
    <2> HIDE DEF blob, sources, bytes, d
    <2>3. Made(d, r.m.entries, sources, bytes, r.m.entry, blob) BY <1>3, <2>1 DEF Made
    <2> QED BY Zenon, <1>2, <2>2, <2>3 DEF BlobAdded, blob, sources, bytes
<1>5. cache' = [d EXCEPT !.entry = Append(@, NewEntry(k, b)), !.entries = With(@, k, e)]
    BY <1>0, <1>3
<1>6. DOMAIN d = DOMAIN r.m OBVIOUS
<1> HIDE DEF d
<1>7. /\ Sound(d, {b}) /\ HasRoom(d, 1, 0) /\ b \notin DOMAIN r.m.blob
      /\ d.entry = r.m.entry /\ d.entries = r.m.entries /\ FacesIn(d) = FacesIn(r.m)
      /\ s \in DOMAIN d.sources /\ d.sources[s] = b
      /\ DOMAIN d.blob = DOMAIN r.m.blob \cup {b} /\ d.blob[b] = NewBlob(s)
      /\ \A x \in DOMAIN r.m.blob : d.blob[x] = r.m.blob[x]
    <2>1. Sound(d, {b}) /\ HasRoom(d, 1, 0) /\ WithBlob(r.m, d, s, b)
        BY <1>1, <1>2, <1>4, BlobAddedSound
    <2> QED BY <2>1 DEF WithBlob
<1>8. CallsSound(d, call) BY <1>1, <1>7, CallsSame
<1>9. FaceAdded(d, cache', k, b)
    <2> DEFINE entries == With(d.entries, k, e)
               entry == Append(d.entry, NewEntry(k, b))
    <2>1. DOMAIN d = {"entries", "sources", "bytes", "recency", "entry", "blob"}
        BY <1>3, <1>6
    <2>2. cache' = [d EXCEPT !.entry = entry, !.entries = entries] BY <1>5, <2>1
    <2>3. k \in Keys \ DOMAIN d.entries BY <1>0, <1>1, <1>7
    <2>4. e = Len(d.entry) + 1 BY <1>2, <1>7
    <2> HIDE DEF entries, entry
    <2>5. Made(cache', entries, d.sources, d.bytes, entry, d.blob)
        BY <2>1, <2>2 DEF Made
    <2> QED BY Zenon, <1>0, <1>7, <2>3, <2>4, <2>5 DEF FaceAdded, entries, entry
<1>10. Evicts(d, r.evicted) BY <1>1, <1>7 DEF Evicts
<1>11. /\ DOMAIN call' = Callers /\ call'[c] = q
       /\ \A x \in Callers \ {c} : call'[x] = call[x]
    BY <1>0, CallTurns
<1>12. Begins(d, call, call', c, q, b)
    <2>1. call[c].at = "idle" BY <1>0, LeasedIs
    <2>2. q.at = "load" /\ d.blob[b].state = "loading" BY <1>0, <1>7 DEF NewBlob
    <2>3. ASSUME NEW x \in Callers, Loads(call[x])
          PROVE  d.entry[call[x].entry].source # b
        <3>1. call[x].entry \in FacesIn(r.m) BY <1>1, <2>3 DEF CallsSound, Placed, Loads
        <3>2. r.m.entry[call[x].entry].source \in DOMAIN r.m.blob BY <1>1, <3>1, SourceHeld
        <3> QED BY <1>7, <3>2
    <2>4. q.entry = Len(d.entry) + 1 BY <1>0, <1>2, <1>7
    <2> QED BY <1>0, <1>11, <2>1, <2>2, <2>3, <2>4 DEF Begins
<1> QED BY <1>0, <1>7, <1>8, <1>9, <1>10, <1>12, FaceTaken

(* AcquireSource keeps the invariant. *)
LEMMA SourceStep ==
    ASSUME IInv, NEW c \in Callers, NEW k \in Keys, AcquireSource(c, k)
    PROVE  IInv'
<1> DEFINE s == SourceOf[k]
           b == Len(cache.blob) + 1
           e == Len(cache.entry) + 1
           r == MakeRoom(cache, 1, Reservation(s))
           q == [at |-> "load", entry |-> e, evicted |-> r.evicted]
<1>1. /\ call[c] = NoCall /\ k \in Keys \ DOMAIN cache.entries /\ s \notin DOMAIN cache.sources
      /\ r.ok
      /\ cache' = [r.m EXCEPT
              !.entry = Append(@, NewEntry(k, b)), !.blob = Append(@, NewBlob(s)),
              !.entries = With(@, k, e), !.sources = With(@, s, b),
              !.bytes = @ + Reservation(s)]
      /\ owner' = Append(owner, "none") /\ call' = [call EXCEPT ![c] = q]
    BY Zenon DEF AcquireSource, Started, Missing, NewBlob
<1>2. /\ DOMAIN q = {"at", "entry", "evicted"} /\ q.entry = e /\ q.evicted = r.evicted
      /\ q.at = "load"
    OBVIOUS
<1>3. s = SourceOf[k] /\ r = MakeRoom(cache, 1, Reservation(s))
      /\ e = Len(cache.entry) + 1 /\ b = Len(cache.blob) + 1
    OBVIOUS
<1> HIDE DEF s, b, e, r, q
<1>4. SourceTake(c, k, s, b, r, e, q) BY Zenon, <1>1, <1>2, <1>3 DEF SourceTake
<1> QED BY <1>4, SourceTaken

(* AcquireRefused: there is no room for the face.  What was evicted for it  *)
(* is closed, and the source it was to share is as it was.                  *)
LEMMA OwnersRefused ==
    ASSUME IInv, NEW c \in Callers, call[c] = NoCall, NEW d, NEW F, Evicts(d, F)
    PROVE  OwnersSound(d, Close(F), call)
<1> DEFINE mid == [x \in Callers |-> IF x = c THEN [NoCall EXCEPT !.evicted = F] ELSE call[x]]
<1>1. /\ mid[c].evicted = call[c].evicted \cup F /\ mid[c].evicted = F
      /\ \A x \in Callers \ {c} : mid[x].evicted = call[x].evicted
    BY LeasedIs DEF NoCall
<1>2. call[c].evicted = {} BY LeasedIs
<1> HIDE DEF mid
<1>3. OwnersSound(d, owner, mid) BY <1>1, OwnersTrim
<1>4. Close(F) = [e \in DOMAIN owner |-> IF e \in mid[c].evicted THEN "closed" ELSE owner[e]]
    BY <1>1 DEF Close
<1>5. FacesIn(d) \subseteq DOMAIN d.entry
    <2>1. FacesIn(cache) \subseteq DOMAIN cache.entry BY CallFields
    <2> QED BY <2>1 DEF Evicts
<1>6. \A x \in Callers \ {c} : call[x].evicted = mid[x].evicted BY <1>1
<1> QED BY <1>2, <1>3, <1>4, <1>5, <1>6, OwnersClosed

RefusedShare(c, s, b, r) ==
    /\ call[c] = NoCall /\ s \in DOMAIN cache.sources /\ b = cache.sources[s]
    /\ r = MakeRoom(Holds(cache, b), 1, 0) /\ ~r.ok
    /\ cache' = [r.m EXCEPT !.blob[b].refs = @ - 1]
    /\ owner' = Close(r.evicted) /\ call' = call

(* A face that shares a source and finds no room leaves the source as it    *)
(* was, less the faces evicted on the way.                                  *)
LEMMA ShareRefused ==
    ASSUME IInv, NEW c \in Callers, NEW s, NEW b, NEW r, RefusedShare(c, s, b, r)
    PROVE  IInv'
<1>0. /\ call[c] = NoCall /\ s \in DOMAIN cache.sources /\ b = cache.sources[s]
      /\ r = MakeRoom(Holds(cache, b), 1, 0) /\ ~r.ok
      /\ cache' = [r.m EXCEPT !.blob[b].refs = @ - 1]
      /\ owner' = Close(r.evicted) /\ call' = call
    BY Zenon DEF RefusedShare
<1>1. /\ Sound(r.m, {b}) /\ CallsSound(r.m, call) /\ Evicts(r.m, r.evicted)
      /\ b \in Held(r.m) /\ r.evicted = {}
    <2>1. Shared(s, b, r) BY <1>0, SharedRoom
    <2> QED BY <1>0, <2>1 DEF Shared
<1>2. Sound(cache, {}) /\ b \in Held(cache) BY <1>0 DEF IInv, Held
<1>3. Formed(r.m) /\ b \in DOMAIN r.m.blob /\ r.m.blob[b] \in Blob
      /\ DOMAIN r.m = {"entries", "sources", "bytes", "recency", "entry", "blob"}
    BY <1>1, HeldBlobs DEF Sound, Formed
<1>4. /\ FacesIn(r.m) = FacesIn(cache) /\ Holders(r.m, b) = Holders(cache, b)
      /\ DOMAIN r.m.entry = DOMAIN cache.entry
      /\ \A e \in FacesIn(cache) : r.m.entry[e] = cache.entry[e]
    BY <1>1 DEF Evicts, Holders
<1> DEFINE n == Cardinality(Holders(cache, b))
<1>5. n \in Nat
    <2>1. Holders(r.m, b) \in SUBSET FacesIn(r.m) BY DEF Holders
    <2>2. Cardinality(Holders(r.m, b)) \in Nat
        BY <1>3, <2>1, FacesKeyed, FS_Subset, FS_CardinalityType
    <2> QED BY <1>4, <2>2
<1>6. n > 0
    <2>1. cache.blob[b].refs = n + (IF b \in {} THEN 1 ELSE 0) /\ cache.blob[b].refs > 0
        BY <1>2 DEF Sound, Referred
    <2> QED BY <1>5, <2>1
<1>7. r.m.blob[b].refs - 1 = n
    <2>1. r.m.blob[b].refs = n + (IF b \in {b} THEN 1 ELSE 0)
        BY <1>1, <1>4 DEF Sound, Referred
    <2> QED BY <1>5, <2>1
<1>8. Recounted(r.m, cache', b, n)
    <2> DEFINE blob == [r.m.blob EXCEPT ![b].refs = n]
    <2> HIDE DEF n
    <2>1. cache' = [r.m EXCEPT !.blob = blob]
        <3>1. cache' = [r.m EXCEPT !.blob = [r.m.blob EXCEPT ![b].refs = r.m.blob[b].refs - 1]]
            BY <1>0, <1>3
        <3> QED BY Zenon, <1>7, <3>1
    <2> HIDE DEF blob
    <2>2. Made(cache', r.m.entries, r.m.sources, r.m.bytes, r.m.entry, blob)
        BY <1>3, <2>1 DEF Made
    <2> QED BY Zenon, <2>2 DEF Recounted, blob
<1>9. /\ Sound(cache', {}) /\ FacesIn(cache') = FacesIn(r.m) /\ cache'.entry = r.m.entry
      /\ DOMAIN cache'.blob = DOMAIN r.m.blob
      /\ \A x \in DOMAIN r.m.blob : /\ cache'.blob[x].state = r.m.blob[x].state
                                    /\ cache'.blob[x].failed = r.m.blob[x].failed
    <2> DEFINE X == {b}
               Y == {}
    <2>1. Sound(r.m, X) BY <1>1
    <2>2. n \in Int /\ n > 0 /\ n = Cardinality(Holders(r.m, b)) + (IF b \in Y THEN 1 ELSE 0)
        BY <1>4, <1>5, <1>6
    <2>3. \A x \in Held(r.m) \ {b} : x \in X <=> x \in Y OBVIOUS
    <2>4. b \in Held(r.m) BY <1>1
    <2> HIDE DEF n, X, Y
    <2>5. /\ Sound(cache', Y) /\ FacesIn(cache') = FacesIn(r.m) /\ cache'.entry = r.m.entry
          /\ DOMAIN cache'.blob = DOMAIN r.m.blob
          /\ \A x \in DOMAIN r.m.blob : /\ cache'.blob[x].state = r.m.blob[x].state
                                        /\ cache'.blob[x].failed = r.m.blob[x].failed
        BY <1>8, <2>1, <2>2, <2>3, <2>4, RecountedSound
    <2> QED BY <2>5 DEF Y
<1>10. CallsSound(cache', call) BY <1>1, <1>9, CallsSame
<1>11. Evicts(cache', r.evicted) BY <1>1, <1>9 DEF Evicts
<1>12. OwnersSound(cache', Close(r.evicted), call) BY <1>0, <1>11, OwnersRefused
<1> QED BY <1>0, <1>9, <1>10, <1>12 DEF IInv

RefusedSource(c, s, r) ==
    /\ call[c] = NoCall /\ s \in Sources
    /\ r = MakeRoom(cache, 1, Reservation(s))
    /\ cache' = r.m /\ owner' = Close(r.evicted) /\ call' = call

(* A face that needs a source and finds no room adds nothing, and the faces *)
(* evicted on the way are gone.                                             *)
LEMMA SourceRefused ==
    ASSUME IInv, NEW c \in Callers, NEW s, NEW r, RefusedSource(c, s, r)
    PROVE  IInv'
<1>0. /\ call[c] = NoCall /\ s \in Sources
      /\ r = MakeRoom(cache, 1, Reservation(s))
      /\ cache' = r.m /\ owner' = Close(r.evicted) /\ call' = call
    BY Zenon DEF RefusedSource
<1>1. Sound(r.m, {}) /\ CallsSound(r.m, call) /\ Evicts(r.m, r.evicted)
    <2>1. Alone(s, r) BY <1>0, AloneRoom
    <2> QED BY <2>1 DEF Alone
<1>2. OwnersSound(r.m, Close(r.evicted), call) BY <1>0, <1>1, OwnersRefused
<1> QED BY <1>0, <1>1, <1>2 DEF IInv

(* AcquireRefused keeps the invariant. *)
LEMMA RefusedAdmission ==
    ASSUME IInv, NEW c \in Callers, NEW k \in Keys, AcquireRefused(c, k)
    PROVE  IInv'
<1> DEFINE s == SourceOf[k]
           b == cache.sources[s]
<1>1. CASE s \in DOMAIN cache.sources
    <2> DEFINE r == MakeRoom(Holds(cache, b), 1, 0)
    <2>1. /\ call[c] = NoCall /\ ~r.ok
          /\ cache' = [r.m EXCEPT !.blob[b].refs = @ - 1]
          /\ owner' = Close(r.evicted) /\ call' = call
        BY Zenon, <1>1 DEF AcquireRefused
    <2>2. b = cache.sources[s] /\ r = MakeRoom(Holds(cache, b), 1, 0) OBVIOUS
    <2> HIDE DEF s, b, r
    <2>3. RefusedShare(c, s, b, r) BY Zenon, <1>1, <2>1, <2>2 DEF RefusedShare
    <2> QED BY <2>3, ShareRefused
<1>2. CASE s \notin DOMAIN cache.sources
    <2> DEFINE r == MakeRoom(cache, 1, Reservation(s))
    <2>1. /\ call[c] = NoCall /\ cache' = r.m
          /\ owner' = Close(r.evicted) /\ call' = call
        BY Zenon, <1>2 DEF AcquireRefused
    <2>2. r = MakeRoom(cache, 1, Reservation(s)) /\ s \in Sources BY Constants
    <2> HIDE DEF s, r
    <2>3. RefusedSource(c, s, r) BY Zenon, <2>1, <2>2 DEF RefusedSource
    <2> QED BY <2>3, SourceRefused
<1> QED BY <1>1, <1>2

-----------------------------------------------------------------------------
(* Every step keeps the invariant. *)
LEMMA Stepped == IInv /\ [Next]_vars => IInv'
<1> SUFFICES ASSUME IInv, [Next]_vars PROVE IInv'
    OBVIOUS
<1>1. CASE UNCHANGED vars
    <2>1. cache' = cache /\ owner' = owner /\ call' = call BY <1>1 DEF vars
    <2> QED BY <2>1 DEF IInv
<1>2. ASSUME NEW c \in Callers, NEW k \in Keys, AcquireHit(c, k) PROVE IInv'
    BY <1>2, HitStep
<1>3. ASSUME NEW c \in Callers, NEW k \in Keys, AcquireWait(c, k) PROVE IInv'
    BY <1>3, WaitStep
<1>4. ASSUME NEW c \in Callers, NEW k \in Keys, AcquireSource(c, k) PROVE IInv'
    BY <1>4, SourceStep
<1>5. ASSUME NEW c \in Callers, NEW k \in Keys, AcquireShared(c, k) PROVE IInv'
    BY <1>5, SharedStep
<1>6. ASSUME NEW c \in Callers, NEW k \in Keys, AcquireRefused(c, k) PROVE IInv'
    BY <1>6, RefusedAdmission
<1>7. ASSUME NEW c \in Callers, NEW n \in LoadSizes, LoadPublishes(c, n) PROVE IInv'
    BY <1>7, PublishStep
<1>8. ASSUME NEW c \in Callers, FailSource(c) PROVE IInv'
    BY <1>8, FailStep
<1>9. ASSUME NEW c \in Callers, SourceLoaded(c) PROVE IInv'
    BY <1>9, SourceLoadedStep
<1>10. ASSUME NEW c \in Callers, ParseSucceeds(c) PROVE IInv'
    BY <1>10, ParsedStep
<1>11. ASSUME NEW c \in Callers, ParseFails(c) PROVE IInv'
    BY <1>11, RefusedStep
<1>12. ASSUME NEW c \in Callers, Woken(c) PROVE IInv'
    BY <1>12, WokenStep
<1>13. ASSUME NEW c \in Callers, CloseLease(c) PROVE IInv'
    BY <1>13, CloseStep
<1>14. CASE Next
    BY <1>2, <1>3, <1>4, <1>5, <1>6, <1>7, <1>8, <1>9, <1>10, <1>11, <1>12, <1>13, <1>14
    DEF Next, Acquire, Step
<1> QED BY <1>1, <1>14

(* The face cache is sound in every reachable state. *)
THEOREM FaceCacheSound == Spec => []IInv
<1>1. Init => IInv BY Begun
<1>2. IInv /\ [Next]_vars => IInv' BY Stepped
<1> QED BY <1>1, <1>2, PTL DEF Spec

(* A face that is leased or promised stays in the cache with its owner      *)
(* open, and the parser has its source's bytes, whatever is evicted, fails  *)
(* or is refused meanwhile.                                                 *)
THEOREM FacesInUseKept == Spec => []InUseKept
<1>1. ASSUME IInv PROVE InUseKept
    <2> SUFFICES ASSUME NEW c \in Callers
                 PROVE  LET e == call[c].entry IN
                        /\ call[c].at = "leased"
                              \/ (call[c].at = "waiting" /\ cache.entry[e].state = "ready")
                           => e \in InMap /\ cache.entry[e].state = "ready" /\ owner[e] = "live"
                        /\ call[c].at = "parse" =>
                              /\ cache.blob[SourceOfCall(c)].refs > 0
                              /\ cache.blob[SourceOfCall(c)].data \in LoadSizes
        BY DEF InUseKept
    <2> DEFINE e == call[c].entry
               b == SourceOfCall(c)
    <2>1. /\ Sound(cache, {}) /\ OwnersSound(cache, owner, call)
          /\ Placed(cache, call[c]) /\ Formed(cache)
        BY <1>1, CallFields
    <2>2. b = cache.entry[e].source /\ InMap = FacesIn(cache) BY DEF SourceOfCall, InMap
    <2> HIDE DEF e, b
    <2>3. ASSUME call[c].at = "leased" \/ (call[c].at = "waiting" /\ cache.entry[e].state = "ready")
          PROVE  e \in FacesIn(cache) /\ cache.entry[e].state = "ready" /\ owner[e] = "live"
        <3>1. /\ e \in DOMAIN cache.entry /\ cache.entry[e].state = "ready"
              /\ call[c].at = "leased" => e \in FacesIn(cache)
            BY <2>1, <2>3 DEF Placed, e
        <3>2. e \in FacesIn(cache) BY <2>1, <3>1 DEF Formed
        <3>3. owner[e] = "live" BY <2>1, <3>1, <3>2 DEF OwnersSound
        <3> QED BY <3>1, <3>2, <3>3
    <2>4. ASSUME call[c].at = "parse"
          PROVE  cache.blob[b].refs > 0 /\ cache.blob[b].data \in LoadSizes
        <3>1. e \in FacesIn(cache) /\ cache.blob[b].state = "ready"
            BY <2>1, <2>2, <2>4 DEF Placed, e
        <3>2. b \in Held(cache) BY <2>1, <2>2, <3>1, SourceHeld
        <3> QED BY <2>1, <3>1, <3>2 DEF Sound, Referred
    <2> QED BY <2>2, <2>3, <2>4 DEF e, b
<1> QED BY <1>1, FaceCacheSound, PTL

(* Goroutines that are at work have faces of their own, and those that load *)
(* have sources of their own.                                               *)
THEOREM LoadsOnce == Spec => []SingleFlight
<1>1. ASSUME IInv PROVE SingleFlight
    <2> DEFINE Working == {c \in At({"load", "fail", "waitSource", "parse"}) :
                              ~cache.blob[SourceOfCall(c)].failed}
               Key(x) == cache.entry[call[x].entry].key
    <2>1. /\ Sound(cache, {}) /\ CallsSound(cache, call) /\ Formed(cache)
        BY <1>1 DEF IInv, Sound
    <2>2. ASSUME NEW c \in Working
          PROVE  /\ c \in Callers /\ Works(call[c])
                 /\ call[c].entry \in FacesIn(cache)
                 /\ cache.entries[Key(c)] = call[c].entry
                 /\ cache.entry[call[c].entry].source = cache.sources[SourceOf[Key(c)]]
        <3>1. c \in Callers /\ Works(call[c]) BY DEF At, Works
        <3>2. Placed(cache, call[c]) BY <2>1, <3>1 DEF CallsSound
        <3>3. ~cache.blob[cache.entry[call[c].entry].source].failed BY DEF SourceOfCall
        <3>4. call[c].entry \in FacesIn(cache) BY <3>1, <3>2, <3>3 DEF Placed, Works
        <3> QED BY <2>1, <3>1, <3>4, FacesKeyed, SourceHeld
    <2>3. ASSUME NEW c \in Working, NEW d \in Working, c # d
          PROVE  /\ Key(c) # Key(d)
                 /\ {c, d} \subseteq At({"load", "fail"}) => SourceOf[Key(c)] # SourceOf[Key(d)]
        <3>0. /\ c \in Callers /\ d \in Callers /\ c # d
              /\ Works(call[c]) /\ Works(call[d])
            <4> HIDE DEF Working, Key
            <4> QED BY <2>2, <2>3
        <3>1. c \in Callers /\ d \in Callers /\ call[c].entry # call[d].entry
            <4> HIDE DEF Working, Key
            <4> QED BY <2>1, <3>0, Apart
        <3>2. {c, d} \subseteq At({"load", "fail"}) =>
                 cache.entry[call[c].entry].source # cache.entry[call[d].entry].source
            BY <2>1, <2>3, <3>1, Apart DEF At, Loads
        <3> HIDE DEF Working, Key
        <3> QED BY <2>2, <3>1, <3>2
    <2> QED BY <2>3 DEF SingleFlight
<1> QED BY <1>1, FaceCacheSound, PTL

(* The bytes, references, pins and owners are accounted for, and the limits *)
(* hold, in every state that Acquire, Close and failures lead to.           *)
THEOREM MemoryAccounted == Spec => []FacesAccounted
<1>1. ASSUME IInv PROVE PinsAndBytes
    <2> DEFINE held == {cache.sources[s] : s \in DOMAIN cache.sources}
    <2>1. /\ Sound(cache, {}) /\ CallsSound(cache, call) /\ Formed(cache)
          /\ Referred(cache, {}) /\ Charged(cache)
        BY <1>1 DEF IInv, Sound
    <2>2. held = Held(cache) /\ InMap = FacesIn(cache) BY DEF Held, InMap
    <2> HIDE DEF held
    <2>3. \A e \in InMap : cache.entry[e].source \in held BY <2>1, <2>2, SourceHeld
    <2>4. cache.bytes = Bytes(cache, held) /\ cache.bytes <= MaxBytes BY <2>1, <2>2 DEF Charged
    <2>5. ASSUME NEW b \in held
          PROVE  /\ cache.blob[b].refs > 0
                 /\ cache.blob[b].refs = Cardinality({e \in InMap : cache.entry[e].source = b})
        <3>1. {e \in InMap : cache.entry[e].source = b} = Holders(cache, b)
            BY <2>2 DEF Holders
        <3>2. Holders(cache, b) \in SUBSET FacesIn(cache) BY DEF Holders
        <3>3. Cardinality(Holders(cache, b)) \in Nat
            BY <2>1, <3>2, FacesKeyed, FS_Subset, FS_CardinalityType
        <3>4. /\ cache.blob[b].refs = Cardinality(Holders(cache, b)) + (IF b \in {} THEN 1 ELSE 0)
              /\ cache.blob[b].refs > 0
            BY <2>1, <2>2 DEF Referred
        <3>5. cache.blob[b].refs = Cardinality(Holders(cache, b)) BY <3>3, <3>4
        <3> QED BY <3>1, <3>4, <3>5, Zenon
    <2>6. Cardinality(InMap) <= MaxFaces
        <3>1. /\ Cardinality(FacesIn(cache)) <= Cardinality(DOMAIN cache.entries)
              /\ Cardinality(DOMAIN cache.entries) \in Nat
              /\ Cardinality(FacesIn(cache)) \in Nat
            BY <2>1, FacesKeyed, FS_CardinalityType
        <3>2. Cardinality(DOMAIN cache.entries) <= MaxFaces BY <2>1 DEF Charged
        <3> QED BY <2>2, <3>1, <3>2, Constants
    <2>7. ASSUME NEW e \in InMap
          PROVE  IF cache.entry[e].state = "ready"
                 THEN cache.entry[e].pins = Users(e, {"leased", "waiting"})
                 ELSE cache.entry[e].waiters = Users(e, {"waiting"})
        <3>1. Cardinality(UsersOf(call, e)) =
                IF cache.entry[e].state = "ready" THEN cache.entry[e].pins
                ELSE cache.entry[e].waiters
            BY <2>1, <2>2 DEF CallsSound, Pinned
        <3>2. {c \in At({"leased", "waiting"}) : call[c].entry = e} = UsersOf(call, e)
            BY DEF At, UsersOf
        <3>3. CASE cache.entry[e].state = "ready" BY <3>1, <3>2, <3>3 DEF Users
        <3>4. CASE cache.entry[e].state # "ready"
            <4>1. \A c \in Callers : call[c].at = "leased" => call[c].entry # e
                BY <2>1, <3>4 DEF CallsSound, Placed
            <4>2. {c \in At({"waiting"}) : call[c].entry = e} = UsersOf(call, e)
                BY <4>1 DEF At, UsersOf
            <4> QED BY <3>1, <3>4, <4>2 DEF Users
        <3> QED BY <3>3, <3>4
    <2> QED BY <2>3, <2>4, <2>5, <2>6, <2>7 DEF PinsAndBytes, held
<1>2. ASSUME IInv PROVE FacesClosed
    BY <1>2 DEF IInv, OwnersSound, FacesClosed, InMap
<1>3. IInv => FacesAccounted BY <1>1, <1>2 DEF FacesAccounted
<1> QED BY <1>3, FaceCacheSound, PTL
============================================================================
