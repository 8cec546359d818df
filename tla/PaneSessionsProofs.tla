------------------------- MODULE PaneSessionsProofs -------------------------
(***************************************************************************)
(* For any number of pane objects, pane IDs, chunks and queued records:    *)
(*                                                                         *)
(*   - a terminal shows its own program's chunks, in order and without a   *)
(*     gap (OutputInOrder);                                                *)
(*   - every open session has an owner that will close it, or belongs to a *)
(*     stranded pane that keeps its ID, and the ID of a closed pane is     *)
(*     retired (SessionsKept);                                             *)
(*   - PaneSessions implements PaneStreams (Implements).                   *)
(*                                                                         *)
(* The properties are not inductive.  IInv adds two accounts.  Owning is   *)
(* about the registry: registered under its own ID, published or kept for  *)
(* a restore, a rollback or as stranded, the published numbered below the  *)
(* allocator and the stranded not (Stranding); Accounted states            *)
(* it for any panes and registry, so that it can be followed through the   *)
(* middle of an operation that creates panes and rolls them back.  Flow is *)
(* about one pane that is not closed: it is registered, and the channel    *)
(* holds exactly the chunks its reader sent and its terminal has not       *)
(* shown, in order, and after them the end.  Reading says what a reader's  *)
(* position implies.                                                       *)
(*                                                                         *)
(* The owner's operations share one shape, Steady: they leave channel and  *)
(* terminals alone, never reopen a pane, launch only readers not launched  *)
(* yet, and every pane left open with a reader stays registered.  Draining *)
(* and the readers' steps are followed one by one.                         *)
(***************************************************************************)
EXTENDS PaneSessions, TLAPS

PaneRecord == [id : Nat,
               state : {"unused", "starting", "running", "failed", "exited", "closed"},
               session : {"none", "open", "closed"}]
ReaderRecord == [at : {"none", "reading", "data", "end", "ended"}, read : Nat, last : BOOLEAN]
Ingress == [pane : Nat, owner : Objects, chunk : Nat]

Holds(q, r, p) == q[p].id \in DOMAIN r /\ r[q[p].id] = p

(* The panes q, registered in r, against the published IDs: an open session *)
(* is registered or among the unregistered, and what is registered is       *)
(* published or among the kept, never both.                                 *)
Accounted(q, r, unregistered, kept, published, booted) ==
    /\ \A id \in DOMAIN r : /\ r[id] \in Objects
                            /\ q[r[id]].id = id
                            /\ q[r[id]].state # "unused"
    /\ \A p \in Objects : q[p].session = "open" => Holds(q, r, p) \/ p \in unregistered
    /\ booted => published \subseteq DOMAIN r
    /\ \A id \in DOMAIN r : (booted /\ id \in published) \/ r[id] \in kept
    /\ \A p \in kept : /\ q[p].state # "unused"
                       /\ Holds(q, r, p) => q[p].id \notin published

LEMMA RolledBack ==
    ASSUME NEW q \in [Objects -> PaneRecord], NEW r, NEW P \in SUBSET Objects,
           NEW published, NEW booted \in BOOLEAN,
           Accounted(q, r, P, P, published, booted),
           NEW freed \in SUBSET P,
           \A p \in freed : q[p].id \in DOMAIN r => r[q[p].id] = p
    PROVE  /\ Accounted(CloseAll(q, freed), Deregistered(r, freed), P \ freed, P \ freed,
                        published, booted)
           /\ \A p \in Objects \ freed :
                Holds(q, r, p) => Holds(CloseAll(q, freed), Deregistered(r, freed), p)
<1> DEFINE q2 == CloseAll(q, freed)
           r2 == Deregistered(r, freed)
<1>1. \A p \in Objects :
        /\ q2[p].id = q[p].id
        /\ p \notin freed => q2[p] = q[p]
        /\ p \in freed => q2[p].session # "open" /\ q2[p].state = "closed"
    BY DEF CloseAll, PaneRecord
<1>2. /\ DOMAIN r2 = {id \in DOMAIN r : r[id] \notin freed}
      /\ \A id \in DOMAIN r2 : r2[id] = r[id]
    BY DEF Deregistered
<1> HIDE DEF q2, r2
<1>3. \A id \in DOMAIN r2 : /\ r2[id] \in Objects
                            /\ q2[r2[id]].id = id
                            /\ q2[r2[id]].state # "unused"
    BY <1>1, <1>2 DEF Accounted
<1>4. \A p \in Objects : q2[p].session = "open" => Holds(q2, r2, p) \/ p \in P \ freed
    BY <1>1, <1>2 DEF Accounted, Holds
<1>5. booted => published \subseteq DOMAIN r2
    <2> SUFFICES ASSUME booted, NEW id \in published PROVE id \in DOMAIN r2
        OBVIOUS
    <2>1. id \in DOMAIN r BY DEF Accounted
    <2>2. r[id] \notin P BY <2>1 DEF Accounted, Holds
    <2> QED BY <1>2, <2>1, <2>2
<1>6. \A id \in DOMAIN r2 : (booted /\ id \in published) \/ r2[id] \in P \ freed
    BY <1>2 DEF Accounted
<1>7. \A p \in P \ freed : /\ q2[p].state # "unused"
                           /\ Holds(q2, r2, p) => q2[p].id \notin published
    BY <1>1, <1>2 DEF Accounted, Holds
<1>8. \A p \in Objects \ freed : Holds(q, r, p) => Holds(q2, r2, p)
    BY <1>1, <1>2 DEF Holds
<1> QED BY <1>3, <1>4, <1>5, <1>6, <1>7, <1>8 DEF Accounted, q2, r2

LEMMA PublishedClosed ==
    ASSUME NEW q \in [Objects -> PaneRecord], NEW r, NEW kept \in SUBSET Objects,
           NEW unregistered, NEW published, NEW booted \in BOOLEAN,
           Accounted(q, r, unregistered, kept, published, booted),
           NEW S \in SUBSET (published \cap DOMAIN r), NEW P, P = {r[i] : i \in S}
    PROVE  /\ Accounted(CloseAll(q, P), Deregistered(r, P), unregistered, kept,
                        published \ S, booted)
           /\ \A p \in Objects \ P :
                Holds(q, r, p) => Holds(CloseAll(q, P), Deregistered(r, P), p)
<1> DEFINE q2 == CloseAll(q, P)
           r2 == Deregistered(r, P)
<1>1. \A p \in Objects :
        /\ q2[p].id = q[p].id
        /\ p \notin P => q2[p] = q[p]
        /\ p \in P => q2[p].session # "open" /\ q2[p].state = "closed"
    BY DEF CloseAll, PaneRecord
<1>2. /\ DOMAIN r2 = {id \in DOMAIN r : r[id] \notin P}
      /\ \A id \in DOMAIN r2 : r2[id] = r[id]
    BY DEF Deregistered
<1>3. \A id \in DOMAIN r : r[id] \in P <=> id \in S BY DEF Accounted
<1>4. \A p \in P : p \in Objects BY DEF Accounted
<1> HIDE DEF q2, r2
<1>5. \A id \in DOMAIN r2 : /\ r2[id] \in Objects
                            /\ q2[r2[id]].id = id
                            /\ q2[r2[id]].state # "unused"
    BY <1>1, <1>2 DEF Accounted
<1>6. \A p \in Objects : q2[p].session = "open" => Holds(q2, r2, p) \/ p \in unregistered
    BY <1>1, <1>2 DEF Accounted, Holds
<1>7. booted => published \ S \subseteq DOMAIN r2
    BY <1>2, <1>3 DEF Accounted
<1>8. \A id \in DOMAIN r2 : (booted /\ id \in published \ S) \/ r2[id] \in kept
    BY <1>2, <1>3 DEF Accounted
<1>9. \A p \in kept : /\ q2[p].state # "unused"
                      /\ Holds(q2, r2, p) => q2[p].id \notin published \ S
    BY <1>1, <1>2 DEF Accounted, Holds
<1>10. Accounted(q2, r2, unregistered, kept, published \ S, booted)
    BY <1>5, <1>6, <1>7, <1>8, <1>9 DEF Accounted
<1>11. \A p \in Objects \ P : Holds(q, r, p) => Holds(q2, r2, p)
    BY <1>1, <1>2 DEF Holds
<1> QED BY <1>10, <1>11 DEF q2, r2

(* A fresh object that gets an ID nobody has: it is published, or kept,     *)
(* registered or not, or closed at once.                                   *)
LEMMA HoldersKept ==
    ASSUME NEW q \in [Objects -> PaneRecord], NEW r,
           NEW p \in Objects, q[p].state = "unused",
           \A i \in DOMAIN r : q[r[i]].state # "unused",
           NEW id \in Nat, id \notin DOMAIN r,
           NEW state \in {"starting", "running", "failed", "exited", "closed"},
           NEW session \in {"none", "open", "closed"}
    PROVE  /\ Holds(Created(q, p, id, state, session), Registered(r, id, p), p)
           /\ ~Holds(Created(q, p, id, state, session), r, p)
           /\ \A x \in Objects : x # p /\ Holds(q, r, x) =>
                /\ Holds(Created(q, p, id, state, session), Registered(r, id, p), x)
                /\ Holds(Created(q, p, id, state, session), r, x)
           /\ \A x \in Objects : x # p =>
                /\ Holds(Created(q, p, id, state, session), Registered(r, id, p), x)
                     => Holds(q, r, x)
                /\ Holds(Created(q, p, id, state, session), r, x) => Holds(q, r, x)
<1> DEFINE q2 == Created(q, p, id, state, session)
           r2 == Registered(r, id, p)
<1>1. /\ q2[p].id = id /\ \A x \in Objects : x # p => q2[x] = q[x]
    BY DEF Created, PaneRecord
<1>2. /\ DOMAIN r2 = DOMAIN r \cup {id} /\ r2[id] = p
      /\ \A i \in DOMAIN r : r2[i] = r[i]
    BY DEF Registered
<1>3. \A i \in DOMAIN r : r[i] # p OBVIOUS
<1> HIDE DEF q2, r2
<1>4. Holds(q2, r2, p) /\ ~Holds(q2, r, p) BY <1>1, <1>2 DEF Holds
<1>5. \A x \in Objects : x # p =>
        /\ Holds(q, r, x) => Holds(q2, r2, x) /\ Holds(q2, r, x)
        /\ Holds(q2, r2, x) => Holds(q, r, x)
        /\ Holds(q2, r, x) => Holds(q, r, x)
    BY <1>1, <1>2, <1>3 DEF Holds
<1> QED BY <1>4, <1>5 DEF q2, r2

LEMMA PaneCreated ==
    ASSUME NEW q \in [Objects -> PaneRecord], NEW r, NEW kept \in SUBSET Objects,
           NEW unregistered \in SUBSET kept, NEW published, NEW booted \in BOOLEAN,
           Accounted(q, r, unregistered, kept, published, booted),
           NEW p \in Objects, q[p].state = "unused",
           NEW id \in Nat, id \notin DOMAIN r, id \notin published,
           NEW state \in {"starting", "running", "failed", "exited", "closed"},
           NEW session \in {"none", "open", "closed"}
    PROVE  /\ booted =>
                Accounted(Created(q, p, id, state, session), Registered(r, id, p),
                          unregistered, kept, published \cup {id}, booted)
           /\ session # "open" =>
                Accounted(Created(q, p, id, state, session), r, unregistered, kept,
                          published, booted)
<1> DEFINE q2 == Created(q, p, id, state, session)
           r2 == Registered(r, id, p)
<1>1. /\ q2[p].id = id /\ q2[p].state # "unused" /\ q2[p].session = session
      /\ \A x \in Objects : x # p => q2[x] = q[x]
    BY DEF Created, PaneRecord
<1>2. /\ DOMAIN r2 = DOMAIN r \cup {id} /\ r2[id] = p
      /\ \A i \in DOMAIN r : r2[i] = r[i]
    BY DEF Registered
<1>3. p \notin kept /\ \A i \in DOMAIN r : r[i] # p BY DEF Accounted
<1>7. Holds(q2, r2, p) /\ ~Holds(q2, r, p) BY <1>1, <1>2, <1>3 DEF Holds
<1>6. \A x \in Objects : x # p =>
        /\ Holds(q, r, x) => Holds(q2, r2, x) /\ Holds(q2, r, x)
        /\ Holds(q2, r2, x) => Holds(q, r, x)
        /\ Holds(q2, r, x) => Holds(q, r, x)
    BY HoldersKept DEF Accounted
<1> HIDE DEF q2, r2
<1>4. /\ \A i \in DOMAIN r : q2[r[i]] = q[r[i]]
      /\ \A x \in kept : q2[x] = q[x]
    BY <1>1, <1>3 DEF Accounted
<1>5. \A i \in DOMAIN r2 : /\ r2[i] \in Objects
                           /\ q2[r2[i]].id = i
                           /\ q2[r2[i]].state # "unused"
    BY <1>1, <1>2, <1>4 DEF Accounted
<1>8. booted => Accounted(q2, r2, unregistered, kept, published \cup {id}, booted)
    <2> HAVE booted
    <2>1. \A x \in Objects : q2[x].session = "open" => Holds(q2, r2, x) \/ x \in unregistered
        BY <1>1, <1>6, <1>7 DEF Accounted
    <2>2. \A x \in kept : /\ q2[x].state # "unused"
                          /\ Holds(q2, r2, x) => q2[x].id \notin published \cup {id}
        BY <1>2, <1>3, <1>4, <1>6 DEF Accounted, Holds
    <2> QED BY <1>2, <1>5, <2>1, <2>2 DEF Accounted
<1>11. session # "open" => Accounted(q2, r, unregistered, kept, published, booted)
    <2> HAVE session # "open"
    <2>1. \A x \in Objects : q2[x].session = "open" => Holds(q2, r, x) \/ x \in unregistered
        BY <1>1, <1>6 DEF Accounted
    <2>2. \A x \in kept : /\ q2[x].state # "unused"
                          /\ Holds(q2, r, x) => q2[x].id \notin published
        BY <1>3, <1>4, <1>6 DEF Accounted
    <2> QED BY <1>4, <2>1, <2>2 DEF Accounted
<1> QED BY <1>8, <1>11 DEF q2, r2

LEMMA PaneKept ==
    ASSUME NEW q \in [Objects -> PaneRecord], NEW r, NEW kept \in SUBSET Objects,
           NEW published, NEW booted \in BOOLEAN,
           Accounted(q, r, kept, kept, published, booted),
           NEW p \in Objects, q[p].state = "unused",
           NEW id \in Nat, id \notin DOMAIN r, id \notin published,
           NEW state \in {"starting", "running", "failed", "exited", "closed"},
           NEW session \in {"none", "open", "closed"}
    PROVE  /\ Accounted(Created(q, p, id, state, session), Registered(r, id, p),
                        {p} \cup kept, {p} \cup kept, published, booted)
           /\ Accounted(Created(q, p, id, state, session), r, {p} \cup kept,
                        {p} \cup kept, published, booted)
<1> DEFINE q2 == Created(q, p, id, state, session)
           r2 == Registered(r, id, p)
<1>1. /\ q2[p].id = id /\ q2[p].state # "unused" /\ q2[p].session = session
      /\ \A x \in Objects : x # p => q2[x] = q[x]
    BY DEF Created, PaneRecord
<1>2. /\ DOMAIN r2 = DOMAIN r \cup {id} /\ r2[id] = p
      /\ \A i \in DOMAIN r : r2[i] = r[i]
    BY DEF Registered
<1>3. p \notin kept /\ \A i \in DOMAIN r : r[i] # p BY DEF Accounted
<1>4. \A x \in Objects : x # p =>
        /\ Holds(q, r, x) => Holds(q2, r2, x) /\ Holds(q2, r, x)
        /\ Holds(q2, r2, x) => Holds(q, r, x)
        /\ Holds(q2, r, x) => Holds(q, r, x)
    BY HoldersKept DEF Accounted
<1> HIDE DEF q2, r2
<1>6. \A i \in DOMAIN r : /\ r[i] \in Objects /\ q2[r[i]] = q[r[i]]
                          /\ q2[r[i]].id = i /\ q2[r[i]].state # "unused"
    BY <1>1, <1>3 DEF Accounted
<1>7. \A x \in Objects : q2[x].session = "open" =>
        /\ Holds(q2, r2, x) \/ x \in {p} \cup kept
        /\ Holds(q2, r, x) \/ x \in {p} \cup kept
    BY <1>1, <1>4 DEF Accounted
<1>8. /\ booted => published \subseteq DOMAIN r /\ published \subseteq DOMAIN r2
      /\ \A i \in DOMAIN r : (booted /\ i \in published) \/ r[i] \in {p} \cup kept
    BY <1>2 DEF Accounted
<1>5. \A x \in {p} \cup kept : /\ q2[x].state # "unused"
                               /\ Holds(q2, r2, x) => q2[x].id \notin published
                               /\ Holds(q2, r, x) => q2[x].id \notin published
    <2>1. ASSUME NEW x \in kept
          PROVE  /\ q2[x].state # "unused"
                 /\ Holds(q2, r2, x) => q2[x].id \notin published
                 /\ Holds(q2, r, x) => q2[x].id \notin published
        BY <1>1, <1>3, <1>4 DEF Accounted
    <2> QED BY <1>1, <2>1
<1>9. \A i \in DOMAIN r2 : /\ r2[i] \in Objects
                           /\ q2[r2[i]].id = i
                           /\ q2[r2[i]].state # "unused"
    BY <1>1, <1>2, <1>6
<1>10. Accounted(q2, r2, {p} \cup kept, {p} \cup kept, published, booted)
    <2>1. \A i \in DOMAIN r2 : (booted /\ i \in published) \/ r2[i] \in {p} \cup kept
        BY <1>2, <1>8
    <2> QED BY <1>5, <1>7, <1>8, <1>9, <2>1 DEF Accounted
<1>11. Accounted(q2, r, {p} \cup kept, {p} \cup kept, published, booted)
    BY <1>5, <1>6, <1>7, <1>8 DEF Accounted
<1> QED BY <1>10, <1>11 DEF q2, r2

LEMMA Shapes ==
    ASSUME NEW q \in [Objects -> PaneRecord], NEW r, r \in [DOMAIN r -> Objects],
           DOMAIN r \subseteq Nat, NEW P
    PROVE  /\ CloseAll(q, P) \in [Objects -> PaneRecord]
           /\ Deregistered(r, P) \in [DOMAIN Deregistered(r, P) -> Objects]
           /\ DOMAIN Deregistered(r, P) \subseteq Nat
<1>1. ASSUME NEW p \in Objects, p \in P PROVE CloseAll(q, P)[p] \in PaneRecord
    BY <1>1 DEF CloseAll, PaneRecord
<1>2. ASSUME NEW p \in Objects, p \notin P PROVE CloseAll(q, P)[p] \in PaneRecord
    BY <1>2 DEF CloseAll
<1>3. CloseAll(q, P) = [p \in Objects |-> CloseAll(q, P)[p]] BY DEF CloseAll
<1>4. CloseAll(q, P) \in [Objects -> PaneRecord] BY <1>1, <1>2, <1>3
<1> QED BY <1>4 DEF Deregistered
-----------------------------------------------------------------------------
Sent(p) == IF reader[p].at = "data" THEN reader[p].read - 1 ELSE reader[p].read

Data(p, i) == i \in DOMAIN incoming /\ incoming[i].owner = p /\ incoming[i].chunk > 0

Typed ==
    /\ pane \in [Objects -> PaneRecord]
    /\ panes \in [DOMAIN panes -> Objects] /\ DOMAIN panes \subseteq Nat
    /\ closed \subseteq Nat /\ live \subseteq Nat /\ nextPane \in Nat \ {0}
    /\ reader \in [Objects -> ReaderRecord]
    /\ incoming \in Seq(Ingress) /\ terminal \in [Objects -> Seq(Ingress)]
    /\ pending \in Seq(Objects) /\ rollback \subseteq Objects
    /\ stranded \subseteq Objects
    /\ bootstrapped \in BOOLEAN
    /\ owner \in {"open", "closing", "closed"}

Numbered ==
    /\ live \subseteq 1..nextPane - 1
    /\ \A id \in closed : id < nextPane
    /\ closed \cap (DOMAIN panes \cup live) = {}
    /\ ~bootstrapped => live = {1} /\ nextPane = 2 /\ closed = {} /\ 1 \notin DOMAIN panes

Restoring ==
    pending # << >> =>
        /\ rollback = {} /\ ~bootstrapped
        /\ \A i \in DOMAIN pending :
              pane[pending[i]].id = nextPane + i - 1 /\ reader[pending[i]].at = "none"

Stranding ==
    /\ rollback \cap stranded = {}
    /\ \A p \in stranded : /\ pane[p].state # "unused" /\ nextPane <= pane[p].id
                           /\ Holds(pane, panes, p) \/ pane[p].id \in reserved
    /\ ~bootstrapped => stranded = {}

Unpublished == rollback \cup Range(pending) \cup stranded

Owning ==
    IF owner = "open"
    THEN /\ Accounted(pane, panes, rollback \cup stranded, Unpublished, live, bootstrapped)
         /\ Numbered /\ Restoring /\ Stranding
    ELSE \A p \in Objects : pane[p].session = "open" =>
            p \in stranded /\ pane[p].id \in reserved

ReaderKept(p) ==
    /\ reader[p].at = "none" => reader[p].read = 0 /\ terminal[p] = << >>
    /\ reader[p].at \in {"none", "reading"} => ~reader[p].last
    /\ reader[p].at = "end" => reader[p].last
    /\ reader[p].at = "data" => reader[p].read > 0
    /\ pane[p].state = "unused" => reader[p].at = "none"
    /\ pane[p].state = "exited" => reader[p].at = "ended" /\ Len(terminal[p]) = reader[p].read
    /\ owner = "closed" => ~ReaderAlive(p)

Carried(i) ==
    LET p == incoming[i].owner
    IN  /\ reader[p].at # "none" /\ incoming[i].pane = pane[p].id
        /\ incoming[i].chunk = 0 => reader[p].at = "ended" /\ reader[p].last

Reading ==
    /\ \A p \in Objects : ReaderKept(p)
    /\ \A i \in DOMAIN incoming : Carried(i)

Flow(p) ==
    /\ reader[p].at # "none" => Holds(pane, panes, p)
    /\ Len(terminal[p]) <= Sent(p)
    /\ \A i \in DOMAIN incoming : Data(p, i) =>
          /\ incoming[i].chunk > Len(terminal[p]) /\ incoming[i].chunk <= Sent(p)
          /\ \A j \in DOMAIN incoming :
                /\ Data(p, j) /\ i < j => incoming[i].chunk < incoming[j].chunk
                /\ incoming[j].owner = p /\ incoming[j].chunk = 0 => i < j
    /\ \A n \in Nat : Len(terminal[p]) < n /\ n <= Sent(p) =>
          \E i \in DOMAIN incoming : Data(p, i) /\ incoming[i].chunk = n

Flowing == owner = "open" => \A p \in Objects : pane[p].state # "closed" => Flow(p)

IInv == Typed /\ Owning /\ Reading /\ Flowing /\ OwnOutputInOrder
-----------------------------------------------------------------------------
LEMMA LaunchedIs ==
    ASSUME NEW P
    PROVE  /\ Launched(P) = [p \in Objects |-> Launched(P)[p]]
           /\ \A p \in Objects : p \in P =>
                Launched(P)[p] = [at |-> "reading", read |-> 0, last |-> FALSE]
           /\ \A p \in Objects : p \notin P => Launched(P)[p] = reader[p]
           /\ reader \in [Objects -> ReaderRecord] =>
                Launched(P) \in [Objects -> ReaderRecord]
<1>1. Launched(P) = [p \in Objects |-> Launched(P)[p]] BY DEF Launched
<1>2. \A p \in Objects : p \in P =>
        Launched(P)[p] = [at |-> "reading", read |-> 0, last |-> FALSE]
    BY DEF Launched, Idle
<1>3. \A p \in Objects : p \notin P => Launched(P)[p] = reader[p] BY DEF Launched
<1>4. [at |-> "reading", read |-> 0, last |-> FALSE] \in ReaderRecord BY DEF ReaderRecord
<1>5. reader \in [Objects -> ReaderRecord] => \A p \in Objects : Launched(P)[p] \in ReaderRecord
    BY <1>2, <1>3, <1>4
<1>6. reader \in [Objects -> ReaderRecord] => Launched(P) \in [Objects -> ReaderRecord]
    BY <1>1, <1>5
<1> QED BY <1>1, <1>2, <1>3, <1>6

(* What the owner does to the panes, other than draining.                  *)
Advances(p) ==
    /\ pane[p].state = "closed" => pane'[p].state = "closed"
    /\ pane[p].state = "exited" => pane'[p].state \in {"exited", "closed"}
    /\ pane[p].state # "exited" => pane'[p].state # "exited"
    /\ pane[p].state # "unused" => pane'[p].state # "unused" /\ pane'[p].id = pane[p].id

Starts(p) ==
    \/ reader'[p] = reader[p]
    \/ /\ reader[p].at = "none" /\ reader'[p] = [at |-> "reading", read |-> 0, last |-> FALSE]
       /\ pane'[p].state # "unused" /\ owner' = "open"

Steady ==
    /\ UNCHANGED << incoming, terminal >>
    /\ owner' # owner => owner = "open" /\ owner' = "closing"
    /\ \A p \in Objects :
          /\ Advances(p) /\ Starts(p)
          /\ owner' = "open" /\ reader'[p].at # "none" /\ pane'[p].state # "closed" =>
                Holds(pane', panes', p)

LEMMA SteadyReads == ASSUME IInv, Typed', Steady PROVE Reading'
<1> USE DEF IInv, Typed
<1>1. ASSUME NEW p \in Objects
      PROVE  ReaderKept(p)'
    <2>1. terminal' = terminal BY DEF Steady
    <2>2. CASE reader'[p] = reader[p]
        <3>1. owner' = "closed" => owner = "closed" BY DEF Steady
        <3> QED BY ZenonT(30), <2>1, <2>2, <3>1
                   DEF Reading, ReaderKept, Steady, Advances, ReaderAlive
    <2>3. CASE /\ reader[p].at = "none" /\ pane'[p].state # "unused"
               /\ reader'[p] = [at |-> "reading", read |-> 0, last |-> FALSE]
               /\ owner' = "open"
        <3>1. pane'[p].state # "exited" BY <2>3 DEF Reading, ReaderKept, Steady, Advances
        <3> QED BY <2>1, <2>3, <3>1 DEF Reading, ReaderKept
    <2> QED BY <2>2, <2>3 DEF Steady, Starts
<1>2. ASSUME NEW i \in DOMAIN incoming'
      PROVE  Carried(i)'
    <2>1. incoming' = incoming /\ i \in DOMAIN incoming /\ incoming[i] \in Ingress
        BY DEF Steady
    <2> DEFINE p == incoming[i].owner
    <2>2. p \in Objects BY <2>1 DEF Ingress
    <2>3. reader[p].at # "none" /\ pane[p].state # "unused"
        BY <2>1, <2>2 DEF Reading, ReaderKept, Carried
    <2>4. reader'[p] = reader[p] /\ pane'[p].id = pane[p].id
        BY <2>2, <2>3 DEF Steady, Starts, Advances
    <2> QED BY <2>1, <2>4 DEF Reading, Carried
<1> QED BY <1>1, <1>2 DEF Reading, Carried

LEMMA SteadyFlows == ASSUME IInv, Typed', Steady PROVE Flowing' /\ OwnOutputInOrder'
<1> USE DEF IInv, Typed
<1>1. UNCHANGED << incoming, terminal >> BY DEF Steady
<1>2. OwnOutputInOrder' BY <1>1 DEF OwnOutputInOrder
<1>3. ASSUME owner' = "open", NEW p \in Objects, pane'[p].state # "closed"
      PROVE  Flow(p)'
    <2>1. Flow(p) BY <1>3 DEF Flowing, Steady, Advances
    <2>2. reader'[p].at # "none" => Holds(pane', panes', p) BY <1>3 DEF Steady
    <2>3. CASE reader'[p] = reader[p]
        <3>1. Sent(p)' = Sent(p) BY <2>3 DEF Sent
        <3>2. \A i : Data(p, i)' <=> Data(p, i) BY <1>1 DEF Data
        <3> QED BY <1>1, <2>1, <2>2, <3>1, <3>2 DEF Flow, Holds
    <2>4. CASE /\ reader[p].at = "none"
               /\ reader'[p] = [at |-> "reading", read |-> 0, last |-> FALSE]
        <3>1. terminal'[p] = << >> BY <1>1, <2>4 DEF Reading, ReaderKept
        <3>2. Sent(p)' = 0 BY <2>4 DEF Sent
        <3>3. \A i : ~Data(p, i)' BY <1>1, <2>4 DEF Data, Reading, Carried
        <3> QED BY <2>2, <3>1, <3>2, <3>3 DEF Flow, Holds
    <2> QED BY <2>3, <2>4 DEF Steady, Starts
<1> QED BY <1>2, <1>3 DEF Flowing

(* A step of the abstract specification, or a stutter of it.               *)
StreamsStep == [Streams!Next]_(Streams!vars)

LEMMA Pointwise ==
    ASSUME NEW S, NEW f, NEW g, NEW p \in S, NEW v,
           f = [x \in S |-> f[x]], g = [x \in S |-> g[x]],
           \A x \in S : x # p => g[x] = f[x], g[p] = v
    PROVE  g = [f EXCEPT ![p] = v]
OBVIOUS

LEMMA SteadyStreams == ASSUME IInv, Typed', Steady PROVE StreamsStep
<1> DEFINE Phase(q, p) == CASE q[p].state = "closed" -> "gone"
                           [] q[p].state = "exited" -> "exited"
                           [] OTHER -> "open"
           Gone == {p \in Objects : pane[p].state # "closed" /\ pane'[p].state = "closed"}
           before == [p \in Objects |-> Phase(pane, p)]
           after == [p \in Objects |-> Phase(pane', p)]
<1>1. [p \in Objects |-> reader'[p].read] = [p \in Objects |-> reader[p].read]
    <2>1. \A p \in Objects : reader'[p].read = reader[p].read
        BY DEF Steady, Starts, IInv, Reading, ReaderKept
    <2> QED BY <2>1
<1>2. [p \in Objects |-> reader'[p].last] = [p \in Objects |-> reader[p].last]
    <2>1. ASSUME NEW p \in Objects PROVE reader'[p].last = reader[p].last
        <3>1. CASE reader'[p] = reader[p] BY <3>1
        <3>2. CASE /\ reader[p].at = "none"
                   /\ reader'[p] = [at |-> "reading", read |-> 0, last |-> FALSE]
            <4>1. reader[p].last \in BOOLEAN BY DEF IInv, Typed, ReaderRecord
            <4>2. ~reader[p].last BY <3>2 DEF IInv, Reading, ReaderKept
            <4>3. reader[p].last = FALSE BY <4>1, <4>2, Zenon
            <4>4. reader'[p].last = FALSE BY <3>2
            <4> QED BY <4>3, <4>4, Zenon
        <3> QED BY <3>1, <3>2 DEF Steady, Starts
    <2> QED BY <2>1
<1>3. [p \in Objects |-> Len(terminal'[p])] = [p \in Objects |-> Len(terminal[p])]
    BY DEF Steady
<1>4. after = [p \in Objects |-> IF p \in Gone THEN "gone" ELSE before[p]]
    <2>1. ASSUME NEW p \in Objects
          PROVE  Phase(pane', p) = IF p \in Gone THEN "gone" ELSE Phase(pane, p)
        BY DEF Steady, Advances
    <2> QED BY <2>1
<1>5. \A p \in Gone : before[p] # "gone" OBVIOUS
<1>6. CASE Gone = {}
    <2>1. after = before BY <1>4, <1>6
    <2> QED BY <1>1, <1>2, <1>3, <2>1 DEF StreamsStep, Streams!vars
<1>7. CASE Gone # {}
    <2>1. \E P \in SUBSET Objects : Streams!Close(P)
        <3>1. Gone \in SUBSET Objects OBVIOUS
        <3>2. Streams!Close(Gone)
            BY <1>1, <1>2, <1>3, <1>4, <1>5, <1>7 DEF Streams!Close
        <3> QED BY <3>1, <3>2 DEF Streams!Close
    <2>3. Streams!Next BY <2>1 DEF Streams!Next
    <2> QED BY <2>3 DEF StreamsStep
<1> QED BY <1>6, <1>7
-----------------------------------------------------------------------------
(* The owner's operations, one by one.                                     *)
OwnerOp == Typed' /\ Owning' /\ Steady

LEMMA NothingPending ==
    ASSUME IInv, owner = "open", pending = << >>
    PROVE  /\ Accounted(pane, panes, rollback \cup stranded, rollback \cup stranded, live,
                        bootstrapped)
           /\ Numbered /\ Stranding
           /\ pending' = << >> => Unpublished' = rollback' \cup stranded'
<1>1. Unpublished = rollback \cup stranded BY DEF Unpublished, Range
<1>2. pending' = << >> => Unpublished' = rollback' \cup stranded' BY DEF Unpublished, Range
<1> QED BY <1>1, <1>2 DEF IInv, Owning

LEMMA RollBackKeeps ==
    ASSUME IInv, NEW q \in [Objects -> PaneRecord],
           NEW r, r \in [DOMAIN r -> Objects], DOMAIN r \subseteq Nat,
           NEW K \in SUBSET Objects, stranded \subseteq K, Stranding,
           Accounted(q, r, K, K, live, bootstrapped),
           NEW freed \in SUBSET (K \ stranded),
           \A p \in freed : q[p].id \in DOMAIN r => r[q[p].id] = p,
           pane' = CloseAll(q, freed), panes' = Deregistered(r, freed),
           rollback' = (K \ stranded) \ freed, pending' = << >>,
           \A p \in Objects : IF q[p] = pane[p] THEN Holds(pane, panes, p) => Holds(q, r, p)
                              ELSE p \in K /\ pane[p].state = "unused"
                                   /\ q[p].state \in {"starting", "running"},
           DOMAIN r \subseteq DOMAIN panes \cup {i \in Nat : i >= nextPane},
           bootstrapped \/ 1 \notin DOMAIN r,
           UNCHANGED << closed, streams, model, leftovers, owner >>, owner = "open"
    PROVE  OwnerOp
<1> USE DEF IInv, Typed
<1>a. UNCHANGED << closed, reader, incoming, terminal, live, nextPane, bootstrapped, owner >>
      /\ UNCHANGED << reserved, stranded >>
    BY DEF streams, model, leftovers
<1>b. /\ CloseAll(q, freed) \in [Objects -> PaneRecord]
      /\ Deregistered(r, freed) \in [DOMAIN Deregistered(r, freed) -> Objects]
      /\ DOMAIN Deregistered(r, freed) \subseteq Nat
    BY Shapes
<1>1. Typed' BY <1>a, <1>b
<1>c. /\ Accounted(CloseAll(q, freed), Deregistered(r, freed), K \ freed, K \ freed,
                   live, bootstrapped)
      /\ \A p \in Objects \ freed :
            Holds(q, r, p) => Holds(CloseAll(q, freed), Deregistered(r, freed), p)
    <2>1. bootstrapped \in BOOLEAN OBVIOUS
    <2>2. freed \in SUBSET K OBVIOUS
    <2> HIDE DEF IInv, Typed
    <2> QED BY ZenonT(60), <2>1, <2>2, RolledBack
<1>2. Accounted(pane', panes', rollback' \cup stranded', rollback' \cup stranded', live',
                bootstrapped')
    <2>1. K \ freed = rollback' \cup stranded' BY <1>a
    <2> HIDE DEF IInv, Typed
    <2> QED BY <1>a, <1>c, <2>1
<1>3. Numbered'
    <2>1. DOMAIN panes' \subseteq DOMAIN r BY DEF Deregistered
    <2>2. Numbered BY DEF Owning
    <2> QED BY <2>1, <2>2 DEF Numbered, model
<1>4. \A p \in Objects :
        /\ pane'[p].id = q[p].id
        /\ p \notin freed => pane'[p] = q[p]
        /\ p \in freed => pane'[p].state = "closed"
    BY DEF CloseAll, PaneRecord
<1>6. Stranding'
    <2>1. ASSUME NEW p \in stranded'
          PROVE  /\ pane'[p].state # "unused" /\ nextPane' <= pane'[p].id
                 /\ Holds(pane', panes', p) \/ pane'[p].id \in reserved'
        <3>1. p \in stranded /\ p \in Objects /\ p \notin freed BY <1>a, <2>1
        <3>2. pane'[p] = pane[p] /\ q[p] = pane[p] BY <1>4, <3>1 DEF Stranding
        <3>3. Holds(pane, panes, p) => Holds(pane', panes', p) BY <1>c, <3>1, <3>2
        <3> QED BY <1>a, <3>1, <3>2, <3>3 DEF Stranding
    <2> QED BY <1>a, <2>1 DEF Stranding
<1>7. Owning'
    <2>1. Unpublished' = rollback' \cup stranded' BY DEF Range, Unpublished
    <2> QED BY <1>2, <1>3, <1>6, <2>1 DEF Owning, Restoring
<1>5. Steady
    <2>2. ASSUME NEW p \in Objects PROVE Advances(p) /\ Starts(p)
        BY <1>4 DEF Advances, Starts, streams
    <2>3. ASSUME NEW p \in Objects, reader'[p].at # "none", pane'[p].state # "closed"
          PROVE  Holds(pane', panes', p)
        <3>1. pane[p].state # "unused" BY <2>3 DEF Reading, ReaderKept, streams
        <3>2. q[p] = pane[p] /\ p \notin freed BY <1>4, <2>3, <3>1
        <3>3. Holds(pane, panes, p) BY <2>3, <3>2, <1>4 DEF Flowing, Flow, streams
        <3> QED BY <1>c, <3>2, <3>3
    <2> QED BY <2>2, <2>3 DEF Steady, streams
<1> QED BY <1>1, <1>5, <1>7 DEF OwnerOp

LEMMA KeptByRetryRollback == ASSUME IInv, RetryRollback PROVE OwnerOp
<1> USE DEF IInv, Typed
<1>1. PICK freed \in SUBSET rollback :
        /\ pane' = CloseAll(pane, freed) /\ panes' = Deregistered(panes, freed)
        /\ rollback' = rollback \ freed
        /\ \A p \in freed : pane[p].id \in DOMAIN panes => panes[pane[p].id] = p
    BY DEF RetryRollback, RollBack
<1>2. UNCHANGED << closed, streams, model, pending, leftovers, owner >> /\ owner = "open"
    BY DEF RetryRollback
<1>3. pending = << >> BY <1>2 DEF RetryRollback, Owning, Restoring
<1>4. /\ Accounted(pane, panes, rollback \cup stranded, rollback \cup stranded, live,
                   bootstrapped)
      /\ Stranding /\ rollback \cap stranded = {}
    BY <1>2, <1>3, NothingPending DEF Stranding
<1>5. bootstrapped \/ 1 \notin DOMAIN panes BY <1>2 DEF Owning, Numbered
<1>6. PICK K : K = rollback \cup stranded OBVIOUS
<1>7. Accounted(pane, panes, K, K, live, bootstrapped) BY <1>4, <1>6
<1>8. /\ K \in SUBSET Objects /\ stranded \subseteq K /\ K \ stranded = rollback
      /\ freed \in SUBSET (K \ stranded) /\ rollback' = (K \ stranded) \ freed
    BY <1>1, <1>4, <1>6
<1> QED BY <1>1, <1>2, <1>3, <1>4, <1>5, <1>7, <1>8, RollBackKeeps

LEMMA KeptBySpawnPaneFails == ASSUME IInv, SpawnPaneFails PROVE OwnerOp
<1> USE DEF IInv, Typed
<1>1. /\ owner = "open" /\ rollback = {} /\ bootstrapped /\ nextPane \notin DOMAIN panes
      /\ UNCHANGED << closed, streams, model, pending, leftovers, owner >>
    BY DEF SpawnPaneFails, Available
<1>2. pending = << >> BY <1>1 DEF Owning, Restoring
<1>3. PICK p \in Fresh, session \in {"none", "open"}, registered \in BOOLEAN :
        \E h \in SUBSET {p} : RollBack(Created(pane, p, nextPane, "starting", session),
                 IF registered THEN Registered(panes, nextPane, p) ELSE panes, {p}, h)
    BY DEF SpawnPaneFails
<1> DEFINE q == Created(pane, p, nextPane, "starting", session)
           r == IF registered THEN Registered(panes, nextPane, p) ELSE panes
<1>4. PICK freed \in SUBSET {p} :
        /\ pane' = CloseAll(q, freed) /\ panes' = Deregistered(r, freed)
        /\ rollback' = {p} \ freed
        /\ \A x \in freed : q[x].id \in DOMAIN r => r[q[x].id] = x
    BY <1>3 DEF RollBack
<1>5. p \in Objects /\ pane[p].state = "unused" BY DEF Fresh
<1>6. Accounted(pane, panes, stranded, stranded, live, bootstrapped) /\ Stranding
    <2>1. rollback \cup stranded = stranded BY <1>1
    <2> QED BY <1>1, <1>2, <2>1, NothingPending
<1>7. nextPane \notin live BY <1>1 DEF Owning, Numbered
<1>8. /\ Accounted(q, r, {p} \cup stranded, {p} \cup stranded, live, bootstrapped)
      /\ \A x \in Objects \ {p} : Holds(pane, panes, x) => Holds(q, r, x)
    <2>1. nextPane \in Nat /\ bootstrapped \in BOOLEAN /\ stranded \in SUBSET Objects /\ pane \in [Objects -> PaneRecord]
          /\ session \in {"none", "open", "closed"}
        BY <1>1
    <2>8. \A i \in DOMAIN panes : pane[panes[i]].state # "unused" BY <1>6 DEF Accounted
    <2> HIDE DEF IInv, Typed
    <2>2. "starting" \in {"starting", "running", "failed", "exited", "closed"} OBVIOUS
    <2>a. pane \in [Objects -> PaneRecord] BY <2>1
    <2>b. Accounted(pane, panes, stranded, stranded, live, bootstrapped) BY <1>6
    <2>c. p \in Objects /\ pane[p].state = "unused" BY <1>5
    <2>d. nextPane \in Nat /\ nextPane \notin DOMAIN panes /\ nextPane \notin live
        BY <1>1, <1>7, <2>1
    <2>e. session \in {"none", "open", "closed"} BY <2>1
    <2>f. bootstrapped \in BOOLEAN /\ stranded \in SUBSET Objects BY <2>1
    <2>3. Accounted(q, Registered(panes, nextPane, p), {p} \cup stranded, {p} \cup stranded,
                    live, bootstrapped)
        BY <2>a, <2>b, <2>c, <2>d, <2>e, <2>f, <2>2, PaneKept
    <2>4. Accounted(q, panes, {p} \cup stranded, {p} \cup stranded, live, bootstrapped)
        BY <2>a, <2>b, <2>c, <2>d, <2>e, <2>f, <2>2, PaneKept
    <2>5. \A x \in Objects \ {p} : Holds(pane, panes, x) =>
            Holds(q, Registered(panes, nextPane, p), x) /\ Holds(q, panes, x)
        BY <1>1, <1>5, <2>1, <2>2, <2>8, HoldersKept
    <2>6. CASE registered BY <2>1, <2>3, <2>5, <2>6
    <2>7. CASE ~registered BY <2>1, <2>4, <2>5, <2>7
    <2> QED BY <2>6, <2>7
<1>9. /\ q \in [Objects -> PaneRecord] /\ q[p].state = "starting"
      /\ \A x \in Objects \ {p} : q[x] = pane[x]
    BY <1>5 DEF Created, PaneRecord
<1>10. /\ r \in [DOMAIN r -> Objects] /\ DOMAIN r \subseteq Nat
       /\ DOMAIN r \subseteq DOMAIN panes \cup {i \in Nat : i >= nextPane}
    BY <1>5 DEF Registered
<1>11. \A x \in Objects :
         IF q[x] = pane[x] THEN Holds(pane, panes, x) => Holds(q, r, x)
         ELSE x \in {p} /\ pane[x].state = "unused" /\ q[x].state \in {"starting", "running"}
    BY <1>5, <1>8, <1>9
<1> HIDE DEF q, r
<1>12. {p} \in SUBSET Objects /\ pending' = << >> /\ freed \in SUBSET {p} BY <1>1, <1>2, <1>5
<1>13. /\ bootstrapped \/ 1 \notin DOMAIN r
       /\ UNCHANGED << closed, streams, model, leftovers, owner >> /\ owner = "open"
    BY <1>1
<1>14. {p} \cap stranded = {} /\ Stranding BY <1>5, <1>6 DEF Stranding
<1>15. PICK K : K = {p} \cup stranded OBVIOUS
<1>16. Accounted(q, r, K, K, live, bootstrapped) BY <1>8, <1>15
<1>17. /\ K \in SUBSET Objects /\ stranded \subseteq K /\ K \ stranded = {p} /\ p \in K
       /\ freed \in SUBSET (K \ stranded) /\ rollback' = (K \ stranded) \ freed
    BY <1>4, <1>12, <1>14, <1>15
<1>18. \A x \in Objects :
         IF q[x] = pane[x] THEN Holds(pane, panes, x) => Holds(q, r, x)
         ELSE x \in K /\ pane[x].state = "unused" /\ q[x].state \in {"starting", "running"}
    BY <1>11, <1>17
<1> HIDE DEF IInv, Typed
<1> QED BY <1>4, <1>16, <1>17, <1>18, <1>9, <1>10, <1>12, <1>13, <1>14, RollBackKeeps

(* A pane that is published and its reader, if it has a session, launched. *)
LEMMA PublishedKeeps ==
    ASSUME IInv, owner = "open", pending = << >>,
           NEW p \in Fresh, NEW id \in Nat, id \notin DOMAIN panes, id \notin closed,
           NEW state \in {"running", "failed"}, NEW session \in {"none", "open"},
           pane' = Created(pane, p, id, state, session), panes' = Registered(panes, id, p),
           \/ reader' = Launched({p})
           \/ reader' = reader,
           live' \subseteq Nat, nextPane' \in Nat \ {0}, bootstrapped' = TRUE,
           Accounted(pane', panes', rollback \cup stranded, rollback \cup stranded, live', TRUE),
           \A x \in stranded : nextPane' <= pane[x].id,
           Numbered',
           UNCHANGED << closed, incoming, terminal, pending, aftermath, owner >>
    PROVE  OwnerOp
<1> USE DEF IInv, Typed
<1>1. p \in Objects /\ pane[p].state = "unused" BY DEF Fresh
<1>2. /\ pane' \in [Objects -> PaneRecord] /\ pane'[p].state = state /\ pane'[p].id = id
      /\ \A x \in Objects \ {p} : pane'[x] = pane[x]
    BY <1>1 DEF Created, PaneRecord
<1>3. /\ DOMAIN panes' = DOMAIN panes \cup {id} /\ panes'[id] = p
      /\ \A i \in DOMAIN panes : panes'[i] = panes[i]
      /\ panes' \in [DOMAIN panes' -> Objects]
    BY <1>1 DEF Registered
<1>4. \A x \in Objects \ {p} : reader'[x] = reader[x] BY DEF Launched
<1>5. /\ reader' \in [Objects -> ReaderRecord]
      /\ reader'[p] = reader[p]
         \/ reader'[p] = [at |-> "reading", read |-> 0, last |-> FALSE]
    <2>1. CASE reader' = reader BY <1>1, <2>1
    <2>2. CASE reader' = Launched({p})
        <3>1. Launched({p})[p] = [at |-> "reading", read |-> 0, last |-> FALSE]
            BY <1>1, LaunchedIs
        <3>3. reader'[p] = Launched({p})[p] BY <2>2
        <3>2. reader' \in [Objects -> ReaderRecord] BY <2>2, LaunchedIs
        <3> QED BY <3>1, <3>2, <3>3
    <2> QED BY <2>1, <2>2
<1>6. Typed'
    <2>1. bootstrapped' \in BOOLEAN OBVIOUS
    <2> QED BY <1>2, <1>3, <1>5, <2>1 DEF aftermath, recovery, leftovers
<1>7. Owning'
    <2>1. UNCHANGED << rollback, stranded, reserved >> /\ Unpublished' = rollback \cup stranded
        BY DEF Range, Unpublished, aftermath, recovery, leftovers
    <2>2. Accounted(pane', panes', rollback' \cup stranded', Unpublished', live', bootstrapped')
        BY <2>1
    <2>3. Stranding BY NothingPending
    <2>4. ASSUME NEW x \in stranded
          PROVE  /\ pane'[x].state # "unused" /\ nextPane' <= pane'[x].id
                 /\ Holds(pane', panes', x) \/ pane'[x].id \in reserved
        <3>1. x \in Objects \ {p} BY <1>1, <2>3 DEF Stranding
        <3>2. Holds(pane, panes, x) => Holds(pane', panes', x) BY <1>2, <1>3, <3>1 DEF Holds
        <3> QED BY <1>2, <2>3, <3>1, <3>2 DEF Stranding
    <2>5. Stranding' BY <2>1, <2>3, <2>4 DEF Stranding
    <2> QED BY <2>2, <2>5 DEF Owning, Restoring
<1>8. Steady
    <2>1. reader[p].at = "none" BY <1>1 DEF Reading, ReaderKept
    <2>2. ASSUME NEW x \in Objects PROVE Advances(x) /\ Starts(x)
        <3>1. CASE x = p BY <1>1, <1>2, <1>5, <2>1, <3>1 DEF Advances, Starts
        <3>2. CASE x # p BY <1>2, <1>4, <3>2 DEF Advances, Starts
        <3> QED BY <3>1, <3>2
    <2>3. ASSUME NEW x \in Objects, reader'[x].at # "none", pane'[x].state # "closed"
          PROVE  Holds(pane', panes', x)
        <3>1. CASE x = p BY <1>2, <1>3, <3>1 DEF Holds
        <3>2. CASE x # p
            <4>1. Holds(pane, panes, x) BY <1>2, <1>4, <2>3, <3>2 DEF Flowing, Flow
            <4> QED BY <1>2, <1>3, <3>2, <4>1 DEF Holds
        <3> QED BY <3>1, <3>2
    <2> QED BY <2>2, <2>3 DEF Steady
<1> QED BY <1>6, <1>7, <1>8 DEF OwnerOp

LEMMA KeptByBootstrap == ASSUME IInv, Bootstrap PROVE OwnerOp
<1> USE DEF IInv, Typed
<1>1. /\ owner = "open" /\ rollback = {} /\ ~bootstrapped /\ pending = << >>
      /\ 1 \notin DOMAIN panes /\ 1 \notin closed /\ bootstrapped' = TRUE
      /\ UNCHANGED << closed, incoming, terminal, live, nextPane, pending, aftermath, owner >>
    BY DEF Bootstrap, StartupOrder, Available
<1>2. PICK p \in Fresh, state \in {"running", "failed"}, session \in {"none", "open"} :
        /\ panes' = Registered(panes, 1, p) /\ pane' = Created(pane, p, 1, state, session)
        /\ reader' = Launched({p}) \/ reader' = reader
    BY DEF Bootstrap
<1>3. p \in Objects /\ pane[p].state = "unused" BY DEF Fresh
<1>4. Accounted(pane, panes, {}, {}, {}, TRUE) /\ rollback \cup stranded = {}
    <2>1. rollback \cup stranded = {} BY <1>1, NothingPending DEF Stranding
    <2>2. Accounted(pane, panes, {}, {}, live, bootstrapped) BY <1>1, <2>1, NothingPending
    <2> QED BY <1>1, <2>1, <2>2 DEF Accounted
<1>5. Accounted(pane', panes', {}, {}, {} \cup {1}, TRUE)
    <2>1. /\ pane \in [Objects -> PaneRecord] /\ session \in {"none", "open", "closed"}
          /\ state \in {"starting", "running", "failed", "exited", "closed"}
        OBVIOUS
    <2> HIDE DEF IInv, Typed
    <2> QED BY <1>1, <1>2, <1>3, <1>4, <2>1, PaneCreated
<1>6. live = {1} /\ nextPane = 2 /\ closed = {} BY <1>1 DEF Owning, Numbered
<1>7. Numbered' BY <1>1, <1>6 DEF Numbered
<1>8. /\ Accounted(pane', panes', rollback \cup stranded, rollback \cup stranded, live', TRUE)
      /\ \A x \in stranded : nextPane' <= pane[x].id
    BY <1>1, <1>4, <1>5, <1>6
<1>9. live' \subseteq Nat /\ nextPane' \in Nat \ {0} BY <1>1
<1> QED BY <1>1, <1>2, <1>7, <1>8, <1>9, PublishedKeeps

(* A pane of a new split, tab or window.                                   *)
LEMMA KeptByCreateWindow == ASSUME IInv, CreateWindow \/ SpawnPane PROVE OwnerOp
<1> USE DEF IInv, Typed
<1>1. /\ owner = "open" /\ bootstrapped /\ nextPane \notin DOMAIN panes /\ nextPane \notin closed
      /\ nextPane \notin reserved
      /\ live' = live \cup {nextPane} /\ nextPane' = nextPane + 1
      /\ UNCHANGED << closed, incoming, terminal, bootstrapped, pending, aftermath, owner >>
    BY DEF CreateWindow, SpawnPane, Available
<1>2. PICK p \in Fresh :
        /\ pane' = Created(pane, p, nextPane, "running", "open")
        /\ panes' = Registered(panes, nextPane, p) /\ reader' = Launched({p})
    BY DEF CreateWindow, SpawnPane
<1>3. p \in Objects /\ pane[p].state = "unused" BY DEF Fresh
<1>4. pending = << >> /\ nextPane \notin live BY <1>1 DEF Owning, Restoring, Numbered
<1>5. /\ Accounted(pane, panes, rollback \cup stranded, rollback \cup stranded, live,
                   bootstrapped)
      /\ Stranding
    BY <1>1, <1>4, NothingPending
<1>6. Accounted(pane', panes', rollback \cup stranded, rollback \cup stranded, live',
                bootstrapped)
    <2>1. /\ pane \in [Objects -> PaneRecord] /\ nextPane \in Nat
          /\ bootstrapped \in BOOLEAN /\ rollback \cup stranded \in SUBSET Objects
        OBVIOUS
    <2> HIDE DEF IInv, Typed
    <2> QED BY <1>1, <1>2, <1>3, <1>4, <1>5, <2>1, PaneCreated
<1>7. Numbered'
    <2>1. Numbered BY <1>1 DEF Owning
    <2>2. DOMAIN panes' = DOMAIN panes \cup {nextPane} BY <1>2 DEF Registered
    <2> QED BY <1>1, <2>1, <2>2 DEF Numbered
<1>8. live' \subseteq Nat /\ nextPane' \in Nat \ {0} /\ nextPane \in Nat BY <1>1
<1>9. bootstrapped' = TRUE /\ bootstrapped = TRUE BY <1>1, Zenon
<1>10. /\ Accounted(pane', panes', rollback \cup stranded, rollback \cup stranded, live', TRUE)
       /\ \A x \in stranded : nextPane' <= pane[x].id
    <2>1. ASSUME NEW x \in stranded PROVE nextPane' <= pane[x].id
        <3>1. nextPane <= pane[x].id /\ pane[x].id # nextPane
            BY <1>1, <1>5 DEF Stranding, Holds
        <3>2. x \in Objects /\ pane[x].id \in Nat BY DEF PaneRecord
        <3> QED BY <1>1, <3>1, <3>2
    <2> QED BY <1>6, <1>9, <2>1
<1> QED BY <1>1, <1>2, <1>4, <1>7, <1>8, <1>9, <1>10, PublishedKeeps

(* A window that failed: its pane is closed and unregistered, or stranded.  *)
LEMMA KeptByCreateWindowFails == ASSUME IInv, CreateWindowFails PROVE OwnerOp
<1> USE DEF IInv, Typed
<1>1. /\ owner = "open" /\ bootstrapped /\ nextPane \notin DOMAIN panes
      /\ UNCHANGED << closed, incoming, terminal, live, nextPane, bootstrapped, pending,
                      rollback, owner >>
    BY DEF CreateWindowFails, Available, model
<1>2. PICK p \in Fresh, failed \in {"spawn", "register", "start", "commit"} :
        /\ reader' = IF failed = "commit" THEN Launched({p}) ELSE reader
        /\ \/ \E session \in {"none", "closed"} :
                /\ pane' = Created(pane, p, nextPane, "closed", session)
                /\ UNCHANGED << panes, reserved, stranded >>
           \/ /\ stranded' = stranded \cup {p}
              /\ \E state \in {"starting", "running"}, session \in {"none", "open"} :
                    pane' = Created(pane, p, nextPane, state, session)
              /\ \/ /\ panes' = Registered(panes, nextPane, p)
                    /\ reserved' = reserved
                 \/ /\ failed # "commit" /\ panes' = panes
                    /\ reserved' = reserved \cup {nextPane}
    BY DEF CreateWindowFails, leftovers
<1>3. p \in Objects /\ pane[p].state = "unused" BY DEF Fresh
<1>4. pending = << >> /\ nextPane \notin live BY <1>1 DEF Owning, Restoring, Numbered
<1>5. PICK state \in {"starting", "running", "closed"}, session \in {"none", "open", "closed"} :
        /\ pane' = Created(pane, p, nextPane, state, session)
        /\ state = "closed" => session # "open"
        /\ \/ state = "closed" /\ UNCHANGED << panes, reserved, stranded >>
           \/ /\ stranded' = stranded \cup {p} /\ panes' = Registered(panes, nextPane, p)
              /\ reserved' = reserved
           \/ /\ stranded' = stranded \cup {p} /\ panes' = panes /\ failed # "commit"
              /\ reserved' = reserved \cup {nextPane}
    BY <1>2
<1>6. /\ pane' \in [Objects -> PaneRecord] /\ pane'[p].state = state /\ pane'[p].id = nextPane
      /\ \A x \in Objects \ {p} : pane'[x] = pane[x]
    BY <1>3, <1>5 DEF Created, PaneRecord
<1>7. /\ Accounted(pane, panes, rollback \cup stranded, rollback \cup stranded, live,
                   bootstrapped)
      /\ Numbered /\ Stranding
    BY <1>1, <1>4, NothingPending
<1>8. p \notin rollback \cup stranded BY <1>3, <1>7 DEF Accounted
<1>9. /\ pane \in [Objects -> PaneRecord] /\ nextPane \in Nat /\ bootstrapped \in BOOLEAN
      /\ rollback \cup stranded \in SUBSET Objects
      /\ state \in {"starting", "running", "failed", "exited", "closed"}
    OBVIOUS
<1>10. /\ panes' \in [DOMAIN panes' -> Objects] /\ DOMAIN panes' \subseteq DOMAIN panes \cup {nextPane}
       /\ stranded' \subseteq Objects
    BY <1>3, <1>5 DEF Registered
<1>11. Accounted(pane', panes', rollback \cup stranded', rollback \cup stranded', live,
                 bootstrapped)
    <2> HIDE DEF IInv, Typed
    <2>1. CASE state = "closed" /\ UNCHANGED << panes, reserved, stranded >>
        BY <1>1, <1>3, <1>4, <1>5, <1>7, <1>9, <2>1, PaneCreated
    <2> DEFINE K == {p} \cup (rollback \cup stranded)
    <2>2. /\ Accounted(pane', Registered(panes, nextPane, p), K, K, live, bootstrapped)
          /\ Accounted(pane', panes, K, K, live, bootstrapped)
        BY <1>1, <1>3, <1>4, <1>5, <1>7, <1>9, PaneKept
    <2>3. CASE stranded' = stranded \cup {p}
        <3>1. rollback \cup stranded' = K BY <2>3
        <3> HIDE DEF K
        <3> QED BY <1>5, <1>6, <2>2, <2>3, <3>1, <1>8
    <2> QED BY <1>5, <2>1, <2>3
<1>12. \A x \in Objects \ {p} : Holds(pane, panes, x) => Holds(pane', panes', x)
    <2>1. \A i \in DOMAIN panes : pane[panes[i]].state # "unused" BY <1>7 DEF Accounted
    <2> HIDE DEF IInv, Typed
    <2>2. \A x \in Objects \ {p} : Holds(pane, panes, x) =>
            Holds(pane', Registered(panes, nextPane, p), x) /\ Holds(pane', panes, x)
        BY <1>1, <1>3, <1>5, <1>9, <2>1, HoldersKept
    <2> QED BY <1>5, <2>2
<1>13. /\ \A x \in Objects \ {p} : reader'[x] = reader[x]
       /\ reader' \in [Objects -> ReaderRecord]
       /\ \/ reader'[p] = reader[p]
          \/ failed = "commit" /\ reader'[p] = [at |-> "reading", read |-> 0, last |-> FALSE]
    <2>1. CASE failed = "commit"
        <3>1. reader' = Launched({p}) BY <1>2, <2>1
        <3> QED BY <1>3, <2>1, <3>1, LaunchedIs
    <2>2. CASE failed # "commit"
        <3>1. reader' = reader BY <1>2, <2>2
        <3> QED BY <3>1
    <2> QED BY <2>1, <2>2
<1>14. Typed' BY <1>1, <1>6, <1>10, <1>13
<1>15. Stranding'
    <2>1. ASSUME NEW x \in stranded, reserved \subseteq reserved'
          PROVE  /\ pane'[x].state # "unused" /\ nextPane <= pane'[x].id
                 /\ Holds(pane', panes', x) \/ pane'[x].id \in reserved'
        <3>1. x \in Objects \ {p} BY <1>8
        <3> QED BY <1>6, <1>7, <1>12, <2>1, <3>1 DEF Stranding
    <2>2. ASSUME stranded' = stranded \cup {p}
          PROVE  /\ pane'[p].state # "unused" /\ nextPane <= pane'[p].id
                 /\ Holds(pane', panes', p) \/ pane'[p].id \in reserved'
        <3>1. nextPane <= pane'[p].id BY <1>6
        <3>2. panes' = Registered(panes, nextPane, p) => Holds(pane', panes', p)
            BY <1>6 DEF Registered, Holds
        <3>3. pane'[p].state # "unused" BY <1>6
        <3>4. CASE state = "closed" /\ UNCHANGED << panes, reserved, stranded >>
            BY <1>8, <2>2, <3>4
        <3> QED BY <1>5, <1>6, <3>1, <3>2, <3>3, <3>4
    <2>3. reserved \subseteq reserved' BY <1>5
    <2>4. stranded' = stranded \/ stranded' = stranded \cup {p} BY <1>5
    <2>5. rollback' \cap stranded' = {} BY <1>1, <1>7, <1>8, <2>4 DEF Stranding
    <2> QED BY <1>1, <2>1, <2>2, <2>3, <2>4, <2>5 DEF Stranding
<1>16. Owning'
    <2>1. Unpublished' = rollback \cup stranded' BY <1>1, <1>4 DEF Range, Unpublished
    <2>2. Accounted(pane', panes', rollback' \cup stranded', Unpublished', live', bootstrapped')
        BY <1>1, <1>11, <2>1
    <2>3. Numbered' BY <1>1, <1>7, <1>10 DEF Numbered
    <2> QED BY <1>1, <1>4, <1>15, <2>2, <2>3 DEF Owning, Restoring
<1>17. Steady
    <2>1. reader[p].at = "none" BY <1>3 DEF Reading, ReaderKept
    <2>2. ASSUME NEW x \in Objects PROVE Advances(x) /\ Starts(x)
        <3>1. CASE x = p BY <1>1, <1>3, <1>6, <1>13, <2>1, <3>1 DEF Advances, Starts
        <3>2. CASE x # p BY <1>6, <1>13, <3>2 DEF Advances, Starts
        <3> QED BY <3>1, <3>2
    <2>3. ASSUME NEW x \in Objects, reader'[x].at # "none", pane'[x].state # "closed"
          PROVE  Holds(pane', panes', x)
        <3>1. CASE x = p
            <4>1. failed = "commit" /\ state # "closed" BY <1>6, <1>13, <2>1, <2>3, <3>1
            <4>2. panes' = Registered(panes, nextPane, p) BY <1>5, <4>1
            <4> QED BY <1>6, <3>1, <4>2 DEF Registered, Holds
        <3>2. CASE x # p
            <4>1. Holds(pane, panes, x) BY <1>1, <1>6, <1>13, <2>3, <3>2 DEF Flowing, Flow
            <4> QED BY <1>12, <3>2, <4>1
        <3> QED BY <3>1, <3>2
    <2> QED BY <1>1, <2>2, <2>3 DEF Steady
<1> QED BY <1>14, <1>16, <1>17 DEF OwnerOp

(* rollbackWindow, closePane, closeTab and closeWindow                     *)
LEMMA KeptByClosing ==
    ASSUME IInv, NEW S \in SUBSET live, RollbackWindow(S) \/ ClosePanes(S)
    PROVE  OwnerOp
<1> USE DEF IInv, Typed
<1> DEFINE P == {panes[i] : i \in S}
<1>1. /\ owner = "open" /\ S # {} /\ S \subseteq live \cap DOMAIN panes
      /\ panes' = Deregistered(panes, P) /\ pane' = CloseAll(pane, P) /\ live' = live \ S
      /\ UNCHANGED << streams, bootstrapped, pending, aftermath, owner >>
    BY DEF RollbackWindow, ClosePanes
<1>2. \/ closed' = closed \cup S /\ nextPane' = nextPane
      \/ closed' = closed /\ nextPane' = nextPane
      \/ closed' = closed /\ S = {nextPane - 1} /\ nextPane' = nextPane - 1
    BY DEF RollbackWindow, ClosePanes
<1>3. Numbered BY <1>1 DEF Owning
<1>4. bootstrapped /\ pending = << >> BY <1>1, <1>3 DEF Numbered, Owning, Restoring
<1>5. P \subseteq Objects BY <1>1
<1> HIDE DEF P
<1>6. /\ CloseAll(pane, P) \in [Objects -> PaneRecord]
      /\ Deregistered(panes, P) \in [DOMAIN Deregistered(panes, P) -> Objects]
      /\ DOMAIN Deregistered(panes, P) \subseteq Nat
    BY Shapes
<1>7. UNCHANGED << reader, incoming, terminal, rollback, reserved, stranded >>
    BY <1>1 DEF streams, aftermath, recovery, leftovers
<1>8. nextPane' \in Nat \ {0}
    <2>1. live \subseteq 1..nextPane - 1 BY <1>3 DEF Numbered
    <2> QED BY <1>1, <1>2, <2>1
<1>9. Typed' BY <1>1, <1>2, <1>6, <1>7, <1>8
<1>10. /\ Accounted(pane, panes, rollback \cup stranded, rollback \cup stranded, live,
                    bootstrapped)
       /\ Stranding
    BY <1>1, <1>4, NothingPending
<1>11. /\ Accounted(pane', panes', rollback \cup stranded, rollback \cup stranded, live',
                    bootstrapped)
       /\ \A p \in Objects \ P : Holds(pane, panes, p) => Holds(pane', panes', p)
    <2>1. /\ pane \in [Objects -> PaneRecord] /\ rollback \cup stranded \in SUBSET Objects
          /\ bootstrapped \in BOOLEAN /\ S \in SUBSET (live \cap DOMAIN panes)
        BY <1>1
    <2>3. P = {panes[i] : i \in S} BY DEF P
    <2> HIDE DEF IInv, Typed
    <2>2. /\ Accounted(CloseAll(pane, P), Deregistered(panes, P), rollback \cup stranded,
                       rollback \cup stranded, live \ S, bootstrapped)
          /\ \A p \in Objects \ P :
                Holds(pane, panes, p) => Holds(CloseAll(pane, P), Deregistered(panes, P), p)
        BY ZenonT(30), <1>10, <2>1, <2>3, PublishedClosed
    <2> QED BY <1>1, <2>2
<1>12. Numbered'
    <2>1. DOMAIN panes' \subseteq DOMAIN panes BY <1>1 DEF Deregistered
    <2>2. \A i \in S : i \notin DOMAIN panes' BY <1>1 DEF Deregistered, P
    <2> QED BY <1>1, <1>2, <1>3, <1>4, <1>8, <2>1, <2>2 DEF Numbered
<1>13. Owning'
    <2>1. /\ UNCHANGED << rollback, stranded, reserved >> /\ Unpublished' = rollback \cup stranded
          /\ bootstrapped' = bootstrapped /\ pending' = << >>
        BY <1>1, <1>4, <1>7 DEF Range, Unpublished
    <2>2. Accounted(pane', panes', rollback' \cup stranded', Unpublished', live', bootstrapped')
        BY <1>11, <2>1
    <2>3. ASSUME NEW p \in stranded
          PROVE  /\ pane'[p].state # "unused" /\ nextPane' <= pane'[p].id
                 /\ Holds(pane', panes', p) \/ pane'[p].id \in reserved
        <3>1. p \in Objects /\ nextPane <= pane[p].id /\ pane[p].id \in Nat
            BY <1>10 DEF Stranding, PaneRecord
        <3>2. \A i \in S : pane[panes[i]].id = i /\ i < nextPane
            BY <1>1, <1>3, <1>10 DEF Accounted, Numbered
        <3>3. p \notin P BY <3>1, <3>2 DEF P
        <3>4. pane'[p] = pane[p] BY <1>1, <3>1, <3>3 DEF CloseAll
        <3>5. nextPane' <= nextPane BY <1>2
        <3> QED BY <1>8, <1>10, <1>11, <3>1, <3>3, <3>4, <3>5 DEF Stranding
    <2>4. Stranding' BY <1>4, <1>10, <2>1, <2>3 DEF Stranding
    <2> QED BY <1>1, <1>12, <2>1, <2>2, <2>4 DEF Owning, Restoring
<1>14. Steady
    <2>1. \A p \in Objects :
            /\ pane'[p].id = pane[p].id
            /\ p \notin P => pane'[p] = pane[p]
            /\ p \in P => pane'[p].state = "closed"
        BY <1>1 DEF CloseAll, PaneRecord
    <2>2. ASSUME NEW p \in Objects PROVE Advances(p) /\ Starts(p)
        BY <1>7, <2>1 DEF Advances, Starts
    <2>3. ASSUME NEW p \in Objects, reader'[p].at # "none", pane'[p].state # "closed"
          PROVE  Holds(pane', panes', p)
        <3>1. p \notin P /\ pane'[p] = pane[p] BY <2>1, <2>3
        <3>2. Holds(pane, panes, p) BY <1>1, <1>7, <2>3, <3>1 DEF Flowing, Flow
        <3> QED BY <1>11, <3>1, <3>2
    <2> QED BY <1>1, <1>7, <2>2, <2>3 DEF Steady
<1> QED BY <1>9, <1>13, <1>14 DEF OwnerOp

(* A restored layout, as far as it was provisioned.                        *)
LEMMA Restored ==
    ASSUME IInv, RestoreReady, NEW c \in Candidates,
           NEW n \in Nat, n <= Len(c), NEW session \in {"none", "open"}
    PROVE  /\ c \in Seq(Objects) /\ Len(c) \in Nat /\ c # << >>
           /\ Provisioned(c, n, session) \in [Objects -> PaneRecord]
           /\ \A i \in DOMAIN c :
                /\ pane[c[i]].state = "unused"
                /\ Provisioned(c, n, session)[c[i]].id = nextPane + i - 1
                /\ Provisioned(c, n, session)[c[i]].state \in {"starting", "running"}
           /\ \A p \in Objects \ Range(c) : Provisioned(c, n, session)[p] = pane[p]
           /\ DOMAIN ProvisionedIn(c, n) = nextPane..nextPane + n - 1
           /\ ProvisionedIn(c, n) \in [DOMAIN ProvisionedIn(c, n) -> Objects]
           /\ Accounted(Provisioned(c, n, session), ProvisionedIn(c, n), Range(c), Range(c),
                        live, bootstrapped)
           /\ n = Len(c) =>
                Accounted(Provisioned(c, n, session), ProvisionedIn(c, n), {}, Range(c),
                          live, bootstrapped)
<1> DEFINE q == Provisioned(c, n, session)
           r == ProvisionedIn(c, n)
<1> USE DEF IInv, Typed
<1>1. PICK k \in 1..MaxRestore : c \in [1..k -> Fresh]
    BY DEF Candidates
<1>2. k \in Nat /\ k >= 1 BY <1>1, BoundsAssumption
<1>3. /\ c \in Seq(Objects) /\ Len(c) = k /\ DOMAIN c = 1..k
      /\ \A i \in DOMAIN c : c[i] \in Objects /\ pane[c[i]].state = "unused"
    <2>1. \A p \in Fresh : p \in Objects /\ pane[p].state = "unused" BY DEF Fresh
    <2> HIDE DEF IInv, Typed
    <2>2. DOMAIN c = 1..k /\ \A i \in 1..k : c[i] \in Objects /\ pane[c[i]].state = "unused"
        BY <1>1, <2>1
    <2>3. c \in [1..k -> Objects] BY <1>1, <2>1
    <2>4. c \in Seq(Objects) /\ Len(c) = k BY <1>2, <2>3
    <2> QED BY <2>2, <2>4
<1>4. \A i, j \in DOMAIN c : c[i] = c[j] => i = j BY DEF Candidates
<1>5. \A i \in DOMAIN c : IndexOf(c, c[i]) = i
    <2> SUFFICES ASSUME NEW i \in DOMAIN c PROVE IndexOf(c, c[i]) = i
        OBVIOUS
    <2>1. IndexOf(c, c[i]) \in DOMAIN c /\ c[IndexOf(c, c[i])] = c[i]
        BY DEF IndexOf
    <2> QED BY <1>4, <2>1
<1>6. /\ panes = [i \in {} |-> None] /\ ~bootstrapped /\ owner = "open"
      /\ Unpublished = {} /\ rollback \cup stranded = {}
    BY NothingPending DEF RestoreReady, Range, Unpublished, Stranding
<1>7. nextPane = 2 /\ live = {1} BY <1>6 DEF Owning, Numbered
<1>8. \A p \in Objects : pane[p].session # "open" BY <1>6 DEF Owning, Accounted, Holds
<1>9. \A i \in DOMAIN c :
        q[c[i]] = [id |-> nextPane + i - 1,
                   state |-> IF i <= n THEN "running" ELSE "starting",
                   session |-> IF i <= n THEN "open"
                               ELSE IF i = n + 1 THEN session ELSE "none"]
    <2> SUFFICES ASSUME NEW i \in DOMAIN c
                 PROVE  q[c[i]] = [id |-> nextPane + i - 1,
                           state |-> IF i <= n THEN "running" ELSE "starting",
                           session |-> IF i <= n THEN "open"
                                       ELSE IF i = n + 1 THEN session ELSE "none"]
        OBVIOUS
    <2>1. c[i] \in Range(c) /\ c[i] \in Objects BY <1>3 DEF Range
    <2>2. IndexOf(c, c[i]) = i BY <1>5
    <2> HIDE DEF IInv, Typed
    <2> QED BY <2>1, <2>2 DEF Provisioned
<1>10. \A p \in Objects \ Range(c) : q[p] = pane[p] BY DEF Provisioned
<1>11. \A i \in DOMAIN c : /\ q[c[i]] \in PaneRecord /\ q[c[i]].id = nextPane + i - 1
                           /\ q[c[i]].state \in {"starting", "running"}
    <2> SUFFICES ASSUME NEW i \in DOMAIN c
                 PROVE  /\ q[c[i]] \in PaneRecord /\ q[c[i]].id = nextPane + i - 1
                        /\ q[c[i]].state \in {"starting", "running"}
        OBVIOUS
    <2>1. nextPane + i - 1 \in Nat BY <1>2, <1>3, <1>7
    <2> HIDE DEF IInv, Typed, q
    <2> DEFINE state == IF i <= n THEN "running" ELSE "starting"
               opened == IF i <= n THEN "open" ELSE IF i = n + 1 THEN session ELSE "none"
    <2>2. state \in {"starting", "running"} /\ opened \in {"none", "open"} OBVIOUS
    <2>3. q[c[i]] = [id |-> nextPane + i - 1, state |-> state, session |-> opened] BY <1>9
    <2> HIDE DEF state, opened
    <2> QED BY <2>1, <2>2, <2>3 DEF PaneRecord
<1>12. q \in [Objects -> PaneRecord]
    <2>1. \A p \in Objects : q[p] \in PaneRecord BY <1>10, <1>11 DEF Range
    <2>2. q = [p \in Objects |-> q[p]] BY DEF Provisioned
    <2> QED BY <2>1, <2>2
<1>13. DOMAIN r = nextPane..nextPane + n - 1
    <2>1. DOMAIN r = {nextPane + j - 1 : j \in 1..n} BY <1>6 DEF ProvisionedIn
    <2>2. \A x \in nextPane..nextPane + n - 1 : x - nextPane + 1 \in 1..n
            /\ x = nextPane + (x - nextPane + 1) - 1
        BY <1>7
    <2>3. {nextPane + j - 1 : j \in 1..n} = nextPane..nextPane + n - 1 BY <1>7, <2>2
    <2> QED BY <2>1, <2>3
<1>14. \A id \in DOMAIN r : id - nextPane + 1 \in DOMAIN c /\ r[id] = c[id - nextPane + 1]
    <2>1. \A id \in DOMAIN r : id - nextPane + 1 \in DOMAIN c
        BY <1>2, <1>3, <1>7, <1>13
    <2>2. \A id \in DOMAIN r : r[id] = c[id - nextPane + 1]
        BY <1>6, <1>13 DEF ProvisionedIn
    <2> QED BY <2>1, <2>2
<1>15. r \in [DOMAIN r -> Objects]
    <2>1. r = [i \in DOMAIN r |-> r[i]] BY DEF ProvisionedIn
    <2>2. \A i \in DOMAIN r : r[i] \in Objects BY <1>3, <1>14
    <2> QED BY <2>1, <2>2
<1> HIDE DEF q, r
<1>16. \A id \in DOMAIN r : /\ r[id] \in Objects /\ q[r[id]].id = id
                            /\ q[r[id]].state # "unused" /\ r[id] \in Range(c)
    <2> SUFFICES ASSUME NEW id \in DOMAIN r
                 PROVE  /\ r[id] \in Objects /\ q[r[id]].id = id
                        /\ q[r[id]].state # "unused" /\ r[id] \in Range(c)
        OBVIOUS
    <2>1. id \in Nat /\ nextPane + (id - nextPane + 1) - 1 = id BY <1>7, <1>13
    <2> QED BY <1>3, <1>11, <1>14, <2>1 DEF Range
<1>17. \A p \in Objects : q[p].session = "open" => p \in Range(c) BY <1>8, <1>10
<1>18. \A p \in Range(c) : /\ q[p].state # "unused" /\ q[p].id \notin live
    <2> SUFFICES ASSUME NEW i \in DOMAIN c
                 PROVE  q[c[i]].state # "unused" /\ q[c[i]].id \notin live
        BY DEF Range
    <2>1. i \in Nat /\ i >= 1 BY <1>2, <1>3
    <2>2. q[c[i]].id = 2 + i - 1 /\ q[c[i]].state \in {"starting", "running"} BY <1>7, <1>11
    <2>3. q[c[i]].id # 1 BY <2>1, <2>2
    <2> QED BY <1>7, <2>2, <2>3
<1>19. Accounted(q, r, Range(c), Range(c), live, bootstrapped)
    BY <1>6, <1>16, <1>17, <1>18 DEF Accounted
<1>20. n = Len(c) => Accounted(q, r, {}, Range(c), live, bootstrapped)
    <2> HAVE n = Len(c)
    <2>1. ASSUME NEW i \in DOMAIN c PROVE Holds(q, r, c[i])
        <3>1. nextPane + i - 1 \in DOMAIN r BY <1>3, <1>7, <1>13
        <3>2. (nextPane + i - 1) - nextPane + 1 = i BY <1>3, <1>7
        <3>3. r[nextPane + i - 1] = c[i] BY <1>14, <3>1, <3>2
        <3> QED BY <1>11, <3>1, <3>3 DEF Holds
    <2>2. \A p \in Objects : q[p].session = "open" => Holds(q, r, p)
        BY <1>17, <2>1 DEF Range
    <2> QED BY <1>6, <1>16, <1>18, <2>2 DEF Accounted
<1>21. Len(c) \in Nat /\ c # << >> BY <1>2, <1>3
<1> QED BY <1>3, <1>10, <1>11, <1>12, <1>13, <1>15, <1>19, <1>20, <1>21 DEF q, r

LEMMA KeptByPrepareRestore == ASSUME IInv, PrepareRestore PROVE OwnerOp
<1> USE DEF IInv, Typed
<1>1. /\ RestoreReady
      /\ UNCHANGED << closed, streams, model, aftermath, owner >>
    BY DEF PrepareRestore
<1>2. PICK c \in Candidates :
        /\ pane' = Provisioned(c, Len(c), "none") /\ panes' = ProvisionedIn(c, Len(c))
        /\ pending' = c
    BY DEF PrepareRestore
<1>3. Len(c) \in Nat
    <2>1. PICK k \in 1..MaxRestore : c \in [1..k -> Fresh] BY DEF Candidates
    <2>2. k \in Nat BY <2>1, BoundsAssumption
    <2> HIDE DEF IInv, Typed
    <2>3. DOMAIN c = 1..k BY <2>1
    <2>4. c \in Seq(Fresh) BY <2>1, <2>2
    <2> QED BY <2>4
<1>4. /\ c \in Seq(Objects) /\ c # << >>
      /\ pane' \in [Objects -> PaneRecord]
      /\ \A i \in DOMAIN c :
           /\ pane[c[i]].state = "unused"
           /\ pane'[c[i]].id = nextPane + i - 1
           /\ pane'[c[i]].state \in {"starting", "running"}
      /\ \A p \in Objects \ Range(c) : pane'[p] = pane[p]
      /\ DOMAIN panes' = nextPane..nextPane + Len(c) - 1
      /\ panes' \in [DOMAIN panes' -> Objects]
      /\ Accounted(pane', panes', {}, Range(c), live, bootstrapped)
    <2>1. "none" \in {"none", "open"} /\ Len(c) <= Len(c) BY <1>3
    <2> HIDE DEF IInv, Typed
    <2> QED BY <1>1, <1>2, <1>3, <2>1, Restored
<1>5. /\ owner = "open" /\ rollback = {} /\ ~bootstrapped /\ pending = << >>
      /\ DOMAIN panes = {} /\ stranded = {}
    BY <1>1, NothingPending DEF RestoreReady, Stranding
<1>6. UNCHANGED << reader, incoming, terminal, live, nextPane, bootstrapped, rollback, closed,
                   reserved, stranded, owner >>
    BY <1>1 DEF streams, model, aftermath, recovery, leftovers
<1>7. nextPane = 2 /\ live = {1} /\ closed = {} BY <1>5 DEF Owning, Numbered
<1>8. DOMAIN panes' \subseteq Nat /\ 1 \notin DOMAIN panes' BY <1>3, <1>4, <1>7
<1>9. Typed'
    <2>1. pending' \in Seq(Objects) BY <1>2, <1>4
    <2> QED BY <1>4, <1>6, <1>8, <2>1
<1>10. \A i \in DOMAIN c : c[i] \in Objects /\ reader[c[i]].at = "none"
    BY <1>4 DEF Reading, ReaderKept
<1>11. Owning'
    <2>1. Accounted(pane', panes', rollback' \cup stranded', Unpublished', live', bootstrapped')
        <3>1. Unpublished' = Range(c) /\ rollback' \cup stranded' = {}
            BY <1>2, <1>5, <1>6 DEF Unpublished
        <3>2. live' = live /\ bootstrapped' = bootstrapped BY <1>6
        <3> HIDE DEF IInv, Typed
        <3> QED BY <1>4, <3>1, <3>2
    <2>2. Numbered' BY <1>5, <1>6, <1>7, <1>8 DEF Numbered
    <2>3. Restoring'
        <3>1. rollback' = {} /\ ~bootstrapped' BY <1>5, <1>6
        <3>2. \A i \in DOMAIN pending' :
                pane'[pending'[i]].id = nextPane' + i - 1 /\ reader'[pending'[i]].at = "none"
            BY <1>2, <1>4, <1>6, <1>10
        <3> QED BY <3>1, <3>2 DEF Restoring
    <2>4. Stranding' BY <1>5, <1>6 DEF Stranding
    <2> QED BY <1>5, <1>6, <2>1, <2>2, <2>3, <2>4 DEF Owning
<1>12. Steady
    <2>1. ASSUME NEW p \in Objects PROVE Advances(p) /\ Starts(p)
        <3>1. CASE p \in Range(c) BY <1>4, <1>6, <3>1 DEF Range, Advances, Starts
        <3>2. CASE p \notin Range(c) BY <1>4, <1>6, <3>2 DEF Advances, Starts
        <3> QED BY <3>1, <3>2
    <2>2. ASSUME NEW p \in Objects, reader'[p].at # "none", pane'[p].state # "closed"
          PROVE  FALSE
        <3>1. p \notin Range(c) BY <1>6, <1>10, <2>2 DEF Range
        <3>2. pane'[p] = pane[p] /\ reader'[p] = reader[p] BY <1>4, <1>6, <3>1
        <3>3. Holds(pane, panes, p) BY <1>5, <2>2, <3>2 DEF Flowing, Flow
        <3> QED BY <1>5, <3>3 DEF Holds
    <2> QED BY <1>6, <2>1, <2>2 DEF Steady
<1> QED BY <1>9, <1>11, <1>12 DEF OwnerOp

LEMMA KeptByPrepareRestoreFails == ASSUME IInv, PrepareRestoreFails PROVE OwnerOp
<1> USE DEF IInv, Typed
<1>1. RestoreReady /\ UNCHANGED << closed, streams, model, pending, leftovers, owner >>
    BY DEF PrepareRestoreFails
<1>2. PICK c \in Candidates, n \in 0..MaxRestore, session \in {"none", "open"} :
        /\ n <= Len(c)
        /\ \E h \in SUBSET Range(c) :
             RollBack(Provisioned(c, n, session), ProvisionedIn(c, n), Range(c), h)
    BY DEF PrepareRestoreFails
<1>3. n \in Nat BY BoundsAssumption
<1> DEFINE q == Provisioned(c, n, session)
           r == ProvisionedIn(c, n)
<1>4. PICK freed \in SUBSET Range(c) :
        /\ pane' = CloseAll(q, freed) /\ panes' = Deregistered(r, freed)
        /\ rollback' = Range(c) \ freed
        /\ \A p \in freed : q[p].id \in DOMAIN r => r[q[p].id] = p
    BY <1>2 DEF RollBack
<1>5. /\ c \in Seq(Objects)
      /\ q \in [Objects -> PaneRecord]
      /\ \A i \in DOMAIN c : /\ pane[c[i]].state = "unused"
                             /\ q[c[i]].state \in {"starting", "running"}
      /\ \A p \in Objects \ Range(c) : q[p] = pane[p]
      /\ DOMAIN r = nextPane..nextPane + n - 1
      /\ r \in [DOMAIN r -> Objects]
      /\ Accounted(q, r, Range(c), Range(c), live, bootstrapped)
    <2> HIDE DEF IInv, Typed
    <2> QED BY <1>1, <1>2, <1>3, Restored
<1>6. owner = "open" /\ pending' = << >> /\ DOMAIN panes = {} /\ ~bootstrapped
      /\ Stranding /\ stranded = {}
    BY <1>1, NothingPending DEF RestoreReady, Stranding
<1>7. nextPane = 2 BY <1>6 DEF Owning, Numbered
<1>8. /\ DOMAIN r \subseteq Nat /\ 1 \notin DOMAIN r
      /\ DOMAIN r \subseteq DOMAIN panes \cup {i \in Nat : i >= nextPane}
    BY <1>3, <1>5, <1>7
<1>9. Range(c) \in SUBSET Objects BY <1>5 DEF Range
<1> HIDE DEF q, r
<1>10. ASSUME NEW p \in Objects
       PROVE  IF q[p] = pane[p] THEN Holds(pane, panes, p) => Holds(q, r, p)
              ELSE p \in Range(c) /\ pane[p].state = "unused"
                   /\ q[p].state \in {"starting", "running"}
    <2>1. ~Holds(pane, panes, p) BY <1>6 DEF Holds
    <2>2. CASE p \in Range(c) BY <1>5, <2>1, <2>2 DEF Range
    <2>3. CASE p \notin Range(c) BY <1>5, <2>1, <2>3
    <2> QED BY <2>2, <2>3
<1>11. UNCHANGED << closed, streams, model, leftovers, owner >> /\ owner = "open" BY <1>1, <1>6
<1>12. bootstrapped \/ 1 \notin DOMAIN r BY <1>8
<1> HIDE DEF IInv, Typed
<1>13. /\ q \in [Objects -> PaneRecord] /\ r \in [DOMAIN r -> Objects] /\ DOMAIN r \subseteq Nat
       /\ Accounted(q, r, Range(c), Range(c), live, bootstrapped)
       /\ DOMAIN r \subseteq DOMAIN panes \cup {i \in Nat : i >= nextPane}
    BY <1>5, <1>8
<1>14. \A p \in Objects : IF q[p] = pane[p] THEN Holds(pane, panes, p) => Holds(q, r, p)
                           ELSE p \in Range(c) /\ pane[p].state = "unused"
                                /\ q[p].state \in {"starting", "running"}
    BY <1>10
<1>15. pending' = << >> /\ Stranding BY <1>6
<1>16. /\ stranded \subseteq Range(c) /\ Range(c) \ stranded = Range(c)
       /\ freed \in SUBSET (Range(c) \ stranded) /\ rollback' = (Range(c) \ stranded) \ freed
    BY <1>4, <1>6
<1>17. /\ pane' = CloseAll(q, freed) /\ panes' = Deregistered(r, freed)
       /\ \A p \in freed : q[p].id \in DOMAIN r => r[q[p].id] = p
    BY <1>4
<1> QED BY <1>9, <1>11, <1>12, <1>13, <1>14, <1>15, <1>16, <1>17, RollBackKeeps

LEMMA KeptByAbortRestore == ASSUME IInv, AbortRestore PROVE OwnerOp
<1> USE DEF IInv, Typed
<1>1. /\ owner = "open" /\ pending # << >> /\ pending' = << >>
      /\ UNCHANGED << closed, streams, model, leftovers, owner >>
    BY DEF AbortRestore
<1>2. PICK freed \in SUBSET Range(pending) :
        /\ pane' = CloseAll(pane, freed) /\ panes' = Deregistered(panes, freed)
        /\ rollback' = Range(pending) \ freed
        /\ \A p \in freed : pane[p].id \in DOMAIN panes => panes[pane[p].id] = p
    BY DEF AbortRestore, RollBack
<1>3. Range(pending) \in SUBSET Objects BY DEF Range
<1>4. /\ Accounted(pane, panes, Range(pending), Range(pending), live, bootstrapped)
      /\ Stranding /\ stranded = {}
    <2>1. Stranding /\ rollback = {} /\ stranded = {} BY <1>1 DEF Owning, Restoring, Stranding
    <2>2. Accounted(pane, panes, {}, Range(pending), live, bootstrapped)
        <3>1. Unpublished = Range(pending) /\ rollback \cup stranded = {}
            BY <2>1 DEF Unpublished
        <3> QED BY <1>1, <3>1 DEF Owning
    <2> HIDE DEF IInv, Typed
    <2>3. Accounted(pane, panes, Range(pending), Range(pending), live, bootstrapped)
        BY <2>2 DEF Accounted
    <2> QED BY <2>1, <2>3
<1>5. bootstrapped \/ 1 \notin DOMAIN panes BY <1>1 DEF Owning, Numbered
<1>6. /\ stranded \subseteq Range(pending) /\ Range(pending) \ stranded = Range(pending)
      /\ freed \in SUBSET (Range(pending) \ stranded)
      /\ rollback' = (Range(pending) \ stranded) \ freed
    BY <1>2, <1>4
<1> QED BY <1>1, <1>2, <1>3, <1>4, <1>5, <1>6, RollBackKeeps

LEMMA KeptByCommitRestore == ASSUME IInv, CommitRestore PROVE OwnerOp
<1> USE DEF IInv, Typed
<1>1. /\ owner = "open" /\ pending # << >>
      /\ \A p \in Range(pending) : Lookup(pane[p].id) = p /\ pane[p].state = "running"
      /\ reader' = Launched(Range(pending))
      /\ live' = {pane[p].id : p \in Range(pending)}
      /\ nextPane' = nextPane + Len(pending)
      /\ bootstrapped' = TRUE /\ pending' = << >>
      /\ UNCHANGED << sessions, incoming, terminal, aftermath, owner >>
    BY DEF CommitRestore
<1>2. UNCHANGED << pane, panes, closed, incoming, terminal, rollback, reserved, stranded,
                   owner >>
    BY <1>1 DEF sessions, aftermath, recovery, leftovers
<1>3. /\ rollback = {} /\ stranded = {} /\ ~bootstrapped
      /\ \A i \in DOMAIN pending :
            pane[pending[i]].id = nextPane + i - 1 /\ reader[pending[i]].at = "none"
    BY <1>1 DEF Owning, Restoring, Stranding
<1>4. /\ nextPane = 2 /\ closed = {} /\ 1 \notin DOMAIN panes
      /\ Accounted(pane, panes, {}, Range(pending), live, bootstrapped)
    <2>1. Unpublished = Range(pending) /\ rollback \cup stranded = {} BY <1>3 DEF Unpublished
    <2>2. Accounted(pane, panes, {}, Range(pending), live, bootstrapped)
        BY <1>1, <2>1 DEF Owning
    <2> QED BY <1>1, <1>3, <2>2 DEF Owning, Numbered
<1>5. \A p \in Range(pending) : p \in Objects /\ Holds(pane, panes, p)
    <2>1. \A p \in Range(pending) : p \in Objects BY DEF Range
    <2>2. \A p \in Objects : p # None BY NoneAssumption
    <2> QED BY <1>1, <2>1, <2>2 DEF Lookup, Holds
<1>6. \A p \in Range(pending) : reader[p].at = "none" BY <1>3 DEF Range
<1>7. \A id \in live' : id \in 1..nextPane' - 1
    <2> SUFFICES ASSUME NEW i \in DOMAIN pending PROVE pane[pending[i]].id \in 1..nextPane' - 1
        BY <1>1 DEF Range
    <2> QED BY <1>1, <1>3, <1>4
<1>8. Typed'
    <2>1. reader' \in [Objects -> ReaderRecord] BY <1>1, LaunchedIs
    <2>2. nextPane' \in Nat \ {0} BY <1>1, <1>4
    <2>3. live' \subseteq Nat BY <1>7, <2>2
    <2>4. bootstrapped' \in BOOLEAN BY <1>1
    <2>5. pending' \in Seq(Objects) BY <1>1
    <2> QED BY <1>2, <2>1, <2>2, <2>3, <2>4, <2>5
<1>9. \A p \in Objects : pane[p].session = "open" => Holds(pane, panes, p)
    BY <1>3, <1>4 DEF Accounted
<1>10. \A id \in DOMAIN panes : /\ panes[id] \in Objects
                                /\ pane[panes[id]].id = id
                                /\ pane[panes[id]].state # "unused"
                                /\ panes[id] \in Range(pending)
    BY <1>3, <1>4 DEF Accounted
<1>11. live' \subseteq DOMAIN panes BY <1>1, <1>5 DEF Holds
<1>12. \A id \in DOMAIN panes : id \in live' BY <1>1, <1>10
<1>13. Owning'
    <2>1. rollback' \cup stranded' = {} /\ Unpublished' = {}
        BY <1>1, <1>2, <1>3 DEF Range, Unpublished
    <2>2. Accounted(pane, panes, {}, {}, live', TRUE)
        BY <1>9, <1>10, <1>11, <1>12 DEF Accounted
    <2>3. Accounted(pane', panes', rollback' \cup stranded', Unpublished', live', bootstrapped')
        <3>1. bootstrapped' = TRUE /\ pane' = pane /\ panes' = panes BY <1>1, <1>2
        <3> HIDE DEF IInv, Typed
        <3> QED BY <2>1, <2>2, <3>1
    <2>4. Numbered' BY <1>1, <1>2, <1>4, <1>7 DEF Numbered
    <2>5. Stranding' BY <1>1, <1>2, <1>3 DEF Stranding
    <2> QED BY <1>1, <1>2, <2>3, <2>4, <2>5 DEF Owning, Restoring
<1>14. Steady
    <2>1. ASSUME NEW p \in Objects PROVE Advances(p) /\ Starts(p)
        <3>1. Advances(p) BY <1>2 DEF Advances
        <3>2. CASE p \notin Range(pending)
            <4>1. reader'[p] = reader[p] BY <1>1, <3>2, LaunchedIs
            <4> QED BY <3>1, <4>1 DEF Starts
        <3>3. CASE p \in Range(pending)
            <4>1. reader'[p] = [at |-> "reading", read |-> 0, last |-> FALSE]
                BY <1>1, <3>3, LaunchedIs
            <4>2. pane'[p].state # "unused" /\ owner' = "open" BY <1>1, <1>2, <3>3
            <4> QED BY <1>6, <3>1, <3>3, <4>1, <4>2 DEF Starts
        <3> QED BY <3>2, <3>3
    <2>2. ASSUME NEW p \in Objects, reader'[p].at # "none", pane'[p].state # "closed"
          PROVE  Holds(pane', panes', p)
        <3>1. CASE p \in Range(pending) BY <1>2, <1>5, <3>1
        <3>2. CASE p \notin Range(pending)
            <4>1. reader'[p] = reader[p] BY <1>1, <3>2, LaunchedIs
            <4>2. Holds(pane, panes, p) BY <1>1, <1>2, <2>2, <4>1 DEF Flowing, Flow
            <4> QED BY <1>2, <4>2
        <3> QED BY <3>1, <3>2
    <2> QED BY <1>2, <2>1, <2>2 DEF Steady
<1> QED BY <1>8, <1>13, <1>14 DEF OwnerOp

LEMMA KeptByShutdown == ASSUME IInv, Shutdown PROVE OwnerOp
<1> USE DEF IInv, Typed
<1> DEFINE P == {panes[i] : i \in DOMAIN panes}
<1>1. /\ owner = "open" /\ rollback = {} /\ owner' = "closing"
      /\ panes' = [i \in {} |-> None] /\ closed' = closed \cup DOMAIN panes
      /\ pane' = CloseAll(pane, P)
      /\ UNCHANGED << streams, model, pending, aftermath >>
    BY DEF Shutdown
<1>2. UNCHANGED << reader, incoming, terminal, live, nextPane, bootstrapped, pending, rollback,
                   reserved, stranded >>
    BY <1>1 DEF streams, model, aftermath, recovery, leftovers
<1>3. \A p \in Objects :
        /\ pane'[p].id = pane[p].id
        /\ p \notin P => pane'[p] = pane[p]
        /\ p \in P => pane'[p].state = "closed" /\ pane'[p].session # "open"
    BY <1>1 DEF CloseAll, PaneRecord
<1>4. CloseAll(pane, P) \in [Objects -> PaneRecord] BY Shapes
<1>5. Typed'
    <2>1. panes' \in [DOMAIN panes' -> Objects] /\ DOMAIN panes' \subseteq Nat BY <1>1
    <2>2. pane' \in [Objects -> PaneRecord] BY <1>1, <1>4
    <2>3. closed' \subseteq Nat BY <1>1
    <2> QED BY <1>1, <1>2, <2>1, <2>2, <2>3
<1>6. /\ Accounted(pane, panes, rollback \cup stranded, Unpublished, live, bootstrapped)
      /\ Stranding
    BY <1>1 DEF Owning
<1>7. ASSUME NEW p \in Objects, pane'[p].session = "open"
      PROVE  p \in stranded' /\ pane'[p].id \in reserved'
    <2>1. p \notin P /\ pane'[p] = pane[p] BY <1>3, <1>7
    <2>2. ~Holds(pane, panes, p) BY <2>1 DEF Holds
    <2>3. p \in stranded BY <1>1, <1>6, <1>7, <2>1, <2>2 DEF Accounted
    <2> QED BY <1>2, <1>6, <2>1, <2>2, <2>3 DEF Stranding
<1>8. Owning' BY <1>1, <1>7 DEF Owning
<1> HIDE DEF P
<1>9. Steady
    <2>1. ASSUME NEW p \in Objects PROVE Advances(p) /\ Starts(p)
        BY <1>2, <1>3 DEF Advances, Starts
    <2> QED BY <1>1, <1>2, <2>1 DEF Steady
<1> QED BY <1>5, <1>8, <1>9 DEF OwnerOp
-----------------------------------------------------------------------------
LEMMA Records ==
    ASSUME IInv
    PROVE  \A i \in DOMAIN incoming : /\ incoming[i].pane \in Nat /\ incoming[i].owner \in Objects
                                      /\ incoming[i].chunk \in Nat
<1> SUFFICES ASSUME NEW i \in DOMAIN incoming
             PROVE  /\ incoming[i].pane \in Nat /\ incoming[i].owner \in Objects
                    /\ incoming[i].chunk \in Nat
    OBVIOUS
<1>1. incoming[i] \in Ingress BY DEF IInv, Typed
<1> QED BY <1>1 DEF Ingress

(* The readers.  A reader changes nothing the owner keeps.                 *)
LEMMA ReaderOwns ==
    ASSUME IInv, NEW p \in Objects, reader[p].at # "none",
           UNCHANGED << sessions, terminal, model, pending, aftermath, owner >>,
           reader' \in [Objects -> ReaderRecord], incoming' \in Seq(Ingress),
           \A x \in Objects : x # p => reader'[x] = reader[x]
    PROVE  Typed' /\ Owning' /\ OwnOutputInOrder'
<1> USE DEF IInv, Typed
<1>1. UNCHANGED << pane, panes, closed, terminal, live, nextPane, bootstrapped, pending,
                   rollback, reserved, stranded, owner >>
    BY DEF sessions, model, aftermath, recovery, leftovers
<1>2. Typed' BY <1>1
<1>3. Owning'
    <2>1. Unpublished' = Unpublished BY <1>1 DEF Range, Unpublished
    <2>4. ASSUME Stranding PROVE Stranding' BY <1>1, <2>4 DEF Stranding, Holds
    <2>2. ASSUME Numbered PROVE Numbered' BY <1>1, <2>2 DEF Numbered
    <2>3. ASSUME Restoring PROVE Restoring'
        <3>1. \A i \in DOMAIN pending : pending[i] # p
            BY <2>3 DEF Restoring
        <3> QED BY <1>1, <2>3, <3>1 DEF Restoring
    <2> QED BY <1>1, <2>1, <2>2, <2>3, <2>4 DEF Owning
<1>4. OwnOutputInOrder' BY <1>1 DEF OwnOutputInOrder
<1> QED BY <1>2, <1>3, <1>4

LEMMA OthersFlow ==
    ASSUME NEW p \in Objects, Flow(p), UNCHANGED << pane, panes, terminal >>,
           reader'[p] = reader[p],
           \A i \in DOMAIN incoming : i \in DOMAIN incoming' /\ incoming'[i] = incoming[i],
           \A i \in DOMAIN incoming' : i \in DOMAIN incoming \/ incoming'[i].owner # p
    PROVE  Flow(p)'
<1>1. Sent(p)' = Sent(p) BY DEF Sent
<1>2. \A i : Data(p, i)' <=> Data(p, i) BY DEF Data
<1> QED BY <1>1, <1>2 DEF Flow, Holds, Data

LEMMA KeptByReadChunk ==
    ASSUME IInv, NEW p \in Objects, ReadChunk(p)
    PROVE  IInv' /\ StreamsStep
<1> USE DEF IInv, Typed
<1>1. PICK last \in BOOLEAN :
        /\ reader[p].at = "reading"
        /\ reader' = [reader EXCEPT ![p] = [at |-> "data", read |-> @.read + 1, last |-> last]]
        /\ UNCHANGED << sessions, incoming, terminal, model, pending, aftermath, owner >>
    BY DEF ReadChunk
<1>2. UNCHANGED << pane, panes, incoming, terminal, owner >> BY <1>1 DEF sessions
<1>3. /\ reader'[p].at = "data" /\ reader'[p].read = reader[p].read + 1
      /\ reader'[p].last = last /\ reader[p].read \in Nat
    BY <1>1 DEF ReaderRecord
<1>4. \A x \in Objects : x # p => reader'[x] = reader[x] BY <1>1
<1>5. reader' \in [Objects -> ReaderRecord]
    <2>1. [at |-> "data", read |-> reader[p].read + 1, last |-> last] \in ReaderRecord
        BY <1>3 DEF ReaderRecord
    <2> QED BY <1>1, <2>1
<1>6. Typed' /\ Owning' /\ OwnOutputInOrder' BY <1>1, <1>2, <1>4, <1>5, ReaderOwns
<1>7. Reading'
    <2>1. \A i \in DOMAIN incoming : incoming[i].owner = p => incoming[i].chunk # 0
        BY <1>1 DEF Reading, Carried
    <2>2. \A i \in DOMAIN incoming : incoming[i].owner \in Objects BY Records
    <2> QED BY <1>1, <1>2, <1>3, <1>4, <2>1, <2>2 DEF Reading, ReaderKept, Carried, ReaderAlive
<1>8. Flowing'
    <2>1. ASSUME Flow(p) PROVE Flow(p)'
        <3>1. Sent(p)' = Sent(p) BY <1>1, <1>3 DEF Sent
        <3>2. \A i : Data(p, i)' <=> Data(p, i) BY <1>2 DEF Data
        <3> QED BY <1>1, <1>2, <2>1, <3>1, <3>2 DEF Flow, Holds
    <2>2. ASSUME NEW x \in Objects, x # p, Flow(x) PROVE Flow(x)'
        <3> HIDE DEF IInv, Typed
        <3> QED BY <1>2, <1>4, <2>2, OthersFlow
    <2> QED BY <1>2, <2>1, <2>2 DEF Flowing
<1>9. StreamsStep
    <2> DEFINE before == [x \in Objects |-> reader[x].last]
               after == [x \in Objects |-> reader'[x].last]
    <2>1. after = [before EXCEPT ![p] = last]
        <3>1. after = [x \in Objects |-> after[x]] /\ before = [x \in Objects |-> before[x]]
            OBVIOUS
        <3>2. \A x \in Objects : x # p => after[x] = before[x] BY <1>4
        <3>3. after[p] = last BY <1>3
        <3> HIDE DEF before, after
        <3> QED BY <3>1, <3>2, <3>3, Pointwise
    <2>2. ~before[p] BY <1>1 DEF Reading, ReaderKept
    <2>3. [x \in Objects |-> reader'[x].read] =
            [[x \in Objects |-> reader[x].read] EXCEPT ![p] = @ + 1]
        BY <1>3, <1>4
    <2>4. pane[p].state # "exited" BY <1>1 DEF Reading, ReaderKept
    <2>5. Streams!Write(p, last)
        BY <1>2, <2>1, <2>2, <2>3, <2>4 DEF Streams!Write
    <2>6. Streams!Next BY <2>5 DEF Streams!Next
    <2> QED BY <2>6 DEF StreamsStep
<1> QED BY <1>6, <1>7, <1>8, <1>9

LEMMA KeptByReadEnd ==
    ASSUME IInv, NEW p \in Objects, ReadEnd(p)
    PROVE  IInv' /\ StreamsStep
<1> USE DEF IInv, Typed
<1>1. /\ reader[p].at = "reading"
      /\ reader' = [reader EXCEPT ![p].at = "end", ![p].last = TRUE]
      /\ UNCHANGED << sessions, incoming, terminal, model, pending, aftermath, owner >>
    BY DEF ReadEnd
<1>2. /\ reader[p].at = "reading"
      /\ UNCHANGED << sessions, incoming, terminal, model, pending, aftermath, owner >>
      /\ UNCHANGED << pane, panes, incoming, terminal, owner >>
    BY <1>1 DEF sessions
<1>3. reader'[p].at = "end" /\ reader'[p].read = reader[p].read /\ reader'[p].last = TRUE
    <2>1. reader'[p] = [reader[p] EXCEPT !.at = "end", !.last = TRUE] BY <1>1
    <2>2. reader[p] \in ReaderRecord OBVIOUS
    <2> QED BY <2>1, <2>2, Zenon DEF ReaderRecord
<1>4. \A x \in Objects : x # p => reader'[x] = reader[x] BY <1>1
<1>5. reader' \in [Objects -> ReaderRecord]
    <2>1. reader'[p] \in ReaderRecord BY <1>1, <1>3 DEF ReaderRecord
    <2>2. reader' = [x \in Objects |-> reader'[x]] BY <1>1
    <2> QED BY <1>4, <2>1, <2>2
<1>6. Typed' /\ Owning' /\ OwnOutputInOrder' BY <1>2, <1>4, <1>5, ReaderOwns
<1>7. Reading'
    <2>1. \A i \in DOMAIN incoming : incoming[i].owner = p => incoming[i].chunk # 0
        BY <1>2 DEF Reading, Carried
    <2>2. \A i \in DOMAIN incoming : incoming[i].owner \in Objects BY Records
    <2>3. reader'[p].at = "end" /\ reader'[p].last BY <1>3
    <2>4. pane[p].state \notin {"unused", "exited"} /\ owner # "closed"
        BY <1>2 DEF Reading, ReaderKept, ReaderAlive
    <2>5. ReaderKept(p)' BY <1>2, <2>3, <2>4 DEF ReaderKept
    <2>6. ASSUME NEW x \in Objects, x # p
          PROVE  ReaderKept(x)'
        BY <1>2, <1>4, <2>6 DEF Reading, ReaderKept, ReaderAlive
    <2>7. ASSUME NEW j \in DOMAIN incoming'
          PROVE  Carried(j)'
        <3>1. Carried(j) BY <1>2 DEF Reading
        <3>2. CASE incoming[j].owner = p BY <1>2, <2>1, <2>3, <3>1, <3>2 DEF Carried
        <3>3. CASE incoming[j].owner # p BY <1>2, <1>4, <2>2, <3>1, <3>3 DEF Carried
        <3> QED BY <3>2, <3>3
    <2> QED BY <2>5, <2>6, <2>7 DEF Reading, ReaderKept
<1>8. Flowing'
    <2>1. ASSUME Flow(p) PROVE Flow(p)'
        <3>1. Sent(p)' = Sent(p) BY <1>1, <1>3 DEF Sent
        <3>2. \A i : Data(p, i)' <=> Data(p, i) BY <1>2 DEF Data
        <3> QED BY <1>1, <1>2, <2>1, <3>1, <3>2 DEF Flow, Holds
    <2>2. ASSUME NEW x \in Objects, x # p, Flow(x) PROVE Flow(x)'
        <3> HIDE DEF IInv, Typed
        <3> QED BY <1>2, <1>4, <2>2, OthersFlow
    <2> QED BY <1>2, <2>1, <2>2 DEF Flowing
<1>9. StreamsStep
    <2> DEFINE before == [x \in Objects |-> reader[x].last]
               after == [x \in Objects |-> reader'[x].last]
    <2>1. after = [before EXCEPT ![p] = TRUE]
        <3>1. after = [x \in Objects |-> after[x]] /\ before = [x \in Objects |-> before[x]]
            OBVIOUS
        <3>2. \A x \in Objects : x # p => after[x] = before[x] BY <1>4
        <3>3. after[p] = TRUE BY <1>3
        <3> HIDE DEF before, after
        <3> QED BY <3>1, <3>2, <3>3, Pointwise
    <2>2. ~before[p] BY <1>2 DEF Reading, ReaderKept
    <2>3. [x \in Objects |-> reader'[x].read] = [x \in Objects |-> reader[x].read]
        BY <1>3, <1>4
    <2>4. Streams!End(p) BY <1>2, <2>1, <2>2, <2>3 DEF Streams!End
    <2>5. Streams!Next BY <2>4 DEF Streams!Next
    <2> QED BY <2>5 DEF StreamsStep
<1> QED BY <1>6, <1>7, <1>8, <1>9

LEMMA KeptByGiveUp ==
    ASSUME IInv, NEW p \in Objects, GiveUp(p)
    PROVE  IInv' /\ StreamsStep
<1> USE DEF IInv, Typed
<1>1. /\ reader[p].at \in {"data", "end"}
      /\ pane[p].state = "closed" \/ owner # "open"
      /\ reader' = [reader EXCEPT ![p].at = "ended"]
      /\ UNCHANGED << sessions, incoming, terminal, model, pending, aftermath, owner >>
    BY DEF GiveUp
<1>2. UNCHANGED << pane, panes, incoming, terminal, owner >> BY <1>1 DEF sessions
<1>3. /\ reader'[p].at = "ended" /\ reader'[p].read = reader[p].read
      /\ reader'[p].last = reader[p].last
    BY <1>1 DEF ReaderRecord
<1>4. \A x \in Objects : x # p => reader'[x] = reader[x] BY <1>1
<1>5. reader' \in [Objects -> ReaderRecord] BY <1>1 DEF ReaderRecord
<1>6. Typed' /\ Owning' /\ OwnOutputInOrder' BY ZenonT(30), <1>1, <1>2, <1>4, <1>5, ReaderOwns
<1>7. Reading'
    <2>1. \A i \in DOMAIN incoming : incoming[i].owner = p => incoming[i].chunk # 0
        BY <1>1 DEF Reading, Carried
    <2>2. \A i \in DOMAIN incoming : incoming[i].owner \in Objects BY Records
    <2> QED BY <1>1, <1>2, <1>3, <1>4, <2>1, <2>2 DEF Reading, ReaderKept, Carried, ReaderAlive
<1>8. Flowing'
    <2>1. ASSUME NEW x \in Objects, x # p, Flow(x) PROVE Flow(x)'
        <3> HIDE DEF IInv, Typed
        <3> QED BY <1>2, <1>4, <2>1, OthersFlow
    <2> QED BY <1>1, <1>2, <2>1 DEF Flowing
<1>9. StreamsStep
    <2>1. \A x \in Objects : reader'[x].read = reader[x].read /\ reader'[x].last = reader[x].last
        BY <1>3, <1>4
    <2>2. UNCHANGED Streams!vars BY <1>2, <2>1 DEF Streams!vars
    <2> QED BY <2>2 DEF StreamsStep
<1> QED BY <1>6, <1>7, <1>8, <1>9

LEMMA KeptByEnqueue ==
    ASSUME IInv, NEW p \in Objects, Enqueue(p)
    PROVE  IInv' /\ StreamsStep
<1> USE DEF IInv, Typed
<1> DEFINE at == CASE reader[p].at = "end" -> "ended"
                   [] reader[p].at = "data" /\ reader[p].last -> "end"
                   [] OTHER -> "reading"
<1>0. PICK n \in Nat : n = Len(incoming) + 1 OBVIOUS
<1>1. /\ reader[p].at \in {"data", "end"}
      /\ incoming' = Append(incoming, Record(p))
      /\ reader' = [reader EXCEPT ![p].at = at]
      /\ UNCHANGED << sessions, terminal, model, pending, aftermath, owner >>
    BY DEF Enqueue
<1>2. UNCHANGED << pane, panes, terminal, owner >> BY <1>1 DEF sessions
<1>3. reader'[p].at = at /\ reader'[p].read = reader[p].read /\ reader'[p].last = reader[p].last
    BY <1>1 DEF ReaderRecord
<1>4. \A x \in Objects : x # p => reader'[x] = reader[x] BY <1>1
<1>5. reader' \in [Objects -> ReaderRecord] BY <1>1 DEF ReaderRecord
<1>6. /\ reader[p].read \in Nat /\ pane[p].id \in Nat
      /\ reader[p].at = "data" => reader[p].read > 0
      /\ reader[p].at = "end" => reader[p].last
    BY DEF Reading, ReaderKept, ReaderRecord, PaneRecord
<1>7. Record(p) \in Ingress BY <1>6 DEF Record, Ingress
<1>8. /\ incoming' \in Seq(Ingress) /\ DOMAIN incoming' = DOMAIN incoming \cup {n}
      /\ n \notin DOMAIN incoming /\ incoming'[n] = Record(p)
      /\ \A i \in DOMAIN incoming : incoming'[i] = incoming[i] /\ i < n
    BY <1>0, <1>1, <1>7
<1>9. Typed' /\ Owning' /\ OwnOutputInOrder' BY <1>1, <1>4, <1>5, <1>8, ReaderOwns
<1>10. \A i \in DOMAIN incoming : /\ incoming[i].owner \in Objects /\ incoming[i].chunk \in Nat
                                  /\ incoming[i].owner = p => incoming[i].chunk # 0
    BY <1>1, Records DEF Reading, Carried
<1>11. /\ Record(p).owner = p /\ Record(p).pane = pane[p].id
       /\ Record(p).chunk = IF reader[p].at = "data" THEN reader[p].read ELSE 0
    BY DEF Record
<1>12. Reading'
    <2>1. ReaderKept(p)'
        <3>1. pane[p].state \notin {"unused", "exited"} /\ owner # "closed"
            BY <1>1 DEF Reading, ReaderKept, ReaderAlive
        <3> QED BY <1>1, <1>2, <1>3, <1>6, <3>1 DEF ReaderKept
    <2>2. ASSUME NEW x \in Objects, x # p PROVE ReaderKept(x)'
        BY <1>2, <1>4, <2>2 DEF Reading, ReaderKept, ReaderAlive
    <2>3. ASSUME NEW i \in DOMAIN incoming PROVE Carried(i)'
        <3>1. Carried(i) BY DEF Reading
        <3>2. at # "none" OBVIOUS
        <3>3. CASE incoming[i].owner = p
            BY <1>2, <1>3, <1>8, <1>10, <3>1, <3>2, <3>3 DEF Carried
        <3>4. CASE incoming[i].owner # p
            BY <1>2, <1>4, <1>8, <1>10, <3>1, <3>4 DEF Carried
        <3> QED BY <3>3, <3>4
    <2>4. Carried(n)' BY <1>1, <1>2, <1>3, <1>6, <1>8, <1>11 DEF Carried
    <2> QED BY <1>8, <2>1, <2>2, <2>3, <2>4 DEF Reading
<1>13. ASSUME Flow(p) PROVE Flow(p)'
    <2>1. reader[p].at # "none" BY <1>1
    <2>2. Holds(pane', panes', p) BY <1>2, <1>13, <2>1 DEF Flow
    <2>3. \A i \in DOMAIN incoming : Data(p, i)' <=> Data(p, i) BY <1>8 DEF Data
    <2>4. Len(terminal[p]) \in Nat OBVIOUS
    <2>5. CASE reader[p].at = "data"
        <3>1. Sent(p) = reader[p].read - 1 /\ Sent(p)' = reader[p].read BY <1>3, <2>5 DEF Sent
        <3>2. Data(p, n)' /\ incoming'[n].chunk = Sent(p)' BY <1>6, <1>8, <1>11, <2>5, <3>1 DEF Data
        <3>3. Len(terminal'[p]) <= Sent(p)' BY <1>2, <1>6, <1>13, <2>4, <3>1 DEF Flow
        <3>4. ASSUME NEW i \in DOMAIN incoming', Data(p, i)'
              PROVE  /\ incoming'[i].chunk > Len(terminal'[p]) /\ incoming'[i].chunk <= Sent(p)'
                     /\ \A j \in DOMAIN incoming' :
                           /\ Data(p, j)' /\ i < j => incoming'[i].chunk < incoming'[j].chunk
                           /\ incoming'[j].owner = p /\ incoming'[j].chunk = 0 => i < j
            <4>1. \A j \in DOMAIN incoming' : incoming'[j].owner = p => incoming'[j].chunk # 0
                BY <1>6, <1>8, <1>10, <1>11, <2>5
            <4>2. CASE i = n
                <5>1. \A j \in DOMAIN incoming' : ~(i < j) BY <1>8, <4>2
                <5> QED BY <1>2, <1>6, <1>13, <2>4, <3>1, <3>2, <4>1, <4>2, <5>1 DEF Flow
            <4>3. CASE i \in DOMAIN incoming
                <5>1. Data(p, i) /\ incoming'[i] = incoming[i] BY <1>8, <2>3, <3>4, <4>3
                <5>2. incoming[i].chunk > Len(terminal[p]) /\ incoming[i].chunk <= Sent(p)
                    BY <1>13, <5>1, <4>3 DEF Flow
                <5>3. ASSUME NEW j \in DOMAIN incoming', Data(p, j)', i < j
                      PROVE  incoming'[i].chunk < incoming'[j].chunk
                    <6>1. CASE j = n BY <1>6, <1>10, <3>1, <3>2, <5>1, <5>2, <6>1, <4>3
                    <6>2. CASE j \in DOMAIN incoming
                        <7>1. Data(p, j) /\ incoming'[j] = incoming[j] BY <1>8, <2>3, <5>3, <6>2
                        <7> QED BY <1>13, <4>3, <5>1, <5>3, <6>2, <7>1 DEF Flow
                    <6> QED BY <1>8, <6>1, <6>2
                <5> QED BY <1>2, <1>6, <1>10, <3>1, <4>1, <4>3, <5>1, <5>2, <5>3
            <4> QED BY <1>8, <4>2, <4>3
        <3>5. ASSUME NEW m \in Nat, Len(terminal'[p]) < m, m <= Sent(p)'
              PROVE  \E i \in DOMAIN incoming' : Data(p, i)' /\ incoming'[i].chunk = m
            <4>1. CASE m = Sent(p)' BY <1>8, <3>2, <4>1
            <4>2. CASE m # Sent(p)'
                <5>1. m <= Sent(p) BY <1>6, <3>1, <3>5, <4>2
                <5>2. PICK i \in DOMAIN incoming : Data(p, i) /\ incoming[i].chunk = m
                    BY <1>2, <1>13, <3>5, <5>1 DEF Flow
                <5> QED BY <1>8, <2>3, <5>2
            <4> QED BY <4>1, <4>2
        <3> QED BY <2>2, <3>3, <3>4, <3>5 DEF Flow
    <2>6. CASE reader[p].at = "end"
        <3>1. Sent(p)' = Sent(p) BY <1>3, <2>6 DEF Sent
        <3>2. ~Data(p, n)' BY <1>8, <1>11, <2>6 DEF Data
        <3>3. ASSUME NEW i \in DOMAIN incoming', Data(p, i)'
              PROVE  /\ incoming'[i].chunk > Len(terminal'[p]) /\ incoming'[i].chunk <= Sent(p)'
                     /\ \A j \in DOMAIN incoming' :
                           /\ Data(p, j)' /\ i < j => incoming'[i].chunk < incoming'[j].chunk
                           /\ incoming'[j].owner = p /\ incoming'[j].chunk = 0 => i < j
            <4>1. i \in DOMAIN incoming /\ Data(p, i) /\ incoming'[i] = incoming[i]
                BY <1>8, <2>3, <3>2, <3>3
            <4>2. ASSUME NEW j \in DOMAIN incoming', Data(p, j)', i < j
                  PROVE  incoming'[i].chunk < incoming'[j].chunk
                <5>1. j \in DOMAIN incoming /\ Data(p, j) /\ incoming'[j] = incoming[j]
                    BY <1>8, <2>3, <3>2, <4>2
                <5> QED BY <1>13, <4>1, <4>2, <5>1 DEF Flow
            <4>3. ASSUME NEW j \in DOMAIN incoming', incoming'[j].owner = p, incoming'[j].chunk = 0
                  PROVE  i < j
                BY <1>8, <1>10, <4>1, <4>3
            <4> QED BY <1>2, <1>13, <3>1, <4>1, <4>2, <4>3 DEF Flow
        <3>4. ASSUME NEW m \in Nat, Len(terminal'[p]) < m, m <= Sent(p)'
              PROVE  \E i \in DOMAIN incoming' : Data(p, i)' /\ incoming'[i].chunk = m
            <4>1. PICK i \in DOMAIN incoming : Data(p, i) /\ incoming[i].chunk = m
                BY <1>2, <1>13, <3>1, <3>4 DEF Flow
            <4> QED BY <1>8, <2>3, <4>1
        <3>5. Len(terminal'[p]) <= Sent(p)' BY <1>2, <1>13, <3>1 DEF Flow
        <3> QED BY <2>2, <3>3, <3>4, <3>5 DEF Flow
    <2> QED BY <1>1, <2>5, <2>6
<1>14. Flowing'
    <2>1. ASSUME NEW x \in Objects, x # p, Flow(x) PROVE Flow(x)'
        <3>1. /\ \A i \in DOMAIN incoming : i \in DOMAIN incoming' /\ incoming'[i] = incoming[i]
              /\ \A i \in DOMAIN incoming' : i \in DOMAIN incoming \/ incoming'[i].owner # x
            BY <1>8, <1>11, <2>1
        <3>2. reader'[x] = reader[x] BY <1>4, <2>1
        <3> HIDE DEF IInv, Typed
        <3> QED BY <1>2, <2>1, <3>1, <3>2, OthersFlow
    <2> QED BY <1>2, <1>13, <2>1 DEF Flowing
<1>15. StreamsStep
    <2>1. \A x \in Objects : reader'[x].read = reader[x].read /\ reader'[x].last = reader[x].last
        BY <1>3, <1>4
    <2>2. UNCHANGED Streams!vars BY <1>2, <2>1 DEF Streams!vars
    <2> QED BY <2>2 DEF StreamsStep
<1> QED BY <1>9, <1>12, <1>14, <1>15
-----------------------------------------------------------------------------
(* Draining one record.                                                    *)
LEMMA RestFlows ==
    ASSUME IInv, NEW p \in Objects, Flow(p), incoming # << >>,
           incoming' = Tail(incoming), UNCHANGED << reader, panes >>,
           pane'[p].id = pane[p].id, terminal' \in [Objects -> Seq(Ingress)],
           \/ terminal'[p] = terminal[p] /\ ~Data(p, 1)
           \/ /\ Data(p, 1) /\ incoming[1].chunk = Len(terminal[p]) + 1
              /\ Len(terminal'[p]) = Len(terminal[p]) + 1
    PROVE  Flow(p)'
<1> USE DEF IInv, Typed
<1>1. /\ \A i \in DOMAIN incoming' : /\ i \in Nat /\ i + 1 \in DOMAIN incoming
                                     /\ incoming'[i] = incoming[i + 1]
      /\ \A i \in DOMAIN incoming : i # 1 => i \in Nat /\ i - 1 \in DOMAIN incoming'
      /\ 1 \in DOMAIN incoming
    OBVIOUS
<1>2. Sent(p)' = Sent(p) /\ Sent(p) \in Int BY DEF Sent, ReaderRecord
<1>3. \A i \in DOMAIN incoming' : Data(p, i)' => Data(p, i + 1) BY <1>1 DEF Data
<1>4. /\ Len(terminal[p]) \in Nat /\ Len(terminal'[p]) \in Nat
      /\ \A i \in DOMAIN incoming : incoming[i].chunk \in Nat
    BY Records
<1>5. Holds(pane, panes, p) => Holds(pane', panes', p) BY DEF Holds
<1>6. Len(terminal'[p]) <= Sent(p)' BY <1>1, <1>2, <1>4 DEF Flow
<1>7. ASSUME NEW i \in DOMAIN incoming', Data(p, i)'
      PROVE  /\ incoming'[i].chunk > Len(terminal'[p]) /\ incoming'[i].chunk <= Sent(p)'
             /\ \A j \in DOMAIN incoming' :
                   /\ Data(p, j)' /\ i < j => incoming'[i].chunk < incoming'[j].chunk
                   /\ incoming'[j].owner = p /\ incoming'[j].chunk = 0 => i < j
    <2>1. /\ Data(p, i + 1) /\ i + 1 \in DOMAIN incoming /\ incoming'[i] = incoming[i + 1]
          /\ i \in Nat /\ i # 0
        BY <1>1, <1>3, <1>7
    <2>2. incoming[i + 1].chunk > Len(terminal[p]) /\ incoming[i + 1].chunk <= Sent(p)
        BY <2>1 DEF Flow
    <2>3. incoming[i + 1].chunk > Len(terminal'[p])
        <3>1. CASE terminal'[p] = terminal[p] BY <2>2, <3>1
        <3>2. CASE /\ Data(p, 1) /\ incoming[1].chunk = Len(terminal[p]) + 1
                   /\ Len(terminal'[p]) = Len(terminal[p]) + 1
            <4>1. 1 < i + 1 BY <2>1
            <4>2. incoming[1].chunk < incoming[i + 1].chunk BY <1>1, <2>1, <3>2, <4>1 DEF Flow
            <4> QED BY <1>4, <2>1, <3>2, <4>2
        <3> QED BY <3>1, <3>2
    <2>4. ASSUME NEW j \in DOMAIN incoming', Data(p, j)', i < j
          PROVE  incoming'[i].chunk < incoming'[j].chunk
        <3>1. /\ Data(p, j + 1) /\ j + 1 \in DOMAIN incoming /\ incoming'[j] = incoming[j + 1]
              /\ j \in Nat /\ i + 1 < j + 1
            BY <1>1, <1>3, <2>1, <2>4
        <3> QED BY <2>1, <3>1 DEF Flow
    <2>5. ASSUME NEW j \in DOMAIN incoming', incoming'[j].owner = p, incoming'[j].chunk = 0
          PROVE  i < j
        <3>1. /\ j + 1 \in DOMAIN incoming /\ incoming[j + 1].owner = p
              /\ incoming[j + 1].chunk = 0 /\ j \in Nat
            BY <1>1, <2>5
        <3>2. i + 1 < j + 1 BY <2>1, <3>1 DEF Flow
        <3> QED BY <2>1, <3>1, <3>2
    <2> QED BY <1>2, <2>1, <2>2, <2>3, <2>4, <2>5
<1>8. ASSUME NEW m \in Nat, Len(terminal'[p]) < m, m <= Sent(p)'
      PROVE  \E i \in DOMAIN incoming' : Data(p, i)' /\ incoming'[i].chunk = m
    <2>1. Len(terminal[p]) < m /\ m <= Sent(p) BY <1>2, <1>4, <1>8
    <2>2. PICK i \in DOMAIN incoming : Data(p, i) /\ incoming[i].chunk = m BY <2>1 DEF Flow
    <2>3. i # 1 BY <1>4, <1>8, <2>2
    <2>4. i - 1 \in DOMAIN incoming' /\ incoming'[i - 1] = incoming[i] BY <1>1, <2>2, <2>3
    <2> QED BY <2>2, <2>4 DEF Data
<1> QED BY <1>5, <1>6, <1>7, <1>8 DEF Flow

LEMMA Accepted ==
    ASSUME IInv, owner = "open", incoming # << >>
    PROVE  /\ 1 \in DOMAIN incoming /\ Head(incoming) = incoming[1]
           /\ incoming[1].owner \in Objects
           /\ \A p \in Objects : incoming[1].owner = p /\ pane[p].state # "closed" =>
                Accepts(incoming[1])
           /\ Accepts(incoming[1]) =>
                /\ Lookup(incoming[1].pane) = incoming[1].owner
                /\ pane[incoming[1].owner].state # "closed"
                /\ Flow(incoming[1].owner)
<1> USE DEF IInv, Typed
<1>1. 1 \in DOMAIN incoming /\ Head(incoming) = incoming[1] OBVIOUS
<1>2. incoming[1].owner \in Objects BY <1>1, Records
<1>3. ASSUME NEW p \in Objects, incoming[1].owner = p, pane[p].state # "closed"
      PROVE  Accepts(incoming[1])
    <2>1. reader[p].at # "none" /\ incoming[1].pane = pane[p].id
        BY <1>1, <1>3 DEF Reading, Carried
    <2>2. Holds(pane, panes, p) BY <1>3, <2>1 DEF Flowing, Flow
    <2>3. p # None BY NoneAssumption
    <2> QED BY <1>3, <2>1, <2>2, <2>3 DEF Accepts, Lookup, Holds
<1>4. Accepts(incoming[1]) =>
        /\ Lookup(incoming[1].pane) = incoming[1].owner
        /\ pane[incoming[1].owner].state # "closed"
    BY DEF Accepts
<1>5. Accepts(incoming[1]) => Flow(incoming[1].owner) BY <1>2, <1>4 DEF Flowing
<1> QED BY <1>1, <1>2, <1>3, <1>4, <1>5

(* Whatever is drained, the registry and the pending restore stay.         *)
LEMMA DrainOwns ==
    ASSUME IInv, owner = "open",
           UNCHANGED << panes, closed, reader, model, pending, aftermath, owner >>,
           pane' \in [Objects -> PaneRecord],
           \A p \in Objects : /\ pane'[p].id = pane[p].id /\ pane'[p].session = pane[p].session
                              /\ pane'[p].state = "unused" => pane[p].state = "unused"
    PROVE  Owning'
<1> USE DEF IInv, Typed
<1>1. UNCHANGED << panes, closed, reader, live, nextPane, bootstrapped, pending, rollback,
                   reserved, stranded, owner >>
    BY DEF model, aftermath, recovery, leftovers
<1>2. /\ Accounted(pane, panes, rollback \cup stranded, Unpublished, live, bootstrapped)
      /\ Numbered /\ Restoring /\ Stranding
    BY DEF Owning
<1>3. /\ \A p \in Unpublished : p \in Objects
      /\ Unpublished' = Unpublished
    BY <1>1 DEF Range, Unpublished
<1>4. \A p \in Objects : Holds(pane', panes', p) <=> Holds(pane, panes, p) BY <1>1 DEF Holds
<1>5. Accounted(pane', panes', rollback \cup stranded, Unpublished, live, bootstrapped)
    BY ZenonT(30), <1>1, <1>2, <1>3, <1>4 DEF Accounted
<1>6. Numbered' BY <1>1, <1>2 DEF Numbered
<1>7. Restoring' BY <1>1, <1>2 DEF Restoring
<1>8. Stranding' BY <1>1, <1>2, <1>4 DEF Stranding
<1> QED BY <1>1, <1>3, <1>5, <1>6, <1>7, <1>8 DEF Owning

LEMMA KeptByDrain ==
    ASSUME IInv, Drain
    PROVE  IInv' /\ StreamsStep
<1> USE DEF IInv, Typed
<1> DEFINE record == incoming[1]
<1>1. PICK p : p = incoming[1].owner OBVIOUS
<1>2. /\ owner = "open" /\ incoming # << >> /\ incoming' = Tail(incoming)
      /\ UNCHANGED << panes, closed, reader, model, pending, aftermath, owner >>
      /\ UNCHANGED << live, nextPane, bootstrapped, rollback, held, refusals, reserved, stranded >>
    BY DEF Drain, model, aftermath, recovery, leftovers
<1>3. /\ 1 \in DOMAIN incoming /\ Head(incoming) = incoming[1] /\ p \in Objects
      /\ \A x \in Objects : incoming[1].owner = x /\ pane[x].state # "closed" =>
            Accepts(incoming[1])
      /\ Accepts(incoming[1]) =>
            Lookup(incoming[1].pane) = p /\ pane[p].state # "closed" /\ Flow(p)
    BY <1>1, <1>2, Accepted
<1>4. /\ incoming' \in Seq(Ingress)
      /\ \A i \in DOMAIN incoming' : i + 1 \in DOMAIN incoming /\ incoming'[i] = incoming[i + 1]
    BY <1>2
<1>5. /\ reader[p].at # "none" /\ incoming[1].chunk \in Nat /\ incoming[1] \in Ingress
      /\ incoming[1].chunk = 0 => reader[p].at = "ended" /\ reader[p].last
    BY <1>1, <1>3, Records DEF Reading, Carried
<1>6. Len(terminal[p]) \in Nat /\ reader[p].read \in Nat BY <1>3 DEF ReaderRecord
<1>7. ASSUME NEW x \in Objects, x # p PROVE ~Data(x, 1) BY <1>1, <1>7 DEF Data
(* What the three outcomes have in common.                                 *)
<1>8. ASSUME pane' \in [Objects -> PaneRecord], terminal' \in [Objects -> Seq(Ingress)],
             \A x \in Objects :
                /\ pane'[x].id = pane[x].id /\ pane'[x].session = pane[x].session
                /\ pane'[x].state = "unused" => pane[x].state = "unused"
                /\ pane'[x].state = "closed" => pane[x].state = "closed"
                /\ x # p => pane'[x] = pane[x] /\ terminal'[x] = terminal[x],
             pane[p].state = "closed" => pane'[p].state = "closed" /\ terminal'[p] = terminal[p],
             pane'[p].state = "exited" =>
                reader[p].at = "ended" /\ Len(terminal'[p]) = reader[p].read,
             pane[p].state # "closed" =>
                \/ terminal'[p] = terminal[p] /\ ~Data(p, 1)
                \/ /\ Data(p, 1) /\ incoming[1].chunk = Len(terminal[p]) + 1
                   /\ Len(terminal'[p]) = Len(terminal[p]) + 1,
             OwnOutputInOrder'
      PROVE  IInv'
    <2>1. Typed' BY <1>2, <1>4, <1>8
    <2>2. Owning'
        <3> HIDE DEF IInv, Typed
        <3> QED BY <1>2, <1>8, DrainOwns
    <2>3. Reading'
        <3>1. ASSUME NEW x \in Objects PROVE ReaderKept(x)'
            BY <1>2, <1>5, <1>8, <3>1 DEF Reading, ReaderKept, ReaderAlive
        <3>2. ASSUME NEW i \in DOMAIN incoming' PROVE Carried(i)'
            <4>1. Carried(i + 1) /\ incoming'[i] = incoming[i + 1] BY <1>4 DEF Reading
            <4>2. incoming[i + 1].owner \in Objects BY <1>4, Records
            <4> QED BY <1>2, <1>8, <4>1, <4>2 DEF Carried
        <3> QED BY <3>1, <3>2 DEF Reading
    <2>4. ASSUME NEW x \in Objects, pane'[x].state # "closed" PROVE Flow(x)'
        <3>1. pane[x].state # "closed" BY <1>8, <2>4
        <3>2. Flow(x) BY <1>2, <3>1 DEF Flowing
        <3>3. \/ terminal'[x] = terminal[x] /\ ~Data(x, 1)
              \/ /\ Data(x, 1) /\ incoming[1].chunk = Len(terminal[x]) + 1
                 /\ Len(terminal'[x]) = Len(terminal[x]) + 1
            BY <1>7, <1>8, <3>1
        <3>4. UNCHANGED << reader, panes >> /\ pane'[x].id = pane[x].id BY <1>2, <1>8
        <3> HIDE DEF IInv, Typed
        <3> QED BY <1>2, <1>8, <3>2, <3>3, <3>4, RestFlows
    <2>5. Flowing' BY <2>4 DEF Flowing
    <2> QED BY <1>8, <2>1, <2>2, <2>3, <2>5
<1>9. CASE ~Accepts(incoming[1])
    <2>1. UNCHANGED << pane, terminal >> BY <1>3, <1>9 DEF Drain
    <2>2. pane[p].state = "closed" BY <1>1, <1>3, <1>9
    <2>3. OwnOutputInOrder' BY <2>1 DEF OwnOutputInOrder
    <2>4. pane[p].state # "exited" BY <2>2
    <2>5. IInv' BY <1>8, <2>1, <2>2, <2>3, <2>4
    <2>6. UNCHANGED Streams!vars BY <1>2, <2>1 DEF Streams!vars
    <2> QED BY <2>5, <2>6 DEF StreamsStep
<1>10. CASE Accepts(incoming[1]) /\ incoming[1].chunk > 0
    <2>1. Lookup(incoming[1].pane) = p /\ pane[p].state # "closed" /\ Flow(p) BY <1>3, <1>10
    <2>2. /\ terminal' = [terminal EXCEPT ![p] = Append(@, incoming[1])]
          /\ UNCHANGED pane
        BY <1>3, <1>10, <2>1 DEF Drain
    <2>3. Data(p, 1) BY <1>1, <1>3, <1>10 DEF Data
    <2>4. /\ Sent(p) \in Int /\ Sent(p) <= reader[p].read
          /\ reader[p].at = "ended" => Sent(p) = reader[p].read
        BY <1>6 DEF Sent
    <2>5. incoming[1].chunk > Len(terminal[p]) /\ incoming[1].chunk <= Sent(p)
        BY <1>3, <2>1, <2>3 DEF Flow
    <2>6. incoming[1].chunk = Len(terminal[p]) + 1
        <3>1. PICK i \in DOMAIN incoming : Data(p, i) /\ incoming[i].chunk = Len(terminal[p]) + 1
            <4>1. Len(terminal[p]) + 1 \in Nat /\ Len(terminal[p]) < Len(terminal[p]) + 1
                BY <1>6
            <4>2. Len(terminal[p]) + 1 <= Sent(p) BY <1>5, <1>6, <2>4, <2>5
            <4> HIDE DEF IInv, Typed
            <4> QED BY <2>1, <4>1, <4>2 DEF Flow
        <3>2. CASE i = 1 BY <3>1, <3>2
        <3>3. CASE i # 1
            <4>1. 1 < i BY <3>3
            <4>2. incoming[1].chunk < incoming[i].chunk BY <1>3, <2>1, <2>3, <3>1, <4>1 DEF Flow
            <4> QED BY <1>5, <1>6, <2>5, <3>1, <4>2
        <3> QED BY <3>2, <3>3
    <2>7. /\ terminal'[p] = Append(terminal[p], incoming[1])
          /\ \A x \in Objects : x # p => terminal'[x] = terminal[x]
          /\ Len(terminal'[p]) = Len(terminal[p]) + 1
          /\ terminal' \in [Objects -> Seq(Ingress)]
        BY <1>3, <1>5, <2>2
    <2>8. pane[p].state # "exited"
        BY <1>3, <1>5, <1>6, <2>4, <2>5 DEF Reading, ReaderKept
    <2>9. OwnOutputInOrder'
        <3>1. ASSUME NEW i \in DOMAIN terminal'[p]
              PROVE  terminal'[p][i].owner = p /\ terminal'[p][i].chunk = i
            <4>1. CASE i \in DOMAIN terminal[p]
                <5>1. terminal'[p][i] = terminal[p][i] BY <1>3, <1>5, <2>7, <4>1
                <5> QED BY <1>3, <4>1, <5>1 DEF OwnOutputInOrder
            <4>2. CASE i = Len(terminal[p]) + 1
                <5>1. terminal'[p][i] = incoming[1] BY <1>3, <1>5, <2>7, <4>2
                <5> QED BY <1>1, <2>6, <4>2, <5>1
            <4>3. i \in DOMAIN terminal[p] \/ i = Len(terminal[p]) + 1
                BY <1>3, <1>5, <2>7
            <4> QED BY <4>1, <4>2, <4>3
        <3>2. ASSUME NEW x \in Objects, x # p, NEW i \in DOMAIN terminal'[x]
              PROVE  terminal'[x][i].owner = x /\ terminal'[x][i].chunk = i
            BY <2>7, <3>2 DEF OwnOutputInOrder
        <3> QED BY <3>1, <3>2 DEF OwnOutputInOrder
    <2>10. IInv' BY <1>8, <2>1, <2>2, <2>3, <2>6, <2>7, <2>8, <2>9
    <2>11. Streams!Show(p)
        <3>1. [x \in Objects |-> Len(terminal'[x])] =
                [[x \in Objects |-> Len(terminal[x])] EXCEPT ![p] = @ + 1]
            BY <2>7
        <3>2. Len(terminal[p]) < reader[p].read BY <1>5, <1>6, <2>4, <2>5
        <3> QED BY <1>2, <1>3, <2>1, <2>2, <2>8, <3>1, <3>2 DEF Streams!Show
    <2>12. Streams!Next BY <1>3, <2>11 DEF Streams!Next
    <2> QED BY <2>10, <2>12 DEF StreamsStep
<1>11. CASE Accepts(incoming[1]) /\ incoming[1].chunk = 0
    <2>1. Lookup(incoming[1].pane) = p /\ pane[p].state # "closed" /\ Flow(p) BY <1>3, <1>11
    <2>2. /\ pane' = [pane EXCEPT ![p].state = IF @ = "running" THEN "exited" ELSE @]
          /\ UNCHANGED terminal
        BY <1>3, <1>11, <2>1 DEF Drain
    <2>3. reader[p].at = "ended" /\ reader[p].last BY <1>5, <1>11
    <2>4. Sent(p) = reader[p].read BY <2>3 DEF Sent
    <2>5. \A i \in DOMAIN incoming : ~Data(p, i)
        <3>1. SUFFICES ASSUME NEW i \in DOMAIN incoming, Data(p, i) PROVE FALSE OBVIOUS
        <3>2. i < 1 BY <1>1, <1>3, <1>11, <2>1, <3>1 DEF Flow
        <3> QED BY <3>2
    <2>6. Len(terminal[p]) = reader[p].read
        <3>1. Len(terminal[p]) <= reader[p].read BY <2>1, <2>4 DEF Flow
        <3>2. ASSUME Len(terminal[p]) + 1 <= reader[p].read PROVE FALSE
            <4>1. Len(terminal[p]) + 1 \in Nat /\ Len(terminal[p]) < Len(terminal[p]) + 1
                BY <1>6
            <4> HIDE DEF IInv, Typed
            <4> QED BY <2>1, <2>4, <2>5, <3>2, <4>1 DEF Flow
        <3> HIDE DEF IInv, Typed
        <3> QED BY <1>6, <3>1, <3>2
    <2>7. /\ pane' \in [Objects -> PaneRecord]
          /\ \A x \in Objects : x # p => pane'[x] = pane[x]
          /\ pane'[p].id = pane[p].id /\ pane'[p].session = pane[p].session
          /\ pane'[p].state = IF pane[p].state = "running" THEN "exited" ELSE pane[p].state
        BY <1>3, <2>2 DEF PaneRecord
    <2>8. OwnOutputInOrder' BY <2>2 DEF OwnOutputInOrder
    <2>9. IInv'
        <3>1. ~Data(p, 1) BY <1>3, <2>5
        <3>2. pane'[p].state = "exited" =>
                reader[p].at = "ended" /\ Len(terminal'[p]) = reader[p].read
            BY <2>2, <2>3, <2>6
        <3> QED BY <1>8, <2>1, <2>2, <2>7, <2>8, <3>1, <3>2
    <2>10. StreamsStep
        <3> DEFINE Phase(q, x) == CASE q[x].state = "closed" -> "gone"
                                    [] q[x].state = "exited" -> "exited"
                                    [] OTHER -> "open"
                   before == [x \in Objects |-> Phase(pane, x)]
                   after == [x \in Objects |-> Phase(pane', x)]
        <3>1. CASE pane[p].state = "running"
            <4>1. after = [before EXCEPT ![p] = "exited"]
                <5>1. \A x \in Objects : after[x] = IF x = p THEN "exited" ELSE before[x]
                    BY <2>7, <3>1
                <5> QED BY <5>1
            <4>2. before[p] = "open" BY <1>3, <3>1
            <4>3. Streams!Exit(p)
                BY <1>2, <1>3, <2>2, <2>3, <2>6, <4>1, <4>2 DEF Streams!Exit
            <4>4. Streams!Next BY <1>3, <4>3 DEF Streams!Next
            <4> QED BY <4>4 DEF StreamsStep
        <3>2. CASE pane[p].state # "running"
            <4>1. after = before
                <5>1. \A x \in Objects : after[x] = before[x] BY <2>7, <3>2
                <5> QED BY <5>1
            <4>2. UNCHANGED Streams!vars BY <1>2, <2>2, <4>1 DEF Streams!vars
            <4> QED BY <4>2 DEF StreamsStep
        <3> QED BY <3>1, <3>2
    <2> QED BY <2>9, <2>10
<1> QED BY <1>5, <1>9, <1>10, <1>11

LEMMA KeptByShutdownDone ==
    ASSUME IInv, ShutdownDone
    PROVE  IInv' /\ StreamsStep
<1> USE DEF IInv, Typed
<1>1. /\ owner = "closing" /\ owner' = "closed" /\ \A p \in Objects : ~ReaderAlive(p)
      /\ UNCHANGED << sessions, streams, model, pending, aftermath >>
    BY DEF ShutdownDone
<1>2. UNCHANGED << pane, panes, closed, reader, incoming, terminal, live, nextPane,
                   bootstrapped, rollback, reserved, stranded >>
    BY <1>1 DEF sessions, streams, model, aftermath, recovery, leftovers
<1>3. Typed' BY <1>1, <1>2
<1>4. Owning' BY <1>1, <1>2 DEF Owning
<1>5. Reading' BY <1>1, <1>2 DEF Reading, ReaderKept, Carried, ReaderAlive
<1>6. Flowing' BY <1>1 DEF Flowing
<1>7. OwnOutputInOrder' BY <1>2 DEF OwnOutputInOrder
<1>8. StreamsStep BY <1>2 DEF StreamsStep, Streams!vars
<1> QED BY <1>3, <1>4, <1>5, <1>6, <1>7, <1>8
-----------------------------------------------------------------------------
LEMMA Started == ASSUME Init PROVE IInv /\ Streams!Init
<1> USE DEF Init
<1>1. /\ Unused \in PaneRecord /\ Idle \in ReaderRecord
      /\ Unused.state = "unused" /\ Unused.session = "none"
      /\ Idle.at = "none" /\ Idle.read = 0 /\ ~Idle.last /\ Idle.last = FALSE
    <2>1. Unused \in PaneRecord /\ Unused.state = "unused" /\ Unused.session = "none"
        BY DEF Unused, PaneRecord
    <2>2. Idle \in ReaderRecord /\ Idle.at = "none" /\ Idle.read = 0
        BY DEF Idle, ReaderRecord
    <2>3. ~Idle.last /\ Idle.last = FALSE BY DEF Idle
    <2> QED BY <2>1, <2>2, <2>3
<1>2. /\ \A p \in Objects : /\ pane[p] = Unused /\ reader[p] = Idle /\ terminal[p] = << >>
      /\ DOMAIN panes = {} /\ DOMAIN incoming = {} /\ rollback \cup stranded = {} /\ Unpublished = {}
    BY DEF Range, Unpublished
<1>3. Typed
    <2>1. pane \in [Objects -> PaneRecord] /\ reader \in [Objects -> ReaderRecord] BY <1>1
    <2>2. /\ panes \in [DOMAIN panes -> Objects] /\ DOMAIN panes \subseteq Nat
          /\ closed \subseteq Nat /\ live \subseteq Nat /\ nextPane \in Nat \ {0}
        OBVIOUS
    <2>3. incoming \in Seq(Ingress) /\ pending \in Seq(Objects) OBVIOUS
    <2>4. terminal \in [Objects -> Seq(Ingress)]
        <3>1. << >> \in Seq(Ingress) OBVIOUS
        <3>2. terminal = [p \in Objects |-> << >>] OBVIOUS
        <3> QED BY <3>1, <3>2
    <2>5. rollback \subseteq Objects /\ stranded \subseteq Objects /\ owner \in {"open", "closing", "closed"} OBVIOUS
    <2>6. bootstrapped \in BOOLEAN OBVIOUS
    <2> QED BY <2>1, <2>2, <2>3, <2>4, <2>5, <2>6 DEF Typed
<1>4. Owning
    <2>1. \A p \in Objects : pane[p].session # "open" BY <1>1, <1>2
    <2>2. ~bootstrapped /\ owner = "open" OBVIOUS
    <2>3. Stranding BY <1>2 DEF Stranding
    <2>4. Accounted(pane, panes, rollback \cup stranded, Unpublished, live, bootstrapped)
        BY <1>2, <2>1, <2>2 DEF Accounted
    <2>5. Numbered BY <1>2 DEF Numbered
    <2> QED BY <2>2, <2>3, <2>4, <2>5 DEF Owning, Restoring
<1>5. Reading
    <2>1. ASSUME NEW p \in Objects PROVE ReaderKept(p)
        <3>1. reader[p].at = "none" /\ reader[p].read = 0 /\ pane[p].state = "unused"
            BY <1>1, <1>2
        <3>2. ~reader[p].last BY <1>1, <1>2
        <3>3. owner # "closed" /\ terminal[p] = << >> BY <1>2
        <3> QED BY <3>1, <3>2, <3>3 DEF ReaderKept
    <2> QED BY <1>2, <2>1 DEF Reading
<1>6. Flowing
    <2>1. ASSUME NEW p \in Objects PROVE Flow(p)
        <3>1. reader[p].at = "none" /\ Sent(p) = 0 /\ Len(terminal[p]) = 0
            BY <1>1, <1>2 DEF Sent
        <3> QED BY <1>2, <3>1 DEF Flow
    <2> QED BY <2>1 DEF Flowing
<1>7. OwnOutputInOrder BY <1>2 DEF OwnOutputInOrder
<1>8. Streams!Init
    <2>1. [p \in Objects |-> reader[p].read] = [p \in Objects |-> 0] BY <1>1, <1>2
    <2>2. [p \in Objects |-> reader[p].last] = [p \in Objects |-> FALSE]
        <3>1. \A p \in Objects : reader[p].last = FALSE BY <1>1, <1>2, Zenon
        <3> QED BY <3>1
    <2>3. [p \in Objects |-> Len(terminal[p])] = [p \in Objects |-> 0]
        <3>1. \A p \in Objects : Len(terminal[p]) = 0 BY <1>2
        <3> QED BY <3>1
    <2>4. [p \in Objects |-> CASE pane[p].state = "closed" -> "gone"
                               [] pane[p].state = "exited" -> "exited"
                               [] OTHER -> "open"] = [p \in Objects |-> "open"]
        <3>1. \A p \in Objects : pane[p].state = "unused" BY <1>1, <1>2
        <3> QED BY <3>1
    <2> QED BY <2>1, <2>2, <2>3, <2>4 DEF Streams!Init
<1> QED BY <1>3, <1>4, <1>5, <1>6, <1>7, <1>8 DEF IInv

LEMMA Stepped == ASSUME IInv, [Next]_vars PROVE IInv' /\ StreamsStep
<1>1. ASSUME OwnerOp PROVE IInv' /\ StreamsStep
    BY <1>1, SteadyReads, SteadyFlows, SteadyStreams DEF OwnerOp, IInv
<1>2. CASE RetryRollback BY <1>1, <1>2, KeptByRetryRollback
<1>3. CASE Bootstrap BY <1>1, <1>3, KeptByBootstrap
<1>4. CASE SpawnPane BY <1>1, <1>4, KeptByCreateWindow
<1>5. CASE SpawnPaneFails BY <1>1, <1>5, KeptBySpawnPaneFails
<1>6. CASE CreateWindow BY <1>1, <1>6, KeptByCreateWindow
<1>7. CASE CreateWindowFails BY <1>1, <1>7, KeptByCreateWindowFails
<1>8. CASE \E S \in SUBSET live : RollbackWindow(S) \/ ClosePanes(S)
    BY <1>1, <1>8, KeptByClosing
<1>9. CASE PrepareRestore BY <1>1, <1>9, KeptByPrepareRestore
<1>10. CASE PrepareRestoreFails BY <1>1, <1>10, KeptByPrepareRestoreFails
<1>11. CASE CommitRestore BY <1>1, <1>11, KeptByCommitRestore
<1>12. CASE AbortRestore BY <1>1, <1>12, KeptByAbortRestore
<1>13. CASE Drain BY <1>13, KeptByDrain
<1>14. CASE Shutdown BY <1>1, <1>14, KeptByShutdown
<1>15. CASE ShutdownDone BY <1>15, KeptByShutdownDone
<1>16. CASE \E p \in Objects : ReaderStep(p)
    BY <1>16, KeptByReadChunk, KeptByReadEnd, KeptByEnqueue, KeptByGiveUp DEF ReaderStep
<1>17. CASE UNCHANGED vars
    <2>1. UNCHANGED << pane, panes, closed, reader, incoming, terminal, live, nextPane,
                       bootstrapped, pending, rollback, reserved, stranded, owner >>
        BY <1>17 DEF vars, sessions, streams, model, aftermath, recovery, leftovers
    <2>2. Typed' /\ OwnOutputInOrder' BY <2>1 DEF IInv, Typed, OwnOutputInOrder
    <2>3. Owning' BY <2>1 DEF IInv, Owning, Accounted, Numbered, Restoring, Stranding, Holds, Range,
                        Unpublished
    <2>4. Steady
        <3>1. ASSUME NEW p \in Objects, owner' = "open", reader'[p].at # "none",
                     pane'[p].state # "closed"
              PROVE  Holds(pane', panes', p)
            BY <2>1, <3>1 DEF IInv, Flowing, Flow
        <3> QED BY <2>1, <3>1 DEF Steady, Advances, Starts
    <2> QED BY <1>1, <2>2, <2>3, <2>4 DEF OwnerOp
<1> QED BY <1>2, <1>3, <1>4, <1>5, <1>6, <1>7, <1>8, <1>9, <1>10, <1>11, <1>12, <1>13,
           <1>14, <1>15, <1>16, <1>17 DEF Next, OwnerStep

(* The inductive invariant holds in every reachable state.                 *)
THEOREM Inductive == Spec => []IInv
<1>1. Init => IInv BY Started
<1>2. IInv /\ [Next]_vars => IInv' BY Stepped
<1> QED BY <1>1, <1>2, PTL DEF Spec

(* A terminal shows its own program's chunks, from the first and without a *)
(* gap: what launchReader, acceptSessionIngress and Drain are for, with    *)
(* pane IDs handed out again while old records are still in the channel.   *)
THEOREM OutputInOrder == Spec => []OwnOutputInOrder
<1>1. IInv => OwnOutputInOrder BY DEF IInv
<1> QED BY <1>1, Inductive, PTL

(* Every open session is registered, or in the retained rollback, or a      *)
(* stranded pane's that keeps its ID; registry and topology agree; nothing  *)
(* outlives Shutdown but such a pane's session; and the ID of a closed pane *)
(* is retired, whatever fails on the way.                                   *)
THEOREM SessionsKept == Spec => []SessionsSound
<1>1. ASSUME IInv PROVE SessionsSound
    <2> USE <1>1 DEF IInv, Typed
    <2>1. ASSUME NEW p \in Objects, pane[p].session = "open"
          PROVE  \/ Lookup(pane[p].id) = p \/ p \in rollback
                 \/ p \in stranded /\ pane[p].id \in reserved
        <3>1. CASE owner = "open"
            <4>1. \/ Holds(pane, panes, p) \/ p \in rollback
                  \/ p \in stranded /\ pane[p].id \in reserved
                BY <2>1, <3>1 DEF Owning, Accounted, Stranding
            <4> QED BY <4>1 DEF Holds, Lookup
        <3>2. CASE owner # "open" BY <2>1, <3>2 DEF Owning
        <3> QED BY <3>1, <3>2
    <2>2. ASSUME owner = "open"
          PROVE  /\ bootstrapped => live \subseteq DOMAIN panes
                 /\ \A id \in DOMAIN panes :
                        \/ bootstrapped /\ id \in live
                        \/ panes[id] \in Range(pending) \cup rollback \cup stranded
        BY <2>2 DEF Owning, Accounted, Unpublished
    <2>3. ASSUME owner = "open", NEW p \in stranded
          PROVE  /\ pane[p].id \notin live /\ nextPane <= pane[p].id
                 /\ Lookup(pane[p].id) = p \/ pane[p].id \in reserved
        <3>1. Stranding /\ live \subseteq 1..nextPane - 1 BY <2>3 DEF Owning, Numbered
        <3>2. /\ nextPane <= pane[p].id
              /\ Holds(pane, panes, p) \/ pane[p].id \in reserved
            BY <3>1 DEF Stranding
        <3>3. pane[p].id \in Nat BY DEF PaneRecord
        <3>4. pane[p].id \notin live BY <3>1, <3>2, <3>3
        <3>5. Holds(pane, panes, p) => Lookup(pane[p].id) = p BY DEF Holds, Lookup
        <3> QED BY <3>2, <3>4, <3>5
    <2>4. ASSUME owner = "closed", NEW p \in Objects
          PROVE  ~ReaderAlive(p) /\ (pane[p].session = "open" => p \in stranded)
        BY <2>4 DEF Owning, Reading, ReaderKept
    <2>5. ClosedIdsRetired BY DEF Owning, Numbered, ClosedIdsRetired
    <2> QED BY <2>1, <2>2, <2>3, <2>4, <2>5 DEF SessionsSound, SessionsOwned
<1> QED BY <1>1, Inductive, PTL

(* Panes, registry, readers and channel implement PaneStreams: every step  *)
(* writes, ends, shows, exits or closes there, or changes nothing there.   *)
THEOREM Implements == Spec => ImplementsStreams
<1>1. Init => Streams!Init BY Started
<1>2. IInv /\ [Next]_vars => StreamsStep BY Stepped
<1>3. Spec => Init /\ [][Next]_vars BY DEF Spec
<1>4. StreamsStep => [Streams!Next]_(Streams!vars) BY DEF StreamsStep
<1> QED BY <1>1, <1>2, <1>3, <1>4, Inductive, PTL DEF ImplementsStreams, Streams!Spec
=============================================================================
