----------------------------- MODULE ParserProofs -----------------------------
(***************************************************************************)
(* The parser (Parser), for any limits and any input: its public bytes are *)
(* those outside image frames, in order, and a string that was begun is    *)
(* ended once.                                                             *)
(*                                                                         *)
(* Neither property is inductive.  PubInv ties the projection's mode to    *)
(* the parser's state (Probing): what is held is of a sequence whose kind  *)
(* is not decided, so nothing of it may have been emitted (HeldBack);      *)
(* what is deferred precedes it and none of it is secret (PutOff).         *)
(* FrameInv adds the count of the bytes of the open string (StringCounted) *)
(* and where an ESC leaves the parser (Ended).  The lemmas follow a byte   *)
(* through the parser proper, state by state (ByteMoves, Counts), and then *)
(* through the projection, mode by mode (Lands).                           *)
(***************************************************************************)
EXTENDS MCImages, SumLemmas, SequenceTheorems, FiniteSetTheorems, TLAPS

Frames == {"payload", "esc", "discard", "discardEsc"}
ParserStates == {Parse!Plain(n) : n \in {"ground", "esc", "CSI", "charset", "OSC", "OSCEsc"}}
          \cup {Parse!In(k, p) : k \in Parse!Kinds, p \in Frames}
          \cup {Parse!In("DCS", "preamble"), Parse!In("DCS", "preambleEsc")}
Fields == {"state", "sink", "total", "chunk", "dcs", "osc", "truncated", "rune", "events"}
Whole(c) ==
    /\ DOMAIN c = Fields /\ c.state \in ParserStates
    /\ c.total \in Nat /\ c.chunk \in Nat /\ c.dcs \in Seq(Parse!Bytes) /\ c.osc \in Seq(Parse!Bytes)
(* What the parser's state says of what it collected.                      *)
Plains == {Parse!Plain("OSC"), Parse!Plain("OSCEsc")}
Collected(c) ==
    /\ c.rune => c.state = Parse!Ground
    /\ c.state \in Plains => c.osc # Parse!Selector /\ (c.truncated => Len(c.osc) >= 2)
(* An OSC string is no image, from the moment it has two bytes.            *)
Longer(c, d) ==
    Len(c.osc) >= 2 /\ d.state \in Plains => Len(d.osc) >= 2

(* Where a byte takes the parser, by the state it finds.                   *)
EscTo(b, d) ==
    CASE b = "ESC" -> d.state = Parse!Plain("esc")
      [] b = "]" -> d.state = Parse!Plain("OSC") /\ d.osc = <<>>
      [] b = "_" -> \/ d.state = Parse!In("APC", "payload")
                    \/ "APC" \notin redacted /\ d.state = Parse!In("APC", "discard")
      [] b = "P" -> \/ d.state = Parse!In("DCS", "preamble")
                    \/ "DCS" \notin redacted /\ d.state = Parse!In("DCS", "discard")
      [] OTHER -> d.state \in {Parse!Ground, Parse!Plain("CSI"), Parse!Plain("charset")}
OSCTo(c, d) ==
    \/ d.state \in {Parse!Ground} \cup Plains /\ Longer(c, d)
    \/ Len(c.osc) < 2 /\ d.state = Parse!In("OSC1337", "payload")
    \/ Len(c.osc) < 2 /\ "OSC1337" \notin redacted /\ d.state = Parse!In("OSC1337", "discard")
FrameTo(k, p, b, d) ==
    /\ d.state = Parse!Ground \/ \E q \in Frames : d.state = Parse!In(k, q)
    /\ b = "ESC" => d.state \in {Parse!In(k, "esc"), Parse!In(k, "discardEsc")}
    /\ p \in {"payload", "discard"} /\ b = "G" => d.state # Parse!Ground
    /\ p \in {"esc", "discardEsc"} /\ b = "\\" => d.state = Parse!Ground
PreambleTo(c, b, d) ==
    /\ b = "ESC" => d.state \in {Parse!In("DCS", "preambleEsc"), Parse!In("DCS", "discardEsc")}
    /\ b = "\\" /\ c.state = Parse!In("DCS", "preambleEsc") => d.state = Parse!Ground
    /\ \/ d.state \in {Parse!Ground, Parse!In("DCS", "discard"), Parse!In("DCS", "discardEsc")}
       \/ c.state = Parse!In("DCS", "preamble") /\
          d.state \in {Parse!In("DCS", "payload"), Parse!In("DCS", "preamble"), Parse!In("DCS", "preambleEsc")}
ByteMoves(c, b, d) ==
    /\ Whole(d) /\ Collected(d)
    /\ c.state = Parse!Ground => d.state \in {Parse!Ground, Parse!Plain("esc")}
    /\ c.state = Parse!Plain("esc") => EscTo(b, d)
    /\ c.state \in {Parse!Plain("CSI"), Parse!Plain("charset")} => d.state \in {c.state, Parse!Ground}
    /\ c.state = Parse!Plain("OSC") => OSCTo(c, d)
    /\ c.state = Parse!Plain("OSCEsc") => d.state = Parse!Ground \/ (d.state = Parse!Plain("OSC") /\ Len(d.osc) >= 2)
    /\ \A k \in Parse!Kinds, p \in Frames : c.state = Parse!In(k, p) => FrameTo(k, p, b, d)
    /\ c.state \in {Parse!In("DCS", "preamble"), Parse!In("DCS", "preambleEsc")} => PreambleTo(c, b, d)

(* What has become of the bytes, n of them, and of what the projection     *)
(* holds and defers of them.  sec is the set of secret bytes.              *)
Fates == {"waiting", "emitted", "private"}
Probes == {"esc", "APC", "DCS", "OSC1337"}
Written(ft, sec, n) ==
    n \in Nat /\ ft \in Seq(Fates) /\ Len(ft) = n /\ sec \subseteq 0..n
Sorted(p, f, sec, n) ==
    /\ f.from \in 0..n
    /\ p.mode \in Probes \/ p.hold = {}
    /\ p.mode = "selected" <=> f.selected
    /\ f.selected => f.from..n \subseteq sec
HeldBack(p, f, ft, sec, n) ==
    /\ \A e \in p.hold : /\ e.at \in 1..n /\ e.at >= f.from /\ e.at \notin sec
                         /\ e.public => ft[e.at] = "waiting"
    /\ p.mode \in Probes => \A i \in 1..n : i >= f.from => ft[i] # "emitted"
PutOff(p, f, ft, sec, n) ==
    /\ \A i \in p.deferred : i \in 1..n /\ ft[i] = "waiting" /\ i \notin sec
    /\ p.mode \in Probes => \A i \in p.deferred : i < f.from
    /\ p.deferred # {} => Parse!Published(p.hold) = {}
Ordered(p, ft, sec, n) ==
    /\ \A i \in sec : i \in 1..n => ft[i] # "emitted"
    /\ \A i \in 1..n : ft[i] = "waiting" => i \in sec \/ i \in p.deferred \/ i \in Parse!Published(p.hold)
    /\ \A i, j \in 1..n : i < j /\ ft[j] = "emitted" /\ ft[i] = "waiting" => i \in sec
Kept(p, f, ft, sec, n) ==
    /\ Written(ft, sec, n) /\ Sorted(p, f, sec, n) /\ HeldBack(p, f, ft, sec, n)
    /\ PutOff(p, f, ft, sec, n) /\ Ordered(p, ft, sec, n)

(* A byte has come, publicly or not, and "out" been released.              *)
Fate(p, ft, n, pub, out, i) ==
    IF pub /\ (i \in p.deferred \/ i \in Parse!Published(out)) THEN "emitted"
    ELSE IF i <= n THEN ft[i] ELSE IF pub THEN "waiting" ELSE "private"
Passed(p, ft, n, pub, out, p1, ft1) ==
    /\ ft1 \in Seq(Fates) /\ Len(ft1) = n + 1
    /\ \A i \in 1..(n + 1) : ft1[i] = Fate(p, ft, n, pub, out, i)
    /\ p1.deferred = IF pub THEN {} ELSE p.deferred \cup Parse!Published(out)

(* What each mode of the projection says of the parser: n bytes have been  *)
(* taken, and the open sequence began at f.from.                           *)
Probing(mode, c, f, n) ==
    \/ /\ mode = "idle"
       /\ c.state = Parse!Plain("esc") => redacted = {}
       /\ Parse!InFrame(c.state, "APC") /\ "APC" \in redacted => n > f.from + 1
       /\ c.state \in {Parse!In("DCS", "preamble"), Parse!In("DCS", "preambleEsc")} => "DCS" \notin redacted
       /\ c.state \in Plains /\ "OSC1337" \in redacted => Len(c.osc) >= 2
    \/ mode = "esc" /\ c.state = Parse!Plain("esc") /\ redacted # {}
    \/ /\ mode = "APC" /\ "APC" \in redacted
       /\ \/ c.state \in {Parse!In("APC", "payload"), Parse!In("APC", "discard")} /\ n = f.from + 1
          \/ c.state \in {Parse!In("APC", "esc"), Parse!In("APC", "discardEsc")} /\ n = f.from + 2
    \/ /\ mode = "DCS" /\ "DCS" \in redacted
       /\ c.state \in {Parse!In("DCS", "preamble"), Parse!In("DCS", "preambleEsc")}
    \/ /\ mode = "OSC1337" /\ "OSC1337" \in redacted
       /\ c.state \in Plains /\ Len(c.osc) < 2
    \/ mode = "selected" /\ \E k \in Parse!Kinds, p \in Frames : c.state = Parse!In(k, p)
Began(c, f, n) ==
    DOMAIN f = {"from", "selected"} /\ (c.state = Parse!Plain("esc") => n = f.from)

PubInv ==
    /\ Whole(core) /\ Collected(core)
    /\ Probing(public.mode, core, frame, Len(fate))
    /\ Began(core, frame, Len(fate))
    /\ Kept(public, frame, fate, secret, Len(fate))

(* A byte is released, held, the first of a sequence again, or taken.      *)
Releases(step, entry) == step = Parse!Release(entry) /\ secret' = secret /\ ~frame'.selected
HoldsByte(step, entry, n) ==
    /\ \E m \in Probes : step = Parse!Hold(m, entry)
    /\ secret' = secret /\ ~frame'.selected
    /\ \/ frame'.from = frame.from /\ public.mode \in Probes
       \/ frame'.from = n + 1 /\ public.hold = {}
Restarts(step, entry, n) ==
    /\ step = Parse!Step("esc", {entry}, public.hold)
    /\ secret' = secret /\ ~frame'.selected /\ frame'.from = n + 1
Takes(step, n) ==
    /\ \E m \in {"selected", "idle"} : step = Parse!Take(m) /\ (frame'.selected <=> m = "selected")
    /\ public.mode \in Probes \cup {"selected"}
    /\ frame'.selected => frame'.from = frame.from
    /\ secret' = secret \cup frame.from..(n + 1)
Outcome(step, entry, n) ==
    Releases(step, entry) \/ HoldsByte(step, entry, n) \/ Restarts(step, entry, n) \/ Takes(step, n)
Lands(step, entry, d, n) ==
    /\ Outcome(step, entry, n) /\ frame'.from \in 0..(n + 1)
    /\ Probing(step.mode, d, frame', n + 1) /\ Began(d, frame', n + 1)

Reads(b, d, n) ==
    /\ PubInv /\ n = Len(fate) /\ b \in Parse!Bytes
    /\ ByteMoves(core, b, d) /\ Parse!Understood(d.state, b, n + 1)

(* The parser is where the projection holds nothing.                       *)
Calm(d, f, n) ==
    /\ d.state = Parse!Plain("esc") => redacted = {}
    /\ Parse!InFrame(d.state, "APC") /\ "APC" \in redacted => n > f.from + 1
    /\ d.state \in {Parse!In("DCS", "preamble"), Parse!In("DCS", "preambleEsc")} => "DCS" \notin redacted
    /\ d.state \in Plains /\ "OSC1337" \in redacted => Len(d.osc) >= 2

(* What a step tells the sink: blocks of the string, and its end at last.  *)
Events == [kind : Parse!Kinds, length : Nat, final : BOOLEAN, cancelled : BOOLEAN]
Blocks(ev, k) == ev \in Seq(Events) /\ \A i \in DOMAIN ev : ev[i].kind = k /\ ~ev[i].final
(* From c to x, m bytes of the string have been stored.                    *)
StringOpen(c, x, k, m) ==
    /\ Whole(x) /\ x.sink = c.sink /\ x.dcs = c.dcs
    /\ Blocks(x.events, k)
    /\ ~c.sink => x.events = <<>>
    /\ c.sink => Parse!LengthOf(x.events) + x.chunk = c.chunk + m
StringClosed(c, x, k, m) ==
    /\ ~c.sink => x.events = <<>>
    /\ c.sink => \E ev, e : /\ Blocks(ev, k) /\ e \in Events /\ e.kind = k /\ e.final
                            /\ x.events = Append(ev, e)
                            /\ e.cancelled \/ Parse!LengthOf(x.events) = c.chunk + m
(* An ESC that may begin the terminator is not stored yet.                 *)
Pending(s) == IF s.place = "esc" THEN 1 ELSE 0
Tells(c, b, d, k) ==
    \/ Parse!ActiveKind(d.state) = k /\ StringOpen(c, d, k, (1 + Pending(c.state)) - Pending(d.state))
    \/ /\ Parse!ActiveKind(d.state) = "none"
       /\ StringClosed(c, d, k, (1 + Pending(c.state)) - (IF b = "BEL" THEN 1 ELSE 2))

(* Where a string that is handed over begins, and what was collected then. *)
Opens(c, b, d) ==
    \/ /\ c.state = Parse!Plain("esc") /\ d.state = Parse!In("APC", "payload")
       /\ d.dcs = <<>> /\ d.chunk = 0
    \/ /\ c.state = Parse!Plain("OSC") /\ Len(c.osc) = 1 /\ d.state = Parse!In("OSC1337", "payload")
       /\ d.chunk = 0
    \/ /\ c.state = Parse!In("DCS", "preamble") /\ d.state = Parse!In("DCS", "payload")
       /\ d.dcs = Append(c.dcs, b) /\ d.chunk = c.chunk
Counts(c, b, d) ==
    /\ \A k \in Parse!Kinds : Parse!ActiveKind(c.state) = k => Tells(c, b, d, k)
    /\ Parse!ActiveKind(c.state) = "none" => d.events = <<>>
    /\ Parse!ActiveKind(c.state) = "none" /\ Parse!ActiveKind(d.state) # "none" => Opens(c, b, d)
    /\ d.state = Parse!In("DCS", "preamble") =>
          \/ c.state = Parse!Plain("esc") /\ d.dcs = <<>> /\ d.chunk = 0
          \/ c.state = Parse!In("DCS", "preamble") /\ d.dcs = Append(c.dcs, b) /\ d.chunk = c.chunk
    /\ d.state = Parse!Plain("OSC") /\ Len(d.osc) < 2 =>
          \/ c.state = Parse!Plain("esc") /\ d.osc = <<>>
          \/ c.state = Parse!Plain("OSC") /\ Len(c.osc) < 2 /\ Len(d.osc) = Len(c.osc) + 1


(* What was read, collected and told of the sequence that is open.         *)
ReadOf(f, n) == (n - f.from) + 1
IntroducerOf(c) == 2 + (IF c.state.kind = "OSC1337" THEN Len(Parse!Selector) ELSE Len(c.dcs))
StringCounted(c, f, n, t) ==
    /\ t \in Nat
    /\ Parse!ActiveKind(c.state) = "none" => t = 0
    /\ c.state = Parse!In("DCS", "preamble") => c.chunk = 0 /\ ReadOf(f, n) = 2 + Len(c.dcs)
    /\ c.state = Parse!Plain("OSC") /\ Len(c.osc) < 2 => ReadOf(f, n) = 2 + Len(c.osc)
    /\ Parse!ActiveKind(c.state) = "APC" => c.dcs = <<>>
    /\ Parse!ActiveKind(c.state) # "none" /\ c.sink =>
          t + c.chunk = (ReadOf(f, n) - IntroducerOf(c)) - Pending(c.state)
(* Right after an ESC, the parser is where a terminator may end.           *)
Ended == last = "ESC" /\ core.state.kind \in Parse!Kinds => core.state.place \in {"esc", "discardEsc", "preambleEsc"}
FrameInv == PubInv /\ StringCounted(core, frame, Len(fate), told) /\ Ended

(* The two action properties, step by step.                                *)
Ends ==
    LET kind == Parse!ActiveKind(core.state)
        ended == kind # "none" /\ core.sink /\ Parse!ActiveKind(core'.state) = "none"
        finals == {k \in DOMAIN core'.events : core'.events[k].final}
    IN  /\ Parse!Cardinality(finals) = IF ended THEN 1 ELSE 0
        /\ \A k \in DOMAIN core'.events : core'.events[k].kind = kind
        /\ \A k \in finals : core'.events[k].cancelled \/ told + Parse!LengthOf(core'.events) = Parse!Body
Terminated == last = "ESC" /\ last' = "\\" /\ core.state.kind \in Parse!Kinds => core'.state = Parse!Ground
(* d has the text of c: what is kept of it outside of control strings. *)
Texts(c, d) == d.osc = c.osc /\ d.rune = c.rune /\ d.truncated = c.truncated

LEMMA ToWhole ==
  ASSUME NEW c, Whole(c), NEW s \in ParserStates
  PROVE  Whole(Parse!To(c, s)) /\ Parse!To(c, s).state = s /\ Texts(c, Parse!To(c, s))
  BY DEF Whole, Parse!To, Fields, Texts

LEMMA IdleWhole ==
  ASSUME NEW c, Whole(c)
  PROVE  Whole(Parse!Idle(c)) /\ Parse!Idle(c).state = c.state /\ Texts(c, Parse!Idle(c))
  BY DEF Whole, Parse!Idle, Fields, Texts

LEMMA TellWhole ==
  ASSUME NEW c, Whole(c), NEW e
  PROVE  Whole(Parse!Tell(c, e)) /\ Parse!Tell(c, e).state = c.state /\ Texts(c, Parse!Tell(c, e))
  BY DEF Whole, Parse!Tell, Fields, Texts

LEMMA FrameStates ==
  ASSUME NEW k \in Parse!Kinds, NEW p \in Frames
  PROVE  /\ Parse!In(k, p) \in ParserStates /\ Parse!In(k, p).kind = k /\ Parse!In(k, p).place = p
         /\ Parse!Ground \in ParserStates /\ Parse!In(k, p) # Parse!Ground
  BY DEF Parse!In, ParserStates, Parse!Ground, Parse!Plain, Frames

LEMMA EndsWhole ==
  ASSUME NEW c, Whole(c), NEW k \in Parse!Kinds
  PROVE  /\ Whole(Parse!Finish(c, k)) /\ Parse!Finish(c, k).state = Parse!Ground /\ Texts(c, Parse!Finish(c, k))
         /\ Whole(Parse!Cancel(c, k)) /\ Parse!Cancel(c, k).state = Parse!Ground /\ Texts(c, Parse!Cancel(c, k))
         /\ Whole(Parse!Overflow(c, k)) /\ Parse!Overflow(c, k).state = Parse!In(k, "discard")
         /\ Texts(c, Parse!Overflow(c, k))
<1>1. ASSUME NEW e, NEW s \in ParserStates
      PROVE  LET d == Parse!To(Parse!Idle(Parse!Tell(c, e)), s)
             IN Whole(d) /\ d.state = s /\ Texts(c, d)
  <2> DEFINE x == Parse!Tell(c, e)
             y == Parse!Idle(x)
  <2>1. Whole(x) /\ Texts(c, x)
    BY TellWhole
  <2> HIDE DEF x
  <2>2. Whole(y) /\ Texts(x, y)
    BY <2>1, IdleWhole
  <2> HIDE DEF y
  <2>3. Whole(Parse!To(y, s)) /\ Parse!To(y, s).state = s /\ Texts(y, Parse!To(y, s))
    BY <2>2, ToWhole
  <2> QED BY <2>1, <2>2, <2>3 DEF Texts, x, y
<1>2. Parse!Ground \in ParserStates /\ Parse!In(k, "discard") \in ParserStates
  BY FrameStates DEF Frames
<1> QED BY <1>1, <1>2, Zenon DEF Parse!Finish, Parse!Cancel, Parse!Overflow

LEMMA StoreWhole ==
  ASSUME NEW c, Whole(c), NEW k
  PROVE  Whole(Parse!Store(c, k)) /\ Parse!Store(c, k).state = c.state /\ Texts(c, Parse!Store(c, k))
<1> DEFINE x == Parse!Tell(c, Parse!Event(k, c.chunk, FALSE, FALSE))
<1>1. Whole(x) /\ x.state = c.state /\ Texts(c, x)
  BY TellWhole
<1> HIDE DEF x
<1>2. ASSUME NEW d, Whole(d), d.state = c.state, Texts(c, d), NEW m \in Nat
      PROVE  LET e == [d EXCEPT !.total = @ + 1, !.chunk = m]
             IN Whole(e) /\ e.state = c.state /\ Texts(c, e)
  BY <1>2 DEF Whole, Fields, Texts
<1>3. LET e == [c EXCEPT !.total = @ + 1]
      IN Whole(e) /\ e.state = c.state /\ Texts(c, e)
  BY DEF Whole, Fields, Texts
<1>4. Texts(c, c)
  BY DEF Texts
<1>5. CASE ~c.sink
  BY <1>3, <1>5 DEF Parse!Store
<1>6. CASE c.sink /\ c.chunk = MaxChunk
  <2>1. Parse!Store(c, k) = [x EXCEPT !.total = @ + 1, !.chunk = 1]
    BY <1>6, <1>1 DEF Parse!Store, x, Whole, Fields
  <2>2. LET e == [x EXCEPT !.total = @ + 1, !.chunk = 1]
        IN Whole(e) /\ e.state = c.state /\ Texts(c, e)
    BY <1>1, <1>2
  <2> QED BY <2>1, <2>2, Zenon
<1>7. CASE c.sink /\ c.chunk # MaxChunk
  <2>1. Parse!Store(c, k) = [c EXCEPT !.total = @ + 1, !.chunk = c.chunk + 1] /\ c.chunk + 1 \in Nat
    BY <1>7 DEF Parse!Store, Whole, Fields
  <2>2. LET e == [c EXCEPT !.total = @ + 1, !.chunk = c.chunk + 1]
        IN Whole(e) /\ e.state = c.state /\ Texts(c, e)
    BY <1>2, <1>4, <2>1
  <2> QED BY <2>1, <2>2, Zenon
<1> QED BY <1>5, <1>6, <1>7

(* A control string goes on, or ends. *)
LEMMA AppendMoves ==
  ASSUME NEW c, Whole(c), NEW k \in Parse!Kinds
  PROVE  LET d == Parse!AppendByte(c, k)
         IN /\ Whole(d) /\ Texts(c, d)
            /\ Parse!Fits(c) => d = Parse!Store(c, k) /\ d.state = c.state
            /\ ~Parse!Fits(c) => d.state = Parse!In(k, "discard")
  BY StoreWhole, EndsWhole DEF Parse!AppendByte

LEMMA PayloadMoves ==
  ASSUME NEW c, Whole(c), NEW k \in Parse!Kinds, c.state = Parse!In(k, "payload"), NEW b \in Parse!Bytes
  PROVE  LET d == Parse!Payload(c, b)
         IN /\ Whole(d) /\ Texts(c, d)
            /\ d.state \in {Parse!Ground, Parse!In(k, "esc"), Parse!In(k, "payload"), Parse!In(k, "discard")}
            /\ b = "ESC" => d.state = Parse!In(k, "esc")
            /\ b = "G" => d.state # Parse!Ground
<1>1. c.state.kind = k /\ Parse!In(k, "esc") \in ParserStates /\ Parse!In(k, "discard") # Parse!Ground
      /\ Parse!In(k, "payload") # Parse!Ground
  BY FrameStates DEF Frames
<1>2. CASE b = "CAN"
  BY <1>1, <1>2, EndsWhole DEF Parse!Payload, Parse!Terminates
<1>3. CASE b = "ESC"
  BY <1>1, <1>3, ToWhole DEF Parse!Payload, Parse!Terminates
<1>4. CASE b \notin {"CAN", "ESC"} /\ Parse!Terminates(k, b)
  BY <1>1, <1>4, EndsWhole DEF Parse!Payload, Parse!Terminates
<1>5. CASE b \notin {"CAN", "ESC"} /\ ~Parse!Terminates(k, b)
  <2>1. Parse!Payload(c, b) = Parse!AppendByte(c, k)
    BY <1>1, <1>5 DEF Parse!Payload
  <2> QED BY <2>1, <1>1, <1>5, AppendMoves
<1> QED BY <1>2, <1>3, <1>4, <1>5

LEMMA EscapeMoves ==
  ASSUME NEW c, Whole(c), NEW k \in Parse!Kinds, c.state = Parse!In(k, "esc"), NEW b \in Parse!Bytes
  PROVE  LET d == Parse!Escape(c, b)
         IN /\ Whole(d) /\ Texts(c, d)
            /\ d.state \in {Parse!Ground} \cup {Parse!In(k, p) : p \in Frames}
            /\ b = "ESC" => d.state \in {Parse!In(k, "esc"), Parse!In(k, "discardEsc")}
            /\ b = "\\" => d.state = Parse!Ground
<1> DEFINE s == Parse!AppendByte(c, k)
<1>1. c.state.kind = k /\ \A p \in Frames : Parse!In(k, p) \in ParserStates
  BY FrameStates DEF Parse!In
<1>2. Whole(s) /\ Texts(c, s) /\ (Parse!Fits(c) => s = Parse!Store(c, k))
      /\ (~Parse!Fits(c) => s.state = Parse!In(k, "discard"))
  BY AppendMoves
<1> HIDE DEF s
<1>3. CASE b \in {"\\", "CAN"}
  <2>1. Parse!Escape(c, b) = IF b = "CAN" THEN Parse!Cancel(c, k) ELSE Parse!Finish(c, k)
    BY <1>1, <1>3 DEF Parse!Escape, Parse!Terminates
  <2> QED BY <2>1, <1>3, EndsWhole
<1>4. CASE b \notin {"\\", "CAN"} /\ Parse!Terminates(k, b)
  <2>1. Parse!Escape(c, b) = IF Parse!Fits(c) THEN Parse!Finish(s, k) ELSE Parse!To(s, Parse!Ground)
    BY <1>1, <1>4 DEF Parse!Escape, Parse!Terminates, s
  <2>2. Whole(Parse!Finish(s, k)) /\ Parse!Finish(s, k).state = Parse!Ground /\ Texts(s, Parse!Finish(s, k))
    BY <1>2, EndsWhole
  <2>3. Whole(Parse!To(s, Parse!Ground)) /\ Parse!To(s, Parse!Ground).state = Parse!Ground /\ Texts(s, Parse!To(s, Parse!Ground))
    BY <1>2, ToWhole, FrameStates DEF Frames, Parse!Kinds
  <2> QED BY <2>1, <2>2, <2>3, <1>2, <1>4 DEF Texts, Parse!Terminates
<1>5. CASE b \notin {"\\", "CAN"} /\ ~Parse!Terminates(k, b) /\ b = "ESC"
  <2>1. Parse!Escape(c, b) = Parse!To(s, Parse!SecondEscape(c, k))
    BY <1>1, <1>5 DEF Parse!Escape, Parse!Terminates, s
  <2>2. Parse!SecondEscape(c, k) \in {Parse!In(k, "esc"), Parse!In(k, "discardEsc")}
    BY DEF Parse!SecondEscape
  <2>3. Parse!SecondEscape(c, k) \in ParserStates /\ Parse!SecondEscape(c, k) \in {Parse!In(k, p) : p \in Frames}
    BY <2>2, <1>1 DEF Frames
  <2>4. /\ Whole(Parse!To(s, Parse!SecondEscape(c, k))) /\ Texts(s, Parse!To(s, Parse!SecondEscape(c, k)))
        /\ Parse!To(s, Parse!SecondEscape(c, k)).state = Parse!SecondEscape(c, k)
    BY <1>2, <2>3, ToWhole
  <2> QED BY <2>1, <2>2, <2>3, <2>4, <1>2, <1>5 DEF Texts
<1>6. CASE b \notin {"\\", "CAN", "ESC"} /\ ~Parse!Terminates(k, b)
  <2>1. Parse!Escape(c, b) = IF ~Parse!Fits(c) THEN s
                       ELSE IF ~Parse!Fits(s) THEN Parse!Overflow(s, k)
                       ELSE Parse!To(Parse!Store(s, k), Parse!In(k, "payload"))
    BY <1>1, <1>6 DEF Parse!Escape, Parse!Terminates, s
  <2>2. /\ Whole(Parse!Overflow(s, k)) /\ Parse!Overflow(s, k).state = Parse!In(k, "discard")
        /\ Texts(s, Parse!Overflow(s, k))
    BY <1>2, EndsWhole
  <2>3. Whole(Parse!Store(s, k)) /\ Texts(s, Parse!Store(s, k))
    BY <1>2, StoreWhole
  <2>4. /\ Whole(Parse!To(Parse!Store(s, k), Parse!In(k, "payload")))
        /\ Parse!To(Parse!Store(s, k), Parse!In(k, "payload")).state = Parse!In(k, "payload")
        /\ Texts(Parse!Store(s, k), Parse!To(Parse!Store(s, k), Parse!In(k, "payload")))
    BY <2>3, <1>1, ToWhole DEF Frames
  <2>5. {Parse!In(k, "discard"), Parse!In(k, "payload")} \subseteq {Parse!In(k, p) : p \in Frames}
    BY DEF Frames
  <2> QED BY <2>1, <2>2, <2>3, <2>4, <2>5, <1>2, <1>6 DEF Texts
<1> QED BY <1>3, <1>4, <1>5, <1>6

LEMMA DiscardMoves ==
  ASSUME NEW c, Whole(c), NEW k \in Parse!Kinds, c.state \in {Parse!In(k, "discard"), Parse!In(k, "discardEsc")},
         NEW b \in Parse!Bytes, NEW d,
         d = IF c.state.place = "discard" THEN Parse!Discard(c, b) ELSE Parse!DiscardEscape(c, b)
  PROVE  /\ Whole(d) /\ Texts(c, d)
         /\ d.state \in {Parse!Ground, Parse!In(k, "discard"), Parse!In(k, "discardEsc")}
         /\ b = "ESC" => d.state = Parse!In(k, "discardEsc")
         /\ b = "G" => d.state # Parse!Ground
         /\ b = "\\" /\ c.state = Parse!In(k, "discardEsc") => d.state = Parse!Ground
<1>1. c.state.kind = k /\ c.state \in ParserStates /\ Texts(c, c)
  BY DEF Parse!In, Whole, Texts
<1>2. /\ {Parse!Ground, Parse!In(k, "discard"), Parse!In(k, "discardEsc")} \subseteq ParserStates
      /\ Parse!In(k, "discard") # Parse!Ground /\ Parse!In(k, "discardEsc") # Parse!Ground
      /\ Parse!In(k, "discard").place = "discard" /\ Parse!In(k, "discardEsc").place = "discardEsc"
  BY FrameStates DEF Frames
<1>3. \A s \in {Parse!Ground, Parse!In(k, "discard"), Parse!In(k, "discardEsc")} :
        Whole(Parse!To(c, s)) /\ Parse!To(c, s).state = s /\ Texts(c, Parse!To(c, s))
  BY <1>2, ToWhole
<1>4. \/ d = c \/ \E s \in {Parse!Ground, Parse!In(k, "discard"), Parse!In(k, "discardEsc")} : d = Parse!To(c, s)
  BY <1>1 DEF Parse!Discard, Parse!DiscardEscape, Parse!Terminates
<1>5. b = "ESC" => d = Parse!To(c, Parse!In(k, "discardEsc")) \/ (d = c /\ c.state = Parse!In(k, "discardEsc"))
  BY <1>1, <1>2 DEF Parse!Discard, Parse!DiscardEscape, Parse!Terminates
<1>6. b = "G" => d = Parse!To(c, Parse!In(k, "discard")) \/ d = c
  BY <1>1, <1>2 DEF Parse!Discard, Parse!DiscardEscape, Parse!Terminates
<1>10. b = "\\" /\ c.state = Parse!In(k, "discardEsc") => d = Parse!To(c, Parse!Ground)
  BY <1>1, <1>2 DEF Parse!DiscardEscape
<1>7. Whole(d) /\ Texts(c, d) /\ d.state \in {Parse!Ground, Parse!In(k, "discard"), Parse!In(k, "discardEsc")}
  BY <1>1, <1>3, <1>4
<1>8. b = "ESC" => d.state = Parse!In(k, "discardEsc")
  BY <1>5, <1>3
<1>9. b = "G" => d.state # Parse!Ground
  BY <1>6, <1>2, <1>3
<1> QED BY <1>2, <1>3, <1>7, <1>8, <1>9, <1>10

(* A control string that is open stays one of its kind, or ends: an ESC     *)
(* never ends it at once, and neither does a G.                             *)
LEMMA FrameMoves ==
  ASSUME NEW c, Whole(c), NEW k \in Parse!Kinds, NEW p \in Frames, c.state = Parse!In(k, p),
         NEW b \in Parse!Bytes
  PROVE  LET d == Parse!ControlState(c, b)
         IN /\ Whole(d) /\ Texts(c, d)
            /\ d.state = Parse!Ground \/ \E q \in Frames : d.state = Parse!In(k, q)
            /\ b = "ESC" => d.state \in {Parse!In(k, "esc"), Parse!In(k, "discardEsc")}
            /\ p \in {"payload", "discard"} /\ b = "G" => d.state # Parse!Ground
            /\ p \in {"esc", "discardEsc"} /\ b = "\\" => d.state = Parse!Ground
<1>1. c.state.place = p
  BY DEF Parse!In
<1>2. CASE p = "payload"
  BY <1>1, <1>2, PayloadMoves DEF Parse!ControlState, Frames
<1>3. CASE p = "esc"
  BY <1>1, <1>3, EscapeMoves DEF Parse!ControlState, Frames
<1>4. CASE p \in {"discard", "discardEsc"}
  <2>1. Parse!ControlState(c, b) = IF c.state.place = "discard" THEN Parse!Discard(c, b) ELSE Parse!DiscardEscape(c, b)
    BY <1>1, <1>4 DEF Parse!ControlState
  <2> QED BY <2>1, <1>4, DiscardMoves DEF Frames
<1> QED BY <1>2, <1>3, <1>4 DEF Frames

(* A control string begins framed only, or collected: the latter when its   *)
(* kind is redacted.                                                        *)
LEMMA StartMoves ==
  ASSUME NEW c, Whole(c), NEW k \in Parse!Kinds
  PROVE  LET d == Parse!StartControlString(c, k)
             opened == Parse!In(k, IF k = "DCS" THEN "preamble" ELSE "payload")
         IN /\ Whole(d) /\ Texts(c, d)
            /\ d.state = opened \/ (k \notin redacted /\ d.state = Parse!In(k, "discard"))
<1> DEFINE opened == Parse!In(k, IF k = "DCS" THEN "preamble" ELSE "payload")
           m == IF k = "OSC1337" THEN Len(Parse!Selector) ELSE 0
           x == Parse!Idle(c)
           y == Parse!To(x, opened)
<1>1. Whole(x) /\ Texts(c, x)
  BY IdleWhole
<1>2. Parse!In(k, "discard") \in ParserStates /\ opened \in ParserStates
  BY FrameStates DEF Frames, ParserStates
<1>3. m \in Nat
  BY DEF Parse!Selector
<1> HIDE DEF x, m, opened
<1>4. Whole(Parse!To(x, Parse!In(k, "discard"))) /\ Parse!To(x, Parse!In(k, "discard")).state = Parse!In(k, "discard")
      /\ Texts(x, Parse!To(x, Parse!In(k, "discard")))
  BY <1>1, <1>2, ToWhole
<1>5. Whole(y) /\ y.state = opened /\ Texts(x, y)
  BY <1>1, <1>2, ToWhole
<1>6. Parse!StartControlString(c, k) = IF ~sink /\ k \notin redacted THEN Parse!To(x, Parse!In(k, "discard"))
                                 ELSE [y EXCEPT !.sink = sink, !.total = m]
  BY DEF Parse!StartControlString, x, y, m, opened
<1> HIDE DEF y
<1>7. LET d == [y EXCEPT !.sink = sink, !.total = m]
      IN Whole(d) /\ d.state = opened /\ Texts(y, d)
  BY <1>5, <1>3 DEF Whole, Fields, Texts
<1>8. Texts(c, Parse!To(x, Parse!In(k, "discard")))
  BY <1>1, <1>4 DEF Texts
<1>9. LET d == [y EXCEPT !.sink = sink, !.total = m]
      IN Whole(d) /\ d.state = opened /\ Texts(c, d)
  BY <1>7, <1>5, <1>1 DEF Texts
<1>10. CASE ~sink /\ k \notin redacted
  <2>1. Parse!StartControlString(c, k) = Parse!To(x, Parse!In(k, "discard"))
    BY <1>6, <1>10
  <2> QED BY <2>1, <1>4, <1>8, <1>10
<1>11. CASE ~(~sink /\ k \notin redacted)
  <2>1. Parse!StartControlString(c, k) = [y EXCEPT !.sink = sink, !.total = m]
    BY <1>6, <1>11
  <2>2. LET d == Parse!StartControlString(c, k)
        IN Whole(d) /\ d.state = opened /\ Texts(c, d)
    BY <2>1, <1>9, Zenon
  <2> QED BY <2>2 DEF opened
<1> QED BY <1>10, <1>11

LEMMA PreambleMoves ==
  ASSUME NEW c, Whole(c), c.state \in {Parse!In("DCS", "preamble"), Parse!In("DCS", "preambleEsc")},
         NEW b \in Parse!Bytes
  PROVE  LET d == Parse!ControlState(c, b)
         IN /\ Whole(d) /\ Texts(c, d)
            /\ b = "ESC" => d.state \in {Parse!In("DCS", "preambleEsc"), Parse!In("DCS", "discardEsc")}
            /\ b = "\\" /\ c.state = Parse!In("DCS", "preambleEsc") => d.state = Parse!Ground
            /\ \/ d.state \in {Parse!Ground, Parse!In("DCS", "discard"), Parse!In("DCS", "discardEsc")}
               \/ c.state = Parse!In("DCS", "preamble") /\
                  d.state \in {Parse!In("DCS", "payload"), Parse!In("DCS", "preamble"), Parse!In("DCS", "preambleEsc")}
<1> DEFINE K == "DCS"
           read == Append(c.dcs, b)
<1>1. K \in Parse!Kinds /\ read \in Seq(Parse!Bytes) /\ Texts(c, c)
  BY DEF Parse!Kinds, Whole, Texts
<1>2. /\ Parse!Ground \in ParserStates /\ Parse!In(K, "discard") \in ParserStates /\ Parse!In(K, "discardEsc") \in ParserStates
      /\ Parse!In(K, "payload") \in ParserStates /\ Parse!In(K, "preamble") \in ParserStates /\ Parse!In(K, "preambleEsc") \in ParserStates
  BY <1>1, FrameStates DEF Frames, ParserStates
<1>3. \A s \in ParserStates : /\ Whole(Parse!To(Parse!Idle(c), s)) /\ Parse!To(Parse!Idle(c), s).state = s /\ Texts(c, Parse!To(Parse!Idle(c), s))
                        /\ Whole(Parse!To(c, s)) /\ Parse!To(c, s).state = s /\ Texts(c, Parse!To(c, s))
  <2>1. Whole(Parse!Idle(c)) /\ Texts(c, Parse!Idle(c))
    BY IdleWhole
  <2> QED BY <2>1, ToWhole DEF Texts
<1>4. CASE c.state = Parse!In(K, "preambleEsc")
  <2>1. Parse!ControlState(c, b) = Parse!PreambleEscape(c, b)
    BY <1>4 DEF Parse!ControlState, Parse!In
  <2>2. \E s \in {Parse!Ground, Parse!In(K, "discard"), Parse!In(K, "discardEsc")} : Parse!ControlState(c, b) = Parse!To(Parse!Idle(c), s)
    BY <2>1 DEF Parse!PreambleEscape
  <2>3. /\ b = "ESC" => Parse!ControlState(c, b) = Parse!To(Parse!Idle(c), Parse!In(K, "discardEsc"))
        /\ b = "\\" => Parse!ControlState(c, b) = Parse!To(Parse!Idle(c), Parse!Ground)
    BY <2>1 DEF Parse!PreambleEscape
  <2> QED BY <2>2, <2>3, <1>2, <1>3
<1>5. CASE c.state = Parse!In(K, "preamble")
  <2>1. Parse!ControlState(c, b) = Parse!Preamble(c, b)
    BY <1>5 DEF Parse!ControlState, Parse!In
  <2>2. \/ Parse!Preamble(c, b) = Parse!To(Parse!Idle(c), Parse!Ground)
        \/ Parse!Preamble(c, b) = Parse!To(c, Parse!In(K, "preambleEsc"))
        \/ Parse!Preamble(c, b) = Parse!To(Parse!Idle(c), Parse!In(K, "discard"))
        \/ Parse!Preamble(c, b) = [Parse!To(c, Parse!In(K, "payload")) EXCEPT !.dcs = read, !.total = @ + 1]
        \/ Parse!Preamble(c, b) = [c EXCEPT !.dcs = read, !.total = @ + 1]
    BY DEF Parse!Preamble
  <2>3. ASSUME NEW x, Whole(x), Texts(c, x)
        PROVE  LET d == [x EXCEPT !.dcs = read, !.total = @ + 1]
               IN Whole(d) /\ d.state = x.state /\ Texts(c, d)
    <3> HIDE DEF read
    <3> QED BY <2>3, <1>1 DEF Whole, Fields, Texts
  <2>4. LET d == [Parse!To(c, Parse!In(K, "payload")) EXCEPT !.dcs = read, !.total = @ + 1]
        IN Whole(d) /\ d.state = Parse!In(K, "payload") /\ Texts(c, d)
    <3> DEFINE x == Parse!To(c, Parse!In(K, "payload"))
    <3>1. Whole(x) /\ Texts(c, x) /\ x.state = Parse!In(K, "payload")
      BY <1>2, <1>3
    <3> HIDE DEF x, read
    <3>2. LET d == [x EXCEPT !.dcs = read, !.total = @ + 1]
          IN Whole(d) /\ d.state = x.state /\ Texts(c, d)
      BY <3>1, <2>3
    <3> QED BY <3>1, <3>2 DEF x
  <2>5. LET d == [c EXCEPT !.dcs = read, !.total = @ + 1]
        IN Whole(d) /\ d.state = c.state /\ Texts(c, d)
    BY <1>1, <2>3
  <2> DEFINE y == [Parse!To(c, Parse!In(K, "payload")) EXCEPT !.dcs = read, !.total = @ + 1]
             z == [c EXCEPT !.dcs = read, !.total = @ + 1]
  <2>6. Whole(y) /\ y.state = Parse!In(K, "payload") /\ Texts(c, y)
    BY <2>4
  <2>7. Whole(z) /\ z.state = Parse!In(K, "preamble") /\ Texts(c, z)
    BY <2>5, <1>5
  <2>8. Parse!Preamble(c, b) \in {Parse!To(Parse!Idle(c), Parse!Ground), Parse!To(c, Parse!In(K, "preambleEsc")),
                             Parse!To(Parse!Idle(c), Parse!In(K, "discard")), y, z}
    BY <2>2
  <2>9. b = "ESC" => Parse!Preamble(c, b) = Parse!To(c, Parse!In(K, "preambleEsc"))
    <3>1. b = "ESC" => ~Parse!Selected(read) /\ read # <<"0">>
      <4>1. read[Len(read)] = b /\ Len(read) \in Nat
        BY DEF Whole
      <4> HIDE DEF read
      <4>2. /\ Len(<<"q">>) = 1 /\ <<"q">>[1] = "q" /\ Len(<<"0">>) = 1 /\ <<"0">>[1] = "0"
            /\ Len(<<"0", "q">>) = 2 /\ <<"0", "q">>[2] = "q"
        OBVIOUS
      <4>3. read = <<"q">> \/ read = <<"0">> => read[Len(read)] \in {"q", "0"}
        BY <4>2, Zenon
      <4>4. read = <<"0", "q">> => read[Len(read)] = "q"
        BY <4>2, Zenon
      <4>5. Parse!Selected(read) => read = <<"q">> \/ read = <<"0", "q">>
        BY DEF Parse!Selected
      <4> QED BY <4>1, <4>3, <4>4, <4>5
    <3> QED BY <3>1 DEF Parse!Preamble
  <2>10. c.state # Parse!In(K, "preambleEsc")
    BY <1>5 DEF Parse!In
  <2> HIDE DEF y, z
  <2> QED BY <2>1, <2>6, <2>7, <2>8, <2>9, <2>10, <1>2, <1>3, <1>5
<1> QED BY <1>4, <1>5

(* Another OSC string is collected. *)
LEMMA CollectWhole ==
  ASSUME NEW c, Whole(c), NEW b \in Parse!Bytes, MaxOSC \in Nat, MaxOSC >= 2
  PROVE  LET d == Parse!Collect(c, b)
         IN /\ Whole(d) /\ d.state = c.state /\ d.rune = c.rune
            /\ Len(c.osc) < 2 => d.osc = Append(c.osc, b) /\ d.truncated = c.truncated
            /\ d.osc = c.osc \/ d.osc = Append(c.osc, b)
<1>1. c.osc \in Seq(Parse!Bytes) /\ Len(c.osc) \in Nat /\ Append(c.osc, b) \in Seq(Parse!Bytes)
  BY DEF Whole
<1>2. CASE Len(c.osc) < MaxOSC
  BY <1>1, <1>2 DEF Parse!Collect, Whole, Fields
<1>3. CASE ~(Len(c.osc) < MaxOSC)
  <2>1. Parse!Collect(c, b) = [c EXCEPT !.truncated = TRUE] /\ ~(Len(c.osc) < 2)
    BY <1>1, <1>3 DEF Parse!Collect
  <2>2. LET d == [c EXCEPT !.truncated = TRUE]
        IN Whole(d) /\ d.state = c.state /\ d.rune = c.rune /\ d.osc = c.osc
    BY DEF Whole, Fields
  <2> QED BY <2>1, <2>2
<1> QED BY <1>2, <1>3

LEMMA PlainStates ==
  /\ \A n \in {"ground", "esc", "CSI", "charset", "OSC", "OSCEsc"} :
        /\ Parse!Plain(n) \in ParserStates /\ Parse!Plain(n).kind = n /\ Parse!Plain(n).place = "none"
        /\ \A k \in Parse!Kinds, p \in Frames \cup {"preamble", "preambleEsc"} : Parse!Plain(n) # Parse!In(k, p)
  /\ Parse!Ground = Parse!Plain("ground")
  BY DEF Parse!Plain, Parse!In, ParserStates, Parse!Ground, Frames

LEMMA CollectedOn ==
  ASSUME NEW c, Whole(c), NEW b \in Parse!Bytes, Parse!ParserAssumption, c.truncated => Len(c.osc) >= 2
  PROVE  LET d == Parse!Collect(c, b)
         IN /\ Whole(d) /\ d.state = c.state /\ d.rune = c.rune
            /\ Len(c.osc) < 2 => d.osc = Append(c.osc, b) /\ Len(d.osc) = Len(c.osc) + 1
            /\ Len(c.osc) >= 2 => Len(d.osc) >= 2 /\ (c.osc # Parse!Selector => d.osc # Parse!Selector)
            /\ d.truncated => Len(d.osc) >= 2
<1> DEFINE d == Parse!Collect(c, b)
<1>1. MaxOSC \in Nat /\ MaxOSC >= 2
  BY DEF Parse!ParserAssumption, Parse!Selector
<1>2. /\ Whole(d) /\ d.state = c.state /\ d.rune = c.rune
      /\ Len(c.osc) < 2 => d.osc = Append(c.osc, b) /\ d.truncated = c.truncated
      /\ d.osc = c.osc \/ d.osc = Append(c.osc, b)
  BY <1>1, CollectWhole
<1>3. c.osc \in Seq(Parse!Bytes) /\ Len(c.osc) \in Nat /\ Len(Append(c.osc, b)) = Len(c.osc) + 1
      /\ Len(Parse!Selector) = 2
  BY DEF Whole, Parse!Selector
<1>4. Len(d.osc) \in Nat /\ (d.osc = Append(c.osc, b) => Len(d.osc) = Len(c.osc) + 1)
  BY <1>2, <1>3
<1>5. Len(c.osc) >= 2 => Len(d.osc) >= 2 /\ (c.osc # Parse!Selector => d.osc # Parse!Selector)
  BY <1>2, <1>3, <1>4
<1>6. d.truncated => Len(d.osc) >= 2
  <2>1. CASE Len(c.osc) >= 2
    BY <2>1, <1>5
  <2>2. CASE Len(c.osc) < 2
    <3>1. ~c.truncated
      BY <2>2, <1>3
    <3>2. d.truncated = c.truncated
      BY <2>2, <1>2
    <3> QED BY <3>1, <3>2, Zenon
  <2> QED BY <2>1, <2>2, <1>3
<1> HIDE DEF d
<1> QED BY <1>2, <1>4, <1>5, <1>6, <1>3 DEF d

LEMMA OSCMoves ==
  ASSUME NEW c, Whole(c), c.state = Parse!Plain("OSC"), Collected(c), NEW b \in Parse!Bytes, Parse!ParserAssumption
  PROVE  LET d == Parse!OSC(c, b)
         IN /\ Whole(d) /\ d.rune = c.rune /\ Collected(d)
            /\ \/ /\ d.state \in {Parse!Ground} \cup Plains
                  /\ Longer(c, d)
               \/ Len(c.osc) < 2 /\ d.state = Parse!In("OSC1337", "payload")
               \/ Len(c.osc) < 2 /\ "OSC1337" \notin redacted /\ d.state = Parse!In("OSC1337", "discard")
<1>1. ~c.rune /\ c.osc # Parse!Selector /\ (c.truncated => Len(c.osc) >= 2)
  BY PlainStates DEF Collected, Plains
<1>2. \A s \in ParserStates : Whole(Parse!To(c, s)) /\ Parse!To(c, s).state = s /\ Texts(c, Parse!To(c, s))
  BY ToWhole
<1>3. CASE b = "BEL" \/ b = "ESC"
  <2> DEFINE s == IF b = "BEL" THEN Parse!Ground ELSE Parse!Plain("OSCEsc")
  <2>1. Parse!OSC(c, b) = Parse!To(c, s)
    <3> DEFINE d == Parse!Collect(c, b)
    <3>1. d.osc = c.osc \/ d.osc = Append(c.osc, b)
      BY CollectWhole DEF Parse!ParserAssumption, Parse!Selector
    <3>2. Append(c.osc, b) # Parse!Selector
      <4>1. Append(c.osc, b)[Len(c.osc) + 1] = b /\ Len(Append(c.osc, b)) = Len(c.osc) + 1
            /\ Len(c.osc) \in Nat
        BY DEF Whole
      <4>2. Parse!Selector[2] = "k" /\ Len(Parse!Selector) = 2
        BY DEF Parse!Selector
      <4> QED BY <4>1, <4>2, <1>3
    <3>3. d.osc # Parse!Selector
      BY <3>1, <3>2, <1>1
    <3> QED BY <1>3, <3>3 DEF Parse!OSC
  <2>2. s \in ParserStates /\ s \in {Parse!Ground} \cup Plains
    BY PlainStates DEF Plains
  <2> HIDE DEF s
  <2>3. Whole(Parse!To(c, s)) /\ Parse!To(c, s).state = s /\ Texts(c, Parse!To(c, s))
    BY <2>2, <1>2
  <2>4. Collected(Parse!To(c, s))
    BY <2>3, <1>1 DEF Collected, Texts
  <2> QED BY <2>1, <2>2, <2>3, <2>4 DEF Longer, Texts
<1>4. CASE b # "BEL" /\ b # "ESC"
  <2> DEFINE d == Parse!Collect(c, b)
             e == [d EXCEPT !.osc = <<>>, !.truncated = FALSE]
             g == Parse!StartControlString(e, "OSC1337")
  <2>1. /\ Whole(d) /\ d.state = c.state /\ d.rune = c.rune
        /\ Len(c.osc) < 2 => d.osc = Append(c.osc, b) /\ Len(d.osc) = Len(c.osc) + 1
        /\ Len(c.osc) >= 2 => Len(d.osc) >= 2 /\ (c.osc # Parse!Selector => d.osc # Parse!Selector)
        /\ d.truncated => Len(d.osc) >= 2
    BY <1>1, CollectedOn
  <2>2. Parse!OSC(c, b) = IF d.osc = Parse!Selector THEN g ELSE d
    BY <1>4 DEF Parse!OSC
  <2> HIDE DEF d
  <2>3. CASE d.osc # Parse!Selector
    <3>1. Collected(d)
      BY <2>1, <2>3, <1>1 DEF Collected
    <3>2. Longer(c, d) /\ d.state \in Plains
      BY <2>1 DEF Longer, Plains
    <3> QED BY <2>1, <2>2, <2>3, <3>1, <3>2
  <2>4. CASE d.osc = Parse!Selector
    <3>1. Len(c.osc) < 2
      BY <2>1, <2>4, <1>1 DEF Whole
    <3>2. Whole(e) /\ e.rune = d.rune
      BY <2>1 DEF Whole, Fields
    <3> HIDE DEF e
    <3>3. /\ Whole(g) /\ Texts(e, g)
          /\ \/ g.state = Parse!In("OSC1337", "payload")
             \/ "OSC1337" \notin redacted /\ g.state = Parse!In("OSC1337", "discard")
      BY <3>2, StartMoves DEF Parse!Kinds
    <3> HIDE DEF g
    <3>4. g.state \notin Plains
      BY <3>3, PlainStates DEF Plains, Parse!Kinds, Frames
    <3>5. g.rune = c.rune
      BY <3>2, <3>3, <2>1 DEF Texts
    <3>6. Collected(g)
      BY <3>4, <3>5, <1>1 DEF Collected
    <3>7. Parse!OSC(c, b) = g
      BY <2>2, <2>4
    <3> QED BY <3>1, <3>3, <3>5, <3>6, <3>7
  <2> QED BY <2>3, <2>4
<1> QED BY <1>3, <1>4

LEMMA OSCEscapeMoves ==
  ASSUME NEW c, Whole(c), c.state = Parse!Plain("OSCEsc"), Collected(c), NEW b \in Parse!Bytes, Parse!ParserAssumption
  PROVE  LET d == Parse!OSCEscape(c, b)
         IN /\ Whole(d) /\ d.rune = c.rune /\ Collected(d)
            /\ d.state = Parse!Ground \/ (d.state = Parse!Plain("OSC") /\ Len(d.osc) >= 2)
<1>1. ~c.rune /\ c.osc # Parse!Selector /\ (c.truncated => Len(c.osc) >= 2)
  BY PlainStates DEF Collected, Plains
<1>2. CASE b = "\\"
  <2>1. Parse!OSCEscape(c, b) = Parse!To(c, Parse!Ground)
    BY <1>2 DEF Parse!OSCEscape
  <2>2. Whole(Parse!To(c, Parse!Ground)) /\ Parse!To(c, Parse!Ground).state = Parse!Ground /\ Texts(c, Parse!To(c, Parse!Ground))
    BY ToWhole, PlainStates
  <2>3. Parse!Ground \notin Plains
    BY DEF Parse!Ground, Parse!Plain, Parse!In, Plains
  <2>4. Collected(Parse!To(c, Parse!Ground))
    BY <2>2, <2>3, <1>1 DEF Collected
  <2> QED BY <2>1, <2>2, <2>4 DEF Texts
<1>3. CASE b # "\\"
  <2> DEFINE d == Parse!Collect(c, "ESC")
             e == Parse!Collect(d, b)
             g == Parse!To(e, Parse!Plain("OSC"))
  <2>1. Parse!OSCEscape(c, b) = g
    BY <1>3 DEF Parse!OSCEscape
  <2>2. "ESC" \in Parse!Bytes
    BY DEF Parse!Bytes
  <2>3. /\ Whole(d) /\ d.rune = c.rune
        /\ Len(c.osc) < 2 => d.osc = Append(c.osc, "ESC") /\ Len(d.osc) = Len(c.osc) + 1
        /\ Len(c.osc) >= 2 => Len(d.osc) >= 2 /\ (c.osc # Parse!Selector => d.osc # Parse!Selector)
        /\ d.truncated => Len(d.osc) >= 2
    BY <1>1, <2>2, CollectedOn
  <2> HIDE DEF d
  <2>4. /\ Whole(e) /\ e.rune = d.rune
        /\ Len(d.osc) < 2 => e.osc = Append(d.osc, b) /\ Len(e.osc) = Len(d.osc) + 1
        /\ Len(d.osc) >= 2 => Len(e.osc) >= 2 /\ (d.osc # Parse!Selector => e.osc # Parse!Selector)
        /\ e.truncated => Len(e.osc) >= 2
    BY <2>3, CollectedOn
  <2> HIDE DEF e
  <2>5. Whole(g) /\ g.state = Parse!Plain("OSC") /\ Texts(e, g)
    <3>1. Parse!Plain("OSC") \in ParserStates /\ Whole(e)
      BY <2>4, PlainStates
    <3> QED BY <3>1, ToWhole
  <2> HIDE DEF g
  <2>6. c.osc \in Seq(Parse!Bytes) /\ Len(c.osc) \in Nat /\ d.osc \in Seq(Parse!Bytes) /\ Len(d.osc) \in Nat
        /\ Len(e.osc) \in Nat
    <3>1. \A x : Whole(x) => x.osc \in Seq(Parse!Bytes)
      BY DEF Whole
    <3>2. \A s \in Seq(Parse!Bytes) : Len(s) \in Nat
      OBVIOUS
    <3> QED BY <2>3, <2>4, <3>1, <3>2, Zenon
  <2>7. Len(e.osc) >= 2
    BY <2>3, <2>4, <2>6
  <2>8. e.osc # Parse!Selector
    <3>1. CASE Len(c.osc) >= 2
      BY <3>1, <2>3, <2>4, <1>1
    <3>2. CASE Len(c.osc) = 1
      <4>1. d.osc[2] = "ESC" /\ Len(d.osc) = 2
        BY <3>2, <2>3, <2>6
      <4>2. d.osc # Parse!Selector
        BY <4>1 DEF Parse!Selector
      <4> QED BY <4>1, <4>2, <2>4
    <3>3. CASE Len(c.osc) = 0
      <4>1. d.osc[1] = "ESC" /\ Len(d.osc) = 1
        BY <3>3, <2>3, <2>6
      <4>2. e.osc[1] = "ESC"
        BY <4>1, <2>4, <2>6
      <4> QED BY <4>2 DEF Parse!Selector
    <3>4. Len(c.osc) >= 2 \/ Len(c.osc) = 1 \/ Len(c.osc) = 0
      <4>1. \A n \in Nat : n >= 2 \/ n = 1 \/ n = 0
        OBVIOUS
      <4>2. Len(c.osc) \in Nat
        BY <2>6
      <4> QED BY <4>1, <4>2
    <3> QED BY <3>1, <3>2, <3>3, <3>4
  <2>9. Collected(g)
    BY <2>4, <2>5, <2>3, <2>7, <2>8, <1>1 DEF Collected, Texts
  <2> QED BY <2>1, <2>3, <2>4, <2>5, <2>7, <2>9 DEF Texts
<1> QED BY <1>2, <1>3

LEMMA EscMoves ==
  ASSUME NEW c, Whole(c), c.state = Parse!Plain("esc"), ~c.rune, NEW b \in Parse!Bytes
  PROVE  LET d == Parse!Esc(c, b) IN Whole(d) /\ d.rune = c.rune /\ Collected(d) /\ EscTo(b, d)
<1>1. \A s \in ParserStates : Whole(Parse!To(c, s)) /\ Parse!To(c, s).state = s /\ Texts(c, Parse!To(c, s))
  BY ToWhole
<1>2. /\ Parse!Plain("esc") \notin Plains /\ Parse!Plain("CSI") \notin Plains /\ Parse!Plain("charset") \notin Plains
      /\ Parse!Ground \notin Plains
      /\ {Parse!Plain("CSI"), Parse!Plain("charset"), Parse!Plain("OSC"), Parse!Plain("esc"), Parse!Ground} \subseteq ParserStates
  BY PlainStates DEF Plains
<1>3. ASSUME NEW x, x.state \notin Plains, x.rune = c.rune
      PROVE  Collected(x)
  BY <1>3 DEF Collected
<1>4. CASE b = "ESC"
  <2>1. Parse!Esc(c, b) = c
    BY <1>4 DEF Parse!Esc
  <2> QED BY <2>1, <1>2, <1>3, <1>4 DEF EscTo
<1>5. CASE b \notin {"ESC", "]", "_", "P"}
  <2>1. PICK s \in {Parse!Ground, Parse!Plain("CSI"), Parse!Plain("charset")} : Parse!Esc(c, b) = Parse!To(c, s)
    BY <1>5 DEF Parse!Esc
  <2>2. Whole(Parse!To(c, s)) /\ Parse!To(c, s).state = s /\ Parse!To(c, s).rune = c.rune
    BY <1>1, <1>2 DEF Texts
  <2>3. Collected(Parse!To(c, s))
    BY <2>2, <1>2, <1>3
  <2> QED BY <2>1, <2>2, <2>3, <1>5 DEF EscTo
<1>6. CASE b = "]"
  <2> DEFINE x == Parse!To(c, Parse!Plain("OSC"))
             d == [x EXCEPT !.osc = <<>>, !.truncated = FALSE]
  <2>1. Parse!Esc(c, b) = d
    BY <1>6 DEF Parse!Esc
  <2>2. Whole(x) /\ x.state = Parse!Plain("OSC") /\ x.rune = c.rune
    BY <1>1, <1>2 DEF Texts
  <2> HIDE DEF x
  <2>3. Whole(d) /\ d.state = Parse!Plain("OSC") /\ d.rune = c.rune /\ d.osc = <<>> /\ ~d.truncated
    BY <2>2 DEF Whole, Fields
  <2> HIDE DEF d
  <2>4. <<>> # Parse!Selector
    BY DEF Parse!Selector
  <2>5. Collected(d)
    BY <2>3, <2>4 DEF Collected
  <2>6. EscTo(b, d)
    BY <2>3, <1>6 DEF EscTo
  <2> QED BY <2>1, <2>3, <2>5, <2>6
<1>7. CASE b \in {"_", "P"}
  <2> DEFINE k == IF b = "_" THEN "APC" ELSE "DCS"
             d == Parse!StartControlString(c, k)
  <2>1. Parse!Esc(c, b) = d
    BY <1>7 DEF Parse!Esc
  <2>2. k \in Parse!Kinds
    BY DEF Parse!Kinds
  <2> HIDE DEF k
  <2>3. /\ Whole(d) /\ Texts(c, d)
        /\ \/ d.state = Parse!In(k, IF k = "DCS" THEN "preamble" ELSE "payload")
           \/ k \notin redacted /\ d.state = Parse!In(k, "discard")
    BY <2>2, StartMoves
  <2> HIDE DEF d
  <2>4. d.state \notin Plains
    BY <2>2, <2>3, PlainStates DEF Plains, Frames
  <2>5. Collected(d)
    BY <2>3, <2>4, <1>3 DEF Texts
  <2>6. EscTo(b, d)
    BY <2>3, <1>7 DEF EscTo, k
  <2> QED BY <2>1, <2>3, <2>5, <2>6 DEF Texts
<1> QED BY <1>4, <1>5, <1>6, <1>7

LEMMA AdvanceMoves ==
  ASSUME NEW c0, Whole(c0), Collected(c0), NEW b \in Parse!Bytes, Parse!ParserAssumption
  PROVE  ByteMoves(c0, b, Parse!AdvanceCore(c0, b))
<1> DEFINE c == [c0 EXCEPT !.events = <<>>, !.rune = FALSE]
           d == Parse!AdvanceCore(c0, b)
<1>1. Whole(c) /\ c.state = c0.state /\ ~c.rune /\ c.osc = c0.osc /\ c.truncated = c0.truncated
  BY DEF Whole, Fields
<1>2. Collected(c) /\ Texts(c, c)
  BY <1>1 DEF Collected, Texts
<1>3. d = CASE c0.rune /\ b = "tail" -> c
            [] c.state = Parse!Ground -> Parse!GroundByte(c, b)
            [] c.state = Parse!Plain("esc") -> Parse!Esc(c, b)
            [] c.state = Parse!Plain("CSI") -> IF b \in {"0", "k", "("} THEN c ELSE Parse!To(c, Parse!Ground)
            [] c.state = Parse!Plain("charset") -> Parse!To(c, Parse!Ground)
            [] c.state = Parse!Plain("OSC") -> Parse!OSC(c, b)
            [] c.state = Parse!Plain("OSCEsc") -> Parse!OSCEscape(c, b)
            [] OTHER -> Parse!ControlState(c, b)
  BY Zenon DEF Parse!AdvanceCore
<1> HIDE DEF c, d
<1>4. /\ Parse!Ground \in ParserStates /\ Parse!Plain("esc") \in ParserStates
      /\ \A n \in {"ground", "esc", "CSI", "charset", "OSC", "OSCEsc"} : Parse!Plain(n).kind = n
      /\ Parse!Ground = Parse!Plain("ground")
      /\ \A n \in {"ground", "esc", "CSI", "charset", "OSC", "OSCEsc"},
            k \in Parse!Kinds, p \in Frames \cup {"preamble", "preambleEsc"} : Parse!Plain(n) # Parse!In(k, p)
  BY PlainStates
<1>5. \A s \in ParserStates : Whole(Parse!To(c, s)) /\ Parse!To(c, s).state = s /\ Texts(c, Parse!To(c, s))
  BY <1>1, ToWhole
<1>6. \A s \in ParserStates : s \notin Plains => Collected(Parse!To(c, s))
  BY <1>5, <1>1 DEF Collected, Texts
<1>7. CASE c.state = Parse!Ground
  <2>1. c.state \notin Plains /\ Parse!Ground \notin Plains /\ Parse!Plain("esc") \notin Plains
    BY <1>4, <1>7 DEF Plains
  <2>2. d = c \/ d = Parse!To(c, Parse!Plain("esc")) \/ d = [c EXCEPT !.rune = TRUE]
    <3>1. d = c \/ d = Parse!GroundByte(c, b)
      <4>1. /\ c.state # Parse!Plain("esc") /\ c.state # Parse!Plain("CSI") /\ c.state # Parse!Plain("charset")
            /\ c.state # Parse!Plain("OSC") /\ c.state # Parse!Plain("OSCEsc")
        BY <1>4, <1>7
      <4>2. b = "tail" => Parse!GroundByte(c, b) = c
        BY DEF Parse!GroundByte
      <4> QED BY <1>3, <1>7, <4>1, <4>2
    <3>2. Parse!GroundByte(c, b) = c \/ Parse!GroundByte(c, b) = Parse!To(c, Parse!Plain("esc"))
          \/ Parse!GroundByte(c, b) = [c EXCEPT !.rune = TRUE]
      BY DEF Parse!GroundByte
    <3> QED BY <3>1, <3>2
  <2> DEFINE e == [c EXCEPT !.rune = TRUE]
  <2>3. Whole(e) /\ e.state = c.state
    BY <1>1 DEF Whole, Fields
  <2> HIDE DEF e
  <2>4. Collected(e)
    BY <2>1, <2>3, <1>7 DEF Collected
  <2>5. d = c \/ d = Parse!To(c, Parse!Plain("esc")) \/ d = e
    BY <2>2 DEF e
  <2>6. Whole(d) /\ Collected(d) /\ d.state \in {Parse!Ground, Parse!Plain("esc")}
    BY <2>1, <2>3, <2>4, <2>5, <1>1, <1>2, <1>4, <1>5, <1>6, <1>7
  <2> QED BY <2>6, <1>1, <1>4, <1>7 DEF ByteMoves, d, Frames, Parse!Kinds
<1>8. CASE c.state # Parse!Ground
  <2>1. ~c0.rune
    BY <1>8, <1>1 DEF Collected
  <2>2. CASE c.state = Parse!Plain("esc")
    <3>1. d = Parse!Esc(c, b)
      BY <1>3, <1>4, <2>1, <2>2
    <3>2. Whole(d) /\ Collected(d) /\ EscTo(b, d)
      BY <3>1, <2>2, <1>1, EscMoves
    <3> QED BY <3>2, <2>2, <1>1, <1>4 DEF ByteMoves, d, Frames, Parse!Kinds
  <2>3. CASE c.state \in {Parse!Plain("CSI"), Parse!Plain("charset")}
    <3>1. d = c \/ d = Parse!To(c, Parse!Ground)
      BY <1>3, <1>4, <2>1, <2>3
    <3>2. Parse!Ground \notin Plains
      BY <1>4 DEF Plains
    <3>3. Whole(d) /\ Collected(d) /\ d.state \in {c.state, Parse!Ground}
      BY <3>1, <3>2, <1>1, <1>2, <1>4, <1>5, <1>6
    <3> QED BY <3>3, <2>3, <1>1, <1>4 DEF ByteMoves, d, Frames, Parse!Kinds
  <2>4. CASE c.state = Parse!Plain("OSC")
    <3>1. d = Parse!OSC(c, b)
      BY <1>3, <1>4, <2>1, <2>4
    <3>2. Whole(d) /\ Collected(d) /\ OSCTo(c, d)
      BY <3>1, <2>4, <1>1, <1>2, OSCMoves DEF OSCTo
    <3>3. OSCTo(c0, d)
      BY <3>2, <1>1 DEF OSCTo, Longer
    <3> QED BY <3>2, <3>3, <2>4, <1>1, <1>4 DEF ByteMoves, d, Frames, Parse!Kinds
  <2>5. CASE c.state = Parse!Plain("OSCEsc")
    <3>1. d = Parse!OSCEscape(c, b)
      BY <1>3, <1>4, <2>1, <2>5
    <3>2. Whole(d) /\ Collected(d) /\ (d.state = Parse!Ground \/ (d.state = Parse!Plain("OSC") /\ Len(d.osc) >= 2))
      BY <3>1, <2>5, <1>1, <1>2, OSCEscapeMoves
    <3>3. \A k \in Parse!Kinds, p \in Frames : c0.state # Parse!In(k, p)
      BY <2>5, <1>1, <1>4 DEF Frames
    <3>4. c0.state \notin {Parse!In("DCS", "preamble"), Parse!In("DCS", "preambleEsc")}
      BY <2>5, <1>1, <1>4 DEF Parse!Kinds
    <3>5. c0.state # Parse!Ground /\ c0.state # Parse!Plain("esc") /\ c0.state # Parse!Plain("CSI")
          /\ c0.state # Parse!Plain("charset") /\ c0.state # Parse!Plain("OSC")
      BY <2>5, <1>1, <1>4
    <3> QED BY <3>2, <3>3, <3>4, <3>5 DEF ByteMoves, d
  <2>6. ASSUME NEW k \in Parse!Kinds, NEW p \in Frames, c.state = Parse!In(k, p)
        PROVE  ByteMoves(c0, b, d)
    <3>1. d = Parse!ControlState(c, b)
      BY <1>3, <1>4, <2>1, <2>6, <1>8
    <3>2. Whole(d) /\ Texts(c, d) /\ FrameTo(k, p, b, d)
      <4>0. Whole(c) /\ c.state = Parse!In(k, p)
        BY <2>6, <1>1
      <4>1. Whole(d) /\ Texts(c, d)
        BY <3>1, <4>0, FrameMoves, ZenonT(60)
      <4>2. d.state = Parse!Ground \/ \E q \in Frames : d.state = Parse!In(k, q)
        BY <3>1, <4>0, FrameMoves, ZenonT(60)
      <4>3. /\ b = "ESC" => d.state \in {Parse!In(k, "esc"), Parse!In(k, "discardEsc")}
            /\ p \in {"payload", "discard"} /\ b = "G" => d.state # Parse!Ground
            /\ p \in {"esc", "discardEsc"} /\ b = "\\" => d.state = Parse!Ground
        BY <3>1, <4>0, FrameMoves, ZenonT(60)
      <4> QED BY <4>1, <4>2, <4>3, Zenon DEF FrameTo
    <3>3. d.state \notin Plains
      BY <3>2, <1>4 DEF FrameTo, Plains
    <3>4. Collected(d)
      BY <3>2, <3>3, <1>1 DEF Collected, Texts
    <3>5. ASSUME NEW m \in Parse!Kinds, NEW q \in Frames, c0.state = Parse!In(m, q)
          PROVE  m = k /\ q = p
      BY <3>5, <2>6, <1>1 DEF Parse!In
    <3>6. c0.state \notin {Parse!In("DCS", "preamble"), Parse!In("DCS", "preambleEsc")}
      BY <2>6, <1>1 DEF Parse!In, Frames
    <3> QED BY <3>2, <3>4, <3>5, <3>6, <2>6, <1>1, <1>4, <1>8 DEF ByteMoves
  <2>7. CASE c.state \in {Parse!In("DCS", "preamble"), Parse!In("DCS", "preambleEsc")}
    <3>1. d = Parse!ControlState(c, b)
      BY <1>3, <1>4, <2>1, <2>7, <1>8 DEF Parse!Kinds
    <3>2. Whole(d) /\ Texts(c, d) /\ PreambleTo(c, b, d)
      BY <3>1, <2>7, <1>1, PreambleMoves DEF PreambleTo
    <3>3. d.state \notin Plains
      BY <3>2, <1>4 DEF PreambleTo, Plains, Frames, Parse!Kinds
    <3>4. Collected(d)
      BY <3>2, <3>3, <1>1 DEF Collected, Texts
    <3>5. ASSUME NEW m \in Parse!Kinds, NEW q \in Frames PROVE c0.state # Parse!In(m, q)
      BY <2>7, <1>1 DEF Parse!In, Frames
    <3>6. PreambleTo(c0, b, d)
      BY <3>2, <1>1 DEF PreambleTo
    <3> QED BY <3>2, <3>4, <3>5, <3>6, <2>7, <1>1, <1>4, <1>8 DEF ByteMoves, Parse!Kinds, d
  <2> QED BY <2>2, <2>3, <2>4, <2>5, <2>6, <2>7, <1>1, <1>4, <1>8 DEF Whole, ParserStates, d
<1> QED BY <1>7, <1>8 DEF d

LEMMA PublishedOf ==
  /\ Parse!Published({}) = {}
  /\ \A H, i : i \in Parse!Published(H) <=> \E e \in H : e.public /\ e.at = i
  /\ \A H, e, i : i \in Parse!Published(H \cup {e}) <=> i \in Parse!Published(H) \/ (e.public /\ i = e.at)
<1>1. \A H, i : i \in Parse!Published(H) <=> \E e \in H : e.public /\ e.at = i
  BY DEF Parse!Published
<1>2. Parse!Published({}) = {}
  BY DEF Parse!Published
<1>3. \A H, e, i : i \in Parse!Published(H \cup {e}) <=> i \in Parse!Published(H) \/ (e.public /\ i = e.at)
  BY <1>1
<1> QED BY <1>1, <1>2, <1>3

(* All that was held is released, and the byte with it. *)
LEMMA KeptByRelease ==
  ASSUME NEW n, NEW p, NEW f, NEW ft, NEW sec, Kept(p, f, ft, sec, n),
         NEW pub \in BOOLEAN, NEW e, e.at = n + 1, e.public = pub,
         NEW p1, NEW f1, NEW ft1, Passed(p, ft, n, pub, p.hold \cup {e}, p1, ft1),
         p1.mode = "idle", p1.hold = {}, f1.from \in 0..(n + 1), ~f1.selected
  PROVE  Kept(p1, f1, ft1, sec, n + 1)
<1> DEFINE H == Parse!Published(p.hold)
           O == Parse!Published(p.hold \cup {e})
<1>1. \A i : i \in O <=> i \in H \/ (pub /\ i = n + 1)
  BY PublishedOf
<1>2. \A i \in H : i \in 1..n /\ ft[i] = "waiting" /\ i \notin sec
  BY PublishedOf DEF Kept, HeldBack
<1>3. n \in Nat /\ ft \in Seq(Fates) /\ Len(ft) = n /\ sec \subseteq 0..n
  BY DEF Kept, Written
<1>4. \A i \in p.deferred : i \in 1..n /\ ft[i] = "waiting" /\ i \notin sec
  BY DEF Kept, PutOff
<1>5. /\ \A i \in sec : i \in 1..n => ft[i] # "emitted"
      /\ \A i \in 1..n : ft[i] = "waiting" => i \in sec \/ i \in p.deferred \/ i \in H
      /\ \A i, j \in 1..n : i < j /\ ft[j] = "emitted" /\ ft[i] = "waiting" => i \in sec
  BY DEF Kept, Ordered
<1>6. /\ ft1 \in Seq(Fates) /\ Len(ft1) = n + 1
      /\ \A i \in 1..(n + 1) : ft1[i] = IF pub /\ (i \in p.deferred \/ i \in O) THEN "emitted"
                                        ELSE IF i <= n THEN ft[i]
                                        ELSE IF pub THEN "waiting" ELSE "private"
      /\ p1.deferred = IF pub THEN {} ELSE p.deferred \cup O
  BY DEF Passed, Fate
<1> HIDE DEF H, O
<1>7. Written(ft1, sec, n + 1)
  BY <1>3, <1>6 DEF Written
<1>8. Sorted(p1, f1, sec, n + 1)
  BY DEF Sorted, Probes
<1>9. HeldBack(p1, f1, ft1, sec, n + 1)
  BY DEF HeldBack, Probes
<1>10. PutOff(p1, f1, ft1, sec, n + 1)
  <2>1. ASSUME NEW i \in p1.deferred PROVE i \in 1..(n + 1) /\ ft1[i] = "waiting" /\ i \notin sec
    BY <1>1, <1>2, <1>3, <1>4, <1>6
  <2> QED BY <2>1, PublishedOf DEF PutOff, Probes
<1>11. Ordered(p1, ft1, sec, n + 1)
  <2>1. ASSUME NEW i \in sec, i \in 1..(n + 1) PROVE ft1[i] # "emitted"
    BY <2>1, <1>1, <1>2, <1>3, <1>4, <1>5, <1>6
  <2>2. ASSUME NEW i \in 1..(n + 1), ft1[i] = "waiting" PROVE i \in sec \/ i \in p1.deferred
    BY <2>2, <1>1, <1>2, <1>3, <1>4, <1>5, <1>6
  <2>3. ASSUME NEW i \in 1..(n + 1), NEW j \in 1..(n + 1), i < j, ft1[j] = "emitted", ft1[i] = "waiting"
        PROVE  i \in sec
    <3>1. CASE pub
      BY <2>2, <2>3, <3>1, <1>6
    <3>2. CASE ~pub
      BY <2>3, <3>2, <1>3, <1>5, <1>6
    <3> QED BY <3>1, <3>2
  <2> QED BY <2>1, <2>2, <2>3 DEF Ordered
<1> QED BY <1>7, <1>8, <1>9, <1>10, <1>11 DEF Kept

(* The byte is held, with what was or as the first of a sequence. *)
LEMMA KeptByHold ==
  ASSUME NEW n, NEW p, NEW f, NEW ft, NEW sec, Kept(p, f, ft, sec, n),
         NEW pub \in BOOLEAN, NEW e, e.at = n + 1, e.public = pub,
         NEW p1, NEW f1, NEW ft1, Passed(p, ft, n, pub, {}, p1, ft1),
         p1.mode \in Probes, p1.hold = p.hold \cup {e}, ~f1.selected,
         \/ f1.from = f.from /\ p.mode \in Probes
         \/ f1.from = n + 1 /\ p.hold = {}
  PROVE  Kept(p1, f1, ft1, sec, n + 1)
<1> DEFINE H == Parse!Published(p.hold)
           O == Parse!Published(p.hold \cup {e})
<1>1. \A i : i \in O <=> i \in H \/ (pub /\ i = n + 1)
  BY PublishedOf
<1>2. \A i \in H : i \in 1..n /\ ft[i] = "waiting" /\ i \notin sec
  BY PublishedOf DEF Kept, HeldBack
<1>3. n \in Nat /\ ft \in Seq(Fates) /\ Len(ft) = n /\ sec \subseteq 0..n /\ f.from \in 0..n
  BY DEF Kept, Written, Sorted
<1>4. /\ \A i \in p.deferred : i \in 1..n /\ ft[i] = "waiting" /\ i \notin sec
      /\ p.mode \in Probes => \A i \in p.deferred : i < f.from
      /\ p.deferred # {} => H = {}
  BY DEF Kept, PutOff
<1>5. /\ \A i \in sec : i \in 1..n => ft[i] # "emitted"
      /\ \A i \in 1..n : ft[i] = "waiting" => i \in sec \/ i \in p.deferred \/ i \in H
      /\ \A i, j \in 1..n : i < j /\ ft[j] = "emitted" /\ ft[i] = "waiting" => i \in sec
  BY DEF Kept, Ordered
<1>6. /\ ft1 \in Seq(Fates) /\ Len(ft1) = n + 1
      /\ \A i \in 1..(n + 1) : ft1[i] = IF pub /\ i \in p.deferred THEN "emitted"
                                        ELSE IF i <= n THEN ft[i]
                                        ELSE IF pub THEN "waiting" ELSE "private"
      /\ p1.deferred = IF pub THEN {} ELSE p.deferred
  <2>1. Parse!Published({}) = {} /\ p.deferred \cup {} = p.deferred
    BY PublishedOf
  <2>2. p.deferred \cup Parse!Published({}) = p.deferred
    BY <2>1
  <2>3. \A i : Fate(p, ft, n, pub, {}, i) = IF pub /\ i \in p.deferred THEN "emitted"
                                           ELSE IF i <= n THEN ft[i]
                                           ELSE IF pub THEN "waiting" ELSE "private"
    BY <2>1 DEF Fate
  <2> QED BY <2>2, <2>3 DEF Passed
<1>7. /\ \A g \in p.hold : /\ g.at \in 1..n /\ g.at >= f.from /\ g.at \notin sec
                           /\ g.public => ft[g.at] = "waiting"
      /\ p.mode \in Probes => \A i \in 1..n : i >= f.from => ft[i] # "emitted"
  BY DEF Kept, HeldBack
<1>8. f1.from \in 0..(n + 1) /\ p1.mode # "selected"
  BY <1>3 DEF Probes
<1>9. \A i \in p.deferred : i < f1.from
  BY <1>3, <1>4
<1>10. p1.hold = p.hold \cup {e} /\ Parse!Published(p1.hold) = O
  BY Zenon DEF O
<1> HIDE DEF H, O
<1>11. Written(ft1, sec, n + 1)
  BY <1>3, <1>6 DEF Written
<1>12. Sorted(p1, f1, sec, n + 1)
  BY <1>8 DEF Sorted
<1>13. HeldBack(p1, f1, ft1, sec, n + 1)
  <2>1. ASSUME NEW g \in p1.hold
        PROVE  /\ g.at \in 1..(n + 1) /\ g.at >= f1.from /\ g.at \notin sec
               /\ g.public => ft1[g.at] = "waiting"
    <3>1. CASE g = e
      BY <3>1, <1>3, <1>4, <1>6, <1>8
    <3>2. CASE g \in p.hold
      <4>1. /\ g.at \in 1..n /\ g.at >= f1.from /\ g.at \notin sec
            /\ g.public => ft[g.at] = "waiting"
        BY <3>2, <1>7
      <4>2. g.public => g.at \in H
        BY <3>2, PublishedOf DEF H
      <4>3. g.public => g.at \notin p.deferred
        BY <4>2, <1>4
      <4> QED BY <4>1, <4>3, <1>3, <1>6
    <3> QED BY <3>1, <3>2, <1>10
  <2>2. ASSUME NEW i \in 1..(n + 1), i >= f1.from PROVE ft1[i] # "emitted"
    BY <2>2, <1>3, <1>6, <1>7, <1>9
  <2> QED BY <2>1, <2>2 DEF HeldBack
<1>14. PutOff(p1, f1, ft1, sec, n + 1)
  <2>1. ASSUME NEW i \in p1.deferred
        PROVE  i \in 1..(n + 1) /\ ft1[i] = "waiting" /\ i \notin sec /\ i < f1.from
    BY <1>3, <1>4, <1>6, <1>9
  <2>2. p1.deferred # {} => Parse!Published(p1.hold) = {}
    BY <1>1, <1>4, <1>6, <1>10
  <2> QED BY <2>1, <2>2 DEF PutOff
<1>15. Ordered(p1, ft1, sec, n + 1)
  <2>1. ASSUME NEW i \in sec, i \in 1..(n + 1) PROVE ft1[i] # "emitted"
    BY <2>1, <1>3, <1>4, <1>5, <1>6
  <2>2. ASSUME NEW i \in 1..(n + 1), ft1[i] = "waiting"
        PROVE  i \in sec \/ i \in p1.deferred \/ i \in Parse!Published(p1.hold)
    BY <2>2, <1>1, <1>3, <1>4, <1>5, <1>6, <1>10
  <2>3. ASSUME NEW i \in 1..(n + 1), NEW j \in 1..(n + 1), i < j, ft1[j] = "emitted", ft1[i] = "waiting"
        PROVE  i \in sec
    <3>1. CASE pub /\ j \in p.deferred
      BY <2>3, <3>1, <1>3, <1>4, <1>5, <1>6
    <3>2. CASE ~(pub /\ j \in p.deferred)
      BY <2>3, <3>2, <1>3, <1>5, <1>6
    <3> QED BY <3>1, <3>2
  <2> QED BY <2>1, <2>2, <2>3 DEF Ordered
<1> QED BY <1>11, <1>12, <1>13, <1>14, <1>15 DEF Kept

(* What was held is released, and the byte is the first of a sequence. *)
LEMMA KeptByRestart ==
  ASSUME NEW n, NEW p, NEW f, NEW ft, NEW sec, Kept(p, f, ft, sec, n),
         NEW pub \in BOOLEAN, NEW e, e.at = n + 1, e.public = pub,
         NEW p1, NEW f1, NEW ft1, Passed(p, ft, n, pub, p.hold, p1, ft1),
         p1.mode \in Probes, p1.hold = {e}, ~f1.selected, f1.from = n + 1
  PROVE  Kept(p1, f1, ft1, sec, n + 1)
<1> DEFINE H == Parse!Published(p.hold)
           O == Parse!Published({e})
<1>1. \A i : i \in O <=> pub /\ i = n + 1
  BY PublishedOf
<1>2. \A i \in H : i \in 1..n /\ ft[i] = "waiting" /\ i \notin sec
  BY PublishedOf DEF Kept, HeldBack
<1>3. n \in Nat /\ ft \in Seq(Fates) /\ Len(ft) = n /\ sec \subseteq 0..n /\ f.from \in 0..n
  BY DEF Kept, Written, Sorted
<1>4. \A i \in p.deferred : i \in 1..n /\ ft[i] = "waiting" /\ i \notin sec
  BY DEF Kept, PutOff
<1>5. /\ \A i \in sec : i \in 1..n => ft[i] # "emitted"
      /\ \A i \in 1..n : ft[i] = "waiting" => i \in sec \/ i \in p.deferred \/ i \in H
      /\ \A i, j \in 1..n : i < j /\ ft[j] = "emitted" /\ ft[i] = "waiting" => i \in sec
  BY DEF Kept, Ordered
<1>6. /\ ft1 \in Seq(Fates) /\ Len(ft1) = n + 1
      /\ \A i \in 1..(n + 1) : ft1[i] = IF pub /\ (i \in p.deferred \/ i \in H) THEN "emitted"
                                        ELSE IF i <= n THEN ft[i]
                                        ELSE IF pub THEN "waiting" ELSE "private"
      /\ p1.deferred = IF pub THEN {} ELSE p.deferred \cup H
  BY DEF Passed, Fate
<1>7. p1.mode # "selected" /\ Parse!Published(p1.hold) = O
  BY DEF Probes
<1> HIDE DEF H, O
<1>8. Written(ft1, sec, n + 1)
  BY <1>3, <1>6 DEF Written
<1>9. Sorted(p1, f1, sec, n + 1)
  BY <1>3, <1>7 DEF Sorted
<1>10. HeldBack(p1, f1, ft1, sec, n + 1)
  <2>1. ft1[n + 1] = IF pub THEN "waiting" ELSE "private"
    BY <1>2, <1>3, <1>4, <1>6
  <2>2. ASSUME NEW i \in 1..(n + 1), i >= f1.from PROVE ft1[i] # "emitted"
    BY <2>1, <2>2, <1>3
  <2> QED BY <2>1, <2>2, <1>3 DEF HeldBack
<1>11. PutOff(p1, f1, ft1, sec, n + 1)
  <2>1. ASSUME NEW i \in p1.deferred
        PROVE  i \in 1..(n + 1) /\ ft1[i] = "waiting" /\ i \notin sec /\ i < f1.from
    BY <1>2, <1>3, <1>4, <1>6
  <2>2. p1.deferred # {} => O = {}
    BY <1>1, <1>6
  <2> QED BY <2>1, <2>2, <1>7 DEF PutOff
<1>12. Ordered(p1, ft1, sec, n + 1)
  <2>1. ASSUME NEW i \in sec, i \in 1..(n + 1) PROVE ft1[i] # "emitted"
    BY <2>1, <1>2, <1>3, <1>4, <1>5, <1>6
  <2>2. ASSUME NEW i \in 1..(n + 1), ft1[i] = "waiting" PROVE i \in sec \/ i \in p1.deferred \/ i \in O
    BY <2>2, <1>1, <1>2, <1>3, <1>4, <1>5, <1>6
  <2>3. ASSUME NEW i \in 1..(n + 1), NEW j \in 1..(n + 1), i < j, ft1[j] = "emitted", ft1[i] = "waiting"
        PROVE  i \in sec
    BY <2>3, <1>3, <1>5, <1>6
  <2> QED BY <2>1, <2>2, <2>3, <1>7 DEF Ordered
<1> QED BY <1>8, <1>9, <1>10, <1>11, <1>12 DEF Kept

(* What was held belongs to a selected frame, and the byte too. *)
LEMMA KeptByTake ==
  ASSUME NEW n, NEW p, NEW f, NEW ft, NEW sec, Kept(p, f, ft, sec, n), p.mode # "idle",
         p.mode \in Probes \cup {"selected"},
         NEW pub \in BOOLEAN,
         NEW p1, NEW f1, NEW ft1, Passed(p, ft, n, pub, {}, p1, ft1),
         NEW sec1, sec1 = sec \cup f.from..(n + 1),
         p1.mode \in {"selected", "idle"}, p1.hold = {}, f1.selected <=> p1.mode = "selected",
         f1.from \in 0..(n + 1), f1.selected => f1.from = f.from
  PROVE  Kept(p1, f1, ft1, sec1, n + 1)
<1> DEFINE H == Parse!Published(p.hold)
<1>1. H = {} \/ p.mode \in Probes
  BY PublishedOf DEF Kept, Sorted
<1>2. \A i \in H : i \in 1..n /\ i >= f.from
  BY PublishedOf DEF Kept, HeldBack
<1>3. n \in Nat /\ ft \in Seq(Fates) /\ Len(ft) = n /\ sec \subseteq 0..n /\ f.from \in 0..n
  BY DEF Kept, Written, Sorted
<1>4. /\ \A i \in p.deferred : i \in 1..n /\ ft[i] = "waiting" /\ i \notin sec
      /\ p.mode \in Probes => \A i \in p.deferred : i < f.from
  BY DEF Kept, PutOff
<1>5. /\ \A i \in sec : i \in 1..n => ft[i] # "emitted"
      /\ \A i \in 1..n : ft[i] = "waiting" => i \in sec \/ i \in p.deferred \/ i \in H
      /\ \A i, j \in 1..n : i < j /\ ft[j] = "emitted" /\ ft[i] = "waiting" => i \in sec
  BY DEF Kept, Ordered
<1>6. /\ ft1 \in Seq(Fates) /\ Len(ft1) = n + 1
      /\ \A i \in 1..(n + 1) : ft1[i] = IF pub /\ i \in p.deferred THEN "emitted"
                                        ELSE IF i <= n THEN ft[i]
                                        ELSE IF pub THEN "waiting" ELSE "private"
      /\ p1.deferred = IF pub THEN {} ELSE p.deferred
  <2>1. Parse!Published({}) = {} /\ p.deferred \cup {} = p.deferred
    BY PublishedOf
  <2>2. p.deferred \cup Parse!Published({}) = p.deferred
    BY <2>1
  <2>3. \A i : Fate(p, ft, n, pub, {}, i) = IF pub /\ i \in p.deferred THEN "emitted"
                                           ELSE IF i <= n THEN ft[i]
                                           ELSE IF pub THEN "waiting" ELSE "private"
    BY <2>1 DEF Fate
  <2> QED BY <2>2, <2>3 DEF Passed
<1>7. p.mode \in Probes => \A i \in 1..n : i >= f.from => ft[i] # "emitted"
  BY DEF Kept, HeldBack
<1>8. p.mode \notin Probes => f.from..n \subseteq sec
  BY DEF Kept, Sorted
<1>9. p.deferred \cap (f.from..(n + 1)) = {}
  BY <1>3, <1>4, <1>8
<1>10. \A i \in 1..n : i \in f.from..(n + 1) => ft[i] # "emitted"
  BY <1>3, <1>5, <1>7, <1>8
<1>11. p1.mode \notin Probes /\ Parse!Published(p1.hold) = {}
  BY PublishedOf DEF Probes
<1> HIDE DEF H
<1>12. Written(ft1, sec1, n + 1)
  <2>1. ASSUME NEW i \in sec1 PROVE i \in 0..(n + 1)
    <3>1. CASE i \in sec
      BY <1>3, <3>1
    <3>2. CASE i \in f.from..(n + 1)
      BY <1>3, <3>2
    <3> QED BY <2>1, <3>1, <3>2
  <2>2. sec1 \subseteq 0..(n + 1)
    BY <2>1, Zenon
  <2>3. n + 1 \in Nat
    BY <1>3
  <2> QED BY <2>2, <2>3, <1>6, Zenon DEF Written
<1>13. Sorted(p1, f1, sec1, n + 1)
  BY <1>3 DEF Sorted
<1>14. HeldBack(p1, f1, ft1, sec1, n + 1)
  BY <1>11 DEF HeldBack
<1>15. PutOff(p1, f1, ft1, sec1, n + 1)
  <2>1. ASSUME NEW i \in p1.deferred
        PROVE  i \in 1..(n + 1) /\ ft1[i] = "waiting" /\ i \notin sec1
    BY <1>3, <1>4, <1>6, <1>9
  <2> QED BY <2>1, <1>11 DEF PutOff
<1>16. Ordered(p1, ft1, sec1, n + 1)
  <2>1. ASSUME NEW i \in sec1, i \in 1..(n + 1) PROVE ft1[i] # "emitted"
    <3>1. CASE i \in f.from..(n + 1)
      BY <3>1, <2>1, <1>3, <1>6, <1>9, <1>10
    <3>2. CASE i \in sec
      BY <3>2, <2>1, <1>3, <1>4, <1>5, <1>6
    <3> QED BY <3>1, <3>2
  <2>2. ASSUME NEW i \in 1..(n + 1), ft1[i] = "waiting" PROVE i \in sec1 \/ i \in p1.deferred
    BY <2>2, <1>2, <1>3, <1>4, <1>5, <1>6
  <2>3. ASSUME NEW i \in 1..(n + 1), NEW j \in 1..(n + 1), i < j, ft1[j] = "emitted", ft1[i] = "waiting"
        PROVE  i \in sec1
    <3>1. CASE pub
      BY <2>2, <2>3, <3>1, <1>6
    <3>2. CASE ~pub
      BY <2>3, <3>2, <1>3, <1>5, <1>6
    <3> QED BY <3>1, <3>2
  <2> QED BY <2>1, <2>2, <2>3, <1>11 DEF Ordered
<1> QED BY <1>12, <1>13, <1>14, <1>15, <1>16 DEF Kept

LEMMA FramesOf ==
  ASSUME NEW a, NEW b, NEW n \in Nat, Parse!Understood(a, b, n + 1),
         DOMAIN frame = {"from", "selected"}, frame.from \in 0..n
  PROVE  /\ DOMAIN frame' = {"from", "selected"} /\ frame'.from \in 0..(n + 1)
         /\ a = Parse!Plain("esc") => frame'.from = n + 1 /\ ~frame'.selected
         /\ a = Parse!Ground => ~frame'.selected
         /\ a # Parse!Plain("esc") /\ a # Parse!Ground =>
               /\ frame'.from = frame.from
               /\ frame'.selected <=> frame.selected \/ Parse!Selects(a, b, n + 1)
         /\ Parse!Selects(a, b, n + 1) => secret' = secret \cup frame.from..(n + 1)
         /\ ~Parse!Selects(a, b, n + 1) /\ frame.selected => secret' = secret \cup {n + 1}
         /\ ~Parse!Selects(a, b, n + 1) /\ ~frame.selected => secret' = secret
<1> DEFINE s == Parse!Selects(a, b, n + 1)
<1>1. /\ secret' = secret \cup (IF s THEN frame.from..(n + 1) ELSE IF frame.selected THEN {n + 1} ELSE {})
      /\ frame' = IF a = Parse!Plain("esc") THEN [from |-> n + 1, selected |-> FALSE]
                  ELSE IF a = Parse!Ground THEN Parse!NoFrame ELSE [frame EXCEPT !.selected = frame.selected \/ s]
  BY Zenon DEF Parse!Understood
<1> HIDE DEF s
<1>2. Parse!Ground # Parse!Plain("esc")
  BY DEF Parse!Ground, Parse!Plain, Parse!In
<1>3. CASE a = Parse!Plain("esc")
  <2>1. frame' = [from |-> n + 1, selected |-> FALSE]
    BY <1>1, <1>3
  <2>2. DOMAIN frame' = {"from", "selected"} /\ frame'.from = n + 1 /\ ~frame'.selected
    BY <2>1
  <2> QED BY <2>2, <1>1, <1>2, <1>3 DEF s
<1>4. CASE a = Parse!Ground
  <2>1. frame' = [from |-> 0, selected |-> FALSE]
    BY <1>1, <1>2, <1>4 DEF Parse!NoFrame
  <2>2. DOMAIN frame' = {"from", "selected"} /\ frame'.from = 0 /\ ~frame'.selected
    BY <2>1
  <2> QED BY <2>2, <1>1, <1>2, <1>4 DEF s
<1>5. CASE a # Parse!Plain("esc") /\ a # Parse!Ground
  <2>1. frame' = [frame EXCEPT !.selected = frame.selected \/ s]
    BY <1>1, <1>5
  <2>2. DOMAIN frame' = {"from", "selected"} /\ frame'.from = frame.from
        /\ frame'.selected = (frame.selected \/ s)
    BY <2>1, Zenon
  <2>3. frame'.selected <=> (frame.selected \/ s)
    BY <2>2
  <2> QED BY <2>2, <2>3, <1>1, <1>5 DEF s
<1> QED BY <1>3, <1>4, <1>5

LEMMA NumbersOf ==
  ASSUME PubInv
  PROVE  /\ Len(fate) \in Nat /\ frame.from \in 0..Len(fate) /\ DOMAIN frame = {"from", "selected"}
         /\ public.mode \in Probes \/ public.hold = {}
         /\ public.mode = "selected" <=> frame.selected
         /\ frame.selected => frame.from..Len(fate) \subseteq secret
  BY DEF PubInv, Began, Kept, Written, Sorted

(* Outside of a selected frame a step that selects nothing changes no secret. *)
LEMMA Unselected ==
  ASSUME NEW b, NEW d, NEW n, Reads(b, d, n), public.mode # "selected",
         ~Parse!Selects(d.state, b, n + 1)
  PROVE  /\ secret' = secret /\ ~frame'.selected
         /\ frame'.from \in 0..(n + 1) /\ DOMAIN frame' = {"from", "selected"}
         /\ Began(d, frame', n + 1)
         /\ d.state = Parse!Plain("esc") => frame'.from = n + 1
         /\ d.state # Parse!Plain("esc") /\ d.state # Parse!Ground => frame'.from = frame.from
<1>1. n \in Nat /\ frame.from \in 0..n /\ DOMAIN frame = {"from", "selected"} /\ ~frame.selected
  BY NumbersOf DEF Reads
<1>2. Parse!Understood(d.state, b, n + 1)
  BY DEF Reads
<1>3. /\ DOMAIN frame' = {"from", "selected"} /\ frame'.from \in 0..(n + 1)
      /\ d.state = Parse!Plain("esc") => frame'.from = n + 1 /\ ~frame'.selected
      /\ d.state = Parse!Ground => ~frame'.selected
      /\ d.state # Parse!Plain("esc") /\ d.state # Parse!Ground =>
            /\ frame'.from = frame.from
            /\ frame'.selected <=> frame.selected \/ Parse!Selects(d.state, b, n + 1)
      /\ ~Parse!Selects(d.state, b, n + 1) /\ ~frame.selected => secret' = secret
  BY <1>1, <1>2, FramesOf
<1> QED BY <1>1, <1>3 DEF Began

LEMMA FromIdle ==
  ASSUME NEW b, NEW d, NEW n, Reads(b, d, n), NEW e, public.mode = "idle"
  PROVE  Lands(Parse!Project(d, b, e), e, d, n)
<1> DEFINE before == core.state
           after == d.state
           starts == before = Parse!Ground /\ after = Parse!Plain("esc") /\ redacted # {}
<1>1. /\ before = Parse!Plain("esc") => redacted = {}
      /\ Parse!InFrame(before, "APC") /\ "APC" \in redacted => n > frame.from + 1
      /\ before \in {Parse!In("DCS", "preamble"), Parse!In("DCS", "preambleEsc")} => "DCS" \notin redacted
      /\ before \in Plains /\ "OSC1337" \in redacted => Len(core.osc) >= 2
  BY Zenon DEF Reads, PubInv, Probing
<1>2. ByteMoves(core, b, d) /\ before \in ParserStates /\ public.hold = {} /\ n \in Nat /\ frame.from \in 0..n
  BY NumbersOf DEF Reads, PubInv, Whole, Probes
<1>3. ~Parse!Selects(after, b, n + 1)
  <2>1. ~("APC" \in redacted /\ b = "G" /\ n + 1 = frame.from + 2 /\ Parse!InFrame(before, "APC"))
    BY <1>1, <1>2
  <2>2. ~("DCS" \in redacted /\ before = Parse!In("DCS", "preamble") /\ after = Parse!In("DCS", "payload"))
    BY <1>1
  <2>3. ~("OSC1337" \in redacted /\ before = Parse!Plain("OSC") /\ after.kind = "OSC1337")
    <3>1. ASSUME before = Parse!Plain("OSC"), "OSC1337" \in redacted PROVE after.kind # "OSC1337"
      <4>1. Len(core.osc) >= 2 /\ OSCTo(core, d)
        BY <3>1, <1>1, <1>2 DEF ByteMoves, Plains
      <4>2. core.osc \in Seq(Parse!Bytes)
        BY DEF Reads, PubInv, Whole
      <4>3. after \in {Parse!Ground} \cup Plains
        BY <4>1, <4>2 DEF OSCTo
      <4> QED BY <4>3 DEF Parse!Ground, Plains, Parse!Plain, Parse!In
    <3> QED BY <3>1
  <2> QED BY <2>1, <2>2, <2>3 DEF Parse!Selects
<1>4. /\ secret' = secret /\ ~frame'.selected
      /\ frame'.from \in 0..(n + 1) /\ Began(d, frame', n + 1)
      /\ after = Parse!Plain("esc") => frame'.from = n + 1
      /\ after # Parse!Plain("esc") /\ after # Parse!Ground => frame'.from = frame.from
  BY <1>3, Unselected
<1>5. Parse!Project(d, b, e) = IF starts THEN Parse!Hold("esc", e) ELSE Parse!Step("idle", {}, {e})
  BY DEF Parse!Project
<1>6. CASE starts
  <2>1. Parse!Project(d, b, e) = Parse!Hold("esc", e) /\ Parse!Hold("esc", e).mode = "esc"
    BY <1>5, <1>6 DEF Parse!Hold, Parse!Step
  <2>2. HoldsByte(Parse!Hold("esc", e), e, n)
    BY <1>2, <1>4, <1>6 DEF HoldsByte, Probes
  <2>3. Probing("esc", d, frame', n + 1)
    BY <1>6 DEF Probing
  <2> QED BY <2>1, <2>2, <2>3, <1>4 DEF Lands, Outcome
<1>7. CASE ~starts
  <2>1. Parse!Project(d, b, e) = Parse!Release(e) /\ Parse!Release(e).mode = "idle"
    <3>1. Parse!Held(e) = {e}
      BY <1>2 DEF Parse!Held
    <3> QED BY <3>1, <1>5, <1>7 DEF Parse!Release, Parse!Step
  <2>2. Releases(Parse!Release(e), e)
    BY <1>4 DEF Releases
  <2> DEFINE calm ==
        /\ after = Parse!Plain("esc") => redacted = {}
        /\ Parse!InFrame(after, "APC") /\ "APC" \in redacted => n + 1 > frame'.from + 1
        /\ after \in {Parse!In("DCS", "preamble"), Parse!In("DCS", "preambleEsc")} => "DCS" \notin redacted
        /\ after \in Plains /\ "OSC1337" \in redacted => Len(d.osc) >= 2
  <2>3. calm
    <3>1. CASE before = Parse!Ground
      <4>1. after \in {Parse!Ground, Parse!Plain("esc")}
        BY <3>1, <1>2 DEF ByteMoves
      <4> QED BY <4>1, <3>1, <1>7 DEF Parse!InFrame, Plains, Parse!Plain, Parse!In, Parse!Ground
    <3>2. CASE before = Parse!Plain("esc")
      <4>1. redacted = {}
        BY <3>2, <1>1
      <4> QED BY <4>1
    <3>3. CASE before \in {Parse!Plain("CSI"), Parse!Plain("charset")}
      <4>1. after \in {before, Parse!Ground}
        BY <3>3, <1>2 DEF ByteMoves
      <4> QED BY <4>1, <3>3 DEF Parse!InFrame, Plains, Parse!Plain, Parse!In, Parse!Ground
    <3>4. CASE before = Parse!Plain("OSC")
      <4>1. OSCTo(core, d)
        BY <3>4, <1>2 DEF ByteMoves
      <4>2. CASE "OSC1337" \in redacted
        <5>1. Len(core.osc) >= 2 /\ core.osc \in Seq(Parse!Bytes)
          BY <4>2, <3>4, <1>1 DEF Plains, Reads, PubInv, Whole
        <5>2. after \in {Parse!Ground} \cup Plains /\ Longer(core, d)
          BY <4>1, <5>1 DEF OSCTo
        <5>3. after \in Plains => Len(d.osc) >= 2
          BY <5>1, <5>2 DEF Longer
        <5> QED BY <5>2, <5>3 DEF Parse!InFrame, Plains, Parse!Plain, Parse!In, Parse!Ground
      <4>3. CASE "OSC1337" \notin redacted
        BY <4>1, <4>3 DEF OSCTo, Parse!InFrame, Plains, Parse!Plain, Parse!In, Parse!Ground
      <4> QED BY <4>2, <4>3
    <3>5. CASE before = Parse!Plain("OSCEsc")
      <4>1. after = Parse!Ground \/ (after = Parse!Plain("OSC") /\ Len(d.osc) >= 2)
        BY <3>5, <1>2 DEF ByteMoves
      <4> QED BY <4>1 DEF Parse!InFrame, Plains, Parse!Plain, Parse!In, Parse!Ground
    <3>6. ASSUME NEW k \in Parse!Kinds, NEW p \in Frames, before = Parse!In(k, p) PROVE calm
      <4>1. after = Parse!Ground \/ \E q \in Frames : after = Parse!In(k, q)
        BY <3>6, <1>2 DEF ByteMoves, FrameTo
      <4>2. Parse!InFrame(after, "APC") => Parse!InFrame(before, "APC") /\ after # Parse!Plain("esc") /\ after # Parse!Ground
        BY <4>1, <3>6 DEF Parse!InFrame, Parse!Plain, Parse!In, Parse!Ground, Frames
      <4>3. Parse!InFrame(after, "APC") /\ "APC" \in redacted => n + 1 > frame'.from + 1
        BY <4>2, <1>1, <1>2, <1>4
      <4> QED BY <4>1, <4>3 DEF Plains, Parse!Plain, Parse!In, Parse!Ground, Frames
    <3>7. CASE before \in {Parse!In("DCS", "preamble"), Parse!In("DCS", "preambleEsc")}
      <4>1. PreambleTo(core, b, d)
        BY <3>7, <1>2 DEF ByteMoves
      <4>2. after = Parse!Ground \/ \E q \in Frames \cup {"preamble", "preambleEsc"} : after = Parse!In("DCS", q)
        BY <4>1 DEF PreambleTo, Frames
      <4>3. "DCS" \notin redacted
        BY <3>7, <1>1
      <4> QED BY <4>2, <4>3 DEF Parse!InFrame, Plains, Parse!Plain, Parse!In, Parse!Ground, Frames
    <3> QED BY <3>1, <3>2, <3>3, <3>4, <3>5, <3>6, <3>7, <1>2 DEF ParserStates, Parse!Ground
  <2>4. Probing("idle", d, frame', n + 1)
    BY <2>3 DEF Probing
  <2> QED BY <2>1, <2>2, <2>4, <1>4 DEF Lands, Outcome
<1> QED BY <1>6, <1>7

LEMMA LandsReleased ==
  ASSUME NEW b, NEW d, NEW n, Reads(b, d, n), NEW e, public.mode # "selected",
         ~Parse!Selects(d.state, b, n + 1), Calm(d, frame', n + 1)
  PROVE  Lands(Parse!Release(e), e, d, n)
<1>1. secret' = secret /\ ~frame'.selected /\ frame'.from \in 0..(n + 1) /\ Began(d, frame', n + 1)
  BY Unselected
<1>2. Parse!Release(e).mode = "idle"
  BY DEF Parse!Release, Parse!Step
<1>3. Probing("idle", d, frame', n + 1)
  BY DEF Probing, Calm
<1> QED BY <1>1, <1>2, <1>3 DEF Lands, Outcome, Releases

LEMMA LandsHeld ==
  ASSUME NEW b, NEW d, NEW n, Reads(b, d, n), NEW e, public.mode \in Probes,
         ~Parse!Selects(d.state, b, n + 1), d.state # Parse!Plain("esc"), d.state # Parse!Ground,
         NEW m \in Probes, Probing(m, d, frame', n + 1)
  PROVE  Lands(Parse!Hold(m, e), e, d, n)
<1>1. /\ secret' = secret /\ ~frame'.selected /\ frame'.from \in 0..(n + 1)
      /\ Began(d, frame', n + 1) /\ frame'.from = frame.from
  BY Unselected DEF Probes
<1>2. Parse!Hold(m, e).mode = m
  BY DEF Parse!Hold, Parse!Step
<1>3. HoldsByte(Parse!Hold(m, e), e, n)
  BY <1>1 DEF HoldsByte
<1> QED BY <1>1, <1>2, <1>3 DEF Lands, Outcome

LEMMA LandsTaken ==
  ASSUME NEW b, NEW d, NEW n, Reads(b, d, n), NEW e, public.mode \in Probes,
         Parse!Selects(d.state, b, n + 1), \E k \in Parse!Kinds, p \in Frames : d.state = Parse!In(k, p)
  PROVE  Lands(Parse!Take("selected"), e, d, n)
<1>1. n \in Nat /\ frame.from \in 0..n /\ DOMAIN frame = {"from", "selected"}
  BY NumbersOf DEF Reads
<1>2. Parse!Understood(d.state, b, n + 1)
  BY DEF Reads
<1>3. d.state # Parse!Plain("esc") /\ d.state # Parse!Ground
  BY DEF Parse!Plain, Parse!In, Parse!Ground, Frames
<1>4. /\ DOMAIN frame' = {"from", "selected"} /\ frame'.from \in 0..(n + 1)
      /\ frame'.from = frame.from /\ frame'.selected
      /\ secret' = secret \cup frame.from..(n + 1)
  BY <1>1, <1>2, <1>3, FramesOf
<1>5. Parse!Take("selected").mode = "selected"
  BY DEF Parse!Take, Parse!Step
<1>6. Takes(Parse!Take("selected"), n)
  BY <1>4 DEF Takes
<1>7. Probing("selected", d, frame', n + 1) /\ Began(d, frame', n + 1)
  BY <1>3, <1>4 DEF Probing, Began
<1> QED BY <1>4, <1>5, <1>6, <1>7 DEF Lands, Outcome

LEMMA FromSelected ==
  ASSUME NEW b, NEW d, NEW n, Reads(b, d, n), NEW e, public.mode = "selected"
  PROVE  Lands(Parse!Project(d, b, e), e, d, n)
<1>1. n \in Nat /\ frame.from \in 0..n /\ DOMAIN frame = {"from", "selected"}
      /\ frame.selected /\ frame.from..n \subseteq secret
  BY NumbersOf DEF Reads
<1>2. Parse!Understood(d.state, b, n + 1) /\ ByteMoves(core, b, d)
  BY DEF Reads
<1>3. PICK k \in Parse!Kinds, p \in Frames : core.state = Parse!In(k, p)
  BY Zenon DEF Reads, PubInv, Probing
<1>4. d.state = Parse!Ground \/ \E q \in Frames : d.state = Parse!In(k, q)
  BY <1>2, <1>3 DEF ByteMoves, FrameTo
<1>5. secret' = secret \cup frame.from..(n + 1)
  <2>1. secret' = secret \cup frame.from..(n + 1) \/ secret' = secret \cup {n + 1}
    BY <1>1, <1>2, FramesOf
  <2>2. frame.from..(n + 1) = (frame.from..n) \cup {n + 1}
    BY <1>1
  <2>3. secret \cup frame.from..(n + 1) = secret \cup {n + 1}
    BY <2>2, <1>1
  <2> QED BY <2>1, <2>3
<1>6. DOMAIN frame' = {"from", "selected"} /\ frame'.from \in 0..(n + 1)
  BY <1>1, <1>2, FramesOf
<1>7. Parse!Project(d, b, e) = Parse!Take(IF \E m \in Parse!Kinds : Parse!InFrame(d.state, m) THEN "selected" ELSE "idle")
  BY DEF Parse!Project
<1>8. CASE d.state = Parse!Ground
  <2>1. ~frame'.selected
    BY <1>1, <1>2, <1>8, FramesOf
  <2>2. Parse!Project(d, b, e) = Parse!Take("idle")
    BY <1>7, <1>8 DEF Parse!InFrame, Parse!Ground, Parse!Plain, Parse!In
  <2>3. Parse!Take("idle").mode = "idle"
    BY DEF Parse!Take, Parse!Step
  <2>4. Takes(Parse!Take("idle"), n)
    BY <1>5, <2>1 DEF Takes
  <2>5. Probing("idle", d, frame', n + 1) /\ Began(d, frame', n + 1)
    BY <1>6, <1>8 DEF Probing, Began, Parse!InFrame, Parse!Ground, Parse!Plain, Parse!In, Plains
  <2> QED BY <2>2, <2>3, <2>4, <2>5, <1>6 DEF Lands, Outcome
<1>9. ASSUME NEW q \in Frames, d.state = Parse!In(k, q) PROVE Lands(Parse!Project(d, b, e), e, d, n)
  <2>1. d.state # Parse!Plain("esc") /\ d.state # Parse!Ground
    BY <1>9 DEF Parse!Plain, Parse!In, Parse!Ground, Frames
  <2>2. frame'.selected /\ frame'.from = frame.from
    BY <1>1, <1>2, <2>1, FramesOf
  <2>3. Parse!InFrame(d.state, k)
    BY <1>9 DEF Parse!InFrame, Parse!In, Frames
  <2>4. Parse!Project(d, b, e) = Parse!Take("selected")
    BY <1>7, <2>3
  <2>5. Parse!Take("selected").mode = "selected"
    BY DEF Parse!Take, Parse!Step
  <2>6. Takes(Parse!Take("selected"), n)
    BY <1>5, <2>2 DEF Takes
  <2>7. Probing("selected", d, frame', n + 1) /\ Began(d, frame', n + 1)
    BY <1>6, <1>9, <2>1 DEF Probing, Began
  <2> QED BY <2>4, <2>5, <2>6, <2>7, <1>6 DEF Lands, Outcome
<1> QED BY <1>4, <1>8, <1>9

(* After an ESC the next byte says what kind the sequence may be of. *)
LEMMA FromEsc ==
  ASSUME NEW b, NEW d, NEW n, Reads(b, d, n), NEW e, public.mode = "esc"
  PROVE  Lands(Parse!Project(d, b, e), e, d, n)
<1>1. core.state = Parse!Plain("esc") /\ redacted # {}
  BY Zenon DEF Reads, PubInv, Probing
<1>2. ByteMoves(core, b, d) /\ n \in Nat /\ public.mode \in Probes /\ n = frame.from
  BY <1>1, NumbersOf DEF Reads, PubInv, Began, Probes
<1>3. ~Parse!Selects(d.state, b, n + 1)
  BY <1>1 DEF Parse!Selects, Parse!InFrame, Parse!Plain, Parse!In
<1>4. EscTo(b, d)
  BY <1>1, <1>2 DEF ByteMoves
<1>5. Parse!Project(d, b, e) = Parse!ProjectESC(d.state, b, e)
  BY DEF Parse!Project
<1>6. /\ secret' = secret /\ ~frame'.selected
      /\ frame'.from \in 0..(n + 1) /\ Began(d, frame', n + 1)
      /\ d.state = Parse!Plain("esc") => frame'.from = n + 1
      /\ d.state # Parse!Plain("esc") /\ d.state # Parse!Ground => frame'.from = frame.from
  BY <1>3, Unselected
<1>7. CASE b = "ESC"
  <2>1. d.state = Parse!Plain("esc")
    BY <1>4, <1>7 DEF EscTo
  <2>2. Parse!Project(d, b, e) = Parse!Step("esc", {e}, public.hold)
    BY <1>5, <1>7 DEF Parse!ProjectESC
  <2>3. Restarts(Parse!Step("esc", {e}, public.hold), e, n)
    BY <2>1, <1>6 DEF Restarts
  <2>4. Probing("esc", d, frame', n + 1) /\ Parse!Step("esc", {e}, public.hold).mode = "esc"
    BY <2>1, <1>1 DEF Probing, Parse!Step
  <2> QED BY <2>2, <2>3, <2>4, <1>6 DEF Lands, Outcome
<1>8. CASE b = "_" /\ "APC" \in redacted
  <2>1. d.state = Parse!In("APC", "payload")
    BY <1>4, <1>8 DEF EscTo
  <2>2. Parse!Project(d, b, e) = Parse!Hold("APC", e)
    BY <1>5, <1>8 DEF Parse!ProjectESC
  <2>3. d.state # Parse!Plain("esc") /\ d.state # Parse!Ground
    BY <2>1 DEF Parse!In, Parse!Plain, Parse!Ground
  <2>4. Probing("APC", d, frame', n + 1)
    BY <2>1, <2>3, <1>2, <1>6, <1>8 DEF Probing
  <2> QED BY <2>2, <2>3, <2>4, <1>2, <1>3, LandsHeld DEF Probes
<1>9. CASE b = "P" /\ "DCS" \in redacted
  <2>1. d.state = Parse!In("DCS", "preamble")
    BY <1>4, <1>9 DEF EscTo
  <2>2. Parse!Project(d, b, e) = Parse!Hold("DCS", e)
    BY <1>5, <1>9 DEF Parse!ProjectESC
  <2>3. d.state # Parse!Plain("esc") /\ d.state # Parse!Ground
    BY <2>1 DEF Parse!In, Parse!Plain, Parse!Ground
  <2>4. Probing("DCS", d, frame', n + 1)
    BY <2>1, <1>9 DEF Probing
  <2> QED BY <2>2, <2>3, <2>4, <1>2, <1>3, LandsHeld DEF Probes
<1>10. CASE b = "]" /\ "OSC1337" \in redacted
  <2>1. d.state = Parse!Plain("OSC") /\ d.osc = <<>>
    BY <1>4, <1>10 DEF EscTo
  <2>2. Parse!Project(d, b, e) = Parse!Hold("OSC1337", e)
    BY <1>5, <1>10 DEF Parse!ProjectESC
  <2>3. d.state # Parse!Plain("esc") /\ d.state # Parse!Ground
    BY <2>1 DEF Parse!In, Parse!Plain, Parse!Ground
  <2>4. Probing("OSC1337", d, frame', n + 1)
    BY <2>1, <1>10 DEF Probing, Plains
  <2> QED BY <2>2, <2>3, <2>4, <1>2, <1>3, LandsHeld DEF Probes
<1>11. CASE /\ b # "ESC" /\ ~(b = "_" /\ "APC" \in redacted) /\ ~(b = "P" /\ "DCS" \in redacted)
            /\ ~(b = "]" /\ "OSC1337" \in redacted)
  <2>1. Parse!Project(d, b, e) = Parse!Release(e)
    BY <1>5, <1>11 DEF Parse!ProjectESC
  <2>2. \/ b = "_" /\ "APC" \notin redacted /\ d.state \in {Parse!In("APC", "payload"), Parse!In("APC", "discard")}
        \/ b = "P" /\ "DCS" \notin redacted /\ d.state \in {Parse!In("DCS", "preamble"), Parse!In("DCS", "discard")}
        \/ b = "]" /\ "OSC1337" \notin redacted /\ d.state = Parse!Plain("OSC")
        \/ d.state \in {Parse!Ground, Parse!Plain("CSI"), Parse!Plain("charset")}
    BY <1>4, <1>11 DEF EscTo
  <2>3. /\ d.state # Parse!Plain("esc")
        /\ Parse!InFrame(d.state, "APC") => "APC" \notin redacted
        /\ d.state \in {Parse!In("DCS", "preamble"), Parse!In("DCS", "preambleEsc")} => "DCS" \notin redacted
        /\ d.state \in Plains => "OSC1337" \notin redacted
    <3>1. CASE d.state \in {Parse!Ground, Parse!Plain("CSI"), Parse!Plain("charset")}
      BY <3>1 DEF Parse!InFrame, Plains, Parse!Plain, Parse!In, Parse!Ground
    <3>2. CASE "OSC1337" \notin redacted /\ d.state = Parse!Plain("OSC")
      BY <3>2 DEF Parse!InFrame, Plains, Parse!Plain, Parse!In
    <3>3. CASE "DCS" \notin redacted /\ d.state \in {Parse!In("DCS", "preamble"), Parse!In("DCS", "discard")}
      BY <3>3 DEF Parse!InFrame, Plains, Parse!Plain, Parse!In
    <3>4. CASE "APC" \notin redacted /\ d.state \in {Parse!In("APC", "payload"), Parse!In("APC", "discard")}
      BY <3>4 DEF Parse!InFrame, Plains, Parse!Plain, Parse!In
    <3> QED BY <2>2, <3>1, <3>2, <3>3, <3>4
  <2>4. Calm(d, frame', n + 1)
    BY <2>3 DEF Calm
  <2> QED BY <2>1, <2>4, <1>3, LandsReleased
<1> QED BY <1>7, <1>8, <1>9, <1>10, <1>11

(* A Kitty string is one whose first byte is G; another ESC may come first. *)
LEMMA FromAPC ==
  ASSUME NEW b, NEW d, NEW n, Reads(b, d, n), NEW e, public.mode = "APC"
  PROVE  Lands(Parse!Project(d, b, e), e, d, n)
<1> DEFINE before == core.state
           after == d.state
           open == before \in {Parse!In("APC", "payload"), Parse!In("APC", "discard")}
<1>1. /\ "APC" \in redacted
      /\ \/ open /\ n = frame.from + 1
         \/ before \in {Parse!In("APC", "esc"), Parse!In("APC", "discardEsc")} /\ n = frame.from + 2
  BY Zenon DEF Reads, PubInv, Probing
<1>2. ByteMoves(core, b, d) /\ n \in Nat /\ public.mode \in Probes /\ frame.from \in 0..n
      /\ public.mode # "selected"
  BY NumbersOf DEF Reads, PubInv, Began, Probes
<1>3. PICK p \in Frames : before = Parse!In("APC", p) /\ (open <=> p \in {"payload", "discard"})
  BY <1>1 DEF Frames, Parse!In
<1>4. FrameTo("APC", p, b, d)
  BY <1>2, <1>3 DEF ByteMoves, Parse!Kinds
<1>5. Parse!Project(d, b, e) = Parse!ProjectAPC(before, after, b, e)
  BY DEF Parse!Project
<1>6. before.place = p /\ before.kind = "APC"
  BY <1>3 DEF Parse!In
<1>7. Parse!Selects(after, b, n + 1) <=> b = "G" /\ open
  <2>1. Parse!InFrame(before, "APC")
    BY <1>6 DEF Parse!InFrame, Frames
  <2>2. n + 1 = frame.from + 2 <=> open
    BY <1>1, <1>2 DEF Parse!In
  <2>3. before # Parse!In("DCS", "preamble") /\ before # Parse!Plain("OSC")
    BY <1>3 DEF Parse!In, Parse!Plain
  <2> QED BY <2>1, <2>2, <2>3, <1>1 DEF Parse!Selects
<1>8. CASE b = "G" /\ open
  <2>1. PICK q \in Frames : after = Parse!In("APC", q)
    BY <1>3, <1>4, <1>8 DEF FrameTo
  <2>2. Parse!InFrame(after, "APC")
    BY <2>1 DEF Parse!InFrame, Parse!In, Frames
  <2>3. Parse!Project(d, b, e) = Parse!Take("selected")
    BY <2>2, <1>3, <1>5, <1>6, <1>8 DEF Parse!ProjectAPC
  <2> QED BY <2>1, <2>3, <1>2, <1>7, <1>8, LandsTaken DEF Parse!Kinds
<1>9. CASE b = "ESC" /\ open
  <2>1. after \in {Parse!In("APC", "esc"), Parse!In("APC", "discardEsc")}
    BY <1>3, <1>4, <1>9 DEF FrameTo
  <2>2. after # Parse!Plain("esc") /\ after # Parse!Ground
    BY <2>1 DEF Parse!In, Parse!Plain, Parse!Ground
  <2>3. Parse!Project(d, b, e) = Parse!Hold("APC", e)
    BY <1>3, <1>5, <1>6, <1>9 DEF Parse!ProjectAPC
  <2>4. ~Parse!Selects(after, b, n + 1)
    BY <1>7, <1>9
  <2>5. frame'.from = frame.from
    BY <2>2, <2>4, <1>2, Unselected
  <2>6. n = frame.from + 1
    BY <1>1, <1>9 DEF Parse!In
  <2>7. Probing("APC", d, frame', n + 1)
    BY <2>1, <2>5, <2>6, <1>1, <1>2 DEF Probing
  <2> QED BY <2>2, <2>3, <2>4, <2>7, <1>2, LandsHeld DEF Probes
<1>10. CASE ~((b = "G" \/ b = "ESC") /\ open)
  <2>1. Parse!Project(d, b, e) = Parse!Release(e)
    BY <1>3, <1>5, <1>6, <1>10 DEF Parse!ProjectAPC
  <2>2. ~Parse!Selects(after, b, n + 1)
    BY <1>7, <1>10
  <2>3. after # Parse!Plain("esc") /\ after # Parse!Ground => frame'.from = frame.from
    BY <2>2, <1>2, Unselected
  <2>4. after = Parse!Ground \/ \E q \in Frames : after = Parse!In("APC", q)
    BY <1>4 DEF FrameTo
  <2>5. Parse!InFrame(after, "APC") => after # Parse!Plain("esc") /\ after # Parse!Ground
    BY DEF Parse!InFrame, Parse!Plain, Parse!In, Parse!Ground
  <2>6. Parse!InFrame(after, "APC") => n + 1 > frame'.from + 1
    BY <2>3, <2>5, <1>1, <1>2
  <2>7. Calm(d, frame', n + 1)
    BY <2>4, <2>6 DEF Calm, Plains, Parse!Plain, Parse!In, Parse!Ground, Frames
  <2> QED BY <2>1, <2>2, <2>7, <1>2, LandsReleased
<1> QED BY <1>8, <1>9, <1>10

(* A Sixel string is one whose preamble is accepted. *)
LEMMA FromDCS ==
  ASSUME NEW b, NEW d, NEW n, Reads(b, d, n), NEW e, public.mode = "DCS"
  PROVE  Lands(Parse!Project(d, b, e), e, d, n)
<1> DEFINE before == core.state
           after == d.state
<1>1. "DCS" \in redacted /\ before \in {Parse!In("DCS", "preamble"), Parse!In("DCS", "preambleEsc")}
  BY Zenon DEF Reads, PubInv, Probing
<1>2. ByteMoves(core, b, d) /\ n \in Nat /\ public.mode \in Probes /\ public.mode # "selected"
  BY NumbersOf DEF Reads, PubInv, Began, Probes
<1>3. PreambleTo(core, b, d)
  BY <1>1, <1>2 DEF ByteMoves
<1>4. Parse!Project(d, b, e) = Parse!ProjectDCS(before, after, e)
  BY DEF Parse!Project
<1>5. before # Parse!Plain("OSC") /\ ~Parse!InFrame(before, "APC") /\ Parse!In("DCS", "preamble") # Parse!In("DCS", "preambleEsc")
  BY <1>1 DEF Parse!In, Parse!Plain, Parse!InFrame
<1>6. Parse!Selects(after, b, n + 1) <=> before = Parse!In("DCS", "preamble") /\ after = Parse!In("DCS", "payload")
  BY <1>1, <1>5 DEF Parse!Selects
<1>7. /\ before.place = "preamble" <=> before = Parse!In("DCS", "preamble")
      /\ after.place = "payload" <=> after = Parse!In("DCS", "payload")
      /\ after.place \in {"preamble", "preambleEsc"} <=>
            after \in {Parse!In("DCS", "preamble"), Parse!In("DCS", "preambleEsc")}
  BY <1>1, <1>3 DEF PreambleTo, Parse!In, Parse!Ground, Parse!Plain
<1>8. CASE before = Parse!In("DCS", "preamble") /\ after = Parse!In("DCS", "payload")
  <2>1. Parse!Project(d, b, e) = Parse!Take("selected")
    BY <1>4, <1>7, <1>8 DEF Parse!ProjectDCS, Parse!In
  <2> QED BY <2>1, <1>2, <1>6, <1>8, LandsTaken DEF Parse!Kinds, Frames
<1>9. CASE after \in {Parse!In("DCS", "preamble"), Parse!In("DCS", "preambleEsc")}
  <2>1. after.place # "payload"
    BY <1>9 DEF Parse!In
  <2>2. Parse!Project(d, b, e) = Parse!Hold("DCS", e)
    BY <2>1, <1>4, <1>7, <1>9 DEF Parse!ProjectDCS
  <2>3. after # Parse!Plain("esc") /\ after # Parse!Ground
    BY <1>9 DEF Parse!In, Parse!Plain, Parse!Ground
  <2>4. ~Parse!Selects(after, b, n + 1)
    BY <2>1, <1>6 DEF Parse!In
  <2>5. Probing("DCS", d, frame', n + 1)
    BY <1>1, <1>9 DEF Probing
  <2> QED BY <2>2, <2>3, <2>4, <2>5, <1>2, LandsHeld DEF Probes
<1>10. CASE after \in {Parse!Ground, Parse!In("DCS", "discard"), Parse!In("DCS", "discardEsc")}
  <2>1. after.place \notin {"payload", "preamble", "preambleEsc"}
    BY <1>10 DEF Parse!In, Parse!Ground, Parse!Plain
  <2>2. Parse!Project(d, b, e) = Parse!Release(e)
    BY <2>1, <1>4 DEF Parse!ProjectDCS
  <2>3. ~Parse!Selects(after, b, n + 1)
    BY <2>1, <1>6 DEF Parse!In
  <2>4. Calm(d, frame', n + 1)
    BY <1>10 DEF Calm, Parse!InFrame, Plains, Parse!Plain, Parse!In, Parse!Ground
  <2> QED BY <2>2, <2>3, <2>4, <1>2, LandsReleased
<1> QED BY <1>3, <1>8, <1>9, <1>10 DEF PreambleTo

(* An iTerm2 string is one that begins with the selector. *)
LEMMA FromOSC ==
  ASSUME NEW b, NEW d, NEW n, Reads(b, d, n), NEW e, public.mode = "OSC1337"
  PROVE  Lands(Parse!Project(d, b, e), e, d, n)
<1> DEFINE before == core.state
           after == d.state
<1>1. "OSC1337" \in redacted /\ before \in Plains /\ Len(core.osc) < 2
  BY Zenon DEF Reads, PubInv, Probing
<1>2. ByteMoves(core, b, d) /\ n \in Nat /\ public.mode \in Probes /\ public.mode # "selected"
  BY NumbersOf DEF Reads, PubInv, Began, Probes
<1>3. /\ d.osc \in Seq(Parse!Bytes) /\ Len(Parse!Selector) = 2
      /\ after \in Plains /\ d.truncated => Len(d.osc) >= 2
  BY <1>2 DEF ByteMoves, Whole, Collected, Parse!Selector
<1>4. Parse!Project(d, b, e) = Parse!ProjectOSC(d, e)
  BY DEF Parse!Project
<1>5. \/ after = Parse!Ground
      \/ after \in Plains
      \/ before = Parse!Plain("OSC") /\ after = Parse!In("OSC1337", "payload")
  BY <1>1, <1>2 DEF ByteMoves, OSCTo, Plains
<1>6. Parse!Selects(after, b, n + 1) <=> after = Parse!In("OSC1337", "payload")
  <2>1. before \in {Parse!Plain("OSC"), Parse!Plain("OSCEsc")} /\ ~Parse!InFrame(before, "APC") /\ before # Parse!In("DCS", "preamble")
    BY <1>1 DEF Plains, Parse!Plain, Parse!In, Parse!InFrame
  <2>2. after.kind = "OSC1337" <=> after = Parse!In("OSC1337", "payload")
    BY <1>5 DEF Plains, Parse!Plain, Parse!In, Parse!Ground
  <2>3. after = Parse!In("OSC1337", "payload") => before = Parse!Plain("OSC")
    BY <1>5 DEF Plains, Parse!Plain, Parse!In, Parse!Ground
  <2> QED BY <2>1, <2>2, <2>3, <1>1 DEF Parse!Selects
<1>7. CASE after = Parse!In("OSC1337", "payload")
  <2>1. Parse!Project(d, b, e) = Parse!Take("selected")
    BY <1>4, <1>7 DEF Parse!ProjectOSC, Parse!In, Parse!Plain
  <2> QED BY <2>1, <1>2, <1>6, <1>7, LandsTaken DEF Parse!Kinds, Frames
<1>8. CASE after \in Plains /\ Len(d.osc) < 2
  <2>1. ~d.truncated /\ after # Parse!In("OSC1337", "payload")
    BY <1>3, <1>8 DEF Plains, Parse!Plain, Parse!In
  <2>2. Parse!Project(d, b, e) = Parse!Hold("OSC1337", e)
    BY <2>1, <1>3, <1>4, <1>8 DEF Parse!ProjectOSC, Plains
  <2>3. after # Parse!Plain("esc") /\ after # Parse!Ground
    BY <1>8 DEF Parse!In, Parse!Plain, Parse!Ground, Plains
  <2>4. Probing("OSC1337", d, frame', n + 1)
    BY <1>1, <1>8 DEF Probing
  <2> QED BY <2>1, <2>2, <2>3, <2>4, <1>2, <1>6, LandsHeld DEF Probes
<1>9. CASE after = Parse!Ground \/ (after \in Plains /\ Len(d.osc) >= 2)
  <2>1. after # Parse!In("OSC1337", "payload") /\ ~(after \in Plains /\ Len(d.osc) < 2)
    BY <1>3, <1>9 DEF Plains, Parse!Plain, Parse!In, Parse!Ground
  <2>2. Parse!Project(d, b, e) = Parse!Release(e)
    BY <2>1, <1>3, <1>4 DEF Parse!ProjectOSC, Plains
  <2>3. Calm(d, frame', n + 1)
    BY <1>9 DEF Calm, Parse!InFrame, Plains, Parse!Plain, Parse!In, Parse!Ground
  <2> QED BY <2>1, <2>2, <2>3, <1>2, <1>6, LandsReleased
<1>10. Len(d.osc) < 2 \/ Len(d.osc) >= 2
  BY <1>3
<1> QED BY <1>5, <1>7, <1>8, <1>9, <1>10

LEMMA ProjectLands ==
  ASSUME NEW b, NEW d, NEW n, Reads(b, d, n), NEW e
  PROVE  Lands(Parse!Project(d, b, e), e, d, n)
<1>1. public.mode \in {"idle", "selected", "esc", "APC", "DCS", "OSC1337"}
  BY Zenon DEF Reads, PubInv, Probing
<1> QED BY <1>1, FromIdle, FromSelected, FromEsc, FromAPC, FromDCS, FromOSC

LEMMA StepKeeps ==
  ASSUME NEW b, NEW d, NEW n, Reads(b, d, n), NEW e, NEW pub \in BOOLEAN,
         e.at = n + 1, e.public = pub, NEW step, Lands(step, e, d, n),
         public'.mode = step.mode, public'.hold = step.hold,
         Passed(public, fate, n, pub, step.out, public', fate')
  PROVE  Kept(public', frame', fate', secret', n + 1)
<1>1. Kept(public, frame, fate, secret, n) /\ frame'.from \in 0..(n + 1)
  BY DEF Reads, PubInv, Lands
<1>2. Outcome(step, e, n)
  BY DEF Lands
<1>3. CASE Releases(step, e)
  <2>1. /\ step.mode = "idle" /\ step.hold = {} /\ step.out = public.hold \cup {e}
        /\ secret' = secret /\ ~frame'.selected
    BY <1>3 DEF Releases, Parse!Release, Parse!Step, Parse!Held
  <2> QED BY <2>1, <1>1, KeptByRelease
<1>4. CASE HoldsByte(step, e, n)
  <2>1. /\ step.mode \in Probes /\ step.hold = public.hold \cup {e} /\ step.out = {}
    BY <1>4 DEF HoldsByte, Parse!Hold, Parse!Step, Parse!Held
  <2>2. /\ secret' = secret /\ ~frame'.selected
        /\ \/ frame'.from = frame.from /\ public.mode \in Probes
           \/ frame'.from = n + 1 /\ public.hold = {}
    BY <1>4 DEF HoldsByte
  <2> QED BY <2>1, <2>2, <1>1, KeptByHold
<1>5. CASE Restarts(step, e, n)
  <2>1. /\ step.mode \in Probes /\ step.hold = {e} /\ step.out = public.hold
        /\ secret' = secret /\ ~frame'.selected /\ frame'.from = n + 1
    BY <1>5 DEF Restarts, Parse!Step, Probes
  <2> QED BY <2>1, <1>1, KeptByRestart
<1>6. CASE Takes(step, n)
  <2>1. PICK m \in {"selected", "idle"} : step = Parse!Take(m) /\ (frame'.selected <=> m = "selected")
    BY <1>6 DEF Takes
  <2>2. step.mode = m /\ step.hold = {} /\ step.out = {}
    BY <2>1 DEF Parse!Take, Parse!Step
  <2>3. /\ public.mode \in Probes \cup {"selected"} /\ public.mode # "idle"
        /\ frame'.selected => frame'.from = frame.from
        /\ secret' = secret \cup frame.from..(n + 1)
    BY <1>6 DEF Takes, Probes
  <2> QED BY <2>1, <2>2, <2>3, <1>1, KeptByTake
<1> QED BY <1>2, <1>3, <1>4, <1>5, <1>6 DEF Outcome

LEMMA MappedFates ==
  ASSUME NEW m \in Nat, NEW g, g \in [1..m -> Fates]
  PROVE  g \in Seq(Fates) /\ Len(g) = m
<1>1. g \in Seq(Fates)
  BY SeqDef
<1>2. Len(g) \in Nat /\ DOMAIN g = 1..Len(g)
  BY <1>1, LenProperties
<1>3. DOMAIN g = 1..m
  OBVIOUS
<1>4. Len(g) = m
  BY <1>2, <1>3
<1> QED BY <1>1, <1>4

(* A byte, by AdvancePublic or Advance. *)
LEMMA AcceptKeeps ==
  ASSUME Parse!ParserAssumption, PubInv, NEW b \in Parse!Bytes, Parse!Accept(b)
  PROVE  PubInv'
<1> DEFINE n == Len(fate)
           d == Parse!AdvanceCore(core, b)
<1>1. Kept(public, frame, fate, secret, n) /\ Whole(core) /\ Collected(core)
  BY DEF PubInv
<1>2. n \in Nat /\ fate \in Seq(Fates)
  BY <1>1 DEF Kept, Written
<1>3. ByteMoves(core, b, d)
  BY <1>1, AdvanceMoves
<1>4. ASSUME NEW pub \in BOOLEAN, NEW e, e = [at |-> n + 1, public |-> pub],
             Parse!Understood(d.state, b, n + 1), core' = d,
             public'.mode = Parse!Project(d, b, e).mode, public'.hold = Parse!Project(d, b, e).hold,
             Passed(public, fate, n, pub, Parse!Project(d, b, e).out, public', fate')
      PROVE  PubInv'
  <2>1. Reads(b, d, n)
    BY <1>3, <1>4 DEF Reads
  <2> HIDE DEF n, d
  <2>2. Lands(Parse!Project(d, b, e), e, d, n)
    BY <2>1, ProjectLands
  <2>3. e.at = n + 1 /\ e.public = pub
    BY <1>4
  <2> DEFINE step == Parse!Project(d, b, e)
  <2>4. Lands(step, e, d, n) /\ public'.mode = step.mode /\ public'.hold = step.hold
        /\ Passed(public, fate, n, pub, step.out, public', fate')
    BY <2>2, <1>4
  <2> HIDE DEF step
  <2>5. Kept(public', frame', fate', secret', n + 1)
    BY <2>1, <2>3, <2>4, StepKeeps
  <2>6. Len(fate') = n + 1
    BY <2>4 DEF Passed
  <2>7. Probing(public'.mode, core', frame', n + 1) /\ Began(core', frame', n + 1)
    BY <2>4, <1>4 DEF Lands
  <2>8. Whole(core') /\ Collected(core')
    BY <1>3, <1>4 DEF ByteMoves
  <2>9. redacted' = redacted
    BY DEF Parse!Accept
  <2>10. Probing(public.mode, core, frame, Len(fate))'
    BY <2>6, <2>7, <2>9 DEF Probing
  <2>11. /\ Whole(core)' /\ Collected(core)'
         /\ Began(core, frame, Len(fate))'
         /\ Kept(public, frame, fate, secret, Len(fate))'
    BY <2>5, <2>6, <2>7, <2>8
  <2> QED BY <2>10, <2>11 DEF PubInv
<1>5. CASE Parse!AdvancePublic(b)
  <2> DEFINE e == [at |-> n + 1, public |-> TRUE]
             step == Parse!Project(d, b, e)
             places == public.deferred \cup Parse!Published(step.out)
  <2>1. /\ core' = d /\ public' = [mode |-> step.mode, hold |-> step.hold, deferred |-> {}]
        /\ Parse!Emits(places) /\ Parse!Understood(d.state, b, n + 1)
    BY <1>5, Zenon DEF Parse!AdvancePublic
  <2> HIDE DEF d, step, n
  <2>2. public'.mode = step.mode /\ public'.hold = step.hold /\ public'.deferred = {}
    BY <2>1
  <2>3. fate' = [i \in 1..(n + 1) |->
            IF i \in places THEN "emitted" ELSE IF i <= n THEN fate[i] ELSE "waiting"]
    BY <2>1 DEF Parse!Emits, n
  <2>4. \A i \in 1..(n + 1) : i <= n => fate[i] \in Fates
    BY <1>2 DEF n
  <2>5. fate' \in [1..(n + 1) -> Fates]
    BY <2>3, <2>4 DEF Fates
  <2>6. fate' \in Seq(Fates) /\ Len(fate') = n + 1
    BY <2>5, <1>2, MappedFates
  <2>7. \A i \in 1..(n + 1) : fate'[i] = Fate(public, fate, n, TRUE, step.out, i)
    BY <2>3 DEF Fate
  <2>8. Passed(public, fate, n, TRUE, step.out, public', fate')
    BY <2>2, <2>6, <2>7 DEF Passed
  <2> QED BY <2>1, <2>2, <2>8, <1>4 DEF step
<1>6. CASE Parse!Advance(b)
  <2> DEFINE e == [at |-> n + 1, public |-> FALSE]
             step == Parse!Project(d, b, e)
  <2>1. /\ core' = d
        /\ public' = [mode |-> step.mode, hold |-> step.hold,
                      deferred |-> public.deferred \cup Parse!Published(step.out)]
        /\ fate' = Append(fate, "private") /\ Parse!Understood(d.state, b, n + 1)
    BY <1>6, Zenon DEF Parse!Advance
  <2> HIDE DEF d, step
  <2>2. /\ public'.mode = step.mode /\ public'.hold = step.hold
        /\ public'.deferred = public.deferred \cup Parse!Published(step.out)
    BY <2>1
  <2>3. fate' \in Seq(Fates) /\ Len(fate') = n + 1
    BY <2>1, <1>2 DEF Fates
  <2>4. \A i \in 1..(n + 1) : fate'[i] = IF i <= n THEN fate[i] ELSE "private"
    BY <2>1, <1>2
  <2>5. \A i \in 1..(n + 1) : fate'[i] = Fate(public, fate, n, FALSE, step.out, i)
    BY <2>4 DEF Fate
  <2>6. Passed(public, fate, n, FALSE, step.out, public', fate')
    BY <2>2, <2>3, <2>5 DEF Passed
  <2> QED BY <2>1, <2>2, <2>6, <1>4 DEF step
<1> QED BY <1>5, <1>6 DEF Parse!Accept

LEMMA ResetWhole ==
  ASSUME NEW c0, Whole(c0)
  PROVE  LET d == Parse!ResetCore(c0)
         IN Whole(d) /\ d.state = Parse!Ground /\ ~d.rune
<1> DEFINE c == [c0 EXCEPT !.events = <<>>]
           k == Parse!ActiveKind(c.state)
           d == IF k # "none" THEN Parse!Cancel(c, k) ELSE Parse!To(Parse!Idle(c), Parse!Ground)
<1>1. Whole(c) /\ c.state = c0.state
  BY DEF Whole, Fields
<1>2. Parse!ResetCore(c0) = [d EXCEPT !.rune = FALSE, !.osc = <<>>, !.truncated = FALSE]
  BY Zenon DEF Parse!ResetCore
<1> HIDE DEF c, d
<1>3. Whole(Parse!To(Parse!Idle(c), Parse!Ground)) /\ Parse!To(Parse!Idle(c), Parse!Ground).state = Parse!Ground
  BY <1>1, IdleWhole, ToWhole, PlainStates
<1>4. k \in Parse!Kinds \/ k = "none"
  BY <1>1 DEF Whole, ParserStates, Parse!ActiveKind, Parse!Plain, Parse!In, Frames, Parse!Kinds
<1>5. k \in Parse!Kinds => Whole(Parse!Cancel(c, k)) /\ Parse!Cancel(c, k).state = Parse!Ground
  BY <1>1, EndsWhole
<1>6. Whole(d) /\ d.state = Parse!Ground
  BY <1>3, <1>4, <1>5 DEF d
<1>7. LET x == [d EXCEPT !.rune = FALSE, !.osc = <<>>, !.truncated = FALSE]
      IN Whole(x) /\ x.state = Parse!Ground /\ ~x.rune
  BY <1>6 DEF Whole, Fields
<1> QED BY <1>2, <1>7, Zenon

LEMMA GroundRests ==
  ASSUME NEW c, c.state = Parse!Ground, ~c.rune, NEW n
  PROVE  Collected(c) /\ Probing("idle", c, Parse!NoFrame, n) /\ Began(c, Parse!NoFrame, n)
<1>1. Parse!Ground \notin Plains /\ Parse!Ground # Parse!Plain("esc") /\ ~Parse!InFrame(Parse!Ground, "APC")
      /\ Parse!Ground \notin {Parse!In("DCS", "preamble"), Parse!In("DCS", "preambleEsc")}
  BY DEF Parse!Ground, Parse!Plain, Parse!In, Plains, Parse!InFrame
<1>2. Collected(c)
  BY <1>1 DEF Collected
<1>3. Probing("idle", c, Parse!NoFrame, n)
  BY <1>1 DEF Probing
<1>4. Began(c, Parse!NoFrame, n)
  BY <1>1 DEF Began, Parse!NoFrame
<1> QED BY <1>2, <1>3, <1>4

(* What is held becomes public, or is deferred, where it was. *)
LEMMA ResetKeeps ==
  ASSUME PubInv, Parse!Reset \/ Parse!EndOfInputPublic
  PROVE  PubInv'
<1> DEFINE n == Len(fate)
           H == Parse!Published(public.hold)
<1>1. Kept(public, frame, fate, secret, n) /\ Whole(core)
  BY DEF PubInv
<1>2. \A i \in H : i \in 1..n /\ fate[i] = "waiting" /\ i \notin secret
  BY <1>1, PublishedOf DEF Kept, HeldBack
<1>3. n \in Nat /\ fate \in Seq(Fates) /\ secret \subseteq 0..n
  BY <1>1 DEF Kept, Written
<1>4. \A i \in public.deferred : i \in 1..n /\ fate[i] = "waiting" /\ i \notin secret
  BY <1>1 DEF Kept, PutOff
<1>5. /\ \A i \in secret : i \in 1..n => fate[i] # "emitted"
      /\ \A i \in 1..n : fate[i] = "waiting" => i \in secret \/ i \in public.deferred \/ i \in H
      /\ \A i, j \in 1..n : i < j /\ fate[j] = "emitted" /\ fate[i] = "waiting" => i \in secret
  BY <1>1 DEF Kept, Ordered
<1>6. /\ core' = Parse!ResetCore(core) /\ frame' = Parse!NoFrame /\ secret' = secret /\ redacted' = redacted
      /\ public'.mode = "idle" /\ public'.hold = {}
  BY DEF Parse!Reset, Parse!EndOfInputPublic
<1>7. Whole(core') /\ core'.state = Parse!Ground /\ ~core'.rune
  BY <1>1, <1>6, ResetWhole
<1>8. \/ fate' = fate /\ public'.deferred = public.deferred \cup H
      \/ /\ fate' = [i \in 1..n |-> IF i \in public.deferred \cup H THEN "emitted" ELSE fate[i]]
         /\ public'.deferred = {}
  <2>1. DOMAIN fate = 1..n
    BY <1>3
  <2>2. CASE Parse!Reset
    <3>1. public' = [mode |-> "idle", hold |-> {}, deferred |-> public.deferred \cup H] /\ fate' = fate
      BY <2>2 DEF Parse!Reset, Parse!KeptByReset
    <3> QED BY <3>1
  <2>3. CASE Parse!EndOfInputPublic
    <3>1. /\ public' = [mode |-> "idle", hold |-> {}, deferred |-> {}]
          /\ fate' = [i \in DOMAIN fate |-> IF i \in public.deferred \cup H THEN "emitted" ELSE fate[i]]
      BY <2>3, Zenon DEF Parse!EndOfInputPublic
    <3>2. public'.deferred = {}
      BY <3>1
    <3> QED BY <3>1, <3>2, <2>1
  <2> QED BY <2>2, <2>3
<1> HIDE DEF H
<1>9. fate' \in Seq(Fates) /\ Len(fate') = n
  <2>1. \A i \in 1..n : fate[i] \in Fates
    BY <1>3
  <2>2. ASSUME fate' = [i \in 1..n |-> IF i \in public.deferred \cup H THEN "emitted" ELSE fate[i]]
        PROVE  fate' \in [1..n -> Fates]
    BY <2>1, <2>2 DEF Fates
  <2> HIDE DEF n
  <2> QED BY <2>2, <1>3, <1>8, MappedFates DEF n
<1> HIDE DEF n
<1>10. Written(fate', secret', n)
  BY <1>3, <1>6, <1>9 DEF Written
<1>11. Sorted(public', frame', secret', n)
  BY <1>3, <1>6 DEF Sorted, Parse!NoFrame
<1>12. HeldBack(public', frame', fate', secret', n)
  BY <1>6 DEF HeldBack, Probes
<1>13. PutOff(public', frame', fate', secret', n)
  BY <1>2, <1>4, <1>6, <1>8, PublishedOf DEF PutOff, Probes
<1>14. Ordered(public', fate', secret', n)
  <2>1. ASSUME NEW i \in secret, i \in 1..n PROVE fate'[i] # "emitted"
    BY <2>1, <1>2, <1>4, <1>5, <1>8
  <2>2. ASSUME NEW i \in 1..n, fate'[i] = "waiting" PROVE i \in secret \/ i \in public'.deferred
    BY <2>2, <1>5, <1>8
  <2>3. ASSUME NEW i \in 1..n, NEW j \in 1..n, i < j, fate'[j] = "emitted", fate'[i] = "waiting"
        PROVE  i \in secret
    BY <2>3, <2>2, <1>5, <1>8
  <2> QED BY <2>1, <2>2, <2>3, <1>6 DEF Ordered
<1>15. Kept(public', frame', fate', secret', n)
  BY <1>10, <1>11, <1>12, <1>13, <1>14 DEF Kept
<1>16. Collected(core') /\ Probing("idle", core', Parse!NoFrame, n) /\ Began(core', Parse!NoFrame, n)
  BY <1>7, GroundRests
<1>17. Probing(public.mode, core, frame, Len(fate))'
  BY <1>6, <1>9, <1>16 DEF Probing
<1>18. /\ Whole(core)' /\ Collected(core)' /\ Began(core, frame, Len(fate))'
       /\ Kept(public, frame, fate, secret, Len(fate))'
  BY <1>6, <1>7, <1>9, <1>15, <1>16
<1> QED BY <1>17, <1>18 DEF PubInv

LEMMA InitKept ==
  ASSUME Parse!Init
  PROVE  PubInv
<1>1. /\ core = Parse!NewCore /\ public = [mode |-> "idle", hold |-> {}, deferred |-> {}]
      /\ fate = <<>> /\ secret = {} /\ frame = Parse!NoFrame
  BY DEF Parse!Init
<1>2. Whole(core) /\ core.state = Parse!Ground /\ ~core.rune
  BY <1>1, PlainStates DEF Parse!NewCore, Whole, Fields
<1>3. Collected(core) /\ Probing("idle", core, Parse!NoFrame, 0) /\ Began(core, Parse!NoFrame, 0)
  BY <1>2, GroundRests
<1>4. Len(fate) = 0 /\ fate \in Seq(Fates) /\ 1..0 = {}
  BY <1>1
<1>5. Kept(public, frame, fate, secret, 0)
  <2>1. Written(fate, secret, 0) /\ Sorted(public, frame, secret, 0)
    BY <1>1, <1>4 DEF Written, Sorted, Parse!NoFrame
  <2>2. HeldBack(public, frame, fate, secret, 0) /\ PutOff(public, frame, fate, secret, 0)
    BY <1>1, <1>4, PublishedOf DEF HeldBack, PutOff, Probes
  <2>3. Ordered(public, fate, secret, 0)
    BY <1>1, <1>4 DEF Ordered
  <2> QED BY <2>1, <2>2, <2>3 DEF Kept
<1> QED BY <1>1, <1>2, <1>3, <1>4, <1>5 DEF PubInv

LEMMA KeptIsExact ==
  ASSUME PubInv
  PROVE  Parse!PublicExact
<1> DEFINE n == Len(fate)
<1>1. Kept(public, frame, fate, secret, n) /\ Whole(core)
  BY DEF PubInv
<1>2. DOMAIN fate = 1..n
  BY <1>1 DEF Kept, Written
<1>3. public.deferred # {} => Parse!Published(public.hold) = {}
  BY <1>1 DEF Kept, PutOff
<1>4. /\ \A i \in secret : i \in 1..n => fate[i] # "emitted"
      /\ \A i \in 1..n : fate[i] = "waiting" =>
            i \in secret \/ i \in public.deferred \/ i \in Parse!Published(public.hold)
      /\ \A i, j \in 1..n : i < j /\ fate[j] = "emitted" /\ fate[i] = "waiting" => i \in secret
  BY <1>1 DEF Kept, Ordered
<1>5. core.state = Parse!Ground => Parse!Published(public.hold) = {}
  <2>1. ASSUME core.state = Parse!Ground, public.mode \in Probes PROVE FALSE
    <3>1. Probing(public.mode, core, frame, n)
      BY DEF PubInv
    <3> QED BY <2>1, <3>1 DEF Probing, Probes, Parse!Ground, Parse!Plain, Parse!In, Plains
  <2> QED BY <2>1, <1>1, PublishedOf DEF Kept, Sorted
<1> QED BY <1>2, <1>3, <1>4, <1>5 DEF Parse!PublicExact

LEMMA SameTotal ==
    ASSUME NEW f, NEW S
    PROVE  Parse!SumFunctionOnSet(f, S) = SumFunctionOnSet(f, S)
  BY DEF Parse!SumFunctionOnSet, Parse!FoldFunctionOnSet, Parse!MapThenFoldSet,
         SumFunctionOnSet, FoldFunctionOnSet, MapThenFoldSet

LEMMA LengthsAdd ==
  /\ Parse!LengthOf(<<>>) = 0
  /\ \A ev \in Seq(Events), e \in Events :
        Parse!LengthOf(ev) \in Nat /\ Parse!LengthOf(Append(ev, e)) = Parse!LengthOf(ev) + e.length
<1>1. Parse!LengthOf(<<>>) = 0
  <2>1. DOMAIN <<>> = {}
    OBVIOUS
  <2> QED BY <2>1, SameTotal, SumEmpty DEF Parse!LengthOf
<1>2. ASSUME NEW ev \in Seq(Events), NEW e \in Events
      PROVE  Parse!LengthOf(ev) \in Nat /\ Parse!LengthOf(Append(ev, e)) = Parse!LengthOf(ev) + e.length
  <2> DEFINE n == Len(ev)
             new == Append(ev, e)
             f == [i \in DOMAIN ev |-> ev[i].length]
             g == [i \in DOMAIN new |-> new[i].length]
  <2>1. n \in Nat /\ DOMAIN ev = 1..n /\ DOMAIN new = 1..(n + 1)
        /\ new[n + 1] = e /\ \A i \in 1..n : new[i] = ev[i]
    OBVIOUS
  <2>2. \A x \in Events : x.length \in Nat
    BY DEF Events, Parse!Event
  <2>3. \A i \in 1..n : ev[i] \in Events
    OBVIOUS
  <2> HIDE DEF n, new
  <2>4. /\ \A i \in 1..n : f[i] \in Nat /\ g[i] = f[i] /\ g[i] \in Nat
        /\ g[n + 1] = e.length /\ g[n + 1] \in Nat
    BY <2>1, <2>2, <2>3
  <2>5. Parse!LengthOf(ev) = SumFunctionOnSet(f, 1..n) /\ Parse!LengthOf(new) = SumFunctionOnSet(g, 1..(n + 1))
    <3>1. Parse!LengthOf(ev) = Parse!SumFunctionOnSet(f, 1..n)
          /\ Parse!LengthOf(new) = Parse!SumFunctionOnSet(g, 1..(n + 1))
      BY <2>1, Zenon DEF Parse!LengthOf
    <3> QED BY <3>1, SameTotal
  <2> HIDE DEF f, g
  <2>6. IsFiniteSet(1..n) /\ 1 \in Int /\ n \in Int
    <3>1. 1 \in Int /\ n \in Int
      BY <2>1
    <3> QED BY <3>1, FS_Interval, Zenon
  <2>7. 1..(n + 1) = (1..n) \cup {n + 1} /\ n + 1 \notin 1..n
    BY <2>1
  <2>8. SumFunctionOnSet(g, (1..n) \cup {n + 1}) = SumFunctionOnSet(g, 1..n) + g[n + 1]
    <3> DEFINE S == 1..n
               y == n + 1
    <3>1. IsFiniteSet(S) /\ y \notin S /\ g[y] \in Nat /\ \A i \in S : g[i] \in Nat
      BY <2>4, <2>6, <2>7
    <3> HIDE DEF S, y
    <3>2. SumFunctionOnSet(g, S \cup {y}) = SumFunctionOnSet(g, S) + g[y]
      BY <3>1, SumAdd
    <3> QED BY <3>2 DEF S, y
  <2>9. SumFunctionOnSet(g, 1..n) = SumFunctionOnSet(f, 1..n)
    BY <2>4, <2>6, SumSame
  <2>10. SumFunctionOnSet(f, 1..n) \in Nat
    BY <2>4, <2>6, SumElement
  <2> QED BY <2>4, <2>5, <2>7, <2>8, <2>9, <2>10 DEF new
<1> QED BY <1>1, <1>2

LEMMA EventsOf ==
  ASSUME NEW k \in Parse!Kinds, NEW m \in Nat
  PROVE  /\ LET e == Parse!Event(k, m, FALSE, FALSE)
            IN e \in Events /\ e.kind = k /\ e.length = m /\ ~e.final
         /\ LET e == Parse!Event(k, m, TRUE, FALSE)
            IN e \in Events /\ e.kind = k /\ e.length = m /\ e.final
         /\ LET e == Parse!Event(k, m, TRUE, TRUE)
            IN e \in Events /\ e.kind = k /\ e.length = m /\ e.final /\ e.cancelled
  BY DEF Parse!Event, Events

LEMMA BlocksGrow ==
  ASSUME NEW k \in Parse!Kinds, NEW ev, Blocks(ev, k), NEW e \in Events, e.kind = k, ~e.final
  PROVE  Blocks(Append(ev, e), k)
<1>1. ev \in Seq(Events) /\ \A i \in 1..Len(ev) : ev[i].kind = k /\ ~ev[i].final
  BY DEF Blocks
<1>2. Append(ev, e) \in Seq(Events) /\ DOMAIN Append(ev, e) = 1..(Len(ev) + 1)
      /\ \A i \in 1..(Len(ev) + 1) : Append(ev, e)[i] = IF i <= Len(ev) THEN ev[i] ELSE e
  BY <1>1
<1>3. \A i \in DOMAIN Append(ev, e) : Append(ev, e)[i].kind = k /\ ~Append(ev, e)[i].final
  BY <1>1, <1>2
<1> QED BY <1>2, <1>3 DEF Blocks

LEMMA OpenSelf ==
  ASSUME NEW c, Whole(c), c.events = <<>>, NEW k
  PROVE  StringOpen(c, c, k, 0)
<1>1. <<>> \in Seq(Events) /\ DOMAIN <<>> = {}
  OBVIOUS
<1>2. Blocks(<<>>, k)
  BY <1>1 DEF Blocks
<1> QED BY <1>2, LengthsAdd DEF StringOpen, Whole

LEMMA OpenTo ==
  ASSUME NEW c, NEW x, NEW k, NEW m, StringOpen(c, x, k, m), NEW s \in ParserStates
  PROVE  StringOpen(c, Parse!To(x, s), k, m)
<1> DEFINE y == Parse!To(x, s)
<1>1. Whole(x)
  BY DEF StringOpen
<1>2. y.sink = x.sink /\ y.dcs = x.dcs /\ y.events = x.events /\ y.chunk = x.chunk
  BY <1>1 DEF Parse!To, Whole, Fields
<1>3. Whole(y)
  BY <1>1, ToWhole
<1> HIDE DEF y
<1> QED BY <1>2, <1>3 DEF StringOpen, y

LEMMA OpenStore ==
  ASSUME NEW c, Whole(c), NEW x, NEW k \in Parse!Kinds, NEW m \in Nat, StringOpen(c, x, k, m)
  PROVE  StringOpen(c, Parse!Store(x, k), k, m + 1)
<1> DEFINE y == Parse!Store(x, k)
           e == Parse!Event(k, x.chunk, FALSE, FALSE)
           t == Parse!Tell(x, e)
<1>1. Whole(x) /\ x.sink = c.sink /\ x.dcs = c.dcs /\ Blocks(x.events, k) /\ x.chunk \in Nat
      /\ x.total \in Nat /\ c.chunk \in Nat /\ x.events \in Seq(Events)
  BY DEF StringOpen, Whole, Blocks
<1>2. Whole(y)
  BY <1>1, StoreWhole
<1>3. e \in Events /\ e.kind = k /\ ~e.final /\ e.length = x.chunk
  BY <1>1, EventsOf
<1> HIDE DEF e
<1>4. CASE ~c.sink
  <2>1. y = [x EXCEPT !.total = @ + 1]
    BY <1>1, <1>4 DEF Parse!Store
  <2>2. y.sink = x.sink /\ y.dcs = x.dcs /\ y.events = x.events
    BY <2>1, <1>1 DEF Whole, Fields
  <2>3. x.events = <<>>
    BY <1>4 DEF StringOpen
  <2> HIDE DEF y
  <2> QED BY <2>2, <2>3, <1>1, <1>2, <1>4 DEF StringOpen, y
<1>5. CASE c.sink /\ x.chunk = MaxChunk
  <2>1. t = [x EXCEPT !.events = Append(@, e)]
    BY <1>1, <1>5 DEF Parse!Tell
  <2>2. t.events = Append(x.events, e) /\ t.sink = x.sink /\ t.dcs = x.dcs /\ DOMAIN t = Fields
    BY <2>1, <1>1 DEF Whole, Fields
  <2>3. y = [t EXCEPT !.total = @ + 1, !.chunk = 1]
    BY <1>1, <1>5 DEF Parse!Store, e
  <2> HIDE DEF y, t
  <2>4. y.events = Append(x.events, e) /\ y.sink = x.sink /\ y.dcs = x.dcs /\ y.chunk = 1
    BY <2>2, <2>3 DEF Fields
  <2>5. Blocks(y.events, k)
    BY <2>4, <1>1, <1>3, BlocksGrow
  <2>6. Parse!LengthOf(x.events) \in Nat /\ Parse!LengthOf(y.events) = Parse!LengthOf(x.events) + x.chunk
    BY <2>4, <1>1, <1>3, LengthsAdd
  <2>7. Parse!LengthOf(x.events) + x.chunk = c.chunk + m
    BY <1>5 DEF StringOpen
  <2>8. Parse!LengthOf(y.events) + y.chunk = c.chunk + (m + 1)
    <3>1. \A a, p, q, r \in Nat : a + p = q + r => (a + p) + 1 = q + (r + 1)
      OBVIOUS
    <3>2. (Parse!LengthOf(x.events) + x.chunk) + 1 = c.chunk + (m + 1)
      BY <3>1, <2>6, <2>7, <1>1
    <3> QED BY <3>2, <2>4, <2>6
  <2> QED BY <2>4, <2>5, <2>8, <1>1, <1>2, <1>5 DEF StringOpen, y
<1>6. CASE c.sink /\ x.chunk # MaxChunk
  <2>1. y = [x EXCEPT !.total = @ + 1, !.chunk = @ + 1]
    BY <1>1, <1>6 DEF Parse!Store
  <2>2. y.sink = x.sink /\ y.dcs = x.dcs /\ y.events = x.events /\ y.chunk = x.chunk + 1
    BY <2>1, <1>1 DEF Whole, Fields
  <2> HIDE DEF y
  <2>3. Parse!LengthOf(x.events) \in Nat
    BY <1>1, <1>3, LengthsAdd
  <2>4. Parse!LengthOf(x.events) + x.chunk = c.chunk + m
    BY <1>6 DEF StringOpen
  <2>5. Parse!LengthOf(y.events) + y.chunk = c.chunk + (m + 1)
    <3>1. \A a, p, q, r \in Nat : a + p = q + r => a + (p + 1) = q + (r + 1)
      OBVIOUS
    <3>2. Parse!LengthOf(x.events) + (x.chunk + 1) = c.chunk + (m + 1)
      BY <3>1, <2>3, <2>4, <1>1
    <3> QED BY <3>2, <2>2
  <2> QED BY <2>2, <2>5, <1>1, <1>2, <1>6 DEF StringOpen, y
<1> QED BY <1>4, <1>5, <1>6

LEMMA TellEnds ==
  ASSUME NEW c, Whole(c), NEW x, NEW k \in Parse!Kinds, NEW m \in Nat, StringOpen(c, x, k, m),
         NEW e \in Events, e.kind = k, e.final, NEW s \in ParserStates
  PROVE  LET d == Parse!To(Parse!Idle(Parse!Tell(x, e)), s)
         IN /\ e.cancelled => \A j : StringClosed(c, d, k, j)
            /\ e.length = x.chunk => StringClosed(c, d, k, m)
            /\ Whole(d) /\ d.state = s
<1> DEFINE t == Parse!Tell(x, e)
           d == Parse!To(Parse!Idle(t), s)
<1>1. Whole(x) /\ x.sink = c.sink /\ Blocks(x.events, k) /\ x.chunk \in Nat /\ x.events \in Seq(Events)
  BY DEF StringOpen, Whole, Blocks
<1>2. Whole(t) /\ t.events = IF c.sink THEN Append(x.events, e) ELSE x.events
  <2>1. Whole(t)
    BY <1>1, TellWhole
  <2>2. CASE c.sink
    <3>1. t = [x EXCEPT !.events = Append(@, e)]
      BY <1>1, <2>2 DEF Parse!Tell
    <3> QED BY <3>1, <2>1, <2>2, <1>1 DEF Whole, Fields
  <2>3. CASE ~c.sink
    BY <1>1, <2>1, <2>3 DEF Parse!Tell
  <2> QED BY <2>2, <2>3
<1> HIDE DEF t
<1>3. d.events = t.events
  BY <1>2 DEF Parse!To, Parse!Idle, Whole, Fields
<1>4. Whole(d) /\ d.state = s
  BY <1>2, IdleWhole, ToWhole
<1> HIDE DEF d
<1>5. ~c.sink => d.events = <<>>
  BY <1>2, <1>3 DEF StringOpen
<1>6. c.sink => d.events = Append(x.events, e)
  BY <1>2, <1>3
<1>7. e.cancelled => \A j : StringClosed(c, d, k, j)
  BY <1>1, <1>5, <1>6 DEF StringClosed
<1>8. ASSUME e.length = x.chunk PROVE StringClosed(c, d, k, m)
  <2>1. c.sink => Parse!LengthOf(d.events) = c.chunk + m
    BY <1>1, <1>6, <1>8, LengthsAdd DEF StringOpen
  <2> QED BY <2>1, <1>1, <1>5, <1>6 DEF StringClosed
<1> QED BY <1>4, <1>7, <1>8 DEF d, t

LEMMA ClosedBy ==
  ASSUME NEW c, Whole(c), NEW x, NEW k \in Parse!Kinds, NEW m \in Nat, StringOpen(c, x, k, m)
  PROVE  /\ StringClosed(c, Parse!Finish(x, k), k, m) /\ Parse!Finish(x, k).state = Parse!Ground
         /\ \A j : StringClosed(c, Parse!Cancel(x, k), k, j) /\ Parse!Cancel(x, k).state = Parse!Ground
         /\ \A j : StringClosed(c, Parse!Overflow(x, k), k, j) /\ Parse!Overflow(x, k).state = Parse!In(k, "discard")
         /\ \A s \in ParserStates : \A j : StringClosed(c, Parse!To(Parse!Overflow(x, k), s), k, j)
<1>1. Parse!Ground \in ParserStates /\ Parse!In(k, "discard") \in ParserStates /\ x.chunk \in Nat
  BY FrameStates DEF Frames, StringOpen, Whole
<1>2. StringClosed(c, Parse!Finish(x, k), k, m) /\ Parse!Finish(x, k).state = Parse!Ground
  <2> DEFINE e == Parse!Event(k, x.chunk, TRUE, FALSE)
  <2>1. e \in Events /\ e.kind = k /\ e.final /\ e.length = x.chunk
    BY <1>1, EventsOf
  <2>2. Parse!Finish(x, k) = Parse!To(Parse!Idle(Parse!Tell(x, e)), Parse!Ground)
    BY DEF Parse!Finish
  <2> HIDE DEF e
  <2>3. Parse!Ground \in ParserStates
    BY FrameStates DEF Frames
  <2>4. LET d == Parse!To(Parse!Idle(Parse!Tell(x, e)), Parse!Ground)
        IN StringClosed(c, d, k, m) /\ d.state = Parse!Ground
    BY <2>1, <2>3, TellEnds
  <2> QED BY <2>2, <2>4, Zenon
<1>3. ASSUME NEW s \in ParserStates
      PROVE  LET d == Parse!To(Parse!Idle(Parse!Tell(x, Parse!Event(k, 0, TRUE, TRUE))), s)
             IN Whole(d) /\ d.state = s /\ \A j : StringClosed(c, d, k, j)
  <2> DEFINE e == Parse!Event(k, 0, TRUE, TRUE)
  <2>1. e \in Events /\ e.kind = k /\ e.final /\ e.cancelled
    BY DEF Parse!Event, Events
  <2> HIDE DEF e
  <2>2. LET d == Parse!To(Parse!Idle(Parse!Tell(x, e)), s)
        IN Whole(d) /\ d.state = s /\ \A j : StringClosed(c, d, k, j)
    BY <2>1, <1>1, TellEnds
  <2> QED BY <2>2 DEF e
<1>4. \A j : StringClosed(c, Parse!Cancel(x, k), k, j) /\ Parse!Cancel(x, k).state = Parse!Ground
  BY <1>1, <1>3 DEF Parse!Cancel
<1>5. Whole(Parse!Overflow(x, k)) /\ Parse!Overflow(x, k).state = Parse!In(k, "discard")
      /\ \A j : StringClosed(c, Parse!Overflow(x, k), k, j)
  BY <1>1, <1>3 DEF Parse!Overflow
<1>6. ASSUME NEW s \in ParserStates, NEW j PROVE StringClosed(c, Parse!To(Parse!Overflow(x, k), s), k, j)
  <2> DEFINE o == Parse!Overflow(x, k)
             y == Parse!To(o, s)
  <2>1. y.events = o.events
    BY <1>5 DEF Parse!To, Whole, Fields
  <2>2. StringClosed(c, o, k, j)
    BY <1>5
  <2> HIDE DEF o, y
  <2> QED BY <2>1, <2>2 DEF StringClosed, y, o
<1> QED BY <1>2, <1>4, <1>5, <1>6

LEMMA FramePlaces ==
  ASSUME NEW k \in Parse!Kinds
  PROVE  /\ Parse!ActiveKind(Parse!In(k, "payload")) = k /\ Pending(Parse!In(k, "payload")) = 0
         /\ Parse!ActiveKind(Parse!In(k, "esc")) = k /\ Pending(Parse!In(k, "esc")) = 1
         /\ Parse!ActiveKind(Parse!Ground) = "none" /\ Parse!ActiveKind(Parse!In(k, "discard")) = "none"
         /\ Parse!ActiveKind(Parse!In(k, "discardEsc")) = "none"
         /\ {Parse!In(k, "payload"), Parse!In(k, "esc"), Parse!In(k, "discard"), Parse!In(k, "discardEsc"), Parse!Ground} \subseteq ParserStates
         /\ Parse!In(k, "payload").kind = k /\ Parse!In(k, "esc").kind = k
<1>1. {Parse!In(k, "payload"), Parse!In(k, "esc"), Parse!In(k, "discard"), Parse!In(k, "discardEsc"), Parse!Ground} \subseteq ParserStates
  BY FrameStates DEF Frames
<1> QED BY <1>1 DEF Parse!ActiveKind, Pending, Parse!In, Parse!Ground, Parse!Plain

LEMMA AppendTells ==
  ASSUME NEW c, Whole(c), c.events = <<>>, NEW k \in Parse!Kinds, NEW d, d = Parse!AppendByte(c, k)
  PROVE  /\ Parse!Fits(c) => d.state = c.state /\ d = Parse!Store(c, k) /\ StringOpen(c, d, k, 1)
         /\ ~Parse!Fits(c) => /\ d.state = Parse!In(k, "discard") /\ d = Parse!Overflow(c, k)
                        /\ \A j : StringClosed(c, d, k, j)
<1>1. StringOpen(c, c, k, 0)
  BY OpenSelf
<1>2. StringOpen(c, Parse!Store(c, k), k, 0 + 1)
  BY <1>1, OpenStore
<1>3. Parse!Store(c, k).state = c.state
  BY StoreWhole
<1>4. \A j : StringClosed(c, Parse!Overflow(c, k), k, j) /\ Parse!Overflow(c, k).state = Parse!In(k, "discard")
  BY <1>1, ClosedBy
<1>5. 0 + 1 = 1
  OBVIOUS
<1> QED BY <1>2, <1>3, <1>4, <1>5 DEF Parse!AppendByte

LEMMA PayloadTells ==
  ASSUME NEW c, Whole(c), c.events = <<>>, NEW k \in Parse!Kinds, c.state = Parse!In(k, "payload"), NEW b \in Parse!Bytes
  PROVE  Tells(c, b, Parse!Payload(c, b), k)
<1> DEFINE d == Parse!Payload(c, b)
<1>1. c.state.kind = k /\ Pending(c.state) = 0
  BY FramePlaces
<1>2. StringOpen(c, c, k, 0)
  BY OpenSelf
<1>3. /\ StringClosed(c, Parse!Finish(c, k), k, 0) /\ Parse!Finish(c, k).state = Parse!Ground
      /\ \A j : StringClosed(c, Parse!Cancel(c, k), k, j) /\ Parse!Cancel(c, k).state = Parse!Ground
  BY <1>2, ClosedBy
<1>4. CASE b = "CAN"
  <2>1. d = Parse!Cancel(c, k)
    BY <1>1, <1>4 DEF Parse!Payload, Parse!Terminates
  <2> HIDE DEF d
  <2>2. Parse!ActiveKind(d.state) = "none" /\ \A j : StringClosed(c, d, k, j)
    BY <2>1, <1>3, FramePlaces
  <2>3. Tells(c, b, d, k)
    BY <2>2 DEF Tells
  <2> QED BY <2>3 DEF d
<1>5. CASE b = "ESC"
  <2>1. d = Parse!To(c, Parse!In(k, "esc"))
    BY <1>1, <1>5 DEF Parse!Payload, Parse!Terminates
  <2> HIDE DEF d
  <2>2. StringOpen(c, d, k, 0)
    BY <2>1, <1>2, OpenTo, FramePlaces
  <2>3. Parse!ActiveKind(d.state) = k /\ Pending(d.state) = 1
    <3>1. Parse!In(k, "esc") \in ParserStates
      BY FramePlaces
    <3>2. d.state = Parse!In(k, "esc")
      BY <2>1, <3>1, ToWhole
    <3> QED BY <3>2, FramePlaces
  <2>4. (1 + Pending(c.state)) - Pending(d.state) = 0
    BY <2>3, <1>1
  <2>5. Tells(c, b, d, k)
    BY <2>2, <2>3, <2>4 DEF Tells
  <2> QED BY <2>5 DEF d
<1>6. CASE b \notin {"CAN", "ESC"} /\ Parse!Terminates(k, b)
  <2>1. d = Parse!Finish(c, k)
    BY <1>1, <1>6 DEF Parse!Payload, Parse!Terminates
  <2>2. (1 + Pending(c.state)) - (IF b = "BEL" THEN 1 ELSE 2) = 0
    BY <1>1, <1>6 DEF Parse!Terminates
  <2> HIDE DEF d
  <2>3. Parse!ActiveKind(d.state) = "none" /\ StringClosed(c, d, k, 0)
    BY <2>1, <1>3, FramePlaces
  <2>4. Tells(c, b, d, k)
    BY <2>2, <2>3 DEF Tells
  <2> QED BY <2>4 DEF d
<1>7. CASE b \notin {"CAN", "ESC"} /\ ~Parse!Terminates(k, b)
  <2>1. d = Parse!AppendByte(c, k)
    BY <1>1, <1>7 DEF Parse!Payload
  <2> HIDE DEF d
  <2>2. /\ Parse!Fits(c) => d.state = c.state /\ StringOpen(c, d, k, 1)
        /\ ~Parse!Fits(c) => d.state = Parse!In(k, "discard") /\ \A j : StringClosed(c, d, k, j)
    BY <2>1, AppendTells
  <2>3. Parse!Fits(c) => Parse!ActiveKind(d.state) = k /\ (1 + Pending(c.state)) - Pending(d.state) = 1
    BY <2>2, <1>1, FramePlaces
  <2>4. ~Parse!Fits(c) => Parse!ActiveKind(d.state) = "none"
    BY <2>2, FramePlaces
  <2>5. Tells(c, b, d, k)
    BY <2>2, <2>3, <2>4 DEF Tells
  <2> QED BY <2>5 DEF d
<1> QED BY <1>4, <1>5, <1>6, <1>7

LEMMA EscapeTells ==
  ASSUME NEW c, Whole(c), c.events = <<>>, NEW k \in Parse!Kinds, c.state = Parse!In(k, "esc"), NEW b \in Parse!Bytes
  PROVE  Tells(c, b, Parse!Escape(c, b), k)
<1> DEFINE d == Parse!Escape(c, b)
           x == Parse!AppendByte(c, k)
<1>1. c.state.kind = k /\ Pending(c.state) = 1
  BY FramePlaces
<1>2. StringOpen(c, c, k, 0)
  BY OpenSelf
<1>3. /\ StringClosed(c, Parse!Finish(c, k), k, 0) /\ Parse!Finish(c, k).state = Parse!Ground
      /\ \A j : StringClosed(c, Parse!Cancel(c, k), k, j) /\ Parse!Cancel(c, k).state = Parse!Ground
      /\ \A s \in ParserStates : \A j : StringClosed(c, Parse!To(Parse!Overflow(c, k), s), k, j)
  BY <1>2, ClosedBy
<1>4. /\ Parse!Fits(c) => x = Parse!Store(c, k) /\ StringOpen(c, x, k, 1)
      /\ ~Parse!Fits(c) => x.state = Parse!In(k, "discard") /\ x = Parse!Overflow(c, k) /\ \A j : StringClosed(c, x, k, j)
  BY AppendTells
<1>5. Whole(x)
  BY AppendMoves
<1> HIDE DEF x
<1>6. ASSUME NEW y, Parse!ActiveKind(y.state) = "none", \A j : StringClosed(c, y, k, j)
      PROVE  Tells(c, b, y, k)
  BY <1>6 DEF Tells
<1>7. CASE b = "\\"
  <2>1. d = Parse!Finish(c, k)
    BY <1>1, <1>7 DEF Parse!Escape, Parse!Terminates
  <2>2. (1 + Pending(c.state)) - (IF b = "BEL" THEN 1 ELSE 2) = 0
    BY <1>1, <1>7
  <2> HIDE DEF d
  <2>3. Parse!ActiveKind(d.state) = "none" /\ StringClosed(c, d, k, 0)
    BY <2>1, <1>3, FramePlaces
  <2>4. Tells(c, b, d, k)
    BY <2>2, <2>3 DEF Tells
  <2> QED BY <2>4 DEF d
<1>8. CASE b = "CAN"
  <2>1. d = Parse!Cancel(c, k)
    BY <1>1, <1>8 DEF Parse!Escape, Parse!Terminates
  <2> HIDE DEF d
  <2>2. Parse!ActiveKind(d.state) = "none" /\ \A j : StringClosed(c, d, k, j)
    BY <2>1, <1>3, FramePlaces
  <2>3. Tells(c, b, d, k)
    BY <2>2, <1>6
  <2> QED BY <2>3 DEF d
<1>9. CASE b \notin {"\\", "CAN"} /\ Parse!Terminates(k, b)
  <2>1. d = IF Parse!Fits(c) THEN Parse!Finish(x, k) ELSE Parse!To(x, Parse!Ground)
    BY <1>1, <1>9 DEF Parse!Escape, Parse!Terminates, x
  <2>2. (1 + Pending(c.state)) - (IF b = "BEL" THEN 1 ELSE 2) = 1
    BY <1>1, <1>9 DEF Parse!Terminates
  <2> HIDE DEF d
  <2>3. CASE Parse!Fits(c)
    <3>1. StringClosed(c, Parse!Finish(x, k), k, 1) /\ Parse!Finish(x, k).state = Parse!Ground
      BY <2>3, <1>4, ClosedBy
    <3>2. Tells(c, b, d, k)
      BY <3>1, <2>1, <2>2, <2>3, FramePlaces DEF Tells
    <3> QED BY <3>2 DEF d
  <2>4. CASE ~Parse!Fits(c)
    <3>1. d = Parse!To(Parse!Overflow(c, k), Parse!Ground) /\ d.state = Parse!Ground
      BY <2>1, <2>4, <1>4, <1>5, ToWhole, FramePlaces
    <3>2. Parse!ActiveKind(d.state) = "none" /\ \A j : StringClosed(c, d, k, j)
      BY <3>1, <1>3, FramePlaces
    <3>3. Tells(c, b, d, k)
      BY <3>2, <1>6
    <3> QED BY <3>3 DEF d
  <2> QED BY <2>3, <2>4
<1>10. CASE b \notin {"\\", "CAN"} /\ ~Parse!Terminates(k, b) /\ b = "ESC"
  <2>1. d = Parse!To(x, IF Parse!Fits(c) THEN Parse!In(k, "esc") ELSE Parse!In(k, "discardEsc"))
    BY <1>1, <1>10 DEF Parse!Escape, Parse!Terminates, Parse!SecondEscape, x
  <2> HIDE DEF d
  <2>2. CASE Parse!Fits(c)
    <3>1. d = Parse!To(x, Parse!In(k, "esc")) /\ d.state = Parse!In(k, "esc")
      BY <2>1, <2>2, <1>5, ToWhole, FramePlaces
    <3>2. StringOpen(c, d, k, 1)
      BY <3>1, <2>2, <1>4, OpenTo, FramePlaces
    <3>3. Parse!ActiveKind(d.state) = k /\ (1 + Pending(c.state)) - Pending(d.state) = 1
      BY <3>1, <1>1, FramePlaces
    <3>4. Tells(c, b, d, k)
      BY <3>2, <3>3 DEF Tells
    <3> QED BY <3>4 DEF d
  <2>3. CASE ~Parse!Fits(c)
    <3>1. d = Parse!To(Parse!Overflow(c, k), Parse!In(k, "discardEsc")) /\ d.state = Parse!In(k, "discardEsc")
      BY <2>1, <2>3, <1>4, <1>5, ToWhole, FramePlaces
    <3>2. Parse!ActiveKind(d.state) = "none" /\ \A j : StringClosed(c, d, k, j)
      BY <3>1, <1>3, FramePlaces
    <3>3. Tells(c, b, d, k)
      BY <3>2, <1>6
    <3> QED BY <3>3 DEF d
  <2> QED BY <2>2, <2>3
<1>11. CASE b \notin {"\\", "CAN", "ESC"} /\ ~Parse!Terminates(k, b)
  <2>1. d = IF ~Parse!Fits(c) THEN x ELSE IF ~Parse!Fits(x) THEN Parse!Overflow(x, k)
            ELSE Parse!To(Parse!Store(x, k), Parse!In(k, "payload"))
    BY <1>1, <1>11 DEF Parse!Escape, Parse!Terminates, x
  <2> HIDE DEF d
  <2>2. CASE ~Parse!Fits(c)
    <3>1. Parse!ActiveKind(d.state) = "none" /\ \A j : StringClosed(c, d, k, j)
      BY <2>1, <2>2, <1>4, FramePlaces
    <3>2. Tells(c, b, d, k)
      BY <3>1, <1>6
    <3> QED BY <3>2 DEF d
  <2>3. CASE Parse!Fits(c) /\ ~Parse!Fits(x)
    <3>1. \A j : StringClosed(c, Parse!Overflow(x, k), k, j) /\ Parse!Overflow(x, k).state = Parse!In(k, "discard")
      BY <2>3, <1>4, ClosedBy
    <3>2. Parse!ActiveKind(d.state) = "none" /\ \A j : StringClosed(c, d, k, j)
      BY <3>1, <2>1, <2>3, FramePlaces
    <3>3. Tells(c, b, d, k)
      BY <3>2, <1>6
    <3> QED BY <3>3 DEF d
  <2>4. CASE Parse!Fits(c) /\ Parse!Fits(x)
    <3> DEFINE y == Parse!Store(x, k)
    <3>1. StringOpen(c, y, k, 1 + 1)
      BY <2>4, <1>4, OpenStore
    <3>2. Whole(y)
      BY <1>5, StoreWhole
    <3> HIDE DEF y
    <3>3. d = Parse!To(y, Parse!In(k, "payload")) /\ d.state = Parse!In(k, "payload")
      BY <2>1, <2>4, <3>2, ToWhole, FramePlaces DEF y
    <3>4. StringOpen(c, d, k, 1 + 1)
      BY <3>1, <3>3, OpenTo, FramePlaces
    <3>5. Parse!ActiveKind(d.state) = k /\ (1 + Pending(c.state)) - Pending(d.state) = 1 + 1
      BY <3>3, <1>1, FramePlaces
    <3>6. Tells(c, b, d, k)
      BY <3>4, <3>5 DEF Tells
    <3> QED BY <3>6 DEF d
  <2> QED BY <2>2, <2>3, <2>4
<1> QED BY <1>7, <1>8, <1>9, <1>10, <1>11

LEMMA Quiet ==
  ASSUME NEW c, Whole(c), NEW s \in ParserStates
  PROVE  /\ Parse!To(c, s).events = c.events /\ Parse!To(Parse!Idle(c), s).events = c.events
         /\ Parse!To(c, s).state = s /\ Parse!To(Parse!Idle(c), s).state = s
<1>1. Whole(Parse!Idle(c)) /\ Parse!Idle(c).events = c.events
  BY IdleWhole DEF Parse!Idle, Whole, Fields
<1>2. ASSUME NEW x, Whole(x) PROVE Parse!To(x, s).events = x.events /\ Parse!To(x, s).state = s
  BY <1>2, ToWhole DEF Parse!To, Whole, Fields
<1> QED BY <1>1, <1>2

LEMMA StartTells ==
  ASSUME NEW c, Whole(c), NEW k \in Parse!Kinds
  PROVE  LET d == Parse!StartControlString(c, k)
         IN d.events = c.events /\ d.dcs = <<>> /\ d.chunk = 0
<1> DEFINE x == Parse!Idle(c)
           d == Parse!StartControlString(c, k)
<1>1. DOMAIN x = Fields /\ x.events = c.events /\ x.dcs = <<>> /\ x.chunk = 0
  BY DEF Parse!Idle, Whole, Fields
<1>2. PICK s, m : d = Parse!To(x, s) \/ d = [Parse!To(x, s) EXCEPT !.sink = sink, !.total = m]
  BY Zenon DEF Parse!StartControlString
<1> HIDE DEF x, d
<1> QED BY <1>1, <1>2 DEF Parse!To, Fields, d

LEMMA PreambleTells ==
  ASSUME NEW c, Whole(c), c.state \in {Parse!In("DCS", "preamble"), Parse!In("DCS", "preambleEsc")}, NEW b \in Parse!Bytes
  PROVE  LET d == Parse!ControlState(c, b)
         IN /\ d.events = c.events
            /\ d.state \in {Parse!In("DCS", "preamble"), Parse!In("DCS", "payload")} =>
                  c.state = Parse!In("DCS", "preamble") /\ d.dcs = Append(c.dcs, b) /\ d.chunk = c.chunk
<1> DEFINE K == "DCS"
           read == Append(c.dcs, b)
           d == Parse!ControlState(c, b)
<1>1. /\ Parse!Ground \in ParserStates /\ Parse!In(K, "discard") \in ParserStates /\ Parse!In(K, "discardEsc") \in ParserStates
      /\ Parse!In(K, "payload") \in ParserStates /\ Parse!In(K, "preamble") \in ParserStates /\ Parse!In(K, "preambleEsc") \in ParserStates
  BY FrameStates DEF Frames, ParserStates, Parse!Kinds
<1>2. \A s \in {Parse!Ground, Parse!In(K, "discard"), Parse!In(K, "discardEsc"), Parse!In(K, "preambleEsc")} :
        s \notin {Parse!In(K, "preamble"), Parse!In(K, "payload")}
  BY DEF Parse!In, Parse!Ground, Parse!Plain
<1>3. \A s \in ParserStates : /\ Parse!To(c, s).events = c.events /\ Parse!To(Parse!Idle(c), s).events = c.events
                        /\ Parse!To(c, s).state = s /\ Parse!To(Parse!Idle(c), s).state = s
  BY Quiet
<1>4. CASE c.state = Parse!In(K, "preambleEsc")
  <2>1. d = Parse!PreambleEscape(c, b)
    BY <1>4 DEF Parse!ControlState, Parse!In
  <2>2. \E s \in {Parse!Ground, Parse!In(K, "discard"), Parse!In(K, "discardEsc")} : d = Parse!To(Parse!Idle(c), s)
    BY <2>1 DEF Parse!PreambleEscape
  <2> HIDE DEF d
  <2>3. d.events = c.events /\ d.state \notin {Parse!In(K, "preamble"), Parse!In(K, "payload")}
    BY <2>2, <1>1, <1>2, <1>3
  <2> QED BY <2>3 DEF d
<1>5. CASE c.state = Parse!In(K, "preamble")
  <2>1. d = Parse!Preamble(c, b)
    BY <1>5 DEF Parse!ControlState, Parse!In
  <2>2. \/ d = Parse!To(Parse!Idle(c), Parse!Ground)
        \/ d = Parse!To(c, Parse!In(K, "preambleEsc"))
        \/ d = Parse!To(Parse!Idle(c), Parse!In(K, "discard"))
        \/ d = [Parse!To(c, Parse!In(K, "payload")) EXCEPT !.dcs = read, !.total = @ + 1]
        \/ d = [c EXCEPT !.dcs = read, !.total = @ + 1]
    BY <2>1 DEF Parse!Preamble
  <2> HIDE DEF d
  <2>3. CASE \/ d = Parse!To(Parse!Idle(c), Parse!Ground)
             \/ d = Parse!To(c, Parse!In(K, "preambleEsc"))
             \/ d = Parse!To(Parse!Idle(c), Parse!In(K, "discard"))
    <3>1. d.events = c.events /\ d.state \notin {Parse!In(K, "preamble"), Parse!In(K, "payload")}
      BY <2>3, <1>1, <1>2, <1>3
    <3> QED BY <3>1 DEF d
  <2>4. CASE \/ d = [Parse!To(c, Parse!In(K, "payload")) EXCEPT !.dcs = read, !.total = @ + 1]
             \/ d = [c EXCEPT !.dcs = read, !.total = @ + 1]
    <3> HIDE DEF read
    <3>1. PICK x : /\ x = c \/ x = Parse!To(c, Parse!In(K, "payload"))
                   /\ d = [x EXCEPT !.dcs = read, !.total = @ + 1]
      BY <2>4
    <3>2. DOMAIN x = Fields /\ x.events = c.events /\ x.chunk = c.chunk
      BY <3>1 DEF Parse!To, Whole, Fields
    <3>3. d.events = c.events /\ d.chunk = c.chunk /\ d.dcs = read
      BY <3>1, <3>2 DEF Fields
    <3> QED BY <3>3, <1>5 DEF d, read
  <2> QED BY <2>2, <2>3, <2>4
<1> QED BY <1>4, <1>5

LEMMA OSCTells ==
  ASSUME NEW c, Whole(c), c.state = Parse!Plain("OSC"), Collected(c), NEW b \in Parse!Bytes, Parse!ParserAssumption
  PROVE  LET d == Parse!OSC(c, b)
         IN /\ d.events = c.events
            /\ d.state = Parse!In("OSC1337", "payload") => Len(c.osc) = 1 /\ d.chunk = 0
            /\ d.state = Parse!Plain("OSC") /\ Len(d.osc) < 2 =>
                  Len(c.osc) < 2 /\ Len(d.osc) = Len(c.osc) + 1
<1> DEFINE x == Parse!Collect(c, b)
           e == [x EXCEPT !.osc = <<>>, !.truncated = FALSE]
           g == Parse!StartControlString(e, "OSC1337")
           d == Parse!OSC(c, b)
<1>1. c.osc # Parse!Selector /\ (c.truncated => Len(c.osc) >= 2) /\ Len(c.osc) \in Nat /\ Len(Parse!Selector) = 2
  BY DEF Collected, Plains, Whole, Parse!Selector
<1>2. /\ Whole(x) /\ x.state = c.state
      /\ Len(c.osc) < 2 => x.osc = Append(c.osc, b) /\ Len(x.osc) = Len(c.osc) + 1
      /\ Len(c.osc) >= 2 => Len(x.osc) >= 2 /\ (c.osc # Parse!Selector => x.osc # Parse!Selector)
  BY <1>1, CollectedOn
<1>3. x.events = c.events
  BY DEF Parse!Collect, Whole, Fields
<1>4. d = Parse!To(c, Parse!Ground) \/ d = Parse!To(c, Parse!Plain("OSCEsc")) \/ (x.osc = Parse!Selector /\ d = g) \/ d = x
  BY DEF Parse!OSC
<1> HIDE DEF d, x
<1>5. CASE d = Parse!To(c, Parse!Ground) \/ d = Parse!To(c, Parse!Plain("OSCEsc"))
  <2>1. d.events = c.events /\ d.state \in {Parse!Ground, Parse!Plain("OSCEsc")}
    BY <1>5, Quiet, PlainStates
  <2>2. d.state # Parse!In("OSC1337", "payload") /\ d.state # Parse!Plain("OSC")
    BY <2>1 DEF Parse!In, Parse!Plain, Parse!Ground
  <2> QED BY <2>1, <2>2 DEF d
<1>6. CASE x.osc = Parse!Selector /\ d = g
  <2>1. Whole(e) /\ e.events = x.events
    BY <1>2 DEF Whole, Fields
  <2> HIDE DEF e
  <2>2. g.events = e.events /\ g.chunk = 0
    BY <2>1, StartTells DEF Parse!Kinds
  <2>3. g.state \in {Parse!In("OSC1337", "payload"), Parse!In("OSC1337", "discard")}
    BY <2>1, StartMoves DEF Parse!Kinds
  <2>4. g.state # Parse!Plain("OSC")
    BY <2>3 DEF Parse!Plain, Parse!In
  <2>5. Len(c.osc) = 1
    <3>1. Len(c.osc) < 2
      BY <1>1, <1>2, <1>6
    <3>2. Len(c.osc) + 1 = 2
      BY <1>1, <1>2, <1>6, <3>1
    <3>3. \A n \in Nat : n + 1 = 2 => n = 1
      OBVIOUS
    <3> QED BY <1>1, <3>2, <3>3
  <2> HIDE DEF g
  <2> QED BY <2>1, <2>2, <2>4, <2>5, <1>3, <1>6 DEF d
<1>7. CASE d = x
  <2>1. x.state # Parse!In("OSC1337", "payload")
    BY <1>2 DEF Parse!Plain, Parse!In
  <2> QED BY <2>1, <1>1, <1>2, <1>3, <1>7 DEF d
<1> QED BY <1>4, <1>5, <1>6, <1>7

LEMMA EscTells ==
  ASSUME NEW c, Whole(c), c.state = Parse!Plain("esc"), ~c.rune, NEW b \in Parse!Bytes
  PROVE  LET d == Parse!Esc(c, b)
         IN /\ d.events = c.events
            /\ d.state \in {Parse!In("APC", "payload"), Parse!In("DCS", "preamble")} => d.dcs = <<>> /\ d.chunk = 0
            /\ d.state = Parse!Plain("OSC") => d.osc = <<>>
<1> DEFINE d == Parse!Esc(c, b)
<1>1. EscTo(b, d)
  BY EscMoves
<1>2. CASE b \in {"_", "P"}
  <2> DEFINE k == IF b = "_" THEN "APC" ELSE "DCS"
  <2>1. d = Parse!StartControlString(c, k) /\ k \in Parse!Kinds
    BY <1>2 DEF Parse!Esc, Parse!Kinds
  <2> HIDE DEF d, k
  <2>2. d.events = c.events /\ d.dcs = <<>> /\ d.chunk = 0
    BY <2>1, StartTells
  <2>3. d.state # Parse!Plain("OSC")
    <3>1. d.state \in {Parse!In("APC", "payload"), Parse!In("APC", "discard"),
                       Parse!In("DCS", "preamble"), Parse!In("DCS", "discard")}
      <4>1. CASE b = "_"
        BY <1>1, <4>1 DEF EscTo
      <4>2. CASE b = "P"
        BY <1>1, <4>2 DEF EscTo
      <4> QED BY <1>2, <4>1, <4>2
    <3> QED BY <3>1 DEF Parse!Plain, Parse!In
  <2> QED BY <2>2, <2>3 DEF d
<1>3. CASE b = "]"
  <2>1. d = [Parse!To(c, Parse!Plain("OSC")) EXCEPT !.osc = <<>>, !.truncated = FALSE]
    BY <1>3 DEF Parse!Esc
  <2>2. d.state = Parse!Plain("OSC") /\ d.osc = <<>>
    BY <1>1, <1>3 DEF EscTo
  <2> HIDE DEF d
  <2>3. d.events = c.events
    BY <2>1 DEF Parse!To, Whole, Fields
  <2>4. d.state \notin {Parse!In("APC", "payload"), Parse!In("DCS", "preamble")}
    BY <2>2 DEF Parse!In, Parse!Plain
  <2> QED BY <2>2, <2>3, <2>4 DEF d
<1>4. CASE b \notin {"_", "P", "]"}
  <2>1. d = c \/ \E s \in {Parse!Ground, Parse!Plain("CSI"), Parse!Plain("charset")} : d = Parse!To(c, s)
    BY <1>4 DEF Parse!Esc
  <2>2. {Parse!Ground, Parse!Plain("CSI"), Parse!Plain("charset")} \subseteq ParserStates
    BY PlainStates
  <2> HIDE DEF d
  <2>3. d.events = c.events /\ d.state \in {Parse!Plain("esc"), Parse!Ground, Parse!Plain("CSI"), Parse!Plain("charset")}
    BY <2>1, <2>2, Quiet
  <2>4. d.state \notin {Parse!In("APC", "payload"), Parse!In("DCS", "preamble"), Parse!Plain("OSC")}
    BY <2>3 DEF Parse!In, Parse!Plain, Parse!Ground
  <2> QED BY <2>3, <2>4 DEF d
<1> QED BY <1>2, <1>3, <1>4

LEMMA TellsOf ==
  ASSUME NEW c0, NEW c, c.state = c0.state, c.sink = c0.sink, c.dcs = c0.dcs, c.chunk = c0.chunk,
         NEW b, NEW d, NEW k, Tells(c, b, d, k)
  PROVE  Tells(c0, b, d, k)
  BY DEF Tells, StringOpen, StringClosed

LEMMA AdvanceCounts ==
  ASSUME NEW c0, Whole(c0), Collected(c0), NEW b \in Parse!Bytes, Parse!ParserAssumption
  PROVE  Counts(c0, b, Parse!AdvanceCore(c0, b))
<1> DEFINE c == [c0 EXCEPT !.events = <<>>, !.rune = FALSE]
           d == Parse!AdvanceCore(c0, b)
<1>1. /\ Whole(c) /\ c.state = c0.state /\ ~c.rune /\ c.osc = c0.osc /\ c.truncated = c0.truncated
      /\ c.sink = c0.sink /\ c.dcs = c0.dcs /\ c.chunk = c0.chunk /\ c.events = <<>>
  BY DEF Whole, Fields
<1>2. Collected(c)
  BY <1>1 DEF Collected
<1>3. d = CASE c0.rune /\ b = "tail" -> c
            [] c.state = Parse!Ground -> Parse!GroundByte(c, b)
            [] c.state = Parse!Plain("esc") -> Parse!Esc(c, b)
            [] c.state = Parse!Plain("CSI") -> IF b \in {"0", "k", "("} THEN c ELSE Parse!To(c, Parse!Ground)
            [] c.state = Parse!Plain("charset") -> Parse!To(c, Parse!Ground)
            [] c.state = Parse!Plain("OSC") -> Parse!OSC(c, b)
            [] c.state = Parse!Plain("OSCEsc") -> Parse!OSCEscape(c, b)
            [] OTHER -> Parse!ControlState(c, b)
  BY Zenon DEF Parse!AdvanceCore
<1>0. ByteMoves(c0, b, d)
  BY AdvanceMoves
<1> HIDE DEF c, d
<1>4. /\ Parse!Ground = Parse!Plain("ground")
      /\ \A n, m \in {"ground", "esc", "CSI", "charset", "OSC", "OSCEsc"} : Parse!Plain(n) = Parse!Plain(m) => n = m
      /\ \A n \in {"ground", "esc", "CSI", "charset", "OSC", "OSCEsc"},
            k \in Parse!Kinds, p \in Frames \cup {"preamble", "preambleEsc"} : Parse!Plain(n) # Parse!In(k, p)
      /\ \A n \in {"ground", "esc", "CSI", "charset", "OSC", "OSCEsc"} : Parse!ActiveKind(Parse!Plain(n)) = "none"
      /\ {Parse!Ground, Parse!Plain("esc"), Parse!Plain("OSC")} \subseteq ParserStates
  BY PlainStates DEF Parse!Plain, Parse!In, Parse!ActiveKind
<1>5. \A k \in Parse!Kinds, p \in {"discard", "discardEsc", "preamble", "preambleEsc"} : Parse!ActiveKind(Parse!In(k, p)) = "none"
  BY DEF Parse!ActiveKind, Parse!In
<1>6. "APC" \in Parse!Kinds /\ "DCS" \in Parse!Kinds /\ "OSC1337" \in Parse!Kinds
      /\ \A k \in Parse!Kinds : k # "none"
  BY DEF Parse!Kinds
<1>7. ASSUME Parse!ActiveKind(c0.state) = "none", d.events = <<>>, Parse!ActiveKind(d.state) = "none",
             d.state # Parse!In("DCS", "preamble"), d.state = Parse!Plain("OSC") => Len(d.osc) >= 2
      PROVE  Counts(c0, b, d)
  <2>1. d.state = Parse!Plain("OSC") => ~(Len(d.osc) < 2)
    <3>1. Len(d.osc) \in Nat
      BY <1>0 DEF ByteMoves, Whole
    <3> QED BY <1>7, <3>1
  <2> QED BY <2>1, <1>6, <1>7 DEF Counts
<1>8. ASSUME NEW s \in {Parse!Plain("ground"), Parse!Plain("esc"), Parse!Plain("CSI"), Parse!Plain("charset"), Parse!Plain("OSCEsc")},
             d.state = s, d.events = <<>>, Parse!ActiveKind(c0.state) = "none"
      PROVE  Counts(c0, b, d)
  <2>1. Parse!ActiveKind(s) = "none" /\ s # Parse!Plain("OSC") /\ s # Parse!In("DCS", "preamble")
    BY <1>4, <1>6
  <2> QED BY <2>1, <1>7, <1>8
<1>9. CASE c.state = Parse!Ground
  <2>1. d.events = <<>>
    <3>1. /\ c.state # Parse!Plain("esc") /\ c.state # Parse!Plain("CSI") /\ c.state # Parse!Plain("charset")
          /\ c.state # Parse!Plain("OSC") /\ c.state # Parse!Plain("OSCEsc")
      BY <1>4, <1>9
    <3>2. d = c \/ d = Parse!GroundByte(c, b)
      <4>1. b = "tail" => Parse!GroundByte(c, b) = c
        BY DEF Parse!GroundByte
      <4> QED BY <1>3, <1>9, <3>1, <4>1
    <3>3. Parse!GroundByte(c, b) = c \/ Parse!GroundByte(c, b) = Parse!To(c, Parse!Plain("esc"))
          \/ Parse!GroundByte(c, b) = [c EXCEPT !.rune = TRUE]
      BY DEF Parse!GroundByte
    <3>4. Parse!To(c, Parse!Plain("esc")).events = c.events
      BY <1>1, <1>4, Quiet
    <3>5. [c EXCEPT !.rune = TRUE].events = c.events
      BY <1>1 DEF Whole, Fields
    <3> QED BY <3>2, <3>3, <3>4, <3>5, <1>1
  <2>2. d.state \in {Parse!Ground, Parse!Plain("esc")}
    BY <1>0, <1>1, <1>9 DEF ByteMoves
  <2>3. Parse!ActiveKind(c0.state) = "none"
    BY <1>1, <1>4, <1>9
  <2> QED BY <2>1, <2>2, <2>3, <1>4, <1>8 DEF d
<1>10. CASE c.state # Parse!Ground
  <2>1. ~c0.rune
    BY <1>10, <1>1 DEF Collected
  <2>2. CASE c.state = Parse!Plain("esc")
    <3>1. d = Parse!Esc(c, b)
      BY <1>3, <1>4, <2>1, <2>2
    <3>2. /\ d.events = <<>>
          /\ d.state \in {Parse!In("APC", "payload"), Parse!In("DCS", "preamble")} => d.dcs = <<>> /\ d.chunk = 0
          /\ d.state = Parse!Plain("OSC") => d.osc = <<>>
      BY <3>1, <2>2, <1>1, EscTells
    <3>3. EscTo(b, d)
      BY <1>0, <1>1, <2>2 DEF ByteMoves
    <3>4. Parse!ActiveKind(c0.state) = "none"
      BY <1>1, <1>4, <2>2
    <3>5. Parse!ActiveKind(d.state) # "none" => d.state = Parse!In("APC", "payload")
      <4>1. d.state \in {Parse!Plain("esc"), Parse!Plain("OSC"), Parse!Ground, Parse!Plain("CSI"), Parse!Plain("charset"),
                         Parse!In("APC", "payload"), Parse!In("APC", "discard"),
                         Parse!In("DCS", "preamble"), Parse!In("DCS", "discard")}
        BY <3>3 DEF EscTo
      <4> QED BY <4>1 DEF Parse!ActiveKind, Parse!Plain, Parse!In, Parse!Ground
    <3>6. Parse!ActiveKind(d.state) # "none" => Opens(c0, b, d)
      BY <3>2, <3>5, <1>1, <2>2 DEF Opens
    <3> QED BY <3>2, <3>4, <3>6, <1>1, <1>6, <2>2 DEF Counts, d
  <2>3. CASE c.state \in {Parse!Plain("CSI"), Parse!Plain("charset")}
    <3>1. d = c \/ d = Parse!To(c, Parse!Ground)
      BY <1>3, <1>4, <2>1, <2>3
    <3>2. d.events = <<>>
      BY <3>1, <1>1, <1>4, Quiet
    <3>3. d.state \in {c.state, Parse!Ground}
      BY <1>0, <1>1, <2>3 DEF ByteMoves
    <3>4. Parse!ActiveKind(c0.state) = "none"
      BY <1>1, <1>4, <2>3
    <3> QED BY <3>2, <3>3, <3>4, <1>4, <1>8, <2>3 DEF d
  <2>4. CASE c.state = Parse!Plain("OSC")
    <3>1. d = Parse!OSC(c, b)
      BY <1>3, <1>4, <2>1, <2>4
    <3>2. /\ d.events = <<>>
          /\ d.state = Parse!In("OSC1337", "payload") => Len(c.osc) = 1 /\ d.chunk = 0
          /\ d.state = Parse!Plain("OSC") /\ Len(d.osc) < 2 => Len(c.osc) < 2 /\ Len(d.osc) = Len(c.osc) + 1
      BY <3>1, <2>4, <1>1, <1>2, OSCTells
    <3>3. OSCTo(c0, d)
      BY <1>0, <1>1, <2>4 DEF ByteMoves
    <3>4. Parse!ActiveKind(c0.state) = "none"
      BY <1>1, <1>4, <2>4
    <3>5. /\ Parse!ActiveKind(d.state) # "none" => d.state = Parse!In("OSC1337", "payload")
          /\ d.state # Parse!In("DCS", "preamble")
      BY <3>3 DEF OSCTo, Parse!ActiveKind, Plains, Parse!Plain, Parse!In, Parse!Ground
    <3>6. Parse!ActiveKind(d.state) # "none" => Opens(c0, b, d)
      BY <3>2, <3>5, <1>1, <2>4 DEF Opens
    <3> QED BY <3>2, <3>4, <3>5, <3>6, <1>1, <1>6, <2>4 DEF Counts, d
  <2>5. CASE c.state = Parse!Plain("OSCEsc")
    <3>1. d = Parse!OSCEscape(c, b)
      BY <1>3, <1>4, <2>1, <2>5
    <3>2. d.events = <<>>
      <4>1. d = Parse!To(c, Parse!Ground) \/ d = Parse!To(Parse!Collect(Parse!Collect(c, "ESC"), b), Parse!Plain("OSC"))
        BY <3>1 DEF Parse!OSCEscape
      <4>2. \A x : DOMAIN x = Fields => DOMAIN Parse!Collect(x, b) = Fields /\ Parse!Collect(x, b).events = x.events
        BY DEF Parse!Collect, Fields
      <4>3. DOMAIN Parse!Collect(c, "ESC") = Fields /\ Parse!Collect(c, "ESC").events = c.events
        BY <1>1 DEF Parse!Collect, Fields, Whole
      <4>4. \A x, s : DOMAIN x = Fields => Parse!To(x, s).events = x.events
        BY DEF Parse!To, Fields
      <4>5. DOMAIN c = Fields
        BY <1>1 DEF Whole
      <4> QED BY <4>1, <4>2, <4>3, <4>4, <4>5, <1>1
    <3>3. d.state = Parse!Ground \/ (d.state = Parse!Plain("OSC") /\ Len(d.osc) >= 2)
      BY <1>0, <1>1, <2>5 DEF ByteMoves
    <3>4. Parse!ActiveKind(c0.state) = "none"
      BY <1>1, <1>4, <2>5
    <3>5. Parse!ActiveKind(d.state) = "none" /\ d.state # Parse!In("DCS", "preamble")
          /\ (d.state = Parse!Plain("OSC") => Len(d.osc) >= 2)
      BY <3>3, <1>4, <1>6
    <3> QED BY <3>2, <3>4, <3>5, <1>7 DEF d
  <2>6. ASSUME NEW k \in Parse!Kinds, NEW p \in Frames, c.state = Parse!In(k, p)
        PROVE  Counts(c0, b, d)
    <3>1. d = Parse!ControlState(c, b)
      BY <1>3, <1>4, <2>1, <2>6, <1>10
    <3>2. FrameTo(k, p, b, d)
      BY <1>0, <1>1, <2>6 DEF ByteMoves
    <3>3. c.state.place = p
      BY <2>6 DEF Parse!In
    <3>4. d.state # Parse!In("DCS", "preamble") /\ d.state # Parse!Plain("OSC")
      BY <3>2 DEF FrameTo, Parse!Plain, Parse!In, Parse!Ground, Frames
    <3>5. CASE p \in {"payload", "esc"}
      <4>1. Tells(c, b, d, k)
        BY <3>1, <3>3, <3>5, <2>6, <1>1, PayloadTells, EscapeTells DEF Parse!ControlState
      <4>2. Tells(c0, b, d, k)
        BY <4>1, <1>1, TellsOf
      <4>3. Parse!ActiveKind(c0.state) = k
        BY <3>5, <2>6, <1>1, FramePlaces
      <4> QED BY <4>2, <4>3, <3>4, <1>6 DEF Counts
    <3>6. CASE p \in {"discard", "discardEsc"}
      <4>1. d = IF p = "discard" THEN Parse!Discard(c, b) ELSE Parse!DiscardEscape(c, b)
        BY <3>1, <3>3, <3>6 DEF Parse!ControlState
      <4>2. c.state.kind = k
        BY <2>6 DEF Parse!In
      <4>3. d = c \/ \E s \in {Parse!Ground, Parse!In(k, "discard"), Parse!In(k, "discardEsc")} : d = Parse!To(c, s)
        BY <4>1, <4>2 DEF Parse!Discard, Parse!DiscardEscape, Parse!Terminates
      <4>4. d.events = <<>>
        BY <4>3, <1>1, FramePlaces, Quiet
      <4>5. d.state \in {Parse!Ground, Parse!In(k, "discard"), Parse!In(k, "discardEsc")}
        <5>1. CASE d = c
          BY <5>1, <2>6, <3>6
        <5>2. CASE \E s \in {Parse!Ground, Parse!In(k, "discard"), Parse!In(k, "discardEsc")} : d = Parse!To(c, s)
          <6>1. {Parse!Ground, Parse!In(k, "discard"), Parse!In(k, "discardEsc")} \subseteq ParserStates
            BY <2>6, FramePlaces
          <6> QED BY <5>2, <6>1, <1>1, Quiet
        <5> QED BY <4>3, <5>1, <5>2
      <4>6. Parse!ActiveKind(d.state) = "none" /\ Parse!ActiveKind(c0.state) = "none"
        BY <4>5, <1>1, <2>6, <3>6, FramePlaces
      <4> QED BY <4>4, <4>6, <3>4, <1>7
    <3> QED BY <3>5, <3>6 DEF Frames
  <2>7. CASE c.state \in {Parse!In("DCS", "preamble"), Parse!In("DCS", "preambleEsc")}
    <3>1. d = Parse!ControlState(c, b)
      BY <1>3, <1>4, <2>1, <2>7, <1>10 DEF Parse!Kinds
    <3>2. /\ d.events = <<>>
          /\ d.state \in {Parse!In("DCS", "preamble"), Parse!In("DCS", "payload")} =>
                c.state = Parse!In("DCS", "preamble") /\ d.dcs = Append(c.dcs, b) /\ d.chunk = c.chunk
      BY <3>1, <2>7, <1>1, PreambleTells
    <3>3. PreambleTo(c0, b, d)
      BY <1>0, <1>1, <2>7 DEF ByteMoves
    <3>4. Parse!ActiveKind(c0.state) = "none"
      BY <1>1, <1>5, <1>6, <2>7
    <3>5. /\ Parse!ActiveKind(d.state) # "none" => d.state = Parse!In("DCS", "payload")
          /\ d.state # Parse!Plain("OSC")
      BY <3>3 DEF PreambleTo, Parse!ActiveKind, Parse!Plain, Parse!In, Parse!Ground
    <3>6. Parse!ActiveKind(d.state) # "none" => Opens(c0, b, d)
      BY <3>2, <3>5, <1>1 DEF Opens
    <3> QED BY <3>2, <3>4, <3>5, <3>6, <1>1, <1>6 DEF Counts, d
  <2> QED BY <2>2, <2>3, <2>4, <2>5, <2>6, <2>7, <1>1, <1>4, <1>10 DEF Whole, ParserStates, d
<1> QED BY <1>9, <1>10 DEF d

(* What an accepted byte does to the histories. *)
LEMMA AcceptRead ==
  ASSUME Parse!ParserAssumption, PubInv, NEW b \in Parse!Bytes, Parse!Accept(b)
  PROVE  /\ core' = Parse!AdvanceCore(core, b) /\ told' = Parse!Told(core')
         /\ Len(fate) \in Nat /\ Len(fate') = Len(fate) + 1
         /\ frame.from \in 0..Len(fate)
         /\ core'.state # Parse!Plain("esc") /\ core'.state # Parse!Ground => frame'.from = frame.from
         /\ ByteMoves(core, b, core') /\ Counts(core, b, core')
         /\ last' = IF b \in {"ESC", "\\", "BEL"} THEN b ELSE "x"
<1> DEFINE n == Len(fate)
<1>1. Kept(public, frame, fate, secret, n) /\ Whole(core) /\ Collected(core) /\ Began(core, frame, n)
  BY DEF PubInv
<1>2. n \in Nat /\ frame.from \in 0..n /\ DOMAIN frame = {"from", "selected"}
  BY <1>1 DEF Kept, Written, Sorted, Began
<1>3. /\ core' = Parse!AdvanceCore(core, b) /\ told' = Parse!Told(core')
      /\ Parse!Understood(core'.state, b, n + 1)
  <2>1. CASE Parse!AdvancePublic(b)
    BY <2>1, Zenon DEF Parse!AdvancePublic
  <2>2. CASE Parse!Advance(b)
    BY <2>2, Zenon DEF Parse!Advance
  <2> QED BY <2>1, <2>2 DEF Parse!Accept
<1>4. Len(fate') = n + 1
  BY AcceptKeeps, <1>1 DEF Parse!Accept, Parse!AdvancePublic, Parse!Advance, Parse!Emits, Kept, Written
<1>5. ByteMoves(core, b, core') /\ Counts(core, b, core')
  BY <1>1, <1>3, AdvanceMoves, AdvanceCounts
<1>6. core'.state # Parse!Plain("esc") /\ core'.state # Parse!Ground => frame'.from = frame.from
  BY <1>2, <1>3, FramesOf
<1>7. last' = IF b \in {"ESC", "\\", "BEL"} THEN b ELSE "x"
  BY DEF Parse!Accept
<1> QED BY <1>2, <1>3, <1>4, <1>5, <1>6, <1>7

LEMMA KindOfActive ==
  ASSUME NEW s, NEW k \in Parse!Kinds, Parse!ActiveKind(s) = k
  PROVE  s.kind = k /\ s # Parse!Ground /\ s # Parse!Plain("esc")
  BY DEF Parse!ActiveKind, Parse!Ground, Parse!Plain, Parse!In, Parse!Kinds

(* A string that is open counts on. *)
LEMMA OpenCounts ==
  ASSUME NEW c, NEW d, NEW f, NEW g, NEW n \in Nat, NEW t, f.from \in 0..n, g.from = f.from,
         Whole(c), StringCounted(c, f, n, t), NEW k \in Parse!Kinds, Parse!ActiveKind(c.state) = k, Parse!ActiveKind(d.state) = k,
         StringOpen(c, d, k, (1 + Pending(c.state)) - Pending(d.state))
  PROVE  StringCounted(d, g, n + 1, t + Parse!LengthOf(d.events))
<1>1. /\ Whole(d) /\ d.sink = c.sink /\ d.dcs = c.dcs /\ Blocks(d.events, k)
      /\ c.sink => Parse!LengthOf(d.events) + d.chunk = c.chunk + ((1 + Pending(c.state)) - Pending(d.state))
  BY DEF StringOpen
<1>2. Parse!LengthOf(d.events) \in Nat
  BY <1>1, LengthsAdd DEF Blocks
<1>3. d.state.kind = k /\ c.state.kind = k /\ k # "none"
  BY KindOfActive DEF Parse!Kinds
<1>4. IntroducerOf(d) = IntroducerOf(c) /\ IntroducerOf(c) \in Nat
  BY <1>1, <1>3 DEF IntroducerOf, Whole, Parse!Selector
<1>5. ReadOf(g, n + 1) = ReadOf(f, n) + 1 /\ ReadOf(f, n) \in Int
  BY DEF ReadOf
<1>6. /\ t \in Nat /\ (k = "APC" => c.dcs = <<>>)
      /\ c.sink => t + c.chunk = (ReadOf(f, n) - IntroducerOf(c)) - Pending(c.state)
  BY <1>3 DEF StringCounted
<1>7. Pending(c.state) \in {0, 1} /\ Pending(d.state) \in {0, 1} /\ c.chunk \in Nat /\ d.chunk \in Nat
  BY <1>1 DEF Pending, Whole
<1>8. c.sink => (t + Parse!LengthOf(d.events)) + d.chunk
                   = (ReadOf(g, n + 1) - IntroducerOf(d)) - Pending(d.state)
  <2>1. SUFFICES ASSUME c.sink
                 PROVE  (t + Parse!LengthOf(d.events)) + d.chunk
                           = (ReadOf(g, n + 1) - IntroducerOf(d)) - Pending(d.state)
    OBVIOUS
  <2> DEFINE x == Parse!LengthOf(d.events)
             y == d.chunk
             z == c.chunk
             r == ReadOf(f, n)
             r1 == ReadOf(g, n + 1)
             i == IntroducerOf(c)
             i1 == IntroducerOf(d)
             p == Pending(c.state)
             q == Pending(d.state)
  <2>2. x \in Int /\ y \in Int /\ z \in Int /\ r \in Int /\ i \in Int /\ p \in Int /\ q \in Int /\ t \in Int
    BY <1>2, <1>4, <1>5, <1>6, <1>7
  <2>3. t + z = (r - i) - p /\ x + y = z + ((1 + p) - q) /\ r1 = r + 1 /\ i1 = i
    BY <2>1, <1>1, <1>4, <1>5, <1>6
  <2> HIDE DEF x, y, z, r, r1, i, i1, p, q
  <2>4. (t + x) + y = (r1 - i1) - q
    BY <2>2, <2>3
  <2> QED BY <2>4 DEF x, y, r1, i1, q
<1>9. d.state # Parse!In("DCS", "preamble") /\ d.state # Parse!Plain("OSC")
  BY <1>3 DEF Parse!ActiveKind, Parse!In, Parse!Plain
<1>10. t + Parse!LengthOf(d.events) \in Nat
  BY <1>2, <1>6
<1> QED BY <1>1, <1>3, <1>6, <1>8, <1>9, <1>10 DEF StringCounted

(* A string that begins has its introducer behind it. *)
LEMMA OpensCounted ==
  ASSUME NEW c, NEW d, NEW f, NEW g, NEW n \in Nat, NEW t, f.from \in 0..n, g.from = f.from,
         Whole(c), Whole(d), Began(c, f, n), StringCounted(c, f, n, t), NEW b \in Parse!Bytes, Opens(c, b, d)
  PROVE  StringCounted(d, g, n + 1, 0)
<1>1. ReadOf(g, n + 1) = ReadOf(f, n) + 1 /\ ReadOf(f, n) \in Int /\ Len(Parse!Selector) = 2
  BY DEF ReadOf, Parse!Selector
<1>2. /\ d.chunk = 0 /\ IntroducerOf(d) = ReadOf(g, n + 1) /\ Pending(d.state) = 0
      /\ Parse!ActiveKind(d.state) = "APC" => d.dcs = <<>>
      /\ d.state # Parse!In("DCS", "preamble") /\ d.state # Parse!Plain("OSC") /\ Parse!ActiveKind(d.state) # "none"
  <2>1. CASE c.state = Parse!Plain("esc") /\ d.state = Parse!In("APC", "payload") /\ d.dcs = <<>> /\ d.chunk = 0
    <3>1. ReadOf(f, n) = 1
      BY <2>1 DEF Began, ReadOf
    <3>2. IntroducerOf(d) = 2
      BY <2>1 DEF IntroducerOf, Parse!In
    <3> QED BY <3>1, <3>2, <1>1, <2>1 DEF Pending, Parse!ActiveKind, Parse!In, Parse!Plain
  <2>2. CASE /\ c.state = Parse!Plain("OSC") /\ Len(c.osc) = 1 /\ d.state = Parse!In("OSC1337", "payload")
             /\ d.chunk = 0
    <3>1. ReadOf(f, n) = 3
      BY <2>2 DEF StringCounted
    <3>2. IntroducerOf(d) = 4
      BY <1>1, <2>2 DEF IntroducerOf, Parse!In
    <3> QED BY <3>1, <3>2, <1>1, <2>2 DEF Pending, Parse!ActiveKind, Parse!In, Parse!Plain
  <2>3. CASE /\ c.state = Parse!In("DCS", "preamble") /\ d.state = Parse!In("DCS", "payload")
             /\ d.dcs = Append(c.dcs, b) /\ d.chunk = c.chunk
    <3>1. ReadOf(f, n) = 2 + Len(c.dcs) /\ c.chunk = 0
      BY <2>3 DEF StringCounted
    <3>2. IntroducerOf(d) = 2 + (Len(c.dcs) + 1) /\ Len(c.dcs) \in Nat
      BY <2>3 DEF IntroducerOf, Parse!In, Whole
    <3> QED BY <3>1, <3>2, <1>1, <2>3 DEF Pending, Parse!ActiveKind, Parse!In, Parse!Plain
  <2> QED BY <2>1, <2>2, <2>3 DEF Opens
<1>3. 0 + d.chunk = (ReadOf(g, n + 1) - IntroducerOf(d)) - Pending(d.state)
  BY <1>1, <1>2
<1> QED BY <1>2, <1>3 DEF StringCounted

LEMMA CountsOn ==
  ASSUME NEW c, NEW d, NEW f, NEW g, NEW n \in Nat, NEW t, f.from \in 0..n,
         d.state # Parse!Plain("esc") /\ d.state # Parse!Ground => g.from = f.from,
         Whole(c), Whole(d), Began(c, f, n), StringCounted(c, f, n, t), NEW b \in Parse!Bytes, Counts(c, b, d)
  PROVE  StringCounted(d, g, n + 1, IF Parse!ActiveKind(d.state) = "none" THEN 0 ELSE t + Parse!LengthOf(d.events))
<1>1. /\ Parse!ActiveKind(c.state) \in Parse!Kinds \cup {"none"} /\ Parse!ActiveKind(d.state) \in Parse!Kinds \cup {"none"}
      /\ "none" \notin Parse!Kinds
  BY DEF Whole, ParserStates, Parse!ActiveKind, Parse!In, Parse!Plain, Parse!Kinds, Frames
<1>2. CASE Parse!ActiveKind(c.state) # "none" /\ Parse!ActiveKind(d.state) # "none"
  <2>1. PICK k \in Parse!Kinds : Parse!ActiveKind(c.state) = k
    BY <1>1, <1>2
  <2>2. Tells(c, b, d, k)
    BY <2>1 DEF Counts
  <2>3. Parse!ActiveKind(d.state) = k /\ StringOpen(c, d, k, (1 + Pending(c.state)) - Pending(d.state))
    BY <1>2, <2>2 DEF Tells
  <2>4. g.from = f.from
    BY <2>3, KindOfActive
  <2>5. StringCounted(d, g, n + 1, t + Parse!LengthOf(d.events))
    BY <2>1, <2>3, <2>4, OpenCounts
  <2> QED BY <2>5, <1>2
<1>3. CASE Parse!ActiveKind(c.state) = "none" /\ Parse!ActiveKind(d.state) # "none"
  <2>1. Opens(c, b, d) /\ d.events = <<>> /\ t = 0
    BY <1>3 DEF Counts, StringCounted
  <2>2. g.from = f.from
    BY <1>1, <1>3, KindOfActive
  <2>3. StringCounted(d, g, n + 1, 0)
    BY <2>1, <2>2, OpensCounted
  <2>4. t + Parse!LengthOf(d.events) = 0
    BY <2>1, LengthsAdd
  <2> QED BY <2>3, <2>4, <1>3
<1>4. CASE Parse!ActiveKind(d.state) = "none"
  <2>1. d.state = Parse!In("DCS", "preamble") => d.chunk = 0 /\ ReadOf(g, n + 1) = 2 + Len(d.dcs)
    <3>1. ASSUME d.state = Parse!In("DCS", "preamble") PROVE d.chunk = 0 /\ ReadOf(g, n + 1) = 2 + Len(d.dcs)
      <4>1. g.from = f.from
        BY <3>1 DEF Parse!In, Parse!Plain, Parse!Ground
      <4>2. ReadOf(g, n + 1) = ReadOf(f, n) + 1 /\ ReadOf(f, n) \in Int
        BY <4>1 DEF ReadOf
      <4>3. CASE c.state = Parse!Plain("esc") /\ d.dcs = <<>> /\ d.chunk = 0
        <5>1. ReadOf(f, n) = 1 /\ Len(d.dcs) = 0
          BY <4>3 DEF Began, ReadOf
        <5> QED BY <4>2, <4>3, <5>1
      <4>4. CASE c.state = Parse!In("DCS", "preamble") /\ d.dcs = Append(c.dcs, b) /\ d.chunk = c.chunk
        <5>1. ReadOf(f, n) = 2 + Len(c.dcs) /\ c.chunk = 0
          BY <4>4 DEF StringCounted
        <5>2. Len(d.dcs) = Len(c.dcs) + 1 /\ Len(c.dcs) \in Nat
          BY <4>4 DEF Whole
        <5> QED BY <4>2, <4>4, <5>1, <5>2
      <4> QED BY <3>1, <4>3, <4>4 DEF Counts
    <3> QED BY <3>1
  <2>2. d.state = Parse!Plain("OSC") /\ Len(d.osc) < 2 => ReadOf(g, n + 1) = 2 + Len(d.osc)
    <3>1. ASSUME d.state = Parse!Plain("OSC"), Len(d.osc) < 2 PROVE ReadOf(g, n + 1) = 2 + Len(d.osc)
      <4>1. g.from = f.from
        BY <3>1 DEF Parse!In, Parse!Plain, Parse!Ground
      <4>2. ReadOf(g, n + 1) = ReadOf(f, n) + 1 /\ ReadOf(f, n) \in Int
        BY <4>1 DEF ReadOf
      <4>3. CASE c.state = Parse!Plain("esc") /\ d.osc = <<>>
        <5>1. ReadOf(f, n) = 1 /\ Len(d.osc) = 0
          BY <4>3 DEF Began, ReadOf
        <5> QED BY <4>2, <5>1
      <4>4. CASE c.state = Parse!Plain("OSC") /\ Len(c.osc) < 2 /\ Len(d.osc) = Len(c.osc) + 1
        <5>1. ReadOf(f, n) = 2 + Len(c.osc) /\ Len(c.osc) \in Nat
          BY <4>4 DEF StringCounted, Whole
        <5> QED BY <4>2, <4>4, <5>1
      <4> QED BY <3>1, <4>3, <4>4 DEF Counts
    <3> QED BY <3>1
  <2>3. StringCounted(d, g, n + 1, 0)
    BY <1>4, <2>1, <2>2 DEF StringCounted
  <2> QED BY <1>4, <2>3
<1> QED BY <1>2, <1>3, <1>4

(* The byte that closes an open string closes it once, with its length. *)
LEMMA FinalsOf ==
  /\ \A ev, k : Blocks(ev, k) =>
        {i \in DOMAIN ev : ev[i].final} = {} /\ \A i \in DOMAIN ev : ev[i].kind = k
  /\ \A ev, e, k : Blocks(ev, k) /\ e \in Events /\ e.kind = k /\ e.final =>
        LET x == Append(ev, e)
        IN  /\ {i \in DOMAIN x : x[i].final} = {Len(ev) + 1} /\ x[Len(ev) + 1] = e
            /\ \A i \in DOMAIN x : x[i].kind = k
<1>1. ASSUME NEW ev, NEW k, Blocks(ev, k)
      PROVE  {i \in DOMAIN ev : ev[i].final} = {} /\ \A i \in DOMAIN ev : ev[i].kind = k
  BY <1>1 DEF Blocks
<1>2. ASSUME NEW ev, NEW e \in Events, NEW k, Blocks(ev, k), e.kind = k, e.final
      PROVE  LET x == Append(ev, e)
             IN  /\ {i \in DOMAIN x : x[i].final} = {Len(ev) + 1} /\ x[Len(ev) + 1] = e
                 /\ \A i \in DOMAIN x : x[i].kind = k
  <2> DEFINE x == Append(ev, e)
             n == Len(ev)
  <2>1. /\ DOMAIN x = 1..(n + 1) /\ n \in Nat /\ DOMAIN ev = 1..n
        /\ \A i \in 1..n : x[i] = ev[i]
        /\ x[n + 1] = e
    BY <1>2 DEF Blocks
  <2>2. \A i \in 1..n : ev[i].kind = k /\ ~ev[i].final
    BY <1>2, <2>1 DEF Blocks
  <2> HIDE DEF x, n
  <2>3. \A i \in 1..(n + 1) : i = n + 1 \/ i \in 1..n
    BY <2>1
  <2>4. n + 1 \in 1..(n + 1)
    BY <2>1
  <2>5. {i \in DOMAIN x : x[i].final} = {n + 1} /\ \A i \in DOMAIN x : x[i].kind = k
    BY <1>2, <2>1, <2>2, <2>3, <2>4
  <2> QED BY <2>1, <2>5 DEF x, n
<1> QED BY <1>1, <1>2

LEMMA CountsOf == Parse!Cardinality({}) = 0 /\ \A x : Parse!Cardinality({x}) = 1
  BY FS_EmptySet, FS_Singleton DEF Parse!Cardinality, Cardinality

LEMMA NoEvents ==
  ASSUME core'.events = <<>>,
         Parse!ActiveKind(core.state) # "none" /\ core.sink => Parse!ActiveKind(core'.state) # "none"
  PROVE  Ends
<1> DEFINE finals == {k \in DOMAIN core'.events : core'.events[k].final}
<1>1. DOMAIN core'.events = {} /\ finals = {}
  OBVIOUS
<1>2. Parse!Cardinality(finals) = 0
  BY <1>1, CountsOf
<1> QED BY <1>1, <1>2 DEF Ends

LEMMA AcceptEnds ==
  ASSUME Parse!ParserAssumption, FrameInv, NEW b \in Parse!Bytes, Parse!Accept(b)
  PROVE  Ends
<1> DEFINE c == core
           d == core'
           n == Len(fate)
           finals == {i \in DOMAIN core'.events : core'.events[i].final}
<1>1. /\ Len(fate) \in Nat /\ Len(fate') = n + 1 /\ frame.from \in 0..n
      /\ Counts(core, b, core') /\ ByteMoves(core, b, core')
      /\ last' = IF b \in {"ESC", "\\", "BEL"} THEN b ELSE "x"
  BY AcceptRead DEF FrameInv
<1>2. Whole(core) /\ StringCounted(core, frame, n, told)
  BY DEF FrameInv, PubInv
<1>3. /\ Parse!ActiveKind(core.state) \in Parse!Kinds \cup {"none"} /\ "none" \notin Parse!Kinds
  BY <1>2 DEF Whole, ParserStates, Parse!ActiveKind, Parse!In, Parse!Plain, Parse!Kinds, Frames
<1>4. CASE Parse!ActiveKind(core.state) = "none"
  BY <1>1, <1>4, NoEvents DEF Counts
<1>5. ASSUME NEW k \in Parse!Kinds, Parse!ActiveKind(core.state) = k
      PROVE  Ends
  <2>1. Tells(core, b, core', k) /\ k # "none"
    BY <1>1, <1>3, <1>5 DEF Counts
  <2>2. CASE Parse!ActiveKind(core'.state) = k
    <3>1. Blocks(core'.events, k)
      BY <2>1, <2>2 DEF Tells, StringOpen
    <3>2. finals = {} /\ \A i \in DOMAIN core'.events : core'.events[i].kind = k
      BY <3>1, FinalsOf
    <3>3. Parse!Cardinality(finals) = 0
      BY <3>2, CountsOf
    <3> QED BY <1>5, <2>1, <2>2, <3>2, <3>3 DEF Ends
  <2>3. CASE Parse!ActiveKind(core'.state) = "none"
    <3> DEFINE m == (1 + Pending(core.state)) - (IF b = "BEL" THEN 1 ELSE 2)
    <3>1. StringClosed(core, core', k, m)
      BY <2>1, <2>3 DEF Tells
    <3>2. CASE ~core.sink
      BY <3>1, <3>2, NoEvents DEF StringClosed
    <3>3. CASE core.sink
      <4>1. PICK ev, e : /\ Blocks(ev, k) /\ e \in Events /\ e.kind = k /\ e.final
                         /\ core'.events = Append(ev, e)
                         /\ e.cancelled \/ Parse!LengthOf(core'.events) = core.chunk + m
        BY <3>1, <3>3 DEF StringClosed
      <4>2. /\ finals = {Len(ev) + 1} /\ core'.events[Len(ev) + 1] = e
            /\ \A i \in DOMAIN core'.events : core'.events[i].kind = k
        BY <4>1, FinalsOf
      <4>3. Parse!Cardinality(finals) = 1
        BY <4>2, CountsOf
      <4>4. ASSUME Parse!LengthOf(core'.events) = core.chunk + m
            PROVE  told + Parse!LengthOf(core'.events) = Parse!Body
        <5> DEFINE i == IntroducerOf(core)
                   r == ReadOf(frame, n)
                   p == Pending(core.state)
                   t == IF b = "BEL" THEN 1 ELSE 2
                   o == frame.from
                   z == core.chunk
                   x == Parse!LengthOf(core'.events)
        <5>1. told \in Nat /\ told + z = (r - i) - p
          BY <1>2, <1>5, <2>1, <3>3 DEF StringCounted
        <5>2. i \in Int /\ p \in Int /\ z \in Int /\ t \in Int
          BY <1>2 DEF IntroducerOf, Pending, Whole, Parse!Selector
        <5>3. r = (n - o) + 1 /\ o \in Int
          BY <1>1 DEF ReadOf
        <5>4. Parse!Introducer = i /\ x = z + m
          BY <4>4 DEF Parse!Introducer, IntroducerOf
        <5>5. (IF last' = "BEL" THEN 1 ELSE 2) = t
          BY <1>1
        <5>6. Parse!Body = Len(fate') - o + 1 - i - t
          BY <5>4, <5>5 DEF Parse!Body
        <5>7. m = (1 + p) - t /\ n \in Int /\ Len(fate') = n + 1
          BY <1>1
        <5> HIDE DEF i, r, p, t, m, n, o, x, z
        <5>8. Parse!Body = (n + 1) - o + 1 - i - t
          BY <5>6, <5>7
        <5>9. told + x = (n + 1) - o + 1 - i - t
          BY <5>1, <5>2, <5>3, <5>4, <5>7
        <5> QED BY <5>8, <5>9 DEF x
      <4> HIDE DEF m
      <4>5. \A x \in finals : core'.events[x].cancelled \/ told + Parse!LengthOf(core'.events) = Parse!Body
        BY <4>1, <4>2, <4>4
      <4> QED BY <1>5, <2>1, <2>3, <3>3, <4>2, <4>3, <4>5 DEF Ends
    <3> QED BY <3>2, <3>3
  <2> QED BY <2>1, <2>2, <2>3 DEF Tells
<1> QED BY <1>3, <1>4, <1>5

(* After an ESC the parser is where the string may end. *)
LEMMA EscapePlaces ==
  ASSUME NEW c, Whole(c), Collected(c), Parse!ParserAssumption, NEW b \in Parse!Bytes, b = "ESC",
         NEW d, d = Parse!AdvanceCore(c, b), ByteMoves(c, b, d)
  PROVE  d.state.kind \in Parse!Kinds => d.state.place \in {"esc", "discardEsc", "preambleEsc"}
<1>1. \A n \in {"ground", "esc", "CSI", "charset", "OSC", "OSCEsc"} : Parse!Plain(n).kind \notin Parse!Kinds
  BY DEF Parse!Plain, Parse!In, Parse!Kinds
<1>2. CASE c.state \in {Parse!Ground, Parse!Plain("esc"), Parse!Plain("CSI"), Parse!Plain("charset"), Parse!Plain("OSCEsc")}
  <2>1. d.state \in {Parse!Ground, Parse!Plain("esc"), Parse!Plain("CSI"), Parse!Plain("charset"), Parse!Plain("OSC")}
    BY <1>2 DEF ByteMoves, EscTo
  <2> QED BY <1>1, <2>1 DEF Parse!Ground
<1>3. CASE c.state = Parse!Plain("OSC")
  <2> DEFINE x == [c EXCEPT !.events = <<>>, !.rune = FALSE]
  <2>1. Whole(x) /\ x.state = Parse!Plain("OSC") /\ x.osc # Parse!Selector /\ (x.truncated => Len(x.osc) >= 2)
    BY <1>3 DEF Whole, Fields, Collected, Plains
  <2>2. /\ Parse!Plain("OSC") # Parse!Ground /\ Parse!Plain("OSC") # Parse!Plain("esc") /\ Parse!Plain("OSC") # Parse!Plain("CSI")
        /\ Parse!Plain("OSC") # Parse!Plain("charset")
    BY DEF Parse!Plain, Parse!In, Parse!Ground
  <2>3. d = Parse!OSC(x, b)
    <3>1. d = CASE c.rune /\ b = "tail" -> x
            [] x.state = Parse!Ground -> Parse!GroundByte(x, b)
            [] x.state = Parse!Plain("esc") -> Parse!Esc(x, b)
            [] x.state = Parse!Plain("CSI") -> IF b \in {"0", "k", "("} THEN x ELSE Parse!To(x, Parse!Ground)
            [] x.state = Parse!Plain("charset") -> Parse!To(x, Parse!Ground)
            [] x.state = Parse!Plain("OSC") -> Parse!OSC(x, b)
            [] x.state = Parse!Plain("OSCEsc") -> Parse!OSCEscape(x, b)
            [] OTHER -> Parse!ControlState(x, b)
      BY Zenon DEF Parse!AdvanceCore
    <3> HIDE DEF x
    <3>2. Parse!Plain("OSC") # Parse!Plain("OSCEsc")
      BY DEF Parse!Plain, Parse!In
    <3> QED BY <2>1, <2>2, <3>1, <3>2
  <2> HIDE DEF x
  <2>4. d = Parse!To(x, Parse!Plain("OSCEsc"))
    <3> DEFINE y == Parse!Collect(x, b)
    <3>1. /\ Len(x.osc) < 2 => y.osc = Append(x.osc, b)
          /\ Len(x.osc) >= 2 => y.osc # Parse!Selector
      BY <2>1, CollectedOn
    <3>2. Len(x.osc) \in Nat /\ x.osc \in Seq(Parse!Bytes)
      BY <2>1 DEF Whole
    <3> HIDE DEF y
    <3>3. Append(x.osc, b) # Parse!Selector
      <4>1. Append(x.osc, b)[Len(x.osc) + 1] = "ESC" /\ Len(Append(x.osc, b)) = Len(x.osc) + 1
        BY <3>2
      <4>2. Len(Parse!Selector) = 2 /\ Parse!Selector[1] = "k" /\ Parse!Selector[2] = "k"
        BY DEF Parse!Selector
      <4>3. \A n \in Nat : n + 1 = 2 => n + 1 \in {1, 2}
        OBVIOUS
      <4> QED BY <3>2, <4>1, <4>2, <4>3
    <3>4. y.osc # Parse!Selector
      BY <3>1, <3>2, <3>3
    <3>5. b # "BEL"
      OBVIOUS
    <3> QED BY <2>3, <3>4, <3>5 DEF Parse!OSC, y
  <2>5. d.state = Parse!Plain("OSCEsc")
    BY <2>1, <2>4, Quiet, PlainStates
  <2> QED BY <1>1, <2>5
<1>4. ASSUME NEW k \in Parse!Kinds, NEW p \in Frames, c.state = Parse!In(k, p)
      PROVE  d.state.place \in {"esc", "discardEsc", "preambleEsc"}
  <2>1. d.state \in {Parse!In(k, "esc"), Parse!In(k, "discardEsc")}
    BY <1>4 DEF ByteMoves, FrameTo
  <2> QED BY <2>1 DEF Parse!In
<1>5. CASE c.state \in {Parse!In("DCS", "preamble"), Parse!In("DCS", "preambleEsc")}
  <2>1. d.state \in {Parse!In("DCS", "preambleEsc"), Parse!In("DCS", "discardEsc")}
    BY <1>5 DEF ByteMoves, PreambleTo
  <2> QED BY <2>1 DEF Parse!In
<1> QED BY <1>2, <1>3, <1>4, <1>5 DEF Whole, ParserStates, Parse!Ground

LEMMA AcceptCounted ==
  ASSUME Parse!ParserAssumption, FrameInv, NEW b \in Parse!Bytes, Parse!Accept(b)
  PROVE  FrameInv' /\ Terminated
<1> DEFINE n == Len(fate)
<1>1. /\ core' = Parse!AdvanceCore(core, b) /\ told' = Parse!Told(core')
      /\ n \in Nat /\ Len(fate') = n + 1 /\ frame.from \in 0..n
      /\ core'.state # Parse!Plain("esc") /\ core'.state # Parse!Ground => frame'.from = frame.from
      /\ ByteMoves(core, b, core') /\ Counts(core, b, core')
      /\ last' = IF b \in {"ESC", "\\", "BEL"} THEN b ELSE "x"
  BY AcceptRead DEF FrameInv
<1>2. Whole(core) /\ Collected(core) /\ Began(core, frame, n) /\ StringCounted(core, frame, n, told) /\ Ended
  BY DEF FrameInv, PubInv
<1>3. PubInv'
  BY AcceptKeeps DEF FrameInv
<1>4. StringCounted(core', frame', n + 1, IF Parse!ActiveKind(core'.state) = "none" THEN 0 ELSE told + Parse!LengthOf(core'.events))
  <2>1. Whole(core')
    BY <1>1 DEF ByteMoves
  <2> HIDE DEF n
  <2> QED BY <1>1, <1>2, <2>1, CountsOn
<1>5. StringCounted(core, frame, Len(fate), told)'
  <2>1. told' = IF Parse!ActiveKind(core'.state) = "none" THEN 0 ELSE told + Parse!LengthOf(core'.events)
    BY <1>1 DEF Parse!Told
  <2> QED BY <1>1, <1>4, <2>1
<1>6. Ended'
  <2>1. last' = "ESC" => b = "ESC"
    BY <1>1
  <2>2. b = "ESC" /\ core'.state.kind \in Parse!Kinds => core'.state.place \in {"esc", "discardEsc", "preambleEsc"}
    BY <1>1, <1>2, EscapePlaces
  <2> QED BY <2>1, <2>2 DEF Ended
<1>7. Terminated
  <2> SUFFICES ASSUME last = "ESC", last' = "\\", core.state.kind \in Parse!Kinds
               PROVE  core'.state = Parse!Ground
    BY DEF Terminated
  <2>1. b = "\\"
    BY <1>1
  <2>2. core.state.place \in {"esc", "discardEsc", "preambleEsc"}
    BY <1>2 DEF Ended
  <2>3. \/ \E k \in Parse!Kinds, p \in Frames : core.state = Parse!In(k, p)
        \/ core.state \in {Parse!In("DCS", "preamble"), Parse!In("DCS", "preambleEsc")}
    <3>1. \A x \in {"ground", "esc", "CSI", "charset", "OSC", "OSCEsc"} : Parse!Plain(x).kind \notin Parse!Kinds
      BY DEF Parse!Plain, Parse!In, Parse!Kinds
    <3> QED BY <1>2, <3>1 DEF Whole, ParserStates
  <2>4. ASSUME NEW k \in Parse!Kinds, NEW p \in Frames, core.state = Parse!In(k, p) PROVE core'.state = Parse!Ground
    <3>1. p \in {"esc", "discardEsc"}
      BY <2>2, <2>4 DEF Parse!In, Frames
    <3>2. FrameTo(k, p, b, core')
      BY <1>1, <2>4 DEF ByteMoves
    <3> QED BY <2>1, <3>1, <3>2 DEF FrameTo
  <2>5. CASE core.state \in {Parse!In("DCS", "preamble"), Parse!In("DCS", "preambleEsc")}
    <3>1. core.state = Parse!In("DCS", "preambleEsc")
      BY <2>2, <2>5 DEF Parse!In
    <3>2. PreambleTo(core, b, core')
      BY <1>1, <2>5 DEF ByteMoves
    <3> QED BY <2>1, <3>1, <3>2 DEF PreambleTo
  <2> QED BY <2>3, <2>4, <2>5
<1> QED BY <1>3, <1>5, <1>6, <1>7 DEF FrameInv

(* A reset cancels the open string, and tells nothing otherwise. *)
LEMMA ResetEnds ==
  ASSUME FrameInv, Parse!Reset \/ Parse!EndOfInputPublic
  PROVE  FrameInv' /\ Ends /\ Terminated
<1>1. core' = Parse!ResetCore(core) /\ frame' = Parse!NoFrame /\ told' = 0 /\ last' = "x"
  BY DEF Parse!Reset, Parse!EndOfInputPublic
<1>2. Whole(core) /\ PubInv
  BY DEF FrameInv, PubInv
<1>3. PubInv' /\ Whole(core')
  BY <1>2, ResetKeeps DEF PubInv
<1>4. core'.state = Parse!Ground
  BY <1>1, <1>2, ResetWhole
<1>5. Parse!ActiveKind(core'.state) = "none" /\ core'.state # Parse!In("DCS", "preamble") /\ core'.state # Parse!Plain("OSC")
      /\ core'.state.kind \notin Parse!Kinds
  BY <1>4 DEF Parse!ActiveKind, Parse!Ground, Parse!Plain, Parse!In, Parse!Kinds
<1>6. StringCounted(core, frame, Len(fate), told)'
  BY <1>1, <1>5, Zenon DEF StringCounted
<1>7. Ended' /\ Terminated
  BY <1>1 DEF Ended, Terminated
<1>8. Ends
  <2> DEFINE c == [core EXCEPT !.events = <<>>]
             k == Parse!ActiveKind(c.state)
             d == IF k # "none" THEN Parse!Cancel(c, k) ELSE Parse!To(Parse!Idle(c), Parse!Ground)
  <2>1. Whole(c) /\ c.state = core.state /\ c.events = <<>> /\ c.sink = core.sink
    BY <1>2 DEF Whole, Fields
  <2>2. core' = [d EXCEPT !.rune = FALSE, !.osc = <<>>, !.truncated = FALSE]
    BY <1>1, Zenon DEF Parse!ResetCore
  <2>3. k \in Parse!Kinds \cup {"none"} /\ "none" \notin Parse!Kinds /\ k = Parse!ActiveKind(core.state)
    BY <1>2, <2>1 DEF Whole, ParserStates, Parse!ActiveKind, Parse!In, Parse!Plain, Parse!Kinds, Frames
  <2>4. DOMAIN d = Fields => core'.events = d.events
    BY <2>2 DEF Fields
  <2>5. CASE k = "none"
    <3>1. d = Parse!To(Parse!Idle(c), Parse!Ground)
      BY <2>5
    <3> HIDE DEF c, k, d
    <3>2. d.events = <<>> /\ DOMAIN d = Fields
      BY <3>1, <2>1, FrameStates, IdleWhole, ToWhole, Quiet, PlainStates DEF Whole
    <3> QED BY <2>3, <2>4, <2>5, <3>2, NoEvents
  <2>6. CASE k # "none"
    <3> DEFINE e == Parse!Event(k, 0, TRUE, TRUE)
               finals == {i \in DOMAIN core'.events : core'.events[i].final}
    <3>1. d = Parse!Cancel(c, k)
      BY <2>6
    <3> HIDE DEF c, k, d
    <3>2. /\ k \in Parse!Kinds /\ e \in Events /\ e.kind = k /\ e.final /\ e.cancelled
      BY <2>3, <2>6, EventsOf
    <3> HIDE DEF e
    <3>3. DOMAIN d = Fields /\ d.events = IF core.sink THEN Append(<<>>, e) ELSE <<>>
      <4>1. d = Parse!To(Parse!Idle(Parse!Tell(c, e)), Parse!Ground)
        BY <3>1, Zenon DEF Parse!Cancel, e
      <4>2. Whole(Parse!Tell(c, e)) /\ Parse!Tell(c, e).events = IF core.sink THEN Append(<<>>, e) ELSE <<>>
        <5>1. Whole(Parse!Tell(c, e))
          BY <2>1, TellWhole
        <5>2. Parse!Tell(c, e).events = IF core.sink THEN Append(<<>>, e) ELSE <<>>
          BY <2>1 DEF Parse!Tell, Whole, Fields
        <5> QED BY <5>1, <5>2
      <4>3. Parse!Ground \in ParserStates
        BY PlainStates
      <4>4. Parse!To(Parse!Idle(Parse!Tell(c, e)), Parse!Ground).events = Parse!Tell(c, e).events
        BY <4>2, <4>3, Quiet
      <4>5. Whole(d)
        BY <4>1, <4>2, <4>3, IdleWhole, ToWhole
      <4> QED BY <4>1, <4>2, <4>4, <4>5 DEF Whole
    <3>4. CASE ~core.sink
      BY <2>4, <3>3, <3>4, NoEvents
    <3>5. CASE core.sink
      <4>1. Blocks(<<>>, k)
        BY OpenSelf DEF Blocks
      <4>2. core'.events = Append(<<>>, e)
        BY <2>4, <3>3, <3>5
      <4>3. /\ finals = {Len(<<>>) + 1} /\ core'.events[Len(<<>>) + 1] = e
            /\ \A i \in DOMAIN core'.events : core'.events[i].kind = k
        BY <3>2, <4>1, <4>2, FinalsOf
      <4>4. Parse!Cardinality(finals) = 1
        BY <4>3, CountsOf
      <4>5. \A i \in finals : core'.events[i].cancelled
        BY <3>2, <4>3
      <4> QED BY <1>5, <2>3, <3>2, <3>5, <4>3, <4>4, <4>5 DEF Ends
    <3> QED BY <3>4, <3>5
  <2> QED BY <2>5, <2>6
<1> QED BY <1>3, <1>6, <1>7, <1>8 DEF FrameInv

LEMMA InitCounted ==
  ASSUME Parse!Init
  PROVE  FrameInv
<1>1. core = Parse!NewCore /\ told = 0 /\ last = "x"
  BY DEF Parse!Init
<1>2. core.state = Parse!Ground
  BY <1>1 DEF Parse!NewCore
<1>3. Parse!ActiveKind(core.state) = "none" /\ core.state # Parse!In("DCS", "preamble") /\ core.state # Parse!Plain("OSC")
  BY <1>2 DEF Parse!ActiveKind, Parse!Ground, Parse!Plain, Parse!In, Parse!Kinds
<1>4. StringCounted(core, frame, Len(fate), told) /\ Ended
  BY <1>1, <1>3 DEF StringCounted, Ended
<1> QED BY <1>4, InitKept DEF FrameInv

(* Every step keeps the invariant and is what the properties say. *)
LEMMA FrameStep ==
  ASSUME Parse!ParserAssumption, FrameInv, Parse!Next
  PROVE  FrameInv' /\ Ends /\ Terminated
<1>1. ASSUME NEW b \in Parse!Bytes, Parse!Accept(b) PROVE FrameInv' /\ Ends /\ Terminated
  BY <1>1, AcceptEnds, AcceptCounted
<1>2. CASE Parse!Reset \/ Parse!EndOfInputPublic
  BY <1>2, ResetEnds
<1> QED BY <1>1, <1>2 DEF Parse!Next, Parse!Input

LEMMA FrameStutter ==
  ASSUME FrameInv, UNCHANGED parserVars
  PROVE  FrameInv'
<1>1. /\ core' = core /\ public' = public /\ redacted' = redacted /\ fate' = fate /\ last' = last
      /\ told' = told /\ secret' = secret /\ frame' = frame
  BY DEF parserVars
<1>2. Probing(public.mode, core, frame, Len(fate))'
  BY <1>1 DEF FrameInv, PubInv, Probing
<1>3. PubInv'
  BY <1>1, <1>2 DEF FrameInv, PubInv
<1>4. StringCounted(core, frame, Len(fate), told)' /\ Ended'
  BY <1>1 DEF FrameInv, Ended
<1> QED BY <1>3, <1>4 DEF FrameInv

(* FrameInv is an invariant of the steps of the other components too.       *)
LEMMA FrameEveryStep ==
  ASSUME FrameInv, [StoreStep \/ TerminalStep \/ BudgetStep \/ ParserStep]_allVars
  PROVE  FrameInv' /\ (UNCHANGED parserVars \/ (Ends /\ Terminated))
<1>1. CASE ParserStep
  <2>1. Byte => Parse!Input
    <3>1. \A i \in DOMAIN Alphabet : Alphabet[i] \cup {"ESC", "\\", "BEL"} \subseteq Parse!Bytes
      <4>1. /\ DOMAIN Alphabet = {"APC", "DCS", "OSC1337"}
            /\ Alphabet["APC"] = {"_", "G", "CAN", "x"} /\ Alphabet["OSC1337"] = {"]", "k"}
            /\ Alphabet["DCS"] = {"P", "0", "q", "CAN", "x"}
        BY DEF Alphabet
      <4>2. {"_", "G", "CAN", "x", "]", "k", "P", "0", "q", "ESC", "\\", "BEL"} \subseteq Parse!Bytes
        BY DEF Parse!Bytes
      <4> QED BY <4>1, <4>2
    <3>2. component \in DOMAIN Alphabet \/ component = "mixed"
      BY <1>1 DEF ParserStep, Inputs
    <3> QED BY <3>1, <3>2, Zenon DEF Byte, Parse!Input
  <2>2. Parse!Next
    BY <1>1, <2>1, Zenon DEF ParserStep, Parse!Next
  <2> QED BY <2>2, FrameStep, FrameAssumption
<1>2. CASE UNCHANGED parserVars
  BY <1>2, FrameStutter
<1>3. StoreStep \/ TerminalStep \/ BudgetStep \/ UNCHANGED allVars => UNCHANGED parserVars
  BY Zenon DEF StoreStep, TerminalStep, BudgetStep, allVars
<1> QED BY <1>1, <1>2, <1>3

(* However chunks of Advance and AdvancePublic alternate and wherever the   *)
(* input is reset, for any input and any limits: no byte of a selected      *)
(* image frame is published, every other public byte is, in the order of    *)
(* the input, and bytes are deferred only into an empty buffer.             *)
THEOREM PublicAlwaysExact == MCSpec => []PublicExact
<1>1. MCInit => FrameInv
  BY InitCounted DEF MCInit
<1>2. FrameInv /\ [StoreStep \/ TerminalStep \/ BudgetStep \/ ParserStep]_allVars => FrameInv'
  BY FrameEveryStep
<1>3. FrameInv => PublicExact
  BY KeptIsExact DEF FrameInv, PublicExact
<1> QED BY <1>1, <1>2, <1>3, PTL DEF MCSpec

(* For any input and any limits, a string whose beginning was handed over   *)
(* is ended exactly once, told whole unless it was cancelled, and ESC \     *)
(* ends every control string, whatever ESC came before.                     *)
THEOREM FramesAlwaysEnd == MCSpec => FramesEnd
<1>1. MCInit => FrameInv
  BY InitCounted DEF MCInit
<1>2. FrameInv /\ [StoreStep \/ TerminalStep \/ BudgetStep \/ ParserStep]_allVars => FrameInv'
  BY FrameEveryStep
<1>3. FrameInv /\ [StoreStep \/ TerminalStep \/ BudgetStep \/ ParserStep]_allVars
      => [Ends]_parserVars /\ [Terminated]_parserVars
  BY FrameEveryStep
<1>4. [][Ends]_parserVars => Parse!FramesEnd
  BY PTL DEF Parse!FramesEnd, Ends, Parse!vars, parserVars
<1>5. [][Terminated]_parserVars => Parse!TerminatorEnds
  BY PTL DEF Parse!TerminatorEnds, Terminated, Parse!vars, parserVars
<1> QED BY <1>1, <1>2, <1>3, <1>4, <1>5, PTL DEF MCSpec, FramesEnd
==============================================================================
