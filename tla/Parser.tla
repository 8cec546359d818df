------------------------------- MODULE Parser -------------------------------
(***************************************************************************)
(* The escape sequence parser (internal/vt): its states, the frames of the *)
(* three control strings it hands to the image protocols, and the public   *)
(* projection, which repeats the input of a pane without selected image    *)
(* frames.  The parser takes one byte after another, whatever the chunks   *)
(* are; a byte is one of Bytes, where "k" "k" stands for 1337; and "0" "q" *)
(* for the longer preambles of a Sixel string.  What a finished CSI, OSC   *)
(* or ESC sequence does to the terminal is left to the terminal's modules. *)
(***************************************************************************)
EXTENDS Integers, Sequences, FiniteSets, Functions

CONSTANTS MaxString,   \* maxControlStringLen
          MaxChunk,    \* maxControlStringChunk
          MaxOSC,      \* maxOSCLen
          MaxBytes     \* bound on the input

Bytes == {"ESC", "[", "]", "_", "P", "\\", "BEL", "CAN", "(", "G", "q", "0", "k", "x", "lead", "tail"}
Kinds == {"APC", "DCS", "OSC1337"}
Selector == <<"k", "k">>

ParserAssumption ==
    /\ MaxString \in Nat \ {0} /\ MaxString >= Len(Selector) /\ MaxChunk \in Nat \ {0}
    /\ MaxOSC \in Nat /\ MaxOSC >= Len(Selector) /\ MaxBytes \in Nat

VARIABLES
    core,      \* the state of the parser proper
    public,    \* the projection: mode, hold, deferred
    sink,      \* whether a sink is installed
    redacted,  \* the kinds SetPublicOutputRedaction selects
    fate,      \* history: what became of each byte of the input
    last,      \* history: the last byte, if it may belong to a terminator
    told,      \* history: how much of the open string the sink has got
    secret,    \* history: the bytes of selected image frames
    frame      \* history: where the sequence that is open began, and if it is selected

vars == <<core, public, sink, redacted, fate, last, told, secret, frame>>

-----------------------------------------------------------------------------
(* The parser proper: functions from a core to a core. *)

In(kind, place) == [kind |-> kind, place |-> place]     \* a control string state
Plain(name) == In(name, "none")
Ground == Plain("ground")

ActiveKind(state) == IF state.place \in {"payload", "esc"} THEN state.kind ELSE "none"
InFrame(state, kind) == state.kind = kind /\ state.place \in {"payload", "esc", "discard", "discardEsc"}

Idle(c) == [c EXCEPT !.sink = FALSE, !.total = 0, !.chunk = 0, !.dcs = <<>>]
To(c, state) == [c EXCEPT !.state = state]

Event(kind, length, final, cancelled) ==
    [kind |-> kind, length |-> length, final |-> final, cancelled |-> cancelled]
Tell(c, event) == IF c.sink THEN [c EXCEPT !.events = Append(@, event)] ELSE c

Finish(c, kind) == To(Idle(Tell(c, Event(kind, c.chunk, TRUE, FALSE))), Ground)
Cancel(c, kind) == To(Idle(Tell(c, Event(kind, 0, TRUE, TRUE))), Ground)
OverflowsSilently(c, kind) == To(Idle(c), In(kind, "discard"))     \* a mutant
Overflow(c, kind) ==
    To(Idle(Tell(c, Event(kind, 0, TRUE, TRUE))), In(kind, "discard"))

(* A full block is handed over before the next byte is stored.               *)
Fits(c) == c.total < MaxString
StoresAfter(c, kind) ==                                            \* a mutant
    LET d == [c EXCEPT !.total = @ + 1, !.chunk = @ + 1]
    IN  IF c.sink /\ d.chunk > MaxChunk THEN [Tell(d, Event(kind, c.chunk, FALSE, FALSE)) EXCEPT !.chunk = 0]
        ELSE d
Store(c, kind) ==
    LET full == c.chunk = MaxChunk
        d == IF full THEN Tell(c, Event(kind, c.chunk, FALSE, FALSE)) ELSE c
    IN  IF ~c.sink THEN [c EXCEPT !.total = @ + 1]
        ELSE [d EXCEPT !.total = @ + 1, !.chunk = IF full THEN 1 ELSE @ + 1]
AppendByte(c, kind) == IF Fits(c) THEN Store(c, kind) ELSE Overflow(c, kind)

(* Without a sink or a reader of the kind a string is only framed.           *)
StartControlString(c, kind) ==
    LET d == Idle(c)
    IN  IF ~sink /\ kind \notin redacted THEN To(d, In(kind, "discard"))
        ELSE [To(d, In(kind, IF kind = "DCS" THEN "preamble" ELSE "payload")) EXCEPT
                !.sink = sink, !.total = IF kind = "OSC1337" THEN Len(Selector) ELSE 0]

Terminates(kind, b) == kind = "OSC1337" /\ b = "BEL"

Payload(c, b) ==
    LET kind == c.state.kind
    IN  CASE b = "CAN" -> Cancel(c, kind)
          [] b = "ESC" -> To(c, In(kind, "esc"))
          [] Terminates(kind, b) -> Finish(c, kind)
          [] OTHER -> AppendByte(c, kind)

(* After ESC: a second ESC may begin the terminator itself.                  *)
RestartsNever(c, kind) == In(kind, "payload")                      \* a mutant
SecondEscape(c, kind) == In(kind, IF Fits(c) THEN "esc" ELSE "discardEsc")
Escape(c, b) ==
    LET kind == c.state.kind
        stored == AppendByte(c, kind)
    IN  CASE b = "\\" -> Finish(c, kind)
          [] b = "CAN" -> Cancel(c, kind)
          [] Terminates(kind, b) -> IF Fits(c) THEN Finish(stored, kind) ELSE To(stored, Ground)
          [] b = "ESC" -> To(stored, SecondEscape(c, kind))
          [] OTHER -> IF ~Fits(c) THEN stored
                      ELSE IF ~Fits(stored) THEN Overflow(stored, kind)
                      ELSE To(Store(stored, kind), In(kind, "payload"))

Discard(c, b) ==
    CASE b = "CAN" \/ Terminates(c.state.kind, b) -> To(c, Ground)
      [] b = "ESC" -> To(c, In(c.state.kind, "discardEsc"))
      [] OTHER -> c
DiscardEscape(c, b) ==
    CASE b \in {"\\", "CAN"} \/ Terminates(c.state.kind, b) -> To(c, Ground)
      [] b = "ESC" -> c
      [] OTHER -> To(c, In(c.state.kind, "discard"))

Selected(preamble) == preamble \in {<<"q">>, <<"0", "q">>}
Preamble(c, b) ==
    LET read == Append(c.dcs, b)
    IN  CASE b = "CAN" -> To(Idle(c), Ground)
          [] b = "ESC" -> To(c, In("DCS", "preambleEsc"))
          [] Selected(read) -> [To(c, In("DCS", "payload")) EXCEPT !.dcs = read, !.total = @ + 1]
          [] read = <<"0">> -> [c EXCEPT !.dcs = read, !.total = @ + 1]
          [] OTHER -> To(Idle(c), In("DCS", "discard"))
PreambleEscape(c, b) ==
    To(Idle(c), CASE b \in {"\\", "CAN"} -> Ground
                  [] b = "ESC" -> In("DCS", "discardEsc")
                  [] OTHER -> In("DCS", "discard"))

ControlState(c, b) ==
    CASE c.state.place = "payload" -> Payload(c, b)
      [] c.state.place = "esc" -> Escape(c, b)
      [] c.state.place = "discard" -> Discard(c, b)
      [] c.state.place = "discardEsc" -> DiscardEscape(c, b)
      [] c.state.place = "preamble" -> Preamble(c, b)
      [] c.state.place = "preambleEsc" -> PreambleEscape(c, b)

(* OSC: other strings are collected, up to a limit, until BEL or ST.         *)
Collect(c, b) ==
    IF Len(c.osc) < MaxOSC THEN [c EXCEPT !.osc = Append(@, b)] ELSE [c EXCEPT !.truncated = TRUE]
OSC(c, b) ==
    LET d == Collect(c, b)
    IN  CASE b = "BEL" -> To(c, Ground)
          [] b = "ESC" -> To(c, Plain("OSCEsc"))
          [] d.osc = Selector -> StartControlString([d EXCEPT !.osc = <<>>, !.truncated = FALSE], "OSC1337")
          [] OTHER -> d
OSCEscape(c, b) ==
    IF b = "\\" THEN To(c, Ground) ELSE To(Collect(Collect(c, "ESC"), b), Plain("OSC"))

Esc(c, b) ==
    CASE b = "ESC" -> c
      [] b = "[" -> To(c, Plain("CSI"))
      [] b = "(" -> To(c, Plain("charset"))
      [] b = "]" -> [To(c, Plain("OSC")) EXCEPT !.osc = <<>>, !.truncated = FALSE]
      [] b = "_" -> StartControlString(c, "APC")
      [] b = "P" -> StartControlString(c, "DCS")
      [] OTHER -> To(c, Ground)

(* A byte that cannot go on a pending rune is taken as if none were pending. *)
GroundByte(c, b) ==
    CASE b = "ESC" -> To(c, Plain("esc"))
      [] b = "lead" -> [c EXCEPT !.rune = TRUE]
      [] OTHER -> c

AdvanceCore(c0, b) ==
    LET c == [c0 EXCEPT !.events = <<>>, !.rune = FALSE]
    IN  CASE c0.rune /\ b = "tail" -> c
          [] c.state = Ground -> GroundByte(c, b)
          [] c.state = Plain("esc") -> Esc(c, b)
          [] c.state = Plain("CSI") -> IF b \in {"0", "k", "("} THEN c ELSE To(c, Ground)
          [] c.state = Plain("charset") -> To(c, Ground)
          [] c.state = Plain("OSC") -> OSC(c, b)
          [] c.state = Plain("OSCEsc") -> OSCEscape(c, b)
          [] OTHER -> ControlState(c, b)

ResetCore(c0) ==
    LET c == [c0 EXCEPT !.events = <<>>]
        kind == ActiveKind(c.state)
        d == IF kind # "none" THEN Cancel(c, kind) ELSE To(Idle(c), Ground)
    IN  [d EXCEPT !.rune = FALSE, !.osc = <<>>, !.truncated = FALSE]

-----------------------------------------------------------------------------
(* The projection.  A step yields the new mode and hold and what is emitted. *)
(* What is held, deferred or emitted is a set, of the places bytes have in   *)
(* the input: the code appends bytes to its buffers in that order.  An entry *)
(* of the hold also says whether its byte came by AdvancePublic.             *)

Held(entry) == public.hold \union {entry}
Step(mode, hold, out) == [mode |-> mode, hold |-> hold, out |-> out]

Hold(mode, entry) == Step(mode, Held(entry), {})
Release(entry) == Step("idle", {}, Held(entry))
Take(mode) == Step(mode, {}, {})

ProjectESC(after, b, entry) ==
    CASE b = "ESC" -> Step("esc", {entry}, public.hold)
      [] b = "_" /\ "APC" \in redacted -> Hold("APC", entry)
      [] b = "P" /\ "DCS" \in redacted -> Hold("DCS", entry)
      [] b = "]" /\ "OSC1337" \in redacted -> Hold("OSC1337", entry)
      [] OTHER -> Release(entry)

ProjectAPC(before, after, b, entry) ==
    CASE before.place \in {"payload", "discard"} /\ b = "ESC" -> Hold("APC", entry)
      [] before.place \in {"payload", "discard"} /\ b = "G" ->
            Take(IF InFrame(after, "APC") THEN "selected" ELSE "idle")
      [] OTHER -> Release(entry)
ProjectDCS(before, after, entry) ==
    CASE before.place = "preamble" /\ after.place = "payload" -> Take("selected")
      [] after.place \in {"preamble", "preambleEsc"} -> Hold("DCS", entry)
      [] OTHER -> Release(entry)
ProjectOSC(next, entry) ==
    CASE next.state = In("OSC1337", "payload") -> Take("selected")
      [] /\ next.state \in {Plain("OSC"), Plain("OSCEsc")}
         /\ Len(next.osc) < Len(Selector) /\ ~next.truncated -> Hold("OSC1337", entry)
      [] OTHER -> Release(entry)

Project(next, b, entry) ==
    LET before == core.state
        after == next.state
    IN  CASE public.mode = "esc" -> ProjectESC(after, b, entry)
          [] public.mode = "APC" -> ProjectAPC(before, after, b, entry)
          [] public.mode = "DCS" -> ProjectDCS(before, after, entry)
          [] public.mode = "OSC1337" -> ProjectOSC(next, entry)
          [] public.mode = "selected" ->
                Take(IF \E kind \in Kinds : InFrame(after, kind) THEN "selected" ELSE "idle")
          [] OTHER -> IF before = Ground /\ after = Plain("esc") /\ redacted # {}
                      THEN Hold("esc", entry) ELSE Step("idle", {}, {entry})

Published(entries) == {e.at : e \in {e \in entries : e.public}}

-----------------------------------------------------------------------------
NewCore == [state |-> Ground, sink |-> FALSE, total |-> 0, chunk |-> 0, dcs |-> <<>>,
            osc |-> <<>>, truncated |-> FALSE, rune |-> FALSE, events |-> <<>>]
NoFrame == [from |-> 0, selected |-> FALSE]

Init ==
    /\ core = NewCore
    /\ public = [mode |-> "idle", hold |-> {}, deferred |-> {}]
    /\ sink \in BOOLEAN
    /\ redacted \in SUBSET Kinds
    /\ fate = <<>>
    /\ last = "x"
    /\ told = 0
    /\ secret = {}
    /\ frame = NoFrame

(* What the input means, told from the parser proper alone: a selected frame *)
(* is a control string of a redacted kind from its ESC to its terminator, a  *)
(* Kitty string being one whose payload begins with G.                       *)
Selects(after, b, at) ==
    \/ "APC" \in redacted /\ b = "G" /\ at = frame.from + 2 /\ InFrame(core.state, "APC")
    \/ "DCS" \in redacted /\ core.state = In("DCS", "preamble") /\ after = In("DCS", "payload")
    \/ "OSC1337" \in redacted /\ core.state = Plain("OSC") /\ after.kind = "OSC1337"

Understood(after, b, at) ==
    LET began == after = Plain("esc")
        selects == Selects(after, b, at)
        inside == frame.selected \/ selects
    IN  /\ secret' = secret \union (IF selects THEN frame.from..at ELSE IF frame.selected THEN {at} ELSE {})
        /\ frame' = IF began THEN [from |-> at, selected |-> FALSE]
                    ELSE IF after = Ground THEN NoFrame ELSE [frame EXCEPT !.selected = inside]

LengthOf(events) ==
    SumFunctionOnSet([k \in DOMAIN events |-> events[k].length], DOMAIN events)
Told(next) == IF ActiveKind(next.state) = "none" THEN 0 ELSE told + LengthOf(next.events)

(* One byte of Advance or of AdvancePublic.  What the latter emits begins    *)
(* with what was deferred; what the former releases is deferred.             *)
Emits(places) ==
    fate' = [i \in 1..(Len(fate) + 1) |->
        IF i \in places THEN "emitted" ELSE IF i <= Len(fate) THEN fate[i] ELSE "waiting"]

AdvancePublic(b) ==
    LET at == Len(fate) + 1
        next == AdvanceCore(core, b)
        step == Project(next, b, [at |-> at, public |-> TRUE])
    IN  /\ core' = next
        /\ public' = [mode |-> step.mode, hold |-> step.hold, deferred |-> {}]
        /\ Emits(public.deferred \union Published(step.out))
        /\ told' = Told(next)
        /\ Understood(next.state, b, at)

Advance(b) ==
    LET at == Len(fate) + 1
        next == AdvanceCore(core, b)
        step == Project(next, b, [at |-> at, public |-> FALSE])
    IN  /\ core' = next
        /\ public' = [mode |-> step.mode, hold |-> step.hold,
                      deferred |-> public.deferred \union Published(step.out)]
        /\ fate' = Append(fate, "private")
        /\ told' = Told(next)
        /\ Understood(next.state, b, at)

Accept(b) ==
    /\ Len(fate) < MaxBytes
    /\ AdvancePublic(b) \/ Advance(b)
    /\ last' = IF b \in {"ESC", "\\", "BEL"} THEN b ELSE "x"
    /\ UNCHANGED <<sink, redacted>>

Input == \E b \in Bytes : Accept(b)

(* What is held is public after all, unless it belongs to a selected frame.  *)
ForgetsHold(entries) == {}                                         \* a mutant
KeptByReset(entries) == Published(entries)

Reset ==
    /\ core' = ResetCore(core)
    /\ public' = [mode |-> "idle", hold |-> {},
                  deferred |-> public.deferred \union KeptByReset(public.hold)]
    /\ last' = "x"
    /\ told' = 0
    /\ frame' = NoFrame
    /\ UNCHANGED <<sink, redacted, fate, secret>>

(* EndOfInputPublic returns what is deferred and what is held.               *)
EndOfInputPublic ==
    /\ core' = ResetCore(core)
    /\ public' = [mode |-> "idle", hold |-> {}, deferred |-> {}]
    /\ LET places == public.deferred \union Published(public.hold)
       IN  fate' = [i \in DOMAIN fate |-> IF i \in places THEN "emitted" ELSE fate[i]]
    /\ last' = "x"
    /\ told' = 0
    /\ frame' = NoFrame
    /\ UNCHANGED <<sink, redacted, secret>>

Next == Input \/ Reset \/ EndOfInputPublic

Spec == Init /\ [][Next]_vars

-----------------------------------------------------------------------------
(* Properties. *)

(* However chunks of Advance and AdvancePublic alternate and wherever the    *)
(* input is reset: no byte of a selected image frame is published, every     *)
(* other public byte is, at the latest when the sequence it may belong to is *)
(* decided, and in the order of the input.  Bytes are deferred only into an  *)
(* empty buffer, which is what keeps the fixed one of the code large enough. *)
PublicExact ==
    /\ public.deferred # {} => Published(public.hold) = {}
    /\ \A i \in DOMAIN fate : fate[i] = "emitted" => i \notin secret
    /\ core.state = Ground /\ public.deferred = {}
          => \A i \in DOMAIN fate : fate[i] = "waiting" => i \in secret
    /\ \A i, j \in DOMAIN fate :
          i < j /\ fate[j] = "emitted" /\ fate[i] = "waiting" => i \in secret

(* An image protocol that has been told the beginning of a string is told    *)
(* its end exactly once, by its terminator, a cancellation, an overflow or a *)
(* reset, and until then of no other string; and what it was told in blocks  *)
(* is every byte between the introducer and the terminator, an ESC that did  *)
(* not begin the terminator included.                                        *)
Introducer == 2 + (IF core.state.kind = "OSC1337" THEN Len(Selector) ELSE Len(core.dcs))
Body == Len(fate') - frame.from + 1 - Introducer - (IF last' = "BEL" THEN 1 ELSE 2)
FramesEnd ==
    [][LET kind == ActiveKind(core.state)
           ended == kind # "none" /\ core.sink /\ ActiveKind(core'.state) = "none"
           finals == {k \in DOMAIN core'.events : core'.events[k].final}
       IN  /\ Cardinality(finals) = IF ended THEN 1 ELSE 0
           /\ \A k \in DOMAIN core'.events : core'.events[k].kind = kind
           /\ \A k \in finals : core'.events[k].cancelled \/ told + LengthOf(core'.events) = Body]_vars

(* A terminator ends a control string, even right after another ESC.         *)
TerminatorEnds ==
    [][last = "ESC" /\ last' = "\\" /\ core.state.kind \in Kinds => core'.state = Ground]_vars

=============================================================================
