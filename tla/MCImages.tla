------------------------------ MODULE MCImages ------------------------------
(***************************************************************************)
(* Four models of the images of panes in one run: the parser that finds    *)
(* them in a pane's output, the store of a pane with its decode worker,    *)
(* the placements on a pane's screens, and the budget that stores share.   *)
(* Each sees of the others only refusals that may come at any time, so a   *)
(* behaviour runs one of them, "component", and leaves the others in their *)
(* initial states.                                                         *)
(***************************************************************************)
EXTENDS ImageStore

CONSTANTS Rows, Cols, Capacities, PlacementIDs, PlacementLimit,
          Wire, Local, Spans, Cursors,
          Goroutines, Panes, KindOrder, PaneLimit, ProcessLimit, Usages,
          MaxString, MaxChunk, MaxOSC, MaxBytes, MaxMixed, MaxShort

VARIABLES component,
    alternateScreen, scrollbackRows, scrollbackCapacity, sidecars,
    resources, reserved, decode, inChunk, snapshotStale,
    pane, process, call, leases,
    core, public, sink, redacted, fate, last, told, secret, frame

Terminal == INSTANCE TerminalImages WITH job <- decode

Budget == INSTANCE ImageBudget

Parse == INSTANCE Parser

ASSUME PlacementAssumption == Terminal!TerminalBounds
ASSUME BudgetAssumption == Budget!KindAssumption /\ Budget!LimitAssumption
ASSUME FrameAssumption == Parse!ParserAssumption

(* Three rows of two columns have regions above, below and inside the      *)
(* screen; a placement is two rows high and begins in any row.             *)
TallSpans == {<<2, 1>>}
TwoCursors == {<<1, 1>>, <<2, 0>>}

(* A usage of bytes alone, and one of bytes and a transfer, so that calls  *)
(* fail half way: at the pane's counters or the process's.                 *)
Use(bytes, transfersOf) ==
    [k \in {"encoded", "transfers"} |-> IF k = "encoded" THEN bytes ELSE transfersOf]
TwoKinds == <<"encoded", "transfers">>
LimitOfPane == Use(2, 1)
LimitOfProcess == Use(3, 1)
TwoUsages == {Use(1, 0), Use(2, 1)}

terminalVars == <<alternateScreen, scrollbackRows, scrollbackCapacity, sidecars,
                  resources, reserved, decode, inChunk, snapshotStale>>
budgetVars == <<pane, process, call, leases>>

parserVars == <<core, public, sink, redacted, fate, last, told, secret, frame>>

(* The parser gets the bytes of one image protocol, or fewer of any.        *)
Alphabet ==
    [APC |-> {"_", "G", "CAN", "x"}, DCS |-> {"P", "0", "q", "CAN", "x"}, OSC1337 |-> {"]", "k"}]
Inputs == DOMAIN Alphabet \union {"mixed"}

MCInit == /\ component \in {"store", "terminal", "budget"} \union Inputs
          /\ Init /\ Terminal!Init /\ Budget!Init /\ Parse!Init
          /\ CASE component \notin Inputs -> redacted = {} /\ ~sink
               [] component = "mixed" -> TRUE
               [] OTHER -> redacted = {component} \/ (redacted = {} /\ sink)
          /\ component # "terminal" => scrollbackCapacity = 0

StoreStep == component = "store" /\ Next /\ UNCHANGED <<component, terminalVars, budgetVars, parserVars>>
TerminalStep == component = "terminal" /\ Terminal!Next /\ UNCHANGED <<component, vars, budgetVars, parserVars>>
BudgetStep == component = "budget" /\ Budget!Next /\ UNCHANGED <<component, vars, terminalVars, parserVars>>

Byte ==
    IF component = "mixed" THEN Len(fate) < MaxMixed /\ Parse!Input
    ELSE /\ component # "OSC1337" => Len(fate) < MaxShort
         /\ \E b \in Alphabet[component] \union {"ESC", "\\", "BEL"} : Parse!Accept(b)
ParserStep ==
    /\ component \in Inputs
    /\ Byte \/ Parse!Reset \/ Parse!EndOfInputPublic
    /\ UNCHANGED <<component, vars, terminalVars, budgetVars>>

allVars == <<component, vars, terminalVars, budgetVars, parserVars>>
MCSpec == MCInit /\ [][StoreStep \/ TerminalStep \/ BudgetStep \/ ParserStep]_allVars

(* Placements and captured anchors stay on their text, and agree with      *)
(* resources and reservations (TerminalImages).                            *)
PlacementsKept == component = "terminal" => Terminal!PlacementsKept
(* The counters are what calls and reservations hold (ImageBudget).        *)
BudgetExact == component = "budget" => Budget!BudgetExact
(* Public bytes come out in order, image frames never (Parser).            *)
PublicExact == Parse!PublicExact
(* A string that was begun is ended once, told whole, and by its           *)
(* terminator (Parser).                                                    *)
FramesEnd == Parse!FramesEnd /\ Parse!TerminatorEnds
=============================================================================
