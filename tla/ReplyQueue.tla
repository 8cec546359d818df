------------------------------ MODULE ReplyQueue ------------------------------
(***************************************************************************)
(* internal/mux/reply_queue.go: the ordered replies of one pane.  A reply  *)
(* that is known is queued ready; the reply to an image decode reserves a  *)
(* slot of HardReplyBytes in its place and is completed later.  Only the   *)
(* ready prefix is ever written, so a slot holds back what follows it.     *)
(* Every operation is a function from the queue to the queue.              *)
(***************************************************************************)
EXTENDS Naturals, Sequences, FiniteSets, Functions

CONSTANTS HardReplyBytes,              \* bytes a slot reserves
          HardPendingReplyBytesPane    \* bytes one pane may hold

ASSUME ReplyAssumption ==
    /\ HardReplyBytes \in Nat \ {0}
    /\ HardPendingReplyBytesPane \in Nat

(* replyEntry: the bytes accounted to it, and whether data or a tombstone *)
(* has taken the place of the reservation.                                *)
ReplyEntry == [sequence : Nat \ {0}, reserved : Nat, ready : BOOLEAN]

ReplyQueues == [entries : Seq(ReplyEntry), next : Nat, pendingBytes : Nat,
                reservedSlots : Nat]

EmptyQueue == [entries |-> <<>>, next |-> 0, pendingBytes |-> 0, reservedSlots |-> 0]

-----------------------------------------------------------------------------
FitsLoosely(q, n) == q.pendingBytes < HardPendingReplyBytesPane   \* a mutant
Fits(q, n) == n <= HardPendingReplyBytesPane - q.pendingBytes

(* queueReply: the sequence number is spent even if the reply is suppressed. *)
QueueReply(q, n) ==
    IF n = 0 \/ n > HardReplyBytes \/ ~Fits(q, n)
    THEN [q EXCEPT !.next = @ + 1]
    ELSE [q EXCEPT !.next = @ + 1,
                   !.pendingBytes = @ + n,
                   !.entries = Append(@, [sequence |-> q.next + 1, reserved |-> n,
                                          ready |-> TRUE])]

(* reserveImageReply; the slot is the sequence number, 0 when there is none. *)
ReserveSlot(q) == IF Fits(q, HardReplyBytes) THEN q.next + 1 ELSE 0

CountsNone(q) == q.reservedSlots                                  \* a mutant
OneMoreSlot(q) == q.reservedSlots + 1

ReserveImageReply(q) ==
    IF ReserveSlot(q) = 0
    THEN [q EXCEPT !.next = @ + 1]
    ELSE [q EXCEPT !.next = @ + 1,
                   !.pendingBytes = @ + HardReplyBytes,
                   !.reservedSlots = OneMoreSlot(q),
                   !.entries = Append(@, [sequence |-> q.next + 1,
                                          reserved |-> HardReplyBytes,
                                          ready |-> FALSE])]

(* An empty or oversized reply leaves a tombstone of one byte. *)
Charged(n) == IF n = 0 \/ n > HardReplyBytes THEN 1 ELSE n

(* The entry a slot names, as long as nobody has completed it. *)
Awaits(q, slot) == {i \in DOMAIN q.entries : /\ q.entries[i].sequence = slot
                                             /\ ~q.entries[i].ready
                                             /\ q.entries[i].reserved # 0}

(* completeImageReply: false, and no change, unless the slot still waits. *)
CompleteImageReply(q, slot, n) ==
    IF Awaits(q, slot) = {} THEN q
    ELSE LET i == CHOOSE i \in Awaits(q, slot) : TRUE
             e == q.entries[i]
         IN  [q EXCEPT !.reservedSlots = @ - 1,
                       !.pendingBytes = (@ - e.reserved) + Charged(n),
                       !.entries = [@ EXCEPT ![i] = [e EXCEPT !.ready = TRUE,
                                       !.reserved = Charged(n)]]]

(* flushReplies: the length of the ready prefix, what remains, and the  *)
(* sequence numbers of what is written to the session, one write after  *)
(* the other (a tombstone's has no bytes).                              *)
EveryEntry(q) == Len(q.entries)                                   \* a mutant
ReadyPrefix(q) ==
    CHOOSE n \in 0..Len(q.entries) :
        /\ \A i \in 1..n : q.entries[i].ready
        /\ n < Len(q.entries) => ~q.entries[n + 1].ready

Bytes(entries) ==
    SumFunctionOnSet([i \in DOMAIN entries |-> entries[i].reserved], DOMAIN entries)

FlushReplies(q) ==
    LET n == ReadyPrefix(q) IN
    [q EXCEPT !.pendingBytes = @ - Bytes(SubSeq(q.entries, 1, n)),
              !.entries = SubSeq(@, n + 1, Len(@))]

FlushedReady(q) ==                                                \* a mutant
    LET written == SelectSeq(q.entries, LAMBDA e : e.ready)
    IN  [i \in DOMAIN written |-> written[i].sequence]
Flushed(q) == [i \in 1..ReadyPrefix(q) |-> q.entries[i].sequence]

(* clearReplies: the counters of sequences and statistics go on. *)
ClearReplies(q) == [q EXCEPT !.entries = <<>>, !.pendingBytes = 0, !.reservedSlots = 0]

-----------------------------------------------------------------------------
(* The byte and slot counters are what the entries say, and are never above *)
(* the pane's hard bound, so the unsigned subtractions do not wrap.         *)
Accounted(q) ==
    /\ q.pendingBytes = Bytes(q.entries)
    /\ q.reservedSlots = Cardinality({i \in DOMAIN q.entries : ~q.entries[i].ready})
    /\ q.pendingBytes <= HardPendingReplyBytesPane

(* Entries keep the order their sequence numbers were given in. *)
Ordered(q) == \A i, j \in DOMAIN q.entries :
    /\ i < j => q.entries[i].sequence < q.entries[j].sequence
    /\ q.entries[i].sequence <= q.next
=============================================================================
