----------------------------- MODULE SmartWrite -----------------------------
(***************************************************************************)
(* ad_smart_write: blocks for a receiver that comes and goes.  A block     *)
(* stays in the queue until the receiver confirms it; after a break the    *)
(* first block is written again from its start.  It is written through     *)
(* ad_buf_binary_write, which keeps what the channel did not take.         *)
(*                                                                         *)
(* The user of the class confirms a block once it has arrived whole, and   *)
(* asks for the next at once, or not: then it waits for the next session.  *)
(***************************************************************************)
EXTENDS Integers, Sequences, SequencesExt

CONSTANTS
    Sizes,          \* sizes of blocks
    MaxBlocks,      \* bound: blocks written
    MaxBreaks       \* bound: breaks of the connection

VARIABLES
    queue,          \* _buffer_queue: [id, left, size], left the counter `first`
    buf,            \* ad_buf_binary_write::_buffer, the block each byte is of
    smart,          \* _ready_smart
    held,           \* a block waits that the last confirmation did not ask for (history)
    wire,           \* bytes the channel took in this session
    next,           \* number of the next block
    breaks, threw

vars == <<queue, buf, smart, held, wire, next, breaks, threw>>

Bytes(id, n) == [i \in 1 .. n |-> id]
Failed == -1

\* A write of n bytes takes some of them, or fails and takes none; one that
\* finds the descriptor closed is part of the break.
Results(n) == {Failed} \cup 1 .. n
Taken(rt) == IF rt = Failed THEN 0 ELSE rt

\* ad_buf_binary_write::operator()(t, d, s): what is not taken is kept.
Put(bytes, rt) ==
    /\ wire' = wire \o SubSeq(bytes, 1, Taken(rt))
    /\ buf' = SubSeq(bytes, Taken(rt) + 1, Len(bytes))

\* mutant of Write: a block that waits for its confirmation holds nobody up
WriteEager(s) ==
    /\ next <= MaxBlocks
    /\ next' = next + 1
    /\ IF buf # <<>>
       THEN queue' = Append(queue, [id |-> next, left |-> s, size |-> s]) /\ UNCHANGED <<buf, wire>>
       ELSE \E rt \in Results(s) :
                /\ Put(Bytes(next, s), rt)
                /\ queue' = Append(queue, [id |-> next, left |-> s - Taken(rt), size |-> s])
    /\ UNCHANGED <<smart, held, breaks, threw>>

\* ad_smart_write::operator()(t, d, s)
Write(s) ==
    LET block(left) == [id |-> next, left |-> left, size |-> s]
    IN  /\ next <= MaxBlocks
        /\ next' = next + 1
        /\ IF queue # <<>> \/ buf # <<>>
           THEN queue' = Append(queue, block(s)) /\ UNCHANGED <<buf, wire>>
           ELSE \E rt \in Results(s) :
                    /\ Put(Bytes(next, s), rt)
                    /\ queue' = Append(queue, block(s - Taken(rt)))
        /\ UNCHANGED <<smart, held, breaks, threw>>

\* ad_smart_write::_write_queue, with the queue q
_write_queue(q) ==
    IF q = <<>> \/ buf # <<>> THEN queue' = q /\ UNCHANGED <<buf, wire, threw>>
    ELSE IF Head(q).left # Head(q).size
    THEN queue' = q /\ threw' = TRUE /\ UNCHANGED <<buf, wire>>
    ELSE \E rt \in Results(Head(q).size) :
            /\ Put(Bytes(Head(q).id, Head(q).size), rt)
            /\ queue' = [q EXCEPT ![1].left = @ - Taken(rt)]
            /\ UNCHANGED threw

\* ad_smart_write::operator()(t): the descriptor can be written.
Ready ==
    \/ /\ buf # <<>>
       /\ \E rt \in Results(Len(buf)) :
            /\ Put(buf, rt)
            /\ queue' = IF queue = <<>> THEN queue ELSE [queue EXCEPT ![1].left = @ - Taken(rt)]
       /\ UNCHANGED <<smart, held, next, breaks, threw>>
    \/ /\ buf = <<>> /\ smart
       /\ smart' = FALSE
       /\ _write_queue(queue)
       /\ UNCHANGED <<held, next, breaks>>

Whole(block) == Len(SelectSeq(wire, LAMBDA b : b = block.id)) = block.size

\* ad_smart_write::confirm
Confirm(write_next) ==
    /\ queue # <<>> /\ Whole(Head(queue))
    /\ smart' = (smart /\ ~write_next)
    /\ held' = (~write_next /\ Tail(queue) # <<>>)
    /\ IF write_next THEN _write_queue(Tail(queue))
       ELSE queue' = Tail(queue) /\ UNCHANGED <<buf, wire, threw>>
    /\ UNCHANGED <<next, breaks>>

\* mutant of Clear: the counter of the first block is left as it was
ClearKeepingCount ==
    /\ breaks < MaxBreaks
    /\ buf' = <<>>
    /\ smart' = (smart \/ queue # <<>>)
    /\ wire' = <<>>
    /\ breaks' = breaks + 1
    /\ held' = FALSE
    /\ UNCHANGED <<queue, next, threw>>

\* ad_smart_write::clear, when the connection is gone
Clear ==
    /\ breaks < MaxBreaks
    /\ buf' = <<>>
    /\ smart' = (smart \/ queue # <<>>)
    /\ queue' = IF queue = <<>> THEN queue ELSE [queue EXCEPT ![1].left = Head(queue).size]
    /\ wire' = <<>>
    /\ breaks' = breaks + 1
    /\ held' = FALSE
    /\ UNCHANGED <<next, threw>>

Init ==
    /\ queue = <<>> /\ buf = <<>> /\ smart = FALSE /\ held = FALSE
    /\ wire = <<>> /\ next = 1 /\ breaks = 0 /\ threw = FALSE

Next == (\E s \in Sizes : Write(s)) \/ Ready \/ (\E write_next \in BOOLEAN : Confirm(write_next)) \/ Clear

----------------------------------------------------------------------------

\* "error counter buffer" is never thrown by _write_queue.
CountersNeverThrow == ~threw

\* The counter of the first block is the number of its bytes the channel has
\* not taken in this session, and these are the bytes ad_buf_binary_write
\* keeps, or the block is waiting to be written from its start: after a
\* break, at the next write event, or because no one has asked for it.
CountsWhatIsLeft ==
    queue # <<>> =>
        LET b == Head(queue)
        IN  /\ Len(SelectSeq(wire, LAMBDA c : c = b.id)) = b.size - b.left
            /\ buf = IF b.left = b.size /\ (smart \/ held) THEN <<>> ELSE Bytes(b.id, b.left)

\* Blocks reach the receiver one after the other in the order they were
\* written, and a session never starts in the middle of a block.
WholeInOrder ==
    /\ \A i \in 1 .. Len(wire) - 1 : wire[i + 1] \in {wire[i], wire[i] + 1}
    /\ \A i \in DOMAIN queue : i > 1 => queue[i].left = queue[i].size

=============================================================================
