------------------------------ MODULE Splitter ------------------------------
(***************************************************************************)
(* ad_binary_splitter: a stream that arrives in blocks of any size is cut  *)
(* into datagrams that end with a separator.  The daemon separates JSON    *)
(* messages by CR LF (common/aspect/rn_json_aspect.hpp); ad_rn_writer adds *)
(* the same two bytes to what it sends.  The handler of a datagram may     *)
(* clear the splitter, when it releases the connection.                    *)
(***************************************************************************)
EXTENDS Integers, Sequences, SequencesExt

CONSTANTS
    Byte, CR, LF,
    MaxStream       \* bound: bytes of a stream

VARIABLES
    data,           \* ad_binary_splitter::_data
    stream,         \* the bytes received since the last clear
    sent            \* the datagrams given to the advice N since then

Sep == <<CR, LF>>

\* sep<ch0, ch1>::operator(): the separator starts at the i-th byte.
IsSep(b, i) == SubSeq(b, i, i + Len(Sep) - 1) = Sep

\* The places of the separators _parse_ meets when it starts after the first
\* `start` bytes.
Found(b, start) == {i \in start + 1 .. Len(b) - Len(Sep) + 1 : IsSep(b, i)}

Cuts(b, start) == SetToSortSeq(Found(b, start), LAMBDA x, y : x < y)

\* ad_binary_splitter::_parse_ : each datagram with its separator.
_parse_(b, start) ==
    LET at == Cuts(b, start)
    IN  [k \in DOMAIN at |->
            SubSeq(b, IF k = 1 THEN 1 ELSE at[k - 1] + Len(Sep), at[k] + Len(Sep) - 1)]

Rest(b, start) ==
    LET at == Cuts(b, start)
    IN  IF at = <<>> THEN b ELSE SubSeq(b, Last(at) + Len(Sep), Len(b))

\* mutant of Start: only the new bytes are searched
StartAtNew(old) == Len(old)

\* The part of the kept bytes that cannot hold a separator is not searched again.
Start(old) == IF Len(old) > Len(Sep) THEN Len(old) - Len(Sep) ELSE 0

\* ad_binary_splitter::operator()
Block(d) ==
    LET b == data \o d
    IN  /\ Len(stream) + Len(d) <= MaxStream
        /\ data' = Rest(b, Start(data))
        /\ sent' = sent \o _parse_(b, Start(data))
        /\ stream' = stream \o d

\* The handler of the k-th datagram of the block clears the splitter: the
\* rest of the block is dropped with it.
BlockCleared(d, k) ==
    LET got == _parse_(data \o d, Start(data))
    IN  /\ k \in DOMAIN got
        /\ data' = <<>>
        /\ sent' = <<>>
        /\ stream' = <<>>

Init == data = <<>> /\ stream = <<>> /\ sent = <<>>

Blocks == UNION {[1 .. n -> Byte] : n \in 1 .. 3}

Next == \E d \in Blocks : Block(d) \/ \E k \in 1 .. 2 : BlockCleared(d, k)

----------------------------------------------------------------------------

\* However the stream was cut into blocks, the datagrams and the kept bytes
\* put together are the stream, every datagram ends with the separator and
\* holds no other, and no separator is left in the kept bytes.
SplitsAnyBlocks ==
    /\ FlattenSeq(sent) \o data = stream
    /\ \A k \in DOMAIN sent : Found(sent[k], 0) = {Len(sent[k]) - Len(Sep) + 1}
    /\ Found(data, 0) = {}

=============================================================================
