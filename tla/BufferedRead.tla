---------------------------- MODULE BufferedRead ----------------------------
(***************************************************************************)
(* ad_buf_binary_read over ad_binary_read: reads of any size are served    *)
(* from an internal buffer of S bytes that is filled when it is empty.     *)
(* Bytes are numbered in the order the source sends them; a read of the    *)
(* source gives any prefix of what it asks for, nothing at the end of the  *)
(* source (closed), or an error.                                           *)
(***************************************************************************)
EXTENDS Integers, Sequences

CONSTANTS
    S,              \* the size of the buffer
    MaxBytes,       \* bound: bytes the source has
    MaxRead         \* bound: bytes asked for at once

VARIABLES
    buffer,         \* ad_buf_binary_read::_buffer
    pos,            \* bytes taken from the source
    user,           \* bytes given to the callers
    noted           \* bytes given to the advice N

Numbers(a, b) == [i \in 1 .. b - a |-> a + i]
Error == -1

\* What one read of at most n bytes may return.
Results(n) == {Error} \cup {k \in 0 .. n : pos + k <= MaxBytes /\ (k = 0 => pos = MaxBytes)}

\* ad_binary_read::operator(): N gets what was read; 0 is the end, -1 an error.
Got(rs) == IF rs > 0 THEN Numbers(pos, pos + rs) ELSE <<>>
Take(rs) == pos' = pos + Len(Got(rs)) /\ noted' = noted \o Got(rs)

\* Enough is buffered: the source is not read and N is not told.
FromBuffer(s) ==
    /\ Len(buffer) >= s
    /\ user' = user \o SubSeq(buffer, 1, s)
    /\ buffer' = SubSeq(buffer, s + 1, Len(buffer))
    /\ UNCHANGED <<pos, noted>>

\* Nothing is buffered and more is wanted than the buffer holds.
Direct(s) ==
    /\ buffer = <<>> /\ s > S
    /\ \E rs \in Results(s) : user' = user \o Got(rs) /\ Take(rs)
    /\ UNCHANGED buffer

\* mutant of Fill: all that was read is given out, and kept as well
FillTwice(s) ==
    /\ buffer = <<>> /\ s \in 1 .. S
    /\ \E rs \in Results(S) :
        /\ user' = user \o SubSeq(Got(rs), 1, IF rs > s THEN s ELSE rs)
        /\ buffer' = IF rs > s THEN Got(rs) ELSE <<>>
        /\ Take(rs)

\* The buffer is filled, as much as was asked for is copied from it.
Fill(s) ==
    /\ buffer = <<>> /\ s \in 1 .. S
    /\ \E rs \in Results(S) :
        LET n == IF rs > s THEN s ELSE IF rs = Error THEN 0 ELSE rs
        IN  /\ user' = user \o SubSeq(Got(rs), 1, n)
            /\ buffer' = SubSeq(Got(rs), n + 1, Len(Got(rs)))
            /\ Take(rs)

\* Too little is buffered: all of it, and the rest straight from the source.
Topped(s) ==
    /\ buffer # <<>> /\ Len(buffer) < s
    /\ \E rs \in Results(s - Len(buffer)) : user' = user \o buffer \o Got(rs) /\ Take(rs)
    /\ buffer' = <<>>

\* ad_buf_binary_read::operator()(t, d, s)
Read(s) == FromBuffer(s) \/ Direct(s) \/ Fill(s) \/ Topped(s)

Init == buffer = <<>> /\ pos = 0 /\ user = <<>> /\ noted = <<>>

Next == \E s \in 1 .. MaxRead : Read(s)

\* Callers get every byte of the source once and in order, whatever sizes they
\* ask for, and N has been told of every byte that was taken from it, no later
\* than the callers got it.
ReadsInOrder ==
    /\ user \o buffer = Numbers(0, pos)
    /\ noted = Numbers(0, pos)
    /\ Len(buffer) < S

=============================================================================
