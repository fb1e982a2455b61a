------------------------------ MODULE Selector ------------------------------
(***************************************************************************)
(* mux/selector.hpp: the multiplexer over select(2).  Handlers are kept by *)
(* kind of event and descriptor, next to the bit sets given to select; the *)
(* loop that calls them reads _fd_size and the handlers afresh at every    *)
(* descriptor, and a handler may set and reset any handler meanwhile.      *)
(***************************************************************************)
EXTENDS Integers, FiniteSets

CONSTANTS
    Desc,           \* descriptors 0 .. n
    LastKind,       \* kinds of events: 2 for read, write and urgent
    MaxSelects      \* bound: calls of select

VARIABLES
    handler,        \* _rhandlers, _whandlers, _uhandlers: kind -> descriptors with one
    bits,           \* _rs, _ws, _us
    size,           \* _rhandlers.size() ..: kind -> 0 .. n + 1
    fd_size,        \* _fd_size
    out,            \* __rs_out, __ws_out, __us_out
    at,             \* the loop of select: <<descriptor, kind>>, or Outside
    due,            \* events of this select whose handler has stayed set (history)
    selects

vars == <<handler, bits, size, fd_size, out, at, due, selects>>

Kind == 0 .. LastKind   \* in the order they are called
Outside == <<-1, 0>>
Largest(S) == CHOOSE d \in S : \A e \in S : e <= d

Init ==
    /\ handler = [k \in Kind |-> {}] /\ bits = [k \in Kind |-> {}]
    /\ size = [k \in Kind |-> 0]
    /\ fd_size = 0
    /\ out = [k \in Kind |-> {}]
    /\ at = Outside /\ due = {} /\ selects = 0

\* mutant of _set_fd_size: the size shrinks past descriptors of other kinds
_set_fd_sizeShort(d, set) ==
    IF set THEN IF d + 1 > fd_size THEN d + 1 ELSE fd_size
    ELSE IF d = fd_size - 1 THEN d ELSE fd_size

\* selector::_set_fd_size, with the bits as they are afterwards
_set_fd_size(d, set) ==
    LET used == UNION {bits'[k] : k \in Kind}
    IN  IF set THEN IF d + 1 > fd_size THEN d + 1 ELSE fd_size
        ELSE IF d = fd_size - 1 THEN IF used = {} THEN 0 ELSE Largest(used) + 1
        ELSE fd_size

\* selector::set_rhandler, set_whandler and set_uhandler, with a handler
SetHandler(k, d) ==
    /\ handler' = [handler EXCEPT ![k] = @ \cup {d}]
    /\ bits' = [bits EXCEPT ![k] = @ \cup {d}]
    /\ size' = [size EXCEPT ![k] = IF @ < d + 1 THEN d + 1 ELSE @]
    /\ fd_size' = _set_fd_size(d, TRUE)
    /\ UNCHANGED <<out, at, due, selects>>

\* the same with 0: selector::reset_rhandler ..
ResetHandler(k, d) ==
    /\ handler' = [handler EXCEPT ![k] = @ \ {d}]
    /\ bits' = [bits EXCEPT ![k] = @ \ {d}]
    /\ size' = [size EXCEPT ![k] = IF @ < d + 1 THEN d + 1 ELSE @]
    /\ fd_size' = _set_fd_size(d, FALSE)
    /\ due' = due \ {<<d, k>>}
    /\ UNCHANGED <<out, at, selects>>

\* mutant of After: the loop goes as far as there are read handlers
AfterReaders(i, k) == IF k < LastKind THEN <<i, k + 1>> ELSE IF i + 1 < size[0] THEN <<i + 1, 0>> ELSE Outside

\* The next place of the loop after <<i, k>>.
After(i, k) == IF k < LastKind THEN <<i, k + 1>> ELSE IF i + 1 < fd_size THEN <<i + 1, 0>> ELSE Outside

\* The call of select returns: some of the descriptors below _fd_size.  A set
\* with no handlers yet is not passed to select and keeps its old value.
Select ==
    /\ at = Outside /\ selects < MaxSelects /\ fd_size > 0
    /\ \E ready \in SUBSET {e \in (0 .. fd_size - 1) \X Kind : e[1] \in bits[e[2]]} :
        /\ ready # {}
        /\ out' = [k \in Kind |-> IF size[k] = 0 THEN out[k] ELSE {e[1] : e \in {r \in ready : r[2] = k}}]
        /\ due' = ready
    /\ at' = <<0, 0>>
    /\ selects' = selects + 1
    /\ UNCHANGED <<handler, bits, size, fd_size>>

\* One place of the loop: the handler that is there now is called if the bit
\* is set.  What it does are the steps that follow.
Visit ==
    LET i == at[1] k == at[2]
    IN  /\ at # Outside
        /\ due' = IF i < size[k] /\ i \in out[k] /\ i \in handler[k] THEN due \ {at} ELSE due
        /\ at' = After(i, k)
        /\ UNCHANGED <<handler, bits, size, fd_size, out, selects>>

Next ==
    \/ \E k \in Kind, d \in Desc : SetHandler(k, d) \/ ResetHandler(k, d)
    \/ Select \/ Visit

----------------------------------------------------------------------------

\* _fd_size is one more than the largest descriptor that has a handler of any
\* kind, and the bits are those of the handlers, however they are set and reset.
FdSizeCovers ==
    LET used == UNION {handler[k] : k \in Kind}
    IN  /\ bits = handler
        /\ fd_size = IF used = {} THEN 0 ELSE Largest(used) + 1

\* When select ends it has called the handler of every event it found, unless
\* the handler was reset meanwhile: what handlers do to other descriptors
\* makes it miss none.
EveryEventIsServed == at = Outside => due = {}

=============================================================================
