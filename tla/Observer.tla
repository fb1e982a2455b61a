------------------------------ MODULE Observer ------------------------------
(***************************************************************************)
(* pattern/observer.hpp in one thread (empty_try_mutex, whose try_lock     *)
(* always succeeds): the set of observers, its mirror image, the queue of  *)
(* changes, and handlers that change the set while it is being walked.     *)
(* Walking goes up the ordered set of pairs <<i, t>> of one i.  A handler  *)
(* that erases the pair being visited makes the iterator of fire invalid:  *)
(* handlers here do not.                                                   *)
(***************************************************************************)
EXTENDS Integers, Sequences, SequencesExt, FiniteSets

CONSTANTS
    Topic, Target,  \* sets of numbers
    MaxQueue,       \* bound: changes queued
    MaxFires        \* bound

VARIABLES
    observers,      \* _observers
    reverse,        \* _reverse_set
    queue,          \* _queue: <<insert?, pair>>
    firing,         \* _fire
    cur,            \* the pair whose handler runs
    erasing,        \* this is erased_fire
    whole, seen,    \* pairs that were there all through this fire; pairs visited
    fires

vars == <<observers, reverse, queue, firing, cur, erasing, whole, seen, fires>>

None == <<0, 0>>
Flip(p) == <<p[2], p[1]>>

\* observer::_qprocess, from the two sets to the two sets
_qprocess(sets, q) ==
    FoldLeft(LAMBDA s, c : IF c[1] THEN <<s[1] \cup {c[2]}, s[2] \cup {Flip(c[2])}>>
                           ELSE <<s[1] \ {c[2]}, s[2] \ {Flip(c[2])}>>, sets, q)

Apply(sets, q) ==
    /\ observers' = _qprocess(sets, q)[1]
    /\ reverse' = _qprocess(sets, q)[2]
    /\ queue' = <<>>

\* mutant of insert: an insertion during fire is done at once, in one set
insertHalf(p) ==
    /\ IF firing THEN observers' = observers \cup {p} /\ UNCHANGED <<reverse, queue>>
       ELSE Apply(<<observers \cup {p}, reverse \cup {Flip(p)}>>, queue)
    /\ UNCHANGED <<firing, cur, erasing, whole, seen, fires>>

\* observer::insert: queued while handlers run
insert(p) ==
    /\ Len(queue) < MaxQueue
    /\ IF firing THEN queue' = Append(queue, <<TRUE, p>>) /\ UNCHANGED <<observers, reverse>>
       ELSE Apply(<<observers \cup {p}, reverse \cup {Flip(p)}>>, queue)
    /\ UNCHANGED <<firing, cur, erasing, whole, seen, fires>>

\* observer::erase(i, t): at once, and the queue with it
erase(p) ==
    /\ p # cur
    /\ Apply(<<observers \ {p}, reverse \ {Flip(p)}>>, queue)
    /\ whole' = whole \ {p}
    /\ UNCHANGED <<firing, cur, erasing, seen, fires>>

\* observer::erase(t): during fire its pairs are queued, and the queue is
\* worked off at once.
erase_all(t) ==
    LET mine == {p \in observers : p[2] = t}
        drop == [k \in 1 .. Cardinality(mine) |-> <<FALSE, SetToSeq(mine)[k]>>]
    IN  /\ cur[2] # t
        /\ IF firing THEN Apply(<<observers, reverse>>, queue \o drop)
           ELSE Apply(<<observers \ mine, {r \in reverse : r[1] # t}>>, queue)
        /\ whole' = {p \in whole : p[2] # t}
        /\ UNCHANGED <<firing, cur, erasing, seen, fires>>

\* The first pair of topic i after t.
After(set, i, t) ==
    LET rest == {p \in set : p[1] = i /\ p[2] > t}
    IN  IF rest = {} THEN None ELSE CHOOSE p \in rest : \A q \in rest : p[2] <= q[2]

\* observer::fire and observer::erased_fire begin: the queue, then lower_bound.
fire(i, e) ==
    LET now == _qprocess(<<observers, reverse>>, queue)[1]
        p == After(now, i, 0)
    IN  /\ ~firing /\ fires < MaxFires
        /\ Apply(<<observers, reverse>>, queue)
        /\ fires' = fires + 1
        /\ firing' = (p # None) /\ cur' = p /\ erasing' = e
        /\ seen' = IF p = None THEN <<>> ELSE <<p>>
        /\ whole' = {q \in now : q[1] = i}

\* mutant of Return: erased_fire erases behind the iterator and moves on once more
ReturnSkipping ==
    LET n == After(observers, cur[1], cur[2])
        p == IF erasing /\ n # None THEN After(observers, n[1], n[2]) ELSE n
    IN  /\ firing
        /\ observers' = IF erasing THEN observers \ {cur} ELSE observers
        /\ reverse' = IF erasing THEN reverse \ {Flip(cur)} ELSE reverse
        /\ cur' = p /\ firing' = (p # None)
        /\ seen' = IF p = None THEN seen ELSE Append(seen, p)
        /\ UNCHANGED <<queue, erasing, whole, fires>>

\* The handler returns: erased_fire removes the pair, the iterator moves on.
Return ==
    LET left == IF erasing THEN observers \ {cur} ELSE observers
        p == After(observers, cur[1], cur[2])
    IN  /\ firing
        /\ observers' = left
        /\ reverse' = IF erasing THEN reverse \ {Flip(cur)} ELSE reverse
        /\ cur' = p /\ firing' = (p # None)
        /\ seen' = IF p = None THEN seen ELSE Append(seen, p)
        /\ UNCHANGED <<queue, erasing, whole, fires>>

Init ==
    /\ observers = {} /\ reverse = {} /\ queue = <<>> /\ firing = FALSE
    /\ cur = None /\ erasing = FALSE /\ whole = {} /\ seen = <<>> /\ fires = 0

Next ==
    \/ \E p \in Topic \X Target : insert(p) \/ erase(p)
    \/ \E t \in Target : erase_all(t)
    \/ \E i \in Topic, e \in BOOLEAN : fire(i, e)
    \/ Return

----------------------------------------------------------------------------

\* The two sets stay mirror images of each other, whatever handlers do.
MirrorSets == reverse = {Flip(p) : p \in observers}

\* When fire ends, it has called every observer that was there from its start
\* to its end, none of them twice and in order.
FireCallsEveryone ==
    /\ \A i \in 1 .. Len(seen) - 1 : seen[i][2] < seen[i + 1][2]
    /\ ~firing => whole \subseteq ToSet(seen)

=============================================================================
