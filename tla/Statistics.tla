----------------------------- MODULE Statistics -----------------------------
(***************************************************************************)
(* Statistics of method calls (misc/stat.hpp, adv/ad_clock.hpp and         *)
(* common/fas_statistics.hpp): the clock is read before and after a        *)
(* handler, the method is marked, and the time is added to the record of   *)
(* the marked method.  All connections and threads of the daemon share one *)
(* common_stat_mtx, whose operations are atomic.                           *)
(*                                                                         *)
(* Time is counted in units, Second of them make a second; a timeval is    *)
(* the pair <<sec, usec>>.                                                 *)
(***************************************************************************)
EXTENDS Integers, Sequences, FiniteSets, FiniteSetsExt

CONSTANTS
    Thread,
    Methods,        \* positions in the method list, 0 .. n
    Second,
    MaxTime,        \* bound on the clock
    MaxCalls        \* bound on the calls

VARIABLES
    now,            \* what gettimeofday returns, in units
    busy,           \* thread -> its method, or Idle
    start,          \* ad_clock_start::_tv of the connection the thread serves
    marked,         \* threads between mark and clock_finish
    imark,          \* common_stat::_imark
    stats,          \* common_stat::_stat_list
    done,           \* the finished calls: method, start and end by the clock (history)
    calls

vars == <<now, busy, start, marked, imark, stats, done, calls>>

NoMark == -1
Idle == -2
Zero == <<0, 0>>
Units(tv) == tv[1] * Second + tv[2]
Timeval(t) == <<t \div Second, t % Second>>

\* timeval operator<
Before(a, b) == a[1] < b[1] \/ (a[1] = b[1] /\ a[2] < b[2])

\* mutant of _correct: a full second is left among the microseconds
_correctLate(tv) == IF tv[2] > Second THEN <<tv[1] + 1, tv[2] - Second>> ELSE tv

\* command_stat::_correct
_correct(tv) == <<tv[1] + tv[2] \div Second, tv[2] % Second>>

\* command_stat::clear
Clear(t) ==
    [count |-> 0, last |-> Zero, max |-> Zero, min |-> <<MaxTime + 1, 0>>, average |-> Zero,
     sum |-> Zero, middle_count |-> 0, middle_max |-> 2, middle_start |-> t]

\* The count of the calls that the rate is measured over is doubled when they
\* took less than a second and halved, down to 2, when they took longer.
Middle(s, t) ==
    LET halved == s.middle_max \div 2
    IN  IF s.middle_count # s.middle_max THEN [s EXCEPT !.middle_count = @ + 1]
        ELSE [s EXCEPT !.middle_count = 0, !.middle_start = t,
                       !.middle_max = IF t - s.middle_start < Second THEN 2 * @
                                      ELSE IF halved < 2 THEN 2 ELSE halved]

\* command_stat::span
Span(s, span, t) ==
    LET tv == _correct(span)
        mean == <<(s.average[1] + tv[1]) \div 2, (s.average[2] + tv[2]) \div 2>>
    IN  [Middle(s, t) EXCEPT
            !.count = @ + 1,
            !.last = tv,
            !.max = IF Before(@, tv) THEN tv ELSE @,
            !.min = IF Before(tv, @) THEN tv ELSE @,
            !.average = IF @ = Zero THEN tv ELSE _correct(mean),
            !.sum = _correct(<<@[1] + tv[1], @[2] + tv[2]>>)]

\* mutant of get_span: no second is borrowed
get_spanWhole(t0, t1) ==
    LET a == Timeval(t0) b == Timeval(t1)
    IN  <<b[1] - a[1], IF a[2] < b[2] THEN b[2] - a[2] ELSE a[2] - b[2]>>

\* ad_clock_start::get_span: when the microseconds of the start are past
\* those of the end a second is borrowed, and the difference is taken the
\* other way round.
get_span(t0, t1) ==
    LET a == Timeval(t0) b == Timeval(t1)
    IN  <<b[1] - a[1] - (IF a[2] > b[2] THEN 1 ELSE 0),
          IF a[2] < b[2] THEN b[2] - a[2] ELSE a[2] - b[2]>>

Tick ==
    /\ now < MaxTime
    /\ now' = now + 1
    /\ UNCHANGED <<busy, start, marked, imark, stats, done, calls>>

\* ad_invoke::_invoke: clock_start, then the handler
Begin(t, m) ==
    /\ busy[t] = Idle /\ calls < MaxCalls
    /\ busy' = [busy EXCEPT ![t] = m]
    /\ start' = [start EXCEPT ![t] = now]
    /\ calls' = calls + 1
    /\ UNCHANGED <<now, marked, imark, stats, done>>

\* common_stat_mtx::mark
Mark(t) ==
    /\ busy[t] # Idle /\ t \notin marked
    /\ imark' = busy[t]
    /\ marked' = marked \cup {t}
    /\ UNCHANGED <<now, busy, start, stats, done, calls>>

\* mutant of marked_span: the mark is not taken back
marked_spanKeeping(span) ==
    /\ stats' = IF imark = NoMark THEN stats ELSE [stats EXCEPT ![imark] = Span(@, span, now)]
    /\ imark' = imark

\* common_stat::marked_span, operator[]
marked_span(span) ==
    /\ stats' = IF imark = NoMark THEN stats ELSE [stats EXCEPT ![imark] = Span(@, span, now)]
    /\ imark' = NoMark

\* ad_clock_finish::_finalize, common_stat_mtx::marked_span
Finish(t) ==
    /\ t \in marked
    /\ marked_span(get_span(start[t], now))
    /\ done' = Append(done, <<busy[t], start[t], now>>)
    /\ marked' = marked \ {t}
    /\ busy' = [busy EXCEPT ![t] = Idle]
    /\ start' = [start EXCEPT ![t] = 0]
    /\ UNCHANGED <<now, calls>>

Init ==
    /\ now = 0 /\ imark = NoMark /\ marked = {} /\ calls = 0
    /\ busy = [t \in Thread |-> Idle]
    /\ start = [t \in Thread |-> 0]
    /\ stats = [m \in Methods |-> Clear(0)]
    /\ done = <<>>

Next == Tick \/ \E t \in Thread : Mark(t) \/ Finish(t) \/ \E m \in Methods : Begin(t, m)

----------------------------------------------------------------------------

\* One thread's records against the clock: the record of a method has exactly the times its
\* calls took, their number, the last, the smallest, the largest and, in normal form, their sum.
\* A call that begins later in its second than it ends in another (wrapped) is measured wrongly
\* by get_span, by less than a second, and only such calls are.
StatsOfMethod ==
    Cardinality(Thread) = 1 => \A m \in Methods :
        LET d == SelectSeq(done, LAMBDA c : c[1] = m)
            s == stats[m]
            took(c) == c[3] - c[2]
            off(c) == IF Timeval(c[2])[2] > Timeval(c[3])[2] THEN Second - 1 ELSE 0
            Within(a, b, slack) == b - slack <= a /\ a <= b + slack
            sum == MapThenSumSet(LAMBDA i : took(d[i]), DOMAIN d)
            slack == MapThenSumSet(LAMBDA i : off(d[i]), DOMAIN d)
            Has(tv) == \E i \in DOMAIN d : Within(Units(tv), took(d[i]), off(d[i]))
        IN  /\ s.count = Len(d)
            /\ Within(Units(s.sum), sum, slack) /\ s.sum[2] < Second
            /\ d # <<>> =>
                /\ Within(Units(s.last), took(d[Len(d)]), off(d[Len(d)]))
                /\ \A i \in DOMAIN d :
                    Units(s.min) - off(d[i]) <= took(d[i]) /\ took(d[i]) <= Units(s.max) + off(d[i])
                /\ Has(s.min) /\ Has(s.max)

\* Several threads share one mark, and a span goes to the method marked last.  Still no span is
\* counted twice, no method gets more spans than it was marked for, of the calls of n threads one in
\* n is counted at least, and a mark is that of a call between its mark and its clock_finish: no
\* later call inherits it.
CountedOnce ==
    LET marks(m) == Cardinality({i \in DOMAIN done : done[i][1] = m})
                    + Cardinality({t \in marked : busy[t] = m})
        total == MapThenSumSet(LAMBDA m : stats[m].count, Methods)
    IN  /\ \A m \in Methods : stats[m].count <= marks(m)
        /\ total <= Len(done) /\ Len(done) <= Cardinality(Thread) * total
        /\ imark # NoMark => \E t \in marked : busy[t] = imark

=============================================================================
