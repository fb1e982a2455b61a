CONSTANTS
    p1 = p1
    p2 = p2
    t1 = t1
    t2 = t2
    t3 = t3
SPECIFICATION Spec
CHECK_DEADLOCK FALSE
INVARIANTS AnswersItsCall BytesKeepOrder StatsOfMethod OneWriter EveryoneIsServed ReadsSeeStore ReadyBeforeServing
PROPERTIES CallsEnd AllOrNothing SlaveReturns
