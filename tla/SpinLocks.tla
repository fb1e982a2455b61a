----------------------------- MODULE SpinLocks ------------------------------
(***************************************************************************)
(* common/lock_atomic.hpp.  A spinlock is an atomic flag; a multispinlock  *)
(* adds a counter of readers.  Each access to an atomic is one step, a     *)
(* spinning thread repeats the step.  The writer side of multispinlock     *)
(* with no readers is spinlock (and longspinlock, the lock of              *)
(* LockManager).                                                           *)
(***************************************************************************)
EXTENDS Integers, FiniteSets

CONSTANT Thread

VARIABLES
    wvalue,         \* multispinlock::wvalue, spinlock::value
    rvalue,         \* multispinlock::rvalue
    at              \* where each thread is

vars == <<wvalue, rvalue, at>>

At(p) == {t \in Thread : at[t] = p}
Go(t, p, q) == at[t] = p /\ at' = [at EXCEPT ![t] = q]

Init == wvalue = FALSE /\ rvalue = 0 /\ at = [t \in Thread |-> "out"]

\* mutant of Exchange: the flag is read and set in two steps
ExchangeTwoSteps(t) ==
    \/ ~wvalue /\ Go(t, "out", "set") /\ UNCHANGED <<wvalue, rvalue>>
    \/ wvalue' = TRUE /\ Go(t, "set", "drain") /\ UNCHANGED rvalue

\* multispinlock::lock and spinlock::lock: wvalue.exchange(true) finds false.
Exchange(t) ==
    /\ ~wvalue
    /\ wvalue' = TRUE
    /\ Go(t, "out", "drain")
    /\ UNCHANGED rvalue

\* multispinlock::lock: rvalue.load() finds 0.
Drained(t) ==
    /\ rvalue = 0
    /\ Go(t, "drain", "writing")
    /\ UNCHANGED <<wvalue, rvalue>>

\* multispinlock::unlock and spinlock::unlock
Unlock(t) ==
    /\ Go(t, "writing", "out")
    /\ wvalue' = FALSE
    /\ UNCHANGED rvalue

\* spinlock::try_lock that finds the flag set changes nothing; one that finds
\* it clear is Exchange.

\* multispinlock::lock_r: wvalue.load() finds false, then rvalue++.
NoWriter(t) ==
    /\ ~wvalue
    /\ Go(t, "out", "enter")
    /\ UNCHANGED <<wvalue, rvalue>>

Enter(t) ==
    /\ Go(t, "enter", "reading")
    /\ rvalue' = rvalue + 1
    /\ UNCHANGED wvalue

\* mutant of UnlockR: the counter is cleared
UnlockRAll(t) ==
    /\ Go(t, "reading", "out")
    /\ rvalue' = 0
    /\ UNCHANGED wvalue

\* multispinlock::unlock_r
UnlockR(t) ==
    /\ Go(t, "reading", "out")
    /\ rvalue' = rvalue - 1
    /\ UNCHANGED wvalue

Next ==
    \E t \in Thread :
        Exchange(t) \/ Drained(t) \/ Unlock(t) \/ NoWriter(t) \/ Enter(t) \/ UnlockR(t)

Spec == Init /\ [][Next]_vars

----------------------------------------------------------------------------

\* "lock/unlock - запись (только один писатель)": one writer at a time, and
\* the flag is set exactly as long as there is one.
OneWriter ==
    /\ \A t, u \in At("drain") \cup At("writing") : t = u
    /\ wvalue <=> At("drain") \cup At("writing") # {}

\* The counter is the number of threads that read, so a writer waits for all
\* the readers it can see.  (A reader between the two steps of lock_r is not
\* counted: it and the writer can be inside together.)
CountsReaders == rvalue = Cardinality(At("reading"))

=============================================================================
