-------------------------------- MODULE Locks --------------------------------
(***************************************************************************)
(* The threads of the daemon and the locks they hold.  A thread enters an  *)
(* object through one of the entries the daemon uses and makes calls, each *)
(* one deeper than the last; locks are scoped, so on the way down it only  *)
(* collects them, and whatever it did before at the same depth it did with *)
(* the locks it holds now.  Coming back is Finish: all locks at once.      *)
(*                                                                         *)
(* The graph of the calls is a parameter: CallGraph gives the daemon's.    *)
(***************************************************************************)
EXTENDS Integers, WellFoundedInduction, TLAPS

CONSTANTS
    Thread,
    EntryPoints,   \* the methods a thread starts with
    CalledBy,      \* CalledBy[n]: the methods that n may call
    Guard,         \* Guard[n]: the lock n takes before its calls, or Unguarded
    Unguarded,
    Shared,        \* the objects that have a mutex, because several threads use them
    Context,       \* every situation one thread alone can get into
    Rank,          \* Rank[l]: a thread takes locks by falling rank
    Gate           \* Gate[r]: without it a thread takes at most one lock of rank r

VARIABLES at,      \* at[t]: the method t is in, or Nowhere
          held,    \* held[t]: the locks t holds
          waits,   \* waits[t]: t has still to take the lock of the method
          framed   \* framed[t]: how often the data being written was framed
vars == <<at, held, waits, framed>>

Nowhere == <<"", "", "">>

Init == /\ at = [t \in Thread |-> Nowhere]
        /\ held = [t \in Thread |-> {}]
        /\ waits = [t \in Thread |-> FALSE]
        /\ framed = [t \in Thread |-> 0]

\* the data has been framed once more
Framed(n, count) == IF n[2] = "ad_rn_writer" /\ count < 2 THEN count + 1 ELSE count

GoTo(t, n) ==
    /\ at' = [at EXCEPT ![t] = n]
    /\ waits' = [waits EXCEPT ![t] = Guard[n] # Unguarded]
    /\ framed' = [framed EXCEPT ![t] = Framed(n, @)]
    /\ UNCHANGED held

Enter(t) == at[t] = Nowhere /\ \E n \in EntryPoints : GoTo(t, n)

Descend(t) == at[t] # Nowhere /\ ~waits[t] /\ \E n \in CalledBy[at[t]] : GoTo(t, n)

\* mutant of Acquire: the lock does not look whether it is held
AcquireHeld(t) ==
    /\ waits[t]
    /\ held' = [held EXCEPT ![t] = @ \cup {Guard[at[t]]}]
    /\ waits' = [waits EXCEPT ![t] = FALSE]
    /\ UNCHANGED <<at, framed>>

Acquire(t) ==
    /\ waits[t]
    /\ \E l \in {Guard[at[t]]} :
          /\ \A u \in Thread : l \notin held[u]
          /\ held' = [held EXCEPT ![t] = @ \cup {l}]
    /\ waits' = [waits EXCEPT ![t] = FALSE]
    /\ UNCHANGED <<at, framed>>

\* mutant of Finish: what a thread has locked stays locked
FinishLocked(t) ==
    /\ at[t] # Nowhere /\ ~waits[t]
    /\ at' = [at EXCEPT ![t] = Nowhere]
    /\ framed' = [framed EXCEPT ![t] = 0]
    /\ UNCHANGED <<held, waits>>

Finish(t) ==
    /\ at[t] # Nowhere /\ ~waits[t]
    /\ at' = [at EXCEPT ![t] = Nowhere]
    /\ held' = [held EXCEPT ![t] = {}]
    /\ framed' = [framed EXCEPT ![t] = 0]
    /\ UNCHANGED waits

Next == \E t \in Thread : Enter(t) \/ Descend(t) \/ Acquire(t) \/ Finish(t)

Spec == Init /\ [][Next]_vars

-----------------------------------------------------------------------------
(* No threads wait for each other, and none for a lock that it holds       *)
(* itself: the mutexes are not recursive, the objects call each other in   *)
(* both directions, and pool and queue are even locked in both orders,     *)
(* which only the server's own mutex makes safe.                           *)
NoCircularWait ==
    \A W \in (SUBSET Thread) \ {{}} :
        \E t \in W : ~waits[t] \/ \A u \in W : Guard[at[t]] \notin held[u]

\* A thread in method n that holds the locks h, the data it has to write framed count
\* times, may be there.
MayWrite(n, h, count) ==
    /\ n[2] = "ad_binary_write" /\ n[1] \in Shared => <<n[1], "mutex">> \in h \/ <<"", "client">> \in h
    /\ count <= 1
    /\ /\ n[2] \in {"ad_writer", "ad_udp_write", "multiserver::ad_writer"} /\ n[3] = "()"
       /\ n[1] # "front"
       => count = 1

\* t is writing to the object o, which several threads use.
Writes(t, o) == o \in Shared /\ at[t][1] = o /\ at[t][2] = "ad_binary_write"

\* t and u hold one of the two locks each, and none of them both.
Split(t, u, l, m) ==
    \/ l \in held[t] \ held[u] /\ m \in held[u] \ held[t]
    \/ m \in held[t] \ held[u] /\ l \in held[u] \ held[t]

(* A connection has at most two writers at once: one under its mutex and,  *)
(* beside it, one under the mutex of its replication client, which the     *)
(* detached thread of _schedule_queue holds alone (replication.hpp:108).   *)
(* Two threads that answer requests exclude each other, two that push for  *)
(* replication do so too, and a confirmation, which pushes with both locks *)
(* held, has the connection to itself; an answer and the detached thread   *)
(* do not exclude each other.  And every message is framed once between a  *)
(* method and the writer of its object, whether the object is a            *)
(* connection, the datagram server or one of a back thread, and never      *)
(* again behind it; only the errors the multiserver finds itself are not   *)
(* framed.                                                                 *)
WritesUnderLock ==
    /\ \A t \in Thread : MayWrite(at[t], held[t], framed[t])
    /\ \A t, u \in Thread, o \in Shared :
          t # u /\ Writes(t, o) /\ Writes(u, o) => Split(t, u, <<o, "mutex">>, <<"", "client">>)

-----------------------------------------------------------------------------
(* What one thread may do, as a matter of the graph alone.  The situation  *)
(* of a thread is the method it is in, the locks it holds, whether it has  *)
(* still to take the method's own, and how often its data was framed.      *)

Situation(n, h, w, count) == [at |-> n, held |-> h, waits |-> w, framed |-> count]
Outside == Situation(Nowhere, {}, FALSE, 0)

\* the situation of a thread that goes from c to the method n
Into(c, n) == Situation(n, c.held, Guard[n] # Unguarded, Framed(n, c.framed))

\* a thread in c may go to the methods
Ways(c) == IF c.at = Nowhere THEN EntryPoints ELSE CalledBy[c.at]

\* Context leaves nothing out: whatever a thread does takes it from Context to Context.
ContextIsClosed ==
    /\ Outside \in Context
    /\ \A c \in Context :
          /\ c.waits => Situation(c.at, c.held \cup {Guard[c.at]}, FALSE, c.framed) \in Context
          /\ c.waits => c.at # Nowhere
          /\ ~c.waits => \A n \in Ways(c) : Into(c, n) \in Context

\* No method takes a lock that its callers hold, and locks are taken by falling rank; a
\* lock is taken under another one of its rank only by the thread that has the gate.
LocksFall ==
    \A c \in Context : c.waits =>
        /\ Guard[c.at] \notin c.held
        /\ Rank[Guard[c.at]] \in Nat
        /\ \A l \in c.held :
              /\ Rank[l] \in Nat /\ Rank[Guard[c.at]] <= Rank[l]
              /\ Rank[Guard[c.at]] = Rank[l] => Gate[Rank[l]] \in c.held

\* On every path the locks and the framing are those that the writers rely on.
PathsMayWrite == \A c \in Context : MayWrite(c.at, c.held, c.framed)

\* The discipline of the graph, which TLC finds to hold of the daemon's.
Disciplined == ContextIsClosed /\ LocksFall /\ PathsMayWrite

ASSUME DisciplineAssumption == Disciplined

-----------------------------------------------------------------------------
(* From these facts about one thread, for any set of threads.              *)

\* The situation that t is in.
Now(t) == Situation(at[t], held[t], waits[t], framed[t])

\* Every thread is in a situation of Context, and no lock is held twice.
LocksInv ==
    /\ at = [t \in Thread |-> at[t]] /\ held = [t \in Thread |-> held[t]]
    /\ waits = [t \in Thread |-> waits[t]] /\ framed = [t \in Thread |-> framed[t]]
    /\ \A t \in Thread : Now(t) \in Context
    /\ \A t, u \in Thread : t # u => held[t] \cap held[u] = {}

\* A set of natural numbers that is not empty has a least element.
LEMMA Least ==
  ASSUME NEW T \in SUBSET Nat, T # {}
  PROVE  \E m \in T : \A n \in T : m <= n
<1>1. \E m \in T : \A n \in T : ~(<<n, m>> \in OpToRel(<, Nat))
  BY NatLessThanWellFounded, WFMin, Zenon
<1>2. \A m, n \in T : ~(<<n, m>> \in OpToRel(<, Nat)) => ~(n < m)
  BY DEF OpToRel
<1>3. \A m, n \in T : ~(n < m) => m <= n
  OBVIOUS
<1>4. QED
  BY <1>1, <1>2, <1>3, Zenon

\* At first no thread is anywhere.
LEMMA LocksInvInit == Init => LocksInv
<1> SUFFICES ASSUME ContextIsClosed, Init PROVE LocksInv
  BY DisciplineAssumption, Zenon DEF Disciplined
<1>1. /\ at = [t \in Thread |-> Nowhere] /\ held = [t \in Thread |-> {}]
      /\ waits = [t \in Thread |-> FALSE] /\ framed = [t \in Thread |-> 0]
  BY DEF Init
<1>2. \A t \in Thread : at[t] = Nowhere /\ held[t] = {} /\ waits[t] = FALSE /\ framed[t] = 0
  BY <1>1
<1>3. \A t \in Thread : Now(t) \in Context
  BY <1>2, Zenon DEF ContextIsClosed, Now, Outside
<1>4. QED
  BY <1>1, <1>2, <1>3 DEF LocksInv

\* A call that leaves the thread in a situation of Context keeps LocksInv.
LEMMA GoToKeeps ==
  ASSUME LocksInv, NEW t \in Thread, NEW n, GoTo(t, n), Into(Now(t), n) \in Context
  PROVE  LocksInv'
<1>1. /\ at = [u \in Thread |-> at[u]] /\ held = [u \in Thread |-> held[u]]
      /\ waits = [u \in Thread |-> waits[u]] /\ framed = [u \in Thread |-> framed[u]]
  BY DEF LocksInv
<1>2. /\ at' = [u \in Thread |-> IF u = t THEN n ELSE at[u]] /\ held' = held
      /\ waits' = [u \in Thread |-> IF u = t THEN Guard[n] # Unguarded ELSE waits[u]]
      /\ framed' = [u \in Thread |-> IF u = t THEN Framed(n, framed[t]) ELSE framed[u]]
  <2> HIDE DEF Framed
  <2>1. DOMAIN at = Thread /\ DOMAIN waits = Thread /\ DOMAIN framed = Thread
    BY <1>1, Zenon
  <2>2. at' = [u \in Thread |-> IF u = t THEN n ELSE at[u]]
    BY <2>1 DEF GoTo
  <2>3. waits' = [u \in Thread |-> IF u = t THEN Guard[n] # Unguarded ELSE waits[u]]
    BY <2>1, Zenon DEF GoTo
  <2>4. framed' = [u \in Thread |-> IF u = t THEN Framed(n, framed[t]) ELSE framed[u]]
    BY <2>1, Zenon DEF GoTo
  <2>5. QED
    BY <2>2, <2>3, <2>4 DEF GoTo
<1>3. ASSUME NEW u \in Thread, u # t PROVE Now(u)' \in Context
  <2>1. at'[u] = at[u] /\ held'[u] = held[u] /\ waits'[u] = waits[u] /\ framed'[u] = framed[u]
    BY <1>2, <1>3, Zenon
  <2>2. Now(u) \in Context
    BY Zenon DEF LocksInv
  <2>3. QED
    BY <2>1, <2>2, Zenon DEF Now
<1>4. Now(t)' \in Context
  <2>1. at'[t] = n /\ held'[t] = held[t] /\ waits'[t] = (Guard[n] # Unguarded) /\ framed'[t] = Framed(n, framed[t])
    BY <1>2, Zenon
  <2>2. Now(t).held = held[t] /\ Now(t).framed = framed[t]
    BY DEF Now, Situation
  <2>3. QED
    BY <2>1, <2>2, Zenon DEF Now, Into
<1>5. /\ at' = [u \in Thread |-> at'[u]] /\ waits' = [u \in Thread |-> waits'[u]]
      /\ framed' = [u \in Thread |-> framed'[u]] /\ held' = [u \in Thread |-> held'[u]]
  BY <1>1, <1>2, Zenon
<1>6. \A u, v \in Thread : u # v => held'[u] \cap held'[v] = {}
  BY <1>2, Zenon DEF LocksInv
<1>7. QED
  BY <1>3, <1>4, <1>5, <1>6, Zenon DEF LocksInv

\* The lock that a thread takes was held by nobody.
LEMMA AcquireKeeps ==
  ASSUME ContextIsClosed, LocksInv, NEW t \in Thread, Acquire(t)
  PROVE  LocksInv'
<1> DEFINE l == Guard[at[t]]
<1>1. /\ at = [u \in Thread |-> at[u]] /\ held = [u \in Thread |-> held[u]]
      /\ waits = [u \in Thread |-> waits[u]] /\ framed = [u \in Thread |-> framed[u]]
      /\ \A u \in Thread : Now(u) \in Context
      /\ \A u, v \in Thread : u # v => held[u] \cap held[v] = {}
  BY Zenon DEF LocksInv
<1>2. /\ waits[t] /\ at' = at /\ framed' = framed
      /\ \A u \in Thread : l \notin held[u]
      /\ held' = [u \in Thread |-> IF u = t THEN held[t] \cup {l} ELSE held[u]]
      /\ waits' = [u \in Thread |-> IF u = t THEN FALSE ELSE waits[u]]
  <2>1. DOMAIN held = Thread /\ DOMAIN waits = Thread
    BY <1>1, Zenon
  <2>2. QED
    BY <2>1, Zenon DEF Acquire
<1> HIDE DEF l
<1>3. ASSUME NEW u \in Thread, u # t PROVE Now(u)' \in Context
  <2>1. at'[u] = at[u] /\ held'[u] = held[u] /\ waits'[u] = waits[u] /\ framed'[u] = framed[u]
    BY <1>2, <1>3, Zenon
  <2>2. QED
    BY <1>1, <2>1, Zenon DEF Now
<1>4. Now(t)' \in Context
  <2>1. at'[t] = at[t] /\ held'[t] = held[t] \cup {l} /\ waits'[t] = FALSE /\ framed'[t] = framed[t]
    BY <1>2, Zenon
  <2>2. Now(t).at = at[t] /\ Now(t).held = held[t] /\ Now(t).waits = waits[t] /\ Now(t).framed = framed[t]
    BY DEF Now, Situation
  <2>3. Situation(at[t], held[t] \cup {Guard[at[t]]}, FALSE, framed[t]) \in Context
    BY <1>1, <1>2, <2>2, Zenon DEF ContextIsClosed
  <2>4. QED
    BY <2>1, <2>3, Zenon DEF Now, l
<1>5. /\ at' = [u \in Thread |-> at'[u]] /\ waits' = [u \in Thread |-> waits'[u]]
      /\ framed' = [u \in Thread |-> framed'[u]] /\ held' = [u \in Thread |-> held'[u]]
  BY <1>1, <1>2, Zenon
<1>6. \A u, v \in Thread : u # v => held'[u] \cap held'[v] = {}
  BY <1>1, <1>2
<1>7. QED
  BY <1>3, <1>4, <1>5, <1>6, Zenon DEF LocksInv

\* A thread that comes back is outside, without locks.
LEMMA FinishKeeps ==
  ASSUME ContextIsClosed, LocksInv, NEW t \in Thread, Finish(t)
  PROVE  LocksInv'
<1>1. /\ at = [u \in Thread |-> at[u]] /\ held = [u \in Thread |-> held[u]]
      /\ waits = [u \in Thread |-> waits[u]] /\ framed = [u \in Thread |-> framed[u]]
      /\ \A u \in Thread : Now(u) \in Context
      /\ \A u, v \in Thread : u # v => held[u] \cap held[v] = {}
  BY Zenon DEF LocksInv
<1>2. /\ ~waits[t] /\ waits' = waits
      /\ at' = [u \in Thread |-> IF u = t THEN Nowhere ELSE at[u]]
      /\ held' = [u \in Thread |-> IF u = t THEN {} ELSE held[u]]
      /\ framed' = [u \in Thread |-> IF u = t THEN 0 ELSE framed[u]]
  <2>1. DOMAIN at = Thread /\ DOMAIN held = Thread /\ DOMAIN framed = Thread
    BY <1>1, Zenon
  <2>2. QED
    BY <2>1, Zenon DEF Finish
<1>3. ASSUME NEW u \in Thread, u # t PROVE Now(u)' \in Context
  <2>1. at'[u] = at[u] /\ held'[u] = held[u] /\ waits'[u] = waits[u] /\ framed'[u] = framed[u]
    BY <1>2, <1>3, Zenon
  <2>2. QED
    BY <1>1, <2>1, Zenon DEF Now
<1>4. Now(t)' \in Context
  <2>1. at'[t] = Nowhere /\ held'[t] = {} /\ waits'[t] = FALSE /\ framed'[t] = 0
    BY <1>2
  <2>2. QED
    BY <2>1, Zenon DEF ContextIsClosed, Now, Outside
<1>5. /\ at' = [u \in Thread |-> at'[u]] /\ waits' = [u \in Thread |-> waits'[u]]
      /\ framed' = [u \in Thread |-> framed'[u]] /\ held' = [u \in Thread |-> held'[u]]
  BY <1>1, <1>2, Zenon
<1>6. \A u, v \in Thread : u # v => held'[u] \cap held'[v] = {}
  BY <1>1, <1>2
<1>7. QED
  BY <1>3, <1>4, <1>5, <1>6, Zenon DEF LocksInv

\* Every step of every thread keeps LocksInv.
LEMMA LocksInvNext == LocksInv /\ [Next]_vars => LocksInv'
<1> SUFFICES ASSUME ContextIsClosed, LocksInv, [Next]_vars PROVE LocksInv'
  BY DisciplineAssumption, Zenon DEF Disciplined
<1>1. ASSUME NEW t \in Thread, Enter(t) PROVE LocksInv'
  <2>1. PICK n \in EntryPoints : GoTo(t, n)
    BY <1>1, Zenon DEF Enter
  <2>2. Now(t) \in Context /\ Now(t).at = at[t] /\ Now(t).waits = waits[t] /\ at[t] = Nowhere
    BY <1>1 DEF LocksInv, Now, Situation, Enter
  <2>3. ~waits[t]
    BY <2>2, Zenon DEF ContextIsClosed
  <2>4. QED
    BY <2>1, <2>2, <2>3, GoToKeeps, Zenon DEF ContextIsClosed, Ways
<1>2. ASSUME NEW t \in Thread, Descend(t) PROVE LocksInv'
  <2>1. PICK n \in CalledBy[at[t]] : GoTo(t, n)
    BY <1>2, Zenon DEF Descend
  <2>2. Now(t) \in Context /\ Now(t).at = at[t] /\ Now(t).waits = waits[t]
    BY DEF LocksInv, Now, Situation
  <2>3. ~waits[t] /\ at[t] # Nowhere
    BY <1>2, Zenon DEF Descend
  <2>4. QED
    BY <2>1, <2>2, <2>3, GoToKeeps, Zenon DEF ContextIsClosed, Ways
<1>3. CASE UNCHANGED vars
  BY <1>3, Zenon DEF vars, LocksInv, Now
<1>4. QED
  BY <1>1, <1>2, <1>3, AcquireKeeps, FinishKeeps, Zenon DEF Next

\* LocksInv holds throughout.
LEMMA LocksInvariance == Spec => []LocksInv
  BY LocksInvInit, LocksInvNext, PTL DEF Spec

\* Locks that fall, with a gate where they do not, leave no circle of waiting threads: in
\* a circle some thread waits for a lock of the least rank.  The thread u that holds it
\* waits for a lock of that rank as well, and so does the thread that holds that one: both
\* have the gate, so they are the same, and it waits for a lock of its own.
LEMMA FallingLocks == LocksInv => NoCircularWait
<1> SUFFICES ASSUME LocksFall, LocksInv, ~NoCircularWait PROVE FALSE
  BY DisciplineAssumption, Zenon DEF Disciplined
<1>0. PICK W \in (SUBSET Thread) \ {{}} :
        \A t \in W : waits[t] /\ \E u \in W : Guard[at[t]] \in held[u]
  BY Zenon DEF NoCircularWait
<1> DEFINE want(t) == Guard[at[t]]
           T == {Rank[want(t)] : t \in W}
<1>1. ASSUME NEW t \in W
      PROVE  /\ want(t) \notin held[t] /\ Rank[want(t)] \in Nat
             /\ \A l \in held[t] : /\ Rank[l] \in Nat /\ Rank[want(t)] <= Rank[l]
                                   /\ Rank[want(t)] = Rank[l] => Gate[Rank[l]] \in held[t]
  <2>1. Now(t) \in Context /\ Now(t).at = at[t] /\ Now(t).waits = waits[t] /\ Now(t).held = held[t]
    BY <1>0, <1>1 DEF LocksInv, Now, Situation
  <2>2. waits[t]
    BY <1>0, <1>1, Zenon
  <2>3. QED
    BY <2>1, <2>2, Zenon DEF LocksFall
<1>2. T \in SUBSET Nat /\ T # {}
  <2>1. \A t \in W : Rank[want(t)] \in Nat
    BY <1>1, Zenon
  <2>2. T \subseteq Nat
    BY <2>1, Zenon
  <2>3. W # {}
    BY <1>0, Zenon
  <2>4. PICK w : w \in W
    BY <2>3, Zenon
  <2>5. Rank[want(w)] \in T
    BY <2>4, Zenon
  <2>6. QED
    BY <2>2, <2>5, Zenon
<1>3. PICK m \in T : \A n \in T : m <= n
  <2> HIDE DEF T
  <2> QED
    BY <1>2, Least, Zenon
<1>4. PICK t \in W : m = Rank[want(t)]
  BY <1>3, Zenon
<1>5. PICK u \in W : want(t) \in held[u]
  BY <1>0, <1>4, Zenon
<1>6. PICK v \in W : want(u) \in held[v]
  BY <1>0, <1>5, Zenon
<1>7. m \in Nat /\ m <= Rank[want(u)] /\ m <= Rank[want(v)]
  BY <1>2, <1>3, <1>5, <1>6, Zenon
<1> HIDE DEF want, T
<1>8. Rank[want(u)] = m /\ Gate[m] \in held[u]
  BY <1>1, <1>4, <1>5, <1>7
<1>9. Gate[m] \in held[v]
  <2>1. Rank[want(u)] \in Nat /\ Rank[want(v)] <= Rank[want(u)]
        /\ (Rank[want(v)] = Rank[want(u)] => Gate[Rank[want(u)]] \in held[v])
    BY <1>1, <1>6, Zenon
  <2>2. Rank[want(v)] \in Nat
    BY <1>1, Zenon
  <2>3. Rank[want(v)] = Rank[want(u)]
    BY <1>7, <1>8, <2>1, <2>2
  <2>4. QED
    BY <1>8, <2>1, <2>3, Zenon
<1>10. u = v
  BY <1>0, <1>8, <1>9 DEF LocksInv
<1>11. QED
  BY <1>1, <1>6, <1>10, Zenon

\* However many threads the daemon runs, no set of them waits in a circle, and none for a
\* lock it holds: each keeps to the discipline of the call graph.
THEOREM NoDeadlock == Spec => []NoCircularWait
  BY LocksInvariance, FallingLocks, PTL

\* However many threads the daemon runs, a connection has at most one writer under its
\* mutex and one under the mutex of a replication client, and no third one; and every
\* message is framed once.  That a path to the writer takes a lock is the discipline's; that
\* no two threads have it at once is LocksInv, since a lock is taken when nobody holds it and
\* kept until the thread has come back.
THEOREM WritersExclude == Spec => []WritesUnderLock
<1>1. LocksInv => WritesUnderLock
  <2> SUFFICES ASSUME LocksInv PROVE WritesUnderLock
    OBVIOUS
  <2>1. ASSUME NEW t \in Thread PROVE MayWrite(at[t], held[t], framed[t])
    <3>1. Now(t) \in Context /\ Now(t).at = at[t] /\ Now(t).held = held[t] /\ Now(t).framed = framed[t]
      BY DEF LocksInv, Now, Situation
    <3>2. QED
      BY <3>1, DisciplineAssumption, Zenon DEF Disciplined, PathsMayWrite
  <2>2. ASSUME NEW t \in Thread, NEW u \in Thread, NEW o \in Shared, t # u, Writes(t, o), Writes(u, o)
        PROVE  Split(t, u, <<o, "mutex">>, <<"", "client">>)
    <3>1. held[t] \cap held[u] = {}
      BY <2>2, Zenon DEF LocksInv
    <3>2. ASSUME NEW w \in {t, u} PROVE <<o, "mutex">> \in held[w] \/ <<"", "client">> \in held[w]
      <4>1. MayWrite(at[w], held[w], framed[w])
        BY <2>1, <2>2, Zenon
      <4>2. at[w][1] = o /\ at[w][2] = "ad_binary_write"
        BY <2>2, Zenon DEF Writes
      <4>3. QED
        BY <4>1, <4>2, Zenon DEF MayWrite
    <3>3. QED
      BY <3>1, <3>2, Zenon DEF Split
  <2>3. QED
    BY <2>1, <2>2, Zenon DEF WritesUnderLock
<1>2. QED
  BY <1>1, LocksInvariance, PTL
=============================================================================
