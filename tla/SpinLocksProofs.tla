-------------------------- MODULE SpinLocksProofs ---------------------------
(***************************************************************************)
(* Proofs about SpinLocks for any number of threads.                       *)
(***************************************************************************)
EXTENDS SpinLocks, FiniteSetTheorems, TLAPS

Place == {"out", "drain", "writing", "enter", "reading"}

\* The variables have their types, beside the two properties.
LockInv ==
  /\ wvalue \in BOOLEAN /\ rvalue \in Int /\ at \in [Thread -> Place]
  /\ OneWriter /\ CountsReaders

\* At first every thread is outside.
LEMMA LockInvInit == Init => LockInv
<1> SUFFICES ASSUME Init PROVE LockInv
  OBVIOUS
<1>1. wvalue = FALSE /\ rvalue = 0 /\ at = [t \in Thread |-> "out"]
  BY DEF Init
<1>2. At("reading") = {} /\ At("drain") = {} /\ At("writing") = {}
  BY <1>1 DEF At
<1>3. CountsReaders
  BY <1>1, <1>2, FS_EmptySet DEF CountsReaders
<1>4. OneWriter
  BY <1>1, <1>2 DEF OneWriter
<1>5. at \in [Thread -> Place]
  BY <1>1 DEF Place
<1>6. rvalue \in Int
  BY <1>1
<1>7. wvalue \in BOOLEAN
  BY <1>1, Zenon
<1>8. QED
  BY <1>3, <1>4, <1>5, <1>6, <1>7 DEF LockInv

\* A thread that goes from p to q leaves the threads at other places where they are.
LEMMA GoMoves ==
  ASSUME LockInv, NEW t \in Thread, NEW p \in Place, NEW q \in Place, p # q, Go(t, p, q)
  PROVE  /\ at' \in [Thread -> Place]
         /\ t \in At(p) /\ At(p)' = At(p) \ {t}
         /\ t \notin At(q) /\ At(q)' = At(q) \cup {t}
         /\ \A r \in Place \ {p, q} : At(r)' = At(r)
  BY DEF LockInv, Go, At

\* A step that neither enters nor leaves "reading" leaves the count alone.
LEMMA ReadersStay ==
  ASSUME CountsReaders, At("reading")' = At("reading"), rvalue' = rvalue
  PROVE  CountsReaders'
  BY DEF CountsReaders

\* A step that touches neither the flag nor the writers leaves OneWriter alone.
LEMMA WritersStay ==
  ASSUME OneWriter, At("drain")' = At("drain"), At("writing")' = At("writing"), wvalue' = wvalue
  PROVE  OneWriter'
  BY DEF OneWriter

\* Every step keeps the invariant.
LEMMA LockInvNext == IsFiniteSet(Thread) /\ LockInv /\ [Next]_vars => LockInv'
<1> SUFFICES ASSUME IsFiniteSet(Thread), LockInv, [Next]_vars PROVE LockInv'
  OBVIOUS
<1> USE DEF LockInv
<1>1. IsFiniteSet(At("reading"))
  BY FS_Subset DEF At
<1>2. ASSUME NEW t \in Thread, Exchange(t) PROVE LockInv'
  <2>1. ~wvalue /\ wvalue' = TRUE /\ rvalue' = rvalue /\ Go(t, "out", "drain")
    BY <1>2 DEF Exchange
  <2>2. /\ at' \in [Thread -> Place] /\ At("drain")' = At("drain") \cup {t}
        /\ At("writing")' = At("writing") /\ At("reading")' = At("reading")
    BY <2>1, GoMoves DEF Place
  <2>3. At("drain") = {} /\ At("writing") = {}
    BY <2>1 DEF OneWriter
  <2>4. OneWriter'
    BY <2>1, <2>2, <2>3 DEF OneWriter
  <2>5. QED
    BY <2>1, <2>2, <2>4, ReadersStay
<1>3. ASSUME NEW t \in Thread, Drained(t) PROVE LockInv'
  <2>1. wvalue' = wvalue /\ rvalue' = rvalue /\ Go(t, "drain", "writing")
    BY <1>3 DEF Drained
  <2>2. /\ at' \in [Thread -> Place] /\ t \in At("drain") /\ At("drain")' = At("drain") \ {t}
        /\ At("writing")' = At("writing") \cup {t} /\ At("reading")' = At("reading")
    BY <2>1, GoMoves DEF Place
  <2>3. OneWriter'
    BY <2>1, <2>2 DEF OneWriter
  <2>4. QED
    BY <2>1, <2>2, <2>3, ReadersStay
<1>4. ASSUME NEW t \in Thread, Unlock(t) PROVE LockInv'
  <2>1. wvalue' = FALSE /\ rvalue' = rvalue /\ Go(t, "writing", "out")
    BY <1>4 DEF Unlock
  <2>2. /\ at' \in [Thread -> Place] /\ t \in At("writing") /\ At("writing")' = At("writing") \ {t}
        /\ At("drain")' = At("drain") /\ At("reading")' = At("reading")
    BY <2>1, GoMoves DEF Place
  <2>3. At("drain") \cup At("writing") = {t}
    BY <2>2 DEF OneWriter
  <2>4. t \notin At("drain")
    BY <2>2 DEF At
  <2>5. OneWriter'
    BY <2>1, <2>2, <2>3, <2>4 DEF OneWriter
  <2>6. QED
    BY <2>1, <2>2, <2>5, ReadersStay
<1>5. ASSUME NEW t \in Thread, NoWriter(t) PROVE LockInv'
  <2>1. wvalue' = wvalue /\ rvalue' = rvalue /\ Go(t, "out", "enter")
    BY <1>5 DEF NoWriter
  <2>2. /\ at' \in [Thread -> Place] /\ At("writing")' = At("writing")
        /\ At("drain")' = At("drain") /\ At("reading")' = At("reading")
    BY <2>1, GoMoves DEF Place
  <2>3. QED
    BY <2>1, <2>2, WritersStay, ReadersStay
<1>6. ASSUME NEW t \in Thread, Enter(t) PROVE LockInv'
  <2>1. wvalue' = wvalue /\ rvalue' = rvalue + 1 /\ Go(t, "enter", "reading")
    BY <1>6 DEF Enter
  <2>2. /\ at' \in [Thread -> Place] /\ At("writing")' = At("writing")
        /\ At("drain")' = At("drain")
        /\ t \notin At("reading") /\ At("reading")' = At("reading") \cup {t}
    BY <2>1, GoMoves DEF Place
  <2>3. Cardinality(At("reading") \cup {t}) = Cardinality(At("reading")) + 1
    BY <1>1, <2>2, FS_AddElement
  <2>4. CountsReaders'
    BY <2>1, <2>2, <2>3 DEF CountsReaders
  <2>5. QED
    BY <2>1, <2>2, <2>4, WritersStay
<1>7. ASSUME NEW t \in Thread, UnlockR(t) PROVE LockInv'
  <2>1. wvalue' = wvalue /\ rvalue' = rvalue - 1 /\ Go(t, "reading", "out")
    BY <1>7 DEF UnlockR
  <2>2. /\ at' \in [Thread -> Place] /\ At("writing")' = At("writing")
        /\ At("drain")' = At("drain")
        /\ t \in At("reading") /\ At("reading")' = At("reading") \ {t}
    BY <2>1, GoMoves DEF Place
  <2>3. Cardinality(At("reading") \ {t}) = Cardinality(At("reading")) - 1
    BY <1>1, <2>2, FS_RemoveElement
  <2>4. CountsReaders'
    BY <2>1, <2>2, <2>3 DEF CountsReaders
  <2>5. QED
    BY <2>1, <2>2, <2>4, WritersStay
<1>8. CASE UNCHANGED vars
  BY <1>8 DEF vars, OneWriter, CountsReaders, At
<1>9. QED
  BY <1>2, <1>3, <1>4, <1>5, <1>6, <1>7, <1>8 DEF Next

\* However many threads lock, unlock, lock_r and unlock_r a multispinlock, there is one
\* writer at a time, the flag is set as long as there is one, and rvalue counts the
\* readers that have entered.
THEOREM LockSafety == IsFiniteSet(Thread) => (Spec => [](OneWriter /\ CountsReaders))
<1> SUFFICES ASSUME IsFiniteSet(Thread) PROVE Spec => [](OneWriter /\ CountsReaders)
  OBVIOUS
<1>1. LockInv /\ [Next]_vars => LockInv'
  BY LockInvNext
<1>2. LockInv => OneWriter /\ CountsReaders
  BY DEF LockInv
<1>3. QED
  BY <1>1, <1>2, LockInvInit, PTL DEF Spec
=============================================================================
