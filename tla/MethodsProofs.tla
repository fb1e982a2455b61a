--------------------------- MODULE MethodsProofs ---------------------------
(***************************************************************************)
(* The methods that lock are atomic on the keys set and del leave alone,   *)
(* and update_packed hands its changes on in order: for any keys, locks,   *)
(* hash, workers and requests.                                             *)
(***************************************************************************)
EXTENDS Methods, TLAPS

\* A worker that is about to Put has something to store.
HasValue ==
  \A w \in Worker : pc[w] = "put" /\ ~dead => ~Throws(cmd[w], seen[w]) /\ ~LeavesAlone(cmd[w], seen[w])

LInv ==
  /\ ControlType /\ DOMAIN db = Key /\ DOMAIN seen = Worker
  /\ HoldsLock /\ HasValue /\ NoLostUpdate

\* The invariant holds before the first request.
LEMMA LInvInit == Init => LInv
<1> SUFFICES ASSUME Init PROVE LInv
  OBVIOUS
<1>1. ControlType
  BY DEF Init, ControlType, PC, Inside
<1>2. DOMAIN db = Key
  BY StoreAssumption DEF Init, IsStore
<1>3. QED
  BY <1>1, <1>2 DEF Init, LInv, HoldsLock, HasValue, NoLostUpdate, Inside

\* Two workers are never at keys with the same lock.
LEMMA OneInside ==
  ASSUME HoldsLock, NEW v \in Worker, NEW w \in Worker, Inside(v), Inside(w),
         Hash[key[v]] = Hash[key[w]]
  PROVE  v = w
  BY DEF HoldsLock

\* A request goes through keys of the store.
LEMMA KeysType ==
  ASSUME NEW c \in Cmd
  PROVE  Keys(c) \subseteq Key
  BY CmdAssumption DEF IsCommand, Keys, Gives

\* A request that begins is at no key yet.
LEMMA LBegin ==
  ASSUME LInv, NEW w \in Worker, NEW c \in Cmd, Begin(w, c)
  PROVE  LInv'
<1>1. ControlType'
  BY KeysType DEF LInv, ControlType, Begin, Inside, PC
<1>2. DOMAIN db' = Key /\ DOMAIN seen' = Worker
  BY DEF LInv, Begin
<1>3. HoldsLock'
  BY DEF LInv, ControlType, HoldsLock, Begin, Inside
<1>4. HasValue'
  BY DEF LInv, ControlType, HasValue, Begin
<1>5. NoLostUpdate'
  BY DEF LInv, ControlType, NoLostUpdate, Begin
<1>6. QED
  BY <1>1, <1>2, <1>3, <1>4, <1>5 DEF LInv

\* A worker that takes a lock finds it free.
LEMMA LAcquire ==
  ASSUME LInv, NEW w \in Worker, NEW k \in Key, Acquire(w, k)
  PROVE  LInv'
<1>1. ControlType'
  BY DEF LInv, ControlType, Acquire, Inside, PC
<1>2. DOMAIN db' = Key /\ DOMAIN seen' = Worker
  BY DEF LInv, Acquire
<1>3. HoldsLock'
  BY FreeAssumption, HashAssumption DEF LInv, ControlType, HoldsLock, Acquire, Inside
<1>4. HasValue'
  BY DEF LInv, ControlType, HasValue, Acquire
<1>5. NoLostUpdate'
  BY DEF LInv, ControlType, NoLostUpdate, Acquire
<1>6. QED
  BY <1>1, <1>2, <1>3, <1>4, <1>5 DEF LInv

\* After the Get the worker has seen what is there.
LEMMA LGet ==
  ASSUME LInv, NEW w \in Worker, Get(w)
  PROVE  LInv'
<1>1. ControlType'
  <2>1. dead' \in BOOLEAN
    BY DEF Get, Throws
  <2>2. QED
    BY <2>1 DEF LInv, ControlType, Get, Inside, PC
<1>2. DOMAIN db' = Key /\ DOMAIN seen' = Worker
  BY DEF LInv, Get
<1>3. HoldsLock'
  BY DEF LInv, ControlType, HoldsLock, Get, Inside
<1>4. HasValue'
  BY DEF LInv, ControlType, HasValue, Get
<1>5. NoLostUpdate'
  BY DEF LInv, ControlType, NoLostUpdate, Get
<1>6. QED
  BY <1>1, <1>2, <1>3, <1>4, <1>5 DEF LInv

\* A Put changes the key of no other worker that is inside.
LEMMA LPut ==
  ASSUME LInv, NEW w \in Worker, Put(w)
  PROVE  LInv'
<1>1. ControlType'
  BY DEF LInv, ControlType, Put, PutOk, Inside, PC
<1>2. DOMAIN db' = Key /\ DOMAIN seen' = Worker
  BY DEF LInv, Put, PutOk
<1>3. HoldsLock'
  BY DEF LInv, ControlType, HoldsLock, Put, PutOk, Inside
<1>4. HasValue'
  BY DEF LInv, ControlType, HasValue, Put, PutOk
<1>5. NoLostUpdate'
  <2> SUFFICES ASSUME NEW v \in Worker, pc'[v] = "put", key[v] \in LockedKeys
               PROVE  db'[key[v]] = seen[v]
    BY DEF NoLostUpdate, Put
  <2>1. pc[v] = "put" /\ pc[w] = "put" /\ v # w
    BY DEF LInv, ControlType, Put, PutOk
  <2>2. key[v] # key[w]
    BY <2>1, OneInside DEF LInv, Inside
  <2>3. db'[key[v]] = db[key[v]]
    <3>1. DOMAIN db = Key /\ key[v] \in Key
      BY <2>1 DEF LInv, ControlType, Inside
    <3>2. QED
      BY <2>2, <3>1 DEF Put, PutOk
  <2>4. QED
    BY <2>1, <2>3 DEF LInv, NoLostUpdate
<1>6. QED
  BY <1>1, <1>2, <1>3, <1>4, <1>5 DEF LInv

\* set and del write no key that is only written under its lock.
LEMMA WriteElsewhere ==
  ASSUME LInv, NEW w \in Worker, NEW k \in Key, Write(w, k)
  PROVE  k \notin LockedKeys
<1>1. cmd[w] \in Cmd /\ k \in Keys(cmd[w]) /\ cmd[w].op \notin Locking
  BY DEF LInv, ControlType, Write
<1>2. QED
  BY <1>1 DEF LockedKeys

\* A Put or Delete without a lock leaves the keys of LockedKeys as they are.
LEMMA LWrite ==
  ASSUME LInv, NEW w \in Worker, NEW k \in Key, Write(w, k)
  PROVE  LInv'
<1>1. ControlType'
  BY DEF LInv, ControlType, Write, Inside, PC
<1>2. DOMAIN db' = Key /\ DOMAIN seen' = Worker
  BY DEF LInv, Write
<1>3. HoldsLock'
  BY DEF LInv, ControlType, HoldsLock, Write, Inside
<1>4. HasValue'
  BY DEF LInv, ControlType, HasValue, Write
<1>5. NoLostUpdate'
  <2>1. \A j \in Key : j \in LockedKeys => db'[j] = db[j]
    BY WriteElsewhere DEF LInv, Write
  <2>2. \A v \in Worker : pc[v] = "put" => key[v] \in Key
    BY DEF LInv, ControlType, Inside
  <2>3. QED
    BY <2>1, <2>2 DEF LInv, NoLostUpdate, Write
<1>6. QED
  BY <1>1, <1>2, <1>3, <1>4, <1>5 DEF LInv

\* Handing on under the lock changes neither store nor locks.
LEMMA LPacked ==
  ASSUME LInv, NEW w \in Worker, Packed_replicate(w)
  PROVE  LInv'
<1>1. ControlType'
  BY DEF LInv, ControlType, Packed_replicate, HandOn, Inside, PC
<1>2. DOMAIN db' = Key /\ DOMAIN seen' = Worker
  BY DEF LInv, Packed_replicate, HandOn
<1>3. HoldsLock'
  BY DEF LInv, ControlType, HoldsLock, Packed_replicate, HandOn, Inside
<1>4. HasValue'
  BY DEF LInv, ControlType, HasValue, Packed_replicate, HandOn
<1>5. NoLostUpdate'
  BY DEF LInv, ControlType, NoLostUpdate, Packed_replicate, HandOn
<1>6. QED
  BY <1>1, <1>2, <1>3, <1>4, <1>5 DEF LInv

\* A lock is released by the worker that holds it.
LEMMA LRelease ==
  ASSUME LInv, NEW w \in Worker, Release(w)
  PROVE  LInv'
<1>1. ControlType'
  BY DEF LInv, ControlType, Release, Inside, PC
<1>2. DOMAIN db' = Key /\ DOMAIN seen' = Worker
  BY DEF LInv, Release
<1>3. HoldsLock'
  BY DEF LInv, ControlType, HoldsLock, Release, Inside
<1>4. HasValue'
  BY DEF LInv, ControlType, HasValue, Release
<1>5. NoLostUpdate'
  BY DEF LInv, ControlType, NoLostUpdate, Release
<1>6. QED
  BY <1>1, <1>2, <1>3, <1>4, <1>5 DEF LInv

\* A worker that has finished is at no key.
LEMMA LFinish ==
  ASSUME LInv, NEW w \in Worker, Finish(w)
  PROVE  LInv'
<1>1. ControlType'
  BY DEF LInv, ControlType, Finish, HandOn, Inside, PC
<1>2. DOMAIN db' = Key /\ DOMAIN seen' = Worker
  BY DEF LInv, Finish, HandOn
<1>3. HoldsLock'
  BY DEF LInv, ControlType, HoldsLock, Finish, HandOn, Inside
<1>4. HasValue'
  BY DEF LInv, ControlType, HasValue, Finish, HandOn
<1>5. NoLostUpdate'
  BY DEF LInv, ControlType, NoLostUpdate, Finish, HandOn
<1>6. QED
  BY <1>1, <1>2, <1>3, <1>4, <1>5 DEF LInv

\* Every step keeps the invariant.
LEMMA LInvNext ==
  ASSUME LInv, [Next]_vars
  PROVE  LInv'
<1>1. CASE UNCHANGED vars
  BY <1>1 DEF LInv, vars, ControlType, HoldsLock, HasValue, NoLostUpdate, Inside
<1>2. ASSUME NEW w \in Worker, NEW c \in Cmd, Begin(w, c) PROVE LInv'
  BY <1>2, LBegin
<1>3. ASSUME NEW w \in Worker, Step(w) PROVE LInv'
  BY <1>3, LWrite, LAcquire, LGet, LPut, LPacked, LRelease, LFinish DEF Step
<1>4. QED
  BY <1>1, <1>2, <1>3 DEF Next

\* On every key that set and del leave alone, no Put of add, inc, inc_add or update_packed
\* overwrites a value its Get has not returned: the lock of the key is held from one to the
\* other.
THEOREM LockingSafety == Spec => [](HoldsLock /\ NoLostUpdate)
<1>1. Init => LInv
  BY LInvInit
<1>2. LInv /\ [Next]_vars => LInv'
  BY LInvNext
<1>3. LInv => HoldsLock /\ NoLostUpdate
  BY DEF LInv
<1>4. QED
  BY <1>1, <1>2, <1>3, PTL DEF Spec

-----------------------------------------------------------------------------
(* Refinement *)

\* The two modules compute with the same definitions.
LEMMA SameCommands ==
  ASSUME NEW c, NEW k, NEW old
  PROVE  /\ Atomic!Throws(c, old) <=> Throws(c, old)
         /\ Atomic!LeavesAlone(c, old) <=> LeavesAlone(c, old)
         /\ Atomic!Stored(c, k, old) = Stored(c, k, old)
         /\ Atomic!Keys(c) = Keys(c)
<1>1. \A v : (Atomic!IsInt(v) <=> IsInt(v)) /\ (Atomic!IsPacked(v) <=> IsPacked(v))
  BY DEF Atomic!IsInt, IsInt, Atomic!IsPacked, IsPacked
<1>2. Atomic!Repacked(c, old) = Repacked(c, old)
  BY Zenon DEF Atomic!Repacked, Repacked, Atomic!IsPacked, IsPacked
<1>3. Atomic!IncAdded(c, k, old) = IncAdded(c, k, old)
  BY Zenon DEF Atomic!IncAdded, IncAdded, Atomic!IsInt, IsInt
<1>4. Atomic!Stored(c, k, old) = Stored(c, k, old)
  BY <1>2, <1>3 DEF Atomic!Stored, Stored
<1>5. QED
  BY <1>1, <1>4 DEF Atomic!Throws, Throws, Atomic!LeavesAlone, LeavesAlone, Atomic!Keys, Keys

\* The part of the store that is written under locks only.
locked == [j \in LockedKeys |-> db[j]]

\* A successful Put is a step of AtomicStore, or changes another part of the store.
LEMMA PutIsChange ==
  ASSUME LInv, NEW w \in Worker, Put(w)
  PROVE  Atomic!Next \/ UNCHANGED locked
<1>1. CASE UNCHANGED db
  BY <1>1 DEF locked
<1>2. CASE db' = [db EXCEPT ![key[w]] = Stored(cmd[w], key[w], seen[w])]
  <2> DEFINE v0 == Stored(cmd[w], key[w], seen[w])
  <2>1. /\ cmd[w] \in Cmd /\ key[w] \in Keys(cmd[w]) /\ DOMAIN db = Key /\ key[w] \in Key
        /\ ~Throws(cmd[w], seen[w]) /\ ~LeavesAlone(cmd[w], seen[w])
    BY DEF LInv, ControlType, HasValue, Put, Inside
  <2>2. CASE key[w] \notin LockedKeys
    <3>1. \A k \in LockedKeys : db'[k] = db[k]
      BY <1>2, <2>1, <2>2 DEF LockedKeys
    <3>2. QED
      BY <3>1 DEF locked
  <2>3. CASE key[w] \in LockedKeys
    <3>1. seen[w] = locked[key[w]]
      BY <2>3 DEF LInv, NoLostUpdate, Put, locked
    <3>2. locked' = [locked EXCEPT ![key[w]] = v0]
      BY <1>2, <2>1, <2>3 DEF locked, LockedKeys
    <3>3. /\ ~Atomic!Throws(cmd[w], locked[key[w]]) /\ ~Atomic!LeavesAlone(cmd[w], locked[key[w]])
          /\ v0 = Atomic!Stored(cmd[w], key[w], locked[key[w]])
      BY <2>1, <3>1, SameCommands
    <3>4. key[w] \in Atomic!Keys(cmd[w]) \cap DOMAIN locked
      BY <2>1, <2>3, SameCommands DEF locked
    <3>5. QED
      <4> DEFINE c0 == cmd[w]
                 k0 == key[w]
      <4>1. /\ c0 \in Cmd /\ k0 \in Atomic!Keys(c0) \cap DOMAIN locked
            /\ ~Atomic!Throws(c0, locked[k0]) /\ ~Atomic!LeavesAlone(c0, locked[k0])
            /\ locked' = [locked EXCEPT ![k0] = Atomic!Stored(c0, k0, locked[k0])]
        BY <2>1, <3>2, <3>3, <3>4
      <4> HIDE DEF c0, k0
      <4>2. QED
        BY <4>1, Zenon DEF Atomic!Next, Atomic!Change, locked
  <2>4. QED
    BY <2>2, <2>3
<1>3. QED
  BY <1>1, <1>2 DEF Put, PutOk

\* The part of the store that only add, inc, inc_add and update_packed write changes as if
\* each request dealt with each of its keys in one step, from the value that is there:
\* Methods implements AtomicStore there.
THEOREM LockingIsAtomic == Spec => AtomicPerKey
<1>1. Init => LInv /\ Atomic!Init
  BY LInvInit DEF Init, Atomic!Init
<1>2. LInv /\ [Next]_vars => LInv'
  BY LInvNext
<1>3. LInv /\ [Next]_vars => [Atomic!Next]_locked
  <2> SUFFICES ASSUME LInv, [Next]_vars PROVE Atomic!Next \/ UNCHANGED locked
    OBVIOUS
  <2>1. db' = db => UNCHANGED locked
    BY DEF locked
  <2>2. CASE UNCHANGED vars
    BY <2>1, <2>2 DEF vars
  <2>3. ASSUME NEW w \in Worker, NEW c \in Cmd, Begin(w, c) PROVE UNCHANGED locked
    BY <2>1, <2>3 DEF Begin
  <2>4. ASSUME NEW w \in Worker, Step(w) PROVE Atomic!Next \/ UNCHANGED locked
    <3>1. CASE Put(w)
      BY <3>1, PutIsChange
    <3>2. ASSUME NEW k \in Key, Write(w, k) PROVE UNCHANGED locked
      <4>1. k \notin LockedKeys /\ DOMAIN db = Key
        BY <3>2, WriteElsewhere DEF LInv
      <4>2. \A j \in LockedKeys : db'[j] = db[j]
        BY <3>2, <4>1 DEF Write, LockedKeys
      <4>3. QED
        BY <4>2 DEF locked
    <3>3. QED
      BY <2>1, <2>4, <3>1, <3>2 DEF Step, Get, Packed_replicate, Release, Finish, Acquire
  <2>5. QED
    BY <2>2, <2>3, <2>4 DEF Next
<1>4. QED
  BY <1>1, <1>2, <1>3, PTL DEF Spec, AtomicPerKey, Atomic!Spec, locked

-----------------------------------------------------------------------------
(* The order of replication *)

\* A worker has a key of PackedKeys to hand on only between its Put and replication.set,
\* and then with the value the store holds.
Pending ==
  \A w \in Worker, k \in PackedKeys :
    /\ k \in DOMAIN repl[w] <=> pc[w] = "packed" /\ key[w] = k
    /\ k \in DOMAIN repl[w] => repl[w][k] = db[k]

PInv ==
  /\ LInv /\ DOMAIN mirror = Key /\ DOMAIN repl = Worker
  /\ Pending /\ HandedOnInOrder

\* What is handed on changes the mirror where it has a value, and there only.
LEMMA ApplyAt ==
  ASSUME NEW s, NEW f, NEW k \in Key
  PROVE  /\ k \in DOMAIN f => Apply(s, f)[k] = f[k]
         /\ k \notin DOMAIN f => Apply(s, f)[k] = s[k]
  BY DEF Apply

\* Workers at the same key of PackedKeys are one.
LEMMA OnePacked ==
  ASSUME LInv, NEW v \in Worker, NEW w \in Worker, Inside(v), Inside(w), key[v] = key[w]
  PROVE  v = w
  BY OneInside DEF LInv

\* A Put of a key of PackedKeys is update_packed's and is handed on at once; what set and
\* del write is no such key.
LEMMA PPut ==
  ASSUME PInv, LInv', NEW w \in Worker, Put(w)
  PROVE  PInv'
<1>1. /\ pc[w] = "put" /\ cmd[w] \in Cmd /\ key[w] \in Keys(cmd[w]) /\ key[w] \in Key
      /\ pc \in [Worker -> PC] /\ DOMAIN db = Key /\ DOMAIN repl = Worker
  BY DEF PInv, LInv, ControlType, Put, Inside
<1>2. mirror' = mirror /\ key' = key /\ \A v \in Worker : v # w => pc'[v] = pc[v]
  BY <1>1 DEF Put, PutOk
<1>3. PackedKeys \subseteq Key
  BY DEF PackedKeys
<1>4. CASE pc' = [pc EXCEPT ![w] = "unlock"] /\ UNCHANGED <<db, repl>>
  <2>1. Pending'
    BY <1>1, <1>2, <1>4 DEF PInv, Pending
  <2>2. HandedOnInOrder'
    BY <1>1, <1>2, <1>4 DEF PInv, HandedOnInOrder
  <2>3. QED
    BY <1>2, <1>4, <2>1, <2>2 DEF PInv
<1>5. CASE PutOk(w, IF cmd[w].op = "update_packed" THEN "packed" ELSE "unlock")
  <2> DEFINE v0 == Stored(cmd[w], key[w], seen[w])
  <2>1. /\ db' = [db EXCEPT ![key[w]] = v0] /\ DOMAIN repl' = Worker
        /\ repl'[w] = Put1(repl[w], key[w], v0)
        /\ \A v \in Worker : v # w => repl'[v] = repl[v]
        /\ pc'[w] = IF cmd[w].op = "update_packed" THEN "packed" ELSE "unlock"
    BY <1>1, <1>5 DEF PutOk
  <2> HIDE DEF v0
  <2>2. key[w] \in PackedKeys => pc'[w] = "packed"
    BY <1>1, <2>1 DEF PackedKeys
  <2>3. ASSUME NEW k \in PackedKeys, k # key[w] PROVE db'[k] = db[k]
    BY <1>1, <1>3, <2>1, <2>3
  <2>4. db'[key[w]] = v0
    BY <1>1, <2>1
  <2>5. ASSUME NEW v \in Worker, v # w, NEW k \in PackedKeys, k \in DOMAIN repl[v]
        PROVE  k # key[w]
    <3>1. pc[v] = "packed" /\ key[v] = k
      BY <2>5 DEF PInv, Pending
    <3>2. Inside(v) /\ Inside(w) /\ LInv
      BY <1>1, <3>1 DEF PInv, Inside
    <3>3. QED
      BY <2>5, <3>1, <3>2, OnePacked
  <2>6. \A k \in PackedKeys : k \notin DOMAIN repl[w]
    BY <1>1 DEF PInv, Pending
  <2>7. DOMAIN repl'[w] = DOMAIN repl[w] \cup {key[w]} /\ repl'[w][key[w]] = v0
    <3>1. /\ DOMAIN Put1(repl[w], key[w], v0) = DOMAIN repl[w] \cup {key[w]}
          /\ Put1(repl[w], key[w], v0)[key[w]] = v0
      BY DEF Put1
    <3>2. QED
      BY <2>1, <3>1
  <2>8. Pending'
    <3> SUFFICES ASSUME NEW v \in Worker, NEW k \in PackedKeys
                 PROVE  /\ k \in DOMAIN repl'[v] <=> pc'[v] = "packed" /\ key[v] = k
                        /\ k \in DOMAIN repl'[v] => repl'[v][k] = db'[k]
      BY <1>2 DEF Pending, PackedKeys
    <3>1. CASE v = w
      BY <2>2, <2>4, <2>6, <2>7, <3>1
    <3>2. CASE v # w
      BY <1>2, <2>1, <2>3, <2>5, <3>2 DEF PInv, Pending
    <3>3. QED
      BY <3>1, <3>2
  <2>9. HandedOnInOrder'
    <3> SUFFICES ASSUME NEW k \in PackedKeys,
                        \A v \in Worker : pc'[v] = "packed" => key[v] # k
                 PROVE  mirror[k] = db'[k]
      BY <1>2 DEF HandedOnInOrder, PackedKeys
    <3>1. k # key[w]
      BY <2>2
    <3>2. \A v \in Worker : pc[v] = "packed" => key[v] # k
      BY <1>1, <1>2
    <3>3. QED
      BY <2>3, <3>1, <3>2 DEF PInv, HandedOnInOrder
  <2>10. QED
    BY <1>2, <2>1, <2>8, <2>9 DEF PInv
<1>6. QED
  BY <1>4, <1>5 DEF Put

\* replication.set under the lock brings the mirror up to the store.
LEMMA PPacked ==
  ASSUME PInv, LInv', NEW w \in Worker, Packed_replicate(w)
  PROVE  PInv'
<1>1. /\ pc[w] = "packed" /\ pc \in [Worker -> PC] /\ DOMAIN repl = Worker
      /\ PackedKeys \subseteq Key
  BY DEF PInv, LInv, ControlType, Packed_replicate, PackedKeys
<1>2. /\ db' = db /\ key' = key /\ DOMAIN repl' = Worker /\ DOMAIN mirror' = Key
      /\ pc'[w] = "unlock" /\ repl'[w] = Empty /\ mirror' = Apply(mirror, repl[w])
      /\ \A v \in Worker : v # w => pc'[v] = pc[v] /\ repl'[v] = repl[v]
  BY <1>1 DEF Packed_replicate, HandOn, Apply
<1>3. Pending'
  <2> SUFFICES ASSUME NEW v \in Worker, NEW k \in PackedKeys
               PROVE  /\ k \in DOMAIN repl'[v] <=> pc'[v] = "packed" /\ key[v] = k
                      /\ k \in DOMAIN repl'[v] => repl'[v][k] = db[k]
    BY <1>2 DEF Pending, PackedKeys
  <2>1. CASE v = w
    BY <1>2, <2>1 DEF Empty
  <2>2. CASE v # w
    BY <1>2, <2>2 DEF PInv, Pending
  <2>3. QED
    BY <2>1, <2>2
<1>4. HandedOnInOrder'
  <2> SUFFICES ASSUME NEW k \in PackedKeys, \A v \in Worker : pc'[v] = "packed" => key[v] # k
               PROVE  mirror'[k] = db[k]
    BY <1>2 DEF HandedOnInOrder, PackedKeys
  <2>1. CASE key[w] = k
    <3>1. k \in DOMAIN repl[w] /\ repl[w][k] = db[k]
      BY <1>1, <2>1 DEF PInv, Pending
    <3>2. QED
      BY <1>1, <1>2, <3>1, ApplyAt
  <2>2. CASE key[w] # k
    <3>1. k \notin DOMAIN repl[w]
      BY <2>2 DEF PInv, Pending
    <3>2. mirror'[k] = mirror[k]
      BY <1>1, <1>2, <3>1, ApplyAt
    <3>3. \A v \in Worker : pc[v] = "packed" => key[v] # k
      BY <1>2, <2>2
    <3>4. QED
      BY <3>2, <3>3 DEF PInv, HandedOnInOrder
  <2>3. QED
    BY <2>1, <2>2
<1>5. QED
  BY <1>2, <1>3, <1>4 DEF PInv

\* The other steps hand on nothing that is in PackedKeys, and change no such key.
LEMMA POther ==
  ASSUME PInv, LInv', NEW w \in Worker,
         \A k \in PackedKeys : db'[k] = db[k] /\ mirror'[k] = mirror[k],
         DOMAIN mirror' = Key, DOMAIN repl' = Worker,
         \A v \in Worker : v # w => pc'[v] = pc[v] /\ repl'[v] = repl[v] /\ key'[v] = key[v],
         pc[w] # "packed", pc'[w] # "packed",
         \A k \in PackedKeys : k \notin DOMAIN repl'[w]
  PROVE  PInv'
<1>1. Pending'
  <2> SUFFICES ASSUME NEW v \in Worker, NEW k \in PackedKeys
               PROVE  /\ k \in DOMAIN repl'[v] <=> pc'[v] = "packed" /\ key'[v] = k
                      /\ k \in DOMAIN repl'[v] => repl'[v][k] = db'[k]
    BY DEF Pending, PackedKeys
  <2>1. CASE v = w
    BY <2>1
  <2>2. CASE v # w
    BY <2>2 DEF PInv, Pending
  <2>3. QED
    BY <2>1, <2>2
<1>2. HandedOnInOrder'
  <2> SUFFICES ASSUME NEW k \in PackedKeys, \A v \in Worker : pc'[v] = "packed" => key'[v] # k
               PROVE  mirror'[k] = db'[k]
    BY DEF HandedOnInOrder, PackedKeys
  <2>1. \A v \in Worker : pc[v] = "packed" => key[v] # k
    OBVIOUS
  <2>2. QED
    BY <2>1 DEF PInv, HandedOnInOrder
<1>3. QED
  BY <1>1, <1>2 DEF PInv

\* Every step keeps the invariant.
LEMMA PInvNext ==
  ASSUME PInv, [Next]_vars
  PROVE  PInv'
<1>1. LInv'
  BY LInvNext DEF PInv
<1>2. CASE UNCHANGED vars
  <2>1. db' = db /\ pc' = pc /\ key' = key /\ repl' = repl /\ mirror' = mirror
    BY <1>2 DEF vars
  <2>2. Pending' <=> Pending
    BY <2>1 DEF Pending, PackedKeys
  <2>3. HandedOnInOrder' <=> HandedOnInOrder
    BY <2>1 DEF HandedOnInOrder, PackedKeys
  <2>4. QED
    BY <1>1, <2>1, <2>2, <2>3 DEF PInv
<1>3. /\ pc \in [Worker -> PC] /\ key \in [Worker -> Key \cup {Nil}] /\ DOMAIN db = Key
      /\ DOMAIN repl = Worker /\ DOMAIN mirror = Key /\ PackedKeys \subseteq Key
  BY DEF PInv, LInv, ControlType, PackedKeys
<1>4. \A w \in Worker : pc[w] # "packed" => \A k \in PackedKeys : k \notin DOMAIN repl[w]
  BY DEF PInv, Pending
<1>5. ASSUME NEW w \in Worker, NEW c \in Cmd, Begin(w, c) PROVE PInv'
  BY <1>1, <1>3, <1>5, POther DEF Begin, Empty
<1>6. ASSUME NEW w \in Worker, Step(w) PROVE PInv'
  <2>1. CASE Put(w)
    BY <1>1, <2>1, PPut
  <2>2. CASE Packed_replicate(w)
    BY <1>1, <2>2, PPacked
  <2>3. CASE Get(w)
    BY <1>1, <1>3, <1>4, <2>3, POther DEF Get
  <2>4. CASE Release(w)
    BY <1>1, <1>3, <1>4, <2>4, POther DEF Release
  <2>5. CASE Finish(w)
    <3>1. /\ db' = db /\ key' = key /\ DOMAIN repl' = Worker /\ repl'[w] = Empty
          /\ \A v \in Worker : v # w => pc'[v] = pc[v] /\ repl'[v] = repl[v]
          /\ pc[w] = "next" /\ pc'[w] = "idle" /\ mirror' = Apply(mirror, repl[w])
      BY <1>3, <2>5 DEF Finish, HandOn
    <3>2. DOMAIN mirror' = Key
      BY <3>1 DEF Apply
    <3>3. \A k \in PackedKeys : mirror'[k] = mirror[k]
      BY <1>3, <1>4, <3>1, ApplyAt
    <3>4. \A k \in PackedKeys : k \notin DOMAIN repl'[w]
      BY <3>1 DEF Empty
    <3>5. QED
      BY <1>1, <3>1, <3>2, <3>3, <3>4, POther
  <2>6. ASSUME NEW k \in Key, Acquire(w, k) PROVE PInv'
    BY <1>1, <1>3, <1>4, <2>6, POther DEF Acquire
  <2>7. ASSUME NEW k \in Key, Write(w, k) PROVE PInv'
    <3>1. k \notin PackedKeys
      BY <2>7, WriteElsewhere DEF PInv, PackedKeys, LockedKeys, Locking
    <3>2. /\ pc[w] = "next" /\ pc' = pc /\ key' = key /\ mirror' = mirror /\ DOMAIN repl' = Worker
          /\ \A v \in Worker : v # w => repl'[v] = repl[v]
          /\ DOMAIN repl'[w] = DOMAIN repl[w] \cup {k}
      BY <1>3, <2>7 DEF Write, Put1
    <3>3. \A j \in PackedKeys : db'[j] = db[j]
      BY <1>3, <2>7, <3>1 DEF Write
    <3>4. \A j \in PackedKeys : j \notin DOMAIN repl'[w]
      BY <1>4, <3>1, <3>2
    <3>5. QED
      BY <1>1, <1>3, <3>2, <3>3, <3>4, POther
  <2>8. QED
    BY <1>6, <2>1, <2>2, <2>3, <2>4, <2>5, <2>6, <2>7 DEF Step
<1>7. QED
  BY <1>2, <1>5, <1>6 DEF Next

\* update_packed calls replication.set before it releases the key: where it is the only
\* writer, the queues of the clients and the store never disagree about a key but in
\* between, whatever is done to other keys.
THEOREM PackedOrder == Spec => []HandedOnInOrder
<1>1. Init => PInv
  <2> SUFFICES ASSUME Init PROVE PInv
    OBVIOUS
  <2>1. Pending /\ HandedOnInOrder /\ DOMAIN repl = Worker
    BY DEF Init, Pending, HandedOnInOrder, Empty, PackedKeys
  <2>2. DOMAIN mirror = Key
    BY StoreAssumption DEF Init, IsStore
  <2>3. QED
    BY <2>1, <2>2, LInvInit DEF PInv
<1>2. PInv /\ [Next]_vars => PInv'
  BY PInvNext
<1>3. PInv => HandedOnInOrder
  BY DEF PInv
<1>4. QED
  BY <1>1, <1>2, <1>3, PTL DEF Spec

-----------------------------------------------------------------------------
(* Types *)

\* A function that gives some elements a value gives it to those in its domain.
LEMMA GivesAt ==
  ASSUME NEW f, NEW D, NEW V, Gives(f, D, V)
  PROVE  DOMAIN f \subseteq D /\ \A x \in DOMAIN f : f[x] \in V
  BY DEF Gives

\* A packed structure from its fields.
LEMMA PackedFrom ==
  ASSUME NEW f, f = [x \in DOMAIN f |-> f[x]], DOMAIN f \subseteq Field,
         \A x \in DOMAIN f : f[x] \in Int \cup {Text}
  PROVE  IsPacked([packed |-> f])
<1>1. f \in [DOMAIN f -> Int \cup {Text}]
  OBVIOUS
<1>2. QED
  BY <1>1 DEF IsPacked

\* update_packed makes a packed structure of whatever was there.
LEMMA RepackedIsPacked ==
  ASSUME NEW c \in Cmd, c.op = "update_packed", NEW old
  PROVE  IsPacked(Repacked(c, old))
<1>1. Gives(c.inc, Field, Int) /\ Gives(c.set, Field, Int \cup {Text}) /\ Gives(c.def, Field, Int \cup {Text})
  BY CmdAssumption DEF IsCommand
<1> DEFINE data == IF IsPacked(old) THEN old.packed ELSE c.def
           Base(f) == IF f \in DOMAIN c.set THEN c.set[f]
                      ELSE IF f \in DOMAIN data THEN data[f] ELSE Text
           Num(f) == IF Base(f) \in Int THEN Base(f) ELSE 0
           D == DOMAIN data \cup DOMAIN c.set \cup DOMAIN c.inc
           F == [f \in D |-> IF f \in DOMAIN c.inc THEN Num(f) + c.inc[f] ELSE Base(f)]
<1>2. DOMAIN data \subseteq Field /\ \A f \in DOMAIN data : data[f] \in Int \cup {Text}
  BY <1>1, GivesAt DEF IsPacked
<1> HIDE DEF data
<1>3. ASSUME NEW f \in D PROVE Base(f) \in Int \cup {Text}
  BY <1>1, <1>2, GivesAt
<1>4. D \subseteq Field
  BY <1>1, <1>2, GivesAt
<1>5. ASSUME NEW f \in DOMAIN c.inc PROVE Num(f) + c.inc[f] \in Int
  <2>1. c.inc[f] \in Int
    BY <1>1, GivesAt
  <2>2. Num(f) \in Int
    OBVIOUS
  <2> HIDE DEF Num
  <2>3. QED
    BY <2>1, <2>2
<1> HIDE DEF Base, Num
<1>6. \A f \in D : F[f] \in Int \cup {Text}
  BY <1>3, <1>5
<1>7. IsPacked([packed |-> F])
  BY <1>4, <1>6, PackedFrom
<1>8. Repacked(c, old) = [packed |-> F]
  BY Zenon DEF Repacked, F, D, Num, Base, data
<1>9. QED
  BY <1>7, <1>8

\* What a request stores is a value, or Nil for a deletion.
LEMMA StoredIsValue ==
  ASSUME NEW c \in Cmd, NEW k \in Keys(c), NEW old, old = Nil \/ IsValue(old),
         ~Throws(c, old), ~LeavesAlone(c, old)
  PROVE  Stored(c, k, old) = Nil \/ IsValue(Stored(c, k, old))
<1>1. CASE c.op \in {"set", "add"}
  BY <1>1, CmdAssumption DEF IsCommand, Stored, Keys
<1>2. CASE c.op = "del"
  BY <1>2 DEF Stored
<1>3. CASE c.op = "inc"
  <2>1. IsInt(old)
    BY <1>3 DEF Throws, LeavesAlone
  <2>2. k \in DOMAIN c.inc /\ Gives(c.inc, Key, Int)
    BY <1>3, CmdAssumption DEF IsCommand, Keys
  <2>3. c.inc[k] \in Int /\ old.int \in Int
    BY <2>1, <2>2, GivesAt DEF IsInt
  <2>4. IsInt([int |-> old.int + c.inc[k]])
    BY <2>3 DEF IsInt
  <2>5. QED
    BY <1>3, <2>4 DEF Stored, IsValue
<1>4. CASE c.op = "inc_add"
  <2>1. k \in DOMAIN c.inc /\ Gives(c.inc, Key, Int) /\ Gives(c.def, Key, Int)
    BY <1>4, CmdAssumption DEF IsCommand, Keys
  <2>2. c.inc[k] \in Int /\ \A j \in DOMAIN c.def : c.def[j] \in Int
    BY <2>1, GivesAt
  <2> DEFINE base == IF IsInt(old) THEN old.int
                     ELSE IF old = Nil /\ k \in DOMAIN c.def THEN c.def[k] ELSE 0
  <2>3. base \in Int
    BY <2>2 DEF IsInt
  <2> HIDE DEF base
  <2>4. IsInt([int |-> base + c.inc[k]])
    BY <2>2, <2>3 DEF IsInt
  <2>5. Stored(c, k, old) = [int |-> base + c.inc[k]]
    BY <1>4 DEF Stored, IncAdded, base
  <2>6. QED
    BY <2>4, <2>5 DEF IsValue
<1>5. CASE c.op = "update_packed"
  BY <1>5, RepackedIsPacked DEF Stored, IsValue
<1>6. c.op \in {"set", "add", "del", "inc", "inc_add", "update_packed"}
  BY CmdAssumption DEF IsCommand
<1>7. QED
  BY <1>1, <1>2, <1>3, <1>4, <1>5, <1>6

\* A value, or none.
Entry(v) == v = Nil \/ IsValue(v)

\* What is handed on is a change of keys of the store.
IsChange(f) == DOMAIN f \subseteq Key /\ \A k \in DOMAIN f : Entry(f[k])

\* DataType in these words.
LEMMA DataTypeIs ==
  DataType <=> /\ DOMAIN db = Key /\ DOMAIN mirror = Key /\ DOMAIN seen = Worker /\ DOMAIN repl = Worker
               /\ \A k \in Key : Entry(db[k]) /\ Entry(mirror[k])
               /\ \A w \in Worker : Entry(seen[w]) /\ IsChange(repl[w])
  BY DEF DataType, IsStore, Entry, IsChange

\* Put1 adds one change.
LEMMA Put1Change ==
  ASSUME NEW f, IsChange(f), NEW k \in Key, NEW v, Entry(v)
  PROVE  IsChange(Put1(f, k, v))
  BY DEF IsChange, Put1

\* A store to which a change is applied is a store.
LEMMA ApplyStore ==
  ASSUME NEW s, \A k \in Key : Entry(s[k]), NEW f, IsChange(f)
  PROVE  DOMAIN Apply(s, f) = Key /\ \A k \in Key : Entry(Apply(s, f)[k])
  BY DEF IsChange, Apply

TInv == LInv /\ DataType

\* A request in progress stores values.
LEMMA TNext ==
  ASSUME TInv, LInv', [Next]_vars
  PROVE  DataType'
<1> DEFINE Shape == /\ DOMAIN db = Key /\ DOMAIN mirror = Key
                    /\ DOMAIN seen = Worker /\ DOMAIN repl = Worker
                    /\ \A k \in Key : Entry(db[k]) /\ Entry(mirror[k])
                    /\ \A w \in Worker : Entry(seen[w]) /\ IsChange(repl[w])
<1>1. Shape
  BY DataTypeIs DEF TInv
<1>2. Shape' => DataType'
  BY DataTypeIs, PTL
<1>3. IsChange(Empty) /\ Entry(Nil)
  BY DEF IsChange, Empty, Entry
<1>4. CASE UNCHANGED vars
  BY <1>1, <1>2, <1>4 DEF vars
<1>5. ASSUME NEW w \in Worker, NEW c \in Cmd, Begin(w, c) PROVE DataType'
  BY <1>1, <1>2, <1>3, <1>5 DEF Begin
<1>6. ASSUME NEW w \in Worker, Step(w) PROVE DataType'
  <2>1. CASE Get(w)
    <3>1. key[w] \in Key
      BY <2>1 DEF TInv, LInv, ControlType, Get, Inside
    <3>2. Entry(db[key[w]]) /\ seen' = [seen EXCEPT ![w] = db[key[w]]] /\ db' = db /\ mirror' = mirror /\ repl' = repl
      BY <1>1, <2>1, <3>1 DEF Get
    <3>3. QED
      BY <1>1, <1>2, <3>2
  <2>2. CASE Put(w)
    <3>1. /\ cmd[w] \in Cmd /\ key[w] \in Keys(cmd[w]) /\ key[w] \in Key
          /\ ~Throws(cmd[w], seen[w]) /\ ~LeavesAlone(cmd[w], seen[w])
      BY <2>2 DEF TInv, LInv, ControlType, HasValue, Put, Inside
    <3> DEFINE v0 == Stored(cmd[w], key[w], seen[w])
    <3>2. Entry(v0)
      BY <1>1, <3>1, StoredIsValue DEF Entry
    <3>3. /\ UNCHANGED <<mirror, seen>>
          /\ \/ UNCHANGED <<db, repl>>
             \/ /\ db' = [db EXCEPT ![key[w]] = v0]
                /\ repl' = [repl EXCEPT ![w] = Put1(@, key[w], v0)]
      BY <2>2 DEF Put, PutOk
    <3> HIDE DEF v0
    <3>4. IsChange(Put1(repl[w], key[w], v0))
      BY <1>1, <3>1, <3>2, Put1Change
    <3>5. QED
      BY <1>1, <1>2, <3>1, <3>2, <3>3, <3>4
  <2>3. CASE HandOn(w) /\ UNCHANGED <<db, seen>>
    <3>1. DOMAIN mirror' = Key /\ \A k \in Key : Entry(mirror'[k])
      BY <1>1, <2>3, ApplyStore DEF HandOn
    <3>2. QED
      BY <1>1, <1>2, <1>3, <2>3, <3>1 DEF HandOn
  <2>4. ASSUME NEW k \in Key, Write(w, k) PROVE DataType'
    <3>1. cmd[w] \in Cmd /\ k \in Keys(cmd[w]) /\ cmd[w].op \notin Locking
      BY <2>4 DEF TInv, LInv, ControlType, Write
    <3> DEFINE v0 == Stored(cmd[w], k, Nil)
    <3>2. Entry(v0)
      BY <3>1, StoredIsValue DEF Entry, Throws, LeavesAlone, Locking
    <3>3. /\ UNCHANGED <<mirror, seen>> /\ db' \in {db, [db EXCEPT ![k] = v0]}
          /\ repl' = [repl EXCEPT ![w] = Put1(@, k, v0)]
      BY <2>4 DEF Write
    <3> HIDE DEF v0
    <3>4. IsChange(Put1(repl[w], k, v0))
      BY <1>1, <3>2, Put1Change
    <3>5. QED
      BY <1>1, <1>2, <3>2, <3>3, <3>4
  <2>5. CASE UNCHANGED <<db, mirror, seen, repl>>
    BY <1>1, <1>2, <2>5
  <2>6. QED
    BY <1>6, <2>1, <2>2, <2>3, <2>4, <2>5 DEF Step, Packed_replicate, Finish, Release, Acquire
<1>7. QED
  BY <1>4, <1>5, <1>6 DEF Next

\* Stores, requests and what is handed on have their types, and a worker at a key is inside
\* the request that brought it there: for every set of well-formed requests.
THEOREM Types == Spec => []TypeOK
<1>1. Init => TInv
  <2> SUFFICES ASSUME Init PROVE TInv
    OBVIOUS
  <2>1. IsStore(db) /\ IsStore(mirror)
    BY StoreAssumption DEF Init
  <2>2. DataType
    BY <2>1 DEF Init, DataType, Empty
  <2>3. QED
    BY <2>2, LInvInit DEF TInv
<1>2. TInv /\ [Next]_vars => TInv'
  BY LInvNext, TNext DEF TInv
<1>3. TInv => TypeOK
  BY DEF TInv, LInv, TypeOK
<1>4. QED
  BY <1>1, <1>2, <1>3, PTL DEF Spec
=============================================================================
