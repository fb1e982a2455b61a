------------------------------ MODULE Methods ------------------------------
(***************************************************************************)
(* The writing methods of src/src/fas_methods.hpp in the threads that run  *)
(* them, with the key locks of LockManager (src/src/db.hpp) and the order  *)
(* in which they hand their changes to the replication clients.            *)
(***************************************************************************)
EXTENDS Commands, FiniteSets

CONSTANTS
  Db0,           \* what the store holds at first
  Lock, Hash,    \* the locks, and the lock a key is hashed to
  Worker,        \* the threads that run methods
  Free,          \* no worker: the lock is free
  PutFails,      \* TRUE: a Put or Delete of LevelDB may return an error
  MaxReq         \* bound: requests run

\* What a store holds.
IsStore(s) == DOMAIN s = Key /\ \A k \in Key : s[k] = Nil \/ IsValue(s[k])

ASSUME StoreAssumption == IsStore(Db0)
ASSUME HashAssumption == Hash \in [Key -> Lock]
ASSUME FreeAssumption == Free \notin Worker
ASSUME MaxReqAssumption == MaxReq \in Nat /\ PutFails \in BOOLEAN

VARIABLES
  db,      \* the store
  held,    \* who holds a lock
  pc,      \* where a worker is in its request
  cmd,     \* its request
  todo,    \* the keys it has still to go through
  key,     \* the key it is at
  seen,    \* what its Get returned
  repl,    \* what it will hand to replication.set or replication.del
  mirror,  \* what the clients' queues make of the first store
  dead,    \* an exception has left a thread
  reqs     \* requests begun

vars == <<db, held, pc, cmd, todo, key, seen, repl, mirror, dead, reqs>>

PC == {"idle", "next", "get", "put", "packed", "unlock"}

Empty == [k \in {} |-> Nil]
Put1(f, k, v) == [j \in DOMAIN f \cup {k} |-> IF j = k THEN v ELSE f[j]]
Apply(s, f) == [k \in Key |-> IF k \in DOMAIN f THEN f[k] ELSE s[k]]

\* A request that locks is at a key.
Inside(w) == pc[w] \in {"get", "put", "packed", "unlock"}

\* The keys that only methods that lock write, and those that only update_packed does.
LockedKeys == {k \in Key : \A c \in Cmd : k \in Keys(c) => c.op \in Locking}
PackedKeys == {k \in Key : \A c \in Cmd : k \in Keys(c) => c.op = "update_packed"}

Begin(w, c) ==
  /\ ~dead /\ pc[w] = "idle" /\ reqs < MaxReq
  /\ pc' = [pc EXCEPT ![w] = "next"]
  /\ cmd' = [cmd EXCEPT ![w] = c]
  /\ todo' = [todo EXCEPT ![w] = Keys(c)]
  /\ repl' = [repl EXCEPT ![w] = Empty]
  /\ reqs' = reqs + 1
  /\ UNCHANGED <<db, held, key, seen, mirror, dead>>

\* set and del: a Put or Delete without a lock.  What is handed on does not depend on
\* its success.
Write(w, k) ==
  /\ ~dead /\ pc[w] = "next" /\ cmd[w].op \notin Locking /\ k \in todo[w]
  /\ \/ db' = [db EXCEPT ![k] = Stored(cmd[w], k, Nil)]
     \/ PutFails /\ UNCHANGED db
  /\ repl' = [repl EXCEPT ![w] = Put1(@, k, Stored(cmd[w], k, Nil))]
  /\ todo' = [todo EXCEPT ![w] = @ \ {k}]
  /\ UNCHANGED <<held, pc, cmd, key, seen, mirror, dead, reqs>>

\* Mutant: the lock is taken from whoever holds it.
LockAnyway(w, k) ==
  /\ ~dead /\ pc[w] = "next" /\ cmd[w].op \in Locking /\ k \in todo[w]
  /\ held' = [held EXCEPT ![Hash[k]] = w]
  /\ key' = [key EXCEPT ![w] = k]
  /\ pc' = [pc EXCEPT ![w] = "get"]
  /\ UNCHANGED <<db, cmd, todo, seen, repl, mirror, dead, reqs>>

\* Mutant: the key is taken off the list before it has been dealt with.
AcquireNext(w, k) ==
  /\ ~dead /\ pc[w] = "next" /\ cmd[w].op \in Locking /\ k \in todo[w]
  /\ held[Hash[k]] = Free
  /\ held' = [held EXCEPT ![Hash[k]] = w]
  /\ key' = [key EXCEPT ![w] = k]
  /\ pc' = [pc EXCEPT ![w] = "get"]
  /\ todo' = [todo EXCEPT ![w] = @ \ {k}]
  /\ UNCHANGED <<db, cmd, seen, repl, mirror, dead, reqs>>

\* std::lock_guard on getLockmanager()->get(key).
Acquire(w, k) ==
  /\ ~dead /\ pc[w] = "next" /\ cmd[w].op \in Locking /\ k \in todo[w]
  /\ held[Hash[k]] = Free
  /\ held' = [held EXCEPT ![Hash[k]] = w]
  /\ key' = [key EXCEPT ![w] = k]
  /\ pc' = [pc EXCEPT ![w] = "get"]
  /\ UNCHANGED <<db, cmd, todo, seen, repl, mirror, dead, reqs>>

\* Mutant: the lock_guard ends with the Get.
GetAndUnlock(w) ==
  /\ ~dead /\ pc[w] = "get"
  /\ LET old == db[key[w]]
     IN  /\ seen' = [seen EXCEPT ![w] = old]
         /\ dead' = Throws(cmd[w], old)
         /\ pc' = [pc EXCEPT ![w] = IF LeavesAlone(cmd[w], old) THEN "unlock" ELSE "put"]
  /\ held' = [held EXCEPT ![Hash[key[w]]] = Free]
  /\ UNCHANGED <<db, cmd, todo, key, repl, mirror, reqs>>

\* The Get.  What inc cannot parse leaves the thread as an exception.  The store is one whose
\* Get fails only for a key that is not there: the methods take any failure for that, so that
\* after an error of reading add, inc_add and update_packed would overwrite what is stored.
Get(w) ==
  /\ ~dead /\ pc[w] = "get"
  /\ LET old == db[key[w]]
     IN  /\ seen' = [seen EXCEPT ![w] = old]
         /\ dead' = Throws(cmd[w], old)
         /\ pc' = [pc EXCEPT ![w] = IF LeavesAlone(cmd[w], old) THEN "unlock" ELSE "put"]
  /\ UNCHANGED <<db, held, cmd, todo, key, repl, mirror, reqs>>

\* The Put.  Only what has been stored is handed on; update_packed does that at once.
PutOk(w, next) ==
  LET v == Stored(cmd[w], key[w], seen[w])
  IN  /\ db' = [db EXCEPT ![key[w]] = v]
      /\ repl' = [repl EXCEPT ![w] = Put1(@, key[w], v)]
      /\ pc' = [pc EXCEPT ![w] = next]

\* Mutant: update_packed hands its change on after it has released the lock.
PutThenUnlock(w) ==
  /\ ~dead /\ pc[w] = "put"
  /\ \/ PutOk(w, "unlock")
     \/ PutFails /\ pc' = [pc EXCEPT ![w] = "unlock"] /\ UNCHANGED <<db, repl>>
  /\ UNCHANGED <<held, cmd, todo, key, seen, mirror, dead, reqs>>

Put(w) ==
  /\ ~dead /\ pc[w] = "put"
  /\ \/ PutOk(w, IF cmd[w].op = "update_packed" THEN "packed" ELSE "unlock")
     \/ PutFails /\ pc' = [pc EXCEPT ![w] = "unlock"] /\ UNCHANGED <<db, repl>>
  /\ UNCHANGED <<held, cmd, todo, key, seen, mirror, dead, reqs>>

HandOn(w) ==
  /\ mirror' = Apply(mirror, repl[w])
  /\ repl' = [repl EXCEPT ![w] = Empty]

\* replication.set in update_packed, under the lock.
Packed_replicate(w) ==
  /\ ~dead /\ pc[w] = "packed"
  /\ HandOn(w)
  /\ pc' = [pc EXCEPT ![w] = "unlock"]
  /\ UNCHANGED <<db, held, cmd, todo, key, seen, dead, reqs>>

\* Mutant: the lock of a key that is left alone stays locked.
ReleaseWritten(w) ==
  /\ ~dead /\ pc[w] = "unlock"
  /\ held' = IF LeavesAlone(cmd[w], seen[w]) THEN held ELSE [held EXCEPT ![Hash[key[w]]] = Free]
  /\ todo' = [todo EXCEPT ![w] = @ \ {key[w]}]
  /\ pc' = [pc EXCEPT ![w] = "next"]
  /\ UNCHANGED <<db, cmd, key, seen, repl, mirror, dead, reqs>>

\* The lock_guard goes out of scope.
Release(w) ==
  /\ ~dead /\ pc[w] = "unlock"
  /\ held' = [held EXCEPT ![Hash[key[w]]] = Free]
  /\ todo' = [todo EXCEPT ![w] = @ \ {key[w]}]
  /\ pc' = [pc EXCEPT ![w] = "next"]
  /\ UNCHANGED <<db, cmd, key, seen, repl, mirror, dead, reqs>>

\* After the last key the other methods hand on what they have, without a lock.
Finish(w) ==
  /\ ~dead /\ pc[w] = "next" /\ todo[w] = {}
  /\ HandOn(w)
  /\ pc' = [pc EXCEPT ![w] = "idle"]
  /\ UNCHANGED <<db, held, cmd, todo, key, seen, dead, reqs>>

-----------------------------------------------------------------------------
Init ==
  /\ db = Db0 /\ mirror = Db0
  /\ held = [l \in Lock |-> Free]
  /\ pc = [w \in Worker |-> "idle"]
  /\ cmd = [w \in Worker |-> Nil]
  /\ todo = [w \in Worker |-> {}]
  /\ key = [w \in Worker |-> Nil]
  /\ seen = [w \in Worker |-> Nil]
  /\ repl = [w \in Worker |-> Empty]
  /\ dead = FALSE /\ reqs = 0

Step(w) ==
  \/ Get(w) \/ Put(w) \/ Packed_replicate(w) \/ Release(w) \/ Finish(w)
  \/ \E k \in Key : Write(w, k) \/ Acquire(w, k)

Next == \E w \in Worker : Step(w) \/ \E c \in Cmd : Begin(w, c)

Spec == Init /\ [][Next]_vars

-----------------------------------------------------------------------------
(* Properties *)

ControlType ==
  /\ held \in [Lock -> Worker \cup {Free}]
  /\ pc \in [Worker -> PC] /\ cmd \in [Worker -> Cmd \cup {Nil}]
  /\ todo \in [Worker -> SUBSET Key] /\ key \in [Worker -> Key \cup {Nil}]
  /\ dead \in BOOLEAN /\ reqs \in Nat
  /\ \A w \in Worker : pc[w] # "idle" => cmd[w] \in Cmd /\ todo[w] \subseteq Keys(cmd[w])
  /\ \A w \in Worker : Inside(w) => key[w] \in todo[w] /\ cmd[w].op \in Locking

DataType ==
  /\ IsStore(db) /\ IsStore(mirror)
  /\ DOMAIN seen = Worker /\ DOMAIN repl = Worker
  /\ \A w \in Worker : /\ seen[w] = Nil \/ IsValue(seen[w])
                       /\ DOMAIN repl[w] \subseteq Key
                       /\ \A k \in DOMAIN repl[w] : repl[w][k] = Nil \/ IsValue(repl[w][k])

\* Every variable has its type, and a worker between two keys or at a key is inside the
\* request that brought it there.
TypeOK == ControlType /\ DataType

\* A worker at a key holds the key's lock.
HoldsLock == \A w \in Worker : Inside(w) => held[Hash[key[w]]] = w

\* A method that locks never overwrites a value it has not read: what its Get returned
\* is still there when its Put runs, on every key that set and del leave alone.
NoLostUpdate ==
  \A w \in Worker : pc[w] = "put" /\ key[w] \in LockedKeys => db[key[w]] = seen[w]

\* The same whatever set and del do: "update_packed ... is used for the atomic update" of
\* a structure, as the README has it.
UpdateIsAtomic == \A w \in Worker : pc[w] = "put" => db[key[w]] = seen[w]

\* Requests change such keys one at a time, each in one step from the value that is
\* there: concurrent inc, inc_add, add and update_packed add up as if run in sequence.
Atomic == INSTANCE AtomicStore WITH
  db <- [j \in LockedKeys |-> db[j]], Db0 <- [j \in LockedKeys |-> Db0[j]]
AtomicPerKey == Atomic!Spec

\* update_packed hands its changes to the clients in the order it makes them: a key that
\* no worker is about to hand on has the same value in the store and in the clients'
\* queues.
HandedOnInOrder ==
  \A k \in PackedKeys : (\A w \in Worker : pc[w] = "packed" => key[w] # k) => mirror[k] = db[k]

-----------------------------------------------------------------------------
(* Fairness: every thread goes on. *)
FairSpec == Spec /\ \A w \in Worker : WF_vars(Step(w))

\* Every request ends: no worker keeps a key's lock, or waits for one for ever, also when
\* keys share a lock, are left alone or cannot be written.
Finishes == \A w \in Worker : (pc[w] # "idle") ~> (pc[w] = "idle" \/ dead)
=============================================================================
