---------------------------- MODULE AtomicStore ----------------------------
(***************************************************************************)
(* What the methods promise about the keys of a store: each request        *)
(* changes each of them in one step, from the value that is there.         *)
(***************************************************************************)
EXTENDS Commands

CONSTANT Db0
VARIABLE db

Init == db = Db0

Change(c, k) ==
  /\ ~Throws(c, db[k]) /\ ~LeavesAlone(c, db[k])
  /\ db' = [db EXCEPT ![k] = Stored(c, k, db[k])]

Next == \E c \in Cmd : \E k \in Keys(c) \cap DOMAIN db : Change(c, k)

Spec == Init /\ [][Next]_db
=============================================================================
