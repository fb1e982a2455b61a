----------------------------- MODULE MCMethods -----------------------------
(* The methods on two keys, for TLC. *)
EXTENDS Methods, TLC

CONSTANTS f, g

Num(n) == [int |-> n]
Counters == [k \in Key |-> IF k = 2 THEN Num(1) ELSE Nil]

\* Keys 2 and 3 share a lock.
TwoLocks == [k \in Key |-> IF k = 1 THEN 1 ELSE 2]
OneEach == [k \in Key |-> k]

Set(k, v) == [op |-> "set", val |-> k :> v]
Del(k) == [op |-> "del", keys |-> {k}]
Add(k, v) == [op |-> "add", val |-> k :> v]
Inc(h) == [op |-> "inc", inc |-> h]
IncAdd(h, d) == [op |-> "inc_add", inc |-> h, def |-> d]
Pack(k, h, s, d) == [op |-> "update_packed", key |-> k, inc |-> h, set |-> s, def |-> d]

NoArgs == [k \in {} |-> 0]

\* Key 1 is packed and nothing else; key 2 is written under the lock only; key 3 is also
\* deleted, and set to a text that inc cannot parse.
AllCmds == {Pack(1, f :> 1, g :> 0, f :> 3), Pack(1, g :> 1, f :> Text, NoArgs),
            Inc((2 :> 1) @@ (3 :> 1)), IncAdd((2 :> 2) @@ (3 :> 2), 3 :> 5), Add(2, Num(7)),
            Set(3, Text), Del(3)}

SetAndPacked == {Set(1, Num(4)), Pack(1, f :> 1, NoArgs, NoArgs)}
=============================================================================
