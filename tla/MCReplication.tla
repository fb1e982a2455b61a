---- MODULE MCReplication ----
(* Replication on small stores, for TLC. *)
EXTENDS Replication, TLC

CONSTANTS a, b

Full == [k \in Key |-> a]
Empty == [k \in Key |-> Nil]

\* Fewer keys than the pipeline has portions.
OneKey == [k \in Key |-> IF k = 1 THEN a ELSE Nil]

\* Overwrites of one key, a deletion, and a command over two keys.
MixedCmds == {1 :> b, 1 :> Nil, (1 :> a) @@ (2 :> b)}

\* Two overwrites that can be told apart.
TwoCmds == {1 :> b, 2 :> b}

SetsOf2 == {2 :> a, 2 :> b}
DelOf2 == {2 :> Nil}
====
