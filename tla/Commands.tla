------------------------------ MODULE Commands ------------------------------
(***************************************************************************)
(* What the writing methods of src/src/fas_methods.hpp compute: the value  *)
(* each of them stores under a key, from its arguments and the value that  *)
(* was there.  A stored value is the text of an integer, the text of a     *)
(* JSON object (the packed structure of update_packed), or any other text. *)
(***************************************************************************)
EXTENDS Integers

CONSTANTS
  Key, Field,  \* the keys of the store; the fields of packed structures
  Nil,         \* the key is absent
  Text,        \* a text that is neither an object nor starts as an integer or null
  Cmd          \* the requests clients send

\* f gives some elements of D a value in V.
Gives(f, D, V) == \E S \in SUBSET D : f \in [S -> V]

IsInt(v) == v \in [int : Int]
IsPacked(v) == \E S \in SUBSET Field : v \in [packed : [S -> Int \cup {Text}]]
IsValue(v) == IsInt(v) \/ IsPacked(v) \/ v = Text

IsCommand(c) ==
  \/ /\ c.op \in {"set", "add"}
     /\ DOMAIN c.val \subseteq Key /\ \A k \in DOMAIN c.val : IsValue(c.val[k])
  \/ c.op = "del" /\ c.keys \subseteq Key
  \/ c.op = "inc" /\ Gives(c.inc, Key, Int)
  \/ c.op = "inc_add" /\ Gives(c.inc, Key, Int) /\ Gives(c.def, Key, Int)
  \/ /\ c.op = "update_packed" /\ c.key \in Key /\ Gives(c.inc, Field, Int)
     /\ Gives(c.set, Field, Int \cup {Text}) /\ Gives(c.def, Field, Int \cup {Text})

ASSUME CmdAssumption == \A c \in Cmd : IsCommand(c)

\* The keys a request goes through, one after the other.
Keys(c) ==
  CASE c.op \in {"set", "add"} -> DOMAIN c.val
    [] c.op = "del" -> c.keys
    [] c.op \in {"inc", "inc_add"} -> DOMAIN c.inc
    [] c.op = "update_packed" -> {c.key}

\* The methods that hold the key's lock from their Get to their Put.
Locking == {"add", "inc", "inc_add", "update_packed"}

\* inc_add: a text that is no integer counts as 0, and so does an absent key without default.
IncAdded(c, k, old) ==
  LET base == IF IsInt(old) THEN old.int
              ELSE IF old = Nil /\ k \in DOMAIN c.def THEN c.def[k] ELSE 0
  IN  [int |-> base + c.inc[k]]

\* update_packed: fields are set first and incremented then; what is no object is
\* replaced by the defaults, and a field that is no integer counts as 0.
Repacked(c, old) ==
  LET data == IF IsPacked(old) THEN old.packed ELSE c.def
      Base(f) == IF f \in DOMAIN c.set THEN c.set[f]
                 ELSE IF f \in DOMAIN data THEN data[f] ELSE Text
      Num(f) == IF Base(f) \in Int THEN Base(f) ELSE 0
  IN  [packed |-> [f \in DOMAIN data \cup DOMAIN c.set \cup DOMAIN c.inc |->
                     IF f \in DOMAIN c.inc THEN Num(f) + c.inc[f] ELSE Base(f)]]

\* inc on a text that is no integer throws.
Throws(c, old) == c.op = "inc" /\ old # Nil /\ ~IsInt(old)

\* The request leaves the key alone: add when it is there, inc when it is not.
LeavesAlone(c, old) == (c.op = "add" /\ old # Nil) \/ (c.op = "inc" /\ old = Nil)

\* What the request stores under k otherwise.
Stored(c, k, old) ==
  CASE c.op \in {"set", "add"} -> c.val[k]
    [] c.op = "del" -> Nil
    [] c.op = "inc" -> [int |-> old.int + c.inc[k]]
    [] c.op = "inc_add" -> IncAdded(c, k, old)
    [] c.op = "update_packed" -> Repacked(c, old)
=============================================================================
