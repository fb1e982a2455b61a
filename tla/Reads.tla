-------------------------------- MODULE Reads --------------------------------
(***************************************************************************)
(* The reading methods of src/src/fas_methods.hpp, get and get_range,      *)
(* beside writers: get asks the store for one key after the other;         *)
(* get_range walks an iterator, which LevelDB keeps on the store as it was *)
(* when the iterator was made.                                             *)
(***************************************************************************)
EXTENDS Integers, Sequences, SequencesExt, FiniteSetsExt

CONSTANTS
    Keys, Val, Nil,      \* keys are sequences of bytes; Nil: the key is absent
    Gets, Ranges,        \* the requests
    MaxRange, IntLimit,  \* 11000, and 2^31
    MaxChanges           \* bound: changes of the store

VARIABLES
    db,       \* the store
    changes,  \* how often it has changed
    cmd,      \* the request in progress
    at,       \* where it is: "idle", "get", "got", "scan", "ranged", "refused"
    todo,     \* get: the keys not yet asked for
    it,       \* get_range: what the iterator sees, and the key it is at
    count,    \* the loop's count
    result,   \* the answer so far
    past      \* what each key has held since the request began

vars == <<db, changes, cmd, at, todo, it, count, result, past>>

\* Slice::compare: by bytes, a prefix first.
Before(k, l) ==
    \/ IsStrictPrefix(k, l)
    \/ \E i \in DOMAIN k \cap DOMAIN l : k[i] < l[i] /\ SubSeq(k, 1, i - 1) = SubSeq(l, 1, i - 1)
UpTo(k, l) == k = l \/ Before(k, l)

\* An iterator: on the least key of those that are left, or on none (End).
End == <<>>
First(data, K) ==
    LET here == {k \in K : data[k] # Nil}
    IN  IF here = {} THEN End ELSE CHOOSE k \in here : \A l \in here : UpTo(k, l)
Seek(data, key) == First(data, {k \in Keys : UpTo(key, k)})
SeekToFirst(data) == First(data, Keys)
Follow(data, key) == First(data, {k \in Keys : Before(key, k)})

\* int addition, which wraps in the builds there are.
Sum2(m, n) == IF m + n >= IntLimit THEN m + n - 2 * IntLimit ELSE m + n

-----------------------------------------------------------------------------
Init ==
    /\ db \in [Keys -> Val \cup {Nil}] /\ changes = 0
    /\ cmd = [keys |-> <<>>] /\ at = "idle" /\ todo = <<>> /\ it = [data |-> <<>>, key |-> End]
    /\ count = 0 /\ result = <<>> /\ past = <<>>

\* A set or del of another thread.
Change(k, v) ==
    /\ changes < MaxChanges /\ at \in {"get", "scan"} /\ db[k] # v
    /\ db' = [db EXCEPT ![k] = v] /\ changes' = changes + 1
    /\ past' = [past EXCEPT ![k] = @ \cup {v}]
    /\ UNCHANGED <<cmd, at, todo, it, count, result>>

BeginGet(ks) ==
    /\ at = "idle"
    /\ cmd' = [keys |-> ks] /\ at' = "get" /\ todo' = ks
    /\ past' = [k \in Keys |-> {db[k]}]
    /\ UNCHANGED <<db, changes, it, count, result>>

\* Mutant: the status of Get is not looked at, and r keeps what the key before had.
GetOneAnyway ==
    /\ at = "get" /\ todo # <<>>
    /\ result' = Append(result, <<todo[1], IF db[todo[1]] = Nil /\ result # <<>> THEN Last(result)[2] ELSE db[todo[1]]>>)
    /\ todo' = Tail(todo)
    /\ UNCHANGED <<db, changes, cmd, at, it, count, past>>

GetOne ==
    /\ at = "get" /\ todo # <<>>
    /\ result' = IF db[todo[1]] = Nil THEN result ELSE Append(result, <<todo[1], db[todo[1]]>>)
    /\ todo' = Tail(todo)
    /\ UNCHANGED <<db, changes, cmd, at, it, count, past>>

GetEnd ==
    /\ at = "get" /\ todo = <<>>
    /\ at' = "got"
    /\ UNCHANGED <<db, changes, cmd, todo, it, count, result, past>>

BeginRange(c) ==
    /\ at = "idle"
    /\ cmd' = c
    /\ past' = [k \in Keys |-> {db[k]}]
    /\ IF c.limit < 0 \/ c.skip < 0 \/ Sum2(c.limit, c.skip) > MaxRange
       THEN at' = "refused" /\ UNCHANGED it
       ELSE /\ at' = "scan"
            /\ it' = [data |-> db, key |-> IF c.from # <<>> THEN Seek(db, c.from) ELSE SeekToFirst(db)]
    /\ UNCHANGED <<db, changes, todo, count, result>>

\* The condition of the loop.
Goes == /\ it.key # End
        /\ cmd.to = <<>> \/ UpTo(it.key, cmd.to)
        /\ count < Sum2(cmd.limit, cmd.skip)

\* Mutant: one key more is skipped.
ScanSkipsMore ==
    /\ at = "scan" /\ Goes
    /\ count' = count + 1
    /\ result' = IF count > cmd.skip THEN Append(result, <<it.key, it.data[it.key]>>) ELSE result
    /\ it' = [it EXCEPT !.key = Follow(it.data, @)]
    /\ UNCHANGED <<db, changes, cmd, at, todo, past>>

Scan ==
    /\ at = "scan" /\ Goes
    /\ count' = count + 1
    /\ result' = IF count >= cmd.skip THEN Append(result, <<it.key, it.data[it.key]>>) ELSE result
    /\ it' = [it EXCEPT !.key = Follow(it.data, @)]
    /\ UNCHANGED <<db, changes, cmd, at, todo, past>>

ScanEnd ==
    /\ at = "scan" /\ ~Goes
    /\ at' = "ranged"
    /\ UNCHANGED <<db, changes, cmd, todo, it, count, result, past>>

Next ==
    \/ \E k \in Keys, v \in Val \cup {Nil} : Change(k, v)
    \/ \E ks \in Gets : BeginGet(ks)
    \/ \E c \in Ranges : BeginRange(c)
    \/ GetOne \/ GetEnd \/ Scan \/ ScanEnd

-----------------------------------------------------------------------------
(* Properties *)

\* get, asked for different keys, answers in their order: every key it returns has a value
\* the key had while the request ran, and a key it leaves out was absent at some time of
\* it.  The values need not have been there together.
GetSawIt ==
    at = "got" =>
        LET ks == cmd.keys
            found == {result[j][1] : j \in DOMAIN result}
        IN  /\ [j \in DOMAIN result |-> result[j][1]] = SelectSeq(ks, LAMBDA k : k \in found)
            /\ \A j \in DOMAIN result : result[j][2] # Nil /\ result[j][2] \in past[result[j][1]]
            /\ \A i \in DOMAIN ks : ks[i] \notin found => Nil \in past[ks[i]]

\* The keys of a store between two bounds, in order.
InRange(data, c) ==
    SetToSortSeq({k \in Keys : data[k] # Nil /\ UpTo(c.from, k) /\ (c.to = <<>> \/ UpTo(k, c.to))}, Before)

\* get_range returns what there was between its bounds when it began, without the first
\* skip keys and limit of them at most, whatever is written meanwhile: so pages taken
\* from an unchanged store have every key once.  (limit + skip must fit an int.)
RangeIsSlice ==
    at = "ranged" /\ cmd.limit + cmd.skip < IntLimit =>
        LET all == InRange(it.data, cmd)
            page == SubSeq(all, cmd.skip + 1, Min({Len(all), cmd.skip + cmd.limit}))
        IN  result = [i \in DOMAIN page |-> <<page[i], it.data[page[i]]>>]
=============================================================================
