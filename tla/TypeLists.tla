----------------------------- MODULE TypeLists -----------------------------
(***************************************************************************)
(* The compile-time type lists of fas/pattern: what the templates of       *)
(* type_list.hpp compute.  A type list that has not been organized is a    *)
(* binary tree: <<>> is empty_type, a tuple of one name a type, <<l, r>>   *)
(* the template type_list<l, r>.  Every other template works on organized  *)
(* lists, which are sequences of types here.  A template matches a type    *)
(* together with the types derived from it (super_sub_class).              *)
(***************************************************************************)
EXTENDS Integers, Sequences, SequencesExt, FiniteSets, FiniteSetsExt

CONSTANTS Type,   \* the types a list may hold, each a tuple of one name
          Base    \* <<t, u>> \in Base: the class t is a base of the class u

super_sub_class(t, u) == t = u \/ <<t, u>> \in Base

is_type_list(t) == Len(t) = 2
left_type(t)  == t[1]
right_type(t) == t[2]

-----------------------------------------------------------------------------
(* organize: a tree becomes a list, itself a tree whose left types are     *)
(* never lists.  organize_helper3 splits a list; organize_helper2 has one  *)
(* specialization for each combination of lists and empty types.           *)

RECURSIVE organize_helper2(_, _)

organize_helper3Swaps(t) == organize_helper2(right_type(t), left_type(t))

organize_helper3(t) == organize_helper2(left_type(t), right_type(t))

organize_helper2(t1, t2) ==
    CASE t1 = <<>> /\ t2 = <<>> -> <<>>
      [] t2 = <<>> /\ t1 # <<>> ->
            IF is_type_list(t1) THEN organize_helper3(t1) ELSE <<t1, <<>>>>
      [] t1 = <<>> /\ t2 # <<>> ->
            IF is_type_list(t2) THEN organize_helper3(t2) ELSE <<t2, <<>>>>
      [] t1 # <<>> /\ t2 # <<>> /\ is_type_list(t1) ->
            LET first  == IF is_type_list(t2) THEN organize_helper3(t2) ELSE t2
                second == organize_helper2(right_type(t1), first)
            IN  organize_helper2(left_type(t1), second)
      [] OTHER ->
            <<t1, IF is_type_list(t2) THEN organize_helper3(t2) ELSE <<t2, <<>>>>>>

organize_helper(t) ==
    CASE t = <<>>        -> <<>>
      [] is_type_list(t) -> organize_helper3(t)
      [] OTHER           -> <<t, <<>>>>

\* The sequence an organized tree stands for.
RECURSIVE AsSeq(_)
AsSeq(t) == IF t = <<>> THEN <<>> ELSE <<left_type(t)>> \o AsSeq(right_type(t))

organize(t) == AsSeq(organize_helper(t))

\* A type that is no list becomes the list of that type.
type_list_traits_helper(t) == IF is_type_list(t) \/ t = <<>> THEN t ELSE <<t, <<>>>>
type_list_traits(t) == organize(type_list_traits_helper(t))

\* type_list_n nests its arguments to the right, each of them a type or a list.
type_list_n(ts) == organize(FoldRight(LAMBDA t, acc : <<t, acc>>, ts, <<>>))

\* merge organizes the tree of two organized lists (see OrganizeFlattens).
merge(s1, s2) == s1 \o s2

-----------------------------------------------------------------------------
(* Counting and finding.                                                   *)

RECURSIVE type_count(_, _)
type_count_helper(t, s, matches) ==
    IF matches THEN 1 + type_count(t, Tail(s)) ELSE type_count(t, Tail(s))
type_count(t, s) ==
    IF s = <<>> THEN 0 ELSE type_count_helper(t, s, super_sub_class(t, Head(s)))

\* The position of the first match; a list without one does not compile.
RECURSIVE type_position(_, _)
type_position_helper(t, r, matches) == IF matches THEN 0 ELSE type_position(t, r) + 1
type_position(t, s) == type_position_helper(t, Tail(s), super_sub_class(t, Head(s)))

\* The part of the list from the first match on, and the match itself.
RECURSIVE type_list_cast(_, _)
type_list_cast_helper(t, s, matches) == IF matches THEN s ELSE type_list_cast(t, Tail(s))
type_list_cast(t, s) ==
    IF s = <<>> THEN <<>> ELSE type_list_cast_helper(t, s, super_sub_class(t, Head(s)))
left_cast(t, s) == Head(type_list_cast(t, s))

RECURSIVE type_list_nth_cast(_, _)
type_list_nth_cast(p, s) == IF p = 0 THEN s ELSE type_list_nth_cast(p - 1, Tail(s))

\* length is the position of the empty_type that ends the list.
RECURSIVE length(_)
length(s) == IF s = <<>> THEN 0 ELSE 1 + length(Tail(s))

-----------------------------------------------------------------------------
(* Erasing: the first match, every match, and from f each type that s      *)
(* holds more than c times.                                                *)

RECURSIVE erase(_, _)
erase_helper(t, s, matches) ==
    IF matches THEN Tail(s) ELSE <<Head(s)>> \o erase(t, Tail(s))
erase(t, s) == IF s = <<>> THEN <<>> ELSE erase_helper(t, s, super_sub_class(t, Head(s)))

RECURSIVE erase_all(_, _)
erase_all_helper(t, s, matches) ==
    LET rest == erase_all(t, Tail(s))
    IN  IF matches THEN [rest EXCEPT !.removed = <<Head(s)>> \o @]
                   ELSE [rest EXCEPT !.type    = <<Head(s)>> \o @]
erase_all(t, s) ==
    IF s = <<>> THEN [type |-> <<>>, removed |-> <<>>]
    ELSE erase_all_helper(t, s, super_sub_class(t, Head(s)))

RECURSIVE erase_from_list(_, _, _)
erase_from_list_helper(f, s, drop, c) ==
    IF drop THEN erase_from_list(Tail(f), s, c)
    ELSE <<Head(f)>> \o erase_from_list(Tail(f), s, c)
erase_from_list(f, s, c) ==
    IF f = <<>> THEN <<>> ELSE erase_from_list_helper(f, s, type_count(Head(f), s) > c, c)

-----------------------------------------------------------------------------
(* Selecting, intersecting, reversing.                                     *)

\* select keeps the matches of a type, select1 the instances of a template
\* (the set is of types).
RECURSIVE select_helper(_, _, _)
select_helper(t, s, matches) ==
    (IF matches THEN <<Head(s)>> ELSE <<>>)
    \o IF Len(s) = 1 THEN <<>> ELSE select_helper(t, Tail(s), super_sub_class(t, s[2]))
select(t, s) == IF s = <<>> THEN <<>> ELSE select_helper(t, s, super_sub_class(t, Head(s)))

select1_helper(is, s) == SelectSeq(s, LAMBDA t : t \in is)
select1(is, s) == select1_helper(is, s)

RECURSIVE intersection(_, _)
intersection_helper(s1, s2, common) ==
    IF common THEN <<Head(s1)>> \o intersection(Tail(s1), s2) ELSE intersection(Tail(s1), s2)
intersection(s1, s2) ==
    IF s1 = <<>> THEN <<>>
    ELSE intersection_helper(s1, s2, type_count(Head(s1), s2) # 0)

RECURSIVE reverse_helper(_, _)
reverse_helper(s, p) ==
    <<Head(type_list_nth_cast(p, s))>>
    \o IF p = 0 THEN <<>> ELSE reverse_helper(s, p - 1)
reverse(s) == reverse_helper(s, length(s) - 1)

-----------------------------------------------------------------------------
(* Removing duplicates.                                                    *)

\* Keeps a type only when no later type of the list matches it.
RECURSIVE unique(_)
unique_helperFirst(l, r, repeated) == <<l>> \o unique(erase_all(l, r).type)

unique_helper(l, r, repeated) == IF repeated THEN unique(r) ELSE <<l>> \o unique(r)
unique(s) ==
    IF s = <<>> THEN <<>>
    ELSE unique_helper(Head(s), Tail(s), type_count(Head(s), Tail(s)) # 0)

\* While the first list matches a type of the second more than once, the
\* first match goes.
RECURSIVE unique_from_list_helper(_, _, _)
unique_from_list_helper(t, s, repeated) ==
    IF repeated
    THEN LET first_erase == erase(t, s)
         IN  unique_from_list_helper(t, first_erase, type_count(t, first_erase) >= 2)
    ELSE s

RECURSIVE unique_from_list(_, _)
unique_from_list(s, l) ==
    IF l = <<>> THEN s
    ELSE unique_from_list(unique_from_list_helper(Head(l), s, type_count(Head(l), s) >= 2),
                          Tail(l))

-----------------------------------------------------------------------------
(* What the templates promise.                                             *)

\* The types of a tree from left to right.
RECURSIVE Leaves(_)
Leaves(t) ==
    CASE t = <<>>        -> <<>>
      [] is_type_list(t) -> Leaves(left_type(t)) \o Leaves(right_type(t))
      [] OTHER           -> <<t>>

\* organize keeps every type of a tree and their order, whatever lists and
\* empty types are nested in it and on which side, and an organized list is
\* left as it is.
OrganizeFlattens(t) ==
    /\ organize(t) = Leaves(t)
    /\ organize(organize_helper(t)) = organize(t)
    /\ type_list_traits(t) = organize(t)
    /\ organize(<<organize_helper(t), t>>) = merge(organize(t), organize(t))
    /\ type_list_n(<<t, t>>) = merge(organize(t), organize(t))

Matches(t, s) == {i \in DOMAIN s : super_sub_class(t, s[i])}

\* The elements of s at the positions in I, in order.
At(s, I) == LET order == SetToSortSeq(I, <) IN [n \in DOMAIN order |-> s[order[n]]]

\* The recursive templates compute what their comments promise, derived
\* types included: erase drops the first match, erase_all parts the list in
\* two, unique keeps the last occurrence, reverse turns the list around.
ListsAsDocumented(s) ==
    /\ s # <<>> => reverse(s) = Reverse(s)
    /\ unique(s) = At(s, {i \in DOMAIN s : \A j \in Matches(s[i], s) : j <= i})
    /\ \A t \in Type :
          LET m == Matches(t, s)
          IN  /\ type_count(t, s) = Cardinality(m)
              /\ erase(t, s) = At(s, {i \in DOMAIN s : \E j \in m : j < i} \cup (DOMAIN s \ m))
              /\ erase_all(t, s).type = At(s, DOMAIN s \ m)
              /\ erase_all(t, s).removed = At(s, m)
              /\ select(t, s) = At(s, m)
              /\ m # {} => /\ type_position(t, s) + 1 = Min(m)
                           /\ left_cast(t, s) = s[Min(m)]

\* For every split of a list: an intersection and an erasure part the first
\* list in two, and unique_from_list leaves at most one match of each type
\* of the second list without touching the types it does not match.
SplitsAsDocumented(s) ==
    \A n \in DOMAIN s :
        LET f == SubSeq(s, 1, n)
            l == SubSeq(s, n + 1, Len(s))
            u == unique_from_list(f, l)
            Matched(x) == \E i \in DOMAIN l : super_sub_class(l[i], x)
            Unmatched(q) == SelectSeq(q, LAMBDA x : ~Matched(x))
            Common(x) == Matches(x, l) # {}
        IN  /\ intersection(f, l) = SelectSeq(f, Common)
            /\ erase_from_list(f, l, 0) = SelectSeq(f, LAMBDA x : ~Common(x))
            /\ \A i \in DOMAIN l : type_count(l[i], u) <= 1
            /\ Unmatched(u) = Unmatched(f)
            /\ (\E x \in Range(f) : Matched(x)) => \E x \in Range(u) : Matched(x)
=============================================================================
