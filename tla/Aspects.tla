------------------------------ MODULE Aspects ------------------------------
(***************************************************************************)
(* The aspects of fas/aop.  An aspect is a list of advices, classes that   *)
(* carry tags, and aliases; the templates rewrite the list at compile time *)
(* so that get<_tag_>() of an object finds one advice.  The daemon's       *)
(* servers, clients and connections are all assembled this way: a default  *)
(* aspect of the library merged with the aspect of the program.            *)
(*                                                                         *)
(* A tag is <<"tag", t>> or, for a tag that many advices may carry,        *)
(* <<"gtag", t>>.  An advice is a record: its tags, its class, and whether *)
(* the class itself is a further tag (make_advice_tag).                    *)
(***************************************************************************)
EXTENDS TypeLists

tag(t)  == <<"tag", t[1]>>
gtag(t) == <<"gtag", t[1]>>

\* A type that is no tag yet becomes one.
tag_traits(t) == IF Len(t) = 2 THEN t ELSE tag(t)
make_tag_list(ts) == [i \in DOMAIN ts |-> tag_traits(ts[i])]

\* Tags are types of which none derives from another, in lists of types.
tag_listGroups(tags) == unique(tags)

gtag_list(tags) == select1({t \in ToSet(tags) : t[1] = "gtag"}, tags)
tag_list(tags) == unique(erase_from_list(tags, gtag_list(tags), 0))

Advice(tags, class, own) ==
    [is |-> "advice", tags |-> make_tag_list(tags), class |-> class, own |-> own]
UntaggedAdvice(class, own) == Advice(<<class>>, class, own)
Alias(t, tags) == [is |-> "alias", tag |-> tag_traits(t), tags |-> make_tag_list(tags)]

\* An advice whose class is a tag of its own keeps that tag for ever.
OwnAdvice(tags, class) == Advice(tags, class, TRUE)

\* An advice left without tags is dropped, unless its class is a tag.
rebind_advice(a, tags) ==
    IF tags = <<>> /\ ~a.own THEN <<>> ELSE <<[a EXCEPT !.tags = tags]>>

-----------------------------------------------------------------------------
(* Aliases: alias<T, L> takes the tags L from every advice and gives them  *)
(* to the advices that carry the tag T.                                    *)

is_alias(x) == x.is = "alias"

RECURSIVE extract_alias_list(_)
extract_alias_list_helper(l, alias) ==
    LET rest == extract_alias_list(Tail(l))
    IN  IF alias THEN [rest EXCEPT !.alias_list  = <<Head(l)>> \o @]
                 ELSE [rest EXCEPT !.advice_list = <<Head(l)>> \o @]
extract_alias_list(l) ==
    IF l = <<>> THEN [alias_list |-> <<>>, advice_list |-> <<>>]
    ELSE extract_alias_list_helper(l, is_alias(Head(l)))

apply_alias_for_advice_helper(a, tags) == rebind_advice(a, merge(a.tags, tags))

apply_alias_for_advice(a, alias) ==
    LET rebinded == rebind_advice(a, erase_from_list(a.tags, alias.tags, 0))
    IN  IF type_count(alias.tag, a.tags) # 0
        THEN apply_alias_for_advice_helper(rebinded[1], alias.tags)
        ELSE rebinded

\* Every alias in turn, on one advice (helper2 with a single advice).
RECURSIVE apply_alias_helper2(_, _)
apply_alias_helper2(advices, aliases) ==
    IF advices = <<>> \/ aliases = <<>> THEN advices
    ELSE apply_alias_helper2(apply_alias_for_advice(advices[1], Head(aliases)),
                             Tail(aliases))

apply_alias_helper(advices, aliases) ==
    FlattenSeq([i \in DOMAIN advices |-> apply_alias_helper2(<<advices[i]>>, aliases)])

apply_alias(l) ==
    LET extractor == extract_alias_list(l)
    IN  apply_alias_helper(extractor.advice_list, extractor.alias_list)

-----------------------------------------------------------------------------
(* A tag stays with the last advice that carries it.                       *)

extract_tags_helper(l) == [i \in DOMAIN l |-> tag_list(l[i].tags)]
extract_advice_tags(l) == FlattenSeq(extract_tags_helper(l))

RECURSIVE advice_list_traits_helper(_)
advice_list_traits_helperFirst(l) ==
    IF l = <<>> THEN <<>>
    ELSE <<Head(l)>> \o advice_list_traits_helper(
            FlattenSeq([i \in DOMAIN Tail(l) |->
                rebind_advice(Tail(l)[i],
                    erase_from_list(Tail(l)[i].tags, tag_list(Head(l).tags), 0))]))

advice_list_traits_helper(l) ==
    IF l = <<>> THEN <<>>
    ELSE rebind_advice(Head(l), erase_from_list(Head(l).tags, extract_advice_tags(l), 1))
         \o advice_list_traits_helper(Tail(l))

advice_list_traits(l) == advice_list_traits_helper(apply_alias(l))

\* The unmodified lists are merged, so that the aliases of either aspect
\* apply to the advices of both.
aspect_merge(l1, l2) == merge(l1, l2)
aspect(l) == advice_list_traits(l)

\* The aspect of a class: the default aspect merged with the program's.
aspect_class(a, b) == aspect(aspect_merge(a, b))

-----------------------------------------------------------------------------
(* Finding an advice: by a tag, by a type some tag is made of or derives   *)
(* from, or by the advice's own class.                                     *)

IsA(a, t) == \/ \E i \in DOMAIN a.tags : super_sub_class(t, <<a.tags[i][2]>>)
             \/ a.own /\ a.class = t

has(l, t) == \E i \in DOMAIN l : IsA(l[i], t)

advice_cast(l, t) == l[CHOOSE i \in DOMAIN l : /\ IsA(l[i], t)
                                               /\ \A j \in 1 .. i - 1 : ~IsA(l[j], t)].class

aspect_select(l, t) == SelectSeq(l, LAMBDA a : IsA(a, t))

-----------------------------------------------------------------------------
(* What the rewriting is for.                                              *)

\* The advices that carry tag t once the aliases have been read in order:
\* an alias gives its tags to the carriers of its tag, and to them alone.
Carries(a, aliases, t) ==
    LET Has[n \in 0 .. Len(aliases)] ==
            IF n = 0 THEN {a.tags[i] : i \in DOMAIN a.tags}
            ELSE LET before == Has[n - 1]
                     given  == {aliases[n].tags[i] : i \in DOMAIN aliases[n].tags}
                 IN  (before \ given) \cup (IF aliases[n].tag \in before THEN given ELSE {})
    IN  t \in Has[Len(aliases)]

Carriers(l, t) ==
    LET x == extract_alias_list(l)
    IN  SelectSeq(x.advice_list, LAMBDA a : Carries(a, x.alias_list, tag(t)))

\* A type stands for one tag when no advice carries it as a gtag, as its own
\* class or through a type derived from it.
Plain(l, t) ==
    /\ \A i \in DOMAIN l : l[i].is = "advice" =>
          /\ ~l[i].own
          /\ \A j \in DOMAIN l[i].tags : <<t, <<l[i].tags[j][2]>>>> \notin Base
    /\ \A i \in DOMAIN l : \A j \in DOMAIN l[i].tags :
          /\ l[i].tags[j] # gtag(t)
          /\ <<t, <<l[i].tags[j][2]>>>> \notin Base

\* get<_t_>() finds the last advice that carries the tag, and no other advice
\* keeps it: the aspect of a program overrides the advices of the library's
\* default aspect, however tags and aliases are spread over the two.
LastAdviceWins(l) ==
    \A t \in Type : Plain(l, t) =>
        LET carriers == Carriers(l, t)
            half     == Len(l) \div 2
            result   == aspect_class(SubSeq(l, 1, half), SubSeq(l, half + 1, Len(l)))
        IN  /\ has(result, t) <=> carriers # <<>>
            /\ carriers # <<>> => /\ advice_cast(result, t) = Last(carriers).class
                                  /\ Len(aspect_select(result, t)) = 1

\* Group tags are never taken from an advice: every advice listed with one
\* still carries it, unless an alias took it.
GroupsKeepAll(l) ==
    \A t \in Type :
        LET x == extract_alias_list(l)
            Of(s) == {s[i].class : i \in {j \in DOMAIN s :
                         \E k \in DOMAIN s[j].tags : s[j].tags[k] = gtag(t)}}
        IN  x.alias_list = <<>> => Of(aspect(l)) = Of(x.advice_list)
=============================================================================
