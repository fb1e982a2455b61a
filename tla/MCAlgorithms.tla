---------------------------- MODULE MCAlgorithms ----------------------------
(***************************************************************************)
(* The library's algorithms over all small inputs.  A behaviour picks one  *)
(* algorithm (part) and grows an input for it (in), a piece at a time; the *)
(* invariants compare the algorithm with its reference in every state.     *)
(***************************************************************************)
EXTENDS Integers, Sequences, SequencesExt

VARIABLES part, in

vars == <<part, in>>

-----------------------------------------------------------------------------
(* Type lists: a is a base of b.                                           *)

Types == {<<"a">>, <<"b">>, <<"c">>}
Bases == {<<<<"a">>, <<"b">>>>}

TL == INSTANCE TypeLists WITH Type <- Types, Base <- Bases
AO == INSTANCE Aspects WITH Type <- Types, Base <- Bases

Trees1 == {<<>>} \cup Types \cup {<<l, r>> : l, r \in {<<>>, <<"a">>}}
TreeDepth == 3
ListLength == 5

RECURSIVE Depth(_)
Depth(t) == IF Len(t) < 2 THEN 0
            ELSE 1 + IF Depth(t[1]) > Depth(t[2]) THEN Depth(t[1]) ELSE Depth(t[2])

Graft == /\ part = "tree"
         /\ Depth(in) < TreeDepth
         /\ \E t \in Trees1 : in' = <<in, t>> \/ in' = <<t, in>>
         /\ UNCHANGED part

Extend == /\ part = "types"
          /\ Len(in) < ListLength
          /\ \E t \in Types : in' = Append(in, t)
          /\ UNCHANGED part

-----------------------------------------------------------------------------
(* Aspects: a list of advices and aliases.                                 *)

AspectLength == 4
Items ==
    {AO!Advice(tags, <<c>>, FALSE) :
        tags \in {<<<<"a">>>>, <<<<"c">>>>, <<<<"a">>, <<"c">>>>, <<<<"gtag", "b">>>>,
                  <<<<"c">>, <<"gtag", "b">>>>},
        c \in {"x", "y"}}
    \cup {AO!UntaggedAdvice(<<"c">>, FALSE), AO!OwnAdvice(<<<<"a">>>>, <<"z">>)}
    \cup {AO!Alias(<<"a">>, <<<<"c">>>>), AO!Alias(<<"c">>, <<<<"a">>>>)}

Compose == /\ part = "aspect"
           /\ Len(in) < AspectLength
           /\ \E x \in Items : in' = AO!aspect_merge(in, <<x>>)
           /\ UNCHANGED part

-----------------------------------------------------------------------------
(* JSON.  A value is grown from the symbols of a string and from numbers;  *)
(* a text from members in some order.                                      *)

JS == INSTANCE Json

Symbols == {<<120>>, <<34>>, <<92>>, <<9>>, <<1>>, <<125>>, <<208, 185>>, <<224, 166, 137>>,
            <<240, 159, 152, 128>>}
Numbers == {-128, -10, 0, 7, 127}
ValueSize == 3

Byte    == JS!Integer(1, TRUE)
Text    == JS!value("string")
M(name, J) == JS!member(<<name>>, name, J)
Color == JS!enumerator(<<[name |-> <<97>>, value |-> 7], [name |-> <<97, 98>>, value |-> 127]>>, 0)
Record == JS!object(<<
        M(97, Byte), JS!member_p(<<98>>, 98, Text), M(99, JS!array("vector", Byte)),
        M(100, JS!paired_array(Text, JS!raw_value)),
        M(101, JS!array("map", JS!pair(JS!valueQ(Byte), JS!value("bool")))),
        M(102, Color), M(103, JS!array_n(Byte, 2)),
        JS!member_if(M(104, JS!raw_value), JS!member(<<104>>, 105, Byte), TRUE),
        M(106, JS!char_array(3))>>,
    (97 :> 0) @@ (98 :> <<>>) @@ (99 :> <<>>) @@ (100 :> <<>>) @@ (101 :> {}) @@
    (102 :> 0) @@ (103 :> <<0, 0>>) @@ (104 :> <<>>) @@ (105 :> 0) @@ (106 :> <<0, 0, 0>>))

AddSymbol == /\ part = "json"
             /\ Len(in.s) + Len(in.l) < ValueSize
             /\ \E x \in Symbols : in' = [in EXCEPT !.s = Append(@, x)]
             /\ UNCHANGED part
AddNumber == /\ part = "json"
             /\ Len(in.s) + Len(in.l) < ValueSize
             /\ \E n \in Numbers : in' = [in EXCEPT !.l = Append(@, n)]
             /\ UNCHANGED part

\* The value: a number and its text, strings, arrays and maps of both.
RecordOf(x) ==
    LET s == FlattenSeq(x.s)
        n == IF x.l = <<>> THEN 0 ELSE x.l[Len(x.l)]
        short == \A i \in DOMAIN x.s : Len(x.s[i]) < 4
        cut == IF s # <<>> /\ Len(x.s[1]) < 4 THEN x.s[1] ELSE <<>>
    IN  (97 :> n) @@ (98 :> s) @@ (99 :> x.l) @@
        (100 :> [i \in DOMAIN x.l |-> <<s, JS!integer_serialize(x.l[i])>>]
                \o IF short THEN <<<<<<>>, JS!string_serialize(s)>>>> ELSE <<>>) @@
        (101 :> {<<m, m > 0>> : m \in Range(x.l)}) @@
        (102 :> IF n > 0 THEN n ELSE 0) @@ (103 :> <<n, Len(x.l)>>) @@
        (104 :> IF n > 0 THEN JS!integer_serialize(n) ELSE <<>>) @@ (105 :> n) @@
        (106 :> cut \o [i \in 1 .. 3 - Len(cut) |-> 0])

\* Members of a text: a, ab and b are listed in Short; x and aa are not.
Short == JS!object(<<JS!member(<<97>>, "a", Byte), JS!member_p(<<97, 98>>, "ab", Text),
                     JS!member(<<98>>, "b", JS!array("vector", Byte))>>,
                   [a |-> 5, ab |-> <<9>>, b |-> <<>>])
Given == <<[name |-> <<97, 98>>,  text |-> <<34, 125, 34>>,        value |-> <<125>>],
           [name |-> <<97>>,      text |-> <<45, 49>>,             value |-> -1],
           [name |-> <<98>>,      text |-> <<91, 49, 44, 50, 93>>, value |-> <<1, 2>>],
           [name |-> <<120>>,     text |-> <<123, 34, 97, 34, 58, 91, 57, 93, 125>>, value |-> 0],
           [name |-> <<97, 97>>,  text |-> <<49, 46, 53>>,         value |-> 0]>>
Blanks == {<<>>, <<32>>, <<47, 42, 125, 42, 47, 10>>}

AddMember == /\ part = "members"
             /\ \E j \in DOMAIN Given : /\ \A i \in DOMAIN in.m : in.m[i].name # Given[j].name
                                        /\ in' = [in EXCEPT !.m = Append(@, Given[j])]
             /\ UNCHANGED part

-----------------------------------------------------------------------------
(* Values of changing type, and AMF: an unsigned long has 16 values, a     *)
(* length two digits of base 2, a double four.                             *)

AV == INSTANCE AmfValues WITH Unsigned <- 16, Junk <- {0, 1}, Base <- 2, NumberBytes <- 4

ProgramLength == 3
Scalars == {<<"=", "bool", TRUE>>, <<"=", "char", 0>>, <<"=", "char", 9>>, <<"=", "long", -1>>, <<"=", "double", 3>>,
            <<"string", <<>>>>, <<"string", <<48>>>>, <<"string", <<0, 0, 9>>>>}
Operations ==
    Scalars \cup {<<"read", t>> : t \in {"bool", "char", "long", "double", "string"}}
    \cup {<<"at", i, op>> : i \in {0, 1}, op \in {<<"=", "long", 5>>, <<"string", <<9>>>>, <<"at", 2, <<"=", "bool", FALSE>>>>}}
    \cup {<<"key", s, op>> : s \in {<<>>, <<49>>, <<48>>},
                             op \in {<<"=", "double", 9>>, <<"string", <<0, 9>>>>, <<"key", <<>>, <<"=", "bool", TRUE>>>>}}
    \cup {<<"erase", "nhash", 0>>, <<"erase", "shash", <<49>>>>, <<"copy">>}

Operate == /\ part = "multi"
           /\ Len(in) < ProgramLength
           /\ \E op \in Operations : in' = Append(in, op)
           /\ UNCHANGED part

-----------------------------------------------------------------------------
(* PHP's serialization: a record of a number a, a string ab, an object o,  *)
(* an enumerator e and a map of the other numbers.                         *)

PH == INSTANCE Serialization WITH Wide <- 256, DefaultTag <- "default", NotFound <- <<>>

Whole == PH!object(<<PH!attribute(<<97>>, <<97>>, PH!numeric),
                     PH!others(<<>>, PH!associative(PH!pair(PH!string, PH!numeric))),
                     PH!attribute(<<97, 98>>, <<97, 98>>, PH!string),
                     PH!attribute(<<101>>, <<101>>, PH!enumerator(<<<<97>>, <<97, 98>>>>, <<7, 8>>)),
                     PH!attribute(<<111>>, <<111>>, PH!object(<<PH!attribute(<<97>>, <<97>>, PH!numeric)>>))>>)
Unread == (<<97>> :> 5) @@ (<<97, 98>> :> <<>>) @@ (<<101>> :> 0) @@ (<<111>> :> (<<97>> :> 5)) @@ (<<>> :> <<>>)

Member(name, text, into, value) == [name |-> name, text |-> text, into |-> into, value |-> value]
\* i:-1; s:2:"}""; s:2:"ab" a:2:{s:1:"b";b:1;s:1:"a";i:12;} i:300; s:1:"7"; N b:0; d:1.5e2; and an array of one
Members == <<
    Member(<<97>>, <<105, 58, 45, 49, 59>>, "field", -1),
    Member(<<97, 98>>, <<115, 58, 50, 58, 34, 125, 34, 34, 59>>, "field", <<125, 34>>),
    Member(<<101>>, <<115, 58, 50, 58, 34, 97, 98, 34>>, "field", 8),
    Member(<<111>>, <<97, 58, 50, 58, 123, 115, 58, 49, 58, 34, 98, 34, 59, 98, 58, 49, 59,
                      115, 58, 49, 58, 34, 97, 34, 59, 105, 58, 49, 50, 59, 125>>, "field", (<<97>> :> 12)),
    Member(<<98>>, <<105, 58, 51, 48, 48, 59>>, "map", 44),
    Member(<<97, 97>>, <<115, 58, 49, 58, 34, 55, 34, 59>>, "map", 7),
    Member(<<110>>, <<78>>, "none", 0),
    Member(<<116>>, <<98, 58, 48, 59>>, "none", 0),
    Member(<<100>>, <<100, 58, 49, 46, 53, 101, 50, 59>>, "none", 0),
    Member(<<120>>, <<97, 58, 49, 58, 123, 105, 58, 48, 59, 115, 58, 49, 58, 34, 125, 34, 59, 125>>, "none", 0)>>
MembersMax == 4

AddSerialized == /\ part = "php"
                 /\ Len(in.m) < MembersMax
                 /\ \E j \in DOMAIN Members : /\ \A i \in DOMAIN in.m : in.m[i].name # Members[j].name
                                              /\ in' = [in EXCEPT !.m = Append(@, Members[j])]
                 /\ UNCHANGED part

\* The first reader: a record with a map of the other numbers, and one without.
PS == INSTANCE PhpSer

WithMap == PS!object(<<PS!attribute(<<97>>, <<97>>, PS!numeric(Byte)), PS!attribute(<<97, 98>>, <<97, 98>>, PS!numeric(Byte)),
                       PS!hash(<<>>, PS!string, PS!numeric(Byte))>>)
UnreadMap == (<<97>> :> 5) @@ (<<97, 98>> :> 5) @@ (<<>> :> <<>>)
ForMap == <<
    Member(<<97>>, <<105, 58, 45, 49, 59>>, "field", -1),
    Member(<<97>>, <<78, 59>>, "field", 0),
    Member(<<97, 98>>, <<105, 58, 57, 59>>, "field", 9),
    Member(<<98>>, <<105, 58, 49, 50, 59>>, "map", 12),
    Member(<<98>>, <<78>>, "map", 0),
    Member(<<98>>, <<98, 58, 49, 59>>, "refused", 0)>>

NoMap == PS!object(<<PS!attribute(<<97>>, <<97>>, PS!numeric(Byte)), PS!attribute(<<97, 98>>, <<97, 98>>, PS!string),
                     PS!attribute(<<110>>, <<110>>, PS!number_string(Byte)),
                     PS!attribute(<<111>>, <<111>>, PS!object(<<PS!attribute(<<97>>, <<97>>, PS!numeric(Byte))>>))>>)
UnreadNoMap == (<<97>> :> 5) @@ (<<97, 98>> :> <<>>) @@ (<<110>> :> 5) @@ (<<111>> :> (<<97>> :> 5))
ForNoMap == <<
    Member(<<97>>, <<105, 58, 45, 49, 59>>, "field", -1),
    Member(<<97, 98>>, <<115, 58, 50, 58, 34, 125, 34, 34, 59>>, "field", <<125, 34>>),
    Member(<<97, 98>>, <<78, 59>>, "field", <<>>),
    Member(<<110>>, <<115, 58, 49, 58, 34, 55, 34, 59>>, "field", 7),
    Member(<<111>>, <<97, 58, 50, 58, 123, 115, 58, 49, 58, 34, 98, 34, 59, 78, 59,
                      115, 58, 49, 58, 34, 97, 34, 59, 105, 58, 49, 50, 59, 125>>, "field", (<<97>> :> 12)),
    Member(<<100>>, <<100, 58, 49, 46, 53, 101, 50, 59>>, "none", 0),
    Member(<<120>>, <<97, 58, 49, 58, 123, 105, 58, 48, 59, 115, 58, 49, 58, 34, 125, 34, 59, 125>>, "none", 0),
    Member(<<116>>, <<98, 58, 48, 59>>, "refused", 0),
    Member(<<120>>, <<97, 58, 49, 58, 123, 105, 58, 48, 59, 98, 58, 49, 59, 125>>, "refused", 0),
    Member(<<97>>, <<98, 58, 49, 59>>, "refused", 0),
    Member(<<97>>, <<100, 58, 49, 59>>, "refused", 0)>>

AddRepeated == /\ part = "phpser"
               /\ Len(in.m) < MembersMax
               /\ LET G == IF in.map THEN ForMap ELSE ForNoMap
                  IN  \E j \in DOMAIN G : in' = [in EXCEPT !.m = Append(@, G[j])]
               /\ UNCHANGED part

\* The rules of both: sets of rules for three tags and the default one, which
\* has the rules r and s.
TagsMax == 3
RuleSets == {x : x \in [{"t", "u"} -> {{}, {"r"}, {"r", "s"}, {"none"}}]}
AspectOf(x) == [t \in {t \in {"t", "u"} : x[t] # {"none"}} \cup {"default"} |->
                   IF t = "default" THEN [p \in {"r", "s"} |-> <<t, p>>] ELSE [p \in x[t] |-> <<t, p>>]]

AddTag == /\ part = "rules"
          /\ Len(in.tags) < TagsMax
          /\ \E t \in {"t", "u", "v", "default"} : in' = [in EXCEPT !.tags = Append(@, t)]
          /\ UNCHANGED part

-----------------------------------------------------------------------------
Init == \/ part \in {"tree", "types", "aspect", "multi"} /\ in = <<>>
        \/ part = "json" /\ in = [s |-> <<>>, l |-> <<>>]
        \/ part = "members" /\ \E b \in Blanks : in = [m |-> <<>>, blank |-> b]
        \/ part = "php" /\ \E b \in {<<>>, <<32, 10>>} : in = [m |-> <<>>, blank |-> b]
        \/ part = "phpser" /\ \E b \in {<<>>, <<32, 10>>}, map \in BOOLEAN : in = [m |-> <<>>, blank |-> b, map |-> map]
        \/ part = "rules" /\ \E x \in RuleSets : in = [tags |-> <<>>, sets |-> x]

Next == Graft \/ Extend \/ Compose \/ AddSymbol \/ AddNumber \/ AddMember \/ Operate \/ AddSerialized \/ AddRepeated \/ AddTag

Spec == Init /\ [][Next]_vars

\* Type lists and aspects are put together as documented: organize flattens any tree,
\* the operations on lists give what their comments say, of the advices with a tag the
\* last one wins, and a group keeps all of its advices (see TypeLists and Aspects).
ListsAndAspects ==
    /\ part = "tree"   => TL!OrganizeFlattens(in)
    /\ part = "types"  => TL!ListsAsDocumented(in) /\ TL!SplitsAsDocumented(in)
    /\ part = "aspect" => AO!LastAdviceWins(in) /\ AO!GroupsKeepAll(in)

\* What the JSON writers write, the readers read back (the record type above, and the
\* values of the daemon's maps of texts), the parser skips, four-byte symbols aside,
\* and members fill their fields in any order among unknown ones (see Json).
JsonReadsBack ==
    /\ part = "json" =>
        LET v == RecordOf(in)
            s == FlattenSeq(in.s)
            N == JS!array("map", JS!pair(Text, JS!strvalue))
        IN  /\ JS!ReadsBack(Record, v, [v EXCEPT ![104] = <<>>])
            /\ JS!ReadsBack(N, {<<s, s>>}, {<<s, s>>})
            /\ \A i \in DOMAIN in.l : JS!FitsBuffer(Byte, in.l[i])
            /\ (\A i \in DOMAIN in.s : Len(in.s[i]) < 4) => JS!SkipsWhatItWrites(Record, v)
    /\ part = "members" => JS!ReadsAnyOrder(Short, Short.def, in.m, in.blank)

\* Reading a value of changing type leaves its value, AMF reads back what it writes
\* (see AmfValues), the readers of PHP's format fill the members of an object in whatever
\* order they come, the first reader up to the texts it refuses, those with booleans among
\* them, and find the rule of a value in the first set that has it (see Serialization and
\* PhpSer, which name the texts).
ValuesReadBack ==
    /\ part = "multi" =>
        /\ AV!ReadsLeaveValue(in)
        /\ \A after \in {<<>>, <<0>>, <<0, 0, 9>>} : AV!AmfReadsBack(AV!Run(in, 0), after)
    /\ part = "php" => \A after \in {<<>>, <<125>>} : PH!ReadsMembers(Whole, Unread, in.m, in.blank, after)
    /\ part = "phpser" =>
        \A after \in {<<>>, <<125>>} :
            IF in.map THEN PS!LastValueStays(WithMap, UnreadMap, in.m, in.blank, after)
            ELSE PS!LastValueStays(NoMap, UnreadNoMap, in.m, in.blank, after)
    /\ part = "rules" => PH!FirstSetWins(in.tags, AspectOf(in.sets), {"r", "s", "q"})
=============================================================================
