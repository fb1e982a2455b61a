---------------------------- MODULE Serialization ----------------------------
(***************************************************************************)
(* fas/misc/serialization: reading PHP's serialization format into objects *)
(* (i:1; d:1.5; b:1; N; s:2:"ab"; a:1:{key;value}).                        *)
(*                                                                         *)
(* A text is a sequence of bytes; a range is what is left of it, so that   *)
(* two ranges of one text are equal if they are equally long.  What is     *)
(* thrown is named in e.  A record V describes a type.                     *)
(***************************************************************************)
EXTENDS Integers, Sequences, SequencesExt

CONSTANTS Wide,       \* a number is kept modulo Wide, which stands for 2^32
          DefaultTag, \* the tag _default_
          NotFound    \* the program does not compile

Found(v, b) == [e |-> "", v |-> v, b |-> b]
Throw(name) == [e |-> name, v |-> 0, b |-> <<>>]
TheEnd      == Throw("unexpected_end_fragment")
Then(r, F(_, _)) == IF r.e # "" THEN r ELSE F(r.v, r.b)
Is(b, c)    == b # <<>> /\ Head(b) = c
Skip(b, n)  == SubSeq(b, n + 1, Len(b))
Digit       == 48 .. 57
Expect(b, c) == IF b = <<>> THEN TheEnd ELSE IF Head(b) # c THEN Throw("expected_of") ELSE Found(0, Tail(b))
NotEnd(b, r) == IF b = <<>> THEN TheEnd ELSE r

-----------------------------------------------------------------------------
(* The parser: where a value ends.                                         *)

\* A byte above 127 is a negative char, and so a blank.
RECURSIVE parse_space(_)
parse_space(b) == IF b # <<>> /\ Head(b) \notin 33 .. 127 THEN parse_space(Tail(b)) ELSE b

RECURSIVE parse_digits(_)
parse_digits(b) == IF b # <<>> /\ Head(b) \in Digit THEN parse_digits(Tail(b)) ELSE b

parse_number(b) ==
    LET digits(c) == IF c = <<>> THEN TheEnd
                     ELSE IF Head(c) \in Digit THEN Found(0, parse_digits(c)) ELSE Throw("invalid_number")
        int(c)  == IF Is(c, 48) THEN Found(0, Tail(c)) ELSE digits(c)
        frac(c) == IF Is(c, 46) THEN digits(Tail(c)) ELSE Found(0, c)
        sign(c) == IF Is(c, 43) \/ Is(c, 45) THEN Tail(c) ELSE c
        pow(c)  == IF Is(c, 69) \/ Is(c, 101) THEN digits(sign(Tail(c))) ELSE Found(0, c)
    IN  NotEnd(b, Then(int(IF Is(b, 45) THEN Tail(b) ELSE b), LAMBDA x, c : Then(frac(c), LAMBDA y, d : pow(d))))

RECURSIVE Digits(_, _)
Digits(v, b) == IF b # <<>> /\ Head(b) \in Digit THEN Digits((v * 10 + Head(b) - 48) % Wide, Tail(b)) ELSE Found(v, b)
unserialize_integer(b) ==
    LET neg == Is(b, 45)
        d == IF neg THEN Tail(b) ELSE b
    IN  CASE b = <<>> -> TheEnd
          [] b # <<>> /\ (d = <<>> \/ Head(d) \notin Digit) -> Throw("invalid_number")
          [] Is(d, 48) -> Found(0, Tail(d))
          [] OTHER -> Then(Digits(0, d), LAMBDA v, c : Found(IF neg THEN -v ELSE v, c))

\* t, a colon and, for a string or an array, its length and a colon; the
\* length is only passed over where nobody asks for it
parse_typename(t, b, asked) ==
    Then(Expect(b, t), LAMBDA x, c : Then(Expect(c, 58), LAMBDA y, d : NotEnd(d,
        IF t \notin {115, 97} THEN Found(0, d)
        ELSE Then(IF asked THEN unserialize_integer(d) ELSE parse_number(d), LAMBDA size, f :
             Then(Expect(f, 58), LAMBDA z, g : NotEnd(g, Found(size, g)))))))

\* i: or d: and a number
parse_number_of(t, b) == Then(parse_typename(t, b, FALSE), LAMBDA x, c : parse_number(c))

parse_null(b) == Expect(b, 78)

parse_bool(b) ==
    Then(parse_typename(98, b, FALSE), LAMBDA x, c :
        IF Head(c) \in {48, 49} THEN Found(0, Tail(c)) ELSE Throw("expected_of"))

parse_string(b) ==
    Then(parse_typename(115, b, TRUE), LAMBDA size, c :
    Then(Expect(c, 34), LAMBDA x, d : NotEnd(d, Expect(Skip(d, size), 34))))

RECURSIVE parse_members(_)
parse_object(b) ==
    Then(parse_typename(97, b, TRUE), LAMBDA x, c :
    Then(Expect(parse_space(c), 123), LAMBDA y, d : NotEnd(parse_space(d), parse_members(parse_space(d)))))

parse_value(b) ==
    CASE Is(b, 78)  -> parse_null(b)
      [] Is(b, 98)  -> parse_bool(b)
      [] Is(b, 105) -> parse_number_of(105, b)
      [] Is(b, 100) -> parse_number_of(100, b)
      [] Is(b, 115) -> parse_string(b)
      [] Is(b, 97)  -> parse_object(b)
      [] OTHER      -> Throw("deserialize_error")

\* spaces, a semicolon that may be left out, and spaces
Semicolon(b) == LET c == parse_space(b) IN IF Is(c, 59) THEN Tail(c) ELSE c

parse_member(b) ==
    Then(parse_value(b), LAMBDA x, c :
        LET d == parse_space(Semicolon(c))
        IN  IF parse_space(c) = <<>> \/ d = <<>> THEN TheEnd
            ELSE Then(parse_value(d), LAMBDA y, f : NotEnd(parse_space(f), Found(0, Semicolon(f)))))

parse_members(b) ==
    IF b = <<>> THEN TheEnd
    ELSE IF Head(b) = 125 THEN Found(0, Tail(b))
    ELSE Then(parse_member(parse_space(b)), LAMBDA x, c : parse_members(parse_space(c)))

-----------------------------------------------------------------------------
(* Types, and the readers of them.  A reader that does not find what it    *)
(* reads returns the range it was given.                                   *)

numeric == [k |-> "numeric"]
string  == [k |-> "string"]
enumerator(names, values) == [k |-> "enumerator", names |-> names, values |-> values]
pair(F, S) == [k |-> "pair", first |-> F, second |-> S]
associative(P) == [k |-> "associative", of |-> P]
attribute(name, field, V) == [k |-> "attribute", name |-> name, field |-> field, of |-> V]
others(field, V) == [k |-> "others", field |-> field, of |-> V]
object(list) == [k |-> "object", list |-> list]

type_deserializer_integer(b) == unserialize_integer(b)
\* the string is added to what v holds; a range that ends within it is an assertion
type_deserializer_string(v, b, s) ==
    IF Len(b) < s + 2 THEN Throw("assert") ELSE Found(v \o SubSeq(b, 2, s + 1), Skip(b, s + 2))

deserializer_numeric(v, b) ==
    CASE Is(b, 105) -> Then(parse_typename(105, b, FALSE), LAMBDA x, c : type_deserializer_integer(c))
      [] Is(b, 115) -> Then(parse_typename(115, b, FALSE), LAMBDA x, c :
                       Then(type_deserializer_integer(Tail(c)), LAMBDA n, d :
                       Then(parse_string(b), LAMBDA y, f : Found(n, f))))
      [] OTHER -> Found(v, b)

deserializer_string(v, b) ==
    Then(parse_typename(115, b, TRUE), LAMBDA s, c : type_deserializer_string(v, c, s))

\* metatype::key: the name, between quotation marks
deserializer_keyPrefix(name, b) ==
    IF ~Is(b, 115) THEN Found(0, b)
    ELSE Then(parse_typename(115, b, TRUE), LAMBDA s, c :
            IF Is(c, 34) /\ IsPrefix(name, Tail(c)) THEN parse_string(b) ELSE Found(0, b))
deserializer_key(name, b) ==
    IF ~Is(b, 115) THEN Found(0, b)
    ELSE Then(parse_typename(115, b, TRUE), LAMBDA s, c :
            LET d == Skip(c, 1 + Len(name))
            IN  IF Is(c, 34) /\ IsPrefix(name, Tail(c)) /\ Is(d, 34) THEN Found(0, Tail(d)) ELSE Found(0, b))

deserializer_enumerator(V, v, b) ==
    Then(parse_typename(115, b, FALSE), LAMBDA s, c :
        LET fit == {i \in DOMAIN V.names : Is(c, 34) /\ IsPrefix(V.names[i] \o <<34>>, Tail(c))}
            first == CHOOSE i \in fit : \A j \in fit : i <= j
        IN  IF fit = {} \/ V.names[first] = <<>> THEN Found(v, b)
            ELSE Found(V.values[first], Skip(c, Len(V.names[first]) + 2)))

RECURSIVE Deserialize(_, _, _)
Default(V) == IF V.k \in {"string", "associative"} THEN <<>> ELSE 0

\* the first reader's value, a semicolon, the second's, and one that may be left out
deserializer_pair(V, v, b) ==
    Then(Deserialize(V.first, v[1], b), LAMBDA x, c :
        LET d == parse_space(c)
            f == parse_space(Tail(d))
        IN  IF c = b \/ ~Is(d, 59) THEN Found(<<x, v[2]>>, b)
            ELSE Then(Deserialize(V.second, v[2], f), LAMBDA y, g :
                    IF g = f THEN Found(<<x, y>>, b) ELSE Found(<<x, y>>, Semicolon(g))))

\* one pair; std::map::insert keeps the value it has
deserializer_associative(V, v, b) ==
    Then(deserializer_pair(V.of, <<Default(V.of.first), Default(V.of.second)>>, parse_space(b)), LAMBDA p, c :
        IF c = b THEN Found(v, b)
        ELSE Found(IF \E i \in DOMAIN v : v[i][1] = p[1] THEN v ELSE Append(v, p), c))

deserializer_attribute(V, v, b) ==
    Then(deserializer_key(V.name, b), LAMBDA x, c :
        LET d == parse_space(c)
            f == parse_space(Tail(d))
        IN  IF c = b \/ ~Is(d, 59) \/ f = <<>> THEN Found(v, b)
            ELSE Then(Deserialize(V.of, v[V.field], f), LAMBDA y, g :
                    IF g = f THEN Found(v, b) ELSE Found([v EXCEPT ![V.field] = y], Semicolon(g))))

\* each of the fields once, one after the other
RECURSIVE deserializer_fieldlist(_, _, _)
deserializer_fieldlist(L, v, b) ==
    LET c == parse_space(b)
        field(V) == IF V.k = "attribute" THEN deserializer_attribute(V, v, c)
                    ELSE Then(Deserialize(V.of, v[V.field], c), LAMBDA y, d : Found([v EXCEPT ![V.field] = y], d))
    IN  IF L = <<>> THEN Found(v, b)
        ELSE IF Is(c, 125) THEN Found(v, c)
        ELSE Then(field(Head(L)), LAMBDA w, d : IF d = <<>> THEN Found(w, d) ELSE deserializer_fieldlist(Tail(L), w, d))

\* the fields of one metatype, and those of the others, in their order
select_from(list, k) == [type   |-> SelectSeq(list, LAMBDA x : x.k = k),
                         margin |-> SelectSeq(list, LAMBDA x : x.k # k)]

\* the attributes, then the other fields, then nobody's member
RECURSIVE Fields(_, _, _)
Fields(V, v, b) ==
    LET props == select_from(V.list, "attribute").type
        rest  == select_from(V.list, "attribute").margin
        Ended(c) == c = <<>> \/ Is(c, 125)
    IN  IF b = <<>> THEN Found(v, b)
        ELSE Then(deserializer_fieldlist(props, v, b), LAMBDA v1, b1 :
             IF Ended(b1) THEN Found(v1, b1)
             ELSE IF b1 # b THEN Fields(V, v1, b1)
             ELSE Then(deserializer_fieldlist(rest, v1, b1), LAMBDA v2, b2 :
                  IF Ended(b2) THEN Found(v2, b2)
                  ELSE IF b2 # b THEN Fields(V, v2, b2)
                  ELSE Then(parse_member(b2), LAMBDA x, b3 : IF b3 = b THEN Found(v2, b3) ELSE Fields(V, v2, b3))))

deserializer_object(V, v, b) ==
    Then(parse_typename(97, b, TRUE), LAMBDA x, c :
        LET d == parse_space(c)
            f == parse_space(Tail(d))
        IN  IF ~Is(d, 123) \/ f = <<>> THEN Found(v, b)
            ELSE Then(Fields(V, v, f), LAMBDA w, g :
                 Then(Expect(parse_space(g), 125), LAMBDA y, h : Found(w, h))))

Deserialize(V, v, b) ==
    CASE V.k = "numeric"     -> deserializer_numeric(v, b)
      [] V.k = "string"      -> deserializer_string(v, b)
      [] V.k = "enumerator"  -> deserializer_enumerator(V, v, b)
      [] V.k = "pair"        -> deserializer_pair(V, v, b)
      [] V.k = "associative" -> deserializer_associative(V, v, b)
      [] V.k = "object"      -> deserializer_object(V, v, b)

-----------------------------------------------------------------------------
\* A member of a text: its name, what is written for it, and its value if
\* the object lists it as an attribute, or if the map of the object takes it.
\*
\* In whatever order the members come, and with whatever unlisted members and
\* spaces between them, every listed member gets its own value, the map gets
\* the members that fit it, the others are passed over, and the reader stops
\* where the object ends (deserializer.hpp, metatype::fieldlist).
ReadsMembers(V, default, members, blank, after) ==
    LET Text(m) == blank \o <<115, 58, 48 + Len(m.name), 58, 34>> \o m.name \o <<34>> \o blank \o <<59>> \o blank \o m.text
        text == <<97, 58, 48 + Len(members), 58, 123>> \o FlattenSeq([i \in DOMAIN members |-> Text(members[i])])
                \o blank \o <<125>> \o after
        r == Deserialize(V, default, text)
    IN  /\ r.e = ""
        /\ r.b = after
        /\ \A i \in DOMAIN members : members[i].into = "field" => r.v[members[i].name] = members[i].value
        /\ r.v[<<>>] = LET taken == SelectSeq(members, LAMBDA m : m.into = "map")
                        IN  [i \in DOMAIN taken |-> <<taken[i].name, taken[i].value>>]

-----------------------------------------------------------------------------
(***************************************************************************)
(* How the two readers of PHP's format find the rule that reads a value:   *)
(* fas/misc/phpser.hpp (rule_serach, by one tag) and                       *)
(* fas/misc/serialization/deserializer.hpp (search_helper, by the value's  *)
(* list of tags).  An aspect A gives a tag a set of rules, and a set gives *)
(* a rule's tag the rule.                                                  *)
(***************************************************************************)

rule_serach_helper2(Tr, Tg, A) ==
    CASE Tr \in DOMAIN A[Tg]                          -> A[Tg][Tr]
      [] Tr \notin DOMAIN A[Tg] /\ Tg # DefaultTag
            /\ Tr \in DOMAIN A[DefaultTag]               -> A[DefaultTag][Tr]
      [] OTHER                                        -> NotFound

rule_serach(Tr, Tg, A) ==
    IF Tg \in DOMAIN A THEN rule_serach_helper2(Tr, Tg, A)
    ELSE IF Tr \in DOMAIN A[DefaultTag] THEN A[DefaultTag][Tr] ELSE NotFound

RECURSIVE search_helper(_, _, _)
\* stops at the first set there is
search_helperAny(Tr, TL, A) ==
    CASE TL = <<>> -> NotFound
      [] TL # <<>> /\ Head(TL) \in DOMAIN A -> IF Tr \in DOMAIN A[Head(TL)] THEN A[Head(TL)][Tr] ELSE NotFound
      [] OTHER -> search_helper(Tr, Tail(TL), A)
search_helper(Tr, TL, A) ==
    CASE TL = <<>> -> NotFound
      [] TL # <<>> /\ Head(TL) \in DOMAIN A /\ Tr \in DOMAIN A[Head(TL)] -> A[Head(TL)][Tr]
      [] OTHER -> search_helper(Tr, Tail(TL), A)

\* A rule comes from the first of the value's sets that has it, so that a set
\* may change some rules and leave the others to the DefaultTag set; searching by
\* one tag is searching the list of that tag and _default_ (the comment above
\* rule_serach: first the set Tg, then _default_).
FirstSetWins(TL, A, Tags) ==
    \A Tr \in Tags :
        LET fit == {i \in DOMAIN TL : TL[i] \in DOMAIN A /\ Tr \in DOMAIN A[TL[i]]}
            i == CHOOSE i \in fit : \A j \in fit : i <= j
        IN  /\ search_helper(Tr, TL, A) = IF fit = {} THEN NotFound ELSE A[TL[i]][Tr]
            /\ \A Tg \in {TL[k] : k \in DOMAIN TL} :
                  rule_serach(Tr, Tg, A) = search_helper(Tr, <<Tg, DefaultTag>>, A)
=============================================================================
