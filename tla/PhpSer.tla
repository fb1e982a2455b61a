------------------------------- MODULE PhpSer -------------------------------
(***************************************************************************)
(* fas/misc/phpser: the library's first reader of PHP's serialization      *)
(* format, over the scanners of its JSON reader.  A text is a sequence of  *)
(* bytes, a position what is left of it; a record V describes a type.      *)
(***************************************************************************)
EXTENDS Integers, Sequences, SequencesExt

J == INSTANCE Json

Found(v, b) == J!Found(v, b)
Then(r, F(_, _)) == J!Then(r, F)
Is(b, c) == J!Is(b, c)
NotEnd(b, r) == IF b = <<>> THEN J!TheEnd ELSE r
Skip(b, n) == SubSeq(b, n + 1, Len(b))
Spaces(b) == J!parse_space(b)
Size == J!Integer(2, FALSE)

-----------------------------------------------------------------------------
(* The parser: where a value ends.                                         *)

parse_null(b) == J!Expect(b, 78)

\* Whatever follows "b:", it is not 1 or not 0: there is no boolean it accepts.
parse_bool(b) ==
    Then(J!Expect(b, 98), LAMBDA x, c : Then(J!Expect(c, 58), LAMBDA y, d :
        NotEnd(d, IF Head(d) # 49 \/ Head(d) # 48 THEN J!Throw("expected_of") ELSE Found(0, Tail(d)))))

parse_number(b) ==
    Then(IF Is(b, 105) THEN Found(0, Tail(b)) ELSE J!Expect(b, 100), LAMBDA x, c :
    Then(J!Expect(c, 58), LAMBDA y, d : NotEnd(d, J!parse_number(d))))

\* t, a colon and, for a string or an array, its length and a colon.  A caller that
\* does not ask for the length (sized) accepts any number there.
parse_typename(t, sized, b) ==
    Then(J!Expect(b, t), LAMBDA x, c : Then(J!Expect(c, 58), LAMBDA y, d : NotEnd(d,
        IF t \notin {115, 97} THEN Found(0, d)
        ELSE Then(IF sized THEN J!unserialize_integer(Size, d) ELSE J!parse_number(d), LAMBDA size, f :
             Then(J!Expect(f, 58), LAMBDA z, g : NotEnd(g, Found(size, g)))))))

parse_string(b) ==
    Then(parse_typename(115, TRUE, b), LAMBDA size, c :
    Then(J!Expect(c, 34), LAMBDA x, d : NotEnd(Skip(d, size), J!Expect(Skip(d, size), 34))))

Semicolon(b) == LET c == Spaces(b) IN IF Is(c, 59) THEN Tail(c) ELSE c

RECURSIVE members(_)
parse_object(b) ==
    Then(parse_typename(97, TRUE, b), LAMBDA x, c : Then(J!Expect(Spaces(c), 123), LAMBDA y, d : members(Spaces(d))))

parse_value(b) ==
    CASE Is(b, 78)  -> parse_null(b)
      [] Is(b, 98)  -> parse_bool(b)
      [] Is(b, 105) \/ Is(b, 100) -> parse_number(b)
      [] Is(b, 115) -> parse_string(b)
      [] Is(b, 97)  -> parse_object(b)
      [] OTHER      -> J!Throw("invalid_json")

parse_member(b) ==
    Then(parse_value(b), LAMBDA x, c : NotEnd(Spaces(c), NotEnd(Spaces(Semicolon(c)),
    Then(parse_value(Spaces(Semicolon(c))), LAMBDA y, d : NotEnd(Spaces(d), Found(0, Semicolon(d)))))))

members(b) ==
    IF b = <<>> THEN J!Throw("expected_of")
    ELSE IF Head(b) = 125 THEN Found(0, Tail(b))
    ELSE Then(parse_member(Spaces(b)), LAMBDA x, c : members(Spaces(c)))

-----------------------------------------------------------------------------
(* Types, and their readers.                                               *)

numeric(I) == [k |-> "numeric", int |-> I]
number_string(I) == [k |-> "number_string", int |-> I]
string == [k |-> "string"]
object(list) == [k |-> "object", list |-> list]
attribute(name, field, V) == [k |-> "attribute", name |-> name, field |-> field, of |-> V]
hash(field, K, V) == [k |-> "hash", field |-> field, key |-> K, mapped |-> V]

Default(V) == IF V.k = "string" THEN <<>> ELSE 0
\* N is a value of every type.
Null(V, r) == Then(r, LAMBDA x, c : Found(Default(V), Semicolon(c)))

deserializerN(V, v, b) ==
    LET c == Spaces(b)
    IN  CASE Is(c, 78) -> Null(V, parse_null(c))
          [] Is(c, 105) \/ Is(c, 100) ->
                Then(parse_typename(105, FALSE, c), LAMBDA x, d :
                Then(J!unserialize_integer(V.int, d), LAMBDA n, f : Found(n, Semicolon(f))))
          [] OTHER -> Found(v, b)

\* the text between the quotation marks after a length; Use gets it and what follows
Quoted(c, failed, Use(_, _)) ==
    Then(parse_typename(115, TRUE, c), LAMBDA size, d :
        LET f == Tail(d)
            g == Skip(f, IF size < Len(f) THEN size ELSE Len(f))
        IN  IF ~Is(d, 34) \/ ~Is(g, 34) THEN failed ELSE Use(SubSeq(f, 1, size), Tail(g)))

\* A number without quotation marks is read, and read again as what follows.
deserializer_number_string(V, v, b) ==
    LET c == Spaces(b)
    IN  CASE Is(c, 78) -> Null(V, parse_null(c))
          [] Is(c, 105) \/ Is(c, 100) -> Then(deserializerN(V, v, c), LAMBDA n, d : Found(n, c))
          [] Is(c, 115) -> Quoted(c, Found(v, b), LAMBDA s, d :
                Then(J!unserialize_integer(V.int, s), LAMBDA n, f : Found(n, Semicolon(d))))
          [] OTHER -> Found(v, b)

deserializer_string(V, v, b) ==
    LET c == Spaces(b)
    IN  CASE Is(c, 78) -> Null(V, parse_null(c))
          [] Is(c, 115) -> Quoted(c, Found(v, b), LAMBDA s, d : Found(s, Semicolon(d)))
          [] OTHER -> Found(v, b)

\* the first quotation mark ends the name that is compared, not the length given
check_namePrefix(name, b) == IsPrefix(name, b)
check_name(name, b) == IsPrefix(name \o <<34>>, b)
\* v: whether the name fits
deserializer_key(name, b) ==
    IF ~Is(b, 115) THEN Found(FALSE, b)
    ELSE Then(parse_typename(115, TRUE, b), LAMBDA size, c :
         Then(J!Expect(c, 34), LAMBDA x, d :
            IF check_name(name, d) THEN Found(TRUE, Semicolon(Skip(d, size + 1))) ELSE Found(FALSE, b)))

RECURSIVE Deserialize(_, _, _)
deserializer_attribute(V, t, b) ==
    Then(deserializer_key(V.name, Spaces(b)), LAMBDA fits, c :
        IF ~fits THEN Found(t, c)
        ELSE NotEnd(Spaces(c), Then(Deserialize(V.of, t[V.field], Spaces(c)), LAMBDA v, d :
                Found([t EXCEPT ![V.field] = v], Spaces(d)))))

\* A key and a value are put in the map, read or not.
deserializer_hash(V, t, b) ==
    Then(Deserialize(V.key, Default(V.key), Spaces(b)), LAMBDA k, c :
    Then(Deserialize(V.mapped, Default(V.mapped), Spaces(Semicolon(c))), LAMBDA v, d :
        Found(IF \E i \in DOMAIN t[V.field] : t[V.field][i][1] = k THEN t
              ELSE [t EXCEPT ![V.field] = Append(@, <<k, v>>)], Semicolon(d))))

\* The attributes, each until it is read once (done), one after the other;
\* v is the object and done.
RECURSIVE deserializer_list_true(_, _, _, _, _)
deserializer_list_true(L, i, t, done, b) ==
    CASE i > Len(L) -> Found(<<t, done>>, b)
      [] i =< Len(L) /\ i \in done -> deserializer_list_true(L, i + 1, t, done, b)
      [] OTHER -> Then(deserializer_attribute(L[i], t, b), LAMBDA v, c :
                    deserializer_list_true(L, i + 1, v, IF c = b THEN done ELSE done \cup {i}, c))

\* The other fields, until one of them reads something.
RECURSIVE deserializer_list_false(_, _, _)
deserializer_list_false(L, t, b) ==
    IF L = <<>> THEN Found(t, b)
    ELSE Then(IF Head(L).k = "hash" THEN deserializer_hash(Head(L), t, b)
              ELSE deserializer_attribute(Head(L), t, b), LAMBDA v, c :
            IF c # b THEN Found(v, c) ELSE deserializer_list_false(Tail(L), v, b))

\* The fields of some metatypes, and the rest.  What is asked for its metatype
\* is the list of metatypes, which has none (T and L are interchanged in
\* detail::select_meta): no field is selected, and all are the rest.
select_meta(list) == [type |-> <<>>, margin |-> list]

RECURSIVE object_members(_, _, _, _)
object_members(V, t, done, b) ==
    LET first  == select_meta(V.list).type
        second == select_meta(V.list).margin
        c == Spaces(b)
    IN  IF b = <<>> \/ Is(b, 125) THEN Found(t, b)
        ELSE Then(deserializer_list_true(first, 1, t, done, c), LAMBDA v, d :
             IF d # c THEN object_members(V, v[1], v[2], d)
             ELSE Then(deserializer_list_false(second, v[1], c), LAMBDA w, f :
                  IF f # c THEN object_members(V, w, v[2], f)
                  ELSE Then(parse_member(c), LAMBDA x, g : object_members(V, w, v[2], g))))

deserializer_object(V, t, b) ==
    LET c == Spaces(b)
    IN  IF ~Is(c, 97) THEN Found(t, b)
        ELSE Then(parse_typename(97, FALSE, c), LAMBDA x, d :
             IF ~Is(Spaces(d), 123) THEN Found(t, b)
             ELSE Then(object_members(V, t, {}, Spaces(Tail(Spaces(d)))), LAMBDA v, f :
                  Found(v, IF Is(Spaces(f), 125) THEN Tail(Spaces(f)) ELSE b)))

Deserialize(V, v, b) ==
    CASE V.k = "numeric"       -> deserializerN(V, v, b)
      [] V.k = "number_string" -> deserializer_number_string(V, v, b)
      [] V.k = "string"        -> deserializer_string(V, v, b)
      [] V.k = "object"        -> deserializer_object(V, v, b)

-----------------------------------------------------------------------------
\* In whatever order the members come, and however often, a listed member has
\* the value it is given last; a map that is listed after the attributes gets
\* every other member, at its first value; members no one reads are passed over,
\* and reading stops where the object ends (phpser_object.hpp: the attributes
\* and the rest are one list, so that an attribute listed after a map would get
\* nothing).  A text with a boolean in it is refused wherever the boolean stands,
\* although the format lists them (phpser_parser.hpp:17 and :86), and so is one that
\* gives a double to a whole number (phpser_value.hpp:107).
\*
\* Not every text of the format is among these: no spaces stand before the brace that
\* ends the object, since they are passed over only after an attribute, and after
\* another member the brace is taken for a member; and a number_string is not given a
\* number without quotation marks, which would be read again as a member.
LastValueStays(V, default, given, blank, after) ==
    LET Text(m) == blank \o <<115, 58, 48 + Len(m.name), 58, 34>> \o m.name \o <<34>> \o blank \o <<59>> \o blank \o m.text
        text == <<97, 58, 48 + Len(given), 58, 123>> \o FlattenSeq([i \in DOMAIN given |-> Text(given[i])])
                \o <<125>> \o after
        r == Deserialize(V, default, text)
        Same(i) == {j \in DOMAIN given : given[j].name = given[i].name}
    IN  IF \E i \in DOMAIN given : given[i].into = "refused" THEN r.e # ""
        ELSE
        /\ r.e = "" /\ r.b = after
        /\ \A i \in DOMAIN given :
              given[i].into = "field" /\ (\A j \in Same(i) : j =< i) => r.v[given[i].name] = given[i].value
        /\ <<>> \in DOMAIN default =>
              {r.v[<<>>][i] : i \in DOMAIN r.v[<<>>]} =
                 {<<given[i].name, given[i].value>> :
                     i \in {i \in DOMAIN given : given[i].into = "map" /\ \A j \in Same(i) : j >= i}}
=============================================================================
