-------------------------------- MODULE Json --------------------------------
(***************************************************************************)
(* The typed readers and writers of fas/misc/json.hpp: numbers, strings,   *)
(* enumerations, arrays, maps and objects, and those the daemon adds       *)
(* (quoted integers, values read as text, arrays of pairs).                *)
(*                                                                         *)
(* A record J whose field k names a template describes a type: value<>,    *)
(* array<>, object<> and so on.  Strings are sequences of bytes, maps are  *)
(* sets of pairs with different keys, objects are records.                 *)
(***************************************************************************)
EXTENDS Integers, SequencesExt

-----------------------------------------------------------------------------
(***************************************************************************)
(* class fas::json::parser: the part of the JSON library that only finds   *)
(* where a value ends.  Members nobody listed are skipped by it, and the   *)
(* values the daemon stores as they came (raw_value) are cut out by it.    *)
(*                                                                         *)
(* A text is a sequence of bytes.  The iterators [beg, end) are the bytes  *)
(* still to be read; a thrown json_error is a result whose e names it.     *)
(***************************************************************************)

quote == 34
backslash == 92
slash == 47
star == 42
comma == 44
colon == 58
minus == 45
Blank == {32, 9, 13, 10}
Digits == 48 .. 57

\* The words are spelled by their bytes.
word_null  == <<110, 117, 108, 108>>
word_true  == <<116, 114, 117, 101>>
word_false == <<102, 97, 108, 115, 101>>

Found(v, b) == [e |-> "", v |-> v, b |-> b]
Throw(name) == [e |-> name, v |-> 0, b |-> <<>>]
TheEnd      == Throw("unexpected_end_fragment")

\* Calls follow one another until one of them throws.
Then(r, F(_, _)) == IF r.e # "" THEN r ELSE F(r.v, r.b)
Is(b, c)         == b # <<>> /\ Head(b) = c

\* if (beg==end) throw; if (*beg!=c) throw; ++beg.
Expect(b, c) ==
    CASE b = <<>>       -> TheEnd
      [] Head(b) # c    -> Throw("expected_of")
      [] OTHER          -> Found(0, Tail(b))

----------------------------------------------------------------------------
(* class parser: what a value is, without reading it.                      *)

RECURSIVE space(_, _)
space(b, start_comment) ==
    CASE b = <<>> -> b
      [] start_comment /\ b # <<>> ->
            space(Tail(b), ~(Head(b) = star /\ Is(Tail(b), slash)))
      [] ~start_comment /\ Is(b, slash) -> space(Tail(b), Is(Tail(b), star))
      [] ~start_comment /\ b # <<>> /\ Head(b) \in Blank -> space(Tail(b), FALSE)
      [] OTHER -> b
parse_space(b) == space(b, FALSE)

\* The bytes of one word, one after the other.
Word(b, w) ==
    IF IsPrefix(w, b) THEN Found(0, SubSeq(b, Len(w) + 1, Len(b)))
    ELSE IF IsPrefix(b, w) THEN TheEnd ELSE Throw("expected_of")

is_null(b) == Is(b, word_null[1])
parse_null(b) ==
    IF b = <<>> \/ is_null(b) THEN Word(b, word_null) ELSE Throw("invalid_json_null")

is_bool(b) == b # <<>> /\ Head(b) \in {word_true[1], word_false[1]}
parse_bool(b) ==
    CASE b = <<>>  -> TheEnd
      [] Is(b, word_true[1])  -> Word(b, word_true)
      [] Is(b, word_false[1]) -> Word(b, word_false)
      [] OTHER     -> Throw("invalid_json_bool")

RECURSIVE _parse_digit(_)
_parse_digit(b) == IF b # <<>> /\ Head(b) \in Digits THEN _parse_digit(Tail(b)) ELSE b

is_number(b) == b # <<>> /\ Head(b) \in Digits \cup {minus}
parse_number(b) ==
    LET digits(c) == CASE c = <<>> -> TheEnd
                       [] c # <<>> /\ Head(c) \in Digits -> Found(0, _parse_digit(c))
                       [] OTHER -> Throw("invalid_json_number")
        int(c)   == IF Is(c, 48) THEN Found(0, Tail(c)) ELSE digits(c)
        frac(c)  == IF Is(c, 46) THEN digits(Tail(c)) ELSE Found(0, c)
        sign(c)  == IF c # <<>> /\ Head(c) \in {43, minus} THEN Tail(c) ELSE c
        pow(c)   == IF c # <<>> /\ Head(c) \in {69, 101}
                    THEN digits(sign(Tail(c))) ELSE Found(0, c)
    IN  Then(int(IF Is(b, minus) THEN Tail(b) ELSE b),
             LAMBDA x, c : Then(frac(c), LAMBDA y, d : pow(d)))

\* What follows the head of b when it is continued by n bytes 10xxxxxx.
Continued(b, n) ==
    LET good == {i \in 0 .. n : \A j \in 1 .. i : Len(b) > j /\ b[j + 1] \div 64 = 2}
        k    == CHOOSE i \in good : \A j \in good : j =< i
    IN  [ok |-> k = n, b |-> SubSeq(b, k + 2, Len(b))]

\* The tests are made one after the other, each where the last one stopped.
parse_symbol(b) ==
    LET test(s, size, bits, n) ==
            IF ~s.ok /\ s.b # <<>> /\ Head(s.b) \div size = bits
            THEN Continued(s.b, n) ELSE s
        s2 == test([ok |-> FALSE, b |-> b], 32, 6, 1)
        s3 == test(s2, 16, 14, 2)
        s4 == test(s3, 8, 30, 2)
    IN  IF Head(b) < 128 THEN Found(0, Tail(b))
        ELSE IF s4.ok THEN Found(0, s4.b) ELSE Throw("invalid_json_string")

\* The loop of parse_hex never runs: the digits are left to parse_symbol.
parse_hex(b) == IF b = <<>> THEN TheEnd ELSE Found(0, b)

Escapes == {quote, backslash, slash, 116, 98, 110, 114, 102, 117}

is_string(b) == Is(b, quote)
RECURSIVE string_tail(_)
\* mutant of string_tail: a backslash is a symbol like any other
string_tailPlain(b) ==
    IF b = <<>> THEN TheEnd
    ELSE IF Head(b) = quote THEN Found(0, Tail(b))
    ELSE Then(parse_symbol(b), LAMBDA x, c : string_tail(c))
string_tail(b) ==
    LET escaped == Tail(b)
        one == CASE Head(b) # backslash -> parse_symbol(b)
                 [] Head(b) = backslash /\ escaped = <<>> -> TheEnd
                 [] Head(b) = backslash /\ Is(escaped, 117) -> parse_hex(Tail(escaped))
                 [] OTHER -> IF Head(escaped) \in Escapes THEN Found(0, Tail(escaped))
                             ELSE Throw("invalid_json_string")
    IN  IF b = <<>> THEN TheEnd
        ELSE IF Head(b) = quote THEN Found(0, Tail(b))
        ELSE Then(one, LAMBDA x, c : string_tail(c))
parse_string(b) == Then(Expect(b, quote), LAMBDA x, c : string_tail(c))

is_object(b) == Is(b, 123)
is_array(b)  == Is(b, 91)

RECURSIVE parse_value(_)
\* name, spaces, ':', spaces, value: with an end of text in between an error
parse_member(b) ==
    LET spaced(c) == IF parse_space(c) = <<>> THEN TheEnd ELSE Found(0, parse_space(c))
    IN  IF ~is_string(b) THEN Throw("invalid_json_member")
        ELSE Then(parse_string(b), LAMBDA x1, c1 :
             Then(spaced(c1), LAMBDA x2, c2 :
             Then(Expect(c2, colon), LAMBDA x3, c3 :
             Then(spaced(c3), LAMBDA x4, c4 : parse_value(c4)))))

\* The loop of parse_object and parse_array: it looks for the closing byte
\* before it skips spaces, so one after a space is not found.
RECURSIVE items(_, _)
items(b, close) ==
    LET item(c) == IF close = 125 THEN parse_member(c) ELSE parse_value(c)
    IN  IF b = <<>> THEN Throw("expected_of")
        ELSE IF Head(b) = close THEN Found(0, Tail(b))
        ELSE Then(item(parse_space(b)), LAMBDA x, c :
                 LET d == parse_space(c)
                 IN  CASE Is(d, comma) -> items(Tail(d), close)
                       [] Is(d, close) -> items(d, close)
                       [] OTHER        -> Throw("expected_of"))
parse_object(b) ==
    IF is_object(b) THEN items(Tail(b), 125) ELSE Throw("expected_of")
parse_array(b) ==
    IF is_array(b) THEN items(Tail(b), 93) ELSE Throw("expected_of")

parse_value(b) ==
    CASE is_null(b)   -> parse_null(b)
      [] is_bool(b)   -> parse_bool(b)
      [] is_number(b) -> parse_number(b)
      [] is_string(b) -> parse_string(b)
      [] is_object(b) -> parse_object(b)
      [] is_array(b)  -> parse_array(b)
      [] OTHER        -> Throw("invalid_json")

-----------------------------------------------------------------------------
(* The readers and writers.                                                *)

value(kind)            == [k |-> kind]
char_array(n)          == [k |-> "char_array", n |-> n]
raw_value              == [k |-> "raw"]
strvalue               == [k |-> "strvalue"]
valueQ(J)              == [k |-> "quoted", of |-> J]
pair(K, V)             == [k |-> "pair", key |-> K, val |-> V]
enumerator(list, def)  == [k |-> "enum", list |-> list, def |-> def]
array(kind, J)         == [k |-> kind, of |-> J]
array_n(J, n)          == [k |-> "array_n", n |-> n, of |-> J]
paired_array(K, V)     == [k |-> "paired", of |-> pair(K, V)]
object(list, def)      == [k |-> "object", list |-> list, def |-> def]
\* A member is written under a name and kept in a field of T.
member(name, field, J)   == [k |-> "member", name |-> name, field |-> field, of |-> J]
member_p(name, field, J) == [k |-> "member_p", name |-> name, field |-> field, of |-> J]
member_if(l, r, ru)      == [k |-> "member_if", l |-> l, r |-> r, ru |-> ru]

(* Numbers.                                                                *)

Integer(bytes, signed) ==
    [k |-> "int", bytes |-> bytes, signed |-> signed,
     lo |-> IF signed THEN -(2 ^ (8 * bytes - 1)) ELSE 0,
     hi |-> 2 ^ (8 * bytes - IF signed THEN 1 ELSE 0) - 1]
\* Arithmetic in T keeps the width of T.
Wrap(J, n) == J.lo + ((n - J.lo) % (J.hi - J.lo + 1))

integer_buffer_size(J) ==
    2 * J.bytes + J.bytes \div 2 + (J.bytes % 2) + IF J.signed THEN 1 ELSE 0

\* The digits are produced lowest first and turned round in the buffer.
RECURSIVE low_digits(_)
low_digits(n) == IF n = 0 THEN <<>> ELSE <<48 + (n % 10)>> \o low_digits(n \div 10)
\* mutant of integer_serialize: the digits are not turned round
integer_serializeUnturned(v) ==
    IF v < 0 THEN <<minus>> \o low_digits(-v) ELSE IF v = 0 THEN <<48>> ELSE low_digits(v)
integer_serialize(v) ==
    CASE v = 0 -> <<48>>
      [] v < 0 -> <<minus>> \o Reverse(low_digits(-v))
      [] v > 0 -> Reverse(low_digits(v))

unserialize_integer(J, b) ==
    LET neg == Is(b, minus)
        d   == IF neg THEN Tail(b) ELSE b
        RECURSIVE number(_, _)
        number(v, c) == IF c = <<>> \/ Head(c) \notin Digits THEN Found(v, c)
                       ELSE number(Wrap(J, v * 10 + Head(c) - 48), Tail(c))
    IN  CASE b = <<>> -> TheEnd
          [] b # <<>> /\ (d = <<>> \/ Head(d) \notin Digits) -> Throw("invalid_json_number")
          [] Is(d, 48) -> Found(0, Tail(d))
          [] OTHER -> Then(number(0, d), LAMBDA v, c :
                               Found(IF neg THEN Wrap(J, -v) ELSE v, c))

\* Every reader that accepts null leaves the value of T() behind it.
OrNull(b, default, r) ==
    IF is_null(b) THEN Then(parse_null(b), LAMBDA x, c : Found(default, c)) ELSE r

bool_serialize(v) == IF v THEN word_true ELSE word_false
bool_unserialize(b) ==
    CASE b = <<>> -> TheEnd
      [] is_bool(b) -> Then(parse_bool(b), LAMBDA x, c : Found(Head(b) = word_true[1], c))
      [] OTHER -> Throw("invalid_json_bool")

----------------------------------------------------------------------------
(* Strings.                                                                *)

\* The byte written after a backslash for a byte of the string.
Short == [x \in {9, 8, 13, 10, 12} |->
             CASE x = 9 -> 116 [] x = 8 -> 98 [] x = 13 -> 114 [] x = 10 -> 110 [] x = 12 -> 102]
HexDigit(n) == IF n < 10 THEN 48 + n ELSE 87 + n

escape(x, escape_control) ==
    CASE x \in {quote, backslash, slash} -> <<backslash, x>>
      [] x \in DOMAIN Short -> <<backslash, Short[x]>>
      [] escape_control /\ x < 32 /\ x \notin DOMAIN Short ->
            <<backslash, 117, 48, 48, HexDigit(x \div 16), HexDigit(x % 16)>>
      [] OTHER -> <<x>>
\* A byte 0 ends the string.
UpToNul(s) == IF Contains(s, 0) THEN SubSeq(s, 1, SelectInSeq(s, LAMBDA x : x = 0) - 1) ELSE s
string_serialize(s) ==
    <<quote>> \o FlattenSeq([i \in DOMAIN UpToNul(s) |-> escape(s[i], TRUE)]) \o <<quote>>
strvalue_serialize(s) ==
    <<quote>> \o FlattenSeq([i \in DOMAIN UpToNul(s) |-> escape(s[i], FALSE)]) \o <<quote>>

_toUShort(c) == CASE c \in Digits -> c - 48
                  [] c \in 97 .. 102 -> c - 87
                  [] c \in 65 .. 70 -> c - 55
                  [] OTHER -> -1

\* At most n bytes may still be stored; -1 stands for no limit.
Room(n, k) == n = -1 \/ n >= k
Less(n, k) == IF n = -1 THEN -1 ELSE n - k

_unserialize_uhex(b, n) ==
    LET hex == _toUShort(b[1]) * 4096 + _toUShort(b[2]) * 256 + _toUShort(b[3]) * 16 + _toUShort(b[4])
        utf == CASE hex =< 127 -> <<hex>>
                 [] hex > 127 /\ hex =< 2047 -> <<192 + hex \div 64, 128 + (hex % 64)>>
                 [] OTHER -> <<224 + hex \div 4096, 128 + ((hex \div 64) % 64), 128 + (hex % 64)>>
    IN  CASE \E i \in 1 .. Len(b) : i =< 4 /\ _toUShort(b[i]) = -1 -> Throw("invalid_json_string")
          [] Len(b) < 4 -> TheEnd
          [] OTHER -> IF Room(n, Len(utf)) THEN Found(utf, SubSeq(b, 5, Len(b)))
                      ELSE Throw("invalid_json_string")

_symbol_copy(N, b, n) ==
    LET k == IF Room(n, N) THEN N ELSE n
    IN  IF Len(b) < k THEN TheEnd ELSE Found(SubSeq(b, 1, k), SubSeq(b, k + 1, Len(b)))

_unserialize_symbol(b, n) ==
    CASE Head(b) < 128       -> _symbol_copy(1, b, n)
      [] Head(b) \div 32 = 6  -> _symbol_copy(2, b, n)
      [] Head(b) \div 16 = 14 -> _symbol_copy(3, b, n)
      [] Head(b) \div 8 = 30  -> _symbol_copy(4, b, n)
      [] OTHER                -> Throw("invalid_json_string")

_unserialize_escape(b, n) ==
    CASE b = <<>> -> TheEnd
      [] b # <<>> /\ Head(b) \in {quote, backslash, slash} -> Found(<<Head(b)>>, Tail(b))
      [] b # <<>> /\ \E x \in DOMAIN Short : Short[x] = Head(b) ->
            Found(<<CHOOSE x \in DOMAIN Short : Short[x] = Head(b)>>, Tail(b))
      [] Is(b, 117) -> _unserialize_uhex(Tail(b), n)
      [] OTHER -> Throw("invalid_json_string")

RECURSIVE string_chars(_, _, _)
string_chars(b, n, s) ==
    IF b = <<>> \/ Is(b, quote) \/ n = 0
    THEN Then(Expect(b, quote), LAMBDA x, c : Found(s, c))
    ELSE Then(IF Head(b) = backslash THEN _unserialize_escape(Tail(b), n)
              ELSE _unserialize_symbol(b, n),
              LAMBDA x, c : string_chars(c, Less(n, Len(x)), s \o x))
string_unserialize(b, n) == Then(Expect(b, quote), LAMBDA x, c : string_chars(c, n, <<>>))

\* A fixed array of char is filled up with zeroes.
char_array_fill(N, r) == Then(r, LAMBDA s, c : Found(s \o [i \in 1 .. N - Len(s) |-> 0], c))

\* A value that is not quoted is taken as it stands up to a separator.
RECURSIVE bare(_, _)
bare(b, s) ==
    CASE b = <<>> -> TheEnd
      [] b # <<>> /\ Head(b) \in {125, 32, 93, comma} -> Found(s, b)
      [] OTHER -> Then(_unserialize_symbol(b, -1), LAMBDA x, c : bare(c, s \o x))
strvalue_unserialize(b) ==
    CASE b = <<>> -> TheEnd
      [] Is(b, quote) -> string_chars(Tail(b), -1, <<>>)
      [] OTHER -> bare(b, <<>>)

raw_serialize(v) == IF v = <<>> THEN <<quote, quote>> ELSE v
raw_unserialize(b) ==
    Then(parse_value(b), LAMBDA x, c : Found(SubSeq(b, 1, Len(b) - Len(c)), c))

----------------------------------------------------------------------------
(* Enumerations: a list of names and values.                               *)

enum_serialize(J, v) ==
    LET named == {i \in DOMAIN J.list : J.list[i].value = v}
    IN  <<quote>> \o (IF named = {} THEN <<>>
                      ELSE J.list[CHOOSE i \in named : \A j \in named : i =< j].name) \o <<quote>>
RECURSIVE enum_chars(_, _)
enum_chars(b, s) ==
    IF b = <<>> \/ Is(b, quote) THEN Then(Expect(b, quote), LAMBDA x, c : Found(s, c))
    ELSE enum_chars(Tail(b), Append(s, Head(b)))
\* char is signed: the bytes above 127 are below the space too.
RECURSIVE skip_control(_)
skip_control(b) == IF b # <<>> /\ Head(b) \notin 33 .. 127 THEN skip_control(Tail(b)) ELSE b
enum_unserialize(J, b) ==
    Then(Expect(skip_control(b), quote), LAMBDA x, c :
    Then(enum_chars(c, <<>>), LAMBDA s, d :
         LET named == {i \in DOMAIN J.list : J.list[i].name = s}
         IN  Found(IF named = {} THEN J.def
                   ELSE J.list[CHOOSE i \in named : \A j \in named : i =< j].value, d)))

----------------------------------------------------------------------------
(* Arrays, maps, objects.  Read and Write are the serializer of a type.    *)

RECURSIVE Read(_, _, _), Write(_, _)

pair_serialize(J, v) == Write(J.key, v[1]) \o <<colon>> \o Write(J.val, v[2])
pair_unserialize(J, v, b) ==
    Then(Read(J.key, v[1], b), LAMBDA x, c :
    Then(Expect(parse_space(c), colon), LAMBDA z, d :
         IF parse_space(d) = <<>> THEN TheEnd
         ELSE Then(Read(J.val, v[2], parse_space(d)), LAMBDA y, e : Found(<<x, y>>, e))))

\* T()
RECURSIVE Default(_)
Default(J) ==
    CASE J.k = "int" -> 0
      [] J.k = "quoted" -> 0
      [] J.k = "bool" -> FALSE
      [] J.k \in {"string", "strvalue", "raw", "vector", "paired"} -> <<>>
      [] J.k \in {"set", "map", "multimap"} -> {}
      [] J.k = "char_array" -> [i \in 1 .. J.n |-> 0]
      [] J.k = "pair" -> <<Default(J.key), Default(J.val)>>
      [] J.k = "array_n" -> [i \in 1 .. J.n |-> Default(J.of)]
      [] J.k \in {"enum", "object"} -> J.def

\* What the insert iterator of the container does with one more element.
inserter(J, t, n, x) ==
    CASE J.k = "vector" -> Append(t, x)
      [] J.k = "set"    -> t \cup {x}
      [] J.k = "map"    -> IF \E y \in t : y[1] = x[1] THEN t ELSE t \cup {x}
      [] J.k = "multimap" -> IF \E y \in t : y.key = x.key THEN t ELSE t \cup {x}
      [] J.k = "paired" -> InsertAt(t, n + 1, x)
Closing(J) == IF J.k \in {"map", "paired"} THEN 125 ELSE 93
Opening(J) == IF J.k \in {"map", "paired"} THEN 123 ELSE 91

\* Spaces, an element, spaces, a comma: n elements have been read.
RECURSIVE elements(_, _, _, _)
elements(J, t, n, b) ==
    LET c == parse_space(b)
    IN  IF c = <<>> THEN TheEnd
        ELSE IF Head(c) = Closing(J) THEN Found(t, Tail(c))
        ELSE Then(Read(J.of, Default(J.of), c), LAMBDA x, d :
                 LET e == parse_space(d)
                     s == inserter(J, t, n, x)
                 IN  CASE e = <<>> -> TheEnd
                       [] Is(e, Closing(J)) -> Found(s, Tail(e))
                       [] Is(e, comma) -> elements(J, s, n + 1, Tail(e))
                       [] OTHER -> Throw("expected_of"))
array_unserialize(J, t, b) ==
    OrNull(b, Default(J), Then(Expect(b, Opening(J)), LAMBDA x, c : elements(J, t, 0, c)))

Join(texts) == FlattenSeq([i \in DOMAIN texts |-> IF i = 1 THEN texts[1] ELSE <<comma>> \o texts[i]])
array_serialize(J, t) ==
    LET s == IF J.k \in {"set", "map", "multimap"} THEN SetToSeq(t) ELSE t
    IN  <<Opening(J)>> \o Join([i \in DOMAIN s |-> Write(J.of, s[i])]) \o <<Closing(J)>>

\* J[N]: no more than N elements; those not read keep their value.
RECURSIVE elements_n(_, _, _, _)
elements_n(J, t, n, b) ==
    LET c == parse_space(b)
    IN  IF b = <<>> \/ n = J.n THEN Then(Expect(b, 93), LAMBDA x, d : Found(t, d))
        ELSE IF c = <<>> THEN TheEnd
        ELSE IF Head(c) = 93 THEN Found(t, Tail(c))
        ELSE Then(Read(J.of, Default(J.of), c), LAMBDA x, d :
                 LET e == parse_space(d)
                     s == [t EXCEPT ![n + 1] = x]
                 IN  CASE e = <<>> -> TheEnd
                       [] Is(e, 93) -> Found(s, Tail(e))
                       [] Is(e, comma) -> elements_n(J, s, n + 1, Tail(e))
                       [] OTHER -> Throw("expected_of"))
array_n_unserialize(J, t, b) ==
    OrNull(b, Default(J), Then(Expect(b, 91), LAMBDA x, c : elements_n(J, t, 0, c)))
array_n_serialize(J, t) == <<91>> \o Join([i \in 1 .. J.n |-> Write(J.of, t[i])]) \o <<93>>

paired_unserialize(J, t, b) ==
    IF IsPrefix(<<91, 93>>, b) THEN Found(<<>>, SubSeq(b, 3, Len(b)))
    ELSE array_unserialize(J, t, b)

serializerQuoted_write(J, v) == <<quote>> \o Write(J.of, v) \o <<quote>>
serializerQuoted_read(J, v, b) ==
    OrNull(b, v, IF ~Is(b, quote) THEN TheEnd
                 ELSE Then(Read(J.of, v, Tail(b)), LAMBDA x, c :
                          IF Is(c, quote) THEN Found(x, Tail(c)) ELSE TheEnd))

----------------------------------------------------------------------------
(* object<T, L>: J.list is the list of members L.                          *)

serialize_member_name(m) == <<quote>> \o m.name \o <<quote, colon>>

RECURSIVE serialize_member(_, _)
serialize_member(m, t) ==
    IF m.k = "member_if"
    THEN serialize_member(IF t[m.l.field] # Default(m.l.of) THEN m.l ELSE m.r, t)
    ELSE serialize_member_name(m) \o Write(m.of, t[m.field])
object_serialize(J, t) ==
    <<123>> \o Join([i \in DOMAIN J.list |-> serialize_member(J.list[i], t)]) \o <<125>>

\* Found(hit, rest): the name is the member's, and the value comes next.
unserialize_member_name(m, b) ==
    LET n == Len(m.name)
        same == IsPrefix(<<quote>> \o m.name \o <<quote>>, b)
        cut  == b # <<>> /\ IsPrefix(b, <<quote>> \o m.name)
        c == parse_space(SubSeq(b, n + 3, Len(b)))
    IN  CASE ~is_string(b) -> Throw("expected_of")
          [] is_string(b) /\ cut -> TheEnd
          [] is_string(b) /\ ~cut /\ ~same -> Found(FALSE, b)
          [] OTHER -> Then(Expect(c, colon), LAMBDA x, d :
                          IF parse_space(d) = <<>> THEN TheEnd ELSE Found(TRUE, parse_space(d)))

\* Found([hit, t], rest).  A member_p is read into a new value and then set.
RECURSIVE unserialize_member(_, _, _)
unserialize_member(m, t, b) ==
    IF m.k = "member_if" THEN unserialize_member(IF m.ru THEN m.r ELSE m.l, t, b)
    ELSE Then(unserialize_member_name(m, b), LAMBDA hit, c :
              IF ~hit THEN Found([hit |-> FALSE, t |-> t], b)
              ELSE Then(Read(m.of, IF m.k = "member_p" THEN Default(m.of) ELSE t[m.field], c),
                        LAMBDA v, d : Found([hit |-> TRUE, t |-> [t EXCEPT ![m.field] = v]], d)))

\* The end of the list: a member looked for is skipped, otherwise all are.
RECURSIVE skip_members(_, _)
skip_members(t, b) ==
    Then(parse_member(b), LAMBDA x, c :
        LET d == parse_space(c)
        IN  CASE d = <<>> -> TheEnd
              [] Is(d, 125) -> Found(t, d)
              [] Is(d, comma) -> skip_members(t, parse_space(Tail(d)))
              [] OTHER -> Throw("expected_of"))
\* mutant of unlisted_members: an unlisted member ends the reading
unlisted_membersAll(t, b, search) ==
    IF Is(parse_space(b), 125) THEN Found(t, parse_space(b)) ELSE skip_members(t, parse_space(b))
unlisted_members(t, b, search) ==
    LET c == parse_space(b)
    IN  IF search THEN Then(parse_member(b), LAMBDA x, d : Found(t, parse_space(d)))
        ELSE IF c = <<>> THEN TheEnd
        ELSE IF Is(c, 125) THEN Found(t, c)
        ELSE skip_members(t, c)

\* The next member of the text is tried with the first of the members C; if
\* it is another one it is looked for in the whole list, and C stays.
RECURSIVE unserialize_members(_, _, _, _, _)
unserialize_members(J, C, t, b, search) ==
    IF C = <<>> THEN unlisted_members(t, b, search)
    ELSE Then(unserialize_member(Head(C), t, b), LAMBDA r, c :
         LET next == IF r.hit THEN Tail(C) ELSE C
             here == IF r.hit THEN Found(r.t, c) ELSE unserialize_members(J, J.list, t, b, TRUE)
         IN  IF search
             THEN IF r.hit THEN here ELSE unserialize_members(J, Tail(C), t, b, TRUE)
             ELSE Then(here, LAMBDA u, d :
                      LET e == parse_space(d)
                          rest == IF Is(e, comma)
                                  THEN unserialize_members(J, next, u, parse_space(Tail(e)), FALSE)
                                  ELSE Found(u, e)
                      IN  IF e = <<>> THEN TheEnd
                          ELSE Then(rest, LAMBDA w, f :
                                   IF f = <<>> THEN TheEnd
                                   ELSE IF Is(f, 125) THEN Found(w, f) ELSE Throw("expected_of"))))
object_unserialize(J, t, b) ==
    OrNull(b, Default(J), Then(Expect(b, 123), LAMBDA x, c :
        LET d == parse_space(c)
        IN  CASE d = <<>> -> TheEnd
              [] Is(d, 125) -> Found(t, Tail(d))
              [] OTHER -> Then(unserialize_members(J, J.list, t, d, FALSE), LAMBDA u, e :
                              Then(Expect(parse_space(e), 125), LAMBDA z, f : Found(u, f)))))

Write(J, v) ==
    CASE J.k = "int"        -> integer_serialize(v)
      [] J.k = "quoted"     -> serializerQuoted_write(J, v)
      [] J.k = "bool"       -> bool_serialize(v)
      [] J.k \in {"string", "char_array"} -> string_serialize(v)
      [] J.k = "strvalue"   -> strvalue_serialize(v)
      [] J.k = "raw"        -> raw_serialize(v)
      [] J.k = "enum"       -> enum_serialize(J, v)
      [] J.k = "pair"       -> pair_serialize(J, v)
      [] J.k = "array_n"    -> array_n_serialize(J, v)
      [] J.k = "object"     -> object_serialize(J, v)
      [] OTHER              -> array_serialize(J, v)

\* v is what the target holds before it is read.
Read(J, v, b) ==
    CASE J.k = "int"        -> OrNull(b, 0, unserialize_integer(J, b))
      [] J.k = "quoted"     -> serializerQuoted_read(J, v, b)
      [] J.k = "bool"       -> OrNull(b, FALSE, bool_unserialize(b))
      [] J.k = "string"     -> OrNull(b, <<>>, string_unserialize(b, -1))
      [] J.k = "strvalue"   -> OrNull(b, <<>>, strvalue_unserialize(b))
      [] J.k = "char_array" -> OrNull(b, Default(J), char_array_fill(J.n, string_unserialize(b, J.n)))
      [] J.k = "raw"        -> raw_unserialize(b)
      [] J.k = "enum"       -> enum_unserialize(J, b)
      [] J.k = "pair"       -> pair_unserialize(J, v, b)
      [] J.k = "array_n"    -> array_n_unserialize(J, v, b)
      [] J.k = "object"     -> object_unserialize(J, v, b)
      [] J.k = "paired"     -> paired_unserialize(J, v, b)
      [] OTHER              -> array_unserialize(J, v, b)

----------------------------------------------------------------------------
(* What the library promises.                                              *)

\* What a writer writes, the reader of the same type reads back, and it stops
\* exactly where the value ends; w is v, but for fields that are only written.
ReadsBack(J, v, w) ==
    Read(J, Default(J), Write(J, v) \o <<comma>>) = Found(w, <<comma>>)

\* Skipping a value (an unlisted member, a raw_value) ends where reading it
\* does.
SkipsWhatItWrites(J, v) == parse_value(Write(J, v) \o <<comma>>) = Found(0, <<comma>>)

\* A number of T written out never leaves the buffer sized for T.
FitsBuffer(J, v) == Len(integer_serialize(v)) =< integer_buffer_size(J)

\* The text of an object whose members come in any order, with blanks and
\* comments between them.
TextOf(members, blank) ==
    LET text(m) == <<quote>> \o m.name \o <<quote>> \o blank \o <<colon>> \o blank \o m.text
    IN  <<123>> \o blank
        \o Join([i \in DOMAIN members |-> blank \o text(members[i]) \o blank]) \o blank \o <<125>>

\* Every listed member of the text is read, whatever the order of the members
\* and wherever unlisted ones stand; members that are missing keep the value
\* they had.
ReadsAnyOrder(J, t, members, blank) ==
    LET given(m) == {i \in DOMAIN members : members[i].name = m.name}
        r == Read(J, t, TextOf(members, blank))
    IN  /\ r.e = "" /\ r.b = <<>>
        /\ \A j \in DOMAIN J.list :
              LET m == J.list[j]
              IN  r.v[m.field] = IF given(m) = {} THEN t[m.field]
                                 ELSE members[CHOOSE i \in given(m) : TRUE].value

=============================================================================
