------------------------------ MODULE AmfValues ------------------------------
(***************************************************************************)
(* util::multi_type: a value of one of several types, with a member for    *)
(* each of them and a type that says which one counts.  A conversion       *)
(* writes the member it converts to, in a const object too.                *)
(*                                                                         *)
(* A cell is the object without its parent pointer.  A text is a sequence  *)
(* of character codes; doubles are whole.                                  *)
(***************************************************************************)
EXTENDS Integers, Sequences, SequencesExt

CONSTANTS Unsigned,   \* stands for 2^64, the size of an unsigned long
          Junk        \* what an uninitialized member may hold

IsDigit(ch) == ch \in 48 .. 57
RECURSIVE Digits(_)
Digits(n) == IF n < 10 THEN <<48 + n>> ELSE Append(Digits(n \div 10), 48 + (n % 10))
Decimal(n) == IF n < 0 THEN <<45>> \o Digits(-n) ELSE Digits(n)
RECURSIVE Leading(_, _)
Leading(s, n) == IF s = <<>> \/ ~IsDigit(Head(s)) THEN n ELSE Leading(Tail(s), 10 * n + Head(s) - 48)
atoi(s) == IF s # <<>> /\ Head(s) = 45 THEN -Leading(Tail(s), 0) ELSE Leading(s, 0)

-----------------------------------------------------------------------------
Fresh(j) == [type |-> "none", bool |-> j # 0, char |-> j, long |-> j, double |-> 0, string |-> <<>>,
             nhash |-> <<>>, shash |-> <<>>]

\* clear() empties no member, so a change of type is all that is left of it
_check_clear_set(c, t) == [c EXCEPT !.type = t]

AssignScalar(c, t, v) == [_check_clear_set(c, t) EXCEPT ![t] = v]
\* a string is taken only by a cell that is not one already
AssignString(c, s) ==
    IF c.type = "string" THEN c ELSE [_check_clear_set(c, "string") EXCEPT !.string = s]

Insert(map, k, v) == IF k \in DOMAIN map THEN map ELSE [x \in DOMAIN map \cup {k} |-> IF x = k THEN v ELSE map[x]]

\* operator = (const multi_type&)
RECURSIVE Copy(_, _, _)
Copy(c, at, j) ==
    LET hash == at.type \in {"nhash", "shash"}
        map == IF hash THEN at[at.type] ELSE <<>>
        old == IF hash THEN c[at.type] ELSE <<>>
        both == [k \in DOMAIN old \cup DOMAIN map |-> IF k \in DOMAIN old THEN old[k] ELSE Copy(Fresh(j), map[k], j)]
    IN  CASE at.type = "none" -> [c EXCEPT !.type = "none"]
          [] hash -> [c EXCEPT !.type = at.type, ![at.type] = both]
          [] OTHER -> [c EXCEPT !.type = at.type, ![at.type] = at[at.type]]

-----------------------------------------------------------------------------
(* convert2: the member for t from the member of the cell's own type; a    *)
(* hash throws, and nothing is changed.                                    *)

ToFlag(c) ==
    CASE c.type = "none"   -> FALSE
      [] c.type = "char"   -> c.char \notin {0, 48}
      [] c.type = "string" -> c.string \notin {<<>>, <<48>>, <<102, 97, 108, 115, 101>>}
      [] OTHER             -> c.long # 0      \* a double too
Number(b) == IF b THEN 1 ELSE 0
ToLong(c) ==
    CASE c.type = "none"   -> 0
      [] c.type = "bool"   -> Number(c.bool)
      [] c.type = "string" -> atoi(c.string)
      [] OTHER             -> c[c.type]
ToText(c) ==
    CASE c.type = "none"   -> <<>>
      [] c.type = "bool"   -> Digits(Number(c.bool))
      [] c.type = "char"   -> IF c.char = 0 THEN <<>> ELSE <<c.char>>
      [] c.type = "long"   -> Digits(c.long % Unsigned)
      [] c.type = "double" -> Decimal(c.double) \o <<46, 48, 48, 48, 48, 48, 48>>

convert2Typed(c, t) ==
    IF c.type = t \/ t = "char" \/ c.type \in {"nhash", "shash"} THEN c
    ELSE LET d == [c EXCEPT ![t] = CASE t = "bool" -> ToFlag(c) [] t = "string" -> ToText(c) [] OTHER -> ToLong(c)]
         IN  [d EXCEPT !.type = t]

convert2(c, t) ==
    IF c.type = t \/ t = "char" \/ c.type \in {"nhash", "shash"} THEN c
    ELSE [c EXCEPT ![t] = CASE t = "bool" -> ToFlag(c) [] t = "string" -> ToText(c) [] OTHER -> ToLong(c)]

-----------------------------------------------------------------------------
(* operator[]: the cell with the member made, and where the member is.     *)

At(c, i, j) ==
    IF c.type = "shash" THEN [c |-> [c EXCEPT !.shash = Insert(@, Decimal(i), Fresh(j))], map |-> "shash", key |-> Decimal(i)]
    ELSE [c |-> [_check_clear_set(c, "nhash") EXCEPT !.nhash = Insert(@, i, Fresh(j))], map |-> "nhash", key |-> i]
AtKey(c, s, j) ==
    IF c.type = "nhash" THEN At(c, atoi(s), j)
    ELSE [c |-> [_check_clear_set(c, "shash") EXCEPT !.shash = Insert(@, s, Fresh(j))], map |-> "shash", key |-> s]

\* erase throws, and changes nothing, if the cell is no such hash
Erase(c, t, k) == IF c.type = t THEN [c EXCEPT ![t] = Restrict(@, DOMAIN @ \ {k})] ELSE c

-----------------------------------------------------------------------------
(* Programs: sequences of operations on one cell.  An operation is a tuple *)
(* of its name and its arguments.                                          *)

Store(c, m, v) == [m.c EXCEPT ![m.map][m.key] = v]

RECURSIVE Apply(_, _, _)
Apply(c, op, j) ==
    CASE op[1] = "="      -> AssignScalar(c, op[2], op[3])
      [] op[1] = "string" -> AssignString(c, op[2])
      [] op[1] = "at"     -> LET m == At(c, op[2], j) IN Store(c, m, Apply(m.c[m.map][m.key], op[3], j))
      [] op[1] = "key"    -> LET m == AtKey(c, op[2], j) IN Store(c, m, Apply(m.c[m.map][m.key], op[3], j))
      [] op[1] = "erase"  -> Erase(c, op[2], op[3])
      [] op[1] = "copy"   -> Copy(Fresh(j), c, j)
      [] op[1] = "read"   -> convert2(c, op[2])
Run(ops, j) == FoldLeft(LAMBDA c, op : Apply(c, op, j), Fresh(j), ops)

\* What the cell is, as its owner sees it.
RECURSIVE Own(_)
Own(c) ==
    CASE c.type = "none"               -> <<"none">>
      [] c.type \in {"nhash", "shash"} -> <<c.type, [k \in DOMAIN c[c.type] |-> Own(c[c.type][k])]>>
      [] OTHER                         -> <<c.type, c[c.type]>>

\* Reading a cell as another type leaves its value alone, whatever was done
\* and is done to it and however it is copied: a conversion does not change
\* the main type ("основной тип не изменяем", multi_type.hpp:171) and writes
\* no member that later counts.
ReadsLeaveValue(ops) ==
    \A j \in Junk : Own(Run(ops, j)) = Own(Run(SelectSeq(ops, LAMBDA op : op[1] # "read"), j))

-----------------------------------------------------------------------------
(***************************************************************************)
(* AMF values (util/amf/serialize.hpp, unserialize.hpp): a multi_type cell *)
(* as bytes, and back.  A length takes two bytes, high byte first; a       *)
(* double takes NumberBytes, the last byte in memory first.                *)
(***************************************************************************)

CONSTANTS Base,          \* stands for 256
          NumberBytes    \* stands for 8

AMF_NUMBER == 0
AMF_BOOL   == 1
AMF_STRING == 2
AMF_HASH   == 3
AMF_NIL    == 5
AMF_END    == 9

-----------------------------------------------------------------------------
push_number(n) == [i \in 1 .. NumberBytes |-> (n \div Base^(NumberBytes - i)) % Base]
push_stringLittle(s) == <<Len(s) % Base, (Len(s) \div Base) % Base>> \o s
push_string(s) == <<(Len(s) \div Base) % Base, Len(s) % Base>> \o s
push_hash_end == <<0, 0, AMF_END>>

\* A map in the order of its keys; texts are ordered by their codes.
Before(a, b) ==
    \E i \in 1 .. Len(b) : /\ SubSeq(a, 1, i - 1) = SubSeq(b, 1, i - 1)
                           /\ Len(a) < i \/ a[i] < b[i]
InOrder(K, numbers) ==
    SetToSortSeq(K, LAMBDA a, b : IF numbers THEN a < b ELSE Before(a, b))

\* serialize::operator << (const multi_type&)
RECURSIVE Serialize(_)
Serialize(c) ==
    LET nums == c.type = "nhash"
        Field(k) == push_string(IF nums THEN Decimal(k) ELSE k) \o Serialize(c[c.type][k])
        keys == InOrder(DOMAIN c[c.type], nums)
    IN  CASE c.type = "none"                      -> <<>>
          [] c.type = "bool"                      -> <<AMF_BOOL, Number(c.bool)>>
          [] c.type \in {"char", "long", "double"} -> <<AMF_NUMBER>> \o push_number(c[c.type])
          [] c.type = "string"                    -> <<AMF_STRING>> \o push_string(c.string)
          [] OTHER -> <<AMF_HASH>> \o FlattenSeq([i \in DOMAIN keys |-> Field(keys[i])]) \o push_hash_end

-----------------------------------------------------------------------------
(* The reader: a function returns what it read and the rest; an            *)
(* out_of_range makes ok false for good.                                   *)

Fail == [ok |-> FALSE, v |-> 0, rest |-> <<>>]
Read(v, rest) == [ok |-> TRUE, v |-> v, rest |-> rest]
Drop(s, n) == SubSeq(s, n + 1, Len(s))

get_type(d) == IF d = <<>> THEN Fail ELSE Read(d[1], Tail(d))
get_bool(d) == IF d = <<>> THEN Fail ELSE Read(d[1] # 0, Tail(d))
get_string(d) ==
    IF Len(d) < 2 \/ Len(d) - 2 < d[1] * Base + d[2] THEN Fail
    ELSE LET n == d[1] * Base + d[2] IN Read(SubSeq(d, 3, n + 2), Drop(d, n + 2))
get_number(d) ==
    IF Len(d) < NumberBytes THEN Fail
    ELSE Read(FoldLeft(LAMBDA n, b : n * Base + b, 0, SubSeq(d, 1, NumberBytes)), Drop(d, NumberBytes))

RECURSIVE _get_hash(_, _, _)
\* unserialize::_get_mt: into the cell c; a type it does not know reads nothing
_get_mt(type, d, c, j) ==
    CASE type = AMF_BOOL   -> LET r == get_bool(d)   IN [r EXCEPT !.v = IF r.ok THEN AssignScalar(c, "bool", r.v) ELSE c]
      [] type = AMF_NUMBER -> LET r == get_number(d) IN [r EXCEPT !.v = IF r.ok THEN AssignScalar(c, "double", r.v) ELSE c]
      [] type = AMF_STRING -> LET r == get_string(d) IN [r EXCEPT !.v = IF r.ok THEN AssignString(c, r.v) ELSE c]
      [] type = AMF_HASH   -> _get_hash(d, c, j)
      [] OTHER             -> Read(c, d)

\* unserialize::_get_hash: fields up to the end mark, or to the end of the data
_get_hash(d, c, j) ==
    LET key == get_string(d)
        type == get_type(key.rest)
        m == AtKey(c, key.v, j)
        r == _get_mt(type.v, type.rest, m.c[m.map][m.key], j)
    IN  IF d = <<>> THEN Read(c, d)
        ELSE IF ~key.ok \/ ~type.ok THEN [Fail EXCEPT !.v = c]
        ELSE IF type.v = AMF_END THEN Read(c, type.rest)
        ELSE IF ~r.ok THEN [r EXCEPT !.v = Store(c, m, r.v)]
        ELSE _get_hash(r.rest, Store(c, m, r.v), j)

Unserialize(d, j) ==
    LET t == get_type(d) IN IF t.ok THEN _get_mt(t.v, t.rest, Fresh(j), j) ELSE [Fail EXCEPT !.v = Fresh(j)]

-----------------------------------------------------------------------------
\* What AMF can say of a value: numbers are doubles, and the keys are texts.
RECURSIVE InAmf(_)
InAmf(v) ==
    CASE v[1] \in {"char", "long", "double"} -> <<"double", v[2]>>
      [] v[1] = "shash" /\ v[2] # <<>> -> <<"shash", [k \in DOMAIN v[2] |-> InAmf(v[2][k])]>>
      [] v[1] = "nhash" /\ v[2] # <<>> -> <<"shash", [s \in {Decimal(k) : k \in DOMAIN v[2]} |-> InAmf(v[2][atoi(s)])]>>
      [] v[1] \in {"shash", "nhash"}   -> <<"none">>
      [] OTHER -> v

\* Values the format has room for: no member without a value, no text of
\* 2^16 characters, and no negative number (the bytes of a sign are left out).
RECURSIVE Fits(_)
Fits(v) ==
    CASE v[1] = "none"               -> FALSE
      [] v[1] = "string"             -> Len(v[2]) < Base^2
      [] v[1] \in {"shash", "nhash"} -> \A k \in DOMAIN v[2] : Fits(v[2][k]) /\ (v[1] = "shash" => Len(k) < Base^2)
      [] v[1] = "bool"               -> TRUE
      [] OTHER                       -> v[2] \in 0 .. Base^NumberBytes - 1

\* What is written is read back to the last byte and not beyond it, whatever
\* follows, for every value that fits: no text or number in it is taken for
\* a mark of the format (serialize.hpp, unserialize.hpp).
AmfReadsBack(c, after) ==
    Fits(Own(c)) => \A j \in Junk : LET r == Unserialize(Serialize(c) \o after, j)
                                    IN  r.ok /\ r.rest = after /\ Own(r.v) = InAmf(Own(c))
=============================================================================
