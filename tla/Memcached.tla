------------------------------ MODULE Memcached ------------------------------
(***************************************************************************)
(* The library's memcached client and server (fas/util/memcached).  The    *)
(* client sends commands without waiting for answers and keeps a queue of  *)
(* what it has asked; both sides parse blocks of any size with a machine   *)
(* of states.  The text is a sequence of tokens: a command's word in two   *)
(* halves ("s1" "s2" for set, "g1" "g2" for get), keys, lengths "0".."3",  *)
(* "V", "E", "S" and "N" for VALUE, END, STORED and NOT_STORED, "n" for    *)
(* the end of a line, and the bytes of the data.                           *)
(***************************************************************************)
EXTENDS Integers, Sequences, SequencesExt

CONSTANTS Key, Data,    \* Data: sequences of at most three tokens
          Keys,         \* the lists of keys that are asked for
          Limit,        \* the handler of _storage_ refuses data longer than this
          MaxCommands

VARIABLES client, server,
          up, down,   \* what is under way to the server and to the client
          store,      \* the values the server's handlers keep
          asked,      \* the commands, in the order they were sent
          done        \* done[i]: the command the server understood, and its answer
vars == <<client, server, up, down, store, asked, done>>

Number(k) == <<"0", "1", "2", "3">>[k + 1]
Value(t) == CASE t = "1" -> 1 [] t = "2" -> 2 [] t = "3" -> 3 [] OTHER -> 0
Tail2 == <<"r", "n">>
From(s, i) == SubSeq(s, i, Len(s))

SetCommand(k, v) == <<"set", k, v>>
GetCommand(ks) == <<"get", ks>>

-----------------------------------------------------------------------------
(* What the states share.  A line is put together in head; partly says     *)
(* that it needed more than one block.                                     *)

Line(head, d) ==
    LET i == SelectInSeq(d, LAMBDA t : t = "n")
        n == IF i = 0 THEN Len(d) ELSE i
    IN  [text |-> head \o SubSeq(d, 1, n), used |-> n, ready |-> i # 0, partly |-> head # <<>> \/ i = 0]

\* The data block: what of d belongs to it, and the block then.
Needed(bytes, data, d) == LET n == bytes - Len(data) IN IF n < Len(d) THEN n ELSE Len(d)
Block(data, d, n) == data \o SubSeq(d, 1, n)
Good(block) == Len(block) >= 2 /\ From(block, Len(block) - 1) = Tail2

-----------------------------------------------------------------------------
(* The server.  A step takes the machine s and the unread part d of the    *)
(* block; it returns the machine, the rest and what the step put out.      *)
(*                                                                         *)
(* A command's word cut in two is dropped with its block (server.cut), and *)
(* the line of a get that came in several blocks stays in front of the     *)
(* line of the next one.                                                   *)

Step(s, rest, out, store1, done1) == [s |-> s, rest |-> rest, out |-> out, store |-> store1, done |-> done1]

Ready(s) == [s EXCEPT !.id = "ready"]

\* _do_check: which state answers to the beginning of d
check(d) ==
    CASE Len(d) >= 2 /\ SubSeq(d, 1, 2) = <<"s1", "s2">> -> "storage"
      [] Len(d) >= 2 /\ SubSeq(d, 1, 2) = <<"g1", "g2">> -> "get"
      [] OTHER -> "ready"

StorageHeadKept(s, d) ==
    LET l == Line(s.head, d)
    IN  IF ~l.ready THEN [s |-> [s EXCEPT !.head = l.text], used |-> Len(d)]
        ELSE [s |-> [s EXCEPT !.head_ready = TRUE, !.key = l.text[3], !.bytes = Value(l.text[4]) + 2, !.data = <<>>],
              used |-> l.used]

StorageHead(s, d) ==
    LET l == Line(s.head, d)
    IN  IF ~l.ready THEN [s |-> [s EXCEPT !.head = l.text], used |-> Len(d)]
        ELSE [s |-> [s EXCEPT !.head = <<>>, !.head_ready = TRUE, !.key = l.text[3],
                              !.bytes = Value(l.text[4]) + 2, !.data = <<>>],
              used |-> l.used]

Stored(s, st) ==
    LET v == SubSeq(s.data, 1, s.bytes - 2)
        ok == Len(v) <= Limit
    IN  Step(Ready([s EXCEPT !.head_ready = FALSE]), <<>>, <<IF ok THEN "S" ELSE "N", "n">>,
             IF ok THEN [st EXCEPT ![s.key] = <<v>>] ELSE st, <<[cmd |-> SetCommand(s.key, v), answer |-> <<<<IF ok THEN "S" ELSE "N">>>>]>>)

state_storage(s, d, st) ==
    LET Whole(y, rest) ==
            IF Len(y.data) < y.bytes THEN Step(y, <<>>, <<>>, st, <<>>)
            ELSE IF ~Good(y.data) THEN Step([y EXCEPT !.threw = TRUE], <<>>, <<>>, st, <<>>)
            ELSE [Stored(y, st) EXCEPT !.rest = rest]
        Taken(y, rest, n) == Whole([y EXCEPT !.data = Block(@, rest, n)], From(rest, n + 1))
        Body(y, rest) ==
            IF rest = <<>> THEN Step(y, <<>>, <<>>, st, <<>>)
            ELSE Taken(y, rest, Needed(y.bytes, y.data, rest))
        Headed(h) == Body(h.s, From(d, h.used + 1))
    IN  Headed(IF s.head_ready THEN [s |-> s, used |-> 0] ELSE StorageHead(s, d))

state_get(s, d, st) ==
    LET l == Line(s.getdata, d)
        keys == SelectSeq(From(l.text, 3), LAMBDA t : t \in Key)
        found == SelectSeq(keys, LAMBDA k : st[k] # <<>>)
        answer == [i \in DOMAIN found |-> <<found[i], st[found[i]][1]>>]
        put == FlattenSeq([i \in DOMAIN found |->
                   <<"V", answer[i][1], Number(Len(answer[i][2])), "n">> \o answer[i][2] \o Tail2])
    IN  IF ~l.ready THEN Step([s EXCEPT !.getdata = l.text], <<>>, <<>>, st, <<>>)
        ELSE Step(Ready([s EXCEPT !.getdata = IF l.partly THEN l.text ELSE <<>>]), From(d, l.used + 1),
                  put \o <<"E", "n">>, st, <<[cmd |-> GetCommand(keys), answer |-> answer]>>)

\* ad_server_parser: what no state answers to is dropped with the block.
RECURSIVE ad_server_parser(_)
ad_server_parser(x) ==
    LET id == IF x.s.id = "ready" THEN check(x.rest) ELSE x.s.id
        Run(s)  == IF id = "storage" THEN state_storage(s, x.rest, x.store) ELSE state_get(s, x.rest, x.store)
        With(y) == [y EXCEPT !.out = x.out \o @, !.done = x.done \o @]
    IN  IF x.rest = <<>> \/ x.s.threw THEN x
        ELSE IF id = "ready" THEN [x EXCEPT !.rest = <<>>, !.s.cut = TRUE]
        ELSE ad_server_parser(With(Run([x.s EXCEPT !.id = id])))

-----------------------------------------------------------------------------
(* The client.  A line END that came in several blocks stays in front of   *)
(* the next line, which is then taken for END too; ended is the number of  *)
(* the answer where that began.                                            *)

Answered(c) == [c EXCEPT !.queue = Tail(@), !.ready = TRUE]
Told(c, v) == [c EXCEPT !.got[Len(c.got)] = Append(@, v)]
Begun(c) == [c EXCEPT !.got = Append(@, <<>>)]

client_storage(c, d) ==
    LET l == Line(c.data, d)
    IN  IF ~l.ready THEN [c |-> [c EXCEPT !.data = l.text], rest |-> <<>>]
        ELSE IF l.text \notin {<<"S", "n">>, <<"N", "n">>} THEN [c |-> [c EXCEPT !.threw = TRUE], rest |-> <<>>]
        ELSE [c |-> Answered(Told([c EXCEPT !.data = <<>>], <<l.text[1]>>)), rest |-> From(d, l.used + 1)]

\* state_get of the client behind the head of a value
client_value(c, d) ==
    LET Whole(y, rest) ==
            IF Len(y.vdata) < y.bytes THEN [c |-> y, rest |-> <<>>]
            ELSE IF ~Good(y.vdata) THEN [c |-> [y EXCEPT !.threw = TRUE], rest |-> <<>>]
            ELSE [c |-> Told([y EXCEPT !.head_ready = FALSE], <<y.key, SubSeq(y.vdata, 1, y.bytes - 2)>>),
                  rest |-> rest]
        Taken(n) == Whole([c EXCEPT !.vdata = Block(@, d, n)], From(d, n + 1))
    IN  IF d = <<>> THEN [c |-> c, rest |-> <<>>] ELSE Taken(Needed(c.bytes, c.vdata, d))

client_get(c, d) ==
    LET Head1(l) ==
            IF ~l.ready THEN [c |-> [c EXCEPT !.head = l.text], rest |-> <<>>]
            ELSE CASE l.text[1] = "V" ->
                        client_value([c EXCEPT !.head = <<>>, !.head_ready = TRUE, !.key = l.text[2],
                                               !.bytes = Value(l.text[3]) + 2, !.vdata = <<>>], From(d, l.used + 1))
                   [] l.text[1] = "E" ->
                        [c |-> Answered([c EXCEPT !.head = IF l.partly THEN l.text ELSE <<>>,
                                                  !.ended = IF @ = 0 /\ l.partly THEN Len(c.got) ELSE @]),
                         rest |-> From(d, l.used + 1)]
                   [] OTHER -> [c |-> [c EXCEPT !.threw = TRUE], rest |-> <<>>]
    IN  IF c.head_ready THEN client_value(c, d) ELSE Head1(Line(c.head, d))

\* ad_client_parser: what nobody asked for is dropped.
RECURSIVE ad_client_parser(_, _)
ad_client_parser(c, d) ==
    LET Begin == IF c.ready THEN Begun([c EXCEPT !.ready = FALSE, !.id = Head(c.queue)]) ELSE c
        Run(b) == IF b.id = "storage" THEN client_storage(b, d) ELSE client_get(b, d)
        Go(y) == ad_client_parser(y.c, y.rest)
    IN  IF d = <<>> \/ c.threw \/ (c.ready /\ c.queue = <<>>) THEN c ELSE Go(Run(Begin))

-----------------------------------------------------------------------------
Init ==
    /\ client = [queue |-> <<>>, ready |-> TRUE, id |-> "ready", data |-> <<>>, head_ready |-> FALSE,
                 head |-> <<>>, key |-> "", bytes |-> 0, vdata |-> <<>>, got |-> <<>>, threw |-> FALSE, ended |-> 0]
    /\ server = [id |-> "ready", head_ready |-> FALSE, head |-> <<>>, key |-> "", bytes |-> 0, data |-> <<>>,
                 getdata |-> <<>>, threw |-> FALSE, cut |-> FALSE]
    /\ up = <<>> /\ down = <<>> /\ asked = <<>> /\ done = <<>>
    /\ store = [k \in Key |-> <<>>]

Send(cmd, id, text) ==
    /\ Len(asked) < MaxCommands
    /\ asked' = Append(asked, cmd)
    /\ client' = [client EXCEPT !.queue = Append(@, id)]
    /\ up' = up \o text
    /\ UNCHANGED <<server, down, store, done>>

command_storage ==
    \E k \in Key, v \in Data :
        Send(SetCommand(k, v), "storage", <<"s1", "s2", k, Number(Len(v)), "n">> \o v \o Tail2)

command_get == \E ks \in Keys : Send(GetCommand(ks), "get", <<"g1", "g2">> \o ks \o <<"n">>)

ToServer ==
    /\ ~server.threw
    /\ \E n \in DOMAIN up :
          /\ up' = From(up, n + 1)
          /\ \E r \in {ad_server_parser(Step(server, SubSeq(up, 1, n), <<>>, store, <<>>))} :
                /\ server' = r.s /\ store' = r.store
                /\ down' = down \o r.out /\ done' = done \o r.done
    /\ UNCHANGED <<client, asked>>

ToClient ==
    /\ ~client.threw
    /\ \E n \in DOMAIN down :
          client' = ad_client_parser(client, SubSeq(down, 1, n)) /\ down' = From(down, n + 1)
    /\ UNCHANGED <<server, up, store, asked, done>>

Next == command_storage \/ command_get \/ ToServer \/ ToClient

-----------------------------------------------------------------------------
\* A get may be understood with the keys of earlier gets in front of its own.
Understood(c, a) == c = a \/ (c[1] = "get" /\ a[1] = "get" /\ IsSuffix(a[2], c[2]))

\* Commands sent without waiting, cut into blocks and run together in any way: the
\* server understands no command that was not sent, none twice and none out of
\* order, and passes over one only after a command's word has been cut in two
\* (ad_server_parser.hpp, state_get.hpp).  The client's answers are the server's, one
\* after the other, until a line END is cut; without either cut it never throws, and
\* when nothing is under way every command has the answer to it.
AnswersFitCommands ==
    LET passed == FoldLeft(LAMBDA n, a : IF n < Len(done) /\ Understood(done[n + 1].cmd, a) THEN n + 1 ELSE n, 0, asked)
        whole == ~server.cut /\ client.ended = 0
    IN  /\ ~server.threw
        /\ passed = Len(done)
        /\ ~server.cut => \A i \in DOMAIN done : Understood(done[i].cmd, asked[i])
        /\ \A i \in DOMAIN client.got :
             (i < Len(client.got) \/ client.ready) /\ (client.ended = 0 \/ i <= client.ended) =>
                i \in DOMAIN done /\ client.got[i] = done[i].answer
        /\ whole => ~client.threw
        /\ whole /\ up = <<>> /\ down = <<>> =>
             Len(done) = Len(asked) /\ Len(client.got) = Len(asked) /\ client.ready /\ client.queue = <<>>
=============================================================================
