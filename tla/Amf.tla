--------------------------------- MODULE Amf ---------------------------------
(***************************************************************************)
(* Remote invocation over AMF (fas/util/amf).  A message is cut into       *)
(* chunks for one of several objects; the server writes a message as a     *)
(* whole, the client, of another make, mixes the chunks of different       *)
(* objects and may shorten the head of a message that is as long as the    *)
(* one before.  The receiver finds the chunks in blocks of any size,       *)
(* collects them by object and invokes what they name.                     *)
(*                                                                         *)
(* The stream is a sequence of bytes, so that a receiver that has lost its *)
(* place takes any of them for a head.  The first byte of a head holds its *)
(* kind and the object; a long head goes on with the length of the body,   *)
(* in one byte, and the content type.  The lengths 8 and 12 of a long      *)
(* head, 1 and 4 of a short one, are told apart no further.                *)
(***************************************************************************)
EXTENDS AmfValues, FiniteSets

CONSTANTS Object,
          CHUNK_SIZE,
          First,      \* First[p]: the call id of p's stub before its first call
          MaxCalls    \* calls of a peer

VARIABLES out,     \* out[o]: the client's chunks that are not yet on the wire, and the length of the last message that is
          wire,    \* wire[p]: what is under way to p
          rx,      \* rx[p]: the splitter, the collector and the proxy of p
          stub,    \* stub[p]: counter and _call_map
          asked,   \* the calls that were made
          ran,     \* the calls that were handled, each with whether its peer had lost no byte
          got      \* the results that reached a callback, each with whether nobody had
vars == <<out, wire, rx, stub, asked, ran, got>>

Peer == {"client", "server"}
Other(p) == CHOOSE q \in Peer : q # p

Long == 3
Short == 1
INVOKE == 20
HeadByte(kind, o) == kind * 64 + o
Kind(b) == b \div 64
ObjectOf(b) == b % 64
head_size(b) == IF Kind(b) < 2 THEN Long ELSE Short

-----------------------------------------------------------------------------
(* The sender.                                                             *)

Name == [f |-> <<102>>, _result |-> <<114>>]

\* serialize_invoke, and what is put after it
Invocation(name, id, args) ==
    <<AMF_STRING>> \o push_string(Name[name]) \o <<AMF_NUMBER>> \o push_number(id) \o <<AMF_NIL>> \o args

\* finalize and ad_chunk_prepare: chunks of CHUNK_SIZE, the first with the
\* head the message was given
RECURSIVE Chunks(_, _, _)
Chunks(o, head, body) ==
    IF Len(body) <= CHUNK_SIZE THEN <<head \o body>>
    ELSE <<head \o SubSeq(body, 1, CHUNK_SIZE)>> \o Chunks(o, <<HeadByte(3, o)>>, Drop(body, CHUNK_SIZE))
ad_chunk_prepare(o, body) == Chunks(o, <<HeadByte(0, o), Len(body), INVOKE>>, body)

-----------------------------------------------------------------------------
(* The receiver.                                                           *)

amf_object == [chunk_size |-> 0, content |-> 0, body_size |-> 0, body_recv |-> 0]

\* _object is a vector that grows: an object nobody has named yet is fresh.
ObjectAt(v, o, fresh) == IF o \in DOMAIN v THEN v[o] ELSE fresh
WithObject(v, o, x) == [i \in DOMAIN v \cup {o} |-> IF i = o THEN x ELSE v[i]]

Least(a, b) == IF a < b THEN a ELSE b

\* ad_chunk_splitter::_split: the length of the chunk at the beginning of d,
\* or 0 if more is needed, and the objects then; it throws on content 1
_split(objects, d) ==
    LET hs == head_size(d[1])
        o == ObjectOf(d[1])
        old == ObjectAt(objects, o, amf_object)
        headed == IF hs = Long
                  THEN [old EXCEPT !.body_size = d[2], !.content = d[3],
                                          !.chunk_size = IF d[3] = 8 THEN CHUNK_SIZE \div 2 ELSE CHUNK_SIZE]
                  ELSE old
        obj == IF headed.body_recv = 0 THEN [headed EXCEPT !.body_recv = headed.body_size] ELSE headed
        body == Least(obj.chunk_size, obj.body_recv)
    IN  IF Len(d) < hs THEN [need |-> 0, objects |-> objects, threw |-> FALSE]
        ELSE IF hs = Long /\ d[3] = 1 THEN [need |-> 0, objects |-> WithObject(objects, o, headed), threw |-> TRUE]
        ELSE IF Len(d) < body + hs THEN [need |-> 0, objects |-> WithObject(objects, o, obj), threw |-> FALSE]
        ELSE [need |-> body + hs, objects |-> WithObject(objects, o, [obj EXCEPT !.body_recv = @ - body]), threw |-> FALSE]

\* ad_chunk_collector::_collect: the object's bytes with the chunk c added
_collect(old, c) ==
    LET hs == head_size(c[1])
        size == head_size(old[1])
    IN  IF old = <<>> \/ (hs > size /\ hs > Len(old)) THEN c
        ELSE IF hs > size THEN SubSeq(c, 1, hs) \o Drop(old, size) \o Drop(c, hs)
        ELSE <<HeadByte(Kind(old[1]), ObjectOf(c[1]))>> \o SubSeq(c, 2, hs) \o Drop(old, hs) \o Drop(c, hs)

Complete(m) == head_size(m[1]) # Long \/ Len(m) = Long + m[2]
Overlong(m) == head_size(m[1]) = Long /\ Len(m) > Long + m[2]
\* after the message was handed on: only its head is kept
HeadOnlyKept(m) == m
HeadOnly(m) == SubSeq(m, 1, head_size(m[1]))

\* unserialize_invoke::assign: the invocation, or ok = FALSE when it throws; a
\* message without a long head changes nothing
Assign(u, m) ==
    LET Typed(d, type) == IF d # <<>> /\ d[1] = type THEN Read(d[1], Tail(d)) ELSE Fail
        body == Typed(Drop(m, Long), AMF_STRING)
        fn == IF body.ok THEN get_string(body.rest) ELSE Fail
        num == Typed(fn.rest, AMF_NUMBER)
        id == IF num.ok THEN get_number(num.rest) ELSE Fail
    IN  IF head_size(m[1]) # Long THEN [u EXCEPT !.o = ObjectOf(m[1])]
        ELSE [o |-> ObjectOf(m[1]), function |-> fn.v, call_id |-> id.v,
              args |-> IF id.rest = <<>> THEN <<>> ELSE Tail(id.rest),
              ok |-> id.ok /\ (id.rest # <<>> => id.rest[1] = AMF_NIL)]

\* unserialize_invoke >> mt, with one argument
Argument(args) == IF args = <<>> THEN Read(<<"none">>, <<>>)
                  ELSE LET r == Unserialize(args, 0) IN [r EXCEPT !.v = Own(@)]

\* A message of p on object o, in the state s of a step of p
Write(s, p, o, body) ==
    IF p = "client" THEN [s EXCEPT !.out[o].todo = @ \o ad_chunk_prepare(o, body)]
    ELSE [s EXCEPT !.wire["client"] = @ \o FlattenSeq(ad_chunk_prepare(o, body))]

\* ad_proxy_invocation::_select_invoke: the stub's callback, or the method f,
\* whose answer is its argument negated.  The stub has its result answered too.
Invoke(s, p, u) ==
    LET arg == Argument(u.args)
        no == <<AMF_BOOL, Number(arg.v # <<"bool", TRUE>>)>>
    IN  CASE ~u.ok -> [s EXCEPT !.rx.threw = TRUE]
          [] u.ok /\ u.function = Name._result /\ u.call_id \in s.calls ->
                IF ~arg.ok THEN [s EXCEPT !.rx.threw = TRUE]
                ELSE Write([s EXCEPT !.got = Append(@, <<p, u.call_id, arg.v, s.lost = {}>>)],
                           p, u.o, Invocation("_result", u.call_id, <<>>))
          [] u.ok /\ u.function = Name.f ->
                IF ~arg.ok THEN [s EXCEPT !.rx.threw = TRUE]
                ELSE Write([s EXCEPT !.ran = Append(@, <<p, u.call_id, arg.v, p \notin s.lost>>)],
                           p, u.o, Invocation("_result", u.call_id, no))
          [] OTHER -> s

\* ad_chunk_collector::operator()
ad_chunk_collector(s, p, c) ==
    LET o == ObjectOf(c[1])
        m == _collect(ObjectAt(s.rx.collected, o, <<>>), c)
        u == Assign(s.rx.ausi, m)
    IN  IF Overlong(m) THEN [s EXCEPT !.rx.threw = TRUE]
        ELSE IF Complete(m) THEN Invoke([s EXCEPT !.rx.collected = WithObject(@, o, HeadOnly(m)), !.rx.ausi = u], p, u)
        ELSE [s EXCEPT !.rx.collected = WithObject(@, o, m)]

ad_process_content(s, p, content, c) == IF content = INVOKE THEN ad_chunk_collector(s, p, c) ELSE s

\* The loop of ad_chunk_splitter::operator() over d; it returns what is left
RECURSIVE SplitAll(_, _, _)
SplitAll(s, p, d) ==
    LET r == _split(s.rx.objects, d)
        t == [s EXCEPT !.rx.objects = r.objects, !.rx.threw = r.threw]
    IN  IF d = <<>> \/ s.rx.threw THEN [s |-> s, left |-> Len(d)]
        ELSE IF r.need = 0 THEN [s |-> t, left |-> Len(d)]
        ELSE SplitAll(ad_process_content(t, p, r.objects[ObjectOf(d[1])].content, SubSeq(d, 1, r.need)), p, Drop(d, r.need))

\* ad_chunk_splitter::operator(): with a part of a chunk kept from earlier
\* blocks, it looks at as many bytes as the new block has, and no more; when
\* those end with a chunk, what is behind them is dropped (lost).
ad_chunk_splitter(s, p, block) ==
    LET kept == s.rx.buffer
        all == kept \o block
        Kept(r) == [r.s EXCEPT !.rx.buffer = IF r.left = 0 THEN <<>> ELSE Drop(all, Len(block) - r.left),
                               !.rx.lost = @ \/ (r.left = 0 /\ kept # <<>>)]
    IN  Kept(SplitAll(s, p, SubSeq(all, 1, Len(block))))

-----------------------------------------------------------------------------
Init ==
    /\ out = [o \in Object |-> [todo |-> <<>>, size |-> 0]]
    /\ wire = [p \in Peer |-> <<>>]
    /\ rx = [p \in Peer |-> [buffer |-> <<>>, objects |-> <<>>, collected |-> <<>>, lost |-> FALSE, threw |-> FALSE,
                             ausi |-> [o |-> 0, function |-> <<>>, call_id |-> 0, args |-> <<>>, ok |-> TRUE]]]
    /\ stub = [p \in Peer |-> [counter |-> First[p], calls |-> {}]]
    /\ asked = {}
    /\ ran = <<>>
    /\ got = <<>>

\* ad_stub_invocation::_invoke of f with one argument
Call(p, o) ==
    LET id == stub[p].counter + 1
        b == id % 2 = 1
        s == Write([out |-> out, wire |-> wire], p, o, Invocation("f", id, <<AMF_BOOL, Number(b)>>))
    IN  /\ id <= First[p] + MaxCalls[p]
        /\ stub' = [stub EXCEPT ![p] = [counter |-> id, calls |-> @.calls \cup {id}]]
        /\ asked' = asked \cup {<<p, id, <<"bool", b>>>>}
        /\ out' = s.out
        /\ wire' = s.wire
        /\ UNCHANGED <<rx, ran, got>>

\* The client puts a chunk on the wire.  Where the message is as long as the one
\* before on this object, it may leave out a long head.
Transmit(o) ==
    LET c == out[o].todo[1]
        first == head_size(c[1]) = Long
    IN  /\ out[o].todo # <<>>
        /\ out' = [out EXCEPT ![o] = [todo |-> Tail(@.todo), size |-> IF first THEN c[2] ELSE @.size]]
        /\ \/ wire' = [wire EXCEPT !["server"] = @ \o c]
           \/ /\ first /\ out[o].size = c[2]
              /\ wire' = [wire EXCEPT !["server"] = @ \o <<HeadByte(3, o)>> \o Drop(c, Long)]
        /\ UNCHANGED <<rx, stub, asked, ran, got>>

\* A block of n bytes arrives at p.  What becomes of the connection after an
\* exception is up to its owner (_e_ready_read_).
Deliver(p, n) ==
    /\ ~rx[p].threw
    /\ \E s \in {ad_chunk_splitter([rx |-> rx[p], out |-> out, wire |-> [wire EXCEPT ![p] = Drop(@, n)],
                                    calls |-> stub[p].calls, ran |-> ran, got |-> got,
                                    lost |-> {q \in Peer : rx[q].lost}],
                                   p, SubSeq(wire[p], 1, n))} :
          /\ rx' = [rx EXCEPT ![p] = s.rx]
          /\ wire' = s.wire
          /\ out' = s.out
          /\ ran' = s.ran
          /\ got' = s.got
    /\ UNCHANGED <<stub, asked>>

Next == \/ \E p \in Peer, o \in Object : Call(p, o)
        \/ \E o \in Object : Transmit(o)
        \/ \E p \in Peer : \E n \in 1 .. Len(wire[p]) : Deliver(p, n)

-----------------------------------------------------------------------------
\* However the chunks of two objects are mixed, shortened and cut into blocks: as
\* long as a peer has lost no byte, a call is handled by it once and with its own
\* argument; as long as neither has, a result reaches the callback of its own call
\* once and with the answer to it.  Only a peer that has lost bytes throws.  Bytes
\* are lost when a block ends where a chunk would, counted without what was kept of
\* the blocks before; the peer then reads on out of place (ad_chunk_splitter.hpp,
\* ad_chunk_collector.hpp, ad_stub_invocation.hpp).
ResultsFitCalls ==
    LET Sure(s) == SelectSeq(s, LAMBDA e : e[4])
        Once(s) == \A i, k \in DOMAIN s : i # k => <<s[i][1], s[i][2]>> # <<s[k][1], s[k][2]>>
        Negated(v) == <<"bool", v # <<"bool", TRUE>>>>
    IN  /\ \A p \in Peer : rx[p].threw => rx[p].lost
        /\ \A e \in ToSet(Sure(ran)) : <<Other(e[1]), e[2], e[3]>> \in asked
        /\ \A e \in ToSet(Sure(got)) : <<e[1], e[2], Negated(e[3])>> \in asked
        /\ Once(Sure(ran)) /\ Once(Sure(got))
=============================================================================
