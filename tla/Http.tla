-------------------------------- MODULE Http ---------------------------------
(***************************************************************************)
(* HTTP messages from the library's writer to its reader (fas/adv/http).   *)
(* The text of a message is a sequence of tokens: "I" an initial line, "T" *)
(* and "L1", "L2" .. the header fields Transfer-Encoding and Content-      *)
(* Length, "r" and "n" the line ends, the digits of a chunk's length, and  *)
(* the bytes of bodies.  What is written arrives in blocks cut anywhere.   *)
(***************************************************************************)
EXTENDS Integers, Sequences, SequencesExt

CONSTANTS Bodies,       \* the bodies and chunks, among them the empty one
          MaxMessages   \* bound on messages and chunks

VARIABLES w,         \* the writer: mode, buf (ad_writer::_buffer), header
          use_buff,  \* ad_incoming::_use_buff
          data,      \* ad_incoming::_data
          wire,      \* what is under way
          r,         \* the reader; strayed and apart are about its past (see below)
          sent       \* what was given to the writer
vars == <<w, use_buff, data, wire, r, sent>>

EOL == <<"r", "n">>

Length(k) == <<"0", "1", "2", "3", "4">>[k + 1]
ValueOf(d) == CASE d = "1" -> 1 [] d = "2" -> 2 [] d = "3" -> 3 [] d = "4" -> 4 [] OTHER -> 0
ContentLength(k) == <<"L0", "L1", "L2", "L3", "L4">>[k + 1]
LengthIn(f) == CASE f = "L0" -> 0 [] f = "L1" -> 1 [] f = "L2" -> 2 [] f = "L3" -> 3 [] f = "L4" -> 4 [] OTHER -> -1

-----------------------------------------------------------------------------
(* header: a sequence of fields, each ended by EOL.                        *)

Has(h, f) == \E i \in DOMAIN h : h[i] = f
is_chunked(h) == Has(h, "T")
get_content_length(h) ==
    LET l == SelectSeq(h, LAMBDA f : LengthIn(f) >= 0) IN IF l = <<>> THEN -1 ELSE LengthIn(l[1])
is_complete(h) == Len(h) >= 4 /\ SubSeq(h, Len(h) - 3, Len(h)) = EOL \o EOL
complete(h) == IF is_complete(h) THEN h ELSE h \o EOL
Chunked == <<"T">> \o EOL
set_content_length(k) == <<ContentLength(k)>> \o EOL

-----------------------------------------------------------------------------
(* The writer: ad_initial_writer, ad_header_writer and, by header, the     *)
(* writers of a body, a chunk or nothing.  A result is the writer and what *)
(* it has put out.                                                         *)

Out(x, text) == [w |-> [x EXCEPT !.buf = <<>>], text |-> text]

\* Back in the initial state, whose activation flushes.
ToInitial(x) == Out([x EXCEPT !.mode = "initial"], x.buf)

ad_body_chunk_writer(x, d) ==
    LET line == <<Length(Len(d))>> \o EOL
    IN  IF d # <<>> THEN Out(x, x.buf \o line \o d \o EOL)
        ELSE Out([x EXCEPT !.mode = "initial"], x.buf \o line \o EOL)
ad_body_buf_writer(x, d) == ToInitial([x EXCEPT !.buf = @ \o d])
ad_nobody_writer(x) == ToInitial(x)

ad_header_writer(x, d) ==
    LET y == [x EXCEPT !.buf = @ \o <<"I">> \o EOL \o complete(x.header), !.header = complete(@)]
    IN  IF is_chunked(y.header) THEN ad_body_chunk_writer([y EXCEPT !.mode = "chunk"], d)
        ELSE IF get_content_length(y.header) > 0 THEN ad_body_buf_writer(y, d)
        ELSE ad_nobody_writer(y)

Write(x, d) == IF x.mode = "chunk" THEN ad_body_chunk_writer(x, d) ELSE ad_header_writer(x, d)

-----------------------------------------------------------------------------
(* The reader.  mode is the state of _reader_state_; a state's variables   *)
(* are set when it is activated.  Two things the reader does not survive   *)
(* are marked:                                                             *)
(*   strayed: it has dropped what followed a message without a body, or    *)
(*     has read again, as chunks, what followed the last chunk;            *)
(*   apart: the empty line behind the last chunk has come in another block *)
(*     than its length, and is taken for the next message's initial line.  *)
(* A third one is seen from its state, see Deaf.                           *)

\* ad_process: _process_uri_ gets the URI, if there is one, and the data; "none" stands for
\* _head_readed_ and _body_readed_ of a message without a body, the tail of which
\* ad_nobody_reader drops
Emit(x, e) == [x EXCEPT !.out = Append(@, <<IF x.initial # <<>> /\ x.initial[1] = "I" THEN "I" ELSE "">> \o e)]

ActivateHeader(x) == [x EXCEPT !.mode = "header", !.buffer = <<>>, !.initial = <<>>, !.header = <<>>]
ActivateBody(x)  == [x EXCEPT !.mode = "body", !.needed = get_content_length(x.header), !.body = <<>>]
ActivateChunk(x) == [x EXCEPT !.mode = "chunk", !.chunk_size = -1, !.data = <<>>]

\* ad_header_reader::_rn: the number of tokens up to the end of the line, or 0
_rn(d) ==
    LET i == SelectInSeq(d, LAMBDA t : t = "r")
    IN  IF d = <<>> THEN 0
        ELSE IF d[1] = "n" THEN 1
        ELSE IF i = 0 \/ i = Len(d) THEN 0
        ELSE IF d[i + 1] = "n" THEN i + 1 ELSE 0

ad_request_header(x, l) ==
    IF x.initial = <<>> THEN [x EXCEPT !.initial = l] ELSE [x EXCEPT !.header = @ \o l]

Rest(d, n) == SubSeq(d, n + 1, Len(d))

\* ad_body_chunk_reader::_process_length.  A line that came in part is never
\* completed: the loop that should append to it runs while it is complete.
_process_length(x, d) ==
    LET i == SelectInSeq(d, LAMBDA t : t = "r")
        k == ValueOf(d[1])
    IN  IF x.chunk_size # -1 THEN [x |-> x, rest |-> d]
        ELSE IF x.data # <<>> THEN [x |-> x, rest |-> <<>>]
        ELSE IF i = 0 \/ i = Len(d) THEN [x |-> [x EXCEPT !.data = d], rest |-> <<>>]
        ELSE [x |-> [x EXCEPT !.chunk_size = IF k > 0 THEN k + 2 ELSE 0], rest |-> Rest(d, i + 1)]

\* _process_body: how much of d belongs to the chunk
_process_body(x, d) ==
    LET more == x.chunk_size - Len(x.data) IN IF Len(d) < more THEN Len(d) ELSE more

\* _process_chunk: s is -1 while the chunk is not complete
_process_chunk(x, d) ==
    LET Whole(y, all, rest) ==
            IF Len(all) < y.chunk_size
            THEN [x |-> [y EXCEPT !.data = all], rest |-> rest, s |-> -1, d |-> <<>>]
            ELSE [x |-> [y EXCEPT !.chunk_size = -1, !.data = <<>>], rest |-> rest,
                  s |-> IF y.chunk_size > 1 THEN y.chunk_size - 2 ELSE 0, d |-> all]
        Body(y, e, k) == Whole(y, y.data \o SubSeq(e, 1, k), Rest(e, k))
        Sized(l) == IF l.x.chunk_size = -1 THEN [x |-> l.x, rest |-> <<>>, s |-> -1, d |-> <<>>]
                    ELSE Body(l.x, l.rest, _process_body(l.x, l.rest))
    IN  Sized(_process_length(x, d))

RECURSIVE ad_header_reader(_, _), ad_body_buf_reader(_, _), ad_body_chunk_reader(_, _), ad_body_buf_readerTailless(_, _)

ad_header_reader(x, d) ==
    LET Go(y, tail) ==
            CASE ~is_complete(y.header) -> ad_header_reader(y, tail)
              [] is_complete(y.header) /\ is_chunked(y.header) -> ad_body_chunk_reader(ActivateChunk(y), tail)
              [] is_complete(y.header) /\ ~is_chunked(y.header) /\ get_content_length(y.header) > 0 ->
                   ad_body_buf_reader(ActivateBody(y), tail)
              [] OTHER -> ActivateHeader([Emit(y, <<"none">>) EXCEPT !.strayed = @ \/ tail # <<>>])
        Lines(n) == IF n = 0 THEN [x EXCEPT !.buffer = @ \o d]
                    ELSE Go(ad_request_header([x EXCEPT !.buffer = <<>>], x.buffer \o SubSeq(d, 1, n)), Rest(d, n))
    IN  Lines(_rn(d))

ad_body_buf_readerTailless(x, d) ==
    IF Len(d) < x.needed THEN [x EXCEPT !.body = @ \o d, !.needed = @ - Len(d)]
    ELSE ActivateHeader(Emit(x, <<"body">> \o x.body \o SubSeq(d, 1, x.needed)))

ad_body_buf_reader(x, d) ==
    IF Len(d) < x.needed THEN [x EXCEPT !.body = @ \o d, !.needed = @ - Len(d)]
    ELSE ad_header_reader(ActivateHeader(Emit(x, <<"body">> \o x.body \o SubSeq(d, 1, x.needed))),
                          Rest(d, x.needed))

\* After the last chunk the rest of the block is read as a header and then once
\* more by this loop, as chunks.
ad_body_chunk_reader(x, d) ==
    IF d = <<>> THEN x
    ELSE LET After(c) ==
                 CASE c.s = -1 -> c.x
                   [] c.s > 0  -> Emit(c.x, <<"chunk">> \o SubSeq(c.d, 1, c.s))
                   [] OTHER    -> [ad_header_reader(ActivateHeader(Emit(c.x, <<"end">>)), c.rest) EXCEPT
                                       !.data = <<>>, !.strayed = @ \/ ~IsPrefix(c.rest, EOL),
                                       !.apart = @ \/ (d[1] # "r" /\ Len(c.rest) < Len(EOL))]
             Go(c) == ad_body_chunk_reader(After(c), c.rest)
         IN  Go(_process_chunk(x, d))

_input_(x, d) ==
    CASE x.mode = "header" -> ad_header_reader(x, d)
      [] x.mode = "body"   -> ad_body_buf_reader(x, d)
      [] x.mode = "chunk"  -> ad_body_chunk_reader(x, d)

-----------------------------------------------------------------------------
Init ==
    /\ w = [mode |-> "initial", buf |-> <<>>, header |-> <<>>]
    /\ use_buff = FALSE /\ data = <<>> /\ wire = <<>> /\ sent = <<>>
    /\ r = [mode |-> "header", buffer |-> <<>>, initial |-> <<>>, header |-> <<>>, needed |-> 0,
            body |-> <<>>, chunk_size |-> -1, data |-> <<>>, out |-> <<>>,
            strayed |-> FALSE, apart |-> FALSE]

Put(h, d) ==
    LET o == Write([w EXCEPT !.header = h], d) IN w' = o.w /\ wire' = wire \o o.text

BodyOf(d) == IF d = <<>> THEN <<"none">> ELSE <<"body">> \o d

\* Another message begins when the one before has got its last chunk.
MayBegin == w.mode = "initial" /\ Len(sent) < MaxMessages

\* ad_incoming, not buffered: a message of known length
IncomingPlain ==
    /\ MayBegin /\ ~use_buff
    /\ \E d \in Bodies :
          /\ Put(set_content_length(Len(d)), d)
          /\ sent' = Append(sent, BodyOf(d))
    /\ UNCHANGED <<use_buff, data, r>>

\* ad_incoming, not buffered: a chunk, the last one if it is empty
IncomingChunk ==
    /\ MayBegin \/ (w.mode = "chunk" /\ Len(sent) <= MaxMessages)
    /\ ~use_buff
    /\ \E d \in Bodies :
          /\ w.mode = "chunk" /\ Len(sent) = MaxMessages => d = <<>>
          /\ Put(Chunked, d)
          /\ sent' = Append(sent, IF d = <<>> THEN <<"end">> ELSE <<"chunk">> \o d)
    /\ UNCHANGED <<use_buff, data, r>>

\* ad_incoming, buffered: pieces are collected and sent as one message
BeginBuffering ==
    /\ MayBegin /\ ~use_buff
    /\ use_buff' = TRUE
    /\ UNCHANGED <<w, data, wire, r, sent>>

IncomingBuffered ==
    /\ use_buff
    /\ \E d \in Bodies : Len(data \o d) <= 4 /\ d # <<>> /\ data' = data \o d
    /\ UNCHANGED <<w, use_buff, wire, r, sent>>

Flush ==
    /\ use_buff
    /\ use_buff' = FALSE /\ data' = <<>>
    /\ Put(set_content_length(Len(data)), data)
    /\ sent' = Append(sent, BodyOf(data))
    /\ UNCHANGED r

Deliver ==
    /\ \E k \in DOMAIN wire :
          /\ r' = _input_(r, SubSeq(wire, 1, k))
          /\ wire' = Rest(wire, k)
    /\ UNCHANGED <<w, use_buff, data, sent>>

Next == IncomingPlain \/ IncomingChunk \/ BeginBuffering \/ IncomingBuffered \/ Flush \/ Deliver

-----------------------------------------------------------------------------
\* A chunk's length was cut between two blocks: _process_length keeps what came of it
\* and takes nothing in any more.
Deaf == r.mode = "chunk" /\ r.chunk_size = -1 /\ r.data # <<>>

\* For how many of the things sent the reports o may stand, if the end of a
\* message may be reported more than once.
Told(o) ==
    FoldLeft(LAMBDA N, e : {n \in DOMAIN sent : sent[n] = Tail(e) /\ (n - 1 \in N \/ (n \in N /\ Tail(e) = <<"end">>))},
             {0}, o)

\* Until the reader has strayed, which takes something in the same block behind a
\* message without a body or behind a last chunk: it processes what was written,
\* in order and nothing but the end of a message twice, however bodies are
\* collected and the text is cut; and unless it is deaf, all of it, and is ready
\* for the next header when everything has arrived.  If the empty line behind a
\* last chunk has always come in one block with it, the URI is there too, and what
\* is reported without one is only the end of a message, once more and at once
\* (ad_header_reader.hpp, ad_body_buf_reader.hpp, ad_body_chunk_reader.hpp).
ReadsWhatIsWritten ==
    ~r.strayed =>
        /\ Told(r.out) # {}
        /\ wire = <<>> /\ ~Deaf =>
              /\ Len(sent) \in Told(r.out)
              /\ w.mode = "initial" => r.mode = "header" /\ r.buffer = <<>> /\ r.initial \in {<<>>, EOL}
        /\ ~r.apart =>
              /\ \A i \in DOMAIN r.out :
                    r.out[i][1] = "I" \/ (i > 1 /\ r.out[i - 1] = <<"I", "end">> /\ r.out[i] = <<"", "end">>)
              /\ \E n \in Told(r.out) : n = Len(SelectSeq(r.out, LAMBDA e : e[1] = "I"))
=============================================================================
