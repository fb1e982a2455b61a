-------------------------------- MODULE MuxFilter -------------------------------
(*********************************************************************************)
(* Connection objects: the stack binary_filter, mux_filter, connection,          *)
(* mux_connection, and what ends it: pooled_item in a server, mux_client in a    *)
(* client.  The state of Epoller gets the fields                                 *)
(*   k       the connection objects                                              *)
(*   active, pooled, freed   the sets of the pool of a server (fas/inet/pool.hpp)*)
(* A public method takes the mutex of the object for all it does, so each one is *)
(* a single operator from state to state here.                                   *)
(*********************************************************************************)
EXTENDS Epoller, SequencesExt

CONSTANTS
  Conn,     \* the connection objects of the server, by address
  Client    \* the client objects

ASSUME ObjAssumption == Conn \subseteq Nat /\ Conn \cap Client = {} /\ None \notin Conn \cup Client

\* d: the descriptor of reader and writer; r, w: whether they are open; buf: the bytes the
\* writer holds; read, write, swh: _mux_read, _mux_write, _swh_count; socket, pending, early:
\* _socket, _connect_in_progress and _buffers of a client
NewObject ==
  [d |-> None, r |-> FALSE, w |-> FALSE, buf |-> <<>>, read |-> FALSE, write |-> FALSE,
   swh |-> 0, released |-> TRUE, releasing |-> FALSE, closed |-> TRUE,
   socket |-> None, pending |-> FALSE, early |-> <<>>]

-----------------------------------------------------------------------------------
(* Write handlers (mux_filter_base).                                               *)

SetWriteHandler(s, o) ==
  LET x == s.k[o]
      t == IF x.write THEN s ELSE SetHandler(s, x.d, o, "out")
  IN  IF x.w THEN [t EXCEPT !.k[o].write = TRUE, !.k[o].swh = @ + 1] ELSE s

ResetWriteHandler(s, o, all) ==
  LET x == s.k[o] IN
  CASE x.swh = 0 -> s
    [] x.swh > 0 /\ (x.swh = 1 \/ all) ->
         ResetHandler([s EXCEPT !.k[o].write = FALSE, !.k[o].swh = 0], x.d, "out")
    [] OTHER -> [s EXCEPT !.k[o].swh = @ - 1]

-----------------------------------------------------------------------------------
(* Release.                                                                        *)

\* binary_filter::_release: reader and writer are cleared
BinaryRelease(s, o) == [s EXCEPT !.k[o].buf = <<>>]

\* mux_filter_base::_release, past the test of _released: the handler and the status of the
\* reader
ReleaseReader(s, o) ==
  LET x == s.k[o]
      Unread(t) == IF x.read THEN ResetHandler(t, x.d, "in") ELSE t
  IN  Unread([s EXCEPT !.k[o].read = FALSE, !.k[o].r = FALSE])

\* mutant of ReleaseWriter: the second call does not force the end
ReleaseWriterSoft(s, o) ==
  LET x == s.k[o] IN
  CASE ~x.write -> s
    [] x.write /\ x.buf # <<>> -> [s EXCEPT !.k[o].released = FALSE, !.k[o].releasing = TRUE]
    [] OTHER -> [ResetWriteHandler(s, o, TRUE) EXCEPT !.k[o].w = FALSE, !.k[o].releasing = FALSE]

\* then those of the writer; a soft release keeps them and leaves the object live
ReleaseWriter(s, o) ==
  LET x == s.k[o] IN
  CASE ~x.write -> s
    [] x.write /\ ~x.releasing /\ x.buf # <<>> ->
         [s EXCEPT !.k[o].released = FALSE, !.k[o].releasing = TRUE]
    [] OTHER -> [ResetWriteHandler(s, o, TRUE) EXCEPT !.k[o].w = FALSE, !.k[o].releasing = FALSE]

\* the whole of it: the first call is soft while the writer holds data, the second one is not
FilterRelease(s, o) ==
  LET Cleared(t) == IF t.k[o].released THEN BinaryRelease(t, o) ELSE t
  IN  IF s.k[o].released THEN s
      ELSE Cleared(ReleaseWriter(ReleaseReader([s EXCEPT !.k[o].released = TRUE], o), o))

\* release returned true
Ends(s, t, o) == ~s.k[o].released /\ t.k[o].released

\* connection::_close
CloseConnection(s, o) ==
  IF s.k[o].closed THEN s
  ELSE CloseDesc([s EXCEPT !.k[o].r = FALSE, !.k[o].w = FALSE, !.k[o].closed = TRUE], s.k[o].d)

\* mutant of ConnectionRelease: the descriptor is not closed
ConnectionReleaseOpen(s, o) == FilterRelease(s, o)

\* mux_connection_base::_release
ConnectionRelease(s, o) ==
  LET Closed(t) == IF Ends(s, t, o) THEN CloseConnection(t, o) ELSE t
  IN  Closed(FilterRelease(s, o))

\* mutant of PooledRelease: the object goes back to the pool before it is released
PooledReleaseEarly(s, o) ==
  LET Freed(t) == IF ~s.k[o].released THEN [t EXCEPT !.freed = @ \cup {o}] ELSE t
  IN  Freed(ConnectionRelease(s, o))

\* pool::free
Free(s, o) == [s EXCEPT !.freed = @ \cup {o}]

\* pooled_item::release
PooledRelease(s, o) ==
  LET Freed(t) == IF Ends(s, t, o) THEN Free(t, o) ELSE t IN Freed(ConnectionRelease(s, o))

\* client::_connect_ready with an error or a cancellation: the attempt is given up
GiveUp(s, o) ==
  CloseDesc([s EXCEPT !.k[o].pending = FALSE, !.k[o].early = <<>>, !.k[o].socket = None],
            s.k[o].socket)

\* client::_close; its shutdown comes after the close of the same number, which no other thread
\* opens here, and fails unnoticed
ClientClose(s, o) ==
  CloseConnection([s EXCEPT !.k[o].pending = FALSE, !.k[o].early = <<>>, !.k[o].socket = None], o)

\* mux_client_base::_release
ClientRelease(s, o) ==
  LET Closed(s1, s2) == IF Ends(s1, s2, o) THEN ClientClose(s2, o) ELSE s2
      Ended(s1) == Closed(s1, ConnectionRelease(s1, o))
  IN  Ended(IF s.k[o].pending THEN GiveUp(ResetWriteHandler(s, o, TRUE), o) ELSE s)

\* the virtual release
Release(s, o) == IF o \in Client THEN ClientRelease(s, o) ELSE PooledRelease(s, o)

-----------------------------------------------------------------------------------
(* Writing.                                                                        *)

\* mutant of SetWriteHandlerIfReady: an idle writer keeps its write handler
SetWriteHandlerIfReadyKeeps(s, o) ==
  LET x == s.k[o] IN
  CASE x.released -> s
    [] ~x.released /\ (~x.w \/ (x.releasing /\ x.buf = <<>>)) -> Release(s, o)
    [] OTHER -> IF x.buf = <<>> THEN s ELSE SetWriteHandler(s, o)

\* mux_filter_base::_set_write_handler_if_ready
SetWriteHandlerIfReady(s, o) ==
  LET x == s.k[o]
      Idle(t) == IF x.releasing THEN Release(t, o) ELSE t
  IN  CASE x.released -> s
        [] ~x.released /\ ~x.w -> Release(s, o)
        [] ~x.released /\ x.w /\ x.buf # <<>> -> SetWriteHandler(s, o)
        [] OTHER -> Idle(ResetWriteHandler(s, o, FALSE))

\* the end of both forms of _write: the release that was added in 2010
AfterWrite(s, o) ==
  LET Gone(x) == ~x.w /\ ~x.releasing /\ ~x.released
      Ended(t) == IF Gone(t.k[o]) THEN Release(t, o) ELSE t
  IN  Ended(SetWriteHandlerIfReady(s, o))

\* mutant of Buffered: after a partial send the whole data is kept
BufferedAgain(b, n) == IF n = Len(b) THEN <<>> ELSE b

\* ad_buf_binary_write: what it keeps of b when write took n bytes of it
Buffered(b, n) == IF n > 0 THEN SubSeq(b, n + 1, Len(b)) ELSE b

\* ad_buf_binary_write(d, s) and ad_file_write: the data goes behind what is held already; a closed
\* peer empties the buffer
SendData(s, o, b) ==
  LET x == s.k[o]
      all == x.buf \o b
      n == SendResult(s, x.d, all)
  IN  [Sent(s, x.d, all) EXCEPT !.k[o].buf = IF n = 0 THEN <<>> ELSE Buffered(all, n),
                                !.k[o].w = n # 0]

\* what mux_filter_base::_write(d, s) returns: the result of write, or 0
WriteResult(s, o, b) ==
  IF s.k[o].releasing \/ ~s.k[o].w THEN 0 ELSE SendResult(s, s.k[o].d, s.k[o].buf \o b)

FilterWrite(s, o, b) ==
  LET x == s.k[o] IN
  CASE x.releasing -> s
    [] ~x.releasing /\ ~x.w -> ResetWriteHandler(s, o, TRUE)
    [] OTHER -> AfterWrite(SendData(s, o, b), o)

\* ad_buf_binary_write(): what is held is sent; a closed peer leaves the buffer as it is
SendBuffer(s, o) ==
  LET x == s.k[o]
      n == SendResult(s, x.d, x.buf)
  IN  IF x.buf = <<>> THEN s
      ELSE [Sent(s, x.d, x.buf) EXCEPT !.k[o].buf = Buffered(x.buf, n), !.k[o].w = n # 0]

FilterFlush(s, o) ==
  IF ~s.k[o].w THEN ResetWriteHandler(s, o, TRUE) ELSE AfterWrite(SendBuffer(s, o), o)

-----------------------------------------------------------------------------------
(* Reading: ad_buf_binary_read and ad_file_read.  done is the state in which the      *)
(* application leaves o once it has the data: answered, released, or as it was.    *)

\* the data is read, the application has not seen it yet
Reads(s, o) == Received(s, s.k[o].d)

FilterRead(s, o, done) ==
  LET x == s.k[o]
      n == RecvResult(s, x.d)
      Gone(y) == ~y.r /\ ~y.releasing /\ ~y.released
      Ended(t) == IF Gone(t.k[o]) THEN Release(t, o) ELSE t
  IN  Ended(CASE n = 1 -> done
              [] n = 0 -> [s EXCEPT !.k[o].r = FALSE]
              [] OTHER -> s)

-----------------------------------------------------------------------------------
(* Assignment of a descriptor.                                                     *)

\* binary_filter::_assign: set_d also sets the status of reader and writer
BinaryAssign(s, o, d) ==
  [s EXCEPT !.k[o] = [@ EXCEPT !.d = d, !.r = TRUE, !.w = TRUE, !.buf = <<>>]]

\* mux_filter_base::_assign: a session still open is ended first
FilterAssign(s, o, d) ==
  LET Released(t) == IF t.k[o].released THEN t ELSE Release(t, o)
      Bound(t) == [BinaryAssign(t, o, d) EXCEPT !.k[o].releasing = FALSE, !.k[o].released = FALSE]
  IN  [SetWriteHandlerIfReady(SetHandler(Bound(Released(Released(s))), d, o, "in"), o)
         EXCEPT !.k[o].read = TRUE]

\* connection::_assign
AssignConnection(s, o, d) ==
  LET Noted(t) == [t EXCEPT !.k[o].closed = t.k[o].released]
  IN  Noted(FilterAssign([s EXCEPT !.k[o].closed = FALSE], o, d))

-----------------------------------------------------------------------------------
(* What the multiplexer calls.  A wrong descriptor is an exception: the object is  *)
(* released twice and the exception leaves select (ad_exception).                  *)

Fails(s, o) == Throw(Release(Release(s, o), o), "descriptors differ")

FilterReadyRead(s, o, d, done) ==
  IF d # s.k[o].d THEN Fails(s, o) ELSE FilterRead(s, o, done)

FilterReadyWrite(s, o, d) == IF d # s.k[o].d THEN Fails(s, o) ELSE FilterFlush(s, o)

\* ad_release is the handler of an error
FilterReadyError(s, o, d) == IF d # s.k[o].d THEN Fails(s, o) ELSE Release(s, o)
=================================================================================
