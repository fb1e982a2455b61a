------------------------------- MODULE NetworkOps -------------------------------
(*********************************************************************************)
(* The operations of mux_client (fas/inet/client.hpp), of server and of its pool *)
(* of connection objects (fas/inet/server.hpp, pool.hpp) on the state of         *)
(* MuxFilter, which gets the fields                                              *)
(*   listen    the listening descriptor                                          *)
(*   started   _started                                                          *)
(*   limit     _max_connections                                                  *)
(*********************************************************************************)
EXTENDS MuxFilter

CONSTANT
  Server     \* the server as an observer of its listening descriptor

-----------------------------------------------------------------------------------
(* Client.                                                                         *)

\* client::_get_status
Status(s, o) == s.k[o].pending \/ ~s.k[o].released

\* client::__write_buffer: what was written during the attempt, piece by piece; a piece that is
\* not taken whole is an exception, although the writer has kept its rest
WriteEarly(s, o) ==
  LET Whole(t, b) == WriteResult(t, o, b) = Len(b)
      Told(t, whole) == IF whole THEN t ELSE Throw(t, "error write buffer")
      step(t, b) == IF t.error # "" THEN t ELSE Told(FilterWrite(t, o, b), Whole(t, b))
      Done(t) == IF t.error = "" THEN [t EXCEPT !.k[o].early = <<>>] ELSE t
  IN  Done(FoldLeft(step, s, s.k[o].early))

\* client::_connect_ready: the attempt has succeeded
Connected(s, o) ==
  WriteEarly(AssignConnection([s EXCEPT !.k[o].pending = FALSE], o, s.k[o].socket), o)

\* client::_connect: a new socket, and how connect answers: "up", "connecting" or "refused";
\* when there is no descriptor the exception goes to the caller of connect
NewSocket(s, o, answer) ==
  IF ~HasDesc(s) THEN [s EXCEPT !.k[o].early = <<>>] ELSE
  LET d == NewDesc(s)
      t == [s EXCEPT !.sock[d] = OpenSock(answer), !.k[o].early = <<>>, !.k[o].socket = d]
  IN  CASE answer = "refused" -> CloseDesc([t EXCEPT !.k[o].socket = None], d)
        [] answer = "connecting" -> [t EXCEPT !.k[o].pending = TRUE]
        [] OTHER -> AssignConnection(t, o, d)

\* an attempt waits for the descriptor to become writable
Attempt(s, o) ==
  IF s.k[o].pending
    THEN SetWriteHandler([s EXCEPT !.k[o].d = s.k[o].socket, !.k[o].r = TRUE, !.k[o].w = TRUE], o)
    ELSE s

\* a session is released, softly and then at once
End(s, o) ==
  LET Once(t) == IF Status(t, o) THEN Release(t, o) ELSE t IN Once(Once(s))

\* mutant of Connect: the write handler of an attempt that is under way is not reset
ConnectOver(s, o, answer) ==
  Attempt(NewSocket(End(IF s.k[o].pending THEN GiveUp(s, o) ELSE s, o), o, answer), o)

\* mux_client_base::_connect: an attempt under way is given up, a session is ended
Connect(s, o, answer) ==
  LET Quit(t) == IF s.k[o].pending THEN GiveUp(ResetWriteHandler(t, o, TRUE), o) ELSE t
  IN  Attempt(NewSocket(End(Quit(s), o), o, answer), o)

\* mux_client_base::_reconnect: nothing for an attempt under way; a live session is ended only
\* on demand
Reconnect(s, o, close, answer) ==
  IF s.k[o].pending \/ (Status(s, o) /\ ~close) THEN s ELSE Connect(s, o, answer)

\* mux_client_base::_close
Close(s, o, hard) ==
  LET Again(t) == IF hard /\ ~Ends(s, t, o) THEN Release(t, o) ELSE t IN Again(Release(s, o))

\* client::_write: a completed attempt is noticed here too; until then the data is put aside
ClientWrite(s, o, b) ==
  LET up == s.k[o].pending /\ s.sock[s.k[o].socket].peer = "up"
      Put(t) == CASE t.error # "" -> t
                  [] t.error = "" /\ t.k[o].pending -> [t EXCEPT !.k[o].early = Append(@, b)]
                  [] OTHER -> FilterWrite(t, o, b)
  IN  Put(IF up THEN Connected(s, o) ELSE s)

\* the virtual methods the multiplexer and the application call
Write(s, o, b) == IF o \in Client THEN ClientWrite(s, o, b) ELSE FilterWrite(s, o, b)

\* mux_client_base::_ready_write: the end of an attempt, by the error of the socket
ReadyWrite(s, o, d) ==
  LET t == ResetWriteHandler(s, o, TRUE) IN
  CASE ~s.k[o].pending -> FilterReadyWrite(s, o, d)
    [] s.k[o].pending /\ s.sock[d].peer = "gone" -> GiveUp(t, o)
    [] OTHER -> Connected(t, o)

\* mux_client_base::_ready_read
ReadyRead(s, o, d, done) ==
  IF s.k[o].pending THEN Throw(s, "ready read for progress connect")
  ELSE FilterReadyRead(s, o, d, done)

\* mux_client_base::_ready_error: the release gives an attempt up
ReadyError(s, o, d) ==
  LET Quit(t) == IF t.error = "" /\ t.k[o].pending THEN GiveUp(ResetWriteHandler(t, o, TRUE), o) ELSE t
  IN  Quit(FilterReadyError(s, o, d))

-----------------------------------------------------------------------------------
(* Pool and server.                                                                *)

\* mutant of ProcessFree: the item stays in the active set
ProcessFreeCopies(s) == [s EXCEPT !.pooled = @ \cup s.freed, !.freed = {}]

\* pool::_process_free
ProcessFree(s) ==
  IF s.freed \subseteq s.active
    THEN [s EXCEPT !.active = @ \ s.freed, !.pooled = @ \cup s.freed, !.freed = {}]
    ELSE Throw(s, "item not found")

\* the object pool::create returns: the first pooled one, or a new one, which is always
\* the lowest unused address here
Created(s) ==
  LET t == ProcessFree(s) IN Min(IF t.pooled # {} THEN t.pooled ELSE Conn \ t.active)

\* pool::create
Create(s) == [ProcessFree(s) EXCEPT !.active = @ \cup {Created(s)}, !.pooled = @ \ {Created(s)}]

\* server_base::_accept: accept throws when there is no descriptor; the limit is tested before
\* the pool has processed its queue
Accept(s) ==
  LET d == NewDesc(s)
      t == [s EXCEPT !.sock[d] = OpenSock("up"), !.sock[s.listen].inbox = FALSE]
  IN  CASE ~s.started -> s
        [] s.started /\ ~s.sock[s.listen].inbox -> s
        [] s.started /\ s.sock[s.listen].inbox /\ ~HasDesc(s) -> Throw(s, "accept")
        [] OTHER -> IF s.limit <= Cardinality(s.active) THEN CloseDesc(t, d)
                    ELSE AssignConnection(Create(t), Created(t), d)

\* server_base::_start
Start(s) ==
  LET d == NewDesc(s) IN
  IF s.started THEN s
  ELSE SetHandler([s EXCEPT !.listen = d, !.sock[d] = OpenSock("listening"), !.started = TRUE],
                  d, Server, "in")

\* pool::release: pooled and active items, in the order of their addresses, then the queue
ReleaseAll(s) ==
  ProcessFree(FoldLeft(Release, s, SetToSortSeq(s.pooled, <) \o SetToSortSeq(s.active, <)))

\* server_base::_stop up to its first select
StopListening(s) ==
  LET t == CloseDesc(ResetHandler(s, s.listen, "in"), s.listen)
  IN  ReleaseAll([t EXCEPT !.listen = None, !.started = FALSE])

\* what follows it: the second release is a hard one
StopHard(s) == LET t == ProcessFree(s) IN IF t.active = {} THEN t ELSE ReleaseAll(t)
=================================================================================
