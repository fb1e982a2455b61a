--------------------------------- MODULE Network --------------------------------
(*********************************************************************************)
(* A thread of the daemon at work: a server and a client on one multiplexer, as  *)
(* in the first thread main() starts.  The thread runs select; pool threads      *)
(* write to the connections under their mutex and release them without it, and   *)
(* the peers do what they like.                                                  *)
(* A call of select is a batch of events, taken one by one: an observer called   *)
(* for one event may end the session another event of the batch is about, and    *)
(* give its descriptor to a new one.                                             *)
(*********************************************************************************)
EXTENDS NetworkOps

CONSTANTS
  Budgets,       \* bounds: peers that come, attempts to connect, bytes written to a session,
                 \* messages of the peers and calls of set_write_handler; _max_connections and
                 \* the descriptors of the process
  MaxSwh         \* bound: _swh_count

\* Values for Budgets: peers that come, one that is slow to read, a client that connects,
\* a server at the limit of its connections, and a process at the limit of its descriptors.
Budget(p, a, b, c, limit, files) ==
  [peers |-> p, attempts |-> a, bytes |-> b, calls |-> c, limit |-> limit, files |-> files]
AllBudgets ==
  {Budget(1, 0, 3, 2, 1, 4), Budget(0, 2, 3, 2, 2, 4), Budget(2, 0, 2, 0, 2, 4),
   Budget(2, 0, 1, 1, 2, 4), Budget(2, 0, 2, 1, 1, 4), Budget(1, 1, 1, 0, 2, 4),
   Budget(1, 1, 0, 1, 2, 4), Budget(2, 0, 2, 0, 2, 2), Budget(1, 1, 0, 0, 2, 2)}

VARIABLES
  s,          \* the state of NetworkOps
  batch,      \* _events of a running select, by descriptor
  cur,        \* the event select is at: its descriptor, events and flags_set
  rel,        \* the release(false) of a pool thread: its object and the statement it is at
  stage,      \* how far server_base::_stop has come
  left        \* what is left of the budget of this behaviour

vars == <<s, batch, cur, rel, stage, left>>

NoEvent == [d |-> None, events |-> {}, flags |-> {}]
NoRelease == [o |-> None, at |-> "none"]

Init ==
  \E b \in Budgets :
  LET s0 == [sock |-> [d \in Desc |-> FreeSock], ep |-> [d \in Desc |-> {}],
             h |-> [d \in Desc |-> NoHandler], error |-> "",
             k |-> [o \in Conn \cup Client |-> NewObject],
             active |-> {}, pooled |-> {}, freed |-> {}, listen |-> None, started |-> FALSE,
             limit |-> b.limit, files |-> b.files]
  IN  /\ s = Start(s0)
      /\ batch = <<>>
      /\ cur = NoEvent
      /\ rel = NoRelease
      /\ stage = "run"
      /\ left = b

-----------------------------------------------------------------------------------
(* The application.                                                                *)

\* n more bytes for the session of o; the peer expects them after what it was told before
Bytes(t, d, n) == [i \in 1 .. n |-> t.sock[d].said + i]
Accepts(t, o) == t.k[o].pending \/ (t.k[o].w /\ ~t.k[o].releasing)
Says(t, o, n) ==
  LET d == t.k[o].d IN
  Write([t EXCEPT !.sock[d].said = IF Accepts(t, o) THEN @ + n ELSE @], o,
        Bytes(t, d, n))

May(t, o, n) == t.k[o].d # None /\ t.sock[t.k[o].d].said + n <= left.bytes /\ t.k[o].swh < MaxSwh

\* what the application may do with what it reads
Ignores(t, o) == t
Answers(t, o) == IF May(t, o, 2) THEN Says(t, o, 2) ELSE t
Refuses(t, o) == Release(Answers(t, o), o)

Quiet == s.error = ""
Idle == batch = <<>> /\ cur = NoEvent

\* a pool thread writes to a connection; to the client only its own thread does, while the
\* status is true
AppWrite(o) == \E n \in 1 .. 2 :
  /\ Quiet /\ May(s, o, n)
  /\ o \in Client => Status(s, o) /\ Idle /\ stage = "run"
  /\ s' = Says(s, o, n)
  /\ UNCHANGED <<batch, cur, rel, stage, left>>

\* A pool thread refuses a request: release(false) of its object, whatever session that has by
\* now, with no mutex.  Each statement of mux_filter_base::_release and of its callers is a
\* step.  Two threads that both pass the first one end the object twice: nothing is claimed
\* afterwards (Torn).
Torn == rel.at = "torn"

ReleaseTest(o) ==
  /\ rel = NoRelease /\ ~s.k[o].released
  /\ rel' = [o |-> o, at |-> "mark"]
  /\ UNCHANGED <<s, batch, cur, stage, left>>

ReleaseMark ==
  /\ rel.at = "mark"
  /\ s' = [s EXCEPT !.k[rel.o].released = TRUE]
  /\ rel' = [rel EXCEPT !.at = IF s.k[rel.o].released THEN "torn" ELSE "read"]
  /\ UNCHANGED <<batch, cur, stage, left>>

ReleaseRead ==
  /\ rel.at = "read"
  /\ s' = ReleaseReader(s, rel.o)
  /\ rel' = [rel EXCEPT !.at = "write"]
  /\ UNCHANGED <<batch, cur, stage, left>>

\* a soft release ends here
ReleaseWrite ==
  /\ rel.at = "write"
  /\ s' = ReleaseWriter(s, rel.o)
  /\ rel' = IF s'.k[rel.o].released THEN [rel EXCEPT !.at = "close"] ELSE NoRelease
  /\ UNCHANGED <<batch, cur, stage, left>>

ReleaseClose ==
  /\ rel.at = "close"
  /\ s' = CloseConnection(BinaryRelease(s, rel.o), rel.o)
  /\ rel' = [rel EXCEPT !.at = "free"]
  /\ UNCHANGED <<batch, cur, stage, left>>

ReleaseFree ==
  /\ rel.at = "free"
  /\ s' = Free(s, rel.o)
  /\ rel' = NoRelease
  /\ UNCHANGED <<batch, cur, stage, left>>

AppClose(o) == \E hard \in BOOLEAN :
  /\ Quiet /\ Idle /\ stage = "run" /\ Status(s, o)
  /\ s' = Close(s, o, hard)
  /\ UNCHANGED <<batch, cur, rel, stage, left>>

AppSetWriteHandler(o) ==
  /\ Quiet /\ s.k[o].swh < MaxSwh /\ ~s.k[o].released /\ left.calls > 0
  /\ s' = SetWriteHandler(s, o)
  /\ left' = [left EXCEPT !.calls = @ - 1]
  /\ UNCHANGED <<batch, cur, rel, stage>>

\* the thread that runs select connects its client between two calls of it, as main() does
AppConnect(o) == \E answer \in {"up", "connecting", "refused"} :
  /\ Quiet /\ Idle /\ stage = "run" /\ left.attempts > 0
  /\ \/ s' = Connect(s, o, answer)
     \/ \E close \in BOOLEAN : s' = Reconnect(s, o, close, answer) /\ s' # s
  /\ left' = [left EXCEPT !.attempts = @ - 1]
  /\ UNCHANGED <<batch, cur, rel, stage>>

-----------------------------------------------------------------------------------
(* select.                                                                         *)

\* epoll_wait; _stop calls select(0) once between its two releases and select(-1) while objects
\* are active after the second
Ready == {d \in Desc : EventsOf(s, d) # {}}
Wait ==
  /\ Quiet /\ Idle /\ Ready # {}
  /\ stage \in {"run", "soft", "waiting"}
  /\ batch' = [d \in Ready |-> EventsOf(s, d)]
  /\ stage' = CASE stage = "soft" -> "polled" [] stage = "waiting" -> "hard" [] OTHER -> stage
  /\ UNCHANGED <<s, cur, rel, left>>

\* the next event of the batch; flags_set is read before any observer is called
Next1(d) ==
  /\ Quiet /\ cur = NoEvent /\ d \in DOMAIN batch
  /\ cur' = [d |-> d, events |-> batch[d], flags |-> s.h[d].events]
  /\ batch' = [e \in DOMAIN batch \ {d} |-> batch[e]]
  /\ UNCHANGED <<s, rel, stage, left>>

\* whoever is the observer of the descriptor now
Observer == s.h[cur.d].second

DispatchError ==
  /\ Quiet /\ cur # NoEvent /\ "err" \in cur.events
  /\ s' = ReadyError(s, Observer, cur.d)
  /\ cur' = NoEvent
  /\ batch' = IF s'.error = "" THEN batch ELSE <<>>
  /\ UNCHANGED <<rel, stage, left>>

DispatchAccept ==
  /\ Quiet /\ cur # NoEvent /\ "err" \notin cur.events /\ "in" \in cur.events \cap cur.flags
  /\ Observer = Server
  /\ s' = Accept(s)
  /\ cur' = IF s'.error = "" THEN [cur EXCEPT !.events = @ \ {"in"}] ELSE NoEvent
  /\ batch' = IF s'.error = "" THEN batch ELSE <<>>
  /\ UNCHANGED <<rel, stage, left>>

DispatchRead ==
  /\ Quiet /\ cur # NoEvent /\ "err" \notin cur.events /\ "in" \in cur.events \cap cur.flags
  /\ Observer # Server
  /\ \E o \in {Observer} :
       \/ s' = ReadyRead(s, o, cur.d, Ignores(Reads(s, o), o))
       \/ s' = ReadyRead(s, o, cur.d, Answers(Reads(s, o), o))
       \/ s' = ReadyRead(s, o, cur.d, Refuses(Reads(s, o), o))
  /\ cur' = IF s'.error = "" THEN [cur EXCEPT !.events = @ \ {"in"}] ELSE NoEvent
  /\ batch' = IF s'.error = "" THEN batch ELSE <<>>
  /\ UNCHANGED <<rel, stage, left>>

DispatchWrite ==
  /\ Quiet /\ cur # NoEvent /\ "err" \notin cur.events
  /\ "in" \notin cur.events \cap cur.flags /\ "out" \in cur.events \cap cur.flags
  /\ s' = ReadyWrite(s, Observer, cur.d)
  /\ cur' = NoEvent
  /\ batch' = IF s'.error = "" THEN batch ELSE <<>>
  /\ UNCHANGED <<rel, stage, left>>

DispatchDone ==
  /\ Quiet /\ cur # NoEvent /\ "err" \notin cur.events /\ cur.events \cap cur.flags = {}
  /\ cur' = NoEvent
  /\ UNCHANGED <<s, batch, rel, stage, left>>

\* run_select catches what select has thrown
Caught ==
  /\ ~Quiet /\ stage = "run"
  /\ s' = [s EXCEPT !.error = ""]
  /\ batch' = <<>> /\ cur' = NoEvent
  /\ UNCHANGED <<rel, stage, left>>

-----------------------------------------------------------------------------------
(* server_base::_stop, called between two calls of select; it runs select itself.  *)

StopFirst ==
  /\ Quiet /\ Idle /\ stage = "run" /\ s.started
  /\ s' = StopListening(s) /\ stage' = "soft"
  /\ UNCHANGED <<batch, cur, rel, left>>

SelectsOnce == stage = "polled" \/ (stage = "soft" /\ Ready = {})
StopSecond ==
  /\ Quiet /\ Idle /\ SelectsOnce
  /\ s' = StopHard(s) /\ stage' = "hard"
  /\ UNCHANGED <<batch, cur, rel, left>>

StopLast ==
  /\ Quiet /\ Idle /\ stage = "hard"
  /\ s' = ProcessFree(s)
  /\ stage' = IF s'.active = {} THEN "stopped" ELSE "waiting"
  /\ UNCHANGED <<batch, cur, rel, left>>

\* nothing in _stop catches what its calls of select throw
StopThrows ==
  /\ ~Quiet /\ stage \in {"soft", "polled", "hard", "waiting"}
  /\ stage' = "abandoned"
  /\ UNCHANGED <<s, batch, cur, rel, left>>

-----------------------------------------------------------------------------------
(* The peers.                                                                      *)

Arrives ==
  /\ s.started /\ left.peers > 0 /\ ~s.sock[s.listen].inbox
  /\ s' = [s EXCEPT !.sock[s.listen].inbox = TRUE]
  /\ left' = [left EXCEPT !.peers = @ - 1]
  /\ UNCHANGED <<batch, cur, rel, stage>>

PeerSends(d) ==
  /\ s.sock[d].peer = "up" /\ ~s.sock[d].inbox /\ left.calls > 0
  /\ s' = [s EXCEPT !.sock[d].inbox = TRUE]
  /\ left' = [left EXCEPT !.calls = @ - 1]
  /\ UNCHANGED <<batch, cur, rel, stage>>

PeerReads(d) ==
  /\ s.sock[d].peer = "up" /\ s.sock[d].room < Room
  /\ s' = [s EXCEPT !.sock[d].room = Room]
  /\ UNCHANGED <<batch, cur, rel, stage, left>>

PeerLeaves(d) ==
  /\ s.sock[d].peer \in {"up", "connecting"}
  /\ s' = [s EXCEPT !.sock[d].peer = "gone", !.sock[d].inbox = FALSE]
  /\ UNCHANGED <<batch, cur, rel, stage, left>>

PeerAccepts(d) ==
  /\ s.sock[d].peer = "connecting"
  /\ s' = [s EXCEPT !.sock[d].peer = "up"]
  /\ UNCHANGED <<batch, cur, rel, stage, left>>

-----------------------------------------------------------------------------------
Application == \E o \in Conn \cup Client :
  \/ AppWrite(o) \/ AppSetWriteHandler(o)
  \/ o \in Conn /\ ReleaseTest(o)
  \/ o \in Client /\ (AppConnect(o) \/ AppClose(o))

Dispatch == DispatchError \/ DispatchAccept \/ DispatchRead \/ DispatchWrite \/ DispatchDone
Select == Wait \/ (\E d \in Desc : Next1(d)) \/ Dispatch \/ Caught
Stop == StopFirst \/ StopSecond \/ StopLast \/ StopThrows
Peers == Arrives \/ \E d \in Desc : PeerSends(d) \/ PeerReads(d) \/ PeerLeaves(d) \/ PeerAccepts(d)

Releasing == ReleaseMark \/ ReleaseRead \/ ReleaseWrite \/ ReleaseClose \/ ReleaseFree

Next == ~Torn /\ (Application \/ Releasing \/ Select \/ Stop \/ Peers)

Spec == Init /\ [][Next]_vars

\* Weak fairness of the thread that runs select and, once it has begun to stop, goes on, and of
\* the pool thread that releases; peers read what they are sent.  Each of the last five actions
\* disables itself, so that fairness is that it is disabled again and again.
Fairness ==
  /\ WF_vars(~Torn /\ Wait) /\ WF_vars(~Torn /\ \E d \in Desc : Next1(d))
  /\ \A d \in Desc : WF_vars(~Torn /\ PeerReads(d))
  /\ []<>(Torn \/ cur = NoEvent)                                \* Dispatch
  /\ []<>(Torn \/ Quiet \/ stage = "abandoned")                 \* Caught, StopThrows
  /\ []<>(Torn \/ ~(Quiet /\ Idle /\ SelectsOnce))              \* StopSecond
  /\ []<>(Torn \/ ~(Quiet /\ Idle /\ stage = "hard"))           \* StopLast
  /\ []<>(Torn \/ rel = NoRelease)                              \* Releasing

FairSpec == Spec /\ Fairness

-----------------------------------------------------------------------------------
Objects == Conn \cup Client

\* What an object believes of the multiplexer is true (_mux_read, _mux_write, _swh_count against
\* _handlers and the interest list of the kernel), one that is released, by a _release that is
\* past its handlers, is registered nowhere, one that holds data to write waits for its
\* descriptor to become writable, and the exceptions of epoller, of the pool and of the client
\* that report a lost registration, an object freed twice or a read on an unfinished attempt are
\* never thrown: as long as no two threads pass the test of _released together.
Registered == ~Torn =>
  /\ \A d \in Desc : s.ep[d] = s.h[d].events /\ s.h[d].ready = (s.h[d].events # {})
  /\ \A o \in Objects :
       LET x == s.k[o]
           half == rel.o = o /\ rel.at \in {"read", "write"}
       IN
       /\ x.write = (x.swh > 0)
       /\ x.read => s.h[x.d].second = o /\ "in" \in s.h[x.d].events
       /\ x.write => s.h[x.d].second = o /\ "out" \in s.h[x.d].events
       /\ x.released /\ ~x.pending /\ ~half => ~x.read /\ ~x.write
       /\ ~x.released /\ x.buf # <<>> => x.write
  /\ s.error \notin {"epoll_ctl", "descriptor not found", "item not found",
                     "ready read for progress connect"}

\* No descriptor leaks and no object is handed out twice, although pool threads release objects
\* without the mutex, also for a session that is over: whatever is open is the listening
\* one or belongs to exactly one object, as its session or its attempt to connect; the sets of
\* a pool are disjoint, and an object with a session, or half released, is active and not queued
\* to be freed.
Owned == ~Torn =>
  /\ \A d \in Desc \ {s.listen} : s.sock[d].open =>
       Cardinality({o \in Objects :
         IF s.k[o].pending THEN s.k[o].socket = d ELSE ~s.k[o].closed /\ s.k[o].d = d}) = 1
  /\ s.active \cap s.pooled = {} /\ s.freed \subseteq s.active
  /\ \A o \in Conn :
       ~s.k[o].released \/ (rel.o = o /\ rel.at # "mark") => o \in s.active \ s.freed

\* A peer of the server receives what was written to its session, in order and nothing else,
\* however send takes it in pieces and whatever session the object or the descriptor had before.
InOrder == \A o \in Conn : ~Torn /\ ~s.k[o].closed => ~s.sock[s.k[o].d].gap

\* The thread does not spin: again and again there is no event to report (the comments on
\* _write tell of a server that went to 100%).  It does when accept finds no descriptor: the
\* peer stays in the queue of the kernel and is reported at once again.
Rests == []<>(Ready = {} \/ stage \in {"stopped", "abandoned"} \/ ~HasDesc(s) \/ Torn)

\* What a connection holds back is sent, or its session ends, unless the process runs out of
\* descriptors: what accept throws then ends the batch before its other events are taken.
Flushed == \A o \in Conn :
  s.k[o].buf # <<>> ~> s.k[o].buf = <<>> \/ stage = "abandoned" \/ ~HasDesc(s) \/ Torn

\* _stop waits in select(-1) for objects that a pool thread has freed in the meantime
Stranded == stage = "waiting" /\ Ready = {} /\ s.freed # {}

\* stop() comes to its end although sessions still hold data and pool threads release them at
\* the same time; it is given up when the client on its multiplexer throws, and it goes on
\* waiting when a pool thread has freed the last object.
StopEnds ==
  stage = "soft" ~>
    \/ stage = "stopped"
    \/ stage = "abandoned" /\ s.error = "error write buffer"
    \/ Stranded
    \/ Torn
=================================================================================
