-------------------------------- MODULE Epoller ---------------------------------
(*********************************************************************************)
(* The multiplexer of a thread (fas/mux/epoller.hpp) and the sockets of the      *)
(* kernel below it.  The operators map a state s to the state after a call; s is *)
(* a record with the fields                                                      *)
(*   sock   the kernel's sockets, by descriptor                                  *)
(*   ep     the kernel's interest list: the events epoll_ctl asked for           *)
(*   h      _handlers: by descriptor, whether it is in use, events and observer  *)
(*   error  the exception thrown last, "" when there is none                     *)
(*   files  the highest descriptor the process may open                          *)
(* and the fields of the observers, which the modules above this one add.        *)
(*********************************************************************************)
EXTENDS Integers, Sequences, FiniteSets, FiniteSetsExt

CONSTANTS
  Desc,   \* the descriptors of the process
  Room,   \* bytes the kernel takes before the peer reads
  None    \* no observer, no descriptor

ASSUME DescAssumption == Desc \subseteq Nat \ {0} /\ Room \in Nat \ {0} /\ None \notin Desc

Throw(s, what) == [s EXCEPT !.error = what]

-----------------------------------------------------------------------------------
(* The kernel.  A socket is free, or it is one end of a session: peer says what    *)
(* the other end does, inbox whether it has sent something, room how much it will  *)
(* take, said and got number the bytes written to it and received in order, gap    *)
(* says that it received a byte out of order.                                      *)

FreeSock == [open |-> FALSE, peer |-> "none", inbox |-> FALSE, room |-> 0, said |-> 0,
             got |-> 0, gap |-> FALSE]

OpenSock(peer) == [FreeSock EXCEPT !.open = TRUE, !.peer = peer, !.room = Room]

\* the lowest free descriptor, below the limit on open files
Unopened(s) == {d \in Desc : d <= s.files /\ ~s.sock[d].open}
NewDesc(s) == Min(Unopened(s))
HasDesc(s) == Unopened(s) # {}

\* closing a descriptor takes it off the interest list
CloseDesc(s, d) == [s EXCEPT !.sock[d] = FreeSock, !.ep[d] = {}]

\* write: the number of bytes taken, -1 when none fits, 0 when the peer is gone
SendResult(s, d, b) ==
  CASE s.sock[d].peer = "gone" -> 0
    [] s.sock[d].peer # "gone" /\ s.sock[d].room = 0 -> -1
    [] OTHER -> IF Len(b) < s.sock[d].room THEN Len(b) ELSE s.sock[d].room

Sent(s, d, b) ==
  LET n == SendResult(s, d, b)
      k == s.sock[d]
  IN  IF n <= 0 THEN s
      ELSE [s EXCEPT !.sock[d].room = @ - n, !.sock[d].got = @ + n,
                     !.sock[d].gap = @ \/ \E i \in 1 .. n : b[i] # k.got + i]

\* read: 1 for data, 0 when the peer is gone, -1 when there is nothing
RecvResult(s, d) ==
  CASE s.sock[d].inbox -> 1
    [] ~s.sock[d].inbox /\ s.sock[d].peer = "gone" -> 0
    [] OTHER -> -1

Received(s, d) == [s EXCEPT !.sock[d].inbox = FALSE]

\* what epoll_wait reports of a descriptor; an error is reported whatever was asked for
EventsOf(s, d) ==
  LET k == s.sock[d]
      ready == (IF k.inbox \/ k.peer = "gone" THEN {"in"} ELSE {}) \cup
               (IF k.peer \in {"up", "gone"} /\ (k.room > 0 \/ k.peer = "gone") THEN {"out"} ELSE {})
  IN  IF s.ep[d] = {} THEN {}
      ELSE (ready \cap s.ep[d]) \cup (IF k.peer = "gone" THEN {"err"} ELSE {})

\* epoll_ctl fails on a closed descriptor, on ADD of a listed one and on MOD or DEL of another
EpollCtl(s, op, d, events) ==
  IF s.sock[d].open /\ (op = "add") = (s.ep[d] = {})
    THEN [s EXCEPT !.ep[d] = IF op = "del" THEN {} ELSE events]
    ELSE Throw(s, "epoll_ctl")

-----------------------------------------------------------------------------------
(* epoller.  One observer serves all the events of a descriptor.                   *)

NoHandler == [ready |-> FALSE, events |-> {}, second |-> None]

SetHandler(s, d, o, e) ==
  LET old == s.h[d]
      new == [ready |-> TRUE, second |-> o,
              events |-> IF old.ready THEN old.events \cup {e} ELSE {e}]
      op == IF old.ready /\ old.events # {} THEN "mod" ELSE "add"
  IN  EpollCtl([s EXCEPT !.h[d] = new], op, d, new.events)

ResetHandler(s, d, e) ==
  LET left == s.h[d].events \ {e} IN
  CASE ~s.h[d].ready -> Throw(s, "descriptor not found")
    [] s.h[d].ready /\ s.h[d].events = {} -> s
    [] OTHER -> EpollCtl([s EXCEPT !.h[d].events = left, !.h[d].ready = left # {}],
                         IF left = {} THEN "del" ELSE "mod", d, left)
=================================================================================
