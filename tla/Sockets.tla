------------------------------- MODULE Sockets -------------------------------
(***************************************************************************)
(* What a nonblocking client makes of the errors of its socket             *)
(* (fas/system/inet.hpp).  A system call gives an outcome, a number or an  *)
(* errno; the wrapper turns it into a number, Closed, Again or an          *)
(* exception; the client follows.  The network connects, refuses, delivers *)
(* bytes, closes and resets as it likes, signals interrupt any call, and   *)
(* connections wait on a listening socket, where they may be aborted.      *)
(***************************************************************************)
EXTENDS Integers, Sequences

CONSTANTS MaxBytes, MaxQueue

VARIABLES net,      \* "none", "connecting", "refused", "up", "eof" or "reset"
          soerr,    \* the error kept for SO_ERROR, or ""
          inq,      \* bytes that have come in and were not read
          full,     \* the kernel's buffer for sending is full
          pc,       \* "idle", "connecting", "open" or "threw"
          rstatus,  \* desc_holder::_status of ad_recv
          wstatus,  \* desc_holder::_status of ad_send
          backlog   \* connections waiting to be accepted: "alive" or "aborted"
vars == <<net, soerr, inq, full, pc, rstatus, wstatus, backlog>>

-----------------------------------------------------------------------------
(* Outcomes and what becomes of them.                                      *)

Ok(n) == [ret |-> n, err |-> ""]
Fail(e) == [ret |-> -1, err |-> e]

Again  == -1
Closed == 0
Throws == -2
Yes == 1
No  == 0

TryAgain == {"EWOULDBLOCK", "EINTR"}
Misuse   == {"EBADF", "EFAULT", "EINVAL", "ENOMEM", "ENOTCONN", "ENOTSOCK"}

recvClosing(o) == IF o.ret >= 0 THEN o.ret ELSE IF o.err \in Misuse THEN Throws ELSE Closed

recv(o) ==
    IF o.ret >= 0 THEN o.ret
    ELSE IF o.err \in TryAgain THEN Again
    ELSE IF o.err \in Misuse THEN Throws ELSE Closed

\* send tries again by itself when it is interrupted.
send(o) ==
    IF o.ret >= 0 THEN o.ret
    ELSE IF o.err = "EWOULDBLOCK" THEN Again
    ELSE IF o.err \in Misuse THEN Throws ELSE Closed

connect(o) ==
    IF o.ret = 0 THEN Yes ELSE IF o.err = "EINPROGRESS" THEN No ELSE Throws

check_socketSending(val, o) ==
    IF val = "" THEN Yes
    ELSE IF val = "EINPROGRESS" THEN No
    ELSE IF val \in TryAgain THEN Yes ELSE Throws

check_socket(val, o) ==
    IF val = "" THEN IF o.ret >= 0 THEN Yes
                     ELSE IF o.err \in TryAgain \cup {"ENOTCONN"} THEN No ELSE Throws
    ELSE IF val = "EINPROGRESS" THEN No
    ELSE IF val \in TryAgain THEN Yes ELSE Throws

accept(o) ==
    IF o.ret >= 0 THEN o.ret
    ELSE IF o.err \in TryAgain \cup {"ECONNABORTED"} THEN Again ELSE Throws

-----------------------------------------------------------------------------
(* The kernel's side: which outcomes a call can have now.                  *)

RecvOutcomes ==
    {Fail("EINTR")} \cup
    CASE net \in {"none", "refused"} -> {Fail("ENOTCONN")}
      [] net = "connecting" -> {Fail("ENOTCONN"), Fail("EWOULDBLOCK")}
      [] net = "reset" -> IF soerr # "" THEN {Fail(soerr)} ELSE {Ok(0)}
      [] net = "eof" -> IF inq = 0 THEN {Ok(0)} ELSE {Ok(n) : n \in 1 .. inq}
      [] net = "up"  -> IF inq = 0 THEN {Fail("EWOULDBLOCK")} ELSE {Ok(n) : n \in 1 .. inq}

SendOutcomes ==
    CASE net = "none" -> {Fail("ENOTCONN")}
      [] net = "refused" -> {Fail("EPIPE"), Fail("ENOTCONN")}
      [] net = "connecting" -> {Fail("EWOULDBLOCK"), Fail("ENOTCONN"), Fail("EINTR")}
      [] net = "reset" -> IF soerr # "" THEN {Fail(soerr)} ELSE {Fail("EPIPE")}
      [] net \in {"up", "eof"} -> {IF full THEN Fail("EWOULDBLOCK") ELSE Ok(1)}

\* An error kept for the socket is given once.
TakeError(o) == soerr' = IF o.err = soerr THEN "" ELSE soerr

Init ==
    /\ net = "none" /\ soerr = "" /\ inq = 0 /\ full = FALSE
    /\ pc = "idle" /\ rstatus = FALSE /\ wstatus = FALSE
    /\ backlog = <<>>

-----------------------------------------------------------------------------
(* The client.                                                             *)

Assign == pc' = "open" /\ rstatus' = TRUE /\ wstatus' = TRUE

\* At once on the same host; an error closes the socket again.
Connect ==
    /\ pc = "idle" /\ net = "none"
    /\ \E o \in {Ok(0), Fail("EINPROGRESS"), Fail("ECONNREFUSED"), Fail("EINTR")} :
          \/ connect(o) = Yes /\ net' = "up" /\ Assign
          \/ connect(o) = No /\ net' = "connecting" /\ pc' = "connecting" /\ UNCHANGED <<rstatus, wstatus>>
          \/ connect(o) = Throws /\ UNCHANGED <<net, pc, rstatus, wstatus>>
    /\ UNCHANGED <<soerr, inq, full, backlog>>

\* The socket became writable, or the client looks by itself.  SO_ERROR is
\* read, which clears it.
ConnectReady ==
    /\ pc = "connecting"
    /\ \E o \in IF net \in {"up", "eof"} THEN {Ok(0)} ELSE SendOutcomes :
          LET answer == check_socket(soerr, o)
          IN  /\ \/ answer = Yes /\ Assign
                 \/ answer = No /\ UNCHANGED <<pc, rstatus, wstatus>>
                 \/ answer = Throws /\ pc' = "idle" /\ UNCHANGED <<rstatus, wstatus>>
              /\ soerr' = ""
              /\ net' = IF answer = Throws THEN "none" ELSE net
              /\ inq' = IF answer = Throws THEN 0 ELSE inq
    /\ UNCHANGED <<full, backlog>>

ad_recv ==
    /\ pc = "open" /\ rstatus
    /\ \E o \in RecvOutcomes :
          LET rt == recv(o)
          IN  /\ rstatus' = (rt # Closed)
              /\ pc' = IF rt = Throws THEN "threw" ELSE pc
              /\ inq' = IF rt > 0 THEN inq - rt ELSE inq
              /\ TakeError(o)
    /\ UNCHANGED <<net, full, wstatus, backlog>>

ad_send ==
    /\ pc = "open" /\ wstatus
    /\ \E o \in SendOutcomes :
          LET rt == send(o)
          IN  /\ wstatus' = (rt # Closed)
              /\ pc' = IF rt = Throws THEN "threw" ELSE pc
              /\ full' = (full \/ rt > 0)
              /\ TakeError(o)
    /\ UNCHANGED <<net, inq, rstatus, backlog>>

\* What the client does once a status is down: shutdown, whose error does
\* not matter, and close.
Close ==
    /\ pc = "open" /\ ~(rstatus /\ wstatus)
    /\ pc' = "idle" /\ net' = "none" /\ soerr' = "" /\ inq' = 0
    /\ full' = FALSE /\ rstatus' = FALSE /\ wstatus' = FALSE
    /\ UNCHANGED backlog

\* server::_accept, when the listening socket is readable.
Accept ==
    /\ backlog # <<>> /\ pc # "threw"
    /\ \E o \in {Fail("EINTR"), IF Head(backlog) = "alive" THEN Ok(1) ELSE Fail("ECONNABORTED")} :
          /\ backlog' = IF o.err = "EINTR" THEN backlog ELSE Tail(backlog)
          /\ pc' = IF accept(o) = Throws THEN "threw" ELSE pc
    /\ UNCHANGED <<net, soerr, inq, full, rstatus, wstatus>>

-----------------------------------------------------------------------------
(* The network.                                                            *)

Network ==
    /\ \/ net = "connecting" /\ net' = "up" /\ UNCHANGED <<soerr, inq, full>>
       \/ net = "connecting" /\ net' = "refused" /\ soerr' = "ECONNREFUSED" /\ UNCHANGED <<inq, full>>
       \/ net = "up" /\ inq < MaxBytes /\ inq' = inq + 1 /\ UNCHANGED <<net, soerr, full>>
       \/ net = "up" /\ net' = "eof" /\ UNCHANGED <<soerr, inq, full>>
       \/ net \in {"up", "eof"} /\ net' = "reset" /\ soerr' = "ECONNRESET" /\ inq' = 0 /\ UNCHANGED full
       \/ full /\ full' = FALSE /\ UNCHANGED <<net, soerr, inq>>
    /\ UNCHANGED <<pc, rstatus, wstatus, backlog>>

Waiting ==
    /\ \/ Len(backlog) < MaxQueue /\ backlog' = Append(backlog, "alive")
       \/ \E i \in DOMAIN backlog : backlog[i] = "alive" /\ backlog' = [backlog EXCEPT ![i] = "aborted"]
    /\ UNCHANGED <<net, soerr, inq, full, pc, rstatus, wstatus>>

Next == Connect \/ ConnectReady \/ ad_recv \/ ad_send \/ Close \/ Accept \/ Network \/ Waiting

-----------------------------------------------------------------------------
(* check_socket says yes of a connection only when there is one, whatever  *)
(* was refused or reset meanwhile and although SO_ERROR is cleared by being *)
(* read: otherwise the handlers would meet the exceptions recv and send    *)
(* keep for sockets that are not connected.  Neither does an aborted       *)
(* connection throw out of the server's accept.                            *)
NoErrorThrows == pc # "threw"

(* A client gives a connection up only when the other side has closed or   *)
(* reset it, and after a regular close only when all that came was read:   *)
(* interrupts and full or empty buffers are never taken for a close.       *)
ClosedMeansClosed ==
    pc = "open" =>
        /\ ~rstatus => net = "reset" \/ (net = "eof" /\ inq = 0)
        /\ ~wstatus => net = "reset"
=============================================================================
