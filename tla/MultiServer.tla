------------------------------- MODULE MultiServer -------------------------------
(*********************************************************************************)
(* The request queues of the multiserver (common/multiserver.hpp).  One front    *)
(* thread, the multiplexer thread of an fserver, reads requests from connection  *)
(* objects and puts them into the queue of a pool; pool threads run them and     *)
(* delete them.  A request points at its connection (client) and a connection    *)
(* keeps the set of the requests that point at it, so that clear() can unlink    *)
(* them when the object gets another peer.  Three kinds of locks are taken in    *)
(* different orders: the mutex of a connection, the spin lock of its set, and    *)
(* the spin lock of a request.                                                   *)
(*********************************************************************************)
EXTENDS Naturals, Sequences, FiniteSets

CONSTANTS
  Conn,     \* the connection objects the fserver may create, by address
  Pool,     \* the indices of queues and thread_count
  Thread,   \* the pool threads
  PoolOf,   \* the queue a pool thread serves
  Front,    \* the multiplexer thread
  None,     \* a null client, a free lock
  MaxReq,   \* bound: requests read
  MaxSess   \* bound: sessions (connections accepted)

ASSUME ConstantsAssumption ==
  /\ Conn \subseteq Nat
  /\ PoolOf \in [Thread -> Pool]
  /\ Front \notin Thread
  /\ None \notin Conn \cup Thread \cup {Front}
  /\ MaxReq \in Nat /\ MaxSess \in Nat

Req == 1 .. MaxReq
Proc == Thread \cup {Front}

\* a value for PoolOf: all threads in one pool
OnePool == [t \in Thread |-> 1]

VARIABLES
  conn,       \* _released, the session served, the holder of the mutex, by connection
  active,     \* _active of the pool of connection objects
  pooled,     \* _pooled
  freed,      \* _queue of the pool: released, to be moved to _pooled
  requests,   \* ad_invoke_first::requests, by connection
  mtx,        \* ad_invoke_first::mtx, by connection: its holder
  req,        \* json_rpc_req: client, holder of mtx, whether it is allocated, kind, session
  queue,      \* queues, by pool
  proc,       \* position and locals of each thread
  used,       \* requests allocated so far
  sessions,   \* connections accepted so far
  dead        \* a deleted request was touched: nothing is claimed afterwards

shared == <<conn, active, pooled, freed, requests, mtx, req, queue>>
vars == <<shared, proc, used, sessions, dead>>

\* what running a request comes to: an answer, or an error and the end of the connection
Kinds == {"answer", "refused"}

-----------------------------------------------------------------------------------
(* The locals of a thread: r is its request, c its connection; left, kept, round   *)
(* and cur belong to clear; next is where release or clear returns to.             *)

Idle == [pc |-> "idle", r |-> 0, c |-> None, left |-> {}, kept |-> {}, round |-> 0, cur |-> 0,
         next |-> "idle"]

Unallocated ==
  [client |-> None, mtx |-> None, live |-> FALSE, kind |-> "answer", session |-> 0]

Init ==
  /\ conn = [c \in Conn |-> [released |-> TRUE, session |-> 0, mutex |-> None]]
  /\ active = {}
  /\ pooled = {}
  /\ freed = {}
  /\ requests = [c \in Conn |-> {}]
  /\ mtx = [c \in Conn |-> None]
  /\ req = [r \in Req |-> Unallocated]
  /\ queue = [p \in Pool |-> <<>>]
  /\ proc = [p \in Proc |-> Idle]
  /\ used = 0
  /\ sessions = 0
  /\ dead = FALSE

At(p, label) == ~dead /\ proc[p].pc = label
Goto(p, label) == proc' = [proc EXCEPT ![p].pc = label]

-----------------------------------------------------------------------------------
(* ad_invoke_first::clear, called with p as the thread and proc[p].c as the       *)
(* connection: up to three rounds over the set, each under its spin lock.         *)

ClearLock(p) ==
  LET c == proc[p].c IN
  /\ At(p, "clear") /\ mtx[c] = None
  /\ mtx' = [mtx EXCEPT ![c] = p]
  /\ proc' = [proc EXCEPT ![p].pc = "try", ![p].left = requests[c],
                          ![p].round = @ + 1]
  /\ UNCHANGED <<conn, active, pooled, freed, requests, req, queue, used, sessions, dead>>

\* mutant of ClearKeep: a running request is dropped from the set too
ClearKeepNone(p) == \E r \in proc[p].left :
  /\ At(p, "try") /\ req[r].mtx # None
  /\ proc' = [proc EXCEPT ![p].left = @ \ {r}]
  /\ UNCHANGED <<shared, used, sessions, dead>>

\* mutant of ClearKeep: lock() in place of try_lock() waits for the running request
ClearWaits(p) == FALSE /\ UNCHANGED vars

\* try_lock fails: the request is being run, and stays in the set
ClearKeep(p) == \E r \in proc[p].left :
  /\ At(p, "try") /\ req[r].mtx # None
  /\ proc' = [proc EXCEPT ![p].left = @ \ {r}, ![p].kept = @ \cup {r}]
  /\ UNCHANGED <<shared, used, sessions, dead>>

\* try_lock succeeds: the request is unlinked
ClearDrop(p) == \E r \in proc[p].left :
  /\ At(p, "try") /\ req[r].mtx = None
  /\ req' = [req EXCEPT ![r].mtx = p, ![r].client = None]
  /\ proc' = [proc EXCEPT ![p].pc = "unlock", ![p].cur = r, ![p].left = @ \ {r}]
  /\ UNCHANGED <<conn, active, pooled, freed, requests, mtx, queue, used, sessions, dead>>

\* the request may be gone: a pool thread that saw the null client has deleted it
ClearUnlock(p) ==
  /\ At(p, "unlock")
  /\ dead' = ~req[proc[p].cur].live
  /\ req' = [req EXCEPT ![proc[p].cur].mtx = None]
  /\ proc' = [proc EXCEPT ![p].pc = "try", ![p].cur = 0]
  /\ UNCHANGED <<conn, active, pooled, freed, requests, mtx, queue, used, sessions>>

\* requests.swap(rnew); the third round ends with a warning
ClearRound(p) ==
  LET c == proc[p].c IN
  /\ At(p, "try") /\ proc[p].left = {}
  /\ requests' = [requests EXCEPT ![c] = proc[p].kept]
  /\ mtx' = [mtx EXCEPT ![c] = None]
  /\ \/ /\ proc[p].kept # {} /\ proc[p].round < 3
        /\ proc' = [proc EXCEPT ![p].pc = "clear", ![p].kept = {}]
     \/ /\ proc[p].kept = {} \/ proc[p].round = 3
        /\ proc' = [proc EXCEPT ![p].kept = {}, ![p].round = 0,
             ![p].pc = IF proc[p].next = "assigned" THEN "assigned" ELSE "free"]
  /\ UNCHANGED <<conn, active, pooled, freed, req, queue, used, sessions, dead>>

-----------------------------------------------------------------------------------
(* pooled_item::release of proc[p].c.  The front thread holds the mutex of the    *)
(* connection, and so does a pool thread whose sending has failed; one that       *)
(* refuses a request calls release(false) and holds no lock.                      *)

ReleaseTest(p) ==
  /\ At(p, "release")
  /\ \/ /\ conn[proc[p].c].released
        /\ Goto(p, proc[p].next)
     \/ /\ ~conn[proc[p].c].released
        /\ Goto(p, "mark")
     \/ /\ ~conn[proc[p].c].released   \* unsent data: the connection stays, releasing
        /\ p # Front
        /\ Goto(p, proc[p].next)
  /\ UNCHANGED <<shared, used, sessions, dead>>

ReleaseMark(p) ==
  /\ At(p, "mark")
  /\ conn' = [conn EXCEPT ![proc[p].c].released = TRUE]
  /\ Goto(p, "clear")
  /\ UNCHANGED <<active, pooled, freed, requests, mtx, req, queue, used, sessions, dead>>

\* pool::free
ReleaseFree(p) ==
  /\ At(p, "free")
  /\ freed' = freed \cup {proc[p].c}
  /\ Goto(p, proc[p].next)
  /\ UNCHANGED <<conn, active, pooled, requests, mtx, req, queue, used, sessions, dead>>

-----------------------------------------------------------------------------------
(* The front thread.                                                             *)

\* pool::create, after _process_free: a new object only when none is pooled
Accept(c) ==
  LET back == pooled \cup freed IN
  /\ At(Front, "idle") /\ sessions < MaxSess
  /\ freed \subseteq active
  /\ IF back = {} THEN c \notin active ELSE c \in back /\ \A o \in back : c <= o
  /\ sessions' = sessions + 1
  /\ active' = (active \ freed) \cup {c}
  /\ pooled' = back \ {c}
  /\ freed' = {}
  /\ conn[c].mutex = None
  /\ conn' = [conn EXCEPT ![c].mutex = Front]
  /\ proc' = [proc EXCEPT ![Front].pc = "release", ![Front].c = c, ![Front].next = "assign"]
  /\ UNCHANGED <<requests, mtx, req, queue, used, dead>>

\* _process_free meets an item that is not active: what it has not moved is forgotten
AcceptThrows ==
  /\ At(Front, "idle") /\ ~(freed \subseteq active)
  /\ \E moved \in SUBSET (freed \cap active) :
       active' = active \ moved /\ pooled' = pooled \cup moved
  /\ freed' = {}
  /\ UNCHANGED <<conn, requests, mtx, req, queue, proc, used, sessions, dead>>

\* mutant of Assign: the object is handed out without the clear
AssignOnly ==
  LET c == proc[Front].c IN
  /\ At(Front, "assign")
  /\ conn' = [conn EXCEPT ![c].released = FALSE]
  /\ proc' = [proc EXCEPT ![Front].pc = "assigned", ![Front].next = "assigned"]
  /\ UNCHANGED <<active, pooled, freed, requests, mtx, req, queue, used, sessions, dead>>

\* mux_filter::_assign, past its release: the object is live before it is cleared
Assign ==
  LET c == proc[Front].c IN
  /\ At(Front, "assign")
  /\ conn' = [conn EXCEPT ![c].released = FALSE]
  /\ proc' = [proc EXCEPT ![Front].pc = "clear", ![Front].next = "assigned"]
  /\ UNCHANGED <<active, pooled, freed, requests, mtx, req, queue, used, sessions, dead>>

Assigned ==
  LET c == proc[Front].c IN
  /\ At(Front, "assigned")
  /\ conn' = [conn EXCEPT ![c].mutex = None, ![c].session = sessions]
  /\ proc' = [proc EXCEPT ![Front] = Idle]
  /\ UNCHANGED <<active, pooled, freed, requests, mtx, req, queue, used, sessions, dead>>

\* ad_invoke_first::operator(): a text that does not parse is answered and released
Receive(c, kind) ==
  /\ At(Front, "idle") /\ c \in active /\ ~conn[c].released /\ conn[c].mutex = None
  /\ used < MaxReq
  /\ used' = used + 1
  /\ conn' = [conn EXCEPT ![c].mutex = Front]
  /\ req' = [req EXCEPT ![used + 1] =
       [client |-> c, mtx |-> None, live |-> TRUE, kind |-> kind, session |-> conn[c].session]]
  /\ proc' = [proc EXCEPT ![Front].pc = "insert", ![Front].r = used + 1, ![Front].c = c]
  /\ UNCHANGED <<active, pooled, freed, requests, mtx, queue, sessions, dead>>

Insert ==
  LET c == proc[Front].c IN
  /\ At(Front, "insert") /\ mtx[c] = None
  /\ requests' = [requests EXCEPT ![c] = @ \cup {proc[Front].r}]
  /\ Goto(Front, "push")
  /\ UNCHANGED <<conn, active, pooled, freed, mtx, req, queue, used, sessions, dead>>

\* get_thread_number gives the queue of the method
PushQueue(n) ==
  /\ At(Front, "push")
  /\ queue' = [queue EXCEPT ![n] = Append(@, proc[Front].r)]
  /\ conn' = [conn EXCEPT ![proc[Front].c].mutex = None]
  /\ proc' = [proc EXCEPT ![Front] = Idle]
  /\ UNCHANGED <<active, pooled, freed, requests, mtx, req, used, sessions, dead>>

\* the peer has closed, or sent what does not parse: release under the mutex
Hangup(c) ==
  /\ At(Front, "idle") /\ c \in active /\ ~conn[c].released /\ conn[c].mutex = None
  /\ conn' = [conn EXCEPT ![c].mutex = Front]
  /\ proc' = [proc EXCEPT ![Front].pc = "release", ![Front].c = c, ![Front].next = "left"]
  /\ UNCHANGED <<active, pooled, freed, requests, mtx, req, queue, used, sessions, dead>>

HungUp ==
  /\ At(Front, "left")
  /\ conn' = [conn EXCEPT ![proc[Front].c].mutex = None]
  /\ proc' = [proc EXCEPT ![Front] = Idle]
  /\ UNCHANGED <<active, pooled, freed, requests, mtx, req, queue, used, sessions, dead>>

-----------------------------------------------------------------------------------
(* A pool thread: threadproc.                                                    *)

TryPop(t) ==
  /\ At(t, "idle") /\ queue[PoolOf[t]] # <<>>
  /\ queue' = [queue EXCEPT ![PoolOf[t]] = Tail(@)]
  /\ proc' = [proc EXCEPT ![t].pc = "peek", ![t].r = Head(queue[PoolOf[t]])]
  /\ UNCHANGED <<conn, active, pooled, freed, requests, mtx, req, used, sessions, dead>>

\* the first look at client, without the lock
Peek(t) ==
  /\ At(t, "peek")
  /\ Goto(t, IF req[proc[t].r].client # None THEN "lock" ELSE "delete")
  /\ UNCHANGED <<shared, used, sessions, dead>>

Lock(t) ==
  /\ At(t, "lock") /\ req[proc[t].r].mtx = None
  /\ req' = [req EXCEPT ![proc[t].r].mtx = t]
  /\ Goto(t, "check")
  /\ UNCHANGED <<conn, active, pooled, freed, requests, mtx, queue, used, sessions, dead>>

\* the second look: the request runs, or was unlinked meanwhile
Check(t) ==
  LET r == proc[t].r IN
  /\ At(t, "check")
  /\ \/ /\ req[r].client # None
        /\ proc' = [proc EXCEPT ![t].c = req[r].client, ![t].next = "clean",
                                 ![t].pc = "write"]
        /\ UNCHANGED req
     \/ /\ req[r].client = None
        /\ req' = [req EXCEPT ![r].mtx = None]
        /\ Goto(t, "delete")
  /\ UNCHANGED <<conn, active, pooled, freed, requests, mtx, queue, used, sessions, dead>>

\* an unknown method and bad parameters are answered, then the connection released
AfterWrite(t) == IF req[proc[t].r].kind = "refused" THEN "release" ELSE "clean"

\* multiserver_mux_connection::write, under the mutex; a released one is not written and a
\* notification has nothing to write.  Whose bytes they are is not followed, so that it makes
\* no difference that the status is asked under one lock and the answer written under another.
WriteAnswer(t) ==
  /\ At(t, "write") /\ conn[proc[t].c].mutex = None
  /\ Goto(t, AfterWrite(t))
  /\ UNCHANGED <<shared, used, sessions, dead>>

\* the sending fails: mux_filter::_write releases the connection, under the mutex
WriteFails(t) ==
  LET c == proc[t].c IN
  /\ At(t, "write") /\ conn[c].mutex = None /\ ~conn[c].released
  /\ conn' = [conn EXCEPT ![c].mutex = t]
  /\ proc' = [proc EXCEPT ![t].pc = "release", ![t].next = "sent"]
  /\ UNCHANGED <<active, pooled, freed, requests, mtx, req, queue, used, sessions, dead>>

Sent(t) ==
  /\ At(t, "sent")
  /\ conn' = [conn EXCEPT ![proc[t].c].mutex = None]
  /\ proc' = [proc EXCEPT ![t].pc = AfterWrite(t), ![t].next = "clean"]
  /\ UNCHANGED <<active, pooled, freed, requests, mtx, req, queue, used, sessions, dead>>

\* mutant of DeleteRequest: the set keeps the request
DeleteRequestNot(t) ==
  LET r == proc[t].r c == req[r].client IN
  /\ At(t, "clean") /\ mtx[c] = None
  /\ proc' = [proc EXCEPT ![t].pc = "unlink", ![t].c = None, ![t].next = "idle"]
  /\ UNCHANGED <<conn, active, pooled, freed, requests, mtx, req, queue, used, sessions, dead>>

\* json_rpc_req::clean: delete_request, then client = 0 and unlock
DeleteRequest(t) ==
  LET r == proc[t].r c == req[r].client IN
  /\ At(t, "clean") /\ mtx[c] = None
  /\ requests' = [requests EXCEPT ![c] = @ \ {r}]
  /\ proc' = [proc EXCEPT ![t].pc = "unlink", ![t].c = None, ![t].next = "idle"]
  /\ UNCHANGED <<conn, active, pooled, freed, mtx, req, queue, used, sessions, dead>>

Clean(t) ==
  /\ At(t, "unlink")
  /\ req' = [req EXCEPT ![proc[t].r].client = None, ![proc[t].r].mtx = None]
  /\ Goto(t, "delete")
  /\ UNCHANGED <<conn, active, pooled, freed, requests, mtx, queue, used, sessions, dead>>

Delete(t) ==
  /\ At(t, "delete")
  /\ req' = [req EXCEPT ![proc[t].r] = Unallocated]
  /\ proc' = [proc EXCEPT ![t] = Idle]
  /\ UNCHANGED <<conn, active, pooled, freed, requests, mtx, queue, used, sessions, dead>>

-----------------------------------------------------------------------------------
Releasing(p) ==
  \/ ClearLock(p) \/ ClearKeep(p) \/ ClearDrop(p) \/ ClearUnlock(p)
  \/ ClearRound(p) \/ ReleaseTest(p) \/ ReleaseMark(p) \/ ReleaseFree(p)

FrontWork == AcceptThrows \/ Assign \/ Assigned \/ Insert \/ HungUp \/ \E n \in Pool : PushQueue(n)

Peers == \E c \in Conn :
  Accept(c) \/ Hangup(c) \/ \E kind \in Kinds : Receive(c, kind)

Work(t) ==
  \/ TryPop(t) \/ Peek(t) \/ Lock(t) \/ Check(t) \/ WriteAnswer(t) \/ WriteFails(t) \/ Sent(t)
  \/ DeleteRequest(t) \/ Clean(t) \/ Delete(t)

Next ==
  \/ \E p \in Proc : Releasing(p)
  \/ FrontWork
  \/ Peers
  \/ \E t \in Thread : Work(t)

Spec == Init /\ [][Next]_vars

\* every thread is scheduled; peers need not send or close anything
Fairness ==
  /\ WF_vars(FrontWork \/ Releasing(Front))
  /\ \A t \in Thread : WF_vars(Work(t) \/ Releasing(t))

FairSpec == Spec /\ Fairness

-----------------------------------------------------------------------------------
(* Properties.                                                                   *)

\* r has been unlinked by the clear that p is in the middle of
Passed(p, c, r) ==
  /\ proc[p].pc \in {"try", "unlock"} /\ proc[p].c = c
  /\ r \notin proc[p].left \cup proc[p].kept

\* A connection's set names only requests that are still allocated and still point at
\* that connection, apart from the ones a clear() in progress has just unlinked: so
\* clear() takes no lock in freed memory, and delete_request() finds what it looks for.
\* And a request that points at a connection is in that connection's set, unless it is
\* about to be put there or has just been taken out to be deleted: clear() misses none.
Linked == ~dead =>
  /\ \A c \in Conn : \A r \in requests[c] :
       \/ req[r].live /\ req[r].client = c
       \/ \E p \in Proc : Passed(p, c, r)
  /\ \A r \in Req : req[r].client # None =>
       \/ r \in requests[req[r].client]
       \/ proc[Front].pc = "insert" /\ proc[Front].r = r
       \/ \E t \in Thread : proc[t].pc = "unlink" /\ proc[t].r = r

\* A pool thread takes up a linked request only while the connection object still
\* serves the session that sent it: once assign() has returned, no request of an earlier
\* peer of the object is taken up, although its answer would go to the new peer.
StartsAtHome ==
  [][\A t \in Thread : LET r == proc[t].r c == req[r].client IN
       proc[t].pc = "lock" /\ proc'[t].pc = "check" /\ c # None
         => req[r].session = conn[c].session]_vars

\* Every queued request is run or dropped, and deleted: the three kinds of locks never
\* leave everyone waiting for everyone.
Finishes == \A r \in Req :
  (\E n \in Pool : \E i \in 1 .. Len(queue[n]) : queue[n][i] = r)
    ~> (~req[r].live \/ dead)
===============================================================================
