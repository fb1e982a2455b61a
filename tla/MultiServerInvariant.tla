--------------------------- MODULE MultiServerInvariant ---------------------------
(*********************************************************************************)
(* The inductive invariant of MultiServer, what a step may change without         *)
(* disturbing it, and that clear(), release() and the front thread keep it.       *)
(*********************************************************************************)
EXTENDS MultiServer, TLAPS

\* the labels of release() and of clear() in it
Release == {"release", "mark", "clear", "try", "unlock", "free"}
\* where a pool thread holds the lock of its request
Holding == Release \cup {"check", "write", "sent", "clean", "unlink"}

ThreadLabel == Holding \cup {"idle", "peek", "lock", "delete"}
FrontLabel == Release \cup {"idle", "assign", "assigned", "insert", "push", "left"}

Label == ThreadLabel \cup FrontLabel

ConnType == conn \in [Conn -> [released: BOOLEAN, session: Nat, mutex: Proc \cup {None}]]
SetsType ==
  /\ active \subseteq Conn /\ pooled \subseteq Conn /\ freed \subseteq Conn
  /\ requests \in [Conn -> SUBSET Req]
  /\ mtx \in [Conn -> Proc \cup {None}]
ReqType ==
  req \in [Req -> [client: Conn \cup {None}, mtx: Proc \cup {None}, live: BOOLEAN,
                   kind: Kinds, session: Nat]]
QueueType == queue \in [Pool -> Seq(Req)]
Locals ==
  [pc: Label, r: Req \cup {0}, c: Conn \cup {None}, left: SUBSET Req, kept: SUBSET Req,
   round: Nat, cur: Req \cup {0}, next: Label]
ProcType == proc \in [Proc -> Locals]
CountType == used \in 0 .. MaxReq /\ sessions \in Nat /\ dead \in BOOLEAN

TypeOK == ConnType /\ SetsType /\ ReqType /\ QueueType /\ ProcType /\ CountType

\* Where a thread can be, where release returns to, and which connection it has.
Places ==
  /\ \A t \in Thread :
       /\ proc[t].pc \in ThreadLabel
       /\ proc[t].pc \in Release \cup {"write", "sent"} =>
            proc[t].next \in {"clean", "sent"} /\ proc[t].c \in Conn
  /\ proc[Front].pc \in FrontLabel
  /\ proc[Front].pc \in Release => proc[Front].next \in {"assign", "left", "assigned"}
  /\ proc[Front].next = "assigned" => proc[Front].pc \in {"clear", "try", "unlock", "assigned"}
  /\ proc[Front].pc # "idle" => proc[Front].c \in Conn

\* A request is in one queue at one place, or with one pool thread, or still with the
\* front thread; while it is, it is allocated.
Queued(r) == \E n \in Pool : \E i \in 1 .. Len(queue[n]) : queue[n][i] = r
Reading == proc[Front].pc \in {"insert", "push"}
Tokens ==
  /\ \A n \in Pool : \A i \in 1 .. Len(queue[n]) : queue[n][i] \in 1 .. used /\ req[queue[n][i]].live
  /\ \A n, m \in Pool : \A i \in 1 .. Len(queue[n]), j \in 1 .. Len(queue[m]) :
       queue[n][i] = queue[m][j] => n = m /\ i = j
  /\ \A t \in Thread : proc[t].pc # "idle" =>
       /\ proc[t].r \in 1 .. used /\ req[proc[t].r].live
       /\ ~Queued(proc[t].r)
       /\ \A u \in Thread : u # t /\ proc[u].pc # "idle" => proc[u].r # proc[t].r
  /\ Reading =>
       /\ proc[Front].r \in 1 .. used /\ req[proc[Front].r].live
       /\ ~Queued(proc[Front].r)
       /\ \A t \in Thread : proc[t].pc # "idle" => proc[t].r # proc[Front].r

\* A pool thread runs r, under r's lock.
Running(r) == \E t \in Thread : proc[t].pc \in Holding /\ proc[t].r = r

Clearing(p) == proc[p].pc \in {"try", "unlock"}

\* What a thread in clear() knows of the set it has locked.
ClearOf(p) ==
  /\ Clearing(p) =>
       /\ mtx[proc[p].c] = p
       /\ proc[p].left \cup proc[p].kept \subseteq requests[proc[p].c]
       /\ proc[p].left \cap proc[p].kept = {}
       /\ \A r \in requests[proc[p].c] \ (proc[p].left \cup proc[p].kept) : req[r].client = None
       /\ \A r \in proc[p].kept : Running(r)
  /\ ~Clearing(p) => proc[p].kept = {}
  /\ proc[p].pc = "unlock" =>
       /\ proc[p].cur \in 1 .. used /\ req[proc[p].cur].client = None
       /\ req[proc[p].cur].live => req[proc[p].cur].mtx = p
Clears == \A p \in Proc : ClearOf(p)

\* Who holds the lock of a request, and what that says of its client.
Locked ==
  /\ \A t \in Thread : proc[t].pc \in Holding => req[proc[t].r].mtx = t
  /\ \A t \in Thread : proc[t].pc \in Holding \ {"check"} => req[proc[t].r].client # None
  /\ \A r \in Req : req[r].mtx # None =>
       Running(r) \/ \E p \in Proc : proc[p].pc = "unlock" /\ proc[p].cur = r

\* Which requests the sets name.
Sets ==
  /\ \A c, d \in Conn : c # d => requests[c] \cap requests[d] = {}
  /\ \A c \in Conn : requests[c] \subseteq 1 .. used
  /\ \A r \in Req : r > used => req[r].client = None /\ req[r].mtx = None /\ ~req[r].live
  /\ \A r \in Req : req[r].client # None => req[r].live
  /\ \A t \in Thread : proc[t].pc = "delete" => req[proc[t].r].client = None
  /\ \A t \in Thread : proc[t].pc = "unlink" => \A c \in Conn : proc[t].r \notin requests[c]
  /\ proc[Front].pc = "insert" =>
       /\ req[proc[Front].r].client = proc[Front].c
       /\ \A c \in Conn : proc[Front].r \notin requests[c]

\* A request of an earlier peer of its connection is already running; when the clear of
\* assign() is over, so is every request of the connection.
Home ==
  /\ \A r \in Req : req[r].client # None /\ req[r].session # conn[req[r].client].session => Running(r)
  /\ proc[Front].pc = "assigned" => \A r \in Req : req[r].client = proc[Front].c => Running(r)

Good == Places /\ Tokens /\ Clears /\ Locked /\ Sets /\ Linked /\ Home

IInv == TypeOK /\ (~dead => Good)

\* A step of p leaves the locals of the other threads alone.
Only(p) == \A q \in Proc : q # p => proc'[q] = proc[q]

-----------------------------------------------------------------------------------
(* What a step may change without disturbing a part of the invariant.            *)

\* An idle thread holds no lock.
LEMMA Busy == "idle" \notin Holding
  BY DEF Holding, Release

\* The requests that are queued, run or being read are requests.
LEMMA Own ==
  ASSUME TypeOK, Tokens
  PROVE  /\ 1 .. used \subseteq Req
         /\ \A t \in Thread : proc[t].pc # "idle" => proc[t].r \in Req
         /\ Reading => proc[Front].r \in Req
<1>1. 1 .. used \subseteq Req
  BY ConstantsAssumption DEF TypeOK, CountType, Req
<1>2. QED
  BY <1>1, Zenon DEF Tokens

\* The labels, for the type of proc.
LEMMA Labels ==
  /\ "release" \in Label /\ "mark" \in Label /\ "clear" \in Label /\ "try" \in Label
  /\ "unlock" \in Label /\ "free" \in Label /\ "idle" \in Label /\ "peek" \in Label
  /\ "lock" \in Label /\ "check" \in Label /\ "write" \in Label /\ "clean" \in Label
  /\ "unlink" \in Label /\ "delete" \in Label /\ "assign" \in Label /\ "assigned" \in Label
  /\ "insert" \in Label /\ "push" \in Label /\ "left" \in Label /\ "sent" \in Label
  BY Zenon DEF Label, ThreadLabel, FrontLabel, Holding, Release

\* A step that moves no request from one holder to another, and frees none.
LEMMA TokensFrame ==
  ASSUME TypeOK, Tokens, UNCHANGED <<queue, used>>,
         \A r \in Req : req[r].live => req'[r].live,
         \A t \in Thread : proc'[t].pc # "idle" => proc[t].pc # "idle" /\ proc'[t].r = proc[t].r,
         Reading' => Reading /\ proc'[Front].r = proc[Front].r
  PROVE  Tokens'
  BY Own DEF Tokens, Queued

\* A step that adds no request to a set, allocates none, and starts no delete.
LEMMA SetsFrame ==
  ASSUME TypeOK, Tokens, Sets, UNCHANGED used,
         \A c \in Conn : requests'[c] \subseteq requests[c],
         \A r \in Req : req'[r].client \in {req[r].client, None},
         \A r \in Req : req'[r].client # None => req'[r].live = req[r].live,
         \A r \in Req : r > used => req'[r] = req[r],
         \A t \in Thread : proc'[t].pc \in {"delete", "unlink"} =>
            proc'[t].pc = proc[t].pc /\ proc'[t].r = proc[t].r,
         proc'[Front].pc = "insert" =>
            /\ proc[Front].pc = "insert"
            /\ proc'[Front].r = proc[Front].r /\ proc'[Front].c = proc[Front].c
            /\ req'[proc[Front].r].client = req[proc[Front].r].client
  PROVE  Sets'
<1>1. \A t \in Thread : proc'[t].pc \in {"delete", "unlink"} => proc[t].r \in Req
  BY Own, Zenon
<1>2. proc'[Front].pc = "insert" => proc[Front].r \in Req
  BY Own, Zenon DEF Reading
<1>3. QED
  BY <1>1, <1>2 DEF Sets

\* A thread's new locals.
LEMMA ProcStep ==
  ASSUME TypeOK, NEW p \in Proc, NEW v \in Locals, proc' = [proc EXCEPT ![p] = v]
  PROVE  ProcType' /\ Only(p) /\ proc'[p] = v
  BY Zenon DEF TypeOK, ProcType, Only

\* A jump keeps the type of the locals.
LEMMA Jump ==
  ASSUME TypeOK, NEW p \in Proc, NEW l \in Label, Goto(p, l)
  PROVE  ProcType'
<1>1. proc[p] \in Locals /\ proc \in [Proc -> Locals]
  BY DEF TypeOK, ProcType
<1>2. [proc[p] EXCEPT !.pc = l] \in Locals
  BY <1>1 DEF Locals
<1>3. proc' = [proc EXCEPT ![p] = [proc[p] EXCEPT !.pc = l]]
  BY <1>1 DEF Goto
<1>4. QED
  BY <1>1, <1>2, <1>3 DEF ProcType

\* A step that ends the run of no request.
LEMMA RunningFrame ==
  ASSUME \A t \in Thread : proc[t].pc \in Holding => proc'[t].pc \in Holding /\ proc'[t].r = proc[t].r
  PROVE  \A r : Running(r) => Running(r)'
  BY Zenon DEF Running

\* The locals of clear() that the invariant speaks of.
Same(q) ==
  /\ Clearing(q)' = Clearing(q) /\ proc'[q].kept = proc[q].kept
  /\ Clearing(q) =>
       /\ proc'[q].pc = proc[q].pc /\ proc'[q].c = proc[q].c
       /\ proc'[q].left = proc[q].left /\ proc'[q].cur = proc[q].cur

\* A step of others leaves what a thread in clear() knows, as long as it keeps away from
\* the locked set and from the lock of the request in hand.
LEMMA ClearFrame ==
  ASSUME TypeOK, Sets, NEW q \in Proc, ClearOf(q), Same(q), used' >= used, used' \in Nat,
         Clearing(q) => /\ proc[q].c \in Conn
                        /\ requests'[proc[q].c] = requests[proc[q].c]
                        /\ mtx'[proc[q].c] = mtx[proc[q].c],
         \A r \in 1 .. used : req'[r].client \in {req[r].client, None},
         \A r \in 1 .. used : req'[r].live => req[r].live,
         proc[q].pc = "unlock" =>
            LET r == proc[q].cur IN req'[r].live /\ req[r].mtx = q => req'[r].mtx = q,
         \A r \in proc[q].kept : Running(r) => Running(r)'
  PROVE  ClearOf(q)'
<1>1. used \in Nat
  BY ConstantsAssumption DEF TypeOK, CountType
<1>2. Clearing(q) => requests[proc[q].c] \subseteq 1 .. used
  BY Zenon DEF Sets
<1>3. CASE ~Clearing(q)
  BY <1>3, Zenon DEF ClearOf, Same, Clearing
<1>4. CASE Clearing(q)
  <2>1. /\ proc'[q].pc = proc[q].pc /\ proc'[q].c = proc[q].c /\ proc'[q].left = proc[q].left
        /\ proc'[q].cur = proc[q].cur /\ proc'[q].kept = proc[q].kept
    BY <1>4, Zenon DEF Same
  <2>2. \A r \in requests[proc[q].c] \ (proc[q].left \cup proc[q].kept) : req'[r].client = None
    BY <1>2, <1>4, Zenon DEF ClearOf
  <2>3. proc[q].pc = "unlock" =>
       /\ proc[q].cur \in 1 .. used' /\ req'[proc[q].cur].client = None
       /\ req'[proc[q].cur].live => req'[proc[q].cur].mtx = q
    BY <1>1, <1>4 DEF ClearOf
  <2>4. QED
    BY <1>4, <2>1, <2>2, <2>3 DEF ClearOf, Clearing
<1>5. QED
  BY <1>3, <1>4, Zenon

\* The labels between which nothing changes that the invariant speaks of.
Calm(p) == {"release", "mark", "clear", "free"}
             \cup IF p = Front THEN {"idle", "assign", "left"} ELSE {"write", "sent", "clean"}

\* A step between two such labels keeps the invariant.
LEMMA Quiet ==
  ASSUME TypeOK, ~dead, Good, NEW p \in Proc, Only(p), Places',
         UNCHANGED <<requests, mtx, req, queue, used, dead>>,
         \A c \in Conn : conn'[c].session = conn[c].session,
         proc[p].pc \in Calm(p), proc'[p].pc \in Calm(p), proc'[p].kept = proc[p].kept,
         p # Front => proc'[p].r = proc[p].r
  PROVE  Good'
<1> USE ConstantsAssumption
<1>1. Places /\ Tokens /\ Clears /\ Locked /\ Sets /\ Linked /\ Home
  BY Zenon DEF Good
<1>2. Tokens'
  BY <1>1, TokensFrame, Zenon DEF Only, Proc, Calm, Reading
<1>3. Sets'
  BY <1>1, SetsFrame, Zenon DEF Only, Proc, Calm
<1>4. \A r : Running(r) => Running(r)'
  BY <1>1, RunningFrame, Zenon DEF Only, Proc, Calm, Holding, Release
<1>5. Clears'
  <2> SUFFICES ASSUME NEW q \in Proc PROVE ClearOf(q)'
    BY Zenon DEF Clears
  <2>1. Same(q)
    BY DEF Only, Same, Calm, Clearing
  <2>2. used \in Nat
    BY DEF TypeOK, CountType
  <2>3. Clearing(q) => proc[q].c \in Conn
    BY <1>1, Zenon DEF Places, Proc, Clearing, Release
  <2>4. ClearOf(q)
    BY <1>1, Zenon DEF Clears
  <2>5. QED
    BY <1>1, <1>4, <2>1, <2>2, <2>3, <2>4, ClearFrame
<1>6. Locked'
  BY <1>1, <1>4 DEF Locked, Only, Proc, Calm, Holding, Release
<1>7. Linked'
  BY <1>1 DEF Linked, Passed, Only, Proc, Calm
<1>8. Home'
  <2>1. \A r \in Req : req[r].client # None => req[r].client \in Conn
    BY Zenon DEF TypeOK, ReqType
  <2>2. QED
    BY <1>1, <1>4, <2>1, Zenon DEF Home, Only, Proc, Calm
<1>9. QED
  BY <1>2, <1>3, <1>5, <1>6, <1>7, <1>8, Zenon DEF Good

-----------------------------------------------------------------------------------
(* release(), and the steps of the front thread that come before and after it.   *)

\* release() looks at _released.
LEMMA LReleaseTest ==
  ASSUME TypeOK, ~dead, Good, NEW p \in Proc, ReleaseTest(p)
  PROVE  TypeOK' /\ Good'
<1> USE ConstantsAssumption
<1>1. Places
  BY Zenon DEF Good
<1>2. PICK l \in {"mark", proc[p].next} : Goto(p, l)
  BY Zenon DEF ReleaseTest
<1>3. proc[p].pc = "release" /\ l \in Label /\ UNCHANGED <<shared, used, sessions, dead>>
  BY Labels DEF ReleaseTest, At, TypeOK, ProcType, Locals, Release
<1>4. l \in Calm(p)
  BY <1>1, <1>3, <1>2, Zenon DEF Places, Calm, Release, Proc
<1>5. TypeOK'
  <2>1. ProcType'
    BY <1>2, <1>3 DEF Goto, TypeOK, ProcType, Locals
  <2>2. QED
    BY <1>3, <2>1, Zenon DEF TypeOK, ConnType, SetsType, ReqType, QueueType, CountType, shared
<1>6. /\ Only(p) /\ proc'[p].pc = l /\ proc'[p].kept = proc[p].kept /\ proc'[p].r = proc[p].r
      /\ proc'[p].c = proc[p].c /\ proc'[p].next = proc[p].next
  BY <1>2, Zenon DEF Goto, TypeOK, ProcType, Locals, Only
<1>7. Places'
  BY <1>1, <1>3, <1>4, <1>6 DEF Places, Only, Proc, Calm, Release, ThreadLabel, FrontLabel, Holding
<1>8. QED
  BY <1>3, <1>4, <1>5, <1>6, <1>7, Quiet, Zenon DEF Calm, shared

\* release() sets _released.
LEMMA LReleaseMark ==
  ASSUME TypeOK, ~dead, Good, NEW p \in Proc, ReleaseMark(p)
  PROVE  TypeOK' /\ Good'
<1> USE ConstantsAssumption
<1>1. Places
  BY DEF Good
<1>2. proc[p].pc = "mark" /\ proc[p].c \in Conn
  BY <1>1, Zenon DEF ReleaseMark, At, Places, Proc, Release
<1>3. TypeOK'
  <2>1. ProcType'
    BY Labels DEF ReleaseMark, Goto, TypeOK, ProcType, Locals, Release
  <2>2. ConnType'
    BY <1>2, Zenon DEF ReleaseMark, TypeOK, ConnType
  <2>3. QED
    BY <2>1, <2>2, Zenon DEF ReleaseMark, TypeOK, SetsType, ReqType, QueueType, CountType
<1>4. /\ Only(p) /\ proc'[p].pc = "clear" /\ proc'[p].kept = proc[p].kept /\ proc'[p].r = proc[p].r
      /\ proc'[p].c = proc[p].c /\ proc'[p].next = proc[p].next
  BY Zenon DEF ReleaseMark, Goto, TypeOK, ProcType, Locals, Only
<1>5. Places'
  BY <1>1, <1>2, <1>4 DEF Places, Only, Proc, Release, ThreadLabel, FrontLabel, Holding
<1>6. \A c \in Conn : conn'[c].session = conn[c].session
  BY <1>2, Zenon DEF ReleaseMark, TypeOK, ConnType
<1>7. QED
  BY <1>2, <1>3, <1>4, <1>5, <1>6, Quiet, Zenon DEF Calm, ReleaseMark

\* release() hands the object back to the pool.
LEMMA LReleaseFree ==
  ASSUME TypeOK, ~dead, Good, NEW p \in Proc, ReleaseFree(p)
  PROVE  TypeOK' /\ Good'
<1> USE ConstantsAssumption
<1>1. Places
  BY DEF Good
<1>2. proc[p].pc = "free" /\ proc[p].c \in Conn /\ proc[p].next \in Calm(p) \cup {"assigned"}
  BY <1>1, Zenon DEF ReleaseFree, At, Places, Proc, Release, Calm
<1>3. TypeOK'
  <2>1. ProcType'
    <3>1. proc[p].next \in Label /\ Goto(p, proc[p].next)
      BY DEF ReleaseFree, TypeOK, ProcType, Locals
    <3>2. QED
      BY <3>1, Jump
  <2>2. QED
    BY <1>2, <2>1, Zenon DEF ReleaseFree, TypeOK, ConnType, SetsType, ReqType, QueueType, CountType
<1>4. /\ Only(p) /\ proc'[p].pc = proc[p].next /\ proc'[p].kept = proc[p].kept /\ proc'[p].r = proc[p].r
      /\ proc'[p].c = proc[p].c /\ proc'[p].next = proc[p].next
  BY Zenon DEF ReleaseFree, Goto, TypeOK, ProcType, Locals, Only
<1>5. proc[p].next \in Calm(p)
  BY <1>1, <1>2, Zenon DEF Places, Calm, Proc, Release
<1>6. Places'
  BY <1>1, <1>2, <1>4, <1>5 DEF Places, Only, Proc, Calm, Release, ThreadLabel, FrontLabel, Holding
<1>7. QED
  BY <1>2, <1>3, <1>4, <1>5, <1>6, Quiet, Zenon DEF Calm, ReleaseFree

\* A peer is accepted: an object is created or taken out of the pool.
LEMMA LAccept ==
  ASSUME TypeOK, ~dead, Good, NEW c \in Conn, Accept(c)
  PROVE  TypeOK' /\ Good'
<1> USE ConstantsAssumption
<1>1. Places /\ Front \in Proc
  BY Zenon DEF Good, Proc
<1>2. proc[Front].pc = "idle"
  BY Zenon DEF Accept, At
<1>3. TypeOK'
  <2>1. ProcType'
    <3>1. proc' = [proc EXCEPT ![Front] = [@ EXCEPT !.pc = "release", !.c = c, !.next = "assign"]]
      BY Zenon DEF Accept, TypeOK, ProcType
    <3>2. [proc[Front] EXCEPT !.pc = "release", !.c = c, !.next = "assign"] \in Locals
      BY <1>1, Labels, Zenon DEF TypeOK, ProcType, Locals
    <3>3. QED
      BY <3>1, <3>2, Zenon DEF TypeOK, ProcType
  <2>2. ConnType'
    BY <1>1 DEF Accept, TypeOK, ConnType
  <2>3. SetsType' /\ CountType'
    BY DEF Accept, TypeOK, SetsType, CountType
  <2>4. QED
    BY <2>1, <2>2, <2>3, Zenon DEF Accept, TypeOK, ReqType, QueueType
<1>4. /\ Only(Front) /\ proc'[Front].pc = "release" /\ proc'[Front].kept = proc[Front].kept
      /\ proc'[Front].c = c /\ proc'[Front].next = "assign"
  BY <1>1 DEF Accept, TypeOK, ProcType, Locals, Only
<1>5. Places'
  BY <1>1, <1>4, Zenon DEF Places, Only, Proc, Release, FrontLabel
<1>6. \A d \in Conn : conn'[d].session = conn[d].session
  BY Zenon DEF Accept, TypeOK, ConnType
<1>7. QED
  BY <1>1, <1>2, <1>3, <1>4, <1>5, <1>6, Quiet, Zenon DEF Calm, Accept

\* A peer closes.
LEMMA LHangup ==
  ASSUME TypeOK, ~dead, Good, NEW c \in Conn, Hangup(c)
  PROVE  TypeOK' /\ Good'
<1> USE ConstantsAssumption
<1>1. Places /\ Front \in Proc
  BY DEF Good, Proc
<1>2. proc[Front].pc = "idle"
  BY Zenon DEF Hangup, At
<1>3. TypeOK'
  <2>1. ProcType'
    <3>1. proc' = [proc EXCEPT ![Front] = [@ EXCEPT !.pc = "release", !.c = c, !.next = "left"]]
      BY Zenon DEF Hangup, TypeOK, ProcType
    <3>2. [proc[Front] EXCEPT !.pc = "release", !.c = c, !.next = "left"] \in Locals
      BY <1>1, Labels, Zenon DEF TypeOK, ProcType, Locals
    <3>3. QED
      BY <3>1, <3>2, Zenon DEF TypeOK, ProcType
  <2>2. ConnType'
    BY <1>1, Zenon DEF Hangup, TypeOK, ConnType
  <2>3. QED
    BY <2>1, <2>2, Zenon DEF Hangup, TypeOK, SetsType, ReqType, QueueType, CountType
<1>4. /\ Only(Front) /\ proc'[Front].pc = "release" /\ proc'[Front].kept = proc[Front].kept
      /\ proc'[Front].c = c /\ proc'[Front].next = "left"
  BY <1>1 DEF Hangup, TypeOK, ProcType, Locals, Only
<1>5. Places'
  BY <1>1, <1>4, Zenon DEF Places, Only, Proc, Release, FrontLabel
<1>6. \A d \in Conn : conn'[d].session = conn[d].session
  BY Zenon DEF Hangup, TypeOK, ConnType
<1>7. QED
  BY <1>1, <1>2, <1>3, <1>4, <1>5, <1>6, Quiet, Zenon DEF Calm, Hangup

\* The release of a closed connection is over.
LEMMA LHungUp ==
  ASSUME TypeOK, ~dead, Good, HungUp
  PROVE  TypeOK' /\ Good'
<1> USE ConstantsAssumption
<1>1. Places /\ Clears /\ Front \in Proc
  BY Zenon DEF Good, Proc
<1>2. proc[Front].pc = "left" /\ proc[Front].c \in Conn /\ proc[Front].kept = {}
  BY <1>1, Zenon DEF HungUp, At, Places, Clears, ClearOf, Clearing
<1>3. TypeOK'
  <2>1. ProcType'
    BY <1>1, Labels, Zenon DEF HungUp, TypeOK, ProcType, Locals, Idle
  <2>2. ConnType'
    BY <1>2, Zenon DEF HungUp, TypeOK, ConnType
  <2>3. QED
    BY <2>1, <2>2, Zenon DEF HungUp, TypeOK, SetsType, ReqType, QueueType, CountType
<1>4. /\ Only(Front) /\ proc'[Front].pc = "idle" /\ proc'[Front].kept = {}
      /\ proc'[Front].next = "idle"
  BY <1>1, Zenon DEF HungUp, TypeOK, ProcType, Locals, Only, Idle
<1>5. Places'
  BY <1>1, <1>4, Zenon DEF Places, Only, Proc, Release, FrontLabel
<1>6. \A d \in Conn : conn'[d].session = conn[d].session
  BY <1>2, Zenon DEF HungUp, TypeOK, ConnType
<1>7. proc[Front].pc \in Calm(Front) /\ proc'[Front].pc \in Calm(Front)
  BY <1>2, <1>4, Zenon DEF Calm
<1>8. QED
  BY <1>1, <1>2, <1>3, <1>4, <1>5, <1>6, <1>7, Quiet, Zenon DEF HungUp

\* create() throws.
LEMMA LAcceptThrows ==
  ASSUME TypeOK, ~dead, Good, AcceptThrows
  PROVE  TypeOK' /\ Good'
<1> USE ConstantsAssumption
<1>1. Places /\ Front \in Proc /\ proc[Front].pc = "idle"
  BY Zenon DEF Good, Proc, AcceptThrows, At
<1>2. UNCHANGED <<conn, requests, mtx, req, queue, proc, used, sessions, dead>>
  BY Zenon DEF AcceptThrows
<1>3. active' \subseteq Conn /\ pooled' \subseteq Conn /\ freed' \subseteq Conn
  <2>1. PICK moved \in SUBSET (freed \cap active) : active' = active \ moved /\ pooled' = pooled \cup moved
    BY Zenon DEF AcceptThrows
  <2>2. QED
    BY <2>1, Zenon DEF AcceptThrows, TypeOK, SetsType
<1>4. TypeOK'
  BY <1>2, <1>3, Zenon DEF TypeOK, ConnType, SetsType, ReqType, QueueType, ProcType, Locals, CountType
<1>5. Places' /\ Only(Front)
  BY <1>1, <1>2, Zenon DEF Places, Only
<1>6. QED
  BY <1>1, <1>2, <1>4, <1>5, Quiet, Zenon DEF Calm

\* assign() goes on to its clear.
LEMMA LAssign ==
  ASSUME TypeOK, ~dead, Good, Assign
  PROVE  TypeOK' /\ Good'
<1> USE ConstantsAssumption
<1>1. Places /\ Front \in Proc
  BY Zenon DEF Good, Proc
<1>2. proc[Front].pc = "assign" /\ proc[Front].c \in Conn
  BY <1>1, Zenon DEF Assign, At, Places
<1>3. TypeOK'
  <2>1. ProcType'
    <3>1. proc' = [proc EXCEPT ![Front] = [@ EXCEPT !.pc = "clear", !.next = "assigned"]]
      BY Zenon DEF Assign, TypeOK, ProcType
    <3>2. [proc[Front] EXCEPT !.pc = "clear", !.next = "assigned"] \in Locals
      BY <1>1, Labels, Zenon DEF TypeOK, ProcType, Locals
    <3>3. QED
      BY <1>1, <3>1, <3>2, Zenon DEF TypeOK, ProcType
  <2>2. ConnType'
    BY <1>2, Zenon DEF Assign, TypeOK, ConnType
  <2>3. QED
    BY <2>1, <2>2, Zenon DEF Assign, TypeOK, SetsType, ReqType, QueueType, CountType
<1>4. /\ Only(Front) /\ proc'[Front].pc = "clear" /\ proc'[Front].kept = proc[Front].kept
      /\ proc'[Front].c = proc[Front].c /\ proc'[Front].next = "assigned"
  BY <1>1, Zenon DEF Assign, TypeOK, ProcType, Locals, Only
<1>5. Places'
  BY <1>1, <1>2, <1>4 DEF Places, Only, Proc, Release, FrontLabel
<1>6. \A d \in Conn : conn'[d].session = conn[d].session
  BY <1>2, Zenon DEF Assign, TypeOK, ConnType
<1>7. QED
  BY <1>1, <1>2, <1>3, <1>4, <1>5, <1>6, Quiet, Zenon DEF Calm, Assign

\* A pool thread writes the answer of its request.
LEMMA LWriteAnswer ==
  ASSUME TypeOK, ~dead, Good, NEW t \in Thread, WriteAnswer(t)
  PROVE  TypeOK' /\ Good'
<1> USE ConstantsAssumption
<1>1. Places /\ t \in Proc
  BY Zenon DEF Good, Proc
<1>2. proc[t].pc = "write" /\ UNCHANGED <<shared, used, sessions, dead>>
  BY Zenon DEF WriteAnswer, At
<1>3. PICK l \in {"release", "clean"} : Goto(t, l)
  BY Zenon DEF WriteAnswer, AfterWrite
<1>4. TypeOK'
  <2>1. ProcType'
    BY <1>1, <1>3, Labels, Jump
  <2>2. QED
    BY <1>2, <2>1, Zenon DEF TypeOK, ConnType, SetsType, ReqType, QueueType, CountType, shared
<1>5. /\ Only(t) /\ proc'[t].pc = l /\ proc'[t].kept = proc[t].kept /\ proc'[t].r = proc[t].r
      /\ proc'[t].c = proc[t].c /\ proc'[t].next = proc[t].next
  BY <1>1, <1>3, Zenon DEF Goto, TypeOK, ProcType, Locals, Only
<1>6. Places'
  BY <1>1, <1>2, <1>5 DEF Places, Only, Proc, Release, ThreadLabel, Holding
<1>7. QED
  BY <1>1, <1>2, <1>4, <1>5, <1>6, Quiet, Zenon DEF Calm, shared

\* Its sending fails.
LEMMA LWriteFails ==
  ASSUME TypeOK, ~dead, Good, NEW t \in Thread, WriteFails(t)
  PROVE  TypeOK' /\ Good'
<1> USE ConstantsAssumption
<1>1. Places /\ t \in Proc /\ t # Front
  BY Zenon DEF Good, Proc
<1>2. proc[t].pc = "write" /\ proc[t].c \in Conn
  BY <1>1, Zenon DEF WriteFails, At, Places
<1>3. TypeOK'
  <2>1. ProcType'
    <3>1. proc' = [proc EXCEPT ![t] = [@ EXCEPT !.pc = "release", !.next = "sent"]]
      BY Zenon DEF WriteFails, TypeOK, ProcType
    <3>2. [proc[t] EXCEPT !.pc = "release", !.next = "sent"] \in Locals
      BY <1>1, Labels, Zenon DEF TypeOK, ProcType, Locals
    <3>3. QED
      BY <1>1, <3>1, <3>2, Zenon DEF TypeOK, ProcType
  <2>2. ConnType'
    BY <1>1, <1>2, Zenon DEF WriteFails, TypeOK, ConnType
  <2>3. QED
    BY <2>1, <2>2, Zenon DEF WriteFails, TypeOK, SetsType, ReqType, QueueType, CountType
<1>4. /\ Only(t) /\ proc'[t].pc = "release" /\ proc'[t].kept = proc[t].kept /\ proc'[t].r = proc[t].r
      /\ proc'[t].c = proc[t].c /\ proc'[t].next = "sent"
  BY <1>1, Zenon DEF WriteFails, TypeOK, ProcType, Locals, Only
<1>5. Places'
  BY <1>1, <1>2, <1>4 DEF Places, Only, Proc, Release, ThreadLabel, Holding
<1>6. \A d \in Conn : conn'[d].session = conn[d].session
  BY <1>2, Zenon DEF WriteFails, TypeOK, ConnType
<1>7. QED
  BY <1>1, <1>2, <1>3, <1>4, <1>5, <1>6, Quiet, Zenon DEF Calm, WriteFails

\* The release that followed is over.
LEMMA LSent ==
  ASSUME TypeOK, ~dead, Good, NEW t \in Thread, Sent(t)
  PROVE  TypeOK' /\ Good'
<1> USE ConstantsAssumption
<1>1. Places /\ t \in Proc /\ t # Front
  BY Zenon DEF Good, Proc
<1>2. proc[t].pc = "sent" /\ proc[t].c \in Conn
  BY <1>1, Zenon DEF Sent, At, Places
<1>3. PICK l \in {"release", "clean"} : proc' = [proc EXCEPT ![t].pc = l, ![t].next = "clean"]
  BY Zenon DEF Sent, AfterWrite
<1>4. TypeOK'
  <2>1. ProcType'
    <3>1. proc' = [proc EXCEPT ![t] = [@ EXCEPT !.pc = l, !.next = "clean"]]
      BY <1>3, Zenon DEF TypeOK, ProcType
    <3>2. [proc[t] EXCEPT !.pc = l, !.next = "clean"] \in Locals
      BY <1>1, Labels, Zenon DEF TypeOK, ProcType, Locals
    <3>3. QED
      BY <1>1, <3>1, <3>2, Zenon DEF TypeOK, ProcType
  <2>2. ConnType'
    BY <1>2, Zenon DEF Sent, TypeOK, ConnType
  <2>3. QED
    BY <2>1, <2>2, Zenon DEF Sent, TypeOK, SetsType, ReqType, QueueType, CountType
<1>5. /\ Only(t) /\ proc'[t].pc = l /\ proc'[t].kept = proc[t].kept /\ proc'[t].r = proc[t].r
      /\ proc'[t].c = proc[t].c /\ proc'[t].next = "clean"
  BY <1>1, <1>3, Zenon DEF TypeOK, ProcType, Locals, Only
<1>6. Places'
  BY <1>1, <1>2, <1>5 DEF Places, Only, Proc, Release, ThreadLabel, Holding
<1>7. \A d \in Conn : conn'[d].session = conn[d].session
  BY <1>2, Zenon DEF Sent, TypeOK, ConnType
<1>8. proc[t].pc \in Calm(t) /\ proc'[t].pc \in Calm(t)
  BY <1>1, <1>2, <1>5, Zenon DEF Calm
<1>9. UNCHANGED <<requests, mtx, req, queue, used, dead>>
  BY Zenon DEF Sent
<1>10. QED
  BY <1>1, <1>4, <1>5, <1>6, <1>7, <1>8, <1>9, Quiet, Zenon

-----------------------------------------------------------------------------------
(* clear().                                                                       *)

\* A request that a clear() in progress has not dropped still points at the connection.
LEMMA InSet ==
  ASSUME TypeOK, ~dead, Good, NEW p \in Proc, Clearing(p), NEW r \in proc[p].left \cup proc[p].kept
  PROVE  /\ r \in Req /\ r \in 1 .. used /\ proc[p].c \in Conn
         /\ r \in requests[proc[p].c] /\ req[r].live /\ req[r].client = proc[p].c
<1>1. proc[p].c \in Conn
  BY ConstantsAssumption, Zenon DEF Good, Places, Proc, Clearing, Release
<1>2. r \in requests[proc[p].c] /\ mtx[proc[p].c] = p
  BY Zenon DEF Good, Clears, ClearOf
<1>3. r \in Req /\ r \in 1 .. used
  BY <1>1, <1>2, Zenon DEF Good, Sets, TypeOK, SetsType
<1>4. ASSUME NEW q \in Proc, Passed(q, proc[p].c, r) PROVE FALSE
  <2>1. mtx[proc[p].c] = q
    BY <1>4, Zenon DEF Good, Clears, ClearOf, Passed, Clearing
  <2>2. QED
    BY <1>2, <1>4, <2>1, Zenon DEF Passed
<1>5. QED
  BY <1>1, <1>2, <1>3, <1>4, Zenon DEF Good, Linked

\* The set is locked; all its requests are still to be tried.
LEMMA LClearLock ==
  ASSUME TypeOK, ~dead, Good, NEW p \in Proc, ClearLock(p)
  PROVE  TypeOK' /\ Good'
<1> USE ConstantsAssumption
<1>1. Places /\ Tokens /\ Clears /\ Locked /\ Sets /\ Linked /\ Home
  BY Zenon DEF Good
<1>2. /\ proc[p].pc = "clear" /\ proc[p].c \in Conn /\ mtx[proc[p].c] = None
      /\ proc[p].kept = {} /\ requests[proc[p].c] \subseteq Req
  BY <1>1, Zenon DEF ClearLock, At, Places, Proc, Release, Clears, ClearOf, Clearing, TypeOK, SetsType
<1> DEFINE v == [proc[p] EXCEPT !.pc = "try", !.left = requests[proc[p].c], !.round = @ + 1]
<1>3. v \in Locals /\ proc' = [proc EXCEPT ![p] = v]
  BY <1>2, Labels DEF ClearLock, TypeOK, ProcType, Locals
<1>4. ProcType' /\ Only(p) /\ proc'[p] = v
  BY <1>3, ProcStep, Zenon
<1>5. /\ proc'[p].pc = "try" /\ proc'[p].left = requests[proc[p].c]
      /\ proc'[p].r = proc[p].r /\ proc'[p].c = proc[p].c /\ proc'[p].kept = {}
      /\ proc'[p].next = proc[p].next
  BY <1>2, <1>4 DEF TypeOK, ProcType, Locals
<1>6. /\ mtx' = [mtx EXCEPT ![proc[p].c] = p]
      /\ UNCHANGED <<conn, active, pooled, freed, requests, req, queue, used, sessions, dead>>
  BY Zenon DEF ClearLock
<1> HIDE DEF v
<1>7. TypeOK'
  BY <1>2, <1>4, <1>6, Zenon DEF TypeOK, ConnType, SetsType, ReqType, QueueType, CountType
<1>8. Places'
  BY <1>1, <1>2, <1>4, <1>5 DEF Places, Proc, Release, ThreadLabel, Holding, FrontLabel, Only
<1>9. Tokens'
  BY <1>1, <1>2, <1>4, <1>5, <1>6, TokensFrame, Zenon DEF Proc, Reading, Only
<1>10. Sets'
  BY <1>1, <1>2, <1>4, <1>5, <1>6, SetsFrame, Zenon DEF Proc, Only
<1>11. \A r : Running(r) => Running(r)'
  BY <1>1, <1>2, <1>4, <1>5, RunningFrame, Zenon DEF Proc, Holding, Release, Only
<1>12. Clears'
  <2> SUFFICES ASSUME NEW q \in Proc PROVE ClearOf(q)'
    BY Zenon DEF Clears
  <2>1. CASE q = p
    BY <1>2, <1>5, <1>6, <2>1, Zenon DEF ClearOf, Clearing, TypeOK, SetsType
  <2>2. CASE q # p
    <3>1. Same(q) /\ ClearOf(q)
      BY <1>1, <1>4, <2>2, Zenon DEF Same, Only, Clearing, Clears
    <3>2. Clearing(q) => proc[q].c \in Conn
      BY <1>1, Zenon DEF Places, Proc, Clearing, Release
    <3>3. Clearing(q) => mtx'[proc[q].c] = mtx[proc[q].c]
      BY <1>2, <1>6, <3>1, <3>2, Zenon DEF ClearOf, TypeOK, SetsType, Proc
    <3>4. used \in Nat
      BY DEF TypeOK, CountType
    <3>5. QED
      BY <1>1, <1>6, <1>11, <3>1, <3>2, <3>3, <3>4, ClearFrame
  <2>3. QED
    BY <2>1, <2>2, Zenon
<1>13. Locked'
  BY <1>1, <1>2, <1>4, <1>5, <1>6, <1>11 DEF Locked, Holding, Release, Proc, Only
<1>14. Linked'
  BY <1>1, <1>2, <1>4, <1>5, <1>6 DEF Linked, Passed, Proc, Only
<1>15. Home'
  BY <1>1, <1>2, <1>4, <1>5, <1>6, <1>11, Zenon DEF Home, Proc, Only
<1>16. QED
  BY <1>7, <1>8, <1>9, <1>10, <1>12, <1>13, <1>14, <1>15, Zenon DEF Good

\* A request that is being run is kept.
LEMMA LClearKeep ==
  ASSUME TypeOK, ~dead, Good, NEW p \in Proc, ClearKeep(p)
  PROVE  TypeOK' /\ Good'
<1> USE ConstantsAssumption
<1>1. Places /\ Tokens /\ Clears /\ Locked /\ Sets /\ Linked /\ Home
  BY DEF Good
<1> DEFINE v(r) == [proc[p] EXCEPT !.left = @ \ {r}, !.kept = @ \cup {r}]
<1>2. PICK r \in proc[p].left : req[r].mtx # None /\ proc' = [proc EXCEPT ![p] = v(r)]
  BY Zenon DEF ClearKeep, TypeOK, ProcType
<1>3. proc[p].pc = "try" /\ UNCHANGED <<shared, used, sessions, dead>>
  BY Zenon DEF ClearKeep, At
<1>4. r \in Req /\ proc[p].c \in Conn /\ req[r].client = proc[p].c /\ Clearing(p)
  BY <1>3, InSet, Zenon DEF Clearing
<1>5. v(r) \in Locals
  <2>1. proc[p] \in Locals
    BY DEF TypeOK, ProcType
  <2>2. QED
    BY <1>4, <2>1 DEF Locals
<1>6. ProcType' /\ Only(p) /\ proc'[p] = v(r)
  BY <1>2, <1>5, ProcStep, Zenon
<1>7. /\ proc'[p].pc = "try" /\ proc'[p].left = proc[p].left \ {r}
      /\ proc'[p].kept = proc[p].kept \cup {r}
      /\ proc'[p].r = proc[p].r /\ proc'[p].c = proc[p].c /\ proc'[p].next = proc[p].next
  BY <1>3, <1>6 DEF TypeOK, ProcType, Locals
<1> HIDE DEF v
<1>8. TypeOK'
  BY <1>3, <1>6, Zenon DEF TypeOK, ConnType, SetsType, ReqType, QueueType, CountType, shared
<1>9. Places'
  BY <1>1, <1>3, <1>6, <1>7 DEF Places, Proc, Only
<1>10. Tokens'
  BY <1>1, <1>3, <1>6, <1>7, TokensFrame, Zenon DEF Proc, Reading, Only, shared
<1>11. Sets'
  BY <1>1, <1>3, <1>6, <1>7, SetsFrame, Zenon DEF Proc, Only, shared
<1>12. \A x : Running(x) => Running(x)'
  BY <1>1, <1>3, <1>6, <1>7, RunningFrame, Zenon DEF Proc, Only
<1>13. Clears'
  <2> SUFFICES ASSUME NEW q \in Proc PROVE ClearOf(q)'
    BY Zenon DEF Clears
  <2>1. CASE q = p
    <3>1. Running(r)
      <4>1. ASSUME NEW o \in Proc, proc[o].pc = "unlock", proc[o].cur = r PROVE FALSE
        BY <1>1, <1>4, <4>1 DEF Clears, ClearOf
      <4>2. QED
        BY <1>1, <1>2, <1>4, <4>1, Zenon DEF Locked
    <3>2. QED
      BY <1>1, <1>2, <1>3, <1>7, <1>12, <2>1, <3>1 DEF Clears, ClearOf, Clearing, shared
  <2>2. CASE q # p
    <3>1. Same(q) /\ ClearOf(q)
      BY <1>1, <1>6, <2>2, Zenon DEF Same, Only, Clearing, Clears
    <3>2. Clearing(q) => proc[q].c \in Conn
      BY <1>1, Zenon DEF Places, Proc, Clearing, Release
    <3>3. used \in Nat
      BY DEF TypeOK, CountType
    <3>4. QED
      BY <1>1, <1>3, <1>12, <3>1, <3>2, <3>3, ClearFrame DEF shared
  <2>3. QED
    BY <2>1, <2>2, Zenon
<1>14. Locked'
  BY <1>1, <1>3, <1>6, <1>7, <1>12 DEF Locked, Proc, Only, shared
<1>15. Linked'
  BY <1>1, <1>3, <1>6, <1>7 DEF Linked, Passed, Proc, Only, shared
<1>16. Home'
  BY <1>1, <1>3, <1>6, <1>7, <1>12, Zenon DEF Home, Proc, Only, shared
<1>17. QED
  BY <1>8, <1>9, <1>10, <1>11, <1>13, <1>14, <1>15, <1>16, Zenon DEF Good

\* A request that nobody runs is unlinked, under its lock.
LEMMA LClearDrop ==
  ASSUME TypeOK, ~dead, Good, NEW p \in Proc, ClearDrop(p)
  PROVE  TypeOK' /\ Good'
<1> USE ConstantsAssumption
<1>1. Places /\ Tokens /\ Clears /\ Locked /\ Sets /\ Linked /\ Home
  BY DEF Good
<1> DEFINE v(r) == [proc[p] EXCEPT !.pc = "unlock", !.cur = r, !.left = @ \ {r}]
<1>2. PICK r \in proc[p].left : /\ req[r].mtx = None /\ proc' = [proc EXCEPT ![p] = v(r)]
                                /\ req' = [req EXCEPT ![r].mtx = p, ![r].client = None]
  BY Zenon DEF ClearDrop, TypeOK, ProcType
<1>3. /\ proc[p].pc = "try"
      /\ UNCHANGED <<conn, active, pooled, freed, requests, mtx, queue, used, sessions, dead>>
  BY Zenon DEF ClearDrop, At
<1>4. /\ r \in Req /\ r \in 1 .. used /\ proc[p].c \in Conn /\ req[r].client = proc[p].c
      /\ req[r].live /\ Clearing(p) /\ r \in requests[proc[p].c]
  BY <1>3, InSet, Zenon DEF Clearing
<1>5. v(r) \in Locals
  <2>1. proc[p] \in Locals
    BY DEF TypeOK, ProcType
  <2>2. QED
    BY <1>4, <2>1, Labels DEF Locals
<1>6. ProcType' /\ Only(p) /\ proc'[p] = v(r)
  BY <1>2, <1>5, ProcStep, Zenon
<1>7. /\ proc'[p].pc = "unlock" /\ proc'[p].left = proc[p].left \ {r} /\ proc'[p].cur = r
      /\ proc'[p].kept = proc[p].kept
      /\ proc'[p].r = proc[p].r /\ proc'[p].c = proc[p].c /\ proc'[p].next = proc[p].next
  BY <1>6 DEF TypeOK, ProcType, Locals
<1>8. /\ \A x \in Req : x # r => req'[x] = req[x]
      /\ req'[r].mtx = p /\ req'[r].client = None /\ req'[r].live
      /\ req'[r].session = req[r].session
  BY <1>2, <1>4 DEF TypeOK, ReqType
<1>9. ReqType'
  BY <1>2, <1>4 DEF TypeOK, ReqType
<1> HIDE DEF v
<1>10. TypeOK'
  BY <1>3, <1>6, <1>9, Zenon DEF TypeOK, ConnType, SetsType, QueueType, CountType
<1>11. Places'
  BY <1>1, <1>3, <1>6, <1>7 DEF Places, Proc, Only, ThreadLabel, FrontLabel, Holding, Release
<1>12. Tokens'
  BY <1>1, <1>3, <1>6, <1>7, <1>8, TokensFrame, Zenon DEF Proc, Reading, Only
<1>13. Sets'
  <2>1. proc[Front].pc = "insert" => proc[Front].r # r /\ proc[Front].r \in Req
    <3>1. proc[Front].pc = "insert" => \A d \in Conn : proc[Front].r \notin requests[d]
      BY <1>1, Zenon DEF Sets
    <3>2. proc[Front].pc = "insert" => proc[Front].r \in Req
      BY <1>1, Own DEF Reading
    <3>3. QED
      BY <1>4, <3>1, <3>2, Zenon
  <2>2. used \in Nat
    BY DEF TypeOK, CountType
  <2>3. \A x \in Req : x > used => x # r
    BY <1>4, <2>2 DEF Req
  <2>4. \A x \in Req : /\ req'[x].client \in {req[x].client, None}
                       /\ req'[x].client # None => req'[x].live = req[x].live
                       /\ x > used => req'[x] = req[x]
    BY <1>8, <2>3, Zenon
  <2>5. \A t \in Thread : proc'[t].pc \in {"delete", "unlink"} =>
          proc'[t].pc = proc[t].pc /\ proc'[t].r = proc[t].r
    BY <1>6, <1>7, Zenon DEF Proc, Only
  <2>6. proc'[Front].pc = "insert" =>
          /\ proc[Front].pc = "insert"
          /\ proc'[Front].r = proc[Front].r /\ proc'[Front].c = proc[Front].c
          /\ req'[proc[Front].r].client = req[proc[Front].r].client
    BY <1>6, <1>7, <1>8, <2>1 DEF Proc, Only
  <2>7. QED
    BY <1>1, <1>3, <2>4, <2>5, <2>6, SetsFrame, Zenon
<1>14. \A x : Running(x) => Running(x)'
  BY <1>1, <1>3, <1>6, <1>7, RunningFrame, Zenon DEF Proc, Only, Holding, Release
<1>15. Clears'
  <2> SUFFICES ASSUME NEW q \in Proc PROVE ClearOf(q)'
    BY DEF Clears
  <2>1. 1 .. used \subseteq Req
    BY <1>1, Own, Zenon
  <2>2. CASE q = p
    <3>1. \A x \in requests[proc[p].c] \ ((proc[p].left \ {r}) \cup proc[p].kept) : req'[x].client = None
      <4>1. /\ requests[proc[p].c] \subseteq 1 .. used
            /\ \A x \in requests[proc[p].c] \ (proc[p].left \cup proc[p].kept) : req[x].client = None
        BY <1>1, <1>4 DEF Clears, ClearOf, Sets
      <4>2. \A x \in Req : x # r => req'[x].client = req[x].client
        BY <1>8
      <4>3. req'[r].client = None
        BY <1>8
      <4>4. QED
        BY <2>1, <4>1, <4>2, <4>3
    <3>2. QED
      BY <1>1, <1>3, <1>4, <1>7, <1>8, <1>14, <2>2, <3>1 DEF Clears, ClearOf, Clearing
  <2>3. CASE q # p
    <3>1. Same(q) /\ ClearOf(q)
      BY <1>1, <1>6, <2>3 DEF Same, Only, Clearing, Clears
    <3>2. Clearing(q) => proc[q].c \in Conn
      BY <1>1 DEF Places, Proc, Clearing, Release
    <3>3. used \in Nat
      BY DEF TypeOK, CountType
    <3>4. proc[q].pc = "unlock" => proc[q].cur \in Req
      BY <2>1, <3>1, Zenon DEF ClearOf
    <3>5. proc[q].pc = "unlock" => (req[proc[q].cur].mtx = q => proc[q].cur # r)
      BY <1>2, Zenon DEF Proc
    <3>6. \A x \in 1 .. used : /\ req'[x].client \in {req[x].client, None}
                               /\ req'[x].live => req[x].live
      BY <1>4, <1>8, <2>1, Zenon
    <3>7. QED
      BY <1>1, <1>3, <1>8, <1>14, <3>1, <3>2, <3>3, <3>4, <3>5, <3>6, ClearFrame
  <2>4. QED
    BY <2>2, <2>3
<1>16. Locked'
  <2>1. \A t \in Thread : proc[t].pc \in Holding => proc[t].r # r /\ proc[t].r \in Req
    BY <1>1, <1>2, Own DEF Locked, Holding, Release, Proc
  <2>2. \A t \in Thread : /\ proc'[t].pc \in Holding <=> proc[t].pc \in Holding
                          /\ proc'[t].pc = "check" <=> proc[t].pc = "check"
                          /\ proc'[t].r = proc[t].r
    BY <1>3, <1>6, <1>7, Zenon DEF Only, Proc, Holding, Release
  <2>3. \A o \in Proc : proc[o].pc = "unlock" => o # p /\ proc'[o] = proc[o]
    BY <1>3, <1>6, Zenon DEF Only
  <2>4. QED
    BY <1>1, <1>7, <1>8, <1>14, <2>1, <2>2, <2>3 DEF Locked
<1>17. Linked'
  <2>1. \A q \in Proc, d \in Conn, x \in Req : Passed(q, d, x) => Passed(q, d, x)'
    BY <1>3, <1>6, <1>7, Zenon DEF Passed, Only
  <2>2. Passed(p, proc[p].c, r)'
    BY <1>1, <1>4, <1>7, Zenon DEF Passed, Clears, ClearOf
  <2>3. ASSUME NEW d \in Conn, NEW x \in requests'[d]
        PROVE  (req'[x].live /\ req'[x].client = d) \/ \E q \in Proc : Passed(q, d, x)'
    <3>1. x \in Req /\ x \in requests[d]
      BY <1>3, Zenon DEF TypeOK, SetsType
    <3>2. CASE x = r
      <4>1. d = proc[p].c
        BY <1>1, <1>4, <3>1, <3>2, Zenon DEF Sets
      <4>2. Passed(p, d, x)'
        BY <1>7, <2>2, <3>2, <4>1, Zenon DEF Passed
      <4>3. QED
        BY <4>2, Zenon
    <3>3. CASE x # r
      BY <1>1, <1>8, <2>1, <3>1, <3>3, Zenon DEF Linked
    <3>4. QED
      BY <3>2, <3>3, Zenon
  <2>4. ASSUME NEW x \in Req, req'[x].client # None
        PROVE  \/ x \in requests'[req'[x].client]
               \/ proc'[Front].pc = "insert" /\ proc'[Front].r = x
               \/ \E t \in Thread : proc'[t].pc = "unlink" /\ proc'[t].r = x
    <3>1. x # r
      BY <1>8, <2>4, Zenon
    <3>2. QED
      BY <1>1, <1>3, <1>6, <1>7, <1>8, <2>4, <3>1 DEF Linked, Only, Proc
  <2>5. QED
    BY <2>3, <2>4, Zenon DEF Linked
<1>18. Home'
  <2>1. \A x \in Req : req'[x].client # None => x # r
    BY <1>8, Zenon
  <2>2. proc'[Front].pc = "assigned" => proc[Front].pc = "assigned" /\ proc'[Front].c = proc[Front].c
    BY <1>3, <1>6, <1>7, Zenon DEF Only, Proc
  <2>3. proc'[Front].pc = "assigned" => proc[Front].c \in Conn
    BY <1>1, <2>2, Zenon DEF Places
  <2>4. QED
    BY <1>1, <1>3, <1>8, <1>14, <2>1, <2>2, <2>3, Zenon DEF Home
<1>19. QED
  BY <1>10, <1>11, <1>12, <1>13, <1>15, <1>16, <1>17, <1>18 DEF Good

\* The lock is given back, of a request that is still allocated.
LEMMA LClearUnlock ==
  ASSUME TypeOK, ~dead, Good, NEW p \in Proc, ClearUnlock(p)
  PROVE  TypeOK' /\ (~dead' => Good')
<1> USE ConstantsAssumption
<1>1. Places /\ Tokens /\ Clears /\ Locked /\ Sets /\ Linked /\ Home
  BY DEF Good
<1> DEFINE r == proc[p].cur
           v == [proc[p] EXCEPT !.pc = "try", !.cur = 0]
<1>2. /\ proc[p].pc = "unlock" /\ dead' = ~req[r].live
      /\ req' = [req EXCEPT ![r].mtx = None] /\ proc' = [proc EXCEPT ![p] = v]
      /\ UNCHANGED <<conn, active, pooled, freed, requests, mtx, queue, used, sessions>>
  BY Zenon DEF ClearUnlock, At, TypeOK, ProcType
<1>3. 1 .. used \subseteq Req
  BY <1>1, Own, Zenon
<1>4. /\ r \in 1 .. used /\ r \in Req /\ req[r].client = None
      /\ req[r].live => req[r].mtx = p
  BY <1>1, <1>2, <1>3, Zenon DEF Clears, ClearOf
<1>5. v \in Locals
  BY Labels, Zenon DEF TypeOK, ProcType, Locals
<1>6. ProcType' /\ Only(p) /\ proc'[p] = v
  BY <1>2, <1>5, ProcStep, Zenon
<1>7. /\ proc'[p].pc = "try" /\ proc'[p].left = proc[p].left /\ proc'[p].kept = proc[p].kept
      /\ proc'[p].r = proc[p].r /\ proc'[p].c = proc[p].c /\ proc'[p].next = proc[p].next
  BY <1>6 DEF TypeOK, ProcType, Locals
<1>8. /\ \A x \in Req : x # r => req'[x] = req[x]
      /\ \A x \in Req : /\ req'[x].client = req[x].client /\ req'[x].live = req[x].live
                        /\ req'[x].session = req[x].session
      /\ req'[r].mtx = None
  BY <1>2, <1>4 DEF TypeOK, ReqType
<1>9. ReqType' /\ dead' \in BOOLEAN
  BY <1>2, <1>4 DEF TypeOK, ReqType
<1> HIDE DEF v, r
<1>10. TypeOK'
  BY <1>2, <1>6, <1>9, Zenon DEF TypeOK, ConnType, SetsType, QueueType, CountType
<1>11. SUFFICES ASSUME ~dead' PROVE Good'
  BY <1>10, Zenon
<1>12. req[r].live /\ req[r].mtx = p
  <2>1. req[r].live
    BY <1>2, <1>11, Zenon
  <2>2. QED
    BY <1>4, <2>1, Zenon
<1>13. Places'
  BY <1>1, <1>2, <1>6, <1>7 DEF Places, Proc, Only, ThreadLabel, FrontLabel, Holding, Release
<1>14. Tokens'
  BY <1>1, <1>2, <1>6, <1>7, <1>8, TokensFrame DEF Proc, Reading, Only
<1>15. Sets'
  <2>1. proc[Front].pc = "insert" => proc[Front].r \in Req
    BY <1>1, Own, Zenon DEF Reading
  <2>2. used \in Nat
    BY DEF TypeOK, CountType
  <2>3. \A x \in Req : x > used => x # r
    BY <1>4, <2>2 DEF Req
  <2>4. \A x \in Req : /\ req'[x].client \in {req[x].client, None}
                       /\ req'[x].client # None => req'[x].live = req[x].live
                       /\ x > used => req'[x] = req[x]
    BY <1>8, <2>3, Zenon
  <2>5. \A t \in Thread : proc'[t].pc \in {"delete", "unlink"} =>
          proc'[t].pc = proc[t].pc /\ proc'[t].r = proc[t].r
    BY <1>6, <1>7, Zenon DEF Proc, Only
  <2>6. proc'[Front].pc = "insert" =>
          /\ proc[Front].pc = "insert"
          /\ proc'[Front].r = proc[Front].r /\ proc'[Front].c = proc[Front].c
          /\ req'[proc[Front].r].client = req[proc[Front].r].client
    BY <1>6, <1>7, <1>8, <2>1, Zenon DEF Proc, Only
  <2>7. QED
    BY <1>1, <1>2, <2>4, <2>5, <2>6, SetsFrame, Zenon
<1>16. \A x : Running(x) => Running(x)'
  BY <1>1, <1>2, <1>6, <1>7, RunningFrame, Zenon DEF Proc, Only, Holding, Release
<1>17. Clears'
  <2> SUFFICES ASSUME NEW q \in Proc PROVE ClearOf(q)'
    BY DEF Clears
  <2>1. CASE q = p
    <3>1. \A x \in requests[proc[p].c] \ (proc[p].left \cup proc[p].kept) : req'[x].client = None
      <4>1. proc[p].c \in Conn
        BY <1>1, <1>2, Zenon DEF Places, Proc, Release
      <4>2. requests[proc[p].c] \subseteq Req
        BY <4>1, Zenon DEF TypeOK, SetsType
      <4>3. QED
        BY <1>1, <1>2, <1>8, <4>2 DEF Clears, ClearOf, Clearing
    <3>2. QED
      BY <1>1, <1>2, <1>7, <1>16, <2>1, <3>1 DEF Clears, ClearOf, Clearing
  <2>2. CASE q # p
    <3>1. Same(q) /\ ClearOf(q)
      BY <1>1, <1>6, <2>2 DEF Same, Only, Clearing, Clears
    <3>2. Clearing(q) => proc[q].c \in Conn
      BY <1>1 DEF Places, Proc, Clearing, Release
    <3>3. used \in Nat
      BY DEF TypeOK, CountType
    <3>4. proc[q].pc = "unlock" => proc[q].cur \in Req
      BY <1>3, <3>1, Zenon DEF ClearOf
    <3>5. req[proc[q].cur].mtx = q => proc[q].cur # r
      BY <1>12, <2>2, Zenon
    <3>6. \A x \in 1 .. used : /\ req'[x].client \in {req[x].client, None}
                               /\ req'[x].live => req[x].live
      BY <1>3, <1>8, Zenon
    <3>7. QED
      BY <1>1, <1>2, <1>8, <1>16, <3>1, <3>2, <3>3, <3>4, <3>5, <3>6, ClearFrame
  <2>3. QED
    BY <2>1, <2>2
<1>18. Locked'
  <2>1. \A t \in Thread : proc[t].pc \in Holding => proc[t].r # r /\ proc[t].r \in Req
    <3> SUFFICES ASSUME NEW t \in Thread, proc[t].pc \in Holding PROVE proc[t].r # r /\ proc[t].r \in Req
      BY Zenon
    <3>1. proc[t].r \in Req /\ req[proc[t].r].mtx = t
      BY <1>1, Own, Zenon DEF Locked, Holding, Release
    <3>2. t = p => req[proc[t].r].client # None
      BY <1>1, <1>2, Zenon DEF Locked, Holding, Release
    <3>3. QED
      BY <1>4, <1>12, <3>1, <3>2, Zenon
  <2>2. \A t \in Thread : /\ proc'[t].pc \in Holding <=> proc[t].pc \in Holding
                          /\ proc'[t].pc = "check" <=> proc[t].pc = "check"
                          /\ proc'[t].r = proc[t].r
    BY <1>2, <1>6, <1>7, Zenon DEF Only, Proc, Holding, Release
  <2>3. \A o \in Proc : proc[o].pc = "unlock" /\ proc[o].cur # r => proc'[o] = proc[o]
    BY <1>2, <1>6, Zenon DEF Only, r
  <2>4. QED
    BY <1>1, <1>7, <1>8, <1>16, <2>1, <2>2, <2>3 DEF Locked
<1>19. Linked'
  <2>1. \A q \in Proc, d \in Conn, x \in Req : Passed(q, d, x) => Passed(q, d, x)'
    BY <1>2, <1>6, <1>7, Zenon DEF Passed, Only
  <2>2. \A d \in Conn : requests[d] \subseteq Req
    BY Zenon DEF TypeOK, SetsType
  <2>3. \A t \in Proc : /\ proc[t].pc = "insert" => proc'[t] = proc[t]
                        /\ proc[t].pc = "unlink" => proc'[t] = proc[t]
    BY <1>2, <1>6, Zenon DEF Only
  <2>4. QED
    BY <1>1, <1>2, <1>8, <2>1, <2>2, <2>3 DEF Linked, Proc
<1>20. Home'
  <2>1. proc'[Front].pc = "assigned" => proc[Front].pc = "assigned" /\ proc'[Front].c = proc[Front].c
    BY <1>2, <1>6, <1>7, Zenon DEF Only, Proc
  <2>2. QED
    BY <1>1, <1>2, <1>8, <1>16, <2>1, Zenon DEF Home
<1>21. QED
  BY <1>13, <1>14, <1>15, <1>17, <1>18, <1>19, <1>20, Zenon DEF Good

\* The set becomes what was kept, and its lock is given back.
LEMMA LClearRound ==
  ASSUME TypeOK, ~dead, Good, NEW p \in Proc, ClearRound(p)
  PROVE  TypeOK' /\ Good'
<1> USE ConstantsAssumption
<1>1. Places /\ Tokens /\ Clears /\ Locked /\ Sets /\ Linked /\ Home
  BY DEF Good
<1> DEFINE c == proc[p].c
<1>2. /\ proc[p].pc = "try" /\ proc[p].left = {} /\ c \in Conn /\ Clearing(p)
      /\ mtx[c] = p /\ proc[p].kept \subseteq requests[c]
      /\ requests' = [requests EXCEPT ![c] = proc[p].kept] /\ mtx' = [mtx EXCEPT ![c] = None]
      /\ UNCHANGED <<conn, active, pooled, freed, req, queue, used, sessions, dead>>
  BY <1>1, Zenon DEF ClearRound, At, Places, Proc, Release, Clears, ClearOf, Clearing
<1>3. ProcType' /\ Only(p)
  <2> DEFINE v(r, l) == [proc[p] EXCEPT !.pc = l, !.kept = {}, !.round = r]
  <2>1. \E r \in Nat, l \in {"clear", "assigned", "free"} : proc' = [proc EXCEPT ![p] = v(r, l)]
    <3>1. CASE proc' = [proc EXCEPT ![p].pc = "clear", ![p].kept = {}]
      <4>1. proc' = [proc EXCEPT ![p] = v(proc[p].round, "clear")] /\ proc[p].round \in Nat
        BY <3>1, Zenon DEF TypeOK, ProcType, Locals
      <4>2. QED
        BY <4>1, Zenon
    <3>2. CASE proc' = [proc EXCEPT ![p].kept = {}, ![p].round = 0,
                  ![p].pc = IF proc[p].next = "assigned" THEN "assigned" ELSE "free"]
      <4>1. proc' = [proc EXCEPT ![p] = v(0, IF proc[p].next = "assigned" THEN "assigned" ELSE "free")]
        BY <3>2, Zenon DEF TypeOK, ProcType, Locals
      <4>2. QED
        BY <4>1, Zenon
    <3>3. QED
      BY <3>1, <3>2, Zenon DEF ClearRound
  <2>2. PICK r \in Nat, l \in {"clear", "assigned", "free"} : proc' = [proc EXCEPT ![p] = v(r, l)]
    BY <2>1, Zenon
  <2>3. v(r, l) \in Locals
    BY Labels, Zenon DEF TypeOK, ProcType, Locals
  <2>4. QED
    BY <2>2, <2>3, ProcStep, Zenon
<1>4. /\ proc'[p].pc \in {"clear", "assigned", "free"}
      /\ proc'[p].pc # "clear" => proc'[p].pc = IF proc[p].next = "assigned" THEN "assigned" ELSE "free"
      /\ proc'[p].kept = {}
      /\ proc'[p].r = proc[p].r /\ proc'[p].c = c /\ proc'[p].next = proc[p].next
  BY DEF ClearRound, TypeOK, ProcType, Locals
<1>5. \A d \in Conn : /\ requests'[d] = IF d = c THEN proc[p].kept ELSE requests[d]
                      /\ mtx'[d] = IF d = c THEN None ELSE mtx[d]
  BY <1>2, Zenon DEF TypeOK, SetsType
<1>6. SetsType'
  BY <1>2, Zenon DEF TypeOK, SetsType, ProcType, Locals
<1>7. TypeOK'
  BY <1>2, <1>3, <1>6, Zenon DEF TypeOK, ConnType, ReqType, QueueType, CountType
<1> HIDE DEF c
<1>8. Places'
  <2>1. p \in Thread => proc'[p].pc \in {"clear", "free"}
    BY <1>1, <1>2, <1>4, Zenon DEF Places, Release
  <2>2. c = proc[p].c
    BY Zenon DEF c
  <2>3. QED
    BY <1>1, <1>2, <1>3, <1>4, <2>1, <2>2
    DEF Places, Proc, Only, ThreadLabel, FrontLabel, Holding, Release
<1>9. Tokens'
  BY <1>1, <1>2, <1>3, <1>4, TokensFrame, Zenon DEF Proc, Reading, Only
<1>10. Sets'
  BY <1>1, <1>2, <1>3, <1>4, <1>5, SetsFrame DEF Proc, Only
<1>11. \A x : Running(x) => Running(x)'
  <2>1. p \in Thread => proc'[p].pc \in {"clear", "free"}
    BY <1>1, <1>2, <1>4 DEF Places, Release
  <2>2. QED
    BY <1>2, <1>3, <1>4, <2>1, RunningFrame, Zenon DEF Proc, Only, Holding, Release
<1>12. Clears'
  <2> SUFFICES ASSUME NEW q \in Proc PROVE ClearOf(q)'
    BY DEF Clears
  <2>1. CASE q = p
    BY <1>4, <2>1, Zenon DEF ClearOf, Clearing
  <2>2. CASE q # p
    <3>1. Same(q) /\ ClearOf(q)
      BY <1>1, <1>3, <2>2, Zenon DEF Same, Only, Clearing, Clears
    <3>2. Clearing(q) => proc[q].c \in Conn
      BY <1>1 DEF Places, Proc, Clearing, Release
    <3>3. Clearing(q) => proc[q].c # c
      BY <1>2, <2>2, <3>1, Zenon DEF ClearOf
    <3>4. used \in Nat
      BY DEF TypeOK, CountType
    <3>5. QED
      <4>1. used' \in Nat /\ used' >= used
        <5>1. used' = used
          BY <1>2, Zenon
        <5>2. QED
          BY <3>4, <5>1
      <4>2. Clearing(q) => /\ proc[q].c \in Conn
                           /\ requests'[proc[q].c] = requests[proc[q].c]
                           /\ mtx'[proc[q].c] = mtx[proc[q].c]
        BY <1>5, <3>2, <3>3, Zenon
      <4>3. \A r \in 1 .. used : req'[r].client \in {req[r].client, None} /\ (req'[r].live => req[r].live)
        BY <1>2, Zenon
      <4>4. proc[q].pc = "unlock" =>
              LET r == proc[q].cur IN req'[r].live /\ req[r].mtx = q => req'[r].mtx = q
        BY <1>2, Zenon
      <4>5. \A r \in proc[q].kept : Running(r) => Running(r)'
        BY <1>11, Zenon
      <4>6. QED
        BY <1>1, <3>1, <4>1, <4>2, <4>3, <4>4, <4>5, ClearFrame
  <2>3. QED
    BY <2>1, <2>2
<1>13. Locked'
  <2>1. p \in Thread => proc'[p].pc \in {"clear", "free"}
    BY <1>1, <1>2, <1>4 DEF Places, Release
  <2>2. \A t \in Thread : /\ proc'[t].pc \in Holding <=> proc[t].pc \in Holding
                          /\ proc'[t].pc = "check" <=> proc[t].pc = "check"
                          /\ proc'[t].r = proc[t].r
    BY <1>2, <1>3, <1>4, <2>1, Zenon DEF Only, Proc, Holding, Release
  <2>3. \A o \in Proc : proc[o].pc = "unlock" => proc'[o] = proc[o]
    BY <1>2, <1>3, Zenon DEF Only
  <2>4. QED
    <3>1. req' = req
      BY <1>2, Zenon
    <3>2. QED
      BY <1>1, <1>11, <2>2, <2>3, <3>1 DEF Locked
<1>14. Linked'
  <2>1. \A q \in Proc, d \in Conn, x \in Req : d # c /\ Passed(q, d, x) => Passed(q, d, x)'
    BY <1>3, Zenon DEF Passed, Only, c
  <2>2. ASSUME NEW d \in Conn, NEW x \in requests'[d]
        PROVE  (req'[x].live /\ req'[x].client = d) \/ \E q \in Proc : Passed(q, d, x)'
    <3>1. CASE d = c
      <4>1. x \in proc[p].kept
        BY <1>5, <3>1, Zenon
      <4>2. QED
        BY <1>2, <3>1, <4>1, InSet, Zenon DEF c
    <3>2. CASE d # c
      <4>1. x \in requests[d] /\ x \in Req
        BY <1>5, <3>2, Zenon DEF TypeOK, SetsType
      <4>2. QED
        BY <1>1, <1>2, <2>1, <3>2, <4>1, Zenon DEF Linked
    <3>3. QED
      BY <3>1, <3>2, Zenon
  <2>3. ASSUME NEW x \in Req, req[x].client # None, x \in requests[req[x].client]
        PROVE  x \in requests'[req[x].client]
    <3>1. req[x].client \in Conn
      BY <2>3, Zenon DEF TypeOK, ReqType
    <3>2. req[x].client = c => x \in proc[p].kept
      <4>1. \A r \in requests[c] \ (proc[p].left \cup proc[p].kept) : req[r].client = None
        BY <1>1, <1>2, Zenon DEF Clears, ClearOf, c
      <4>2. QED
        BY <1>2, <2>3, <4>1
    <3>3. QED
      BY <1>5, <2>3, <3>1, <3>2, Zenon
  <2>4. \A t \in Proc : proc[t].pc \in {"insert", "unlink"} => proc'[t] = proc[t]
    BY <1>2, <1>3, Zenon DEF Only
  <2>5. ASSUME NEW x \in Req, req'[x].client # None
        PROVE  \/ x \in requests'[req'[x].client]
               \/ proc'[Front].pc = "insert" /\ proc'[Front].r = x
               \/ \E t \in Thread : proc'[t].pc = "unlink" /\ proc'[t].r = x
    <3>1. req' = req /\ req[x].client # None
      BY <1>2, <2>5
    <3>2. \/ x \in requests[req[x].client]
          \/ proc[Front].pc = "insert" /\ proc[Front].r = x
          \/ \E t \in Thread : proc[t].pc = "unlink" /\ proc[t].r = x
      BY <1>1, <3>1 DEF Linked
    <3>3. QED
      BY <2>3, <2>4, <3>1, <3>2 DEF Proc
  <2>6. QED
    BY <2>2, <2>5 DEF Linked
<1>15. Home'
  <2>1. CASE proc'[Front].pc # "assigned"
    BY <1>1, <1>2, <1>11, <2>1, Zenon DEF Home
  <2>2. CASE proc'[Front].pc = "assigned" /\ p # Front
    <3>1. proc[Front].pc = "assigned" /\ proc'[Front].c = proc[Front].c
      BY <1>3, <2>2, Zenon DEF Only, Proc
    <3>2. QED
      BY <1>1, <1>2, <1>11, <2>2, <3>1, Zenon DEF Home
  <2>3. CASE proc'[Front].pc = "assigned" /\ p = Front
    <3>1. ASSUME NEW x \in Req, req[x].client = c PROVE Running(x)'
      <4>1. CASE x \in requests[c]
        <5>1. x \in proc[p].kept
          <6>1. \A r \in requests[c] \ (proc[p].left \cup proc[p].kept) : req[r].client = None
            BY <1>1, <1>2, Zenon DEF Clears, ClearOf, c
          <6>2. c # None
            BY <1>2
          <6>3. QED
            BY <1>2, <3>1, <4>1, <6>1, <6>2
        <5>2. QED
          BY <1>1, <1>2, <1>11, <5>1, Zenon DEF Clears, ClearOf
      <4>2. CASE x \notin requests[c]
        <5>1. \E t \in Thread : proc[t].pc = "unlink" /\ proc[t].r = x
          BY <1>1, <1>2, <2>3, <3>1, <4>2, Zenon DEF Linked
        <5>2. Running(x)
          BY <5>1, Zenon DEF Running, Holding
        <5>3. QED
          BY <1>11, <5>2, Zenon
      <4>3. QED
        BY <4>1, <4>2, Zenon
    <3>2. QED
      BY <1>1, <1>2, <1>4, <1>11, <2>3, <3>1, Zenon DEF Home
  <2>4. QED
    BY <2>1, <2>2, <2>3, Zenon
<1>16. QED
  BY <1>7, <1>8, <1>9, <1>10, <1>12, <1>13, <1>14, <1>15 DEF Good

-----------------------------------------------------------------------------------
(* The front thread.                                                             *)

\* The locals of an idle thread.
LEMMA IdleFields == Idle.pc = "idle" /\ Idle.kept = {} /\ Idle.next = "idle"
  BY DEF Idle

\* They have the type of locals.
LEMMA IdleType == Idle \in Locals
  BY Labels, Zenon DEF Idle, Locals

\* The connection has its new peer; the requests of the former one all run.
LEMMA LAssigned ==
  ASSUME TypeOK, ~dead, Good, Assigned
  PROVE  TypeOK' /\ Good'
<1> USE ConstantsAssumption
<1>1. /\ Places /\ Tokens /\ Clears /\ Locked /\ Sets /\ Linked /\ Home
      /\ Front \in Proc /\ Front \notin Thread
  BY Zenon DEF Good, Proc
<1> DEFINE c == proc[Front].c
<1>2. /\ proc[Front].pc = "assigned" /\ c \in Conn /\ proc[Front].kept = {}
      /\ proc' = [proc EXCEPT ![Front] = Idle]
      /\ UNCHANGED <<active, pooled, freed, requests, mtx, req, queue, used, sessions, dead>>
  BY <1>1, Zenon DEF Assigned, At, Places, Clears, ClearOf, Clearing
<1>3. ProcType' /\ Only(Front) /\ proc'[Front] = Idle
  BY <1>1, <1>2, IdleType, ProcStep, Zenon
<1>4. /\ proc'[Front].pc = "idle" /\ proc'[Front].kept = {} /\ proc'[Front].next = "idle"
  BY <1>3 DEF Idle
<1>5. ConnType' /\ \A d \in Conn : d # c => conn'[d].session = conn[d].session
  BY <1>2 DEF Assigned, TypeOK, ConnType, CountType
<1>6. TypeOK'
  BY <1>2, <1>3, <1>5, Zenon DEF TypeOK, SetsType, ReqType, QueueType, CountType
<1> HIDE DEF c
<1>7. Places'
  BY <1>1, <1>3, <1>4, Zenon DEF Places, Proc, Only, FrontLabel, Release
<1>8. Tokens'
  BY <1>1, <1>2, <1>3, <1>4, TokensFrame, Zenon DEF Proc, Reading, Only
<1>9. Sets'
  BY <1>1, <1>2, <1>3, <1>4, SetsFrame, Zenon DEF Proc, Only
<1>10. \A x : Running(x) => Running(x)'
  BY <1>1, <1>3, RunningFrame, Zenon DEF Proc, Only
<1>11. Clears'
  <2> SUFFICES ASSUME NEW q \in Proc PROVE ClearOf(q)'
    BY Zenon DEF Clears
  <2>1. Same(q) /\ ClearOf(q)
    BY <1>1, <1>2, <1>3, <1>4 DEF Same, Only, Clearing, Clears
  <2>2. Clearing(q) => proc[q].c \in Conn
    BY <1>1, Zenon DEF Places, Proc, Clearing, Release
  <2>3. used \in Nat
    BY DEF TypeOK, CountType
  <2>4. QED
    BY <1>1, <1>2, <1>10, <2>1, <2>2, <2>3, ClearFrame
<1>12. Locked'
  BY <1>1, <1>2, <1>3, <1>4, <1>10 DEF Locked, Only, Proc
<1>13. Linked'
  BY <1>1, <1>2, <1>3, <1>4 DEF Linked, Passed, Only, Proc
<1>14. Home'
  <2>1. \A r \in Req : req[r].client = c => Running(r)
    BY <1>1, <1>2, Zenon DEF Home, c
  <2>2. \A r \in Req : req[r].client # None => req[r].client \in Conn
    BY Zenon DEF TypeOK, ReqType
  <2>3. QED
    BY <1>1, <1>2, <1>4, <1>5, <1>10, <2>1, <2>2, Zenon DEF Home
<1>15. QED
  BY <1>6, <1>7, <1>8, <1>9, <1>11, <1>12, <1>13, <1>14, Zenon DEF Good

\* A request is read: a fresh object that only the front thread knows of.
LEMMA LReceive ==
  ASSUME TypeOK, ~dead, Good, NEW c \in Conn, NEW kind \in Kinds, Receive(c, kind)
  PROVE  TypeOK' /\ Good'
<1> USE ConstantsAssumption
<1>1. /\ Places /\ Tokens /\ Clears /\ Locked /\ Sets /\ Linked /\ Home
      /\ Front \in Proc /\ Front \notin Thread
  BY Zenon DEF Good, Proc
<1> DEFINE n == used + 1
           new == [client |-> c, mtx |-> None, live |-> TRUE, kind |-> kind, session |-> conn[c].session]
           v == [proc[Front] EXCEPT !.pc = "insert", !.r = n, !.c = c]
<1>2. /\ proc[Front].pc = "idle" /\ used \in Nat /\ n \in Nat /\ n \in Req
      /\ used' = n /\ req' = [req EXCEPT ![n] = new] /\ proc' = [proc EXCEPT ![Front] = v]
      /\ UNCHANGED <<active, pooled, freed, requests, mtx, queue, sessions, dead>>
  <2>1. used \in Nat /\ n \in Nat /\ n \in Req
    BY DEF Receive, TypeOK, CountType, Req
  <2>2. proc' = [proc EXCEPT ![Front] = v]
    BY Zenon DEF Receive, TypeOK, ProcType
  <2>3. QED
    BY <2>1, <2>2, Zenon DEF Receive, At
<1>3. v \in Locals
  BY <1>1, <1>2, Labels, Zenon DEF TypeOK, ProcType, Locals
<1>4. ProcType' /\ Only(Front) /\ proc'[Front] = v
  BY <1>1, <1>2, <1>3, ProcStep, Zenon
<1>5. /\ proc'[Front].pc = "insert" /\ proc'[Front].r = n /\ proc'[Front].c = c
      /\ proc'[Front].kept = proc[Front].kept /\ proc'[Front].next = proc[Front].next
  BY <1>1, <1>4 DEF TypeOK, ProcType, Locals
<1>6. ConnType' /\ \A d \in Conn : conn'[d].session = conn[d].session
  BY <1>1, Zenon DEF Receive, TypeOK, ConnType
<1>7. new \in [client: Conn \cup {None}, mtx: Proc \cup {None}, live: BOOLEAN, kind: Kinds, session: Nat]
  BY Zenon DEF TypeOK, ConnType
<1>8. ReqType' /\ req'[n] = new /\ \A x \in Req : x # n => req'[x] = req[x]
  BY <1>2, <1>7, Zenon DEF TypeOK, ReqType
<1>9. /\ req'[n].client = c /\ req'[n].mtx = None /\ req'[n].live /\ req'[n].session = conn[c].session
  BY <1>8
<1>10. used' \in 0 .. MaxReq
  BY <1>2 DEF Req
<1>11. TypeOK'
  BY <1>2, <1>4, <1>6, <1>8, <1>10, Zenon DEF TypeOK, SetsType, QueueType, CountType
<1>12. 1 .. used \subseteq Req /\ 1 .. used \subseteq 1 .. used' /\ n \in 1 .. used' /\ n \notin 1 .. used
  BY <1>1, <1>2, Own
<1> HIDE DEF new, v, n
<1>13. Places'
  BY <1>1, <1>2, <1>4, <1>5 DEF Places, Proc, Only, FrontLabel, Release
<1>14. Tokens'
  <2>1. \A x \in 1 .. used : x \in Req /\ x # n /\ req'[x] = req[x]
    BY <1>8, <1>12, Zenon
  <2>2. \A t \in Thread : proc'[t] = proc[t]
    BY <1>1, <1>4, Zenon DEF Only, Proc
  <2>3. \A x : Queued(x)' <=> Queued(x)
    BY <1>2, Zenon DEF Queued
  <2>4. /\ \A m \in Pool : \A i \in 1 .. Len(queue[m]) : queue[m][i] \in 1 .. used' /\ req'[queue[m][i]].live
        /\ ~Queued(n)
    BY <1>1, <1>12, <2>1, Zenon DEF Tokens, Queued
  <2>5. \A t \in Thread : proc[t].pc # "idle" =>
          proc[t].r \in 1 .. used' /\ req'[proc[t].r].live /\ proc[t].r # n
    BY <1>1, <1>12, <2>1, Zenon DEF Tokens
  <2>6. \A t \in Thread : proc'[t].pc # "idle" =>
          /\ proc'[t].r \in 1 .. used' /\ req'[proc'[t].r].live
          /\ ~Queued(proc[t].r)'
          /\ \A u \in Thread : u # t /\ proc'[u].pc # "idle" => proc'[u].r # proc'[t].r
    <3>1. \A t \in Thread : proc[t].pc # "idle" =>
            /\ ~Queued(proc[t].r)
            /\ \A u \in Thread : u # t /\ proc[u].pc # "idle" => proc[u].r # proc[t].r
      BY <1>1 DEF Tokens
    <3>2. \A t \in Thread : ~Queued(proc[t].r) => ~Queued(proc[t].r)'
      BY <1>2, <2>2 DEF Queued
    <3>3. QED
      BY <2>2, <2>5, <3>1, <3>2
  <2>7. /\ proc'[Front].r \in 1 .. used' /\ req'[proc'[Front].r].live
        /\ ~Queued(proc[Front].r)'
        /\ \A t \in Thread : proc'[t].pc # "idle" => proc'[t].r # proc'[Front].r
    <3>1. ~Queued(proc[Front].r)'
      BY <1>2, <1>5, <2>4 DEF Queued
    <3>2. QED
      BY <1>5, <1>9, <1>12, <2>2, <2>5, <3>1, Zenon
  <2>8. \A k, m \in Pool : \A i \in 1 .. Len(queue'[k]), j \in 1 .. Len(queue'[m]) :
          queue'[k][i] = queue'[m][j] => k = m /\ i = j
    BY <1>1, <1>2 DEF Tokens
  <2>9. \A m \in Pool : \A i \in 1 .. Len(queue'[m]) : queue'[m][i] \in 1 .. used' /\ req'[queue'[m][i]].live
    BY <1>2, <2>4, Zenon
  <2>10. QED
    BY <2>6, <2>7, <2>8, <2>9, Zenon DEF Tokens
<1>15. Sets'
  <2>1. \A d \in Conn : requests[d] \subseteq 1 .. used
    BY <1>1, Zenon DEF Sets
  <2>2. \A r \in Req : r > used' => r > used /\ r # n
    BY <1>2 DEF Req, n
  <2>3. \A t \in Thread : proc'[t] = proc[t]
    BY <1>1, <1>4 DEF Only, Proc
  <2>4. \A t \in Thread : proc[t].pc # "idle" => proc[t].r \in Req /\ proc[t].r # n
    BY <1>1, <1>12 DEF Tokens
  <2>5. /\ \A d \in Conn : requests'[d] \subseteq 1 .. used'
        /\ \A r \in Req : r > used' => req'[r].client = None /\ req'[r].mtx = None /\ ~req'[r].live
        /\ \A r \in Req : req'[r].client # None => req'[r].live
    BY <1>1, <1>2, <1>8, <1>9, <1>12, <2>1, <2>2 DEF Sets
  <2>6. /\ \A t \in Thread : proc[t].pc = "delete" => req'[proc[t].r].client = None
        /\ \A d \in Conn : n \notin requests[d]
    BY <1>1, <1>8, <1>12, <2>1, <2>4, Zenon DEF Sets
  <2>7. QED
    BY <1>1, <1>2, <1>5, <1>9, <2>3, <2>5, <2>6 DEF Sets
<1>16. \A x : Running(x) => Running(x)'
  BY <1>1, <1>4, RunningFrame, Zenon DEF Proc, Only
<1>17. Clears'
  <2> SUFFICES ASSUME NEW q \in Proc PROVE ClearOf(q)'
    BY Zenon DEF Clears
  <2>1. Same(q) /\ ClearOf(q)
    BY <1>1, <1>2, <1>4, <1>5 DEF Same, Only, Clearing, Clears
  <2>2. Clearing(q) => proc[q].c \in Conn
    BY <1>1, Zenon DEF Places, Proc, Clearing, Release
  <2>3. used' >= used /\ used' \in Nat
    BY <1>2 DEF n
  <2>4. \A x \in 1 .. used : req'[x] = req[x]
    BY <1>8, <1>12, Zenon
  <2>5. proc[q].pc = "unlock" => proc[q].cur \in 1 .. used
    BY <2>1, Zenon DEF ClearOf
  <2>6. QED
    BY <1>1, <1>2, <1>16, <2>1, <2>2, <2>3, <2>4, <2>5, ClearFrame, Zenon
<1>18. Locked'
  <2>1. \A t \in Thread : proc'[t] = proc[t]
    BY <1>1, <1>4 DEF Only, Proc
  <2>2. \A t \in Thread : proc[t].pc \in Holding => proc[t].r \in Req /\ proc[t].r # n
    BY <1>1, <1>12, Busy DEF Tokens
  <2>3. \A o \in Proc : proc[o].pc = "unlock" => proc'[o] = proc[o]
    BY <1>2, <1>4, Zenon DEF Only
  <2>4. QED
    <3>1. \A t \in Thread : proc'[t].pc \in Holding => proc'[t].r \in Req /\ req'[proc'[t].r] = req[proc[t].r]
      BY <1>8, <2>1, <2>2, Zenon
    <3>2. ASSUME NEW x \in Req, req'[x].mtx # None
          PROVE  Running(x)' \/ \E o \in Proc : proc'[o].pc = "unlock" /\ proc'[o].cur = x
      <4>1. req[x].mtx # None
        BY <1>8, <1>9, <3>2, Zenon
      <4>2. Running(x) \/ \E o \in Proc : proc[o].pc = "unlock" /\ proc[o].cur = x
        BY <1>1, <4>1, Zenon DEF Locked
      <4>3. Running(x) => Running(x)'
        BY <2>1, Zenon DEF Running
      <4>4. QED
        BY <2>3, <4>2, <4>3, Zenon
    <3>3. QED
      BY <1>1, <2>1, <3>1, <3>2, Zenon DEF Locked
<1>19. Linked'
  <2>1. \A q \in Proc : \A d, x : Passed(q, d, x) => Passed(q, d, x)'
    BY <1>2, <1>4, Zenon DEF Passed, Only
  <2>2. \A d \in Conn : \A x \in requests[d] : x \in Req /\ x # n
    BY <1>1, <1>12, Zenon DEF Sets
  <2>3. \A t \in Thread : proc'[t] = proc[t]
    BY <1>1, <1>4 DEF Only, Proc
  <2>4. QED
    BY <1>1, <1>2, <1>5, <1>8, <1>9, <2>1, <2>2, <2>3 DEF Linked
<1>20. Home'
  <2>1. \A r \in Req : req[r].client # None => req[r].client \in Conn
    BY Zenon DEF TypeOK, ReqType
  <2>2. conn'[req'[n].client].session = req'[n].session
    BY <1>6, <1>9, Zenon
  <2>3. QED
    <3>1. ASSUME NEW r \in Req, req'[r].client # None, req'[r].session # conn'[req'[r].client].session
          PROVE  Running(r)'
      <4>1. r # n /\ req'[r] = req[r]
        BY <1>8, <2>2, <3>1
      <4>2. req[r].client # None /\ req[r].session # conn[req[r].client].session
        BY <1>6, <2>1, <3>1, <4>1
      <4>3. QED
        BY <1>1, <1>16, <4>2 DEF Home
    <3>2. QED
      BY <1>5, <3>1 DEF Home
<1>21. QED
  BY <1>11, <1>13, <1>14, <1>15, <1>17, <1>18, <1>19, <1>20, Zenon DEF Good

\* The request is linked to its connection.
LEMMA LInsert ==
  ASSUME TypeOK, ~dead, Good, Insert
  PROVE  TypeOK' /\ Good'
<1> USE ConstantsAssumption
<1>1. /\ Places /\ Tokens /\ Clears /\ Locked /\ Sets /\ Linked /\ Home
      /\ Front \in Proc /\ Front \notin Thread
  BY DEF Good, Proc
<1> DEFINE c == proc[Front].c
           r == proc[Front].r
           v == [proc[Front] EXCEPT !.pc = "push"]
<1>2. /\ proc[Front].pc = "insert" /\ c \in Conn /\ mtx[c] = None
      /\ requests' = [requests EXCEPT ![c] = @ \cup {r}] /\ proc' = [proc EXCEPT ![Front] = v]
      /\ UNCHANGED <<conn, active, pooled, freed, mtx, req, queue, used, sessions, dead>>
  BY <1>1, Zenon DEF Insert, At, Goto, Places, TypeOK, ProcType
<1>3. /\ r \in 1 .. used /\ r \in Req /\ req[r].live /\ req[r].client = c
      /\ \A d \in Conn : r \notin requests[d]
  BY <1>1, <1>2, Own, Zenon DEF Tokens, Reading, Sets
<1>4. v \in Locals
  BY <1>1, Labels, Zenon DEF TypeOK, ProcType, Locals
<1>5. ProcType' /\ Only(Front) /\ proc'[Front] = v
  BY <1>1, <1>2, <1>4, ProcStep, Zenon
<1>6. /\ proc'[Front].pc = "push" /\ proc'[Front].r = r /\ proc'[Front].c = c
      /\ proc'[Front].kept = proc[Front].kept /\ proc'[Front].next = proc[Front].next
  BY <1>1, <1>5 DEF TypeOK, ProcType, Locals
<1>7. \A d \in Conn : requests'[d] = IF d = c THEN requests[c] \cup {r} ELSE requests[d]
  BY <1>2, Zenon DEF TypeOK, SetsType
<1>8. SetsType'
  BY <1>2, <1>3, Zenon DEF TypeOK, SetsType
<1>9. TypeOK'
  BY <1>2, <1>5, <1>8, Zenon DEF TypeOK, ConnType, ReqType, QueueType, CountType
<1> HIDE DEF c, r, v
<1>10. \A t \in Thread : proc'[t] = proc[t]
  BY <1>1, <1>5, Zenon DEF Only, Proc
<1>11. Places'
  BY <1>1, <1>2, <1>6, <1>10 DEF Places, FrontLabel, Release
<1>12. Tokens'
  BY <1>1, <1>2, <1>6, <1>10, TokensFrame, Zenon DEF Reading, r
<1>13. Sets'
  <2>1. \A d, e \in Conn : d # e => requests'[d] \cap requests'[e] = {}
    <3>1. \A d, e \in Conn : d # e => requests[d] \cap requests[e] = {}
      BY <1>1, Zenon DEF Sets
    <3>2. SUFFICES ASSUME NEW d \in Conn, NEW e \in Conn, d # e,
                          NEW x \in requests'[d], x \in requests'[e]
                   PROVE  FALSE
      BY Zenon
    <3>3. x \in requests[d] \/ (d = c /\ x = r)
      BY <1>7, Zenon
    <3>4. x \in requests[e] \/ (e = c /\ x = r)
      BY <1>7, <3>2, Zenon
    <3>5. QED
      BY <1>3, <3>1, <3>2, <3>3, <3>4, Zenon
  <2>2. \A d \in Conn : requests'[d] \subseteq 1 .. used'
    BY <1>1, <1>2, <1>3, <1>7 DEF Sets
  <2>3. \A t \in Thread : proc[t].pc = "unlink" => \A d \in Conn : proc[t].r \notin requests'[d]
    <3>1. \A t \in Thread : proc[t].pc = "unlink" => proc[t].r # r
      BY <1>1, <1>2, Zenon DEF Tokens, Reading, r
    <3>2. QED
      BY <1>1, <1>7, <3>1 DEF Sets
  <2>4. QED
    BY <1>1, <1>2, <1>6, <1>10, <2>1, <2>2, <2>3 DEF Sets
<1>14. \A x : Running(x) => Running(x)'
  BY <1>10, RunningFrame, Zenon
<1>15. Clears'
  <2> SUFFICES ASSUME NEW q \in Proc PROVE ClearOf(q)'
    BY DEF Clears
  <2>1. Same(q) /\ ClearOf(q)
    BY <1>1, <1>2, <1>5, <1>6 DEF Same, Only, Clearing, Clears
  <2>2. Clearing(q) => proc[q].c \in Conn /\ proc[q].c # c
    BY <1>1, <1>2, <2>1, Zenon DEF Places, Proc, Clearing, Release, ClearOf
  <2>3. used \in Nat
    BY DEF TypeOK, CountType
  <2>4. QED
    BY <1>1, <1>2, <1>7, <1>14, <2>1, <2>2, <2>3, ClearFrame
<1>16. Locked'
  <2>1. \A o \in Proc : proc[o].pc = "unlock" => proc'[o] = proc[o]
    BY <1>2, <1>5, Zenon DEF Only
  <2>2. QED
    BY <1>1, <1>2, <1>10, <1>14, <2>1 DEF Locked
<1>17. Linked'
  <2>1. \A q \in Proc : \A d, x : Passed(q, d, x) => Passed(q, d, x)'
    BY <1>2, <1>5, Zenon DEF Passed, Only
  <2>2. \A d \in Conn : \A x \in requests'[d] : x # r => x \in requests[d]
    BY <1>7, Zenon
  <2>3. \A d \in Conn : r \in requests'[d] => d = c
    BY <1>3, <1>7, Zenon
  <2>4. \A d \in Conn : \A x \in requests[d] : x \in requests'[d]
    BY <1>7, Zenon
  <2>5. r \in requests'[c]
    BY <1>2, <1>7
  <2>6. \A x \in Req : req[x].client # None => req[x].client \in Conn
    BY DEF TypeOK, ReqType
  <2>7. ASSUME NEW d \in Conn, NEW x \in requests'[d]
        PROVE  (req'[x].live /\ req'[x].client = d) \/ \E q \in Proc : Passed(q, d, x)'
    BY <1>1, <1>2, <1>3, <2>1, <2>2, <2>3 DEF Linked
  <2>8. ASSUME NEW x \in Req, req'[x].client # None
        PROVE  \/ x \in requests'[req'[x].client]
               \/ \E t \in Thread : proc'[t].pc = "unlink" /\ proc'[t].r = x
    <3>1. CASE x = r
      BY <1>2, <1>3, <2>5, <3>1, Zenon
    <3>2. CASE x # r
      <4>1. req' = req /\ req[x].client # None
        BY <1>2, <2>8
      <4>2. \/ x \in requests[req[x].client]
            \/ \E t \in Thread : proc[t].pc = "unlink" /\ proc[t].r = x
        BY <1>1, <3>2, <4>1 DEF Linked, r
      <4>3. QED
        BY <1>10, <2>4, <2>6, <4>1, <4>2
    <3>3. QED
      BY <3>1, <3>2, Zenon
  <2>9. QED
    BY <2>7, <2>8, Zenon DEF Linked
<1>18. Home'
  BY <1>1, <1>2, <1>6, <1>14, Zenon DEF Home
<1>19. QED
  BY <1>9, <1>11, <1>12, <1>13, <1>15, <1>16, <1>17, <1>18 DEF Good

\* The request goes into the queue of a pool.
LEMMA LPushQueue ==
  ASSUME TypeOK, ~dead, Good, NEW n \in Pool, PushQueue(n)
  PROVE  TypeOK' /\ Good'
<1> USE ConstantsAssumption
<1>1. /\ Places /\ Tokens /\ Clears /\ Locked /\ Sets /\ Linked /\ Home
      /\ Front \in Proc /\ Front \notin Thread
  BY Zenon DEF Good, Proc
<1> DEFINE r == proc[Front].r
<1>2. /\ proc[Front].pc = "push" /\ proc[Front].c \in Conn /\ proc[Front].kept = {}
      /\ queue' = [queue EXCEPT ![n] = Append(@, r)] /\ proc' = [proc EXCEPT ![Front] = Idle]
      /\ UNCHANGED <<active, pooled, freed, requests, mtx, req, used, sessions, dead>>
  BY <1>1, Zenon DEF PushQueue, At, Places, Clears, ClearOf, Clearing
<1>3. /\ r \in 1 .. used /\ r \in Req /\ req[r].live /\ ~Queued(r)
      /\ \A t \in Thread : proc[t].pc # "idle" => proc[t].r # r
  BY <1>1, <1>2, Own, Zenon DEF Tokens, Reading
<1>4. ProcType' /\ Only(Front) /\ proc'[Front] = Idle
  BY <1>1, <1>2, IdleType, ProcStep, Zenon
<1>5. proc'[Front].pc = "idle" /\ proc'[Front].kept = {} /\ proc'[Front].next = "idle"
  BY <1>4, IdleFields, Zenon
<1>6. ConnType' /\ \A d \in Conn : conn'[d].session = conn[d].session
  <2>1. conn' = [conn EXCEPT ![proc[Front].c].mutex = None]
    BY Zenon DEF PushQueue
  <2>2. ConnType'
    BY <1>2, <2>1, Zenon DEF TypeOK, ConnType
  <2>3. \A d \in Conn : conn'[d].session = conn[d].session
    BY <1>2, <2>1, Zenon DEF TypeOK, ConnType
  <2>4. QED
    BY <2>2, <2>3, Zenon
<1>7. /\ QueueType'
      /\ \A m \in Pool : m # n => queue'[m] = queue[m]
      /\ Len(queue'[n]) = Len(queue[n]) + 1 /\ Len(queue[n]) \in Nat
      /\ \A i \in 1 .. Len(queue[n]) : queue'[n][i] = queue[n][i]
      /\ queue'[n][Len(queue[n]) + 1] = r
  <2> DEFINE q == queue[n]
  <2>1. q \in Seq(Req) /\ queue \in [Pool -> Seq(Req)]
    BY DEF TypeOK, QueueType
  <2>2. /\ Append(q, r) \in Seq(Req) /\ Len(Append(q, r)) = Len(q) + 1 /\ Len(q) \in Nat
        /\ \A i \in 1 .. Len(q) : Append(q, r)[i] = q[i]
        /\ Append(q, r)[Len(q) + 1] = r
    <3> HIDE DEF q, r
    <3> QED
      BY <1>3, <2>1
  <2>3. queue'[n] = Append(q, r) /\ \A m \in Pool : m # n => queue'[m] = queue[m]
    BY <1>2, <2>1, Zenon
  <2>4. QueueType'
    BY <1>2, <2>1, <2>2, Zenon DEF QueueType
  <2>5. QED
    BY <2>2, <2>3, <2>4, Zenon
<1>8. TypeOK'
  BY <1>2, <1>4, <1>6, <1>7, Zenon DEF TypeOK, SetsType, ReqType, CountType
<1> HIDE DEF r
<1>9. \A t \in Thread : proc'[t] = proc[t]
  BY <1>1, <1>4, Zenon DEF Only, Proc
<1>10. Places'
  BY <1>1, <1>5, <1>9, Zenon DEF Places, FrontLabel, Release
<1>11. Tokens'
  <2>1. \A i \in 1 .. Len(queue'[n]) : i \in 1 .. Len(queue[n]) \/ (i = Len(queue[n]) + 1 /\ queue'[n][i] = r)
    BY <1>7
  <2>2. ASSUME NEW m \in Pool, NEW i \in 1 .. Len(queue'[m])
        PROVE  \/ i \in 1 .. Len(queue[m]) /\ queue'[m][i] = queue[m][i]
               \/ m = n /\ i = Len(queue[n]) + 1 /\ queue'[m][i] = r
    BY <1>7, <2>1, Zenon
  <2>3. \A m \in Pool : \A i \in 1 .. Len(queue[m]) : queue[m][i] # r
    BY <1>3, Zenon DEF Queued
  <2>5. \A m \in Pool : \A i \in 1 .. Len(queue'[m]) :
          queue'[m][i] \in 1 .. used' /\ req'[queue'[m][i]].live
    <3>1. \A m \in Pool : \A i \in 1 .. Len(queue[m]) : queue[m][i] \in 1 .. used /\ req[queue[m][i]].live
      BY <1>1 DEF Tokens
    <3>2. QED
      BY <1>2, <1>3, <2>2, <3>1
  <2>6. \A k, m \in Pool : \A i \in 1 .. Len(queue'[k]), j \in 1 .. Len(queue'[m]) :
          queue'[k][i] = queue'[m][j] => k = m /\ i = j
    <3>1. SUFFICES ASSUME NEW k \in Pool, NEW m \in Pool, NEW i \in 1 .. Len(queue'[k]),
                          NEW j \in 1 .. Len(queue'[m]), queue'[k][i] = queue'[m][j]
                   PROVE  k = m /\ i = j
      BY Zenon
    <3>2. \/ i \in 1 .. Len(queue[k]) /\ queue'[k][i] = queue[k][i] /\ queue[k][i] # r
          \/ k = n /\ i = Len(queue[n]) + 1 /\ queue'[k][i] = r
      BY <2>2, <2>3, Zenon
    <3>3. \/ j \in 1 .. Len(queue[m]) /\ queue'[m][j] = queue[m][j] /\ queue[m][j] # r
          \/ m = n /\ j = Len(queue[n]) + 1 /\ queue'[m][j] = r
      BY <2>2, <2>3, Zenon
    <3>4. \A a, b \in Pool : \A y \in 1 .. Len(queue[a]), z \in 1 .. Len(queue[b]) :
            queue[a][y] = queue[b][z] => a = b /\ y = z
      BY <1>1, Zenon DEF Tokens
    <3>5. QED
      BY <3>1, <3>2, <3>3, <3>4
  <2>7. ASSUME NEW t \in Thread, proc'[t].pc # "idle"
        PROVE  /\ proc'[t].r \in 1 .. used' /\ req'[proc'[t].r].live
               /\ ~Queued(proc[t].r)'
               /\ \A u \in Thread : u # t /\ proc'[u].pc # "idle" => proc'[u].r # proc'[t].r
    <3>1. proc'[t] = proc[t] /\ proc[t].pc # "idle" /\ proc[t].r # r
      BY <1>3, <1>9, <2>7
    <3>2. /\ proc[t].r \in 1 .. used /\ req[proc[t].r].live /\ ~Queued(proc[t].r)
          /\ \A u \in Thread : u # t /\ proc[u].pc # "idle" => proc[u].r # proc[t].r
      BY <1>1, <3>1 DEF Tokens
    <3>3. ~Queued(proc[t].r)'
      <4>1. \A m \in Pool : \A i \in 1 .. Len(queue[m]) : queue[m][i] # proc[t].r
        BY <3>2 DEF Queued
      <4>2. \A m \in Pool : \A i \in 1 .. Len(queue'[m]) : queue'[m][i] # proc[t].r
        BY <2>2, <3>1, <4>1
      <4>3. QED
        BY <3>1, <4>2 DEF Queued
    <3>4. QED
      BY <1>2, <1>9, <3>1, <3>2, <3>3
  <2>8. ~Reading'
    BY <1>5 DEF Reading
  <2>9. QED
    BY <2>5, <2>6, <2>7, <2>8, Zenon DEF Tokens
<1>12. Sets'
  BY <1>1, <1>2, <1>5, <1>9, SetsFrame, Zenon
<1>13. \A x : Running(x) => Running(x)'
  BY <1>9, RunningFrame, Zenon
<1>14. Clears'
  <2> SUFFICES ASSUME NEW q \in Proc PROVE ClearOf(q)'
    BY Zenon DEF Clears
  <2>1. Same(q) /\ ClearOf(q)
    <3>1. q = Front => Same(q)
      <4>1. Clearing(Front) = FALSE /\ Clearing(Front)' = FALSE
        BY <1>2, <1>5 DEF Clearing
      <4>2. proc'[Front].kept = proc[Front].kept
        BY <1>2, <1>5, Zenon
      <4>3. QED
        BY <4>1, <4>2, Zenon DEF Same
    <3>2. q # Front => Same(q)
      BY <1>4, Zenon DEF Same, Only, Clearing
    <3>3. QED
      BY <1>1, <3>1, <3>2, Zenon DEF Clears
  <2>2. Clearing(q) => proc[q].c \in Conn
    BY <1>1, Zenon DEF Places, Proc, Clearing, Release
  <2>3. used \in Nat
    BY DEF TypeOK, CountType
  <2>4. QED
    <3>1. used' \in Nat /\ used' >= used
      BY <1>2, <2>3
    <3>2. Clearing(q) => /\ proc[q].c \in Conn
                         /\ requests'[proc[q].c] = requests[proc[q].c]
                         /\ mtx'[proc[q].c] = mtx[proc[q].c]
      BY <1>2, <2>2, Zenon
    <3>3. \A x \in proc[q].kept : Running(x) => Running(x)'
      BY <1>13, Zenon
    <3>4. QED
      BY <1>1, <1>2, <2>1, <3>1, <3>2, <3>3, ClearFrame
<1>15. Locked'
  BY <1>1, <1>2, <1>4, <1>5, <1>13 DEF Locked, Only, Proc
<1>16. Linked'
  BY <1>1, <1>2, <1>4, <1>5 DEF Linked, Passed, Only, Proc
<1>17. Home'
  <2>1. \A x \in Req : req[x].client # None => req[x].client \in Conn
    BY Zenon DEF TypeOK, ReqType
  <2>2. QED
    BY <1>1, <1>2, <1>5, <1>6, <1>13, <2>1, Zenon DEF Home
<1>18. QED
  BY <1>8, <1>10, <1>11, <1>12, <1>14, <1>15, <1>16, <1>17, Zenon DEF Good
===================================================================================
