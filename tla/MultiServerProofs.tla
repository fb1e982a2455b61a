---------------------------- MODULE MultiServerProofs ----------------------------
(*********************************************************************************)
(* Proofs about MultiServer, for any sets of connections, pools and threads and   *)
(* any bounds: a connection and its requests stay linked to each other (Linked)   *)
(* and no request of an earlier peer is taken up (StartsAtHome).                  *)
(*********************************************************************************)
EXTENDS MultiServerInvariant

-----------------------------------------------------------------------------------
(* The pool threads.                                                             *)

\* A step of a pool thread outside clear() leaves every clear() as it was.
LEMMA ThreadClears ==
  ASSUME TypeOK, Good, ~dead, NEW t \in Thread, Only(t), ~Clearing(t), ~Clearing(t)',
         proc'[t].kept = proc[t].kept, UNCHANGED <<mtx, used>>,
         \A c \in Conn : mtx[c] # None => requests'[c] = requests[c],
         \A r \in 1 .. used : req'[r].client \in {req[r].client, None},
         \A r \in 1 .. used : req'[r].live => req[r].live,
         \A q \in Proc : q # t /\ proc[q].pc = "unlock" =>
            LET r == proc[q].cur IN req'[r].live /\ req[r].mtx = q => req'[r].mtx = q,
         \A r \in Req : \/ Running(r) => Running(r)'
                        \/ \A c \in Conn : r \in requests[c] => \E p \in Proc : Passed(p, c, r)
  PROVE  Clears'
<1> USE ConstantsAssumption
<1>1. Places /\ Clears /\ Sets /\ t \in Proc
  BY Zenon DEF Good, Proc
<1> SUFFICES ASSUME NEW q \in Proc PROVE ClearOf(q)'
  BY Zenon DEF Clears
<1>2. ClearOf(q)
  BY <1>1, Zenon DEF Clears
<1>3. Same(q)
  <2>1. q = t => Same(q)
    <3>1. Clearing(t) = FALSE /\ Clearing(t)' = FALSE
      OBVIOUS
    <3>2. QED
      BY <3>1, Zenon DEF Same
  <2>2. q # t => Same(q)
    BY Zenon DEF Same, Only, Clearing
  <2>3. QED
    BY <2>1, <2>2, Zenon
<1>4. Clearing(q) =>
        /\ proc[q].c \in Conn /\ mtx[proc[q].c] = q /\ q # None /\ proc[q].kept \subseteq requests[proc[q].c]
  BY <1>1, <1>2, Zenon DEF Places, Proc, Clearing, Release, ClearOf
<1>5. used \in Nat
  BY DEF TypeOK, CountType
<1>6. proc[q].pc = "unlock" =>
        LET r == proc[q].cur IN req'[r].live /\ req[r].mtx = q => req'[r].mtx = q
  BY Zenon DEF Clearing
<1>7. ASSUME NEW r \in proc[q].kept, Running(r)
      PROVE  Running(r)'
  <2>1. Clearing(q)
    BY <1>2, <1>7, Zenon DEF ClearOf
  <2>2. r \in requests[proc[q].c] /\ r \in Req
    BY <1>4, <1>7, <2>1, Zenon DEF TypeOK, SetsType
  <2>3. ASSUME NEW p \in Proc, Passed(p, proc[q].c, r)
        PROVE  FALSE
    <3>1. Clearing(p) /\ proc[p].c = proc[q].c /\ r \notin proc[p].kept
      BY <2>3, Zenon DEF Passed, Clearing
    <3>2. mtx[proc[p].c] = p
      BY <1>1, <3>1, Zenon DEF Clears, ClearOf
    <3>3. QED
      BY <1>4, <1>7, <2>1, <3>1, <3>2, Zenon
  <2>4. QED
    BY <1>4, <1>7, <2>1, <2>2, <2>3, Zenon
<1>8. used' \in Nat /\ used' >= used
  BY <1>5
<1>9. Clearing(q) => /\ proc[q].c \in Conn
                     /\ requests'[proc[q].c] = requests[proc[q].c]
                     /\ mtx'[proc[q].c] = mtx[proc[q].c]
  BY <1>4, Zenon
<1>10. \A r \in proc[q].kept : Running(r) => Running(r)'
  BY <1>7, Zenon
<1>11. QED
  BY <1>1, <1>2, <1>3, <1>6, <1>8, <1>9, <1>10, ClearFrame, Zenon

\* The head of a queue goes to a pool thread.
LEMMA LTryPop ==
  ASSUME TypeOK, ~dead, Good, NEW t \in Thread, TryPop(t)
  PROVE  TypeOK' /\ Good'
<1> USE ConstantsAssumption
<1>1. /\ Places /\ Tokens /\ Clears /\ Locked /\ Sets /\ Linked /\ Home
      /\ t \in Proc /\ t # Front /\ Front \in Proc /\ PoolOf[t] \in Pool
  BY Zenon DEF Good, Proc
<1> DEFINE n == PoolOf[t]
           r == Head(queue[n])
           v == [proc[t] EXCEPT !.pc = "peek", !.r = r]
<1>2. /\ proc[t].pc = "idle" /\ queue[n] # <<>> /\ queue' = [queue EXCEPT ![n] = Tail(@)]
      /\ UNCHANGED <<conn, active, pooled, freed, requests, mtx, req, used, sessions, dead>>
  BY Zenon DEF TryPop, At
<1>3. proc' = [proc EXCEPT ![t] = v]
  BY <1>1, Zenon DEF TryPop, TypeOK, ProcType
<1>4. /\ QueueType' /\ r \in Req
      /\ Len(queue[n]) \in Nat /\ Len(queue[n]) >= 1 /\ queue[n][1] = r
      /\ Len(queue'[n]) = Len(queue[n]) - 1
      /\ \A i \in 1 .. Len(queue'[n]) : i + 1 \in 1 .. Len(queue[n]) /\ queue'[n][i] = queue[n][i + 1]
      /\ \A m \in Pool : m # n => queue'[m] = queue[m]
  <2> DEFINE q == queue[n]
  <2>1. q \in Seq(Req) /\ q # <<>> /\ queue \in [Pool -> Seq(Req)]
    BY <1>1, <1>2, Zenon DEF TypeOK, QueueType
  <2>2. /\ Tail(q) \in Seq(Req) /\ Head(q) \in Req /\ Len(q) \in Nat /\ Len(q) >= 1
        /\ q[1] = Head(q) /\ Len(Tail(q)) = Len(q) - 1
        /\ \A i \in 1 .. Len(Tail(q)) : i + 1 \in 1 .. Len(q) /\ Tail(q)[i] = q[i + 1]
    <3> HIDE DEF q
    <3> QED
      BY <2>1
  <2>3. queue'[n] = Tail(q) /\ \A m \in Pool : m # n => queue'[m] = queue[m]
    BY <1>1, <1>2, <2>1, Zenon
  <2>4. QueueType'
    BY <1>1, <1>2, <2>1, <2>2, Zenon DEF QueueType
  <2>5. QED
    BY <2>2, <2>3, <2>4, Zenon
<1>5. v \in Locals
  <2> HIDE DEF r
  <2>1. proc[t] \in Locals
    BY <1>1, Zenon DEF TypeOK, ProcType
  <2>2. QED
    BY <1>4, <2>1, Labels, Zenon DEF Locals
<1>6. ProcType' /\ Only(t) /\ proc'[t] = v
  BY <1>1, <1>3, <1>5, ProcStep, Zenon
<1>7. /\ proc'[t].pc = "peek" /\ proc'[t].r = r /\ proc'[t].kept = proc[t].kept
  BY <1>1, <1>6 DEF TypeOK, ProcType, Locals
<1>8. TypeOK'
  BY <1>2, <1>4, <1>6, Zenon DEF TypeOK, ConnType, SetsType, ReqType, CountType
<1> HIDE DEF n, r, v
<1>9. n \in Pool /\ 1 \in 1 .. Len(queue[n])
  BY <1>1, <1>4 DEF n
<1>10. proc'[Front] = proc[Front] /\ \A u \in Thread : u # t => proc'[u] = proc[u]
  BY <1>1, <1>6, Zenon DEF Only, Proc
<1>11. Places'
  BY <1>1, <1>7, <1>10, Zenon DEF Places, ThreadLabel, Holding, Release
<1>12. Tokens'
  <2>1. \A m \in Pool : \A i \in 1 .. Len(queue'[m]) :
          LET j == IF m = n THEN i + 1 ELSE i IN
          j \in 1 .. Len(queue[m]) /\ queue'[m][i] = queue[m][j]
    BY <1>4, Zenon
  <2>2. \A k, m \in Pool : \A i \in 1 .. Len(queue[k]), j \in 1 .. Len(queue[m]) :
          queue[k][i] = queue[m][j] => k = m /\ i = j
    BY <1>1, Zenon DEF Tokens
  <2>3. \A m \in Pool : \A i \in 1 .. Len(queue'[m]) :
          queue'[m][i] \in 1 .. used' /\ req'[queue'[m][i]].live
    BY <1>1, <1>2, <2>1 DEF Tokens
  <2>4. \A k, m \in Pool : \A i \in 1 .. Len(queue'[k]), j \in 1 .. Len(queue'[m]) :
          queue'[k][i] = queue'[m][j] => k = m /\ i = j
    <3>1. SUFFICES ASSUME NEW k \in Pool, NEW m \in Pool, NEW i \in 1 .. Len(queue'[k]),
                          NEW j \in 1 .. Len(queue'[m]), queue'[k][i] = queue'[m][j]
                   PROVE  k = m /\ i = j
      BY Zenon
    <3>2. PICK y \in 1 .. Len(queue[k]) : y = (IF k = n THEN i + 1 ELSE i) /\ queue'[k][i] = queue[k][y]
      BY <2>1, Zenon
    <3>3. PICK z \in 1 .. Len(queue[m]) : z = (IF m = n THEN j + 1 ELSE j) /\ queue'[m][j] = queue[m][z]
      BY <2>1, Zenon
    <3>4. queue[k][y] = queue[m][z]
      BY <3>1, <3>2, <3>3, Zenon
    <3>5. k = m /\ y = z
      BY <2>2, <3>4
    <3>6. i \in Nat /\ j \in Nat
      OBVIOUS
    <3>7. QED
      BY <3>2, <3>3, <3>5, <3>6
  <2>5. \A x : ~Queued(x) => \A m \in Pool : \A i \in 1 .. Len(queue'[m]) : queue'[m][i] # x
    BY <2>1 DEF Queued
  <2>6. \A m \in Pool : \A i \in 1 .. Len(queue'[m]) : queue'[m][i] # r
    <3>1. SUFFICES ASSUME NEW m \in Pool, NEW i \in 1 .. Len(queue'[m]), queue'[m][i] = r
                   PROVE  FALSE
      BY Zenon
    <3> DEFINE y == IF m = n THEN i + 1 ELSE i
    <3>2. y \in 1 .. Len(queue[m]) /\ queue[m][y] = queue[n][1]
      BY <1>4, <2>1, <3>1, Zenon
    <3>3. m = n /\ y = 1
      BY <1>9, <2>2, <3>2
    <3>4. i >= 1 /\ i \in Nat
      BY <1>4, <3>3 DEF QueueType
    <3>5. QED
      BY <3>3, <3>4
  <2>7. Queued(r) /\ r \in 1 .. used /\ req[r].live
    BY <1>1, <1>4, <1>9, Zenon DEF Queued, Tokens
  <2>8. \A u \in Thread : u # t /\ proc[u].pc # "idle" => proc[u].r # r
    BY <1>1, <2>7 DEF Tokens
  <2>9. Reading => proc[Front].r # r
    BY <1>1, <2>7, Zenon DEF Tokens
  <2>10. Reading' = Reading
    BY <1>10, Zenon DEF Reading
  <2>11. ASSUME NEW u \in Thread, proc'[u].pc # "idle"
         PROVE  /\ proc'[u].r \in 1 .. used' /\ req'[proc'[u].r].live
                /\ \A m \in Pool : \A i \in 1 .. Len(queue'[m]) : queue'[m][i] # proc'[u].r
                /\ \A w \in Thread : w # u /\ proc'[w].pc # "idle" => proc'[w].r # proc'[u].r
    <3>1. CASE u = t
      <4>1. \A w \in Thread : w # t /\ proc'[w].pc # "idle" => proc'[w].r # r
        BY <1>10, <2>8
      <4>2. QED
        BY <1>2, <1>7, <2>6, <2>7, <3>1, <4>1
    <3>2. CASE u # t
      <4>1. proc'[u] = proc[u] /\ proc[u].pc # "idle"
        BY <1>10, <2>11, <3>2, Zenon
      <4>2. /\ proc[u].r \in 1 .. used /\ req[proc[u].r].live /\ ~Queued(proc[u].r)
            /\ \A w \in Thread : w # u /\ proc[w].pc # "idle" => proc[w].r # proc[u].r
        BY <1>1, <4>1, Zenon DEF Tokens
      <4>3. \A w \in Thread : w # u /\ proc'[w].pc # "idle" => proc'[w].r # proc[u].r
        BY <1>7, <1>10, <2>8, <3>2, <4>1, <4>2, Zenon
      <4>4. QED
        BY <1>2, <2>5, <4>1, <4>2, <4>3, Zenon
    <3>3. QED
      BY <3>1, <3>2, Zenon
  <2>12. Reading' =>
       /\ proc'[Front].r \in 1 .. used' /\ req'[proc'[Front].r].live
       /\ \A m \in Pool : \A i \in 1 .. Len(queue'[m]) : queue'[m][i] # proc'[Front].r
       /\ \A w \in Thread : proc'[w].pc # "idle" => proc'[w].r # proc'[Front].r
    <3>1. Reading =>
       /\ proc[Front].r \in 1 .. used /\ req[proc[Front].r].live /\ ~Queued(proc[Front].r)
       /\ \A w \in Thread : proc[w].pc # "idle" => proc[w].r # proc[Front].r
      BY <1>1, Zenon DEF Tokens
    <3>2. Reading => \A w \in Thread : proc'[w].pc # "idle" => proc'[w].r # proc[Front].r
      BY <1>7, <1>10, <2>9, <3>1, Zenon
    <3>3. QED
      BY <1>2, <1>10, <2>5, <2>10, <3>1, <3>2, Zenon
  <2>13. QED
    BY <2>3, <2>4, <2>11, <2>12, Zenon DEF Tokens, Queued
<1>13. Sets'
  BY <1>1, <1>2, <1>7, <1>10, SetsFrame, Zenon
<1>14. \A x : Running(x) => Running(x)'
  BY <1>2, <1>10, RunningFrame, Zenon DEF Holding, Release
<1>15. Clears'
  BY <1>2, <1>6, <1>7, <1>14, ThreadClears, Zenon DEF Clearing
<1>16. Locked'
  BY <1>1, <1>2, <1>6, <1>7, <1>14 DEF Locked, Only, Proc, Holding, Release
<1>17. Linked'
  BY <1>1, <1>2, <1>6, <1>7 DEF Linked, Passed, Only, Proc
<1>18. Home'
  BY <1>1, <1>2, <1>10, <1>14, Zenon DEF Home
<1>19. QED
  BY <1>8, <1>11, <1>12, <1>13, <1>15, <1>16, <1>17, <1>18, Zenon DEF Good

\* The first look at the client of the request.
LEMMA LPeek ==
  ASSUME TypeOK, ~dead, Good, NEW t \in Thread, Peek(t)
  PROVE  TypeOK' /\ Good'
<1> USE ConstantsAssumption
<1>1. /\ Places /\ Tokens /\ Clears /\ Locked /\ Sets /\ Linked /\ Home
      /\ t \in Proc /\ t # Front /\ Front \in Proc
  BY Zenon DEF Good, Proc
<1>2. PICK l \in {"lock", "delete"} :
        /\ proc' = [proc EXCEPT ![t] = [@ EXCEPT !.pc = l]]
        /\ l = "delete" => req[proc[t].r].client = None
  BY <1>1, Zenon DEF Peek, Goto, TypeOK, ProcType
<1>3. proc[t].pc = "peek" /\ UNCHANGED <<shared, used, sessions, dead>>
  BY Zenon DEF Peek, At
<1> DEFINE v == [proc[t] EXCEPT !.pc = l]
<1>4. v \in Locals
  BY <1>1, <1>2, Labels, Zenon DEF TypeOK, ProcType, Locals
<1>5. ProcType' /\ Only(t) /\ proc'[t] = v
  BY <1>1, <1>2, <1>4, ProcStep, Zenon
<1>6. proc'[t].pc = l /\ proc'[t].r = proc[t].r /\ proc'[t].kept = proc[t].kept
  BY <1>1, <1>5 DEF TypeOK, ProcType, Locals
<1> HIDE DEF v
<1>7. TypeOK'
  BY <1>3, <1>5, Zenon DEF TypeOK, ConnType, SetsType, ReqType, QueueType, CountType, shared
<1>8. proc'[Front] = proc[Front] /\ \A u \in Thread : u # t => proc'[u] = proc[u]
  BY <1>1, <1>5, Zenon DEF Only, Proc
<1>9. Places'
  BY <1>1, <1>2, <1>6, <1>8 DEF Places, ThreadLabel, Holding, Release
<1>10. Tokens'
  BY <1>1, <1>3, <1>6, <1>8, TokensFrame, Zenon DEF Reading, shared
<1>11. Sets'
  BY <1>1, <1>2, <1>3, <1>6, <1>8 DEF Sets, shared
<1>12. \A x : Running(x) => Running(x)'
  BY <1>3, <1>8, RunningFrame, Zenon DEF Holding, Release
<1>13. Clears'
  BY <1>2, <1>3, <1>5, <1>6, <1>12, ThreadClears, Zenon DEF Clearing, shared
<1>14. Locked'
  BY <1>1, <1>2, <1>3, <1>5, <1>6, <1>12 DEF Locked, Only, Proc, Holding, Release, shared
<1>15. Linked'
  BY <1>1, <1>2, <1>3, <1>5, <1>6 DEF Linked, Passed, Only, Proc, shared
<1>16. Home'
  BY <1>1, <1>3, <1>8, <1>12, Zenon DEF Home, shared
<1>17. QED
  BY <1>7, <1>9, <1>10, <1>11, <1>13, <1>14, <1>15, <1>16, Zenon DEF Good

\* The lock of the request is taken.
LEMMA LLock ==
  ASSUME TypeOK, ~dead, Good, NEW t \in Thread, Lock(t)
  PROVE  TypeOK' /\ Good'
<1> USE ConstantsAssumption
<1>1. /\ Places /\ Tokens /\ Clears /\ Locked /\ Sets /\ Linked /\ Home
      /\ t \in Proc /\ t # Front /\ Front \in Proc
  BY DEF Good, Proc
<1> DEFINE r == proc[t].r
           v == [proc[t] EXCEPT !.pc = "check"]
<1>2. /\ proc[t].pc = "lock" /\ req[r].mtx = None /\ req' = [req EXCEPT ![r].mtx = t]
      /\ UNCHANGED <<conn, active, pooled, freed, requests, mtx, queue, used, sessions, dead>>
  BY Zenon DEF Lock, At
<1>3. proc' = [proc EXCEPT ![t] = v]
  BY <1>1, Zenon DEF Lock, Goto, TypeOK, ProcType
<1>4. r \in 1 .. used /\ r \in Req /\ \A u \in Thread : u # t /\ proc[u].pc # "idle" => proc[u].r # r
  BY <1>1, <1>2, Own, Zenon DEF Tokens
<1>5. v \in Locals
  BY <1>1, Labels, Zenon DEF TypeOK, ProcType, Locals
<1>6. ProcType' /\ Only(t) /\ proc'[t] = v
  BY <1>1, <1>3, <1>5, ProcStep, Zenon
<1>7. proc'[t].pc = "check" /\ proc'[t].r = r /\ proc'[t].kept = proc[t].kept
  BY <1>1, <1>6 DEF TypeOK, ProcType, Locals
<1>8. ReqType'
  BY <1>1, <1>2, <1>4 DEF TypeOK, ReqType
<1>9. TypeOK'
  BY <1>2, <1>6, <1>8, Zenon DEF TypeOK, ConnType, SetsType, QueueType, CountType
<1>10. /\ req'[r].mtx = t
       /\ \A x \in Req : x # r => req'[x] = req[x]
       /\ \A x \in Req : /\ req'[x].client = req[x].client /\ req'[x].live = req[x].live
                         /\ req'[x].session = req[x].session
  BY <1>2, <1>4 DEF TypeOK, ReqType
<1> HIDE DEF r, v
<1>11. proc'[Front] = proc[Front] /\ \A u \in Thread : u # t => proc'[u] = proc[u]
  BY <1>1, <1>6, Zenon DEF Only, Proc
<1>12. 1 .. used \subseteq Req
  BY <1>1, Own, Zenon
<1>13. Places'
  BY <1>1, <1>7, <1>11, Zenon DEF Places, ThreadLabel, Holding, Release
<1>14. Tokens'
  BY <1>1, <1>2, <1>7, <1>10, <1>11, TokensFrame DEF Reading, r
<1>15. Sets'
  <2>1. \A x \in Req : x > used => req'[x] = req[x]
    <3>1. used \in Nat /\ \A x \in Req : x > used => x \notin 1 .. used
      BY DEF TypeOK, CountType, Req
    <3>2. QED
      BY <1>4, <1>10, <3>1, Zenon
  <2>2. proc[Front].pc = "insert" => proc[Front].r \in Req
    BY <1>1, Own, Zenon DEF Reading
  <2>3. QED
    BY <1>1, <1>2, <1>7, <1>10, <1>11, <2>1, <2>2, SetsFrame, Zenon
<1>16. \A x : Running(x) => Running(x)'
  BY <1>2, <1>11, RunningFrame, Zenon DEF Holding, Release
<1>17. Clears'
  <2>1. \A q \in Proc : q # t /\ proc[q].pc = "unlock" =>
          LET x == proc[q].cur IN req'[x].live /\ req[x].mtx = q => req'[x].mtx = q
    <3>1. \A q \in Proc : q # None
      BY Zenon DEF Proc
    <3>2. \A q \in Proc : proc[q].pc = "unlock" => proc[q].cur \in Req
      BY <1>1, <1>12, Zenon DEF Clears, ClearOf
    <3>3. QED
      BY <1>2, <1>10, <3>1, <3>2 DEF r
  <2>2. QED
    BY <1>2, <1>6, <1>7, <1>10, <1>12, <1>16, <2>1, ThreadClears, Zenon DEF Clearing
<1>18. Locked'
  <2>1. \A u \in Thread : proc'[u].pc \in Holding => req'[proc'[u].r].mtx = u
    <3>1. \A u \in Thread : u # t /\ proc[u].pc \in Holding =>
            proc[u].r \in Req /\ proc[u].r # r /\ req[proc[u].r].mtx = u
      BY <1>1, <1>4, Own, Zenon DEF Locked, Holding, Release
    <3>2. QED
      BY <1>7, <1>10, <1>11, <3>1
  <2>2. \A u \in Thread : proc'[u].pc \in Holding \ {"check"} => req'[proc'[u].r].client # None
    <3>1. \A u \in Thread : proc[u].pc \in Holding \ {"check"} =>
            proc[u].r \in Req /\ req[proc[u].r].client # None
      BY <1>1, Own, Zenon DEF Locked, Holding, Release
    <3>2. QED
      BY <1>7, <1>10, <1>11, <3>1
  <2>4. \A x \in Req : req'[x].mtx # None =>
          Running(x)' \/ \E p \in Proc : proc'[p].pc = "unlock" /\ proc'[p].cur = x
    <3>1. ASSUME NEW x \in Req, req'[x].mtx # None
          PROVE Running(x)' \/ \E p \in Proc : proc'[p].pc = "unlock" /\ proc'[p].cur = x
      <4>1. CASE x = r
        BY <1>7, <4>1, Zenon DEF Running, Holding
      <4>2. CASE x # r
        <5>1. req[x].mtx # None
          BY <1>10, <3>1, <4>2, Zenon
        <5>2. \A p \in Proc : proc[p].pc = "unlock" => proc'[p] = proc[p]
          BY <1>2, <1>6, Zenon DEF Only
        <5>3. QED
          BY <1>1, <1>16, <5>1, <5>2, Zenon DEF Locked
      <4>3. QED
        BY <4>1, <4>2, Zenon
    <3>2. QED
      BY <3>1, Zenon
  <2>5. QED
    BY <2>1, <2>2, <2>4, Zenon DEF Locked
<1>19. Linked'
  <2>1. \A d \in Conn : requests[d] \subseteq Req
    BY Zenon DEF TypeOK, SetsType
  <2>2. \A p \in Proc : \A d, x : Passed(p, d, x) => Passed(p, d, x)'
    BY <1>2, <1>6, Zenon DEF Passed, Only
  <2>3. QED
    BY <1>1, <1>2, <1>7, <1>10, <1>11, <2>1, <2>2 DEF Linked
<1>20. Home'
  BY <1>1, <1>2, <1>10, <1>11, <1>16, Zenon DEF Home
<1>21. QED
  BY <1>9, <1>13, <1>14, <1>15, <1>17, <1>18, <1>19, <1>20 DEF Good

\* The second look finds the client: the request runs.
LEMMA LCheckRuns ==
  ASSUME TypeOK, ~dead, Good, NEW t \in Thread, Check(t), req[proc[t].r].client # None
  PROVE  TypeOK' /\ Good'
<1> USE ConstantsAssumption
<1>1. /\ Places /\ Tokens /\ Clears /\ Locked /\ Sets /\ Linked /\ Home
      /\ t \in Proc /\ t # Front /\ Front \in Proc
  BY Zenon DEF Good, Proc
<1> DEFINE r == proc[t].r
           c == req[r].client
           v == [proc[t] EXCEPT !.c = c, !.next = "clean", !.pc = "write"]
<1>2. /\ proc[t].pc = "check" /\ UNCHANGED req
      /\ UNCHANGED <<conn, active, pooled, freed, requests, mtx, queue, used, sessions, dead>>
  BY Zenon DEF Check, At
<1>3. proc' = [proc EXCEPT ![t] = v]
  BY <1>1, Zenon DEF Check, TypeOK, ProcType
<1>4. r \in Req /\ c \in Conn
  BY <1>1, <1>2, Own, Zenon DEF TypeOK, ReqType
<1>5. v \in Locals
  <2> HIDE DEF c
  <2> QED
    BY <1>1, <1>4, Labels, Zenon DEF TypeOK, ProcType, Locals
<1>6. ProcType' /\ Only(t) /\ proc'[t] = v
  BY <1>1, <1>3, <1>5, ProcStep, Zenon
<1>7. /\ proc'[t].pc = "write" /\ proc'[t].r = r /\ proc'[t].c = c /\ proc'[t].next = "clean"
      /\ proc'[t].kept = proc[t].kept
  BY <1>1, <1>6 DEF TypeOK, ProcType, Locals
<1>8. TypeOK'
  BY <1>2, <1>6, Zenon DEF TypeOK, ConnType, SetsType, ReqType, QueueType, CountType
<1> HIDE DEF c, v
<1>9. proc'[Front] = proc[Front] /\ \A u \in Thread : u # t => proc'[u] = proc[u]
  BY <1>1, <1>6, Zenon DEF Only, Proc
<1>10. Places'
  BY <1>1, <1>4, <1>7, <1>9 DEF Places, ThreadLabel, Holding, Release
<1>11. Tokens'
  BY <1>1, <1>2, <1>7, <1>9, TokensFrame, Zenon DEF Reading
<1>12. Sets'
  BY <1>1, <1>2, <1>7, <1>9, SetsFrame, Zenon
<1>13. \A x : Running(x) => Running(x)'
  BY <1>7, <1>9, RunningFrame, Zenon DEF Holding
<1>14. Clears'
  BY <1>2, <1>6, <1>7, <1>13, ThreadClears, Zenon DEF Clearing
<1>15. Locked'
  <2>1. \A p \in Proc : proc[p].pc = "unlock" => proc'[p] = proc[p]
    BY <1>2, <1>6, Zenon DEF Only
  <2>2. proc[t].pc \in Holding
    BY <1>2, Zenon DEF Holding
  <2>3. QED
    BY <1>1, <1>2, <1>4, <1>7, <1>9, <1>13, <2>1, <2>2 DEF Locked, c
<1>16. Linked'
  BY <1>1, <1>2, <1>6, <1>7 DEF Linked, Passed, Only, Proc
<1>17. Home'
  BY <1>1, <1>2, <1>9, <1>13, Zenon DEF Home
<1>18. QED
  BY <1>8, <1>10, <1>11, <1>12, <1>14, <1>15, <1>16, <1>17, Zenon DEF Good

\* A request whose client is gone is in a set only while a clear() is past it.
LEMMA Unlinked ==
  ASSUME TypeOK, ~dead, Good, NEW r \in Req, req[r].client = None
  PROVE  \A c \in Conn : r \in requests[c] => \E p \in Proc : Passed(p, c, r)
  BY ConstantsAssumption, Zenon DEF Good, Linked

\* What a thread that gives up the lock of its request r leaves as it was.
LEMMA Unlock ==
  ASSUME TypeOK, ~dead, Good, NEW t \in Thread, proc[t].pc \in Holding, NEW r \in Req, r = proc[t].r,
         UNCHANGED <<requests, mtx, queue, used, dead, conn>>, Only(t), TypeOK',
         proc[t].pc \in {"check", "unlink"},
         proc'[t].pc = "delete", proc'[t].r = r, proc'[t].kept = proc[t].kept,
         \A c \in Conn : r \in requests[c] => \E p \in Proc : Passed(p, c, r),
         \A x \in Req : x # r => req'[x] = req[x],
         req'[r].client = None, req'[r].mtx = None, req'[r].live = req[r].live
  PROVE  Good'
<1> USE ConstantsAssumption
<1>1. /\ Places /\ Tokens /\ Clears /\ Locked /\ Sets /\ Linked /\ Home
      /\ t \in Proc /\ t # Front /\ Front \in Proc
  BY Zenon DEF Good, Proc
<1>2. /\ r \in 1 .. used /\ r \in Req /\ 1 .. used \subseteq Req /\ req[r].live /\ req[r].mtx = t
      /\ \A u \in Thread : u # t /\ proc[u].pc # "idle" => proc[u].r # r
      /\ Reading => proc[Front].r # r /\ proc[Front].r \in Req
      /\ \A u \in Thread : proc[u].pc # "idle" => proc[u].r \in Req
  <2>1. proc[t].pc # "idle"
    BY Zenon
  <2>2. /\ r \in 1 .. used /\ req[r].live
        /\ \A u \in Thread : u # t /\ proc[u].pc # "idle" => proc[u].r # r
        /\ Reading => proc[Front].r # r
    BY <1>1, <2>1 DEF Tokens
  <2>3. req[r].mtx = t
    BY <1>1, Zenon DEF Locked
  <2>4. QED
    BY <1>1, <2>2, <2>3, Own, Zenon
<1>3. proc'[Front] = proc[Front] /\ \A u \in Thread : u # t => proc'[u] = proc[u]
  BY <1>1, Zenon DEF Only, Proc
<1>4. \A x \in Req : x # r => (Running(x) => Running(x)')
  BY <1>3, Zenon DEF Running
<1>5. Places'
  BY <1>1, <1>3, Zenon DEF Places, ThreadLabel, Holding, Release
<1>6. Tokens'
  BY <1>1, <1>3, TokensFrame, Zenon DEF Reading
<1>7. Sets'
  <2>1. \A x \in Req : x > used => req'[x] = req[x]
    <3>1. used \in Nat /\ \A x \in Req : x > used => x \notin 1 .. used
      BY DEF TypeOK, CountType, Req
    <3>2. QED
      BY <1>2, <3>1, Zenon
  <2>2. /\ \A x \in Req : req'[x].client # None => req'[x].live
        /\ \A x \in Req : x > used => req'[x].client = None /\ req'[x].mtx = None /\ ~req'[x].live
    BY <1>1, <2>1 DEF Sets
  <2>3. \A u \in Thread : proc'[u].pc = "delete" => req'[proc'[u].r].client = None
    <3>1. \A u \in Thread : u # t /\ proc[u].pc = "delete" =>
            proc[u].r \in Req /\ proc[u].r # r /\ req[proc[u].r].client = None
      BY <1>1, <1>2, Zenon DEF Sets
    <3>2. QED
      BY <1>3, <3>1
  <2>4. \A u \in Thread : proc'[u].pc = "unlink" => \A c \in Conn : proc'[u].r \notin requests'[c]
    BY <1>1, <1>3 DEF Sets
  <2>5. proc'[Front].pc = "insert" =>
       /\ req'[proc'[Front].r].client = proc'[Front].c
       /\ \A c \in Conn : proc'[Front].r \notin requests'[c]
    <3>1. proc[Front].pc = "insert" =>
       /\ proc[Front].r \in Req /\ proc[Front].r # r /\ req[proc[Front].r].client = proc[Front].c
       /\ \A c \in Conn : proc[Front].r \notin requests[c]
      BY <1>1, <1>2, Zenon DEF Sets, Reading
    <3>2. QED
      BY <1>3, <3>1, Zenon
  <2>6. QED
    BY <1>1, <2>1, <2>2, <2>3, <2>4, <2>5, Zenon DEF Sets
<1>8. Clears'
  <2>1. \A q \in Proc : q # t /\ proc[q].pc = "unlock" =>
          LET x == proc[q].cur IN req'[x].live /\ req[x].mtx = q => req'[x].mtx = q
    <3>1. \A q \in Proc : proc[q].pc = "unlock" => proc[q].cur \in Req
      BY <1>1, <1>2, Zenon DEF Clears, ClearOf
    <3>2. QED
      BY <1>2, <3>1, Zenon
  <2>2. \A x \in Req : \/ Running(x) => Running(x)'
                       \/ \A c \in Conn : x \in requests[c] => \E p \in Proc : Passed(p, c, x)
    BY <1>4, Zenon
  <2>3. ~Clearing(t) /\ ~Clearing(t)'
    BY Zenon DEF Clearing
  <2>4. \A x \in 1 .. used : req'[x].client \in {req[x].client, None}
    BY <1>2, Zenon
  <2>5. \A x \in 1 .. used : req'[x].live => req[x].live
    BY <1>2, Zenon
  <2>6. QED
    BY <2>1, <2>2, <2>3, <2>4, <2>5, ThreadClears, Zenon
<1>9. Locked'
  <2>1. \A u \in Thread : u # t /\ proc[u].pc \in Holding => proc[u].r \in Req /\ proc[u].r # r
    BY <1>2, Zenon DEF Holding, Release
  <2>2. proc'[t].pc \notin Holding
    BY Zenon DEF Holding, Release
  <2>3. \A u \in Thread : proc'[u].pc \in Holding => req'[proc'[u].r].mtx = u
    BY <1>1, <1>3, <2>1, <2>2 DEF Locked
  <2>4. \A u \in Thread : proc'[u].pc \in Holding \ {"check"} => req'[proc'[u].r].client # None
    BY <1>1, <1>3, <2>1, <2>2 DEF Locked
  <2>5. \A p \in Proc : proc[p].pc = "unlock" => proc'[p] = proc[p]
    BY Zenon DEF Only
  <2>6. ASSUME NEW x \in Req, req'[x].mtx # None
        PROVE Running(x)' \/ \E p \in Proc : proc'[p].pc = "unlock" /\ proc'[p].cur = x
    <3>1. x # r /\ req[x].mtx # None
      BY <2>6, Zenon
    <3>2. QED
      BY <1>1, <1>4, <2>5, <3>1 DEF Locked
  <2>7. QED
    BY <2>3, <2>4, <2>6, Zenon DEF Locked
<1>10. Linked'
  <2>1. \A d \in Conn : requests[d] \subseteq Req
    BY Zenon DEF TypeOK, SetsType
  <2>2. \A p \in Proc : \A d, x : Passed(p, d, x) => Passed(p, d, x)'
    BY Zenon DEF Passed, Only
  <2>3. ASSUME NEW d \in Conn, NEW x \in requests'[d]
        PROVE  (req'[x].live /\ req'[x].client = d) \/ \E q \in Proc : Passed(q, d, x)'
    <3>1. x \in Req /\ x \in requests[d]
      BY <2>1, Zenon
    <3>2. CASE x = r
      BY <2>2, <3>1, <3>2, Zenon
    <3>3. CASE x # r
      BY <1>1, <2>2, <3>1, <3>3, Zenon DEF Linked
    <3>4. QED
      BY <3>2, <3>3, Zenon
  <2>4. ASSUME NEW x \in Req, req'[x].client # None
        PROVE  \/ x \in requests'[req'[x].client]
               \/ proc'[Front].pc = "insert" /\ proc'[Front].r = x
               \/ \E u \in Thread : proc'[u].pc = "unlink" /\ proc'[u].r = x
    <3>1. x # r /\ req'[x] = req[x]
      BY <2>4, Zenon
    <3>2. \/ x \in requests[req[x].client]
          \/ proc[Front].pc = "insert" /\ proc[Front].r = x
          \/ \E u \in Thread : proc[u].pc = "unlink" /\ proc[u].r = x
      BY <1>1, <2>4, <3>1, Zenon DEF Linked
    <3>3. \A u \in Thread : proc[u].r = x => proc'[u] = proc[u]
      BY <1>3, <3>1, Zenon
    <3>4. QED
      BY <1>3, <3>1, <3>2, <3>3, Zenon
  <2>5. QED
    BY <2>3, <2>4, Zenon DEF Linked
<1>11. Home'
  <2>1. ASSUME NEW x \in Req, req'[x].client # None
        PROVE  x # r /\ req'[x] = req[x] /\ (Running(x) => Running(x)')
    BY <1>4, <2>1, Zenon
  <2>2. proc[Front].pc = "assigned" => proc[Front].c \in Conn
    BY <1>1, Zenon DEF Places
  <2>3. QED
    BY <1>1, <1>3, <2>1, <2>2, Zenon DEF Home
<1>12. QED
  BY <1>5, <1>6, <1>7, <1>8, <1>9, <1>10, <1>11, Zenon DEF Good

\* The second look at the client of the request.
LEMMA LCheck ==
  ASSUME TypeOK, ~dead, Good, NEW t \in Thread, Check(t)
  PROVE  TypeOK' /\ Good'
<1> USE ConstantsAssumption
<1>1. CASE req[proc[t].r].client # None
  BY <1>1, LCheckRuns, Zenon
<1>2. CASE req[proc[t].r].client = None
  <2>1. Tokens /\ t \in Proc /\ t # Front
    BY Zenon DEF Good, Proc
  <2> DEFINE r == proc[t].r
             v == [proc[t] EXCEPT !.pc = "delete"]
  <2>2. /\ proc[t].pc = "check" /\ req' = [req EXCEPT ![r].mtx = None]
        /\ UNCHANGED <<conn, active, pooled, freed, requests, mtx, queue, used, sessions, dead>>
    BY <1>2, Zenon DEF Check, At
  <2>3. proc' = [proc EXCEPT ![t] = v]
    BY <1>2, <2>1, Zenon DEF Check, Goto, TypeOK, ProcType
  <2>4. r \in Req
    BY <2>1, <2>2, Own, Zenon
  <2>5. v \in Locals
    BY <2>1, Labels, Zenon DEF TypeOK, ProcType, Locals
  <2>6. ProcType' /\ Only(t) /\ proc'[t] = v
    BY <2>1, <2>3, <2>5, ProcStep, Zenon
  <2>7. proc'[t].pc = "delete" /\ proc'[t].r = r /\ proc'[t].kept = proc[t].kept
    BY <2>1, <2>6 DEF TypeOK, ProcType, Locals
  <2>8. ReqType'
    BY <2>2, <2>4 DEF TypeOK, ReqType
  <2>9. TypeOK'
    BY <2>2, <2>6, <2>8, Zenon DEF TypeOK, ConnType, SetsType, QueueType, CountType
  <2>10. /\ \A x \in Req : x # r => req'[x] = req[x]
         /\ req'[r].client = None /\ req'[r].mtx = None /\ req'[r].live = req[r].live
    BY <1>2, <2>2, <2>4 DEF TypeOK, ReqType
  <2>11. \A c \in Conn : r \in requests[c] => \E p \in Proc : Passed(p, c, r)
    BY <1>2, <2>4, Unlinked, Zenon
  <2>12. proc[t].pc \in Holding
    BY <2>2, Zenon DEF Holding
  <2>13. QED
    <3> HIDE DEF r, v
    <3>1. PICK x \in Req : x = r
      BY <2>4, Zenon
    <3>2. /\ proc[t].pc \in Holding /\ proc[t].pc \in {"check", "unlink"} /\ x = proc[t].r
          /\ UNCHANGED <<requests, mtx, queue, used, dead, conn>>
          /\ proc'[t].pc = "delete" /\ proc'[t].r = x /\ proc'[t].kept = proc[t].kept
      BY <2>2, <2>7, <2>12, <3>1, Zenon DEF r
    <3>3. /\ \A c \in Conn : x \in requests[c] => \E p \in Proc : Passed(p, c, x)
          /\ \A y \in Req : y # x => req'[y] = req[y]
          /\ req'[x].client = None /\ req'[x].mtx = None /\ req'[x].live = req[x].live
      BY <2>10, <2>11, <3>1, Zenon
    <3>4. QED
      BY <2>6, <2>9, <3>2, <3>3, Unlock, Zenon
<1>3. QED
  BY <1>1, <1>2, Zenon

\* clean() lets go of the request, which is already in no set.
LEMMA LClean ==
  ASSUME TypeOK, ~dead, Good, NEW t \in Thread, Clean(t)
  PROVE  TypeOK' /\ Good'
<1> USE ConstantsAssumption
<1>1. Tokens /\ Sets /\ t \in Proc /\ t # Front
  BY Zenon DEF Good, Proc
<1> DEFINE r == proc[t].r
           v == [proc[t] EXCEPT !.pc = "delete"]
<1>2. /\ proc[t].pc = "unlink" /\ req' = [req EXCEPT ![r].client = None, ![r].mtx = None]
      /\ UNCHANGED <<conn, active, pooled, freed, requests, mtx, queue, used, sessions, dead>>
  BY Zenon DEF Clean, At
<1>3. proc' = [proc EXCEPT ![t] = v]
  BY <1>1, Zenon DEF Clean, Goto, TypeOK, ProcType
<1>4. r \in Req
  BY <1>1, <1>2, Own, Zenon
<1>5. v \in Locals
  BY <1>1, Labels, Zenon DEF TypeOK, ProcType, Locals
<1>6. ProcType' /\ Only(t) /\ proc'[t] = v
  BY <1>1, <1>3, <1>5, ProcStep, Zenon
<1>7. proc'[t].pc = "delete" /\ proc'[t].r = r /\ proc'[t].kept = proc[t].kept
  BY <1>1, <1>6 DEF TypeOK, ProcType, Locals
<1>8. ReqType'
  BY <1>2, <1>4 DEF TypeOK, ReqType
<1>9. TypeOK'
  BY <1>2, <1>6, <1>8, Zenon DEF TypeOK, ConnType, SetsType, QueueType, CountType
<1>10. /\ \A x \in Req : x # r => req'[x] = req[x]
       /\ req'[r].client = None /\ req'[r].mtx = None /\ req'[r].live = req[r].live
  BY <1>2, <1>4 DEF TypeOK, ReqType
<1>11. \A c \in Conn : r \in requests[c] => \E p \in Proc : Passed(p, c, r)
  BY <1>1, <1>2, Zenon DEF Sets
<1>12. proc[t].pc \in Holding
  BY <1>2, Zenon DEF Holding
<1>13. QED
  <2> HIDE DEF r, v
  <2>1. PICK x \in Req : x = r
    BY <1>4
  <2>2. /\ proc[t].pc \in Holding /\ proc[t].pc \in {"check", "unlink"} /\ x = proc[t].r
        /\ UNCHANGED <<requests, mtx, queue, used, dead, conn>>
        /\ proc'[t].pc = "delete" /\ proc'[t].r = x /\ proc'[t].kept = proc[t].kept
    BY <1>2, <1>7, <1>12, <2>1, Zenon DEF r
  <2>3. /\ \A c \in Conn : x \in requests[c] => \E p \in Proc : Passed(p, c, x)
        /\ \A y \in Req : y # x => req'[y] = req[y]
        /\ req'[x].client = None /\ req'[x].mtx = None /\ req'[x].live = req[x].live
    BY <1>10, <1>11, <2>1, Zenon
  <2>4. QED
    BY <1>6, <1>9, <2>2, <2>3, Unlock

\* delete_request() takes the request out of the set of its connection: it is in no
\* other one.
LEMMA LDeleteRequest ==
  ASSUME TypeOK, ~dead, Good, NEW t \in Thread, DeleteRequest(t)
  PROVE  TypeOK' /\ Good'
<1> USE ConstantsAssumption
<1>1. /\ Places /\ Tokens /\ Clears /\ Locked /\ Sets /\ Linked /\ Home
      /\ t \in Proc /\ t # Front /\ Front \in Proc
  BY DEF Good, Proc
<1> DEFINE r == proc[t].r
           c == req[r].client
           v == [proc[t] EXCEPT !.pc = "unlink", !.c = None, !.next = "idle"]
<1>2. /\ proc[t].pc = "clean" /\ mtx[c] = None /\ requests' = [requests EXCEPT ![c] = @ \ {r}]
      /\ UNCHANGED <<conn, active, pooled, freed, mtx, req, queue, used, sessions, dead>>
  BY Zenon DEF DeleteRequest, At
<1>3. proc' = [proc EXCEPT ![t] = v]
  BY <1>1, Zenon DEF DeleteRequest, TypeOK, ProcType
<1>4. r \in Req /\ c # None /\ c \in Conn
  BY <1>1, <1>2, Own DEF TypeOK, ReqType, Locked, Holding
<1>5. v \in Locals
  BY <1>1, Labels, Zenon DEF TypeOK, ProcType, Locals
<1>6. ProcType' /\ Only(t) /\ proc'[t] = v
  BY <1>1, <1>3, <1>5, ProcStep, Zenon
<1>7. proc'[t].pc = "unlink" /\ proc'[t].r = r /\ proc'[t].kept = proc[t].kept
  BY <1>1, <1>6 DEF TypeOK, ProcType, Locals
<1>8. \A d \in Conn : requests'[d] = IF d = c THEN requests[c] \ {r} ELSE requests[d]
  BY <1>2, Zenon DEF TypeOK, SetsType
<1>9. SetsType'
  BY <1>2, Zenon DEF TypeOK, SetsType
<1>10. TypeOK'
  BY <1>2, <1>6, <1>9, Zenon DEF TypeOK, ConnType, ReqType, QueueType, CountType
<1> HIDE DEF c, v
<1>11. proc'[Front] = proc[Front] /\ \A u \in Thread : u # t => proc'[u] = proc[u]
  BY <1>1, <1>6 DEF Only, Proc
<1>12. \A d \in Conn : requests'[d] \subseteq requests[d] /\ \A x \in requests[d] : x # r => x \in requests'[d]
  BY <1>8, Zenon
<1>13. \A d \in Conn : r \notin requests'[d]
  <2>1. SUFFICES ASSUME NEW d \in Conn, d # c, r \in requests[d]
                 PROVE  FALSE
    BY <1>8, Zenon
  <2>2. PICK p \in Proc : Passed(p, d, r)
    BY <1>1, <2>1, Zenon DEF Linked, c
  <2>3. Clearing(p) /\ proc[p].c = d /\ r \notin proc[p].left \cup proc[p].kept
    BY <2>2, Zenon DEF Passed, Clearing
  <2>4. req[r].client = None
    BY <1>1, <2>1, <2>3 DEF Clears, ClearOf
  <2>5. QED
    BY <1>4, <2>4, Zenon DEF c
<1>14. Places'
  BY <1>1, <1>7, <1>11, Zenon DEF Places, ThreadLabel, Holding, Release
<1>15. Tokens'
  BY <1>1, <1>2, <1>7, <1>11, TokensFrame, Zenon DEF Reading
<1>16. Sets'
  <2>1. /\ \A d, e \in Conn : d # e => requests'[d] \cap requests'[e] = {}
        /\ \A d \in Conn : requests'[d] \subseteq 1 .. used'
    BY <1>1, <1>2, <1>12, Zenon DEF Sets
  <2>2. \A u \in Thread : proc'[u].pc = "delete" => req'[proc'[u].r].client = None
    BY <1>1, <1>2, <1>7, <1>11 DEF Sets
  <2>3. \A u \in Thread : proc'[u].pc = "unlink" => \A d \in Conn : proc'[u].r \notin requests'[d]
    BY <1>1, <1>7, <1>11, <1>12, <1>13 DEF Sets
  <2>4. proc'[Front].pc = "insert" =>
       /\ req'[proc'[Front].r].client = proc'[Front].c
       /\ \A d \in Conn : proc'[Front].r \notin requests'[d]
    BY <1>1, <1>2, <1>11, <1>12, Zenon DEF Sets
  <2>5. QED
    BY <1>1, <1>2, <2>1, <2>2, <2>3, <2>4, Zenon DEF Sets
<1>17. \A x : Running(x) => Running(x)'
  BY <1>7, <1>11, RunningFrame, Zenon DEF Holding
<1>18. Clears'
  <2>1. \A d \in Conn : mtx[d] # None => requests'[d] = requests[d]
    BY <1>2, <1>8, Zenon
  <2>2. QED
    BY <1>2, <1>6, <1>7, <1>17, <2>1, ThreadClears, Zenon DEF Clearing
<1>19. Locked'
  <2>1. \A p \in Proc : proc[p].pc = "unlock" => proc'[p] = proc[p]
    BY <1>2, <1>6, Zenon DEF Only
  <2>2. proc[t].pc \in Holding \ {"check"}
    BY <1>2, Zenon DEF Holding
  <2>3. QED
    BY <1>1, <1>2, <1>7, <1>11, <1>17, <2>1, <2>2 DEF Locked
<1>20. Linked'
  <2>1. \A p \in Proc : \A d, x : Passed(p, d, x) => Passed(p, d, x)'
    BY <1>2, <1>6, Zenon DEF Passed, Only
  <2>2. ASSUME NEW d \in Conn, NEW x \in requests'[d]
        PROVE  (req'[x].live /\ req'[x].client = d) \/ \E q \in Proc : Passed(q, d, x)'
    BY <1>1, <1>2, <1>12, <2>1, Zenon DEF Linked
  <2>3. ASSUME NEW x \in Req, req'[x].client # None
        PROVE  \/ x \in requests'[req'[x].client]
               \/ proc'[Front].pc = "insert" /\ proc'[Front].r = x
               \/ \E u \in Thread : proc'[u].pc = "unlink" /\ proc'[u].r = x
    <3>1. CASE x = r
      BY <1>7, <3>1, Zenon
    <3>2. CASE x # r
      <4>1. req[x].client \in Conn
        BY <1>2, <2>3, Zenon DEF TypeOK, ReqType
      <4>2. \A u \in Thread : proc[u].pc = "unlink" => proc'[u] = proc[u]
        BY <1>2, <1>11, Zenon
      <4>3. QED
        BY <1>1, <1>2, <1>11, <1>12, <2>3, <3>2, <4>1, <4>2 DEF Linked
    <3>3. QED
      BY <3>1, <3>2, Zenon
  <2>4. QED
    BY <2>2, <2>3, Zenon DEF Linked
<1>21. Home'
  BY <1>1, <1>2, <1>11, <1>17, Zenon DEF Home
<1>22. QED
  BY <1>10, <1>14, <1>15, <1>16, <1>18, <1>19, <1>20, <1>21 DEF Good

\* The request is freed: nobody else has it.
LEMMA LDelete ==
  ASSUME TypeOK, ~dead, Good, NEW t \in Thread, Delete(t)
  PROVE  TypeOK' /\ Good'
<1> USE ConstantsAssumption
<1>1. /\ Places /\ Tokens /\ Clears /\ Locked /\ Sets /\ Linked /\ Home
      /\ t \in Proc /\ t # Front /\ Front \in Proc
  BY DEF Good, Proc
<1>2. /\ proc[t].pc = "delete" /\ req' = [req EXCEPT ![proc[t].r] = Unallocated]
      /\ proc' = [proc EXCEPT ![t] = Idle] /\ proc[t].kept = {}
      /\ UNCHANGED <<conn, active, pooled, freed, requests, mtx, queue, used, sessions, dead>>
  BY <1>1, Zenon DEF Delete, At, Clears, ClearOf, Clearing
<1>3. PICK r \in Req : r = proc[t].r
  BY <1>1, <1>2, Own, Zenon
<1>4. /\ r \in 1 .. used /\ 1 .. used \subseteq Req /\ req[r].client = None
      /\ \A m \in Pool : \A i \in 1 .. Len(queue[m]) : queue[m][i] # r
      /\ \A u \in Thread : u # t /\ proc[u].pc # "idle" => proc[u].r # r
      /\ \A u \in Thread : proc[u].pc # "idle" => proc[u].r \in Req
      /\ Reading => proc[Front].r # r /\ proc[Front].r \in Req
  BY <1>1, <1>2, <1>3, Own, Zenon DEF Tokens, Queued, Sets
<1>5. ProcType' /\ Only(t) /\ proc'[t] = Idle
  BY <1>1, <1>2, IdleType, ProcStep, Zenon
<1>6. proc'[t].pc = "idle" /\ proc'[t].kept = {}
  BY <1>5 DEF Idle
<1>7. /\ ReqType' /\ \A x \in Req : x # r => req'[x] = req[x]
      /\ req'[r].client = None /\ req'[r].mtx = None /\ ~req'[r].live
  <2>1. Unallocated \in [client: Conn \cup {None}, mtx: Proc \cup {None}, live: BOOLEAN,
                         kind: Kinds, session: Nat]
    BY Zenon DEF Unallocated, Kinds
  <2>2. ReqType'
    BY <1>2, <2>1, Zenon DEF TypeOK, ReqType
  <2>3. req'[r] = Unallocated /\ \A x \in Req : x # r => req'[x] = req[x]
    BY <1>2, <1>3, Zenon DEF TypeOK, ReqType
  <2>4. QED
    BY <2>2, <2>3 DEF Unallocated
<1>8. TypeOK'
  BY <1>2, <1>5, <1>7, Zenon DEF TypeOK, ConnType, SetsType, QueueType, CountType
<1>9. proc'[Front] = proc[Front] /\ \A u \in Thread : u # t => proc'[u] = proc[u]
  BY <1>1, <1>5, Zenon DEF Only, Proc
<1>10. Places'
  BY <1>1, <1>6, <1>9, Zenon DEF Places, ThreadLabel, Holding, Release
<1>11. Tokens'
  <2>1. \A m \in Pool : \A i \in 1 .. Len(queue'[m]) :
          queue'[m][i] \in 1 .. used' /\ req'[queue'[m][i]].live
    BY <1>1, <1>2, <1>4, <1>7 DEF Tokens
  <2>2. ASSUME NEW u \in Thread, proc'[u].pc # "idle"
        PROVE  /\ proc'[u].r \in 1 .. used' /\ req'[proc'[u].r].live
               /\ ~Queued(proc[u].r)'
               /\ \A w \in Thread : w # u /\ proc'[w].pc # "idle" => proc'[w].r # proc'[u].r
    <3>1. u # t /\ proc'[u] = proc[u] /\ proc[u].pc # "idle" /\ proc[u].r # r /\ proc[u].r \in Req
      BY <1>4, <1>6, <1>9, <2>2, Zenon
    <3>2. /\ proc[u].r \in 1 .. used /\ req[proc[u].r].live /\ ~Queued(proc[u].r)
          /\ \A w \in Thread : w # u /\ proc[w].pc # "idle" => proc[w].r # proc[u].r
      BY <1>1, <3>1, Zenon DEF Tokens
    <3>3. ~Queued(proc[u].r)'
      BY <1>2, <3>1, <3>2, Zenon DEF Queued
    <3>4. \A w \in Thread : proc'[w].pc # "idle" => proc'[w] = proc[w]
      BY <1>6, <1>9, Zenon
    <3>5. QED
      <4>1. \A w \in Thread : w # u /\ proc'[w].pc # "idle" => proc'[w].r # proc'[u].r
        BY <3>1, <3>2, <3>4
      <4>2. proc'[u].r \in 1 .. used' /\ req'[proc'[u].r].live
        BY <1>2, <1>7, <3>1, <3>2
      <4>3. QED
        BY <3>3, <4>1, <4>2
  <2>3. Reading' =>
         /\ proc'[Front].r \in 1 .. used' /\ req'[proc'[Front].r].live
         /\ ~Queued(proc[Front].r)'
         /\ \A w \in Thread : proc'[w].pc # "idle" => proc'[w].r # proc'[Front].r
    <3>1. Reading' = Reading
      BY <1>9, Zenon DEF Reading
    <3>2. Reading =>
         /\ proc[Front].r \in 1 .. used /\ req[proc[Front].r].live /\ ~Queued(proc[Front].r)
         /\ \A w \in Thread : proc[w].pc # "idle" => proc[w].r # proc[Front].r
      BY <1>1, Zenon DEF Tokens
    <3>3. Reading => ~Queued(proc[Front].r)'
      BY <1>2, <1>9, <3>2 DEF Queued
    <3>4. \A w \in Thread : proc'[w].pc # "idle" => proc'[w] = proc[w]
      BY <1>6, <1>9, Zenon
    <3>5. QED
      BY <1>2, <1>4, <1>7, <1>9, <3>1, <3>2, <3>3, <3>4
  <2>4. \A k, m \in Pool : \A i \in 1 .. Len(queue'[k]), j \in 1 .. Len(queue'[m]) :
          queue'[k][i] = queue'[m][j] => k = m /\ i = j
    BY <1>1, <1>2 DEF Tokens
  <2>5. QED
    BY <2>1, <2>2, <2>3, <2>4, Zenon DEF Tokens
<1>12. Sets'
  <2>1. \A x \in Req : x > used => req'[x].client = None /\ req'[x].mtx = None /\ ~req'[x].live
    BY <1>1, <1>7, Zenon DEF Sets
  <2>2. \A x \in Req : req'[x].client # None => req'[x].live
    BY <1>1, <1>7, Zenon DEF Sets
  <2>3. \A u \in Thread : proc'[u].pc = "delete" => req'[proc'[u].r].client = None
    <3>1. \A u \in Thread : proc'[u].pc = "delete" =>
            /\ proc'[u] = proc[u] /\ proc[u].r \in Req /\ proc[u].r # r
            /\ req[proc[u].r].client = None
      BY <1>1, <1>4, <1>6, <1>9 DEF Sets
    <3>2. QED
      BY <1>7, <3>1
  <2>4. \A u \in Thread : proc'[u].pc = "unlink" => \A c \in Conn : proc'[u].r \notin requests'[c]
    BY <1>1, <1>2, <1>6, <1>9 DEF Sets
  <2>5. proc'[Front].pc = "insert" =>
       /\ req'[proc'[Front].r].client = proc'[Front].c
       /\ \A c \in Conn : proc'[Front].r \notin requests'[c]
    <3>1. proc[Front].pc = "insert" =>
       /\ proc[Front].r \in Req /\ proc[Front].r # r /\ req[proc[Front].r].client = proc[Front].c
       /\ \A c \in Conn : proc[Front].r \notin requests[c]
      BY <1>1, <1>4, Zenon DEF Sets, Reading
    <3>2. QED
      BY <1>2, <1>7, <1>9, <3>1, Zenon
  <2>6. QED
    BY <1>1, <1>2, <2>1, <2>2, <2>3, <2>4, <2>5, Zenon DEF Sets
<1>13. \A x : Running(x) => Running(x)'
  BY <1>2, <1>9, RunningFrame, Zenon DEF Holding, Release
<1>14. Clears'
  <2>1. ~Clearing(t) /\ ~Clearing(t)' /\ proc'[t].kept = proc[t].kept
    BY <1>2, <1>6, Zenon DEF Clearing
  <2>2. \A x \in 1 .. used : req'[x].client \in {req[x].client, None} /\ (req'[x].live => req[x].live)
    BY <1>4, <1>7, Zenon
  <2>3. \A q \in Proc : q # t /\ proc[q].pc = "unlock" =>
          LET x == proc[q].cur IN req'[x].live /\ req[x].mtx = q => req'[x].mtx = q
    <3>1. \A q \in Proc : proc[q].pc = "unlock" => proc[q].cur \in Req
      BY <1>1, <1>4, Zenon DEF Clears, ClearOf
    <3>2. QED
      BY <1>7, <3>1, Zenon
  <2>4. QED
    BY <1>2, <1>5, <1>13, <2>1, <2>2, <2>3, ThreadClears, Zenon
<1>15. Locked'
  <2>1. \A u \in Thread : proc'[u].pc \in Holding =>
          proc'[u] = proc[u] /\ proc[u].r \in Req /\ req'[proc[u].r] = req[proc[u].r]
    BY <1>4, <1>6, <1>7, <1>9, Zenon DEF Holding, Release
  <2>2. \A p \in Proc : proc[p].pc = "unlock" => proc'[p] = proc[p]
    BY <1>2, <1>5, Zenon DEF Only
  <2>3. \A x \in Req : req'[x].mtx # None => req[x].mtx # None
    BY <1>7, Zenon
  <2>4. QED
    BY <1>1, <1>13, <2>1, <2>2, <2>3 DEF Locked
<1>16. Linked'
  <2>1. \A d \in Conn : requests[d] \subseteq Req
    BY Zenon DEF TypeOK, SetsType
  <2>2. \A p \in Proc : \A d, x : Passed(p, d, x) => Passed(p, d, x)'
    BY <1>2, <1>5, Zenon DEF Passed, Only
  <2>3. ASSUME NEW d \in Conn, NEW x \in requests'[d]
        PROVE  (req'[x].live /\ req'[x].client = d) \/ \E q \in Proc : Passed(q, d, x)'
    <3>1. x \in Req /\ x \in requests[d]
      BY <1>2, <2>1, Zenon
    <3>2. CASE x = r
      BY <1>4, <2>2, <3>1, <3>2, Unlinked, Zenon
    <3>3. CASE x # r
      BY <1>1, <1>7, <2>2, <3>1, <3>3, Zenon DEF Linked
    <3>4. QED
      BY <3>2, <3>3, Zenon
  <2>4. ASSUME NEW x \in Req, req'[x].client # None
        PROVE  \/ x \in requests'[req'[x].client]
               \/ proc'[Front].pc = "insert" /\ proc'[Front].r = x
               \/ \E u \in Thread : proc'[u].pc = "unlink" /\ proc'[u].r = x
    <3>1. x # r /\ req'[x] = req[x]
      BY <1>7, <2>4, Zenon
    <3>2. \A u \in Thread : proc[u].pc = "unlink" => proc'[u] = proc[u]
      BY <1>2, <1>9, Zenon
    <3>3. QED
      BY <1>1, <1>2, <1>9, <2>4, <3>1, <3>2 DEF Linked
  <2>5. QED
    BY <2>3, <2>4, Zenon DEF Linked
<1>17. Home'
  <2>1. ASSUME NEW x \in Req, req'[x].client # None
        PROVE  x # r /\ req'[x] = req[x]
    BY <1>7, <2>1
  <2>2. proc[Front].pc = "assigned" => proc[Front].c \in Conn
    BY <1>1, Zenon DEF Places
  <2>3. QED
    BY <1>1, <1>2, <1>9, <1>13, <2>1, <2>2, Zenon DEF Home
<1>18. QED
  BY <1>8, <1>10, <1>11, <1>12, <1>14, <1>15, <1>16, <1>17, Zenon DEF Good

-----------------------------------------------------------------------------------
(* The theorems.                                                                 *)

\* No connection, no request.
LEMMA IInvInit == Init => IInv
<1> USE ConstantsAssumption
<1> SUFFICES ASSUME Init PROVE IInv
  BY Zenon
<1>1. TypeOK
  <2>1. ConnType /\ SetsType /\ QueueType /\ CountType
    <3>1. ConnType
      BY Zenon DEF Init, ConnType
    <3>2. SetsType
      BY Zenon DEF Init, SetsType
    <3>3. QueueType
      <4>1. <<>> \in Seq(Req)
        OBVIOUS
      <4>2. QED
        BY <4>1, Zenon DEF Init, QueueType
    <3>4. CountType
      <4>1. used = 0 /\ sessions = 0 /\ dead = FALSE
        BY Zenon DEF Init
      <4>2. used \in 0 .. MaxReq /\ sessions \in Nat
        BY <4>1
      <4>3. dead \in BOOLEAN
        BY <4>1, Zenon
      <4>4. QED
        BY <4>2, <4>3, Zenon DEF CountType
    <3>5. QED
      BY <3>1, <3>2, <3>3, <3>4, Zenon
  <2>2. ReqType
    BY Zenon DEF Init, ReqType, Unallocated, Kinds
  <2>3. ProcType
    BY IdleType, Zenon DEF Init, ProcType
  <2>4. QED
    BY <2>1, <2>2, <2>3, Zenon DEF TypeOK
<1>2. /\ \A p \in Proc : proc[p].pc = "idle" /\ proc[p].next = "idle" /\ proc[p].kept = {}
      /\ \A r \in Req : req[r].client = None /\ req[r].mtx = None /\ ~req[r].live
      /\ \A c \in Conn : requests[c] = {}
      /\ \A n \in Pool : queue[n] = <<>>
  BY Zenon DEF Init, Idle, Unallocated
<1>3. Front \in Proc /\ Thread \subseteq Proc
  BY Zenon DEF Proc
<1>4. Places
  BY <1>2, <1>3, Zenon DEF Places, ThreadLabel, FrontLabel, Release
<1>5. Tokens
  <2>1. \A n \in Pool : Len(queue[n]) = 0
    BY <1>2
  <2>2. QED
    BY <1>2, <1>3, <2>1 DEF Tokens, Reading
<1>6. Clears
  BY <1>2, Zenon DEF Clears, ClearOf, Clearing
<1>7. Locked
  BY <1>2, <1>3, Zenon DEF Locked, Holding, Release
<1>8. Sets /\ Linked /\ Home
  BY <1>2, <1>3, Zenon DEF Sets, Linked, Home
<1>9. QED
  BY <1>1, <1>4, <1>5, <1>6, <1>7, <1>8, Zenon DEF IInv, Good

\* A step is taken only while no deleted request has been touched.
LEMMA Alive == Next => ~dead
<1>1. ASSUME NEW p \in Proc, Releasing(p) PROVE ~dead
  BY <1>1, Zenon DEF Releasing, ClearLock, ClearKeep, ClearDrop, ClearUnlock, ClearRound, ReleaseTest,
              ReleaseMark, ReleaseFree, At
<1>2. FrontWork => ~dead
  BY Zenon DEF FrontWork, AcceptThrows, Assign, Assigned, Insert, HungUp, PushQueue, At
<1>3. Peers => ~dead
  BY Zenon DEF Peers, Accept, Hangup, Receive, At
<1>4. ASSUME NEW t \in Thread, Work(t) PROVE ~dead
  BY <1>4, Zenon DEF Work, TryPop, Peek, Lock, Check, WriteAnswer, WriteFails, Sent, DeleteRequest, Clean, Delete, At
<1>5. QED
  BY <1>1, <1>2, <1>3, <1>4, Zenon DEF Next

\* Every step keeps the invariant.
LEMMA IInvNext == IInv /\ [Next]_vars => IInv'
<1> SUFFICES ASSUME IInv, [Next]_vars PROVE IInv'
  BY Zenon
<1>1. ASSUME Next, TypeOK, ~dead, Good PROVE TypeOK' /\ (~dead' => Good')
  <2>1. ASSUME NEW p \in Proc, Releasing(p) PROVE TypeOK' /\ (~dead' => Good')
    <3>1. CASE ClearLock(p)
      BY <1>1, <3>1, LClearLock, Zenon
    <3>2. CASE ClearKeep(p)
      BY <1>1, <3>2, LClearKeep, Zenon
    <3>3. CASE ClearDrop(p)
      BY <1>1, <3>3, LClearDrop
    <3>4. CASE ClearUnlock(p)
      BY <1>1, <3>4, LClearUnlock, Zenon
    <3>5. CASE ClearRound(p)
      BY <1>1, <3>5, LClearRound
    <3>6. CASE ReleaseTest(p)
      BY <1>1, <3>6, LReleaseTest
    <3>7. CASE ReleaseMark(p)
      BY <1>1, <3>7, LReleaseMark
    <3>8. CASE ReleaseFree(p)
      BY <1>1, <3>8, LReleaseFree
    <3>9. QED
      BY <2>1, <3>1, <3>2, <3>3, <3>4, <3>5, <3>6, <3>7, <3>8, Zenon DEF Releasing
  <2>2. ASSUME FrontWork PROVE TypeOK' /\ Good'
    BY <1>1, <2>2, LAcceptThrows, LAssign, LAssigned, LInsert, LHungUp, LPushQueue, Zenon DEF FrontWork
  <2>3. ASSUME Peers PROVE TypeOK' /\ Good'
    BY <1>1, <2>3, LAccept, LHangup, LReceive, Zenon DEF Peers
  <2>4. ASSUME NEW t \in Thread, Work(t) PROVE TypeOK' /\ Good'
    BY <1>1, <2>4, LTryPop, LPeek, LLock, LCheck, LWriteAnswer, LWriteFails, LSent, LDeleteRequest, LClean, LDelete
       DEF Work
  <2>5. QED
    BY <1>1, <2>1, <2>2, <2>3, <2>4, Zenon DEF Next
<1>2. ASSUME UNCHANGED vars PROVE IInv'
  <2>1. UNCHANGED <<conn, active, pooled, freed, requests, mtx, req, queue, proc, used, sessions, dead>>
    BY <1>2, Zenon DEF vars, shared
  <2>2. TypeOK' = TypeOK
    BY <2>1, Zenon DEF TypeOK, ConnType, SetsType, ReqType, QueueType, ProcType, CountType
  <2>3. Places' = Places
    BY <2>1, Zenon DEF Places
  <2>4. Tokens' = Tokens
    BY <2>1 DEF Tokens, Queued, Reading
  <2>5. Clears' = Clears
    BY <2>1 DEF Clears, ClearOf, Clearing, Running
  <2>6. Locked' = Locked
    BY <2>1, Zenon DEF Locked, Running
  <2>7. Sets' = Sets
    BY <2>1, Zenon DEF Sets
  <2>8. Linked' = Linked
    BY <2>1 DEF Linked, Passed
  <2>9. Home' = Home
    BY <2>1, Zenon DEF Home, Running
  <2>10. QED
    BY <2>1, <2>2, <2>3, <2>4, <2>5, <2>6, <2>7, <2>8, <2>9, Zenon DEF IInv, Good
<1>3. QED
  BY <1>1, <1>2, Alive, Zenon DEF IInv

\* The invariant holds in every reachable state.
LEMMA Invariance == Spec => []IInv
  BY IInvInit, IInvNext, PTL DEF Spec

\* Linked for any number of connections, pools and pool threads and any bounds: no
\* interleaving of clear(), delete_request(), the queue and the end of a request leaves a
\* connection's set and the requests' client pointers at odds.
THEOREM LinkedSafety == Spec => []Linked
<1>1. IInv => Linked
  BY Zenon DEF IInv, Good, Linked
<1>2. QED
  BY <1>1, Invariance, PTL

\* A pool thread that takes the lock of its request finds the session that sent it.
LEMMA LockAtHome ==
  ASSUME IInv, [Next]_vars
  PROVE  \A t \in Thread : LET r == proc[t].r c == req[r].client IN
           proc[t].pc = "lock" /\ proc'[t].pc = "check" /\ c # None
             => req[r].session = conn[c].session
<1> USE ConstantsAssumption
<1> SUFFICES ASSUME NEW t \in Thread, proc[t].pc = "lock", proc'[t].pc = "check",
                    req[proc[t].r].client # None,
                    req[proc[t].r].session # conn[req[proc[t].r].client].session
             PROVE  FALSE
  BY Zenon
<1>1. ~dead
  BY Alive, Zenon DEF vars
<1>2. TypeOK /\ Tokens /\ Home
  BY <1>1, Zenon DEF IInv, Good
<1>3. proc[t].r \in Req
  BY <1>2, Own, Zenon
<1>4. Running(proc[t].r)
  BY <1>2, <1>3, Zenon DEF Home
<1>5. PICK u \in Thread : proc[u].pc \in Holding /\ proc[u].r = proc[t].r
  BY <1>4, Zenon DEF Running
<1>6. u # t /\ proc[u].pc # "idle"
  BY <1>5, Zenon DEF Holding, Release
<1>7. QED
  BY <1>2, <1>5, <1>6, Zenon DEF Tokens

\* StartsAtHome for any number of connections, pools and pool threads and any bounds: the
\* clear of assign() leaves no request of an earlier peer that a pool thread could still
\* take up.
THEOREM HomeSafety == Spec => StartsAtHome
<1>1. ASSUME IInv, [Next]_vars
      PROVE  [\A t \in Thread : LET r == proc[t].r c == req[r].client IN
               proc[t].pc = "lock" /\ proc'[t].pc = "check" /\ c # None
                 => req[r].session = conn[c].session]_vars
  BY <1>1, LockAtHome, Zenon
<1>2. QED
  BY <1>1, Invariance, PTL DEF Spec, StartsAtHome
===============================================================================
