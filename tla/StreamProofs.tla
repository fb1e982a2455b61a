---------------------------- MODULE StreamProofs ----------------------------
(***************************************************************************)
(* Proofs about Replication, one connection at a time, for the two ways a  *)
(* slave uses it.  First: every slave only asks to continue, as the        *)
(* daemon's own client does (src/src/daemon.cpp); the update queue is the  *)
(* whole of replication, and the slave's store follows the replay of       *)
(* everything enqueued.  Then: every slave asks to start; the initial fill *)
(* brings it what the queue never carries.                                 *)
(***************************************************************************)
EXTENDS OrderlyProofs

\* There is no initial fill: a client is running from the start.
Streaming ==
  /\ filling = 0 /\ state \in {"not_ready", "running"}
  /\ present => state = "running"

SInv ==
  /\ OInv /\ Streaming
  /\ MirrorIsLast /\ SlaveIsApplied /\ LeftoversAreQueued /\ Converged

\* At first nothing is queued, and both stores are the slave's first one.
LEMMA SInvInit == Init => SInv
<1> SUFFICES ASSUME Init PROVE SInv
  BY Zenon
<1>1. OInv
  BY OInvInit, Zenon
<1>2. Len(queue) = 0
  BY Zenon DEF Init
<1>3. Streaming /\ MirrorIsLast /\ Converged
  BY <1>2 DEF Init, Streaming, MirrorIsLast, Converged
<1>4. SlaveIsApplied /\ LeftoversAreQueued
  BY Zenon DEF Init, SlaveIsApplied, LeftoversAreQueued
<1>5. QED
  BY <1>1, <1>3, <1>4, Zenon DEF SInv

\* What is confirmed or about to be is in the queue.
LEMMA AppliedAreQueued ==
  ASSUME OInv, Streaming, NEW s \in Slot, open[s], clid[s]
  PROVE  up[s] \in Nat /\ Len(queue) \in Nat /\ up[s] <= Len(queue)
<1>1. /\ up[s] \in Nat /\ queue \in Seq(Item) /\ queue_pipelined \in Int
      /\ down[s] \in Seq(Item) /\ queue_pipelined <= Len(queue)
  BY Zenon DEF OInv, Inv, TypeOK, LinkType, ClientType, PipelineBound
<1>2. Len(queue) \in Nat /\ Len(down[s]) \in Nat
  BY <1>1
<1>3. CASE present
  <2>1. up[s] <= queue_pipelined
    BY <1>1, <1>2, <1>3 DEF OInv, Window, Streaming
  <2>2. QED
    BY <1>1, <1>2, <2>1
<1>4. CASE ~present
  BY <1>1, <1>2, <1>4 DEF OInv, FillWindow
<1>5. QED
  BY <1>3, <1>4, Zenon

\* Steps that change neither the queue nor the stores, and leave the confirmations of a
\* registered connection as they are or start it without any.
LEMMA SFrame ==
  ASSUME SInv, OInv', Streaming', LeftoversAreQueued',
         UNCHANGED <<queue, slave, mirror>>,
         \A s \in Slot : open'[s] /\ clid'[s] =>
           up'[s] = 0 \/ (open[s] /\ clid[s] /\ up'[s] = up[s])
  PROVE  SInv'
<1>1. MirrorIsLast' /\ Converged'
  BY Zenon DEF SInv, MirrorIsLast, Converged
<1>2. SlaveIsApplied'
  BY DEF SInv, SlaveIsApplied
<1>3. QED
  BY <1>1, <1>2, Zenon DEF SInv

\* As long as neither end of the connection moves, what is left over stays.
LEMMA SQuiet ==
  ASSUME SInv, OInv', UNCHANGED <<client, fill, link, at, slave, mirror>>
  PROVE  SInv'
<1>1. Streaming' /\ LeftoversAreQueued'
  BY Zenon DEF SInv, Streaming, LeftoversAreQueued, client, fill, link
<1>2. QED
  BY <1>1, SFrame, Zenon DEF client, link

\* A push by a detached thread goes to an open connection only.
LEMMA SPollPush ==
  ASSUME SInv, OInv', NEW s \in Slot, PollPush(s)
  PROVE  SInv'
<1>1. /\ UNCHANGED <<queue, slave, mirror, present, state, filling, open, clid, up, at>>
      /\ down' = down \/ \E items : down' = [down EXCEPT ![s] = Sent(s, items)]
  BY Zenon DEF PollPush, _push_queue_items, store, fill, ends
<1>2. down \in [Slot -> Seq(Item)]
  BY Zenon DEF SInv, OInv, Inv, TypeOK, LinkType
<1>3. at \in Slot \cup {0}
  BY Zenon DEF SInv, OInv, Inv, TypeOK, EndsType
<1>4. at # 0 /\ ~open[at] => down'[at] = down[at]
  BY <1>1, <1>2, <1>3, Zenon DEF Sent
<1>5. Streaming' /\ LeftoversAreQueued'
  BY <1>1, <1>4 DEF SInv, Streaming, LeftoversAreQueued
<1>6. QED
  BY <1>1, <1>5, SFrame, Zenon

\* While a connection is open the slave reads no other.
LEMMA NoLeftovers ==
  ASSUME OInv, NEW s \in Slot, open[s]
  PROVE  at # 0 => open[at]
  BY Zenon DEF OInv, OneConnection

\* sync_queue on a fresh connection, which the slave has applied nothing of.
LEMMA SSetStateContinue ==
  ASSUME SInv, OInv', NEW s \in Slot, SetStateContinue(s)
  PROVE  SInv'
<1>1. /\ open[s] /\ up[s] = 0 /\ filling = 0 /\ \A t \in Slot : open[t] => t = s
  BY Fresh, Zenon DEF SInv, SetStateContinue
<1>2. UNCHANGED <<queue, slave, mirror, filling, open, up, at>> /\ state' = "running"
  BY Zenon DEF SetStateContinue, _push_queue_items, store, fill, ends, hist
<1>3. at # 0 => open[at]
  BY <1>1, NoLeftovers, Zenon DEF SInv
<1>4. Streaming' /\ LeftoversAreQueued'
  BY <1>1, <1>2, <1>3, Zenon DEF Streaming, LeftoversAreQueued
<1>5. QED
  BY <1>1, <1>2, <1>4, SFrame, Zenon

\* A new connection carries nothing yet.
LEMMA SAccept ==
  ASSUME SInv, OInv', NEW s \in Slot, Accept(s)
  PROVE  SInv'
<1>1. /\ open \in [Slot -> BOOLEAN] /\ clid \in [Slot -> BOOLEAN]
      /\ open' = [open EXCEPT ![s] = TRUE] /\ at' = s /\ ~open[s]
      /\ UNCHANGED <<queue, slave, mirror, present, state, filling, clid, up>>
  BY Zenon DEF SInv, OInv, Inv, TypeOK, LinkType, Accept, store, client, fill, hist
<1>2. ~clid[s]
  BY <1>1, Zenon DEF SInv, OInv, OneConnection
<1>3. Streaming' /\ LeftoversAreQueued'
  BY <1>1, Zenon DEF SInv, Streaming, LeftoversAreQueued
<1>4. \A t \in Slot : open'[t] /\ clid'[t] => open[t] /\ clid[t] /\ up'[t] = up[t]
  BY <1>1, <1>2, Zenon
<1>5. QED
  BY <1>1, <1>3, <1>4, SFrame, Zenon

\* What is under way when the master closes a connection is a part of the queue.
LEMMA SMasterClose ==
  ASSUME SInv, OInv', NEW s \in Slot, MasterClose(s)
  PROVE  SInv'
<1>1. /\ open \in [Slot -> BOOLEAN] /\ clid \in [Slot -> BOOLEAN] /\ up \in [Slot -> Nat]
      /\ open[s] /\ open' = [open EXCEPT ![s] = FALSE] /\ clid' = [clid EXCEPT ![s] = FALSE]
      /\ up' = [up EXCEPT ![s] = 0]
      /\ UNCHANGED <<queue, slave, mirror, present, state, filling, down, at>>
  BY Zenon DEF SInv, OInv, Inv, TypeOK, LinkType, MasterClose, Close, store, client, fill, ends, hist
<1>2. Streaming'
  BY <1>1, Zenon DEF SInv, Streaming
<1>3. ASSUME at = s PROVE \A i \in 1..Len(down[s]) : \E j \in 1..Len(queue) : down[s][i] = queue[j]
  <2>1. CASE down[s] = <<>>
    <3>1. 1..Len(down[s]) = {}
      BY <2>1
    <3>2. QED
      BY <3>1, Zenon
  <2>2. CASE down[s] # <<>>
    <3>1. clid[s] /\ present /\ state = "running"
      BY <1>1, <2>2, Zenon DEF SInv, OInv, FreshIsQuiet, FillWindow, Streaming
    <3>2. /\ up[s] + Len(down[s]) = queue_pipelined
          /\ \A i \in 1..Len(down[s]) : down[s][i] = queue[up[s] + i]
      BY <1>1, <1>3, <3>1, Zenon DEF SInv, OInv, Window
    <3>3. /\ up[s] \in Nat /\ Len(down[s]) \in Nat /\ Len(queue) \in Nat
          /\ queue_pipelined <= Len(queue)
      BY DEF SInv, OInv, Inv, TypeOK, LinkType, ClientType, PipelineBound
    <3>4. ASSUME NEW i \in 1..Len(down[s]) PROVE up[s] + i \in 1..Len(queue)
      BY <3>2, <3>3
    <3>5. QED
      BY <3>2, <3>4, Zenon
  <2>3. QED
    BY <2>1, <2>2, Zenon
<1>4. LeftoversAreQueued'
  BY <1>1, <1>3 DEF SInv, LeftoversAreQueued, OInv, OneConnection
<1>5. \A t \in Slot : open'[t] /\ clid'[t] => open[t] /\ clid[t] /\ up'[t] = up[t]
  BY <1>1, Zenon
<1>6. QED
  BY <1>1, <1>2, <1>4, <1>5, SFrame, Zenon

\* A slave that leaves forgets what it has not read.
LEMMA SSlaveLeave ==
  ASSUME SInv, OInv', SlaveLeave
  PROVE  SInv'
<1>1. UNCHANGED <<queue, slave, mirror, present, state, filling, open, clid, up>> /\ at' = 0
  BY Zenon DEF SlaveLeave, store, client, fill, hist
<1>2. Streaming' /\ LeftoversAreQueued'
  BY <1>1, Zenon DEF SInv, Streaming, LeftoversAreQueued
<1>3. QED
  BY <1>1, <1>2, SFrame, Zenon

\* An item of the queue that the slave applies changes no key outside the queue.
LEMMA ApplyQueued ==
  ASSUME SInv, NEW j \in 1..Len(queue), slave' = Apply(slave, queue[j]),
         UNCHANGED <<queue, mirror>>
  PROVE  MirrorIsLast' /\ Converged'
<1>1. MirrorIsLast'
  BY Zenon DEF SInv, MirrorIsLast
<1>2. \A k \in Key : slave'[k] = IF k \in DOMAIN queue[j] THEN queue[j][k] ELSE slave[k]
  BY Zenon DEF Apply
<1>3. Converged'
  BY <1>2, Zenon DEF SInv, Converged
<1>4. QED
  BY <1>1, <1>3, Zenon

\* A request from an open connection is the first item of the queue not yet applied.
LEMMA SApplyOpen ==
  ASSUME SInv, OInv', SlaveApply, open[at]
  PROVE  SInv'
<1>1. /\ at \in Slot /\ down[at] \in Seq(Item) /\ down[at] # <<>> /\ up \in [Slot -> Nat]
      /\ slave' = Apply(slave, Head(down[at])) /\ up' = [up EXCEPT ![at] = @ + 1]
      /\ UNCHANGED <<queue, mirror, present, state, filling, open, clid, at>>
  BY Zenon DEF SInv, OInv, Inv, TypeOK, LinkType, EndsType, SlaveApply, client, fill, ends, hist
<1>2. clid[at] /\ present /\ state = "running"
  BY <1>1, Zenon DEF SInv, OInv, FreshIsQuiet, FillWindow, Streaming
<1>3. /\ up[at] + Len(down[at]) = queue_pipelined
      /\ \A i \in 1..Len(down[at]) : down[at][i] = queue[up[at] + i]
  BY <1>1, <1>2, Zenon DEF SInv, OInv, Window
<1> DEFINE n == up[at] + 1
<1>4. /\ up[at] \in Nat /\ Len(down[at]) \in Nat \ {0} /\ Len(queue) \in Nat
      /\ queue_pipelined <= Len(queue)
  <2>1. up[at] \in Nat /\ Len(queue) \in Nat /\ queue_pipelined <= Len(queue)
    BY <1>1 DEF SInv, OInv, Inv, TypeOK, ClientType, PipelineBound
  <2>2. Len(down[at]) \in Nat /\ Len(down[at]) # 0
    BY <1>1, EmptySeq, Zenon
  <2>3. QED
    BY <2>1, <2>2, Zenon
<1>5. n \in 1..Len(queue) /\ 1 \in 1..Len(down[at])
  BY <1>3, <1>4
<1>6. Head(down[at]) = queue[n]
  <2>1. Head(down[at]) = down[at][1]
    BY <1>1
  <2>2. QED
    BY <1>3, <1>5, <2>1, Zenon
<1>7. up[at] \in Nat /\ up'[at] = n
  BY <1>1, <1>4, Zenon
<1>n. /\ n \in Nat /\ \A i \in 1..n : i # n => i \in 1..up[at] /\ n \in (i + 1)..n
      /\ \A i : \A j \in (i + 1)..up[at] : j \in (i + 1)..n
  BY <1>4
<1> HIDE DEF n
<1>8. \A k \in Key : slave'[k] = IF k \in DOMAIN queue[n] THEN queue[n][k] ELSE slave[k]
  BY <1>1, <1>6, Zenon DEF Apply
<1>9. MirrorIsLast' /\ Converged'
  BY <1>1, <1>5, <1>6, ApplyQueued, Zenon
<1>10. ASSUME NEW k \in Key, NEW i \in 1..n, k \in DOMAIN queue[i],
              \A j \in (i + 1)..n : k \notin DOMAIN queue[j]
       PROVE  slave'[k] = queue[i][k]
  <2>1. CASE i = n
    BY <1>8, <1>10, <2>1, Zenon
  <2>2. CASE i # n
    <3>1. i \in 1..up[at] /\ n \in (i + 1)..n /\ \A j \in (i + 1)..up[at] : j \in (i + 1)..n
      BY <1>n, <2>2, Zenon
    <3>2. slave[k] = queue[i][k]
      BY <1>1, <1>2, <1>10, <3>1, Zenon DEF SInv, SlaveIsApplied
    <3>3. QED
      BY <1>8, <1>10, <3>1, <3>2, Zenon
  <2>3. QED
    BY <2>1, <2>2, Zenon
<1>11. \A t \in Slot : open[t] => t = at
  BY <1>1, Zenon DEF SInv, OInv, OneConnection
<1>12. SlaveIsApplied'
  BY <1>1, <1>7, <1>10, <1>11 DEF SlaveIsApplied
<1>13. Streaming' /\ LeftoversAreQueued'
  BY <1>1, Zenon DEF SInv, Streaming, LeftoversAreQueued
<1>14. QED
  BY <1>9, <1>12, <1>13, Zenon DEF SInv

\* A request left over from a closed connection is in the queue and will be sent again.
LEMMA SApplyClosed ==
  ASSUME SInv, OInv', SlaveApply, ~open[at]
  PROVE  SInv'
<1>1. /\ at \in Slot /\ at # 0 /\ down \in [Slot -> Seq(Item)] /\ down[at] # <<>>
      /\ slave' = Apply(slave, Head(down[at])) /\ down' = [down EXCEPT ![at] = Tail(@)]
      /\ UNCHANGED <<queue, mirror, present, state, filling, open, clid, at>>
  BY Zenon DEF SInv, OInv, Inv, TypeOK, LinkType, EndsType, SlaveApply, client, fill, ends, hist
<1> DEFINE d == down[at]
<1>2. d \in Seq(Item) /\ d # <<>> /\ down'[at] = Tail(d)
  BY <1>1, Zenon
<1>3. \A i \in 1..Len(d) : \E j \in 1..Len(queue) : d[i] = queue[j]
  BY <1>1, Zenon DEF SInv, LeftoversAreQueued
<1> HIDE DEF d
<1>4. /\ Head(d) = d[1] /\ 1 \in 1..Len(d)
      /\ \A i \in 1..Len(Tail(d)) : i + 1 \in 1..Len(d) /\ Tail(d)[i] = d[i + 1]
  <2>1. Len(d) \in Nat \ {0} /\ Len(Tail(d)) = Len(d) - 1
    BY <1>2, EmptySeq
  <2>2. \A i \in 1..Len(Tail(d)) : Tail(d)[i] = d[i + 1]
    BY <1>2, <2>1
  <2>3. QED
    BY <1>2, <2>1, <2>2
<1>5. PICK j \in 1..Len(queue) : Head(d) = queue[j]
  BY <1>3, <1>4, Zenon
<1>6. slave' = Apply(slave, queue[j])
  BY <1>1, <1>5, Zenon DEF d
<1>7. MirrorIsLast' /\ Converged'
  BY <1>1, <1>6, ApplyQueued, Zenon
<1>8. LeftoversAreQueued'
  <2>1. ASSUME NEW i \in 1..Len(Tail(d)) PROVE \E m \in 1..Len(queue) : Tail(d)[i] = queue[m]
    <3>1. i + 1 \in 1..Len(d) /\ Tail(d)[i] = d[i + 1]
      BY <1>4, Zenon
    <3>2. PICK m \in 1..Len(queue) : d[i + 1] = queue[m]
      BY <1>3, <3>1, Zenon
    <3>3. QED
      BY <3>1, <3>2, Zenon
  <2>2. queue' = queue /\ down'[at'] = Tail(d)
    <3>1. at' = at /\ queue' = queue
      BY <1>1, Zenon
    <3>2. QED
      BY <1>2, <3>1, Zenon
  <2>3. QED
    BY <2>1, <2>2, Zenon DEF LeftoversAreQueued
<1>9. \A s \in Slot : ~open[s]
  BY <1>1, NoLeftovers, Zenon DEF SInv
<1>10. Streaming' /\ SlaveIsApplied'
  BY <1>1, <1>9, Zenon DEF SInv, Streaming, SlaveIsApplied
<1>11. QED
  BY <1>7, <1>8, <1>10, Zenon DEF SInv

\* enqueue: the mirror follows the new item, and the items applied stay where they are.
LEMMA SEnqueue ==
  ASSUME SInv, OInv', NEW w \in Worker, Enqueue(w)
  PROVE  SInv'
<1> DEFINE q == queue'
           n == Len(queue) + 1
<1>1. /\ queue \in Seq(Item) /\ cmd[w] \in Item /\ queue' = Append(queue, cmd[w])
      /\ mirror' = Apply(mirror, cmd[w])
      /\ UNCHANGED <<slave, present, state, filling, open, clid, down, up, at>>
  BY Zenon DEF SInv, OInv, Inv, TypeOK, ClientType, WorkType, Enqueue, store, fill, link, ends
<1>2. /\ Len(queue) \in Nat /\ Len(q) = n /\ q[n] = cmd[w]
      /\ \A i \in 1..Len(queue) : q[i] = queue[i]
  BY <1>1
<1>3. /\ n \in 1..n /\ \A i \in 1..n : i # n => i \in 1..Len(queue) /\ n \in (i + 1)..n
      /\ \A i \in 1..Len(queue) : i \in 1..n
      /\ \A i \in 1..n : \A j \in (i + 1)..Len(queue) : j \in (i + 1)..n /\ j \in 1..Len(queue)
  BY <1>2
<1>4. \A k \in Key : mirror'[k] = IF k \in DOMAIN cmd[w] THEN cmd[w][k] ELSE mirror[k]
  BY <1>1, Zenon DEF Apply
<1>5. \A s \in Slot : open[s] /\ clid[s] =>
        up[s] \in Nat /\ \A i \in 1..up[s] : i \in 1..Len(queue)
  <2>1. \A s \in Slot : open[s] /\ clid[s] => up[s] \in Nat /\ up[s] <= Len(queue)
    BY AppliedAreQueued, Zenon DEF SInv
  <2>2. QED
    BY <1>2, <2>1
<1>6. \A s \in Slot : open[s] /\ clid[s] => \A i \in 1..up[s] : \A j \in (i + 1)..up[s] : j \in 1..up[s]
  BY <1>5
<1> HIDE DEF q, n
<1>7. MirrorIsLast'
  <2>1. ASSUME NEW k \in Key, NEW i \in 1..n, k \in DOMAIN q[i],
               \A j \in (i + 1)..n : k \notin DOMAIN q[j]
        PROVE  mirror'[k] = q[i][k]
    <3>1. CASE i = n
      BY <1>2, <1>4, <2>1, <3>1, Zenon
    <3>2. CASE i # n
      <4>1. i \in 1..Len(queue) /\ n \in (i + 1)..n
        BY <1>3, <3>2, Zenon
      <4>2. \A j \in (i + 1)..Len(queue) : k \notin DOMAIN queue[j]
        BY <1>2, <1>3, <2>1, Zenon
      <4>3. mirror[k] = queue[i][k]
        BY <1>2, <2>1, <4>1, <4>2, Zenon DEF SInv, MirrorIsLast
      <4>4. QED
        BY <1>2, <1>4, <2>1, <4>1, <4>3, Zenon
    <3>3. QED
      BY <3>1, <3>2, Zenon
  <2>2. QED
    BY <1>2, <2>1, Zenon DEF MirrorIsLast, q
<1>8. SlaveIsApplied'
  <2>1. ASSUME NEW s \in Slot, open[s], clid[s], NEW k \in Key, NEW i \in 1..up[s],
               k \in DOMAIN q[i], \A j \in (i + 1)..up[s] : k \notin DOMAIN q[j]
        PROVE  slave[k] = q[i][k]
    <3>1. q[i] = queue[i] /\ \A j \in (i + 1)..up[s] : q[j] = queue[j]
      BY <1>2, <1>5, <1>6, <2>1, Zenon
    <3>2. QED
      BY <2>1, <3>1 DEF SInv, SlaveIsApplied
  <2>2. UNCHANGED <<slave, open, clid, up>>
    BY <1>1, Zenon
  <2>3. QED
    BY <2>1, <2>2 DEF SlaveIsApplied, q
<1>9. Converged'
  <2>1. ASSUME NEW k \in Key, \A i \in 1..n : k \notin DOMAIN q[i]
        PROVE  slave[k] = mirror'[k]
    <3>1. k \notin DOMAIN cmd[w] /\ \A i \in 1..Len(queue) : k \notin DOMAIN queue[i]
      BY <1>2, <1>3, <2>1, Zenon
    <3>2. QED
      BY <1>4, <3>1, Zenon DEF SInv, Converged
  <2>2. QED
    BY <1>1, <1>2, <2>1, Zenon DEF Converged, q
<1>10. Streaming' /\ LeftoversAreQueued'
  <2>1. Streaming'
    BY <1>1, Zenon DEF SInv, Streaming
  <2>2. LeftoversAreQueued'
    BY <1>1, <1>2, <1>3 DEF SInv, LeftoversAreQueued, q
  <2>3. QED
    BY <2>1, <2>2, Zenon
<1>11. QED
  BY <1>7, <1>8, <1>9, <1>10, Zenon DEF SInv

\* Where the places of a queue of m items, the first u of them applied, go when the first
\* item is dropped.
LEMMA OneFurther ==
  ASSUME NEW m \in Nat, NEW u \in Nat \ {0}, u <= m
  PROVE  /\ 1 \in 1..m /\ 1 \in 1..u
         /\ \A i \in 1..m - 1 : i + 1 \in 1..m /\ (i + 1) + 1 = i + 2
         /\ \A i \in 1..u - 1 : i + 1 \in 1..u /\ i \in 1..m - 1
         /\ \A i \in 1..m - 1 : \A j \in (i + 2)..m : j - 1 \in (i + 1)..(m - 1) /\ j # 1 /\ j \in 1..m
         /\ \A i \in 1..m - 1 : \A j \in (i + 2)..u : j - 1 \in (i + 1)..(u - 1) /\ j # 1 /\ j \in 1..m
  OBVIOUS

\* on_confirm: the item it drops has been applied, and where nothing else in the queue
\* mentions a key of it, the mirror of the key is what the item says.
LEMMA SConfirmItem ==
  ASSUME SInv, OInv', NEW s \in Slot, ConfirmItem(s)
  PROVE  SInv'
<1>1. /\ Confirmation(s) /\ present /\ state = "running" /\ open[s] /\ clid[s] /\ TypeOK
      /\ UNCHANGED <<slave, mirror, present, state, filling, at>>
  BY Zenon DEF SInv, OInv, Inv, ConfirmItem, Confirmation, store, fill, ends
<1>2. /\ up[s] \in Nat /\ up[s] > 0 /\ up[s] <= queue_pipelined
      /\ queue_pipelined \in Nat /\ queue_pipelined <= Len(queue)
      /\ queue \in Seq(Item) /\ queue # <<>>
  BY <1>1, HeadIsSent, Zenon DEF SInv
<1> DEFINE q == Tail(queue)
           n == Len(queue) - 1
<1>3. Len(queue) \in Nat /\ Len(q) = n /\ n \in Nat /\ \A i \in 1..n : q[i] = queue[i + 1]
  BY <1>2, EmptySeq
<1>4. ~PushThrows(q, queue_pipelined - 1)
  <2>1. q = <<>> => Len(q) = 0
    BY EmptySeq, Zenon
  <2>2. QED
    BY <1>2, <1>3, <2>1 DEF PushThrows
<1>5. queue' = q /\ TakeConfirmation(s)
  BY <1>4, Zenon DEF ConfirmItem, _push_queue_items
<1>6. /\ up'[s] = up[s] - 1 /\ open' = open /\ clid' = clid
  BY <1>1, <1>5, TakeOne, Zenon
<1>7. \A t \in Slot : open[t] => t = s
  BY <1>1, Zenon DEF SInv, OInv, OneConnection
<1>8. /\ 1 \in 1..Len(queue) /\ 1 \in 1..up[s]
      /\ \A i \in 1..n : i + 1 \in 1..Len(queue)
      /\ \A i \in 1..Len(queue) : i # 1 => i - 1 \in 1..n /\ q[i - 1] = queue[i]
      /\ \A i \in 1..up[s] - 1 : i + 1 \in 1..up[s] /\ i \in 1..n
      /\ \A i \in 1..n : \A j \in (i + 2)..Len(queue) : j - 1 \in (i + 1)..n /\ j # 1 /\ j \in 1..Len(queue)
      /\ \A i \in 1..n : \A j \in (i + 2)..up[s] : j - 1 \in (i + 1)..(up[s] - 1) /\ j # 1 /\ j \in 1..Len(queue)
      /\ \A i \in 1..n : (i + 1) + 1 = i + 2
  <2>1. up[s] \in Nat \ {0} /\ Len(queue) \in Nat /\ up[s] <= Len(queue)
    BY <1>2, <1>3
  <2>2. \A i \in 1..Len(queue) : i # 1 => i - 1 \in 1..n /\ (i - 1) + 1 = i
    BY <1>3
  <2>3. \A i \in 1..Len(queue) : i # 1 => q[i - 1] = queue[i]
    BY <1>3, <2>2, Zenon
  <2> HIDE DEF q
  <2>4. QED
    BY <2>1, <2>2, <2>3, OneFurther, Zenon
<1> HIDE DEF q, n
<1>a. \A k \in Key : \A i \in 1..up[s] :
        k \in DOMAIN queue[i] /\ (\A j \in (i + 1)..up[s] : k \notin DOMAIN queue[j]) =>
          slave[k] = queue[i][k]
  BY <1>1, Zenon DEF SInv, SlaveIsApplied
<1>9. MirrorIsLast'
  <2>1. ASSUME NEW k \in Key, NEW i \in 1..n, k \in DOMAIN q[i],
               \A j \in (i + 1)..n : k \notin DOMAIN q[j]
        PROVE  mirror[k] = q[i][k]
    <3>1. \A j \in (i + 2)..Len(queue) : k \notin DOMAIN queue[j]
      BY <1>8, <2>1, Zenon
    <3>2. i + 1 \in 1..Len(queue) /\ q[i] = queue[i + 1] /\ (i + 1) + 1 = i + 2
      BY <1>3, <1>8, Zenon
    <3>3. QED
      BY <2>1, <3>1, <3>2, Zenon DEF SInv, MirrorIsLast
  <2>2. QED
    BY <1>1, <1>3, <1>5, <2>1, Zenon DEF MirrorIsLast
<1>10. SlaveIsApplied'
  <2>1. ASSUME NEW k \in Key, NEW i \in 1..up[s] - 1, k \in DOMAIN q[i],
               \A j \in (i + 1)..(up[s] - 1) : k \notin DOMAIN q[j]
        PROVE  slave[k] = q[i][k]
    <3>1. \A j \in (i + 2)..up[s] : k \notin DOMAIN queue[j]
      BY <1>8, <2>1, Zenon
    <3>2. i + 1 \in 1..up[s] /\ q[i] = queue[i + 1] /\ (i + 1) + 1 = i + 2
      BY <1>3, <1>8, Zenon
    <3>3. QED
      BY <1>a, <2>1, <3>1, <3>2, Zenon
  <2>2. QED
    BY <1>1, <1>5, <1>6, <1>7, <2>1 DEF SlaveIsApplied
<1>11. Converged'
  <2>1. ASSUME NEW k \in Key, \A i \in 1..n : k \notin DOMAIN q[i]
        PROVE  slave[k] = mirror[k]
    <3>1. \A i \in 1..Len(queue) : i # 1 => k \notin DOMAIN queue[i]
      BY <1>8, <2>1, Zenon
    <3>2. CASE k \in DOMAIN queue[1]
      <4>1. \A j \in (1 + 1)..Len(queue) : j # 1 /\ j \in 1..Len(queue)
        BY <1>3
      <4>2. mirror[k] = queue[1][k]
        BY <1>8, <3>1, <3>2, <4>1, Zenon DEF SInv, MirrorIsLast
      <4>3. \A j \in (1 + 1)..up[s] : j # 1 /\ j \in 1..Len(queue)
        BY <1>2, <1>3
      <4>4. slave[k] = queue[1][k]
        BY <1>8, <1>a, <3>1, <3>2, <4>3, Zenon
      <4>5. QED
        BY <4>2, <4>4, Zenon
    <3>3. CASE k \notin DOMAIN queue[1]
      BY <3>1, <3>3, Zenon DEF SInv, Converged
    <3>4. QED
      BY <3>2, <3>3, Zenon
  <2>2. QED
    BY <1>1, <1>3, <1>5, <2>1, Zenon DEF Converged
<1>12. at # 0 => open[at]
  BY <1>1, NoLeftovers, Zenon DEF SInv
<1>13. Streaming' /\ LeftoversAreQueued'
  BY <1>1, <1>6, <1>12, Zenon DEF SInv, Streaming, LeftoversAreQueued
<1>14. QED
  BY <1>9, <1>10, <1>11, <1>13 DEF SInv

\* The confirmations that can arrive are those of a running client.
LEMMA SConfirm ==
  ASSUME SInv, OInv', NEW s \in Slot, Confirm(s)
  PROVE  SInv'
<1>1. ~ConfirmThrows(s)
  BY OConfirmThrows, Zenon DEF SInv
<1>2. ~ConfirmStopped(s)
  BY ZeroNotPositive, Zenon DEF SInv, OInv, FillWindow, ConfirmStopped, Confirmation
<1>3. ~ConfirmPortion(s) /\ ~ConfirmFinishing(s)
  BY Zenon DEF SInv, Streaming, ConfirmPortion, ConfirmFinishing
<1>4. QED
  BY <1>1, <1>2, <1>3, SConfirmItem, Zenon DEF Confirm

\* Every step keeps SInv.
LEMMA SInvNext == Orderly /\ Mode \subseteq {"continue"} /\ SInv /\ [Next]_vars => SInv'
<1> SUFFICES ASSUME Orderly, Mode \subseteq {"continue"}, SInv, [Next]_vars PROVE SInv'
  BY Zenon
<1>1. OInv'
  BY OInvNext, Zenon DEF SInv
<1>2. ~SyncInitial
  BY ZeroNotPositive, Zenon DEF SInv, Streaming, SyncInitial
<1>3. CASE SlaveLeave \/ SlaveApply
  BY <1>1, <1>3, SSlaveLeave, SApplyOpen, SApplyClosed, Zenon
<1>4. ASSUME NEW s \in Slot, PollWake(s) \/ PollPush(s) \/ OrphanWake(s) PROVE SInv'
  BY <1>1, <1>4, SPollPush, SQuiet, Zenon DEF PollWake, OrphanWake, store, ends, hist
<1>5. ASSUME NEW s \in Slot, SetState(s) PROVE SInv'
  <2>1. ~SetStateStart(s) /\ ~SetStateStop(s)
    BY Zenon DEF SetStateStart, SetStateStop, Registration
  <2>2. QED
    BY <1>1, <1>5, <2>1, SSetStateContinue, Zenon DEF SetState
<1>6. ASSUME NEW s \in Slot, Confirm(s) \/ Accept(s) \/ MasterClose(s) PROVE SInv'
  BY <1>1, <1>6, SConfirm, SAccept, SMasterClose, Zenon
<1>7. ASSUME NEW w \in Worker, WorkerStep(w) PROVE SInv'
  <2>1. CASE SendToClients(w)
    BY <1>1, <2>1, SQuiet, Zenon DEF SendToClients, store, ends, hist
  <2>2. CASE Partial(w)
    BY <1>1, <2>2, SQuiet, Zenon DEF Partial, store, ends, hist
  <2>3. ASSUME NEW k \in Key, Put(w, k) PROVE SInv'
    BY <1>1, <2>3, SQuiet, Zenon DEF Put, ends, hist
  <2>4. QED
    BY <1>1, <1>7, <2>1, <2>2, <2>3, SEnqueue, Zenon DEF WorkerStep
<1>8. ASSUME NEW w \in Worker, NEW c \in Cmd, Begin(w, c) PROVE SInv'
  BY <1>1, <1>8, SQuiet, Zenon DEF Begin, store, ends, hist
<1>9. CASE UNCHANGED vars
  BY <1>1, <1>9, SQuiet, Zenon DEF vars, store, ends, hist
<1>10. QED
  BY <1>2, <1>3, <1>4, <1>5, <1>6, <1>7, <1>8, <1>9, Zenon DEF Next

\* When slaves only ask to continue and the master is done with one connection before the
\* next, on_confirm drops no item before the slave has applied it, and however often the
\* queue is sent again, a key that is no longer in it has its last value on the slave.
THEOREM StreamSafety == Orderly /\ Mode \subseteq {"continue"} => (Spec => []Converged)
<1> SUFFICES ASSUME Orderly, Mode \subseteq {"continue"} PROVE Spec => []Converged
  BY Zenon
<1>1. SInv /\ [Next]_vars => SInv'
  BY SInvNext, Zenon
<1>2. SInv => Converged
  BY Zenon DEF SInv
<1>3. QED
  BY <1>1, <1>2, SInvInit, PTL DEF Spec

-----------------------------------------------------------------------------
(* The initial fill, when slaves only ask to start and to stop and no command      *)
(* deletes: every key of the master that no command touches arrives.               *)

\* No command deletes a key.
NoDeletes == \A c \in Cmd : \A k \in DOMAIN c : c[k] # Nil

Untouched == {k \in Key : \A c \in Cmd : k \notin DOMAIN c}

\* The keys that nothing but the fill can bring to the slave.
Wanted == {k \in Untouched : Db0[k] # Nil}

\* The store and what is under way have the first values of the untouched keys; commands
\* in progress and queued items leave these keys alone, and the former delete nothing.
StoreKept == \A k \in Untouched : db[k] = Db0[k]
WorkTouches == \A w \in Worker : \A k \in DOMAIN cmd[w] : k \notin Untouched /\ cmd[w][k] # Nil
Touching(q) == \A i \in 1 .. Len(q) : \A k \in DOMAIN q[i] : k \notin Untouched
Carried(d) == \A i \in 1 .. Len(d) : \A k \in DOMAIN d[i] : k \in Untouched => d[i][k] = Db0[k]

OthersTouched ==
  /\ StoreKept /\ WorkTouches /\ Touching(queue)
  /\ \A s \in Slot : Carried(down[s])

\* The key the fill has come to is there, so that Seek finds it and Next steps over it
\* alone.
CurrentIsLive == Alive => current \in Live \cup {0}

\* k is on the slave, or on its way there over connection s.
Arrives(k, s) == slave[k] = Db0[k] \/ \E i \in 1 .. Len(down[s]) : k \in DOMAIN down[s][i]

\* What the fill has passed arrives, unless the slave has left and a portion that was under
\* way will never be confirmed.
PassedArrives ==
  \A s \in Slot : Alive /\ open[s] /\ clid[s] /\ present /\ state # "running" =>
    \/ at # s /\ up[s] < Len(current_keys)
    \/ \A k \in Wanted : k <= current => Arrives(k, s)

\* A fill that only waits for its confirmations has passed every key.
FinishingIsOver ==
  Alive /\ filling = 0 /\ state = "sync_finishing" => \A k \in Wanted : k <= current

Filled == present /\ state = "running" => \A k \in Wanted : slave[k] = Db0[k]

Fills == CurrentIsLive /\ PassedArrives /\ FinishingIsOver /\ Filled

FillInv == OInv /\ OthersTouched /\ Fills

\* The commands that run do what the constants allow.
LEMMA CmdTouches ==
  ASSUME NoDeletes, NEW c \in Cmd, NEW k \in DOMAIN c
  PROVE  k \notin Untouched /\ c[k] # Nil
  BY Zenon DEF NoDeletes, Untouched

\* At first nothing is under way and there is no client.
LEMMA FillInvInit == Init => FillInv
<1> SUFFICES ASSUME Init PROVE FillInv
  OBVIOUS
<1>1. OInv
  BY OInvInit
<1>2. OthersTouched
  BY DEF Init, OthersTouched, StoreKept, WorkTouches, Touching, Carried
<1>3. Fills
  BY Zenon DEF Init, Fills, CurrentIsLive, PassedArrives, FinishingIsOver, Filled, current
<1>4. QED
  BY <1>1, <1>2, <1>3, Zenon DEF FillInv

-----------------------------------------------------------------------------
(* Untouched keys keep their values.                                               *)

\* What a portion takes from the store has the store's values.
LEMMA PortionCarries ==
  ASSUME TypeOK, OthersTouched, NEW s \in Slot, NEW from, NEW keys, _push_next_portion(s, from, keys)
  PROVE  \A t \in Slot : Carried(down'[t])
<1> DEFINE S == PortionKeys(from)
           new == [k \in S |-> db[k]]
<1>1. S \subseteq Key
  BY PortionKeysType, Zenon
<1>2. new \in Item /\ DOMAIN new = S /\ \A k \in S : new[k] = db[k]
  BY <1>1, PortionItem, Zenon
<1>3. down \in [Slot -> Seq(Item)] /\ down' = [down EXCEPT ![s] = Sent(s, <<new>>)]
  BY Zenon DEF TypeOK, LinkType, _push_next_portion
<1>4. \A k \in DOMAIN new : k \in Untouched => new[k] = Db0[k]
  BY <1>2, Zenon DEF OthersTouched, StoreKept
<1> HIDE DEF new, S
<1>5. Carried(down[s] \o <<new>>)
  <2>1. down[s] \in Seq(Item) /\ Carried(down[s])
    BY <1>3, Zenon DEF OthersTouched
  <2>2. ASSUME NEW i \in 1 .. Len(down[s] \o <<new>>)
        PROVE  \/ (down[s] \o <<new>>)[i] = new
               \/ i \in 1 .. Len(down[s]) /\ (down[s] \o <<new>>)[i] = down[s][i]
    BY <1>2, <2>1
  <2>3. ASSUME NEW i \in 1 .. Len(down[s] \o <<new>>), NEW k \in DOMAIN (down[s] \o <<new>>)[i], k \in Untouched
        PROVE  (down[s] \o <<new>>)[i][k] = Db0[k]
    <3>1. CASE (down[s] \o <<new>>)[i] = new
      BY <1>4, <2>3, <3>1, Zenon
    <3>2. CASE i \in 1 .. Len(down[s]) /\ (down[s] \o <<new>>)[i] = down[s][i]
      BY <2>1, <2>3, <3>2, Zenon DEF Carried
    <3>3. QED
      BY <2>2, <3>1, <3>2, Zenon
  <2>4. QED
    BY <2>3, Zenon DEF Carried
<1>6. Carried(Sent(s, <<new>>))
  BY <1>5, Zenon DEF Sent, OthersTouched
<1>7. QED
  BY <1>3, <1>6, Zenon DEF OthersTouched

\* What is sent from a queue is as harmless as the queue.
LEMMA PushCarries ==
  ASSUME TypeOK, OthersTouched, NEW s \in Slot, NEW q \in Seq(Item), NEW p \in Int,
         p <= Len(q), p <= PipelineSize, Touching(q), _push_queue_items(s, q, p)
  PROVE  Touching(queue') /\ \A t \in Slot : Carried(down'[t])
<1> DEFINE n == Batch(q, p)
           i0 == Skipped(p)
           new == SubSeq(q, i0 + 1, i0 + n)
<1>1. n \in Nat /\ i0 \in Nat /\ i0 + n <= Len(q)
  BY BatchBounds, Zenon
<1>2. down \in [Slot -> Seq(Item)] /\ down' = [down EXCEPT ![s] = Sent(s, new)] /\ queue' = q
  BY Zenon DEF TypeOK, LinkType, _push_queue_items
<1> HIDE DEF n, i0
<1>3. new \in Seq(Item) /\ Len(new) = n /\ \A j \in 1 .. n : new[j] = q[i0 + j] /\ i0 + j \in 1 .. Len(q)
  BY <1>1, Part
<1> HIDE DEF new
<1>4. \A j \in 1 .. Len(new) : \A k \in DOMAIN new[j] : k \notin Untouched
  BY <1>3, Zenon DEF Touching
<1>5. Carried(down[s] \o new)
  <2>1. down[s] \in Seq(Item) /\ Carried(down[s])
    BY <1>2, Zenon DEF OthersTouched
  <2>2. \A i \in 1 .. Len(down[s] \o new) :
          \/ \E j \in 1 .. Len(new) : (down[s] \o new)[i] = new[j]
          \/ i \in 1 .. Len(down[s]) /\ (down[s] \o new)[i] = down[s][i]
    <3>1. ASSUME NEW i \in 1 .. Len(down[s] \o new), i > Len(down[s])
          PROVE  i - Len(down[s]) \in 1 .. Len(new) /\ (down[s] \o new)[i] = new[i - Len(down[s])]
      BY <1>3, <2>1, <3>1
    <3>2. ASSUME NEW i \in 1 .. Len(down[s] \o new), ~(i > Len(down[s]))
          PROVE  i \in 1 .. Len(down[s]) /\ (down[s] \o new)[i] = down[s][i]
      BY <1>3, <2>1, <3>2
    <3>3. QED
      BY <3>1, <3>2, Zenon
  <2>3. QED
    BY <1>4, <2>1, <2>2, Zenon DEF Carried
<1>6. Carried(Sent(s, new))
  BY <1>5, Zenon DEF Sent, OthersTouched
<1>7. QED
  BY <1>2, <1>6, Zenon DEF OthersTouched

\* Steps that change at most the store, of the four things the invariant is about.
LEMMA TouchFrame ==
  ASSUME OthersTouched, StoreKept', UNCHANGED <<cmd, queue, down>>
  PROVE  OthersTouched'
<1>1. WorkTouches'
  BY Zenon DEF OthersTouched, WorkTouches
<1>2. Touching(queue') /\ \A s \in Slot : Carried(down'[s])
  BY Zenon DEF OthersTouched
<1>3. QED
  BY <1>1, <1>2, Zenon DEF OthersTouched, Touching, Carried

\* Steps that change at most the commands in progress.
LEMMA TouchWork ==
  ASSUME OthersTouched, WorkTouches', UNCHANGED <<db, queue, down>>
  PROVE  OthersTouched'
<1>1. StoreKept'
  BY Zenon DEF OthersTouched, StoreKept
<1>2. Touching(queue') /\ \A s \in Slot : Carried(down'[s])
  BY Zenon DEF OthersTouched
<1>3. QED
  BY <1>1, <1>2, Zenon DEF OthersTouched, Touching, Carried

\* Steps of the client that send or drop.
LEMMA TouchSend ==
  ASSUME OthersTouched, UNCHANGED <<db, cmd>>, Touching(queue'), \A s \in Slot : Carried(down'[s])
  PROVE  OthersTouched'
  BY Zenon DEF OthersTouched, StoreKept, WorkTouches, Touching, Carried

\* The rest of a queue, and the rest of what is under way.
LEMMA TouchTail ==
  ASSUME NEW q \in Seq(Item), q # <<>>
  PROVE  (Touching(q) => Touching(Tail(q))) /\ (Carried(q) => Carried(Tail(q)))
<1>1. Len(q) \in Nat /\ \A i \in 1 .. Len(Tail(q)) : i + 1 \in 1 .. Len(q) /\ Tail(q)[i] = q[i + 1]
  OBVIOUS
<1>2. QED
  BY <1>1 DEF Touching, Carried

\* Nothing touches nothing.
LEMMA TouchEmpty == Touching(<<>>) /\ Carried(<<>>)
  BY DEF Touching, Carried

\* on_confirm.
LEMMA TConfirm ==
  ASSUME OInv, OthersTouched, NEW s \in Slot, Confirm(s)
  PROVE  OthersTouched'
<1>1. /\ TypeOK /\ queue \in Seq(Item) /\ queue_pipelined \in Int /\ PipelineSize \in Nat \ {0}
      /\ queue_pipelined <= Len(queue) /\ queue_pipelined <= PipelineSize
  BY SizeAssumption, Zenon DEF OInv, Inv, TypeOK, ClientType, PipelineBound
<1>2. Touching(queue) /\ \A t \in Slot : Carried(down[t])
  BY Zenon DEF OthersTouched
<1>3. CASE ConfirmStopped(s) \/ ConfirmThrows(s)
  <2>1. UNCHANGED <<db, cmd, queue, down>>
    BY <1>3, Zenon DEF ConfirmStopped, ConfirmThrows, store, client, work
  <2>2. QED
    BY <1>2, <2>1, TouchSend, Zenon
<1>4. CASE ConfirmPortion(s)
  <2>1. /\ UNCHANGED <<db, cmd, queue>>
        /\ down' = down \/ _push_next_portion(s, current, Tail(current_keys))
    BY <1>4, Zenon DEF ConfirmPortion, store, work
  <2>2. \A t \in Slot : Carried(down'[t])
    BY <1>1, <1>2, <2>1, PortionCarries, Zenon
  <2>3. QED
    BY <1>2, <2>1, <2>2, TouchSend, Zenon
<1>5. CASE ConfirmFinishing(s)
  <2>1. /\ UNCHANGED <<db, cmd>>
        /\ UNCHANGED <<queue, down>> \/ _push_queue_items(s, queue, 0)
    BY <1>5, Zenon DEF ConfirmFinishing, store, work
  <2>2. 0 \in Int /\ Len(queue) \in Nat /\ 0 <= Len(queue) /\ 0 <= PipelineSize
    BY <1>1
  <2>3. Touching(queue') /\ \A t \in Slot : Carried(down'[t])
    BY <1>1, <1>2, <2>1, <2>2, PushCarries, Zenon
  <2>4. QED
    BY <2>1, <2>3, TouchSend, Zenon
<1>6. CASE ConfirmItem(s)
  <2>1. /\ UNCHANGED <<db, cmd>> /\ queue # <<>>
        /\ \/ down' = down /\ queue' = Tail(queue)
           \/ _push_queue_items(s, Tail(queue), queue_pipelined - 1)
    BY <1>6, Zenon DEF ConfirmItem, store, work
  <2>2. Tail(queue) \in Seq(Item) /\ Len(Tail(queue)) = Len(queue) - 1 /\ Len(queue) \in Nat
    BY <1>1, <2>1
  <2>3. /\ queue_pipelined - 1 \in Int /\ queue_pipelined - 1 <= Len(Tail(queue))
        /\ queue_pipelined - 1 <= PipelineSize
    BY <1>1, <2>2
  <2>4. Touching(Tail(queue))
    BY <1>1, <1>2, <2>1, TouchTail, Zenon
  <2>5. Touching(queue') /\ \A t \in Slot : Carried(down'[t])
    <3>1. CASE down' = down /\ queue' = Tail(queue)
      BY <1>2, <2>4, <3>1, Zenon
    <3>2. CASE _push_queue_items(s, Tail(queue), queue_pipelined - 1)
      <4> DEFINE q == Tail(queue)
                 p == queue_pipelined - 1
      <4>1. /\ q \in Seq(Item) /\ p \in Int /\ p <= Len(q) /\ p <= PipelineSize
            /\ Touching(q) /\ _push_queue_items(s, q, p)
        BY <2>2, <2>3, <2>4, <3>2, Zenon
      <4> HIDE DEF q, p
      <4>2. QED
        BY <1>1, <4>1, PushCarries, Zenon
    <3>3. QED
      BY <2>1, <3>1, <3>2, Zenon
  <2>6. QED
    BY <2>1, <2>5, TouchSend, Zenon
<1>7. QED
  BY <1>3, <1>4, <1>5, <1>6, Zenon DEF Confirm

\* rep_setstate.
LEMMA TSetState ==
  ASSUME OInv, OthersTouched, NEW s \in Slot, SetState(s)
  PROVE  OthersTouched'
<1>1. TypeOK /\ queue \in Seq(Item) /\ PipelineSize \in Nat \ {0}
  BY SizeAssumption, Zenon DEF OInv, Inv, TypeOK, ClientType
<1>2. Touching(queue) /\ \A t \in Slot : Carried(down[t])
  BY DEF OthersTouched
<1>3. CASE SetStateStart(s) \/ SetStateStop(s)
  <2>1. UNCHANGED <<db, cmd, down>> /\ queue' = <<>>
    BY <1>3, Zenon DEF SetStateStart, SetStateStop, store, work
  <2>2. QED
    BY <1>2, <2>1, TouchSend, TouchEmpty, Zenon
<1>4. CASE SetStateContinue(s)
  <2>1. UNCHANGED <<db, cmd>> /\ _push_queue_items(s, queue, 0)
    BY <1>4, Zenon DEF SetStateContinue, store, work
  <2>2. 0 \in Int /\ Len(queue) \in Nat /\ 0 <= Len(queue) /\ 0 <= PipelineSize
    BY <1>1
  <2>3. Touching(queue') /\ \A t \in Slot : Carried(down'[t])
    BY <1>1, <1>2, <2>1, <2>2, PushCarries, Zenon
  <2>4. QED
    BY <2>1, <2>3, TouchSend, Zenon
<1>5. QED
  BY <1>3, <1>4, Zenon DEF SetState

\* The two ends of the connection.
LEMMA TEnds ==
  ASSUME OInv, OthersTouched, SlaveLeave \/ SlaveApply
  PROVE  OthersTouched'
<1>1. /\ down \in [Slot -> Seq(Item)] /\ at \in Slot \cup {0} /\ at # 0
      /\ Touching(queue) /\ \A t \in Slot : Carried(down[t])
  BY Zenon DEF OInv, Inv, TypeOK, LinkType, EndsType, OthersTouched, SlaveLeave, SlaveApply
<1>2. /\ UNCHANGED <<db, cmd, queue>>
      /\ \/ down' = [down EXCEPT ![at] = <<>>]
         \/ down[at] # <<>> /\ down' = [down EXCEPT ![at] = Tail(@)]
  BY Zenon DEF SlaveLeave, SlaveApply, store, client, work
<1>3. down[at] # <<>> => Carried(Tail(down[at]))
  BY <1>1, TouchTail, Zenon
<1>4. \A t \in Slot : Carried(down'[t])
  <2>1. at \in Slot
    BY <1>1, Zenon
  <2>2. \A t \in Slot : down'[t] = down[t] \/ down'[t] = <<>> \/ (down[at] # <<>> /\ down'[t] = Tail(down[at]))
    BY <1>1, <1>2, <2>1, Zenon
  <2>3. QED
    BY <1>1, <1>3, <2>2, TouchEmpty, Zenon
<1>5. QED
  BY <1>1, <1>2, <1>4, TouchSend, Zenon

\* The pool threads.
LEMMA TWorker ==
  ASSUME OInv, OthersTouched, NEW w \in Worker, WorkerStep(w)
  PROVE  OthersTouched'
<1>1. /\ db \in [Key -> Val \cup {Nil}] /\ cmd \in [Worker -> Item] /\ queue \in Seq(Item)
      /\ wpc[w] = "put" => todo[w] \subseteq DOMAIN cmd[w]
  BY Zenon DEF OInv, Inv, TypeOK, StoreType, Content, WorkType, ClientType
<1>2. /\ StoreKept /\ WorkTouches /\ Touching(queue) /\ \A t \in Slot : Carried(down[t])
  BY Zenon DEF OthersTouched
<1>3. CASE SendToClients(w)
  BY <1>2, <1>3, TouchSend, Zenon DEF SendToClients, store, client, link
<1>4. CASE Partial(w)
  <2> DEFINE S == {k \in DOMAIN cmd[w] : k < current}
  <2>1. UNCHANGED <<db, queue, down>> /\ cmd' = [cmd EXCEPT ![w] = Restrict(@, S)]
    BY <1>4, Zenon DEF Partial, store, client, link
  <2>2. DOMAIN Restrict(cmd[w], S) = S /\ \A k \in S : Restrict(cmd[w], S)[k] = cmd[w][k]
    BY Zenon DEF Restrict
  <2>3. S \subseteq DOMAIN cmd[w]
    BY Zenon
  <2> HIDE DEF S
  <2>4. WorkTouches'
    BY <1>1, <1>2, <2>1, <2>2, <2>3, Zenon DEF WorkTouches
  <2>5. QED
    BY <1>2, <2>1, <2>4, TouchWork, Zenon
<1>5. CASE Enqueue(w)
  <2>1. UNCHANGED <<db, cmd, down>> /\ queue' = Append(queue, cmd[w])
    BY <1>5, Zenon DEF Enqueue, store, link
  <2>2. Touching(queue')
    <3>1. \A i \in 1 .. Len(queue') : queue'[i] = cmd[w] \/ (i \in 1 .. Len(queue) /\ queue'[i] = queue[i])
      BY <1>1, <2>1
    <3>2. QED
      BY <1>2, <3>1, Zenon DEF Touching, WorkTouches
  <2>3. QED
    BY <1>2, <2>1, <2>2, TouchSend, Zenon
<1>6. ASSUME NEW k \in Key, Put(w, k) PROVE OthersTouched'
  <2>1. /\ UNCHANGED <<cmd, queue, down>> /\ db' = [db EXCEPT ![k] = cmd[w][k]]
        /\ k \in DOMAIN cmd[w]
    BY <1>1, <1>6, Zenon DEF Put, client, link
  <2>2. StoreKept'
    BY <1>1, <1>2, <2>1, Zenon DEF StoreKept, WorkTouches, Untouched
  <2>3. QED
    BY <2>1, <2>2, TouchFrame, Zenon
<1>7. QED
  BY <1>3, <1>4, <1>5, <1>6, Zenon DEF WorkerStep

\* Untouched keys keep their values throughout.
LEMMA TouchNext ==
  ASSUME NoDeletes, OInv, OthersTouched, [Next]_vars
  PROVE  OthersTouched'
<1>1. TypeOK /\ Touching(queue) /\ \A t \in Slot : Carried(down[t])
  BY Zenon DEF OInv, Inv, OthersTouched
<1>2. CASE SyncInitial
  <2>1. /\ UNCHANGED <<db, cmd, queue>>
        /\ down' = down \/ _push_next_portion(fillConn, current, current_keys)
    BY <1>2, Zenon DEF SyncInitial, store, work
  <2>2. filling > 0 /\ Alive
    BY <1>2, Zenon DEF SyncInitial
  <2>3. fillConn \in Slot
    BY <2>2, Zenon DEF OInv, Inv, FillKeys
  <2>4. \A t \in Slot : Carried(down'[t])
    BY <1>1, <2>1, <2>3, PortionCarries, Zenon
  <2>5. QED
    BY <1>1, <2>1, <2>4, TouchSend, Zenon
<1>3. ASSUME NEW s \in Slot, PollPush(s) PROVE OthersTouched'
  <2>1. /\ UNCHANGED <<db, cmd>>
        /\ UNCHANGED <<queue, down>> \/ _push_queue_items(s, queue, queue_pipelined)
    BY <1>3, Zenon DEF PollPush, store, work
  <2>2. /\ queue \in Seq(Item) /\ queue_pipelined \in Int
        /\ queue_pipelined <= Len(queue) /\ queue_pipelined <= PipelineSize
    BY Zenon DEF OInv, Inv, TypeOK, ClientType, PipelineBound
  <2>3. Touching(queue') /\ \A t \in Slot : Carried(down'[t])
    BY <1>1, <2>1, <2>2, PushCarries, Zenon
  <2>4. QED
    BY <2>1, <2>3, TouchSend, Zenon
<1>4. ASSUME NEW s \in Slot, PollWake(s) \/ OrphanWake(s) \/ Accept(s) \/ MasterClose(s)
      PROVE  OthersTouched'
  <2>1. UNCHANGED <<db, cmd, queue, down>>
    BY <1>4, Zenon DEF PollWake, OrphanWake, Accept, MasterClose, store, client, link, work
  <2>2. QED
    BY <1>1, <2>1, TouchSend, Zenon
<1>5. ASSUME NEW w \in Worker, NEW c \in Cmd, Begin(w, c) PROVE OthersTouched'
  <2>1. UNCHANGED <<db, queue, down>> /\ cmd' = [cmd EXCEPT ![w] = c] /\ cmd \in [Worker -> Item]
    BY <1>1, <1>5, Zenon DEF Begin, store, client, link, TypeOK, WorkType
  <2>2. WorkTouches'
    BY <2>1, CmdTouches, Zenon DEF OthersTouched, WorkTouches
  <2>3. QED
    BY <1>1, <2>1, <2>2, TouchWork, Zenon
<1>6. CASE UNCHANGED vars
  <2>1. UNCHANGED <<db, cmd, queue, down>>
    BY <1>6, Zenon DEF vars, store, client, link, work
  <2>2. QED
    BY <1>1, <2>1, TouchSend, Zenon
<1>7. QED
  BY <1>2, <1>3, <1>4, <1>5, <1>6, TConfirm, TSetState, TEnds, TWorker, Zenon DEF Next
-----------------------------------------------------------------------------
(* A portion leaves out no key between the one it starts from and its last. *)

\* A set of natural numbers that is not empty has a least element.
LEMMA LeastKey ==
  ASSUME NEW T \in SUBSET Nat, T # {}
  PROVE  \E m \in T : \A n \in T : m <= n
<1>1. \E m \in T : \A n \in T : ~(<<n, m>> \in OpToRel(<, Nat))
  BY NatLessThanWellFounded, WFMin, Zenon
<1>2. \A m, n \in T : ~(<<n, m>> \in OpToRel(<, Nat)) => ~(n < m)
  BY Zenon DEF OpToRel
<1>3. \A m, n \in T : ~(n < m) => m <= n
  OBVIOUS
<1>4. QED
  BY <1>1, <1>2, <1>3, Zenon

\* The iterator finds the key it is sent to, and Next takes it to the keys above.
LEMMA PortionRest ==
  ASSUME NEW from \in Live \cup {0}
  PROVE  /\ ~NextIsInvalid(from)
         /\ PortionKeys(from) =
              {k \in {i \in Live : from < i} :
                 Cardinality({j \in {i \in Live : from < i} : j < k}) < PortionSize}
<1> DEFINE Found == {k \in Live : from <= k}
           Rest == IF from = 0 THEN Live ELSE Found \ {Min(Found)}
<1>1. Live \subseteq Nat \ {0}
  BY KeyAssumption DEF Live, Key
<1>2. from \in Nat
  BY <1>1
<1>3. ~NextIsInvalid(from)
  BY <1>1, <1>2 DEF NextIsInvalid
<1>4. from # 0 => Min(Found) = from
  BY <1>1, <1>2 DEF Min
<1>5. Rest = {k \in Live : from < k}
  <2>1. CASE from = 0
    <3>1. Rest = Live
      BY <2>1, Zenon
    <3>2. \A k \in Live : from < k
      BY <1>1, <2>1
    <3> HIDE DEF Rest
    <3>3. QED
      BY <3>1, <3>2, Zenon
  <2>2. CASE from # 0
    <3>1. Rest = Found \ {from}
      BY <1>4, <2>2, Zenon
    <3>2. \A k \in Live : (from <= k /\ k # from) <=> from < k
      BY <1>1, <1>2
    <3>3. ASSUME NEW k PROVE k \in Rest <=> k \in {j \in Live : from < j}
      BY <3>1, <3>2, Zenon
    <3> HIDE DEF Rest
    <3>4. QED
      BY <3>3, Zenon
  <2>3. QED
    BY <2>1, <2>2, Zenon
<1>6. PortionKeys(from) = {k \in Rest : Cardinality({j \in Rest : j < k}) < PortionSize}
  BY Zenon DEF PortionKeys
<1> HIDE DEF Rest
<1>7. QED
  BY <1>3, <1>5, <1>6, Zenon

\* The keys up to the last one of a portion are in it or were passed before; a portion
\* without keys means that all were.
LEMMA PortionCovers ==
  ASSUME NEW from \in Live \cup {0}, NEW new,
         new = IF PortionKeys(from) = {} THEN from ELSE Max(PortionKeys(from))
  PROVE  /\ new \in Live \cup {0}
         /\ \A k \in Live : k <= new => k <= from \/ k \in PortionKeys(from)
         /\ PortionKeys(from) = {} => \A k \in Live : k <= from
<1> DEFINE Rest == {k \in Live : from < k}
           Below(k) == {j \in Rest : j < k}
           S == PortionKeys(from)
<1>1. Live \subseteq Key /\ Key \subseteq Nat \ {0} /\ IsFiniteSet(Key)
  <2>1. Live \subseteq Key
    BY Zenon DEF Live
  <2>2. Key \subseteq Nat \ {0}
    BY KeyAssumption DEF Key
  <2>3. IsFiniteSet(Key)
    BY KeyAssumption, FS_Interval DEF Key
  <2>4. QED
    BY <2>1, <2>2, <2>3, Zenon
<1>2. from \in Nat /\ Rest \subseteq Nat /\ Rest \subseteq Key
  <2>1. from \in Nat
    BY <1>1
  <2>2. Rest \subseteq Live
    BY Zenon
  <2> HIDE DEF Rest
  <2>3. QED
    BY <1>1, <2>1, <2>2, Zenon
<1>3. S = {k \in Rest : Cardinality(Below(k)) < PortionSize}
  BY PortionRest, Zenon
<1>4. IsFiniteSet(Rest)
  <2> HIDE DEF Rest
  <2>1. Rest \in SUBSET Key
    BY <1>2, Zenon
  <2>2. QED
    BY <1>1, <2>1, FS_Subset, Zenon
<1> HIDE DEF S, Rest
<1>5. ASSUME NEW k \in Rest PROVE IsFiniteSet(Below(k)) /\ Cardinality(Below(k)) \in Nat
  <2>1. Below(k) \in SUBSET Rest
    BY Zenon
  <2> HIDE DEF Below
  <2>2. QED
    BY <1>4, <2>1, FS_Subset, FS_CardinalityType, Zenon
<1>6. ASSUME NEW k \in S, NEW j \in Rest, j <= k PROVE j \in S
  <2>1. k \in Rest /\ Cardinality(Below(k)) < PortionSize
    BY <1>3, Zenon
  <2>2. Below(j) \subseteq Below(k)
    <3>1. \A i \in Rest : i < j => i < k
      BY <1>2, <1>6, <2>1
    <3>2. QED
      BY <3>1, Zenon
  <2>3. IsFiniteSet(Below(k)) /\ Cardinality(Below(k)) \in Nat /\ Cardinality(Below(j)) \in Nat
    BY <1>5, <2>1, Zenon
  <2> HIDE DEF Below
  <2>4. Cardinality(Below(j)) <= Cardinality(Below(k))
    BY <2>2, <2>3, FS_Subset, Zenon
  <2>5. Cardinality(Below(j)) < PortionSize
    BY <2>1, <2>3, <2>4, SizeAssumption
  <2>6. QED
    BY <1>3, <2>5, Zenon
<1>7. ASSUME Rest # {} PROVE S # {}
  <2>1. PICK m \in Rest : \A n \in Rest : m <= n
    BY <1>2, <1>7, LeastKey, Zenon
  <2>2. Below(m) = {}
    <3>1. \A i \in Rest : ~(i < m)
      BY <1>2, <2>1
    <3>2. QED
      BY <3>1, Zenon
  <2> HIDE DEF Below
  <2>3. Cardinality(Below(m)) < PortionSize
    BY <2>2, FS_EmptySet, SizeAssumption
  <2>4. QED
    BY <1>3, <2>3, Zenon
<1>8. CASE S = {}
  <2>1. \A k \in Live : k <= from
    BY <1>1, <1>2, <1>7, <1>8 DEF Rest
  <2>2. new = from
    BY <1>8, Zenon DEF S
  <2>3. QED
    BY <2>1, <2>2, Zenon
<1>9. CASE S # {}
  <2>1. S \subseteq Rest /\ S \subseteq Key /\ Rest \subseteq Live
    BY <1>2, <1>3, Zenon DEF Rest
  <2>2. new = Max(S) /\ new \in S
    BY <1>9, <2>1, MaxOfKeys, Zenon DEF S
  <2>3. \A k \in Live : k <= new => k <= from \/ k \in S
    <3>1. \A k \in Live : k <= from \/ k \in Rest
      BY <1>1, <1>2 DEF Rest
    <3>2. QED
      BY <1>6, <2>2, <3>1, Zenon
  <2>4. QED
    BY <1>9, <2>1, <2>2, <2>3, Zenon DEF S
<1>10. QED
  BY <1>8, <1>9
-----------------------------------------------------------------------------
(* What the fill has passed arrives.                                       *)

\* Steps that leave the fill and the slave alone, and delete nothing.
LEMMA FQuiet ==
  ASSUME Fills, UNCHANGED <<slave, present, state, current_keys, filling, open, clid, down, up, at>>,
         Live \subseteq Live', Alive' => Alive
  PROVE  Fills'
<1>1. UNCHANGED current
  BY Zenon DEF current
<1>2. CurrentIsLive'
  BY <1>1, Zenon DEF Fills, CurrentIsLive
<1>3. PassedArrives'
  BY <1>1, Zenon DEF Fills, PassedArrives, Arrives
<1>4. FinishingIsOver' /\ Filled'
  BY <1>1, Zenon DEF Fills, FinishingIsOver, Filled
<1>5. QED
  BY <1>2, <1>3, <1>4, Zenon DEF Fills

\* Steps of a running client.
LEMMA FRunning ==
  ASSUME Fills, UNCHANGED <<db, slave, present, state, current_keys>>,
         Alive' => Alive, state = "running"
  PROVE  Fills'
<1>1. UNCHANGED current /\ UNCHANGED Live
  BY Zenon DEF current, Live
<1>2. CurrentIsLive'
  BY <1>1, Zenon DEF Fills, CurrentIsLive
<1>3. PassedArrives' /\ FinishingIsOver' /\ Filled'
  BY Zenon DEF Fills, PassedArrives, FinishingIsOver, Filled
<1>4. QED
  BY <1>2, <1>3, Zenon DEF Fills

\* A client that starts afresh has passed nothing, and one that is deleted neither.
LEMMA FAfresh ==
  ASSUME Fills, current_keys' = <<>>, state' = "not_ready"
  PROVE  Fills'
<1>1. current' = 0
  BY Zenon DEF current
<1>2. \A k \in Wanted : ~(k <= 0)
  BY KeyAssumption DEF Wanted, Untouched, Key
<1>3. CurrentIsLive' /\ FinishingIsOver' /\ Filled'
  BY <1>1, Zenon DEF CurrentIsLive, FinishingIsOver, Filled
<1>4. PassedArrives'
  BY <1>1, <1>2, Zenon DEF PassedArrives
<1>5. QED
  BY <1>3, <1>4, Zenon DEF Fills

\* Steps after which no registered connection is open.
LEMMA FNobody ==
  ASSUME Fills, UNCHANGED <<db, slave, present, state, current_keys, filling>>,
         Alive' => Alive, \A s \in Slot : ~(open'[s] /\ clid'[s])
  PROVE  Fills'
<1>1. UNCHANGED current /\ UNCHANGED Live
  BY Zenon DEF current, Live
<1>2. CurrentIsLive' /\ FinishingIsOver' /\ Filled'
  BY <1>1, Zenon DEF Fills, CurrentIsLive, FinishingIsOver, Filled
<1>3. PassedArrives'
  BY Zenon DEF PassedArrives
<1>4. QED
  BY <1>2, <1>3, Zenon DEF Fills

\* A new connection is the only one, and not yet registered.
LEMMA FAccept ==
  ASSUME Orderly, OInv, Fills, NEW s \in Slot, Accept(s)
  PROVE  Fills'
<1>1. /\ open \in [Slot -> BOOLEAN] /\ open' = [open EXCEPT ![s] = TRUE]
      /\ UNCHANGED <<db, slave, present, state, current_keys, filling, clid, dead>>
      /\ \A t \in Slot : ~open[t]
  BY Zenon DEF OInv, Inv, TypeOK, LinkType, Accept, Settled, store, client, fill, hist
<1>2. \A t \in Slot : ~clid[t]
  BY <1>1, Zenon DEF OInv, OneConnection
<1>3. QED
  BY <1>1, <1>2, FNobody, Zenon DEF Alive

\* The connection that is closed is the only one.
LEMMA FMasterClose ==
  ASSUME OInv, Fills, NEW s \in Slot, MasterClose(s)
  PROVE  Fills'
<1>1. /\ open \in [Slot -> BOOLEAN] /\ open' = [open EXCEPT ![s] = FALSE] /\ open[s]
      /\ UNCHANGED <<db, slave, present, state, current_keys, filling, dead>>
  BY Zenon DEF OInv, Inv, TypeOK, LinkType, MasterClose, Close, store, client, fill, hist
<1>2. \A t \in Slot : open[t] => t = s
  BY <1>1, Zenon DEF OInv, OneConnection
<1>3. \A t \in Slot : ~open'[t]
  BY <1>1, <1>2, Zenon
<1>4. QED
  BY <1>1, <1>3, FNobody, Zenon DEF Alive

\* When the slave leaves, a portion under way is lost and its key stays unconfirmed.
LEMMA FSlaveLeave ==
  ASSUME OInv, Fills, SlaveLeave
  PROVE  Fills'
<1>1. /\ down \in [Slot -> Seq(Item)] /\ at \in Slot /\ at' = 0 /\ Alive
      /\ down' = [down EXCEPT ![at] = <<>>]
      /\ UNCHANGED <<db, slave, present, state, current_keys, filling, open, clid, up, dead>>
  BY Zenon DEF OInv, Inv, TypeOK, LinkType, EndsType, SlaveLeave, store, client, fill, hist
<1>2. UNCHANGED current /\ UNCHANGED Live /\ UNCHANGED Alive
  BY <1>1, Zenon DEF current, Live, Alive
<1>3. CurrentIsLive' /\ FinishingIsOver' /\ Filled'
  BY <1>1, <1>2, Zenon DEF Fills, CurrentIsLive, FinishingIsOver, Filled
<1>4. ASSUME NEW s \in Slot, open[s], clid[s], present, state # "running"
      PROVE  \/ up[s] < Len(current_keys)
             \/ \A k \in Wanted : k <= current => slave[k] = Db0[k]
  <2>1. at = s /\ at # 0
    BY <1>1, <1>4, SlotAssumption, Zenon DEF OInv, OneConnection
  <2>2. \A k \in Wanted : k <= current => Arrives(k, s)
    BY <1>1, <1>4, <2>1, Zenon DEF Fills, PassedArrives
  <2>3. CASE down[s] = <<>>
    <3>1. 1 .. Len(down[s]) = {}
      BY <2>3
    <3>2. QED
      BY <2>2, <3>1, Zenon DEF Arrives
  <2>4. CASE down[s] # <<>>
    <3>1. /\ down[s] \in Seq(Item) /\ up[s] \in Nat /\ Len(current_keys) \in Nat
          /\ up[s] + Len(down[s]) <= Len(current_keys)
      BY <1>1, <1>4 DEF OInv, Inv, TypeOK, LinkType, ClientType, FillWindow
    <3>2. Len(down[s]) \in Nat \ {0}
      BY <2>4, <3>1
    <3>3. QED
      BY <3>1, <3>2
  <2>5. QED
    BY <2>3, <2>4, Zenon
<1>5. PassedArrives'
  <2>1. \A s \in Slot : at' # s
    BY <1>1, SlotAssumption, Zenon
  <2>2. QED
    BY <1>1, <1>2, <1>4, <2>1, Zenon DEF PassedArrives, Arrives
<1>6. QED
  BY <1>3, <1>5, Zenon DEF Fills

\* What the slave applies has the wanted values.
LEMMA FSlaveApply ==
  ASSUME OInv, OthersTouched, Fills, SlaveApply
  PROVE  Fills'
<1> DEFINE item == Head(down[at])
<1>1. /\ down \in [Slot -> Seq(Item)] /\ at \in Slot /\ at' = at /\ down[at] # <<>> /\ Alive
      /\ slave' = Apply(slave, item)
      /\ down' = [down EXCEPT ![at] = Tail(down[at])]
      /\ UNCHANGED <<db, present, state, current_keys, filling, open, clid, dead>>
  BY Zenon DEF OInv, Inv, TypeOK, LinkType, EndsType, SlaveApply, client, fill, ends, hist
<1>2. UNCHANGED current /\ UNCHANGED Live /\ UNCHANGED Alive
  BY <1>1, Zenon DEF current, Live, Alive
<1>3. /\ Len(down[at]) \in Nat \ {0} /\ item = down[at][1] /\ 1 \in 1 .. Len(down[at])
      /\ \A i \in 1 .. Len(down[at]) : i # 1 => /\ i - 1 \in 1 .. Len(Tail(down[at]))
                                                /\ Tail(down[at])[i - 1] = down[at][i]
  BY <1>1
<1>4. \A k \in Wanted : k \in DOMAIN item => item[k] = Db0[k]
  <2>1. Carried(down[at])
    BY <1>1, Zenon DEF OthersTouched
  <2>2. Wanted \subseteq Untouched
    BY Zenon DEF Wanted
  <2> HIDE DEF item
  <2>3. QED
    BY <1>3, <2>1, <2>2, Zenon DEF Carried
<1>5. \A k \in Wanted : slave'[k] = IF k \in DOMAIN item THEN item[k] ELSE slave[k]
  BY <1>1, Zenon DEF Apply, Wanted, Untouched
<1> HIDE DEF item
<1>6. \A k \in Wanted : k \in DOMAIN item \/ slave[k] = Db0[k] => slave'[k] = Db0[k]
  BY <1>4, <1>5
<1>7. CurrentIsLive' /\ FinishingIsOver' /\ Filled'
  BY <1>1, <1>2, <1>6, Zenon DEF Fills, CurrentIsLive, FinishingIsOver, Filled
<1>8. ASSUME NEW k \in Wanted, Arrives(k, at) PROVE Arrives(k, at)'
  <2>1. CASE slave[k] = Db0[k]
    BY <1>6, <2>1, Zenon DEF Arrives
  <2>2. ASSUME NEW i \in 1 .. Len(down[at]), k \in DOMAIN down[at][i] PROVE Arrives(k, at)'
    <3>1. CASE i = 1
      BY <1>3, <1>6, <2>2, <3>1, Zenon DEF Arrives
    <3>2. CASE i # 1
      <4>1. down'[at'] = Tail(down[at])
        BY <1>1, Zenon
      <4>2. i - 1 \in 1 .. Len(down'[at']) /\ k \in DOMAIN down'[at'][i - 1]
        BY <1>3, <2>2, <3>2, <4>1, Zenon
      <4>3. QED
        BY <4>2, Zenon DEF Arrives
    <3>3. QED
      BY <3>1, <3>2, Zenon
  <2>3. QED
    BY <1>8, <2>1, <2>2, Zenon DEF Arrives
<1>9. PassedArrives'
  <2>1. \A s \in Slot : open[s] => at = s
    BY <1>1, SlotAssumption, Zenon DEF OInv, OneConnection
  <2>2. \A s \in Slot : open[s] /\ clid[s] /\ present /\ state # "running" =>
          \A k \in Wanted : k <= current => Arrives(k, at)
    BY <1>1, <2>1, Zenon DEF Fills, PassedArrives
  <2>3. QED
    BY <1>1, <1>2, <1>8, <2>1, <2>2, Zenon DEF PassedArrives
<1>10. QED
  BY <1>7, <1>9, Zenon DEF Fills

\* A portion sent over s from the key the fill has come to.
LEMMA FPortion ==
  ASSUME OInv, OthersTouched, Fills, Alive, NEW s \in Slot, NEW keys \in Seq(Key \cup {0}),
         _push_next_portion(s, current, keys), open[s], clid[s], present, state # "running",
         UNCHANGED <<db, slave, present, open, clid, at>>, state' # "running",
         Len(keys) \in Nat, up'[s] \in Nat, up'[s] <= Len(keys),
         Alive' /\ filling' = 0 /\ state' = "sync_finishing" => PortionKeys(current) = {}
  PROVE  Fills'
<1> DEFINE S == PortionKeys(current)
           new == IF S = {} THEN current ELSE Max(S)
           item == [k \in S |-> db[k]]
<1>1. TypeOK /\ down \in [Slot -> Seq(Item)] /\ up \in [Slot -> Nat]
  BY Zenon DEF OInv, Inv, TypeOK, LinkType
<1>2. current \in Live \cup {0} /\ current \in Key \cup {0}
  BY <1>1, CurrentType, Zenon DEF Fills, CurrentIsLive
<1>3. /\ new \in Live \cup {0} /\ \A k \in Live : k <= new => k <= current \/ k \in S
      /\ S = {} => \A k \in Live : k <= current
  <2>1. new = IF PortionKeys(current) = {} THEN current ELSE Max(PortionKeys(current))
    BY Zenon
  <2> HIDE DEF new
  <2>2. QED
    BY <1>2, <2>1, PortionCovers, Zenon
<1>4. Wanted \subseteq Live
  BY Zenon DEF OthersTouched, StoreKept, Wanted, Untouched, Live
<1>5. item \in Item /\ DOMAIN item = S
  <2>1. S \subseteq Key
    BY PortionKeysType, Zenon
  <2> HIDE DEF S
  <2>2. TypeOK
    BY <1>1, Zenon
  <2>3. item \in Item
    BY <2>1, <2>2, PortionItem, Zenon
  <2>4. QED
    BY <2>3, Zenon
<1>6. current_keys' = Append(keys, new) /\ down' = [down EXCEPT ![s] = Sent(s, <<item>>)]
  BY Zenon DEF _push_next_portion
<1>7. new \in Key \cup {0}
  BY <1>3, Zenon DEF Live
<1>8. S = {} => new = current
  BY Zenon
<1> HIDE DEF S, new, item
<1>9. Len(current_keys') = Len(keys) + 1 /\ current' = new
  <2>1. /\ Len(Append(keys, new)) = Len(keys) + 1 /\ Append(keys, new)[Len(keys) + 1] = new
        /\ Append(keys, new) # <<>>
    BY <1>7
  <2>2. QED
    BY <1>6, <2>1, Zenon DEF current
<1>10. CurrentIsLive'
  BY <1>3, <1>9, Zenon DEF CurrentIsLive, Live
<1>11. FinishingIsOver'
  BY <1>3, <1>4, <1>8, <1>9, Zenon DEF FinishingIsOver, S
<1>12. Filled'
  BY Zenon DEF Filled
<1>13. ASSUME at = s PROVE \A k \in Wanted : k <= new => Arrives(k, s)'
  <2>1. down'[s] = down[s] \o <<item>> /\ down[s] \in Seq(Item)
    BY <1>1, <1>6, <1>13, Zenon DEF Sent
  <2>2. /\ Len(down[s]) \in Nat /\ Len(down[s]) + 1 \in 1 .. Len(down'[s])
        /\ down'[s][Len(down[s]) + 1] = item
        /\ \A i \in 1 .. Len(down[s]) : i \in 1 .. Len(down'[s]) /\ down'[s][i] = down[s][i]
    <3> DEFINE d == down[s]
               x == down'[s]
    <3>1. d \in Seq(Item) /\ item \in Item /\ x = d \o <<item>>
      BY <1>5, <2>1, Zenon
    <3> HIDE DEF d, x
    <3>2. /\ Len(d) \in Nat /\ Len(d) + 1 \in 1 .. Len(x) /\ x[Len(d) + 1] = item
          /\ \A i \in 1 .. Len(d) : i \in 1 .. Len(x) /\ x[i] = d[i]
      BY <3>1
    <3>3. QED
      BY <3>2, Zenon DEF d, x
  <2>3. \A k \in S : Arrives(k, s)'
    BY <1>5, <2>2, Zenon DEF Arrives
  <2>4. \A k \in Wanted : Arrives(k, s) => Arrives(k, s)'
    BY <2>2, Zenon DEF Arrives
  <2>5. \A k \in Wanted : k <= current => Arrives(k, s)
    BY <1>13, Zenon DEF Fills, PassedArrives
  <2>6. QED
    BY <1>3, <1>4, <2>3, <2>4, <2>5, Zenon
<1>14. at # s => up'[s] < Len(current_keys')
  <2>1. \A u, n \in Nat : u <= n => u < n + 1
    OBVIOUS
  <2>2. QED
    BY <1>9, <2>1, Zenon
<1>15. \A t \in Slot : open'[t] => t = s
  BY Zenon DEF OInv, OneConnection
<1>16. PassedArrives'
  BY <1>9, <1>13, <1>14, <1>15, Zenon DEF PassedArrives
<1>17. QED
  BY <1>10, <1>11, <1>12, <1>16, Zenon DEF Fills

\* sync_initial.
LEMMA FSyncInitial ==
  ASSUME OInv, OthersTouched, Fills, SyncInitial
  PROVE  Fills'
<1> DEFINE s == fillConn
<1>1. filling > 0 /\ Alive /\ current_keys \in Seq(Key \cup {0}) /\ filling \in Nat
  BY DEF SyncInitial, OInv, Inv, TypeOK, ClientType, FillType
<1>2. s \in Slot /\ present /\ open[s] /\ clid[s] /\ state # "running"
  BY <1>1, Zenon DEF OInv, Inv, FillKeys, FreshIsQuiet
<1>3. ~NextIsInvalid(current)
  BY <1>1, PortionRest, Zenon DEF Fills, CurrentIsLive
<1>4. /\ _push_next_portion(s, current, current_keys)
      /\ state' = IF filling = 1 THEN "syncing" ELSE AfterPortion(current)
      /\ filling' = filling - 1
      /\ UNCHANGED <<db, slave, present, open, clid, at, up>>
  BY <1>3, Zenon DEF SyncInitial, store, ends
<1>5. up[s] <= Len(current_keys) /\ Len(current_keys) \in Nat /\ up[s] \in Nat
  <2>1. /\ up[s] \in Nat /\ Len(down[s]) \in Nat /\ Len(current_keys) \in Nat
        /\ up[s] + Len(down[s]) <= Len(current_keys)
    BY <1>1, <1>2 DEF OInv, Inv, TypeOK, LinkType, FillWindow
  <2>2. QED
    BY <2>1
<1>6. state' # "running" /\ ~(filling' = 0 /\ state' = "sync_finishing")
  BY <1>1, <1>2, <1>4 DEF AfterPortion
<1> HIDE DEF s
<1>7. QED
  BY <1>1, <1>2, <1>4, <1>5, <1>6, FPortion, Zenon

\* on_confirm while syncing.
LEMMA FConfirmPortion ==
  ASSUME OInv, OthersTouched, Fills, NEW s \in Slot, ConfirmPortion(s)
  PROVE  Fills'
<1>1. /\ Alive /\ open[s] /\ clid[s] /\ present /\ state = "syncing" /\ current_keys # <<>>
      /\ current_keys \in Seq(Key \cup {0}) /\ Confirmation(s) /\ TakeConfirmation(s)
  BY Zenon DEF ConfirmPortion, Confirmation, MuxFree, OInv, Inv, TypeOK, ClientType
<1>2. ~NextIsInvalid(current)
  BY <1>1, PortionRest, Zenon DEF Fills, CurrentIsLive
<1>3. /\ _push_next_portion(s, current, Tail(current_keys)) /\ state' = AfterPortion(current)
      /\ UNCHANGED <<db, slave, present, open, clid, at>>
  BY <1>2, Zenon DEF ConfirmPortion, TakeConfirmation, store, ends
<1>4. up[s] \in Nat /\ up[s] > 0 /\ up'[s] = up[s] - 1 /\ up'[s] \in Nat
  BY <1>1, TakeOne, Zenon DEF OInv, Inv
<1>5. /\ Tail(current_keys) \in Seq(Key \cup {0}) /\ Len(Tail(current_keys)) \in Nat
      /\ Len(Tail(current_keys)) = Len(current_keys) - 1 /\ Len(current_keys) \in Nat
  BY <1>1
<1>6. up'[s] <= Len(Tail(current_keys))
  <2>1. Len(down[s]) \in Nat /\ up[s] + Len(down[s]) <= Len(current_keys)
    BY <1>1 DEF OInv, Inv, TypeOK, LinkType, FillWindow
  <2>2. QED
    BY <1>4, <1>5, <2>1
<1>7. state' # "running" /\ (state' = "sync_finishing" => PortionKeys(current) = {})
  BY <1>1, <1>3, Zenon DEF AfterPortion
<1> DEFINE keys == Tail(current_keys)
<1>8. /\ keys \in Seq(Key \cup {0}) /\ Len(keys) \in Nat /\ up'[s] <= Len(keys)
      /\ _push_next_portion(s, current, keys)
  BY <1>3, <1>5, <1>6, Zenon
<1> HIDE DEF keys
<1>9. state # "running"
  BY <1>1, Zenon
<1>10. QED
  BY <1>1, <1>3, <1>4, <1>7, <1>8, <1>9, FPortion, Zenon

\* The last confirmation says that everything has arrived.
LEMMA FConfirmFinishing ==
  ASSUME OInv, OthersTouched, Fills, NEW s \in Slot, ConfirmFinishing(s)
  PROVE  Fills'
<1>1. /\ Alive /\ filling = 0 /\ open[s] /\ clid[s] /\ present /\ state = "sync_finishing"
      /\ current_keys # <<>> /\ current_keys \in Seq(Key \cup {0})
      /\ Confirmation(s) /\ TakeConfirmation(s) /\ current_keys' = Tail(current_keys)
      /\ UNCHANGED <<db, slave, present, filling, open, clid, at, dead>>
  BY Zenon DEF ConfirmFinishing, Confirmation, MuxFree, TakeConfirmation, OInv, Inv, TypeOK, ClientType,
         store, fill, ends, hist
<1>2. up[s] \in Nat /\ up[s] > 0 /\ up'[s] = up[s] - 1 /\ up'[s] \in Nat
  BY <1>1, TakeOne, Zenon DEF OInv, Inv
<1>3. /\ down[s] \in Seq(Item) /\ Len(down[s]) \in Nat /\ Len(current_keys) \in Nat
      /\ up[s] + Len(down[s]) <= Len(current_keys)
  BY <1>1 DEF OInv, Inv, TypeOK, LinkType, FillWindow
<1>4. \A k \in Wanted : k <= current
  BY <1>1, Zenon DEF Fills, FinishingIsOver
<1>5. \A t \in Slot : open[t] => t = s
  BY <1>1, Zenon DEF OInv, OneConnection
<1>6. Len(Tail(current_keys)) = Len(current_keys) - 1 /\ Tail(current_keys) \in Seq(Key \cup {0})
  BY <1>1
<1>7. CASE Tail(current_keys) = <<>>
  <2>1. state' = "running"
    BY <1>7, Zenon DEF ConfirmFinishing
  <2>2. Len(current_keys) = 1
    <3>1. Len(Tail(current_keys)) = 0
      BY <1>7, EmptySeq, Zenon
    <3>2. \A n \in Nat : n - 1 = 0 => n = 1
      OBVIOUS
    <3>3. QED
      BY <1>3, <1>6, <3>1, <3>2, Zenon
  <2>3. ~(up[s] < Len(current_keys)) /\ Len(down[s]) = 0
    BY <1>2, <1>3, <2>2
  <2>4. 1 .. Len(down[s]) = {}
    BY <2>3
  <2>5. \A k \in Wanted : Arrives(k, s)
    BY <1>1, <1>4, <2>3, Zenon DEF Fills, PassedArrives
  <2>6. \A k \in Wanted : slave[k] = Db0[k]
    BY <2>4, <2>5, Zenon DEF Arrives
  <2>7. Filled'
    BY <1>1, <2>6, Zenon DEF Filled
  <2>8. CurrentIsLive'
    BY <1>1, <1>7, Zenon DEF CurrentIsLive, current
  <2>9. PassedArrives' /\ FinishingIsOver'
    BY <2>1, Zenon DEF PassedArrives, FinishingIsOver
  <2>10. QED
    BY <2>7, <2>8, <2>9, Zenon DEF Fills
<1>8. CASE Tail(current_keys) # <<>>
  <2>1. state' = state /\ down' = down
    BY <1>8, Zenon DEF ConfirmFinishing
  <2>2. /\ Len(current_keys) - 1 \in Nat \ {0}
        /\ Tail(current_keys)[Len(current_keys) - 1] = current_keys[Len(current_keys)]
    BY <1>1, <1>3, <1>6, <1>8
  <2>3. UNCHANGED current
    BY <1>1, <1>6, <1>8, <2>2, Zenon DEF current
  <2>4. Live' = Live /\ (Alive' <=> Alive)
    BY <1>1, Zenon DEF Live, Alive
  <2>5. CurrentIsLive' /\ FinishingIsOver' /\ Filled'
    BY <1>1, <2>1, <2>3, <2>4, Zenon DEF Fills, CurrentIsLive, FinishingIsOver, Filled
  <2>6. \/ at # s /\ up'[s] < Len(current_keys')
        \/ \A k \in Wanted : k <= current => Arrives(k, s)
    <3>1. \/ at # s /\ up[s] < Len(current_keys)
          \/ \A k \in Wanted : k <= current => Arrives(k, s)
      BY <1>1, Zenon DEF Fills, PassedArrives
    <3>2. up[s] < Len(current_keys) => up'[s] < Len(current_keys')
      <4>1. \A u, n \in Nat : u < n => u - 1 < n - 1
        OBVIOUS
      <4>2. QED
        BY <1>1, <1>2, <1>3, <1>6, <4>1, Zenon
    <3>3. QED
      BY <3>1, <3>2, Zenon
  <2>7. \A k \in Wanted : Arrives(k, s) => Arrives(k, s)'
    BY <1>1, <2>1, Zenon DEF Arrives
  <2>8. PassedArrives'
    BY <1>1, <1>5, <2>3, <2>6, <2>7, Zenon DEF PassedArrives
  <2>9. QED
    BY <2>5, <2>8, Zenon DEF Fills
<1>9. QED
  BY <1>7, <1>8, Zenon

\* on_confirm.
LEMMA FConfirm ==
  ASSUME OInv, OInv', OthersTouched, Fills, NEW s \in Slot, Confirm(s)
  PROVE  Fills'
<1>1. ~ConfirmThrows(s)
  BY OConfirmThrows, Zenon
<1>2. ~ConfirmStopped(s)
  BY ZeroNotPositive, Zenon DEF OInv, FillWindow, ConfirmStopped, Confirmation
<1>3. CASE ConfirmItem(s)
  <2>1. state = "running" /\ UNCHANGED <<db, slave, present, state, current_keys, dead>>
    BY <1>3, Zenon DEF ConfirmItem, store
  <2>2. QED
    BY <2>1, FRunning, Zenon DEF Alive
<1>4. QED
  BY <1>1, <1>2, <1>3, FConfirmPortion, FConfirmFinishing, Zenon DEF Confirm

\* rep_setstate, when slaves only ask to start and to stop.
LEMMA FSetState ==
  ASSUME Mode \subseteq {"start", "stop"}, Fills, NEW s \in Slot, SetState(s)
  PROVE  Fills'
<1>1. ~SetStateContinue(s)
  BY Zenon DEF SetStateContinue, Registration
<1>2. current_keys' = <<>> /\ state' = "not_ready"
  BY <1>1, Zenon DEF SetState, SetStateStart, SetStateStop
<1>3. QED
  BY <1>2, FAfresh, Zenon

\* The pool threads: they delete nothing.
LEMMA FWorker ==
  ASSUME OInv, OthersTouched, Fills, NEW w \in Worker, WorkerStep(w)
  PROVE  Fills'
<1>1. CASE SendToClients(w) \/ Partial(w) \/ Enqueue(w)
  <2>1. UNCHANGED <<db, slave, present, state, current_keys, filling, open, clid, down, up, at, dead>>
    BY <1>1, Zenon DEF SendToClients, Partial, Enqueue, store, client, fill, link, ends, hist
  <2>2. Live' = Live /\ (Alive' <=> Alive)
    BY <2>1, Zenon DEF Live, Alive
  <2>3. QED
    BY <2>1, <2>2, FQuiet, Zenon
<1>2. ASSUME NEW k \in Key, Put(w, k) PROVE Fills'
  <2>1. /\ UNCHANGED <<slave, present, state, current_keys, filling, open, clid, down, up, at, dead>>
        /\ db' = [db EXCEPT ![k] = cmd[w][k]] /\ k \in todo[w] /\ wpc[w] = "put"
    BY <1>2, Zenon DEF Put, client, fill, link, ends, hist
  <2>2. k \in DOMAIN cmd[w] /\ db \in [Key -> Val \cup {Nil}]
    BY <2>1, Zenon DEF OInv, Inv, TypeOK, StoreType, Content, WorkType
  <2>3. cmd[w][k] # Nil
    BY <2>2, Zenon DEF OthersTouched, WorkTouches
  <2>4. Live \subseteq Live' /\ (Alive' <=> Alive)
    BY <2>1, <2>2, <2>3, Zenon DEF Live, Alive
  <2>5. QED
    BY <2>1, <2>4, FQuiet, Zenon
<1>3. QED
  BY <1>1, <1>2, Zenon DEF WorkerStep

\* Every step keeps FillInv.
LEMMA FillInvNext ==
  Orderly /\ Mode \subseteq {"start", "stop"} /\ NoDeletes /\ FillInv /\ [Next]_vars => FillInv'
<1> SUFFICES ASSUME Orderly, Mode \subseteq {"start", "stop"}, NoDeletes, FillInv, [Next]_vars
             PROVE  FillInv'
  BY Zenon
<1>1. OInv /\ OthersTouched /\ Fills /\ OInv'
  BY OInvNext, Zenon DEF FillInv
<1>2. OthersTouched'
  BY <1>1, TouchNext, Zenon
<1>3. ASSUME NEW s \in Slot, PollWake(s) \/ OrphanWake(s) PROVE Fills'
  <2>1. /\ UNCHANGED <<db, slave, present, state, current_keys, filling, open, clid, down, up, at>>
        /\ Alive
    BY <1>3, Zenon DEF PollWake, OrphanWake, store, client, fill, link, ends
  <2>2. Live' = Live
    BY <2>1, Zenon DEF Live
  <2>3. QED
    BY <1>1, <2>1, <2>2, FQuiet, Zenon
<1>4. ASSUME NEW s \in Slot, PollPush(s) PROVE Fills'
  <2>1. UNCHANGED <<db, slave, present, state, current_keys>> /\ Alive /\ awake[s] > 0
    BY <1>4, Zenon DEF PollPush, MuxFree, store
  <2>2. state = "running"
    BY <1>1, <2>1, Zenon DEF OInv, ThreadsFollow
  <2>3. QED
    BY <1>1, <2>1, <2>2, FRunning, Zenon
<1>5. ASSUME NEW w \in Worker, NEW c \in Cmd, Begin(w, c) PROVE Fills'
  <2>1. UNCHANGED <<db, slave, present, state, current_keys, filling, open, clid, down, up, at, dead>>
    BY <1>5, Zenon DEF Begin, store, client, fill, link, ends, hist
  <2>2. Live \subseteq Live' /\ (Alive' => Alive)
    BY <2>1, Zenon DEF Live, Alive
  <2>3. QED
    BY <1>1, <2>1, <2>2, FQuiet, Zenon
<1>6. ASSUME UNCHANGED vars PROVE Fills'
  <2>1. UNCHANGED <<db, slave, present, state, current_keys, filling, open, clid, down, up, at, dead>>
    BY <1>6, Zenon DEF vars, store, client, fill, link, ends, hist
  <2>2. Live \subseteq Live' /\ (Alive' => Alive)
    BY <2>1, Zenon DEF Live, Alive
  <2>3. QED
    BY <1>1, <2>1, <2>2, FQuiet, Zenon
<1>7. ASSUME SyncInitial \/ SlaveLeave \/ SlaveApply PROVE Fills'
  BY <1>1, <1>7, FSyncInitial, FSlaveLeave, FSlaveApply, Zenon
<1>8. ASSUME NEW s \in Slot, Confirm(s) \/ SetState(s) \/ Accept(s) \/ MasterClose(s) PROVE Fills'
  <2>1. CASE Confirm(s)
    BY <1>1, <2>1, FConfirm, Zenon
  <2>2. CASE SetState(s)
    BY <1>1, <2>2, FSetState, Zenon
  <2>3. CASE Accept(s)
    BY <1>1, <2>3, FAccept, Zenon
  <2>4. CASE MasterClose(s)
    BY <1>1, <2>4, FMasterClose, Zenon
  <2>5. QED
    BY <1>8, <2>1, <2>2, <2>3, <2>4, Zenon
<1>9. ASSUME NEW w \in Worker, WorkerStep(w) PROVE Fills'
  BY <1>1, <1>9, FWorker, Zenon
<1>10. Fills'
  BY <1>3, <1>4, <1>5, <1>6, <1>7, <1>8, <1>9, Zenon DEF Next
<1>11. QED
  BY <1>1, <1>2, <1>10, Zenon DEF FillInv

\* The invariant says what the fill promises.
LEMMA FilledIsComplete == FillInv => FillComplete
<1> SUFFICES ASSUME FillInv, present, state = "running", NEW k \in Live,
                    \A c \in Cmd : k \notin DOMAIN c
             PROVE  slave[k] = db[k]
  BY Zenon DEF FillComplete
<1>1. k \in Untouched /\ db[k] # Nil
  BY Zenon DEF Live, Untouched
<1>2. db[k] = Db0[k]
  BY <1>1, Zenon DEF FillInv, OthersTouched, StoreKept
<1>3. k \in Wanted
  BY <1>1, <1>2, Zenon DEF Wanted
<1>4. QED
  BY <1>2, <1>3, Zenon DEF FillInv, Fills, Filled

\* When slaves only ask to start and to stop, the master is done with one connection before
\* the next and no command deletes a key: once on_confirm has turned the client to running,
\* every key that no command touches is on the slave with the master's value, however large
\* the store, the portions and the pipeline are, and whatever else is written meanwhile.
THEOREM FillSucceeds ==
  Orderly /\ Mode \subseteq {"start", "stop"} /\ NoDeletes => (Spec => []FillComplete)
<1> SUFFICES ASSUME Orderly, Mode \subseteq {"start", "stop"}, NoDeletes PROVE Spec => []FillComplete
  BY Zenon
<1>1. FillInv /\ [Next]_vars => FillInv'
  BY FillInvNext, Zenon
<1>2. QED
  BY <1>1, FilledIsComplete, FillInvInit, PTL DEF Spec
=============================================================================
