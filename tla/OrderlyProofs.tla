--------------------------- MODULE OrderlyProofs ---------------------------
(***************************************************************************)
(* Proofs about Replication when the master has closed one connection of   *)
(* the slave, and its threads are gone, before the slave is back.          *)
(***************************************************************************)
EXTENDS ReplicationProofs

OInv ==
  /\ Inv /\ queue_pipelined >= 0
  /\ OneConnection /\ FreshIsQuiet /\ ThreadsFollow /\ FillWindow /\ Window /\ NeverThrows

\* The invariant holds before the first connection.
LEMMA OInvInit == Init => OInv
  BY InvInit DEF Init, OInv, OneConnection, FreshIsQuiet, ThreadsFollow, FillWindow, Window, NeverThrows

\* Steps that touch neither the client, the connections nor the waiting threads: those
\* of the pool threads before they enqueue, and of the threads whose client is gone.
LEMMA OQuiet ==
  ASSUME OInv, Inv', UNCHANGED <<client, fill, link, ends, asleep, awake, thrown>>
  PROVE  OInv'
<1>1. queue_pipelined' >= 0 /\ NeverThrows'
  BY DEF OInv, client, NeverThrows
<1>2. OneConnection' /\ FreshIsQuiet' /\ ThreadsFollow'
  BY DEF OInv, client, fill, link, ends, OneConnection, FreshIsQuiet, ThreadsFollow
<1>3. FillWindow' /\ Window'
  BY DEF OInv, client, link, ends, FillWindow, Window
<1>4. QED
  BY <1>1, <1>2, <1>3 DEF OInv

\* A detached thread that wakes up belongs to the same connection as before.
LEMMA OPollWake ==
  ASSUME OInv, Inv', NEW s \in Slot, PollWake(s)
  PROVE  OInv'
<1> USE DEF OInv
<1>1. queue_pipelined' >= 0 /\ NeverThrows'
  BY DEF PollWake, client, hist, NeverThrows
<1>2. OneConnection'
  BY DEF PollWake, link, ends, OneConnection, Inv, TypeOK, LinkType, PollType, EndsType, ClientType, FillType
<1>3. FreshIsQuiet'
  BY DEF PollWake, client, link, fill, polls, FreshIsQuiet, Inv, TypeOK, LinkType, PollType, EndsType, ClientType, FillType
<1>4. ThreadsFollow'
  BY DEF PollWake, client, fill, link, polls, ThreadsFollow, Inv, TypeOK, LinkType, PollType, EndsType, ClientType, FillType
<1>5. FillWindow'
  BY DEF PollWake, client, link, FillWindow, Inv, TypeOK, LinkType, PollType, EndsType, ClientType, FillType
<1>6. Window'
  BY DEF PollWake, client, link, ends, Window, Inv, TypeOK, LinkType, PollType, EndsType, ClientType, FillType
<1>7. QED
  BY <1>1, <1>2, <1>3, <1>4, <1>5, <1>6

\* There is no confirmation without a client: nothing is under way then.
LEMMA OConfirmStopped ==
  ASSUME OInv, Inv', NEW s \in Slot, ConfirmStopped(s)
  PROVE  OInv'
<1> USE DEF OInv
<1>1. queue_pipelined' >= 0 /\ NeverThrows'
  BY DEF ConfirmStopped, Confirmation, TakeConfirmation, client, hist, NeverThrows
<1>2. OneConnection'
  BY DEF ConfirmStopped, Confirmation, TakeConfirmation, link, ends, OneConnection, Inv, TypeOK, LinkType, PollType, EndsType, ClientType, FillType
<1>3. FreshIsQuiet'
  BY DEF ConfirmStopped, Confirmation, TakeConfirmation, client, link, fill, polls, FreshIsQuiet, Inv, TypeOK, LinkType, PollType, EndsType, ClientType, FillType
<1>4. ThreadsFollow'
  BY DEF ConfirmStopped, Confirmation, TakeConfirmation, client, fill, link, polls, ThreadsFollow, Inv, TypeOK, LinkType, PollType, EndsType, ClientType, FillType
<1>5. FillWindow'
  BY DEF ConfirmStopped, Confirmation, TakeConfirmation, client, link, FillWindow, Inv, TypeOK, LinkType, PollType, EndsType, ClientType, FillType
<1>6. Window'
  BY DEF ConfirmStopped, Confirmation, TakeConfirmation, client, link, ends, Window, Inv, TypeOK, LinkType, PollType, EndsType, ClientType, FillType
<1>7. QED
  BY <1>1, <1>2, <1>3, <1>4, <1>5, <1>6

\* A new connection is made when the last one has left nothing behind.
LEMMA OAccept ==
  ASSUME OInv, Inv', Orderly, NEW s \in Slot, Accept(s)
  PROVE  OInv'
<1> USE DEF OInv
<1> DEFINE Idle(t) == /\ ~open[t] /\ up[t] = 0 /\ ~clid[t] /\ down[t] = <<>>
                      /\ asleep[t] = 0 /\ awake[t] = 0
<1>a. \A t \in Slot : Idle(t)
  BY SlotAssumption DEF Accept, Settled, OneConnection
<1>b. /\ open' = [open EXCEPT ![s] = TRUE] /\ at' = s /\ filling' = 0
      /\ UNCHANGED <<clid, down, up, asleep, awake>>
  BY DEF Accept, MuxFree, fill, polls
<1>c. \A t \in Slot : (open'[t] => t = s) /\ ~clid'[t]
  BY <1>a, <1>b DEF Inv, TypeOK, LinkType
<1>1. queue_pipelined' >= 0 /\ NeverThrows'
  BY DEF Accept, client, hist, NeverThrows
<1>2. OneConnection'
  BY <1>a, <1>b, <1>c DEF OneConnection
<1>3. FreshIsQuiet'
  BY <1>a, <1>b DEF FreshIsQuiet
<1>4. ThreadsFollow'
  BY <1>a, <1>b DEF ThreadsFollow
<1>5. FillWindow'
  BY <1>c DEF FillWindow
<1>6. Window'
  BY <1>c DEF Window
<1>7. QED
  BY <1>1, <1>2, <1>3, <1>4, <1>5, <1>6

\* A connection that closes loses its confirmations, and Window no longer speaks of it.
LEMMA OMasterClose ==
  ASSUME OInv, Inv', NEW s \in Slot, MasterClose(s)
  PROVE  OInv'
<1> USE DEF OInv
<1>1. queue_pipelined' >= 0 /\ NeverThrows'
  BY DEF MasterClose, Close, MuxFree, client, hist, NeverThrows
<1>2. OneConnection'
  BY DEF MasterClose, Close, MuxFree, link, ends, OneConnection, Inv, TypeOK, LinkType, PollType, EndsType, ClientType, FillType
<1>3. FreshIsQuiet'
  BY DEF MasterClose, Close, MuxFree, client, link, fill, polls, FreshIsQuiet, Inv, TypeOK, LinkType, PollType, EndsType, ClientType, FillType
<1>4. ThreadsFollow'
  BY DEF MasterClose, Close, MuxFree, client, fill, link, polls, ThreadsFollow, Inv, TypeOK, LinkType, PollType, EndsType, ClientType, FillType
<1>5. FillWindow'
  BY DEF MasterClose, Close, MuxFree, client, link, FillWindow, Inv, TypeOK, LinkType, PollType, EndsType, ClientType, FillType
<1>6. Window'
  BY DEF MasterClose, Close, MuxFree, client, link, ends, Window, Inv, TypeOK, LinkType, PollType, EndsType, ClientType, FillType
<1>7. QED
  BY <1>1, <1>2, <1>3, <1>4, <1>5, <1>6

\* A slave that leaves reads nothing more, and has applied no more than was sent.
LEMMA OSlaveLeave ==
  ASSUME OInv, Inv', SlaveLeave
  PROVE  OInv'
<1> USE DEF OInv
<1>a. /\ at \in Slot /\ at' = 0 /\ UNCHANGED <<open, clid, up>>
      /\ down' = [down EXCEPT ![at] = <<>>]
  BY DEF SlaveLeave, Inv, TypeOK, EndsType
<1>b. \A t \in Slot : /\ down'[t] = <<>>
                      /\ up'[t] = up[t] /\ up[t] \in Nat /\ Len(down[t]) \in Nat
  BY <1>a DEF OneConnection, Inv, TypeOK, LinkType
<1>c. Len(<<>>) = 0
  BY EmptySeq
<1>1. queue_pipelined' >= 0 /\ NeverThrows'
  BY DEF SlaveLeave, client, hist, NeverThrows
<1>2. OneConnection'
  BY DEF SlaveLeave, link, ends, OneConnection, Inv, TypeOK, LinkType, PollType, EndsType, ClientType, FillType
<1>3. FreshIsQuiet'
  BY DEF SlaveLeave, client, link, fill, polls, FreshIsQuiet, Inv, TypeOK, LinkType, PollType, EndsType, ClientType, FillType
<1>4. ThreadsFollow'
  BY DEF SlaveLeave, client, fill, link, polls, ThreadsFollow, Inv, TypeOK, LinkType, PollType, EndsType, ClientType, FillType
<1>5. FillWindow'
  BY <1>a, <1>b, <1>c DEF SlaveLeave, client, FillWindow, Inv, TypeOK, ClientType
<1>6. Window'
  BY <1>a, <1>b, SlotAssumption DEF SlaveLeave, client, Window, OneConnection, Inv, TypeOK, ClientType
<1>7. QED
  BY <1>1, <1>2, <1>3, <1>4, <1>5, <1>6

\* A request that is applied moves from what is under way to what is to be confirmed.
LEMMA OSlaveApply ==
  ASSUME OInv, Inv', SlaveApply
  PROVE  OInv'
<1> USE DEF OInv
<1>a. /\ at \in Slot /\ at' = at /\ UNCHANGED <<open, clid>>
      /\ down' = [down EXCEPT ![at] = Tail(down[at])]
      /\ up' = IF open[at] THEN [up EXCEPT ![at] = @ + 1] ELSE up
      /\ down[at] \in Seq(Item) /\ down[at] # <<>>
  BY DEF SlaveApply, Inv, TypeOK, LinkType, EndsType, ends
<1>b. /\ Len(down'[at]) = Len(down[at]) - 1
      /\ Len(down[at]) \in Nat \ {0}
      /\ \A i \in 1..Len(down'[at]) : down'[at][i] = down[at][i + 1]
  <2>1. down'[at] = Tail(down[at])
    BY <1>a DEF Inv, TypeOK, LinkType
  <2>2. QED
    BY <1>a, <2>1, HeadTailProperties, EmptySeq
<1>c. \A t \in Slot : open[t] => t = at /\ up'[t] = up[t] + 1 /\ up[t] \in Nat
  BY <1>a, SlotAssumption DEF OneConnection, Inv, TypeOK, LinkType
<1>1. queue_pipelined' >= 0 /\ NeverThrows'
  BY DEF SlaveApply, client, hist, NeverThrows
<1>2. OneConnection'
  BY DEF SlaveApply, link, ends, OneConnection, Inv, TypeOK, LinkType, PollType, EndsType, ClientType, FillType
<1>3. FreshIsQuiet'
  BY DEF SlaveApply, client, link, fill, polls, FreshIsQuiet, Inv, TypeOK, LinkType, PollType, EndsType, ClientType, FillType
<1>4. ThreadsFollow'
  BY DEF SlaveApply, client, fill, link, polls, ThreadsFollow, Inv, TypeOK, LinkType, PollType, EndsType, ClientType, FillType
<1>5. FillWindow'
  BY <1>a, <1>b, <1>c DEF SlaveApply, client, FillWindow, Inv, TypeOK, ClientType
<1>6. Window'
  <2> SUFFICES ASSUME NEW t \in Slot, open[t], clid[t], present, state = "running"
               PROVE  /\ at' = t
                      /\ up'[t] + Len(down'[t]) = queue_pipelined
                      /\ \A i \in 1..Len(down'[t]) : down'[t][i] = queue[up'[t] + i]
    BY <1>a DEF SlaveApply, client, Window
  <2>1. t = at /\ up'[t] = up[t] + 1 /\ up[t] \in Nat
    BY <1>c
  <2>2. /\ up[t] + Len(down[t]) = queue_pipelined
        /\ \A i \in 1..Len(down[t]) : down[t][i] = queue[up[t] + i]
    BY <2>1 DEF Window
  <2>3. /\ Len(down'[t]) = Len(down[t]) - 1 /\ Len(down[t]) \in Nat \ {0}
        /\ \A i \in 1..Len(down'[t]) : down'[t][i] = down[t][i + 1]
    BY <1>b, <2>1
  <2>4. ASSUME NEW i \in 1..Len(down[t]) - 1 PROVE down'[t][i] = queue[up'[t] + i]
    <3>1. i + 1 \in 1..Len(down[t]) /\ up'[t] + i = up[t] + (i + 1)
      BY <2>1, <2>3
    <3>2. QED
      BY <2>2, <2>3, <3>1
  <2>5. up'[t] + Len(down'[t]) = queue_pipelined
    <3>1. up[t] + Len(down[t]) = queue_pipelined
      BY <2>2
    <3>2. Len(down'[t]) = Len(down[t]) - 1 /\ Len(down[t]) \in Nat
      BY <2>3
    <3>3. QED
      BY <2>1, <3>1, <3>2
  <2>6. QED
    BY <1>a, <2>1, <2>3, <2>4, <2>5
<1>7. QED
  BY <1>1, <1>2, <1>3, <1>4, <1>5, <1>6

\* enqueue adds behind the sent part of the queue.
LEMMA OEnqueue ==
  ASSUME OInv, Inv', NEW w \in Worker, Enqueue(w)
  PROVE  OInv'
<1> USE DEF OInv
<1>1. queue_pipelined' >= 0 /\ NeverThrows'
  BY DEF Enqueue, NeverThrows
<1>2. OneConnection' /\ FreshIsQuiet'
  BY DEF Enqueue, fill, link, ends, polls, OneConnection, FreshIsQuiet
<1>3. ThreadsFollow' /\ FillWindow'
  BY DEF Enqueue, fill, link, polls, ThreadsFollow, FillWindow
<1>4. Window'
  <2>1. /\ queue \in Seq(Item) /\ queue' = Append(queue, cmd[w])
        /\ queue_pipelined <= Len(queue)
        /\ UNCHANGED <<open, clid, down, up, at, present, state, queue_pipelined>>
    BY DEF Enqueue, Inv, TypeOK, ClientType, PipelineBound, link, ends
  <2>2. \A i \in 1..Len(queue) : queue'[i] = queue[i]
    BY <2>1
  <2>3. ASSUME NEW s \in Slot, open[s], clid[s], present, state = "running", at = s
        PROVE  \A i \in 1..Len(down[s]) : down[s][i] = queue'[up[s] + i]
    <3>1. up[s] + Len(down[s]) = queue_pipelined
      BY <2>3 DEF Window
    <3>2. up[s] \in Nat /\ Len(down[s]) \in Nat /\ Len(queue) \in Nat
      BY DEF Inv, TypeOK, LinkType, ClientType
    <3>3. \A i \in 1..Len(down[s]) : up[s] + i \in 1..Len(queue)
      BY <2>1, <3>1, <3>2
    <3>4. \A i \in 1..Len(down[s]) : down[s][i] = queue[up[s] + i]
      BY <2>3 DEF Window
    <3>5. QED
      BY <2>2, <3>3, <3>4
  <2>4. QED
    BY <2>1, <2>3 DEF Window
<1>5. QED
  BY <1>1, <1>2, <1>3, <1>4

\* Facts of arithmetic that the windows are counted with.
LEMMA ZeroNotPositive ==
  ASSUME NEW n, n = 0
  PROVE  ~(n > 0)
  OBVIOUS

LEMMA NatNotNegative ==
  ASSUME NEW n \in Nat
  PROVE  n >= 0
  OBVIOUS

LEMMA LeqTransitive ==
  ASSUME NEW m \in Nat, NEW n \in Nat, NEW k \in Nat, m <= n, n <= k
  PROVE  m <= k
  OBVIOUS

LEMMA SumIsMore ==
  ASSUME NEW m \in Nat, NEW n \in Nat
  PROVE  m + n \in Nat /\ m <= m + n
  OBVIOUS

LEMMA OneLess ==
  ASSUME NEW m \in Nat, NEW n \in Nat, m <= n
  PROVE  m - 1 <= n - 1
  OBVIOUS

LEMMA OneFewer ==
  ASSUME NEW m \in Nat, NEW n \in Nat, NEW k \in Nat, m + n <= k
  PROVE  m - 1 + n <= k - 1
  OBVIOUS

\* Two functions agree on the connections other than s.
SameElsewhere(s, f, g) == \A t \in Slot : t # s => f[t] = g[t]

\* A push sends nothing on another connection, and nothing at all when the slave is gone.
LEMMA PushElsewhere ==
  ASSUME TypeOK, NEW s \in Slot, NEW q, NEW p, _push_queue_items(s, q, p)
  PROVE  /\ SameElsewhere(s, down', down) /\ SameElsewhere(s, asleep', asleep)
         /\ at # s => down' = down
<1>1. down \in [Slot -> Seq(Item)] /\ asleep \in [Slot -> Nat]
  BY DEF TypeOK, LinkType, PollType
<1>2. PICK new : down' = [down EXCEPT ![s] = Sent(s, new)]
  BY DEF _push_queue_items
<1>3. asleep' = [asleep EXCEPT ![s] = asleep[s] + 1] \/ asleep' = asleep
  BY DEF _push_queue_items
<1>4. SameElsewhere(s, down', down) /\ SameElsewhere(s, asleep', asleep)
  BY <1>1, <1>2, <1>3 DEF SameElsewhere
<1>5. ASSUME at # s PROVE down' = down
  <2>1. Sent(s, new) = down[s]
    BY <1>5 DEF Sent
  <2>2. QED
    BY <1>1, <1>2, <2>1
<1>6. QED
  BY <1>4, <1>5

\* d is the part of the queue q after its first u items.
IsPart(d, q, u) == \A i \in 1..Len(d) : d[i] = q[u + i]

\* e is d, which ends at the p-th item of q if it starts after the u-th, and n items more.
Extends(e, d, q, u, p, n) ==
  /\ q \in Seq(Item) /\ d \in Seq(Item) /\ u \in Nat /\ p \in Nat /\ n \in Nat
  /\ u + Len(d) = p /\ p + n <= Len(q)
  /\ e = d \o SubSeq(q, p + 1, p + n)

\* The length of two sequences of items put together.
LEMMA ConcatLength ==
  ASSUME NEW a \in Seq(Item), NEW b \in Seq(Item)
  PROVE  Len(a \o b) = Len(a) + Len(b)
  OBVIOUS

\* A part of the queue extended by the items after it is a part of the queue.
LEMMA PartExtends ==
  ASSUME NEW q, NEW d, NEW u, NEW p, NEW n, NEW e, Extends(e, d, q, u, p, n)
  PROVE  u + Len(e) = p + n /\ (IsPart(d, q, u) => IsPart(e, q, u))
<1> DEFINE new == SubSeq(q, p + 1, p + n)
<1>a. /\ q \in Seq(Item) /\ d \in Seq(Item) /\ u \in Nat /\ p \in Nat /\ n \in Nat
      /\ p + n <= Len(q)
  BY DEF Extends
<1>b. Len(d) \in Nat /\ u \in Nat /\ p \in Nat /\ n \in Nat /\ u + Len(d) = p
  BY DEF Extends
<1>1. e = d \o new
  BY DEF Extends
<1>2. new \in Seq(Item) /\ Len(new) = n
  BY <1>a, Part
<1>3. \A j \in 1..n : new[j] = q[p + j]
  BY <1>a, Part
<1> HIDE DEF new
<1>4. Len(e) = Len(d) + n
  BY <1>a, <1>1, <1>2, ConcatLength
<1>5. ASSUME NEW i \in 1..Len(d) PROVE e[i] = d[i]
  BY <1>a, <1>1, <1>2
<1>6. ASSUME NEW j \in 1..n PROVE e[Len(d) + j] = new[j]
  BY <1>a, <1>1, <1>2
<1>7. ASSUME IsPart(d, q, u), NEW i \in 1..Len(d) + n PROVE e[i] = q[u + i]
  <2>1. CASE i <= Len(d)
    <3>1. i \in 1..Len(d)
      BY <1>b, <2>1
    <3>2. QED
      BY <1>5, <1>7, <3>1 DEF IsPart
  <2>2. CASE i > Len(d)
    <3>1. PICK j \in 1..n : i = Len(d) + j
      <4>1. i - Len(d) \in 1..n /\ i = Len(d) + (i - Len(d))
        BY <1>b, <2>2
      <4>2. QED
        BY <4>1
    <3>2. e[i] = q[p + j]
      BY <1>3, <1>6, <3>1
    <3>3. p + j = u + i
      BY <1>b, <3>1
    <3>4. QED
      BY <3>2, <3>3
  <2>3. i <= Len(d) \/ i > Len(d)
    BY <1>b
  <2>4. QED
    BY <2>1, <2>2, <2>3
<1>8. IsPart(d, q, u) => IsPart(e, q, u)
  BY <1>4, <1>7 DEF IsPart
<1>9. u + Len(e) = p + n
  BY <1>b, <1>4
<1>10. QED
  BY <1>8, <1>9

\* A push counts no item twice.
LEMMA PushCount ==
  ASSUME TypeOK, NEW s \in Slot, NEW q \in Seq(Item), NEW p \in Nat,
         p <= Len(q), p <= PipelineSize, _push_queue_items(s, q, p)
  PROVE  /\ Batch(q, p) \in Nat /\ p + Batch(q, p) <= Len(q)
         /\ queue' = q /\ queue_pipelined' = p + Batch(q, p)
         /\ down' = [down EXCEPT ![s] = Sent(s, SubSeq(q, p + 1, p + Batch(q, p)))]
<1>1. Batch(q, p) \in Nat /\ p + Batch(q, p) <= Len(q) /\ Skipped(p) = p
  BY BatchBounds DEF Skipped
<1>2. /\ down' = [down EXCEPT ![s] = Sent(s, SubSeq(q, p + 1, p + Batch(q, p)))]
      /\ queue' = q /\ queue_pipelined' = p + Batch(q, p)
  BY <1>1 DEF _push_queue_items
<1>3. QED
  BY <1>1, <1>2

\* A push keeps the window of the connection it is for: u items of q have been applied,
\* and what is under way is what follows them.
LEMMA PushWindow ==
  ASSUME TypeOK, NEW s \in Slot, NEW q \in Seq(Item), NEW p \in Nat, NEW u \in Nat,
         p <= Len(q), p <= PipelineSize, open[s], at = s, _push_queue_items(s, q, p),
         u + Len(down[s]) = p, IsPart(down[s], q, u)
  PROVE  u + Len(down'[s]) = queue_pipelined' /\ IsPart(down'[s], q, u)
<1> DEFINE n == Batch(q, p)
<1>1. /\ n \in Nat /\ p + n <= Len(q) /\ queue' = q /\ queue_pipelined' = p + n
      /\ down' = [down EXCEPT ![s] = Sent(s, SubSeq(q, p + 1, p + n))]
  BY PushCount
<1> HIDE DEF n
<1>2. down \in [Slot -> Seq(Item)]
  BY DEF TypeOK, LinkType
<1>3. Sent(s, SubSeq(q, p + 1, p + n)) = down[s] \o SubSeq(q, p + 1, p + n)
  BY DEF Sent
<1>4. down'[s] = down[s] \o SubSeq(q, p + 1, p + n)
  BY <1>1, <1>2, <1>3
<1>5. Extends(down'[s], down[s], q, u, p, n)
  <2>1. down[s] \in Seq(Item) /\ n \in Nat /\ p + n <= Len(q)
    BY <1>1, <1>2
  <2>2. QED
    BY <1>4, <2>1 DEF Extends
<1>6. u + Len(down'[s]) = p + n /\ IsPart(down'[s], q, u)
  BY <1>5, PartExtends
<1>7. QED
  BY <1>1, <1>6

\* The window of one connection.
WindowOf(s) ==
  /\ at = s => up[s] + Len(down[s]) = queue_pipelined /\ IsPart(down[s], queue, up[s])
  /\ at # s => up[s] <= queue_pipelined

\* When s is the open connection, its window is the whole of Window.
LEMMA OneWindow ==
  ASSUME NEW s \in Slot, OneConnection', open'[s], WindowOf(s)'
  PROVE  Window'
<1>1. \A t \in Slot : open'[t] => t = s
  BY DEF OneConnection
<1>2. QED
  BY <1>1 DEF Window, WindowOf, IsPart
-----------------------------------------------------------------------------
\* A step of the initial fill on connection s.
LEMMA OFill ==
  ASSUME OInv, Inv', NEW s \in Slot, open[s], clid[s], present, state # "running",
         state' # "running", filling' > 0 => filling > 0,
         present' = present, queue_pipelined' = queue_pipelined, fillConn' = fillConn,
         open' = open, clid' = clid, at' = at, asleep' = asleep, awake' = awake,
         thrown' = thrown,
         SameElsewhere(s, down', down), SameElsewhere(s, up', up),
         at # s => down' = down,
         up'[s] + Len(down'[s]) <= Len(current_keys')
  PROVE  OInv'
<1> USE DEF OInv
<1>1. \A t \in Slot : /\ open[t] => t = s
                      /\ ~(asleep[t] > 0) /\ ~(awake[t] > 0)
  BY DEF OneConnection, ThreadsFollow
<1>2. queue_pipelined' >= 0 /\ NeverThrows'
  BY DEF NeverThrows
<1>3. OneConnection'
  BY <1>1 DEF OneConnection, SameElsewhere
<1>4. FreshIsQuiet'
  BY <1>1 DEF FreshIsQuiet
<1>5. ThreadsFollow'
  BY <1>1 DEF ThreadsFollow
<1>6. FillWindow' /\ Window'
  BY <1>1 DEF FillWindow, Window
<1>7. QED
  BY <1>2, <1>3, <1>4, <1>5, <1>6

\* A portion adds at most one request, to the connection it is pushed on.
LEMMA PortionElsewhere ==
  ASSUME TypeOK, NEW s \in Slot, NEW from, NEW keys, _push_next_portion(s, from, keys)
  PROVE  /\ SameElsewhere(s, down', down)
         /\ at # s => down' = down
         /\ Len(down'[s]) <= Len(down[s]) + 1
<1> DEFINE new == <<[k \in PortionKeys(from) |-> db[k]]>>
<1>1. down \in [Slot -> Seq(Item)] /\ Len(down[s]) \in Nat
  BY DEF TypeOK, LinkType
<1>2. down' = [down EXCEPT ![s] = Sent(s, new)]
  BY DEF _push_next_portion
<1>3. new \in Seq(Item) /\ Len(new) = 1
  BY PortionItem, PortionKeysType
<1> HIDE DEF new
<1>4. SameElsewhere(s, down', down)
  BY <1>1, <1>2 DEF SameElsewhere
<1>5. ASSUME at # s PROVE down' = down
  <2>1. Sent(s, new) = down[s]
    BY <1>5 DEF Sent
  <2>2. QED
    BY <1>1, <1>2, <2>1
<1>6. Len(down'[s]) <= Len(down[s]) + 1
  <2>1. down'[s] = Sent(s, new)
    BY <1>1, <1>2
  <2>2. Len(down[s] \o new) = Len(down[s]) + 1
    BY <1>1, <1>3, ConcatLength
  <2>3. QED
    BY <1>1, <2>1, <2>2 DEF Sent
<1>7. QED
  BY <1>4, <1>5, <1>6

\* A round of sync_initial sends one portion and adds one key.
LEMMA OSyncInitial ==
  ASSUME OInv, Inv', SyncInitial
  PROVE  OInv'
<1>1. CASE NextIsInvalid(current)
  BY <1>1, OQuiet DEF SyncInitial, client, fill, link, ends, polls
<1>2. CASE ~NextIsInvalid(current)
  <2>1. /\ fillConn \in Slot /\ open[fillConn] /\ clid[fillConn]
        /\ present /\ state # "running" /\ filling \in Nat /\ filling > 0
    <3>1. filling > 0 /\ Alive
      BY DEF SyncInitial
    <3>2. present /\ fillConn \in Slot
      BY <3>1 DEF OInv, Inv, FillKeys
    <3>3. open[fillConn] /\ clid[fillConn] /\ state # "running"
      BY <3>1 DEF OInv, FreshIsQuiet
    <3>4. filling \in Nat
      BY DEF OInv, Inv, TypeOK, FillType
    <3>5. QED
      BY <3>1, <3>2, <3>3, <3>4
  <2>2. /\ _push_next_portion(fillConn, current, current_keys)
        /\ state' # "running" /\ filling' = filling - 1
        /\ UNCHANGED <<present, queue_pipelined, fillConn, open, clid, up, at, asleep, awake, thrown>>
    BY <1>2, <2>1 DEF SyncInitial, AfterPortion, ends, polls
  <2>3. TypeOK /\ current \in Key \cup {0} /\ current_keys \in Seq(Key \cup {0})
    BY CurrentType DEF OInv, Inv, TypeOK, ClientType
  <2>4. /\ SameElsewhere(fillConn, down', down) /\ SameElsewhere(fillConn, up', up)
        /\ at # fillConn => down' = down
        /\ Len(down'[fillConn]) <= Len(down[fillConn]) + 1
    BY <2>1, <2>2, <2>3, PortionElsewhere DEF SameElsewhere
  <2>5. Len(current_keys') = Len(current_keys) + 1
    BY <2>1, <2>2, <2>3, PortionType
  <2>6. /\ up[fillConn] + Len(down[fillConn]) <= Len(current_keys)
        /\ up[fillConn] \in Nat /\ Len(down[fillConn]) \in Nat
        /\ Len(current_keys) \in Nat /\ Len(down'[fillConn]) \in Nat
    BY <2>1, <2>3 DEF OInv, FillWindow, Inv, TypeOK, LinkType
  <2>7. up'[fillConn] + Len(down'[fillConn]) <= Len(current_keys')
    <3>1. up'[fillConn] = up[fillConn] /\ Len(down'[fillConn]) <= Len(down[fillConn]) + 1
      BY <2>2, <2>4
    <3>2. QED
      BY <2>5, <2>6, <3>1
  <2>8. QED
    BY <2>1, <2>2, <2>4, <2>7, OFill
<1>3. QED
  BY <1>1, <1>2

\* What reading a confirmation does to the ones on their way.
LEMMA TakeOne ==
  ASSUME TypeOK, NEW s \in Slot, Confirmation(s), TakeConfirmation(s)
  PROVE  /\ up[s] \in Nat /\ up[s] > 0 /\ up'[s] = up[s] - 1 /\ up'[s] \in Nat
         /\ SameElsewhere(s, up', up)
         /\ open[s] /\ clid[s] /\ filling = 0 /\ open' = open /\ clid' = clid
  BY DEF TypeOK, LinkType, Confirmation, TakeConfirmation, MuxFree, SameElsewhere

\* on_confirm while syncing: one confirmation fewer, one portion and one key more.
LEMMA OConfirmPortion ==
  ASSUME OInv, Inv', NEW s \in Slot, ConfirmPortion(s)
  PROVE  OInv'
<1>1. /\ TypeOK /\ current \in Key \cup {0} /\ current_keys \in Seq(Key \cup {0})
      /\ current_keys # <<>> /\ present /\ state = "syncing"
      /\ UNCHANGED <<present, queue_pipelined, filling, fillConn, at, asleep, awake, thrown>>
  BY CurrentType DEF OInv, Inv, TypeOK, ClientType, ConfirmPortion, fill, ends, polls
<1>2. /\ up[s] \in Nat /\ up[s] > 0 /\ up'[s] = up[s] - 1 /\ up'[s] \in Nat
      /\ SameElsewhere(s, up', up)
      /\ open[s] /\ clid[s] /\ filling = 0 /\ open' = open /\ clid' = clid
  BY <1>1, TakeOne DEF ConfirmPortion
<1>3. Tail(current_keys) \in Seq(Key \cup {0}) /\ Len(Tail(current_keys)) = Len(current_keys) - 1
  BY <1>1
<1>4. /\ up[s] + Len(down[s]) <= Len(current_keys)
      /\ Len(down[s]) \in Nat /\ Len(current_keys) \in Nat /\ Len(down'[s]) \in Nat
  BY <1>1, <1>2 DEF OInv, FillWindow, Inv, TypeOK, LinkType
<1>5. CASE NextIsInvalid(current)
  <2>1. down' = down /\ state' = state /\ current_keys' = Tail(current_keys)
    BY <1>5 DEF ConfirmPortion
  <2>2. up'[s] + Len(down'[s]) <= Len(current_keys')
    <3>1. up[s] - 1 + Len(down[s]) <= Len(current_keys) - 1
      BY <1>2, <1>4
    <3>2. QED
      BY <1>2, <1>3, <2>1, <3>1
  <2>3. QED
    BY <1>1, <1>2, <2>1, <2>2, OFill DEF SameElsewhere
<1>6. CASE ~NextIsInvalid(current)
  <2>1. _push_next_portion(s, current, Tail(current_keys)) /\ state' # "running"
    BY <1>1, <1>6 DEF ConfirmPortion, AfterPortion
  <2>2. /\ SameElsewhere(s, down', down)
        /\ at # s => down' = down
        /\ Len(down'[s]) <= Len(down[s]) + 1
    BY <1>1, <2>1, PortionElsewhere
  <2>3. Len(current_keys') = Len(current_keys)
    <3>1. Len(current_keys') = Len(Tail(current_keys)) + 1
      BY <1>1, <1>3, <2>1, PortionType
    <3>2. QED
      BY <1>3, <1>4, <3>1
  <2>4. up'[s] + Len(down'[s]) <= Len(current_keys')
    <3>1. up'[s] = up[s] - 1 /\ up[s] \in Nat
      BY <1>2
    <3>2. Len(down'[s]) <= Len(down[s]) + 1
      BY <2>2
    <3>3. QED
      BY <1>4, <2>3, <3>1, <3>2
  <2>5. QED
    BY <1>1, <1>2, <2>1, <2>2, <2>4, OFill
<1>7. QED
  BY <1>5, <1>6

-----------------------------------------------------------------------------
\* A push on the open connection s, by a client that is or becomes running.
LEMMA OPush ==
  ASSUME OInv, Inv', NEW s \in Slot, NEW q \in Seq(Item), NEW p \in Nat,
         p <= Len(q), p <= PipelineSize, open[s], _push_queue_items(s, q, p),
         present', state' = "running", filling' = 0, clid'[s],
         open' = open, at' = at, thrown' = thrown,
         SameElsewhere(s, clid', clid), SameElsewhere(s, up', up), SameElsewhere(s, awake', awake),
         at = s => up'[s] + Len(down[s]) = p /\ IsPart(down[s], q, up'[s]),
         at # s => up'[s] <= p
  PROVE  OInv'
<1>1. TypeOK /\ TypeOK'
  BY DEF OInv, Inv
<1>2. /\ SameElsewhere(s, down', down) /\ SameElsewhere(s, asleep', asleep)
      /\ at # s => down' = down
  BY <1>1, PushElsewhere
<1>3. \A t \in Slot : open[t] => t = s
  BY DEF OInv, OneConnection
<1>4. \A t \in Slot : t # s => ~(asleep[t] > 0) /\ ~(awake[t] > 0)
  BY DEF OInv, ThreadsFollow
<1>5. OneConnection'
  BY <1>2, <1>3 DEF OInv, OneConnection, SameElsewhere
<1>6. FreshIsQuiet'
  <2>1. \A t \in Slot : open'[t] => clid'[t]
    BY <1>3
  <2>2. ~(filling' > 0)
    BY ZeroNotPositive
  <2>3. QED
    BY <2>1, <2>2 DEF FreshIsQuiet
<1>7. ThreadsFollow'
  BY <1>2, <1>3, <1>4 DEF ThreadsFollow, SameElsewhere
<1>8. FillWindow' /\ NeverThrows'
  BY DEF OInv, FillWindow, NeverThrows
<1>9. queue' = q /\ queue_pipelined' \in Nat /\ p <= queue_pipelined'
  <2>1. queue' = q /\ Batch(q, p) \in Nat /\ queue_pipelined' = p + Batch(q, p)
    BY <1>1, PushCount
  <2>2. QED
    BY <2>1, SumIsMore
<1>10. up'[s] \in Nat
  BY <1>1 DEF TypeOK, LinkType
<1>11. WindowOf(s)'
  <2>1. CASE at = s
    <3>1. up'[s] + Len(down'[s]) = queue_pipelined' /\ IsPart(down'[s], q, up'[s])
      BY <1>1, <1>10, <2>1, PushWindow
    <3>2. QED
      BY <1>9, <2>1, <3>1 DEF WindowOf
  <2>2. CASE at # s
    <3>1. up'[s] <= p
      BY <2>2
    <3>2. up'[s] <= queue_pipelined'
      BY <1>9, <1>10, <3>1, LeqTransitive
    <3>3. QED
      BY <2>2, <3>2 DEF WindowOf
  <2>3. QED
    BY <2>1, <2>2
<1>12. Window'
  BY <1>5, <1>11, OneWindow
<1>13. queue_pipelined' >= 0
  BY <1>9, NatNotNegative
<1>14. QED
  BY <1>5, <1>6, <1>7, <1>8, <1>12, <1>13 DEF OInv

\* The start of the queue is a part of it that nothing precedes.
LEMMA NothingSent ==
  ASSUME NEW q
  PROVE  Len(<<>>) = 0 /\ IsPart(<<>>, q, 0)
<1>1. Len(<<>>) = 0
  BY EmptySeq
<1>2. 1..0 = {}
  OBVIOUS
<1>3. QED
  BY <1>1, <1>2 DEF IsPart

\* on_confirm while sync_finishing: when the last key goes nothing is under way.
LEMMA OConfirmFinishing ==
  ASSUME OInv, Inv', NEW s \in Slot, ConfirmFinishing(s)
  PROVE  OInv'
<1>1. /\ TypeOK /\ current_keys \in Seq(Key \cup {0}) /\ queue \in Seq(Item)
      /\ current_keys # <<>> /\ present /\ state = "sync_finishing"
      /\ current_keys' = Tail(current_keys)
      /\ UNCHANGED <<present, filling, fillConn, at, awake, thrown>>
  BY DEF OInv, Inv, TypeOK, ClientType, ConfirmFinishing, fill, ends, hist
<1>2. /\ up[s] \in Nat /\ up[s] > 0 /\ up'[s] = up[s] - 1 /\ up'[s] \in Nat
      /\ SameElsewhere(s, up', up)
      /\ open[s] /\ clid[s] /\ filling = 0 /\ open' = open /\ clid' = clid
  BY <1>1, TakeOne DEF ConfirmFinishing
<1>3. Len(Tail(current_keys)) = Len(current_keys) - 1
  BY <1>1
<1>4. /\ up[s] + Len(down[s]) <= Len(current_keys)
      /\ Len(down[s]) \in Nat /\ Len(current_keys) \in Nat /\ down[s] \in Seq(Item)
  <2>1. up[s] + Len(down[s]) <= Len(current_keys)
    BY <1>1, <1>2 DEF OInv, FillWindow
  <2>2. QED
    BY <1>1, <2>1 DEF TypeOK, LinkType
<1>5. CASE Tail(current_keys) = <<>>
  <2>1. state' = "running" /\ _push_queue_items(s, queue, 0)
    BY <1>5 DEF ConfirmFinishing
  <2>2. Len(Tail(current_keys)) = 0
    BY <1>5, EmptySeq
  <2>3. Len(current_keys) = 1
    <3>1. Len(current_keys) \in Nat
      BY <1>4
    <3>2. QED
      BY <1>3, <2>2, <3>1
  <2>4. up'[s] = 0 /\ Len(down[s]) = 0
    <3>1. up[s] \in Nat /\ up[s] > 0 /\ up'[s] = up[s] - 1
      BY <1>2
    <3>2. Len(down[s]) \in Nat /\ up[s] + Len(down[s]) <= 1
      BY <1>4, <2>3
    <3>3. QED
      BY <3>1, <3>2
  <2>5. down[s] = <<>>
    BY <1>4, <2>4, EmptySeq
  <2>6. IsPart(down[s], queue, up'[s])
    BY <2>4, <2>5, NothingSent
  <2>7. 0 <= Len(queue) /\ 0 <= PipelineSize /\ 0 \in Nat
    BY <1>1, SizeAssumption
  <2>8. up'[s] + Len(down[s]) = 0 /\ up'[s] <= 0
    BY <2>4
  <2>9. QED
    BY <1>1, <1>2, <2>1, <2>6, <2>7, <2>8, OPush DEF SameElsewhere
<1>6. CASE Tail(current_keys) # <<>>
  <2>1. state' = state /\ down' = down /\ asleep' = asleep /\ queue_pipelined' = queue_pipelined
    BY <1>6 DEF ConfirmFinishing
  <2>2. up'[s] + Len(down'[s]) <= Len(current_keys')
    <3>1. up[s] - 1 + Len(down[s]) <= Len(current_keys) - 1
      BY <1>2, <1>4, OneFewer
    <3>2. QED
      BY <1>1, <1>2, <1>3, <2>1, <3>1
  <2>3. QED
    BY <1>1, <1>2, <2>1, <2>2, OFill DEF SameElsewhere
<1>7. QED
  BY <1>5, <1>6

\* An item that has been confirmed is at the head of the queue and counts as sent.
LEMMA HeadIsSent ==
  ASSUME OInv, NEW s \in Slot, Confirmation(s), present, state = "running"
  PROVE  /\ up[s] \in Nat /\ up[s] > 0 /\ up[s] <= queue_pipelined
         /\ queue_pipelined \in Nat /\ queue_pipelined <= Len(queue)
         /\ queue_pipelined <= PipelineSize /\ queue \in Seq(Item) /\ queue # <<>>
<1>1. /\ up[s] \in Nat /\ up[s] > 0 /\ Len(down[s]) \in Nat
      /\ queue_pipelined \in Int /\ queue \in Seq(Item)
  BY DEF OInv, Inv, TypeOK, LinkType, ClientType, Confirmation
<1>2. up[s] + Len(down[s]) = queue_pipelined \/ up[s] <= queue_pipelined
  BY DEF OInv, Window, Confirmation
<1>3. queue_pipelined <= Len(queue) /\ queue_pipelined <= PipelineSize
  BY DEF OInv, Inv, PipelineBound
<1>4. queue # <<>>
  BY <1>1, <1>2, <1>3, EmptySeq
<1>5. QED
  BY <1>1, <1>2, <1>3, <1>4

\* The checks at the head of on_confirm do not fire.
LEMMA OConfirmThrows ==
  ASSUME OInv, NEW s \in Slot, ConfirmThrows(s)
  PROVE  FALSE
<1>1. Confirmation(s) /\ present /\ (IF state = "running" THEN queue ELSE current_keys) = <<>>
  BY DEF ConfirmThrows
<1>2. CASE state = "running"
  BY <1>1, <1>2, HeadIsSent
<1>3. CASE state # "running"
  BY <1>1, <1>3 DEF OInv, Inv, TypeOK, ClientType, State, FillKeys, Confirmation, MuxFree
<1>4. QED
  BY <1>2, <1>3

\* on_confirm while running: the head of the queue has been applied, the window moves by
\* one.
LEMMA OConfirmItem ==
  ASSUME OInv, Inv', NEW s \in Slot, ConfirmItem(s)
  PROVE  OInv'
<1>1. /\ TypeOK /\ Confirmation(s) /\ present /\ state = "running"
      /\ UNCHANGED <<present, state, filling, at, awake>>
  BY DEF OInv, Inv, ConfirmItem, fill, ends
<1>2. /\ up[s] \in Nat /\ up[s] > 0 /\ up[s] <= queue_pipelined
      /\ queue_pipelined \in Nat /\ queue_pipelined <= Len(queue)
      /\ queue_pipelined <= PipelineSize /\ queue \in Seq(Item) /\ queue # <<>>
  BY <1>1, HeadIsSent
<1> DEFINE q == Tail(queue)
           p == queue_pipelined - 1
<1>3. q \in Seq(Item) /\ Len(q) = Len(queue) - 1 /\ Len(queue) \in Nat
  BY <1>2
<1>4. \A i \in 1..Len(queue) - 1 : q[i] = queue[i + 1]
  BY <1>2
<1>5. p \in Nat /\ p <= Len(q) /\ p <= PipelineSize
  BY <1>2, <1>3, SizeAssumption
<1>6. ~PushThrows(q, p)
  <2> HIDE DEF q, p
  <2>1. q = <<>> => Len(q) = 0
    BY EmptySeq
  <2>2. QED
    BY <1>5, <2>1 DEF PushThrows
<1>7. _push_queue_items(s, q, p) /\ TakeConfirmation(s) /\ thrown' = thrown
  BY <1>6 DEF ConfirmItem
<1>8. /\ up'[s] = up[s] - 1 /\ up'[s] \in Nat
      /\ SameElsewhere(s, up', up)
      /\ open[s] /\ clid[s] /\ filling = 0 /\ open' = open /\ clid' = clid
  BY <1>1, <1>7, TakeOne
<1>9. /\ up[s] \in Nat /\ up'[s] = up[s] - 1 /\ up'[s] \in Nat /\ Len(queue) \in Nat
      /\ queue_pipelined \in Nat /\ up[s] <= queue_pipelined /\ queue_pipelined <= Len(queue)
  BY <1>2, <1>3, <1>8
<1>10. ASSUME at = s PROVE up'[s] + Len(down[s]) = p /\ IsPart(down[s], q, up'[s])
  <2>1. up[s] + Len(down[s]) = queue_pipelined /\ IsPart(down[s], queue, up[s])
    BY <1>1, <1>8, <1>10 DEF OInv, Window, IsPart
  <2>2. Len(down[s]) \in Nat
    BY <1>1 DEF TypeOK, LinkType
  <2>3. up'[s] + Len(down[s]) = p
    BY <1>9, <2>1, <2>2
  <2>4. ASSUME NEW i \in 1..Len(down[s]) PROVE down[s][i] = q[up'[s] + i]
    <3>1. up'[s] + i \in 1..Len(queue) - 1 /\ (up'[s] + i) + 1 = up[s] + i
      BY <1>9, <2>1, <2>2
    <3>2. q[up'[s] + i] = queue[up[s] + i]
      BY <1>4, <3>1
    <3>3. QED
      BY <2>1, <3>2 DEF IsPart
  <2>5. QED
    BY <2>3, <2>4 DEF IsPart
<1>11. up'[s] <= p
  BY <1>9, OneLess
<1> HIDE DEF p, q
<1>12. QED
  BY <1>1, <1>3, <1>5, <1>7, <1>8, <1>10, <1>11, OPush DEF SameElsewhere

\* A push from a detached thread does not throw and keeps the window.
LEMMA OPollPush ==
  ASSUME OInv, Inv', NEW s \in Slot, PollPush(s)
  PROVE  OInv'
<1>1. /\ TypeOK /\ awake[s] > 0 /\ filling = 0 /\ awake \in [Slot -> Nat]
      /\ awake' = [awake EXCEPT ![s] = @ - 1]
      /\ UNCHANGED <<present, state, filling, fillConn, open, clid, up, at>>
  BY DEF OInv, Inv, TypeOK, PollType, PollPush, MuxFree, fill, ends
<1>2. /\ present /\ state = "running"
      /\ \A t \in Slot : open[t] => t = s
  BY <1>1 DEF OInv, ThreadsFollow
<1>3. /\ queue \in Seq(Item) /\ queue_pipelined \in Nat
      /\ queue_pipelined <= Len(queue) /\ queue_pipelined <= PipelineSize
  BY DEF OInv, Inv, TypeOK, ClientType, PipelineBound
<1>4. ~PushThrows(queue, queue_pipelined)
  <2>1. queue = <<>> => Len(queue) = 0
    BY EmptySeq
  <2>2. QED
    BY <1>3, <2>1 DEF PushThrows
<1>5. _push_queue_items(s, queue, queue_pipelined) /\ thrown' = thrown
  BY <1>4 DEF PollPush
<1>6. CASE open[s]
  <2>1. clid[s]
    <3>1. ~clid[s] => awake[s] = 0
      BY <1>6 DEF OInv, FreshIsQuiet
    <3>2. QED
      BY <1>1, <3>1
  <2>2. \A t \in Slot : t # s => awake'[t] = awake[t]
    BY <1>1
  <2>3. up[s] \in Nat /\ Len(down[s]) \in Nat
    BY <1>1 DEF TypeOK, LinkType
  <2>4. /\ at = s => up'[s] + Len(down[s]) = queue_pipelined /\ IsPart(down[s], queue, up'[s])
        /\ at # s => up'[s] <= queue_pipelined
    BY <1>1, <1>2, <1>6, <2>1 DEF OInv, Window, IsPart
  <2>5. QED
    BY <1>1, <1>2, <1>3, <1>5, <1>6, <2>1, <2>2, <2>4, OPush DEF SameElsewhere
<1>7. CASE ~open[s]
  <2>1. \A t \in Slot : ~open[t]
    BY <1>2, <1>7
  <2>2. down' = down
    <3>1. PICK new : down' = [down EXCEPT ![s] = Sent(s, new)]
      BY <1>5 DEF _push_queue_items
    <3>2. Sent(s, new) = down[s] /\ down \in [Slot -> Seq(Item)]
      BY <1>1, <1>7 DEF Sent, TypeOK, LinkType
    <3>3. QED
      BY <3>1, <3>2
  <2>3. OneConnection'
    BY <1>1, <2>2 DEF OInv, OneConnection
  <2>4. FreshIsQuiet' /\ FillWindow' /\ Window'
    <3>1. \A t \in Slot : ~open'[t]
      BY <1>1, <2>1
    <3>2. ~(filling' > 0)
      BY <1>1
    <3>3. QED
      BY <3>1, <3>2 DEF FreshIsQuiet, FillWindow, Window
  <2>5. ThreadsFollow'
    BY <1>1, <1>2, <2>1 DEF ThreadsFollow, OInv
  <2>6. NeverThrows'
    BY <1>5 DEF OInv, NeverThrows
  <2>7. queue_pipelined' \in Int /\ queue_pipelined <= queue_pipelined'
    BY <1>1, <1>3, <1>5, PushType
  <2>8. queue_pipelined' >= 0
    BY <1>3, <2>7
  <2>9. QED
    BY <2>3, <2>4, <2>5, <2>6, <2>8 DEF OInv
<1>8. QED
  BY <1>6, <1>7

-----------------------------------------------------------------------------
\* Where rep_setstate finds its connection: nothing under way, no thread waiting.
LEMMA Fresh ==
  ASSUME OInv, NEW s \in Slot, NEW modes, Registration(s, modes)
  PROVE  /\ open[s] /\ up[s] = 0 /\ down[s] = <<>> /\ filling = 0
         /\ \A t \in Slot : /\ open[t] => t = s
                            /\ asleep[t] = 0 /\ awake[t] = 0
         /\ clid'[s] /\ SameElsewhere(s, clid', clid)
<1>1. open[s] /\ ~clid[s] /\ filling = 0 /\ clid' = [clid EXCEPT ![s] = TRUE]
  BY DEF Registration, MuxFree
<1>2. clid \in [Slot -> BOOLEAN]
  BY DEF OInv, Inv, TypeOK, LinkType
<1>3. clid'[s] /\ SameElsewhere(s, clid', clid)
  BY <1>1, <1>2 DEF SameElsewhere
<1>4. up[s] = 0 /\ down[s] = <<>> /\ \A t \in Slot : asleep[t] = 0 /\ awake[t] = 0
  BY <1>1 DEF OInv, FreshIsQuiet
<1>5. \A t \in Slot : open[t] => t = s
  BY <1>1 DEF OInv, OneConnection
<1>6. QED
  BY <1>1, <1>3, <1>4, <1>5

\* sync_queue on a fresh connection: nothing is under way when it sends from the first
\* item.
LEMMA OSetStateContinue ==
  ASSUME OInv, Inv', NEW s \in Slot, SetStateContinue(s)
  PROVE  OInv'
<1>1. /\ open[s] /\ up[s] = 0 /\ down[s] = <<>> /\ filling = 0
      /\ clid'[s] /\ SameElsewhere(s, clid', clid)
  BY Fresh DEF SetStateContinue
<1>2. /\ present' /\ state' = "running" /\ _push_queue_items(s, queue, 0)
      /\ UNCHANGED <<filling, open, up, at, awake, thrown>>
  BY DEF SetStateContinue, fill, ends, hist
<1>3. queue \in Seq(Item)
  BY DEF OInv, Inv, TypeOK, ClientType
<1>4. 0 <= Len(queue) /\ 0 <= PipelineSize /\ 0 \in Nat
  BY <1>3, SizeAssumption
<1>5. up'[s] + Len(down[s]) = 0 /\ up'[s] <= 0
  <2>1. Len(down[s]) = 0
    BY <1>1, NothingSent
  <2>2. up'[s] = 0
    BY <1>1, <1>2
  <2>3. QED
    BY <2>1, <2>2
<1>6. IsPart(down[s], queue, up'[s])
  BY <1>1, <1>2, NothingSent
<1>7. QED
  BY <1>1, <1>2, <1>3, <1>4, <1>5, <1>6, OPush DEF SameElsewhere

\* rep_setstate with "start" or "stop": the client is new, or gone.
LEMMA OReset ==
  ASSUME OInv, Inv', NEW s \in Slot, NEW modes, Registration(s, modes),
         IF present THEN DeleteClient ELSE UNCHANGED <<orphan, asleep, dead>>,
         state' = "not_ready", queue_pipelined' = 0,
         filling' > 0 => fillConn' = s,
         open' = open, down' = down, up' = up, at' = at, awake' = awake, thrown' = thrown
  PROVE  OInv'
<1>1. /\ open[s] /\ up[s] = 0 /\ down[s] = <<>>
      /\ \A t \in Slot : open[t] => t = s
      /\ clid'[s] /\ SameElsewhere(s, clid', clid)
  BY Fresh
<1>2. \A t \in Slot : asleep[t] = 0 /\ awake[t] = 0
  BY Fresh
<1>3. \A t \in Slot : asleep'[t] = 0 /\ awake'[t] = 0
  BY <1>2 DEF DeleteClient
<1>4. OneConnection'
  BY <1>1 DEF OInv, OneConnection, SameElsewhere
<1>5. FreshIsQuiet' /\ ThreadsFollow'
  <2>1. \A t \in Slot : open'[t] => clid'[t]
    BY <1>1
  <2>2. filling' > 0 => open'[fillConn'] /\ clid'[fillConn'] /\ state' # "running"
    BY <1>1
  <2>3. FreshIsQuiet'
    BY <2>1, <2>2 DEF FreshIsQuiet
  <2>4. \A t \in Slot : ~(asleep'[t] > 0 \/ awake'[t] > 0)
    <3>1. ~(0 > 0)
      OBVIOUS
    <3>2. QED
      BY <1>3, <3>1
  <2>5. QED
    BY <2>3, <2>4 DEF ThreadsFollow
<1>6. FillWindow'
  <2>1. Len(<<>>) = 0
    BY EmptySeq
  <2>2. Len(current_keys') \in Nat
    BY DEF Inv, TypeOK, ClientType
  <2>3. up'[s] = 0 /\ down'[s] = <<>> /\ up'[s] + Len(down'[s]) <= Len(current_keys')
    <3>1. up'[s] = 0 /\ down'[s] = <<>>
      BY <1>1
    <3>2. Len(down'[s]) = 0
      BY <2>1, <3>1
    <3>3. QED
      BY <2>2, <3>1, <3>2
  <2>4. \A t \in Slot : open'[t] => t = s
    BY <1>1
  <2>5. QED
    BY <2>3, <2>4 DEF FillWindow
<1>7. Window' /\ NeverThrows'
  BY DEF OInv, Window, NeverThrows
<1>8. QED
  BY <1>4, <1>5, <1>6, <1>7 DEF OInv

\* start or auto: the new client has nothing under way.
LEMMA OSetStateStart ==
  ASSUME OInv, Inv', NEW s \in Slot, SetStateStart(s)
  PROVE  OInv'
  BY OReset DEF SetStateStart, ends

\* stop: no client and nothing under way.
LEMMA OSetStateStop ==
  ASSUME OInv, Inv', NEW s \in Slot, SetStateStop(s)
  PROVE  OInv'
<1>1. filling' = 0
  BY Fresh DEF SetStateStop, fill
<1>2. QED
  BY <1>1, OReset DEF SetStateStop, ends

\* Every step keeps OInv.
LEMMA OInvNext == Orderly /\ OInv /\ [Next]_vars => OInv'
<1> SUFFICES ASSUME Orderly, OInv, [Next]_vars PROVE OInv'
  OBVIOUS
<1>1. Inv'
  BY InvNext DEF OInv
<1>2. CASE SyncInitial \/ SlaveLeave \/ SlaveApply
  BY <1>1, <1>2, OSyncInitial, OSlaveLeave, OSlaveApply
<1>3. ASSUME NEW s \in Slot, PollWake(s) \/ PollPush(s) \/ OrphanWake(s) PROVE OInv'
  <2>1. CASE OrphanWake(s)
    BY <1>1, <2>1, OQuiet DEF OrphanWake
  <2>2. QED
    BY <1>1, <1>3, <2>1, OPollWake, OPollPush
<1>4. ASSUME NEW s \in Slot, Confirm(s) PROVE OInv'
  BY <1>1, <1>4, OConfirmStopped, OConfirmThrows, OConfirmPortion, OConfirmFinishing,
     OConfirmItem DEF Confirm
<1>5. ASSUME NEW s \in Slot, SetState(s) PROVE OInv'
  BY <1>1, <1>5, OSetStateStart, OSetStateContinue, OSetStateStop DEF SetState
<1>6. ASSUME NEW s \in Slot, Accept(s) \/ MasterClose(s) PROVE OInv'
  BY <1>1, <1>6, OAccept, OMasterClose
<1>7. ASSUME NEW w \in Worker, WorkerStep(w) PROVE OInv'
  <2>1. CASE SendToClients(w)
    BY <1>1, <2>1, OQuiet DEF SendToClients, polls, hist
  <2>2. CASE Partial(w)
    BY <1>1, <2>2, OQuiet DEF Partial, polls, hist
  <2>3. ASSUME NEW k \in Key, Put(w, k) PROVE OInv'
    BY <1>1, <2>3, OQuiet DEF Put, polls, hist
  <2>4. QED
    BY <1>1, <1>7, <2>1, <2>2, <2>3, OEnqueue DEF WorkerStep
<1>8. ASSUME NEW w \in Worker, NEW c \in Cmd, Begin(w, c) PROVE OInv'
  BY <1>1, <1>8, OQuiet DEF Begin, polls, hist
<1>9. CASE UNCHANGED vars
  BY <1>1, <1>9, OQuiet DEF vars, polls, hist
<1>10. QED
  BY <1>2, <1>3, <1>4, <1>5, <1>6, <1>7, <1>8, <1>9 DEF Next

\* OInv holds throughout when the master is done with one connection before the next.
LEMMA OrderlyInvariance == Orderly => (Spec => []OInv)
<1> SUFFICES ASSUME Orderly PROVE Spec => []OInv
  OBVIOUS
<1>1. OInv /\ [Next]_vars => OInv'
  BY OInvNext
<1>2. QED
  BY <1>1, OInvInit, PTL DEF Spec

\* When the master is done with one connection before the next is made, none of the
\* checks of on_confirm and _push_queue_items fires in any thread.
THEOREM ChecksNeverFire == Orderly => (Spec => []NeverThrows)
<1>1. OInv => NeverThrows
  BY DEF OInv
<1>2. QED
  BY <1>1, OrderlyInvariance, PTL

\* Then too, what is under way to a running slave is always the sent part of the queue
\* that it has not applied.
THEOREM WindowSafety == Orderly => (Spec => []Window)
<1>1. OInv => Window
  BY DEF OInv
<1>2. QED
  BY <1>1, OrderlyInvariance, PTL
=============================================================================
