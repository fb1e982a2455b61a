-------------------------- MODULE ReplicationProofs --------------------------
(***************************************************************************)
(* Proofs about Replication, for every store, command set, number of       *)
(* threads and connections, pipeline and portion size.                     *)
(***************************************************************************)
EXTENDS Replication, SequenceTheorems, FiniteSetTheorems, WellFoundedInduction, TLAPS

\* A portion that has keys has a last one.
LEMMA MaxOfKeys ==
  ASSUME NEW S, S \subseteq Key, S # {}
  PROVE  Max(S) \in S /\ \A k \in S : k <= Max(S)
<1> DEFINE Above == {k..LastKey : k \in S}
<1>1. IsFiniteSet(Key) /\ FiniteSubsetsOf(Key) = SUBSET Key
  BY KeyAssumption, FS_Interval, FS_FiniteSubsetsOfFinite DEF Key
<1>2. IsWellFoundedOn(StrictSubsetOrdering(Key), SUBSET Key)
  BY <1>1, FS_StrictSubsetOrderingWellFounded
<1>3. Above \subseteq SUBSET Key /\ Above # {}
  <2>1. \A k \in S : k..LastKey \subseteq Key
    BY KeyAssumption DEF Key
  <2>2. QED
    BY <2>1
<1>4. PICK A \in Above : \A B \in Above : ~(<<B, A>> \in StrictSubsetOrdering(Key))
  <2> HIDE DEF Above
  <2>1. QED
    BY <1>2, <1>3, WFMin
<1>5. PICK m \in S : A = m..LastKey
  BY <1>4
<1>6. ASSUME NEW k \in S PROVE m >= k
  <2>1. k..LastKey \in Above
    OBVIOUS
  <2>2. ~(<<k..LastKey, m..LastKey>> \in StrictSubsetOrdering(Key))
    BY <1>4, <1>5, <2>1
  <2>3. SUFFICES ASSUME m < k PROVE FALSE
    BY KeyAssumption DEF Key
  <2>4. /\ k..LastKey \in SUBSET Key /\ m..LastKey \in SUBSET Key
        /\ k..LastKey \subseteq m..LastKey /\ k..LastKey # m..LastKey
    BY <2>3, KeyAssumption DEF Key
  <2>5. QED
    BY <2>2, <2>4 DEF StrictSubsetOrdering
<1>7. Max(S) \in S /\ \A k \in S : Max(S) >= k
  BY <1>6 DEF Max
<1>8. QED
  BY <1>7, KeyAssumption DEF Key

\* A function from some keys to values is an item, and an item is such a function.
LEMMA ItemIntro ==
  ASSUME NEW S, S \subseteq Key, NEW f \in [S -> Val \cup {Nil}]
  PROVE  f \in Item
  BY DEF Item

\* A command has a set of keys as its domain and gives each a value or Nil.
LEMMA ItemElim ==
  ASSUME NEW f \in Item
  PROVE  /\ DOMAIN f \subseteq Key
         /\ f \in [DOMAIN f -> Val \cup {Nil}]
<1>1. PICK S \in SUBSET Key : f \in [S -> Val \cup {Nil}]
  BY DEF Item
<1>2. QED
  BY <1>1

\* The command that writes nothing, which idle pool threads hold, is an item.
LEMMA EmptyItem == [k \in {} |-> Nil] \in Item
<1>1. [k \in {} |-> Nil] \in [{} -> Val \cup {Nil}]
  OBVIOUS
<1>2. QED
  BY <1>1, ItemIntro

\* Applying an item to a store gives a store.
LEMMA ApplyType ==
  ASSUME NEW st \in Content, NEW f \in Item
  PROVE  Apply(st, f) \in Content
  BY ItemElim DEF Apply, Content

\* The keys of a portion are keys.
LEMMA PortionKeysType == \A from : PortionKeys(from) \subseteq Key
  BY DEF PortionKeys, Live

\* Reading a set of keys from the store gives an item.
LEMMA PortionItem ==
  ASSUME TypeOK, NEW S, S \subseteq Key
  PROVE  [k \in S |-> db[k]] \in Item
  BY DEF TypeOK, StoreType, Content, Item

\* current() is a key or the empty string.
LEMMA CurrentType == TypeOK => current \in Key \cup {0}
  BY DEF TypeOK, ClientType, current

\* Sending items leaves a sequence of items under way.
LEMMA SentType ==
  ASSUME TypeOK, NEW s \in Slot, NEW items \in Seq(Item)
  PROVE  Sent(s, items) \in Seq(Item)
  BY DEF TypeOK, LinkType, Sent

\* What a portion does to the variables it changes.
LEMMA PortionType ==
  ASSUME TypeOK, NEW s \in Slot, NEW from \in Key \cup {0}, NEW keys \in Seq(Key \cup {0}),
         _push_next_portion(s, from, keys)
  PROVE  /\ down' \in [Slot -> Seq(Item)]
         /\ current_keys' \in Seq(Key \cup {0})
         /\ Len(current_keys') = Len(keys) + 1
<1> DEFINE S == PortionKeys(from)
<1>1. S \subseteq Key
  BY PortionKeysType
<1>2. <<[k \in S |-> db[k]]>> \in Seq(Item)
  BY <1>1, PortionItem
<1>3. Sent(s, <<[k \in S |-> db[k]]>>) \in Seq(Item)
  BY <1>2, SentType
<1>4. (IF S = {} THEN from ELSE Max(S)) \in Key \cup {0}
  BY <1>1, MaxOfKeys
<1>5. down' = [down EXCEPT ![s] = Sent(s, <<[k \in S |-> db[k]]>>)]
  BY DEF _push_next_portion
<1>6. current_keys' = Append(keys, IF S = {} THEN from ELSE Max(S))
  BY DEF _push_next_portion
<1> HIDE DEF S
<1>7. QED
  <2>1. down \in [Slot -> Seq(Item)]
    BY DEF TypeOK, LinkType
  <2>2. down' \in [Slot -> Seq(Item)]
    BY <1>3, <1>5, <2>1
  <2>3. QED
    BY <1>4, <1>6, <2>2

\* The batch fits the queue and the pipeline.
LEMMA BatchBounds ==
  ASSUME NEW q \in Seq(Item), NEW p \in Int, p <= Len(q), p <= PipelineSize
  PROVE  /\ Batch(q, p) \in Nat /\ Skipped(p) \in Nat
         /\ Skipped(p) + Batch(q, p) <= Len(q)
         /\ p + Batch(q, p) <= PipelineSize
         /\ p + Batch(q, p) <= Len(q)
<1>1. Len(q) \in Nat /\ PipelineSize \in Nat
  BY SizeAssumption
<1>2. Skipped(p) \in Nat /\ Skipped(p) >= p /\ Skipped(p) <= Len(q)
  BY <1>1 DEF Skipped
<1>3. QED
  BY <1>1, <1>2 DEF Batch

\* A part of a sequence is a sequence with the expected length and elements.
LEMMA Part ==
  ASSUME NEW q \in Seq(Item), NEW i \in Nat, NEW n \in Nat, i + n <= Len(q)
  PROVE  /\ SubSeq(q, i + 1, i + n) \in Seq(Item)
         /\ Len(SubSeq(q, i + 1, i + n)) = n
         /\ \A j \in 1..n : SubSeq(q, i + 1, i + n)[j] = q[i + j]
  OBVIOUS

\* What _push_queue_items does to the variables it changes.
LEMMA PushType ==
  ASSUME TypeOK, NEW s \in Slot, NEW q \in Seq(Item), NEW p \in Int,
         p <= Len(q), p <= PipelineSize,
         _push_queue_items(s, q, p)
  PROVE  /\ queue' = q
         /\ queue_pipelined' \in Int
         /\ p <= queue_pipelined'
         /\ queue_pipelined' <= PipelineSize
         /\ queue_pipelined' <= Len(q)
         /\ down' \in [Slot -> Seq(Item)]
         /\ asleep' \in [Slot -> Nat]
<1>1. SubSeq(q, Skipped(p) + 1, Skipped(p) + Batch(q, p)) \in Seq(Item)
  BY BatchBounds, Part
<1>2. Sent(s, SubSeq(q, Skipped(p) + 1, Skipped(p) + Batch(q, p))) \in Seq(Item)
  BY <1>1, SentType
<1>3. down' \in [Slot -> Seq(Item)]
  BY <1>2 DEF TypeOK, LinkType, _push_queue_items
<1>4. asleep' \in [Slot -> Nat]
  <2>1. asleep \in [Slot -> Nat]
    BY DEF TypeOK, PollType
  <2>2. asleep' = [asleep EXCEPT ![s] = asleep[s] + 1] \/ asleep' = asleep
    BY DEF _push_queue_items
  <2>3. QED
    BY <2>1, <2>2
<1>5. queue' = q /\ queue_pipelined' = p + Batch(q, p)
  BY DEF _push_queue_items
<1>6. /\ Batch(q, p) \in Nat
      /\ p + Batch(q, p) <= PipelineSize
      /\ p + Batch(q, p) <= Len(q)
  BY BatchBounds
<1>7. QED
  BY <1>3, <1>4, <1>5, <1>6

-----------------------------------------------------------------------------
(* The type invariant, the pipeline bound and the first check of on_confirm *)

\* What a step leaves alone keeps its type.
LEMMA Frames ==
  /\ StoreType /\ UNCHANGED store => StoreType'
  /\ ClientType /\ UNCHANGED client => ClientType'
  /\ FillType /\ UNCHANGED fill => FillType'
  /\ LinkType /\ UNCHANGED link => LinkType'
  /\ EndsType /\ UNCHANGED ends => EndsType'
  /\ PollType /\ UNCHANGED polls => PollType'
  /\ WorkType /\ UNCHANGED work => WorkType'
  /\ HistType /\ UNCHANGED hist => HistType'
  BY DEF store, client, fill, link, ends, polls, work, hist, StoreType, ClientType, FillType, LinkType, EndsType, PollType, WorkType, HistType

\* Closing a connection keeps the connections in their types.
LEMMA CloseType ==
  ASSUME LinkType, NEW s \in Slot, Close(s), down' = down
  PROVE  LinkType'
  BY DEF LinkType, Close

Inv == TypeOK /\ PipelineBound /\ FillKeys /\ FillNeverFails

\* The invariant holds before the first connection and the first command.
LEMMA InvInit == Init => Inv
<1> SUFFICES ASSUME Init PROVE Inv
  OBVIOUS
<1>1. [k \in {} |-> Nil] \in Item
  BY EmptyItem
<1>2. /\ StoreType /\ HistType
      /\ ClientType
      /\ FillType /\ EndsType
  <2>1. StoreType /\ HistType
    <3>1. StoreType /\ mirror \in Content
      BY StoreAssumption DEF Init, StoreType
    <3>2. thrown \subseteq Error /\ dead = "no"
      BY DEF Init
    <3>3. QED
      BY <3>1, <3>2 DEF HistType
  <2>2. ClientType
    <3>1. <<>> \in Seq(Key \cup {0}) /\ <<>> \in Seq(Item)
      BY EmptySeq
    <3>2. present \in BOOLEAN
      BY DEF Init
    <3>3. QED
      BY <3>1, <3>2 DEF Init, ClientType, State
  <2>3. FillType /\ EndsType
    BY SizeAssumption DEF Init, FillType, EndsType
  <2>4. QED
    BY <2>1, <2>2, <2>3
<1>3. LinkType /\ PollType
  BY EmptySeq DEF Init, LinkType, PollType
<1>4. WorkType
  BY <1>1 DEF Init, WorkType
<1>5. PipelineBound /\ FillKeys /\ FillNeverFails
  BY SizeAssumption DEF Init, PipelineBound, FillKeys, FillNeverFails
<1>6. QED
  BY <1>2, <1>3, <1>4, <1>5 DEF Inv, TypeOK

\* A detached thread that wakes up only moves from asleep to awake.
LEMMA InvPollWake ==
  ASSUME Inv, NEW s \in Slot, PollWake(s)
  PROVE  Inv'
<1> USE DEF Inv, TypeOK
<1>1. StoreType' /\ ClientType' /\ FillType' /\ LinkType' /\ EndsType' /\ WorkType' /\ HistType'
  BY Frames DEF PollWake
<1>2. PollType'
  BY DEF PollWake, PollType
<1>3. PipelineBound'
  BY DEF PollWake, client, PipelineBound
<1>4. FillKeys'
  BY DEF PollWake, client, fill, hist, FillKeys, Alive, MuxFree
<1>5. FillNeverFails'
  BY DEF PollWake, hist, FillNeverFails
<1>6. QED
  BY <1>1, <1>2, <1>3, <1>4, <1>5

\* A thread whose client is gone touches nothing but its own count.
LEMMA InvOrphanWake ==
  ASSUME Inv, NEW s \in Slot, OrphanWake(s)
  PROVE  Inv'
<1> USE DEF Inv, TypeOK
<1>1. StoreType' /\ ClientType' /\ FillType' /\ LinkType' /\ EndsType' /\ WorkType'
  BY Frames DEF OrphanWake
<1>2. PollType'
  BY DEF OrphanWake, PollType
<1>3. HistType'
  BY DEF OrphanWake, HistType
<1>4. PipelineBound'
  BY DEF OrphanWake, client, PipelineBound
<1>5. FillKeys'
  BY DEF OrphanWake, client, fill, hist, FillKeys, Alive, MuxFree
<1>6. FillNeverFails'
  BY DEF OrphanWake, hist, FillNeverFails
<1>7. QED
  BY <1>1, <1>2, <1>3, <1>4, <1>5, <1>6

\* A confirmation without a client is dropped.
LEMMA InvConfirmStopped ==
  ASSUME Inv, NEW s \in Slot, ConfirmStopped(s)
  PROVE  Inv'
<1> USE DEF Inv, TypeOK
<1>1. StoreType' /\ ClientType' /\ FillType' /\ EndsType' /\ PollType' /\ WorkType' /\ HistType'
  BY Frames DEF ConfirmStopped
<1>2. LinkType'
  BY DEF ConfirmStopped, Confirmation, TakeConfirmation, LinkType
<1>3. PipelineBound'
  BY DEF ConfirmStopped, client, PipelineBound
<1>4. FillKeys'
  BY DEF ConfirmStopped, client, fill, hist, FillKeys, Alive, MuxFree
<1>5. FillNeverFails'
  BY DEF ConfirmStopped, hist, FillNeverFails
<1>6. QED
  BY <1>1, <1>2, <1>3, <1>4, <1>5

\* on_confirm throws "fail" for no state the invariant allows; throwing closes the
\* connection.
LEMMA InvConfirmThrows ==
  ASSUME Inv, NEW s \in Slot, ConfirmThrows(s)
  PROVE  Inv'
<1> USE DEF Inv, TypeOK
<1>1. StoreType' /\ ClientType' /\ FillType' /\ EndsType' /\ PollType' /\ WorkType'
  BY Frames DEF ConfirmThrows
<1>2. LinkType'
  BY CloseType DEF ConfirmThrows
<1>3. HistType'
  BY DEF ConfirmThrows, HistType, Error
<1>4. PipelineBound'
  BY DEF ConfirmThrows, client, PipelineBound
<1>5. FillKeys'
  BY DEF ConfirmThrows, client, fill, hist, FillKeys, Alive, MuxFree
<1>6. FillNeverFails'
  BY DEF ConfirmThrows, Confirmation, MuxFree, Alive, FillNeverFails, FillKeys, ClientType, State
<1>7. QED
  BY <1>1, <1>2, <1>3, <1>4, <1>5, <1>6

\* A new connection leaves the client as it is.
LEMMA InvAccept ==
  ASSUME Inv, NEW s \in Slot, Accept(s)
  PROVE  Inv'
<1> USE DEF Inv, TypeOK
<1>1. StoreType' /\ ClientType' /\ FillType' /\ PollType' /\ WorkType' /\ HistType'
  BY Frames DEF Accept
<1>2. LinkType'
  BY DEF Accept, LinkType
<1>3. EndsType'
  BY DEF Accept, EndsType
<1>4. PipelineBound'
  BY DEF Accept, client, PipelineBound
<1>5. FillKeys'
  BY DEF Accept, client, fill, hist, FillKeys, Alive, MuxFree
<1>6. FillNeverFails'
  BY DEF Accept, hist, FillNeverFails
<1>7. QED
  BY <1>1, <1>2, <1>3, <1>4, <1>5, <1>6

\* Closing a connection leaves the client as it is.
LEMMA InvMasterClose ==
  ASSUME Inv, NEW s \in Slot, MasterClose(s)
  PROVE  Inv'
<1> USE DEF Inv, TypeOK
<1>1. StoreType' /\ ClientType' /\ FillType' /\ EndsType' /\ PollType' /\ WorkType' /\ HistType'
  BY Frames DEF MasterClose
<1>2. LinkType'
  BY CloseType DEF MasterClose
<1>3. PipelineBound'
  BY DEF MasterClose, client, PipelineBound
<1>4. FillKeys'
  BY DEF MasterClose, client, fill, hist, FillKeys, Alive, MuxFree
<1>5. FillNeverFails'
  BY DEF MasterClose, hist, FillNeverFails
<1>6. QED
  BY <1>1, <1>2, <1>3, <1>4, <1>5

\* The slave leaving loses what is under way to it and nothing else.
LEMMA InvSlaveLeave ==
  ASSUME Inv, SlaveLeave
  PROVE  Inv'
<1> USE DEF Inv, TypeOK
<1>1. StoreType' /\ ClientType' /\ FillType' /\ PollType' /\ WorkType' /\ HistType'
  BY Frames DEF SlaveLeave
<1>2. LinkType'
  BY EmptySeq DEF SlaveLeave, LinkType, EndsType
<1>3. EndsType'
  BY DEF SlaveLeave, EndsType
<1>4. PipelineBound'
  BY DEF SlaveLeave, client, PipelineBound
<1>5. FillKeys'
  BY DEF SlaveLeave, client, fill, hist, FillKeys, Alive, MuxFree
<1>6. FillNeverFails'
  BY DEF SlaveLeave, hist, FillNeverFails
<1>7. QED
  BY <1>1, <1>2, <1>3, <1>4, <1>5, <1>6

\* A command that begins has its keys still to write.
LEMMA InvBegin ==
  ASSUME Inv, NEW w \in Worker, NEW c \in Cmd, Begin(w, c)
  PROVE  Inv'
<1> USE DEF Inv, TypeOK
<1>1. StoreType' /\ ClientType' /\ FillType' /\ LinkType' /\ EndsType' /\ PollType' /\ HistType'
  BY Frames DEF Begin
<1>2. WorkType'
  BY CmdAssumption, ItemElim DEF Begin, WorkType
<1>3. PipelineBound'
  BY DEF Begin, client, PipelineBound
<1>4. FillKeys'
  BY DEF Begin, client, fill, hist, FillKeys, Alive, MuxFree
<1>5. FillNeverFails'
  BY DEF Begin, hist, FillNeverFails
<1>6. QED
  BY <1>1, <1>2, <1>3, <1>4, <1>5

\* Reading the state of the client changes only what the pool thread does next.
LEMMA InvSendToClients ==
  ASSUME Inv, NEW w \in Worker, SendToClients(w)
  PROVE  Inv'
<1> USE DEF Inv, TypeOK
<1>1. StoreType' /\ ClientType' /\ FillType' /\ LinkType' /\ EndsType' /\ PollType' /\ HistType'
  BY Frames DEF SendToClients
<1>2. WorkType'
  BY DEF SendToClients, WorkType
<1>3. PipelineBound'
  BY DEF SendToClients, client, PipelineBound
<1>4. FillKeys'
  BY DEF SendToClients, client, fill, hist, FillKeys, Alive, MuxFree
<1>5. FillNeverFails'
  BY DEF SendToClients, hist, FillNeverFails
<1>6. QED
  BY <1>1, <1>2, <1>3, <1>4, <1>5

\* One Put or Delete keeps the store a store.
LEMMA InvPut ==
  ASSUME Inv, NEW w \in Worker, NEW k \in Key, Put(w, k)
  PROVE  Inv'
<1> USE DEF Inv, TypeOK
<1>1. ClientType' /\ FillType' /\ LinkType' /\ EndsType' /\ PollType' /\ HistType'
  BY Frames DEF Put
<1>2. StoreType'
  BY ItemElim DEF Put, StoreType, WorkType, Content
<1>3. WorkType'
  BY DEF Put, WorkType
<1>4. PipelineBound'
  BY DEF Put, client, PipelineBound
<1>5. FillKeys'
  BY DEF Put, client, fill, hist, FillKeys, Alive, MuxFree
<1>6. FillNeverFails'
  BY DEF Put, hist, FillNeverFails
<1>7. QED
  BY <1>1, <1>2, <1>3, <1>4, <1>5, <1>6

\* Applying a request keeps the store of the slave a store.
LEMMA InvSlaveApply ==
  ASSUME Inv, SlaveApply
  PROVE  Inv'
<1> USE DEF Inv, TypeOK
<1>1. ClientType' /\ FillType' /\ EndsType' /\ PollType' /\ WorkType' /\ HistType'
  BY Frames DEF SlaveApply
<1>2. at \in Slot /\ down[at] \in Seq(Item) /\ down[at] # <<>>
  BY DEF SlaveApply, EndsType, LinkType
<1>3. Head(down[at]) \in Item /\ Tail(down[at]) \in Seq(Item)
  BY <1>2
<1>4. StoreType'
  BY <1>3, ApplyType DEF SlaveApply, StoreType
<1>5. LinkType'
  BY <1>2, <1>3 DEF SlaveApply, LinkType
<1>6. PipelineBound' /\ FillKeys' /\ FillNeverFails'
  BY DEF SlaveApply, client, fill, hist, PipelineBound, FillKeys, FillNeverFails, Alive
<1>7. QED
  BY <1>1, <1>4, <1>5, <1>6

\* Dropping the keys the fill has not reached leaves a command.
LEMMA InvPartial ==
  ASSUME Inv, NEW w \in Worker, Partial(w)
  PROVE  Inv'
<1> USE DEF Inv, TypeOK
<1>1. StoreType' /\ ClientType' /\ FillType' /\ LinkType' /\ EndsType' /\ PollType' /\ HistType'
  BY Frames DEF Partial
<1> DEFINE S == {k \in DOMAIN cmd[w] : k < current}
<1>2. Restrict(cmd[w], S) \in Item
  <2>1. cmd[w] \in [DOMAIN cmd[w] -> Val \cup {Nil}] /\ DOMAIN cmd[w] \subseteq Key
    BY ItemElim DEF WorkType
  <2>2. S \subseteq Key /\ Restrict(cmd[w], S) \in [S -> Val \cup {Nil}]
    BY <2>1 DEF Restrict
  <2>3. QED
    BY <2>2, ItemIntro
<1>3. /\ cmd' = [cmd EXCEPT ![w] = Restrict(cmd[w], S)]
      /\ wpc' = [wpc EXCEPT ![w] = IF S = {} THEN "idle" ELSE "enqueue"]
      /\ todo' = todo /\ cmds' = cmds
  BY DEF Partial
<1>4. WorkType'
  <2> HIDE DEF S
  <2>1. QED
    BY <1>2, <1>3 DEF WorkType
<1>5. PipelineBound' /\ FillKeys' /\ FillNeverFails'
  BY DEF Partial, client, fill, hist, PipelineBound, FillKeys, FillNeverFails, Alive
<1>6. QED
  BY <1>1, <1>4, <1>5

\* enqueue makes the queue longer and sends nothing.
LEMMA InvEnqueue ==
  ASSUME Inv, NEW w \in Worker, Enqueue(w)
  PROVE  Inv'
<1> USE DEF Inv, TypeOK
<1>1. StoreType' /\ FillType' /\ LinkType' /\ EndsType' /\ PollType'
  BY Frames DEF Enqueue
<1>2. cmd[w] \in Item /\ queue' = Append(queue, cmd[w]) /\ queue \in Seq(Item)
  BY DEF Enqueue, WorkType, ClientType
<1>3. queue' \in Seq(Item) /\ Len(queue') = Len(queue) + 1
  BY <1>2
<1>4. ClientType'
  BY <1>3 DEF Enqueue, ClientType
<1>5. WorkType'
  BY DEF Enqueue, WorkType
<1>6. HistType'
  BY <1>2, ApplyType DEF Enqueue, HistType
<1>7. PipelineBound'
  BY <1>2, <1>3 DEF Enqueue, PipelineBound, ClientType
<1>8. FillKeys' /\ FillNeverFails'
  BY DEF Enqueue, fill, FillKeys, FillNeverFails, Alive
<1>9. QED
  BY <1>1, <1>4, <1>5, <1>6, <1>7, <1>8

\* A round of sync_initial adds the key of the portion it pushes.
LEMMA InvSyncInitial ==
  ASSUME Inv, SyncInitial
  PROVE  Inv'
<1> USE DEF Inv, TypeOK
<1>1. StoreType' /\ EndsType' /\ PollType' /\ WorkType'
  BY Frames DEF SyncInitial
<1>2. PipelineBound' /\ FillNeverFails'
  BY DEF SyncInitial, PipelineBound, FillNeverFails
<1>3. fillConn \in Slot /\ present /\ Len(current_keys) = PipelineSize - filling
  BY DEF SyncInitial, FillKeys, FillType
<1>4. CASE NextIsInvalid(current)
  <2>1. ClientType' /\ FillType' /\ LinkType' /\ HistType'
    BY <1>4 DEF SyncInitial, ClientType, FillType, LinkType, HistType
  <2>2. FillKeys'
    BY <1>4 DEF SyncInitial, FillKeys, Alive
  <2>3. QED
    BY <1>1, <1>2, <2>1, <2>2
<1>5. CASE ~NextIsInvalid(current)
  <2>1. /\ down' \in [Slot -> Seq(Item)]
        /\ current_keys' \in Seq(Key \cup {0})
        /\ Len(current_keys') = Len(current_keys) + 1
    BY <1>3, <1>5, CurrentType, PortionType DEF SyncInitial, ClientType
  <2>2. state' \in State /\ (filling = 1 => state' = "syncing")
    BY <1>5 DEF SyncInitial, AfterPortion, ClientType, State
  <2>3. filling' = filling - 1 /\ filling > 0 /\ fillConn' = fillConn /\ dead' = dead
    BY <1>5 DEF SyncInitial
  <2>4. ClientType' /\ LinkType'
    BY <2>1, <2>2 DEF SyncInitial, ClientType, LinkType
  <2>5. FillType'
    BY <2>3, SizeAssumption DEF FillType
  <2>6. HistType'
    BY <2>3 DEF SyncInitial, HistType
  <2>7. FillKeys'
    <3>1. present' = present /\ Alive
      BY DEF SyncInitial
    <3>2. Len(current_keys') = PipelineSize - filling'
      BY <1>3, <2>1, <2>3, SizeAssumption DEF FillType, ClientType
    <3>3. CASE filling = 1
      <4>1. Len(current_keys') >= 1
        BY <3>2, <2>3, <3>3, SizeAssumption
      <4>2. current_keys' # <<>>
        BY <4>1, <2>1
      <4>3. QED
        BY <4>2, <2>2, <2>3, <3>3 DEF FillKeys
    <3>4. CASE filling # 1
      BY <1>3, <2>3, <3>1, <3>2, <3>4 DEF FillKeys, FillType
    <3>5. QED
      BY <3>3, <3>4
  <2>8. QED
    BY <1>1, <1>2, <2>4, <2>5, <2>6, <2>7
<1>6. QED
  BY <1>4, <1>5
\* A push from a detached thread keeps the pipeline within its bound, or throws.
LEMMA InvPollPush ==
  ASSUME Inv, NEW s \in Slot, PollPush(s)
  PROVE  Inv'
<1> USE DEF Inv, TypeOK
<1>1. StoreType' /\ FillType' /\ EndsType' /\ WorkType'
  BY Frames DEF PollPush
<1>2. awake' \in [Slot -> Nat]
  BY DEF PollPush, PollType
<1>3. CASE PushThrows(queue, queue_pipelined)
  <2>1. ClientType' /\ LinkType' /\ PipelineBound'
    BY <1>3 DEF PollPush, ClientType, LinkType, PipelineBound
  <2>2. PollType'
    BY <1>2, <1>3 DEF PollPush, PollType
  <2>3. HistType' /\ FillNeverFails'
    BY <1>3 DEF PollPush, HistType, FillNeverFails, Error
  <2>4. FillKeys'
    BY <1>3 DEF PollPush, FillKeys, Alive
  <2>5. QED
    BY <1>1, <2>1, <2>2, <2>3, <2>4
<1>4. CASE ~PushThrows(queue, queue_pipelined)
  <2>1. /\ queue \in Seq(Item) /\ queue_pipelined \in Int
        /\ queue_pipelined <= Len(queue) /\ queue_pipelined <= PipelineSize
    BY DEF ClientType, PipelineBound
  <2>2. _push_queue_items(s, queue, queue_pipelined) /\ thrown' = thrown /\ dead' = dead
    BY <1>4 DEF PollPush
  <2>3. /\ queue' = queue
        /\ queue_pipelined' \in Int
        /\ queue_pipelined' <= PipelineSize
        /\ queue_pipelined' <= Len(queue)
        /\ down' \in [Slot -> Seq(Item)]
        /\ asleep' \in [Slot -> Nat]
    BY <2>1, <2>2, PushType
  <2>4. ClientType' /\ LinkType' /\ PollType'
    BY <1>2, <2>3 DEF PollPush, ClientType, LinkType, PollType
  <2>5. HistType' /\ FillNeverFails'
    BY <2>2 DEF PollPush, HistType, FillNeverFails
  <2>6. PipelineBound'
    BY <2>3 DEF PipelineBound
  <2>7. FillKeys'
    BY <2>2 DEF PollPush, FillKeys, Alive, fill
  <2>8. QED
    BY <1>1, <2>4, <2>5, <2>6, <2>7
<1>5. QED
  BY <1>3, <1>4

\* on_confirm while syncing takes one key away and adds one.
LEMMA InvConfirmPortion ==
  ASSUME Inv, NEW s \in Slot, ConfirmPortion(s)
  PROVE  Inv'
<1> USE DEF Inv, TypeOK
<1>1. StoreType' /\ FillType' /\ EndsType' /\ PollType' /\ WorkType'
  BY Frames DEF ConfirmPortion
<1>2. PipelineBound' /\ FillNeverFails'
  BY DEF ConfirmPortion, PipelineBound, FillNeverFails
<1>3. open' = open /\ clid' = clid /\ up' \in [Slot -> Nat]
  BY DEF ConfirmPortion, Confirmation, TakeConfirmation, LinkType
<1>4. current_keys \in Seq(Key \cup {0}) /\ current_keys # <<>> /\ present /\ filling = 0
  BY DEF ConfirmPortion, Confirmation, MuxFree, ClientType
<1>5. Tail(current_keys) \in Seq(Key \cup {0})
  BY <1>4
<1>6. CASE NextIsInvalid(current)
  <2>1. ClientType'
    BY <1>5, <1>6 DEF ConfirmPortion, ClientType
  <2>2. LinkType'
    BY <1>3, <1>6 DEF ConfirmPortion, LinkType
  <2>3. HistType' /\ FillKeys'
    BY <1>6 DEF ConfirmPortion, HistType, FillKeys, Alive
  <2>4. QED
    BY <1>1, <1>2, <2>1, <2>2, <2>3
<1>7. CASE ~NextIsInvalid(current)
  <2>1. /\ down' \in [Slot -> Seq(Item)]
        /\ current_keys' \in Seq(Key \cup {0})
        /\ Len(current_keys') = Len(Tail(current_keys)) + 1
    BY <1>5, <1>7, CurrentType, PortionType DEF ConfirmPortion
  <2>2. current_keys' # <<>>
    BY <1>5, <2>1
  <2>3. state' \in {"syncing", "sync_finishing"}
    BY <1>7 DEF ConfirmPortion, AfterPortion
  <2>4. ClientType'
    BY <2>1, <2>3 DEF ConfirmPortion, ClientType, State
  <2>5. LinkType'
    BY <1>3, <2>1 DEF LinkType
  <2>6. HistType'
    BY <1>7 DEF ConfirmPortion, HistType
  <2>7. FillKeys'
    BY <1>4, <2>2, <2>3 DEF ConfirmPortion, FillKeys, fill
  <2>8. QED
    BY <1>1, <1>2, <2>4, <2>5, <2>6, <2>7
<1>8. QED
  BY <1>6, <1>7

\* on_confirm while sync_finishing goes over to the queue with the last key.
LEMMA InvConfirmFinishing ==
  ASSUME Inv, NEW s \in Slot, ConfirmFinishing(s)
  PROVE  Inv'
<1> USE DEF Inv, TypeOK
<1>1. StoreType' /\ FillType' /\ EndsType' /\ WorkType' /\ HistType'
  BY Frames DEF ConfirmFinishing
<1>2. FillNeverFails'
  BY DEF ConfirmFinishing, FillNeverFails, hist
<1>3. open' = open /\ clid' = clid /\ up' \in [Slot -> Nat]
  BY DEF ConfirmFinishing, Confirmation, TakeConfirmation, LinkType
<1>4. /\ current_keys \in Seq(Key \cup {0}) /\ current_keys # <<>>
      /\ present /\ filling = 0 /\ filling' = 0
      /\ current_keys' = Tail(current_keys)
  BY DEF ConfirmFinishing, Confirmation, MuxFree, ClientType, fill
<1>5. current_keys' \in Seq(Key \cup {0})
  BY <1>4
<1>6. CASE Tail(current_keys) = <<>>
  <2>1. queue \in Seq(Item) /\ 0 <= Len(queue) /\ 0 <= PipelineSize
    BY SizeAssumption DEF ClientType
  <2>2. _push_queue_items(s, queue, 0) /\ state' = "running"
    BY <1>6 DEF ConfirmFinishing
  <2>3. /\ queue' = queue
        /\ queue_pipelined' \in Int
        /\ queue_pipelined' <= PipelineSize
        /\ queue_pipelined' <= Len(queue)
        /\ down' \in [Slot -> Seq(Item)]
        /\ asleep' \in [Slot -> Nat]
    BY <2>1, <2>2, PushType
  <2>4. ClientType'
    BY <1>5, <2>2, <2>3 DEF ConfirmFinishing, ClientType, State
  <2>5. LinkType' /\ PollType'
    BY <1>3, <2>3 DEF ConfirmFinishing, LinkType, PollType
  <2>6. PipelineBound'
    BY <2>3 DEF PipelineBound
  <2>7. FillKeys'
    BY <1>4, <2>2 DEF FillKeys
  <2>8. QED
    BY <1>1, <1>2, <2>4, <2>5, <2>6, <2>7
<1>7. CASE Tail(current_keys) # <<>>
  <2>1. /\ state' = "sync_finishing" /\ queue' = queue /\ down' = down /\ asleep' = asleep
        /\ queue_pipelined' = queue_pipelined
    BY <1>7 DEF ConfirmFinishing
  <2>2. ClientType'
    BY <1>5, <2>1 DEF ConfirmFinishing, ClientType, State
  <2>3. LinkType' /\ PollType'
    BY <1>3, <2>1 DEF ConfirmFinishing, LinkType, PollType
  <2>4. PipelineBound'
    BY <2>1 DEF PipelineBound
  <2>5. FillKeys'
    BY <1>4, <1>7, <2>1 DEF FillKeys
  <2>6. QED
    BY <1>1, <1>2, <2>2, <2>3, <2>4, <2>5
<1>8. QED
  BY <1>6, <1>7
\* on_confirm while running makes the queue and the count of sent items one less, then
\* pushes.
LEMMA InvConfirmItem ==
  ASSUME Inv, NEW s \in Slot, ConfirmItem(s)
  PROVE  Inv'
<1> USE DEF Inv, TypeOK
<1> DEFINE q == Tail(queue)
           p == queue_pipelined - 1
<1>1. StoreType' /\ FillType' /\ EndsType' /\ WorkType'
  BY Frames DEF ConfirmItem
<1>2. FillKeys'
  BY DEF ConfirmItem, FillKeys, Alive, fill
<1>3. queue \in Seq(Item) /\ queue # <<>>
  BY DEF ConfirmItem, ClientType
<1>4. /\ q \in Seq(Item) /\ Len(q) = Len(queue) - 1
      /\ p \in Int /\ p <= Len(q) /\ p <= PipelineSize
  <2>1. q \in Seq(Item) /\ Len(q) = Len(queue) - 1 /\ Len(queue) \in Nat
    BY <1>3
  <2>2. QED
    BY <2>1, SizeAssumption DEF ClientType, PipelineBound
<1>5. CASE PushThrows(q, p)
  <2>1. queue' = q /\ queue_pipelined' = p /\ down' = down /\ asleep' = asleep
    BY <1>5 DEF ConfirmItem
  <2>2. ClientType' /\ PipelineBound'
    <3> HIDE DEF q, p
    <3>1. QED
      BY <1>4, <2>1 DEF ConfirmItem, ClientType, PipelineBound
  <2>3. LinkType'
    BY <1>5, <2>1, CloseType DEF ConfirmItem
  <2>4. PollType'
    BY <2>1 DEF ConfirmItem, PollType
  <2>5. HistType' /\ FillNeverFails'
    BY <1>5 DEF ConfirmItem, HistType, FillNeverFails, Error
  <2>6. QED
    BY <1>1, <1>2, <2>2, <2>3, <2>4, <2>5
<1>6. CASE ~PushThrows(q, p)
  <2>1. /\ _push_queue_items(s, q, p)
        /\ open' = open /\ clid' = clid
        /\ thrown' = thrown
    BY <1>6 DEF ConfirmItem, TakeConfirmation
  <2>2. up' \in [Slot -> Nat]
    BY <1>6 DEF ConfirmItem, TakeConfirmation, Confirmation, LinkType
  <2>3. /\ queue' = q
        /\ queue_pipelined' \in Int
        /\ queue_pipelined' <= PipelineSize
        /\ queue_pipelined' <= Len(q)
        /\ down' \in [Slot -> Seq(Item)]
        /\ asleep' \in [Slot -> Nat]
    <3> HIDE DEF q, p
    <3>1. QED
      BY <1>4, <2>1, PushType
  <2>4. ClientType' /\ PipelineBound'
    <3> HIDE DEF q, p
    <3>1. QED
      BY <1>4, <2>3 DEF ConfirmItem, ClientType, PipelineBound
  <2>5. LinkType' /\ PollType'
    BY <2>1, <2>2, <2>3 DEF ConfirmItem, LinkType, PollType
  <2>6. HistType' /\ FillNeverFails'
    BY <2>1 DEF ConfirmItem, HistType, FillNeverFails
  <2>7. QED
    BY <1>1, <1>2, <2>4, <2>5, <2>6
<1>7. QED
  BY <1>5, <1>6

\* sync_queue counts again from 0.
LEMMA InvSetStateContinue ==
  ASSUME Inv, NEW s \in Slot, SetStateContinue(s)
  PROVE  Inv'
<1> USE DEF Inv, TypeOK
<1>1. StoreType' /\ FillType' /\ EndsType' /\ WorkType' /\ HistType'
  BY Frames DEF SetStateContinue
<1>2. queue \in Seq(Item) /\ 0 <= Len(queue) /\ 0 <= PipelineSize
  BY SizeAssumption DEF ClientType
<1>3. /\ queue' = queue
      /\ queue_pipelined' \in Int
      /\ queue_pipelined' <= PipelineSize
      /\ queue_pipelined' <= Len(queue)
      /\ down' \in [Slot -> Seq(Item)]
      /\ asleep' \in [Slot -> Nat]
  BY <1>2, PushType DEF SetStateContinue
<1>4. ClientType' /\ PipelineBound'
  BY <1>3 DEF SetStateContinue, ClientType, PipelineBound, State
<1>5. LinkType' /\ PollType'
  BY <1>3 DEF SetStateContinue, Registration, LinkType, PollType
<1>6. FillKeys' /\ FillNeverFails'
  BY DEF SetStateContinue, Registration, MuxFree, FillKeys, FillNeverFails, fill, hist
<1>7. QED
  BY <1>1, <1>4, <1>5, <1>6

\* Deleting the client keeps the threads' counts and dead in their types.
LEMMA DeleteType ==
  ASSUME PollType, HistType, DeleteClient \/ UNCHANGED <<orphan, asleep, dead>>,
         awake' = awake, thrown' = thrown, mirror' = mirror
  PROVE  PollType' /\ HistType'
  BY DEF PollType, HistType, DeleteClient

\* A client that starts afresh has no key yet and all its portions to push.
LEMMA InvSetStateStart ==
  ASSUME Inv, NEW s \in Slot, SetStateStart(s)
  PROVE  Inv'
<1> USE DEF Inv, TypeOK
<1>1. StoreType' /\ EndsType' /\ WorkType'
  BY Frames DEF SetStateStart
<1>2. PollType' /\ HistType'
  BY DeleteType DEF SetStateStart
<1>3. <<>> \in Seq(Key \cup {0}) /\ <<>> \in Seq(Item) /\ Len(<<>>) = 0
  BY EmptySeq
<1>4. ClientType' /\ PipelineBound'
  BY <1>3, SizeAssumption DEF SetStateStart, ClientType, PipelineBound, State
<1>5. FillType' /\ FillKeys'
  BY <1>3, SizeAssumption DEF SetStateStart, FillType, FillKeys
<1>6. LinkType' /\ FillNeverFails'
  BY DEF SetStateStart, Registration, LinkType, FillNeverFails
<1>7. QED
  BY <1>1, <1>2, <1>4, <1>5, <1>6

\* A client that is gone has no queue.
LEMMA InvSetStateStop ==
  ASSUME Inv, NEW s \in Slot, SetStateStop(s)
  PROVE  Inv'
<1> USE DEF Inv, TypeOK
<1>1. StoreType' /\ FillType' /\ EndsType' /\ WorkType'
  BY Frames DEF SetStateStop
<1>2. PollType' /\ HistType'
  BY DeleteType DEF SetStateStop
<1>3. <<>> \in Seq(Key \cup {0}) /\ <<>> \in Seq(Item) /\ Len(<<>>) = 0
  BY EmptySeq
<1>4. ClientType' /\ PipelineBound'
  <2>1. present' \in BOOLEAN
    BY DEF SetStateStop
  <2>2. QED
    BY <1>3, <2>1, SizeAssumption DEF SetStateStop, ClientType, PipelineBound, State
<1>5. FillKeys'
  BY DEF SetStateStop, Registration, MuxFree, FillKeys, fill
<1>6. LinkType' /\ FillNeverFails'
  BY DEF SetStateStop, Registration, LinkType, FillNeverFails
<1>7. QED
  BY <1>1, <1>2, <1>4, <1>5, <1>6

\* A step that changes nothing keeps the invariant.
LEMMA InvStutter ==
  ASSUME Inv, UNCHANGED vars
  PROVE  Inv'
  BY DEF Inv, TypeOK, StoreType, ClientType, FillType, LinkType, EndsType, PollType, WorkType,
         HistType, PipelineBound, FillKeys, FillNeverFails, Alive,
         vars, store, client, fill, link, ends, polls, work, hist

\* Every step of the master, of the slave and of the network keeps Inv.
LEMMA InvNext == Inv /\ [Next]_vars => Inv'
<1> SUFFICES ASSUME Inv, [Next]_vars PROVE Inv'
  OBVIOUS
<1>1. CASE SyncInitial \/ SlaveLeave \/ SlaveApply
  BY <1>1, InvSyncInitial, InvSlaveLeave, InvSlaveApply
<1>2. ASSUME NEW s \in Slot, PollWake(s) \/ PollPush(s) \/ OrphanWake(s) PROVE Inv'
  BY <1>2, InvPollWake, InvPollPush, InvOrphanWake
<1>3. ASSUME NEW s \in Slot, Confirm(s) PROVE Inv'
  BY <1>3, InvConfirmStopped, InvConfirmThrows, InvConfirmPortion, InvConfirmFinishing,
     InvConfirmItem DEF Confirm
<1>4. ASSUME NEW s \in Slot, SetState(s) PROVE Inv'
  BY <1>4, InvSetStateStart, InvSetStateContinue, InvSetStateStop DEF SetState
<1>5. ASSUME NEW s \in Slot, Accept(s) \/ MasterClose(s) PROVE Inv'
  BY <1>5, InvAccept, InvMasterClose
<1>6. ASSUME NEW w \in Worker, WorkerStep(w) PROVE Inv'
  BY <1>6, InvSendToClients, InvPartial, InvEnqueue, InvPut DEF WorkerStep
<1>7. ASSUME NEW w \in Worker, NEW c \in Cmd, Begin(w, c) PROVE Inv'
  BY <1>7, InvBegin
<1>8. CASE UNCHANGED vars
  BY <1>8, InvStutter
<1>9. QED
  BY <1>1, <1>2, <1>3, <1>4, <1>5, <1>6, <1>7, <1>8 DEF Next

\* Inv holds throughout, whatever the slaves and the network do.
LEMMA Invariance == Spec => []Inv
  BY InvInit, InvNext, PTL DEF Spec

\* Every variable keeps its type, whatever connections come and go, clients that are
\* deleted and iterators that outlive them included.
THEOREM TypeSafety == Spec => []TypeOK
<1>1. Inv => TypeOK
  BY DEF Inv
<1>2. QED
  BY <1>1, Invariance, PTL

\* However many connections a slave opens and however late its confirmations come, no more
\* than PipelineSize items, nor more than the queue holds, count as sent.
THEOREM PipelineSafety == Spec => []PipelineBound
<1>1. Inv => PipelineBound
  BY DEF Inv
<1>2. QED
  BY <1>1, Invariance, PTL

\* The check of on_confirm during the initial fill never fires: there is a key in
\* current_keys for every confirmation that can still arrive.
THEOREM FillSafety == Spec => []FillNeverFails
<1>1. Inv => FillNeverFails
  BY DEF Inv
<1>2. QED
  BY <1>1, Invariance, PTL
=============================================================================
