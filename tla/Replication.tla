---------------------------- MODULE Replication ----------------------------
(***************************************************************************)
(* Master-to-slave replication of the daemon: Client_t and Replication of  *)
(* src/src/replication.hpp, the set and del handlers that feed them        *)
(* (src/src/fas_methods.hpp), the rserver connections they talk over and   *)
(* the slave's reconnecting client (src/src/daemon.cpp).                   *)
(*                                                                         *)
(* One slave id is modelled; the clients of a master share nothing but the *)
(* store.  The threads of the master are the Workers of the thread pools   *)
(* (set and del), the one multiplexer thread that serves every rserver     *)
(* connection, and the detached threads of _schedule_queue.                *)
(***************************************************************************)
EXTENDS Integers, Sequences, FiniteSets, Functions, FiniteSetsExt

CONSTANTS
  LastKey,       \* the keys are 1..LastKey, numbered in LevelDB's order; 0 is the empty string
  Val,           \* the values
  Nil,           \* not a value: "the key is absent", or "delete it"
  Cmd,           \* the set and del commands: functions from keys to Val or to Nil
  Worker,        \* threads of the pools that run set and del
  Slot,          \* the connection objects in rserver's pool, by address
  Db0, Slave0,   \* what the two stores hold at first
  Mode,          \* the "state" argument of the rep_setstate calls slaves make
  PipelineSize,  \* Client_t::pipeline_size
  PortionSize,   \* pairs in one portion of the initial fill
  Orderly,       \* TRUE: the master is done with one connection before the next
  MaxCmd,        \* bound: commands run
  MaxConn        \* bound: connections the slave makes

Key == 1..LastKey

\* What a store holds; what a command or a portion writes.
Content == [Key -> Val \cup {Nil}]
Item == UNION {[S -> Val \cup {Nil}] : S \in SUBSET Key}

ASSUME KeyAssumption == LastKey \in Nat
ASSUME NilAssumption == Nil \notin Val
ASSUME CmdAssumption == Cmd \subseteq Item
ASSUME StoreAssumption == Db0 \in Content /\ Slave0 \in Content
ASSUME SlotAssumption == Slot \subseteq Nat \ {0}
ASSUME ModeAssumption == Mode \subseteq {"start", "auto", "continue", "stop"}
ASSUME SizeAssumption == PipelineSize \in Nat \ {0} /\ PortionSize \in Nat \ {0}
ASSUME BoundAssumption == MaxCmd \in Nat /\ MaxConn \in Nat
ASSUME OrderlyAssumption == Orderly \in BOOLEAN

VARIABLES
  \* the store of the master, and the store of the slave
  db, slave,
  \* the Client_t of the slave's id, when repClients has one
  present, state, current_keys, queue, queue_pipelined,
  \* sync_initial in progress: portions still to push (it holds mtx), and its connection
  filling, fillConn,
  \* a connection: open at the master, rep_setstate handled on it (clid is set),
  \* requests on their way to the slave, confirmations on their way back
  open, clid, down, up,
  \* the slave's end: the connection it reads (0: none), connections made so far
  at, conns,
  \* the detached threads of a connection: asleep, past get_status(), and asleep
  \* with a "this" that has been deleted
  asleep, awake, orphan,
  \* the pool threads: what they do, keys still to write, the command to replicate
  wpc, todo, cmd, cmds,
  \* history: the logic_errors thrown, how the process died, what a replay of
  \* everything enqueued so far makes of the slave's first store
  thrown, dead, mirror

store == <<db, slave>>
client == <<present, state, current_keys, queue, queue_pipelined>>
fill == <<filling, fillConn>>
link == <<open, clid, down, up>>
ends == <<at, conns>>
polls == <<asleep, awake, orphan>>
work == <<wpc, todo, cmd, cmds>>
hist == <<thrown, dead, mirror>>
vars == <<store, client, fill, link, ends, polls, work, hist>>

State == {"not_ready", "syncing", "sync_finishing", "running"}
Error == {"fail", "empty_queue", "pipelined"}

\* The store after an item has been applied to it: Put or Delete key by key.
Apply(s, item) == [k \in Key |-> IF k \in DOMAIN item THEN item[k] ELSE s[k]]

Alive == dead = "no"

\* The multiplexer thread is not inside sync_initial, and mtx is not held by it.
MuxFree == Alive /\ filling = 0

-----------------------------------------------------------------------------
(* The initial fill *)

current == IF current_keys = <<>> THEN 0 ELSE current_keys[Len(current_keys)]

Live == {k \in Key : db[k] # Nil}

\* Next() on the iterator that Seek(from) left past the last key.
NextIsInvalid(from) == from # 0 /\ \A k \in Live : k < from

\* The keys of a portion.  Seek(from) stops at from itself or, when from has been
\* deleted, at its successor; Next() then steps over whichever key that was.
PortionKeys(from) ==
  LET Found == {k \in Live : from <= k}
      Rest == IF from = 0 THEN Live ELSE Found \ {Min(Found)}
  IN  {k \in Rest : Cardinality({j \in Rest : j < k}) < PortionSize}

\* What a request written to connection s adds to the requests under way.
Sent(s, items) == IF open[s] /\ at = s THEN down[s] \o items ELSE down[s]

\* Mutant: an empty portion adds no key.
PortionWithoutKey(s, from, keys) ==
  LET S == PortionKeys(from)
  IN  /\ down' = [down EXCEPT ![s] = Sent(s, <<[k \in S |-> db[k]]>>)]
      /\ current_keys' = IF S = {} THEN keys ELSE Append(keys, Max(S))

\* The effect of one portion on everything but the state.
_push_next_portion(s, from, keys) ==
  LET S == PortionKeys(from)
  IN  /\ down' = [down EXCEPT ![s] = Sent(s, <<[k \in S |-> db[k]]>>)]
      /\ current_keys' = Append(keys, IF S = {} THEN from ELSE Max(S))

\* ... and on the state: a portion without pairs ends the fill.
AfterPortion(from) == IF PortionKeys(from) = {} THEN "sync_finishing" ELSE state

\* One round of the loop of sync_initial; after the last one the state is syncing.
SyncInitial ==
  /\ Alive /\ filling > 0
  /\ IF NextIsInvalid(current)
     THEN dead' = "invalid_iterator" /\ UNCHANGED <<down, current_keys, state, filling>>
     ELSE /\ _push_next_portion(fillConn, current, current_keys)
          /\ state' = IF filling = 1 THEN "syncing" ELSE AfterPortion(current)
          /\ filling' = filling - 1
          /\ UNCHANGED dead
  /\ UNCHANGED <<store, present, queue, queue_pipelined, fillConn, open, clid, up,
                 ends, polls, work, thrown, mirror>>

-----------------------------------------------------------------------------
(* The update queue *)

\* _push_queue_items, called with queue q and queue_pipelined p, throws.
PushThrows(q, p) == q = <<>> /\ p # 0

\* Mutant: the iterator stays at the head of the queue.
SkipNothing(p) == 0

\* Otherwise it skips the items that count as sent (p falls below 0 when more
\* confirmations arrive than items were sent) ...
Skipped(p) == IF p < 0 THEN 0 ELSE p

\* ... and sends the ones after them, while fewer than PipelineSize count as sent.
Batch(q, p) ==
  LET left == Len(q) - Skipped(p)
      room == PipelineSize - p
  IN  IF Len(q) <= p \/ p >= PipelineSize THEN 0
      ELSE IF room < left THEN room ELSE left

\* Mutant: with nothing to send it returns.
PushWithoutSchedule(s, q, p) ==
  /\ queue' = q
  /\ queue_pipelined' = p + Batch(q, p)
  /\ down' = [down EXCEPT ![s] =
                Sent(s, SubSeq(q, Skipped(p) + 1, Skipped(p) + Batch(q, p)))]
  /\ asleep' = asleep

\* With nothing to send it starts a thread that tries again later.
_push_queue_items(s, q, p) ==
  /\ queue' = q
  /\ queue_pipelined' = p + Batch(q, p)
  /\ down' = [down EXCEPT ![s] =
                Sent(s, SubSeq(q, Skipped(p) + 1, Skipped(p) + Batch(q, p)))]
  /\ asleep' = IF q = <<>> THEN [asleep EXCEPT ![s] = @ + 1] ELSE asleep

\* A detached thread wakes up and asks the connection for its status.
PollWake(s) ==
  /\ Alive /\ asleep[s] > 0
  /\ asleep' = [asleep EXCEPT ![s] = @ - 1]
  /\ awake' = IF open[s] THEN [awake EXCEPT ![s] = @ + 1] ELSE awake
  /\ UNCHANGED <<store, client, fill, link, ends, orphan, work, hist>>

\* It then takes mtx and calls _push_queue_items.  Nothing catches what it throws.
PollPush(s) ==
  /\ MuxFree /\ awake[s] > 0
  /\ awake' = [awake EXCEPT ![s] = @ - 1]
  /\ IF PushThrows(queue, queue_pipelined)
     THEN /\ thrown' = thrown \cup {"pipelined"}
          /\ dead' = "terminate"
          /\ UNCHANGED <<queue, queue_pipelined, down, asleep>>
     ELSE /\ _push_queue_items(s, queue, queue_pipelined)
          /\ UNCHANGED <<thrown, dead>>
  /\ UNCHANGED <<store, present, state, current_keys, fill, open, clid, up, ends,
                 orphan, work, mirror>>

\* A thread whose Client_t is gone wakes up: it locks freed memory unless its
\* connection has been closed.
OrphanWake(s) ==
  /\ Alive /\ orphan[s] > 0
  /\ orphan' = [orphan EXCEPT ![s] = @ - 1]
  /\ dead' = IF open[s] THEN "dangling_client" ELSE dead
  /\ UNCHANGED <<store, client, fill, link, ends, asleep, awake, work, thrown, mirror>>

-----------------------------------------------------------------------------
(* Confirmations: the response handlers of set and del call on_confirm *)

\* A confirmation is read from a connection whose clid has been set.
Confirmation(s) == MuxFree /\ open[s] /\ clid[s] /\ up[s] > 0

TakeConfirmation(s) == up' = [up EXCEPT ![s] = @ - 1] /\ UNCHANGED <<open, clid>>

\* Mutant: the confirmations not read stay with the connection object.
CloseKeepsInput(s) ==
  /\ open' = [open EXCEPT ![s] = FALSE]
  /\ clid' = [clid EXCEPT ![s] = FALSE]
  /\ up' = up

\* release(): the connection object is cleared, the confirmations not read are lost.
Close(s) ==
  /\ open' = [open EXCEPT ![s] = FALSE]
  /\ clid' = [clid EXCEPT ![s] = FALSE]
  /\ up' = [up EXCEPT ![s] = 0]

\* No Client_t under this clid.
ConfirmStopped(s) ==
  /\ Confirmation(s) /\ ~present
  /\ TakeConfirmation(s)
  /\ UNCHANGED <<store, client, fill, down, ends, polls, work, hist>>

\* The checks at the head of on_confirm.  What the multiplexer thread throws closes
\* the connection it was serving.
ConfirmThrows(s) ==
  /\ Confirmation(s) /\ present
  /\ (IF state = "running" THEN queue ELSE current_keys) = <<>>
  /\ thrown' = thrown \cup {IF state = "running" THEN "empty_queue" ELSE "fail"}
  /\ Close(s)
  /\ UNCHANGED <<store, client, fill, down, ends, polls, work, dead, mirror>>

\* on_confirm while syncing: one portion confirmed, the next one sent.
ConfirmPortion(s) ==
  /\ Confirmation(s) /\ present /\ state = "syncing" /\ current_keys # <<>>
  /\ TakeConfirmation(s)
  /\ IF NextIsInvalid(current)
     THEN /\ dead' = "invalid_iterator"
          /\ current_keys' = Tail(current_keys)
          /\ UNCHANGED <<down, state>>
     ELSE /\ _push_next_portion(s, current, Tail(current_keys))
          /\ state' = AfterPortion(current)
          /\ UNCHANGED dead
  /\ UNCHANGED <<store, present, queue, queue_pipelined, fill, ends, polls, work,
                 thrown, mirror>>

\* Mutant: the first confirmation starts the update queue.
FinishAtOnce(s) ==
  /\ Confirmation(s) /\ present /\ state = "sync_finishing" /\ current_keys # <<>>
  /\ TakeConfirmation(s)
  /\ current_keys' = Tail(current_keys)
  /\ state' = "running" /\ _push_queue_items(s, queue, 0)
  /\ UNCHANGED <<store, present, fill, ends, awake, orphan, work, hist>>

\* on_confirm while sync_finishing: the last confirmation starts the update queue.
ConfirmFinishing(s) ==
  /\ Confirmation(s) /\ present /\ state = "sync_finishing" /\ current_keys # <<>>
  /\ TakeConfirmation(s)
  /\ current_keys' = Tail(current_keys)
  /\ IF Tail(current_keys) = <<>>
     THEN state' = "running" /\ _push_queue_items(s, queue, 0)
     ELSE UNCHANGED <<state, queue, queue_pipelined, down, asleep>>
  /\ UNCHANGED <<store, present, fill, ends, awake, orphan, work, hist>>

\* Mutant: the item still counts as sent.
ConfirmKeepsCount(s) ==
  /\ Confirmation(s) /\ present /\ state = "running" /\ queue # <<>>
  /\ ~PushThrows(Tail(queue), queue_pipelined)
  /\ _push_queue_items(s, Tail(queue), queue_pipelined)
  /\ TakeConfirmation(s)
  /\ UNCHANGED <<store, present, state, current_keys, fill, ends, awake, orphan, work, hist>>

\* on_confirm while running: the first item of the queue counts as applied.
ConfirmItem(s) ==
  /\ Confirmation(s) /\ present /\ state = "running" /\ queue # <<>>
  /\ IF PushThrows(Tail(queue), queue_pipelined - 1)
     THEN /\ queue' = Tail(queue)
          /\ queue_pipelined' = queue_pipelined - 1
          /\ thrown' = thrown \cup {"pipelined"}
          /\ Close(s)
          /\ UNCHANGED <<down, asleep>>
     ELSE /\ _push_queue_items(s, Tail(queue), queue_pipelined - 1)
          /\ TakeConfirmation(s)
          /\ UNCHANGED thrown
  /\ UNCHANGED <<store, present, state, current_keys, fill, ends, awake, orphan, work,
                 dead, mirror>>
-----------------------------------------------------------------------------
(* Replication::add_client, called once per connection by rep_setstate *)

Registration(s, modes) ==
  /\ MuxFree /\ open[s] /\ ~clid[s] /\ Mode \cap modes # {}
  /\ clid' = [clid EXCEPT ![s] = TRUE]

\* delete of the Client_t: its sleeping threads keep a pointer to it, and so do the
\* threads that are about to lock it, which no longer look where it points.
DeleteClient ==
  /\ orphan' = [s \in Slot |-> orphan[s] + asleep[s]]
  /\ asleep' = [s \in Slot |-> 0]
  /\ dead' = IF \/ \E s \in Slot : awake[s] > 0
                \/ \E w \in Worker : wpc[w] \in {"partial", "enqueue"}
             THEN "dangling_client" ELSE dead

\* Mutant: one portion too many.
StartOneMore(s) ==
  /\ Registration(s, IF present THEN {"start"} ELSE {"start", "auto"})
  /\ IF present THEN DeleteClient ELSE UNCHANGED <<orphan, asleep, dead>>
  /\ present' = TRUE
  /\ state' = "not_ready"
  /\ current_keys' = <<>> /\ queue' = <<>> /\ queue_pipelined' = 0
  /\ filling' = PipelineSize + 1 /\ fillConn' = s
  /\ UNCHANGED <<store, open, down, up, ends, awake, work, thrown, mirror>>

\* A client that starts afresh; what follows is SyncInitial.
SetStateStart(s) ==
  /\ Registration(s, IF present THEN {"start"} ELSE {"start", "auto"})
  /\ IF present THEN DeleteClient ELSE UNCHANGED <<orphan, asleep, dead>>
  /\ present' = TRUE
  /\ state' = "not_ready"
  /\ current_keys' = <<>>
  /\ queue' = <<>>
  /\ queue_pipelined' = 0
  /\ filling' = PipelineSize
  /\ fillConn' = s
  /\ UNCHANGED <<store, open, down, up, ends, awake, work, thrown, mirror>>

\* Mutant: what counted as sent on the last connection still does.
ContinueKeepsCount(s) ==
  /\ Registration(s, IF present THEN {"auto", "continue"} ELSE {"continue"})
  /\ present' = TRUE
  /\ state' = "running"
  /\ _push_queue_items(s, queue, queue_pipelined)
  /\ UNCHANGED <<store, current_keys, fill, open, up, ends, awake, orphan, work, hist>>

\* A client that goes on where it was, or a new one that is given no initial fill:
\* sync_queue sends the queue from its first item.
SetStateContinue(s) ==
  /\ Registration(s, IF present THEN {"auto", "continue"} ELSE {"continue"})
  /\ present' = TRUE
  /\ state' = "running"
  /\ _push_queue_items(s, queue, 0)
  /\ UNCHANGED <<store, current_keys, fill, open, up, ends, awake, orphan, work, hist>>

SetStateStop(s) ==
  /\ Registration(s, {"stop"})
  /\ IF present THEN DeleteClient ELSE UNCHANGED <<orphan, asleep, dead>>
  /\ present' = FALSE
  /\ state' = "not_ready"
  /\ current_keys' = <<>>
  /\ queue' = <<>>
  /\ queue_pipelined' = 0
  /\ UNCHANGED <<store, fill, open, down, up, ends, awake, work, thrown, mirror>>

-----------------------------------------------------------------------------
(* Connections *)

\* The previous connection is closed and none of its threads is left.
Settled == \A s \in Slot : ~open[s] /\ asleep[s] = 0 /\ awake[s] = 0 /\ orphan[s] = 0

\* The slave's reconnect loop connects; rserver takes the first free object.
Accept(s) ==
  /\ MuxFree /\ at = 0 /\ conns < MaxConn
  /\ ~open[s] /\ \A t \in Slot : open[t] \/ s <= t
  /\ Orderly => Settled
  /\ open' = [open EXCEPT ![s] = TRUE]
  /\ at' = s
  /\ conns' = conns + 1
  /\ UNCHANGED <<store, client, fill, clid, down, up, polls, work, hist>>

\* The master learns that the peer is gone, or gives the connection up itself.
MasterClose(s) ==
  /\ MuxFree /\ open[s] /\ (at = s => conns < MaxConn)
  /\ Close(s)
  /\ UNCHANGED <<store, client, fill, down, ends, polls, work, hist>>

\* The slave loses the connection, or sees that the master closed it.
SlaveLeave ==
  /\ Alive /\ at # 0 /\ (open[at] => conns < MaxConn)
  /\ down' = [down EXCEPT ![at] = <<>>]
  /\ at' = 0
  /\ UNCHANGED <<store, client, fill, open, clid, up, conns, polls, work, hist>>

\* The slave runs the first request through its own set or del handler and answers.
SlaveApply ==
  /\ Alive /\ at # 0 /\ down[at] # <<>>
  /\ slave' = Apply(slave, Head(down[at]))
  /\ down' = [down EXCEPT ![at] = Tail(@)]
  /\ up' = IF open[at] THEN [up EXCEPT ![at] = @ + 1] ELSE up
  /\ UNCHANGED <<db, client, fill, open, clid, ends, polls, work, hist>>

-----------------------------------------------------------------------------
(* The set and del handlers in the pool threads *)

Begin(w, c) ==
  /\ Alive /\ wpc[w] = "idle" /\ cmds < MaxCmd
  /\ wpc' = [wpc EXCEPT ![w] = "put"]
  /\ todo' = [todo EXCEPT ![w] = DOMAIN c]
  /\ cmd' = [cmd EXCEPT ![w] = c]
  /\ cmds' = cmds + 1
  /\ UNCHANGED <<store, client, fill, link, ends, polls, hist>>

\* One Put or Delete.
Put(w, k) ==
  /\ Alive /\ wpc[w] = "put" /\ k \in todo[w]
  /\ db' = [db EXCEPT ![k] = cmd[w][k]]
  /\ todo' = [todo EXCEPT ![w] = @ \ {k}]
  /\ UNCHANGED <<slave, client, fill, link, ends, polls, wpc, cmd, cmds, hist>>

\* _send_to_clients reads the client's state, without mtx.
SendToClients(w) ==
  /\ Alive /\ wpc[w] = "put" /\ todo[w] = {}
  /\ wpc' = [wpc EXCEPT ![w] = IF present /\ DOMAIN cmd[w] # {} /\ state = "running"
                               THEN "enqueue"
                               ELSE IF present /\ DOMAIN cmd[w] # {} /\ state = "syncing"
                               THEN "partial" ELSE "idle"]
  /\ UNCHANGED <<store, client, fill, link, ends, polls, todo, cmd, cmds, hist>>

\* It reads current(), without mtx, and keeps the keys the fill has gone past.
Partial(w) ==
  /\ Alive /\ wpc[w] = "partial"
  /\ LET S == {k \in DOMAIN cmd[w] : k < current}
     IN  /\ cmd' = [cmd EXCEPT ![w] = Restrict(@, S)]
         /\ wpc' = [wpc EXCEPT ![w] = IF S = {} THEN "idle" ELSE "enqueue"]
  /\ UNCHANGED <<store, client, fill, link, ends, polls, todo, cmds, hist>>

\* Client_t::enqueue.
Enqueue(w) ==
  /\ MuxFree /\ wpc[w] = "enqueue"
  /\ queue' = Append(queue, cmd[w])
  /\ mirror' = Apply(mirror, cmd[w])
  /\ wpc' = [wpc EXCEPT ![w] = "idle"]
  /\ UNCHANGED <<store, present, state, current_keys, queue_pipelined, fill, link, ends,
                 polls, todo, cmd, cmds, thrown, dead>>

-----------------------------------------------------------------------------
Init ==
  /\ db = Db0 /\ slave = Slave0 /\ mirror = Slave0
  /\ present = FALSE /\ state = "not_ready" /\ current_keys = <<>>
  /\ queue = <<>> /\ queue_pipelined = 0
  /\ filling = 0 /\ fillConn = 0
  /\ open = [s \in Slot |-> FALSE] /\ clid = [s \in Slot |-> FALSE]
  /\ down = [s \in Slot |-> <<>>] /\ up = [s \in Slot |-> 0]
  /\ at = 0 /\ conns = 0
  /\ asleep = [s \in Slot |-> 0] /\ awake = [s \in Slot |-> 0]
  /\ orphan = [s \in Slot |-> 0]
  /\ wpc = [w \in Worker |-> "idle"] /\ todo = [w \in Worker |-> {}]
  /\ cmd = [w \in Worker |-> [k \in {} |-> Nil]] /\ cmds = 0
  /\ thrown = {} /\ dead = "no"

Confirm(s) ==
  \/ ConfirmStopped(s) \/ ConfirmThrows(s) \/ ConfirmPortion(s)
  \/ ConfirmFinishing(s) \/ ConfirmItem(s)

SetState(s) == SetStateStart(s) \/ SetStateContinue(s) \/ SetStateStop(s)

WorkerStep(w) == SendToClients(w) \/ Partial(w) \/ Enqueue(w) \/ \E k \in Key : Put(w, k)

Next ==
  \/ SyncInitial \/ SlaveLeave \/ SlaveApply
  \/ \E s \in Slot : \/ PollWake(s) \/ PollPush(s) \/ OrphanWake(s)
                     \/ Confirm(s) \/ SetState(s) \/ Accept(s) \/ MasterClose(s)
  \/ \E w \in Worker : WorkerStep(w) \/ \E c \in Cmd : Begin(w, c)

Spec == Init /\ [][Next]_vars

-----------------------------------------------------------------------------
(* Properties *)

StoreType == db \in Content /\ slave \in Content

ClientType ==
  /\ present \in BOOLEAN /\ state \in State
  /\ current_keys \in Seq(Key \cup {0})
  /\ queue \in Seq(Item) /\ queue_pipelined \in Int

FillType == filling \in 0..PipelineSize /\ fillConn \in Slot \cup {0}

LinkType ==
  /\ open \in [Slot -> BOOLEAN] /\ clid \in [Slot -> BOOLEAN]
  /\ down \in [Slot -> Seq(Item)] /\ up \in [Slot -> Nat]

EndsType == at \in Slot \cup {0} /\ conns \in Nat

PollType == asleep \in [Slot -> Nat] /\ awake \in [Slot -> Nat] /\ orphan \in [Slot -> Nat]

WorkType ==
  /\ wpc \in [Worker -> {"idle", "put", "partial", "enqueue"}]
  /\ todo \in [Worker -> SUBSET Key] /\ cmd \in [Worker -> Item] /\ cmds \in Nat
  /\ \A w \in Worker : wpc[w] = "put" => todo[w] \subseteq DOMAIN cmd[w]

HistType ==
  /\ thrown \subseteq Error
  /\ dead \in {"no", "invalid_iterator", "terminate", "dangling_client"}
  /\ mirror \in Content

\* Every variable has its type: what the handlers and threads do to the Client_t, the
\* connections and the stores always makes sense.
TypeOK ==
  /\ StoreType /\ ClientType /\ FillType /\ LinkType
  /\ EndsType /\ PollType /\ WorkType /\ HistType

\* on_confirm, on_confirm's checks and _push_queue_items never meet the states their
\* logic_errors describe ("fail", "fail: empty queue but something returned",
\* "fail: Y R U PIPELINED?"), in any thread.
NeverThrows == thrown = {}

\* The first check of on_confirm ("fail") never fires: while the initial fill goes on
\* there is a key in current_keys for every confirmation that can still arrive,
\* whatever connections come and go.
FillNeverFails == "fail" \notin thrown

\* The check of on_confirm while running, as its message has it: a confirmation never
\* returns when the queue is empty.
NothingReturnsToEmptyQueue == "empty_queue" \notin thrown

\* _push_queue_items never counts more than PipelineSize items as sent, nor more than
\* the queue holds, however confirmations, reconnections and threads interleave.
PipelineBound == queue_pipelined <= PipelineSize /\ queue_pipelined <= Len(queue)

\* While the client is running on a connection, what is on its way to the slave is
\* exactly the sent part of the queue that the slave has not applied, in queue order;
\* the rest of the sent part has been applied and its confirmations are on their way.
Window ==
  \A s \in Slot :
    open[s] /\ clid[s] /\ present /\ state = "running" =>
      IF at = s
      THEN /\ up[s] + Len(down[s]) = queue_pipelined
           /\ \A i \in 1..Len(down[s]) : down[s][i] = queue[up[s] + i]
      ELSE up[s] <= queue_pipelined

\* A key that no queued item mentions has, on the slave, the value that replaying every
\* item enqueued so far gives it: on_confirm drops no item before the slave has applied
\* it, and resending the queue after a reconnection never leaves an older value behind.
Converged ==
  \A k \in Key :
    (\A i \in 1..Len(queue) : k \notin DOMAIN queue[i]) => slave[k] = mirror[k]

\* Once the client is running the initial fill is over (_sync_queue): every key of the
\* master that no command ever touches is on the slave with its value.
FillComplete ==
  present /\ state = "running" =>
    \A k \in Live : (\A c \in Cmd : k \notin DOMAIN c) => slave[k] = db[k]

-----------------------------------------------------------------------------
(* What makes the properties inductive *)

\* While the fill goes on there is a key for every portion that has been sent, and the
\* client is never left in the state it is created in.
FillKeys ==
  Alive =>
    /\ filling > 0 => /\ present /\ fillConn \in Slot
                      /\ Len(current_keys) = PipelineSize - filling
    /\ filling = 0 /\ state \in {"syncing", "sync_finishing"} => current_keys # <<>>
    /\ filling = 0 /\ present => state # "not_ready"

\* One connection at a time: the slave reads the one the master has open.  What has
\* been closed, or is not read, carries nothing.
OneConnection ==
  \A s \in Slot :
    /\ \A t \in Slot : open[s] /\ open[t] => s = t
    /\ open[s] /\ at # 0 => at = s
    /\ ~open[s] => up[s] = 0 /\ ~clid[s]
    /\ at # s => down[s] = <<>>

\* A connection without rep_setstate carries nothing and has no threads around; the
\* initial fill runs on a registered one, and the client is not running before its end.
FreshIsQuiet ==
  /\ \A s \in Slot : open[s] /\ ~clid[s] =>
       /\ up[s] = 0 /\ down[s] = <<>>
       /\ \A t \in Slot : asleep[t] = 0 /\ awake[t] = 0
  /\ filling > 0 => open[fillConn] /\ clid[fillConn] /\ state # "running"

\* The detached threads belong to a running client and to the connection that is open.
ThreadsFollow ==
  \A s \in Slot : asleep[s] > 0 \/ awake[s] > 0 =>
    /\ present /\ state = "running" /\ filling = 0
    /\ \A t \in Slot : open[t] => t = s

\* While the client is being filled, there is a key for every portion that the slave
\* has still to confirm; while there is no client nothing is under way.
FillWindow ==
  \A s \in Slot : open[s] /\ clid[s] =>
    /\ present /\ state # "running" => up[s] + Len(down[s]) <= Len(current_keys)
    /\ ~present => up[s] = 0 /\ down[s] = <<>>

\* The mirror of a key is what the last queued item that mentions it says.
MirrorIsLast ==
  \A k \in Key : \A i \in 1..Len(queue) :
    k \in DOMAIN queue[i] /\ (\A j \in (i + 1)..Len(queue) : k \notin DOMAIN queue[j]) =>
      mirror[k] = queue[i][k]

\* The slave's value of a key is what the last item it has applied and not yet seen
\* confirmed says.
SlaveIsApplied ==
  \A s \in Slot : open[s] /\ clid[s] =>
    \A k \in Key : \A i \in 1..up[s] :
      k \in DOMAIN queue[i] /\ (\A j \in (i + 1)..up[s] : k \notin DOMAIN queue[j]) =>
        slave[k] = queue[i][k]

\* What the slave still reads from a connection the master has closed is in the queue.
LeftoversAreQueued ==
  at # 0 /\ ~open[at] =>
    \A i \in 1..Len(down[at]) : \E j \in 1..Len(queue) : down[at][i] = queue[j]

-----------------------------------------------------------------------------
(* Fairness: every thread that can go on goes on, the peer's side of a closed     *)
(* connection is noticed, and the slave's loop reconnects.  Nothing obliges a     *)
(* connection to break or a command to arrive.                                    *)
Fairness ==
  /\ WF_vars(SyncInitial) /\ WF_vars(SlaveApply)
  /\ WF_vars(at # 0 /\ ~open[at] /\ SlaveLeave)
  /\ \A s \in Slot :
       /\ WF_vars(PollWake(s)) /\ WF_vars(PollPush(s)) /\ WF_vars(OrphanWake(s))
       /\ WF_vars(Confirm(s)) /\ WF_vars(SetState(s)) /\ WF_vars(Accept(s))
       /\ WF_vars(at # s /\ MasterClose(s))
  /\ \A w \in Worker : WF_vars(WorkerStep(w))

FairSpec == Spec /\ Fairness

\* Every update that has been queued is confirmed by the slave in the end: the thread
\* of _schedule_queue, on_confirm and a reconnection hand the sending on to one another
\* and never leave a non-empty queue with nobody to send from it.
Drains == (queue # <<>>) ~> (queue = <<>>)
=============================================================================
