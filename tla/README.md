# TLA+ verification of leveldb-daemon

leveldb-daemon is a network front end of the LevelDB key-value store that speaks
JSON-RPC, runs its methods in pools of threads and replicates its writes to slaves. It is
built on the template library `fas`, which is part of the repository. This directory holds
a TLA+ model of both, the TLC runs that check the model on small instances, and TLAPS
proofs that hold for every value of the constants.

`PROJECT.json` is the machine-readable index: components, runs, mutants (the small
changes of a definition that a property must notice), the map from definitions to source
lines, findings, hazards and theorems.

## 1. The system and its parts

| part | source (under `src/`) | modules |
|---|---|---|
| replication, master and slave | `src/replication.hpp`, `src/fas_methods.hpp`, `src/daemon.cpp` | `Replication` |
| storage methods and key locks | `src/fas_methods.hpp`, `src/db.hpp` | `Methods`, `Commands`, `AtomicStore`, `Reads` |
| start of the daemon, its threads, the reconnect loop | `src/daemon.cpp`, `common/udp.hpp`, `common/multiserver.hpp` | `Daemon` |
| request queues and pool threads | `common/multiserver.hpp` | `MultiServer` |
| spin locks | `common/lock_atomic.hpp` | `SpinLocks` |
| statistics | `common/fas_statistics.hpp`, `fas/misc/stat.hpp`, `fas/adv/ad_clock.hpp` | `Statistics` |
| multiplexer, connections, pool, server, client | `fas/mux`, `fas/filter`, `fas/inet` | `Epoller`, `MuxFilter`, `NetworkOps`, `Network`, `Selector`, `MtServer` |
| descriptors and system calls | `fas/system/inet.hpp`, `fas/adv/io` | `Sockets`, `BufferedRead`, `SmartWrite`, `Splitter` |
| JSON-RPC | `fas/adv/json_rpc3` | `JsonRpc` |
| JSON values | `fas/misc/json`, `src/strvalue.hpp`, `src/aj_pairvector.hpp` | `Json` |
| aspects and type lists | `fas/aop`, `fas/pattern`, all `*aspect*.hpp` | `TypeLists`, `Aspects`, `Wiring` |
| locks on every path of calls | all of the above | `CallGraph`, `Locks` |
| observers | `fas/pattern/observer.hpp` | `Observer` |
| library parts the daemon does not use | `fas/misc/command`, `fas/adv/http`, `fas/util/memcached`, `fas/util/amf`, `fas/misc/serialization`, `fas/misc/phpser` | `CommandFlow`, `Http`, `Memcached`, `Amf`, `AmfValues`, `Serialization`, `PhpSer` |

How they interact: a request arrives on a connection of the multiserver, is queued for
the pool of its method and run by a pool thread. `set` and `del` write the store and then
hand the command to every replication client, which queues it. The rserver, served by one
multiplexer thread, sends queued items to the slave as ordinary `set` and `del` requests,
at most `pipeline_size` ahead of their confirmations. The slave runs them through its own
handlers and answers; the answers come back as the *responses* of `set` and `del`, which
call `on_confirm`. When the queue is empty, a detached thread sleeps for a millisecond
and tries again. A new slave may ask for an initial fill ("start", "auto"), which sends
the whole store in portions; the daemon's own loop always asks to "continue".

What makes it hard: three kinds of threads touch a `Client_t`; part of its state is read
without the mutex; confirmations carry no identity; a connection object is reused by
address while threads still refer to it; a slave may reconnect before the master has
noticed that the old connection is gone; which function a call reaches is decided by lists
of advices at compile time, and with it which lock it takes. The hazards this leads to are
listed in `PROJECT.json`, each at the line where it bites.

## 2. The modules

A component module has the component's state, actions and properties, and the mutants of
its definitions. An `MC` module gives the constants their values. Three `MC` modules hold
several components that have nothing to do with each other: a behaviour of theirs is a
behaviour of one of them, named by the variable `part`, and they take turns in one set of
variables.

| module | instantiates |
|---|---|
| `MCReplication` | `Replication` |
| `MCMethods` | `Methods` (over `Commands`, against `AtomicStore`) |
| `MCServices` | `JsonRpc`, `Splitter`, `BufferedRead`, `SmartWrite`, `Statistics`, `SpinLocks`, `Observer`, `MtServer`, `Selector`, `Reads`, `Daemon` |
| `MCLibrary` | `Locks` (over `CallGraph`, `Wiring`, `Aspects`, `TypeLists`), `Sockets`, `CommandFlow`, `Http`, `Memcached`, `Amf` |
| `MCAlgorithms` | `TypeLists`, `Aspects`, `Json`, `AmfValues`, `Serialization`, `PhpSer` |

`MultiServer` and `Network` (over `NetworkOps`, `MuxFilter`, `Epoller`) need no such module: their
configs give every constant its value.

Proofs are in `ReplicationProofs`, `OrderlyProofs`, `StreamProofs`, `MethodsProofs`,
`MultiServerInvariant`, `MultiServerProofs` and `SpinLocksProofs`, and in `Locks` itself.

`Replication` and `Methods` overlap in `set` and `del`. `Replication` follows what these
hand to one `Client_t`, message by message; `Methods` follows all writing methods among
themselves and keeps of replication only the order of the hand-overs (`mirror`).

### Replication: state

One slave id is modelled: the clients of one master share nothing but the store. Keys are
numbers in LevelDB's order (0 is the empty string), values are model values, and a
command, a portion and a queued item are all functions from some keys to values or to
`Nil` (delete): what a serialised `set` or `del` does when it is applied.

| variables | code |
|---|---|
| `db`, `slave` | the LevelDB of the master and of the slave |
| `present`, `state`, `current_keys`, `queue`, `queue_pipelined` | the `Client_t` and whether `repClients` has it |
| `filling`, `fillConn` | `sync_initial` in progress: portions left, and its connection; `mtx` is held and the multiplexer thread is busy |
| `open`, `clid`, `down`, `up` | the connection objects of rserver, by address: status, whether `rep_setstate` has set `clid`, requests under way, confirmations under way |
| `at`, `conns` | the connection the slave reads, and how many it has made |
| `asleep`, `awake`, `orphan` | the threads of `_schedule_queue` by connection: in `usleep`, past `get_status()`, asleep with a deleted `this` |
| `wpc`, `todo`, `cmd`, `cmds` | the pool threads inside `set` or `del` |
| `thrown`, `dead`, `mirror` | history: the `logic_error`s thrown, how the process ended, and the result of replaying everything enqueued |

### Replication: actions

`SyncInitial` is one round of the loop of `sync_initial`. `Confirm*` are the branches of
the response handlers and of `on_confirm`. `SetState*` are the branches of `add_client`.
`PollWake` and `PollPush` are the two halves of the detached thread, with `get_status()`
before `mtx` is taken. `OrphanWake` is that thread after its client was deleted. `Begin`,
`Put`, `SendToClients`, `Partial` and `Enqueue` are the steps of a pool thread in `set` or
`del`: each `Put` is a step, then the state is read without `mtx`, then `current()` is read
without `mtx`, then the item is enqueued under `mtx`. `Accept`, `MasterClose`,
`SlaveLeave` and `SlaveApply` are the connection and the slave.

Granularity. What runs under `mtx` is one step, except `sync_initial`, whose portions read
a store that other threads write meanwhile. `add_client` assigns `state = running` just
before it takes `mtx`; the model takes both in one step. An exception thrown in the
multiplexer thread closes the connection it was serving; one thrown in a detached thread
ends the process (`dead = "terminate"`). Undefined behaviour (`Next()` on an invalid
iterator, a lock in freed memory) also ends the run, with its own value of `dead`, and
nothing is claimed about what follows.

Overlap. When `Orderly` is TRUE, the slave's next connection is accepted only after the
master has closed the last one and its threads have left. The code does not enforce this:
it holds when the master notices a closed connection, and the sleeping thread wakes,
before the slave's loop comes back. With `Orderly` FALSE connections overlap freely. Which
properties need it is part of what the project shows.

### Commands and AtomicStore

A stored value is `[int |-> n]` (the text of an integer), `[packed |-> f]` (the text of a
JSON object, the structure of `update_packed`) or `Text` (a text that parses as neither).
`Stored` is the value a method writes; `IncAdded` and `Repacked` are `inc_add` and
`update_packed`, whose parse errors are caught and replaced by 0 or by the defaults;
`Throws` is `inc`, whose parse error is not caught; `LeavesAlone` is `add` on a key that is
there and `inc` on one that is not. `AtomicStore` has one action, `Change`: some request
reads one of its keys and writes what it stores there, in one step.

### Methods: state and actions

| variables | code |
|---|---|
| `db` | the LevelDB of this daemon |
| `held` | who holds each lock of `LockManager`; `Hash` is `hash(key) % 1024` |
| `pc`, `cmd`, `todo`, `key`, `seen`, `repl` | the locals of a method in its thread: position, request, keys left, current key, result of `Get`, what will be given to `replication.set` or `del` |
| `mirror` | history: the first store with everything handed to replication applied |
| `dead` | an exception has left a pool thread, which ends the process |
| `reqs` | requests begun |

`Begin` enters a method. `Write` is one round of the loop of `set` or `del`: no lock, and
the key is handed on whether or not the write succeeded. `Acquire`, `Get`, `Put`,
`Release` are one round of the locking methods; `Packed_replicate` is the
`replication.set` that `update_packed` does under the lock; `Finish` is the hand-over of
all the others, after the loop. The order in which a request goes through its keys is
left open.

### Reads

`get` asks the store for one key after the other while other threads write. `get_range`
makes an iterator, which LevelDB keeps on the store as it is at that moment, and walks it
with `from`, `to`, `limit` and `skip`; its sums wrap at `IntLimit`, which stands for the
32-bit limit.

### MultiServer

| variables | code |
|---|---|
| `conn`, `active`, `pooled`, `freed` | connection objects (`_released`, the session served, the holder of the mutex) and the sets of their pool |
| `requests`, `mtx` | `ad_invoke_first::requests` and its spin lock, by connection |
| `req` | `json_rpc_req`: client, lock, whether it is allocated, kind, session |
| `queue`, `proc` | the queue of a pool; position and locals of each thread |
| `dead` | a deleted request was touched: nothing is claimed afterwards |

The front thread accepts (`Accept`, `Assign`, `Assigned`), reads and queues (`Receive`,
`Insert`, `PushQueue`) and notices closed peers (`Hangup`, `HungUp`). A pool thread goes
through `TryPop`, `Peek`, `Lock`, `Check`, `WriteAnswer`, `DeleteRequest`, `Clean`, `Delete`; a
sending that fails makes it release the connection under the mutex (`WriteFails`, `Sent`).
Either may release a connection (`ReleaseTest`, `ReleaseMark`, `ReleaseFree`) and so
run `clear()`, whose rounds are `ClearLock`, `ClearKeep`, `ClearDrop`, `ClearUnlock` and
`ClearRound`. Every lock that is taken or tried is a step of its own.

### Network, NetworkOps, MuxFilter, Epoller

The state is one record `s`: the kernel's sockets and interest list, `_handlers` of the
epoller, the connection objects with their buffers and flags (`_mux_read`, `_mux_write`,
`_swh_count`, `_released`), the sets of the pool, the server and the client. Each public
method is an operator from state to state, composed as the code composes its layers. An
action of `Network` is such a call: by the thread that runs `select` (`Wait` fetches a
batch of events, `Next1` and `Dispatch*` handle one, `Caught` is the handler of exceptions),
by other threads (`App*`), by `stop` (`StopFirst`, `StopSecond`, `StopLast`; `StopThrows` is
an exception of its `select`, which nothing catches), or an act of a
peer. Events of a batch are handled one by one, so that one of them may end the session
another is about and give its descriptor to a new one.

`release(false)` of a pool thread takes no mutex and is no single call: `ReleaseTest`,
`ReleaseMark`, `ReleaseRead`, `ReleaseWrite`, `ReleaseClose` and `ReleaseFree` are its
statements, and the thread that runs `select`, its `stop` and other pool threads act between
any two of them, also for the next peer of the object. Two threads that both find `_released`
false end one object twice; that state is `Torn`, and nothing is claimed after it
(`MultiServer` goes on from there, with the exception of the pool). The reverse, a step of
such a release inside one call of the `select` thread, and the races of both on the memory of
`epoller`, which has no mutex, are not modelled. `files` is the limit on descriptors: `accept` throws
when it is reached, `connect` fails.

### Daemon

`opt` are the options, `main`, `srv` and `aux` where the threads are, `up` the sockets that
are bound, `over` how the process ended. Each step of `main()`, of `server_tcp` and of
`multiserver::start` is an action that may fail in the ways the code allows; the reconnect
loop is `client_connect`, `Select` and `Disconnect`.

### Wiring, CallGraph, Locks

`Aspects` says what the templates of `fas/aop` do with lists of advices (the last advice
with a tag wins, groups collect). `Wiring` are the lists of the daemon and of the library,
merged with those rules, for each kind of object. `CallGraph` has one tuple per method:
the lock its body holds and the calls it makes, and `Situations`, what a thread can hold where on
any path. `Locks` lets threads go down a call graph from its entries, taking the locks on the
way; `at`, `held` and `waits` say where each thread is, what it holds and whether it waits.
`MCLibrary` gives it the daemon's graph.

### The services of `MCServices` and the parts of `MCLibrary`

`JsonRpc`: both ends of a connection with their ids, the messages on the wire, answers
that come at once, later or never, a connection that is dropped and comes back with the ids of
the methods that are not cleaned. `Splitter`, `BufferedRead`, `SmartWrite`: bytes in blocks of any
size. `Statistics`: marks and spans of threads that share one record, beside the true times.
`SpinLocks`: every load, exchange and increment of `multispinlock`. `Observer`, `MtServer`, `Selector`:
handlers that change what is being walked, descriptors handed to child threads, a `select` whose
handlers change its tables. `Sockets`: system calls with every answer they may give. `CommandFlow`:
commands through their processors and wait lists.

`Http`, `Memcached`, `Amf`: a writer and a reader with a stream between them, in blocks that are
cut anywhere. The readers have errors of their own, which are in the model, and they read on
after them. An HTTP reader that meets the length of a chunk cut in two takes nothing in any more
(`Deaf`), and one that finds more in the block behind a message without a body, or behind a last
chunk, loses its place (`strayed`). A memcached server drops a
word that is cut in two and keeps the keys of one `get` for the next; its client misses an `END`
that is cut. The AMF receiver forgets bytes of a chunk that is cut, and then takes bytes of the
middle of a message for the start of one.

### Algorithms

`TypeLists`, `Aspects`, `Json`, `AmfValues`, `Serialization` and `PhpSer` are operators. Texts
are sequences of byte codes, a type is a record that says which template describes it, and
the operators are the functions of those templates. `MCAlgorithms` grows an input piece by
piece, and its invariants compare the result with a reference in every state.

## 3. The runs

| run | module, config | checks |
|---|---|---|
| `stream` | `MCReplication`, `MCStream.cfg` | `Converged`, `Window`, `Drains` |
| `disorder` | `MCReplication`, `MCDisorder.cfg` | `TypeOK`, `FillNeverFails`, `PipelineBound` |
| `fill` | `MCReplication`, `MCFill.cfg` | `FillComplete`, `NeverThrows` |
| `stale_confirm` | `MCReplication`, `MCStaleConfirm.cfg` | `NothingReturnsToEmptyQueue`: violated |
| `fill_delete` | `MCReplication`, `MCFillDelete.cfg` | `FillComplete`: violated |
| `methods` | `MCMethods`, `MCMethods.cfg` | `TypeOK`, `NoLostUpdate`, `HandedOnInOrder`, `AtomicPerKey`, `Finishes` |
| `lost_update` | `MCMethods`, `MCLostUpdate.cfg` | `UpdateIsAtomic`: violated |
| `multiserver` | `MultiServer`, `MCMultiServer.cfg` | `Linked`, `StartsAtHome`, `Finishes` |
| `network` | `Network`, `MCNetwork.cfg` | `Registered`, `Owned`, `InOrder`, `Rests`, `Flushed`, `StopEnds` |
| `services` | `MCServices`, `MCServices.cfg` | `AnswersItsCall`, `CallsEnd`, `BytesKeepOrder`, `StatsOfMethod`, `OneWriter`, `EveryoneIsServed`, `ReadsSeeStore`, `ReadyBeforeServing`, `AllOrNothing`, `SlaveReturns` |
| `library` | `MCLibrary`, `MCLibrary.cfg` | `NoCircularWait`, `WritesUnderLock`, `StatusIsTrue`, `TargetsInOrder`, `PeersUnderstand` |
| `algorithms` | `MCAlgorithms`, `MCAlgorithms.cfg` | `ListsAndAspects`, `JsonReadsBack`, `ValuesReadBack` |

Each is run with `tlc -config <config> <module>`.

### What the properties say

Replication:

* `Converged`: the slave's store is the replay of everything enqueued, up to the items
  still in the queue. An item leaves the queue only after the slave has applied it, and
  sending the queue again never leaves an older value behind.
* `Window`: what is under way on the connection of a running client is the part of the
  queue that counts as sent and is not yet applied, in order, with one confirmation under
  way for the rest of the sent ones. This is what makes "pop the head of the queue" right.
* `NeverThrows`: none of the three `logic_error`s of `Client_t` is ever thrown.
* `PipelineBound`: never more than `pipeline_size` items, nor more than the queue holds,
  count as sent. `FillNeverFails`: the first check of `on_confirm` never fires. Both hold
  even when connections overlap.
* `FillComplete`: when the client is running, every key that no command touches is on the
  slave.
* `Drains`: every queued update is confirmed in the end.

Methods:

* `NoLostUpdate`: what a method's `Get` returned is still there when its `Put` runs, on
  every key that no `set` or `del` names.
* `AtomicPerKey`: on those keys `Methods` implements `AtomicStore`.
* `HandedOnInOrder`: a key that only `update_packed` writes, and no thread is about to hand
  on, has the same value in the store and in what replication was given.
* `Finishes`: every request ends, or the process has ended by an exception.

MultiServer:

* `Linked`: a connection's set names only requests that are allocated and point back at it,
  and every request that points at a connection is in its set, apart from those a `clear()`
  or a `delete_request()` in progress is about. So `clear()` locks nothing in freed memory
  and misses nothing.
* `StartsAtHome`: a thread takes up a request only while the connection object serves the
  session that sent it.
* `Finishes`: every queued request is run or dropped, and deleted.

Network:

* `Registered`: `_mux_read`, `_mux_write` and `_swh_count` of an object, `_handlers` of the
  epoller and the kernel's interest list agree, a released object is registered nowhere, one
  that holds data waits for its descriptor, and the exceptions that report a broken
  registration are never thrown.
* `Owned`: no descriptor leaks and the pool hands out no object in use.
* `InOrder`: a peer receives what was written to its session, in order and nothing else.
* `Rests`, `Flushed`, `StopEnds`: the thread does not spin, what is held back is sent or its
  session ends, and `stop()` ends. The exceptions the code has are named in them: out of
  descriptors, the thread spins on the listening socket and may pass over other events;
  `stop()` is given up when the client on the same multiplexer throws, and waits in `select(-1)`
  for ever when a pool thread frees the last object meanwhile and nothing else happens.

All six hold until two threads have passed the test of `_released` together (`Torn`).

Services, library, algorithms: each property is a conjunction over the parts, and the comment
beside it names the modules with the parts.

* `AnswersItsCall`: an answer reaches the method that called, apart from one case: a method that is
  not cleaned has kept the id from an earlier session. `CallsEnd`: a call whose handler answers comes to
  its end, by the answer or with the connection.
* `BytesKeepOrder`: framing, reading and writing in blocks of any size.
* `StatsOfMethod`: with one thread the record of a method has the true times of its calls, but for
  those the clock measures wrongly, which are off by less than a second; with two, no span is counted
  twice and no method has more spans than calls.
* `ReadyBeforeServing`, `AllOrNothing`, `SlaveReturns`: the start of the daemon and the slave's reconnect
  loop.
* `NoCircularWait`: no threads wait for each other in a circle.
* `WritesUnderLock`: a connection several threads use has at most two writers at once, one under its
  mutex and one under the mutex of its replication client; and each message is framed once. That the
  two may be there at once is what the code does (`replication.hpp:108`).
* `PeersUnderstand`: an HTTP reader that has not strayed reports what was sent, in order and nothing
  but the end of a message twice, and all of it unless it is deaf; a memcached server understands no command that
  was not sent, none twice and none out of order, passes one over only after a word was cut, and its
  client has the server's answers until an `END` is cut; what an AMF peer handles before it has lost
  bytes are the calls of the other side, and each result goes to its call.
* `ValuesReadBack`: values of AMF and PHP serialization, for the texts its parts name; the older of the
  two readers of PHP's format refuses every text with a boolean.

The run `library` also evaluates `DisciplineAssumption`, the assumption of the theorems about
`Locks` (section 4), on the 655 situations a thread of the daemon can be in: it is about
the whole call graph and no particular number of threads.

### Findings

Each is recorded in `PROJECT.json` with the line of the code or the text it contradicts.

* `stale_confirm`: confirmations of two connections are counted against one queue. After a
  reconnection that the master has not noticed, the last of them finds the queue empty,
  which the code's own check says cannot be.
* `fill_delete`: when the key a portion ended with is deleted before the next portion, `Seek`
  stops at its successor and `Next` steps over it, so that a live key is never sent.
* `lost_update`: `set` takes no key lock, so an `update_packed` that has read the key before
  overwrites it, although the README calls `update_packed` atomic.

### What the code does not promise

These were met while modelling. No text of the repository says otherwise, so they are no
findings; the properties are stated so that they hold beside them.

* A slave that reconnects with "auto" or "continue" during its fill becomes running, and
  the rest of the fill is never sent (`FillComplete` is checked for "start" and "stop").
* With overlapping connections the check of `_push_queue_items` fires too.
* `clear()` unlinks a request and then unlocks it. A pool thread that looks at the client in
  between deletes the request under it; the model ends there (`dead`).
* A pool thread that refuses a request calls `release(false)` without the connection's
  mutex, and may end the session of the object's next peer; together with a release of the front
  thread it may end and free the object twice, which the pool reports by an exception.
* `stop()` of a server is not left by the exceptions of `select` in good order, and may wait
  for an object that is freed already (`StopEnds`). The daemon never calls it.
* `multispinlock`: a reader that has tested `wvalue` and not yet been counted is inside with
  a writer.
* Only `rep_setstate` is cleaned when a connection object is reused; `set` and `del` keep the
  ids they wait for, while the counter of ids starts again. A `set` that has kept an id takes the
  answer of a `del` with that id, and when it cannot read it the connection is dropped.
* A handler that returns false is not answered: `get_range` does so for a limit it refuses.
* `get_span` subtracts microseconds the wrong way round; and two threads that mark and measure at once
  count a span for the other's method, or not at all.
* An answer and the detached thread of `_schedule_queue` write to one connection at once
  (`WritesUnderLock`).
* A `Get` that fails is taken for a key that is not there: after an error of reading, `add`, `inc_add` and
  `update_packed` would overwrite what is stored. The stores of the model have no such errors.
* A server at its limit of connections refuses all others from then on: freed objects count until
  the pool is asked for one. The daemon sets no limit.
* With `threads_tcp` of 8 and more, acceptors start before the queues have their size.
* `get_range` adds `limit` and `skip` in 32 bits.
* The JSON parser miscounts symbols of four bytes. HTTP, memcached and AMF misread what is cut
  between two blocks (section 2). `stop()` of `mt_server` locks itself out.
* `parse_bool` of `misc/phpser` accepts nothing, since it asks for a byte that is both 0 and 1, although
  the table of the format in the same file lists booleans (`phpser_parser.hpp:17`, `:86`): a text with
  one anywhere is refused. The second reader, in `misc/serialization`, does read them.

### Bounds

Every bound is a constant or a named definition and appears in a guard.

* Replication: `MaxCmd` commands, `MaxConn` connections. `MaxCmd = 3` with `PipelineSize = 2`
  gives a queue longer than the pipeline, so items wait, are sent, applied and confirmed in
  all orders; `MaxConn = 3` lets a reconnection interrupt the resending the previous one
  began. Two keys tell apart items that overwrite each other from items that do not. The
  fill has four keys and portions of one, so that several are under way and the key it
  stops at has a successor. `OneKey` makes the store smaller than the pipeline, so that empty
  portions happen. `PipelineSize` and `PortionSize` stand for 100 and 1000.
* Methods: three requests on two workers, so that one runs a second request inside the
  section of the other. Two of the three keys share a lock. One key is absent at first and
  is created as an integer or as a structure, so that every method meets all three.
* MultiServer: two connection objects, one pool thread, two requests and three sessions: an
  object is reused while a request of its earlier peer is queued or runs.
* Network: two connection objects, a client and four descriptors, so that a descriptor is
  reused within a batch of events; two of the mixtures have only two descriptors, so that `accept`
  and `connect` find none. A socket takes one byte at a time, one pool thread at a time is
  inside `release`. `AllBudgets` says how often peers and other threads may act, in several mixtures.
* The other modules: two or three threads, peers or blocks; texts of a few symbols of each
  class the code tells apart.

In `library` two threads are interchangeable, which is used as symmetry. No liveness is
checked there.

### Fairness

* `Methods`: weak fairness of each thread. `longspinlock` is not fair, so a worker could lose
  the race for it again and again; `MaxReq` makes the competitors finite, and `Finishes` is
  claimed for that case.
* `Replication`: weak fairness of the master's threads, of the slave's handling of requests,
  of its reconnect loop and of the detection of a connection the other side has closed.
  Nothing obliges a connection to break or a command to arrive. `MaxConn` makes the last
  connection stay: liveness is claimed for a slave that in the end remains connected.
* `MultiServer`: weak fairness of the front thread's own work and of each pool thread. No
  peer has to send or leave.
* `Network`: weak fairness of the thread that runs `select` and of a peer that reads what
  has come. That a handler, or a release of a pool thread, which has begun comes to its end is
  stated as `[]<>`.
* `MCServices`: weak fairness of the daemon's threads; strong fairness of a successful
  `client_connect`, that is, a master that can be reached again and again is reached. For
  JSON-RPC, what is under way is delivered, unless the connection is dropped; that it is answered
  is not assumed.

## 4. The proofs

All theorems are about `Spec` of their module, for every value of the constants that
satisfies the named assumptions of the module: any number of threads, connections,
requests, keys and commands. The bounds of section 3 are natural numbers there, however large.

### Replication (`ReplicationProofs`, `OrderlyProofs`, `StreamProofs`)

Assumed: keys are `1..LastKey`, `Nil` is not a value, commands and first stores have their
types, connection addresses are positive numbers, the two sizes are positive.

**`TypeSafety`, `PipelineSafety`, `FillSafety`**: `Spec => []TypeOK`, `[]PipelineBound`,
`[]FillNeverFails`. The inductive invariant `Inv` is their conjunction with `FillKeys`: while
`sync_initial` runs, `current_keys` has one key per portion already pushed, so it is not empty
when the fill is handed over to `on_confirm`. There every confirmation pops one key and, while
syncing, adds one, and `sync_finishing` ends exactly when the last key is popped. `PipelineBound`
rests on the lemmas about `Batch`: what a push sends fits both the pipeline and the queue, also
when `queue_pipelined` has fallen below zero. Nothing is assumed about connections: the
theorems cover overlapping ones, late confirmations and deleted clients.

**`ChecksNeverFire`, `WindowSafety`**: `Orderly => (Spec => []NeverThrows)` and the same for
`Window`. The inductive invariant `OInv` adds to `Inv`: `OneConnection` (at most one connection is
open, the slave reads that one, closed ones carry nothing), `FreshIsQuiet` (a connection before its
`rep_setstate` carries nothing and no polling thread is about), `ThreadsFollow` (polling threads
exist only for the open connection of a running client), `FillWindow` (while filling there is a
key for every portion not yet confirmed) and `queue_pipelined >= 0`. `Window` needs all of them:
a push is right only if no other connection or thread has sent from the same queue, and the
switch from the fill to the update queue is right only because no portion is left unconfirmed at
that moment. `PushWindow` shows that a push extends the part under way by the items that follow it;
`OPush` and `OFill` reduce every action that sends to that fact. `stale_confirm` shows that
`Orderly` cannot be dropped.

**`StreamSafety`**: when, besides, slaves only ask to "continue", as the daemon's own client does,
`Spec => []Converged`. `SInv` adds `MirrorIsLast` (the replay has, per key, the value of the last
queued item that names it), `SlaveIsApplied` (the slave has the values of the applied items) and
`LeftoversAreQueued` (what a closed connection still delivers is in the queue). The hard case is
a resending, after which an item is applied a second time: it is older than what the slave
has, and still in the queue together with everything newer.

**`FillSucceeds`**: `Orderly /\ Mode \subseteq {"start", "stop"} /\ NoDeletes => (Spec => []FillComplete)`:
the initial fill leaves no gap, for a store of any size, portions of any size, and whatever
connections break or commands run meanwhile. The inductive invariant is
`FillInv == OInv /\ OthersTouched /\ Fills`. `OthersTouched` says that the keys no command names have
their first values in the store and in every portion under way, and that commands and queued items
leave them alone. The parts of `Fills`:

* `CurrentIsLive`: the key a fill has come to is still in the store, so that the next `Seek`
  finds it and `Next` steps over it alone.
* `PassedArrives`: every wanted key up to that one is on the slave or in a portion under way to
  it, unless the slave has left while a portion is unconfirmed; that fill never becomes running.
* `FinishingIsOver`: a fill that only waits for confirmations has passed every key.
* `Filled`: a running client has them all.

The step that matters is the last confirmation. By `FillWindow` there is a key in `current_keys` for each
portion under way, so when the last one is popped none is under way, and what
`PassedArrives` says of every key can only mean that it has arrived. The lemma `PortionRest` is the
loop of `_push_next_portion`: the keys between two portions' ends are all in the second one.

None of the three hypotheses can be dropped: `fill_delete` shows what a delete does to
`CurrentIsLive`; "auto" and "continue" make a client running in the middle of a fill; and with
overlapping connections a confirmation of an older fill counts for the newer one. TLC checked
`FillInv` on the instance of the run `fill` (37,359 states) before it was proved.

### Methods (`MethodsProofs`)

Assumed: requests and stores are well formed, `Hash` maps keys to locks, `Free` is no worker.
Writes may fail or not. Nothing restricts which requests there are; the first three theorems are
about the keys that the requests of the instance leave to the locking methods.

**`LockingSafety`**: `Spec => [](HoldsLock /\ NoLostUpdate)`. `HoldsLock` makes it inductive: two
workers at one key would hold one lock (lemma `OneInside`), so nobody else writes the key between a
worker's `Get` and its `Put`; `HasValue` says that a worker at its `Put` has read something its
method can use. `lost_update` shows what happens on the other keys.

**`LockingIsAtomic`**: `Spec => AtomicPerKey`, the refinement. The mapping restricts `db` to
those keys. Only `Put` changes it there, and by `NoLostUpdate` the value it writes is computed
from the one it replaces, which is a `Change` of `AtomicStore`; every other step is a stutter.

**`PackedOrder`**: `Spec => []HandedOnInOrder`. `PInv` adds what a worker about to hand on carries:
in "packed" exactly the value it has stored. The lock, still held, keeps the store at that value.

**`Types`**: `Spec => []TypeOK`; what the methods compute is a value of the store.

### MultiServer (`MultiServerInvariant`, `MultiServerProofs`)

Assumed: addresses are numbers, each thread has a pool, `Front` is no pool thread, `None` is no
connection and no thread.

**`LinkedSafety`**: `Spec => []Linked`. **`HomeSafety`**: `Spec => StartsAtHome`, an action property.
Both come from one inductive invariant `IInv == TypeOK /\ (~dead => Good)`; `dead` is the step in which
`clear()` touches a deleted request, and nothing is claimed after it. The parts of `Good`:

* `Places`: where a thread can be, and where a release returns to.
* `Tokens`: an allocated request is in one place of one queue, or with one pool thread, or
  still with the front thread. So no request is deleted twice.
* `Locked`: the lock of a request is held by the thread that runs it or by a `clear()` about to
  unlock it; a running request keeps its client.
* `Clears`: what a `clear()` knows about the set it has locked: what it has passed is unlinked, what
  it has kept is running.
* `Sets`: the sets of two connections are disjoint, a linked request is allocated, one about to
  be deleted is in no set.
* `Linked`, and `Home`: a request of an earlier session of its connection is already running, and
  when the `clear()` of `assign()` is over, so is every request of the connection.

`Home` is why `StartsAtHome` holds: `assign()` gives the object a new session only after `clear()`
has unlinked every request whose lock it could take, and the ones it could not take were running.
`Home` needs `Clears`, which needs `Locked` (a lock that cannot be taken belongs to a running
thread), which needs `Tokens`. TLC checked `IInv` on two instances before it was proved, with one
pool thread (363,059 states) and with two (1,541,243 states). `MultiServerInvariant` holds the invariant
and the steps of the front thread and of `clear()`; `MultiServerProofs` the steps of the pool threads
and the theorems.

### Locks (`Locks`)

`Locks` does not know the daemon: its constants are a call graph (`EntryPoints`, `CalledBy`), the lock
around each body (`Guard`), the shared objects, and three things that justify the locking: `Context`, the
situations a thread can be in (where it is, which locks it holds and whether it waits, whether
it has framed its message), `Rank`, an order of the locks, and `Gate`.

`Disciplined` says: `Context` is closed under what a thread may do next (`ContextIsClosed`); in each
situation of it a thread that wants a lock does not have it and holds only locks of higher rank, or of
the same rank if it also holds the gate of that rank (`LocksFall`); and what it writes to a shared
object is locked and framed once (`PathsMayWrite`).

Assumed: `DisciplineAssumption`, that is, `Disciplined`.

**`NoDeadlock`**: `Spec => []NoCircularWait`. **`WritersExclude`**: `Spec => []WritesUnderLock`. Both hold
for any number of threads. The invariant says that
every thread is in a situation of `Context` and a lock has one holder. `PathsMayWrite` is about one
thread; that two threads which write to one object hold one of its two locks each, and so that there
is no third, needs the invariant: a lock is taken only when nobody has it, and kept until the
thread has come back. In a circle of waiting threads
take one that waits for a lock of least rank: its holder waits for a lock of the same rank, and
so does the holder of that one. Both then hold the gate, so they are one thread, and it waits for
a lock of its own. The gate is needed because the code takes the locks of the pool and of its queue in
both orders (`fas/inet/pool.hpp`), always under the server's mutex.

That the daemon's graph is `Disciplined` TLC evaluates in the run `library`, with `Context` computed
from `CallGraph` by following every path. The run and the theorem together say: the daemon's
threads, however many, do not deadlock on these locks.

### SpinLocks (`SpinLocksProofs`)

**`LockSafety`**: for a finite set of threads, `Spec => [](OneWriter /\ CountsReaders)`, by induction
with the type of the variables.

### Only model-checked

* Liveness: `Drains`, both `Finishes`, `Rests`, `Flushed`, `StopEnds`, `CallsEnd`, `AllOrNothing`, `SlaveReturns`.
  Fairness and `ENABLED` are outside the proof system used.
* What recursive definitions compute (`Json`, `TypeLists`, `Aspects`, `AmfValues`, `Serialization`, `PhpSer`,
  `Wiring`, `CallGraph`): the library's induction theorems take an operator as a parameter, which the
  provers cannot instantiate, and a module with a RECURSIVE operator cannot be used in a proof. This
  includes `Disciplined` for the daemon's own graph, which is evaluated.
* `Registered`, `Owned`, `InOrder` of `Network`: each action is a composition of many operators on
  one record, and the invariant has not been brought into a form the provers manage.
* The other properties of `services` and `library`: small components, each over all interleavings of
  its instance.

## 5. What is not modelled, and why

* `write_status`, debug output and the texts of options and statistics: they only read, print
  or run once at start.
* `set_range`: the struct of that name is in no method list (its tag is given to `set`), so
  neither it nor `Replication::set_range` ever runs.
* Writes that fail: modelled in `Methods`; in `Replication`, `Put` and `Delete` succeed on
  both sides. `on_confirm` does not look at the result, so a failing slave looks the same to the
  master.
* Integers of `Methods` are unbounded: the properties are about which value is read and
  replaced, not about its range. A request of `Methods` names a key once.
* Several slave ids: they share only the map `repClients`, whose unlocked use is a data race on
  the container and is listed as a hazard without a property. The same holds for `rep_status`.
* Loss and reordering inside a connection: TCP excludes them. A connection that ends loses
  what is under way on it, in both directions. Datagrams of the UDP server are not followed.
* `stop()` of the multiserver and the join of its threads: never reached, `is_running` is never
  reset.
* Name resolution, multicast and socket options, floating-point numbers in JSON (read as texts
  only), the table of HTTP header names and the older classes of `misc/http`, the memcached
  commands without state of their own, the handshakes of AMF (the client's cannot complete as
  written) and the writers of PHP serialization.
* Earlier variants kept in the library (`json_rpc`, `json_rpc2`, `adv/amf`, `http/srv`,
  `misc/specialization`), its logger, variants, time and test framework, and headers of
  `common` that no translation unit of the daemon instantiates.

`PROJECT.json` lists all parts with their status.
