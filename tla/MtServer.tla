------------------------------ MODULE MtServer ------------------------------
(***************************************************************************)
(* inet/mt_server.hpp: one thread accepts clients and hands their          *)
(* descriptors to child servers over pipes, one child and one multiplexer  *)
(* per thread.  A child closes what it may not serve any more.             *)
(*                                                                         *)
(* stop closes the writing end of a child's pipe and calls the child's     *)
(* stop.  From then on epoll reports EPOLLHUP for the reading end, and     *)
(* whichever thread gets the child's mutex first, in stop or in            *)
(* ready_error, calls select of the child's multiplexer with the mutex     *)
(* held: that select calls ready_error, which locks the mutex again, and a *)
(* boost::mutex is not recursive.  The child is held for ever.             *)
(***************************************************************************)
EXTENDS Integers, Sequences, SequencesExt, FiniteSets

CONSTANTS
    Threads,        \* _max_threads: the children are 0 .. Threads - 1
    PipeSize,       \* descriptors a pipe takes before write fails
    MaxConnections, \* server_base::_max_connections of a child
    MaxClients      \* bound: clients that connect

VARIABLES
    started,        \* mt_server::_started
    count,          \* mt_server::_count
    cstarted,       \* child -> server_base::_started
    pipe,           \* child -> descriptors written and not read
    hup,            \* children whose writing end is closed
    held,           \* children whose mutex is held for ever
    conns,          \* child -> its pool: descriptors of the connections, and how many of its
                    \* objects are freed and still among the active ones
    accepted,       \* descriptors are 1 .. accepted
    closed          \* descriptors that were closed

vars == <<started, count, cstarted, pipe, hup, held, conns, accepted, closed>>

Child == 0 .. Threads - 1

Init ==
    /\ started = FALSE /\ count = 0 /\ accepted = 0 /\ closed = {}
    /\ cstarted = [c \in Child |-> FALSE]
    /\ pipe = [c \in Child |-> <<>>]
    /\ conns = [c \in Child |-> [live |-> {}, freed |-> 0]]
    /\ hup = {} /\ held = {}

\* mt_server::_start: pipes, children that are started idle, and a thread for
\* each; then the socket to listen on.
Start ==
    /\ ~started /\ hup = {}
    /\ started' = TRUE
    /\ cstarted' = [c \in Child |-> TRUE]
    /\ UNCHANGED <<count, pipe, hup, held, conns, accepted, closed>>

\* The child of the next client: round and round.
Turn == IF count >= Threads THEN 0 ELSE count

\* mutant of _ready_read: the turn passes on only when the pipe took the descriptor
_ready_readSticky ==
    LET c == Turn
        d == accepted + 1
        room == Len(pipe[c]) < PipeSize
    IN  /\ started /\ hup = {} /\ accepted < MaxClients
        /\ accepted' = d
        /\ count' = IF room THEN c + 1 ELSE c
        /\ pipe' = IF room THEN [pipe EXCEPT ![c] = Append(@, d)] ELSE pipe
        /\ closed' = IF room THEN closed ELSE closed \cup {d}
        /\ UNCHANGED <<started, cstarted, hup, held, conns>>

\* mt_server::_ready_read: accept and write, or close when the pipe is full
_ready_read ==
    LET c == Turn
        d == accepted + 1
        room == Len(pipe[c]) < PipeSize
    IN  /\ started /\ hup = {} /\ accepted < MaxClients
        /\ accepted' = d
        /\ count' = c + 1
        /\ pipe' = IF room THEN [pipe EXCEPT ![c] = Append(@, d)] ELSE pipe
        /\ closed' = IF room THEN closed ELSE closed \cup {d}
        /\ UNCHANGED <<started, cstarted, hup, held, conns>>

\* pool::active_count, and pool::create with _process_free
active_count(c) == Cardinality(conns[c].live) + conns[c].freed
create(c, d) == [conns EXCEPT ![c] = [live |-> @.live \cup {d}, freed |-> 0]]

\* mutant of ready_read: one client too many is neither served nor closed
ready_readForgetting(c) ==
    LET d == Head(pipe[c])
    IN  /\ cstarted[c] /\ c \notin hup /\ pipe[c] # <<>>
        /\ pipe' = [pipe EXCEPT ![c] = Tail(@)]
        /\ conns' = IF active_count(c) >= MaxConnections THEN conns ELSE create(c, d)
        /\ UNCHANGED <<started, count, cstarted, hup, held, accepted, closed>>

\* child_server::ready_read in the loop of mt_thread, and server_base::_accept
ready_read(c) ==
    LET d == Head(pipe[c])
        full == active_count(c) >= MaxConnections
    IN  /\ cstarted[c] /\ c \notin hup /\ pipe[c] # <<>>
        /\ pipe' = [pipe EXCEPT ![c] = Tail(@)]
        /\ conns' = IF full THEN conns ELSE create(c, d)
        /\ closed' = IF full THEN closed \cup {d} ELSE closed
        /\ UNCHANGED <<started, count, cstarted, hup, held, accepted>>

\* A connection of a child ends; its object stays among the active ones until the pool is asked
\* for another, so that a child with all of them freed accepts no more.
Disconnect(c) ==
    /\ c \notin held
    /\ \E d \in conns[c].live : /\ conns' = [conns EXCEPT ![c] = [live |-> @.live \ {d}, freed |-> @.freed + 1]]
                                /\ closed' = closed \cup {d}
    /\ UNCHANGED <<started, count, cstarted, pipe, hup, held, accepted>>

\* mt_server::_stop for the first child: the pipe is closed.
_stop ==
    /\ started /\ hup = {}
    /\ hup' = {0}
    /\ UNCHANGED <<started, count, cstarted, pipe, held, conns, accepted, closed>>

\* server_base::_stop of that child, called by either thread: its
\* connections are released, and select does not return.
_stop_child(c) ==
    /\ c \in hup \ held
    /\ cstarted' = [cstarted EXCEPT ![c] = FALSE]
    /\ conns' = [conns EXCEPT ![c] = [live |-> {}, freed |-> 0]]
    /\ closed' = closed \cup conns[c].live
    /\ held' = held \cup {c}
    /\ UNCHANGED <<started, count, pipe, hup, accepted>>

Next ==
    \/ Start \/ _ready_read \/ _stop
    \/ \E c \in Child : ready_read(c) \/ Disconnect(c) \/ _stop_child(c)

----------------------------------------------------------------------------

Owners(d) == {c \in Child : d \in conns[c].live \/ d \in ToSet(pipe[c])}

\* Every descriptor the server accepted is closed, or waits in one pipe, or is
\* served by one child: none is served twice and none is forgotten.
Placed ==
    \A d \in 1 .. accepted :
        /\ d \in closed <=> Owners(d) = {}
        /\ Cardinality(Owners(d)) <= 1
        /\ \A c \in Child : ~(d \in conns[c].live /\ d \in ToSet(pipe[c]))

\* The turn goes round whether or not the pipe takes the descriptor, so a child
\* that does not read does not hold up the clients of the others: client d
\* only ever belongs to the child whose turn it was.
TurnsGoRound == \A d \in 1 .. accepted : Owners(d) \subseteq {(d - 1) % Threads}

=============================================================================
