------------------------------- MODULE Daemon -------------------------------
(***************************************************************************)
(* How the daemon starts (src/src/daemon.cpp) and what its threads need of *)
(* each other: main opens the database and starts the thread of the TCP    *)
(* server, which starts the threads of the multiserver and keeps the       *)
(* connection to the replication master; main itself serves UDP and the    *)
(* replication slaves.  No thread waits for another one to be ready.       *)
(***************************************************************************)
EXTENDS Integers

CONSTANTS ThreadNums  \* values of --threads_tcp

VARIABLES
    opt,     \* the options: threads_tcp, threads_udp, user, daemonize, replication.id
    main,    \* where main is
    srv,     \* where the thread of the TCP server is
    aux,     \* further threads: one more acceptor, one more UDP thread, the pools' threads
    up,      \* the sockets that are bound
    db,      \* db_global is set
    queues,  \* how many queues the multiserver has
    client,  \* connected to the master
    over     \* how the process ended

vars == <<opt, main, srv, aux, up, db, queues, client, over>>

Options == [tcp : ThreadNums, udp : {1, 2}, user : BOOLEAN, daemonize : BOOLEAN, id : BOOLEAN]

Larger(m, n) == IF m > n THEN m ELSE n

\* Mutant: what is left for the second pool may be nothing.
splitUneven(threads) ==
    LET n0 == IF threads >= 8 THEN 2 ELSE 1
        n1 == Larger(1, (threads - n0) \div 2)
    IN  [front |-> n0, pools |-> <<threads - n0 - n1, n1>>]

\* server_tcp::init: the threads that accept and read, and those of the two pools.
split(threads) ==
    LET n0 == IF threads >= 8 THEN 2 ELSE 1
        n1 == Larger(1, (threads - n0) \div 2)
        n2 == Larger(1, threads - n0 - n1)
    IN  [front |-> n0, pools |-> <<n2, n1>>]

\* method2thread: the writers have a pool of their own, but for add and del.
method2thread(m) == IF m \in {"set", "set_range", "inc_add", "inc", "update_packed"} THEN 2 ELSE 1

-----------------------------------------------------------------------------
Init ==
    /\ opt \in Options
    /\ main = "options" /\ srv = "off"
    /\ aux = [accept |-> "off", udp |-> "off", pools |-> <<0, 0>>]
    /\ up = {} /\ db = FALSE /\ queues = 0 /\ client = FALSE /\ over = "no"

\* An exception that leaves main or a thread ends the process.
Abort ==
    /\ over' = "abort"
    /\ UNCHANGED <<opt, main, srv, aux, up, db, queues, client>>

Exit(code) ==
    /\ over' = code
    /\ UNCHANGED <<opt, main, srv, aux, up, db, queues, client>>

parse_options ==
    /\ main = "options"
    /\ \/ Exit("1") \/ Exit("0")   \* bad options; --help
       \/ main' = "user" /\ UNCHANGED <<opt, srv, aux, up, db, queues, client, over>>

change_user ==
    /\ main = "user"
    /\ \/ opt.user /\ Abort
       \/ main' = "daemonize" /\ UNCHANGED <<opt, srv, aux, up, db, queues, client, over>>

\* The child goes on.
daemonize ==
    /\ main = "daemonize"
    /\ \/ opt.daemonize /\ Exit("1")
       \/ main' = "db" /\ UNCHANGED <<opt, srv, aux, up, db, queues, client, over>>

create_db ==
    /\ main = "db"
    /\ \/ Abort
       \/ /\ db' = TRUE /\ main' = "spawn"
          /\ UNCHANGED <<opt, srv, aux, up, queues, client, over>>

\* Mutant: the thread of the TCP server starts before the database is open.
SpawnFirst ==
    /\ main \in {"daemonize", "spawn"} /\ srv = "off"
    /\ srv' = "start" /\ main' = IF main = "spawn" THEN "udp" ELSE main
    /\ UNCHANGED <<opt, aux, up, db, queues, client, over>>

Spawn ==
    /\ main = "spawn"
    /\ srv' = "start" /\ main' = "udp"
    /\ UNCHANGED <<opt, aux, up, db, queues, client, over>>

\* Mutant: what start throws is caught, as it is in the loop.
server_udp_startCaught ==
    /\ main = "udp"
    /\ main' = "rserver" /\ up' \in {up, up \cup {"udp"}}
    /\ UNCHANGED <<opt, srv, aux, db, queues, client, over>>

server_udp_start ==
    /\ main = "udp"
    /\ \/ Abort
       \/ /\ up' = up \cup {"udp"} /\ main' = "rserver"
          /\ UNCHANGED <<opt, srv, aux, db, queues, client, over>>

rserver_start ==
    /\ main = "rserver"
    /\ \/ Abort
       \/ /\ up' = up \cup {"rport"} /\ main' = "threads"
          /\ UNCHANGED <<opt, srv, aux, db, queues, client, over>>

udp_threads ==
    /\ main = "threads"
    /\ aux' = [aux EXCEPT !.udp = IF opt.udp > 1 THEN "start" ELSE "off"]
    /\ main' = "loop"
    /\ UNCHANGED <<opt, srv, up, db, queues, client, over>>

start_on_same_socket(t) ==
    /\ aux[t] = "start"
    /\ \/ Abort
       \/ /\ aux' = [aux EXCEPT ![t] = "loop"]
          /\ UNCHANGED <<opt, main, srv, up, db, queues, client, over>>

-----------------------------------------------------------------------------
(* The thread of the TCP server. *)

\* multiserver::start and the first half of spawn_threads.
multiserver_start ==
    /\ srv = "start"
    /\ \/ Abort
       \/ /\ up' = up \cup {"port"} /\ srv' = "front"
          /\ UNCHANGED <<opt, main, aux, db, queues, client, over>>

spawn_front ==
    /\ srv = "front"
    /\ aux' = [aux EXCEPT !.accept = IF split(opt.tcp).front > 1 THEN "start" ELSE "off"]
    /\ srv' = "queues"
    /\ UNCHANGED <<opt, main, up, db, queues, client, over>>

\* queues.resize, after the acceptors have been started.
resize_queues ==
    /\ srv = "queues"
    /\ queues' = 2 /\ srv' = "pools"
    /\ UNCHANGED <<opt, main, aux, up, db, client, over>>

spawn_pools ==
    /\ srv = "pools"
    /\ aux' = [aux EXCEPT !.pools = split(opt.tcp).pools]
    /\ srv' = IF opt.id THEN "connect" ELSE "loop"
    /\ UNCHANGED <<opt, main, up, db, queues, client, over>>

\* client_connect: its exceptions are caught, before the loop and in it.
client_connect(done) ==
    /\ srv = "connect"
    /\ client' = done /\ srv' = "loop"
    /\ UNCHANGED <<opt, main, aux, up, db, queues, over>>

\* Mutant: the loop does not look at the client's status.
SelectOnly ==
    /\ srv = "loop"
    /\ UNCHANGED vars

\* The loop: one select, and another connect when the client is not connected.
Select ==
    /\ srv = "loop" /\ opt.id /\ ~client
    /\ srv' = "connect"
    /\ UNCHANGED <<opt, main, aux, up, db, queues, client, over>>

\* The connection to the master breaks.
Disconnect ==
    /\ srv = "loop" /\ client
    /\ client' = FALSE
    /\ UNCHANGED <<opt, main, srv, aux, up, db, queues, over>>

-----------------------------------------------------------------------------
MainStep ==
    \/ parse_options \/ change_user \/ daemonize \/ create_db \/ Spawn
    \/ server_udp_start \/ rserver_start \/ udp_threads
SrvStep ==
    \/ multiserver_start \/ spawn_front \/ resize_queues \/ spawn_pools \/ Select
    \/ \E done \in BOOLEAN : client_connect(done)
AuxStep == \E t \in {"accept", "udp"} : start_on_same_socket(t)

ThreadStep(t) ==
    \/ t = "main" /\ MainStep
    \/ t = "srv" /\ SrvStep
    \/ t = "aux" /\ AuxStep

Next == over = "no" /\ (Disconnect \/ \E t \in {"main", "srv", "aux"} : ThreadStep(t))

-----------------------------------------------------------------------------
(* Properties *)

\* A thread that has come to its loop, and may run any method, finds the database open and
\* its sockets bound; the thread of the TCP server also finds the queues.  The further
\* acceptors of a server with 8 threads or more are left out here: they are started before
\* queues.resize, and may push a request to a queue that is not there yet.
ReadyBeforeServing ==
    /\ main = "loop" => db /\ {"udp", "rport"} \subseteq up
    /\ srv = "loop" => db /\ "port" \in up /\ queues = 2
    /\ aux.udp = "loop" => db /\ "udp" \in up
    /\ aux.accept = "loop" => db /\ "port" \in up /\ (queues = 0 => opt.tcp >= 8)

\* The threads of the TCP server are the ones asked for, three at least, and every method
\* is put into a queue that some thread serves.
EveryQueueServed ==
    srv \in {"connect", "loop"} =>
        /\ split(opt.tcp).front + aux.pools[1] + aux.pools[2] = Larger(3, opt.tcp)
        /\ \A m \in {"get", "set", "inc", "add", "update_packed"} : aux.pools[method2thread(m)] > 0

\* Every thread goes on; a master that can be reached again and again lets the slave in.
Fairness ==
    /\ \A t \in {"main", "srv", "aux"} : WF_vars(over = "no" /\ ThreadStep(t))
    /\ SF_vars(over = "no" /\ client_connect(TRUE))

\* What is served.
Whole ==
    /\ up = {"port", "udp", "rport"} /\ main = "loop" /\ srv \in {"connect", "loop"}
    /\ (opt.udp > 1 => aux.udp = "loop") /\ (opt.tcp >= 8 => aux.accept = "loop")

\* The daemon serves everything in the end, or is not there at all: no thread is left
\* serving beside one that could not start.
AllOrNothing == <>[](over # "no" \/ Whole)

\* A slave whose connection to the master breaks, or was refused, gets it again.
SlaveReturns == []<>(over # "no" \/ ~opt.id \/ client)
=============================================================================
