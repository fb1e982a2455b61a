------------------------------ MODULE MCLibrary ------------------------------
(***************************************************************************)
(* Further parts of the library, one at a time: a behaviour is one of the  *)
(* part named by part.  The threads and locks of the daemon (part "calls") *)
(* have the variables of Locks, two threads going each through any entry   *)
(* and down any path; the others take turns in x1 .. x8, as in MCServices. *)
(***************************************************************************)
EXTENDS CallGraph, Locks

CONSTANTS t1, t2    \* model values
Threads == {t1, t2}
Symmetry == Permutations(Threads)

-----------------------------------------------------------------------------
(* The daemon's call graph for Locks.                                      *)

DaemonEntries == Entries
DaemonCalls   == Callees
DaemonLocks   == LockOf
DaemonShared  == MutexOwners
DaemonPaths   == Situations
DaemonRanks   == LockRanks
DaemonGates   == LockGates

VARIABLES part, x1, x2, x3, x4, x5, x6, x7, x8

partVars == <<x1, x2, x3, x4, x5, x6, x7, x8>>

-----------------------------------------------------------------------------
Soc == INSTANCE Sockets WITH
    MaxBytes <- 3, MaxQueue <- 2,
    net <- x1, soerr <- x2, inq <- x3, full <- x4, pc <- x5, rstatus <- x6, wstatus <- x7, backlog <- x8

\* Two kinds of commands, the second without a callback; two commands of
\* one user, and two with one id.
Com == INSTANCE CommandFlow WITH
    Command <- 1 .. 3, Kinds <- <<"a", "b">>, KindOf <- <<"a", "a", "b">>,
    TargetsOf <- [a |-> <<"p", "q">>, b |-> <<"p", "r">>], CalledBack <- {"a"}, Orders <- {"id", "user"},
    KeyOf <- <<[id |-> 1, user |-> 1], [id |-> 2, user |-> 1], [id |-> 1, user |-> 1]>>,
    MaxSize <- 0, Lifetime <- 1, MaxTime <- 1,
    cmd <- x1, lists <- x2, running <- x3, trace <- x4, now <- x5

\* A body that looks like the length of a chunk is among the bodies.
Htp == INSTANCE Http WITH
    Bodies <- {<<>>, <<"x">>, <<"1", "r", "n">>}, MaxMessages <- 2,
    w <- x1, use_buff <- x2, data <- x3, wire <- x4, r <- x5, sent <- x6

\* Data that looks like the end of a line, and is too long to be stored.
Mem == INSTANCE Memcached WITH
    Key <- {"k1", "k2"}, Data <- {<<"a">>, <<"n", "r">>}, Keys <- {<<"k1">>, <<"k2", "k1">>},
    Limit <- 1, MaxCommands <- 3,
    client <- x1, server <- x2, up <- x3, down <- x4, store <- x5, asked <- x6, done <- x7

\* A call each way, with different arguments: lengths and ids have two
\* digits of base 2, and a call takes three chunks.
Inv == INSTANCE Amf WITH
    Unsigned <- 16, Junk <- {0}, Base <- 2, NumberBytes <- 2, Object <- {1, 2}, CHUNK_SIZE <- 5,
    First <- [client |-> 0, server |-> 1], MaxCalls <- [client |-> 1, server |-> 1],
    out <- x1, wire <- x2, rx <- x3, stub <- x4, asked <- x5, ran <- x6, got <- x7

-----------------------------------------------------------------------------
PartInit ==
    \/ part = "calls"    /\ x1 = 0 /\ x2 = 0 /\ x3 = 0 /\ x4 = 0 /\ x5 = 0 /\ x6 = 0 /\ x7 = 0 /\ x8 = 0
    \/ part = "sockets"  /\ Soc!Init
    \/ part = "commands" /\ Com!Init /\ x6 = 0 /\ x7 = 0 /\ x8 = 0
    \/ part = "http"     /\ Htp!Init /\ x7 = 0 /\ x8 = 0
    \/ part = "memcached" /\ Mem!Init /\ x8 = 0
    \/ part = "amf"      /\ Inv!Init /\ x8 = 0

PartNext ==
    \/ part = "sockets"  /\ Soc!Next
    \/ part = "commands" /\ Com!Next /\ UNCHANGED <<x6, x7, x8>>
    \/ part = "http"     /\ Htp!Next /\ UNCHANGED <<x7, x8>>
    \/ part = "memcached" /\ Mem!Next /\ UNCHANGED x8
    \/ part = "amf"      /\ Inv!Next /\ UNCHANGED x8

LibraryInit == Init /\ PartInit

LibraryNext ==
    /\ UNCHANGED part
    /\ \/ part = "calls" /\ Next /\ UNCHANGED partVars
       \/ PartNext /\ UNCHANGED vars

LibrarySpec == LibraryInit /\ [][LibraryNext]_<<part, vars, partVars>>

\* The statuses of connections are right whatever the system calls answer (see
\* Sockets).
StatusIsTrue == part = "sockets" => Soc!NoErrorThrows /\ Soc!ClosedMeansClosed

\* A command visits its processors in order and once, is in one place, and its answer
\* is decided when the callback gets it (see CommandFlow).
TargetsInOrder ==
    part = "commands" => Com!TargetsInOrder /\ Com!InOnePlace /\ Com!AnswersAreDecided

\* What one side of HTTP, memcached or AMF writes, the other understands in order and
\* once, in whatever blocks it arrives, up to the cuts each reader does not survive: something
\* in one block behind a message without a body or a last chunk, and a chunk's length in
\* two blocks (see Http); a command's word or the line END in two blocks (see Memcached); a
\* block that ends where a chunk would, without what was kept (see Amf).  The readers go
\* on after such a cut, and what still holds then is part of the property: no command of
\* memcached is invented, doubled or reordered, and a deaf HTTP reader reports nothing.
PeersUnderstand ==
    /\ part = "http"      => Htp!ReadsWhatIsWritten
    /\ part = "memcached" => Mem!AnswersFitCommands
    /\ part = "amf"       => Inv!ResultsFitCalls
=============================================================================
