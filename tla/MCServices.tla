----------------------------- MODULE MCServices -----------------------------
(***************************************************************************)
(* The library's stateful services, one at a time: a behaviour is one of   *)
(* the service named by part.  They have nothing to do with each other, so *)
(* they take turns in the variables x1 .. x9; a service that needs fewer   *)
(* leaves the others 0.                                                    *)
(***************************************************************************)
EXTENDS Integers, Sequences, FiniteSets, TLC

VARIABLES part, x1, x2, x3, x4, x5, x6, x7, x8, x9

vars == <<part, x1, x2, x3, x4, x5, x6, x7, x8, x9>>

CONSTANTS p1, p2, t1, t2, t3    \* model values

-----------------------------------------------------------------------------
(* JSON-RPC: a client of another make sends several messages at once, an   *)
(* unknown method, params that cannot be read, answers nobody asked for.   *)

Msg(m, r, i, by, good) == [method |-> m, result |-> r, id |-> i, by |-> by, good |-> good]
Req(m, i) == Msg(m, "", i, m, TRUE)
OtherMakes ==
    {<<Req("set", 7), Req("get_range", 8), Req("set", 9)>>, <<Req("get_range", 7), Req("other", 8)>>,
     <<Msg("set", "", 7, "set", FALSE)>>, <<Msg("", "value", 9, "", TRUE), Req("set", 7)>>,
     <<Msg("set", "value", 7, "set", TRUE)>>, <<Msg("", "value", 0, "", TRUE)>>,
     <<Msg("get_range", "", 0, "get_range", FALSE)>>, <<Msg("set", "", 0, "set", TRUE), Req("set", 7)>>,
     <<Msg("", "value", -1, "get_range", TRUE)>>}

\* set and del, which a master calls on its slave, rep_setstate, which the slave calls, and
\* get_range, whose handler returns false for a limit below 0: with the method list, the types of the
\* results and the cleaned methods of the daemon.  Only notifications are none of the daemon's.
Rpc == INSTANCE JsonRpc WITH
    Peer <- {p1, p2}, MethodList <- <<"get_range", "set", "del", "rep_setstate">>,
    Kind <- [m \in {"get_range", "set", "del", "rep_setstate"} |->
                IF m \in {"set", "rep_setstate"} THEN "bool" ELSE "map"],
    Calls <- (p1 :> {"set", "del"}) @@ (p2 :> {"rep_setstate", "get_range"}),
    Silent <- {"get_range"}, Notified <- {"get_range"}, Cleaned <- {"rep_setstate"},
    Packets <- OtherMakes, MaxPacket <- 2, MaxCalls <- 2, MaxSessions <- 2,
    id_count <- x1, in_ids <- x2, out_ids <- x3, pending <- x4, wire <- x5, released <- x6,
    open <- x9, calls <- x7, session <- x8

Spl == INSTANCE Splitter WITH
    Byte <- 0 .. 2, CR <- 1, LF <- 2, MaxStream <- 6, data <- x1, stream <- x2, sent <- x3

Rea == INSTANCE BufferedRead WITH
    S <- 3, MaxBytes <- 7, MaxRead <- 5, buffer <- x1, pos <- x2, user <- x3, noted <- x4

Wri == INSTANCE SmartWrite WITH
    Sizes <- {1, 3}, MaxBlocks <- 3, MaxBreaks <- 2,
    queue <- x1, buf <- x2, smart <- x3, wire <- x4, next <- x5, breaks <- x6, threw <- x7, held <- x8

\* one thread for long enough to cross seconds, and two threads for a short time
St1 == INSTANCE Statistics WITH
    Thread <- {t1}, Methods <- {0, 1}, Second <- 3, MaxTime <- 5, MaxCalls <- 3,
    now <- x1, busy <- x2, start <- x3, marked <- x4, imark <- x5, stats <- x6, done <- x7, calls <- x8
St2 == INSTANCE Statistics WITH
    Thread <- {t1, t2}, Methods <- {0, 1}, Second <- 3, MaxTime <- 1, MaxCalls <- 4,
    now <- x1, busy <- x2, start <- x3, marked <- x4, imark <- x5, stats <- x6, done <- x7, calls <- x8

Loc == INSTANCE SpinLocks WITH Thread <- {t1, t2, t3}, wvalue <- x1, rvalue <- x2, at <- x3

Obs == INSTANCE Observer WITH
    Topic <- {1}, Target <- {1, 2, 3}, MaxQueue <- 2, MaxFires <- 2,
    observers <- x1, reverse <- x2, queue <- x3, firing <- x4, cur <- x5, erasing <- x6,
    whole <- x7, seen <- x8, fires <- x9

Mts == INSTANCE MtServer WITH
    Threads <- 2, PipeSize <- 2, MaxConnections <- 2, MaxClients <- 7,
    started <- x1, count <- x2, cstarted <- x3, pipe <- x4, hup <- x5, held <- x6, conns <- x7,
    accepted <- x8, closed <- x9

Sel == INSTANCE Selector WITH
    Desc <- {0, 1}, LastKind <- 1, MaxSelects <- 2,
    handler <- x1, bits <- x2, size <- x3, fd_size <- x4, out <- x5, at <- x6, due <- x7, selects <- x8

\* keys 1, 12 and 2; ranges that begin or end at a key, between two, or nowhere
Rng(f, t, l, s) == [from |-> f, to |-> t, limit |-> l, skip |-> s]
Rds == INSTANCE Reads WITH
    Keys <- {<<1>>, <<1, 2>>, <<2>>}, Val <- {"a", "b"}, Nil <- "none",
    Gets <- {<<<<1>>, <<2>>>>, <<<<2>>, <<1, 2>>, <<1>>>>},
    Ranges <- {Rng(f, t, l, s) : f \in {<<>>, <<1, 1>>, <<2>>}, t \in {<<>>, <<1>>, <<1, 2>>}, l \in {1, 2}, s \in {0, 1}}
              \cup {Rng(<<>>, <<>>, l, s) : l \in {-1, 0, 4, 7}, s \in {-1, 0, 2}},
    MaxRange <- 5, IntLimit <- 8, MaxChanges <- 1,
    db <- x1, changes <- x2, cmd <- x3, at <- x4, todo <- x5, it <- x6, count <- x7, result <- x8, past <- x9

Dae == INSTANCE Daemon WITH
    ThreadNums <- {1, 2, 3, 7, 8, 9},
    opt <- x1, main <- x2, srv <- x3, aux <- x4, up <- x5, db <- x6, queues <- x7, client <- x8, over <- x9

-----------------------------------------------------------------------------
Init ==
    \/ part = "rpc"   /\ Rpc!Init
    \/ part = "split" /\ Spl!Init /\ x4 = 0 /\ x5 = 0 /\ x6 = 0 /\ x7 = 0 /\ x8 = 0 /\ x9 = 0
    \/ part = "read"  /\ Rea!Init /\ x5 = 0 /\ x6 = 0 /\ x7 = 0 /\ x8 = 0 /\ x9 = 0
    \/ part = "write" /\ Wri!Init /\ x9 = 0
    \/ part = "stat1" /\ St1!Init /\ x9 = 0
    \/ part = "stat2" /\ St2!Init /\ x9 = 0
    \/ part = "locks" /\ Loc!Init /\ x4 = 0 /\ x5 = 0 /\ x6 = 0 /\ x7 = 0 /\ x8 = 0 /\ x9 = 0
    \/ part = "watch" /\ Obs!Init
    \/ part = "mts"   /\ Mts!Init
    \/ part = "sel"   /\ Sel!Init /\ x9 = 0
    \/ part = "reads" /\ Rds!Init
    \/ part = "start" /\ Dae!Init

Next ==
    /\ UNCHANGED part
    /\ \/ part = "rpc"   /\ Rpc!Next
       \/ part = "split" /\ Spl!Next /\ UNCHANGED <<x4, x5, x6, x7, x8, x9>>
       \/ part = "read"  /\ Rea!Next /\ UNCHANGED <<x5, x6, x7, x8, x9>>
       \/ part = "write" /\ Wri!Next /\ UNCHANGED x9
       \/ part = "stat1" /\ St1!Next /\ UNCHANGED x9
       \/ part = "stat2" /\ St2!Next /\ UNCHANGED x9
       \/ part = "locks" /\ Loc!Next /\ UNCHANGED <<x4, x5, x6, x7, x8, x9>>
       \/ part = "watch" /\ Obs!Next
       \/ part = "mts"   /\ Mts!Next
       \/ part = "sel"   /\ Sel!Next /\ UNCHANGED x9
       \/ part = "reads" /\ Rds!Next
       \/ part = "start" /\ Dae!Next

\* The multiplexer delivers what has arrived (see JsonRpc!Fairness); the daemon's threads go on (see Daemon!Fairness).  Nothing is
\* asked of the other services.
Spec ==
    /\ Init /\ [][Next]_vars
    /\ \A step \in {"main", "srv", "aux"} :
        WF_vars(part = "start" /\ x9 = "no" /\ Dae!ThreadStep(step) /\ UNCHANGED part)
    /\ SF_vars(part = "start" /\ x9 = "no" /\ Dae!client_connect(TRUE) /\ UNCHANGED part)
    /\ \A p \in {p1, p2} : []<>(part = "rpc" => p \in x6 \/ x5[p] = <<>>)

\* An answer reaches the method that asked, or one that is not cleaned and has kept its id from
\* an earlier session; while nobody has released the connection each call is in one place, and
\* _in_ids are the requests still to be answered (see JsonRpc).
AnswersItsCall ==
    part = "rpc" => Rpc!AnswersItsCall /\ Rpc!CallIsSomewhere /\ Rpc!InIdsAreUnanswered

\* A call whose handler returns true is answered unless the connection is dropped (see
\* JsonRpc!CallsEnd).
CallsEnd ==
    \A p \in {p1, p2}, m \in {"set", "del", "rep_setstate"}, id \in 1 .. 2 :
        (part = "rpc" /\ <<m, id>> \in x9[p]) ~> (part = "rpc" => <<m, id>> \notin x9[p] \/ x6 # {})

\* Bytes go through in order and once, in whatever blocks they come and whatever sizes
\* are asked for: split at separators, read through a buffer, and written in blocks
\* that a broken connection starts again (see Splitter, BufferedRead and SmartWrite).
BytesKeepOrder ==
    /\ part = "split" => Spl!SplitsAnyBlocks
    /\ part = "read"  => Rea!ReadsInOrder
    /\ part = "write" => Wri!WholeInOrder /\ Wri!CountsWhatIsLeft /\ Wri!CountersNeverThrow

\* The records of a thread agree with the clock but for the calls get_span measures wrongly, and
\* with several threads no span is counted twice and no mark outlives its call (see Statistics).
StatsOfMethod ==
    /\ part = "stat1" => St1!StatsOfMethod /\ St1!CountedOnce
    /\ part = "stat2" => St2!CountedOnce

\* multispinlock has one writer at a time and counts its readers (see SpinLocks).
OneWriter == part = "locks" => Loc!OneWriter /\ Loc!CountsReaders

\* Everyone gets a turn: fire calls every observer however handlers change the two
\* sets, every accepted descriptor goes to one child in turn, and select calls the
\* handler of every event it found (see Observer, MtServer and Selector).
EveryoneIsServed ==
    /\ part = "watch" => Obs!MirrorSets /\ Obs!FireCallsEveryone
    /\ part = "mts"   => Mts!Placed /\ Mts!TurnsGoRound
    /\ part = "sel"   => Sel!FdSizeCovers /\ Sel!EveryEventIsServed

\* get returns values that were there during the call, and get_range the part of one
\* state of the store that was asked for (see Reads).
ReadsSeeStore == part = "reads" => Rds!GetSawIt /\ Rds!RangeIsSlice

\* Whoever serves finds the store and the queues in place, and every queue has a
\* thread (see Daemon).
ReadyBeforeServing == part = "start" => Dae!ReadyBeforeServing /\ Dae!EveryQueueServed

\* The daemon is up in all its parts in the end, or its process is over (see
\* Daemon!AllOrNothing).
AllOrNothing == <>[](part = "start" => x9 # "no" \/ Dae!Whole)

\* A slave that loses its master is connected again, time after time (see
\* Daemon!SlaveReturns).
SlaveReturns == []<>(part = "start" => x9 # "no" \/ ~x1.id \/ x8)
=============================================================================
