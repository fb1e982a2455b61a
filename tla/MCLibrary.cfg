CONSTANTS
    t1 = t1
    t2 = t2
    Thread <- Threads
    EntryPoints <- DaemonEntries
    CalledBy <- DaemonCalls
    Guard <- DaemonLocks
    Unguarded <- NoLock
    Shared <- DaemonShared
    Context <- DaemonPaths
    Rank <- DaemonRanks
    Gate <- DaemonGates
    Type = {}
    Base = {}
SYMMETRY Symmetry
SPECIFICATION LibrarySpec
CHECK_DEADLOCK FALSE
INVARIANTS NoCircularWait WritesUnderLock StatusIsTrue TargetsInOrder PeersUnderstand
