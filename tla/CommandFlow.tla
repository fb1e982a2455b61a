----------------------------- MODULE CommandFlow -----------------------------
(***************************************************************************)
(* Commands of a connection (fas/misc/command and the command connection   *)
(* of json_rpc3).  A command that comes in is bound to the processors of   *)
(* its kind, which are pushed on its stack above the callback to the       *)
(* connection, and executed.  A processor passes it on, answers it, or     *)
(* parks it in a wait list under one of the list's orders, from where an   *)
(* answer with an equal key, a search, or old age takes it out again.      *)
(***************************************************************************)
EXTENDS Integers, Sequences, FiniteSets

CONSTANTS
    Command,       \* the commands that come in
    Kinds,         \* sequence of the kinds of commands: one wait list for each
    KindOf,        \* KindOf[c]
    TargetsOf,     \* TargetsOf[k]: the processors of kind k, in the order of its tags
    CalledBack,    \* the kinds for which the connection has a processor to call back
    Orders,        \* the orders of a wait list
    KeyOf,         \* KeyOf[c][o]: the member that order o sorts by
    MaxSize,       \* MAX_WL_SIZE
    Lifetime, MaxTime

VARIABLES cmd,     \* cmd[c]: type, state, status, mode and stack of the command
          lists,   \* lists[k][o]: set of [c, created]
          running, \* the commands in the hands of a processor
          trace,   \* trace[c]: the processors that have had c
          now
vars == <<cmd, lists, running, trace, now>>

Callback == "callback"

-----------------------------------------------------------------------------
(* basic_command.                                                          *)

basic_command == [type |-> "undefined", state |-> "unready", status |-> "undefined",
                  mode |-> "incoming", stack |-> <<>>]

waitState(b) == [b EXCEPT !.state = "wait", !.status = "undefined"]
readyForced(b) == [b EXCEPT !.state = "ready"]
ready(b) == [b EXCEPT !.state = "ready", !.status = IF @ = "undefined" THEN "ok" ELSE @]
as_request(b)  == [waitState(b) EXCEPT !.type = "request"]
as_response(b) == [ready(b) EXCEPT !.type = "response"]
as_notify(b)   == [b EXCEPT !.type = "notify", !.state = IF @ = "wait" THEN @ ELSE "ready"]
set_error(b)   == [b EXCEPT !.status = "error"]

\* The stack of processors; its top is the last element.
push(b, p) == [b EXCEPT !.stack = Append(@, p)]
top(b) == b.stack[Len(b.stack)]
pop(b) == [b EXCEPT !.stack = SubSeq(@, 1, Len(@) - 1)]

\* command_binder::_bind binds the last tag first.
bindForward(b, targets) == [b EXCEPT !.stack = @ \o targets]
bind(b, targets) ==
    [b EXCEPT !.stack = @ \o [i \in DOMAIN targets |-> targets[Len(targets) + 1 - i]]]

\* callback_binder.  All targets are set: for one that is not, the binder throws and the
\* command is dropped before anything else has changed.
Bound(b, k) == bind(IF k \in CalledBack THEN push(b, Callback) ELSE b, TargetsOf[k])

-----------------------------------------------------------------------------
(* ordered_by_t, wait_list and multi_wait_list.                            *)

Key(e, o) == KeyOf[e.c][o]
Smallest(s, o) == CHOOSE e \in s : \A f \in s : Key(e, o) <= Key(f, o)

\* At most one is over the limit, and the one with the least key goes.
MakeRoom(s, o) == IF Cardinality(s) > MaxSize THEN s \ {Smallest(s, o)} ELSE s

insert(c, o) ==
    lists' = [lists EXCEPT ![KindOf[c]][o] = MakeRoom(@, o) \cup {[c |-> c, created |-> now]}]

Equal(c, o) == {e \in lists[KindOf[c]][o] : Key(e, o) = KeyOf[c][o]}
Old(k, o) == {e \in lists[k][o] : now - e.created >= Lifetime}
LeaveStaying(k, out) == UNCHANGED lists
Leave(k, out) == lists' = [lists EXCEPT ![k] = [o \in Orders |-> @[o] \ out[o]]]
Names(out) == UNION {{e.c : e \in out[o]} : o \in Orders}

probe(c) == \E o \in Orders : Equal(c, o) # {}

-----------------------------------------------------------------------------
Init ==
    /\ cmd = [c \in Command |-> basic_command]
    /\ lists = [k \in {Kinds[i] : i \in DOMAIN Kinds} |-> [o \in Orders |-> {}]]
    /\ running = {} /\ trace = [c \in Command |-> <<>>] /\ now = 0

\* command::execute for all of cs, whose fields are those of f: the top of the
\* stack gets the command.
Execute(cs, f) ==
    LET go == {c \in cs : f[c].stack # <<>>}
    IN  /\ cmd' = [c \in Command |-> IF c \in go THEN pop(f[c]) ELSE f[c]]
        /\ trace' = [c \in Command |-> IF c \in go THEN Append(trace[c], top(f[c])) ELSE trace[c]]
        /\ running' = (running \ cs) \cup go

One(c, b) == [cmd EXCEPT ![c] = b]

\* _process_request, _process_response and _process_notify of the connection.
Incoming(b) == [b EXCEPT !.mode = "incoming"]
Receive(c) ==
    /\ trace[c] = <<>>
    /\ \/ Execute({c}, One(c, Bound(Incoming(as_request(cmd[c])), KindOf[c])))
       \/ Execute({c}, One(c, Bound(Incoming(as_response(cmd[c])), KindOf[c])))
       \/ Execute({c}, One(c, Bound(Incoming(as_notify(cmd[c])), KindOf[c])))
    /\ UNCHANGED <<lists, now>>

\* A processor, also the callback at the end.
Pass(c) ==
    /\ c \in running
    /\ Execute({c}, cmd)
    /\ UNCHANGED <<lists, now>>

Answer(c) ==
    /\ c \in running /\ cmd[c].type = "request"
    /\ \E fail \in BOOLEAN :
          Execute({c}, One(c, IF fail THEN set_error(as_response(cmd[c])) ELSE as_response(cmd[c])))
    /\ UNCHANGED <<lists, now>>

Park(c) ==
    /\ c \in running /\ cmd[c].stack # <<>>
    /\ \E o \in Orders : insert(c, o)
    /\ running' = running \ {c}
    /\ UNCHANGED <<cmd, trace, now>>

\* Someone who has got a command like c takes out all that wait for it.
Extract(c) ==
    /\ probe(c)
    /\ LET out == [o \in Orders |-> Equal(c, o)]
       IN  /\ Leave(KindOf[c], out)
           /\ Execute(Names(out), [x \in Command |-> IF x \in Names(out) THEN as_response(cmd[x]) ELSE cmd[x]])
    /\ UNCHANGED now

\* process with a predicate: those it refuses stay.  It must not change the list it is
\* called from (wait_list.hpp:93), so that what is executed goes on after the search.
Process(c) ==
    /\ probe(c)
    /\ \E some \in SUBSET Names([o \in Orders |-> Equal(c, o)]) :
         LET out == [o \in Orders |-> {e \in Equal(c, o) : e.c \in some}]
         IN  /\ Leave(KindOf[c], out)
             /\ Execute(some, [x \in Command |-> IF x \in some THEN as_response(cmd[x]) ELSE cmd[x]])
    /\ UNCHANGED now

\* multi_wait_list::process by age.  Only the list of the first kind is
\* processed: the sum over the others stands behind the return.
Expire ==
    /\ LET out == [o \in Orders |-> Old(Kinds[1], o)]
       IN  /\ Names(out) # {}
           /\ Leave(Kinds[1], out)
           /\ Execute(Names(out),
                      [x \in Command |-> IF x \in Names(out) THEN set_error(as_response(cmd[x])) ELSE cmd[x]])
    /\ UNCHANGED now

Clear ==
    /\ lists # [k \in DOMAIN lists |-> [o \in Orders |-> {}]]
    /\ lists' = [k \in DOMAIN lists |-> [o \in Orders |-> {}]]
    /\ UNCHANGED <<cmd, running, trace, now>>

Tick == now < MaxTime /\ now' = now + 1 /\ UNCHANGED <<cmd, lists, running, trace>>

Next ==
    \/ \E c \in Command : Receive(c) \/ Pass(c) \/ Answer(c) \/ Park(c) \/ Extract(c) \/ Process(c)
    \/ Expire \/ Clear \/ Tick

-----------------------------------------------------------------------------
(* Parked or not, answered, found or too old: a command visits the         *)
(* processors of its kind in the order of their tags and its callback, if  *)
(* it has one, last, each once, and what it has still to visit is on its   *)
(* stack.                                                                  *)
TargetsInOrder ==
    \A c \in Command :
        LET stack == cmd[c].stack
            rest  == [i \in DOMAIN stack |-> stack[Len(stack) + 1 - i]]
            back  == IF KindOf[c] \in CalledBack THEN <<Callback>> ELSE <<>>
        IN  trace[c] # <<>> => trace[c] \o rest = TargetsOf[KindOf[c]] \o back

(* A command is in one place: with a processor or waiting in one order, so *)
(* that no answer, search or timeout continues it twice.                   *)
InOnePlace ==
    \A c \in Command :
        LET places == {<<k, o>> \in (DOMAIN lists) \X Orders : \E e \in lists[k][o] : e.c = c}
        IN  /\ Cardinality(places) <= 1
            /\ c \in running => places = {}
            /\ places # {} => trace[c] # <<>> /\ cmd[c].stack # <<>>

(* What arrives at the callback as an answer is ready and either good or   *)
(* an error, and no order ever keeps more than one command over its limit. *)
AnswersAreDecided ==
    /\ \A c \in Command :
         cmd[c].type = "response" => cmd[c].state = "ready" /\ cmd[c].status \in {"ok", "error"}
    /\ \A k \in DOMAIN lists, o \in Orders : Cardinality(lists[k][o]) <= MaxSize + 1
=============================================================================
