------------------------------ MODULE JsonRpc ------------------------------
(***************************************************************************)
(* JSON-RPC over one connection (fas/adv/json_rpc3) as the daemon sets it  *)
(* up (common/aspect/json_aspect.hpp): both ends call methods of the other *)
(* end, send notifications, answer at once or later, and drop the          *)
(* connection after an error.  TCP delivers in order; a session ends when  *)
(* one end has released it, what is still on the way is lost, and both     *)
(* ends clear themselves for the next one.                                 *)
(*                                                                         *)
(* A message has the members the search in ad_invoke looks for; None and   *)
(* NoId are absent ones.  good says whether its params can be read as the  *)
(* type of the method.  by is not transmitted: it names the method that    *)
(* asked, by which an answer has its type.                                 *)
(***************************************************************************)
EXTENDS Integers, Sequences, SequencesExt, Bags, FiniteSets

CONSTANTS
    Peer,           \* the two ends
    MethodList,     \* the method list of either end, in its order
    Kind,           \* method -> the type of its results
    Calls,          \* peer -> the methods of the other end it calls
    Silent,         \* the methods whose handler returns false: they answer later, or never
    Notified,       \* the methods with invoke_notify
    Cleaned,        \* the methods whose advice is in the group _cleaner_
    Packets,        \* what a client of another make may send
    MaxPacket,      \* ad_invoke reads no more messages of a packet than this
    MaxCalls,       \* bound: calls and notifications of an end in a session
    MaxSessions     \* bound

VARIABLES
    id_count,       \* ad_invoke::_id_count
    in_ids,         \* ad_invoke::_in_ids, a multiset
    out_ids,        \* caller::_out_ids of every method
    pending,        \* requests a Silent handler has not answered yet
    wire,           \* packets on the way to an end
    released,       \* ends that have called release
    open,           \* the calls of this session that are not answered (history)
    calls, session  \* for the bounds

vars == <<id_count, in_ids, out_ids, pending, wire, released, open, calls, session>>

Method == ToSet(MethodList)

None == ""
NoId == 0
Message(m, r, i, by, good) == [method |-> m, result |-> r, id |-> i, by |-> by, good |-> good]
Other(p) == CHOOSE q \in Peer : q # p

TypeOK ==
    /\ id_count \in [Peer -> 0 .. MaxCalls]
    /\ \A p \in Peer : IsABag(in_ids[p])
    /\ out_ids \in [Peer -> [Method -> SUBSET (1 .. MaxCalls)]]
    /\ \A p \in Peer : pending[p] \subseteq Silent \X Int
    /\ released \subseteq Peer

\* ad_cleaner calls clear of the advices in the group: ad_invoke forgets the
\* ids it received and counts from 0, a method of the group its calls; the
\* other methods keep the ids they wait for.
Cleared ==
    /\ id_count' = [p \in Peer |-> 0]
    /\ in_ids'   = [p \in Peer |-> EmptyBag]
    /\ out_ids'  = [p \in Peer |-> [m \in Method |-> IF m \in Cleaned THEN {} ELSE out_ids[p][m]]]
    /\ pending'  = [p \in Peer |-> {}]
    /\ wire'     = [p \in Peer |-> <<>>]
    /\ released' = {}
    /\ open'     = [p \in Peer |-> {}]
    /\ calls'    = [p \in Peer |-> 0]

Init ==
    /\ id_count = [p \in Peer |-> 0]
    /\ in_ids = [p \in Peer |-> EmptyBag]
    /\ out_ids = [p \in Peer |-> [m \in Method |-> {}]]
    /\ pending = [p \in Peer |-> {}]
    /\ wire = [p \in Peer |-> <<>>]
    /\ released = {}
    /\ open = [p \in Peer |-> {}]
    /\ calls = [p \in Peer |-> 0]
    /\ session = 1

\* mutant of create_id: every method counts its own calls
create_idPerMethod(p, m) == Cardinality(out_ids[p][m]) + 1
create_id(p, m) == id_count[p] + 1

\* caller::request
Call(p, m) ==
    LET id == create_id(p, m)
    IN  /\ p \notin released
        /\ m \in Calls[p] /\ calls[p] < MaxCalls
        /\ id_count' = [id_count EXCEPT ![p] = @ + 1]
        /\ out_ids' = [out_ids EXCEPT ![p][m] = @ \cup {id}]
        /\ wire' = [wire EXCEPT ![Other(p)] = Append(@, <<Message(m, None, id, m, TRUE)>>)]
        /\ open' = [open EXCEPT ![p] = @ \cup {<<m, id>>}]
        /\ calls' = [calls EXCEPT ![p] = @ + 1]
        /\ UNCHANGED <<in_ids, pending, released, session>>

\* notifier::notify
Notify(p, m) ==
    /\ p \notin released
    /\ m \in Notified /\ calls[p] < MaxCalls
    /\ wire' = [wire EXCEPT ![Other(p)] = Append(@, <<Message(m, None, NoId, m, TRUE)>>)]
    /\ calls' = [calls EXCEPT ![p] = @ + 1]
    /\ UNCHANGED <<id_count, in_ids, out_ids, pending, released, open, session>>

\* A client of another make: a packet of its own, several messages long or
\* with something wrong in it.
Foreign(p, packet) ==
    /\ p \notin released
    /\ calls[p] = 0
    /\ wire' = [wire EXCEPT ![Other(p)] = Append(@, packet)]
    /\ calls' = [calls EXCEPT ![p] = MaxCalls]
    /\ UNCHANGED <<id_count, in_ids, out_ids, pending, released, open, session>>

----------------------------------------------------------------------------
(* ad_invoke.  One end is the record [ids, out, pend, sent, stop, rel]: its *)
(* multiset of ids, the ids of its calls, the requests it keeps, what it   *)
(* writes, whether the packet is abandoned and the connection released.    *)

Forget(ids, id) == IF BagIn(id, ids) THEN ids (-) SetToBag({id}) ELSE ids

\* mutant of Answer: the id stays in the multiset
AnswerKeeping(e, id, msg) == [e EXCEPT !.sent = Append(@, <<msg>>)]

\* ad_invoke::response and ad_invoke::error
Answer(e, id, msg) == [e EXCEPT !.ids = Forget(@, id), !.sent = Append(@, <<msg>>)]

\* ad_invalid_json, ad_unknown_method: an error with no id, and release.
Fail(e) ==
    [Answer(e, NoId, Message(None, None, NoId, None, TRUE)) EXCEPT !.stop = TRUE, !.rel = TRUE]

\* mutant of invoke_request: the test of what the handler returned is the wrong way round
invoke_requestInverted(e, msg) ==
    IF ~msg.good THEN Fail(e)
    ELSE IF msg.method \in Silent THEN Answer(e, msg.id, Message(None, "value", msg.id, msg.by, TRUE))
    ELSE [e EXCEPT !.pend = @ \cup {<<msg.method, msg.id>>}]

\* mutant of invoke_request: a Silent method answers at once and again later
invoke_requestAnswering(e, msg) ==
    IF ~msg.good THEN Fail(e)
    ELSE Answer([e EXCEPT !.pend = IF msg.method \in Silent THEN @ \cup {<<msg.method, msg.id>>} ELSE @],
                msg.id, Message(None, "value", msg.id, msg.by, TRUE))

\* invoker::request: there is no answer when the handler returns false
invoke_request(e, msg) ==
    IF ~msg.good THEN Fail(e)
    ELSE IF msg.method \in Silent THEN [e EXCEPT !.pend = @ \cup {<<msg.method, msg.id>>}]
    ELSE Answer(e, msg.id, Message(None, "value", msg.id, msg.by, TRUE))

\* notified::notify; a method without invoke_notify reads nothing, which ends the packet
invoke_notify(e, msg) ==
    IF msg.method \notin Notified THEN [e EXCEPT !.stop = TRUE]
    ELSE IF msg.good THEN e ELSE Fail(e)

\* _invoke with the id of an answer, and caller::response: the first method of the list that
\* has the id takes the answer and reads it as a result of its own type; nobody's answer is
\* handed to _lost_result_, which does nothing.
invoke_response(e, msg) ==
    LET owners == SelectSeq(MethodList, LAMBDA m : msg.id \in e.out[m])
        m == Head(owners)
        given == [e EXCEPT !.took = Append(@, <<m, msg.by, msg.id>>)]
        reads == msg.good /\ (msg.by \in Method => Kind[msg.by] = Kind[m])
    IN  IF owners = <<>> THEN [e EXCEPT !.stop = TRUE]
        ELSE IF ~reads THEN Fail(given)
        ELSE [given EXCEPT !.out[m] = @ \ {msg.id}]

\* The code given to _invoke is -1 for a request and -2 for a notification,
\* and the id for an answer: one with a negative id is taken for a call of
\* an unknown method.
_invoke_1(e, msg) ==
    LET received == [e EXCEPT !.ids = @ (+) SetToBag({msg.id})]
        known == msg.method \in Method
    IN  CASE msg.method = None /\ msg.result = None -> Fail(e)
          [] msg.result # None /\ (msg.id = NoId \/ msg.method # None) -> Fail(e)
          [] msg.method # None /\ msg.result = None /\ msg.id # NoId ->
                IF known THEN invoke_request(received, msg) ELSE Fail(received)
          [] msg.method # None /\ msg.result = None /\ msg.id = NoId ->
                IF known THEN invoke_notify(e, msg) ELSE Fail(e)
          [] msg.result # None /\ msg.method = None /\ msg.id < 0 -> Fail(e)
          [] OTHER -> invoke_response(e, msg)

\* The messages of a packet one after the other.
Run(e, packet) ==
    FoldLeft(LAMBDA x, msg : IF x.stop THEN x ELSE _invoke_1(x, msg), e,
             SubSeq(packet, 1, IF Len(packet) < MaxPacket THEN Len(packet) ELSE MaxPacket))

Worked(p) ==
    Run([ids |-> in_ids[p], out |-> out_ids[p], pend |-> pending[p], sent |-> <<>>,
         took |-> <<>>, stop |-> FALSE, rel |-> FALSE], Head(wire[p]))

\* ad_invoke::operator()
Invoke(p) ==
    LET e == Worked(p)
    IN  /\ p \notin released
        /\ wire[p] # <<>>
        /\ in_ids' = [in_ids EXCEPT ![p] = e.ids]
        /\ out_ids' = [out_ids EXCEPT ![p] = e.out]
        /\ pending' = [pending EXCEPT ![p] = e.pend]
        /\ wire' = [wire EXCEPT ![p] = Tail(@), ![Other(p)] = @ \o e.sent]
        /\ released' = IF e.rel THEN released \cup {p} ELSE released
        /\ open' = [open EXCEPT ![p] = @ \ {<<g[2], g[3]>> : g \in ToSet(e.took)}]
        /\ UNCHANGED <<id_count, calls, session>>

\* invoker::response: the handler of a Silent method answers after all; one of
\* another make may answer with a value the caller cannot read.
Respond(p) ==
    \E r \in pending[p], good \in BOOLEAN :
        /\ p \notin released
        /\ in_ids' = [in_ids EXCEPT ![p] = Forget(@, r[2])]
        /\ wire' = [wire EXCEPT ![Other(p)] = Append(@, <<Message(None, "value", r[2], r[1], good)>>)]
        /\ pending' = [pending EXCEPT ![p] = @ \ {r}]
        /\ UNCHANGED <<id_count, out_ids, released, open, calls, session>>

\* An end has released the connection and the other has read what it sent.
Hangup ==
    /\ \E p \in released : wire[Other(p)] = <<>> \/ Other(p) \in released
    /\ session < MaxSessions
    /\ session' = session + 1
    /\ Cleared

Next ==
    \/ \E p \in Peer, m \in Method : Call(p, m) \/ Notify(p, m)
    \/ \E p \in Peer, packet \in Packets : Foreign(p, packet)
    \/ \E p \in Peer : Invoke(p) \/ Respond(p)
    \/ Hangup

\* The multiplexer delivers what has arrived: an end that is not released time
\* and again has nothing left to read.
Fairness == \A p \in Peer : []<>(p \in released \/ wire[p] = <<>>)

----------------------------------------------------------------------------

Messages(packets) == UNION {ToSet(packets[i]) : i \in DOMAIN packets}

\* caller::response gives an answer to the method that asked, since ids are
\* drawn from one counter for all the methods of an end; only a method that is
\* not cleaned, and has kept the same id from an earlier session, may take it
\* instead.  A method that is cleaned waits for ids of this session only,
\* and no answer to a call finds nobody waiting.
AnswersItsCall ==
    \A p \in Peer :
        /\ wire[p] # <<>> =>
            \A g \in ToSet(Worked(p).took) :
                g[1] = g[2] \/ (g[1] \notin Cleaned /\ <<g[1], g[3]>> \notin open[p])
        /\ \A m \in Cleaned : out_ids[p][m] \subseteq 1 .. id_count[p]
        /\ \A c \in open[p] : c[2] \in out_ids[p][c[1]]

\* While nobody has released the connection, each call of this session that is
\* not answered is in exactly one place: its request is on the way, the other
\* end's handler keeps it, or its answer is on the way back.
CallIsSomewhere ==
    released = {} =>
        \A p \in Peer : \A c \in open[p] :
            LET asked  == \E g \in Messages(wire[Other(p)]) : g.method = c[1] /\ g.id = c[2]
                kept   == c \in pending[Other(p)]
                answer == \E g \in Messages(wire[p]) : g.result # None /\ g.id = c[2]
            IN  /\ asked \/ kept \/ answer
                /\ ~(asked /\ kept) /\ ~(kept /\ answer) /\ ~(asked /\ answer)

\* _in_ids holds the ids of exactly the requests this end has accepted and not
\* answered, however many messages a packet had, as long as it has not
\* released the connection.
InIdsAreUnanswered ==
    \A p \in Peer \ released :
        /\ BagCardinality(in_ids[p]) = Cardinality(pending[p])
        /\ \A r \in pending[p] : BagIn(r[2], in_ids[p])

\* A call of a method whose handler returns true is answered, also when ids of
\* earlier sessions are still waited for, unless the connection is dropped.
CallsEnd ==
    \A p \in Peer : \A m \in Calls[p] \ Silent : \A id \in 1 .. MaxCalls :
        (<<m, id>> \in open[p]) ~> (<<m, id>> \notin open[p] \/ released # {})

=============================================================================
