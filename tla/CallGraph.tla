------------------------------ MODULE CallGraph ------------------------------
(***************************************************************************)
(* Who calls whom under which lock.  One tuple per method: its class, its  *)
(* name, the lock its body holds while it makes its calls, and the calls,  *)
(* each of which the body makes or not depending on data.                  *)
(*                                                                         *)
(*   Self(f)   f as this class sees it        Super(f)  as its base does   *)
(*   This(f)   f of the most derived class    Use(c, f) f of a helper c    *)
(*   Tag(t, f) f of the advice with tag t     Group(g, f) of every advice  *)
(*             "()" is the call operator                of the group g     *)
(*   Owner(f)  the server of a connection     Item(f)   its connections    *)
(*   Link(f)   the connection a request of the multiserver came from       *)
(*                                                                         *)
(* A write without data is called flush; release(true), which takes the    *)
(* mutex, is called release_locked.                                        *)
(***************************************************************************)
EXTENDS Wiring, TLC

Self(f)     == <<"self", "", f>>
Super(f)    == <<"super", "", f>>
This(f)     == <<"this", "", f>>
Use(c, f)   == <<"use", c, f>>
Tag(t, f)   == <<"tag", t, f>>
Call(t)     == Tag(t, "()")
Each(g, f)  == <<"group", g, f>>
Owner(f)    == <<"owner", "", f>>
Item(f)     == <<"item", "", f>>
Link(f)     == <<"link", "", f>>

Free(c, f, calls) == <<c, f, "", calls>>
\* The public method f locks the object's mutex and calls _f.
Locking(c, fs) == {<<c, f, "mutex", {Self("_" \o f)}>> : f \in fs}

-----------------------------------------------------------------------------
(* The filters.                                                            *)

basic_filter ==
    {Free("basic_filter", "_read", {Call("_read_policy_")}),
     Free("basic_filter", "_write", {Call("_write_policy_")}),
     Free("basic_filter", "_flush", {Tag("_write_policy_", "flush")})}

ad_reader == {Free("ad_reader", "()", {This("_read")})}
ad_writer == {Free("ad_writer", "()", {This("_write")})}

ad_binary_read ==
    {Free("ad_binary_read", "()", {Call(t) : t \in {"_read_", "_on_read_", "_on_rclosed_", "_on_rerror_"}})}
ad_binary_write ==
    {Free("ad_binary_write", f, {Call(t) : t \in {"_write_", "_on_write_", "_on_wclosed_", "_on_werror_"}})
        : f \in {"()", "flush"}}

ad_cleaner ==
    {Free("ad_cleaner", "()", {Self("clear")}), Free("ad_cleaner", "clear", {Each("_cleaner_", "clear")})}

binary_filter_public ==
    Locking("binary_filter", {"get_rd", "get_wd", "get_rstatus", "get_wstatus", "get_status", "assign",
                              "read", "write", "flush", "ready"})
binary_filter ==
    {Free("binary_filter", "_assign", {Tag("_cleaner_advice_", "clear"), Call("_on_assign_")}),
     Free("binary_filter", "_release", {Tag("_cleaner_advice_", "clear"), Call("_on_release_")}),
     Free("binary_filter", "_read", {Super("_read")}),
     Free("binary_filter", "_write", {Call("_on_writing_"), Super("_write")}),
     Free("binary_filter", "_flush", {Super("_flush")})}

mux_filter_public ==
    Locking("mux_filter_base", {"read", "write", "flush", "assign", "get_status", "set_write_handler"})
    \cup {<<"mux_filter_base", "set_mux", "mutex", {}>>}

\* A handler; an exception of the advice or of the reading goes to _e_ready_.
mux_filter_ready ==
    {Free("mux_filter_base", "_ready_read",
          {Call("_on_ready_read_"), Self("_read"), Call("_e_ready_read_")}),
     Free("mux_filter_base", "_ready_write",
          {Self("_flush"), Call("_on_ready_write_"), Call("_e_ready_write_")}),
     Free("mux_filter_base", "_ready_urgent", {Call("_on_ready_urgent_"), Call("_e_ready_urgent_")}),
     Free("mux_filter_base", "_ready_error", {Call("_on_ready_error_"), Call("_e_ready_error_")})}

mux_filter_assign ==
    {Free("mux_filter_base", "_assign",
          {This("release"), Super("_assign"), Self("_set_write_handler_if_ready")}),
     Free("mux_filter_base", "_release", {Super("_release")})}

mux_filter_write ==
    {Free("mux_filter_base", "_read", {Super("_read"), This("release")}),
     Free("mux_filter_base", "_write",
          {Super("_write"), Self("_set_write_handler_if_ready"), This("release")}),
     Free("mux_filter_base", "_flush",
          {Super("_flush"), Self("_set_write_handler_if_ready"), This("release")})}

mux_filter_handlers ==
    {Free("mux_filter_base", "_set_write_handler_if_ready", {Self("_set_write_handler"), This("release")})}

ad_release   == {Free("ad_release", "()", {This("release")})}
ad_exception == {Free("ad_exception", "()", {This("release")})}

-----------------------------------------------------------------------------
(* Connections and clients.                                                *)

connection_public ==
    Locking("connection", {"get_local_address", "get_remote_address", "get_local_ip", "get_remote_ip",
                           "assign", "close"})
connection ==
    {Free("connection", "_assign",
          {Super("_assign"), Call("_on_connection_assign_"), Call("_on_connection_close_")}),
     Free("connection", "_close", {Call("_on_connection_close_")})}

mux_connection_base ==
    Locking("mux_connection_base", {"assign", "set_write_handler"})
    \cup {Free("mux_connection_base", "_release", {Super("_release"), Super("_close")}),
          Free("mux_connection_base", "_assign", {Super("_assign")})}

mux_connection ==
    {<<"mux_connection", f, "mutex", {Super("_" \o f)}>>
        : f \in {"ready_read", "ready_write", "ready_urgent", "ready_error", "assign", "set_write_handler"}}
    \cup {Free("mux_connection", "release", {Super("_release")}),
          <<"mux_connection", "release_locked", "mutex", {Super("_release")}>>}

pooled_item ==
    {Free("pooled_item", "release", {Super("release"), Owner("pool_free")}),
     Free("pooled_item", "release_locked", {Super("release_locked"), Owner("pool_free")})}

client_public ==
    Locking("client", {"connect", "reconnect", "close", "get_status", "read", "write", "flush"})
client_connect ==
    {Free("client", "_connect",
          {Self("_connect_ready"), Self("_close"), Super("_assign"), Call("_on_connect_error_"),
           Call("_on_client_connect_"), Call("_on_client_connected_")})}
client_close ==
    {Free("client", "_reconnect", {Self("_close"), Self("_connect")}),
     Free("client", "_close", {Super("_close")})}
client_write ==
    {Free("client", "_read", {Self("_check_and_write"), Super("_read")}),
     Free("client", "_write", {Self("_check_and_write"), Super("_write")}),
     Free("client", "_flush", {Self("_check_and_write"), Super("_flush")}),
     Free("client", "_check_and_write", {Self("_connect_ready")})}
client_connect_ready ==
    {Free("client", "_connect_ready",
          {Super("_assign"), Call("_on_client_connected_"), Call("_on_connect_error_"), Super("_write")})}

mux_client_ready ==
    {Free("mux_client_base", "_ready_read", {Super("_ready_read")})}
    \cup {Free("mux_client_base", f, {Super("_connect_ready"), Super(f)})
             : f \in {"_ready_write", "_ready_urgent", "_ready_error"}}
mux_client_connect ==
    {Free("mux_client_base", "_connect",
          {Super("_connect_ready"), This("release"), Super("_connect"), Super("_set_write_handler")})}
mux_client_base ==
    {Free("mux_client_base", "_reconnect", {This("release"), Self("_connect")}),
     Free("mux_client_base", "_release", {Super("_connect_ready"), Super("_release"), Super("_close")}),
     Free("mux_client_base", "_close", {This("release")})}
mux_client ==
    {<<"mux_client", f, "mutex", {Super("_" \o f)}>>
        : f \in {"connect", "close", "reconnect", "ready_read", "ready_write", "ready_urgent", "ready_error"}}
    \cup {Free("mux_client", "release", {Super("_release")}),
          <<"mux_client", "release_locked", "mutex", {Super("_release")}>>}

on_connect_error    == {Free("on_connect_error", "()", {This("close")})}
on_connection_close == {Free("on_connection_close", "()", {This("close")})}

server_udp ==
    {Free("server_udp", "ready_read", {Call("_on_read_")}), Free("server_udp", "release", {}),
     Free("server_udp", "_udp_write", {})}
ad_udp_write == {Free("ad_udp_write", "()", {This("_udp_write")})}

-----------------------------------------------------------------------------
(* Servers and their pools.  The queue of a pool's freed items has a mutex *)
(* of its own, so that a connection can be freed while the pool is locked. *)

server_public ==
    Locking("server_base", {"get_status", "start", "idle_start", "stop", "accept"})
    \cup {<<"server_base", f, "mutex", {Self("active_count")}>> : f \in {"get_connection_count"}}
server_ready ==
    {Free("server_base", "_ready_read", {Call("_on_server_ready_read_"), Self("_accept")}),
     Free("server_base", "_ready_write", {Call("_on_server_ready_write_")}),
     Free("server_base", "_ready_urgent", {Call("_on_server_ready_urgent_")}),
     Free("server_base", "_ready_error", {Call("_on_server_ready_error_"), Self("_stop")})}
server_start ==
    {Free("server_base", f, {Call("_on_server_start_")}) : f \in {"_start", "_idle_start"}}
server_accept ==
    {Free("server_base", "_accept",
          {Super("active_count"), Super("pool_create"), Item("assign"), Call("_on_server_accept_"),
           Call("_on_server_accept_error_")})}
\* The multiplexer is run from inside; the server's own descriptor is closed.
server_stop ==
    {Free("server_base", "_stop",
          {Super("pool_release"), Super("process_free"), Super("active_count"), Call("_on_server_stop_"),
           Item("ready_read"), Item("ready_write"), Item("ready_urgent"), Item("ready_error")})}
server ==
    {<<"server", f, "mutex", {Super("_" \o f)}>>
        : f \in {"ready_read", "ready_write", "ready_urgent", "ready_error"}}

pool_free == {<<"pool", "pool_free", "queue", {}>>}
pool ==
    {<<"pool", "pool_release", "pool", {Item("release")}>>,
     Free("pool", "pool_create", {Self("process_free"), Self("create_locked")}),
     <<"pool", "create_locked", "pool", {}>>, <<"pool", "active_count", "pool", {}>>}
pool_process_free ==
    {<<"pool", "process_free", "queue", {Self("process_locked")}>>, <<"pool", "process_locked", "pool", {}>>}

-----------------------------------------------------------------------------
(* JSON-RPC: reading, the methods and the writers.                         *)

ad_binary_splitter == {Free("ad_binary_splitter", "()", {Call("_input_")})}

ad_invoke ==
    {Free("ad_invoke", "()",
          {Call(t) : t \in {"_begin_invoke_", "_end_invoke_", "_invalid_json_", "_unknown_method_",
                            "_lost_result_", "_clock_start_", "_clock_finish_"}}
          \cup {Tag("_span_reg_", "mark")}
          \cup {Each("_gmethod_", f) : f \in {"invoke_request", "invoke_notify", "invoke_response"}})}
ad_invoke_out ==
    {Free("ad_invoke", f, {Call("ajr::_writer_")}) : f \in {"request", "response", "notify", "error"}}

ad_proxy == {Free("ad_proxy<_output_>", "()", {Call("_output_")})}
ad_rn_writer == {Free("ad_rn_writer", "()", {Call("af::_writer_")})}

ad_json_error == {Free("ad_json_error", "()", {Tag("_invoke_", "error")})}
ad_invalid_json ==
    {Free(c, "()", {Call("_error_"), This("release")}) : c \in {"ad_invalid_json", "ad_unknown_method"}}

Methods == {"get", "get_range", "set", "del", "add", "inc", "inc_add", "update_packed", "rep_status",
            "rep_setstate", "get_statistics"}

method_invoker ==
    {Free(m, "invoke_request", {Call("_invalid_json_"), Self("request"), Tag("_invoke_", "response")})
        : m \in Methods}
method_caller ==
    {Free(m, "call", {Tag("_invoke_", "request")}) : m \in Methods}
    \cup {Free(m, "invoke_response", {Call("_invalid_json_"), Call("_invalid_id_"), Self("response")})
             : m \in {"set", "del", "rep_setstate"}}

set == {Free("set", "request", {Use("Replication", "send")}),
        Free("set", "response", {Use("Client_t", "on_confirm")})}
del == {Free("del", "request", {Use("Replication", "send")}),
        Free("del", "response", {Use("Client_t", "on_confirm")})}
\* add, inc and inc_add hold the key's lock only while they change the key.
add == {Free("add", "request", {Use("LockManager", "get"), Use("Replication", "send")})}
inc == {Free(m, "request", {Use("LockManager", "get"), Use("Replication", "send")}) : m \in {"inc", "inc_add"}}
update_packed == {<<"update_packed", "request", "key", {Use("Replication", "send")}>>}
rep_status == {Free("rep_status", "request", {Use("Client_t", "write_status")})}
rep_setstate == {Free("rep_setstate", "request", {Use("Replication", "add_client")})}
LockManager == {<<"LockManager", "get", "key", {}>>}
ad_span_reg_mtx == {<<"ad_span_reg_mtx", "mark", "stat", {}>>}

-----------------------------------------------------------------------------
(* Replication writes to the connection that it is called from.            *)

Client_t ==
    {<<"Client_t", "write_status", "client", {}>>, <<"Client_t", "enqueue", "client", {}>>}
Client_t_on_confirm ==
    {<<"Client_t", "on_confirm", "client", {Self("_push_next_portion"), Self("_push_queue_items")}>>}
Client_t_schedule_queue ==
    {Free("Client_t", "_schedule_queue", {This("get_status"), Self("_schedule_locked")}),
     <<"Client_t", "_schedule_locked", "client", {Self("_push_queue_items")}>>}
Client_t_push ==
    {Free("Client_t", "_push_next_portion", {Tag("_set_", "call")}),
     Free("Client_t", "_push_queue_items",
          {Tag("_set_", "call"), Tag("_del_", "call"), Tag("_set_range_", "call")})}
Client_t_sync ==
    {<<"Client_t", "sync_initial", "client", {Self("_push_next_portion")}>>,
     <<"Client_t", "sync_queue", "client", {Self("_push_queue_items")}>>}
Replication_add_client ==
    {Free("Replication", "add_client", {Use("Client_t", "sync_initial"), Use("Client_t", "sync_queue")})}
Replication_send == {Free("Replication", "send", {Use("Client_t", "enqueue")})}

-----------------------------------------------------------------------------
(* The multiserver.  clear only tries the locks of the requests, since the *)
(* back thread that holds one may be waiting for the list of requests.     *)

ad_invoke_first ==
    {Free("ad_invoke_first", "()", {Self("insert"), Call("_invalid_json_")}),
     <<"ad_invoke_first", "insert", "requests", {}>>,
     Free("ad_invoke_first", "error", {Call("af::_writer_")})}
delete_request == {<<"ad_invoke_first", "delete_request", "requests", {}>>}

clear == {<<"ad_invoke_first", "clear", "requests", {}>>}

multiserver_mux_connection ==
    {Free("multiserver_mux_connection", "write", {Super("get_status"), Super("write")}),
     Free("multiserver_mux_connection", "get_status", {Super("get_status")}),
     Free("multiserver_mux_connection", "delete_request", {Tag("_input_", "delete_request")})}

ms_ad_writer ==
    {Free("multiserver::ad_writer", "()", {Link("write")}),
     Free("multiserver::ad_writer", "get_status", {Link("get_status")}),
     Free("multiserver::ad_writer", "release", {Link("release")})}
MLA_class ==
    {Free("MLA_class", f, {Tag("af::_writer_", f)}) : f \in {"get_status", "release"}}

threadproc ==
    {<<"threadproc", "run", "request", {Self("run_method_request"), Self("run_method_call"), Self("clean")}>>}
clean == {Free("threadproc", "clean", {Link("delete_request")})}
run_method_request ==
    {Free("threadproc", "run_method_request", {Call("_unknown_method_"), Self("invoke_requester")})}
invoke_requester ==
    {Free("threadproc", "invoke_requester",
          {Call("_invalid_json_"), Each("_gmethod_", "request"), Self("invoker_response")}),
     Free("threadproc", "invoker_response", {Tag("_invoke_", "response")})}
run_method_call == {Free("threadproc", "run_method_call", {Call("_lost_result_")})}

json_rpc_req == {<<"json_rpc_req", "lock", "request", {}>>}

-----------------------------------------------------------------------------
(* The graph.                                                              *)

Body == UNION {
    basic_filter, ad_reader, ad_writer, ad_binary_read, ad_binary_write, ad_cleaner,
    binary_filter_public, binary_filter, mux_filter_public, mux_filter_ready, mux_filter_assign,
    mux_filter_write, mux_filter_handlers, ad_release, ad_exception, connection_public, connection,
    mux_connection_base, mux_connection, pooled_item, client_public, client_connect, client_close,
    client_write, client_connect_ready, mux_client_ready, mux_client_connect, mux_client_base,
    mux_client, on_connect_error, on_connection_close, server_udp, ad_udp_write, server_public,
    server_ready, server_start, server_accept, server_stop, server, pool_free, pool,
    pool_process_free, ad_binary_splitter, ad_invoke, ad_invoke_out, ad_proxy, ad_rn_writer,
    ad_json_error, ad_invalid_json, method_invoker, method_caller, set, del, add, inc, update_packed,
    rep_status, rep_setstate, LockManager, ad_span_reg_mtx, Client_t, Client_t_on_confirm,
    Client_t_schedule_queue, Client_t_push, Client_t_sync, Replication_add_client, Replication_send,
    ad_invoke_first, delete_request, clear, multiserver_mux_connection, ms_ad_writer, MLA_class,
    threadproc, clean, run_method_request, invoke_requester, run_method_call, json_rpc_req}

Defined == {<<b[1], b[2]>> : b \in Body}
BodyOf == [m \in Defined |-> CHOOSE b \in Body : <<b[1], b[2]>> = m]

\* f of object o as its class number i sees it: the nearest definition at or
\* below that class.  A method without a body here makes no calls.
Lookup(o, i, f) ==
    LET found == {j \in 1 .. i : <<Classes[o][j], f>> \in Defined}
    IN  IF found = {} THEN {} ELSE {<<o, Classes[o][Max(found)], f>>}

Position(o, c) == {i \in DOMAIN Classes[o] : Classes[o][i] = c}
OwnerOf == [front |-> "fserver", rep |-> "rserver"]
ItemOf  == [fserver |-> "front", rserver |-> "rep"]

Resolve(o, c, k) ==
    CASE k[1] = "self"  -> IF Position(o, c) = {} THEN {<<o, c, k[3]>>}
                           ELSE Lookup(o, Max(Position(o, c)), k[3])
      [] k[1] = "super" -> Lookup(o, Max(Position(o, c)) - 1, k[3])
      [] k[1] = "this"  -> Lookup(o, Len(Classes[o]), k[3])
      [] k[1] = "use"   -> {<<o, k[2], k[3]>>}
      [] k[1] = "tag"   -> {<<o, get(o, k[2]), k[3]>>}
      [] k[1] = "group" -> {<<o, d, k[3]>> : d \in Group(o, k[2])}
      [] k[1] = "owner" -> Lookup(OwnerOf[o], Len(Classes[OwnerOf[o]]), k[3])
      [] k[1] = "item"  -> Lookup(ItemOf[o], Len(Classes[ItemOf[o]]), k[3])
      [] k[1] = "link"  -> Lookup("front", Len(Classes["front"]), k[3])

Calls(n) == {m \in UNION {Resolve(n[1], n[2], k) : k \in BodyOf[<<n[2], n[3]>>][4]} :
                <<m[2], m[3]>> \in Defined}

\* The multiplexer's calls, the client's connecting, the back threads, and the
\* threads that replication starts.
Entries ==
    UNION {Lookup(o, Len(Classes[o]), f) : o \in {"front", "rep", "client", "udp", "fserver", "rserver"},
              f \in {"ready_read", "ready_write", "ready_urgent", "ready_error"}}
    \cup Lookup("client", Len(Classes["client"]), "connect")
    \cup {<<"back", "threadproc", "run">>}
    \cup {<<o, "Client_t", "_schedule_queue">> : o \in {"rep", "udp", "back"}}

\* the methods s whose calls are known, and those new that they call
RECURSIVE Reachable(_, _)
Reachable(s, new) ==
    IF new = {} THEN s
    ELSE Reachable(s \cup new, UNION {Calls(n) : n \in new} \ (s \cup new))

Node == Reachable({}, Entries)
Callees == [n \in Node |-> Calls(n)]

\* A mutex of the aspect may be the empty one; the spin locks are always real.
LockName(n) == BodyOf[<<n[2], n[3]>>][3]
LockOf ==
    [n \in Node |-> IF LockName(n) \notin {"mutex", "pool", "queue"} THEN <<"", LockName(n)>>
                    ELSE IF HasMutex(n[1]) THEN <<n[1], LockName(n)>> ELSE <<"", "">>]
NoLock == <<"", "">>

-----------------------------------------------------------------------------
(* The paths.  A situation of a thread is the method it is in, the locks   *)
(* it holds, whether it has still to take the method's own, and how often  *)
(* the data it writes was framed.                                          *)

Entered(n, c) == [at |-> n, held |-> c.held, waits |-> LockOf[n] # NoLock,
                  framed |-> IF n[2] = "ad_rn_writer" /\ c.framed < 2 THEN c.framed + 1 ELSE c.framed]
Onward(c) == IF c.waits THEN {[c EXCEPT !.held = @ \cup {LockOf[c.at]}, !.waits = FALSE]}
             ELSE {Entered(n, c) : n \in Callees[c.at]}

RECURSIVE Explore(_, _)
Explore(s, new) ==
    IF new = {} THEN s ELSE Explore(s \cup new, UNION {Onward(c) : c \in new} \ (s \cup new))

OutsideAll == [at |-> <<"", "", "">>, held |-> {}, waits |-> FALSE, framed |-> 0]
Situations == {OutsideAll} \cup Explore({}, {Entered(n, OutsideAll) : n \in Entries})

\* The order in which the locks are taken, the highest first.  The pool of a server and the
\* queue of its freed items are locked in both orders, under the mutex of the server.
LockRanks ==
    [l \in {LockOf[n] : n \in Node} \ {NoLock} |->
        CASE l \in {<<"", "requests">>, <<"", "stat">>} -> 0
          [] l[2] \in {"pool", "queue"} -> 1
          [] l = <<"front", "mutex">> -> 2
          [] l = <<"", "client">> -> 3
          [] l = <<"", "key">> -> 4
          [] OTHER -> 5]
LockGates == [r \in 0 .. 5 |-> IF r = 1 THEN <<"fserver", "mutex">> ELSE NoLock]
MutexOwners == {o \in DOMAIN Classes : HasMutex(o)}
=============================================================================
