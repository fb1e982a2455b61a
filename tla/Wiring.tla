------------------------------- MODULE Wiring -------------------------------
(***************************************************************************)
(* How the daemon's objects are put together: the advice lists of the      *)
(* library and of the program, merged into one aspect for each kind of     *)
(* object, and the classes an object is derived from, the most derived     *)
(* last.  Which advice a tag stands for follows from these lists by the    *)
(* rules of Aspects.                                                       *)
(***************************************************************************)
EXTENDS Aspects

Tagged(tags, class) == Advice([i \in DOMAIN tags |-> <<tags[i]>>], <<class>>, FALSE)
InGroups(groups, tags, class) ==
    Advice([i \in DOMAIN groups |-> gtag(<<groups[i]>>)] \o [i \in DOMAIN tags |-> <<tags[i]>>],
           <<class>>, FALSE)

-----------------------------------------------------------------------------
(* The filters.  af and ajr are two namespaces with a _writer_ each.       *)

mutex_advice    == Tagged(<<"_mutex_">>, "ad_mutex<empty>")
mt_mutex_advice == Tagged(<<"_mutex_">>, "ad_mutex<mutex>")

basic_filter_advice_list ==
    <<Tagged(<<"_reader_">>, "ad_reader"), Tagged(<<"af::_writer_">>, "ad_writer"), mutex_advice>>

binary_filter_advice_list ==
    <<Tagged(<<"_cleaner_advice_">>, "ad_cleaner"),
      Tagged(<<"_read_policy_">>, "ad_binary_read"),
      Tagged(<<"_write_policy_">>, "ad_binary_write"),
      Tagged(<<"_read_">>, "ad_file_read"), Tagged(<<"_write_">>, "ad_file_write"),
      Tagged(<<"_on_read_", "_on_writing_", "_on_write_", "_on_assign_", "_on_release_",
               "_on_rclosed_", "_on_wclosed_", "_on_rerror_", "_on_werror_">>, "ad_stub")>>

mux_filter_advice_list ==
    <<Tagged(<<"_on_ready_read_", "_on_ready_write_">>, "ad_stub"),
      Tagged(<<"_on_ready_urgent_", "_on_ready_error_">>, "ad_release"),
      Tagged(<<"_e_ready_read_", "_e_ready_write_", "_e_ready_urgent_", "_e_ready_error_">>,
             "ad_exception")>>

connection_advice_list ==
    <<Tagged(<<"_on_connection_assign_", "_on_connection_close_">>, "ad_stub")>>

client_advice_list ==
    <<Tagged(<<"_on_client_connect_">>, "ad_stub"), Tagged(<<"_on_client_close_">>, "ad_stub"),
      Tagged(<<"_on_connect_error_">>, "ad_client_error"),
      Tagged(<<"_on_connect_error_">>, "ad_client_error"),
      Tagged(<<"_on_client_connected_">>, "ad_stub")>>

server_advice_list ==
    <<Tagged(<<"_on_server_ready_read_", "_on_server_ready_write_", "_on_server_ready_urgent_",
               "_on_server_ready_error_", "_on_server_start_", "_on_server_accept_",
               "_on_server_accept_error_", "_on_server_stop_">>, "ad_stub"),
      mutex_advice>>

\* A connection of a server that does not need to know its server.
make_connection_aspect == <<Tagged(<<"_server_">>, "ad_no_server")>>

mt_server_aspect ==
    <<mt_mutex_advice, Tagged(<<"_on_mt_server_accept_error_", "_on_mt_server_stop_">>, "ad_stub")>>

-----------------------------------------------------------------------------
(* JSON-RPC, framed by \r\n.                                               *)

json_rpc3_advice_list ==
    <<InGroups(<<"_cleaner_">>, <<"_input_", "_invoke_">>, "ad_invoke"),
      InGroups(<<"_cleaner_">>, <<"_outgoing_data_">>, "outgoing_data"),
      Tagged(<<"_clock_finish_", "_clock_start_", "_unknown_method_", "_invalid_json_",
               "_lost_result_", "_invalid_id_", "_output_", "_begin_invoke_", "_end_invoke_",
               "_binder_">>, "ad_stub"),
      Tagged(<<"_span_reg_">>, "ad_span_reg"),
      Tagged(<<"ajr::_writer_">>, "ad_proxy<_output_>")>>

json_advice_list ==
    <<Tagged(<<"_clock_start_">>, "ad_clock_start"), Tagged(<<"_clock_finish_">>, "ad_clock_finish"),
      Tagged(<<"_error_">>, "ad_json_error"), Tagged(<<"_invalid_json_">>, "ad_invalid_json"),
      Tagged(<<"_unknown_method_">>, "ad_unknown_method")>>

rn_writer_advice == Tagged(<<"_rn_writer_">>, "ad_rn_writer")

rn_advice_list ==
    <<InGroups(<<"_cleaner_">>, <<"_on_read_">>, "ad_binary_splitter"),
      rn_writer_advice, Tagged(<<"_rn_trace_">>, "rn_trace"),
      Alias(<<"_rn_writer_">>, <<<<"_output_">>>>)>>

rn_json_aspect ==
    aspect_merge(aspect_merge(json_rpc3_advice_list, json_advice_list), rn_advice_list)

-----------------------------------------------------------------------------
(* The program's aspects.                                                  *)

method_advice(c) == InGroups(<<"_gmethod_">>, <<>>, c)
method_advice_tag(c, t) == InGroups(<<"_gmethod_">>, <<t>>, c)
rep_setstate_advice == InGroups(<<"_cleaner_", "_gmethod_">>, <<"_rep_setstate_">>, "rep_setstate")
get_statistics_advice == InGroups(<<"_gmethod_">>, <<"_get_statistics_">>, "get_statistics")
ad_span_reg_mtx_advice == Tagged(<<"_span_reg_">>, "ad_span_reg_mtx")

\* fas_methods lists the method set under both tags.
method_list ==
    <<method_advice("get"), method_advice("get_range"), method_advice_tag("set", "_set_"),
      method_advice_tag("set", "_set_range_"), method_advice("inc"), method_advice("inc_add"),
      method_advice("add"), method_advice_tag("del", "_del_"), method_advice("rep_status"),
      method_advice("update_packed"), rep_setstate_advice, mt_mutex_advice,
      get_statistics_advice, ad_span_reg_mtx_advice>>
json_aspect == aspect_merge(rn_json_aspect, method_list)

method_list_client ==
    <<method_advice_tag("set", "_set_"), method_advice_tag("set", "_set_range_"),
      method_advice_tag("del", "_del_"), rep_setstate_advice,
      Tagged(<<"_on_connection_close_">>, "on_connection_close"),
      Tagged(<<"_on_connect_error_">>, "on_connect_error")>>
json_aspect_client == aspect_merge(rn_json_aspect, method_list_client)

\* The connections of the multiserver queue what they read; its back threads
\* own an object with the methods and a writer to the connection.
invoke_advice == InGroups(<<"_cleaner_">>, <<"_input_", "_invoke_">>, "ad_invoke_first")
fserver_aspect == aspect_merge(rn_json_aspect, <<invoke_advice, mt_mutex_advice>>)
invokeMLA == aspect_merge(json_aspect,
                <<Tagged(<<"af::_writer_">>, "multiserver::ad_writer"), rn_writer_advice>>)

ad_udp_write_advice == Tagged(<<"af::_writer_">>, "ad_udp_write")

-----------------------------------------------------------------------------
(* The objects.  Each class template merges its own list in front of what  *)
(* it is given, down to the basic filter.                                  *)

Filters(a) ==
    aspect(FlattenSeq(<<basic_filter_advice_list, binary_filter_advice_list,
                        mux_filter_advice_list, connection_advice_list>>) \o a)

AspectOf ==
    [front   |-> Filters(make_connection_aspect \o fserver_aspect),
     rep     |-> Filters(make_connection_aspect \o json_aspect),
     client  |-> Filters(client_advice_list \o json_aspect_client),
     udp     |-> Filters(json_aspect \o <<ad_udp_write_advice>>),
     back    |-> aspect(invokeMLA),
     fserver |-> aspect(server_advice_list \o mt_server_aspect),
     rserver |-> aspect(server_advice_list)]

mux_filter_classes == <<"basic_filter", "binary_filter", "mux_filter_base">>
connection_classes == mux_filter_classes \o <<"connection", "mux_connection_base">>

Classes ==
    [front   |-> connection_classes \o <<"multiserver_mux_connection", "mux_connection", "pooled_item">>,
     rep     |-> connection_classes \o <<"mux_connection", "pooled_item">>,
     client  |-> connection_classes \o <<"client", "mux_client_base", "mux_client">>,
     udp     |-> connection_classes \o <<"server_udp">>,
     back    |-> <<"MLA_class">>,
     fserver |-> <<"pool", "server_base", "server">>,
     rserver |-> <<"pool", "server_base", "server">>]

Object == DOMAIN Classes

get(o, t) == advice_cast(AspectOf[o], <<t>>)[1]
Group(o, g) == LET s == aspect_select(AspectOf[o], <<g>>) IN {s[i].class[1] : i \in DOMAIN s}

\* The mutex of an object is a real one or the empty one of the default aspect.
HasMutex(o) == get(o, "_mutex_") = "ad_mutex<mutex>"
=============================================================================
