------------------------------- MODULE MCEdge -------------------------------
(* Model-checking instances of Edge, with the sizes of the PROXY protocol     *)
(* scaled down.                                                               *)
EXTENDS Edge

MCHeaders ==
    {[grammar |-> "v1", length |-> 5, ip |-> "x", bad |-> 0],
     [grammar |-> "v1", length |-> 4, ip |-> "none", bad |-> 4],
     [grammar |-> "v2", length |-> 4, ip |-> "y", bad |-> 0],
     [grammar |-> "v2", length |-> 3, ip |-> "none", bad |-> 0],
     [grammar |-> "other", length |-> 1, ip |-> "none", bad |-> 1]}

P(names) == [i \in 1..(2 * Len(names)) |-> Tok(IF i % 2 = 1 THEN "/" ELSE names[i \div 2])]

MCRoutes ==
    {[path |-> P(<<"v1", "messages">>), methods |-> {"POST"}],
     [path |-> P(<<"health">>), methods |-> {"GET"}]}

MCForeign ==
    {[form |-> "origin", path |-> P(<<"v1">>), tail |-> "none"],
     [form |-> "origin", path |-> <<Tok("/"), <<"twice", "v1">>, Tok("/"), Tok("messages")>>, tail |-> "query"],
     [form |-> "origin", path |-> P(<<"v1">>) \o <<Tok("/"), <<"bad", "messages">> >>, tail |-> "none"]}
=============================================================================
