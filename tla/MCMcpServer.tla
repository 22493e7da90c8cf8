---------------------------- MODULE MCMcpServer ----------------------------
(* Lines of two units and one, too long, of three.                          *)
EXTENDS McpServer

Params == [object |-> TRUE, absent |-> FALSE, valid_initialize |-> FALSE,
           fields |-> {}, name |-> "", args |-> [object |-> TRUE, fields |-> {}]]

Request(method, id, params) ==
    [parses |-> TRUE, object |-> TRUE, jsonrpc |-> "2.0", method |-> method,
     id |-> id, params |-> params, size |-> 2]

Call(name, args) ==
    Request("tools/call", "call", [Params EXCEPT !.fields = {"name", "arguments"},
                                             !.name = name, !.args = args])

Good == [Params EXCEPT !.valid_initialize = TRUE]

MCMessages ==
    <<Request("initialize", "init", Good), Request("initialize", "init", Params),
     Request("notifications/initialized", "none", Params),
     Request("notifications/initialized", "bad", Params),
     Request("ping", "ping", [Params EXCEPT !.object = FALSE]),
     Request("ping", "fraction", Params),
     [Request("ping", "none", Params) EXCEPT !.jsonrpc = "1.0"],
     [Request("ping", "none", Params) EXCEPT !.parses = FALSE],
     Request("tools/list", "none", Params), Request("nothing", "other", Params),
     Call("slha.benchmark", [object |-> TRUE, fields |-> {"n"}, n |-> <<1000>>]),
     Call("slha.benchmark", [object |-> TRUE, fields |-> {"n"}, n |-> <<5000001>>]),
     Call("slha.score", [object |-> TRUE, fields |-> {"key", "query"}, overflows |-> TRUE,
                         key |-> "128 finite", query |-> "128 finite"]),
     Call("slha.compress", [object |-> TRUE, fields |-> {"key"},
                            key |-> "128 finite", codec |-> "absent"]),
     Call("slha.audit", [object |-> TRUE, fields |-> {"n"}]),
     [Request("ping", "ping", Params) EXCEPT !.size = 3]>>

=============================================================================
