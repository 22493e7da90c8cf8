------------------------------ MODULE MCLlama ------------------------------
(* A model of one or two layers, two positions and two worker threads.      *)
EXTENDS LlamaShim

Env(external, ccos, budget, spec) ==
    [external |-> external, ccos |-> ccos, budget |-> budget, spec |-> spec,
     missing |-> {}, unsupported |-> {}, bad_keys |-> {}, bad_rows |-> {}]

Ccos(budget) == Env(TRUE, TRUE, budget, "all")
Vector       == Env(TRUE, FALSE, 0, "all")
Plain(spec)  == Env(FALSE, FALSE, 0, spec)

(* A budget for three WARM tiles and one for three WARM and one HOT; the    *)
(* C++ vector; partial, malformed and out of range masks; layers without    *)
(* weights; keys, rows and operations that are rejected.                    *)
MCConfigs ==
    {Ccos(10), Ccos(13), Vector, Plain("0"), Plain("0-1"), Plain("0-"),
     [Ccos(16) EXCEPT !.missing = {1}],
     [Vector EXCEPT !.bad_keys = {0}], [Vector EXCEPT !.bad_keys = {1}],
     [Plain("all") EXCEPT !.bad_rows = {1}],
     [Plain("all") EXCEPT !.unsupported = {0}]}

BadKeys == {[Vector EXCEPT !.bad_keys = {1}]}
=============================================================================
