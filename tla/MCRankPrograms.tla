--------------------------- MODULE MCRankPrograms ---------------------------
(* Instances of the training and evaluation programs for TLC: each document *)
(* and command line as it should be and with every single fault, pairs of   *)
(* programs on sound inputs, and each program alone on every faulty input.  *)
EXTENDS RankPrograms

(* r, and r with one field at another value.                                *)
Variants(r, others) ==
    {r} \cup UNION {{[r EXCEPT ![f] = v] : v \in others[f]} : f \in DOMAIN others}

MCFrozen ==
    [a2 |-> "a2", scope |-> "scope", manifest_v2 |-> "v2", equivalence |-> "eq",
     dataset |-> "ds", reconciliation |-> "recon", binary |-> "bin"]

MCParsedBits == [x \in {"1", "1.0", "2", "0.5"} |-> CASE x = "2" -> 2 [] x = "0.5" -> 50 [] OTHER -> 1]

GoodDigests ==
    [f \in DOMAIN MCFrozen \cup {"training_split", "parser_commit", "trainer_commit"} |->
        IF f \in DOMAIN MCFrozen THEN MCFrozen[f] ELSE f]

GoodBinding ==
    [file |-> TRUE, json |-> "ok", sha |-> "binding", schema |-> "slha_a2_execution_binding_v2",
     valid |-> TRUE, digests |-> GoodDigests]

Bindings ==
    Variants(GoodBinding,
        [file |-> {FALSE}, json |-> {"invalid", "duplicate", "unknown", "trailing"},
         sha |-> {"other"}, schema |-> {"other"}, valid |-> {FALSE},
         digests |-> {[GoodDigests EXCEPT ![f] = v] : f \in DOMAIN GoodDigests,
                                                      v \in {"other", "malformed"}}])

Record(l, scale, decimal) ==
    [layer |-> l, rows |-> 4, scores |-> 9, sum |-> 3, rms |-> 1, scale |-> scale, epsilon |-> 50,
     rms_decimal |-> "1.0", scale_decimal |-> decimal, epsilon_decimal |-> "0.5"]

GoodLayers == <<Record(1, 2, "2"), Record(0, 1, "1")>>

GoodNorm ==
    [file |-> TRUE, sha |-> "norm", json |-> "ok", schema |-> "slha_l2_normalisation_manifest_v2",
     valid |-> TRUE, binds |-> GoodDigests, epsilon |-> 50, layers |-> GoodLayers]

BadRecords ==
    Variants(Record(0, 1, "1"),
        [layer |-> {1, 2}, rows |-> {0}, scores |-> {0}, sum |-> {-1, NonFinite},
         rms |-> {0, NonFinite}, scale |-> {0, NonFinite}, epsilon |-> {51},
         rms_decimal |-> {"2", "x"}, scale_decimal |-> {"2", "x"}, epsilon_decimal |-> {"1", "x"}])
    \cup {[Record(0, 1, "1") EXCEPT !.scale = -1, !.scale_decimal = "-1"]}

Norms ==
    Variants(GoodNorm,
        [file |-> {FALSE}, sha |-> {"other"}, json |-> {"invalid", "trailing"}, schema |-> {"other"},
         valid |-> {FALSE}, epsilon |-> {51},
         binds |-> {[GoodDigests EXCEPT ![f] = "other"] : f \in {"a2", "dataset", "reconciliation"}},
         layers |-> {<<Record(0, 1, "1")>>} \cup {<<Record(1, 2, "2"), r>> : r \in BadRecords}])

GoodArgs ==
    [wellformed |-> TRUE, objective |-> "hybrid", given |-> {"--top-k"}, top_k |-> 1,
     max_negatives |-> 1, negative_policy |-> "boundary-then-seeded",
     weights |-> [f \in {"--margin", "--learning-rate"} |-> 1],
     epochs |-> 1, batch |-> 1, max_keys |-> 1, layers |-> <<"all">>, n_layers |-> N_LAYERS,
     inputs |-> {"dataset", "dataset manifest", "initial weights", "norm manifest"},
     split |-> "chunk indices", norm_sha |-> "norm"]

ArgLists ==
    Variants(GoodArgs,
        [wellformed |-> {FALSE}, objective |-> {"l2", "listwise", "other"}, top_k |-> {0, MAX_TOPK + 1},
         max_negatives |-> {0}, negative_policy |-> {"other"},
         weights |-> {[GoodArgs.weights EXCEPT !["--margin"] = v] : v \in {0, -1, NonFinite}},
         epochs |-> {0}, batch |-> {0}, max_keys |-> {0}, n_layers |-> {0, 1, N_LAYERS + 1},
         layers |-> {<<"none">>, <<"range", 1, 1>>, <<"range", 1, 0>>, <<"range", 0, 9>>, <<"junk">>},
         inputs |-> {{"dataset"}}, split |-> {"other"}, norm_sha |-> {"malformed", "other"}])
    \cup {[GoodArgs EXCEPT !.objective = "l2", !.given = g] : g \in {{}, {"--geometry-weight"}}}

GoodCommand ==
    [args |-> GoodArgs, binding |-> GoodBinding, binding_sha |-> "binding",
     split_sha |-> "training_split", norm |-> GoodNorm]

MCRankCommands ==
    Variants(GoodCommand,
        [args |-> ArgLists, binding |-> Bindings, binding_sha |-> {"other", "malformed"},
         split_sha |-> {"other"}, norm |-> Norms])

GoodSections == [s \in DOMAIN RequiredFields |-> [f \in RequiredFields[s] |-> "exact"]]

GoodContract ==
    [regular |-> TRUE, kib |-> 4, json |-> "ok", root |-> "object", sections |-> GoodSections]

MCContracts ==
    Variants(GoodContract,
        [regular |-> {FALSE}, kib |-> {65}, json |-> {"invalid"}, root |-> {"array"},
         sections |-> {[GoodSections EXCEPT !["candidate"]["top_k"] = v] : v \in {"drift", "type"}}
                      \cup {[s \in DOMAIN GoodSections \ {"stage_b"} |-> GoodSections[s]]}])

MCEvalCommands ==
    Variants([wellformed |-> TRUE, top_k |-> TOP_K, n_layers |-> N_LAYERS, codec |-> "mixed",
              split |-> "validation chunks"],
        [wellformed |-> {FALSE}, top_k |-> {TOP_K + 1}, n_layers |-> {1}, codec |-> {"nf4"},
         split |-> {"training chunks"}])

-----------------------------------------------------------------------------
(* Files and datasets                                                       *)

Model(x, y) == [d |-> 2, seed |-> 5, rht |-> 1, projection |-> <<x, y>>]
Whole2(x, y) == try_to_bytes(Model(x, y))
Version1(x, y) == <<SLHW, VERSION_V1, 2, 5, 1, 0, x, y>>

BadFiles ==
    {NoFile, SubSeq(Whole2(3, 4), 1, 5), SubSeq(Whole2(3, 4), 1, 8), Append(Whole2(3, 4), 1),
     [Whole2(3, 4) EXCEPT ![9] = 5], [Version1(3, 4) EXCEPT ![8] = NonFinite]}
    \cup {[Whole2(3, 4) EXCEPT ![i] = 9] : i \in {1, 2, 3, 5, 6}}
    \cup {[Version1(3, 4) EXCEPT ![3] = 1]}

Row(b, c, k) == [baseline |-> b, control |-> c, keys |-> k]
GoodRows == <<Row(<<3, 1, 2>>, <<1, 2, 2>>, <<2, 1, 1>>), Row(<<1>>, <<1>>, <<1>>)>>

GoodData(l) ==
    [read |-> "ok", layer |-> l, layout |-> TRUE, d |-> 2, rows |-> 3, held |-> GoodRows]

BadData(l) ==
    Variants(GoodData(l),
        [read |-> {"refused", "short"}, layer |-> {7}, layout |-> {FALSE}, d |-> {3}, rows |-> {0},
         held |-> {<<>>, <<Row(<<1>>, <<1>>, <<1>>)>>, <<Row(<<1, 2>>, <<1>>, <<1, 2>>)>>,
                   <<Row(<<2, 2, 2>>, <<1, 2, 3>>, <<1, 2, 3>>)>>,
                   <<Row(<<1, NonFinite>>, <<1, 2>>, <<1, 2>>)>>}])

Source(w0, d1, m) ==
    [weights |-> [l \in LayerIds |-> IF l = 0 THEN w0 ELSE Version1(6, 7)],
     data |-> [l \in LayerIds |-> IF l = 1 THEN d1 ELSE GoodData(l)], manifested |-> m]

GoodSource == Source(Whole2(3, 4), GoodData(1), TRUE)
OtherSource == Source(Whole2(8, 9), GoodData(1), TRUE)

FaultySources ==
    {Source(w, GoodData(1), TRUE) : w \in BadFiles}
    \cup {Source(Whole2(3, 4), d, TRUE) : d \in BadData(1)}
    \cup {Source(Whole2(3, 4), GoodData(1), FALSE)}

(* What an LR1 run published before.                                        *)
EarlierOutput ==
    LET layers == [l \in LayerIds |-> Whole2(20 + l, 30)]
    IN [there |-> TRUE, layers |-> layers,
        lineage |-> [kind |-> "lineage", initial |-> GoodSource.weights],
        manifest |-> [kind |-> "manifest", initial |-> GoodSource.weights,
                      hashes |-> [i \in 1 .. N_LAYERS |-> layers[i - 1]]]]

StaleStage ==
    [EmptyDir EXCEPT !.lineage = CutDoc, !.manifest = CutDoc, !.layers = [l \in LayerIds |-> <<SLHW>>]]

MCTeam == {1, 2}

Setup(x, y, s1, s2, out, st) ==
    [program |-> <<x, y>>, source |-> <<s1, s2>>, out |-> out, stage |-> <<st, AbsentDir>>]

MCSetups ==
    {Setup("rank", y, GoodSource, OtherSource, out, AbsentDir) :
        y \in {"rank", "lr1", "eval"}, out \in {AbsentDir, EarlierOutput}}
    \cup {Setup("lr1", y, GoodSource, OtherSource, AbsentDir, AbsentDir) : y \in {"lr1", "eval"}}
    \cup {Setup("eval", "eval", GoodSource, OtherSource, EarlierOutput, AbsentDir)}
    \cup {Setup(x, "none", s, GoodSource, AbsentDir, AbsentDir) : x \in {"rank", "lr1"}, s \in FaultySources}
    \cup {Setup(x, "none", GoodSource, GoodSource, AbsentDir, StaleStage) : x \in {"rank", "lr1"}}
    \cup {Setup("eval", "none", s, GoodSource, EarlierOutput, AbsentDir) : s \in FaultySources}

=============================================================================
