----------------------------- MODULE RankGates -----------------------------
(***************************************************************************)
(* What the training and evaluation programs of scirust accept: weight     *)
(* files (weights.rs), the execution binding (exec_binding.rs), the        *)
(* normalisation manifest (norm_manifest.rs), the LR1 contract             *)
(* (lr1_contract.rs), the command lines, and the metrics of the evaluator. *)
(*                                                                         *)
(* A document is a record of its fields; a digest is the value it digests. *)
(* Which error code is printed is left out, so the order of checks without *)
(* effects is too: a validator is the conjunction of what it asks for.     *)
(***************************************************************************)
EXTENDS Integers, Sequences, FiniteSets

CONSTANTS
    ProjRows,     \* D_C: rows of a projection
    N_LAYERS,     \* layers of the normalisation manifest and of LR1
    TOP_K,        \* the frozen top-k of the evaluator
    MAX_TOPK,     \* what the rank trainer accepts at most
    Frozen,       \* the digests compiled into the trainers, and its own binary
    ParsedBits    \* decimal spellings, and the bits that parsing gives them

ASSUME GatesAssumption == ProjRows \in Nat \ {0} /\ N_LAYERS \in Nat \ {0} /\ TOP_K \in Nat \ {0}

-----------------------------------------------------------------------------
(* weights.rs: a file is a sequence of words. NoFile is a file that load    *)
(* refuses unread: missing, not regular, or above the size cap.             *)

SLHW == 7               \* MAGIC
VERSION_V1 == 1
VERSION_V2 == 2
COMMON_HEADER == 6      \* magic, version, d, seed, rht, padding
WEIGHTS_HEADER == 7     \* and the checksum
NoFile == <<>>
NonFinite == -99        \* a NaN or an infinity

projection_len(d) == ProjRows * d

(* Any digest of the header and the payload: a polynomial for FNV-1a.       *)
weights_checksum(common, payload) ==
    LET words == common \o payload
        hash[i \in 0 .. Len(words)] ==
            IF i = 0 THEN 17 ELSE (hash[i - 1] * 31 + words[i]) % 65521
    IN hash[Len(words)]

(* A model that try_to_bytes serialises, and its file.                      *)
Encodable(m) ==
    /\ m.d > ProjRows
    /\ Len(m.projection) = projection_len(m.d)
    /\ \A i \in DOMAIN m.projection : m.projection[i] # NonFinite

try_to_bytes(m) ==
    LET common == <<SLHW, VERSION_V2, m.d, m.seed, m.rht, 0>>
    IN common \o <<weights_checksum(common, m.projection)>> \o m.projection

HeaderOf(b) == IF b[2] = VERSION_V1 THEN COMMON_HEADER ELSE WEIGHTS_HEADER

(* load, from_bytes and try_from_projection_with succeed on b.              *)
Loads(b) ==
    /\ Len(b) >= COMMON_HEADER
    /\ b[1] = SLHW
    /\ b[2] \in {VERSION_V1, VERSION_V2}
    /\ Len(b) >= HeaderOf(b)
    /\ b[3] > ProjRows
    /\ b[5] \in {0, 1}
    /\ b[6] = 0
    /\ Len(b) = HeaderOf(b) + projection_len(b[3])
    /\ b[2] = VERSION_V2 =>
          b[7] = weights_checksum(SubSeq(b, 1, COMMON_HEADER), SubSeq(b, WEIGHTS_HEADER + 1, Len(b)))
    /\ \A i \in HeaderOf(b) + 1 .. Len(b) : b[i] # NonFinite

from_bytes(b) ==
    [d |-> b[3], seed |-> b[4], rht |-> b[5], projection |-> SubSeq(b, HeaderOf(b) + 1, Len(b))]

(* train_ranking with its optimiser left out: a projection that moves by    *)
(* the rows and the scale, or stays as it was when there are no rows.       *)
train_ranking(rows, projection, scale) ==
    IF rows = 0 THEN projection ELSE [i \in DOMAIN projection |-> projection[i] + scale]

-----------------------------------------------------------------------------
(* exec_binding.rs. Json is how the text parses: "ok", "invalid",           *)
(* "duplicate", "unknown" or "trailing".                                    *)

is_sha256(v) == v # "malformed"

(* parse_and_verify as verify_exec_binding calls it: the commits it wants   *)
(* are those that the binding declares, the split is an environment         *)
(* variable, the binary the running one.                                    *)
verify_exec_binding(doc, wanted_sha, split_sha) ==
    /\ doc.file
    /\ doc.json = "ok"
    /\ is_sha256(wanted_sha) /\ doc.sha = wanted_sha
    /\ doc.schema = "slha_a2_execution_binding_v2"
    /\ doc.valid
    /\ \A f \in {"a2", "manifest_v2", "dataset", "binary"} : is_sha256(doc.digests[f])
    /\ \A f \in DOMAIN Frozen : doc.digests[f] = Frozen[f]
    /\ doc.digests["training_split"] = split_sha

-----------------------------------------------------------------------------
(* norm_manifest.rs                                                         *)

PositiveFinite(v) == v # NonFinite /\ v > 0

RoundTrips(decimal, bits) == decimal \in DOMAIN ParsedBits /\ ParsedBits[decimal] = bits

RecordOk(r, epsilon) ==
    /\ r.layer < N_LAYERS
    /\ r.rows > 0 /\ r.scores > 0
    /\ r.sum # NonFinite /\ r.sum >= 0
    /\ PositiveFinite(r.rms) /\ PositiveFinite(r.scale)
    /\ RoundTrips(r.rms_decimal, r.rms)
    /\ RoundTrips(r.scale_decimal, r.scale)
    /\ RoundTrips(r.epsilon_decimal, r.epsilon)
    /\ r.epsilon = epsilon

ManifestOk(doc, epsilon) ==
    /\ doc.json = "ok"
    /\ doc.schema = "slha_l2_normalisation_manifest_v2"
    /\ doc.valid
    /\ \A f \in {"a2", "dataset", "reconciliation"} : doc.binds[f] = Frozen[f]
    /\ doc.epsilon = epsilon
    /\ Len(doc.layers) = N_LAYERS

(* The file is the one named by its digest, then parse_and_verify without a *)
(* split.                                                                   *)
load_normalisation(doc, wanted_sha, epsilon) ==
    /\ doc.file
    /\ doc.sha = wanted_sha
    /\ ManifestOk(doc, epsilon)
    /\ \A i, j \in DOMAIN doc.layers : doc.layers[i].layer = doc.layers[j].layer => i = j
    /\ \A i \in DOMAIN doc.layers : RecordOk(doc.layers[i], epsilon)
    /\ {doc.layers[i].layer : i \in DOMAIN doc.layers} = 0 .. N_LAYERS - 1

(* FrozenScales.by_layer                                                    *)
by_layer(doc) ==
    [l \in 0 .. N_LAYERS - 1 |->
        doc.layers[CHOOSE i \in DOMAIN doc.layers : doc.layers[i].layer = l].scale]

-----------------------------------------------------------------------------
(* lr1_contract.rs: what every field must be, section by section.           *)

RequiredFields ==
    [root |-> {"schema", "candidate_id", "status"},
     model |-> {"name", "sha256"},
     llama_cpp |-> {"tag", "commit"},
     candidate |->
        {"objective", "top_k", "layers", "margin", "max_negatives", "negative_policy",
         "seed", "learning_rate", "epochs", "steps", "batch", "max_keys", "geometry_weight",
         "codec", "allow_hyperparameter_sweep", "allow_layer_subset_sweep",
         "allow_objective_sweep"},
     development_source |->
        {"repository", "revision", "file", "source_sha256", "license",
         "rank_dataset_evaluation_chunks", "rank_dataset_storage_slots",
         "training_chunks", "validation_chunks"},
     derivation |-> {"prefix_bytes", "truncate_to_last_newline", "encoding"},
     chunk_indexing |->
        {"initial_storage_slot", "initial_storage_slot_must_be_empty",
         "first_populated_chunk", "last_populated_chunk"},
     protected_holdout |-> {"path", "sha256", "stage_a_access"},
     invariants |->
        {"baseline_logits_training_only", "baseline_logits_inference_forbidden",
         "external_k_oracle_knobs_forbidden",
         "initial_weights_must_be_hash_frozen_before_optimizer",
         "derived_development_corpus_must_be_hash_frozen_before_optimizer",
         "candidate_weights_must_be_hash_frozen_before_diagnostic_ppl",
         "protected_holdout_must_not_select_or_tune_candidate",
         "negative_result_must_be_retained"},
     stage_a |->
        {"protected_holdout_allowed", "training_short_context_policy",
         "ranking_metric_row_rule", "ranking_metric_short_rows"},
     stage_b |-> {"enabled_by_this_contract", "require_separate_pre_holdout_freeze"}]

(* A contract says of a field that it is "exact"; one that is missing, of   *)
(* another type, not finite or of another value is not.                     *)
validate_contract(doc) ==
    /\ doc.regular /\ doc.kib <= 64
    /\ doc.json = "ok" /\ doc.root = "object"
    /\ \A s \in DOMAIN RequiredFields :
          /\ s \in DOMAIN doc.sections
          /\ \A f \in RequiredFields[s] : f \in DOMAIN doc.sections[s] /\ doc.sections[s][f] = "exact"

-----------------------------------------------------------------------------
(* Command lines. parse_args refuses an option given twice, without a value *)
(* or unknown before anything else: a.wellformed.                           *)

(* A layer selection: "all", "none", one layer or a range, as <<lo, hi>>.   *)
parse_layer_set(spec, n) ==
    CASE spec = <<"all">>   -> 0 .. n - 1
      [] spec = <<"none">>  -> {}
      [] spec[1] = "range"  -> IF spec[2] <= spec[3] /\ spec[3] < n THEN spec[2] .. spec[3] ELSE {}
      [] OTHER              -> {}

TopKFamily(a) == a.objective \in {"pairwise-topk", "hybrid"}

(* validate of slha_train_rank, and Objective::parse after it.              *)
ValidRank(a) ==
    /\ a.wellformed
    /\ a.objective \in {"l2", "pairwise-topk", "listwise", "hybrid"}
    /\ ~TopKFamily(a) =>
          a.given \cap {"--top-k", "--margin", "--max-negatives", "--negative-policy"} = {}
    /\ a.objective = "l2" =>
          a.given \cap {"--pairwise-weight", "--listwise-weight", "--geometry-weight"} = {}
    /\ TopKFamily(a) =>
          /\ a.top_k \in 1 .. MAX_TOPK
          /\ a.max_negatives > 0
          /\ a.negative_policy = "boundary-then-seeded"
    /\ \A f \in DOMAIN a.weights : a.weights[f] # NonFinite /\ a.weights[f] >= 0
    /\ TopKFamily(a) => a.weights["--margin"] > 0
    /\ a.epochs > 0 /\ a.batch > 0 /\ a.max_keys > 0
    /\ parse_layer_set(a.layers, a.n_layers) # {}
    /\ a.inputs = {"dataset", "dataset manifest", "initial weights", "norm manifest"}
    /\ a.split = "chunk indices"
    /\ is_sha256(a.norm_sha)

(* validate_args of slha_eval_rank, without what it asks of the disk.       *)
ValidEval(a) ==
    /\ a.wellformed
    /\ a.top_k = TOP_K
    /\ a.n_layers = N_LAYERS
    /\ a.codec = "mixed"
    /\ a.split = "validation chunks"

-----------------------------------------------------------------------------
(* Summary of slha_eval_rank: recorded and rescored rows against the        *)
(* baseline. A score is an integer.                                         *)

NoSummary == [rows |-> 0, ranking |-> 0, overlap |-> 0, pairs |-> 0, pair_score |-> 0,
              spearman |-> 0, geometry |-> 0]

(* The k best, the earlier of two equal ones first.                         *)
topk_indices(values, k) ==
    {i \in DOMAIN values :
        Cardinality({j \in DOMAIN values :
                        values[j] > values[i] \/ (values[j] = values[i] /\ j < i)}) < k}

Observable(baseline, scores) ==
    /\ baseline # <<>> /\ Len(scores) = Len(baseline)
    /\ \A i \in DOMAIN baseline : baseline[i] # NonFinite /\ scores[i] # NonFinite

Spread(values) == \E i, j \in DOMAIN values : values[i] # values[j]

(* Twice the pairs in order, once those that tie.                           *)
PairScore(scores, top) ==
    LET rest == DOMAIN scores \ top
    IN 2 * Cardinality({x \in top \X rest : scores[x[1]] > scores[x[2]]})
       + Cardinality({x \in top \X rest : scores[x[1]] = scores[x[2]]})

observe(s, baseline, scores) ==
    LET long == Len(baseline) > TOP_K
        two  == Len(baseline) >= 2
        top  == topk_indices(baseline, TOP_K)
        One(c) == IF c THEN 1 ELSE 0
    IN [rows       |-> s.rows + 1,
        ranking    |-> s.ranking + One(long),
        overlap    |-> s.overlap
                       + IF long THEN Cardinality(top \cap topk_indices(scores, TOP_K)) ELSE 0,
        pairs      |-> s.pairs + IF long THEN TOP_K * (Len(baseline) - TOP_K) ELSE 0,
        pair_score |-> s.pair_score + IF long THEN PairScore(scores, top) ELSE 0,
        spearman   |-> s.spearman + One(two),
        geometry   |-> s.geometry + One(two /\ Spread(baseline) /\ Spread(scores))]

validate_non_degenerate(s) ==
    s.rows > 0 /\ s.ranking > 0 /\ s.pairs > 0 /\ s.spearman > 0 /\ s.geometry > 0

SameDenominators(a, b) ==
    a.rows = b.rows /\ a.ranking = b.ranking /\ a.spearman = b.spearman /\ a.geometry = b.geometry

=============================================================================
