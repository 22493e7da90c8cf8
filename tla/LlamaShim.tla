------------------------------ MODULE LlamaShim ------------------------------
(***************************************************************************)
(* The llama.cpp integration in tilestore and replace mode                 *)
(* (shim/slha_llama.cpp) over the external K store.                        *)
(*                                                                         *)
(* The host thread creates contexts, clears them, runs decodes, offloads   *)
(* and restores, and exits. A decode is a graph: for each layer the        *)
(* K-transform operation and then the score operation, each run by all     *)
(* workers with a barrier after it (ggml). A batch has at most one token   *)
(* per worker and one head, so a worker has one key to write and one row   *)
(* of logits to fill. The strict counters are kept as the flags that       *)
(* is_valid looks at. Unsupported tensor types, strides, shapes and stream *)
(* counts are one rejection of the operation; query preparation,           *)
(* non-finite scores, scale and oracle failures one rejection of the row.  *)
(***************************************************************************)
EXTENDS ExternalK

CONSTANTS
    MaxContexts     \* bound: contexts and clears

VARIABLES
    host,          \* what the host thread is doing
    op,            \* the graph operation running: kind and layer
    batch,         \* positions of the batch: start and count
    ctx,           \* context number (a clear begins another)
    next_pos,      \* first free position of the context
    num_layers,    \* state.num_layers; 0 before slha_global_init
    model,         \* layers whose model_handle is set
    kv_off,        \* layers whose kv_mode fell to OFF
    tiles_written, \* g_slha_tiles_written
    mask,          \* g_score_mask_resolved and g_score_mask_error
    resolver,      \* worker inside slha_resolve_score_mask_once, or 0
    counters,      \* g_slha_replace_counters, as flags
    executed,      \* layers with a replaced row (per-layer success)
    row,           \* history: the row each worker delivered last
    history        \* history: a visible key was left out; an encode failed

shimVars == <<host, op, batch, ctx, next_pos, num_layers, model, kv_off,
              tiles_written, mask, resolver, counters, executed, row, history>>
vars == <<externalVars, shimVars>>

LayersOf(n) == 0 .. n - 1
AllLayers == UNION {LayersOf(n) : n \in LayerCounts}

NoOp      == [kind |-> "none", layer |-> 0]
NoRow     == [layer |-> 0, position |-> 0, keys |-> <<>>]
NoCounts  == [callbacks |-> FALSE, expected |-> FALSE, unreplaced |-> FALSE,
              failed |-> FALSE, error |-> FALSE]
Untouched == [short |-> FALSE, encode_failed |-> FALSE]
Key(l, p, c) == <<l, p, c>>

(* slha_mask::parse_layer_mask: what the specification selects, and whether *)
(* it parses for n layers (0: the range is checked later).                  *)
contains(spec, l) == CASE spec = "all" -> TRUE
                       [] spec = "0"   -> l = 0
                       [] spec = "0-1" -> l \in 0 .. 1
                       [] spec = "none" -> FALSE
                       [] OTHER -> FALSE

parse_layer_mask(spec, n) == CASE spec = "0-1" -> n = 0 \/ n > 1
                               [] spec = "0-" -> FALSE
                               [] OTHER -> TRUE

MaskReset(e) == [resolved |-> FALSE, error |-> ~parse_layer_mask(e.spec, 0)]

Init ==
    /\ ExternalInit
    /\ host = "start" /\ op = NoOp /\ batch = [start |-> 0, count |-> 0]
    /\ ctx = 0 /\ next_pos = 0 /\ num_layers = 0 /\ model = {} /\ kv_off = {}
    /\ tiles_written = [l \in AllLayers |-> 0]
    /\ mask = MaskReset(env) /\ resolver = 0
    /\ counters = NoCounts /\ executed = {}
    /\ row = [w \in Workers |-> NoRow] /\ history = Untouched

-----------------------------------------------------------------------------
(* The host thread                                                          *)

(* What slha_global_init makes of the tile store. A store with another      *)
(* number of layers cannot be resized while a tile is valid.                *)
StoreAtInit(n) ==
    IF num_layers = n THEN StoreReset(store) ELSE StoreInit(store, n, 0)

InitRefused(n) == num_layers # n /\ AnyValid(store)

(* llama_kv_cache(): slha_global_init, then slha_external_k_prepare_store   *)
(* or, layer by layer, slha_intercept_k_cache_allocation.                   *)
NewLayers(n) ==
    /\ num_layers' = n
    /\ IF num_layers = n THEN UNCHANGED <<model, kv_off>>
       ELSE model' = {} /\ kv_off' = {}

NewContext(n) ==
    /\ host \in {"start", "idle", "failed"} /\ ctx < MaxContexts
    /\ NewLayers(n)
    /\ ~InitRefused(n)
    /\ IF env.external THEN prepare_store(n, StoreAtInit(n))
       ELSE /\ store' = Resized(StoreAtInit(n), n, Capacity)
            /\ UNCHANGED <<g_ccos_cache, geometry, pre_offload, ffiVars>>
    /\ tiles_written' = [l \in AllLayers |-> 0]
    /\ mask' = MaskReset(env) /\ counters' = NoCounts /\ executed' = {}
    /\ ctx' = ctx + 1 /\ next_pos' = 0 /\ history' = Untouched
    /\ host' = "idle" /\ control' = "none" /\ row' = [w \in Workers |-> NoRow]
    /\ UNCHANGED <<env, saved, call, op, batch, resolver>>

(* The layers have been replaced by then; the caller gets an exception.     *)
NewContextFails(n) ==
    /\ host = "idle" /\ ctx < MaxContexts
    /\ InitRefused(n)
    /\ NewLayers(n)
    /\ host' = "failed" /\ control' = "none" /\ row' = [w \in Workers |-> NoRow]
    /\ UNCHANGED <<env, storeVars, saved, call, ffiVars, op, batch, ctx, next_pos,
                   tiles_written, mask, resolver, counters, executed, history>>

(* llama_memory_clear: slha_k_clear_all. Mutant: the hook does nothing.     *)
slha_k_clear_all_nothing == UNCHANGED <<tiles_written, storeVars, ffiVars>>

slha_k_clear_all ==
    tiles_written' = [l \in AllLayers |-> 0] /\ reset_store

Clear ==
    /\ host = "idle" /\ ctx < MaxContexts
    /\ slha_k_clear_all
    /\ ctx' = ctx + 1 /\ next_pos' = 0
    /\ control' = "none" /\ row' = [w \in Workers |-> NoRow]
    /\ UNCHANGED <<env, saved, call, host, op, batch, num_layers, model, kv_off,
                   mask, resolver, counters, executed, history>>

Offload == host = "idle" /\ offload_quiescent /\ UNCHANGED shimVars
Restore == host = "idle" /\ restore_quiescent /\ UNCHANGED shimVars

HasToken(w) == w <= batch.count
PositionOf(w) == batch.start + w - 1

Begin(kind, l) ==
    /\ op' = [kind |-> kind, layer |-> l]
    /\ call' = [w \in Workers |->
                  [NoCall EXCEPT !.pc = IF kind = "transform" THEN "load" ELSE "mask",
                                 !.layer = l]]
    /\ row' = [w \in Workers |-> NoRow]

Decode(count) ==
    /\ host = "idle"
    /\ next_pos + count <= Capacity
    /\ batch' = [start |-> next_pos, count |-> count]
    /\ Begin("transform", 0)
    /\ host' = "graph" /\ control' = "none"
    /\ UNCHANGED <<env, storeVars, saved, ffiVars, ctx, next_pos, num_layers, model,
                   kv_off, tiles_written, mask, resolver, counters, executed, history>>

(* The barrier after an operation.                                          *)
Barrier ==
    /\ host = "graph" /\ \A w \in Workers : At(w, "done")
    /\ IF op.kind = "transform"
       THEN Begin("score", op.layer) /\ UNCHANGED <<host, next_pos>>
       ELSE IF op.layer + 1 < num_layers
       THEN Begin("transform", op.layer + 1) /\ UNCHANGED <<host, next_pos>>
       ELSE /\ host' = "idle" /\ next_pos' = next_pos + batch.count
            /\ op' = NoOp /\ row' = [w \in Workers |-> NoRow]
            /\ UNCHANGED call
    /\ UNCHANGED <<env, storeVars, saved, control, ffiVars, batch, ctx, num_layers,
                   model, kv_off, tiles_written, mask, resolver, counters,
                   executed, history>>

(* slha_global_shutdown, at exit.                                           *)
Shutdown ==
    /\ host = "idle"
    /\ host' = "exit"
    /\ IF ccos_enabled THEN release_store /\ UNCHANGED store
       ELSE /\ store' = StoreReset(store)
            /\ UNCHANGED <<g_ccos_cache, geometry, pre_offload, ffiVars>>
    /\ num_layers' = 0 /\ model' = {} /\ control' = "none"
    /\ UNCHANGED <<env, saved, call, op, batch, ctx, next_pos, kv_off, tiles_written,
                   mask, resolver, counters, executed, row, history>>

-----------------------------------------------------------------------------
(* slha_k_transform_with_idxs in tilestore mode, by worker w                *)

InOp == <<env, storeVars, saved, control, ffiVars, host, op, batch, ctx,
          next_pos, num_layers>>

(* slha_load_layer_model, under the layer's mutex. Without weights the      *)
(* layer's kv_mode becomes OFF.                                             *)
LoadModel(l) ==
    IF l \in env.missing THEN kv_off' = kv_off \cup {l} /\ UNCHANGED model
    ELSE model' = model \cup {l} /\ UNCHANGED kv_off

TransformLoad(w) ==
    /\ At(w, "load")
    /\ IF op.layer \in kv_off \/ ~HasToken(w)
       THEN Finish(w) /\ UNCHANGED <<model, kv_off>>
       ELSE /\ LoadModel(op.layer)
            /\ IF op.layer \in model' THEN Goto(w, "encode") ELSE Finish(w)
    /\ UNCHANGED <<InOp, tiles_written, mask, resolver, counters, executed, row, history>>

(* slha_encode_key. A key it refuses is skipped.                            *)
Encode(w) ==
    /\ At(w, "encode")
    /\ \/ /\ PositionOf(w) \notin env.bad_keys
          /\ call' = [call EXCEPT ![w].pc = "write", ![w].position = PositionOf(w),
                                  ![w].key = Key(op.layer, PositionOf(w), ctx)]
          /\ UNCHANGED history
       \/ /\ PositionOf(w) \in env.bad_keys
          /\ Finish(w) /\ history' = [history EXCEPT !.encode_failed = TRUE]
    /\ UNCHANGED <<InOp, model, kv_off, tiles_written, mask, resolver, counters,
                   executed, row>>

WriteTile(w) == WriteStep(w) /\ UNCHANGED shimVars

(* After the write: tiles_written grows by compare-and-swap to the highest  *)
(* position stored; in external-K mode a failed write is an error.          *)
WriteError(w) ==
    IF env.external THEN counters' = [counters EXCEPT !.error = TRUE]
    ELSE UNCHANGED counters

TransformEnd(w) ==
    LET n == call[w].position + 1 IN
    /\ At(w, "written") /\ Finish(w)
    /\ IF call[w].ok
       THEN /\ tiles_written' = [tiles_written EXCEPT ![op.layer] =
                                    IF n > @ THEN n ELSE @]
            /\ UNCHANGED counters
       ELSE WriteError(w) /\ UNCHANGED tiles_written
    /\ UNCHANGED <<InOp, model, kv_off, mask, resolver, executed, row, history>>

-----------------------------------------------------------------------------
(* slha_shadow_score in replace mode, by worker w                           *)

(* Types, strides, shapes: an unsupported operation is an error, reported   *)
(* by worker 1, and writes no row.                                          *)
ScoreRejects(w) ==
    /\ At(w, "mask") /\ op.layer \in env.unsupported
    /\ Finish(w)
    /\ counters' = IF w = 1 THEN [counters EXCEPT !.error = TRUE] ELSE counters
    /\ UNCHANGED <<InOp, model, kv_off, tiles_written, mask, resolver, executed,
                   row, history>>

(* g_score_mask_resolved is read without the mutex.                         *)
ScoreMask(w) ==
    /\ At(w, "mask") /\ op.layer \notin env.unsupported
    /\ Goto(w, IF mask.resolved THEN "select" ELSE "resolve")
    /\ UNCHANGED <<InOp, model, kv_off, tiles_written, mask, resolver, counters,
                   executed, row, history>>

(* slha_resolve_score_mask_once takes the mutex and sets the flag first ... *)
ResolveEnter(w) ==
    /\ At(w, "resolve") /\ resolver = 0
    /\ IF mask.resolved
       THEN Goto(w, "select") /\ UNCHANGED <<mask, resolver>>
       ELSE /\ mask' = [mask EXCEPT !.resolved = TRUE]
            /\ resolver' = w /\ Goto(w, "resolving")
    /\ UNCHANGED <<InOp, model, kv_off, tiles_written, counters, executed, row, history>>

(* ... and only then checks the specification. An invalid one fails the     *)
(* run.                                                                     *)
MaskFailure(e) ==
    counters' = IF e THEN [counters EXCEPT !.error = TRUE] ELSE counters

(* Mutant: the mutex is not released.                                       *)
Unlock_held == UNCHANGED resolver

Unlock == resolver' = 0

ResolveExit(w) ==
    LET e == mask.error \/ ~parse_layer_mask(env.spec, num_layers) IN
    /\ At(w, "resolving")
    /\ mask' = [mask EXCEPT !.error = e]
    /\ MaskFailure(e)
    /\ Unlock /\ Goto(w, "select")
    /\ UNCHANGED <<InOp, model, kv_off, tiles_written, executed, row, history>>

(* slha_layer_selected: a layer that is not selected keeps its baseline.    *)
(* Otherwise the counts, the expected ones by worker 1 for all, and the     *)
(* model.                                                                   *)
layer_selected == ~mask.error /\ contains(env.spec, op.layer)

ScorePasses(w) ==
    /\ At(w, "select") /\ ~layer_selected
    /\ Finish(w)
    /\ UNCHANGED <<InOp, model, kv_off, tiles_written, mask, resolver, counters,
                   executed, row, history>>

ScoreModel(w) ==
    LET counted == [counters EXCEPT !.callbacks = TRUE, !.expected = @ \/ w = 1]
    IN /\ At(w, "select") /\ layer_selected
       /\ LoadModel(op.layer)
       /\ IF op.layer \in model'
          THEN /\ IF HasToken(w) THEN Goto(w, "vector") ELSE Finish(w)
               /\ counters' = counted
          ELSE /\ Finish(w)
               /\ counters' = IF w = 1 THEN [counted EXCEPT !.failed = TRUE,
                                                            !.error = TRUE]
                              ELSE counted
       /\ UNCHANGED <<InOp, tiles_written, mask, resolver, executed, row, history>>

(* One row: the written prefix of the layer is scored, the rest is padding. *)
n_check == LET n == tiles_written[op.layer]
           IN IF n < Capacity THEN n ELSE Capacity

RowFails(w) ==
    counters' = [counters EXCEPT !.unreplaced = TRUE, !.failed = TRUE, !.error = TRUE]

ScoreVector(w) ==
    /\ At(w, "vector") /\ Finish(w)
    /\ \/ /\ n_check > 0 /\ Readable(op.layer, n_check)
          /\ PositionOf(w) \notin env.bad_rows
          /\ executed' = executed \cup {op.layer}
          /\ row' = [row EXCEPT ![w] =
                       [layer |-> op.layer, position |-> PositionOf(w),
                        keys |-> [i \in 1 .. n_check |-> KeyAt(op.layer, i - 1)]]]
          /\ history' = [history EXCEPT !.short = @ \/ n_check <= PositionOf(w)]
          /\ UNCHANGED counters
       \/ /\ n_check = 0 /\ PositionOf(w) \notin env.bad_rows
          /\ counters' = [counters EXCEPT !.unreplaced = TRUE]
          /\ UNCHANGED <<executed, row, history>>
       \/ /\ PositionOf(w) \in env.bad_rows \/ ~Readable(op.layer, n_check)
          /\ RowFails(w)
          /\ UNCHANGED <<executed, row, history>>
    /\ UNCHANGED <<InOp, model, kv_off, tiles_written, mask, resolver>>

-----------------------------------------------------------------------------
Host == \/ \E n \in LayerCounts : NewContext(n) \/ NewContextFails(n)
        \/ Clear \/ Offload \/ Restore \/ Barrier \/ Shutdown
        \/ \E n \in 1 .. Cardinality(Workers) : Decode(n)

Work(w) == \/ TransformLoad(w) \/ Encode(w) \/ WriteTile(w) \/ TransformEnd(w)
           \/ ScoreRejects(w) \/ ScoreMask(w) \/ ResolveEnter(w) \/ ResolveExit(w)
           \/ ScorePasses(w) \/ ScoreModel(w) \/ ScoreVector(w)

Next == Host \/ \E w \in Workers : Work(w)

(* ggml runs every task of a graph and its barriers.                        *)
Fairness == WF_vars(Barrier) /\ \A w \in Workers : WF_vars(Work(w))

Spec == Init /\ [][Next]_vars /\ Fairness

-----------------------------------------------------------------------------
(* slha_replace_counters::is_valid and the mask summary at shutdown.        *)
is_valid == /\ counters.callbacks /\ counters.expected
            /\ ~counters.unreplaced /\ ~counters.failed /\ ~counters.error

resolved_ids == {l \in LayersOf(num_layers) : ~mask.error /\ contains(env.spec, l)}

(* "Keeping the pre-offload snapshot across reset would allow stale         *)
(* lifecycle state to be applied to a new logical context": every logit     *)
(* delivered comes from the key of exactly that layer and position, written *)
(* in this context, through clears, reallocations, demotions by other       *)
(* workers, offload and restore.                                            *)
ScoresCurrent ==
    \A w \in Workers : \A i \in DOMAIN row[w].keys :
        row[w].keys[i] = Key(row[w].layer, i - 1, ctx)

(* "REPLACE MODE - fail-closed": between decodes, a run that would be       *)
(* reported valid has scored every key its queries can see.                 *)
ValidMeansComplete == host = "idle" /\ is_valid => ~history.short

(* The same, as far as the code goes: an encode failure is not noticed. And *)
(* such a run replaced no layer outside the mask, although workers may act  *)
(* on the mask while another is still resolving it.                         *)
CompleteUnlessEncodeFailed ==
    host = "idle" /\ is_valid =>
        /\ history.short => history.encode_failed
        /\ executed \subseteq resolved_ids

(* What replaces the attention scores can be relied on: no stale key, and   *)
(* no run that reports itself valid left keys out unnoticed.                *)
LogitsTrusted == ScoresCurrent /\ CompleteUnlessEncodeFailed

(* Every graph ends: no worker is left behind a barrier or a mutex.         *)
DecodeReturns == host = "graph" ~> host = "idle"

=============================================================================
