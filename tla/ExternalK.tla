------------------------------ MODULE ExternalK ------------------------------
(***************************************************************************)
(* The external K store of the llama.cpp integration                       *)
(* (shim/slha_external_k.cpp, and slha_tile_store of shim/slha_llama.cpp). *)
(*                                                                         *)
(* Tiles live either in the C++ tile vector or, with SLHA_CCOS, in an      *)
(* elastic cache behind the C interface. Worker threads of one graph       *)
(* operation write concurrently and without g_ccos_mutex: a write is the   *)
(* four calls of write_tile, each a step here. The control operations      *)
(* belong to the host thread, between graph operations (the contract in    *)
(* slha_external_k.hpp). A tile's payload is the layer, position and       *)
(* context it was encoded for. Counters that are only printed are left     *)
(* out.                                                                    *)
(***************************************************************************)
EXTENDS ElasticFfi

CONSTANTS
    Workers,     \* worker threads of a graph operation, 1 .. nth
    Capacity,    \* kv_size
    LayerCounts, \* layer counts of the models loaded
    Configs      \* environments: external, ccos, budget, layer mask; and
                 \* the layers without weights or with unsupported tensors,
                 \* the positions whose key or whose query row is rejected

ASSUME ExternalKAssumption ==
    /\ Workers \subseteq Nat \ {0} /\ Capacity \in Nat
    /\ LayerCounts \subseteq Nat \ {0}
    /\ \A e \in Configs : e.budget \in Nat
    /\ \A n \in LayerCounts : 0 .. Capacity * n - 1 \subseteq Slots

VARIABLES
    env,           \* the process environment
    store,         \* g_slha_tile_store: geometry and valid tiles
    g_ccos_cache,  \* handle, or NULL
    geometry,      \* g_ccos_n_layers, g_ccos_capacity, g_ccos_budget_bytes
    pre_offload,   \* g_quiescent_pre_offload_*
    saved,         \* history: the slots when they were last offloaded
    control,       \* outcome of the last control operation
    call           \* the write each worker is in

storeVars == <<store, g_ccos_cache, geometry, pre_offload>>
externalVars == <<env, storeVars, saved, control, call, ffiVars>>

Positions == 0 .. Capacity - 1

NoPre      == [resident |-> 0, hot |-> 0, warm |-> 0]
NoGeometry == [n_layers |-> 0, capacity |-> 0, budget |-> 0]
EmptyStore(n, cap) ==
    [n_layers |-> n, capacity |-> cap,
     tile |-> [lp \in (0 .. n - 1) \X (0 .. cap - 1) |-> <<>>]]
NoCall == [pc |-> "done", layer |-> 0, position |-> 0, key |-> <<>>,
           before |-> [resident |-> 0, active |-> 0], ok |-> FALSE]

(* SLHA_KV_MODE=tilestore and SLHA_SCORE_MODE=replace are fixed. External K *)
(* needs every layer: slha_external_k_validate_environment.                 *)
validate_environment(e) == e.external => e.spec = "all"

ccos_enabled == env.external /\ env.ccos

ExternalInit ==
    /\ FfiInit
    /\ env \in {e \in Configs : validate_environment(e)}
    /\ store = EmptyStore(0, 0)
    /\ g_ccos_cache = NULL /\ geometry = NoGeometry /\ pre_offload = NoPre
    /\ saved = <<>> /\ control = "none"
    /\ call = [w \in Workers |-> NoCall]

Cache == objects[live[g_ccos_cache]]

(* What the lookup of g_ccos_cache finds.                                   *)
CacheFound == g_ccos_cache \in DOMAIN live

-----------------------------------------------------------------------------
(* slha_tile_store                                                          *)

AnyValid(st) == \E lp \in DOMAIN st.tile : st.tile[lp] # <<>>

(* init, and slha_resize_empty_tile_store: refused while a tile is valid.   *)
StoreInit(st, n, cap) == IF AnyValid(st) THEN st ELSE EmptyStore(n, cap)

Resized(st, n, cap) ==
    IF st.n_layers = n /\ st.capacity >= cap THEN st ELSE StoreInit(st, n, cap)

(* reset                                                                    *)
StoreReset(st) == EmptyStore(st.n_layers, st.capacity)

InStore(st, l, p) == l < st.n_layers /\ p < st.capacity

-----------------------------------------------------------------------------
(* Control operations of the host thread                                    *)

(* ccos_geometry_slot                                                       *)
ccos_geometry_slot(l, p) == p * geometry.n_layers + l

(* slha_external_k_prepare_store for a model of n layers. The old cache is  *)
(* freed and a new one made; the C++ vector keeps geometry only.            *)
PrepareCcos(n) ==
    /\ IF CacheFound
       THEN \E a \in Allocatable :
              /\ Len(objects) < MaxCaches
              /\ objects' = Append(objects, NewCache(env.budget))
              /\ live' = [b \in {a} |-> Len(objects) + 1]
              /\ retired' = retired \cup {g_ccos_cache}
              /\ g_ccos_cache' = a
       ELSE \E a \in Allocatable :
              register_cache(a, env.budget) /\ g_ccos_cache' = a
    /\ geometry' = [n_layers |-> n, capacity |-> Capacity, budget |-> env.budget]
    /\ store' = EmptyStore(n, Capacity)

prepare_store(n, st) ==
    /\ pre_offload' = NoPre
    /\ \/ ccos_enabled /\ PrepareCcos(n)
       \/ /\ ~ccos_enabled
          /\ geometry' = NoGeometry
          /\ store' = StoreInit(st, n, Capacity)
          /\ UNCHANGED <<g_ccos_cache, ffiVars>>

(* slha_external_k_ccos_offload_quiescent                                   *)
CanOffload == ccos_enabled /\ CacheFound /\ Active(Cache) > 0
                  /\ Stats(Cache).cold = 0

offload_quiescent ==
    /\ CanOffload
    /\ Update(live[g_ccos_cache], AllOffloaded(Cache))
    /\ pre_offload' = [resident |-> Stats(Cache).resident,
                       hot |-> Stats(Cache).hot, warm |-> Stats(Cache).warm]
    /\ saved' = Cache.slot
    /\ control' = "offloaded"
    /\ UNCHANGED <<env, store, g_ccos_cache, geometry, call>>

(* slha_external_k_ccos_restore_quiescent. Slots are restored one by one    *)
(* and residency only grows, so a restore fails on the way exactly when     *)
(* all of them together exceed the hard budget.                             *)
AllRestored(c) ==
    [c EXCEPT !.slot = [s \in Slots |-> [@[s] EXCEPT !.tier = c.slot[s].rep]]]

AsBefore(c) == /\ Stats(c).resident = pre_offload.resident
               /\ Stats(c).hot = pre_offload.hot
               /\ Stats(c).warm = pre_offload.warm

AfterFailedRestore(c) == AllOffloaded(c)

restore_quiescent ==
    /\ ccos_enabled /\ CacheFound /\ pre_offload.resident # 0
    /\ IF Resident(AllRestored(Cache)) <= Cache.hard /\ AsBefore(AllRestored(Cache))
       THEN /\ Update(live[g_ccos_cache], AllRestored(Cache))
            /\ pre_offload' = NoPre
            /\ control' = "restored"
       ELSE /\ Update(live[g_ccos_cache], AfterFailedRestore(Cache))
            /\ control' = "restore_failed"
            /\ UNCHANGED pre_offload
    /\ UNCHANGED <<env, store, g_ccos_cache, geometry, saved, call>>

(* slha_external_k_reset_store. Mutant: the restore intent survives.        *)
PreAfterReset_kept == pre_offload

PreAfterReset == NoPre

reset_store ==
    \/ /\ ccos_enabled
       /\ pre_offload' = PreAfterReset
       /\ IF CacheFound THEN Update(live[g_ccos_cache], Cleared(Cache))
          ELSE UNCHANGED ffiVars
       /\ UNCHANGED <<store, g_ccos_cache, geometry>>
    \/ /\ ~ccos_enabled
       /\ store' = StoreReset(store)
       /\ UNCHANGED <<g_ccos_cache, geometry, pre_offload, ffiVars>>

(* slha_external_k_release_store                                            *)
release_store ==
    /\ IF CacheFound THEN unregister_cache(g_ccos_cache) ELSE UNCHANGED ffiVars
    /\ g_ccos_cache' = NULL /\ geometry' = NoGeometry /\ pre_offload' = NoPre

-----------------------------------------------------------------------------
(* slha_external_k_write_tile, by worker w                                  *)

At(w, pc) == call[w].pc = pc

Goto(w, pc) == call' = [call EXCEPT ![w].pc = pc]

Finish(w) == call' = [call EXCEPT ![w] = NoCall]

WriteEnds(w, ok) == call' = [call EXCEPT ![w].pc = "written", ![w].ok = ok]

(* The C++ vector: one locked step.                                         *)
WriteVector(w) ==
    LET c == call[w] IN
    /\ At(w, "write") /\ ~ccos_enabled
    /\ IF InStore(store, c.layer, c.position)
       THEN /\ store' = [store EXCEPT !.tile[<<c.layer, c.position>>] = c.key]
            /\ WriteEnds(w, TRUE)
       ELSE WriteEnds(w, FALSE) /\ UNCHANGED store
    /\ UNCHANGED <<env, g_ccos_cache, geometry, pre_offload, saved, control, ffiVars>>

InGeometry(l, p) == l < geometry.n_layers /\ p < geometry.capacity

(* snapshot_ccos: the statistics that admission will use.                   *)
WriteSnapshot(w) ==
    LET c == call[w] IN
    /\ At(w, "write") /\ ccos_enabled
    /\ IF CacheFound /\ InGeometry(c.layer, c.position)
       THEN call' = [call EXCEPT ![w].pc = "admit",
                        ![w].before = [resident |-> Resident(Cache),
                                       active |-> Active(Cache)]]
       ELSE WriteEnds(w, FALSE)
    /\ UNCHANGED <<env, storeVars, saved, control, ffiVars>>

SlotOf(w) == ccos_geometry_slot(call[w].layer, call[w].position)

(* Admission: every active key must fit at least WARM.                      *)
WriteAdmit(w) ==
    LET t == Cache.slot[SlotOf(w)].tier
        active_after == call[w].before.active + (IF t = "ABSENT" THEN 1 ELSE 0)
        prior == IF t \in {"HOT", "WARM"} THEN UnitsOf(t) ELSE 0
    IN /\ At(w, "admit")
       /\ IF /\ active_after * WARM_UNITS <= geometry.budget
             /\ call[w].before.resident >= prior
          THEN Goto(w, "dense") ELSE WriteEnds(w, FALSE)
       /\ UNCHANGED <<env, storeVars, saved, control, ffiVars>>

(* slha_elastic_cache_write_dense_budget under the cache's own mutex.       *)
WriteDense(w) ==
    LET after == DenseWritten(Cache, SlotOf(w), call[w].key, geometry.budget)
    IN /\ At(w, "dense")
       /\ IF after = {} THEN WriteEnds(w, FALSE) /\ UNCHANGED ffiVars
          ELSE /\ \E c \in after : Update(live[g_ccos_cache], c)
               /\ Goto(w, "final")
       /\ UNCHANGED <<env, storeVars, saved, control>>

(* The last look: the write stands, but with a COLD key about, or over      *)
(* budget, it reports failure.                                              *)
WriteFinal(w) ==
    /\ At(w, "final")
    /\ WriteEnds(w, Stats(Cache).cold = 0 /\ Resident(Cache) <= geometry.budget)
    /\ UNCHANGED <<env, storeVars, saved, control, ffiVars>>

WriteStep(w) == \/ WriteVector(w) \/ WriteSnapshot(w) \/ WriteAdmit(w)
                \/ WriteDense(w) \/ WriteFinal(w)

-----------------------------------------------------------------------------
(* slha_external_k_score_tiles over positions 0 .. n - 1 of a layer         *)

Readable(l, n) ==
    IF ccos_enabled
    THEN /\ CacheFound /\ n <= geometry.capacity /\ InGeometry(l, 0)
         /\ \A p \in 0 .. n - 1 : Scoreable(Cache, ccos_geometry_slot(l, p))
    ELSE \A p \in 0 .. n - 1 : InStore(store, l, p) /\ store.tile[<<l, p>>] # <<>>

KeyAt(l, p) == IF ccos_enabled THEN Cache.slot[ccos_geometry_slot(l, p)].key
               ELSE store.tile[<<l, p>>]

-----------------------------------------------------------------------------
(* The budget holds at every step of concurrent writers, although each      *)
(* admits on statistics that are stale when it writes; and it holds across  *)
(* offload, restore and their failures.                                     *)
ResidentWithinBudget == CacheFound => Resident(Cache) <= geometry.budget

(* A restore that reports success puts every slot back as it was when it    *)
(* was offloaded, in the same context; one that fails leaves no slot        *)
(* resident, so that no half restored context can be scored.                *)
RestoreExact ==
    [][/\ control' = "restored" /\ control # "restored" => Cache'.slot = saved
       /\ control' = "restore_failed" /\ control # "restore_failed" =>
              InTier(Cache', {"HOT", "WARM"}) = {}]_externalVars

=============================================================================
