----------------------------- MODULE LlamaProofs -----------------------------
(***************************************************************************)
(* What holds of the llama.cpp integration for any number of worker        *)
(* threads, layers, positions and contexts, any budget and any environment:*)
(* the external K store stays within its budget, a restore is exact, the   *)
(* logits that replace the attention scores can be trusted, and a ranking  *)
(* dataset that is marked valid reads back as it was collected.            *)
(***************************************************************************)
EXTENDS LlamaShim, RankDataset, SetLemmas, SequenceTheorems, TLAPS

-----------------------------------------------------------------------------
(* Types                                                                    *)

KeyType == Seq(Nat)

TileType == [tier : {"ABSENT", "HOT", "WARM", "COLD"},
             rep  : {"ABSENT", "HOT", "WARM"}, key : KeyType]

SlotsType == [Slots -> TileType]
CacheType == [hard : Nat, slot : SlotsType]

PhaseType == {"done", "load", "encode", "write", "admit", "dense", "final",
              "written", "mask", "resolve", "resolving", "select", "vector"}

CallType == [pc : PhaseType, layer : Nat, position : Nat, key : KeyType,
             before : [resident : Nat, active : Nat], ok : BOOLEAN]

HostTyped ==
    /\ env \in Configs
    /\ host \in {"start", "idle", "failed", "graph", "exit"}
    /\ ctx \in Nat /\ next_pos \in Nat /\ num_layers \in Nat
    /\ batch \in [start : Nat, count : Nat]
    /\ op \in [kind : {"none", "transform", "score"}, layer : Nat]
    /\ geometry \in [n_layers : Nat, capacity : Nat, budget : Nat]
    /\ pre_offload \in [resident : Nat, hot : Nat, warm : Nat]

CallTyped == call \in [Workers -> CallType]

FlagsTyped ==
    /\ tiles_written \in [AllLayers -> Nat]
    /\ mask \in [resolved : BOOLEAN, error : BOOLEAN]
    /\ counters \in [callbacks : BOOLEAN, expected : BOOLEAN,
                     unreplaced : BOOLEAN, failed : BOOLEAN, error : BOOLEAN]
    /\ history \in [short : BOOLEAN, encode_failed : BOOLEAN]
    /\ DOMAIN row = Workers

-----------------------------------------------------------------------------
(* Where the host and the workers are                                       *)

Loaded == host \in {"idle", "graph"}

(* A context of a model that was loaded has its geometry.                   *)
Geometry ==
    /\ Loaded => num_layers \in LayerCounts
    /\ Loaded /\ ccos_enabled =>
           CacheFound /\ geometry.n_layers = num_layers /\ geometry.capacity = Capacity
    /\ Loaded /\ ~ccos_enabled =>
           store.n_layers = num_layers /\ store.capacity >= Capacity
    /\ host = "graph" =>
           /\ op.kind # "none" /\ op.layer < num_layers
           /\ batch.start = next_pos /\ batch.start + batch.count <= Capacity

Transforming == {"load", "encode", "write", "admit", "dense", "final", "written"}
Writing == {"write", "admit", "dense", "final", "written"}

Phase(w) ==
    LET c == call[w] IN
    /\ host # "graph" => c.pc = "done"
    /\ c.pc # "done" => c.layer = op.layer
    /\ c.pc \in Transforming => op.kind = "transform"
    /\ c.pc # "done" /\ c.pc \notin Transforming => op.kind = "score"
    /\ c.pc \in Writing \cup {"encode", "vector"} =>
           HasToken(w) /\ op.layer \in model
    /\ c.pc \in Writing =>
           /\ c.position = PositionOf(w)
           /\ c.key = Key(op.layer, PositionOf(w), ctx)
    /\ c.pc \in {"admit", "dense", "final"} => ccos_enabled
    /\ c.pc = "written" => c.ok \/ env.external
    /\ c.pc = "vector" => contains(env.spec, op.layer)

Phases ==
    /\ \A w \in Workers : Phase(w)
    /\ model \cap env.missing = {} /\ kv_off \subseteq env.missing

-----------------------------------------------------------------------------
(* The store                                                                *)

Layer(s)    == s % geometry.n_layers
Position(s) == s \div geometry.n_layers

TileOK(t) == /\ t.tier \in {t.rep, "COLD"}
             /\ t.rep = "ABSENT" <=> t.tier = "ABSENT"
             /\ t.tier = "ABSENT" => t = AbsentTile

Used(s) == Cache.slot[s].tier # "ABSENT"

(* The cache of the context: within its budget, and every tile in it was    *)
(* encoded in this context for the layer and position of its slot.          *)
CacheOK ==
    /\ objects \in Seq(CacheType)
    /\ DOMAIN live \subseteq {g_ccos_cache}
    /\ CacheFound =>
           /\ ccos_enabled
           /\ live[g_ccos_cache] \in 1 .. Len(objects)
           /\ Cache.hard = geometry.budget
           /\ Resident(Cache) <= Cache.hard
           /\ geometry.n_layers > 0
           /\ \A s \in Slots : TileOK(Cache.slot[s])
           /\ \A s \in Slots : Used(s) =>
                  Cache.slot[s].key = Key(Layer(s), Position(s), ctx)

(* The same of the C++ vector, which has no tile when the cache has them.   *)
StoreTyped(st) ==
    /\ st \in [n_layers : Nat, capacity : Nat, tile : {st.tile}]
    /\ st.tile \in [(0 .. st.n_layers - 1) \X (0 .. st.capacity - 1) -> KeyType]

StoreOK ==
    /\ StoreTyped(store)
    /\ \A lp \in DOMAIN store.tile :
           store.tile[lp] # <<>> =>
               ~ccos_enabled /\ store.tile[lp] = Key(lp[1], lp[2], ctx)

(* A slot that is in use belongs to an earlier batch, or to a layer of this *)
(* batch that is done, or to a worker that has written: a slot is written   *)
(* once in a context.                                                       *)
WrittenBy(w, s) == /\ Position(s) = PositionOf(w)
                   /\ call[w].pc \in {"final", "written", "done"}

Fresh ==
    CacheFound =>
        \A s \in Slots : Used(s) =>
            /\ host = "idle" => Position(s) < next_pos
            /\ host = "graph" =>
                   /\ Position(s) < batch.start + batch.count
                   /\ \/ Position(s) < batch.start
                      \/ Layer(s) < op.layer
                      \/ /\ Layer(s) = op.layer
                         /\ \/ op.kind = "score"
                            \/ \E w \in Workers : WrittenBy(w, s)

(* What a restore is going to bring back: the offloaded slots are as they   *)
(* were saved, but COLD, and nothing has been written over them.            *)
SavedIn(T) == {s \in Slots : saved[s].tier \in T}

Snapshot ==
    pre_offload.resident # 0 =>
        /\ CacheFound
        /\ saved \in SlotsType
        /\ pre_offload.hot = Cardinality(SavedIn({"HOT"}))
        /\ pre_offload.warm = Cardinality(SavedIn({"WARM"}))
        /\ \A s \in Slots :
               /\ saved[s].tier = saved[s].rep /\ TileOK(saved[s])
               /\ saved[s].tier # "ABSENT" =>
                      Cache.slot[s] = [saved[s] EXCEPT !.tier = "COLD"]

-----------------------------------------------------------------------------
(* What is reported                                                         *)

(* Worker w has gone through the K-transform of the layer at hand.          *)
Transformed(w) == op.kind = "score" \/ call[w].pc = "done"

(* Unless a failure has been noted, a worker that is through has its        *)
(* position below tiles_written.                                            *)
Complete ==
    ~history.encode_failed /\ ~counters.error =>
        /\ ~history.short
        /\ \A w \in Workers :
               host = "graph" /\ HasToken(w) /\ Transformed(w)
                       /\ op.layer \notin env.missing
                   => tiles_written[op.layer] > PositionOf(w)

Selected ==
    /\ Loaded => executed \subseteq {l \in LayersOf(num_layers) : contains(env.spec, l)}
    /\ mask.error /\ ~counters.error =>
           executed = {} /\ \A w \in Workers : call[w].pc # "vector"

LlamaInv == /\ HostTyped /\ CallTyped /\ FlagsTyped /\ Geometry /\ Phases
            /\ CacheOK /\ StoreOK /\ Fresh /\ Snapshot
            /\ Complete /\ Selected /\ ScoresCurrent

-----------------------------------------------------------------------------
(* The cache object                                                         *)

LEMMA InTierFinite ==
    ASSUME NEW c, NEW T
    PROVE  /\ InTier(c, T) \in SUBSET Slots /\ IsFiniteSet(InTier(c, T))
           /\ Cardinality(InTier(c, T)) \in Nat
<1>1. InTier(c, T) \in SUBSET Slots BY DEF InTier
<1>2. IsFiniteSet(InTier(c, T)) BY <1>1, ElasticFfiAssumption, FS_Subset
<1> QED BY <1>1, <1>2, FS_CardinalityType

LEMMA CountsNat == ASSUME NEW c PROVE Resident(c) \in Nat /\ Active(c) \in Nat
<1>1. Cardinality(InTier(c, {"HOT"})) \in Nat /\ Cardinality(InTier(c, {"WARM"})) \in Nat
  BY InTierFinite
<1>2. Active(c) \in Nat BY InTierFinite DEF Active
<1> QED BY <1>1, <1>2 DEF Resident, HOT_UNITS, WARM_UNITS

(* Nothing resident: no bytes.                                              *)
LEMMA EmptyResident ==
    ASSUME NEW c, \A s \in Slots : c.slot[s].tier \notin {"HOT", "WARM"}
    PROVE  Resident(c) = 0 /\ InTier(c, {"HOT", "WARM"}) = {}
<1>1. InTier(c, {"HOT"}) = {} /\ InTier(c, {"WARM"}) = {} /\ InTier(c, {"HOT", "WARM"}) = {}
  BY DEF InTier
<1>2. Cardinality({}) = 0 BY FS_EmptySet
<1> QED BY <1>1, <1>2 DEF Resident, HOT_UNITS, WARM_UNITS

LEMMA TileTyped ==
    ASSUME NEW rep \in {"HOT", "WARM"}, NEW key \in KeyType
    PROVE  /\ Tile(rep, key) \in TileType /\ Tile(rep, key).tier = rep
           /\ Tile(rep, key).rep = rep /\ Tile(rep, key).key = key
BY DEF Tile, TileType

LEMMA AbsentTyped == AbsentTile \in TileType /\ AbsentTile.tier = "ABSENT" /\ TileOK(AbsentTile)
<1>1. <<>> \in KeyType BY DEF KeyType
<1> QED BY <1>1 DEF AbsentTile, TileType, TileOK

(* A cache whose HOT victims D have been demoted.                           *)
LEMMA DemotedOK ==
    ASSUME NEW c \in CacheType, NEW D \in SUBSET InTier(c, {"HOT"})
    PROVE  /\ Demoted(c, D) \in CacheType /\ Demoted(c, D).hard = c.hard
           /\ \A s \in Slots : Demoted(c, D).slot[s] =
                  IF s \in D THEN Tile("WARM", c.slot[s].key) ELSE c.slot[s]
           /\ Resident(Demoted(c, D)) = Resident(c) - Cardinality(D)
           /\ Cardinality(D) \in Nat
<1> DEFINE d == Demoted(c, D)
           H == InTier(c, {"HOT"})
           W == InTier(c, {"WARM"})
<1>1. D \in SUBSET Slots BY InTierFinite
<1>2. \A s \in Slots : c.slot[s] \in TileType /\ c.slot[s].key \in KeyType
  BY DEF CacheType, SlotsType, TileType
<1>3. /\ d = [hard |-> c.hard, slot |-> [s \in Slots |->
                 IF s \in D THEN Tile("WARM", c.slot[s].key) ELSE c.slot[s]]]
  BY DEF Demoted, CacheType
<1>4. d \in CacheType
  <2>1. \A s \in Slots : (IF s \in D THEN Tile("WARM", c.slot[s].key) ELSE c.slot[s]) \in TileType
    BY <1>2, TileTyped
  <2>2. c.hard \in Nat BY DEF CacheType
  <2> QED BY <1>3, <2>1, <2>2 DEF CacheType, SlotsType
<1>5. \A s \in Slots : d.slot[s] = IF s \in D THEN Tile("WARM", c.slot[s].key) ELSE c.slot[s]
  BY <1>3
<1>6. InTier(d, {"HOT"}) = H \ D /\ InTier(d, {"WARM"}) = W \cup D
  <2>1. \A s \in D : d.slot[s].tier = "WARM" BY <1>1, <1>2, <1>5, TileTyped
  <2>2. \A s \in Slots \ D : d.slot[s] = c.slot[s] BY <1>5
  <2>3. \A s \in D : c.slot[s].tier = "HOT" BY DEF InTier
  <2> HIDE DEF d
  <2> QED BY <1>1, <2>1, <2>2, <2>3 DEF InTier
<1>7. IsFiniteSet(H) /\ IsFiniteSet(W) /\ Cardinality(H) \in Nat /\ Cardinality(W) \in Nat
  BY InTierFinite
<1>8. IsFiniteSet(D) /\ Cardinality(D) \in Nat
  BY <1>7, FS_Subset, FS_CardinalityType
<1>9. H \cap D = D /\ W \cap D = {} BY DEF InTier
<1>10. Cardinality(H \ D) = Cardinality(H) - Cardinality(D) BY <1>7, <1>8, <1>9, FS_Difference
<1>11. Cardinality(W \cup D) = Cardinality(W) + Cardinality(D)
  BY <1>7, <1>8, <1>9, FS_Union, FS_EmptySet
<1>12. Resident(d) = Resident(c) - Cardinality(D)
  <2> HIDE DEF d, H, W
  <2>1. Resident(c) = 4 * Cardinality(H) + 3 * Cardinality(W)
    BY DEF Resident, H, W, HOT_UNITS, WARM_UNITS
  <2>2. Resident(d) = 4 * Cardinality(H \ D) + 3 * Cardinality(W \cup D)
    BY <1>6 DEF Resident, HOT_UNITS, WARM_UNITS
  <2> QED BY <2>1, <2>2, <1>7, <1>8, <1>10, <1>11
<1>13. d.hard = c.hard BY <1>3
<1> QED BY <1>4, <1>5, <1>8, <1>12, <1>13

(* A tile put where there was none adds its units.                          *)
LEMMA PutOK ==
    ASSUME NEW c \in CacheType, NEW s \in Slots, c.slot[s].tier = "ABSENT",
           NEW rep \in {"HOT", "WARM"}, NEW key \in KeyType
    PROVE  LET d == [c EXCEPT !.slot[s] = Tile(rep, key)] IN
           /\ d \in CacheType /\ d.hard = c.hard
           /\ \A t \in Slots : d.slot[t] = IF t = s THEN Tile(rep, key) ELSE c.slot[t]
           /\ Resident(d) = Resident(c) + UnitsOf(rep)
<1> DEFINE d == [c EXCEPT !.slot[s] = Tile(rep, key)]
           H == InTier(c, {"HOT"})
           W == InTier(c, {"WARM"})
<1>1. Tile(rep, key) \in TileType /\ Tile(rep, key).tier = rep BY TileTyped
<1>2. d \in CacheType /\ d.hard = c.hard BY <1>1 DEF CacheType, SlotsType
<1>3. \A t \in Slots : d.slot[t] = IF t = s THEN Tile(rep, key) ELSE c.slot[t]
  BY DEF CacheType, SlotsType
<1>4. s \notin H /\ s \notin W BY DEF InTier
<1>5. IsFiniteSet(H) /\ IsFiniteSet(W) /\ Cardinality(H) \in Nat /\ Cardinality(W) \in Nat
  BY InTierFinite
<1>6. /\ Cardinality(H \cup {s}) = Cardinality(H) + 1
      /\ Cardinality(W \cup {s}) = Cardinality(W) + 1
  BY <1>4, <1>5, FS_AddElement
<1>7. d.slot[s].tier = rep /\ \A t \in Slots \ {s} : d.slot[t] = c.slot[t]
  BY <1>1, <1>3
<1>8. Resident(c) = 4 * Cardinality(H) + 3 * Cardinality(W)
  BY DEF Resident, HOT_UNITS, WARM_UNITS
<1>9. Resident(d) = 4 * Cardinality(InTier(d, {"HOT"})) + 3 * Cardinality(InTier(d, {"WARM"}))
  BY DEF Resident, HOT_UNITS, WARM_UNITS
<1>10. CASE rep = "HOT"
  <2>1. InTier(d, {"HOT"}) = H \cup {s} /\ InTier(d, {"WARM"}) = W
    <3>1. \A t \in Slots : t \in H <=> c.slot[t].tier = "HOT" BY DEF InTier
    <3>2. \A t \in Slots : t \in W <=> c.slot[t].tier = "WARM" BY DEF InTier
    <3>3. H \subseteq Slots /\ W \subseteq Slots BY DEF InTier
    <3> HIDE DEF d, H, W
    <3> QED BY <3>1, <3>2, <3>3, <1>4, <1>7, <1>10 DEF InTier
  <2>2. UnitsOf(rep) = 4 BY <1>10 DEF UnitsOf, HOT_UNITS
  <2>3. Resident(d) = Resident(c) + UnitsOf(rep)
    <3>1. /\ Cardinality(InTier(d, {"HOT"})) = Cardinality(H) + 1
          /\ Cardinality(InTier(d, {"WARM"})) = Cardinality(W)
      BY <2>1, <1>6
    <3> HIDE DEF d, H, W
    <3> QED BY <3>1, <2>2, <1>5, <1>8, <1>9
  <2> QED BY <2>3, <1>2, <1>3
<1>11. CASE rep = "WARM"
  <2>1. InTier(d, {"WARM"}) = W \cup {s} /\ InTier(d, {"HOT"}) = H
    <3>1. \A t \in Slots : t \in H <=> c.slot[t].tier = "HOT" BY DEF InTier
    <3>2. \A t \in Slots : t \in W <=> c.slot[t].tier = "WARM" BY DEF InTier
    <3>3. H \subseteq Slots /\ W \subseteq Slots BY DEF InTier
    <3> HIDE DEF d, H, W
    <3> QED BY <3>1, <3>2, <3>3, <1>4, <1>7, <1>11 DEF InTier
  <2>2. UnitsOf(rep) = 3 BY <1>11 DEF UnitsOf, WARM_UNITS
  <2>3. Resident(d) = Resident(c) + UnitsOf(rep)
    <3>1. /\ Cardinality(InTier(d, {"WARM"})) = Cardinality(W) + 1
          /\ Cardinality(InTier(d, {"HOT"})) = Cardinality(H)
      BY <2>1, <1>6
    <3> HIDE DEF d, H, W
    <3> QED BY <3>1, <2>2, <1>5, <1>8, <1>9
  <2> QED BY <2>3, <1>2, <1>3
<1> QED BY <1>10, <1>11

(* What slha_elastic_cache_write_dense_budget leaves in c, having written   *)
(* key at s: within the budget, the other slots as they were or demoted.    *)
DenseLeaves(c, s, key, d) ==
    /\ d \in CacheType /\ d.hard = c.hard /\ Resident(d) <= d.hard
    /\ d.slot[s].tier \in {"HOT", "WARM"}
    /\ d.slot[s].rep = d.slot[s].tier /\ d.slot[s].key = key
    /\ \A t \in Slots \ {s} :
           \/ d.slot[t] = c.slot[t]
           \/ c.slot[t].tier = "HOT" /\ d.slot[t] = Tile("WARM", c.slot[t].key)

(* At most as many victims as are needed, and no fewer.                     *)
LEMMA DenseOK ==
    ASSUME NEW c \in CacheType, NEW s \in Slots, NEW key \in KeyType,
           NEW d \in DenseWritten(c, s, key, c.hard)
    PROVE  DenseLeaves(c, s, key, d)
<1> DEFINE e == [c EXCEPT !.slot[s] = AbsentTile]
           over == Resident(e) + 3 - c.hard
<1>1. c.hard \in Nat BY DEF CacheType
<1>2. e \in CacheType /\ e.hard = c.hard /\ e.slot[s] = AbsentTile
      /\ \A t \in Slots \ {s} : e.slot[t] = c.slot[t]
  BY AbsentTyped DEF CacheType, SlotsType
<1>3. Resident(e) \in Nat BY CountsNat
<1>4. PICK D \in SUBSET InTier(e, {"HOT"}) :
        /\ Cardinality(D) = (IF over > 0 THEN over ELSE 0)
        /\ d = [Demoted(e, D) EXCEPT !.slot[s] =
                   Tile(IF Resident(Demoted(e, D)) + 4 <= c.hard THEN "HOT" ELSE "WARM", key)]
  <2>1. (IF c.hard < c.hard THEN c.hard ELSE c.hard) = c.hard OBVIOUS
  <2>2. d \in {[Demoted(e, D) EXCEPT !.slot[s] =
                   Tile(IF Resident(Demoted(e, D)) + 4 <= c.hard THEN "HOT" ELSE "WARM", key)] :
                D \in {V \in SUBSET InTier(e, {"HOT"}) :
                          Cardinality(V) = IF over > 0 THEN over ELSE 0}}
    BY <2>1 DEF DenseWritten, WARM_UNITS, HOT_UNITS
  <2> HIDE DEF e, over
  <2> QED BY <2>2
<1> DEFINE p == Demoted(e, D)
           rep == IF Resident(p) + 4 <= c.hard THEN "HOT" ELSE "WARM"
<1> HIDE DEF e
<1>5. /\ p \in CacheType /\ p.hard = c.hard /\ Cardinality(D) \in Nat
      /\ Resident(p) = Resident(e) - Cardinality(D)
      /\ \A t \in Slots : p.slot[t] = IF t \in D THEN Tile("WARM", e.slot[t].key) ELSE e.slot[t]
  BY <1>2, DemotedOK
<1>6. s \notin D /\ \A t \in D : t \in Slots /\ e.slot[t].tier = "HOT"
  BY <1>2, AbsentTyped DEF InTier
<1>7. p.slot[s].tier = "ABSENT" BY <1>2, <1>5, <1>6, AbsentTyped
<1>8. d = [p EXCEPT !.slot[s] = Tile(rep, key)] BY <1>4
<1>9. rep \in {"HOT", "WARM"} OBVIOUS
<1>10. Resident(p) \in Nat BY CountsNat
<1>11. Resident(p) + UnitsOf(rep) <= c.hard
  <2>1. CASE Resident(p) + 4 <= c.hard
    <3>1. UnitsOf(rep) = 4 BY <2>1 DEF UnitsOf, HOT_UNITS
    <3> QED BY <2>1, <3>1
  <2>2. CASE ~(Resident(p) + 4 <= c.hard)
    <3>1. UnitsOf(rep) = 3 BY <2>2 DEF UnitsOf, WARM_UNITS
    <3>2. Cardinality(D) >= over BY <1>1, <1>3, <1>4
    <3> HIDE DEF p, rep
    <3>3. Resident(p) + 3 <= c.hard BY <1>1, <1>3, <1>5, <1>10, <3>2
    <3> QED BY <3>1, <3>3
  <2> QED BY <2>1, <2>2
<1> HIDE DEF p, rep
<1>12. /\ d \in CacheType /\ d.hard = c.hard
       /\ \A t \in Slots : d.slot[t] = IF t = s THEN Tile(rep, key) ELSE p.slot[t]
       /\ Resident(d) = Resident(p) + UnitsOf(rep)
  BY <1>5, <1>7, <1>8, <1>9, PutOK
<1>13. d.slot[s] = Tile(rep, key) BY <1>12
<1>14. /\ d.slot[s].tier \in {"HOT", "WARM"} /\ d.slot[s].rep = d.slot[s].tier
       /\ d.slot[s].key = key
  BY <1>13, <1>9, TileTyped
<1>15. \A t \in Slots \ {s} :
           \/ d.slot[t] = c.slot[t]
           \/ c.slot[t].tier = "HOT" /\ d.slot[t] = Tile("WARM", c.slot[t].key)
  BY <1>2, <1>5, <1>6, <1>12
<1>16. Resident(d) <= d.hard BY <1>11, <1>12
<1> QED BY <1>12, <1>14, <1>15, <1>16 DEF DenseLeaves

(* slha_elastic_cache_offload_to(handle, 0)                                 *)
LEMMA OffloadedOK ==
    ASSUME NEW c \in CacheType
    PROVE  /\ AllOffloaded(c) \in CacheType /\ AllOffloaded(c).hard = c.hard
           /\ \A s \in Slots : AllOffloaded(c).slot[s] =
                  IF c.slot[s].tier = "ABSENT" THEN c.slot[s]
                  ELSE [c.slot[s] EXCEPT !.tier = "COLD"]
           /\ Resident(AllOffloaded(c)) = 0
           /\ InTier(AllOffloaded(c), {"HOT", "WARM"}) = {}
<1> DEFINE o == AllOffloaded(c)
           f == [s \in Slots |-> IF c.slot[s].tier = "ABSENT" THEN c.slot[s]
                                 ELSE [c.slot[s] EXCEPT !.tier = "COLD"]]
<1>1. o = [hard |-> c.hard, slot |-> f] BY DEF AllOffloaded, CacheType
<1>2. \A s \in Slots : c.slot[s] \in TileType BY DEF CacheType, SlotsType
<1>3. \A s \in Slots : f[s] \in TileType /\ f[s].tier \in {"ABSENT", "COLD"}
  BY <1>2 DEF TileType
<1>4. f \in SlotsType BY <1>3 DEF SlotsType
<1>5. o \in CacheType BY <1>1, <1>4 DEF CacheType
<1>6. \A s \in Slots : o.slot[s] = f[s] BY <1>1
<1>7. \A s \in Slots : o.slot[s].tier \notin {"HOT", "WARM"} BY <1>3, <1>6
<1>8. Resident(o) = 0 /\ InTier(o, {"HOT", "WARM"}) = {} BY <1>7, EmptyResident
<1> QED BY <1>1, <1>5, <1>6, <1>8

LEMMA NewCacheOK ==
    ASSUME NEW b \in Nat
    PROVE  /\ NewCache(b) \in CacheType /\ NewCache(b).hard = b
           /\ \A s \in Slots : NewCache(b).slot[s] = AbsentTile
           /\ Resident(NewCache(b)) = 0
<1>1. NewCache(b) \in CacheType BY AbsentTyped DEF NewCache, CacheType, SlotsType
<1>2. NewCache(b).hard = b /\ \A s \in Slots : NewCache(b).slot[s] = AbsentTile
  BY DEF NewCache
<1>3. Resident(NewCache(b)) = 0 BY <1>2, AbsentTyped, EmptyResident
<1> QED BY <1>1, <1>2, <1>3

(* ccos_geometry_slot numbers layers within positions.                      *)
LEMMA SlotCoordinates ==
    ASSUME NEW n \in Nat \ {0}, NEW p \in Nat, NEW l \in Nat, l < n
    PROVE  (p * n + l) \div n = p /\ (p * n + l) % n = l
OBVIOUS

LEMMA SlotBelow ==
    ASSUME NEW n \in Nat \ {0}, NEW p \in Nat, NEW l \in Nat, l < n,
           NEW k \in Nat, p < k
    PROVE  p * n + l \in 0 .. k * n - 1
OBVIOUS

LEMMA SlotKnown ==
    ASSUME LlamaInv, Loaded, ccos_enabled, NEW l \in Nat, NEW p \in Nat,
           l < num_layers, p < Capacity
    PROVE  LET s == ccos_geometry_slot(l, p)
           IN s \in Slots /\ Layer(s) = l /\ Position(s) = p
<1>1. geometry.n_layers = num_layers /\ num_layers \in LayerCounts
  BY DEF LlamaInv, Geometry
<1>2. num_layers \in Nat \ {0} /\ Capacity \in Nat /\ 0 .. Capacity * num_layers - 1 \subseteq Slots
  BY <1>1, ExternalKAssumption
<1>3. p * num_layers + l \in Slots BY <1>2, SlotBelow
<1> QED BY <1>1, <1>2, <1>3, SlotCoordinates DEF ccos_geometry_slot, Layer, Position

-----------------------------------------------------------------------------
(* Initially                                                                *)

LEMMA NoCallTyped == NoCall \in CallType /\ NoCall.pc = "done"
<1>1. <<>> \in KeyType BY DEF KeyType
<1> QED BY <1>1 DEF NoCall, CallType, PhaseType

Blank(st) == \A lp \in DOMAIN st.tile : st.tile[lp] = <<>>

LEMMA EmptyStoreOK ==
    ASSUME NEW n \in Nat, NEW cap \in Nat
    PROVE  /\ StoreTyped(EmptyStore(n, cap)) /\ Blank(EmptyStore(n, cap))
           /\ EmptyStore(n, cap).n_layers = n /\ EmptyStore(n, cap).capacity = cap
<1>1. <<>> \in KeyType BY DEF KeyType
<1> QED BY <1>1 DEF EmptyStore, StoreTyped, Blank

LEMMA MaskResetTyped == ASSUME NEW e PROVE MaskReset(e) \in [resolved : BOOLEAN, error : BOOLEAN]
BY DEF MaskReset

LEMMA LlamaInit == Init => LlamaInv
<1> SUFFICES ASSUME Init PROVE LlamaInv OBVIOUS
<1> USE DEF Init, ExternalInit, FfiInit
<1>1. HostTyped
  BY DEF HostTyped, NoOp, NoGeometry, NoPre
<1>2. CallTyped BY NoCallTyped DEF CallTyped
<1>3. FlagsTyped BY MaskResetTyped DEF FlagsTyped, NoCounts, Untouched
<1>4. Geometry BY DEF Geometry, Loaded
<1>5. Phases BY NoCallTyped DEF Phases, Phase, Transforming, Writing
<1>6. ~CacheFound BY DEF CacheFound
<1>7. CacheOK
  <2>1. objects \in Seq(CacheType) /\ DOMAIN live \subseteq {g_ccos_cache} OBVIOUS
  <2> QED BY <1>6, <2>1 DEF CacheOK
<1>8. StoreOK
  <2>1. store = EmptyStore(0, 0) OBVIOUS
  <2>2. 0 \in Nat OBVIOUS
  <2>3. StoreTyped(store) /\ Blank(store) BY ONLY <2>1, <2>2, EmptyStoreOK
  <2> QED BY ONLY <2>3 DEF StoreOK, Blank
<1>9. Fresh BY <1>6 DEF Fresh
<1>10. Snapshot BY DEF Snapshot, NoPre
<1>11. Complete BY DEF Complete, Untouched
<1>12. Selected BY NoCallTyped DEF Selected, Loaded
<1>13. ScoresCurrent BY DEF ScoresCurrent, NoRow
<1> QED BY <1>1, <1>2, <1>3, <1>4, <1>5, <1>7, <1>8, <1>9, <1>10, <1>11, <1>12, <1>13
        DEF LlamaInv

-----------------------------------------------------------------------------
(* Steps that leave the stores alone                                        *)

LEMMA StoresKept ==
    ASSUME LlamaInv, UNCHANGED <<env, storeVars, saved, ffiVars, ctx>>
    PROVE  CacheOK' /\ StoreOK' /\ Snapshot'
<1> USE DEF storeVars, ffiVars
<1>1. UNCHANGED <<Cache, CacheFound, ccos_enabled>> BY DEF Cache, CacheFound, ccos_enabled
<1>2. CacheOK'
  BY <1>1 DEF LlamaInv, CacheOK, Used, Layer, Position
<1>3. StoreOK' BY <1>1 DEF LlamaInv, StoreOK
<1>4. Snapshot' BY <1>1 DEF LlamaInv, Snapshot, SavedIn
<1> QED BY <1>2, <1>3, <1>4

(* A step of worker w that touches no store: what is left to show of it.    *)
Through == {"final", "written", "done"}

WorkerMove(w, c) ==
    /\ call' = [call EXCEPT ![w] = c] /\ c \in CallType
    /\ UNCHANGED InOp
    /\ op.kind = "transform" /\ call[w].pc \in Through => c.pc \in Through

LEMMA WorkerKeeps ==
    ASSUME LlamaInv, NEW w \in Workers, NEW c, WorkerMove(w, c),
           model \subseteq model', model' \cap env.missing = {}, kv_off' \subseteq env.missing,
           Phase(w)', FlagsTyped', Complete', Selected', ScoresCurrent'
    PROVE  LlamaInv'
<1> USE DEF InOp, storeVars, ffiVars
<1>0. UNCHANGED <<env, storeVars, saved, control, ffiVars, host, op, batch, ctx, next_pos, num_layers>>
  BY DEF WorkerMove
<1>1. UNCHANGED <<Cache, CacheFound, ccos_enabled>>
  BY <1>0 DEF Cache, CacheFound, ccos_enabled
<1>2. HostTyped' BY <1>0 DEF LlamaInv, HostTyped
<1>3. CallTyped' BY DEF LlamaInv, CallTyped, WorkerMove
<1>4. Geometry' BY <1>0, <1>1 DEF LlamaInv, Geometry, Loaded
<1>5. call[w] \in CallType /\ call'[w] = c /\ \A v \in Workers \ {w} : call'[v] = call[v]
  BY DEF LlamaInv, CallTyped, WorkerMove
<1>6. \A v \in Workers : Phase(v)'
  <2> SUFFICES ASSUME NEW v \in Workers, v # w PROVE Phase(v)' OBVIOUS
  <2>1. Phase(v) BY DEF LlamaInv, Phases
  <2> QED BY <2>1, <1>0, <1>1, <1>5 DEF Phase, HasToken, PositionOf
<1>7. Phases' BY <1>0, <1>6 DEF Phases
<1>8. CacheOK' /\ StoreOK' /\ Snapshot' BY <1>0, StoresKept
<1>9. Fresh'
  <2>1. \A v \in Workers, s \in Slots : op.kind = "transform" /\ WrittenBy(v, s) => WrittenBy(v, s)'
    BY <1>0, <1>5 DEF WorkerMove, WrittenBy, Through, Position, PositionOf
  <2>2. \A s \in Slots : UNCHANGED <<Used(s), Layer(s), Position(s)>>
    BY <1>0, <1>1 DEF Used, Layer, Position
  <2>3. Fresh /\ op.kind \in {"none", "transform", "score"} BY DEF LlamaInv, HostTyped
  <2>4. host = "graph" => op.kind # "none" BY DEF LlamaInv, Geometry
  <2> QED BY <1>0, <1>1, <2>1, <2>2, <2>3, <2>4 DEF Fresh
<1> QED BY <1>2, <1>3, <1>4, <1>7, <1>8, <1>9 DEF LlamaInv

(* What the parts of the invariant say of worker w.                         *)
LEMMA WorkerFacts ==
    ASSUME LlamaInv, NEW w \in Workers
    PROVE  /\ call[w] \in CallType /\ Phase(w) /\ NoCall \in CallType
           /\ call \in [Workers -> CallType]
           /\ model \cap env.missing = {} /\ kv_off \subseteq env.missing
           /\ FlagsTyped /\ Complete /\ Selected /\ ScoresCurrent
BY NoCallTyped DEF LlamaInv, CallTyped, Phases

(* A step of worker w that changes its place only.                          *)
Goes(w, c) == call' = [call EXCEPT ![w] = c]

LEMMA GotoIs ==
    ASSUME LlamaInv, NEW w \in Workers, NEW pc \in PhaseType, Goto(w, pc)
    PROVE  LET c == [call[w] EXCEPT !.pc = pc] IN
           /\ Goes(w, c) /\ c \in CallType /\ c.pc = pc
           /\ c.layer = call[w].layer /\ c.position = call[w].position
           /\ c.key = call[w].key /\ c.ok = call[w].ok
<1>1. call[w] \in CallType BY WorkerFacts
<1> QED BY <1>1 DEF Goto, Goes, CallType

(* No failure is forgotten and no row short of a key is added.              *)
Noted == /\ history.encode_failed => history'.encode_failed
         /\ counters.error => counters'.error

LEMMA CompleteKept ==
    ASSUME LlamaInv, NEW w \in Workers, NEW c, WorkerMove(w, c), Noted,
           UNCHANGED tiles_written, history'.short => history.short,
           op.kind = "score" \/ c.pc # "done"
    PROVE  Complete'
<1>1. UNCHANGED <<env, host, op, batch>> BY DEF WorkerMove, InOp
<1>2. call'[w] = c /\ \A v \in Workers \ {w} : call'[v] = call[v]
  BY WorkerFacts DEF WorkerMove
<1>3. \A v \in Workers : Transformed(v)' => Transformed(v)
  BY <1>1, <1>2 DEF Transformed
<1>4. Complete BY DEF LlamaInv
<1> QED BY <1>1, <1>3, <1>4 DEF Complete, Noted, HasToken, PositionOf

LEMMA SelectedKept ==
    ASSUME LlamaInv, NEW w \in Workers, NEW c, WorkerMove(w, c), Noted,
           UNCHANGED executed, mask'.error => mask.error \/ counters'.error,
           c.pc = "vector" => ~mask'.error
    PROVE  Selected'
<1>1. UNCHANGED <<env, host, num_layers>> BY DEF WorkerMove, InOp
<1>2. call'[w] = c /\ \A v \in Workers \ {w} : call'[v] = call[v]
  BY WorkerFacts DEF WorkerMove
<1>3. Selected BY DEF LlamaInv
<1> QED BY <1>1, <1>2, <1>3 DEF Selected, Noted, Loaded

LEMMA LoadModelKeeps ==
    ASSUME LlamaInv, NEW l, LoadModel(l)
    PROVE  /\ model \subseteq model' /\ model' \cap env.missing = {}
           /\ kv_off' \subseteq env.missing
           /\ l \notin model' => l \in env.missing
BY DEF LoadModel, LlamaInv, Phases

-----------------------------------------------------------------------------
(* slha_k_transform_with_idxs                                               *)

LEMMA TransformLoadStep ==
    ASSUME LlamaInv, NEW w \in Workers, TransformLoad(w) PROVE LlamaInv'
<1>0. /\ call[w] \in CallType /\ Phase(w) /\ NoCall \in CallType
      /\ model \cap env.missing = {} /\ kv_off \subseteq env.missing
      /\ FlagsTyped /\ Complete /\ Selected /\ ScoresCurrent
  BY WorkerFacts
<1>1. /\ At(w, "load") /\ UNCHANGED InOp
      /\ UNCHANGED <<tiles_written, mask, resolver, counters, executed, row, history>>
  BY DEF TransformLoad
<1>2. UNCHANGED <<env, host, op, batch, ctx>> BY <1>1 DEF InOp
<1>3. op.kind = "transform" /\ host = "graph" BY <1>0, <1>1 DEF Phase, Transforming, At
<1>4. FlagsTyped' /\ ScoresCurrent' /\ Noted /\ UNCHANGED <<history, mask>>
  BY <1>0, <1>1, <1>2 DEF FlagsTyped, ScoresCurrent, Noted
<1>5. /\ model \subseteq model' /\ model' \cap env.missing = {} /\ kv_off' \subseteq env.missing
  BY <1>0, LoadModelKeeps DEF TransformLoad
<1>6. CASE Finish(w)
  <2>1. WorkerMove(w, NoCall) BY <1>0, <1>1, <1>6, NoCallTyped DEF WorkerMove, Finish, Through
  <2>2. call'[w] = NoCall /\ \A v \in Workers \ {w} : call'[v] = call[v]
    BY <2>1, WorkerFacts DEF WorkerMove
  <2>3. Phase(w)' BY <2>2, NoCallTyped DEF Phase, Transforming, Writing
  <2>4. op.layer \in env.missing \/ ~HasToken(w)
    <3>1. CASE op.layer \in kv_off \/ ~HasToken(w) BY <1>0, <3>1
    <3>2. CASE ~(op.layer \in kv_off \/ ~HasToken(w))
      <4>1. LoadModel(op.layer) /\ (op.layer \in model' => Goto(w, "encode"))
        BY <3>2 DEF TransformLoad
      <4>2. Goto(w, "encode") => call'[w].pc = "encode" BY WorkerFacts DEF Goto, CallType
      <4>3. ~Goto(w, "encode") BY <4>2, <2>2, NoCallTyped
      <4> QED BY <4>1, <4>3, LoadModelKeeps
    <3> QED BY <3>1, <3>2
  <2>5. Complete'
    BY <1>0, <1>1, <1>2, <2>2, <2>4 DEF Complete, HasToken, PositionOf, Transformed
  <2>6. Selected' BY <1>1, <1>4, <2>1, SelectedKept, NoCallTyped
  <2> QED BY <1>4, <1>5, <2>1, <2>3, <2>5, <2>6, WorkerKeeps
<1>7. CASE ~Finish(w)
  <2> DEFINE c == [call[w] EXCEPT !.pc = "encode"]
  <2>1. op.layer \in model' /\ Goto(w, "encode") /\ HasToken(w) BY <1>7 DEF TransformLoad
  <2>2. /\ Goes(w, c) /\ c \in CallType /\ c.pc = "encode" /\ c.layer = call[w].layer
    BY <2>1, GotoIs DEF PhaseType
  <2> HIDE DEF c
  <2>3. WorkerMove(w, c) BY <1>1, <2>2 DEF WorkerMove, Goes, At, Through
  <2>4. call'[w] = c BY <2>3, WorkerFacts DEF WorkerMove
  <2>5. c.layer = op.layer BY <1>0, <1>1, <2>2 DEF Phase, At
  <2>6. Phase(w)'
    BY <1>2, <1>3, <2>1, <2>2, <2>4, <2>5 DEF Phase, Transforming, Writing, HasToken
  <2>7. Complete' BY <1>1, <1>4, <2>2, <2>3, CompleteKept
  <2>8. Selected' BY <1>1, <1>4, <2>2, <2>3, SelectedKept
  <2> QED BY <1>4, <1>5, <2>3, <2>6, <2>7, <2>8, WorkerKeeps
<1> QED BY <1>6, <1>7

LEMMA FinishIs ==
    ASSUME LlamaInv, NEW w \in Workers, Finish(w), UNCHANGED InOp
    PROVE  /\ WorkerMove(w, NoCall) /\ Phase(w)' /\ NoCall.pc = "done"
           /\ call'[w] = NoCall /\ \A v \in Workers \ {w} : call'[v] = call[v]
<1>1. WorkerMove(w, NoCall) BY NoCallTyped DEF WorkerMove, Finish, Through
<1>2. call'[w] = NoCall /\ \A v \in Workers \ {w} : call'[v] = call[v]
  BY <1>1, WorkerFacts DEF WorkerMove
<1>3. Phase(w)' BY <1>2, NoCallTyped DEF Phase, Transforming, Writing
<1> QED BY <1>1, <1>2, <1>3, NoCallTyped

LEMMA EncodeStep == ASSUME LlamaInv, NEW w \in Workers, Encode(w) PROVE LlamaInv'
<1>0. /\ call[w] \in CallType /\ Phase(w)
      /\ model \cap env.missing = {} /\ kv_off \subseteq env.missing
      /\ FlagsTyped /\ Complete /\ Selected /\ ScoresCurrent
  BY WorkerFacts
<1>1. /\ At(w, "encode") /\ UNCHANGED InOp
      /\ UNCHANGED <<model, kv_off, tiles_written, mask, resolver, counters, executed, row>>
  BY DEF Encode
<1>2. UNCHANGED <<env, host, op, batch, ctx>> BY <1>1 DEF InOp
<1>3. /\ op.kind = "transform" /\ host = "graph" /\ call[w].layer = op.layer
      /\ HasToken(w) /\ op.layer \in model
  BY <1>0, <1>1 DEF Phase, Transforming, Writing, At
<1>4. /\ ScoresCurrent' /\ model \subseteq model' /\ model' \cap env.missing = {}
      /\ kv_off' \subseteq env.missing
  BY <1>0, <1>1, <1>2 DEF ScoresCurrent
<1>5. CASE PositionOf(w) \notin env.bad_keys
  <2> DEFINE c == [call[w] EXCEPT !.pc = "write", !.position = PositionOf(w),
                                  !.key = Key(op.layer, PositionOf(w), ctx)]
  <2>1. Goes(w, c) /\ UNCHANGED history
    <3>1. call \in [Workers -> CallType] BY WorkerFacts
    <3> QED BY <1>5, <3>1 DEF Encode, Goes, CallType
  <2>2. PositionOf(w) \in Nat
    BY ExternalKAssumption DEF LlamaInv, HostTyped, PositionOf
  <2>3. op.layer \in Nat /\ ctx \in Nat BY DEF LlamaInv, HostTyped
  <2>4. Key(op.layer, PositionOf(w), ctx) \in KeyType BY <2>2, <2>3 DEF Key, KeyType
  <2>5. /\ c \in CallType /\ c.pc = "write" /\ c.position = PositionOf(w)
        /\ c.key = Key(op.layer, PositionOf(w), ctx) /\ c.layer = op.layer
    BY <1>0, <1>3, <2>2, <2>4 DEF CallType, PhaseType
  <2> HIDE DEF c
  <2>6. WorkerMove(w, c) BY <1>1, <2>1, <2>5 DEF WorkerMove, Goes, At, Through
  <2>7. call'[w] = c BY <2>6, WorkerFacts DEF WorkerMove
  <2>8. Phase(w)'
    BY <1>1, <1>2, <1>3, <2>5, <2>7 DEF Phase, Transforming, Writing, HasToken, PositionOf, Key
  <2>9. FlagsTyped' /\ Noted BY <1>0, <1>1, <2>1 DEF FlagsTyped, Noted
  <2>10. Complete' BY <1>1, <2>1, <2>5, <2>6, <2>9, CompleteKept
  <2>11. Selected' BY <1>1, <2>5, <2>6, <2>9, SelectedKept
  <2> QED BY <1>4, <2>6, <2>8, <2>9, <2>10, <2>11, WorkerKeeps
<1>6. CASE PositionOf(w) \in env.bad_keys
  <2>1. Finish(w) /\ history' = [history EXCEPT !.encode_failed = TRUE] BY <1>6 DEF Encode
  <2>2. WorkerMove(w, NoCall) /\ Phase(w)' /\ NoCall.pc = "done" BY <1>1, <2>1, FinishIs
  <2>3. history \in [short : BOOLEAN, encode_failed : BOOLEAN] BY <1>0 DEF FlagsTyped
  <2>4. history' \in [short : BOOLEAN, encode_failed : BOOLEAN] /\ history'.encode_failed = TRUE
    BY <2>1, <2>3
  <2>5. FlagsTyped' /\ Noted BY <1>0, <1>1, <2>4 DEF FlagsTyped, Noted
  <2>6. Complete' BY <2>4 DEF Complete
  <2>7. Selected' BY <1>1, <2>2, <2>5, SelectedKept
  <2> QED BY <1>4, <2>2, <2>5, <2>6, <2>7, WorkerKeeps
<1> QED BY <1>5, <1>6

LEMMA TransformEndStep == ASSUME LlamaInv, NEW w \in Workers, TransformEnd(w) PROVE LlamaInv'
<1>0. /\ call[w] \in CallType /\ Phase(w)
      /\ model \cap env.missing = {} /\ kv_off \subseteq env.missing
      /\ FlagsTyped /\ Complete /\ Selected /\ ScoresCurrent
  BY WorkerFacts
<1>1. /\ At(w, "written") /\ Finish(w) /\ UNCHANGED InOp
      /\ UNCHANGED <<model, kv_off, mask, resolver, executed, row, history>>
  BY DEF TransformEnd
<1>2. UNCHANGED <<env, host, op, batch, ctx>> BY <1>1 DEF InOp
<1>3. /\ op.kind = "transform" /\ host = "graph" /\ call[w].position = PositionOf(w)
      /\ call[w].ok \/ env.external
  BY <1>0, <1>1 DEF Phase, Transforming, Writing, At
<1>4. /\ ScoresCurrent' /\ model \subseteq model' /\ model' \cap env.missing = {}
      /\ kv_off' \subseteq env.missing
  BY <1>0, <1>1, <1>2 DEF ScoresCurrent
<1>5. /\ WorkerMove(w, NoCall) /\ Phase(w)' /\ NoCall.pc = "done"
      /\ call'[w] = NoCall /\ \A v \in Workers \ {w} : call'[v] = call[v]
  BY <1>1, FinishIs
<1>6. op.layer \in AllLayers
  <2>1. num_layers \in LayerCounts /\ op.layer < num_layers
    BY <1>3 DEF LlamaInv, Geometry, Loaded
  <2>2. op.layer \in Nat /\ num_layers \in Nat BY DEF LlamaInv, HostTyped
  <2>3. op.layer \in LayersOf(num_layers) BY <2>1, <2>2 DEF LayersOf
  <2> QED BY <2>1, <2>3 DEF AllLayers
<1>7. PositionOf(w) \in Nat
  BY ExternalKAssumption DEF LlamaInv, HostTyped, PositionOf
<1>8. CASE call[w].ok
  <2> DEFINE n == PositionOf(w) + 1
  <2>1. /\ tiles_written' = [tiles_written EXCEPT ![op.layer] = IF n > @ THEN n ELSE @]
        /\ UNCHANGED counters
    BY <1>8, <1>3 DEF TransformEnd
  <2>2. tiles_written \in [AllLayers -> Nat] BY <1>0 DEF FlagsTyped
  <2>3. n \in Nat BY <1>7
  <2>4. /\ tiles_written' \in [AllLayers -> Nat]
        /\ tiles_written'[op.layer] >= n
        /\ tiles_written'[op.layer] >= tiles_written[op.layer]
    BY <1>6, <2>1, <2>2, <2>3
  <2>5. FlagsTyped' /\ Noted BY <1>0, <1>1, <2>1, <2>4 DEF FlagsTyped, Noted
  <2>6. Complete'
    <3> SUFFICES ASSUME ~history.encode_failed, ~counters.error
                 PROVE  /\ ~history.short
                        /\ \A v \in Workers :
                              host = "graph" /\ HasToken(v) /\ Transformed(v)'
                                      /\ op.layer \notin env.missing
                                  => tiles_written'[op.layer] > PositionOf(v)
      BY <1>1, <1>2, <2>1 DEF Complete, HasToken, PositionOf
    <3>1. ~history.short /\ \A v \in Workers :
                              host = "graph" /\ HasToken(v) /\ Transformed(v)
                                      /\ op.layer \notin env.missing
                                  => tiles_written[op.layer] > PositionOf(v)
      BY <1>0 DEF Complete
    <3>2. \A v \in Workers : PositionOf(v) \in Nat
      BY ExternalKAssumption DEF LlamaInv, HostTyped, PositionOf
    <3>3. \A v \in Workers \ {w} : Transformed(v)' => Transformed(v)
      BY <1>2, <1>5 DEF Transformed
    <3>4. tiles_written[op.layer] \in Nat /\ tiles_written'[op.layer] \in Nat
      BY <1>6, <2>2, <2>4
    <3>5. tiles_written'[op.layer] > PositionOf(w) BY <1>7, <2>4, <3>4
    <3> HIDE DEF n
    <3>6. \A v \in Workers : host = "graph" /\ HasToken(v) /\ Transformed(v)'
                                      /\ op.layer \notin env.missing
                                  => tiles_written'[op.layer] > PositionOf(v)
      BY <2>4, <3>1, <3>2, <3>3, <3>4, <3>5
    <3> QED BY <3>1, <3>6
  <2>7. Selected' BY <1>1, <1>5, <2>5, SelectedKept
  <2> QED BY <1>4, <1>5, <2>5, <2>6, <2>7, WorkerKeeps
<1>9. CASE ~call[w].ok
  <2>1. counters' = [counters EXCEPT !.error = TRUE] /\ UNCHANGED tiles_written
    BY <1>3, <1>9 DEF TransformEnd, WriteError
  <2>2. FlagsTyped' /\ counters'.error = TRUE BY <1>0, <1>1, <2>1 DEF FlagsTyped
  <2>3. Noted BY <1>1, <2>2 DEF Noted
  <2>4. Complete' BY <2>2 DEF Complete
  <2>5. Selected' BY <1>1, <1>5, <2>3, SelectedKept
  <2> QED BY <1>4, <1>5, <2>2, <2>4, <2>5, WorkerKeeps
<1> QED BY <1>8, <1>9

-----------------------------------------------------------------------------
(* slha_shadow_score                                                        *)

LEMMA Scoring ==
    ASSUME LlamaInv, NEW w \in Workers,
           call[w].pc \in {"mask", "resolve", "resolving", "select", "vector"}
    PROVE  op.kind = "score" /\ host = "graph" /\ call[w].layer = op.layer
BY WorkerFacts DEF Phase, Transforming

(* A worker of the score operation goes on to another place.                *)
LEMMA ScoreGoes ==
    ASSUME LlamaInv, NEW w \in Workers,
           call[w].pc \in {"mask", "resolve", "resolving", "select", "vector"},
           NEW pc \in {"resolve", "resolving", "select", "vector"}, Goto(w, pc),
           UNCHANGED InOp,
           pc = "vector" => HasToken(w) /\ op.layer \in model' /\ contains(env.spec, op.layer)
    PROVE  LET c == [call[w] EXCEPT !.pc = pc]
           IN WorkerMove(w, c) /\ c.pc = pc /\ Phase(w)'
<1> DEFINE c == [call[w] EXCEPT !.pc = pc]
<1>0. pc \in PhaseType BY DEF PhaseType
<1>1. /\ Goes(w, c) /\ c \in CallType /\ c.pc = pc /\ c.layer = call[w].layer
  BY <1>0, GotoIs
<1>2. op.kind = "score" /\ host = "graph" /\ call[w].layer = op.layer BY Scoring
<1> HIDE DEF c
<1>3. WorkerMove(w, c) BY <1>1, <1>2 DEF WorkerMove, Goes
<1>4. call'[w] = c BY <1>3, WorkerFacts DEF WorkerMove
<1>5. UNCHANGED <<env, host, op, batch, ctx>> BY DEF InOp
<1>6. Phase(w)' BY <1>1, <1>2, <1>4, <1>5 DEF Phase, Transforming, Writing, HasToken
<1> QED BY <1>1, <1>3, <1>6 DEF c

(* The part that is the same for the steps that change counters at most.    *)
LEMMA ScoreKeeps ==
    ASSUME LlamaInv, NEW w \in Workers, NEW c, WorkerMove(w, c), Phase(w)',
           call[w].pc \in {"mask", "resolve", "resolving", "select", "vector"},
           UNCHANGED <<tiles_written, executed, row, history>>,
           counters' \in [callbacks : BOOLEAN, expected : BOOLEAN,
                          unreplaced : BOOLEAN, failed : BOOLEAN, error : BOOLEAN],
           counters.error => counters'.error,
           mask' \in [resolved : BOOLEAN, error : BOOLEAN],
           mask'.error => mask.error \/ counters'.error,
           c.pc = "vector" => ~mask'.error,
           model \subseteq model', model' \cap env.missing = {}, kv_off' \subseteq env.missing
    PROVE  LlamaInv'
<1>1. FlagsTyped /\ ScoresCurrent BY WorkerFacts
<1>2. FlagsTyped' BY <1>1 DEF FlagsTyped
<1>3. UNCHANGED ctx BY DEF WorkerMove, InOp
<1>4. ScoresCurrent' BY <1>1, <1>3 DEF ScoresCurrent
<1>5. Noted BY DEF Noted
<1>6. op.kind = "score" BY Scoring
<1>7. Complete' BY <1>5, <1>6, CompleteKept
<1>8. Selected' BY <1>5, SelectedKept
<1> QED BY <1>2, <1>4, <1>7, <1>8, WorkerKeeps

LEMMA CountersTyped ==
    ASSUME LlamaInv
    PROVE  /\ mask \in [resolved : BOOLEAN, error : BOOLEAN]
           /\ counters \in [callbacks : BOOLEAN, expected : BOOLEAN,
                            unreplaced : BOOLEAN, failed : BOOLEAN, error : BOOLEAN]
BY DEF LlamaInv, FlagsTyped

LEMMA ScoreRejectsStep == ASSUME LlamaInv, NEW w \in Workers, ScoreRejects(w) PROVE LlamaInv'
<1>1. /\ call[w].pc = "mask" /\ Finish(w) /\ UNCHANGED InOp
      /\ counters' = (IF w = 1 THEN [counters EXCEPT !.error = TRUE] ELSE counters)
      /\ UNCHANGED <<model, kv_off, tiles_written, mask, executed, row, history>>
  BY DEF ScoreRejects, At
<1>2. counters' \in [callbacks : BOOLEAN, expected : BOOLEAN, unreplaced : BOOLEAN,
                     failed : BOOLEAN, error : BOOLEAN]
      /\ (counters.error => counters'.error)
  BY <1>1, CountersTyped
<1>3. WorkerMove(w, NoCall) /\ Phase(w)' /\ NoCall.pc = "done" BY <1>1, FinishIs
<1>4. model \subseteq model' /\ model' \cap env.missing = {} /\ kv_off' \subseteq env.missing
  BY <1>1, WorkerFacts
<1>5. mask' \in [resolved : BOOLEAN, error : BOOLEAN] BY <1>1, CountersTyped
<1> QED BY <1>1, <1>2, <1>3, <1>4, <1>5, ScoreKeeps

LEMMA ScorePassesStep == ASSUME LlamaInv, NEW w \in Workers, ScorePasses(w) PROVE LlamaInv'
<1>1. /\ call[w].pc = "select" /\ Finish(w) /\ UNCHANGED InOp
      /\ UNCHANGED <<model, kv_off, tiles_written, mask, counters, executed, row, history>>
  BY DEF ScorePasses, At
<1>2. counters' \in [callbacks : BOOLEAN, expected : BOOLEAN, unreplaced : BOOLEAN,
                     failed : BOOLEAN, error : BOOLEAN]
      /\ (counters.error => counters'.error)
      /\ mask' \in [resolved : BOOLEAN, error : BOOLEAN]
  BY <1>1, CountersTyped
<1>3. WorkerMove(w, NoCall) /\ Phase(w)' /\ NoCall.pc = "done" BY <1>1, FinishIs
<1>4. model \subseteq model' /\ model' \cap env.missing = {} /\ kv_off' \subseteq env.missing
  BY <1>1, WorkerFacts
<1> QED BY <1>1, <1>2, <1>3, <1>4, ScoreKeeps

LEMMA ScoreMaskStep == ASSUME LlamaInv, NEW w \in Workers, ScoreMask(w) PROVE LlamaInv'
<1> DEFINE pc == IF mask.resolved THEN "select" ELSE "resolve"
           c == [call[w] EXCEPT !.pc = pc]
<1>1. /\ call[w].pc = "mask" /\ Goto(w, pc) /\ UNCHANGED InOp
      /\ UNCHANGED <<model, kv_off, tiles_written, mask, counters, executed, row, history>>
  BY DEF ScoreMask, At
<1>2. counters' \in [callbacks : BOOLEAN, expected : BOOLEAN, unreplaced : BOOLEAN,
                     failed : BOOLEAN, error : BOOLEAN]
      /\ (counters.error => counters'.error)
      /\ mask' \in [resolved : BOOLEAN, error : BOOLEAN]
  BY <1>1, CountersTyped
<1>3. pc \in {"resolve", "select"} OBVIOUS
<1> HIDE DEF pc
<1>4. WorkerMove(w, c) /\ Phase(w)' /\ c.pc = pc
  <2>1. pc \in {"resolve", "resolving", "select", "vector"} /\ pc # "vector" BY <1>3
  <2>2. call[w].pc \in {"mask", "resolve", "resolving", "select", "vector"} BY <1>1
  <2>3. Goto(w, pc) /\ UNCHANGED InOp BY <1>1
  <2> QED BY <2>1, <2>2, <2>3, ScoreGoes
<1>5. model \subseteq model' /\ model' \cap env.missing = {} /\ kv_off' \subseteq env.missing
  BY <1>1, WorkerFacts
<1> HIDE DEF c
<1> QED BY <1>1, <1>2, <1>3, <1>4, <1>5, ScoreKeeps

LEMMA ResolveEnterStep == ASSUME LlamaInv, NEW w \in Workers, ResolveEnter(w) PROVE LlamaInv'
<1> DEFINE pc == IF mask.resolved THEN "select" ELSE "resolving"
           c == [call[w] EXCEPT !.pc = pc]
<1>1. /\ call[w].pc = "resolve" /\ Goto(w, pc) /\ UNCHANGED InOp
      /\ mask' \in {mask, [mask EXCEPT !.resolved = TRUE]}
      /\ UNCHANGED <<model, kv_off, tiles_written, counters, executed, row, history>>
  BY DEF ResolveEnter, At
<1>2. counters' \in [callbacks : BOOLEAN, expected : BOOLEAN, unreplaced : BOOLEAN,
                     failed : BOOLEAN, error : BOOLEAN]
      /\ (counters.error => counters'.error)
      /\ mask' \in [resolved : BOOLEAN, error : BOOLEAN] /\ mask'.error = mask.error
  BY <1>1, CountersTyped
<1>3. pc \in {"resolving", "select"} OBVIOUS
<1> HIDE DEF pc
<1>4. WorkerMove(w, c) /\ Phase(w)' /\ c.pc = pc
  <2>1. pc \in {"resolve", "resolving", "select", "vector"} /\ pc # "vector" BY <1>3
  <2>2. call[w].pc \in {"mask", "resolve", "resolving", "select", "vector"} BY <1>1
  <2>3. Goto(w, pc) /\ UNCHANGED InOp BY <1>1
  <2> QED BY <2>1, <2>2, <2>3, ScoreGoes
<1>5. model \subseteq model' /\ model' \cap env.missing = {} /\ kv_off' \subseteq env.missing
  BY <1>1, WorkerFacts
<1> HIDE DEF c
<1> QED BY <1>1, <1>2, <1>3, <1>4, <1>5, ScoreKeeps

LEMMA ResolveExitStep == ASSUME LlamaInv, NEW w \in Workers, ResolveExit(w) PROVE LlamaInv'
<1> DEFINE e == mask.error \/ ~parse_layer_mask(env.spec, num_layers)
           c == [call[w] EXCEPT !.pc = "select"]
<1>1. /\ call[w].pc = "resolving" /\ Goto(w, "select") /\ UNCHANGED InOp
      /\ mask' = [mask EXCEPT !.error = e]
      /\ counters' = (IF e THEN [counters EXCEPT !.error = TRUE] ELSE counters)
      /\ UNCHANGED <<model, kv_off, tiles_written, executed, row, history>>
  BY DEF ResolveExit, At, MaskFailure
<1>2. e \in BOOLEAN OBVIOUS
<1> HIDE DEF e
<1>3. counters' \in [callbacks : BOOLEAN, expected : BOOLEAN, unreplaced : BOOLEAN,
                     failed : BOOLEAN, error : BOOLEAN]
      /\ (counters.error => counters'.error)
  BY <1>1, CountersTyped
<1>4. mask' \in [resolved : BOOLEAN, error : BOOLEAN] /\ (mask'.error => counters'.error)
  BY <1>1, <1>2, CountersTyped
<1>5. WorkerMove(w, c) /\ Phase(w)' /\ c.pc = "select" BY <1>1, ScoreGoes
<1>6. model \subseteq model' /\ model' \cap env.missing = {} /\ kv_off' \subseteq env.missing
  BY <1>1, WorkerFacts
<1> HIDE DEF c
<1> QED BY <1>1, <1>3, <1>4, <1>5, <1>6, ScoreKeeps

LEMMA ScoreModelStep == ASSUME LlamaInv, NEW w \in Workers, ScoreModel(w) PROVE LlamaInv'
<1> DEFINE counted == [counters EXCEPT !.callbacks = TRUE, !.expected = @ \/ w = 1]
<1>1. /\ call[w].pc = "select" /\ layer_selected /\ LoadModel(op.layer) /\ UNCHANGED InOp
      /\ counters' \in {counted, [counted EXCEPT !.failed = TRUE, !.error = TRUE]}
      /\ UNCHANGED <<tiles_written, mask, executed, row, history>>
      /\ Finish(w) \/ (Goto(w, "vector") /\ HasToken(w) /\ op.layer \in model')
  BY DEF ScoreModel, At
<1>2. counted \in [callbacks : BOOLEAN, expected : BOOLEAN, unreplaced : BOOLEAN,
                   failed : BOOLEAN, error : BOOLEAN] /\ counted.error = counters.error
  BY CountersTyped
<1> HIDE DEF counted
<1>3. counters' \in [callbacks : BOOLEAN, expected : BOOLEAN, unreplaced : BOOLEAN,
                     failed : BOOLEAN, error : BOOLEAN]
      /\ (counters.error => counters'.error)
  BY <1>1, <1>2
<1>4. mask' \in [resolved : BOOLEAN, error : BOOLEAN] /\ ~mask'.error /\ contains(env.spec, op.layer)
  BY <1>1, CountersTyped DEF layer_selected
<1>5. model \subseteq model' /\ model' \cap env.missing = {} /\ kv_off' \subseteq env.missing
  BY <1>1, LoadModelKeeps
<1>6. CASE Finish(w)
  <2>1. WorkerMove(w, NoCall) /\ Phase(w)' /\ NoCall.pc = "done" BY <1>1, <1>6, FinishIs
  <2> QED BY <1>1, <1>3, <1>4, <1>5, <2>1, ScoreKeeps
<1>7. CASE Goto(w, "vector") /\ HasToken(w) /\ op.layer \in model'
  <2> DEFINE c == [call[w] EXCEPT !.pc = "vector"]
  <2>1. WorkerMove(w, c) /\ Phase(w)' /\ c.pc = "vector" BY <1>1, <1>4, <1>7, ScoreGoes
  <2> HIDE DEF c
  <2> QED BY <1>1, <1>3, <1>4, <1>5, <2>1, ScoreKeeps
<1> QED BY <1>1, <1>6, <1>7

LEMMA LayerKnown ==
    ASSUME LlamaInv, host = "graph"
    PROVE  /\ op.layer \in AllLayers /\ op.layer \in LayersOf(num_layers)
           /\ op.layer \in Nat /\ op.layer < num_layers /\ num_layers \in Nat
<1>1. num_layers \in LayerCounts /\ op.layer < num_layers
  BY DEF LlamaInv, Geometry, Loaded
<1>2. op.layer \in Nat /\ num_layers \in Nat BY DEF LlamaInv, HostTyped
<1>3. op.layer \in LayersOf(num_layers) BY <1>1, <1>2 DEF LayersOf
<1> QED BY <1>1, <1>2, <1>3 DEF AllLayers

LEMMA PositionKnown ==
    ASSUME LlamaInv, host = "graph", NEW w \in Workers, HasToken(w)
    PROVE  /\ PositionOf(w) \in Nat /\ PositionOf(w) >= batch.start
           /\ PositionOf(w) < batch.start + batch.count /\ PositionOf(w) < Capacity
<1>1. batch.start + batch.count <= Capacity /\ w <= batch.count
  BY DEF LlamaInv, Geometry, HasToken
<1>2. batch.start \in Nat /\ batch.count \in Nat BY DEF LlamaInv, HostTyped
<1>3. w \in Nat \ {0} /\ Capacity \in Nat BY ExternalKAssumption
<1> QED BY <1>1, <1>2, <1>3 DEF PositionOf

(* What the scorer reads is the key of that layer and position, of this     *)
(* context.                                                                 *)
LEMMA KeyReadIsCurrent ==
    ASSUME LlamaInv, host = "graph", NEW n \in Nat, n <= Capacity, Readable(op.layer, n),
           NEW p \in 0 .. n - 1
    PROVE  KeyAt(op.layer, p) = Key(op.layer, p, ctx)
<1>1. op.layer \in Nat /\ op.layer < num_layers BY LayerKnown
<1>2. p \in Nat /\ p < Capacity BY ExternalKAssumption
<1>3. CASE ccos_enabled
  <2> DEFINE s == ccos_geometry_slot(op.layer, p)
  <2>1. s \in Slots /\ Layer(s) = op.layer /\ Position(s) = p
    BY <1>1, <1>2, <1>3, SlotKnown DEF Loaded
  <2>2. CacheFound /\ Scoreable(Cache, s) BY <1>3 DEF Readable
  <2> HIDE DEF s
  <2>3. Used(s) BY <2>2 DEF Used, Scoreable
  <2>4. Cache.slot[s].key = Key(Layer(s), Position(s), ctx)
    BY <2>1, <2>2, <2>3 DEF LlamaInv, CacheOK
  <2> QED BY <1>3, <2>1, <2>4 DEF KeyAt, s
<1>4. CASE ~ccos_enabled
  <2>1. InStore(store, op.layer, p) /\ store.tile[<<op.layer, p>>] # <<>>
    BY <1>4 DEF Readable
  <2>2. <<op.layer, p>> \in DOMAIN store.tile
    <3>1. StoreTyped(store) BY DEF LlamaInv, StoreOK
    <3>2. /\ store.n_layers \in Nat /\ store.capacity \in Nat
          /\ DOMAIN store.tile = (0 .. store.n_layers - 1) \X (0 .. store.capacity - 1)
      BY <3>1 DEF StoreTyped
    <3> QED BY <1>1, <1>2, <2>1, <3>2 DEF InStore
  <2>3. store.tile[<<op.layer, p>>] = Key(<<op.layer, p>>[1], <<op.layer, p>>[2], ctx)
    BY <2>1, <2>2 DEF LlamaInv, StoreOK
  <2> QED BY <1>4, <2>3 DEF KeyAt
<1> QED BY <1>3, <1>4

LEMMA ScoreVectorStep == ASSUME LlamaInv, NEW w \in Workers, ScoreVector(w) PROVE LlamaInv'
<1>0. /\ call[w] \in CallType /\ Phase(w)
      /\ model \cap env.missing = {} /\ kv_off \subseteq env.missing
      /\ FlagsTyped /\ Complete /\ Selected /\ ScoresCurrent
  BY WorkerFacts
<1>1. /\ call[w].pc = "vector" /\ Finish(w) /\ UNCHANGED InOp
      /\ UNCHANGED <<model, kv_off, tiles_written, mask, resolver>>
  BY DEF ScoreVector, At
<1>2. UNCHANGED <<env, host, op, batch, ctx, num_layers>> BY <1>1 DEF InOp
<1>3. op.kind = "score" /\ host = "graph" BY <1>1, Scoring
<1>4. HasToken(w) /\ op.layer \in model /\ contains(env.spec, op.layer)
  BY <1>0, <1>1 DEF Phase
<1>5. /\ WorkerMove(w, NoCall) /\ Phase(w)' /\ NoCall.pc = "done"
      /\ call'[w] = NoCall /\ \A v \in Workers \ {w} : call'[v] = call[v]
  BY <1>1, FinishIs
<1>6. model \subseteq model' /\ model' \cap env.missing = {} /\ kv_off' \subseteq env.missing
  BY <1>0, <1>1, <1>2
<1>7. ASSUME n_check > 0, Readable(op.layer, n_check),
             executed' = executed \cup {op.layer}, UNCHANGED counters,
             row' = [row EXCEPT ![w] =
                       [layer |-> op.layer, position |-> PositionOf(w),
                        keys |-> [i \in 1 .. n_check |-> KeyAt(op.layer, i - 1)]]],
             history' = [history EXCEPT !.short = @ \/ n_check <= PositionOf(w)]
      PROVE  LlamaInv'
  <2>1. tiles_written[op.layer] \in Nat BY <1>0, <1>3, LayerKnown DEF FlagsTyped
  <2>2. n_check \in Nat /\ n_check <= Capacity
    BY <2>1, ExternalKAssumption DEF n_check
  <2>3. PositionOf(w) \in Nat /\ PositionOf(w) < Capacity
    BY <1>3, <1>4, PositionKnown
  <2>4. history' \in [short : BOOLEAN, encode_failed : BOOLEAN]
        /\ history'.encode_failed = history.encode_failed
        /\ (history'.short => history.short \/ n_check <= PositionOf(w))
    BY <1>0, <1>7 DEF FlagsTyped
  <2>5. FlagsTyped' BY <1>0, <1>1, <1>7, <2>4 DEF FlagsTyped
  <2>6. Noted BY <1>7, <2>4 DEF Noted
  <2>7. ~history.encode_failed /\ ~counters.error => n_check > PositionOf(w)
    <3> HAVE ~history.encode_failed /\ ~counters.error
    <3>1. op.layer \notin env.missing BY <1>0, <1>4
    <3>2. tiles_written[op.layer] > PositionOf(w)
      BY <1>0, <1>3, <1>4, <3>1 DEF Complete, Transformed
    <3> QED BY <2>1, <2>3, <3>2, ExternalKAssumption DEF n_check
  <2>8. Complete'
    <3>1. ~history'.encode_failed /\ ~counters'.error => ~history'.short
      <4> HAVE ~history'.encode_failed /\ ~counters'.error
      <4>1. ~history.encode_failed /\ ~counters.error BY <1>7, <2>4
      <4>2. ~history.short BY <1>0, <4>1 DEF Complete
      <4>3. n_check > PositionOf(w) BY <2>7, <4>1
      <4>4. ~(n_check <= PositionOf(w)) BY <2>2, <2>3, <4>3
      <4> QED BY <2>4, <4>2, <4>4
    <3>2. \A v \in Workers : Transformed(v) BY <1>3 DEF Transformed
    <3> QED BY <1>0, <1>1, <1>2, <1>7, <2>4, <3>1, <3>2 DEF Complete, HasToken, PositionOf
  <2>9. ~(mask.error /\ ~counters.error) BY <1>0, <1>1 DEF Selected
  <2>10. Selected'
    <3>1. executed' \subseteq {l \in LayersOf(num_layers) : contains(env.spec, l)}
      BY <1>0, <1>3, <1>4, <1>7, LayerKnown DEF Selected, Loaded
    <3> QED BY <1>1, <1>2, <1>7, <2>9, <3>1 DEF Selected
  <2>11. ScoresCurrent'
    <3>1. DOMAIN row = Workers BY <1>0 DEF FlagsTyped
    <3>2. \A v \in Workers \ {w} : row'[v] = row[v] BY <1>7, <3>1
    <3>3. row'[w].layer = op.layer /\ row'[w].keys = [i \in 1 .. n_check |-> KeyAt(op.layer, i - 1)]
      BY <1>7, <3>1
    <3>4. \A i \in 1 .. n_check : KeyAt(op.layer, i - 1) = Key(op.layer, i - 1, ctx)
      <4> TAKE i \in 1 .. n_check
      <4>1. i - 1 \in 0 .. n_check - 1 BY <2>2
      <4> QED BY <1>3, <1>7, <2>2, <4>1, KeyReadIsCurrent
    <3>5. \A i \in DOMAIN row'[w].keys : row'[w].keys[i] = Key(row'[w].layer, i - 1, ctx')
      BY <1>2, <3>3, <3>4
    <3>6. \A v \in Workers \ {w} : \A i \in DOMAIN row'[v].keys :
              row'[v].keys[i] = Key(row'[v].layer, i - 1, ctx')
      BY <1>0, <1>2, <3>2 DEF ScoresCurrent
    <3> QED BY <3>5, <3>6 DEF ScoresCurrent, Key
  <2> QED BY <1>5, <1>6, <2>5, <2>8, <2>10, <2>11, WorkerKeeps
<1>8. ASSUME counters' \in {[counters EXCEPT !.unreplaced = TRUE],
                           [counters EXCEPT !.unreplaced = TRUE, !.failed = TRUE, !.error = TRUE]},
             UNCHANGED <<executed, row, history>>
      PROVE  LlamaInv'
  <2>1. counters' \in [callbacks : BOOLEAN, expected : BOOLEAN, unreplaced : BOOLEAN,
                       failed : BOOLEAN, error : BOOLEAN]
        /\ (counters.error => counters'.error)
    BY <1>8, CountersTyped
  <2>2. mask' \in [resolved : BOOLEAN, error : BOOLEAN] BY <1>1, CountersTyped
  <2> QED BY <1>1, <1>5, <1>6, <1>8, <2>1, <2>2, ScoreKeeps
<1> QED BY <1>7, <1>8 DEF ScoreVector, RowFails

-----------------------------------------------------------------------------
(* slha_external_k_write_tile                                               *)

(* What a worker in a write may become.                                     *)
WriteMove(w, c) ==
    /\ call' = [call EXCEPT ![w] = c] /\ c \in CallType
    /\ c.layer = call[w].layer /\ c.position = call[w].position /\ c.key = call[w].key
    /\ c.pc \in {"admit", "dense", "final", "written"}
    /\ c.pc # "written" => ccos_enabled
    /\ c.pc = "written" => c.ok \/ env.external
    /\ call[w].pc \in Through => c.pc \in Through

LEMMA WritingFacts ==
    ASSUME LlamaInv, NEW w \in Workers, call[w].pc \in Writing
    PROVE  /\ op.kind = "transform" /\ host = "graph" /\ call[w].layer = op.layer
           /\ HasToken(w) /\ op.layer \in model
           /\ call[w].position = PositionOf(w)
           /\ call[w].key = Key(op.layer, PositionOf(w), ctx) /\ call[w].key \in KeyType
           /\ PositionOf(w) \in Nat /\ PositionOf(w) < Capacity /\ PositionOf(w) >= batch.start
           /\ PositionOf(w) < batch.start + batch.count
           /\ op.layer \in Nat /\ op.layer < num_layers
           /\ ccos_enabled => CacheFound
<1>1. /\ op.kind = "transform" /\ host = "graph" /\ call[w].layer = op.layer
      /\ HasToken(w) /\ op.layer \in model
      /\ call[w].position = PositionOf(w)
      /\ call[w].key = Key(op.layer, PositionOf(w), ctx)
  BY WorkerFacts DEF Phase, Transforming, Writing
<1>2. call[w].key \in KeyType BY WorkerFacts DEF CallType
<1>3. ccos_enabled => CacheFound BY <1>1 DEF LlamaInv, Geometry, Loaded
<1> QED BY <1>1, <1>2, <1>3, LayerKnown, PositionKnown

(* The places, flags and rows after a step of a write, whatever it does to  *)
(* the store.                                                               *)
LEMMA WriteParts ==
    ASSUME LlamaInv, NEW w \in Workers, call[w].pc \in Writing, NEW c, WriteMove(w, c),
           UNCHANGED <<shimVars, env, geometry, pre_offload>>
    PROVE  /\ HostTyped' /\ CallTyped' /\ FlagsTyped' /\ Phases'
           /\ Complete' /\ Selected' /\ ScoresCurrent'
           /\ call'[w] = c /\ \A v \in Workers \ {w} : call'[v] = call[v]
<1> USE DEF shimVars
<1>1. call'[w] = c /\ \A v \in Workers \ {w} : call'[v] = call[v]
  BY WorkerFacts DEF WriteMove
<1>2. HostTyped' BY DEF LlamaInv, HostTyped
<1>3. CallTyped' BY DEF LlamaInv, CallTyped, WriteMove
<1>4. FlagsTyped' BY DEF LlamaInv, FlagsTyped
<1>5. UNCHANGED ccos_enabled BY DEF ccos_enabled
<1>6. \A v \in Workers \ {w} : Phase(v)'
  <2> TAKE v \in Workers \ {w}
  <2>1. Phase(v) BY DEF LlamaInv, Phases
  <2> QED BY <2>1, <1>1, <1>5 DEF Phase, HasToken, PositionOf
<1>7. Phase(w)'
  BY <1>1, <1>5, WritingFacts DEF Phase, WriteMove, Transforming, Writing, HasToken, PositionOf
<1>8. Phases' BY <1>6, <1>7 DEF LlamaInv, Phases
<1>9. op.kind = "transform" BY WritingFacts
<1>10. \A v \in Workers : Transformed(v)' => Transformed(v)
  BY <1>1, <1>9 DEF Transformed, WriteMove
<1>11. Complete' BY <1>10 DEF LlamaInv, Complete, HasToken, PositionOf
<1>12. Selected' BY <1>1 DEF LlamaInv, Selected, Loaded, WriteMove
<1>13. ScoresCurrent' BY DEF LlamaInv, ScoresCurrent
<1> QED BY <1>1, <1>2, <1>3, <1>4, <1>8, <1>11, <1>12, <1>13

LEMMA GeometryKept ==
    ASSUME LlamaInv, UNCHANGED <<env, host, num_layers, live, g_ccos_cache, geometry,
                                 op, batch, next_pos>>,
           store'.n_layers = store.n_layers, store'.capacity = store.capacity
    PROVE  Geometry'
<1>1. UNCHANGED <<CacheFound, ccos_enabled>> BY DEF CacheFound, ccos_enabled
<1> QED BY <1>1 DEF LlamaInv, Geometry, Loaded

LEMMA FreshKept ==
    ASSUME LlamaInv, NEW w \in Workers, call[w].pc \in Writing, NEW c, WriteMove(w, c),
           UNCHANGED <<shimVars, env, geometry, g_ccos_cache, ffiVars>>
    PROVE  Fresh'
<1> USE DEF shimVars, ffiVars
<1>1. call'[w] = c /\ \A v \in Workers \ {w} : call'[v] = call[v]
  BY WorkerFacts DEF WriteMove
<1>2. UNCHANGED <<Cache, CacheFound>> BY DEF Cache, CacheFound
<1>3. \A s \in Slots : UNCHANGED <<Used(s), Layer(s), Position(s)>>
  BY <1>2 DEF Used, Layer, Position
<1>4. \A v \in Workers, s \in Slots : WrittenBy(v, s) => WrittenBy(v, s)'
  BY <1>1 DEF WrittenBy, WriteMove, Through, Position, PositionOf
<1>5. Fresh BY DEF LlamaInv
<1> QED BY <1>2, <1>3, <1>4, <1>5 DEF Fresh

(* The steps of a write that only look.                                     *)
LEMMA LookKeeps ==
    ASSUME LlamaInv, NEW w \in Workers, call[w].pc \in Writing, NEW c, WriteMove(w, c),
           UNCHANGED <<shimVars, env, storeVars, saved, ffiVars>>
    PROVE  LlamaInv'
<1> USE DEF storeVars, shimVars, ffiVars
<1>1. /\ HostTyped' /\ CallTyped' /\ FlagsTyped' /\ Phases'
      /\ Complete' /\ Selected' /\ ScoresCurrent'
  BY WriteParts
<1>2. Geometry' BY GeometryKept
<1>3. Fresh' BY FreshKept
<1>4. CacheOK' /\ StoreOK' /\ Snapshot' BY StoresKept
<1> QED BY <1>1, <1>2, <1>3, <1>4 DEF LlamaInv

LEMMA WriteEndsIs ==
    ASSUME LlamaInv, NEW w \in Workers, NEW ok \in BOOLEAN, WriteEnds(w, ok),
           call[w].pc \in Writing, ok \/ env.external
    PROVE  WriteMove(w, [call[w] EXCEPT !.pc = "written", !.ok = ok])
<1> DEFINE c == [call[w] EXCEPT !.pc = "written", !.ok = ok]
<1>1. call[w] \in CallType /\ call \in [Workers -> CallType] BY WorkerFacts
<1>2. /\ c \in CallType /\ c.pc = "written" /\ c.ok = ok /\ c.layer = call[w].layer
      /\ c.position = call[w].position /\ c.key = call[w].key
  BY <1>1 DEF CallType, PhaseType
<1>3. call' = [call EXCEPT ![w] = c] BY <1>1 DEF WriteEnds, CallType
<1> HIDE DEF c
<1>4. WriteMove(w, c) BY <1>2, <1>3 DEF WriteMove, Through
<1> QED BY <1>4 DEF c

LEMMA WriteGotoIs ==
    ASSUME LlamaInv, NEW w \in Workers, NEW pc \in {"dense", "final"}, Goto(w, pc),
           call[w].pc \in Writing \ {"final", "written"}, ccos_enabled
    PROVE  WriteMove(w, [call[w] EXCEPT !.pc = pc])
<1> DEFINE c == [call[w] EXCEPT !.pc = pc]
<1>1. pc \in PhaseType BY DEF PhaseType
<1>2. /\ Goes(w, c) /\ c \in CallType /\ c.pc = pc /\ c.layer = call[w].layer
      /\ c.position = call[w].position /\ c.key = call[w].key
  BY <1>1, GotoIs
<1> HIDE DEF c
<1>3. WriteMove(w, c) BY <1>2 DEF WriteMove, Through, Goes, Writing
<1> QED BY <1>3 DEF c

LEMMA WriteSnapshotStep ==
    ASSUME LlamaInv, NEW w \in Workers, WriteSnapshot(w), UNCHANGED shimVars PROVE LlamaInv'
<1>1. /\ call[w].pc = "write" /\ ccos_enabled
      /\ UNCHANGED <<env, storeVars, saved, ffiVars>>
  BY DEF WriteSnapshot, At
<1>2. call[w].pc \in Writing /\ env.external BY <1>1 DEF Writing, ccos_enabled
<1>3. CASE WriteEnds(w, FALSE)
  <2>1. WriteMove(w, [call[w] EXCEPT !.pc = "written", !.ok = FALSE])
    BY <1>2, <1>3, WriteEndsIs
  <2> QED BY <1>1, <1>2, <2>1, LookKeeps
<1>4. CASE call' = [call EXCEPT ![w].pc = "admit",
                        ![w].before = [resident |-> Resident(Cache),
                                       active |-> Active(Cache)]]
  <2> DEFINE b == [resident |-> Resident(Cache), active |-> Active(Cache)]
             c == [call[w] EXCEPT !.pc = "admit", !.before = b]
  <2>1. call[w] \in CallType /\ call \in [Workers -> CallType] BY WorkerFacts
  <2>2. b \in [resident : Nat, active : Nat] BY CountsNat
  <2> HIDE DEF b
  <2>3. /\ c \in CallType /\ c.pc = "admit" /\ c.layer = call[w].layer
        /\ c.position = call[w].position /\ c.key = call[w].key
    BY <2>1, <2>2 DEF CallType, PhaseType
  <2>4. call' = [call EXCEPT ![w] = c] BY <1>4, <2>1 DEF CallType, b
  <2> HIDE DEF c
  <2>5. WriteMove(w, c) BY <1>1, <2>3, <2>4 DEF WriteMove, Through
  <2> QED BY <1>1, <1>2, <2>5, LookKeeps
<1> QED BY <1>3, <1>4 DEF WriteSnapshot

LEMMA WriteAdmitStep ==
    ASSUME LlamaInv, NEW w \in Workers, WriteAdmit(w), UNCHANGED shimVars PROVE LlamaInv'
<1>1. /\ call[w].pc = "admit" /\ UNCHANGED <<env, storeVars, saved, ffiVars>>
      /\ Goto(w, "dense") \/ WriteEnds(w, FALSE)
  BY DEF WriteAdmit, At
<1>2. call[w].pc \in Writing /\ call[w].pc \notin {"final", "written"} BY <1>1 DEF Writing
<1>3. ccos_enabled /\ env.external BY <1>1, WorkerFacts DEF Phase, ccos_enabled
<1>4. CASE WriteEnds(w, FALSE)
  <2>1. WriteMove(w, [call[w] EXCEPT !.pc = "written", !.ok = FALSE])
    BY <1>2, <1>3, <1>4, WriteEndsIs
  <2> QED BY <1>1, <1>2, <2>1, LookKeeps
<1>5. CASE Goto(w, "dense")
  <2>1. WriteMove(w, [call[w] EXCEPT !.pc = "dense"]) BY <1>2, <1>3, <1>5, WriteGotoIs
  <2> QED BY <1>1, <1>2, <2>1, LookKeeps
<1> QED BY <1>1, <1>4, <1>5

LEMMA WriteFinalStep ==
    ASSUME LlamaInv, NEW w \in Workers, WriteFinal(w), UNCHANGED shimVars PROVE LlamaInv'
<1> DEFINE ok == Stats(Cache).cold = 0 /\ Resident(Cache) <= geometry.budget
<1>1. /\ call[w].pc = "final" /\ UNCHANGED <<env, storeVars, saved, ffiVars>>
      /\ WriteEnds(w, ok) /\ ok \in BOOLEAN
  BY DEF WriteFinal, At
<1>2. call[w].pc \in Writing BY <1>1 DEF Writing
<1>3. env.external BY <1>1, WorkerFacts DEF Phase, ccos_enabled
<1> HIDE DEF ok
<1>4. WriteMove(w, [call[w] EXCEPT !.pc = "written", !.ok = ok]) BY <1>1, <1>2, <1>3, WriteEndsIs
<1> QED BY <1>1, <1>2, <1>4, LookKeeps

LEMMA CacheKept ==
    ASSUME LlamaInv, UNCHANGED <<env, g_ccos_cache, geometry, ctx, ffiVars>>
    PROVE  CacheOK'
<1> USE DEF ffiVars
<1>1. UNCHANGED <<Cache, CacheFound, ccos_enabled>> BY DEF Cache, CacheFound, ccos_enabled
<1> QED BY <1>1 DEF LlamaInv, CacheOK, Used, Layer, Position

LEMMA WriteVectorStep ==
    ASSUME LlamaInv, NEW w \in Workers, WriteVector(w), UNCHANGED shimVars PROVE LlamaInv'
<1> DEFINE c == [call[w] EXCEPT !.pc = "written", !.ok = TRUE]
           lp == <<op.layer, PositionOf(w)>>
<1> USE DEF shimVars, ffiVars
<1>1. /\ call[w].pc = "write" /\ ~ccos_enabled
      /\ UNCHANGED <<env, g_ccos_cache, geometry, pre_offload, saved, control, ffiVars>>
  BY DEF WriteVector, At
<1>2. call[w].pc \in Writing BY <1>1 DEF Writing
<1>3. /\ call[w].layer = op.layer /\ call[w].position = PositionOf(w) /\ host = "graph"
      /\ call[w].key = Key(op.layer, PositionOf(w), ctx) /\ call[w].key \in KeyType
      /\ PositionOf(w) \in Nat /\ PositionOf(w) < Capacity
      /\ op.layer \in Nat /\ op.layer < num_layers
  BY <1>2, WritingFacts
<1>4. StoreTyped(store) /\ store.n_layers = num_layers /\ store.capacity >= Capacity
  BY <1>1, <1>3 DEF LlamaInv, StoreOK, Geometry, Loaded
<1>5. /\ store.n_layers \in Nat /\ store.capacity \in Nat /\ Capacity \in Nat
      /\ store.tile \in [(0 .. store.n_layers - 1) \X (0 .. store.capacity - 1) -> KeyType]
  BY <1>4, ExternalKAssumption DEF StoreTyped
<1>6. InStore(store, op.layer, PositionOf(w)) BY <1>3, <1>4, <1>5 DEF InStore
<1>7. lp \in DOMAIN store.tile BY <1>3, <1>5, <1>6 DEF InStore
<1>8. store' = [store EXCEPT !.tile[lp] = call[w].key] /\ WriteEnds(w, TRUE)
  BY <1>3, <1>6 DEF WriteVector
<1>9. WriteMove(w, c) BY <1>2, <1>8, WriteEndsIs
<1> HIDE DEF c
<1>10. /\ HostTyped' /\ CallTyped' /\ FlagsTyped' /\ Phases'
       /\ Complete' /\ Selected' /\ ScoresCurrent'
  BY <1>1, <1>2, <1>9, WriteParts
<1>11. /\ store'.n_layers = store.n_layers /\ store'.capacity = store.capacity
       /\ store'.tile = [store.tile EXCEPT ![lp] = call[w].key]
       /\ store' \in [n_layers : Nat, capacity : Nat, tile : {store'.tile}]
  BY <1>4, <1>8 DEF StoreTyped
<1>12. Geometry' BY <1>1, <1>11, GeometryKept
<1>13. CacheOK' BY <1>1, CacheKept
<1>14. StoreOK'
  <2>1. StoreTyped(store)'
    BY <1>3, <1>5, <1>11 DEF StoreTyped
  <2>2. UNCHANGED <<ccos_enabled, ctx>> BY <1>1 DEF ccos_enabled
  <2>3. \A q \in DOMAIN store'.tile : store'.tile[q] # <<>> =>
            ~ccos_enabled /\ store'.tile[q] = Key(q[1], q[2], ctx)
    <3> TAKE q \in DOMAIN store'.tile
    <3>1. DOMAIN store'.tile = DOMAIN store.tile BY <1>11
    <3>2. CASE q = lp BY <1>1, <1>3, <1>7, <1>11, <3>2
    <3>3. CASE q # lp BY <1>11, <3>1, <3>3 DEF LlamaInv, StoreOK
    <3> QED BY <3>2, <3>3
  <2> QED BY <2>1, <2>2, <2>3 DEF StoreOK
<1>15. ~CacheFound /\ pre_offload.resident = 0
  BY <1>1 DEF LlamaInv, CacheOK, Snapshot
<1>16. UNCHANGED CacheFound BY <1>1 DEF CacheFound
<1>17. Fresh' /\ Snapshot' BY <1>1, <1>15, <1>16 DEF Fresh, Snapshot
<1> QED BY <1>10, <1>12, <1>13, <1>14, <1>17 DEF LlamaInv

(* Update puts c in place of the context's cache.                           *)
LEMMA UpdateIs ==
    ASSUME LlamaInv, CacheFound, NEW c \in CacheType, Update(live[g_ccos_cache], c),
           UNCHANGED g_ccos_cache
    PROVE  /\ Cache' = c /\ CacheFound' /\ objects' \in Seq(CacheType)
           /\ UNCHANGED <<live, retired>> /\ Len(objects') = Len(objects)
<1>1. objects \in Seq(CacheType) /\ live[g_ccos_cache] \in 1 .. Len(objects)
  BY DEF LlamaInv, CacheOK
<1>2. /\ objects' = [objects EXCEPT ![live[g_ccos_cache]] = c] /\ UNCHANGED <<live, retired>>
  BY DEF Update
<1>3. objects' \in Seq(CacheType) /\ Len(objects') = Len(objects) BY <1>1, <1>2
<1>4. Cache' = c BY <1>1, <1>2 DEF Cache
<1> QED BY <1>2, <1>3, <1>4 DEF CacheFound

LEMMA CacheFacts ==
    ASSUME LlamaInv, CacheFound
    PROVE  /\ Cache \in CacheType /\ Cache.hard = geometry.budget /\ Cache.hard \in Nat
           /\ ccos_enabled /\ geometry.n_layers > 0 /\ Resident(Cache) <= Cache.hard
           /\ live[g_ccos_cache] \in 1 .. Len(objects) /\ DOMAIN live \subseteq {g_ccos_cache}
           /\ \A s \in Slots : TileOK(Cache.slot[s]) /\ Cache.slot[s] \in TileType
           /\ \A s \in Slots : Used(s) =>
                  Cache.slot[s].key = Key(Layer(s), Position(s), ctx)
<1>1. /\ objects \in Seq(CacheType) /\ live[g_ccos_cache] \in 1 .. Len(objects)
      /\ Cache.hard = geometry.budget /\ ccos_enabled /\ geometry.n_layers > 0
      /\ Resident(Cache) <= Cache.hard /\ DOMAIN live \subseteq {g_ccos_cache}
      /\ \A s \in Slots : TileOK(Cache.slot[s])
      /\ \A s \in Slots : Used(s) => Cache.slot[s].key = Key(Layer(s), Position(s), ctx)
  BY DEF LlamaInv, CacheOK
<1>2. Cache \in CacheType BY <1>1 DEF Cache
<1>3. Cache.hard \in Nat /\ \A s \in Slots : Cache.slot[s] \in TileType
  BY <1>2 DEF CacheType, SlotsType
<1> QED BY <1>1, <1>2, <1>3

(* The slot a worker is about to write has not been written in this         *)
(* context.                                                                 *)
LEMMA DenseSlotUnused ==
    ASSUME LlamaInv, NEW w \in Workers, call[w].pc = "dense"
    PROVE  /\ SlotOf(w) \in Slots /\ Layer(SlotOf(w)) = op.layer
           /\ Position(SlotOf(w)) = PositionOf(w) /\ ~Used(SlotOf(w))
<1>1. call[w].pc \in Writing BY DEF Writing
<1>2. /\ op.kind = "transform" /\ host = "graph" /\ call[w].layer = op.layer
      /\ call[w].position = PositionOf(w) /\ PositionOf(w) \in Nat /\ PositionOf(w) < Capacity
      /\ PositionOf(w) >= batch.start /\ op.layer \in Nat /\ op.layer < num_layers
  BY <1>1, WritingFacts
<1>3. ccos_enabled /\ CacheFound BY <1>1, WritingFacts, WorkerFacts DEF Phase
<1> DEFINE s == SlotOf(w)
<1>4. s \in Slots /\ Layer(s) = op.layer /\ Position(s) = PositionOf(w)
  BY <1>2, <1>3, SlotKnown DEF SlotOf, Loaded
<1> HIDE DEF s
<1>5. ASSUME Used(s) PROVE FALSE
  <2>1. \/ Position(s) < batch.start
        \/ Layer(s) < op.layer
        \/ \E v \in Workers : WrittenBy(v, s)
    BY <1>2, <1>3, <1>4, <1>5 DEF LlamaInv, Fresh
  <2>2. batch.start \in Nat BY DEF LlamaInv, HostTyped
  <2>3. PICK v \in Workers : WrittenBy(v, s) BY <1>2, <1>4, <2>1, <2>2
  <2>4. PositionOf(v) = PositionOf(w) /\ call[v].pc \in {"final", "written", "done"}
    BY <1>4, <2>3 DEF WrittenBy
  <2>5. v \in Nat /\ w \in Nat BY ExternalKAssumption
  <2>6. v = w BY <2>2, <2>4, <2>5 DEF PositionOf
  <2> QED BY <2>4, <2>6
<1> QED BY <1>4, <1>5 DEF s

LEMMA WriteDenseStep ==
    ASSUME LlamaInv, NEW w \in Workers, WriteDense(w), UNCHANGED shimVars PROVE LlamaInv'
<1> USE DEF shimVars, storeVars
<1> DEFINE s == SlotOf(w)
<1>1. /\ call[w].pc = "dense" /\ UNCHANGED <<env, storeVars, saved, control>>
  BY DEF WriteDense, At
<1>2. call[w].pc \in Writing /\ call[w].pc \notin {"final", "written"} BY <1>1 DEF Writing
<1>3. ccos_enabled /\ CacheFound /\ env.external
  BY <1>1, <1>2, WritingFacts, WorkerFacts DEF Phase, ccos_enabled
<1>4. CASE WriteEnds(w, FALSE) /\ UNCHANGED ffiVars
  <2>1. WriteMove(w, [call[w] EXCEPT !.pc = "written", !.ok = FALSE])
    BY <1>2, <1>3, <1>4, WriteEndsIs
  <2> QED BY <1>1, <1>2, <1>4, <2>1, LookKeeps
<1>5. ASSUME NEW d \in DenseWritten(Cache, s, call[w].key, geometry.budget),
             Update(live[g_ccos_cache], d), Goto(w, "final")
      PROVE  LlamaInv'
  <2> DEFINE c == [call[w] EXCEPT !.pc = "final"]
  <2>1. WriteMove(w, c) BY <1>2, <1>3, <1>5, WriteGotoIs
  <2>2. c.pc = "final" BY WorkerFacts DEF CallType
  <2> HIDE DEF c
  <2>3. /\ HostTyped' /\ CallTyped' /\ FlagsTyped' /\ Phases'
        /\ Complete' /\ Selected' /\ ScoresCurrent'
        /\ call'[w] = c /\ \A v \in Workers \ {w} : call'[v] = call[v]
    BY <1>1, <1>2, <2>1, WriteParts
  <2>4. /\ op.kind = "transform" /\ host = "graph" /\ call[w].key \in KeyType
        /\ call[w].key = Key(op.layer, PositionOf(w), ctx)
        /\ PositionOf(w) < batch.start + batch.count
    BY <1>2, WritingFacts
  <2>5. /\ Cache \in CacheType /\ Cache.hard = geometry.budget /\ Cache.hard \in Nat
        /\ geometry.n_layers > 0 /\ live[g_ccos_cache] \in 1 .. Len(objects)
        /\ DOMAIN live \subseteq {g_ccos_cache}
        /\ \A t \in Slots : TileOK(Cache.slot[t]) /\ Cache.slot[t] \in TileType
        /\ \A t \in Slots : Used(t) =>
               Cache.slot[t].key = Key(Layer(t), Position(t), ctx)
    BY <1>3, CacheFacts
  <2>6. s \in Slots /\ Layer(s) = op.layer /\ Position(s) = PositionOf(w) /\ ~Used(s)
    BY <1>1, DenseSlotUnused
  <2> HIDE DEF s
  <2>7. DenseLeaves(Cache, s, call[w].key, d)
    BY <1>5, <2>4, <2>5, <2>6, DenseOK
  <2>8. d \in CacheType BY <2>7 DEF DenseLeaves
  <2>9. /\ Cache' = d /\ CacheFound' /\ objects' \in Seq(CacheType)
        /\ UNCHANGED <<live, retired>> /\ Len(objects') = Len(objects)
    BY <1>1, <1>3, <1>5, <2>8, UpdateIs
  <2>10. UNCHANGED ccos_enabled BY <1>1 DEF ccos_enabled
  <2>11. Geometry' BY <1>1, <2>9, GeometryKept
  <2>12. \A t \in Slots : UNCHANGED <<Layer(t), Position(t)>> BY <1>1 DEF Layer, Position
  <2>13. \A t \in Slots \ {s} :
            /\ d.slot[t].tier # "ABSENT" <=> Cache.slot[t].tier # "ABSENT"
            /\ d.slot[t].key = Cache.slot[t].key
            /\ TileOK(d.slot[t])
            /\ Cache.slot[t].tier = "COLD" => d.slot[t] = Cache.slot[t]
    <3> TAKE t \in Slots \ {s}
    <3>1. CASE d.slot[t] = Cache.slot[t] BY <2>5, <3>1
    <3>2. CASE Cache.slot[t].tier = "HOT" /\ d.slot[t] = Tile("WARM", Cache.slot[t].key)
      <4>1. Cache.slot[t].key \in KeyType BY <2>5 DEF TileType
      <4>2. /\ d.slot[t].tier = "WARM" /\ d.slot[t].rep = "WARM"
            /\ d.slot[t].key = Cache.slot[t].key
        BY <3>2, <4>1, TileTyped
      <4> QED BY <3>2, <4>2 DEF TileOK
    <3> QED BY <2>7, <3>1, <3>2 DEF DenseLeaves
  <2>14. TileOK(d.slot[s]) /\ d.slot[s].tier # "ABSENT" /\ d.slot[s].key = call[w].key
    BY <2>7 DEF DenseLeaves, TileOK
  <2>15. CacheOK'
    <3>1. \A t \in Slots : TileOK(d.slot[t]) BY <2>13, <2>14
    <3>2. \A t \in Slots : d.slot[t].tier # "ABSENT" => d.slot[t].key = Key(Layer(t), Position(t), ctx)
      <4> TAKE t \in Slots
      <4>1. CASE t = s BY <2>4, <2>6, <2>14, <4>1
      <4>2. CASE t # s BY <2>5, <2>13, <4>2 DEF Used
      <4> QED BY <4>1, <4>2
    <3>3. d.hard = geometry.budget /\ Resident(d) <= d.hard BY <2>5, <2>7 DEF DenseLeaves
    <3> QED BY <1>1, <1>3, <2>5, <2>9, <2>10, <2>12, <3>1, <3>2, <3>3 DEF CacheOK, Used
  <2>16. StoreOK' BY <1>1, <2>10 DEF LlamaInv, StoreOK
  <2>17. Fresh'
    <3>1. \A t \in Slots \ {s} : Used(t)' => Used(t) BY <2>9, <2>13 DEF Used
    <3>2. \A v \in Workers, t \in Slots : WrittenBy(v, t) => WrittenBy(v, t)'
      BY <1>1, <2>2, <2>3, <2>12 DEF WrittenBy, PositionOf
    <3>3. \A t \in Slots : t = s => WrittenBy(w, t)'
      <4> TAKE t \in Slots
      <4> HAVE t = s
      <4>1. call'[w].pc = "final" BY <2>2, <2>3
      <4>2. Position(t)' = PositionOf(w)' BY <2>6, <2>12 DEF PositionOf
      <4> QED BY <4>1, <4>2 DEF WrittenBy
    <3>4. Fresh BY DEF LlamaInv
    <3> SUFFICES ASSUME NEW t \in Slots, Used(t)'
                 PROVE  /\ Position(t) < batch.start + batch.count
                        /\ \/ Position(t) < batch.start
                           \/ Layer(t) < op.layer
                           \/ /\ Layer(t) = op.layer
                              /\ \E v \in Workers : WrittenBy(v, t)'
      BY <2>4, <2>12 DEF Fresh
    <3>5. CASE t = s
      <4>1. \E v \in Workers : WrittenBy(v, t)' BY <3>3, <3>5
      <4> QED BY <2>4, <2>6, <3>5, <4>1
    <3>6. CASE t # s
      <4>1. Used(t) BY <3>1, <3>6
      <4> QED BY <1>3, <2>4, <3>2, <3>4, <4>1 DEF Fresh
    <3> QED BY <3>5, <3>6
  <2>18. Snapshot'
    <3> SUFFICES ASSUME pre_offload.resident # 0 PROVE Snapshot' BY <1>1 DEF Snapshot
    <3>1. /\ saved \in SlotsType
          /\ pre_offload.hot = Cardinality(SavedIn({"HOT"}))
          /\ pre_offload.warm = Cardinality(SavedIn({"WARM"}))
          /\ \A t \in Slots :
               /\ saved[t].tier = saved[t].rep /\ TileOK(saved[t])
               /\ saved[t].tier # "ABSENT" =>
                      Cache.slot[t] = [saved[t] EXCEPT !.tier = "COLD"]
      BY DEF LlamaInv, Snapshot
    <3>2. \A t \in Slots : saved[t] \in TileType BY <3>1 DEF SlotsType
    <3>3. \A t \in Slots : saved[t].tier # "ABSENT" => Cache.slot[t].tier = "COLD"
      BY <3>1, <3>2 DEF TileType
    <3>4. saved[s].tier = "ABSENT" BY <2>6, <3>3 DEF Used
    <3>5. \A t \in Slots : saved[t].tier # "ABSENT" => d.slot[t] = Cache.slot[t]
      BY <2>13, <3>3, <3>4
    <3> QED BY <1>1, <2>9, <3>1, <3>5 DEF Snapshot, SavedIn
  <2> QED BY <2>3, <2>11, <2>15, <2>16, <2>17, <2>18 DEF LlamaInv
<1> QED BY <1>4, <1>5 DEF WriteDense, s

LEMMA WriteTileStep == ASSUME LlamaInv, NEW w \in Workers, WriteTile(w) PROVE LlamaInv'
BY WriteVectorStep, WriteSnapshotStep, WriteAdmitStep, WriteDenseStep, WriteFinalStep
   DEF WriteTile, WriteStep

LEMMA WorkStep == ASSUME LlamaInv, NEW w \in Workers, Work(w) PROVE LlamaInv'
BY TransformLoadStep, EncodeStep, WriteTileStep, TransformEndStep, ScoreRejectsStep,
   ScoreMaskStep, ResolveEnterStep, ResolveExitStep, ScorePassesStep, ScoreModelStep,
   ScoreVectorStep DEF Work

-----------------------------------------------------------------------------
(* The host thread                                                          *)

(* Outside a graph no worker is in a call.                                  *)
LEMMA HostPhases ==
    ASSUME LlamaInv, host # "graph", UNCHANGED <<call, env>>,
           model' \cap env.missing = {}, kv_off' \subseteq env.missing
    PROVE  CallTyped' /\ Phases' /\ \A w \in Workers : call[w].pc = "done"
<1>1. \A w \in Workers : call[w].pc = "done" BY DEF LlamaInv, Phases, Phase
<1>2. \A w \in Workers : Phase(w)' BY <1>1 DEF Phase, Transforming, Writing
<1>3. CallTyped' BY DEF LlamaInv, CallTyped
<1> QED BY <1>1, <1>2, <1>3 DEF Phases

LEMMA NoRowsCurrent ==
    ASSUME row' = [w \in Workers |-> NoRow]
    PROVE  ScoresCurrent' /\ DOMAIN row' = Workers
BY DEF ScoresCurrent, NoRow

LEMMA NewLayersKeeps ==
    ASSUME LlamaInv, NEW n \in LayerCounts, NewLayers(n)
    PROVE  /\ num_layers' = n /\ n \in Nat
           /\ model' \cap env.missing = {} /\ kv_off' \subseteq env.missing
BY ExternalKAssumption DEF NewLayers, LlamaInv, Phases

LEMMA NewContextFailsStep ==
    ASSUME LlamaInv, NEW n \in LayerCounts, NewContextFails(n) PROVE LlamaInv'
<1> USE DEF storeVars
<1>1. /\ host = "idle" /\ NewLayers(n) /\ host' = "failed" /\ row' = [w \in Workers |-> NoRow]
      /\ UNCHANGED <<env, storeVars, saved, call, ffiVars, op, batch, ctx, next_pos,
                     tiles_written, mask, resolver, counters, executed, history>>
  BY DEF NewContextFails
<1>2. /\ num_layers' = n /\ n \in Nat
      /\ model' \cap env.missing = {} /\ kv_off' \subseteq env.missing
  BY <1>1, NewLayersKeeps
<1>3. CallTyped' /\ Phases' /\ \A w \in Workers : call[w].pc = "done"
  BY <1>1, <1>2, HostPhases
<1>4. ScoresCurrent' /\ DOMAIN row' = Workers BY <1>1, NoRowsCurrent
<1>5. HostTyped' BY <1>1, <1>2 DEF LlamaInv, HostTyped
<1>6. FlagsTyped' BY <1>1, <1>4 DEF LlamaInv, FlagsTyped
<1>7. Geometry' BY <1>1 DEF Geometry, Loaded
<1>8. CacheOK' /\ StoreOK' /\ Snapshot' BY <1>1, StoresKept
<1>9. Fresh' BY <1>1 DEF Fresh
<1>10. Complete' BY <1>1 DEF LlamaInv, Complete
<1>11. Selected' BY <1>1, <1>3 DEF LlamaInv, Selected, Loaded
<1> QED BY <1>3, <1>4, <1>5, <1>6, <1>7, <1>8, <1>9, <1>10, <1>11 DEF LlamaInv

(* The blank stores of a new context.                                       *)
LEMMA StoreAtInitOK ==
    ASSUME LlamaInv, NEW n \in LayerCounts, ~InitRefused(n)
    PROVE  /\ StoreTyped(StoreAtInit(n)) /\ Blank(StoreAtInit(n))
           /\ StoreTyped(StoreInit(StoreAtInit(n), n, Capacity))
           /\ Blank(StoreInit(StoreAtInit(n), n, Capacity))
           /\ StoreInit(StoreAtInit(n), n, Capacity).n_layers = n
           /\ StoreInit(StoreAtInit(n), n, Capacity).capacity = Capacity
<1>1. n \in Nat /\ Capacity \in Nat BY ExternalKAssumption
<1>2. StoreTyped(store) /\ store.n_layers \in Nat /\ store.capacity \in Nat
  BY DEF LlamaInv, StoreOK, StoreTyped
<1>3. StoreTyped(StoreAtInit(n)) /\ Blank(StoreAtInit(n))
  <2>1. CASE num_layers = n
    <3>1. StoreAtInit(n) = EmptyStore(store.n_layers, store.capacity)
      BY <2>1 DEF StoreAtInit, StoreReset
    <3> QED BY <1>2, <3>1, EmptyStoreOK
  <2>2. CASE num_layers # n
    <3>1. StoreAtInit(n) = EmptyStore(n, 0)
      BY <2>2 DEF StoreAtInit, StoreInit, InitRefused
    <3> QED BY <1>1, <3>1, EmptyStoreOK
  <2> QED BY <2>1, <2>2
<1>4. ~AnyValid(StoreAtInit(n)) BY <1>3 DEF AnyValid, Blank
<1>5. StoreInit(StoreAtInit(n), n, Capacity) = EmptyStore(n, Capacity)
  BY <1>4 DEF StoreInit
<1> QED BY <1>1, <1>3, <1>5, EmptyStoreOK

(* slha_external_k_prepare_store with a cache.                              *)
LEMMA PrepareCcosMakes ==
    ASSUME LlamaInv, NEW n \in LayerCounts, ccos_enabled, PrepareCcos(n), UNCHANGED env
    PROVE  /\ CacheFound' /\ CacheOK' /\ \A s \in Slots : ~Used(s)'
           /\ geometry' = [n_layers |-> n, capacity |-> Capacity, budget |-> env.budget]
           /\ geometry' \in [n_layers : Nat, capacity : Nat, budget : Nat]
           /\ StoreTyped(store)' /\ Blank(store)'
<1>1. n \in Nat /\ n > 0 /\ Capacity \in Nat /\ env.budget \in Nat
  BY ExternalKAssumption DEF LlamaInv, HostTyped
<1>2. /\ geometry' = [n_layers |-> n, capacity |-> Capacity, budget |-> env.budget]
      /\ store' = EmptyStore(n, Capacity)
  BY DEF PrepareCcos
<1>3. PICK a \in Allocatable :
        /\ objects' = Append(objects, NewCache(env.budget))
        /\ live' = [b \in {a} |-> Len(objects) + 1]
        /\ g_ccos_cache' = a
  <2>1. CASE CacheFound BY <2>1 DEF PrepareCcos
  <2>2. CASE ~CacheFound
    <3>1. PICK a \in Allocatable : register_cache(a, env.budget) /\ g_ccos_cache' = a
      BY <2>2 DEF PrepareCcos
    <3>2. DOMAIN live = {} BY <2>2 DEF LlamaInv, CacheOK, CacheFound
    <3>3. live' = [b \in {a} |-> Len(objects) + 1] BY <3>1, <3>2 DEF register_cache
    <3> QED BY <3>1, <3>3 DEF register_cache
  <2> QED BY <2>1, <2>2
<1>4. objects \in Seq(CacheType) BY DEF LlamaInv, CacheOK
<1>5. /\ NewCache(env.budget) \in CacheType /\ NewCache(env.budget).hard = env.budget
      /\ \A s \in Slots : NewCache(env.budget).slot[s] = AbsentTile
      /\ Resident(NewCache(env.budget)) = 0
  BY <1>1, NewCacheOK
<1>6. /\ objects' \in Seq(CacheType) /\ Len(objects') = Len(objects) + 1
      /\ objects'[Len(objects) + 1] = NewCache(env.budget)
  BY <1>3, <1>4, <1>5
<1>7. Cache' = NewCache(env.budget) /\ CacheFound' BY <1>3, <1>6 DEF Cache, CacheFound
<1>8. \A s \in Slots : ~Used(s)' BY <1>5, <1>7, AbsentTyped DEF Used
<1>9. CacheOK'
  <2>1. objects' \in Seq(CacheType) /\ DOMAIN live' \subseteq {g_ccos_cache'}
    BY <1>3, <1>6
  <2>2. live'[g_ccos_cache'] \in 1 .. Len(objects') BY <1>3, <1>4, <1>6
  <2>3. Cache'.hard = geometry'.budget /\ Resident(Cache)' <= Cache'.hard /\ geometry'.n_layers > 0
    BY <1>1, <1>2, <1>5, <1>7
  <2>4. \A s \in Slots : TileOK(Cache.slot[s])' BY <1>5, <1>7, AbsentTyped DEF TileOK
  <2>5. ccos_enabled' BY DEF ccos_enabled
  <2> QED BY <1>8, <2>1, <2>2, <2>3, <2>4, <2>5 DEF CacheOK
<1>10. StoreTyped(store)' /\ Blank(store)' BY <1>1, <1>2, EmptyStoreOK
<1>11. geometry' \in [n_layers : Nat, capacity : Nat, budget : Nat] BY <1>1, <1>2
<1> QED BY <1>2, <1>7, <1>8, <1>9, <1>10, <1>11

LEMMA NewContextStep == ASSUME LlamaInv, NEW n \in LayerCounts, NewContext(n) PROVE LlamaInv'
<1> USE DEF ffiVars
<1>1. /\ host \in {"start", "idle", "failed"} /\ NewLayers(n) /\ ~InitRefused(n)
      /\ host' = "idle" /\ row' = [w \in Workers |-> NoRow]
      /\ tiles_written' = [l \in AllLayers |-> 0]
      /\ mask' = MaskReset(env) /\ counters' = NoCounts /\ executed' = {}
      /\ ctx' = ctx + 1 /\ next_pos' = 0 /\ history' = Untouched
      /\ UNCHANGED <<env, saved, call, op, batch, resolver>>
  BY DEF NewContext
<1>2. /\ num_layers' = n /\ n \in Nat
      /\ model' \cap env.missing = {} /\ kv_off' \subseteq env.missing
  BY <1>1, NewLayersKeeps
<1>3. CallTyped' /\ Phases' /\ \A w \in Workers : call[w].pc = "done"
  BY <1>1, <1>2, HostPhases
<1>4. ScoresCurrent' /\ DOMAIN row' = Workers BY <1>1, NoRowsCurrent
<1>5. FlagsTyped' BY <1>1, <1>4, MaskResetTyped DEF FlagsTyped, NoCounts, Untouched
<1>6. Complete' BY <1>1 DEF Complete, Untouched
<1>7. Selected' BY <1>1, <1>3 DEF Selected
<1>8. UNCHANGED ccos_enabled BY <1>1 DEF ccos_enabled
<1>9. ~ccos_enabled => ~CacheFound /\ pre_offload.resident = 0
  BY DEF LlamaInv, CacheOK, Snapshot
<1>10. geometry \in [n_layers : Nat, capacity : Nat, budget : Nat]
       /\ pre_offload \in [resident : Nat, hot : Nat, warm : Nat]
  BY DEF LlamaInv, HostTyped
<1>11. CASE ccos_enabled
  <2>1. pre_offload' = NoPre /\ PrepareCcos(n)
    BY <1>1, <1>11 DEF NewContext, prepare_store, ccos_enabled
  <2>2. /\ CacheFound' /\ CacheOK' /\ \A s \in Slots : ~Used(s)'
        /\ geometry' = [n_layers |-> n, capacity |-> Capacity, budget |-> env.budget]
        /\ geometry' \in [n_layers : Nat, capacity : Nat, budget : Nat]
        /\ StoreTyped(store)' /\ Blank(store)'
    BY <1>1, <1>11, <2>1, PrepareCcosMakes
  <2>3. HostTyped' BY <1>1, <1>2, <2>1, <2>2 DEF LlamaInv, HostTyped, NoPre
  <2>4. Geometry' BY <1>1, <1>2, <1>8, <1>11, <2>2 DEF Geometry
  <2>5. StoreOK' BY <2>2 DEF StoreOK, Blank
  <2>6. Fresh' BY <2>2 DEF Fresh
  <2>7. Snapshot' BY <2>1 DEF Snapshot, NoPre
  <2> QED BY <1>3, <1>4, <1>5, <1>6, <1>7, <2>2, <2>3, <2>4, <2>5, <2>6, <2>7 DEF LlamaInv
<1>12. CASE ~ccos_enabled
  <2> DEFINE st == StoreAtInit(n)
  <2>1. /\ store' \in {StoreInit(st, n, Capacity), Resized(st, n, Capacity)}
        /\ UNCHANGED <<g_ccos_cache, live, retired, objects>>
        /\ geometry' \in {geometry, NoGeometry} /\ pre_offload' \in {pre_offload, NoPre}
    BY <1>1, <1>12 DEF NewContext, prepare_store
  <2>2. /\ StoreTyped(st) /\ Blank(st)
        /\ StoreTyped(StoreInit(st, n, Capacity)) /\ Blank(StoreInit(st, n, Capacity))
        /\ StoreInit(st, n, Capacity).n_layers = n
        /\ StoreInit(st, n, Capacity).capacity = Capacity
    BY <1>1, StoreAtInitOK
  <2> HIDE DEF st
  <2>3. Capacity \in Nat BY ExternalKAssumption
  <2>4. /\ StoreTyped(store') /\ Blank(store')
        /\ store'.n_layers = n /\ store'.capacity >= Capacity
    BY <2>1, <2>2, <2>3 DEF Resized
  <2>5. StoreOK' BY <2>4 DEF StoreOK, Blank
  <2>6. ~CacheFound' BY <1>9, <1>12, <2>1 DEF CacheFound
  <2>7. CacheOK'
    <3>1. objects \in Seq(CacheType) /\ DOMAIN live \subseteq {g_ccos_cache}
      BY DEF LlamaInv, CacheOK
    <3> QED BY <2>1, <2>6, <3>1 DEF CacheOK
  <2>8. HostTyped'
    BY <1>1, <1>2, <1>10, <2>1 DEF LlamaInv, HostTyped, NoPre, NoGeometry
  <2>9. Geometry' BY <1>1, <1>2, <1>8, <1>12, <2>4 DEF Geometry
  <2>10. Fresh' BY <2>6 DEF Fresh
  <2>11. Snapshot' BY <1>9, <1>12, <2>1 DEF Snapshot, NoPre
  <2> QED BY <1>3, <1>4, <1>5, <1>6, <1>7, <2>5, <2>7, <2>8, <2>9, <2>10, <2>11 DEF LlamaInv
<1> QED BY <1>11, <1>12

LEMMA ClearStep == ASSUME LlamaInv, Clear PROVE LlamaInv'
<1> USE DEF ffiVars
<1>1. /\ host = "idle" /\ tiles_written' = [l \in AllLayers |-> 0] /\ reset_store
      /\ ctx' = ctx + 1 /\ next_pos' = 0 /\ row' = [w \in Workers |-> NoRow]
      /\ UNCHANGED <<env, saved, call, host, op, batch, num_layers, model, kv_off,
                     mask, resolver, counters, executed, history>>
  BY DEF Clear, slha_k_clear_all
<1>2. model' \cap env.missing = {} /\ kv_off' \subseteq env.missing
  BY <1>1 DEF LlamaInv, Phases
<1>3. CallTyped' /\ Phases' /\ \A w \in Workers : call[w].pc = "done"
  BY <1>1, <1>2, HostPhases
<1>4. ScoresCurrent' /\ DOMAIN row' = Workers BY <1>1, NoRowsCurrent
<1>5. FlagsTyped' BY <1>1, <1>4 DEF LlamaInv, FlagsTyped
<1>6. Complete' BY <1>1 DEF LlamaInv, Complete
<1>7. Selected' BY <1>1 DEF LlamaInv, Selected, Loaded
<1>8. UNCHANGED ccos_enabled BY <1>1 DEF ccos_enabled
<1>9. CASE ccos_enabled
  <2>1. CacheFound BY <1>1, <1>9 DEF LlamaInv, Geometry, Loaded
  <2>2. /\ pre_offload' = NoPre /\ Update(live[g_ccos_cache], Cleared(Cache))
        /\ UNCHANGED <<store, g_ccos_cache, geometry>>
    BY <1>1, <1>9, <2>1 DEF reset_store, PreAfterReset
  <2>3. /\ Cache.hard \in Nat /\ Cache.hard = geometry.budget /\ geometry.n_layers > 0
        /\ live[g_ccos_cache] \in 1 .. Len(objects) /\ DOMAIN live \subseteq {g_ccos_cache}
    BY <2>1, CacheFacts
  <2> DEFINE d == NewCache(Cache.hard)
  <2>4. /\ d \in CacheType /\ d.hard = Cache.hard /\ Resident(d) = 0
        /\ \A s \in Slots : d.slot[s] = AbsentTile
    BY <2>3, NewCacheOK
  <2>5. Update(live[g_ccos_cache], d) BY <2>2 DEF Cleared
  <2> HIDE DEF d
  <2>6. /\ Cache' = d /\ CacheFound' /\ objects' \in Seq(CacheType)
        /\ UNCHANGED <<live, retired>> /\ Len(objects') = Len(objects)
    BY <2>1, <2>2, <2>4, <2>5, UpdateIs
  <2>7. \A s \in Slots : ~Used(s)' /\ TileOK(Cache.slot[s])'
    BY <2>4, <2>6, AbsentTyped DEF Used, TileOK
  <2>8. CacheOK'
    <3>1. Cache'.hard = geometry'.budget /\ Resident(Cache)' <= Cache'.hard
      BY <2>2, <2>3, <2>4, <2>6
    <3> QED BY <1>8, <1>9, <2>2, <2>3, <2>6, <2>7, <3>1 DEF CacheOK
  <2>9. StoreOK' BY <1>8, <1>9, <2>2 DEF LlamaInv, StoreOK
  <2>10. Fresh' BY <2>7 DEF Fresh
  <2>11. Snapshot' BY <2>2 DEF Snapshot, NoPre
  <2>12. HostTyped' BY <1>1, <2>2 DEF LlamaInv, HostTyped, NoPre
  <2>13. Geometry' BY <1>1, <1>8, <1>9, <2>2, <2>6 DEF LlamaInv, Geometry, Loaded
  <2> QED BY <1>3, <1>4, <1>5, <1>6, <1>7, <2>8, <2>9, <2>10, <2>11, <2>12, <2>13 DEF LlamaInv
<1>10. CASE ~ccos_enabled
  <2>1. /\ store' = EmptyStore(store.n_layers, store.capacity)
        /\ UNCHANGED <<g_ccos_cache, geometry, pre_offload, live, retired, objects>>
    BY <1>1, <1>10 DEF reset_store, StoreReset
  <2>2. store.n_layers \in Nat /\ store.capacity \in Nat
    BY DEF LlamaInv, StoreOK, StoreTyped
  <2>3. /\ StoreTyped(store') /\ Blank(store')
        /\ store'.n_layers = store.n_layers /\ store'.capacity = store.capacity
    BY <2>1, <2>2, EmptyStoreOK
  <2>4. ~CacheFound /\ pre_offload.resident = 0 BY <1>10 DEF LlamaInv, CacheOK, Snapshot
  <2>5. ~CacheFound' BY <2>1, <2>4 DEF CacheFound
  <2>6. CacheOK'
    <3>1. objects \in Seq(CacheType) /\ DOMAIN live \subseteq {g_ccos_cache}
      BY DEF LlamaInv, CacheOK
    <3> QED BY <2>1, <2>5, <3>1 DEF CacheOK
  <2>7. StoreOK' BY <2>3 DEF StoreOK, Blank
  <2>8. Fresh' /\ Snapshot' BY <2>1, <2>4, <2>5 DEF Fresh, Snapshot
  <2>9. HostTyped' BY <1>1, <2>1 DEF LlamaInv, HostTyped
  <2>10. Geometry' BY <1>1, <1>8, <1>10, <2>3 DEF LlamaInv, Geometry, Loaded
  <2> QED BY <1>3, <1>4, <1>5, <1>6, <1>7, <2>6, <2>7, <2>8, <2>9, <2>10 DEF LlamaInv
<1> QED BY <1>9, <1>10

(* Offload and restore put a cache d in place whose slots hold what they    *)
(* held.                                                                    *)
SameTiles(c, d) ==
    /\ d \in CacheType /\ d.hard = c.hard /\ Resident(d) <= d.hard
    /\ \A s \in Slots : /\ d.slot[s].tier = "ABSENT" <=> c.slot[s].tier = "ABSENT"
                        /\ d.slot[s].key = c.slot[s].key
                        /\ TileOK(d.slot[s])

LEMMA QuiescentKeeps ==
    ASSUME LlamaInv, host = "idle", CacheFound, NEW d, SameTiles(Cache, d),
           Update(live[g_ccos_cache], d),
           UNCHANGED <<env, store, g_ccos_cache, geometry, call, shimVars>>,
           pre_offload' \in [resident : Nat, hot : Nat, warm : Nat], Snapshot'
    PROVE  LlamaInv'
<1> USE DEF shimVars
<1>1. /\ Cache \in CacheType /\ Cache.hard = geometry.budget /\ ccos_enabled
      /\ geometry.n_layers > 0 /\ live[g_ccos_cache] \in 1 .. Len(objects)
      /\ DOMAIN live \subseteq {g_ccos_cache}
      /\ \A s \in Slots : Used(s) => Cache.slot[s].key = Key(Layer(s), Position(s), ctx)
  BY CacheFacts
<1>2. d \in CacheType BY DEF SameTiles
<1>3. /\ Cache' = d /\ CacheFound' /\ objects' \in Seq(CacheType)
      /\ UNCHANGED <<live, retired>> /\ Len(objects') = Len(objects)
  BY <1>2, UpdateIs
<1>4. \A s \in Slots : UNCHANGED <<Layer(s), Position(s)>> /\ (Used(s)' => Used(s))
  BY <1>3 DEF Layer, Position, Used, SameTiles
<1>5. UNCHANGED ccos_enabled BY DEF ccos_enabled
<1>6. CacheOK'
  <2>1. \A s \in Slots : Used(s)' => d.slot[s].key = Key(Layer(s), Position(s), ctx)
    BY <1>1, <1>4 DEF SameTiles
  <2>2. /\ d.hard = geometry.budget /\ Resident(d) <= d.hard
        /\ \A s \in Slots : TileOK(d.slot[s])
    BY <1>1 DEF SameTiles
  <2> QED BY <1>1, <1>3, <1>4, <1>5, <2>1, <2>2 DEF CacheOK
<1>7. StoreOK' BY <1>5 DEF LlamaInv, StoreOK
<1>8. Fresh' BY <1>4 DEF LlamaInv, Fresh
<1>9. HostTyped' BY DEF LlamaInv, HostTyped
<1>10. Geometry' BY <1>3, GeometryKept
<1>11. FlagsTyped' BY DEF LlamaInv, FlagsTyped
<1>12. model' \cap env.missing = {} /\ kv_off' \subseteq env.missing BY DEF LlamaInv, Phases
<1>13. CallTyped' /\ Phases' BY <1>12, HostPhases
<1>14. Complete' BY DEF LlamaInv, Complete
<1>15. Selected' BY DEF LlamaInv, Selected, Loaded
<1>16. ScoresCurrent' BY DEF LlamaInv, ScoresCurrent
<1> QED BY <1>6, <1>7, <1>8, <1>9, <1>10, <1>11, <1>13, <1>14, <1>15, <1>16 DEF LlamaInv

LEMMA OffloadedSame ==
    ASSUME LlamaInv, CacheFound
    PROVE  /\ SameTiles(Cache, AllOffloaded(Cache))
           /\ \A s \in Slots : Cache.slot[s].tier # "ABSENT" =>
                  AllOffloaded(Cache).slot[s] = [Cache.slot[s] EXCEPT !.tier = "COLD"]
           /\ InTier(AllOffloaded(Cache), {"HOT", "WARM"}) = {}
<1> DEFINE d == AllOffloaded(Cache)
<1>1. /\ Cache \in CacheType /\ Cache.hard \in Nat
      /\ \A s \in Slots : TileOK(Cache.slot[s]) /\ Cache.slot[s] \in TileType
  BY CacheFacts
<1>2. /\ d \in CacheType /\ d.hard = Cache.hard /\ Resident(d) = 0
      /\ \A s \in Slots : d.slot[s] =
                  IF Cache.slot[s].tier = "ABSENT" THEN Cache.slot[s]
                  ELSE [Cache.slot[s] EXCEPT !.tier = "COLD"]
      /\ InTier(d, {"HOT", "WARM"}) = {}
  BY <1>1, OffloadedOK
<1> HIDE DEF d
<1>3. \A s \in Slots : /\ d.slot[s].tier = "ABSENT" <=> Cache.slot[s].tier = "ABSENT"
                       /\ d.slot[s].key = Cache.slot[s].key
                       /\ TileOK(d.slot[s])
  <2> TAKE s \in Slots
  <2>1. TileOK(Cache.slot[s]) /\ Cache.slot[s] \in TileType BY <1>1
  <2>2. CASE Cache.slot[s].tier = "ABSENT" BY <1>2, <2>1, <2>2
  <2>3. CASE Cache.slot[s].tier # "ABSENT"
    <3>1. d.slot[s] = [Cache.slot[s] EXCEPT !.tier = "COLD"] BY <1>2, <2>3
    <3>2. /\ d.slot[s].tier = "COLD" /\ d.slot[s].rep = Cache.slot[s].rep
          /\ d.slot[s].key = Cache.slot[s].key
      BY <2>1, <3>1 DEF TileType
    <3>3. Cache.slot[s].rep # "ABSENT" BY <2>1, <2>3 DEF TileOK
    <3> QED BY <2>3, <3>2, <3>3 DEF TileOK
  <2> QED BY <2>2, <2>3
<1>4. SameTiles(Cache, d) BY <1>1, <1>2, <1>3 DEF SameTiles
<1> QED BY <1>2, <1>4 DEF d

LEMMA OffloadStep == ASSUME LlamaInv, Offload PROVE LlamaInv'
<1>1. /\ host = "idle" /\ CanOffload /\ Update(live[g_ccos_cache], AllOffloaded(Cache))
      /\ pre_offload' = [resident |-> Stats(Cache).resident,
                         hot |-> Stats(Cache).hot, warm |-> Stats(Cache).warm]
      /\ saved' = Cache.slot
      /\ UNCHANGED <<env, store, g_ccos_cache, geometry, call, shimVars>>
  BY DEF Offload, offload_quiescent
<1>2. CacheFound /\ Cardinality(InTier(Cache, {"COLD"})) = 0
  BY <1>1 DEF CanOffload, Stats
<1>3. InTier(Cache, {"COLD"}) = {} BY <1>2, InTierFinite, FS_EmptySet
<1>4. /\ Cache \in CacheType
      /\ \A s \in Slots : TileOK(Cache.slot[s]) /\ Cache.slot[s] \in TileType
  BY <1>2, CacheFacts
<1> DEFINE d == AllOffloaded(Cache)
<1>5. /\ SameTiles(Cache, d) /\ d \in CacheType
      /\ \A s \in Slots : Cache.slot[s].tier # "ABSENT" =>
             d.slot[s] = [Cache.slot[s] EXCEPT !.tier = "COLD"]
  BY <1>2, OffloadedSame DEF SameTiles
<1>6. Update(live[g_ccos_cache], d) BY <1>1
<1> HIDE DEF d
<1>7. Cache' = d /\ CacheFound' BY <1>1, <1>2, <1>5, <1>6, UpdateIs
<1>8. /\ pre_offload'.hot = Cardinality(InTier(Cache, {"HOT"}))
      /\ pre_offload'.warm = Cardinality(InTier(Cache, {"WARM"}))
      /\ pre_offload' \in [resident : Nat, hot : Nat, warm : Nat]
  <2>1. /\ Resident(Cache) \in Nat /\ Cardinality(InTier(Cache, {"HOT"})) \in Nat
        /\ Cardinality(InTier(Cache, {"WARM"})) \in Nat
    BY InTierFinite, CountsNat
  <2> QED BY <1>1, <2>1 DEF Stats
<1>9. \A s \in Slots : Cache.slot[s].tier = Cache.slot[s].rep
  BY <1>3, <1>4 DEF TileOK, InTier
<1>10. Snapshot'
  <2>1. saved' \in SlotsType BY <1>1, <1>4 DEF CacheType
  <2>2. /\ SavedIn({"HOT"})' = InTier(Cache, {"HOT"})
        /\ SavedIn({"WARM"})' = InTier(Cache, {"WARM"})
    BY <1>1 DEF SavedIn, InTier
  <2>3. \A s \in Slots : /\ saved'[s].tier = saved'[s].rep /\ TileOK(saved'[s])
                         /\ saved'[s].tier # "ABSENT" =>
                                Cache'.slot[s] = [saved'[s] EXCEPT !.tier = "COLD"]
    BY <1>1, <1>4, <1>5, <1>7, <1>9
  <2> QED BY <1>7, <1>8, <2>1, <2>2, <2>3 DEF Snapshot
<1> QED BY <1>1, <1>2, <1>5, <1>6, <1>8, <1>10, QuiescentKeeps

(* A restore of every slot; by the counts that AsBefore compares, there is  *)
(* no other slot in use than the ones that were offloaded.                  *)
LEMMA AllRestoredIs ==
    ASSUME LlamaInv, CacheFound
    PROVE  LET r == AllRestored(Cache) IN
           /\ r \in CacheType /\ r.hard = Cache.hard
           /\ \A s \in Slots :
                  /\ r.slot[s] = [Cache.slot[s] EXCEPT !.tier = Cache.slot[s].rep]
                  /\ r.slot[s].tier = Cache.slot[s].rep /\ r.slot[s].rep = Cache.slot[s].rep
                  /\ r.slot[s].key = Cache.slot[s].key /\ r.slot[s] \in TileType
<1> DEFINE r == AllRestored(Cache)
<1>1. Cache \in CacheType /\ \A s \in Slots : Cache.slot[s] \in TileType BY CacheFacts
<1>2. r = [hard |-> Cache.hard,
           slot |-> [s \in Slots |-> [Cache.slot[s] EXCEPT !.tier = Cache.slot[s].rep]]]
  BY <1>1 DEF AllRestored, CacheType
<1>3. \A s \in Slots : r.slot[s] = [Cache.slot[s] EXCEPT !.tier = Cache.slot[s].rep] BY <1>2
<1>4. \A s \in Slots : /\ r.slot[s].tier = Cache.slot[s].rep /\ r.slot[s].rep = Cache.slot[s].rep
                       /\ r.slot[s].key = Cache.slot[s].key /\ r.slot[s] \in TileType
  BY <1>1, <1>3 DEF TileType
<1>5. r \in CacheType /\ r.hard = Cache.hard
  <2>1. [s \in Slots |-> [Cache.slot[s] EXCEPT !.tier = Cache.slot[s].rep]] \in SlotsType
    BY <1>3, <1>4 DEF SlotsType
  <2>2. Cache.hard \in Nat BY CacheFacts
  <2> QED BY <1>2, <2>1, <2>2 DEF CacheType
<1> QED BY <1>3, <1>4, <1>5

LEMMA RestoredSame ==
    ASSUME LlamaInv, CacheFound, Resident(AllRestored(Cache)) <= Cache.hard
    PROVE  SameTiles(Cache, AllRestored(Cache))
<1> DEFINE r == AllRestored(Cache)
<1>1. \A s \in Slots : TileOK(Cache.slot[s]) /\ Cache.slot[s] \in TileType BY CacheFacts
<1>2. /\ r \in CacheType /\ r.hard = Cache.hard
      /\ \A s \in Slots :
             /\ r.slot[s] = [Cache.slot[s] EXCEPT !.tier = Cache.slot[s].rep]
             /\ r.slot[s].tier = Cache.slot[s].rep /\ r.slot[s].rep = Cache.slot[s].rep
             /\ r.slot[s].key = Cache.slot[s].key
  BY AllRestoredIs
<1>3. Resident(r) <= r.hard BY <1>2
<1> HIDE DEF r
<1>4. \A s \in Slots : /\ r.slot[s].tier = "ABSENT" <=> Cache.slot[s].tier = "ABSENT"
                       /\ r.slot[s].key = Cache.slot[s].key /\ TileOK(r.slot[s])
  <2> TAKE s \in Slots
  <2>1. TileOK(Cache.slot[s]) /\ Cache.slot[s] \in TileType BY <1>1
  <2>2. CASE Cache.slot[s].tier = "ABSENT"
    <3>1. Cache.slot[s] = AbsentTile /\ Cache.slot[s].rep = "ABSENT" BY <2>1, <2>2 DEF TileOK
    <3>2. r.slot[s] = AbsentTile BY <1>2, <3>1 DEF AbsentTile
    <3> QED BY <2>2, <3>1, <3>2, AbsentTyped
  <2>3. CASE Cache.slot[s].tier # "ABSENT"
    <3>1. Cache.slot[s].rep # "ABSENT" BY <2>1, <2>3 DEF TileOK
    <3> QED BY <1>2, <2>3, <3>1 DEF TileOK
  <2> QED BY <2>2, <2>3
<1>5. SameTiles(Cache, r) BY <1>2, <1>3, <1>4 DEF SameTiles
<1> QED BY <1>5 DEF r

LEMMA RestoredExact ==
    ASSUME LlamaInv, CacheFound, pre_offload.resident # 0, AsBefore(AllRestored(Cache))
    PROVE  AllRestored(Cache).slot = saved
<1> DEFINE r == AllRestored(Cache)
<1>1. /\ saved \in SlotsType
      /\ pre_offload.hot = Cardinality(SavedIn({"HOT"}))
      /\ pre_offload.warm = Cardinality(SavedIn({"WARM"}))
      /\ \A t \in Slots :
           /\ saved[t].tier = saved[t].rep /\ TileOK(saved[t])
           /\ saved[t].tier # "ABSENT" =>
                  Cache.slot[t] = [saved[t] EXCEPT !.tier = "COLD"]
  BY DEF LlamaInv, Snapshot
<1>2. \A t \in Slots : saved[t] \in TileType BY <1>1 DEF SlotsType
<1>3. /\ Cardinality(InTier(r, {"HOT"})) = pre_offload.hot
      /\ Cardinality(InTier(r, {"WARM"})) = pre_offload.warm
  BY DEF AsBefore, Stats
<1>4. /\ r \in CacheType
      /\ \A s \in Slots :
             /\ r.slot[s] = [Cache.slot[s] EXCEPT !.tier = Cache.slot[s].rep]
             /\ r.slot[s].tier = Cache.slot[s].rep
  BY AllRestoredIs
<1>5. \A s \in Slots : TileOK(Cache.slot[s]) /\ Cache.slot[s] \in TileType BY CacheFacts
<1> HIDE DEF r
<1>6. \A s \in Slots : saved[s].tier # "ABSENT" => r.slot[s] = saved[s]
  <2> TAKE s \in Slots
  <2> HAVE saved[s].tier # "ABSENT"
  <2>1. Cache.slot[s] = [saved[s] EXCEPT !.tier = "COLD"] BY <1>1
  <2>2. saved[s] \in TileType /\ saved[s].tier = saved[s].rep BY <1>1, <1>2
  <2>3. Cache.slot[s].rep = saved[s].rep BY <2>1, <2>2 DEF TileType
  <2>4. r.slot[s] = [[saved[s] EXCEPT !.tier = "COLD"] EXCEPT !.tier = saved[s].rep]
    BY <1>4, <2>1, <2>3
  <2> QED BY <2>2, <2>4 DEF TileType
<1>7. /\ SavedIn({"HOT"}) \in SUBSET InTier(r, {"HOT"})
      /\ SavedIn({"WARM"}) \in SUBSET InTier(r, {"WARM"})
  BY <1>6 DEF SavedIn, InTier
<1>8. SavedIn({"HOT"}) = InTier(r, {"HOT"}) /\ SavedIn({"WARM"}) = InTier(r, {"WARM"})
  BY <1>1, <1>3, <1>7, InTierFinite, FS_Subset
<1>9. \A s \in Slots : r.slot[s] = saved[s]
  <2> TAKE s \in Slots
  <2>1. CASE saved[s].tier # "ABSENT" BY <1>6, <2>1
  <2>2. CASE saved[s].tier = "ABSENT"
    <3>1. r.slot[s].tier \notin {"HOT", "WARM"} BY <1>8, <2>2 DEF SavedIn, InTier
    <3>2. Cache.slot[s].rep = "ABSENT" BY <1>4, <1>5, <3>1 DEF TileType
    <3>3. Cache.slot[s] = AbsentTile BY <1>5, <3>2 DEF TileOK
    <3>4. r.slot[s] = AbsentTile BY <1>4, <3>2, <3>3 DEF AbsentTile
    <3>5. saved[s] = AbsentTile BY <1>1, <2>2 DEF TileOK
    <3> QED BY <3>4, <3>5
  <2> QED BY <2>1, <2>2
<1>10. r.slot \in SlotsType BY <1>4 DEF CacheType
<1>11. r.slot = saved BY <1>1, <1>9, <1>10 DEF SlotsType
<1> QED BY <1>11 DEF r

LEMMA RestoreStep == ASSUME LlamaInv, Restore PROVE LlamaInv'
<1>1. /\ host = "idle" /\ CacheFound /\ pre_offload.resident # 0
      /\ UNCHANGED <<env, store, g_ccos_cache, geometry, saved, call, shimVars>>
      /\ \/ /\ Resident(AllRestored(Cache)) <= Cache.hard /\ AsBefore(AllRestored(Cache))
            /\ Update(live[g_ccos_cache], AllRestored(Cache)) /\ pre_offload' = NoPre
         \/ /\ Update(live[g_ccos_cache], AllOffloaded(Cache)) /\ UNCHANGED pre_offload
  BY DEF Restore, restore_quiescent, AfterFailedRestore
<1>2. CASE /\ Resident(AllRestored(Cache)) <= Cache.hard
           /\ Update(live[g_ccos_cache], AllRestored(Cache)) /\ pre_offload' = NoPre
  <2>1. SameTiles(Cache, AllRestored(Cache)) BY <1>1, <1>2, RestoredSame
  <2>2. Snapshot' BY <1>2 DEF Snapshot, NoPre
  <2>3. pre_offload' \in [resident : Nat, hot : Nat, warm : Nat] BY <1>2 DEF NoPre
  <2> QED BY <1>1, <1>2, <2>1, <2>2, <2>3, QuiescentKeeps
<1>3. CASE Update(live[g_ccos_cache], AllOffloaded(Cache)) /\ UNCHANGED pre_offload
  <2> DEFINE d == AllOffloaded(Cache)
  <2>1. /\ SameTiles(Cache, d) /\ d \in CacheType
        /\ \A s \in Slots : Cache.slot[s].tier # "ABSENT" =>
               d.slot[s] = [Cache.slot[s] EXCEPT !.tier = "COLD"]
    BY <1>1, OffloadedSame DEF SameTiles
  <2>2. Update(live[g_ccos_cache], d) BY <1>3
  <2> HIDE DEF d
  <2>3. Cache' = d /\ CacheFound' BY <1>1, <2>1, <2>2, UpdateIs
  <2>4. /\ saved \in SlotsType
        /\ pre_offload.hot = Cardinality(SavedIn({"HOT"}))
        /\ pre_offload.warm = Cardinality(SavedIn({"WARM"}))
        /\ \A t \in Slots :
             /\ saved[t].tier = saved[t].rep /\ TileOK(saved[t])
             /\ saved[t].tier # "ABSENT" =>
                    Cache.slot[t] = [saved[t] EXCEPT !.tier = "COLD"]
    BY <1>1 DEF LlamaInv, Snapshot
  <2>5. \A t \in Slots : saved[t].tier # "ABSENT" => d.slot[t] = [saved[t] EXCEPT !.tier = "COLD"]
    <3> TAKE t \in Slots
    <3> HAVE saved[t].tier # "ABSENT"
    <3>1. saved[t] \in TileType BY <2>4 DEF SlotsType
    <3>2. Cache.slot[t] = [saved[t] EXCEPT !.tier = "COLD"] BY <2>4
    <3>3. Cache.slot[t].tier = "COLD" BY <3>1, <3>2 DEF TileType
    <3>4. d.slot[t] = [[saved[t] EXCEPT !.tier = "COLD"] EXCEPT !.tier = "COLD"]
      BY <2>1, <3>2, <3>3
    <3> QED BY <3>1, <3>4 DEF TileType
  <2>6. Snapshot' BY <1>1, <1>3, <2>3, <2>4, <2>5 DEF Snapshot, SavedIn
  <2>7. pre_offload' \in [resident : Nat, hot : Nat, warm : Nat]
    BY <1>3 DEF LlamaInv, HostTyped
  <2> QED BY <1>1, <2>1, <2>2, <2>6, <2>7, QuiescentKeeps
<1> QED BY <1>1, <1>2, <1>3

(* A graph operation begins: every worker at its first place.               *)
LEMMA BeginIs ==
    ASSUME NEW kind \in {"transform", "score"}, NEW l \in Nat, Begin(kind, l)
    PROVE  /\ op'.kind = kind /\ op'.layer = l
           /\ op' \in [kind : {"none", "transform", "score"}, layer : Nat]
           /\ CallTyped' /\ ScoresCurrent' /\ DOMAIN row' = Workers
           /\ \A w \in Workers :
                  /\ call'[w].pc = IF kind = "transform" THEN "load" ELSE "mask"
                  /\ call'[w].layer = l
<1>1. op' = [kind |-> kind, layer |-> l] BY DEF Begin
<1> DEFINE c == [NoCall EXCEPT !.pc = IF kind = "transform" THEN "load" ELSE "mask",
                               !.layer = l]
<1>2. call' = [w \in Workers |-> c] BY DEF Begin
<1>3. /\ c \in CallType /\ c.pc = (IF kind = "transform" THEN "load" ELSE "mask")
      /\ c.layer = l
  BY NoCallTyped DEF CallType, PhaseType
<1> HIDE DEF c
<1>4. CallTyped' BY <1>2, <1>3 DEF CallTyped
<1>5. ScoresCurrent' /\ DOMAIN row' = Workers BY NoRowsCurrent DEF Begin
<1> QED BY <1>1, <1>2, <1>3, <1>4, <1>5

(* Where the workers are then.                                              *)
LEMMA BeginPhases ==
    ASSUME LlamaInv, NEW kind \in {"transform", "score"}, NEW l \in Nat, Begin(kind, l),
           host' = "graph", UNCHANGED <<env, model, kv_off>>
    PROVE  Phases' /\ \A w \in Workers : call'[w].pc \in {"load", "mask"}
<1>1. /\ op'.kind = kind /\ op'.layer = l
      /\ \A w \in Workers :
             /\ call'[w].pc = (IF kind = "transform" THEN "load" ELSE "mask")
             /\ call'[w].layer = l
  BY BeginIs
<1>2. \A w \in Workers : Phase(w)' BY <1>1 DEF Phase, Transforming, Writing
<1>3. Phases' BY <1>2 DEF LlamaInv, Phases
<1> QED BY <1>1, <1>3

(* The slots, where the store is not touched.                               *)
LEMMA SlotsKept ==
    ASSUME LlamaInv, UNCHANGED <<geometry, g_ccos_cache, ffiVars>>
    PROVE  /\ UNCHANGED CacheFound
           /\ CacheFound => \A s \in Slots :
                  /\ UNCHANGED <<Used(s), Layer(s), Position(s)>>
                  /\ Position(s) \in Int /\ Layer(s) \in Int
<1> USE DEF ffiVars
<1>1. UNCHANGED <<Cache, CacheFound>> BY DEF Cache, CacheFound
<1>2. geometry.n_layers \in Nat BY DEF LlamaInv, HostTyped
<1>3. CacheFound => geometry.n_layers > 0 BY CacheFacts
<1>4. \A s \in Slots : s \in Nat BY ElasticFfiAssumption
<1>5. \A s \in Slots : UNCHANGED <<Used(s), Layer(s), Position(s)>>
  BY <1>1 DEF Used, Layer, Position
<1>6. CacheFound => \A s \in Slots : Position(s) \in Int /\ Layer(s) \in Int
  BY <1>2, <1>3, <1>4 DEF Layer, Position
<1> QED BY <1>1, <1>5, <1>6

LEMMA DecodeStep ==
    ASSUME LlamaInv, NEW count \in 1 .. Cardinality(Workers), Decode(count) PROVE LlamaInv'
<1> USE DEF storeVars
<1>1. /\ host = "idle" /\ next_pos + count <= Capacity
      /\ batch' = [start |-> next_pos, count |-> count]
      /\ Begin("transform", 0) /\ host' = "graph"
      /\ UNCHANGED <<env, storeVars, saved, ffiVars, ctx, next_pos, num_layers, model,
                     kv_off, tiles_written, mask, resolver, counters, executed, history>>
  BY DEF Decode
<1>2. /\ op'.kind = "transform" /\ op'.layer = 0
      /\ op' \in [kind : {"none", "transform", "score"}, layer : Nat]
      /\ CallTyped' /\ ScoresCurrent' /\ DOMAIN row' = Workers
      /\ \A w \in Workers : call'[w].pc = "load"
  BY <1>1, BeginIs
<1>3. Phases' BY <1>1, BeginPhases
<1>4. count \in Nat /\ count > 0 OBVIOUS
<1>5. HostTyped' BY <1>1, <1>2, <1>4 DEF LlamaInv, HostTyped
<1>6. FlagsTyped' BY <1>1, <1>2 DEF LlamaInv, FlagsTyped
<1>7. CacheOK' /\ StoreOK' /\ Snapshot' BY <1>1, StoresKept
<1>8. num_layers \in LayerCounts /\ num_layers > 0
  <2>1. num_layers \in LayerCounts BY <1>1 DEF LlamaInv, Geometry, Loaded
  <2>2. num_layers \in Nat \ {0} BY <2>1, ExternalKAssumption
  <2> QED BY <2>1, <2>2
<1>9. UNCHANGED <<CacheFound, ccos_enabled>> BY <1>1 DEF CacheFound, ccos_enabled, ffiVars
<1>10. Geometry'
  BY <1>1, <1>2, <1>8, <1>9 DEF LlamaInv, Geometry, Loaded
<1>11. Fresh'
  <2> SUFFICES ASSUME CacheFound PROVE Fresh' BY <1>9 DEF Fresh
  <2>1. \A s \in Slots : UNCHANGED <<Used(s), Layer(s), Position(s)>> /\ Position(s) \in Int
    BY <1>1, SlotsKept
  <2>2. \A s \in Slots : Used(s) => Position(s) < next_pos BY <1>1 DEF LlamaInv, Fresh
  <2>3. next_pos \in Nat BY DEF LlamaInv, HostTyped
  <2>4. batch'.start = next_pos /\ batch'.count = count BY <1>1
  <2>5. \A s \in Slots : Used(s)' => /\ Position(s)' < batch'.start
                                     /\ Position(s)' < batch'.start + batch'.count
    BY <1>4, <2>1, <2>2, <2>3, <2>4
  <2> QED BY <1>1, <2>5 DEF Fresh
<1>12. Complete' BY <1>1, <1>2 DEF LlamaInv, Complete, Transformed
<1>13. Selected' BY <1>1, <1>2 DEF LlamaInv, Selected, Loaded
<1> QED BY <1>2, <1>3, <1>5, <1>6, <1>7, <1>10, <1>11, <1>12, <1>13 DEF LlamaInv

LEMMA BarrierStep == ASSUME LlamaInv, Barrier PROVE LlamaInv'
<1> USE DEF storeVars
<1>1. /\ host = "graph" /\ \A w \in Workers : call[w].pc = "done"
      /\ UNCHANGED <<env, storeVars, saved, control, ffiVars, batch, ctx, num_layers,
                     model, kv_off, tiles_written, mask, resolver, counters, executed, history>>
  BY DEF Barrier, At
<1>2. CacheOK' /\ StoreOK' /\ Snapshot' BY <1>1, StoresKept
<1>3. UNCHANGED <<CacheFound, ccos_enabled>> BY <1>1 DEF CacheFound, ccos_enabled, ffiVars
<1>4. /\ op.layer \in Nat /\ num_layers \in Nat /\ next_pos \in Nat
      /\ batch.start \in Nat /\ batch.count \in Nat /\ op.kind \in {"none", "transform", "score"}
  BY DEF LlamaInv, HostTyped
<1>5. /\ op.kind # "none" /\ op.layer < num_layers /\ batch.start = next_pos
      /\ batch.start + batch.count <= Capacity
  BY <1>1 DEF LlamaInv, Geometry
<1>6. CacheFound => \A s \in Slots :
          /\ UNCHANGED <<Used(s), Layer(s), Position(s)>>
          /\ Position(s) \in Int /\ Layer(s) \in Int
  BY <1>1, SlotsKept
<1>7. CacheFound => \A s \in Slots : Used(s) =>
          /\ Position(s) < batch.start + batch.count
          /\ Position(s) < batch.start \/ Layer(s) < op.layer \/ Layer(s) = op.layer
  BY <1>1 DEF LlamaInv, Fresh
<1>8. ASSUME NEW kind \in {"transform", "score"}, NEW l \in Nat, Begin(kind, l), l < num_layers,
             kind = "score" => l = op.layer, kind = "transform" => l = op.layer + 1,
             UNCHANGED <<host, next_pos>>
      PROVE  LlamaInv'
  <2>1. /\ op'.kind = kind /\ op'.layer = l
        /\ op' \in [kind : {"none", "transform", "score"}, layer : Nat]
        /\ CallTyped' /\ ScoresCurrent' /\ DOMAIN row' = Workers
        /\ \A w \in Workers : call'[w].pc = IF kind = "transform" THEN "load" ELSE "mask"
    BY <1>8, BeginIs
  <2>2. Phases' BY <1>1, <1>8, BeginPhases
  <2>3. HostTyped' BY <1>1, <1>8, <2>1 DEF LlamaInv, HostTyped
  <2>4. FlagsTyped' BY <1>1, <2>1 DEF LlamaInv, FlagsTyped
  <2>5. Geometry' BY <1>1, <1>3, <1>5, <1>8, <2>1 DEF LlamaInv, Geometry, Loaded
  <2>6. Fresh'
    <3>1. CASE kind = "score" BY <1>1, <1>3, <1>6, <1>7, <1>8, <2>1, <3>1 DEF Fresh
    <3>2. CASE kind = "transform"
      <4>1. CacheFound => \A s \in Slots : Used(s) =>
               Position(s) < batch.start \/ Layer(s) < l
        BY <1>4, <1>6, <1>7, <1>8, <3>2
      <4> QED BY <1>1, <1>3, <1>6, <1>7, <1>8, <2>1, <4>1 DEF Fresh
    <3> QED BY <3>1, <3>2
  <2>7. Complete'
    <3>1. CASE kind = "score"
      <4>1. op'.kind = "score" /\ op'.layer = op.layer BY <1>8, <2>1, <3>1
      <4>2. \A w \in Workers : Transformed(w) BY <1>1 DEF Transformed
      <4> QED BY <1>1, <1>8, <4>1, <4>2 DEF LlamaInv, Complete, HasToken, PositionOf
    <3>2. CASE kind = "transform"
      <4>1. \A w \in Workers : ~Transformed(w)' BY <2>1, <3>2 DEF Transformed
      <4> QED BY <1>1, <4>1 DEF LlamaInv, Complete
    <3> QED BY <3>1, <3>2
  <2>8. Selected'
    <3>1. \A w \in Workers : call'[w].pc # "vector" BY <2>1
    <3> QED BY <1>1, <1>8, <3>1 DEF LlamaInv, Selected, Loaded
  <2> QED BY <1>2, <2>1, <2>2, <2>3, <2>4, <2>5, <2>6, <2>7, <2>8 DEF LlamaInv
<1>9. ASSUME host' = "idle", next_pos' = next_pos + batch.count, op' = NoOp,
             row' = [w \in Workers |-> NoRow], UNCHANGED call
      PROVE  LlamaInv'
  <2>1. ScoresCurrent' /\ DOMAIN row' = Workers BY <1>9, NoRowsCurrent
  <2>2. CallTyped' BY <1>9 DEF LlamaInv, CallTyped
  <2>3. Phases' BY <1>1, <1>9 DEF LlamaInv, Phases, Phase, Transforming, Writing
  <2>4. HostTyped' BY <1>1, <1>4, <1>9 DEF LlamaInv, HostTyped, NoOp
  <2>5. FlagsTyped' BY <1>1, <2>1 DEF LlamaInv, FlagsTyped
  <2>6. Geometry' BY <1>1, <1>3, <1>9 DEF LlamaInv, Geometry, Loaded
  <2>7. Fresh'
    <3>1. CacheFound => \A s \in Slots : Used(s)' => Position(s)' < next_pos'
      BY <1>4, <1>5, <1>6, <1>7, <1>9
    <3> QED BY <1>3, <1>9, <3>1 DEF Fresh
  <2>8. Complete' BY <1>1, <1>9 DEF LlamaInv, Complete
  <2>9. Selected' BY <1>1, <1>9 DEF LlamaInv, Selected, Loaded
  <2> QED BY <1>2, <2>1, <2>2, <2>3, <2>4, <2>5, <2>6, <2>7, <2>8, <2>9 DEF LlamaInv
<1>10. CASE op.kind = "transform"
  <2>1. Begin("score", op.layer) /\ UNCHANGED <<host, next_pos>> BY <1>10 DEF Barrier
  <2> QED BY <1>4, <1>5, <1>8, <2>1
<1>11. CASE op.kind # "transform" /\ op.layer + 1 < num_layers
  <2>1. Begin("transform", op.layer + 1) /\ UNCHANGED <<host, next_pos>> BY <1>11 DEF Barrier
  <2>2. op.layer + 1 \in Nat BY <1>4
  <2> QED BY <1>8, <1>11, <2>1, <2>2
<1>12. CASE op.kind # "transform" /\ ~(op.layer + 1 < num_layers)
  BY <1>9, <1>12 DEF Barrier
<1> QED BY <1>10, <1>11, <1>12

LEMMA ShutdownStep == ASSUME LlamaInv, Shutdown PROVE LlamaInv'
<1> USE DEF ffiVars
<1>1. /\ host = "idle" /\ host' = "exit" /\ num_layers' = 0 /\ model' = {}
      /\ UNCHANGED <<env, saved, call, op, batch, ctx, next_pos, kv_off, tiles_written,
                     mask, resolver, counters, executed, row, history>>
  BY DEF Shutdown
<1>2. model' \cap env.missing = {} /\ kv_off' \subseteq env.missing
  BY <1>1 DEF LlamaInv, Phases
<1>3. CallTyped' /\ Phases' BY <1>1, <1>2, HostPhases
<1>4. FlagsTyped' /\ ScoresCurrent' BY <1>1 DEF LlamaInv, FlagsTyped, ScoresCurrent
<1>5. Geometry' BY <1>1 DEF Geometry, Loaded
<1>6. Fresh' BY <1>1 DEF Fresh
<1>7. Complete' BY <1>1 DEF LlamaInv, Complete
<1>8. Selected' BY <1>1 DEF LlamaInv, Selected, Loaded
<1>9. objects \in Seq(CacheType) /\ DOMAIN live \subseteq {g_ccos_cache}
  BY DEF LlamaInv, CacheOK
<1>10. UNCHANGED ccos_enabled BY <1>1 DEF ccos_enabled
<1>11. CASE ccos_enabled
  <2>1. CacheFound BY <1>1, <1>11 DEF LlamaInv, Geometry, Loaded
  <2>2. /\ unregister_cache(g_ccos_cache) /\ g_ccos_cache' = NULL /\ geometry' = NoGeometry
        /\ pre_offload' = NoPre /\ UNCHANGED store
    BY <1>11, <2>1 DEF Shutdown, release_store
  <2>3. DOMAIN live' = {} /\ UNCHANGED objects BY <1>9, <2>2 DEF unregister_cache
  <2>4. CacheOK' BY <1>9, <2>3 DEF CacheOK, CacheFound
  <2>5. StoreOK' BY <1>1, <1>10, <2>2 DEF LlamaInv, StoreOK
  <2>6. Snapshot' BY <2>2 DEF Snapshot, NoPre
  <2>7. HostTyped' BY <1>1, <2>2 DEF LlamaInv, HostTyped, NoPre, NoGeometry
  <2> QED BY <1>3, <1>4, <1>5, <1>6, <1>7, <1>8, <2>4, <2>5, <2>6, <2>7 DEF LlamaInv
<1>12. CASE ~ccos_enabled
  <2>1. /\ store' = EmptyStore(store.n_layers, store.capacity)
        /\ UNCHANGED <<g_ccos_cache, geometry, pre_offload, live, retired, objects>>
    BY <1>12 DEF Shutdown, StoreReset
  <2>2. store.n_layers \in Nat /\ store.capacity \in Nat
    BY DEF LlamaInv, StoreOK, StoreTyped
  <2>3. StoreTyped(store') /\ Blank(store') BY <2>1, <2>2, EmptyStoreOK
  <2>4. StoreOK' BY <2>3 DEF StoreOK, Blank
  <2>5. ~CacheFound /\ pre_offload.resident = 0 BY <1>12 DEF LlamaInv, CacheOK, Snapshot
  <2>6. ~CacheFound' BY <2>1, <2>5 DEF CacheFound
  <2>7. CacheOK' BY <1>9, <2>1, <2>6 DEF CacheOK
  <2>8. Snapshot' BY <2>1, <2>5 DEF Snapshot
  <2>9. HostTyped' BY <1>1, <2>1 DEF LlamaInv, HostTyped
  <2> QED BY <1>3, <1>4, <1>5, <1>6, <1>7, <1>8, <2>4, <2>7, <2>8, <2>9 DEF LlamaInv
<1> QED BY <1>11, <1>12

-----------------------------------------------------------------------------
(* The invariant                                                            *)

LEMMA LlamaStutter == ASSUME LlamaInv, UNCHANGED vars PROVE LlamaInv'
<1> USE DEF vars, externalVars, shimVars, storeVars
<1>1. UNCHANGED <<CacheFound, ccos_enabled, Cache>>
  BY DEF CacheFound, ccos_enabled, Cache, ffiVars
<1>2. HostTyped' /\ CallTyped' /\ FlagsTyped'
  BY DEF LlamaInv, HostTyped, CallTyped, FlagsTyped
<1>3. Geometry' BY <1>1 DEF LlamaInv, Geometry, Loaded
<1>4. Phases'
  <2>1. \A w \in Workers : Phase(w)'
    BY <1>1 DEF LlamaInv, Phases, Phase, HasToken, PositionOf
  <2> QED BY <2>1 DEF LlamaInv, Phases
<1>5. CacheOK' /\ StoreOK' /\ Snapshot' BY StoresKept
<1>6. Fresh' BY <1>1 DEF LlamaInv, Fresh, WrittenBy, Used, Layer, Position, PositionOf
<1>7. Complete' BY DEF LlamaInv, Complete, Transformed, HasToken, PositionOf
<1>8. Selected' BY DEF LlamaInv, Selected, Loaded
<1>9. ScoresCurrent' BY DEF LlamaInv, ScoresCurrent
<1> QED BY <1>2, <1>3, <1>4, <1>5, <1>6, <1>7, <1>8, <1>9 DEF LlamaInv

LEMMA LlamaNext == LlamaInv /\ [Next]_vars => LlamaInv'
<1> SUFFICES ASSUME LlamaInv, [Next]_vars PROVE LlamaInv' OBVIOUS
<1>1. CASE \E w \in Workers : Work(w) BY <1>1, WorkStep
<1>2. CASE \E n \in LayerCounts : NewContext(n) \/ NewContextFails(n)
  BY <1>2, NewContextStep, NewContextFailsStep
<1>3. CASE Clear BY <1>3, ClearStep
<1>4. CASE Offload BY <1>4, OffloadStep
<1>5. CASE Restore BY <1>5, RestoreStep
<1>6. CASE Barrier BY <1>6, BarrierStep
<1>7. CASE Shutdown BY <1>7, ShutdownStep
<1>8. CASE \E n \in 1 .. Cardinality(Workers) : Decode(n) BY <1>8, DecodeStep
<1>9. CASE UNCHANGED vars BY <1>9, LlamaStutter
<1> QED BY <1>1, <1>2, <1>3, <1>4, <1>5, <1>6, <1>7, <1>8, <1>9 DEF Next, Host

LEMMA LlamaHolds == Spec => []LlamaInv
BY LlamaInit, LlamaNext, PTL DEF Spec

-----------------------------------------------------------------------------
(* Whatever the workers write at the same time, each on statistics that are *)
(* stale by then, and whatever is offloaded and restored, the external K    *)
(* store never holds more than the budget it was made with                  *)
(* (slha_external_k_write_tile, _offload_quiescent, _restore_quiescent).    *)
THEOREM StaysWithinBudget == Spec => []ResidentWithinBudget
<1>1. LlamaInv => ResidentWithinBudget
  <2> SUFFICES ASSUME LlamaInv, CacheFound PROVE Resident(Cache) <= geometry.budget
    BY DEF ResidentWithinBudget
  <2> QED BY CacheFacts
<1> QED BY <1>1, LlamaHolds, PTL

(* Every logit slha_shadow_score delivers is of the key of its layer and    *)
(* position, encoded in this context; and a run that is_valid accepts left  *)
(* no visible key out, unless an encode failed, and replaced no layer that  *)
(* the mask does not select.                                                *)
THEOREM LogitsAreTrusted == Spec => []LogitsTrusted
<1>1. LlamaInv => LogitsTrusted
  <2> SUFFICES ASSUME LlamaInv, host = "idle", is_valid
               PROVE  /\ history.short => history.encode_failed
                      /\ executed \subseteq resolved_ids
    BY DEF LogitsTrusted, CompleteUnlessEncodeFailed, LlamaInv
  <2>1. ~counters.error BY DEF is_valid
  <2>2. history.short => history.encode_failed BY <2>1 DEF LlamaInv, Complete
  <2>3. executed \subseteq {l \in LayersOf(num_layers) : contains(env.spec, l)}
    BY DEF LlamaInv, Selected, Loaded
  <2>4. mask.error => executed = {} BY <2>1 DEF LlamaInv, Selected
  <2>5. executed \subseteq resolved_ids BY <2>3, <2>4 DEF resolved_ids
  <2> QED BY <2>2, <2>5
<1> QED BY <1>1, LlamaHolds, PTL

(* Only slha_external_k_ccos_restore_quiescent reports a restore.           *)
LEMMA OthersReportNoRestore ==
    ASSUME [Next]_vars, ~Restore
    PROVE  control' \in {control, "none", "offloaded"}
<1>1. CASE \E w \in Workers : Work(w)
  <2>1. PICK w \in Workers : Work(w) BY <1>1
  <2>2. CASE WriteTile(w)
    BY <2>2 DEF WriteTile, WriteStep, WriteVector, WriteSnapshot, WriteAdmit, WriteDense,
                WriteFinal
  <2>3. CASE TransformLoad(w) \/ Encode(w) \/ TransformEnd(w)
    BY <2>3 DEF TransformLoad, Encode, TransformEnd, InOp
  <2>4. CASE ScoreRejects(w) \/ ScoreMask(w) \/ ResolveEnter(w) \/ ResolveExit(w)
    BY <2>4 DEF ScoreRejects, ScoreMask, ResolveEnter, ResolveExit, InOp
  <2>5. CASE ScorePasses(w) \/ ScoreModel(w) \/ ScoreVector(w)
    BY <2>5 DEF ScorePasses, ScoreModel, ScoreVector, InOp
  <2> QED BY <2>1, <2>2, <2>3, <2>4, <2>5 DEF Work
<1>2. CASE \E n \in LayerCounts : NewContext(n) \/ NewContextFails(n)
  BY <1>2 DEF NewContext, NewContextFails
<1>3. CASE Clear \/ Barrier \/ Shutdown BY <1>3 DEF Clear, Barrier, Shutdown
<1>4. CASE Offload BY <1>4 DEF Offload, offload_quiescent
<1>5. CASE \E n \in 1 .. Cardinality(Workers) : Decode(n) BY <1>5 DEF Decode
<1>6. CASE UNCHANGED vars BY <1>6 DEF vars, externalVars
<1> QED BY <1>1, <1>2, <1>3, <1>4, <1>5, <1>6 DEF Next, Host

(* What a restore leaves in the cache, by what it reports.                  *)
LEMMA RestoreReports ==
    ASSUME LlamaInv, Restore
    PROVE  /\ control' = "restored" => Cache'.slot = saved
           /\ control' = "restore_failed" => InTier(Cache', {"HOT", "WARM"}) = {}
<1>1. /\ CacheFound /\ pre_offload.resident # 0 /\ UNCHANGED g_ccos_cache
      /\ \/ /\ AsBefore(AllRestored(Cache)) /\ control' = "restored"
            /\ Update(live[g_ccos_cache], AllRestored(Cache))
         \/ /\ Update(live[g_ccos_cache], AllOffloaded(Cache))
            /\ control' = "restore_failed"
  BY DEF Restore, restore_quiescent, AfterFailedRestore
<1>2. CASE /\ AsBefore(AllRestored(Cache)) /\ control' = "restored"
           /\ Update(live[g_ccos_cache], AllRestored(Cache))
  <2>1. AllRestored(Cache) \in CacheType BY <1>1, AllRestoredIs
  <2>2. Cache' = AllRestored(Cache) BY <1>1, <1>2, <2>1, UpdateIs
  <2>3. AllRestored(Cache).slot = saved BY <1>1, <1>2, RestoredExact
  <2> QED BY <1>2, <2>2, <2>3
<1>3. CASE Update(live[g_ccos_cache], AllOffloaded(Cache)) /\ control' = "restore_failed"
  <2>1. /\ AllOffloaded(Cache) \in CacheType
        /\ InTier(AllOffloaded(Cache), {"HOT", "WARM"}) = {}
    BY <1>1, OffloadedSame DEF SameTiles
  <2>2. Cache' = AllOffloaded(Cache) BY <1>1, <1>3, <2>1, UpdateIs
  <2> QED BY <1>3, <2>1, <2>2
<1> QED BY <1>1, <1>2, <1>3

(* A restore that slha_external_k_ccos_restore_quiescent reports as done    *)
(* has put back every slot exactly as the last offload found it, and no     *)
(* other is in use; one it reports as failed leaves nothing resident.       *)
THEOREM RestoresExactly == Spec => RestoreExact
<1> DEFINE A == /\ control' = "restored" /\ control # "restored" => Cache'.slot = saved
                /\ control' = "restore_failed" /\ control # "restore_failed" =>
                       InTier(Cache', {"HOT", "WARM"}) = {}
<1>1. LlamaInv /\ [Next]_vars => [A]_externalVars
  <2> SUFFICES ASSUME LlamaInv, [Next]_vars PROVE A OBVIOUS
  <2>1. CASE Restore BY <2>1, RestoreReports
  <2>2. CASE ~Restore BY <2>2, OthersReportNoRestore
  <2> QED BY <2>1, <2>2
<1> QED BY <1>1, LlamaHolds, PTL DEF Spec, RestoreExact

-----------------------------------------------------------------------------
(* The ranking dataset                                                      *)

-----------------------------------------------------------------------------
(* Parts of sequences. Has: from place off on, f is A.                      *)

Has(f, off, A) ==
    off + Len(A) <= Len(f) /\ \A i \in 1 .. Len(A) : f[off + i] = A[i]

(* A part of f is at the same place of f \o g.                              *)
LEMMA HasLeft ==
    ASSUME NEW S, NEW f \in Seq(S), NEW g \in Seq(S), NEW A \in Seq(S), NEW off \in Nat, Has(f, off, A)
    PROVE  Has(f \o g, off, A)
<1>1. Len(f) \in Nat /\ Len(g) \in Nat /\ Len(A) \in Nat BY LenProperties
<1>2. /\ Len(f \o g) = Len(f) + Len(g)
      /\ \A i \in 1 .. Len(f) + Len(g) : (f \o g)[i] = IF i <= Len(f) THEN f[i] ELSE g[i - Len(f)]
  BY ConcatProperties
<1>3. \A i \in 1 .. Len(A) : off + i \in 1 .. Len(f) + Len(g) /\ off + i <= Len(f)
  BY <1>1 DEF Has
<1> QED BY <1>1, <1>2, <1>3 DEF Has

(* g is in f \o g, after f.                                                 *)
LEMMA HasRight ==
    ASSUME NEW S, NEW f \in Seq(S), NEW g \in Seq(S)
    PROVE  Has(f \o g, Len(f), g)
<1>1. Len(f) \in Nat /\ Len(g) \in Nat BY LenProperties
<1>2. /\ Len(f \o g) = Len(f) + Len(g)
      /\ \A i \in 1 .. Len(f) + Len(g) : (f \o g)[i] = IF i <= Len(f) THEN f[i] ELSE g[i - Len(f)]
  BY ConcatProperties
<1>3. ASSUME NEW i \in 1 .. Len(g) PROVE (f \o g)[Len(f) + i] = g[i]
  <2>1. Len(f) + i \in 1 .. Len(f) + Len(g) /\ ~(Len(f) + i <= Len(f)) /\ Len(f) + i - Len(f) = i
    BY <1>1
  <2> QED BY <1>2, <2>1
<1> QED BY <1>1, <1>2, <1>3 DEF Has

(* SubSeq cuts a part out.                                                  *)
LEMMA HasSlice ==
    ASSUME NEW S, NEW f \in Seq(S), NEW A \in Seq(S), NEW off \in Nat, Has(f, off, A)
    PROVE  SubSeq(f, off + 1, off + Len(A)) = A
<1> DEFINE n == Len(A)
           B == SubSeq(f, off + 1, off + n)
<1>1. n \in Nat /\ Len(f) \in Nat BY LenProperties
<1>2. \A i \in off + 1 .. off + n : f[i] \in S
  <2>1. \A i \in 1 .. Len(f) : f[i] \in S BY ElementOfSeq
  <2>2. \A i \in off + 1 .. off + n : i \in 1 .. Len(f) BY <1>1 DEF Has
  <2> QED BY <2>1, <2>2
<1>3. /\ B \in Seq(S) /\ Len(B) = (IF off + 1 <= off + n THEN off + n - (off + 1) + 1 ELSE 0)
      /\ \A i \in 1 .. off + n - (off + 1) + 1 : B[i] = f[off + 1 + i - 1]
  <2>1. off + 1 \in Int /\ off + n \in Int BY <1>1
  <2> QED BY <1>2, <2>1, SubSeqProperties
<1>4. Len(B) = n BY <1>1, <1>3
<1>5. \A i \in 1 .. n : B[i] = A[i]
  <2>1. \A i \in 1 .. n : off + 1 + i - 1 = off + i /\ i \in 1 .. off + n - (off + 1) + 1 BY <1>1
  <2> HIDE DEF B, n
  <2>2. \A i \in 1 .. n : B[i] = f[off + i] BY <1>3, <2>1
  <2> QED BY <2>2 DEF Has, n
<1> HIDE DEF B
<1>6. B = A BY <1>3, <1>4, <1>5, SeqEqual
<1> QED BY <1>6 DEF B

-----------------------------------------------------------------------------
(* Flattened sequences.                                                     *)

(* g joins the first sequences of s, one after the other.                   *)
Joins(g, s, n) == g = [i \in 1 .. n |-> IF i = 1 THEN s[i] ELSE g[i - 1] \o s[i]]

(* Such a g exists.                                                         *)
LEMMA JoinsExists ==
    ASSUME NEW s, NEW k \in Nat
    PROVE  \E g : Joins(g, s, k)
<1> DEFINE P(n) == \E g : Joins(g, s, n)
           Bad == {n \in Nat : ~P(n)}
<1>1. P(0)
  <2>1. Joins([i \in 1 .. 0 |-> IF i = 1 THEN s[i] ELSE <<>> \o s[i]], s, 0) BY DEF Joins
  <2> QED BY <2>1
<1>2. ASSUME NEW n \in Nat, P(n) PROVE P(n + 1)
  <2>1. PICK g : Joins(g, s, n) BY <1>2
  <2> DEFINE h == [i \in 1 .. n + 1 |-> IF i = 1 THEN s[i] ELSE g[i - 1] \o s[i]]
             k2 == [i \in 1 .. n + 1 |-> IF i = 1 THEN s[i] ELSE h[i - 1] \o s[i]]
  <2>2. ASSUME NEW i \in 1 .. n PROVE h[i] = g[i]
    <3>1. i \in 1 .. n + 1 OBVIOUS
    <3>2. h[i] = IF i = 1 THEN s[i] ELSE g[i - 1] \o s[i] BY <3>1
    <3>3. g[i] = IF i = 1 THEN s[i] ELSE g[i - 1] \o s[i] BY <2>1 DEF Joins
    <3> QED BY <3>2, <3>3
  <2>3. ASSUME NEW i \in 1 .. n + 1 PROVE h[i] = k2[i]
    <3>1. i # 1 => i - 1 \in 1 .. n OBVIOUS
    <3>2. h[i] = IF i = 1 THEN s[i] ELSE g[i - 1] \o s[i] OBVIOUS
    <3>3. k2[i] = IF i = 1 THEN s[i] ELSE h[i - 1] \o s[i] OBVIOUS
    <3> HIDE DEF h, k2
    <3> QED BY <3>1, <3>2, <3>3, <2>2
  <2>4. h = [i \in 1 .. n + 1 |-> h[i]] /\ k2 = [i \in 1 .. n + 1 |-> k2[i]] OBVIOUS
  <2>5. h = k2
    <3> HIDE DEF h, k2
    <3> QED BY <2>3, <2>4
  <2>6. h = [i \in 1 .. n + 1 |-> IF i = 1 THEN s[i] ELSE h[i - 1] \o s[i]]
    <3> HIDE DEF h
    <3> QED BY <2>5 DEF k2
  <2> HIDE DEF h
  <2>7. Joins(h, s, n + 1) BY <2>6 DEF Joins
  <2> QED BY <2>7
<1>3. \A n \in Nat : P(n)
  <2> SUFFICES ASSUME Bad # {} PROVE FALSE OBVIOUS
  <2> HIDE DEF P
  <2>1. PICK m \in Bad : \A n \in Bad : m <= n BY LeastElement
  <2>2. m \in Nat /\ m # 0 BY <1>1
  <2>3. m - 1 \in Nat /\ m - 1 + 1 = m /\ ~(m <= m - 1) BY <2>2
  <2>4. P(m - 1) BY <2>1, <2>3
  <2>5. P(m) BY <2>3, <2>4, <1>2
  <2> QED BY <2>1, <2>5
<1> QED BY <1>3

(* FlattenSeq takes its last element.                                       *)
LEMMA FlattenIsJoins ==
    ASSUME NEW s, Len(s) \in Nat \ {0}
    PROVE  \E g : Joins(g, s, Len(s)) /\ FlattenSeq(s) = g[Len(s)]
<1> DEFINE g == CHOOSE g : Joins(g, s, Len(s))
<1>1. Joins(g, s, Len(s)) BY JoinsExists
<1>2. FlattenSeq(s) = g[Len(s)] BY DEF Joins, FlattenSeq
<1> QED BY <1>1, <1>2

(* The lengths of the sequences in s, and their sum up to n.                *)
Lens(s) == [i \in DOMAIN s |-> Len(s[i])]

(* A sum, by its last summand.                                              *)
LEMMA SumStep ==
    ASSUME NEW c, NEW n \in Nat, \A i \in 1 .. n + 1 : c[i] \in Nat
    PROVE  SumOf(c, n + 1) = SumOf(c, n) + c[n + 1] /\ SumOf(c, n) \in Nat /\ SumOf(c, n + 1) \in Nat
<1>1. IsFiniteSet(1 .. n + 1) /\ IsFiniteSet(1 .. n) BY FS_Interval
<1>2. n + 1 \in 1 .. n + 1 /\ (1 .. n + 1) \ {n + 1} = 1 .. n OBVIOUS
<1>3. /\ SumFunctionOnSet(c, 1 .. n + 1) = c[n + 1] + SumFunctionOnSet(c, (1 .. n + 1) \ {n + 1})
      /\ SumFunctionOnSet(c, (1 .. n + 1) \ {n + 1}) \in Nat /\ c[n + 1] \in Nat
  BY <1>1, <1>2, SumTake
<1>4. SumOf(c, n + 1) = c[n + 1] + SumOf(c, n) /\ SumOf(c, n) \in Nat /\ c[n + 1] \in Nat
  BY <1>2, <1>3 DEF SumOf
<1> QED BY <1>4

(* The empty sum.                                                           *)
LEMMA SumNone == ASSUME NEW c PROVE SumOf(c, 0) = 0
<1>1. 1 .. 0 = {} OBVIOUS
<1> QED BY <1>1, SumEmpty DEF SumOf

(* Where the parts of a flattened sequence are.                             *)
Flat(x, s, n) ==
    /\ Len(x) = SumOf(Lens(s), n)
    /\ \A c \in 1 .. n : Has(x, SumOf(Lens(s), c - 1), s[c])

(* Sums of counts are numbers.                                              *)
LEMMA SumsRise ==
    ASSUME NEW c, NEW n \in Nat, \A i \in 1 .. n : c[i] \in Nat
    PROVE  \A i \in 0 .. n : SumOf(c, i) \in Nat
<1> SUFFICES ASSUME NEW i \in 0 .. n PROVE SumOf(c, i) \in Nat OBVIOUS
<1>1. CASE i = 0 BY <1>1, SumNone
<1>2. CASE i # 0
  <2>1. PICK m \in Nat : i = m + 1 BY <1>2
  <2>2. \A j \in 1 .. m + 1 : c[j] \in Nat BY <2>1
  <2> QED BY <2>1, <2>2, SumStep
<1> QED BY <1>1, <1>2

(* Each part of a flattened sequence is where the lengths before it say.    *)
LEMMA FlattenPlaces ==
    ASSUME NEW S, NEW s \in Seq(Seq(S))
    PROVE  FlattenSeq(s) \in Seq(S) /\ Flat(FlattenSeq(s), s, Len(s))
<1>1. Len(s) \in Nat /\ DOMAIN s = 1 .. Len(s) /\ \A i \in 1 .. Len(s) : s[i] \in Seq(S)
  BY LenProperties, ElementOfSeq
<1>2. \A i \in 1 .. Len(s) : Lens(s)[i] = Len(s[i]) /\ Lens(s)[i] \in Nat
  BY <1>1, LenProperties DEF Lens
<1>3. CASE Len(s) = 0
  <2>1. s = <<>> BY <1>3, EmptySeq
  <2>2. FlattenSeq(s) = <<>> BY <1>3, <2>1 DEF FlattenSeq
  <2>3. <<>> \in Seq(S) /\ Len(<<>>) = 0 BY EmptySeq
  <2>4. SumOf(Lens(s), Len(s)) = 0 BY <1>3, SumNone
  <2>5. \A c \in 1 .. Len(s) : FALSE BY <1>3
  <2> QED BY <2>2, <2>3, <2>4, <2>5 DEF Flat
<1>4. CASE Len(s) # 0
  <2>1. PICK g : Joins(g, s, Len(s)) /\ FlattenSeq(s) = g[Len(s)]
    BY <1>1, <1>4, FlattenIsJoins
  <2> DEFINE P(n) == g[n] \in Seq(S) /\ Flat(g[n], s, n)
             Bad == {n \in 1 .. Len(s) : ~P(n)}
  <2>2. ASSUME NEW n \in 1 .. Len(s), n = 1 \/ P(n - 1) PROVE P(n)
    <3>1. g[n] = IF n = 1 THEN s[n] ELSE g[n - 1] \o s[n] BY <2>1 DEF Joins
    <3>2. s[n] \in Seq(S) /\ Len(s[n]) \in Nat /\ Lens(s)[n] = Len(s[n]) BY <1>1, <1>2, LenProperties
    <3>3. PICK m \in Nat : n = m + 1 BY <1>1
    <3>4. SumOf(Lens(s), n) = SumOf(Lens(s), m) + Len(s[n]) /\ SumOf(Lens(s), m) \in Nat
      <4>1. \A i \in 1 .. m + 1 : Lens(s)[i] \in Nat BY <1>1, <1>2, <3>3
      <4> QED BY <3>2, <3>3, <4>1, SumStep
    <3>5. CASE n = 1
      <4>1. m = 0 /\ SumOf(Lens(s), m) = 0 BY <3>3, <3>5, SumNone
      <4>2. Has(s[n], 0, s[n]) BY <3>2 DEF Has
      <4>3. Len(g[n]) = SumOf(Lens(s), n) BY <3>1, <3>2, <3>4, <3>5, <4>1
      <4>4. \A c \in 1 .. n : c = n /\ c - 1 = m BY <3>5, <4>1
      <4>5. Flat(g[n], s, n) BY <3>1, <3>5, <4>1, <4>2, <4>3, <4>4 DEF Flat
      <4> QED BY <3>1, <3>2, <3>5, <4>5
    <3>6. CASE n # 1
      <4>1. g[m] \in Seq(S) /\ Flat(g[m], s, m) /\ n - 1 = m BY <2>2, <3>3, <3>6
      <4>2. g[n] = g[m] \o s[n] BY <3>1, <3>6, <4>1
      <4>3. g[n] \in Seq(S) /\ Len(g[n]) = Len(g[m]) + Len(s[n]) BY <3>2, <4>1, <4>2, ConcatProperties
      <4>4. Len(g[m]) = SumOf(Lens(s), m) BY <4>1 DEF Flat
      <4>5. Has(g[n], SumOf(Lens(s), m), s[n]) BY <3>2, <4>1, <4>2, <4>4, HasRight
      <4>6. ASSUME NEW c \in 1 .. m PROVE Has(g[n], SumOf(Lens(s), c - 1), s[c])
        <5>1. c \in 1 .. Len(s) /\ c - 1 \in 0 .. Len(s) BY <1>1, <3>3
        <5>2. SumOf(Lens(s), c - 1) \in Nat BY <1>1, <1>2, <5>1, SumsRise
        <5>3. Has(g[m], SumOf(Lens(s), c - 1), s[c]) BY <4>1 DEF Flat
        <5> QED BY <1>1, <3>2, <4>1, <4>2, <5>1, <5>2, <5>3, HasLeft
      <4>7. \A c \in 1 .. n : c \in 1 .. m \/ (c = n /\ c - 1 = m) BY <3>3
      <4>8. Flat(g[n], s, n) BY <3>4, <4>3, <4>4, <4>5, <4>6, <4>7 DEF Flat
      <4> QED BY <4>3, <4>8
    <3> QED BY <3>5, <3>6
  <2>3. \A n \in 1 .. Len(s) : P(n)
    <3> SUFFICES ASSUME Bad # {} PROVE FALSE OBVIOUS
    <3> HIDE DEF P
    <3>1. Bad \subseteq Nat BY <1>1
    <3>2. PICK m \in Bad : \A n \in Bad : m <= n BY <3>1, LeastElement
    <3>3. m = 1 \/ (m - 1 \in 1 .. Len(s) /\ ~(m <= m - 1)) BY <1>1
    <3>4. m = 1 \/ P(m - 1) BY <3>2, <3>3
    <3>5. P(m) BY <3>4, <2>2
    <3> QED BY <3>2, <3>5
  <2> QED BY <1>1, <1>4, <2>1, <2>3
<1> QED BY <1>1, <1>3, <1>4

-----------------------------------------------------------------------------
(* What a layer's collector holds.                                          *)

Pair == [1 .. 2 -> Int]

RowSet == [head : Nat, gqa : Nat, token : Nat, chunk : Nat, q : Pair, b : Seq(Int), s : Seq(Int)]

LayerSet == [rows : Seq(RowSet), keys : Seq(Seq(Pair)), key_dim : {0, 2}, rejected : Nat]

(* Row r has its keys in chunk r.chunk of keys, and its logits are theirs.  *)
RowTrue(r, keys) ==
    /\ r.chunk + 1 \in 1 .. Len(keys)
    /\ Len(r.b) >= 1 /\ Len(r.s) = Len(r.b) /\ Len(r.b) <= Len(keys[r.chunk + 1])
    /\ \A j \in 1 .. Len(r.b) : r.b[j] = Dot(r.q, keys[r.chunk + 1][j])

RowsTrue(L) == \A i \in 1 .. Len(L.rows) : RowTrue(L.rows[i], L.keys)

Whole(L) == L \in LayerSet /\ RowsTrue(L) /\ L.rows # <<>> /\ L.key_dim = 2

(* A pair is a sequence of two numbers.                                     *)
LEMMA PairIsSeq == ASSUME NEW p \in Pair PROVE p \in Seq(Int) /\ Len(p) = 2 /\ DOMAIN p = 1 .. 2
<1>1. DOMAIN p = 1 .. 2 BY DEF Pair
<1>2. p \in Seq(Int)
  <2>1. p \in [1 .. 2 -> Int] BY DEF Pair
  <2>2. 2 \in Nat OBVIOUS
  <2>3. \E n \in Nat : p \in [1 .. n -> Int] BY <2>1, <2>2
  <2> QED BY <2>3
<1>3. Len(p) \in Nat /\ DOMAIN p = 1 .. Len(p) BY <1>2, LenProperties
<1>4. Len(p) = 2 BY <1>1, <1>3
<1> QED BY <1>1, <1>2, <1>4

(* Pairs, one after the other.                                              *)
LEMMA FlatPairs ==
    ASSUME NEW s \in Seq(Pair)
    PROVE  /\ FlattenSeq(s) \in Seq(Int) /\ Len(FlattenSeq(s)) = 2 * Len(s)
           /\ \A i \in 1 .. Len(s) : Has(FlattenSeq(s), 2 * (i - 1), s[i])
<1>1. Len(s) \in Nat /\ DOMAIN s = 1 .. Len(s) /\ \A i \in 1 .. Len(s) : s[i] \in Pair
  BY LenProperties, ElementOfSeq
<1>2. \A i \in 1 .. Len(s) : Lens(s)[i] = 2
  BY <1>1, PairIsSeq DEF Lens
<1>3. s \in Seq(Seq(Int))
  <2>1. \A i \in 1 .. Len(s) : s[i] \in Seq(Int) BY <1>1, PairIsSeq
  <2> QED BY <1>1, <2>1, SeqMonotonic
<1>4. FlattenSeq(s) \in Seq(Int) /\ Flat(FlattenSeq(s), s, Len(s))
  BY <1>3, FlattenPlaces
<1> DEFINE P(n) == SumOf(Lens(s), n) = 2 * n
           Bad == {n \in 0 .. Len(s) : ~P(n)}
<1>5. \A n \in 0 .. Len(s) : P(n)
  <2> SUFFICES ASSUME Bad # {} PROVE FALSE OBVIOUS
  <2>1. PICK m \in Bad : \A n \in Bad : m <= n
    <3>1. Bad \subseteq Nat BY <1>1
    <3> HIDE DEF Bad
    <3> QED BY <3>1, LeastElement
  <2>2. m # 0 BY SumNone
  <2>3. PICK k \in Nat : m = k + 1 BY <1>1, <2>2
  <2>4. k \in 0 .. Len(s) /\ ~(m <= k) /\ m \in 1 .. Len(s) BY <1>1, <2>3
  <2>5. P(k)
    <3> HIDE DEF P
    <3> QED BY <2>1, <2>4
  <2>6. SumOf(Lens(s), k + 1) = SumOf(Lens(s), k) + Lens(s)[k + 1]
    <3>1. \A i \in 1 .. k + 1 : Lens(s)[i] \in Nat BY <1>1, <1>2, <2>3, <2>4
    <3> QED BY <3>1, SumStep
  <2>7. P(m) BY <1>2, <2>3, <2>4, <2>5, <2>6
  <2> QED BY <2>7
<1>6. ASSUME NEW i \in 1 .. Len(s) PROVE Has(FlattenSeq(s), 2 * (i - 1), s[i])
  <2>1. i - 1 \in 0 .. Len(s) BY <1>1
  <2>2. SumOf(Lens(s), i - 1) = 2 * (i - 1) BY <1>5, <2>1
  <2> QED BY <1>4, <2>2 DEF Flat
<1>7. SumOf(Lens(s), Len(s)) = 2 * Len(s)
  <2>1. Len(s) \in 0 .. Len(s) BY <1>1
  <2> QED BY <1>5, <2>1
<1> QED BY <1>4, <1>6, <1>7 DEF Flat

(* A part of a part.                                                        *)
LEMMA HasDeep ==
    ASSUME NEW S, NEW f \in Seq(S), NEW A \in Seq(S), NEW B \in Seq(S), NEW o \in Nat, NEW p \in Nat,
           Has(f, o, A), Has(A, p, B)
    PROVE  Has(f, o + p, B)
<1>1. Len(f) \in Nat /\ Len(A) \in Nat /\ Len(B) \in Nat BY LenProperties
<1>2. \A i \in 1 .. Len(B) : p + i \in 1 .. Len(A) /\ o + p + i = o + (p + i) BY <1>1 DEF Has
<1>3. ASSUME NEW i \in 1 .. Len(B) PROVE f[o + p + i] = B[i]
  <2>1. p + i \in 1 .. Len(A) /\ o + p + i = o + (p + i) BY <1>2
  <2>2. f[o + (p + i)] = A[p + i] BY <2>1 DEF Has
  <2>3. A[p + i] = B[i] BY DEF Has
  <2> QED BY <2>1, <2>2, <2>3
<1> QED BY <1>1, <1>3 DEF Has

(* A number is the first or the second of a pair.                           *)
LEMMA Halving == ASSUME NEW p \in Int PROVE \E h \in Int : p = 2 * h - 1 \/ p = 2 * h
<1>1. p % 2 = 0 \/ p % 2 = 1 OBVIOUS
<1>2. PICK d \in Int : d = p \div 2 OBVIOUS
<1>3. p % 2 = 0 => p = 2 * d BY <1>2
<1>4. p % 2 = 1 => p = 2 * d + 1 BY <1>2
<1>5. PICK h \in Int : h = d + 1 OBVIOUS
<1>6. p = 2 * d \/ p = 2 * h - 1 BY <1>1, <1>3, <1>4, <1>5
<1> QED BY <1>6

(* The keys of chunk c, flattened, start after those of the chunks before.  *)
LEMMA FlatKeys ==
    ASSUME NEW K \in Seq(Seq(Pair))
    PROVE  LET x == FlattenSeq(FlattenSeq(K)) IN
           /\ x \in Seq(Int) /\ Len(x) = 2 * SumOf(Lens(K), Len(K))
           /\ \A c \in 1 .. Len(K) : Has(x, 2 * SumOf(Lens(K), c - 1), FlattenSeq(K[c]))
<1> DEFINE y == FlattenSeq(K)
           x == FlattenSeq(y)
<1>1. Len(K) \in Nat /\ DOMAIN K = 1 .. Len(K) /\ \A i \in 1 .. Len(K) : K[i] \in Seq(Pair)
  BY LenProperties, ElementOfSeq
<1>2. y \in Seq(Pair) /\ Flat(y, K, Len(K)) BY FlattenPlaces
<1>3. /\ x \in Seq(Int) /\ Len(x) = 2 * Len(y)
      /\ \A i \in 1 .. Len(y) : Has(x, 2 * (i - 1), y[i])
  BY <1>2, FlatPairs
<1> HIDE DEF x, y
<1>4. Len(y) = SumOf(Lens(K), Len(K)) /\ Len(y) \in Nat /\ Len(x) \in Nat
  BY <1>2, <1>3, LenProperties DEF Flat
<1>5. ASSUME NEW c \in 1 .. Len(K) PROVE Has(x, 2 * SumOf(Lens(K), c - 1), FlattenSeq(K[c]))
  <2>1. PICK k : k = K[c] OBVIOUS
  <2>2. k \in Seq(Pair) /\ Len(k) \in Nat BY <1>1, <2>1, LenProperties
  <2>3. PICK z : z = FlattenSeq(k) OBVIOUS
  <2>4. z \in Seq(Int) /\ Len(z) = 2 * Len(k) /\ \A i \in 1 .. Len(k) : Has(z, 2 * (i - 1), k[i])
    BY <2>2, <2>3, FlatPairs
  <2>5. PICK o \in Nat : o = SumOf(Lens(K), c - 1)
    <3>1. \A i \in 1 .. Len(K) : Lens(K)[i] \in Nat BY <1>1, LenProperties DEF Lens
    <3>2. c - 1 \in 0 .. Len(K) BY <1>1
    <3> QED BY <1>1, <3>1, <3>2, SumsRise
  <2>6. Has(y, o, k) BY <1>2, <2>1, <2>5 DEF Flat
  <2>7. o + Len(k) <= Len(y) /\ \A i \in 1 .. Len(k) : y[o + i] = k[i] BY <2>6 DEF Has
  <2>8. ASSUME NEW p \in 1 .. Len(z) PROVE x[2 * o + p] = z[p]
    <3>1. PICK i \in 1 .. Len(k), e \in 1 .. 2 : p = 2 * (i - 1) + e
      <4>1. p \in 1 .. 2 * Len(k) BY <2>4
      <4>2. PICK n \in Nat : n = Len(k) BY <2>2
      <4>3. PICK h \in Int : p = 2 * h - 1 \/ p = 2 * h
        <5>1. p \in Int BY <4>1
        <5> QED BY <5>1, Halving
      <4>4. h \in 1 .. n /\ h \in 1 .. Len(k) BY <4>1, <4>2, <4>3
      <4>5. PICK e \in 1 .. 2 : e = p - 2 * (h - 1) BY <4>1, <4>3
      <4>6. p = 2 * (h - 1) + e BY <4>1, <4>5
      <4> QED BY <4>4, <4>6
    <3>2. k[i] \in Pair BY <2>2, ElementOfSeq
    <3>3. Len(k[i]) = 2 BY <3>2, PairIsSeq
    <3>4. z[p] = k[i][e] BY <2>4, <3>1, <3>3 DEF Has
    <3>5. o + i \in 1 .. Len(y) /\ 2 * (o + i - 1) + e = 2 * o + p BY <1>4, <2>2, <2>7, <3>1
    <3>6. Has(x, 2 * (o + i - 1), y[o + i]) BY <1>3, <3>5
    <3>7. y[o + i] = k[i] BY <2>7
    <3>8. x[2 * (o + i - 1) + e] = k[i][e] BY <3>3, <3>6, <3>7 DEF Has
    <3> QED BY <3>4, <3>5, <3>8
  <2>9. 2 * o + Len(z) <= Len(x) BY <1>3, <1>4, <2>2, <2>4, <2>7
  <2>10. Has(x, 2 * o, z) BY <2>8, <2>9 DEF Has
  <2> QED BY <2>1, <2>3, <2>5, <2>10
<1> QED BY <1>3, <1>4, <1>5 DEF x, y

(* A function on 1 .. n is a sequence.                                      *)
LEMMA FcnSeq ==
    ASSUME NEW S, NEW n \in Nat, NEW g \in [1 .. n -> S]
    PROVE  g \in Seq(S) /\ Len(g) = n /\ DOMAIN g = 1 .. n
<1>1. DOMAIN g = 1 .. n OBVIOUS
<1>2. g \in Seq(S)
  <2>1. \E k \in Nat : g \in [1 .. k -> S] OBVIOUS
  <2> QED BY <2>1
<1>3. Len(g) \in Nat /\ DOMAIN g = 1 .. Len(g) BY <1>2, LenProperties
<1>4. Len(g) = n BY <1>1, <1>3
<1> QED BY <1>1, <1>2, <1>4

(* How many keys each row sees.                                             *)
Visibles(L) == [i \in DOMAIN L.rows |-> Len(L.rows[i].b)]

(* The types of what a layer holds.                                         *)
LEMMA LayerTyped ==
    ASSUME NEW L \in LayerSet
    PROVE  /\ L.rows \in Seq(RowSet) /\ L.keys \in Seq(Seq(Pair))
           /\ Len(L.rows) \in Nat /\ DOMAIN L.rows = 1 .. Len(L.rows)
           /\ Len(L.keys) \in Nat /\ DOMAIN L.keys = 1 .. Len(L.keys)
           /\ \A i \in 1 .. Len(L.rows) :
                 /\ L.rows[i] \in RowSet /\ L.rows[i].head \in Nat /\ L.rows[i].gqa \in Nat
                 /\ L.rows[i].token \in Nat /\ L.rows[i].chunk \in Nat /\ L.rows[i].q \in Pair
                 /\ L.rows[i].b \in Seq(Int) /\ Len(L.rows[i].b) \in Nat
                 /\ L.rows[i].s \in Seq(Int) /\ Len(L.rows[i].s) \in Nat
           /\ \A c \in 1 .. Len(L.keys) : L.keys[c] \in Seq(Pair) /\ Len(L.keys[c]) \in Nat
<1>1. L.rows \in Seq(RowSet) /\ L.keys \in Seq(Seq(Pair)) BY DEF LayerSet
<1>2. /\ Len(L.rows) \in Nat /\ DOMAIN L.rows = 1 .. Len(L.rows)
      /\ Len(L.keys) \in Nat /\ DOMAIN L.keys = 1 .. Len(L.keys)
  BY <1>1, LenProperties
<1>3. ASSUME NEW i \in 1 .. Len(L.rows)
      PROVE  /\ L.rows[i] \in RowSet /\ L.rows[i].head \in Nat /\ L.rows[i].gqa \in Nat
             /\ L.rows[i].token \in Nat /\ L.rows[i].chunk \in Nat /\ L.rows[i].q \in Pair
             /\ L.rows[i].b \in Seq(Int) /\ Len(L.rows[i].b) \in Nat
             /\ L.rows[i].s \in Seq(Int) /\ Len(L.rows[i].s) \in Nat
  <2>1. L.rows[i] \in RowSet BY <1>1, ElementOfSeq
  <2>2. L.rows[i].b \in Seq(Int) /\ L.rows[i].s \in Seq(Int) BY <2>1 DEF RowSet
  <2>3. Len(L.rows[i].b) \in Nat /\ Len(L.rows[i].s) \in Nat BY <2>2, LenProperties
  <2> QED BY <2>1, <2>2, <2>3 DEF RowSet
<1>4. ASSUME NEW c \in 1 .. Len(L.keys) PROVE L.keys[c] \in Seq(Pair) /\ Len(L.keys[c]) \in Nat
  BY <1>1, ElementOfSeq, LenProperties
<1> QED BY <1>1, <1>2, <1>3, <1>4

(* The types of the columns that flush writes.                              *)
LEMMA ColumnsTyped ==
    ASSUME NEW L \in LayerSet
    PROVE  /\ \A x \in {"head", "gqa", "token", "chunk"} :
                 Column(L.rows, x) \in Seq(Int) /\ Len(Column(L.rows, x)) = Len(L.rows)
           /\ Column(L.rows, "q") \in Seq(Pair) /\ Len(Column(L.rows, "q")) = Len(L.rows)
           /\ \A x \in {"b", "s"} :
                 Column(L.rows, x) \in Seq(Seq(Int)) /\ Len(Column(L.rows, x)) = Len(L.rows)
           /\ Visibles(L) \in Seq(Int) /\ Len(Visibles(L)) = Len(L.rows)
           /\ \A i \in 1 .. Len(L.rows) : Visibles(L)[i] = Len(L.rows[i].b) /\ Visibles(L)[i] \in Nat
           /\ Lens(L.keys) \in Seq(Int) /\ Len(Lens(L.keys)) = Len(L.keys)
           /\ \A c \in 1 .. Len(L.keys) : Lens(L.keys)[c] = Len(L.keys[c]) /\ Lens(L.keys)[c] \in Nat
           /\ \A x : \A i \in 1 .. Len(L.rows) : Column(L.rows, x)[i] = L.rows[i][x]
<1> USE LayerTyped
<1>1. Column(L.rows, "head") \in [1 .. Len(L.rows) -> Int] BY DEF Column
<1>2. Column(L.rows, "gqa") \in [1 .. Len(L.rows) -> Int] BY DEF Column
<1>3. Column(L.rows, "token") \in [1 .. Len(L.rows) -> Int] BY DEF Column
<1>4. Column(L.rows, "chunk") \in [1 .. Len(L.rows) -> Int] BY DEF Column
<1>5. Column(L.rows, "q") \in [1 .. Len(L.rows) -> Pair] BY DEF Column
<1>6. Column(L.rows, "b") \in [1 .. Len(L.rows) -> Seq(Int)] BY DEF Column
<1>7. Column(L.rows, "s") \in [1 .. Len(L.rows) -> Seq(Int)] BY DEF Column
<1>8. Visibles(L) \in [1 .. Len(L.rows) -> Int] BY DEF Visibles
<1>9. Lens(L.keys) \in [1 .. Len(L.keys) -> Int] BY DEF Lens
<1>10. \A i \in 1 .. Len(L.rows) : Visibles(L)[i] = Len(L.rows[i].b) BY DEF Visibles
<1>11. \A c \in 1 .. Len(L.keys) : Lens(L.keys)[c] = Len(L.keys[c]) BY DEF Lens
<1>12. \A x : \A i \in 1 .. Len(L.rows) : Column(L.rows, x)[i] = L.rows[i][x] BY DEF Column
<1>13. Len(L.rows) \in Nat /\ Len(L.keys) \in Nat OBVIOUS
<1>14. \A x \in {"head", "gqa", "token", "chunk"} :
          Column(L.rows, x) \in Seq(Int) /\ Len(Column(L.rows, x)) = Len(L.rows)
  BY <1>1, <1>2, <1>3, <1>4, <1>13, FcnSeq
<1>15. Column(L.rows, "q") \in Seq(Pair) /\ Len(Column(L.rows, "q")) = Len(L.rows)
  BY <1>5, <1>13, FcnSeq
<1>16. \A x \in {"b", "s"} : Column(L.rows, x) \in Seq(Seq(Int)) /\ Len(Column(L.rows, x)) = Len(L.rows)
  BY <1>6, <1>7, <1>13, FcnSeq
<1>17. Visibles(L) \in Seq(Int) /\ Len(Visibles(L)) = Len(L.rows) /\ Lens(L.keys) \in Seq(Int) /\ Len(Lens(L.keys)) = Len(L.keys)
  BY <1>8, <1>9, <1>13, FcnSeq
<1> QED BY <1>10, <1>11, <1>12, <1>14, <1>15, <1>16, <1>17

(* The logits of all rows, one after the other.                             *)
LEMMA FlatScores ==
    ASSUME NEW L, Whole(L), NEW x \in {"b", "s"}
    PROVE  LET y == FlattenSeq(Column(L.rows, x)) IN
           /\ y \in Seq(Int) /\ Len(y) = SumOf(Visibles(L), Len(L.rows))
           /\ \A i \in 1 .. Len(L.rows) : Has(y, SumOf(Visibles(L), i - 1), L.rows[i][x])
<1> DEFINE K == Column(L.rows, x)
           y == FlattenSeq(K)
<1>1. L \in LayerSet /\ RowsTrue(L) BY DEF Whole
<1>2. K \in Seq(Seq(Int)) /\ Len(K) = Len(L.rows) /\ \A i \in 1 .. Len(L.rows) : K[i] = L.rows[i][x]
  BY <1>1, ColumnsTyped
<1>3. DOMAIN K = 1 .. Len(L.rows) /\ DOMAIN L.rows = 1 .. Len(L.rows)
  BY <1>1, <1>2, LenProperties, LayerTyped
<1>4. \A i \in 1 .. Len(L.rows) : Len(L.rows[i][x]) = Len(L.rows[i].b)
  <2>1. \A i \in 1 .. Len(L.rows) : Len(L.rows[i].s) = Len(L.rows[i].b)
    BY <1>1 DEF RowsTrue, RowTrue
  <2>2. x = "b" \/ x = "s" OBVIOUS
  <2> QED BY <2>1, <2>2
<1>5. Lens(K) = Visibles(L)
  <2> HIDE DEF K
  <2> QED BY <1>2, <1>3, <1>4 DEF Lens, Visibles
<1>6. y \in Seq(Int) /\ Flat(y, K, Len(K)) BY <1>2, FlattenPlaces
<1> HIDE DEF y, K
<1>7. Len(y) = SumOf(Visibles(L), Len(L.rows)) BY <1>2, <1>5, <1>6 DEF Flat
<1>8. \A i \in 1 .. Len(L.rows) : Has(y, SumOf(Visibles(L), i - 1), L.rows[i][x])
  BY <1>2, <1>5, <1>6 DEF Flat
<1> QED BY <1>6, <1>7, <1>8 DEF y, K

HeaderOf(l, L) == <<MAGIC, VERSION, l, KeyGroups, Len(L.rows), Len(L.keys), L.key_dim, 0>>

(* The sections of the file of layer l, and where each one starts.          *)
LEMMA SectionList ==
    ASSUME NEW L, Whole(L), NEW l \in Nat
    PROVE  /\ Sections(l, L) \in Seq(Seq(Int)) /\ Len(Sections(l, L)) = 11
           /\ Sections(l, L)[1] = HeaderOf(l, L) /\ Sections(l, L)[2] = Lens(L.keys)
           /\ Sections(l, L)[3] = Column(L.rows, "head") /\ Sections(l, L)[4] = Column(L.rows, "gqa")
           /\ Sections(l, L)[5] = Column(L.rows, "token") /\ Sections(l, L)[6] = Visibles(L)
           /\ Sections(l, L)[7] = Column(L.rows, "chunk")
           /\ Sections(l, L)[8] = FlattenSeq(Column(L.rows, "q"))
           /\ Sections(l, L)[9] = FlattenSeq(Column(L.rows, "b"))
           /\ Sections(l, L)[10] = FlattenSeq(Column(L.rows, "s"))
           /\ Sections(l, L)[11] = FlattenSeq(FlattenSeq(L.keys))
<1>1. L \in LayerSet BY DEF Whole
<1>2. PICK a1 : a1 = HeaderOf(l, L) OBVIOUS
<1>3. PICK a2 : a2 = Lens(L.keys) OBVIOUS
<1>4. PICK a3 : a3 = Column(L.rows, "head") OBVIOUS
<1>5. PICK a4 : a4 = Column(L.rows, "gqa") OBVIOUS
<1>6. PICK a5 : a5 = Column(L.rows, "token") OBVIOUS
<1>7. PICK a6 : a6 = Visibles(L) OBVIOUS
<1>8. PICK a7 : a7 = Column(L.rows, "chunk") OBVIOUS
<1>9. PICK a8 : a8 = FlattenSeq(Column(L.rows, "q")) OBVIOUS
<1>10. PICK a9 : a9 = FlattenSeq(Column(L.rows, "b")) OBVIOUS
<1>11. PICK a10 : a10 = FlattenSeq(Column(L.rows, "s")) OBVIOUS
<1>12. PICK a11 : a11 = FlattenSeq(FlattenSeq(L.keys)) OBVIOUS
<1>13. Sections(l, L) = <<a1, a2, a3, a4, a5, a6, a7, a8, a9, a10, a11>>
  BY <1>2, <1>3, <1>4, <1>5, <1>6, <1>7, <1>8, <1>9, <1>10, <1>11, <1>12
  DEF Sections, HeaderOf, Lens, Visibles
<1>14. a1 \in Seq(Int)
  <2>1. Len(L.rows) \in Int /\ Len(L.keys) \in Int /\ L.key_dim \in Int /\ l \in Int
    BY <1>1, LayerTyped DEF LayerSet
  <2> QED BY <1>2, <2>1 DEF HeaderOf, MAGIC, VERSION, KeyGroups
<1>15. a2 \in Seq(Int) /\ a3 \in Seq(Int) /\ a4 \in Seq(Int) /\ a5 \in Seq(Int) /\ a6 \in Seq(Int) /\ a7 \in Seq(Int)
  BY <1>1, <1>3, <1>4, <1>5, <1>6, <1>7, <1>8, ColumnsTyped
<1>16. a8 \in Seq(Int) BY <1>1, <1>9, ColumnsTyped, FlatPairs
<1>17. a9 \in Seq(Int) /\ a10 \in Seq(Int) BY <1>10, <1>11, FlatScores
<1>18. a11 \in Seq(Int) BY <1>1, <1>12, LayerTyped, FlatKeys
<1>19. /\ <<a1, a2, a3, a4, a5, a6, a7, a8, a9, a10, a11>> \in Seq(Seq(Int))
       /\ Len(<<a1, a2, a3, a4, a5, a6, a7, a8, a9, a10, a11>>) = 11
  <2>1. PICK X : X = Seq(Int) OBVIOUS
  <2>2. /\ a1 \in X /\ a2 \in X /\ a3 \in X /\ a4 \in X /\ a5 \in X /\ a6 \in X /\ a7 \in X /\ a8 \in X
        /\ a9 \in X /\ a10 \in X /\ a11 \in X
    BY <1>14, <1>15, <1>16, <1>17, <1>18, <2>1
  <2>3. <<a1, a2, a3, a4, a5, a6, a7, a8, a9, a10, a11>> \in Seq(X) BY <2>2
  <2> QED BY <2>1, <2>3
<1> QED BY <1>2, <1>3, <1>4, <1>5, <1>6, <1>7, <1>8, <1>9, <1>10, <1>11, <1>12, <1>13, <1>19

(* The file, by the places of its sections: n rows, k chunks, v logits in   *)
(* each column, w key rows.                                                 *)
Plan(f, l, L, n, k, v, w) ==
    /\ f \in Seq(Int) /\ Len(f) = 8 + k + 7 * n + 2 * v + 2 * w
    /\ Has(f, 0, HeaderOf(l, L)) /\ Has(f, 8, Lens(L.keys))
    /\ Has(f, 8 + k, Column(L.rows, "head")) /\ Has(f, 8 + k + n, Column(L.rows, "gqa"))
    /\ Has(f, 8 + k + 2 * n, Column(L.rows, "token")) /\ Has(f, 8 + k + 3 * n, Visibles(L))
    /\ Has(f, 8 + k + 4 * n, Column(L.rows, "chunk"))
    /\ Has(f, 8 + k + 5 * n, FlattenSeq(Column(L.rows, "q")))
    /\ Has(f, 8 + k + 7 * n, FlattenSeq(Column(L.rows, "b")))
    /\ Has(f, 8 + k + 7 * n + v, FlattenSeq(Column(L.rows, "s")))
    /\ Has(f, 8 + k + 7 * n + 2 * v, FlattenSeq(FlattenSeq(L.keys)))

(* Where sections end.                                                      *)
LEMMA Offsets ==
    ASSUME NEW n \in Nat, NEW k \in Nat, NEW v \in Nat
    PROVE  /\ 8 + k + n + n = 8 + k + 2 * n
           /\ 8 + k + 2 * n + n = 8 + k + 3 * n
           /\ 8 + k + 3 * n + n = 8 + k + 4 * n
           /\ 8 + k + 4 * n + n = 8 + k + 5 * n
           /\ 8 + k + 5 * n + 2 * n = 8 + k + 7 * n
           /\ 8 + k + 7 * n + v = 8 + k + 7 * n + v
           /\ 8 + k + 7 * n + v + v = 8 + k + 7 * n + 2 * v
  OBVIOUS

(* The file that flush writes follows the plan.                             *)
LEMMA FilePlan ==
    ASSUME NEW L, Whole(L), NEW l \in Nat, NEW n, NEW k, NEW v, NEW w,
           n = Len(L.rows), k = Len(L.keys), v = SumOf(Visibles(L), n), w = SumOf(Lens(L.keys), k)
    PROVE  /\ Plan(Serialised(l, L), l, L, n, k, v, w)
           /\ n \in Nat /\ k \in Nat /\ v \in Nat /\ w \in Nat
<1>1. L \in LayerSet BY DEF Whole
<1>2. n \in Nat /\ k \in Nat BY <1>1, LayerTyped
<1>3. v \in Nat /\ w \in Nat
  <2>1. \A i \in 1 .. n : Visibles(L)[i] \in Nat BY <1>1, ColumnsTyped
  <2>2. \A i \in 1 .. k : Lens(L.keys)[i] \in Nat BY <1>1, ColumnsTyped
  <2>3. n \in 0 .. n /\ k \in 0 .. k BY <1>2
  <2> QED BY <1>2, <2>1, <2>2, <2>3, SumsRise
<1>4. PICK T : T = Sections(l, L) OBVIOUS
<1>5. PICK f : f = Serialised(l, L) OBVIOUS
<1>6. T \in Seq(Seq(Int)) /\ Len(T) = 11 BY <1>4, SectionList
<1>7. f \in Seq(Int) /\ Flat(f, T, 11)
  BY <1>4, <1>5, <1>6, FlattenPlaces DEF Serialised
<1>8. /\ Len(T[1]) = 8 /\ Len(T[2]) = k /\ Len(T[3]) = n /\ Len(T[4]) = n /\ Len(T[5]) = n
      /\ Len(T[6]) = n /\ Len(T[7]) = n /\ Len(T[8]) = 2 * n /\ Len(T[9]) = v /\ Len(T[10]) = v
      /\ Len(T[11]) = 2 * w
  <2>1. Len(HeaderOf(l, L)) = 8 BY DEF HeaderOf
  <2>2. Len(FlattenSeq(Column(L.rows, "q"))) = 2 * n BY <1>1, ColumnsTyped, FlatPairs
  <2>3. Len(FlattenSeq(Column(L.rows, "b"))) = v /\ Len(FlattenSeq(Column(L.rows, "s"))) = v
    BY FlatScores
  <2>4. Len(FlattenSeq(FlattenSeq(L.keys))) = 2 * w BY <1>1, LayerTyped, FlatKeys
  <2>5. /\ Len(Column(L.rows, "head")) = n /\ Len(Column(L.rows, "gqa")) = n /\ Len(Column(L.rows, "token")) = n
        /\ Len(Column(L.rows, "chunk")) = n /\ Len(Visibles(L)) = n /\ Len(Lens(L.keys)) = k
    BY <1>1, ColumnsTyped
  <2>6. /\ T[1] = HeaderOf(l, L) /\ T[2] = Lens(L.keys) /\ T[3] = Column(L.rows, "head")
        /\ T[4] = Column(L.rows, "gqa") /\ T[5] = Column(L.rows, "token") /\ T[6] = Visibles(L)
        /\ T[7] = Column(L.rows, "chunk") /\ T[8] = FlattenSeq(Column(L.rows, "q"))
        /\ T[9] = FlattenSeq(Column(L.rows, "b")) /\ T[10] = FlattenSeq(Column(L.rows, "s"))
        /\ T[11] = FlattenSeq(FlattenSeq(L.keys))
    BY <1>4, SectionList
  <2> QED BY <2>1, <2>2, <2>3, <2>4, <2>5, <2>6
<1>9. PICK c : c = Lens(T) OBVIOUS
<1>10. /\ c[1] = 8 /\ c[2] = k /\ c[3] = n /\ c[4] = n /\ c[5] = n /\ c[6] = n /\ c[7] = n
       /\ c[8] = 2 * n /\ c[9] = v /\ c[10] = v /\ c[11] = 2 * w
  <2>1. DOMAIN T = 1 .. 11 BY <1>6, LenProperties
  <2>2. \A i \in 1 .. 11 : c[i] = Len(T[i]) BY <1>9, <2>1 DEF Lens
  <2>3. /\ c[1] = Len(T[1]) /\ c[2] = Len(T[2]) /\ c[3] = Len(T[3]) /\ c[4] = Len(T[4])
        /\ c[5] = Len(T[5]) /\ c[6] = Len(T[6]) /\ c[7] = Len(T[7]) /\ c[8] = Len(T[8])
        /\ c[9] = Len(T[9]) /\ c[10] = Len(T[10]) /\ c[11] = Len(T[11])
    BY <2>2
  <2> QED BY <1>8, <2>3
<1>11. \A i \in 1 .. 11 : c[i] \in Nat
  <2>1. \A i \in 1 .. 11 : i = 1 \/ i = 2 \/ i = 3 \/ i = 4 \/ i = 5 \/ i = 6 \/ i = 7 \/ i = 8 \/ i = 9 \/ i = 10 \/ i = 11
    OBVIOUS
  <2>2. 8 \in Nat /\ 2 * n \in Nat /\ 2 * w \in Nat BY <1>2, <1>3
  <2>3. /\ c[1] \in Nat /\ c[2] \in Nat /\ c[3] \in Nat /\ c[4] \in Nat /\ c[5] \in Nat /\ c[6] \in Nat
        /\ c[7] \in Nat /\ c[8] \in Nat /\ c[9] \in Nat /\ c[10] \in Nat /\ c[11] \in Nat
    BY <1>2, <1>3, <1>10, <2>2
  <2> QED BY <2>1, <2>3
<1>12. ASSUME NEW m \in 0 .. 10, NEW p, p = m + 1 PROVE SumOf(c, p) = SumOf(c, m) + c[p]
  <2>1. \A i \in 1 .. m + 1 : i \in 1 .. 11 OBVIOUS
  <2>2. \A i \in 1 .. m + 1 : c[i] \in Nat BY <1>11, <2>1
  <2>3. m \in Nat OBVIOUS
  <2> QED BY <1>12, <2>2, <2>3, SumStep
<1>13. SumOf(c, 0) = 0 BY SumNone
<1>14. SumOf(c, 1) = 8
  <2>1. SumOf(c, 1) = SumOf(c, 0) + c[1] BY <1>12
  <2> QED BY <1>10, <1>13, <2>1
<1>15. SumOf(c, 2) = 8 + k
  <2>1. SumOf(c, 2) = SumOf(c, 1) + c[2] BY <1>12
  <2>2. c[2] = k BY <1>10
  <2> QED BY <1>2, <1>3, <1>14, <2>1, <2>2
<1>16. SumOf(c, 3) = 8 + k + n
  <2>1. SumOf(c, 3) = SumOf(c, 2) + c[3] BY <1>12
  <2>2. c[3] = n BY <1>10
  <2> QED BY <1>2, <1>3, <1>15, <2>1, <2>2
<1>17. SumOf(c, 4) = 8 + k + 2 * n
  <2>1. SumOf(c, 4) = SumOf(c, 3) + c[4] BY <1>12
  <2>2. c[4] = n BY <1>10
  <2>3. 8 + k + n + n = 8 + k + 2 * n BY <1>2, <1>3, Offsets
  <2> QED BY <1>16, <2>1, <2>2, <2>3
<1>18. SumOf(c, 5) = 8 + k + 3 * n
  <2>1. SumOf(c, 5) = SumOf(c, 4) + c[5] BY <1>12
  <2>2. c[5] = n BY <1>10
  <2>3. 8 + k + 2 * n + n = 8 + k + 3 * n BY <1>2, <1>3, Offsets
  <2> QED BY <1>17, <2>1, <2>2, <2>3
<1>19. SumOf(c, 6) = 8 + k + 4 * n
  <2>1. SumOf(c, 6) = SumOf(c, 5) + c[6] BY <1>12
  <2>2. c[6] = n BY <1>10
  <2>3. 8 + k + 3 * n + n = 8 + k + 4 * n BY <1>2, <1>3, Offsets
  <2> QED BY <1>18, <2>1, <2>2, <2>3
<1>20. SumOf(c, 7) = 8 + k + 5 * n
  <2>1. SumOf(c, 7) = SumOf(c, 6) + c[7] BY <1>12
  <2>2. c[7] = n BY <1>10
  <2>3. 8 + k + 4 * n + n = 8 + k + 5 * n BY <1>2, <1>3, Offsets
  <2> QED BY <1>19, <2>1, <2>2, <2>3
<1>21. SumOf(c, 8) = 8 + k + 7 * n
  <2>1. SumOf(c, 8) = SumOf(c, 7) + c[8] BY <1>12
  <2>2. c[8] = 2 * n BY <1>10
  <2>3. 8 + k + 5 * n + 2 * n = 8 + k + 7 * n BY <1>2, <1>3, Offsets
  <2> QED BY <1>20, <2>1, <2>2, <2>3
<1>22. SumOf(c, 9) = 8 + k + 7 * n + v
  <2>1. SumOf(c, 9) = SumOf(c, 8) + c[9] BY <1>12
  <2>2. c[9] = v BY <1>10
  <2>3. 8 + k + 7 * n + v = 8 + k + 7 * n + v BY <1>2, <1>3, Offsets
  <2> QED BY <1>21, <2>1, <2>2, <2>3
<1>23. SumOf(c, 10) = 8 + k + 7 * n + 2 * v
  <2>1. SumOf(c, 10) = SumOf(c, 9) + c[10] BY <1>12
  <2>2. c[10] = v BY <1>10
  <2>3. PICK y \in Nat : y = v BY <1>3
  <2>4. 8 + k + 7 * n + y + y = 8 + k + 7 * n + 2 * y BY <1>2, Offsets
  <2> QED BY <1>22, <2>1, <2>2, <2>3, <2>4
<1>24. SumOf(c, 11) = 8 + k + 7 * n + 2 * v + 2 * w
  <2>1. SumOf(c, 11) = SumOf(c, 10) + c[11] BY <1>12
  <2>2. c[11] = 2 * w BY <1>10
  <2> QED BY <1>2, <1>3, <1>23, <2>1, <2>2
<1>25. Len(f) = SumOf(c, 11) /\ \A i \in 1 .. 11 : Has(f, SumOf(c, i - 1), T[i])
  BY <1>7, <1>9 DEF Flat
<1>26. /\ Has(f, SumOf(c, 0), T[1]) /\ Has(f, SumOf(c, 1), T[2]) /\ Has(f, SumOf(c, 2), T[3])
       /\ Has(f, SumOf(c, 3), T[4]) /\ Has(f, SumOf(c, 4), T[5]) /\ Has(f, SumOf(c, 5), T[6])
       /\ Has(f, SumOf(c, 6), T[7]) /\ Has(f, SumOf(c, 7), T[8]) /\ Has(f, SumOf(c, 8), T[9])
       /\ Has(f, SumOf(c, 9), T[10]) /\ Has(f, SumOf(c, 10), T[11])
  BY <1>25
<1>27. Plan(f, l, L, n, k, v, w)
  BY <1>4, <1>7, <1>13, <1>14, <1>15, <1>16, <1>17, <1>18, <1>19, <1>20, <1>21, <1>22, <1>23, <1>24,
     <1>25, <1>26, SectionList DEF Plan
<1> QED BY <1>2, <1>3, <1>5, <1>27

(* What the reader computes from the header of such a file.                 *)
Header(f, l, n, k) ==
    f[1] = MAGIC /\ f[2] = VERSION /\ f[3] = l /\ f[4] = 2 /\ f[5] = n /\ f[6] = k /\ f[7] = 2

(* Its header says so.                                                      *)
LEMMA HeaderRead ==
    ASSUME NEW L, Whole(L), NEW l \in Nat, NEW f, NEW n, NEW k, NEW v, NEW w,
           n = Len(L.rows), k = Len(L.keys), Plan(f, l, L, n, k, v, w)
    PROVE  Header(f, l, n, k)
<1>1. PICK h : h = HeaderOf(l, L) OBVIOUS
<1>2. Len(h) = 8 /\ h[1] = MAGIC /\ h[2] = VERSION /\ h[3] = l /\ h[4] = 2 /\ h[5] = n /\ h[6] = k /\ h[7] = 2
  BY <1>1 DEF HeaderOf, KeyGroups, Whole
<1>3. \A i \in 1 .. 8 : f[0 + i] = h[i] BY <1>1, <1>2 DEF Plan, Has
<1>4. \A i \in 1 .. 8 : 0 + i = i OBVIOUS
<1>5. \A i \in 1 .. 8 : f[i] = h[i] BY <1>3, <1>4
<1>6. f[1] = h[1] /\ f[2] = h[2] /\ f[3] = h[3] /\ f[4] = h[4] /\ f[5] = h[5] /\ f[6] = h[6] /\ f[7] = h[7]
  BY <1>5
<1> QED BY <1>2, <1>6 DEF Header

(* HasSlice for numbers, with the length named.                             *)
LEMMA PlainSlice ==
    ASSUME NEW f \in Seq(Int), NEW A \in Seq(Int), NEW o \in Nat, NEW n \in Nat, Len(A) = n, Has(f, o, A)
    PROVE  SubSeq(f, o + 1, o + n) = A
  BY HasSlice

(* The sections that the reader finds are the ones that were written.       *)
Found(f, L, n, k, v) ==
    /\ KeyRows(f) = Lens(L.keys)
    /\ MetaSection(f, 1) = Column(L.rows, "head") /\ MetaSection(f, 2) = Column(L.rows, "gqa")
    /\ MetaSection(f, 3) = Column(L.rows, "token") /\ MetaSection(f, 4) = Visibles(L)
    /\ MetaSection(f, 5) = Column(L.rows, "chunk")
    /\ MetaEnd(f) = 8 + k + 5 * n /\ QueriesEnd(f) = 8 + k + 7 * n /\ ScoreCount(f) = v
    /\ \A c \in 0 .. k : KeyStart(f, c) = 8 + k + 7 * n + 2 * v + 2 * SumOf(Lens(L.keys), c)

(* The reader cuts the m-th column of the metadata at the right place.      *)
LEMMA SectionAt ==
    ASSUME NEW f \in Seq(Int), NEW n \in Nat, NEW k \in Nat, NEW m \in 1 .. 5, NEW A \in Seq(Int),
           Len(A) = n, f[5] = n, f[6] = k, NEW o \in Nat, o = 8 + k + (m - 1) * n, Has(f, o, A)
    PROVE  MetaSection(f, m) = A
<1>1. SubSeq(f, o + 1, o + n) = A BY PlainSlice
<1>2. 8 + k + m * n = o + n
  <2>1. m = 1 \/ m = 2 \/ m = 3 \/ m = 4 \/ m = 5 OBVIOUS
  <2>2. m = 1 => o = 8 + k /\ m * n = n OBVIOUS
  <2>3. m = 2 => o = 8 + k + n /\ m * n = 2 * n OBVIOUS
  <2>4. m = 3 => o = 8 + k + 2 * n /\ m * n = 3 * n OBVIOUS
  <2>5. m = 4 => o = 8 + k + 3 * n /\ m * n = 4 * n OBVIOUS
  <2>6. m = 5 => o = 8 + k + 4 * n /\ m * n = 5 * n OBVIOUS
  <2> QED BY <2>1, <2>2, <2>3, <2>4, <2>5, <2>6
<1> QED BY <1>1, <1>2 DEF MetaSection, HEADER

(* The numbers of rows, chunks and logits of a layer.                       *)
Sized(L, n, k, v) == n = Len(L.rows) /\ k = Len(L.keys) /\ v = SumOf(Visibles(L), n)

(* Where the columns start, as the reader computes it.                      *)
LEMMA Places ==
    ASSUME NEW n \in Nat, NEW k \in Nat
    PROVE  /\ 8 + k = 8 + k + (1 - 1) * n /\ 8 + k + n = 8 + k + (2 - 1) * n
           /\ 8 + k + 2 * n = 8 + k + (3 - 1) * n /\ 8 + k + 3 * n = 8 + k + (4 - 1) * n
           /\ 8 + k + 4 * n = 8 + k + (5 - 1) * n /\ 8 + k + 5 * n + n * 2 = 8 + k + 7 * n
           /\ 8 + k \in Nat /\ 8 + k + n \in Nat /\ 8 + k + 2 * n \in Nat
           /\ 8 + k + 3 * n \in Nat /\ 8 + k + 4 * n \in Nat /\ 8 + k + 5 * n \in Nat
           /\ 8 + k + 7 * n \in Nat
  OBVIOUS

(* The reader finds every section.                                          *)
LEMMA SectionsFound ==
    ASSUME NEW L, Whole(L), NEW l \in Nat, NEW f, NEW n \in Nat, NEW k \in Nat, NEW v \in Nat, NEW w \in Nat,
           Sized(L, n, k, v), Plan(f, l, L, n, k, v, w)
    PROVE  Found(f, L, n, k, v)
<1>1. L \in LayerSet BY DEF Whole
<1>2. f \in Seq(Int) BY DEF Plan
<1>3. f[4] = 2 /\ f[5] = n /\ f[6] = k /\ f[7] = 2 BY HeaderRead DEF Header, Sized
<1>5. /\ \A x \in {"head", "gqa", "token", "chunk"} :
            Column(L.rows, x) \in Seq(Int) /\ Len(Column(L.rows, x)) = n
      /\ Visibles(L) \in Seq(Int) /\ Len(Visibles(L)) = n
      /\ Lens(L.keys) \in Seq(Int) /\ Len(Lens(L.keys)) = k
  BY <1>1, ColumnsTyped DEF Sized
<1>4. KeyRows(f) = Lens(L.keys)
  <2>1. Has(f, 8, Lens(L.keys)) /\ 8 \in Nat BY DEF Plan
  <2>2. SubSeq(f, 8 + 1, 8 + k) = Lens(L.keys) BY <1>2, <1>5, <2>1, PlainSlice
  <2> QED BY <1>3, <2>2 DEF KeyRows, HEADER
<1>6. MetaSection(f, 1) = Column(L.rows, "head")
  <2>1. PICK o \in Nat : o = 8 + k BY Places
  <2>2. o = 8 + k + (1 - 1) * n BY <2>1, Places
  <2>3. Has(f, o, Column(L.rows, "head")) BY <2>1 DEF Plan
  <2>4. Column(L.rows, "head") \in Seq(Int) /\ Len(Column(L.rows, "head")) = n /\ 1 \in 1 .. 5 BY <1>5
  <2> QED BY <1>2, <1>3, <2>2, <2>3, <2>4, SectionAt
<1>7. MetaSection(f, 2) = Column(L.rows, "gqa")
  <2>1. PICK o \in Nat : o = 8 + k + n BY Places
  <2>2. o = 8 + k + (2 - 1) * n BY <2>1, Places
  <2>3. Has(f, o, Column(L.rows, "gqa")) BY <2>1 DEF Plan
  <2>4. Column(L.rows, "gqa") \in Seq(Int) /\ Len(Column(L.rows, "gqa")) = n /\ 2 \in 1 .. 5 BY <1>5
  <2> QED BY <1>2, <1>3, <2>2, <2>3, <2>4, SectionAt
<1>8. MetaSection(f, 3) = Column(L.rows, "token")
  <2>1. PICK o \in Nat : o = 8 + k + 2 * n BY Places
  <2>2. o = 8 + k + (3 - 1) * n BY <2>1, Places
  <2>3. Has(f, o, Column(L.rows, "token")) BY <2>1 DEF Plan
  <2>4. Column(L.rows, "token") \in Seq(Int) /\ Len(Column(L.rows, "token")) = n /\ 3 \in 1 .. 5 BY <1>5
  <2> QED BY <1>2, <1>3, <2>2, <2>3, <2>4, SectionAt
<1>9. MetaSection(f, 4) = Visibles(L)
  <2>1. PICK o \in Nat : o = 8 + k + 3 * n BY Places
  <2>2. o = 8 + k + (4 - 1) * n BY <2>1, Places
  <2>3. Has(f, o, Visibles(L)) BY <2>1 DEF Plan
  <2>4. Visibles(L) \in Seq(Int) /\ Len(Visibles(L)) = n /\ 4 \in 1 .. 5 BY <1>5
  <2> QED BY <1>2, <1>3, <2>2, <2>3, <2>4, SectionAt
<1>10. MetaSection(f, 5) = Column(L.rows, "chunk")
  <2>1. PICK o \in Nat : o = 8 + k + 4 * n BY Places
  <2>2. o = 8 + k + (5 - 1) * n BY <2>1, Places
  <2>3. Has(f, o, Column(L.rows, "chunk")) BY <2>1 DEF Plan
  <2>4. Column(L.rows, "chunk") \in Seq(Int) /\ Len(Column(L.rows, "chunk")) = n /\ 5 \in 1 .. 5 BY <1>5
  <2> QED BY <1>2, <1>3, <2>2, <2>3, <2>4, SectionAt
<1>11. MetaEnd(f) = 8 + k + 5 * n BY <1>3 DEF MetaEnd, HEADER
<1>12. QueriesEnd(f) = 8 + k + 7 * n BY <1>3, <1>11, Places DEF QueriesEnd
<1>13. ScoreCount(f) = v BY <1>3, <1>9 DEF ScoreCount, Sized
<1>14. ASSUME NEW c \in 0 .. k PROVE KeyStart(f, c) = 8 + k + 7 * n + 2 * v + 2 * SumOf(Lens(L.keys), c)
  <2>1. SumOf(Lens(L.keys), c) \in Nat
    <3>1. \A i \in 1 .. k : Lens(L.keys)[i] \in Nat BY <1>1, ColumnsTyped DEF Sized
    <3> QED BY <3>1, SumsRise
  <2>2. PICK z \in Nat : z = SumOf(Lens(L.keys), c) BY <2>1
  <2>3. KeyStart(f, c) = 8 + k + 7 * n + 2 * v + z * 2 BY <1>3, <1>4, <1>12, <1>13, <2>2 DEF KeyStart
  <2>4. z * 2 = 2 * z OBVIOUS
  <2> QED BY <2>2, <2>3, <2>4
<1> QED BY <1>4, <1>6, <1>7, <1>8, <1>9, <1>10, <1>11, <1>12, <1>13, <1>14 DEF Found

(* What the reader makes of the file of layer l.                            *)
Decoded(l, L) ==
    [ok |-> TRUE, layer |-> l, rows |-> Len(L.rows), q_dim |-> 2, key_dim |-> 2,
     heads |-> Column(L.rows, "head"), groups |-> Column(L.rows, "gqa"),
     tokens |-> Column(L.rows, "token"), n_visible |-> Visibles(L), chunks |-> Column(L.rows, "chunk"),
     starts |-> [i \in 1 .. Len(L.rows) + 1 |-> SumOf(Visibles(L), i - 1)],
     q |-> FlattenSeq(Column(L.rows, "q")), baseline |-> FlattenSeq(Column(L.rows, "b")),
     control |-> FlattenSeq(Column(L.rows, "s")),
     keys |-> [c \in 1 .. Len(L.keys) |-> FlattenSeq(L.keys[c])]]

(* Where the payload ends.                                                  *)
LEMMA Ends ==
    ASSUME NEW n \in Nat, NEW k \in Nat, NEW v \in Nat, NEW w \in Nat
    PROVE  /\ 8 + k + 5 * n + 2 * n = 8 + k + 7 * n
           /\ 8 + k + 7 * n + v \in Nat /\ 8 + k + 7 * n + 2 * v \in Nat
           /\ (8 + k + 7 * n + v) + v = 8 + k + 7 * n + 2 * v
           /\ ~(8 + k + 7 * n + 2 * v + 2 * w < 8) /\ ~(8 + k + 7 * n + 2 * v + 2 * w < 8 + k + 5 * n)
  OBVIOUS

(* Where the keys of a chunk end.                                           *)
LEMMA ChunkEnds ==
    ASSUME NEW o \in Nat, NEW a \in Nat, NEW m \in Nat, NEW b, b = a + m
    PROVE  (o + 2 * a) + 2 * m = o + 2 * b /\ o + 2 * a \in Nat /\ 2 * m \in Nat /\ 2 * a \in Nat
  OBVIOUS

(* The chunks of keys, as the reader cuts them.                             *)
LEMMA ChunkRead ==
    ASSUME NEW L, Whole(L), NEW f \in Seq(Int), NEW k \in Nat, k = Len(L.keys), NEW o \in Nat,
           Has(f, o, FlattenSeq(FlattenSeq(L.keys))), NEW c \in 1 .. k
    PROVE  SubSeq(f, (o + 2 * SumOf(Lens(L.keys), c - 1)) + 1, o + 2 * SumOf(Lens(L.keys), c))
               = FlattenSeq(L.keys[c])
<1>1. L.keys \in Seq(Seq(Pair)) /\ L.keys[c] \in Seq(Pair) /\ Len(L.keys[c]) \in Nat
  BY LayerTyped DEF Whole
<1>2. \A i \in 1 .. k : Lens(L.keys)[i] = Len(L.keys[i]) /\ Lens(L.keys)[i] \in Nat
  BY ColumnsTyped DEF Whole
<1>3. PICK y : y = FlattenSeq(FlattenSeq(L.keys)) OBVIOUS
<1>4. y \in Seq(Int) /\ Has(y, 2 * SumOf(Lens(L.keys), c - 1), FlattenSeq(L.keys[c]))
  BY <1>1, <1>3, FlatKeys
<1>5. PICK z : z = FlattenSeq(L.keys[c]) OBVIOUS
<1>6. z \in Seq(Int) /\ Len(z) = 2 * Len(L.keys[c]) BY <1>1, <1>5, FlatPairs
<1>7. PICK m \in Nat : c = m + 1 OBVIOUS
<1>8. c - 1 = m /\ \A i \in 1 .. m + 1 : i \in 1 .. k BY <1>7
<1>9. /\ SumOf(Lens(L.keys), m + 1) = SumOf(Lens(L.keys), m) + Lens(L.keys)[m + 1]
      /\ SumOf(Lens(L.keys), m) \in Nat /\ SumOf(Lens(L.keys), m + 1) \in Nat
  BY <1>2, <1>8, SumStep
<1>10. PICK a \in Nat, b \in Nat : a = SumOf(Lens(L.keys), m) /\ b = SumOf(Lens(L.keys), c) /\ b = a + Len(L.keys[c])
  BY <1>2, <1>7, <1>9
<1>11. PICK e \in Nat : e = Len(L.keys[c]) BY <1>1
<1>12. (o + 2 * a) + 2 * e = o + 2 * b /\ o + 2 * a \in Nat /\ 2 * e \in Nat /\ 2 * a \in Nat
  <2>1. b = a + e BY <1>10, <1>11
  <2> QED BY <2>1, ChunkEnds
<1>13. Has(f, o + 2 * a, z)
  <2>1. Has(f, o, y) BY <1>3
  <2>2. Has(y, 2 * a, z) BY <1>4, <1>5, <1>8, <1>10
  <2> QED BY <1>4, <1>6, <1>12, <2>1, <2>2, HasDeep
<1>14. Len(z) = 2 * e BY <1>6, <1>11
<1>15. SubSeq(f, (o + 2 * a) + 1, (o + 2 * a) + 2 * e) = z
  BY <1>6, <1>12, <1>13, <1>14, PlainSlice
<1> QED BY <1>5, <1>8, <1>10, <1>12, <1>15

(* The reader accepts the file and gets what was written.                   *)
LEMMA Parsed ==
    ASSUME NEW L, Whole(L), NEW l \in Nat
    PROVE  /\ parse_layer(Serialised(l, L)) = Decoded(l, L) /\ Serialised(l, L) # Missing
<1>1. L \in LayerSet /\ RowsTrue(L) BY DEF Whole
<1>2. PICK f : f = Serialised(l, L) OBVIOUS
<1>3. PICK n, k, v, w : /\ n = Len(L.rows) /\ k = Len(L.keys) /\ v = SumOf(Visibles(L), n)
                        /\ w = SumOf(Lens(L.keys), k)
  OBVIOUS
<1>4. Plan(f, l, L, n, k, v, w) /\ n \in Nat /\ k \in Nat /\ v \in Nat /\ w \in Nat
  BY <1>2, <1>3, FilePlan
<1>5. Sized(L, n, k, v) BY <1>3 DEF Sized
<1>6. Found(f, L, n, k, v) BY <1>4, <1>5, SectionsFound
<1>7. Header(f, l, n, k) BY <1>3, <1>4, HeaderRead
<1>8. f \in Seq(Int) /\ Len(f) = 8 + k + 7 * n + 2 * v + 2 * w BY <1>4 DEF Plan
<1>9. ~(Len(f) < HEADER) /\ ~(Len(f) < MetaEnd(f)) BY <1>4, <1>6, <1>8, Ends DEF Found, HEADER
<1>10. n # 0 /\ k # 0
  <2>1. L.rows # <<>> BY DEF Whole
  <2>2. n # 0 BY <1>1, <1>3, <2>1, LayerTyped, EmptySeq
  <2>3. 1 \in 1 .. n BY <1>4, <2>2
  <2>4. L.rows[1].chunk + 1 \in 1 .. k BY <1>1, <1>3, <2>3 DEF RowsTrue, RowTrue
  <2> QED BY <2>2, <2>4
<1>11. \A i \in 1 .. n :
          /\ ~(Visibles(L)[i] <= 0) /\ Column(L.rows, "chunk")[i] \in 0 .. k - 1
          /\ ~(Visibles(L)[i] > Lens(L.keys)[Column(L.rows, "chunk")[i] + 1])
  <2> SUFFICES ASSUME NEW i \in 1 .. n
               PROVE  /\ ~(Visibles(L)[i] <= 0) /\ Column(L.rows, "chunk")[i] \in 0 .. k - 1
                      /\ ~(Visibles(L)[i] > Lens(L.keys)[Column(L.rows, "chunk")[i] + 1])
    OBVIOUS
  <2>1. Visibles(L)[i] = Len(L.rows[i].b) /\ Column(L.rows, "chunk")[i] = L.rows[i].chunk
    BY <1>1, <1>3, ColumnsTyped
  <2>2. L.rows[i].chunk \in Nat /\ Len(L.rows[i].b) \in Nat BY <1>1, <1>3, LayerTyped
  <2>3. /\ L.rows[i].chunk + 1 \in 1 .. k /\ Len(L.rows[i].b) >= 1
        /\ Len(L.rows[i].b) <= Len(L.keys[L.rows[i].chunk + 1])
    BY <1>1, <1>3 DEF RowsTrue, RowTrue
  <2>4. Lens(L.keys)[L.rows[i].chunk + 1] = Len(L.keys[L.rows[i].chunk + 1]) /\ Len(L.keys[L.rows[i].chunk + 1]) \in Nat
    BY <1>1, <1>3, <2>3, ColumnsTyped, LayerTyped
  <2>5. PICK a \in Nat, b \in Nat, c \in Nat : /\ a = Len(L.rows[i].b) /\ b = L.rows[i].chunk
                                           /\ c = Len(L.keys[L.rows[i].chunk + 1])
    BY <2>2, <2>4
  <2>6. ~(a <= 0) /\ b \in 0 .. k - 1 /\ ~(a > c)
    <3>1. b + 1 \in 1 .. k /\ a >= 1 /\ a <= c BY <2>3, <2>5
    <3> QED BY <3>1, <1>4
  <2> QED BY <2>1, <2>4, <2>5, <2>6
<1>12. Len(f) = KeyStart(f, k)
  <2>1. k \in 0 .. k BY <1>4
  <2> QED BY <1>3, <1>6, <1>8, <2>1 DEF Found
<1>13. ~\E i \in 1 .. n : \/ MetaSection(f, 4)[i] <= 0
                          \/ MetaSection(f, 5)[i] \notin 0 .. k - 1
                          \/ MetaSection(f, 4)[i] > ChunkKeys(KeyRows(f), MetaSection(f, 5)[i])
  BY <1>6, <1>11 DEF Found, ChunkKeys
<1>14. SubSeq(f, MetaEnd(f) + 1, QueriesEnd(f)) = FlattenSeq(Column(L.rows, "q"))
  <2>1. FlattenSeq(Column(L.rows, "q")) \in Seq(Int) /\ Len(FlattenSeq(Column(L.rows, "q"))) = 2 * n
    BY <1>1, <1>3, ColumnsTyped, FlatPairs
  <2>2. Has(f, 8 + k + 5 * n, FlattenSeq(Column(L.rows, "q"))) BY <1>4 DEF Plan
  <2>3. 8 + k + 5 * n \in Nat /\ 2 * n \in Nat BY <1>4
  <2>4. SubSeq(f, 8 + k + 5 * n + 1, (8 + k + 5 * n) + 2 * n) = FlattenSeq(Column(L.rows, "q"))
    BY <1>8, <2>1, <2>2, <2>3, PlainSlice
  <2>5. (8 + k + 5 * n) + 2 * n = 8 + k + 7 * n BY <1>4, Ends
  <2> QED BY <1>6, <2>4, <2>5 DEF Found
<1>15. SubSeq(f, QueriesEnd(f) + 1, QueriesEnd(f) + ScoreCount(f)) = FlattenSeq(Column(L.rows, "b"))
  <2>1. FlattenSeq(Column(L.rows, "b")) \in Seq(Int) /\ Len(FlattenSeq(Column(L.rows, "b"))) = v
    BY <1>3, FlatScores
  <2>2. Has(f, 8 + k + 7 * n, FlattenSeq(Column(L.rows, "b"))) BY <1>4 DEF Plan
  <2>3. PICK o \in Nat : o = 8 + k + 7 * n BY <1>4, Places
  <2>4. QueriesEnd(f) = o /\ ScoreCount(f) = v BY <1>6, <2>3 DEF Found
  <2>5. Has(f, o, FlattenSeq(Column(L.rows, "b"))) BY <2>2, <2>3
  <2>6. SubSeq(f, o + 1, o + v) = FlattenSeq(Column(L.rows, "b"))
    BY <1>4, <1>8, <2>1, <2>5, PlainSlice
  <2> QED BY <2>4, <2>6
<1>16. SubSeq(f, QueriesEnd(f) + ScoreCount(f) + 1, QueriesEnd(f) + 2 * ScoreCount(f)) = FlattenSeq(Column(L.rows, "s"))
  <2>1. FlattenSeq(Column(L.rows, "s")) \in Seq(Int) /\ Len(FlattenSeq(Column(L.rows, "s"))) = v
    BY <1>3, FlatScores
  <2>2. Has(f, 8 + k + 7 * n + v, FlattenSeq(Column(L.rows, "s"))) BY <1>4 DEF Plan
  <2>3. 8 + k + 7 * n + v \in Nat /\ (8 + k + 7 * n + v) + v = 8 + k + 7 * n + 2 * v BY <1>4, Ends
  <2>4. SubSeq(f, 8 + k + 7 * n + v + 1, (8 + k + 7 * n + v) + v) = FlattenSeq(Column(L.rows, "s"))
    BY <1>4, <1>8, <2>1, <2>2, <2>3, PlainSlice
  <2> QED BY <1>6, <2>3, <2>4 DEF Found
<1>17. ASSUME NEW c \in 1 .. k
       PROVE  SubSeq(f, KeyStart(f, c - 1) + 1, KeyStart(f, c)) = FlattenSeq(L.keys[c])
  <2>1. PICK o \in Nat : o = 8 + k + 7 * n + 2 * v BY <1>4, Ends
  <2>2. Has(f, o, FlattenSeq(FlattenSeq(L.keys))) BY <1>4, <2>1 DEF Plan
  <2>3. c \in 0 .. k /\ c - 1 \in 0 .. k BY <1>4
  <2>4. KeyStart(f, c - 1) = o + 2 * SumOf(Lens(L.keys), c - 1) /\ KeyStart(f, c) = o + 2 * SumOf(Lens(L.keys), c)
    BY <1>6, <2>1, <2>3 DEF Found
  <2>5. k = Len(L.keys) /\ k \in Nat /\ f \in Seq(Int) BY <1>3, <1>4, <1>8
  <2>6. SubSeq(f, (o + 2 * SumOf(Lens(L.keys), c - 1)) + 1, o + 2 * SumOf(Lens(L.keys), c))
          = FlattenSeq(L.keys[c])
    BY <2>2, <2>5, ChunkRead
  <2> QED BY <2>4, <2>6, Zenon
<1>18. [c \in 1 .. k |-> SubSeq(f, KeyStart(f, c - 1) + 1, KeyStart(f, c))] = [c \in 1 .. k |-> FlattenSeq(L.keys[c])]
  BY <1>17
<1>19. parse_layer(f) = Decoded(l, L)
  <2>1. f[1] = MAGIC /\ f[2] = VERSION /\ f[3] = l /\ f[4] = 2 /\ f[5] = n /\ f[6] = k /\ f[7] = 2
    BY <1>7 DEF Header
  <2>2. MetaSection(f, 4) = Visibles(L) /\ MetaSection(f, 5) = Column(L.rows, "chunk")
        /\ MetaSection(f, 1) = Column(L.rows, "head") /\ MetaSection(f, 2) = Column(L.rows, "gqa")
        /\ MetaSection(f, 3) = Column(L.rows, "token")
    BY <1>6 DEF Found
  <2>3. parse_layer(f) =
          [ok |-> TRUE, layer |-> f[3], rows |-> f[5], q_dim |-> f[4], key_dim |-> f[7],
             heads |-> MetaSection(f, 1), groups |-> MetaSection(f, 2),
             tokens |-> MetaSection(f, 3), n_visible |-> MetaSection(f, 4), chunks |-> MetaSection(f, 5),
             starts |-> [i \in 1 .. f[5] + 1 |-> SumOf(MetaSection(f, 4), i - 1)],
             q |-> SubSeq(f, MetaEnd(f) + 1, QueriesEnd(f)),
             baseline |-> SubSeq(f, QueriesEnd(f) + 1, QueriesEnd(f) + ScoreCount(f)),
             control |-> SubSeq(f, QueriesEnd(f) + ScoreCount(f) + 1, QueriesEnd(f) + 2 * ScoreCount(f)),
             keys |-> [c \in 1 .. f[6] |->
                          SubSeq(f, KeyStart(f, c - 1) + 1, KeyStart(f, c))]]
    <3>1. ~(Len(f) < HEADER \/ f[1] # MAGIC \/ f[2] # VERSION) BY <1>9, <2>1
    <3>2. ~(f[4] = 0 \/ f[7] = 0 \/ f[6] = 0 \/ Len(f) < MetaEnd(f)) BY <1>9, <1>10, <2>1
    <3>3. ~\E i \in 1 .. f[5] : \/ MetaSection(f, 4)[i] <= 0
                          \/ MetaSection(f, 5)[i] \notin 0 .. f[6] - 1
                          \/ MetaSection(f, 4)[i] > ChunkKeys(KeyRows(f), MetaSection(f, 5)[i])
      BY <1>13, <2>1
    <3>4. ~(Len(f) # KeyStart(f, f[6])) BY <1>12, <2>1
    <3> QED BY <3>1, <3>2, <3>3, <3>4, Zenon DEF parse_layer
  <2> QED BY <2>1, <2>2, <2>3, <1>3, <1>14, <1>15, <1>16, <1>18, Zenon DEF Decoded
<1>20. f # Missing
  <2>1. Len(f) # 0 BY <1>4, <1>8, <1>9 DEF HEADER
  <2> QED BY <2>1 DEF Missing
<1> QED BY <1>2, <1>19, <1>20

(* VectorAt cuts a pair out.                                                *)
LEMMA CutPair ==
    ASSUME NEW z \in Seq(Int), NEW p \in Pair, NEW i \in Nat \ {0}, Has(z, 2 * (i - 1), p)
    PROVE  VectorAt(z, i - 1, 2) = p
<1>1. p \in Seq(Int) /\ Len(p) = 2 BY PairIsSeq
<1>2. PICK o \in Nat : o = 2 * (i - 1) OBVIOUS
<1>3. SubSeq(z, o + 1, o + 2) = p BY <1>1, <1>2, PlainSlice
<1>4. (i - 1) * 2 + 1 = o + 1 /\ (i - 1 + 1) * 2 = o + 2 BY <1>2
<1> QED BY <1>3, <1>4 DEF VectorAt

(* The first m pairs of a flattened sequence are cut as pairs.              *)
LEMMA CutPrefix ==
    ASSUME NEW K \in Seq(Pair), NEW m \in 0 .. Len(K), NEW j \in 1 .. m
    PROVE  VectorAt(SubSeq(FlattenSeq(K), 1, m * 2), j - 1, 2) = K[j]
<1>1. Len(K) \in Nat /\ K[j] \in Pair
  <2>1. Len(K) \in Nat BY LenProperties
  <2>2. j \in 1 .. Len(K) BY <2>1
  <2> QED BY <2>1, <2>2, ElementOfSeq
<1>2. PICK y : y = FlattenSeq(K) OBVIOUS
<1>3. y \in Seq(Int) /\ Len(y) = 2 * Len(K) /\ Has(y, 2 * (j - 1), K[j])
  <2>1. j \in 1 .. Len(K) BY <1>1
  <2> QED BY <1>2, <2>1, FlatPairs
<1>4. PICK p \in Pair : p = K[j] BY <1>1
<1>5. p \in Seq(Int) /\ Len(p) = 2 /\ DOMAIN p = 1 .. 2 BY PairIsSeq
<1>6. PICK t \in Nat : t = m * 2 BY <1>1
<1>7. t <= Len(y) BY <1>1, <1>3, <1>6
<1>8. PICK x : x = SubSeq(y, 1, t) OBVIOUS
<1>9. x \in Seq(Int) /\ Len(x) = t /\ \A i \in 1 .. t : x[i] = y[i]
  <2>1. \A i \in 1 .. t : y[i] \in Int
    <3>1. Len(y) \in Nat /\ \A i \in 1 .. Len(y) : y[i] \in Int BY <1>3, ElementOfSeq, LenProperties
    <3>2. \A i \in 1 .. t : i \in 1 .. Len(y) BY <1>7, <3>1
    <3> QED BY <3>1, <3>2
  <2>2. /\ x \in Seq(Int) /\ Len(x) = (IF 1 <= t THEN t - 1 + 1 ELSE 0)
        /\ \A i \in 1 .. t - 1 + 1 : x[i] = y[1 + i - 1]
    BY <1>8, <2>1, SubSeqProperties
  <2>3. Len(x) = t BY <2>2
  <2>4. \A i \in 1 .. t : i \in 1 .. t - 1 + 1 /\ 1 + i - 1 = i OBVIOUS
  <2>5. \A i \in 1 .. t : x[i] = y[i]
    <3> SUFFICES ASSUME NEW i \in 1 .. t PROVE x[i] = y[i] OBVIOUS
    <3>1. x[i] = y[1 + i - 1] BY <2>2, <2>4
    <3> QED BY <3>1, <2>4
  <2> QED BY <2>2, <2>3, <2>5
<1>10. PICK o \in Nat : o = 2 * (j - 1) BY <1>1
<1>11. o + 2 <= t BY <1>1, <1>6, <1>10
<1>12. Has(x, o, p)
  <2>1. \A i \in 1 .. 2 : y[o + i] = p[i] BY <1>3, <1>4, <1>5, <1>10 DEF Has
  <2>2. \A i \in 1 .. 2 : o + i \in 1 .. t BY <1>11
  <2>3. \A i \in 1 .. 2 : x[o + i] = p[i] BY <1>9, <2>1, <2>2
  <2>4. o + Len(p) <= Len(x) BY <1>5, <1>9, <1>11
  <2> QED BY <1>5, <2>3, <2>4 DEF Has
<1>13. VectorAt(x, j - 1, 2) = p
  <2>1. j \in Nat \ {0} /\ Has(x, 2 * (j - 1), p) BY <1>1, <1>10, <1>12
  <2> QED BY <1>9, <2>1, CutPair
<1> QED BY <1>2, <1>4, <1>6, <1>8, <1>13

(* What the reader gives back for row i.                                    *)
RowBack(r, rw) ==
    [f \in DOMAIN r \ {"keys"} |-> r[f]] = rw /\ r.b = rw.b /\ r.q = rw.q

(* The record of a row, without its keys.                                   *)
LEMMA RecordBack ==
    ASSUME NEW rw \in RowSet, NEW keys, NEW r,
           r = [head |-> rw.head, gqa |-> rw.gqa, token |-> rw.token, chunk |-> rw.chunk,
                q |-> rw.q, b |-> rw.b, s |-> rw.s, keys |-> keys]
    PROVE  RowBack(r, rw)
<1>1. DOMAIN rw = {"head", "gqa", "token", "chunk", "q", "b", "s"} BY DEF RowSet
<1>2. DOMAIN r \ {"keys"} = {"head", "gqa", "token", "chunk", "q", "b", "s"} OBVIOUS
<1>3. \A f \in {"head", "gqa", "token", "chunk", "q", "b", "s"} : r[f] = rw[f] OBVIOUS
<1>4. rw = [f \in DOMAIN rw |-> rw[f]] BY DEF RowSet
<1>5. [f \in DOMAIN r \ {"keys"} |-> r[f]] = rw
  <2>1. [f \in DOMAIN r \ {"keys"} |-> r[f]] = [f \in DOMAIN rw |-> rw[f]]
    BY <1>1, <1>2, <1>3
  <2> QED BY <1>4, <2>1
<1> QED BY <1>5 DEF RowBack

(* LayerRows::row gives row i and the keys that it sees.                    *)
LEMMA RowRead ==
    ASSUME NEW L, Whole(L), NEW l \in Nat, NEW i \in 1 .. Len(L.rows)
    PROVE  LET r == ReadRow(Decoded(l, L), i) IN
           /\ RowBack(r, L.rows[i])
           /\ r.keys = SubSeq(FlattenSeq(L.keys[L.rows[i].chunk + 1]), 1, Len(L.rows[i].b) * 2)
<1> DEFINE D == Decoded(l, L)
           rw == L.rows[i]
<1>1. L \in LayerSet /\ RowsTrue(L) BY DEF Whole
<1>2. /\ rw \in RowSet /\ rw.q \in Pair /\ rw.b \in Seq(Int) /\ rw.s \in Seq(Int)
      /\ Len(rw.b) \in Nat /\ Len(L.rows) \in Nat
  BY <1>1, LayerTyped
<1>3. RowTrue(rw, L.keys) BY <1>1 DEF RowsTrue
<1>4. \A x : Column(L.rows, x)[i] = L.rows[i][x] BY <1>1, ColumnsTyped
<1>5. VectorAt(D.q, i - 1, D.q_dim) = rw.q
  <2>1. PICK y : y = FlattenSeq(Column(L.rows, "q")) OBVIOUS
  <2>2. y \in Seq(Int) /\ Has(y, 2 * (i - 1), Column(L.rows, "q")[i])
    BY <1>1, <2>1, ColumnsTyped, FlatPairs
  <2>3. Column(L.rows, "q")[i] = rw.q BY <1>4
  <2>4. i \in Nat \ {0} BY <1>2
  <2>5. VectorAt(y, i - 1, 2) = rw.q
    <3> HIDE DEF rw
    <3> QED BY <1>2, <2>2, <2>3, <2>4, CutPair
  <2> QED BY <2>1, <2>5 DEF Decoded
<1>6. \A j \in 1 .. Len(L.rows) : Visibles(L)[j] = Len(L.rows[j].b) /\ Visibles(L)[j] \in Nat
  BY <1>1, ColumnsTyped
<1>7. PICK a \in Nat, b \in Nat :
         a = SumOf(Visibles(L), i - 1) /\ b = SumOf(Visibles(L), i) /\ b = a + Len(rw.b)
  <2>0. Len(L.rows) \in Nat BY <1>2
  <2>1. PICK m \in Nat : i = m + 1 BY <2>0
  <2>2. i - 1 = m /\ \A j \in 1 .. m + 1 : j \in 1 .. Len(L.rows) BY <2>0, <2>1
  <2>3. \A j \in 1 .. m + 1 : Visibles(L)[j] \in Nat BY <1>6, <2>2
  <2>4. SumOf(Visibles(L), m + 1) = SumOf(Visibles(L), m) + Visibles(L)[m + 1]
        /\ SumOf(Visibles(L), m) \in Nat /\ SumOf(Visibles(L), m + 1) \in Nat
    BY <2>3, SumStep
  <2>5. Visibles(L)[m + 1] = Len(rw.b) BY <1>6, <2>1
  <2> HIDE DEF rw
  <2> QED BY <2>1, <2>2, <2>4, <2>5
<1>8. D.starts[i] = a /\ D.starts[i + 1] = b
  <2>1. i \in 1 .. Len(L.rows) + 1 /\ i + 1 \in 1 .. Len(L.rows) + 1 /\ i + 1 - 1 = i BY <1>2
  <2>2. D.starts = [j \in 1 .. Len(L.rows) + 1 |-> SumOf(Visibles(L), j - 1)] BY DEF Decoded
  <2> HIDE DEF rw, D
  <2>3. D.starts[i] = SumOf(Visibles(L), i - 1) BY <2>1, <2>2
  <2>4. D.starts[i + 1] = SumOf(Visibles(L), i)
    <3>1. D.starts[i + 1] = SumOf(Visibles(L), i + 1 - 1) BY <2>1, <2>2
    <3> QED BY <2>1, <3>1
  <2> QED BY <1>7, <2>3, <2>4
<1>9. ASSUME NEW x \in {"b", "s"}
      PROVE  SubSeq(FlattenSeq(Column(L.rows, x)), a + 1, b) = rw[x]
  <2>1. PICK y : y = FlattenSeq(Column(L.rows, x)) OBVIOUS
  <2>2. y \in Seq(Int) /\ Has(y, SumOf(Visibles(L), i - 1), rw[x]) BY <2>1, FlatScores
  <2>3. rw[x] \in Seq(Int) /\ Len(rw[x]) = Len(rw.b)
    <3>1. Len(rw.s) = Len(rw.b) BY <1>3 DEF RowTrue
    <3>2. x = "b" \/ x = "s" OBVIOUS
    <3> HIDE DEF rw
    <3> QED BY <1>2, <3>1, <3>2
  <2> HIDE DEF rw
  <2>4. PICK m \in Nat : m = Len(rw.b) BY <1>2
  <2>5. Has(y, a, rw[x]) /\ Len(rw[x]) = m /\ b = a + m BY <1>7, <2>2, <2>3, <2>4
  <2>6. SubSeq(y, a + 1, a + m) = rw[x] BY <2>2, <2>3, <2>5, PlainSlice
  <2> QED BY <2>1, <2>5, <2>6
<1>10. /\ D.heads[i] = rw.head /\ D.groups[i] = rw.gqa /\ D.tokens[i] = rw.token /\ D.chunks[i] = rw.chunk
       /\ D.n_visible[i] = Len(rw.b) /\ D.key_dim = 2
  BY <1>4, <1>6 DEF Decoded
<1>11. SubSeq(D.baseline, D.starts[i] + 1, D.starts[i + 1]) = rw.b
       /\ SubSeq(D.control, D.starts[i] + 1, D.starts[i + 1]) = rw.s
  <2>1. D.baseline = FlattenSeq(Column(L.rows, "b")) /\ D.control = FlattenSeq(Column(L.rows, "s"))
    BY DEF Decoded
  <2> HIDE DEF D, rw
  <2> QED BY <1>8, <1>9, <2>1
<1>12. ChunkKeys(D.keys, D.chunks[i]) = FlattenSeq(L.keys[rw.chunk + 1])
  <2>1. rw.chunk + 1 \in 1 .. Len(L.keys) BY <1>3 DEF RowTrue
  <2>2. D.keys = [c \in 1 .. Len(L.keys) |-> FlattenSeq(L.keys[c])] BY DEF Decoded
  <2> HIDE DEF D, rw
  <2> QED BY <1>10, <2>1, <2>2 DEF ChunkKeys
<1> DEFINE r == ReadRow(D, i)
           k == SubSeq(FlattenSeq(L.keys[rw.chunk + 1]), 1, Len(rw.b) * 2)
<1>13. r = [head |-> rw.head, gqa |-> rw.gqa, token |-> rw.token, chunk |-> rw.chunk,
            q |-> rw.q, b |-> rw.b, s |-> rw.s, keys |-> k]
  <2> HIDE DEF D, rw
  <2> QED BY <1>5, <1>10, <1>11, <1>12 DEF ReadRow
<1>14. r.keys = k
  <2> HIDE DEF k, r, rw, D
  <2> QED BY <1>13
<1>15. RowBack(r, rw)
  <2> HIDE DEF k, r, rw, D
  <2> QED BY <1>2, <1>13, RecordBack
<1> QED BY <1>14, <1>15

(* What the reader gives back of a whole layer.                             *)
ReadsBack(D, l, L) ==
    /\ D.ok /\ D.layer = l /\ D.rows = Len(L.rows)
    /\ \A i \in 1 .. D.rows :
          LET r == ReadRow(D, i)
          IN /\ [f \in DOMAIN r \ {"keys"} |-> r[f]] = L.rows[i]
             /\ \A j \in 1 .. D.n_visible[i] :
                   r.b[j] = Dot(r.q, VectorAt(r.keys, j - 1, D.key_dim))

(* It does so for every row, and the logits are those of these keys.        *)
LEMMA LayerBack ==
    ASSUME NEW L, Whole(L), NEW l \in Nat
    PROVE  ReadsBack(Decoded(l, L), l, L)
<1> DEFINE D == Decoded(l, L)
<1>1. D.ok /\ D.layer = l /\ D.rows = Len(L.rows) /\ D.key_dim = 2 /\ D.n_visible = Visibles(L)
  BY DEF Decoded
<1>2. L \in LayerSet /\ RowsTrue(L) BY DEF Whole
<1>3. ASSUME NEW i \in 1 .. Len(L.rows)
      PROVE  LET r == ReadRow(D, i)
             IN /\ [f \in DOMAIN r \ {"keys"} |-> r[f]] = L.rows[i]
                /\ \A j \in 1 .. D.n_visible[i] :
                      r.b[j] = Dot(r.q, VectorAt(r.keys, j - 1, D.key_dim))
  <2>1. PICK r : r = ReadRow(D, i) OBVIOUS
  <2>2. PICK rw : rw = L.rows[i] OBVIOUS
  <2>3. /\ RowBack(r, rw) /\ r.keys = SubSeq(FlattenSeq(L.keys[rw.chunk + 1]), 1, Len(rw.b) * 2)
    BY <2>1, <2>2, RowRead
  <2>4. RowTrue(rw, L.keys) BY <1>2, <2>2 DEF RowsTrue
  <2>5. PICK K : K = L.keys[rw.chunk + 1] OBVIOUS
  <2>6. K \in Seq(Pair) /\ Len(K) \in Nat BY <1>2, <2>4, <2>5, LayerTyped DEF RowTrue
  <2>7. PICK m \in 0 .. Len(K) : m = Len(rw.b)
    <3>1. Len(rw.b) \in Nat BY <1>2, <2>2, LayerTyped
    <3>2. Len(rw.b) <= Len(K) BY <2>4, <2>5 DEF RowTrue
    <3> QED BY <2>6, <3>1, <3>2
  <2>8. D.n_visible[i] = m
    <3>1. Visibles(L)[i] = Len(L.rows[i].b) BY <1>2, ColumnsTyped
    <3> HIDE DEF D
    <3> QED BY <1>1, <2>2, <2>7, <3>1, Zenon
  <2>9. ASSUME NEW j \in 1 .. m PROVE r.b[j] = Dot(r.q, VectorAt(r.keys, j - 1, 2))
    <3>1. VectorAt(r.keys, j - 1, 2) = K[j] BY <2>3, <2>5, <2>6, <2>7, CutPrefix
    <3>2. rw.b[j] = Dot(rw.q, K[j]) BY <2>4, <2>5, <2>7 DEF RowTrue
    <3> QED BY <2>3, <3>1, <3>2 DEF RowBack
  <2>10. [f \in DOMAIN r \ {"keys"} |-> r[f]] = L.rows[i] BY <2>2, <2>3 DEF RowBack
  <2> HIDE DEF D
  <2> QED BY <1>1, <2>1, <2>8, <2>9, <2>10
<1> HIDE DEF D
<1> QED BY <1>1, <1>3 DEF D, ReadsBack

(* The layout of its chunks.                                                *)
LEMMA LayoutBack ==
    ASSUME NEW L, Whole(L), NEW l \in Nat, NEW slots \in Nat, Len(L.keys) = slots, NEW populated,
           populated = {L.rows[i].chunk : i \in DOMAIN L.rows},
           \A c \in 0 .. slots - 1 : L.keys[c + 1] # <<>> => c \in populated
    PROVE  validate_chunk_layout(Decoded(l, L), slots, populated)
<1> DEFINE D == Decoded(l, L)
<1>1. L \in LayerSet /\ RowsTrue(L) /\ L.rows # <<>> BY DEF Whole
<1>2. /\ Len(L.rows) \in Nat /\ DOMAIN L.rows = 1 .. Len(L.rows) /\ Len(L.rows) # 0
      /\ \A c \in 1 .. slots : L.keys[c] \in Seq(Pair) /\ Len(L.keys[c]) \in Nat
      /\ \A i \in 1 .. Len(L.rows) : L.rows[i].chunk \in Nat /\ Len(L.rows[i].b) \in Nat
  BY <1>1, LayerTyped, EmptySeq
<1>3. D.keys = [c \in 1 .. slots |-> FlattenSeq(L.keys[c])] /\ D.rows = Len(L.rows)
      /\ D.chunks = Column(L.rows, "chunk")
  BY DEF Decoded
<1> HIDE DEF D
<1>4. Len(D.keys) = slots BY <1>3
<1>5. {D.chunks[i] : i \in 1 .. D.rows} = populated
  <2>0. \A i \in 1 .. Len(L.rows) : Column(L.rows, "chunk")[i] = L.rows[i]["chunk"]
    BY <1>1, ColumnsTyped
  <2>1. \A i \in 1 .. Len(L.rows) : D.chunks[i] = L.rows[i].chunk BY <1>3, <2>0
  <2> QED BY <1>2, <1>3, <2>1
<1>6. ASSUME NEW c \in populated
      PROVE  c \in 0 .. slots - 1 /\ L.keys[c + 1] # <<>>
  <2>1. PICK i \in 1 .. Len(L.rows) : c = L.rows[i].chunk BY <1>2
  <2>2. PICK rw : rw = L.rows[i] OBVIOUS
  <2>3. RowTrue(rw, L.keys) /\ rw.chunk = c /\ c \in Nat /\ Len(rw.b) \in Nat
    BY <1>1, <1>2, <2>1, <2>2 DEF RowsTrue
  <2>4. c + 1 \in 1 .. slots /\ Len(rw.b) >= 1 /\ Len(rw.b) <= Len(L.keys[c + 1]) BY <2>3 DEF RowTrue
  <2>5. c \in 0 .. slots - 1 BY <2>3, <2>4
  <2>6. Len(L.keys[c + 1]) # 0 BY <1>2, <2>3, <2>4
  <2> QED BY <2>5, <2>6
<1>7. populated # {}
  <2>1. 1 \in 1 .. Len(L.rows) BY <1>2
  <2> QED BY <1>2, <2>1
<1>8. ASSUME NEW c \in 0 .. slots - 1 PROVE D.keys[c + 1] # <<>> <=> L.keys[c + 1] # <<>>
  <2>1. c + 1 \in 1 .. slots OBVIOUS
  <2>2. PICK K : K = L.keys[c + 1] OBVIOUS
  <2>3. PICK y : y = FlattenSeq(K) OBVIOUS
  <2>4. D.keys[c + 1] = y BY <1>3, <2>1, <2>2, <2>3
  <2>5. K \in Seq(Pair) /\ Len(K) \in Nat BY <1>2, <2>1, <2>2
  <2>6. y \in Seq(Int) /\ Len(y) = 2 * Len(K) BY <2>3, <2>5, FlatPairs
  <2>7. Len(y) = 0 <=> Len(K) = 0 BY <2>5, <2>6
  <2>8. (y = <<>> <=> Len(y) = 0) /\ (K = <<>> <=> Len(K) = 0) BY <2>5, <2>6, EmptySeq
  <2> QED BY <2>2, <2>4, <2>7, <2>8
<1>9. \A c \in 0 .. slots - 1 : c \in populated <=> D.keys[c + 1] # <<>> BY <1>6, <1>8
<1>10. populated \subseteq 0 .. slots - 1 BY <1>6
<1> QED BY <1>4, <1>5, <1>7, <1>9, <1>10 DEF validate_chunk_layout, D

-----------------------------------------------------------------------------
(* The invariant.                                                           *)

(* The key of a position, for a number c of clears.                         *)
KeyOf(c, l, pos) == <<1 + pos + 4 * c + 16 * l, 2 + 3 * pos + 5 * c + 16 * l>>

KvSet == [raw : Seq(Pair), raw_max : Nat, tiles : Seq(Pair), n_written : Nat]

(* The keys of a layer: a tile that is there is the key of its position,    *)
(* and the raw keys hold it as well.                                        *)
KvOK(K, l, c) ==
    /\ K \in KvSet /\ K.raw_max <= Len(K.raw) /\ K.n_written = Len(K.tiles) /\ K.n_written <= K.raw_max
    /\ \A j \in 1 .. K.n_written :
          K.tiles[j] # <<0, 0>> => K.tiles[j] = KeyOf(c, l, j - 1) /\ K.raw[j] = KeyOf(c, l, j - 1)

NoHole(K) == \A j \in 1 .. K.n_written : K.tiles[j] # <<0, 0>>

(* A row of the chunk that is still open.                                   *)
OpenRow(r, K, l, c) ==
    /\ Len(r.b) >= 1 /\ Len(r.s) = Len(r.b) /\ Len(r.b) <= K.raw_max
    /\ \A j \in 1 .. Len(r.b) : K.raw[j] = KeyOf(c, l, j - 1) /\ r.b[j] = Dot(r.q, KeyOf(c, l, j - 1))

RowOK(r, keys, K, l, c, ended) ==
    r.chunk <= c /\ IF r.chunk < c \/ ended THEN RowTrue(r, keys) ELSE OpenRow(r, K, l, c)

LayerOK(L, K, l, c, ended) ==
    /\ L \in LayerSet /\ Len(L.keys) <= (IF ended THEN c + 1 ELSE c)
    /\ L.keys # <<>> => L.key_dim = 2
    /\ L.rows # <<>> => MaxHeads > 0
    /\ \A i \in 1 .. Len(L.rows) : RowOK(L.rows[i], L.keys, K, l, c, ended)

HasRow(L, c) == \E i \in 1 .. Len(L.rows) : L.rows[i].chunk = c

(* While nothing is lost: every chunk with keys has a row, or its first     *)
(* vector is still to come.                                                 *)
LayerFull(L, K, c, ended, waiting, done) ==
    /\ \A d \in 1 .. Len(L.keys) : L.keys[d] # <<>> => HasRow(L, d - 1)
    /\ ~ended /\ K.raw_max > 0 => HasRow(L, c) \/ waiting
    /\ NoHole(K) /\ K.n_written >= done

Waiting(at, l) == at.phase = "scores" /\ at.layer = l /\ 0 \in at.todo

Encoded(at, l) == at.phase = "idle" \/ l < at.layer \/ (at.phase = "scores" /\ l = at.layer)

Done(S, l) == IF Encoded(S.at, l) THEN S.past ELSE S.at.first

AtSet == [phase : {"idle", "keys", "scores"}, layer : Nat, first : Nat, n : Nat, todo : SUBSET Nat]

SessionSet == [at : AtSet, past : Nat, clears : Nat, lost : Nat, ended : BOOLEAN]

SessionOK(S) ==
    /\ S \in SessionSet
    /\ S.at.phase = "idle" => S.at = NoBatch
    /\ S.at.phase # "idle" => /\ S.at.layer \in Layers /\ S.past = S.at.first + S.at.n
                              /\ S.at.n >= 1 /\ ~S.ended

DiskOK ==
    /\ ~session.ended => disk.manifest = NoManifest
    /\ disk.manifest.valid =>
          \A l \in disk.manifest.layers :
             l \in Layers /\ disk.files[l] = Serialised(l, rank.layers[l]) /\ rank.layers[l].rows # <<>>

RankInv ==
    /\ rank \in [chunk : Nat, layers : [Layers -> LayerSet]] /\ kv \in [Layers -> KvSet]
    /\ SessionOK(session) /\ rank.chunk = session.clears
    /\ \A l \in Layers : /\ KvOK(kv[l], l, session.clears)
                         /\ LayerOK(rank.layers[l], kv[l], l, session.clears, session.ended)
    /\ MaxHeads > 0 /\ session.lost = 0 =>
          \A l \in Layers : LayerFull(rank.layers[l], kv[l], session.clears, session.ended,
                                      Waiting(session.at, l), Done(session, l))
    /\ DiskOK

-----------------------------------------------------------------------------
(* Keys are put.                                                            *)

KeyIs(k, l, pos, c) == k \in Pair /\ k # <<0, 0>> /\ k = KeyOf(c, l, pos)

(* A key is never the zero of an absent tile.                               *)
LEMMA KeyTyped ==
    ASSUME NEW c \in Nat, NEW l \in Nat, NEW pos \in Nat
    PROVE  KeyIs(KeyOf(c, l, pos), l, pos, c)
<1>1. PICK a \in Int, b \in Int : a = 1 + pos + 4 * c + 16 * l /\ b = 2 + 3 * pos + 5 * c + 16 * l /\ a # 0
  OBVIOUS
<1>2. KeyOf(c, l, pos) = <<a, b>> BY <1>1 DEF KeyOf
<1>3. <<a, b>> \in Pair BY DEF Pair
<1>4. <<a, b>> # <<0, 0>> BY <1>1
<1> QED BY <1>2, <1>3, <1>4 DEF KeyIs

(* That zero has the type of a key.                                         *)
LEMMA NoKeyTyped == <<0, 0>> \in Pair
  BY DEF Pair

(* The array r after v is put at pos of a.                                  *)
Put(r, a, pos, v) ==
    /\ r \in Seq(Pair) /\ Len(r) = IF Len(a) > pos THEN Len(a) ELSE pos + 1
    /\ \A i \in 1 .. Len(r) : r[i] = IF i = pos + 1 THEN v ELSE IF i <= Len(a) THEN a[i] ELSE <<0, 0>>

(* PutAt does it.                                                           *)
LEMMA PutFacts ==
    ASSUME NEW a \in Seq(Pair), NEW pos \in Nat, NEW v \in Pair
    PROVE  Put(PutAt(a, pos, v), a, pos, v)
<1>1. PICK n \in Nat : n = IF Len(a) > pos THEN Len(a) ELSE pos + 1
  <2>1. Len(a) \in Nat BY LenProperties
  <2> QED BY <2>1
<1>2. PICK r : r = [i \in 1 .. n |-> IF i = pos + 1 THEN v ELSE IF i <= Len(a) THEN a[i] ELSE <<0, 0>>]
  OBVIOUS
<1>3. PutAt(a, pos, v) = r BY <1>1, <1>2 DEF PutAt
<1>4. \A i \in 1 .. Len(a) : a[i] \in Pair BY ElementOfSeq
<1>5. \A i \in 1 .. n : i <= Len(a) => i \in 1 .. Len(a)
  <2>1. Len(a) \in Nat BY LenProperties
  <2> QED BY <2>1
<1>6. r \in [1 .. n -> Pair] BY <1>2, <1>4, <1>5, NoKeyTyped
<1>7. r \in Seq(Pair) /\ Len(r) = n BY <1>6, FcnSeq
<1>8. \A i \in 1 .. n : r[i] = IF i = pos + 1 THEN v ELSE IF i <= Len(a) THEN a[i] ELSE <<0, 0>>
  BY <1>2
<1> QED BY <1>1, <1>3, <1>7, <1>8 DEF Put

(* The raw keys and their maximum after a key is put.                       *)
RawPut(R, m, K, l, pos, c) ==
    /\ R \in Seq(Pair) /\ m \in Nat /\ m <= Len(R) /\ K.raw_max <= m /\ pos + 1 <= m
    /\ R[pos + 1] = KeyOf(c, l, pos)
    /\ \A j \in 1 .. K.raw_max : j # pos + 1 => R[j] = K.raw[j]

(* The raw keys of a layer when its key at pos is put.                      *)
LEMMA RawFacts ==
    ASSUME NEW c \in Nat, NEW l \in Nat, NEW pos \in Nat, NEW K, KvOK(K, l, c), NEW R, NEW m,
           R = PutAt(K.raw, pos, KeyOf(c, l, pos)),
           m = IF K.raw_max > pos + 1 THEN K.raw_max ELSE pos + 1
    PROVE  RawPut(R, m, K, l, pos, c)
<1>1. K.raw \in Seq(Pair) /\ K.raw_max \in Nat /\ K.raw_max <= Len(K.raw) BY DEF KvOK, KvSet
<1>2. Len(K.raw) \in Nat BY <1>1, LenProperties
<1>3. Put(R, K.raw, pos, KeyOf(c, l, pos)) BY <1>1, KeyTyped, PutFacts DEF KeyIs
<1>4. PICK a \in Nat, x \in Nat : a = Len(K.raw) /\ x = K.raw_max /\ x <= a BY <1>1, <1>2
<1>5. R \in Seq(Pair) /\ Len(R) = (IF a > pos THEN a ELSE pos + 1)
      /\ \A i \in 1 .. Len(R) : R[i] = IF i = pos + 1 THEN KeyOf(c, l, pos)
                                       ELSE IF i <= a THEN K.raw[i] ELSE <<0, 0>>
  BY <1>3, <1>4 DEF Put
<1>6. m = IF x > pos + 1 THEN x ELSE pos + 1 BY <1>4
<1>7. PICK b \in Nat : b = Len(R) /\ b = IF a > pos THEN a ELSE pos + 1 BY <1>5
<1>8. m \in Nat /\ m <= b /\ x <= m /\ pos + 1 <= m /\ pos + 1 \in 1 .. b BY <1>4, <1>6, <1>7
<1>9. \A j \in 1 .. x : j \in 1 .. b /\ j <= a BY <1>4, <1>7
<1>10. R[pos + 1] = KeyOf(c, l, pos) BY <1>5, <1>7, <1>8
<1>11. \A j \in 1 .. x : j # pos + 1 => R[j] = K.raw[j] BY <1>5, <1>7, <1>9
<1> QED BY <1>4, <1>5, <1>7, <1>8, <1>10, <1>11 DEF RawPut

(* Keys that are there stay there.                                          *)
Grown(K, M, l, c) ==
    /\ K.raw_max <= M.raw_max
    /\ \A j \in 1 .. K.raw_max : K.raw[j] = KeyOf(c, l, j - 1) => M.raw[j] = KeyOf(c, l, j - 1)

(* They only grow.                                                          *)
LEMMA RawGrown ==
    ASSUME NEW c \in Nat, NEW l \in Nat, NEW pos \in Nat, NEW K, K.raw_max \in Nat,
           NEW R, NEW m, RawPut(R, m, K, l, pos, c), NEW M, M.raw = R, M.raw_max = m
    PROVE  Grown(K, M, l, c)
<1>1. \A j \in 1 .. K.raw_max : j = pos + 1 => j - 1 = pos OBVIOUS
<1> QED BY <1>1 DEF RawPut, Grown

(* One key: what is there is still right, and a key that nothing refuses    *)
(* leaves no hole.                                                          *)
PutGood(K, M, l, pos, c, outcome) ==
    /\ KvOK(M, l, c) /\ Grown(K, M, l, c)
    /\ outcome = "ok" /\ NoHole(K) /\ K.n_written >= pos => NoHole(M) /\ M.n_written >= pos + 1

(* PutKey does so, whatever its outcome.                                    *)
LEMMA KeyPut ==
    ASSUME NEW c \in Nat, c = session.clears, NEW l \in Nat, NEW pos \in Nat, NEW K, KvOK(K, l, c),
           NEW outcome \in {"ok", "encode", "store"}
    PROVE  PutGood(K, PutKey(K, l, pos, outcome), l, pos, c, outcome)
<1>1. PICK k : k = KeyOf(c, l, pos) OBVIOUS
<1>2. KeyRow(l, pos) = k BY <1>1 DEF KeyRow, KeyOf
<1>3. KeyIs(k, l, pos, c) BY <1>1, KeyTyped
<1>4. PICK R, m : R = PutAt(K.raw, pos, k) /\ m = IF K.raw_max > pos + 1 THEN K.raw_max ELSE pos + 1
  OBVIOUS
<1>5. RawPut(R, m, K, l, pos, c) BY <1>1, <1>4, RawFacts
<1>6. PICK T, w : T = PutAt(K.tiles, pos, k) /\ w = IF K.n_written > pos + 1 THEN K.n_written ELSE pos + 1
  OBVIOUS
<1>7. /\ K \in KvSet /\ K.raw \in Seq(Pair) /\ K.raw_max \in Nat /\ K.tiles \in Seq(Pair) /\ K.n_written \in Nat
      /\ K.n_written = Len(K.tiles) /\ K.n_written <= K.raw_max /\ K.raw_max <= Len(K.raw)
      /\ \A j \in 1 .. K.n_written :
            K.tiles[j] # <<0, 0>> => K.tiles[j] = KeyOf(c, l, j - 1) /\ K.raw[j] = KeyOf(c, l, j - 1)
  BY DEF KvOK, KvSet
<1>8. PICK M : M = PutKey(K, l, pos, outcome) OBVIOUS
<1>9. R \in Seq(Pair) /\ m \in Nat /\ m <= Len(R) /\ K.raw_max <= m /\ pos + 1 <= m /\ Len(R) \in Nat
  BY <1>5, LenProperties DEF RawPut
<1>10. \A j \in 1 .. K.n_written : K.raw[j] = KeyOf(c, l, j - 1) => R[j] = KeyOf(c, l, j - 1)
  <2> SUFFICES ASSUME NEW j \in 1 .. K.n_written, K.raw[j] = KeyOf(c, l, j - 1) PROVE R[j] = KeyOf(c, l, j - 1)
    OBVIOUS
  <2>1. j \in 1 .. K.raw_max BY <1>7
  <2>2. CASE j = pos + 1
    <3>1. j - 1 = pos BY <2>2
    <3> QED BY <1>5, <2>2, <3>1 DEF RawPut
  <2>3. CASE j # pos + 1 BY <1>5, <2>1, <2>3 DEF RawPut
  <2> QED BY <2>2, <2>3
<1>11. CASE outcome = "encode"
  <2>1. M = K BY <1>8, <1>11 DEF PutKey
  <2>2. Grown(K, K, l, c) BY <1>7 DEF Grown
  <2> QED BY <1>8, <1>11, <2>1, <2>2 DEF PutGood
<1>12. CASE outcome = "store"
  <2>1. M = [K EXCEPT !.raw = R, !.raw_max = m] BY <1>2, <1>4, <1>8, <1>12 DEF PutKey
  <2>2. M \in KvSet /\ M.raw = R /\ M.raw_max = m /\ M.tiles = K.tiles /\ M.n_written = K.n_written
    BY <1>7, <1>9, <2>1 DEF KvSet
  <2>3. K.n_written <= m BY <1>7, <1>9
  <2>4. KvOK(M, l, c) BY <1>7, <1>9, <1>10, <2>2, <2>3 DEF KvOK
  <2>5. Grown(K, M, l, c) BY <1>5, <1>7, <2>2, RawGrown
  <2> QED BY <1>8, <1>12, <2>4, <2>5 DEF PutGood
<1>13. CASE outcome = "ok"
  <2>1. M = [K EXCEPT !.raw = R, !.raw_max = m, !.tiles = T, !.n_written = w]
    BY <1>2, <1>4, <1>6, <1>7, <1>8, <1>13 DEF PutKey, KvSet
  <2>2. Put(T, K.tiles, pos, k) BY <1>3, <1>6, <1>7, PutFacts DEF KeyIs
  <2>3. PICK a \in Nat : a = K.n_written /\ a = Len(K.tiles) BY <1>7
  <2>4. w \in Nat /\ w = (IF a > pos + 1 THEN a ELSE pos + 1) BY <1>6, <2>3
  <2>5. T \in Seq(Pair) /\ Len(T) = (IF a > pos THEN a ELSE pos + 1)
        /\ \A i \in 1 .. Len(T) : T[i] = IF i = pos + 1 THEN k ELSE IF i <= a THEN K.tiles[i] ELSE <<0, 0>>
    BY <2>2, <2>3 DEF Put
  <2>6. Len(T) = w BY <2>4, <2>5
  <2>7. \A i \in 1 .. w : T[i] = IF i = pos + 1 THEN k ELSE IF i <= a THEN K.tiles[i] ELSE <<0, 0>>
    BY <2>5, <2>6
  <2>8. M \in KvSet /\ M.raw = R /\ M.raw_max = m /\ M.tiles = T /\ M.n_written = w
    BY <1>7, <1>9, <2>1, <2>4, <2>5 DEF KvSet
  <2>9. w <= m BY <1>7, <1>9, <2>3, <2>4
  <2>10. ASSUME NEW j \in 1 .. w, T[j] # <<0, 0>>
         PROVE  T[j] = KeyOf(c, l, j - 1) /\ R[j] = KeyOf(c, l, j - 1)
    <3>1. CASE j = pos + 1
      <4>1. j - 1 = pos BY <3>1
      <4>2. T[j] = k BY <2>7, <3>1
      <4>3. R[j] = KeyOf(c, l, pos) BY <1>5, <3>1 DEF RawPut
      <4> QED BY <1>1, <4>1, <4>2, <4>3
    <3>2. CASE j # pos + 1
      <4>1. j <= a /\ T[j] = K.tiles[j] BY <2>7, <2>10, <3>2
      <4>2. j \in 1 .. K.n_written BY <2>3, <2>4, <4>1
      <4>3. K.tiles[j] = KeyOf(c, l, j - 1) /\ K.raw[j] = KeyOf(c, l, j - 1) BY <1>7, <2>10, <4>1, <4>2
      <4> QED BY <1>10, <4>1, <4>2, <4>3
    <3> QED BY <3>1, <3>2
  <2>11. KvOK(M, l, c) BY <1>9, <2>6, <2>8, <2>9, <2>10 DEF KvOK
  <2>12. Grown(K, M, l, c) BY <1>5, <1>7, <2>8, RawGrown
  <2>13. ASSUME NoHole(K), K.n_written >= pos PROVE NoHole(M) /\ M.n_written >= pos + 1
    <3>1. a >= pos BY <2>3, <2>13
    <3>2. w >= pos + 1 BY <2>4
    <3>3. ASSUME NEW j \in 1 .. w PROVE T[j] # <<0, 0>>
      <4>1. CASE j = pos + 1 BY <1>3, <2>7, <4>1 DEF KeyIs
      <4>2. CASE j # pos + 1
        <5>1. j <= a /\ j \in 1 .. a BY <2>4, <3>1, <4>2
        <5>2. T[j] = K.tiles[j] BY <2>7, <4>2, <5>1
        <5>3. K.tiles[j] # <<0, 0>> BY <2>3, <2>13, <5>1 DEF NoHole
        <5> QED BY <5>2, <5>3
      <4> QED BY <4>1, <4>2
    <3> QED BY <2>8, <3>2, <3>3 DEF NoHole
  <2> QED BY <1>8, <1>13, <2>11, <2>12, <2>13 DEF PutGood
<1> QED BY <1>8, <1>11, <1>12, <1>13

(* Growing is transitive.                                                   *)
LEMMA GrownOn ==
    ASSUME NEW A, NEW B, NEW C, NEW l, NEW c, A.raw_max \in Nat, B.raw_max \in Nat, C.raw_max \in Nat,
           Grown(A, B, l, c), Grown(B, C, l, c)
    PROVE  Grown(A, C, l, c)
<1>1. \A j \in 1 .. A.raw_max : j \in 1 .. B.raw_max BY DEF Grown
<1> QED BY <1>1 DEF Grown

(* a holds the keys of a layer after each key of the batch.                 *)
KeyAfter(K, l, first, i, bad, outcome) == PutKey(K, l, first + i - 1, IF i = bad THEN outcome ELSE "ok")

Puts(a, K, l, first, n, bad, outcome) ==
    a = [i \in 0 .. n |-> IF i = 0 THEN K ELSE KeyAfter(a[i - 1], l, first, i, bad, outcome)]

(* Such an a exists.                                                        *)
LEMMA PutsExists ==
    ASSUME NEW K, NEW l, NEW first, NEW bad, NEW outcome, NEW k \in Nat
    PROVE  \E a : Puts(a, K, l, first, k, bad, outcome)
<1> DEFINE P(n) == \E a : Puts(a, K, l, first, n, bad, outcome)
           Bad == {n \in Nat : ~P(n)}
           On(x, i) == KeyAfter(x, l, first, i, bad, outcome)
<1>1. P(0)
  <2>1. Puts([i \in 0 .. 0 |-> K], K, l, first, 0, bad, outcome)
    <3>1. [i \in 0 .. 0 |-> K] = [i \in 0 .. 0 |-> IF i = 0 THEN K ELSE On([j \in 0 .. 0 |-> K][i - 1], i)]
      <4>1. \A i \in 0 .. 0 : i = 0 OBVIOUS
      <4> HIDE DEF On
      <4> QED BY <4>1
    <3> QED BY <3>1 DEF Puts
  <2> QED BY <2>1
<1>2. ASSUME NEW n \in Nat, P(n) PROVE P(n + 1)
  <2>1. PICK g : Puts(g, K, l, first, n, bad, outcome) BY <1>2
  <2> DEFINE h == [i \in 0 .. n + 1 |-> IF i = 0 THEN K ELSE On(g[i - 1], i)]
             k2 == [i \in 0 .. n + 1 |-> IF i = 0 THEN K ELSE On(h[i - 1], i)]
  <2>2. ASSUME NEW i \in 0 .. n PROVE h[i] = g[i]
    <3>1. i \in 0 .. n + 1 OBVIOUS
    <3>2. h[i] = IF i = 0 THEN K ELSE On(g[i - 1], i)
      <4> HIDE DEF On
      <4> QED BY <3>1
    <3>3. g[i] = IF i = 0 THEN K ELSE On(g[i - 1], i)
      <4>1. g = [j \in 0 .. n |-> IF j = 0 THEN K ELSE On(g[j - 1], j)] BY <2>1 DEF Puts
      <4> HIDE DEF On
      <4> QED BY <4>1
    <3> HIDE DEF h, On
    <3> QED BY <3>2, <3>3
  <2>3. ASSUME NEW i \in 0 .. n + 1 PROVE h[i] = k2[i]
    <3> HIDE DEF On
    <3>1. i # 0 => i - 1 \in 0 .. n OBVIOUS
    <3>2. h[i] = IF i = 0 THEN K ELSE On(g[i - 1], i) OBVIOUS
    <3>3. k2[i] = IF i = 0 THEN K ELSE On(h[i - 1], i) OBVIOUS
    <3> HIDE DEF h, k2
    <3> QED BY <3>1, <3>2, <3>3, <2>2
  <2> HIDE DEF On
  <2>4. h = [i \in 0 .. n + 1 |-> h[i]] /\ k2 = [i \in 0 .. n + 1 |-> k2[i]] OBVIOUS
  <2>5. h = k2
    <3> HIDE DEF h, k2
    <3> QED BY <2>3, <2>4
  <2>6. h = [i \in 0 .. n + 1 |-> IF i = 0 THEN K ELSE On(h[i - 1], i)]
    <3> HIDE DEF h
    <3> QED BY <2>5 DEF k2
  <2> HIDE DEF h
  <2>7. Puts(h, K, l, first, n + 1, bad, outcome) BY <2>6 DEF Puts, On
  <2> QED BY <2>7
<1>3. \A n \in Nat : P(n)
  <2> SUFFICES ASSUME Bad # {} PROVE FALSE OBVIOUS
  <2> HIDE DEF P
  <2>1. PICK m \in Bad : \A n \in Bad : m <= n BY LeastElement
  <2>2. m \in Nat /\ m # 0 BY <1>1
  <2>3. m - 1 \in Nat /\ m - 1 + 1 = m /\ ~(m <= m - 1) BY <2>2
  <2>4. P(m - 1) BY <2>1, <2>3
  <2>5. P(m) BY <2>3, <2>4, <1>2
  <2> QED BY <2>1, <2>5
<1> QED BY <1>3

(* The keys of a batch.                                                     *)
BatchGood(K, M, l, first, n, c, bad) ==
    /\ KvOK(M, l, c) /\ Grown(K, M, l, c)
    /\ bad = 0 /\ NoHole(K) /\ K.n_written >= first => NoHole(M) /\ M.n_written >= first + n

(* PutKeys does so, whichever key is refused.                               *)
LEMMA KeysPut ==
    ASSUME NEW c \in Nat, c = session.clears, NEW l \in Nat, NEW first \in Nat, NEW n \in Nat, NEW K, KvOK(K, l, c),
           NEW bad \in Nat, NEW outcome \in {"ok", "encode", "store"}
    PROVE  BatchGood(K, PutKeys(K, l, first, n, bad, outcome), l, first, n, c, bad)
<1> DEFINE a == CHOOSE a : Puts(a, K, l, first, n, bad, outcome)
<1>1. Puts(a, K, l, first, n, bad, outcome) BY PutsExists
<1>2. PutKeys(K, l, first, n, bad, outcome) = a[n] BY DEF PutKeys, Puts, KeyAfter
<1> HIDE DEF a
<1> DEFINE P(i) == BatchGood(K, a[i], l, first, i, c, bad)
           Bad == {i \in 0 .. n : ~P(i)}
<1>3. P(0)
  <2>1. a[0] = K BY <1>1 DEF Puts
  <2>2. K.raw_max \in Nat /\ K.n_written \in Nat BY DEF KvOK, KvSet
  <2>3. Grown(K, K, l, c) BY <2>2 DEF Grown
  <2>4. first + 0 = first OBVIOUS
  <2> QED BY <2>1, <2>3, <2>4 DEF BatchGood
<1>4. ASSUME NEW i \in 1 .. n, P(i - 1) PROVE P(i)
  <2>1. PICK A : A = a[i - 1] OBVIOUS
  <2>2. PICK o \in {"ok", "encode", "store"} : o = IF i = bad THEN outcome ELSE "ok" OBVIOUS
  <2>3. PICK p \in Nat : p = first + i - 1 OBVIOUS
  <2>4. a[i] = PutKey(A, l, p, o)
    <3>1. i \in 0 .. n /\ i # 0 OBVIOUS
    <3>2. a[i] = KeyAfter(a[i - 1], l, first, i, bad, outcome) BY <1>1, <3>1 DEF Puts
    <3> QED BY <2>1, <2>2, <2>3, <3>2 DEF KeyAfter
  <2>5. KvOK(A, l, c) /\ Grown(K, A, l, c) BY <1>4, <2>1 DEF BatchGood
  <2>6. PutGood(A, a[i], l, p, c, o) BY <2>4, <2>5, KeyPut
  <2>7. KvOK(a[i], l, c) /\ Grown(A, a[i], l, c) BY <2>6 DEF PutGood
  <2>8. K.raw_max \in Nat /\ A.raw_max \in Nat /\ a[i].raw_max \in Nat BY <2>5, <2>7 DEF KvOK, KvSet
  <2>9. Grown(K, a[i], l, c) BY <2>5, <2>7, <2>8, GrownOn
  <2>10. ASSUME bad = 0, NoHole(K), K.n_written >= first PROVE NoHole(a[i]) /\ a[i].n_written >= first + i
    <3>1. NoHole(A) /\ A.n_written >= first + (i - 1) BY <1>4, <2>1, <2>10 DEF BatchGood
    <3>2. o = "ok" BY <2>2, <2>10
    <3>3. first + (i - 1) = p /\ p + 1 = first + i BY <2>3
    <3>4. A.n_written >= p BY <3>1, <3>3
    <3>5. NoHole(a[i]) /\ a[i].n_written >= p + 1 BY <2>6, <3>1, <3>2, <3>4 DEF PutGood
    <3> QED BY <3>3, <3>5
  <2> QED BY <2>7, <2>9, <2>10 DEF BatchGood
<1>5. \A i \in 0 .. n : P(i)
  <2> SUFFICES ASSUME Bad # {} PROVE FALSE OBVIOUS
  <2> HIDE DEF P
  <2>1. Bad \subseteq Nat OBVIOUS
  <2>2. PICK m \in Bad : \A i \in Bad : m <= i BY <2>1, LeastElement
  <2>3. m # 0 BY <1>3
  <2>4. m \in 1 .. n /\ m - 1 \in 0 .. n /\ ~(m <= m - 1) BY <2>3
  <2>5. P(m - 1) BY <2>2, <2>4
  <2>6. P(m) BY <1>4, <2>4, <2>5
  <2> QED BY <2>2, <2>6
<1>6. P(n)
  <2>1. n \in 0 .. n OBVIOUS
  <2> HIDE DEF P
  <2> QED BY <1>5, <2>1
<1> QED BY <1>2, <1>6

-----------------------------------------------------------------------------
(* What the steps do to a layer.                                            *)

(* Rows stay right when keys are put.                                       *)
LEMMA LayerAfterPut ==
    ASSUME NEW L, NEW K, NEW M, NEW l, NEW c \in Nat, NEW ended \in BOOLEAN, LayerOK(L, K, l, c, ended),
           K.raw_max \in Nat, M.raw_max \in Nat, Grown(K, M, l, c)
    PROVE  LayerOK(L, M, l, c, ended)
<1>1. L \in LayerSet BY DEF LayerOK
<1>2. ASSUME NEW i \in 1 .. Len(L.rows) PROVE RowOK(L.rows[i], L.keys, M, l, c, ended)
  <2>1. PICK r : r = L.rows[i] OBVIOUS
  <2>2. RowOK(r, L.keys, K, l, c, ended) BY <2>1 DEF LayerOK
  <2>3. Len(r.b) \in Nat BY <1>1, <2>1, LayerTyped
  <2>4. OpenRow(r, K, l, c) => OpenRow(r, M, l, c)
    <3> SUFFICES ASSUME OpenRow(r, K, l, c) PROVE OpenRow(r, M, l, c) OBVIOUS
    <3>1. Len(r.b) <= K.raw_max /\ K.raw_max <= M.raw_max BY DEF OpenRow, Grown
    <3>2. Len(r.b) <= M.raw_max /\ \A j \in 1 .. Len(r.b) : j \in 1 .. K.raw_max BY <2>3, <3>1
    <3> QED BY <3>2 DEF OpenRow, Grown
  <2> QED BY <2>1, <2>2, <2>4 DEF RowOK
<1> QED BY <1>2 DEF LayerOK

(* A layer whose rows are those of L and all have their keys.               *)
SealOne(L, K, c) == IF K.raw_max > 0 THEN add_keys(L, c, SubSeq(K.raw, 1, K.raw_max)) ELSE L

SealedOK(N, L, c) ==
    /\ N \in LayerSet /\ N.rows = L.rows /\ Len(N.keys) <= c + 1
    /\ N.keys # <<>> => N.key_dim = 2
    /\ N.rows # <<>> => MaxHeads > 0
    /\ \A i \in 1 .. Len(N.rows) : N.rows[i].chunk <= c /\ RowTrue(N.rows[i], N.keys)

(* add_keys, when the chunk has none yet.                                   *)
LEMMA AddKeys ==
    ASSUME NEW L \in LayerSet, NEW c \in Nat, Len(L.keys) <= c, NEW R \in Seq(Pair), NEW N, N = add_keys(L, c, R)
    PROVE  /\ N \in LayerSet /\ N.rows = L.rows /\ Len(N.keys) = c + 1 /\ N.key_dim = 2
           /\ N.keys[c + 1] = R
           /\ \A i \in 1 .. Len(L.keys) : i # c + 1 /\ N.keys[i] = L.keys[i] /\ i \in 1 .. c + 1
           /\ \A i \in 1 .. c + 1 : i = c + 1 \/ i \in 1 .. Len(L.keys) \/ N.keys[i] = <<>>
<1>1. Len(L.keys) \in Nat /\ \A i \in 1 .. Len(L.keys) : L.keys[i] \in Seq(Pair) BY LayerTyped
<1>2. PICK k \in Nat : k = Len(L.keys) /\ k <= c BY <1>1
<1>3. PICK g : g = [i \in 1 .. c + 1 |-> IF i = c + 1 THEN R ELSE IF i <= k THEN L.keys[i] ELSE <<>>]
  OBVIOUS
<1>4. ~(k > c) BY <1>2
<1>5. N = [L EXCEPT !.keys = g, !.key_dim = 2] BY <1>2, <1>3, <1>4 DEF add_keys, KeyGroups
<1>6. g \in [1 .. c + 1 -> Seq(Pair)]
  <2>1. <<>> \in Seq(Pair) BY EmptySeq
  <2>2. \A i \in 1 .. c + 1 : i <= k => i \in 1 .. Len(L.keys) BY <1>2
  <2> QED BY <1>1, <1>3, <2>1, <2>2
<1>7. g \in Seq(Seq(Pair)) /\ Len(g) = c + 1
  <2>1. c + 1 \in Nat OBVIOUS
  <2> QED BY <1>6, <2>1, FcnSeq
<1>8. N \in LayerSet /\ N.rows = L.rows /\ N.keys = g /\ N.key_dim = 2 BY <1>5, <1>7 DEF LayerSet
<1>9. g[c + 1] = R
  <2>1. c + 1 \in 1 .. c + 1 OBVIOUS
  <2> QED BY <1>3, <2>1
<1>10. \A i \in 1 .. k : i # c + 1 /\ i \in 1 .. c + 1 /\ i <= k BY <1>2
<1>11. \A i \in 1 .. k : g[i] = L.keys[i] BY <1>3, <1>10
<1>12. \A i \in 1 .. c + 1 : i = c + 1 \/ i \in 1 .. k \/ g[i] = <<>>
  <2>1. \A i \in 1 .. c + 1 : i <= k => i \in 1 .. k OBVIOUS
  <2> QED BY <1>3, <2>1
<1> QED BY <1>2, <1>7, <1>8, <1>9, <1>10, <1>11, <1>12

(* The raw keys up to the maximal position.                                 *)
LEMMA RawPrefix ==
    ASSUME NEW a \in Seq(Pair), NEW m \in Nat, m <= Len(a)
    PROVE  LET R == SubSeq(a, 1, m) IN R \in Seq(Pair) /\ Len(R) = m /\ \A i \in 1 .. m : R[i] = a[i]
<1>1. PICK R : R = SubSeq(a, 1, m) OBVIOUS
<1>2. Len(a) \in Nat /\ \A i \in 1 .. Len(a) : a[i] \in Pair BY LenProperties, ElementOfSeq
<1>3. \A i \in 1 .. m : a[i] \in Pair
  <2>1. \A i \in 1 .. m : i \in 1 .. Len(a) BY <1>2
  <2> QED BY <1>2, <2>1
<1>4. /\ R \in Seq(Pair) /\ Len(R) = (IF 1 <= m THEN m - 1 + 1 ELSE 0)
      /\ \A i \in 1 .. m - 1 + 1 : R[i] = a[1 + i - 1]
  BY <1>1, <1>3, SubSeqProperties
<1>5. Len(R) = m BY <1>4
<1>6. \A i \in 1 .. m : i \in 1 .. m - 1 + 1 /\ 1 + i - 1 = i OBVIOUS
<1>7. ASSUME NEW i \in 1 .. m PROVE R[i] = a[i]
  <2>1. R[i] = a[1 + i - 1] BY <1>4, <1>6
  <2> QED BY <2>1, <1>6
<1> QED BY <1>1, <1>4, <1>5, <1>7

(* Sealing gives every row its keys.                                        *)
LEMMA LayerSealed ==
    ASSUME NEW L, NEW K, NEW l, NEW c \in Nat, LayerOK(L, K, l, c, FALSE), KvOK(K, l, c)
    PROVE  SealedOK(SealOne(L, K, c), L, c)
<1>1. L \in LayerSet /\ Len(L.keys) <= c /\ (L.keys # <<>> => L.key_dim = 2) /\ (L.rows # <<>> => MaxHeads > 0)
      /\ \A i \in 1 .. Len(L.rows) : RowOK(L.rows[i], L.keys, K, l, c, FALSE)
  BY DEF LayerOK
<1>2. K.raw \in Seq(Pair) /\ K.raw_max \in Nat /\ K.raw_max <= Len(K.raw) BY DEF KvOK, KvSet
<1>3. Len(L.keys) \in Nat /\ \A i \in 1 .. Len(L.rows) : Len(L.rows[i].b) \in Nat /\ L.rows[i].chunk \in Nat
  BY <1>1, LayerTyped
<1>4. CASE K.raw_max > 0
  <2>1. PICK R : R = SubSeq(K.raw, 1, K.raw_max) OBVIOUS
  <2>2. R \in Seq(Pair) /\ Len(R) = K.raw_max /\ \A i \in 1 .. K.raw_max : R[i] = K.raw[i]
    BY <1>2, <2>1, RawPrefix
  <2>3. PICK N : N = SealOne(L, K, c) OBVIOUS
  <2>4. N = add_keys(L, c, R) BY <1>4, <2>1, <2>3 DEF SealOne
  <2>5. /\ N \in LayerSet /\ N.rows = L.rows /\ Len(N.keys) = c + 1 /\ N.key_dim = 2 /\ N.keys[c + 1] = R
        /\ \A i \in 1 .. Len(L.keys) : i # c + 1 /\ N.keys[i] = L.keys[i] /\ i \in 1 .. c + 1
    BY <1>1, <2>2, <2>4, AddKeys
  <2>6. ASSUME NEW i \in 1 .. Len(L.rows) PROVE L.rows[i].chunk <= c /\ RowTrue(L.rows[i], N.keys)
    <3>1. PICK r : r = L.rows[i] OBVIOUS
    <3>2. RowOK(r, L.keys, K, l, c, FALSE) /\ r.chunk \in Nat /\ Len(r.b) \in Nat BY <1>1, <1>3, <3>1
    <3>3. r.chunk <= c BY <3>2 DEF RowOK
    <3>4. CASE r.chunk < c
      <4>1. RowTrue(r, L.keys) BY <3>2, <3>4 DEF RowOK
      <4>2. r.chunk + 1 \in 1 .. Len(L.keys) BY <4>1 DEF RowTrue
      <4>3. N.keys[r.chunk + 1] = L.keys[r.chunk + 1] /\ r.chunk + 1 \in 1 .. Len(N.keys) BY <2>5, <4>2
      <4>4. RowTrue(r, N.keys) BY <4>1, <4>3 DEF RowTrue
      <4> QED BY <3>1, <3>3, <4>4
    <3>5. CASE ~(r.chunk < c)
      <4>1. OpenRow(r, K, l, c) /\ r.chunk = c BY <3>2, <3>3, <3>5 DEF RowOK
      <4>2. r.chunk + 1 \in 1 .. Len(N.keys) /\ N.keys[r.chunk + 1] = R BY <2>5, <4>1
      <4>3. Len(r.b) >= 1 /\ Len(r.s) = Len(r.b) /\ Len(r.b) <= Len(R) BY <2>2, <4>1 DEF OpenRow
      <4>4. \A j \in 1 .. Len(r.b) : r.b[j] = Dot(r.q, R[j])
        <5>1. \A j \in 1 .. Len(r.b) : j \in 1 .. K.raw_max BY <1>2, <2>2, <3>2, <4>3
        <5> QED BY <2>2, <4>1, <5>1 DEF OpenRow
      <4>5. RowTrue(r, N.keys) BY <4>2, <4>3, <4>4 DEF RowTrue
      <4> QED BY <3>1, <3>3, <4>5
    <3> QED BY <3>4, <3>5
  <2>7. Len(N.keys) <= c + 1 BY <2>5
  <2>8. SealedOK(N, L, c) BY <1>1, <2>5, <2>6, <2>7 DEF SealedOK
  <2> QED BY <2>3, <2>8
<1>5. CASE ~(K.raw_max > 0)
  <2>1. SealOne(L, K, c) = L BY <1>5 DEF SealOne
  <2>2. ASSUME NEW i \in 1 .. Len(L.rows) PROVE L.rows[i].chunk <= c /\ RowTrue(L.rows[i], L.keys)
    <3>1. PICK r : r = L.rows[i] OBVIOUS
    <3>2. RowOK(r, L.keys, K, l, c, FALSE) /\ r.chunk \in Nat /\ Len(r.b) \in Nat BY <1>1, <1>3, <3>1
    <3>3. ~OpenRow(r, K, l, c) BY <1>2, <1>5, <3>2 DEF OpenRow
    <3> QED BY <3>1, <3>2, <3>3 DEF RowOK
  <2>3. Len(L.keys) <= c + 1 BY <1>1, <1>3
  <2>4. SealedOK(L, L, c) BY <1>1, <2>2, <2>3 DEF SealedOK
  <2> QED BY <2>1, <2>4
<1> QED BY <1>4, <1>5

(* Sealing shows that every chunk with keys has a row.                      *)
ChunksHaveRows(L) == \A d \in 1 .. Len(L.keys) : L.keys[d] # <<>> => HasRow(L, d - 1)

(* Sealing leaves no chunk of keys without a row.                           *)
LEMMA SealedFull ==
    ASSUME NEW L, NEW K, NEW l, NEW c \in Nat, LayerOK(L, K, l, c, FALSE), KvOK(K, l, c), NEW done,
           LayerFull(L, K, c, FALSE, FALSE, done)
    PROVE  ChunksHaveRows(SealOne(L, K, c))
<1>1. L \in LayerSet /\ Len(L.keys) <= c BY DEF LayerOK
<1>2. K.raw \in Seq(Pair) /\ K.raw_max \in Nat /\ K.raw_max <= Len(K.raw) BY DEF KvOK, KvSet
<1>3. ChunksHaveRows(L) /\ (K.raw_max > 0 => HasRow(L, c)) BY DEF LayerFull, ChunksHaveRows
<1>4. CASE K.raw_max > 0
  <2>1. PICK R : R = SubSeq(K.raw, 1, K.raw_max) OBVIOUS
  <2>2. R \in Seq(Pair) BY <1>2, <2>1, RawPrefix
  <2>3. PICK N : N = SealOne(L, K, c) OBVIOUS
  <2>4. N = add_keys(L, c, R) BY <1>4, <2>1, <2>3 DEF SealOne
  <2>5. /\ N.rows = L.rows /\ Len(N.keys) = c + 1
        /\ \A i \in 1 .. Len(L.keys) : N.keys[i] = L.keys[i]
        /\ \A i \in 1 .. c + 1 : i = c + 1 \/ i \in 1 .. Len(L.keys) \/ N.keys[i] = <<>>
    BY <1>1, <2>2, <2>4, AddKeys
  <2>6. \A d : HasRow(N, d) <=> HasRow(L, d) BY <2>5 DEF HasRow
  <2>7. ASSUME NEW d \in 1 .. c + 1, N.keys[d] # <<>> PROVE HasRow(N, d - 1)
    <3>1. CASE d = c + 1
      <4>1. d - 1 = c BY <3>1
      <4> QED BY <1>3, <1>4, <2>6, <4>1
    <3>2. CASE d \in 1 .. Len(L.keys) BY <1>3, <2>5, <2>6, <2>7, <3>2 DEF ChunksHaveRows
    <3> QED BY <2>5, <2>7, <3>1, <3>2
  <2> QED BY <2>3, <2>5, <2>7 DEF ChunksHaveRows
<1>5. CASE ~(K.raw_max > 0) BY <1>3, <1>5 DEF SealOne
<1> QED BY <1>4, <1>5

(* What is sealed stays right, whatever the new keys are.                   *)
LEMMA SealedNext ==
    ASSUME NEW N, NEW L, NEW K, NEW l, NEW c \in Nat, SealedOK(N, L, c)
    PROVE  LayerOK(N, K, l, c + 1, FALSE) /\ LayerOK(N, K, l, c, TRUE)
<1>1. N \in LayerSet BY DEF SealedOK
<1>2. \A i \in 1 .. Len(N.rows) : N.rows[i].chunk \in Nat BY <1>1, LayerTyped
<1>3. \A i \in 1 .. Len(N.rows) : N.rows[i].chunk <= c /\ N.rows[i].chunk <= c + 1 /\ N.rows[i].chunk < c + 1
  BY <1>2 DEF SealedOK
<1>4. \A i \in 1 .. Len(N.rows) : RowOK(N.rows[i], N.keys, K, l, c + 1, FALSE) /\ RowOK(N.rows[i], N.keys, K, l, c, TRUE)
  BY <1>3 DEF SealedOK, RowOK
<1> QED BY <1>4 DEF SealedOK, LayerOK

(* A row is added, or counted as lost.                                      *)
Added(N, L, K, l, c, finite) ==
    /\ LayerOK(N, K, l, c, FALSE) /\ N.keys = L.keys
    /\ finite => HasRow(N, c)
    /\ \A d : HasRow(L, d) => HasRow(N, d)

(* add_row does so.                                                         *)
LEMMA RowAdded ==
    ASSUME NEW L, NEW K, NEW l, NEW c \in Nat, LayerOK(L, K, l, c, FALSE),
           NEW r \in RowSet, r.chunk = c, OpenRow(r, K, l, c), MaxHeads > 0, NEW finite \in BOOLEAN
    PROVE  Added(add_row(L, r, finite), L, K, l, c, finite)
<1>1. L \in LayerSet /\ L.rows \in Seq(RowSet) BY DEF LayerOK, LayerSet
<1>2. CASE finite
  <2>1. PICK N : N = add_row(L, r, finite) OBVIOUS
  <2>2. PICK g : g = Append(L.rows, r) OBVIOUS
  <2>3. N = [L EXCEPT !.rows = g] BY <1>2, <2>1, <2>2 DEF add_row
  <2>4. PICK n \in Nat : n = Len(L.rows) BY <1>1, LenProperties
  <2>5. g \in Seq(RowSet) /\ Len(g) = n + 1 /\ (\A i \in 1 .. n : g[i] = L.rows[i]) /\ g[n + 1] = r
    BY <1>1, <2>2, <2>4, AppendProperties
  <2>6. N \in LayerSet /\ N.rows = g /\ N.keys = L.keys /\ N.key_dim = L.key_dim
    BY <1>1, <2>3, <2>5 DEF LayerSet
  <2>7. RowOK(r, L.keys, K, l, c, FALSE)
    <3>1. ~(c < c) /\ c <= c OBVIOUS
    <3> QED BY <3>1 DEF RowOK
  <2>8. ASSUME NEW i \in 1 .. n + 1 PROVE RowOK(g[i], L.keys, K, l, c, FALSE)
    <3>1. CASE i = n + 1 BY <2>5, <2>7, <3>1
    <3>2. CASE i # n + 1
      <4>1. i \in 1 .. n BY <3>2
      <4>2. RowOK(L.rows[i], L.keys, K, l, c, FALSE) BY <2>4, <4>1 DEF LayerOK
      <4> QED BY <2>5, <4>1, <4>2
    <3> QED BY <3>1, <3>2
  <2>9. LayerOK(N, K, l, c, FALSE) BY <2>5, <2>6, <2>8 DEF LayerOK
  <2>10. HasRow(N, c)
    <3>1. n + 1 \in 1 .. n + 1 OBVIOUS
    <3> QED BY <2>5, <2>6, <3>1 DEF HasRow
  <2>11. ASSUME NEW d, HasRow(L, d) PROVE HasRow(N, d)
    <3>1. PICK i \in 1 .. n : L.rows[i].chunk = d BY <2>4, <2>11 DEF HasRow
    <3>2. i \in 1 .. n + 1 OBVIOUS
    <3> QED BY <2>5, <2>6, <3>1, <3>2 DEF HasRow
  <2> QED BY <2>1, <2>6, <2>9, <2>10, <2>11 DEF Added
<1>3. CASE ~finite
  <2>1. PICK N : N = add_row(L, r, finite) OBVIOUS
  <2>0. PICK k \in Nat : k = L.rejected + 1
    <3>1. L.rejected \in Nat BY <1>1 DEF LayerSet
    <3> QED BY <3>1
  <2>2. N = [L EXCEPT !.rejected = k] BY <1>3, <2>0, <2>1 DEF add_row
  <2>3. N \in LayerSet /\ N.rows = L.rows /\ N.keys = L.keys /\ N.key_dim = L.key_dim
    BY <1>1, <2>2 DEF LayerSet
  <2>4. LayerOK(N, K, l, c, FALSE) BY <2>3 DEF LayerOK
  <2>5. \A d : HasRow(L, d) => HasRow(N, d) BY <2>3 DEF HasRow
  <2> QED BY <1>3, <2>1, <2>3, <2>4, <2>5 DEF Added
<1> QED BY <1>2, <1>3

(* A logit is a number.                                                     *)
LEMMA DotTyped == ASSUME NEW q \in Pair, NEW k \in Pair PROVE Dot(q, k) \in Int
<1>1. q[1] \in Int /\ q[2] \in Int /\ k[1] \in Int /\ k[2] \in Int BY DEF Pair
<1> QED BY <1>1 DEF Dot

(* The row of a vector, when no tile is absent, has the logits of the keys. *)
LEMMA RowMade ==
    ASSUME NEW l \in Nat, NEW t \in Nat, NEW h \in Nat, NEW c \in Nat, rank.chunk = c, NEW K, K = kv[l],
           KvOK(K, l, c), NoHole(K), K.n_written > 0
    PROVE  /\ RowOf(l, t, h) \in RowSet /\ RowOf(l, t, h).chunk = c
           /\ OpenRow(RowOf(l, t, h), K, l, c)
<1>1. /\ K.tiles \in Seq(Pair) /\ K.n_written \in Nat /\ K.raw_max \in Nat /\ K.n_written = Len(K.tiles)
      /\ K.n_written <= K.raw_max
      /\ \A j \in 1 .. K.n_written : K.tiles[j] = KeyOf(c, l, j - 1) /\ K.raw[j] = KeyOf(c, l, j - 1)
  BY DEF KvOK, KvSet, NoHole
<1>2. PICK w \in Nat \ {0} : w = K.n_written BY <1>1
<1>3. PICK v \in 1 .. w : v = IF t + 1 < w THEN t + 1 ELSE w OBVIOUS
<1>4. PICK q : q = Extended(t, h) OBVIOUS
<1>5. q \in Pair BY <1>4 DEF Extended, Pair, KeyGroups
<1>6. PICK b : b = [j \in 1 .. v |-> Dot(q, K.tiles[j])] OBVIOUS
<1>7. PICK s : s = [j \in 1 .. v |-> Dot(q, K.tiles[j]) + 1] OBVIOUS
<1>8. \A j \in 1 .. v : K.tiles[j] \in Pair /\ j \in 1 .. w
  <2>1. \A j \in 1 .. v : j \in 1 .. w OBVIOUS
  <2> QED BY <1>1, <1>2, <2>1, ElementOfSeq
<1>9. \A j \in 1 .. v : Dot(q, K.tiles[j]) \in Int BY <1>5, <1>8, DotTyped
<1>10. v \in Nat OBVIOUS
<1>11. b \in Seq(Int) /\ Len(b) = v
  <2>1. b \in [1 .. v -> Int] BY <1>6, <1>9
  <2> QED BY <1>10, <2>1, FcnSeq
<1>12. s \in Seq(Int) /\ Len(s) = v
  <2>1. s \in [1 .. v -> Int] BY <1>7, <1>9
  <2> QED BY <1>10, <2>1, FcnSeq
<1>13. PICK r : r = RowOf(l, t, h) OBVIOUS
<1>14. r = [head |-> h, gqa |-> h, token |-> t, chunk |-> c, q |-> q, b |-> b, s |-> s]
  BY <1>2, <1>3, <1>4, <1>6, <1>7, <1>13 DEF RowOf
<1>15. r \in RowSet /\ r.chunk = c /\ r.q = q /\ r.b = b /\ r.s = s
  BY <1>5, <1>11, <1>12, <1>14 DEF RowSet
<1>16. v >= 1 /\ v <= K.raw_max BY <1>1, <1>2
<1>17. \A j \in 1 .. v : K.raw[j] = KeyOf(c, l, j - 1) /\ b[j] = Dot(q, KeyOf(c, l, j - 1))
  BY <1>1, <1>2, <1>6, <1>8
<1>18. OpenRow(r, K, l, c) BY <1>11, <1>12, <1>15, <1>16, <1>17 DEF OpenRow
<1> QED BY <1>13, <1>15, <1>18

-----------------------------------------------------------------------------
(* The steps.                                                               *)

LayersOK ==
    \A l \in Layers : /\ KvOK(kv[l], l, session.clears)
                      /\ LayerOK(rank.layers[l], kv[l], l, session.clears, session.ended)

Unlost ==
    MaxHeads > 0 /\ session.lost = 0 =>
        \A l \in Layers : LayerFull(rank.layers[l], kv[l], session.clears, session.ended,
                                    Waiting(session.at, l), Done(session, l))

(* The types of a session.                                                  *)
LEMMA SessionFields ==
    ASSUME SessionOK(session)
    PROVE  /\ session.at \in AtSet /\ session.past \in Nat /\ session.clears \in Nat /\ session.lost \in Nat
           /\ session.ended \in BOOLEAN
           /\ session.at.phase \in {"idle", "keys", "scores"} /\ session.at.layer \in Nat
           /\ session.at.first \in Nat /\ session.at.n \in Nat /\ session.at.todo \subseteq Nat
<1>1. session \in SessionSet BY DEF SessionOK
<1>2. session.at \in AtSet BY <1>1 DEF SessionSet
<1>3. /\ session.at.phase \in {"idle", "keys", "scores"} /\ session.at.layer \in Nat
      /\ session.at.first \in Nat /\ session.at.n \in Nat /\ session.at.todo \subseteq Nat
  BY <1>2 DEF AtSet
<1> QED BY <1>1, <1>2, <1>3 DEF SessionSet

(* A layer id is a number.                                                  *)
LEMMA LayerIsNat == ASSUME NEW l \in Layers PROVE l \in Nat
  BY RankAssumption DEF RankAssumption, Layers

(* The invariant holds at the start.                                        *)
LEMMA RankInitial == ASSUME TRUE \notin PriorDatasets PROVE RankInit => RankInv
<1> SUFFICES ASSUME RankInit PROVE RankInv OBVIOUS
<1>1. rank = [chunk |-> 0, layers |-> [l \in Layers |-> NoLayerData]] /\ kv = [l \in Layers |-> NoKeys]
      /\ session = [at |-> NoBatch, past |-> 0, clears |-> 0, lost |-> 0, ended |-> FALSE]
  BY DEF RankInit
<1>2. disk.manifest = NoManifest
  <2>1. PICK prior \in PriorDatasets :
          disk = IF prior
                 THEN [files |-> [l \in Layers |-> Serialised(l, PriorLayer)],
                       manifest |-> [layers |-> Layers, valid |-> TRUE]]
                 ELSE [files |-> [l \in Layers |-> Missing], manifest |-> NoManifest]
    BY DEF RankInit
  <2>2. prior = FALSE BY RankAssumption DEF RankAssumption
  <2>3. disk = [files |-> [l \in Layers |-> Missing], manifest |-> NoManifest] BY <2>1, <2>2
  <2> QED BY <2>3
<1>3. NoLayerData \in LayerSet /\ NoLayerData.rows = <<>> /\ NoLayerData.keys = <<>>
  <2>1. \A S : <<>> \in Seq(S) BY EmptySeq
  <2> QED BY <2>1 DEF NoLayerData, LayerSet
<1>4. NoKeys \in KvSet /\ NoKeys.raw = <<>> /\ NoKeys.tiles = <<>> /\ NoKeys.raw_max = 0 /\ NoKeys.n_written = 0
  <2>1. \A S : <<>> \in Seq(S) BY EmptySeq
  <2> QED BY <2>1 DEF NoKeys, KvSet
<1>5. rank \in [chunk : Nat, layers : [Layers -> LayerSet]] /\ kv \in [Layers -> KvSet]
      /\ rank.chunk = session.clears
  BY <1>1, <1>3, <1>4
<1>6. SessionOK(session)
  <2>1. NoBatch \in AtSet /\ NoBatch.phase = "idle" BY DEF NoBatch, AtSet
  <2>2. session \in SessionSet BY <1>1, <2>1 DEF SessionSet
  <2> QED BY <1>1, <2>1, <2>2 DEF SessionOK
<1>7. Len(<<>>) = 0 OBVIOUS
<1>8. ASSUME NEW l \in Layers
      PROVE  KvOK(kv[l], l, session.clears) /\ LayerOK(rank.layers[l], kv[l], l, session.clears, session.ended)
  <2>1. kv[l] = NoKeys /\ rank.layers[l] = NoLayerData /\ session.clears = 0 /\ session.ended = FALSE BY <1>1
  <2>2. \A j \in 1 .. 0 : FALSE OBVIOUS
  <2>3. KvOK(NoKeys, l, 0) BY <1>4, <1>7, <2>2 DEF KvOK
  <2>4. LayerOK(NoLayerData, NoKeys, l, 0, FALSE) BY <1>3, <1>7, <2>2 DEF LayerOK
  <2> QED BY <2>1, <2>3, <2>4
<1>9. ASSUME NEW l \in Layers
      PROVE  LayerFull(rank.layers[l], kv[l], session.clears, session.ended, Waiting(session.at, l), Done(session, l))
  <2>1. kv[l] = NoKeys /\ rank.layers[l] = NoLayerData /\ session.past = 0 /\ session.at.phase = "idle"
    BY <1>1 DEF NoBatch
  <2>2. \A j \in 1 .. 0 : FALSE OBVIOUS
  <2>3. Done(session, l) = 0 BY <2>1 DEF Done, Encoded
  <2>4. NoHole(NoKeys) BY <1>4, <2>2 DEF NoHole
  <2>5. ~(NoKeys.raw_max > 0) /\ NoKeys.n_written >= 0 BY <1>4
  <2> QED BY <1>3, <1>7, <2>1, <2>2, <2>3, <2>4, <2>5 DEF LayerFull
<1>10. DiskOK BY <1>2 DEF DiskOK, NoManifest
<1> QED BY <1>5, <1>6, <1>8, <1>9, <1>10 DEF RankInv

(* Before exit the directory has no manifest.                               *)
LEMMA DiskKept ==
    ASSUME DiskOK, ~session.ended, disk' = disk
    PROVE  DiskOK'
<1>1. disk.manifest = NoManifest BY DEF DiskOK
<1>2. ~disk.manifest.valid BY <1>1 DEF NoManifest
<1> QED BY <1>1, <1>2 DEF DiskOK

(* llama_decode keeps the invariant ...                                     *)
LEMMA DecodeKeeps ==
    ASSUME RankInv, NEW n \in BatchSizes, DecodeBatch(n)
    PROVE  RankInv'
<1>1. /\ rank \in [chunk : Nat, layers : [Layers -> LayerSet]] /\ kv \in [Layers -> KvSet]
      /\ SessionOK(session) /\ rank.chunk = session.clears /\ LayersOK /\ Unlost /\ DiskOK
  BY DEF RankInv, LayersOK, Unlost
<1>2. ~session.ended /\ session.at = NoBatch /\ rank' = rank /\ kv' = kv /\ disk' = disk BY DEF DecodeBatch
<1>3. n \in Nat /\ n >= 1 BY RankAssumption DEF RankAssumption
<1>4. session \in SessionSet BY <1>1 DEF SessionOK
<1>5. session.past \in Nat BY <1>4 DEF SessionSet
<1>6. PICK a : a = [phase |-> "keys", layer |-> 0, first |-> session.past, n |-> n, todo |-> {}] OBVIOUS
<1>0. PICK p \in Nat : p = session.past + n BY <1>3, <1>5
<1>7. session' = [session EXCEPT !.at = a, !.past = p] BY <1>0, <1>6 DEF DecodeBatch
<1>8. a \in AtSet /\ a.phase = "keys" /\ a.layer = 0 /\ a.first = session.past /\ a.n = n
  BY <1>3, <1>5, <1>6 DEF AtSet
<1>9. /\ session' \in SessionSet /\ session'.at = a /\ session'.past = p
      /\ session'.clears = session.clears /\ session'.lost = session.lost /\ session'.ended = session.ended
  BY <1>3, <1>4, <1>5, <1>7, <1>8 DEF SessionSet
<1>10. 0 \in Layers BY RankAssumption DEF RankAssumption, Layers
<1>11. SessionOK(session)'
  BY <1>0, <1>2, <1>3, <1>8, <1>9, <1>10 DEF SessionOK
<1>12. LayersOK' BY <1>1, <1>2, <1>9 DEF LayersOK
<1>13. Unlost'
  <2> SUFFICES ASSUME MaxHeads > 0, session'.lost = 0, NEW l \in Layers
               PROVE  LayerFull(rank.layers[l], kv[l], session.clears, session.ended,
                                Waiting(session'.at, l), Done(session', l))
    BY <1>2, <1>9 DEF Unlost
  <2>1. LayerFull(rank.layers[l], kv[l], session.clears, session.ended,
                  Waiting(session.at, l), Done(session, l))
    BY <1>1, <1>9 DEF Unlost
  <2>2. ~Waiting(session.at, l) /\ ~Waiting(session'.at, l)
    BY <1>2, <1>8, <1>9 DEF Waiting, NoBatch
  <2>3. Done(session, l) = session.past BY <1>2 DEF Done, Encoded, NoBatch
  <2>4. l \in Nat /\ ~(l < 0) BY LayerIsNat
  <2>5. Done(session', l) = session.past BY <1>8, <1>9, <2>4 DEF Done, Encoded
  <2> QED BY <2>1, <2>2, <2>3, <2>5 DEF LayerFull
<1>14. DiskOK' BY <1>1, <1>2, DiskKept
<1> QED BY <1>1, <1>2, <1>9, <1>11, <1>12, <1>13, <1>14 DEF RankInv, LayersOK, Unlost

(* ... and so does encoding the keys of a layer ...                         *)
LEMMA KeysKeep ==
    ASSUME RankInv, NEW bad \in Nat, NEW o \in {"ok", "encode", "store"}, TransformKeys(bad, o)
    PROVE  RankInv'
<1>1. /\ rank \in [chunk : Nat, layers : [Layers -> LayerSet]] /\ kv \in [Layers -> KvSet]
      /\ SessionOK(session) /\ rank.chunk = session.clears /\ LayersOK /\ Unlost /\ DiskOK
  BY DEF RankInv, LayersOK, Unlost
<1>2. PICK at, k, c : at = session.at /\ k = at.layer /\ c = session.clears OBVIOUS
<1>3. /\ at.phase = "keys" /\ rank' = rank /\ disk' = disk
      /\ kv' = [kv EXCEPT ![k] = PutKeys(kv[k], k, at.first, at.n, bad, o)]
      /\ session' = [session EXCEPT !.at.phase = "scores", !.at.todo = 0 .. at.n * RankHeads - 1,
                                    !.lost = @ + IF bad = 0 THEN 0 ELSE 1]
  BY <1>2 DEF TransformKeys
<1>4. /\ at \in AtSet /\ at.first \in Nat /\ at.n \in Nat /\ c \in Nat /\ session.lost \in Nat /\ session.past \in Nat
  BY <1>1, <1>2, SessionFields
<1>5. k \in Layers /\ session.past = at.first + at.n /\ at.n >= 1 /\ ~session.ended
  BY <1>1, <1>2, <1>3 DEF SessionOK
<1>6. k \in Nat BY <1>5, LayerIsNat
<1>7. PICK a : a = [at EXCEPT !.phase = "scores", !.todo = 0 .. at.n * RankHeads - 1] OBVIOUS
<1>8. PICK m \in Nat : m = session.lost + (IF bad = 0 THEN 0 ELSE 1) BY <1>4
<1>9. RankHeads \in Nat \ {0} BY RankAssumption DEF RankAssumption
<1>10. (0 .. at.n * RankHeads - 1) \subseteq Nat /\ 0 \in 0 .. at.n * RankHeads - 1
  <2>1. PICK x \in Nat \ {0}, y \in Nat \ {0} : x = at.n /\ y = RankHeads BY <1>4, <1>5, <1>9
  <2>2. x * y \in Nat \ {0} OBVIOUS
  <2>3. PICK z \in Nat \ {0} : z = at.n * RankHeads BY <2>1, <2>2
  <2>4. (0 .. z - 1) \subseteq Nat /\ 0 \in 0 .. z - 1 OBVIOUS
  <2> QED BY <2>3, <2>4
<1>11. /\ a \in AtSet /\ a.phase = "scores" /\ a.layer = k /\ a.first = at.first /\ a.n = at.n /\ 0 \in a.todo
  <2>1. PICK X : X = 0 .. at.n * RankHeads - 1 /\ X \subseteq Nat /\ 0 \in X BY <1>10
  <2>2. a = [at EXCEPT !.phase = "scores", !.todo = X] BY <1>7, <2>1
  <2> QED BY <1>2, <1>4, <2>1, <2>2 DEF AtSet
<1>12. session \in SessionSet BY <1>1 DEF SessionOK
<1>13. session' = [session EXCEPT !.at = a, !.lost = m] BY <1>2, <1>3, <1>7, <1>8, <1>12 DEF SessionSet
<1>14. /\ session' \in SessionSet /\ session'.at = a /\ session'.past = session.past
       /\ session'.clears = c /\ session'.lost = m /\ session'.ended = session.ended
  BY <1>2, <1>11, <1>12, <1>13 DEF SessionSet
<1>15. SessionOK(session)' BY <1>5, <1>11, <1>14 DEF SessionOK
<1>16. PICK K, M : K = kv[k] /\ M = PutKeys(kv[k], k, at.first, at.n, bad, o) OBVIOUS
<1>17. kv' = [kv EXCEPT ![k] = M] BY <1>3, <1>16
<1>18. KvOK(K, k, c) BY <1>1, <1>2, <1>5, <1>16 DEF LayersOK
<1>19. BatchGood(K, M, k, at.first, at.n, c, bad) BY <1>2, <1>4, <1>6, <1>16, <1>18, KeysPut
<1>20. KvOK(M, k, c) /\ Grown(K, M, k, c) /\ M \in KvSet BY <1>19 DEF BatchGood, KvOK
<1>21. kv' \in [Layers -> KvSet] /\ kv'[k] = M /\ \A l \in Layers : l # k => kv'[l] = kv[l]
  BY <1>1, <1>5, <1>17, <1>20
<1>22. K.raw_max \in Nat /\ M.raw_max \in Nat BY <1>18, <1>20 DEF KvOK, KvSet
<1>23. ASSUME NEW l \in Layers
       PROVE  KvOK(kv'[l], l, c) /\ LayerOK(rank.layers[l], kv'[l], l, c, session.ended)
  <2>1. KvOK(kv[l], l, c) /\ LayerOK(rank.layers[l], kv[l], l, c, session.ended) BY <1>1, <1>2 DEF LayersOK
  <2>2. CASE l = k
    <3>1. LayerOK(rank.layers[k], K, k, c, FALSE) BY <1>5, <1>16, <2>1, <2>2 DEF LayerOK, RowOK
    <3>2. LayerOK(rank.layers[k], M, k, c, FALSE) BY <1>4, <1>20, <1>22, <3>1, LayerAfterPut
    <3>3. session.ended = FALSE
      <4>1. session.ended \in BOOLEAN BY <1>1, SessionFields
      <4> QED BY <1>5, <4>1
    <3> QED BY <1>20, <1>21, <2>2, <3>2, <3>3
  <2>3. CASE l # k BY <1>21, <2>1, <2>3
  <2> QED BY <2>2, <2>3
<1>24. LayersOK' BY <1>3, <1>14, <1>23 DEF LayersOK
<1>25. Unlost'
  <2> SUFFICES ASSUME MaxHeads > 0, m = 0, NEW l \in Layers
               PROVE  LayerFull(rank.layers[l], kv'[l], c, session.ended, Waiting(a, l), Done(session', l))
    BY <1>3, <1>14 DEF Unlost
  <2>1. session.lost = 0 /\ bad = 0 BY <1>4, <1>8
  <2>2. LayerFull(rank.layers[l], kv[l], c, session.ended, Waiting(at, l), Done(session, l))
    BY <1>1, <1>2, <2>1 DEF Unlost
  <2>3. ~Waiting(at, l) BY <1>3 DEF Waiting
  <2>4. l \in Nat BY LayerIsNat
  <2>5. CASE l = k
    <3>1. Waiting(a, l) BY <1>11, <2>5 DEF Waiting
    <3>2. Done(session, l) = at.first
      <4>1. ~(k < k) BY <1>6
      <4> QED BY <1>2, <1>3, <2>5, <4>1 DEF Done, Encoded
    <3>3. Done(session', l) = session.past BY <1>11, <1>14, <2>5 DEF Done, Encoded
    <3>4. NoHole(K) /\ K.n_written >= at.first BY <1>16, <2>2, <2>5, <3>2 DEF LayerFull
    <3>5. NoHole(M) /\ M.n_written >= session.past BY <1>5, <1>19, <2>1, <3>4 DEF BatchGood
    <3>6. kv'[l] = M BY <1>21, <2>5
    <3> QED BY <2>2, <3>1, <3>3, <3>5, <3>6 DEF LayerFull
  <2>6. CASE l # k
    <3>1. kv'[l] = kv[l] BY <1>21, <2>6
    <3>2. ~Waiting(a, l) BY <1>11, <2>6 DEF Waiting
    <3>3. Encoded(a, l) <=> Encoded(at, l) BY <1>2, <1>3, <1>11, <2>6 DEF Encoded
    <3>4. Done(session', l) = Done(session, l) BY <1>2, <1>11, <1>14, <3>3 DEF Done
    <3> QED BY <2>2, <2>3, <3>1, <3>2, <3>4 DEF LayerFull
  <2> QED BY <2>5, <2>6
<1>26. DiskOK' BY <1>1, <1>3, <1>5, DiskKept
<1> QED BY <1>1, <1>2, <1>3, <1>14, <1>15, <1>21, <1>24, <1>25, <1>26 DEF RankInv, LayersOK, Unlost

(* What is left of a batch after a vector.                                  *)
AtAfter(at, v) ==
    IF at.todo \ {v} # {} THEN [at EXCEPT !.todo = at.todo \ {v}]
    ELSE IF at.layer = RankLayers - 1 THEN NoBatch
    ELSE [at EXCEPT !.phase = "keys", !.layer = at.layer + 1, !.todo = {}]

(* It is another vector, the next layer or the end.                         *)
LEMMA AtAdvances ==
    ASSUME NEW at \in AtSet, at.phase = "scores", at.layer \in Layers, NEW v
    PROVE  LET a == AtAfter(at, v) IN
           /\ a \in AtSet
           /\ \/ a = NoBatch /\ at.layer = RankLayers - 1 /\ at.todo \ {v} = {}
              \/ /\ a.phase \in {"keys", "scores"} /\ a.layer \in Layers /\ a.first = at.first /\ a.n = at.n
                 /\ \/ a.phase = "scores" /\ a.layer = at.layer /\ a.todo = at.todo \ {v}
                    \/ a.phase = "keys" /\ a.layer = at.layer + 1 /\ at.todo \ {v} = {}
<1>1. PICK a : a = AtAfter(at, v) OBVIOUS
<1>2. at.layer \in Nat /\ at.layer <= RankLayers - 1 /\ RankLayers \in Nat
  BY RankAssumption DEF RankAssumption, Layers
<1>3. CASE at.todo \ {v} # {}
  <2>0. at.todo \subseteq Nat BY DEF AtSet
  <2>1. PICK X : X = at.todo \ {v} /\ X \subseteq Nat BY <2>0
  <2>2. a = [at EXCEPT !.todo = X] BY <1>1, <1>3, <2>1 DEF AtAfter
  <2>3. a \in AtSet /\ a.phase = at.phase /\ a.layer = at.layer /\ a.first = at.first /\ a.n = at.n /\ a.todo = X
    BY <2>1, <2>2 DEF AtSet
  <2> QED BY <1>1, <2>1, <2>3
<1>4. CASE at.todo \ {v} = {} /\ at.layer = RankLayers - 1
  <2>1. a = NoBatch BY <1>1, <1>4 DEF AtAfter
  <2>2. NoBatch \in AtSet BY DEF NoBatch, AtSet
  <2> QED BY <1>1, <1>4, <2>1, <2>2
<1>5. CASE at.todo \ {v} = {} /\ at.layer # RankLayers - 1
  <2>1. PICK k \in Nat : k = at.layer + 1 BY <1>2
  <2>2. k \in Layers BY <1>2, <1>5, <2>1 DEF Layers
  <2>3. a = [at EXCEPT !.phase = "keys", !.layer = k, !.todo = {}] BY <1>1, <1>5, <2>1 DEF AtAfter
  <2>4. a \in AtSet /\ a.phase = "keys" /\ a.layer = k /\ a.first = at.first /\ a.n = at.n
    BY <2>3 DEF AtSet
  <2> QED BY <1>1, <1>5, <2>1, <2>2, <2>4
<1> QED BY <1>3, <1>4, <1>5

(* Token and head of a vector.                                              *)
LEMMA VectorParts ==
    ASSUME NEW v \in Nat, NEW y \in Nat \ {0}
    PROVE  v \div y \in Nat /\ v % y \in Nat /\ 0 \div y = 0 /\ 0 % y = 0
<1>1. v \div y \in Nat OBVIOUS
<1>2. v % y \in 0 .. y - 1 OBVIOUS
<1>3. 0 \div y = 0 /\ 0 % y = 0 OBVIOUS
<1> QED BY <1>1, <1>2, <1>3

(* ... and scoring a vector ...                                             *)
LEMMA RowKeeps ==
    ASSUME RankInv, NEW v \in Nat, NEW finite \in BOOLEAN, CollectRow(v, finite)
    PROVE  RankInv'
<1>1. /\ rank \in [chunk : Nat, layers : [Layers -> LayerSet]] /\ kv \in [Layers -> KvSet]
      /\ SessionOK(session) /\ rank.chunk = session.clears /\ LayersOK /\ Unlost /\ DiskOK
  BY DEF RankInv, LayersOK, Unlost
<1>2. PICK at, k, c, K, L : /\ at = session.at /\ k = at.layer /\ c = session.clears
                            /\ K = kv[k] /\ L = rank.layers[k]
  OBVIOUS
<1>3. PICK t, h : t = v \div RankHeads /\ h = v % RankHeads OBVIOUS
<1>4. PICK taken \in BOOLEAN : taken = (NoHole(K) /\ K.n_written > 0 /\ wanted(t, h)) OBVIOUS
<1>5. PICK a : a = AtAfter(at, v) OBVIOUS
<1>6. /\ at.phase = "scores" /\ v \in at.todo /\ kv' = kv /\ disk' = disk
      /\ taken => rank' = [rank EXCEPT !.layers[k] = add_row(@, RowOf(k, t, h), finite)]
      /\ ~taken => finite /\ rank' = rank
  BY <1>2, <1>3, <1>4 DEF CollectRow, NoHole
<1>7. session' = [session EXCEPT !.lost = @ + IF finite THEN 0 ELSE 1, !.at = a]
  BY <1>2, <1>5 DEF CollectRow, AtAfter
<1>8. /\ at \in AtSet /\ at.first \in Nat /\ at.n \in Nat /\ c \in Nat /\ session.lost \in Nat /\ session.past \in Nat
      /\ session.ended \in BOOLEAN
  BY <1>1, <1>2, SessionFields
<1>9. k \in Layers /\ session.past = at.first + at.n /\ at.n >= 1 /\ ~session.ended
  BY <1>1, <1>2, <1>6 DEF SessionOK
<1>10. k \in Nat BY <1>9, LayerIsNat
<1>11. t \in Nat /\ h \in Nat /\ (v = 0 => t = 0 /\ h = 0)
  <2>1. RankHeads \in Nat \ {0} BY RankAssumption DEF RankAssumption
  <2>2. /\ v \div RankHeads \in Nat /\ v % RankHeads \in Nat
        /\ 0 \div RankHeads = 0 /\ 0 % RankHeads = 0
    BY <2>1, VectorParts
  <2> QED BY <1>3, <2>2
<1>12. /\ a \in AtSet
       /\ \/ a = NoBatch /\ k = RankLayers - 1 /\ at.todo \ {v} = {}
          \/ /\ a.phase \in {"keys", "scores"} /\ a.layer \in Layers /\ a.first = at.first /\ a.n = at.n
             /\ \/ a.phase = "scores" /\ a.layer = k /\ a.todo = at.todo \ {v}
                \/ a.phase = "keys" /\ a.layer = k + 1 /\ at.todo \ {v} = {}
  BY <1>2, <1>5, <1>6, <1>8, <1>9, AtAdvances
<1>13. PICK m \in Nat : m = session.lost + (IF finite THEN 0 ELSE 1) BY <1>8
<1>14. session \in SessionSet BY <1>1 DEF SessionOK
<1>15. session' = [session EXCEPT !.lost = m, !.at = a] BY <1>7, <1>13
<1>16. /\ session' \in SessionSet /\ session'.at = a /\ session'.past = session.past
       /\ session'.clears = c /\ session'.lost = m /\ session'.ended = session.ended
  BY <1>2, <1>12, <1>14, <1>15 DEF SessionSet
<1>17. SessionOK(session)'
  <2>1. a.phase = "idle" => a = NoBatch BY <1>12
  <2>2. a.phase # "idle" => a.layer \in Layers /\ session.past = a.first + a.n /\ a.n >= 1
    BY <1>9, <1>12 DEF NoBatch
  <2> QED BY <1>9, <1>16, <2>1, <2>2 DEF SessionOK
<1>18. KvOK(K, k, c) /\ LayerOK(L, K, k, c, FALSE)
  BY <1>1, <1>2, <1>8, <1>9 DEF LayersOK
<1>19. PICK N : N = IF taken THEN add_row(L, RowOf(k, t, h), finite) ELSE L OBVIOUS
<1>20. /\ LayerOK(N, K, k, c, FALSE) /\ N.keys = L.keys /\ (taken /\ finite => HasRow(N, c))
       /\ \A d : HasRow(L, d) => HasRow(N, d)
  <2>1. CASE taken
    <3>1. NoHole(K) /\ K.n_written > 0 /\ wanted(t, h) BY <1>4, <2>1
    <3>2. MaxHeads > 0 BY <1>11, <3>1, RankAssumption DEF RankAssumption, wanted
    <3>3. PICK r : r = RowOf(k, t, h) OBVIOUS
    <3>4. r \in RowSet /\ r.chunk = c /\ OpenRow(r, K, k, c)
      BY <1>1, <1>2, <1>8, <1>10, <1>11, <1>18, <3>1, <3>3, RowMade
    <3>5. N = add_row(L, r, finite) BY <1>19, <2>1, <3>3
    <3>6. Added(N, L, K, k, c, finite) BY <1>8, <1>18, <3>2, <3>4, <3>5, RowAdded
    <3> QED BY <3>6 DEF Added
  <2>2. CASE ~taken BY <1>18, <1>19, <2>2
  <2> QED BY <2>1, <2>2
<1>21. N \in LayerSet BY <1>20 DEF LayerOK
<1>22. /\ rank' \in [chunk : Nat, layers : [Layers -> LayerSet]] /\ rank'.chunk = rank.chunk
       /\ rank'.layers[k] = N /\ \A l \in Layers : l # k => rank'.layers[l] = rank.layers[l]
  <2>1. CASE taken
    <3>1. rank' = [rank EXCEPT !.layers[k] = N] BY <1>2, <1>6, <1>19, <2>1
    <3> QED BY <1>1, <1>9, <1>21, <3>1
  <2>2. CASE ~taken BY <1>1, <1>2, <1>6, <1>19, <2>2
  <2> QED BY <2>1, <2>2
<1>23. LayersOK'
  <2>1. ASSUME NEW l \in Layers
        PROVE  KvOK(kv[l], l, c) /\ LayerOK(rank'.layers[l], kv[l], l, c, session.ended)
    <3>1. KvOK(kv[l], l, c) /\ LayerOK(rank.layers[l], kv[l], l, c, session.ended) BY <1>1, <1>2 DEF LayersOK
    <3>2. CASE l = k
      <4>1. session.ended = FALSE BY <1>8, <1>9
      <4> QED BY <1>2, <1>20, <1>22, <3>1, <3>2, <4>1
    <3>3. CASE l # k BY <1>22, <3>1, <3>3
    <3> QED BY <3>2, <3>3
  <2> QED BY <1>6, <1>16, <2>1 DEF LayersOK
<1>24. Unlost'
  <2> SUFFICES ASSUME MaxHeads > 0, m = 0, NEW l \in Layers
               PROVE  LayerFull(rank'.layers[l], kv[l], c, session.ended, Waiting(a, l), Done(session', l))
    BY <1>6, <1>16 DEF Unlost
  <2>1. session.lost = 0 /\ finite BY <1>8, <1>13
  <2>2. \A x \in Layers : LayerFull(rank.layers[x], kv[x], c, session.ended, Waiting(at, x), Done(session, x))
    BY <1>1, <1>2, <2>1 DEF Unlost
  <2>3. l \in Nat /\ l <= RankLayers - 1 /\ RankLayers \in Nat
    BY RankAssumption DEF RankAssumption, Layers
  <2>4. Encoded(at, l) <=> Encoded(a, l)
    <3>1. Encoded(at, l) <=> l <= k BY <1>2, <1>6, <1>10, <2>3 DEF Encoded
    <3>2. CASE a = NoBatch /\ k = RankLayers - 1
      <4>1. Encoded(a, l) BY <3>2 DEF Encoded, NoBatch
      <4> QED BY <2>3, <3>1, <3>2, <4>1
    <3>3. CASE a.phase = "scores" /\ a.layer = k BY <1>2, <1>6, <3>3 DEF Encoded
    <3>4. CASE a.phase = "keys" /\ a.layer = k + 1
      <4>1. Encoded(a, l) <=> l < k + 1 BY <3>4 DEF Encoded
      <4>2. l < k + 1 <=> l <= k BY <1>10, <2>3
      <4> QED BY <3>1, <4>1, <4>2
    <3> QED BY <1>12, <3>2, <3>3, <3>4
  <2>5. Done(session', l) = Done(session, l)
    <3>1. CASE Encoded(at, l) BY <1>2, <1>16, <2>4, <3>1 DEF Done
    <3>2. CASE ~Encoded(at, l)
      <4>1. a # NoBatch BY <2>4, <3>2 DEF Encoded, NoBatch
      <4>2. a.first = at.first BY <1>12, <4>1
      <4> QED BY <1>2, <1>16, <2>4, <3>2, <4>2 DEF Done
    <3> QED BY <3>1, <3>2
  <2>6. CASE l # k
    <3>1. ~Waiting(at, l) BY <1>2, <2>6 DEF Waiting
    <3>2. ~Waiting(a, l) BY <1>12, <2>6 DEF Waiting, NoBatch
    <3>3. rank'.layers[l] = rank.layers[l] BY <1>22, <2>6
    <3>4. LayerFull(rank.layers[l], kv[l], c, session.ended, Waiting(at, l), Done(session, l)) BY <2>2
    <3> QED BY <2>5, <3>1, <3>2, <3>3, <3>4 DEF LayerFull
  <2>7. CASE l = k
    <3>1. LayerFull(L, K, c, session.ended, Waiting(at, k), Done(session, k)) BY <1>2, <1>9, <2>2
    <3>2. Done(session, k) = session.past BY <1>2, <1>6 DEF Done, Encoded
    <3>3. NoHole(K) /\ K.n_written >= session.past BY <3>1, <3>2 DEF LayerFull
    <3>4. K.n_written > 0
      <4>1. K.n_written \in Nat BY <1>18 DEF KvOK, KvSet
      <4> QED BY <1>8, <1>9, <3>3, <4>1
    <3>5. K.raw_max > 0 => HasRow(N, c) \/ Waiting(a, k)
      <4> SUFFICES ASSUME K.raw_max > 0 PROVE HasRow(N, c) \/ Waiting(a, k) OBVIOUS
      <4>1. HasRow(L, c) \/ Waiting(at, k) BY <1>9, <3>1 DEF LayerFull
      <4>2. CASE HasRow(L, c) BY <1>20, <4>2
      <4>3. CASE v = 0
        <5>1. t = 0 /\ h = 0 BY <1>11, <4>3
        <5>2. 0 % TokenStride = 0 BY RankAssumption DEF RankAssumption
        <5>3. wanted(t, h) BY <5>1, <5>2 DEF wanted
        <5>4. taken BY <1>4, <3>3, <3>4, <5>3
        <5> QED BY <1>20, <2>1, <5>4
      <4>4. CASE Waiting(at, k) /\ v # 0
        <5>1. 0 \in at.todo \ {v} BY <4>4 DEF Waiting
        <5>2. a.phase = "scores" /\ a.layer = k /\ a.todo = at.todo \ {v} BY <1>12, <5>1
        <5> QED BY <5>1, <5>2 DEF Waiting
      <4> QED BY <4>1, <4>2, <4>3, <4>4
    <3>6. \A d \in 1 .. Len(N.keys) : N.keys[d] # <<>> => HasRow(N, d - 1) BY <1>20, <3>1 DEF LayerFull
    <3>7. LayerFull(N, K, c, session.ended, Waiting(a, k), Done(session, k)) BY <3>2, <3>3, <3>5, <3>6 DEF LayerFull
    <3> QED BY <1>2, <1>22, <2>5, <2>7, <3>7
  <2> QED BY <2>6, <2>7
<1>25. DiskOK' BY <1>1, <1>6, <1>9, DiskKept
<1> QED BY <1>1, <1>2, <1>6, <1>16, <1>17, <1>22, <1>23, <1>24, <1>25 DEF RankInv, LayersOK, Unlost

(* What sealing makes of every layer.                                       *)
LEMMA AllSealed ==
    ASSUME RankInv, ~session.ended, session.at = NoBatch
    PROVE  /\ Sealed(rank) \in [Layers -> LayerSet]
           /\ \A l \in Layers : SealedOK(Sealed(rank)[l], rank.layers[l], session.clears)
           /\ MaxHeads > 0 /\ session.lost = 0 => \A l \in Layers : ChunksHaveRows(Sealed(rank)[l])
<1>1. /\ SessionOK(session) /\ rank.chunk = session.clears /\ LayersOK /\ Unlost
  BY DEF RankInv, LayersOK, Unlost
<1>2. session.ended \in BOOLEAN /\ session.clears \in Nat BY <1>1, SessionFields
<1>3. session.ended = FALSE BY <1>2
<1>4. Sealed(rank) = [l \in Layers |-> SealOne(rank.layers[l], kv[l], session.clears)]
  BY <1>1 DEF Sealed, SealOne
<1>5. \A l \in Layers : LayerOK(rank.layers[l], kv[l], l, session.clears, FALSE) /\ KvOK(kv[l], l, session.clears)
  BY <1>1, <1>3 DEF LayersOK
<1>6. \A l \in Layers : SealedOK(SealOne(rank.layers[l], kv[l], session.clears), rank.layers[l], session.clears)
  BY <1>2, <1>5, LayerSealed
<1>7. \A l \in Layers : SealOne(rank.layers[l], kv[l], session.clears) \in LayerSet BY <1>6 DEF SealedOK
<1>8. ASSUME MaxHeads > 0, session.lost = 0, NEW l \in Layers
      PROVE  ChunksHaveRows(SealOne(rank.layers[l], kv[l], session.clears))
  <2>1. LayerFull(rank.layers[l], kv[l], session.clears, session.ended, Waiting(session.at, l), Done(session, l))
    BY <1>1, <1>8 DEF Unlost
  <2>2. ~Waiting(session.at, l) BY DEF Waiting, NoBatch
  <2>3. LayerFull(rank.layers[l], kv[l], session.clears, FALSE, FALSE, Done(session, l))
    BY <1>3, <2>1, <2>2 DEF LayerFull
  <2> QED BY <1>2, <1>5, <2>3, SealedFull
<1> QED BY <1>4, <1>6, <1>7, <1>8

(* ... and llama_memory_clear ...                                           *)
LEMMA ClearKeeps ==
    ASSUME RankInv, ClearContext
    PROVE  RankInv'
<1>1. /\ rank \in [chunk : Nat, layers : [Layers -> LayerSet]] /\ kv \in [Layers -> KvSet]
      /\ SessionOK(session) /\ rank.chunk = session.clears /\ LayersOK /\ DiskOK
  BY DEF RankInv, LayersOK
<1>2. ~session.ended /\ session.at = NoBatch /\ disk' = disk BY DEF ClearContext
<1>3. PICK c \in Nat : c = session.clears BY <1>1, SessionFields
<1>4. PICK N : N = Sealed(rank) OBVIOUS
<1>5. /\ N \in [Layers -> LayerSet] /\ \A l \in Layers : SealedOK(N[l], rank.layers[l], c)
      /\ MaxHeads > 0 /\ session.lost = 0 => \A l \in Layers : ChunksHaveRows(N[l])
  BY <1>2, <1>3, <1>4, AllSealed
<1>6. rank' = [layers |-> N, chunk |-> c + 1] BY <1>1, <1>3, <1>4 DEF ClearContext, ClearedRank
<1>7. rank' \in [chunk : Nat, layers : [Layers -> LayerSet]] /\ rank'.layers = N /\ rank'.chunk = c + 1
  BY <1>5, <1>6
<1>8. session \in SessionSet /\ session.ended \in BOOLEAN BY <1>1, SessionFields DEF SessionOK
<1>9. session' = [session EXCEPT !.past = 0, !.clears = c + 1] BY <1>3 DEF ClearContext
<1>10. PICK d \in Nat : d = c + 1 OBVIOUS
<1>11. /\ session' \in SessionSet /\ session'.at = NoBatch /\ session'.past = 0 /\ session'.clears = d
       /\ session'.lost = session.lost /\ session'.ended = FALSE
  <2>1. session' = [session EXCEPT !.past = 0, !.clears = d] BY <1>9, <1>10
  <2> QED BY <1>2, <1>8, <2>1 DEF SessionSet
<1>12. SessionOK(session)' BY <1>11 DEF SessionOK, NoBatch
<1>13. ASSUME NEW l \in Layers
       PROVE  /\ kv'[l] \in KvSet /\ kv'[l].raw_max = 0 /\ kv'[l].n_written = 0 /\ KvOK(kv'[l], l, d)
  <2>1. PICK g : g = [i \in DOMAIN kv[l].raw |-> <<0, 0>>] OBVIOUS
  <2>2. kv[l].raw \in Seq(Pair) BY <1>1 DEF KvSet
  <2>3. PICK n \in Nat : n = Len(kv[l].raw) /\ DOMAIN kv[l].raw = 1 .. n BY <2>2, LenProperties
  <2>4. g \in [1 .. n -> Pair] BY <2>1, <2>3, NoKeyTyped
  <2>5. g \in Seq(Pair) /\ Len(g) = n BY <2>4, FcnSeq
  <2>6. kv'[l] = [NoKeys EXCEPT !.raw = g] BY <2>1 DEF ClearContext
  <2>7. <<>> \in Seq(Pair) /\ Len(<<>>) = 0 BY EmptySeq
  <2>8. /\ kv'[l] \in KvSet /\ kv'[l].raw = g /\ kv'[l].raw_max = 0 /\ kv'[l].tiles = <<>> /\ kv'[l].n_written = 0
    <3>1. PICK M : M = [raw |-> g, raw_max |-> 0, tiles |-> <<>>, n_written |-> 0] OBVIOUS
    <3>2. M \in KvSet BY <2>5, <2>7, <3>1 DEF KvSet
    <3>3. [NoKeys EXCEPT !.raw = g] = M BY <3>1 DEF NoKeys
    <3> QED BY <2>6, <3>1, <3>2, <3>3
  <2>9. \A j \in 1 .. 0 : FALSE OBVIOUS
  <2>10. KvOK(kv'[l], l, d) BY <2>5, <2>7, <2>8, <2>9 DEF KvOK
  <2> QED BY <2>8, <2>10
<1>14. kv' \in [Layers -> KvSet]
  <2>1. kv' = [l \in Layers |-> [NoKeys EXCEPT !.raw = [i \in DOMAIN kv[l].raw |-> <<0, 0>>]]]
    BY DEF ClearContext
  <2>2. kv' = [l \in Layers |-> kv'[l]] BY <2>1
  <2> QED BY <1>13, <2>2
<1>15. LayersOK'
  <2>1. ASSUME NEW l \in Layers PROVE LayerOK(N[l], kv'[l], l, d, FALSE)
    <3>1. SealedOK(N[l], rank.layers[l], c) BY <1>5
    <3>2. LayerOK(N[l], kv'[l], l, c + 1, FALSE) BY <3>1, SealedNext
    <3> QED BY <1>10, <3>2
  <2> QED BY <1>7, <1>11, <1>13, <2>1 DEF LayersOK
<1>16. Unlost'
  <2> SUFFICES ASSUME MaxHeads > 0, session.lost = 0, NEW l \in Layers
               PROVE  LayerFull(N[l], kv'[l], d, FALSE, Waiting(NoBatch, l), Done(session', l))
    BY <1>7, <1>11 DEF Unlost
  <2>1. ChunksHaveRows(N[l]) BY <1>5
  <2>2. kv'[l].raw_max = 0 /\ kv'[l].n_written = 0 BY <1>13
  <2>3. ~(kv'[l].raw_max > 0) /\ kv'[l].n_written >= 0 BY <2>2
  <2>4. Done(session', l) = 0 BY <1>11 DEF Done, Encoded, NoBatch
  <2>5. \A j \in 1 .. 0 : FALSE OBVIOUS
  <2>6. NoHole(kv'[l]) BY <2>2, <2>5 DEF NoHole
  <2> QED BY <2>1, <2>3, <2>4, <2>6 DEF LayerFull, ChunksHaveRows
<1>17. DiskOK' BY <1>1, <1>2, DiskKept
<1> QED BY <1>7, <1>10, <1>11, <1>12, <1>14, <1>15, <1>16, <1>17 DEF RankInv, LayersOK, Unlost

(* ... and the flush at exit.                                               *)
LEMMA ExitKeeps ==
    ASSUME RankInv, NEW mkdir \in BOOLEAN, NEW bad \in 0 .. RankLayers, NEW kept,
           NEW m \in {"ok", "closed", "short"}, ExitFlush(mkdir, bad, kept, m)
    PROVE  RankInv'
<1>1. /\ rank \in [chunk : Nat, layers : [Layers -> LayerSet]] /\ kv \in [Layers -> KvSet]
      /\ SessionOK(session) /\ rank.chunk = session.clears /\ LayersOK /\ Unlost /\ DiskOK
  BY DEF RankInv, LayersOK, Unlost
<1>2. ~session.ended /\ session.at = NoBatch /\ kv' = kv BY DEF ExitFlush
<1>3. PICK c \in Nat : c = session.clears BY <1>1, SessionFields
<1>4. PICK N : N = Sealed(rank) OBVIOUS
<1>5. /\ N \in [Layers -> LayerSet] /\ \A l \in Layers : SealedOK(N[l], rank.layers[l], c)
      /\ MaxHeads > 0 /\ session.lost = 0 => \A l \in Layers : ChunksHaveRows(N[l])
  BY <1>2, <1>3, <1>4, AllSealed
<1>6. rank' = [rank EXCEPT !.layers = N] BY <1>4 DEF ExitFlush
<1>7. rank' \in [chunk : Nat, layers : [Layers -> LayerSet]] /\ rank'.layers = N /\ rank'.chunk = rank.chunk
  BY <1>1, <1>5, <1>6
<1>8. session \in SessionSet BY <1>1 DEF SessionOK
<1>9. session' = [session EXCEPT !.ended = TRUE] BY DEF ExitFlush
<1>10. /\ session' \in SessionSet /\ session'.at = NoBatch /\ session'.past = session.past /\ session'.clears = c
       /\ session'.lost = session.lost /\ session'.ended = TRUE
  BY <1>2, <1>3, <1>8, <1>9 DEF SessionSet
<1>11. SessionOK(session)' BY <1>10 DEF SessionOK, NoBatch
<1>12. LayersOK'
  <2>1. ASSUME NEW l \in Layers PROVE KvOK(kv[l], l, c) /\ LayerOK(N[l], kv[l], l, c, TRUE)
    <3>1. SealedOK(N[l], rank.layers[l], c) BY <1>5
    <3> QED BY <1>1, <1>3, <3>1, SealedNext DEF LayersOK
  <2> QED BY <1>2, <1>7, <1>10, <2>1 DEF LayersOK
<1>13. Unlost'
  <2> SUFFICES ASSUME MaxHeads > 0, session.lost = 0, NEW l \in Layers
               PROVE  LayerFull(N[l], kv[l], c, TRUE, Waiting(NoBatch, l), Done(session', l))
    BY <1>2, <1>7, <1>10 DEF Unlost
  <2>1. ChunksHaveRows(N[l]) BY <1>5
  <2>2. LayerFull(rank.layers[l], kv[l], c, session.ended, Waiting(session.at, l), Done(session, l))
    BY <1>1, <1>3 DEF Unlost
  <2>3. Done(session', l) = Done(session, l) BY <1>2, <1>10 DEF Done
  <2> QED BY <2>1, <2>2, <2>3 DEF LayerFull, ChunksHaveRows
<1>14. DiskOK'
  <2>1. disk.manifest = NoManifest BY <1>1, <1>2 DEF DiskOK
  <2>2. ~NoManifest.valid BY DEF NoManifest
  <2>3. CASE ~mkdir
    <3>1. disk' = disk BY <2>3 DEF ExitFlush
    <3> QED BY <1>10, <2>1, <2>2, <3>1 DEF DiskOK
  <2>4. CASE mkdir
    <3>1. disk' = [files |-> FilesWritten(N, bad, kept),
                   manifest |-> CASE m = "ok" -> Manifest(N, bad)
                                  [] m = "closed" -> disk.manifest
                                  [] m = "short" -> NoManifest]
      BY <1>4, <2>4 DEF ExitFlush
    <3>2. CASE m = "ok"
      <4>1. disk'.manifest = Manifest(N, bad) /\ disk'.files = FilesWritten(N, bad, kept) BY <3>1, <3>2
      <4>2. ASSUME disk'.manifest.valid, NEW l \in disk'.manifest.layers
            PROVE  l \in Layers /\ disk'.files[l] = Serialised(l, N[l]) /\ N[l].rows # <<>>
        <5>1. l \in Layers /\ N[l].rows # <<>> /\ l < bad BY <4>1, <4>2 DEF Manifest
        <5>2. l \in Nat /\ bad \in Nat BY <5>1, LayerIsNat, RankAssumption DEF RankAssumption
        <5>3. ~(l > bad) BY <5>1, <5>2
        <5>4. FilesWritten(N, bad, kept)[l] = Serialised(l, N[l]) BY <5>1, <5>3 DEF FilesWritten
        <5> QED BY <4>1, <5>1, <5>4
      <4> QED BY <1>7, <1>10, <4>2 DEF DiskOK
    <3>3. CASE m # "ok"
      <4>1. disk'.manifest = NoManifest
        <5>1. CASE m = "closed" BY <2>1, <3>1, <5>1
        <5>2. CASE m = "short" BY <3>1, <5>2
        <5> QED BY <3>3, <5>1, <5>2
      <4> QED BY <1>10, <2>2, <4>1 DEF DiskOK
    <3> QED BY <3>2, <3>3
  <2> QED BY <2>3, <2>4
<1> QED BY <1>1, <1>2, <1>3, <1>7, <1>10, <1>11, <1>12, <1>13, <1>14 DEF RankInv, LayersOK, Unlost

(* The invariant is inductive.                                              *)
LEMMA RankStep == RankInv /\ [RankNext]_rankVars => RankInv'
<1> SUFFICES ASSUME RankInv, [RankNext]_rankVars PROVE RankInv' OBVIOUS
<1>1. CASE \E n \in BatchSizes : DecodeBatch(n) BY <1>1, DecodeKeeps
<1>2. CASE \E bad \in 0 .. MaxPositions, o \in {"ok", "encode", "store"} : TransformKeys(bad, o)
  <2>1. PICK bad \in 0 .. MaxPositions, o \in {"ok", "encode", "store"} : TransformKeys(bad, o) BY <1>2
  <2>2. bad \in Nat BY RankAssumption DEF RankAssumption
  <2> QED BY <2>1, <2>2, KeysKeep
<1>3. CASE \E v \in 0 .. MaxPositions * RankHeads - 1, f \in BOOLEAN : CollectRow(v, f)
  <2>1. PICK v \in 0 .. MaxPositions * RankHeads - 1, f \in BOOLEAN : CollectRow(v, f) BY <1>3
  <2>2. v \in Nat BY <2>1
  <2> QED BY <2>1, <2>2, RowKeeps
<1>4. CASE ClearContext BY <1>4, ClearKeeps
<1>5. CASE \E mkdir \in BOOLEAN, bad \in 0 .. RankLayers, kept \in ShortWrites,
              m \in {"ok", "closed", "short"} : ExitFlush(mkdir, bad, kept, m)
  BY <1>5, ExitKeeps
<1>6. CASE UNCHANGED rankVars
  <2>1. rank' = rank /\ kv' = kv /\ session' = session /\ disk' = disk BY <1>6 DEF rankVars
  <2> QED BY <2>1 DEF RankInv, DiskOK
<1> QED BY <1>1, <1>2, <1>3, <1>4, <1>5, <1>6 DEF RankNext

(* DatasetFaithful of one layer.                                            *)
LayerFaithful(file, D, l, L) ==
    /\ file # Missing /\ ReadsBack(D, l, L)
    /\ LET full == {L.rows[i].chunk : i \in DOMAIN L.rows}
       IN session.lost = 0 /\ full = 1 .. session.clears =>
             validate_chunk_layout(D, session.clears + 1, full)

(* It implies the property.                                                 *)
LEMMA FaithfulFromInv == RankInv => DatasetFaithful
<1>0. ASSUME \A l \in disk.manifest.layers :
                LayerFaithful(disk.files[l], parse_layer(disk.files[l]), l, rank.layers[l])
      PROVE  DatasetFaithful
  BY <1>0, Zenon DEF DatasetFaithful, LayerFaithful, ReadsBack
<1> SUFFICES ASSUME RankInv, session.ended, disk.manifest.valid, NEW l \in disk.manifest.layers
             PROVE  LayerFaithful(disk.files[l], parse_layer(disk.files[l]), l, rank.layers[l])
  BY <1>0 DEF DatasetFaithful
<1>1. /\ SessionOK(session) /\ rank.chunk = session.clears /\ LayersOK /\ Unlost /\ DiskOK
  BY DEF RankInv, LayersOK, Unlost
<1>2. PICK L : L = rank.layers[l] OBVIOUS
<1>3. l \in Layers /\ disk.files[l] = Serialised(l, L) /\ L.rows # <<>> BY <1>1, <1>2 DEF DiskOK
<1>4. l \in Nat BY <1>3, LayerIsNat
<1>5. session.ended = TRUE /\ session.clears \in Nat
  <2>1. session.ended \in BOOLEAN /\ session.clears \in Nat BY <1>1, SessionFields
  <2> QED BY <2>1
<1>6. LayerOK(L, kv[l], l, session.clears, TRUE) BY <1>1, <1>2, <1>3, <1>5 DEF LayersOK
<1>7. Whole(L)
  <2>1. L \in LayerSet /\ RowsTrue(L) BY <1>6 DEF LayerOK, RowOK, RowsTrue
  <2>2. Len(L.rows) \in Nat /\ Len(L.rows) # 0 BY <1>3, <2>1, LayerTyped, EmptySeq
  <2>3. 1 \in 1 .. Len(L.rows) BY <2>2
  <2>4. L.rows[1].chunk + 1 \in 1 .. Len(L.keys) BY <2>1, <2>3 DEF RowsTrue, RowTrue
  <2>5. L.keys # <<>>
    <3> SUFFICES ASSUME L.keys = <<>> PROVE FALSE OBVIOUS
    <3>1. Len(L.keys) = 0 OBVIOUS
    <3>2. \A x \in 1 .. 0 : FALSE OBVIOUS
    <3> QED BY <2>4, <3>1, <3>2
  <2> QED BY <1>3, <1>6, <2>1, <2>5 DEF LayerOK, Whole
<1>8. PICK D : D = Decoded(l, L) OBVIOUS
<1>9. parse_layer(disk.files[l]) = D /\ disk.files[l] # Missing BY <1>3, <1>4, <1>7, <1>8, Parsed
<1>10. ReadsBack(D, l, L) BY <1>4, <1>7, <1>8, LayerBack
<1>11. PICK full : full = {L.rows[i].chunk : i \in DOMAIN L.rows} OBVIOUS
<1>12. ASSUME session.lost = 0, full = 1 .. session.clears
       PROVE  validate_chunk_layout(D, session.clears + 1, full)
  <2>1. L \in LayerSet /\ RowsTrue(L) BY <1>7 DEF Whole
  <2>2. /\ Len(L.rows) \in Nat /\ Len(L.rows) # 0 /\ DOMAIN L.rows = 1 .. Len(L.rows) /\ Len(L.keys) \in Nat
        /\ \A i \in 1 .. Len(L.rows) : L.rows[i].chunk \in Nat
    BY <1>3, <2>1, LayerTyped, EmptySeq
  <2>3. PICK s \in Nat : s = session.clears BY <1>5
  <2>4. s # 0
    <3>1. 1 \in 1 .. Len(L.rows) BY <2>2
    <3>2. L.rows[1].chunk \in full BY <1>11, <2>2, <3>1
    <3>3. L.rows[1].chunk \in 1 .. s BY <1>12, <2>3, <3>2
    <3> QED BY <3>3
  <2>5. s \in full BY <1>12, <2>3, <2>4
  <2>6. PICK i \in 1 .. Len(L.rows) : L.rows[i].chunk = s BY <1>11, <2>2, <2>5
  <2>7. s + 1 \in 1 .. Len(L.keys) BY <2>1, <2>6 DEF RowsTrue, RowTrue
  <2>8. Len(L.keys) <= s + 1 BY <1>6, <2>3 DEF LayerOK
  <2>9. Len(L.keys) = s + 1 BY <2>2, <2>7, <2>8
  <2>10. ChunksHaveRows(L)
    <3>1. MaxHeads > 0 BY <1>3, <1>6 DEF LayerOK
    <3> QED BY <1>1, <1>2, <1>3, <1>12, <3>1 DEF Unlost, LayerFull, ChunksHaveRows
  <2>11. ASSUME NEW c \in 0 .. (s + 1) - 1, L.keys[c + 1] # <<>> PROVE c \in full
    <3>1. c + 1 \in 1 .. Len(L.keys) /\ (c + 1) - 1 = c BY <2>9
    <3>2. HasRow(L, c) BY <2>10, <2>11, <3>1 DEF ChunksHaveRows
    <3> QED BY <1>11, <2>2, <3>2 DEF HasRow
  <2>12. PICK slots \in Nat : slots = s + 1 OBVIOUS
  <2>13. validate_chunk_layout(D, slots, full)
    <3>1. Len(L.keys) = slots /\ \A c \in 0 .. slots - 1 : L.keys[c + 1] # <<>> => c \in full
      BY <2>9, <2>11, <2>12
    <3> QED BY <1>4, <1>7, <1>8, <1>11, <3>1, LayoutBack
  <2> QED BY <2>3, <2>12, <2>13
<1>13. LayerFaithful(disk.files[l], D, l, L) BY <1>9, <1>10, <1>11, <1>12, Zenon DEF LayerFaithful
<1> QED BY <1>2, <1>9, <1>13, Zenon

(* Over an empty directory, what flush marks valid is what was collected:   *)
(* LayerRows::load accepts each listed file, rows come back in order with   *)
(* the logits of their own chunk's keys, and a session that lost nothing    *)
(* and cleared its context before every chunk has the layout that           *)
(* validate_chunk_layout demands, for any number of layers, heads, threads, *)
(* positions, clears, lost keys or rows, and any file that fails.           *)
THEOREM DatasetReadsBack == TRUE \notin PriorDatasets => (RankSpec => []DatasetFaithful)
<1> SUFFICES ASSUME TRUE \notin PriorDatasets PROVE RankSpec => []DatasetFaithful OBVIOUS
<1>1. RankInit => RankInv BY RankInitial
<1>2. RankInv /\ [RankNext]_rankVars => RankInv' BY RankStep
<1>3. RankInv => DatasetFaithful BY FaithfulFromInv
<1> QED BY <1>1, <1>2, <1>3, PTL DEF RankSpec

=============================================================================
