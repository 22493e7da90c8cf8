----------------------------- MODULE ElasticFfi -----------------------------
(***************************************************************************)
(* The elastic cache as C callers see it (slha-c/src/elastic_ffi.rs).      *)
(*                                                                         *)
(* A handle is an address that the registry may know. It is looked up on   *)
(* every call and never dereferenced; the cache object found is held by    *)
(* an Arc for the length of the call, under the object's own mutex, so an  *)
(* object may outlive its registration. The cache itself is abstracted to  *)
(* what VramCache shows of it: tiers, payloads and exact residency.        *)
(* Residency is counted in units of 32 bytes.                              *)
(***************************************************************************)
EXTENDS Integers, FiniteSets, Sequences

CONSTANTS
    Addresses,   \* addresses the allocator can give to a token
    Slots,       \* fixed slots of a cache
    MaxCaches    \* bound: caches ever created

ASSUME ElasticFfiAssumption ==
    MaxCaches \in Nat /\ Slots \subseteq Nat /\ IsFiniteSet(Slots)

VARIABLES
    live,        \* registry.live: address -> index of its cache object
    retired,     \* registry.retired_tokens: addresses of kept tokens
    objects      \* every cache object ever created, in order

ffiVars == <<live, retired, objects>>

NULL == "NULL"

-----------------------------------------------------------------------------
(* The cache object                                                         *)

HOT_UNITS  == 4    \* slha_elastic_hot_resident_bytes() / 32
WARM_UNITS == 3    \* slha_elastic_warm_resident_bytes() / 32

(* rep is the representation a slot holds, resident or in backing.          *)
AbsentTile == [tier |-> "ABSENT", rep |-> "ABSENT", key |-> <<>>]

Tile(rep, key) == [tier |-> rep, rep |-> rep, key |-> key]

NewCache(budget) == [hard |-> budget, slot |-> [s \in Slots |-> AbsentTile]]

InTier(c, T) == {s \in Slots : c.slot[s].tier \in T}

Resident(c) == HOT_UNITS * Cardinality(InTier(c, {"HOT"}))
                   + WARM_UNITS * Cardinality(InTier(c, {"WARM"}))

(* slha_elastic_cache_stats                                                 *)
Stats(c) == [resident |-> Resident(c),
             hot  |-> Cardinality(InTier(c, {"HOT"})),
             warm |-> Cardinality(InTier(c, {"WARM"})),
             cold |-> Cardinality(InTier(c, {"COLD"}))]

Active(c) == Cardinality(InTier(c, {"HOT", "WARM", "COLD"}))

Demoted(c, D) ==
    [c EXCEPT !.slot = [s \in Slots |->
        IF s \in D THEN Tile("WARM", @[s].key) ELSE @[s]]]

(* slha_elastic_cache_write                                                 *)
Written(c, s, key) == [c EXCEPT !.slot[s] = Tile("HOT", key)]

(* slha_elastic_cache_write_dense_budget: the caches it may leave, one for  *)
(* each choice of HOT victims, none when it fails. The slot is emptied      *)
(* first; no more victims than are needed. Mutant: no victim is needed.     *)
DenseWritten_unpaid(c, s, key, budget) ==
    IF Resident(c) > c.hard THEN {} ELSE {Written(c, s, key)}

DenseWritten(c, s, key, budget) ==
    LET target == IF budget < c.hard THEN budget ELSE c.hard
        empty  == [c EXCEPT !.slot[s] = AbsentTile]
        over   == Resident(empty) + WARM_UNITS - target
        paid(D) == Demoted(empty, D)
        rep(D)  == IF Resident(paid(D)) + HOT_UNITS <= target THEN "HOT"
                   ELSE "WARM"
    IN IF Resident(c) > c.hard THEN {}
       ELSE {[paid(D) EXCEPT !.slot[s] = Tile(rep(D), key)] :
                D \in {V \in SUBSET InTier(empty, {"HOT"}) :
                          Cardinality(V) = IF over > 0 THEN over ELSE 0}}

(* slha_elastic_cache_offload_to(handle, 0), no slot being pinned.          *)
AllOffloaded(c) ==
    [c EXCEPT !.slot = [s \in Slots |->
        IF @[s].tier = "ABSENT" THEN @[s] ELSE [@[s] EXCEPT !.tier = "COLD"]]]

(* slha_elastic_cache_restore_slot, where it fits; promote_slot.            *)
UnitsOf(rep) == IF rep = "HOT" THEN HOT_UNITS ELSE WARM_UNITS

CanRestore(c, s) ==
    c.slot[s].tier = "COLD" /\ Resident(c) + UnitsOf(c.slot[s].rep) <= c.hard

Restored(c, s) == [c EXCEPT !.slot[s].tier = c.slot[s].rep]

CanPromote(c, s) == c.slot[s].tier = "WARM" /\ Resident(c) < c.hard

Promoted(c, s) == [c EXCEPT !.slot[s] = Tile("HOT", @.key)]

(* slha_elastic_cache_clear_slot and slha_elastic_cache_clear               *)
SlotCleared(c, s) == [c EXCEPT !.slot[s] = AbsentTile]

Cleared(c) == NewCache(c.hard)

(* A slot that score and resident_tile accept.                              *)
Scoreable(c, s) == c.slot[s].tier \in {"HOT", "WARM"}

-----------------------------------------------------------------------------
(* The registry                                                             *)

FfiInit == live = <<>> /\ retired = {} /\ objects = <<>>

(* A token's memory is kept for ever, so the allocator cannot give its      *)
(* address out again. Mutant: a released token is freed.                    *)
Allocatable_reused == Addresses \ DOMAIN live

Allocatable == Addresses \ (DOMAIN live \cup retired)

(* register_cache                                                           *)
register_cache(a, budget) ==
    /\ a \in Allocatable
    /\ Len(objects) < MaxCaches
    /\ objects' = Append(objects, NewCache(budget))
    /\ live' = [b \in DOMAIN live \cup {a} |->
                   IF b = a THEN Len(objects) + 1 ELSE live[b]]
    /\ UNCHANGED retired

(* unregister_cache, for an address that is live.                           *)
unregister_cache(a) ==
    /\ live' = [b \in DOMAIN live \ {a} |-> live[b]]
    /\ retired' = retired \cup {a}
    /\ UNCHANGED objects

Update(i, c) == objects' = [objects EXCEPT ![i] = c] /\ UNCHANGED <<live, retired>>

=============================================================================
