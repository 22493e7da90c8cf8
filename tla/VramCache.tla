------------------------------ MODULE VramCache ------------------------------
(***************************************************************************)
(* The physically resident cache of slhav2-vram/src/elastic_cache.rs.      *)
(*                                                                         *)
(* A slot keeps resident bytes (charged to the hard budget) and reversible *)
(* backing outside it: HOT and PINNED hold the full tile, WARM the packed  *)
(* tile with its residual plane in backing, COLD everything in backing.    *)
(*                                                                         *)
(* Operations take &mut self and do not overlap. The two transactional     *)
(* ones, apply_action and write_at_dense_budget, are loops of several      *)
(* steps here (pc, target, snap). A tile's payload is identified with the  *)
(* generation under which it was written, so that a residual plane put     *)
(* back into the wrong tile would show. Errors that change nothing are     *)
(* the stuttering of disabled actions.                                     *)
(***************************************************************************)
EXTENDS Integers, FiniteSets

CONSTANTS
    MaxSlots,      \* bound: length of the slot Vec
    MaxSeq,        \* bound: writes (next_seq is a u64 in the code)
    MaxEvictions,  \* bound: evictions counted (a u64 in the code)
    MaxImportance, \* bound: accumulated attention mass, in units
    HardBudgets,   \* hard budgets a cache may be built with
    Targets        \* residency targets callers ask for

ASSUME VramCacheAssumption ==
    /\ MaxSlots \in Nat /\ MaxSeq \in Nat
    /\ MaxEvictions \in Nat /\ MaxImportance \in Nat
    /\ HardBudgets \subseteq Nat
    /\ Targets \subseteq Nat

Slots == 0 .. MaxSlots - 1

VARIABLES
    len,           \* slots.len()
    slots,         \* PhysicalSlot or Absent (a hole, or beyond len)
    resident,      \* resident_bytes
    next_seq, evictions,
    hard,          \* hard_limit of the budget node, fixed by new
    pc, target,    \* the transaction under way and its target
    dense,         \* its slot, for a dense write
    snap,          \* the whole cache when the transaction began
    ret            \* outcome of the last transaction

cacheVars == <<len, slots, resident, next_seq, evictions>>
callVars  == <<pc, target, dense, snap, ret>>
vars == <<cacheVars, hard, callVars>>

-----------------------------------------------------------------------------
(* Tiles and slots                                                          *)

TILE_BYTES        == 128
WARM_PACKED_BYTES == 96
RESIDUAL_BYTES    == TILE_BYTES - WARM_PACKED_BYTES

NoPlane == -1

(* A representation: its length, the payload of its base and of its         *)
(* residual plane, and FLAG_WARM.                                           *)
Bytes == [length : {0, WARM_PACKED_BYTES, TILE_BYTES}, base : Nat \cup {NoPlane},
          residual : Nat \cup {NoPlane}, warm : BOOLEAN]

NoBytes == [length |-> 0, base |-> NoPlane, residual |-> NoPlane,
            warm |-> FALSE]

(* The tile written under generation q, once set_warm_flag(false) is done.  *)
FullTile(q) == [length |-> TILE_BYTES, base |-> q, residual |-> q,
                warm |-> FALSE]

(* set_warm_flag(true), then codec::pack_warm.                              *)
pack_warm(t) == [length |-> WARM_PACKED_BYTES, base |-> t.base,
                 residual |-> NoPlane, warm |-> TRUE]

(* codec::unpack_warm, the residual plane, then set_warm_flag(false).       *)
(* Mutant: the residual plane stays zero.                                   *)
WithResidual_zero(p, r) ==
    [length |-> TILE_BYTES, base |-> p.base, residual |-> NoPlane,
     warm |-> FALSE]

WithResidual(p, r) ==
    [length |-> TILE_BYTES, base |-> p.base, residual |-> r, warm |-> FALSE]

PhysicalTier == {"Hot", "Warm", "Cold", "Pinned"}

Absent == [tier |-> "Absent", bytes |-> NoBytes, offloaded |-> NoBytes,
           warm_residual |-> NoPlane, seq |-> 0, importance |-> 0]

Slot == [tier : PhysicalTier \cup {"Absent"}, bytes : Bytes,
         offloaded : Bytes, warm_residual : Nat \cup {NoPlane}, seq : Nat,
         importance : Nat]

Tier(s)    == slots[s].tier
Present(s) == Tier(s) # "Absent"
SlotsIn(T) == {s \in Slots : Tier(s) \in T}

HotSlot(t, q) ==
    [tier |-> t, bytes |-> FullTile(q), offloaded |-> NoBytes,
     warm_residual |-> NoPlane, seq |-> q, importance |-> 0]

WarmSlot(q) ==
    [tier |-> "Warm", bytes |-> pack_warm(FullTile(q)), offloaded |-> NoBytes,
     warm_residual |-> q, seq |-> q, importance |-> 0]

-----------------------------------------------------------------------------
NoSnapshot == [len |-> 0, slots |-> [s \in Slots |-> Absent], resident |-> 0,
               next_seq |-> 0, evictions |-> 0]

Init ==
    /\ len = 0 /\ slots = [s \in Slots |-> Absent]
    /\ resident = 0 /\ next_seq = 0 /\ evictions = 0
    /\ hard \in HardBudgets
    /\ pc = "idle" /\ target = 0 /\ dense = 0 /\ ret = "none"
    /\ snap = NoSnapshot

Idle == pc = "idle"

(* An operation that is not a transaction.                                  *)
Direct == Idle /\ ret' = "none" /\ UNCHANGED <<hard, pc, target, dense, snap>>

-----------------------------------------------------------------------------
(* Writing                                                                  *)

(* insert appends a HOT slot, whatever the budget.                          *)
Insert ==
    /\ Direct
    /\ len < MaxSlots /\ next_seq < MaxSeq
    /\ slots' = [slots EXCEPT ![len] = HotSlot("Hot", next_seq)]
    /\ len' = len + 1
    /\ resident' = resident + TILE_BYTES
    /\ next_seq' = next_seq + 1
    /\ UNCHANGED evictions

GrownTo(s) == IF len < s + 1 THEN s + 1 ELSE len

(* The tier of a rewritten slot: a pinned position stays pinned.            *)
TierKept(s) == IF Tier(s) = "Pinned" THEN "Pinned" ELSE "Hot"

(* write_at replaces a slot, whatever the budget.                           *)
WriteAt(s) ==
    /\ Direct
    /\ next_seq < MaxSeq
    /\ slots' = [slots EXCEPT ![s] = HotSlot(TierKept(s), next_seq)]
    /\ len' = GrownTo(s)
    /\ resident' = resident - slots[s].bytes.length + TILE_BYTES
    /\ next_seq' = next_seq + 1
    /\ UNCHANGED evictions

ClearSlot(s) ==
    /\ Direct
    /\ Present(s)
    /\ slots' = [slots EXCEPT ![s] = Absent]
    /\ resident' = resident - slots[s].bytes.length
    /\ UNCHANGED <<len, next_seq, evictions>>

(* clear keeps the numbering going. Mutant: it starts again.                *)
SeqAfterClear_reset == 0

SeqAfterClear == next_seq

Clear ==
    /\ Direct
    /\ len' = 0 /\ slots' = [s \in Slots |-> Absent] /\ resident' = 0
    /\ next_seq' = SeqAfterClear
    /\ UNCHANGED evictions

(* observe_scores: one softmax unit lands on a named slot. COLD slots gain  *)
(* importance too; the share of an absent slot is lost.                     *)
observe_scores(s) ==
    /\ Direct
    /\ Present(s) /\ slots[s].importance < MaxImportance
    /\ slots' = [slots EXCEPT ![s].importance = @ + 1]
    /\ UNCHANGED <<len, resident, next_seq, evictions>>

-----------------------------------------------------------------------------
(* Transitions of one slot                                                  *)

(* HOT -> WARM.                                                             *)
Demoted(x) ==
    [x EXCEPT !.bytes = pack_warm(x.bytes),
              !.warm_residual = x.bytes.residual,
              !.offloaded = NoBytes, !.tier = "Warm"]

(* WARM -> HOT.                                                             *)
Promoted(x) ==
    [x EXCEPT !.bytes = WithResidual(x.bytes, x.warm_residual),
              !.warm_residual = NoPlane, !.tier = "Hot"]

(* HOT or WARM -> COLD.                                                     *)
Evicted(x) == [x EXCEPT !.offloaded = x.bytes, !.bytes = NoBytes,
                        !.tier = "Cold"]

(* COLD -> HOT or WARM, by the length of the backing. Mutant: always HOT.   *)
TierOfLength_hot(n) == "Hot"

TierOfLength(n) == IF n = TILE_BYTES THEN "Hot" ELSE "Warm"

Restored(x) == [x EXCEPT !.bytes = x.offloaded, !.offloaded = NoBytes,
                         !.tier = TierOfLength(x.offloaded.length)]

FitsGrowth(n) == resident + n <= hard

CanPromote(s) ==
    Tier(s) = "Warm" /\ slots[s].warm_residual # NoPlane
        /\ FitsGrowth(RESIDUAL_BYTES)

CanRestore(s) == Tier(s) = "Cold" /\ FitsGrowth(slots[s].offloaded.length)

demote_slot(s) ==
    /\ slots' = [slots EXCEPT ![s] = Demoted(@)]
    /\ resident' = resident - RESIDUAL_BYTES
    /\ UNCHANGED evictions

promote_slot(s) ==
    /\ slots' = [slots EXCEPT ![s] = Promoted(@)]
    /\ resident' = resident + RESIDUAL_BYTES
    /\ UNCHANGED evictions

evict_slot(s) ==
    /\ slots' = [slots EXCEPT ![s] = Evicted(@)]
    /\ resident' = resident - slots[s].bytes.length
    /\ evictions' = evictions + 1

restore_slot(s) ==
    /\ slots' = [slots EXCEPT ![s] = Restored(@)]
    /\ resident' = resident + slots[s].offloaded.length
    /\ UNCHANGED evictions

DemoteSlot(s) ==
    Direct /\ Tier(s) = "Hot" /\ demote_slot(s) /\ UNCHANGED <<len, next_seq>>

PromoteSlot(s) ==
    Direct /\ CanPromote(s) /\ promote_slot(s) /\ UNCHANGED <<len, next_seq>>

EvictSlot(s) ==
    /\ Direct /\ Tier(s) \in {"Hot", "Warm"}
    /\ evictions < MaxEvictions
    /\ evict_slot(s)
    /\ UNCHANGED <<len, next_seq>>

RestoreSlot(s) ==
    Direct /\ CanRestore(s) /\ restore_slot(s) /\ UNCHANGED <<len, next_seq>>

(* A WARM slot is promoted before it is pinned.                             *)
Pin(s) ==
    /\ Direct
    /\ \/ /\ Tier(s) \in {"Hot", "Pinned"}
          /\ slots' = [slots EXCEPT ![s].tier = "Pinned"]
          /\ UNCHANGED resident
       \/ /\ CanPromote(s)
          /\ slots' = [slots EXCEPT ![s] =
                          [Promoted(@) EXCEPT !.tier = "Pinned"]]
          /\ resident' = resident + RESIDUAL_BYTES
    /\ UNCHANGED <<len, next_seq, evictions>>

-----------------------------------------------------------------------------
(* Candidate order                                                          *)

(* cmp_low_first: importance, then generation.                              *)
LowFirst(a, b) ==
    \/ slots[a].importance < slots[b].importance
    \/ slots[a].importance = slots[b].importance /\ slots[a].seq < slots[b].seq

(* Mutant: the most important candidate is the first victim.                *)
IsLowest_highest(s, S) == s \in S /\ \A r \in S \ {s} : LowFirst(r, s)

IsLowest(s, S)  == s \in S /\ \A r \in S \ {s} : LowFirst(s, r)

IsHighest(s, S) == s \in S /\ \A r \in S \ {s} : LowFirst(r, s)

-----------------------------------------------------------------------------
(* Transactions                                                             *)

CacheNow == [len |-> len, slots |-> slots, resident |-> resident,
             next_seq |-> next_seq, evictions |-> evictions]

Minimum(a, b) == IF a < b THEN a ELSE b

Begin(action, t, s) ==
    /\ Idle
    /\ pc' = action /\ target' = Minimum(t, hard) /\ dense' = s
    /\ snap' = CacheNow /\ ret' = "none"
    /\ UNCHANGED hard

Return(value) ==
    /\ pc' = "idle" /\ ret' = value
    /\ target' = 0 /\ dense' = 0 /\ snap' = NoSnapshot
    /\ UNCHANGED hard

InCall == UNCHANGED <<hard, callVars>>

(* apply_action(Demote | Offload, t); demote_to and offload_to.             *)
BeginRelease(action, t) ==
    /\ evictions + Cardinality(SlotsIn({"Hot", "Warm"})) <= MaxEvictions
    /\ Begin(action, t, 0)
    /\ UNCHANGED cacheVars

(* step: the target the cache derives when its controller asks for a        *)
(* release. What the controller decides is left open.                       *)
StepTarget ==
    IF resident > hard THEN hard
    ELSE IF resident > RESIDUAL_BYTES THEN resident - RESIDUAL_BYTES ELSE 0

Step(action) == BeginRelease(action, StepTarget)

(* One turn of the Demote loop, and of the Offload loop.                    *)
Evictable(action) ==
    IF action = "Demote" /\ SlotsIn({"Hot"}) # {} THEN {}
    ELSE SlotsIn({"Hot", "Warm"})

ReleaseDemote(s) ==
    /\ pc = "Demote" /\ resident > target
    /\ IsLowest(s, SlotsIn({"Hot"}))
    /\ demote_slot(s)
    /\ InCall /\ UNCHANGED <<len, next_seq>>

ReleaseEvict(s) ==
    /\ pc \in {"Demote", "Offload"} /\ resident > target
    /\ IsLowest(s, Evictable(pc))
    /\ evict_slot(s)
    /\ InCall /\ UNCHANGED <<len, next_seq>>

(* The loop ends on its target or when a turn changes nothing. Mutant: it   *)
(* does not notice that nothing changes.                                    *)
LoopOver_stuck == resident <= target

(* Mutant: it gives up when no HOT slot is left.                            *)
LoopOver_early == resident <= target \/ SlotsIn({"Hot"}) = {}

LoopOver == resident <= target \/ SlotsIn({"Hot", "Warm"}) = {}

(* The rollback of apply_action, which does not restore next_seq. Mutant:   *)
(* it does not restore the eviction count.                                  *)
RollbackRelease_count ==
    /\ len' = snap.len /\ slots' = snap.slots /\ resident' = snap.resident
    /\ UNCHANGED <<next_seq, evictions>>

RollbackRelease ==
    /\ len' = snap.len /\ slots' = snap.slots /\ resident' = snap.resident
    /\ evictions' = snap.evictions
    /\ UNCHANGED next_seq

ReleaseEnd ==
    /\ pc \in {"Demote", "Offload"} /\ LoopOver
    /\ IF resident <= target
       THEN Return("ok") /\ UNCHANGED cacheVars
       ELSE Return("err") /\ RollbackRelease

(* apply_action(Promote): the first WARM slot, most important first, that   *)
(* can be promoted. The other actions change nothing.                       *)
ApplyPromote(s) ==
    /\ Direct
    /\ IsHighest(s, {r \in Slots : CanPromote(r)})
    /\ promote_slot(s)
    /\ UNCHANGED <<len, next_seq>>

(* apply_action(Restore): a later candidate may fit where a more important  *)
(* one does not.                                                            *)
ApplyRestore(s) ==
    /\ Direct
    /\ IsHighest(s, {r \in Slots : CanRestore(r)})
    /\ restore_slot(s)
    /\ UNCHANGED <<len, next_seq>>

-----------------------------------------------------------------------------
(* write_at_dense_budget                                                    *)

(* The slot is emptied first; whether it was pinned is remembered.          *)
BeginDense(s, t) ==
    /\ next_seq < MaxSeq
    /\ resident <= hard
    /\ Begin("Dense", t, s)
    /\ len' = GrownTo(s)
    /\ slots' = [slots EXCEPT ![s] = Absent]
    /\ resident' = resident - slots[s].bytes.length
    /\ UNCHANGED <<next_seq, evictions>>

DensePinned == snap.slots[dense].tier = "Pinned"

MinimumNew == IF DensePinned THEN TILE_BYTES ELSE WARM_PACKED_BYTES

DenseDemote(s) ==
    /\ pc = "Dense" /\ resident + MinimumNew > target
    /\ IsLowest(s, SlotsIn({"Hot"}))
    /\ demote_slot(s)
    /\ InCall /\ UNCHANGED <<len, next_seq>>

(* The tier of the new value.                                               *)
DenseTier ==
    IF DensePinned THEN "Pinned"
    ELSE IF resident + TILE_BYTES <= target THEN "Hot" ELSE "Warm"

DenseWrite ==
    LET new == IF DenseTier = "Warm" THEN WarmSlot(next_seq)
               ELSE HotSlot(DenseTier, next_seq)
    IN /\ pc = "Dense" /\ resident + MinimumNew <= target
       /\ slots' = [slots EXCEPT ![dense] = new]
       /\ resident' = resident + new.bytes.length
       /\ next_seq' = next_seq + 1
       /\ Return("ok")
       /\ UNCHANGED <<len, evictions>>

(* Nothing is left to demote: everything but the eviction count, which a    *)
(* dense write never changes, is restored.                                  *)
DenseFail ==
    /\ pc = "Dense" /\ resident + MinimumNew > target
    /\ SlotsIn({"Hot"}) = {}
    /\ len' = snap.len /\ slots' = snap.slots /\ resident' = snap.resident
    /\ next_seq' = snap.next_seq
    /\ Return("err")
    /\ UNCHANGED evictions

-----------------------------------------------------------------------------
CallStep ==
    \/ \E s \in Slots : ReleaseDemote(s) \/ ReleaseEvict(s) \/ DenseDemote(s)
    \/ ReleaseEnd \/ DenseWrite \/ DenseFail

SlotStep(s) ==
    \/ WriteAt(s) \/ ClearSlot(s) \/ observe_scores(s) \/ Pin(s)
    \/ DemoteSlot(s) \/ PromoteSlot(s) \/ EvictSlot(s) \/ RestoreSlot(s)
    \/ ApplyPromote(s) \/ ApplyRestore(s)

Next ==
    \/ Insert \/ Clear
    \/ \E s \in Slots : SlotStep(s)
    \/ \E action \in {"Demote", "Offload"} :
         Step(action) \/ \E t \in Targets : BeginRelease(action, t)
    \/ \E s \in Slots, t \in Targets : BeginDense(s, t)
    \/ CallStep

(* A call that has begun runs to its return.                                *)
Fairness == WF_vars(CallStep)

Spec == Init /\ [][Next]_vars /\ Fairness

-----------------------------------------------------------------------------
(* Properties                                                               *)

Calls == {"Demote", "Offload", "Dense"}

Snapshot == [len : 0 .. MaxSlots, slots : [Slots -> Slot], resident : Nat,
             next_seq : Nat, evictions : Nat]

(* The shape of ElasticKvCache. The byte counter stays in Nat, so no        *)
(* saturating subtraction of the code ever saturates; nothing lies beyond   *)
(* the end of the Vec.                                                      *)
TypeOK ==
    /\ len \in 0 .. MaxSlots
    /\ slots \in [Slots -> Slot]
    /\ \A s \in Slots : s >= len => slots[s] = Absent
    /\ resident \in Nat /\ next_seq \in Nat /\ evictions \in Nat
    /\ hard \in Nat
    /\ pc \in {"idle"} \cup Calls
    /\ target \in Nat /\ dense \in Nat
    /\ snap \in Snapshot
    /\ ret \in {"none", "ok", "err"}

(* What a slot of each tier holds.                                          *)
Residency(x) ==
    CASE x.tier \in {"Hot", "Pinned"} ->
             x.bytes.length = TILE_BYTES /\ x.offloaded = NoBytes
      [] x.tier = "Warm" ->
             /\ x.bytes.length = WARM_PACKED_BYTES
             /\ x.warm_residual # NoPlane /\ x.offloaded = NoBytes
      [] x.tier = "Cold" -> x.bytes.length = 0 /\ x.offloaded # NoBytes
      [] OTHER -> TRUE

ResidentSum ==
    TILE_BYTES * Cardinality(SlotsIn({"Hot", "Pinned"}))
        + WARM_PACKED_BYTES * Cardinality(SlotsIn({"Warm"}))

(* verify_accounting cannot fail: after any sequence of operations, and at  *)
(* every turn inside a transaction, resident_bytes is the sum over the      *)
(* slots and every slot holds what its tier promises.                       *)
Accounted ==
    /\ resident = ResidentSum
    /\ \A s \in Slots : Residency(slots[s])

(* The full tile a slot stands for, by the restore and promote paths.       *)
ExactTile(x) ==
    LET kept == IF x.tier = "Cold" THEN x.offloaded ELSE x.bytes
    IN IF kept.length = TILE_BYTES THEN kept
       ELSE WithResidual(kept, x.warm_residual)

(* Residency is reversible: whatever demotions, evictions, restorations,    *)
(* promotions and rollbacks a slot has been through, the exact tile of its  *)
(* generation can still be put together from it.                            *)
Lossless ==
    \A s \in Slots : Present(s) =>
        ExactTile(slots[s]) = FullTile(slots[s].seq)

Backing(x) ==
    x.offloaded.length
        + (IF x.warm_residual # NoPlane THEN RESIDUAL_BYTES ELSE 0)

(* Resident and backing bytes of a slot always add up to one tile: nothing  *)
(* is kept twice, so offloaded_bytes never counts a leftover plane.         *)
NothingKeptTwice ==
    \A s \in Slots : Present(s) =>
        slots[s].bytes.length + Backing(slots[s]) = TILE_BYTES

Ends == pc # "idle" /\ pc' = "idle"

(* apply_action and write_at_dense_budget are all or nothing: on Err the    *)
(* whole cache is as it was when the call began, also the fields their      *)
(* rollback does not mention; on Ok the residency target is met.            *)
AllOrNothing ==
    [][Ends => IF ret' = "err" THEN CacheNow' = snap
               ELSE resident' <= target /\ target <= hard]_vars

PinnedIn(sl) == {s \in Slots : sl[s].tier = "Pinned"}
LiveIn(sl)   == {s \in Slots : sl[s].tier \in {"Hot", "Warm"}}

(* Bytes that stay resident when every slot but the pinned ones is WARM.    *)
WarmFloor(sl, S) ==
    TILE_BYTES * Cardinality(PinnedIn(sl) \cap S)
        + WARM_PACKED_BYTES * Cardinality(LiveIn(sl) \cap S)

(* An Err means the target could not have been met: a release fails only if *)
(* the PINNED slots alone exceed it, a dense write only if every other slot *)
(* being WARM would not make room. And a dense write makes its room without *)
(* losing a key: no resident slot becomes COLD, and the written slot is     *)
(* resident under a new generation, PINNED if the position was.             *)
FailsOnlyIfImpossible ==
    [][/\ Ends /\ ret' = "err" =>
            IF pc = "Dense"
            THEN target < WarmFloor(snap.slots, Slots \ {dense})
                     + (IF dense \in PinnedIn(snap.slots) THEN TILE_BYTES
                        ELSE WARM_PACKED_BYTES)
            ELSE TILE_BYTES * Cardinality(PinnedIn(snap.slots)) > target
       /\ pc = "Dense" =>
            /\ \A s \in SlotsIn({"Hot", "Warm", "Pinned"}) : Tier(s)' # "Cold"
            /\ (Ends /\ ret' = "ok") =>
                 /\ slots'[dense].tier \in {"Hot", "Warm", "Pinned"}
                 /\ (slots'[dense].tier = "Pinned") <=> (dense \in PinnedIn(snap.slots))
                 /\ slots'[dense].seq = snap.next_seq]_vars

(* The advice on demote_to: "Callers that must keep all active keys         *)
(* scoreable should set a target no lower than 96 bytes per active slot."   *)
DemoteKeepsScoreable ==
    [][(/\ pc = "Demote"
        /\ target >= WARM_PACKED_BYTES
              * Cardinality(PinnedIn(snap.slots) \cup LiveIn(snap.slots)))
       => \A s \in SlotsIn({"Hot", "Warm"}) : Tier(s)' # "Cold"]_vars

(* Importance decides who pays over a whole release: of two adaptable slots *)
(* the more important one is evicted only if the other is, and of two that  *)
(* were HOT it is demoted only if the other is.                             *)
ImportantPaysLast ==
    [][Ends /\ pc # "Dense" /\ ret' = "ok" =>
         \A a, b \in LiveIn(snap.slots) : LowFirst(b, a) =>
            /\ Tier(a)' = "Cold" => Tier(b)' = "Cold"
            /\ (/\ {snap.slots[a].tier, snap.slots[b].tier} = {"Hot"}
                /\ Tier(a)' # "Hot") => Tier(b)' # "Hot"]_vars

(* Adaptation never touches a PINNED slot: its tile changes only by being   *)
(* rewritten in place under a new generation, its tier only by removal.     *)
PinnedProtected ==
    [][\A s \in Slots : Tier(s) = "Pinned" =>
         \/ Tier(s)' = "Pinned" /\ (slots'[s].seq = slots[s].seq =>
                                       slots'[s].bytes = slots[s].bytes)
         \/ Idle /\ ~Present(s)']_vars

(* slot_generation identifies a materialisation: a slot that comes to hold  *)
(* another value, other than by a rollback, gets a generation no slot ever  *)
(* had, across clear and failed writes too.                                 *)
GenerationsFresh ==
    [][/\ next_seq' >= next_seq
       /\ \A s \in Slots :
            (/\ Present(s)' /\ ret' # "err"
             /\ ~Present(s) \/ slots'[s].seq # slots[s].seq)
            => slots'[s].seq >= next_seq]_vars

(* Only insert and write_at may exceed the hard budget: a promotion, a      *)
(* restoration, pinning or a dense write that grows residency stays inside. *)
GrowthWithinHard ==
    [][resident' > resident =>
          \/ resident' <= hard
          \/ Idle /\ next_seq' > next_seq
          \/ ret' = "err"]_vars

(* Every transaction returns.                                               *)
CallsReturn == pc # "idle" ~> pc = "idle"

=============================================================================
