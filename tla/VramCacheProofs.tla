--------------------------- MODULE VramCacheProofs ---------------------------
(* Proofs about the VRAM cache and the ElasticXxx bridge over it, for every *)
(* value of the constants.                                                  *)
EXTENDS VramBridge, SetLemmas

-----------------------------------------------------------------------------
(* The shapes a slot can take. Which planes it holds and where, and that    *)
(* all of them belong to its own generation, is decided by its tier alone,  *)
(* except that a COLD slot may have come from HOT or from WARM.             *)

Packed(q) == pack_warm(FullTile(q))

Shape(x) ==
    \/ x = Absent
    \/ /\ x.tier \in {"Hot", "Pinned"}
       /\ x.bytes = FullTile(x.seq) /\ x.offloaded = NoBytes
       /\ x.warm_residual = NoPlane
    \/ /\ x.tier = "Warm"
       /\ x.bytes = Packed(x.seq) /\ x.offloaded = NoBytes
       /\ x.warm_residual = x.seq
    \/ /\ x.tier = "Cold" /\ x.bytes = NoBytes
       /\ \/ x.offloaded = FullTile(x.seq) /\ x.warm_residual = NoPlane
          \/ x.offloaded = Packed(x.seq) /\ x.warm_residual = x.seq

(* The bytes a slot of this tier is charged for.                            *)
Charge(t) ==
    IF t \in {"Hot", "Pinned"} THEN TILE_BYTES
    ELSE IF t = "Warm" THEN WARM_PACKED_BYTES ELSE 0

InTier(sl, T) == {s \in Slots : sl[s].tier \in T}

ResidentOf(sl) ==
    TILE_BYTES * Cardinality(InTier(sl, {"Hot", "Pinned"}))
        + WARM_PACKED_BYTES * Cardinality(InTier(sl, {"Warm"}))

(* A whole cache, now or in the snapshot of a transaction.                  *)
CacheOK(n, sl, r) ==
    /\ n \in 0 .. MaxSlots
    /\ sl \in [Slots -> Slot]
    /\ \A s \in Slots : s >= n => sl[s] = Absent
    /\ \A s \in Slots : Shape(sl[s])
    /\ r = ResidentOf(sl)

-----------------------------------------------------------------------------
(* Slots                                                                    *)

LEMMA BytesTypes ==
    ASSUME NEW q \in Nat
    PROVE  /\ NoBytes \in Bytes /\ FullTile(q) \in Bytes /\ Packed(q) \in Bytes
           /\ NoBytes.length = 0 /\ FullTile(q).length = TILE_BYTES
           /\ Packed(q).length = WARM_PACKED_BYTES
           /\ FullTile(q).residual = q
           /\ WithResidual(Packed(q), q) = FullTile(q)
<1>1. Packed(q) = [length |-> WARM_PACKED_BYTES, base |-> q,
                   residual |-> NoPlane, warm |-> TRUE]
  BY DEF Packed, pack_warm, FullTile
<1>2. WithResidual(Packed(q), q) = FullTile(q)
  BY <1>1 DEF WithResidual, FullTile
<1>3. NoBytes \in Bytes /\ FullTile(q) \in Bytes /\ Packed(q) \in Bytes
  BY <1>1 DEF Bytes, NoBytes, FullTile, NoPlane
<1> QED BY <1>1, <1>2, <1>3 DEF NoBytes, FullTile

LEMMA AbsentType == Absent \in Slot /\ Shape(Absent) /\ Absent.tier = "Absent"
<1>1. NoBytes \in Bytes BY BytesTypes
<1> QED BY <1>1 DEF Absent, Slot, Shape, NoPlane

LEMMA HotSlotOK ==
    ASSUME NEW t \in {"Hot", "Pinned"}, NEW q \in Nat
    PROVE  /\ HotSlot(t, q) \in Slot /\ Shape(HotSlot(t, q))
           /\ HotSlot(t, q).tier = t /\ HotSlot(t, q).seq = q
<1>1. NoBytes \in Bytes /\ FullTile(q) \in Bytes BY BytesTypes
<1> QED BY <1>1 DEF HotSlot, Slot, Shape, PhysicalTier, NoPlane

LEMMA WarmSlotOK ==
    ASSUME NEW q \in Nat
    PROVE  /\ WarmSlot(q) \in Slot /\ Shape(WarmSlot(q))
           /\ WarmSlot(q).tier = "Warm" /\ WarmSlot(q).seq = q
<1>1. NoBytes \in Bytes /\ Packed(q) \in Bytes BY BytesTypes
<1> QED BY <1>1 DEF WarmSlot, Slot, Shape, PhysicalTier, Packed

(* A slot is charged for the bytes it holds.                                *)
LEMMA ChargeIsLength ==
    ASSUME NEW x \in Slot, Shape(x)
    PROVE  x.bytes.length = Charge(x.tier)
<1>1. x.seq \in Nat BY DEF Slot
<1>2. /\ NoBytes.length = 0 /\ FullTile(x.seq).length = TILE_BYTES
      /\ Packed(x.seq).length = WARM_PACKED_BYTES
  BY <1>1, BytesTypes
<1>3. CASE x = Absent
  BY <1>2, <1>3 DEF Absent, Charge
<1> QED BY <1>2, <1>3 DEF Shape, Charge

(* What a present slot stands for is the full tile of its generation.       *)
LEMMA ExactTileOK ==
    ASSUME NEW x \in Slot, Shape(x), x.tier # "Absent"
    PROVE  ExactTile(x) = FullTile(x.seq)
<1>1. x.seq \in Nat BY DEF Slot
<1>2. x # Absent BY AbsentType
<1>3. /\ FullTile(x.seq).length = TILE_BYTES
      /\ Packed(x.seq).length = WARM_PACKED_BYTES
      /\ WithResidual(Packed(x.seq), x.seq) = FullTile(x.seq)
      /\ TILE_BYTES # WARM_PACKED_BYTES
  BY <1>1, BytesTypes DEF TILE_BYTES, WARM_PACKED_BYTES
<1> QED BY <1>2, <1>3 DEF ExactTile, Shape

LEMMA DemotedOK ==
    ASSUME NEW x \in Slot, Shape(x), x.tier = "Hot"
    PROVE  /\ Demoted(x) \in Slot /\ Shape(Demoted(x))
           /\ Demoted(x).tier = "Warm" /\ Demoted(x).seq = x.seq
<1>1. x.seq \in Nat BY DEF Slot
<1>2. x # Absent BY DEF Absent
<1>3. x.bytes = FullTile(x.seq) BY <1>2 DEF Shape
<1>4. /\ NoBytes \in Bytes /\ Packed(x.seq) \in Bytes
      /\ x.bytes.residual = x.seq
  BY <1>1, <1>3, BytesTypes
<1>5. Demoted(x) = [x EXCEPT !.bytes = Packed(x.seq),
                             !.warm_residual = x.seq,
                             !.offloaded = NoBytes, !.tier = "Warm"]
  BY <1>3, <1>4 DEF Demoted, Packed
<1> QED BY <1>1, <1>4, <1>5 DEF Slot, Shape, PhysicalTier

LEMMA PromotedOK ==
    ASSUME NEW x \in Slot, Shape(x), x.tier = "Warm"
    PROVE  /\ Promoted(x) \in Slot /\ Shape(Promoted(x))
           /\ Promoted(x).tier = "Hot" /\ Promoted(x).seq = x.seq
<1>1. x.seq \in Nat BY DEF Slot
<1>2. x # Absent BY DEF Absent
<1>3. /\ x.bytes = Packed(x.seq) /\ x.warm_residual = x.seq
      /\ x.offloaded = NoBytes
  BY <1>2 DEF Shape
<1>4. FullTile(x.seq) \in Bytes /\ WithResidual(x.bytes, x.seq) = FullTile(x.seq)
  BY <1>1, <1>3, BytesTypes
<1>5. Promoted(x) = [x EXCEPT !.bytes = FullTile(x.seq),
                              !.warm_residual = NoPlane, !.tier = "Hot"]
  BY <1>3, <1>4 DEF Promoted
<1> QED BY <1>1, <1>3, <1>4, <1>5 DEF Slot, Shape, PhysicalTier

LEMMA EvictedOK ==
    ASSUME NEW x \in Slot, Shape(x), x.tier \in {"Hot", "Warm"}
    PROVE  /\ Evicted(x) \in Slot /\ Shape(Evicted(x))
           /\ Evicted(x).tier = "Cold" /\ Evicted(x).seq = x.seq
<1>1. x.seq \in Nat BY DEF Slot
<1>2. x # Absent BY DEF Absent
<1>3. NoBytes \in Bytes /\ x.bytes \in Bytes BY <1>1, BytesTypes DEF Slot
<1> QED BY <1>1, <1>2, <1>3 DEF Evicted, Slot, Shape, PhysicalTier

LEMMA RestoredOK ==
    ASSUME NEW x \in Slot, Shape(x), x.tier = "Cold"
    PROVE  /\ Restored(x) \in Slot /\ Shape(Restored(x))
           /\ Restored(x).tier \in {"Hot", "Warm"} /\ Restored(x).seq = x.seq
           /\ Charge(Restored(x).tier) = x.offloaded.length
<1>1. x.seq \in Nat BY DEF Slot
<1>2. x # Absent BY DEF Absent
<1>3. /\ NoBytes \in Bytes /\ x.offloaded \in Bytes
      /\ FullTile(x.seq).length = TILE_BYTES
      /\ Packed(x.seq).length = WARM_PACKED_BYTES
  BY <1>1, BytesTypes DEF Slot
<1>4. CASE x.offloaded = FullTile(x.seq) /\ x.warm_residual = NoPlane
  BY <1>1, <1>3, <1>4 DEF Restored, TierOfLength, Slot, Shape, PhysicalTier,
     Charge
<1>5. CASE x.offloaded = Packed(x.seq) /\ x.warm_residual = x.seq
  <2>1. TierOfLength(x.offloaded.length) = "Warm"
    BY <1>3, <1>5 DEF TierOfLength, TILE_BYTES, WARM_PACKED_BYTES
  <2> QED BY <1>1, <1>3, <1>5, <2>1 DEF Restored, Slot, Shape, PhysicalTier,
             Charge
<1> QED BY <1>2, <1>4, <1>5 DEF Shape

-----------------------------------------------------------------------------
(* The sum over the slots                                                   *)

LEMMA InTierFinite ==
    ASSUME NEW sl, NEW T
    PROVE  /\ IsFiniteSet(Slots) /\ InTier(sl, T) \in SUBSET Slots
           /\ Cardinality(InTier(sl, T)) \in Nat
<1>1. IsFiniteSet(Slots)
  BY VramCacheAssumption, FS_Interval DEF Slots
<1>2. InTier(sl, T) \in SUBSET Slots
  BY DEF InTier
<1> QED BY <1>1, <1>2, FS_Subset, FS_CardinalityType

LEMMA ResidentNat == ASSUME NEW sl PROVE ResidentOf(sl) \in Nat
<1> DEFINE a == Cardinality(InTier(sl, {"Hot", "Pinned"}))
           b == Cardinality(InTier(sl, {"Warm"}))
<1>1. a \in Nat /\ b \in Nat BY InTierFinite
<1>2. ResidentOf(sl) = 128 * a + 96 * b
  BY DEF ResidentOf, TILE_BYTES, WARM_PACKED_BYTES
<1> HIDE DEF a, b
<1> QED BY <1>1, <1>2

(* Replacing one slot changes the sum by the change of its charge.          *)
LEMMA ResidentChange ==
    ASSUME NEW sl \in [Slots -> Slot], NEW s \in Slots, NEW x \in Slot
    PROVE  ResidentOf([sl EXCEPT ![s] = x])
             = ResidentOf(sl) - Charge(sl[s].tier) + Charge(x.tier)
<1> DEFINE sm == [sl EXCEPT ![s] = x]
           a == InTier(sl, {"Hot", "Pinned"}) aa == InTier(sm, {"Hot", "Pinned"})
           b == InTier(sl, {"Warm"})          bb == InTier(sm, {"Warm"})
<1>1. /\ Cardinality(a) \in Nat /\ Cardinality(aa) \in Nat
      /\ Cardinality(b) \in Nat /\ Cardinality(bb) \in Nat
      /\ a \in SUBSET Slots /\ aa \in SUBSET Slots
      /\ b \in SUBSET Slots /\ bb \in SUBSET Slots
      /\ IsFiniteSet(Slots)
  <2> HIDE DEF sm
  <2> QED BY InTierFinite
<1>2. \A r \in Slots : r # s => sm[r] = sl[r]
  OBVIOUS
<1>3. sm[s] = x
  OBVIOUS
<1>4. Cardinality(a) - Ind(s, a) = Cardinality(aa) - Ind(s, aa)
  <2>1. \A r \in Slots : r # s => (r \in a <=> r \in aa) BY <1>2 DEF InTier
  <2> HIDE DEF a, aa
  <2> QED BY <1>1, <2>1, CardinalityChange
<1>5. Cardinality(b) - Ind(s, b) = Cardinality(bb) - Ind(s, bb)
  <2>1. \A r \in Slots : r # s => (r \in b <=> r \in bb) BY <1>2 DEF InTier
  <2> HIDE DEF b, bb
  <2> QED BY <1>1, <2>1, CardinalityChange
<1>6. /\ Charge(sl[s].tier) = 128 * Ind(s, a) + 96 * Ind(s, b)
      /\ Charge(x.tier) = 128 * Ind(s, aa) + 96 * Ind(s, bb)
  BY <1>3 DEF Charge, Ind, InTier, TILE_BYTES, WARM_PACKED_BYTES
<1>7. /\ Ind(s, a) \in Nat /\ Ind(s, aa) \in Nat
      /\ Ind(s, b) \in Nat /\ Ind(s, bb) \in Nat
  BY DEF Ind
<1>8. /\ ResidentOf(sl) = 128 * Cardinality(a) + 96 * Cardinality(b)
      /\ ResidentOf(sm) = 128 * Cardinality(aa) + 96 * Cardinality(bb)
  BY DEF ResidentOf, TILE_BYTES, WARM_PACKED_BYTES
<1> HIDE DEF a, aa, b, bb, sm
<1>9. ResidentOf(sm) = ResidentOf(sl) - Charge(sl[s].tier) + Charge(x.tier)
  BY <1>1, <1>4, <1>5, <1>6, <1>7, <1>8
<1> QED BY <1>9 DEF sm

(* Replacing one slot, or appending it, with the counter moved by the       *)
(* change of its charge, keeps the cache in order.                          *)
LEMMA CacheChange ==
    ASSUME NEW n, NEW sl, NEW r, CacheOK(n, sl, r),
           NEW s \in Slots, NEW x \in Slot, Shape(x),
           NEW k \in 0 .. MaxSlots, k >= n, s < k \/ x = Absent,
           NEW rr, rr = r - sl[s].bytes.length + Charge(x.tier)
    PROVE  CacheOK(k, [sl EXCEPT ![s] = x], rr) /\ rr \in Nat
<1> DEFINE sm == [sl EXCEPT ![s] = x]
<1>1. /\ n \in 0 .. MaxSlots /\ sl \in [Slots -> Slot]
      /\ \A t \in Slots : t >= n => sl[t] = Absent
      /\ \A t \in Slots : Shape(sl[t])
      /\ r = ResidentOf(sl)
  BY DEF CacheOK
<1>2. sm \in [Slots -> Slot]
  BY <1>1
<1>3. \A t \in Slots : t >= k => sm[t] = Absent
  <2> SUFFICES ASSUME NEW t \in Slots, t >= k PROVE sm[t] = Absent
    OBVIOUS
  <2>1. t >= n BY <1>1, VramCacheAssumption DEF Slots
  <2>2. t = s => x = Absent BY VramCacheAssumption DEF Slots
  <2> QED BY <1>1, <2>1, <2>2
<1>4. \A t \in Slots : Shape(sm[t])
  BY <1>1
<1>5. sl[s].bytes.length = Charge(sl[s].tier)
  BY <1>1, ChargeIsLength
<1>6. rr = ResidentOf(sm)
  BY <1>1, <1>5, ResidentChange
<1>7. rr \in Nat
  BY <1>6, ResidentNat
<1> QED BY <1>2, <1>3, <1>4, <1>6, <1>7 DEF CacheOK

-----------------------------------------------------------------------------
(* The operations on one slot                                               *)

CacheNowOK == CacheOK(len, slots, resident)

LEMMA PresentBelowLen ==
    ASSUME CacheNowOK, NEW s \in Slots, slots[s].tier # "Absent"
    PROVE  s < len /\ slots[s] \in Slot /\ Shape(slots[s])
           /\ len \in 0 .. MaxSlots /\ len >= len
<1>1. slots[s] # Absent BY DEF Absent
<1> QED BY <1>1, VramCacheAssumption DEF CacheNowOK, CacheOK, Slots

(* A step that replaces one present slot by another one.                    *)
LEMMA ReplaceOK ==
    ASSUME CacheNowOK, NEW s \in Slots, slots[s].tier # "Absent",
           NEW x \in Slot, Shape(x),
           slots' = [slots EXCEPT ![s] = x], len' = len,
           resident' = resident - slots[s].bytes.length + Charge(x.tier)
    PROVE  CacheNowOK' /\ resident' \in Nat
  BY PresentBelowLen, CacheChange DEF CacheNowOK

LEMMA DemoteOK ==
    ASSUME CacheNowOK, NEW s \in Slots, slots[s].tier = "Hot",
           demote_slot(s), len' = len
    PROVE  /\ CacheNowOK' /\ resident' \in Nat
           /\ slots' = [slots EXCEPT ![s] = Demoted(slots[s])]
           /\ Demoted(slots[s]).tier = "Warm"
           /\ Demoted(slots[s]).seq = slots[s].seq
<1>1. slots[s] \in Slot /\ Shape(slots[s]) BY PresentBelowLen
<1>2. /\ Demoted(slots[s]) \in Slot /\ Shape(Demoted(slots[s]))
      /\ Demoted(slots[s]).tier = "Warm"
      /\ Demoted(slots[s]).seq = slots[s].seq
  BY <1>1, DemotedOK
<1>3. slots' = [slots EXCEPT ![s] = Demoted(slots[s])]
  BY DEF demote_slot
<1>4. slots[s].bytes.length = TILE_BYTES
  BY <1>1, ChargeIsLength DEF Charge
<1>5. resident \in Nat
  BY ResidentNat DEF CacheNowOK, CacheOK
<1>6. resident' = resident - slots[s].bytes.length + Charge("Warm")
  BY <1>4, <1>5 DEF demote_slot, Charge, TILE_BYTES, WARM_PACKED_BYTES,
     RESIDUAL_BYTES
<1>7. CacheNowOK' /\ resident' \in Nat
  BY <1>1, <1>2, <1>3, <1>6, ReplaceOK
<1> QED BY <1>2, <1>3, <1>7

LEMMA PromoteOK ==
    ASSUME CacheNowOK, NEW s \in Slots, slots[s].tier = "Warm",
           NEW x, x = Promoted(slots[s]) \/ x = [Promoted(slots[s]) EXCEPT !.tier = "Pinned"],
           slots' = [slots EXCEPT ![s] = x], len' = len,
           resident' = resident + RESIDUAL_BYTES
    PROVE  CacheNowOK' /\ resident' \in Nat
<1>1. slots[s] \in Slot /\ Shape(slots[s]) BY PresentBelowLen
<1> DEFINE h == Promoted(slots[s])
<1>2. h \in Slot /\ Shape(h) /\ h.tier = "Hot"
  BY <1>1, PromotedOK
<1> HIDE DEF h
<1>3. h # Absent BY <1>2 DEF Absent
<1>4. x \in Slot /\ Shape(x) /\ x.tier \in {"Hot", "Pinned"}
  <2>1. CASE x = h BY <1>2, <2>1
  <2>2. CASE x = [h EXCEPT !.tier = "Pinned"]
    BY <1>2, <1>3, <2>2 DEF Slot, Shape, PhysicalTier
  <2> QED BY <2>1, <2>2 DEF h
<1>5. slots[s].bytes.length = WARM_PACKED_BYTES
  BY <1>1, ChargeIsLength DEF Charge
<1>6. resident \in Nat
  BY ResidentNat DEF CacheNowOK, CacheOK
<1>7. resident' = resident - slots[s].bytes.length + Charge(x.tier)
  BY <1>4, <1>5, <1>6 DEF Charge, TILE_BYTES, WARM_PACKED_BYTES,
     RESIDUAL_BYTES
<1> QED BY <1>1, <1>4, <1>7, ReplaceOK

LEMMA EvictOK ==
    ASSUME CacheNowOK, NEW s \in Slots, slots[s].tier \in {"Hot", "Warm"},
           evict_slot(s), len' = len
    PROVE  /\ CacheNowOK' /\ resident' \in Nat
           /\ slots' = [slots EXCEPT ![s] = Evicted(slots[s])]
           /\ Evicted(slots[s]).tier = "Cold"
           /\ Evicted(slots[s]).seq = slots[s].seq
<1>1. slots[s] \in Slot /\ Shape(slots[s]) BY PresentBelowLen
<1>2. /\ Evicted(slots[s]) \in Slot /\ Shape(Evicted(slots[s]))
      /\ Evicted(slots[s]).tier = "Cold"
      /\ Evicted(slots[s]).seq = slots[s].seq
  BY <1>1, EvictedOK
<1>3. slots' = [slots EXCEPT ![s] = Evicted(slots[s])]
  BY DEF evict_slot
<1>4. resident \in Nat /\ slots[s].bytes.length \in Nat
  <2>1. slots[s].bytes.length = Charge(slots[s].tier)
    BY <1>1, ChargeIsLength
  <2> QED BY <2>1, ResidentNat DEF CacheNowOK, CacheOK, Charge, TILE_BYTES,
             WARM_PACKED_BYTES
<1>5. resident' = resident - slots[s].bytes.length + Charge("Cold")
  BY <1>4 DEF evict_slot, Charge
<1>6. CacheNowOK' /\ resident' \in Nat
  BY <1>1, <1>2, <1>3, <1>5, ReplaceOK
<1> QED BY <1>2, <1>3, <1>6

LEMMA RestoreOK ==
    ASSUME CacheNowOK, NEW s \in Slots, slots[s].tier = "Cold",
           restore_slot(s), len' = len
    PROVE  CacheNowOK' /\ resident' \in Nat
<1>1. slots[s] \in Slot /\ Shape(slots[s]) BY PresentBelowLen
<1> DEFINE x == Restored(slots[s])
<1>2. /\ x \in Slot /\ Shape(x)
      /\ Charge(x.tier) = slots[s].offloaded.length
      /\ x.tier \in {"Hot", "Warm"}
  BY <1>1, RestoredOK
<1>3. slots[s].bytes.length = 0
  BY <1>1, ChargeIsLength DEF Charge
<1>4. slots' = [slots EXCEPT ![s] = x]
  BY DEF restore_slot
<1> HIDE DEF x
<1>5. resident \in Nat /\ Charge(x.tier) \in Nat
  BY <1>2, ResidentNat DEF CacheNowOK, CacheOK, Charge, TILE_BYTES,
     WARM_PACKED_BYTES
<1>6. resident' = resident - slots[s].bytes.length + Charge(x.tier)
  BY <1>2, <1>3, <1>5 DEF restore_slot
<1> QED BY <1>2, <1>4, <1>6, ReplaceOK

-----------------------------------------------------------------------------
(* The inductive invariant: the cache and the snapshot are both in order,   *)
(* and what a call under way has left alone.                                *)

CallTypeOK ==
    /\ next_seq \in Nat /\ evictions \in Nat /\ hard \in Nat
    /\ pc \in {"idle"} \cup Calls
    /\ target \in Nat /\ dense \in Nat
    /\ snap \in Snapshot
    /\ ret \in {"none", "ok", "err"}

SnapOK == CacheOK(snap.len, snap.slots, snap.resident)

(* A call never numbers a slot before it returns, never exceeds the hard    *)
(* budget with its target, and has not touched a slot that is PINNED.       *)
CallKeeps ==
    pc # "idle" =>
        /\ next_seq = snap.next_seq /\ target <= hard
        /\ \A s \in Slots : slots[s].tier = "Pinned" => slots[s] = snap.slots[s]

(* A dense write keeps its slot empty, inside the Vec, and evicts nothing.  *)
DenseKeeps ==
    pc = "Dense" =>
        /\ dense \in Slots /\ dense < len
        /\ slots[dense] = Absent /\ evictions = snap.evictions

VInv == CallTypeOK /\ CacheNowOK /\ SnapOK /\ CallKeeps /\ DenseKeeps

LEMMA EmptyOK ==
    LET none == [s \in Slots |-> Absent]
    IN CacheOK(0, none, 0) /\ none \in [Slots -> Slot]
<1> DEFINE none == [s \in Slots |-> Absent]
<1>1. none \in [Slots -> Slot] BY AbsentType
<1>2. InTier(none, {"Hot", "Pinned"}) = {} /\ InTier(none, {"Warm"}) = {}
  BY AbsentType DEF InTier
<1>3. ResidentOf(none) = 0
  BY <1>2, FS_EmptySet DEF ResidentOf, TILE_BYTES, WARM_PACKED_BYTES
<1>4. \A s \in Slots : none[s] = Absent
  OBVIOUS
<1> HIDE DEF none
<1>5. CacheOK(0, none, 0)
  BY <1>1, <1>3, <1>4, AbsentType, VramCacheAssumption DEF CacheOK
<1> QED BY <1>1, <1>5 DEF none

LEMMA NoSnapshotOK ==
    /\ NoSnapshot \in Snapshot
    /\ CacheOK(NoSnapshot.len, NoSnapshot.slots, NoSnapshot.resident)
<1> DEFINE none == [s \in Slots |-> Absent]
<1>1. NoSnapshot = [len |-> 0, slots |-> none, resident |-> 0,
                    next_seq |-> 0, evictions |-> 0]
  BY DEF NoSnapshot
<1>2. CacheOK(0, none, 0) /\ none \in [Slots -> Slot]
  BY EmptyOK
<1> HIDE DEF none
<1> QED BY <1>1, <1>2, VramCacheAssumption DEF Snapshot

LEMMA VInit == Init => VInv
<1> SUFFICES ASSUME Init PROVE VInv
  OBVIOUS
<1>1. CallTypeOK BY NoSnapshotOK, VramCacheAssumption DEF Init, CallTypeOK
<1>2. CacheNowOK BY EmptyOK DEF Init, CacheNowOK
<1>3. SnapOK BY NoSnapshotOK DEF Init, SnapOK
<1>4. CallKeeps /\ DenseKeeps BY DEF Init, CallKeeps, DenseKeeps
<1> QED BY <1>1, <1>2, <1>3, <1>4 DEF VInv

(* A step outside a transaction preserves the invariant if it leaves the    *)
(* cache in order.                                                          *)
LEMMA DirectOK ==
    ASSUME VInv, Direct, CacheNowOK', next_seq' \in Nat, evictions' \in Nat
    PROVE  VInv'
<1>1. CallTypeOK' BY DEF VInv, CallTypeOK, Direct
<1>2. SnapOK' BY DEF VInv, SnapOK, Direct
<1>3. CallKeeps' /\ DenseKeeps' BY DEF Direct, Idle, CallKeeps, DenseKeeps
<1> QED BY <1>1, <1>2, <1>3 DEF VInv

(* So does the return of one.                                               *)
LEMMA ReturnOK ==
    ASSUME VInv, NEW v \in {"ok", "err"}, Return(v),
           CacheNowOK', next_seq' \in Nat, evictions' \in Nat
    PROVE  VInv'
<1>1. CallTypeOK' BY NoSnapshotOK DEF VInv, CallTypeOK, Return
<1>2. SnapOK' BY NoSnapshotOK DEF SnapOK, Return
<1>3. CallKeeps' /\ DenseKeeps' BY DEF Return, CallKeeps, DenseKeeps
<1> QED BY <1>1, <1>2, <1>3 DEF VInv

(* And a turn inside one that changes a single slot, neither PINNED before  *)
(* nor after.                                                               *)
LEMMA TurnOK ==
    ASSUME VInv, InCall, CacheNowOK', len' = len, next_seq' = next_seq,
           evictions' \in Nat, pc = "Dense" => evictions' = evictions,
           NEW s \in Slots, slots[s].tier # "Absent",
           NEW x, x.tier # "Pinned", slots' = [slots EXCEPT ![s] = x]
    PROVE  VInv'
<1>1. CallTypeOK' BY DEF VInv, CallTypeOK, InCall, callVars
<1>2. SnapOK' BY DEF VInv, SnapOK, InCall, callVars
<1>3. slots \in [Slots -> Slot] BY DEF VInv, CacheNowOK, CacheOK
<1>4. CallKeeps' BY <1>3 DEF VInv, CallKeeps, InCall, callVars
<1>5. pc = "Dense" => dense # s BY AbsentType DEF VInv, DenseKeeps
<1>6. DenseKeeps' BY <1>3, <1>5 DEF VInv, DenseKeeps, InCall, callVars
<1> QED BY <1>1, <1>2, <1>4, <1>6 DEF VInv

-----------------------------------------------------------------------------
(* One lemma per operation                                                  *)

LEMMA InsertStep == ASSUME VInv, Insert PROVE VInv'
<1> DEFINE x == HotSlot("Hot", next_seq)
<1>1. CacheNowOK /\ next_seq \in Nat /\ evictions \in Nat
  BY DEF VInv, CallTypeOK
<1>2. /\ len \in Slots /\ slots[len] = Absent /\ resident \in Nat
      /\ len \in 0 .. MaxSlots
  BY <1>1, ResidentNat, VramCacheAssumption DEF CacheNowOK, CacheOK, Slots, Insert
<1>3. x \in Slot /\ Shape(x) /\ x.tier = "Hot"
  BY <1>1, HotSlotOK
<1>4. slots[len].bytes.length = 0
  BY <1>2, AbsentType, ChargeIsLength DEF Charge
<1>5. Charge(x.tier) = TILE_BYTES
  BY <1>3 DEF Charge
<1>6. resident' = resident - slots[len].bytes.length + Charge(x.tier)
  BY <1>2, <1>4, <1>5 DEF Insert, TILE_BYTES
<1>7. /\ len' \in 0 .. MaxSlots /\ len' >= len /\ len < len'
      /\ slots' = [slots EXCEPT ![len] = x]
  BY <1>2, VramCacheAssumption DEF Insert, Slots
<1> HIDE DEF x
<1>8. CacheNowOK'
  BY <1>1, <1>2, <1>3, <1>6, <1>7, CacheChange DEF CacheNowOK
<1> QED BY <1>1, <1>8, DirectOK DEF Insert

LEMMA WriteAtStep == ASSUME VInv, NEW s \in Slots, WriteAt(s) PROVE VInv'
<1> DEFINE x == HotSlot(TierKept(s), next_seq)
<1>1. CacheNowOK /\ next_seq \in Nat /\ evictions \in Nat
  BY DEF VInv, CallTypeOK
<1>2. len \in 0 .. MaxSlots
  BY <1>1 DEF CacheNowOK, CacheOK
<1>3. x \in Slot /\ Shape(x) /\ x.tier \in {"Hot", "Pinned"}
  <2>1. TierKept(s) \in {"Hot", "Pinned"} BY DEF TierKept
  <2> QED BY <1>1, <2>1, HotSlotOK
<1>4. Charge(x.tier) = TILE_BYTES
  BY <1>3 DEF Charge
<1>5. /\ slots' = [slots EXCEPT ![s] = x]
      /\ resident' = resident - slots[s].bytes.length + Charge(x.tier)
  BY <1>4 DEF WriteAt
<1>6. len' \in 0 .. MaxSlots /\ len' >= len /\ s < len'
  BY <1>2, VramCacheAssumption DEF WriteAt, GrownTo, Slots
<1> HIDE DEF x
<1>7. CacheNowOK'
  BY <1>1, <1>3, <1>5, <1>6, CacheChange DEF CacheNowOK
<1> QED BY <1>1, <1>7, DirectOK DEF WriteAt

LEMMA ClearSlotStep == ASSUME VInv, NEW s \in Slots, ClearSlot(s) PROVE VInv'
<1>1. CacheNowOK /\ next_seq \in Nat /\ evictions \in Nat
  BY DEF VInv, CallTypeOK
<1>2. /\ len \in 0 .. MaxSlots /\ len >= len
      /\ slots[s].bytes.length \in Nat /\ resident \in Nat
  <2>1. slots[s] \in Slot /\ Shape(slots[s]) /\ len \in 0 .. MaxSlots
    BY <1>1 DEF CacheNowOK, CacheOK
  <2>2. slots[s].bytes.length = Charge(slots[s].tier)
    BY <2>1, ChargeIsLength
  <2> QED BY <1>1, <2>1, <2>2, ResidentNat DEF CacheNowOK, CacheOK, Charge, TILE_BYTES,
             WARM_PACKED_BYTES
<1>3. /\ slots' = [slots EXCEPT ![s] = Absent] /\ len' = len
      /\ resident' = resident - slots[s].bytes.length + Charge(Absent.tier)
  BY <1>2, AbsentType DEF ClearSlot, Charge
<1>4. CacheNowOK'
  BY <1>1, <1>2, <1>3, AbsentType, CacheChange DEF CacheNowOK
<1> QED BY <1>1, <1>4, DirectOK DEF ClearSlot

LEMMA ClearStep == ASSUME VInv, Clear PROVE VInv'
<1>1. next_seq \in Nat /\ evictions \in Nat
  BY DEF VInv, CallTypeOK
<1>2. CacheNowOK' BY EmptyOK DEF Clear, CacheNowOK
<1> QED BY <1>1, <1>2, DirectOK DEF Clear, SeqAfterClear

LEMMA ObserveStep == ASSUME VInv, NEW s \in Slots, observe_scores(s) PROVE VInv'
<1>1. CacheNowOK /\ next_seq \in Nat /\ evictions \in Nat
  BY DEF VInv, CallTypeOK
<1>2. slots[s] \in Slot /\ Shape(slots[s]) /\ slots[s].tier # "Absent"
  BY <1>1 DEF CacheNowOK, CacheOK, observe_scores, Present, Tier
<1>3. slots[s] # Absent BY <1>2, AbsentType
<1> DEFINE x == [slots[s] EXCEPT !.importance = @ + 1]
<1>4. x \in Slot /\ Shape(x) /\ x.tier = slots[s].tier
  BY <1>2, <1>3 DEF Slot, Shape
<1>5. slots[s].bytes.length = Charge(slots[s].tier)
  BY <1>2, ChargeIsLength
<1>6. slots' = [slots EXCEPT ![s] = x] /\ len' = len
  BY DEF observe_scores
<1> HIDE DEF x
<1>7. resident \in Nat /\ Charge(x.tier) \in Nat
  BY <1>1, ResidentNat DEF CacheNowOK, CacheOK, Charge, TILE_BYTES,
     WARM_PACKED_BYTES
<1>8. resident' = resident - slots[s].bytes.length + Charge(x.tier)
  BY <1>4, <1>5, <1>7 DEF observe_scores
<1>9. CacheNowOK'
  BY <1>1, <1>2, <1>4, <1>6, <1>8, ReplaceOK
<1> QED BY <1>1, <1>9, DirectOK DEF observe_scores

LEMMA PinStep == ASSUME VInv, NEW s \in Slots, Pin(s) PROVE VInv'
<1>1. CacheNowOK /\ next_seq \in Nat /\ evictions \in Nat
  BY DEF VInv, CallTypeOK
<1>2. slots[s] \in Slot /\ Shape(slots[s])
  BY <1>1 DEF CacheNowOK, CacheOK
<1>3. CASE /\ Tier(s) \in {"Hot", "Pinned"} /\ UNCHANGED resident
           /\ slots' = [slots EXCEPT ![s].tier = "Pinned"]
  <2> DEFINE x == [slots[s] EXCEPT !.tier = "Pinned"]
  <2>1. slots[s] # Absent /\ slots[s].tier \in {"Hot", "Pinned"}
    BY <1>3, AbsentType DEF Tier
  <2>2. x \in Slot /\ Shape(x) /\ x.tier = "Pinned"
    BY <1>2, <2>1 DEF Slot, Shape, PhysicalTier
  <2>3. slots[s].bytes.length = TILE_BYTES
    BY <1>2, <2>1, ChargeIsLength DEF Charge
  <2>4. slots' = [slots EXCEPT ![s] = x] /\ len' = len
    BY <1>3 DEF Pin
  <2> HIDE DEF x
  <2>5. resident \in Nat
    BY <1>1, ResidentNat DEF CacheNowOK, CacheOK
  <2>6. resident' = resident - slots[s].bytes.length + Charge(x.tier)
    BY <1>3, <2>2, <2>3, <2>5 DEF Charge, TILE_BYTES
  <2> QED BY <1>1, <2>1, <2>2, <2>4, <2>6, ReplaceOK, DirectOK DEF Pin
<1>4. CASE /\ CanPromote(s) /\ resident' = resident + RESIDUAL_BYTES
           /\ slots' = [slots EXCEPT ![s] =
                          [Promoted(@) EXCEPT !.tier = "Pinned"]]
  <2>1. slots[s].tier = "Warm" /\ len' = len
    BY <1>4 DEF CanPromote, Tier, Pin
  <2> DEFINE x == [Promoted(slots[s]) EXCEPT !.tier = "Pinned"]
  <2>2. slots' = [slots EXCEPT ![s] = x]
    BY <1>4
  <2>3. CacheNowOK'
    BY <1>1, <1>4, <2>1, <2>2, PromoteOK
  <2> QED BY <1>1, <2>3, DirectOK DEF Pin
<1> QED BY <1>3, <1>4 DEF Pin

LEMMA TierSteps ==
    ASSUME VInv, NEW s \in Slots,
           \/ DemoteSlot(s) \/ PromoteSlot(s) \/ EvictSlot(s) \/ RestoreSlot(s)
           \/ ApplyPromote(s) \/ ApplyRestore(s)
    PROVE  VInv'
<1>1. CacheNowOK /\ next_seq \in Nat /\ evictions \in Nat
  BY DEF VInv, CallTypeOK
<1>2. CASE DemoteSlot(s)
  <2>1. CacheNowOK' BY <1>1, <1>2, DemoteOK DEF DemoteSlot, Tier
  <2> QED BY <1>1, <1>2, <2>1, DirectOK DEF DemoteSlot, demote_slot
<1>3. CASE PromoteSlot(s) \/ ApplyPromote(s)
  <2>1. /\ CanPromote(s) /\ promote_slot(s) /\ Direct
        /\ len' = len /\ next_seq' = next_seq
    BY <1>3 DEF PromoteSlot, ApplyPromote, IsHighest
  <2>2. slots' = [slots EXCEPT ![s] = Promoted(slots[s])]
    BY <2>1 DEF promote_slot
  <2>3. CacheNowOK'
    BY <1>1, <2>1, <2>2, PromoteOK DEF CanPromote, Tier, promote_slot
  <2> QED BY <1>1, <2>1, <2>3, DirectOK DEF promote_slot
<1>4. CASE EvictSlot(s)
  <2>1. CacheNowOK' BY <1>1, <1>4, EvictOK DEF EvictSlot, Tier
  <2> QED BY <1>1, <1>4, <2>1, DirectOK DEF EvictSlot, evict_slot
<1>5. CASE RestoreSlot(s) \/ ApplyRestore(s)
  <2>1. /\ CanRestore(s) /\ restore_slot(s) /\ Direct
        /\ len' = len /\ next_seq' = next_seq
    BY <1>5 DEF RestoreSlot, ApplyRestore, IsHighest
  <2>2. CacheNowOK'
    BY <1>1, <2>1, RestoreOK DEF CanRestore, Tier
  <2> QED BY <1>1, <2>1, <2>2, DirectOK DEF restore_slot
<1> QED BY <1>2, <1>3, <1>4, <1>5

LEMMA MinimumOK ==
    ASSUME NEW a \in Nat, NEW b \in Nat
    PROVE  Minimum(a, b) \in Nat /\ Minimum(a, b) <= b
  BY DEF Minimum

(* The snapshot a transaction takes is the cache as it stands.              *)
LEMMA CacheNowSnapshot ==
    ASSUME VInv
    PROVE  /\ CacheNow \in Snapshot
           /\ CacheOK(CacheNow.len, CacheNow.slots, CacheNow.resident)
           /\ CacheNow.slots = slots /\ CacheNow.next_seq = next_seq
           /\ CacheNow.evictions = evictions
<1>1. /\ len \in 0 .. MaxSlots /\ slots \in [Slots -> Slot] /\ resident \in Nat
      /\ next_seq \in Nat /\ evictions \in Nat
  BY ResidentNat DEF VInv, CacheNowOK, CacheOK, CallTypeOK
<1> QED BY <1>1 DEF VInv, CacheNowOK, CacheNow, Snapshot

LEMMA BeginReleaseStep ==
    ASSUME VInv, NEW action \in {"Demote", "Offload"}, NEW t \in Nat,
           BeginRelease(action, t)
    PROVE  VInv'
<1>1. Minimum(t, hard) \in Nat /\ Minimum(t, hard) <= hard
  BY MinimumOK DEF VInv, CallTypeOK
<1>2. /\ UNCHANGED cacheVars /\ hard' = hard /\ snap' = CacheNow
      /\ pc' = action /\ target' = Minimum(t, hard) /\ dense' = 0
      /\ ret' = "none"
  BY DEF BeginRelease, Begin
<1>3. CallTypeOK'
  BY <1>1, <1>2, CacheNowSnapshot DEF VInv, CallTypeOK, cacheVars, Calls
<1>4. CacheNowOK' BY <1>2 DEF VInv, CacheNowOK, cacheVars
<1>5. SnapOK' BY <1>2, CacheNowSnapshot DEF SnapOK
<1>6. CallKeeps'
  BY <1>1, <1>2, CacheNowSnapshot DEF CallKeeps, cacheVars
<1>7. DenseKeeps' BY <1>2 DEF DenseKeeps
<1> QED BY <1>3, <1>4, <1>5, <1>6, <1>7 DEF VInv

LEMMA StepTargetNat == ASSUME VInv PROVE StepTarget \in Nat
<1>1. resident \in Nat /\ hard \in Nat
  BY ResidentNat DEF VInv, CacheNowOK, CacheOK, CallTypeOK
<1> QED BY <1>1 DEF StepTarget, RESIDUAL_BYTES, TILE_BYTES, WARM_PACKED_BYTES

LEMMA BeginDenseStep ==
    ASSUME VInv, NEW s \in Slots, NEW t \in Nat, BeginDense(s, t)
    PROVE  VInv'
<1>1. Minimum(t, hard) \in Nat /\ Minimum(t, hard) <= hard
  BY MinimumOK DEF VInv, CallTypeOK
<1>2. /\ hard' = hard /\ snap' = CacheNow
      /\ pc' = "Dense" /\ target' = Minimum(t, hard) /\ dense' = s
      /\ ret' = "none" /\ next_seq' = next_seq /\ evictions' = evictions
      /\ slots' = [slots EXCEPT ![s] = Absent] /\ len' = GrownTo(s)
      /\ resident' = resident - slots[s].bytes.length
  BY DEF BeginDense, Begin
<1>3. CacheNowOK /\ slots \in [Slots -> Slot] /\ len \in 0 .. MaxSlots
  BY DEF VInv, CacheNowOK, CacheOK
<1>4. CallTypeOK'
  <2>1. s \in Nat BY DEF Slots
  <2> QED BY <1>1, <1>2, <2>1, CacheNowSnapshot DEF VInv, CallTypeOK, Calls
<1>5. len' \in 0 .. MaxSlots /\ len' >= len /\ s < len'
  BY <1>2, <1>3, VramCacheAssumption DEF GrownTo, Slots
<1>6. CacheNowOK'
  <2>1. resident \in Nat /\ slots[s].bytes.length \in Nat
    <3>1. slots[s].bytes.length = Charge(slots[s].tier)
      BY <1>3, ChargeIsLength DEF CacheNowOK, CacheOK
    <3> QED BY <1>3, <3>1, ResidentNat DEF CacheNowOK, CacheOK, Charge, TILE_BYTES,
               WARM_PACKED_BYTES
  <2>2. resident' = resident - slots[s].bytes.length + Charge(Absent.tier)
    BY <1>2, <2>1, AbsentType DEF Charge
  <2> QED BY <1>2, <1>3, <1>5, <2>2, AbsentType, CacheChange DEF CacheNowOK
<1>7. SnapOK' BY <1>2, CacheNowSnapshot DEF SnapOK
<1>8. CallKeeps'
  BY <1>1, <1>2, <1>3, CacheNowSnapshot, AbsentType DEF CallKeeps
<1>9. DenseKeeps' BY <1>2, <1>3, <1>5, CacheNowSnapshot DEF DenseKeeps
<1> QED BY <1>4, <1>6, <1>7, <1>8, <1>9 DEF VInv

LEMMA TurnSteps ==
    ASSUME VInv, NEW s \in Slots,
           ReleaseDemote(s) \/ ReleaseEvict(s) \/ DenseDemote(s)
    PROVE  VInv'
<1>1. CacheNowOK /\ evictions \in Nat
  BY DEF VInv, CallTypeOK
<1>2. CASE ReleaseDemote(s) \/ DenseDemote(s)
  <2>1. /\ slots[s].tier = "Hot" /\ demote_slot(s) /\ InCall
        /\ len' = len /\ next_seq' = next_seq /\ evictions' = evictions
    BY <1>2 DEF ReleaseDemote, DenseDemote, IsLowest, SlotsIn, Tier, demote_slot
  <2>2. /\ CacheNowOK' /\ slots' = [slots EXCEPT ![s] = Demoted(slots[s])]
        /\ Demoted(slots[s]).tier = "Warm"
    BY <1>1, <2>1, DemoteOK
  <2> QED BY <1>1, <2>1, <2>2, TurnOK
<1>3. CASE ReleaseEvict(s)
  <2>1. /\ slots[s].tier \in {"Hot", "Warm"} /\ evict_slot(s) /\ InCall
        /\ len' = len /\ next_seq' = next_seq /\ pc # "Dense"
        /\ evictions' = evictions + 1
    BY <1>3 DEF ReleaseEvict, IsLowest, Evictable, SlotsIn, Tier, evict_slot
  <2>2. /\ CacheNowOK' /\ slots' = [slots EXCEPT ![s] = Evicted(slots[s])]
        /\ Evicted(slots[s]).tier = "Cold"
    BY <1>1, <2>1, EvictOK
  <2>3. evictions' \in Nat /\ slots[s].tier # "Absent"
    BY <1>1, <2>1
  <2>4. Evicted(slots[s]).tier # "Pinned"
    BY <2>2
  <2> QED BY <2>1, <2>2, <2>3, <2>4, TurnOK
<1> QED BY <1>2, <1>3

LEMMA ReleaseEndStep == ASSUME VInv, ReleaseEnd PROVE VInv'
<1>1. CacheNowOK /\ SnapOK /\ next_seq \in Nat /\ evictions \in Nat
      /\ snap.evictions \in Nat
  BY DEF VInv, CallTypeOK, Snapshot
<1>2. CASE Return("ok") /\ UNCHANGED cacheVars
  <2>1. CacheNowOK' BY <1>1, <1>2 DEF CacheNowOK, cacheVars
  <2> QED BY <1>1, <1>2, <2>1, ReturnOK DEF cacheVars
<1>3. CASE Return("err") /\ RollbackRelease
  <2>1. CacheNowOK' BY <1>1, <1>3 DEF CacheNowOK, SnapOK, RollbackRelease
  <2> QED BY <1>1, <1>3, <2>1, ReturnOK DEF RollbackRelease
<1> QED BY <1>2, <1>3 DEF ReleaseEnd

(* What a dense write puts into its slot.                                   *)
LEMMA DenseNewOK ==
    ASSUME VInv, DenseWrite
    PROVE  \E x \in Slot :
              /\ Shape(x) /\ x.seq = next_seq
              /\ x.tier = DenseTier
              /\ DenseTier \in {"Hot", "Warm", "Pinned"}
              /\ slots' = [slots EXCEPT ![dense] = x]
              /\ resident' = resident + x.bytes.length
<1>1. next_seq \in Nat BY DEF VInv, CallTypeOK
<1>2. CASE DenseTier = "Warm"
  <2>1. /\ slots' = [slots EXCEPT ![dense] = WarmSlot(next_seq)]
        /\ resident' = resident + WarmSlot(next_seq).bytes.length
    BY <1>2 DEF DenseWrite
  <2>2. WarmSlot(next_seq) \in Slot BY <1>1, WarmSlotOK
  <2> QED BY <1>1, <1>2, <2>1, <2>2, WarmSlotOK
<1>3. CASE DenseTier \in {"Hot", "Pinned"}
  <2>1. /\ slots' = [slots EXCEPT ![dense] = HotSlot(DenseTier, next_seq)]
        /\ resident' = resident + HotSlot(DenseTier, next_seq).bytes.length
    BY <1>3 DEF DenseWrite
  <2>2. /\ HotSlot(DenseTier, next_seq) \in Slot
        /\ Shape(HotSlot(DenseTier, next_seq))
        /\ HotSlot(DenseTier, next_seq).tier = DenseTier
        /\ HotSlot(DenseTier, next_seq).seq = next_seq
    BY <1>1, <1>3, HotSlotOK
  <2> QED BY <1>3, <2>1, <2>2
<1> QED BY <1>2, <1>3 DEF DenseTier

LEMMA DenseWriteStep == ASSUME VInv, DenseWrite PROVE VInv'
<1>1. /\ CacheNowOK /\ next_seq \in Nat /\ evictions \in Nat
      /\ dense \in Slots /\ dense < len /\ slots[dense] = Absent
      /\ len \in 0 .. MaxSlots /\ len >= len
  BY DEF VInv, CallTypeOK, DenseKeeps, DenseWrite, CacheNowOK, CacheOK
<1>2. PICK x \in Slot :
        /\ Shape(x) /\ slots' = [slots EXCEPT ![dense] = x]
        /\ resident' = resident + x.bytes.length
  BY DenseNewOK
<1>3. x.bytes.length = Charge(x.tier) /\ slots[dense].bytes.length = 0
  BY <1>1, <1>2, AbsentType, ChargeIsLength DEF Charge
<1>4. resident \in Nat /\ Charge(x.tier) \in Nat
  BY <1>1, ResidentNat DEF CacheNowOK, CacheOK, Charge, TILE_BYTES,
     WARM_PACKED_BYTES
<1>5. resident' = resident - slots[dense].bytes.length + Charge(x.tier)
  BY <1>2, <1>3, <1>4
<1>6. CacheNowOK'
  <2>1. len' = len BY DEF DenseWrite
  <2> QED BY <1>1, <1>2, <1>5, <2>1, CacheChange DEF CacheNowOK
<1> QED BY <1>1, <1>6, ReturnOK DEF DenseWrite

LEMMA DenseFailStep == ASSUME VInv, DenseFail PROVE VInv'
<1>1. SnapOK /\ snap.next_seq \in Nat /\ evictions \in Nat
  BY DEF VInv, CallTypeOK, Snapshot
<1>2. CacheNowOK' BY <1>1 DEF CacheNowOK, SnapOK, DenseFail
<1> QED BY <1>1, <1>2, ReturnOK DEF DenseFail

LEMMA VNext == VInv /\ [Next]_vars => VInv'
<1> SUFFICES ASSUME VInv, [Next]_vars PROVE VInv'
  OBVIOUS
<1>1. CASE Insert \/ Clear
  BY <1>1, InsertStep, ClearStep
<1>2. ASSUME NEW s \in Slots, SlotStep(s) PROVE VInv'
  BY <1>2, WriteAtStep, ClearSlotStep, ObserveStep, PinStep, TierSteps
     DEF SlotStep
<1>3. ASSUME NEW action \in {"Demote", "Offload"},
             Step(action) \/ \E t \in Targets : BeginRelease(action, t)
      PROVE  VInv'
  <2>1. \E t \in Nat : BeginRelease(action, t)
    BY <1>3, StepTargetNat, VramCacheAssumption DEF Step
  <2> QED BY <2>1, BeginReleaseStep
<1>4. ASSUME NEW s \in Slots, NEW t \in Targets, BeginDense(s, t) PROVE VInv'
  <2>1. t \in Nat BY VramCacheAssumption
  <2> QED BY <1>4, <2>1, BeginDenseStep
<1>5. CASE CallStep
  BY <1>5, TurnSteps, ReleaseEndStep, DenseWriteStep, DenseFailStep DEF CallStep
<1>6. CASE UNCHANGED vars
  BY <1>6 DEF vars, cacheVars, callVars, VInv, CallTypeOK, CacheNowOK, SnapOK,
     CallKeeps, DenseKeeps
<1> QED BY <1>1, <1>2, <1>3, <1>4, <1>5, <1>6 DEF Next

(* The invariant holds in every reachable state, inside calls too.          *)
THEOREM VInvAlways == Spec => []VInv
  BY VInit, VNext, PTL DEF Spec

(* The byte counter never leaves Nat, so no saturating subtraction of the   *)
(* code saturates, and nothing lies beyond the end of the slot Vec.         *)
THEOREM CacheTypeCorrect == Spec => []TypeOK
<1>1. VInv => TypeOK
  BY ResidentNat DEF VInv, CallTypeOK, CacheNowOK, CacheOK, TypeOK
<1> QED BY <1>1, VInvAlways, PTL

(* verify_accounting cannot fail: the counter is the sum over the slots at  *)
(* every step of every operation.                                           *)
THEOREM AccountedAlways == Spec => []Accounted
<1>1. ASSUME NEW x \in Slot, Shape(x) PROVE Residency(x)
  <2>1. x.seq \in Nat BY DEF Slot
  <2>2. /\ NoBytes.length = 0 /\ FullTile(x.seq).length = TILE_BYTES
        /\ Packed(x.seq).length = WARM_PACKED_BYTES
    BY <2>1, BytesTypes
  <2>3. CASE x = Absent BY <2>3, AbsentType DEF Residency
  <2>4. CASE x.tier \in {"Hot", "Pinned"} /\ x # Absent
    BY <1>1, <2>2, <2>4 DEF Residency, Shape
  <2>5. CASE x.tier = "Warm" /\ x # Absent
    BY <1>1, <2>1, <2>2, <2>5 DEF Residency, Shape, NoPlane
  <2>6. CASE x.tier = "Cold" /\ x # Absent
    BY <1>1, <2>2, <2>6 DEF Residency, Shape, TILE_BYTES, WARM_PACKED_BYTES
  <2> QED BY <1>1, <2>3, <2>4, <2>5, <2>6 DEF Shape
<1>2. ResidentSum = ResidentOf(slots)
  BY DEF ResidentSum, ResidentOf, SlotsIn, InTier, Tier
<1>3. VInv => Accounted
  BY <1>1, <1>2 DEF VInv, CacheNowOK, CacheOK, Accounted
<1> QED BY <1>3, VInvAlways, PTL

(* The exact tile of a slot's generation can be put together from what it   *)
(* holds, whatever transitions and rollbacks it has been through.           *)
THEOREM LosslessAlways == Spec => []Lossless
<1>1. VInv => Lossless
  BY ExactTileOK DEF VInv, CacheNowOK, CacheOK, Lossless, Present, Tier
<1> QED BY <1>1, VInvAlways, PTL

(* No byte of a tile is kept both resident and in backing.                  *)
THEOREM NothingKeptTwiceAlways == Spec => []NothingKeptTwice
<1>1. ASSUME NEW x \in Slot, Shape(x), x.tier # "Absent"
      PROVE  x.bytes.length + Backing(x) = TILE_BYTES
  <2>1. x.seq \in Nat BY DEF Slot
  <2>2. x # Absent BY <1>1, AbsentType
  <2>3. /\ FullTile(x.seq).length = 128 /\ NoBytes.length = 0
        /\ Packed(x.seq).length = 96
    BY <2>1, BytesTypes DEF TILE_BYTES, WARM_PACKED_BYTES
  <2> QED BY <1>1, <2>1, <2>2, <2>3 DEF Backing, Shape, NoPlane, RESIDUAL_BYTES,
             TILE_BYTES, WARM_PACKED_BYTES
<1>2. VInv => NothingKeptTwice
  BY <1>1 DEF VInv, CacheNowOK, CacheOK, NothingKeptTwice, Present, Tier
<1> QED BY <1>2, VInvAlways, PTL

-----------------------------------------------------------------------------
(* What a single step can do to the cache. Every step is of one of these    *)
(* kinds; the action properties below follow from the kinds alone.          *)

(* One slot moves between tiers, is pinned or gains importance: it keeps    *)
(* its generation, and a PINNED one its tier and tile.                      *)
Moves ==
    /\ \E s \in Slots : \E x \in Slot :
         /\ slots' = [slots EXCEPT ![s] = x] /\ Present(s)
         /\ x.tier # "Absent" /\ x.seq = slots[s].seq
         /\ Tier(s) = "Pinned" => x.tier = "Pinned" /\ x.bytes = slots[s].bytes
    /\ next_seq' = next_seq
    /\ resident' <= resident \/ resident' <= hard

(* One slot receives a value under the next generation.                     *)
Writes ==
    /\ \E s \in Slots : \E x \in Slot :
         /\ slots' = [slots EXCEPT ![s] = x] /\ x.seq = next_seq
         /\ Tier(s) = "Pinned" => x.tier = "Pinned"
    /\ next_seq' = next_seq + 1
    /\ Idle \/ resident' <= hard

(* Slots are emptied, outside a call or as it begins.                       *)
Removes ==
    /\ Idle /\ next_seq' = next_seq /\ resident' <= resident
    /\ \A s \in Slots : slots'[s] = slots[s] \/ slots'[s] = Absent

(* A failed call puts the snapshot back.                                    *)
RollsBack ==
    /\ pc # "idle" /\ ret' = "err" /\ next_seq' = next_seq
    /\ slots' = snap.slots

Stays == slots' = slots /\ next_seq' = next_seq /\ resident' = resident

LEMMA Types ==
    ASSUME VInv
    PROVE  /\ slots \in [Slots -> Slot] /\ resident \in Nat /\ next_seq \in Nat
           /\ hard \in Nat /\ target \in Nat
           /\ \A s \in Slots : Shape(slots[s]) /\ slots[s].seq \in Nat
           /\ \A s \in Slots : slots[s].bytes.length \in Nat
<1>1. slots \in [Slots -> Slot] /\ \A s \in Slots : Shape(slots[s])
  BY DEF VInv, CacheNowOK, CacheOK
<1>2. \A s \in Slots : slots[s].bytes.length \in Nat
  <2> TAKE s \in Slots
  <2>1. slots[s].bytes.length = Charge(slots[s].tier) BY <1>1, ChargeIsLength
  <2> QED BY <2>1 DEF Charge, TILE_BYTES, WARM_PACKED_BYTES
<1>3. resident \in Nat BY ResidentNat DEF VInv, CacheNowOK, CacheOK
<1>4. \A s \in Slots : slots[s].seq \in Nat BY <1>1 DEF Slot
<1> QED BY <1>1, <1>2, <1>3, <1>4 DEF VInv, CallTypeOK

(* The four transitions of one slot are moves.                              *)
LEMMA DemoteMoves ==
    ASSUME VInv, NEW s \in Slots, Tier(s) = "Hot", demote_slot(s),
           UNCHANGED <<len, next_seq>>
    PROVE  Moves
<1>1. slots[s] \in Slot /\ Shape(slots[s]) /\ resident \in Nat BY Types
<1>2. /\ Demoted(slots[s]) \in Slot /\ Demoted(slots[s]).tier = "Warm"
      /\ Demoted(slots[s]).seq = slots[s].seq
  BY <1>1, DemotedOK DEF Tier
<1>3. slots' = [slots EXCEPT ![s] = Demoted(slots[s])] /\ resident' <= resident
  BY <1>1 DEF demote_slot, RESIDUAL_BYTES, TILE_BYTES, WARM_PACKED_BYTES
<1> QED BY <1>2, <1>3 DEF Moves, Present, Tier

LEMMA EvictMoves ==
    ASSUME VInv, NEW s \in Slots, Tier(s) \in {"Hot", "Warm"}, evict_slot(s),
           UNCHANGED <<len, next_seq>>
    PROVE  Moves
<1>1. /\ slots[s] \in Slot /\ Shape(slots[s]) /\ resident \in Nat
      /\ slots[s].bytes.length \in Nat
  BY Types
<1>2. /\ Evicted(slots[s]) \in Slot /\ Evicted(slots[s]).tier = "Cold"
      /\ Evicted(slots[s]).seq = slots[s].seq
  BY <1>1, EvictedOK DEF Tier
<1>3. slots' = [slots EXCEPT ![s] = Evicted(slots[s])] /\ resident' <= resident
  BY <1>1 DEF evict_slot
<1> QED BY <1>2, <1>3 DEF Moves, Present, Tier

LEMMA PromoteMoves ==
    ASSUME VInv, NEW s \in Slots, CanPromote(s), promote_slot(s),
           UNCHANGED <<len, next_seq>>
    PROVE  Moves
<1>1. slots[s] \in Slot /\ Shape(slots[s]) BY Types
<1>2. /\ Promoted(slots[s]) \in Slot /\ Promoted(slots[s]).tier = "Hot"
      /\ Promoted(slots[s]).seq = slots[s].seq
  BY <1>1, PromotedOK DEF CanPromote, Tier
<1>3. slots' = [slots EXCEPT ![s] = Promoted(slots[s])] /\ resident' <= hard
  BY DEF promote_slot, CanPromote, FitsGrowth
<1> QED BY <1>2, <1>3 DEF Moves, Present, Tier, CanPromote

LEMMA RestoreMoves ==
    ASSUME VInv, NEW s \in Slots, CanRestore(s), restore_slot(s),
           UNCHANGED <<len, next_seq>>
    PROVE  Moves
<1>1. slots[s] \in Slot /\ Shape(slots[s]) BY Types
<1>2. /\ Restored(slots[s]) \in Slot /\ Restored(slots[s]).tier \in {"Hot", "Warm"}
      /\ Restored(slots[s]).seq = slots[s].seq
  BY <1>1, RestoredOK DEF CanRestore, Tier
<1>3. slots' = [slots EXCEPT ![s] = Restored(slots[s])] /\ resident' <= hard
  BY DEF restore_slot, CanRestore, FitsGrowth
<1> QED BY <1>2, <1>3 DEF Moves, Present, Tier, CanRestore

LEMMA PinMoves == ASSUME VInv, NEW s \in Slots, Pin(s) PROVE Moves
<1>1. slots[s] \in Slot /\ Shape(slots[s]) /\ resident \in Nat BY Types
<1>2. next_seq' = next_seq BY DEF Pin
<1>3. CASE /\ Tier(s) \in {"Hot", "Pinned"} /\ UNCHANGED resident
           /\ slots' = [slots EXCEPT ![s].tier = "Pinned"]
  <2> DEFINE x == [slots[s] EXCEPT !.tier = "Pinned"]
  <2>1. /\ x \in Slot /\ x.tier = "Pinned" /\ x.seq = slots[s].seq
        /\ x.bytes = slots[s].bytes
    BY <1>1 DEF Slot, PhysicalTier
  <2>2. slots' = [slots EXCEPT ![s] = x]
    BY <1>3
  <2>3. resident' <= resident /\ slots[s].tier # "Absent"
    BY <1>1, <1>3 DEF Tier
  <2> HIDE DEF x
  <2> QED BY <1>2, <2>1, <2>2, <2>3 DEF Moves, Present, Tier
<1>4. CASE /\ CanPromote(s) /\ resident' = resident + RESIDUAL_BYTES
           /\ slots' = [slots EXCEPT ![s] =
                          [Promoted(@) EXCEPT !.tier = "Pinned"]]
  <2> DEFINE h == Promoted(slots[s])
             x == [h EXCEPT !.tier = "Pinned"]
  <2>1. h \in Slot /\ h.seq = slots[s].seq /\ Tier(s) = "Warm"
    BY <1>1, <1>4, PromotedOK DEF CanPromote, Tier
  <2>2. slots' = [slots EXCEPT ![s] = x]
    BY <1>4
  <2> HIDE DEF h
  <2>3. x \in Slot /\ x.tier = "Pinned" /\ x.seq = slots[s].seq
    BY <2>1 DEF Slot, PhysicalTier
  <2>4. resident' <= hard
    BY <1>4 DEF CanPromote, FitsGrowth
  <2> HIDE DEF x
  <2> QED BY <1>2, <2>1, <2>2, <2>3, <2>4 DEF Moves, Present, Tier
<1> QED BY <1>3, <1>4 DEF Pin

LEMMA ObserveMoves ==
    ASSUME VInv, NEW s \in Slots, observe_scores(s) PROVE Moves
<1>1. slots[s] \in Slot /\ resident \in Nat BY Types
<1> DEFINE x == [slots[s] EXCEPT !.importance = @ + 1]
<1>2. /\ x \in Slot /\ x.tier = slots[s].tier /\ x.seq = slots[s].seq
      /\ x.bytes = slots[s].bytes
  BY <1>1 DEF Slot
<1>3. slots' = [slots EXCEPT ![s] = x] /\ resident' <= resident
      /\ next_seq' = next_seq /\ Present(s)
  BY <1>1 DEF observe_scores
<1> HIDE DEF x
<1> QED BY <1>2, <1>3 DEF Moves, Present, Tier

LEMMA WriteWrites ==
    ASSUME VInv, Insert \/ \E s \in Slots : WriteAt(s)
    PROVE  Writes
<1>1. /\ next_seq \in Nat /\ slots \in [Slots -> Slot] /\ len \in 0 .. MaxSlots
      /\ \A s \in Slots : s >= len => slots[s] = Absent
  BY DEF VInv, CallTypeOK, CacheNowOK, CacheOK
<1>2. CASE Insert
  <2>1. len \in Slots /\ len >= len
    BY <1>1, <1>2, VramCacheAssumption DEF Insert, Slots
  <2>2. slots[len].tier # "Pinned" BY <1>1, <2>1, AbsentType
  <2>3. /\ HotSlot("Hot", next_seq) \in Slot
        /\ HotSlot("Hot", next_seq).seq = next_seq
    BY <1>1, HotSlotOK
  <2> QED BY <1>2, <2>1, <2>2, <2>3 DEF Insert, Direct, Writes, Tier
<1>3. ASSUME NEW s \in Slots, WriteAt(s) PROVE Writes
  <2>1. /\ TierKept(s) \in {"Hot", "Pinned"}
        /\ Tier(s) = "Pinned" => TierKept(s) = "Pinned"
    BY DEF TierKept
  <2>2. /\ HotSlot(TierKept(s), next_seq) \in Slot
        /\ HotSlot(TierKept(s), next_seq).seq = next_seq
        /\ HotSlot(TierKept(s), next_seq).tier = TierKept(s)
    BY <1>1, <2>1, HotSlotOK
  <2> QED BY <1>3, <2>1, <2>2 DEF WriteAt, Direct, Writes
<1> QED BY <1>2, <1>3

LEMMA DenseWrites == ASSUME VInv, DenseWrite PROVE Writes
<1>1. /\ dense \in Slots /\ slots[dense] = Absent /\ target <= hard
      /\ pc = "Dense"
  BY DEF VInv, DenseKeeps, CallKeeps, DenseWrite
<1>2. PICK x \in Slot :
        /\ Shape(x) /\ x.seq = next_seq /\ x.tier = DenseTier
        /\ DenseTier \in {"Hot", "Warm", "Pinned"}
        /\ slots' = [slots EXCEPT ![dense] = x]
        /\ resident' = resident + x.bytes.length
  BY DenseNewOK
<1>3. resident \in Nat /\ target \in Nat /\ hard \in Nat BY Types
<1>4. x.bytes.length = Charge(x.tier) BY <1>2, ChargeIsLength
<1>5. resident + Charge(DenseTier) <= target
  <2>1. resident + MinimumNew <= target BY DEF DenseWrite
  <2> QED BY <1>3, <2>1 DEF DenseTier, MinimumNew, Charge, TILE_BYTES,
             WARM_PACKED_BYTES
<1>6. resident' <= hard
  <2>1. Charge(DenseTier) \in Nat BY DEF Charge, TILE_BYTES, WARM_PACKED_BYTES
  <2> QED BY <1>1, <1>2, <1>3, <1>4, <1>5, <2>1
<1>7. slots[dense].tier # "Pinned" /\ next_seq' = next_seq + 1
  BY <1>1, AbsentType DEF DenseWrite
<1> QED BY <1>1, <1>2, <1>6, <1>7 DEF Writes, Tier

LEMMA RemoveRemoves ==
    ASSUME VInv,
           \/ Clear \/ \E s \in Slots : ClearSlot(s)
           \/ \E s \in Slots : \E t \in Nat : BeginDense(s, t)
    PROVE  Removes
<1>1. /\ slots \in [Slots -> Slot] /\ resident \in Nat
      /\ \A s \in Slots : slots[s].bytes.length \in Nat
  BY Types
<1>2. CASE Clear
  BY <1>1, <1>2 DEF Clear, Direct, Removes, SeqAfterClear
<1>3. ASSUME NEW s \in Slots, ClearSlot(s) PROVE Removes
  BY <1>1, <1>3 DEF ClearSlot, Direct, Removes
<1>4. ASSUME NEW s \in Slots, NEW t \in Nat, BeginDense(s, t) PROVE Removes
  BY <1>1, <1>4 DEF BeginDense, Begin, Removes
<1> QED BY <1>2, <1>3, <1>4

LEMMA EndEnds ==
    ASSUME VInv, ReleaseEnd \/ DenseFail
    PROVE  RollsBack \/ Stays
<1>1. pc # "idle" => next_seq = snap.next_seq BY DEF VInv, CallKeeps
<1>2. CASE ReleaseEnd
  BY <1>2 DEF ReleaseEnd, Return, RollbackRelease, RollsBack, Stays, cacheVars
<1>3. CASE DenseFail
  BY <1>1, <1>3 DEF DenseFail, Return, RollsBack
<1> QED BY <1>2, <1>3

(* Every step is of one of the five kinds.                                  *)
LEMMA StepKinds ==
    ASSUME VInv, [Next]_vars
    PROVE  Moves \/ Writes \/ Removes \/ RollsBack \/ Stays
<1>1. CASE Insert \/ Clear
  BY <1>1, WriteWrites, RemoveRemoves
<1>2. ASSUME NEW s \in Slots, SlotStep(s)
      PROVE  Moves \/ Writes \/ Removes
  <2>1. CASE WriteAt(s) \/ ClearSlot(s)
    BY <2>1, WriteWrites, RemoveRemoves
  <2>2. CASE observe_scores(s) \/ Pin(s)
    BY <2>2, ObserveMoves, PinMoves
  <2>3. CASE DemoteSlot(s) \/ EvictSlot(s)
    BY <2>3, DemoteMoves, EvictMoves DEF DemoteSlot, EvictSlot
  <2>4. CASE PromoteSlot(s) \/ ApplyPromote(s)
    BY <2>4, PromoteMoves DEF PromoteSlot, ApplyPromote, IsHighest
  <2>5. CASE RestoreSlot(s) \/ ApplyRestore(s)
    BY <2>5, RestoreMoves DEF RestoreSlot, ApplyRestore, IsHighest
  <2> QED BY <1>2, <2>1, <2>2, <2>3, <2>4, <2>5 DEF SlotStep
<1>3. ASSUME NEW action \in {"Demote", "Offload"},
             Step(action) \/ \E t \in Targets : BeginRelease(action, t)
      PROVE  Stays
  BY <1>3 DEF Step, BeginRelease, Stays, cacheVars
<1>4. ASSUME NEW s \in Slots, NEW t \in Targets, BeginDense(s, t) PROVE Removes
  <2>1. t \in Nat BY VramCacheAssumption
  <2> QED BY <1>4, <2>1, RemoveRemoves
<1>5. CASE CallStep
  <2>1. ASSUME NEW s \in Slots, ReleaseDemote(s) \/ DenseDemote(s) PROVE Moves
    <3>1. Tier(s) = "Hot" /\ demote_slot(s) /\ UNCHANGED <<len, next_seq>>
      BY <2>1 DEF ReleaseDemote, DenseDemote, IsLowest, SlotsIn
    <3> QED BY <3>1, DemoteMoves
  <2>2. ASSUME NEW s \in Slots, ReleaseEvict(s) PROVE Moves
    <3>1. /\ Tier(s) \in {"Hot", "Warm"} /\ evict_slot(s)
          /\ UNCHANGED <<len, next_seq>>
      BY <2>2 DEF ReleaseEvict, IsLowest, Evictable, SlotsIn
    <3> QED BY <3>1, EvictMoves
  <2>3. CASE DenseWrite
    BY <2>3, DenseWrites
  <2>4. CASE ReleaseEnd \/ DenseFail
    BY <2>4, EndEnds
  <2> QED BY <1>5, <2>1, <2>2, <2>3, <2>4 DEF CallStep
<1>6. CASE UNCHANGED vars
  BY <1>6 DEF vars, cacheVars, Stays
<1> QED BY <1>1, <1>2, <1>3, <1>4, <1>5, <1>6 DEF Next

-----------------------------------------------------------------------------
(* Action properties                                                        *)

(* Between its beginning and its return a transaction has the cache for     *)
(* itself.                                                                  *)
LEMMA InCallSteps ==
    ASSUME [Next]_vars, pc # "idle"
    PROVE  CallStep \/ UNCHANGED vars
<1>1. \A s \in Slots : ~SlotStep(s)
  BY DEF SlotStep, WriteAt, ClearSlot, observe_scores, Pin, DemoteSlot,
     PromoteSlot, EvictSlot, RestoreSlot, ApplyPromote, ApplyRestore, Direct, Idle
<1>2. ~Insert /\ ~Clear BY DEF Insert, Clear, Direct, Idle
<1>3. /\ \A action, t : ~BeginRelease(action, t)
      /\ \A s, t : ~BeginDense(s, t)
  BY DEF BeginRelease, BeginDense, Begin, Idle
<1> QED BY <1>1, <1>2, <1>3 DEF Next, Step

(* A failed apply_action or write_at_dense_budget leaves the whole cache as *)
(* it was when the call began; a successful one has met its target.         *)
THEOREM TransactionsAllOrNothing == Spec => AllOrNothing
<1>1. ASSUME VInv, [Next]_vars, Ends
      PROVE  IF ret' = "err" THEN CacheNow' = snap
             ELSE resident' <= target /\ target <= hard
  <2>1. /\ pc # "idle" /\ snap \in Snapshot /\ target <= hard
        /\ next_seq = snap.next_seq
    BY <1>1 DEF Ends, VInv, CallTypeOK, CallKeeps
  <2>2. snap = [len |-> snap.len, slots |-> snap.slots,
                resident |-> snap.resident, next_seq |-> snap.next_seq,
                evictions |-> snap.evictions]
    BY <2>1 DEF Snapshot
  <2>3. ReleaseEnd \/ DenseWrite \/ DenseFail
    <3>1. \A s \in Slots : ~ReleaseDemote(s) /\ ~ReleaseEvict(s) /\ ~DenseDemote(s)
      BY <1>1 DEF Ends, ReleaseDemote, ReleaseEvict, DenseDemote, InCall, callVars
    <3>2. ~UNCHANGED vars
      BY <1>1 DEF Ends, vars, callVars
    <3> QED BY <1>1, <2>1, <3>1, <3>2, InCallSteps DEF CallStep
  <2>4. CASE ReleaseEnd
    BY <2>1, <2>2, <2>4 DEF ReleaseEnd, Return, RollbackRelease, CacheNow,
       cacheVars
  <2>5. CASE DenseFail
    <3>1. evictions = snap.evictions
      BY <1>1, <2>5 DEF VInv, DenseKeeps, DenseFail
    <3> QED BY <2>2, <2>5, <3>1 DEF DenseFail, Return, CacheNow
  <2>6. CASE DenseWrite
    <3>1. PICK x \in Slot :
            /\ Shape(x) /\ x.tier = DenseTier
            /\ resident' = resident + x.bytes.length
      BY <1>1, <2>6, DenseNewOK
    <3>2. resident \in Nat /\ target \in Nat BY <1>1, Types
    <3>3. x.bytes.length = Charge(DenseTier) BY <3>1, ChargeIsLength
    <3>4. resident + MinimumNew <= target /\ ret' = "ok"
      BY <2>6 DEF DenseWrite, Return
    <3>5. resident + Charge(DenseTier) <= target
      BY <3>2, <3>4 DEF DenseTier, MinimumNew, Charge, TILE_BYTES,
         WARM_PACKED_BYTES
    <3> QED BY <2>1, <3>1, <3>3, <3>4, <3>5
  <2> QED BY <2>3, <2>4, <2>5, <2>6
<1>2. VInv /\ [Next]_vars
        => [Ends => IF ret' = "err" THEN CacheNow' = snap
                    ELSE resident' <= target /\ target <= hard]_vars
  BY <1>1
<1> QED BY <1>2, VInvAlways, PTL DEF Spec, AllOrNothing

(* Generations already given out lie below next_seq, in the cache and in    *)
(* the snapshot a call may put back.                                        *)
GenInv ==
    /\ \A s \in Slots : Present(s) => slots[s].seq < next_seq
    /\ pc # "idle" =>
         \A s \in Slots : snap.slots[s].tier # "Absent" =>
                              snap.slots[s].seq < snap.next_seq

(* The snapshot is taken when a call begins and kept until it returns.      *)
LEMMA SnapKinds ==
    ASSUME [Next]_vars
    PROVE  \/ pc' = "idle"
           \/ pc' = pc /\ snap' = snap
           \/ snap' = CacheNow
<1>1. CASE Insert \/ Clear
  BY <1>1 DEF Insert, Clear, Direct
<1>2. ASSUME NEW s \in Slots, SlotStep(s) PROVE pc' = pc /\ snap' = snap
  BY <1>2 DEF SlotStep, WriteAt, ClearSlot, observe_scores, Pin, DemoteSlot,
     PromoteSlot, EvictSlot, RestoreSlot, ApplyPromote, ApplyRestore, Direct
<1>3. ASSUME NEW action \in {"Demote", "Offload"},
             Step(action) \/ \E t \in Targets : BeginRelease(action, t)
      PROVE  snap' = CacheNow
  BY <1>3 DEF Step, BeginRelease, Begin
<1>4. ASSUME NEW s \in Slots, NEW t \in Targets, BeginDense(s, t)
      PROVE  snap' = CacheNow
  BY <1>4 DEF BeginDense, Begin
<1>5. CASE CallStep
  BY <1>5 DEF CallStep, ReleaseDemote, ReleaseEvict, DenseDemote, InCall,
     callVars, ReleaseEnd, DenseWrite, DenseFail, Return
<1>6. CASE UNCHANGED vars
  BY <1>6 DEF vars, callVars
<1> QED BY <1>1, <1>2, <1>3, <1>4, <1>5, <1>6 DEF Next

LEMMA GenNext == VInv /\ GenInv /\ [Next]_vars => GenInv'
<1> SUFFICES ASSUME VInv, GenInv, [Next]_vars PROVE GenInv'
  OBVIOUS
<1>1. /\ slots \in [Slots -> Slot] /\ next_seq \in Nat
      /\ \A s \in Slots : slots[s].seq \in Nat
  BY Types
<1>2. ASSUME NEW s \in Slots, Present(s)' PROVE slots'[s].seq < next_seq'
  <2>1. Present(s) => slots[s].seq < next_seq BY DEF GenInv
  <2>2. CASE Moves
    <3>1. PICK r \in Slots : \E x \in Slot :
            /\ slots' = [slots EXCEPT ![r] = x] /\ Present(r)
            /\ x.seq = slots[r].seq
      BY <2>2 DEF Moves
    <3>2. next_seq' = next_seq BY <2>2 DEF Moves
    <3> QED BY <1>1, <1>2, <2>1, <3>1, <3>2 DEF Present, Tier
  <2>3. CASE Writes
    <3>1. PICK r \in Slots : \E x \in Slot :
            slots' = [slots EXCEPT ![r] = x] /\ x.seq = next_seq
      BY <2>3 DEF Writes
    <3>2. next_seq' = next_seq + 1 BY <2>3 DEF Writes
    <3>3. CASE s = r BY <1>1, <3>1, <3>2, <3>3
    <3>4. CASE s # r
      <4>1. slots'[s] = slots[s] BY <1>1, <3>1, <3>4
      <4> QED BY <1>1, <1>2, <2>1, <3>2, <4>1 DEF Present, Tier
    <3> QED BY <3>3, <3>4
  <2>4. CASE Removes
    BY <1>2, <2>1, <2>4, AbsentType DEF Removes, Present, Tier
  <2>5. CASE RollsBack
    <3>1. next_seq = snap.next_seq BY <2>5 DEF RollsBack, VInv, CallKeeps
    <3> QED BY <1>2, <2>5, <3>1 DEF RollsBack, GenInv, Present, Tier
  <2>6. CASE Stays
    BY <1>2, <2>1, <2>6 DEF Stays, Present, Tier
  <2> QED BY <2>2, <2>3, <2>4, <2>5, <2>6, StepKinds
<1>3. ASSUME pc' # "idle", NEW s \in Slots, snap'.slots[s].tier # "Absent"
      PROVE  snap'.slots[s].seq < snap'.next_seq
  <2>1. CASE pc' = pc /\ snap' = snap
    BY <1>3, <2>1 DEF GenInv
  <2>2. CASE snap' = CacheNow
    BY <1>3, <2>2, CacheNowSnapshot DEF GenInv, Present, Tier
  <2> QED BY <1>3, <2>1, <2>2, SnapKinds
<1> QED BY <1>2, <1>3 DEF GenInv

LEMMA GenAlways == Spec => [](VInv /\ GenInv)
<1>1. Init => GenInv
  BY AbsentType DEF Init, GenInv, Present, Tier
<1> QED BY <1>1, GenNext, VInvAlways, PTL DEF Spec

(* Adaptation never touches a PINNED slot.                                  *)
THEOREM PinnedSlotsProtected == Spec => PinnedProtected
<1> DEFINE P == \A s \in Slots : Tier(s) = "Pinned" =>
                  \/ Tier(s)' = "Pinned" /\ (slots'[s].seq = slots[s].seq =>
                                                slots'[s].bytes = slots[s].bytes)
                  \/ Idle /\ ~Present(s)'
<1>1. ASSUME VInv, GenInv, [Next]_vars, NEW s \in Slots, Tier(s) = "Pinned"
      PROVE  \/ Tier(s)' = "Pinned" /\ (slots'[s].seq = slots[s].seq =>
                                            slots'[s].bytes = slots[s].bytes)
             \/ Idle /\ ~Present(s)'
  <2>1. /\ slots \in [Slots -> Slot] /\ slots[s].seq \in Nat
        /\ slots[s].tier = "Pinned"
    BY <1>1, Types DEF Tier
  <2>2. CASE Moves
    <3>1. PICK r \in Slots : \E x \in Slot :
            /\ slots' = [slots EXCEPT ![r] = x]
            /\ Tier(r) = "Pinned" => x.tier = "Pinned" /\ x.bytes = slots[r].bytes
      BY <2>2 DEF Moves
    <3> QED BY <1>1, <2>1, <3>1 DEF Tier
  <2>3. CASE Writes
    <3>1. PICK r \in Slots : \E x \in Slot :
            /\ slots' = [slots EXCEPT ![r] = x] /\ x.seq = next_seq
            /\ Tier(r) = "Pinned" => x.tier = "Pinned"
      BY <2>3 DEF Writes
    <3>2. slots[s].seq < next_seq /\ next_seq \in Nat
      BY <1>1, <2>1, Types DEF GenInv, Present, Tier
    <3> QED BY <1>1, <2>1, <3>1, <3>2 DEF Tier
  <2>4. CASE Removes
    BY <2>1, <2>4, AbsentType DEF Removes, Tier, Present
  <2>5. CASE RollsBack
    BY <1>1, <2>1, <2>5 DEF RollsBack, VInv, CallKeeps, Tier
  <2>6. CASE Stays
    BY <2>1, <2>6 DEF Stays, Tier
  <2> QED BY <1>1, <2>2, <2>3, <2>4, <2>5, <2>6, StepKinds
<1>2. VInv /\ GenInv /\ [Next]_vars => [P]_vars
  BY <1>1
<1> QED BY <1>2, GenAlways, PTL DEF Spec, PinnedProtected

(* A slot that comes to hold another value gets a generation no slot ever   *)
(* had.                                                                     *)
THEOREM GenerationsAlwaysFresh == Spec => GenerationsFresh
<1> DEFINE Q(s) == (/\ Present(s)' /\ ret' # "err"
                    /\ ~Present(s) \/ slots'[s].seq # slots[s].seq)
                   => slots'[s].seq >= next_seq
<1>1. ASSUME VInv, [Next]_vars PROVE next_seq' >= next_seq /\ \A s \in Slots : Q(s)
  <2>1. /\ slots \in [Slots -> Slot] /\ next_seq \in Nat
        /\ \A s \in Slots : slots[s].seq \in Nat
    BY <1>1, Types
  <2>2. next_seq' >= next_seq
    BY <1>1, <2>1, StepKinds DEF Moves, Writes, Removes, RollsBack, Stays
  <2>3. ASSUME NEW s \in Slots, Present(s)', ret' # "err",
               ~Present(s) \/ slots'[s].seq # slots[s].seq
        PROVE  slots'[s].seq >= next_seq
    <3>1. CASE Moves
      <4>1. PICK r \in Slots : \E x \in Slot :
              /\ slots' = [slots EXCEPT ![r] = x] /\ Present(r)
              /\ x.seq = slots[r].seq
        BY <3>1 DEF Moves
      <4> QED BY <2>1, <2>3, <4>1 DEF Present, Tier
    <3>2. CASE Writes
      <4>1. PICK r \in Slots : \E x \in Slot :
              slots' = [slots EXCEPT ![r] = x] /\ x.seq = next_seq
        BY <3>2 DEF Writes
      <4> QED BY <2>1, <2>3, <4>1 DEF Present, Tier
    <3>3. CASE Removes
      BY <2>3, <3>3, AbsentType DEF Removes, Present, Tier
    <3>4. CASE RollsBack BY <2>3, <3>4 DEF RollsBack
    <3>5. CASE Stays BY <2>3, <3>5 DEF Stays, Present, Tier
    <3> QED BY <1>1, <3>1, <3>2, <3>3, <3>4, <3>5, StepKinds
  <2> QED BY <2>2, <2>3
<1>2. VInv /\ [Next]_vars => [next_seq' >= next_seq /\ \A s \in Slots : Q(s)]_vars
  BY <1>1
<1> QED BY <1>2, VInvAlways, PTL DEF Spec, GenerationsFresh

(* Only a plain write may take residency past the hard budget.              *)
THEOREM GrowthStaysWithinHard == Spec => GrowthWithinHard
<1> DEFINE G == resident' > resident =>
                  \/ resident' <= hard
                  \/ Idle /\ next_seq' > next_seq
                  \/ ret' = "err"
<1>1. ASSUME VInv, [Next]_vars PROVE G
  <2>1. resident \in Nat /\ hard \in Nat /\ next_seq \in Nat BY <1>1, Types
  <2>2. resident' \in Nat
    <3>1. VInv' BY <1>1, VNext
    <3> QED BY <3>1, ResidentNat DEF VInv, CacheNowOK, CacheOK
  <2> QED BY <1>1, <2>1, <2>2, StepKinds DEF Moves, Writes, Removes, RollsBack,
             Stays
<1>2. VInv /\ [Next]_vars => [G]_vars
  BY <1>1
<1> QED BY <1>2, VInvAlways, PTL DEF Spec, GrowthWithinHard

-----------------------------------------------------------------------------
(* What a transaction under way has done to the slots since its snapshot.   *)

(* A slot is as it was, or has moved down. A dense write only demotes.      *)
Adapted(s) ==
    \/ slots[s] = snap.slots[s]
    \/ /\ snap.slots[s].tier \in {"Hot", "Warm"}
       /\ slots[s].tier \in {"Warm", "Cold"}
       /\ slots[s].seq = snap.slots[s].seq
       /\ slots[s].importance = snap.slots[s].importance
       /\ pc = "Dense" => snap.slots[s].tier = "Hot" /\ slots[s].tier = "Warm"

AdaptInv ==
    pc # "idle" =>
        \A s \in Slots : (pc = "Dense" /\ s = dense) \/ Adapted(s)

(* Of two slots live in the snapshot the one that comes first in the        *)
(* candidate order has moved down at least as far.                          *)
Ordered(a, b) ==
    LowFirst(b, a) =>
        /\ Tier(a) = "Cold" => Tier(b) = "Cold"
        /\ (/\ snap.slots[a].tier = "Hot" /\ snap.slots[b].tier = "Hot"
            /\ Tier(a) # "Hot") => Tier(b) # "Hot"

OrderInv ==
    pc \in {"Demote", "Offload"} =>
        \A a, b \in LiveIn(snap.slots) : Ordered(a, b)

(* A turn of a loop: one slot moves down, the rest stays.                   *)
Turn(s) ==
    /\ slots' = [slots EXCEPT ![s] = slots'[s]]
    /\ slots'[s].seq = slots[s].seq /\ slots'[s].importance = slots[s].importance
    /\ UNCHANGED <<pc, dense, snap>>
    /\ \/ slots[s].tier = "Hot" /\ slots'[s].tier = "Warm"
       \/ /\ pc # "Dense"
          /\ slots[s].tier \in {"Hot", "Warm"} /\ slots'[s].tier = "Cold"

LEMMA DemoteTurn ==
    ASSUME VInv, NEW s \in Slots, ReleaseDemote(s) \/ DenseDemote(s)
    PROVE  Turn(s) /\ slots[s].tier = "Hot" /\ slots'[s].tier = "Warm"
<1>1. /\ slots[s].tier = "Hot" /\ demote_slot(s) /\ InCall /\ len' = len
  BY DEF ReleaseDemote, DenseDemote, IsLowest, SlotsIn, Tier
<1>2. slots \in [Slots -> Slot] /\ CacheNowOK BY DEF VInv, CacheNowOK, CacheOK
<1>3. /\ slots' = [slots EXCEPT ![s] = Demoted(slots[s])]
      /\ Demoted(slots[s]).tier = "Warm"
      /\ Demoted(slots[s]).seq = slots[s].seq
  BY <1>1, <1>2, DemoteOK
<1>4. Demoted(slots[s]).importance = slots[s].importance
  BY <1>2 DEF Demoted, Slot
<1>5. slots'[s] = Demoted(slots[s]) BY <1>2, <1>3
<1> QED BY <1>1, <1>3, <1>4, <1>5 DEF Turn, InCall, callVars

LEMMA EvictTurn ==
    ASSUME VInv, NEW s \in Slots, ReleaseEvict(s)
    PROVE  Turn(s) /\ slots'[s].tier = "Cold" /\ pc # "Dense"
<1>1. /\ slots[s].tier \in {"Hot", "Warm"} /\ evict_slot(s) /\ InCall
      /\ len' = len /\ pc # "Dense"
  BY DEF ReleaseEvict, IsLowest, Evictable, SlotsIn, Tier
<1>2. slots \in [Slots -> Slot] /\ CacheNowOK BY DEF VInv, CacheNowOK, CacheOK
<1>3. /\ slots' = [slots EXCEPT ![s] = Evicted(slots[s])]
      /\ Evicted(slots[s]).tier = "Cold"
      /\ Evicted(slots[s]).seq = slots[s].seq
  BY <1>1, <1>2, EvictOK
<1>4. Evicted(slots[s]).importance = slots[s].importance
  BY <1>2 DEF Evicted, Slot
<1>5. slots'[s] = Evicted(slots[s]) BY <1>2, <1>3
<1> QED BY <1>1, <1>3, <1>4, <1>5 DEF Turn, InCall, callVars

LEMMA AdaptTurn ==
    ASSUME VInv, AdaptInv, NEW s \in Slots, Turn(s), pc # "idle"
    PROVE  AdaptInv'
<1>1. slots \in [Slots -> Slot] BY Types
<1>2. ASSUME NEW r \in Slots, ~(pc = "Dense" /\ r = dense) PROVE Adapted(r)'
  <2>1. Adapted(r) BY <1>2 DEF AdaptInv
  <2>2. CASE r # s
    <3>1. slots'[r] = slots[r] BY <1>1, <2>2 DEF Turn
    <3> QED BY <2>1, <3>1 DEF Adapted, Turn
  <2>3. CASE r = s
    BY <2>1, <2>3 DEF Adapted, Turn
  <2> QED BY <2>2, <2>3
<1> QED BY <1>2 DEF AdaptInv, Turn

(* The turn is taken by the first of the candidates still in its tier.      *)
LEMMA OrderTurn ==
    ASSUME VInv, AdaptInv, OrderInv, pc \in {"Demote", "Offload"},
           NEW s \in Slots, Turn(s), NEW T,
           \/ T = {"Hot"} /\ slots'[s].tier = "Warm"
           \/ T = {"Hot", "Warm"} /\ slots'[s].tier = "Cold",
           IsLowest(s, SlotsIn(T))
    PROVE  OrderInv'
<1>1. /\ slots \in [Slots -> Slot]
      /\ \A r \in Slots : slots[r].seq \in Nat /\ slots[r].importance \in Nat
  BY Types DEF Slot
<1>2. /\ \A r \in Slots : r # s => slots'[r] = slots[r]
      /\ slots'[s].seq = slots[s].seq /\ slots'[s].importance = slots[s].importance
      /\ snap' = snap /\ pc' = pc
  BY <1>1 DEF Turn
<1>3. ASSUME NEW a \in LiveIn(snap.slots), NEW b \in LiveIn(snap.slots),
             LowFirst(b, a)'
      PROVE  Ordered(a, b)'
  <2>1. a \in Slots /\ b \in Slots BY DEF LiveIn
  <2>2. LowFirst(b, a) BY <1>2, <1>3, <2>1 DEF LowFirst
  <2>3. Ordered(a, b) BY DEF OrderInv
  <2>4. ~LowFirst(a, b) /\ a # b BY <1>1, <2>1, <2>2 DEF LowFirst
  <2>5. slots[b].tier \in {"Hot", "Warm", "Cold"}
    <3>1. Adapted(b) BY <2>1 DEF AdaptInv
    <3> QED BY <3>1 DEF Adapted, LiveIn
  <2>6. CASE a = s
    <3>1. b \notin SlotsIn(T) BY <2>4, <2>6 DEF IsLowest
    <3>2. slots[b].tier \notin T BY <2>1, <3>1 DEF SlotsIn, Tier
    <3>3. slots'[b] = slots[b] BY <1>2, <2>1, <2>4, <2>6
    <3> QED BY <2>5, <2>6, <3>2, <3>3 DEF Ordered, Tier
  <2>7. CASE b = s
    <3>1. slots'[a] = slots[a] BY <1>2, <2>1, <2>4, <2>7
    <3>2. slots'[s].tier \in {"Warm", "Cold"} /\ slots[s].tier \in {"Hot", "Warm"}
      BY DEF Turn
    <3>3. Tier(a) # "Cold" BY <2>2, <2>3, <2>7, <3>2 DEF Ordered, Tier
    <3> QED BY <2>7, <3>1, <3>2, <3>3 DEF Ordered, Tier
  <2>8. CASE a # s /\ b # s
    BY <1>2, <2>1, <2>2, <2>3, <2>8 DEF Ordered, Tier
  <2> QED BY <2>6, <2>7, <2>8
<1>4. \A a, b \in LiveIn(snap.slots) : Ordered(a, b)'
  BY <1>3 DEF Ordered
<1> QED BY <1>2, <1>4 DEF OrderInv

LEMMA CallInvNext ==
    ASSUME VInv, AdaptInv, OrderInv, [Next]_vars
    PROVE  AdaptInv' /\ OrderInv'
<1>1. CASE pc = "idle"
  <2>1. CASE pc' = "idle" BY <2>1 DEF AdaptInv, OrderInv
  <2>2. ASSUME NEW s \in Slots, SlotStep(s) PROVE pc' = "idle"
    BY <1>1, <2>2 DEF SlotStep, WriteAt, ClearSlot, observe_scores, Pin,
       DemoteSlot, PromoteSlot, EvictSlot, RestoreSlot, ApplyPromote,
       ApplyRestore, Direct
  <2>3. ASSUME Insert \/ Clear \/ UNCHANGED vars \/ CallStep PROVE pc' = "idle"
    BY <1>1, <2>3 DEF Insert, Clear, Direct, vars, callVars, CallStep,
       ReleaseDemote, ReleaseEvict, DenseDemote, ReleaseEnd, DenseWrite, DenseFail
  <2>4. ASSUME NEW action \in {"Demote", "Offload"},
               Step(action) \/ \E t \in Targets : BeginRelease(action, t)
        PROVE  AdaptInv' /\ OrderInv'
    <3>1. snap' = CacheNow /\ slots' = slots /\ pc' = action
      BY <2>4 DEF Step, BeginRelease, Begin, cacheVars
    <3>2. snap'.slots = slots BY <3>1, CacheNowSnapshot
    <3>3. AdaptInv' BY <3>1, <3>2 DEF AdaptInv, Adapted
    <3>4. OrderInv' BY <3>1, <3>2 DEF OrderInv, Ordered, LiveIn, Tier
    <3> QED BY <3>3, <3>4
  <2>5. ASSUME NEW s \in Slots, NEW t \in Targets, BeginDense(s, t)
        PROVE  AdaptInv' /\ OrderInv'
    <3>1. /\ snap' = CacheNow /\ slots' = [slots EXCEPT ![s] = Absent]
          /\ pc' = "Dense" /\ dense' = s
      BY <2>5 DEF BeginDense, Begin
    <3>2. snap'.slots = slots /\ slots \in [Slots -> Slot]
      BY <3>1, CacheNowSnapshot, Types
    <3>3. AdaptInv' BY <3>1, <3>2 DEF AdaptInv, Adapted
    <3> QED BY <3>1, <3>3 DEF OrderInv
  <2> QED BY <2>1, <2>2, <2>3, <2>4, <2>5 DEF Next
<1>2. CASE pc # "idle"
  <2>1. CASE UNCHANGED vars
    BY <2>1 DEF vars, cacheVars, callVars, AdaptInv, OrderInv, Adapted, Ordered,
       LowFirst, Tier
  <2>2. CASE ReleaseEnd \/ DenseWrite \/ DenseFail
    BY <2>2 DEF ReleaseEnd, DenseWrite, DenseFail, Return, AdaptInv, OrderInv
  <2>3. ASSUME NEW s \in Slots, ReleaseDemote(s) PROVE AdaptInv' /\ OrderInv'
    <3>1. pc = "Demote" /\ IsLowest(s, SlotsIn({"Hot"}))
      BY <2>3 DEF ReleaseDemote
    <3> QED BY <1>2, <2>3, <3>1, DemoteTurn, AdaptTurn, OrderTurn
  <2>4. ASSUME NEW s \in Slots, DenseDemote(s) PROVE AdaptInv' /\ OrderInv'
    <3>1. pc = "Dense" BY <2>4 DEF DenseDemote
    <3>2. Turn(s) BY <2>4, DemoteTurn
    <3>3. OrderInv' BY <3>1, <3>2 DEF OrderInv, Turn
    <3> QED BY <1>2, <3>2, <3>3, AdaptTurn
  <2>5. ASSUME NEW s \in Slots, ReleaseEvict(s) PROVE AdaptInv' /\ OrderInv'
    <3>1. /\ pc \in {"Demote", "Offload"}
          /\ IsLowest(s, SlotsIn({"Hot", "Warm"}))
      BY <2>5 DEF ReleaseEvict, Evictable, IsLowest
    <3> QED BY <1>2, <2>5, <3>1, EvictTurn, AdaptTurn, OrderTurn
  <2> QED BY <1>2, <2>1, <2>2, <2>3, <2>4, <2>5, InCallSteps DEF CallStep
<1> QED BY <1>1, <1>2

CallInv == VInv /\ AdaptInv /\ OrderInv

LEMMA CallInvAlways == Spec => []CallInv
<1>1. Init => CallInv BY VInit DEF Init, CallInv, AdaptInv, OrderInv
<1>2. CallInv /\ [Next]_vars => CallInv' BY VNext, CallInvNext DEF CallInv
<1> QED BY <1>1, <1>2, PTL DEF Spec

(* Over a whole release the more important of two slots pays last, although *)
(* every turn chooses by itself.                                            *)
THEOREM ImportantSlotsPayLast == Spec => ImportantPaysLast
<1> DEFINE O(a, b) == LowFirst(b, a) =>
              /\ Tier(a)' = "Cold" => Tier(b)' = "Cold"
              /\ (/\ {snap.slots[a].tier, snap.slots[b].tier} = {"Hot"}
                  /\ Tier(a)' # "Hot") => Tier(b)' # "Hot"
           A == Ends /\ pc # "Dense" /\ ret' = "ok" =>
                  \A a, b \in LiveIn(snap.slots) : O(a, b)
<1>1. ASSUME CallInv, [Next]_vars, Ends, pc # "Dense", ret' = "ok",
             NEW a \in LiveIn(snap.slots), NEW b \in LiveIn(snap.slots)
      PROVE  O(a, b)
  <2>1. pc \in {"Demote", "Offload"} /\ pc # "idle"
    BY <1>1 DEF CallInv, VInv, CallTypeOK, Calls, Ends
  <2>2. slots' = slots
    BY <1>1, <2>1, InCallSteps DEF CallStep, ReleaseDemote, ReleaseEvict,
       DenseDemote, InCall, callVars, Ends, ReleaseEnd, Return, cacheVars,
       DenseWrite, DenseFail, vars
  <2>3. Ordered(a, b) BY <1>1, <2>1 DEF CallInv, OrderInv
  <2> QED BY <2>2, <2>3 DEF Ordered, Tier
<1>2. CallInv /\ [Next]_vars => [A]_vars BY <1>1
<1> QED BY <1>2, CallInvAlways, PTL DEF Spec, ImportantPaysLast

(* Sets of slots and what they weigh: an Err is compared with a bound       *)
(* computed from the snapshot.                                              *)
LEMMA SlotSubset ==
    ASSUME NEW S \in SUBSET Slots, NEW T \in SUBSET S
    PROVE  /\ Cardinality(S) \in Nat /\ Cardinality(T) \in Nat
           /\ Cardinality(T) <= Cardinality(S)
<1>1. IsFiniteSet(Slots) BY InTierFinite
<1>2. IsFiniteSet(S) BY <1>1, FS_Subset
<1> QED BY <1>2, FS_Subset, FS_CardinalityType

(* apply_action gives up only when the PINNED slots alone are too many.     *)
LEMMA ReleaseImpossible ==
    ASSUME CallInv, ReleaseEnd, ret' = "err"
    PROVE  TILE_BYTES * Cardinality(PinnedIn(snap.slots)) > target
<1> DEFINE P == InTier(slots, {"Hot", "Pinned"})
           W == InTier(slots, {"Warm"})
           Q == PinnedIn(snap.slots)
<1>1. ~(resident <= target) /\ SlotsIn({"Hot", "Warm"}) = {} /\ pc # "idle"
  BY DEF ReleaseEnd, LoopOver, Return
<1>2. W = {} BY <1>1 DEF InTier, SlotsIn, Tier
<1>3. Q \in SUBSET Slots /\ P \in SUBSET Q
  BY <1>1 DEF InTier, SlotsIn, Tier, PinnedIn, CallInv, VInv, CallKeeps
<1>4. Cardinality(W) = 0 BY <1>2, FS_EmptySet
<1>5. resident = 128 * Cardinality(P) + 96 * Cardinality(W)
  BY DEF CallInv, VInv, CacheNowOK, CacheOK, ResidentOf, TILE_BYTES,
     WARM_PACKED_BYTES
<1>6. resident \in Nat /\ target \in Nat BY Types DEF CallInv
<1> HIDE DEF P, W, Q
<1>7. /\ Cardinality(Q) \in Nat /\ Cardinality(P) \in Nat
      /\ Cardinality(P) <= Cardinality(Q)
  BY <1>3, SlotSubset
<1>8. 128 * Cardinality(Q) > target
  BY <1>1, <1>4, <1>5, <1>6, <1>7
<1> QED BY <1>8 DEF Q, TILE_BYTES

(* A dense write gives up only when all other slots being WARM would still  *)
(* leave no room.                                                           *)
LEMMA DenseImpossible ==
    ASSUME CallInv, DenseFail
    PROVE  target < WarmFloor(snap.slots, Slots \ {dense})
               + (IF dense \in PinnedIn(snap.slots) THEN TILE_BYTES
                  ELSE WARM_PACKED_BYTES)
<1> DEFINE P == InTier(slots, {"Hot", "Pinned"})
           W == InTier(slots, {"Warm"})
           Q == PinnedIn(snap.slots) \cap (Slots \ {dense})
           L == LiveIn(snap.slots) \cap (Slots \ {dense})
           m == IF dense \in PinnedIn(snap.slots) THEN TILE_BYTES
                ELSE WARM_PACKED_BYTES
<1>1. /\ pc = "Dense" /\ resident + MinimumNew > target
      /\ SlotsIn({"Hot"}) = {} /\ dense \in Slots /\ slots[dense] = Absent
  BY DEF DenseFail, CallInv, VInv, DenseKeeps
<1>2. Absent.tier = "Absent" BY AbsentType
<1>3. Q \in SUBSET Slots /\ P \in SUBSET Q
  <2> SUFFICES ASSUME NEW s \in P PROVE s \in Q
    BY DEF PinnedIn
  <2>1. s \in Slots /\ slots[s].tier = "Pinned" /\ s # dense
    BY <1>1, <1>2 DEF InTier, SlotsIn, Tier
  <2>2. slots[s] = snap.slots[s]
    BY <1>1, <2>1 DEF CallInv, VInv, CallKeeps
  <2> QED BY <2>1, <2>2 DEF PinnedIn
<1>4. L \in SUBSET Slots /\ W \in SUBSET L
  <2> SUFFICES ASSUME NEW s \in W PROVE s \in L
    BY DEF LiveIn
  <2>1. s \in Slots /\ slots[s].tier = "Warm" /\ s # dense
    BY <1>1, <1>2 DEF InTier
  <2>2. Adapted(s) BY <1>1, <2>1 DEF CallInv, AdaptInv
  <2> QED BY <1>1, <2>1, <2>2 DEF LiveIn, Adapted
<1>5. resident = 128 * Cardinality(P) + 96 * Cardinality(W)
  BY DEF CallInv, VInv, CacheNowOK, CacheOK, ResidentOf, TILE_BYTES,
     WARM_PACKED_BYTES
<1>6. resident \in Nat /\ target \in Nat BY Types DEF CallInv
<1>7. m = MinimumNew /\ m \in Nat
  BY <1>1 DEF MinimumNew, DensePinned, PinnedIn, TILE_BYTES, WARM_PACKED_BYTES
<1>8. WarmFloor(snap.slots, Slots \ {dense})
          = 128 * Cardinality(Q) + 96 * Cardinality(L)
  BY DEF WarmFloor, TILE_BYTES, WARM_PACKED_BYTES
<1> HIDE DEF P, W, Q, L, m
<1>9. /\ Cardinality(Q) \in Nat /\ Cardinality(P) \in Nat
      /\ Cardinality(P) <= Cardinality(Q)
      /\ Cardinality(L) \in Nat /\ Cardinality(W) \in Nat
      /\ Cardinality(W) <= Cardinality(L)
  BY <1>3, <1>4, SlotSubset
<1>10. target < 128 * Cardinality(Q) + 96 * Cardinality(L) + m
  BY <1>1, <1>5, <1>6, <1>7, <1>9
<1> QED BY <1>8, <1>10 DEF m

(* A dense write takes no key away from the readers, and what it writes is  *)
(* readable.                                                                *)
LEMMA DenseKeepsKeys ==
    ASSUME CallInv, [Next]_vars, pc = "Dense"
    PROVE  /\ \A s \in SlotsIn({"Hot", "Warm", "Pinned"}) : Tier(s)' # "Cold"
           /\ (Ends /\ ret' = "ok") =>
                /\ slots'[dense].tier \in {"Hot", "Warm", "Pinned"}
                /\ (slots'[dense].tier = "Pinned")
                      <=> (dense \in PinnedIn(snap.slots))
                /\ slots'[dense].seq = snap.next_seq
<1>1. /\ dense \in Slots /\ slots[dense] = Absent /\ slots \in [Slots -> Slot]
      /\ next_seq = snap.next_seq /\ VInv
  BY Types DEF CallInv, VInv, DenseKeeps, CallKeeps
<1>2. CASE DenseWrite
  <2>1. PICK x \in Slot :
          /\ x.seq = next_seq /\ x.tier = DenseTier
          /\ DenseTier \in {"Hot", "Warm", "Pinned"}
          /\ slots' = [slots EXCEPT ![dense] = x]
    BY <1>1, <1>2, DenseNewOK
  <2>2. \A s \in Slots : slots'[s] = IF s = dense THEN x ELSE slots[s]
    BY <1>1, <2>1
  <2>3. DenseTier = "Pinned" <=> dense \in PinnedIn(snap.slots)
    BY <1>1 DEF DenseTier, DensePinned, PinnedIn
  <2> QED BY <1>1, <2>1, <2>2, <2>3 DEF SlotsIn, Tier
<1>3. CASE DenseFail
  <2>1. ret' = "err" /\ slots' = snap.slots BY <1>3 DEF DenseFail, Return
  <2>2. ASSUME NEW s \in SlotsIn({"Hot", "Warm", "Pinned"})
        PROVE  snap.slots[s].tier # "Cold"
    <3>1. s \in Slots /\ s # dense BY <1>1, AbsentType DEF SlotsIn, Tier
    <3>2. Adapted(s) BY <3>1 DEF CallInv, AdaptInv
    <3> QED BY <3>2 DEF Adapted, SlotsIn, Tier
  <2> QED BY <2>1, <2>2 DEF Tier
<1>4. ASSUME NEW r \in Slots, DenseDemote(r)
      PROVE  /\ \A s \in SlotsIn({"Hot", "Warm", "Pinned"}) : Tier(s)' # "Cold"
             /\ pc' = pc
  <2>1. Turn(r) /\ slots'[r].tier = "Warm" BY <1>1, <1>4, DemoteTurn
  <2>2. \A s \in Slots : s # r => slots'[s] = slots[s]
    BY <1>1, <2>1 DEF Turn
  <2> QED BY <2>1, <2>2 DEF SlotsIn, Tier, Turn
<1>5. CASE UNCHANGED vars
  BY <1>5 DEF vars, cacheVars, callVars, SlotsIn, Tier, Ends
<1>6. /\ ~ReleaseEnd /\ \A s \in Slots : ~ReleaseDemote(s) /\ ~ReleaseEvict(s)
  BY DEF ReleaseEnd, ReleaseDemote, ReleaseEvict
<1> QED BY <1>2, <1>3, <1>4, <1>5, <1>6, InCallSteps DEF CallStep, Ends

(* A call that returns Err could not have succeeded, and a dense write      *)
(* makes its room without losing a key.                                     *)
THEOREM FailuresAreForced == Spec => FailsOnlyIfImpossible
<1> DEFINE E == Ends /\ ret' = "err" =>
                  IF pc = "Dense"
                  THEN target < WarmFloor(snap.slots, Slots \ {dense})
                           + (IF dense \in PinnedIn(snap.slots) THEN TILE_BYTES
                              ELSE WARM_PACKED_BYTES)
                  ELSE TILE_BYTES * Cardinality(PinnedIn(snap.slots)) > target
           D == pc = "Dense" =>
                  /\ \A s \in SlotsIn({"Hot", "Warm", "Pinned"}) : Tier(s)' # "Cold"
                  /\ (Ends /\ ret' = "ok") =>
                       /\ slots'[dense].tier \in {"Hot", "Warm", "Pinned"}
                       /\ (slots'[dense].tier = "Pinned")
                             <=> (dense \in PinnedIn(snap.slots))
                       /\ slots'[dense].seq = snap.next_seq
<1>1. ASSUME CallInv, [Next]_vars, Ends, ret' = "err" PROVE E
  <2>1. CASE pc = "Dense" /\ DenseFail BY <2>1, <1>1, DenseImpossible
  <2>2. CASE pc # "Dense" /\ ReleaseEnd BY <2>2, <1>1, ReleaseImpossible
  <2>3. \/ pc = "Dense" /\ DenseFail
        \/ pc # "Dense" /\ ReleaseEnd
    BY <1>1, InCallSteps DEF CallStep, ReleaseDemote, ReleaseEvict, DenseDemote,
       InCall, callVars, Ends, ReleaseEnd, DenseFail, DenseWrite, Return, vars
  <2> QED BY <2>1, <2>2, <2>3
<1>2. ASSUME CallInv, [Next]_vars PROVE D BY <1>2, DenseKeepsKeys
<1>3. CallInv /\ [Next]_vars => [E /\ D]_vars BY <1>1, <1>2
<1> QED BY <1>3, CallInvAlways, PTL DEF Spec, FailsOnlyIfImpossible

-----------------------------------------------------------------------------
(* The ElasticXxx bridge: its phases run between the runtime's calls, on    *)
(* whatever the cache has become meanwhile.                                 *)

Phases == {"unbound", "bound", "validated", "prepared", "applied",
           "unverified", "committed", "restored", "rejected", "stuck"}

(* A bound transaction remembers the full tile of the generation it bound.  *)
BindInv ==
    /\ phase \in [Bridges -> Phases]
    /\ bound \in [Bridges -> [slot : Nat, generation : Nat, tile : Bytes]]
    /\ \A b \in Bridges : phase[b] # "unbound" =>
          /\ bound[b].slot \in Slots
          /\ bound[b].tile = FullTile(bound[b].generation)

BridgeInv == VInv /\ BindInv

(* A phase changes the cache under the mutex, with no call under way.       *)
LEMMA PhaseOK ==
    ASSUME VInv, Idle, CacheNowOK', UNCHANGED <<next_seq, hard, callVars>>,
           evictions' \in Nat
    PROVE  VInv'
<1>1. CallTypeOK' BY DEF VInv, CallTypeOK, callVars
<1>2. SnapOK' BY DEF VInv, SnapOK, callVars
<1>3. CallKeeps' /\ DenseKeeps' BY DEF Idle, CallKeeps, DenseKeeps, callVars
<1> QED BY <1>1, <1>2, <1>3 DEF VInv

LEMMA PhaseChange ==
    ASSUME BindInv, NEW b \in Bridges, phase[b] # "unbound", NEW p \in Phases \ {"unbound"},
           To(b, p), bound' = bound
    PROVE  BindInv'
  BY DEF BindInv, To

LEMMA BindStep ==
    ASSUME BridgeInv, NEW b \in Bridges, NEW s \in Slots, bind_hot_slot(b, s)
    PROVE  BridgeInv'
<1>1. VInv' BY VNext DEF BridgeInv, bind_hot_slot
<1>2. slots[s] \in Slot /\ Shape(slots[s]) /\ slots[s].tier = "Hot"
  BY DEF BridgeInv, VInv, CacheNowOK, CacheOK, bind_hot_slot, Tier
<1>3. slots[s].seq \in Nat /\ ExactTile(slots[s]) = FullTile(slots[s].seq)
  BY <1>2, ExactTileOK DEF Slot
<1>4. s \in Nat /\ FullTile(slots[s].seq) \in Bytes
  BY <1>3, BytesTypes, VramCacheAssumption DEF Slots
<1>5. BindInv'
  BY <1>3, <1>4 DEF BridgeInv, BindInv, bind_hot_slot, To, Phases
<1> QED BY <1>1, <1>5 DEF BridgeInv

LEMMA CheckStep ==
    ASSUME BridgeInv, NEW b \in Bridges,
           validate_transition(b) \/ prepare_transition(b)
               \/ verify_transition(b)
    PROVE  BridgeInv'
<1>1. VInv' BY VNext DEF BridgeInv, validate_transition, prepare_transition,
               verify_transition, CheckSource
<1>2. bound' = bound /\ phase[b] # "unbound" /\ \E p \in Phases \ {"unbound"} : To(b, p)
  BY DEF validate_transition, prepare_transition, verify_transition, CheckSource,
     Phases
<1> QED BY <1>1, <1>2, PhaseChange DEF BridgeInv

LEMMA ApplyStep ==
    ASSUME BridgeInv, NEW b \in Bridges, apply_transition_if_source(b)
    PROVE  BridgeInv'
<1> DEFINE s == bound[b].slot
<1>1. bound' = bound /\ phase[b] # "unbound" /\ \E p \in Phases \ {"unbound"} : To(b, p)
  BY DEF apply_transition_if_source, Phases
<1>2. BindInv' BY <1>1, PhaseChange DEF BridgeInv
<1>3. /\ s \in Slots /\ Idle /\ CacheNowOK /\ evictions \in Nat
      /\ UNCHANGED <<len, next_seq, hard, callVars>>
  BY <1>1 DEF BridgeInv, BindInv, VInv, CallTypeOK, apply_transition_if_source
<1>4. CASE CurrentDescriptor(b) = "source"
  <2>1. slots[s].tier = "Hot" /\ demote_slot(s)
    BY <1>4 DEF apply_transition_if_source, CurrentDescriptor
  <2>2. CacheNowOK' BY <1>3, <2>1, DemoteOK
  <2> QED BY <1>2, <1>3, <2>1, <2>2, PhaseOK DEF BridgeInv, demote_slot
<1>5. CASE CurrentDescriptor(b) # "source"
  <2>1. UNCHANGED vars
    BY <1>5 DEF apply_transition_if_source, vars, cacheVars
  <2> QED BY <1>2, <2>1, VNext DEF BridgeInv
<1> QED BY <1>4, <1>5

LEMMA RestorePageStep ==
    ASSUME BridgeInv, NEW b \in Bridges, restore_page(b)
    PROVE  BridgeInv'
<1> DEFINE s == bound[b].slot
<1>1. bound' = bound /\ phase[b] # "unbound" /\ \E p \in Phases \ {"unbound"} : To(b, p)
  BY DEF restore_page, Phases
<1>2. BindInv' BY <1>1, PhaseChange DEF BridgeInv
<1>3. /\ s \in Slots /\ Idle /\ CacheNowOK /\ evictions \in Nat
      /\ UNCHANGED <<len, next_seq, hard, callVars>>
  BY <1>1 DEF BridgeInv, BindInv, VInv, CallTypeOK, restore_page
<1>4. CASE CanPromote(s) /\ promote_slot(s)
  <2>1. slots' = [slots EXCEPT ![s] = Promoted(slots[s])]
    BY <1>4 DEF promote_slot
  <2>2. CacheNowOK'
    BY <1>3, <1>4, <2>1, PromoteOK DEF CanPromote, Tier, promote_slot
  <2> QED BY <1>2, <1>3, <1>4, <2>2, PhaseOK DEF BridgeInv, promote_slot
<1>5. CASE UNCHANGED <<slots, resident, evictions>>
  <2>1. UNCHANGED vars
    BY <1>3, <1>5 DEF vars, cacheVars
  <2> QED BY <1>2, <2>1, VNext DEF BridgeInv
<1> QED BY <1>4, <1>5 DEF restore_page

LEMMA BridgeInvAlways == BridgeSpec => []BridgeInv
<1>1. Init /\ BridgeInit => BridgeInv
  BY VInit, BytesTypes DEF BridgeInit, BridgeInv, BindInv, NoBinding, Phases
<1>2. ASSUME BridgeInv, [BridgeNext]_allVars PROVE BridgeInv'
  <2>1. CASE Next /\ UNCHANGED bridgeVars
    BY <1>2, <2>1, VNext DEF BridgeInv, BindInv, bridgeVars
  <2>2. CASE UNCHANGED allVars
    BY <1>2, <2>2, VNext DEF BridgeInv, BindInv, bridgeVars, allVars
  <2>3. ASSUME NEW b \in Bridges, BridgeStep(b) PROVE BridgeInv'
    BY <1>2, <2>3, BindStep, CheckStep, ApplyStep, RestorePageStep
       DEF BridgeStep
  <2> QED BY <1>2, <2>1, <2>2, <2>3 DEF BridgeNext
<1> QED BY <1>1, <1>2, PTL DEF BridgeSpec

(* Whatever the other transactions and the runtime do between the phases of *)
(* one, its bound page can be taken back to the exact tile it had.          *)
THEOREM BoundPagesRestorable == BridgeSpec => []BoundPageRestorable
<1>1. BridgeInv => BoundPageRestorable
  <2> SUFFICES ASSUME BridgeInv, NEW b \in Bridges, phase[b] # "unbound",
                      slots[bound[b].slot].tier # "Absent",
                      slots[bound[b].slot].seq = bound[b].generation
               PROVE  ExactTile(slots[bound[b].slot]) = bound[b].tile
    BY DEF BoundPageRestorable
  <2>1. bound[b].slot \in Slots /\ bound[b].tile = FullTile(bound[b].generation)
    BY DEF BridgeInv, BindInv
  <2>2. slots[bound[b].slot] \in Slot /\ Shape(slots[bound[b].slot])
    BY <2>1 DEF BridgeInv, VInv, CacheNowOK, CacheOK
  <2> QED BY <2>1, <2>2, ExactTileOK
<1> QED BY <1>1, BridgeInvAlways, PTL

-----------------------------------------------------------------------------
(* The control planes. They are read off a cache between two calls, so each *)
(* part follows from the invariant of the cache.                            *)

LEMMA TierCodes ==
    ASSUME NEW t \in PhysicalTier
    PROVE  /\ physical_tier_code(t) \in 0 .. 3
           /\ \A u \in PhysicalTier :
                 physical_tier_code(u) = physical_tier_code(t) => u = t
  BY DEF PhysicalTier, physical_tier_code

(* The two bits of a tier's code give the tier back.                        *)
LEMMA TierBits ==
    ASSUME NEW t \in PhysicalTier, NEW code,
           code = (IF physical_tier_code(t) % 2 = 1 THEN 1 ELSE 0)
                      + (IF physical_tier_code(t) \div 2 = 1 THEN 2 ELSE 0)
    PROVE  /\ code = physical_tier_code(t)
           /\ (CHOOSE u \in PhysicalTier : physical_tier_code(u) = code) = t
<1>1. code = physical_tier_code(t)
  BY TierCodes
<1> QED BY <1>1, TierCodes

LEMMA PositionsAreSlots ==
    ASSUME VInv
    PROVE  /\ Positions \in SUBSET Slots /\ PresentSlots \in SUBSET Positions
           /\ len \in Nat
           /\ \A s \in Slots : slots[s] \in Slot /\ Shape(slots[s])
           /\ \A s \in Slots : Present(s) => Tier(s) \in PhysicalTier
<1>1. len \in 0 .. MaxSlots /\ slots \in [Slots -> Slot]
      /\ \A s \in Slots : Shape(slots[s])
  BY DEF VInv, CacheNowOK, CacheOK
<1>2. Positions \in SUBSET Slots
  BY <1>1, VramCacheAssumption DEF Positions, Slots
<1> QED BY <1>1, <1>2, VramCacheAssumption DEF PresentSlots, Present, Tier, Slot

LEMMA PlanesAccepted == ASSUME VInv PROVE PlaneAccepted
<1> SUFFICES ASSUME NEW s \in Slots, Present(s)
             PROVE  <<slots[s].bytes.length, Backing(slots[s])>>
                        = derived_bytes_for_tier(Tier(s))
  BY DEF PlaneAccepted
<1> DEFINE x == slots[s]
<1>1. x \in Slot /\ Shape(x) /\ x.tier \in PhysicalTier /\ x.tier # "Absent"
  BY PositionsAreSlots DEF Tier, Present
<1>2. x # Absent BY <1>1, AbsentType
<1>3. x.seq \in Nat BY <1>1 DEF Slot
<1>4. /\ FullTile(x.seq).length = 128 /\ NoBytes.length = 0
      /\ Packed(x.seq).length = 96
  BY <1>3, BytesTypes DEF TILE_BYTES, WARM_PACKED_BYTES
<1> HIDE DEF x
<1>5. /\ x.tier \in {"Hot", "Pinned"} => x.bytes.length = 128 /\ Backing(x) = 0
      /\ x.tier = "Warm" => x.bytes.length = 96 /\ Backing(x) = 32
      /\ x.tier = "Cold" => x.bytes.length = 0 /\ Backing(x) = 128
  BY <1>1, <1>2, <1>3, <1>4 DEF Shape, Backing, NoPlane, RESIDUAL_BYTES,
     TILE_BYTES, WARM_PACKED_BYTES
<1>6. <<x.bytes.length, Backing(x)>> = derived_bytes_for_tier(x.tier)
  BY <1>1, <1>5 DEF PhysicalTier, derived_bytes_for_tier, RESIDUAL_BYTES,
     TILE_BYTES, WARM_PACKED_BYTES
<1> QED BY <1>6 DEF x, Tier

(* The three planes agree on every position.                                *)
PlanesAgree(s) ==
    LET decoded == slot_state(HybridPlane, s)
        words   == {w \in SparsePlane : w[1] = s}
    IN IF Present(s)
       THEN /\ decoded = <<slots[s].seq, Tier(s)>>
            /\ DensePlane[s] = <<decoded[1], dense_state_bits(decoded[2])>>
            /\ words = {<<s, decoded[1], physical_tier_code(decoded[2])>>
                           \o derived_bytes_for_tier(decoded[2])}
       ELSE decoded = "none" /\ DensePlane[s] = <<0, 0>> /\ words = {}

LEMMA DecodesHybrid ==
    ASSUME VInv, NEW s \in Positions
    PROVE  slot_state(HybridPlane, s) =
               IF Present(s) THEN <<slots[s].seq, Tier(s)>> ELSE "none"
<1> DEFINE plane == HybridPlane
           code == (IF s \in plane.low THEN 1 ELSE 0)
                      + (IF s \in plane.high THEN 2 ELSE 0)
<1>1. Present(s) => Tier(s) \in PhysicalTier BY PositionsAreSlots
<1>2. /\ plane.presence = PresentSlots
      /\ plane.generation[s] = IF Present(s) THEN slots[s].seq ELSE 0
      /\ s \in plane.low <=> Present(s) /\ physical_tier_code(Tier(s)) % 2 = 1
      /\ s \in plane.high <=> Present(s) /\ physical_tier_code(Tier(s)) \div 2 = 1
  BY DEF HybridPlane, PresentSlots
<1>3. slot_state(plane, s) =
        IF s \notin plane.presence
        THEN IF code = 0 THEN "none" ELSE "error"
        ELSE <<plane.generation[s],
               CHOOSE t \in PhysicalTier : physical_tier_code(t) = code>>
  BY DEF slot_state
<1>4. s \in PresentSlots <=> Present(s) BY DEF PresentSlots
<1> HIDE DEF plane
<1>5. CASE ~Present(s) BY <1>2, <1>3, <1>4, <1>5 DEF plane
<1>6. CASE Present(s)
  <2>1. code = (IF physical_tier_code(Tier(s)) % 2 = 1 THEN 1 ELSE 0)
                  + (IF physical_tier_code(Tier(s)) \div 2 = 1 THEN 2 ELSE 0)
    BY <1>2, <1>6
  <2> HIDE DEF code
  <2>2. (CHOOSE t \in PhysicalTier : physical_tier_code(t) = code) = Tier(s)
    BY <1>1, <1>6, <2>1, TierBits
  <2> QED BY <1>2, <1>3, <1>4, <1>6, <2>2 DEF plane
<1> QED BY <1>5, <1>6

LEMMA AllPlanesAgree ==
    ASSUME VInv, NEW s \in Positions
    PROVE  PlanesAgree(s)
<1> DEFINE decoded == slot_state(HybridPlane, s)
           words   == {w \in SparsePlane : w[1] = s}
           word(r) == <<r, slots[r].seq, physical_tier_code(Tier(r)),
                        slots[r].bytes.length, Backing(slots[r])>>
<1>1. DensePlane[s] = IF Present(s)
                      THEN <<slots[s].seq, dense_state_bits(Tier(s))>>
                      ELSE <<0, 0>>
  BY DEF DensePlane
<1>2. SparsePlane = {word(r) : r \in PresentSlots} BY DEF SparsePlane
<1>3. \A r : word(r)[1] = r OBVIOUS
<1>4. s \in PresentSlots <=> Present(s) BY DEF PresentSlots
<1>5. CASE ~Present(s)
  <2>1. decoded = "none" BY <1>5, DecodesHybrid
  <2>2. words = {} BY <1>2, <1>3, <1>4, <1>5
  <2> QED BY <1>1, <1>5, <2>1, <2>2 DEF PlanesAgree
<1>6. CASE Present(s)
  <2>1. decoded = <<slots[s].seq, Tier(s)>> BY <1>6, DecodesHybrid
  <2> HIDE DEF decoded
  <2>2. decoded[1] = slots[s].seq /\ decoded[2] = Tier(s) BY <2>1
  <2>3. words = {word(s)}
    <3> HIDE DEF word
    <3> QED BY <1>2, <1>3, <1>4, <1>6
  <2>4. <<slots[s].bytes.length, Backing(slots[s])>>
            = derived_bytes_for_tier(Tier(s))
    BY <1>6, PlanesAccepted, PositionsAreSlots DEF PlaneAccepted
  <2>5. word(s) = <<s, slots[s].seq, physical_tier_code(Tier(s))>>
                      \o <<slots[s].bytes.length, Backing(slots[s])>>
    OBVIOUS
  <2> HIDE DEF word, words
  <2>6. /\ DensePlane[s] = <<decoded[1], dense_state_bits(decoded[2])>>
        /\ words = {<<s, decoded[1], physical_tier_code(decoded[2])>>
                       \o derived_bytes_for_tier(decoded[2])}
    BY <1>1, <1>6, <2>2, <2>3, <2>4, <2>5
  <2> QED BY <1>6, <2>1, <2>6 DEF PlanesAgree, decoded, words
<1> QED BY <1>5, <1>6

(* The accounting: one 64-bit lane per position and whole words per bit     *)
(* plane, one word of eight lanes per present slot.                         *)
LEMMA PlaneSizes ==
    ASSUME VInv
    PROVE  LET bits == profile_accounting(len, Cardinality(PresentSlots))
           IN /\ bits["HybridW64Boolean"] = payload_bits(HybridPlane)
              /\ bits["SparseW512"] = 8 * 64 * Cardinality(SparsePlane)
<1> DEFINE n == len
           W == {i \div 64 : i \in Positions}
           k == (n + 63) \div 64
           P == Cardinality(PresentSlots)
           word(r) == <<r, slots[r].seq, physical_tier_code(Tier(r)),
                        slots[r].bytes.length, Backing(slots[r])>>
<1>1. n \in Nat /\ k \in Nat BY PositionsAreSlots
<1>2. DOMAIN HybridPlane.generation = Positions BY DEF HybridPlane
<1>3. Cardinality(Positions) = n
  BY <1>1, FS_Interval DEF Positions
<1>4. W = 0 .. k - 1
  <2>1. ASSUME NEW i \in Positions PROVE i \div 64 \in 0 .. k - 1
    BY <1>1 DEF Positions
  <2>2. ASSUME NEW w \in 0 .. k - 1 PROVE \E i \in Positions : w = i \div 64
    <3>1. w * 64 \in Positions BY <1>1 DEF Positions
    <3>2. (w * 64) \div 64 = w OBVIOUS
    <3> QED BY <3>1, <3>2
  <2> QED BY <2>1, <2>2
<1>5. Cardinality(W) = k
  <2> HIDE DEF k, W
  <2> QED BY <1>1, <1>4, FS_Interval
<1>6. Cardinality(SparsePlane) = P
  <2> DEFINE f == [r \in PresentSlots |-> word(r)]
  <2>1. \A r : word(r)[1] = r OBVIOUS
  <2>2. SparsePlane = {word(r) : r \in PresentSlots} BY DEF SparsePlane
  <2>3. IsFiniteSet(PresentSlots)
    BY PositionsAreSlots, InTierFinite, FS_Subset
  <2> HIDE DEF word
  <2>4. f \in Bijection(PresentSlots, SparsePlane)
    BY <2>1, <2>2 DEF Bijection, Injection, Surjection, IsInjective
  <2>5. ExistsBijection(PresentSlots, SparsePlane)
    BY <2>4 DEF ExistsBijection
  <2> QED BY <2>3, <2>5, FS_Bijection
<1>7. payload_bits(HybridPlane) = n * 64 + 3 * 64 * k
  BY <1>2, <1>3, <1>5 DEF payload_bits
<1>8. /\ profile_accounting(n, P)["HybridW64Boolean"] = 64 * n + 3 * 64 * k
      /\ profile_accounting(n, P)["SparseW512"] = 512 * P
  BY DEF profile_accounting, ControlProfile
<1>9. P \in Nat
  BY PositionsAreSlots, InTierFinite, FS_Subset, FS_CardinalityType
<1> HIDE DEF n, k, P, W
<1>10. /\ 64 * n + 3 * 64 * k = n * 64 + 3 * 64 * k
       /\ 512 * P = 8 * 64 * P
  BY <1>1, <1>9
<1> QED BY <1>6, <1>7, <1>8, <1>10 DEF n, P

(* Following the advice settles, for every count of slots.                  *)
LEMMA AdviceAlwaysSettles ==
    ASSUME NEW bits \in [ControlProfile -> Nat], NEW current \in ControlProfile,
           payload_decision(bits, current) \in ControlProfile
    PROVE  /\ bits[payload_decision(bits, current)] < bits[current]
           /\ payload_decision(bits, payload_decision(bits, current)) = "hold"
<1> DEFINE least == minimum_payload_profiles(bits)
           next  == payload_decision(bits, current)
<1>1. "hold" \notin ControlProfile /\ "ambiguous" \notin ControlProfile
  BY DEF ControlProfile
<1>2. /\ current \notin least /\ Cardinality(least) = 1
      /\ next = CHOOSE c \in least : TRUE
  BY <1>1 DEF payload_decision
<1>3. least # {} BY <1>2, FS_EmptySet
<1>4. next \in least BY <1>2, <1>3
<1>5. payload_decision(bits, next) = "hold" BY <1>4 DEF payload_decision
<1>6. PICK d \in ControlProfile : ~(bits[current] <= bits[d])
  BY <1>2 DEF minimum_payload_profiles
<1>7. bits[next] <= bits[d] /\ next \in ControlProfile
  BY <1>4 DEF minimum_payload_profiles
<1> HIDE DEF next
<1>8. bits[next] < bits[current] BY <1>6, <1>7
<1> QED BY <1>5, <1>8 DEF next

LEMMA AdviceOK == AdviceSettles
<1> SUFFICES ASSUME NEW n \in AccountedCounts, NEW p \in 0 .. n,
                    NEW current \in ControlProfile,
                    payload_decision(profile_accounting(n, p), current)
                        \in ControlProfile
             PROVE  LET bits == profile_accounting(n, p)
                        next == payload_decision(bits, current)
                    IN /\ bits[next] < bits[current]
                       /\ payload_decision(bits, next) = "hold"
  BY DEF AdviceSettles
<1>1. n \in Nat /\ p \in Nat BY DEF AccountedCounts
<1>2. profile_accounting(n, p) \in [ControlProfile -> Nat]
  BY <1>1 DEF profile_accounting, ControlProfile
<1> QED BY <1>2, AdviceAlwaysSettles

LEMMA PublishedCapacity ==
    ASSUME VInv, NEW s \in PresentSlots, Tier(s) = "Warm"
    PROVE  CanPromote(s) <=> RESIDUAL_BYTES <= capacity_observation
<1>1. s \in Slots /\ slots[s] \in Slot /\ Shape(slots[s])
  BY PositionsAreSlots
<1>2. slots[s].warm_residual # NoPlane
  <2>1. slots[s] # Absent BY AbsentType DEF Tier
  <2>2. slots[s].warm_residual = slots[s].seq /\ slots[s].seq \in Nat
    BY <1>1, <2>1 DEF Shape, Slot, Tier
  <2> QED BY <2>2 DEF NoPlane
<1>3. resident \in Nat /\ hard \in Nat BY Types
<1> QED BY <1>2, <1>3 DEF CanPromote, FitsGrowth, capacity_observation,
           RESIDUAL_BYTES, TILE_BYTES, WARM_PACKED_BYTES

(* Between two calls the three control planes are accepted, say the same of *)
(* every position and have the accounted size, at any number of slots.      *)
THEOREM ControlPlanesExact == BridgeSpec => []ControlPlaneExact
<1>1. BridgeInv => ControlPlaneExact
  <2> SUFFICES ASSUME VInv PROVE ControlPlaneExact
    BY DEF BridgeInv
  <2>1. \A s \in Positions : PlanesAgree(s) BY AllPlanesAgree
  <2> QED BY <2>1, PlanesAccepted, PlaneSizes, AdviceOK, PublishedCapacity
             DEF ControlPlaneExact, PlanesAgree
<1> QED BY <1>1, BridgeInvAlways, PTL

=============================================================================
