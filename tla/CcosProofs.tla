----------------------------- MODULE CcosProofs -----------------------------
(* Proofs about the CCOS elastic cache and about the eviction journal that  *)
(* makes its evictions recoverable, for every value of the constants.       *)
EXTENDS Ccos, EventLog, SetLemmas, SequenceTheorems, TLAPS

-----------------------------------------------------------------------------
(* The footprint of an arena, as a function of its tiles and states, so     *)
(* that the lemmas below apply before and after a step.                     *)

StatesOf == {"Absent", "Hot", "Warm", "Cold"}

In(st, x) == {s \in Slots : st[s] = x}

Dropped(ti, st, codec) ==
    {s \in Slots : /\ st[s] \in {"Hot", "Warm"}
                   /\ ti[s].codec = codec
                   /\ "NOCORR" \in ti[s].flags}

FootprintOf(ti, st) ==
    HOT_BYTES * Cardinality(In(st, "Hot"))
        + WARM_BYTES * Cardinality(In(st, "Warm"))
        - 16 * Cardinality(Dropped(ti, st, "TQ3"))
        - 14 * Cardinality(Dropped(ti, st, "MIX3"))

BytesOf(ti, st, s) ==
    IF st[s] \in {"Hot", "Warm"} THEN TileBytes(ti[s], st[s]) ELSE 0

(* Footprint is FootprintOf, before and after a step.                       *)
LEMMA FootprintIs ==
    /\ Footprint = FootprintOf(tiles, state)
    /\ Footprint' = FootprintOf(tiles', state')
<1>1. /\ SlotsIn("Hot") = In(state, "Hot") /\ SlotsIn("Warm") = In(state, "Warm")
      /\ DroppedPlanes("TQ3") = Dropped(tiles, state, "TQ3")
      /\ DroppedPlanes("MIX3") = Dropped(tiles, state, "MIX3")
  BY DEF SlotsIn, In, DroppedPlanes, Dropped, LiveSlots, IsLive
<1>2. /\ SlotsIn("Hot")' = In(state', "Hot") /\ SlotsIn("Warm")' = In(state', "Warm")
      /\ DroppedPlanes("TQ3")' = Dropped(tiles', state', "TQ3")
      /\ DroppedPlanes("MIX3")' = Dropped(tiles', state', "MIX3")
  BY DEF SlotsIn, In, DroppedPlanes, Dropped, LiveSlots, IsLive
<1> QED BY <1>1, <1>2 DEF Footprint, FootprintOf, HOT_BYTES, WARM_BYTES

LEMMA SlotsFinite ==
    ASSUME NEW S \in SUBSET Slots
    PROVE  IsFiniteSet(S) /\ Cardinality(S) \in Nat
<1>1. IsFiniteSet(Slots)
  BY CcosAssumption, FS_Interval DEF Slots
<1> QED BY <1>1, FS_Subset, FS_CardinalityType

(* Two sets of slots that agree outside s differ in size by what s adds.    *)
LEMMA CardinalityAt ==
    ASSUME NEW S \in SUBSET Slots, NEW T \in SUBSET Slots, NEW s \in Slots,
           \A r \in Slots : r # s => (r \in S <=> r \in T)
    PROVE  Cardinality(S) - Ind(s, S) = Cardinality(T) - Ind(s, T)
  BY SlotsFinite, CardinalityChange

(* If four sizes change as their indicators do, so do the weighted sums.    *)
LEMMA WeightedSums ==
    ASSUME NEW h \in Int, NEW hh \in Int, NEW w \in Int, NEW ww \in Int,
           NEW q \in Int, NEW qq \in Int, NEW x \in Int, NEW xx \in Int,
           NEW ih \in Int, NEW ihh \in Int, NEW iw \in Int, NEW iww \in Int,
           NEW iq \in Int, NEW iqq \in Int, NEW ix \in Int, NEW ixx \in Int,
           h - ih = hh - ihh, w - iw = ww - iww,
           q - iq = qq - iqq, x - ix = xx - ixx
    PROVE  (128 * h + 96 * w - 16 * q - 14 * x)
               - (128 * ih + 96 * iw - 16 * iq - 14 * ix)
             = (128 * hh + 96 * ww - 16 * qq - 14 * xx)
               - (128 * ihh + 96 * iww - 16 * iqq - 14 * ixx)
  OBVIOUS

(* An arena that changes at one slot changes its footprint by the change of *)
(* that slot's bytes.                                                       *)
LEMMA FootprintAt ==
    ASSUME NEW ti \in [Slots -> Tile], NEW tj \in [Slots -> Tile],
           NEW st \in [Slots -> StatesOf], NEW su \in [Slots -> StatesOf],
           NEW s \in Slots,
           \A r \in Slots : r # s => ti[r] = tj[r] /\ st[r] = su[r]
    PROVE  FootprintOf(ti, st) - BytesOf(ti, st, s)
             = FootprintOf(tj, su) - BytesOf(tj, su, s)
<1> DEFINE h == In(st, "Hot")  hh == In(su, "Hot")
           w == In(st, "Warm") ww == In(su, "Warm")
           q == Dropped(ti, st, "TQ3")  qq == Dropped(tj, su, "TQ3")
           x == Dropped(ti, st, "MIX3") xx == Dropped(tj, su, "MIX3")
<1>1. Cardinality(h) - Ind(s, h) = Cardinality(hh) - Ind(s, hh)
  BY CardinalityAt DEF In
<1>2. Cardinality(w) - Ind(s, w) = Cardinality(ww) - Ind(s, ww)
  BY CardinalityAt DEF In
<1>3. Cardinality(q) - Ind(s, q) = Cardinality(qq) - Ind(s, qq)
  BY CardinalityAt DEF Dropped
<1>4. Cardinality(x) - Ind(s, x) = Cardinality(xx) - Ind(s, xx)
  BY CardinalityAt DEF Dropped
<1>5. /\ Cardinality(h) \in Nat /\ Cardinality(hh) \in Nat
      /\ Cardinality(w) \in Nat /\ Cardinality(ww) \in Nat
  BY SlotsFinite DEF In
<1>6. /\ Cardinality(q) \in Nat /\ Cardinality(qq) \in Nat
      /\ Cardinality(x) \in Nat /\ Cardinality(xx) \in Nat
  BY SlotsFinite DEF Dropped
<1>7. BytesOf(ti, st, s)
        = 128 * Ind(s, h) + 96 * Ind(s, w) - 16 * Ind(s, q) - 14 * Ind(s, x)
  BY DEF BytesOf, TileBytes, separable_corr_bytes, HOT_BYTES, WARM_BYTES,
         Ind, In, Dropped, Tile
<1>8. BytesOf(tj, su, s)
        = 128 * Ind(s, hh) + 96 * Ind(s, ww) - 16 * Ind(s, qq)
            - 14 * Ind(s, xx)
  BY DEF BytesOf, TileBytes, separable_corr_bytes, HOT_BYTES, WARM_BYTES,
         Ind, In, Dropped, Tile
<1>9. /\ Ind(s, h) \in Int /\ Ind(s, hh) \in Int
      /\ Ind(s, w) \in Int /\ Ind(s, ww) \in Int
      /\ Ind(s, q) \in Int /\ Ind(s, qq) \in Int
      /\ Ind(s, x) \in Int /\ Ind(s, xx) \in Int
  BY DEF Ind
<1> HIDE DEF h, hh, w, ww, q, qq, x, xx
<1>10. /\ FootprintOf(ti, st) = 128 * Cardinality(h) + 96 * Cardinality(w)
                                  - 16 * Cardinality(q) - 14 * Cardinality(x)
       /\ FootprintOf(tj, su) = 128 * Cardinality(hh) + 96 * Cardinality(ww)
                                  - 16 * Cardinality(qq) - 14 * Cardinality(xx)
  BY DEF FootprintOf, HOT_BYTES, WARM_BYTES, h, hh, w, ww, q, qq, x, xx
<1> QED
  BY <1>1, <1>2, <1>3, <1>4, <1>5, <1>6, <1>7, <1>8, <1>9, <1>10,
     WeightedSums

(* The footprint is a natural number: a slot gives back at most the plane   *)
(* of its own codec, and only while it is live.                             *)
LEMMA FootprintNat ==
    ASSUME NEW ti \in [Slots -> Tile], NEW st \in [Slots -> StatesOf]
    PROVE  FootprintOf(ti, st) \in Nat
<1> DEFINE h == In(st, "Hot") w == In(st, "Warm") l == h \cup w
           q == Dropped(ti, st, "TQ3") x == Dropped(ti, st, "MIX3")
<1>1. /\ h \in SUBSET Slots /\ w \in SUBSET Slots /\ l \in SUBSET Slots
      /\ q \in SUBSET Slots /\ x \in SUBSET Slots /\ q \cup x \in SUBSET Slots
  BY DEF In, Dropped
<1>2. /\ IsFiniteSet(h) /\ Cardinality(h) \in Nat
      /\ IsFiniteSet(w) /\ Cardinality(w) \in Nat
      /\ IsFiniteSet(l) /\ Cardinality(l) \in Nat
      /\ IsFiniteSet(q) /\ Cardinality(q) \in Nat
      /\ IsFiniteSet(x) /\ Cardinality(x) \in Nat
      /\ IsFiniteSet(q \cup x) /\ Cardinality(q \cup x) \in Nat
  BY <1>1, SlotsFinite
<1>3. /\ h \cap w = {} /\ q \cap x = {} /\ q \cup x \subseteq l
  BY DEF In, Dropped
<1> HIDE DEF h, w, q, x
<1>4. Cardinality(l) = Cardinality(h) + Cardinality(w)
  <2>1. Cardinality(h \cap w) = 0 BY <1>3, FS_EmptySet
  <2>2. Cardinality(h \cup w)
          = Cardinality(h) + Cardinality(w) - Cardinality(h \cap w)
    BY <1>2, FS_Union
  <2> QED BY <2>1, <2>2, <1>2
<1>5. Cardinality(q \cup x) = Cardinality(q) + Cardinality(x)
  <2>1. Cardinality(q \cap x) = 0 BY <1>3, FS_EmptySet
  <2>2. Cardinality(q \cup x)
          = Cardinality(q) + Cardinality(x) - Cardinality(q \cap x)
    BY <1>2, FS_Union
  <2> QED BY <2>1, <2>2, <1>2
<1>6. Cardinality(q \cup x) <= Cardinality(l)
  BY <1>2, <1>3, FS_Subset
<1>7. FootprintOf(ti, st) = 128 * Cardinality(h) + 96 * Cardinality(w)
                              - 16 * Cardinality(q) - 14 * Cardinality(x)
  BY DEF FootprintOf, HOT_BYTES, WARM_BYTES, h, w, q, x
<1> HIDE DEF l
<1> QED BY <1>2, <1>4, <1>5, <1>6, <1>7

-----------------------------------------------------------------------------
(* The operations on one slot.                                              *)

(* What every step that touches the arena must re-establish.                *)
ArenaOK ==
    /\ tiles \in [Slots -> Tile] /\ state \in [Slots -> StatesOf]
    /\ free \in Seq(Slots) /\ counter \in Nat
    /\ BytesExact /\ FreeIsCold

(* A step that changes one slot and moves the counter by the change of that *)
(* slot's bytes keeps the counter exact, and a natural number.              *)
LEMMA CounterAt ==
    ASSUME ArenaOK,
           tiles' \in [Slots -> Tile], state' \in [Slots -> StatesOf],
           NEW s \in Slots,
           \A r \in Slots : r # s => tiles[r] = tiles'[r] /\ state[r] = state'[r],
           counter' = counter - BytesOf(tiles, state, s)
                              + BytesOf(tiles', state', s)
    PROVE  BytesExact' /\ counter' \in Nat
<1>1. FootprintOf(tiles, state) - BytesOf(tiles, state, s)
        = FootprintOf(tiles', state') - BytesOf(tiles', state', s)
  BY FootprintAt DEF ArenaOK
<1>2. FootprintOf(tiles, state) \in Nat /\ FootprintOf(tiles', state') \in Nat
  BY FootprintNat DEF ArenaOK
<1>3. BytesOf(tiles, state, s) \in Int /\ BytesOf(tiles', state', s) \in Int
  BY DEF ArenaOK, BytesOf, TileBytes, separable_corr_bytes, HOT_BYTES,
         WARM_BYTES, Tile
<1>4. counter = FootprintOf(tiles, state)
  BY FootprintIs DEF ArenaOK, BytesExact
<1>5. counter' = FootprintOf(tiles', state')
  BY <1>1, <1>2, <1>3, <1>4
<1> QED BY <1>2, <1>5, FootprintIs DEF BytesExact

LEMMA WithFlagType ==
    ASSUME NEW t \in Tile, NEW f \in Flags
    PROVE  /\ WithFlag(t, f) \in Tile
           /\ WithFlag(t, f).codec = t.codec
           /\ WithFlag(t, f).flags = t.flags \cup {f}
  BY DEF WithFlag, Tile

LEMMA PageOutOK ==
    ASSUME ArenaOK, NEW s \in Slots, page_out(s), UNCHANGED free
    PROVE  ArenaOK'
<1>1. CASE state[s] # "Hot"
  <2>1. UNCHANGED <<tiles, state, counter, free>>
    BY <1>1 DEF page_out
  <2> QED BY <2>1 DEF ArenaOK, BytesExact, Footprint, FreeIsCold, SlotsIn,
            DroppedPlanes, LiveSlots, IsLive
<1>2. CASE state[s] = "Hot"
  <2>1. /\ tiles' = [tiles EXCEPT ![s] = WithFlag(tiles[s], "WARM")]
        /\ state' = [state EXCEPT ![s] = "Warm"]
        /\ counter' = counter - TileBytes(tiles[s], "Hot")
                              + TileBytes(tiles[s], "Warm")
    BY <1>2 DEF page_out
  <2>2. tiles' \in [Slots -> Tile] /\ state' \in [Slots -> StatesOf]
    BY <2>1, WithFlagType DEF ArenaOK, Flags, StatesOf
  <2>3. /\ BytesOf(tiles, state, s) = TileBytes(tiles[s], "Hot")
        /\ BytesOf(tiles', state', s) = TileBytes(tiles[s], "Warm")
    <3>1. /\ tiles'[s].codec = tiles[s].codec
          /\ tiles'[s].flags = tiles[s].flags \cup {"WARM"}
      BY <2>1, WithFlagType DEF ArenaOK, Flags
    <3>2. state'[s] = "Warm"
      BY <2>1 DEF ArenaOK
    <3> QED BY <1>2, <3>1, <3>2 DEF BytesOf, TileBytes, separable_corr_bytes
  <2>4. \A r \in Slots : r # s => tiles[r] = tiles'[r] /\ state[r] = state'[r]
    BY <2>1 DEF ArenaOK
  <2>5. BytesExact' /\ counter' \in Nat
    BY <2>1, <2>2, <2>3, <2>4, CounterAt
  <2>6. FreeIsCold'
    BY <1>2, <2>1 DEF ArenaOK, FreeIsCold, SlotsIn
  <2> QED BY <2>2, <2>5, <2>6 DEF ArenaOK
<1> QED BY <1>1, <1>2

LEMMA DropCorrectionOK ==
    ASSUME ArenaOK, NEW s \in Slots, drop_correction(s), UNCHANGED <<free, state>>
    PROVE  ArenaOK'
<1>1. CASE ~(IsLive(s) /\ HasPlane(tiles[s]))
  <2>1. UNCHANGED <<tiles, state, counter, free>>
    BY <1>1 DEF drop_correction
  <2> QED BY <2>1 DEF ArenaOK, BytesExact, Footprint, FreeIsCold, SlotsIn,
            DroppedPlanes, LiveSlots, IsLive
<1>2. CASE IsLive(s) /\ HasPlane(tiles[s])
  <2>1. /\ tiles' = [tiles EXCEPT ![s] = WithFlag(tiles[s], "NOCORR")]
        /\ counter' = counter - separable_corr_bytes(tiles[s])
    BY <1>2 DEF drop_correction
  <2>2. tiles' \in [Slots -> Tile] /\ state' \in [Slots -> StatesOf]
    BY <2>1, WithFlagType DEF ArenaOK, Flags, StatesOf
  <2>3. BytesOf(tiles', state', s)
          = BytesOf(tiles, state, s) - separable_corr_bytes(tiles[s])
    <3>1. /\ tiles'[s].codec = tiles[s].codec
          /\ tiles'[s].flags = tiles[s].flags \cup {"NOCORR"}
      BY <2>1, WithFlagType DEF ArenaOK, Flags
    <3> QED BY <1>2, <3>1 DEF BytesOf, TileBytes, separable_corr_bytes, IsLive,
              HasPlane, HOT_BYTES, WARM_BYTES
  <2>4. \A r \in Slots : r # s => tiles[r] = tiles'[r] /\ state[r] = state'[r]
    BY <2>1 DEF ArenaOK
  <2>5. /\ BytesOf(tiles, state, s) \in Int
        /\ separable_corr_bytes(tiles[s]) \in Int
    BY DEF ArenaOK, BytesOf, TileBytes, separable_corr_bytes, HOT_BYTES,
           WARM_BYTES
  <2>6. counter' = counter - BytesOf(tiles, state, s)
                           + BytesOf(tiles', state', s)
    BY <2>1, <2>3, <2>5 DEF ArenaOK
  <2>7. BytesExact' /\ counter' \in Nat
    BY <2>2, <2>4, <2>6, CounterAt
  <2>8. FreeIsCold'
    BY DEF ArenaOK, FreeIsCold, SlotsIn
  <2> QED BY <2>2, <2>7, <2>8 DEF ArenaOK
<1> QED BY <1>1, <1>2

LEMMA EvictOK ==
    ASSUME ArenaOK, NEW s \in Slots, evict(s), UNCHANGED tiles
    PROVE  ArenaOK'
<1>1. CASE UNCHANGED <<state, free, counter>>
  BY <1>1 DEF ArenaOK, BytesExact, Footprint, FreeIsCold, SlotsIn,
     DroppedPlanes, LiveSlots, IsLive
<1>2. CASE /\ IsLive(s)
           /\ counter' = counter - slot_live_bytes(s)
           /\ state' = [state EXCEPT ![s] = "Cold"]
           /\ free' = Append(free, s)
  <2>1. /\ tiles' \in [Slots -> Tile] /\ state' \in [Slots -> StatesOf]
        /\ free' \in Seq(Slots)
    BY <1>2 DEF ArenaOK, StatesOf
  <2>2. /\ BytesOf(tiles, state, s) = slot_live_bytes(s)
        /\ BytesOf(tiles', state', s) = 0
    BY <1>2 DEF ArenaOK, BytesOf, slot_live_bytes, IsLive
  <2>3. slot_live_bytes(s) \in Int
    BY DEF ArenaOK, slot_live_bytes, TileBytes, separable_corr_bytes,
           HOT_BYTES, WARM_BYTES
  <2>4. counter' = counter - BytesOf(tiles, state, s)
                           + BytesOf(tiles', state', s)
    BY <1>2, <2>2, <2>3 DEF ArenaOK
  <2>5. \A r \in Slots : r # s => tiles[r] = tiles'[r] /\ state[r] = state'[r]
    BY <1>2 DEF ArenaOK
  <2>6. BytesExact' /\ counter' \in Nat
    BY <2>1, <2>4, <2>5, CounterAt
  <2>7. FreeIsCold'
    <3>1. /\ Len(free') = Len(free) + 1 /\ Len(free) \in Nat
          /\ \A i \in 1 .. Len(free) : free'[i] = free[i] /\ free[i] \in Slots
          /\ free'[Len(free) + 1] = s
      BY <1>2 DEF ArenaOK
    <3>2. \A i \in 1 .. Len(free) : free[i] # s
      BY <1>2 DEF ArenaOK, FreeIsCold, IsLive
    <3>3. \A i \in 1 .. Len(free') : state'[free'[i]] = "Cold"
      BY <1>2, <3>1 DEF ArenaOK, FreeIsCold
    <3>4. \A i, j \in 1 .. Len(free') : free'[i] = free'[j] => i = j
      BY <3>1, <3>2 DEF ArenaOK, FreeIsCold
    <3>5. \A r \in SlotsIn("Cold")' : \E i \in 1 .. Len(free') : free'[i] = r
      <4> SUFFICES ASSUME NEW r \in Slots, state'[r] = "Cold"
                   PROVE  \E i \in 1 .. Len(free') : free'[i] = r
        BY DEF SlotsIn
      <4>1. CASE r = s
        BY <4>1, <3>1
      <4>2. CASE r # s
        <5>1. r \in SlotsIn("Cold")
          BY <4>2, <1>2 DEF SlotsIn, ArenaOK
        <5>2. PICK i \in 1 .. Len(free) : free[i] = r
          BY <5>1 DEF ArenaOK, FreeIsCold
        <5> QED BY <5>2, <3>1
      <4> QED BY <4>1, <4>2
    <3> QED BY <3>3, <3>4, <3>5 DEF FreeIsCold
  <2> QED BY <2>1, <2>6, <2>7 DEF ArenaOK
<1> QED BY <1>1, <1>2 DEF evict, evict_answered

LEMMA InsertOK ==
    ASSUME ArenaOK, NEW t \in Tile, NEW x \in {"Hot", "Warm"},
           insert_with_state(t, x)
    PROVE  ArenaOK'
<1>1. PICK s \in Slots : /\ NextSlot(s)
                         /\ tiles' = [tiles EXCEPT ![s] = t]
                         /\ state' = [state EXCEPT ![s] = x]
  BY DEF insert_with_state
<1>2. /\ free' = FreeAfterInsert
      /\ counter' = counter + TileBytes(t, x)
  BY DEF insert_with_state
<1>3. Len(free) \in Nat /\ (free # <<>> => Len(free) > 0)
  BY DEF ArenaOK
<1>4. state[s] \in {"Absent", "Cold"}
  BY <1>1, <1>3 DEF NextSlot, ArenaOK, FreeIsCold
<1>5. /\ tiles' \in [Slots -> Tile] /\ state' \in [Slots -> StatesOf]
      /\ free' \in Seq(Slots)
  BY <1>1, <1>2, <1>3 DEF ArenaOK, StatesOf, FreeAfterInsert
<1>6. /\ BytesOf(tiles, state, s) = 0
      /\ BytesOf(tiles', state', s) = TileBytes(t, x)
  BY <1>1, <1>4 DEF ArenaOK, BytesOf
<1>7. TileBytes(t, x) \in Int
  BY DEF TileBytes, separable_corr_bytes, HOT_BYTES, WARM_BYTES
<1>8. \A r \in Slots : r # s => tiles[r] = tiles'[r] /\ state[r] = state'[r]
  BY <1>1 DEF ArenaOK
<1>9. BytesExact' /\ counter' \in Nat
  BY <1>2, <1>5, <1>6, <1>7, <1>8, CounterAt DEF ArenaOK
<1>10. FreeIsCold'
  <2>1. CASE free = <<>>
    <3>1. free' = <<>>
      BY <2>1, <1>2 DEF FreeAfterInsert
    <3>2. SlotsIn("Cold") = {}
      BY <2>1 DEF ArenaOK, FreeIsCold
    <3>3. SlotsIn("Cold")' = {}
      BY <3>2, <1>1, <1>8 DEF SlotsIn, ArenaOK
    <3> QED BY <3>1, <3>3 DEF FreeIsCold
  <2>2. CASE free # <<>>
    <3> DEFINE n == Len(free)
    <3>1. /\ Len(free') = n - 1 /\ n \in Nat /\ n > 0
          /\ \A i \in 1 .. n - 1 : free'[i] = free[i] /\ free[i] \in Slots
      <4>1. n \in Nat /\ n > 0 /\ free \in Seq(Slots)
        BY <2>2, <1>3 DEF ArenaOK
      <4>2. free' = SubSeq(free, 1, n - 1)
        BY <2>2, <1>2 DEF FreeAfterInsert
      <4>3. 1 \in 1 .. Len(free) + 1 /\ n - 1 \in 1 - 1 .. Len(free)
        BY <4>1
      <4>4. Len(SubSeq(free, 1, n - 1)) = IF 1 <= n - 1 THEN n - 1 - 1 + 1 ELSE 0
        BY <4>1, <4>3, SubSeqProperties
      <4>5. \A i \in 1 .. n - 1 : SubSeq(free, 1, n - 1)[i] = free[i]
        BY <4>1
      <4>6. \A i \in 1 .. n - 1 : free[i] \in Slots
        BY <4>1
      <4> HIDE DEF n
      <4> QED BY <4>1, <4>2, <4>4, <4>5, <4>6
    <3>2. s = free[n]
      BY <2>2, <1>1 DEF NextSlot
    <3> HIDE DEF n
    <3>3. /\ \A i \in 1 .. n : state[free[i]] = "Cold"
          /\ \A i, j \in 1 .. n : free[i] = free[j] => i = j
          /\ \A r \in SlotsIn("Cold") : \E i \in 1 .. n : free[i] = r
      BY DEF ArenaOK, FreeIsCold, n
    <3>4. \A i \in 1 .. n - 1 : free[i] # s
      BY <3>1, <3>2, <3>3
    <3>5. \A i \in 1 .. Len(free') : state'[free'[i]] = "Cold"
      BY <3>1, <3>3, <3>4, <1>8
    <3>6. \A i, j \in 1 .. Len(free') : free'[i] = free'[j] => i = j
      BY <3>1, <3>3
    <3>7. \A r \in SlotsIn("Cold")' : \E i \in 1 .. Len(free') : free'[i] = r
      <4> SUFFICES ASSUME NEW r \in Slots, state'[r] = "Cold"
                   PROVE  \E i \in 1 .. Len(free') : free'[i] = r
        BY DEF SlotsIn
      <4>1. r # s
        BY <1>1 DEF ArenaOK
      <4>2. r \in SlotsIn("Cold")
        BY <4>1, <1>8 DEF SlotsIn
      <4>3. PICK i \in 1 .. n : free[i] = r
        BY <4>2, <3>3
      <4>4. i # n
        BY <4>1, <4>3, <3>2
      <4> QED BY <4>3, <4>4, <3>1
    <3> QED BY <3>5, <3>6, <3>7 DEF FreeIsCold
  <2> QED BY <2>1, <2>2
<1> QED BY <1>5, <1>9, <1>10 DEF ArenaOK

-----------------------------------------------------------------------------
(* The counter and the recycling stack: an inductive invariant.             *)

BytesInv == TypeOK /\ BytesExact /\ FreeIsCold

(* The part of TypeOK that no arena operation touches.                      *)
RestOK ==
    /\ seq \in [Slots -> Nat] /\ importance \in [Slots -> Nat]
    /\ budget \in Nat /\ policy \in PageOutPolicy
    /\ eviction \in EvictionPolicy
    /\ next_seq \in Nat
    /\ attached \in BOOLEAN /\ log \in Seq(Record)
    /\ durability \in EvictionDurability
    /\ log_errors \in Nat /\ blocked \in Nat
    /\ pc \in Phases /\ todo \subseteq Slots
    /\ ret \in {"none", "true", "false"}
    /\ owed \subseteq Nat

LEMMA BytesInvSplit ==
    /\ BytesInv <=> ArenaOK /\ RestOK
    /\ BytesInv' <=> ArenaOK' /\ RestOK'
  BY DEF BytesInv, ArenaOK, RestOK, TypeOK, StatesOf

LEMMA ArenaUnchanged ==
    ASSUME ArenaOK, UNCHANGED <<tiles, state, free, counter>>
    PROVE  ArenaOK'
  BY DEF ArenaOK, BytesExact, Footprint, FreeIsCold, SlotsIn,
     DroppedPlanes, LiveSlots, IsLive

LEMMA LogType ==
    ASSUME TypeOK, NEW s \in Slots, evict(s)
    PROVE  log' \in Seq(Record) /\ log_errors' \in Nat /\ blocked' \in Nat
<1>1. [seq |-> seq[s], slot |-> s, tile |-> tiles[s]] \in Record
  BY CcosAssumption DEF TypeOK, Record, Slots
<1>2. CASE ~IsLive(s)
  BY <1>2 DEF TypeOK, evict
<1>3. ASSUME NEW a \in LogAnswers, evict_answered(s, a)
      PROVE  log' \in Seq(Record) /\ log_errors' \in Nat /\ blocked' \in Nat
  <2>1. log' \in Seq(Record)
    BY <1>1, <1>3 DEF TypeOK, evict_answered
  <2>2. log_errors' \in Nat
    BY <1>3 DEF TypeOK, evict_answered, ErrorsAfter
  <2>3. blocked' \in Nat
    BY <1>3 DEF TypeOK, evict_answered
  <2> QED BY <2>1, <2>2, <2>3
<1> QED BY <1>2, <1>3 DEF evict

LEMMA BytesInvInit == Init => BytesInv
<1> SUFFICES ASSUME Init PROVE BytesInv
  OBVIOUS
<1>1. TypeOK
  <2>1. EmptyTile \in Tile
    BY DEF EmptyTile, Tile
  <2>2. tiles \in [Slots -> Tile] /\ state \in [Slots -> StatesOf]
    BY <2>1 DEF Init, StatesOf
  <2>3. seq \in [Slots -> Nat] /\ importance \in [Slots -> Nat]
    BY DEF Init
  <2>4. budget \in Nat /\ policy \in PageOutPolicy /\ eviction \in EvictionPolicy
    BY CcosAssumption DEF Init
  <2>5. free \in Seq(Slots) /\ log \in Seq(Record)
    BY DEF Init
  <2>6. /\ attached \in BOOLEAN /\ durability \in EvictionDurability
        /\ pc \in Phases /\ todo \subseteq Slots /\ owed \subseteq Nat
        /\ ret \in {"none", "true", "false"}
        /\ counter \in Nat /\ next_seq \in Nat
        /\ log_errors \in Nat /\ blocked \in Nat
    BY DEF Init, EvictionDurability, Phases
  <2> QED BY <2>2, <2>3, <2>4, <2>5, <2>6 DEF TypeOK, StatesOf
<1>2. FreeIsCold
  BY DEF Init, FreeIsCold, SlotsIn
<1>3. /\ SlotsIn("Hot") = {} /\ SlotsIn("Warm") = {}
      /\ DroppedPlanes("TQ3") = {} /\ DroppedPlanes("MIX3") = {}
  BY DEF Init, SlotsIn, DroppedPlanes, LiveSlots, IsLive
<1>4. Cardinality({}) = 0
  BY FS_EmptySet
<1>5. Footprint = 0
  BY <1>3, <1>4 DEF Footprint, HOT_BYTES, WARM_BYTES
<1>6. BytesExact
  BY <1>5 DEF Init, BytesExact
<1> QED BY <1>1, <1>2, <1>6 DEF BytesInv

LEMMA BytesInvStep == BytesInv /\ [Next]_vars => BytesInv'
<1> SUFFICES ASSUME BytesInv, [Next]_vars PROVE BytesInv'
  OBVIOUS
<1>0. ArenaOK /\ RestOK /\ TypeOK
  BY BytesInvSplit DEF BytesInv
<1>1. ASSUME NEW d \in Durabilities, NEW l \in PriorLogs, Attach(d, l)
      PROVE  BytesInv'
  <2>1. ArenaOK' BY <1>0, <1>1, ArenaUnchanged DEF Attach, arenaVars
  <2>2. RestOK'
    BY <1>0, <1>1, CcosAssumption DEF Attach, RestOK, TypeOK, LiveSlots,
       arenaVars, configVars
  <2> QED BY <2>1, <2>2, BytesInvSplit
<1>2. ASSUME NEW t \in Tile, NEW x \in {"Hot", "Warm"}, Idle,
             insert_with_state(t, x)
      PROVE  BytesInv'
  <2>1. ArenaOK' BY <1>0, <1>2, InsertOK
  <2>2. RestOK'
    BY <1>0, <1>2 DEF insert_with_state, RestOK, configVars, logVars
  <2> QED BY <2>1, <2>2, BytesInvSplit
<1>3. ASSUME NEW t \in TileInputs, Insert(t) PROVE BytesInv'
  BY <1>2, <1>3, CcosAssumption DEF Insert, EncodedState
<1>4. ASSUME NEW q \in 0 .. MaxSeq, Rehydrate(q) PROVE BytesInv'
  <2>1. PICK i \in 1 .. Len(log) :
          insert_with_state(log[i].tile, EncodedState(log[i].tile))
    BY <1>4 DEF Rehydrate
  <2>2. log[i].tile \in Tile /\ EncodedState(log[i].tile) \in {"Hot", "Warm"}
    <3>1. log[i] \in Record BY <1>0 DEF RestOK
    <3> QED BY <3>1 DEF Record, EncodedState
  <2> QED BY <2>1, <2>2, <1>2, <1>4 DEF Rehydrate
<1>5. ASSUME NEW a \in Slots, NEW b \in Slots, observe_scores(a, b)
      PROVE  BytesInv'
  <2>1. ArenaOK' BY <1>0, <1>5, ArenaUnchanged DEF observe_scores
  <2>2. RestOK'
    BY <1>0, <1>5 DEF observe_scores, RestOK, configVars, logVars, MassUnits
  <2> QED BY <2>1, <2>2, BytesInvSplit
<1>6. ASSUME NEW s \in Slots, PageOut(s) PROVE BytesInv'
  <2>1. ArenaOK' BY <1>0, <1>6, PageOutOK DEF PageOut
  <2>2. RestOK' BY <1>0, <1>6 DEF PageOut, RestOK, configVars, logVars
  <2> QED BY <2>1, <2>2, BytesInvSplit
<1>7. ASSUME NEW s \in Slots, DropCorrection(s) PROVE BytesInv'
  <2>1. ArenaOK' BY <1>0, <1>7, DropCorrectionOK DEF DropCorrection
  <2>2. RestOK' BY <1>0, <1>7 DEF DropCorrection, RestOK, configVars, logVars
  <2> QED BY <2>1, <2>2, BytesInvSplit
<1>8. ASSUME NEW s \in Slots, Evict(s) PROVE BytesInv'
  <2>1. ArenaOK' BY <1>0, <1>8, EvictOK DEF Evict
  <2>2. log' \in Seq(Record) /\ log_errors' \in Nat /\ blocked' \in Nat
    BY <1>0, <1>8, LogType DEF Evict
  <2>3. RestOK' BY <1>0, <1>8, <2>2 DEF Evict, RestOK, configVars
  <2> QED BY <2>1, <2>3, BytesInvSplit
<1>9. CASE EnforceBudget \/ EnforceReturn \/ NextPhase \/ EnforceEnd
  <2>1. ArenaOK'
    BY <1>0, <1>9, ArenaUnchanged DEF EnforceBudget, EnforceReturn, NextPhase,
       EnforceEnd, arenaVars
  <2>2. /\ pc' \in Phases /\ todo' \subseteq Slots
        /\ ret' \in {"none", "true", "false"}
    BY <1>0, <1>9 DEF RestOK, EnforceBudget, EnforceReturn, NextPhase,
       EnforceEnd, Return, Phases, PhaseAfter, SlotsOf, SlotsIn, LiveSlots
  <2>3. RestOK'
    BY <1>0, <1>9, <2>2 DEF RestOK, EnforceBudget, EnforceReturn, NextPhase,
       EnforceEnd, arenaVars, configVars, logVars
  <2> QED BY <2>1, <2>3, BytesInvSplit
<1>10. ASSUME NEW s \in Slots, NEW phase \in {"dropHot", "dropWarm"},
              EnforceDrop(phase, s)
       PROVE  BytesInv'
  <2>1. ArenaOK' BY <1>0, <1>10, DropCorrectionOK DEF EnforceDrop
  <2>2. RestOK'
    BY <1>0, <1>10 DEF EnforceDrop, LoopBody, RestOK, configVars, logVars
  <2> QED BY <2>1, <2>2, BytesInvSplit
<1>11. ASSUME NEW s \in Slots, EnforcePage(s) PROVE BytesInv'
  <2>1. ArenaOK' BY <1>0, <1>11, PageOutOK DEF EnforcePage
  <2>2. RestOK'
    BY <1>0, <1>11 DEF EnforcePage, LoopBody, RestOK, configVars, logVars
  <2> QED BY <2>1, <2>2, BytesInvSplit
<1>12. ASSUME NEW s \in Slots, EnforceEvict(s) PROVE BytesInv'
  <2>1. ArenaOK' BY <1>0, <1>12, EvictOK DEF EnforceEvict
  <2>2. log' \in Seq(Record) /\ log_errors' \in Nat /\ blocked' \in Nat
    BY <1>0, <1>12, LogType DEF EnforceEvict
  <2>3. RestOK'
    BY <1>0, <1>12, <2>2 DEF EnforceEvict, LoopBody, RestOK, configVars
  <2> QED BY <2>1, <2>3, BytesInvSplit
<1>13. CASE UNCHANGED vars
  <2>1. ArenaOK' BY <1>0, <1>13, ArenaUnchanged DEF vars, arenaVars
  <2>2. RestOK'
    BY <1>0, <1>13 DEF vars, arenaVars, configVars, logVars, loopVars, RestOK
  <2> QED BY <2>1, <2>2, BytesInvSplit
<1> QED
  BY <1>1, <1>3, <1>4, <1>5, <1>6, <1>7, <1>8, <1>9, <1>10, <1>11, <1>12,
     <1>13 DEF Next, EnforceStep

(* Type correctness of the cache; in particular no subtraction from the     *)
(* byte counter underflows.                                                 *)
THEOREM TypeCorrect == Spec => []TypeOK
<1>1. BytesInv => TypeOK BY DEF BytesInv
<1> QED BY <1>1, BytesInvInit, BytesInvStep, PTL DEF Spec

(* The running counter is the footprint of the live tiles in every          *)
(* reachable state, for any arena, budget, policy and log behaviour.        *)
THEOREM CounterExact == Spec => []BytesExact
<1>1. BytesInv => BytesExact BY DEF BytesInv
<1> QED BY <1>1, BytesInvInit, BytesInvStep, PTL DEF Spec

(* The recycling stack is exactly the set of COLD slots, without repeats.   *)
THEOREM FreeExact == Spec => []FreeIsCold
<1>1. BytesInv => FreeIsCold BY DEF BytesInv
<1> QED BY <1>1, BytesInvInit, BytesInvStep, PTL DEF Spec

-----------------------------------------------------------------------------
(* The phases of enforce_budget.                                            *)

LEMMA PlaneAfter ==
    ASSUME NEW t \in Tile
    PROVE  /\ HasPlane(WithFlag(t, "WARM")) <=> HasPlane(t)
           /\ ~HasPlane(WithFlag(t, "NOCORR"))
           /\ EncodedState(WithFlag(t, "WARM")) = "Warm"
           /\ EncodedState(WithFlag(t, "NOCORR")) = EncodedState(t)
  BY WithFlagType DEF HasPlane, separable_corr_bytes, Flags, EncodedState

(* Every operation keeps the state a tile encodes and the state of its slot *)
(* together.                                                                *)
LEMMA StateMatchesStep ==
    BytesInv /\ StateMatchesTile /\ [Next]_vars => StateMatchesTile'
<1> SUFFICES ASSUME BytesInv, StateMatchesTile, [Next]_vars
             PROVE  StateMatchesTile'
  OBVIOUS
<1>0. /\ tiles \in [Slots -> Tile] /\ state \in [Slots -> StatesOf]
      /\ \A s \in Slots : state[s] \in {"Hot", "Warm"} =>
                            state[s] = EncodedState(tiles[s])
  BY DEF BytesInv, TypeOK, StatesOf, StateMatchesTile, LiveSlots, IsLive
<1>1. ASSUME \A s \in Slots : state'[s] \in {"Hot", "Warm"} =>
                              state'[s] = EncodedState(tiles'[s])
      PROVE  StateMatchesTile'
  BY <1>1 DEF StateMatchesTile, LiveSlots, IsLive, EncodedState
<1>2. ASSUME NEW t, insert_with_state(t, EncodedState(t))
      PROVE  StateMatchesTile'
  BY <1>0, <1>1, <1>2 DEF insert_with_state
<1>3. ASSUME NEW s \in Slots, page_out(s) PROVE StateMatchesTile'
  <2>1. CASE state[s] # "Hot" BY <1>0, <1>1, <1>3, <2>1 DEF page_out
  <2>2. CASE state[s] = "Hot"
    <3>1. /\ tiles' = [tiles EXCEPT ![s] = WithFlag(tiles[s], "WARM")]
          /\ state' = [state EXCEPT ![s] = "Warm"]
      BY <1>3, <2>2 DEF page_out
    <3> QED BY <1>0, <1>1, <3>1, PlaneAfter
  <2> QED BY <2>1, <2>2
<1>4. ASSUME NEW s \in Slots, drop_correction(s), UNCHANGED state
      PROVE  StateMatchesTile'
  <2>1. CASE UNCHANGED tiles BY <1>0, <1>1, <1>4, <2>1
  <2>2. CASE tiles' = [tiles EXCEPT ![s] = WithFlag(tiles[s], "NOCORR")]
    BY <1>0, <1>1, <1>4, <2>2, PlaneAfter
  <2> QED BY <1>4, <2>1, <2>2 DEF drop_correction
<1>5. ASSUME NEW s \in Slots, evict(s), UNCHANGED tiles
      PROVE  StateMatchesTile'
  <2>1. state' = state \/ state' = [state EXCEPT ![s] = "Cold"]
    BY <1>5 DEF evict, evict_answered
  <2> QED BY <1>0, <1>1, <1>5, <2>1
<1>6. CASE UNCHANGED <<tiles, state>>
  BY <1>0, <1>1, <1>6
<1> QED
  BY <1>2, <1>3, <1>4, <1>5, <1>6
  DEF Next, Attach, Insert, Rehydrate, observe_scores, PageOut,
      DropCorrection, Evict, EnforceBudget, EnforceStep, EnforceReturn,
      EnforceDrop, EnforcePage, EnforceEvict, NextPhase, EnforceEnd,
      arenaVars, vars

(* A cache whose footprint is positive has a live tile.                     *)
LEMMA PositiveIsLive ==
    ASSUME LiveSlots = {} PROVE Footprint = 0
<1>1. /\ SlotsIn("Hot") = {} /\ SlotsIn("Warm") = {}
      /\ DroppedPlanes("TQ3") = {} /\ DroppedPlanes("MIX3") = {}
  BY DEF SlotsIn, DroppedPlanes, LiveSlots, IsLive
<1>2. Cardinality({}) = 0
  BY FS_EmptySet
<1> QED BY <1>1, <1>2 DEF Footprint, HOT_BYTES, WARM_BYTES

PhasesInv == PhaseInv /\ EnforceMeetsBudget /\ EnforceFailsOnlyBlocked

(* A step that leaves enforce_budget idle and reports no result.            *)
LEMMA QuietStep ==
    ASSUME pc' = "idle", todo' = {}, ret' = "none" PROVE PhasesInv'
  BY DEF PhasesInv, PhaseInv, EnforceMeetsBudget, EnforceFailsOnlyBlocked

LEMMA PhasesStep ==
    BytesInv /\ BytesInv' /\ PhasesInv /\ [Next]_vars => PhasesInv'
<1> SUFFICES ASSUME BytesInv, BytesInv', PhasesInv, [Next]_vars
             PROVE  PhasesInv'
  OBVIOUS
<1>0. /\ tiles \in [Slots -> Tile] /\ state \in [Slots -> StatesOf]
      /\ counter \in Nat /\ budget \in Nat /\ blocked \in Nat
      /\ pc \in Phases /\ todo \subseteq Slots
  BY DEF BytesInv, TypeOK, StatesOf
<1>1. CASE \/ \E d \in Durabilities, l \in PriorLogs : Attach(d, l)
           \/ \E t \in TileInputs : Insert(t)
           \/ \E q \in 0 .. MaxSeq : Rehydrate(q)
           \/ \E a, b \in Slots : observe_scores(a, b)
           \/ \E s \in Slots : PageOut(s) \/ DropCorrection(s) \/ Evict(s)
  <2>1. pc = "idle" /\ pc' = pc /\ todo' = todo /\ ret' = "none"
    BY <1>1 DEF Attach, Insert, Rehydrate, insert_with_state, observe_scores,
       PageOut, DropCorrection, Evict, Idle
  <2> QED BY <2>1, QuietStep DEF PhasesInv, PhaseInv
<1>2. ASSUME pc' = "idle", todo' = {}, ret' = "true", WithinBudget,
             UNCHANGED <<counter, budget>>
      PROVE  PhasesInv'
  <2>1. Footprint' <= budget'
    BY <1>2 DEF WithinBudget, BytesInv, BytesExact
  <2> QED BY <1>2, <2>1 DEF PhasesInv, PhaseInv, EnforceMeetsBudget,
            EnforceFailsOnlyBlocked
<1>3. CASE EnforceBudget
  <2>1. CASE WithinBudget
    BY <1>2, <1>3, <2>1 DEF EnforceBudget, Return, configVars
  <2>2. CASE ~WithinBudget
    <3>1. /\ pc' = "dropHot" /\ todo' = SlotsIn("Hot") /\ ret' = "none"
          /\ state' = state
      BY <1>3, <2>2 DEF EnforceBudget, arenaVars
    <3>2. SlotsIn("Hot")' = SlotsIn("Hot")
      BY <3>1 DEF SlotsIn
    <3> QED BY <3>1, <3>2 DEF PhasesInv, PhaseInv, EnforceMeetsBudget,
              EnforceFailsOnlyBlocked
  <2> QED BY <2>1, <2>2
<1>4. CASE EnforceReturn
  BY <1>2, <1>4 DEF EnforceReturn, Return, configVars
<1>5. CASE EnforceEnd
  <2>1. CASE WithinBudget
    BY <1>2, <1>5, <2>1 DEF EnforceEnd, Return, configVars
  <2>2. CASE ~WithinBudget
    <3>1. /\ pc = "evict" /\ todo = {} /\ pc' = "idle" /\ todo' = {}
          /\ ret' = "false"
          /\ UNCHANGED <<tiles, state, durability, blocked>>
      BY <1>5, <2>2 DEF EnforceEnd, Return, arenaVars, logVars
    <3>2. LiveSlots # {}
      <4>1. Footprint > 0
        BY <1>0, <2>2 DEF WithinBudget, BytesInv, BytesExact
      <4> QED BY <4>1, PositiveIsLive
    <3>3. /\ \A s \in LiveSlots : state[s] = "Warm" /\ ~HasPlane(tiles[s])
          /\ durability = "RequireDurable" /\ blocked > 0
      BY <3>1, <3>2 DEF PhasesInv, PhaseInv
    <3>4. LiveSlots' = LiveSlots
      BY <3>1 DEF LiveSlots, IsLive
    <3> QED BY <3>1, <3>2, <3>3, <3>4 DEF PhasesInv, PhaseInv,
              EnforceMeetsBudget, EnforceFailsOnlyBlocked, HasPlane
  <2> QED BY <2>1, <2>2
<1>6. CASE NextPhase
  <2>1. /\ todo = {} /\ ret' = ret /\ UNCHANGED <<tiles, state>>
        /\ \/ pc = "dropHot" /\ pc' = "page" /\ todo' = SlotsIn("Hot")
           \/ pc = "page" /\ pc' = "dropWarm" /\ todo' = SlotsIn("Warm")
           \/ pc = "dropWarm" /\ pc' = "evict" /\ todo' = LiveSlots
    BY <1>6 DEF NextPhase, PhaseAfter, SlotsOf, arenaVars
  <2>2. /\ SlotsIn("Hot")' = SlotsIn("Hot") /\ SlotsIn("Warm")' = SlotsIn("Warm")
        /\ LiveSlots' = LiveSlots
    BY <2>1 DEF SlotsIn, LiveSlots, IsLive
  <2>3. \A s \in LiveSlots : s \in SlotsIn("Hot") \/ s \in SlotsIn("Warm")
    BY DEF LiveSlots, SlotsIn, IsLive
  <2>4. PhaseInv'
    <3>0. ret' = "none"
      BY <2>1 DEF PhasesInv, PhaseInv
    <3>1. CASE pc = "dropHot"
      <4>1. \A s \in SlotsIn("Hot") : ~HasPlane(tiles[s])
        BY <2>1, <3>1 DEF PhasesInv, PhaseInv
      <4> QED BY <2>1, <2>2, <3>0, <3>1, <4>1 DEF PhaseInv, HasPlane
    <3>2. CASE pc = "page"
      <4>1. SlotsIn("Hot") = {}
        BY <2>1, <3>2 DEF PhasesInv, PhaseInv
      <4> QED BY <2>1, <2>2, <3>0, <3>2, <4>1 DEF PhaseInv, HasPlane
    <3>3. CASE pc = "dropWarm"
      <4>1. /\ SlotsIn("Hot") = {}
            /\ \A s \in SlotsIn("Warm") : ~HasPlane(tiles[s])
        BY <2>1, <3>3 DEF PhasesInv, PhaseInv
      <4>2. \A s \in LiveSlots : state[s] = "Warm" /\ ~HasPlane(tiles[s])
        BY <2>3, <4>1 DEF SlotsIn
      <4> QED BY <2>1, <2>2, <3>0, <3>3, <4>2 DEF PhaseInv, HasPlane
    <3> QED BY <2>1, <3>1, <3>2, <3>3
  <2> QED BY <2>1, <2>4 DEF PhasesInv, PhaseInv, EnforceMeetsBudget,
            EnforceFailsOnlyBlocked
<1>7. ASSUME NEW s \in Slots, NEW phase \in {"dropHot", "dropWarm"},
             EnforceDrop(phase, s)
      PROVE  PhasesInv'
  <2>1. /\ pc = phase /\ pc' = pc /\ ret' = ret /\ todo' = todo \ {s}
        /\ state' = state
    BY <1>7 DEF EnforceDrop, LoopBody
  <2>2. /\ \A r \in Slots : r # s => tiles'[r] = tiles[r]
        /\ state[s] \in {"Hot", "Warm"} => ~HasPlane(tiles'[s])
    <3>1. CASE IsLive(s) /\ HasPlane(tiles[s])
      BY <1>0, <1>7, <3>1, PlaneAfter DEF EnforceDrop, drop_correction
    <3>2. CASE ~(IsLive(s) /\ HasPlane(tiles[s]))
      BY <1>0, <1>7, <3>2 DEF EnforceDrop, drop_correction, IsLive
    <3> QED BY <3>1, <3>2
  <2>3. SlotsIn("Hot")' = SlotsIn("Hot") /\ SlotsIn("Warm")' = SlotsIn("Warm")
    BY <2>1 DEF SlotsIn
  <2>4. PhaseInv'
    BY <2>1, <2>2, <2>3 DEF PhasesInv, PhaseInv, SlotsIn, HasPlane
  <2> QED BY <2>1, <2>4 DEF PhasesInv, PhaseInv, EnforceMeetsBudget,
            EnforceFailsOnlyBlocked
<1>8. ASSUME NEW s \in Slots, EnforcePage(s) PROVE PhasesInv'
  <2>1. /\ pc = "page" /\ pc' = pc /\ ret' = ret /\ todo' = todo \ {s}
        /\ todo = SlotsIn("Hot") /\ state[s] = "Hot"
    BY <1>8 DEF EnforcePage, LoopBody, PhasesInv, PhaseInv, SlotsIn
  <2>2. /\ state' = [state EXCEPT ![s] = "Warm"]
        /\ \A r \in Slots : r # s => tiles'[r] = tiles[r]
    BY <1>0, <1>8, <2>1 DEF EnforcePage, page_out
  <2>3. SlotsIn("Hot")' = todo'
    BY <1>0, <2>1, <2>2 DEF SlotsIn
  <2>4. PhaseInv'
    BY <2>1, <2>2, <2>3 DEF PhasesInv, PhaseInv, SlotsIn, HasPlane
  <2> QED BY <2>1, <2>4 DEF PhasesInv, PhaseInv, EnforceMeetsBudget,
            EnforceFailsOnlyBlocked
<1>9. ASSUME NEW s \in Slots, EnforceEvict(s) PROVE PhasesInv'
  <2>1. /\ pc = "evict" /\ pc' = pc /\ ret' = ret /\ todo' = todo \ {s}
        /\ s \in todo /\ UNCHANGED <<tiles, durability>>
    BY <1>9 DEF EnforceEvict, LoopBody
  <2>2. \A r \in LiveSlots : state[r] = "Warm" /\ ~HasPlane(tiles[r])
    BY <2>1 DEF PhasesInv, PhaseInv
  <2>3. blocked' \in Nat /\ blocked' >= blocked
    BY <1>0, <1>9 DEF EnforceEvict, evict, evict_answered
  <2>4. CASE UNCHANGED state
    <3>1. LiveSlots' = LiveSlots BY <2>4 DEF LiveSlots, IsLive
    <3>2. \/ s \notin LiveSlots /\ blocked' = blocked
          \/ durability = "RequireDurable" /\ blocked' > 0
      BY <1>0, <1>9, <2>4 DEF EnforceEvict, evict, evict_answered, Refused,
         LiveSlots, IsLive
    <3>3. \/ LiveSlots' \subseteq todo'
          \/ durability' = "RequireDurable" /\ blocked' > 0
      BY <1>0, <2>1, <2>3, <3>1, <3>2 DEF PhasesInv, PhaseInv
    <3>4. PhaseInv'
      <4>1. ret' = "none" /\ pc' = "evict"
        BY <2>1 DEF PhasesInv, PhaseInv
      <4>2. \A r \in LiveSlots' : state'[r] = "Warm" /\ ~HasPlane(tiles'[r])
        BY <2>1, <2>2, <2>4, <3>1
      <4> QED BY <4>1, <4>2, <3>3 DEF PhaseInv, HasPlane
    <3> QED BY <2>1, <3>4 DEF PhasesInv, PhaseInv, EnforceMeetsBudget,
              EnforceFailsOnlyBlocked
  <2>5. CASE state' = [state EXCEPT ![s] = "Cold"]
    <3>1. LiveSlots' = LiveSlots \ {s}
      BY <1>0, <2>5 DEF LiveSlots, IsLive
    <3>2. \/ LiveSlots' \subseteq todo'
          \/ durability' = "RequireDurable" /\ blocked' > 0
      BY <1>0, <2>1, <2>3, <3>1 DEF PhasesInv, PhaseInv
    <3>3. \A r \in LiveSlots' : state'[r] = "Warm" /\ ~HasPlane(tiles'[r])
      BY <1>0, <2>1, <2>2, <2>5, <3>1 DEF LiveSlots
    <3>4. PhaseInv'
      <4>1. ret' = "none" /\ pc' = "evict"
        BY <2>1 DEF PhasesInv, PhaseInv
      <4> QED BY <4>1, <3>2, <3>3 DEF PhaseInv, HasPlane
    <3> QED BY <2>1, <3>4 DEF PhasesInv, PhaseInv, EnforceMeetsBudget,
              EnforceFailsOnlyBlocked
  <2> QED BY <1>9, <2>4, <2>5 DEF EnforceEvict, evict, evict_answered
<1>10. CASE UNCHANGED vars
  <2>1. UNCHANGED <<tiles, state, durability, blocked, budget, pc, todo, ret>>
    BY <1>10 DEF vars, arenaVars, configVars, logVars, loopVars
  <2> QED BY <2>1 DEF PhasesInv, PhaseInv, EnforceMeetsBudget,
            EnforceFailsOnlyBlocked, SlotsIn, LiveSlots, IsLive, HasPlane,
            Footprint, DroppedPlanes
<1> QED
  BY <1>1, <1>3, <1>4, <1>5, <1>6, <1>7, <1>8, <1>9, <1>10
  DEF Next, EnforceStep

CacheInv == BytesInv /\ StateMatchesTile /\ PhasesInv

LEMMA CacheInvariant == Spec => []CacheInv
<1>1. Init => CacheInv
  <2> SUFFICES ASSUME Init PROVE CacheInv
    OBVIOUS
  <2>1. StateMatchesTile
    BY DEF Init, StateMatchesTile, LiveSlots, IsLive
  <2>2. PhasesInv
    BY DEF Init, PhasesInv, PhaseInv, EnforceMeetsBudget,
       EnforceFailsOnlyBlocked
  <2> QED BY <2>1, <2>2, BytesInvInit DEF CacheInv
<1>2. CacheInv /\ [Next]_vars => CacheInv'
  BY BytesInvStep, StateMatchesStep, PhasesStep DEF CacheInv
<1> QED BY <1>1, <1>2, PTL DEF Spec

(* A tile whose residual was zeroed, before insertion, by paging or in the  *)
(* log, is never advertised as HOT.                                         *)
THEOREM StateCoherent == Spec => []StateMatchesTile
<1>1. CacheInv => StateMatchesTile BY DEF CacheInv
<1> QED BY <1>1, CacheInvariant, PTL

(* enforce_budget answering true is the truth about the footprint.          *)
THEOREM BudgetMet == Spec => []EnforceMeetsBudget
<1>1. CacheInv => EnforceMeetsBudget BY DEF CacheInv, PhasesInv
<1> QED BY <1>1, CacheInvariant, PTL

(* enforce_budget answers false only when a durable log refused evictions   *)
(* and no softer rung is left on any tile.                                  *)
THEOREM FailsOnlyBlocked == Spec => []EnforceFailsOnlyBlocked
<1>1. CacheInv => EnforceFailsOnlyBlocked BY DEF CacheInv, PhasesInv
<1> QED BY <1>1, CacheInvariant, PTL

(* enforce_budget degrades in strictly increasing harshness.                *)
THEOREM IncreasingHarshness == Spec => Harshness
<1> DEFINE Gentle ==
      /\ pc = "page" /\ state' # state =>
            \A s \in SlotsIn("Hot") : ~HasPlane(tiles[s])
      /\ pc = "evict" /\ state' # state =>
            \A s \in LiveSlots : state[s] = "Warm" /\ ~HasPlane(tiles[s])
<1>1. CacheInv => Gentle
  BY DEF CacheInv, PhasesInv, PhaseInv
<1>2. CacheInv => [Gentle]_vars
  BY <1>1
<1> HIDE DEF Gentle
<1>3. Spec => [][Gentle]_vars
  BY <1>2, CacheInvariant, PTL
<1> QED BY <1>3 DEF Harshness, Gentle

(* No step gives a tile in place its residual or correction plane back.     *)
THEOREM NeverRegains == Spec => OnlyDegrades
<1> DEFINE Degrades ==
      \A s \in Slots : IsLive(s) /\ seq'[s] = seq[s] =>
          /\ tiles[s].flags \subseteq tiles'[s].flags
          /\ state[s] = "Warm" => state'[s] # "Hot"
<1>1. ASSUME CacheInv, Next PROVE Degrades
  <2>0. /\ tiles \in [Slots -> Tile] /\ state \in [Slots -> StatesOf]
        /\ ArenaOK
    BY <1>1, BytesInvSplit DEF CacheInv, BytesInv, TypeOK, StatesOf
  <2>1. ASSUME NEW t, NEW x, insert_with_state(t, x) PROVE Degrades
    <3>1. PICK s \in Slots : /\ NextSlot(s)
                             /\ tiles' = [tiles EXCEPT ![s] = t]
                             /\ state' = [state EXCEPT ![s] = x]
      BY <2>1 DEF insert_with_state
    <3>2. ~IsLive(s)
      BY <2>0, <3>1 DEF NextSlot, ArenaOK, FreeIsCold, IsLive
    <3> QED BY <2>0, <3>1, <3>2 DEF IsLive
  <2>2. ASSUME NEW s \in Slots, page_out(s) PROVE Degrades
    <3>1. CASE state[s] # "Hot" BY <2>0, <2>2, <3>1 DEF page_out, IsLive
    <3>2. CASE state[s] = "Hot"
      BY <2>0, <2>2, <3>2, WithFlagType DEF page_out, IsLive, Flags
    <3> QED BY <3>1, <3>2
  <2>3. ASSUME NEW s \in Slots, drop_correction(s), UNCHANGED state
        PROVE  Degrades
    BY <2>0, <2>3, WithFlagType DEF drop_correction, IsLive, Flags
  <2>4. ASSUME NEW s \in Slots, evict(s), UNCHANGED tiles PROVE Degrades
    BY <2>0, <2>4 DEF evict, evict_answered, IsLive
  <2>5. CASE UNCHANGED <<tiles, state>>
    BY <2>0, <2>5 DEF IsLive
  <2> HIDE DEF Degrades
  <2> QED
    BY <1>1, <2>1, <2>2, <2>3, <2>4, <2>5
    DEF Next, Attach, Insert, Rehydrate, observe_scores, PageOut,
        DropCorrection, Evict, EnforceBudget, EnforceStep, EnforceReturn,
        EnforceDrop, EnforcePage, EnforceEvict, NextPhase, EnforceEnd,
        arenaVars
<1> HIDE DEF Degrades
<1>2. CacheInv /\ [Next]_vars => [Degrades]_vars
  BY <1>1
<1>3. Spec => [][Degrades]_vars
  BY <1>2, CacheInvariant, PTL DEF Spec
<1> QED BY <1>3 DEF OnlyDegrades, Degrades

-----------------------------------------------------------------------------
(* The eviction log                                                         *)

(* What DurableLosesNothing rests on: a log that is asked to be durable is  *)
(* there, every refusal was a counted error, and no two slots that were     *)
(* ever used have the same seq.                                             *)
SeqsApart ==
    /\ \A s \in Slots : state[s] # "Absent" => seq[s] < next_seq
    /\ \A r, s \in Slots :
           state[r] # "Absent" /\ state[s] # "Absent" /\ seq[r] = seq[s] => r = s

LogInv ==
    /\ durability = "RequireDurable" => attached
    /\ blocked <= log_errors
    /\ IsFiniteSet(owed)
    /\ SeqsApart
    /\ DurableLosesNothing

(* The newest record of every owed tile that is gone is that tile.          *)
KeptIn(l, s) == \E i \in 1 .. Len(l) : IsLatest(l, i, seq[s]) /\ l[i].tile = tiles[s]

LEMMA LogFacts ==
    ASSUME LogInv
    PROVE  /\ durability = "RequireDurable" =>
                 /\ Lost = {}
                 /\ \A s \in Slots : state[s] = "Cold" /\ seq[s] \in owed => KeptIn(log, s)
           /\ attached => Cardinality(Lost) <= log_errors - blocked
  BY DEF LogInv, DurableLosesNothing, SlotsIn, KeptIn

LEMMA LogFactsNext ==
    ASSUME durability' = "RequireDurable" =>
              /\ Lost' = {}
              /\ \A s \in Slots : state'[s] = "Cold" /\ seq'[s] \in owed' => KeptIn(log, s)',
           attached' => Cardinality(Lost') <= log_errors' - blocked'
    PROVE  DurableLosesNothing'
  BY DEF DurableLosesNothing, SlotsIn, KeptIn

LEMMA LostFinite ==
    ASSUME IsFiniteSet(owed) PROVE IsFiniteSet(Lost) /\ Cardinality(Lost) \in Nat
<1>1. Lost \in SUBSET owed BY DEF Lost
<1>2. IsFiniteSet(Lost) BY <1>1, FS_Subset
<1> QED BY <1>2, FS_CardinalityType

(* Steps that leave seqs, the log and which slots are live alone, and the   *)
(* tiles of the COLD ones.                                                  *)
LEMMA LogUntouched ==
    ASSUME TypeOK, LogInv,
           UNCHANGED <<seq, next_seq, attached, log, durability, log_errors, blocked, owed>>,
           \A s \in Slots : /\ state'[s] = "Cold" <=> state[s] = "Cold"
                            /\ state'[s] = "Absent" <=> state[s] = "Absent"
                            /\ IsLive(s)' <=> IsLive(s)
                            /\ state[s] = "Cold" => tiles'[s] = tiles[s]
    PROVE  LogInv'
<1>1. UNCHANGED LiveSlots BY DEF LiveSlots
<1>2. UNCHANGED LiveSeqs BY <1>1 DEF LiveSeqs
<1>3. UNCHANGED Lost BY <1>2 DEF Lost, Recorded
<1>4. \A s \in Slots : state[s] = "Cold" => (KeptIn(log, s)' <=> KeptIn(log, s))
  BY DEF KeptIn, IsLatest
<1>5. DurableLosesNothing'
  <2>1. durability' = "RequireDurable" =>
           /\ Lost' = {}
           /\ \A s \in Slots : state'[s] = "Cold" /\ seq'[s] \in owed' => KeptIn(log, s)'
    BY <1>3, <1>4, LogFacts
  <2>2. attached' => Cardinality(Lost') <= log_errors' - blocked'
    BY <1>3, LogFacts
  <2> QED BY <2>1, <2>2, LogFactsNext
<1>6. SeqsApart' BY DEF LogInv, SeqsApart
<1> QED BY <1>5, <1>6 DEF LogInv

(* A log that is attached answers for the live tiles only.                  *)
LEMMA AttachLog ==
    ASSUME TypeOK, LogInv, NEW d \in Durabilities, NEW l \in PriorLogs, Attach(d, l)
    PROVE  LogInv'
<1>1. /\ attached' = TRUE /\ durability' = d /\ owed' = {seq[s] : s \in LiveSlots}
      /\ UNCHANGED <<tiles, state, seq, next_seq, log_errors, blocked>>
  BY DEF Attach, arenaVars
<1>2. LiveSlots' = LiveSlots /\ LiveSeqs' = owed'
  BY <1>1 DEF LiveSlots, IsLive, LiveSeqs
<1>3. Lost' = {} BY <1>2 DEF Lost
<1>4. Cardinality(Lost') = 0 BY <1>3, FS_EmptySet
<1>5. IsFiniteSet(owed')
  <2>1. next_seq \in Nat /\ seq \in [Slots -> Nat] BY DEF TypeOK
  <2>2. owed' \in SUBSET (0 .. next_seq - 1)
    BY <1>1, <2>1 DEF LogInv, SeqsApart, LiveSlots, IsLive
  <2>3. IsFiniteSet(0 .. next_seq - 1) BY <2>1, FS_Interval
  <2> QED BY <2>2, <2>3, FS_Subset
<1>6. \A s \in Slots : state'[s] = "Cold" => seq'[s] \notin owed'
  BY <1>1 DEF LogInv, SeqsApart, LiveSlots, IsLive
<1>7. log_errors \in Nat /\ blocked \in Nat /\ blocked <= log_errors
  BY DEF TypeOK, LogInv
<1>8. DurableLosesNothing' BY <1>1, <1>3, <1>4, <1>6, <1>7, LogFactsNext
<1>9. SeqsApart' BY <1>1 DEF LogInv, SeqsApart
<1> QED BY <1>1, <1>5, <1>7, <1>8, <1>9 DEF LogInv

(* An insertion takes a slot whose tile is gone, and a new seq.             *)
LEMMA InsertLog ==
    ASSUME TypeOK, FreeIsCold, LogInv, NEW t, NEW x \in {"Hot", "Warm"},
           insert_with_state(t, x)
    PROVE  LogInv'
<1>1. PICK s \in Slots :
        /\ NextSlot(s)
        /\ tiles' = [tiles EXCEPT ![s] = t] /\ state' = [state EXCEPT ![s] = x]
        /\ seq' = [seq EXCEPT ![s] = next_seq]
  BY DEF insert_with_state
<1>2. /\ next_seq' = next_seq + 1 /\ owed' = IF attached THEN owed \cup {next_seq} ELSE owed
      /\ UNCHANGED <<attached, log, durability, log_errors, blocked>>
  BY DEF insert_with_state, logVars
<1>3. ~IsLive(s)
  <2>1. free \in Seq(Slots) BY DEF TypeOK
  <2> QED BY <1>1, <2>1 DEF NextSlot, FreeIsCold, IsLive
<1>4. next_seq \in Nat /\ state \in [Slots -> StatesOf] /\ seq \in [Slots -> Nat]
      /\ tiles \in [Slots -> Tile]
  BY DEF TypeOK, StatesOf
<1>5. \A r \in Slots : r # s => state'[r] = state[r] /\ seq'[r] = seq[r] /\ tiles'[r] = tiles[r]
  BY <1>1, <1>4
<1>6. state'[s] = x /\ seq'[s] = next_seq BY <1>1, <1>4
<1>7. SeqsApart'
  <2>1. \A r \in Slots : state'[r] # "Absent" => seq'[r] < next_seq'
    BY <1>2, <1>4, <1>5, <1>6 DEF LogInv, SeqsApart
  <2>2. \A r \in Slots : r # s /\ state'[r] # "Absent" => seq'[r] # next_seq
    BY <1>4, <1>5 DEF LogInv, SeqsApart
  <2>3. \A q, r \in Slots :
           state'[q] # "Absent" /\ state'[r] # "Absent" /\ seq'[q] = seq'[r] => q = r
    BY <1>5, <1>6, <2>2 DEF LogInv, SeqsApart
  <2> QED BY <2>1, <2>3 DEF SeqsApart
<1>8. LiveSeqs' = LiveSeqs \cup {next_seq}
  <2>1. LiveSlots' = LiveSlots \cup {s}
    BY <1>5, <1>6 DEF LiveSlots, IsLive
  <2>2. \A r \in LiveSlots : seq'[r] = seq[r] /\ r # s BY <1>3, <1>5 DEF LiveSlots
  <2> QED BY <1>6, <2>1, <2>2 DEF LiveSeqs
<1>9. Lost' \in SUBSET Lost BY <1>2, <1>8 DEF Lost, Recorded
<1>10. IsFiniteSet(owed) /\ IsFiniteSet(owed')
  BY <1>2, FS_AddElement DEF LogInv
<1>11. Cardinality(Lost') <= Cardinality(Lost) /\ Cardinality(Lost') \in Nat
       /\ Cardinality(Lost) \in Nat
  <2>1. IsFiniteSet(Lost) /\ Cardinality(Lost) \in Nat BY <1>10, LostFinite
  <2>2. IsFiniteSet(Lost') /\ Cardinality(Lost') <= Cardinality(Lost)
    BY <1>9, <2>1, FS_Subset
  <2> QED BY <2>1, <2>2, FS_CardinalityType
<1>12. \A r \in Slots : state'[r] = "Cold" /\ seq'[r] \in owed' =>
          r # s /\ state[r] = "Cold" /\ seq[r] \in owed
  BY <1>2, <1>4, <1>5, <1>6 DEF LogInv, SeqsApart
<1>13. \A r \in Slots : r # s => (KeptIn(log, r)' <=> KeptIn(log, r))
  BY <1>2, <1>5 DEF KeptIn, IsLatest
<1>14. log_errors \in Nat /\ blocked \in Nat BY DEF TypeOK
<1>15. DurableLosesNothing'
  <2>1. durability' = "RequireDurable" =>
           /\ Lost' = {}
           /\ \A r \in Slots : state'[r] = "Cold" /\ seq'[r] \in owed' => KeptIn(log, r)'
    BY <1>2, <1>9, <1>12, <1>13, LogFacts
  <2>2. attached' => Cardinality(Lost') <= log_errors' - blocked'
    BY <1>2, <1>11, <1>14, LogFacts
  <2> QED BY <2>1, <2>2, LogFactsNext
<1> QED BY <1>2, <1>7, <1>10, <1>15 DEF LogInv

(* A record at the end of the log is the newest of its seq, and leaves the  *)
(* newest of every other seq where it is.                                   *)
LEMMA AppendedRecord ==
    ASSUME NEW l \in Seq(Record), NEW x \in Record
    PROVE  /\ IsLatest(Append(l, x), Len(l) + 1, x.seq)
           /\ Append(l, x)[Len(l) + 1] = x
           /\ \A i \in 1 .. Len(l) : \A q : q # x.seq /\ IsLatest(l, i, q) =>
                  IsLatest(Append(l, x), i, q) /\ Append(l, x)[i] = l[i]
<1> DEFINE m == Append(l, x)
<1>1. Len(m) = Len(l) + 1 /\ m[Len(l) + 1] = x /\ \A i \in 1 .. Len(l) : m[i] = l[i]
  OBVIOUS
<1>2. Len(l) \in Nat OBVIOUS
<1> HIDE DEF m
<1>3. IsLatest(m, Len(l) + 1, x.seq) BY <1>1, <1>2 DEF IsLatest
<1>4. ASSUME NEW i \in 1 .. Len(l), NEW q, q # x.seq, IsLatest(l, i, q)
      PROVE  IsLatest(m, i, q)
  <2>1. \A j \in 1 .. Len(m) : j \in 1 .. Len(l) \/ j = Len(l) + 1 BY <1>1, <1>2
  <2>2. \A j \in 1 .. Len(m) : j > i => m[j].seq # q
    BY <1>1, <1>4, <2>1 DEF IsLatest
  <2>3. i \in 1 .. Len(m) BY <1>1, <1>2
  <2> QED BY <1>1, <1>4, <2>2, <2>3 DEF IsLatest
<1> QED BY <1>1, <1>3, <1>4 DEF m

(* An eviction: the record is written, or the slot keeps its tile, or a     *)
(* best-effort error is counted.                                            *)
LEMMA EvictLog ==
    ASSUME TypeOK, LogInv, NEW s \in Slots, evict(s),
           UNCHANGED <<tiles, seq, next_seq, attached, durability, owed>>
    PROVE  LogInv'
<1>1. CASE ~IsLive(s)
  <2>1. UNCHANGED <<state, log, log_errors, blocked>> BY <1>1 DEF evict
  <2> QED BY <2>1, LogUntouched DEF IsLive
<1>2. CASE IsLive(s)
  <2>1. PICK a \in LogAnswers : evict_answered(s, a) BY <1>2 DEF evict
  <2> DEFINE x == [seq |-> seq[s], slot |-> s, tile |-> tiles[s]]
  <2>2. /\ state \in [Slots -> StatesOf] /\ seq \in [Slots -> Nat] /\ tiles \in [Slots -> Tile]
        /\ log \in Seq(Record) /\ log_errors \in Nat /\ blocked \in Nat /\ next_seq \in Nat
    BY DEF TypeOK, StatesOf
  <2>3. x \in Record /\ x.seq = seq[s] /\ x.tile = tiles[s]
    BY <2>2, CcosAssumption DEF Record, Slots
  <2>4. /\ log' = IF a \in {"ok", "phantom"} THEN Append(log, x) ELSE log
        /\ log_errors' = IF Failed(a) THEN log_errors + 1 ELSE log_errors
        /\ Refused(a) => blocked' = blocked + 1 /\ state' = state
        /\ ~Refused(a) => blocked' = blocked /\ state' = [state EXCEPT ![s] = "Cold"]
    BY <2>1 DEF evict_answered, ErrorsAfter
  <2>5. /\ attached => a \in {"ok", "err", "phantom"}
        /\ attached /\ durability # "RequireDurable" => a \in {"ok", "err"}
        /\ ~attached => a = "none"
    <3>1. durability \in {"BestEffort", "RequireDurable"} BY DEF TypeOK, EvictionDurability
    <3>2. CASE ~attached BY <3>2 DEF LogAnswers
    <3>3. CASE attached /\ log_errors >= MaxErrors BY <3>3 DEF LogAnswers
    <3>4. CASE attached /\ ~(log_errors >= MaxErrors) BY <3>1, <3>4 DEF LogAnswers
    <3> QED BY <3>2, <3>3, <3>4
  <2>6. Refused(a) => attached /\ Failed(a) BY DEF LogInv, Refused
  <2> HIDE DEF x
  <2>7. blocked' <= log_errors' BY <2>2, <2>4, <2>6 DEF LogInv
  <2>8. \A r \in Slots : r # s => state'[r] = state[r] BY <2>2, <2>4
  <2>9. state[s] # "Absent" /\ state'[s] \in {state[s], "Cold"}
    BY <1>2, <2>2, <2>4 DEF IsLive
  <2>10. SeqsApart' BY <2>8, <2>9 DEF LogInv, SeqsApart
  <2>11. \A q : Recorded(q) => Recorded(q)'
    BY <2>2, <2>3, <2>4 DEF Recorded
  <2>12. a \in {"ok", "phantom"} => Recorded(seq[s])'
    BY <2>2, <2>3, <2>4 DEF Recorded
  <2>13. \A q \in LiveSeqs : q \in LiveSeqs' \/ q = seq[s]
    BY <2>8 DEF LiveSeqs, LiveSlots, IsLive
  <2>14. Refused(a) => LiveSeqs' = LiveSeqs
    BY <2>4 DEF LiveSeqs, LiveSlots, IsLive
  <2>15. Lost' \in SUBSET (Lost \cup {seq[s]}) BY <2>11, <2>13 DEF Lost
  <2>16. a \in {"ok", "phantom"} \/ Refused(a) => Lost' \in SUBSET Lost
    BY <2>11, <2>12, <2>14, <2>15 DEF Lost
  <2>17. IsFiniteSet(Lost) /\ Cardinality(Lost) \in Nat BY LostFinite DEF LogInv
  <2>18. Cardinality(Lost') <= Cardinality(Lost)
            + (IF a \in {"ok", "phantom"} \/ Refused(a) THEN 0 ELSE 1)
    <3>1. CASE a \in {"ok", "phantom"} \/ Refused(a)
      <4>1. Cardinality(Lost') <= Cardinality(Lost) /\ Cardinality(Lost') \in Nat
        BY <2>16, <2>17, <3>1, FS_Subset, FS_CardinalityType
      <4> QED BY <2>17, <3>1, <4>1
    <3>2. CASE ~(a \in {"ok", "phantom"} \/ Refused(a))
      <4>1. IsFiniteSet(Lost \cup {seq[s]})
            /\ Cardinality(Lost \cup {seq[s]}) <= Cardinality(Lost) + 1
            /\ Cardinality(Lost \cup {seq[s]}) \in Nat
        BY <2>17, FS_AddElement, FS_CardinalityType
      <4>2. Cardinality(Lost') <= Cardinality(Lost \cup {seq[s]}) /\ Cardinality(Lost') \in Nat
        BY <2>15, <4>1, FS_Subset, FS_CardinalityType
      <4> QED BY <2>17, <3>2, <4>1, <4>2
    <3> QED BY <3>1, <3>2
  <2>19. attached' => Cardinality(Lost') <= log_errors' - blocked'
    <3> SUFFICES ASSUME attached PROVE Cardinality(Lost') <= log_errors' - blocked' OBVIOUS
    <3>1. Cardinality(Lost) <= log_errors - blocked BY LogFacts
    <3>2. Cardinality(Lost') \in Nat
      <4>1. IsFiniteSet(Lost \cup {seq[s]}) BY <2>17, FS_AddElement
      <4> QED BY <2>15, <4>1, FS_Subset, FS_CardinalityType
    <3>3. CASE a = "ok" BY <2>2, <2>4, <2>6, <2>17, <2>18, <3>1, <3>2, <3>3 DEF Failed
    <3>4. CASE Refused(a) BY <2>2, <2>4, <2>6, <2>17, <2>18, <3>1, <3>2, <3>4
    <3>5. CASE a # "ok" /\ ~Refused(a)
      <4>1. Failed(a) BY <2>5, <3>5 DEF Failed
      <4>2. log_errors' - blocked' = log_errors - blocked + 1 BY <2>2, <2>4, <3>5, <4>1
      <4> QED BY <2>2, <2>17, <2>18, <3>1, <3>2, <4>2
    <3> QED BY <3>3, <3>4, <3>5
  <2>20. durability' = "RequireDurable" =>
           /\ Lost' = {}
           /\ \A r \in Slots : state'[r] = "Cold" /\ seq'[r] \in owed' => KeptIn(log, r)'
    <3> SUFFICES ASSUME durability = "RequireDurable"
                 PROVE  /\ Lost' = {}
                        /\ \A r \in Slots : state'[r] = "Cold" /\ seq[r] \in owed => KeptIn(log, r)'
      OBVIOUS
    <3>1. attached /\ Lost = {}
          /\ \A r \in Slots : state[r] = "Cold" /\ seq[r] \in owed => KeptIn(log, r)
      BY LogFacts DEF LogInv
    <3>2. a = "ok" \/ Refused(a) BY <2>5, <3>1 DEF Refused, Failed
    <3>3. Lost' = {} BY <2>16, <3>1, <3>2
    <3>4. ASSUME NEW r \in Slots, r # s, state[r] = "Cold", KeptIn(log, r) PROVE KeptIn(log, r)'
      <4>1. seq[r] # seq[s] BY <2>9, <3>4 DEF LogInv, SeqsApart
      <4>2. PICK i \in 1 .. Len(log) : IsLatest(log, i, seq[r]) /\ log[i].tile = tiles[r]
        BY <3>4 DEF KeptIn
      <4>3. i \in 1 .. Len(log') /\ IsLatest(log', i, seq[r]) /\ log'[i].tile = tiles[r]
        BY <2>2, <2>3, <2>4, <4>1, <4>2, AppendedRecord
      <4> QED BY <4>3 DEF KeptIn
    <3>5. a = "ok" => KeptIn(log, s)'
      <4> SUFFICES ASSUME a = "ok" PROVE KeptIn(log, s)' OBVIOUS
      <4>1. /\ IsLatest(log', Len(log) + 1, seq[s]) /\ log'[Len(log) + 1] = x
        BY <2>2, <2>3, <2>4, AppendedRecord
      <4>2. Len(log) + 1 \in 1 .. Len(log') BY <4>1 DEF IsLatest
      <4> QED BY <2>3, <4>1, <4>2 DEF KeptIn
    <3>6. ASSUME NEW r \in Slots, state'[r] = "Cold", seq[r] \in owed PROVE KeptIn(log, r)'
      <4>1. CASE r # s BY <2>8, <3>1, <3>4, <3>6, <4>1
      <4>2. CASE r = s
        <5>1. ~Refused(a) BY <1>2, <2>4, <3>6, <4>2 DEF IsLive
        <5> QED BY <3>2, <3>5, <4>2, <5>1
      <4> QED BY <4>1, <4>2
    <3> QED BY <3>3, <3>6
  <2>21. DurableLosesNothing' BY <2>19, <2>20, LogFactsNext
  <2> QED BY <2>7, <2>10, <2>21 DEF LogInv
<1> QED BY <1>1, <1>2

LEMMA LogStep == BytesInv /\ LogInv /\ [Next]_vars => LogInv'
<1> SUFFICES ASSUME BytesInv, LogInv, [Next]_vars PROVE LogInv' OBVIOUS
<1>0. TypeOK /\ FreeIsCold /\ tiles \in [Slots -> Tile] /\ state \in [Slots -> StatesOf]
  BY DEF BytesInv, TypeOK, StatesOf
<1>1. ASSUME NEW t, insert_with_state(t, EncodedState(t)) PROVE LogInv'
  BY <1>0, <1>1, InsertLog DEF EncodedState
<1>2. ASSUME NEW s \in Slots, page_out(s),
             UNCHANGED <<seq, next_seq, attached, log, durability, log_errors, blocked, owed>>
      PROVE  LogInv'
  <2>1. CASE state[s] # "Hot" BY <1>0, <1>2, <2>1, LogUntouched DEF page_out, IsLive
  <2>2. CASE state[s] = "Hot"
    <3>1. /\ tiles' = [tiles EXCEPT ![s] = WithFlag(tiles[s], "WARM")]
          /\ state' = [state EXCEPT ![s] = "Warm"]
      BY <1>2, <2>2 DEF page_out
    <3>2. \A r \in Slots : /\ state'[r] = "Cold" <=> state[r] = "Cold"
                           /\ state'[r] = "Absent" <=> state[r] = "Absent"
                           /\ IsLive(r)' <=> IsLive(r)
                           /\ state[r] = "Cold" => tiles'[r] = tiles[r]
      BY <1>0, <2>2, <3>1 DEF IsLive
    <3> QED BY <1>0, <1>2, <3>2, LogUntouched
  <2> QED BY <2>1, <2>2
<1>3. ASSUME NEW s \in Slots, drop_correction(s), UNCHANGED state,
             UNCHANGED <<seq, next_seq, attached, log, durability, log_errors, blocked, owed>>
      PROVE  LogInv'
  <2>1. \A r \in Slots : state[r] = "Cold" => tiles'[r] = tiles[r]
    BY <1>0, <1>3 DEF drop_correction, IsLive
  <2> QED BY <1>0, <1>3, <2>1, LogUntouched DEF IsLive
<1>4. ASSUME UNCHANGED <<tiles, state, seq, next_seq, attached, log, durability, log_errors,
                         blocked, owed>>
      PROVE  LogInv'
  BY <1>0, <1>4, LogUntouched DEF IsLive
<1>5. ASSUME NEW s \in Slots, evict(s),
             UNCHANGED <<tiles, seq, next_seq, attached, durability, owed>>
      PROVE  LogInv'
  BY <1>0, <1>5, EvictLog
<1>6. ASSUME NEW d \in Durabilities, NEW l \in PriorLogs, Attach(d, l) PROVE LogInv'
  BY <1>0, <1>6, AttachLog
<1>7. CASE \/ \E t \in TileInputs : Insert(t)
           \/ \E q \in 0 .. MaxSeq : Rehydrate(q)
  BY <1>1, <1>7 DEF Insert, Rehydrate
<1>8. CASE \E s \in Slots : PageOut(s) \/ DropCorrection(s) \/ Evict(s)
  BY <1>2, <1>3, <1>5, <1>8 DEF PageOut, DropCorrection, Evict, logVars
<1>9. CASE \/ \E a, b \in Slots : observe_scores(a, b)
           \/ EnforceBudget \/ EnforceReturn \/ NextPhase \/ EnforceEnd
  BY <1>4, <1>9 DEF observe_scores, EnforceBudget, EnforceReturn, NextPhase, EnforceEnd,
     arenaVars, logVars
<1>10. CASE \E s \in Slots :
               \/ \E phase \in {"dropHot", "dropWarm"} : EnforceDrop(phase, s)
               \/ EnforcePage(s) \/ EnforceEvict(s)
  BY <1>2, <1>3, <1>5, <1>10 DEF EnforceDrop, EnforcePage, EnforceEvict, logVars
<1>11. CASE UNCHANGED vars BY <1>4, <1>11 DEF vars, arenaVars, logVars
<1> QED
  BY <1>6, <1>7, <1>8, <1>9, <1>10, <1>11 DEF Next, EnforceStep

(* Whatever fails, is retried, replaced or recycled: with a durable log no  *)
(* tile that attach_durable_event_log or insert made the log answer for is  *)
(* ever neither live nor on record, and fetch_by_seq returns an evicted     *)
(* tile as it was; with a best-effort log what is gone is counted.          *)
THEOREM NothingLost == Spec => []DurableLosesNothing
<1>1. Init => LogInv
  <2> SUFFICES ASSUME Init PROVE LogInv OBVIOUS
  <2>1. SeqsApart BY DEF Init, SeqsApart
  <2>2. IsFiniteSet(owed) BY FS_EmptySet DEF Init
  <2>3. DurableLosesNothing BY DEF Init, DurableLosesNothing
  <2> QED BY <2>1, <2>2, <2>3 DEF Init, LogInv
<1>2. LogInv => DurableLosesNothing BY DEF LogInv
<1> QED BY <1>1, <1>2, BytesInvInit, BytesInvStep, LogStep, PTL DEF Spec

(* Where evictions cannot be refused, enforce_budget evicts an attention    *)
(* sink only when every live tile is one. (A durable log that refuses one   *)
(* breaks it: MCCcosSinks.)                                                 *)
THEOREM SinksGoLast == Durabilities \subseteq {"BestEffort"} => (Spec => SinksLast)
<1> SUFFICES ASSUME Durabilities \subseteq {"BestEffort"} PROVE Spec => SinksLast OBVIOUS
<1> DEFINE Asked == durability = "BestEffort"
           Last == pc = "evict" /\ eviction.kind = "Importance" =>
                     \A s \in LiveSlots : state'[s] = "Cold" /\ IsSink(s) =>
                         \A r \in LiveSlots : IsSink(r)
<1>1. Init => Asked BY DEF Init
<1>2. Asked /\ [Next]_vars => Asked'
  BY DEF Next, Attach, Insert, Rehydrate, insert_with_state, observe_scores, PageOut,
     DropCorrection, Evict, EnforceBudget, EnforceStep, EnforceReturn, EnforceDrop,
     EnforcePage, EnforceEvict, NextPhase, EnforceEnd, logVars, vars
<1>3. CacheInv /\ Asked /\ [Next]_vars => [Last]_vars
  <2> SUFFICES ASSUME CacheInv, Asked, [Next]_vars, pc = "evict", eviction.kind = "Importance",
                      NEW s \in LiveSlots, state'[s] = "Cold", IsSink(s), NEW r \in LiveSlots
               PROVE  IsSink(r)
    OBVIOUS
  <2>1. LiveSlots \subseteq todo BY DEF CacheInv, PhasesInv, PhaseInv
  <2>2. state \in [Slots -> StatesOf] /\ s \in Slots /\ r \in Slots /\ state[s] # "Cold"
    BY DEF CacheInv, BytesInv, TypeOK, StatesOf, LiveSlots, IsLive
  <2>3. state' # state BY <2>2
  <2>4. PICK v \in Slots : EnforceEvict(v)
    BY <2>3 DEF Next, Attach, Insert, Rehydrate, observe_scores, PageOut, DropCorrection,
       Evict, EnforceBudget, EnforceStep, EnforceReturn, EnforceDrop, EnforcePage, NextPhase,
       EnforceEnd, LoopBody, Idle, arenaVars, vars
  <2>5. v = s BY <2>2, <2>4 DEF EnforceEvict, evict, evict_answered
  <2>6. ~EvictsBefore(r, s) BY <2>1, <2>2, <2>4, <2>5 DEF EnforceEvict, LoopBody
  <2> QED BY <2>6 DEF EvictsBefore, SinkOrder
<1> HIDE DEF Last, Asked
<1>4. Spec => [][Last]_vars BY <1>1, <1>2, <1>3, CacheInvariant, PTL DEF Spec
<1> QED BY <1>4 DEF SinksLast, Last

-----------------------------------------------------------------------------
(***************************************************************************)
(* The eviction journal, for records of any size, any number of appends,   *)
(* crashes and I/O failures, as long as set_len succeeds after a failed    *)
(* write (TornWritesStay = FALSE; with a set_len that fails as well, the   *)
(* properties do not hold).                                                *)
(***************************************************************************)

-----------------------------------------------------------------------------
(* Lengths and frames                                                       *)

LEMMA DivMod ==
    ASSUME NEW n \in Nat
    PROVE  /\ n \div RecordCells \in Nat /\ n % RecordCells \in 0 .. RecordCells - 1
           /\ n = (n \div RecordCells) * RecordCells + (n % RecordCells)
  BY EventLogAssumption

LEMMA MulMono == \A a, b \in Nat : a <= b => a * RecordCells <= b * RecordCells
  BY EventLogAssumption

LEMMA MulLess ==
    ASSUME NEW a \in Nat, NEW b \in Nat, a * RecordCells < b * RecordCells + RecordCells
    PROVE  a <= b
<1> SUFFICES ASSUME a > b PROVE FALSE
  OBVIOUS
<1>1. (a - b - 1) * RecordCells >= 0
  BY EventLogAssumption
<1>2. (a - b - 1) * RecordCells = a * RecordCells - b * RecordCells - RecordCells
  BY EventLogAssumption
<1> QED BY <1>1, <1>2, EventLogAssumption

LEMMA Quotient ==
    ASSUME NEW n \in Nat, NEW q \in Nat,
           q * RecordCells <= n, n < q * RecordCells + RecordCells
    PROVE  n \div RecordCells = q
  BY DivMod, MulLess, EventLogAssumption

LEMMA QuotientMono ==
    ASSUME NEW m \in Nat, NEW n \in Nat, m <= n
    PROVE  m \div RecordCells <= n \div RecordCells
  BY DivMod, MulLess, EventLogAssumption

(* A cell is in one frame, at one place of it.                              *)
LEMMA PlaceExists ==
    ASSUME NEW k \in Nat \ {0}
    PROVE  \E i \in Nat \ {0}, p \in 1 .. RecordCells : k = (i - 1) * RecordCells + p
<1> DEFINE q == (k - 1) \div RecordCells
           m == (k - 1) % RecordCells
<1>1. q \in Nat /\ m \in 0 .. RecordCells - 1 /\ k - 1 = q * RecordCells + m
  BY DivMod
<1> HIDE DEF q, m
<1>2. q + 1 \in Nat \ {0} /\ m + 1 \in 1 .. RecordCells
  BY <1>1, EventLogAssumption
<1>3. k = ((q + 1) - 1) * RecordCells + (m + 1)
  BY <1>1, EventLogAssumption
<1> QED BY <1>2, <1>3

LEMMA PlaceUnique ==
    ASSUME NEW i \in Nat, NEW j \in Nat, NEW p \in 1 .. RecordCells, NEW q \in 1 .. RecordCells,
           i * RecordCells + p = j * RecordCells + q
    PROVE  i = j /\ p = q
<1>1. i * RecordCells < j * RecordCells + RecordCells
      /\ j * RecordCells < i * RecordCells + RecordCells
  BY EventLogAssumption
<1>2. i <= j /\ j <= i
  BY <1>1, MulLess
<1> QED BY <1>2, EventLogAssumption

(* Frame i is whole iff it is one of the frames of a body of n cells.       *)
LEMMA FrameWhole ==
    ASSUME NEW i \in Nat, NEW n \in Nat
    PROVE  i * RecordCells <= n <=> i <= n \div RecordCells
  BY DivMod, MulMono, MulLess, EventLogAssumption

-----------------------------------------------------------------------------
(* The inductive invariant                                                  *)

Body == [id : 1 .. MaxAppends, part : 1 .. RecordCells]

(* Wherever it ends, a body is records one after another.                   *)
Framed(f) ==
    \A i \in Nat \ {0}, p \in 1 .. RecordCells :
        (i - 1) * RecordCells + p <= Len(f) =>
            CellAt(f, i, p) = [id |-> CellAt(f, i, 1).id, part |-> p]

Whole(f) == \E n \in Nat : Len(f) = n * RecordCells

LogTyped ==
    /\ header \in {"absent", "torn", "ok"} /\ version \in {1, 2}
    /\ file \in Seq(Body) /\ ghostTail \in Seq(Body)
    /\ floor \in Nat /\ floor <= Len(file)
    /\ hsynced \in BOOLEAN /\ open \in BOOLEAN /\ writable \in BOOLEAN /\ records \in Nat
    /\ appends \in 0 .. MaxAppends

(* What a crash can bring back is records, too, and goes after whole ones.  *)
DiskFramed ==
    /\ Framed(file \o ghostTail)
    /\ ghostTail # <<>> => Whole(file)
    /\ Len(ghostTail) <= RecordCells

HandleTrue == open => header = "ok" /\ Len(file) = records * RecordCells

(* An acknowledged record is below the floor.                               *)
InFrame(f, id, n) ==
    \E i \in Nat \ {0} : i * RecordCells <= n /\ CellAt(f, i, 1).id = id

AckedDurable ==
    /\ acked # {} => header = "ok" /\ hsynced
    /\ \A id \in acked : InFrame(file, id, floor)

JournalInv == LogTyped /\ DiskFramed /\ HandleTrue /\ AckedDurable

-----------------------------------------------------------------------------
(* Bodies                                                                   *)

(* Cell p of frame i is cell (i - 1) * RecordCells + p.                     *)
LEMMA FirstCell ==
    ASSUME NEW i \in Nat \ {0}, NEW p \in 1 .. RecordCells, NEW n \in Nat,
           (i - 1) * RecordCells + p <= n
    PROVE  /\ (i - 1) * RecordCells + p \in 1 .. n
           /\ (i - 1) * RecordCells + 1 \in 1 .. n
<1>1. i - 1 \in Nat /\ (i - 1) * RecordCells \in Nat
  BY EventLogAssumption
<1> QED BY <1>1, EventLogAssumption

(* The body that a crash leaves, or that recovery keeps, is framed.         *)
LEMMA FramedPrefix ==
    ASSUME NEW f \in Seq(Body), NEW g \in Seq(Body), Framed(f), Len(g) <= Len(f),
           \A k \in 1 .. Len(g) : g[k] = f[k]
    PROVE  Framed(g)
<1> SUFFICES ASSUME NEW i \in Nat \ {0}, NEW p \in 1 .. RecordCells,
                    (i - 1) * RecordCells + p <= Len(g)
             PROVE  CellAt(g, i, p) = [id |-> CellAt(g, i, 1).id, part |-> p]
  BY DEF Framed
<1>1. /\ (i - 1) * RecordCells + p \in 1 .. Len(g)
      /\ (i - 1) * RecordCells + 1 \in 1 .. Len(g)
  BY FirstCell
<1>2. CellAt(g, i, p) = CellAt(f, i, p) /\ CellAt(g, i, 1) = CellAt(f, i, 1)
  BY <1>1 DEF CellAt
<1>3. (i - 1) * RecordCells + p <= Len(f)
  BY <1>1
<1>4. CellAt(f, i, p) = [id |-> CellAt(f, i, 1).id, part |-> p]
  BY <1>3 DEF Framed
<1> QED BY <1>2, <1>4

LEMMA CellsTyped ==
    ASSUME NEW id \in 1 .. MaxAppends, NEW k \in 0 .. RecordCells
    PROVE  /\ Cells(id, k) \in Seq(Body) /\ Len(Cells(id, k)) = k
           /\ \A p \in 1 .. k : Cells(id, k)[p] = [id |-> id, part |-> p]
<1>1. \A p \in 1 .. k : [id |-> id, part |-> p] \in Body
  BY EventLogAssumption DEF Body
<1>2. k \in Nat
  BY EventLogAssumption
<1> QED BY <1>1, <1>2 DEF Cells

(* The file is the part of the disk before the cells that were cut off.     *)
LEMMA DiskOf ==
    ASSUME NEW f \in Seq(Body), NEW g \in Seq(Body)
    PROVE  /\ f \o g \in Seq(Body) /\ Len(f \o g) = Len(f) + Len(g)
           /\ \A k \in 1 .. Len(f) : (f \o g)[k] = f[k]
           /\ \A k \in 1 .. Len(g) : (f \o g)[Len(f) + k] = g[k]
  OBVIOUS

(* Cells of one record after whole records.                                 *)
LEMMA FramedAppend ==
    ASSUME NEW f \in Seq(Body), Framed(f), NEW n \in Nat, Len(f) = n * RecordCells,
           NEW id \in 1 .. MaxAppends, NEW k \in 0 .. RecordCells
    PROVE  Framed(f \o Cells(id, k))
<1> DEFINE g == f \o Cells(id, k)
<1>1. /\ g \in Seq(Body) /\ Len(g) = Len(f) + k
      /\ \A j \in 1 .. Len(f) : g[j] = f[j]
      /\ \A p \in 1 .. k : g[Len(f) + p] = [id |-> id, part |-> p]
  <2> DEFINE c == Cells(id, k)
  <2>1. /\ c \in Seq(Body) /\ Len(c) = k
        /\ \A p \in 1 .. k : c[p] = [id |-> id, part |-> p]
    BY CellsTyped
  <2> HIDE DEF c
  <2>2. /\ f \o c \in Seq(Body) /\ Len(f \o c) = Len(f) + Len(c)
        /\ \A j \in 1 .. Len(f) : (f \o c)[j] = f[j]
        /\ \A p \in 1 .. Len(c) : (f \o c)[Len(f) + p] = c[p]
    BY <2>1, DiskOf
  <2> QED BY <2>1, <2>2 DEF c
<1> HIDE DEF g
<1> SUFFICES ASSUME NEW i \in Nat \ {0}, NEW p \in 1 .. RecordCells,
                    (i - 1) * RecordCells + p <= Len(g)
             PROVE  CellAt(g, i, p) = [id |-> CellAt(g, i, 1).id, part |-> p]
  BY DEF Framed, g
<1>2. i - 1 \in Nat /\ (i - 1) * RecordCells \in Nat /\ RecordCells \in Nat
  BY EventLogAssumption
<1>3. (i - 1) * RecordCells < n * RecordCells + RecordCells
  BY <1>1, <1>2, EventLogAssumption
<1>4. i - 1 <= n
  BY <1>2, <1>3, MulLess
<1>5. CASE i - 1 = n
  <2>1. (i - 1) * RecordCells = Len(f) /\ p \in 1 .. k
    BY <1>1, <1>2, <1>5
  <2>2. 1 \in 1 .. k
    BY <2>1, EventLogAssumption
  <2>3. g[Len(f) + p] = [id |-> id, part |-> p] /\ g[Len(f) + 1] = [id |-> id, part |-> 1]
    BY <1>1, <2>1, <2>2
  <2> QED BY <2>1, <2>3 DEF CellAt
<1>6. CASE i <= n
  <2>1. i * RecordCells <= Len(f)
    BY <1>6, MulMono
  <2>2. i * RecordCells = (i - 1) * RecordCells + RecordCells
    BY EventLogAssumption
  <2>3. (i - 1) * RecordCells + p <= Len(f)
    BY <1>2, <2>1, <2>2
  <2>4. /\ (i - 1) * RecordCells + p \in 1 .. Len(f)
        /\ (i - 1) * RecordCells + 1 \in 1 .. Len(f)
    BY <2>3, FirstCell
  <2>5. CellAt(g, i, p) = CellAt(f, i, p) /\ CellAt(g, i, 1) = CellAt(f, i, 1)
    BY <1>1, <2>4 DEF CellAt
  <2>6. CellAt(f, i, p) = [id |-> CellAt(f, i, 1).id, part |-> p]
    BY <2>3 DEF Framed
  <2> QED BY <2>5, <2>6
<1>7. i - 1 = n \/ i <= n BY <1>4
<1> QED BY <1>5, <1>6, <1>7

LEMMA FileFramed == LogTyped /\ DiskFramed => Framed(file)
<1> SUFFICES ASSUME LogTyped, DiskFramed PROVE Framed(file)
  OBVIOUS
<1> DEFINE disk == file \o ghostTail
<1>1. /\ disk \in Seq(Body) /\ Len(file) <= Len(disk) /\ file \in Seq(Body)
      /\ \A k \in 1 .. Len(file) : file[k] = disk[k]
  BY DiskOf DEF LogTyped
<1>2. Framed(disk)
  BY DEF DiskFramed
<1> HIDE DEF disk
<1> QED BY <1>1, <1>2, FramedPrefix

(* A frame below the floor is where it was in every body that agrees with   *)
(* the old one up to the floor.                                             *)
LEMMA InFrameKept ==
    ASSUME NEW f \in Seq(Body), NEW g \in Seq(Body), NEW id, NEW m \in Nat, NEW n \in Nat,
           InFrame(f, id, m), \A k \in 1 .. m : k <= n => g[k] = f[k],
           m <= n \/ n = (m \div RecordCells) * RecordCells
    PROVE  InFrame(g, id, n)
<1>1. PICK i \in Nat \ {0} : i * RecordCells <= m /\ CellAt(f, i, 1).id = id
  BY DEF InFrame
<1>2. i * RecordCells = (i - 1) * RecordCells + RecordCells /\ (i - 1) * RecordCells \in Nat
  BY EventLogAssumption
<1>3. (i - 1) * RecordCells + 1 \in 1 .. m
  BY <1>1, <1>2, EventLogAssumption
<1>4. i * RecordCells <= n
  <2>1. CASE m <= n
    BY <1>1, <1>2, <2>1, EventLogAssumption
  <2>2. CASE n = (m \div RecordCells) * RecordCells
    BY <1>1, <2>2, FrameWhole, MulMono, DivMod
  <2> QED BY <2>1, <2>2
<1>5. (i - 1) * RecordCells + 1 <= n
  BY <1>2, <1>4, EventLogAssumption
<1>6. CellAt(g, i, 1) = CellAt(f, i, 1)
  BY <1>3, <1>5 DEF CellAt
<1> QED BY <1>1, <1>4, <1>6 DEF InFrame

LEMMA EmptyTail ==
    ASSUME NEW f \in Seq(Body)
    PROVE  f \o <<>> = f
  OBVIOUS

LEMMA PrefixOf ==
    ASSUME NEW S, NEW f \in Seq(S), NEW n \in 0 .. Len(f)
    PROVE  /\ SubSeq(f, 1, n) \in Seq(S) /\ Len(SubSeq(f, 1, n)) = n
           /\ \A k \in 1 .. n : SubSeq(f, 1, n)[k] = f[k]
  OBVIOUS

(* Recovery keeps the whole frames.                                         *)
LEMMA CutIsWhole ==
    ASSUME NEW f \in Seq(Body)
    PROVE  /\ CutLength(f) = NumFrames(f) * RecordCells
           /\ CutLength(f) \in 0 .. Len(f) /\ NumFrames(f) \in Nat
           /\ Len(f) < CutLength(f) + RecordCells
<1> DEFINE n == Len(f)
           q == n \div RecordCells
           m == n % RecordCells
<1>1. n \in Nat
  OBVIOUS
<1> HIDE DEF n
<1>2. q \in Nat /\ m \in 0 .. RecordCells - 1 /\ n = q * RecordCells + m
  BY <1>1, DivMod
<1>3. CutLength(f) = n - m /\ NumFrames(f) = q
  BY DEF CutLength, NumFrames, n
<1> HIDE DEF q, m
<1>4. q * RecordCells \in Nat /\ n - m = q * RecordCells
  BY <1>1, <1>2, EventLogAssumption
<1> QED BY <1>1, <1>2, <1>3, <1>4, EventLogAssumption DEF n

-----------------------------------------------------------------------------
(* The actions                                                              *)

LEMMA JournalInitial == JournalInit => JournalInv
<1> SUFFICES ASSUME JournalInit PROVE JournalInv
  OBVIOUS
<1>2. Len(<<>>) = 0 /\ <<>> \o <<>> = <<>> /\ <<>> \in Seq(Body)
  OBVIOUS
<1>1. LogTyped
  <2>1. header \in {"absent", "torn", "ok"} /\ version \in {1, 2} /\ hsynced \in BOOLEAN
    BY EventLogAssumption DEF JournalInit
  <2>2. file \in Seq(Body) /\ ghostTail \in Seq(Body) /\ floor \in Nat /\ floor <= Len(file)
    BY <1>2 DEF JournalInit
  <2>3. open \in BOOLEAN /\ writable \in BOOLEAN
    BY DEF JournalInit
  <2>4. records \in Nat /\ appends \in 0 .. MaxAppends
    BY EventLogAssumption DEF JournalInit
  <2> QED BY <2>1, <2>2, <2>3, <2>4 DEF LogTyped
<1>3. Framed(<<>>)
  BY <1>2, FirstCell DEF Framed
<1>4. DiskFramed
  BY <1>2, <1>3, EventLogAssumption DEF JournalInit, DiskFramed
<1>5. HandleTrue /\ AckedDurable
  BY DEF JournalInit, HandleTrue, AckedDurable
<1> QED BY <1>1, <1>4, <1>5 DEF JournalInv

LEMMA CreateKeeps ==
    ASSUME JournalInv, NEW exclusive, Create(exclusive)
    PROVE  JournalInv'
<1>2. Len(<<>>) = 0 /\ <<>> \o <<>> = <<>> /\ <<>> \in Seq(Body)
  OBVIOUS
<1>1. LogTyped'
  <2>1. /\ header' \in {"absent", "torn", "ok"} /\ version' \in {1, 2} /\ hsynced' \in BOOLEAN
    BY DEF Create
  <2>2. /\ file' \in Seq(Body) /\ ghostTail' \in Seq(Body)
        /\ floor' \in Nat /\ floor' <= Len(file')
    BY <1>2 DEF Create
  <2>3. open' \in BOOLEAN /\ writable' \in BOOLEAN
    BY DEF Create, JournalInv, LogTyped, handleVars
  <2>4. records' \in Nat /\ appends' \in 0 .. MaxAppends
    BY DEF Create, JournalInv, LogTyped, handleVars
  <2> QED BY <2>1, <2>2, <2>3, <2>4 DEF LogTyped
<1>3. Framed(<<>>)
  BY <1>2, FirstCell DEF Framed
<1>4. file' = <<>> /\ ghostTail' = <<>>
  BY DEF Create
<1>5. DiskFramed'
  BY <1>2, <1>3, <1>4, EventLogAssumption DEF DiskFramed, Framed
<1>6. HandleTrue'
  <2>1. ~open' \/ (header' = "ok" /\ records' = 0)
    BY DEF Create, handleVars
  <2>2. Len(file') = 0 * RecordCells
    BY <1>2, <1>4, EventLogAssumption
  <2> QED BY <2>1, <2>2 DEF HandleTrue
<1>7. AckedDurable'
  BY DEF Create, AckedDurable
<1> QED BY <1>1, <1>5, <1>6, <1>7 DEF JournalInv

LEMMA OpenWholeKeeps ==
    ASSUME JournalInv, NEW mode, OpenWhole(mode)
    PROVE  JournalInv'
<1>1. UNCHANGED <<header, version, file, floor, hsynced, ghostTail, appends, acked>>
  BY DEF OpenWhole, diskVars
<1>2. DiskFramed' /\ AckedDurable'
  BY <1>1 DEF JournalInv, DiskFramed, AckedDurable
<1>3. /\ file \in Seq(Body) /\ NumFrames(file) \in Nat
      /\ Len(file) = NumFrames(file) * RecordCells
  BY CutIsWhole DEF JournalInv, LogTyped, OpenWhole
<1>4. LogTyped'
  BY <1>1, <1>3 DEF JournalInv, LogTyped, OpenWhole, Opened, RecordsOf, handleVars
<1>5. HandleTrue'
  BY <1>1, <1>3 DEF JournalInv, HandleTrue, OpenWhole, Opened, RecordsOf, handleVars
<1> QED BY <1>2, <1>4, <1>5 DEF JournalInv

LEMMA OpenRecoverKeeps ==
    ASSUME JournalInv, OpenRecover
    PROVE  JournalInv'
<1> DEFINE n    == CutLength(file)
           kept == SubSeq(file, 1, n)
           cut  == SubSeq(file, n + 1, Len(file))
<1>1. /\ file \in Seq(Body) /\ n \in 0 .. Len(file) /\ NumFrames(file) \in Nat
      /\ n = NumFrames(file) * RecordCells /\ Len(file) < n + RecordCells
      /\ floor \in Nat /\ floor <= Len(file)
  BY CutIsWhole DEF JournalInv, LogTyped
<1>2. /\ kept \in Seq(Body) /\ Len(kept) = n
      /\ \A k \in 1 .. n : kept[k] = file[k]
  BY <1>1, PrefixOf
<1>3. /\ cut \in Seq(Body) /\ Len(cut) = Len(file) - n
      /\ \A k \in 1 .. Len(file) - n : cut[k] = file[n + k]
  BY <1>1
<1>4. Framed(file)
  BY FileFramed DEF JournalInv
<1>5. /\ ~open /\ header = "ok" /\ file' = kept
      /\ UNCHANGED <<header, version, appends, acked>>
      /\ \/ /\ floor' = n /\ ghostTail' = <<>> /\ hsynced' = TRUE
            /\ Opened(kept, "recover")
         \/ /\ floor' = IF floor < n THEN floor ELSE n
            /\ ghostTail' = cut
            /\ UNCHANGED <<hsynced, handleVars>>
  BY <1>2 DEF OpenRecover
<1> HIDE DEF kept, cut, n
<1>6. Framed(kept)
  BY <1>1, <1>2, <1>4, FramedPrefix
<1>7. Framed(kept \o cut)
  <2>1. /\ kept \o cut \in Seq(Body) /\ Len(kept \o cut) = Len(file)
        /\ \A k \in 1 .. n : (kept \o cut)[k] = kept[k]
        /\ \A k \in 1 .. Len(file) - n : (kept \o cut)[n + k] = cut[k]
    <3>1. Len(kept) + Len(cut) = Len(file)
      BY <1>1, <1>2, <1>3
    <3> QED BY <1>2, <1>3, <3>1, DiskOf
  <2>2. \A k \in 1 .. Len(file) : (kept \o cut)[k] = file[k]
    <3> SUFFICES ASSUME NEW k \in 1 .. Len(file) PROVE (kept \o cut)[k] = file[k]
      OBVIOUS
    <3>1. CASE k <= n
      <4>1. k \in 1 .. n
        BY <1>1, <3>1
      <4>2. (kept \o cut)[k] = kept[k]
        BY <2>1, <4>1
      <4>3. kept[k] = file[k]
        BY <1>2, <4>1
      <4> QED BY <4>2, <4>3
    <3>2. CASE k > n
      <4>1. k - n \in 1 .. Len(file) - n /\ n + (k - n) = k
        BY <1>1, <3>2
      <4>2. (kept \o cut)[n + (k - n)] = cut[k - n] /\ cut[k - n] = file[n + (k - n)]
        BY <1>3, <2>1, <4>1
      <4> QED BY <4>1, <4>2
    <3>3. k <= n \/ k > n
      BY <1>1
    <3> QED BY <3>1, <3>2, <3>3
  <2> DEFINE both == kept \o cut
  <2>3. both \in Seq(Body) /\ Len(both) <= Len(file)
    BY <1>1, <2>1
  <2> HIDE DEF both
  <2>4. \A k \in 1 .. Len(both) : both[k] = file[k]
    BY <2>1, <2>2 DEF both
  <2>5. Framed(both)
    BY <1>1, <1>4, <2>3, <2>4, FramedPrefix
  <2> QED BY <2>5 DEF both
<1>8. NumFrames(kept) = NumFrames(file)
  <2> DEFINE q == NumFrames(file)
  <2>1. q \in Nat /\ n \in Nat /\ q * RecordCells <= n /\ n < q * RecordCells + RecordCells
    BY <1>1, EventLogAssumption
  <2> HIDE DEF q
  <2>2. n \div RecordCells = q
    BY <2>1, Quotient
  <2> QED BY <1>2, <2>2 DEF NumFrames, q
<1>9. floor' \in Nat /\ floor' <= Len(kept) /\ (floor' = n \/ floor' = floor)
  BY <1>1, <1>2, <1>5
<1>10. LogTyped'
  <2>1. file' \in Seq(Body) /\ ghostTail' \in Seq(Body) /\ floor' \in Nat /\ floor' <= Len(file')
    <3>1. file' = kept /\ (ghostTail' = <<>> \/ ghostTail' = cut)
      BY <1>5
    <3>2. <<>> \in Seq(Body)
      OBVIOUS
    <3> QED BY <1>2, <1>3, <1>9, <3>1, <3>2
  <2>2. /\ open' \in BOOLEAN /\ writable' \in BOOLEAN /\ records' \in Nat
        /\ hsynced' \in BOOLEAN
    BY <1>1, <1>5, <1>8 DEF JournalInv, LogTyped, Opened, RecordsOf, handleVars
  <2> QED BY <1>5, <2>1, <2>2 DEF JournalInv, LogTyped
<1>11. Whole(kept)
  BY <1>1, <1>2 DEF Whole
<1>12. DiskFramed'
  <2>1. CASE ghostTail' = <<>>
    BY <1>2, <1>5, <1>6, <2>1, EmptyTail, EventLogAssumption DEF DiskFramed, Framed
  <2>2. CASE ghostTail' = cut
    <3>1. Len(cut) <= RecordCells
      BY <1>1, <1>3, EventLogAssumption
    <3>2. (file \o ghostTail)' = kept \o cut
      BY <1>5, <2>2
    <3> QED BY <1>5, <1>7, <1>11, <2>2, <3>1, <3>2 DEF DiskFramed, Framed, Whole
  <2> QED BY <1>5, <2>1, <2>2
<1>13. HandleTrue'
  BY <1>1, <1>2, <1>5, <1>8 DEF HandleTrue, Opened, RecordsOf, handleVars
<1>14. ASSUME NEW id \in acked
       PROVE  InFrame(kept, id, floor')
  <2>1. InFrame(file, id, floor)
    BY <1>14 DEF JournalInv, AckedDurable
  <2>2. floor <= floor' \/ floor' = (floor \div RecordCells) * RecordCells
    <3>1. CASE floor <= n
      BY <1>1, <1>5, <3>1
    <3>2. CASE floor > n
      <4> DEFINE q == NumFrames(file)
      <4>1. q \in Nat /\ q * RecordCells <= floor /\ floor < q * RecordCells + RecordCells
        BY <1>1, <3>2, EventLogAssumption
      <4> HIDE DEF q
      <4>2. floor \div RecordCells = q
        BY <1>1, <4>1, Quotient
      <4> QED BY <1>1, <1>5, <3>2, <4>2 DEF q
    <3> QED BY <1>1, <3>1, <3>2
  <2>3. \A k \in 1 .. floor : k <= floor' => kept[k] = file[k]
    BY <1>1, <1>2, <1>9
  <2> QED BY <1>1, <1>2, <1>9, <2>1, <2>2, <2>3, InFrameKept
<1>15. AckedDurable'
  BY <1>5, <1>14 DEF JournalInv, AckedDurable, InFrame
<1> QED BY <1>10, <1>12, <1>13, <1>15 DEF JournalInv

(* An append leaves its record at the end of the file, or takes it back.    *)
WrittenStep ==
    /\ file' = file \o Cells(NextId, RecordCells)
    /\ ghostTail' = <<>> /\ records' = records + 1
    /\ \/ UNCHANGED <<floor, hsynced, acked>>
       \/ floor' = Len(file') /\ hsynced' = TRUE /\ acked' = acked \cup {NextId}

UndoneStep ==
    /\ UNCHANGED <<file, records, acked>>
    /\ \/ floor' = Len(file) /\ hsynced' = TRUE /\ ghostTail' = <<>>
       \/ /\ \E k \in 0 .. RecordCells : ghostTail' = Cells(NextId, k)
          /\ UNCHANGED <<floor, hsynced>>

LEMMA AppendOutcomes ==
    ASSUME JournalInv, ~TornWritesStay, AppendRecord \/ AppendDurable
    PROVE  /\ open /\ NextId \in 1 .. MaxAppends /\ appends' = appends + 1
           /\ UNCHANGED <<header, version, open, writable>>
           /\ WrittenStep \/ UndoneStep
<1>1. /\ MayAppend /\ appends' = appends + 1 /\ UNCHANGED <<header, version, open, writable>>
  BY DEF AppendRecord, AppendDurable
<1>2. open /\ NextId \in 1 .. MaxAppends
  BY <1>1, EventLogAssumption DEF MayAppend, NextId, JournalInv, LogTyped
<1>3. ASSUME NEW k \in 0 .. RecordCells - 1, FailedWrite(k)
      PROVE  UndoneStep
  <2>1. k \in 0 .. RecordCells
    BY EventLogAssumption
  <2> QED BY <1>3, <2>1 DEF FailedWrite, Restored, UndoneStep
<1>4. DurableWritten => WrittenStep \/ UndoneStep
  <2>1. RecordCells \in 0 .. RecordCells
    BY EventLogAssumption
  <2> QED BY <2>1 DEF DurableWritten, SyncedLength, WrittenStep, UndoneStep
<1>5. WrittenStep \/ UndoneStep
  <2>1. CASE AppendRecord
    BY <1>3, <2>1 DEF AppendRecord, WrittenStep
  <2>2. CASE AppendDurable
    BY <1>3, <1>4, <2>2 DEF AppendDurable
  <2> QED BY <2>1, <2>2
<1> QED BY <1>1, <1>2, <1>5

(* The file after an append.                                                *)
LEMMA WrittenFile ==
    ASSUME JournalInv, open, NextId \in 1 .. MaxAppends, WrittenStep
    PROVE  /\ file' \in Seq(Body) /\ Framed(file') /\ Len(file') = Len(file) + RecordCells
           /\ Len(file') = (records + 1) * RecordCells
           /\ \A k \in 1 .. Len(file) : file'[k] = file[k]
           /\ file'[Len(file) + 1] = [id |-> NextId, part |-> 1]
<1> DEFINE c == Cells(NextId, RecordCells)
<1>1. /\ file \in Seq(Body) /\ records \in Nat /\ Len(file) = records * RecordCells
      /\ RecordCells \in 0 .. RecordCells /\ 1 \in 1 .. RecordCells
  BY EventLogAssumption DEF JournalInv, LogTyped, HandleTrue
<1>2. /\ c \in Seq(Body) /\ Len(c) = RecordCells
      /\ c[1] = [id |-> NextId, part |-> 1]
  BY <1>1, CellsTyped
<1>3. file' = file \o c
  BY DEF WrittenStep
<1>4. Framed(file \o c)
  BY <1>1, FileFramed, FramedAppend DEF JournalInv
<1> HIDE DEF c
<1>5. /\ file \o c \in Seq(Body) /\ Len(file \o c) = Len(file) + Len(c)
      /\ \A k \in 1 .. Len(file) : (file \o c)[k] = file[k]
      /\ \A k \in 1 .. Len(c) : (file \o c)[Len(file) + k] = c[k]
  BY <1>1, <1>2, DiskOf
<1>6. (records + 1) * RecordCells = records * RecordCells + RecordCells
  BY <1>1, EventLogAssumption
<1>7. /\ file' \in Seq(Body) /\ Len(file') = Len(file) + RecordCells
      /\ \A k \in 1 .. Len(file) : file'[k] = file[k]
      /\ file'[Len(file) + 1] = [id |-> NextId, part |-> 1]
  BY <1>1, <1>2, <1>3, <1>5
<1>8. Framed(file')
  BY <1>3, <1>4
<1> QED BY <1>1, <1>6, <1>7, <1>8

LEMMA WrittenKeeps ==
    ASSUME JournalInv, open, NextId \in 1 .. MaxAppends, appends' = appends + 1,
           UNCHANGED <<header, version, open, writable>>, WrittenStep
    PROVE  JournalInv'
<1>1. /\ file' \in Seq(Body) /\ Framed(file') /\ Len(file') = Len(file) + RecordCells
      /\ Len(file') = (records + 1) * RecordCells
      /\ \A k \in 1 .. Len(file) : file'[k] = file[k]
      /\ file'[Len(file) + 1] = [id |-> NextId, part |-> 1]
  BY WrittenFile
<1>2. /\ ghostTail' = <<>> /\ records' = records + 1
      /\ \/ UNCHANGED <<floor, hsynced, acked>>
         \/ floor' = Len(file') /\ hsynced' = TRUE /\ acked' = acked \cup {NextId}
  BY DEF WrittenStep
<1>3. /\ file \in Seq(Body) /\ records \in Nat /\ floor \in Nat /\ floor <= Len(file)
      /\ Len(file) = records * RecordCells /\ Len(file) \in Nat
  BY DEF JournalInv, LogTyped, HandleTrue
<1>4. floor' \in Nat /\ floor' <= Len(file') /\ floor <= floor'
  BY <1>1, <1>2, <1>3, EventLogAssumption
<1>5. LogTyped'
  <2>1. appends' \in 0 .. MaxAppends
    BY DEF JournalInv, LogTyped, NextId
  <2>2. hsynced' \in BOOLEAN
    BY <1>2 DEF JournalInv, LogTyped
  <2>3. ghostTail' \in Seq(Body) /\ records' \in Nat
    BY <1>2, <1>3
  <2> QED BY <1>1, <1>4, <2>1, <2>2, <2>3 DEF JournalInv, LogTyped
<1>6. DiskFramed'
  <2>1. (file \o ghostTail)' = file' /\ Len(ghostTail') = 0
    BY <1>1, <1>2, EmptyTail
  <2> QED BY <1>1, <1>2, <2>1, EventLogAssumption DEF DiskFramed, Framed
<1>7. HandleTrue'
  BY <1>1, <1>2 DEF JournalInv, HandleTrue
<1>8. ASSUME NEW id \in acked'
      PROVE  InFrame(file', id, floor')
  <2>1. CASE id \in acked
    <3>1. InFrame(file, id, floor)
      BY <2>1 DEF JournalInv, AckedDurable
    <3>2. \A k \in 1 .. floor : k <= floor' => file'[k] = file[k]
      BY <1>1, <1>3
    <3> QED BY <1>1, <1>3, <1>4, <3>1, <3>2, InFrameKept
  <2>2. CASE id \notin acked
    <3>1. id = NextId /\ floor' = (records + 1) * RecordCells
      BY <1>1, <1>2, <1>8, <2>2
    <3>2. /\ records + 1 \in Nat \ {0}
          /\ ((records + 1) - 1) * RecordCells + 1 = Len(file) + 1
      BY <1>3, EventLogAssumption
    <3>3. CellAt(file', records + 1, 1).id = id
      BY <1>1, <3>1, <3>2 DEF CellAt
    <3> QED BY <1>4, <3>1, <3>2, <3>3 DEF InFrame
  <2> QED BY <2>1, <2>2
<1>9. header = "ok" /\ (acked' # {} => hsynced')
  BY <1>2 DEF JournalInv, HandleTrue, AckedDurable
<1>10. AckedDurable'
  BY <1>8, <1>9 DEF AckedDurable, InFrame
<1> QED BY <1>5, <1>6, <1>7, <1>10 DEF JournalInv

LEMMA UndoneKeeps ==
    ASSUME JournalInv, open, NextId \in 1 .. MaxAppends, appends' = appends + 1,
           UNCHANGED <<header, version, open, writable>>, UndoneStep
    PROVE  JournalInv'
<1>1. /\ file' = file /\ records' = records /\ acked' = acked
      /\ \/ floor' = Len(file) /\ hsynced' = TRUE /\ ghostTail' = <<>>
         \/ /\ \E k \in 0 .. RecordCells : ghostTail' = Cells(NextId, k)
            /\ UNCHANGED <<floor, hsynced>>
  BY DEF UndoneStep
<1>2. /\ file \in Seq(Body) /\ records \in Nat /\ floor \in Nat /\ floor <= Len(file)
      /\ Len(file) = records * RecordCells /\ Len(file) \in Nat
  BY DEF JournalInv, LogTyped, HandleTrue
<1>3. floor' \in Nat /\ floor' <= Len(file) /\ floor <= floor'
  BY <1>1, <1>2
<1>4. Framed(file)
  BY FileFramed DEF JournalInv
<1>5. /\ ghostTail' \in Seq(Body) /\ Len(ghostTail') <= RecordCells
      /\ Framed(file \o ghostTail')
  <2>1. CASE ghostTail' = <<>>
    BY <1>2, <1>4, <2>1, EmptyTail, EventLogAssumption
  <2>2. ASSUME NEW k \in 0 .. RecordCells, ghostTail' = Cells(NextId, k)
        PROVE  /\ ghostTail' \in Seq(Body) /\ Len(ghostTail') <= RecordCells
               /\ Framed(file \o ghostTail')
    <3>1. k <= RecordCells
      BY EventLogAssumption
    <3>2. Cells(NextId, k) \in Seq(Body) /\ Len(Cells(NextId, k)) = k
      BY CellsTyped
    <3>3. Framed(file \o Cells(NextId, k))
      BY <1>2, <1>4, FramedAppend
    <3> QED BY <2>2, <3>1, <3>2, <3>3
  <2> QED BY <1>1, <2>1, <2>2
<1>6. DiskFramed'
  <2>1. (file \o ghostTail)' = file \o ghostTail'
    BY <1>1
  <2>2. Whole(file)'
    BY <1>1, <1>2 DEF Whole
  <2> QED BY <1>5, <2>1, <2>2 DEF DiskFramed, Framed
<1>7. LogTyped'
  <2>1. appends' \in 0 .. MaxAppends
    BY DEF JournalInv, LogTyped, NextId
  <2>2. hsynced' \in BOOLEAN
    BY <1>1 DEF JournalInv, LogTyped
  <2>3. file' \in Seq(Body) /\ floor' <= Len(file') /\ records' \in Nat
    BY <1>1, <1>2, <1>3
  <2> QED BY <1>3, <1>5, <2>1, <2>2, <2>3 DEF JournalInv, LogTyped
<1>8. HandleTrue'
  BY <1>1 DEF JournalInv, HandleTrue
<1>9. ASSUME NEW id \in acked
      PROVE  InFrame(file, id, floor')
  <2>1. InFrame(file, id, floor)
    BY DEF JournalInv, AckedDurable
  <2> QED BY <1>2, <1>3, <2>1, InFrameKept
<1>10. acked # {} => header = "ok" /\ hsynced'
  BY <1>1 DEF JournalInv, AckedDurable
<1>11. AckedDurable'
  BY <1>1, <1>9, <1>10 DEF AckedDurable, InFrame
<1> QED BY <1>6, <1>7, <1>8, <1>11 DEF JournalInv

LEMMA SyncKeeps ==
    ASSUME JournalInv, Sync
    PROVE  JournalInv'
<1>1. /\ floor' = Len(file) /\ hsynced' = TRUE /\ ghostTail' = <<>>
      /\ UNCHANGED <<header, version, file, open, writable, records, appends, acked>>
  BY DEF Sync, handleVars
<1>2. file \in Seq(Body) /\ floor \in Nat /\ floor <= Len(file) /\ Len(file) \in Nat
  BY DEF JournalInv, LogTyped
<1>3. LogTyped'
  BY <1>1, <1>2 DEF JournalInv, LogTyped
<1>4. DiskFramed'
  <2>1. Framed(file) /\ (file \o ghostTail)' = file /\ Len(ghostTail') = 0
    BY <1>1, <1>2, FileFramed, EmptyTail DEF JournalInv
  <2> QED BY <1>1, <2>1, EventLogAssumption DEF DiskFramed, Framed
<1>5. HandleTrue'
  BY <1>1 DEF JournalInv, HandleTrue
<1>6. \A id \in acked : InFrame(file, id, Len(file))
  BY <1>2, InFrameKept DEF JournalInv, AckedDurable
<1>7. AckedDurable'
  BY <1>1, <1>6 DEF JournalInv, AckedDurable, InFrame
<1> QED BY <1>3, <1>4, <1>5, <1>7 DEF JournalInv

LEMMA CloseKeeps ==
    ASSUME JournalInv, Close
    PROVE  JournalInv'
<1>1. UNCHANGED <<header, version, file, floor, hsynced, ghostTail, appends, acked>>
  BY DEF Close, diskVars
<1>2. open' = FALSE /\ writable' = FALSE /\ records' = 0
  BY DEF Close
<1>3. LogTyped'
  BY <1>1, <1>2 DEF JournalInv, LogTyped
<1>4. DiskFramed' /\ AckedDurable' /\ HandleTrue'
  BY <1>1, <1>2 DEF JournalInv, DiskFramed, AckedDurable, HandleTrue
<1> QED BY <1>3, <1>4 DEF JournalInv

(* What survives a crash is a part of the disk that holds the floor.        *)
LEMMA CrashKeeps ==
    ASSUME JournalInv, Crash
    PROVE  JournalInv'
<1> DEFINE disk == file \o ghostTail
<1>1. /\ file \in Seq(Body) /\ ghostTail \in Seq(Body)
      /\ floor \in Nat /\ floor <= Len(file) /\ Len(file) \in Nat /\ Len(ghostTail) \in Nat
  BY DEF JournalInv, LogTyped
<1>2. /\ disk \in Seq(Body) /\ Len(disk) = Len(file) + Len(ghostTail)
      /\ \A k \in 1 .. Len(file) : disk[k] = file[k]
  BY <1>1, DiskOf
<1>3. Framed(disk)
  BY DEF JournalInv, DiskFramed
<1>4. /\ open' = FALSE /\ writable' = FALSE /\ records' = 0 /\ ghostTail' = <<>>
      /\ hsynced' = TRUE /\ UNCHANGED <<version, appends, acked>>
      /\ \/ /\ \E n \in floor .. Len(disk) : file' = SubSeq(disk, 1, n) /\ floor' = n
            /\ UNCHANGED header
         \/ ~hsynced /\ header' = "torn" /\ file' = <<>> /\ floor' = 0
  BY DEF Crash
<1> HIDE DEF disk
<1>5. HandleTrue'
  BY <1>4 DEF HandleTrue
<1>6. ASSUME NEW n \in floor .. Len(disk), file' = SubSeq(disk, 1, n), floor' = n,
             UNCHANGED header
      PROVE  JournalInv'
  <2>1. n \in 0 .. Len(disk) /\ n \in Nat /\ floor <= n
    BY <1>1, <1>2
  <2>2. /\ file' \in Seq(Body) /\ Len(file') = n
        /\ \A k \in 1 .. n : file'[k] = disk[k]
    BY <1>2, <1>6, <2>1, PrefixOf
  <2>3. Framed(file')
    BY <1>2, <1>3, <2>1, <2>2, FramedPrefix
  <2>4. DiskFramed'
    <3>1. (file \o ghostTail)' = file' /\ Len(ghostTail') = 0
      BY <1>4, <2>2, EmptyTail
    <3> QED BY <1>4, <2>3, <3>1, EventLogAssumption DEF DiskFramed, Framed
  <2>5. LogTyped'
    <3>1. file' \in Seq(Body) /\ ghostTail' \in Seq(Body) /\ floor' \in Nat
          /\ floor' <= Len(file') /\ records' \in Nat
      BY <1>4, <1>6, <2>1, <2>2
    <3> QED BY <1>4, <1>6, <3>1 DEF JournalInv, LogTyped
  <2>6. ASSUME NEW id \in acked
        PROVE  InFrame(file', id, n)
    <3>1. InFrame(file, id, floor)
      BY DEF JournalInv, AckedDurable
    <3>2. \A k \in 1 .. floor : k <= n => k \in 1 .. n /\ k \in 1 .. Len(file)
      BY <1>1, <2>1
    <3>3. \A k \in 1 .. floor : k <= n => file'[k] = file[k]
      BY <1>2, <2>2, <3>2
    <3> QED BY <1>1, <2>1, <2>2, <3>1, <3>3, InFrameKept
  <2>7. AckedDurable'
    BY <1>4, <1>6, <2>6 DEF JournalInv, AckedDurable, InFrame
  <2> QED BY <1>5, <2>4, <2>5, <2>7 DEF JournalInv
<1>7. CASE ~hsynced /\ header' = "torn" /\ file' = <<>> /\ floor' = 0
  <2>1. Len(<<>>) = 0 /\ <<>> \o <<>> = <<>> /\ <<>> \in Seq(Body)
    OBVIOUS
  <2>2. Framed(<<>>)
    BY <2>1, FirstCell DEF Framed
  <2>3. DiskFramed'
    BY <1>4, <1>7, <2>1, <2>2, EventLogAssumption DEF DiskFramed, Framed
  <2>4. LogTyped'
    <3>1. file' = <<>> /\ ghostTail' = <<>> /\ floor' = 0 /\ records' = 0
      BY <1>4, <1>7
    <3>2. file' \in Seq(Body) /\ ghostTail' \in Seq(Body)
      BY <2>1, <3>1
    <3>3. floor' \in Nat /\ floor' <= Len(file') /\ records' \in Nat
      BY <2>1, <3>1
    <3> QED BY <1>4, <1>7, <3>2, <3>3 DEF JournalInv, LogTyped
  <2>5. acked = {}
    BY <1>7 DEF JournalInv, AckedDurable
  <2>6. AckedDurable'
    BY <1>4, <2>5 DEF AckedDurable
  <2> QED BY <1>5, <2>3, <2>4, <2>6 DEF JournalInv
<1> QED BY <1>4, <1>6, <1>7

LEMMA JournalStep == ~TornWritesStay /\ JournalInv /\ [JournalNext]_journalVars => JournalInv'
<1> SUFFICES ASSUME ~TornWritesStay, JournalInv, [JournalNext]_journalVars PROVE JournalInv'
  OBVIOUS
<1>1. CASE UNCHANGED journalVars
  BY <1>1
  DEF journalVars, diskVars, handleVars, JournalInv, LogTyped, DiskFramed, HandleTrue, AckedDurable
<1>2. CASE AppendRecord \/ AppendDurable
  BY <1>2, AppendOutcomes, WrittenKeeps, UndoneKeeps
<1> QED BY <1>1, <1>2, CreateKeeps, OpenWholeKeeps, OpenRecoverKeeps, SyncKeeps, CloseKeeps,
           CrashKeeps DEF JournalNext

-----------------------------------------------------------------------------
(* A frame of a framed body decodes, whatever the version.                  *)
LEMMA WholeDecodes ==
    ASSUME NEW f, Framed(f), NEW n \in Nat, Len(f) = n * RecordCells, NEW i \in 1 .. n
    PROVE  Intact(f, i)
<1> SUFFICES ASSUME NEW p \in 1 .. RecordCells
             PROVE  CellAt(f, i, p) = [id |-> CellAt(f, i, 1).id, part |-> p]
  BY DEF Intact
<1>1. i \in Nat \ {0} /\ i * RecordCells <= n * RecordCells
  BY MulMono
<1>2. i * RecordCells = (i - 1) * RecordCells + RecordCells /\ (i - 1) * RecordCells \in Int
  BY <1>1, EventLogAssumption
<1>3. n * RecordCells \in Int /\ i * RecordCells \in Int
  BY EventLogAssumption
<1>4. (i - 1) * RecordCells + p <= Len(f)
  BY <1>1, <1>2, <1>3, EventLogAssumption
<1> QED BY <1>1, <1>4 DEF Framed

LEMMA AckedRead == JournalInv => AckedReadable
<1> SUFFICES ASSUME JournalInv, open, NEW id \in acked
             PROVE  /\ ValidRecords(file, records)
                    /\ \E i \in 1 .. records : Intact(file, i) /\ CellAt(file, i, 1).id = id
  BY DEF AckedReadable, JournalInv, AckedDurable
<1>1. /\ Framed(file) /\ records \in Nat /\ Len(file) = records * RecordCells
      /\ floor \in Nat /\ floor <= Len(file)
  BY FileFramed DEF JournalInv, LogTyped, HandleTrue
<1>2. \A i \in 1 .. records : Intact(file, i)
  BY <1>1, WholeDecodes
<1>3. ValidRecords(file, records)
  BY <1>2 DEF ValidRecords, Decodes
<1>4. PICK i \in Nat \ {0} : i * RecordCells <= floor /\ CellAt(file, i, 1).id = id
  BY DEF JournalInv, AckedDurable, InFrame
<1>5. i * RecordCells < records * RecordCells + RecordCells
  BY <1>1, <1>4, EventLogAssumption
<1>6. i \in 1 .. records
  BY <1>1, <1>4, <1>5, MulLess
<1> QED BY <1>2, <1>3, <1>4, <1>6

(* A record that append_durable acknowledged is read back, whatever crashes *)
(* and failed syncs, truncations and recoveries follow, until create        *)
(* discards the log.                                                        *)
THEOREM AckedStayReadable == ~TornWritesStay /\ JournalSpec => []AckedReadable
<1> SUFFICES ASSUME ~TornWritesStay PROVE JournalSpec => []AckedReadable
  OBVIOUS
<1>1. JournalInv /\ [JournalNext]_journalVars => JournalInv'
  BY JournalStep
<1> QED BY <1>1, JournalInitial, AckedRead, PTL DEF JournalSpec

-----------------------------------------------------------------------------
(* Recovery                                                                 *)

(* A whole record of a framed body is one of its frames, so that recovery   *)
(* keeps it.                                                                *)
LEMMA RecordIsFrame ==
    ASSUME NEW f \in Seq(Body), Framed(f), NEW k \in 1 .. Len(f), WholeRecordAt(f, k)
    PROVE  k + RecordCells - 1 <= CutLength(f)
<1>1. PICK i \in Nat \ {0}, p \in 1 .. RecordCells : k = (i - 1) * RecordCells + p
  BY PlaceExists
<1>2. CellAt(f, i, p) = [id |-> CellAt(f, i, 1).id, part |-> p]
  BY <1>1 DEF Framed
<1>3. 1 \in 1 .. RecordCells /\ k + 1 - 1 = k
  BY EventLogAssumption
<1>4. f[k] = [id |-> f[k].id, part |-> 1]
  BY <1>3 DEF WholeRecordAt
<1>5. f[k].part = p /\ f[k].part = 1
  <2>1. f[k].part = p
    BY <1>1, <1>2 DEF CellAt
  <2>2. f[k].part = 1
    BY <1>4
  <2> QED BY <2>1, <2>2
<1>6. k + RecordCells - 1 = i * RecordCells
  BY <1>1, <1>5, EventLogAssumption
<1>7. i * RecordCells <= Len(f) /\ Len(f) \in Nat
  BY <1>6 DEF WholeRecordAt
<1>8. i <= NumFrames(f)
  BY <1>7, FrameWhole DEF NumFrames
<1>9. CutLength(f) = NumFrames(f) * RecordCells /\ NumFrames(f) \in Nat
  BY CutIsWhole
<1> QED BY <1>6, <1>8, <1>9, MulMono

(* open_recover removes nothing of a record that is whole.                  *)
THEOREM RecoveryKeepsRecords == ~TornWritesStay /\ JournalSpec => RecoverKeepsRecords
<1> SUFFICES ASSUME ~TornWritesStay PROVE JournalSpec => RecoverKeepsRecords
  OBVIOUS
<1> DEFINE Keeps == OpenRecover =>
                      \A k \in 1 .. Len(file) :
                         WholeRecordAt(file, k) => k + RecordCells - 1 <= Len(file')
<1>1. JournalInv /\ [JournalNext]_journalVars => JournalInv'
  BY JournalStep
<1>2. JournalInv => Keeps
  <2> SUFFICES ASSUME JournalInv, OpenRecover, NEW k \in 1 .. Len(file), WholeRecordAt(file, k)
               PROVE  k + RecordCells - 1 <= Len(file')
    OBVIOUS
  <2>1. file \in Seq(Body) /\ Framed(file)
    BY FileFramed DEF JournalInv, LogTyped
  <2>2. file' = SubSeq(file, 1, CutLength(file))
    BY DEF OpenRecover
  <2>3. Len(file') = CutLength(file)
    BY <2>1, <2>2, CutIsWhole, PrefixOf
  <2> QED BY <2>1, <2>3, RecordIsFrame
<1>3. JournalInv => [Keeps]_journalVars
  BY <1>2
<1> QED BY <1>1, <1>3, JournalInitial, PTL DEF JournalSpec, RecoverKeepsRecords

-----------------------------------------------------------------------------
(* The refinement                                                           *)

(* The entries of the abstract log.                                         *)
Ent(f) == [i \in 1 .. NumFrames(f) |-> CellAt(f, i, 1).id]

LEMMA FrameInside ==
    ASSUME NEW n \in Nat, NEW i \in 1 .. (n \div RecordCells)
    PROVE  (i - 1) * RecordCells + 1 \in 1 .. n /\ i \in Nat \ {0}
<1>1. i \in Nat \ {0} /\ n \div RecordCells \in Nat
  BY DivMod
<1>2. i * RecordCells <= n
  BY <1>1, FrameWhole
<1>3. i * RecordCells = (i - 1) * RecordCells + RecordCells /\ (i - 1) * RecordCells \in Nat
  BY <1>1, EventLogAssumption
<1> QED BY <1>1, <1>2, <1>3, EventLogAssumption

LEMMA FunctionIsSeq ==
    ASSUME NEW S, NEW n \in Nat, NEW e \in [1 .. n -> S]
    PROVE  e \in Seq(S) /\ Len(e) = n
<1>1. e = [i \in 1 .. n |-> e[i]] /\ \A i \in 1 .. n : e[i] \in S
  OBVIOUS
<1>2. [i \in 1 .. n |-> e[i]] \in Seq(S)
  BY <1>1
<1> QED BY <1>1, <1>2

LEMMA EntTyped ==
    ASSUME NEW f \in Seq(Body)
    PROVE  /\ Ent(f) \in Seq(1 .. MaxAppends) /\ Len(Ent(f)) = NumFrames(f)
           /\ NumFrames(f) \in Nat
<1>1. NumFrames(f) \in Nat /\ Len(f) \in Nat
  BY CutIsWhole
<1>2. \A i \in 1 .. NumFrames(f) : CellAt(f, i, 1).id \in 1 .. MaxAppends
  <2>1. \A i \in 1 .. NumFrames(f) : (i - 1) * RecordCells + 1 \in 1 .. Len(f)
    BY <1>1, FrameInside DEF NumFrames
  <2>2. \A k \in 1 .. Len(f) : f[k] \in Body
    BY ElementOfSeq
  <2>3. \A c \in Body : c.id \in 1 .. MaxAppends
    BY DEF Body
  <2> QED BY <2>1, <2>2, <2>3 DEF CellAt
<1> DEFINE n == NumFrames(f)
<1>3. Ent(f) \in [1 .. n -> 1 .. MaxAppends] /\ n \in Nat
  BY <1>1, <1>2 DEF Ent
<1> HIDE DEF n
<1>4. Ent(f) \in Seq(1 .. MaxAppends) /\ Len(Ent(f)) = n
  BY <1>3, FunctionIsSeq
<1> QED BY <1>3, <1>4 DEF n

LEMMA EntAgree ==
    ASSUME NEW f \in Seq(Body), NEW g \in Seq(Body), NEW n \in Nat,
           n <= Len(f), n <= Len(g), \A k \in 1 .. n : g[k] = f[k]
    PROVE  \A i \in 1 .. (n \div RecordCells) : CellAt(g, i, 1) = CellAt(f, i, 1)
  BY FrameInside DEF CellAt

LEMMA EntPrefix ==
    ASSUME NEW f \in Seq(Body), NEW g \in Seq(Body), Len(g) <= Len(f),
           \A k \in 1 .. Len(g) : g[k] = f[k]
    PROVE  Ent(g) = SubSeq(Ent(f), 1, NumFrames(g)) /\ NumFrames(g) <= NumFrames(f)
<1>1. Len(f) \in Nat /\ Len(g) \in Nat
  OBVIOUS
<1>2. NumFrames(g) <= NumFrames(f)
  BY <1>1, QuotientMono DEF NumFrames
<1>3. \A i \in 1 .. NumFrames(g) : CellAt(g, i, 1) = CellAt(f, i, 1)
  BY <1>1, EntAgree DEF NumFrames
<1> DEFINE s == Ent(f)
           m == NumFrames(g)
           t == Ent(g)
<1>4. s \in Seq(1 .. MaxAppends) /\ m \in 0 .. Len(s) /\ m \in Nat
  BY <1>2, EntTyped
<1>5. t \in Seq(1 .. MaxAppends) /\ Len(t) = m
  BY EntTyped
<1>6. \A i \in 1 .. m : s[i] = t[i]
  <2>1. NumFrames(f) \in Nat /\ NumFrames(g) \in Nat
    BY EntTyped
  <2> QED BY <1>2, <1>3, <2>1 DEF Ent
<1> HIDE DEF s, m, t
<1>7. /\ SubSeq(s, 1, m) \in Seq(1 .. MaxAppends) /\ Len(SubSeq(s, 1, m)) = m
      /\ \A i \in 1 .. m : SubSeq(s, 1, m)[i] = s[i]
  BY <1>4, PrefixOf
<1>8. t = SubSeq(s, 1, m)
  BY <1>5, <1>6, <1>7, SeqEqual
<1> QED BY <1>2, <1>8 DEF s, m, t

LEMMA EntAppend ==
    ASSUME NEW f \in Seq(Body), NEW g \in Seq(Body), NEW q \in Nat, NEW id \in 1 .. MaxAppends,
           Len(f) = q * RecordCells, Len(g) = Len(f) + RecordCells,
           \A k \in 1 .. Len(f) : g[k] = f[k], g[Len(f) + 1].id = id
    PROVE  /\ Ent(g) = Append(Ent(f), id) /\ NumFrames(f) = q /\ NumFrames(g) = q + 1
<1>1. Len(f) \in Nat /\ Len(g) \in Nat /\ (q + 1) * RecordCells = q * RecordCells + RecordCells
  BY EventLogAssumption
<1>2. NumFrames(f) = q
  BY <1>1, Quotient, EventLogAssumption DEF NumFrames
<1>3. NumFrames(g) = q + 1
  <2> DEFINE m == q + 1
             n == Len(g)
  <2>1. m \in Nat /\ n \in Nat /\ n = m * RecordCells
    BY <1>1
  <2> HIDE DEF m, n
  <2>2. m * RecordCells <= n /\ n < m * RecordCells + RecordCells
    BY <2>1, EventLogAssumption
  <2>3. n \div RecordCells = m
    BY <2>1, <2>2, Quotient
  <2> QED BY <2>3 DEF NumFrames, m, n
<1>4. \A i \in 1 .. q : CellAt(g, i, 1) = CellAt(f, i, 1)
  <2>1. Len(f) <= Len(g)
    BY <1>1, EventLogAssumption
  <2>2. \A i \in 1 .. (Len(f) \div RecordCells) : CellAt(g, i, 1) = CellAt(f, i, 1)
    <3> DEFINE n == Len(f)
    <3>1. n \in Nat /\ n <= Len(f) /\ n <= Len(g) BY <1>1, <2>1
    <3>2. \A k \in 1 .. n : g[k] = f[k] OBVIOUS
    <3> HIDE DEF n
    <3>3. \A i \in 1 .. (n \div RecordCells) : CellAt(g, i, 1) = CellAt(f, i, 1)
      BY <3>1, <3>2, EntAgree
    <3> QED BY <3>3 DEF n
  <2> QED BY <1>2, <2>2 DEF NumFrames
<1>5. CellAt(g, q + 1, 1).id = id
  <2>1. ((q + 1) - 1) * RecordCells + 1 = Len(f) + 1
    BY EventLogAssumption
  <2> QED BY <2>1 DEF CellAt
<1> DEFINE s == Ent(f)
           t == Ent(g)
           u == Append(s, id)
<1>6. s \in Seq(1 .. MaxAppends) /\ Len(s) = q /\ \A i \in 1 .. q : s[i] = CellAt(f, i, 1).id
  BY <1>2, EntTyped DEF Ent
<1>7. /\ t \in Seq(1 .. MaxAppends) /\ Len(t) = q + 1
      /\ \A i \in 1 .. q + 1 : t[i] = CellAt(g, i, 1).id
  BY <1>3, EntTyped DEF Ent
<1> HIDE DEF s, t
<1>8. /\ u \in Seq(1 .. MaxAppends) /\ Len(u) = q + 1 /\ u[q + 1] = id
      /\ \A i \in 1 .. q : u[i] = s[i]
  BY <1>6
<1> HIDE DEF u
<1>9. \A i \in 1 .. q + 1 : t[i] = u[i]
  <2> TAKE i \in 1 .. q + 1
  <2>1. i = q + 1 \/ i \in 1 .. q
    OBVIOUS
  <2> QED BY <1>4, <1>5, <1>6, <1>7, <1>8, <2>1
<1>10. t = u
  BY <1>7, <1>8, <1>9, SeqEqual
<1> QED BY <1>2, <1>3, <1>10 DEF s, t, u

(* The steps of the abstract log, in terms of the file.                     *)
LEMMA IsCommit ==
    ASSUME file \in Seq(Body), Ent(file') = Ent(file), UNCHANGED acked,
           floor' \div RecordCells = NumFrames(file)
    PROVE  Abstract!Next
<1>1. Len(Ent(file)) = NumFrames(file)
  BY EntTyped
<1>2. Abstract!Commit
  BY <1>1 DEF Abstract!Commit, Ent
<1> QED BY <1>2 DEF Abstract!Next

LEMMA IsStutter ==
    ASSUME Ent(file') = Ent(file), UNCHANGED acked,
           floor' \div RecordCells = floor \div RecordCells
    PROVE  UNCHANGED Abstract!vars
  BY DEF Abstract!vars, Ent

LEMMA IsAdd ==
    ASSUME file \in Seq(Body), NEW id \in 1 .. MaxAppends, Ent(file') = Append(Ent(file), id),
           \/ floor' \div RecordCells = NumFrames(file) + 1 /\ acked' \in {acked, acked \cup {id}}
           \/ UNCHANGED <<floor, acked>>
    PROVE  Abstract!Next
<1> DEFINE s == Ent(file)
<1>1. s \in Seq(1 .. MaxAppends) /\ Len(s) = NumFrames(file)
  BY EntTyped
<1> HIDE DEF s
<1>2. Len(Append(s, id)) = NumFrames(file) + 1
  BY <1>1, AppendProperties
<1>3. Len(Ent(file')) = NumFrames(file) + 1
  BY <1>2 DEF s
<1>4. Abstract!Add
  BY <1>3 DEF Abstract!Add, Ent
<1> QED BY <1>4 DEF Abstract!Next

LEMMA IsLose ==
    ASSUME file \in Seq(Body), NEW n \in Nat, UNCHANGED acked,
           floor \div RecordCells <= n, n <= NumFrames(file), floor \in Nat,
           Ent(file') = SubSeq(Ent(file), 1, n), floor' \div RecordCells = n
    PROVE  Abstract!Next
<1>1. Len(Ent(file)) = NumFrames(file) /\ NumFrames(file) \in Nat
  BY EntTyped
<1>2. n \in (floor \div RecordCells) .. Len(Ent(file))
  BY <1>1, DivMod
<1>3. Abstract!Lose
  BY <1>2 DEF Abstract!Lose, Ent
<1> QED BY <1>3 DEF Abstract!Next

LEMMA IsReset ==
    ASSUME file' = <<>>, floor' = 0, acked' = {}
    PROVE  Abstract!Next
<1>1. 0 \div RecordCells = 0
  BY EventLogAssumption
<1>2. Len(<<>>) = 0 /\ NumFrames(<<>>) = 0
  BY <1>1 DEF NumFrames
<1>3. Ent(file') = <<>>
  BY <1>2 DEF Ent
<1>4. Abstract!Reset
  BY <1>1, <1>3 DEF Abstract!Reset, Ent
<1> QED BY <1>4 DEF Abstract!Next

(* Bodies with the same whole frames are the same log.                      *)
LEMMA SameEntries ==
    ASSUME NEW f \in Seq(Body), NEW g \in Seq(Body), NEW q \in Nat,
           NumFrames(f) = q, NumFrames(g) = q,
           \A k \in 1 .. q * RecordCells : g[k] = f[k]
    PROVE  Ent(g) = Ent(f)
<1> DEFINE n == q * RecordCells
<1>1. n \in Nat /\ n <= Len(f) /\ n <= Len(g)
  <2>1. n \in Nat
    BY EventLogAssumption
  <2>2. /\ Len(f) \in Nat /\ NumFrames(f) = Len(f) \div RecordCells
        /\ Len(g) \in Nat /\ NumFrames(g) = Len(g) \div RecordCells
    BY DEF NumFrames
  <2> QED BY <2>1, <2>2, FrameWhole
<1>2. n \div RecordCells = q
  <2>1. n < q * RecordCells + RecordCells
    BY <1>1, EventLogAssumption
  <2> QED BY <1>1, <2>1, Quotient
<1> HIDE DEF n
<1>3. \A k \in 1 .. n : g[k] = f[k]
  BY DEF n
<1>4. \A j \in 1 .. (n \div RecordCells) : CellAt(g, j, 1) = CellAt(f, j, 1)
  BY <1>1, <1>3, EntAgree
<1> QED BY <1>2, <1>4 DEF Ent

AbstractStep == Abstract!Next \/ UNCHANGED Abstract!vars

LEMMA AppendRefines ==
    ASSUME JournalInv, ~TornWritesStay, AppendRecord \/ AppendDurable
    PROVE  AbstractStep
<1>1. open /\ NextId \in 1 .. MaxAppends /\ (WrittenStep \/ UndoneStep)
  BY AppendOutcomes
<1>2. /\ file \in Seq(Body) /\ records \in Nat /\ Len(file) = records * RecordCells
      /\ Len(file) \in Nat
  BY <1>1 DEF JournalInv, LogTyped, HandleTrue
<1>3. CASE WrittenStep
  <2>1. /\ file' \in Seq(Body) /\ Len(file') = Len(file) + RecordCells
        /\ \A k \in 1 .. Len(file) : file'[k] = file[k]
        /\ file'[Len(file) + 1] = [id |-> NextId, part |-> 1]
    BY <1>1, <1>3, WrittenFile
  <2>2. file'[Len(file) + 1].id = NextId
    BY <2>1
  <2>3. /\ Ent(file') = Append(Ent(file), NextId)
        /\ NumFrames(file) = records /\ NumFrames(file') = records + 1
    BY <1>1, <1>2, <2>1, <2>2, EntAppend
  <2>4. \/ UNCHANGED <<floor, acked>>
        \/ floor' = Len(file') /\ acked' = acked \cup {NextId}
    BY <1>3 DEF WrittenStep
  <2>5. NumFrames(file') = Len(file') \div RecordCells
    BY DEF NumFrames
  <2> QED BY <1>1, <1>2, <2>3, <2>4, <2>5, IsAdd DEF AbstractStep
<1>4. CASE UndoneStep
  <2>1. UNCHANGED <<file, acked>> /\ (floor' = Len(file) \/ floor' = floor)
    BY <1>4 DEF UndoneStep
  <2>2. Ent(file') = Ent(file) /\ NumFrames(file) = Len(file) \div RecordCells
    BY <2>1 DEF NumFrames
  <2> QED BY <1>2, <2>1, <2>2, IsCommit, IsStutter DEF AbstractStep
<1> QED BY <1>1, <1>3, <1>4

LEMMA RecoverRefines ==
    ASSUME JournalInv, OpenRecover
    PROVE  AbstractStep
<1> DEFINE n == CutLength(file)
           q == NumFrames(file)
           kept == SubSeq(file, 1, n)
<1>1. /\ file \in Seq(Body) /\ n \in 0 .. Len(file) /\ q \in Nat
      /\ n = q * RecordCells /\ Len(file) < n + RecordCells
      /\ floor \in Nat /\ floor <= Len(file)
  BY CutIsWhole DEF JournalInv, LogTyped
<1>2. /\ kept \in Seq(Body) /\ Len(kept) = n /\ \A k \in 1 .. n : kept[k] = file[k]
  BY <1>1, PrefixOf
<1>3. /\ file' = kept /\ acked' = acked
      /\ floor' = n \/ floor' = (IF floor < n THEN floor ELSE n)
  BY <1>2 DEF OpenRecover
<1> HIDE DEF kept, n
<1>4. n \in Nat /\ n < q * RecordCells + RecordCells /\ q * RecordCells <= n
  BY <1>1, EventLogAssumption
<1>5. n \div RecordCells = q
  <2> HIDE DEF q
  <2> QED BY <1>1, <1>4, Quotient
<1>6. NumFrames(kept) = q
  BY <1>2, <1>5 DEF NumFrames
<1>7. Ent(file') = Ent(file)
  BY <1>1, <1>2, <1>3, <1>6, SameEntries
<1>8. CASE floor' = n
  BY <1>1, <1>3, <1>5, <1>7, <1>8, IsCommit DEF AbstractStep
<1>9. CASE floor' # n
  BY <1>1, <1>3, <1>7, <1>9, IsStutter DEF AbstractStep
<1> QED BY <1>8, <1>9

LEMMA CrashRefines ==
    ASSUME JournalInv, Crash
    PROVE  AbstractStep
<1> DEFINE disk == file \o ghostTail
<1>1. /\ file \in Seq(Body) /\ ghostTail \in Seq(Body) /\ floor \in Nat /\ floor <= Len(file)
      /\ Len(file) \in Nat /\ Len(ghostTail) \in Nat
      /\ Len(ghostTail) <= RecordCells /\ (ghostTail # <<>> => Whole(file))
  BY DEF JournalInv, LogTyped, DiskFramed
<1>2. /\ disk \in Seq(Body) /\ Len(disk) = Len(file) + Len(ghostTail)
      /\ \A k \in 1 .. Len(file) : disk[k] = file[k]
  BY <1>1, DiskOf
<1>3. /\ acked' = acked
      /\ \/ \E n \in floor .. Len(disk) : file' = SubSeq(disk, 1, n) /\ floor' = n
         \/ ~hsynced /\ file' = <<>> /\ floor' = 0
  BY DEF Crash
<1> HIDE DEF disk
<1>4. CASE ~hsynced /\ file' = <<>> /\ floor' = 0
  <2>1. acked' = {}
    BY <1>3, <1>4 DEF JournalInv, AckedDurable
  <2> QED BY <1>4, <2>1, IsReset DEF AbstractStep
<1>5. ASSUME NEW n \in floor .. Len(disk), file' = SubSeq(disk, 1, n), floor' = n
      PROVE  AbstractStep
  <2>1. n \in 0 .. Len(disk) /\ n \in Nat /\ floor <= n
    BY <1>1, <1>2
  <2>2. /\ file' \in Seq(Body) /\ Len(file') = n
        /\ \A k \in 1 .. n : file'[k] = disk[k]
    BY <1>2, <1>5, <2>1, PrefixOf
  <2>3. NumFrames(file') = n \div RecordCells
    BY <2>2 DEF NumFrames
  <2>4. \A k \in 1 .. n : k <= Len(file) => file'[k] = file[k]
    <3>1. \A k \in 1 .. n : k <= Len(file) => k \in 1 .. Len(file)
      BY <1>1, <2>1
    <3> QED BY <1>2, <2>2, <3>1
  <2>5. CASE n <= Len(file)
    <3>1. \A k \in 1 .. Len(file') : file'[k] = file[k]
      BY <1>1, <2>1, <2>2, <2>4, <2>5
    <3>2. /\ Ent(file') = SubSeq(Ent(file), 1, NumFrames(file'))
          /\ NumFrames(file') <= NumFrames(file)
      BY <1>1, <2>2, <2>5, <3>1, EntPrefix
    <3>3. floor \div RecordCells <= n \div RecordCells /\ n \div RecordCells \in Nat
      BY <1>1, <2>1, QuotientMono, DivMod
    <3> QED BY <1>1, <1>3, <1>5, <2>3, <3>2, <3>3, IsLose DEF AbstractStep
  <2>6. CASE n > Len(file)
    <3>1. Len(ghostTail) > 0 /\ Len(file) + 1 \in 1 .. n
      BY <1>1, <1>2, <2>1, <2>6
    <3>2. ghostTail # <<>>
      BY <3>1
    <3>3. PICK q \in Nat : Len(file) = q * RecordCells
      BY <1>1, <3>2 DEF Whole
    <3>4. n <= Len(file) + RecordCells
      BY <1>1, <1>2, <2>1, EventLogAssumption
    <3>5. CASE n = Len(file) + RecordCells
      <4> DEFINE id == file'[Len(file) + 1].id
      <4>1. file'[Len(file) + 1] \in Body
        BY <2>2, <3>1, ElementOfSeq
      <4>2. id \in 1 .. MaxAppends
        BY <4>1 DEF Body
      <4>3. \A k \in 1 .. Len(file) : file'[k] = file[k]
        BY <1>1, <2>1, <2>4, <2>6
      <4>4. file'[Len(file) + 1].id = id
        OBVIOUS
      <4>5. Len(file') = Len(file) + RecordCells /\ file \in Seq(Body) /\ file' \in Seq(Body)
        BY <1>1, <2>2, <3>5
      <4> HIDE DEF id
      <4>6. /\ Ent(file') = Append(Ent(file), id)
            /\ NumFrames(file) = q /\ NumFrames(file') = q + 1
        BY <3>3, <4>2, <4>3, <4>4, <4>5, EntAppend
      <4>7. floor' \div RecordCells = NumFrames(file) + 1 /\ acked' = acked
        BY <1>3, <1>5, <2>3, <4>6
      <4> QED BY <1>1, <4>2, <4>6, <4>7, IsAdd DEF AbstractStep
    <3>6. CASE n < Len(file) + RecordCells
      <4>1. /\ q * RecordCells <= n /\ n < q * RecordCells + RecordCells
            /\ q * RecordCells <= Len(file) /\ Len(file) < q * RecordCells + RecordCells
        BY <1>1, <2>1, <2>6, <3>3, <3>6, EventLogAssumption
      <4>2. n \div RecordCells = q /\ Len(file) \div RecordCells = q
        BY <1>1, <2>1, <4>1, Quotient
      <4>3. NumFrames(file') = q /\ NumFrames(file) = q
        BY <2>3, <4>2 DEF NumFrames
      <4>4. \A k \in 1 .. q * RecordCells : file'[k] = file[k]
        BY <1>1, <2>1, <2>4, <2>6, <3>3
      <4>5. Ent(file') = Ent(file)
        BY <1>1, <2>2, <4>3, <4>4, SameEntries
      <4> QED BY <1>1, <1>3, <1>5, <4>2, <4>3, <4>5, IsCommit DEF AbstractStep
    <3> QED BY <1>1, <2>1, <3>4, <3>5, <3>6, EventLogAssumption
  <2> QED BY <1>1, <2>1, <2>5, <2>6
<1> QED BY <1>3, <1>4, <1>5

LEMMA JournalStepRefines == ~TornWritesStay /\ JournalInv /\ [JournalNext]_journalVars => AbstractStep
<1> SUFFICES ASSUME ~TornWritesStay, JournalInv, [JournalNext]_journalVars PROVE AbstractStep
  OBVIOUS
<1>1. CASE UNCHANGED <<file, floor, acked>>
  BY <1>1, IsStutter DEF AbstractStep
<1>2. ASSUME NEW exclusive, Create(exclusive) PROVE AbstractStep
  <2>1. file' = <<>> /\ floor' = 0 /\ acked' = {}
    BY <1>2 DEF Create
  <2> QED BY <2>1, IsReset DEF AbstractStep
<1>3. ASSUME NEW mode, OpenWhole(mode) PROVE AbstractStep
  BY <1>1, <1>3 DEF OpenWhole, diskVars
<1>4. CASE Sync
  <2>1. file \in Seq(Body) /\ UNCHANGED <<file, acked>> /\ floor' = Len(file)
    BY <1>4 DEF Sync, JournalInv, LogTyped
  <2>2. Ent(file') = Ent(file) /\ floor' \div RecordCells = NumFrames(file)
    BY <2>1 DEF NumFrames
  <2> QED BY <2>1, <2>2, IsCommit DEF AbstractStep
<1>5. CASE Close
  BY <1>1, <1>5 DEF Close, diskVars
<1>6. CASE UNCHANGED journalVars
  BY <1>1, <1>6 DEF journalVars, diskVars
<1> QED BY <1>2, <1>3, <1>4, <1>5, <1>6, AppendRefines, RecoverRefines, CrashRefines DEF JournalNext

(* The file with its crashes, torn tails and failing calls implements the   *)
(* abstract log: entries are added at the end, a suffix at most is lost,    *)
(* and none of the durable ones.                                            *)
THEOREM ImplementsLog == ~TornWritesStay /\ JournalSpec => ImplementsAbstractLog
<1> SUFFICES ASSUME ~TornWritesStay PROVE JournalSpec => ImplementsAbstractLog
  OBVIOUS
<1>1. JournalInv /\ [JournalNext]_journalVars => JournalInv'
  BY JournalStep
<1>2. JournalInv /\ [JournalNext]_journalVars => [Abstract!Next]_Abstract!vars
  BY JournalStepRefines DEF AbstractStep
<1>3. JournalInit => Abstract!Init
  <2> SUFFICES ASSUME JournalInit PROVE Abstract!Init
    OBVIOUS
  <2>1. 0 \div RecordCells = 0
    BY EventLogAssumption
  <2>2. file = <<>> /\ floor = 0 /\ acked = {} /\ NumFrames(<<>>) = 0
    BY <2>1 DEF JournalInit, NumFrames
  <2>3. Ent(<<>>) = <<>>
    BY <2>2 DEF Ent
  <2> QED BY <2>1, <2>2, <2>3 DEF Abstract!Init, Ent
<1> QED BY <1>1, <1>2, <1>3, JournalInitial, PTL DEF JournalSpec, ImplementsAbstractLog, Abstract!Spec
=============================================================================
