----------------------------- MODULE VramBridge -----------------------------
(***************************************************************************)
(* The ElasticXxx bridge of slhav2-vram/src/elasticxxx_bridge.rs over the  *)
(* VRAM cache: a transaction binds one HOT slot and takes it to WARM in    *)
(* phases, each under its own acquisition of the cache mutex, while the    *)
(* owning runtime keeps calling the cache between them.                    *)
(*                                                                         *)
(* The order of the phases, and that a rollback follows a successful apply *)
(* only, are those of the external TransactionalKvPageV1. The branch of    *)
(* apply_transition_if_source that undoes a demotion which did not yield   *)
(* the target is left out: VramCache!Lossless and Accounted exclude it.    *)
(***************************************************************************)
EXTENDS VramCache, Sequences

CONSTANT Bridges    \* transactions bound to the cache, one slot each

VARIABLES
    phase,   \* how far each transaction is
    bound    \* its slot, slot_generation and source_hot_tile

bridgeVars == <<phase, bound>>
allVars == <<vars, bridgeVars>>

NoBinding == [slot |-> 0, generation |-> 0, tile |-> NoBytes]

-----------------------------------------------------------------------------
(* What a transaction sees of its page                                      *)

(* current_descriptor_locked: the source or the target descriptor, or an    *)
(* error.                                                                   *)
CurrentDescriptor(b) ==
    LET x == slots[bound[b].slot]
        same == /\ x.tier # "Absent" /\ x.seq = bound[b].generation
                /\ ExactTile(x) = bound[b].tile
    IN CASE same /\ x.tier = "Hot" -> "source"
         [] same /\ x.tier = "Warm" /\ Backing(x) = RESIDUAL_BYTES -> "target"
         [] OTHER -> "error"

-----------------------------------------------------------------------------
(* Phases                                                                   *)

BridgeInit ==
    /\ phase = [b \in Bridges |-> "unbound"]
    /\ bound = [b \in Bridges |-> NoBinding]

To(b, p) == phase' = [phase EXCEPT ![b] = p]

bind_hot_slot(b, s) ==
    /\ Idle /\ phase[b] = "unbound"
    /\ Tier(s) = "Hot"
    /\ bound' = [bound EXCEPT ![b] = [slot |-> s, generation |-> slots[s].seq,
                                      tile |-> ExactTile(slots[s])]]
    /\ To(b, "bound")
    /\ UNCHANGED vars

(* A phase that only checks the source: on drift the transaction ends.      *)
CheckSource(b, from, to) ==
    /\ Idle /\ phase[b] = from
    /\ To(b, IF CurrentDescriptor(b) = "source" THEN to ELSE "rejected")
    /\ UNCHANGED <<vars, bound>>

validate_transition(b) == CheckSource(b, "bound", "validated")
prepare_transition(b)  == CheckSource(b, "validated", "prepared")

(* The source is checked again under the lock that demotes.                 *)
apply_transition_if_source(b) ==
    /\ Idle /\ phase[b] = "prepared"
    /\ IF CurrentDescriptor(b) = "source"
       THEN /\ demote_slot(bound[b].slot)
            /\ To(b, "applied")
       ELSE /\ To(b, "rejected")
            /\ UNCHANGED <<slots, resident, evictions>>
    /\ UNCHANGED <<len, next_seq, hard, callVars, bound>>

verify_transition(b) ==
    /\ Idle /\ phase[b] = "applied"
    /\ To(b, IF CurrentDescriptor(b) = "target" THEN "committed"
             ELSE "unverified")
    /\ UNCHANGED <<vars, bound>>

(* restore_page, after a failed verification or when the transaction is     *)
(* given up. "stuck" is the error return: the page stays as it is.          *)
restore_page(b) ==
    LET s == bound[b].slot
        here == CurrentDescriptor(b)
    IN /\ Idle /\ phase[b] \in {"applied", "unverified"}
       /\ \/ /\ here = "target" /\ CanPromote(s)
             /\ promote_slot(s)
             /\ To(b, "restored")
          \/ /\ here # "target" \/ ~CanPromote(s)
             /\ To(b, IF here = "source" THEN "restored" ELSE "stuck")
             /\ UNCHANGED <<slots, resident, evictions>>
       /\ UNCHANGED <<len, next_seq, hard, callVars, bound>>

BridgeStep(b) ==
    \/ \E s \in Slots : bind_hot_slot(b, s)
    \/ validate_transition(b) \/ prepare_transition(b)
    \/ apply_transition_if_source(b)
    \/ verify_transition(b) \/ restore_page(b)

BridgeNext ==
    \/ Next /\ UNCHANGED bridgeVars
    \/ \E b \in Bridges : BridgeStep(b)

BridgeSpec == Init /\ BridgeInit /\ [][BridgeNext]_allVars

-----------------------------------------------------------------------------
(* The control planes published to ElasticXxx                               *)

physical_tier_code(t) ==
    CASE t = "Hot" -> 0 [] t = "Warm" -> 1 [] t = "Cold" -> 2
      [] t = "Pinned" -> 3

(* derived_bytes_for_tier_v2: resident and backing bytes of a tier.         *)
derived_bytes_for_tier(t) ==
    CASE t \in {"Hot", "Pinned"} -> <<TILE_BYTES, 0>>
      [] t = "Warm" -> <<WARM_PACKED_BYTES, RESIDUAL_BYTES>>
      [] t = "Cold" -> <<0, TILE_BYTES>>

(* A dense or hybrid snapshot is refused when a slot's bytes differ from    *)
(* those of its tier.                                                       *)
PlaneAccepted ==
    \A s \in Slots : Present(s) =>
        <<slots[s].bytes.length, Backing(slots[s])>>
            = derived_bytes_for_tier(Tier(s))

Positions == 0 .. len - 1
PresentSlots == {s \in Positions : Present(s)}

(* elastic_word_control_plane: a word of five used lanes per present slot.  *)
SparsePlane ==
    {<<s, slots[s].seq, physical_tier_code(Tier(s)), slots[s].bytes.length,
       Backing(slots[s])>> : s \in PresentSlots}

(* dense_state_bits_v2: PRESENT and one bit per tier.                       *)
dense_state_bits(t) ==
    1 + (CASE t = "Hot" -> 2 [] t = "Warm" -> 4 [] t = "Cold" -> 8
           [] t = "Pinned" -> 16)

(* elastic_word_dense_control_plane_v2: generation and state bits.          *)
DensePlane ==
    [s \in Positions |-> IF Present(s)
                         THEN <<slots[s].seq, dense_state_bits(Tier(s))>>
                         ELSE <<0, 0>>]

(* elastic_word_hybrid_control_plane_v3: generations and three bit planes.  *)
(* Mutant: the tier planes of a hole are not cleared.                       *)
HybridPlane_hole ==
    [generation |-> [s \in Positions |-> slots[s].seq],
     presence   |-> PresentSlots,
     low        |-> {s \in Positions :
                        Present(s) => physical_tier_code(Tier(s)) % 2 = 1},
     high       |-> {s \in PresentSlots :
                        physical_tier_code(Tier(s)) \div 2 = 1}]

HybridPlane ==
    [generation |-> [s \in Positions |->
                        IF Present(s) THEN slots[s].seq ELSE 0],
     presence   |-> PresentSlots,
     low        |-> {s \in PresentSlots :
                        physical_tier_code(Tier(s)) % 2 = 1},
     high       |-> {s \in PresentSlots :
                        physical_tier_code(Tier(s)) \div 2 = 1}]

(* slot_state: decodes one position of a plane.                             *)
slot_state(plane, s) ==
    LET code == (IF s \in plane.low THEN 1 ELSE 0)
                    + (IF s \in plane.high THEN 2 ELSE 0)
    IN IF s \notin plane.presence
       THEN IF code = 0 THEN "none" ELSE "error"
       ELSE <<plane.generation[s],
              CHOOSE t \in PhysicalTier : physical_tier_code(t) = code>>

(* elastic_control_profile_accounting_v4: payload bits of the three layouts *)
(* for n positions of which p are present. A bit plane is whole words.      *)
ControlProfile == {"SparseW512", "DenseW128", "HybridW64Boolean"}

profile_accounting(n, p) ==
    [c \in ControlProfile |->
        CASE c = "SparseW512" -> 512 * p
          [] c = "DenseW128"  -> 128 * n
          [] c = "HybridW64Boolean" -> 64 * n + 3 * 64 * ((n + 63) \div 64)]

(* payload_bits of a published hybrid plane: its lanes and backing words.   *)
payload_bits(plane) ==
    LET n == Cardinality(DOMAIN plane.generation)
    IN n * 64 + 3 * 64 * Cardinality({i \div 64 : i \in DOMAIN plane.generation})

(* minimum_payload_profiles_v5 and payload_decision_v6: a current profile   *)
(* in the minimum set is held, a single other one is the candidate.         *)
minimum_payload_profiles(bits) ==
    {c \in ControlProfile : \A d \in ControlProfile : bits[c] <= bits[d]}

payload_decision(bits, current) ==
    LET least == minimum_payload_profiles(bits)
    IN IF current \in least THEN "hold"
       ELSE IF Cardinality(least) = 1 THEN CHOOSE c \in least : TRUE
       ELSE "ambiguous"

(* capacity_observation: the headroom under the hard budget, as free_bytes. *)
capacity_observation == IF resident > hard THEN 0 ELSE hard - resident

-----------------------------------------------------------------------------
(* Properties                                                               *)

(* The shape of the transactions; source_hot_tile is a full tile.           *)
BridgeTypeOK ==
    /\ phase \in [Bridges -> {"unbound", "bound", "validated", "prepared",
                              "applied", "unverified", "committed",
                              "restored", "rejected", "stuck"}]
    /\ bound \in [Bridges -> [slot : Slots \cup {0}, generation : Nat,
                              tile : {NoBytes} \cup
                                         {FullTile(q) : q \in 0 .. MaxSeq}]]

(* As long as the page bound by a transaction lives, the exact tile that    *)
(* was bound can be rebuilt from it, through any interleaving of phases,    *)
(* of other transactions and of the runtime's calls.                        *)
BoundPageRestorable ==
    \A b \in Bridges : phase[b] # "unbound" =>
        LET x == slots[bound[b].slot]
        IN x.tier # "Absent" /\ x.seq = bound[b].generation =>
               ExactTile(x) = bound[b].tile

(* Slot counts around the words of a bit plane, and around the sizes at     *)
(* which one layout becomes smaller than another.                           *)
AccountedCounts == {0, 1, 3, 4, 63, 64, 65, 128, 129}

(* Following the advice on the layout settles: the profile that is advised  *)
(* is strictly smaller, and is then held.                                   *)
AdviceSettles ==
    \A n \in AccountedCounts : \A p \in 0 .. n, current \in ControlProfile :
        LET bits == profile_accounting(n, p)
            next == payload_decision(bits, current)
        IN next \in ControlProfile =>
               /\ bits[next] < bits[current]
               /\ payload_decision(bits, next) = "hold"

(* Between two calls all three control planes are accepted and tell the     *)
(* same of every position: its generation, its tier, its bytes, and which   *)
(* positions are holes; they are as large as the accounting says; and the   *)
(* capacity that is published is what a promotion may still take.           *)
ControlPlaneExact ==
    Idle =>
        /\ PlaneAccepted
        /\ \A s \in Positions :
              LET decoded == slot_state(HybridPlane, s)
                  words   == {w \in SparsePlane : w[1] = s}
              IN IF Present(s)
                 THEN /\ decoded = <<slots[s].seq, Tier(s)>>
                      /\ DensePlane[s] = <<decoded[1], dense_state_bits(decoded[2])>>
                      /\ words = {<<s, decoded[1], physical_tier_code(decoded[2])>>
                                     \o derived_bytes_for_tier(decoded[2])}
                 ELSE decoded = "none" /\ DensePlane[s] = <<0, 0>> /\ words = {}
        /\ LET bits == profile_accounting(len, Cardinality(PresentSlots))
           IN /\ bits["HybridW64Boolean"] = payload_bits(HybridPlane)
              /\ bits["SparseW512"] = 8 * 64 * Cardinality(SparsePlane)
        /\ AdviceSettles
        /\ \A s \in PresentSlots :
              Tier(s) = "Warm" => (CanPromote(s) <=> RESIDUAL_BYTES <= capacity_observation)

(* "rollback restores the exact original HOT bytes": while the page is      *)
(* still the WARM one the transaction made, restore_page brings it back.    *)
RollbackRestores ==
    [][\A b \in Bridges :
         (phase[b] \in {"applied", "unverified"} /\ phase'[b] = "stuck") =>
             CurrentDescriptor(b) # "target"]_allVars

=============================================================================
