--------------------------- MODULE MCVramContext ---------------------------
(* The context over a cache of 320 bytes, two HOT tiles or three WARM, and  *)
(* the controller alone under the loads of MCElasticController.             *)
EXTENDS VramContext

MCUnit == 4000000
MCHigh == (MCUnit * 17) \div 20
MCLow  == (MCUnit * 14) \div 20

(* Below, at and between the watermarks, above, overflowing; no capacity.   *)
MCLoads == {<<0, 20>>, <<14, 20>>, <<17, 20>>, <<19, 20>>, <<21, 20>>,
            <<1, 0>>, <<9, 10>>}

Topology == [layers |-> 2, kv_heads |-> 2, head_dim_k |-> 4,
             k_bytes_per_elem |-> 1, has_v |-> TRUE, v_bytes_per_elem |-> 1]

Calm == [topology |-> Topology, logical_tokens |-> 2, predicted_growth |-> 0,
         vram_available |-> 800, vram_total |-> 1000,
         ram_available |-> 1, ram_total |-> 2, limit |-> <<>>]

(* Calm; little memory left in the machine; growth that does not fit, a     *)
(* little and by far; more available than there is; a topology without      *)
(* layers; beyond the observed limit; beyond 64 bits.                       *)
MCObservations ==
    {Calm, [Calm EXCEPT !.vram_available = 40],
     [Calm EXCEPT !.predicted_growth = 2, !.vram_available = 32],
     [Calm EXCEPT !.predicted_growth = 20, !.vram_available = 200],
     [Calm EXCEPT !.vram_available = 1001],
     [Calm EXCEPT !.topology.layers = 0],
     [Calm EXCEPT !.predicted_growth = 8, !.limit = <<9>>],
     [Calm EXCEPT !.topology.head_dim_k = 5000]}

=============================================================================
