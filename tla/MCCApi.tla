------------------------------- MODULE MCCApi -------------------------------
(* One thread that calls everything, wrongly too, and one that creates,     *)
(* frees and writes meanwhile.                                              *)
EXTENDS CApi, TLC

MCCalls == [t \in {1, 2} |->
    IF t = 1 THEN ModelFunctions \cup CacheFunctions
                    \cup {"process_tile", "weights_load", "cache_new", "shutdown"}
    ELSE {"cache_new", "cache_free", "weights_release", "write", "clear_slot"}]

Tile1(flags, finite, negative) ==
    [flags |-> flags, finite |-> finite, negative |-> negative]

MCTiles == {Tile1({}, TRUE, FALSE), Tile1({"WARM", "TQ3", "TQ3_NOCORR"}, TRUE, FALSE),
            Tile1({"OTHER"}, TRUE, FALSE), Tile1({"NF4", "MIX3"}, FALSE, FALSE),
            Tile1({"NF4", "TQ3_NOCORR"}, TRUE, FALSE), Tile1({}, FALSE, TRUE),
            Tile1({"MIXED"}, TRUE, TRUE)}

AddressSymmetry == Permutations(Addresses)

(* score_tiles only, for the batch that fails in the middle.                *)
BatchCalls == [t \in {1} |-> {"weights_load", "score_tiles"}]
=============================================================================
