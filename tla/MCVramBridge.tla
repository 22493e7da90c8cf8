---------------------------- MODULE MCVramBridge ----------------------------
(* A small instance of VramBridge for TLC.                                  *)
EXTENDS VramBridge, TLC

CONSTANTS b1, b2

MCSymmetry == Permutations(Bridges)
=============================================================================
