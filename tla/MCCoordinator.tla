--------------------------- MODULE MCCoordinator ---------------------------
(* The budget coordinator for TLC; resources are interchangeable.           *)
EXTENDS Coordinator, TLC

Symmetry == Permutations(Resources)

=============================================================================
