---------------------------- MODULE MCVramCache ----------------------------
(* Small instances of VramCache for TLC. Three slots need 384 bytes HOT and *)
(* 288 WARM: the budgets and targets lie on both sides of every threshold.  *)
EXTENDS VramCache
=============================================================================
