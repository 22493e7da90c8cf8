----------------------------- MODULE MCEventLog -----------------------------
(* Small instances of EventLog for TLC: records of three cells can be torn  *)
(* at two places and misframed by one or two cells.                         *)
EXTENDS EventLog
=============================================================================
