------------------------------- MODULE MCCcos -------------------------------
(* Small instances of Ccos for TLC.                                         *)
EXTENDS Ccos

T(codec, flags, sigma, position) ==
    [codec |-> codec, flags |-> flags, sigma |-> sigma,
     position |-> position]

(* Both separable codecs and a plain one, HOT and already degraded tiles,   *)
(* different and equal sigma_E, one attention sink.                         *)
MCTiles ==
    {T("TQ3", {}, 1, 0), T("MIX3", {"WARM"}, 0, 1), T("NIBBLE", {}, 0, 2)}

MCEvictions ==
    {[kind |-> "Causal", sink_window |-> 0],
     [kind |-> "Importance", sink_window |-> 1]}

(* For the runs with a log: a separable and a plain codec.                  *)
LogTiles == {T("TQ3", {}, 1, 0), T("NIBBLE", {"WARM"}, 0, 1)}

CausalOnly == {[kind |-> "Causal", sink_window |-> 0]}
ImportanceOnly == {[kind |-> "Importance", sink_window |-> 1]}

(* A fresh log, and a reopened one whose records reuse this cache's seqs.   *)
MCPriorLogs ==
    {<<>>, <<[seq |-> 0, slot |-> 0, tile |-> T("TQ3", {"NOCORR"}, 1, 0)]>>}
FreshLog == {<<>>}
=============================================================================
