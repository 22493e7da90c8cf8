---------------------------- MODULE AbstractLog -----------------------------
(***************************************************************************)
(* What scirust/src/eventlog.rs promises: a list of entries that only      *)
(* grows at its end, of which a prefix is durable. An entry is promised    *)
(* when append_durable returned Ok for it. A crash may lose entries,       *)
(* newest first, but never a durable one; starting a new log discards      *)
(* everything, promises included.                                          *)
(***************************************************************************)
EXTENDS Integers, Sequences

CONSTANT Entries   \* what may be appended

VARIABLES entries, durable, promised

vars == <<entries, durable, promised>>

Init == entries = <<>> /\ durable = 0 /\ promised = {}

(* An entry is appended, or comes back after its append was undone.         *)
Add ==
    \E e \in Entries :
        /\ entries' = Append(entries, e)
        /\ durable' \in {durable, Len(entries')}
        /\ promised' \in {promised, promised \cup {e}}
        /\ promised' # promised => durable' = Len(entries')

Commit == durable' = Len(entries) /\ UNCHANGED <<entries, promised>>

Lose ==
    \E n \in durable .. Len(entries) :
        /\ entries' = SubSeq(entries, 1, n)
        /\ durable' = n
        /\ UNCHANGED promised

Reset == entries' = <<>> /\ durable' = 0 /\ promised' = {}

Next == Add \/ Commit \/ Lose \/ Reset

Spec == Init /\ [][Next]_vars

(* Every promised entry is in the durable prefix.                           *)
PromisesKept ==
    \A e \in promised : \E i \in 1 .. durable : entries[i] = e
=============================================================================
