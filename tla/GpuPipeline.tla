---------------------------- MODULE GpuPipeline ----------------------------
(***************************************************************************)
(* The resident scoring pipeline (slhav2-vram, src/pipeline.rs): tiles in  *)
(* one device allocation, a host mirror that saves copies of what is there *)
(* already, scoring of all resident slots, and the CPU reference.          *)
(*                                                                         *)
(* Each copy, launch and synchronisation of the driver may fail; a copy    *)
(* that fails leaves its destination as it was. A tile is a model value    *)
(* and its score with a query the pair of both: what TileKernels checks.   *)
(***************************************************************************)
EXTENDS Integers, Sequences, SequencesExt

CONSTANTS
    PipeTiles,       \* the tiles that callers pass
    InvalidTiles,    \* those whose codec flags validate_codec refuses
    Queries,         \* coarse halves of a query, and sign halves
    PipeCapacity,    \* capacities in tiles of the pipelines that callers make
    MaxBatch,        \* bound: tiles of one upload
    MaxScores        \* bound: length of a caller's score buffer

ASSUME PipeAssumption ==
    PipeCapacity \subseteq Nat /\ MaxBatch \in Nat /\ MaxScores \in Nat

VARIABLES
    pipe,       \* the GpuScoringPipeline, NoPipe before new
    accepted,   \* the tile that the last accepted call put in each slot
    answered    \* the last scoring call: its arguments, result and buffer

pipeVars == <<pipe, accepted, answered>>

NoPipe == [resident |-> 0, mirror |-> <<>>]
Unset == "unset"    \* device memory that nobody has written
ZeroTile == "zero"  \* 128 zero bytes
Untouched == <<"untouched">>    \* a score the call did not write
Zeroed == <<"zero">>             \* 0.0
NoAnswer == [from |-> "none"]

PipeInit == pipe = NoPipe /\ accepted = <<>> /\ answered = NoAnswer

Const(n, v) == [i \in 1 .. n |-> v]

(* Capacity is rounded down to whole tiles; zero is refused. The allocation *)
(* is not cleared, the mirror is.                                           *)
NewPipeline(n) ==
    /\ pipe = NoPipe
    /\ n > 0
    /\ pipe' = [resident |-> 0, mirror |-> Const(n, ZeroTile), dev |-> Const(n, Unset),
                coarse |-> Unset, sign |-> Unset]
    /\ answered' = NoAnswer
    /\ UNCHANGED accepted

capacity_tiles == Len(pipe.mirror)

Valid(t) == t \notin InvalidTiles

(* write_slot for the tiles of a batch that begins after slot start: a tile *)
(* that the mirror holds already is not copied.                             *)
Batch(p, start, tiles) ==
    LET new == [s \in 1 .. Len(p.mirror) |->
                  IF s - start \in 1 .. Len(tiles) THEN tiles[s - start] ELSE p.mirror[s]]
    IN [p EXCEPT !.mirror = new,
                 !.dev = [s \in DOMAIN new |-> IF new[s] = p.mirror[s] THEN p.dev[s] ELSE new[s]]]

(* The device copy of tile t to slot s fails: the mirror is written after   *)
(* it. Mutant: before it.                                                   *)
CopyFails_mirror(p, s, t) == [p EXCEPT !.mirror[s] = t]

CopyFails(p, s, t) == p

(* The copy that fails is one that is made: the mirror holds another tile.  *)
write_slot(start, tiles, done, after) ==
    \/ /\ pipe' = [Batch(pipe, start, tiles) EXCEPT !.resident = after]
       /\ accepted' = [s \in 1 .. after |->
                         IF s > start /\ s <= start + Len(tiles) THEN tiles[s - start] ELSE accepted[s]]
    \/ /\ done < Len(tiles)
       /\ pipe.mirror[start + done + 1] # tiles[done + 1]
       /\ pipe' = CopyFails(Batch(pipe, start, SubSeq(tiles, 1, done)), start + done + 1, tiles[done + 1])
       /\ UNCHANGED accepted

upload(tiles, done) ==
    /\ pipe # NoPipe
    /\ tiles # <<>>
    /\ \A i \in DOMAIN tiles : Valid(tiles[i])
    /\ pipe.resident + Len(tiles) <= capacity_tiles
    /\ write_slot(pipe.resident, tiles, done, pipe.resident + Len(tiles))
    /\ answered' = NoAnswer

update_slot(slot, t) ==
    /\ slot < pipe.resident
    /\ Valid(t)
    /\ write_slot(slot, <<t>>, 0, pipe.resident)
    /\ answered' = NoAnswer

Overwrite(buf, scores) == [i \in DOMAIN buf |-> IF i <= Len(scores) THEN scores[i] ELSE buf[i]]

(* score_into after its length checks: both halves of the query go to the   *)
(* device, the kernel scores the resident slots, the host waits for the     *)
(* stream, copies the scores back and hands them out: the score buffers are *)
(* never read before they are written. fault is the driver call that fails. *)
Steps == <<"coarse", "sign", "launch", "synchronize", "copy", "none">>
Reached(fault, step) == \E i, j \in DOMAIN Steps : Steps[i] = step /\ Steps[j] = fault /\ i < j

score_into(q, s, len, fault) ==
    LET copied == [pipe EXCEPT !.coarse = IF Reached(fault, "coarse") THEN q ELSE @,
                               !.sign = IF Reached(fault, "sign") THEN s ELSE @]
        scores == [i \in 1 .. pipe.resident |-> <<copied.coarse, copied.sign, pipe.dev[i]>>]
        buf    == Const(len, Untouched)
    IN /\ pipe # NoPipe
       /\ len >= pipe.resident
       /\ IF pipe.resident = 0
          THEN fault = "none" /\ UNCHANGED pipe
          ELSE pipe' = copied
       /\ answered' = [from |-> "gpu", q |-> q, s |-> s, ok |-> fault = "none",
                       tiles |-> accepted,
                       out |-> IF fault = "none" THEN Overwrite(buf, scores) ELSE buf]
       /\ UNCHANGED accepted

(* The tiles before the first that try_score refuses.                       *)
Scored(tiles) == SelectInSeq(tiles, LAMBDA t : ~Valid(t))

try_score_tiles_cpu(tiles, q, s, buf) ==
    LET refused == Scored(tiles)
        n       == IF refused = 0 THEN Len(tiles) ELSE refused - 1
    IN IF Len(buf) < Len(tiles) THEN buf
       ELSE Overwrite(buf, [i \in 1 .. n |-> <<q, s, tiles[i]>>])

(* The wrapper clears the buffer first.                                     *)
Cleared(len) == Const(len, Zeroed)

score_tiles_cpu(tiles, q, s, len) ==
    /\ answered' = [from |-> "cpu", q |-> q, s |-> s, ok |-> TRUE, tiles |-> tiles,
                    out |-> try_score_tiles_cpu(tiles, q, s, Cleared(len))]
    /\ UNCHANGED <<pipe, accepted>>

Batches == SeqOf(PipeTiles, MaxBatch)

(* The CPU reference keeps no state: calling it before there is a pipeline  *)
(* covers every call of it.                                                 *)
PipeNext ==
    \/ \E n \in PipeCapacity : NewPipeline(n)
    \/ \E tiles \in Batches, done \in 0 .. MaxBatch - 1 : upload(tiles, done)
    \/ \E slot \in 0 .. capacity_tiles - 1, t \in PipeTiles : update_slot(slot, t)
    \/ \E q, s \in Queries, len \in 0 .. MaxScores, i \in DOMAIN Steps : score_into(q, s, len, Steps[i])
    \/ /\ pipe = NoPipe
       /\ \E tiles \in Batches, q, s \in Queries, len \in 0 .. MaxScores : score_tiles_cpu(tiles, q, s, len)

PipeSpec == PipeInit /\ [][PipeNext]_pipeVars

-----------------------------------------------------------------------------
(* Properties                                                               *)

(* "Score all resident tiles": a scoring call that succeeds gives every     *)
(* slot the score of the caller's query with the tile that the last         *)
(* accepted upload or update_slot put there, whatever copies were skipped   *)
(* or failed since, and leaves the rest of the buffer alone; one that fails *)
(* hands out nothing; and what the CPU wrapper leaves behind is either 0 or *)
(* the score of that very tile.                                             *)
ScoresAreOfAccepted ==
    answered # NoAnswer =>
        \A i \in DOMAIN answered.out :
            LET exact == i \in DOMAIN answered.tiles
                         /\ answered.out[i] = <<answered.q, answered.s, answered.tiles[i]>>
            IN IF answered.from = "cpu" THEN answered.out[i] = Zeroed \/ exact
               ELSE IF answered.ok /\ i \in DOMAIN answered.tiles THEN exact
               ELSE answered.out[i] = Untouched

=============================================================================
