---------------------------- MODULE RankDataset ----------------------------
(***************************************************************************)
(* The ranking dataset: the collector in the llama.cpp shim                *)
(* (slha_rank_dataset.cpp and its calls in slha_llama.cpp), the files that *)
(* it writes when the process exits, and the strict reader of the training *)
(* programs (scirust/src/rank_dataset.rs).                                 *)
(*                                                                         *)
(* A session is what the patched llama.cpp does: batches are decoded layer *)
(* by layer, the keys of a layer are encoded before its vectors are        *)
(* scored, llama_memory_clear starts a new chunk, exit flushes. A float is *)
(* an integer and a file a sequence of cells, one for each number written, *)
(* so a short write leaves a proper prefix. A key row has two components,  *)
(* one for each group of heads.                                            *)
(***************************************************************************)
EXTENDS Integers, Sequences, SequencesExt, FiniteSets

CONSTANTS
    RankLayers,       \* bound: layer ids are 0 .. RankLayers - 1
    RankHeads,        \* heads 0 .. RankHeads - 1, one for each group
    TokenStride,      \* Sampling.token_stride
    MaxHeads,         \* Sampling.max_heads
    Threads,          \* workers of a graph
    ShortWrites,      \* bound: cells that a failed file keeps, -1 if it was not opened
    BatchSizes,       \* tokens of one llama_decode
    MaxPositions,     \* bound: positions of a chunk
    MaxClears,        \* bound: calls of llama_memory_clear
    MaxRejected,      \* bound: keys, tiles and rows that a session loses
    PriorDatasets     \* whether the directory holds an earlier dataset

ASSUME RankAssumption ==
    /\ RankLayers \in Nat \ {0} /\ RankHeads \in Nat \ {0} /\ Threads \in Nat \ {0}
    /\ TokenStride \in Nat \ {0} /\ MaxHeads \in Nat
    /\ BatchSizes \subseteq Nat \ {0} /\ MaxPositions \in Nat
    /\ MaxClears \in Nat /\ MaxRejected \in Nat /\ ShortWrites \subseteq Int
    /\ PriorDatasets \subseteq BOOLEAN

VARIABLES
    rank,     \* State: the chunk and the LayerData of each layer
    kv,       \* per layer: raw keys, their maximal position, tiles, n_written
    session,  \* where the decode is, how often the context was cleared
    disk      \* the directory

rankVars == <<rank, kv, session, disk>>

Layers == 0 .. RankLayers - 1
KeyGroups == 2
MAGIC == 77
VERSION == 2
HEADER == 8     \* cells of the header
Missing == <<>>

NoLayerData == [rows |-> <<>>, keys |-> <<>>, key_dim |-> 0, rejected |-> 0]
NoKeys == [raw |-> <<>>, raw_max |-> 0, tiles |-> <<>>, n_written |-> 0]
NoManifest == [layers |-> {}, valid |-> FALSE]
NoBatch == [phase |-> "idle", layer |-> 0, first |-> 0, n |-> 0, todo |-> {}]

-----------------------------------------------------------------------------
(* The collector                                                            *)

wanted(t, h) == t % TokenStride = 0 /\ h < MaxHeads

(* A key that depends on chunk, position and layer.                         *)
KeyRow(l, pos) ==
    <<1 + pos + 4 * session.clears + 16 * l, 2 + 3 * pos + 5 * session.clears + 16 * l>>

(* The extended query: zero in every slot but the head's own.               *)
Extended(t, h) == [g \in 1 .. KeyGroups |-> IF g = h + 1 THEN 1 + t ELSE 0]

Dot(q, k) == q[1] * k[1] + q[2] * k[2]

(* A vector of KeyGroups elements out of a flat array, the i-th, from 0.       *)
VectorAt(a, i, d) == SubSeq(a, i * d + 1, (i + 1) * d)

(* add_row: a row is taken whole or not at all.                             *)
add_row(L, row, finite) ==
    IF finite THEN [L EXCEPT !.rows = Append(@, row)] ELSE [L EXCEPT !.rejected = @ + 1]

(* add_keys under the current chunk, over what an earlier call put there.   *)
add_keys(L, c, rows) ==
    LET n == IF Len(L.keys) > c THEN Len(L.keys) ELSE c + 1
    IN [L EXCEPT !.keys = [i \in 1 .. n |-> IF i = c + 1 THEN rows
                                            ELSE IF i <= Len(L.keys) THEN L.keys[i] ELSE <<>>],
                 !.key_dim = KeyGroups]

(* What slha_k_clear_all and shutdown do for every layer: the raw keys go   *)
(* into the current chunk.                                                  *)
Sealed(r) ==
    [l \in Layers |->
        IF kv[l].raw_max > 0
        THEN add_keys(r.layers[l], r.chunk, SubSeq(kv[l].raw, 1, kv[l].raw_max))
        ELSE r.layers[l]]

(* begin_chunk after the keys are sealed. Mutant: before.                   *)
ClearedRank_early ==
    LET next == [rank EXCEPT !.chunk = @ + 1] IN [next EXCEPT !.layers = Sealed(next)]

ClearedRank == [layers |-> Sealed(rank), chunk |-> rank.chunk + 1]

-----------------------------------------------------------------------------
(* The session                                                              *)

(* An earlier dataset: one row, of one key, in every layer.                 *)
PriorLayer ==
    [NoLayerData EXCEPT
        !.rows = <<[head |-> 0, gqa |-> 0, token |-> 0, chunk |-> 1, q |-> <<1, 0>>,
                    b |-> <<5>>, s |-> <<6>>]>>,
        !.keys = << <<>>, << <<5, 5>> >> >>, !.key_dim = KeyGroups]

Column(rows, field) == [i \in DOMAIN rows |-> rows[i][field]]

(* The file of a layer: the writes of flush, in their order.                *)
Sections(l, L) ==
    << <<MAGIC, VERSION, l, KeyGroups, Len(L.rows), Len(L.keys), L.key_dim, 0>>,
       [c \in DOMAIN L.keys |-> Len(L.keys[c])],
       Column(L.rows, "head"),
       Column(L.rows, "gqa"),
       Column(L.rows, "token"),
       [i \in DOMAIN L.rows |-> Len(L.rows[i].b)],
       Column(L.rows, "chunk"),
       FlattenSeq(Column(L.rows, "q")),
       FlattenSeq(Column(L.rows, "b")),
       FlattenSeq(Column(L.rows, "s")),
       FlattenSeq(FlattenSeq(L.keys)) >>

Serialised(l, L) == FlattenSeq(Sections(l, L))

RankInit ==
    /\ rank = [chunk |-> 0, layers |-> [l \in Layers |-> NoLayerData]]
    /\ kv = [l \in Layers |-> NoKeys]
    /\ session = [at |-> NoBatch, past |-> 0, clears |-> 0, lost |-> 0, ended |-> FALSE]
    /\ \E prior \in PriorDatasets :
          disk = IF prior
                 THEN [files |-> [l \in Layers |-> Serialised(l, PriorLayer)],
                       manifest |-> [layers |-> Layers, valid |-> TRUE]]
                 ELSE [files |-> [l \in Layers |-> Missing], manifest |-> NoManifest]

(* llama_decode of n tokens at the positions after those of the chunk.      *)
DecodeBatch(n) ==
    /\ ~session.ended /\ session.at = NoBatch
    /\ session.past + n <= MaxPositions
    /\ session' = [session EXCEPT !.at = [phase |-> "keys", layer |-> 0, first |-> session.past,
                                          n |-> n, todo |-> {}],
                                  !.past = @ + n]
    /\ UNCHANGED <<rank, kv, disk>>

PutAt(a, pos, v) ==
    LET n == IF Len(a) > pos THEN Len(a) ELSE pos + 1
    IN [i \in 1 .. n |-> IF i = pos + 1 THEN v
                         ELSE IF i <= Len(a) THEN a[i] ELSE <<0, 0>>]

(* The keys of a batch in one layer; encoding refuses one of them, or the   *)
(* store does, and the others go on. Absent tiles are <<0, 0>>.             *)
PutKey(K, l, pos, outcome) ==
    LET raw == IF outcome = "encode" THEN K
               ELSE [K EXCEPT !.raw = PutAt(@, pos, KeyRow(l, pos)),
                              !.raw_max = IF @ > pos + 1 THEN @ ELSE pos + 1]
    IN IF outcome # "ok" THEN raw
       ELSE [raw EXCEPT !.tiles = PutAt(@, pos, KeyRow(l, pos)),
                        !.n_written = IF @ > pos + 1 THEN @ ELSE pos + 1]

(* The first n keys of a batch, of which number `bad' has the outcome.      *)
PutKeys(K, l, first, n, bad, outcome) ==
    LET after[i \in 0 .. n] ==
            IF i = 0 THEN K
            ELSE PutKey(after[i - 1], l, first + i - 1, IF i = bad THEN outcome ELSE "ok")
    IN after[n]

TransformKeys(bad, outcome) ==
    LET at == session.at
        l == at.layer
    IN /\ at.phase = "keys"
       /\ bad \in 0 .. at.n /\ (bad = 0 <=> outcome = "ok")
       /\ bad = 0 \/ session.lost < MaxRejected
       /\ kv' = [kv EXCEPT ![l] = PutKeys(kv[l], l, at.first, at.n, bad, outcome)]
       /\ session' = [session EXCEPT !.at.phase = "scores",
                                     !.at.todo = 0 .. at.n * RankHeads - 1,
                                     !.lost = @ + IF bad = 0 THEN 0 ELSE 1]
       /\ UNCHANGED <<rank, disk>>

(* The vectors of a batch, token by token, are split evenly: a worker has   *)
(* per_thread of them and takes them in order.                              *)
per_thread == (session.at.n * RankHeads + Threads - 1) \div Threads

NextOfWorker(v) ==
    \A w \in session.at.todo : w \div per_thread = v \div per_thread => v <= w

(* One vector of slha_shadow_score: no row when a tile is absent, otherwise *)
(* the visible prefix goes to the collector. t counts within the batch.     *)
RowOf(l, t, h) ==
    LET n_check == kv[l].n_written
        n_visible == IF t + 1 < n_check THEN t + 1 ELSE n_check
        q == Extended(t, h)
    IN [head |-> h, gqa |-> h, token |-> t, chunk |-> rank.chunk, q |-> q,
        b |-> [j \in 1 .. n_visible |-> Dot(q, kv[l].tiles[j])],
        s |-> [j \in 1 .. n_visible |-> Dot(q, kv[l].tiles[j]) + 1]]

CollectRow(v, finite) ==
    LET at == session.at
        l == at.layer
        t == v \div RankHeads
        h == v % RankHeads
        scored == \A j \in 1 .. kv[l].n_written : kv[l].tiles[j] # <<0, 0>>
        rest == at.todo \ {v}
    IN /\ at.phase = "scores" /\ v \in at.todo /\ NextOfWorker(v)
       /\ IF scored /\ kv[l].n_written > 0 /\ wanted(t, h)
          THEN /\ finite \/ session.lost < MaxRejected
               /\ rank' = [rank EXCEPT !.layers[l] = add_row(@, RowOf(l, t, h), finite)]
          ELSE finite /\ UNCHANGED rank
       /\ session' = [session EXCEPT
             !.lost = @ + IF finite THEN 0 ELSE 1,
             !.at = IF rest # {} THEN [at EXCEPT !.todo = rest]
                    ELSE IF l = RankLayers - 1 THEN NoBatch
                    ELSE [at EXCEPT !.phase = "keys", !.layer = l + 1, !.todo = {}]]
       /\ UNCHANGED <<kv, disk>>

(* slha_k_clear_all from llama_memory_clear.                                *)
ClearContext ==
    /\ ~session.ended /\ session.at = NoBatch /\ session.clears < MaxClears
    /\ rank' = ClearedRank
    /\ kv' = [l \in Layers |->
                [NoKeys EXCEPT !.raw = [i \in DOMAIN kv[l].raw |-> <<0, 0>>]]]
    /\ session' = [session EXCEPT !.past = 0, !.clears = @ + 1]
    /\ UNCHANGED disk

-----------------------------------------------------------------------------
(* flush, when the process exits                                            *)

(* Layers are written in order; those without rows are skipped. The one     *)
(* that fails cannot be opened, or keeps a prefix of what it was given, and *)
(* ends the loop.                                                           *)
FilesWritten(layers, bad, kept) ==
    [l \in Layers |->
        IF layers[l].rows = <<>> \/ l > bad THEN disk.files[l]
        ELSE IF l < bad THEN Serialised(l, layers[l])
        ELSE IF kept < 0 THEN disk.files[l]
        ELSE SubSeq(Serialised(l, layers[l]), 1, kept)]

(* The manifest of a flush.                                                 *)
Manifest(layers, bad) ==
    LET listed == {l \in Layers : layers[l].rows # <<>> /\ l < bad}
    IN [layers |-> listed, valid |-> bad = RankLayers /\ listed # {}]

(* bad is the layer whose file fails, RankLayers if none does; kept the     *)
(* cells that it got, -1 if it could not be opened. mkdir may fail as well, *)
(* and so may the manifest, which then keeps what it held or nothing.       *)
ExitFlush(mkdir, bad, kept, manifest) ==
    LET layers == Sealed(rank)
        full(l) == Len(Serialised(l, layers[l]))
    IN /\ ~session.ended /\ session.at = NoBatch
       /\ IF bad = RankLayers THEN kept = -1
          ELSE layers[bad].rows # <<>> /\ kept \in -1 .. full(bad) - 1
       /\ rank' = [rank EXCEPT !.layers = layers]
       /\ disk' = IF ~mkdir THEN disk
                  ELSE [files |-> FilesWritten(layers, bad, kept),
                        manifest |-> CASE manifest = "ok" -> Manifest(layers, bad)
                                       [] manifest = "closed" -> disk.manifest
                                       [] manifest = "short" -> NoManifest]
       /\ session' = [session EXCEPT !.ended = TRUE]
       /\ UNCHANGED kv

RankNext ==
    \/ \E n \in BatchSizes : DecodeBatch(n)
    \/ \E bad \in 0 .. MaxPositions, o \in {"ok", "encode", "store"} : TransformKeys(bad, o)
    \/ \E v \in 0 .. MaxPositions * RankHeads - 1, f \in BOOLEAN : CollectRow(v, f)
    \/ ClearContext
    \/ \E mkdir \in BOOLEAN, bad \in 0 .. RankLayers, kept \in ShortWrites,
          m \in {"ok", "closed", "short"} : ExitFlush(mkdir, bad, kept, m)

RankSpec == RankInit /\ [][RankNext]_rankVars

-----------------------------------------------------------------------------
(* The reader                                                               *)

Refused == [ok |-> FALSE]

SumOf(counts, n) == SumFunctionOnSet(counts, 1 .. n)

(* The sections of a file, as its header gives their sizes: q_dim is its    *)
(* fourth cell, then the numbers of rows and chunks, and key_dim.           *)
KeyRows(f) == SubSeq(f, HEADER + 1, HEADER + f[6])
MetaSection(f, k) == SubSeq(f, HEADER + f[6] + (k - 1) * f[5] + 1, HEADER + f[6] + k * f[5])
MetaEnd(f) == HEADER + f[6] + 5 * f[5]
QueriesEnd(f) == MetaEnd(f) + f[5] * f[4]
ScoreCount(f) == SumOf(MetaSection(f, 4), f[5])
KeyStart(f, c) == QueriesEnd(f) + 2 * ScoreCount(f) + SumOf(KeyRows(f), c) * f[7]

ChunkKeys(keys, c) == keys[c + 1]

(* parse_layer: every section must be there, no cell may be left over, and  *)
(* every row needs its visible keys in its chunk.                           *)
parse_layer(f) ==
    LET rows == f[5]
        n_chunks == f[6]
        n_visible == MetaSection(f, 4)
        chunks == MetaSection(f, 5)
        queries == QueriesEnd(f)
        scores == ScoreCount(f)
    IN IF Len(f) < HEADER \/ f[1] # MAGIC \/ f[2] # VERSION THEN Refused
       ELSE IF f[4] = 0 \/ f[7] = 0 \/ n_chunks = 0 \/ Len(f) < MetaEnd(f) THEN Refused
       ELSE IF \E i \in 1 .. rows :
                  \/ n_visible[i] <= 0
                  \/ chunks[i] \notin 0 .. n_chunks - 1
                  \/ n_visible[i] > ChunkKeys(KeyRows(f), chunks[i]) THEN Refused
       ELSE IF Len(f) # KeyStart(f, n_chunks) THEN Refused
       ELSE [ok |-> TRUE, layer |-> f[3], rows |-> rows, q_dim |-> f[4], key_dim |-> f[7],
             heads |-> MetaSection(f, 1), groups |-> MetaSection(f, 2),
             tokens |-> MetaSection(f, 3), n_visible |-> n_visible, chunks |-> chunks,
             starts |-> [i \in 1 .. rows + 1 |-> SumOf(n_visible, i - 1)],
             q |-> SubSeq(f, MetaEnd(f) + 1, queries),
             baseline |-> SubSeq(f, queries + 1, queries + scores),
             control |-> SubSeq(f, queries + scores + 1, queries + 2 * scores),
             keys |-> [c \in 1 .. n_chunks |->
                          SubSeq(f, KeyStart(f, c - 1) + 1, KeyStart(f, c))]]

(* LayerRows::row, the slices of row i.                                     *)
ReadRow(D, i) ==
    [head |-> D.heads[i], gqa |-> D.groups[i], token |-> D.tokens[i], chunk |-> D.chunks[i],
     q |-> VectorAt(D.q, i - 1, D.q_dim),
     b |-> SubSeq(D.baseline, D.starts[i] + 1, D.starts[i + 1]),
     s |-> SubSeq(D.control, D.starts[i] + 1, D.starts[i + 1]),
     keys |-> SubSeq(ChunkKeys(D.keys, D.chunks[i]), 1, D.n_visible[i] * D.key_dim)]

(* validate_chunk_layout with the chunks that a protocol expects.           *)
validate_chunk_layout(D, slots, populated) ==
    /\ Len(D.keys) = slots
    /\ populated # {} /\ populated \subseteq 0 .. slots - 1
    /\ {D.chunks[i] : i \in 1 .. D.rows} = populated
    /\ \A c \in 0 .. slots - 1 : c \in populated <=> D.keys[c + 1] # <<>>

-----------------------------------------------------------------------------
(* Properties                                                               *)

(* "a partial dataset is never marked valid": every file that a valid       *)
(* manifest lists is one that the reader accepts.                           *)
PartialNeverValid ==
    disk.manifest.valid =>
        \A l \in disk.manifest.layers : disk.files[l] # Missing /\ parse_layer(disk.files[l]).ok

(* What flush marks valid is what was collected: the reader accepts every   *)
(* listed file and gives back every row of that layer in order, and the     *)
(* baseline logits of each are those of its query with the keys that the    *)
(* file holds for its chunk ("B_j = <q_extended, k_j>"), over clears,       *)
(* holes, lost rows, batches and failed writes. When nothing was lost and   *)
(* the session cleared its context before every chunk, the layout is the    *)
(* one that the training programs demand: chunk 0 empty, the others full.   *)
DatasetFaithful ==
    session.ended /\ disk.manifest.valid =>
        \A l \in disk.manifest.layers :
            LET D == parse_layer(disk.files[l])
                L == rank.layers[l]
            IN /\ disk.files[l] # Missing /\ D.ok
               /\ D.layer = l /\ D.rows = Len(L.rows)
               /\ \A i \in 1 .. D.rows :
                     LET r == ReadRow(D, i)
                     IN /\ [f \in DOMAIN r \ {"keys"} |-> r[f]] = L.rows[i]
                        /\ \A j \in 1 .. D.n_visible[i] :
                              r.b[j] = Dot(r.q, VectorAt(r.keys, j - 1, D.key_dim))
               /\ LET full == {L.rows[i].chunk : i \in DOMAIN L.rows}
                  IN session.lost = 0 /\ full = 1 .. session.clears =>
                        validate_chunk_layout(D, session.clears + 1, full)

=============================================================================
