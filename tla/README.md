# TLA+ verification of SLHAv2

SLHAv2 keeps the keys of a transformer's KV cache as 128-byte quantised tiles
and adapts their fidelity to a memory budget: a tile loses its correction plane,
then its residual plane, and is finally evicted, to a log or to backing storage.
This directory models the parts of the system that keep state: the caches, the
log, the budgets, the controller and the context around it, the device
allocator, engine and pipeline, the transactions that move pages between
representations, the C interface, the llama.cpp integration with the dataset it
collects, the programs that train and evaluate on that dataset, the MCP server
and the safety guard. Three quarters of the properties are also proved, for every
value of the constants. Of the numeric code it models the
layout: which bits a codec writes, which level and scale every score kernel
reads for every dimension. What floating point does to the sums is not modelled.

1. [Inventory](#1-inventory)  2. [Modules](#2-modules-and-the-code)
3. [Runs](#3-runs)  4. [Proofs](#4-proofs)  5. [Findings](#5-findings)
6. [Not modelled](#6-what-is-not-modelled)  7. [Plan](#7-plan)

## 1. Inventory

`PROJECT.json` lists every component. Those with a life cycle:

| component | code | state | operations | what is hard | correct means |
|---|---|---|---|---|---|
| CCOS cache | `scirust/src/ccos.rs` | arena of tiles, logical state, seq and importance per slot, stack of free slots, byte counter, attached log, error counters | attach, insert, rehydrate, observe_scores, page_out, drop_correction, evict, enforce_budget | the counter is adjusted incrementally; log appends fail half way through enforce_budget | counter exact, slots recycled once, budget met in increasing harshness, nothing lost under a durable log |
| event log | `scirust/src/eventlog.rs` | a file with a header and fixed-size records; a handle with a record count | create, create_new, open, open_read_only, open_recover, append, append_durable, sync, drop | partial writes, failed syncs, failed truncations, crashes before a sync | what append_durable acknowledged is readable after any crash |
| VRAM cache | `slhav2-vram/src/elastic_cache.rs`, `codec.rs` | slots with resident and backing bytes, importance, generation; resident byte counter | insert, write_at, write_at_dense_budget, clear_slot, clear, pin, demote_slot, promote_slot, evict_slot, restore_slot, observe_scores, apply_action (demote_to, offload_to), step | multi-step transactions that fail late and roll back; pinned slots; generations that external code relies on | accounting exact, every tile restorable bit for bit, all or nothing |
| ElasticXxx bridge | `slhav2-vram/src/elasticxxx_bridge.rs` | a binding of one HOT page; control planes published to an external crate | bind, validate, prepare, apply, commit, rollback | each phase takes the cache mutex anew, so the runtime interleaves | only the bound page is touched and it stays restorable |
| budget tree and coordinator | `elastic-core/src/budget.rs`, `elastic-runtime/src/coordinator.rs` | forest of nodes with limit, reservation and committed bytes; an account per resource | add_root, add_child, register, commit, release | sums over subtrees, reservations at several levels, saturation | no subtree over its limit, both accounts agree |
| elastic controller | `elastic-core/src/controller.rs`, `pressure.rs`, `forecast.rs`, `hysteresis.rs` | smoothed pressure, forecast level and trend, hysteresis gate, last action steps | step | three branches share counters and a gate; 0 is a sentinel | no thrashing, requests that fit |
| device arena | `slhav2-vram/src/mem/arena.rs` | free map, allocation map, used bytes, cookies | allocate, free, reset | fragmentation, alignment, stale and double frees | the blocks tile the allocation, space is found if it exists |
| elastic context | `slhav2-vram/src/elastic_context.rs` | cache, dry-run controller, positional limit, logical tokens, telemetry | set_positional_limit, step, cache_mut | controller and cache are changed by one step, either may fail | a decision is carried out or reported, memory over the budget recovers |
| C interface | `slha-c/src/lib.rs`, `elastic_ffi.rs` | registries of models and caches by address, retired tokens, a mutex per cache, an error message per thread | new, free, load, release, shutdown, every query and update | frees during calls of other threads, address reuse, order of argument checks | a call works on the object its handle was made for, or fails and changes nothing |
| llama.cpp external K store | `integration/llama.cpp/shim/slha_external_k.cpp` | global geometry, cache handle, mode, counters | prepare, write_tile, score_tiles, offload, restore, reset, release | admission and writes outside the mutex, half-done restores | within budget, restore gives back what was offloaded |
| llama.cpp scoring shim | `shim/slha_llama.cpp` | tile store, contexts, layer weights, mask, strict counters | init, K transform, score, clear, finish | worker threads between two barriers, clears, reallocation, layers that fall out | logits come from the current keys; a run reported valid is complete |
| ranking dataset | `shim/slha_rank_dataset.cpp`, `scirust/src/rank_dataset.rs` | rows and keys per layer, chunk, files and manifest | record, new chunk, flush; parse | writes that fail at exit, chunk borders, lost rows | the reader gets back what was collected, or refuses |
| training and evaluation | `scirust/src/bin/slha_train_rank.rs`, `slha_train_lr1.rs`, `slha_eval_rank.rs`, `weights.rs`, `exec_binding.rs`, `norm_manifest.rs`, `lr1_contract.rs` | a stage directory per process, the output directory, evidence and report; weight files and manifests | gates, staging, training a layer, digest, manifest, publication by rename; evaluation and report | several processes on one path, stopped at any step; writes that break, renames that fail | what is published is whole and of one attempt, and is never lost; a report is about one output |
| MCP server | `slha-mcp/src/main.rs` | session life cycle, frame so far | read_frame, one handler per method, one per tool | frames in pieces, too long, malformed; order of messages | every request answered once, in order, with its id |
| transaction, tiers | `elastic-core/src/transaction.rs`, `tiers.rs` | phase of a transition, tier graph | prepare, commit, rollback; graph validation, moves | a rollback that fails too | the transition is whole, or its failure is reported |
| CUDA engine, pipeline | `slhav2-vram/src/backends/cuda.rs`, `pipeline.rs` | driver contexts, buffers, modules; device tiles and their host mirror | create, allocate, copy, launch, drop; upload, score | order of drops, failed copies, elided copies | driver objects freed once and in their context; scores are of the tiles accepted |
| codecs and kernels | `scirust/src/attention/slha_v2/`, `slhav2-vram/src/codec.rs`, `kernels/slha_score.cu` | a 128-byte tile | quantise, pack, decode, score (scalar, SSE/AVX2, NEON, CUDA) | bit layouts written once and read by many hands | all kernels read the same level for each dimension |
| safety guard | `scirust/src/safety.rs` | circular window of cosines, thresholds | new, analyze, reset | NaN in comparisons, the window's border | the verdict follows from the last vectors |

How they interact: `Ccos` owns an `EventLog` and appends an evicted tile before
it frees the slot. `ElasticKvCache` (VRAM) owns an `ElasticController`; its
`step` asks the controller and applies the action as a transaction. The bridge
shares the VRAM cache with the runtime through a mutex that each phase takes and
releases. The C interface hands out handles to caches, and the llama.cpp store
calls that interface from several threads. The shim writes the ranking dataset,
the trainers read it and publish weights that the evaluator scores: these
programs meet only in the file system. The coordinator is for
embedders; inside the repository the budget tree is used with a single node, by
the VRAM cache, the context and the controller, as the holder of a hard limit.

Except for the bridge, the C interface, the llama.cpp store and the training
programs, the modelled objects are driven through `&mut self`: calls do not overlap. What is hard there
is the length of legal call sequences, loops that fail in the middle, and the
file system underneath.

`PROJECT.json` "hazards" names every such place with the line where it bites and
the property that would notice.

## 2. Modules and the code

`PROJECT.json` "map" gives the source lines of every definition. Operators keep
the Rust names where TLA+ allows it; an operator in CamelCase that has the name
of a method (`Insert`, `Evict`) is that method as a public call, the one in
snake_case is its body, which other methods share. An operator whose comment
says "Mutant" and whose name extends another one's (`HasPlane_again`) is a
plausible mistake; it is used by no specification, only to show that a property
depends on the definition.

**Ccos.** Arena, free stack, counter, log and its error counters. The payload of
a tile is reduced to codec, flag bits, sigma_E and position: what the cache
reads. `enforce_budget` is a loop over four phases (drop planes of HOT tiles,
page out, drop planes of WARM tiles, evict), one slot a step (`pc`, `todo`), so
that the properties see every intermediate state. The log is a sequence of
records whose appends may fail, with or without leaving the record behind;
attaching may replace a log by one with earlier contents. `owed` is a history
variable: the seqs inserted or live since the log was attached.

**EventLog** and **AbstractLog.** The file is a sequence of cells, several to a
record, so partial writes, torn tails and misframing exist. `floor` is the part
of the body a crash cannot take, `ghostTail` what an unsynchronised truncation
may bring back. A crash takes any part of what is not durable, the header too if
it was never synchronised. `TornWritesStay` says whether the truncation after a
failed write may fail too. AbstractLog is the promise: entries with a durable
prefix, promised entries inside it, crashes that lose newest entries first.

**VramCache.** Slots with tier, resident bytes, packed residual plane, offloaded
bytes and generation. A payload is identified with the generation it was written
under, so a residual plane put into the wrong tile would show. `apply_action`
(demote and offload loops) and `write_at_dense_budget` run turn by turn with the
snapshot that a failure restores; `step` is the same transaction with the action
and target that the controller asks for, both left open.

**VramBridge** extends VramCache: any number of transactions, each at a phase,
interleaved with every cache call (`Next`). The order of the phases is that of
the external `TransactionalKvPageV1`, modelled from its use. The dense, paged and
hybrid accounts of the control plane, the advice between layouts and the
capacity observation are operators over the cache.

**Coordinator.** The budget forest with saturating u64 arithmetic (at a small
`MaxU`), and the per-resource accounts above it.

**ElasticController.** `step` with its smoother, forecast and gate, in exact
integer arithmetic: pressure is a multiple of 1/Unit with Unit large enough for
the standard smoothing constants to divide. The code uses f64; rounding is the
one thing lost. Trace and history are reported, never read, and left out.

**VramContext** extends ElasticController. One observation is checked field by
field with the checked u64 arithmetic of the code (at a small `U64_MAX`), turned
into a load, and the action that the dry-run controller decides is applied to a
cache that appears as the number of tiles of each tier: which tile a release
takes is VramCache's matter, how many it takes follows from the counts. The same
module lets the controller execute its decisions itself, its other use.

**ElasticFfi** is the registry of caches behind the C interface: addresses, kept
tokens, objects that outlive their registration. Residency is in units of 32
bytes (a HOT tile takes 4, a WARM one 3). Two modules use it:

**CApi** adds models, threads and every exported function. A function is the list
of its checks in the order of the code, its effect and its output. A call has two
steps that others can get between: checks and lookup, then the work under the
object's mutex. Callers pass wrong arguments, and handles that were freed or
whose address was given out again.

**ExternalK** and **LlamaShim** are the llama.cpp side. `write_tile` is the four
calls of the C interface that it makes without the mutex, one step each;
`slha_prepare`, offload, restore, reset and release are the host's. LlamaShim
adds contexts, decodes as graphs of operations with a barrier after each, worker
threads, the tile store and the flags behind `is_valid`, in replace mode. A key's
payload is the layer, position and context it was encoded for, so a stale tile
shows in a logit.

**RankDataset.** Rows and keys as the shim records them, chunks, the files as
sequences of numbers, short writes, and the reader's checks in their order. The
same number type stands for floats and integers.

**RankGates** and **RankPrograms.** The gates are what the programs accept: a
weight file word by word with its versions and checksum, the execution binding,
the normalisation manifest, the LR1 contract, the command lines, and the
evaluator's metrics as comparisons over rows. A document is a record of its
fields and a digest is the value digested. The programs are processes over one
output path; a step is one system call that others can see (create the stage,
save a layer, hash it, write the manifest, look at the output, each rename). A
write may break after some words, a rename or removal may fail, a process may stop
anywhere. The optimiser is opaque: it refuses, diverges, or returns a projection.

**McpServer.** A pipe of payload units and newlines, read in chunks of any
length; `read_frame` with its limit; `handle` with the checks of each method and
tool on messages reduced to what those checks tell apart.

**CudaEngine.** The driver (external) with contexts, the one current on the
thread, memory and modules; the Rust objects with their reference counts; drops in
any order that Rust allows; lengths and offsets with the overflow checks.

**GpuPipeline.** Device memory, its host mirror, and uploads, scores and
downloads of which any may fail; a score is the pair of tile and query.

**TileKernels.** No abstraction of the layout: a plane is a set of 512 bits, the
dimensions are 128. `quantise` and `pack` write it; the scalar decoder, each
vector kernel and the CUDA kernel read it, and a score is the set of terms
(dimension, level, scale). Levels are integers in quarter steps.

**SafetyGuard** and **ElasticTransition.** The three signals with NaN as a value of
its own; run_transaction over an implementor that does everything the trait's
comments allow.

**DeviceArena.** First fit at aligned offsets, coalescing on both sides,
cookies. Callers are part of the model: `given` are the slices they ever got,
`held` those they have not freed since the last reset; they free anything they
were ever given, twice or after a reset.

**MC\*.** Values for the constants. MCEngines extends the eight modules whose
objects do not meet (arena, CUDA engine, pipeline, kernels, guard, transitions,
dataset, programs): a behaviour picks one and runs it, so the state spaces add up
instead of multiplying. MCRankPrograms holds the values of the last one: each
document as it should be and with every single fault.

**CcosProofs** (with the log), **VramCacheProofs** (with the bridge),
**ContextProofs** (with the controller and the coordinator), **CApiProofs** (with
the MCP server), **LlamaProofs** (with the external store and the
ranking dataset), **EngineProofs** (arena,
transitions, pipeline, CUDA engine, training programs, safety guard),
**KernelProofs** and **SetLemmas.** Section 4. Where a proof module extends two
components, the second one's specification has a name of its own: `JournalSpec`,
`BridgeSpec`, `CoordSpec`, `McpSpec`, `RankSpec`.

## 3. Runs

| run | question | bounds |
|---|---|---|
| `ccos_ladder` | does the byte counter stay exact, and does enforce_budget meet its budget in increasing harshness, sinks last? | 3 slots, 3 insertions, tiles of every codec, two budgets (one forces evictions, one only degradation), both page-out and both eviction policies |
| `ccos_log` | does anything get lost, or lost uncounted, when appends fail? | 2 slots, 3 insertions, 2 failed appends, both durabilities, logs that are new or hold records of earlier runs |
| `eventlog` | does the file implement the abstract log through faults and crashes? | records of 3 cells, 5 appends, 3 faults, both format versions |
| `vram` | are transactions all or nothing, tiles restorable, generations fresh; do calls return? | 3 slots, 4 writes, 3 evictions, importances 0 and 1, hard budget 320, targets 128, 224 and 288 |
| `vram_bridge` | do two transactions and the runtime interfere, and do the control planes tell the truth? | 2 transactions, 2 slots, 3 writes, hard budgets 224 and 256 |
| `coordinator` | are limits and reservations kept in every forest? | 4 nodes, 2 resources, u64::MAX = 5 |
| `elastic_controller` | does the policy thrash or ask for what does not fit; does the context carry out what it reports? | 5 loads 1 or 3 steps apart around both watermarks, above capacity and without capacity; 4 observations of 8 kinds, 3 tiles, 320 bytes |
| `elastic_controller_start` | finding 1 | clock starting at 0 |
| `c_api` | may threads and wrong arguments reach another object, or change something in a failing call? | 2 threads (one calls everything), 3 addresses, 2 caches, 1 model, 2 wrong arguments in a call |
| `llama` | are the logits those of the current keys, within the budget, and does is_valid tell? | 2 layers, 2 positions, 2 workers, 2 contexts or clears, 11 environments: vector and elastic store, budgets for three WARM tiles with and without a HOT one, masks, missing weights, rejected keys, rows and tensors |
| `mcp` | is every request answered once, in order? | 3 lines of 16 kinds in chunks of any length, the longest frame 2 units |
| `engines` | eight modules one at a time: space found, driver objects owned, scores of accepted tiles, kernels exact, verdicts from the history, transitions whole, dataset faithful, publications whole, reports of one output | arena of 11 bytes, alignment 3, sizes 0 to 4; 2 CUDA contexts with 3 objects; 3 device tiles; 10 sets of flags at all 128 dimensions; 5 analyses; tier lists with duplicate names and wrong ranks; dataset of 2 layers, 2 heads, 2 positions, 2 clears, 1 loss, 3 kinds of short write; pairs of trainers and evaluators on 2 layers, with and without an earlier output, and each program alone on every faulty file, dataset, document and command line |

Why these bounds are enough. Two live slots are what an ordering between tiles
needs; the third lets one be in a different tier from both. Three records let a
torn one be first, middle or last, and a second attempt follow a failed one.
320 bytes are less than three HOT tiles and more than three WARM ones, so every
tier mix occurs and both outcomes of a release and of a dense write do. A
capacity that is no multiple of the alignment leaves a tail too short to align.
Four nodes give two levels with siblings at each; `MaxU` = 5 equals one of the
limits, so saturation and a full node meet. Two threads or workers are what a
race needs, and the third address lets one be given out again while two are in
use. Two wrong arguments in one call tell the order of its checks. Two lines
before a third put a malformed or oversized frame between good ones. Two
processes are what the races on the output path need: one between another's look
and its rename. Every action
and disjunct of the next-state relations is taken by some run. Bounds sit in guards and are named
`Max...`; a deadlock at a bound is not one of the code, hence
`CHECK_DEADLOCK FALSE`, except in `c_api`: there a thread can always make a call,
so TLC also checks that none gets stuck.

**Fairness.** Ccos and VramCache assume weak fairness of the steps inside a call
that has begun (`EnforceStep`, `CallStep`), and of nothing else: the code is a
loop on the caller's thread and once entered runs to its return. No fairness is
assumed of callers or of the log's answers. LlamaShim assumes weak fairness of
each worker's `Work` and of the `Barrier`: ggml runs every task of an operation
and passes a barrier once all threads have reached it; the host owes nothing.
McpServer assumes weak fairness of the server, a loop that reads as long as there
is input; the client owes nothing, not even the rest of its line. The other
specifications have no liveness property and no fairness.

Properties worth arguing about:

- `DurableLosesNothing`: with a durable log, a tile seen since the log was
  attached is live or on record at every moment, and rehydrating by seq returns
  the tile as evicted, however many failed attempts wrote older records.
  With best effort, what is gone is counted as an error.
- `AckedReadable`, `ImplementsAbstractLog`: hold as long as the truncation after
  a failed write works (`TornWritesStay = FALSE`); findings 3 and 4 show what
  happens otherwise.
- `FailsOnlyIfImpossible`: a release fails only if evicting everything evictable
  would not meet the target, a dense write only if demoting every other slot to
  WARM would not, and a dense write never makes a key unscoreable. A greedy loop
  that gives up early breaks it.
- `ImportantPaysLast`: over a whole release, not per turn.
- `BoundPageRestorable`: whatever the runtime and other transactions do between
  two phases, the bound page, if it is still that page, can be put together.
- `SiblingsKeepReservation`: a commit leaves every sibling on its path room for
  what it reserved and has not used. It is what the code checks one level at a
  time; finding 7 shows what that does not give.
- `FindsSpace`: an allocation is refused only if no aligned run of free bytes,
  across block borders, is long enough; it fails if any coalescing is missed.
- `DecisionsAreReal`: a step that reports a demotion has freed something, also
  when only the machine is short of memory; one that reports otherwise, or fails,
  has freed nothing; and requests fit the resource.
- `OverBudgetRecovers`: whatever the hysteresis says, one accepted observation
  brings a cache that is beyond its budget below the recovery target.
- `ActsOnItsOwnObject`: a call that got past its lookup works on the object its
  handle was returned for, whatever was freed and allocated since; the message a
  thread reads is of its own last call.
- `ResidentWithinBudget`: admission reads tier, statistics and budget in separate
  calls; with two workers both may act on stale answers, and the budget still
  holds because the cache checks again.
- `LogitsTrusted`: no logit comes from the tile of an earlier context, and a run
  that reports itself valid has scored every key its queries can see and replaced
  no layer outside the mask. Its exception (an encode that failed) is
  `ValidMeansComplete`, section 5.
- `RestoreExact`: a restore gives back every slot as it was, or leaves nothing
  resident.
- `OneAnswerEach`: over the bytes, not the messages: the frame after an oversized
  one must still be found.
- `KernelsExact`: every reader of the plane against the scalar reference, term by
  term, also for tiles that set two codec flags; and what comes back is the grid's
  nearest level, saturation included.
- `DatasetFaithful`: what the manifest calls valid, the reader accepts and gives
  back row by row, each with the logits of the keys of its own chunk.
- `PublishedWhole`: at every moment, not only when all goes well: the output path
  holds nothing or a whole attempt whose manifest lists exactly the files beside
  it, and an output that was published once is still on disk, at the path or moved
  aside. `ReportOfOneAttempt`: the evaluator opens the path again for each layer;
  without a rank trainer nothing can have been exchanged in between.

## 4. Proofs

All theorems are for every value of the constants that satisfies the modules'
`ASSUME`s: bounds are naturals, sets of inputs are well typed, and, for the
training programs, an output that is there at the start is one that such a program
published. TLC evaluates them on the instances of section 3. Where a theorem has
a further hypothesis, it stands in the statement, and this section says which
behaviour of the code makes it necessary. Each invariant below was checked by TLC
on the instance of its run before it was proved.

**CcosProofs.** `BytesInv == TypeOK /\ BytesExact /\ FreeIsCold` is inductive by
itself but no part of it is alone: that a popped slot adds exactly its new
tile's bytes needs the popped slot to be COLD (FreeIsCold), and the counter to be
a natural number needs BytesExact. The footprint is written with cardinalities
(128 per HOT slot, 96 per WARM one, less the dropped planes); `FootprintAt`
reduces "one slot changes" to four cardinality changes, proved in SetLemmas.
`CacheInv` adds `StateMatchesTile` and what each phase of enforce_budget has
established (`PhaseInv`), from which follow that true means the budget is met
(`BudgetMet`), that false means a durable log refused (`FailsOnlyBlocked`), and
the action properties `IncreasingHarshness` and `NeverRegains`.

`NothingLost` (`DurableLosesNothing`) needs `LogInv`: no two slots that were ever
used share a seq (`SeqsApart`), so that a record appended for one tile leaves the
newest record of every other where it was; refusals are counted errors; and a log
that must be durable is attached. `SinksGoLast` (`SinksLast`) has the hypothesis
that every cache is BestEffort: with a durable log an eviction may be refused, and
the order then fails (finding 2).

The log, in the same module: `JournalInv` has four parts: types; `DiskFramed`, the body is a
sequence of whole frames followed by at most one torn one, and what a crash may
bring back or take is framed alike; `HandleTrue`, an open handle counts the frames
there are; `AckedDurable`, acknowledged records lie below the part a crash cannot
take. The arithmetic is division by the record size (`DivMod`, `MulLess`).
Theorems: `AckedStayReadable`, `RecoveryKeepsRecords`, and the refinement
`ImplementsLog`: every step maps to a step of AbstractLog or to a stutter, one
lemma per action. All have the hypothesis `~TornWritesStay`: the code ignores
whether the truncation after a failed write worked, and findings 3 and 4 refute
them where it did not.

**VramCacheProofs.** The invariant `VInv` has a part for each slot (`Shape`: what
a tier holds, whose payload it is), for the whole cache (`CacheOK`: length,
shapes, counter), the same for the snapshot of a running call (`SnapOK`), and what
a call has not touched since its snapshot (`CallKeeps`, `DenseKeeps`), without
which a rollback, which restores only some of the fields, could not be shown to
restore the whole cache. `GenInv` adds that generations, the snapshot's included,
are below next_seq. `StepKinds` first classifies the steps, so that each of the
theorems is proved over a handful of kinds: `CacheTypeCorrect`, `AccountedAlways`,
`LosslessAlways`, `NothingKeptTwiceAlways`, `TransactionsAllOrNothing`,
`PinnedSlotsProtected`, `GenerationsAlwaysFresh`, `GrowthStaysWithinHard`.

Properties of a whole release need to relate the cache to the snapshot at every
turn: `AdaptInv` says which moves a slot can have made since the call began,
`OrderInv` that of two slots the one that comes first in the candidate order has
moved at least as far. From them: `ImportantSlotsPayLast` and `FailuresAreForced`
(`FailsOnlyIfImpossible`; when no candidate is left every slot is where an ideal
release would have it, and the byte counts compare by cardinality).

The bridge keeps `VInv`, whatever its phase, and adds `BindInv`: a transaction
remembers the full tile of the generation it bound. `BoundPagesRestorable` follows
for any number of transactions. `ControlPlanesExact` follows from `VInv` alone:
the encodings of the control planes are injective on shaped slots.

**ContextProofs.** `GateInv` ties the controller's clock, its gate, the two
remembered steps and the history that `NoThrashing` speaks of: an active gate was
answered at the very step it remembers, and no action of the gate is later than
that. `ActionsSpaced` has the hypothesis `0 \notin StartSteps`: for
last_action_step, 0 also means "none yet", and `elastic_controller_start` shows
what happens at a clock that starts there. `ContextInv` is small (types, and that
what is asked fits); `DecisionsCarriedOut` and `BudgetRecovered` are about one
step each, and their weight is in the arithmetic of releasing a target from counts
of tiles.

The coordinator: `CoordInv` says that a node's committed bytes are the sum over the
resources attached to it, that an unregistered resource holds none, and that the
sum over a subtree is within its root's limit. The last part is what makes the
others provable: the code's sums saturate, and only a subtree within its limit
shows that none of them ever did. That one commit changes exactly the sums on the
path to the root needs the forest's shape: ancestors form a chain on which no node
has two children (`AncestorsChain`, `ChainChild`), for any number of nodes.
`CoordinatorAccounts` (`OwnedExactly`) and `CommitsSpareSiblings`
(`SiblingsKeepReservation`) follow.

**CApiProofs.** `ApiInv`: an address is of a live cache, a live model, a released
cache or a released model and of no two of them (`OneUse`); a handle that was
returned keeps its address for good, and while live leads to its object
(`HandlesTrue`); types; and what a thread in a call, or reading its message, holds
is its own (`OwnReports`). `CallsOwnObject` and `FailuresChangeNothing`, the second
by one lemma per kind of function.

The MCP server: `McpInv` describes the bytes that are still to be read as what is
left of the line being read followed by the whole lines after it (`Reading`,
`Handling`), the answers as those of the first `done` lines in order
(`AnswersInOrder`), and the handshake by the lines that made it.
`EveryLineAnsweredOnce` (`OneAnswerEach`) holds for any number of lines, chunks
and frame lengths.

**LlamaProofs.** `LlamaInv` has types, geometry, what every phase of a worker's
call has established (`Phases`), the cache's budget (`CacheOK`), the tile store
(`StoreOK`), keys of this context only (`Fresh`), what an offload saved
(`Snapshot`), and `Complete`, `Selected` and `ScoresCurrent`, which make up
`LogitsTrusted`. The budget needs no relation between the workers: the proof shows
that the answers they read before writing do not matter, since each write checks
again under the object's mutex. Completeness does need the barrier: within an
operation every position is one worker's. Theorems: `StaysWithinBudget`,
`LogitsAreTrusted`, `RestoresExactly`.

Its second part is the ranking dataset, `DatasetReadsBack` (`DatasetFaithful`). The
invariant `RankInv` says that raw keys and tiles of a position agree and are of
this context (`KvOK`), that a row of the open chunk holds the logits of the tiles
written so far and a row of a sealed chunk those of the keys sealed with it
(`RowOK`), and, as long as nothing was lost, that each chunk with keys has a row
(`LayerFull`). It is inductive because a context is sealed before its number moves,
and because a row sees only positions encoded before it. The file is a separate
argument, about data alone: a flattened sequence of sequences has each of them at
the sum of the lengths before it (`Joins`, `Flat`), so every section written by
`flush` lies where the header's counts put it (`Plan`), the reader's checks pass
and it cuts out the same sections (`Found`, `Decoded`, `ReadsBack`). The hypothesis
`TRUE \notin PriorDatasets` is a directory without an earlier dataset; with one,
finding 10 stands. Numbers of layers, heads, threads, positions, clears and losses
are arbitrary, as is the file that fails and how much of it was written.

**EngineProofs**, a part per component:

- `ArenaInv` is the layout (types, `Tiled`, and `Joined`: no free block ends where
  another begins), fresh cookies, and held slices being live. `Joined` makes
  `FindsSpace` provable: a run of free bytes that crossed a border between two
  free blocks would have to cross a seam that coalescing removed, so it lies in
  one block. `ArenaTypeCorrect`, `TiledAlways`, `FindsSpaceAlways`,
  `HeldAlwaysLive`.
- `TransitionInv` says for each phase what current and scratch representation may
  be, and that a graph was validated: `TransitionsWhole`.
- `PipeInv`: a slot whose mirror is not blank has the mirror's tile on the device.
  `PipelineScores` has the hypothesis `NoBlankTiles`: a blank tile is not copied
  when the mirror is blank too, and the device memory was never cleared.
- `CudaInv`: reference counts, numbering, and that the handles of one module agree
  on its context: `CudaOwned`.
- `TrainInv`: in each step of a trainer, what of its stage is complete (`Plan`,
  `Built`, `TrainerOK`), and for all of them together that an output was moved
  aside only by the one that will put it back or has replaced it (`Kept`):
  `OutputsWhole`. Its hypothesis is `~HashMayFail`, finding 11. `EvalInv` says what an
  evaluator has read so far: `ReportsConsistent`, with the hypothesis
  `EarlierByLr1` that an output found at the start is an LR1 trainer's: the manifest
  of a rank trainer may list fewer layers than the evaluator reads.
- `GuardInv`: the circular window holds the last four cosines that passed, each at
  its number modulo four. `GuardJudgesHistory` (`VerdictFromHistory`): the verdict
  is a function of the input and of those four, whatever was analysed before.

**KernelProofs.** The invariant is small (`KernelInv`: the plane is what the
quantiser made of the input and never changes); the theorem `KernelsAgreeAndDecode`
(`KernelsExact`) is about arithmetic, for every set of the flags and all integer
inputs, where the run takes ten sets and the inputs around each grid point. The
argument has four parts. A reference reads dimension d by the places of its bits,
and the shifts and masks of the three readers that go dimension by dimension pick
out those bits, also of codes that straddle bytes (`ShiftMask`, `TwoByteCode`,
`CodePlace`). A vector kernel is the reference in another order: each of the seven
lane orders is a bijection onto the dimensions (`Reindexed` and the lemmas `By...`),
so no term is lost or taken twice. The header fields lie in disjoint spans of the
struct, and the offset tables of the wire and of the kernel name those spans
(`FieldSpans`, `OffsetsPlaced`). Packing ORs one code after the other into a zero
plane: no code touches another's bits (`NibblePlane`, `CodePlane`), so the plane
holds every code, and rounding with a clamp, the corrected 3-bit grid and the
search of the NF4 codebook each give the nearest point (`NearestStep`,
`NearestTq3`, `NearestOfCodebook`).

**SetLemmas.** Cardinalities under the change of one element, least elements, and
sums over finite sets: what a sum is (`AddsExists`, by a least counterexample) and
how it changes with one summand (`SumChange`) or splits (`SumSplit`).

Type correctness, `FreeExact`, `StateCoherent`, `NeverRegains`,
`NothingKeptTwiceAlways`, `PinnedSlotsProtected`, `GrowthStaysWithinHard`,
`TiledAlways` and `HeldAlwaysLive` are proved only: no run repeats them.

**Only model-checked.** `CallsReturn`, `DecodeReturns` and `EveryFrameHandled`:
liveness under fairness is outside what the prover handles. Every invariant and
every action property of the passing runs is stated by a theorem. The library's
induction theorems have an operator as a parameter, which the installed provers
cannot instantiate: where a proof needed induction over data (sums, ancestors, packed
planes, lines of bytes, flattened files) it is by the least element of a set of
counterexamples, which needs no operator.

## 5. Findings

Shown by a run with an expected violation:

1. `elastic_controller_start`: 0 is both a legal step and the mark for "never":
   a controller whose clock starts at 0 demotes on every step of one activation.

**Further divergences**, each stated by a property. Three have a configuration
beside the runs (`tlc -config <cfg> <module>` reports the violation), the others are
found by changing a run's configuration as given:

2. `MCCcosSinks.cfg`, `SinksLast`: enforce_budget ignores that an eviction was
   refused and goes on to the next slot, so with a durable log one failed append
   makes it evict an attention sink while a plain tile is live; the documentation
   says sinks are dropped only when nothing else remains.
3. `MCEventLogTorn.cfg` with `PROPERTY RecoverKeepsRecords`: open_recover cuts
   `body % RECORD_BYTES` bytes off the end, wherever the torn bytes are. If they
   are in the middle (a failed write whose truncation failed, then a good
   append), the cut goes into the last complete record.
4. `MCEventLogTorn.cfg`, `AckedReadable`: after that same failed truncation the
   handle stays usable; append_durable returns Ok for a record that read_all can
   no longer decode.
5. `MCVramCachePinned.cfg`, `DemoteKeepsScoreable`: the advice of 96 bytes per
   active slot does not keep keys scoreable when a slot is pinned, because it
   keeps 128.
6. `MCVramBridge.cfg` with one bridge, no symmetry and `PROPERTY RollbackRestores`:
   a rollback of HOT to WARM is refused when the cache is over its hard budget, or
   the runtime has used the released bytes; the page stays WARM where the
   documentation promises the original HOT bytes.
7. `MCCoordinator.cfg` with `MaxNodes = 5`, `NodeLimits = {5}`, `Amounts = {2, 3}` and
   `INVARIANT ReservationsDrawable`: what a child borrows counts against its
   parent's reservation, so a cousin's commit can take capacity that another child
   has reserved.
8. `MCElasticControllerStart.cfg` with `StartSteps = {1}` and `PROPERTY
   CooldownKept`: demotions for a hard constraint or a forecast are not told to
   the gate; a promotion may follow on the next step, inside the cooldown.
9. `MCCApi.cfg` with two addresses, `MaxCaches = 0`, `Calls <- BatchCalls`, no
   symmetry and `INVARIANT OutputUntouchedOnFailure`: a batch that fails in the
   middle has already written the scores before the bad tile.
10. `MCEngines.cfg` with `PriorDatasets = {TRUE}` and `INVARIANT
    PartialNeverValid`: a flush that fails after an earlier dataset leaves that
    one's manifest, which says "valid" over files already overwritten;
    `slha_rank_dataset.hpp` promises that a partial dataset is never marked valid.
    The reader refuses the files.
11. `MCEngines.cfg` with `HashMayFail = TRUE` and `INVARIANT PublishedWhole`: the
    rank trainer takes the output of sha256sum without looking at its exit status;
    if it fails, the manifest that says valid lists an empty digest.

Stated as properties, with no configuration of their own: `ValidMeansComplete`
(LlamaShim: a key that cannot be encoded is not counted, so a run whose rows lack
it still reports itself valid) and `ModulesDieBeforeContext` (CudaEngine: load_ptx
does not make its context current, so a module may live in another one).

Met while reading and left out of the properties:

- score_tiles_cpu is documented to zero its output on a bad tile, and leaves the
  scores before it.
- The pipeline does not copy an all-zero tile that its mirror already shows,
  though the device memory was never cleared (`PipeTiles` has no such tile for
  that reason).
- A second collection in one process goes on with the chunk number of the first.
- The rank trainer is said to publish atomically; between its two renames the
  output path is empty, and a stop there leaves only the directory moved aside.
  `PublishedWhole` says what does hold.
- A training manifest says valid before it is published; LR1 trainers and
  evaluators that run at once overwrite each other's evidence and report, though
  both refuse to overwrite one that is there when they look.
- A report mixes two publications if a rank trainer replaces the output while the
  evaluator reads it; `ReportOfOneAttempt` is about the case without one.
- The execution binding is to name the inputs "actually consumed"; its digests of
  dataset, split and manifest are compared with constants and with the command
  line, not with the files that are then read.

## 6. What is not modelled

- Floating-point sums and rounding: of quantisation and scoring only the layout
  and the choice of level and scale are modelled. Learning, ranking, calibration,
  metrics: numeric fitting, whose correctness is numeric.
- The residual term of a score: each kernel adds it in the same way.
- Calibration and audit tools, the Python binding, macros and test kits, the
  journal: no state that anything reads back.
- The JSON reader and writer, the replay and representation contracts and the
  NUMA wrappers: facts about strings and records, each checked independently of
  the others and of time; a state machine adds nothing to their tests. Of the
  validators in RankGates the error code that is printed is left out.
- Of the training programs: the optimiser and the averages of the metrics; changes
  to datasets and initial weights while a program runs.
- Of the bridge: the stability gates over the layout advice (v7, v8), the
  precision preplanner and the descriptors handed to the external crate.
- Of the llama.cpp shim: shadow, collect and roundtrip modes and the score
  oracle, which compare and report.
- Of the C interface: a panic caught at the boundary, after which the next call
  goes on with the object behind the poisoned mutex.
- The CPU backend of the pipeline and the hybrid engine's bump arena.
- Of the modelled components: checksum collisions in the log; reads that fail in
  the operating system; u64 overflow of sequence numbers and cookies (2^64
  operations); f64 rounding in the controller.

## 7. Plan

The caches and the log came first: they hold the user's data; then what shares
them between threads and processes, then the engines and the training programs.
What remains: the shadow mode of the shim, and the stability gates of the bridge.
