---------------------------- MODULE RankPrograms ----------------------------
(***************************************************************************)
(* The programs that train and evaluate ranking weights: slha_train_rank,  *)
(* slha_train_lr1 and slha_eval_rank (scirust/src/bin). Several processes  *)
(* run on one file system and name the same output: each stages a          *)
(* directory of its own and renames it into place.                         *)
(*                                                                         *)
(* A step is one system call that others can see. A process may stop at    *)
(* any step; a write may break after some words; a rename or a removal may *)
(* fail. The optimiser is left to what RankGates says of it; datasets and  *)
(* initial weights do not change while the programs run.                   *)
(***************************************************************************)
EXTENDS RankGates

CONSTANTS
    Team,           \* the processes
    Setups,         \* what each process runs ("rank", "lr1", "eval" or nothing) and reads,
                    \* and the output and stage directories that earlier runs left
    RankCommands,   \* command lines of slha_train_rank and the documents they name
    Contracts,      \* documents that --contract may name
    EvalCommands,   \* command lines of slha_eval_rank
    Epsilon,        \* L2_SCALE_EPSILON
    Breaks,         \* bound: words that a broken write of weights leaves behind
    HashMayFail     \* whether sha256sum may fail on a file of the rank trainer

VARIABLES
    program,    \* the program of each process
    source,     \* what each process reads
    proc,       \* the local state of each process
    stage,      \* <output>.stage.<pid>
    prev,       \* <output>.prev.<pid>
    files,      \* the output directory and the files beside it
    published   \* history: an output directory has been in place

rankProgVars == <<program, source, proc, stage, prev, files, published>>

NoDoc == [kind |-> "none"]
CutDoc == [kind |-> "cut"]
LayerIds == 0 .. N_LAYERS - 1
EmptyDir == [there |-> TRUE, lineage |-> NoDoc, manifest |-> NoDoc, layers |-> [l \in LayerIds |-> NoFile]]
AbsentDir == [EmptyDir EXCEPT !.there = FALSE]

(* A directory of the programs, in whatever state it was left.              *)
IsDirectory(d) ==
    /\ d = [there |-> d.there, lineage |-> d.lineage, manifest |-> d.manifest, layers |-> d.layers]
    /\ d.there \in BOOLEAN
    /\ d.layers = [l \in LayerIds |-> d.layers[l]]

(* Every layer is there and loads, the manifest lists what is there, and    *)
(* both say what it was trained from.                                       *)
Whole(d) ==
    /\ d.there
    /\ d.lineage.kind = "lineage" /\ d.manifest.kind = "manifest"
    /\ DOMAIN d.manifest.hashes \subseteq 1 .. N_LAYERS
    /\ \A i \in DOMAIN d.manifest.hashes :
          d.layers[i - 1] = d.manifest.hashes[i] /\ Loads(d.manifest.hashes[i])
    /\ IF "scales" \in DOMAIN d.lineage
       THEN /\ d.manifest.hashes # <<>>
            /\ \A l \in DOMAIN d.manifest.scales :
                  d.manifest.scales[l] = d.lineage.scales[l] /\ PositiveFinite(d.lineage.scales[l])
       ELSE /\ Len(d.manifest.hashes) = N_LAYERS
            /\ d.manifest.initial = d.lineage.initial

(* Files are sequences of words, layer numbers are unsigned, and an output  *)
(* that is there before the programs run is one that a trainer published.   *)
ASSUME ProgramsAssumption ==
    /\ HashMayFail \in BOOLEAN
    /\ \A s \in Setups :
          /\ s.program \in [Team -> {"rank", "lr1", "eval", "none"}]
          /\ \A p \in Team, l \in LayerIds : s.source[p].weights[l] \in Seq(Int)
          /\ s.stage = [p \in Team |-> s.stage[p]]
          /\ \A p \in Team : IsDirectory(s.stage[p])
          /\ IsDirectory(s.out)
          /\ s.out.there => Whole(s.out)
          /\ s.out.there => s.out.manifest.hashes \in Seq(Seq(Int))
    /\ \A c \in RankCommands :
          /\ c.args.n_layers \in Nat
          /\ c.args.layers[1] = "range" => c.args.layers[2] \in Nat /\ c.args.layers[3] \in Nat

Fresh == [at |-> "gate", n |-> 0, scope |-> {}, scales |-> <<>>, layer |-> 0, hashes |-> <<>>,
          read |-> NoDoc, control |-> NoSummary, candidate |-> NoSummary]

RankProgInit ==
    /\ \E s \in Setups :
          /\ program = s.program
          /\ source = s.source
          /\ stage = s.stage
          /\ files = [out |-> s.out, evidence |-> NoDoc, validation |-> NoDoc,
                     startup |-> NoDoc, report |-> NoDoc]
    /\ proc = [p \in Team |-> Fresh]
    /\ prev = [p \in Team |-> AbsentDir]
    /\ published = files.out.there

At(p, prog, at) == program[p] = prog /\ proc[p].at = at
AtTrainer(p, at) == program[p] \in {"rank", "lr1"} /\ proc[p].at = at
GoTo(p, at) == proc' = [proc EXCEPT ![p].at = at]
Exit(p) == GoTo(p, "exited")

(* What a step that touches this process only leaves alone.                 *)
LocalStep == UNCHANGED <<program, source, stage, prev, files, published>>
StageStep == UNCHANGED <<program, source, prev, files, published>>
DiskStep == UNCHANGED <<program, source, stage, prev, published>>

-----------------------------------------------------------------------------
(* Gates: nothing is created before they are passed.                        *)

RankGate(p, c) ==
    /\ At(p, "rank", "gate")
    /\ IF /\ ValidRank(c.args)
          /\ verify_exec_binding(c.binding, c.binding_sha, c.split_sha)
          /\ load_normalisation(c.norm, c.args.norm_sha, Epsilon)
       THEN proc' = [proc EXCEPT ![p].at = "stage", ![p].n = c.args.n_layers,
                                 ![p].scope = parse_layer_set(c.args.layers, c.args.n_layers),
                                 ![p].scales = by_layer(c.norm)]
       ELSE Exit(p)
    /\ LocalStep

(* verify-normalisation-manifest and verify-execution-binding.              *)
verify_only(p, c) ==
    /\ At(p, "rank", "gate")
    /\ \/ /\ is_sha256(c.args.norm_sha)
          /\ load_normalisation(c.norm, c.args.norm_sha, Epsilon)
       \/ verify_exec_binding(c.binding, c.binding_sha, c.split_sha)
    /\ GoTo(p, "done")
    /\ LocalStep

(* "LR1 never overwrites a prior training attempt".                         *)
Unused(d) == ~d.out.there /\ d.evidence = NoDoc /\ d.startup = NoDoc

InitialHashes(p) == source[p].weights

Lr1Gate(p, contract) ==
    /\ At(p, "lr1", "gate")
    /\ IF /\ source[p].manifested
          /\ Unused(files)
          /\ validate_contract(contract)
          /\ \A l \in LayerIds : InitialHashes(p)[l] # NoFile
       THEN proc' = [proc EXCEPT ![p].at = "stage", ![p].n = N_LAYERS, ![p].scope = LayerIds]
       ELSE Exit(p)
    /\ LocalStep

EvalGate(p, a, contract) ==
    /\ At(p, "eval", "gate")
    /\ IF /\ ValidEval(a)
          /\ source[p].manifested
          /\ files.out.there /\ files.out.manifest # NoDoc
          /\ files.report = NoDoc
          /\ validate_contract(contract)
       THEN proc' = [proc EXCEPT ![p].at = "hash", ![p].n = N_LAYERS]
       ELSE Exit(p)
    /\ LocalStep

-----------------------------------------------------------------------------
(* The stage and its lineage                                                *)

(* An old stage is removed first. The rank trainer goes on when that fails. *)
CreateStage(p) ==
    /\ AtTrainer(p, "stage")
    /\ \/ /\ stage' = [stage EXCEPT ![p] = EmptyDir]
          /\ GoTo(p, "lineage")
       \/ /\ program[p] = "rank" /\ stage[p].there
          /\ UNCHANGED stage
          /\ GoTo(p, "lineage")
       \/ /\ stage' \in {stage, [stage EXCEPT ![p] = AbsentDir]}
          /\ Exit(p)
    /\ StageStep

Lineage(p) ==
    IF program[p] = "rank"
    THEN [kind |-> "lineage", scales |-> proc[p].scales]
    ELSE [kind |-> "lineage", initial |-> InitialHashes(p)]

(* The rank trainer indexes the scales of every layer it was told of, which *)
(* panics past the last; it renames a temporary into place.                 *)
WriteLineage(p) ==
    /\ AtTrainer(p, "lineage")
    /\ \/ /\ program[p] = "rank" => proc[p].n <= N_LAYERS
          /\ stage' = [stage EXCEPT ![p].lineage = Lineage(p)]
          /\ GoTo(p, "sidecar")
       \/ /\ \/ UNCHANGED stage
             \/ program[p] = "lr1" /\ stage' = [stage EXCEPT ![p].lineage = CutDoc]
          /\ Exit(p)
    /\ StageStep

(* The copy beside the training manifest: its errors are ignored by the     *)
(* rank trainer and fatal to the other.                                     *)
WriteSidecar(p) ==
    /\ AtTrainer(p, "sidecar")
    /\ \/ /\ files' = [files EXCEPT !.startup = Lineage(p)]
          /\ GoTo(p, "layer")
       \/ /\ \/ files' = [files EXCEPT !.startup = CutDoc]
             \/ UNCHANGED files
          /\ IF program[p] = "rank" THEN GoTo(p, "layer") ELSE Exit(p)
    /\ DiskStep

-----------------------------------------------------------------------------
(* One layer after the other                                                *)

Data(p) == source[p].data[proc[p].layer]
InitialFile(p) == source[p].weights[proc[p].layer]
InScope(p) == proc[p].layer \in proc[p].scope
AtLayer(p) == AtTrainer(p, "layer") /\ proc[p].layer < proc[p].n

(* The rank trainer removes its stage before it exits.                      *)
FailLayer(p) == IF program[p] = "rank" THEN "cleanup" ELSE "exited"

(* The strict reader, the layer number and the chunk layout are asked for   *)
(* by LR1 and the evaluator.                                                *)
ReadStrictly(data, l) == data.read = "ok" /\ data.layer = l /\ data.layout

Readable(p) ==
    IF program[p] = "rank" THEN Data(p).read = "ok"
    ELSE ReadStrictly(Data(p), proc[p].layer) /\ Data(p).rows > 0

Scale(p) == IF program[p] = "rank" THEN proc[p].scales[proc[p].layer] ELSE 1

Trainable(p) ==
    /\ Loads(InitialFile(p))
    /\ InScope(p) => /\ Readable(p)
                     /\ Data(p).d = from_bytes(InitialFile(p)).d
                     /\ PositiveFinite(Scale(p))

Trained(p) ==
    LET m == from_bytes(InitialFile(p))
    IN IF InScope(p) THEN [m EXCEPT !.projection = train_ranking(Data(p).rows, @, Scale(p))] ELSE m

(* A dataset file that ends early: the rank trainer's own reader panics.    *)
RefuseLayer(p) ==
    /\ AtLayer(p)
    /\ ~Trainable(p)
    /\ IF /\ program[p] = "rank" /\ Loads(InitialFile(p))
          /\ InScope(p) /\ Data(p).read = "short"
       THEN Exit(p) ELSE GoTo(p, FailLayer(p))
    /\ LocalStep

(* The trained projection, or LR1's loss, is not finite.                    *)
Diverge(p) ==
    /\ AtLayer(p) /\ Trainable(p)
    /\ InScope(p) /\ Data(p).rows > 0
    /\ GoTo(p, FailLayer(p))
    /\ LocalStep

PutLayer(p, file) == stage' = [stage EXCEPT ![p].layers[proc[p].layer] = file]

SaveLayer(p) ==
    /\ AtLayer(p) /\ Trainable(p) /\ Encodable(Trained(p))
    /\ PutLayer(p, try_to_bytes(Trained(p)))
    /\ GoTo(p, "digest")
    /\ StageStep

(* fs::write truncates the file and may stop after any word of it.          *)
BreakLayer(p, k) ==
    /\ AtLayer(p) /\ Trainable(p)
    /\ \/ Encodable(Trained(p)) /\ PutLayer(p, SubSeq(try_to_bytes(Trained(p)), 1, k))
       \/ UNCHANGED stage
    /\ GoTo(p, FailLayer(p))
    /\ StageStep

(* sha256sum reads the file back. The rank trainer takes what it printed,   *)
(* nothing when it failed; LR1 exits.                                       *)
Digests(p, file) == IF HashMayFail /\ program[p] = "rank" THEN {file, NoFile} ELSE {file}

DigestLayer(p) ==
    /\ AtTrainer(p, "digest")
    /\ \/ \E h \in Digests(p, stage[p].layers[proc[p].layer]) :
             proc' = [proc EXCEPT ![p].at = "layer", ![p].layer = @ + 1, ![p].hashes = Append(@, h)]
       \/ program[p] = "lr1" /\ Exit(p)
    /\ LocalStep

(* The removal may fail half-way; nobody reads the stage again.             *)
Cleanup(p) ==
    /\ AtTrainer(p, "cleanup")
    /\ stage' \in {stage, [stage EXCEPT ![p] = AbsentDir]}
    /\ Exit(p)
    /\ StageStep

-----------------------------------------------------------------------------
(* Manifests                                                                *)

TrainingManifest(p) ==
    IF program[p] = "rank"
    THEN [kind |-> "manifest", hashes |-> proc[p].hashes,
          scales |-> [l \in proc[p].scope |-> proc[p].scales[l]]]
    ELSE [kind |-> "manifest", hashes |-> proc[p].hashes, initial |-> InitialHashes(p)]

WriteManifest(p) ==
    /\ AtTrainer(p, "layer")
    /\ proc[p].layer = proc[p].n
    /\ \/ /\ stage' = [stage EXCEPT ![p].manifest = TrainingManifest(p)]
          /\ GoTo(p, "evidence")
       \/ /\ stage' \in {stage, [stage EXCEPT ![p].manifest = CutDoc]}
          /\ Exit(p)
    /\ StageStep

(* --training-manifest, and --validation-manifest of the rank trainer, whose *)
(* errors are ignored.                                                       *)
WriteEvidence(p) ==
    /\ AtTrainer(p, "evidence")
    /\ \/ /\ \E copy \in IF program[p] = "rank" THEN {TrainingManifest(p), CutDoc, files.validation}
                         ELSE {files.validation} :
                files' = [files EXCEPT !.evidence = TrainingManifest(p), !.validation = copy]
          /\ GoTo(p, IF program[p] = "rank" THEN "look" ELSE "publish")
       \/ /\ files' \in {files, [files EXCEPT !.evidence = CutDoc]}
          /\ Exit(p)
    /\ DiskStep

-----------------------------------------------------------------------------
(* Publication. A rename onto a directory that is not empty fails.          *)

LookAtOutput(p) ==
    /\ At(p, "rank", "look")
    /\ GoTo(p, IF files.out.there THEN "aside" ELSE "publish")
    /\ LocalStep

MoveAside(p) ==
    /\ At(p, "rank", "aside")
    /\ \/ /\ files.out.there /\ ~prev[p].there
          /\ prev' = [prev EXCEPT ![p] = files.out]
          /\ files' = [files EXCEPT !.out = AbsentDir]
          /\ GoTo(p, "swap")
       \/ /\ UNCHANGED <<prev, files>>
          /\ Exit(p)
    /\ UNCHANGED <<program, source, stage, published>>

RenameStage(p, after) ==
    /\ ~files.out.there
    /\ files' = [files EXCEPT !.out = stage[p]]
    /\ stage' = [stage EXCEPT ![p] = AbsentDir]
    /\ published' = TRUE
    /\ GoTo(p, after)
    /\ UNCHANGED <<program, source, prev>>

Swap(p) ==
    /\ At(p, "rank", "swap")
    /\ \/ RenameStage(p, "drop")
       \/ GoTo(p, "restore") /\ LocalStep

(* What was there before goes, or a part of it.                             *)
DropPrevious(p) ==
    /\ At(p, "rank", "drop")
    /\ prev' \in {[prev EXCEPT ![p] = AbsentDir], [prev EXCEPT ![p].manifest = NoDoc]}
    /\ GoTo(p, "done")
    /\ UNCHANGED <<program, source, stage, files, published>>

(* The rename back is tried before the stage is removed. Mutant: what was   *)
(* moved aside is removed with the stage.                                   *)
AfterRestore_drop(p) == [prev EXCEPT ![p] = AbsentDir]

AfterRestore(p) == prev

Restore(p) ==
    /\ At(p, "rank", "restore")
    /\ \/ /\ ~files.out.there
          /\ files' = [files EXCEPT !.out = prev[p]]
          /\ prev' = [prev EXCEPT ![p] = AbsentDir]
       \/ /\ prev' = AfterRestore(p)
          /\ UNCHANGED files
    /\ GoTo(p, "cleanup")
    /\ UNCHANGED <<program, source, stage, published>>

Publish(p) ==
    /\ AtTrainer(p, "publish")
    /\ \/ RenameStage(p, "done")
       \/ Exit(p) /\ LocalStep

-----------------------------------------------------------------------------
(* slha_eval_rank reads the output path again at every step.                *)

HashManifest(p) ==
    /\ At(p, "eval", "hash")
    /\ IF files.out.there /\ files.out.manifest # NoDoc
       THEN proc' = [proc EXCEPT ![p].at = "layer", ![p].read = files.out.manifest]
       ELSE Exit(p)
    /\ LocalStep

(* The score of a key is left to TileKernels: a product of both.            *)
Rescored(m, row) == [j \in DOMAIN row.keys |-> row.keys[j] * m.projection[1]]

(* observe over the rows of the validation chunks.                          *)
ObserveAll(s, rows, scores) ==
    LET after[i \in 0 .. Len(rows)] ==
            IF i = 0 THEN s ELSE observe(after[i - 1], rows[i].baseline, scores[i])
    IN after[Len(rows)]

EvalLayer(p) ==
    LET data     == Data(p)
        file     == files.out.layers[proc[p].layer]
        rows     == data.held
        rescored == [i \in DOMAIN rows |-> Rescored(from_bytes(file), rows[i])]
        recorded == [i \in DOMAIN rows |-> rows[i].control]
    IN /\ At(p, "eval", "layer") /\ proc[p].layer < proc[p].n
       /\ IF /\ files.out.there /\ Loads(file)
             /\ ReadStrictly(data, proc[p].layer)
             /\ from_bytes(file).d = data.d
             /\ rows # <<>>
             /\ \A i \in DOMAIN rows :
                   /\ Observable(rows[i].baseline, recorded[i])
                   /\ Observable(rows[i].baseline, rescored[i])
          THEN proc' = [proc EXCEPT ![p].at = "digest",
                                    ![p].control = ObserveAll(@, rows, recorded),
                                    ![p].candidate = ObserveAll(@, rows, rescored)]
          ELSE Exit(p)
       /\ LocalStep

(* Mutant: the digest is of the initial weights.                            *)
EvalDigest_initial(p) ==
    /\ At(p, "eval", "digest")
    /\ IF files.out.there /\ files.out.layers[proc[p].layer] # NoFile
       THEN proc' = [proc EXCEPT ![p].at = "layer", ![p].layer = @ + 1,
                                 ![p].hashes = Append(@, source[p].weights[proc[p].layer])]
       ELSE Exit(p)
    /\ LocalStep

EvalDigest(p) ==
    /\ At(p, "eval", "digest")
    /\ IF files.out.there /\ files.out.layers[proc[p].layer] # NoFile
       THEN proc' = [proc EXCEPT ![p].at = "layer", ![p].layer = @ + 1,
                                 ![p].hashes = Append(@, files.out.layers[proc[p].layer])]
       ELSE Exit(p)
    /\ LocalStep

Report(p) == [kind |-> "report", manifest |-> proc[p].read, hashes |-> proc[p].hashes,
              control |-> proc[p].control, candidate |-> proc[p].candidate]

(* The report is written to a temporary of this process first.              *)
WriteReport(p) ==
    /\ At(p, "eval", "layer")
    /\ proc[p].layer = proc[p].n
    /\ \/ /\ SameDenominators(proc[p].control, proc[p].candidate)
          /\ validate_non_degenerate(proc[p].control)
          /\ validate_non_degenerate(proc[p].candidate)
          /\ GoTo(p, "rename")
       \/ Exit(p)
    /\ LocalStep

RenameReport(p) ==
    /\ At(p, "eval", "rename")
    /\ \/ files' = [files EXCEPT !.report = Report(p)] /\ GoTo(p, "done")
       \/ UNCHANGED files /\ Exit(p)
    /\ DiskStep

-----------------------------------------------------------------------------
(* The process stops where it is.                                           *)
Stop(p) ==
    /\ program[p] # "none" /\ proc[p].at \notin {"done", "exited"}
    /\ Exit(p)
    /\ LocalStep

Start(p) ==
    /\ proc[p].at = "gate"
    /\ \/ \E c \in RankCommands : RankGate(p, c) \/ verify_only(p, c)
       \/ \E contract \in Contracts : Lr1Gate(p, contract)
       \/ \E a \in EvalCommands, contract \in Contracts : EvalGate(p, a, contract)

RankProgNext ==
    \E p \in Team :
        \/ Start(p)
        \/ CreateStage(p) \/ WriteLineage(p) \/ WriteSidecar(p)
        \/ RefuseLayer(p) \/ Diverge(p) \/ SaveLayer(p) \/ DigestLayer(p) \/ Cleanup(p)
        \/ \E k \in Breaks : BreakLayer(p, k)
        \/ WriteManifest(p) \/ WriteEvidence(p)
        \/ LookAtOutput(p) \/ MoveAside(p) \/ Swap(p) \/ DropPrevious(p) \/ Restore(p) \/ Publish(p)
        \/ HashManifest(p) \/ EvalLayer(p) \/ EvalDigest(p) \/ WriteReport(p) \/ RenameReport(p)
        \/ Stop(p)

-----------------------------------------------------------------------------
(* Properties                                                               *)

RankProgSpec == RankProgInit /\ [][RankProgNext]_rankProgVars

(* "Published only after full validation": whatever is at the output path   *)
(* is a whole publication of one attempt, trained with verified scales from *)
(* the inputs that its lineage names, whatever writes, renames and          *)
(* processes failed before; and once there has been one, there still is one *)
(* on disk, at the output path or moved aside, however many trainers        *)
(* publish at once and wherever they stop.                                  *)
PublishedWhole ==
    /\ files.out.there => Whole(files.out)
    /\ published => files.out.there \/ \E p \in Team : Whole(prev[p])

(* "A frozen candidate projection": without a rank trainer at the same      *)
(* path, the report is about the one LR1 output there ever was: its         *)
(* manifest, and the digests of the very weights that were scored; and both *)
(* columns of it are averages over the same rows.                           *)
ReportOfOneAttempt ==
    (files.report # NoDoc /\ \A p \in Team : program[p] # "rank") =>
        /\ files.out.there
        /\ files.report.manifest = files.out.manifest
        /\ files.report.hashes = files.out.manifest.hashes
        /\ SameDenominators(files.report.control, files.report.candidate)
        /\ files.report.control.ranking > 0

=============================================================================
