----------------------------- MODULE MCEngines -----------------------------
(* The sequential engines for TLC, one at a time: the arena, the CUDA       *)
(* engine, the scoring pipeline, the tile kernels, the safety guard, the    *)
(* tier transitions, the ranking dataset and the programs that train on it. *)
(* A behaviour runs the machine it starts with, the others stay idle: their *)
(* state spaces add up instead of multiplying.                              *)
EXTENDS DeviceArena, CudaEngine, GpuPipeline, TileKernels, SafetyGuard,
        ElasticTransition, RankDataset, MCRankPrograms

VARIABLE machine

Machines == {"arena", "cuda", "pipeline", "kernels", "guard", "transition",
             "dataset", "programs"}

(* Flags of every codec, with and without correction, and of tiles that set *)
(* two at once: the kernels and the reference must ask in the same order.   *)
MCFlagSets ==
    {{}, {"WARM"}, {"NF4"}, {"MIXED"}, {"TQ3"}, {"TQ3", "NOCORR"}, {"MIX3"},
     {"MIX3", "NOCORR", "WARM"}, {"TQ3", "MIX3"}, {"MIXED", "TQ3", "NF4"}}

(* Ends of the grid and beyond, ties and values near zero, at every         *)
(* dimension.                                                               *)
Pairs(F) ==
    IF F = {"NF4"} THEN {<<-12000, 10000>>, <<847, 421>>, <<0, -7000>>}
    ELSE {<<-15, 13>>, <<14, -11>>, <<3, -2>>, <<-40, 600>>}

MCInputs(F) == {[dim |-> d, value |-> p[1], rest |-> p[2]] : d \in Dims, p \in Pairs(F)}

MCThresholds == {-5, 40, 85, NaN}

(* Tiers with a name in use twice, edges with a rank that does not match.   *)
T(n, r) == [name |-> n, rank |-> r]
MCTierLists == {<<T("hot", 2), T("warm", 1), T("cold", 0)>>, <<T("hot", 2), T("hot", 1)>>}
MCEdgeLists ==
    {<< <<T("hot", 2), T("warm", 1)>>, <<T("warm", 1), T("hot", 2)>> >>,
     << <<T("hot", 2), T("warm", 1)>>, <<T("hot", 2), T("warm", 1)>> >>,
     << <<T("hot", 2), T("warm", 2)>> >>}
MCNameLists ==
    {<< <<"hot", "warm">>, <<"warm", "cold">>, <<"cold", "warm">> >>, << <<"hot", "gone">> >>}
MCDescriptors == {T("hot", 2), T("warm", 1), T("warm", 2), T("cold", 0), T("gone", 0)}

(* A file that cannot be opened, one cut in its metadata and one in its     *)
(* payload.                                                                 *)
MCShortWrites == {-1, 9, 20}

KernelIdle ==
    /\ flags = {} /\ input = [dim |-> 0, value |-> 0, rest |-> 0] /\ latent = {}
    /\ path = "idle"

ProgramsIdle ==
    /\ program = <<>> /\ source = <<>> /\ proc = <<>> /\ stage = <<>> /\ prev = <<>>
    /\ files = [out |-> AbsentDir, report |-> NoDoc] /\ published = FALSE

EnginesInit ==
    /\ machine \in Machines
    /\ Init /\ CudaInit /\ PipeInit /\ SafetyInit /\ TransitionInit /\ RankInit
    /\ IF machine = "kernels" THEN KernelInit ELSE KernelIdle
    /\ IF machine = "programs" THEN RankProgInit ELSE ProgramsIdle

EnginesNext ==
    /\ UNCHANGED machine
    /\ \/ machine = "arena" /\ Next
          /\ UNCHANGED <<cudaVars, pipeVars, kernelVars, safetyVars, transitionVars, rankVars, rankProgVars>>
       \/ machine = "cuda" /\ CudaNext
          /\ UNCHANGED <<vars, pipeVars, kernelVars, safetyVars, transitionVars, rankVars, rankProgVars>>
       \/ machine = "pipeline" /\ PipeNext
          /\ UNCHANGED <<vars, cudaVars, kernelVars, safetyVars, transitionVars, rankVars, rankProgVars>>
       \/ machine = "kernels" /\ KernelNext
          /\ UNCHANGED <<vars, cudaVars, pipeVars, safetyVars, transitionVars, rankVars, rankProgVars>>
       \/ machine = "guard" /\ SafetyNext
          /\ UNCHANGED <<vars, cudaVars, pipeVars, kernelVars, transitionVars, rankVars, rankProgVars>>
       \/ machine = "transition" /\ TransitionNext
          /\ UNCHANGED <<vars, cudaVars, pipeVars, kernelVars, safetyVars, rankVars, rankProgVars>>
       \/ machine = "dataset" /\ RankNext
          /\ UNCHANGED <<vars, cudaVars, pipeVars, kernelVars, safetyVars, transitionVars, rankProgVars>>
       \/ machine = "programs" /\ RankProgNext
          /\ UNCHANGED <<vars, cudaVars, pipeVars, kernelVars, safetyVars, transitionVars, rankVars>>

EnginesSpec ==
    /\ EnginesInit
    /\ [][EnginesNext]_<<machine, vars, cudaVars, pipeVars, kernelVars, safetyVars,
                         transitionVars, rankVars, rankProgVars>>

=============================================================================
