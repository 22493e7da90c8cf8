----------------------------- MODULE VramContext -----------------------------
(***************************************************************************)
(* ElasticContext (slhav2-vram/src/elastic_context.rs): one observation of *)
(* the workload and of the machine's memory is checked, turned into a load *)
(* for a dry-run ElasticController, and the action the controller decides  *)
(* is applied once to the physical cache.                                  *)
(*                                                                         *)
(* The cache appears as its counts: which tile a release takes is the      *)
(* matter of VramCache, how many it takes follows from the counts alone.   *)
(* The controller is also modelled in its other use, executing its         *)
(* decisions itself (ControllerConfig.dry_run = FALSE).                    *)
(***************************************************************************)
EXTENDS ElasticController, Sequences

CONSTANTS
    Observations,   \* what the runtime may report
    Limits,         \* positional limits the caller may set
    U64_MAX,        \* bound of the checked arithmetic
    MaxTiles,       \* bound: tiles of the cache
    ContextBudget,  \* vram_budget_bytes
    MaxContextSteps,\* bound: observations of the context
    MaxViolations   \* bound: violations counted

ASSUME ContextAssumption ==
    /\ U64_MAX \in Nat /\ MaxTiles \in Nat /\ MaxContextSteps \in Nat
    /\ Limits \subseteq Nat /\ ContextBudget \in Nat /\ MaxViolations \in Nat
    /\ Observations \subseteq
          [topology : [layers : Nat, kv_heads : Nat, head_dim_k : Nat,
                       k_bytes_per_elem : Nat, has_v : BOOLEAN,
                       v_bytes_per_elem : Nat],
           logical_tokens : Nat, predicted_growth : Nat,
           vram_available : Nat, vram_total : Nat,
           ram_available : Nat, ram_total : Nat, limit : Seq(Nat)]

VARIABLES
    dry_run,             \* ControllerConfig.dry_run: the controller of a context
    cache,               \* tiles of each PhysicalTier
    positional,          \* model_positional_limit: <<>> for None
    logical_tokens,
    telemetry,           \* resident bytes as reported, violations, tokens
    result               \* what the last context step returned

contextVars == <<cache, positional, logical_tokens, telemetry, result>>
allVars == <<vars, dry_run, contextVars>>

TILE_BYTES == 128
WARM_BYTES == 96
RUNG       == TILE_BYTES - WARM_BYTES

NoTiles == [hot |-> 0, warm |-> 0, cold |-> 0, pinned |-> 0]

Resident(c) == TILE_BYTES * (c.hot + c.pinned) + WARM_BYTES * c.warm
Tiles(c)    == c.hot + c.warm + c.cold + c.pinned

(* The context's budget node has hard_limit = soft_target = vram_budget.    *)
ContextInit ==
    /\ Init
    /\ dry_run \in BOOLEAN
    /\ dry_run => soft = hard
    /\ dry_run <=> hard = ContextBudget
    /\ cache = NoTiles /\ positional = <<>> /\ logical_tokens = 0
    /\ telemetry = [resident |-> 0, violations |-> 0, tokens |-> 0]
    /\ result = "none"

-----------------------------------------------------------------------------
(* Checked arithmetic: <<>> for None                                        *)

Checked(n) == IF n <= U64_MAX THEN <<n>> ELSE <<>>

Mul(a, b) == IF a = <<>> \/ b = <<>> THEN <<>> ELSE Checked(a[1] * b[1])
Add(a, b) == IF a = <<>> \/ b = <<>> THEN <<>> ELSE Checked(a[1] + b[1])

(* KvTopology::validate.                                                    *)
ValidTopology(t) ==
    /\ t.layers > 0 /\ t.kv_heads > 0 /\ t.head_dim_k > 0
    /\ t.k_bytes_per_elem > 0
    /\ t.has_v => t.v_bytes_per_elem > 0

try_raw_bytes_per_token(t) ==
    LET vectors == Mul(Mul(Checked(t.layers), Checked(t.kv_heads)),
                       Checked(t.head_dim_k))
        k == Mul(vectors, Checked(t.k_bytes_per_elem))
        v == IF t.has_v THEN Mul(vectors, Checked(t.v_bytes_per_elem)) ELSE <<0>>
    IN IF ValidTopology(t) THEN Add(k, v) ELSE <<>>

(* ContextObservation::validate.                                            *)
ValidObservation(o) ==
    /\ ValidTopology(o.topology)
    /\ o.vram_total # 0 => o.vram_available <= o.vram_total
    /\ o.ram_total # 0 => o.ram_available <= o.ram_total
    /\ o.logical_tokens + o.predicted_growth <= U64_MAX

Forecast(o) == o.logical_tokens + o.predicted_growth

(* The tighter of the configured and the observed limit.                    *)
BeyondLimit(o) ==
    \E l \in {positional, o.limit} : l # <<>> /\ Forecast(o) > l[1]

BytesPerToken(o) == try_raw_bytes_per_token(o.topology)

Representable(o) == Mul(Checked(Forecast(o)), BytesPerToken(o)) # <<>>

-----------------------------------------------------------------------------
(* ElasticKvCache::apply_action over the counts                             *)

(* After n turns of the Demote loop: HOT tiles to WARM, then WARM to COLD.  *)
AfterTurns(c, n) ==
    IF n <= c.hot THEN [c EXCEPT !.hot = @ - n, !.warm = @ + n]
    ELSE [c EXCEPT !.hot = 0, !.warm = @ + c.hot - (n - c.hot),
                   !.cold = @ + n - c.hot]

TurnsTo(c, target) ==
    {n \in 0 .. 2 * c.hot + c.warm : Resident(AfterTurns(c, n)) <= target}

Released(c, target) ==
    AfterTurns(c, CHOOSE n \in TurnsTo(c, target) : \A m \in TurnsTo(c, target) : n <= m)

Promoted(c) ==
    IF c.warm > 0 /\ Resident(c) + RUNG <= hard
    THEN [c EXCEPT !.warm = @ - 1, !.hot = @ + 1] ELSE c

(* Whether the action can be applied; if not, the cache is rolled back.     *)
Applies(action, target) ==
    IF action = "demote" THEN TurnsTo(cache, target) # {}
    ELSE Resident(cache) <= hard

Applied(action, target) ==
    CASE action = "demote"  -> Released(cache, target)
      [] action = "promote" -> Promoted(cache)
      [] OTHER              -> cache

-----------------------------------------------------------------------------
(* ElasticContext::step                                                     *)

scaled_system_pressure(total, available) ==
    IF total = 0 \/ hard = 0 THEN 0
    ELSE Minimum(((total - available) * hard + total - 1) \div total, hard)

GrowthShortfall(o) ==
    SaturatingSub(o.predicted_growth * BytesPerToken(o)[1], o.vram_available)

(* The stronger of local demand and system pressure.                        *)
ControlUsed(o) ==
    LET local  == Resident(cache) + GrowthShortfall(o)
        system == scaled_system_pressure(o.vram_total, o.vram_available)
    IN IF local > system THEN local ELSE system

RecoveryTarget == (hard * 3) \div 4

(* Mutant: only the growth is considered.                                   *)
WantedRelease_growth(o) == SaturatingSub(Resident(cache), GrowthShortfall(o))

WantedRelease(o) ==
    Minimum(SaturatingSub(Resident(cache), GrowthShortfall(o)), RecoveryTarget)

(* "Force at least one 32-byte WARM rung" where the target would change     *)
(* nothing. Mutant: it is not forced.                                       *)
ReleaseTarget_idle(o) == WantedRelease(o)

ReleaseTarget(o) ==
    IF Resident(cache) > 0 /\ WantedRelease(o) >= Resident(cache)
    THEN SaturatingSub(Resident(cache), RUNG) ELSE WantedRelease(o)

Violation == [telemetry EXCEPT !.violations = @ + 1]

(* Err before anything but the telemetry is touched.                        *)
Refuse(o) ==
    /\ telemetry' = IF ~ValidObservation(o) \/ BeyondLimit(o)
                    THEN Violation ELSE telemetry
    /\ result' = "refused"
    /\ UNCHANGED <<vars, cache, logical_tokens>>

(* The decision is made and applied; tokens and telemetry have moved on by  *)
(* the time it fails, and the reported residency is refreshed on success.   *)
Act(o) ==
    LET action == decision'.action
        target == IF action = "demote" THEN Minimum(ReleaseTarget(o), hard)
                  ELSE hard
        after  == Applied(action, target)
        observed == [telemetry EXCEPT !.tokens = o.logical_tokens]
        starved == GrowthShortfall(o) > 0 /\ action = "demote" /\ after = cache
    IN /\ Step(IF count = 0 THEN step ELSE step + 1,
               ControlUsed(o), effective_capacity(hard))
       /\ logical_tokens' = o.logical_tokens
       /\ \/ /\ ~Applies(action, target)
             /\ telemetry' = observed /\ result' = "failed"
             /\ UNCHANGED cache
          \/ /\ Applies(action, target) /\ starved
             /\ telemetry' = [observed EXCEPT !.violations = @ + 1]
             /\ result' = "starved"
             /\ UNCHANGED cache
          \/ /\ Applies(action, target) /\ ~starved
             /\ cache' = after
             /\ telemetry' = [observed EXCEPT !.resident = Resident(after)]
             /\ result' = "ok"

ContextStep(o) ==
    /\ dry_run /\ count < MaxContextSteps /\ telemetry.violations < MaxViolations
    /\ IF ValidObservation(o) /\ ~BeyondLimit(o) /\ Representable(o)
       THEN Act(o) ELSE Refuse(o)
    /\ UNCHANGED <<dry_run, positional>>

-----------------------------------------------------------------------------
(* What callers do with cache_mut and set_positional_limit                  *)

UseCache ==
    /\ dry_run /\ count < MaxContextSteps
    /\ \/ Tiles(cache) < MaxTiles /\ cache' = [cache EXCEPT !.hot = @ + 1]
       \/ cache.hot > 0 /\ cache' = [cache EXCEPT !.hot = @ - 1, !.pinned = @ + 1]
       \/ cache' = NoTiles
    /\ result' = "none"
    /\ UNCHANGED <<vars, dry_run, positional, logical_tokens, telemetry>>

set_positional_limit(l) ==
    /\ dry_run /\ positional = <<>>
    /\ positional' = <<l>> /\ result' = "none"
    /\ UNCHANGED <<vars, dry_run, cache, logical_tokens, telemetry>>

(* The controller with its own backend.                                     *)
Executes == ~dry_run /\ Next /\ UNCHANGED <<dry_run, contextVars>>

ContextNext ==
    \/ \E o \in Observations : ContextStep(o)
    \/ UseCache
    \/ \E l \in Limits : set_positional_limit(l)
    \/ Executes

ContextSpec == ContextInit /\ [][ContextNext]_allVars

-----------------------------------------------------------------------------
Stepped == count' = count + 1 /\ dry_run

(* "The selected action is applied exactly once": a step that decides to    *)
(* demote and succeeds has freed something, also under system pressure      *)
(* alone, and as much as the predicted growth lacks as far as there is      *)
(* anything to free; one that decides otherwise frees nothing. A failing    *)
(* step leaves the cache alone. What is asked for fits, with either backend.*)
DecisionsAreReal ==
    [][/\ RequestsFit'
       /\ Stepped =>
            CASE result' # "ok" -> cache' = cache
              [] result' = "ok" /\ decision'.action = "demote" ->
                    Resident(cache) > 0 => Resident(cache') < Resident(cache)
              [] OTHER -> Resident(cache') >= Resident(cache)]_allVars

(* A cache beyond its budget is never left so by an accepted observation:   *)
(* whatever the hysteresis says, the step brings it below the recovery      *)
(* target, unless the pinned tiles alone are beyond it or growth is         *)
(* predicted that they leave no room for.                                   *)
OverBudgetRecovers ==
    [][Stepped /\ Resident(cache) > hard =>
         \/ Resident(cache') <= RecoveryTarget
         \/ /\ result' = "failed"
            /\ \/ TILE_BYTES * cache.pinned > RecoveryTarget
               \/ decision'.used > Resident(cache)]_allVars

=============================================================================
