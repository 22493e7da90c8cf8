------------------------- MODULE ElasticController -------------------------
(***************************************************************************)
(* The Elastic Control Algorithm of elastic-core: ElasticController::step  *)
(* (controller.rs) with the pressure smoother (pressure.rs), the forecast  *)
(* (forecast.rs) and the hysteresis gate (hysteresis.rs) it drives.        *)
(*                                                                         *)
(* Pressure is a real number in [0, 1]; here it is an integer number of    *)
(* 1/Unit, and Unit is large enough for the standard configuration's       *)
(* smoothing (alpha 1/2, beta 1/5, max_trend 1/10) to be exact for         *)
(* MaxSteps observations. Non-finite samples cannot arise from byte        *)
(* counts. The trace, the history and the state id are only reported.      *)
(***************************************************************************)
EXTENDS Integers

CONSTANTS
    Unit,           \* pressure 1.0
    High, Low,      \* watermarks, in units
    CooldownSteps, MinIntervalSteps, ForecastHorizon,
    HardLimits,     \* hard limits a budget node may have
    SoftTargets,    \* soft targets it may have
    Loads,          \* observations: <<used bytes, runtime capacity>>
    StartSteps,     \* logical step of the first observation
    Gaps,           \* logical steps between two observations
    MaxSteps        \* bound: observations

ASSUME ControllerAssumption ==
    /\ Unit \in Nat \ {0} /\ High \in Nat /\ Low \in Nat /\ Low < High
    /\ CooldownSteps \in Nat /\ MinIntervalSteps \in Nat
    /\ ForecastHorizon \in Nat
    /\ HardLimits \subseteq Nat /\ SoftTargets \subseteq Nat
    /\ Loads \subseteq Nat \X Nat
    /\ StartSteps \subseteq Nat /\ Gaps \subseteq Nat \ {0}
    /\ MaxSteps \in Nat

VARIABLES
    hard, soft,                \* the budget node, fixed by new
    step, count,               \* logical clock; observations so far
    smoothed,                  \* PressureSmoother.current
    level, trend,              \* Forecast
    gate, gate_last,           \* HysteresisGate: state, last_action_step
    last_action_step, last_promoted_step,
    decision,                  \* what the last step returned
    last                       \* last step of every kind of action

sensorVars == <<smoothed, level, trend>>
gateVars   == <<gate, gate_last, last_action_step, last_promoted_step>>
vars == <<hard, soft, step, count, sensorVars, gateVars, decision, last>>

Never == -1

Reasons == {"hard_constraint", "forecast_exhaustion", "pressure_high",
            "pressure_low"}

NoDecision == [action |-> "none", reason |-> "none", used |-> 0,
               capacity |-> 0, bytes |-> 0]

Init ==
    /\ hard \in HardLimits /\ soft \in {t \in SoftTargets : t <= hard}
    /\ step \in StartSteps /\ count = 0
    /\ smoothed = Never /\ level = 0 /\ trend = 0
    /\ gate = "Idle" /\ gate_last = Never
    /\ last_action_step = 0 /\ last_promoted_step = 0
    /\ decision = NoDecision
    /\ last = [r \in Reasons |-> Never]

Minimum(a, b) == IF a < b THEN a ELSE b

SaturatingSub(a, b) == IF a > b THEN a - b ELSE 0

-----------------------------------------------------------------------------
(* Sensors                                                                  *)

effective_capacity(runtime) == Minimum(runtime, hard)

(* Pressure::from_used.                                                     *)
IsCritical(used, capacity) == used > capacity

Pressure(used, capacity) ==
    IF used > capacity THEN Unit
    ELSE IF capacity = 0 THEN 0 ELSE (used * Unit) \div capacity

(* PressureSmoother::push.                                                  *)
Push(raw) == IF smoothed = Never THEN raw ELSE (raw + smoothed) \div 2

MaxTrend == Unit \div 10

Clamp(x, bound) == IF x > bound THEN bound ELSE IF x < -bound THEN -bound ELSE x

(* Forecast::observe.                                                       *)
LevelAfter(value) ==
    IF smoothed = Never THEN value
    ELSE level + (value - level - trend) \div 2

TrendAfter(value) ==
    IF smoothed = Never THEN 0
    ELSE Clamp(trend + (value - level - trend) \div 5, MaxTrend)

(* steps_to_exhaustion at capacity 1.0; Never for None.                     *)
StepsToExhaustion(lv, tr) ==
    IF lv >= Unit THEN 0
    ELSE IF tr <= 0 THEN Never
    ELSE (Unit - lv + tr - 1) \div tr

-----------------------------------------------------------------------------
(* Hysteresis gate                                                          *)

Since(s) == SaturatingSub(s, gate_last)

in_cooldown(s)     == gate_last # Never /\ Since(s) < CooldownSteps
in_min_interval(s) == gate_last # Never /\ Since(s) < MinIntervalSteps

(* update: whether the gate is Active afterwards.                           *)
ActiveAfter(value, s) ==
    IF gate = "Active" THEN value > Low
    ELSE value >= High /\ ~in_min_interval(s)

UpdateGate(value, s) ==
    /\ gate' = IF ActiveAfter(value, s) THEN "Active" ELSE "Idle"
    /\ gate_last' = IF gate = "Idle" /\ ActiveAfter(value, s) THEN s
                    ELSE gate_last

-----------------------------------------------------------------------------
(* Requests to the backend                                                  *)

recovery_target(capacity) ==
    Minimum(IF soft > 0 THEN soft ELSE (capacity * 3) \div 4, capacity)

Demote(reason, used, capacity) ==
    [action |-> "demote", reason |-> reason, used |-> used,
     capacity |-> capacity,
     bytes |-> SaturatingSub(used, recovery_target(capacity))]

Promote(used, capacity) ==
    [action |-> "promote", reason |-> "pressure_low", used |-> used,
     capacity |-> capacity,
     bytes |-> SaturatingSub(recovery_target(capacity), used)]

Nothing(used, capacity) ==
    [NoDecision EXCEPT !.used = used, !.capacity = capacity]

-----------------------------------------------------------------------------
(* ElasticController::step. Its state is updated before the backend runs,   *)
(* so an error of the backend leaves it as a success does.                  *)

Observed(s, used, capacity) ==
    LET value == Push(Pressure(used, capacity))
    IN /\ smoothed' = value
       /\ level' = LevelAfter(value) /\ trend' = TrendAfter(value)
       /\ step' = s /\ count' = count + 1
       /\ UNCHANGED <<hard, soft>>

(* The value and the forecast the decision is based on.                     *)
Value(used, capacity) == Push(Pressure(used, capacity))

Exhaustion(used, capacity) ==
    LET value == Value(used, capacity)
    IN StepsToExhaustion(LevelAfter(value), TrendAfter(value))

Decides(d, s) ==
    /\ decision' = d
    /\ last' = IF d.action = "none" THEN last ELSE [last EXCEPT ![d.reason] = s]

(* A hard overflow is answered at once; the gate is not told.               *)
StepCritical(s, used, capacity) ==
    /\ IsCritical(used, capacity)
    /\ Decides(Demote("hard_constraint", used, capacity), s)
    /\ UNCHANGED gateVars

(* A rising forecast: act if it is exhausted within the horizon and the     *)
(* gate is not active. The gate is not told either.                         *)
StepForecast(s, used, capacity) ==
    /\ ~IsCritical(used, capacity) /\ Exhaustion(used, capacity) # Never
    /\ Decides(IF /\ Exhaustion(used, capacity) <= ForecastHorizon
                  /\ gate # "Active"
               THEN Demote("forecast_exhaustion", used, capacity)
               ELSE Nothing(used, capacity), s)
    /\ UNCHANGED gateVars

FlatForecast(used, capacity) ==
    ~IsCritical(used, capacity) /\ Exhaustion(used, capacity) = Never

(* Whether the activation that holds the gate still has to be answered.     *)
Unanswered(since) == last_action_step # since \/ last_action_step = 0

(* The gate is active: act once per activation.                             *)
StepActive(s, used, capacity) ==
    /\ FlatForecast(used, capacity)
    /\ ActiveAfter(Value(used, capacity), s)
    /\ UpdateGate(Value(used, capacity), s)
    /\ IF Unanswered(gate_last')
       THEN /\ Decides(Demote("pressure_high", used, capacity), s)
            /\ last_action_step' = s
       ELSE /\ Decides(Nothing(used, capacity), s)
            /\ UNCHANGED last_action_step
    /\ UNCHANGED last_promoted_step

(* Promotions are kept twice the cooldown apart. Mutant: no such distance.  *)
MayPromote_soon(s) == ~in_cooldown(s)

MayPromote(s) ==
    /\ ~in_cooldown(s)
    /\ \/ last_promoted_step = 0
       \/ SaturatingSub(s, last_promoted_step) > 2 * CooldownSteps

(* note_opposite_action.                                                    *)
GateAfterPromote(s) == s

StepIdle(s, used, capacity) ==
    /\ FlatForecast(used, capacity)
    /\ ~ActiveAfter(Value(used, capacity), s)
    /\ gate' = "Idle"
    /\ IF Value(used, capacity) <= Low /\ MayPromote(s)
       THEN /\ Decides(Promote(used, capacity), s)
            /\ gate_last' = GateAfterPromote(s)
            /\ last_action_step' = s /\ last_promoted_step' = s
       ELSE /\ Decides(Nothing(used, capacity), s)
            /\ UNCHANGED <<gate_last, last_action_step, last_promoted_step>>

Step(s, used, capacity) ==
    /\ Observed(s, used, capacity)
    /\ \/ StepCritical(s, used, capacity)
       \/ StepForecast(s, used, capacity)
       \/ StepActive(s, used, capacity)
       \/ StepIdle(s, used, capacity)

(* The caller's logical clock only goes forward.                            *)
Next ==
    /\ count < MaxSteps
    /\ \E gap \in Gaps, load \in Loads :
         Step(IF count = 0 THEN step ELSE step + gap,
              load[1], effective_capacity(load[2]))

Spec == Init /\ [][Next]_vars

-----------------------------------------------------------------------------
(* Properties                                                               *)

Steps == Nat \cup {Never}

Decision == [action : {"none", "demote", "promote"},
             reason : Reasons \cup {"none"}, used : Nat, capacity : Nat,
             bytes : Nat]

(* Every variable has its type; pressures stay within [0, 1].               *)
TypeOK ==
    /\ hard \in Nat /\ soft \in Nat /\ step \in Nat /\ count \in Nat
    /\ smoothed = Never \/ smoothed \in 0 .. Unit
    /\ level \in Int /\ trend \in -MaxTrend .. MaxTrend
    /\ gate \in {"Idle", "Active"} /\ gate_last \in Steps
    /\ last_action_step \in Nat /\ last_promoted_step \in Nat
    /\ decision \in Decision /\ last \in [Reasons -> Steps]

(* What a step does for the given reason.                                   *)
Acts(reason) == count' = count + 1 /\ decision'.reason = reason

Apart(r, n) == last[r] = Never \/ step' - last[r] >= n

(* No thrashing around one threshold: two actions that the gate decides are *)
(* at least the minimum interval apart, and a promotion comes no earlier    *)
(* than the cooldown after a high-pressure demotion, and more than twice    *)
(* the cooldown after another promotion.                                    *)
NoThrashing ==
    [][/\ Acts("pressure_high") =>
             /\ Apart("pressure_high", MinIntervalSteps)
             /\ Apart("pressure_low", MinIntervalSteps)
       /\ Acts("pressure_low") =>
             /\ Apart("pressure_high", CooldownSteps)
             /\ Apart("pressure_low", 2 * CooldownSteps + 1)]_vars

(* Doing exactly what was asked of the backend brings the resource within   *)
(* its capacity, or keeps it there; a step without action is never taken on *)
(* a resource beyond its capacity.                                          *)
RequestsFit ==
    CASE decision.action = "demote"  ->
             decision.used - decision.bytes <= decision.capacity
      [] decision.action = "promote" ->
             decision.used + decision.bytes <= decision.capacity
      [] decision.action = "none"    -> decision.used <= decision.capacity

(* cooldown_steps: "Steps to wait before an opposite-direction action", of  *)
(* whatever reason the demotion had.                                        *)
CooldownKept ==
    [][Acts("pressure_low") =>
         \A r \in Reasons \ {"pressure_low"} : Apart(r, CooldownSteps)]_vars

(* min_interval_steps: "Minimum steps between two adaptation actions"; hard *)
(* constraints and forecasts override it, repeated pressure actions do not. *)
MinIntervalKept ==
    [][Acts("pressure_high") => Apart("pressure_high", MinIntervalSteps)]_vars

=============================================================================
