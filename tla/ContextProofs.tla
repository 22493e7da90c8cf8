--------------------------- MODULE ContextProofs ---------------------------
(* Proofs about the elastic controller, the context that drives it and the  *)
(* budget coordinator, for every configuration, load and observation, and   *)
(* for every forest of budget nodes.                                        *)
EXTENDS VramContext, Coordinator, SetLemmas, SequenceTheorems

-----------------------------------------------------------------------------
(* The controller's clock and gate                                          *)

GateTypes ==
    /\ step \in Nat /\ count \in Nat
    /\ gate \in {"Idle", "Active"} /\ gate_last \in Steps
    /\ last_action_step \in Nat /\ last_promoted_step \in Nat
    /\ last \in [Reasons -> Steps]

(* An active gate has been answered at the step that activated it, and the  *)
(* gate remembers a step no earlier than any action it decided.             *)
GateInv ==
    /\ step > 0 /\ gate_last # 0
    /\ gate_last <= step /\ last_action_step <= step /\ last_promoted_step <= step
    /\ count = 0 => gate = "Idle" /\ last_action_step = 0
    /\ gate = "Active" => gate_last # Never /\ last_action_step = gate_last
    /\ \A r \in {"pressure_high", "pressure_low"} :
          last[r] # Never => gate_last # Never /\ last[r] <= gate_last
    /\ last["pressure_low"] =
          IF last_promoted_step = 0 THEN Never ELSE last_promoted_step

(* The part of NoThrashing that is about one step.                          *)
Spaced ==
    /\ Acts("pressure_high") =>
          /\ Apart("pressure_high", MinIntervalSteps)
          /\ Apart("pressure_low", MinIntervalSteps)
    /\ Acts("pressure_low") =>
          /\ Apart("pressure_high", CooldownSteps)
          /\ Apart("pressure_low", 2 * CooldownSteps + 1)

(* The logical step of an observation: the first one is at the start.       *)
Later(s) == s \in Nat /\ s >= step /\ (count # 0 => s > step)

(* Critical and forecast steps do not tell the gate.                        *)
LEMMA StepAround ==
    ASSUME GateTypes, GateInv, NEW s, Later(s), NEW used, NEW capacity,
           Observed(s, used, capacity),
           StepCritical(s, used, capacity) \/ StepForecast(s, used, capacity)
    PROVE  GateTypes' /\ GateInv' /\ Spaced
<1>1. step' = s /\ count' = count + 1 BY DEF Observed
<1>2. UNCHANGED gateVars BY DEF StepCritical, StepForecast
<1>3. PICK d : /\ Decides(d, s)
               /\ \/ d = Demote("hard_constraint", used, capacity)
                  \/ d = Demote("forecast_exhaustion", used, capacity)
                  \/ d = Nothing(used, capacity)
  <2>1. CASE StepCritical(s, used, capacity)
    BY <2>1 DEF StepCritical
  <2>2. CASE StepForecast(s, used, capacity)
    <3> DEFINE soon == Exhaustion(used, capacity) <= ForecastHorizon /\ gate # "Active"
               d == IF soon THEN Demote("forecast_exhaustion", used, capacity)
                    ELSE Nothing(used, capacity)
    <3>1. Decides(d, s) BY <2>2 DEF StepForecast
    <3>2. \/ d = Demote("forecast_exhaustion", used, capacity)
          \/ d = Nothing(used, capacity)
      OBVIOUS
    <3> HIDE DEF d
    <3> WITNESS d
    <3> QED BY <3>1, <3>2
  <2> QED BY <2>1, <2>2
<1>4. \/ d.action = "none" /\ d.reason = "none"
      \/ d.reason \in {"hard_constraint", "forecast_exhaustion"}
  <2>1. CASE d = Nothing(used, capacity) BY <2>1 DEF Nothing, NoDecision
  <2>2. CASE d # Nothing(used, capacity) BY <1>3, <2>2 DEF Demote
  <2> QED BY <2>1, <2>2
<1>5. /\ decision' = d
      /\ last' = last \/ (d.reason # "none" /\ last' = [last EXCEPT ![d.reason] = s])
  BY <1>3, <1>4 DEF Decides
<1>6. last' \in [Reasons -> Steps]
      /\ last'["pressure_high"] = last["pressure_high"]
      /\ last'["pressure_low"] = last["pressure_low"]
  BY <1>4, <1>5 DEF GateTypes, Reasons, Steps, Later
<1>7. GateTypes' BY <1>1, <1>2, <1>6 DEF GateTypes, gateVars, Later
<1>8. GateInv' BY <1>1, <1>2, <1>6 DEF GateTypes, GateInv, gateVars, Later, Steps, Never
<1>9. Spaced BY <1>4, <1>5 DEF Spaced, Acts
<1> QED BY <1>7, <1>8, <1>9

LEMMA StepActiveOK ==
    ASSUME GateTypes, GateInv, NEW s, Later(s), NEW used, NEW capacity,
           Observed(s, used, capacity), StepActive(s, used, capacity)
    PROVE  GateTypes' /\ GateInv' /\ Spaced
<1>1. step' = s /\ count' = count + 1 BY DEF Observed
<1>2. gate' = "Active" /\ last_promoted_step' = last_promoted_step
  BY DEF StepActive, UpdateGate
<1>3. CASE gate = "Active"
  <2>1. gate_last' = gate_last BY <1>3 DEF StepActive, UpdateGate
  <2>2. ~Unanswered(gate_last')
    BY <1>3, <2>1 DEF Unanswered, GateInv
  <2>3. /\ last' = last /\ last_action_step' = last_action_step
        /\ decision'.reason = "none"
    BY <2>2 DEF StepActive, Decides, Nothing, NoDecision
  <2>4. Spaced BY <2>3 DEF Spaced, Acts
  <2>5. GateTypes' BY <1>1, <1>2, <2>1, <2>3 DEF GateTypes, Later
  <2>6. GateInv'
    BY <1>1, <1>2, <1>3, <2>1, <2>3 DEF GateTypes, GateInv, Later, Steps, Never
  <2> QED BY <2>4, <2>5, <2>6
<1>4. CASE gate = "Idle"
  <2>1. gate_last' = s /\ ~in_min_interval(s)
    BY <1>4 DEF StepActive, UpdateGate, ActiveAfter
  <2>2. Unanswered(gate_last')
    BY <2>1 DEF Unanswered, GateInv, GateTypes, Later
  <2>3. /\ last_action_step' = s /\ decision'.reason = "pressure_high"
        /\ last' = [last EXCEPT !["pressure_high"] = s]
    BY <2>2 DEF StepActive, Decides, Demote
  <2>4. /\ last' \in [Reasons -> Steps] /\ last'["pressure_high"] = s
        /\ last'["pressure_low"] = last["pressure_low"]
    BY <2>3 DEF GateTypes, Reasons, Steps, Later
  <2>5. gate_last # Never => s - gate_last >= MinIntervalSteps
    BY <2>1, ControllerAssumption DEF in_min_interval, Since, SaturatingSub,
       GateTypes, GateInv, Steps, Later, Never
  <2>6. \A r \in {"pressure_high", "pressure_low"} :
            last[r] = Never \/ s - last[r] >= MinIntervalSteps
    <3> TAKE r \in {"pressure_high", "pressure_low"}
    <3>1. last[r] \in Steps BY DEF GateTypes, Reasons
    <3>2. last[r] # Never => gate_last # Never /\ last[r] <= gate_last
      BY DEF GateInv
    <3>3. gate_last \in Steps /\ s \in Nat BY DEF GateTypes, Later
    <3> QED BY <2>5, <3>1, <3>2, <3>3, ControllerAssumption DEF Steps, Never
  <2>7. Spaced BY <1>1, <2>3, <2>6 DEF Spaced, Acts, Apart
  <2>8. GateTypes' BY <1>1, <1>2, <2>1, <2>3, <2>4 DEF GateTypes, Later, Steps
  <2>9. GateInv'
    <3>1. s \in Nat /\ s > 0 BY DEF Later, GateTypes, GateInv
    <3>2. /\ step' > 0 /\ gate_last' # 0 /\ gate_last' # Never
          /\ gate_last' <= step' /\ last_action_step' <= step'
          /\ last_promoted_step' <= step' /\ count' # 0
      BY <1>1, <1>2, <2>1, <2>3, <3>1 DEF GateTypes, GateInv, Later, Never
    <3>3. \A r \in {"pressure_high", "pressure_low"} :
              last'[r] # Never => last'[r] <= gate_last'
      BY <2>1, <2>4, <3>1 DEF GateInv, GateTypes, Later, Steps, Never, Reasons
    <3> QED BY <1>2, <2>1, <2>3, <2>4, <3>2, <3>3 DEF GateInv
  <2> QED BY <2>7, <2>8, <2>9
<1> QED BY <1>3, <1>4 DEF GateTypes

LEMMA StepIdleOK ==
    ASSUME GateTypes, GateInv, NEW s, Later(s), NEW used, NEW capacity,
           Observed(s, used, capacity), StepIdle(s, used, capacity)
    PROVE  GateTypes' /\ GateInv' /\ Spaced
<1>1. step' = s /\ count' = count + 1 /\ gate' = "Idle" BY DEF Observed, StepIdle
<1>2. CASE ~(Value(used, capacity) <= Low /\ MayPromote(s))
  <2>1. /\ UNCHANGED <<gate_last, last_action_step, last_promoted_step, last>>
        /\ decision'.reason = "none"
    BY <1>2 DEF StepIdle, Decides, Nothing, NoDecision
  <2>2. Spaced BY <2>1 DEF Spaced, Acts
  <2>3. GateTypes' BY <1>1, <2>1 DEF GateTypes, Later
  <2>4. GateInv'
    BY <1>1, <2>1 DEF GateTypes, GateInv, Later, Steps, Never
  <2> QED BY <2>2, <2>3, <2>4
<1>3. CASE Value(used, capacity) <= Low /\ MayPromote(s)
  <2>1. /\ gate_last' = s /\ last_action_step' = s /\ last_promoted_step' = s
        /\ last' = [last EXCEPT !["pressure_low"] = s]
        /\ decision'.reason = "pressure_low"
    BY <1>3 DEF StepIdle, Decides, Promote, GateAfterPromote
  <2>2. /\ last' \in [Reasons -> Steps] /\ last'["pressure_low"] = s
        /\ last'["pressure_high"] = last["pressure_high"]
    BY <2>1 DEF GateTypes, Reasons, Steps, Later
  <2>3. s \in Nat /\ s > 0 BY DEF Later, GateTypes, GateInv
  <2>4. last["pressure_high"] = Never \/ s - last["pressure_high"] >= CooldownSteps
    <3>1. gate_last # Never => s - gate_last >= CooldownSteps
      BY <1>3, ControllerAssumption DEF MayPromote, in_cooldown, Since,
         SaturatingSub, GateTypes, GateInv, Steps, Later, Never
    <3>2. last["pressure_high"] \in Steps BY DEF GateTypes, Reasons
    <3> QED BY <2>3, <3>1, <3>2, ControllerAssumption
            DEF GateInv, GateTypes, Steps, Never
  <2>5. last["pressure_low"] = Never
            \/ s - last["pressure_low"] >= 2 * CooldownSteps + 1
    BY <1>3, <2>3, ControllerAssumption DEF MayPromote, SaturatingSub, GateInv,
       GateTypes
  <2>6. Spaced BY <1>1, <2>1, <2>4, <2>5 DEF Spaced, Acts, Apart
  <2>7. GateTypes' BY <1>1, <2>1, <2>2, <2>3 DEF GateTypes, Steps
  <2>8. GateInv'
    <3>1. /\ step' > 0 /\ gate_last' # 0 /\ gate_last' # Never
          /\ gate_last' <= step' /\ last_action_step' <= step'
          /\ last_promoted_step' <= step' /\ count' # 0
      BY <1>1, <2>1, <2>3 DEF GateTypes, Never
    <3>2. \A r \in {"pressure_high", "pressure_low"} :
              last'[r] # Never => last'[r] <= gate_last'
      BY <2>1, <2>2, <2>3 DEF GateInv, GateTypes, Later, Steps, Never, Reasons
    <3> QED BY <1>1, <2>1, <2>2, <2>3, <3>1, <3>2 DEF GateInv
  <2> QED BY <2>6, <2>7, <2>8
<1> QED BY <1>2, <1>3

LEMMA GateStep ==
    ASSUME GateTypes, GateInv, NEW s, Later(s), NEW used, NEW capacity,
           Step(s, used, capacity)
    PROVE  GateTypes' /\ GateInv' /\ Spaced
  BY StepAround, StepActiveOK, StepIdleOK DEF Step

-----------------------------------------------------------------------------
(* What is asked of the backend                                             *)

LEMMA RecoveryWithin ==
    ASSUME soft \in Nat, NEW capacity \in Nat
    PROVE  recovery_target(capacity) \in Nat /\ recovery_target(capacity) <= capacity
  BY DEF recovery_target, Minimum

LEMMA RequestOK ==
    ASSUME soft \in Nat, NEW s, NEW used \in Int, NEW capacity \in Nat,
           Step(s, used, capacity)
    PROVE  /\ RequestsFit'
           /\ decision'.action \in {"demote", "promote", "none"}
           /\ used > capacity =>
                 decision'.action = "demote" /\ decision'.used = used
<1> DEFINE t == recovery_target(capacity)
<1>1. t \in Nat /\ t <= capacity BY RecoveryWithin
<1>2. \/ \E reason \in Reasons : decision' = Demote(reason, used, capacity)
      \/ /\ ~IsCritical(used, capacity)
         /\ \/ decision' = Promote(used, capacity)
            \/ decision' = Nothing(used, capacity)
  <2>1. CASE StepCritical(s, used, capacity)
    BY <2>1 DEF StepCritical, Decides, Reasons
  <2>2. CASE StepForecast(s, used, capacity)
    BY <2>2 DEF StepForecast, Decides, Reasons
  <2>3. CASE StepActive(s, used, capacity)
    BY <2>3 DEF StepActive, FlatForecast, Decides, Reasons
  <2>4. CASE StepIdle(s, used, capacity)
    BY <2>4 DEF StepIdle, FlatForecast, Decides, Reasons
  <2> QED BY <2>1, <2>2, <2>3, <2>4 DEF Step
<1>3. CASE \E reason \in Reasons : decision' = Demote(reason, used, capacity)
  <2>1. /\ decision'.action = "demote" /\ decision'.used = used
        /\ decision'.capacity = capacity
        /\ decision'.bytes = SaturatingSub(used, t)
    BY <1>3 DEF Demote
  <2> HIDE DEF t
  <2>2. used - SaturatingSub(used, t) <= capacity
    BY <1>1 DEF SaturatingSub
  <2> QED BY <2>1, <2>2 DEF RequestsFit
<1>4. CASE ~IsCritical(used, capacity) /\ decision' = Promote(used, capacity)
  <2>1. /\ decision'.action = "promote" /\ decision'.used = used
        /\ decision'.capacity = capacity
        /\ decision'.bytes = SaturatingSub(t, used)
    BY <1>4 DEF Promote
  <2> HIDE DEF t
  <2>2. used + SaturatingSub(t, used) <= capacity /\ ~(used > capacity)
    BY <1>1, <1>4 DEF SaturatingSub, IsCritical
  <2> QED BY <2>1, <2>2 DEF RequestsFit
<1>5. CASE ~IsCritical(used, capacity) /\ decision' = Nothing(used, capacity)
  <2>1. /\ decision'.action = "none" /\ decision'.used = used
        /\ decision'.capacity = capacity
    BY <1>5 DEF Nothing, NoDecision
  <2>2. used <= capacity /\ ~(used > capacity) BY <1>5 DEF IsCritical
  <2> QED BY <2>1, <2>2 DEF RequestsFit
<1> QED BY <1>2, <1>3, <1>4, <1>5

-----------------------------------------------------------------------------
(* The cache as its counts                                                  *)

Counts == [hot : Nat, warm : Nat, cold : Nat, pinned : Nat]

LEMMA ResidentCount ==
    ASSUME NEW c \in Counts
    PROVE  /\ Resident(c) \in Nat
           /\ Resident(c) = 128 * c.hot + 128 * c.pinned + 96 * c.warm
           /\ c.hot \in Nat /\ c.warm \in Nat /\ c.cold \in Nat /\ c.pinned \in Nat
<1>1. c.hot \in Nat /\ c.warm \in Nat /\ c.cold \in Nat /\ c.pinned \in Nat
  BY DEF Counts
<1> QED BY <1>1 DEF Resident, TILE_BYTES, WARM_BYTES

LEMMA TurnsCount ==
    ASSUME NEW c \in Counts, NEW n \in 0 .. 2 * c.hot + c.warm
    PROVE  /\ AfterTurns(c, n) \in Counts
           /\ AfterTurns(c, n).pinned = c.pinned
           /\ n = 2 * c.hot + c.warm => Resident(AfterTurns(c, n)) = 128 * c.pinned
<1>1. c.hot \in Nat /\ c.warm \in Nat /\ c.cold \in Nat /\ c.pinned \in Nat
  BY DEF Counts
<1> DEFINE d == AfterTurns(c, n)
<1>2. /\ d \in Counts /\ d.pinned = c.pinned
      /\ n = 2 * c.hot + c.warm => d.hot = 0 /\ d.warm = 0
  <2>1. CASE n <= c.hot
    <3>1. d = [c EXCEPT !.hot = c.hot - n, !.warm = c.warm + n]
      BY <2>1 DEF AfterTurns
    <3>2. c.hot - n \in Nat /\ c.warm + n \in Nat BY <1>1, <2>1
    <3>3. n = 2 * c.hot + c.warm => c.hot - n = 0 /\ c.warm + n = 0
      BY <1>1, <2>1
    <3> HIDE DEF d
    <3> QED BY <1>1, <3>1, <3>2, <3>3 DEF Counts
  <2>2. CASE ~(n <= c.hot)
    <3>1. d = [c EXCEPT !.hot = 0, !.warm = c.warm + c.hot - (n - c.hot),
                        !.cold = c.cold + n - c.hot]
      BY <2>2 DEF AfterTurns
    <3>2. /\ c.warm + c.hot - (n - c.hot) \in Nat
          /\ c.cold + n - c.hot \in Nat
      BY <1>1, <2>2
    <3>3. n = 2 * c.hot + c.warm => c.warm + c.hot - (n - c.hot) = 0
      BY <1>1
    <3> HIDE DEF d
    <3> QED BY <1>1, <3>1, <3>2, <3>3 DEF Counts
  <2> QED BY <2>1, <2>2
<1> HIDE DEF d
<1>3. n = 2 * c.hot + c.warm => Resident(d) = 128 * c.pinned
  BY <1>1, <1>2, ResidentCount
<1> QED BY <1>2, <1>3 DEF d

(* A release that applies meets its target; one that does not could not.    *)
LEMMA ReleasedOK ==
    ASSUME NEW c \in Counts, NEW t \in Int
    PROVE  /\ TurnsTo(c, t) # {} =>
                 Released(c, t) \in Counts /\ Resident(Released(c, t)) <= t
           /\ TurnsTo(c, t) = {} => 128 * c.pinned > t
<1>1. c.hot \in Nat /\ c.warm \in Nat /\ c.pinned \in Nat
  BY DEF Counts
<1>2. ASSUME TurnsTo(c, t) # {}
      PROVE  Released(c, t) \in Counts /\ Resident(Released(c, t)) <= t
  <2>1. TurnsTo(c, t) \subseteq Nat BY <1>1 DEF TurnsTo
  <2>2. \E n \in TurnsTo(c, t) : \A m \in TurnsTo(c, t) : n <= m
    BY <1>2, <2>1, LeastElement
  <2> DEFINE k == CHOOSE n \in TurnsTo(c, t) : \A m \in TurnsTo(c, t) : n <= m
  <2>3. k \in TurnsTo(c, t) BY <2>2
  <2>4. Released(c, t) = AfterTurns(c, k) BY DEF Released
  <2> HIDE DEF k
  <2>5. k \in 0 .. 2 * c.hot + c.warm /\ Resident(AfterTurns(c, k)) <= t
    BY <2>3 DEF TurnsTo
  <2> QED BY <2>4, <2>5, TurnsCount
<1>3. ASSUME TurnsTo(c, t) = {} PROVE 128 * c.pinned > t
  <2> DEFINE all == 2 * c.hot + c.warm
  <2>1. all \in 0 .. all BY <1>1
  <2>2. Resident(AfterTurns(c, all)) = 128 * c.pinned BY <2>1, TurnsCount
  <2>3. ~(Resident(AfterTurns(c, all)) <= t) BY <1>3, <2>1 DEF TurnsTo
  <2> QED BY <1>1, <2>2, <2>3
<1> QED BY <1>2, <1>3

LEMMA PromotedCount ==
    ASSUME NEW c \in Counts
    PROVE  Promoted(c) \in Counts /\ Resident(Promoted(c)) >= Resident(c)
<1>1. c.hot \in Nat /\ c.warm \in Nat /\ c.cold \in Nat /\ c.pinned \in Nat
  BY DEF Counts
<1>2. CASE Promoted(c) = c BY <1>2, ResidentCount
<1>3. CASE c.warm > 0 /\ Promoted(c) # c
  <2>1. Promoted(c) = [c EXCEPT !.warm = c.warm - 1, !.hot = c.hot + 1]
    BY <1>3 DEF Promoted
  <2>2. c.warm - 1 \in Nat /\ c.hot + 1 \in Nat BY <1>1, <1>3
  <2> DEFINE d == Promoted(c)
  <2> HIDE DEF d
  <2>3. /\ d \in Counts /\ d.hot = c.hot + 1 /\ d.warm = c.warm - 1
        /\ d.pinned = c.pinned
    BY <1>1, <2>1, <2>2 DEF Counts, d
  <2>4. Resident(d) >= Resident(c) BY <1>1, <2>3, ResidentCount
  <2> QED BY <2>3, <2>4 DEF d
<1> QED BY <1>2, <1>3 DEF Promoted

-----------------------------------------------------------------------------
(* What the context makes of an observation                                 *)

(* A byte count that can be represented is a number.                        *)
Byte(x) == x = <<>> \/ \E n \in Nat : x = <<n>>

LEMMA CheckedByte ==
    ASSUME NEW n \in Nat PROVE Byte(Checked(n))
  BY DEF Byte, Checked

LEMMA ArithmeticBytes ==
    ASSUME NEW a, Byte(a), NEW b, Byte(b)
    PROVE  Byte(Mul(a, b)) /\ Byte(Add(a, b))
<1>1. CASE a = <<>> \/ b = <<>>
  BY <1>1 DEF Byte, Mul, Add
<1>2. CASE ~(a = <<>> \/ b = <<>>)
  <2>1. a[1] \in Nat /\ b[1] \in Nat BY <1>2 DEF Byte
  <2>2. Byte(Checked(a[1] * b[1])) /\ Byte(Checked(a[1] + b[1]))
    BY <2>1, CheckedByte
  <2> QED BY <1>2, <2>2 DEF Mul, Add
<1> QED BY <1>1, <1>2

LEMMA TokenBytes ==
    ASSUME NEW o \in Observations, Representable(o)
    PROVE  BytesPerToken(o)[1] \in Nat
<1> DEFINE t == o.topology
           vectors == Mul(Mul(Checked(t.layers), Checked(t.kv_heads)),
                          Checked(t.head_dim_k))
           k == Mul(vectors, Checked(t.k_bytes_per_elem))
           v == IF t.has_v THEN Mul(vectors, Checked(t.v_bytes_per_elem)) ELSE <<0>>
<1>1. /\ t.layers \in Nat /\ t.kv_heads \in Nat /\ t.head_dim_k \in Nat
      /\ t.k_bytes_per_elem \in Nat /\ t.v_bytes_per_elem \in Nat
  BY ContextAssumption
<1>2. BytesPerToken(o) = IF ValidTopology(t) THEN Add(k, v) ELSE <<>>
  BY DEF BytesPerToken, try_raw_bytes_per_token
<1>3. BytesPerToken(o) # <<>> BY DEF Representable, Mul
<1> HIDE DEF t
<1>4. Byte(vectors) BY <1>1, CheckedByte, ArithmeticBytes
<1>5. Byte(<<0>>) BY DEF Byte
<1> HIDE DEF vectors
<1>6. Byte(k) /\ Byte(Mul(vectors, Checked(t.v_bytes_per_elem)))
  BY <1>1, <1>4, CheckedByte, ArithmeticBytes
<1>7. Byte(v) BY <1>5, <1>6
<1> HIDE DEF k, v
<1>8. Byte(Add(k, v)) BY <1>6, <1>7, ArithmeticBytes
<1> QED BY <1>2, <1>3, <1>8 DEF Byte

LEMMA ShortfallCount ==
    ASSUME NEW o \in Observations, Representable(o)
    PROVE  GrowthShortfall(o) \in Nat
<1>1. o.predicted_growth \in Nat /\ o.vram_available \in Nat
  BY ContextAssumption
<1>2. o.predicted_growth * BytesPerToken(o)[1] \in Nat
  BY <1>1, TokenBytes
<1> QED BY <1>1, <1>2 DEF GrowthShortfall, SaturatingSub

LEMMA PressureCount ==
    ASSUME hard \in Nat, NEW total \in Nat, NEW available \in Nat
    PROVE  scaled_system_pressure(total, available) \in Int
<1>1. CASE total = 0 \/ hard = 0 BY <1>1 DEF scaled_system_pressure
<1>2. CASE ~(total = 0 \/ hard = 0)
  <2> DEFINE x == (total - available) * hard + total - 1
  <2>1. x \in Int OBVIOUS
  <2>2. scaled_system_pressure(total, available) = Minimum(x \div total, hard)
    BY <1>2 DEF scaled_system_pressure
  <2> HIDE DEF x
  <2>3. x \div total \in Int BY <1>2, <2>1
  <2> QED BY <2>2, <2>3 DEF Minimum
<1> QED BY <1>1, <1>2

(* The load covers what is resident and what the growth lacks.              *)
LEMMA UsedCovers ==
    ASSUME NEW o \in Observations, Representable(o), hard \in Nat, cache \in Counts
    PROVE  /\ ControlUsed(o) \in Int
           /\ ControlUsed(o) >= Resident(cache) + GrowthShortfall(o)
<1> DEFINE local  == Resident(cache) + GrowthShortfall(o)
           system == scaled_system_pressure(o.vram_total, o.vram_available)
<1>1. local \in Nat BY ResidentCount, ShortfallCount
<1>2. o.vram_total \in Nat /\ o.vram_available \in Nat BY ContextAssumption
<1>3. system \in Int BY <1>2, PressureCount
<1>4. ControlUsed(o) = IF local > system THEN local ELSE system
  BY DEF ControlUsed
<1> HIDE DEF local, system
<1>5. ControlUsed(o) \in Int /\ ControlUsed(o) >= local
  BY <1>1, <1>3, <1>4
<1> QED BY <1>5 DEF local

(* Where anything is resident the release target is below it, and a cache   *)
(* over its budget is sent to the recovery target or, for growth, lower.    *)
LEMMA TargetBelow ==
    ASSUME NEW o \in Observations, Representable(o), hard \in Nat, cache \in Counts
    PROVE  LET target == Minimum(ReleaseTarget(o), hard)
           IN /\ target \in Int
              /\ Resident(cache) > 0 => target < Resident(cache)
              /\ Resident(cache) > hard =>
                    /\ target <= RecoveryTarget
                    /\ GrowthShortfall(o) = 0 => target = RecoveryTarget
<1> DEFINE r == Resident(cache)
           g == GrowthShortfall(o)
           w == WantedRelease(o)
           rt == RecoveryTarget
           target == Minimum(ReleaseTarget(o), hard)
<1>1. r \in Nat /\ g \in Nat BY ResidentCount, ShortfallCount
<1>2. rt \in Nat /\ rt <= hard BY DEF RecoveryTarget
<1>3. w = Minimum(SaturatingSub(r, g), rt) BY DEF WantedRelease
<1>4. ReleaseTarget(o) = IF r > 0 /\ w >= r THEN SaturatingSub(r, 32) ELSE w
  BY DEF ReleaseTarget, RUNG, TILE_BYTES, WARM_BYTES
<1>5. target = Minimum(ReleaseTarget(o), hard) OBVIOUS
<1> HIDE DEF r, g, w, rt, target
<1>6. w \in Nat /\ w <= rt BY <1>1, <1>2, <1>3 DEF Minimum, SaturatingSub
<1>7. /\ ReleaseTarget(o) \in Nat
      /\ r > 0 => ReleaseTarget(o) < r
      /\ r > hard => ReleaseTarget(o) = w
  BY <1>1, <1>2, <1>4, <1>6 DEF SaturatingSub
<1>8. target \in Int /\ target <= ReleaseTarget(o)
      /\ (r > hard => target = w)
  BY <1>2, <1>5, <1>6, <1>7 DEF Minimum
<1>9. r > 0 => target < r BY <1>1, <1>7, <1>8
<1>10. r > hard /\ g = 0 => target = rt
  BY <1>1, <1>2, <1>3, <1>8 DEF Minimum, SaturatingSub
<1>11. r > hard => target <= rt BY <1>6, <1>8
<1> QED BY <1>8, <1>9, <1>10, <1>11 DEF r, g, rt, target

-----------------------------------------------------------------------------
(* One observation of the context                                           *)

(* The context's state, and the part of RequestsFit that every step leaves. *)
ContextInv ==
    /\ hard \in Nat /\ soft \in Nat /\ count \in Nat /\ cache \in Counts
    /\ RequestsFit

(* What DecisionsAreReal and OverBudgetRecovers say of one step.            *)
Real ==
    CASE result' # "ok" -> cache' = cache
      [] result' = "ok" /\ decision'.action = "demote" ->
            Resident(cache) > 0 => Resident(cache') < Resident(cache)
      [] OTHER -> Resident(cache') >= Resident(cache)

Recovers ==
    Resident(cache) > hard =>
       \/ Resident(cache') <= RecoveryTarget
       \/ /\ result' = "failed"
          /\ \/ TILE_BYTES * cache.pinned > RecoveryTarget
             \/ decision'.used > Resident(cache)

LEMMA ActOK ==
    ASSUME ContextInv, NEW o \in Observations, Representable(o), Act(o)
    PROVE  ContextInv' /\ Real /\ Recovers
<1> DEFINE action == decision'.action
           target == IF action = "demote" THEN Minimum(ReleaseTarget(o), hard)
                     ELSE hard
           after  == Applied(action, target)
           starved == GrowthShortfall(o) > 0 /\ action = "demote" /\ after = cache
           r == Resident(cache)
           used == ControlUsed(o)
<1>1. /\ hard \in Nat /\ soft \in Nat /\ count \in Nat /\ cache \in Counts
  BY DEF ContextInv
<1>2. effective_capacity(hard) = hard
  BY <1>1 DEF effective_capacity, Minimum
<1>3. used \in Int /\ used >= r + GrowthShortfall(o) BY <1>1, UsedCovers
<1>4. GrowthShortfall(o) \in Nat BY ShortfallCount
<1>5. r \in Nat BY <1>1, ResidentCount
<1>6. PICK s : Step(s, used, hard) BY <1>2 DEF Act
<1>7. /\ RequestsFit' /\ action \in {"demote", "promote", "none"}
      /\ used > hard => action = "demote" /\ decision'.used = used
  BY <1>1, <1>3, <1>6, RequestOK
<1>8. hard' = hard /\ soft' = soft /\ count' = count + 1
  BY <1>6 DEF Step, Observed
<1>9. \/ ~Applies(action, target) /\ result' = "failed" /\ cache' = cache
      \/ Applies(action, target) /\ starved /\ result' = "starved" /\ cache' = cache
      \/ Applies(action, target) /\ ~starved /\ result' = "ok" /\ cache' = after
  BY DEF Act
<1> HIDE DEF used
<1>10. CASE action = "demote"
  <2>1. target = Minimum(ReleaseTarget(o), hard) BY <1>10
  <2>2. /\ target \in Int
        /\ r > 0 => target < r
        /\ r > hard =>
              /\ target <= RecoveryTarget
              /\ GrowthShortfall(o) = 0 => target = RecoveryTarget
    BY <1>1, <2>1, TargetBelow
  <2>3. /\ Applies(action, target) <=> TurnsTo(cache, target) # {}
        /\ after = Released(cache, target)
    BY <1>10 DEF Applies, Applied
  <2>a. RecoveryTarget \in Nat BY <1>1 DEF RecoveryTarget
  <2> HIDE DEF target, after, r
  <2>4. /\ Applies(action, target) =>
              after \in Counts /\ Resident(after) \in Nat /\ Resident(after) <= target
        /\ ~Applies(action, target) => 128 * cache.pinned > target
    BY <1>1, <2>2, <2>3, ReleasedOK, ResidentCount
  <2>5. cache' \in Counts BY <1>1, <1>9, <2>4
  <2>6. ContextInv' BY <1>1, <1>7, <1>8, <2>5 DEF ContextInv
  <2>7. Real
    <3>1. CASE result' # "ok" BY <1>9, <3>1 DEF Real
    <3>2. CASE result' = "ok"
      <4>1. cache' = after /\ Applies(action, target) BY <1>9, <3>2
      <4>2. r > 0 => Resident(cache') < r BY <1>5, <2>2, <2>4, <4>1
      <4> QED BY <1>10, <3>2, <4>2 DEF Real, r
    <3> QED BY <3>1, <3>2
  <2>8. Recovers
    <3> SUFFICES ASSUME r > hard PROVE \/ Resident(cache') <= RecoveryTarget
                                       \/ /\ result' = "failed"
                                          /\ \/ TILE_BYTES * cache.pinned > RecoveryTarget
                                             \/ decision'.used > r
      BY DEF Recovers, r
    <3>1. CASE Applies(action, target)
      <4>1. Resident(after) <= RecoveryTarget BY <2>2, <2>4, <2>a, <3>1
      <4>2. r > 0 BY <1>1, <1>5
      <4>3. after # cache
        <5>1. Resident(after) < r BY <1>5, <2>2, <2>4, <3>1, <4>2
        <5> QED BY <1>5, <5>1 DEF r
      <4>4. cache' = after BY <1>9, <3>1, <4>3
      <4> QED BY <4>1, <4>4
    <3>2. CASE ~Applies(action, target)
      <4>1. result' = "failed" BY <1>9, <3>2
      <4>2. CASE GrowthShortfall(o) = 0
        BY <2>2, <2>4, <3>2, <4>1, <4>2 DEF TILE_BYTES
      <4>3. CASE GrowthShortfall(o) # 0
        <5>1. used > r /\ used > hard BY <1>1, <1>3, <1>4, <1>5, <4>3 DEF r
        <5> QED BY <1>7, <4>1, <5>1
      <4> QED BY <4>2, <4>3
    <3> QED BY <3>1, <3>2
  <2> QED BY <2>6, <2>7, <2>8
<1>11. CASE action # "demote"
  <2>1. after = cache \/ after = Promoted(cache)
    BY <1>7, <1>11 DEF Applied
  <2> HIDE DEF after
  <2>2. after \in Counts /\ Resident(after) >= r
    BY <1>1, <1>5, <2>1, PromotedCount
  <2>3. cache' \in Counts /\ Resident(cache') >= r BY <1>1, <1>5, <1>9, <2>2
  <2>4. ContextInv' BY <1>1, <1>7, <1>8, <2>3 DEF ContextInv
  <2>5. Real
    <3>1. CASE result' # "ok" BY <1>9, <3>1 DEF Real
    <3>2. CASE result' = "ok" BY <1>11, <2>3, <3>2 DEF Real
    <3> QED BY <3>1, <3>2
  <2>6. ~(used > hard) BY <1>7, <1>11
  <2>7. ~(r > hard)
    <3> HIDE DEF r
    <3> QED BY <1>1, <1>3, <1>4, <1>5, <2>6
  <2>8. Recovers BY <2>7 DEF Recovers
  <2> QED BY <2>4, <2>5, <2>8
<1> QED BY <1>10, <1>11

-----------------------------------------------------------------------------
(* The specification                                                        *)

LEMMA ContextStart ==
    ASSUME ContextInit PROVE ContextInv
<1>1. hard \in Nat /\ soft \in Nat /\ count \in Nat
  BY ControllerAssumption DEF ContextInit, Init
<1>2. cache \in Counts BY DEF ContextInit, NoTiles, Counts
<1>3. RequestsFit BY DEF ContextInit, Init, NoDecision, RequestsFit
<1> QED BY <1>1, <1>2, <1>3 DEF ContextInv

LEMMA FitKept ==
    ASSUME RequestsFit, UNCHANGED decision PROVE RequestsFit'
  BY DEF RequestsFit

(* What every step of the specification does to the context.                *)
LEMMA ContextKept ==
    ASSUME ContextInv, [ContextNext]_allVars
    PROVE  /\ ContextInv'
           /\ Stepped => Real /\ Recovers
<1>0. /\ hard \in Nat /\ soft \in Nat /\ cache \in Counts /\ RequestsFit
      /\ count \in Nat
  BY DEF ContextInv
<1> DEFINE Accepted(o) == ValidObservation(o) /\ ~BeyondLimit(o) /\ Representable(o)
<1>1. ASSUME NEW o \in Observations, ContextStep(o), ~Accepted(o)
      PROVE  ContextInv' /\ ~Stepped
  <2>1. UNCHANGED <<hard, soft, count, decision, cache>>
    BY <1>1 DEF ContextStep, Refuse, vars
  <2> QED BY <1>0, <2>1, FitKept DEF ContextInv, Stepped
<1>2. ASSUME NEW o \in Observations, ContextStep(o), Accepted(o)
      PROVE  ContextInv' /\ Real /\ Recovers
  <2>1. Act(o) /\ Representable(o) BY <1>2 DEF ContextStep
  <2> QED BY <2>1, ActOK
<1>3. ASSUME UseCache PROVE ContextInv' /\ ~Stepped
  <2>1. UNCHANGED <<hard, soft, count, decision>> BY <1>3 DEF UseCache, vars
  <2>2. cache' \in Counts
    <3>1. cache.hot \in Nat /\ cache.warm \in Nat /\ cache.cold \in Nat
          /\ cache.pinned \in Nat
      BY <1>0 DEF Counts
    <3>2. CASE cache' = [cache EXCEPT !.hot = @ + 1]
      <4>1. cache.hot + 1 \in Nat BY <3>1
      <4> QED BY <1>0, <3>2, <4>1 DEF Counts
    <3>3. CASE /\ cache.hot > 0
               /\ cache' = [cache EXCEPT !.hot = @ - 1, !.pinned = @ + 1]
      <4>1. cache.hot - 1 \in Nat /\ cache.pinned + 1 \in Nat BY <3>1, <3>3
      <4> QED BY <1>0, <3>3, <4>1 DEF Counts
    <3>4. CASE cache' = NoTiles BY <3>4 DEF Counts, NoTiles
    <3> QED BY <1>3, <3>2, <3>3, <3>4 DEF UseCache
  <2> QED BY <1>0, <2>1, <2>2, FitKept DEF ContextInv, Stepped
<1>4. ASSUME NEW l \in Limits, set_positional_limit(l)
      PROVE  ContextInv' /\ ~Stepped
  <2>1. UNCHANGED <<hard, soft, count, decision, cache>>
    BY <1>4 DEF set_positional_limit, vars
  <2> QED BY <1>0, <2>1, FitKept DEF ContextInv, Stepped
<1>5. ASSUME Executes PROVE ContextInv' /\ ~Stepped
  <2>1. cache' = cache /\ ~dry_run BY <1>5 DEF Executes, contextVars
  <2>2. PICK gap \in Gaps, load \in Loads :
            Step(IF count = 0 THEN step ELSE step + gap,
                 load[1], effective_capacity(load[2]))
    BY <1>5 DEF Executes, Next
  <2>3. /\ load[1] \in Nat /\ effective_capacity(load[2]) \in Nat
    BY <1>0, ControllerAssumption DEF effective_capacity, Minimum
  <2>4. RequestsFit' BY <1>0, <2>2, <2>3, RequestOK
  <2>5. hard' = hard /\ soft' = soft /\ count' = count + 1
    BY <2>2 DEF Step, Observed
  <2> QED BY <1>0, <2>1, <2>4, <2>5 DEF ContextInv, Stepped
<1>6. ASSUME UNCHANGED allVars PROVE ContextInv' /\ ~Stepped
  <2>1. UNCHANGED <<hard, soft, count, decision, cache>>
    BY <1>6 DEF allVars, vars, contextVars
  <2> QED BY <1>0, <2>1, FitKept DEF ContextInv, Stepped
<1> QED BY <1>1, <1>2, <1>3, <1>4, <1>5, <1>6 DEF ContextNext

(* Every decision of ElasticContext::step is carried out on the cache once: *)
(* a demotion that succeeds frees bytes, nothing else does, a failing step  *)
(* leaves the cache as it was, and what is asked of a backend always fits.  *)
THEOREM DecisionsCarriedOut == ContextSpec => DecisionsAreReal
<1> DEFINE Does ==
       /\ RequestsFit'
       /\ Stepped =>
            CASE result' # "ok" -> cache' = cache
              [] result' = "ok" /\ decision'.action = "demote" ->
                    Resident(cache) > 0 => Resident(cache') < Resident(cache)
              [] OTHER -> Resident(cache') >= Resident(cache)
<1>1. ContextInit => ContextInv BY ContextStart
<1>2. ContextInv /\ [ContextNext]_allVars => ContextInv' /\ Does
  BY ContextKept DEF ContextInv, Real
<1>3. ContextSpec => [][Does]_allVars
  BY <1>1, <1>2, PTL DEF ContextSpec
<1> QED BY <1>3 DEF DecisionsAreReal

(* An accepted observation never leaves a cache beyond its budget, whatever *)
(* the gate and the forecast say: it is brought to the recovery target of   *)
(* recovery_target, unless pinned tiles or predicted growth prevent it.     *)
THEOREM BudgetRecovered == ContextSpec => OverBudgetRecovers
<1> DEFINE Does == Stepped /\ Resident(cache) > hard =>
                     \/ Resident(cache') <= RecoveryTarget
                     \/ /\ result' = "failed"
                        /\ \/ TILE_BYTES * cache.pinned > RecoveryTarget
                           \/ decision'.used > Resident(cache)
<1>1. ContextInit => ContextInv BY ContextStart
<1>2. ContextInv /\ [ContextNext]_allVars => ContextInv' /\ Does
  BY ContextKept DEF Recovers
<1>3. ContextSpec => [][Does]_allVars
  BY <1>1, <1>2, PTL DEF ContextSpec
<1> QED BY <1>3 DEF OverBudgetRecovers

-----------------------------------------------------------------------------
(* The gate over a whole run                                                *)

LEMMA GateStart ==
    ASSUME 0 \notin StartSteps, ContextInit PROVE GateTypes /\ GateInv
<1>1. GateTypes
  BY ControllerAssumption DEF ContextInit, Init, GateTypes, Steps, Never
<1>2. step > 0 BY ControllerAssumption DEF ContextInit, Init
<1> QED BY <1>1, <1>2 DEF ContextInit, Init, GateInv, Never, Reasons, GateTypes

LEMMA GateKept ==
    ASSUME GateTypes, GateInv, [ContextNext]_allVars
    PROVE  GateTypes' /\ GateInv' /\ (UNCHANGED vars \/ Spaced)
<1>1. CASE UNCHANGED vars
  BY <1>1 DEF GateTypes, GateInv, vars, gateVars
<1>2. CASE \E o \in Observations : ContextStep(o) /\ Act(o)
  <2>1. PICK s, used, capacity :
            Step(s, used, capacity) /\ s = IF count = 0 THEN step ELSE step + 1
    BY <1>2 DEF Act
  <2>2. Later(s) BY <2>1 DEF Later, GateTypes
  <2> QED BY <2>1, <2>2, GateStep
<1>3. CASE Executes
  <2>1. PICK gap \in Gaps, load \in Loads :
            Step(IF count = 0 THEN step ELSE step + gap,
                 load[1], effective_capacity(load[2]))
    BY <1>3 DEF Executes, Next
  <2> DEFINE s == IF count = 0 THEN step ELSE step + gap
  <2>2. gap \in Nat \ {0} BY ControllerAssumption
  <2>3. Later(s) BY <2>2 DEF Later, GateTypes
  <2>4. Step(s, load[1], effective_capacity(load[2])) BY <2>1
  <2> HIDE DEF s
  <2> QED BY <2>3, <2>4, GateStep
<1> QED BY <1>1, <1>2, <1>3
        DEF ContextNext, allVars, ContextStep, Refuse, UseCache, set_positional_limit

(* The controller of hysteresis.rs does not thrash, in a context or with a  *)
(* backend of its own, whatever the loads: provided its clock starts after  *)
(* 0, the step number that last_action_step uses for "no action yet".       *)
THEOREM ActionsSpaced == 0 \notin StartSteps => (ContextSpec => NoThrashing)
<1> SUFFICES ASSUME 0 \notin StartSteps PROVE ContextSpec => NoThrashing
  OBVIOUS
<1> DEFINE Inv == GateTypes /\ GateInv
           Does == /\ Acts("pressure_high") =>
                         /\ Apart("pressure_high", MinIntervalSteps)
                         /\ Apart("pressure_low", MinIntervalSteps)
                   /\ Acts("pressure_low") =>
                         /\ Apart("pressure_high", CooldownSteps)
                         /\ Apart("pressure_low", 2 * CooldownSteps + 1)
<1>1. ContextInit => Inv BY GateStart
<1>2. Inv /\ [ContextNext]_allVars => Inv' /\ [Does]_vars
  BY GateKept DEF Spaced
<1>3. ContextSpec => [][Does]_vars
  BY <1>1, <1>2, PTL DEF ContextSpec
<1> QED BY <1>3 DEF NoThrashing

-----------------------------------------------------------------------------
(* The budget tree. Parents are earlier nodes, so that the ancestors of a   *)
(* node are well defined, are the nodes above it, and form a chain.         *)

Forest(up, k) == up \in [1 .. k -> Nat] /\ \A n \in 1 .. k : up[n] < n

IsAbove(A, up, D) ==
    A = [n \in D |-> IF up[n] = NoParent THEN {} ELSE {up[n]} \cup A[up[n]]]

LEMMA AboveExists ==
    ASSUME NEW k \in Nat, NEW up, Forest(up, k)
    PROVE  \E A : IsAbove(A, up, 1 .. k)
<1> DEFINE P(j) == \E A : IsAbove(A, up, 1 .. j)
           Bad == {j \in 0 .. k : ~P(j)}
<1>1. SUFFICES ASSUME Bad # {} PROVE FALSE
  BY <1>1
<1>2. PICK j \in Bad : \A i \in Bad : j <= i
  <2>1. Bad \subseteq Nat OBVIOUS
  <2> HIDE DEF Bad
  <2> QED BY <2>1, <1>1, LeastElement
<1>3. j # 0
  <2>1. 1 .. 0 = {} OBVIOUS
  <2>2. PICK A : A = [n \in {} |-> n]
    OBVIOUS
  <2>3. IsAbove(A, up, {})
    BY <2>2 DEF IsAbove
  <2> QED BY <2>1, <2>3
<1>4. PICK i : i = j - 1
  OBVIOUS
<1>5. i \in 0 .. k /\ i \notin Bad /\ j = i + 1 /\ j \in 1 .. k
  BY <1>2, <1>3, <1>4
<1>6. PICK A : IsAbove(A, up, 1 .. i)
  BY <1>5
<1>7. PICK B : B = [n \in 1 .. j |-> IF n = j THEN IF up[n] = NoParent THEN {}
                                                  ELSE {up[n]} \cup A[up[n]]
                                     ELSE A[n]]
  OBVIOUS
<1>8. ASSUME NEW n \in 1 .. j
      PROVE  B[n] = IF up[n] = NoParent THEN {} ELSE {up[n]} \cup B[up[n]]
  <2>1. up[n] \in Nat /\ up[n] < n
    BY <1>5 DEF Forest
  <2>2. CASE up[n] = NoParent
    <3>1. CASE n = j BY <3>1, <2>2, <1>7
    <3>2. CASE n # j
      <4>1. n \in 1 .. i BY <3>2, <1>5
      <4>2. A[n] = {} BY <4>1, <2>2, <1>6 DEF IsAbove
      <4> QED BY <4>2, <3>2, <2>2, <1>7
    <3> QED BY <3>1, <3>2
  <2>3. CASE up[n] # NoParent
    <3>1. up[n] \in 1 .. i
      BY <2>1, <2>3, <1>5 DEF NoParent
    <3>2. B[up[n]] = A[up[n]]
      BY <3>1, <1>5, <1>7
    <3>3. B[n] = {up[n]} \cup A[up[n]]
      <4>1. CASE n = j BY <4>1, <2>3, <1>7
      <4>2. CASE n # j
        <5>1. n \in 1 .. i BY <4>2, <1>5
        <5>2. A[n] = {up[n]} \cup A[up[n]] BY <5>1, <2>3, <1>6 DEF IsAbove
        <5> QED BY <5>2, <4>2, <1>7
      <4> QED BY <4>1, <4>2
    <3> QED BY <3>2, <3>3, <2>3
  <2> QED BY <2>2, <2>3
<1>9. IsAbove(B, up, 1 .. j)
  <2>1. B = [n \in 1 .. j |-> B[n]]
    BY <1>7
  <2> QED BY <2>1, <1>8 DEF IsAbove
<1> QED BY <1>9, <1>2

LEMMA AncestorsEquation ==
    ASSUME NEW k \in Nat, NEW up, Forest(up, k)
    PROVE  IsAbove(AncestorsOf(up), up, 1 .. k)
<1>1. DOMAIN up = 1 .. k
  BY DEF Forest
<1>2. \E A : IsAbove(A, up, DOMAIN up)
  BY <1>1, AboveExists
<1>3. AncestorsOf(up) = CHOOSE A : IsAbove(A, up, DOMAIN up)
  BY DEF AncestorsOf, IsAbove
<1> QED BY <1>1, <1>2, <1>3

(* One step up the tree.                                                    *)
LEMMA AncestorsStep ==
    ASSUME NEW k \in Nat, NEW up, Forest(up, k), NEW n \in 1 .. k
    PROVE  /\ up[n] = NoParent => AncestorsOf(up)[n] = {}
           /\ up[n] # NoParent =>
                /\ up[n] \in 1 .. k /\ up[n] < n
                /\ AncestorsOf(up)[n] = {up[n]} \cup AncestorsOf(up)[up[n]]
<1>1. PICK A : A = AncestorsOf(up) OBVIOUS
<1>2. IsAbove(A, up, 1 .. k) BY <1>1, AncestorsEquation
<1>3. A[n] = IF up[n] = NoParent THEN {} ELSE {up[n]} \cup A[up[n]]
  BY <1>2 DEF IsAbove
<1>4. up[n] \in Nat /\ up[n] < n
  BY DEF Forest
<1>5. up[n] # NoParent => up[n] \in 1 .. k
  BY <1>4 DEF NoParent
<1> QED BY <1>1, <1>3, <1>4, <1>5

Chain(A, up, n) ==
    /\ A[n] \subseteq 1 .. (n - 1)
    /\ \A c \in A[n] : A[c] \subseteq A[n]
    /\ \A p \in A[n] : \E c \in {n} \cup A[n] : up[c] = p
    /\ \A c, d \in {n} \cup A[n] : c = d \/ c \in A[d] \/ d \in A[c]

LEMMA AncestorsChain ==
    ASSUME NEW k \in Nat, NEW up, Forest(up, k), NEW m \in 1 .. k
    PROVE  Chain(AncestorsOf(up), up, m)
<1> PICK A : A = AncestorsOf(up) OBVIOUS
<1> DEFINE Bad == {n \in 1 .. k : ~Chain(A, up, n)}
<1>1. SUFFICES ASSUME Bad # {} PROVE FALSE
  BY <1>1
<1>2. PICK n \in Bad : \A i \in Bad : n <= i
  <2>1. Bad \subseteq Nat OBVIOUS
  <2> HIDE DEF Bad
  <2> QED BY <2>1, <1>1, LeastElement
<1>3. n \in 1 .. k OBVIOUS
<1>4. CASE up[n] = NoParent
  <2>1. A[n] = {} BY <1>3, <1>4, AncestorsStep
  <2>2. Chain(A, up, n) BY <2>1 DEF Chain
  <2> QED BY <2>2
<1>5. CASE up[n] # NoParent
  <2> PICK u : u = up[n] OBVIOUS
  <2>1. u \in 1 .. k /\ u < n /\ A[n] = {u} \cup A[u]
    BY <1>3, <1>5, AncestorsStep
  <2>2. Chain(A, up, u)
    BY <2>1, <1>2
  <2>3. A[n] \subseteq 1 .. (n - 1)
    BY <2>1, <2>2 DEF Chain
  <2>4. \A c \in A[n] : A[c] \subseteq A[n]
    BY <2>1, <2>2, Zenon DEF Chain
  <2>5. \A p \in A[n] : \E c \in {n} \cup A[n] : up[c] = p
    BY <2>1, <2>2, Zenon DEF Chain
  <2>6. ASSUME NEW c \in {n} \cup A[n], NEW d \in {n} \cup A[n]
        PROVE  c = d \/ c \in A[d] \/ d \in A[c]
    <3>1. CASE c = n BY <3>1
    <3>2. CASE d = n BY <3>2
    <3>3. CASE c # n /\ d # n
      <4>1. c \in {u} \cup A[u] /\ d \in {u} \cup A[u] BY <3>3, <2>1
      <4> QED BY <4>1, <2>2 DEF Chain
    <3> QED BY <3>1, <3>2, <3>3
  <2>7. Chain(A, up, n)
    BY <2>3, <2>4, <2>5, <2>6 DEF Chain
  <2> QED BY <2>7
<1> QED BY <1>4, <1>5

(* No node of a chain has two children on it.                               *)
LEMMA ChainChild ==
    ASSUME NEW k \in Nat, NEW up, Forest(up, k), NEW n \in 1 .. k,
           NEW c \in {n} \cup AncestorsOf(up)[n], NEW d \in {n} \cup AncestorsOf(up)[n],
           up[c] = up[d], up[c] # NoParent
    PROVE  c = d
<1> PICK A : A = AncestorsOf(up) OBVIOUS
<1>1. Chain(A, up, n) BY AncestorsChain
<1>2. c \in 1 .. k /\ d \in 1 .. k
  BY <1>1 DEF Chain
<1>3. c = d \/ c \in A[d] \/ d \in A[c]
  BY <1>1 DEF Chain
<1>4. ASSUME NEW x \in 1 .. k, NEW y \in 1 .. k, up[x] = up[y], up[x] # NoParent
      PROVE  x \notin A[y]
  <2>1. up[y] \in 1 .. k /\ A[y] = {up[y]} \cup A[up[y]]
    BY <1>4, AncestorsStep
  <2>2. Chain(A, up, up[y])
    BY <2>1, AncestorsChain
  <2>3. A[up[y]] \subseteq 1 .. (up[y] - 1)
    BY <2>2 DEF Chain
  <2>4. up[x] < x BY DEF Forest
  <2> QED BY <2>1, <2>3, <2>4, <1>4
<1> QED BY <1>2, <1>3, <1>4

-----------------------------------------------------------------------------
(* What the coordinator's accounts keep. The sums of the code saturate;     *)
(* that a subtree stays within its limit is what keeps them exact.          *)

Up == [n \in Nodes |-> nodes[n].parent]

Own == [n \in Nodes |-> nodes[n].committed]

Held(n) == SumFunctionOnSet(Own, Subtree(n))

Accounts == [r \in Resources |-> resources[r].committed]

CoordInv ==
    /\ CoordTypeOK
    /\ \A r \in Resources : ~Registered(r) => resources[r].committed = 0
    /\ \A n \in Nodes : nodes[n].committed = SumFunctionOnSet(Accounts, At(n))
    /\ \A n \in Nodes : Held(n) <= nodes[n].hard_limit

LEMMA NodeType ==
    ASSUME CoordTypeOK
    PROVE  /\ Len(nodes) \in Nat /\ Nodes = 1 .. Len(nodes) /\ Nodes = DOMAIN nodes
           /\ IsFiniteSet(Nodes)
           /\ \A n \in Nodes :
                /\ nodes[n] \in Node
                /\ nodes[n].parent \in 0 .. MaxNodes /\ nodes[n].hard_limit \in 0 .. MaxU
                /\ nodes[n].reservation \in 0 .. MaxU /\ nodes[n].committed \in 0 .. MaxU
                /\ nodes[n].parent < n
<1>1. nodes \in Seq(Node) /\ \A n \in Nodes : nodes[n].parent < n
  BY DEF CoordTypeOK
<1>2. Len(nodes) \in Nat /\ Nodes = 1 .. Len(nodes) /\ Nodes = DOMAIN nodes
  BY <1>1, LenProperties DEF Nodes
<1>3. \A n \in Nodes : nodes[n] \in Node
  BY <1>1, <1>2, ElementOfSeq
<1>4. IsFiniteSet(Nodes)
  BY <1>2, FS_Interval
<1> QED BY <1>1, <1>2, <1>3, <1>4 DEF Node

LEMMA TreeIsForest ==
    ASSUME CoordTypeOK
    PROVE  Forest(Up, Len(nodes)) /\ Ancestors = AncestorsOf(Up)
<1>1. Len(nodes) \in Nat /\ Nodes = 1 .. Len(nodes)
      /\ \A n \in Nodes : nodes[n].parent \in 0 .. MaxNodes /\ nodes[n].parent < n
  BY NodeType
<1>2. \A n \in Nodes : nodes[n].parent \in Nat
  BY <1>1
<1> QED BY <1>1, <1>2 DEF Forest, Up, Ancestors

LEMMA SubtreeFacts ==
    ASSUME CoordTypeOK, NEW n \in Nodes
    PROVE  /\ IsFiniteSet(Subtree(n)) /\ Subtree(n) \subseteq Nodes /\ n \in Subtree(n)
           /\ \A m \in Subtree(n) : Own[m] \in Nat
           /\ Held(n) \in Nat /\ nodes[n].committed <= Held(n)
<1>1. Subtree(n) \subseteq Nodes /\ n \in Subtree(n)
  BY DEF Subtree
<1>2. IsFiniteSet(Nodes) /\ \A m \in Nodes : nodes[m].committed \in 0 .. MaxU
  BY NodeType
<1>3. IsFiniteSet(Subtree(n))
  BY <1>1, <1>2, FS_Subset
<1>4. \A m \in Subtree(n) : Own[m] \in Nat
  BY <1>1, <1>2 DEF Own
<1>5. Held(n) \in Nat
  BY <1>3, <1>4, SumType DEF Held
<1>6. Held(n) = Own[n] + SumFunctionOnSet(Own, Subtree(n) \ {n})
      /\ SumFunctionOnSet(Own, Subtree(n) \ {n}) \in Nat /\ Own[n] \in Nat
  BY <1>1, <1>3, <1>4, SumTake DEF Held
<1>7. Own[n] = nodes[n].committed
  BY DEF Own
<1> QED BY <1>1, <1>3, <1>4, <1>5, <1>6, <1>7

(* Within the limits no sum saturates.                                      *)
LEMMA Counted ==
    ASSUME CoordTypeOK, CoordinatorAssumption, NEW n \in Nodes,
           Held(n) <= nodes[n].hard_limit
    PROVE  committed_with_descendants(n) = Held(n) /\ Held(n) \in 0 .. MaxU
<1>1. nodes[n].hard_limit \in 0 .. MaxU BY NodeType
<1>2. Held(n) \in Nat BY SubtreeFacts
<1>3. MaxU \in Nat BY DEF CoordinatorAssumption
<1>4. committed_with_descendants(n) = Saturating(Held(n))
  BY DEF committed_with_descendants, Committed, Held, Own
<1> QED BY <1>1, <1>2, <1>3, <1>4 DEF Saturating

(* A step that changes one node's commitment only.                          *)
LEMMA OneNodeStep ==
    ASSUME CoordTypeOK, CoordinatorAssumption, NEW m \in Nodes, NEW v \in 0 .. MaxU,
           nodes' = [nodes EXCEPT ![m].committed = v]
    PROVE  /\ nodes' \in Seq(Node) /\ Len(nodes') = Len(nodes) /\ Nodes' = Nodes
           /\ \A n \in Nodes :
                /\ nodes'[n].parent = nodes[n].parent
                /\ nodes'[n].hard_limit = nodes[n].hard_limit
                /\ nodes'[n].reservation = nodes[n].reservation
                /\ nodes'[n].committed = IF n = m THEN v ELSE nodes[n].committed
           /\ Ancestors' = Ancestors
<1>1. /\ Len(nodes) \in Nat /\ Nodes = 1 .. Len(nodes) /\ Nodes = DOMAIN nodes
      /\ \A n \in Nodes : nodes[n] \in Node
  BY NodeType
<1>2. DOMAIN nodes' = DOMAIN nodes /\ \A n \in Nodes : nodes'[n] =
          IF n = m THEN [nodes[n] EXCEPT !.committed = v] ELSE nodes[n]
  BY <1>1
<1>3. \A n \in Nodes :
                /\ nodes'[n] \in Node
                /\ nodes'[n].parent = nodes[n].parent
                /\ nodes'[n].hard_limit = nodes[n].hard_limit
                /\ nodes'[n].reservation = nodes[n].reservation
                /\ nodes'[n].committed = IF n = m THEN v ELSE nodes[n].committed
  BY <1>1, <1>2 DEF Node
<1>4. nodes' \in [1 .. Len(nodes) -> Node]
  <2>1. nodes' = [n \in 1 .. Len(nodes) |-> nodes'[n]]
    BY <1>1, <1>2
  <2> QED BY <2>1, <1>3, <1>1
<1>5. nodes' \in Seq(Node) /\ Len(nodes') = Len(nodes) /\ Nodes' = Nodes
  <2>1. nodes' \in Seq(Node) BY <1>1, <1>4, IsASeq
  <2>2. Len(nodes') = Len(nodes)
    BY <2>1, <1>1, <1>2, LenProperties
  <2> QED BY <2>1, <2>2 DEF Nodes
<1>6. Up' = Up
  BY <1>3, <1>5 DEF Up
<1>7. Ancestors' = Ancestors
  BY <1>6 DEF Ancestors, Up
<1> QED BY <1>3, <1>5, <1>7

(* Exactly the subtrees of m's ancestors notice it.                         *)
LEMMA HeldStep ==
    ASSUME CoordTypeOK, CoordinatorAssumption, NEW m \in Nodes, NEW v \in 0 .. MaxU,
           nodes' = [nodes EXCEPT ![m].committed = v], NEW n \in Nodes
    PROVE  /\ Subtree(n)' = Subtree(n)
           /\ IF m \in Subtree(n) THEN Held(n)' + nodes[m].committed = Held(n) + v
                                  ELSE Held(n)' = Held(n)
           /\ Held(n)' \in Nat
<1>1. /\ Nodes' = Nodes /\ Ancestors' = Ancestors
      /\ \A i \in Nodes : nodes'[i].committed = IF i = m THEN v ELSE nodes[i].committed
  BY OneNodeStep
<1>2. Subtree(n)' = Subtree(n)
  BY <1>1 DEF Subtree, is_descendant
<1>3. Own' = [i \in Nodes |-> IF i = m THEN v ELSE nodes[i].committed]
  BY <1>1 DEF Own
<1>4. /\ IsFiniteSet(Subtree(n)) /\ Subtree(n) \subseteq Nodes
      /\ \A i \in Subtree(n) : Own[i] \in Nat
  BY SubtreeFacts
<1>5. \A i \in Subtree(n) : Own'[i] \in Nat /\ (i # m => Own'[i] = Own[i])
  BY <1>3, <1>4 DEF Own
<1>6. Held(n)' = SumFunctionOnSet(Own', Subtree(n))
  BY <1>2 DEF Held
<1>7. IF m \in Subtree(n)
      THEN SumFunctionOnSet(Own', Subtree(n)) + Own[m] = SumFunctionOnSet(Own, Subtree(n)) + Own'[m]
      ELSE SumFunctionOnSet(Own', Subtree(n)) = SumFunctionOnSet(Own, Subtree(n))
  BY <1>4, <1>5, SumChange
<1>8. Own[m] = nodes[m].committed /\ Own'[m] = v
  BY <1>3 DEF Own
<1>9. SumFunctionOnSet(Own', Subtree(n)) \in Nat
  BY <1>4, <1>5, SumType
<1> QED BY <1>2, <1>6, <1>7, <1>8, <1>9 DEF Held

(* Every ancestor of a committing node is checked on the way to the root.   *)
LEMMA CommitChecked ==
    ASSUME CoordTypeOK, CoordinatorAssumption, NEW m \in Nodes, NEW bytes, CanCommit(m, bytes),
           NEW n \in Nodes, m \in Subtree(n)
    PROVE  /\ bytes <= headroom(n)
           /\ n # m => \E c \in {m} \cup Ancestors[m] :
                nodes[c].parent = n /\ KeepsReservations(n, c, bytes)
<1>1. CASE n = m
  BY <1>1 DEF CanCommit
<1>2. CASE n # m
  <2>1. n \in Ancestors[m]
    BY <1>2 DEF Subtree, is_descendant
  <2>2. Forest(Up, Len(nodes)) /\ Ancestors = AncestorsOf(Up) /\ Len(nodes) \in Nat
        /\ Nodes = 1 .. Len(nodes)
    BY TreeIsForest, NodeType
  <2>3. Chain(Ancestors, Up, m)
    BY <2>2, AncestorsChain
  <2>4. PICK c \in {m} \cup Ancestors[m] : Up[c] = n
    BY <2>1, <2>3 DEF Chain
  <2>5. Ancestors[m] \subseteq 1 .. (m - 1)
    BY <2>3 DEF Chain
  <2>6. c \in Nodes
    BY <2>2, <2>5
  <2>7. nodes[c].parent = n
    BY <2>4, <2>6 DEF Up
  <2>8. n # NoParent
    BY <2>2 DEF NoParent
  <2>9. <<n, c>> \in Path(m)
    BY <2>4, <2>7, <2>8 DEF Path
  <2>10. \A e \in Path(m) :
            bytes <= headroom(e[1]) /\ KeepsReservations(e[1], e[2], bytes)
    BY DEF CanCommit
  <2>11. bytes <= headroom(n) /\ KeepsReservations(n, c, bytes)
    BY <2>9, <2>10
  <2> QED BY <2>7, <2>11
<1> QED BY <1>1, <1>2

(* Room below the limit, in exact sums.                                     *)
LEMMA Headroom ==
    ASSUME CoordTypeOK, CoordinatorAssumption, NEW n \in Nodes, NEW bytes \in Nat \ {0},
           Held(n) <= nodes[n].hard_limit, bytes <= headroom(n)
    PROVE  Held(n) + bytes <= nodes[n].hard_limit
<1>1. committed_with_descendants(n) = Held(n) /\ Held(n) \in 0 .. MaxU
  BY Counted
<1>2. nodes[n].hard_limit \in 0 .. MaxU BY NodeType
<1>3. headroom(n) = IF nodes[n].hard_limit > Held(n) THEN nodes[n].hard_limit - Held(n) ELSE 0
  BY <1>1 DEF headroom, SaturatingMinus
<1> QED BY <1>1, <1>2, <1>3

(* The accounts of the resources at every node, when r's account changes.   *)
LEMMA AccountStep ==
    ASSUME CoordTypeOK, CoordinatorAssumption, NEW r \in Resources, NEW w \in 0 .. MaxU,
           resources' = [resources EXCEPT ![r].committed = w], NEW n \in Nodes
    PROVE  IF resources[r].node = n
           THEN SumFunctionOnSet(Accounts, At(n))' + resources[r].committed
                    = SumFunctionOnSet(Accounts, At(n)) + w
           ELSE SumFunctionOnSet(Accounts, At(n))' = SumFunctionOnSet(Accounts, At(n))
<1>1. resources \in [Resources -> [node : Nodes \cup {NoNode}, committed : 0 .. MaxU]]
  BY DEF CoordTypeOK
<1>2. \A q \in Resources :
        /\ resources'[q].node = resources[q].node
        /\ resources'[q].committed = IF q = r THEN w ELSE resources[q].committed
        /\ resources[q].committed \in 0 .. MaxU
  BY <1>1
<1>3. At(n)' = At(n)
  BY <1>2 DEF At
<1>4. Accounts' = [q \in Resources |-> IF q = r THEN w ELSE resources[q].committed]
  BY <1>2 DEF Accounts
<1>5. IsFiniteSet(At(n))
  BY FS_Subset DEF At, CoordinatorAssumption
<1>6. \A q \in At(n) : Accounts[q] \in Nat /\ Accounts'[q] \in Nat
                       /\ (q # r => Accounts[q] = Accounts'[q])
  BY <1>2, <1>4 DEF At, Accounts
<1>7. IF r \in At(n)
      THEN SumFunctionOnSet(Accounts', At(n)) + Accounts[r]
              = SumFunctionOnSet(Accounts, At(n)) + Accounts'[r]
      ELSE SumFunctionOnSet(Accounts', At(n)) = SumFunctionOnSet(Accounts, At(n))
  BY <1>5, <1>6, SumChange
<1>8. (r \in At(n) <=> resources[r].node = n) /\ Accounts[r] = resources[r].committed
      /\ Accounts'[r] = w
  BY <1>4 DEF At, Accounts
<1> QED BY <1>3, <1>7, <1>8

(* What a resource owns is part of what its node has committed.             *)
LEMMA OwnPart ==
    ASSUME CoordInv, CoordinatorAssumption, NEW r \in Resources, Registered(r)
    PROVE  /\ resources[r].node \in Nodes
           /\ resources[r].committed \in 0 .. MaxU
           /\ resources[r].committed <= nodes[resources[r].node].committed
<1>1. resources \in [Resources -> [node : Nodes \cup {NoNode}, committed : 0 .. MaxU]]
  BY DEF CoordInv, CoordTypeOK
<1>2. PICK n : n = resources[r].node OBVIOUS
<1>3. n \in Nodes /\ resources[r].committed \in 0 .. MaxU
  BY <1>1, <1>2 DEF Registered
<1>4. IsFiniteSet(At(n)) /\ r \in At(n)
  BY <1>2, FS_Subset DEF At, CoordinatorAssumption
<1>5. \A q \in At(n) : Accounts[q] \in Nat
  BY <1>1 DEF At, Accounts
<1>6. /\ SumFunctionOnSet(Accounts, At(n)) = Accounts[r] + SumFunctionOnSet(Accounts, At(n) \ {r})
      /\ SumFunctionOnSet(Accounts, At(n) \ {r}) \in Nat /\ Accounts[r] \in Nat
  BY <1>4, <1>5, SumTake
<1>7. nodes[n].committed = SumFunctionOnSet(Accounts, At(n))
  BY <1>3 DEF CoordInv
<1>8. Accounts[r] = resources[r].committed BY DEF Accounts
<1> QED BY <1>2, <1>3, <1>6, <1>7, <1>8

(* Both accounts move by the same amount, at the resource and at its node.  *)
MoveBytes(r, m, v, w) ==
    /\ nodes' = [nodes EXCEPT ![m].committed = v]
    /\ resources' = [resources EXCEPT ![r].committed = w]

LEMMA MovesType ==
    ASSUME CoordTypeOK, CoordinatorAssumption, NEW r \in Resources, NEW m \in Nodes,
           NEW v \in 0 .. MaxU, NEW w \in 0 .. MaxU, MoveBytes(r, m, v, w)
    PROVE  CoordTypeOK'
<1>1. /\ nodes' \in Seq(Node) /\ Len(nodes') = Len(nodes) /\ Nodes' = Nodes
      /\ \A n \in Nodes : nodes'[n].parent = nodes[n].parent
  BY OneNodeStep DEF MoveBytes
<1>2. resources' \in [Resources -> [node : Nodes \cup {NoNode}, committed : 0 .. MaxU]]
  BY DEF CoordTypeOK, MoveBytes
<1> QED BY <1>1, <1>2 DEF CoordTypeOK

LEMMA CommitMoves ==
    ASSUME CoordInv, CoordinatorAssumption, NEW r \in Resources, NEW bytes \in Amounts,
           commit(r, bytes), NEW m, m = resources[r].node
    PROVE  /\ m \in Nodes /\ bytes \in Nat \ {0} /\ CanCommit(m, bytes)
           /\ nodes[m].committed + bytes \in 0 .. MaxU
           /\ resources[r].committed + bytes \in 0 .. MaxU
           /\ MoveBytes(r, m, nodes[m].committed + bytes, resources[r].committed + bytes)
<1>1. /\ m \in Nodes /\ resources[r].committed \in 0 .. MaxU
  BY OwnPart DEF commit
<1>2. bytes \in 1 .. MaxU /\ MaxU \in Nat
  BY DEF CoordinatorAssumption
<1>3. CanCommit(m, bytes) /\ resources[r].committed + bytes <= MaxU
  BY DEF commit, try_commit
<1>4. CoordTypeOK /\ Held(m) <= nodes[m].hard_limit
  BY <1>1 DEF CoordInv
<1>5. bytes <= headroom(m)
  BY <1>3 DEF CanCommit
<1>6. Held(m) + bytes <= nodes[m].hard_limit
  BY <1>1, <1>2, <1>4, <1>5, Headroom
<1>7. nodes[m].committed <= Held(m) /\ Held(m) \in Nat /\ nodes[m].committed \in 0 .. MaxU
      /\ nodes[m].hard_limit \in 0 .. MaxU
  BY <1>1, <1>4, SubtreeFacts, NodeType
<1>8. nodes[m].committed + bytes \in 0 .. MaxU
  BY <1>2, <1>6, <1>7
<1>9. nodes' = [nodes EXCEPT ![m].committed = Saturating(nodes[m].committed + bytes)]
  BY DEF commit, try_commit
<1>10. Saturating(nodes[m].committed + bytes) = nodes[m].committed + bytes
  BY <1>8, <1>2 DEF Saturating
<1>11. resources' = [resources EXCEPT ![r].committed = resources[r].committed + bytes]
  BY DEF commit
<1>12. resources[r].committed + bytes \in 0 .. MaxU
  BY <1>1, <1>2, <1>3
<1>13. MoveBytes(r, m, nodes[m].committed + bytes, resources[r].committed + bytes)
  BY <1>9, <1>10, <1>11 DEF MoveBytes
<1>14. bytes \in Nat \ {0} BY <1>2
<1> QED BY <1>1, <1>3, <1>8, <1>12, <1>13, <1>14

LEMMA ReleaseMoves ==
    ASSUME CoordInv, CoordinatorAssumption, NEW r \in Resources, NEW bytes \in Amounts,
           Release(r, bytes), NEW m, m = resources[r].node
    PROVE  /\ m \in Nodes /\ bytes \in Nat \ {0}
           /\ nodes[m].committed - bytes \in 0 .. MaxU
           /\ resources[r].committed - bytes \in 0 .. MaxU
           /\ MoveBytes(r, m, nodes[m].committed - bytes, resources[r].committed - bytes)
<1>1. /\ m \in Nodes /\ resources[r].committed \in 0 .. MaxU
      /\ resources[r].committed <= nodes[m].committed
  BY OwnPart DEF Release
<1>2. bytes \in 1 .. MaxU /\ MaxU \in Nat
  BY DEF CoordinatorAssumption
<1>3. bytes <= resources[r].committed
  BY DEF Release, Owns
<1>4. nodes[m].committed \in 0 .. MaxU
  BY <1>1, NodeType DEF CoordInv
<1>5. nodes[m].committed - bytes \in 0 .. MaxU /\ resources[r].committed - bytes \in 0 .. MaxU
  BY <1>1, <1>2, <1>3, <1>4
<1>6. SaturatingMinus(nodes[m].committed, bytes) = nodes[m].committed - bytes
  BY <1>1, <1>2, <1>3, <1>4 DEF SaturatingMinus
<1>7. nodes' = [nodes EXCEPT ![m].committed = SaturatingMinus(nodes[m].committed, bytes)]
  BY DEF Release, release
<1>8. resources' = [resources EXCEPT ![r].committed = resources[r].committed - bytes]
  BY DEF Release
<1> QED BY <1>1, <1>2, <1>5, <1>6, <1>7, <1>8 DEF MoveBytes

(* A move of delta bytes that the limits above m allow keeps the accounts.  *)
LEMMA MovesInv ==
    ASSUME CoordInv, CoordinatorAssumption, NEW r \in Resources, Registered(r),
           NEW m, m = resources[r].node, NEW delta \in Int,
           nodes[m].committed + delta \in 0 .. MaxU,
           resources[r].committed + delta \in 0 .. MaxU,
           MoveBytes(r, m, nodes[m].committed + delta, resources[r].committed + delta),
           \A n \in Nodes : m \in Subtree(n) => Held(n) + delta <= nodes[n].hard_limit
    PROVE  CoordInv'
<1>1. CoordTypeOK /\ m \in Nodes /\ resources[r].committed \in 0 .. MaxU
  BY OwnPart DEF CoordInv
<1>2. PICK v \in 0 .. MaxU : v = nodes[m].committed + delta
  OBVIOUS
<1>3. PICK w \in 0 .. MaxU : w = resources[r].committed + delta
  OBVIOUS
<1>4. MoveBytes(r, m, v, w)
  BY <1>2, <1>3
<1>5. /\ nodes' = [nodes EXCEPT ![m].committed = v]
      /\ resources' = [resources EXCEPT ![r].committed = w]
  BY <1>4 DEF MoveBytes
<1>6. CoordTypeOK'
  BY <1>1, <1>4, MovesType
<1>7. /\ Nodes' = Nodes
      /\ \A n \in Nodes : /\ nodes'[n].hard_limit = nodes[n].hard_limit
                          /\ nodes'[n].committed = IF n = m THEN v ELSE nodes[n].committed
  BY <1>1, <1>5, OneNodeStep
<1>8. ASSUME NEW q \in Resources, ~Registered(q)' PROVE resources'[q].committed = 0
  <2>1. resources \in [Resources -> [node : Nodes \cup {NoNode}, committed : 0 .. MaxU]]
    BY <1>1 DEF CoordTypeOK
  <2>2. resources'[q].node = resources[q].node
        /\ (q # r => resources'[q].committed = resources[q].committed)
    BY <2>1, <1>5
  <2>3. ~Registered(q)
    BY <1>8, <2>2 DEF Registered
  <2> QED BY <2>2, <2>3 DEF CoordInv
<1>9. ASSUME NEW n \in Nodes
      PROVE  nodes'[n].committed = SumFunctionOnSet(Accounts, At(n))'
  <2>1. PICK s : s = SumFunctionOnSet(Accounts, At(n)) OBVIOUS
  <2>2. PICK t : t = SumFunctionOnSet(Accounts, At(n))' OBVIOUS
  <2>3. nodes[n].committed = s /\ nodes[n].committed \in 0 .. MaxU
    BY <2>1, <1>1, NodeType DEF CoordInv
  <2>4. n = m => t + resources[r].committed = s + w
    BY <2>1, <2>2, <1>1, <1>5, AccountStep
  <2>5. n # m => t = s
    BY <2>1, <2>2, <1>1, <1>5, AccountStep
  <2>6. IsFiniteSet(At(n)') /\ \A q \in At(n)' : Accounts'[q] \in Nat
    <3>1. resources' \in [Resources -> [node : Nodes \cup {NoNode}, committed : 0 .. MaxU]]
      BY <1>6, <1>7 DEF CoordTypeOK
    <3>2. At(n)' \subseteq Resources /\ \A q \in Resources : Accounts'[q] \in Nat
      BY <3>1 DEF At, Accounts
    <3> QED BY <3>2, FS_Subset DEF CoordinatorAssumption
  <2>7. SumFunctionOnSet(Accounts', At(n)') \in Nat
    BY <2>6, SumType
  <2>8. t \in Nat
    BY <2>2, <2>7
  <2>9. nodes'[n].committed = t
    <3>1. CASE n = m
      <4>1. nodes'[n].committed = v BY <1>7, <3>1
      <4>2. t + resources[r].committed = s + w BY <2>4, <3>1
      <4>3. v = nodes[n].committed + delta BY <1>2, <3>1
      <4> QED BY <4>1, <4>2, <4>3, <2>3, <2>8, <1>1, <1>3
    <3>2. CASE n # m BY <3>2, <1>7, <2>3, <2>5
    <3> QED BY <3>1, <3>2
  <2> QED BY <2>2, <2>9
<1>10. ASSUME NEW n \in Nodes PROVE Held(n)' <= nodes'[n].hard_limit
  <2>1. /\ IF m \in Subtree(n) THEN Held(n)' + nodes[m].committed = Held(n) + v
                               ELSE Held(n)' = Held(n)
        /\ Held(n)' \in Nat
    BY <1>1, <1>5, HeldStep
  <2>2. Held(n) \in Nat /\ nodes[m].committed \in 0 .. MaxU
    BY <1>1, SubtreeFacts, NodeType
  <2>3. CASE m \in Subtree(n)
    <3>1. Held(n) + delta <= nodes[n].hard_limit BY <2>3
    <3>2. Held(n)' = Held(n) + delta BY <2>1, <2>2, <2>3, <1>2
    <3> QED BY <3>1, <3>2, <1>7
  <2>4. CASE m \notin Subtree(n)
    BY <2>1, <2>4, <1>7 DEF CoordInv
  <2> QED BY <2>3, <2>4
<1>11. /\ \A q \in Resources : ~Registered(q)' => resources'[q].committed = 0
       /\ \A n \in Nodes : nodes'[n].committed = SumFunctionOnSet(Accounts, At(n))'
       /\ \A n \in Nodes : Held(n)' <= nodes'[n].hard_limit
  BY <1>8, <1>9, <1>10
<1> QED BY <1>6, <1>7, <1>11 DEF CoordInv

LEMMA CommitInv ==
    ASSUME CoordInv, CoordinatorAssumption, NEW r \in Resources, NEW bytes \in Amounts,
           commit(r, bytes)
    PROVE  CoordInv'
<1>1. PICK m : m = resources[r].node OBVIOUS
<1>2. /\ m \in Nodes /\ bytes \in Nat \ {0} /\ CanCommit(m, bytes)
      /\ nodes[m].committed + bytes \in 0 .. MaxU
      /\ resources[r].committed + bytes \in 0 .. MaxU
      /\ MoveBytes(r, m, nodes[m].committed + bytes, resources[r].committed + bytes)
  BY <1>1, CommitMoves
<1>3. Registered(r) BY DEF commit
<1>4. ASSUME NEW n \in Nodes, m \in Subtree(n) PROVE Held(n) + bytes <= nodes[n].hard_limit
  <2>1. CoordTypeOK /\ Held(n) <= nodes[n].hard_limit
    BY DEF CoordInv
  <2>2. bytes <= headroom(n)
    BY <1>2, <1>4, <2>1, CommitChecked
  <2> QED BY <1>2, <2>1, <2>2, Headroom
<1>5. bytes \in Int BY <1>2
<1> QED BY <1>1, <1>2, <1>3, <1>4, <1>5, MovesInv

LEMMA ReleaseInv ==
    ASSUME CoordInv, CoordinatorAssumption, NEW r \in Resources, NEW bytes \in Amounts,
           Release(r, bytes)
    PROVE  CoordInv'
<1>1. PICK m : m = resources[r].node OBVIOUS
<1>2. /\ m \in Nodes /\ bytes \in Nat \ {0}
      /\ nodes[m].committed - bytes \in 0 .. MaxU
      /\ resources[r].committed - bytes \in 0 .. MaxU
      /\ MoveBytes(r, m, nodes[m].committed - bytes, resources[r].committed - bytes)
  BY <1>1, ReleaseMoves
<1>3. Registered(r) BY DEF Release
<1>4. PICK delta \in Int : delta = 0 - bytes BY <1>2
<1>5. nodes[m].committed \in 0 .. MaxU /\ resources[r].committed \in 0 .. MaxU
  BY <1>1, <1>2, <1>3, NodeType, OwnPart DEF CoordInv
<1>6. /\ nodes[m].committed - bytes = nodes[m].committed + delta
      /\ resources[r].committed - bytes = resources[r].committed + delta
  BY <1>2, <1>4, <1>5
<1>7. ASSUME NEW n \in Nodes PROVE Held(n) + delta <= nodes[n].hard_limit
  <2>1. Held(n) <= nodes[n].hard_limit /\ CoordTypeOK BY DEF CoordInv
  <2>2. Held(n) \in Nat /\ nodes[n].hard_limit \in 0 .. MaxU BY <2>1, SubtreeFacts, NodeType
  <2> QED BY <2>1, <2>2, <1>2, <1>4
<1>8. /\ nodes[m].committed + delta \in 0 .. MaxU
      /\ resources[r].committed + delta \in 0 .. MaxU
      /\ MoveBytes(r, m, nodes[m].committed + delta, resources[r].committed + delta)
  BY <1>2, <1>6
<1> QED BY <1>1, <1>3, <1>4, <1>7, <1>8, MovesInv

LEMMA RegisterInv ==
    ASSUME CoordInv, CoordinatorAssumption, NEW r \in Resources, NEW m \in Nodes,
           register(r, m)
    PROVE  CoordInv'
<1>1. /\ resources[r].node = NoNode /\ resources' = [resources EXCEPT ![r].node = m]
      /\ nodes' = nodes /\ CoordTypeOK
  BY DEF register, Registered, CoordInv
<1>2. resources \in [Resources -> [node : Nodes \cup {NoNode}, committed : 0 .. MaxU]]
  BY <1>1 DEF CoordTypeOK
<1>3. \A q \in Resources :
        /\ resources'[q].committed = resources[q].committed
        /\ resources'[q].node = IF q = r THEN m ELSE resources[q].node
  BY <1>1, <1>2
<1>4. Nodes' = Nodes /\ (\A n : Subtree(n)' = Subtree(n)) /\ Own' = Own /\ Up' = Up
  BY <1>1 DEF Nodes, Subtree, Own, Up, is_descendant, Ancestors
<1>5. CoordTypeOK'
  <2>1. resources' \in [Resources -> [node : Nodes \cup {NoNode}, committed : 0 .. MaxU]]
    BY <1>1, <1>2
  <2> QED BY <2>1, <1>1, <1>4 DEF CoordTypeOK
<1>6. Accounts' = Accounts
  BY <1>3 DEF Accounts
<1>7. resources[r].committed = 0
  BY <1>1 DEF CoordInv, Registered
<1>8. ASSUME NEW n \in Nodes
      PROVE  nodes'[n].committed = SumFunctionOnSet(Accounts, At(n))'
  <2>1. IsFiniteSet(At(n)) /\ \A q \in Resources : Accounts[q] \in Nat
    <3>1. At(n) \subseteq Resources BY DEF At
    <3>2. \A q \in Resources : Accounts[q] \in Nat BY <1>2 DEF Accounts
    <3> QED BY <3>1, <3>2, FS_Subset DEF CoordinatorAssumption
  <2>2. NoNode \notin Nodes
    BY <1>1, NodeType DEF CoordTypeOK, CoordinatorAssumption
  <2>3. r \notin At(n)
    BY <1>1, <2>2 DEF At
  <2>4. CASE n = m
    <3>1. At(n)' = At(n) \cup {r}
      BY <1>3, <2>4 DEF At
    <3>2. SumFunctionOnSet(Accounts, At(n) \cup {r}) = Accounts[r] + SumFunctionOnSet(Accounts, At(n))
      <4>1. \A y \in At(n) \cup {r} : Accounts[y] \in Nat BY <2>1 DEF At
      <4> QED BY <4>1, <2>1, <2>3, SumAdd
    <3>3. Accounts[r] = 0 BY <1>7 DEF Accounts
    <3>4. nodes[n].committed = SumFunctionOnSet(Accounts, At(n)) /\ nodes[n].committed \in 0 .. MaxU
      BY <1>1, NodeType DEF CoordInv
    <3>5. SumFunctionOnSet(Accounts, At(n) \cup {r}) = nodes[n].committed
      BY <3>2, <3>3, <3>4
    <3> QED BY <3>1, <3>5, <1>1, <1>6
  <2>5. CASE n # m
    <3>1. At(n)' = At(n)
      BY <1>3, <2>3, <2>5 DEF At
    <3> QED BY <3>1, <1>1, <1>6 DEF CoordInv
  <2> QED BY <2>4, <2>5
<1>9. ASSUME NEW n \in Nodes PROVE Held(n)' <= nodes'[n].hard_limit
  <2>1. Held(n)' = Held(n) BY <1>4 DEF Held
  <2> QED BY <2>1, <1>1 DEF CoordInv
<1>10. ASSUME NEW q \in Resources, ~Registered(q)' PROVE resources'[q].committed = 0
  <2>1. CASE q = r BY <2>1, <1>3, <1>7
  <2>2. CASE q # r
    <3>1. ~Registered(q) BY <1>3, <1>10, <2>2 DEF Registered
    <3> QED BY <3>1, <1>3 DEF CoordInv
  <2> QED BY <2>1, <2>2
<1>11. /\ \A q \in Resources : ~Registered(q)' => resources'[q].committed = 0
       /\ \A n \in Nodes : nodes'[n].committed = SumFunctionOnSet(Accounts, At(n))'
       /\ \A n \in Nodes : Held(n)' <= nodes'[n].hard_limit
  BY <1>8, <1>9, <1>10
<1> QED BY <1>4, <1>5, <1>11 DEF CoordInv

(* A node is added while nothing is committed anywhere.                     *)
LEMMA AddInv ==
    ASSUME CoordInv, CoordinatorAssumption, TopologySetup, NEW p \in 0 .. Len(nodes),
           NEW limit \in NodeLimits, NEW reserved \in Reservations,
           nodes' = Append(nodes, BudgetNode(p, limit, reserved))
    PROVE  CoordInv'
<1>1. PICK b : b = BudgetNode(p, limit, reserved) OBVIOUS
<1>2. CoordTypeOK /\ resources' = resources /\ Len(nodes) < MaxNodes
      /\ \A r \in Resources : resources[r].committed = 0
  BY DEF CoordInv, TopologySetup
<1>3. Len(nodes) \in Nat /\ Nodes = 1 .. Len(nodes) /\ nodes \in Seq(Node)
  BY <1>2, NodeType DEF CoordTypeOK
<1>4. b \in Node /\ b.parent = p /\ b.committed = 0 /\ b.hard_limit = limit
  <2>1. limit \in 0 .. MaxU /\ reserved \in 0 .. MaxU /\ MaxU \in Nat /\ MaxNodes \in Nat
    BY DEF CoordinatorAssumption
  <2>2. p \in 0 .. MaxNodes BY <1>2, <1>3, <2>1
  <2> QED BY <1>1, <2>1, <2>2 DEF BudgetNode, Node
<1>5. nodes' = Append(nodes, b) BY <1>1
<1>6. /\ nodes' \in Seq(Node) /\ Len(nodes') = Len(nodes) + 1
      /\ nodes'[Len(nodes) + 1] = b /\ \A n \in Nodes : nodes'[n] = nodes[n]
  BY <1>3, <1>4, <1>5, AppendProperties
<1>7. Nodes' = Nodes \cup {Len(nodes) + 1}
  BY <1>3, <1>6 DEF Nodes
<1>8. CoordTypeOK'
  <2>1. \A n \in Nodes' : nodes'[n].parent < n
    BY <1>2, <1>3, <1>4, <1>6, <1>7, NodeType
  <2>2. resources' \in [Resources -> [node : Nodes' \cup {NoNode}, committed : 0 .. MaxU]]
    BY <1>2, <1>7 DEF CoordTypeOK
  <2>3. Len(nodes') <= MaxNodes
    BY <1>2, <1>3, <1>6 DEF CoordinatorAssumption
  <2> QED BY <1>6, <2>1, <2>2, <2>3 DEF CoordTypeOK
<1>9. Accounts' = Accounts /\ \A r \in Resources : Accounts[r] = 0
  BY <1>2 DEF Accounts
<1>10. \A S \in SUBSET Resources : SumFunctionOnSet(Accounts, S) = 0
  BY <1>9, FS_Subset, SumZero DEF CoordinatorAssumption
<1>11. \A n \in Nodes' : nodes'[n].committed = 0
  <2>1. \A n \in Nodes : nodes[n].committed = 0
    BY <1>10 DEF CoordInv, At
  <2> QED BY <2>1, <1>4, <1>6, <1>7
<1>12. ASSUME NEW n \in Nodes' PROVE nodes'[n].committed = SumFunctionOnSet(Accounts, At(n))'
  <2>1. At(n)' \in SUBSET Resources BY DEF At
  <2>2. SumFunctionOnSet(Accounts', At(n)') = 0 BY <2>1, <1>9, <1>10
  <2> QED BY <2>2, <1>11
<1>13. ASSUME NEW n \in Nodes' PROVE Held(n)' <= nodes'[n].hard_limit
  <2>1. Subtree(n)' \subseteq Nodes' BY DEF Subtree
  <2>2. IsFiniteSet(Subtree(n)')
    <3>1. IsFiniteSet(Nodes') BY <1>3, <1>6, FS_Interval DEF Nodes
    <3> QED BY <3>1, <2>1, FS_Subset
  <2>3. \A i \in Subtree(n)' : Own'[i] = 0 BY <2>1, <1>11 DEF Own
  <2>4. SumFunctionOnSet(Own', Subtree(n)') = 0 BY <2>2, <2>3, SumZero
  <2>5. Held(n)' = 0 BY <2>4 DEF Held
  <2>6. nodes'[n].hard_limit \in 0 .. MaxU
    <3>1. nodes'[n] \in Node BY <1>6, ElementOfSeq DEF Nodes
    <3> QED BY <3>1 DEF Node
  <2>7. \A x \in 0 .. MaxU : 0 <= x BY CoordinatorAssumption DEF CoordinatorAssumption
  <2>8. 0 <= nodes'[n].hard_limit BY <2>6, <2>7, Zenon
  <2> QED BY <2>5, <2>8, Zenon
<1>14. \A q \in Resources : ~Registered(q)' => resources'[q].committed = 0
  BY <1>2
<1>15. /\ \A n \in Nodes' : nodes'[n].committed = SumFunctionOnSet(Accounts, At(n))'
       /\ \A n \in Nodes' : Held(n)' <= nodes'[n].hard_limit
  BY <1>12, <1>13
<1> QED BY <1>8, <1>14, <1>15 DEF CoordInv

LEMMA CoordStutter ==
    ASSUME CoordInv, UNCHANGED coordVars
    PROVE  CoordInv'
<1>1. nodes' = nodes /\ resources' = resources BY DEF coordVars
<1>2. Nodes' = Nodes /\ Own' = Own /\ Accounts' = Accounts
      /\ (\A n : Subtree(n)' = Subtree(n)) /\ (\A n : At(n)' = At(n))
  BY <1>1 DEF Nodes, Own, Accounts, Subtree, is_descendant, Ancestors, At
<1>3. \A n : Held(n)' = Held(n)
  BY <1>2 DEF Held
<1>4. CoordTypeOK'
  BY <1>1, <1>2 DEF CoordInv, CoordTypeOK
<1> QED BY <1>1, <1>2, <1>3, <1>4 DEF CoordInv, Registered

LEMMA CoordInvNext ==
    ASSUME CoordInv, CoordinatorAssumption, [CoordNext]_coordVars
    PROVE  CoordInv'
<1>1. ASSUME NEW limit \in NodeLimits, NEW reserved \in Reservations, add_root(limit, reserved)
      PROVE  CoordInv'
  <2>1. NoParent \in 0 .. Len(nodes)
    BY NodeType DEF CoordInv, NoParent
  <2> QED BY <1>1, <2>1, AddInv DEF add_root
<1>2. ASSUME NEW limit \in NodeLimits, NEW reserved \in Reservations, NEW p \in Nodes,
             add_child(p, limit, reserved)
      PROVE  CoordInv'
  <2>1. p \in 0 .. Len(nodes)
    BY NodeType DEF CoordInv
  <2> QED BY <1>2, <2>1, AddInv DEF add_child
<1>3. ASSUME NEW r \in Resources, NEW n \in Nodes, register(r, n) PROVE CoordInv'
  BY <1>3, RegisterInv
<1>4. ASSUME NEW r \in Resources, NEW bytes \in Amounts, commit(r, bytes) PROVE CoordInv'
  BY <1>4, CommitInv
<1>5. ASSUME NEW r \in Resources, NEW bytes \in Amounts, Release(r, bytes) PROVE CoordInv'
  BY <1>5, ReleaseInv
<1>6. CASE UNCHANGED coordVars
  BY <1>6, CoordStutter
<1> QED BY <1>1, <1>2, <1>3, <1>4, <1>5, <1>6 DEF CoordNext

LEMMA CoordInvInit ==
    ASSUME CoordInit, CoordinatorAssumption PROVE CoordInv
<1>1. nodes = <<>> /\ resources = [r \in Resources |-> [node |-> NoNode, committed |-> 0]]
  BY DEF CoordInit
<1>2. Len(nodes) = 0 /\ nodes \in Seq(Node)
  BY <1>1
<1>3. Nodes = {}
  BY <1>2 DEF Nodes
<1>4. CoordTypeOK
  BY <1>1, <1>2, <1>3 DEF CoordTypeOK, CoordinatorAssumption
<1> QED BY <1>1, <1>3, <1>4 DEF CoordInv

(* For every forest, every set of resources and all limits and amounts: the *)
(* accounts of tree and resources agree after every call, and no subtree    *)
(* exceeds its limit at any level.                                          *)
THEOREM CoordinatorAccounts == CoordSpec => []OwnedExactly
<1>1. CoordInv => OwnedExactly
  <2> SUFFICES ASSUME CoordInv, NEW n \in Nodes
               PROVE  /\ nodes[n].committed = SumFunctionOnSet(Accounts, At(n))
                      /\ committed_with_descendants(n) <= nodes[n].hard_limit
    BY DEF OwnedExactly, Accounts
  <2>1. CoordTypeOK /\ Held(n) <= nodes[n].hard_limit
        /\ nodes[n].committed = SumFunctionOnSet(Accounts, At(n))
    BY DEF CoordInv
  <2>2. committed_with_descendants(n) = Held(n)
    BY <2>1, Counted, CoordinatorAssumption
  <2> QED BY <2>1, <2>2
<1>2. CoordInit => CoordInv
  BY CoordInvInit, CoordinatorAssumption
<1>3. CoordInv /\ [CoordNext]_coordVars => CoordInv'
  BY CoordInvNext, CoordinatorAssumption
<1> QED BY <1>1, <1>2, <1>3, PTL DEF CoordSpec

-----------------------------------------------------------------------------
(* Reservations of the siblings.                                            *)

(* A subtree contains the subtrees of its children.                         *)
LEMMA ChildBelow ==
    ASSUME CoordTypeOK, NEW p \in Nodes, NEW c \in Children(p), NEW m \in Subtree(c)
    PROVE  m \in Subtree(p) /\ m # p
<1>1. /\ Forest(Up, Len(nodes)) /\ Ancestors = AncestorsOf(Up) /\ Len(nodes) \in Nat
      /\ Nodes = 1 .. Len(nodes)
  BY TreeIsForest, NodeType
<1>2. c \in Nodes /\ Up[c] = p /\ m \in Nodes /\ (m = c \/ c \in Ancestors[m])
  BY DEF Children, Subtree, is_descendant, Up
<1>3. p # NoParent BY <1>1 DEF NoParent
<1>4. p \in Ancestors[c]
  BY <1>1, <1>2, <1>3, AncestorsStep
<1>5. Chain(Ancestors, Up, m)
  BY <1>1, <1>2, AncestorsChain
<1>6. p \in Ancestors[m]
  BY <1>2, <1>4, <1>5 DEF Chain
<1>7. p < m
  BY <1>1, <1>2, <1>5, <1>6 DEF Chain
<1> QED BY <1>1, <1>2, <1>6, <1>7 DEF Subtree, is_descendant

(* A node below p is below one child of p only.                             *)
LEMMA OneChildAbove ==
    ASSUME CoordTypeOK, NEW p \in Nodes, NEW m \in Nodes,
           NEW c \in Children(p), NEW d \in Children(p), m \in Subtree(c), m \in Subtree(d)
    PROVE  c = d
<1>1. /\ Forest(Up, Len(nodes)) /\ Ancestors = AncestorsOf(Up) /\ Len(nodes) \in Nat
      /\ Nodes = 1 .. Len(nodes)
  BY TreeIsForest, NodeType
<1>2. c \in {m} \cup Ancestors[m] /\ d \in {m} \cup Ancestors[m]
  BY DEF Subtree, is_descendant
<1>3. Up[c] = p /\ Up[d] = p
  BY DEF Children, Up
<1>4. p # NoParent BY <1>1 DEF NoParent
<1> QED BY <1>1, <1>2, <1>3, <1>4, ChainChild

LEMMA ChildAbove ==
    ASSUME CoordTypeOK, NEW p \in Nodes, NEW m \in Subtree(p), m # p
    PROVE  \E c \in Children(p) : m \in Subtree(c)
<1>1. /\ Forest(Up, Len(nodes)) /\ Ancestors = AncestorsOf(Up) /\ Len(nodes) \in Nat
      /\ Nodes = 1 .. Len(nodes)
  BY TreeIsForest, NodeType
<1>2. m \in Nodes /\ p \in Ancestors[m]
  BY DEF Subtree, is_descendant
<1>3. Chain(Ancestors, Up, m)
  BY <1>1, <1>2, AncestorsChain
<1>4. PICK c \in {m} \cup Ancestors[m] : Up[c] = p
  BY <1>2, <1>3 DEF Chain
<1>5. c \in Nodes
  BY <1>1, <1>2, <1>3, <1>4 DEF Chain
<1>6. c \in Children(p)
  BY <1>4, <1>5 DEF Children, Up
<1>7. m \in Subtree(c)
  BY <1>2, <1>4 DEF Subtree, is_descendant
<1> QED BY <1>6, <1>7

Spare == [n \in Nodes |-> UnusedReservation(n)]

(* The claims of p's children, in exact sums.                               *)
Claims(p) == SumFunctionOnSet(Spare, Children(p))

SpareOK ==
    \A n \in Nodes :
        /\ Spare[n] \in Nat
        /\ Spare[n] = IF nodes[n].reservation > Held(n)
                      THEN nodes[n].reservation - Held(n) ELSE 0
        /\ Held(n) \in 0 .. MaxU /\ nodes[n].reservation \in 0 .. MaxU
        /\ Coverable(n) <=> Held(n) + Claims(n) <= nodes[n].hard_limit

LEMMA SpareFacts == CoordInv => SpareOK
<1> SUFFICES ASSUME CoordInv, NEW n \in Nodes
             PROVE  /\ Spare[n] \in Nat
                    /\ Spare[n] = IF nodes[n].reservation > Held(n)
                                  THEN nodes[n].reservation - Held(n) ELSE 0
                    /\ Held(n) \in 0 .. MaxU /\ nodes[n].reservation \in 0 .. MaxU
                    /\ Coverable(n) <=> Held(n) + Claims(n) <= nodes[n].hard_limit
  BY DEF SpareOK
<1>1. CoordTypeOK /\ Held(n) <= nodes[n].hard_limit
  BY DEF CoordInv
<1>2. committed_with_descendants(n) = Held(n) /\ Held(n) \in 0 .. MaxU
  BY <1>1, Counted, CoordinatorAssumption
<1>3. nodes[n].reservation \in 0 .. MaxU
  BY <1>1, NodeType
<1>4. Spare[n] = IF nodes[n].reservation > Held(n)
                           THEN nodes[n].reservation - Held(n) ELSE 0
  BY <1>2 DEF Spare, UnusedReservation, SaturatingMinus
<1>5. Spare[n] \in Nat
  BY <1>2, <1>3, <1>4, CoordinatorAssumption DEF CoordinatorAssumption
<1>6. Coverable(n) <=> Held(n) + Claims(n) <= nodes[n].hard_limit
  BY <1>2, Zenon DEF Coverable, Claims, Spare, Unused
<1> QED BY <1>2, <1>3, <1>4, <1>5, <1>6

(* A move at m, seen from p: only subtrees that contain m change.           *)
LEMMA MovesSpare ==
    ASSUME CoordInv, CoordInv', CoordinatorAssumption, NEW m \in Nodes, NEW v \in 0 .. MaxU,
           nodes' = [nodes EXCEPT ![m].committed = v],
           NEW n \in Nodes
    PROVE  /\ Children(n)' = Children(n) /\ nodes'[n].hard_limit = nodes[n].hard_limit
           /\ Spare'[n] = IF nodes[n].reservation > Held(n)'
                          THEN nodes[n].reservation - Held(n)' ELSE 0
           /\ Spare'[n] \in Nat
           /\ m \in Subtree(n) => Held(n)' + nodes[m].committed = Held(n) + v
           /\ m \notin Subtree(n) => Held(n)' = Held(n) /\ Spare'[n] = Spare[n]
           /\ Coverable(n)' <=> Held(n)' + Claims(n)' <= nodes[n].hard_limit
<1>1. /\ Nodes' = Nodes
      /\ \A i \in Nodes : /\ nodes'[i].parent = nodes[i].parent
                          /\ nodes'[i].hard_limit = nodes[i].hard_limit
                          /\ nodes'[i].reservation = nodes[i].reservation
  BY OneNodeStep DEF CoordInv
<1>2. Children(n)' = Children(n)
  BY <1>1 DEF Children
<1>3. SpareOK
  BY SpareFacts
<1>4. CoordInv' => SpareOK'
  BY SpareFacts, PTL
<1>5. Spare[n] = IF nodes[n].reservation > Held(n)
                 THEN nodes[n].reservation - Held(n) ELSE 0
  BY <1>3 DEF SpareOK
<1>6. /\ Spare'[n] \in Nat
      /\ Spare'[n] = IF nodes[n].reservation > Held(n)'
                     THEN nodes[n].reservation - Held(n)' ELSE 0
      /\ Coverable(n)' <=> Held(n)' + Claims(n)' <= nodes[n].hard_limit
  BY <1>1, <1>4 DEF SpareOK
<1>7. IF m \in Subtree(n) THEN Held(n)' + nodes[m].committed = Held(n) + v
                          ELSE Held(n)' = Held(n)
  BY HeldStep DEF CoordInv
<1>8. m \notin Subtree(n) => Held(n)' = Held(n) /\ Spare'[n] = Spare[n]
  BY <1>5, <1>6, <1>7
<1> QED BY <1>1, <1>2, <1>6, <1>7, <1>8

(* Nothing changes for p when m is not below it; otherwise one child's claim *)
(* does, and p's own holding.                                                *)
LEMMA MovesClaims ==
    ASSUME CoordInv, CoordInv', CoordinatorAssumption, NEW m \in Nodes, NEW v \in 0 .. MaxU,
           nodes' = [nodes EXCEPT ![m].committed = v],
           NEW p \in Nodes
    PROVE  /\ Claims(p) \in Nat /\ Claims(p)' \in Nat
           /\ m \notin Subtree(p) => Claims(p)' = Claims(p)
           /\ \A c \in Children(p) : m \in Subtree(c) =>
                 Claims(p)' + Spare[c] = Claims(p) + Spare'[c]
<1>1. CoordTypeOK /\ SpareOK
  BY SpareFacts DEF CoordInv
<1>2. Children(p) \subseteq Nodes /\ IsFiniteSet(Children(p))
  BY <1>1, NodeType, FS_Subset DEF Children
<1>3. \A c \in Children(p) : Spare[c] \in Nat /\ Spare'[c] \in Nat
  BY <1>1, <1>2, MovesSpare DEF SpareOK
<1>4. Claims(p)' = SumFunctionOnSet(Spare', Children(p))
  BY MovesSpare DEF Claims
<1>5. Claims(p) \in Nat /\ Claims(p)' \in Nat
  <2>1. SumFunctionOnSet(Spare, Children(p)) \in Nat BY <1>2, <1>3, SumType
  <2>2. SumFunctionOnSet(Spare', Children(p)) \in Nat BY <1>2, <1>3, SumType
  <2> QED BY <2>1, <2>2, <1>4 DEF Claims
<1>6. ASSUME m \notin Subtree(p) PROVE Claims(p)' = Claims(p)
  <2>1. \A c \in Children(p) : m \notin Subtree(c)
    BY <1>1, <1>6, ChildBelow
  <2>2. \A c \in Children(p) : Spare'[c] = Spare[c]
    BY <2>1, <1>2, MovesSpare
  <2>3. SumFunctionOnSet(Spare', Children(p)) = SumFunctionOnSet(Spare, Children(p))
    BY <2>2, <1>2, SumCong
  <2> QED BY <2>3, <1>4 DEF Claims
<1>7. ASSUME NEW c \in Children(p), m \in Subtree(c)
      PROVE  Claims(p)' + Spare[c] = Claims(p) + Spare'[c]
  <2>1. \A d \in Children(p) : d # c => m \notin Subtree(d)
    BY <1>1, <1>7, OneChildAbove
  <2>2. \A d \in Children(p) : d # c => Spare[d] = Spare'[d]
    BY <2>1, <1>2, MovesSpare
  <2>3. SumFunctionOnSet(Spare', Children(p)) + Spare[c]
            = SumFunctionOnSet(Spare, Children(p)) + Spare'[c]
    BY <2>2, <1>2, <1>3, SumChange
  <2> QED BY <2>3, <1>4 DEF Claims
<1> QED BY <1>5, <1>6, <1>7

LEMMA CommitSiblings ==
    ASSUME CoordInv, CoordInv', CoordinatorAssumption, NEW r \in Resources,
           NEW bytes \in Amounts, commit(r, bytes), NEW p \in Nodes,
           Coverable(p), nodes'[p].committed = nodes[p].committed
    PROVE  Coverable(p)'
<1>1. PICK m : m = resources[r].node OBVIOUS
<1>2. /\ m \in Nodes /\ bytes \in Nat \ {0} /\ CanCommit(m, bytes)
      /\ nodes[m].committed + bytes \in 0 .. MaxU
      /\ MoveBytes(r, m, nodes[m].committed + bytes, resources[r].committed + bytes)
  BY <1>1, CommitMoves
<1>3. PICK v \in 0 .. MaxU : v = nodes[m].committed + bytes BY <1>2
<1>4. nodes' = [nodes EXCEPT ![m].committed = v] BY <1>2, <1>3 DEF MoveBytes
<1>5. CoordTypeOK /\ SpareOK BY SpareFacts DEF CoordInv
<1>6. Held(p) + Claims(p) <= nodes[p].hard_limit BY <1>5 DEF SpareOK
<1>7. /\ Coverable(p)' <=> Held(p)' + Claims(p)' <= nodes[p].hard_limit
      /\ m \in Subtree(p) => Held(p)' + nodes[m].committed = Held(p) + v
      /\ m \notin Subtree(p) => Held(p)' = Held(p)
  BY <1>2, <1>4, MovesSpare
<1>8. /\ Claims(p) \in Nat /\ Claims(p)' \in Nat
      /\ m \notin Subtree(p) => Claims(p)' = Claims(p)
  BY <1>2, <1>4, MovesClaims
<1>9. CASE m \notin Subtree(p)
  BY <1>6, <1>7, <1>8, <1>9
<1>10. CASE m \in Subtree(p)
  <2>1. m # p
    <3>0. \A n \in Nodes : nodes'[n].committed = IF n = m THEN v ELSE nodes[n].committed
      BY <1>2, <1>4, <1>5, OneNodeStep
    <3>1. nodes'[m].committed = v BY <1>2, <3>0
    <3>2. v # nodes[m].committed
      BY <1>2, <1>3, <1>5, NodeType
    <3> QED BY <3>1, <3>2
  <2>2. PICK c \in {m} \cup Ancestors[m] :
            nodes[c].parent = p /\ KeepsReservations(p, c, bytes)
    BY <1>2, <1>5, <1>10, <2>1, CommitChecked
  <2>3. PICK d \in Children(p) : m \in Subtree(d)
    BY <1>5, <1>10, <2>1, ChildAbove
  <2>4. d = c
    <3>1. /\ Forest(Up, Len(nodes)) /\ Ancestors = AncestorsOf(Up) /\ Len(nodes) \in Nat
          /\ Nodes = 1 .. Len(nodes)
      BY <1>5, TreeIsForest, NodeType
    <3>2. Chain(Ancestors, Up, m) BY <3>1, <1>2, AncestorsChain
    <3>3. c \in Nodes BY <3>1, <3>2, <1>2, <2>2 DEF Chain
    <3>4. c \in Children(p) /\ m \in Subtree(c)
      BY <3>3, <1>2, <2>2 DEF Children, Subtree, is_descendant
    <3> QED BY <3>4, <2>3, <1>2, <1>5, OneChildAbove
  <2>5. d \in Nodes BY DEF Children
  <2>6. /\ Held(d)' + nodes[m].committed = Held(d) + v /\ Spare'[d] \in Nat
        /\ Spare'[d] = IF nodes[d].reservation > Held(d)'
                       THEN nodes[d].reservation - Held(d)' ELSE 0
    BY <2>3, <2>5, <1>2, <1>4, MovesSpare
  <2>7. Claims(p)' + Spare[d] = Claims(p) + Spare'[d]
    BY <2>3, <1>2, <1>4, MovesClaims
  <2>8. /\ Spare[d] = IF nodes[d].reservation > Held(d)
                      THEN nodes[d].reservation - Held(d) ELSE 0
        /\ Spare[d] \in Nat /\ Held(d) \in Nat /\ Held(p) \in Nat
        /\ nodes[d].reservation \in Nat
    BY <2>5, <1>5 DEF SpareOK
  <2>9. nodes[m].committed \in Nat /\ nodes[p].hard_limit \in 0 .. MaxU
        /\ nodes[p].hard_limit \in Nat /\ MaxU \in Nat
    BY <1>2, <1>5, NodeType DEF CoordinatorAssumption
  <2>10. Held(p)' = Held(p) + bytes /\ Held(d)' = Held(d) + bytes
    <3>1. Held(p)' \in Nat /\ Held(d)' \in Nat
      BY <1>2, <1>4, <1>5, <2>5, HeldStep
    <3> QED BY <3>1, <1>2, <1>3, <1>7, <1>10, <2>6, <2>8, <2>9
  <2>11. CASE Spare'[d] > 0
    <3>1. Spare'[d] + bytes = Spare[d]
      BY <2>6, <2>8, <2>10, <2>11, <1>2
    <3>2. Claims(p)' + bytes = Claims(p)
      BY <3>1, <2>6, <2>7, <2>8, <1>2, <1>8
    <3> QED BY <3>2, <1>2, <1>6, <1>7, <1>8, <2>8, <2>9, <2>10
  <2>12. CASE Spare'[d] = 0
    <3>1. Held(p) + bytes <= nodes[p].hard_limit
      <4>1. Held(p) <= nodes[p].hard_limit BY DEF CoordInv
      <4>2. bytes <= headroom(p) BY <1>2, <1>5, <1>10, CommitChecked
      <4> QED BY <4>1, <4>2, <1>2, <1>5, Headroom
    <3>2. Unused(Children(p) \ {d}) = Claims(p)'
      <4>1. Children(p) \subseteq Nodes /\ IsFiniteSet(Children(p))
        BY <1>5, NodeType, FS_Subset DEF Children
      <4>2. \A i \in Children(p) : Spare[i] \in Nat BY <4>1, <1>5 DEF SpareOK
      <4>3. SumFunctionOnSet(Spare, Children(p))
                = Spare[d] + SumFunctionOnSet(Spare, Children(p) \ {d})
            /\ SumFunctionOnSet(Spare, Children(p) \ {d}) \in Nat
        BY <4>1, <4>2, SumTake
      <4>4. Unused(Children(p) \ {d}) = SumFunctionOnSet(Spare, Children(p) \ {d})
        BY DEF Unused, Spare
      <4>5. Claims(p) = SumFunctionOnSet(Spare, Children(p)) BY DEF Claims
      <4> QED BY <4>3, <4>4, <4>5, <2>7, <2>8, <2>12, <1>8
    <3>3. committed_with_descendants(p) = Held(p)
      BY <1>5, Counted DEF CoordInv
    <3>4. Saturating(Unused(Children(p) \ {d}))
            <= SaturatingMinus(nodes[p].hard_limit, Saturating(Held(p) + bytes))
      BY <3>3, <2>2, <2>4 DEF KeepsReservations, Protected
    <3>5. Saturating(Held(p) + bytes) = Held(p) + bytes
      BY <3>1, <1>2, <2>8, <2>9 DEF Saturating
    <3>6. SaturatingMinus(nodes[p].hard_limit, Held(p) + bytes)
            = nodes[p].hard_limit - (Held(p) + bytes)
      BY <3>1, <1>2, <2>8, <2>9 DEF SaturatingMinus
    <3>7. Saturating(Claims(p)') <= nodes[p].hard_limit - (Held(p) + bytes)
      BY <3>2, <3>4, <3>5, <3>6
    <3>8. Claims(p)' <= nodes[p].hard_limit - (Held(p) + bytes)
      BY <3>7, <1>2, <1>8, <2>8, <2>9 DEF Saturating
    <3> QED BY <3>8, <1>2, <1>7, <1>8, <2>8, <2>9, <2>10
  <2> QED BY <2>6, <2>11, <2>12
<1> QED BY <1>9, <1>10

LEMMA ReleaseSiblings ==
    ASSUME CoordInv, CoordInv', CoordinatorAssumption, NEW r \in Resources,
           NEW bytes \in Amounts, Release(r, bytes), NEW p \in Nodes,
           Coverable(p), nodes'[p].committed = nodes[p].committed
    PROVE  Coverable(p)'
<1>1. PICK m : m = resources[r].node OBVIOUS
<1>2. /\ m \in Nodes /\ bytes \in Nat \ {0}
      /\ nodes[m].committed - bytes \in 0 .. MaxU
      /\ MoveBytes(r, m, nodes[m].committed - bytes, resources[r].committed - bytes)
  BY <1>1, ReleaseMoves
<1>3. PICK v \in 0 .. MaxU : v = nodes[m].committed - bytes BY <1>2
<1>4. nodes' = [nodes EXCEPT ![m].committed = v] BY <1>2, <1>3 DEF MoveBytes
<1>5. CoordTypeOK /\ SpareOK BY SpareFacts DEF CoordInv
<1>6. Held(p) + Claims(p) <= nodes[p].hard_limit BY <1>5 DEF SpareOK
<1>7. /\ Coverable(p)' <=> Held(p)' + Claims(p)' <= nodes[p].hard_limit
      /\ m \in Subtree(p) => Held(p)' + nodes[m].committed = Held(p) + v
      /\ m \notin Subtree(p) => Held(p)' = Held(p)
  BY <1>2, <1>4, MovesSpare
<1>8. /\ Claims(p) \in Nat /\ Claims(p)' \in Nat
      /\ m \notin Subtree(p) => Claims(p)' = Claims(p)
  BY <1>2, <1>4, MovesClaims
<1>9. CASE m \notin Subtree(p)
  BY <1>6, <1>7, <1>8, <1>9
<1>10. CASE m \in Subtree(p)
  <2>1. m # p
    <3>0. \A n \in Nodes : nodes'[n].committed = IF n = m THEN v ELSE nodes[n].committed
      BY <1>2, <1>4, <1>5, OneNodeStep
    <3>1. nodes'[m].committed = v BY <1>2, <3>0
    <3>2. v # nodes[m].committed
      BY <1>2, <1>3, <1>5, NodeType
    <3> QED BY <3>1, <3>2
  <2>2. PICK d \in Children(p) : m \in Subtree(d)
    BY <1>5, <1>10, <2>1, ChildAbove
  <2>3. d \in Nodes BY DEF Children
  <2>4. /\ Held(d)' + nodes[m].committed = Held(d) + v /\ Spare'[d] \in Nat
        /\ Spare'[d] = IF nodes[d].reservation > Held(d)'
                       THEN nodes[d].reservation - Held(d)' ELSE 0
    BY <2>2, <2>3, <1>2, <1>4, MovesSpare
  <2>5. Claims(p)' + Spare[d] = Claims(p) + Spare'[d]
    BY <2>2, <1>2, <1>4, MovesClaims
  <2>6. /\ Spare[d] = IF nodes[d].reservation > Held(d)
                      THEN nodes[d].reservation - Held(d) ELSE 0
        /\ Spare[d] \in Nat /\ Held(d) \in Nat /\ Held(p) \in Nat
        /\ nodes[d].reservation \in Nat
    BY <2>3, <1>5 DEF SpareOK
  <2>7. nodes[m].committed \in Nat /\ nodes[p].hard_limit \in Nat
    BY <1>2, <1>5, NodeType DEF CoordinatorAssumption
  <2>8. Held(p)' = Held(p) - bytes /\ Held(d)' = Held(d) - bytes
    <3>1. Held(p)' \in Nat /\ Held(d)' \in Nat
      BY <1>2, <1>4, <1>5, <2>3, HeldStep
    <3> QED BY <3>1, <1>2, <1>3, <1>7, <1>10, <2>4, <2>6, <2>7
  <2>9. Spare'[d] <= Spare[d] + bytes
    BY <2>4, <2>6, <2>8, <1>2
  <2>10. Claims(p)' <= Claims(p) + bytes
    BY <2>4, <2>5, <2>6, <2>9, <1>2, <1>8
  <2> QED BY <2>10, <1>2, <1>6, <1>7, <1>8, <2>6, <2>7, <2>8
<1> QED BY <1>9, <1>10

(* For every forest, every set of resources and all limits, reservations    *)
(* and amounts: whenever the children of a node could all still draw their  *)
(* reservations, they still can after any commit or release below it.       *)
THEOREM CommitsSpareSiblings == CoordSpec => SiblingsKeepReservation
<1> DEFINE Keeps == Len(nodes') = Len(nodes) =>
             \A p \in Nodes :
                Coverable(p) /\ nodes'[p].committed = nodes[p].committed => Coverable(p)'
<1>1. CoordInit => CoordInv
  BY CoordInvInit, CoordinatorAssumption
<1>2. CoordInv /\ [CoordNext]_coordVars => CoordInv'
  BY CoordInvNext, CoordinatorAssumption
<1>3. ASSUME CoordInv, CoordInv', [CoordNext]_coordVars PROVE Keeps
  <2> SUFFICES ASSUME Len(nodes') = Len(nodes), NEW p \in Nodes, Coverable(p),
                      nodes'[p].committed = nodes[p].committed
               PROVE  Coverable(p)'
    OBVIOUS
  <2>1. ASSUME nodes' = nodes PROVE Coverable(p)'
    <3>1. Nodes' = Nodes /\ Ancestors' = Ancestors
      BY <2>1 DEF Nodes, Ancestors
    <3>2. \A n : committed_with_descendants(n)' = committed_with_descendants(n)
      BY <2>1, <3>1 DEF committed_with_descendants, Committed, Subtree, is_descendant
    <3>3. Unused(Children(p))' = Unused(Children(p))
      BY <2>1, <3>1, <3>2 DEF Unused, UnusedReservation, Children
    <3> QED BY <2>1, <3>2, <3>3 DEF Coverable
  <2>2. ASSUME NEW b, TopologySetup, nodes' = Append(nodes, b) PROVE FALSE
    <3>1. nodes \in Seq(Node) BY <1>3 DEF CoordInv, CoordTypeOK
    <3>2. nodes' \in Seq(Node) BY <1>3 DEF CoordInv, CoordTypeOK
    <3>3. Len(nodes') = Len(nodes) + 1 BY <3>1, <2>2
    <3> QED BY <3>1, <3>3, LenProperties
  <2>3. ASSUME NEW r \in Resources, NEW bytes \in Amounts, commit(r, bytes)
        PROVE  Coverable(p)'
    BY <1>3, <2>3, CommitSiblings, CoordinatorAssumption
  <2>4. ASSUME NEW r \in Resources, NEW bytes \in Amounts, Release(r, bytes)
        PROVE  Coverable(p)'
    BY <1>3, <2>4, ReleaseSiblings, CoordinatorAssumption
  <2>5. ASSUME NEW r \in Resources, NEW n \in Nodes, register(r, n) PROVE Coverable(p)'
    BY <2>1, <2>5 DEF register
  <2>6. CASE UNCHANGED coordVars
    BY <2>1, <2>6 DEF coordVars
  <2>7. ASSUME NEW limit \in NodeLimits, NEW reserved \in Reservations, add_root(limit, reserved)
        PROVE  FALSE
    BY <2>2, <2>7 DEF add_root
  <2>8. ASSUME NEW limit \in NodeLimits, NEW reserved \in Reservations, NEW q \in Nodes,
               add_child(q, limit, reserved)
        PROVE  FALSE
    BY <2>2, <2>8 DEF add_child
  <2> QED BY <1>3, <2>3, <2>4, <2>5, <2>6, <2>7, <2>8 DEF CoordNext
<1>4. CoordInv /\ CoordInv' /\ [CoordNext]_coordVars => [Keeps]_coordVars
  BY <1>3
<1>5. CoordSpec => [][Keeps]_coordVars
  <2> HIDE DEF Keeps
  <2> QED BY <1>1, <1>2, <1>4, PTL DEF CoordSpec
<1> QED BY <1>5 DEF SiblingsKeepReservation

=============================================================================
