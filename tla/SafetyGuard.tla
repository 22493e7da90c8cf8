---------------------------- MODULE SafetyGuard ----------------------------
(***************************************************************************)
(* The latent safety guard (scirust, src/safety.rs): three signals on each *)
(* latent vector, in order, the first that fires being the verdict, and a  *)
(* circular window of cosines for the third.                               *)
(*                                                                         *)
(* A vector is what the signals see of it: its norm, its cosine with the   *)
(* reference and its linear score, in hundredths or NaN. How a tile is     *)
(* decoded is TileKernels' subject.                                        *)
(***************************************************************************)
EXTENDS Integers, Sequences

CONSTANTS
    Cosines,        \* cosines and linear scores of the vectors analysed
    Thresholds,     \* thresholds callers pass, NaN included
    MaxAnalyses,    \* bound: vectors analysed by one guard
    NaN             \* any float that is not finite

ASSUME SafetyAssumption ==
    /\ Cosines \subseteq Int
    /\ \A t \in Thresholds : t = NaN \/ t \in Int
    /\ MaxAnalyses \in Nat

VARIABLES
    guard,       \* the LatentSafetyGuard, NoGuard before new
    passed,      \* cosines that passed signals 1 and 2, in order
    analyses,    \* vectors analysed
    verdict      \* the last vector and the SafetyResult it got

safetyVars == <<guard, passed, analyses, verdict>>

DEFAULT_DOT_THRESHOLD == 50
DEFAULT_ORTHOGONAL_THRESHOLD == 15
DEFAULT_DRIFT_THRESHOLD == 80
DRIFT_WINDOW == 4

NoGuard == [dot |-> 0]
NoVerdict == [reason |-> "none"]

SafetyInit == guard = NoGuard /\ passed = <<>> /\ analyses = 0 /\ verdict = NoVerdict

Guard(dot, classifier, orthogonal) ==
    [dot |-> dot, classifier |-> classifier, orthogonal |-> orthogonal,
     window |-> [i \in 0 .. DRIFT_WINDOW - 1 |-> 0], idx |-> 0, count |-> 0, last_cosine |-> 0]

NewGuard(dot) ==
    /\ guard = NoGuard
    /\ guard' = Guard(IF dot # NaN /\ dot > 0 THEN dot ELSE DEFAULT_DOT_THRESHOLD,
                      FALSE, DEFAULT_ORTHOGONAL_THRESHOLD)
    /\ UNCHANGED <<passed, analyses, verdict>>

with_linear_classifier(orthogonal) ==
    /\ guard = NoGuard
    /\ guard' = Guard(DEFAULT_DOT_THRESHOLD, TRUE,
                      IF orthogonal # NaN THEN orthogonal ELSE DEFAULT_ORTHOGONAL_THRESHOLD)
    /\ UNCHANGED <<passed, analyses, verdict>>

(* A zero or non-finite norm, a reference that is not finite, a cosine that *)
(* is too small: signal 1.                                                  *)
Deviates(v) == v.norm # "finite" \/ v.cosine = NaN \/ v.cosine < guard.dot

Isolated(v) == guard.classifier /\ (v.linear = NaN \/ v.linear < guard.orthogonal)

window_mean(w) == (w[0] + w[1] + w[2] + w[3]) \div DRIFT_WINDOW

(* The window takes a cosine only from vectors that signals 1 and 2 let     *)
(* through. Mutant: it stops at its last place instead of going round.      *)
Pushed_stuck(g, cosine) ==
    [g EXCEPT !.window[g.idx] = cosine,
              !.idx = IF g.idx + 1 < DRIFT_WINDOW THEN g.idx + 1 ELSE g.idx,
              !.count = IF g.count < DRIFT_WINDOW THEN g.count + 1 ELSE g.count]

Pushed(g, cosine) ==
    [g EXCEPT !.window[g.idx] = cosine,
              !.idx = (g.idx + 1) % DRIFT_WINDOW,
              !.count = IF g.count < DRIFT_WINDOW THEN g.count + 1 ELSE g.count]

Drifts(g) == g.count >= DRIFT_WINDOW /\ window_mean(g.window) < DEFAULT_DRIFT_THRESHOLD

analyze_dequantized(v) ==
    LET seen   == [guard EXCEPT !.last_cosine =
                      IF v.norm = "finite" /\ v.cosine # NaN THEN v.cosine ELSE 0]
        next   == Pushed(seen, v.cosine)
        reason == CASE Deviates(v) -> "deviation"
                    [] ~Deviates(v) /\ Isolated(v) -> "isolation"
                    [] OTHER -> IF Drifts(next) THEN "drift" ELSE "safe"
        pushes == reason \in {"drift", "safe"}
    IN /\ guard # NoGuard
       /\ analyses < MaxAnalyses
       /\ analyses' = analyses + 1
       /\ guard' = IF pushes THEN next ELSE seen
       /\ passed' = IF pushes THEN Append(passed, v.cosine) ELSE passed
       /\ verdict' = [vector |-> v, reason |-> reason]

Vectors == [norm : {"zero", "nan", "finite"}, cosine : Cosines \cup {NaN}, linear : Cosines \cup {NaN}]

SafetyNext ==
    \/ \E dot \in Thresholds : NewGuard(dot)
    \/ \E orthogonal \in Thresholds : with_linear_classifier(orthogonal)
    \/ \E v \in Vectors : analyze_dequantized(v)

SafetySpec == SafetyInit /\ [][SafetyNext]_safetyVars

-----------------------------------------------------------------------------
(* Properties                                                               *)

(* The last four of the cosines that passed.                                *)
Recent == SubSeq(passed, Len(passed) - DRIFT_WINDOW + 1, Len(passed))

(* "toute valeur non finie est rejetee fail-safe", and the drift is judged  *)
(* on the last DRIFT_WINDOW vectors that the first two signals let through, *)
(* once there are that many: Safe means finite, aligned, not isolated and   *)
(* not drifting; drift means that those four, and no other, average less    *)
(* than the threshold.                                                      *)
VerdictFromHistory ==
    verdict # NoVerdict =>
        LET v == verdict.vector
            drifting == Len(passed) >= DRIFT_WINDOW
                        /\ (Recent[1] + Recent[2] + Recent[3] + Recent[4]) \div DRIFT_WINDOW
                             < DEFAULT_DRIFT_THRESHOLD
        IN /\ verdict.reason = "safe" =>
                /\ v.norm = "finite" /\ v.cosine # NaN /\ v.cosine >= guard.dot
                /\ guard.classifier => v.linear # NaN /\ v.linear >= guard.orthogonal
                /\ ~drifting
           /\ verdict.reason = "drift" => drifting

=============================================================================
