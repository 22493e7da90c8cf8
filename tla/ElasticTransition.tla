------------------------- MODULE ElasticTransition -------------------------
(***************************************************************************)
(* Transactional transitions and tier graphs of elastic-core               *)
(* (transaction.rs, tiers.rs): run_transaction over an implementor of the  *)
(* Transaction trait whose representation is the tier of a TierState.      *)
(*                                                                         *)
(* The repository implements the trait in tests only. The implementor here *)
(* does what the trait's comments allow: prepare may fail with scratch     *)
(* already built, commit may report failure after it switched, rollback    *)
(* may fail and then leaves everything as it found it.                     *)
(***************************************************************************)
EXTENDS Integers, Sequences

CONSTANTS
    TierLists,     \* sequences of descriptors [name, rank] passed to try_new
    EdgeLists,     \* sequences of pairs of descriptors
    NameLists,     \* sequences of pairs of names passed to machine_from_lists
    Descriptors    \* descriptors that callers pass, ranks that do not match too

VARIABLES
    graph,     \* the TierMachine, NoGraph before it is built
    holder,    \* the TierState and the scratch that prepare builds
    tx         \* the transaction that runs

transitionVars == <<graph, holder, tx>>

(* Tier descriptors; the name "none" is kept for no tier.                   *)
Tiers == [name : STRING \ {"none"}, rank : Nat]

ASSUME TransitionAssumption ==
    /\ TierLists \subseteq Seq(Tiers) /\ EdgeLists \subseteq Seq(Tiers \X Tiers)
    /\ NameLists \subseteq Seq(STRING \X STRING) /\ Descriptors \subseteq Tiers

NoGraph == [tiers |-> <<>>, transitions |-> <<>>]
NoTier == [name |-> "none", rank |-> 0]
NoTx == [phase |-> "idle", target |-> NoTier, before |-> NoTier, outcome |-> "none"]

TransitionInit ==
    /\ graph = NoGraph
    /\ holder = [current |-> NoTier, scratch |-> NoTier]
    /\ tx = NoTx

-----------------------------------------------------------------------------
(* Tier graphs                                                              *)

(* The first tier of that name.                                             *)
find(tiers, name) ==
    IF \E i \in DOMAIN tiers : tiers[i].name = name
    THEN tiers[CHOOSE i \in DOMAIN tiers :
                   /\ tiers[i].name = name
                   /\ \A j \in 1 .. i - 1 : tiers[j].name # name]
    ELSE NoTier

(* Name and rank must be those of the machine. Mutant: the name only.       *)
validate_descriptor_name(tiers, t) == find(tiers, t.name) # NoTier

validate_descriptor(tiers, t) ==
    find(tiers, t.name) # NoTier /\ find(tiers, t.name).rank = t.rank

Distinct(s) == \A i, j \in DOMAIN s : s[i] = s[j] => i = j

(* try_new; new panics where this refuses.                                  *)
try_new(tiers, edges) ==
    /\ graph = NoGraph
    /\ Distinct([i \in DOMAIN tiers |-> tiers[i].name])
    /\ \A i \in DOMAIN edges : \A k \in 1 .. 2 : validate_descriptor(tiers, edges[i][k])
    /\ Distinct(edges)
    /\ graph' = [tiers |-> tiers, transitions |-> edges]
    /\ UNCHANGED <<holder, tx>>

machine_from_lists(tiers, names) ==
    /\ \A i \in DOMAIN names : \A k \in 1 .. 2 : find(tiers, names[i][k]) # NoTier
    /\ try_new(tiers, [i \in DOMAIN names |->
                          <<find(tiers, names[i][1]), find(tiers, names[i][2])>>])

transition(from, to) ==
    /\ validate_descriptor(graph.tiers, from) /\ validate_descriptor(graph.tiers, to)
    /\ \E i \in DOMAIN graph.transitions : graph.transitions[i] = <<from, to>>

NewState(t) ==
    /\ graph # NoGraph /\ holder.current = NoTier
    /\ validate_descriptor(graph.tiers, t)
    /\ holder' = [holder EXCEPT !.current = t]
    /\ UNCHANGED <<graph, tx>>

(* After RollbackFailed the caller fails closed.                            *)
Usable == holder.current # NoTier /\ tx.phase \in {"idle", "done"} /\ tx.outcome # "RollbackFailed"

try_move(t) ==
    /\ Usable
    /\ transition(holder.current, t)
    /\ holder' = [holder EXCEPT !.current = t]
    /\ tx' = NoTx
    /\ UNCHANGED graph

-----------------------------------------------------------------------------
(* run_transaction, phase by phase                                          *)

Begin(t) ==
    /\ Usable
    /\ tx' = [phase |-> "prepare", target |-> t, before |-> holder.current, outcome |-> "none"]
    /\ UNCHANGED <<graph, holder>>

(* Every failed phase is followed by rollback_or. Mutant: a failed prepare  *)
(* returns at once.                                                         *)
AfterFailure_prepare(phase) == IF phase = "prepare" THEN "done" ELSE "rollback"

AfterFailure(phase) == "rollback"

Phase(ok, next, failure) ==
    tx' = IF ok THEN [tx EXCEPT !.phase = next]
          ELSE [tx EXCEPT !.phase = AfterFailure(tx.phase), !.outcome = failure]

prepare(ok) ==
    /\ tx.phase = "prepare"
    /\ \/ holder' = [holder EXCEPT !.scratch = tx.target]
       \/ ~ok /\ UNCHANGED holder
    /\ Phase(ok, "validate", "PrepareFailed")
    /\ UNCHANGED graph

validate(ok) ==
    /\ tx.phase = "validate"
    /\ ok => transition(holder.current, holder.scratch)
    /\ Phase(ok, "commit", "ValidationFailed")
    /\ UNCHANGED <<graph, holder>>

commit(ok) ==
    /\ tx.phase = "commit"
    /\ \/ holder' = [current |-> holder.scratch, scratch |-> NoTier]
       \/ ~ok /\ UNCHANGED holder
    /\ Phase(ok, "release", "CommitFailed")
    /\ UNCHANGED graph

rollback_or(ok) ==
    /\ tx.phase = "rollback"
    /\ IF ok
       THEN /\ holder' = [current |-> tx.before, scratch |-> NoTier]
            /\ tx' = [tx EXCEPT !.phase = "done"]
       ELSE /\ tx' = [tx EXCEPT !.phase = "done", !.outcome = "RollbackFailed"]
            /\ UNCHANGED holder
    /\ UNCHANGED graph

release ==
    /\ tx.phase = "release"
    /\ tx' = [tx EXCEPT !.phase = "done", !.outcome = "Committed"]
    /\ UNCHANGED <<graph, holder>>

TransitionNext ==
    \/ \E tiers \in TierLists, edges \in EdgeLists : try_new(tiers, edges)
    \/ \E tiers \in TierLists, names \in NameLists : machine_from_lists(tiers, names)
    \/ \E t \in Descriptors : NewState(t) \/ try_move(t) \/ Begin(t)
    \/ \E ok \in BOOLEAN : prepare(ok) \/ validate(ok) \/ commit(ok) \/ rollback_or(ok)
    \/ release

TransitionSpec == TransitionInit /\ [][TransitionNext]_transitionVars

-----------------------------------------------------------------------------
(* Properties                                                               *)

(* "A transition must never destroy the old representation, fail while      *)
(* building the replacement, and then continue with partially mutated       *)
(* state": when run_transaction returns anything but RollbackFailed, the    *)
(* state is at a tier of the graph and has no scratch; it moved along a     *)
(* declared transition when the outcome is Committed, and is where it was   *)
(* when a phase failed, whichever phase that was and whatever it had done.  *)
WholeOrReported ==
    Usable =>
        /\ holder.scratch = NoTier
        /\ \E i \in DOMAIN graph.tiers : graph.tiers[i] = holder.current
        /\ tx.outcome = "Committed" =>
              /\ holder.current = tx.target
              /\ \E i \in DOMAIN graph.transitions :
                    graph.transitions[i] = <<tx.before, tx.target>>
        /\ tx.outcome \in {"PrepareFailed", "ValidationFailed", "CommitFailed"} =>
              holder.current = tx.before

=============================================================================
