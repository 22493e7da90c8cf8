---------------------------- MODULE Coordinator ----------------------------
(***************************************************************************)
(* The shared budget: BudgetTree (elastic-core/src/budget.rs) and the      *)
(* ElasticCoordinator over it (elastic-runtime/src/coordinator.rs).        *)
(*                                                                         *)
(* A forest of budget nodes, each with a hard limit and a reservation for  *)
(* its subtree; resources registered under nodes commit and release bytes. *)
(* Bytes are u64 in the code: here they are 0 .. MaxU with the same        *)
(* saturating and checked arithmetic. Refused calls change nothing and are *)
(* the stuttering of disabled actions. Priorities and soft targets are     *)
(* metadata that neither module reads, and are left out.                   *)
(***************************************************************************)
EXTENDS Integers, Sequences, FiniteSets, Functions

CONSTANTS
    Resources,     \* resource ids callers register
    NoNode,        \* the node of a resource that is not registered
    MaxU,          \* u64::MAX
    MaxNodes,      \* bound: nodes of the forest
    NodeLimits,    \* hard limits callers ask for
    Reservations,  \* reservations callers ask for
    Amounts        \* byte counts of commits and releases (0 changes nothing)

ASSUME CoordinatorAssumption ==
    /\ MaxU \in Nat /\ MaxNodes \in Nat
    /\ NodeLimits \subseteq 0 .. MaxU
    /\ Reservations \subseteq 0 .. MaxU
    /\ Amounts \subseteq 1 .. MaxU
    /\ NoNode \notin 1 .. MaxNodes
    /\ IsFiniteSet(Resources)

VARIABLES
    nodes,      \* BudgetTree.nodes, numbered from 1
    resources   \* node and committed bytes of every resource

coordVars == <<nodes, resources>>

-----------------------------------------------------------------------------
(* BudgetTree                                                               *)

NoParent == 0

Nodes == 1 .. Len(nodes)

BudgetNode(p, hard, reserved) ==
    [parent |-> p, hard_limit |-> hard,
     reservation |-> IF reserved < hard THEN reserved ELSE hard,
     committed |-> 0]

Saturating(n) == IF n > MaxU THEN MaxU ELSE n

SaturatingMinus(a, b) == IF a > b THEN a - b ELSE 0

Committed(S) ==
    Saturating(SumFunctionOnSet([n \in Nodes |-> nodes[n].committed], S))

(* The strict ancestors of every node. A parent is always an earlier node,  *)
(* so the cycle checks of the code never fire.                              *)
AncestorsOf(up) ==
    LET above[n \in DOMAIN up] ==
          IF up[n] = NoParent THEN {} ELSE {up[n]} \cup above[up[n]]
    IN above

Ancestors == AncestorsOf([n \in Nodes |-> nodes[n].parent])

is_descendant(n, a) == a \in Ancestors[n]

Subtree(n) == {m \in Nodes : m = n \/ is_descendant(m, n)}

committed_with_descendants(n) == Committed(Subtree(n))

Children(p) == {n \in Nodes : nodes[n].parent = p}

UnusedReservation(n) ==
    SaturatingMinus(nodes[n].reservation, committed_with_descendants(n))

headroom(n) ==
    SaturatingMinus(nodes[n].hard_limit, committed_with_descendants(n))

Unused(S) == SumFunctionOnSet([n \in Nodes |-> UnusedReservation(n)], S)

(* Capacity the other children of p still have a claim to.                  *)
Protected(p, path_child) ==
    Saturating(Unused(Children(p) \ {path_child}))

KeepsReservations(p, path_child, bytes) ==
    Protected(p, path_child)
        <= SaturatingMinus(nodes[p].hard_limit,
                         Saturating(committed_with_descendants(p) + bytes))

(* The <<ancestor, child>> pairs try_commit walks through, from n to its    *)
(* root. Mutant: the walk stops at the parent.                              *)
Path_parent(n) ==
    {<<p, n>> : p \in {nodes[n].parent} \ {NoParent}}

Path(n) ==
    {<<nodes[c].parent, c>> : c \in
        {m \in {n} \cup Ancestors[n] : nodes[m].parent # NoParent}}

(* All checks of try_commit.                                                *)
CanCommit(n, bytes) ==
    /\ bytes <= headroom(n)
    /\ \A e \in Path(n) :
         bytes <= headroom(e[1]) /\ KeepsReservations(e[1], e[2], bytes)

try_commit(n, bytes) ==
    /\ CanCommit(n, bytes)
    /\ nodes' = [nodes EXCEPT ![n].committed = Saturating(@ + bytes)]

release(n, bytes) ==
    nodes' = [nodes EXCEPT ![n].committed = SaturatingMinus(@, bytes)]

-----------------------------------------------------------------------------
(* ElasticCoordinator                                                       *)

CoordInit ==
    /\ nodes = <<>>
    /\ resources = [r \in Resources |-> [node |-> NoNode, committed |-> 0]]

Registered(r) == resources[r].node # NoNode

(* tree_mut: the topology is complete before live commitments exist.        *)
TopologySetup ==
    /\ \A r \in Resources : resources[r].committed = 0
    /\ Len(nodes) < MaxNodes
    /\ UNCHANGED resources

add_root(hard, reserved) ==
    /\ TopologySetup
    /\ nodes' = Append(nodes, BudgetNode(NoParent, hard, reserved))

add_child(p, hard, reserved) ==
    /\ TopologySetup
    /\ nodes' = Append(nodes, BudgetNode(p, hard, reserved))

(* Mutant: a known id is moved to another node.                             *)
register_again(r, n) ==
    /\ resources' = [resources EXCEPT ![r].node = n]
    /\ UNCHANGED nodes

register(r, n) ==
    /\ ~Registered(r)
    /\ resources' = [resources EXCEPT ![r].node = n]
    /\ UNCHANGED nodes

commit(r, bytes) ==
    /\ Registered(r)
    /\ resources[r].committed + bytes <= MaxU
    /\ try_commit(resources[r].node, bytes)
    /\ resources' = [resources EXCEPT ![r].committed = @ + bytes]

Owns(r, bytes) == bytes <= resources[r].committed

Release(r, bytes) ==
    /\ Registered(r) /\ Owns(r, bytes)
    /\ release(resources[r].node, bytes)
    /\ resources' = [resources EXCEPT ![r].committed = @ - bytes]

CoordNext ==
    \/ \E hard \in NodeLimits, reserved \in Reservations :
         \/ add_root(hard, reserved)
         \/ \E p \in Nodes : add_child(p, hard, reserved)
    \/ \E r \in Resources :
         \/ \E n \in Nodes : register(r, n)
         \/ \E bytes \in Amounts : commit(r, bytes) \/ Release(r, bytes)

CoordSpec == CoordInit /\ [][CoordNext]_coordVars

-----------------------------------------------------------------------------
(* Properties                                                               *)

Node == [parent : 0 .. MaxNodes, hard_limit : 0 .. MaxU,
         reservation : 0 .. MaxU, committed : 0 .. MaxU]

(* Nodes and resources have their types, every parent is an earlier node    *)
(* and every registered resource has a node.                                *)
CoordTypeOK ==
    /\ nodes \in Seq(Node) /\ Len(nodes) <= MaxNodes
    /\ \A n \in Nodes : nodes[n].parent < n
    /\ resources \in [Resources -> [node : Nodes \cup {NoNode},
                                    committed : 0 .. MaxU]]

At(n) == {r \in Resources : resources[r].node = n}

(* The tree and the per-resource accounts never drift apart: what a node    *)
(* has committed is what its resources own, so that no release can free     *)
(* another resource's bytes; and no subtree holds more than the hard limit  *)
(* of its node, at any level.                                               *)
OwnedExactly ==
    \A n \in Nodes :
        /\ nodes[n].committed =
              SumFunctionOnSet([r \in Resources |-> resources[r].committed],
                               At(n))
        /\ committed_with_descendants(n) <= nodes[n].hard_limit

(* The children of p could all still use their whole reservations.          *)
Coverable(p) ==
    committed_with_descendants(p) + Unused(Children(p)) <= nodes[p].hard_limit

(* A commit below p, at any depth, never eats into what the other children  *)
(* of p have reserved.                                                      *)
SiblingsKeepReservation ==
    [][Len(nodes') = Len(nodes) =>
         \A p \in Nodes :
            Coverable(p) /\ nodes'[p].committed = nodes[p].committed
                => Coverable(p)']_coordVars

(* Limits and reservations nest: no child may hold more than its parent,    *)
(* and every node's reservation covers those of its children.               *)
Nested ==
    \A p \in Nodes :
        /\ \A c \in Children(p) : nodes[c].hard_limit <= nodes[p].hard_limit
        /\ SumFunctionOnSet([c \in Nodes |-> nodes[c].reservation],
                            Children(p)) <= nodes[p].reservation

(* Commitments are held by leaves only.                                     *)
OnLeaves ==
    \A r \in Resources : Registered(r) => Children(resources[r].node) = {}

(* A reservation is "Protected capacity for this subtree" and the           *)
(* coordinator "never steals protected reservation": where limits and       *)
(* reservations nest and only leaves commit, every node can still draw what *)
(* is left of its reservation.                                              *)
ReservationsDrawable ==
    Nested /\ OnLeaves =>
        \A n \in Nodes : UnusedReservation(n) > 0 =>
            CanCommit(n, UnusedReservation(n))

=============================================================================
