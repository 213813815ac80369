---------------------------- MODULE MCPlotGraph ----------------------------
(* Small instances of PlotGraph for TLC. *)
EXTENDS PlotGraph, TLC

CONSTANTS w1, w2, p1, b1, b2, n1, n2, c1, c2

NoPatch == [facts_retire |-> <<>>, facts_add |-> <<>>, plot_move |-> NULL]

\* Direct commits either leave the plot alone or move it.
ClientPatches == {NoPatch, MovePatch(n1)}

\* Only revisions are told apart: no property names a thread or a row id.
Symmetry ==
    Permutations({c1, c2}) \cup Permutations({b1, b2})
    \cup Permutations({n1, n2}) \cup Permutations({w1, w2})

Doing(steps) == \E t \in Thread : op[t].step \in steps

\* Bounds: three slices of the state space are explored together.

\* Branches of one world race with up to three revisions without plot nodes, or
\* with up to two over one node that stays; a conflict is recorded in histories
\* of two revisions without nodes.
BranchesRace ==
    /\ Cardinality(world) <= 1
    /\ plot_edge = {} /\ deleted_node = {}
    /\ ~Doing({"edge.to", "edge.insert",
               "delete.check", "delete.edges", "delete.node"})
    /\ Cardinality(DOMAIN plot_node) <= 1
    /\ plot_node # <<>> => Len(world_revision) <= 2
    /\ canon_conflict # <<>> => Len(world_revision) <= 2 /\ plot_node = <<>>

\* Nodes, edges and deletions race under one branch with at most one revision.
NodesRace ==
    /\ Cardinality(DOMAIN branch) <= 1
    /\ Len(world_revision) <= 1
    /\ ~Doing({"fork.insert", "merge.target"})

\* Two worlds, each with a branch of one revision: look-ups of nodes, branches
\* and sources meet rows of the other world.
WorldsRace ==
    /\ Cardinality(world) = 2
    /\ Len(world_revision) <= 2
    /\ canon_conflict = <<>>

Slices == BranchesRace \/ NodesRace \/ WorldsRace

=============================================================================
