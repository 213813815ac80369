------------------------------ MODULE PlotGraph ------------------------------
(***************************************************************************)
(* plot_graph.py over the canon database: threads that advance, fork and   *)
(* merge branches and edit the graph of plot nodes, next to threads that   *)
(* commit revisions directly.                                              *)
(*                                                                         *)
(* get_db opens every connection in autocommit mode and plot_graph.py      *)
(* never opens a transaction, so each SQL statement of an operation is a   *)
(* step of its own and other threads run between two of them.  op[t] is    *)
(* what thread t still has to do, with the rows it has read so far.        *)
(***************************************************************************)
EXTENDS CanonStore

CONSTANT Thread

VARIABLES
    plot_node,     \* node_id -> world_id, for the existing rows
    deleted_node,  \* ids of deleted rows; a uuid is never given out twice
    plot_edge,     \* the existing edges, as pairs <<from, to>>
    op

nodeVars == <<plot_node, deleted_node, plot_edge>>
vars == <<storeVars, nodeVars, op>>

Idle == [step |-> "idle"]

Begin(t, next) == op[t] = Idle /\ op' = [op EXCEPT ![t] = next]
Continue(t, step, next) == op[t].step = step /\ op' = [op EXCEPT ![t] = next]
Finish(t, step) == Continue(t, step, Idle)

-----------------------------------------------------------------------------
(* Direct commits of other clients of the store. *)

ClientCommit(t) ==
    /\ op[t] = Idle
    /\ StoreNext
    /\ UNCHANGED <<nodeVars, op>>

-----------------------------------------------------------------------------
(* advance_branch: read the node, read the branch, then commit a plot move   *)
(* on the head that was read.                                                *)

AdvanceReadNode(t, b, n) ==
    /\ n \in DOMAIN plot_node
    /\ Begin(t, [step |-> "advance.branch", branch |-> b, node |-> n,
                 world |-> plot_node[n]])
    /\ UNCHANGED <<storeVars, nodeVars>>

\* A missing branch, or one of another world, ends the operation.
AdvanceReadBranch(t) ==
    LET b == op[t].branch
    IN  /\ Continue(t, "advance.branch",
                    IF b \in DOMAIN branch /\ branch[b].world = op[t].world
                    THEN [step |-> "advance.commit", branch |-> b,
                          node |-> op[t].node, world |-> op[t].world,
                          play |-> branch[b].play, base |-> branch[b].head_rev]
                    ELSE Idle)
        /\ UNCHANGED <<storeVars, nodeVars>>

MovePatch(n) == [facts_retire |-> <<>>, facts_add |-> <<>>, plot_move |-> n]

AdvanceCommit(t) ==
    /\ Finish(t, "advance.commit")
    /\ CommitRevision(op[t].world, op[t].play, op[t].branch, op[t].base,
                      MovePatch(op[t].node))
    /\ UNCHANGED nodeVars

-----------------------------------------------------------------------------
(* fork_branch: read the source row, then insert a row with a fresh id.      *)

ForkRead(t, src) ==
    /\ src \in DOMAIN branch
    /\ Begin(t, [step |-> "fork.insert", source |-> src, row |-> branch[src]])
    /\ UNCHANGED <<storeVars, nodeVars>>

\* Variant with a bug: the base is read again when the row is inserted.
ForkInsertRereads(t, new) ==
    LET row == op[t].row
    IN  /\ Finish(t, "fork.insert")
        /\ new \notin DOMAIN branch
        /\ branch' = SetRow(branch, new,
                            [row EXCEPT !.forked_from = op[t].source,
                                        !.fork_base = branch[op[t].source].head_rev])
        /\ UNCHANGED <<world, playthrough, world_revision, fact,
                       canon_conflict, nodeVars>>

ForkInsert(t, new) ==
    LET row == op[t].row
    IN  /\ Finish(t, "fork.insert")
        /\ new \notin DOMAIN branch
        /\ branch' = SetRow(branch, new,
                            [row EXCEPT !.forked_from = op[t].source,
                                        !.fork_base = row.head_rev])
        /\ UNCHANGED <<world, playthrough, world_revision, fact,
                       canon_conflict, nodeVars>>

-----------------------------------------------------------------------------
(* merge_branch: read the source row, read the target row, compare, then     *)
(* either overwrite the target's head or insert a conflict.  The walks over  *)
(* parent_rev_id read rows that never change, so they belong to the second   *)
(* read.                                                                     *)

MergeReadSource(t, src, tgt) ==
    /\ src \in DOMAIN branch
    /\ Begin(t, [step |-> "merge.target", source |-> branch[src], target |-> tgt])
    /\ UNCHANGED <<storeVars, nodeVars>>

\* Variant with a bug: the arguments of _is_ancestor the wrong way round.
ForwardsBackwards(targetHead, sourceHead) ==
    /\ targetHead # NULL
    /\ sourceHead # NULL
    /\ IsAncestor(sourceHead, targetHead)

\* _is_ancestor is asked only when both heads exist.
FastForwards(targetHead, sourceHead) ==
    /\ targetHead # NULL
    /\ sourceHead # NULL
    /\ IsAncestor(targetHead, sourceHead)

\* Both walks start at a head and follow parents: the first revision of b's
\* walk that a's walk also visits.
CommonAncestors(a, b) == {r \in RevId : IsAncestor(r, a) /\ IsAncestor(r, b)}

CommonAncestor(a, b) ==
    IF a = NULL \/ b = NULL \/ CommonAncestors(a, b) = {}
    THEN NULL
    ELSE CHOOSE r \in CommonAncestors(a, b) :
            \A c \in CommonAncestors(a, b) : IsAncestor(c, r)

MergeReadTarget(t) ==
    LET tgt == op[t].target
        src == op[t].source
        row == branch[tgt]
    IN  /\ Continue(t, "merge.target",
              IF \/ tgt \notin DOMAIN branch
                 \/ row.world # src.world
                 \/ row.play # src.play
              THEN Idle
              ELSE IF FastForwards(row.head_rev, src.head_rev)
              THEN [step |-> "merge.forward", target |-> tgt, source |-> src,
                    target_head |-> row.head_rev]
              ELSE [step |-> "merge.conflict", target |-> tgt, source |-> src,
                    target_head |-> row.head_rev])
        /\ UNCHANGED <<storeVars, nodeVars>>

\* The UPDATE has no condition on the target's present head.
MergeForward(t) ==
    LET tgt == op[t].target
        src == op[t].source
    IN  /\ Finish(t, "merge.forward")
        /\ branch' = SetRow(branch, tgt,
                            MoveHead(branch[tgt], src.head_rev, src.head_node))
        /\ UNCHANGED <<world, playthrough, world_revision, fact,
                       canon_conflict, nodeVars>>

MergeConflict(t) ==
    LET src == op[t].source
        tgtHead == op[t].target_head
    IN  /\ Finish(t, "merge.conflict")
        /\ CreateConflict(op[t].target, "plot-merge",
                          CommonAncestor(src.head_rev, tgtHead),
                          src.head_rev, tgtHead)
        /\ UNCHANGED <<world, playthrough, branch, world_revision, fact,
                       nodeVars>>

-----------------------------------------------------------------------------
(* Nodes and edges. *)

\* Variant with a bug: no foreign key on the world.
CreateAnywhere(t, w, n) ==
    /\ op[t] = Idle
    /\ n \notin DOMAIN plot_node \cup deleted_node
    /\ plot_node' = SetRow(plot_node, n, w)
    /\ UNCHANGED <<storeVars, deleted_node, plot_edge, op>>

\* create_plot_node, and its foreign key on the world.
CreatePlotNode(t, w, n) ==
    /\ op[t] = Idle
    /\ w \in world
    /\ n \notin DOMAIN plot_node \cup deleted_node
    /\ plot_node' = SetRow(plot_node, n, w)
    /\ UNCHANGED <<storeVars, deleted_node, plot_edge, op>>

\* create_plot_edge: look one node up under the world, then the other, then
\* insert.
EdgeReadFrom(t, w, from, to) ==
    /\ from \in DOMAIN plot_node
    /\ plot_node[from] = w
    /\ Begin(t, [step |-> "edge.to", world |-> w, edge |-> <<from, to>>])
    /\ UNCHANGED <<storeVars, nodeVars>>

\* Variant with a bug: the second node is looked up in any world.
EdgeReadToAnywhere(t) ==
    LET edge == op[t].edge
    IN  /\ Continue(t, "edge.to",
                    IF edge[2] \in DOMAIN plot_node
                    THEN [step |-> "edge.insert", edge |-> edge] ELSE Idle)
        /\ UNCHANGED <<storeVars, nodeVars>>

EdgeReadTo(t) ==
    LET edge == op[t].edge
    IN  /\ Continue(t, "edge.to",
                    IF /\ edge[2] \in DOMAIN plot_node
                       /\ plot_node[edge[2]] = op[t].world
                    THEN [step |-> "edge.insert", edge |-> edge] ELSE Idle)
        /\ UNCHANGED <<storeVars, nodeVars>>

\* The foreign keys refuse an edge whose node has gone in the meantime.
EdgeInsert(t) ==
    LET edge == op[t].edge
    IN  /\ Finish(t, "edge.insert")
        /\ plot_edge' = IF {edge[1], edge[2]} \subseteq DOMAIN plot_node
                        THEN plot_edge \cup {edge}
                        ELSE plot_edge
        /\ UNCHANGED <<storeVars, plot_node, deleted_node>>

EdgesAt(n) == {e \in plot_edge : n \in {e[1], e[2]}}

\* delete_node: look the node up, look for a branch head on it, delete its
\* edges, delete the node.
DeleteRead(t, n) ==
    /\ n \in DOMAIN plot_node
    /\ Begin(t, [step |-> "delete.check", node |-> n])
    /\ UNCHANGED <<storeVars, nodeVars>>

DeleteCheck(t) ==
    LET n == op[t].node
    IN  /\ Continue(t, "delete.check",
                    IF \A b \in DOMAIN branch : branch[b].head_node # n
                    THEN [step |-> "delete.edges", node |-> n] ELSE Idle)
        /\ UNCHANGED <<storeVars, nodeVars>>

DeleteEdges(t) ==
    /\ Continue(t, "delete.edges", [op[t] EXCEPT !.step = "delete.node"])
    /\ plot_edge' = plot_edge \ EdgesAt(op[t].node)
    /\ UNCHANGED <<storeVars, plot_node, deleted_node>>

\* ON DELETE CASCADE removes the edges that came back.
DeleteNode(t) ==
    LET n == op[t].node
    IN  /\ Finish(t, "delete.node")
        /\ plot_node' = [m \in DOMAIN plot_node \ {n} |-> plot_node[m]]
        /\ deleted_node' = deleted_node \cup {n}
        /\ plot_edge' = plot_edge \ EdgesAt(n)
        /\ UNCHANGED storeVars

-----------------------------------------------------------------------------
Init ==
    /\ StoreInit
    /\ plot_node = <<>>
    /\ deleted_node = {}
    /\ plot_edge = {}
    /\ op = [t \in Thread |-> Idle]

BranchStep(t) ==
    \/ ClientCommit(t)
    \/ \E b \in BranchId, n \in NodeId : AdvanceReadNode(t, b, n)
    \/ AdvanceReadBranch(t)
    \/ AdvanceCommit(t)
    \/ \E src \in BranchId : ForkRead(t, src)
    \/ \E new \in BranchId : ForkInsert(t, new)
    \/ \E src, tgt \in BranchId : MergeReadSource(t, src, tgt)
    \/ MergeReadTarget(t)
    \/ MergeForward(t)
    \/ MergeConflict(t)

NodeStep(t) ==
    \/ \E w \in WorldId, from, to \in NodeId : EdgeReadFrom(t, w, from, to)
    \/ EdgeReadTo(t)
    \/ EdgeInsert(t)
    \/ \E n \in NodeId : DeleteRead(t, n)
    \/ DeleteCheck(t)
    \/ DeleteEdges(t)
    \/ DeleteNode(t)

Create(t) == \E w \in WorldId, n \in NodeId : CreatePlotNode(t, w, n)

Next == \E t \in Thread : BranchStep(t) \/ NodeStep(t) \/ Create(t)

Spec == Init /\ [][Next]_vars

-----------------------------------------------------------------------------
(* Properties *)

\* What a thread holds refers to rows that exist: branches and revisions are
\* never deleted.  Only plot nodes may have gone since they were read.
HeldRow(row) ==
    /\ row \in BranchRow
    /\ row.world \in world
    /\ row.play \in DOMAIN playthrough
    /\ row.head_rev \in RevId \cup {NULL}

Step ==
    {"idle", "advance.branch", "advance.commit", "fork.insert", "merge.target",
     "merge.forward", "merge.conflict", "edge.to", "edge.insert",
     "delete.check", "delete.edges", "delete.node"}

OpOK(o) ==
    /\ o.step \in Step
    /\ o.step = "idle" => o = Idle
    /\ o.step = "advance.branch" => o.node \in NodeId /\ o.branch \in BranchId
    /\ o.step = "advance.commit" =>
          /\ o.node \in NodeId
          /\ o.branch \in DOMAIN branch
          /\ o.world = branch[o.branch].world
          /\ o.play = branch[o.branch].play
          /\ o.base \in RevId \cup {NULL}
    /\ o.step = "fork.insert" => o.source \in DOMAIN branch /\ HeldRow(o.row)
    /\ o.step = "merge.target" => o.target \in BranchId /\ HeldRow(o.source)
    /\ o.step \in {"merge.forward", "merge.conflict"} =>
          /\ o.target \in DOMAIN branch
          /\ HeldRow(o.source)
          /\ o.target_head \in RevId \cup {NULL}
    /\ o.step \in {"edge.to", "edge.insert"} => o.edge \in NodeId \X NodeId
    /\ o.step \in {"delete.check", "delete.edges", "delete.node"} => o.node \in NodeId

PlotTypeOK ==
    /\ TypeOK
    /\ DOMAIN plot_node \subseteq NodeId
    /\ \A n \in DOMAIN plot_node : plot_node[n] \in world
    /\ deleted_node \subseteq NodeId \ DOMAIN plot_node
    /\ plot_edge \subseteq NodeId \X NodeId
    /\ DOMAIN op = Thread
    /\ \A t \in Thread : OpOK(op[t])

\* Whatever races happen, a fork never loses the revision it started from
\* (plot_graph.py:140): its head stays a descendant of fork_base_rev_id, also
\* when merges overwrite the head with what they read earlier.
ForkBaseIsAncestor ==
    \A b \in DOMAIN branch :
        branch[b].fork_base # NULL => branch[b].fork_base \in Reach(b)

\* An edge joins two existing nodes of one world, although the nodes are
\* looked up before the edge is inserted and deleted after the edges are
\* (plot_graph.py:467-488, 346-355).
EdgesHaveEndpoints ==
    \A e \in plot_edge :
        /\ {e[1], e[2]} \subseteq DOMAIN plot_node
        /\ plot_node[e[1]] = plot_node[e[2]]

\* The one way a branch loses what its readers could reach is a fast-forward
\* whose target moved after merge_branch read it (plot_graph.py:191-218).
Dropping(b) == ~(Reach(b) \subseteq Reach(b)')

Forwarded(t, b) ==
    /\ op[t].step = "merge.forward"
    /\ op[t].target = b
    /\ op'[t] = Idle

StaleForward(t, b) ==
    Forwarded(t, b) /\ op[t].target_head # branch[b].head_rev

OnlyStaleMergesDrop ==
    [][\A b \in BranchId :
          Dropping(b) => \E t \in Thread : StaleForward(t, b)]_vars

\* "If target head is ancestor of source head, advance target"
\* (plot_graph.py:172): after a fast-forward the readers of the target reach all
\* they reached before.
MergeAdvancesTarget ==
    [][\A t \in Thread, b \in BranchId : Forwarded(t, b) => ~Dropping(b)]_vars

\* "Only unprotected nodes are deleted": no step deletes a node on which a
\* branch head stands (plot_graph.py:308-309).
OnlyUnprotectedDeleted ==
    [][\A n \in DOMAIN plot_node \ DOMAIN plot_node' :
          \A b \in DOMAIN branch : branch[b].head_node # n]_vars

=============================================================================
