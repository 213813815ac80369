--------------------------- MODULE PlotGraph_proofs ---------------------------
(***************************************************************************)
(* The safety of plot_graph.py over the canon, for any number of threads,  *)
(* branches, nodes and revisions.  Threads act on rows they read earlier.  *)
(* That is safe because of what never changes: revisions are only          *)
(* appended, a branch keeps its world, its playthrough and its fork base,  *)
(* and the id of a deleted node is not given out again.  Held says what of *)
(* a row a thread holds therefore stays true until it is used.             *)
(***************************************************************************)
EXTENDS PlotGraph, CanonStore_proofs

\* HeadMatchesSnapshot of one row, held or stored.
HeadRow(row) ==
  IF row.head_rev = NULL
  THEN row.head_node = NULL
  ELSE LET head == world_revision[row.head_rev]
       IN  /\ head.world = row.world
           /\ head.play = row.play
           /\ head.snapshot.node = row.head_node

\* A fast-forward leads from a head below the target's fork base to a head of
\* the target's own world and playthrough.
ForwardReady(o) ==
  /\ o.source.world = branch[o.target].world
  /\ o.source.play = branch[o.target].play
  /\ FastForwards(o.target_head, o.source.head_rev)
  /\ branch[o.target].fork_base # NULL =>
        IsAncestor(branch[o.target].fork_base, o.target_head)

\* The ends of an edge were nodes of one world when they were looked up; so was
\* the first of them when only that one has been.
EndsRead(edge) ==
  /\ {edge[1], edge[2]} \subseteq DOMAIN plot_node \cup deleted_node
  /\ {edge[1], edge[2]} \subseteq DOMAIN plot_node =>
        plot_node[edge[1]] = plot_node[edge[2]]

FromRead(o) ==
  /\ o.edge[1] \in DOMAIN plot_node \cup deleted_node
  /\ o.edge[1] \in DOMAIN plot_node => plot_node[o.edge[1]] = o.world

Held(o) ==
  /\ OpOK(o)
  /\ o.step = "fork.insert" => HeadRow(o.row)
  /\ o.step \in {"merge.target", "merge.forward"} => HeadRow(o.source)
  /\ o.step = "merge.forward" => ForwardReady(o)
  /\ o.step = "edge.to" => FromRead(o)
  /\ o.step = "edge.insert" => EndsRead(o.edge)

StoreOK == TypeOK /\ HeadMatchesSnapshot /\ ForkBaseIsAncestor

NodesOK ==
  /\ DOMAIN plot_node \subseteq NodeId
  /\ \A n \in DOMAIN plot_node : plot_node[n] \in world
  /\ deleted_node \subseteq NodeId \ DOMAIN plot_node
  /\ plot_edge \subseteq NodeId \X NodeId
  /\ EdgesHaveEndpoints

OpsOK == op = [t \in Thread |-> op[t]] /\ \A t \in Thread : Held(op[t])

PlotInv == StoreOK /\ NodesOK /\ OpsOK

-----------------------------------------------------------------------------
(* What never changes. *)

StoreGrows ==
  /\ Extended
  /\ world \subseteq world'
  /\ DOMAIN playthrough \subseteq DOMAIN playthrough'
  /\ DOMAIN branch \subseteq DOMAIN branch'
  /\ \A b \in DOMAIN branch :
        /\ branch'[b].world = branch[b].world
        /\ branch'[b].play = branch[b].play
        /\ branch'[b].fork_base = branch[b].fork_base

NodesGrow ==
  /\ DOMAIN plot_node \cup deleted_node \subseteq DOMAIN plot_node' \cup deleted_node'
  /\ DOMAIN plot_node' \cap deleted_node = {}
  /\ \A n \in DOMAIN plot_node \cap DOMAIN plot_node' : plot_node'[n] = plot_node[n]

LEMMA AncestorOfAncestor ==
  ASSUME NEW a, NEW b, NEW c, IsAncestor(a, b), IsAncestor(b, c)
  PROVE  IsAncestor(a, c)
BY DEF IsAncestor

LEMMA HeadRowKept ==
  ASSUME StoreGrows, NEW row, row.head_rev \in RevId \cup {NULL}, HeadRow(row)
  PROVE  HeadRow(row)'
BY DEF HeadRow, StoreGrows, Extended

LEMMA OpOKKept ==
  ASSUME StoreGrows, NEW o, OpOK(o)
  PROVE  OpOK(o)'
<1>1. \A row : HeldRow(row) => HeldRow(row)'
  BY DEF HeldRow, StoreGrows, Extended
<1> QED
  BY <1>1 DEF OpOK, StoreGrows, Extended

LEMMA HeldKept ==
  ASSUME TypeOK, StoreGrows, NodesGrow, NEW o, Held(o)
  PROVE  Held(o)'
<1>1. OpOK(o)'
  BY OpOKKept DEF Held
<1>2. CASE o.step = "fork.insert"
  <2>1. o.row.head_rev \in RevId \cup {NULL} /\ HeadRow(o.row)
    BY <1>2 DEF Held, OpOK, HeldRow
  <2> QED BY <1>1, <1>2, <2>1, HeadRowKept DEF Held
<1>3. CASE o.step \in {"merge.target", "merge.forward"}
  <2>1. o.source.head_rev \in RevId \cup {NULL} /\ HeadRow(o.source)
    BY <1>3 DEF Held, OpOK, HeldRow
  <2>2. HeadRow(o.source)'
    BY <2>1, HeadRowKept
  <2>3. ASSUME o.step = "merge.forward" PROVE ForwardReady(o)'
    <3>1. /\ ForwardReady(o)
          /\ o.target \in DOMAIN branch
          /\ o.target_head \in RevId
          /\ o.source.head_rev \in RevId
      BY <2>1, <2>3 DEF Held, OpOK, ForwardReady, FastForwards
    <3>2. /\ branch'[o.target].world = branch[o.target].world
          /\ branch'[o.target].play = branch[o.target].play
          /\ branch'[o.target].fork_base = branch[o.target].fork_base
      BY <3>1 DEF StoreGrows
    <3>3. Extended
      BY DEF StoreGrows
    <3>4. FastForwards(o.target_head, o.source.head_rev)'
      BY <3>1, <3>3, AncestorKept DEF ForwardReady, FastForwards
    <3>5. PICK base : base = branch[o.target].fork_base
      OBVIOUS
    <3>6. base # NULL => IsAncestor(base, o.target_head)'
      BY <3>1, <3>3, <3>5, AncestorKept DEF ForwardReady
    <3> QED BY <3>1, <3>2, <3>4, <3>5, <3>6 DEF ForwardReady
  <2> QED BY <1>1, <1>3, <2>2, <2>3 DEF Held
<1>4. CASE o.step = "edge.insert"
  <2>1. EndsRead(o.edge)
    BY <1>4 DEF Held
  <2>2. EndsRead(o.edge)'
    BY <2>1 DEF EndsRead, NodesGrow
  <2> QED BY <1>1, <1>4, <2>2 DEF Held
<1>5. CASE o.step = "edge.to"
  <2>1. FromRead(o)
    BY <1>5 DEF Held
  <2>2. FromRead(o)'
    BY <2>1 DEF FromRead, NodesGrow
  <2> QED BY <1>1, <1>5, <2>2 DEF Held
<1>6. CASE o.step \notin {"fork.insert", "merge.target", "merge.forward",
                         "edge.to", "edge.insert"}
  BY <1>1, <1>6 DEF Held
<1> QED BY <1>2, <1>3, <1>4, <1>5, <1>6

LEMMA OpsKept ==
  ASSUME TypeOK, OpsOK, StoreGrows, NodesGrow, NEW t \in Thread, NEW o, Held(o),
         op' = [op EXCEPT ![t] = o]
  PROVE  OpsOK'
<1>1. ASSUME NEW u \in Thread
      PROVE  Held(op[u])'
  <2>1. PICK h : h = op'[u]
    OBVIOUS
  <2>2. Held(h)
    BY <2>1 DEF OpsOK
  <2>3. Held(h)'
    BY <2>2, HeldKept
  <2> QED BY <2>1, <2>3
<1>2. op' = [u \in Thread |-> op'[u]]
  BY DEF OpsOK
<1> QED BY <1>1, <1>2 DEF OpsOK

LEMMA HeldIdle == Held(Idle)
BY DEF Held, OpOK, Idle, Step

-----------------------------------------------------------------------------
(* Steps on the canon. *)

\* A commit, refused or not, keeps what a branch was forked from.
LEMMA CommitKeepsRows ==
  ASSUME TypeOK, NEW w \in WorldId, NEW p \in PlayId, NEW b \in BranchId,
         NEW base, NEW patch \in PatchType, CommitRevision(w, p, b, base, patch)
  PROVE  /\ DOMAIN branch \subseteq DOMAIN branch'
         /\ \A c \in DOMAIN branch :
               /\ branch'[c].world = branch[c].world
               /\ branch'[c].play = branch[c].play
               /\ branch'[c].fork_base = branch[c].fork_base
         /\ \A c \in DOMAIN branch' \ DOMAIN branch : branch'[c].fork_base = NULL
<1> DEFINE row == EnsuredBranch(w, p, b)
<1>1. row \in BranchRow
  BY EnsuredBranchType
<1>2. /\ b \in DOMAIN branch => row = branch[b]
      /\ b \notin DOMAIN branch => row.fork_base = NULL
  BY DEF EnsuredBranch
<1>3. \E new : /\ branch' = SetRow(branch, b, new)
               /\ new.world = row.world
               /\ new.play = row.play
               /\ new.fork_base = row.fork_base
  <2>1. CASE CommitStale(w, p, b, base)
    BY <2>1 DEF CommitStale
  <2>2. CASE CommitOnHead(w, p, b, base, patch)
    <3>1. PICK rev, node : branch' = SetRow(branch, b, MoveHead(row, rev, node))
      BY <2>2 DEF CommitOnHead
    <3> HIDE DEF row
    <3>2. /\ MoveHead(row, rev, node).world = row.world
          /\ MoveHead(row, rev, node).play = row.play
          /\ MoveHead(row, rev, node).fork_base = row.fork_base
      BY <1>1 DEF MoveHead, BranchRow
    <3> QED BY <3>1, <3>2
  <2> QED BY <2>1, <2>2 DEF CommitRevision
<1> HIDE DEF row
<1> QED BY <1>2, <1>3 DEF SetRow

LEMMA CommitGrows ==
  ASSUME TypeOK, NEW w \in WorldId, NEW p \in PlayId, NEW b \in BranchId,
         NEW base, NEW patch \in PatchType, CommitRevision(w, p, b, base, patch)
  PROVE  StoreGrows
<1>1. world \subseteq world' /\ DOMAIN playthrough \subseteq DOMAIN playthrough'
  BY EnsuredWorldPlay DEF CommitRevision, CommitStale, CommitOnHead
<1>2. Extended
  <2>1. CASE CommitStale(w, p, b, base)
    <3>1. UNCHANGED world_revision
      BY <2>1, StaleEffect
    <3> QED BY <3>1 DEF Extended, RevId
  <2>2. CASE CommitOnHead(w, p, b, base, patch)
    <3>1. PICK rev, from, snap : OnHeadStep(w, p, b, base, patch, rev, from, snap)
      BY <2>2, CommitOnHeadStep
    <3> QED BY <3>1 DEF OnHeadStep, Extended
  <2> QED BY <2>1, <2>2 DEF CommitRevision
<1> QED BY <1>1, <1>2, CommitKeepsRows DEF StoreGrows

\* No commit takes a revision out of a branch's reach.
LEMMA CommitReach ==
  ASSUME TypeOK, NEW w \in WorldId, NEW p \in PlayId, NEW b \in BranchId,
         NEW base, NEW patch \in PatchType, CommitRevision(w, p, b, base, patch),
         NEW c \in BranchId
  PROVE  Reach(c) \subseteq Reach(c)'
<1>1. CASE CommitStale(w, p, b, base)
  BY <1>1, StaleReach
<1>2. CASE CommitOnHead(w, p, b, base, patch)
  <2>1. PICK rev, from, snap : OnHeadStep(w, p, b, base, patch, rev, from, snap)
    BY <1>2, CommitOnHeadStep
  <2>2. TypeOK'
    BY CommitTypeOK
  <2>3. /\ Reach(b)' = Reach(b) \cup {rev}
        /\ c # b => Reach(c)' = Reach(c)
    BY <2>1, <2>2, OnHeadReach
  <2> QED BY <2>3
<1> QED BY <1>1, <1>2 DEF CommitRevision

LEMMA CommitStoreOK ==
  ASSUME StoreOK, NEW w \in WorldId, NEW p \in PlayId, NEW b \in BranchId,
         NEW base, NEW patch \in PatchType, CommitRevision(w, p, b, base, patch)
  PROVE  StoreOK' /\ StoreGrows
<1>1. TypeOK' /\ HeadMatchesSnapshot'
  BY CommitTypeOK, CommitHeadMatches DEF StoreOK
<1>2. \A c \in BranchId : Reach(c) \subseteq Reach(c)'
  BY CommitReach DEF StoreOK
<1>3. ForkBaseIsAncestor'
  <2>1. ASSUME NEW c \in DOMAIN branch', branch'[c].fork_base # NULL
        PROVE  branch'[c].fork_base \in Reach(c)'
    <3>1. /\ c \in DOMAIN branch
          /\ branch'[c].fork_base = branch[c].fork_base
      BY <2>1, CommitKeepsRows DEF StoreOK
    <3>2. branch[c].fork_base \in Reach(c) /\ c \in BranchId
      BY <2>1, <3>1 DEF StoreOK, ForkBaseIsAncestor, TypeOK
    <3> QED BY <1>2, <3>1, <3>2
  <2> QED BY <2>1 DEF ForkBaseIsAncestor
<1>4. StoreGrows
  BY CommitGrows DEF StoreOK
<1> QED BY <1>1, <1>3, <1>4 DEF StoreOK

LEMMA StoreUnchanged ==
  ASSUME StoreOK, UNCHANGED storeVars
  PROVE  StoreOK' /\ StoreGrows
<1> USE DEF storeVars
<1>1. UNCHANGED <<RevId, FactId>>
  BY DEF RevId, FactId
<1>2. TypeOK'
  BY <1>1 DEF StoreOK, TypeOK
<1>3. HeadMatchesSnapshot'
  BY DEF StoreOK, HeadMatchesSnapshot
<1>4. Extended /\ StoreGrows
  BY <1>1 DEF Extended, StoreGrows
<1>5. \A b \in BranchId : Reach(b)' = Reach(b)
  BY <1>4, ReachKept DEF StoreOK
<1>6. ForkBaseIsAncestor'
  BY <1>5 DEF StoreOK, ForkBaseIsAncestor, TypeOK
<1> QED BY <1>2, <1>3, <1>4, <1>6 DEF StoreOK

\* One row of branch is inserted or changes its head; its fork base, when it
\* has one, is an ancestor of its head.
LEMMA BranchRowStep ==
  ASSUME StoreOK, NEW b \in BranchId, NEW row, HeldRow(row), HeadRow(row),
         branch' = SetRow(branch, b, row),
         UNCHANGED <<world, playthrough, world_revision, fact, canon_conflict>>,
         b \in DOMAIN branch =>
            /\ row.world = branch[b].world
            /\ row.play = branch[b].play
            /\ row.fork_base = branch[b].fork_base,
         row.fork_base # NULL =>
            /\ row.head_rev # NULL
            /\ row.fork_base \in RevId
            /\ IsAncestor(row.fork_base, row.head_rev)
  PROVE  /\ StoreOK' /\ StoreGrows
         /\ \A c \in BranchId \ {b} : Reach(c)' = Reach(c)
<1>1. /\ row \in BranchRow
      /\ DOMAIN branch' = DOMAIN branch \cup {b}
      /\ branch' \in [DOMAIN branch' -> BranchRow]
      /\ DOMAIN branch' \subseteq BranchId
      /\ branch'[b] = row
      /\ \A c \in DOMAIN branch \ {b} : branch'[c] = branch[c]
  BY BranchTableType DEF StoreOK, HeldRow
<1>2. UNCHANGED <<RevId, FactId>>
  BY DEF RevId, FactId
<1>3. TypeOK'
  <2>1. \A c \in DOMAIN branch' :
           /\ branch'[c].world \in world'
           /\ branch'[c].play \in DOMAIN playthrough'
           /\ branch'[c].head_rev \in RevId' \cup {NULL}
           /\ branch'[c].fork_base \in RevId' \cup {NULL}
    BY <1>1, <1>2 DEF StoreOK, TypeOK, HeldRow
  <2> QED BY <1>1, <1>2, <2>1 DEF StoreOK, TypeOK
<1>4. HeadMatchesSnapshot'
  BY <1>1 DEF StoreOK, HeadMatchesSnapshot, HeadRow
<1>5. Extended
  BY <1>2 DEF Extended
<1>6. StoreGrows
  BY <1>1, <1>5 DEF StoreGrows
<1>7. ASSUME NEW c \in BranchId \ {b} PROVE Reach(c)' = Reach(c)
  BY <1>1, <1>5, ReachKept DEF StoreOK
<1>8. ForkBaseIsAncestor'
  <2>1. ASSUME NEW c \in DOMAIN branch', branch'[c].fork_base # NULL
        PROVE  branch'[c].fork_base \in Reach(c)'
    <3>1. CASE c = b
      <4>1. PICK f, h : f = row.fork_base /\ h = row.head_rev
        OBVIOUS
      <4>2. f \in RevId /\ h \in RevId /\ IsAncestor(f, h)
        BY <1>1, <2>1, <3>1, <4>1 DEF HeldRow
      <4>3. IsAncestor(f, h)'
        BY <1>5, <4>2, AncestorKept DEF StoreOK
      <4>4. h # NULL
        BY <1>1, <2>1, <3>1, <4>1
      <4> QED BY <1>1, <1>2, <3>1, <4>1, <4>2, <4>3, <4>4 DEF Reach
    <3>2. CASE c # b
      BY <1>1, <1>7, <2>1, <3>2 DEF StoreOK, ForkBaseIsAncestor
    <3> QED BY <3>1, <3>2
  <2> QED BY <2>1 DEF ForkBaseIsAncestor
<1> QED BY <1>3, <1>4, <1>6, <1>7, <1>8 DEF StoreOK

-----------------------------------------------------------------------------
(* One thread moves on: what the others hold stays true. *)

LEMMA NodesUnchanged ==
  ASSUME NodesOK, StoreGrows, UNCHANGED nodeVars
  PROVE  NodesOK' /\ NodesGrow
<1> USE DEF nodeVars
<1>1. EdgesHaveEndpoints'
  BY DEF NodesOK, EdgesHaveEndpoints
<1>2. NodesOK'
  BY <1>1 DEF NodesOK, StoreGrows
<1>3. NodesGrow
  BY DEF NodesOK, NodesGrow
<1> QED BY <1>2, <1>3

\* A step that leaves the nodes and edges alone.
LEMMA StoreStepInv ==
  ASSUME PlotInv, StoreOK', StoreGrows, UNCHANGED nodeVars,
         NEW t \in Thread, NEW o, Held(o), op' = [op EXCEPT ![t] = o]
  PROVE  PlotInv'
BY NodesUnchanged, OpsKept DEF PlotInv, StoreOK

\* A step that only reads.
LEMMA ReadInv ==
  ASSUME PlotInv, UNCHANGED <<storeVars, nodeVars>>,
         NEW t \in Thread, NEW o, Held(o), op' = [op EXCEPT ![t] = o]
  PROVE  PlotInv'
BY StoreUnchanged, StoreStepInv DEF PlotInv

\* A step that leaves the canon alone.
LEMMA NodeStepInv ==
  ASSUME PlotInv, UNCHANGED storeVars, NodesOK', NodesGrow,
         NEW t \in Thread, NEW o, Held(o), op' = [op EXCEPT ![t] = o]
  PROVE  PlotInv'
BY StoreUnchanged, OpsKept DEF PlotInv, StoreOK

\* A stored row may be held.
LEMMA StoredRow ==
  ASSUME StoreOK, NEW b \in DOMAIN branch
  PROVE  HeldRow(branch[b]) /\ HeadRow(branch[b])
<1>1. HeldRow(branch[b])
  BY DEF StoreOK, TypeOK, HeldRow
<1>2. HeadRow(branch[b])
  BY DEF StoreOK, HeadMatchesSnapshot, HeadRow
<1> QED BY <1>1, <1>2

-----------------------------------------------------------------------------
(* advance_branch and direct commits *)

LEMMA ClientCommitInv ==
  ASSUME PlotInv, NEW t \in Thread, ClientCommit(t)
  PROVE  PlotInv'
<1>1. StoreOK' /\ StoreGrows
  BY CommitStoreOK, PatchAssumption DEF PlotInv, ClientCommit, StoreNext
<1>2. UNCHANGED nodeVars /\ op' = op
  BY DEF ClientCommit
<1>3. Held(op[t]) /\ op' = [op EXCEPT ![t] = op[t]]
  BY <1>2 DEF PlotInv, OpsOK
<1>4. PICK o : o = op[t]
  OBVIOUS
<1> QED BY <1>1, <1>2, <1>3, <1>4, StoreStepInv

LEMMA AdvanceInv ==
  ASSUME PlotInv, NEW t \in Thread,
         \/ \E b \in BranchId, n \in NodeId : AdvanceReadNode(t, b, n)
         \/ AdvanceReadBranch(t)
         \/ AdvanceCommit(t)
  PROVE  PlotInv'
<1>1. ASSUME NEW b \in BranchId, NEW n \in NodeId, AdvanceReadNode(t, b, n)
      PROVE  PlotInv'
  <2>1. PICK o : o = [step |-> "advance.branch", branch |-> b, node |-> n,
                      world |-> plot_node[n]]
    OBVIOUS
  <2>2. Held(o)
    BY <2>1 DEF Held, OpOK, Step
  <2>3. op' = [op EXCEPT ![t] = o] /\ UNCHANGED <<storeVars, nodeVars>>
    BY <1>1, <2>1 DEF AdvanceReadNode, Begin
  <2> QED BY <2>2, <2>3, ReadInv
<1>2. CASE AdvanceReadBranch(t)
  <2> DEFINE b == op[t].branch
             next == [step |-> "advance.commit", branch |-> b,
                      node |-> op[t].node, world |-> op[t].world,
                      play |-> branch[b].play, base |-> branch[b].head_rev]
             found == b \in DOMAIN branch /\ branch[b].world = op[t].world
  <2>1. PICK o : o = IF found THEN next ELSE Idle
    OBVIOUS
  <2>2. /\ op[t].step = "advance.branch"
        /\ op' = [op EXCEPT ![t] = o]
        /\ UNCHANGED <<storeVars, nodeVars>>
    BY <1>2, <2>1 DEF AdvanceReadBranch, Continue
  <2>3. op[t].node \in NodeId
    BY <2>2 DEF PlotInv, OpsOK, Held, OpOK
  <2>4. found => branch[b].head_rev \in RevId \cup {NULL}
    BY DEF PlotInv, StoreOK, TypeOK
  <2>5. found => Held(next)
    BY <2>3, <2>4 DEF Held, OpOK, Step
  <2> HIDE DEF found, next
  <2>6. Held(o)
    BY <2>1, <2>5, HeldIdle
  <2> QED BY <2>2, <2>6, ReadInv
<1>3. CASE AdvanceCommit(t)
  <2>1. PICK o : o = op[t]
    OBVIOUS
  <2>2. /\ o.step = "advance.commit"
        /\ op' = [op EXCEPT ![t] = Idle]
        /\ CommitRevision(o.world, o.play, o.branch, o.base, MovePatch(o.node))
        /\ UNCHANGED nodeVars
    BY <1>3, <2>1 DEF AdvanceCommit, Finish, Continue
  <2>3. /\ o.node \in NodeId
        /\ o.branch \in DOMAIN branch
        /\ o.world = branch[o.branch].world
        /\ o.play = branch[o.branch].play
    BY <2>1, <2>2 DEF PlotInv, OpsOK, Held, OpOK
  <2>4. o.branch \in BranchId /\ o.world \in WorldId /\ o.play \in PlayId
    BY <2>3 DEF PlotInv, StoreOK, TypeOK
  <2>5. MovePatch(o.node) \in PatchType
    BY <2>3 DEF MovePatch, PatchType
  <2>6. StoreOK' /\ StoreGrows
    BY <2>2, <2>4, <2>5, CommitStoreOK DEF PlotInv
  <2> QED BY <2>2, <2>6, HeldIdle, StoreStepInv
<1> QED BY <1>1, <1>2, <1>3

-----------------------------------------------------------------------------
(* fork_branch and merge_branch *)

LEMMA ForkInv ==
  ASSUME PlotInv, NEW t \in Thread,
         \/ \E src \in BranchId : ForkRead(t, src)
         \/ \E new \in BranchId : ForkInsert(t, new)
  PROVE  PlotInv'
<1>1. ASSUME NEW src \in BranchId, ForkRead(t, src)
      PROVE  PlotInv'
  <2>1. PICK o : o = [step |-> "fork.insert", source |-> src, row |-> branch[src]]
    OBVIOUS
  <2>2. /\ src \in DOMAIN branch
        /\ op' = [op EXCEPT ![t] = o]
        /\ UNCHANGED <<storeVars, nodeVars>>
    BY <1>1, <2>1 DEF ForkRead, Begin
  <2>3. HeldRow(branch[src]) /\ HeadRow(branch[src])
    BY <2>2, StoredRow DEF PlotInv
  <2>4. Held(o)
    BY <2>1, <2>2, <2>3 DEF Held, OpOK, Step
  <2> QED BY <2>2, <2>4, ReadInv
<1>2. ASSUME NEW new \in BranchId, ForkInsert(t, new)
      PROVE  PlotInv'
  <2>1. PICK o : o = op[t]
    OBVIOUS
  <2> DEFINE row == [o.row EXCEPT !.forked_from = o.source,
                                  !.fork_base = o.row.head_rev]
  <2>2. /\ o.step = "fork.insert"
        /\ op' = [op EXCEPT ![t] = Idle]
        /\ new \notin DOMAIN branch
        /\ branch' = SetRow(branch, new, row)
        /\ UNCHANGED <<world, playthrough, world_revision, fact,
                       canon_conflict, nodeVars>>
    BY <1>2, <2>1 DEF ForkInsert, Finish, Continue
  <2>3. o.source \in DOMAIN branch /\ HeldRow(o.row) /\ HeadRow(o.row)
    BY <2>1, <2>2 DEF PlotInv, OpsOK, Held, OpOK
  <2>4. o.source \in BranchId
    BY <2>3 DEF PlotInv, StoreOK, TypeOK
  <2>5. /\ row \in BranchRow
        /\ row.world = o.row.world /\ row.play = o.row.play
        /\ row.head_rev = o.row.head_rev /\ row.head_node = o.row.head_node
        /\ row.fork_base = o.row.head_rev
    BY <2>3, <2>4 DEF HeldRow, BranchRow
  <2> HIDE DEF row
  <2>6. HeldRow(row) /\ HeadRow(row)
    BY <2>3, <2>5 DEF HeldRow, HeadRow
  <2>7. row.fork_base # NULL =>
           /\ row.head_rev # NULL
           /\ row.fork_base \in RevId
           /\ IsAncestor(row.fork_base, row.head_rev)
    BY <2>5, <2>6, AncestorReflexive DEF HeldRow
  <2>8. StoreOK' /\ StoreGrows
    BY <2>2, <2>6, <2>7, BranchRowStep DEF PlotInv
  <2> QED BY <2>2, <2>8, HeldIdle, StoreStepInv
<1> QED BY <1>1, <1>2

LEMMA MergeReadInv ==
  ASSUME PlotInv, NEW t \in Thread,
         \/ \E src, tgt \in BranchId : MergeReadSource(t, src, tgt)
         \/ MergeReadTarget(t)
  PROVE  PlotInv'
<1>1. ASSUME NEW src \in BranchId, NEW tgt \in BranchId, MergeReadSource(t, src, tgt)
      PROVE  PlotInv'
  <2>1. PICK o : o = [step |-> "merge.target", source |-> branch[src], target |-> tgt]
    OBVIOUS
  <2>2. /\ src \in DOMAIN branch
        /\ op' = [op EXCEPT ![t] = o]
        /\ UNCHANGED <<storeVars, nodeVars>>
    BY <1>1, <2>1 DEF MergeReadSource, Begin
  <2>3. HeldRow(branch[src]) /\ HeadRow(branch[src])
    BY <2>2, StoredRow DEF PlotInv
  <2>4. Held(o)
    BY <2>1, <2>3 DEF Held, OpOK, Step
  <2> QED BY <2>2, <2>4, ReadInv
<1>2. CASE MergeReadTarget(t)
  <2>1. PICK tgt, src, row : tgt = op[t].target /\ src = op[t].source /\ row = branch[tgt]
    OBVIOUS
  <2> DEFINE refused == \/ tgt \notin DOMAIN branch
                        \/ row.world # src.world
                        \/ row.play # src.play
             forward == [step |-> "merge.forward", target |-> tgt, source |-> src,
                         target_head |-> row.head_rev]
             conflict == [step |-> "merge.conflict", target |-> tgt, source |-> src,
                          target_head |-> row.head_rev]
  <2>2. PICK o : o = IF refused THEN Idle
                     ELSE IF FastForwards(row.head_rev, src.head_rev)
                     THEN forward
                     ELSE conflict
    OBVIOUS
  <2>3. /\ op[t].step = "merge.target"
        /\ op' = [op EXCEPT ![t] = o]
        /\ UNCHANGED <<storeVars, nodeVars>>
    BY <1>2, <2>1, <2>2 DEF MergeReadTarget, Continue
  <2>4. HeldRow(src) /\ HeadRow(src)
    BY <2>1, <2>3 DEF PlotInv, OpsOK, Held, OpOK
  <2>5. ASSUME ~refused
        PROVE  /\ tgt \in DOMAIN branch
               /\ row.world = src.world /\ row.play = src.play
               /\ row.head_rev \in RevId \cup {NULL}
    BY <2>1, <2>5 DEF PlotInv, StoreOK, TypeOK
  <2>6. ASSUME ~refused, FastForwards(row.head_rev, src.head_rev)
        PROVE  Held(forward)
    <3>1. row.fork_base # NULL => IsAncestor(row.fork_base, row.head_rev)
      BY <2>1, <2>5, <2>6
         DEF PlotInv, StoreOK, ForkBaseIsAncestor, Reach, FastForwards
    <3>2. ForwardReady(forward)
      BY <2>1, <2>5, <2>6, <3>1 DEF ForwardReady
    <3>3. OpOK(forward)
      BY <2>4, <2>5, <2>6 DEF OpOK, Step
    <3> QED BY <2>4, <3>2, <3>3 DEF Held
  <2>7. ASSUME ~refused
        PROVE  Held(conflict)
    BY <2>4, <2>5, <2>7 DEF Held, OpOK, Step
  <2> HIDE DEF refused, forward, conflict
  <2>8. Held(o)
    BY <2>2, <2>6, <2>7, HeldIdle
  <2> QED BY <2>3, <2>8, ReadInv
<1> QED BY <1>1, <1>2

\* The row that the fast-forward writes.
ForwardedRow(o) == MoveHead(branch[o.target], o.source.head_rev, o.source.head_node)

LEMMA MergeForwardStep ==
  ASSUME PlotInv, NEW t \in Thread, NEW o, o = op[t], MergeForward(t)
  PROVE  /\ StoreOK' /\ StoreGrows
         /\ o.step = "merge.forward" /\ ForwardReady(o)
         /\ o.target \in DOMAIN branch /\ o.target_head \in RevId
         /\ o.source.head_rev \in RevId
         /\ op' = [op EXCEPT ![t] = Idle]
         /\ o.target \in DOMAIN branch' /\ branch'[o.target].head_rev = o.source.head_rev
         /\ \A c \in BranchId \ {o.target} : Reach(c)' = Reach(c)
<1>1. /\ o.step = "merge.forward"
      /\ op' = [op EXCEPT ![t] = Idle]
      /\ branch' = SetRow(branch, o.target, ForwardedRow(o))
      /\ UNCHANGED <<world, playthrough, world_revision, fact,
                     canon_conflict, nodeVars>>
  BY DEF MergeForward, Finish, Continue, ForwardedRow
<1>2. /\ o.target \in DOMAIN branch
      /\ HeldRow(o.source) /\ HeadRow(o.source)
      /\ ForwardReady(o)
      /\ o.target_head \in RevId \cup {NULL}
  BY <1>1 DEF PlotInv, OpsOK, Held, OpOK
<1>3. o.target_head \in RevId /\ o.source.head_rev \in RevId
  BY <1>2 DEF ForwardReady, FastForwards, HeldRow
<1>4. PICK old, row : old = branch[o.target] /\ row = ForwardedRow(o)
  OBVIOUS
<1>5. HeldRow(old)
  BY <1>2, <1>4, StoredRow DEF PlotInv
<1>6. /\ row \in BranchRow
      /\ row.head_rev = o.source.head_rev
      /\ row.head_node = o.source.head_node
      /\ row.world = old.world /\ row.play = old.play
      /\ row.fork_base = old.fork_base
  BY <1>2, <1>4, <1>5 DEF ForwardedRow, MoveHead, HeldRow, BranchRow
<1>7. HeldRow(row)
  BY <1>3, <1>5, <1>6 DEF HeldRow
<1>8. HeadRow(row)
  BY <1>2, <1>4, <1>6 DEF HeadRow, ForwardReady
<1>9. ASSUME row.fork_base # NULL
      PROVE  /\ row.head_rev # NULL
             /\ row.fork_base \in RevId
             /\ IsAncestor(row.fork_base, row.head_rev)
  <2>1. IsAncestor(row.fork_base, o.target_head)
    BY <1>2, <1>4, <1>6, <1>9 DEF ForwardReady
  <2>2. IsAncestor(o.target_head, row.head_rev) /\ o.source.head_rev # NULL
    BY <1>2, <1>6 DEF ForwardReady, FastForwards
  <2>3. IsAncestor(row.fork_base, row.head_rev)
    BY <2>1, <2>2, AncestorOfAncestor
  <2>4. row.fork_base \in RevId
    BY <1>3, <2>1, AncestorKnown DEF PlotInv, StoreOK
  <2> QED BY <1>6, <2>2, <2>3, <2>4
<1>10. o.target \in BranchId
  BY <1>2 DEF PlotInv, StoreOK, TypeOK
<1>11. /\ StoreOK' /\ StoreGrows
       /\ \A c \in BranchId \ {o.target} : Reach(c)' = Reach(c)
  BY <1>1, <1>4, <1>6, <1>7, <1>8, <1>9, <1>10, BranchRowStep DEF PlotInv
<1>12. o.target \in DOMAIN branch' /\ branch'[o.target] = row
  BY <1>1, <1>4 DEF SetRow
<1> QED BY <1>1, <1>2, <1>3, <1>6, <1>11, <1>12

LEMMA MergeWriteInv ==
  ASSUME PlotInv, NEW t \in Thread, MergeForward(t) \/ MergeConflict(t)
  PROVE  PlotInv'
<1>1. PICK o : o = op[t]
  OBVIOUS
<1>2. CASE MergeForward(t)
  <2>1. StoreOK' /\ StoreGrows /\ op' = [op EXCEPT ![t] = Idle]
    BY <1>1, <1>2, MergeForwardStep
  <2>2. UNCHANGED nodeVars
    BY <1>2 DEF MergeForward
  <2> QED BY <2>1, <2>2, HeldIdle, StoreStepInv
<1>3. CASE MergeConflict(t)
  <2>1. PICK ca : /\ o.step = "merge.conflict"
                  /\ op' = [op EXCEPT ![t] = Idle]
                  /\ CreateConflict(o.target, "plot-merge", ca,
                                    o.source.head_rev, o.target_head)
                  /\ UNCHANGED <<world, playthrough, branch, world_revision,
                                 fact, nodeVars>>
    BY <1>1, <1>3 DEF MergeConflict, Finish, Continue
  <2>2. /\ o.target \in DOMAIN branch
        /\ o.source.head_rev \in RevId \cup {NULL}
        /\ o.target_head \in RevId \cup {NULL}
    BY <1>1, <2>1 DEF PlotInv, OpsOK, Held, OpOK, HeldRow
  <2>3. o.target \in BranchId /\ RevId \subseteq Nat /\ TypeOK
    BY <2>2 DEF PlotInv, StoreOK, TypeOK, RevId
  <2>4. /\ canon_conflict' \in Seq(ConflictRow)
        /\ \A k \in DOMAIN canon_conflict' :
              canon_conflict'[k].base \in RevId \cup {NULL}
    BY <2>1, <2>2, <2>3, ConflictTableType
  <2>5. UNCHANGED <<RevId, FactId>>
    BY <2>1 DEF RevId, FactId
  <2>6. TypeOK'
    BY <2>1, <2>3, <2>4, <2>5 DEF TypeOK
  <2>7. HeadMatchesSnapshot'
    BY <2>1 DEF PlotInv, StoreOK, HeadMatchesSnapshot
  <2>8. Extended /\ StoreGrows
    BY <2>1, <2>5 DEF Extended, StoreGrows
  <2>9. \A b \in BranchId : Reach(b)' = Reach(b)
    BY <2>1, <2>3, <2>8, ReachKept
  <2>10. ForkBaseIsAncestor'
    BY <2>1, <2>3, <2>9 DEF PlotInv, StoreOK, ForkBaseIsAncestor, TypeOK
  <2>11. StoreOK' /\ StoreGrows
    BY <2>6, <2>7, <2>8, <2>10 DEF StoreOK
  <2> QED BY <2>1, <2>11, HeldIdle, StoreStepInv
<1> QED BY <1>2, <1>3

-----------------------------------------------------------------------------
(* Nodes and edges *)

LEMMA CreateInv ==
  ASSUME PlotInv, NEW t \in Thread, NEW w \in WorldId, NEW n \in NodeId,
         CreatePlotNode(t, w, n)
  PROVE  PlotInv'
<1>1. /\ w \in world
      /\ n \notin DOMAIN plot_node \cup deleted_node
      /\ plot_node' = SetRow(plot_node, n, w)
      /\ UNCHANGED <<storeVars, deleted_node, plot_edge, op>>
  BY DEF CreatePlotNode
<1>2. /\ DOMAIN plot_node' = DOMAIN plot_node \cup {n}
      /\ plot_node'[n] = w
      /\ \A m \in DOMAIN plot_node : plot_node'[m] = plot_node[m]
  BY <1>1 DEF SetRow
<1>3. EdgesHaveEndpoints'
  BY <1>1, <1>2 DEF PlotInv, NodesOK, EdgesHaveEndpoints
<1>4. world' = world
  BY <1>1 DEF storeVars
<1>5. NodesOK'
  BY <1>1, <1>2, <1>3, <1>4 DEF PlotInv, NodesOK
<1>6. NodesGrow
  BY <1>1, <1>2 DEF PlotInv, NodesOK, NodesGrow
<1>7. PICK o : o = op[t]
  OBVIOUS
<1>8. Held(o) /\ op' = [op EXCEPT ![t] = o]
  BY <1>1, <1>7 DEF PlotInv, OpsOK
<1> QED BY <1>1, <1>5, <1>6, <1>8, NodeStepInv

LEMMA EdgeInv ==
  ASSUME PlotInv, NEW t \in Thread,
         \/ \E w \in WorldId, from, to \in NodeId : EdgeReadFrom(t, w, from, to)
         \/ EdgeReadTo(t)
         \/ EdgeInsert(t)
  PROVE  PlotInv'
<1>1. ASSUME NEW w \in WorldId, NEW from \in NodeId, NEW to \in NodeId,
             EdgeReadFrom(t, w, from, to)
      PROVE  PlotInv'
  <2>1. PICK o : o = [step |-> "edge.to", world |-> w, edge |-> <<from, to>>]
    OBVIOUS
  <2>2. /\ from \in DOMAIN plot_node
        /\ plot_node[from] = w
        /\ op' = [op EXCEPT ![t] = o]
        /\ UNCHANGED <<storeVars, nodeVars>>
    BY <1>1, <2>1 DEF EdgeReadFrom, Begin
  <2>3. FromRead(o) /\ o.edge \in NodeId \X NodeId
    BY <2>1, <2>2 DEF FromRead
  <2>4. Held(o)
    BY <2>1, <2>3 DEF Held, OpOK, Step
  <2> QED BY <2>2, <2>4, ReadInv
<1>2. CASE EdgeReadTo(t)
  <2>1. PICK h : h = op[t]
    OBVIOUS
  <2>2. PICK edge : edge = h.edge
    OBVIOUS
  <2>3. PICK o : o = IF /\ edge[2] \in DOMAIN plot_node
                        /\ plot_node[edge[2]] = h.world
                     THEN [step |-> "edge.insert", edge |-> edge] ELSE Idle
    OBVIOUS
  <2>4. /\ h.step = "edge.to"
        /\ op' = [op EXCEPT ![t] = o]
        /\ UNCHANGED <<storeVars, nodeVars>>
    BY <1>2, <2>1, <2>2, <2>3 DEF EdgeReadTo, Continue
  <2>5. FromRead(h) /\ edge \in NodeId \X NodeId
    BY <2>1, <2>2, <2>4 DEF PlotInv, OpsOK, Held, OpOK
  <2>6. CASE o = Idle
    BY <2>4, <2>6, HeldIdle, ReadInv
  <2>7. CASE o # Idle
    <3>1. /\ o = [step |-> "edge.insert", edge |-> edge]
          /\ edge[2] \in DOMAIN plot_node
          /\ plot_node[edge[2]] = h.world
      BY <2>3, <2>7
    <3>2. EndsRead(edge)
      BY <2>2, <2>5, <3>1 DEF FromRead, EndsRead
    <3>3. Held(o)
      BY <2>5, <3>1, <3>2 DEF Held, OpOK, Step
    <3> QED BY <2>4, <3>3, ReadInv
  <2> QED BY <2>6, <2>7
<1>3. CASE EdgeInsert(t)
  <2>1. PICK e : e = op[t].edge
    OBVIOUS
  <2>2. /\ op[t].step = "edge.insert"
        /\ op' = [op EXCEPT ![t] = Idle]
        /\ plot_edge' = IF {e[1], e[2]} \subseteq DOMAIN plot_node
                        THEN plot_edge \cup {e}
                        ELSE plot_edge
        /\ UNCHANGED <<storeVars, plot_node, deleted_node>>
    BY <1>3, <2>1 DEF EdgeInsert, Finish, Continue
  <2>3. EndsRead(e) /\ e \in NodeId \X NodeId
    BY <2>1, <2>2 DEF PlotInv, OpsOK, Held, OpOK
  <2>4. EdgesHaveEndpoints'
    BY <2>2, <2>3 DEF PlotInv, NodesOK, EdgesHaveEndpoints, EndsRead
  <2>5. world' = world
    BY <2>2 DEF storeVars
  <2>6. NodesOK'
    BY <2>2, <2>3, <2>4, <2>5 DEF PlotInv, NodesOK
  <2>7. NodesGrow
    BY <2>2 DEF PlotInv, NodesOK, NodesGrow
  <2> QED BY <2>2, <2>6, <2>7, HeldIdle, NodeStepInv
<1> QED BY <1>1, <1>2, <1>3

LEMMA DeleteInv ==
  ASSUME PlotInv, NEW t \in Thread,
         \/ \E n \in NodeId : DeleteRead(t, n)
         \/ DeleteCheck(t)
         \/ DeleteEdges(t)
         \/ DeleteNode(t)
  PROVE  PlotInv'
<1>1. ASSUME NEW n \in NodeId, DeleteRead(t, n)
      PROVE  PlotInv'
  <2>1. PICK o : o = [step |-> "delete.check", node |-> n]
    OBVIOUS
  <2>2. op' = [op EXCEPT ![t] = o] /\ UNCHANGED <<storeVars, nodeVars>>
    BY <1>1, <2>1 DEF DeleteRead, Begin
  <2>3. Held(o)
    BY <2>1 DEF Held, OpOK, Step
  <2> QED BY <2>2, <2>3, ReadInv
<1>2. CASE DeleteCheck(t)
  <2>1. PICK h : h = op[t]
    OBVIOUS
  <2>2. PICK n : n = h.node
    OBVIOUS
  <2>3. PICK o : o = IF \A b \in DOMAIN branch : branch[b].head_node # n
                     THEN [step |-> "delete.edges", node |-> n] ELSE Idle
    OBVIOUS
  <2>4. /\ h.step = "delete.check"
        /\ op' = [op EXCEPT ![t] = o]
        /\ UNCHANGED <<storeVars, nodeVars>>
    BY <1>2, <2>1, <2>2, <2>3 DEF DeleteCheck, Continue
  <2>5. n \in NodeId
    BY <2>1, <2>2, <2>4 DEF PlotInv, OpsOK, Held, OpOK
  <2>6. o = Idle \/ o = [step |-> "delete.edges", node |-> n]
    BY <2>3
  <2>7. Held(o)
    BY <2>5, <2>6, HeldIdle DEF Held, OpOK, Step
  <2> QED BY <2>4, <2>7, ReadInv
<1>3. CASE DeleteEdges(t)
  <2>1. PICK h, o : h = op[t] /\ o = [h EXCEPT !.step = "delete.node"]
    OBVIOUS
  <2>2. /\ h.step = "delete.edges"
        /\ op' = [op EXCEPT ![t] = o]
        /\ plot_edge' \subseteq plot_edge
        /\ UNCHANGED <<storeVars, plot_node, deleted_node>>
    BY <1>3, <2>1 DEF DeleteEdges, Continue
  <2>3. h.node \in NodeId
    BY <2>1, <2>2 DEF PlotInv, OpsOK, Held, OpOK
  <2>4. Held(o)
    BY <2>1, <2>2, <2>3 DEF Held, OpOK, Step
  <2>5. world' = world
    BY <2>2 DEF storeVars
  <2>6. NodesOK'
    BY <2>2, <2>5 DEF PlotInv, NodesOK, EdgesHaveEndpoints
  <2>7. NodesGrow
    BY <2>2 DEF PlotInv, NodesOK, NodesGrow
  <2> QED BY <2>2, <2>4, <2>6, <2>7, NodeStepInv
<1>4. CASE DeleteNode(t)
  <2>1. PICK n : n = op[t].node
    OBVIOUS
  <2>2. /\ op[t].step = "delete.node"
        /\ op' = [op EXCEPT ![t] = Idle]
        /\ plot_node' = [m \in DOMAIN plot_node \ {n} |-> plot_node[m]]
        /\ deleted_node' = deleted_node \cup {n}
        /\ plot_edge' = plot_edge \ EdgesAt(n)
        /\ UNCHANGED storeVars
    BY <1>4, <2>1 DEF DeleteNode, Finish, Continue
  <2>3. n \in NodeId
    BY <2>1, <2>2 DEF PlotInv, OpsOK, Held, OpOK
  <2>4. EdgesHaveEndpoints'
    BY <2>2 DEF PlotInv, NodesOK, EdgesHaveEndpoints, EdgesAt
  <2>5. world' = world
    BY <2>2 DEF storeVars
  <2>6. NodesOK'
    BY <2>2, <2>3, <2>4, <2>5 DEF PlotInv, NodesOK
  <2>7. NodesGrow
    BY <2>2 DEF PlotInv, NodesOK, NodesGrow
  <2> QED BY <2>2, <2>6, <2>7, HeldIdle, NodeStepInv
<1> QED BY <1>1, <1>2, <1>3, <1>4

-----------------------------------------------------------------------------
(* The inductive invariant and what follows from it. *)

LEMMA InitPlotInv == Init => PlotInv
<1> SUFFICES ASSUME Init PROVE PlotInv
  OBVIOUS
<1>1. TypeOK
  BY InitTypeOK DEF Init
<1>2. HeadMatchesSnapshot /\ ForkBaseIsAncestor
  BY DEF Init, StoreInit, HeadMatchesSnapshot, ForkBaseIsAncestor
<1>3. NodesOK
  BY DEF Init, NodesOK, EdgesHaveEndpoints
<1>4. OpsOK
  BY HeldIdle DEF Init, OpsOK
<1> QED BY <1>1, <1>2, <1>3, <1>4 DEF PlotInv, StoreOK

LEMMA NextPlotInv == PlotInv /\ [Next]_vars => PlotInv'
<1> SUFFICES ASSUME PlotInv, [Next]_vars PROVE PlotInv'
  OBVIOUS
<1>1. ASSUME NEW t \in Thread, BranchStep(t)
      PROVE  PlotInv'
  BY <1>1, ClientCommitInv, AdvanceInv, ForkInv, MergeReadInv, MergeWriteInv
     DEF BranchStep
<1>2. ASSUME NEW t \in Thread, NodeStep(t)
      PROVE  PlotInv'
  BY <1>2, EdgeInv, DeleteInv DEF NodeStep
<1>3. ASSUME NEW t \in Thread, Create(t)
      PROVE  PlotInv'
  BY <1>3, CreateInv DEF Create
<1>4. CASE UNCHANGED vars
  <2>1. StoreOK' /\ StoreGrows
    BY <1>4, StoreUnchanged DEF vars, PlotInv
  <2>2. NodesOK' /\ NodesGrow
    BY <1>4, <2>1, NodesUnchanged DEF vars, PlotInv
  <2>3. ASSUME NEW t \in Thread
        PROVE  Held(op[t])'
    <3>1. PICK h : h = op[t]
      OBVIOUS
    <3>2. Held(h)'
      BY <2>1, <2>2, <3>1, HeldKept DEF PlotInv, StoreOK, OpsOK
    <3> QED BY <1>4, <3>1, <3>2 DEF vars
  <2>4. OpsOK'
    BY <1>4, <2>3 DEF OpsOK, PlotInv, vars
  <2> QED BY <2>1, <2>2, <2>4 DEF PlotInv
<1> QED BY <1>1, <1>2, <1>3, <1>4 DEF Next

LEMMA PlotInvariant == Spec => []PlotInv
BY InitPlotInv, NextPlotInv, PTL DEF Spec

\* Every row of the plot graph, and every row a thread still holds, refers only
\* to rows that exist.
THEOREM PlotTypeCorrect == Spec => []PlotTypeOK
<1>1. PlotInv => PlotTypeOK
  BY DEF PlotInv, StoreOK, NodesOK, OpsOK, Held, PlotTypeOK
<1> QED BY <1>1, PlotInvariant, PTL

\* Branch heads agree with their snapshots also when merges overwrite a head
\* with the columns of a row read earlier.
THEOREM PlotHeadsMatch == Spec => []HeadMatchesSnapshot
<1>1. PlotInv => HeadMatchesSnapshot
  BY DEF PlotInv, StoreOK
<1> QED BY <1>1, PlotInvariant, PTL

\* A fork never loses the revision it started from, whatever races.
THEOREM ForksKeepBase == Spec => []ForkBaseIsAncestor
<1>1. PlotInv => ForkBaseIsAncestor
  BY DEF PlotInv, StoreOK
<1> QED BY <1>1, PlotInvariant, PTL

\* An edge joins two existing nodes of one world, although nodes are looked up
\* before an edge is inserted and deleted after their edges are.
THEOREM EdgesKeepEndpoints == Spec => []EdgesHaveEndpoints
<1>1. PlotInv => EdgesHaveEndpoints
  BY DEF PlotInv, NodesOK
<1> QED BY <1>1, PlotInvariant, PTL

-----------------------------------------------------------------------------
(* Only a stale fast-forward takes revisions out of reach. *)

NoDrop == \A b \in BranchId : Dropping(b) => \E t \in Thread : StaleForward(t, b)

LEMMA KeptReach ==
  ASSUME StoreOK, UNCHANGED <<world_revision, branch>>
  PROVE  NoDrop
<1>1. Extended
  BY DEF Extended, RevId
<1>2. \A b \in BranchId : Reach(b)' = Reach(b)
  BY <1>1, ReachKept DEF StoreOK
<1> QED BY <1>2 DEF NoDrop, Dropping

LEMMA CommitNoDrop ==
  ASSUME StoreOK, NEW w \in WorldId, NEW p \in PlayId, NEW b \in BranchId,
         NEW base, NEW patch \in PatchType, CommitRevision(w, p, b, base, patch)
  PROVE  NoDrop
<1>1. \A c \in BranchId : Reach(c) \subseteq Reach(c)'
  BY CommitReach DEF StoreOK
<1> QED BY <1>1 DEF NoDrop, Dropping

LEMMA AdvanceNoDrop ==
  ASSUME PlotInv, NEW t \in Thread, AdvanceCommit(t)
  PROVE  NoDrop
<1>1. PICK o : o = op[t]
  OBVIOUS
<1>2. /\ o.step = "advance.commit"
      /\ CommitRevision(o.world, o.play, o.branch, o.base, MovePatch(o.node))
  BY <1>1 DEF AdvanceCommit, Finish, Continue
<1>3. /\ o.node \in NodeId
      /\ o.branch \in DOMAIN branch
      /\ o.world = branch[o.branch].world
      /\ o.play = branch[o.branch].play
  BY <1>1, <1>2 DEF PlotInv, OpsOK, Held, OpOK
<1>4. o.branch \in BranchId /\ o.world \in WorldId /\ o.play \in PlayId
  BY <1>3 DEF PlotInv, StoreOK, TypeOK
<1>5. MovePatch(o.node) \in PatchType
  BY <1>3 DEF MovePatch, PatchType
<1> QED BY <1>2, <1>4, <1>5, CommitNoDrop DEF PlotInv

LEMMA ForkNoDrop ==
  ASSUME PlotInv, NEW t \in Thread, NEW new \in BranchId, ForkInsert(t, new)
  PROVE  NoDrop
<1>1. PICK row : branch' = SetRow(branch, new, row)
  BY DEF ForkInsert
<1>2. new \notin DOMAIN branch /\ UNCHANGED world_revision
  BY DEF ForkInsert
<1>3. /\ DOMAIN branch' = DOMAIN branch \cup {new}
      /\ \A c \in DOMAIN branch : branch'[c] = branch[c]
  BY <1>1, <1>2 DEF SetRow
<1>4. Extended
  BY <1>2 DEF Extended, RevId
<1>5. \A c \in BranchId \ {new} : Reach(c)' = Reach(c)
  BY <1>3, <1>4, ReachKept DEF PlotInv, StoreOK
<1>6. Reach(new) = {}
  BY <1>2 DEF Reach
<1> QED BY <1>5, <1>6 DEF NoDrop, Dropping

LEMMA ForwardNoDrop ==
  ASSUME PlotInv, NEW t \in Thread, MergeForward(t)
  PROVE  NoDrop
<1>1. PICK o : o = op[t]
  OBVIOUS
<1>2. PICK tgt, old, new : /\ tgt = o.target
                           /\ old = o.target_head
                           /\ new = o.source.head_rev
  OBVIOUS
<1>3. /\ o.step = "merge.forward" /\ ForwardReady(o)
      /\ tgt \in DOMAIN branch /\ tgt \in DOMAIN branch'
      /\ branch'[tgt].head_rev = new
      /\ old \in RevId /\ new \in RevId
      /\ op' = [op EXCEPT ![t] = Idle]
      /\ \A c \in BranchId \ {tgt} : Reach(c)' = Reach(c)
      /\ StoreGrows
  BY <1>1, <1>2, MergeForwardStep
<1>4. ASSUME branch[tgt].head_rev = old
      PROVE  Reach(tgt) \subseteq Reach(tgt)'
  <2>1. IsAncestor(old, new) /\ new # NULL
    BY <1>2, <1>3 DEF ForwardReady, FastForwards
  <2> SUFFICES ASSUME NEW r \in Reach(tgt) PROVE r \in Reach(tgt)'
    OBVIOUS
  <2>2. r \in RevId /\ IsAncestor(r, old)
    BY <1>3, <1>4 DEF Reach
  <2>3. IsAncestor(r, new)
    BY <2>1, <2>2, AncestorOfAncestor
  <2>4. IsAncestor(r, new)' /\ r \in RevId'
    BY <1>3, <2>2, <2>3, AncestorKept DEF StoreGrows, Extended, PlotInv, StoreOK
  <2> QED BY <1>3, <2>1, <2>4 DEF Reach
<1>5. op'[t] = Idle
  BY <1>3 DEF PlotInv, OpsOK
<1>6. branch[tgt].head_rev # old => StaleForward(t, tgt)
  BY <1>1, <1>2, <1>3, <1>5 DEF StaleForward, Forwarded
<1> QED BY <1>3, <1>4, <1>6 DEF NoDrop, Dropping

LEMMA NextNoDrop == PlotInv /\ [Next]_vars => NoDrop
<1> SUFFICES ASSUME PlotInv, [Next]_vars PROVE NoDrop
  OBVIOUS
<1>1. ASSUME NEW t \in Thread, BranchStep(t)
      PROVE  NoDrop
  <2>1. CASE ClientCommit(t)
    BY <2>1, CommitNoDrop, PatchAssumption DEF PlotInv, ClientCommit, StoreNext
  <2>2. CASE AdvanceCommit(t)
    BY <2>2, AdvanceNoDrop
  <2>3. CASE \E new \in BranchId : ForkInsert(t, new)
    BY <2>3, ForkNoDrop
  <2>4. CASE MergeForward(t)
    BY <2>4, ForwardNoDrop
  <2>5. CASE \/ \E b \in BranchId, n \in NodeId : AdvanceReadNode(t, b, n)
             \/ AdvanceReadBranch(t)
             \/ \E src \in BranchId : ForkRead(t, src)
             \/ \E src, tgt \in BranchId : MergeReadSource(t, src, tgt)
             \/ MergeReadTarget(t)
             \/ MergeConflict(t)
    <3>1. UNCHANGED <<world_revision, branch>>
      BY <2>5 DEF AdvanceReadNode, AdvanceReadBranch, ForkRead,
                  MergeReadSource, MergeReadTarget, MergeConflict, storeVars
    <3> QED BY <3>1, KeptReach DEF PlotInv
  <2> QED BY <1>1, <2>1, <2>2, <2>3, <2>4, <2>5 DEF BranchStep
<1>2. ASSUME NEW t \in Thread, NodeStep(t) \/ Create(t)
      PROVE  NoDrop
  <2>1. UNCHANGED <<world_revision, branch>>
    BY <1>2 DEF NodeStep, Create, EdgeReadFrom, EdgeReadTo, EdgeInsert,
                DeleteRead, DeleteCheck, DeleteEdges, DeleteNode, CreatePlotNode, storeVars
  <2> QED BY <2>1, KeptReach DEF PlotInv
<1>3. CASE UNCHANGED vars
  BY <1>3, KeptReach DEF PlotInv, vars, storeVars
<1> QED BY <1>1, <1>2, <1>3 DEF Next

\* A branch loses what its readers could reach only through a fast-forward
\* whose target moved after merge_branch had read it.
THEOREM DropsAreStale == Spec => OnlyStaleMergesDrop
<1>1. PlotInv /\ [Next]_vars => [NoDrop]_vars
  BY NextNoDrop
<1> QED BY <1>1, PlotInvariant, PTL DEF Spec, OnlyStaleMergesDrop, NoDrop

=============================================================================
