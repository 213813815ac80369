----------------------------- MODULE CanonStore -----------------------------
(***************************************************************************)
(* The canon database of canon/store.py as its writers see it: the tables  *)
(* world, playthrough, branch, world_revision, fact and canon_conflict,    *)
(* and commit_revision, the one operation that appends a revision.         *)
(*                                                                         *)
(* commit_revision runs inside BEGIN IMMEDIATE ... COMMIT, and SQLite      *)
(* admits one such transaction at a time, so a call is one step here; a    *)
(* crash or an exception inside it rolls everything back and is a stutter. *)
(*                                                                         *)
(* A revision id (a uuid in the code) is the position of its row in        *)
(* world_revision, a fact id the position of its row in fact.  NULL is     *)
(* SQL's NULL.  Authors, summaries, timestamps, entities and the wording   *)
(* of facts are abstracted away; a Triple stands for one                   *)
(* (subject_name, predicate, object_value).                                *)
(***************************************************************************)
EXTENDS Naturals, Sequences, FiniteSets

CONSTANTS
    WorldId, PlayId, BranchId,  \* the ids callers use
    NodeId,                     \* plot node ids a patch may move to
    Triple,                     \* keys of facts
    Patch,                      \* the patches callers submit
    NULL,
    MaxRevs,                    \* bound on the rows of world_revision
    MaxConflicts                \* bound on the rows of canon_conflict

Status == {"asserted", "rumor", "retconned"}

\* What validate_patch_schema lets through, entities and notes left out.
PatchType ==
    [facts_retire : Seq(Triple),
     facts_add    : Seq([triple : Triple, status : Status]),
     plot_move    : NodeId \cup {NULL}]

ASSUME PatchAssumption == Patch \subseteq PatchType
ASSUME NullAssumption == NULL \notin Nat \cup NodeId \cup BranchId
ASSUME BoundAssumption == MaxRevs \in Nat /\ MaxConflicts \in Nat

VARIABLES
    world,           \* ids of the rows of table world
    playthrough,     \* play_id -> world_id, for the existing rows
    branch,          \* branch_id -> row, for the existing rows
    world_revision,  \* rows in commit order
    fact,            \* rows in insertion order
    canon_conflict   \* rows in insertion order

storeVars ==
    <<world, playthrough, branch, world_revision, fact, canon_conflict>>

-----------------------------------------------------------------------------
(* Tables.  A table whose rows are looked up by a caller's id is a function  *)
(* from the ids of its rows.                                                 *)

\* UPDATE, or INSERT of a new row.
SetRow(table, id, row) ==
    [k \in DOMAIN table \cup {id} |-> IF k = id THEN row ELSE table[k]]

\* INSERT OR IGNORE.
InsertOrIgnore(table, id, row) ==
    IF id \in DOMAIN table THEN table ELSE SetRow(table, id, row)

-----------------------------------------------------------------------------
(* Rows *)

RevId == DOMAIN world_revision
FactId == DOMAIN fact

BranchRow ==
    [world : WorldId, play : PlayId,
     head_rev : Nat \cup {NULL}, head_node : NodeId \cup {NULL},
     forked_from : BranchId \cup {NULL}, fork_base : Nat \cup {NULL}]

\* The part of snapshot_json the properties read: the ids of the facts listed
\* in it, plot.current_node_id and plot.history.
Snapshot ==
    [facts : SUBSET Nat,
     node : NodeId \cup {NULL},
     history : Seq([from : NodeId \cup {NULL}, to : NodeId])]

RevisionRow ==
    [world : WorldId, play : PlayId, branch : BranchId,
     parent : Nat \cup {NULL}, snapshot : Snapshot]

FactRow ==
    [world : WorldId, triple : Triple, status : Status,
     valid_from : Nat, valid_until : Nat \cup {NULL}]

\* A stale-base conflict keeps the refused patch; a plot-merge conflict keeps
\* the patches of the two heads, here as the ids of those heads.
ConflictRow ==
    [branch : BranchId, kind : {"stale-base", "plot-merge"},
     base : Nat \cup {NULL}, a : Nat \cup {NULL}, b : Nat \cup {NULL}]

-----------------------------------------------------------------------------
(* Reading *)

EmptySnapshot == [facts |-> {}, node |-> NULL, history |-> <<>>]

\* _load_snapshot: the snapshot of a base revision.
LoadSnapshot(rev) ==
    IF rev = NULL THEN EmptySnapshot ELSE world_revision[rev].snapshot

\* _load_snapshot finds the row only under the caller's world.
Loadable(rev, w) ==
    rev = NULL \/ (rev \in RevId /\ world_revision[rev].world = w)

\* _active_facts_snapshot: the rows of the whole world that are still valid.
ActiveFacts(rows, w) ==
    {i \in DOMAIN rows : /\ rows[i].world = w
                         /\ rows[i].valid_until = NULL
                         /\ rows[i].status \in {"asserted", "rumor"}}

\* Variant with a bug: the branch is looked up without the playthrough.
OwnerIgnoresPlay(w, p, b) ==
    b \in DOMAIN branch => branch[b].world = w

\* _ensure_world_play_branch raises, and the transaction rolls back, when the
\* branch id already belongs to another world or playthrough.
OwnerMatches(w, p, b) ==
    b \in DOMAIN branch => branch[b].world = w /\ branch[b].play = p

\* The branch row after INSERT OR IGNORE.
EnsuredBranch(w, p, b) ==
    IF b \in DOMAIN branch
    THEN branch[b]
    ELSE [world |-> w, play |-> p, head_rev |-> NULL, head_node |-> NULL,
          forked_from |-> NULL, fork_base |-> NULL]

\* Variant with a bug: any revision of the caller's world will do as base.
BaseIsKnown(w, p, b, base) == Loadable(base, w)

\* The comparison that lets one of several racing writers through.
BaseIsHead(w, p, b, base) == EnsuredBranch(w, p, b).head_rev = base

-----------------------------------------------------------------------------
(* Writing *)

\* The world and playthrough rows of _ensure_world_play_branch.  A playthrough
\* that exists under another world keeps that world.
EnsureWorldPlay(w, p) ==
    /\ world' = world \cup {w}
    /\ playthrough' = InsertOrIgnore(playthrough, p, w)

\* The triples that a patch retires; its list may name one more than once.
Retires(patch) == {patch.facts_retire[i] : i \in DOMAIN patch.facts_retire}

\* Variants with a bug: the world, or the valid_until IS NULL, is forgotten.
RetireAnyWorld(row, w, patch, rev) ==
    IF row.triple \in Retires(patch) /\ row.valid_until = NULL
    THEN [row EXCEPT !.valid_until = rev]
    ELSE row

RetireAgain(row, w, patch, rev) ==
    IF row.world = w /\ row.triple \in Retires(patch)
    THEN [row EXCEPT !.valid_until = rev]
    ELSE row

\* The facts_retire loop of _apply_patch_to_db on one row.
RetireFact(row, w, patch, rev) ==
    IF /\ row.world = w
       /\ row.triple \in Retires(patch)
       /\ row.valid_until = NULL
    THEN [row EXCEPT !.valid_until = rev]
    ELSE row

\* The row that the facts_add loop inserts: a retconned fact is closed by the
\* revision that opens it.
NewFact(f, w, rev) ==
    [world |-> w, triple |-> f.triple, status |-> f.status, valid_from |-> rev,
     valid_until |-> IF f.status = "retconned" THEN rev ELSE NULL]

\* _apply_patch_to_db: retire first, then insert.
ApplyPatchToDb(w, patch, rev) ==
    [i \in 1..(Len(fact) + Len(patch.facts_add)) |->
        IF i <= Len(fact)
        THEN RetireFact(fact[i], w, patch, rev)
        ELSE NewFact(patch.facts_add[i - Len(fact)], w, rev)]

\* Variant with a bug: the snapshot shows the node before the move.
SnapshotKeepsNode(base, headNode, patch, rows, w) ==
    LET snap == LoadSnapshot(base)
        move == [from |-> snap.node, to |-> patch.plot_move]
    IN  [facts |-> ActiveFacts(rows, w),
         node |-> headNode,
         history |-> IF patch.plot_move # NULL
                     THEN Append(snap.history, move)
                     ELSE snap.history]

\* The snapshot of the new revision: preview_apply_patch extends the base's
\* plot history, the facts are read back from the database, and the current
\* node is the branch's head node or the node the patch moves to.
NewSnapshot(base, headNode, patch, rows, w) ==
    LET snap == LoadSnapshot(base)
        moves == patch.plot_move # NULL
    IN  [facts |-> ActiveFacts(rows, w),
         node |-> IF moves THEN patch.plot_move ELSE headNode,
         history |-> IF moves
                     THEN Append(snap.history,
                                 [from |-> snap.node, to |-> patch.plot_move])
                     ELSE snap.history]

\* _create_conflict, and its foreign key on base_rev_id: an unknown base makes
\* the INSERT fail and the whole transaction roll back.
CreateConflict(b, kind, base, headA, headB) ==
    /\ Len(canon_conflict) < MaxConflicts
    /\ base \in RevId \cup {NULL}
    /\ canon_conflict' =
          Append(canon_conflict,
                 [branch |-> b, kind |-> kind, base |-> base,
                  a |-> headA, b |-> headB])

\* Variants with a bug: one of the two columns is left as it was.
MoveRevOnly(row, rev, node) == [row EXCEPT !.head_rev = rev]
MoveNodeOnly(row, rev, node) == [row EXCEPT !.head_node = node]

\* The columns of a branch row that an UPDATE of its head sets.
MoveHead(row, rev, node) == [row EXCEPT !.head_rev = rev, !.head_node = node]

\* commit_revision when the branch head is not the caller's base: the patch is
\* kept as an open conflict, and the rows just ensured are committed with it.
CommitStale(w, p, b, base) ==
    /\ OwnerMatches(w, p, b)
    /\ ~BaseIsHead(w, p, b, base)
    /\ CreateConflict(b, "stale-base", base, NULL, NULL)
    /\ EnsureWorldPlay(w, p)
    /\ branch' = SetRow(branch, b, EnsuredBranch(w, p, b))
    /\ UNCHANGED <<world_revision, fact>>

\* commit_revision when the caller's base is the head.
CommitOnHead(w, p, b, base, patch) ==
    LET row == EnsuredBranch(w, p, b)
        rev == Len(world_revision) + 1
        rows == ApplyPatchToDb(w, patch, rev)
        snap == NewSnapshot(base, row.head_node, patch, rows, w)
    IN  /\ Len(world_revision) < MaxRevs
        /\ OwnerMatches(w, p, b)
        /\ BaseIsHead(w, p, b, base)
        /\ Loadable(base, w)
        /\ EnsureWorldPlay(w, p)
        /\ fact' = rows
        /\ world_revision' =
              Append(world_revision,
                     [world |-> w, play |-> p, branch |-> b, parent |-> base,
                      snapshot |-> snap])
        /\ branch' = SetRow(branch, b, MoveHead(row, rev, snap.node))
        /\ UNCHANGED canon_conflict

CommitRevision(w, p, b, base, patch) ==
    \/ CommitStale(w, p, b, base)
    \/ CommitOnHead(w, p, b, base, patch)

-----------------------------------------------------------------------------
StoreInit ==
    /\ world = {}
    /\ playthrough = <<>>
    /\ branch = <<>>
    /\ world_revision = <<>>
    /\ fact = <<>>
    /\ canon_conflict = <<>>

StoreNext ==
    \E w \in WorldId, p \in PlayId, b \in BranchId,
       base \in RevId \cup {NULL}, patch \in Patch :
        CommitRevision(w, p, b, base, patch)

StoreSpec == StoreInit /\ [][StoreNext]_storeVars

-----------------------------------------------------------------------------
(* Ancestry *)

\* A set of revisions that holds the parent of each of its members.
ParentClosed(S) ==
    \A r \in S : world_revision[r].parent # NULL => world_revision[r].parent \in S

\* The set that the while loops of plot_graph.py collect from a revision
\* upwards is the least parent-closed set that holds it.
IsAncestor(anc, desc) ==
    \A S \in SUBSET RevId : desc \in S /\ ParentClosed(S) => anc \in S

\* What a reader of branch b reaches from its head.
Reach(b) ==
    IF b \notin DOMAIN branch \/ branch[b].head_rev = NULL
    THEN {}
    ELSE {r \in RevId : IsAncestor(r, branch[b].head_rev)}

-----------------------------------------------------------------------------
(* Properties *)

\* Every row has its shape and refers only to rows that exist.
TypeOK ==
    /\ world \subseteq WorldId
    /\ playthrough \in [DOMAIN playthrough -> world]
    /\ DOMAIN playthrough \subseteq PlayId
    /\ branch \in [DOMAIN branch -> BranchRow]
    /\ DOMAIN branch \subseteq BranchId
    /\ \A b \in DOMAIN branch :
          /\ branch[b].world \in world
          /\ branch[b].play \in DOMAIN playthrough
          /\ branch[b].head_rev \in RevId \cup {NULL}
          /\ branch[b].fork_base \in RevId \cup {NULL}
    /\ world_revision \in Seq(RevisionRow)
    /\ Len(world_revision) <= MaxRevs
    /\ \A r \in RevId :
          /\ world_revision[r].parent \in (1..(r - 1)) \cup {NULL}
          /\ world_revision[r].snapshot.facts \subseteq FactId
    /\ fact \in Seq(FactRow)
    /\ \A i \in FactId :
          /\ fact[i].valid_from \in RevId
          /\ fact[i].valid_until \in RevId \cup {NULL}
    /\ canon_conflict \in Seq(ConflictRow)
    /\ \A k \in DOMAIN canon_conflict : canon_conflict[k].base \in RevId \cup {NULL}

\* A head revision lies in the branch's own world and playthrough and its
\* snapshot stands at the branch's head node.  So _load_snapshot never misses
\* the base of a commit that matches the head (store.py:463), and the plot
\* history that the next commit extends starts from the node the branch shows.
HeadMatchesSnapshot ==
    \A b \in DOMAIN branch :
        IF branch[b].head_rev = NULL
        THEN branch[b].head_node = NULL
        ELSE LET head == world_revision[branch[b].head_rev]
             IN  /\ head.world = branch[b].world
                 /\ head.play = branch[b].play
                 /\ head.snapshot.node = branch[b].head_node

\* No lost update: whatever was committed through a branch can be reached from
\* its head, however many writers raced for the same base (store.py:866-947).
NoCommitLost ==
    \A b \in BranchId, r \in RevId :
        world_revision[r].branch = b => r \in Reach(b)

\* Rows of fact are open from valid_from (included) to valid_until (excluded),
\* so the columns alone rebuild the facts of every stored snapshot, of any
\* branch of the world, whenever it was taken (store.py:735-749, 821-838).
ValidAt(i, r) ==
    /\ fact[i].world = world_revision[r].world
    /\ fact[i].status # "retconned"
    /\ fact[i].valid_from <= r
    /\ fact[i].valid_until # NULL => fact[i].valid_until > r

SnapshotsMatchValidity ==
    \A r \in RevId :
        world_revision[r].snapshot.facts = {i \in FactId : ValidAt(i, r)}

\* A fact is opened and closed only by revisions of its own world: a patch
\* that retires a triple in one world leaves the other worlds alone.
FactsStayInWorld ==
    \A i \in FactId :
        /\ world_revision[fact[i].valid_from].world = fact[i].world
        /\ fact[i].valid_until # NULL =>
              world_revision[fact[i].valid_until].world = fact[i].world

\* The plot history of every snapshot is one connected walk that starts
\* nowhere and ends at the snapshot's current node, although the history comes
\* from the base's snapshot and the node from the branch row (store.py:918-931).
HistoryIsWalk ==
    \A r \in RevId :
        LET snap == world_revision[r].snapshot
            h == snap.history
        IN  IF h = <<>>
            THEN snap.node = NULL
            ELSE /\ h[1].from = NULL
                 /\ \A i \in 1..(Len(h) - 1) : h[i + 1].from = h[i].to
                 /\ h[Len(h)].to = snap.node

\* The canon keeps the promise of LinearHistory: a commit appends one fresh
\* revision to what its branch reaches, and nothing else changes what any
\* branch reaches.
History ==
    INSTANCE LinearHistory
    WITH Branch <- BranchId,
         Rev <- 1..MaxRevs,
         own <- [b \in BranchId |-> {r \in RevId : world_revision[r].branch = b}],
         reach <- [b \in BranchId |-> Reach(b)]

KeepsLinearHistory == History!Spec

=============================================================================
