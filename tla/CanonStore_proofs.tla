-------------------------- MODULE CanonStore_proofs --------------------------
(***************************************************************************)
(* Proofs about CanonStore, for every value of its constants: its types,   *)
(* its safety invariants, and that it implements LinearHistory.  Each      *)
(* invariant is inductive next to TypeOK, HistoryIsWalk next to            *)
(* HeadMatchesSnapshot.                                                    *)
(***************************************************************************)
EXTENDS CanonStore, SequenceTheorems, TLAPS

USE PatchAssumption, NullAssumption, BoundAssumption

-----------------------------------------------------------------------------
(* The rows that every transaction ensures. *)

LEMMA EnsuredBranchType ==
  ASSUME TypeOK, NEW w \in WorldId, NEW p \in PlayId, NEW b \in BranchId
  PROVE  LET row == EnsuredBranch(w, p, b)
         IN  /\ row \in BranchRow
             /\ row.head_rev \in RevId \cup {NULL}
             /\ row.fork_base \in RevId \cup {NULL}
             /\ row.world \in world \cup {w}
             /\ row.play \in DOMAIN playthrough \cup {p}
             /\ OwnerMatches(w, p, b) => row.world = w /\ row.play = p
BY DEF TypeOK, EnsuredBranch, BranchRow, OwnerMatches

LEMMA EnsuredWorldPlay ==
  ASSUME TypeOK, NEW w \in WorldId, NEW p \in PlayId, EnsureWorldPlay(w, p)
  PROVE  /\ world' = world \cup {w}
         /\ world' \subseteq WorldId
         /\ playthrough' \in [DOMAIN playthrough' -> world']
         /\ DOMAIN playthrough' = DOMAIN playthrough \cup {p}
         /\ DOMAIN playthrough' \subseteq PlayId
BY DEF TypeOK, EnsureWorldPlay, InsertOrIgnore, SetRow

\* An UPDATE or INSERT of one well-formed row keeps the branch table typed.
LEMMA BranchTableType ==
  ASSUME TypeOK, NEW b \in BranchId, NEW row \in BranchRow,
         branch' = SetRow(branch, b, row)
  PROVE  /\ DOMAIN branch' = DOMAIN branch \cup {b}
         /\ branch' \in [DOMAIN branch' -> BranchRow]
         /\ DOMAIN branch' \subseteq BranchId
         /\ branch'[b] = row
         /\ \A c \in DOMAIN branch \ {b} : branch'[c] = branch[c]
BY DEF TypeOK, SetRow

LEMMA ConflictTableType ==
  ASSUME TypeOK, NEW b \in BranchId, NEW kind \in {"stale-base", "plot-merge"},
         NEW base, NEW x \in Nat \cup {NULL}, NEW y \in Nat \cup {NULL},
         CreateConflict(b, kind, base, x, y)
  PROVE  /\ canon_conflict' \in Seq(ConflictRow)
         /\ \A k \in DOMAIN canon_conflict' :
               canon_conflict'[k].base \in RevId \cup {NULL}
<1> DEFINE row == [branch |-> b, kind |-> kind, base |-> base, a |-> x, b |-> y]
<1>1. RevId \subseteq Nat
  BY DEF TypeOK, RevId
<1>2. row \in ConflictRow /\ row.base \in RevId \cup {NULL}
  BY <1>1 DEF CreateConflict, ConflictRow
<1>3. canon_conflict \in Seq(ConflictRow) /\ canon_conflict' = Append(canon_conflict, row)
  BY DEF CreateConflict, TypeOK
<1>4. \A k \in DOMAIN canon_conflict' :
         canon_conflict'[k] = IF k <= Len(canon_conflict) THEN canon_conflict[k] ELSE row
  BY <1>2, <1>3
<1>5. \A k \in DOMAIN canon_conflict' :
         k <= Len(canon_conflict) => k \in DOMAIN canon_conflict
  BY <1>2, <1>3
<1> QED
  BY <1>2, <1>3, <1>4, <1>5 DEF TypeOK

-----------------------------------------------------------------------------
(* Type correctness. *)

LEMMA InitTypeOK == StoreInit => TypeOK
BY DEF StoreInit, TypeOK, RevId, FactId

LEMMA StaleTypeOK ==
  ASSUME TypeOK, NEW w \in WorldId, NEW p \in PlayId, NEW b \in BranchId,
         NEW base, CommitStale(w, p, b, base)
  PROVE  TypeOK'
<1> DEFINE row == EnsuredBranch(w, p, b)
<1>1. /\ row \in BranchRow
      /\ row.head_rev \in RevId \cup {NULL}
      /\ row.fork_base \in RevId \cup {NULL}
      /\ row.world \in world \cup {w}
      /\ row.play \in DOMAIN playthrough \cup {p}
  BY EnsuredBranchType
<1>2. /\ EnsureWorldPlay(w, p)
      /\ branch' = SetRow(branch, b, row)
      /\ CreateConflict(b, "stale-base", base, NULL, NULL)
      /\ UNCHANGED <<world_revision, fact>>
  BY DEF CommitStale
<1>3. /\ world' = world \cup {w}
      /\ world' \subseteq WorldId
      /\ playthrough' \in [DOMAIN playthrough' -> world']
      /\ DOMAIN playthrough' = DOMAIN playthrough \cup {p}
      /\ DOMAIN playthrough' \subseteq PlayId
  BY <1>2, EnsuredWorldPlay
<1>4. /\ DOMAIN branch' = DOMAIN branch \cup {b}
      /\ branch' \in [DOMAIN branch' -> BranchRow]
      /\ DOMAIN branch' \subseteq BranchId
      /\ branch'[b] = row
      /\ \A c \in DOMAIN branch \ {b} : branch'[c] = branch[c]
  BY <1>1, <1>2, BranchTableType
<1>5. /\ canon_conflict' \in Seq(ConflictRow)
      /\ \A k \in DOMAIN canon_conflict' :
            canon_conflict'[k].base \in RevId \cup {NULL}
  BY <1>2, ConflictTableType
<1> HIDE DEF row
<1> QED
  BY <1>1, <1>2, <1>3, <1>4, <1>5 DEF TypeOK, RevId, FactId

\* The facts table after _apply_patch_to_db: old rows keep their place and at
\* most get closed by the new revision; the new rows follow.
LEMMA ApplyPatchShape ==
  ASSUME TypeOK, NEW w \in WorldId, NEW patch \in PatchType, NEW rev \in Nat,
         fact' = ApplyPatchToDb(w, patch, rev)
  PROVE  /\ fact' \in Seq(FactRow)
         /\ FactId \subseteq FactId'
         /\ \A i \in FactId : fact'[i] = RetireFact(fact[i], w, patch, rev)
         /\ \A i \in FactId' \ FactId :
               \E f \in [triple : Triple, status : Status] :
                  fact'[i] = NewFact(f, w, rev)
<1> DEFINE m == Len(fact)
           add == patch.facts_add
           k == Len(add)
           Row(i) == IF i <= m THEN RetireFact(fact[i], w, patch, rev)
                               ELSE NewFact(add[i - m], w, rev)
<1>1. fact \in Seq(FactRow) /\ m \in Nat /\ FactId = 1..m
  BY DEF TypeOK, FactId
<1>2. add \in Seq([triple : Triple, status : Status]) /\ k \in Nat
  <2>1. add \in Seq([triple : Triple, status : Status])
    BY DEF PatchType
  <2> QED BY <2>1, LenProperties
<1>3. ASSUME NEW i \in 1..m
      PROVE  RetireFact(fact[i], w, patch, rev) \in FactRow
  <2>1. fact[i] \in FactRow
    BY <1>1, ElementOfSeq
  <2> QED BY <2>1 DEF RetireFact, FactRow
<1>4. ASSUME NEW i \in (m + 1)..(m + k)
      PROVE  add[i - m] \in [triple : Triple, status : Status]
  <2>1. i - m \in 1..Len(add)
    BY <1>1, <1>2
  <2> QED BY <1>2, <2>1, ElementOfSeq
<1>5. ASSUME NEW f \in [triple : Triple, status : Status]
      PROVE  NewFact(f, w, rev) \in FactRow
  BY DEF NewFact, FactRow
<1>6. fact' = [i \in 1..(m + k) |-> Row(i)]
  BY DEF ApplyPatchToDb
<1>7. \A i \in 1..(m + k) : Row(i) \in FactRow
  <2>1. ASSUME NEW i \in 1..(m + k), i <= m
        PROVE  Row(i) \in FactRow
    <3>1. i \in 1..m
      BY <1>1, <1>2, <2>1
    <3> QED BY <1>3, <2>1, <3>1
  <2>2. ASSUME NEW i \in 1..(m + k), ~(i <= m)
        PROVE  Row(i) \in FactRow
    <3>1. i \in (m + 1)..(m + k)
      BY <1>1, <1>2, <2>2
    <3>2. Row(i) = NewFact(add[i - m], w, rev)
      BY <2>2
    <3> QED BY <1>4, <1>5, <3>1, <3>2
  <2> QED BY <2>1, <2>2
<1> HIDE DEF Row
<1>8. fact' \in [1..(m + k) -> FactRow]
  BY <1>6, <1>7
<1>9. m + k \in Nat
  BY <1>1, <1>2
<1>10. fact' \in Seq(FactRow) /\ FactId' = 1..(m + k)
  BY <1>8, <1>9, SeqDef DEF FactId
<1>11. \A i \in 1..m : fact'[i] = RetireFact(fact[i], w, patch, rev)
  BY <1>1, <1>2, <1>6 DEF Row
<1>12. ASSUME NEW i \in (m + 1)..(m + k)
       PROVE  fact'[i] = NewFact(add[i - m], w, rev)
  BY <1>1, <1>2, <1>6 DEF Row
<1>13. FactId' \ FactId = (m + 1)..(m + k) /\ FactId \subseteq FactId'
  BY <1>1, <1>2, <1>10
<1>14. \A i \in FactId' \ FactId :
          \E f \in [triple : Triple, status : Status] : fact'[i] = NewFact(f, w, rev)
  BY <1>4, <1>12, <1>13
<1> QED
  BY <1>1, <1>10, <1>11, <1>13, <1>14

LEMMA NewSnapshotType ==
  ASSUME TypeOK, NEW base \in RevId \cup {NULL}, NEW node \in NodeId \cup {NULL},
         NEW patch \in PatchType, NEW w \in WorldId, NEW rows \in Seq(FactRow)
  PROVE  /\ NewSnapshot(base, node, patch, rows, w) \in Snapshot
         /\ NewSnapshot(base, node, patch, rows, w).facts \subseteq DOMAIN rows
<1>1. LoadSnapshot(base) \in Snapshot
  <2>1. CASE base = NULL
    BY <2>1 DEF LoadSnapshot, EmptySnapshot, Snapshot
  <2>2. CASE base # NULL
    <3>1. world_revision[base] \in RevisionRow
      BY <2>2 DEF TypeOK, RevId
    <3> QED BY <2>2, <3>1 DEF LoadSnapshot, RevisionRow
  <2> QED BY <2>1, <2>2
<1>2. patch.plot_move \in NodeId \cup {NULL}
  BY DEF PatchType
<1>3. ActiveFacts(rows, w) \subseteq DOMAIN rows /\ DOMAIN rows \subseteq Nat
  BY DEF ActiveFacts
<1>4. LoadSnapshot(base).history \in Seq([from : NodeId \cup {NULL}, to : NodeId])
  BY <1>1 DEF Snapshot
<1>5. ASSUME patch.plot_move # NULL
      PROVE  Append(LoadSnapshot(base).history,
                    [from |-> LoadSnapshot(base).node, to |-> patch.plot_move])
               \in Seq([from : NodeId \cup {NULL}, to : NodeId])
  BY <1>1, <1>2, <1>4, <1>5 DEF Snapshot
<1> QED
  BY <1>2, <1>3, <1>4, <1>5 DEF NewSnapshot, Snapshot

\* What a successful commit_revision does to the revisions and the branches.
OnHeadEffect(w, p, b, base, patch, rev, row, snap) ==
  /\ base \in RevId \cup {NULL}
  /\ base = row.head_rev
  /\ rev \in Nat \ {0}
  /\ RevId = 1..(rev - 1)
  /\ RevId' = 1..rev
  /\ \A r \in RevId : world_revision'[r] = world_revision[r]
  /\ world_revision'[rev] =
        [world |-> w, play |-> p, branch |-> b, parent |-> base,
         snapshot |-> snap]
  /\ world_revision' \in Seq(RevisionRow)
  /\ Len(world_revision') <= MaxRevs
  /\ snap.facts \subseteq FactId'
  /\ fact' = ApplyPatchToDb(w, patch, rev)
  /\ snap = NewSnapshot(base, row.head_node, patch, fact', w)
  /\ branch' = SetRow(branch, b, [row EXCEPT !.head_rev = rev,
                                             !.head_node = snap.node])
  /\ row \in BranchRow
  /\ snap.node \in NodeId \cup {NULL}

LEMMA OnHeadShape ==
  ASSUME TypeOK, NEW w \in WorldId, NEW p \in PlayId, NEW b \in BranchId,
         NEW base, NEW patch \in PatchType, CommitOnHead(w, p, b, base, patch)
  PROVE  LET row == EnsuredBranch(w, p, b)
         IN  OnHeadEffect(w, p, b, base, patch, Len(world_revision) + 1, row,
                          NewSnapshot(base, row.head_node, patch, fact', w))
<1> DEFINE rev == Len(world_revision) + 1
           row == EnsuredBranch(w, p, b)
           rows == ApplyPatchToDb(w, patch, rev)
           snap == NewSnapshot(base, row.head_node, patch, rows, w)
           new == [world |-> w, play |-> p, branch |-> b, parent |-> base,
                   snapshot |-> snap]
<1>1. /\ row \in BranchRow
      /\ row.head_rev \in RevId \cup {NULL}
      /\ row.head_node \in NodeId \cup {NULL}
  BY EnsuredBranchType DEF BranchRow
<1>2. /\ Len(world_revision) < MaxRevs
      /\ row.head_rev = base
      /\ fact' = rows
      /\ world_revision' = Append(world_revision, new)
      /\ branch' = SetRow(branch, b, [row EXCEPT !.head_rev = rev,
                                                 !.head_node = snap.node])
  BY DEF CommitOnHead, BaseIsHead, MoveHead
<1>3. world_revision \in Seq(RevisionRow) /\ rev \in Nat \ {0} /\ RevId = 1..(rev - 1)
  BY DEF TypeOK, RevId
<1>4. fact' \in Seq(FactRow)
  BY <1>2, <1>3, ApplyPatchShape
<1>5. base \in RevId \cup {NULL}
  BY <1>1, <1>2
<1>6. snap \in Snapshot /\ snap.facts \subseteq DOMAIN rows
  BY <1>1, <1>2, <1>4, <1>5, NewSnapshotType
<1>7. new \in RevisionRow
  BY <1>3, <1>5, <1>6 DEF RevisionRow
<1>8. snap.node \in NodeId \cup {NULL} /\ snap.facts \subseteq FactId'
  BY <1>2, <1>6 DEF Snapshot, FactId
<1> HIDE DEF row, rows, snap
<1>9. /\ RevId' = 1..rev
      /\ \A r \in RevId : world_revision'[r] = world_revision[r]
      /\ world_revision'[rev] = new
      /\ world_revision' \in Seq(RevisionRow)
      /\ Len(world_revision') <= MaxRevs
  BY <1>2, <1>3, <1>7 DEF RevId
<1>10. snap = NewSnapshot(base, row.head_node, patch, fact', w)
  BY <1>2 DEF snap
<1>11. OnHeadEffect(w, p, b, base, patch, rev, row, snap)
  BY <1>1, <1>2, <1>3, <1>5, <1>8, <1>9, <1>10 DEF OnHeadEffect, rows
<1> QED
  BY <1>10, <1>11 DEF row

LEMMA OnHeadTypeOK ==
  ASSUME TypeOK, NEW w \in WorldId, NEW p \in PlayId, NEW b \in BranchId,
         NEW base, NEW patch \in PatchType, CommitOnHead(w, p, b, base, patch)
  PROVE  TypeOK'
<1> DEFINE rev == Len(world_revision) + 1
           row == EnsuredBranch(w, p, b)
           snap == NewSnapshot(base, row.head_node, patch, fact', w)
           moved == [row EXCEPT !.head_rev = rev, !.head_node = snap.node]
<1>1. /\ base \in RevId \cup {NULL}
      /\ rev \in Nat \ {0}
      /\ RevId = 1..(rev - 1)
      /\ RevId' = 1..rev
      /\ \A r \in RevId : world_revision'[r] = world_revision[r]
      /\ world_revision'[rev] =
            [world |-> w, play |-> p, branch |-> b, parent |-> base,
             snapshot |-> snap]
      /\ world_revision' \in Seq(RevisionRow)
      /\ Len(world_revision') <= MaxRevs
      /\ snap.facts \subseteq FactId'
      /\ fact' = ApplyPatchToDb(w, patch, rev)
      /\ branch' = SetRow(branch, b, moved)
      /\ snap.node \in NodeId \cup {NULL}
  <2>1. OnHeadEffect(w, p, b, base, patch, rev, row, snap)
    BY OnHeadShape
  <2> QED BY <2>1 DEF OnHeadEffect
<1>2. /\ row \in BranchRow
      /\ row.fork_base \in RevId \cup {NULL}
      /\ row.world \in world \cup {w}
      /\ row.play \in DOMAIN playthrough \cup {p}
  BY EnsuredBranchType
<1>3. /\ fact' \in Seq(FactRow)
      /\ FactId \subseteq FactId'
      /\ \A i \in FactId : fact'[i] = RetireFact(fact[i], w, patch, rev)
      /\ \A i \in FactId' \ FactId :
            \E f \in [triple : Triple, status : Status] :
               fact'[i] = NewFact(f, w, rev)
  BY <1>1, ApplyPatchShape
<1>4. /\ world' = world \cup {w}
      /\ world' \subseteq WorldId
      /\ playthrough' \in [DOMAIN playthrough' -> world']
      /\ DOMAIN playthrough' = DOMAIN playthrough \cup {p}
      /\ DOMAIN playthrough' \subseteq PlayId
  BY EnsuredWorldPlay DEF CommitOnHead
<1>5. /\ moved \in BranchRow
      /\ moved.head_rev = rev
      /\ moved.fork_base = row.fork_base
      /\ moved.world = row.world
      /\ moved.play = row.play
  BY <1>1, <1>2 DEF BranchRow
<1> HIDE DEF moved, row, snap
<1>6. /\ DOMAIN branch' = DOMAIN branch \cup {b}
      /\ branch' \in [DOMAIN branch' -> BranchRow]
      /\ DOMAIN branch' \subseteq BranchId
      /\ branch'[b] = moved
      /\ \A c \in DOMAIN branch \ {b} : branch'[c] = branch[c]
  BY <1>1, <1>5, BranchTableType
<1> HIDE DEF rev
<1>7. RevId \subseteq RevId' /\ rev \in RevId'
  BY <1>1
<1>8. \A c \in DOMAIN branch' :
         /\ branch'[c].world \in world'
         /\ branch'[c].play \in DOMAIN playthrough'
         /\ branch'[c].head_rev \in RevId' \cup {NULL}
         /\ branch'[c].fork_base \in RevId' \cup {NULL}
  BY <1>2, <1>4, <1>5, <1>6, <1>7 DEF TypeOK
<1>9. \A r \in RevId' :
         /\ world_revision'[r].parent \in (1..(r - 1)) \cup {NULL}
         /\ world_revision'[r].snapshot.facts \subseteq FactId'
  <2>1. ASSUME NEW r \in RevId
        PROVE  /\ world_revision'[r].parent \in (1..(r - 1)) \cup {NULL}
               /\ world_revision'[r].snapshot.facts \subseteq FactId'
    <3>1. world_revision'[r] = world_revision[r]
      BY <1>1
    <3> QED BY <1>3, <3>1 DEF TypeOK
  <2>2. /\ world_revision'[rev].parent \in (1..(rev - 1)) \cup {NULL}
        /\ world_revision'[rev].snapshot.facts \subseteq FactId'
    BY <1>1
  <2>3. \A r \in RevId' : r \in RevId \/ r = rev
    BY <1>1
  <2> QED BY <2>1, <2>2, <2>3
<1>10. \A i \in FactId' : /\ fact'[i].valid_from \in RevId'
                          /\ fact'[i].valid_until \in RevId' \cup {NULL}
  <2>1. ASSUME NEW i \in FactId
        PROVE  /\ fact'[i].valid_from \in RevId'
               /\ fact'[i].valid_until \in RevId' \cup {NULL}
    <3>1. fact[i] \in FactRow
      BY ElementOfSeq, LenProperties DEF TypeOK, FactId
    <3>2. /\ fact[i].valid_from \in RevId
          /\ fact[i].valid_until \in RevId \cup {NULL}
      BY DEF TypeOK
    <3>3. fact'[i] = RetireFact(fact[i], w, patch, rev)
      BY <1>3
    <3>4. /\ fact'[i].valid_from = fact[i].valid_from
          /\ fact'[i].valid_until \in {fact[i].valid_until, rev}
      BY <3>1, <3>3 DEF RetireFact, FactRow
    <3> QED BY <1>7, <3>2, <3>4
  <2>2. ASSUME NEW i \in FactId' \ FactId
        PROVE  /\ fact'[i].valid_from \in RevId'
               /\ fact'[i].valid_until \in RevId' \cup {NULL}
    <3>1. PICK f \in [triple : Triple, status : Status] :
             fact'[i] = NewFact(f, w, rev)
      BY <1>3
    <3> QED BY <1>7, <3>1 DEF NewFact
  <2> QED BY <2>1, <2>2
<1>11. /\ canon_conflict' \in Seq(ConflictRow)
       /\ \A k \in DOMAIN canon_conflict' :
             canon_conflict'[k].base \in RevId' \cup {NULL}
  <2>1. canon_conflict' = canon_conflict
    BY DEF CommitOnHead
  <2> QED BY <1>7, <2>1 DEF TypeOK
<1> QED
  BY <1>1, <1>3, <1>4, <1>6, <1>8, <1>9, <1>10, <1>11 DEF TypeOK

LEMMA CommitTypeOK ==
  ASSUME TypeOK, NEW w \in WorldId, NEW p \in PlayId, NEW b \in BranchId,
         NEW base, NEW patch \in PatchType, CommitRevision(w, p, b, base, patch)
  PROVE  TypeOK'
BY StaleTypeOK, OnHeadTypeOK DEF CommitRevision

LEMMA NextTypeOK == TypeOK /\ [StoreNext]_storeVars => TypeOK'
<1> SUFFICES ASSUME TypeOK, [StoreNext]_storeVars PROVE TypeOK'
  OBVIOUS
<1>1. CASE StoreNext
  BY <1>1, PatchAssumption, CommitTypeOK DEF StoreNext
<1>2. CASE UNCHANGED storeVars
  BY <1>2 DEF storeVars, TypeOK, RevId, FactId
<1> QED
  BY <1>1, <1>2

\* The tables stay well formed and their foreign keys hold, whatever the
\* callers of commit_revision submit.
THEOREM TypeCorrect == StoreSpec => []TypeOK
<1>1. StoreInit => TypeOK
  BY InitTypeOK
<1>2. TypeOK /\ [StoreNext]_storeVars => TypeOK'
  BY NextTypeOK
<1> QED
  BY <1>1, <1>2, PTL DEF StoreSpec

-----------------------------------------------------------------------------
(* Ancestry.  Revisions are only appended, so what is an ancestor stays one,  *)
(* and a new revision has its parent's ancestors and itself.                  *)

\* The revisions of this state are those of the next one, perhaps with more.
Extended ==
  /\ RevId \subseteq RevId'
  /\ \A r \in RevId : world_revision'[r] = world_revision[r]

LEMMA AncestorReflexive == \A r \in RevId : IsAncestor(r, r)
BY DEF IsAncestor

LEMMA AncestorKept ==
  ASSUME TypeOK, Extended, NEW a, NEW d \in RevId
  PROVE  IsAncestor(a, d) <=> IsAncestor(a, d)'
<1>1. ASSUME IsAncestor(a, d), NEW S \in SUBSET RevId', d \in S, ParentClosed(S)'
      PROVE  a \in S
  <2> DEFINE T == S \cap RevId
  <2>1. ParentClosed(T)
    <3> SUFFICES ASSUME NEW r \in T, world_revision[r].parent # NULL
                 PROVE  world_revision[r].parent \in T
      BY DEF ParentClosed
    <3>1. world_revision[r].parent \in RevId
      BY DEF TypeOK, RevId
    <3>2. world_revision'[r].parent = world_revision[r].parent
      BY DEF Extended
    <3> QED BY <1>1, <3>1, <3>2 DEF ParentClosed
  <2>2. T \in SUBSET RevId /\ d \in T
    BY <1>1
  <2> QED BY <1>1, <2>1, <2>2 DEF IsAncestor
<1>2. ASSUME IsAncestor(a, d)', NEW S \in SUBSET RevId, d \in S, ParentClosed(S)
      PROVE  a \in S
  <2>1. S \in SUBSET RevId'
    BY DEF Extended
  <2>2. ParentClosed(S)'
    BY <1>2 DEF ParentClosed, Extended
  <2> QED BY <1>2, <2>1, <2>2 DEF IsAncestor
<1> QED BY <1>1, <1>2 DEF IsAncestor

LEMMA AncestorKnown ==
  ASSUME TypeOK, NEW a, NEW d \in RevId, IsAncestor(a, d)
  PROVE  a \in RevId
<1>1. ParentClosed(RevId)
  BY DEF ParentClosed, TypeOK, RevId
<1> QED BY <1>1 DEF IsAncestor

LEMMA AncestorOfNew ==
  ASSUME TypeOK, TypeOK', NEW rev \in RevId', NEW par \in RevId',
         world_revision'[rev].parent = par, NEW a
  PROVE  IsAncestor(a, rev)' <=> a = rev \/ IsAncestor(a, par)'
<1>0. par # NULL
  BY NullAssumption DEF TypeOK, RevId
<1>1. ASSUME IsAncestor(a, par)', NEW S \in SUBSET RevId', rev \in S, ParentClosed(S)'
      PROVE  a \in S
  <2>1. par \in S
    BY <1>0, <1>1 DEF ParentClosed
  <2> QED BY <1>1, <2>1 DEF IsAncestor
<1>2. ASSUME IsAncestor(a, rev)', a # rev,
             NEW S \in SUBSET RevId', par \in S, ParentClosed(S)'
      PROVE  a \in S
  <2> DEFINE T == S \cup {rev}
  <2>1. ParentClosed(T)'
    BY <1>2 DEF ParentClosed
  <2>2. T \in SUBSET RevId' /\ rev \in T
    BY <1>2
  <2>3. a \in T
    <3> HIDE DEF T
    <3> QED BY <1>2, <2>1, <2>2 DEF IsAncestor
  <2> QED BY <1>2, <2>3
<1>3. IsAncestor(rev, rev)'
  BY DEF IsAncestor
<1>4. IsAncestor(a, par)' => IsAncestor(a, rev)'
  BY <1>1 DEF IsAncestor
<1>5. IsAncestor(a, rev)' /\ a # rev => IsAncestor(a, par)'
  BY <1>2 DEF IsAncestor
<1> QED BY <1>3, <1>4, <1>5

LEMMA ReachKept ==
  ASSUME TypeOK, Extended, NEW b \in BranchId,
         \/ b \notin DOMAIN branch /\ b \notin DOMAIN branch'
         \/ b \notin DOMAIN branch /\ b \in DOMAIN branch' /\ branch'[b].head_rev = NULL
         \/ /\ b \in DOMAIN branch /\ b \in DOMAIN branch'
            /\ branch'[b].head_rev = branch[b].head_rev
  PROVE  Reach(b)' = Reach(b)
<1>1. CASE b \notin DOMAIN branch \/ branch[b].head_rev = NULL
  BY <1>1 DEF Reach
<1>2. CASE b \in DOMAIN branch /\ branch[b].head_rev # NULL
  <2> DEFINE h == branch[b].head_rev
  <2>1. h \in RevId /\ h \in RevId' /\ branch'[b].head_rev = h
    BY <1>2 DEF TypeOK, Extended
  <2>2. Reach(b) = {r \in RevId : IsAncestor(r, h)}
    BY <1>2 DEF Reach
  <2>3. Reach(b)' = {r \in RevId' : IsAncestor(r, h)'}
    BY <1>2, <2>1 DEF Reach
  <2>4. \A r : IsAncestor(r, h) <=> IsAncestor(r, h)'
    BY <2>1, AncestorKept
  <2>5. \A r : IsAncestor(r, h) => r \in RevId
    BY <2>1, AncestorKnown
  <2> HIDE DEF h
  <2> QED BY <2>2, <2>3, <2>4, <2>5 DEF Extended
<1> QED BY <1>1, <1>2


-----------------------------------------------------------------------------
(* The effect of the two outcomes of commit_revision on the branches. *)

\* A refused commit leaves at most a fresh branch without a head.
LEMMA StaleEffect ==
  ASSUME TypeOK, NEW w \in WorldId, NEW p \in PlayId, NEW b \in BranchId,
         NEW base, CommitStale(w, p, b, base)
  PROVE  /\ UNCHANGED <<world_revision, fact>>
         /\ DOMAIN branch \subseteq DOMAIN branch'
         /\ \A c \in DOMAIN branch : branch'[c] = branch[c]
         /\ \A c \in DOMAIN branch' \ DOMAIN branch :
               branch'[c].head_rev = NULL /\ branch'[c].head_node = NULL
BY DEF CommitStale, SetRow, EnsuredBranch

\* A commit on the head moves that head from base to rev and no other.
HeadMoves(w, p, b, base, rev, from, node) ==
  /\ DOMAIN branch' = DOMAIN branch \cup {b}
  /\ \A c \in DOMAIN branch \ {b} : branch'[c] = branch[c]
  /\ branch'[b].head_rev = rev
  /\ branch'[b].head_node = node
  /\ branch'[b].world = w
  /\ branch'[b].play = p
  /\ b \in DOMAIN branch =>
        /\ branch[b].head_rev = base
        /\ branch[b].head_node = from
        /\ branch[b].world = w
        /\ branch[b].play = p
  /\ b \notin DOMAIN branch => base = NULL /\ from = NULL

LEMMA HeadMoved ==
  ASSUME TypeOK, NEW w \in WorldId, NEW p \in PlayId, NEW b \in BranchId,
         NEW base, NEW patch \in PatchType, NEW rev, NEW snap,
         CommitOnHead(w, p, b, base, patch),
         OnHeadEffect(w, p, b, base, patch, rev, EnsuredBranch(w, p, b), snap)
  PROVE  HeadMoves(w, p, b, base, rev, EnsuredBranch(w, p, b).head_node, snap.node)
<1> DEFINE row == EnsuredBranch(w, p, b)
           moved == [row EXCEPT !.head_rev = rev, !.head_node = snap.node]
<1>1. row \in BranchRow /\ branch' = SetRow(branch, b, moved) /\ base = row.head_rev
  BY DEF OnHeadEffect
<1>2. row.world = w /\ row.play = p
  BY EnsuredBranchType DEF CommitOnHead
<1>3. /\ moved.head_rev = rev /\ moved.head_node = snap.node
      /\ moved.world = w /\ moved.play = p
  BY <1>1, <1>2 DEF BranchRow
<1>4. b \in DOMAIN branch => row = branch[b]
  BY DEF EnsuredBranch
<1>5. b \notin DOMAIN branch => row.head_rev = NULL /\ row.head_node = NULL
  BY DEF EnsuredBranch
<1> HIDE DEF moved, row
<1>6. /\ DOMAIN branch' = DOMAIN branch \cup {b}
      /\ \A c \in DOMAIN branch \ {b} : branch'[c] = branch[c]
      /\ branch'[b] = moved
  BY <1>1 DEF SetRow
<1> QED
  BY <1>1, <1>2, <1>3, <1>4, <1>5, <1>6 DEF HeadMoves, row

\* One commit on the head, with everything the invariants ask of it.
OnHeadStep(w, p, b, base, patch, rev, from, snap) ==
  /\ HeadMoves(w, p, b, base, rev, from, snap.node)
  /\ base \in RevId \cup {NULL}
  /\ rev \in Nat \ {0}
  /\ RevId = 1..(rev - 1)
  /\ RevId' = 1..rev
  /\ \A r \in RevId : world_revision'[r] = world_revision[r]
  /\ world_revision'[rev] =
        [world |-> w, play |-> p, branch |-> b, parent |-> base,
         snapshot |-> snap]
  /\ snap = NewSnapshot(base, from, patch, fact', w)
  /\ FactId \subseteq FactId'
  /\ \A i \in FactId : fact'[i] = RetireFact(fact[i], w, patch, rev)
  /\ \A i \in FactId' \ FactId :
        \E f \in [triple : Triple, status : Status] : fact'[i] = NewFact(f, w, rev)

LEMMA CommitOnHeadStep ==
  ASSUME TypeOK, NEW w \in WorldId, NEW p \in PlayId, NEW b \in BranchId,
         NEW base, NEW patch \in PatchType, CommitOnHead(w, p, b, base, patch)
  PROVE  \E rev, from, snap : OnHeadStep(w, p, b, base, patch, rev, from, snap)
<1> DEFINE rev == Len(world_revision) + 1
           row == EnsuredBranch(w, p, b)
           snap == NewSnapshot(base, row.head_node, patch, fact', w)
<1>1. OnHeadEffect(w, p, b, base, patch, rev, row, snap)
  BY OnHeadShape
<1>2. HeadMoves(w, p, b, base, rev, row.head_node, snap.node)
  <2> HIDE DEF rev, snap
  <2> QED BY <1>1, HeadMoved
<1> HIDE DEF rev, row, snap
<1>3. fact' = ApplyPatchToDb(w, patch, rev) /\ rev \in Nat
  BY <1>1 DEF OnHeadEffect
<1>4. /\ FactId \subseteq FactId'
      /\ \A i \in FactId : fact'[i] = RetireFact(fact[i], w, patch, rev)
      /\ \A i \in FactId' \ FactId :
            \E f \in [triple : Triple, status : Status] :
               fact'[i] = NewFact(f, w, rev)
  BY <1>3, ApplyPatchShape
<1>5. OnHeadStep(w, p, b, base, patch, rev, row.head_node, snap)
  BY <1>1, <1>2, <1>4 DEF OnHeadEffect, OnHeadStep
<1> QED BY <1>5

-----------------------------------------------------------------------------
(* What a branch reaches. *)

LEMMA StaleReach ==
  ASSUME TypeOK, NEW w \in WorldId, NEW p \in PlayId, NEW b \in BranchId,
         NEW base, CommitStale(w, p, b, base), NEW c \in BranchId
  PROVE  Reach(c)' = Reach(c)
<1>1. Extended
  BY StaleEffect DEF Extended, RevId
<1>2. /\ DOMAIN branch \subseteq DOMAIN branch'
      /\ \A d \in DOMAIN branch : branch'[d] = branch[d]
      /\ \A d \in DOMAIN branch' \ DOMAIN branch : branch'[d].head_rev = NULL
  BY StaleEffect
<1> QED BY <1>1, <1>2, ReachKept

\* A new revision reaches itself and what its branch reached before.
LEMMA OnHeadReach ==
  ASSUME TypeOK, TypeOK', NEW w, NEW p, NEW b \in BranchId, NEW base, NEW patch,
         NEW rev, NEW from, NEW snap,
         OnHeadStep(w, p, b, base, patch, rev, from, snap)
  PROVE  /\ Reach(b)' = Reach(b) \cup {rev}
         /\ \A c \in BranchId \ {b} : Reach(c)' = Reach(c)
<1>1. Extended
  BY DEF Extended, OnHeadStep
<1>2. /\ b \in DOMAIN branch' /\ branch'[b].head_rev = rev
      /\ \A c \in DOMAIN branch \ {b} : branch'[c] = branch[c]
      /\ DOMAIN branch' = DOMAIN branch \cup {b}
      /\ b \in DOMAIN branch => branch[b].head_rev = base
      /\ b \notin DOMAIN branch => base = NULL
  BY DEF OnHeadStep, HeadMoves
<1>3. /\ rev \in RevId' /\ rev # NULL /\ rev \notin RevId
      /\ RevId' = RevId \cup {rev}
      /\ base \in RevId \cup {NULL}
      /\ world_revision'[rev].parent = base
  BY NullAssumption DEF OnHeadStep
<1>4. Reach(b)' = {r \in RevId' : IsAncestor(r, rev)'}
  BY <1>2, <1>3 DEF Reach
<1>5. Reach(b)' = Reach(b) \cup {rev}
  <2>1. CASE base = NULL
    <3>1. Reach(b) = {}
      BY <1>2, <2>1 DEF Reach
    <3>2. ParentClosed({rev})' /\ {rev} \in SUBSET RevId'
      BY <1>3, <2>1 DEF ParentClosed
    <3>3. \A r : IsAncestor(r, rev)' => r = rev
      BY <3>2 DEF IsAncestor
    <3>4. IsAncestor(rev, rev)'
      BY DEF IsAncestor
    <3> QED BY <1>3, <1>4, <3>1, <3>3, <3>4
  <2>2. CASE base # NULL
    <3>1. base \in RevId /\ base \in RevId' /\ b \in DOMAIN branch
      BY <1>2, <1>3, <2>2
    <3>2. Reach(b) = {r \in RevId : IsAncestor(r, base)}
      BY <1>2, <2>2, <3>1 DEF Reach
    <3>3. \A r : IsAncestor(r, rev)' <=> r = rev \/ IsAncestor(r, base)'
      BY <1>3, <3>1, AncestorOfNew
    <3>4. \A r : IsAncestor(r, base) <=> IsAncestor(r, base)'
      BY <1>1, <3>1, AncestorKept
    <3>5. \A r : IsAncestor(r, base) => r \in RevId
      BY <3>1, AncestorKnown
    <3> QED BY <1>3, <1>4, <3>2, <3>3, <3>4, <3>5
  <2> QED BY <2>1, <2>2
<1>6. ASSUME NEW c \in BranchId \ {b}
      PROVE  Reach(c)' = Reach(c)
  BY <1>1, <1>2, ReachKept
<1> QED BY <1>5, <1>6

-----------------------------------------------------------------------------
(* No commit is lost. *)

LEMMA OnHeadKeepsCommits ==
  ASSUME TypeOK, TypeOK', NoCommitLost,
         NEW w, NEW p, NEW b \in BranchId, NEW base, NEW patch,
         NEW rev, NEW from, NEW snap,
         OnHeadStep(w, p, b, base, patch, rev, from, snap)
  PROVE  NoCommitLost'
<1>1. /\ Reach(b)' = Reach(b) \cup {rev}
      /\ \A c \in BranchId \ {b} : Reach(c)' = Reach(c)
  BY OnHeadReach
<1>2. /\ RevId' = RevId \cup {rev}
      /\ \A r \in RevId : world_revision'[r] = world_revision[r]
      /\ world_revision'[rev].branch = b
  BY DEF OnHeadStep
<1>3. ASSUME NEW c \in BranchId, NEW r \in RevId, world_revision'[r].branch = c
      PROVE  r \in Reach(c)'
  <2>1. r \in Reach(c)
    BY <1>2, <1>3 DEF NoCommitLost
  <2> QED BY <1>1, <2>1
<1>4. rev \in Reach(b)'
  BY <1>1
<1>5. ASSUME NEW c \in BranchId, NEW r \in RevId', world_revision'[r].branch = c
      PROVE  r \in Reach(c)'
  <2>1. CASE r \in RevId
    BY <1>3, <1>5, <2>1
  <2>2. CASE r = rev
    BY <1>2, <1>4, <1>5, <2>2
  <2> QED BY <1>2, <2>1, <2>2
<1> QED BY <1>5 DEF NoCommitLost

\* A commit, refused or not, keeps every branch's earlier commits in reach.
LEMMA NextKeepsCommits ==
  TypeOK /\ TypeOK' /\ NoCommitLost /\ [StoreNext]_storeVars => NoCommitLost'
<1> SUFFICES ASSUME TypeOK, TypeOK', NoCommitLost, [StoreNext]_storeVars
             PROVE  NoCommitLost'
  OBVIOUS
<1>1. ASSUME NEW w \in WorldId, NEW p \in PlayId, NEW b \in BranchId,
             NEW base, CommitStale(w, p, b, base)
      PROVE  NoCommitLost'
  <2>1. \A c \in BranchId : Reach(c)' = Reach(c)
    BY <1>1, StaleReach
  <2>2. UNCHANGED <<world_revision, fact>>
    BY <1>1, StaleEffect
  <2> QED BY <2>1, <2>2 DEF NoCommitLost, RevId
<1>2. ASSUME NEW w \in WorldId, NEW p \in PlayId, NEW b \in BranchId, NEW base,
             NEW patch \in Patch, CommitOnHead(w, p, b, base, patch)
      PROVE  NoCommitLost'
  <2>1. PICK rev, from, snap : OnHeadStep(w, p, b, base, patch, rev, from, snap)
    BY <1>2, PatchAssumption, CommitOnHeadStep
  <2> QED BY <2>1, OnHeadKeepsCommits
<1>3. CASE UNCHANGED storeVars
  BY <1>3 DEF storeVars, NoCommitLost, Reach, IsAncestor, ParentClosed, RevId
<1> QED
  BY <1>1, <1>2, <1>3 DEF StoreNext, CommitRevision

\* Whatever was committed through a branch stays reachable from its head,
\* however many writers race for the same base.
THEOREM CommitsNotLost == StoreSpec => []NoCommitLost
<1>1. StoreInit => NoCommitLost
  BY DEF StoreInit, NoCommitLost, RevId
<1>2. TypeOK /\ TypeOK' /\ NoCommitLost /\ [StoreNext]_storeVars => NoCommitLost'
  BY NextKeepsCommits
<1> QED
  BY <1>1, <1>2, TypeCorrect, PTL DEF StoreSpec

-----------------------------------------------------------------------------
(* Branch heads agree with the snapshots they point at. *)

\* The node of a new snapshot and its history.
LEMMA NewSnapshotNode ==
  ASSUME NEW base, NEW from, NEW patch, NEW rows, NEW w
  PROVE  LET snap == NewSnapshot(base, from, patch, rows, w)
             old == LoadSnapshot(base)
         IN  /\ patch.plot_move = NULL =>
                   snap.node = from /\ snap.history = old.history
             /\ patch.plot_move # NULL =>
                   /\ snap.node = patch.plot_move
                   /\ snap.history = Append(old.history,
                                            [from |-> old.node, to |-> patch.plot_move])
             /\ snap.facts = ActiveFacts(rows, w)
BY DEF NewSnapshot

LEMMA CommitHeadMatches ==
  ASSUME TypeOK, HeadMatchesSnapshot,
         NEW w \in WorldId, NEW p \in PlayId, NEW b \in BranchId, NEW base,
         NEW patch \in PatchType, CommitRevision(w, p, b, base, patch)
  PROVE  HeadMatchesSnapshot'
<1>1. CASE CommitStale(w, p, b, base)
  BY <1>1, StaleEffect DEF HeadMatchesSnapshot
<1>2. CASE CommitOnHead(w, p, b, base, patch)
  <2>1. PICK rev, from, snap : OnHeadStep(w, p, b, base, patch, rev, from, snap)
    BY <1>2, CommitOnHeadStep
  <2>2. /\ DOMAIN branch' = DOMAIN branch \cup {b}
        /\ \A c \in DOMAIN branch \ {b} : branch'[c] = branch[c]
        /\ branch'[b].head_rev = rev
        /\ branch'[b].head_node = snap.node
        /\ branch'[b].world = w
        /\ branch'[b].play = p
    BY <2>1 DEF OnHeadStep, HeadMoves
  <2>3. /\ rev \in Nat
        /\ \A r \in RevId : world_revision'[r] = world_revision[r]
        /\ world_revision'[rev].world = w
        /\ world_revision'[rev].play = p
        /\ world_revision'[rev].snapshot = snap
    BY <2>1 DEF OnHeadStep
  <2>4. rev # NULL
    BY <2>3, NullAssumption
  <2>5. ASSUME NEW c \in DOMAIN branch \ {b}, branch[c].head_rev # NULL
        PROVE  world_revision'[branch[c].head_rev] = world_revision[branch[c].head_rev]
    BY <2>3, <2>5 DEF TypeOK
  <2> QED
    BY <2>2, <2>3, <2>4, <2>5 DEF HeadMatchesSnapshot
<1> QED
  BY <1>1, <1>2 DEF CommitRevision

LEMMA NextHeadMatches ==
  TypeOK /\ HeadMatchesSnapshot /\ [StoreNext]_storeVars => HeadMatchesSnapshot'
<1> SUFFICES ASSUME TypeOK, HeadMatchesSnapshot, [StoreNext]_storeVars
             PROVE  HeadMatchesSnapshot'
  OBVIOUS
<1>1. CASE StoreNext
  BY <1>1, PatchAssumption, CommitHeadMatches DEF StoreNext
<1>2. CASE UNCHANGED storeVars
  BY <1>2 DEF storeVars, HeadMatchesSnapshot
<1> QED
  BY <1>1, <1>2

\* A branch head lies in the branch's world and playthrough, and its snapshot
\* stands at the node the branch row shows.
THEOREM HeadsMatchSnapshots == StoreSpec => []HeadMatchesSnapshot
<1>1. StoreInit => HeadMatchesSnapshot
  BY DEF StoreInit, HeadMatchesSnapshot
<1>2. TypeOK /\ HeadMatchesSnapshot /\ [StoreNext]_storeVars => HeadMatchesSnapshot'
  BY NextHeadMatches
<1> QED
  BY <1>1, <1>2, TypeCorrect, PTL DEF StoreSpec
-----------------------------------------------------------------------------
(* The columns of fact. *)

\* What one commit on the head does to a row: a retired row is closed by the
\* new revision of its own world, a new row is opened by it.
LEMMA FactRowStep ==
  ASSUME TypeOK, NEW w, NEW p, NEW b, NEW base, NEW patch, NEW rev, NEW from,
         NEW snap, OnHeadStep(w, p, b, base, patch, rev, from, snap)
  PROVE  /\ \A i \in FactId :
               /\ fact'[i].world = fact[i].world
               /\ fact'[i].status = fact[i].status
               /\ fact'[i].valid_from = fact[i].valid_from
               /\ \/ fact'[i].valid_until = fact[i].valid_until
                  \/ /\ fact[i].world = w
                     /\ fact[i].valid_until = NULL
                     /\ fact'[i].valid_until = rev
         /\ \A i \in FactId' \ FactId :
               /\ fact'[i].world = w
               /\ fact'[i].status \in Status
               /\ fact'[i].valid_from = rev
               /\ fact'[i].valid_until =
                     IF fact'[i].status = "retconned" THEN rev ELSE NULL
<1>1. ASSUME NEW i \in FactId
      PROVE  /\ fact'[i].world = fact[i].world
             /\ fact'[i].status = fact[i].status
             /\ fact'[i].valid_from = fact[i].valid_from
             /\ \/ fact'[i].valid_until = fact[i].valid_until
                \/ /\ fact[i].world = w
                   /\ fact[i].valid_until = NULL
                   /\ fact'[i].valid_until = rev
  <2>1. fact[i] \in FactRow
    BY ElementOfSeq, LenProperties DEF TypeOK, FactId
  <2>2. fact'[i] = RetireFact(fact[i], w, patch, rev)
    BY DEF OnHeadStep
  <2> QED BY <2>1, <2>2 DEF RetireFact, FactRow
<1>2. ASSUME NEW i \in FactId' \ FactId
      PROVE  /\ fact'[i].world = w
             /\ fact'[i].status \in Status
             /\ fact'[i].valid_from = rev
             /\ fact'[i].valid_until =
                   IF fact'[i].status = "retconned" THEN rev ELSE NULL
  <2>1. PICK f \in [triple : Triple, status : Status] : fact'[i] = NewFact(f, w, rev)
    BY DEF OnHeadStep
  <2> QED BY <2>1 DEF NewFact
<1> QED BY <1>1, <1>2

LEMMA NextFactsStay ==
  TypeOK /\ FactsStayInWorld /\ [StoreNext]_storeVars => FactsStayInWorld'
<1> SUFFICES ASSUME TypeOK, FactsStayInWorld, [StoreNext]_storeVars
             PROVE  FactsStayInWorld'
  OBVIOUS
<1>1. ASSUME NEW w \in WorldId, NEW p \in PlayId, NEW b \in BranchId,
             NEW base, CommitStale(w, p, b, base)
      PROVE  FactsStayInWorld'
  BY <1>1, StaleEffect DEF FactsStayInWorld, FactId
<1>2. ASSUME NEW w \in WorldId, NEW p \in PlayId, NEW b \in BranchId, NEW base,
             NEW patch \in Patch, CommitOnHead(w, p, b, base, patch)
      PROVE  FactsStayInWorld'
  <2>1. PICK rev, from, snap : OnHeadStep(w, p, b, base, patch, rev, from, snap)
    BY <1>2, PatchAssumption, CommitOnHeadStep
  <2>2. /\ rev \in Nat
        /\ \A r \in RevId : world_revision'[r] = world_revision[r]
        /\ world_revision'[rev].world = w
        /\ FactId \subseteq FactId'
    BY <2>1 DEF OnHeadStep
  <2>3. rev # NULL
    BY <2>2, NullAssumption
  <2>4. ASSUME NEW i \in FactId
        PROVE  /\ world_revision'[fact'[i].valid_from].world = fact'[i].world
               /\ fact'[i].valid_until # NULL =>
                     world_revision'[fact'[i].valid_until].world = fact'[i].world
    <3>1. /\ fact[i].valid_from \in RevId
          /\ fact[i].valid_until \in RevId \cup {NULL}
          /\ world_revision[fact[i].valid_from].world = fact[i].world
          /\ fact[i].valid_until # NULL =>
                world_revision[fact[i].valid_until].world = fact[i].world
      BY DEF TypeOK, FactsStayInWorld
    <3>2. /\ fact'[i].world = fact[i].world
          /\ fact'[i].valid_from = fact[i].valid_from
          /\ \/ fact'[i].valid_until = fact[i].valid_until
             \/ fact[i].world = w /\ fact'[i].valid_until = rev
      BY <2>1, FactRowStep
    <3> QED BY <2>2, <3>1, <3>2
  <2>5. ASSUME NEW i \in FactId' \ FactId
        PROVE  /\ world_revision'[fact'[i].valid_from].world = fact'[i].world
               /\ fact'[i].valid_until # NULL =>
                     world_revision'[fact'[i].valid_until].world = fact'[i].world
    <3>1. /\ fact'[i].world = w
          /\ fact'[i].valid_from = rev
          /\ fact'[i].valid_until \in {rev, NULL}
      BY <2>1, FactRowStep
    <3> QED BY <2>2, <3>1
  <2> QED BY <2>2, <2>4, <2>5 DEF FactsStayInWorld
<1>3. CASE UNCHANGED storeVars
  BY <1>3 DEF storeVars, FactsStayInWorld, FactId
<1> QED
  BY <1>1, <1>2, <1>3 DEF StoreNext, CommitRevision

\* A fact is opened and closed by revisions of its own world only.
THEOREM FactsStay == StoreSpec => []FactsStayInWorld
<1>1. StoreInit => FactsStayInWorld
  BY DEF StoreInit, FactsStayInWorld, FactId
<1>2. TypeOK /\ FactsStayInWorld /\ [StoreNext]_storeVars => FactsStayInWorld'
  BY NextFactsStay
<1> QED
  BY <1>1, <1>2, TypeCorrect, PTL DEF StoreSpec

\* A commit leaves the validity of every fact at every earlier revision alone.
LEMMA OldValidity ==
  ASSUME TypeOK, NEW w, NEW p, NEW b, NEW base, NEW patch, NEW rev, NEW from,
         NEW snap, OnHeadStep(w, p, b, base, patch, rev, from, snap),
         NEW r \in RevId
  PROVE  {i \in FactId' : ValidAt(i, r)'} = {i \in FactId : ValidAt(i, r)}
<1>1. /\ rev \in Nat \ {0}
      /\ RevId = 1..(rev - 1)
      /\ world_revision'[r] = world_revision[r]
      /\ FactId \subseteq FactId'
  BY DEF OnHeadStep
<1>2. r \in Nat /\ rev > r /\ ~(rev <= r) /\ rev # NULL
  BY <1>1, NullAssumption
<1>3. ASSUME NEW i \in FactId
      PROVE  ValidAt(i, r)' <=> ValidAt(i, r)
  <2>1. /\ fact'[i].world = fact[i].world
        /\ fact'[i].status = fact[i].status
        /\ fact'[i].valid_from = fact[i].valid_from
        /\ \/ fact'[i].valid_until = fact[i].valid_until
           \/ fact[i].valid_until = NULL /\ fact'[i].valid_until = rev
    BY FactRowStep
  <2> QED BY <1>1, <1>2, <2>1 DEF ValidAt
<1>4. ASSUME NEW i \in FactId' \ FactId
      PROVE  ~ValidAt(i, r)'
  <2>1. fact'[i].valid_from = rev
    BY FactRowStep
  <2> QED BY <1>2, <2>1 DEF ValidAt
<1> QED BY <1>1, <1>3, <1>4

\* The facts stored with the new revision are those valid at it.
LEMMA NewValidity ==
  ASSUME TypeOK, TypeOK', NEW w, NEW p, NEW b, NEW base, NEW patch, NEW rev,
         NEW from, NEW snap, OnHeadStep(w, p, b, base, patch, rev, from, snap)
  PROVE  snap.facts = {i \in FactId' : ValidAt(i, rev)'}
<1>1. /\ rev \in Nat \ {0}
      /\ RevId' = 1..rev
      /\ world_revision'[rev].world = w
      /\ snap = NewSnapshot(base, from, patch, fact', w)
  BY DEF OnHeadStep
<1>2. snap.facts = ActiveFacts(fact', w)
  BY <1>1 DEF NewSnapshot
<1>3. ASSUME NEW i \in FactId'
      PROVE  i \in ActiveFacts(fact', w) <=> ValidAt(i, rev)'
  <2>1. fact'[i] \in FactRow
    BY ElementOfSeq, LenProperties DEF TypeOK, FactId
  <2>2. fact'[i].valid_from \in RevId' /\ fact'[i].valid_until \in RevId' \cup {NULL}
    BY DEF TypeOK
  <2>3. fact'[i].valid_from <= rev
    BY <1>1, <2>2
  <2>4. fact'[i].valid_until # NULL => ~(fact'[i].valid_until > rev)
    BY <1>1, <2>2
  <2>5. fact'[i].status \in Status
    BY <2>1 DEF FactRow
  <2>6. fact'[i].status # "retconned" <=> fact'[i].status \in {"asserted", "rumor"}
    BY <2>5 DEF Status
  <2> QED BY <1>1, <2>3, <2>4, <2>6 DEF ActiveFacts, ValidAt, FactId
<1>4. ActiveFacts(fact', w) \subseteq FactId'
  BY DEF ActiveFacts, FactId
<1> QED BY <1>2, <1>3, <1>4

LEMMA NextSnapshotsMatch ==
  TypeOK /\ TypeOK' /\ SnapshotsMatchValidity /\ [StoreNext]_storeVars
     => SnapshotsMatchValidity'
<1> SUFFICES ASSUME TypeOK, TypeOK', SnapshotsMatchValidity, [StoreNext]_storeVars
             PROVE  SnapshotsMatchValidity'
  OBVIOUS
<1>1. ASSUME NEW w \in WorldId, NEW p \in PlayId, NEW b \in BranchId,
             NEW base, CommitStale(w, p, b, base)
      PROVE  SnapshotsMatchValidity'
  BY <1>1, StaleEffect DEF SnapshotsMatchValidity, ValidAt, RevId, FactId
<1>2. ASSUME NEW w \in WorldId, NEW p \in PlayId, NEW b \in BranchId, NEW base,
             NEW patch \in Patch, CommitOnHead(w, p, b, base, patch)
      PROVE  SnapshotsMatchValidity'
  <2>1. PICK rev, from, snap : OnHeadStep(w, p, b, base, patch, rev, from, snap)
    BY <1>2, PatchAssumption, CommitOnHeadStep
  <2>2. /\ RevId' = RevId \cup {rev}
        /\ \A r \in RevId : world_revision'[r] = world_revision[r]
        /\ world_revision'[rev].snapshot = snap
    BY <2>1 DEF OnHeadStep
  <2>3. ASSUME NEW r \in RevId
        PROVE  world_revision'[r].snapshot.facts = {i \in FactId' : ValidAt(i, r)'}
    <3>1. {i \in FactId' : ValidAt(i, r)'} = {i \in FactId : ValidAt(i, r)}
      BY <2>1, OldValidity
    <3> QED BY <2>2, <3>1 DEF SnapshotsMatchValidity
  <2>4. world_revision'[rev].snapshot.facts = {i \in FactId' : ValidAt(i, rev)'}
    BY <2>1, <2>2, NewValidity
  <2>5. ASSUME NEW r \in RevId'
        PROVE  world_revision'[r].snapshot.facts = {i \in FactId' : ValidAt(i, r)'}
    BY <2>2, <2>3, <2>4
  <2> QED BY <2>5 DEF SnapshotsMatchValidity
<1>3. CASE UNCHANGED storeVars
  BY <1>3 DEF storeVars, SnapshotsMatchValidity, ValidAt, RevId, FactId
<1> QED
  BY <1>1, <1>2, <1>3 DEF StoreNext, CommitRevision

\* The columns of fact rebuild the facts of every stored snapshot.
THEOREM SnapshotsMatch == StoreSpec => []SnapshotsMatchValidity
<1>1. StoreInit => SnapshotsMatchValidity
  BY DEF StoreInit, SnapshotsMatchValidity, RevId
<1>2. TypeOK /\ TypeOK' /\ SnapshotsMatchValidity /\ [StoreNext]_storeVars
         => SnapshotsMatchValidity'
  BY NextSnapshotsMatch
<1> QED
  BY <1>1, <1>2, TypeCorrect, PTL DEF StoreSpec
-----------------------------------------------------------------------------
(* The plot history. *)

\* A sequence of moves that starts nowhere and ends at node.
Walk(h, node) ==
  IF h = <<>>
  THEN node = NULL
  ELSE /\ h[1].from = NULL
       /\ \A i \in 1..(Len(h) - 1) : h[i + 1].from = h[i].to
       /\ h[Len(h)].to = node

LEMMA WalkExtends ==
  ASSUME NEW h \in Seq([from : NodeId \cup {NULL}, to : NodeId]),
         NEW node \in NodeId \cup {NULL}, NEW to \in NodeId, Walk(h, node)
  PROVE  Walk(Append(h, [from |-> node, to |-> to]), to)
<1> DEFINE move == [from |-> node, to |-> to]
           n == Len(h)
           g == Append(h, move)
<1>1. /\ n \in Nat /\ Len(g) = n + 1 /\ g[n + 1] = move /\ g # <<>>
      /\ \A i \in 1..n : g[i] = h[i]
  OBVIOUS
<1>2. CASE h = <<>>
  <2>1. n = 0 /\ node = NULL
    BY <1>2 DEF Walk
  <2> QED BY <1>1, <2>1 DEF Walk
<1>3. CASE h # <<>>
  <2>1. n >= 1 /\ 1 \in 1..n /\ n \in 1..n
    BY <1>1, <1>3, EmptySeq
  <2>2. /\ h[1].from = NULL
        /\ \A i \in 1..(n - 1) : h[i + 1].from = h[i].to
        /\ h[n].to = node
    BY <1>3 DEF Walk
  <2>3. ASSUME NEW i \in 1..n
        PROVE  g[i + 1].from = g[i].to
    <3>1. CASE i = n
      BY <1>1, <2>1, <2>2, <3>1
    <3>2. CASE i # n
      <4>1. i \in 1..(n - 1) /\ i + 1 \in 1..n
        BY <1>1, <3>2
      <4> QED BY <1>1, <2>2, <4>1
    <3> QED BY <3>1, <3>2
  <2>4. g[1].from = NULL
    BY <1>1, <2>1, <2>2
  <2> HIDE DEF g
  <2> QED BY <1>1, <2>3, <2>4 DEF Walk
<1> QED BY <1>2, <1>3

LEMMA PatchMove ==
  ASSUME NEW patch \in PatchType PROVE patch.plot_move \in NodeId \cup {NULL}
BY Zenon DEF PatchType

LEMMA HistoryWalks ==
  HistoryIsWalk <=>
     \A r \in RevId : Walk(world_revision[r].snapshot.history,
                           world_revision[r].snapshot.node)
BY DEF HistoryIsWalk, Walk

LEMMA CommitHistoryIsWalk ==
  ASSUME TypeOK, HeadMatchesSnapshot, HistoryIsWalk,
         NEW w \in WorldId, NEW p \in PlayId, NEW b \in BranchId, NEW base,
         NEW patch \in PatchType, CommitRevision(w, p, b, base, patch)
  PROVE  HistoryIsWalk'
<1>1. CASE CommitStale(w, p, b, base)
  <2>1. UNCHANGED world_revision
    BY <1>1, StaleEffect
  <2> QED BY <2>1 DEF HistoryIsWalk, RevId
<1>2. CASE CommitOnHead(w, p, b, base, patch)
  <2>1. PICK rev, from, snap : OnHeadStep(w, p, b, base, patch, rev, from, snap)
    BY <1>2, CommitOnHeadStep
  <2>2. /\ RevId' = RevId \cup {rev}
        /\ \A r \in RevId : world_revision'[r] = world_revision[r]
        /\ world_revision'[rev].snapshot = snap
        /\ base \in RevId \cup {NULL}
        /\ snap = NewSnapshot(base, from, patch, fact', w)
    BY <2>1 DEF OnHeadStep
  <2>3. /\ b \in DOMAIN branch => branch[b].head_rev = base /\ branch[b].head_node = from
        /\ b \notin DOMAIN branch => base = NULL /\ from = NULL
    BY <2>1 DEF OnHeadStep, HeadMoves
  <2> DEFINE old == LoadSnapshot(base)
  <2>4. /\ old \in Snapshot
        /\ old.history \in Seq([from : NodeId \cup {NULL}, to : NodeId])
        /\ old.node \in NodeId \cup {NULL}
        /\ old.node = from
        /\ Walk(old.history, old.node)
    <3>1. CASE base = NULL
      <4>1. from = NULL
        BY <2>3, <3>1 DEF HeadMatchesSnapshot
      <4> QED BY <3>1, <4>1 DEF LoadSnapshot, EmptySnapshot, Snapshot, Walk
    <3>2. CASE base # NULL
      <4>1. base \in RevId /\ old = world_revision[base].snapshot
        BY <2>2, <3>2 DEF LoadSnapshot
      <4>2. world_revision[base] \in RevisionRow
        BY <4>1, ElementOfSeq, LenProperties DEF TypeOK, RevId
      <4>3. old.node = from
        BY <2>3, <3>2, <4>1 DEF HeadMatchesSnapshot
      <4>4. Walk(old.history, old.node)
        BY <4>1, HistoryWalks
      <4> QED BY <4>1, <4>2, <4>3, <4>4 DEF RevisionRow, Snapshot
    <3> QED BY <3>1, <3>2
  <2>5. patch.plot_move \in NodeId \cup {NULL}
    BY <1>2, PatchMove
  <2> HIDE DEF old
  <2>6. /\ patch.plot_move = NULL => snap.node = from /\ snap.history = old.history
        /\ patch.plot_move # NULL =>
              /\ snap.node = patch.plot_move
              /\ snap.history = Append(old.history,
                                       [from |-> old.node, to |-> patch.plot_move])
    BY <2>2 DEF NewSnapshot, old
  <2>7. Walk(snap.history, snap.node)
    <3>1. CASE patch.plot_move = NULL
      BY <2>4, <2>6, <3>1
    <3>2. CASE patch.plot_move # NULL
      <4>1. patch.plot_move \in NodeId
        BY <2>5, <3>2
      <4>2. Walk(Append(old.history, [from |-> old.node, to |-> patch.plot_move]),
                 patch.plot_move)
        BY <2>4, <4>1, WalkExtends
      <4> QED BY <2>6, <3>2, <4>2
    <3> QED BY <3>1, <3>2
  <2>8. \A r \in RevId' : Walk(world_revision'[r].snapshot.history,
                               world_revision'[r].snapshot.node)
    BY <2>2, <2>7, HistoryWalks
  <2> QED BY <2>8 DEF HistoryIsWalk, Walk
<1> QED
  BY <1>1, <1>2 DEF CommitRevision

LEMMA NextHistoryIsWalk ==
  TypeOK /\ HeadMatchesSnapshot /\ HistoryIsWalk /\ [StoreNext]_storeVars
     => HistoryIsWalk'
<1> SUFFICES ASSUME TypeOK, HeadMatchesSnapshot, HistoryIsWalk,
                    [StoreNext]_storeVars
             PROVE  HistoryIsWalk'
  OBVIOUS
<1>1. CASE StoreNext
  BY <1>1, PatchAssumption, CommitHistoryIsWalk DEF StoreNext
<1>2. CASE UNCHANGED storeVars
  BY <1>2 DEF storeVars, HistoryIsWalk, RevId
<1> QED
  BY <1>1, <1>2

\* The plot history of every snapshot is one connected walk to its node,
\* although the history is read from the base's snapshot and the node from the
\* branch row.
THEOREM HistoriesAreWalks == StoreSpec => []HistoryIsWalk
<1>1. StoreInit => HistoryIsWalk
  BY DEF StoreInit, HistoryIsWalk, RevId
<1>2. TypeOK /\ HeadMatchesSnapshot /\ HistoryIsWalk /\ [StoreNext]_storeVars
         => HistoryIsWalk'
  BY NextHistoryIsWalk
<1> QED
  BY <1>1, <1>2, TypeCorrect, HeadsMatchSnapshots, PTL DEF StoreSpec

-----------------------------------------------------------------------------
(* The canon implements LinearHistory. *)

\* The abstract state: what was committed through each branch, what it reaches.
Own == [b \in BranchId |-> {r \in RevId : world_revision[r].branch = b}]
Reached == [b \in BranchId |-> Reach(b)]

\* History!Publish(b), with rev as the revision nobody has seen.
Publishes(b, rev) ==
  /\ rev \in 1..MaxRevs
  /\ \A c \in BranchId : rev \notin Own[c]
  /\ Own' = [Own EXCEPT ![b] = @ \cup {rev}]
  /\ Reached' = [Reached EXCEPT ![b] = @ \cup {rev}]

LEMMA StalePublishesNothing ==
  ASSUME TypeOK, NEW w \in WorldId, NEW p \in PlayId, NEW b \in BranchId,
         NEW base, CommitStale(w, p, b, base)
  PROVE  UNCHANGED <<Own, Reached>>
<1>1. \A c \in BranchId : Reach(c)' = Reach(c)
  BY StaleReach
<1>2. world_revision' = world_revision
  BY StaleEffect
<1>3. Own' = Own
  BY <1>2 DEF Own, RevId
<1>4. Reached' = Reached
  BY <1>1 DEF Reached
<1> QED BY <1>3, <1>4

LEMMA OnHeadPublishes ==
  ASSUME TypeOK, TypeOK', NEW w, NEW p, NEW b \in BranchId, NEW base, NEW patch,
         NEW rev, NEW from, NEW snap,
         OnHeadStep(w, p, b, base, patch, rev, from, snap)
  PROVE  Publishes(b, rev)
<1>1. /\ Reach(b)' = Reach(b) \cup {rev}
      /\ \A c \in BranchId \ {b} : Reach(c)' = Reach(c)
  BY OnHeadReach
<1>2. /\ rev \in Nat \ {0}
      /\ RevId = 1..(rev - 1)
      /\ RevId' = 1..rev
      /\ \A r \in RevId : world_revision'[r] = world_revision[r]
      /\ world_revision'[rev].branch = b
  BY DEF OnHeadStep
<1>3. RevId' = RevId \cup {rev} /\ rev \notin RevId
  BY <1>2
<1>4. rev \in 1..MaxRevs
  <2>1. Len(world_revision') <= MaxRevs /\ RevId' = 1..Len(world_revision')
        /\ Len(world_revision') \in Nat
    BY LenProperties DEF TypeOK, RevId
  <2>2. rev = Len(world_revision')
    BY <1>2, <2>1
  <2> QED BY <1>2, <2>1, <2>2
<1>5. \A c \in BranchId : rev \notin Own[c]
  BY <1>3 DEF Own
<1>6. Own' = [Own EXCEPT ![b] = @ \cup {rev}]
  <2>1. \A c \in BranchId \ {b} :
           {r \in RevId' : world_revision'[r].branch = c}
              = {r \in RevId : world_revision[r].branch = c}
    BY <1>2, <1>3
  <2>2. {r \in RevId' : world_revision'[r].branch = b}
           = {r \in RevId : world_revision[r].branch = b} \cup {rev}
    BY <1>2, <1>3
  <2>3. PICK o, n : o = Own /\ n = Own'
    OBVIOUS
  <2>4. /\ o = [c \in BranchId |-> o[c]]
        /\ n = [c \in BranchId |-> n[c]]
    BY <2>3 DEF Own
  <2>5. \A c \in BranchId \ {b} : n[c] = o[c]
    BY <2>1, <2>3 DEF Own
  <2>6. n[b] = o[b] \cup {rev}
    BY <2>2, <2>3 DEF Own
  <2>7. n = [o EXCEPT ![b] = o[b] \cup {rev}]
    BY <2>4, <2>5, <2>6
  <2> QED BY <2>3, <2>7
<1>7. Reached' = [Reached EXCEPT ![b] = @ \cup {rev}]
  BY <1>1 DEF Reached
<1> QED BY <1>4, <1>5, <1>6, <1>7 DEF Publishes

LEMMA NextRefines ==
  TypeOK /\ TypeOK' /\ [StoreNext]_storeVars => [History!Next]_History!vars
<1> SUFFICES ASSUME TypeOK, TypeOK', [StoreNext]_storeVars
             PROVE  [History!Next]_History!vars
  OBVIOUS
<1>1. ASSUME NEW w \in WorldId, NEW p \in PlayId, NEW b \in BranchId,
             NEW base, CommitStale(w, p, b, base)
      PROVE  UNCHANGED History!vars
  BY <1>1, StalePublishesNothing DEF History!vars, Own, Reached
<1>2. ASSUME NEW w \in WorldId, NEW p \in PlayId, NEW b \in BranchId, NEW base,
             NEW patch \in Patch, CommitOnHead(w, p, b, base, patch)
      PROVE  History!Next
  <2>1. PICK rev, from, snap : OnHeadStep(w, p, b, base, patch, rev, from, snap)
    BY <1>2, PatchAssumption, CommitOnHeadStep
  <2>2. Publishes(b, rev)
    BY <1>2, <2>1, OnHeadPublishes
  <2>3. History!Publish(b)
    BY <2>2 DEF Publishes, History!Publish, Own, Reached
  <2> QED BY <2>3 DEF History!Next
<1>3. CASE UNCHANGED storeVars
  BY <1>3 DEF storeVars, History!vars, Reach, IsAncestor, ParentClosed, RevId
<1> QED
  BY <1>1, <1>2, <1>3 DEF StoreNext, CommitRevision

\* commit_revision implements LinearHistory: a successful commit publishes one
\* fresh revision on its branch, everything else is a stutter.
THEOREM Refinement == StoreSpec => KeepsLinearHistory
<1>1. StoreInit => History!Init
  BY DEF StoreInit, History!Init, Reach, RevId
<1>2. TypeOK /\ TypeOK' /\ [StoreNext]_storeVars => [History!Next]_History!vars
  BY NextRefines
<1> QED
  BY <1>1, <1>2, TypeCorrect, PTL DEF StoreSpec, KeepsLinearHistory, History!Spec
=============================================================================
