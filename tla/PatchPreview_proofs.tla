-------------------------- MODULE PatchPreview_proofs --------------------------
(***************************************************************************)
(* Proofs about PatchPreview, for any patches and any facts: a preview on  *)
(* the newest revision of a world tells what a commit leaves in the fact   *)
(* table, equal previews are exchangeable, and a silent quality gate keeps *)
(* one asserted value for a subject and predicate.                         *)
(***************************************************************************)
EXTENDS PatchPreview, CanonStore_proofs, FiniteSetTheorems, WellFoundedInduction

-----------------------------------------------------------------------------
(* Finite sets *)

LEMMA LeastNumber ==
  ASSUME NEW T, T \subseteq Nat, T # {}
  PROVE  \E m \in T : \A k \in T : m <= k
<1>1. PICK m \in T : \A k \in T : <<k, m>> \notin OpToRel(<, Nat)
  BY NatLessThanWellFounded, WFMin
<1>2. \A k \in T : ~(k < m)
  BY <1>1 DEF OpToRel
<1> QED BY <1>2

LEMMA GreatestPosition ==
  ASSUME NEW n \in Nat, NEW s \in SUBSET (1..n), s # {}
  PROVE  Max(s) \in s /\ \A k \in s : k <= Max(s)
<1>1. PICK m \in {n - k : k \in s} : \A j \in {n - k : k \in s} : m <= j
  <2> DEFINE T == {n - k : k \in s}
  <2>0. \A k \in s : n - k \in Nat
    OBVIOUS
  <2>1. T \subseteq Nat /\ T # {}
    BY <2>0
  <2> HIDE DEF T
  <2>2. \E m \in T : \A j \in T : m <= j
    BY <2>1, LeastNumber
  <2> QED BY <2>2 DEF T
<1>2. PICK x \in s : m = n - x
  BY <1>1
<1>3. \A k \in s : n - x <= n - k
  BY <1>1, <1>2
<1>4. \A k \in s : x >= k
  BY <1>3
<1>5. Max(s) \in s /\ \A k \in s : Max(s) >= k
  BY <1>4 DEF Max
<1> QED BY <1>5

LEMMA MinimalSubset ==
  ASSUME NEW D, IsFiniteSet(D), NEW Bad, Bad \subseteq SUBSET D, Bad # {}
  PROVE  \E s \in Bad : \A u \in Bad : u \subseteq s => u = s
<1>1. FiniteSubsetsOf(D) = SUBSET D
  BY FS_FiniteSubsetsOfFinite
<1>2. PICK s \in Bad : \A u \in Bad : <<u, s>> \notin StrictSubsetOrdering(D)
  BY <1>1, FS_StrictSubsetOrderingWellFounded, WFMin
<1> QED BY <1>2 DEF StrictSubsetOrdering

-----------------------------------------------------------------------------
(* What the loop over facts_add leaves: of each triple the last fact counts. *)

Added(added, s, t) == {i \in s : added[i].triple = t}

LastAdded(added, s, t) == added[Max(Added(added, s, t))]

Shown(view, added, s) ==
  {t \in DOMAIN view \cup {added[i].triple : i \in s} :
     Added(added, s, t) # {} => LastAdded(added, s, t).status # "retconned"}

\* The view once the facts at the positions s are added in their order.
ViewOf(view, added, s) ==
  [t \in Shown(view, added, s) |->
     IF Added(added, s, t) = {} THEN view[t] ELSE LastAdded(added, s, t).status]

ViewLoop(view, added) ==
  CHOOSE iter :
    iter = [s \in SUBSET DOMAIN added |->
              IF s = {} THEN view
              ELSE WithFact(iter[s \ {Max(s)}], added[Max(s)])]

LEMMA FoldIsLoop ==
  ASSUME NEW view, NEW added
  PROVE  FoldLeft(WithFact, view, added) = ViewLoop(view, added)[DOMAIN added]
BY DEF FoldLeft, MapThenFoldSet, ViewLoop

LEMMA ViewOfNothing ==
  ASSUME NEW view, view = [t \in DOMAIN view |-> view[t]], NEW added
  PROVE  ViewOf(view, added, {}) = view
<1>1. \A t : Added(added, {}, t) = {}
  BY DEF Added
<1>2. Shown(view, added, {}) = DOMAIN view
  BY <1>1 DEF Shown
<1> QED BY <1>1, <1>2 DEF ViewOf

LEMMA ViewOfOneMore ==
  ASSUME NEW view, NEW n \in Nat, NEW added, DOMAIN added = 1..n,
         NEW s \in SUBSET (1..n), s # {}
  PROVE  ViewOf(view, added, s)
           = WithFact(ViewOf(view, added, s \ {Max(s)}), added[Max(s)])
<1> DEFINE m == Max(s)
           f == added[m]
           r == s \ {m}
           old == ViewOf(view, added, r)
<1>1. m \in s /\ \A k \in s : k <= m
  BY GreatestPosition
<1>2. Added(added, s, f.triple) # {} /\ LastAdded(added, s, f.triple) = f
  <2>1. m \in Added(added, s, f.triple)
    BY <1>1 DEF Added
  <2>2. Added(added, s, f.triple) \in SUBSET (1..n)
    BY DEF Added
  <2>3. PICK k \in Added(added, s, f.triple) :
          k = Max(Added(added, s, f.triple)) /\ m <= k
    BY <2>1, <2>2, GreatestPosition
  <2>4. k = m
    <3>1. k \in s /\ k <= m
      BY <1>1, <2>3 DEF Added
    <3>2. \A j \in s : j \in Int
      OBVIOUS
    <3> HIDE DEF m
    <3> QED BY <1>1, <2>3, <3>1, <3>2
  <2> QED BY <2>1, <2>3, <2>4 DEF LastAdded
<1>3. \A t : t # f.triple => Added(added, s, t) = Added(added, r, t)
  BY DEF Added
<1>4. \A t : t # f.triple => LastAdded(added, s, t) = LastAdded(added, r, t)
  BY <1>3 DEF LastAdded
<1>5. {added[i].triple : i \in s} = {added[i].triple : i \in r} \cup {f.triple}
  BY <1>1
<1>6. DOMAIN old = Shown(view, added, r)
  BY DEF ViewOf
<1>7. CASE f.status = "retconned"
  <2>1. Shown(view, added, s) = Shown(view, added, r) \ {f.triple}
    BY <1>2, <1>3, <1>4, <1>5, <1>7 DEF Shown
  <2>2. WithFact(old, f) = [t \in Shown(view, added, r) \ {f.triple} |-> old[t]]
    BY <1>6, <1>7 DEF WithFact, Without
  <2>3. \A t \in Shown(view, added, r) \ {f.triple} :
          old[t] = IF Added(added, s, t) = {} THEN view[t]
                   ELSE LastAdded(added, s, t).status
    BY <1>3, <1>4 DEF ViewOf
  <2> QED BY <2>1, <2>2, <2>3 DEF ViewOf
<1>8. CASE f.status # "retconned"
  <2>1. Shown(view, added, s) = Shown(view, added, r) \cup {f.triple}
    BY <1>2, <1>3, <1>4, <1>5, <1>8 DEF Shown
  <2>2. WithFact(old, f) = [t \in Shown(view, added, r) \cup {f.triple} |->
                              IF t = f.triple THEN f.status ELSE old[t]]
    BY <1>6, <1>8 DEF WithFact, SetRow
  <2>3. \A t \in Shown(view, added, r) \ {f.triple} :
          old[t] = IF Added(added, s, t) = {} THEN view[t]
                   ELSE LastAdded(added, s, t).status
    BY <1>3, <1>4 DEF ViewOf
  <2> QED BY <1>2, <2>1, <2>2, <2>3 DEF ViewOf
<1> QED BY <1>7, <1>8

\* The loop has one outcome, which the closed form gives.
LEMMA LoopIsViewOf ==
  ASSUME NEW view, view = [t \in DOMAIN view |-> view[t]],
         NEW added, NEW n \in Nat, DOMAIN added = 1..n
  PROVE  FoldLeft(WithFact, view, added) = ViewOf(view, added, 1..n)
<1> DEFINE Loop(iter) ==
             iter = [s \in SUBSET DOMAIN added |->
                       IF s = {} THEN view
                       ELSE WithFact(iter[s \ {Max(s)}], added[Max(s)])]
           closed == [s \in SUBSET DOMAIN added |-> ViewOf(view, added, s)]
<1>1. Loop(closed)
  <2>1. ASSUME NEW s \in SUBSET DOMAIN added
        PROVE  ViewOf(view, added, s) =
                 IF s = {} THEN view
                 ELSE WithFact(closed[s \ {Max(s)}], added[Max(s)])
    <3>1. closed[s \ {Max(s)}] = ViewOf(view, added, s \ {Max(s)})
      OBVIOUS
    <3>2. CASE s = {}
      BY <3>2, ViewOfNothing
    <3>3. CASE s # {}
      <4>1. ViewOf(view, added, s)
              = WithFact(ViewOf(view, added, s \ {Max(s)}), added[Max(s)])
        BY <3>3, ViewOfOneMore
      <4> HIDE DEF closed
      <4> QED BY <3>1, <3>3, <4>1
    <3> QED BY <3>2, <3>3
  <2> QED BY <2>1
<1>2. PICK iter : iter = ViewLoop(view, added) /\ Loop(iter)
  <2> HIDE DEF closed
  <2> QED BY <1>1 DEF ViewLoop
<1>3. \A s \in SUBSET DOMAIN added : iter[s] = ViewOf(view, added, s)
  <2> DEFINE Bad == {s \in SUBSET DOMAIN added : iter[s] # ViewOf(view, added, s)}
  <2> SUFFICES ASSUME Bad # {} PROVE FALSE
    OBVIOUS
  <2>1. IsFiniteSet(DOMAIN added)
    BY FS_Interval
  <2>2. PICK s \in Bad : \A u \in Bad : u \subseteq s => u = s
    <3>1. Bad \subseteq SUBSET DOMAIN added
      OBVIOUS
    <3> HIDE DEF Bad
    <3> QED BY <2>1, <3>1, MinimalSubset
  <2>3. iter[s] = IF s = {} THEN view
                  ELSE WithFact(iter[s \ {Max(s)}], added[Max(s)])
    BY <1>2
  <2>4. s # {}
    BY <2>3, ViewOfNothing
  <2>5. Max(s) \in s
    BY <2>4, GreatestPosition
  <2>6. iter[s \ {Max(s)}] = ViewOf(view, added, s \ {Max(s)})
    BY <2>2, <2>5
  <2> QED BY <2>2, <2>3, <2>4, <2>6, ViewOfOneMore
<1> QED BY <1>2, <1>3, FoldIsLoop

-----------------------------------------------------------------------------
(* Snapshots and the fact table *)

PreviewInv == TypeOK /\ SnapshotsMatchValidity /\ FactsStayInWorld

LEMMA PatchFacts ==
  ASSUME NEW patch \in PatchType
  PROVE  /\ patch.facts_add \in Seq([triple : Triple, status : Status])
         /\ Len(patch.facts_add) \in Nat
         /\ DOMAIN patch.facts_add = 1..Len(patch.facts_add)
         /\ \A j \in 1..Len(patch.facts_add) :
               patch.facts_add[j].status \in Status
<1>1. patch.facts_add \in Seq([triple : Triple, status : Status])
  BY DEF PatchType
<1>2. PICK S : S = [triple : Triple, status : Status]
  OBVIOUS
<1>3. PICK added \in Seq(S) : added = patch.facts_add
  BY <1>1, <1>2
<1>4. /\ Len(added) \in Nat /\ DOMAIN added = 1..Len(added)
      /\ \A j \in 1..Len(added) : added[j] \in S
  BY LenProperties, ElementOfSeq
<1>5. \A f \in S : f.status \in Status
  BY <1>2
<1> QED BY <1>1, <1>3, <1>4, <1>5

\* The snapshot of the newest revision of a world lists its open rows: whatever
\* closed a row was a revision of that world, and none is newer.
LEMMA NewestListsOpenRows ==
  ASSUME PreviewInv, NEW rev, NEW w, IsNewest(rev, w)
  PROVE  LoadSnapshot(rev).facts = ActiveFacts(fact, w)
<1>1. rev \in RevId /\ rev \in Nat /\ rev # NULL
  BY NullAssumption DEF IsNewest, PreviewInv, TypeOK, RevId
<1>2. LoadSnapshot(rev).facts = {i \in FactId : ValidAt(i, rev)}
  BY <1>1 DEF LoadSnapshot, PreviewInv, SnapshotsMatchValidity
<1>3. ASSUME NEW i \in FactId
      PROVE  ValidAt(i, rev) <=> i \in ActiveFacts(fact, w)
  <2>1. /\ fact[i].status \in Status
        /\ fact[i].valid_from \in RevId
        /\ fact[i].valid_until \in RevId \cup {NULL}
    <3>1. fact \in Seq(FactRow) /\ i \in DOMAIN fact
      BY DEF PreviewInv, TypeOK, FactId
    <3>2. fact[i] \in FactRow
      BY <3>1
    <3> QED BY <3>2 DEF PreviewInv, TypeOK, FactRow
  <2>2. \A r \in RevId : r \in Nat
    BY DEF PreviewInv, TypeOK, RevId
  <2>3. CASE fact[i].world # w
    BY <2>3 DEF ValidAt, ActiveFacts, IsNewest
  <2>4. CASE fact[i].world = w
    <3>1. fact[i].valid_from <= rev
      BY <2>1, <2>4 DEF PreviewInv, FactsStayInWorld, IsNewest
    <3>2. fact[i].valid_until # NULL => ~(fact[i].valid_until > rev)
      <4>1. SUFFICES ASSUME fact[i].valid_until # NULL
                     PROVE  ~(fact[i].valid_until > rev)
        OBVIOUS
      <4>2. PICK u : u = fact[i].valid_until /\ u \in RevId
        BY <2>1, <4>1
      <4>3. world_revision[u].world = w
        BY <2>4, <4>1, <4>2 DEF PreviewInv, FactsStayInWorld
      <4>4. u <= rev
        BY <4>2, <4>3 DEF IsNewest
      <4>5. u \in Nat
        BY <2>2, <4>2
      <4> QED BY <1>1, <4>2, <4>4, <4>5
    <3> QED BY <2>1, <2>4, <3>1, <3>2 DEF ValidAt, ActiveFacts, IsNewest, FactId, Status
  <2> QED BY <2>3, <2>4
<1>4. ActiveFacts(fact, w) \subseteq FactId
  BY DEF ActiveFacts, FactId
<1> QED BY <1>2, <1>3, <1>4

\* The open rows after a commit: the open ones that the patch does not retire,
\* and those that it adds without retconning them.
RowsApplied(rows, w, patch, added, m, n) ==
  /\ \A i \in FactId :
        /\ rows[i].triple = fact[i].triple
        /\ rows[i].status = fact[i].status
        /\ i \in ActiveFacts(rows, w) <=>
              /\ i \in ActiveFacts(fact, w)
              /\ fact[i].triple \notin Retires(patch)
  /\ \A j \in 1..n :
        /\ m + j \notin FactId
        /\ rows[m + j].triple = added[j].triple
        /\ rows[m + j].status = added[j].status
        /\ m + j \in ActiveFacts(rows, w) <=> added[j].status # "retconned"
  /\ \A k \in ActiveFacts(rows, w) :
        k \in FactId \/ \E j \in 1..n : k = m + j

LEMMA OpenAfterCommit ==
  ASSUME PreviewInv, NEW w, NEW patch \in PatchType, NEW rev \in Nat,
         NEW rows, rows = ApplyPatchToDb(w, patch, rev),
         NEW added, added = patch.facts_add
  PROVE  RowsApplied(rows, w, patch, added, Len(fact), Len(added))
<1>1. PICK n \in Nat : n = Len(fact) /\ FactId = 1..n
  BY DEF PreviewInv, TypeOK, FactId
<1>2. PICK a \in Nat : /\ a = Len(added)
                       /\ \A j \in 1..a : added[j].status \in Status
  BY PatchFacts
<1>3. rows = [i \in 1..(n + a) |-> IF i <= n THEN RetireFact(fact[i], w, patch, rev)
                                   ELSE NewFact(added[i - n], w, rev)]
  BY <1>1, <1>2 DEF ApplyPatchToDb
<1>4. rev # NULL
  BY NullAssumption
<1>5. ASSUME NEW i \in FactId
      PROVE  /\ rows[i].triple = fact[i].triple
             /\ rows[i].status = fact[i].status
             /\ i \in ActiveFacts(rows, w) <=>
                   /\ i \in ActiveFacts(fact, w)
                   /\ fact[i].triple \notin Retires(patch)
  <2>1. PICK row : row = fact[i] /\ row \in FactRow
    BY DEF PreviewInv, TypeOK, FactId
  <2>2. rows[i] = RetireFact(row, w, patch, rev) /\ i \in DOMAIN rows
    BY <1>1, <1>3, <2>1
  <2>3. PICK new : new = RetireFact(row, w, patch, rev)
    OBVIOUS
  <2>4. /\ new.triple = row.triple /\ new.status = row.status
        /\ new.world = row.world
        /\ new.valid_until = IF /\ row.world = w /\ row.valid_until = NULL
                                /\ row.triple \in Retires(patch)
                             THEN rev ELSE row.valid_until
    BY <2>1, <2>3 DEF RetireFact, FactRow
  <2> QED BY <1>4, <2>1, <2>2, <2>3, <2>4 DEF ActiveFacts, FactId
<1>6. ASSUME NEW j \in 1..a
      PROVE  /\ n + j \notin FactId
             /\ rows[n + j].triple = added[j].triple
             /\ rows[n + j].status = added[j].status
             /\ n + j \in ActiveFacts(rows, w) <=> added[j].status # "retconned"
  <2>1. n + j \in 1..(n + a) /\ ~(n + j <= n) /\ (n + j) - n = j
    OBVIOUS
  <2>2. rows[n + j] = NewFact(added[j], w, rev) /\ n + j \in DOMAIN rows
    BY <1>3, <2>1
  <2> QED BY <1>1, <1>2, <1>4, <2>1, <2>2 DEF ActiveFacts, NewFact, Status
<1>7. ASSUME NEW k \in ActiveFacts(rows, w)
      PROVE  k \in FactId \/ \E j \in 1..a : k = n + j
  <2>1. k \in 1..(n + a)
    BY <1>3 DEF ActiveFacts
  <2>2. k \in 1..n \/ k - n \in 1..a
    BY <2>1
  <2>3. k = n + (k - n)
    BY <2>1
  <2> QED BY <1>1, <2>2, <2>3
<1> QED BY <1>1, <1>2, <1>5, <1>6, <1>7 DEF RowsApplied

-----------------------------------------------------------------------------
(* Previews and commits *)

PreviewsMatch(view, w, patch) ==
  ~RetconsOpen(view, patch) =>
    LET seen  == PreviewApplyPatch(view, patch)
        after == Committed(w, patch)
    IN  /\ DOMAIN seen = {f.triple : f \in after}
        /\ \A t \in DOMAIN seen : [triple |-> t, status |-> seen[t]] \in after

LEMMA PreviewOfNewest ==
  ASSUME PreviewInv, NEW rev, NEW w, IsNewest(rev, w), NEW patch \in PatchType,
         NEW view \in KeyedFacts(rev)
  PROVE  PreviewsMatch(view, w, patch)
<1> SUFFICES ASSUME ~RetconsOpen(view, patch)
             PROVE  LET seen  == PreviewApplyPatch(view, patch)
                        after == Committed(w, patch)
                    IN  /\ DOMAIN seen = {f.triple : f \in after}
                        /\ \A t \in DOMAIN seen :
                              [triple |-> t, status |-> seen[t]] \in after
  BY DEF PreviewsMatch
<1>1. PICK added : added = patch.facts_add
  OBVIOUS
<1>2. PICK n \in Nat : n = Len(added) /\ DOMAIN added = 1..n
  BY <1>1, PatchFacts
<1>3. PICK old : old = Without(view, Retires(patch))
  OBVIOUS
<1>4. /\ old = [t \in DOMAIN old |-> old[t]]
      /\ DOMAIN old = DOMAIN view \ Retires(patch)
      /\ \A t \in DOMAIN old : old[t] = view[t]
  BY <1>3 DEF Without
<1>5. PICK seen : /\ seen = PreviewApplyPatch(view, patch)
                  /\ seen = ViewOf(old, added, 1..n)
  BY <1>1, <1>2, <1>3, <1>4, LoopIsViewOf DEF PreviewApplyPatch
<1>6. PICK rows : rows = ApplyPatchToDb(w, patch, Len(world_revision) + 1)
  OBVIOUS
<1>7. Len(world_revision) + 1 \in Nat
  BY DEF PreviewInv, TypeOK
<1>8. PICK m \in Nat : m = Len(fact) /\ FactId = 1..m
  BY DEF PreviewInv, TypeOK, FactId
<1>9. RowsApplied(rows, w, patch, added, m, n)
  BY <1>1, <1>2, <1>6, <1>7, <1>8, OpenAfterCommit
<1>10. PICK after : /\ after = Committed(w, patch)
                    /\ after = {[triple |-> rows[i].triple, status |-> rows[i].status] :
                                   i \in ActiveFacts(rows, w)}
  BY <1>6 DEF Committed
<1>11. PICK ids : ids = LoadSnapshot(rev).facts /\ ids = ActiveFacts(fact, w)
  BY NewestListsOpenRows
<1>12. /\ DOMAIN view = {fact[i].triple : i \in ids}
       /\ \A t \in DOMAIN view :
             \E i \in ids : fact[i].triple = t /\ view[t] = fact[i].status
  BY <1>11 DEF KeyedFacts
<1>13. ids \subseteq FactId
  BY <1>11 DEF ActiveFacts, FactId
<1>14. \A i, j \in 1..n :
         added[i].status = "retconned" /\ added[j].triple = added[i].triple =>
            added[j] = added[i] /\ added[i].triple \notin DOMAIN old
  <2> SUFFICES ASSUME NEW i \in 1..n, NEW j \in 1..n, added[i].status = "retconned",
                      added[j].triple = added[i].triple
               PROVE  added[j] = added[i] /\ added[i].triple \notin DOMAIN old
    OBVIOUS
  <2>1. added[i] \in ToSet(added) /\ added[j] \in ToSet(added)
    BY <1>2 DEF ToSet
  <2> QED BY <1>1, <1>4, <2>1 DEF RetconsOpen
<1>15. ASSUME NEW t \in DOMAIN seen
       PROVE  [triple |-> t, status |-> seen[t]] \in after
  <2>0. t \in Shown(old, added, 1..n)
    BY <1>5 DEF ViewOf
  <2>1. CASE Added(added, 1..n, t) = {}
    <3>1. seen[t] = old[t]
      BY <1>5, <2>0, <2>1 DEF ViewOf
    <3>2. t \in DOMAIN old
      BY <2>0, <2>1 DEF Shown, Added
    <3>3. PICK i \in ids : fact[i].triple = t /\ view[t] = fact[i].status
      BY <1>4, <1>12, <3>2
    <3>4. i \in ActiveFacts(rows, w) /\ rows[i].triple = t /\ rows[i].status = seen[t]
      BY <1>4, <1>9, <1>11, <1>13, <3>1, <3>2, <3>3 DEF RowsApplied
    <3> QED BY <1>10, <3>4
  <2>2. CASE Added(added, 1..n, t) # {}
    <3>1. Added(added, 1..n, t) \in SUBSET (1..n)
      BY DEF Added
    <3>2. PICK j \in Added(added, 1..n, t) : j = Max(Added(added, 1..n, t))
      BY <2>2, <3>1, GreatestPosition
    <3>3. j \in 1..n /\ added[j].triple = t
      BY <3>2 DEF Added
    <3>4. seen[t] = added[j].status /\ added[j].status # "retconned"
      BY <1>5, <2>0, <2>2, <3>2 DEF ViewOf, Shown, LastAdded
    <3> QED BY <1>9, <1>10, <3>3, <3>4 DEF RowsApplied
  <2> QED BY <2>1, <2>2
<1>16. ASSUME NEW k \in ActiveFacts(rows, w)
       PROVE  rows[k].triple \in DOMAIN seen
  <2> DEFINE t == rows[k].triple
  <2>1. \/ t \in DOMAIN old
        \/ \E j \in 1..n : added[j].triple = t /\ added[j].status # "retconned"
    <3>1. CASE k \in FactId
      <4>1. /\ rows[k].triple = fact[k].triple
            /\ k \in ids /\ fact[k].triple \notin Retires(patch)
        BY <1>9, <1>11, <3>1 DEF RowsApplied
      <4> QED BY <1>4, <1>12, <4>1
    <3>2. CASE k \notin FactId
      <4>1. PICK j \in 1..n : k = m + j
        BY <1>9, <3>2 DEF RowsApplied
      <4>2. added[j].triple = t /\ added[j].status # "retconned"
        BY <1>9, <4>1 DEF RowsApplied
      <4> QED BY <4>2
    <3> QED BY <3>1, <3>2
  <2>2. ASSUME Added(added, 1..n, t) # {}
        PROVE  LastAdded(added, 1..n, t).status # "retconned"
    <3>1. Added(added, 1..n, t) \in SUBSET (1..n)
      BY DEF Added
    <3>2. PICK i \in Added(added, 1..n, t) : i = Max(Added(added, 1..n, t))
      BY <2>2, <3>1, GreatestPosition
    <3>3. i \in 1..n /\ added[i].triple = t
      BY <3>2 DEF Added
    <3> HIDE DEF t
    <3>4. added[i].status # "retconned"
      BY <1>14, <2>1, <3>3
    <3> QED BY <3>2, <3>4 DEF LastAdded
  <2>3. t \in DOMAIN old \cup {added[i].triple : i \in 1..n}
    BY <2>1
  <2> QED BY <1>5, <2>2, <2>3 DEF ViewOf, Shown
<1>17. DOMAIN seen = {f.triple : f \in after}
  <2>1. ASSUME NEW t \in DOMAIN seen PROVE t \in {f.triple : f \in after}
    <3>1. PICK f \in after : f.triple = t
      BY <1>15
    <3> QED BY <3>1
  <2>2. ASSUME NEW f \in after PROVE f.triple \in DOMAIN seen
    BY <1>10, <1>16
  <2> QED BY <2>1, <2>2
<1> QED BY <1>5, <1>10, <1>15, <1>17

LEMMA PreviewsFromInv == PreviewInv => PreviewMatchesCommit
<1> SUFFICES ASSUME PreviewInv, NEW rev \in RevId, NEW patch \in Proposed,
                    NEW w \in world, IsNewest(rev, w), NEW view \in KeyedFacts(rev)
             PROVE  PreviewsMatch(view, w, patch)
  BY DEF PreviewMatchesCommit, PreviewsMatch
<1> QED BY PreviewOfNewest, ProposedAssumption

LEMMA NoDiffFromInv == PreviewInv => NoDiffNoMatter
<1> SUFFICES ASSUME PreviewInv, NEW rev \in RevId, NEW a \in Proposed,
                    NEW b \in Proposed, NEW w \in world, IsNewest(rev, w),
                    NEW view \in KeyedFacts(rev),
                    ~RetconsOpen(view, a), ~RetconsOpen(view, b),
                    NEW seenA, seenA = PreviewApplyPatch(view, a),
                    NEW seenB, seenB = PreviewApplyPatch(view, b),
                    \A field \in DOMAIN CompareCommits(seenA, seenB) :
                       CompareCommits(seenA, seenB)[field] = {},
                    NEW t \in DOMAIN seenA
             PROVE  \E f \in Committed(w, a) \cap Committed(w, b) : f.triple = t
  BY DEF NoDiffNoMatter
<1>1. t \in DOMAIN seenB /\ seenA[t] = seenB[t]
  <2>1. PICK diff : /\ diff = CompareCommits(seenA, seenB)
                    /\ DOMAIN diff = {"only_a", "only_b", "changed"}
                    /\ diff["only_a"] = DOMAIN seenA \ DOMAIN seenB
                    /\ diff["changed"] =
                         {x \in DOMAIN seenA \cap DOMAIN seenB : seenA[x] # seenB[x]}
    BY DEF CompareCommits
  <2>2. diff["only_a"] = {} /\ diff["changed"] = {}
    BY <2>1
  <2> QED BY <2>1, <2>2
<1>2. /\ [triple |-> t, status |-> seenA[t]] \in Committed(w, a)
      /\ [triple |-> t, status |-> seenB[t]] \in Committed(w, b)
  BY <1>1, PreviewOfNewest, ProposedAssumption DEF PreviewsMatch
<1> QED BY <1>1, <1>2

LEMMA PreviewInvariant == StoreSpec => []PreviewInv
BY TypeCorrect, SnapshotsMatch, FactsStay, PTL DEF PreviewInv

\* What a preview on the newest revision of a world shows is what the commit of
\* the patch leaves in the fact table, for any patches: the same triples, each
\* with the status of one of its open rows, however the rows came to be
\* (store.py:525-593, 735-749, 821-838).
THEOREM PreviewsMatchCommits == StoreSpec => []PreviewMatchesCommit
BY PreviewInvariant, PreviewsFromInv, PTL

\* Two patches with equal previews on the newest revision of a world leave, for
\* every triple that they show, one and the same fact (store.py:1075-1112).
THEOREM EqualPreviewsExchange == StoreSpec => []NoDiffNoMatter
BY PreviewInvariant, NoDiffFromInv, PTL

-----------------------------------------------------------------------------
(* The quality gate: a sum of numbers is counted in pairs of a term and a   *)
(* number up to its value.                                                  *)

Units(h, s) == {p \in s \X Nat : 1 <= p[2] /\ p[2] <= h[p[1]]}

LEMMA UnitsOfOneMore ==
  ASSUME NEW T, NEW h \in [T -> Nat], NEW s \in SUBSET T, NEW x \in s,
         IsFiniteSet(Units(h, s \ {x}))
  PROVE  /\ IsFiniteSet(Units(h, s))
         /\ Cardinality(Units(h, s)) = h[x] + Cardinality(Units(h, s \ {x}))
<1>1. PICK n \in Nat : n = h[x]
  OBVIOUS
<1>2. IsFiniteSet(1..n) /\ Cardinality(1..n) = n
  BY FS_Interval
<1>3. IsFiniteSet({x}) /\ Cardinality({x}) = 1
  BY FS_Singleton
<1>4. PICK new : new = {x} \X (1..n)
  OBVIOUS
<1>5. IsFiniteSet(new) /\ Cardinality(new) = 1 * n
  <2>1. PICK one, upto : one = {x} /\ upto = 1..n
    OBVIOUS
  <2>2. /\ IsFiniteSet(one) /\ IsFiniteSet(upto)
        /\ Cardinality(one) = 1 /\ Cardinality(upto) = n
    BY <1>2, <1>3, <2>1
  <2>3. /\ IsFiniteSet(one \X upto)
        /\ Cardinality(one \X upto) = Cardinality(one) * Cardinality(upto)
    BY <2>2, FS_Product
  <2> QED BY <1>4, <2>1, <2>2, <2>3
<1>6. PICK old : old = Units(h, s \ {x})
  OBVIOUS
<1>7. Units(h, s) = new \cup old
  BY <1>1, <1>4, <1>6 DEF Units
<1>8. new \cap old = {}
  BY <1>4, <1>6 DEF Units
<1>9. Cardinality(old) \in Nat /\ IsFiniteSet(old)
  BY <1>6, FS_CardinalityType
<1>10. /\ IsFiniteSet(new \cup old)
       /\ Cardinality(new \cup old)
            = Cardinality(new) + Cardinality(old) - Cardinality(new \cap old)
  BY <1>5, <1>9, FS_Union
<1>11. Cardinality(new \cap old) = 0
  BY <1>8, FS_EmptySet
<1> QED BY <1>1, <1>5, <1>6, <1>7, <1>9, <1>10, <1>11

LEMMA UnitsAreFinite ==
  ASSUME NEW T, IsFiniteSet(T), NEW h \in [T -> Nat], NEW s \in SUBSET T
  PROVE  IsFiniteSet(Units(h, s))
<1> DEFINE Bad == {u \in SUBSET T : ~IsFiniteSet(Units(h, u))}
<1> SUFFICES ASSUME Bad # {} PROVE FALSE
  OBVIOUS
<1>1. PICK u \in Bad : \A v \in Bad : v \subseteq u => v = u
  <2>1. Bad \subseteq SUBSET T
    OBVIOUS
  <2> HIDE DEF Bad
  <2> QED BY <2>1, MinimalSubset
<1>2. CASE u = {}
  <2>1. Units(h, {}) = {}
    BY DEF Units
  <2> QED BY <1>1, <1>2, <2>1, FS_EmptySet
<1>3. CASE u # {}
  <2>1. PICK x : x \in u
    BY <1>3
  <2>2. IsFiniteSet(Units(h, u \ {x}))
    BY <1>1, <2>1
  <2> QED BY <1>1, <2>1, <2>2, UnitsOfOneMore
<1> QED BY <1>2, <1>3

LEMMA AssertedCount ==
  ASSUME NEW ids, IsFiniteSet(ids), NEW t
  PROVE  AssertedIn(ids, t) \in Nat
<1>1. IsFiniteSet({k \in ids : fact[k].triple = t /\ fact[k].status = "asserted"})
  BY FS_Subset
<1> QED BY <1>1, FS_CardinalityType DEF AssertedIn

\* A triple that is not retired is not listed; a triple may be listed often.
LEMMA ListingsCount ==
  ASSUME NEW patch \in PatchType, NEW t
  PROVE  /\ Listings(patch, t) \in Nat
         /\ t \notin Retires(patch) => Listings(patch, t) = 0
<1>1. PICK listed \in Seq(Triple) : listed = patch.facts_retire
  BY DEF PatchType
<1>2. PICK n \in Nat : DOMAIN listed = 1..n
  OBVIOUS
<1>3. PICK where : where = {i \in 1..n : listed[i] = t}
  OBVIOUS
<1>4. IsFiniteSet(1..n)
  BY FS_Interval
<1>5. IsFiniteSet(where)
  BY <1>3, <1>4, FS_Subset
<1>6. Listings(patch, t) = Cardinality(where)
  BY <1>1, <1>2, <1>3 DEF Listings
<1>7. t \notin Retires(patch) => where = {}
  BY <1>1, <1>2, <1>3 DEF Retires
<1> QED BY <1>5, <1>6, <1>7, FS_CardinalityType, FS_EmptySet

\* What is left of a triple, a term of the sum in LeftAsserted.
LeftOf(ids, patch, t) ==
  Lowered(AssertedIn(ids, t), Listings(patch, t))

Some(s) == CHOOSE x \in s : TRUE

SumLoop(ids, patch, T) ==
  CHOOSE iter :
    iter = [s \in SUBSET T |->
              IF s = {} THEN 0
              ELSE LeftOf(ids, patch, Some(s)) + iter[s \ {Some(s)}]]

LEMMA LeftIsLoop ==
  ASSUME NEW ids, NEW pair, NEW patch,
         NEW T, T = {t \in {fact[i].triple : i \in ids} : SubjectPredicate[t] = pair}
  PROVE  LeftAsserted(ids, pair, patch) = SumLoop(ids, patch, T)[T]
BY DEF LeftAsserted, MapThenSumSet, MapThenFoldSet, SumLoop, LeftOf, Some

LEMMA LoopIsUnits ==
  ASSUME NEW ids, NEW patch, NEW T, IsFiniteSet(T), NEW h \in [T -> Nat],
         \A t \in T : h[t] = LeftOf(ids, patch, t)
  PROVE  SumLoop(ids, patch, T)[T] = Cardinality(Units(h, T))
<1> DEFINE Loop(iter) ==
             iter = [s \in SUBSET T |->
                       IF s = {} THEN 0
                       ELSE LeftOf(ids, patch, Some(s)) + iter[s \ {Some(s)}]]
           closed == [s \in SUBSET T |-> Cardinality(Units(h, s))]
<1>0. Cardinality(Units(h, {})) = 0
  <2>1. Units(h, {}) = {}
    BY DEF Units
  <2> QED BY <2>1, FS_EmptySet
<1>1. ASSUME NEW s \in SUBSET T, s # {}
      PROVE  /\ Some(s) \in s
             /\ Cardinality(Units(h, s))
                  = LeftOf(ids, patch, Some(s)) + Cardinality(Units(h, s \ {Some(s)}))
  <2>1. PICK x \in s : x = Some(s)
    BY <1>1 DEF Some
  <2>2. Cardinality(Units(h, s)) = h[x] + Cardinality(Units(h, s \ {x}))
    BY UnitsAreFinite, UnitsOfOneMore
  <2> QED BY <2>1, <2>2
<1>2. Loop(closed)
  <2>1. ASSUME NEW s \in SUBSET T
        PROVE  Cardinality(Units(h, s)) =
                 IF s = {} THEN 0
                 ELSE LeftOf(ids, patch, Some(s)) + closed[s \ {Some(s)}]
    <3>1. closed[s \ {Some(s)}] = Cardinality(Units(h, s \ {Some(s)}))
      OBVIOUS
    <3> HIDE DEF closed
    <3> QED BY <1>0, <1>1, <3>1
  <2> QED BY <2>1
<1>3. PICK iter : iter = SumLoop(ids, patch, T) /\ Loop(iter)
  <2> HIDE DEF closed
  <2> QED BY <1>2 DEF SumLoop
<1>4. \A s \in SUBSET T : iter[s] = Cardinality(Units(h, s))
  <2> DEFINE Bad == {s \in SUBSET T : iter[s] # Cardinality(Units(h, s))}
  <2> SUFFICES ASSUME Bad # {} PROVE FALSE
    OBVIOUS
  <2>1. PICK s \in Bad : \A u \in Bad : u \subseteq s => u = s
    <3>1. Bad \subseteq SUBSET T
      OBVIOUS
    <3> HIDE DEF Bad
    <3> QED BY <3>1, MinimalSubset
  <2>2. iter[s] = IF s = {} THEN 0
                  ELSE LeftOf(ids, patch, Some(s)) + iter[s \ {Some(s)}]
    BY <1>3
  <2>3. s # {}
    BY <1>0, <2>1, <2>2
  <2>4. Some(s) \in s
    BY <1>1, <2>3
  <2>5. iter[s \ {Some(s)}] = Cardinality(Units(h, s \ {Some(s)}))
    BY <2>1, <2>4
  <2> QED BY <1>1, <2>1, <2>2, <2>3, <2>5
<1> QED BY <1>3, <1>4

\* When nothing is left for a pair, no triple of it has anything left.
LEMMA NothingLeft ==
  ASSUME NEW ids, IsFiniteSet(ids), NEW pair, NEW patch \in PatchType,
         LeftAsserted(ids, pair, patch) = 0,
         NEW i \in ids, SubjectPredicate[fact[i].triple] = pair
  PROVE  LeftOf(ids, patch, fact[i].triple) = 0
<1> DEFINE Listed == {fact[k].triple : k \in ids}
           T == {t \in Listed : SubjectPredicate[t] = pair}
           h == [t \in T |-> LeftOf(ids, patch, t)]
<1>1. IsFiniteSet(T)
  <2>1. [k \in ids |-> fact[k].triple] \in Surjection(ids, Listed)
    BY DEF Surjection
  <2>2. IsFiniteSet(Listed)
    <3> HIDE DEF Listed
    <3> QED BY <2>1, FS_Surjection
  <2> QED BY <2>2, FS_Subset
<1>2. h \in [T -> Nat]
  <2>1. ASSUME NEW t PROVE LeftOf(ids, patch, t) \in Nat
    <3>1. AssertedIn(ids, t) \in Nat /\ Listings(patch, t) \in Nat
      BY AssertedCount, ListingsCount
    <3> QED BY <3>1 DEF LeftOf, Lowered
  <2> QED BY <2>1
<1>3. Cardinality(Units(h, T)) = 0
  <2>1. LeftAsserted(ids, pair, patch) = SumLoop(ids, patch, T)[T]
    BY LeftIsLoop
  <2>2. \A t \in T : h[t] = LeftOf(ids, patch, t)
    OBVIOUS
  <2> HIDE DEF h, T
  <2>3. SumLoop(ids, patch, T)[T] = Cardinality(Units(h, T))
    BY <1>1, <1>2, <2>2, LoopIsUnits
  <2> QED BY <2>1, <2>3
<1>4. Units(h, T) = {}
  <2> HIDE DEF h, T
  <2> QED BY <1>1, <1>2, <1>3, UnitsAreFinite, FS_EmptySet
<1>5. fact[i].triple \in T
  OBVIOUS
<1>6. \A t \in T : h[t] = 0
  <2> HIDE DEF h, T
  <2> SUFFICES ASSUME NEW t \in T, h[t] # 0 PROVE FALSE
    OBVIOUS
  <2>1. h[t] \in Nat
    BY <1>2
  <2>2. <<t, 1>> \in Units(h, T)
    BY <2>1 DEF Units
  <2> QED BY <1>4, <2>2
<1> QED BY <1>5, <1>6

LEMMA SilentGateFromInv == PreviewInv => SilentGateKeepsOneValue
<1> SUFFICES ASSUME PreviewInv, NEW rev \in RevId, NEW patch \in Proposed,
                    NEW w \in world, NEW rows,
                    rows = ApplyPatchToDb(w, patch, Len(world_revision) + 1),
                    IsNewest(rev, w), GateSilent(LoadSnapshot(rev).facts, patch),
                    NEW i \in Asserts(patch),
                    NEW pair, pair = Pair(patch, i)
             PROVE  Cardinality({k \in ActiveFacts(rows, w) :
                                   /\ rows[k].status = "asserted"
                                   /\ SubjectPredicate[rows[k].triple] = pair}) = 1
  BY DEF SilentGateKeepsOneValue
<1>1. PICK ids : ids = LoadSnapshot(rev).facts /\ ids = ActiveFacts(fact, w)
  BY NewestListsOpenRows
<1>2. PICK m \in Nat : m = Len(fact) /\ FactId = 1..m
  BY DEF PreviewInv, TypeOK, FactId
<1>3. ids \subseteq FactId /\ IsFiniteSet(ids)
  <2>1. ids \subseteq FactId
    BY <1>1 DEF ActiveFacts, FactId
  <2>2. IsFiniteSet(1..m)
    BY FS_Interval
  <2> QED BY <1>2, <2>1, <2>2, FS_Subset
<1>4. PICK added : added = patch.facts_add
  OBVIOUS
<1>5. PICK n \in Nat : n = Len(added) /\ DOMAIN added = 1..n
  BY <1>4, PatchFacts, ProposedAssumption
<1>6. RowsApplied(rows, w, patch, added, m, n)
  <2>1. Len(world_revision) + 1 \in Nat
    BY DEF PreviewInv, TypeOK
  <2> QED BY <1>2, <1>4, <1>5, <2>1, OpenAfterCommit, ProposedAssumption
<1>7. i \in 1..n /\ added[i].status = "asserted"
      /\ SubjectPredicate[added[i].triple] = pair
  BY <1>4, <1>5 DEF Asserts, Pair
<1>8. LeftAsserted(ids, pair, patch) = 0
  BY <1>1 DEF GateSilent
<1>9. \A j \in 1..n : added[j].status = "asserted"
                       /\ SubjectPredicate[added[j].triple] = pair => j = i
  BY <1>4, <1>5 DEF GateSilent, Asserts, Pair
<1>10. ASSUME NEW k \in ActiveFacts(rows, w), rows[k].status = "asserted",
              SubjectPredicate[rows[k].triple] = pair
       PROVE  k = m + i
  <2>1. ASSUME k \in FactId
        PROVE  FALSE
    <3>1. PICK t : t = fact[k].triple
      OBVIOUS
    <3>2. /\ k \in ids /\ t \notin Retires(patch)
          /\ fact[k].status = "asserted" /\ SubjectPredicate[t] = pair
      BY <1>1, <1>6, <1>10, <2>1, <3>1 DEF RowsApplied
    <3>3. AssertedIn(ids, t) = 0
      <4>1. LeftOf(ids, patch, t) = 0
        BY <1>3, <1>8, <3>1, <3>2, NothingLeft, ProposedAssumption
      <4>2. Listings(patch, t) = 0
        BY <3>2, ListingsCount, ProposedAssumption
      <4>3. AssertedIn(ids, t) \in Nat
        BY <1>3, AssertedCount
      <4> QED BY <4>1, <4>2, <4>3 DEF LeftOf, Lowered
    <3>4. PICK S : S = {j \in ids : fact[j].triple = t /\ fact[j].status = "asserted"}
      OBVIOUS
    <3>5. IsFiniteSet(S) /\ Cardinality(S) = 0 /\ k \in S
      BY <1>3, <3>1, <3>2, <3>3, <3>4, FS_Subset DEF AssertedIn
    <3> QED BY <3>5, FS_EmptySet
  <2>2. PICK j \in 1..n : k = m + j
    BY <1>6, <2>1 DEF RowsApplied
  <2>3. added[j].status = "asserted" /\ SubjectPredicate[added[j].triple] = pair
    BY <1>6, <1>10, <2>2 DEF RowsApplied
  <2> QED BY <1>9, <2>2, <2>3
<1>11. /\ m + i \in ActiveFacts(rows, w) /\ rows[m + i].status = "asserted"
       /\ SubjectPredicate[rows[m + i].triple] = pair
  BY <1>6, <1>7 DEF RowsApplied
<1>12. {k \in ActiveFacts(rows, w) :
          /\ rows[k].status = "asserted"
          /\ SubjectPredicate[rows[k].triple] = pair} = {m + i}
  BY <1>10, <1>11
<1> QED BY <1>12, FS_Singleton

\* A patch that the quality gate passes without a warning leaves each fact that
\* it asserts as the only one asserted for its subject and predicate, however
\* many rows of a triple the table holds and however often the patch lists a
\* triple to be retired (validator.py:240-293).
THEOREM SilentGateIsSafe == StoreSpec => []SilentGateKeepsOneValue
BY PreviewInvariant, SilentGateFromInv, PTL

=============================================================================
