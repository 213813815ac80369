------------------------ MODULE PendingCommits_proofs ------------------------
(***************************************************************************)
(* apply_pending_commits applies a row at most once, for any number of     *)
(* workers, rows and crashes.  The reason is in the canon alone: a branch  *)
(* head is its newest revision, so a base that was left is never a head    *)
(* again.                                                                  *)
(***************************************************************************)
EXTENDS PendingCommits, CanonStore_proofs

\* The head of a branch is the newest of the revisions committed through it.
HeadIsNewest ==
  \A r \in RevId : \A b \in BranchId :
     world_revision[r].branch = b =>
        /\ b \in DOMAIN branch
        /\ branch[b].head_rev \in Nat
        /\ r <= branch[b].head_rev

\* A revision made from a row was committed on the row's branch and base.
MadeFromRow ==
  \A c \in CommitId : \A r \in made[c] :
     /\ c \in DOMAIN pending_commit
     /\ world_revision[r].branch = pending_commit[c].branch
     /\ world_revision[r].parent = pending_commit[c].base
     /\ pending_commit[c].patch # Invalid

PendingInv == PendingTypeOK /\ HeadIsNewest /\ MadeFromRow /\ AppliedAtMostOnce

-----------------------------------------------------------------------------
(* The canon only grows. *)

Grows ==
  /\ world \subseteq world'
  /\ DOMAIN playthrough \subseteq DOMAIN playthrough'
  /\ DOMAIN branch \subseteq DOMAIN branch'
  /\ Extended

LEMMA StaleGrows ==
  ASSUME TypeOK, HeadIsNewest, NEW w \in WorldId, NEW p \in PlayId,
         NEW b \in BranchId, NEW base, CommitStale(w, p, b, base)
  PROVE  TypeOK' /\ Grows /\ HeadIsNewest'
<1>1. TypeOK'
  BY StaleTypeOK
<1>2. /\ UNCHANGED <<world_revision, fact>>
      /\ DOMAIN branch \subseteq DOMAIN branch'
      /\ \A c \in DOMAIN branch : branch'[c] = branch[c]
  BY StaleEffect
<1>3. world \subseteq world' /\ DOMAIN playthrough \subseteq DOMAIN playthrough'
  BY EnsuredWorldPlay DEF CommitStale
<1>4. Grows
  BY <1>2, <1>3 DEF Grows, Extended, RevId
<1>5. HeadIsNewest'
  BY <1>2 DEF HeadIsNewest, RevId
<1> QED BY <1>1, <1>4, <1>5

LEMMA OnHeadGrows ==
  ASSUME TypeOK, HeadIsNewest, NEW w \in WorldId, NEW p \in PlayId,
         NEW b \in BranchId, NEW base, NEW patch \in Patch,
         CommitOnHead(w, p, b, base, patch)
  PROVE  TypeOK' /\ Grows /\ HeadIsNewest'
<1>1. TypeOK'
  BY PatchAssumption, OnHeadTypeOK
<1>2. PICK rev, from, snap : OnHeadStep(w, p, b, base, patch, rev, from, snap)
  BY PatchAssumption, CommitOnHeadStep
<1>3. /\ rev \in Nat \ {0}
      /\ RevId = 1..(rev - 1)
      /\ RevId' = 1..rev
      /\ \A r \in RevId : world_revision'[r] = world_revision[r]
      /\ world_revision'[rev].branch = b
  BY <1>2 DEF OnHeadStep
<1>4. /\ DOMAIN branch' = DOMAIN branch \cup {b}
      /\ \A c \in DOMAIN branch \ {b} : branch'[c] = branch[c]
      /\ branch'[b].head_rev = rev
  BY <1>2 DEF OnHeadStep, HeadMoves
<1>5. world \subseteq world' /\ DOMAIN playthrough \subseteq DOMAIN playthrough'
  BY EnsuredWorldPlay DEF CommitOnHead
<1>6. Grows
  BY <1>3, <1>4, <1>5 DEF Grows, Extended
<1>7. ASSUME NEW r \in RevId', NEW c \in BranchId, world_revision'[r].branch = c
      PROVE  /\ c \in DOMAIN branch'
             /\ branch'[c].head_rev \in Nat
             /\ r <= branch'[c].head_rev
  <2>1. CASE c = b
    BY <1>3, <1>4, <2>1
  <2>2. CASE c # b
    <3>1. r \in RevId
      BY <1>3, <1>7, <2>2
    <3>2. world_revision[r].branch = c
      BY <1>3, <1>7, <3>1
    <3>3. c \in DOMAIN branch /\ branch[c].head_rev \in Nat /\ r <= branch[c].head_rev
      BY <3>1, <3>2 DEF HeadIsNewest
    <3> QED BY <1>4, <2>2, <3>3
  <2> QED BY <2>1, <2>2
<1>8. HeadIsNewest'
  BY <1>7 DEF HeadIsNewest
<1> QED BY <1>1, <1>6, <1>8

\* The parent of a revision on the branch is never the branch's head.
LEMMA BaseLeft ==
  ASSUME TypeOK, HeadIsNewest, NEW r \in RevId, NEW b \in BranchId,
         world_revision[r].branch = b
  PROVE  b \in DOMAIN branch /\ branch[b].head_rev # world_revision[r].parent
<1>1. /\ b \in DOMAIN branch
      /\ branch[b].head_rev \in Nat
      /\ r <= branch[b].head_rev
  BY DEF HeadIsNewest
<1>2. world_revision[r].parent \in (1..(r - 1)) \cup {NULL} /\ r \in Nat
  BY DEF TypeOK, RevId
<1> QED BY <1>1, <1>2, NullAssumption

\* What was made from a row keeps the row's base from being a head.
LEMMA MadeLeavesBase ==
  ASSUME PendingInv, NEW c \in CommitId, made[c] # {}
  PROVE  /\ c \in DOMAIN pending_commit
         /\ branch[pending_commit[c].branch].head_rev # pending_commit[c].base
<1>1. PICK r \in made[c] : TRUE
  OBVIOUS
<1>2. r \in RevId /\ TypeOK /\ HeadIsNewest
  BY <1>1 DEF PendingInv, PendingTypeOK
<1>3. /\ c \in DOMAIN pending_commit
      /\ world_revision[r].branch = pending_commit[c].branch
      /\ world_revision[r].parent = pending_commit[c].base
  BY <1>1 DEF PendingInv, MadeFromRow
<1>4. pending_commit[c].branch \in BranchId
  BY <1>3 DEF PendingInv, PendingTypeOK, RowsOK, TypeOK
<1> QED BY <1>2, <1>3, <1>4, BaseLeft
-----------------------------------------------------------------------------
(* What the steps of a worker leave alone. *)

\* The request columns of every row are kept.
RequestsKept ==
  \A c \in DOMAIN pending_commit :
     c \in DOMAIN pending_commit' /\ SameRequest(pending_commit[c], pending_commit'[c])

LEMMA WorkerKept ==
  ASSUME PendingInv, Grows, RequestsKept, NEW o, WorkerOK(o)
  PROVE  WorkerOK(o)'
BY DEF WorkerOK, RequestsKept, Grows, Extended, SameRequest

LEMMA MadeKept ==
  ASSUME PendingInv, Grows, RequestsKept, NEW c \in CommitId, NEW r \in made[c]
  PROVE  /\ c \in DOMAIN pending_commit'
         /\ world_revision'[r].branch = pending_commit'[c].branch
         /\ world_revision'[r].parent = pending_commit'[c].base
         /\ pending_commit'[c].patch # Invalid
         /\ r \in RevId'
<1>1. r \in RevId
  BY DEF PendingInv, PendingTypeOK
<1>2. /\ c \in DOMAIN pending_commit
      /\ world_revision[r].branch = pending_commit[c].branch
      /\ world_revision[r].parent = pending_commit[c].base
      /\ pending_commit[c].patch # Invalid
  BY DEF PendingInv, MadeFromRow
<1>3. world_revision'[r] = world_revision[r] /\ r \in RevId'
  BY <1>1 DEF Grows, Extended
<1> QED BY <1>2, <1>3 DEF RequestsKept, SameRequest

\* The rows stay typed while the tables they refer to grow.
LEMMA RowsKept ==
  ASSUME PendingInv, Grows, UNCHANGED pending_commit
  PROVE  RowsOK' /\ RequestsKept
BY DEF PendingInv, PendingTypeOK, RowsOK, Grows, Extended, RequestsKept, SameRequest

\* An unchanged canon grows trivially.
LEMMA UnchangedGrows ==
  ASSUME PendingInv, UNCHANGED storeVars
  PROVE  TypeOK' /\ Grows /\ HeadIsNewest'
<1>1. Grows
  BY DEF storeVars, Grows, Extended, RevId
<1>2. TypeOK'
  BY DEF PendingInv, PendingTypeOK, TypeOK, storeVars, RevId, FactId
<1>3. HeadIsNewest'
  BY DEF PendingInv, HeadIsNewest, storeVars, RevId
<1> QED BY <1>1, <1>2, <1>3

\* o is all that is new among what the workers hold.
OnlyNew(o) ==
  /\ DOMAIN worker' = Worker
  /\ \A j \in Worker : worker'[j] = worker[j] \/ worker'[j] = o

LEMMA WorkersKept ==
  ASSUME PendingInv, Grows, RequestsKept, NEW o, WorkerOK(o)', OnlyNew(o),
         NEW j \in Worker
  PROVE  WorkerOK(worker[j])'
<1>1. WorkerOK(worker[j])
  BY DEF PendingInv, PendingTypeOK
<1>2. CASE worker'[j] = o
  BY <1>2 DEF WorkerOK
<1>3. CASE worker'[j] = worker[j]
  <2>1. PICK x : x = worker'[j] /\ WorkerOK(x)
    BY <1>1, <1>3
  <2>2. WorkerOK(x)'
    BY <2>1, WorkerKept
  <2> QED BY <2>1, <2>2 DEF WorkerOK
<1> QED BY <1>2, <1>3 DEF OnlyNew

\* A step that keeps every request and makes no revision from a row.
LEMMA QuietStep ==
  ASSUME PendingInv, TypeOK', Grows, HeadIsNewest', RowsOK', RequestsKept,
         made' = made, NEW o, WorkerOK(o)', OnlyNew(o)
  PROVE  PendingInv'
<1>1. PendingTypeOK'
  <2>1. \A j \in Worker : WorkerOK(worker[j])'
    BY WorkersKept
  <2>2. made' \in [CommitId -> SUBSET RevId']
    BY DEF PendingInv, PendingTypeOK, Grows, Extended
  <2> QED BY <2>1, <2>2 DEF PendingTypeOK, OnlyNew
<1>2. MadeFromRow'
  BY MadeKept DEF MadeFromRow
<1>3. AppliedAtMostOnce'
  BY DEF PendingInv, AppliedAtMostOnce
<1> QED BY <1>1, <1>2, <1>3 DEF PendingInv

-----------------------------------------------------------------------------
(* One lemma per action. *)

LEMMA ClientCommitInv == PendingInv /\ ClientCommit => PendingInv'
<1> SUFFICES ASSUME PendingInv, ClientCommit PROVE PendingInv'
  OBVIOUS
<1>1. TypeOK' /\ Grows /\ HeadIsNewest'
  BY StaleGrows, OnHeadGrows
     DEF ClientCommit, StoreNext, CommitRevision, PendingInv, PendingTypeOK
<1>2. RowsOK' /\ RequestsKept
  BY <1>1, RowsKept DEF ClientCommit
<1>3. WorkerOK(Idle)'
  BY DEF WorkerOK
<1>4. OnlyNew(Idle)
  BY DEF OnlyNew, ClientCommit, PendingInv, PendingTypeOK
<1> QED BY <1>1, <1>2, <1>3, <1>4, QuietStep DEF ClientCommit

LEMMA SubmitInv ==
  ASSUME PendingInv, NEW c \in CommitId, NEW w \in WorldId, NEW p \in PlayId,
         NEW b \in BranchId, NEW base \in RevId \cup {NULL},
         NEW patch \in Patch \cup {Invalid}, Submit(c, w, p, b, base, patch)
  PROVE  PendingInv'
<1>1. TypeOK' /\ Grows /\ HeadIsNewest'
  BY UnchangedGrows DEF Submit
<1>2. /\ c \notin DOMAIN pending_commit
      /\ w \in world /\ p \in DOMAIN playthrough /\ b \in DOMAIN branch
      /\ pending_commit' = SetRow(pending_commit, c, Row(w, p, b, base, patch))
      /\ UNCHANGED <<storeVars, worker, made>>
  BY DEF Submit
<1>3. Row(w, p, b, base, patch) \in PendingRow
  BY DEF Row, PendingRow, RevId, PendingInv, PendingTypeOK, TypeOK
<1>4. RowsOK'
  <2> DEFINE row == Row(w, p, b, base, patch)
  <2>1. /\ row.world = w /\ row.play = p /\ row.branch = b
        /\ row.base = base /\ row.applied_rev = NULL
    BY DEF Row
  <2> HIDE DEF row
  <2>2. /\ DOMAIN pending_commit' = DOMAIN pending_commit \cup {c}
        /\ pending_commit'[c] = row
        /\ \A d \in DOMAIN pending_commit : pending_commit'[d] = pending_commit[d]
        /\ pending_commit' \in [DOMAIN pending_commit' -> PendingRow]
    BY <1>2, <1>3 DEF SetRow, row, PendingInv, PendingTypeOK, RowsOK
  <2> QED
    BY <1>1, <1>2, <2>1, <2>2 DEF RowsOK, PendingInv, PendingTypeOK, Grows, Extended
<1>5. RequestsKept
  BY <1>2 DEF RequestsKept, SetRow, SameRequest
<1>6. WorkerOK(Idle)'
  BY DEF WorkerOK
<1>7. OnlyNew(Idle)
  BY <1>2 DEF OnlyNew, PendingInv, PendingTypeOK
<1> QED BY <1>1, <1>2, <1>4, <1>5, <1>6, <1>7, QuietStep

\* What a worker holds next, and nothing else, after a step of worker k.
LEMMA WorkerStepNew ==
  ASSUME PendingInv, NEW k \in Worker, NEW o, worker' = [worker EXCEPT ![k] = o]
  PROVE  OnlyNew(o)
BY DEF OnlyNew, PendingInv, PendingTypeOK

LEMMA ReadPendingInv ==
  ASSUME PendingInv, NEW k \in Worker, NEW c \in CommitId, ReadPending(k, c)
  PROVE  PendingInv'
<1> DEFINE o == [step |-> "commit", id |-> c, row |-> pending_commit[c]]
<1>1. /\ c \in DOMAIN pending_commit
      /\ worker' = [worker EXCEPT ![k] = o]
      /\ UNCHANGED <<storeVars, pending_commit, made>>
  BY DEF ReadPending
<1>2. TypeOK' /\ Grows /\ HeadIsNewest'
  BY <1>1, UnchangedGrows
<1>3. RowsOK' /\ RequestsKept
  BY <1>1, <1>2, RowsKept
<1>4. WorkerOK(o)'
  BY <1>1 DEF WorkerOK, SameRequest
<1>5. OnlyNew(o)
  BY <1>1, WorkerStepNew
<1> QED BY <1>1, <1>2, <1>3, <1>4, <1>5, QuietStep

LEMMA CrashInv ==
  ASSUME PendingInv, NEW k \in Worker, Crash(k)
  PROVE  PendingInv'
<1>1. /\ worker' = [worker EXCEPT ![k] = Idle]
      /\ UNCHANGED <<storeVars, pending_commit, made>>
  BY DEF Crash
<1>2. TypeOK' /\ Grows /\ HeadIsNewest'
  BY <1>1, UnchangedGrows
<1>3. RowsOK' /\ RequestsKept
  BY <1>1, <1>2, RowsKept
<1>4. WorkerOK(Idle)'
  BY DEF WorkerOK
<1>5. OnlyNew(Idle)
  BY <1>1, WorkerStepNew
<1> QED BY <1>1, <1>2, <1>3, <1>4, <1>5, QuietStep

LEMMA RecordInv ==
  ASSUME PendingInv, NEW k \in Worker, Record(k)
  PROVE  PendingInv'
<1> DEFINE c == worker[k].id
           row == Settled(pending_commit[c], worker[k])
<1>1. /\ worker[k].step = "record"
      /\ pending_commit' = [pending_commit EXCEPT ![c] = row]
      /\ worker' = [worker EXCEPT ![k] = Idle]
      /\ UNCHANGED <<storeVars, made>>
  BY DEF Record
<1>2. TypeOK' /\ Grows /\ HeadIsNewest'
  BY <1>1, UnchangedGrows
<1>3. /\ c \in DOMAIN pending_commit
      /\ worker[k].status \in {"applied", "conflicted", "failed"}
      /\ worker[k].applied \in RevId \cup {NULL}
      /\ worker[k].conflict \in Nat \cup {NULL}
  BY <1>1 DEF PendingInv, PendingTypeOK, WorkerOK, Idle
<1>4. pending_commit[c] \in PendingRow
  BY <1>3 DEF PendingInv, PendingTypeOK, RowsOK
<1>5. RevId \subseteq Nat
  BY DEF PendingInv, PendingTypeOK, TypeOK, RevId
<1>6. /\ row \in PendingRow
      /\ SameRequest(pending_commit[c], row)
      /\ row.applied_rev \in {pending_commit[c].applied_rev, worker[k].applied}
  BY <1>3, <1>4, <1>5 DEF Settled, PendingRow, SameRequest
<1> HIDE DEF row, c
<1>7. /\ DOMAIN pending_commit' = DOMAIN pending_commit
      /\ pending_commit'[c] = row
      /\ \A d \in DOMAIN pending_commit \ {c} : pending_commit'[d] = pending_commit[d]
  BY <1>1, <1>3
<1>8. RequestsKept
  BY <1>6, <1>7 DEF RequestsKept, SameRequest
<1>9. RowsOK'
  <2>1. pending_commit' \in [DOMAIN pending_commit' -> PendingRow]
    BY <1>1, <1>6, <1>7 DEF PendingInv, PendingTypeOK, RowsOK
  <2>2. ASSUME NEW d \in DOMAIN pending_commit
        PROVE  /\ pending_commit'[d].world \in world'
               /\ pending_commit'[d].play \in DOMAIN playthrough'
               /\ pending_commit'[d].branch \in DOMAIN branch'
               /\ pending_commit'[d].base \in RevId' \cup {NULL}
               /\ pending_commit'[d].applied_rev \in RevId' \cup {NULL}
    <3>1. /\ pending_commit[d].world \in world
          /\ pending_commit[d].play \in DOMAIN playthrough
          /\ pending_commit[d].branch \in DOMAIN branch
          /\ pending_commit[d].base \in RevId \cup {NULL}
          /\ pending_commit[d].applied_rev \in RevId \cup {NULL}
      BY DEF PendingInv, PendingTypeOK, RowsOK
    <3>2. RevId' = RevId /\ UNCHANGED <<world, playthrough, branch>>
      BY <1>1 DEF storeVars, RevId
    <3>3. CASE d = c
      BY <1>3, <1>6, <1>7, <3>1, <3>2, <3>3 DEF SameRequest
    <3>4. CASE d # c
      BY <1>7, <3>1, <3>2, <3>4
    <3> QED BY <3>3, <3>4
  <2> QED
    BY <1>7, <2>1, <2>2 DEF RowsOK, PendingInv, PendingTypeOK
<1>10. WorkerOK(Idle)'
  BY DEF WorkerOK
<1>11. OnlyNew(Idle)
  BY <1>1, WorkerStepNew
<1> QED BY <1>1, <1>2, <1>8, <1>9, <1>10, <1>11, QuietStep

\* The revision that CommitOnHead makes from the row of a worker.
LEMMA ApplyOnHeadInv ==
  ASSUME PendingInv, NEW k \in Worker, worker[k].step = "commit",
         worker[k].row.patch # Invalid,
         CommitOnHead(worker[k].row.world, worker[k].row.play, worker[k].row.branch,
                      worker[k].row.base, worker[k].row.patch),
         Outcome(k, "applied", Len(world_revision'), NULL),
         made' = [made EXCEPT ![worker[k].id] = @ \cup {Len(world_revision')}],
         UNCHANGED pending_commit
  PROVE  PendingInv'
<1>a. PICK c : c = worker[k].id
  OBVIOUS
<1>b. PICK rev : rev = Len(world_revision')
  OBVIOUS
<1>c. PICK o : o = [step |-> "record", id |-> c, status |-> "applied",
                     applied |-> rev, conflict |-> NULL]
  OBVIOUS
<1> DEFINE row == pending_commit[c]
<1>1. c \in DOMAIN pending_commit /\ SameRequest(worker[k].row, row)
  BY <1>a DEF PendingInv, PendingTypeOK, WorkerOK, Idle
<1>2. /\ c \in CommitId /\ row \in PendingRow
  BY <1>1 DEF PendingInv, PendingTypeOK, RowsOK
<1>3. /\ row.world \in WorldId /\ row.play \in PlayId /\ row.branch \in BranchId
      /\ row.patch \in Patch /\ row.patch # Invalid
      /\ CommitOnHead(row.world, row.play, row.branch, row.base, row.patch)
  BY <1>1, <1>2 DEF SameRequest, PendingRow
<1> HIDE DEF row
<1>4. TypeOK' /\ Grows /\ HeadIsNewest'
  BY <1>3, OnHeadGrows DEF PendingInv, PendingTypeOK
<1>5. PICK r, from, snap :
         OnHeadStep(row.world, row.play, row.branch, row.base, row.patch, r, from, snap)
  BY <1>3, PatchAssumption, CommitOnHeadStep DEF PendingInv, PendingTypeOK
<1>6. /\ r \in Nat \ {0} /\ RevId' = 1..r /\ r \in RevId'
      /\ world_revision'[r].branch = row.branch
      /\ world_revision'[r].parent = row.base
      /\ row.branch \in DOMAIN branch => branch[row.branch].head_rev = row.base
  BY <1>5 DEF OnHeadStep, HeadMoves
<1>7. r = rev
  <2>1. RevId' = 1..rev /\ rev \in Nat
    BY <1>b, <1>4, LenProperties DEF TypeOK, RevId
  <2> QED BY <1>6, <2>1
<1>8. RowsOK' /\ RequestsKept
  BY <1>4, RowsKept
\* The row's base is the head, so nothing was made from the row before.
<1>9. made[c] = {}
  <2>1. row.branch \in DOMAIN branch
    BY <1>1 DEF row, PendingInv, PendingTypeOK, RowsOK
  <2>2. branch[pending_commit[c].branch].head_rev = pending_commit[c].base
    BY <1>6, <2>1 DEF row
  <2> QED BY <1>2, <2>2, MadeLeavesBase
<1>10. made \in [CommitId -> SUBSET RevId] /\ RevId \subseteq RevId'
  BY <1>4 DEF PendingInv, PendingTypeOK, Grows, Extended
<1>11. /\ made'[c] = {rev}
       /\ \A d \in CommitId \ {c} : made'[d] = made[d]
       /\ made' \in [CommitId -> SUBSET RevId']
  BY <1>a, <1>b, <1>2, <1>6, <1>7, <1>9, <1>10
<1>12. WorkerOK(o)'
  BY <1>1, <1>c, <1>6, <1>7 DEF WorkerOK
<1>13. OnlyNew(o)
  <2>1. worker' = [worker EXCEPT ![k] = o]
    BY <1>a, <1>b, <1>c DEF Outcome
  <2> QED BY <2>1, WorkerStepNew
<1>14. PendingTypeOK'
  <2>1. \A j \in Worker : WorkerOK(worker[j])'
    BY <1>4, <1>8, <1>12, <1>13, WorkersKept
  <2> QED BY <1>4, <1>8, <1>11, <1>13, <2>1 DEF PendingTypeOK, OnlyNew
<1>15. MadeFromRow'
  <2>1. ASSUME NEW d \in CommitId, NEW s \in made'[d]
        PROVE  /\ d \in DOMAIN pending_commit'
               /\ world_revision'[s].branch = pending_commit'[d].branch
               /\ world_revision'[s].parent = pending_commit'[d].base
               /\ pending_commit'[d].patch # Invalid
    <3>1. CASE d = c
      <4>1. s = r
        BY <1>7, <1>11, <2>1, <3>1
      <4>2. pending_commit'[d] = row
        BY <3>1 DEF row
      <4> QED BY <1>1, <1>3, <1>6, <3>1, <4>1, <4>2
    <3>2. CASE d # c
      <4>1. s \in made[d]
        BY <1>11, <2>1, <3>2
      <4> QED BY <1>4, <1>8, <2>1, <4>1, MadeKept
    <3> QED BY <3>1, <3>2
  <2> QED BY <2>1 DEF MadeFromRow
<1>16. AppliedAtMostOnce'
  <2>1. ASSUME NEW d \in CommitId, NEW s \in made'[d], NEW t \in made'[d]
        PROVE  s = t
    <3>1. CASE d = c
      BY <1>11, <2>1, <3>1
    <3>2. CASE d # c
      BY <1>11, <2>1, <3>2 DEF PendingInv, AppliedAtMostOnce
    <3> QED BY <3>1, <3>2
  <2> QED BY <2>1 DEF AppliedAtMostOnce
<1> QED BY <1>4, <1>14, <1>15, <1>16 DEF PendingInv

\* A worker whose commit is refused, or whose patch is invalid, or whose commit
\* raises: nothing is made.
LEMMA ApplyQuietInv ==
  ASSUME PendingInv, NEW k \in Worker, TypeOK', Grows, HeadIsNewest',
         UNCHANGED <<pending_commit, made>>,
         NEW o, WorkerOK(o)', worker' = [worker EXCEPT ![k] = o]
  PROVE  PendingInv'
<1>1. RowsOK' /\ RequestsKept
  BY RowsKept
<1>2. OnlyNew(o)
  BY WorkerStepNew
<1> QED BY <1>1, <1>2, QuietStep

LEMMA ApplyStaleInv ==
  ASSUME PendingInv, NEW k \in Worker, worker[k].step = "commit",
         CommitStale(worker[k].row.world, worker[k].row.play, worker[k].row.branch,
                     worker[k].row.base),
         Outcome(k, "conflicted", NULL, Len(canon_conflict')),
         UNCHANGED <<pending_commit, made>>
  PROVE  PendingInv'
<1>a. PICK c : c = worker[k].id
  OBVIOUS
<1>b. PICK o : o = [step |-> "record", id |-> c, status |-> "conflicted",
                    applied |-> NULL, conflict |-> Len(canon_conflict')]
  OBVIOUS
<1> DEFINE row == pending_commit[c]
<1>1. c \in DOMAIN pending_commit /\ SameRequest(worker[k].row, row)
  BY <1>a DEF PendingInv, PendingTypeOK, WorkerOK, Idle
<1>2. row \in PendingRow
  BY <1>1 DEF PendingInv, PendingTypeOK, RowsOK
<1>3. /\ row.world \in WorldId /\ row.play \in PlayId /\ row.branch \in BranchId
      /\ CommitStale(row.world, row.play, row.branch, row.base)
  BY <1>1, <1>2 DEF SameRequest, PendingRow
<1>4. TypeOK' /\ Grows /\ HeadIsNewest'
  BY <1>3, StaleGrows DEF PendingInv, PendingTypeOK
<1>5. Len(canon_conflict') \in Nat
  BY <1>4, LenProperties DEF TypeOK
<1>6. WorkerOK(o)'
  BY <1>b, <1>1, <1>5 DEF WorkerOK
<1>7. worker' = [worker EXCEPT ![k] = o]
  BY <1>a, <1>b DEF Outcome
<1> QED BY <1>4, <1>6, <1>7, ApplyQuietInv

LEMMA ApplyInv ==
  ASSUME PendingInv, NEW k \in Worker, Apply(k)
  PROVE  PendingInv'
<1>1. worker[k].step = "commit" /\ UNCHANGED pending_commit
  BY DEF Apply
<1>2. CASE worker[k].row.patch = Invalid /\ ApplyInvalid(k)
  <2>a. PICK o : o = [step |-> "record", id |-> worker[k].id, status |-> "failed",
                      applied |-> NULL, conflict |-> NULL]
    OBVIOUS
  <2>1. worker' = [worker EXCEPT ![k] = o] /\ UNCHANGED <<storeVars, made>>
    BY <1>2, <2>a DEF ApplyInvalid, Outcome
  <2>2. TypeOK' /\ Grows /\ HeadIsNewest'
    BY <2>1, UnchangedGrows
  <2>3. worker[k].id \in DOMAIN pending_commit
    BY <1>1 DEF PendingInv, PendingTypeOK, WorkerOK, Idle
  <2>4. WorkerOK(o)'
    BY <1>1, <2>a, <2>3 DEF WorkerOK
  <2> QED BY <1>1, <2>1, <2>2, <2>4, ApplyQuietInv
<1>3. CASE worker[k].row.patch # Invalid /\ ApplyValid(k)
  BY <1>1, <1>3, ApplyOnHeadInv, ApplyStaleInv DEF ApplyValid
<1>4. CASE ApplyRaises(k)
  <2>1. worker' = [worker EXCEPT ![k] = Idle] /\ UNCHANGED <<storeVars, made>>
    BY <1>4 DEF ApplyRaises
  <2>2. TypeOK' /\ Grows /\ HeadIsNewest'
    BY <2>1, UnchangedGrows
  <2>3. WorkerOK(Idle)'
    BY DEF WorkerOK
  <2> QED BY <1>1, <2>1, <2>2, <2>3, ApplyQuietInv
<1> QED BY <1>2, <1>3, <1>4 DEF Apply

-----------------------------------------------------------------------------
LEMMA InitPendingInv == Init => PendingInv
<1> SUFFICES ASSUME Init PROVE PendingInv
  OBVIOUS
<1>1. TypeOK
  BY InitTypeOK DEF Init
<1>2. RowsOK
  BY DEF Init, RowsOK
<1>3. PendingTypeOK
  BY <1>1, <1>2 DEF Init, PendingTypeOK, WorkerOK
<1> QED
  BY <1>3 DEF Init, StoreInit, PendingInv, HeadIsNewest, MadeFromRow,
              AppliedAtMostOnce, RevId

LEMMA NextPendingInv == PendingInv /\ [Next]_vars => PendingInv'
<1> SUFFICES ASSUME PendingInv, [Next]_vars PROVE PendingInv'
  OBVIOUS
<1>1. CASE ClientCommit
  BY <1>1, ClientCommitInv
<1>2. CASE SubmitSome
  BY <1>2, SubmitInv DEF SubmitSome
<1>3. ASSUME NEW k \in Worker, WorkerStep(k)
      PROVE  PendingInv'
  BY <1>3, ReadPendingInv, ApplyInv, RecordInv, CrashInv DEF WorkerStep
<1>4. CASE UNCHANGED vars
  <2>1. TypeOK' /\ Grows /\ HeadIsNewest'
    BY <1>4, UnchangedGrows DEF vars
  <2>2. RowsOK' /\ RequestsKept
    BY <1>4, <2>1, RowsKept DEF vars
  <2>3. WorkerOK(Idle)'
    BY DEF WorkerOK
  <2>4. OnlyNew(Idle)
    BY <1>4 DEF vars, OnlyNew, PendingInv, PendingTypeOK
  <2> QED BY <1>4, <2>1, <2>2, <2>3, <2>4, QuietStep DEF vars
<1> QED BY <1>1, <1>2, <1>3, <1>4 DEF Next

LEMMA PendingInvariant == Spec => []PendingInv
BY InitPendingInv, NextPendingInv, PTL DEF Spec

\* The rows of pending_commit and what the workers hold of them stay well
\* formed, whatever the workers, the clients and the crashes do.
THEOREM PendingTypeCorrect == Spec => []PendingTypeOK
<1>1. PendingInv => PendingTypeOK
  BY DEF PendingInv
<1> QED BY <1>1, PendingInvariant, PTL

\* A pending commit enters the canon at most once, however many workers read
\* it while it was pending and however often they died.
THEOREM AtMostOnce == Spec => []AppliedAtMostOnce
<1>1. PendingInv => AppliedAtMostOnce
  BY DEF PendingInv
<1> QED BY <1>1, PendingInvariant, PTL

\* Every further attempt at a row from which a revision was made is refused.
THEOREM RetriesConflict == Spec => []RetryConflicts
<1>1. PendingInv => RetryConflicts
  BY MadeLeavesBase DEF RetryConflicts, PendingInv, PendingTypeOK, RowsOK
<1> QED BY <1>1, PendingInvariant, PTL

-----------------------------------------------------------------------------
(* Outcomes.  Whatever backs an outcome stays: conflicts and the revisions    *)
(* made from a row are only added to, and no UPDATE touches a request column. *)

\* The conflict that a refused row, or its worker, names.
ConflictOf(row, i) ==
  /\ i \in DOMAIN canon_conflict
  /\ canon_conflict[i].branch = row.branch
  /\ canon_conflict[i].base = row.base

\* What a worker is about to record is already true of the canon.
HeldBacked(o) ==
  o.step = "record" =>
     /\ o.status = "applied" => o.applied # NULL /\ o.applied \in made[o.id]
     /\ o.status = "conflicted" => ConflictOf(pending_commit[o.id], o.conflict)
     /\ o.status = "failed" => pending_commit[o.id].patch = Invalid

RowBacked(c, row) ==
  /\ row.applied_rev # NULL => row.applied_rev \in made[c]
  /\ row.status = "applied" => row.applied_rev # NULL
  /\ row.status = "conflicted" => ConflictOf(row, row.conflict)
  /\ row.status = "failed" => row.patch = Invalid

BackedInv ==
  /\ \A c \in DOMAIN pending_commit : RowBacked(c, pending_commit[c])
  /\ \A k \in Worker : HeldBacked(worker[k])

ConflictsKept ==
  \A i \in DOMAIN canon_conflict :
     i \in DOMAIN canon_conflict' /\ canon_conflict'[i] = canon_conflict[i]

MadeGrows == \A c \in CommitId : made[c] \subseteq made'[c]

BackingKept == ConflictsKept /\ MadeGrows /\ RequestsKept

LEMMA ConflictAdded ==
  ASSUME TypeOK, NEW row \in ConflictRow, canon_conflict' = Append(canon_conflict, row)
  PROVE  /\ ConflictsKept
         /\ Len(canon_conflict') \in DOMAIN canon_conflict'
         /\ canon_conflict'[Len(canon_conflict')] = row
<1>1. canon_conflict \in Seq(ConflictRow)
  BY DEF TypeOK
<1> QED BY <1>1, AppendProperties DEF ConflictsKept

\* A refused commit adds the conflict that its worker then names.
LEMMA StaleConflict ==
  ASSUME TypeOK, NEW w \in WorldId, NEW p \in PlayId, NEW b \in BranchId,
         NEW base, CommitStale(w, p, b, base)
  PROVE  /\ ConflictsKept
         /\ Len(canon_conflict') \in DOMAIN canon_conflict'
         /\ canon_conflict'[Len(canon_conflict')].branch = b
         /\ canon_conflict'[Len(canon_conflict')].base = base
<1>1. PICK row : row = [branch |-> b, kind |-> "stale-base", base |-> base,
                        a |-> NULL, b |-> NULL]
  OBVIOUS
<1>2. base \in RevId \cup {NULL} /\ canon_conflict' = Append(canon_conflict, row)
  BY <1>1 DEF CommitStale, CreateConflict
<1>3. RevId \subseteq Nat
  BY DEF TypeOK, RevId
<1>4. row \in ConflictRow
  BY <1>1, <1>2, <1>3 DEF ConflictRow
<1> QED BY <1>1, <1>2, <1>4, ConflictAdded

LEMMA RowBackedKept ==
  ASSUME BackingKept, NEW c \in CommitId, NEW row, RowBacked(c, row)
  PROVE  RowBacked(c, row)'
BY DEF RowBacked, ConflictOf, BackingKept, ConflictsKept, MadeGrows

LEMMA HeldBackedKept ==
  ASSUME PendingInv, BackingKept, NEW o, WorkerOK(o), HeldBacked(o)
  PROVE  HeldBacked(o)'
<1> SUFFICES ASSUME o.step = "record"
             PROVE  HeldBacked(o)'
  BY DEF HeldBacked
<1>1. o.id \in DOMAIN pending_commit /\ o.id \in CommitId
  BY DEF WorkerOK, Idle, PendingInv, PendingTypeOK, RowsOK
<1>2. /\ o.id \in DOMAIN pending_commit'
      /\ SameRequest(pending_commit[o.id], pending_commit'[o.id])
      /\ made[o.id] \subseteq made'[o.id]
      /\ ConflictsKept
  BY <1>1 DEF BackingKept, RequestsKept, MadeGrows
<1> QED BY <1>2 DEF HeldBacked, ConflictOf, ConflictsKept, SameRequest

\* A step that settles no row and gives one worker at most the outcome o.
LEMMA BackedStep ==
  ASSUME PendingInv, BackedInv, BackingKept, UNCHANGED pending_commit,
         NEW o, HeldBacked(o)', OnlyNew(o)
  PROVE  BackedInv'
<1>1. ASSUME NEW c \in DOMAIN pending_commit'
      PROVE  RowBacked(c, pending_commit[c])'
  <2>1. PICK row : row = pending_commit[c] /\ row = pending_commit'[c]
    OBVIOUS
  <2>2. c \in CommitId /\ RowBacked(c, row)
    BY <2>1 DEF BackedInv, PendingInv, PendingTypeOK, RowsOK
  <2>3. RowBacked(c, row)'
    BY <2>2, RowBackedKept
  <2> QED BY <2>1, <2>3 DEF RowBacked
<1>2. ASSUME NEW j \in Worker
      PROVE  HeldBacked(worker[j])'
  <2>1. CASE worker'[j] = o
    BY <2>1 DEF HeldBacked
  <2>2. CASE worker'[j] = worker[j]
    <3>1. PICK x : x = worker[j] /\ x = worker'[j]
      BY <2>2
    <3>2. WorkerOK(x) /\ HeldBacked(x)
      BY <3>1 DEF BackedInv, PendingInv, PendingTypeOK
    <3>3. HeldBacked(x)'
      BY <3>2, HeldBackedKept
    <3> QED BY <3>1, <3>3 DEF HeldBacked
  <2> QED BY <2>1, <2>2 DEF OnlyNew
<1> QED BY <1>1, <1>2 DEF BackedInv

\* A step that leaves the conflicts, the rows and what was made from them.
LEMMA UnchangedBacking ==
  ASSUME UNCHANGED <<canon_conflict, pending_commit, made>>
  PROVE  BackingKept
BY DEF BackingKept, ConflictsKept, MadeGrows, RequestsKept, SameRequest

LEMMA ClientCommitBacked == PendingInv /\ BackedInv /\ ClientCommit => BackedInv'
<1> SUFFICES ASSUME PendingInv, BackedInv, ClientCommit PROVE BackedInv'
  OBVIOUS
<1>1. ConflictsKept
  BY StaleConflict DEF ClientCommit, StoreNext, CommitRevision, CommitOnHead,
                       ConflictsKept, PendingInv, PendingTypeOK
<1>2. BackingKept
  BY <1>1 DEF ClientCommit, BackingKept, MadeGrows, RequestsKept, SameRequest
<1>3. HeldBacked(Idle)' /\ OnlyNew(Idle)
  BY DEF HeldBacked, Idle, OnlyNew, ClientCommit, PendingInv, PendingTypeOK
<1> QED BY <1>2, <1>3, BackedStep DEF ClientCommit

LEMMA SubmitBacked ==
  ASSUME PendingInv, BackedInv, NEW c \in CommitId, NEW w \in WorldId,
         NEW p \in PlayId, NEW b \in BranchId, NEW base \in RevId \cup {NULL},
         NEW patch \in Patch \cup {Invalid}, Submit(c, w, p, b, base, patch)
  PROVE  BackedInv'
<1>1. PICK row : row = Row(w, p, b, base, patch)
  OBVIOUS
<1>2. /\ c \notin DOMAIN pending_commit
      /\ DOMAIN pending_commit' = DOMAIN pending_commit \cup {c}
      /\ pending_commit'[c] = row
      /\ \A d \in DOMAIN pending_commit : pending_commit'[d] = pending_commit[d]
      /\ UNCHANGED <<storeVars, worker, made>>
  BY <1>1 DEF Submit, SetRow
<1>3. BackingKept
  BY <1>2 DEF storeVars, BackingKept, ConflictsKept, MadeGrows, RequestsKept, SameRequest
<1>4. ASSUME NEW d \in DOMAIN pending_commit'
      PROVE  RowBacked(d, pending_commit[d])'
  <2>1. CASE d = c
    BY <1>1, <1>2, <2>1 DEF RowBacked, Row
  <2>2. CASE d # c
    <3>1. PICK x : x = pending_commit[d] /\ x = pending_commit'[d]
      BY <1>2, <2>2
    <3>2. d \in CommitId /\ RowBacked(d, x)
      BY <1>2, <2>2, <3>1 DEF BackedInv, PendingInv, PendingTypeOK, RowsOK
    <3>3. RowBacked(d, x)'
      BY <1>3, <3>2, RowBackedKept
    <3> QED BY <3>1, <3>3 DEF RowBacked
  <2> QED BY <2>1, <2>2
<1>5. ASSUME NEW j \in Worker
      PROVE  HeldBacked(worker[j])'
  <2>1. PICK x : x = worker[j] /\ x = worker'[j]
    BY <1>2
  <2>2. WorkerOK(x) /\ HeldBacked(x)
    BY <2>1 DEF BackedInv, PendingInv, PendingTypeOK
  <2>3. HeldBacked(x)'
    BY <1>3, <2>2, HeldBackedKept
  <2> QED BY <2>1, <2>3 DEF HeldBacked
<1> QED BY <1>4, <1>5 DEF BackedInv

\* Reading a row and dying leave nothing to record.
LEMMA ReadOrCrashBacked ==
  ASSUME PendingInv, BackedInv, NEW k \in Worker, NEW c \in CommitId,
         ReadPending(k, c) \/ Crash(k)
  PROVE  BackedInv'
<1>1. UNCHANGED <<storeVars, pending_commit, made>>
  BY DEF ReadPending, Crash
<1>2. BackingKept
  BY <1>1, UnchangedBacking DEF storeVars
<1>3. CASE ReadPending(k, c)
  <2>1. PICK o : o = [step |-> "commit", id |-> c, row |-> pending_commit[c]]
    OBVIOUS
  <2>2. OnlyNew(o)
    BY <1>3, <2>1, WorkerStepNew DEF ReadPending
  <2>3. HeldBacked(o)'
    BY <2>1 DEF HeldBacked
  <2> QED BY <1>1, <1>2, <2>2, <2>3, BackedStep
<1>4. CASE Crash(k)
  <2>1. OnlyNew(Idle)
    BY <1>4, WorkerStepNew DEF Crash
  <2>2. HeldBacked(Idle)'
    BY DEF HeldBacked, Idle
  <2> QED BY <1>1, <1>2, <2>1, <2>2, BackedStep
<1> QED BY <1>3, <1>4

LEMMA ApplyBacked ==
  ASSUME PendingInv, BackedInv, NEW k \in Worker, Apply(k)
  PROVE  BackedInv'
<1>a. PICK c : c = worker[k].id
  OBVIOUS
<1>b. PICK read : read = worker[k].row
  OBVIOUS
<1>1. worker[k].step = "commit" /\ UNCHANGED pending_commit
  BY DEF Apply
<1>2. /\ c \in DOMAIN pending_commit /\ SameRequest(read, pending_commit[c])
      /\ c \in CommitId /\ pending_commit[c] \in PendingRow
  BY <1>1, <1>a, <1>b DEF PendingInv, PendingTypeOK, WorkerOK, Idle, RowsOK
<1>3. read.world \in WorldId /\ read.play \in PlayId /\ read.branch \in BranchId
  BY <1>2 DEF SameRequest, PendingRow
<1>4. CASE /\ CommitOnHead(read.world, read.play, read.branch, read.base, read.patch)
           /\ Outcome(k, "applied", Len(world_revision'), NULL)
           /\ made' = [made EXCEPT ![c] = @ \cup {Len(world_revision')}]
  <2>1. PICK rev : rev = Len(world_revision')
    OBVIOUS
  <2>2. PICK o : o = [step |-> "record", id |-> c, status |-> "applied",
                      applied |-> rev, conflict |-> NULL]
    OBVIOUS
  <2>3. made \in [CommitId -> SUBSET RevId] /\ UNCHANGED canon_conflict
    BY <1>4 DEF PendingInv, PendingTypeOK, CommitOnHead
  <2>4. rev \in made'[c] /\ MadeGrows
    BY <1>2, <1>4, <2>1, <2>3 DEF MadeGrows
  <2>5. BackingKept
    BY <1>1, <2>3, <2>4 DEF BackingKept, ConflictsKept, RequestsKept, SameRequest
  <2>6. world_revision' \in Seq(RevisionRow)
    <3>1. PendingInv'
      BY ApplyInv
    <3> QED BY <3>1 DEF PendingInv, PendingTypeOK, TypeOK
  <2>7. rev \in Nat
    BY <2>1, <2>6, LenProperties
  <2>8. HeldBacked(o)'
    BY <2>2, <2>4, <2>7, NullAssumption DEF HeldBacked
  <2>9. OnlyNew(o)
    BY <1>4, <1>a, <2>1, <2>2, WorkerStepNew DEF Outcome
  <2> QED BY <1>1, <2>5, <2>8, <2>9, BackedStep
<1>5. CASE /\ CommitStale(read.world, read.play, read.branch, read.base)
           /\ Outcome(k, "conflicted", NULL, Len(canon_conflict'))
           /\ UNCHANGED made
  <2>1. PICK n : n = Len(canon_conflict')
    OBVIOUS
  <2>2. PICK o : o = [step |-> "record", id |-> c, status |-> "conflicted",
                      applied |-> NULL, conflict |-> n]
    OBVIOUS
  <2>3. /\ ConflictsKept
        /\ n \in DOMAIN canon_conflict'
        /\ canon_conflict'[n].branch = read.branch
        /\ canon_conflict'[n].base = read.base
    BY <1>3, <1>5, <2>1, StaleConflict DEF PendingInv, PendingTypeOK
  <2>4. BackingKept
    BY <1>1, <1>5, <2>3 DEF BackingKept, MadeGrows, RequestsKept, SameRequest
  <2>5. HeldBacked(o)'
    BY <1>1, <1>2, <2>2, <2>3 DEF HeldBacked, ConflictOf, SameRequest
  <2>6. OnlyNew(o)
    BY <1>5, <1>a, <2>1, <2>2, WorkerStepNew DEF Outcome
  <2> QED BY <1>1, <2>4, <2>5, <2>6, BackedStep
<1>6. CASE read.patch = Invalid /\ ApplyInvalid(k)
  <2>1. PICK o : o = [step |-> "record", id |-> c, status |-> "failed",
                      applied |-> NULL, conflict |-> NULL]
    OBVIOUS
  <2>2. BackingKept
    BY <1>1, <1>6, UnchangedBacking DEF ApplyInvalid, storeVars
  <2>3. HeldBacked(o)'
    BY <1>1, <1>2, <1>6, <2>1 DEF HeldBacked, SameRequest
  <2>4. OnlyNew(o)
    BY <1>6, <1>a, <2>1, WorkerStepNew DEF ApplyInvalid, Outcome
  <2> QED BY <1>1, <2>2, <2>3, <2>4, BackedStep
<1>7. CASE ApplyRaises(k)
  <2>1. BackingKept
    BY <1>1, <1>7, UnchangedBacking DEF ApplyRaises, storeVars
  <2>2. HeldBacked(Idle)'
    BY DEF HeldBacked, Idle
  <2>3. OnlyNew(Idle)
    BY <1>7, WorkerStepNew DEF ApplyRaises
  <2> QED BY <1>1, <2>1, <2>2, <2>3, BackedStep
<1> QED BY <1>4, <1>5, <1>6, <1>7, <1>a, <1>b DEF Apply, ApplyValid

\* The row that is settled takes over what backed its worker's outcome.
LEMMA RecordBacked ==
  ASSUME PendingInv, BackedInv, NEW k \in Worker, Record(k)
  PROVE  BackedInv'
<1>a. PICK o : o = worker[k]
  OBVIOUS
<1>b. PICK old : old = pending_commit[o.id]
  OBVIOUS
<1>c. PICK row : row = Settled(old, o)
  OBVIOUS
<1>1. /\ o.step = "record"
      /\ pending_commit' = [pending_commit EXCEPT ![o.id] = row]
      /\ worker' = [worker EXCEPT ![k] = Idle]
      /\ UNCHANGED <<storeVars, made>>
  BY <1>a, <1>b, <1>c DEF Record
<1>2. /\ o.id \in DOMAIN pending_commit /\ o.id \in CommitId
      /\ o.status \in {"applied", "conflicted", "failed"}
      /\ old \in PendingRow
      /\ RowBacked(o.id, old)
      /\ HeldBacked(o)
  BY <1>1, <1>a, <1>b
     DEF BackedInv, PendingInv, PendingTypeOK, WorkerOK, Idle, RowsOK
<1>3. SameRequest(old, row) /\ RowBacked(o.id, row)
  <2>1. CASE o.status = "applied"
    BY <1>1, <1>2, <1>c, <2>1
       DEF Settled, RowBacked, HeldBacked, PendingRow, SameRequest
  <2>2. CASE o.status = "conflicted"
    BY <1>1, <1>2, <1>b, <1>c, <2>2
       DEF Settled, RowBacked, HeldBacked, ConflictOf, PendingRow, SameRequest
  <2>3. CASE o.status = "failed"
    BY <1>1, <1>2, <1>b, <1>c, <2>3
       DEF Settled, RowBacked, HeldBacked, PendingRow, SameRequest
  <2> QED BY <1>2, <2>1, <2>2, <2>3
<1>4. /\ DOMAIN pending_commit' = DOMAIN pending_commit
      /\ pending_commit'[o.id] = row
      /\ \A d \in DOMAIN pending_commit \ {o.id} : pending_commit'[d] = pending_commit[d]
  BY <1>1, <1>2
<1>5. BackingKept
  <2>1. RequestsKept
    BY <1>3, <1>4, <1>b DEF RequestsKept, SameRequest
  <2> QED BY <1>1, <2>1 DEF BackingKept, ConflictsKept, MadeGrows, storeVars
<1>6. ASSUME NEW d \in DOMAIN pending_commit'
      PROVE  RowBacked(d, pending_commit[d])'
  <2>1. PICK x : x = pending_commit'[d]
    OBVIOUS
  <2>2. d \in CommitId /\ RowBacked(d, x)
    BY <1>2, <1>3, <1>4, <2>1 DEF BackedInv, PendingInv, PendingTypeOK, RowsOK
  <2>3. RowBacked(d, x)'
    BY <1>5, <2>2, RowBackedKept
  <2> QED BY <2>1, <2>3 DEF RowBacked
<1>7. ASSUME NEW j \in Worker
      PROVE  HeldBacked(worker[j])'
  <2>1. PICK x : x = worker'[j]
    OBVIOUS
  <2>2. x = Idle \/ x = worker[j]
    BY <1>1, <2>1 DEF PendingInv, PendingTypeOK
  <2>3. WorkerOK(x) /\ HeldBacked(x)
    BY <2>2 DEF BackedInv, PendingInv, PendingTypeOK, HeldBacked, WorkerOK, Idle
  <2>4. HeldBacked(x)'
    BY <1>5, <2>3, HeldBackedKept
  <2> QED BY <2>1, <2>4 DEF HeldBacked
<1> QED BY <1>6, <1>7 DEF BackedInv

LEMMA BackedInvariant == Spec => []BackedInv
<1>1. Init => BackedInv
  BY DEF Init, BackedInv, HeldBacked, Idle
<1>2. PendingInv /\ BackedInv /\ [Next]_vars => BackedInv'
  <2> SUFFICES ASSUME PendingInv, BackedInv, [Next]_vars PROVE BackedInv'
    OBVIOUS
  <2>1. CASE ClientCommit
    BY <2>1, ClientCommitBacked
  <2>2. CASE SubmitSome
    BY <2>2, SubmitBacked DEF SubmitSome
  <2>3. ASSUME NEW k \in Worker, WorkerStep(k)
        PROVE  BackedInv'
    <3>1. ASSUME Crash(k)
          PROVE  \E c \in CommitId : TRUE
      BY <3>1 DEF Crash, PendingInv, PendingTypeOK, WorkerOK, RowsOK
    <3> QED
      BY <2>3, <3>1, ReadOrCrashBacked, ApplyBacked, RecordBacked DEF WorkerStep
  <2>4. CASE UNCHANGED vars
    <3>1. BackingKept
      BY <2>4, UnchangedBacking DEF vars, storeVars
    <3>2. HeldBacked(Idle)' /\ OnlyNew(Idle)
      BY <2>4 DEF vars, HeldBacked, Idle, OnlyNew, PendingInv, PendingTypeOK
    <3> QED BY <2>4, <3>1, <3>2, BackedStep DEF vars
  <2> QED BY <2>1, <2>2, <2>3, <2>4 DEF Next
<1> QED BY <1>1, <1>2, PendingInvariant, PTL DEF Spec

\* A recorded outcome is backed by the canon, although it is recorded in a
\* transaction of its own, maybe after others recorded theirs for the row.
THEOREM OutcomesAreBacked == Spec => []OutcomesBacked
<1>1. PendingInv /\ BackedInv => OutcomesBacked
  <2> SUFFICES ASSUME PendingInv, BackedInv, NEW c \in DOMAIN pending_commit
               PROVE  LET row == pending_commit[c]
                      IN  /\ row.applied_rev # NULL => row.applied_rev \in made[c]
                          /\ row.status = "applied" => row.applied_rev # NULL
                          /\ row.status = "conflicted" =>
                                /\ row.conflict # NULL
                                /\ canon_conflict[row.conflict].branch = row.branch
                                /\ canon_conflict[row.conflict].base = row.base
                          /\ row.status = "failed" => made[c] = {}
    BY DEF OutcomesBacked
  <2>1. c \in CommitId /\ RowBacked(c, pending_commit[c])
    BY DEF BackedInv, PendingInv, PendingTypeOK, RowsOK
  <2>2. made[c] # {} => pending_commit[c].patch # Invalid
    BY <2>1 DEF PendingInv, MadeFromRow
  <2>3. DOMAIN canon_conflict \subseteq Nat
    BY DEF PendingInv, PendingTypeOK, TypeOK
  <2>4. NULL \notin DOMAIN canon_conflict
    BY <2>3, NullAssumption
  <2> QED BY <2>1, <2>2, <2>4 DEF RowBacked, ConflictOf
<1> QED BY <1>1, PendingInvariant, BackedInvariant, PTL

=============================================================================
