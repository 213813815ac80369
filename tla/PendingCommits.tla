--------------------------- MODULE PendingCommits ---------------------------
(***************************************************************************)
(* apply_pending_commits of canon/store.py: workers that take the rows of  *)
(* table pending_commit to the canon.  A worker reads a row on one         *)
(* connection, commits its patch in a second transaction and records the   *)
(* outcome in a third, so other workers and other clients run in between   *)
(* and the worker may die there.                                           *)
(*                                                                         *)
(* A call handles a list of ids one after the other, with connections of   *)
(* its own for each: here it is a sequence of calls for one id.  No code   *)
(* in the repository but its tests inserts pending rows; Submit stands for *)
(* the clients that do.                                                    *)
(***************************************************************************)
EXTENDS CanonStore

CONSTANTS CommitId, Worker

VARIABLES
    pending_commit,  \* commit_id -> row, for the existing rows
    worker,          \* what each worker has read or still has to record
    made             \* made[c]: the revisions created from c (history)

vars == <<storeVars, pending_commit, worker, made>>

\* A patch that validate_patch_schema refuses.
Invalid == NULL

Row(w, p, b, base, patch) ==
    [world |-> w, play |-> p, branch |-> b, base |-> base, patch |-> patch,
     status |-> "pending", applied_rev |-> NULL, conflict |-> NULL]

Idle == [step |-> "idle"]

-----------------------------------------------------------------------------
\* The foreign keys ask for an existing world, playthrough, branch and base.
Submit(c, w, p, b, base, patch) ==
    /\ c \notin DOMAIN pending_commit
    /\ w \in world /\ p \in DOMAIN playthrough /\ b \in DOMAIN branch
    /\ pending_commit' = SetRow(pending_commit, c, Row(w, p, b, base, patch))
    /\ UNCHANGED <<storeVars, worker, made>>

\* A row that is missing, of another branch or no longer pending is skipped.
ReadPending(k, c) ==
    /\ worker[k] = Idle
    /\ c \in DOMAIN pending_commit
    /\ pending_commit[c].status = "pending"
    /\ worker' = [worker EXCEPT ![k] = [step |-> "commit", id |-> c,
                                        row |-> pending_commit[c]]]
    /\ UNCHANGED <<storeVars, pending_commit, made>>

Outcome(k, status, applied, conflict) ==
    worker' = [worker EXCEPT ![k] = [step |-> "record", id |-> worker[k].id,
                                     status |-> status, applied |-> applied,
                                     conflict |-> conflict]]

\* Variant with a bug: the patch is applied to whatever the head is by now.
ApplyOnPresentHead(k) ==
    LET row == worker[k].row
    IN  /\ CommitOnHead(row.world, row.play, row.branch,
                        branch[row.branch].head_rev, row.patch)
        /\ Outcome(k, "applied", Len(world_revision'), NULL)
        /\ made' = [made EXCEPT ![worker[k].id] = @ \cup {Len(world_revision')}]

ApplyValid(k) ==
    LET row == worker[k].row
    IN  \/ /\ CommitOnHead(row.world, row.play, row.branch, row.base, row.patch)
           /\ Outcome(k, "applied", Len(world_revision'), NULL)
           /\ made' = [made EXCEPT ![worker[k].id] = @ \cup {Len(world_revision')}]
        \/ /\ CommitStale(row.world, row.play, row.branch, row.base)
           /\ Outcome(k, "conflicted", NULL, Len(canon_conflict'))
           /\ UNCHANGED made

\* commit_revision refuses the patch before it opens a transaction.
ApplyInvalid(k) ==
    /\ Outcome(k, "failed", NULL, NULL)
    /\ UNCHANGED <<storeVars, made>>

\* commit_revision raises when the row names a branch of another world or
\* playthrough; the exception leaves the whole call and the row stays pending.
ApplyRaises(k) ==
    LET row == worker[k].row
    IN  /\ ~OwnerMatches(row.world, row.play, row.branch)
        /\ worker' = [worker EXCEPT ![k] = Idle]
        /\ UNCHANGED <<storeVars, made>>

Apply(k) ==
    /\ worker[k].step = "commit"
    /\ IF worker[k].row.patch = Invalid
       THEN ApplyInvalid(k)
       ELSE ApplyValid(k) \/ ApplyRaises(k)
    /\ UNCHANGED pending_commit

\* Variant with a bug: a refused commit is recorded as applied.
SettledAlike(row, outcome) ==
    IF outcome.status = "failed"
    THEN [row EXCEPT !.status = "failed"]
    ELSE [row EXCEPT !.status = "applied", !.applied_rev = outcome.applied]

\* The status UPDATE asks for the commit id only, not for a pending status.
Settled(row, outcome) ==
    CASE outcome.status = "applied" ->
            [row EXCEPT !.status = "applied", !.applied_rev = outcome.applied]
      [] outcome.status = "conflicted" ->
            [row EXCEPT !.status = "conflicted", !.conflict = outcome.conflict]
      [] OTHER -> [row EXCEPT !.status = "failed"]

Record(k) ==
    LET c == worker[k].id
    IN  /\ worker[k].step = "record"
        /\ pending_commit' =
              [pending_commit EXCEPT ![c] = Settled(@, worker[k])]
        /\ worker' = [worker EXCEPT ![k] = Idle]
        /\ UNCHANGED <<storeVars, made>>

\* The process dies between two transactions and comes back with nothing.
Crash(k) ==
    /\ worker[k] # Idle
    /\ worker' = [worker EXCEPT ![k] = Idle]
    /\ UNCHANGED <<storeVars, pending_commit, made>>

ClientCommit == StoreNext /\ UNCHANGED <<pending_commit, worker, made>>

-----------------------------------------------------------------------------
Init ==
    /\ StoreInit
    /\ pending_commit = <<>>
    /\ worker = [k \in Worker |-> Idle]
    /\ made = [c \in CommitId |-> {}]

SubmitSome ==
    \E c \in CommitId, w \in WorldId, p \in PlayId, b \in BranchId,
       base \in RevId \cup {NULL}, patch \in Patch \cup {Invalid} :
        Submit(c, w, p, b, base, patch)

WorkerStep(k) ==
    \/ \E c \in CommitId : ReadPending(k, c)
    \/ Apply(k)
    \/ Record(k)
    \/ Crash(k)

Next == ClientCommit \/ SubmitSome \/ \E k \in Worker : WorkerStep(k)

Spec == Init /\ [][Next]_vars

-----------------------------------------------------------------------------
(* Properties *)

PendingRow ==
    [world : WorldId, play : PlayId, branch : BranchId, base : Nat \cup {NULL},
     patch : Patch \cup {Invalid},
     status : {"pending", "applied", "conflicted", "failed"},
     applied_rev : Nat \cup {NULL}, conflict : Nat \cup {NULL}]

\* The columns a commit is made from.
SameRequest(a, b) ==
    /\ a.world = b.world /\ a.play = b.play /\ a.branch = b.branch
    /\ a.base = b.base /\ a.patch = b.patch

WorkerOK(o) ==
    \/ o = Idle
    \/ /\ o.step = "commit"
       /\ o.id \in DOMAIN pending_commit
       /\ SameRequest(o.row, pending_commit[o.id])
    \/ /\ o.step = "record"
       /\ o.id \in DOMAIN pending_commit
       /\ o.status \in {"applied", "conflicted", "failed"}
       /\ o.applied \in RevId \cup {NULL}
       /\ o.conflict \in Nat \cup {NULL}

RowsOK ==
    /\ DOMAIN pending_commit \subseteq CommitId
    /\ pending_commit \in [DOMAIN pending_commit -> PendingRow]
    /\ \A c \in DOMAIN pending_commit :
          /\ pending_commit[c].world \in world
          /\ pending_commit[c].play \in DOMAIN playthrough
          /\ pending_commit[c].branch \in DOMAIN branch
          /\ pending_commit[c].base \in RevId \cup {NULL}
          /\ pending_commit[c].applied_rev \in RevId \cup {NULL}

\* Every row refers to rows that exist, and what a worker has read of a row
\* stays true: no UPDATE touches the columns it commits from.
PendingTypeOK ==
    /\ TypeOK
    /\ RowsOK
    /\ DOMAIN worker = Worker
    /\ \A k \in Worker : WorkerOK(worker[k])
    /\ made \in [CommitId -> SUBSET RevId]

\* A pending commit enters the canon at most once, however many workers read
\* it while it was pending and however often they died before recording it:
\* its base is a head only once (store.py:1007-1034).
AppliedAtMostOnce ==
    \A c \in CommitId : \A r, s \in made[c] : r = s

\* A recorded outcome is backed by the canon: an applied row names a revision
\* made from it, a conflicted row names a conflict on its branch and base, and
\* nothing was ever made from a failed row (store.py:1041-1056).  A conflicted
\* row may have been applied all the same, by a worker that died before it
\* recorded that or was overtaken by another.
OutcomesBacked ==
    \A c \in DOMAIN pending_commit :
        LET row == pending_commit[c]
        IN  /\ row.applied_rev # NULL => row.applied_rev \in made[c]
            /\ row.status = "applied" => row.applied_rev # NULL
            /\ row.status = "conflicted" =>
                  /\ row.conflict # NULL
                  /\ canon_conflict[row.conflict].branch = row.branch
                  /\ canon_conflict[row.conflict].base = row.base
            /\ row.status = "failed" => made[c] = {}

\* Once a revision was made from a row, the base the row names is no longer
\* the head of its branch and never becomes it again: every further attempt,
\* by another worker or after a crash, is refused as a conflict.
RetryConflicts ==
    \A c \in DOMAIN pending_commit :
        made[c] # {} =>
            LET row == pending_commit[c]
            IN  branch[row.branch].head_rev # row.base

=============================================================================
