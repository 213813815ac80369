---------------------------- MODULE PatchPreview ----------------------------
(***************************************************************************)
(* What a patch is said to do before it is committed: the preview and the  *)
(* comparison of canon/store.py and the quality gate of canon/validator.py.*)
(* They read the snapshot of a revision, commit_revision writes the fact   *)
(* table; the properties relate the two.                                   *)
(*                                                                         *)
(* A preview keeps one fact per triple, the table any number of open rows. *)
(* Entities, confidence and canonicity are abstracted away; the plot part  *)
(* of the preview is in NewSnapshot of CanonStore.                         *)
(***************************************************************************)
EXTENDS CanonStore, SequencesExt

CONSTANTS
    SubjectPredicate,  \* the (subject_name, predicate) of each triple
    Proposed           \* the patches that are previewed and gated

ASSUME ProposedAssumption ==
    Proposed \subseteq PatchType /\ DOMAIN SubjectPredicate = Triple

-----------------------------------------------------------------------------
(* Previews *)

\* The facts of a revision keyed by their triples: the last one listed counts,
\* and the ORDER BY of the list leaves open which of several rows that is.
KeyedFacts(rev) ==
    LET ids == LoadSnapshot(rev).facts
        Listed(t) == {i \in ids : fact[i].triple = t}
    IN  {view \in [{fact[i].triple : i \in ids} -> Status] :
            \A t \in DOMAIN view : \E i \in Listed(t) : view[t] = fact[i].status}

Without(view, triples) == [t \in DOMAIN view \ triples |-> view[t]]

\* The facts_add loop on one of its facts.
WithFact(view, f) ==
    IF f.status = "retconned"
    THEN Without(view, {f.triple})
    ELSE SetRow(view, f.triple, f.status)

\* Variant with a bug: add first, then retire.
PreviewAddsFirst(view, patch) ==
    Without(FoldLeft(WithFact, view, patch.facts_add), Retires(patch))

\* The facts of preview_apply_patch: retire first, then add.
PreviewApplyPatch(view, patch) ==
    FoldLeft(WithFact, Without(view, Retires(patch)), patch.facts_add)

\* Variant with a bug: what differs between two facts of a triple is left out.
CompareKeys(a, b) ==
    [only_a |-> DOMAIN a \ DOMAIN b, only_b |-> DOMAIN b \ DOMAIN a, changed |-> {}]

\* The diff of compare_commits.
CompareCommits(a, b) ==
    [only_a |-> DOMAIN a \ DOMAIN b, only_b |-> DOMAIN b \ DOMAIN a,
     changed |-> {t \in DOMAIN a \cap DOMAIN b : a[t] # b[t]}]

-----------------------------------------------------------------------------
(* The quality gate *)

AssertedIn(ids, t) ==
    Cardinality({i \in ids : fact[i].triple = t /\ fact[i].status = "asserted"})

\* n after listed turns of "if n > 0: n -= 1".
Lowered(n, listed) == IF listed >= n THEN 0 ELSE n - listed

\* How often a patch lists a triple to be retired.
Listings(patch, t) ==
    Cardinality({i \in DOMAIN patch.facts_retire : patch.facts_retire[i] = t})

\* Variant with a bug: each listing lowers the count of the pair, also when
\* nothing asserted is left of the triple it names.
LeftOfPair(ids, pair, patch) ==
    LET triples == {t \in {fact[i].triple : i \in ids} : SubjectPredicate[t] = pair}
    IN  Lowered(MapThenSumSet(LAMBDA t : AssertedIn(ids, t), triples),
                MapThenSumSet(LAMBDA t : Listings(patch, t), triples))

\* asserted_counts of a (subject, predicate) after the facts_retire loop: each
\* listing of a triple takes one of its asserted facts away while it has any.
LeftAsserted(ids, pair, patch) ==
    LET triples == {t \in {fact[i].triple : i \in ids} : SubjectPredicate[t] = pair}
        Left(t) == Lowered(AssertedIn(ids, t), Listings(patch, t))
    IN  MapThenSumSet(Left, triples)

\* The facts that a patch asserts, by their positions.
Asserts(patch) == {i \in DOMAIN patch.facts_add : patch.facts_add[i].status = "asserted"}

Pair(patch, i) == SubjectPredicate[patch.facts_add[i].triple]

\* run_quality_gate passes a patch without a warning.
GateSilent(ids, patch) ==
    /\ \A i \in DOMAIN patch.facts_add : patch.facts_add[i].status # "retconned"
    /\ \A i \in Asserts(patch) :
          /\ LeftAsserted(ids, Pair(patch, i), patch) = 0
          /\ \A j \in Asserts(patch) : Pair(patch, j) = Pair(patch, i) => j = i

-----------------------------------------------------------------------------
(* Properties *)

\* The newest revision of a world, of whatever branch.
IsNewest(rev, w) ==
    /\ rev \in RevId /\ world_revision[rev].world = w
    /\ \A r \in RevId : world_revision[r].world = w => r <= rev

\* The open facts of a world once a patch is committed there.
Committed(w, patch) ==
    LET rows == ApplyPatchToDb(w, patch, Len(world_revision) + 1)
    IN  {[triple |-> rows[i].triple, status |-> rows[i].status] : i \in ActiveFacts(rows, w)}

\* The preview takes a retconned triple away; the table keeps its open rows.
RetconsOpen(view, patch) ==
    \E f \in ToSet(patch.facts_add) :
        /\ f.status = "retconned"
        /\ \/ f.triple \in DOMAIN view \ Retires(patch)
           \/ \E g \in ToSet(patch.facts_add) \ {f} : g.triple = f.triple

\* A preview on the newest revision of a world tells what a commit leaves in the
\* fact table: the same triples, each with a status that one of its rows has,
\* however often a triple was asserted, retired or retconned before
\* (store.py:525-593, 735-749, 821-838).
PreviewMatchesCommit ==
    \A rev \in RevId, patch \in Proposed, w \in world : IsNewest(rev, w) =>
        \A view \in KeyedFacts(rev) :
            LET seen == PreviewApplyPatch(view, patch)
                after == Committed(w, patch)
            IN  ~RetconsOpen(view, patch) =>
                   /\ DOMAIN seen = {f.triple : f \in after}
                   /\ \A t \in DOMAIN seen : [triple |-> t, status |-> seen[t]] \in after

\* Two patches that compare_commits finds no difference between are exchangeable:
\* committing either on the newest revision leaves facts that preview alike
\* (store.py:1075-1112).
NoDiffNoMatter ==
    \A rev \in RevId, a, b \in Proposed, w \in world : IsNewest(rev, w) =>
        \A view \in KeyedFacts(rev) :
            LET seenA == PreviewApplyPatch(view, a)
                seenB == PreviewApplyPatch(view, b)
                diff == CompareCommits(seenA, seenB)
            IN  /\ ~RetconsOpen(view, a) /\ ~RetconsOpen(view, b)
                /\ \A field \in DOMAIN diff : diff[field] = {}
                => \A t \in DOMAIN seenA :
                      \E f \in Committed(w, a) \cap Committed(w, b) :
                          f.triple = t

\* A fact that the gate lets through without a warning is the only one asserted
\* for its subject and predicate once committed on the newest revision, also
\* when the table holds several rows of a triple or the patch retires a triple
\* more than once (validator.py:240-293).
SilentGateKeepsOneValue ==
    \A rev \in RevId, patch \in Proposed, w \in world :
        LET rows == ApplyPatchToDb(w, patch, Len(world_revision) + 1)
        IN  IsNewest(rev, w) /\ GateSilent(LoadSnapshot(rev).facts, patch) =>
               \A i \in Asserts(patch) :
                   Cardinality({k \in ActiveFacts(rows, w) :
                                   /\ rows[k].status = "asserted"
                                   /\ SubjectPredicate[rows[k].triple] = Pair(patch, i)}) = 1

=============================================================================
