------------------------------ MODULE Lorebook ------------------------------
(***************************************************************************)
(* lorebook_engine.py: which entries a message brings into the prompt.  A   *)
(* word is anything a pattern can match; a message is the set of words that *)
(* match in it.  An entry has a sequence of triggers, each with the words   *)
(* that must occur ("all") and the words after a "!" ("not").  The position *)
(* and the reason that are reported with a matched entry are left out.      *)
(***************************************************************************)
EXTENDS Naturals, Sequences, FiniteSets, SequencesExt

Trigger(word) == [not: SUBSET word, all: SUBSET word]

-----------------------------------------------------------------------------
\* One turn of the loop over an entry's triggers: a matching NOT pattern
\* takes back what an earlier trigger said, and a later one may say it again.
Checked(triggered, trigger, said) ==
    IF trigger.not \cap said # {} THEN FALSE
    ELSE triggered \/ trigger.all \subseteq said

Fires(entry, said) ==
    FoldLeft(LAMBDA triggered, trigger : Checked(triggered, trigger, said),
             FALSE, entry.triggers)

\* Variant with a bug: entries of one priority stay as the rows came.
RanksByPriority(e, f) == e.priority < f.priority

\* The sort key (priority, id).
Ranks(e, f) ==
    \/ e.priority < f.priority
    \/ e.priority = f.priority /\ e.id < f.id

\* Python's sort is stable: a row goes before the first one it outranks.
Inserted(sorted, e) ==
    LET outranked == {i \in DOMAIN sorted : Ranks(e, sorted[i])}
    IN  InsertAt(sorted, Min(outranked \cup {Len(sorted) + 1}), e)

Sorted(entries) == FoldLeft(Inserted, <<>>, entries)

Tokens(entries) == FoldLeft(LAMBDA n, e : n + e.tokens, 0, entries)

\* An entry that would exceed the budget is left out, the next one is tried.
Trimmed(entries, budget) ==
    FoldLeft(LAMBDA kept, e :
                IF Tokens(kept) + e.tokens <= budget THEN Append(kept, e) ELSE kept,
             <<>>, entries)

\* The entries that fire, as the rows come.
Fired(rows, said) ==
    FoldLeft(LAMBDA fired, e : IF Fires(e, said) THEN Append(fired, e) ELSE fired,
             <<>>, rows)

\* match_lorebook_entries
Matched(rows, said, budget) == Trimmed(Sorted(Fired(rows, said)), budget)

=============================================================================
