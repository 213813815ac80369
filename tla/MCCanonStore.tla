---------------------------- MODULE MCCanonStore ----------------------------
(* Small instances of CanonStore and PatchPreview for TLC. *)
EXTENDS PatchPreview, TLC

CONSTANTS w1, w2, p1, p2, b1, b2, n1, n2, t1, t2

Facts(retired, added) ==
    [facts_retire |-> retired, facts_add |-> added, plot_move |-> NULL]

Move(n) == [facts_retire |-> <<>>, facts_add |-> <<>>, plot_move |-> n]

Add(t, status) == [triple |-> t, status |-> status]

\* Patches about facts: assert, assert twice, replace, retire, retcon.
FactPatches ==
    {Facts(<<>>, <<Add(t1, "asserted")>>),
     Facts(<<t1>>, <<>>),
     Facts(<<t1>>, <<Add(t1, "rumor")>>),
     Facts(<<>>, <<Add(t1, "retconned")>>),
     Facts(<<>>, <<Add(t2, "asserted")>>)}

\* Patches that are only previewed: a change of value, a doubtful assertion, a
\* triple that is retired twice.
ProposedPatches ==
    FactPatches \cup
    {Facts(<<t1>>, <<Add(t1, "asserted")>>),
     Facts(<<t1>>, <<Add(t2, "asserted")>>),
     Facts(<<t1, t1>>, <<Add(t1, "asserted")>>),
     Facts(<<t1, t2, t1>>, <<Add(t2, "asserted"), Add(t1, "rumor")>>),
     Facts(<<>>, <<Add(t1, "asserted"), Add(t2, "asserted")>>)}

\* t1 and t2 are two values of the same subject and predicate.
SamePair == [t \in {t1, t2} |-> 0]

\* Patches about the plot: the empty patch leaves it alone.
PlotPatches == {Move(n1), Move(n2), Facts(<<>>, <<>>)}

Patches == FactPatches \cup PlotPatches

\* Ids are interchangeable: no property names one.
Symmetry ==
    Permutations({w1, w2}) \cup Permutations({p1, p2})
    \cup Permutations({b1, b2}) \cup Permutations({n1, n2})

=============================================================================
