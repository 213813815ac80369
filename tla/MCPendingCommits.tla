-------------------------- MODULE MCPendingCommits --------------------------
(* A small instance of PendingCommits for TLC. *)
EXTENDS PendingCommits, TLC

CONSTANTS w1, w2, p1, b1, b2, c1, c2, k1, k2

NoPatch == [facts_retire |-> <<>>, facts_add |-> <<>>, plot_move |-> NULL]
Patches == {NoPatch}

Symmetry ==
    Permutations({c1, c2}) \cup Permutations({k1, k2}) \cup Permutations({w1, w2})

=============================================================================
