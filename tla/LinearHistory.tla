---------------------------- MODULE LinearHistory ----------------------------
(***************************************************************************)
(* What the canon promises the writers of a branch, without tables: every  *)
(* branch has a set of revisions its readers reach from the head; a writer *)
(* adds one fresh revision to it, or the branch adopts everything another  *)
(* branch reaches when that is an extension of what it has.  Nothing that  *)
(* was reachable from a branch is ever dropped from it.                    *)
(***************************************************************************)
EXTENDS Naturals

CONSTANTS Branch, Rev

VARIABLES
    own,    \* own[b]: the revisions committed through branch b
    reach   \* reach[b]: the revisions reachable from the head of b

vars == <<own, reach>>

Init ==
    /\ own = [b \in Branch |-> {}]
    /\ reach = [b \in Branch |-> {}]

\* A writer appends a revision nobody has seen.
Publish(b) ==
    \E r \in Rev :
        /\ \A c \in Branch : r \notin own[c]
        /\ own' = [own EXCEPT ![b] = @ \cup {r}]
        /\ reach' = [reach EXCEPT ![b] = @ \cup {r}]

\* A fork (b reaches nothing yet) or a fast-forward merge.
Adopt(b, c) ==
    /\ reach[b] \subseteq reach[c]
    /\ reach' = [reach EXCEPT ![b] = reach[c]]
    /\ UNCHANGED own

Next ==
    \E b \in Branch : Publish(b) \/ \E c \in Branch : Adopt(b, c)

Spec == Init /\ [][Next]_vars

-----------------------------------------------------------------------------
\* No commit is lost: a branch reaches every revision committed through it.
NothingLost == \A b \in Branch : own[b] \subseteq reach[b]

\* What a branch reaches only grows.
ReachGrows == [][\A b \in Branch : reach[b] \subseteq reach'[b]]_vars

=============================================================================
