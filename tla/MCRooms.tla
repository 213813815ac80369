------------------------------- MODULE MCRooms -------------------------------
(* A small instance of Rooms for TLC. *)
EXTENDS Rooms

CONSTANTS t1, t2, c1, r1, m1, m2

\* A trigger that waits for m1, and one that m2 forbids.
Wants == [not |-> {}, all |-> {m1}]
Unless == [not |-> {m2}, all |-> {m1}]

LoreRows ==
    {[triggers |-> <<Unless, Wants>>, priority |-> 1, tokens |-> 2, enabled |-> TRUE]}

LoreEdits == {[priority |-> 2, tokens |-> 1], [enabled |-> FALSE]}

CharRows == [name: {0}, tags: {0}]
CharEdits == [name: {1}] \cup [tags: {1}]

\* Bound: one of the three parts of the database is in use in one behaviour; the
\* ids of the others are those of inserts that failed before.
PartUsed ==
    used \in {CharId \cup RoomId, LoreId \cup RoomId, LoreId \cup CharId}

MCInit ==
    /\ DBInit(NoTables)
    /\ op = [t \in Thread |-> Idle]
    /\ PartUsed
    /\ announced = {}
    /\ unsaid = {}

\* Bound: the lock is held by others only while there is one entry at most, so
\* connections left behind see few different tables.
HeldWithOneEntry == held' => Cardinality(DOMAIN db.lore) <= 1

MCSpec == MCInit /\ [][Next /\ HeldWithOneEntry]_vars

=============================================================================
