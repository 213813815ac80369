----------------------------- MODULE DashboardDB -----------------------------
(***************************************************************************)
(* dashboard_db.py: one SQLite database in WAL mode, one connection for     *)
(* each thread that uses it, kept as long as the thread.  get_connection    *)
(* hands the connection out and never commits or rolls back, so what a      *)
(* failed handler leaves behind is there for the next one on the thread.    *)
(*                                                                         *)
(* SQLite itself is modelled as the code uses it: a SELECT outside a        *)
(* transaction reads the last commit; a write opens a transaction first, is *)
(* refused after five seconds if another connection holds the write lock,   *)
(* and leaves the transaction open when it is.  The first SELECT in an open *)
(* transaction fixes the state that all later ones see, and once another    *)
(* connection has committed, a write from it is refused at once.            *)
(***************************************************************************)
EXTENDS Naturals, Sequences, FiniteSets

CONSTANTS
    Thread,  \* the worker threads that run handlers
    NULL     \* no value

VARIABLES
    db,    \* the tables as last committed
    conn,  \* the connection of each thread
    held   \* whether the ingestion thread's transaction holds the write lock

dbVars == <<db, conn, held>>

\* intx: a transaction was left open; snap: the tables it sees, once it has
\* read; behind: there is a commit that it does not see.
Clean == [intx |-> FALSE, snap |-> NULL, behind |-> FALSE]

\* What a SELECT on the thread's connection returns.
View(t) == IF conn[t].snap = NULL THEN db ELSE conn[t].snap

\* The connections after a SELECT on t's.
Selected(t) ==
    IF conn[t].intx THEN [conn EXCEPT ![t].snap = View(t)] ELSE conn

\* The connections after a commit on t's (t = NULL: one of nobody here).
AfterCommit(t) ==
    [u \in Thread |->
        IF u = t THEN Clean
        ELSE IF conn[u].snap = NULL THEN conn[u]
        ELSE [conn[u] EXCEPT !.behind = TRUE]]

\* A write and its commit.  It waits while the lock is held; a commit that
\* touches no row leaves no trace for the others.
Commit(t, tables, touched) ==
    /\ ~held
    /\ ~conn[t].behind
    /\ db' = tables
    /\ conn' = IF touched THEN AfterCommit(t) ELSE [conn EXCEPT ![t] = Clean]
    /\ UNCHANGED held

\* "database is locked": after five seconds of waiting, or at once.
Refused(t) ==
    /\ held \/ conn[t].behind
    /\ conn' = [conn EXCEPT ![t].intx = TRUE]
    /\ UNCHANGED <<db, held>>

\* The ingestion thread, or another process, writes its own tables.
Hold ==
    /\ ~held
    /\ held' = TRUE
    /\ UNCHANGED <<db, conn>>

Release ==
    /\ held
    /\ held' = FALSE
    /\ conn' \in {conn, AfterCommit(NULL)}
    /\ UNCHANGED db

DBInit(tables) ==
    /\ db = tables
    /\ conn = [t \in Thread |-> Clean]
    /\ held = FALSE

\* A worker thread that stayed idle is given up, and its connection closed.
Retire(t) ==
    /\ conn[t] # Clean
    /\ conn' = [conn EXCEPT ![t] = Clean]
    /\ UNCHANGED <<db, held>>

=============================================================================
