----------------------------- MODULE Ingestion -----------------------------
(***************************************************************************)
(* The ingestion engine of ingestion.py beside the writers of the event    *)
(* log.  Its thread runs one tick after the other; a tick tails the event  *)
(* log into event_index and then brings three tables up to date with files *)
(* that the OpenClaw gateway owns: cron jobs, failed deliveries, sessions. *)
(*                                                                         *)
(* The thread has one database connection, and DashboardDB says how it     *)
(* behaves.  A statement that writes opens a transaction, an exception     *)
(* does not end it (get_connection of dashboard_db.py only yields the      *)
(* connection), and the next commit on the connection, whoever makes it,   *)
(* takes along what was left: table is what others see, view what the      *)
(* thread sees.  A transaction that a refused write left open has nothing  *)
(* to commit; its first SELECT fixes what it sees, and once another        *)
(* connection has committed, it can no longer write.                       *)
(*                                                                         *)
(* A document stands for one row: a job, a delivery file, an entry of a    *)
(* sessions file, with a version that grows when its owner edits it.  A    *)
(* bad one parses and has a value the row cannot take, such as a null      *)
(* where int() is applied or a list where a column takes text.  A file     *)
(* that does not parse counts as absent.                                   *)
(* The files below cron/runs are tailed as the event log is and are not    *)
(* modelled again.                                                         *)
(***************************************************************************)
EXTENDS EventLog

CONSTANTS
    Doc,          \* documents
    SourceOf,     \* the source of each document
    MaxVersion,   \* bound: edits of a document
    MaxFailures   \* bound: writes refused by a lock, restarts of the engine

\* The tables in the order in which a tick comes to them.
Source == {"jobs", "delivery", "sessions"}

ASSUME IngestionAssumption ==
    /\ IsFiniteSet(Doc)
    /\ SourceOf \in [Doc -> Source]
    /\ MaxVersion \in Nat /\ MaxFailures \in Nat

VARIABLES
    content,      \* version of each document, 0 before it exists
    bad,          \* documents a row cannot be made of
    tick,         \* where the thread is
    batch,        \* events read and not yet inserted
    newOffset,    \* where the lines read end
    todo,         \* documents of the source not yet looked at
    view,         \* rows as the thread sees them
    txn,          \* the transaction of the connection
    behind,       \* there is a commit that the transaction does not see
    table,        \* rows as committed
    event_index,  \* number of committed rows of each event
    offset,       \* ingest_offset of the event log
    shutdown,     \* _shutdown
    failures

docVars == <<content, bad>>
readVars == <<batch, newOffset>>
rowVars == <<view, txn, behind, table>>
engineVars == <<tick, readVars, todo, rowVars, event_index, offset, shutdown>>
vars == <<logVars, docVars, engineVars, failures>>

Init ==
    /\ LogInit
    /\ content = [d \in Doc |-> 0]
    /\ bad = {}
    /\ tick = "wait"
    /\ batch = {} /\ newOffset = 0
    /\ todo = {}
    /\ table = [d \in Doc |-> 0]
    /\ view = table /\ txn = "none" /\ behind = FALSE
    /\ event_index = [e \in Event |-> 0]
    /\ offset = 0
    /\ shutdown = FALSE
    /\ failures = 0

-----------------------------------------------------------------------------
(* The connection.                                                         *)

\* none; begun, by a write that was refused; reading, once a SELECT has fixed
\* what it sees; writing, with the write lock of the database.
Transaction == {"none", "begun", "reading", "writing"}

\* After a SELECT, and after a write that was refused.
Selected == IF txn = "begun" THEN "reading" ELSE txn
Begun == IF txn = "none" THEN "begun" ELSE txn

\* Variant with a bug: another connection commits.
CommitElsewhere == txn' = "none" /\ behind' = FALSE /\ UNCHANGED <<table, view>>

\* Every commit of the connection takes along what an earlier failure left.
Commit == table' = view /\ txn' = "none" /\ behind' = FALSE /\ UNCHANGED view

\* Closing the connection forgets it.
Rollback == view' = table /\ txn' = "none" /\ behind' = FALSE /\ UNCHANGED table

\* A request handler, or another process, commits.  Nobody can while the
\* transaction has the write lock, and it matters to one that has read only.
OthersCommit ==
    /\ txn = "reading" /\ ~behind
    /\ behind' = TRUE
    /\ UNCHANGED <<view, txn, table>>

-----------------------------------------------------------------------------
Docs(s) == {d \in Doc : SourceOf[d] = s}

\* The tick looks at the shutdown flag when it is through with a source.
Enter(s) ==
    IF shutdown THEN tick' = "wait" /\ todo' = {}
    ELSE tick' = s /\ todo' = Docs(s)

\* The saved offset is looked up.
TickBegin ==
    /\ tick = "wait" /\ ~shutdown
    /\ tick' = "read"
    /\ txn' = Selected
    /\ UNCHANGED <<readVars, todo, view, behind, table, event_index, offset, shutdown>>

\* There is no event log yet.
TickWithoutLog ==
    /\ tick = "wait" /\ ~shutdown
    /\ file = <<>>
    /\ Enter("jobs")
    /\ UNCHANGED <<readVars, rowVars, event_index, offset, shutdown>>

\* The loop ends, and with the thread its connection.
EndLoop ==
    /\ tick = "wait" /\ shutdown
    /\ tick' = "ended"
    /\ Rollback
    /\ UNCHANGED <<readVars, todo, event_index, offset, shutdown>>

\* A file shorter than the offset is read from its beginning.
Start == IF Len(file) < offset THEN 0 ELSE offset

\* The lines up to piece end are read.
Read(end) ==
    /\ tick = "read"
    /\ IF end = Start
       THEN Enter("jobs") /\ UNCHANGED readVars
       ELSE /\ tick' = IF EventsFrom(Start) # {} THEN "insert" ELSE "offset"
            /\ batch' = EventsFrom(Start)
            /\ newOffset' = end
            /\ UNCHANGED todo
    /\ UNCHANGED <<rowVars, event_index, shutdown>>

\* Where the last line that the reader sees ends.
IsLastLineEnd(end) ==
    end \in {Start} \cup LineEnds(Start) /\ LineEnds(end) = {}

\* Variants with a bug: the offset counts the partial line as read; it is
\* saved before the events are.
ReadToTheEnd == Read(Len(file)) /\ UNCHANGED offset
ReadConfirms ==
    \E end \in 0 .. Len(file) : IsLastLineEnd(end) /\ Read(end) /\ offset' = end

\* What is behind the last newline stays for the next tick.
ReadEvents ==
    \E end \in 0 .. Len(file) :
        IsLastLineEnd(end) /\ Read(end) /\ UNCHANGED offset

InsertBatch ==
    /\ tick = "insert" /\ ~behind
    /\ tick' = "offset"
    /\ event_index' =
          [e \in Event |-> event_index[e] + IF e \in batch THEN 1 ELSE 0]
    /\ Commit
    /\ UNCHANGED <<readVars, todo, offset, shutdown>>

\* Variant with a bug: the offset is not saved.
OffsetNotSaved ==
    /\ tick = "offset" /\ ~behind
    /\ UNCHANGED offset
    /\ Commit
    /\ Enter("jobs")
    /\ batch' = {} /\ newOffset' = 0
    /\ UNCHANGED <<event_index, shutdown>>

\* Variant with a bug: the size of the file is asked for again.
SetOffsetToSize ==
    /\ tick = "offset" /\ ~behind
    /\ offset' = Len(file)
    /\ Commit
    /\ Enter("jobs")
    /\ batch' = {} /\ newOffset' = 0
    /\ UNCHANGED <<event_index, shutdown>>

SetOffset ==
    /\ tick = "offset" /\ ~behind
    /\ offset' = newOffset
    /\ Commit
    /\ Enter("jobs")
    /\ batch' = {} /\ newOffset' = 0
    /\ UNCHANGED <<event_index, shutdown>>

\* The thread comes to a document that is there, and selects its row.
At(d) == tick \in Source /\ d \in todo /\ content[d] # 0

\* The first SELECT of a transaction that a refused write opened.
FixView(d) ==
    /\ At(d) /\ txn = "begun"
    /\ txn' = Selected
    /\ UNCHANGED <<tick, readVars, todo, view, behind, table, event_index,
                   offset, shutdown>>

\* The row is not the document's.
Differs(d) == At(d) /\ txn # "begun" /\ content[d] # view[d]

\* A document that is not there, or whose row is the same already.
SkipRow(d) ==
    /\ tick \in Source /\ d \in todo
    /\ content[d] = 0 \/ (At(d) /\ txn # "begun" /\ content[d] = view[d])
    /\ todo' = todo \ {d}
    /\ UNCHANGED <<tick, readVars, rowVars, event_index, offset, shutdown>>

UpsertRow(d) ==
    /\ Differs(d) /\ d \notin bad /\ ~behind
    /\ todo' = todo \ {d}
    /\ view' = [view EXCEPT ![d] = content[d]]
    /\ txn' = "writing"
    /\ UNCHANGED <<tick, readVars, behind, table, event_index, offset, shutdown>>

\* The exception ends the tick; rows before this one stay uncommitted.  It
\* comes from int(), before the statement, or from the statement, which has
\* opened a transaction by then; jobs have no int().
RowRaises(d) ==
    /\ Differs(d) /\ d \in bad
    /\ tick' = "wait" /\ todo' = {}
    /\ txn' = Begun \/ (txn' = txn /\ tick # "jobs")
    /\ UNCHANGED <<readVars, view, behind, table, event_index, offset, shutdown>>

NextSource(s) ==
    CASE s = "jobs" -> Enter("delivery")
      [] s = "delivery" -> Enter("sessions")
      [] s = "sessions" -> tick' = "wait" /\ todo' = {}

\* Variant with a bug: only the first source commits when it is through.
CommitJobs ==
    /\ tick \in Source /\ todo = {}
    /\ NextSource(tick)
    /\ IF tick = "jobs" /\ \E d \in Docs("jobs") : content[d] # 0
       THEN Commit ELSE UNCHANGED rowVars
    /\ UNCHANGED <<readVars, event_index, offset, shutdown>>

\* A source with a document is committed.  One without is if its directory
\* is there; jobs are a file, which then lists none.
CommitSource ==
    /\ tick \in Source /\ todo = {}
    /\ NextSource(tick)
    /\ \/ Commit /\ (tick = "jobs" => \E d \in Docs("jobs") : content[d] # 0)
       \/ UNCHANGED rowVars /\ \A d \in Docs(tick) : content[d] = 0
    /\ UNCHANGED <<readVars, event_index, offset, shutdown>>

\* The next statement writes.
WriteDue == tick \in {"insert", "offset"} \/ \E d \in Doc \ bad : Differs(d)

\* "database is locked": the tick is over, and the transaction stays open.
Refused ==
    /\ WriteDue
    /\ tick' = "wait" /\ todo' = {}
    /\ batch' = {} /\ newOffset' = 0
    /\ txn' = Begun
    /\ UNCHANGED <<view, behind, table, event_index, offset, shutdown>>

\* At once, because the transaction does not see the last commit.
WriteRefused == behind /\ Refused

-----------------------------------------------------------------------------
\* Another connection has the write lock, and keeps it for longer than the
\* timeout if the transaction has not read yet.
WriteLocked ==
    /\ failures < MaxFailures
    /\ ~behind /\ txn # "writing"
    /\ Refused
    /\ failures' = failures + 1

Stop ==
    /\ ~shutdown
    /\ shutdown' = TRUE
    /\ UNCHANGED <<tick, readVars, todo, rowVars, event_index, offset>>

\* The process ended, in good order or not, and is started again, with a new
\* engine and a new thread.
Restart ==
    /\ failures < MaxFailures
    /\ tick' = "wait" /\ todo' = {}
    /\ batch' = {} /\ newOffset' = 0
    /\ Rollback
    /\ shutdown' = FALSE
    /\ failures' = failures + 1
    /\ UNCHANGED <<event_index, offset>>

\* The gateway writes a document anew, for better or worse.
Edit(d) ==
    /\ content[d] < MaxVersion
    /\ content' = [content EXCEPT ![d] = @ + 1]
    /\ bad' \in {bad \cup {d}, bad \ {d}}

TickStep ==
    \/ TickBegin \/ TickWithoutLog \/ EndLoop
    \/ ReadEvents \/ InsertBatch \/ SetOffset
    \/ \E d \in Doc : FixView(d) \/ SkipRow(d) \/ UpsertRow(d) \/ RowRaises(d)
    \/ CommitSource \/ WriteRefused

Next ==
    \/ LogNext /\ UNCHANGED <<docVars, engineVars, failures>>
    \/ TickStep /\ UNCHANGED <<logVars, docVars, failures>>
    \/ (WriteLocked \/ Restart) /\ UNCHANGED <<logVars, docVars>>
    \/ Stop /\ UNCHANGED <<logVars, docVars, failures>>
    \/ /\ OthersCommit
       /\ UNCHANGED <<logVars, docVars, tick, readVars, todo, event_index, offset,
                      shutdown, failures>>
    \/ (\E d \in Doc : Edit(d)) /\ UNCHANGED <<logVars, engineVars, failures>>

Spec == Init /\ [][Next]_vars

\* The thread goes on until it ends.  Nothing else has to happen: whether
\* writers, the gateway, request handlers or the operator act is up to them.
FairSpec == Spec /\ WF_vars(TickStep /\ UNCHANGED <<logVars, docVars, failures>>)

-----------------------------------------------------------------------------
\* Every variable has its shape, the transaction has the write lock when there
\* is something to commit, and only one that has read can be behind.
TypeOK ==
    /\ LogTypeOK
    /\ content \in [Doc -> 0 .. MaxVersion] /\ bad \subseteq Doc
    /\ tick \in Source \cup {"wait", "read", "insert", "offset", "ended"}
    /\ batch \subseteq Event /\ newOffset \in 0 .. Len(file)
    /\ todo \subseteq Doc
    /\ table \in [Doc -> 0 .. MaxVersion] /\ view \in [Doc -> 0 .. MaxVersion]
    /\ txn \in Transaction /\ (view # table => txn = "writing")
    /\ behind \in BOOLEAN /\ (behind => txn = "reading")
    /\ event_index \in [Event -> Nat] /\ offset \in 0 .. Len(file)
    /\ shutdown \in BOOLEAN /\ failures \in 0 .. MaxFailures

\* The engine never starts to read inside a line (ingestion.py:215-230), so
\* that no event is cut in two by a tick that came while it was written.
OffsetAtLineStart == offset > 0 => file[offset].part = "tail"

\* What lies below the saved offset is indexed (ingestion.py:234-243): no
\* failure or restart between the two commits makes a reader lose an event.
NothingSkipped ==
    \A i \in WholeLines(0) : i <= offset => event_index[file[i].event] > 0

\* A copy of an event costs a failure between the two commits
\* (ingestion.py:234-243); nothing else indexes a line twice.
CopiesBounded == \A e \in Event : event_index[e] <= 1 + failures

\* The transaction of the thread is not behind for good, which it stays until
\* a restart as long as there is something to write.
KeepsUp == []<>(~behind)

\* An event whose append returned is indexed, unless a torn line before it
\* spoiled it, the engine is stopped for good or its transaction is behind
\* for good (ingestion.py:181-244).
AppendedIndexed ==
    KeepsUp =>
        \A e \in Event :
            (e \in appended /\ e \in EventsFrom(0))
                ~> (event_index[e] > 0 \/ tick = "ended")

\* A failed tick leaves its transaction to the next one, and if it has written
\* the write lock of the database; it is not kept for ever once no document is
\* bad, also when bad ones were indexed before (ingestion.py:405, 471), but by
\* a transaction that is behind, which has no lock.
TransactionEnds == <>[](bad = {}) /\ KeepsUp => []<>(txn = "none")

\* What a tick looks at before it is through with the source of a document.
UpTo(d) ==
    {c \in Doc : \/ SourceOf[c] \in {"jobs", SourceOf[d]}
                 \/ SourceOf[d] = "sessions"}

\* A row comes to agree with its document once all that a tick looks at up to
\* its source are good, also when bad ones were there before: a bad document
\* holds up its own source and the later ones, and no other (ingestion.py:107).
TablesFollow ==
    \A d \in Doc :
        <>[](UpTo(d) \cap bad = {}) /\ KeepsUp
            => []<>(tick = "ended" \/ table[d] = content[d])

\* "Periodically polls data sources and indexes them into dashboard.db"
\* (ingestion.py:37), and a tick that failed is followed by others (100-105):
\* an event whose append returned comes to be indexed.
EventsReachIndex ==
    \A e \in Event :
        (e \in appended /\ e \in EventsFrom(0))
            ~> (event_index[e] > 0 \/ tick = "ended")

=============================================================================
