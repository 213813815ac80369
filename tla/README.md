# Maids Dashboard in TLA+

A verification project for the Maids Dashboard: a local HTTP dashboard over the
state of an agent runtime ("OpenClaw"), with a SQLite *canon database* that
records the fiction the agents write, and a second SQLite database of derived
data. The modules here are translated from the Python source; file and line
references are to the repository.

    CanonStore ──────── LinearHistory          (implements it)
      ├── PatchPreview                         (EXTENDS CanonStore)
      ├── PlotGraph                            (EXTENDS CanonStore)
      └── PendingCommits                       (EXTENDS CanonStore)
    SSEManager                                 (stream + shutdown of the backend)
    EventLog
      └── Ingestion                            (EXTENDS EventLog)
    DashboardDB + Lorebook
      └── Rooms                                (EXTENDS both)
    ConfigFiles                                (files that handlers and the runtime write)
    *_proofs                                   theorems, checked by TLAPS
    MC*.tla, MC*.cfg                           small instances for TLC

## 1. Inventory

| part | state | operations | talks to | hard because of |
|---|---|---|---|---|
| canon store, `canon/store.py` | SQLite `canon.db`: world, playthrough, branch, world_revision, fact, canon_conflict, pending_commit, plot_* | `commit_revision`, `apply_pending_commits`, `preview_apply_patch`, `compare_commits`, readers, migration | every writer of canon; one connection per call | racing writers, stale bases, crash between two transactions, columns and stored snapshots that must agree |
| patch validation, `canon/validator.py` | none | `validate_patch_schema`, `validate_commit`, `run_quality_gate` | called by the store | judges by a snapshot what is later done to the fact table |
| plot graph, `plot_graph.py` | branch heads, plot_node, plot_edge in the same database | advance, fork, merge, create and delete nodes and edges | calls `commit_revision`, else single SQL statements in autocommit mode | every operation reads, decides and writes in separate statements |
| event log, `event_log.py` | `events.jsonl`, a lock file | `append_event` | every process of the runtime; read by ingestion | lock file with a stale rule, time limits |
| ingestion engine, `ingestion.py` | byte offsets and derived tables in `dashboard.db` | one tick over four sources, start, stop | reads files others write, broadcasts on the stream | partial lines, truncation, crash between commit and offset, one bad line |
| session ingestion, `session_ingest.py` | table run of `canon.db` | `ingest_sessions`, a command | session files | - |
| event stream, `sse_manager.py`, `api/heartbeat.py` | registry of clients, a queue and a flag each | register, broadcast, heartbeat and idle sweep, stop; one generator per client | ingestion and role-play rooms broadcast | four kinds of threads, a cap, shutdown |
| backend, `dashboard_backend.py` | signal count, events, daemon threads | start, two-phase shutdown | stream, ingestion, web server | who ends first |
| dashboard database, `dashboard_db.py` | schema, one connection per thread | `init_db`, `get_connection` | all services | transactions left open on a thread's connection: old snapshots, refused writes |
| configuration, `api/config.py`, `services/config_service.py`, `api/maids.py`, `api/cron.py` | JSON files, audit rows | revision-checked patches, maid registration, job toggle | the runtime writes some of the files, too | no lock between check and write, several files per request, an audit row after each write |
| incidents, conflicts, dispatch | none of their own | reports; `resolve_conflict` | both databases | failures that are not reported |
| role-play rooms, cards, lore: `api/rp.py`, `rp_assets.py`, `lorebook_engine.py`, `scene_packet.py` | `rp_*` tables | create, change, delete, import, match, send | dashboard database, stream | look up, write and broadcast are separate steps on connections of their own |
| `drift_detector.py`, `delegation_classifier.py`, `maid_contract.py` | none | pure functions | - | - |
| `canon/cli.py`, `gateway/`, `frontend/`, `deploy/`, other routes | - | listings, remote calls, views, scripts | - | - |

What makes each part correct:

- **canon store**: no commit that was acknowledged is lost; a writer with a
  stale base is refused and its patch kept; every stored snapshot agrees with the
  fact table for ever; worlds do not touch each other.
- **plot graph**: a merge only moves a target forward; a node on which a branch
  stands is not deleted; edges have two ends in one world; a fork keeps its base.
- **pending commits**: a row enters the canon at most once, whatever crashes, and
  its recorded outcome is true.
- **event log**: one holder of the lock at a time, whole lines, no waiter stuck.
- **ingestion**: no line is skipped, and a line is indexed twice only after a failure;
  the tables follow the files once these are good, and the thread's transaction ends.
- **stream and backend**: the cap holds, no place leaks, idle clients go, and the
  process ends after an interrupt.
- **preview, diff, quality gate**: what they say of a patch is what its commit does.
- **configuration, cron**: outside of a race of two writes, an edit made against a
  revision does not undo another, and the audit rows explain the file.
- **rooms**: messages and participants have a room, deleted rows stay deleted, every
  committed message is broadcast once, and which lorebook entries a message brings in
  depends on the entries alone.

`PROJECT.json` lists under "hazards" each place in the code where one of these
can break, with the property that watches it or the reason why none does yet.

## 2. Modules

**CanonStore** models the tables that `commit_revision` reads and writes
(`canon/store.py:841-995`). The call runs inside `BEGIN IMMEDIATE ... COMMIT`, so it
is one step, `CommitRevision`, with two outcomes: `CommitStale` (the branch head is
not the caller's base: the patch is kept as a conflict) and `CommitOnHead` (retire
facts, add facts, store the snapshot, move the head). The later compare-and-swap
failure (`store.py:967-982`) cannot occur inside the transaction and has no action.
An exception rolls everything back and is a stutter. A revision or fact id is the
position of its row; entities, aliases, wording, authors and times are abstracted;
a `Triple` stands for one (subject, predicate, object). `facts_retire` is a sequence, as
the list in a patch may name a triple twice. A snapshot keeps the ids of its facts, the
current plot node and the plot history.

**LinearHistory** is what the store promises its writers: a branch has a set of
reachable revisions; a commit publishes one fresh revision on it, a fork or a
fast-forward adopts the larger set of another branch. `KeepsLinearHistory` in
CanonStore is its specification under the mapping "reach = ancestors of the head".

**PatchPreview** has the readers that tell what a patch will do: the fact part of
`preview_apply_patch` (`PreviewApplyPatch`; its plot part is in `NewSnapshot`, since
`commit_revision` calls it), `compare_commits` and the assertion counts of
`run_quality_gate` (`GateSilent`), which takes one asserted fact off for every listing
of a retired triple, but never more than the triple has. They work on a snapshot keyed by (subject,
predicate, object), while the fact table may hold several open rows of one key;
`KeyedFacts` therefore is a set, one view for each row the ORDER BY may list last. The
properties say for which patches a preview and a commit agree. They are state
predicates over all proposed patches, so nothing is added to the state.

**PlotGraph** extends the store by `plot_graph.py`. `get_db` opens connections in
autocommit mode and no operation opens a transaction, so every SQL statement, look-ups
included, is an action; `op[t]` is what thread `t` has read and still has to do. The walks over
`parent_rev_id` read rows that never change and belong to the read before them.
`ClientCommit` stands for direct callers of `commit_revision`. Foreign keys are
modelled where they decide: an edge whose node has gone is refused, deleting a node
cascades to its edges. `branch.head_node_id` has no foreign key.

**PendingCommits** extends the store by `apply_pending_commits`: read the row
(one connection), commit its patch (second transaction), record the outcome
(third). Between any two, other workers run or the process dies (`Crash`). `made[c]`
is a history variable: the revisions made from row `c`. Only tests insert pending
rows in the repository; `Submit` inserts any row that its foreign keys accept.

**SSEManager** models the stream: the endpoint's two checks of the cap, the
generator (check `connected`, take a message or time out, yield, `finally`), the
broadcast, the heartbeat sweep, `stop()`, the signal handler, the web server's drain
and the `finally` of `run_server`. Each section under the manager's lock is a step.
Messages are not told apart and neighbours in a queue are one; the poison pill is
kept apart. `idle[c]` says that 300 s passed without data. The web server (uvicorn)
is external: it stops accepting some time after `should_exit` and returns when all
responses are complete; one call of `get` with time-out is one step.

**EventLog** models `append_event`: create the lock file, or look at its age, break
it if it is stale, try again, or give up; write the line; release. A line is two
pieces, head and tail with the newline; a writer may crash or its write may fail
between them, and a reader may look there. `_EVENTS_LOCK` serialises the threads of a
process, so a `Writer` is a process. The file is opened for appending and a line is
one write, so that lines of two live writers do not mix; the lock file's age is one
bit, and a lock does not become stale under a live holder.

**Ingestion** extends it by the engine's thread: a tick tails the log from the saved
offset, inserts what it read (one transaction), saves the offset (another), and
then goes through the documents of three sources, one step per row and one for the
commit. `table` is committed, `view` what the thread's connection sees: an exception
ends the tick but not the transaction, because `get_connection` does nothing on the
way out, and the next commit takes it along. The connection behaves as DashboardDB
says: a write that a lock refuses (`WriteLocked`) leaves a transaction open (`txn`), the
next SELECT (`Selected`) fixes what it sees, and once another connection has committed
(`OthersCommit`, `behind`) every further write is refused at once (`WriteRefused`). A
source without changes still commits, which is the one way out. A bad document raises
before its statement, from `int()`, or in it; it holds up its own source and the later
ones in every tick until it is corrected, which is how `TablesFollow` is stated.
`Restart` is the end of the process, in
good order or not, and `run_server`, which makes a new engine (systemd restarts it). `cron/runs/*.jsonl`, tailed by a copy
of the same code, and the broadcasts are left out. A file shorter than the offset is
read from its start, as in the code; nothing in the repository shortens it.

**DashboardDB** is `get_connection`: a connection per thread that nobody ends a
transaction on, and as much of SQLite (WAL mode) as that makes visible. `conn[t].intx`
is a transaction that a refused write left open; the first SELECT in it fixes what the
thread sees (`snap`) until a commit, and once another connection has committed
(`behind`) every write is refused at once, without the wait of five seconds. `held` is
the write lock in the hands of the ingestion thread. A commit ends all that; so does
the end of an idle thread of the pool (`Retire`).

**Lorebook** is the matching of `lorebook_engine.py` as pure operators: the loop over
an entry's triggers, the loop over the entries, the stable sort by (priority, id), the
token budget. A message is
the set of words that match in it.

**Rooms** extends both by all handlers of `api/rp.py`. The action that starts a request
does its look-ups on `View(t)`, the thread's connection; `WriteAndCommit` or
`WriteFails` follows, then `Announce`, the broadcast. An edit of a lorebook entry keeps
the row it has read (`seen`), because its UPDATE sets every column; that of a character
sets the named ones only. `used` holds the ids uuid4 gave out, `announced` and `unsaid`
are history variables. `Restart` rolls back and forgets requests. Texts, times and the
position and reason reported with a matched entry are left out.

**ConfigFiles** models the two PATCH handlers of `api/config.py` and the toggle of
`api/cron.py`, next to the runtime, which writes `openclaw.json` and `cron/jobs.json`
itself. A handler reads a file, compares its sha256 with the client's revision,
patches a copy (`Planned`), replaces the file (`Replace`) and inserts an audit row
(`Audit`); models patches name any number of files and go on with the next (`Later`). Each may fail, and a
restart may come between them. A file is a value for each field and a layout, and its
content stands for its hash. `serial[f]` and `untold` are history variables: the fields
had every accepted edit been applied to the result of the one before, restarted when a
replace hits a content it had not read; and the files with a change no audit row tells.

Every definition under a comment "Variant with a bug" is not part of a
specification: it is a plausible mistake that the property of the same section must
catch, see "mutants" in `PROJECT.json`.

## 3. Runs

| run | instance | what it shows |
|---|---|---|
| store | 2 worlds, playthroughs, branches, nodes, 2 triples (two values of one subject and predicate), 8 patches committed and 10 previewed, 3 revisions, 1 conflict | tables and snapshots agree (`SnapshotsMatchValidity`, `FactsStayInWorld`, `HeadMatchesSnapshot`, `HistoryIsWalk`), nothing is lost (`NoCommitLost`), LinearHistory is implemented; a preview without a retcon of an open fact tells what the commit leaves (`PreviewMatchesCommit`), patches without a difference are exchangeable (`NoDiffNoMatter`), a fact the gate does not warn about is the only one asserted for its pair (`SilentGateKeepsOneValue`) |
| plot | 2 threads, 2 worlds, 2 branches, 2 nodes, 3 revisions, 1 conflict; `Slices` | under the interleavings of advance, fork, merge, commit and edits of the graph, in one world and in two, heads and snapshots agree, forks keep their base, only a fast-forward of a target that moved since it was read drops revisions, no edge dangles or joins two worlds |
| merge_race | 2 threads | **violation** of `MergeAdvancesTarget` |
| delete_race | 2 threads | **violation** of `OnlyUnprotectedDeleted` |
| pending | 2 workers, 2 rows, 2 branches, 2 worlds, 3 revisions | at most once, retries refused, recorded outcomes true |
| sse | 2 clients for 1 place | cap, no leak, stopped and idle clients end, the process drains unless a client comes too late |
| sse_drain | the same | **violation** of `Drains` |
| ingestion | 2 processes, 2 events, 1 crash of a writer, a job, a delivery and a session of 2 versions, 2 refused writes or restarts of the engine | no whole line is skipped, the offset stays between lines, copies cost failures, the lock excludes before a crash; unless the connection is behind for good, an appended event is indexed (`AppendedIndexed`), the transaction ends once the bad documents are good (`TransactionEnds`), and a row follows its document unless a bad one of its source or an earlier one holds it up (`TablesFollow`) |
| config | 2 threads, 1 agent, 1 setting, 1 job, up to 2 edits in a request, 1 audit row before the last request; two of the four files change | edits that read one another's result add up (`EditsAddUp`), the audit rows lead from the first content to the present one (`AuditExplainsFile`) |
| rooms | 2 threads, 2 lorebook ids, 1 character, 1 room, 1 message | `TypeOK` (rows have their room, also on old snapshots), `BroadcastOnce`, `DeletedStaysDeleted`, `EditsKeepOtherFields`, `MatchedByRank` |
| event_lock | 2 processes, 3 events, 1 crash | **violation** of `Exclusive` |
| ingestion_wedged | 1 event, 1 refused write | **violation** of `EventsReachIndex` |

Bounds. Three revisions are enough for a base, a competing commit and one on top of it,
for a fact to be added, retired and retired again, and for a fork to diverge; two of
everything else is what a race needs. `MaxRevs` and `MaxConflicts` appear in the guards
of the actions that append rows; `MaxCrashes`, `MaxFailures` and `MaxVersion` in those
of crashes, failures and edits, `MaxAudits` and `MaxMessages` in those that take a
request, `MaxEdits` limits the files of one; the stream needs no bound. Four bounds are
in the MC modules. `Slices` of MCPlotGraph lets branches of one world race with few
nodes, nodes race under one branch, or both in two worlds with a revision on a branch of
each, where every look-up may meet a row of the other world; its properties are also
proved without that bound (section 4). `TwoFilesChange` of MCConfigFiles: two threads at
one file are the race, and a second file is what a request goes on to. In MCRooms a
behaviour uses one of the three parts of the database (ids of the others count as given
out to inserts that failed), and others hold the write lock while there is at most one
entry: a connection left behind then sees one table or two. Lorebook rows, orders and
budgets are still enumerated in full over two entries. In MCIngestion a behaviour starts
from one of two reachable states: the documents are indexed and the log is written
(`LogBusy`); or two events are in the log, one of them not yet indexed, one failure is
left, and documents come and change (`DocsBusy`). A torn line and one glued to it are
the two events of run `ingestion`; one failure comes between the two commits, a second
is the restart after a write that left the connection behind. Two versions let a
document that was bad become good. Where a cfg says `CHECK_DEADLOCK FALSE` the system
may really stop: the bounds are reached, or the process has ended. Symmetry is used only
over ids no property names, and in no run that checks liveness.

### What the violations show

- *merge_race*: `merge_branch` reads both heads, compares them, and overwrites the
  target without a condition on its present head (`plot_graph.py:213`). A commit in
  between is no longer reachable from the target, although the docstring says that a
  fast-forward advances the target if its head is an ancestor of the source's (172).
- *delete_race*: `delete_node` checks the branch heads, then deletes the edges, then
  the node (`plot_graph.py:330-355`); a branch may move there in between. Docstring:
  "Only unprotected nodes are deleted" (309).
- *sse_drain*: a request that passed its first check registers after `stop()` cleared
  the registry; nobody will close it, and the server waits for its response. Comment:
  "the generators finish and uvicorn can complete its graceful shutdown"
  (`dashboard_backend.py:117`). A second interrupt still ends the process, which is
  why the model does not oblige anyone to send one.
- *event_lock*: one process dies with the lock; two others find it stale; one
  removes it, creates its own and writes; the other, which decided on the old file's
  age, removes that one and enters, too (`event_log.py:84-91`). The module promises
  "cross-process locking" (2). Because lines are appended by one write, lines stay whole.
- *ingestion_wedged*: an INSERT waits five seconds for the lock and is refused. Nothing
  rolls the thread's transaction back; the next tick selects the offset in it, which fixes
  its snapshot; a request handler commits; from now on each tick's INSERT is refused at
  once and ends the tick before it comes to a commit. The docstring says "Periodically polls
  data sources and indexes them into dashboard.db." (`ingestion.py:37`); this event is
  indexed only after a restart. A thread of the web server is stuck in the same way
  until the pool gives it up (Rooms has its refused writes and its old snapshots); no
  document says what its requests may expect.

The type invariants of CanonStore, PendingCommits and SSEManager are theorems and in no
run's list; those of PlotGraph, Ingestion, ConfigFiles and Rooms are checked.

### Fairness

SSEManager and Ingestion state fairness; the others are checked for safety alone. In
Ingestion the engine's thread is weakly fair: its loop catches every exception and
waits with a time-out, and a write on a transaction that is behind is refused. Writers,
the gateway, other connections, `Stop` and `Restart` are not fair; that is why the
properties allow for an engine that was stopped for good, and `KeepsUp` names the
assumption that the connection is not behind for good, which the code does not ensure
(*ingestion_wedged*).
In SSEManager all threads are. Each
thread of the process (generator, heartbeat, `stop()`, main) is weakly fair: the
operating system schedules it, locks are held for short sections only, and every wait
has a time-out. For a generator that has yielded this includes the assumption that
its browser reads on or goes away. Requests, broadcasts, the passing of the idle
time, disconnects and interrupts are not fair.

## 4. Proofs

TLAPS checks these for every value of the constants, from the assumptions named in
the modules only (`PatchAssumption`, `NullAssumption`, `BoundAssumption`,
`ProposedAssumption`, `SSEAssumption`, `EventLogAssumption`, `IngestionAssumption`,
`FilesAssumption`, `RoomsAssumption`, `PriorityAssumption`). They give types to the
constants; besides, ConfigFiles assumes a finite set of threads, which the web server's
pool is, and Rooms integer priorities, which both lorebook handlers make by `int()`. TLC
evaluates the assumptions in the runs. The
lemmas about one commit hold for any patch of `PatchType`, not only for those of
`Patch`, because `advance_branch` makes a patch of its own.

- `CanonStore_proofs`: **TypeCorrect**, `StoreSpec => []TypeOK`. It also holds the
  lemmas the others cite: what `SetRow` does, that parents have smaller ids, and what
  appending a revision does to `IsAncestor` and `Reach`.
- `CanonStore_proofs`, too: **CommitsNotLost, HeadsMatchSnapshots, FactsStay,
  SnapshotsMatch, HistoriesAreWalks** and **Refinement** (`StoreSpec =>
  KeepsLinearHistory`). `NoCommitLost` is inductive with the type invariant: a commit
  on the head makes everything the old head reached reachable from the new one, and a
  fresh revision is nobody's ancestor. `SnapshotsMatchValidity` is inductive because a
  new revision has the largest id: closing a row with it leaves every older
  `ValidAt` unchanged. `HistoryIsWalk` needs `HeadMatchesSnapshot`: the history comes
  from the base, the node from the branch row. The refinement maps `CommitOnHead` to
  `Publish` and `CommitStale` to a stutter.
- `PatchPreview_proofs`: **PreviewsMatchCommits, EqualPreviewsExchange** and
  **SilentGateIsSafe**, from the invariant `TypeOK /\ SnapshotsMatchValidity /\
  FactsStayInWorld`, which says that the snapshot of the newest revision of a world
  lists the open rows of the table. What is left is about the operators. The loop over
  `facts_add` is a fold: `LoopIsViewOf` gives its closed form, in which the last added
  fact of a triple counts, and shows that it satisfies the fold's equation; that this
  equation has one solution follows from a smallest set of positions where two would
  differ (`MinimalSubset`). The gate's count is a fold, too: `LoopIsUnits` turns the
  sum into the cardinality of a set with an element for each unit of each count, so
  that a count of zero is an empty set (`NothingLeft`).
- `PlotGraph_proofs`: **PlotTypeCorrect, PlotHeadsMatch, ForksKeepBase,
  EdgesKeepEndpoints** and **DropsAreStale** (`Spec => OnlyStaleMergesDrop`). Threads act
  on rows they read earlier; `Held` is what of such a row is still true when it is used,
  and `PlotInv` the conjunction of it over all threads with the properties. `HeldKept`
  says that no step of anybody disturbs it, from three facts (`StoreGrows`,
  `NodesGrow`): revisions are only appended, a branch keeps its world, playthrough and
  fork base, and the id of a deleted node does not come back. A fork keeps its base
  through a stale fast-forward, because the head the thread compared lies above that
  base (`ForwardReady`) whatever the target's head is by then. An edge cannot come to
  join two worlds, because its ends had one when they were looked up (`FromRead`,
  `EndsRead`).
- `PendingCommits_proofs`: **PendingTypeCorrect, AtMostOnce, RetriesConflict**. The
  inductive invariant adds two facts to `AppliedAtMostOnce`: the head of a branch is
  the newest revision committed through it (`HeadIsNewest`), and a revision made from a row has
  the row's base as parent and its branch (`MadeFromRow`). So once a row was applied
  the head lies above its base and never equals it again, which is all the code has to
  stop a second application after a crash. **OutcomesAreBacked** adds what a worker has
  in hand between commit and record (`BackedInv`): the revision it made, or the conflict
  row, which is there already and never changes; and a row that fails does so on its
  data, which no worker can have committed.
- `SSEManager_proofs`: **SSETypeCorrect, SlotsAreHeld, DroppedKnow**, by the
  conjunction of the three.
- `Ingestion_proofs`, for EventLog: **LogTypeCorrect, ExclusiveUntilFirstCrash**. Before a crash the
  lock file is there exactly while one writer holds it, so it does not age and nobody
  comes to remove it (`LockIsHeld`).
- `Ingestion_proofs`: **EngineTypeCorrect, NoLineSkipped, OffsetBetweenLines,
  CopiesCostFailures**. The
  invariant of the middle two says what is true between read and save: what was read
  ends with a line, and every whole line up to there is indexed or in the batch
  (`ReadIsWhole`). A reader that starts at a line's end sees the whole lines of the
  file behind it, and no others (`ReadsWholeLines`). The last adds that an event has one
  line at most (`OneTail`) and that a copy above the number of failures is that of a
  line already put behind (`CopiesInv`).
- `ConfigFiles_proofs`: **FilesTypeCorrect, EditsCompose** and **RowsExplainFiles**. `Held` is what a handler knows between its steps: it patches
  the very content its client named, to what the edit makes of it, and a replacement of
  any other content is one that `Stale` names. The audit trail is a sum: the rows and the
  pending inserts that lead to a content are as many as those that lead away from it,
  but for the first and the present one. Each step adds one row to both sides, or moves
  one from the pending to the inserted (`Changes` is a cardinality, and an insert takes
  one element out of one set and puts one into the other).
- `Rooms_proofs`: **RoomsTypeCorrect, ToldExactlyOnce, NoRevival** and
  **FieldsAreKept**, for any number of threads on snapshots of any age. `Held` says
  what of a look-up still stands when the handler writes: ids are not given out twice,
  rooms are not removed, and the row a new room will get has no rival. `Claims` are the
  ids a thread alone may bring into the tables; two threads never have one in common,
  so each committed row is announced by the thread that made it and by no other.
- `Rooms_proofs`, too: **MatchingIsByRank**, for lorebooks of any size and any order of
  their rows. The three loops of `match_lorebook_entries` are folds. `LoopExists` shows
  that the function which a fold chooses exists, and `FiredLoop`, `SortedLoop` and
  `TrimmedLoop` take a loop apart into its turns; what a turn keeps, the loop keeps
  (`EveryTurn`). An entry inserted before the first one it outranks leaves the list in
  order (`InsertedRanked`), so the list depends on the entries and not on their order;
  and as the list is in order, the tokens ahead of an entry are settled when the cut
  comes to it and stay as they are (`AheadKept`). That entries can be ranked at all is
  an invariant of the handlers (`LoreInv`): the rows on every snapshot, and the row a
  request is about to write, have an integer priority.

Only model-checked: all liveness (`StopEndsClients`, `IdleReaped`, `DrainsUnlessOrphan`,
`AppendedIndexed`, `TransactionEnds`, `TablesFollow`), which TLAPS does not reach. Every other property of a passing run is a theorem. Two operators are
written for the prover, which cannot expand `SelectSeq`: `Inserted` names the place of
an entry and `Ahead` the number of those before one. The proofs about
PendingCommits hold for a store whose only writers are
commits; with `merge_branch` in play they do not: a stale fast-forward can move a head
back to the base of a row that was already applied.

## 5. Plan

Done so far: the canon with its refinement and proofs, pending commits, the plot graph,
previews, the event log and the ingestion, the editing of files, the dashboard's
database and the rooms, each with its proofs, and the stream. What is left, in this
order:

1. PendingCommits composed with PlotGraph, once an instance is found that TLC finishes in
   the time of a run; the product of the present ones is far from it.
2. The broadcasts of the ingestion engine, which follow another tick's commit when a
   transaction was left open.

## 6. Not modelled

- *Schema and migration*: one version, every statement is `IF NOT EXISTS`.
- *Readers*: `get_timeline`, listings, incident reports and GET handlers have no state.
  `resolve_conflict` is one UPDATE whose failure nobody is told.
- *Maid registration* (`api/maids.py`, `services/maid_service.py`): at this commit none
  succeeds, because `str.format` refuses the braces in the template of `auth.json` and
  nothing makes the directory `agents/<id>/agent` it would be written to. It does not
  come to touch `openclaw.json`.
- *Session ingestion*: a command over all files in one transaction; against the schema
  of `canon/store.py` its first INSERT is refused, since the CHECK on `run.status` does not
  allow the empty string it inserts.
- *Code only tests call*: `rp_assets.py`, `scene_packet.py`, `maid_contract.py`,
  `drift_detector.py`; `delegation_classifier.py` is a stateless heuristic on text.
- *Parts of modelled components*: the plot look-ups of `validate_commit` and the score
  and confidence warnings of `run_quality_gate`; `cron/runs/*.jsonl` and the broadcasts
  of the ingestion engine; the start-up of the backend and the `KeyboardInterrupt` some
  platforms raise from `asyncio.run`.
- *Input and output*: gateway calls, the frontend, the command line over a JSON file,
  deployment scripts.

SQLite is taken to be serialisable for single statements and for `BEGIN IMMEDIATE`
transactions, and a failed transaction of the canon, whose connections are closed after
a call, to leave nothing behind. What it does on a connection that is kept is part of
DashboardDB.
