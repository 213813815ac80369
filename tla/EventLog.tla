------------------------------ MODULE EventLog ------------------------------
(***************************************************************************)
(* The append-only event log of event_log.py: processes that append events *)
(* to one file, each under a lock file that a waiter may break when it is  *)
(* old.  _EVENTS_LOCK lets one thread of a process in at a time, so that a *)
(* Writer is a process.                                                    *)
(*                                                                         *)
(* A line is two pieces, its "head" and its "tail" with the newline: a     *)
(* process may die, or the disk may fill, between them, and a reader may   *)
(* look there.  The file is opened for appending and a line is written by  *)
(* one call, so that two live writers never mix their pieces.  The age of  *)
(* the lock file is abstracted to whether it exceeds stale_after_s; no     *)
(* live holder takes that long over one line.                              *)
(***************************************************************************)
EXTENDS Naturals, Sequences, FiniteSets

CONSTANTS
    Writer,      \* processes that append
    Event,       \* events, each appended at most once
    MaxCrashes,  \* bound: crashes of writers
    NULL

ASSUME EventLogAssumption ==
    /\ IsFiniteSet(Writer) /\ IsFiniteSet(Event)
    /\ MaxCrashes \in Nat /\ NULL \notin Event

VARIABLES
    file,      \* the pieces in the file
    lock,      \* "free", or there and "fresh" or "stale"
    writer,    \* where each writer is in append_event
    event,     \* what it appends
    unused,    \* events nobody has tried to append
    appended,  \* events whose append_event returned
    crashes

logVars == <<file, lock, writer, event, unused, appended, crashes>>

Holding == {"head", "tail", "release"}
Places == {"idle", "create", "stat", "unlink"} \cup Holding

Holders == {w \in Writer : writer[w] \in Holding}

Piece(e, p) == [event |-> e, part |-> p]

LogInit ==
    /\ file = <<>>
    /\ lock = "free"
    /\ writer = [w \in Writer |-> "idle"]
    /\ event = [w \in Writer |-> NULL]
    /\ unused = Event
    /\ appended = {}
    /\ crashes = 0

-----------------------------------------------------------------------------
Go(w, from, to) ==
    /\ writer[w] = from
    /\ writer' = [writer EXCEPT ![w] = to]

AppendEvent(w, e) ==
    /\ e \in unused
    /\ Go(w, "idle", "create")
    /\ event' = [event EXCEPT ![w] = e]
    /\ unused' = unused \ {e}
    /\ UNCHANGED <<file, lock, appended, crashes>>

\* O_CREAT with O_EXCL.
TryCreate(w) ==
    /\ IF lock = "free"
       THEN Go(w, "create", "head") /\ lock' = "fresh"
       ELSE Go(w, "create", "stat") /\ UNCHANGED lock
    /\ UNCHANGED <<file, event, unused, appended, crashes>>

\* Variant with a bug: any lock is old (the limit is taken for milliseconds).
StatInMilliseconds(w) ==
    /\ Go(w, "stat", IF lock # "free" THEN "unlink" ELSE "create")
    /\ UNCHANGED <<file, lock, event, unused, appended, crashes>>

\* The age decides; a lock that has gone meanwhile, or is not old, is tried
\* again.
Stat(w) ==
    /\ Go(w, "stat", IF lock = "stale" THEN "unlink" ELSE "create")
    /\ UNCHANGED <<file, lock, event, unused, appended, crashes>>

\* Whatever file has the name by now is removed.
UnlinkStale(w) ==
    /\ Go(w, "unlink", "create")
    /\ lock' = "free"
    /\ UNCHANGED <<file, event, unused, appended, crashes>>

\* append_event is left.
Leave(w, from) ==
    /\ Go(w, from, "idle")
    /\ event' = [event EXCEPT ![w] = NULL]

\* TimeoutError after max_wait_s: nothing was acquired, nothing is released.
GiveUp(w) ==
    /\ lock = "fresh"
    /\ Leave(w, "stat")
    /\ UNCHANGED <<file, lock, unused, appended, crashes>>

WriteHead(w) ==
    /\ \A v \in Writer : writer[v] # "tail"
    /\ Go(w, "head", "tail")
    /\ file' = Append(file, Piece(event[w], "head"))
    /\ UNCHANGED <<lock, event, unused, appended, crashes>>

WriteTail(w) ==
    /\ Go(w, "tail", "release")
    /\ file' = Append(file, Piece(event[w], "tail"))
    /\ appended' = appended \cup {event[w]}
    /\ UNCHANGED <<lock, event, unused, crashes>>

\* The write raises; the finally clause still releases the lock.
WriteFails(w) ==
    /\ writer[w] \in {"head", "tail"}
    /\ writer' = [writer EXCEPT ![w] = "release"]
    /\ UNCHANGED <<file, lock, event, unused, appended, crashes>>

ReleaseLock(w) ==
    /\ Leave(w, "release")
    /\ lock' = "free"
    /\ UNCHANGED <<file, unused, appended, crashes>>

-----------------------------------------------------------------------------
LockAges ==
    /\ lock = "fresh" /\ Holders = {}
    /\ lock' = "stale"
    /\ UNCHANGED <<file, writer, event, unused, appended, crashes>>

\* The process dies; another takes its place, with no memory of it.
Crash(w) ==
    /\ crashes < MaxCrashes
    /\ writer[w] # "idle"
    /\ Leave(w, writer[w])
    /\ crashes' = crashes + 1
    /\ UNCHANGED <<file, lock, unused, appended>>

LogNext ==
    \/ \E w \in Writer :
        \/ \E e \in Event : AppendEvent(w, e)
        \/ TryCreate(w) \/ Stat(w) \/ UnlinkStale(w) \/ GiveUp(w)
        \/ WriteHead(w) \/ WriteTail(w) \/ WriteFails(w) \/ ReleaseLock(w)
        \/ Crash(w)
    \/ LockAges

LogSpec == LogInit /\ [][LogNext]_logVars

-----------------------------------------------------------------------------
\* What a reader that starts behind piece n of the file finds in it.

\* Pieces from n on that end a line.
LineEnds(n) == {i \in n + 1 .. Len(file) : file[i].part = "tail"}

\* The lines that parse: both pieces of one event with nothing before them.
WholeLines(n) ==
    {i \in LineEnds(n) :
        /\ i - 1 > n
        /\ file[i - 1] = Piece(file[i].event, "head")
        /\ i - 2 > n => file[i - 2].part = "tail"}

EventsFrom(n) == {file[i].event : i \in WholeLines(n)}

\* Every variable has its shape, and a writer that is at work has an event.
LogTypeOK ==
    /\ file \in Seq([event : Event, part : {"head", "tail"}])
    /\ lock \in {"free", "fresh", "stale"}
    /\ writer \in [Writer -> Places]
    /\ event \in [Writer -> Event \cup {NULL}]
    /\ \A w \in Writer : event[w] = NULL <=> writer[w] = "idle"
    /\ unused \subseteq Event /\ appended \subseteq Event
    /\ crashes \in 0 .. MaxCrashes

\* "Append-only JSONL event log with cross-process locking" (event_log.py:2):
\* the lock lets one process in at a time.
Exclusive == \A v, w \in Holders : v = w

\* As long as no process dies, no lock is broken, and it does
\* (event_log.py:61-104).
ExclusiveUntilCrash == crashes = 0 => Exclusive

=============================================================================
