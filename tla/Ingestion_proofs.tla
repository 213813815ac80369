-------------------------- MODULE Ingestion_proofs --------------------------
(***************************************************************************)
(* Proofs about the event log and its tailing: the lock excludes as long as*)
(* nobody dies, no whole line below the saved offset is missing from the   *)
(* index, the offset lies between two lines, a copy costs a failure, and   *)
(* rows that are not committed mean that the transaction has the write     *)
(* lock, for any number of writers, events, documents and failures.        *)
(***************************************************************************)
EXTENDS Ingestion, SequenceTheorems, TLAPS

-----------------------------------------------------------------------------
(* The event log by itself. *)

\* A piece added to the file leaves it a sequence of pieces.
LEMMA FileGrows ==
    ASSUME LogTypeOK, NEW w \in Writer, writer[w] # "idle",
           NEW p \in {"head", "tail"}
    PROVE  /\ event[w] \in Event
           /\ Append(file, Piece(event[w], p)) \in
                Seq([event : Event, part : {"head", "tail"}])
<1>1. event[w] \in Event
  BY DEF LogTypeOK
<1>2. Piece(event[w], p) \in [event : Event, part : {"head", "tail"}]
  BY <1>1 DEF Piece
<1> QED
  BY <1>1, <1>2, AppendProperties DEF LogTypeOK

LEMMA LogTypeStart == LogInit => LogTypeOK
  BY EventLogAssumption DEF LogInit, LogTypeOK, Places

LEMMA LogTypeStep ==
    ASSUME LogTypeOK, [LogNext]_logVars
    PROVE  LogTypeOK'
<1> USE DEF Places, Holding, Go
<1>1. ASSUME NEW w \in Writer, NEW e \in Event, AppendEvent(w, e)
      PROVE  LogTypeOK'
  BY <1>1, EventLogAssumption DEF AppendEvent, LogTypeOK
<1>2. ASSUME NEW w \in Writer, TryCreate(w) PROVE LogTypeOK'
  BY <1>2 DEF TryCreate, LogTypeOK
<1>3. ASSUME NEW w \in Writer, Stat(w) PROVE LogTypeOK'
  BY <1>3 DEF Stat, LogTypeOK
<1>4. ASSUME NEW w \in Writer, UnlinkStale(w) PROVE LogTypeOK'
  BY <1>4 DEF UnlinkStale, LogTypeOK
<1>5. ASSUME NEW w \in Writer, GiveUp(w) PROVE LogTypeOK'
  BY <1>5 DEF GiveUp, Leave, LogTypeOK
<1>6. ASSUME NEW w \in Writer, WriteHead(w) PROVE LogTypeOK'
  <2>1. writer[w] # "idle"
    BY <1>6 DEF WriteHead
  <2> QED
    BY <1>6, <2>1, FileGrows DEF WriteHead, LogTypeOK
<1>7. ASSUME NEW w \in Writer, WriteTail(w) PROVE LogTypeOK'
  <2>1. writer[w] # "idle"
    BY <1>7 DEF WriteTail
  <2> QED
    BY <1>7, <2>1, FileGrows DEF WriteTail, LogTypeOK
<1>8. ASSUME NEW w \in Writer, WriteFails(w) PROVE LogTypeOK'
  BY <1>8 DEF WriteFails, LogTypeOK
<1>9. ASSUME NEW w \in Writer, ReleaseLock(w) PROVE LogTypeOK'
  BY <1>9 DEF ReleaseLock, Leave, LogTypeOK
<1>10. ASSUME NEW w \in Writer, Crash(w) PROVE LogTypeOK'
  BY <1>10, EventLogAssumption DEF Crash, Leave, LogTypeOK
<1>11. CASE LockAges
  BY <1>11 DEF LockAges, LogTypeOK
<1>12. CASE UNCHANGED logVars
  BY <1>12 DEF logVars, LogTypeOK
<1> QED
  BY <1>1, <1>2, <1>3, <1>4, <1>5, <1>6, <1>7, <1>8, <1>9, <1>10, <1>11, <1>12
  DEF LogNext

\* Every variable keeps its shape.
THEOREM LogTypeCorrect == LogSpec => []LogTypeOK
<1>1. LogTypeOK /\ [LogNext]_logVars => LogTypeOK'
  BY LogTypeStep
<1> QED
  BY LogTypeStart, <1>1, PTL DEF LogSpec

-----------------------------------------------------------------------------
\* Before the first crash the lock file is there exactly while it is held, by
\* one writer; it does not age and nobody is about to remove it.
LockIsHeld ==
    crashes = 0 =>
        /\ lock # "stale"
        /\ \A w \in Writer : writer[w] # "unlink"
        /\ lock = "free" => \A w \in Writer : writer[w] \notin Holding
        /\ lock = "fresh" => \E w \in Writer : writer[w] \in Holding
        /\ \A v, w \in Writer :
              writer[v] \in Holding /\ writer[w] \in Holding => v = w

\* As long as no process dies the lock lets one in at a time.
THEOREM ExclusiveUntilFirstCrash == LogSpec => []ExclusiveUntilCrash
<1>1. LogInit => LockIsHeld
  BY DEF LogInit, LockIsHeld, Holding
<1>2. LogTypeOK /\ LockIsHeld /\ [LogNext]_logVars => LockIsHeld'
  <2> SUFFICES ASSUME LogTypeOK, LockIsHeld, [LogNext]_logVars, crashes' = 0
               PROVE  LockIsHeld'
    BY DEF LockIsHeld
  <2>0. crashes = 0
    <3>1. CASE \E w \in Writer : Crash(w)
      BY <3>1, EventLogAssumption DEF Crash, LogTypeOK
    <3>2. CASE ~ \E w \in Writer : Crash(w)
      BY <3>2 DEF LogNext, logVars, AppendEvent, TryCreate, Stat, UnlinkStale,
         GiveUp, WriteHead, WriteTail, WriteFails, ReleaseLock, LockAges
    <3> QED BY <3>1, <3>2
  <2> USE <2>0 DEF LockIsHeld, Holding, Go, LogTypeOK
  <2>1. ASSUME NEW w \in Writer, NEW e \in Event, AppendEvent(w, e)
        PROVE  LockIsHeld'
    BY <2>1 DEF AppendEvent
  <2>2. ASSUME NEW w \in Writer, TryCreate(w) PROVE LockIsHeld'
    BY <2>2 DEF TryCreate
  <2>3. ASSUME NEW w \in Writer, Stat(w) PROVE LockIsHeld'
    BY <2>3 DEF Stat
  <2>4. ASSUME NEW w \in Writer, UnlinkStale(w) PROVE LockIsHeld'
    BY <2>4 DEF UnlinkStale
  <2>5. ASSUME NEW w \in Writer, GiveUp(w) PROVE LockIsHeld'
    BY <2>5 DEF GiveUp, Leave
  <2>6. ASSUME NEW w \in Writer, WriteHead(w) PROVE LockIsHeld'
    BY <2>6 DEF WriteHead
  <2>7. ASSUME NEW w \in Writer, WriteTail(w) PROVE LockIsHeld'
    BY <2>7 DEF WriteTail
  <2>8. ASSUME NEW w \in Writer, WriteFails(w) PROVE LockIsHeld'
    BY <2>8 DEF WriteFails
  <2>9. ASSUME NEW w \in Writer, ReleaseLock(w) PROVE LockIsHeld'
    BY <2>9 DEF ReleaseLock, Leave
  <2>10. ASSUME NEW w \in Writer, Crash(w) PROVE LockIsHeld'
    BY <2>10, EventLogAssumption DEF Crash
  <2>11. CASE LockAges
    BY <2>11 DEF LockAges, Holders
  <2>12. CASE UNCHANGED logVars
    BY <2>12 DEF logVars
  <2> QED
    BY <2>1, <2>2, <2>3, <2>4, <2>5, <2>6, <2>7, <2>8, <2>9, <2>10, <2>11, <2>12
    DEF LogNext
<1>3. LockIsHeld => ExclusiveUntilCrash
  BY DEF LockIsHeld, ExclusiveUntilCrash, Exclusive, Holders
<1> QED
  BY <1>1, <1>2, <1>3, LogTypeCorrect, PTL DEF LogSpec

-----------------------------------------------------------------------------
(* The reader. *)

\* The shape of what the reader keeps.
ReaderOK ==
    /\ offset \in 0 .. Len(file) /\ newOffset \in 0 .. Len(file)
    /\ batch \subseteq Event
    /\ event_index \in [Event -> Nat]
    /\ failures \in Nat

Reading == {"insert", "offset"}

\* What was read ends with a line, and every whole line up to there is indexed
\* or about to be.
ReadIsWhole ==
    tick \in Reading =>
        /\ newOffset > 0 /\ file[newOffset].part = "tail"
        /\ \A i \in WholeLines(0) : i <= newOffset =>
              \/ event_index[file[i].event] > 0
              \/ tick = "insert" /\ file[i].event \in batch

TailInv ==
    LogTypeOK /\ ReaderOK /\ OffsetAtLineStart /\ NothingSkipped /\ ReadIsWhole

-----------------------------------------------------------------------------
(* The file only grows, and its lines stay. *)

LEMMA FileExtends ==
    ASSUME LogTypeOK, [LogNext]_logVars
    PROVE  /\ Len(file) \in Nat /\ Len(file') \in Nat
           /\ Len(file) <= Len(file')
           /\ \A i \in 1 .. Len(file) : file'[i] = file[i]
<1>1. file' = file \/ \E w \in Writer : \E p \in {"head", "tail"} :
          writer[w] # "idle" /\ file' = Append(file, Piece(event[w], p))
  BY DEF LogNext, logVars, AppendEvent, TryCreate, Stat, UnlinkStale, GiveUp,
     WriteHead, WriteTail, WriteFails, ReleaseLock, Crash, LockAges, Go
<1>2. CASE file' = file
  BY <1>2, LenProperties DEF LogTypeOK
<1>3. CASE file' # file
  <2>1. PICK w \in Writer, p \in {"head", "tail"} :
           writer[w] # "idle" /\ file' = Append(file, Piece(event[w], p))
    BY <1>1, <1>3
  <2>2. Piece(event[w], p) \in [event : Event, part : {"head", "tail"}]
    BY <2>1 DEF LogTypeOK, Piece
  <2> QED
    BY <2>1, <2>2, AppendProperties, LenProperties DEF LogTypeOK
<1> QED BY <1>2, <1>3

\* A line is a whole one of the longer file if and only if it was before.
LEMMA LinesStay ==
    ASSUME LogTypeOK, [LogNext]_logVars, NEW i \in 1 .. Len(file)
    PROVE  i \in WholeLines(0)' <=> i \in WholeLines(0)
  BY FileExtends DEF WholeLines, LineEnds, LogTypeOK

LEMMA LinesAreEvents ==
    ASSUME LogTypeOK, NEW n \in Nat, NEW i \in WholeLines(n)
    PROVE  /\ i \in 1 .. Len(file) /\ file[i].event \in Event
           /\ file[i].part = "tail" /\ i > n
<1>1. Len(file) \in Nat
  BY LenProperties DEF LogTypeOK
<1>2. i \in 1 .. Len(file) /\ file[i].part = "tail" /\ i > n
  BY <1>1 DEF WholeLines, LineEnds
<1>3. file[i] \in [event : Event, part : {"head", "tail"}]
  BY <1>2, ElementOfSeq DEF LogTypeOK
<1> QED BY <1>2, <1>3

\* A reader that starts at the end of a line sees the whole lines behind it.
LEMMA ReadsWholeLines ==
    ASSUME LogTypeOK, NEW n \in 0 .. Len(file), n > 0 => file[n].part = "tail",
           NEW i \in Nat
    PROVE  i \in WholeLines(n) <=> i \in WholeLines(0) /\ i > n
<1>1. Len(file) \in Nat
  BY LenProperties DEF LogTypeOK
<1>2. ASSUME i \in WholeLines(0), i > n PROVE i \in WholeLines(n)
  <2>1. i - 1 # n
    BY <1>1, <1>2 DEF WholeLines, LineEnds, Piece
  <2> QED
    BY <1>1, <1>2, <2>1 DEF WholeLines, LineEnds
<1>3. ASSUME i \in WholeLines(n) PROVE i \in WholeLines(0) /\ i > n
  <2>1. i - 2 > 0 => file[i - 2].part = "tail"
    <3>1. i - 1 > n
      BY <1>3 DEF WholeLines
    <3>2. CASE i - 2 = n
      BY <3>2, <1>1
    <3>3. CASE i - 2 > n
      BY <3>3, <1>3 DEF WholeLines
    <3> QED BY <1>1, <3>1, <3>2, <3>3
  <2> QED
    BY <1>1, <1>3, <2>1 DEF WholeLines, LineEnds
<1> QED BY <1>2, <1>3

-----------------------------------------------------------------------------
(* Most steps leave the index and the offset alone and at most forget what *)
(* was read.                                                               *)

Quiet ==
    /\ UNCHANGED <<logVars, offset, event_index>>
    /\ <<batch', newOffset'>> \in {<<batch, newOffset>>, <<{}, 0>>}
    /\ tick' \in Reading => tick' = tick /\ UNCHANGED <<readVars, txn>>
    /\ \/ failures' = failures /\ (tick \in Reading => tick' = tick \/ behind)
       \/ failures' = failures + 1

LEMMA NextCases ==
    ASSUME [Next]_vars, failures \in Nat
    PROVE  \/ LogNext /\ UNCHANGED <<docVars, engineVars, failures>>
           \/ ReadEvents /\ UNCHANGED <<logVars, failures>>
           \/ InsertBatch /\ UNCHANGED <<logVars, failures>>
           \/ SetOffset /\ UNCHANGED <<logVars, failures>>
           \/ Quiet
<1> USE DEF Quiet, readVars, Reading
<1>1. CASE LogNext /\ UNCHANGED <<docVars, engineVars, failures>>
  BY <1>1
<1>2. CASE TickStep /\ UNCHANGED <<logVars, docVars, failures>>
  <2>1. CASE TickBegin \/ TickWithoutLog
    BY <1>2, <2>1 DEF TickBegin, TickWithoutLog, Enter
  <2>2. CASE EndLoop
    BY <1>2, <2>2 DEF EndLoop
  <2>3. CASE ReadEvents \/ InsertBatch \/ SetOffset
    BY <1>2, <2>3
  <2>4. ASSUME NEW d \in Doc,
               FixView(d) \/ SkipRow(d) \/ UpsertRow(d) \/ RowRaises(d)
        PROVE  Quiet
    BY <1>2, <2>4
    DEF FixView, SkipRow, UpsertRow, RowRaises, Differs, At, Source
  <2>5. CASE CommitSource
    BY <1>2, <2>5 DEF CommitSource, NextSource, Enter, Source
  <2>6. CASE WriteRefused
    BY <1>2, <2>6 DEF WriteRefused, Refused
  <2> QED BY <1>2, <2>1, <2>2, <2>3, <2>4, <2>5, <2>6 DEF TickStep
<1>3. CASE (WriteLocked \/ Restart) /\ UNCHANGED <<logVars, docVars>>
  BY <1>3 DEF WriteLocked, Refused, Restart
<1>4. CASE Stop /\ UNCHANGED <<logVars, docVars, failures>>
  BY <1>4 DEF Stop, rowVars
<1>5. CASE (\E d \in Doc : Edit(d)) /\ UNCHANGED <<logVars, engineVars, failures>>
  BY <1>5 DEF engineVars, rowVars
<1>6. CASE /\ OthersCommit
           /\ UNCHANGED <<logVars, docVars, tick, readVars, todo, event_index,
                          offset, shutdown, failures>>
  BY <1>6 DEF OthersCommit
<1>7. CASE UNCHANGED vars
  BY <1>7 DEF vars, engineVars, rowVars
<1> QED BY <1>1, <1>2, <1>3, <1>4, <1>5, <1>6, <1>7 DEF Next

-----------------------------------------------------------------------------
LEMMA TailStart == Init => TailInv
<1> SUFFICES ASSUME Init PROVE TailInv
  OBVIOUS
<1>1. LogTypeOK
  BY LogTypeStart DEF Init
<1>2. file = <<>> /\ Len(file) = 0
  BY DEF Init, LogInit
<1> QED
  BY <1>1, <1>2 DEF Init, TailInv, ReaderOK, OffsetAtLineStart, NothingSkipped,
     ReadIsWhole, Reading, WholeLines, LineEnds

\* Appending a piece leaves what was read and what was saved as they were.
LEMMA TailOfLogStep ==
    ASSUME TailInv, [LogNext]_logVars, UNCHANGED <<engineVars, failures>>
    PROVE  TailInv'
<1> USE DEF TailInv, engineVars, readVars
<1>1. LogTypeOK'
  BY LogTypeStep
<1>2. ReaderOK' /\ OffsetAtLineStart'
  BY FileExtends DEF ReaderOK, OffsetAtLineStart
<1>3. ASSUME NEW n \in 0 .. Len(file), NEW i \in WholeLines(0)', i <= n
      PROVE  i \in WholeLines(0) /\ file'[i] = file[i]
  <2>1. i \in 1 .. Len(file)
    BY <1>1, <1>3, FileExtends DEF WholeLines, LineEnds
  <2> QED
    BY <1>3, <2>1, LinesStay, FileExtends
<1>4. NothingSkipped'
  BY <1>3 DEF NothingSkipped, ReaderOK
<1>5. ReadIsWhole'
  BY <1>3, FileExtends DEF ReadIsWhole, ReaderOK
<1> QED BY <1>1, <1>2, <1>4, <1>5

LEMMA TailOfRead ==
    ASSUME TailInv, ReadEvents, UNCHANGED <<logVars, failures>>
    PROVE  TailInv'
<1> USE DEF TailInv
<1>0. Len(file) \in Nat /\ UNCHANGED <<file, offset, event_index>>
  BY LenProperties DEF LogTypeOK, ReadEvents, Read, logVars
<1>1. LogTypeOK'
  BY DEF LogTypeOK, logVars
<1>2. PICK end \in 0 .. Len(file) : IsLastLineEnd(end) /\ Read(end)
  BY DEF ReadEvents
<1>3. Start = offset
  BY <1>0 DEF Start, ReaderOK
<1>4. ASSUME NEW i \in WholeLines(0)
      PROVE  i \in 1 .. Len(file) /\ file[i].event \in Event /\ i <= end
  <2>1. i \in 1 .. Len(file) /\ file[i].event \in Event /\ file[i].part = "tail"
    BY LinesAreEvents
  <2>2. ~ i > end
    BY <1>0, <1>2, <2>1 DEF IsLastLineEnd, LineEnds
  <2> QED BY <1>0, <2>1, <2>2
<1>5. EventsFrom(offset) \subseteq Event
  BY LinesAreEvents, <1>0 DEF EventsFrom, ReaderOK
<1>6. NothingSkipped' /\ OffsetAtLineStart'
  BY <1>0 DEF NothingSkipped, OffsetAtLineStart, WholeLines, LineEnds
<1>7. CASE end = offset
  <2>1. tick' \notin Reading /\ UNCHANGED readVars
    BY <1>2, <1>3, <1>7 DEF Read, Enter, Reading
  <2> QED
    BY <1>0, <1>1, <1>6, <2>1 DEF ReaderOK, ReadIsWhole, readVars
<1>8. CASE end # offset
  <2>1. /\ tick' = (IF EventsFrom(offset) # {} THEN "insert" ELSE "offset")
        /\ batch' = EventsFrom(offset) /\ newOffset' = end
    BY <1>2, <1>3, <1>8 DEF Read
  <2>2. end > offset /\ file[end].part = "tail"
    BY <1>0, <1>2, <1>3, <1>8 DEF IsLastLineEnd, LineEnds, ReaderOK
  <2>3. ReaderOK'
    BY <1>0, <1>5, <2>1 DEF ReaderOK
  <2>4. ASSUME NEW i \in WholeLines(0)
        PROVE  event_index[file[i].event] > 0 \/ file[i].event \in batch'
    <3>1. CASE i <= offset
      BY <3>1 DEF NothingSkipped
    <3>2. CASE i > offset
      <4>1. i \in WholeLines(offset)
        BY <1>4, <3>2, ReadsWholeLines DEF ReaderOK, OffsetAtLineStart
      <4> QED BY <2>1, <4>1 DEF EventsFrom
    <3> QED BY <1>0, <1>4, <3>1, <3>2 DEF ReaderOK
  <2>5. ReadIsWhole'
    BY <1>0, <2>1, <2>2, <2>4
    DEF ReadIsWhole, Reading, WholeLines, LineEnds, ReaderOK
  <2> QED BY <1>1, <1>6, <2>3, <2>5
<1> QED BY <1>7, <1>8

LEMMA TailOfInsert ==
    ASSUME TailInv, InsertBatch, UNCHANGED <<logVars, failures>>
    PROVE  TailInv'
<1> USE DEF TailInv
<1>1. /\ UNCHANGED <<file, offset, newOffset, batch, failures>>
      /\ tick = "insert" /\ tick' = "offset"
      /\ event_index' =
            [e \in Event |-> event_index[e] + IF e \in batch THEN 1 ELSE 0]
  BY DEF InsertBatch, readVars, logVars
<1>2. LogTypeOK'
  BY DEF LogTypeOK, logVars
<1>3. ReaderOK'
  BY <1>1 DEF ReaderOK
<1>4. \A e \in Event : /\ event_index[e] > 0 => event_index'[e] > 0
                       /\ e \in batch => event_index'[e] > 0
  BY <1>1 DEF ReaderOK
<1>5. \A i \in WholeLines(0) : file[i].event \in Event
  BY LinesAreEvents
<1>6. WholeLines(0)' = WholeLines(0)
  BY <1>1 DEF WholeLines, LineEnds
<1>7. NothingSkipped' /\ OffsetAtLineStart'
  BY <1>1, <1>4, <1>5, <1>6 DEF NothingSkipped, OffsetAtLineStart
<1>8. ReadIsWhole'
  BY <1>1, <1>4, <1>5, <1>6 DEF ReadIsWhole, Reading
<1> QED BY <1>2, <1>3, <1>7, <1>8

LEMMA TailOfSave ==
    ASSUME TailInv, SetOffset, UNCHANGED <<logVars, failures>>
    PROVE  TailInv'
<1> USE DEF TailInv
<1>1. /\ UNCHANGED <<file, event_index, failures>>
      /\ offset' = newOffset /\ batch' = {} /\ newOffset' = 0
      /\ tick = "offset" /\ tick' \notin Reading
  BY DEF SetOffset, Enter, logVars, Reading
<1>2. LogTypeOK'
  BY DEF LogTypeOK, logVars
<1>3. ReaderOK'
  BY <1>1, LenProperties DEF ReaderOK, LogTypeOK
<1>4. NothingSkipped' /\ OffsetAtLineStart' /\ ReadIsWhole'
  BY <1>1 DEF NothingSkipped, OffsetAtLineStart, ReadIsWhole, Reading,
     WholeLines, LineEnds
<1> QED BY <1>2, <1>3, <1>4

LEMMA TailOfQuiet ==
    ASSUME TailInv, Quiet
    PROVE  TailInv'
<1> USE DEF TailInv
<1>1. LogTypeOK'
  BY DEF LogTypeOK, logVars, Quiet
<1>2. UNCHANGED file /\ Len(file) \in Nat
  BY LenProperties DEF Quiet, logVars, LogTypeOK
<1>3. ReaderOK'
  BY <1>2 DEF ReaderOK, Quiet
<1>4. NothingSkipped' /\ OffsetAtLineStart'
  BY <1>2 DEF Quiet, NothingSkipped, OffsetAtLineStart, WholeLines, LineEnds
<1>5. ReadIsWhole'
  BY <1>2 DEF Quiet, ReadIsWhole, readVars, WholeLines, LineEnds
<1> QED BY <1>1, <1>3, <1>4, <1>5

LEMMA TailStep ==
    ASSUME TailInv, [Next]_vars
    PROVE  TailInv'
  BY NextCases, TailOfLogStep, TailOfRead, TailOfInsert, TailOfSave, TailOfQuiet
  DEF TailInv, ReaderOK

\* A whole line below the saved offset is indexed, whatever fails between the
\* two commits.
THEOREM NoLineSkipped == Spec => []NothingSkipped
<1>1. TailInv /\ [Next]_vars => TailInv'
  BY TailStep
<1>2. TailInv => NothingSkipped
  BY DEF TailInv
<1> QED BY TailStart, <1>1, <1>2, PTL DEF Spec

\* The saved offset lies between two lines.
THEOREM OffsetBetweenLines == Spec => []OffsetAtLineStart
<1>1. TailInv /\ [Next]_vars => TailInv'
  BY TailStep
<1>2. TailInv => OffsetAtLineStart
  BY DEF TailInv
<1> QED BY TailStart, <1>1, <1>2, PTL DEF Spec

-----------------------------------------------------------------------------
(* The rows and the thread. *)

\* The transaction has the write lock whenever the thread sees rows that others
\* do not, and then no commit can be missing from what it sees.
EngineOK ==
    /\ content \in [Doc -> 0 .. MaxVersion] /\ bad \subseteq Doc
    /\ tick \in Source \cup {"wait", "read", "insert", "offset", "ended"}
    /\ todo \subseteq Doc
    /\ table \in [Doc -> 0 .. MaxVersion] /\ view \in [Doc -> 0 .. MaxVersion]
    /\ txn \in Transaction /\ (view # table => txn = "writing")
    /\ behind \in BOOLEAN /\ (behind => txn = "reading")
    /\ shutdown \in BOOLEAN /\ failures \in 0 .. MaxFailures

LEMMA EngineStep ==
    ASSUME EngineOK, [Next]_vars
    PROVE  EngineOK'
<1> USE IngestionAssumption
    DEF EngineOK, docVars, engineVars, readVars, rowVars, Enter, Docs, Source,
        Transaction, Selected, Begun
<1>0. ASSUME Commit \/ Rollback
      PROVE  /\ table' \in [Doc -> 0 .. MaxVersion] /\ view' = table'
             /\ txn' = "none" /\ behind' = FALSE
  BY <1>0 DEF Commit, Rollback
<1>1. CASE LogNext /\ UNCHANGED <<docVars, engineVars, failures>>
  BY <1>1
<1>2. CASE TickStep /\ UNCHANGED <<logVars, docVars, failures>>
  <2>1. CASE TickBegin
    BY <1>2, <2>1 DEF TickBegin
  <2>2. CASE TickWithoutLog
    BY <1>2, <2>2 DEF TickWithoutLog
  <2>3. CASE EndLoop
    BY <1>0, <1>2, <2>3 DEF EndLoop
  <2>4. CASE ReadEvents
    BY <1>2, <2>4 DEF ReadEvents, Read
  <2>5. CASE InsertBatch
    BY <1>0, <1>2, <2>5 DEF InsertBatch
  <2>6. CASE SetOffset
    BY <1>0, <1>2, <2>6 DEF SetOffset
  <2>7. ASSUME NEW d \in Doc, FixView(d) PROVE EngineOK'
    BY <1>2, <2>7 DEF FixView
  <2>8. ASSUME NEW d \in Doc, SkipRow(d) PROVE EngineOK'
    BY <1>2, <2>8 DEF SkipRow
  <2>9. ASSUME NEW d \in Doc, UpsertRow(d) PROVE EngineOK'
    BY <1>2, <2>9 DEF UpsertRow, Differs, At
  <2>10. ASSUME NEW d \in Doc, RowRaises(d) PROVE EngineOK'
    BY <1>2, <2>10 DEF RowRaises
  <2>11. CASE CommitSource
    <3>1. tick' \in Source \cup {"wait"} /\ todo' \subseteq Doc
      BY <2>11 DEF CommitSource, NextSource
    <3>2. CASE Commit
      BY <1>0, <1>2, <2>11, <3>1, <3>2 DEF CommitSource
    <3>3. CASE UNCHANGED rowVars
      BY <1>2, <2>11, <3>1, <3>3 DEF CommitSource
    <3> QED BY <2>11, <3>2, <3>3 DEF CommitSource
  <2>12. CASE WriteRefused
    BY <1>2, <2>12 DEF WriteRefused, Refused
  <2> QED
    BY <1>2, <2>1, <2>2, <2>3, <2>4, <2>5, <2>6, <2>7, <2>8, <2>9, <2>10, <2>11,
       <2>12
    DEF TickStep
<1>3. CASE WriteLocked /\ UNCHANGED <<logVars, docVars>>
  BY <1>3 DEF WriteLocked, Refused
<1>4. CASE Restart /\ UNCHANGED <<logVars, docVars>>
  <2>1. failures' \in 0 .. MaxFailures
    BY <1>4 DEF Restart
  <2> QED BY <1>0, <1>4, <2>1 DEF Restart
<1>5. CASE Stop /\ UNCHANGED <<logVars, docVars, failures>>
  BY <1>5 DEF Stop
<1>6. ASSUME NEW d \in Doc, Edit(d), UNCHANGED <<logVars, engineVars, failures>>
      PROVE  EngineOK'
  <2>1. content' \in [Doc -> 0 .. MaxVersion] /\ bad' \subseteq Doc
    <3>1. content[d] + 1 \in 0 .. MaxVersion
      BY <1>6 DEF Edit
    <3> QED BY <1>6, <3>1 DEF Edit
  <2> QED BY <1>6, <2>1
<1>7. CASE /\ OthersCommit
           /\ UNCHANGED <<logVars, docVars, tick, readVars, todo, event_index,
                          offset, shutdown, failures>>
  BY <1>7 DEF OthersCommit
<1>8. CASE UNCHANGED vars
  BY <1>8 DEF vars
<1> QED BY <1>1, <1>2, <1>3, <1>4, <1>5, <1>6, <1>7, <1>8 DEF Next

LEMMA EngineStart == Init => EngineOK
<1>1. 0 \in 0 .. MaxVersion /\ 0 \in 0 .. MaxFailures
  BY IngestionAssumption
<1>2. Init => [d \in Doc |-> 0] \in [Doc -> 0 .. MaxVersion]
  BY <1>1
<1> QED BY <1>1, <1>2 DEF Init, EngineOK, Source, Transaction

\* Every variable keeps its shape, what is read lies within the file, and the
\* transaction has the write lock whenever a failed tick left rows that are not
\* committed.
THEOREM EngineTypeCorrect == Spec => []TypeOK
<1>1. Init => EngineOK
  BY EngineStart
<1>2. EngineOK /\ [Next]_vars => EngineOK'
  BY EngineStep
<1>3. TailInv /\ [Next]_vars => TailInv'
  BY TailStep
<1>4. TailInv /\ EngineOK => TypeOK
  BY DEF TailInv, ReaderOK, EngineOK, TypeOK
<1> QED BY TailStart, <1>1, <1>2, <1>3, <1>4, PTL DEF Spec

-----------------------------------------------------------------------------
(* An event has one line at most: it is in the hands of one writer, which  *)
(* writes its tail once.                                                   *)

OneTail ==
    /\ \A v, w \in Writer : event[v] = event[w] /\ event[v] # NULL => v = w
    /\ \A w \in Writer : event[w] \notin unused
    /\ \A i \in 1 .. Len(file) : file[i].event \notin unused
    /\ \A w \in Writer : \A i \in 1 .. Len(file) :
          writer[w] \notin {"idle", "release"} /\ file[i].event = event[w] =>
              file[i].part # "tail"
    /\ \A i, j \in 1 .. Len(file) :
          /\ file[i].part = "tail" /\ file[j].part = "tail"
          /\ file[i].event = file[j].event
          => i = j

LEMMA OneTailStart == LogInit => OneTail
  BY EventLogAssumption DEF LogInit, OneTail

\* Steps that leave the file alone.
LEMMA OneTailAside ==
    ASSUME LogTypeOK, OneTail, UNCHANGED file, unused' \subseteq unused,
           \A w \in Writer :
               \/ event'[w] = NULL /\ writer'[w] = "idle"
               \/ /\ event'[w] = event[w]
                  /\ writer'[w] \notin {"idle", "release"} =>
                        writer[w] \notin {"idle", "release"}
               \/ event'[w] \in unused \ unused'
                  /\ \A v \in Writer \ {w} : event'[v] = event[v]
    PROVE  OneTail'
<1>1. NULL \notin unused'
  BY EventLogAssumption DEF LogTypeOK
<1> QED BY <1>1 DEF OneTail, LogTypeOK

LEMMA OneTailStep ==
    ASSUME LogTypeOK, OneTail, [LogNext]_logVars
    PROVE  OneTail'
<1> USE DEF Go, Leave
<1>0. Len(file) \in Nat
  BY LenProperties DEF LogTypeOK
<1>1. ASSUME NEW w \in Writer, NEW e \in Event, AppendEvent(w, e)
      PROVE  OneTail'
  BY <1>1, OneTailAside DEF AppendEvent, LogTypeOK
<1>2. ASSUME NEW w \in Writer,
             TryCreate(w) \/ Stat(w) \/ UnlinkStale(w) \/ WriteFails(w)
      PROVE  OneTail'
  BY <1>2, OneTailAside
  DEF TryCreate, Stat, UnlinkStale, WriteFails, LogTypeOK
<1>3. ASSUME NEW w \in Writer, GiveUp(w) \/ ReleaseLock(w) \/ Crash(w)
      PROVE  OneTail'
  BY <1>3, OneTailAside DEF GiveUp, ReleaseLock, Crash, LogTypeOK
<1>4. ASSUME NEW w \in Writer, NEW p \in {"head", "tail"},
             writer[w] \notin {"idle", "release"},
             file' = Append(file, Piece(event[w], p)), UNCHANGED <<event, unused>>,
             writer' = [writer EXCEPT ![w] = IF p = "head" THEN "tail" ELSE "release"]
      PROVE  OneTail'
  <2>1. /\ Len(file') = Len(file) + 1
        /\ \A i \in 1 .. Len(file) : file'[i] = file[i]
        /\ file'[Len(file) + 1] = Piece(event[w], p)
    <3>1. Piece(event[w], p) \in [event : Event, part : {"head", "tail"}]
      BY <1>4 DEF LogTypeOK, Piece
    <3> QED BY <1>4, <3>1, AppendProperties DEF LogTypeOK
  <2>2. \A i \in 1 .. Len(file') : i \in 1 .. Len(file) \/ i = Len(file) + 1
    BY <1>0, <2>1
  <2>3. Piece(event[w], p).event = event[w] /\ Piece(event[w], p).part = p
    BY DEF Piece
  <2>4. event[w] # NULL
    BY <1>4 DEF LogTypeOK
  <2>5. \A v \in Writer \ {w} : writer'[v] = writer[v] /\ event[v] # event[w]
    BY <1>4, <2>4 DEF LogTypeOK, OneTail
  <2>6. \A i \in 1 .. Len(file') : file'[i].event \notin unused'
    BY <1>4, <2>1, <2>2, <2>3 DEF OneTail
  <2>7. \A v \in Writer : \A i \in 1 .. Len(file') :
           writer'[v] \notin {"idle", "release"} /\ file'[i].event = event'[v] =>
               file'[i].part # "tail"
    <3> SUFFICES ASSUME NEW v \in Writer, NEW i \in 1 .. Len(file'),
                        writer'[v] \notin {"idle", "release"},
                        file'[i].event = event'[v]
                 PROVE  file'[i].part # "tail"
      OBVIOUS
    <3>1. CASE v = w
      <4>1. p = "head"
        BY <1>4, <3>1 DEF LogTypeOK
      <4> QED BY <1>4, <2>1, <2>2, <2>3, <3>1, <4>1 DEF OneTail
    <3>2. CASE v # w
      BY <1>4, <2>1, <2>2, <2>3, <2>5, <3>2 DEF OneTail
    <3> QED BY <3>1, <3>2
  <2>8. \A i, j \in 1 .. Len(file') :
           /\ file'[i].part = "tail" /\ file'[j].part = "tail"
           /\ file'[i].event = file'[j].event
           => i = j
    BY <1>4, <2>1, <2>2, <2>3 DEF OneTail
  <2> QED BY <1>4, <2>6, <2>7, <2>8 DEF OneTail
<1>5. ASSUME NEW w \in Writer, WriteHead(w) PROVE OneTail'
  BY <1>4, <1>5 DEF WriteHead
<1>6. ASSUME NEW w \in Writer, WriteTail(w) PROVE OneTail'
  BY <1>4, <1>6 DEF WriteTail
<1>7. CASE LockAges
  BY <1>7, OneTailAside DEF LockAges
<1>8. CASE UNCHANGED logVars
  BY <1>8, OneTailAside DEF logVars
<1> QED BY <1>1, <1>2, <1>3, <1>5, <1>6, <1>7, <1>8 DEF LogNext

-----------------------------------------------------------------------------
(* A copy more than the failures account for is that of a line which the   *)
(* reader has put behind it.                                               *)

Counted(e) ==
    \E i \in WholeLines(0) :
        /\ file[i].event = e
        /\ i <= offset \/ (tick = "offset" /\ i <= newOffset)

BatchIsNew ==
    /\ tick \in Reading => offset <= newOffset
    /\ tick = "insert" => \A e \in batch : \E i \in WholeLines(0) :
          file[i].event = e /\ i > offset /\ i <= newOffset

CopiesInv ==
    \A e \in Event : event_index[e] <= failures + IF Counted(e) THEN 1 ELSE 0

\* A transaction that is open at the save of the offset has inserted nothing:
\* what was read held no whole line.
NothingInserted ==
    tick = "offset" /\ txn # "none" =>
        \A i \in WholeLines(0) : i <= newOffset => i <= offset

CopyInv ==
    TailInv /\ EngineOK /\ OneTail /\ BatchIsNew /\ NothingInserted /\ CopiesInv

\* What was counted stays so when the index does not change.
LEMMA CopiesKept ==
    ASSUME TailInv, CopiesInv, event_index' = event_index,
           \/ failures' = failures + 1
           \/ failures' = failures /\ \A e \in Event : Counted(e) => Counted(e)'
    PROVE  CopiesInv'
  BY DEF CopiesInv, TailInv, ReaderOK

LEMMA CopyStep ==
    ASSUME CopyInv, [Next]_vars
    PROVE  CopyInv'
<1> USE DEF CopyInv
<1>1. TailInv' /\ EngineOK'
  BY TailStep, EngineStep
<1>2. OneTail'
  <2>1. [LogNext]_logVars
    BY NextCases
    DEF TailInv, ReaderOK, Quiet, InsertBatch, SetOffset, ReadEvents
  <2> QED BY <2>1, OneTailStep DEF TailInv
<1>3. CASE LogNext /\ UNCHANGED <<docVars, engineVars, failures>>
  <2>1. \A i \in WholeLines(0) : i \in WholeLines(0)' /\ file'[i] = file[i]
    BY <1>3, LinesStay, FileExtends, LinesAreEvents DEF TailInv
  <2>2. BatchIsNew'
    BY <1>3, <2>1 DEF BatchIsNew, engineVars, readVars
  <2>3. \A e \in Event : Counted(e) => Counted(e)'
    BY <1>3, <2>1 DEF Counted, engineVars, readVars
  <2>4. NothingInserted'
    <3>1. ASSUME NEW i \in WholeLines(0)', i <= newOffset
          PROVE  i \in WholeLines(0)
      <4>1. i \in 1 .. Len(file)
        BY <1>1, <1>3, <3>1, FileExtends
        DEF TailInv, ReaderOK, WholeLines, LineEnds
      <4> QED BY <1>3, <3>1, <4>1, LinesStay DEF TailInv
    <3> QED BY <1>3, <3>1 DEF NothingInserted, engineVars, readVars, rowVars
  <2> QED
    BY <1>1, <1>2, <1>3, <2>2, <2>3, <2>4, CopiesKept DEF engineVars
<1>4. CASE ReadEvents /\ UNCHANGED <<logVars, failures>>
  <2>0. Len(file) \in Nat /\ Start = offset
    BY LenProperties DEF Start, TailInv, ReaderOK, LogTypeOK
  <2>1. UNCHANGED <<file, offset, event_index>> /\ WholeLines(0)' = WholeLines(0)
    BY <1>4 DEF ReadEvents, Read, logVars, WholeLines, LineEnds
  <2>2. PICK end \in 0 .. Len(file) : IsLastLineEnd(end) /\ Read(end)
    BY <1>4 DEF ReadEvents
  <2>3. BatchIsNew'
    <3>1. CASE end = offset
      BY <2>0, <2>2, <3>1 DEF Read, Enter, BatchIsNew, Reading
    <3>2. CASE end # offset
      <4>1. /\ tick' \in Reading /\ batch' = EventsFrom(offset)
            /\ newOffset' = end
        BY <2>0, <2>2, <3>2 DEF Read, Reading
      <4>2. offset <= end
        BY <2>0, <2>2, <3>2 DEF IsLastLineEnd, LineEnds, TailInv, ReaderOK
      <4>3. ASSUME NEW i \in WholeLines(offset)
            PROVE  i \in WholeLines(0) /\ i > offset /\ i <= end
        <5>1. i \in 1 .. Len(file) /\ file[i].part = "tail" /\ i > offset
          BY <2>0, LinesAreEvents DEF TailInv, ReaderOK
        <5>2. i \in WholeLines(0)
          BY <5>1, ReadsWholeLines DEF TailInv, ReaderOK, OffsetAtLineStart
        <5>3. ~ i > end
          BY <2>0, <2>2, <5>1 DEF IsLastLineEnd, LineEnds
        <5> QED BY <2>0, <5>1, <5>2, <5>3
      <4> QED
        BY <2>1, <4>1, <4>2, <4>3 DEF BatchIsNew, EventsFrom, Reading
    <3> QED BY <3>1, <3>2
  <2>4. tick = "read"
    BY <2>2 DEF Read
  <2>5. \A e \in Event : Counted(e) => Counted(e)'
    BY <2>1, <2>4 DEF Counted
  <2>6. ASSUME tick' = "offset", NEW i \in WholeLines(0)
        PROVE  i <= offset
    <3>1. end # offset
      BY <2>0, <2>2, <2>6 DEF Read, Enter
    <3>2. WholeLines(offset) = {}
      BY <2>0, <2>2, <2>6, <3>1 DEF Read, EventsFrom
    <3>3. i \in Nat /\ offset \in Nat
      BY LinesAreEvents DEF TailInv, ReaderOK
    <3>4. ~ i > offset
      BY <3>2, <3>3, ReadsWholeLines DEF TailInv, ReaderOK, OffsetAtLineStart
    <3> QED BY <3>3, <3>4
  <2>7. NothingInserted'
    BY <2>1, <2>6 DEF NothingInserted
  <2> QED BY <1>1, <1>2, <1>4, <2>1, <2>3, <2>5, <2>7, CopiesKept
<1>5. CASE InsertBatch /\ UNCHANGED <<logVars, failures>>
  <2>1. /\ UNCHANGED <<file, offset, newOffset, batch, failures>>
        /\ tick = "insert" /\ tick' = "offset"
        /\ event_index' =
              [e \in Event |-> event_index[e] + IF e \in batch THEN 1 ELSE 0]
        /\ WholeLines(0)' = WholeLines(0)
    BY <1>5 DEF InsertBatch, readVars, logVars, WholeLines, LineEnds
  <2>2. BatchIsNew'
    BY <2>1 DEF BatchIsNew, Reading
  <2>3. ASSUME NEW e \in batch PROVE ~Counted(e) /\ Counted(e)'
    <3>1. PICK i \in WholeLines(0) :
             file[i].event = e /\ i > offset /\ i <= newOffset
      BY <2>1 DEF BatchIsNew
    <3>2. \A j \in WholeLines(0) : file[j].event = e => j = i
      BY <3>1, LinesAreEvents DEF TailInv, OneTail
    <3>3. i \in Nat /\ offset \in Nat
      BY <3>1, LinesAreEvents DEF TailInv, ReaderOK
    <3>4. ~Counted(e)
      BY <2>1, <3>1, <3>2, <3>3 DEF Counted
    <3>5. Counted(e)'
      BY <2>1, <3>1 DEF Counted
    <3> QED BY <3>4, <3>5
  <2>4. \A e \in Event : Counted(e) => Counted(e)'
    BY <2>1 DEF Counted
  <2>5. CopiesInv'
    BY <2>1, <2>3, <2>4 DEF CopiesInv, TailInv, ReaderOK
  <2>6. NothingInserted'
    BY <1>5 DEF InsertBatch, Commit, NothingInserted
  <2> QED BY <1>1, <1>2, <2>2, <2>5, <2>6
<1>6. CASE SetOffset /\ UNCHANGED <<logVars, failures>>
  <2>1. /\ UNCHANGED <<file, event_index, failures>> /\ tick = "offset"
        /\ tick' \notin Reading /\ offset' = newOffset
        /\ WholeLines(0)' = WholeLines(0)
    BY <1>6 DEF SetOffset, Enter, Reading, logVars, WholeLines, LineEnds
  <2>2. BatchIsNew'
    BY <2>1 DEF BatchIsNew, Reading
  <2>3. offset <= newOffset /\ offset \in Nat /\ newOffset \in Nat
    BY <2>1 DEF BatchIsNew, Reading, TailInv, ReaderOK
  <2>4. \A i \in WholeLines(0) : i \in Nat
    BY LinesAreEvents DEF TailInv
  <2>5. \A e \in Event : Counted(e) => Counted(e)'
    BY <2>1, <2>3, <2>4 DEF Counted
  <2>6. NothingInserted'
    BY <2>1 DEF NothingInserted, Reading
  <2> QED BY <1>1, <1>2, <2>1, <2>2, <2>5, <2>6, CopiesKept
<1>7. CASE Quiet
  <2>1. UNCHANGED <<file, offset, event_index>> /\ WholeLines(0)' = WholeLines(0)
    BY <1>7 DEF Quiet, logVars, WholeLines, LineEnds
  <2>2. BatchIsNew'
    BY <1>7, <2>1 DEF Quiet, BatchIsNew, readVars, Reading
  <2>3. \/ failures' = failures + 1
        \/ failures' = failures /\ \A e \in Event : Counted(e) => Counted(e)'
    <3>1. CASE tick = "offset" /\ behind
      <4>1. \A i \in WholeLines(0) : i <= newOffset => i <= offset
        BY <3>1 DEF NothingInserted, EngineOK
      <4> QED BY <1>7, <2>1, <4>1 DEF Quiet, Counted
    <3>2. CASE ~(tick = "offset" /\ behind)
      BY <1>7, <2>1, <3>2 DEF Quiet, Counted, readVars, Reading
    <3> QED BY <3>1, <3>2
  <2>4. NothingInserted'
    BY <1>7, <2>1 DEF Quiet, NothingInserted, readVars, Reading
  <2> QED BY <1>1, <1>2, <2>1, <2>2, <2>3, <2>4, CopiesKept
<1> QED
  BY <1>3, <1>4, <1>5, <1>6, <1>7, NextCases DEF TailInv, ReaderOK

\* A copy of an event costs a failure between the two commits.
THEOREM CopiesCostFailures == Spec => []CopiesBounded
<1>1. Init => CopyInv
  <2> SUFFICES ASSUME Init PROVE CopyInv
    OBVIOUS
  <2>1. TailInv /\ OneTail
    BY TailStart, OneTailStart DEF Init
  <2>2. BatchIsNew /\ NothingInserted /\ CopiesInv
    BY DEF Init, BatchIsNew, NothingInserted, CopiesInv, Reading
  <2> QED BY <2>1, <2>2, EngineStart DEF CopyInv
<1>2. CopyInv /\ [Next]_vars => CopyInv'
  BY CopyStep
<1>3. CopyInv => CopiesBounded
  BY DEF CopyInv, CopiesInv, CopiesBounded, TailInv, ReaderOK
<1> QED BY <1>1, <1>2, <1>3, PTL DEF Spec

=============================================================================
