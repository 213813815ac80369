-------------------------- MODULE ConfigFiles_proofs --------------------------
(***************************************************************************)
(* Proofs about ConfigFiles, for any number of threads, agents and edits:  *)
(* edits add up while no replace hits an unread content, a client's        *)
(* revision protects what the client did not see, and the audit rows       *)
(* explain the files that they can explain.                                *)
(***************************************************************************)
EXTENDS ConfigFiles, FiniteSetTheorems, SequenceTheorems, TLAPS

USE FilesAssumption

\* The values that an edit of a file may carry: only the toggle flips.
Sent(f) == IF f = Jobs THEN {FLIP} ELSE Value \cup {BAD}

EditsOf(f) == [file: {f}, revision: Revision(f), sets: Updates(f, Sent(f))]

AnyEdit == UNION {EditsOf(f) : f \in File}

Request == Seq(AnyEdit) \ {<<>>}

\* What a thread has checked and computed stays so until it is done: it patches
\* the very content that the client named, to what the client's edit makes of it.
Held(o) ==
  \/ o = Idle
  \/ o = [step |-> "read", edits |-> o.edits] /\ o.edits \in Request
  \/ /\ o = [step |-> o.step, edits |-> o.edits,
             before |-> o.before, after |-> o.after]
     /\ o.step \in {"replace", "audit"}
     /\ o.edits \in Request
     /\ o.before = Head(o.edits).revision
     /\ Valid(Head(o.edits), o.before)
     /\ o.after = Apply(Head(o.edits), o.before)

AnyAuditRow == UNION {AuditRow(f) : f \in File}

FilesInv ==
  /\ DOMAIN file = File
  /\ \A f \in File : file[f] \in Revision(f)
  /\ serial = [f \in File |-> Payload(f, file[f]).fields]
  /\ config_audit \in Seq(AnyAuditRow)
  /\ op = [t \in Thread |-> op[t]]
  /\ \A t \in Thread : Held(op[t])
  /\ untold \subseteq File

-----------------------------------------------------------------------------
(* Edits and contents *)

LEMMA UpdateFacts ==
  ASSUME NEW f, NEW V, NEW s \in Updates(f, V)
  PROVE  /\ DOMAIN s \subseteq FieldsOf(f)
         /\ \A x \in DOMAIN s : s[x] \in V
BY DEF Updates

LEMMA UpdatesGrow ==
  ASSUME NEW f, NEW V, NEW W, V \subseteq W
  PROVE  Updates(f, V) \subseteq Updates(f, W)
<1> SUFFICES ASSUME NEW s \in Updates(f, V) PROVE s \in Updates(f, W)
  OBVIOUS
<1>1. PICK fs \in (SUBSET FieldsOf(f)) \ {{}} : s \in [fs -> V]
  BY DEF Updates
<1>2. s \in [fs -> W]
  BY <1>1
<1> QED BY <1>2 DEF Updates

LEMMA EditFacts ==
  ASSUME NEW e \in AnyEdit
  PROVE  /\ e.file \in File
         /\ e \in EditsOf(e.file)
         /\ e.revision \in Revision(e.file)
         /\ e.sets \in Updates(e.file, Sent(e.file))
         /\ DOMAIN e.sets \subseteq FieldsOf(e.file)
         /\ \A x \in DOMAIN e.sets : e.sets[x] \in Sent(e.file)
<1>1. PICK f \in File : e \in EditsOf(f)
  BY DEF AnyEdit
<1>2. /\ e.file = f
      /\ e.revision \in Revision(f)
      /\ e.sets \in Updates(f, Sent(f))
  BY <1>1 DEF EditsOf
<1> QED BY <1>1, <1>2, UpdateFacts

LEMMA EditsAreOK ==
  ASSUME NEW e \in AnyEdit
  PROVE  EditOK(e)
<1>1. Sent(e.file) \subseteq Value \cup {BAD, FLIP}
  BY DEF Sent
<1> QED BY <1>1, EditFacts, UpdatesGrow DEF EditOK

LEMMA PayloadFacts ==
  ASSUME NEW f \in File, NEW c \in Revision(f)
  PROVE  /\ Payload(f, c).fields \in [FieldsOf(f) -> Value \cup {NULL}]
         /\ c # NULL => Payload(f, c) = c
BY DEF Payload, Empty, Revision, Content

\* An edit that validation lets through gives a content of its file, and the
\* fields that its client expects of it.
LEMMA ValidEdits ==
  ASSUME NEW e \in AnyEdit, NEW c \in Revision(e.file), Valid(e, c)
  PROVE  /\ Apply(e, c) \in Content(e.file)
         /\ Apply(e, c) # NULL
         /\ Apply(e, c).fields = Accepted(e, Payload(e.file, c).fields)
<1> DEFINE f   == e.file
           old == Payload(f, c).fields
           new == Apply(e, c).fields
<1>1. f \in File /\ DOMAIN e.sets \subseteq FieldsOf(f)
  BY EditFacts
<1>2. old \in [FieldsOf(f) -> Value \cup {NULL}]
  BY <1>1, PayloadFacts
<1>3. ASSUME NEW x \in DOMAIN e.sets
      PROVE  /\ Patched(old[x], e.sets[x]) \in Value
             /\ e.sets[x] = FLIP => Patched(old[x], e.sets[x]) = 1 - old[x]
  <2>1. e.sets[x] \in Sent(f) /\ e.sets[x] # BAD
    BY EditFacts DEF Valid
  <2>2. CASE f # Jobs
    BY <2>1, <2>2 DEF Sent, Patched
  <2>3. CASE f = Jobs
    <3>1. x \in Job
      BY <1>1, <2>3 DEF FieldsOf, Jobs, OpenClaw
    <3>2. c # NULL /\ c.fields[x] # NULL
      BY <2>3, <3>1 DEF Valid
    <3>3. old = c.fields
      BY <1>1, <3>2, PayloadFacts
    <3>4. old[x] \in Value
      BY <1>1, <1>2, <3>2, <3>3
    <3>5. e.sets[x] = FLIP
      BY <2>1, <2>3 DEF Sent
    <3> QED BY <3>4, <3>5 DEF Patched, Value
  <2> QED BY <2>2, <2>3
<1>4. new = [x \in FieldsOf(f) |-> IF x \in DOMAIN e.sets
                                   THEN Patched(old[x], e.sets[x]) ELSE old[x]]
  BY DEF Apply
<1>5. new \in [FieldsOf(f) -> Value \cup {NULL}]
  <2> HIDE DEF new, old
  <2> QED BY <1>2, <1>3, <1>4
<1>6. Apply(e, c) \in Content(f)
  BY <1>5 DEF Apply, Content
<1>7. new = Accepted(e, old)
  <2>1. ASSUME NEW x \in DOMAIN e.sets
        PROVE  Patched(old[x], e.sets[x]) =
                 IF e.sets[x] = FLIP THEN 1 - old[x] ELSE e.sets[x]
    BY <1>3 DEF Patched
  <2>2. DOMAIN old = FieldsOf(f)
    BY <1>2
  <2> HIDE DEF new, old
  <2> QED BY <1>4, <2>1, <2>2 DEF Accepted
<1> QED BY <1>1, <1>6, <1>7

-----------------------------------------------------------------------------
(* What a thread holds *)

LEMMA RequestFacts ==
  ASSUME NEW es \in Request
  PROVE  Head(es) \in AnyEdit /\ Tail(es) \in Seq(AnyEdit)
BY DEF Request

LEMMA LaterHeld ==
  ASSUME NEW es \in Seq(AnyEdit)
  PROVE  Held(Later(es)) /\ Later(es).step # "audit"
BY DEF Later, Held, Request, Idle

\* A content that is read and patched is the one that the client named.
LEMMA PlannedHeld ==
  ASSUME FilesInv, NEW es \in Request
  PROVE  Held(Planned(es)) /\ Planned(es).step # "audit"
<1> DEFINE e == Head(es)
           c == file[e.file]
<1>1. e \in AnyEdit /\ Tail(es) \in Seq(AnyEdit)
  BY RequestFacts
<1>2. CASE c # e.revision \/ ~Valid(e, c)
  BY <1>2 DEF Planned, Held, Idle
<1>3. CASE c = e.revision /\ Valid(e, c) /\ Apply(e, c) = c
  <2>1. Planned(es) = Later(Tail(es))
    BY <1>3 DEF Planned
  <2> QED BY <1>1, <2>1, LaterHeld
<1>4. CASE c = e.revision /\ Valid(e, c) /\ Apply(e, c) # c
  <2>1. Planned(es) = [step |-> "replace", edits |-> es,
                       before |-> c, after |-> Apply(e, c)]
    BY <1>4 DEF Planned
  <2> QED BY <1>4, <2>1 DEF Held
<1> QED BY <1>2, <1>3, <1>4

LEMMA PatchingFacts ==
  ASSUME NEW o, Held(o), o.step \in {"replace", "audit"}
  PROVE  /\ o = [step |-> o.step, edits |-> o.edits,
                 before |-> o.before, after |-> o.after]
         /\ o.edits \in Request
         /\ Head(o.edits) \in AnyEdit
         /\ Head(o.edits).file \in File
         /\ o.before = Head(o.edits).revision
         /\ o.before \in Revision(Head(o.edits).file)
         /\ o.after \in Content(Head(o.edits).file)
         /\ o.after # NULL
         /\ o.after.fields =
              Accepted(Head(o.edits), Payload(Head(o.edits).file, o.before).fields)
<1>1. /\ o = [step |-> o.step, edits |-> o.edits,
              before |-> o.before, after |-> o.after]
      /\ o.edits \in Request
      /\ o.before = Head(o.edits).revision
      /\ Valid(Head(o.edits), o.before)
      /\ o.after = Apply(Head(o.edits), o.before)
  BY DEF Held, Idle
<1>2. Head(o.edits) \in AnyEdit
  BY <1>1, RequestFacts
<1>3. /\ Head(o.edits).file \in File
      /\ o.before \in Revision(Head(o.edits).file)
  BY <1>1, <1>2, EditFacts
<1> QED BY <1>1, <1>2, <1>3, ValidEdits

LEMMA TypesFromInv == FilesInv => TypeOK
<1> SUFFICES ASSUME FilesInv PROVE TypeOK
  OBVIOUS
<1>1. \A f \in File : serial[f] \in [FieldsOf(f) -> Value \cup {NULL}]
  BY PayloadFacts DEF FilesInv
<1>2. \A i \in DOMAIN config_audit :
         \E f \in File : config_audit[i] \in AuditRow(f)
  BY DEF FilesInv, AnyAuditRow
<1>3. ASSUME NEW t \in Thread
      PROVE  OpOK(op[t])
  <2>0. PICK o : o = op[t] /\ Held(o)
    BY DEF FilesInv
  <2>1. ASSUME o.edits \in Request
        PROVE  o.edits # <<>> /\ \A i \in DOMAIN o.edits : EditOK(o.edits[i])
    BY <2>1, EditsAreOK DEF Request
  <2>2. CASE o.step \in {"replace", "audit"}
    BY <2>0, <2>1, <2>2, PatchingFacts DEF OpOK
  <2>3. CASE o.step \notin {"replace", "audit"}
    <3>1. o = Idle \/ (o.step = "read" /\ o.edits \in Request)
      BY <2>0, <2>3 DEF Held
    <3> QED BY <2>0, <2>1, <3>1 DEF OpOK
  <2> QED BY <2>2, <2>3
<1> QED BY <1>1, <1>2, <1>3 DEF FilesInv, TypeOK

LEMMA SumsFromInv == FilesInv => EditsAddUp
BY DEF FilesInv, EditsAddUp

-----------------------------------------------------------------------------
(* The invariant *)

LEMMA FilesStart == Init => FilesInv
BY DEF Init, FilesInv, Held, Request

\* A step that changes no content and leaves a thread with what it may hold.
LEMMA HeldStep ==
  ASSUME FilesInv, NEW t \in Thread, NEW o, Held(o),
         op' = [op EXCEPT ![t] = o],
         UNCHANGED <<file, serial>>, config_audit' \in Seq(AnyAuditRow),
         untold' \subseteq File
  PROVE  FilesInv'
<1>1. /\ op' = [u \in Thread |-> op'[u]]
      /\ op'[t] = o
      /\ \A u \in Thread \ {t} : op'[u] = op[u]
  BY DEF FilesInv
<1>2. \A u \in Thread : Held(op'[u])
  BY <1>1 DEF FilesInv
<1> QED BY <1>1, <1>2 DEF FilesInv, Held

LEMMA ArrivesStep ==
  ASSUME FilesInv, NEW t \in Thread, NEW es \in Request, Arrives(t, es)
  PROVE  FilesInv'
<1>1. PICK o : o = Planned(es) /\ Held(o)
  BY PlannedHeld
<1> QED BY <1>1, HeldStep DEF Arrives, FilesInv

\* The requests of the three handlers are made of edits.
LEMMA SentEdits ==
  ASSUME NEW f \in File \ {Jobs}, NEW e \in Edit[f]
  PROVE  e \in AnyEdit
<1>1. Sent(f) = Value \cup {BAD}
  BY DEF Sent
<1>2. Edit[f] \subseteq EditsOf(f)
  BY <1>1 DEF EditsOf
<1> QED BY <1>2 DEF AnyEdit

LEMMA ToggleEdit ==
  ASSUME FilesInv, NEW j \in Job
  PROVE  [file |-> Jobs, revision |-> file[Jobs],
          sets |-> [x \in {j} |-> FLIP]] \in AnyEdit
<1>1. [x \in {j} |-> FLIP] \in [{j} -> {FLIP}]
  OBVIOUS
<1>2. {j} \in (SUBSET FieldsOf(Jobs)) \ {{}}
  BY DEF FieldsOf, Jobs, OpenClaw
<1>3. [x \in {j} |-> FLIP] \in Updates(Jobs, Sent(Jobs))
  <2>1. [x \in {j} |-> FLIP] \in Updates(Jobs, {FLIP})
    BY ONLY <1>1, <1>2, Zenon DEF Updates
  <2> QED BY <2>1 DEF Sent
<1>4. Jobs \in File /\ file[Jobs] \in Revision(Jobs)
  BY DEF FilesInv, File
<1> QED BY <1>3, <1>4 DEF AnyEdit, EditsOf

\* Whatever a handler is asked for is a request made of edits.
LEMMA RequestsSent ==
  ASSUME FilesInv, NEW t \in Thread,
         \/ PatchOpenClaw(t) \/ PatchModels(t)
         \/ \E j \in Job : ToggleJob(t, j)
  PROVE  \E es \in Request : Arrives(t, es)
<1>1. CASE PatchOpenClaw(t)
  <2>1. PICK e \in Edit[OpenClaw] : Arrives(t, <<e>>)
    BY <1>1 DEF PatchOpenClaw
  <2>2. OpenClaw \in File \ {Jobs}
    BY DEF File, OpenClaw, Jobs
  <2>3. <<e>> \in Request
    BY <2>2, SentEdits DEF Request
  <2> QED BY <2>1, <2>3
<1>2. CASE PatchModels(t)
  <2>1. PICK S : S = UNION {Edit[f] : f \in {Dashboard} \cup Agent}
    OBVIOUS
  <2>0. PICK n \in 1 .. MaxEdits : \E es \in [1 .. n -> S] : Arrives(t, es)
    BY <1>2, <2>1 DEF PatchModels
  <2>2. PICK es \in [1 .. n -> S] : Arrives(t, es)
    BY <2>0
  <2>3. {Dashboard} \cup Agent \subseteq File \ {Jobs}
    BY DEF File, Dashboard, Jobs
  <2>4. S \subseteq AnyEdit
    BY <2>1, <2>3, SentEdits
  <2>5. es \in Seq(AnyEdit)
    <3>1. n \in Nat
      BY <2>0, FilesAssumption
    <3>2. es \in [1 .. n -> AnyEdit]
      BY <2>2, <2>4
    <3> QED BY <3>1, <3>2
  <2>6. es # <<>>
    BY <2>0, <2>2, FilesAssumption
  <2>7. es \in Request
    BY <2>5, <2>6 DEF Request
  <2> QED BY <2>2, <2>7
<1>3. ASSUME NEW j \in Job, ToggleJob(t, j)
      PROVE  \E es \in Request : Arrives(t, es)
  <2>1. PICK e \in AnyEdit : Arrives(t, <<e>>)
    BY <1>3, ToggleEdit DEF ToggleJob
  <2>2. <<e>> \in Request
    BY <2>1 DEF Request
  <2> QED BY <2>1, <2>2
<1> QED BY <1>1, <1>2, <1>3

\* Replacing what was read is one step of the edit; otherwise the fields start
\* again at what the replace leaves.
LEMMA ReplaceStep ==
  ASSUME FilesInv, NEW t \in Thread, Replace(t)
  PROVE  FilesInv'
<1>1. PICK o : o = op[t] /\ Held(o) /\ o.step = "replace"
  BY DEF FilesInv, Replace
<1>2. PICK f : f = Head(o.edits).file
  OBVIOUS
<1>3. /\ f \in File
      /\ o.after \in Content(f) /\ o.after # NULL
      /\ o.after.fields = Accepted(Head(o.edits), Payload(f, o.before).fields)
  BY <1>1, <1>2, PatchingFacts
<1>4. file' = [file EXCEPT ![f] = o.after]
  BY <1>1, <1>2 DEF Replace
<1>5. serial' = [serial EXCEPT ![f] = o.after.fields]
  <2>1. CASE Stale(t)
    BY <1>1, <1>2, <2>1 DEF Replace
  <2>2. CASE ~Stale(t)
    <3>1. file[f] = o.before
      BY <1>1, <1>2, <2>2 DEF Stale
    <3>2. serial[f] = Payload(f, o.before).fields
      BY <1>3, <3>1 DEF FilesInv
    <3>3. serial' = [serial EXCEPT ![f] = Accepted(Head(o.edits), serial[f])]
      BY <1>1, <1>2, <2>2 DEF Replace
    <3> QED BY <1>3, <3>2, <3>3
  <2> QED BY <2>1, <2>2
<1>6. PICK n : /\ n = IF f = Jobs THEN Idle ELSE [o EXCEPT !.step = "audit"]
               /\ op' = [op EXCEPT ![t] = n]
  BY <1>1, <1>2 DEF Replace
<1>7. Held(n)
  <2>1. CASE f = Jobs
    BY <1>6, <2>1 DEF Held
  <2>2. CASE f # Jobs
    <3>1. n = [step |-> "audit", edits |-> o.edits,
               before |-> o.before, after |-> o.after]
      BY <1>1, <1>6, <2>2, PatchingFacts
    <3> QED BY <1>1, <3>1 DEF Held, Idle
  <2> QED BY <2>1, <2>2
<1>8. /\ DOMAIN file' = File
      /\ \A g \in File : file'[g] \in Revision(g)
  BY <1>3, <1>4 DEF FilesInv, Revision
<1>9. serial' = [g \in File |-> Payload(g, file'[g]).fields]
  <2>1. Payload(f, o.after) = o.after
    BY <1>3 DEF Payload
  <2>2. \A g \in File : serial'[g] = Payload(g, file'[g]).fields
    BY <1>3, <1>4, <1>5, <2>1 DEF FilesInv
  <2>3. serial' = [g \in File |-> serial'[g]]
    BY <1>5 DEF FilesInv
  <2> QED BY <2>2, <2>3
<1>10. /\ op' = [u \in Thread |-> op'[u]]
       /\ \A u \in Thread : Held(op'[u])
  BY <1>6, <1>7 DEF FilesInv
<1>11. untold' \subseteq File
  BY <1>1, <1>2, <1>3 DEF Replace, FilesInv
<1>12. config_audit' \in Seq(AnyAuditRow)
  BY DEF Replace, FilesInv
<1> QED BY <1>8, <1>9, <1>10, <1>11, <1>12 DEF FilesInv, Held, Payload, Empty

LEMMA AuditStep ==
  ASSUME FilesInv, NEW t \in Thread, Audit(t)
  PROVE  FilesInv'
<1>1. PICK o : o = op[t] /\ Held(o) /\ o.step = "audit"
  BY DEF FilesInv, Audit
<1>2. /\ o.edits \in Request
      /\ Head(o.edits).file \in File
      /\ o.before \in Revision(Head(o.edits).file)
      /\ o.after \in Content(Head(o.edits).file)
  BY <1>1, PatchingFacts
<1>3. Row(t) \in AnyAuditRow
  BY <1>1, <1>2 DEF Row, AnyAuditRow, AuditRow
<1>4. config_audit' \in Seq(AnyAuditRow)
  BY <1>3, AppendProperties DEF Audit, FilesInv
<1>5. PICK n : /\ n = Later(Tail(o.edits)) /\ Held(n)
               /\ op' = [op EXCEPT ![t] = n]
  BY <1>1, <1>2, RequestFacts, LaterHeld DEF Audit
<1> QED BY <1>4, <1>5, HeldStep DEF Audit, FilesInv

LEMMA CrashStep ==
  ASSUME FilesInv, Crash
  PROVE  FilesInv'
<1>1. ASSUME NEW t \in Thread, op[t].step = "audit"
      PROVE  Head(op[t].edits).file \in File
  <2>1. PICK o : o = op[t] /\ Held(o) /\ o.step = "audit"
    BY <1>1 DEF FilesInv
  <2> QED BY <2>1, PatchingFacts
<1>2. untold' \subseteq File
  BY <1>1 DEF Crash, FilesInv
<1>3. \A t \in Thread : Held(op'[t])
  BY DEF Crash, Held
<1>4. op' = [t \in Thread |-> op'[t]]
  BY DEF Crash
<1> QED BY <1>2, <1>3, <1>4 DEF Crash, FilesInv, Held

LEMMA RuntimeStep ==
  ASSUME FilesInv, NEW f \in File, RuntimeWrites(f)
  PROVE  FilesInv'
<1>1. PICK c \in Written[f] : /\ file' = [file EXCEPT ![f] = c]
                              /\ serial' = [serial EXCEPT ![f] = c.fields]
  BY DEF RuntimeWrites
<1>2. c \in Content(f) /\ c # NULL
  BY <1>1 DEF RuntimeWrites
<1>3. /\ DOMAIN file' = File
      /\ \A g \in File : file'[g] \in Revision(g)
  BY <1>1, <1>2 DEF FilesInv, Revision
<1>4. serial' = [g \in File |-> Payload(g, file'[g]).fields]
  <2>1. Payload(f, c) = c
    BY <1>2 DEF Payload
  <2>2. \A g \in File : serial'[g] = Payload(g, file'[g]).fields
    BY <1>1, <2>1 DEF FilesInv
  <2>3. serial' = [g \in File |-> serial'[g]]
    BY <1>1 DEF FilesInv
  <2> QED BY <2>2, <2>3
<1> QED BY <1>3, <1>4 DEF RuntimeWrites, FilesInv, Held, Payload, Empty

LEMMA FilesStep == FilesInv /\ [Next]_vars => FilesInv'
<1> SUFFICES ASSUME FilesInv, [Next]_vars PROVE FilesInv'
  OBVIOUS
<1>1. ASSUME NEW t \in Thread, NEW es \in Request, Arrives(t, es)
      PROVE  FilesInv'
  BY <1>1, ArrivesStep
<1>2. ASSUME NEW t \in Thread, ReadNext(t)
      PROVE  FilesInv'
  <2>1. op[t].edits \in Request
    <3>1. PICK o : o = op[t] /\ Held(o) /\ o.step = "read"
      BY <1>2 DEF FilesInv, ReadNext
    <3> QED BY <3>1 DEF Held, Idle
  <2>2. PICK o : o = Planned(op[t].edits) /\ Held(o)
    BY <2>1, PlannedHeld
  <2> QED BY <1>2, <2>2, HeldStep DEF ReadNext, FilesInv
<1>3. ASSUME NEW t \in Thread, Replace(t) PROVE FilesInv'
  BY <1>3, ReplaceStep
<1>4. ASSUME NEW t \in Thread, ReplaceFails(t) PROVE FilesInv'
  <2>1. Held(Idle)
    BY DEF Held
  <2> QED BY <1>4, <2>1, HeldStep DEF ReplaceFails, FilesInv
<1>5. ASSUME NEW t \in Thread, Audit(t) PROVE FilesInv'
  BY <1>5, AuditStep
<1>6. ASSUME NEW t \in Thread, AuditFails(t) PROVE FilesInv'
  <2>1. Held(Idle)
    BY DEF Held
  <2>2. PICK o : o = op[t] /\ Held(o) /\ o.step = "audit"
    BY <1>6 DEF FilesInv, AuditFails
  <2>3. untold' \subseteq File
    BY <1>6, <2>2, PatchingFacts DEF AuditFails, FilesInv
  <2> QED BY <1>6, <2>1, <2>3, HeldStep DEF AuditFails, FilesInv
<1>7. CASE Crash
  BY <1>7, CrashStep
<1>8. ASSUME NEW f \in File, RuntimeWrites(f) PROVE FilesInv'
  BY <1>8, RuntimeStep
<1>9. CASE UNCHANGED vars
  BY <1>9 DEF vars, FilesInv, Held, Payload, Empty
<1> QED
  BY <1>1, <1>2, <1>3, <1>4, <1>5, <1>6, <1>7, <1>8, <1>9, RequestsSent
  DEF Next, RequestStep

LEMMA FilesInvariant == Spec => []FilesInv
<1>1. Init => FilesInv
  BY FilesStart
<1>2. FilesInv /\ [Next]_vars => FilesInv'
  BY FilesStep
<1> QED BY <1>1, <1>2, PTL DEF Spec

\* Files, their fields, the audit rows and what the threads hold keep their
\* types: an edit that validation let through leaves values that the file can
\* have, whatever the file had become by then (config.py:352-403, cron.py:60-82).
THEOREM FilesTypeCorrect == Spec => []TypeOK
<1>1. FilesInv => TypeOK
  BY TypesFromInv
<1> QED BY <1>1, FilesInvariant, PTL

\* Unless a replace hits a content that its handler had not read, every file is
\* what the accepted edits and toggles make of it one after the other, for any
\* number of threads that read and replace in any order (config.py:386-405,
\* cron.py:66-82).
THEOREM EditsCompose == Spec => []EditsAddUp
<1>1. FilesInv => EditsAddUp
  BY SumsFromInv
<1> QED BY <1>1, FilesInvariant, PTL

-----------------------------------------------------------------------------
(* The audit trail: the rows and the rows still to be inserted are counted. *)

Rows(f, field, c) ==
  {i \in DOMAIN config_audit :
     config_audit[i].path = f /\ config_audit[i][field] = c}

Tells(o, f, field, c) ==
  o.step = "audit" /\ Head(o.edits).file = f /\ o[field] = c

Pending(f, field, c) == {t \in Thread : Tells(op[t], f, field, c)}

LEMMA ChangesAreRows ==
  ASSUME NEW f, NEW field, NEW c
  PROVE  Changes(f, field, c)
           = Cardinality(Rows(f, field, c)) + Cardinality(Pending(f, field, c))
BY DEF Changes, Rows, Pending, Tells

LEMMA CountsAreFinite ==
  ASSUME FilesInv, NEW f, NEW field, NEW c
  PROVE  /\ IsFiniteSet(Rows(f, field, c))
         /\ IsFiniteSet(Pending(f, field, c))
         /\ Cardinality(Rows(f, field, c)) \in Nat
         /\ Cardinality(Pending(f, field, c)) \in Nat
<1>1. IsFiniteSet(DOMAIN config_audit)
  <2>1. config_audit \in Seq(AnyAuditRow)
    BY DEF FilesInv
  <2>2. DOMAIN config_audit = 1..Len(config_audit) /\ Len(config_audit) \in Nat
    BY <2>1
  <2>3. IsFiniteSet(1..Len(config_audit))
    BY <2>2, FS_Interval
  <2> QED BY <2>2, <2>3
<1>2. IsFiniteSet(Rows(f, field, c))
  BY <1>1, FS_Subset DEF Rows
<1>3. IsFiniteSet(Pending(f, field, c))
  BY FS_Subset DEF Pending
<1> QED BY <1>2, <1>3, FS_CardinalityType

LEMMA AddsOne ==
  ASSUME NEW S, IsFiniteSet(S), NEW x, x \notin S, NEW P \in BOOLEAN,
         NEW T, T = S \cup (IF P THEN {x} ELSE {})
  PROVE  Cardinality(T) = Cardinality(S) + Count(P)
<1>1. Cardinality(S) \in Nat
  BY FS_CardinalityType
<1>2. CASE P
  BY <1>1, <1>2, FS_AddElement DEF Count
<1>3. CASE ~P
  BY <1>1, <1>3 DEF Count
<1> QED BY <1>2, <1>3

\* For the contents of f, changes that end in a content and changes that start
\* from it balance, but for the first content and the present one.
Explained(f) ==
  \A c \in Revision(f) :
     Changes(f, "after", c) + Count(c = Initial[f])
       = Changes(f, "before", c) + Count(c = file[f])

LEMMA ChangesAreNat ==
  ASSUME FilesInv, NEW f, NEW field, NEW c
  PROVE  Changes(f, field, c) \in Nat
BY CountsAreFinite, ChangesAreRows

LEMMA ExplainedStart ==
  ASSUME Init, NEW f \in File
  PROVE  Explained(f)
<1> SUFFICES ASSUME NEW c \in Revision(f)
             PROVE  Changes(f, "after", c) + Count(c = Initial[f])
                      = Changes(f, "before", c) + Count(c = file[f])
  BY DEF Explained
<1>1. ASSUME NEW field
      PROVE  Changes(f, field, c) = 0
  <2>1. Rows(f, field, c) = {}
    BY DEF Init, Rows
  <2>2. Pending(f, field, c) = {}
    BY DEF Init, Pending, Tells, Idle
  <2>3. Cardinality({}) = 0
    BY FS_EmptySet
  <2>4. Changes(f, field, c)
          = Cardinality(Rows(f, field, c)) + Cardinality(Pending(f, field, c))
    BY ChangesAreRows
  <2> QED BY <2>1, <2>2, <2>3, <2>4
<1> QED BY <1>1 DEF Init

\* A step that neither changes f nor what any thread has to tell of it.
LEMMA Untouched ==
  ASSUME NEW f \in File, Explained(f),
         UNCHANGED config_audit, file'[f] = file[f],
         \A t \in Thread :
            \/ op'[t] = op[t]
            \/ /\ op[t].step = "audit" => Head(op[t].edits).file # f
               /\ op'[t].step = "audit" => Head(op'[t].edits).file # f
  PROVE  Explained(f)'
<1>1. ASSUME NEW field, NEW c
      PROVE  Changes(f, field, c)' = Changes(f, field, c)
  <2>1. Rows(f, field, c)' = Rows(f, field, c)
    BY DEF Rows
  <2>2. ASSUME NEW t \in Thread
        PROVE  Tells(op'[t], f, field, c) <=> Tells(op[t], f, field, c)
    BY DEF Tells
  <2>3. Pending(f, field, c)' = {t \in Thread : Tells(op'[t], f, field, c)}
    BY DEF Pending, Tells
  <2>4. Pending(f, field, c)' = Pending(f, field, c)
    BY <2>2, <2>3 DEF Pending
  <2>5. Changes(f, field, c)'
          = Cardinality(Rows(f, field, c)') + Cardinality(Pending(f, field, c)')
    BY DEF Changes, Rows, Pending, Tells
  <2> QED BY <2>1, <2>4, <2>5, ChangesAreRows
<1>2. ASSUME NEW c \in Revision(f)
      PROVE  Changes(f, "after", c)' + Count(c = Initial[f])
               = Changes(f, "before", c)' + Count(c = file'[f])
  BY <1>1 DEF Explained
<1> QED BY <1>2 DEF Explained, Changes, Count

\* A replace of what was read adds one change, from the old to the new content.
LEMMA ReplaceExplained ==
  ASSUME FilesInv, NEW t \in Thread, Replace(t), ~Stale(t),
         NEW f \in File \ {Jobs}, f = Head(op[t].edits).file, Explained(f)
  PROVE  Explained(f)'
<1>1. PICK o : o = op[t] /\ Held(o) /\ o.step = "replace"
  BY DEF FilesInv, Replace
<1>2. /\ o = [step |-> o.step, edits |-> o.edits,
              before |-> o.before, after |-> o.after]
      /\ o.before \in Revision(f)
  BY <1>1, PatchingFacts
<1>3. PICK n : n = [o EXCEPT !.step = "audit"] /\ op' = [op EXCEPT ![t] = n]
  BY <1>1 DEF Replace
<1>4. /\ n.step = "audit" /\ n.edits = o.edits
      /\ n["before"] = o.before /\ n["after"] = o.after
  BY <1>2, <1>3
<1>5. op'[t] = n /\ \A u \in Thread \ {t} : op'[u] = op[u]
  BY <1>3 DEF FilesInv
<1>6. file[f] = o.before /\ file'[f] = o.after /\ UNCHANGED config_audit
  BY <1>1 DEF Stale, Replace, FilesInv
<1>7. ASSUME NEW field, NEW c
      PROVE  Changes(f, field, c)' = Changes(f, field, c) + Count(n[field] = c)
  <2>1. Rows(f, field, c)' = Rows(f, field, c)
    BY <1>6 DEF Rows
  <2>2. t \notin Pending(f, field, c)
    BY <1>1 DEF Pending, Tells
  <2>3. Tells(n, f, field, c) <=> n[field] = c
    BY <1>1, <1>4 DEF Tells
  <2>4. Pending(f, field, c)' = {u \in Thread : Tells(op'[u], f, field, c)}
    BY DEF Pending, Tells
  <2>5. Pending(f, field, c)'
          = Pending(f, field, c) \cup (IF n[field] = c THEN {t} ELSE {})
    BY <1>5, <2>2, <2>3, <2>4 DEF Pending
  <2>6. Cardinality(Pending(f, field, c)')
          = Cardinality(Pending(f, field, c)) + Count(n[field] = c)
    <3>1. PICK P \in BOOLEAN : P = (n[field] = c)
      OBVIOUS
    <3>2. PICK S : S = Pending(f, field, c) /\ IsFiniteSet(S)
      BY CountsAreFinite
    <3>3. PICK T : T = Pending(f, field, c)' /\ T = S \cup (IF P THEN {t} ELSE {})
      BY <2>5, <3>1, <3>2
    <3>4. Cardinality(T) = Cardinality(S) + Count(P)
      BY <2>2, <3>2, <3>3, AddsOne
    <3> QED BY <3>1, <3>2, <3>3, <3>4
  <2>7. Changes(f, field, c)'
          = Cardinality(Rows(f, field, c)') + Cardinality(Pending(f, field, c)')
    BY DEF Changes, Rows, Pending, Tells
  <2> QED BY <2>1, <2>6, <2>7, CountsAreFinite, ChangesAreRows DEF Count
<1>8. ASSUME NEW c \in Revision(f)
      PROVE  Changes(f, "after", c)' + Count(c = Initial[f])
               = Changes(f, "before", c)' + Count(c = file'[f])
  <2>1. Changes(f, "after", c)' = Changes(f, "after", c) + Count(c = o.after)
    BY <1>4, <1>7 DEF Count
  <2>2. Changes(f, "before", c)' = Changes(f, "before", c) + Count(c = o.before)
    BY <1>4, <1>7 DEF Count
  <2>3. Changes(f, "after", c) + Count(c = Initial[f])
          = Changes(f, "before", c) + Count(c = o.before)
    BY <1>6 DEF Explained
  <2> QED BY <1>6, <2>1, <2>2, <2>3, ChangesAreNat DEF Count
<1> QED BY <1>8 DEF Explained, Changes, Count

\* An insert makes a row of what the thread had to tell, and of nothing else.
LEMMA AuditExplained ==
  ASSUME FilesInv, NEW t \in Thread, Audit(t),
         NEW f \in File, Explained(f)
  PROVE  Explained(f)'
<1>1. PICK o : o = op[t] /\ Held(o) /\ o.step = "audit"
  BY DEF FilesInv, Audit
<1>2. PICK n : n = Later(Tail(o.edits)) /\ op' = [op EXCEPT ![t] = n]
  BY <1>1 DEF Audit
<1>3. n.step # "audit"
  BY <1>1, <1>2, PatchingFacts, RequestFacts, LaterHeld
<1>4. op'[t] = n /\ \A u \in Thread \ {t} : op'[u] = op[u]
  BY <1>2 DEF FilesInv
<1>5. PICK r : /\ r = [path |-> Head(o.edits).file,
                       before |-> o.before, after |-> o.after]
               /\ config_audit' = Append(config_audit, r)
  BY <1>1 DEF Audit, Row
<1>6. PICK k \in Nat : k = Len(config_audit)
  BY DEF FilesInv
<1>7. /\ DOMAIN config_audit = 1..k
      /\ DOMAIN config_audit' = 1..(k + 1)
      /\ config_audit'[k + 1] = r
      /\ \A i \in 1..k : config_audit'[i] = config_audit[i]
  BY <1>5, <1>6 DEF FilesInv
<1>8. ASSUME NEW field \in {"before", "after"}, NEW c
      PROVE  Changes(f, field, c)' = Changes(f, field, c)
  <2> DEFINE told == Tells(o, f, field, c)
  <2>1. told <=> r.path = f /\ r[field] = c
    BY <1>1, <1>5 DEF Tells
  <2>2. k + 1 \notin Rows(f, field, c)
    BY <1>7 DEF Rows
  <2>3. Rows(f, field, c)' = Rows(f, field, c) \cup (IF told THEN {k + 1} ELSE {})
    <3> HIDE DEF told
    <3>1. Rows(f, field, c)' = {i \in 1..(k + 1) :
             config_audit'[i].path = f /\ config_audit'[i][field] = c}
      BY <1>7 DEF Rows
    <3>2. Rows(f, field, c) = {i \in 1..k :
             config_audit[i].path = f /\ config_audit[i][field] = c}
      BY <1>7 DEF Rows
    <3>3. \A i \in 1..(k + 1) : i \in 1..k \/ i = k + 1
      OBVIOUS
    <3>4. ASSUME NEW i
          PROVE  i \in Rows(f, field, c)' <=>
                   i \in Rows(f, field, c) \cup (IF told THEN {k + 1} ELSE {})
      BY <1>7, <2>1, <2>2, <3>1, <3>2, <3>3
    <3> QED BY <3>4
  <2>4. t \notin Pending(f, field, c)'
    BY <1>3, <1>4 DEF Pending, Tells
  <2>5. Pending(f, field, c)
          = Pending(f, field, c)' \cup (IF told THEN {t} ELSE {})
    <3>1. Pending(f, field, c)' = {u \in Thread : Tells(op'[u], f, field, c)}
      BY DEF Pending, Tells
    <3> QED BY <1>1, <1>4, <2>4, <3>1 DEF Pending
  <2>6. told \in BOOLEAN
    BY DEF Tells
  <2>7. PICK P : P = Pending(f, field, c)' /\ IsFiniteSet(P)
    BY <2>5, CountsAreFinite, FS_Subset
  <2>8. PICK R : R = Rows(f, field, c)'
    OBVIOUS
  <2> HIDE DEF told
  <2>9. Cardinality(Pending(f, field, c)) = Cardinality(P) + Count(told)
    BY <2>4, <2>5, <2>6, <2>7, AddsOne
  <2>10. Cardinality(R) = Cardinality(Rows(f, field, c)) + Count(told)
    BY <2>2, <2>3, <2>6, <2>8, CountsAreFinite, AddsOne
  <2>11. Changes(f, field, c)' = Cardinality(R) + Cardinality(P)
    BY <2>7, <2>8 DEF Changes, Rows, Pending, Tells
  <2>12. Cardinality(P) \in Nat
    BY <2>7, FS_CardinalityType
  <2> QED
    BY <2>9, <2>10, <2>11, <2>12, CountsAreFinite, ChangesAreRows DEF Count
<1>9. ASSUME NEW c \in Revision(f)
      PROVE  Changes(f, "after", c)' + Count(c = Initial[f])
               = Changes(f, "before", c)' + Count(c = file'[f])
  <2>1. file' = file
    BY DEF Audit
  <2> QED BY <1>8, <2>1 DEF Explained
<1> QED BY <1>9 DEF Explained, Changes, Count

\* Of a file that stays explainable, a thread's step tells every change.
LEMMA ExplainedRequestStep ==
  ASSUME FilesInv, NEW t \in Thread, RequestStep(t),
         NEW f \in File \ (untold' \cup {Jobs}), Explained(f)
  PROVE  Explained(f)'
<1>0. op = [u \in Thread |-> op[u]]
  BY DEF FilesInv
<1>1. ASSUME NEW es \in Request, Arrives(t, es)
      PROVE  Explained(f)'
  <2>1. op[t].step # "audit"
    BY <1>1 DEF Arrives, Idle
  <2>2. PICK n : n = Planned(es) /\ n.step # "audit"
    BY PlannedHeld
  <2>3. \A u \in Thread : op'[u] = IF u = t THEN n ELSE op[u]
    BY <1>0, <1>1, <2>2 DEF Arrives
  <2> QED BY <1>1, <2>1, <2>2, <2>3, Untouched DEF Arrives
<1>2. CASE ReadNext(t)
  <2>1. PICK o : o = op[t] /\ Held(o) /\ o.step = "read"
    BY <1>2 DEF FilesInv, ReadNext
  <2>2. o.edits \in Request
    BY <2>1 DEF Held, Idle
  <2>3. PICK n : n = Planned(o.edits) /\ n.step # "audit"
    BY <2>2, PlannedHeld
  <2>4. \A u \in Thread : op'[u] = IF u = t THEN n ELSE op[u]
    BY <1>0, <1>2, <2>1, <2>3 DEF ReadNext
  <2> QED BY <1>2, <2>1, <2>3, <2>4, Untouched DEF ReadNext
<1>3. CASE Replace(t)
  <2>1. PICK o : o = op[t] /\ Held(o) /\ o.step = "replace"
    BY <1>3 DEF FilesInv, Replace
  <2>2. CASE Head(o.edits).file = f
    <3>1. ~Stale(t)
      BY <1>3, <2>1, <2>2 DEF Replace
    <3> QED BY <1>3, <2>1, <2>2, <3>1, ReplaceExplained
  <2>3. CASE Head(o.edits).file # f
    <3>1. file'[f] = file[f]
      BY <1>3, <2>1, <2>3 DEF Replace, FilesInv
    <3>2. PICK n : /\ n = IF Head(o.edits).file = Jobs THEN Idle
                         ELSE [o EXCEPT !.step = "audit"]
                  /\ op' = [op EXCEPT ![t] = n]
      BY <1>3, <2>1 DEF Replace
    <3>3. n.step = "audit" => n.edits = o.edits
      BY <2>1, <3>2, PatchingFacts DEF Idle
    <3>4. \A u \in Thread : op'[u] = IF u = t THEN n ELSE op[u]
      BY <1>0, <3>2
    <3>5. UNCHANGED config_audit
      BY <1>3 DEF Replace
    <3> QED BY <2>1, <2>3, <3>1, <3>3, <3>4, <3>5, Untouched
  <2> QED BY <2>2, <2>3
<1>4. CASE ReplaceFails(t)
  <2>1. \A u \in Thread : op'[u] = IF u = t THEN Idle ELSE op[u]
    BY <1>0, <1>4 DEF ReplaceFails
  <2> QED BY <1>4, <2>1, Untouched DEF ReplaceFails, Idle
<1>5. CASE Audit(t)
  BY <1>5, AuditExplained
<1>6. CASE AuditFails(t)
  <2>1. \A u \in Thread : op'[u] = IF u = t THEN Idle ELSE op[u]
    BY <1>0, <1>6 DEF AuditFails
  <2>2. Head(op[t].edits).file # f
    BY <1>6 DEF AuditFails
  <2> QED BY <1>6, <2>1, <2>2, Untouched DEF AuditFails, Idle
<1>7. (\E es \in Request : Arrives(t, es)) \/ ReadNext(t) \/ Replace(t)
        \/ ReplaceFails(t) \/ Audit(t) \/ AuditFails(t)
  BY RequestsSent DEF RequestStep
<1> QED BY <1>1, <1>2, <1>3, <1>4, <1>5, <1>6, <1>7

LEMMA ExplainedStep ==
  ASSUME FilesInv, [Next]_vars, AuditExplainsFile
  PROVE  AuditExplainsFile'
<1> SUFFICES ASSUME NEW f \in File \ (untold' \cup {Jobs})
             PROVE  Explained(f)'
  BY DEF AuditExplainsFile, Explained
<1>1. untold \subseteq untold'
  BY DEF Next, RequestStep, PatchOpenClaw, PatchModels, Arrives, ReadNext,
         ToggleJob, Replace, ReplaceFails, Audit, AuditFails, Crash,
         RuntimeWrites, vars
<1>2. Explained(f)
  BY <1>1 DEF AuditExplainsFile, Explained
<1>3. ASSUME NEW t \in Thread, RequestStep(t)
      PROVE  Explained(f)'
  BY <1>2, <1>3, ExplainedRequestStep
<1>4. CASE Crash
  <2>1. \A t \in Thread : op[t].step = "audit" => Head(op[t].edits).file # f
    BY <1>4 DEF Crash
  <2>2. \A t \in Thread : op'[t].step # "audit"
    BY <1>4 DEF Crash, Idle
  <2> QED BY <1>2, <1>4, <2>1, <2>2, Untouched DEF Crash
<1>5. ASSUME NEW g \in File, RuntimeWrites(g)
      PROVE  Explained(f)'
  <2>1. file'[f] = file[f]
    BY <1>5 DEF RuntimeWrites, FilesInv
  <2> QED BY <1>2, <1>5, <2>1, Untouched DEF RuntimeWrites
<1>6. CASE UNCHANGED vars
  BY <1>2, <1>6, Untouched DEF vars
<1> QED BY <1>3, <1>4, <1>5, <1>6 DEF Next

\* The audit trail explains a file whose changes were all the dashboard's, each
\* told and none on top of an unread content: the rows and those still to be
\* inserted lead from its first content to the present one, in whatever order
\* any number of handlers insert them (config.py:407-416, 540-547, 590-597).
THEOREM RowsExplainFiles == Spec => []AuditExplainsFile
<1>1. Init => AuditExplainsFile
  BY ExplainedStart DEF AuditExplainsFile, Explained
<1>2. FilesInv /\ AuditExplainsFile /\ [Next]_vars => AuditExplainsFile'
  BY ExplainedStep
<1> QED BY <1>1, <1>2, FilesInvariant, PTL DEF Spec

=============================================================================
