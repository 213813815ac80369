----------------------------- MODULE ConfigFiles -----------------------------
(***************************************************************************)
(* The editing of JSON files by the dashboard's HTTP handlers: typed        *)
(* patches of openclaw.json and updates of the dashboard's and the agents'  *)
(* files (api/config.py), and the toggle of a cron job (api/cron.py), next  *)
(* to the OpenClaw runtime, which writes openclaw.json and cron/jobs.json   *)
(* itself.  A handler runs on a thread of the pool and takes no lock: it    *)
(* reads a file, replaces it later, and inserts its audit row after that.   *)
(*                                                                         *)
(* A file's content is a value for each of its fields and a layout; the     *)
(* sha256 "revision" of a file stands for its content.                      *)
(***************************************************************************)
EXTENDS Naturals, Sequences, FiniteSets

CONSTANTS
    Thread,     \* the threads of the pool that runs the handlers
    Agent,      \* agent ids: an entry of agents.list, and a models.json each
    Setting,    \* the fields of openclaw.json, the dashboard's and models.json files
    Job,        \* ids of cron jobs
    NULL,       \* a missing file, a missing field
    BAD,        \* a value that a patch may carry and validation refuses
    FLIP,       \* not a value: the toggle's "the other of the two"
    Initial,    \* the files at the start
    Edit,       \* for each file, the edits that clients send
    Written,    \* for each file of the runtime, what the runtime writes
    MaxAudits,  \* bound: no request arrives once there are as many audit rows
    MaxEdits    \* bound: the edits of one request

OpenClaw == "openclaw.json"
Dashboard == "config.json"
Jobs == "jobs.json"
File == {OpenClaw, Dashboard, Jobs} \cup Agent

Value == {0, 1}

\* What a file can say: in openclaw.json an agent stands for its allowAgents.
FieldsOf(f) ==
    IF f = OpenClaw THEN Setting \cup Agent
    ELSE IF f = Jobs THEN Job ELSE Setting

Content(f) ==
    [fields: [FieldsOf(f) -> Value \cup {NULL}], layout: {"indented", "other"}]

Revision(f) == Content(f) \cup {NULL}

\* Functions from some of the fields of a file, at least one of them.
Updates(f, values) ==
    UNION {[fs -> values] : fs \in (SUBSET FieldsOf(f)) \ {{}}}

ASSUME FilesAssumption ==
    /\ MaxAudits \in Nat /\ MaxEdits \in Nat
    /\ IsFiniteSet(Thread)
    /\ Agent \cap {OpenClaw, Dashboard, Jobs} = {}
    /\ {NULL, BAD, FLIP} \cap Value = {}
    /\ BAD # NULL /\ FLIP # NULL /\ BAD # FLIP
    /\ \A f \in File : NULL \notin Content(f)
    /\ DOMAIN Initial = File
    /\ \A f \in File : Initial[f] \in Revision(f)
    /\ \A f \in File \ {Jobs} : Edit[f] \subseteq
          [file: {f}, revision: Revision(f), sets: Updates(f, Value \cup {BAD})]
    /\ \A f \in {OpenClaw, Jobs} : Written[f] \subseteq Content(f)

VARIABLES
    file,          \* the content of each file
    config_audit,  \* the rows of the audit table, in the order of their inserts
    op,            \* what each thread still has to do
    serial,        \* history: the fields, had every edit since the last race been
                   \* one step on what the edits before it left
    untold         \* history: files with a change that no audit row tells

vars == <<file, config_audit, op, serial, untold>>

Idle == [step |-> "idle"]

\* Variant with a bug: the loop over the files does not end.
LaterAlways(edits) == [step |-> "read", edits |-> edits]

\* The rest of a request: the handler reads the next file, or answers.
Later(edits) ==
    IF edits = <<>> THEN Idle ELSE [step |-> "read", edits |-> edits]

-----------------------------------------------------------------------------
(* Patching a content *)

\* A missing models.json or dashboard file is read as an empty object.
Empty(f) == [fields |-> [x \in FieldsOf(f) |-> NULL], layout |-> "other"]

Payload(f, c) == IF c = NULL THEN Empty(f) ELSE c

\* An absent "enabled" counts as true, so does what is not 0.
Patched(old, v) ==
    IF v # FLIP THEN v ELSE IF old = 0 THEN 1 ELSE 0

\* Variant with a bug: the update takes the place of the whole object.
ApplyReplaces(e, c) ==
    [fields |-> [x \in FieldsOf(e.file) |->
                    IF x \in DOMAIN e.sets
                    THEN Patched(Payload(e.file, c).fields[x], e.sets[x])
                    ELSE NULL],
     layout |-> "indented"]

\* Fields that are not named keep their value; json.dumps decides the layout.
Apply(e, c) ==
    [fields |-> [x \in FieldsOf(e.file) |->
                    IF x \in DOMAIN e.sets
                    THEN Patched(Payload(e.file, c).fields[x], e.sets[x])
                    ELSE Payload(e.file, c).fields[x]],
     layout |-> "indented"]

\* One refused patch refuses them all.  An agent must be in agents.list, a job
\* in jobs; openclaw.json must exist.
Valid(e, c) ==
    /\ c = NULL => e.file \notin {OpenClaw, Jobs}
    /\ \A x \in DOMAIN e.sets :
          /\ e.sets[x] # BAD
          /\ x \in Agent \cup Job => c.fields[x] # NULL

\* Read the file of the first edit, compare its revision with the client's and
\* patch a copy; a refusal (404, 409, 400) ends the whole request.
Planned(edits) ==
    LET e == Head(edits)
        c == file[e.file]
    IN  IF c # e.revision \/ ~Valid(e, c)
        THEN Idle
        ELSE IF Apply(e, c) = c
        THEN Later(Tail(edits))
        ELSE [step |-> "replace", edits |-> edits,
              before |-> c, after |-> Apply(e, c)]

-----------------------------------------------------------------------------
(* Requests *)

Arrives(t, edits) ==
    /\ op[t] = Idle
    /\ Len(config_audit) < MaxAudits
    /\ op' = [op EXCEPT ![t] = Planned(edits)]
    /\ UNCHANGED <<file, config_audit, serial, untold>>

\* patch_openclaw_config
PatchOpenClaw(t) == \E e \in Edit[OpenClaw] : Arrives(t, <<e>>)

\* patch_models_config: the dashboard's file, then agents' files.  Keys that
\* strip() makes equal name one agent again, with the one revision it has.
PatchModels(t) ==
    \E n \in 1 .. MaxEdits :
        \E edits \in [1 .. n -> UNION {Edit[f] : f \in {Dashboard} \cup Agent}] :
            /\ \A i \in 2 .. n : edits[i].file \in Agent
            /\ \A i, j \in 1 .. n : edits[i].file = edits[j].file
                                      => edits[i].revision = edits[j].revision
            /\ Arrives(t, edits)

ReadNext(t) ==
    /\ op[t].step = "read"
    /\ op' = [op EXCEPT ![t] = Planned(op[t].edits)]
    /\ UNCHANGED <<file, config_audit, serial, untold>>

\* toggle_cron_job: no revision is asked for; an unknown job ends in a 404.
ToggleJob(t, j) ==
    Arrives(t, <<[file |-> Jobs, revision |-> file[Jobs],
                  sets |-> [x \in {j} |-> FLIP]]>>)

\* What a client expects of an accepted edit.
Accepted(e, fields) ==
    [x \in DOMAIN fields |->
        IF x \notin DOMAIN e.sets THEN fields[x]
        ELSE IF e.sets[x] = FLIP THEN 1 - fields[x]
        ELSE e.sets[x]]

Stale(t) == file[Head(op[t].edits).file] # op[t].before

\* write_bytes_atomic: the new content takes the place of whatever is there.
\* The toggle is done with that, the others have an audit row to insert.
Replace(t) ==
    LET e == Head(op[t].edits)
        f == e.file
    IN  /\ op[t].step = "replace"
        /\ file' = [file EXCEPT ![f] = op[t].after]
        /\ serial' = [serial EXCEPT ![f] = IF Stale(t) THEN op[t].after.fields
                                           ELSE Accepted(e, @)]
        /\ untold' = IF Stale(t) THEN untold \cup {f} ELSE untold
        /\ op' = [op EXCEPT ![t] = IF f = Jobs THEN Idle ELSE [@ EXCEPT !.step = "audit"]]
        /\ UNCHANGED config_audit

\* The third os.replace is refused as well, or the disk is full.
ReplaceFails(t) ==
    /\ op[t].step = "replace"
    /\ op' = [op EXCEPT ![t] = Idle]
    /\ UNCHANGED <<file, config_audit, serial, untold>>

\* Variant with a bug: the hash of what is on the disk by then.
RowOfDisk(t) ==
    [path |-> Head(op[t].edits).file,
     before |-> op[t].before, after |-> file[Head(op[t].edits).file]]

Row(t) ==
    [path |-> Head(op[t].edits).file,
     before |-> op[t].before, after |-> op[t].after]

\* append_config_audit
Audit(t) ==
    /\ op[t].step = "audit"
    /\ config_audit' = Append(config_audit, Row(t))
    /\ op' = [op EXCEPT ![t] = Later(Tail(op[t].edits))]
    /\ UNCHANGED <<file, serial, untold>>

\* The insert is refused (the database is locked): a 500 after the replace.
AuditFails(t) ==
    /\ op[t].step = "audit"
    /\ op' = [op EXCEPT ![t] = Idle]
    /\ untold' = untold \cup {Head(op[t].edits).file}
    /\ UNCHANGED <<file, config_audit, serial>>

-----------------------------------------------------------------------------
\* The dashboard is killed and started again: requests are forgotten.
Crash ==
    /\ \E t \in Thread : op[t] # Idle
    /\ op' = [t \in Thread |-> Idle]
    /\ untold' = untold \cup
          {Head(op[t].edits).file : t \in {u \in Thread : op[u].step = "audit"}}
    /\ UNCHANGED <<file, config_audit, serial>>

\* The runtime writes a file of its own, from its own memory.
RuntimeWrites(f) ==
    /\ f \in {OpenClaw, Jobs}
    /\ \E c \in Written[f] :
          /\ file' = [file EXCEPT ![f] = c]
          /\ serial' = [serial EXCEPT ![f] = c.fields]
    /\ untold' = untold \cup {f}
    /\ UNCHANGED <<config_audit, op>>

-----------------------------------------------------------------------------
Init ==
    /\ file = Initial
    /\ config_audit = <<>>
    /\ op = [t \in Thread |-> Idle]
    /\ serial = [f \in File |-> Payload(f, Initial[f]).fields]
    /\ untold = {}

RequestStep(t) ==
    \/ PatchOpenClaw(t)
    \/ PatchModels(t)
    \/ ReadNext(t)
    \/ \E j \in Job : ToggleJob(t, j)
    \/ Replace(t)
    \/ ReplaceFails(t)
    \/ Audit(t)
    \/ AuditFails(t)

Next ==
    \/ \E t \in Thread : RequestStep(t)
    \/ Crash
    \/ \E f \in File : RuntimeWrites(f)

Spec == Init /\ [][Next]_vars

-----------------------------------------------------------------------------
(* Properties *)

AuditRow(f) == [path: {f}, before: Revision(f), after: Content(f)]

EditOK(e) ==
    /\ e.file \in File
    /\ e.revision \in Revision(e.file)
    /\ e.sets \in Updates(e.file, Value \cup {BAD, FLIP})

OpOK(o) ==
    \/ o = Idle
    \/ /\ o.step \in {"read", "replace", "audit"}
       /\ o.edits # <<>>
       /\ \A i \in DOMAIN o.edits : EditOK(o.edits[i])
       /\ o.step # "read" =>
             /\ o.before = Head(o.edits).revision
             /\ o.after \in Content(Head(o.edits).file)

TypeOK ==
    /\ \A f \in File : file[f] \in Revision(f)
    /\ \A f \in File : serial[f] \in [FieldsOf(f) -> Value \cup {NULL}]
    /\ \A i \in DOMAIN config_audit : \E f \in File : config_audit[i] \in AuditRow(f)
    /\ \A t \in Thread : OpOK(op[t])
    /\ untold \subseteq File

\* Edits that do not overlap add up: unless a replace hit a content it had not
\* read, a file is what its edits make of it one after the other: an even number
\* of toggles leaves a job as it was, a patch keeps the fields other patches set
\* (config.py:386-405, cron.py:66-82).
EditsAddUp == \A f \in File : Payload(f, file[f]).fields = serial[f]

\* The audit trail explains a file: as long as every change of a file was made
\* by the dashboard, told by a row and never on top of an unread content, the
\* rows and the ones still to be inserted lead from the first content to the
\* present one, whatever the order of the inserts; also when the request failed
\* on a later file (config.py:407-416, 540-547, 590-597).
Changes(f, field, c) ==
    Cardinality({i \in DOMAIN config_audit :
                    config_audit[i].path = f /\ config_audit[i][field] = c})
    + Cardinality({t \in Thread : /\ op[t].step = "audit"
                                  /\ Head(op[t].edits).file = f
                                  /\ op[t][field] = c})

Count(condition) == IF condition THEN 1 ELSE 0

AuditExplainsFile ==
    \A f \in File \ (untold \cup {Jobs}) : \A c \in Revision(f) :
        Changes(f, "after", c) + Count(c = Initial[f])
            = Changes(f, "before", c) + Count(c = file[f])

=============================================================================
