---------------------------- MODULE MCIngestion ----------------------------
(* A small instance of Ingestion for TLC. *)
EXTENDS Ingestion, TLC

CONSTANTS w1, w2, e1, e2, job, item, session

\* Which table a document belongs to.
Sources ==
    [d \in Doc |-> CASE d = job -> "jobs" [] d = item -> "delivery"
                     [] OTHER -> "sessions"]

\* Bound: one of two parts of the system is busy in one behaviour.  Both start
\* from a state in which the other part has come to rest.
Resting(versions, lines) ==
    /\ content = versions /\ table = versions /\ view = versions
    /\ txn = "none" /\ behind = FALSE
    /\ bad = {}
    /\ file = lines
    /\ lock = "free" /\ crashes = 0
    /\ writer = [w \in Writer |-> "idle"] /\ event = [w \in Writer |-> NULL]
    /\ tick = "wait" /\ todo = {}
    /\ batch = {} /\ newOffset = 0
    /\ shutdown = FALSE

\* The log is written while all documents are indexed.
LogBusy ==
    /\ Resting([d \in Doc |-> MaxVersion], <<>>)
    /\ unused = Event /\ appended = {}
    /\ event_index = [e \in Event |-> 0] /\ offset = 0
    /\ failures = 0

\* Documents come and change after two events were appended, the first of which
\* is indexed, and after all failures but one.
DocsBusy ==
    /\ Resting([d \in Doc |-> 0],
               <<Piece(e1, "head"), Piece(e1, "tail"),
                 Piece(e2, "head"), Piece(e2, "tail")>>)
    /\ unused = {} /\ appended = {e1, e2}
    /\ event_index = (e1 :> 1 @@ e2 :> 0) /\ offset = 2
    /\ failures = MaxFailures - 1

MCSpec ==
    /\ LogBusy \/ DocsBusy
    /\ [][Next]_vars
    /\ WF_vars(TickStep /\ UNCHANGED <<logVars, docVars, failures>>)

=============================================================================
