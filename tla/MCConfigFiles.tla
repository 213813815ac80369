---------------------------- MODULE MCConfigFiles ----------------------------
(* A small instance of ConfigFiles for TLC. *)
EXTENDS ConfigFiles, TLC

CONSTANTS t1, t2, a1, s1, j1

\* The dashboard's file and the agent's models.json are not there yet.
InitialFiles ==
    OpenClaw :> [fields |-> s1 :> 0 @@ a1 :> 0, layout |-> "other"]
    @@ Jobs :> [fields |-> j1 :> 1, layout |-> "other"]
    @@ [f \in {Dashboard, a1} |-> NULL]

\* Patches that set one field or both, that change nothing, that are refused.
Edits ==
    OpenClaw :> [file: {OpenClaw}, revision: Content(OpenClaw),
                 sets: {s1 :> 1, a1 :> 1, s1 :> 1 @@ a1 :> BAD}]
    @@ [f \in {Dashboard, a1} |->
           [file: {f},
            revision: {NULL, [fields |-> s1 :> 0, layout |-> "indented"]},
            sets: {s1 :> 0, s1 :> 1}]]

\* The runtime sets the setting without the agent, drops a job or disables it.
RuntimeFiles ==
    OpenClaw :> {[fields |-> s1 :> 1 @@ a1 :> NULL, layout |-> "other"]}
    @@ Jobs :> {[fields |-> j1 :> v, layout |-> "other"] : v \in {NULL, 0}}

ThreadSymmetry == Permutations({t1, t2})

\* Bound: two of the four files change in one behaviour.
TwoFilesChange ==
    Cardinality({f \in File : file[f] # Initial[f] \/ f \in untold}) <= 2

=============================================================================
