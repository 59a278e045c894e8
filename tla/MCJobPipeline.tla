--------------------------- MODULE MCJobPipeline ---------------------------
(***************************************************************************)
(* Small instances of JobPipeline for TLC.                                 *)
(***************************************************************************)
EXTENDS JobPipeline, TLC

JobSymmetry == Permutations(Jobs)

\* The users leave the document alone once the jobs are submitted: no cancel,
\* no delete, no API process that dies half way through a cancel.
Quiet == doc' = "live" /\ \A j \in Jobs : api'[j] \in {"idle", "enqueue"}

\* Any two edits under every disturbance, and jobs of any other kinds side by
\* side without cancels and deletes.
AllEdits == \A j \in Jobs : kind[j] = "version"
MixedSpec == Init /\ [][Next /\ (AllEdits \/ Quiet)]_vars
=============================================================================
