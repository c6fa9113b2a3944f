----------------------------- MODULE MCPurgeJob -----------------------------
(***************************************************************************)
(* What the model checker needs to run PurgeJob.                           *)
(***************************************************************************)
EXTENDS PurgeJob, TLC

NamesInOrder == \A v, w \in Versions : v < w /\ ~Fresh(w) => ~Fresh(v)

\* A bound: TLC looks no further where every name has been used and purged.
NamesLeft == \E v \in Versions : Fresh(v) \/ Exists(v)

\* Bounds: the job starts when some revision carries a version, an informer is one event
\* behind, and templates have annotations (cm_safety has those that have none).
Late == job.at # "idle" => revisions # {}
OneEvent == Len(cmWatch) + Len(ccmWatch) <= 1
NoBare == \A w \in Workloads : template[w] # Bare

\* What the ConfigMap holds at first makes no difference.
Unedited == left.edits = MaxEdits => cm.data = CHOOSE d \in Data : TRUE

Symmetry == Permutations(Data)
=============================================================================
