---------------------------- MODULE MCPodWebhook ----------------------------
(***************************************************************************)
(* What the model checker needs to run PodWebhook.                         *)
(***************************************************************************)
EXTENDS PodWebhook, TLC

NamesInOrder == \A v, w \in Versions : v < w /\ Exists(w) => Exists(v)

\* A bound: both informers together are two events behind.
TwoEvents == Len(cmWatch) + Len(ccmWatch) <= 2

Symmetry == Permutations(Data) \cup Permutations(Deployments) \cup Permutations(Pods)
=============================================================================
