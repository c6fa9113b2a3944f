----------------------- MODULE MCConfigMapController -----------------------
(***************************************************************************)
(* What the model checker needs to run ConfigMapController.  The versions  *)
(* are numbers here, so that they can be handed out in order.              *)
(***************************************************************************)
EXTENDS ConfigMapProperties, TLC

\* A state constraint: the names are handed out in order.  A random name nobody has
\* used is as good as any other, so every behaviour has a renaming that meets it.
NamesInOrder == \A v, w \in Versions : v < w /\ Exists(w) => Exists(v)

\* Contents and workloads of a kind are interchangeable.  Used only where no
\* liveness property is checked.
Symmetry ==
  Permutations(Data) \cup Permutations(Deployments) \cup Permutations(StatefulSets)
=============================================================================
