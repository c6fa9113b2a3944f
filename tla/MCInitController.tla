-------------------------- MODULE MCInitController --------------------------
(***************************************************************************)
(* What the model checker needs to run InitController.                     *)
(***************************************************************************)
EXTENDS InitController, TLC

\* Version names are drawn at random: the order they are used in makes no difference.
NamesInOrder == \A o \in Objects : \A v, w \in Versions :
                  v < w /\ w \in saved[o] => v \in saved[o]

\* A bound: only Deployments have an owner's annotations, and mount what does not exist.
Simple(x) == x.mounts \cap Missing = {} /\ \A k \in Owners : x.ann[k] = NoKey
SimpleStatefulSets ==
  /\ \A w \in StatefulSets : Simple(workload[w])
  /\ \A r \in Clients : request[r].w \in StatefulSets => Simple(request[r])

Symmetry == Permutations(Deployments)
=============================================================================
