------------------------- MODULE MCSecretController -------------------------
(***************************************************************************)
(* What the model checker needs to run SecretController.                   *)
(***************************************************************************)
EXTENDS SecretController, TLC

\* The value of Data.
SecretContents == Contents

NamesInOrder == \A v, w \in Versions : v < w /\ Exists(w) => Exists(v)

\* A bound: both informers together are two events behind.
TwoEvents == Len(cmWatch) + Len(ccmWatch) <= 2

Symmetry == Permutations(Payloads) \cup Permutations(Deployments)
=============================================================================
