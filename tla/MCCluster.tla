----------------------------- MODULE MCCluster ------------------------------
(* Small instances of Cluster. *)
EXTENDS Cluster, TLC

NodeSymmetry == Permutations(Node)

\* Bound: nothing is explored beyond the failures and moves that a download
\* must survive.
WithinMargin == Cost <= RF - R
=============================================================================
