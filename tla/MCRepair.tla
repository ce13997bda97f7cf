------------------------------ MODULE MCRepair ------------------------------
(* Small instances of Repair. *)
EXTENDS Repair, TLC

NodeSymmetry == Permutations(Node)
TaskSymmetry == Permutations(Node) \cup Permutations(Repairer)
=============================================================================
