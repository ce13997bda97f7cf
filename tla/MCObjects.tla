----------------------------- MODULE MCObjects ------------------------------
(* Small instances of Objects: o1 has two chunks, the others are empty. *)
EXTENDS Objects, TLC

CONSTANT o1

MCLength == [o \in Object |-> IF o = o1 THEN 2 ELSE 0]

NodeSymmetry == Permutations(Node)
=============================================================================
