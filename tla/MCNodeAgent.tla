---------------------------- MODULE MCNodeAgent -----------------------------
(***************************************************************************)
(* A node with room for one chunk of the two that come to it: neither can  *)
(* be stored beside the other, nor a second time over itself.              *)
(***************************************************************************)
EXTENDS NodeAgent, TLC

CONSTANTS first, second

MCSize == [c \in Chunk |-> 1]
=============================================================================
