---------------------------- MODULE DurableChunk ----------------------------
(***************************************************************************)
(* What VAULT promises of an accepted chunk, whatever its components do:   *)
(* as long as nobody has asked for its deletion there is a copy, new       *)
(* copies are made from old ones, and only a copy that is not the last one *)
(* is ever given up.  Once its deletion has been requested copies come and *)
(* go, late repairs included.                                              *)
(***************************************************************************)
CONSTANT Node

VARIABLES
  copies,   \* the nodes that hold the chunk
  wanted    \* nobody has asked for its deletion

Accept == copies \in SUBSET Node /\ copies # {} /\ wanted = TRUE

Replicate(n) ==
  /\ wanted /\ copies # {}
  /\ copies' = copies \cup {n}
  /\ UNCHANGED wanted

Discard(n) ==
  /\ wanted
  /\ copies' = copies \ {n} /\ copies' # {}
  /\ UNCHANGED wanted

Abandon == wanted /\ wanted' = FALSE /\ UNCHANGED copies

CleanUp(n) ==
  /\ ~wanted
  /\ copies' \in {copies \cup {n}, copies \ {n}}
  /\ UNCHANGED wanted

ChunkStep ==
  \/ \E n \in Node : Replicate(n) \/ Discard(n) \/ CleanUp(n)
  \/ Abandon

ChunkSpec == Accept /\ [][ChunkStep]_<<copies, wanted>>
=============================================================================
