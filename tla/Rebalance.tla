----------------------------- MODULE Rebalance ------------------------------
(***************************************************************************)
(* services/rebalance.py for one chunk.  rebalance_once moves one HEALTHY  *)
(* replica from the most to the least loaded available node.  It runs in   *)
(* rebalance_loop and in the handlers of POST /api/rebalance, one at a     *)
(* time under _rebalance_lock, so one task stands for them.  Which nodes   *)
(* are the most and the least loaded, and whether the gap reaches the      *)
(* threshold, is left open: any two available nodes may be.  An exception  *)
(* of any call ends the run where it is.                                   *)
(***************************************************************************)
EXTENDS ReplicaStore

VARIABLES
  mvPc,    \* where rebalance_once is
  mvSrc,   \* high_node, while a move is under way
  mvDst    \* low_node, while a move is under way

moveVars == <<mvPc, mvSrc, mvDst>>

MoveTypeOK ==
  /\ mvPc \in {"idle", "fetch", "store", "check", "record", "drop", "delete", "unlist"}
  /\ mvSrc \in Node \cup {None}
  /\ mvDst \in Node \cup {None}
  /\ mvPc # "idle" => mvSrc \in Node /\ mvDst \in Node /\ mvSrc # mvDst

MoveInit == mvPc = "idle" /\ mvSrc = None /\ mvDst = None

MoveTo(label) == mvPc' = label /\ UNCHANGED <<mvSrc, mvDst>>
MoveEnds      == mvPc' = "idle" /\ mvSrc' = None /\ mvDst' = None

\* Bug for the checks: the query without its NOT EXISTS clause.
MovableOntoHolder(s, d) ==
  /\ exists
  /\ status[s] = "HEALTHY"
  /\ Cardinality(HealthyRows) >= RF
  /\ HealthyRows \ {s} # {}

\* The query for a replica that can move from s to d.
Movable(s, d) ==
  /\ exists
  /\ status[s] = "HEALTHY"
  /\ Cardinality(HealthyRows) >= RF
  /\ status[d] = "NONE"
  /\ HealthyRows \ {s} # {}

MovePick ==
  /\ mvPc = "idle"
  /\ \E s, d \in Available :
       /\ s # d
       /\ Movable(s, d)
       /\ mvSrc' = s /\ mvDst' = d
  /\ mvPc' = "fetch"
  /\ UNCHANGED storeVars

\* The source's bytes must hash to the checksum.
MoveFetch ==
  /\ mvPc = "fetch"
  /\ \E v \in {"none", "good", "bad"} :
       /\ FetchCall(mvSrc, v)
       /\ \/ v = "good" /\ MoveTo("store")
          \/ v # "good" /\ MoveEnds
  /\ UNCHANGED <<rowVars, fileVars, nodeVars>>

\* Bug for the checks: the outcome of the store is not looked at.
MoveStoreUnchecked ==
  /\ mvPc = "store"
  /\ \E ok \in BOOLEAN : StoreCall(mvDst, ok)
  /\ MoveTo("record")
  /\ UNCHANGED <<rowVars, nodeVars>>

MoveStore ==
  /\ mvPc = "store"
  /\ \E ok \in BOOLEAN :
       /\ StoreCall(mvDst, ok)
       /\ \/ ok /\ MoveTo("check")
          \/ ~ok /\ MoveEnds
  /\ UNCHANGED <<rowVars, nodeVars>>

\* fetch_checksum of the target: an exception ends the run with the target's
\* files in place, a wrong checksum or version leads to their removal.
MoveCheck ==
  /\ mvPc = "check"
  /\ \E v \in Verdicts :
       /\ CheckCall(mvDst, v)
       /\ \/ v = "ok" /\ MoveTo("record")
          \/ v \in {"checksum", "version"} /\ MoveTo("drop")
          \/ v = "error" /\ MoveEnds
  /\ UNCHANGED <<rowVars, fileVars, nodeVars>>

\* delete_chunk of the target that failed its check; exceptions are ignored
MoveDrop ==
  /\ mvPc = "drop"
  /\ \E ok \in BOOLEAN : DeleteCall(mvDst, ok)
  /\ MoveEnds
  /\ UNCHANGED <<rowVars, nodeVars>>

\* Bug for the checks: a connection without PRAGMA foreign_keys=ON.
MoveRecordUnconstrained ==
  /\ mvPc = "record"
  /\ PutRow(mvDst)
  /\ MoveTo("delete")
  /\ UNCHANGED <<exists, fileVars, nodeVars, faults>>

\* INSERT OR REPLACE of the target's row; without the chunk's row the foreign
\* key makes it raise.
MoveRecord ==
  /\ mvPc = "record"
  /\ \/ exists /\ PutRow(mvDst) /\ MoveTo("delete")
     \/ ~exists /\ UNCHANGED status /\ MoveEnds
  /\ UNCHANGED <<exists, fileVars, nodeVars, faults>>

\* delete_chunk of the source
MoveDelete ==
  /\ mvPc = "delete"
  /\ \E ok \in BOOLEAN :
       /\ DeleteCall(mvSrc, ok)
       /\ \/ ok /\ MoveTo("unlist")
          \/ ~ok /\ MoveEnds
  /\ UNCHANGED <<rowVars, nodeVars>>

\* DELETE FROM replicas of the source's row
MoveUnlist ==
  /\ mvPc = "unlist"
  /\ status' = [status EXCEPT ![mvSrc] = "NONE"]
  /\ MoveEnds
  /\ UNCHANGED <<exists, fileVars, nodeVars, faults>>

\* What a running move does next.
MoveWork ==
  \/ MoveFetch \/ MoveStore \/ MoveCheck \/ MoveDrop
  \/ MoveRecord \/ MoveDelete \/ MoveUnlist

MoveNext == MovePick \/ MoveWork
=============================================================================
