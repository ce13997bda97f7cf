------------------------------ MODULE Cluster -------------------------------
(***************************************************************************)
(* Everything that happens to the replicas of an accepted chunk: repair    *)
(* and integrity scan, rebalancing, downloads and the deletion of the      *)
(* object, run as tasks of one coordinator that may crash and restart,     *)
(* among nodes that fail.                                                  *)
(***************************************************************************)
EXTENDS Repair, Rebalance, ReadPath

CONSTANT Deleter   \* the handlers of DELETE /api/objects, each one request

VARIABLES
  dlPc,     \* where each handler of DELETE /api/objects is
  dlTodo,   \* replicas whose files it has still to delete
  wanted,   \* history: no deletion of the object has been requested yet
  moved     \* history: the nodes whose file a move has removed, kept for the
            \* downloads' sake where there are any

deleteVars == <<dlPc, dlTodo, wanted>>

vars == <<storeVars, repairVars, moveVars, readVars, deleteVars, moved>>

DeleteTypeOK ==
  /\ dlPc \in [Deleter -> {"idle", "unlink"}]
  /\ dlTodo \in [Deleter -> SUBSET Node]
  /\ wanted \in BOOLEAN

Rows == {n \in Node : status[n] # "NONE"}

\* object_detail lists the replicas; what is added later is not deleted.
DeleteStart(d) ==
  /\ dlPc[d] = "idle" /\ exists
  /\ dlPc' = [dlPc EXCEPT ![d] = "unlink"]
  /\ dlTodo' = [dlTodo EXCEPT ![d] = Rows]
  /\ wanted' = FALSE
  /\ UNCHANGED storeVars

\* delete_chunk on each of their nodes, best effort
DeleteUnlink(d) ==
  /\ dlPc[d] = "unlink"
  /\ \E n \in dlTodo[d], ok \in BOOLEAN :
       /\ DeleteCall(n, ok)
       /\ dlTodo' = [dlTodo EXCEPT ![d] = @ \ {n}]
  /\ UNCHANGED <<rowVars, nodeVars, dlPc, wanted>>

\* DELETE FROM objects, which cascades to chunks and replicas; a second
\* handler finds nothing left.
DeleteRows(d) ==
  /\ dlPc[d] = "unlink" /\ dlTodo[d] = {}
  /\ exists' = FALSE
  /\ status' = [n \in Node |-> "NONE"]
  /\ dlPc' = [dlPc EXCEPT ![d] = "idle"]
  /\ UNCHANGED <<fileVars, nodeVars, faults, dlTodo, wanted>>

\* What a running deletion does next.
DeleteWork(d) == DeleteUnlink(d) \/ DeleteRows(d)

DeleteNext == \E d \in Deleter : DeleteStart(d) \/ DeleteWork(d)

\* The removal of a source's file, answered or not.
MovedAfter ==
  IF Reader # {} /\ MoveDelete /\ data' # data THEN moved \cup {mvSrc} ELSE moved

\* The coordinator process dies and starts again: all its tasks are gone.
\* The lifespan handler sends a round of heartbeats first thing, which the
\* actions Heartbeat stand for.
Crash ==
  /\ Fault("crash")
  /\ marking' = {}
  /\ lock' = None
  /\ rpPc' = [p \in Repairer |-> "idle"]
  /\ rpTodo' = [p \in Repairer |-> {}]
  /\ rpSnapshot' = [p \in Repairer |-> {}]
  /\ rpVerified' = [p \in Repairer |-> {}]
  /\ rpNode' = [p \in Repairer |-> None]
  /\ rpVerdict' = [p \in Repairer |-> "error"]
  /\ rpScan' = [p \in Repairer |-> {}]
  /\ MoveEnds
  /\ rdPc' = [r \in Reader |-> IF rdPc[r] \in {"start", "served"} THEN rdPc[r] ELSE "refused"]
  /\ rdAsked' = [r \in Reader |-> {}]
  /\ rdAnswer' = [r \in Reader |-> {}]
  /\ rdTodo' = [r \in Reader |-> {}]
  /\ rdNode' = [r \in Reader |-> None]
  /\ dlPc' = [d \in Deleter |-> "idle"]
  /\ dlTodo' = [d \in Deleter |-> {}]
  /\ UNCHANGED <<rowVars, fileVars, serving, shown, fresh, wanted, moved>>

Init ==
  /\ StoreInit /\ RepairInit /\ MoveInit /\ ReadInit
  /\ dlPc = [d \in Deleter |-> "idle"]
  /\ dlTodo = [d \in Deleter |-> {}]
  /\ wanted = TRUE /\ moved = {}

Next ==
  \/ RepairNext /\ UNCHANGED <<moveVars, readVars, deleteVars, moved>>
  \/ MoveNext   /\ UNCHANGED <<repairVars, readVars, deleteVars>> /\ moved' = MovedAfter
  \/ ReadNext   /\ UNCHANGED <<repairVars, moveVars, deleteVars, moved>>
  \/ DeleteNext /\ UNCHANGED <<repairVars, moveVars, readVars, moved>>
  \/ StoreNext  /\ UNCHANGED <<repairVars, moveVars, readVars, deleteVars, moved>>
  \/ Crash

Spec == Init /\ [][Next]_vars

(***************************************************************************)
(* Fairness, as for Repair: every started task goes on, the lock is served *)
(* in order, repair_loop and the heartbeats never stop, handlers get to    *)
(* their last update.  Nothing obliges anyone to read, move or delete.     *)
(***************************************************************************)
Others == <<moveVars, readVars, deleteVars, moved>>

Fairness ==
  /\ \A p \in Repairer : WF_vars(RepairWork(p) /\ UNCHANGED Others)
                         /\ SF_vars(RepairLock(p) /\ UNCHANGED Others)
  /\ \A p \in Scanner : SF_vars(RepairCall(p) /\ UNCHANGED Others)
  /\ WF_vars(MoveWork /\ UNCHANGED <<repairVars, readVars, deleteVars>> /\ moved' = MovedAfter)
  /\ \A d \in Deleter : WF_vars(DeleteWork(d) /\ UNCHANGED <<repairVars, moveVars, readVars, moved>>)
  /\ \A n \in Node : WF_vars(Heartbeat(n) /\ UNCHANGED <<repairVars, Others>>)
  /\ WF_vars(MarkNext /\ UNCHANGED <<repairVars, Others>>)

FairSpec == Spec /\ Fairness
-----------------------------------------------------------------------------
MovedTypeOK == moved \in SUBSET Node

\* Types of all the state, and files that come and go in pairs.
TypeOK ==
  /\ StoreTypeOK /\ RepairTypeOK /\ MoveTypeOK /\ ReadTypeOK /\ DeleteTypeOK
  /\ MovedTypeOK

\* Until someone asks for its deletion, a chunk never loses its last file,
\* whatever repair, rebalancing, reads, failures and crashes of nodes and
\* coordinator happen in whatever order: the only other code that deletes
\* files is rebalance_once, and it leaves a file elsewhere.  (A damaged file
\* counts: damage takes no file away, and no step looks at the bytes again
\* before it deletes.)
NeverErased == wanted => Holders # {}

\* The promise of DurableChunk, kept by all the components together.
Durable == INSTANCE DurableChunk WITH copies <- Holders
KeepsPromise == Durable!ChunkSpec

\* The foreign key and the cascade hold against tasks that were in the
\* middle of a repair, a move or a read when the object was deleted: no
\* replica row comes back without its chunk.
NoRowWithoutChunk == ~exists => Rows = {}

\* What has cost the chunk a replica so far.
Cost == faults + Cardinality(moved)

\* A failure, damage, error or move costs a download at most one replica, so
\* a download of a fully replicated chunk survives RF - R of them, on any
\* number of nodes, even while repair and scan rewrite the rows it looks at.
\* (The downloads of a coordinator that crashes fail with it, and those of a
\* deleted object are refused.)  Moves count because the query for a
\* download's candidates and their verification lie awaits apart, and one that
\* ends between the two takes a candidate away although no node failed.
ReadSurvives ==
  W = RF /\ Deleter = {} /\ "crash" \notin Faults =>
    \A r \in Reader : rdPc[r] = "refused" => Cost > RF - R

\* Moves, finished or broken off at any call, never take a chunk below RF
\* replica rows, nor do repairs, scans or a coordinator crash in their midst
\* ("keeping RF unchanged"): only deleting the object removes rows for good.
RowsKeepRF ==
  [][wanted' => \/ Cardinality(Rows') >= Cardinality(Rows)
                \/ Cardinality(Rows') >= RF]_vars

\* "Target is verified before the source is removed; RF therefore never
\* drops below its policy": when a move removes the source's file, the rows
\* still show RF HEALTHY replicas besides it, whatever verifications, repairs
\* and failure injections have written since the move was decided.
MoveKeepsRF ==
  [][MoveDelete /\ data' # data => Cardinality(HealthyRows \ {mvSrc}) >= RF]_vars

Phantoms == {n \in HealthyRows : data[n] = "none"}

\* Rows that say HEALTHY for a file that is not there (left by a move broken
\* off between deleting the source's file and its row) do not last: repair's
\* next verification marks them, and there are times without any.
PhantomCleared == Phantoms # {} ~> Phantoms = {}
=============================================================================
