---------------------------- MODULE ReplicaStore ----------------------------
(***************************************************************************)
(* What the components of VAULT share about one chunk: its rows in the     *)
(* metadata database, the files the storage nodes hold for it, and what    *)
(* the coordinator believes of the nodes.  Chunks share no replica state,  *)
(* so one chunk stands for all of them; its content never changes after    *)
(* the upload, so its bytes are either the right ones or not.              *)
(*                                                                         *)
(* The coordinator is one asyncio event loop: between two awaits nothing   *)
(* else runs.  An HTTP call to a node therefore has two instants, the one  *)
(* where the node handles it and the one where the coordinator goes on     *)
(* with the answer; the components below give each its own action whenever *)
(* the second one writes to the database.  A node is one event loop too,   *)
(* whose handlers of a chunk's files do not await between touching them.   *)
(***************************************************************************)
EXTENDS Naturals, FiniteSets

CONSTANTS
  Node,       \* the storage nodes
  None,       \* no node, no repairer
  RF,         \* replication_factor of the object
  W,          \* write_quorum of the object
  Faults,     \* the kinds of faults that may happen
  MaxFaults   \* bound: how many faults happen in a behaviour

FaultKinds ==
  { "down",     \* a node is killed or partitioned
    "lost",     \* a call fails and the node has not carried it out
    "late",     \* a call fails (timeout) although the node carries it out
    "corrupt",  \* bytes of a stored file are damaged
    "stale",    \* the version in a stored manifest is set back
    "slow",     \* heartbeats are late: the last one is older than FAILURE_TIMEOUT
    "revive",   \* an operator revives or heals a node that is serving
    "crash" }   \* the coordinator process dies and is started again

ASSUME StoreAssumption ==
  /\ IsFiniteSet(Node)
  /\ None \notin Node
  /\ RF \in 1..Cardinality(Node)
  /\ W \in 1..RF
  /\ Faults \subseteq FaultKinds
  /\ MaxFaults \in Nat

VARIABLES
  exists,     \* the chunk has its row in the chunks table
  status,     \* status column of the replicas row of each node, or "NONE"
  data,       \* content of the node's .bin file: "none", "good" or "bad"
  manifest,   \* version in the node's .json manifest, 0 without manifest
  serving,    \* the node is neither killed nor partitioned
  shown,      \* the nodes table shows the node HEALTHY
  fresh,      \* its last heartbeat is not older than FAILURE_TIMEOUT
  marking,    \* status updates a fault-injection handler still has to write
  faults      \* faults so far

storeVars == <<exists, status, data, manifest, serving, shown, fresh, marking, faults>>
rowVars   == <<exists, status>>
fileVars  == <<data, manifest>>
nodeVars  == <<serving, shown, fresh, marking>>

ChunkVersion == 1   \* create_object writes version 1 and nothing ever raises it

RowStatus == {"HEALTHY", "CORRUPTED", "INCONSISTENT", "UNREACHABLE"}
Marks     == Node \X {"CORRUPTED", "INCONSISTENT"}
Verdicts  == {"ok", "checksum", "version", "error"}

HealthyRows == {n \in Node : status[n] = "HEALTHY"}
Available   == {n \in Node : shown[n] /\ fresh[n]}   \* available_nodes
Holders     == {n \in Node : data[n] # "none"}
Intact      == {n \in Node : data[n] = "good" /\ manifest[n] = ChunkVersion}

RowsOK ==
  /\ exists \in BOOLEAN
  /\ status \in [Node -> RowStatus \cup {"NONE"}]

\* the data file and the manifest come and go together
FilesOK ==
  /\ data \in [Node -> {"none", "good", "bad"}]
  /\ manifest \in [Node -> 0..ChunkVersion]
  /\ \A n \in Node : data[n] = "none" <=> manifest[n] = 0

NodesOK ==
  /\ serving \in [Node -> BOOLEAN]
  /\ shown \in [Node -> BOOLEAN]
  /\ fresh \in [Node -> BOOLEAN]
  /\ marking \in SUBSET Marks

StoreTypeOK == RowsOK /\ FilesOK /\ NodesOK /\ faults \in Nat

(***************************************************************************)
(* Faults are counted, so that a behaviour has finitely many of them.      *)
(***************************************************************************)
NoFault     == UNCHANGED faults
Fault(kind) == kind \in Faults /\ faults < MaxFaults /\ faults' = faults + 1

(***************************************************************************)
(* The three ways a call to node n ends: it is carried out and answered;   *)
(* it raises at the coordinator without effect (503 of a killed or         *)
(* partitioned node, connection error, full disk); it raises (timeout)     *)
(* after the node has carried it out.                                      *)
(***************************************************************************)
Answers(n)  == serving[n] /\ NoFault
Fails(n)    == (~serving[n] /\ NoFault) \/ (serving[n] /\ Fault("lost"))
TimesOut(n) == serving[n] /\ Fault("late")

WriteFiles(n) ==
  /\ data' = [data EXCEPT ![n] = "good"]
  /\ manifest' = [manifest EXCEPT ![n] = ChunkVersion]

\* Bug for the checks: the delete handler leaves the manifest behind.
UnlinkDataOnly(n) ==
  /\ data' = [data EXCEPT ![n] = "none"]
  /\ UNCHANGED manifest

UnlinkFiles(n) ==
  /\ data' = [data EXCEPT ![n] = "none"]
  /\ manifest' = [manifest EXCEPT ![n] = 0]

\* POST /store: the node refuses bytes whose hash is not the checksum, so
\* what it writes is good.  ok: the coordinator got the answer.
StoreCall(n, ok) ==
  \/ ok /\ Answers(n) /\ WriteFiles(n)
  \/ ~ok /\ Fails(n) /\ UNCHANGED fileVars
  \/ ~ok /\ TimesOut(n) /\ WriteFiles(n)

\* DELETE /chunk: absent files are not an error.
DeleteCall(n, ok) ==
  \/ ok /\ Answers(n) /\ UnlinkFiles(n)
  \/ ~ok /\ Fails(n) /\ UNCHANGED fileVars
  \/ ~ok /\ TimesOut(n) /\ UnlinkFiles(n)

\* Bug for the checks: only what the manifests say is compared.
VerdictOfManifest(n) ==
  CASE manifest[n] = 0 \/ data[n] = "none" -> "error"
    [] manifest[n] # 0 /\ data[n] # "none" /\ manifest[n] # ChunkVersion -> "version"
    [] OTHER -> "ok"

\* What verify_replica concludes from the files as they are now.
Verdict(n) ==
  CASE manifest[n] = 0 \/ data[n] = "none" -> "error"
    [] manifest[n] # 0 /\ data[n] = "bad"  -> "checksum"
    [] manifest[n] # 0 /\ data[n] = "good" /\ manifest[n] # ChunkVersion -> "version"
    [] OTHER -> "ok"

\* GET /checksum: v is the verdict of the answer, or of the exception.
CheckCall(n, v) ==
  \/ Answers(n) /\ v = Verdict(n)
  \/ Fails(n) /\ v = "error"

\* GET /fetch: the bytes and the checksum header; a missing file is a 404.
FetchCall(n, v) ==
  \/ Answers(n) /\ v = (IF manifest[n] = 0 THEN "none" ELSE data[n])
  \/ Fails(n) /\ v = "none"

\* Bug for the checks: an error says nothing about the replica.
StatusOfTransient(v) ==
  CASE v \in {"ok", "error"} -> "HEALTHY"
    [] v = "checksum" -> "CORRUPTED"
    [] v = "version"  -> "INCONSISTENT"

\* The status verify_replica writes for a verdict.
StatusOf(v) ==
  CASE v = "ok"       -> "HEALTHY"
    [] v = "checksum" -> "CORRUPTED"
    [] v = "version"  -> "INCONSISTENT"
    [] v = "error"    -> "UNREACHABLE"

\* UPDATE replicas SET status: a no-op when the row is not there.
SetStatus(n, s) ==
  status' = IF status[n] = "NONE" THEN status ELSE [status EXCEPT ![n] = s]

\* INSERT OR REPLACE INTO replicas; the caller checks the foreign key.
PutRow(n) == status' = [status EXCEPT ![n] = "HEALTHY"]

(***************************************************************************)
(* The state in which create_object leaves an accepted chunk: at most RF   *)
(* targets got a row, at least W of them acknowledged the store.  A target *)
(* whose store call failed may hold the files all the same.                *)
(***************************************************************************)
Accepted(targets, acked, kept) ==
  /\ Cardinality(targets) <= RF
  /\ Cardinality(acked) >= W
  /\ acked \subseteq kept /\ kept \subseteq targets
  /\ Faults \cap {"down", "lost", "late"} = {} => acked = targets

StoreInit ==
  /\ exists = TRUE
  /\ \E targets, acked, kept \in SUBSET Node :
       /\ Accepted(targets, acked, kept)
       /\ status = [n \in Node |-> IF n \in acked THEN "HEALTHY"
                                   ELSE IF n \in targets THEN "UNREACHABLE"
                                   ELSE "NONE"]
       /\ data = [n \in Node |-> IF n \in kept THEN "good" ELSE "none"]
       /\ manifest = [n \in Node |-> IF n \in kept THEN ChunkVersion ELSE 0]
  /\ serving = [n \in Node |-> TRUE]
  /\ shown = [n \in Node |-> TRUE]
  /\ fresh = [n \in Node |-> TRUE]
  /\ marking = {}
  /\ faults = 0

(***************************************************************************)
(* The nodes and the operators' failure injections.  A handler of the      *)
(* coordinator that injects a fault awaits the node's answer and writes    *)
(* the replica's status afterwards: Mark.                                  *)
(***************************************************************************)
Outage(n) ==
  /\ serving[n]
  /\ Fault("down")
  /\ serving' = [serving EXCEPT ![n] = FALSE]
  /\ UNCHANGED <<rowVars, fileVars, shown, fresh, marking>>

\* revive and heal: the nodes row becomes UNKNOWN until the next heartbeat,
\* for a node that was serving as well; doing that to one counts as a fault.
Return(n) ==
  /\ IF serving[n] THEN Fault("revive") ELSE NoFault
  /\ serving' = [serving EXCEPT ![n] = TRUE]
  /\ shown' = [shown EXCEPT ![n] = FALSE]
  /\ UNCHANGED <<rowVars, fileVars, fresh, marking>>

Heartbeat(n) ==
  /\ \/ /\ Answers(n)
        /\ shown' = [shown EXCEPT ![n] = TRUE]
        /\ fresh' = [fresh EXCEPT ![n] = TRUE]
     \/ /\ Fails(n)
        /\ shown' = [shown EXCEPT ![n] = FALSE]
        /\ UNCHANGED fresh
  /\ UNCHANGED <<rowVars, fileVars, serving, marking>>

\* FAILURE_TIMEOUT passes without a heartbeat; the status column stays.
Lapse(n) ==
  /\ fresh[n]
  /\ Fault("slow")
  /\ fresh' = [fresh EXCEPT ![n] = FALSE]
  /\ UNCHANGED <<rowVars, fileVars, serving, shown, marking>>

\* Without an answer the handler writes nothing (502).
MarkLater(n, s) == marking' \in {marking, marking \cup {<<n, s>>}}

Corrupt(n) ==
  /\ shown[n] /\ serving[n] /\ data[n] # "none"
  /\ Fault("corrupt")
  /\ data' = [data EXCEPT ![n] = "bad"]
  /\ MarkLater(n, "CORRUPTED")
  /\ UNCHANGED <<rowVars, manifest, serving, shown, fresh>>

\* the stale version is max(1, version - 1)
SetBack(n) ==
  /\ serving[n] /\ manifest[n] # 0
  /\ Fault("stale")
  /\ manifest' = [manifest EXCEPT ![n] = IF @ > 1 THEN @ - 1 ELSE 1]
  /\ MarkLater(n, "INCONSISTENT")
  /\ UNCHANGED <<rowVars, data, serving, shown, fresh>>

Mark(n, s) ==
  /\ <<n, s>> \in marking
  /\ marking' = marking \ {<<n, s>>}
  /\ SetStatus(n, s)
  /\ UNCHANGED <<exists, fileVars, serving, shown, fresh, faults>>

NodeStep(n) ==
  \/ Outage(n) \/ Return(n) \/ Heartbeat(n) \/ Lapse(n)
  \/ Corrupt(n) \/ SetBack(n)
  \/ \E s \in {"CORRUPTED", "INCONSISTENT"} : Mark(n, s)

\* Some handler that injected a fault goes on.
MarkNext == \E m \in marking : Mark(m[1], m[2])

StoreNext == \E n \in Node : NodeStep(n)
=============================================================================
