------------------------------- MODULE Objects -------------------------------
(***************************************************************************)
(* Whole objects: the upload of their chunks one after the other           *)
(* (create_object, alone or in a batch), the status the dashboard shows    *)
(* (refresh_object_statuses), downloads of all chunks (stream_object) and  *)
(* the deletion (delete_object), as tasks of one event loop that may crash.*)
(* What happens to a single stored chunk is Cluster's subject; of it there *)
(* is here only what these handlers meet: a repair or a move that copies a *)
(* chunk and a verification that marks a replica.  That a move removes a   *)
(* file, its source's or that of a target which failed its check, is left  *)
(* to Cluster.                                                             *)
(***************************************************************************)
EXTENDS Naturals, FiniteSets, Sequences

CONSTANTS
  Object,      \* uploads; every upload gets an object_id of its own
  Length,      \* how many chunks the content of each makes
  Batch,       \* those sent as one POST /api/objects/batch
  SEMAPHORE,   \* how many files of the batch are uploaded at a time
  Node,
  RF, R,       \* replication factor and read quorum asked for
  Quorums,     \* the write quorums that may be asked for
  Reader,      \* downloads
  Visited,     \* bound: the objects that someone downloads or deletes
  None,
  Faults,      \* the kinds of faults that may happen
  MaxFaults    \* bound: how many of them happen, "few" aside, in a behaviour

FaultKinds ==
  { "few",     \* fewer than RF nodes are available
    "lost",    \* a call fails and the node has not carried it out
    "late",    \* a call fails although the node carries it out
    "bad",     \* a verification finds a replica it cannot use
    "crash" }  \* the coordinator process dies and is started again

\* A running or ended download: the chunks it listed, those it has sent.
Downloads ==
  [pc : {"reading", "complete"}, object : Object, length : Nat, sent : Nat, early : BOOLEAN]

\* validate_policy has let the policy pass.
ASSUME ObjectsAssumption ==
  /\ IsFiniteSet(Object) /\ IsFiniteSet(Node) /\ IsFiniteSet(Reader)
  /\ Length \in [Object -> Nat] /\ Batch \subseteq Object /\ Visited \subseteq Object
  /\ SEMAPHORE \in Nat \ {0}
  /\ RF \in 1..Cardinality(Node) /\ Quorums \subseteq 1..RF /\ R \in 1..RF
  /\ None \notin Object \X Nat \X Node /\ None \notin Downloads /\ None # {}
  /\ Faults \subseteq FaultKinds /\ MaxFaults \in Nat

VARIABLES
  row,            \* status column of each objects row, or "NONE"
  chunk,          \* its chunks rows in order, each with its replicas' statuses
  files,          \* chunks stored on nodes: <<object, index, node>>
  phase,          \* where each upload is, and how it ended
  call,           \* the chunk it is storing: locals of create_object
  full,           \* every chunk so far was acknowledged RF times
  batch,          \* the batch request
  removal,        \* replicas a DELETE handler has still to delete, or None
  wanted,         \* no deletion of the object has been requested yet
  copy,           \* a copy made by repair or a move, its row still to be written
  stray,          \* history: files the code has left where it will not look
  W,              \* the write quorum of this behaviour's requests
  download,       \* each download
  active_writes, active_reads,
  faults

metaVars   == <<row, chunk>>
uploadVars == <<phase, call, full, active_writes>>
deleteVars == <<removal, wanted>>
copyVars   == <<copy, stray>>
otherVars  == <<batch, deleteVars, copyVars, W>>
readVars   == <<download, active_reads>>
objectVars == <<metaVars, files, uploadVars, otherVars, readVars, faults>>

Running == {"receiving", "storing", "undoing"}
NoCall  == [index |-> 0, targets |-> {}, asked |-> {}, acked |-> {}]

Healthy(c)   == {n \in Node : c[n] = "HEALTHY"}
Stored(o, i) == {n \in Node : <<o, i, n>> \in files}
Rows(o)      == {r \in (1..Len(chunk[o])) \X Node : chunk[o][r[1]][r[2]] # "NONE"}

NoFault     == UNCHANGED faults
Fault(kind) == kind \in Faults /\ faults < MaxFaults /\ faults' = faults + 1

\* A call to store or to delete a file; ok: the coordinator got the answer.
Store(f, ok) ==
  \/ ok /\ NoFault /\ files' = files \cup {f}
  \/ ~ok /\ Fault("lost") /\ UNCHANGED files
  \/ ~ok /\ Fault("late") /\ files' = files \cup {f}

Unlink(f) ==
  \/ NoFault /\ files' = files \ {f}
  \/ Fault("lost") /\ UNCHANGED files

PutMeta(o, status, rows) ==
  /\ row' = [row EXCEPT ![o] = status]
  /\ chunk' = [chunk EXCEPT ![o] = rows]

\* DELETE FROM objects, which cascades to chunks and replicas
Erase(o) == PutMeta(o, "NONE", <<>>)

ObjectsInit ==
  /\ row = [o \in Object |-> "NONE"] /\ chunk = [o \in Object |-> <<>>]
  /\ files = {}
  /\ phase = [o \in Object |-> "none"] /\ call = [o \in Object |-> NoCall]
  /\ full = [o \in Object |-> TRUE]
  /\ batch = "none"
  /\ removal = [o \in Object |-> None] /\ wanted = [o \in Object |-> TRUE]
  /\ copy = None /\ stray = {}
  /\ W \in Quorums
  /\ download = [r \in Reader |-> None]
  /\ active_writes = 0 /\ active_reads = 0
  /\ faults = 0
-----------------------------------------------------------------------------
Goto(o, label)    == phase' = [phase EXCEPT ![o] = label]
GotoAll(S, label) == phase' = [o \in Object |-> IF o \in S THEN label ELSE phase[o]]

\* The batch is refused, for want of RF available nodes, or its files go to
\* asyncio.gather, each to wait for the semaphore.
BatchStart ==
  /\ batch = "none"
  /\ \/ "few" \in Faults /\ NoFault /\ batch' = "refused" /\ GotoAll(Batch, "refused")
     \/ NoFault /\ batch' = "running" /\ GotoAll(Batch, "waiting")
  /\ UNCHANGED <<metaVars, files, call, full, active_writes, deleteVars, copyVars, W,
                 readVars>>

\* Bug for the checks: a file that failed does not release the semaphore.
SlotsKept == {o \in Batch : phase[o] \in Running \cup {"refused"}}
Slots     == {o \in Batch : phase[o] \in Running}

\* write_started; upload.read is awaited next.
UploadBegin(o) ==
  /\ \/ phase[o] = "none" /\ o \notin Batch
     \/ phase[o] = "waiting" /\ Cardinality(Slots) < SEMAPHORE
  /\ Goto(o, "receiving")
  /\ active_writes' = active_writes + 1
  /\ UNCHANGED <<metaVars, files, call, full, otherVars, readVars, faults>>

\* Bug for the checks: write_finished is not in a finally clause.
EndsUncounted(o, how) ==
  /\ Goto(o, how)
  /\ call' = [call EXCEPT ![o] = NoCall]
  /\ full' = [full EXCEPT ![o] = TRUE]
  /\ active_writes' = IF how = "stored" THEN active_writes - 1 ELSE active_writes

\* create_object returns or raises; finally write_finished.
Ends(o, how) ==
  /\ Goto(o, how)
  /\ call' = [call EXCEPT ![o] = NoCall]
  /\ full' = [full EXCEPT ![o] = TRUE]
  /\ active_writes' = IF active_writes > 0 THEN active_writes - 1 ELSE 0

\* The next chunk: its row, and choose_nodes, which finds the quorum or not.
NextChunk(o, status, rows, allFull) ==
  \E chosen \in SUBSET Node :
    /\ \/ Cardinality(chosen) = RF /\ NoFault
       \/ Cardinality(chosen) < RF /\ "few" \in Faults /\ NoFault
    /\ \/ Cardinality(chosen) < W /\ Erase(o) /\ Ends(o, "refused")
       \/ /\ Cardinality(chosen) >= W
          /\ PutMeta(o, status, Append(rows, [n \in Node |-> "NONE"]))
          /\ Goto(o, "storing")
          /\ call' = [call EXCEPT ![o] = [index |-> Len(rows) + 1, targets |-> chosen,
                                          asked |-> chosen, acked |-> {}]]
          /\ full' = [full EXCEPT ![o] = allFull]
          /\ UNCHANGED active_writes

\* The loop over the chunks goes on, or its end sets the final status.
GoOn(o, status, rows, allFull) ==
  IF Len(rows) < Length[o] THEN NextChunk(o, status, rows, allFull)
  ELSE /\ PutMeta(o, IF allFull THEN "HEALTHY" ELSE "UNDER_REPLICATED", rows)
       /\ Ends(o, "stored")
       /\ NoFault

\* The content was too large (413) or broke off; or it is there, and the
\* objects row is inserted.
UploadReceive(o) ==
  /\ phase[o] = "receiving"
  /\ \/ Ends(o, "refused") /\ UNCHANGED <<metaVars, faults>>
     \/ GoOn(o, "UPLOADING", <<>>, TRUE)
  /\ UNCHANGED <<files, otherVars, readVars>>

\* The call c after node n has answered or failed
Answered(c, n, ok) ==
  [index |-> c.index, targets |-> c.targets, asked |-> c.asked \ {n},
   acked |-> IF ok THEN c.acked \cup {n} ELSE c.acked]

\* store_chunk on one of the targets, all of them under way at once.
UploadStore(o) ==
  /\ phase[o] = "storing"
  /\ \E n \in call[o].asked, ok \in BOOLEAN :
       /\ Store(<<o, call[o].index, n>>, ok)
       /\ call' = [call EXCEPT ![o] = Answered(@, n, ok)]
  /\ UNCHANGED <<metaVars, phase, full, active_writes, otherVars, readVars>>

\* Bug for the checks: the nodes asked are counted.
QuorumOfTargets(o) == Cardinality(call[o].targets) >= W
Quorum(o)          == Cardinality(call[o].acked) >= W

\* Bug for the checks: only nodes that acknowledged the store get a row.
RowOfAcked(o, n, old) == IF n \in call[o].acked THEN "HEALTHY" ELSE old

\* INSERT OR REPLACE INTO replicas for every target
RowOf(o, n, old) ==
  IF n \in call[o].acked THEN "HEALTHY"
  ELSE IF n \in call[o].targets THEN "UNREACHABLE" ELSE old

\* The files of the chunk whose rows are only written now: a deletion that
\* is under way has listed the replicas before and passes them over.
LeftByDeletion(o) ==
  {f \in files : f[1] = o /\ f[2] = call[o].index /\ removal[o] # None}

\* All have answered.  If the object has been deleted meanwhile the foreign
\* key makes the insertion raise (500).  Without the quorum the nodes that
\* did store this chunk are asked to delete it; the earlier chunks' are not.
UploadStored(o) ==
  LET c    == call[o]
      rows == [chunk[o] EXCEPT ![c.index] = [n \in Node |-> RowOf(o, n, @[n])]]
  IN
  /\ phase[o] = "storing" /\ c.asked = {}
  /\ \/ row[o] = "NONE" /\ Ends(o, "refused") /\ UNCHANGED <<metaVars, faults>>
     \/ row[o] # "NONE" /\ Quorum(o)
        /\ GoOn(o, row[o], rows, full[o] /\ Cardinality(c.acked) >= RF)
     \/ row[o] # "NONE" /\ ~Quorum(o) /\ c.acked = {} /\ Erase(o) /\ Ends(o, "refused")
        /\ NoFault
     \/ /\ row[o] # "NONE" /\ ~Quorum(o) /\ c.acked # {}
        /\ PutMeta(o, row[o], rows)
        /\ Goto(o, "undoing")
        /\ call' = [call EXCEPT ![o].asked = c.acked]
        /\ UNCHANGED <<full, active_writes, faults>>
  /\ stray' = stray \cup LeftByDeletion(o)
  /\ UNCHANGED <<files, batch, deleteVars, copy, W, readVars>>

\* delete_chunk on them, one after the other, best effort ...
UploadUndo(o) ==
  /\ phase[o] = "undoing"
  /\ \E n \in call[o].asked :
       /\ Unlink(<<o, call[o].index, n>>)
       /\ call' = [call EXCEPT ![o].asked = @ \ {n}]
  /\ UNCHANGED <<metaVars, phase, full, active_writes, otherVars, readVars>>

\* ... and then the rows.
UploadUndone(o) ==
  /\ phase[o] = "undoing" /\ call[o].asked = {}
  /\ Erase(o) /\ Ends(o, "refused")
  /\ UNCHANGED <<files, otherVars, readVars, faults>>

\* asyncio.gather is over: every file has its result.
BatchAnswer ==
  /\ batch = "running"
  /\ \A o \in Batch : phase[o] \in {"stored", "refused"}
  /\ batch' = "answered"
  /\ UNCHANGED <<metaVars, files, uploadVars, deleteVars, copyVars, W, readVars, faults>>
-----------------------------------------------------------------------------
\* Bug for the checks: replicas are counted whatever their status is.
ReplicatedByRows(o) ==
  \A i \in 1..Len(chunk[o]) : Cardinality({n \in Node : <<i, n>> \in Rows(o)}) >= RF
Replicated(o) == \A i \in 1..Len(chunk[o]) : Cardinality(Healthy(chunk[o][i])) >= RF

\* All objects at once, every five seconds and after POST /api/repair and
\* /api/rebalance.
RefreshStatuses ==
  /\ row' = [o \in Object |-> IF row[o] = "NONE" THEN "NONE"
                              ELSE IF Replicated(o) THEN "HEALTHY" ELSE "UNDER_REPLICATED"]
  /\ UNCHANGED <<chunk, files, uploadVars, otherVars, readVars, faults>>

\* object_detail lists the replicas; what is added later is not deleted.
\* (One request at a time for an object: another one that runs meanwhile
\* lists replicas of the same rows.)
DeleteStart(o) ==
  /\ o \in Visited /\ row[o] # "NONE" /\ removal[o] = None
  /\ removal' = [removal EXCEPT ![o] = Rows(o)]
  /\ wanted' = [wanted EXCEPT ![o] = FALSE]
  /\ stray' = stray \ {<<o, r[1], r[2]>> : r \in Rows(o)}
  /\ UNCHANGED <<metaVars, files, uploadVars, batch, copy, W, readVars, faults>>

\* Best effort: a file whose call fails stays.
DeleteUnlink(o) ==
  /\ removal[o] # None
  /\ \E r \in removal[o] :
       /\ Unlink(<<o, r[1], r[2]>>)
       /\ removal' = [removal EXCEPT ![o] = @ \ {r}]
       /\ stray' = stray \cup ({<<o, r[1], r[2]>>} \cap files')
  /\ UNCHANGED <<metaVars, uploadVars, batch, wanted, copy, W, readVars>>

DeleteRows(o) ==
  /\ removal[o] = {}
  /\ Erase(o)
  /\ removal' = [removal EXCEPT ![o] = None]
  /\ UNCHANGED <<files, uploadVars, batch, wanted, copyVars, W, readVars, faults>>

\* f has a row, and a deletion that is under way has yet to come to it.
Found(f) ==
  /\ f[2] \in 1..Len(chunk'[f[1]]) /\ chunk'[f[1]][f[2]][f[3]] # "NONE"
  /\ removal[f[1]] # None => <<f[2], f[3]>> \in removal[f[1]]

\* The copy has ended, with or without a row for its file.
CopyEnds(f) ==
  /\ copy' = None
  /\ stray' = IF Found(f) THEN stray \ {f} ELSE stray \cup ({f} \cap files')

\* repair_chunk copies a chunk that lacks replicas to a node without a HEALTHY
\* one, rebalance_once any chunk to a node without a row.  A store whose
\* answer is lost or late ends the copy, with or without its file.
CopyStore ==
  /\ copy = None
  /\ \E o \in Object : \E i \in 1..Len(chunk[o]) :
       \E n \in Node \ Healthy(chunk[o][i]), ok \in BOOLEAN :
         /\ Cardinality(Healthy(chunk[o][i])) < RF \/ chunk[o][i][n] = "NONE"
         /\ Healthy(chunk[o][i]) \cap Stored(o, i) # {}
         /\ Store(<<o, i, n>>, ok)
         /\ UNCHANGED metaVars
         /\ \/ ok /\ copy' = <<o, i, n>> /\ UNCHANGED stray
            \/ ~ok /\ CopyEnds(<<o, i, n>>)
  /\ UNCHANGED <<uploadVars, batch, deleteVars, W, readVars>>

\* The rows with that of the copy f set to status s, if its chunk is there
CopyRow(f, s) ==
  IF f[2] \in 1..Len(chunk[f[1]]) THEN [chunk EXCEPT ![f[1]][f[2]][f[3]] = s] ELSE chunk

\* The target is verified, and its row written unless the foreign key stops
\* it; when the verification fails only a row there is already is marked, and
\* the file stays.
CopyRecord ==
  /\ copy # None
  /\ \/ NoFault /\ chunk' = CopyRow(copy, "HEALTHY")
     \/ /\ Fault("bad")
        /\ chunk' = IF copy[2] \in 1..Len(chunk[copy[1]])
                       /\ chunk[copy[1]][copy[2]][copy[3]] # "NONE"
                    THEN CopyRow(copy, "UNREACHABLE") ELSE chunk
  /\ UNCHANGED <<row, files, uploadVars, batch, deleteVars, W, readVars>>
  /\ CopyEnds(copy)

\* verify_replica marks a replica whose node does not answer.
Degrade(o) ==
  /\ Fault("bad")
  /\ \E i \in 1..Len(chunk[o]) : \E n \in Healthy(chunk[o][i]) :
       chunk' = [chunk EXCEPT ![o][i][n] = "UNREACHABLE"]
  /\ UNCHANGED <<row, files, uploadVars, otherVars, readVars>>

\* stream_object lists the chunks there are when the download begins.
\* early: the upload had not been accepted by then.
ReadStart(r, o) ==
  /\ o \in Visited /\ row[o] # "NONE" /\ download[r] = None
  /\ download' = [download EXCEPT ![r] =
       [pc |-> "reading", object |-> o, length |-> Len(chunk[o]), sent |-> 0,
        early |-> phase[o] # "stored"]]
  /\ active_reads' = active_reads + 1
  /\ UNCHANGED <<metaVars, files, uploadVars, otherVars, faults>>

Reading(r) == download[r] # None /\ download[r].pc = "reading"

\* _verified_candidates
Readable(o, i) ==
  i <= Len(chunk[o]) /\ Cardinality(Healthy(chunk[o][i]) \cap Stored(o, i)) >= R

\* Bug for the checks: a chunk without its read quorum is left out.
ReadChunkSkipping(r) ==
  /\ Reading(r) /\ download[r].sent < download[r].length
  /\ download' = IF Readable(download[r].object, download[r].sent + 1)
                 THEN [download EXCEPT ![r].sent = @ + 1]
                 ELSE [download EXCEPT ![r].length = @ - 1]
  /\ UNCHANGED <<metaVars, files, uploadVars, otherVars, active_reads, faults>>

\* The next chunk is verified, fetched and sent (ReadPath shows how).
ReadChunk(r) ==
  /\ Reading(r) /\ download[r].sent < download[r].length
  /\ Readable(download[r].object, download[r].sent + 1)
  /\ download' = [download EXCEPT ![r].sent = @ + 1]
  /\ UNCHANGED <<metaVars, files, uploadVars, otherVars, active_reads, faults>>

\* After the last chunk; or the quorum is missing, a fetch fails or the
\* client leaves, and the body, sent with status 200, is cut off: then the
\* client may start again.
ReadEnd(r) ==
  /\ Reading(r)
  /\ \/ /\ download[r].sent = download[r].length
        /\ download' = [download EXCEPT ![r].pc = "complete"]
     \/ download' = [download EXCEPT ![r] = None]
  /\ active_reads' = IF active_reads > 0 THEN active_reads - 1 ELSE 0
  /\ UNCHANGED <<metaVars, files, uploadVars, otherVars, faults>>

\* The coordinator dies and starts again; rows and files stay as they are.
Crash ==
  /\ Fault("crash")
  /\ GotoAll({o \in Object : phase[o] \in Running \cup {"waiting"}}, "interrupted")
  /\ call' = [o \in Object |-> NoCall] /\ full' = [o \in Object |-> TRUE]
  /\ batch' = IF batch = "running" THEN "interrupted" ELSE batch
  /\ removal' = [o \in Object |-> None]
  /\ copy' = None /\ stray' = stray \cup ({copy} \ {None})
  /\ download' = [r \in Reader |-> IF Reading(r) THEN None ELSE download[r]]
  /\ active_writes' = 0 /\ active_reads' = 0
  /\ UNCHANGED <<metaVars, files, wanted, W>>

UploadWork(o) ==
  \/ UploadReceive(o) \/ UploadStore(o) \/ UploadStored(o)
  \/ UploadUndo(o) \/ UploadUndone(o)

ObjectsNext ==
  \/ BatchStart \/ BatchAnswer
  \/ RefreshStatuses \/ CopyStore \/ CopyRecord \/ Crash
  \/ \E o \in Object :
       \/ UploadBegin(o) \/ UploadWork(o)
       \/ DeleteStart(o) \/ DeleteUnlink(o) \/ DeleteRows(o) \/ Degrade(o)
  \/ \E r \in Reader : ReadChunk(r) \/ ReadEnd(r) \/ \E o \in Object : ReadStart(r, o)

ObjectsSpec == ObjectsInit /\ [][ObjectsNext]_objectVars

\* Every running task goes on and calls time out; refresh runs for ever.
ObjectsFairness ==
  /\ WF_objectVars(RefreshStatuses) /\ WF_objectVars(BatchAnswer)
  /\ \A o \in Object : WF_objectVars(UploadWork(o)) /\ SF_objectVars(UploadBegin(o))

ObjectsFairSpec == ObjectsSpec /\ ObjectsFairness
-----------------------------------------------------------------------------
MetaOK ==
  /\ row \in [Object -> {"NONE", "UPLOADING", "HEALTHY", "UNDER_REPLICATED"}]
  /\ chunk \in [Object -> Seq([Node -> {"NONE", "HEALTHY", "UNREACHABLE"}])]
  /\ \A o \in Object : row[o] = "NONE" => chunk[o] = <<>>

UploadsOK ==
  /\ phase \in [Object -> Running \cup {"none", "waiting", "stored", "refused", "interrupted"}]
  /\ call \in [Object -> [index : Nat, targets : SUBSET Node, asked : SUBSET Node,
                          acked : SUBSET Node]]
  /\ full \in [Object -> BOOLEAN]
  /\ batch \in {"none", "running", "answered", "refused", "interrupted"}

OthersOK ==
  /\ files \subseteq Object \X Nat \X Node
  /\ copy \in (Object \X Nat \X Node) \cup {None}
  /\ removal \in [Object -> (SUBSET (Nat \X Node)) \cup {None}]
  /\ wanted \in [Object -> BOOLEAN]
  /\ W \in Quorums
  /\ download \in [Reader -> Downloads \cup {None}]

CountersOK ==
  /\ active_writes = Cardinality({o \in Object : phase[o] \in Running})
  /\ active_reads = Cardinality({r \in Reader : Reading(r)})

\* Types; a deleted object has no rows at all; the counters of the metrics
\* page are the handlers that run, however these end.
ObjectsInv == MetaOK /\ UploadsOK /\ OthersOK /\ CountersOK

\* "A write is accepted only when W successful replica writes are achieved":
\* an object that was answered as stored has all its chunks, each on W nodes
\* at least, until someone asks for its deletion, whatever else is uploaded,
\* undone, deleted, repaired or interrupted.
StoredHasQuorum ==
  \A o \in Object : phase[o] = "stored" /\ wanted[o] =>
    /\ Len(chunk[o]) = Length[o]
    /\ \A i \in 1..Length[o] : Cardinality(Stored(o, i)) >= W

\* Every file of an object that was stored, deleted since or not, is named by
\* its rows, so that a deletion finds it, stores that were carried out without
\* an answer included.  The exceptions are a copy under way and those in stray:
\* copies of a repair or a move that ended without a row (a store that timed
\* out, a verification that failed, a crash, the foreign key), files whose
\* delete call failed, and those that an upload, repair or move has added
\* since the deletion listed the replicas.
FilesListed ==
  \A f \in files : phase[f[1]] = "stored" =>
    <<f[2], f[3]>> \in Rows(f[1]) \/ f = copy \/ f \in stray

\* A download that ends normally has delivered the whole object, if the
\* upload had been accepted when it began; otherwise it may be cut short
\* without a sign.
DownloadWhole ==
  \A r \in Reader : download[r] # None =>
    (download[r].pc = "complete" /\ ~download[r].early
       => download[r].sent = Length[download[r].object])

\* Every batch is answered, whatever becomes of its files: none that fails
\* holds up or hides the others.
BatchAnswered == batch = "running" ~> batch # "running"

\* Statuses that promise RF replicas where there are fewer, such as the one
\* an upload computes from the stores of minutes ago, do not stay: there are
\* times without any.
Flattered ==
  {o \in Object : row[o] = "HEALTHY" /\ \E i \in 1..Len(chunk[o]) : Cardinality(Healthy(chunk[o][i])) < RF}

StatusCorrected == Flattered # {} ~> Flattered = {}

\* "A write is accepted only when W successful replica writes are achieved":
\* an object whose upload ended without having been accepted is not shown as
\* HEALTHY.
HealthyWasAccepted ==
  \A o \in Object : row[o] = "HEALTHY" => phase[o] \in Running \cup {"stored"}
=============================================================================
