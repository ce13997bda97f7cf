# VAULT in TLA+

Specifications, model-checking configurations and machine-checked proofs for
VAULT, the distributed object store of this repository: a FastAPI coordinator
(`src/backend/vault/main.py`, `services/`) that splits objects into chunks,
keeps RF replicas of each on storage nodes (`node_agent.py`) and repairs, moves
and verifies them in background tasks. `PROJECT.json` maps every definition to
the lines it models; paths below are relative to `src/backend/vault/`.

## 1. The system

One coordinator process runs everything as tasks of one asyncio event loop, so
two tasks interleave only at an `await`, which here is nearly always an HTTP
call to a node. Metadata lives in SQLite (one short transaction per
`db.execute`, foreign keys on). Each node is a process with one event loop of
its own and one directory with a `.bin` and a `.json` file per chunk.

| Component | State | Operations | Interacts with | Correct when |
|---|---|---|---|---|
| Node agent, `node_agent.py` | files, `killed` and `partitioned` flags, telemetry | store, fetch, checksum, delete, heartbeat, fault injection | called over HTTP | data file and manifest come and go together; refuses wrong bytes |
| Metadata, `db.py` | tables `nodes`, `objects`, `chunks`, `replicas`, `events`, `repair_events` | single statements | all coordinator tasks | rows agree with files, no row without its chunk |
| Repair, `services/repair.py` | `_repair_lock`, locals across awaits, `replicas` rows | `verify_replica`, `repair_chunk`, `repair_all`, `integrity_scan`, `repair_loop` | nodes; rows shared with all others | restores RF, never exceeds it, finds damage |
| Rebalancer, `services/rebalance.py` | `_rebalance_lock`, locals | `rebalance_once`, `rebalance_loop` | nodes; rows shared with repair | never erases the last copy, keeps RF |
| Upload, `services/coordinator.py` | `objects`, `chunks`, `replicas` rows | `create_object` | nodes | accepted only with W stored replicas |
| Read, `services/coordinator.py` | locals, `replicas` rows (it marks bad ones) | `stream_object`, `_verified_candidates` | nodes, `verify_replica` | serves only verified bytes, and whenever R can be met |
| Deletion, `main.py` | cascade to chunks and rows | `delete_object` | nodes | leaves nothing behind |
| Node monitor, `services/nodes.py`, `main.py` | `nodes` rows | heartbeat rounds, `available_nodes` | heartbeat; asked by all | failed nodes leave, returning ones come back |
| Failure injection, `main.py` | `nodes` and `replicas` rows | kill, revive, partition, heal, corrupt, inconsistent, chaos | nodes | the state shown is the state of the node |
| Object status, `main.py` | `objects.status` | `refresh_object_statuses` | races with upload | says what the rows say |
| Batch upload, `main.py` | a semaphore of 3 | `upload_objects_batch` | upload | one failure does not hide others |
| Local node processes, `main.py` | `node_processes` | `start_local_nodes_if_needed`, `stop_local_nodes` | node agents, earlier coordinators | one process per node, and it comes up |
| Event bus, `events.py` | one queue of 100 per client | `emit`, `subscribe` | WebSocket | slow clients do not block anyone |
| Metrics, runtime counters, config | counters | queries | | |
| Dashboard, `src/frontend/app.js` | browser state | polling, WebSocket | API | shows the latest state |

What is hard here: checks and their consequences lie several awaits apart
(verify, then write the row; count replicas, then delete the source); repair
is serialised by one lock, moves by another, while scan, reads, deletion and
failure injection take none; a call may be carried out although its caller sees
a timeout; nodes and coordinator stop at any moment. The `hazards` list of
`PROJECT.json` names each place and the properties aimed at it.

## 2. The modules

```
ReplicaStore            rows, files and nodes of one chunk; HTTP calls; faults
  |-- Repair            repair_chunk, integrity_scan          (MCRepair)
  |     |-- RepairProofs                                      (theorems)
  |-- Rebalance         rebalance_once
  |-- ReadPath          _verified_candidates, stream_object
        \_ all three _
                      Cluster     + delete_object, crash      (MCCluster)
                        |-- implements DurableChunk           (abstract)
                        |-- ClusterProofs                     (theorems)
                              |-- ReadProofs                  (theorems)
Objects                 create_object, batch, statuses,
                        downloads and deletion of objects     (MCObjects)
  |-- ObjectsProofs                                           (theorems)
NodeAgent               one node: files, capacity, process    (MCNodeAgent)
  |-- NodeAgentProofs                                         (theorems)
        |-- SetSums       sums over a set                     (theorems)
NodeMonitor             heartbeats in time, operators         (MCNodeMonitor)
  |-- NodeMonitorProofs                                       (theorems)
```

The modules meet where one takes for granted what another shows. `ReplicaStore`
starts from what `Objects` leaves of an accepted upload (`StoredHasQuorum`) and
has data file and manifest change together, which is `Paired` of `NodeAgent`;
`Objects` has one copying and one degrading action where `Cluster` has all of
repair, moves and verification; `NodeMonitor` gives `ReplicaStore` its `Heartbeat`,
`Return` and `Lapse`.

**ReplicaStore.** Chunks share no replica state and a chunk's bytes never
change, so the modules follow one chunk whose file is `none`, `good` or `bad`.
`status` is the row of each node, `manifest` the version in the `.json` file
(`ChunkVersion` is 1: nothing in the code raises it), `serving` what the node
is, `shown` and `fresh` what the coordinator thinks of it (`status` HEALTHY in
the nodes table; heartbeat younger than `failure_timeout`; `available_nodes`
wants both, reads and scans look only at the first), `marking` the status
updates that failure-injection handlers have yet to write. `revive` and `heal`
(`Return`) write UNKNOWN whether or not the node was down: done to a serving node
that is a fault of its own kind. A call is answered
(`Answers`), raises without effect (`Fails`) or is carried out and raises
(`TimesOut`). An operation that writes the database after an answer has two
actions, the node's and the coordinator's, with everything else free to happen
between; where the coordinator only goes on to its next call the two are
merged, since nobody can tell. The initial states are those in which
`create_object` leaves an accepted chunk: at least W targets acknowledged, the
others UNREACHABLE but possibly holding the file.

**Repair.** One action per await of `repair_chunk` and `integrity_scan`, for
each task `p`: the program counter `rpPc`, the lock, and the locals `healthy`
(`rpVerified`), the snapshot of the rows (`rpSnapshot`), the nodes left in the
current loop (`rpTodo`), the answer in hand (`rpNode`, `rpVerdict`) and the rows
of the running scan (`rpScan`). The order in which the nodes of a loop are
visited is left open. `integrity_scan` takes the first 500 chunks by id: the scan
may take this chunk, and only the hypothesis of `ScanRestores` (`ScanFairness`)
supposes that it does again and again, which is so for a chunk that stays among the
first 500. A `Scanner` is the background loop; other tasks are
`POST /api/repair` handlers.

**Rebalance.** `rebalance_once` from query to row deletion; which nodes are
the most and least loaded is left open. One task stands for loop and handlers
because `_rebalance_lock` covers the whole function.

**ReadPath.** Each download verifies its candidates concurrently
(`asyncio.gather`), then fetches from one verified replica after another.

**Cluster.** All of these together with any number of `delete_object` handlers and
`Crash`, which resets every task and keeps database and files. `wanted` is a history
variable: no deletion has been requested. `moved` is another, the nodes whose file a
move has removed, kept only in instances with downloads; together with the faults it
counts what may have cost a running download its replicas (`Cost`).

**DurableChunk.** The abstract promise: while the chunk is wanted, copies are
made only from copies and the last one is not given up. `Cluster` implements it
with `copies <- Holders`, the nodes that have a file.

**NodeMonitor.** Node status in discrete time: the heartbeat round reads all
rows, calls all nodes at once and waits for the slowest; operators' handlers
change the node first and the row later, or never (502). `Slow` nodes sit
behind a real network and answer within `CALL_LIMIT` or not at all; the others
answer within the tick. `ReplicaStore` abstracts this module to the actions
`Heartbeat`, `Return` and `Lapse`.

**Objects.** Whole objects: each upload is a sequence of chunks, each stored on
its targets at once, and between any two awaits (`UploadReceive`, `UploadStore`,
`UploadStored`, `UploadUndo`, `UploadUndone`) statuses are refreshed, objects
deleted and downloaded, and the coordinator may crash. `CopyStore` and
`CopyRecord` are what these handlers meet of a repair, and of the copying half of a
move: the store may be lost or answered too late, the verification may fail, and
the copy may outlive its object, each of which leaves a file without a row. `row`
and `chunk` are the tables, `files` what the nodes hold, `phase` and `call` where
`create_object` is and its locals. `stray` is a history variable: the files that
copies and deletions have left where the code will not look for them. The write
quorum is a variable that never changes, so one run covers several. `early` marks a
download that began before the upload had been accepted. One `DELETE` at a time
runs for an object here (several in `Cluster`), and no file is removed by a move.

**NodeAgent.** The handlers of one node that touch files, with the await of
`/store` between the check of the flags and everything else, and the life of the
process: a coordinator probes and spawns it, tells it to terminate (`Terminate`),
and some time later it ends (`Terminated`); in between the coordinator may crash
and another one, or one that has been started meanwhile, may probe the node. A
crashed coordinator leaves its processes behind, and the end of one may cut a write
short anywhere (`Interrupted`: `data` may be `part`, the manifest `torn`). Two
history variables: `torn`, the chunks for which that has happened since they were
last stored or deleted, and `bereft`, the coordinators since whose start a process
of the node has ended.

Definitions whose comment begins with "Bug for the checks" are mutated forms
used to confirm that the properties can fail; no specification uses them.

## 3. The runs

| Run | Checks | Bounds | Shows |
|---|---|---|---|
| `repair_handlers` | `RepairInv`, `NoOverReplication` | 4 nodes, RF 2, W 1, 2 tasks without scan, 3 faults (down, lost, late, slow) | the lock makes concurrent repairs count each other's work |
| `repair_liveness` | `DamageFound`, `RepairRestores`, `ScanRestores` | 3 nodes, RF 2, W 1, the loop with scan, 2 faults (down, lost, corrupt, stale, slow, revive) | damage is found; RF is restored, or no source is left, for a chunk the scan may never take; of one it takes again and again only UNREACHABLE rows strand it |
| `cluster` | `TypeOK`, `NeverErased`, `NoRowWithoutChunk`, `KeepsPromise`, `RowsKeepRF` | 3 nodes, RF 2, W 1, repair, mover, deletion, 2 faults (lost, late) | nothing erases the last copy, moves keep RF, deletion is final in the metadata; refinement |
| `cluster_phantom` | `PhantomCleared` | 3 nodes, RF 2, W 2, loop, mover, 1 fault (late, crash) | rows without files are found |
| `read` | `ReadSurvives` | 3 nodes, RF 2, R 1, loop, mover, one download, 1 fault (down, lost, late, corrupt, stale, slow, revive) | with a node to spare, a failure or a move costs a download one replica at most |
| `monitor` | `MonitorTypeOK`, `Detected`, `GapBound`, `Returns` | a prompt and a slow node, interval 1, timeout 1, calls up to 2 ticks, 2 operator actions of any kind | detection and heartbeat gap are bounded; nodes come back |
| `objects` | `ObjectsInv`, `StoredHasQuorum`, `FilesListed`, `DownloadWhole`, `BatchAnswered`, `StatusCorrected` | a batch of a two-chunk and an empty object, semaphore 1, 2 nodes, RF 2, W 1 or 2, R 1, one download at a time, one fault (lost, late, bad, crash) besides any lack of available nodes | an accepted object is whole and on W nodes; its rows name its files but those left by copies and deletions; downloads that end normally are complete; every batch is answered |
| `node_agent` | `AgentInv`, `CapacityKept`, `Paired`, `AckedKept`, `NodeStarted` | 2 chunks, room for one, 2 stores at a time, 2 processes, 1 fault (die, slow, rot); one coordinator at a time, which starts, stops and crashes without bound | a node keeps what it acknowledged; a coordinator that stays up has its node in the end, unless a process of the node ended since it started |

Four nodes with RF 2, or three, give a move or repair a free target while a second
replica exists, which is what the races need; the two or three faults of the repair
runs and of `cluster` let each pair of their kinds meet. Damage and crashes are left
out of `cluster` to keep it within minutes: `cluster_phantom` has the crash,
`move_race` the damage, and the theorems of `ClusterProofs` have them all, the scan,
downloads and any number of deletions included. `read` explores as many faults and
moves as a download must survive, RF - R, and one step beyond (`WithinMargin`):
further on nothing is promised. It has the node to spare that lets a replica move;
more of them together are left to the theorem. In `objects` two chunks make the case
of an earlier one that stays when a later one fails, and the semaphore of 1 makes a
file of the batch wait. An upload may find fewer than RF nodes available without
that being counted as a fault, so that there are copies to make and one fault left
for them to fail. In `node_agent` the two chunks do not fit together, nor one twice;
a store can be let through wrongly only when another waits, and two processes and
one coordinator are what it takes to stop, crash and start again while the node is
still ending. Other sizes and more faults are left to the theorems. Symmetry over
nodes and tasks is used in safety runs only. No run disables the deadlock check.

### Disagreements

Four runs (of twelve) check what a comment, doc or test says and find it violated.

* `stale_noop` (`StaleDetected`): the stale version is `max(1, version - 1)`
  and all versions are 1, so `/inconsistent` changes nothing on the node. The
  scan finds the replica right and sets it HEALTHY. The test and the README
  claim detection and repair; the test waits for a count that the scan restores
  by itself.
* `move_race` (`MoveKeepsRF`): the rebalancer counts HEALTHY replicas when it
  decides; a replica marked CORRUPTED since then does not stop the removal of
  the source, and the chunk is left below RF. `NeverErased` still holds.
* `kill_shown` (`ShownFailed`): a heartbeat that read the row before the kill
  handler wrote FAILED overwrites it with UNREACHABLE and later ones keep that.
* `upload_shown` (`HealthyWasAccepted`): `create_object` inserts replica rows
  before it knows whether the quorum was met, and the rows of an unfinished
  upload look like any others. A repair may complete them while the upload is
  being undone; after a crash at that moment the object, with its first chunks
  only, is HEALTHY for good and downloads without an error.

Seen without a run of its own: a download reads the HEALTHY rows of a chunk and then
verifies them; a move that ends in between takes the file of one away, and the
download may be refused (`services/coordinator.py:190`) although all nodes are up
and the replica is at its new place, against "reads fail only when the configured R
cannot be met" (`src/README.md:22`). `ReadSurvives` therefore counts moves like
failures. `stop_local_nodes` tells a node to terminate and awaits its end
(`main.py:102-106`); a coordinator that starts in the meantime still reaches the
node, starts none, and stays without it, against "The coordinator automatically
starts the 8 storage-node agents" (`src/README.md:53`). `NodeStarted` excepts that
case (`bereft`). A download of an object that is still being uploaded ends normally
after the chunks there were when it began (`early`). `chaos_burst` partitions any
node the table shows HEALTHY, the last one too, although its docstring
(`main.py:443`) says that it preserves at least one (action `Chaos`).

Two consequences of properties that do hold: `GapBound` is `CALL_LIMIT +
HEARTBEAT_INTERVAL`, with the defaults 5 + 2 seconds, more than
`failure_timeout` (6): one unresponsive node makes the others unavailable for
about a second per round. And restoring has escapes. UNREACHABLE rows are never
verified again, so a chunk all of whose replicas were unreachable once stays
unrepaired although its files are intact (`Stranded`). CORRUPTED and INCONSISTENT
ones are verified again by `integrity_scan` alone, which never comes to a chunk
beyond the first 500 (`services/repair.py:172`): such a chunk, once all its rows are
marked, is left without a source (`NoSource`), whatever its files hold.

### Fairness

Weak fairness of a running task's next step: the event loop runs every ready
task and the HTTP timeout ends every call. Strong fairness of taking the lock:
`asyncio.Lock` serves its waiters in order. Strong fairness of the loop's
`RepairCall`: `repair_all` takes every chunk, for ever. That the scan
keeps taking this chunk is no part of it, because of its limit of 500, but the
hypothesis of `ScanRestores`. Weak fairness of
heartbeats and of a handler's last write. Weak fairness of
every upload's next step and of the status loop, and strong fairness of an upload
that waits for the semaphore, which wakes its waiters in order. Weak fairness of
the start-up's probe and of a spawned process binding its port or exiting, and of the end of a process that was
told to terminate, which is killed after three seconds.
Nothing obliges operators, clients or the rebalancer to start anything, nodes to
return, coordinators to stay up, or faults to happen.

## 4. The proofs

Each theorem holds for all values of the constants that satisfy the named
assumptions of its modules; these only give the constants their types and order
the quorums (1 <= W, R <= RF <= number of nodes).

`RepairProofs` proves, for any finite set of nodes, any tasks, RF, W and faults
(`StoreAssumption`, `RepairAssumption`), about repair without the other
components:

* `RepairExcludes`: `RepairSpec => []RepairInv`. A step of a task either stays on
  its side of the lock, takes the free lock or gives its own back (`LockSteps`).
* `NeverOverReplicated`: `RepairSpec => []NoOverReplication`, the reason for the
  lock. A task writes a HEALTHY row because of what it has counted since it took
  the lock, many awaits ago; the strengthening `Count` says that every HEALTHY
  row is among the replicas it has verified or will still verify, that these are
  at most RF, and fewer than RF once it copies. It is inductive because only the
  lock's holder adds HEALTHY rows. Without the lock it is false (the instance of
  `repair_handlers` shows it). The property supposes that no scan runs: a scan
  writes rows without the lock and can exceed RF.

`ClusterProofs` proves, for any finite set of nodes, any sets of repair tasks and
downloads, any RF, W, R and any faults (assumptions `StoreAssumption`,
`RepairAssumption`, `ReadAssumption`), and any number of deletions:

* `TypeCorrect`: `Spec => []TypeOK`. `TypeOK` is inductive; one lemma per
  component and per outcome of a call.
* `ClusterExcludes`: `Spec => []RepairInv`, the exclusion again with moves, reads
  and deletions, and with a crash, which empties lock and tasks together.
* `ChunkKept`: `Spec => []NeverErased`. Not inductive alone: the step that
  deletes a source's file does not look at the target. The strengthening `Kept`
  adds `MoveBacked` (while a copy is wanted, a move past its fetch has a source
  with a file, and past its check a target with a file) and `DeleteAsked` (a
  running deletion has been requested). It is inductive because the other tasks
  only add files (`RepairHolders`, `ReadHolders`, `NodeHolders`), and the move
  deletes one of two nodes both known to hold one (`MoveHolders`). A file counts
  whatever its bytes: what is proved is that code does not delete the last one, not
  that damage spares it.
* `PromiseKept`: `Spec => KeepsPromise`, the refinement of `DurableChunk`. Every
  step has one of the four effects of `Effect`, each a step of `DurableChunk` or
  a stutter.
* `RowsNeedChunk`: `Spec => []NoRowWithoutChunk`, by `RowStep`: tasks insert rows
  only while the chunk exists, and updates find no row afterwards.
* `RowsKept`: `Spec => RowsKeepRF`, an action property. The move that removes a
  row looked at the number of rows in its first step only. The strengthening
  `MoveRoom` says that until the deletion is requested at least RF rows besides
  the target's are there while it runs, and that the target has a row before the
  source's goes; the others never remove a row (`OthersKeepRows`).

`ReadProofs` proves `ReadsSurvive`: `Spec => []ReadSurvives`, for any number of
nodes, the spare ones included, any repair tasks and downloads, any R and any number
of faults and moves. A download is refused many steps after what went wrong, so the
argument counts. `Hurt` is the set of nodes that do not serve, are not shown or
hold no intact file (`NodeHurt`), have a row other than HEALTHY or are about to get
one from an operator's handler (`RowHurt`), have lost their file to a move, or are the
target it is dropping or the source it is unlisting (`MoveHurt`), or have a bad
verdict in the hands of a task that has yet to write it (`RepairDoubt`,
`ReadDoubt`). Every step adds at most one node to it, and pays for that with a fault
or with a new member of `moved` (`Paid`). A running download has at least
`RF - Cost` replicas that are not hurt (`LossBound`), so less than R only when
`Cost > RF - R`. The property's hypotheses are the instances in which the code can
promise it: all RF replicas were stored (W = RF), and nobody deletes the object or
crashes the coordinator, both of which end its downloads.

`NodeMonitorProofs` proves, for any nodes, intervals, timeouts and operator actions
(`MonitorAssumption`):

* `MonitorTyped`: `MonitorSpec => []MonitorTypeOK`.
* `GapBounded`: `[]GapBound`. `HeartbeatAge` bounds the age of a prompt node's
  heartbeat by where the round is: asleep, the time since the round's end on top
  of the slowest call; in a round not yet answered, only the timer.
* `FailureDetected`: `[]Detected`. `AgeFollows` relates two clocks: a node has not
  been down for longer than its last heartbeat is old, but for the time an answer
  given before the failure may have been on its way.

`NodeAgentProofs` proves, for any chunks, sizes, capacity, requests, processes
and faults (`AgentAssumption`):

* `OneAgent`: `AgentSpec => []AgentInv`, `FilesPaired`: `[]Paired`, and
  `AcknowledgedKept`: `[]AckedKept`. The invariant is a conjunction of two halves.
  `LifeInv` (process, port, flags, requests) is inductive by itself; `FilesInv`
  (pairs, acknowledged chunks) is inductive given that a request names a chunk.
  Two lemmas carry it: writing or removing both files may replace anything
  (`PairWritten`), and whatever an interrupted write leaves concerns a chunk that
  counts as torn (`TornWritten`).
* `CapacityRespected`: `[]CapacityKept`. A store is let through by the room it
  finds, so only deletions need a strengthening: `RoomInv` says that a damaged
  file has the byte which damage has added. The used bytes are a sum over a set;
  `SetSums` proves of the community modules' fold that it is defined
  (`SumsExist`), does not depend on the order in which it picks (`SumsAny`), and
  changes with one value by as much as the value (`SumOfUpdate`). These are
  inductions over finite sets, each done by a smallest counterexample
  (`SmallestSet`), since an induction theorem with an operator parameter cannot
  be instantiated.

`ObjectsProofs` proves, for any objects and lengths, any batch, nodes, RF, quorums,
downloads and faults (`ObjectsAssumption`), the invariants of the run
`objects`:

* `ObjectsCounted`: `ObjectsSpec => []ObjectsInv`. The counters need to know how an
  action may move an upload from one phase to the next (`PhaseStep`), and that the
  files of a batch have not begun before its admission (`BatchFirst`).
* `AcceptedHasQuorum`: `[]StoredHasQuorum`. An upload is accepted at one step but
  earns it over many: `UploadInv` says that while chunk `index` is stored, the
  chunks before it are on W nodes and those that acknowledged it hold it, unless
  the deletion has been requested. In `Objects` that alone removes files of a stored
  object; the rebalancer, which removes one after it has made another, is in `Cluster`
  (`ChunkKept`, `RowsKept`).
* `AcceptedListed`: `[]FilesListed`. Deletions make it hard: one may run while the
  upload goes on, and a crash may end it half-way, its rows still there. `ListInv`
  therefore says more of every file of an object that is being stored or was
  accepted: a row names it that a running deletion has yet to visit (`Covered`), or
  it is a copy under way or stray (`Loose`), or it belongs to the chunk being stored
  (`Current`).
* `CompleteIsWhole`: `[]DownloadWhole`, by `DownloadInv`: the list of chunks a
  download fixes when it begins is as long as the object, since an accepted upload
  stays accepted (`StoredStays`).

The actions of one upload leave all other objects alone (`UploadAside`), so each
part is proved once for the object acted on and once for the others.

Only model-checked: the liveness properties (`DamageFound`, `RepairRestores`, `ScanRestores`, `PhantomCleared`, `Returns`,
`BatchAnswered`, `StatusCorrected`, `NodeStarted`), since liveness under fairness is
out of the prover's reach. All other properties of the passing runs are proved;
the strengthenings `Count`, `MoveRoom`, `LossBound`, `HeartbeatAge`, `AgeFollows` and
`RoomInv` were first checked on the runs' instances.

## 5. Abstractions

* One chunk; its content does not change. Hashes are compared by outcome.
* A request a node has carried out late is carried out before its caller goes
  on; a request does not arrive after a later one. Each call is a connection of
  its own and the node's event loop takes them as they come, so a delayed
  request that overtakes is possible in principle and not modelled.
* Outside `NodeAgent` a full disk, a broken connection and a node's internal
  error are all a failed call. Faults are counted (`MaxFaults`), operator actions
  too (`MaxAdmin`); in `Objects` only the objects of `Visited` are downloaded or
  deleted.
* `ReplicaStore` takes a heartbeat's answer and its row, and a revive's effect and
  the UNKNOWN it writes, as one step each. In `NodeMonitor` they are apart, so a
  node may there be shown HEALTHY on the strength of an answer given just before
  its failure, or UNKNOWN just after it was shown HEALTHY again.
* In `NodeAgent` a process keeps serving until it ends: uvicorn, told to terminate,
  closes its socket a moment earlier, and a probe in that moment spawns a new one.
* `NodeAgent` measures files in small units, and a damaged file grows by one.
* `CALL_LIMIT` bounds a whole call; httpx applies its timeout to each phase.
* `repair_events`, `events`, telemetry and loads are left out.

Not modelled: the event bus and the WebSocket (events are telemetry: emit never
awaits, and nothing reads them back), the dashboard (browser code), metrics and
other queries, configuration, column migrations, `repair_events`, launchers and
deployment scripts. Totals and maxima of the runtime counters only grow.

## 6. What could be added

1. A bound on the surplus of HEALTHY rows that a scan racing a repair creates.
2. Pure operators: placement, load and gap of the rebalancer, checked against
   reference definitions.
3. `NodeAgent` as the file part of a composed `ReplicaStore` with several chunks,
   so that a full node and a torn pair meet repair and moves.
4. The late writes to the nodes table of `NodeMonitor` in `ReplicaStore`, as it has
   those to the replicas table (`marking`), and then that `NodeMonitor` implements
   its `Outage`, `Return`, `Heartbeat` and `Lapse`.
