------------------------------ MODULE NodeAgent ------------------------------
(***************************************************************************)
(* One storage node: the handlers of node_agent.py that change its files,  *)
(* and the life of its process, which a coordinator starts and stops       *)
(* (start_local_nodes_if_needed, stop_local_nodes).  The process is one    *)
(* event loop: of these handlers only /store awaits, while it reads the    *)
(* body.  The flags killed and partitioned live and die with the process,  *)
(* the files do not.  Nothing keeps a coordinator from starting while an   *)
(* earlier one is still stopping its nodes.                                *)
(***************************************************************************)
EXTENDS Naturals, FiniteSets, FiniteSetsExt

CONSTANTS
  Chunk,      \* the chunks that come to this node
  Size,       \* their sizes
  CAPACITY,   \* capacity_bytes
  Request,    \* requests to store that may be under way at once
  Process,    \* processes of this node: bound on how many there are at once
  Coordinator, \* coordinator processes: bound on how many run at once
  None,
  Faults,     \* "die": the process is killed; "slow": /health takes too long;
              \* "rot": a stored file is damaged
  MaxFaults   \* bound: how many faults happen in a behaviour

ASSUME AgentAssumption ==
  /\ IsFiniteSet(Chunk) /\ IsFiniteSet(Process)
  /\ Size \in [Chunk -> Nat \ {0}] /\ CAPACITY \in Nat
  /\ None \notin Chunk
  /\ Faults \subseteq {"die", "slow", "rot"} /\ MaxFaults \in Nat

VARIABLES
  data,          \* the .bin file of each chunk
  bytes,         \* its length
  manifest,      \* the .json file of each chunk
  killed, partitioned,
  request,       \* the chunk whose body each request is reading
  acked,         \* history: chunks stored, and not deleted, damaged or torn since
  torn,          \* history: chunks whose files the end of a process cut short
  process,       \* the processes started for this node
  ending,        \* those that have been told to terminate
  coordinator,   \* where the lifespan handler of each coordinator is
  started,       \* its node_processes
  bereft,        \* history: the coordinators since whose start a process ended
  faults

fileVars  == <<data, bytes, manifest, acked, torn>>
flagVars  == <<killed, partitioned>>
lifeVars  == <<process, ending, coordinator, started, bereft>>
agentVars == <<fileVars, flagVars, request, lifeVars, faults>>

NoFault     == UNCHANGED faults
Fault(kind) == kind \in Faults /\ faults < MaxFaults /\ faults' = faults + 1

Serving   == \E p \in Process : process[p] = "serving"
Available == Serving /\ ~killed /\ ~partitioned   \* ensure_available

AgentInit ==
  /\ data = [c \in Chunk |-> "none"] /\ manifest = [c \in Chunk |-> "none"]
  /\ bytes = [c \in Chunk |-> 0]
  /\ acked = {} /\ torn = {}
  /\ killed = FALSE /\ partitioned = FALSE
  /\ request = [q \in Request |-> None]
  /\ process = [p \in Process |-> "none"]
  /\ ending = {}
  /\ coordinator = [c \in Coordinator |-> "down"]
  /\ started = [c \in Coordinator |-> {}]
  /\ bereft = {}
  /\ faults = 0
-----------------------------------------------------------------------------
Files(c, bin, length, json) ==
  /\ data' = [data EXCEPT ![c] = bin]
  /\ bytes' = [bytes EXCEPT ![c] = length]
  /\ manifest' = [manifest EXCEPT ![c] = json]

Stored(c) ==
  /\ Files(c, "whole", Size[c], "valid")
  /\ acked' = acked \cup {c} /\ torn' = torn \ {c}

UsedBytes == MapThenSumSet(LAMBDA c : bytes[c], Chunk)   \* used_bytes

\* Bug for the checks: the body that is about to be written is not counted.
FitsUncounted(c) == UsedBytes <= CAPACITY

\* A chunk that is being stored again counts twice.
Fits(c) == UsedBytes + Size[c] <= CAPACITY

\* POST /store up to the await of file.read()
StoreStart(q, c) ==
  /\ Available
  /\ request[q] = None
  /\ request' = [request EXCEPT ![q] = c]
  /\ UNCHANGED <<fileVars, flagVars, lifeVars, faults>>

\* Bug for the checks: the file is opened before the capacity is checked.
StoreWriteOpened(q) ==
  LET c == request[q] IN
  /\ c # None
  /\ IF Fits(c) THEN Stored(c)
     ELSE Files(c, "part", 0, manifest[c]) /\ UNCHANGED <<acked, torn>>
  /\ request' = [request EXCEPT ![q] = None]
  /\ UNCHANGED <<flagVars, lifeVars, faults>>

\* The rest, without asking again whether the node is available: 507 if the
\* chunk does not fit, else both files are written and the answer is sent.
StoreWrite(q) ==
  LET c == request[q] IN
  /\ c # None
  /\ IF Fits(c) THEN Stored(c) ELSE UNCHANGED fileVars
  /\ request' = [request EXCEPT ![q] = None]
  /\ UNCHANGED <<flagVars, lifeVars, faults>>

\* Bug for the checks: the manifest is left behind.
DeleteData(c) ==
  /\ Available
  /\ Files(c, "none", 0, manifest[c])
  /\ acked' = acked \ {c} /\ torn' = torn \ {c}
  /\ UNCHANGED <<flagVars, request, lifeVars, faults>>

\* DELETE /chunk
Delete(c) ==
  /\ Available
  /\ Files(c, "none", 0, "none")
  /\ acked' = acked \ {c} /\ torn' = torn \ {c}
  /\ UNCHANGED <<flagVars, request, lifeVars, faults>>

\* POST /admin/corrupt: the marker (one byte here) is appended.
Corrupt(c) ==
  /\ Available /\ data[c] # "none"
  /\ data[c] # "bad"               \* bound: a file is damaged once
  /\ Fault("rot")
  /\ Files(c, "bad", bytes[c] + 1, manifest[c])
  /\ acked' = acked \ {c}
  /\ UNCHANGED <<torn, flagVars, request, lifeVars>>

\* POST /admin/kill, revive, partition and heal: killed agents obey as well.
SetFlags ==
  /\ Serving
  /\ \/ killed' = TRUE  /\ UNCHANGED partitioned
     \/ killed' = FALSE /\ partitioned' = FALSE
     \/ partitioned' \in BOOLEAN /\ UNCHANGED killed
  /\ UNCHANGED <<fileVars, request, lifeVars, faults>>
-----------------------------------------------------------------------------
\* What the end of the process interrupts: nothing; a store in the middle of
\* the data file, before or in the middle of the manifest; a deletion between
\* its two files; a rewriting of the manifest (POST /admin/inconsistent).
Interrupted ==
  \/ UNCHANGED fileVars
  \/ \E c \in Chunk :
       /\ \/ /\ \E q \in Request : request[q] = c
             /\ Fits(c)
             /\ \/ \E n \in 0..(Size[c] - 1) : Files(c, "part", n, manifest[c])
                \/ Files(c, "whole", Size[c], manifest[c])
                \/ Files(c, "whole", Size[c], "torn")
          \/ Available /\ Files(c, "none", 0, manifest[c])
          \/ Available /\ manifest[c] = "valid" /\ Files(c, data[c], bytes[c], "torn")
       /\ acked' = acked \ {c} /\ torn' = torn \cup {c}

\* The process ends; its requests and flags go with it, and no coordinator
\* that runs starts another one.
EndProcess(p) ==
  /\ process[p] # "none"
  /\ process' = [process EXCEPT ![p] = "none"]
  /\ ending' = ending \ {p}
  /\ bereft' = Coordinator
  /\ IF process[p] = "serving"
     THEN /\ Interrupted
          /\ request' = [q \in Request |-> None]
          /\ killed' = FALSE /\ partitioned' = FALSE
     ELSE UNCHANGED <<fileVars, request, flagVars>>
  /\ UNCHANGED <<coordinator, started>>

Die(p) == Fault("die") /\ EndProcess(p)

\* A process that was told to terminate does, or is killed, some time later.
Terminated(p) == p \in ending /\ NoFault /\ EndProcess(p)

\* Bug for the checks: the port is shared.
BindShared(p) ==
  /\ process[p] = "starting"
  /\ process' = [process EXCEPT ![p] = "serving"]
  /\ UNCHANGED <<fileVars, flagVars, request, ending, coordinator, started, bereft, faults>>

\* uvicorn binds the node's port, or exits because another process has it.
Bind(p) ==
  /\ process[p] = "starting"
  /\ process' = [process EXCEPT ![p] = IF Serving THEN "none" ELSE "serving"]
  /\ ending' = IF Serving THEN ending \ {p} ELSE ending
  /\ UNCHANGED <<fileVars, flagVars, request, coordinator, started, bereft, faults>>

CoordinatorGoto(c, label) == coordinator' = [coordinator EXCEPT ![c] = label]

CoordinatorStart(c) ==
  /\ coordinator[c] = "down"
  /\ CoordinatorGoto(c, "probing")
  /\ bereft' = bereft \ {c}
  /\ UNCHANGED <<fileVars, flagVars, request, process, ending, started, faults>>

\* Bug for the checks: a failed probe counts as an answer.
ProbeNoSpawn(c) ==
  /\ coordinator[c] = "probing"
  /\ CoordinatorGoto(c, "up")
  /\ UNCHANGED <<fileVars, flagVars, request, process, ending, started, bereft, faults>>

\* A process no coordinator has had in its node_processes and that has ended
Unused(p) == process[p] = "none" /\ \A c \in Coordinator : p \notin started[c]

\* _node_is_reachable, which a killed node is too, and one that has been told
\* to terminate and has not ended; or else Popen.  The wait for the nodes to
\* come up ends after eight seconds at the latest.
Probe(c) ==
  /\ coordinator[c] = "probing"
  /\ \/ Serving /\ NoFault /\ UNCHANGED <<process, started>>
     \/ /\ \/ ~Serving /\ NoFault
           \/ Serving /\ Fault("slow")
        /\ \E p \in Process :
             /\ Unused(p)
             /\ process' = [process EXCEPT ![p] = "starting"]
             /\ started' = [started EXCEPT ![c] = @ \cup {p}]
  /\ CoordinatorGoto(c, "up")
  /\ UNCHANGED <<fileVars, flagVars, request, ending, bereft>>

\* The lifespan handler goes on after its yield: stop_local_nodes.
CoordinatorStop(c) ==
  /\ coordinator[c] = "up"
  /\ CoordinatorGoto(c, "stopping")
  /\ UNCHANGED <<fileVars, flagVars, request, process, ending, started, bereft, faults>>

\* Each process this coordinator has started and that has not ended by itself
\* is told to terminate.  It is waited for, three seconds, across an await.
Terminate(c, p) ==
  /\ coordinator[c] = "stopping" /\ p \in started[c]
  /\ ending' = IF process[p] = "none" THEN ending ELSE ending \cup {p}
  /\ started' = [started EXCEPT ![c] = @ \ {p}]
  /\ UNCHANGED <<fileVars, flagVars, request, process, coordinator, bereft, faults>>

\* Stopped, or crashed at any moment: the nodes are sessions of their own and
\* go on.
CoordinatorEnds(c) ==
  /\ coordinator[c] # "down"
  /\ CoordinatorGoto(c, "down")
  /\ started' = [started EXCEPT ![c] = {}]
  /\ UNCHANGED <<fileVars, flagVars, request, process, ending, bereft, faults>>

AgentNext ==
  \/ SetFlags
  \/ \E q \in Request : StoreWrite(q) \/ \E c \in Chunk : StoreStart(q, c)
  \/ \E c \in Chunk : Delete(c) \/ Corrupt(c)
  \/ \E p \in Process : Die(p) \/ Terminated(p) \/ Bind(p)
  \/ \E c \in Coordinator :
       \/ CoordinatorStart(c) \/ Probe(c) \/ CoordinatorStop(c) \/ CoordinatorEnds(c)
       \/ \E p \in Process : Terminate(c, p)

AgentSpec == AgentInit /\ [][AgentNext]_agentVars

\* A coordinator's start-up and the processes' go on, and a process that has
\* been told to terminate does in the end.
AgentFairness ==
  /\ \A c \in Coordinator : WF_agentVars(Probe(c))
  /\ \A p \in Process : WF_agentVars(Bind(p)) /\ WF_agentVars(Terminated(p))

AgentFairSpec == AgentSpec /\ AgentFairness
-----------------------------------------------------------------------------
FilesTypeOK ==
  /\ data \in [Chunk -> {"none", "part", "whole", "bad"}]
  /\ bytes \in [Chunk -> Nat]
  /\ manifest \in [Chunk -> {"none", "torn", "valid"}]
  /\ acked \subseteq Chunk /\ torn \subseteq Chunk

LifeTypeOK ==
  /\ killed \in BOOLEAN /\ partitioned \in BOOLEAN
  /\ request \in [Request -> Chunk \cup {None}]
  /\ process \in [Process -> {"none", "starting", "serving"}]
  /\ ending \subseteq Process
  /\ coordinator \in [Coordinator -> {"down", "probing", "up", "stopping"}]
  /\ started \in [Coordinator -> SUBSET Process]
  /\ bereft \subseteq Coordinator
  /\ faults \in Nat

EndingRuns == \A p \in ending : process[p] # "none"

OneServes == \A p, q \in Process : process[p] = "serving" /\ process[q] = "serving" => p = q

DeadIsBlank == ~Serving => ~killed /\ ~partitioned /\ \A q \in Request : request[q] = None

\* Types; the node's port has one process at a time, and only that one has
\* requests and flags; what has ended is no longer to be terminated.
AgentInv == FilesTypeOK /\ LifeTypeOK /\ EndingRuns /\ OneServes /\ DeadIsBlank

\* The files of a node never take more than its capacity, damage apart,
\* whatever stores are under way when one is let through and whatever the
\* ends of processes have left behind.
CapacityKept == UsedBytes <= CAPACITY + Cardinality({c \in Chunk : data[c] = "bad"})

\* What the other modules take for granted of a node (ReplicaStore, FilesOK):
\* data file and manifest come and go together.  Stores and deletions of the
\* same chunk at the same time, refused stores and restarts do not change
\* that; only the end of a process in the middle of a write does, until the
\* chunk is stored again or deleted.
Paired ==
  \A c \in Chunk \ torn :
    /\ data[c] = "none" <=> manifest[c] = "none"
    /\ data[c] # "part" /\ manifest[c] # "torn"

\* A chunk whose store has been acknowledged stays whole until it is deleted,
\* damaged, or torn by the end of a process that was writing it: a store that
\* does not fit and deletions of other chunks leave it alone, restarts and
\* second processes too.
AckedKept == \A c \in acked : data[c] = "whole" /\ manifest[c] = "valid"

\* A coordinator that stays up has its node running in the end, unless a
\* process of the node has ended since that coordinator started, by itself or
\* on an earlier one's order: nothing starts it again.  It has it also when
\* the node was slow to answer the probe, or the coordinator before it crashed
\* while the process was starting.
NodeStarted ==
  \A c \in Coordinator : <>[](coordinator[c] = "up" /\ c \notin bereft) => <>[]Serving
=============================================================================
