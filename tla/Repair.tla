------------------------------- MODULE Repair -------------------------------
(***************************************************************************)
(* services/repair.py for one chunk: repair_chunk, which verifies the      *)
(* HEALTHY replicas and copies the chunk to other nodes until RF of them   *)
(* are verified, and integrity_scan, which verifies the replicas and calls *)
(* repair_chunk for a bad one.  Several tasks run this code at once: the   *)
(* background repair_loop (a Scanner: it alternates repair_all and         *)
(* integrity_scan) and the handlers of POST /api/repair.  _repair_lock     *)
(* serialises repair_chunk; the verifications of integrity_scan run        *)
(* without it.                                                             *)
(***************************************************************************)
EXTENDS ReplicaStore

CONSTANTS
  Repairer,   \* the tasks that run repair_chunk
  Scanner     \* those that also run integrity_scan

ASSUME RepairAssumption ==
  /\ Scanner \subseteq Repairer
  /\ None \notin Repairer

VARIABLES
  lock,        \* the task that holds _repair_lock, or None
  rpPc,        \* where each task is
  rpTodo,      \* nodes left to verify, to fetch from, to store on
  rpSnapshot,  \* nodes whose row was HEALTHY when the lock was taken
  rpVerified,  \* the list healthy
  rpNode,      \* the node of the call whose answer is to be applied
  rpVerdict,   \* that answer
  rpScan       \* rows integrity_scan still has to look at

repairVars == <<lock, rpPc, rpTodo, rpSnapshot, rpVerified, rpNode, rpVerdict, rpScan>>

Locked == {"verify", "verified", "fetch", "store", "check", "checked"}

RepairTypeOK ==
  /\ lock \in Repairer \cup {None}
  /\ rpPc \in [Repairer -> Locked \cup {"idle", "waiting", "scan", "scanned"}]
  /\ rpTodo \in [Repairer -> SUBSET Node]
  /\ rpSnapshot \in [Repairer -> SUBSET Node]
  /\ rpVerified \in [Repairer -> SUBSET Node]
  /\ rpNode \in [Repairer -> Node \cup {None}]
  /\ rpVerdict \in [Repairer -> Verdicts]
  /\ rpScan \in [Repairer -> SUBSET Node]
  /\ \A p \in Repairer :
       rpPc[p] \in {"verified", "check", "checked", "scanned"} => rpNode[p] \in Node

RepairInit ==
  /\ lock = None
  /\ rpPc = [p \in Repairer |-> "idle"]
  /\ rpTodo = [p \in Repairer |-> {}]
  /\ rpSnapshot = [p \in Repairer |-> {}]
  /\ rpVerified = [p \in Repairer |-> {}]
  /\ rpNode = [p \in Repairer |-> None]
  /\ rpVerdict = [p \in Repairer |-> "error"]
  /\ rpScan = [p \in Repairer |-> {}]

Goto(p, label) == rpPc' = [rpPc EXCEPT ![p] = label]
Todo(p, S)     == rpTodo' = [rpTodo EXCEPT ![p] = S]

\* repair_chunk returns: to integrity_scan's loop, or to the end of repair_all
Resume(p) == Goto(p, IF rpScan[p] = {} THEN "idle" ELSE "scan")

\* The end of repair_chunk; its local variables go out of scope.
Release(p) ==
  /\ lock' = None
  /\ Resume(p)
  /\ Todo(p, {})
  /\ rpSnapshot' = [rpSnapshot EXCEPT ![p] = {}]
  /\ rpVerified' = [rpVerified EXCEPT ![p] = {}]
  /\ rpNode' = [rpNode EXCEPT ![p] = None]
  /\ rpVerdict' = [rpVerdict EXCEPT ![p] = "error"]

\* The answer of a call, kept until the coordinator goes on with it.
Answered(p, n, v) ==
  /\ rpNode' = [rpNode EXCEPT ![p] = n]
  /\ rpVerdict' = [rpVerdict EXCEPT ![p] = v]

\* Bug for the checks: repair_chunk without async with _repair_lock.
LockIgnored == TRUE
LockFree == lock = None

\* Bug for the checks: one replica more than the policy asks for.
EnoughOffByOne(verified) == Cardinality(verified) > RF
Enough(verified) == Cardinality(verified) >= RF

\* repair_all (repair_loop or POST /api/repair) calls repair_chunk
RepairCall(p) ==
  /\ rpPc[p] = "idle"
  /\ Goto(p, "waiting")
  /\ UNCHANGED <<storeVars, lock, rpTodo, rpSnapshot, rpVerified, rpNode, rpVerdict, rpScan>>

\* async with _repair_lock, up to the first await.  Without a chunk row or
\* a HEALTHY replica there is no source, and repair_chunk returns at once.
RepairLock(p) ==
  /\ rpPc[p] = "waiting"
  /\ LockFree
  /\ IF exists /\ HealthyRows # {}
     THEN /\ lock' = p
          /\ Goto(p, "verify")
          /\ Todo(p, HealthyRows)
          /\ rpSnapshot' = [rpSnapshot EXCEPT ![p] = HealthyRows]
     ELSE /\ Resume(p)
          /\ UNCHANGED <<lock, rpTodo, rpSnapshot>>
  /\ UNCHANGED <<storeVars, rpVerified, rpNode, rpVerdict, rpScan>>

\* verify_replica of a HEALTHY row: the node answers ...
RepairVerify(p) ==
  /\ rpPc[p] = "verify"
  /\ \E n \in rpTodo[p], v \in Verdicts :
       /\ CheckCall(n, v)
       /\ Answered(p, n, v)
       /\ Todo(p, rpTodo[p] \ {n})
  /\ Goto(p, "verified")
  /\ UNCHANGED <<rowVars, fileVars, nodeVars, lock, rpSnapshot, rpVerified, rpScan>>

\* ... and the coordinator writes the row and goes on with the next one, or
\* with choosing a source among the verified replicas when they are too few.
RepairVerified(p) ==
  LET n  == rpNode[p]
      ok == IF rpVerdict[p] = "ok" THEN rpVerified[p] \cup {n} ELSE rpVerified[p]
  IN
  /\ rpPc[p] = "verified"
  /\ SetStatus(n, StatusOf(rpVerdict[p]))
  /\ \/ /\ rpTodo[p] # {}
        /\ Goto(p, "verify")
        /\ rpVerified' = [rpVerified EXCEPT ![p] = ok]
        /\ Answered(p, None, "error")
        /\ UNCHANGED <<lock, rpTodo, rpSnapshot>>
     \/ /\ rpTodo[p] = {} /\ (Enough(ok) \/ ok = {})
        /\ Release(p)
     \/ /\ rpTodo[p] = {} /\ ~Enough(ok) /\ ok # {}
        /\ Goto(p, "fetch")
        /\ Todo(p, ok)
        /\ rpVerified' = [rpVerified EXCEPT ![p] = ok]
        /\ Answered(p, None, "error")
        /\ UNCHANGED <<lock, rpSnapshot>>
  /\ UNCHANGED <<exists, fileVars, nodeVars, faults, rpScan>>

\* Bug for the checks: a node with a row of any status is no target.
TargetsWithoutRow(p) == {n \in Available : status[n] = "NONE"}

\* Candidate targets: available nodes whose row was not HEALTHY at the start.
Targets(p) == Available \ (rpSnapshot[p] \cup rpVerified[p])

\* Fetch the bytes from a verified replica; the first good answer is the
\* source, and the targets are chosen before the next await.
RepairFetch(p) ==
  /\ rpPc[p] = "fetch"
  /\ \E n \in rpTodo[p], v \in {"none", "good", "bad"} :
       /\ FetchCall(n, v)
       /\ \/ /\ v = "good" /\ Targets(p) # {}
             /\ Goto(p, "store")
             /\ Todo(p, Targets(p))
             /\ rpSnapshot' = [rpSnapshot EXCEPT ![p] = {}]
             /\ UNCHANGED <<lock, rpVerified, rpNode, rpVerdict>>
          \/ /\ v = "good" /\ Targets(p) = {}
             /\ Release(p)
          \/ /\ v # "good" /\ rpTodo[p] # {n}
             /\ Todo(p, rpTodo[p] \ {n})
             /\ UNCHANGED <<lock, rpPc, rpSnapshot, rpVerified, rpNode, rpVerdict>>
          \/ /\ v # "good" /\ rpTodo[p] = {n}
             /\ Release(p)
  /\ UNCHANGED <<rowVars, fileVars, nodeVars, rpScan>>

\* Store the source's bytes on the next target; a failed call ends in
\* repair_events as FAILED and the loop goes on.
RepairStore(p) ==
  /\ rpPc[p] = "store"
  /\ \E n \in rpTodo[p], ok \in BOOLEAN :
       /\ StoreCall(n, ok)
       /\ \/ /\ ok
             /\ Goto(p, "check")
             /\ Todo(p, rpTodo[p] \ {n})
             /\ rpNode' = [rpNode EXCEPT ![p] = n]
             /\ UNCHANGED <<lock, rpSnapshot, rpVerified, rpVerdict>>
          \/ /\ ~ok /\ rpTodo[p] # {n}
             /\ Todo(p, rpTodo[p] \ {n})
             /\ UNCHANGED <<lock, rpPc, rpSnapshot, rpVerified, rpNode, rpVerdict>>
          \/ /\ ~ok /\ rpTodo[p] = {n}
             /\ Release(p)
  /\ UNCHANGED <<rowVars, nodeVars, rpScan>>

\* verify_replica of the target: the node answers ...
RepairCheck(p) ==
  /\ rpPc[p] = "check"
  /\ \E v \in Verdicts :
       /\ CheckCall(rpNode[p], v)
       /\ Answered(p, rpNode[p], v)
  /\ Goto(p, "checked")
  /\ UNCHANGED <<rowVars, fileVars, nodeVars, lock, rpTodo, rpSnapshot, rpVerified, rpScan>>

\* ... and a verified target gets its HEALTHY row, provided the foreign key
\* still holds; any other verdict only updates the row there may be.
RepairChecked(p) ==
  LET n  == rpNode[p]
      ok == rpVerdict[p] = "ok" /\ exists
      verified == IF ok THEN rpVerified[p] \cup {n} ELSE rpVerified[p]
      done == Enough(verified) \/ rpTodo[p] = {}
  IN
  /\ rpPc[p] = "checked"
  /\ IF ok THEN PutRow(n) ELSE SetStatus(n, StatusOf(rpVerdict[p]))
  /\ \/ /\ ~done
        /\ Goto(p, "store")
        /\ rpVerified' = [rpVerified EXCEPT ![p] = verified]
        /\ Answered(p, None, "error")
        /\ UNCHANGED <<lock, rpTodo, rpSnapshot>>
     \/ done /\ Release(p)
  /\ UNCHANGED <<exists, fileVars, nodeVars, faults, rpScan>>

\* Bug for the checks: the scan looks at HEALTHY rows only.
ScanRowsHealthy == {n \in Node : shown[n] /\ status[n] = "HEALTHY"}

\* Rows integrity_scan looks at: the UNREACHABLE ones are not among them.
ScanRows == {n \in Node : shown[n] /\ status[n] \in {"HEALTHY", "CORRUPTED", "INCONSISTENT"}}

\* integrity_scan takes the first 500 chunks by chunk_id.  This one may be
\* among them at one scan and not at the next, as objects come and go: the
\* scan may take it, and nothing says that it ever does.
ScanCall(p) ==
  /\ p \in Scanner
  /\ rpPc[p] = "idle"
  /\ exists /\ ScanRows # {}
  /\ Goto(p, "scan")
  /\ rpScan' = [rpScan EXCEPT ![p] = ScanRows]
  /\ UNCHANGED <<storeVars, lock, rpTodo, rpSnapshot, rpVerified, rpNode, rpVerdict>>

ScanVerify(p) ==
  /\ rpPc[p] = "scan"
  /\ \E n \in rpScan[p], v \in Verdicts :
       /\ CheckCall(n, v)
       /\ Answered(p, n, v)
       /\ rpScan' = [rpScan EXCEPT ![p] = @ \ {n}]
  /\ Goto(p, "scanned")
  /\ UNCHANGED <<rowVars, fileVars, nodeVars, lock, rpTodo, rpSnapshot, rpVerified>>

\* A replica found bad makes the scan call repair_chunk.
ScanVerified(p) ==
  /\ rpPc[p] = "scanned"
  /\ SetStatus(rpNode[p], StatusOf(rpVerdict[p]))
  /\ IF rpVerdict[p] = "ok" THEN Resume(p) ELSE Goto(p, "waiting")
  /\ Answered(p, None, "error")
  /\ UNCHANGED <<exists, fileVars, nodeVars, faults, lock, rpTodo, rpSnapshot, rpVerified, rpScan>>

\* What a running task does next once it need not wait for the lock.
RepairWork(p) ==
  \/ RepairVerify(p) \/ RepairVerified(p)
  \/ RepairFetch(p)
  \/ RepairStore(p) \/ RepairCheck(p) \/ RepairChecked(p)
  \/ ScanVerify(p) \/ ScanVerified(p)

RepairStep(p) == RepairCall(p) \/ ScanCall(p) \/ RepairLock(p) \/ RepairWork(p)
RepairNext    == \E p \in Repairer : RepairStep(p)
-----------------------------------------------------------------------------
(***************************************************************************)
(* The component on its own, among failing nodes.  Fairness: the event     *)
(* loop runs every ready task and the HTTP timeouts end every call; an     *)
(* asyncio.Lock serves its waiters first come, first served; repair_loop   *)
(* calls repair_all again and again, which takes every chunk; heartbeats   *)
(* are sent all the time; a fault-injection handler gets to its update.    *)
(* integrity_scan is called again and again too, but reaches a given chunk *)
(* for sure only if that stays among the first 500: ScanFairness.          *)
(***************************************************************************)
repairAllVars == <<storeVars, repairVars>>

RepairAllInit == StoreInit /\ RepairInit
RepairAllNext == RepairNext \/ (StoreNext /\ UNCHANGED repairVars)

RepairFairness ==
  /\ \A p \in Repairer : WF_repairAllVars(RepairWork(p)) /\ SF_repairAllVars(RepairLock(p))
  /\ \A p \in Scanner : SF_repairAllVars(RepairCall(p))
  /\ \A n \in Node : WF_repairAllVars(Heartbeat(n) /\ UNCHANGED repairVars)
  /\ WF_repairAllVars(MarkNext /\ UNCHANGED repairVars)

ScanFairness == \A p \in Scanner : SF_repairAllVars(ScanCall(p))

RepairSpec     == RepairAllInit /\ [][RepairAllNext]_repairAllVars
RepairFairSpec == RepairSpec /\ RepairFairness
-----------------------------------------------------------------------------
\* The types of the shared state and of the repair tasks' locals; a task is
\* inside repair_chunk's critical section exactly while it holds the lock.
RepairInv ==
  /\ StoreTypeOK
  /\ RepairTypeOK
  /\ \A p \in Repairer : rpPc[p] \in Locked <=> lock = p

\* repair_all of the loop and of any number of POST /api/repair handlers,
\* run at the same time on failing nodes, never give the chunk more HEALTHY
\* replicas than its replication factor: _repair_lock makes each of them
\* count what the others added.  (Without a running integrity_scan: its
\* unlocked verification can turn a replica HEALTHY again after it has been
\* replaced.)
NoOverReplication == Scanner = {} => Cardinality(HealthyRows) <= RF

\* Damaged copies whose rows are HEALTHY do not stay so: the verification of
\* repair_all (or of integrity_scan, if it takes the chunk) marks them, or a
\* repair rewrites them.
Undetected  == {n \in HealthyRows : data[n] = "bad"}
DamageFound == Undetected # {} ~> Undetected = {}

\* "Inject a stale-replica version to demonstrate replica inconsistency
\* detection": when integrity_scan verifies a replica that the injection has
\* marked INCONSISTENT, it does not find it right.
StaleDetected ==
  [][\A p \in Scanner, n \in Node :
       status[n] = "INCONSISTENT" /\ ScanVerify(p) /\ rpNode'[p] = n
         => rpVerdict'[p] # "ok"]_repairAllVars

Restored == Cardinality(HealthyRows \cap Intact) >= RF

NodesBack == <>[](\A n \in Node : serving[n])

\* No row is HEALTHY over an undamaged file: repair_chunk has no source.
NoSource == \A n \in Node : status[n] # "HEALTHY" \/ data[n] = "bad"

\* Once the nodes are back for good, repair brings the chunk back to RF
\* intact HEALTHY replicas and keeps it there, or the chunk is left without
\* a source for good.  That is what happens to a chunk that integrity_scan
\* does not reach when all its rows have been marked, whatever the files say.
RepairRestores == NodesBack => (<>[]Restored \/ <>[]NoSource)

\* No row can ever be a source again: UNREACHABLE rows are not verified
\* anew by repair_chunk, integrity_scan or a read, whatever the files say.
Stranded == \A n \in Node : status[n] \in {"NONE", "UNREACHABLE"} \/ data[n] = "bad"

\* For a chunk that the scan takes again and again (ScanFairness, so one of
\* the first 500), CORRUPTED and INCONSISTENT rows over undamaged files do not
\* last either: it is restored unless all its rows are UNREACHABLE or their
\* files damaged.
ScanRestores == ScanFairness /\ NodesBack => (<>[]Restored \/ <>[]Stranded)
=============================================================================
