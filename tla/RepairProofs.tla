---------------------------- MODULE RepairProofs ----------------------------
(***************************************************************************)
(* Theorems about Repair, for any number of nodes, tasks and faults: the   *)
(* types and the mutual exclusion of repair_chunk, and that repairs never  *)
(* give a chunk more replicas than its replication factor.  The lemmas of  *)
(* the first section are about ReplicaStore's operators and are used for   *)
(* the other components too.                                               *)
(***************************************************************************)
EXTENDS Repair, FiniteSetTheorems, TLAPS

\* A call to a node counts at most one fault.
LEMMA CallFaults ==
  ASSUME NEW n, faults \in Nat, Answers(n) \/ Fails(n) \/ TimesOut(n)
  PROVE  faults' \in Nat
  BY DEF Answers, Fails, TimesOut, NoFault, Fault

\* Whatever becomes of a store call, the files stay well formed.
LEMMA StoreCallOK ==
  ASSUME FilesOK, faults \in Nat, NEW n \in Node, NEW ok, StoreCall(n, ok)
  PROVE  FilesOK' /\ faults' \in Nat
<1>1. faults' \in Nat
  BY CallFaults DEF StoreCall
<1>2. CASE UNCHANGED fileVars
  BY <1>1, <1>2 DEF FilesOK, fileVars
<1>3. CASE WriteFiles(n)
  BY <1>1, <1>3 DEF FilesOK, WriteFiles, ChunkVersion
<1>. QED BY <1>2, <1>3 DEF StoreCall

\* Likewise for a delete call.
LEMMA DeleteCallOK ==
  ASSUME FilesOK, faults \in Nat, NEW n \in Node, NEW ok, DeleteCall(n, ok)
  PROVE  FilesOK' /\ faults' \in Nat
<1>1. faults' \in Nat
  BY CallFaults DEF DeleteCall
<1>2. CASE UNCHANGED fileVars
  BY <1>1, <1>2 DEF FilesOK, fileVars
<1>3. CASE UnlinkFiles(n)
  BY <1>1, <1>3 DEF FilesOK, UnlinkFiles, ChunkVersion
<1>. QED BY <1>2, <1>3 DEF DeleteCall

\* A checksum call counts at most one fault.
LEMMA CheckCallOK ==
  ASSUME faults \in Nat, NEW n, NEW v, CheckCall(n, v)
  PROVE  faults' \in Nat
  BY CallFaults DEF CheckCall

\* So does a fetch.
LEMMA FetchCallOK ==
  ASSUME faults \in Nat, NEW n, NEW v, FetchCall(n, v)
  PROVE  faults' \in Nat
  BY CallFaults DEF FetchCall

\* An update of a row keeps the rows well formed.
LEMMA SetStatusOK ==
  ASSUME RowsOK, NEW n, NEW s \in RowStatus, SetStatus(n, s), exists' \in BOOLEAN
  PROVE  RowsOK'
  BY DEF RowsOK, SetStatus

\* So does an insertion.
LEMMA PutRowOK ==
  ASSUME RowsOK, NEW n, PutRow(n), exists' \in BOOLEAN
  PROVE  RowsOK'
  BY DEF RowsOK, PutRow, RowStatus

\* Every verdict stands for a row status.
LEMMA StatusOfOK ==
  ASSUME NEW v \in Verdicts
  PROVE  StatusOf(v) \in RowStatus
  BY DEF Verdicts, StatusOf, RowStatus

\* An accepted upload leaves well-formed rows and files.
LEMMA StoreInitTypes ==
  ASSUME StoreInit
  PROVE  StoreTypeOK
<1>. PICK targets \in SUBSET Node, acked \in SUBSET Node, kept \in SUBSET Node :
       /\ status = [n \in Node |-> IF n \in acked THEN "HEALTHY"
                                   ELSE IF n \in targets THEN "UNREACHABLE"
                                   ELSE "NONE"]
       /\ data = [n \in Node |-> IF n \in kept THEN "good" ELSE "none"]
       /\ manifest = [n \in Node |-> IF n \in kept THEN ChunkVersion ELSE 0]
  BY DEF StoreInit
<1>1. RowsOK
  BY DEF StoreInit, RowsOK, RowStatus
<1>2. FilesOK
  BY DEF FilesOK, ChunkVersion
<1>3. NodesOK /\ faults \in Nat
  BY DEF StoreInit, NodesOK
<1>. QED BY <1>1, <1>2, <1>3 DEF StoreTypeOK

\* The tasks start with well-formed locals.
LEMMA RepairInitTypes ==
  ASSUME RepairInit
  PROVE  RepairTypeOK
  BY DEF RepairInit, RepairTypeOK, Verdicts

\* Nodes and operators keep the shared state well formed.
LEMMA NodeStepTypes ==
  ASSUME StoreTypeOK, StoreNext
  PROVE  StoreTypeOK'
<1>. PICK n \in Node : NodeStep(n)
  BY DEF StoreNext
<1>0. RowsOK /\ FilesOK /\ NodesOK /\ faults \in Nat
  BY DEF StoreTypeOK
<1>1. CASE Outage(n)
  BY <1>0, <1>1 DEF StoreTypeOK, Outage, Fault, RowsOK, FilesOK, NodesOK, rowVars, fileVars
<1>2. CASE Return(n)
  BY <1>0, <1>2 DEF StoreTypeOK, Return, Fault, NoFault, RowsOK, FilesOK, NodesOK, rowVars, fileVars
<1>3. CASE Heartbeat(n)
  <2>1. faults' \in Nat
    BY <1>0, <1>3, CallFaults DEF Heartbeat
  <2>. QED BY <2>1, <1>0, <1>3 DEF StoreTypeOK, Heartbeat, RowsOK, FilesOK, NodesOK, rowVars, fileVars
<1>4. CASE Corrupt(n)
  <2>1. faults' \in Nat /\ RowsOK' /\ NodesOK'
    BY <1>0, <1>4 DEF Corrupt, MarkLater, Fault, RowsOK, NodesOK, rowVars, Marks
  <2>2. FilesOK'
    BY <1>0, <1>4 DEF Corrupt, FilesOK
  <2>. QED BY <2>1, <2>2 DEF StoreTypeOK
<1>5. CASE SetBack(n)
  <2>1. faults' \in Nat /\ RowsOK' /\ NodesOK'
    BY <1>0, <1>5 DEF SetBack, MarkLater, Fault, RowsOK, NodesOK, rowVars, Marks
  <2>2. FilesOK'
    BY <1>0, <1>5 DEF SetBack, FilesOK, ChunkVersion
  <2>. QED BY <2>1, <2>2 DEF StoreTypeOK
<1>6. ASSUME NEW s \in {"CORRUPTED", "INCONSISTENT"}, Mark(n, s)
      PROVE  StoreTypeOK'
  <2>1. RowsOK'
    BY <1>0, <1>6, SetStatusOK DEF Mark, RowStatus, RowsOK
  <2>2. FilesOK' /\ NodesOK' /\ faults' \in Nat
    BY <1>0, <1>6 DEF Mark, FilesOK, NodesOK, fileVars
  <2>. QED BY <2>1, <2>2 DEF StoreTypeOK
<1>7. CASE Lapse(n)
  BY <1>0, <1>7 DEF StoreTypeOK, Lapse, Fault, RowsOK, FilesOK, NodesOK, rowVars, fileVars
<1>. QED BY <1>1, <1>2, <1>3, <1>4, <1>5, <1>6, <1>7 DEF NodeStep

\* So do the tasks that repair and scan.
LEMMA RepairTypes ==
  ASSUME StoreTypeOK, RepairTypeOK, RepairNext
  PROVE  StoreTypeOK' /\ RepairTypeOK'
<1>. PICK p \in Repairer : RepairStep(p)
  BY DEF RepairNext
<1>0. RowsOK /\ FilesOK /\ NodesOK /\ faults \in Nat
  BY DEF StoreTypeOK
<1>. USE RepairAssumption DEF RepairTypeOK, Goto, Todo, Answered, Locked
<1>. DEFINE Kept == UNCHANGED <<rowVars, fileVars, nodeVars>>
<1>k. ASSUME Kept, faults' \in Nat PROVE StoreTypeOK'
  BY <1>0, <1>k DEF StoreTypeOK, RowsOK, FilesOK, NodesOK, rowVars, fileVars, nodeVars
<1>n. StoreTypeOK' <=> RowsOK' /\ FilesOK' /\ NodesOK' /\ faults' \in Nat
  BY DEF StoreTypeOK
<1>h. HealthyRows \in SUBSET Node /\ Available \in SUBSET Node /\ ScanRows \in SUBSET Node
  BY DEF HealthyRows, Available, ScanRows
<1>r. ASSUME Release(p), rpScan' = rpScan PROVE RepairTypeOK'
  BY <1>r DEF Release, Resume, Verdicts
<1>1. CASE RepairCall(p)
  <2>1. Kept /\ faults' \in Nat
    BY <1>0, <1>1 DEF RepairCall, storeVars, rowVars, fileVars, nodeVars
  <2>. QED BY <2>1, <1>k, <1>1 DEF RepairCall
<1>2. CASE RepairLock(p)
  <2>1. Kept /\ faults' \in Nat
    BY <1>0, <1>2 DEF RepairLock, storeVars, rowVars, fileVars, nodeVars
  <2>. QED BY <2>1, <1>h, <1>k, <1>2 DEF RepairLock, Resume
<1>3. CASE RepairVerify(p)
  <2>1. PICK n \in rpTodo[p], v \in Verdicts :
          CheckCall(n, v) /\ Answered(p, n, v) /\ Todo(p, rpTodo[p] \ {n})
    BY <1>3 DEF RepairVerify
  <2>2. Kept /\ faults' \in Nat
    BY <2>1, <1>0, <1>3, CheckCallOK DEF RepairVerify
  <2>. QED BY <2>1, <2>2, <1>k, <1>3 DEF RepairVerify
<1>4. CASE RepairVerified(p)
  <2>1. FilesOK' /\ NodesOK' /\ faults' \in Nat /\ exists' \in BOOLEAN
    BY <1>0, <1>4 DEF RepairVerified, RowsOK, FilesOK, NodesOK, fileVars, nodeVars
  <2>2. SetStatus(rpNode[p], StatusOf(rpVerdict[p])) /\ StatusOf(rpVerdict[p]) \in RowStatus
    BY <1>4, StatusOfOK DEF RepairVerified
  <2>4. RowsOK'
    BY <2>1, <2>2, <1>0, SetStatusOK
  <2>3. RepairTypeOK'
    <3>1. CASE Release(p)
      BY <3>1, <1>4, <1>r DEF RepairVerified
    <3>2. CASE ~Release(p)
      BY <3>2, <1>4 DEF RepairVerified, Verdicts
    <3>. QED BY <3>1, <3>2
  <2>. QED BY <2>1, <2>4, <2>3, <1>n
<1>5. CASE RepairFetch(p)
  <2>1. PICK n \in rpTodo[p], v \in {"none", "good", "bad"} : FetchCall(n, v)
    BY <1>5 DEF RepairFetch
  <2>2. Kept /\ faults' \in Nat
    BY <2>1, <1>0, <1>5, FetchCallOK DEF RepairFetch
  <2>3. Targets(p) \in SUBSET Node
    BY <1>h DEF Targets
  <2>4. RepairTypeOK'
    BY <2>3, <1>5, <1>r DEF RepairFetch
  <2>. QED BY <2>2, <2>4, <1>k
<1>6. CASE RepairStore(p)
  <2>1. PICK n \in rpTodo[p], ok \in BOOLEAN :
          /\ StoreCall(n, ok)
          /\ \/ /\ ok
                /\ Goto(p, "check")
                /\ Todo(p, rpTodo[p] \ {n})
                /\ rpNode' = [rpNode EXCEPT ![p] = n]
                /\ UNCHANGED <<lock, rpSnapshot, rpVerified, rpVerdict>>
             \/ /\ ~ok /\ rpTodo[p] # {n}
                /\ Todo(p, rpTodo[p] \ {n})
                /\ UNCHANGED <<lock, rpPc, rpSnapshot, rpVerified, rpNode, rpVerdict>>
             \/ /\ ~ok /\ rpTodo[p] = {n}
                /\ Release(p)
    BY <1>6 DEF RepairStore
  <2>2. n \in Node
    BY <2>1
  <2>3. FilesOK' /\ faults' \in Nat
    BY <2>1, <2>2, <1>0, StoreCallOK
  <2>4. RowsOK' /\ NodesOK' /\ rpScan' = rpScan
    BY <1>0, <1>6 DEF RepairStore, RowsOK, NodesOK, rowVars, nodeVars
  <2>5. RepairTypeOK'
    BY <2>1, <2>2, <2>4, <1>r
  <2>. QED BY <2>3, <2>4, <2>5, <1>n
<1>7. CASE RepairCheck(p)
  <2>1. PICK v \in Verdicts : CheckCall(rpNode[p], v) /\ Answered(p, rpNode[p], v)
    BY <1>7 DEF RepairCheck
  <2>2. Kept /\ faults' \in Nat
    BY <2>1, <1>0, <1>7, CheckCallOK DEF RepairCheck
  <2>. QED BY <2>1, <2>2, <1>k, <1>7 DEF RepairCheck
<1>8. CASE RepairChecked(p)
  <2>1. FilesOK' /\ NodesOK' /\ faults' \in Nat /\ exists' \in BOOLEAN
    BY <1>0, <1>8 DEF RepairChecked, RowsOK, FilesOK, NodesOK, fileVars, nodeVars
  <2>2. PutRow(rpNode[p]) \/ SetStatus(rpNode[p], StatusOf(rpVerdict[p]))
    BY <1>8 DEF RepairChecked
  <2>3. RowsOK'
    BY <2>1, <2>2, <1>0, SetStatusOK, PutRowOK, StatusOfOK
  <2>4. CASE Release(p)
    BY <2>1, <2>3, <2>4, <1>n, <1>8, <1>r DEF RepairChecked
  <2>5. CASE ~Release(p)
    <3>1. rpNode[p] \in Node
      BY <1>8 DEF RepairChecked
    <3>2. RepairTypeOK'
      BY <3>1, <2>5, <1>8 DEF RepairChecked, Verdicts
    <3>. QED BY <3>2, <2>1, <2>3, <1>n
  <2>. QED BY <2>4, <2>5
<1>9. CASE ScanCall(p)
  <2>1. Kept /\ faults' \in Nat
    BY <1>0, <1>9 DEF ScanCall, storeVars, rowVars, fileVars, nodeVars
  <2>. QED BY <2>1, <1>h, <1>k, <1>9 DEF ScanCall
<1>10. CASE ScanVerify(p)
  <2>1. PICK n \in rpScan[p], v \in Verdicts :
          /\ CheckCall(n, v) /\ Answered(p, n, v)
          /\ rpScan' = [rpScan EXCEPT ![p] = @ \ {n}]
    BY <1>10 DEF ScanVerify
  <2>2. Kept /\ faults' \in Nat
    BY <2>1, <1>0, <1>10, CheckCallOK DEF ScanVerify
  <2>. QED BY <2>1, <2>2, <1>k, <1>10 DEF ScanVerify
<1>11. CASE ScanVerified(p)
  <2>1. FilesOK' /\ NodesOK' /\ faults' \in Nat /\ exists' \in BOOLEAN
    BY <1>0, <1>11 DEF ScanVerified, RowsOK, FilesOK, NodesOK, fileVars, nodeVars
  <2>2. SetStatus(rpNode[p], StatusOf(rpVerdict[p])) /\ StatusOf(rpVerdict[p]) \in RowStatus
    BY <1>11, StatusOfOK DEF ScanVerified
  <2>3. RowsOK'
    BY <2>1, <2>2, <1>0, SetStatusOK
  <2>4. RepairTypeOK'
    BY <1>11 DEF ScanVerified, Resume, Verdicts
  <2>. QED BY <2>1, <2>3, <2>4, <1>n
<1>. QED
  BY <1>1, <1>2, <1>3, <1>4, <1>5, <1>6, <1>7, <1>8, <1>9, <1>10, <1>11 DEF RepairStep, RepairWork
-----------------------------------------------------------------------------
(***************************************************************************)
(* Mutual exclusion.  What a step may do to the lock and to where its task *)
(* is: go on on the same side of the lock, take it, or give it back.       *)
(***************************************************************************)
Exclusive == \A p \in Repairer : rpPc[p] \in Locked <=> lock = p

GoesOn(p) ==
  /\ lock' = lock
  /\ \E l : Goto(p, l) /\ (l \in Locked <=> rpPc[p] \in Locked)

Takes(p) ==
  /\ lock = None /\ lock' = p
  /\ Goto(p, "verify")

GivesBack(p) ==
  /\ rpPc[p] \in Locked
  /\ lock' = None
  /\ \E l : Goto(p, l) /\ l \notin Locked

\* Every step of a task is one of the three.
LEMMA LockSteps ==
  ASSUME RepairTypeOK, NEW p \in Repairer, RepairStep(p)
  PROVE  GoesOn(p) \/ Takes(p) \/ GivesBack(p)
<1>. USE DEF RepairTypeOK, Goto
<1>r. ASSUME Release(p), rpPc[p] \in Locked PROVE GivesBack(p)
  <2>1. Goto(p, IF rpScan[p] = {} THEN "idle" ELSE "scan")
    BY <1>r DEF Release, Resume
  <2>2. "idle" \notin Locked /\ "scan" \notin Locked
    BY DEF Locked
  <2>. QED BY <2>1, <2>2, <1>r DEF Release, GivesBack
<1>1. CASE RepairCall(p) \/ ScanCall(p)
  BY <1>1 DEF RepairCall, ScanCall, GoesOn, Locked
<1>2. CASE RepairLock(p)
  BY <1>2 DEF RepairLock, LockFree, Resume, GoesOn, Takes, Locked
<1>3. CASE RepairVerify(p) \/ RepairCheck(p)
  BY <1>3 DEF RepairVerify, RepairCheck, GoesOn, Locked
<1>4. CASE RepairVerified(p)
  <2>1. CASE Release(p)
    BY <2>1, <1>r, <1>4 DEF RepairVerified, Locked
  <2>2. CASE ~Release(p)
    BY <2>2, <1>4 DEF RepairVerified, GoesOn, Locked
  <2>. QED BY <2>1, <2>2
<1>5. CASE RepairFetch(p)
  <2>1. CASE Release(p)
    BY <2>1, <1>r, <1>5 DEF RepairFetch, Locked
  <2>2. CASE ~Release(p)
    BY <2>2, <1>5 DEF RepairFetch, GoesOn, Locked
  <2>. QED BY <2>1, <2>2
<1>6. CASE RepairStore(p)
  <2>1. CASE Release(p)
    BY <2>1, <1>r, <1>6 DEF RepairStore, Locked
  <2>2. CASE ~Release(p)
    BY <2>2, <1>6 DEF RepairStore, GoesOn, Locked
  <2>. QED BY <2>1, <2>2
<1>7. CASE RepairChecked(p)
  <2>1. CASE Release(p)
    BY <2>1, <1>r, <1>7 DEF RepairChecked, Locked
  <2>2. CASE ~Release(p)
    BY <2>2, <1>7 DEF RepairChecked, GoesOn, Locked
  <2>. QED BY <2>1, <2>2
<1>8. CASE ScanVerify(p) \/ ScanVerified(p)
  BY <1>8 DEF ScanVerify, ScanVerified, Resume, GoesOn, Locked
<1>. QED
  BY <1>1, <1>2, <1>3, <1>4, <1>5, <1>6, <1>7, <1>8 DEF RepairStep, RepairWork

\* None of them lets a second task in or leaves the lock taken.
LEMMA RepairExclusive ==
  ASSUME RepairTypeOK, Exclusive, RepairNext
  PROVE  Exclusive'
<1>. PICK p \in Repairer : RepairStep(p)
  BY DEF RepairNext
<1>0. p # None /\ rpPc \in [Repairer -> Locked \cup {"idle", "waiting", "scan", "scanned"}]
  BY RepairAssumption DEF RepairTypeOK
<1>1. CASE GoesOn(p)
  BY <1>0, <1>1 DEF GoesOn, Goto, Exclusive
<1>2. CASE Takes(p)
  BY <1>0, <1>2, RepairAssumption DEF Takes, Goto, Exclusive, Locked
<1>3. CASE GivesBack(p)
  BY <1>0, <1>3, RepairAssumption DEF GivesBack, Goto, Exclusive
<1>. QED BY <1>1, <1>2, <1>3, LockSteps

\* The types and the exclusion hold of the component on its own.
LEMMA RepairInvInit == RepairAllInit => RepairInv
  BY StoreInitTypes, RepairInitTypes, RepairAssumption
  DEF RepairAllInit, RepairInv, RepairInit, Locked

\* Every step keeps it.
LEMMA RepairInvStep == RepairInv /\ [RepairAllNext]_repairAllVars => RepairInv'
<1>. SUFFICES ASSUME RepairInv, [RepairAllNext]_repairAllVars PROVE RepairInv'
  OBVIOUS
<1>0. StoreTypeOK /\ RepairTypeOK /\ Exclusive
  BY DEF RepairInv, Exclusive
<1>i. Exclusive' /\ StoreTypeOK' /\ RepairTypeOK' => RepairInv'
  BY DEF RepairInv, Exclusive
<1>u. ASSUME UNCHANGED repairVars PROVE RepairTypeOK' /\ Exclusive'
  BY <1>0, <1>u DEF repairVars, RepairTypeOK, Exclusive
<1>1. CASE RepairNext
  BY <1>0, <1>1, <1>i, RepairTypes, RepairExclusive
<1>2. CASE StoreNext /\ UNCHANGED repairVars
  BY <1>0, <1>2, <1>i, <1>u, NodeStepTypes
<1>3. CASE UNCHANGED repairAllVars
  <2>1. StoreTypeOK' /\ UNCHANGED repairVars
    BY <1>0, <1>3 DEF repairAllVars, storeVars, StoreTypeOK, RowsOK, FilesOK, NodesOK
  <2>. QED BY <2>1, <1>i, <1>u
<1>. QED BY <1>1, <1>2, <1>3 DEF RepairAllNext

\* However many repair loops and POST /api/repair handlers run at once, a
\* task is inside repair_chunk's critical section exactly while it holds
\* _repair_lock, and rows, files and locals have their types.
THEOREM RepairExcludes == RepairSpec => []RepairInv
  BY RepairInvInit, RepairInvStep, PTL DEF RepairSpec
-----------------------------------------------------------------------------
(***************************************************************************)
(* No over-replication.  That the HEALTHY rows stay within RF is not       *)
(* inductive: a task adds a row because of what it has counted since it    *)
(* took the lock.  The invariant says that the count is complete and, once *)
(* the task copies, below RF.  Counted(p) are the replicas p has verified  *)
(* or will still verify.                                                   *)
(***************************************************************************)
Counting == {"verify", "verified"}
Copying  == {"fetch", "store", "check", "checked"}

Counted(p) ==
  rpVerified[p] \cup (IF rpPc[p] \in Counting THEN rpTodo[p] ELSE {})
                \cup (IF rpPc[p] = "verified" THEN {rpNode[p]} ELSE {})

CountOf(p) ==
  /\ rpPc[p] \notin {"scan", "scanned"} /\ rpScan[p] = {}
  /\ rpPc[p] \notin Locked  => rpVerified[p] = {}
  /\ rpPc[p] \in Locked     => HealthyRows \subseteq Counted(p)
  /\ rpPc[p] \in Counting   => Cardinality(Counted(p)) <= RF
  /\ rpPc[p] \in Copying    => Cardinality(rpVerified[p]) < RF

Count ==
  /\ exists
  /\ Cardinality(HealthyRows) <= RF
  /\ \A p \in Repairer : CountOf(p)

\* Sets of nodes are finite, and cardinalities of them are ordered as the
\* sets are.
LEMMA NodeSets ==
  ASSUME NEW S \in SUBSET Node, NEW T \in SUBSET S
  PROVE  /\ IsFiniteSet(S) /\ Cardinality(S) \in Nat
         /\ Cardinality(T) \in Nat /\ Cardinality(T) <= Cardinality(S)
<1>1. IsFiniteSet(S)
  BY FS_Subset, StoreAssumption
<1>2. IsFiniteSet(T) /\ Cardinality(T) <= Cardinality(S)
  BY FS_Subset, <1>1
<1>. QED BY <1>1, <1>2, FS_CardinalityType

\* One node more is at most one replica more.
LEMMA OneMore ==
  ASSUME NEW S \in SUBSET Node, NEW n
  PROVE  Cardinality(S \cup {n}) <= Cardinality(S) + 1
<1>1. IsFiniteSet(S) /\ Cardinality(S) \in Nat
  BY NodeSets
<1>. QED BY <1>1, FS_AddElement

\* What an update or an insertion does to the HEALTHY rows.
LEMMA HealthyUpdate ==
  ASSUME RowsOK, NEW n \in Node, NEW s \in RowStatus, SetStatus(n, s)
  PROVE  /\ HealthyRows' \subseteq HealthyRows \cup {n}
         /\ s # "HEALTHY" => HealthyRows' = HealthyRows \ {n}
  BY DEF RowsOK, SetStatus, HealthyRows

\* So does a row written after a copy.
LEMMA HealthyInsert ==
  ASSUME RowsOK, NEW n \in Node, PutRow(n)
  PROVE  HealthyRows' = HealthyRows \cup {n}
  BY DEF RowsOK, PutRow, HealthyRows

\* A verdict other than ok is a status other than HEALTHY.
LEMMA OkIsHealthy ==
  ASSUME NEW v \in Verdicts
  PROVE  StatusOf(v) = "HEALTHY" <=> v = "ok"
  BY DEF Verdicts, StatusOf

\* A step is the step of one task: the others' locals stay as they are.
Untouched(p) ==
  /\ rpPc'[p] = rpPc[p] /\ rpTodo'[p] = rpTodo[p]
  /\ rpVerified'[p] = rpVerified[p] /\ rpScan'[p] = rpScan[p]
  /\ rpNode'[p] = rpNode[p] /\ rpVerdict'[p] = rpVerdict[p]

\* A step of one task leaves the locals of the others alone.
LEMMA OneTask ==
  ASSUME RepairTypeOK, NEW q \in Repairer, NEW p \in Repairer \ {q}, RepairStep(q)
  PROVE  Untouched(p)
<1>. USE DEF RepairTypeOK, Goto, Todo, Answered, Resume, Untouched
<1>r. ASSUME Release(q), rpScan' = rpScan PROVE Untouched(p)
  BY <1>r DEF Release
<1>1. CASE RepairCall(q) \/ ScanCall(q) \/ RepairLock(q)
  BY <1>1 DEF RepairCall, ScanCall, RepairLock
<1>2. CASE RepairVerify(q) \/ RepairCheck(q) \/ ScanVerify(q) \/ ScanVerified(q)
  BY <1>2 DEF RepairVerify, RepairCheck, ScanVerify, ScanVerified
<1>3. CASE RepairVerified(q)
  BY <1>3, <1>r DEF RepairVerified
<1>4. CASE RepairFetch(q)
  BY <1>4, <1>r DEF RepairFetch
<1>5. CASE RepairStore(q)
  BY <1>5, <1>r DEF RepairStore
<1>6. CASE RepairChecked(q)
  BY <1>6, <1>r DEF RepairChecked
<1>. QED BY <1>1, <1>2, <1>3, <1>4, <1>5, <1>6 DEF RepairStep, RepairWork

\* The count of a task stands while another one runs: who counts holds the
\* lock, and without the lock only integrity_scan writes rows.
LEMMA CountOfOthers ==
  ASSUME RepairInv, Count, NEW q \in Repairer, NEW p \in Repairer \ {q}, RepairStep(q)
  PROVE  CountOf(p)'
<1>0. CountOf(p) /\ CountOf(q) /\ RepairTypeOK
  BY DEF Count, RepairInv
<1>1. Untouched(p)
  BY <1>0, OneTask
<1>2. CASE rpPc[p] \in Locked
  <2>1. rpPc[q] \notin Locked \cup {"scan", "scanned"}
    BY <1>0, <1>2 DEF RepairInv, CountOf
  <2>2. RepairCall(q) \/ ScanCall(q) \/ RepairLock(q)
    BY <2>1 DEF RepairStep, RepairWork, RepairVerify, RepairVerified, RepairFetch, RepairStore,
      RepairCheck, RepairChecked, ScanVerify, ScanVerified, Locked
  <2>3. HealthyRows' = HealthyRows
    BY <2>2 DEF RepairCall, ScanCall, RepairLock, storeVars, HealthyRows
  <2>4. Counted(p)' = Counted(p)
    BY <1>1 DEF Untouched, Counted
  <2>. QED BY <2>3, <2>4, <1>0, <1>1 DEF CountOf, Untouched
<1>3. CASE rpPc[p] \notin Locked
  BY <1>0, <1>1, <1>3 DEF CountOf, Untouched, Locked, Counting, Copying
<1>. QED BY <1>2, <1>3

\* The task that returns from repair_chunk has no count any more.
LEMMA CountEnds ==
  ASSUME RepairTypeOK, NEW p \in Repairer, CountOf(p), Release(p), rpScan' = rpScan
  PROVE  CountOf(p)'
  BY DEF RepairTypeOK, CountOf, Release, Resume, Goto, Locked, Counting, Copying

\* A task that writes no row counts on.
LEMMA CountQuiet ==
  ASSUME RepairInv, Count, NEW p \in Repairer, status' = status,
         RepairCall(p) \/ RepairLock(p) \/ RepairVerify(p) \/ RepairFetch(p)
           \/ RepairStore(p) \/ RepairCheck(p)
  PROVE  CountOf(p)'
<1>0. CountOf(p) /\ RepairTypeOK
  BY DEF Count, RepairInv
<1>h. HealthyRows' = HealthyRows /\ HealthyRows \in SUBSET Node
  BY DEF HealthyRows
<1>. USE DEF RepairTypeOK, Goto, Todo, Answered, Locked, Counting, Copying
<1>1. CASE RepairCall(p)
  BY <1>0, <1>1 DEF RepairCall, CountOf
<1>2. CASE RepairLock(p)
  <2>1. CASE exists /\ HealthyRows # {}
    <3>1. rpPc'[p] = "verify" /\ rpVerified'[p] = {} /\ rpScan'[p] = {}
      BY <1>0, <1>2, <2>1 DEF RepairLock, CountOf
    <3>2. Counted(p)' = HealthyRows
      BY <1>0, <1>2, <2>1, <3>1 DEF RepairLock, Counted
    <3>. QED BY <1>h, <3>1, <3>2 DEF CountOf, Count
  <2>2. CASE ~(exists /\ HealthyRows # {})
    BY <1>0, <1>2, <2>2 DEF RepairLock, Resume, CountOf
  <2>. QED BY <2>1, <2>2
<1>3. CASE RepairVerify(p)
  <2>1. PICK n \in rpTodo[p], v \in Verdicts :
          Answered(p, n, v) /\ Todo(p, rpTodo[p] \ {n})
    BY <1>3 DEF RepairVerify
  <2>2. rpPc[p] = "verify" /\ rpPc'[p] = "verified" /\ rpVerified' = rpVerified /\ rpScan' = rpScan
    BY <1>0, <1>3 DEF RepairVerify
  <2>3. Counted(p)' = Counted(p)
    BY <1>0, <2>1, <2>2 DEF Counted
  <2>. QED BY <1>0, <1>h, <2>2, <2>3 DEF CountOf
<1>4. CASE RepairFetch(p)
  <2>1. CASE Release(p)
    BY <2>1, <1>0, <1>4, CountEnds DEF RepairFetch
  <2>2. CASE ~Release(p)
    <3>1. rpPc[p] = "fetch" /\ rpPc'[p] \in {"fetch", "store"} /\ rpVerified' = rpVerified
          /\ rpScan' = rpScan
      BY <1>0, <1>4, <2>2 DEF RepairFetch
    <3>2. Counted(p) = rpVerified[p] /\ Counted(p)' = rpVerified[p]
      BY <3>1 DEF Counted
    <3>. QED BY <1>0, <1>h, <3>1, <3>2 DEF CountOf
  <2>. QED BY <2>1, <2>2
<1>5. CASE RepairStore(p)
  <2>1. CASE Release(p)
    BY <2>1, <1>0, <1>5, CountEnds DEF RepairStore
  <2>2. CASE ~Release(p)
    <3>1. rpPc[p] = "store" /\ rpPc'[p] \in {"store", "check"} /\ rpVerified' = rpVerified
          /\ rpScan' = rpScan
      BY <1>0, <1>5, <2>2 DEF RepairStore
    <3>2. Counted(p) = rpVerified[p] /\ Counted(p)' = rpVerified[p]
      BY <3>1 DEF Counted
    <3>. QED BY <1>0, <1>h, <3>1, <3>2 DEF CountOf
  <2>. QED BY <2>1, <2>2
<1>6. CASE RepairCheck(p)
  <2>1. rpPc[p] = "check" /\ rpPc'[p] = "checked" /\ rpVerified' = rpVerified /\ rpScan' = rpScan
    BY <1>0, <1>6 DEF RepairCheck
  <2>2. Counted(p) = rpVerified[p] /\ Counted(p)' = rpVerified[p]
    BY <2>1 DEF Counted
  <2>. QED BY <1>0, <1>h, <2>1, <2>2 DEF CountOf
<1>. QED BY <1>1, <1>2, <1>3, <1>4, <1>5, <1>6

\* The verdict on a HEALTHY replica: it was counted, and a replica found bad
\* is counted out together with its row.
LEMMA CountVerified ==
  ASSUME RepairInv, Count, NEW p \in Repairer, RepairVerified(p)
  PROVE  Cardinality(HealthyRows') <= RF /\ CountOf(p)'
<1>0. CountOf(p) /\ RepairTypeOK /\ RowsOK
  BY DEF Count, RepairInv, StoreTypeOK
<1>. DEFINE n  == rpNode[p]
            ok == IF rpVerdict[p] = "ok" THEN rpVerified[p] \cup {n} ELSE rpVerified[p]
<1>1. rpPc[p] = "verified" /\ n \in Node /\ rpVerdict[p] \in Verdicts
  BY <1>0 DEF RepairVerified, RepairTypeOK
<1>2. Counted(p) = rpVerified[p] \cup rpTodo[p] \cup {n} /\ Counted(p) \in SUBSET Node
  BY <1>0, <1>1 DEF Counted, Counting, RepairTypeOK
<1>3. HealthyRows \subseteq Counted(p) /\ Cardinality(Counted(p)) <= RF
  BY <1>0, <1>1 DEF CountOf, Locked, Counting
<1>4. SetStatus(n, StatusOf(rpVerdict[p])) /\ StatusOf(rpVerdict[p]) \in RowStatus
  BY <1>1, StatusOfOK DEF RepairVerified
<1>5. /\ HealthyRows' \subseteq HealthyRows \cup {n}
      /\ rpVerdict[p] # "ok" => HealthyRows' = HealthyRows \ {n}
  BY <1>0, <1>1, <1>4, HealthyUpdate, OkIsHealthy
<1>6. HealthyRows' \subseteq ok \cup rpTodo[p] /\ ok \cup rpTodo[p] \in SUBSET Counted(p)
  BY <1>2, <1>3, <1>5
<1>7. /\ Cardinality(HealthyRows') \in Nat /\ Cardinality(ok \cup rpTodo[p]) \in Nat
      /\ Cardinality(Counted(p)) \in Nat /\ RF \in Nat
      /\ Cardinality(HealthyRows') <= Cardinality(Counted(p))
      /\ Cardinality(ok \cup rpTodo[p]) <= Cardinality(Counted(p))
  BY <1>2, <1>6, NodeSets, StoreAssumption
<1>8. Cardinality(HealthyRows') <= RF /\ Cardinality(ok \cup rpTodo[p]) <= RF
  BY <1>3, <1>7
<1>9. CountOf(p)'
  <2>1. CASE Release(p)
    BY <2>1, <1>0, CountEnds DEF RepairVerified
  <2>2. CASE rpTodo[p] # {} /\ ~Release(p)
    <3>1. rpPc'[p] = "verify" /\ rpVerified'[p] = ok /\ rpTodo' = rpTodo /\ rpScan' = rpScan
      BY <1>0, <2>2 DEF RepairVerified, RepairTypeOK, Goto
    <3>2. Counted(p)' = ok \cup rpTodo[p]
      BY <3>1 DEF Counted, Counting
    <3>. QED BY <1>0, <1>6, <1>8, <3>1, <3>2 DEF CountOf, Locked, Counting, Copying
  <2>3. CASE rpTodo[p] = {} /\ ~Release(p)
    <3>1. /\ rpPc'[p] = "fetch" /\ rpVerified'[p] = ok /\ rpScan' = rpScan
          /\ ~(Cardinality(ok) >= RF)
      BY <1>0, <2>3 DEF RepairVerified, RepairTypeOK, Goto, Enough
    <3>2. Counted(p)' = ok /\ ok \cup rpTodo[p] = ok
      BY <2>3, <3>1 DEF Counted, Counting
    <3>3. Cardinality(ok) < RF
      BY <3>1, <3>2, <1>7
    <3>. QED BY <1>0, <1>6, <3>1, <3>2, <3>3 DEF CountOf, Locked, Counting, Copying
  <2>. QED BY <2>1, <2>2, <2>3
<1>. QED BY <1>8, <1>9

\* A verified copy: with it the count is at most RF, and the task goes on
\* only if it is below.
LEMMA CountChecked ==
  ASSUME RepairInv, Count, NEW p \in Repairer, RepairChecked(p)
  PROVE  Cardinality(HealthyRows') <= RF /\ CountOf(p)'
<1>0. CountOf(p) /\ RepairTypeOK /\ RowsOK /\ exists
  BY DEF Count, RepairInv, StoreTypeOK
<1>. DEFINE n  == rpNode[p]
            ok == IF rpVerdict[p] = "ok" THEN rpVerified[p] \cup {n} ELSE rpVerified[p]
<1>1. /\ rpPc[p] = "checked" /\ n \in Node /\ rpVerdict[p] \in Verdicts
      /\ rpVerified[p] \in SUBSET Node
  BY <1>0 DEF RepairChecked, RepairTypeOK
<1>2. HealthyRows \subseteq rpVerified[p] /\ Cardinality(rpVerified[p]) < RF
  BY <1>0, <1>1 DEF CountOf, Counted, Locked, Counting, Copying
<1>3. ASSUME rpVerdict[p] = "ok"
      PROVE  HealthyRows' \subseteq ok
  <2>1. PutRow(n)
    BY <1>0, <1>3 DEF RepairChecked
  <2>2. HealthyRows' \subseteq ok
    BY <2>1, <1>0, <1>1, <1>2, <1>3, HealthyInsert
  <2>. QED BY <2>2
<1>4. ASSUME rpVerdict[p] # "ok"
      PROVE  HealthyRows' \subseteq ok
  <2>1. SetStatus(n, StatusOf(rpVerdict[p])) /\ StatusOf(rpVerdict[p]) \in RowStatus
    BY <1>1, <1>4, StatusOfOK DEF RepairChecked
  <2>2. HealthyRows' \subseteq ok
    BY <2>1, <1>0, <1>1, <1>2, <1>4, HealthyUpdate, OkIsHealthy
  <2>. QED BY <2>2
<1>5. HealthyRows' \subseteq ok /\ ok \in SUBSET Node
  BY <1>1, <1>3, <1>4
<1>6. /\ Cardinality(ok) \in Nat /\ Cardinality(rpVerified[p]) \in Nat /\ RF \in Nat
      /\ Cardinality(HealthyRows') \in Nat /\ Cardinality(HealthyRows') <= Cardinality(ok)
  BY <1>1, <1>5, NodeSets, StoreAssumption
<1>7. Cardinality(ok) <= Cardinality(rpVerified[p]) + 1
  <2>1. Cardinality(rpVerified[p] \cup {n}) <= Cardinality(rpVerified[p]) + 1
    BY <1>1, OneMore
  <2>. QED BY <2>1, <1>6
<1>8. Cardinality(HealthyRows') <= RF
  BY <1>2, <1>6, <1>7
<1>9. CountOf(p)'
  <2>1. CASE Release(p)
    BY <2>1, <1>0, CountEnds DEF RepairChecked
  <2>2. CASE ~Release(p)
    <3>1. /\ rpPc'[p] = "store" /\ rpVerified'[p] = ok /\ rpScan' = rpScan
          /\ ~(Cardinality(ok) >= RF)
      BY <1>0, <2>2 DEF RepairChecked, RepairTypeOK, Goto, Enough
    <3>2. Counted(p)' = ok
      BY <3>1 DEF Counted, Counting
    <3>3. Cardinality(ok) < RF
      BY <3>1, <1>6
    <3>. QED BY <1>0, <1>5, <3>1, <3>2, <3>3 DEF CountOf, Locked, Counting, Copying
  <2>. QED BY <2>1, <2>2
<1>. QED BY <1>8, <1>9

\* Without a scan, a step of a task keeps the count.
LEMMA CountStep ==
  ASSUME Scanner = {}, RepairInv, Count, RepairNext
  PROVE  Count'
<1>. PICK p \in Repairer : RepairStep(p)
  BY DEF RepairNext
<1>0. exists /\ Cardinality(HealthyRows) <= RF /\ CountOf(p)
  BY DEF Count
<1>1. exists'
  BY <1>0 DEF RepairStep, RepairWork, RepairCall, RepairLock, RepairVerify, RepairVerified,
    RepairFetch, RepairStore, RepairCheck, RepairChecked, ScanCall, ScanVerify, ScanVerified,
    storeVars, rowVars
<1>2. ASSUME RepairCall(p) \/ RepairLock(p) \/ RepairVerify(p) \/ RepairFetch(p)
               \/ RepairStore(p) \/ RepairCheck(p)
      PROVE  Cardinality(HealthyRows') <= RF /\ CountOf(p)'
  <2>1. status' = status
    BY <1>2 DEF RepairCall, RepairLock, RepairVerify, RepairFetch, RepairStore, RepairCheck,
      storeVars, rowVars
  <2>2. HealthyRows' = HealthyRows
    BY <2>1 DEF HealthyRows
  <2>. QED BY <2>1, <2>2, <1>0, <1>2, CountQuiet
<1>3. ~ScanCall(p) /\ ~ScanVerify(p) /\ ~ScanVerified(p)
  BY <1>0 DEF ScanCall, ScanVerify, ScanVerified, CountOf
<1>4. Cardinality(HealthyRows') <= RF /\ CountOf(p)'
  BY <1>2, <1>3, CountVerified, CountChecked DEF RepairStep, RepairWork
<1>. QED BY <1>1, <1>4, CountOfOthers DEF Count

\* Nodes and operators turn no row HEALTHY.
LEMMA CountNodes ==
  ASSUME RepairInv, Count, StoreNext, UNCHANGED repairVars
  PROVE  Count'
<1>. PICK n \in Node : NodeStep(n)
  BY DEF StoreNext
<1>0. RowsOK /\ exists /\ Cardinality(HealthyRows) <= RF /\ RF \in Nat
  BY StoreAssumption DEF RepairInv, StoreTypeOK, Count
<1>1. exists' /\ HealthyRows' \subseteq HealthyRows
  <2>1. ASSUME NEW s \in {"CORRUPTED", "INCONSISTENT"}, Mark(n, s)
        PROVE  exists' /\ HealthyRows' \subseteq HealthyRows
    BY <2>1, <1>0, HealthyUpdate DEF Mark, RowStatus
  <2>2. CASE UNCHANGED rowVars
    BY <2>2, <1>0 DEF rowVars, HealthyRows
  <2>. QED BY <2>1, <2>2 DEF NodeStep, Outage, Return, Heartbeat, Lapse, Corrupt, SetBack
<1>2. Cardinality(HealthyRows') <= RF
  <2>1. HealthyRows \in SUBSET Node
    BY DEF HealthyRows
  <2>2. /\ Cardinality(HealthyRows) \in Nat /\ Cardinality(HealthyRows') \in Nat
        /\ Cardinality(HealthyRows') <= Cardinality(HealthyRows)
    BY <2>1, <1>1, NodeSets
  <2>. QED BY <2>2, <1>0
<1>3. ASSUME NEW p \in Repairer PROVE CountOf(p)'
  <2>1. Counted(p)' = Counted(p)
    BY DEF repairVars, Counted
  <2>2. CountOf(p)
    BY DEF Count
  <2>. QED BY <2>1, <2>2, <1>1 DEF CountOf, repairVars
<1>. QED BY <1>1, <1>2, <1>3 DEF Count

\* An accepted upload has at most RF rows.
LEMMA CountInit == RepairAllInit => Count
<1>. SUFFICES ASSUME RepairAllInit PROVE Count
  OBVIOUS
<1>. PICK targets \in SUBSET Node, acked \in SUBSET Node, kept \in SUBSET Node :
       /\ Accepted(targets, acked, kept)
       /\ status = [n \in Node |-> IF n \in acked THEN "HEALTHY"
                                   ELSE IF n \in targets THEN "UNREACHABLE"
                                   ELSE "NONE"]
  BY DEF RepairAllInit, StoreInit
<1>1. HealthyRows \in SUBSET targets /\ Cardinality(targets) <= RF
  BY DEF Accepted, HealthyRows
<1>2. /\ Cardinality(targets) \in Nat /\ Cardinality(HealthyRows) \in Nat /\ RF \in Nat
      /\ Cardinality(HealthyRows) <= Cardinality(targets)
  BY <1>1, NodeSets, StoreAssumption
<1>3. Cardinality(HealthyRows) <= RF
  BY <1>1, <1>2
<1>. QED BY <1>3 DEF Count, CountOf, RepairAllInit, StoreInit, RepairInit, Locked, Counting, Copying

\* However many repairs run at once, without a scan they never give a chunk
\* more HEALTHY replicas than its replication factor.
THEOREM NeverOverReplicated == RepairSpec => []NoOverReplication
<1>. DEFINE Inv == RepairInv /\ (Scanner = {} => Count)
<1>1. RepairAllInit => Inv
  BY RepairInvInit, CountInit
<1>2. Inv /\ [RepairAllNext]_repairAllVars => Inv'
  <2>. SUFFICES ASSUME Inv, [RepairAllNext]_repairAllVars, Scanner = {} PROVE Count'
    BY RepairInvStep
  <2>0. RepairInv /\ Count
    OBVIOUS
  <2>1. CASE UNCHANGED repairAllVars
    <3>1. exists' = exists /\ HealthyRows' = HealthyRows /\ UNCHANGED repairVars
      BY <2>1 DEF repairAllVars, storeVars, HealthyRows
    <3>2. ASSUME NEW p \in Repairer PROVE Counted(p)' = Counted(p)
      BY <3>1 DEF repairVars, Counted
    <3>. QED BY <2>0, <3>1, <3>2 DEF Count, CountOf, repairVars
  <2>. QED BY <2>0, <2>1, CountStep, CountNodes DEF RepairAllNext
<1>3. Inv => NoOverReplication
  BY DEF Count, NoOverReplication
<1>. QED BY <1>1, <1>2, <1>3, PTL DEF RepairSpec
=============================================================================
