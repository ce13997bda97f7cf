----------------------------- MODULE ReadProofs -----------------------------
(***************************************************************************)
(* The theorem that downloads survive as many faults and moves as the read *)
(* quorum leaves room for, for any number of nodes, tasks and downloads.   *)
(*                                                                         *)
(* A download is refused when it lacks too many replicas, and what it      *)
(* lacks is spread over the whole system: a node that does not serve, a    *)
(* damaged file, a row that is not HEALTHY, and also every write still to  *)
(* come that will make it so: an operator's mark, the bad verdict of a     *)
(* verification that repair, scan or another download has yet to record,   *)
(* the rebalancer's removal of a file or a row.  The argument counts the   *)
(* replicas a download relies on that are not hurt in any of these ways:   *)
(* a fault or the removal of a moved file takes one of them, and no other  *)
(* step takes any.                                                         *)
(***************************************************************************)
EXTENDS ClusterProofs

NodeHurt == {n \in Node : ~serving[n] \/ ~shown[n] \/ n \notin Intact}

RowHurt ==
  {n \in Node : \/ status[n] # "HEALTHY"
                \/ \E s \in {"CORRUPTED", "INCONSISTENT"} : <<n, s>> \in marking}

\* Where the rebalancer has removed a file, and what it is about to remove.
MoveHurt ==
  {n \in Node : \/ n \in moved
                \/ mvPc = "drop" /\ n = mvDst
                \/ mvPc = "unlist" /\ n = mvSrc}

\* The node a repair or a scan is about to write a bad verdict for.
Judging == {"verified", "checked", "scanned"}

RepairDoubt(p) ==
  {n \in Node : rpPc[p] \in Judging /\ rpNode[p] = n /\ rpVerdict[p] # "ok"}

\* The nodes a download is about to do so for.
ReadDoubt(r) ==
  {n \in Node : \/ \E v \in Verdicts \ {"ok"} : <<n, v>> \in rdAnswer[r]
                \/ rdPc[r] = "unreadable" /\ rdNode[r][1] = n}

Hurt ==
  {n \in Node : \/ n \in NodeHurt \/ n \in RowHurt \/ n \in MoveHurt
                \/ \E p \in Repairer : n \in RepairDoubt(p)
                \/ \E r \in Reader : n \in ReadDoubt(r)}

\* The nodes a download still counts on, and those of them it can count on.
Has(r) ==
  {n \in Node : \/ rdPc[r] = "start"
                \/ n \in rdTodo[r]
                \/ rdPc[r] = "verify" /\ (n \in rdAsked[r] \/ <<n, "ok">> \in rdAnswer[r])}

Usable(r) == Has(r) \ Hurt

\* The instances the theorem is about: the object is fully replicated and
\* not deleted, and the coordinator does not crash.
FullCluster == W = RF /\ Deleter = {} /\ "crash" \notin Faults

LossBound ==
  \A r \in Reader :
    /\ rdPc[r] \notin {"served", "refused"} => Cardinality(Usable(r)) + Cost >= RF
    /\ rdPc[r] = "refused" => Cost > RF - R

Account == exists /\ MovedTypeOK /\ LossBound

\* The nodes N that a step adds are paid for, by a fault or by a move.
Paid(N) ==
  \/ N = {} /\ faults' \in {faults, faults + 1}
  \/ faults' = faults + 1 /\ \E n \in Node : N = {n}
  \/ faults' \in {faults, faults + 1} /\ \E n \in moved' \ moved : N = {n}

\* A step that hurts no other node than those paid for.
Hurts(N) == Paid(N) /\ Hurt' \subseteq Hurt \cup N

\* A checksum call's bad answer comes from a hurt node or costs a fault.
LEMMA CheckPaid ==
  ASSUME StoreTypeOK, NEW n \in Node, NEW v, CheckCall(n, v)
  PROVE  \/ faults' = faults /\ (v # "ok" => n \in NodeHurt)
         \/ faults' = faults + 1
<1>1. CASE Answers(n) /\ v = Verdict(n)
  <2>1. Verdict(n) # "ok" => n \notin Intact
    BY DEF Verdict, Intact, StoreTypeOK, FilesOK, ChunkVersion
  <2>. QED BY <1>1, <2>1 DEF Answers, NoFault, NodeHurt
<1>2. CASE Fails(n)
  BY <1>2 DEF Fails, NoFault, Fault, NodeHurt
<1>. QED BY <1>1, <1>2 DEF CheckCall

\* So does a fetch that does not bring the chunk.
LEMMA FetchPaid ==
  ASSUME StoreTypeOK, NEW n \in Node, NEW v, FetchCall(n, v)
  PROVE  \/ faults' = faults /\ (v # "good" => n \in NodeHurt)
         \/ faults' = faults + 1
<1>1. CASE Answers(n) /\ v = (IF manifest[n] = 0 THEN "none" ELSE data[n])
  <2>1. v # "good" => n \notin Intact
    BY <1>1 DEF Intact, ChunkVersion
  <2>. QED BY <1>1, <2>1 DEF Answers, NoFault, NodeHurt
<1>2. CASE Fails(n)
  BY <1>2 DEF Fails, NoFault, Fault, NodeHurt
<1>. QED BY <1>1, <1>2 DEF FetchCall

\* A store call damages nothing.
LEMMA StorePaid ==
  ASSUME StoreTypeOK, NEW n \in Node, NEW ok, StoreCall(n, ok)
  PROVE  Intact \subseteq Intact' /\ faults' \in {faults, faults + 1}
<1>1. faults' \in {faults, faults + 1}
  BY DEF StoreCall, Answers, Fails, TimesOut, NoFault, Fault
<1>2. Intact \subseteq Intact'
  BY DEF StoreCall, WriteFiles, fileVars, Intact, StoreTypeOK, FilesOK
<1>. QED BY <1>1, <1>2

\* An update hurts at most the row it writes, and not with HEALTHY; an
\* insertion hurts none.
LEMMA RowPaid ==
  ASSUME RowsOK, NEW n, marking' = marking,
         PutRow(n) \/ \E s \in RowStatus : SetStatus(n, s)
  PROVE  /\ RowHurt' \subseteq RowHurt \cup {n}
         /\ PutRow(n) \/ SetStatus(n, "HEALTHY") => RowHurt' \subseteq RowHurt
<1>1. CASE PutRow(n)
  BY <1>1 DEF PutRow, RowsOK, RowHurt
<1>2. ASSUME NEW s \in RowStatus, SetStatus(n, s)
      PROVE  RowHurt' \subseteq RowHurt \cup {n}
  BY <1>2 DEF SetStatus, RowsOK, RowHurt, RowStatus
<1>3. CASE SetStatus(n, "HEALTHY")
  BY <1>3 DEF SetStatus, RowsOK, RowHurt, RowStatus
<1>. QED BY <1>1, <1>2, <1>3

\* The parts of Hurt, one by one.
LEMMA HurtParts ==
  ASSUME NEW N, NodeHurt' \subseteq Hurt \cup N, RowHurt' \subseteq Hurt \cup N,
         MoveHurt' \subseteq Hurt \cup N,
         \A p \in Repairer : RepairDoubt(p)' \subseteq Hurt \cup N,
         \A r \in Reader : ReadDoubt(r)' \subseteq Hurt \cup N
  PROVE  Hurt' \subseteq Hurt \cup N
  BY DEF Hurt

\* Each of them is included in Hurt.
LEMMA PartsHurt ==
  /\ NodeHurt \subseteq Hurt /\ RowHurt \subseteq Hurt /\ MoveHurt \subseteq Hurt
  /\ \A p \in Repairer : RepairDoubt(p) \subseteq Hurt
  /\ \A r \in Reader : ReadDoubt(r) \subseteq Hurt
  BY DEF Hurt, NodeHurt, RowHurt, MoveHurt, RepairDoubt, ReadDoubt

\* Steps of the other components leave what moves have done alone.
Unmoved == UNCHANGED <<moveVars, moved>>

\* So they hurt no node as a move does.
LEMMA UnmovedHurt ==
  ASSUME Unmoved
  PROVE  MoveHurt' \subseteq Hurt
<1>1. MoveHurt' = MoveHurt
  BY DEF Unmoved, moveVars, MoveHurt
<1>. QED BY <1>1, PartsHurt

\* A repair step leaves nodes, marks and downloads alone, so that only files,
\* rows and its own doubt matter.
LEMMA RepairParts ==
  ASSUME RepairTypeOK, NEW p \in Repairer, RepairStep(p), UNCHANGED <<nodeVars, readVars>>, Unmoved,
         NEW N, Intact \subseteq Intact', RowHurt' \subseteq Hurt \cup N,
         RepairDoubt(p)' \subseteq Hurt \cup N
  PROVE  Hurt' \subseteq Hurt \cup N
<1>1. NodeHurt' \subseteq Hurt \cup N
  BY PartsHurt DEF NodeHurt, nodeVars
<1>2. ASSUME NEW q \in Repairer PROVE RepairDoubt(q)' \subseteq Hurt \cup N
  <2>1. CASE q # p
    <3>1. RepairDoubt(q)' = RepairDoubt(q)
      BY <2>1, OneTask DEF Untouched, RepairDoubt
    <3>. QED BY <3>1, PartsHurt
  <2>. QED BY <2>1
<1>3. ASSUME NEW r \in Reader PROVE ReadDoubt(r)' \subseteq Hurt \cup N
  <2>1. ReadDoubt(r)' = ReadDoubt(r)
    BY DEF readVars, ReadDoubt
  <2>. QED BY <2>1, PartsHurt
<1>. QED BY <1>1, <1>2, <1>3, HurtParts, UnmovedHurt

\* A call whose bad answer costs a fault, or comes from a hurt node.
LEMMA AnswerPaid ==
  ASSUME NEW n \in Node, NEW D,
         D \subseteq {n},
         \/ faults' = faults /\ (D = {} \/ n \in NodeHurt)
         \/ faults' = faults + 1
  PROVE  \E N : Paid(N) /\ D \subseteq Hurt \cup N
<1>1. CASE faults' = faults + 1
  <2>1. Paid({n})
    BY <1>1 DEF Paid
  <2>. QED BY <2>1
<1>2. CASE faults' = faults /\ (D = {} \/ n \in NodeHurt)
  <2>1. Paid({})
    BY <1>2 DEF Paid
  <2>2. D \subseteq Hurt \cup {}
    BY <1>2, PartsHurt
  <2>. QED BY <2>1, <2>2
<1>. QED BY <1>1, <1>2

\* Repair and scan hurt no node without a fault.
LEMMA RepairHurts ==
  ASSUME StoreTypeOK, RepairTypeOK, NEW p \in Repairer, RepairStep(p),
         UNCHANGED readVars, Unmoved
  PROVE  \E N : Hurts(N)
<1>0. RowsOK
  BY DEF StoreTypeOK
<1>r. UNCHANGED <<status, marking>> => RowHurt' \subseteq Hurt
  <2>1. UNCHANGED <<status, marking>> => RowHurt' = RowHurt
    BY DEF RowHurt
  <2>. QED BY <2>1, PartsHurt
<1>f. UNCHANGED fileVars => Intact \subseteq Intact'
  BY DEF fileVars, Intact
<1>n. UNCHANGED nodeVars
  BY DEF RepairStep, RepairWork, RepairCall, RepairLock, RepairVerify, RepairVerified,
    RepairFetch, RepairStore, RepairCheck, RepairChecked, ScanCall, ScanVerify, ScanVerified,
    storeVars, nodeVars
<1>e. Release(p) => RepairDoubt(p)' = {}
  BY DEF RepairTypeOK, Release, Resume, Goto, RepairDoubt, Judging
<1>. USE DEF RepairTypeOK, Goto, Todo, Answered
<1>1. CASE RepairCall(p) \/ ScanCall(p) \/ RepairLock(p)
  <2>1. UNCHANGED storeVars
    BY <1>1 DEF RepairCall, ScanCall, RepairLock
  <2>2. UNCHANGED <<rowVars, fileVars, status, marking>> /\ faults' = faults
    BY <2>1 DEF storeVars, rowVars, fileVars
  <2>3. RepairDoubt(p)' = {}
    BY <1>1 DEF RepairCall, ScanCall, RepairLock, Resume, RepairDoubt, Judging
  <2>4. Paid({})
    BY <2>2 DEF Paid
  <2>5. Hurt' \subseteq Hurt \cup {}
    BY <2>2, <2>3, <1>f, <1>n, <1>r, RepairParts
  <2>. QED BY <2>4, <2>5 DEF Hurts
<1>2. CASE RepairVerify(p) \/ ScanVerify(p) \/ RepairCheck(p)
  <2>1. PICK n \in Node, v \in Verdicts : CheckCall(n, v) /\ Answered(p, n, v)
    BY <1>2 DEF RepairVerify, ScanVerify, RepairCheck
  <2>2. UNCHANGED <<rowVars, fileVars, status, marking>>
    BY <1>2 DEF RepairVerify, ScanVerify, RepairCheck, rowVars, nodeVars
  <2>3. RepairDoubt(p)' \subseteq {n} /\ (v = "ok" => RepairDoubt(p)' = {})
    BY <2>1 DEF RepairDoubt
  <2>4. PICK N : Paid(N) /\ RepairDoubt(p)' \subseteq Hurt \cup N
    BY <2>1, <2>3, CheckPaid, AnswerPaid
  <2>5. Hurt' \subseteq Hurt \cup N
    BY <2>2, <2>4, <1>f, <1>n, <1>r, RepairParts
  <2>. QED BY <2>4, <2>5 DEF Hurts
<1>3. CASE RepairVerified(p) \/ ScanVerified(p) \/ RepairChecked(p)
  <2>. DEFINE n == rpNode[p]
              v == rpVerdict[p]
  <2>1. n \in Node /\ v \in Verdicts /\ rpPc[p] \in Judging
    BY <1>3 DEF RepairVerified, ScanVerified, RepairChecked, Judging
  <2>2. /\ exists' = exists /\ faults' = faults /\ UNCHANGED fileVars /\ marking' = marking
        /\ PutRow(n) \/ SetStatus(n, StatusOf(v))
    BY <1>3 DEF RepairVerified, ScanVerified, RepairChecked, nodeVars
  <2>3. StatusOf(v) \in RowStatus /\ (v = "ok" => StatusOf(v) = "HEALTHY")
    BY <2>1, StatusOfOK, OkIsHealthy
  <2>4. /\ RowHurt' \subseteq RowHurt \cup {n}
        /\ v = "ok" => RowHurt' \subseteq RowHurt
    BY <1>0, <2>2, <2>3, RowPaid
  <2>5. v # "ok" => n \in Hurt
    BY <2>1, PartsHurt DEF RepairDoubt
  <2>6. RowHurt' \subseteq Hurt
    BY <2>4, <2>5, PartsHurt
  <2>7. RepairDoubt(p)' = {}
    <3>1. CASE Release(p)
      BY <3>1, <1>e
    <3>2. CASE ~Release(p)
      BY <3>2, <1>3 DEF RepairVerified, ScanVerified, RepairChecked, Resume, RepairDoubt, Judging
    <3>. QED BY <3>1, <3>2
  <2>8. Paid({})
    BY <2>2 DEF Paid
  <2>9. Hurt' \subseteq Hurt \cup {}
    BY <2>2, <2>6, <2>7, <1>f, <1>n, RepairParts
  <2>. QED BY <2>8, <2>9 DEF Hurts
<1>4. CASE RepairFetch(p)
  <2>1. PICK n \in rpTodo[p], v \in {"none", "good", "bad"} : FetchCall(n, v)
    BY <1>4 DEF RepairFetch
  <2>2. UNCHANGED <<rowVars, fileVars, status, marking>>
    BY <1>4 DEF RepairFetch, rowVars, nodeVars
  <2>3. faults' \in {faults, faults + 1}
    BY <2>1, FetchPaid
  <2>4. RepairDoubt(p)' = {}
    <3>1. CASE Release(p)
      BY <3>1, <1>e
    <3>2. CASE ~Release(p)
      BY <3>2, <1>4 DEF RepairFetch, RepairDoubt, Judging
    <3>. QED BY <3>1, <3>2
  <2>5. Paid({})
    BY <2>3 DEF Paid
  <2>6. Hurt' \subseteq Hurt \cup {}
    BY <2>2, <2>4, <1>f, <1>n, <1>r, RepairParts
  <2>. QED BY <2>5, <2>6 DEF Hurts
<1>5. CASE RepairStore(p)
  <2>1. PICK n \in rpTodo[p], ok \in BOOLEAN : StoreCall(n, ok)
    BY <1>5 DEF RepairStore
  <2>2. UNCHANGED <<rowVars, status, marking>>
    BY <1>5 DEF RepairStore, rowVars, nodeVars
  <2>3. Intact \subseteq Intact' /\ faults' \in {faults, faults + 1}
    BY <2>1, StorePaid
  <2>4. RepairDoubt(p)' = {}
    <3>1. CASE Release(p)
      BY <3>1, <1>e
    <3>2. CASE ~Release(p)
      BY <3>2, <1>5 DEF RepairStore, RepairDoubt, Judging
    <3>. QED BY <3>1, <3>2
  <2>5. Paid({})
    BY <2>3 DEF Paid
  <2>6. Hurt' \subseteq Hurt \cup {}
    BY <2>2, <2>3, <2>4, <1>n, <1>r, RepairParts
  <2>. QED BY <2>5, <2>6 DEF Hurts
<1>. QED BY <1>1, <1>2, <1>3, <1>4, <1>5 DEF RepairStep, RepairWork

\* Nodes and operators hurt no node without a fault.
LEMMA NodeHurts ==
  ASSUME StoreTypeOK, NEW n \in Node, NodeStep(n), UNCHANGED <<repairVars, readVars>>, Unmoved
  PROVE  \E N : Hurts(N)
<1>0. RowsOK /\ FilesOK /\ NodesOK
  BY DEF StoreTypeOK
<1>p. ASSUME NEW N, NodeHurt' \subseteq Hurt \cup N, RowHurt' \subseteq Hurt \cup N
      PROVE  Hurt' \subseteq Hurt \cup N
  <2>1. ASSUME NEW p \in Repairer PROVE RepairDoubt(p)' = RepairDoubt(p)
    BY DEF repairVars, RepairDoubt
  <2>2. ASSUME NEW r \in Reader PROVE ReadDoubt(r)' = ReadDoubt(r)
    BY DEF readVars, ReadDoubt
  <2>. QED BY <1>p, <2>1, <2>2, HurtParts, PartsHurt, UnmovedHurt
<1>f. ASSUME faults' = faults + 1, NodeHurt' \subseteq NodeHurt \cup {n},
             RowHurt' \subseteq RowHurt \cup {n}
      PROVE  \E N : Hurts(N)
  <2>1. Paid({n})
    BY <1>f DEF Paid
  <2>2. Hurt' \subseteq Hurt \cup {n}
    BY <1>f, <1>p, PartsHurt
  <2>. QED BY <2>1, <2>2 DEF Hurts
<1>g. ASSUME faults' \in {faults, faults + 1}, NodeHurt' \subseteq Hurt, RowHurt' \subseteq Hurt
      PROVE  \E N : Hurts(N)
  <2>1. Paid({})
    BY <1>g DEF Paid
  <2>2. Hurt' \subseteq Hurt \cup {}
    BY <1>g, <1>p
  <2>. QED BY <2>1, <2>2 DEF Hurts
<1>1. CASE Outage(n)
  <2>1. faults' = faults + 1 /\ UNCHANGED rowVars
    BY <1>1 DEF Outage, Fault
  <2>2. NodeHurt' \subseteq NodeHurt \cup {n} /\ RowHurt' = RowHurt
    BY <1>0, <1>1 DEF Outage, NodesOK, NodeHurt, RowHurt, Intact, rowVars, fileVars
  <2>. QED BY <2>1, <2>2, <1>f
<1>2. CASE Return(n)
  <2>1. UNCHANGED rowVars /\ RowHurt' = RowHurt
    BY <1>2 DEF Return, RowHurt, rowVars
  <2>2. NodeHurt' \subseteq NodeHurt \cup {n}
    BY <1>0, <1>2 DEF Return, NodesOK, NodeHurt, Intact, fileVars
  <2>3. CASE serving[n]
    <3>1. faults' = faults + 1
      BY <1>2, <2>3 DEF Return, Fault
    <3>. QED BY <2>1, <2>2, <3>1, <1>f
  <2>4. CASE ~serving[n]
    <3>1. faults' = faults /\ n \in NodeHurt
      BY <1>2, <2>4 DEF Return, NoFault, NodeHurt
    <3>. QED BY <2>1, <2>2, <3>1, <1>g, PartsHurt
  <2>. QED BY <2>3, <2>4
<1>3. CASE Heartbeat(n)
  <2>1. UNCHANGED rowVars /\ RowHurt' = RowHurt
    BY <1>3 DEF Heartbeat, RowHurt, rowVars
  <2>2. CASE faults' = faults + 1
    <3>1. NodeHurt' \subseteq NodeHurt \cup {n}
      BY <1>0, <1>3 DEF Heartbeat, NodesOK, NodeHurt, Intact, fileVars
    <3>. QED BY <2>1, <2>2, <3>1, <1>f
  <2>3. CASE faults' # faults + 1
    <3>1. faults' = faults
      BY <1>3, <2>3 DEF Heartbeat, Answers, Fails, NoFault, Fault
    <3>2. NodeHurt' \subseteq NodeHurt
      BY <1>0, <1>3, <2>3 DEF Heartbeat, Fails, Fault, NodesOK, NodeHurt, Intact, fileVars
    <3>. QED BY <2>1, <3>1, <3>2, <1>g, PartsHurt
  <2>. QED BY <2>2, <2>3
<1>4. CASE Lapse(n)
  <2>1. faults' = faults + 1 /\ UNCHANGED rowVars
    BY <1>4 DEF Lapse, Fault
  <2>2. NodeHurt' = NodeHurt /\ RowHurt' = RowHurt
    BY <1>4 DEF Lapse, NodeHurt, RowHurt, Intact, rowVars, fileVars
  <2>. QED BY <2>1, <2>2, <1>f
<1>5. CASE Corrupt(n)
  <2>1. faults' = faults + 1 /\ UNCHANGED rowVars
    BY <1>5 DEF Corrupt, Fault
  <2>2. NodeHurt' \subseteq NodeHurt \cup {n} /\ RowHurt' \subseteq RowHurt \cup {n}
    BY <1>0, <1>5 DEF Corrupt, MarkLater, FilesOK, NodeHurt, RowHurt, Intact, rowVars
  <2>. QED BY <2>1, <2>2, <1>f
<1>6. CASE SetBack(n)
  <2>1. faults' = faults + 1 /\ UNCHANGED rowVars
    BY <1>6 DEF SetBack, Fault
  <2>2. NodeHurt' \subseteq NodeHurt \cup {n} /\ RowHurt' \subseteq RowHurt \cup {n}
    BY <1>0, <1>6 DEF SetBack, MarkLater, FilesOK, NodeHurt, RowHurt, Intact, rowVars
  <2>. QED BY <2>1, <2>2, <1>f
<1>7. ASSUME NEW s \in {"CORRUPTED", "INCONSISTENT"}, Mark(n, s)
      PROVE  \E N : Hurts(N)
  <2>1. /\ <<n, s>> \in marking /\ marking' = marking \ {<<n, s>>}
        /\ SetStatus(n, s) /\ exists' = exists /\ faults' = faults
        /\ UNCHANGED <<data, manifest, serving, shown>>
    BY <1>7 DEF Mark, fileVars
  <2>2. NodeHurt' = NodeHurt
    BY <2>1 DEF NodeHurt, Intact
  <2>3. RowHurt' \subseteq RowHurt
    <3>1. n \in RowHurt
      BY <2>1 DEF RowHurt
    <3>2. \A m \in Node : m # n => status'[m] = status[m]
      BY <1>0, <2>1 DEF SetStatus, RowsOK
    <3>. QED BY <3>1, <3>2, <2>1 DEF RowHurt
  <2>. QED BY <2>1, <2>2, <2>3, <1>g, PartsHurt
<1>. QED BY <1>1, <1>2, <1>3, <1>4, <1>5, <1>6, <1>7 DEF NodeStep

\* A step is the step of one download: the others' locals stay as they are.
Unread(q) ==
  /\ rdPc'[q] = rdPc[q] /\ rdAsked'[q] = rdAsked[q] /\ rdAnswer'[q] = rdAnswer[q]
  /\ rdTodo'[q] = rdTodo[q] /\ rdNode'[q] = rdNode[q]

ReadStep(r) == ReadStart(r) \/ ReadWork(r)

\* A step of one download leaves the locals of the others alone.
LEMMA OneReader ==
  ASSUME ReadTypeOK, NEW r \in Reader, NEW q \in Reader \ {r}, ReadStep(r)
  PROVE  Unread(q)
  BY DEF ReadTypeOK, ReadStep, ReadStart, ReadWork, ReadAnswer, ReadVerified, ReadQuorum,
    ReadFetch, ReadUnreadable, ReadGoto, ReadEnds, Unread

\* A download leaves nodes, marks, files and repairs alone, so that only rows
\* and its own doubt matter.
LEMMA ReadParts ==
  ASSUME ReadTypeOK, NEW r \in Reader, ReadStep(r),
         UNCHANGED <<fileVars, nodeVars, repairVars>>, Unmoved,
         NEW N, RowHurt' \subseteq Hurt \cup N, ReadDoubt(r)' \subseteq Hurt \cup N
  PROVE  Hurt' \subseteq Hurt \cup N
<1>1. NodeHurt' \subseteq Hurt \cup N
  <2>1. NodeHurt' = NodeHurt
    BY DEF NodeHurt, Intact, nodeVars, fileVars
  <2>. QED BY <2>1, PartsHurt
<1>2. ASSUME NEW p \in Repairer PROVE RepairDoubt(p)' \subseteq Hurt \cup N
  <2>1. RepairDoubt(p)' = RepairDoubt(p)
    BY DEF repairVars, RepairDoubt
  <2>. QED BY <2>1, PartsHurt
<1>3. ASSUME NEW q \in Reader PROVE ReadDoubt(q)' \subseteq Hurt \cup N
  <2>1. CASE q # r
    <3>1. ReadDoubt(q)' = ReadDoubt(q)
      BY <2>1, OneReader DEF Unread, ReadDoubt
    <3>. QED BY <3>1, PartsHurt
  <2>. QED BY <2>1
<1>. QED BY <1>1, <1>2, <1>3, HurtParts, UnmovedHurt

\* What download r counts on no more after a step was hurt or is paid for.
Loses(r, N) ==
  rdPc'[r] \notin {"served", "refused"} =>
    /\ rdPc[r] \notin {"served", "refused"}
    /\ Has(r) \subseteq Has(r)' \cup Hurt \cup N

\* A download hurts no node and loses none without a fault.
LEMMA ReadHurts ==
  ASSUME StoreTypeOK, ReadTypeOK, NEW r \in Reader, ReadStep(r), UNCHANGED repairVars, Unmoved
  PROVE  \E N : Hurts(N) /\ Loses(r, N)
<1>0. RowsOK
  BY DEF StoreTypeOK
<1>n. UNCHANGED <<nodeVars, fileVars>>
  BY DEF ReadStep, ReadWork, ReadStart, ReadAnswer, ReadVerified, ReadQuorum, ReadFetch,
    ReadUnreadable, storeVars, nodeVars, fileVars
<1>r. UNCHANGED status => RowHurt' \subseteq Hurt
  <2>1. UNCHANGED status => RowHurt' = RowHurt
    BY <1>n DEF RowHurt, nodeVars
  <2>. QED BY <2>1, PartsHurt
<1>. USE DEF ReadTypeOK, ReadGoto, ReadEnds
<1>1. CASE ReadStart(r)
  <2>1. UNCHANGED storeVars /\ rdPc[r] = "start" /\ rdAnswer' = rdAnswer
    BY <1>1 DEF ReadStart
  <2>2. UNCHANGED <<rowVars, status>> /\ faults' = faults
    BY <2>1 DEF storeVars, rowVars
  <2>3. ReadDoubt(r)' \subseteq ReadDoubt(r)
    BY <1>1, <2>1 DEF ReadStart, ReadDoubt
  <2>4. Hurt' \subseteq Hurt \cup {}
    BY <1>n, <1>r, <2>2, <2>3, ReadParts, PartsHurt DEF ReadStep
  <2>5. Paid({})
    BY <2>2 DEF Paid
  <2>6. Node \ Candidates \subseteq Hurt
    <3>1. Node \ Candidates \subseteq NodeHurt \cup RowHurt
      BY DEF Candidates, HealthyRows, NodeHurt, RowHurt
    <3>. QED BY <3>1, PartsHurt
  <2>7. Loses(r, {})
    <3>. SUFFICES ASSUME rdPc'[r] \notin {"served", "refused"}
                  PROVE  Node \subseteq Has(r)' \cup Hurt
      BY <2>1 DEF Loses, Has
    <3>1. rdPc'[r] = "verify" /\ rdAsked'[r] = Candidates
      BY <1>1 DEF ReadStart
    <3>2. Candidates \subseteq Has(r)'
      BY <3>1 DEF Has, Candidates, HealthyRows
    <3>. QED BY <2>6, <3>2
  <2>. QED BY <2>2, <2>4, <2>5, <2>7 DEF Hurts
<1>2. ASSUME NEW n \in Node, ReadAnswer(r, n)
      PROVE  \E N : Hurts(N) /\ Loses(r, N)
  <2>1. PICK v \in Verdicts :
          CheckCall(n, v) /\ rdAnswer' = [rdAnswer EXCEPT ![r] = @ \cup {<<n, v>>}]
    BY <1>2 DEF ReadAnswer
  <2>2. /\ rdPc[r] = "verify" /\ rdPc' = rdPc /\ UNCHANGED <<rowVars, status, rdTodo, rdNode>>
        /\ rdAsked'[r] = rdAsked[r] \ {n}
    BY <1>2 DEF ReadAnswer, rowVars
  <2>3. rdAnswer'[r] = rdAnswer[r] \cup {<<n, v>>}
    BY <2>1
  <2>. DEFINE D == IF v = "ok" THEN {} ELSE {n}
  <2>4. PICK N : Paid(N) /\ D \subseteq Hurt \cup N
    <3>1. D \subseteq {n} /\ (D = {} \/ v # "ok")
      OBVIOUS
    <3>2. faults' = faults + 1 \/ (faults' = faults /\ (v # "ok" => n \in NodeHurt))
      BY <2>1, CheckPaid
    <3>. HIDE DEF D
    <3>. QED BY <3>1, <3>2, AnswerPaid
  <2>5. ReadDoubt(r)' \subseteq ReadDoubt(r) \cup D
    <3>1. \A m \in Node, w \in Verdicts \ {"ok"} :
            <<m, w>> \in rdAnswer'[r] => <<m, w>> \in rdAnswer[r] \/ (m = n /\ v # "ok")
      BY <2>3
    <3>. QED BY <2>2, <3>1 DEF ReadDoubt
  <2>6. Hurt' \subseteq Hurt \cup N
    BY <1>2, <1>n, <1>r, <2>2, <2>4, <2>5, ReadParts, PartsHurt DEF ReadStep, ReadWork
  <2>7. Has(r) \ D \subseteq Has(r)'
    BY <2>2, <2>3 DEF Has
  <2>8. Loses(r, N)
    BY <2>2, <2>4, <2>7 DEF Loses
  <2>. QED BY <2>2, <2>4, <2>6, <2>8 DEF Hurts
<1>3. ASSUME NEW n \in Node, ReadVerified(r, n)
      PROVE  \E N : Hurts(N) /\ Loses(r, N)
  <2>1. PICK v \in Verdicts :
          /\ <<n, v>> \in rdAnswer[r]
          /\ SetStatus(n, StatusOf(v))
          /\ rdAnswer' = [rdAnswer EXCEPT ![r] = @ \ {<<n, v>>}]
          /\ rdTodo' = [rdTodo EXCEPT ![r] = IF v = "ok" THEN @ \cup {n} ELSE @]
    BY <1>3 DEF ReadVerified
  <2>2. /\ rdPc[r] = "verify" /\ UNCHANGED <<exists, faults, rdPc, rdAsked, rdNode>>
        /\ marking' = marking
    BY <1>3 DEF ReadVerified, nodeVars
  <2>3. /\ rdAnswer'[r] = rdAnswer[r] \ {<<n, v>>}
        /\ rdTodo'[r] = IF v = "ok" THEN rdTodo[r] \cup {n} ELSE rdTodo[r]
    BY <2>1
  <2>4. StatusOf(v) \in RowStatus /\ (v = "ok" => StatusOf(v) = "HEALTHY")
    BY <2>1, StatusOfOK, OkIsHealthy
  <2>5. /\ RowHurt' \subseteq RowHurt \cup {n}
        /\ v = "ok" => RowHurt' \subseteq RowHurt
    BY <1>0, <2>1, <2>2, <2>4, RowPaid
  <2>6. v # "ok" => n \in ReadDoubt(r)
    BY <2>1 DEF ReadDoubt
  <2>7. RowHurt' \subseteq Hurt
    BY <2>5, <2>6, PartsHurt
  <2>8. ReadDoubt(r)' \subseteq ReadDoubt(r)
    BY <2>2, <2>3 DEF ReadDoubt
  <2>9. Hurt' \subseteq Hurt \cup {}
    BY <1>3, <1>n, <2>7, <2>8, ReadParts, PartsHurt DEF ReadStep, ReadWork
  <2>10. Has(r) \subseteq Has(r)'
    BY <2>2, <2>3 DEF Has
  <2>11. Loses(r, {})
    BY <2>2, <2>10 DEF Loses
  <2>12. Paid({})
    BY <2>2 DEF Paid
  <2>. QED BY <2>2, <2>5, <2>9, <2>11, <2>12 DEF Hurts
<1>4. CASE ReadQuorum(r)
  <2>1. /\ UNCHANGED storeVars /\ rdPc[r] = "verify" /\ UNCHANGED <<rdAsked, rdAnswer>>
        /\ rdAsked[r] = {} /\ rdAnswer[r] = {}
    BY <1>4 DEF ReadQuorum
  <2>2. UNCHANGED <<rowVars, status>> /\ faults' = faults
    BY <2>1 DEF storeVars, rowVars
  <2>3. ReadDoubt(r)' = {}
    BY <1>4, <2>1 DEF ReadQuorum, ReadDoubt
  <2>4. Hurt' \subseteq Hurt \cup {}
    BY <1>4, <1>n, <1>r, <2>2, <2>3, ReadParts DEF ReadStep, ReadWork
  <2>5. Paid({})
    BY <2>2 DEF Paid
  <2>6. Loses(r, {})
    <3>1. rdPc'[r] \notin {"served", "refused"} => rdTodo'[r] = rdTodo[r]
      BY <1>4 DEF ReadQuorum
    <3>2. rdPc'[r] \notin {"served", "refused"} => Has(r) \subseteq Has(r)'
      BY <2>1, <3>1 DEF Has
    <3>. QED BY <2>1, <3>2 DEF Loses
  <2>. QED BY <2>2, <2>4, <2>5, <2>6 DEF Hurts
<1>5. CASE ReadFetch(r)
  <2>1. PICK n \in rdTodo[r], v \in {"none", "good", "bad"} :
          /\ FetchCall(n, v)
          /\ \/ /\ v = "good"
                /\ ReadEnds(r, "served")
             \/ /\ v # "good"
                /\ ReadGoto(r, "unreadable")
                /\ rdTodo' = [rdTodo EXCEPT ![r] = @ \ {n}]
                /\ rdNode' = [rdNode EXCEPT ![r] = <<n, v>>]
    BY <1>5 DEF ReadFetch
  <2>2. /\ UNCHANGED <<rowVars, status, rdAsked, rdAnswer>> /\ rdPc[r] = "fetch" /\ n \in Node
    BY <1>5 DEF ReadFetch, rowVars
  <2>. DEFINE D == IF v = "good" THEN {} ELSE {n}
  <2>3. PICK N : Paid(N) /\ D \subseteq Hurt \cup N
    <3>1. D \subseteq {n} /\ (D = {} \/ v # "good")
      OBVIOUS
    <3>2. faults' = faults + 1 \/ (faults' = faults /\ (v # "good" => n \in NodeHurt))
      BY <2>1, <2>2, FetchPaid
    <3>. HIDE DEF D
    <3>. QED BY <2>2, <3>1, <3>2, AnswerPaid
  <2>4. ReadDoubt(r)' \subseteq ReadDoubt(r) \cup D
    <3>1. CASE v = "good"
      BY <2>1, <2>2, <3>1 DEF ReadDoubt
    <3>2. CASE v # "good"
      <4>1. rdNode'[r] = <<n, v>>
        BY <2>1, <3>2
      <4>2. rdNode'[r][1] = n
        BY <4>1
      <4>3. D = {n} /\ rdAnswer'[r] = rdAnswer[r]
        BY <2>2, <3>2
      <4>. HIDE DEF D
      <4>. QED BY <4>2, <4>3 DEF ReadDoubt
    <3>. QED BY <3>1, <3>2
  <2>5. Hurt' \subseteq Hurt \cup N
    BY <1>5, <1>n, <1>r, <2>2, <2>3, <2>4, ReadParts, PartsHurt DEF ReadStep, ReadWork
  <2>6. rdPc'[r] # "served" => Has(r) \ D \subseteq Has(r)'
    BY <2>1, <2>2 DEF Has
  <2>7. Loses(r, N)
    BY <2>2, <2>3, <2>6 DEF Loses
  <2>. QED BY <2>2, <2>3, <2>5, <2>7 DEF Hurts
<1>6. CASE ReadUnreadable(r)
  <2>. DEFINE n == rdNode[r][1]
  <2>1. PICK s \in {"CORRUPTED", "UNREACHABLE"} : SetStatus(n, s)
    BY <1>6 DEF ReadUnreadable
  <2>2. /\ rdPc[r] = "unreadable" /\ UNCHANGED <<exists, faults, rdAsked, rdAnswer>>
        /\ marking' = marking
    BY <1>6 DEF ReadUnreadable, nodeVars
  <2>3. /\ RowHurt' \subseteq RowHurt \cup {n}
    BY <1>0, <2>1, <2>2, RowPaid DEF RowStatus
  <2>4. n \in Node => n \in ReadDoubt(r)
    BY <2>2 DEF ReadDoubt
  <2>5. RowHurt' \subseteq Hurt
    <3>1. RowHurt' \subseteq Node
      BY DEF RowHurt
    <3>. QED BY <2>3, <2>4, <3>1, PartsHurt
  <2>6. ReadDoubt(r)' \subseteq ReadDoubt(r)
    BY <1>6, <2>2 DEF ReadUnreadable, ReadDoubt
  <2>7. Hurt' \subseteq Hurt \cup {}
    BY <1>6, <1>n, <2>5, <2>6, ReadParts, PartsHurt DEF ReadStep, ReadWork
  <2>8. Loses(r, {})
    <3>1. rdPc'[r] \notin {"served", "refused"} => rdTodo'[r] = rdTodo[r]
      BY <1>6 DEF ReadUnreadable
    <3>2. rdPc'[r] \notin {"served", "refused"} => Has(r) \subseteq Has(r)'
      BY <2>2, <3>1 DEF Has
    <3>. QED BY <2>2, <3>2 DEF Loses
  <2>9. Paid({})
    BY <2>2 DEF Paid
  <2>. QED BY <2>2, <2>3, <2>7, <2>8, <2>9 DEF Hurts
<1>. QED BY <1>1, <1>2, <1>3, <1>4, <1>5, <1>6 DEF ReadStep, ReadWork

\* A move hurts the node whose file it removes, and no other.
LEMMA MoveHurts ==
  ASSUME Reader # {}, TypeOK, MoveNext, moved' = MovedAfter, UNCHANGED <<repairVars, readVars>>
  PROVE  \E N : Hurts(N)
<1>0. /\ StoreTypeOK /\ RowsOK /\ FilesOK /\ MoveTypeOK
  BY DEF TypeOK, StoreTypeOK
<1>n. UNCHANGED nodeVars
  BY DEF MoveNext, MoveWork, MovePick, MoveFetch, MoveStore, MoveCheck, MoveDrop, MoveRecord,
    MoveDelete, MoveUnlist, storeVars, nodeVars
<1>p. ASSUME NEW N, Intact \subseteq Intact' \cup Hurt \cup N, RowHurt' \subseteq Hurt \cup N,
             MoveHurt' \subseteq Hurt \cup N
      PROVE  Hurt' \subseteq Hurt \cup N
  <2>1. NodeHurt' \subseteq Hurt \cup N
    BY <1>n, <1>p, PartsHurt DEF NodeHurt, nodeVars
  <2>2. ASSUME NEW p \in Repairer PROVE RepairDoubt(p)' = RepairDoubt(p)
    BY DEF repairVars, RepairDoubt
  <2>3. ASSUME NEW r \in Reader PROVE ReadDoubt(r)' = ReadDoubt(r)
    BY DEF readVars, ReadDoubt
  <2>. QED BY <1>p, <2>1, <2>2, <2>3, HurtParts, PartsHurt
<1>g. ASSUME faults' \in {faults, faults + 1}, Intact \subseteq Intact' \cup Hurt,
             RowHurt' \subseteq Hurt, MoveHurt' \subseteq Hurt
      PROVE  \E N : Hurts(N)
  <2>1. Paid({})
    BY <1>g DEF Paid
  <2>2. Hurt' \subseteq Hurt \cup {}
    BY <1>g, <1>p
  <2>. QED BY <2>1, <2>2 DEF Hurts
<1>r. UNCHANGED status => RowHurt' \subseteq Hurt
  <2>1. UNCHANGED status => RowHurt' = RowHurt
    BY <1>n DEF RowHurt, nodeVars
  <2>. QED BY <2>1, PartsHurt
<1>f. UNCHANGED fileVars => Intact' = Intact
  BY DEF fileVars, Intact
<1>m. ~MoveDelete => moved' = moved
  BY DEF MovedAfter
<1>d. ASSUME NEW n \in Node, NEW ok, DeleteCall(n, ok)
      PROVE  /\ faults' \in {faults, faults + 1}
             /\ Intact \subseteq Intact' \cup {n}
             /\ n \in Intact \ Intact' => data' # data
             /\ ok => n \notin Intact'
  BY <1>0, <1>d DEF DeleteCall, Answers, Fails, TimesOut, NoFault, Fault, UnlinkFiles, fileVars,
    Intact, FilesOK
<1>. USE DEF MoveTo, MoveEnds
<1>1. CASE MovePick
  <2>1. /\ faults' = faults /\ UNCHANGED <<fileVars, status>> /\ mvPc' = "fetch"
        /\ ~MoveDelete
    BY <1>1 DEF MovePick, MoveDelete, storeVars, fileVars
  <2>2. MoveHurt' \subseteq Hurt
    BY <2>1, <1>m, PartsHurt DEF MoveHurt
  <2>. QED BY <2>1, <2>2, <1>f, <1>r, <1>g
<1>2. CASE MoveFetch
  <2>1. PICK v \in {"none", "good", "bad"} : FetchCall(mvSrc, v)
    BY <1>2 DEF MoveFetch
  <2>2. /\ UNCHANGED <<fileVars, status>> /\ mvPc' \in {"store", "idle"} /\ ~MoveDelete
        /\ mvSrc \in Node
    BY <1>0, <1>2 DEF MoveFetch, MoveDelete, rowVars, MoveTypeOK
  <2>3. faults' \in {faults, faults + 1}
    BY <1>0, <2>1, <2>2, FetchPaid
  <2>4. MoveHurt' \subseteq Hurt
    BY <2>2, <1>m, PartsHurt DEF MoveHurt
  <2>. QED BY <2>2, <2>3, <2>4, <1>f, <1>r, <1>g
<1>3. CASE MoveStore
  <2>1. PICK ok \in BOOLEAN : StoreCall(mvDst, ok)
    BY <1>3 DEF MoveStore
  <2>2. /\ UNCHANGED status /\ mvPc' \in {"check", "idle"} /\ ~MoveDelete /\ mvDst \in Node
    BY <1>0, <1>3 DEF MoveStore, MoveDelete, rowVars, MoveTypeOK
  <2>3. faults' \in {faults, faults + 1} /\ Intact \subseteq Intact'
    BY <1>0, <2>1, <2>2, StorePaid
  <2>4. MoveHurt' \subseteq Hurt
    BY <2>2, <1>m, PartsHurt DEF MoveHurt
  <2>. QED BY <2>2, <2>3, <2>4, <1>r, <1>g
<1>4. CASE MoveCheck
  <2>1. PICK v \in Verdicts :
          /\ CheckCall(mvDst, v)
          /\ \/ v = "ok" /\ MoveTo("record")
             \/ v \in {"checksum", "version"} /\ MoveTo("drop")
             \/ v = "error" /\ MoveEnds
    BY <1>4 DEF MoveCheck
  <2>2. UNCHANGED <<fileVars, status>> /\ ~MoveDelete /\ mvDst \in Node
    BY <1>0, <1>4 DEF MoveCheck, MoveDelete, rowVars, MoveTypeOK
  <2>3. faults' \in {faults, faults + 1}
    BY <1>0, <2>1, <2>2, CheckPaid
  <2>4. v \in {"checksum", "version"} => mvDst \in Hurt
    <3>1. v \in {"checksum", "version"} => mvDst \notin Intact
      BY <2>1 DEF CheckCall, Verdict, Intact
    <3>. QED BY <3>1, <2>2, PartsHurt DEF NodeHurt
  <2>5. MoveHurt' \subseteq Hurt
    BY <2>1, <2>2, <2>4, <1>m, PartsHurt DEF MoveHurt
  <2>. QED BY <2>2, <2>3, <2>5, <1>f, <1>r, <1>g
<1>5. CASE MoveDrop
  <2>1. PICK ok \in BOOLEAN : DeleteCall(mvDst, ok)
    BY <1>5 DEF MoveDrop
  <2>2. /\ UNCHANGED status /\ mvPc = "drop" /\ mvPc' = "idle" /\ ~MoveDelete /\ mvDst \in Node
    BY <1>0, <1>5 DEF MoveDrop, MoveDelete, rowVars, MoveTypeOK
  <2>3. mvDst \in Hurt
    BY <2>2, PartsHurt DEF MoveHurt
  <2>4. faults' \in {faults, faults + 1} /\ Intact \subseteq Intact' \cup Hurt
    BY <2>1, <2>2, <2>3, <1>d
  <2>5. MoveHurt' \subseteq Hurt
    BY <2>2, <1>m, PartsHurt DEF MoveHurt
  <2>. QED BY <2>2, <2>4, <2>5, <1>r, <1>g
<1>6. CASE MoveRecord
  <2>1. /\ faults' = faults /\ UNCHANGED fileVars /\ mvPc' \in {"delete", "idle"} /\ ~MoveDelete
        /\ UNCHANGED status \/ PutRow(mvDst)
    BY <1>6 DEF MoveRecord, MoveDelete
  <2>2. RowHurt' \subseteq Hurt
    <3>1. CASE UNCHANGED status
      BY <3>1, <1>r
    <3>2. CASE PutRow(mvDst)
      <4>1. RowHurt' \subseteq RowHurt
        BY <3>2, <1>0, <1>n, RowPaid DEF nodeVars
      <4>. QED BY <4>1, PartsHurt
    <3>. QED BY <2>1, <3>1, <3>2
  <2>3. MoveHurt' \subseteq Hurt
    BY <2>1, <1>m, PartsHurt DEF MoveHurt
  <2>. QED BY <2>1, <2>2, <2>3, <1>f, <1>g
<1>7. CASE MoveDelete
  <2>1. PICK ok \in BOOLEAN :
          DeleteCall(mvSrc, ok) /\ ((ok /\ MoveTo("unlist")) \/ (~ok /\ MoveEnds))
    BY <1>7 DEF MoveDelete
  <2>2. UNCHANGED status /\ mvSrc \in Node
    BY <1>0, <1>7 DEF MoveDelete, rowVars, MoveTypeOK
  <2>3. /\ faults' \in {faults, faults + 1} /\ Intact \subseteq Intact' \cup {mvSrc}
        /\ mvSrc \in Intact \ Intact' => data' # data
        /\ ok => mvSrc \notin Intact'
    BY <2>1, <2>2, <1>d
  <2>4. MoveHurt' \subseteq MoveHurt \cup moved' \cup (IF ok THEN {mvSrc} ELSE {})
    BY <2>1, <2>2 DEF MoveHurt
  <2>5. CASE mvSrc \in Hurt
    <3>1. moved' \cap Node \subseteq Hurt
      BY <2>5, PartsHurt DEF MovedAfter, MoveHurt
    <3>2. MoveHurt' \subseteq Node
      BY DEF MoveHurt
    <3>3. MoveHurt' \subseteq Hurt
      BY <2>4, <2>5, <3>1, <3>2, PartsHurt
    <3>. QED BY <2>2, <2>3, <2>5, <3>3, <1>r, <1>g
  <2>6. CASE mvSrc \notin Hurt
    <3>1. mvSrc \in Intact /\ mvSrc \notin moved
      BY <2>2, <2>6, PartsHurt DEF NodeHurt, MoveHurt
    <3>2. CASE data' = data
      <4>1. mvSrc \in Intact' /\ ~ok /\ moved' = moved
        BY <2>3, <3>1, <3>2 DEF MovedAfter
      <4>2. Intact \subseteq Intact'
        BY <2>3, <4>1
      <4>3. MoveHurt' \subseteq Hurt
        <5>1. MoveHurt' \subseteq MoveHurt
          BY <2>1, <4>1 DEF MoveHurt
        <5>. QED BY <5>1, PartsHurt
      <4>. QED BY <2>2, <2>3, <4>2, <4>3, <1>r, <1>g
    <3>3. CASE data' # data
      <4>1. moved' = moved \cup {mvSrc}
        BY <1>7, <3>3 DEF MovedAfter
      <4>2. Paid({mvSrc})
        BY <2>3, <3>1, <4>1 DEF Paid
      <4>3. MoveHurt' \subseteq Hurt \cup {mvSrc}
        <5>1. MoveHurt' \subseteq MoveHurt \cup {mvSrc}
          BY <2>4, <4>1 DEF MoveHurt
        <5>. QED BY <5>1, PartsHurt
      <4>4. Hurt' \subseteq Hurt \cup {mvSrc}
        BY <2>2, <2>3, <4>3, <1>r, <1>p
      <4>. QED BY <4>2, <4>4 DEF Hurts
    <3>. QED BY <3>2, <3>3
  <2>. QED BY <2>5, <2>6
<1>8. CASE MoveUnlist
  <2>1. /\ mvPc = "unlist" /\ mvSrc \in Node /\ mvPc' = "idle" /\ ~MoveDelete
        /\ status' = [status EXCEPT ![mvSrc] = "NONE"] /\ faults' = faults /\ UNCHANGED fileVars
    BY <1>0, <1>8 DEF MoveUnlist, MoveDelete, MoveTypeOK
  <2>2. mvSrc \in Hurt
    BY <2>1, PartsHurt DEF MoveHurt
  <2>3. RowHurt' \subseteq Hurt
    <3>1. RowHurt' \subseteq RowHurt \cup {mvSrc}
      BY <2>1, <1>0, <1>n DEF RowHurt, RowsOK, nodeVars
    <3>. QED BY <2>2, <3>1, PartsHurt
  <2>4. MoveHurt' \subseteq Hurt
    BY <2>1, <1>m, PartsHurt DEF MoveHurt
  <2>. QED BY <2>1, <2>3, <2>4, <1>f, <1>g
<1>. QED
  BY <1>1, <1>2, <1>3, <1>4, <1>5, <1>6, <1>7, <1>8 DEF MoveNext, MoveWork

\* One node less to count on is paid for by a higher cost.
LEMMA LossPaid ==
  ASSUME faults \in Nat, MovedTypeOK, MovedTypeOK', moved \subseteq moved',
         NEW r \in Reader, Cardinality(Usable(r)) + Cost >= RF,
         NEW N, Paid(N), Usable(r) \subseteq Usable(r)' \cup N
  PROVE  Cardinality(Usable(r)') + Cost' >= RF
<1>1. Usable(r) \in SUBSET Node /\ Usable(r)' \in SUBSET Node
  BY DEF Usable, Has
<1>2. /\ Cardinality(Usable(r)) \in Nat /\ Cardinality(Usable(r)') \in Nat
      /\ Cardinality(moved) \in Nat /\ Cardinality(moved') \in Nat
      /\ Cardinality(moved) <= Cardinality(moved')
      /\ RF \in Nat /\ faults' \in Nat /\ faults' >= faults
  <2>1. moved \in SUBSET Node /\ moved' \in SUBSET Node /\ moved \in SUBSET moved'
    BY DEF MovedTypeOK
  <2>2. faults' \in Nat /\ faults' >= faults
    BY DEF Paid
  <2>. QED BY <1>1, <2>1, <2>2, NodeSets, StoreAssumption
<1>3. CASE N = {}
  <2>1. Cardinality(Usable(r)) <= Cardinality(Usable(r)')
    BY <1>1, <1>3, NodeSets
  <2>. QED BY <1>2, <2>1 DEF Cost
<1>4. ASSUME NEW n \in Node, N = {n} PROVE Cardinality(Usable(r)) <= Cardinality(Usable(r)') + 1
  <2>1. Usable(r)' \cup {n} \in SUBSET Node /\ Usable(r) \in SUBSET (Usable(r)' \cup {n})
    BY <1>1, <1>4
  <2>2. /\ Cardinality(Usable(r)' \cup {n}) \in Nat
        /\ Cardinality(Usable(r)) <= Cardinality(Usable(r)' \cup {n})
    BY <2>1, NodeSets
  <2>3. Cardinality(Usable(r)' \cup {n}) <= Cardinality(Usable(r)') + 1
    BY <1>1, OneMore
  <2>. QED BY <1>2, <2>2, <2>3
<1>5. ASSUME faults' = faults + 1, NEW n \in Node, N = {n}
      PROVE  Cardinality(Usable(r)') + Cost' >= RF
  <2>1. Cardinality(Usable(r)) <= Cardinality(Usable(r)') + 1
    BY <1>4, <1>5
  <2>. QED BY <1>2, <1>5, <2>1 DEF Cost
<1>6. ASSUME NEW n \in moved' \ moved, N = {n}
      PROVE  Cardinality(Usable(r)') + Cost' >= RF
  <2>1. n \in Node
    BY DEF MovedTypeOK
  <2>2. Cardinality(Usable(r)) <= Cardinality(Usable(r)') + 1
    BY <1>4, <1>6, <2>1
  <2>3. Cardinality(moved) + 1 <= Cardinality(moved')
    <3>1. moved \cup {n} \in SUBSET moved' /\ moved' \in SUBSET Node /\ moved \in SUBSET Node
      BY <1>6 DEF MovedTypeOK
    <3>2. IsFiniteSet(moved) /\ Cardinality(moved \cup {n}) <= Cardinality(moved')
      BY <3>1, NodeSets
    <3>3. Cardinality(moved \cup {n}) = Cardinality(moved) + 1
      BY <3>2, FS_AddElement
    <3>. QED BY <3>2, <3>3
  <2>. QED BY <1>2, <2>2, <2>3 DEF Cost
<1>. QED BY <1>3, <1>5, <1>6 DEF Paid

\* With fewer than R nodes to count on, the cost exceeds the margin.
LEMMA UsableEnough ==
  ASSUME faults \in Nat, MovedTypeOK, NEW r \in Reader, Cardinality(Usable(r)) + Cost >= RF,
         NEW S \in SUBSET Node, Usable(r) \subseteq S, Cardinality(S) < R
  PROVE  Cost > RF - R
<1>1. Usable(r) \in SUBSET S /\ moved \in SUBSET Node
  BY DEF MovedTypeOK
<1>2. /\ Cardinality(S) \in Nat /\ Cardinality(Usable(r)) \in Nat /\ Cardinality(moved) \in Nat
      /\ Cardinality(Usable(r)) <= Cardinality(S)
  BY <1>1, NodeSets
<1>3. RF \in Nat /\ R \in Nat
  BY StoreAssumption, ReadAssumption
<1>. QED BY <1>2, <1>3 DEF Cost

\* A download is refused only if it has too few left.
LEMMA RefusedLost ==
  ASSUME StoreTypeOK, ReadTypeOK, Account, moved' = moved,
         NEW r \in Reader, ReadStep(r), rdPc'[r] = "refused"
  PROVE  Cost' > RF - R
<1>0. /\ faults \in Nat /\ RF \in Nat /\ R \in Nat /\ R >= 1 /\ Cardinality({}) = 0
      /\ exists /\ MovedTypeOK /\ LossBound
  BY StoreAssumption, ReadAssumption, FS_EmptySet DEF StoreTypeOK, Account
<1>. USE DEF ReadTypeOK, ReadGoto, ReadEnds
<1>1. Cost' = Cost
  BY DEF ReadStep, ReadWork, ReadStart, ReadAnswer, ReadVerified, ReadQuorum, ReadFetch,
    ReadUnreadable, storeVars, Cost
<1>2. PICK S \in SUBSET Node : Usable(r) \subseteq S /\ Cardinality(S) < R
                               /\ rdPc[r] \notin {"served", "refused"}
  <2>1. CASE ReadStart(r)
    <3>1. Candidates = {} /\ rdPc[r] = "start"
      BY <1>0, <2>1 DEF ReadStart
    <3>2. Node \subseteq NodeHurt \cup RowHurt
      BY <3>1 DEF Candidates, HealthyRows, NodeHurt, RowHurt
    <3>3. Usable(r) \subseteq {}
      BY <3>2, PartsHurt DEF Usable, Has
    <3>. QED BY <1>0, <3>1, <3>3
  <2>2. CASE ReadQuorum(r)
    <3>1. /\ rdPc[r] = "verify" /\ rdAsked[r] = {} /\ rdAnswer[r] = {}
          /\ ~(Cardinality(rdTodo[r]) >= R)
      BY <2>2 DEF ReadQuorum, QuorumMet
    <3>2. rdTodo[r] \in SUBSET Node /\ Usable(r) \subseteq rdTodo[r]
      BY <3>1 DEF Has, Usable
    <3>3. Cardinality(rdTodo[r]) \in Nat
      BY <3>2, NodeSets
    <3>. QED BY <1>0, <3>1, <3>2, <3>3
  <2>3. CASE ReadUnreadable(r)
    <3>1. rdPc[r] = "unreadable" /\ rdTodo[r] = {}
      BY <2>3 DEF ReadUnreadable
    <3>2. Usable(r) \subseteq {}
      BY <3>1 DEF Has, Usable
    <3>. QED BY <1>0, <3>1, <3>2
  <2>4. CASE ReadFetch(r)
    BY <2>4 DEF ReadFetch
  <2>5. ASSUME NEW n \in Node, ReadAnswer(r, n) \/ ReadVerified(r, n)
        PROVE  FALSE
    BY <2>5 DEF ReadAnswer, ReadVerified
  <2>. QED BY <2>1, <2>2, <2>3, <2>4, <2>5 DEF ReadStep, ReadWork
<1>3. Cardinality(Usable(r)) + Cost >= RF
  BY <1>0, <1>2 DEF LossBound
<1>. QED BY <1>0, <1>1, <1>2, <1>3, UsableEnough

\* A full acknowledged upload hurts none of its RF replicas.
LEMMA AccountInit ==
  ASSUME FullCluster, Init
  PROVE  Account
<1>. PICK targets \in SUBSET Node, acked \in SUBSET Node, kept \in SUBSET Node :
       /\ Accepted(targets, acked, kept)
       /\ status = [n \in Node |-> IF n \in acked THEN "HEALTHY"
                                   ELSE IF n \in targets THEN "UNREACHABLE"
                                   ELSE "NONE"]
       /\ data = [n \in Node |-> IF n \in kept THEN "good" ELSE "none"]
       /\ manifest = [n \in Node |-> IF n \in kept THEN ChunkVersion ELSE 0]
  BY DEF Init, StoreInit
<1>1. acked \subseteq kept /\ Cardinality(acked) >= RF
  BY DEF Accepted, FullCluster
<1>2. NodeHurt \cap acked = {} /\ RowHurt \cap acked = {} /\ MoveHurt \cap acked = {}
  BY <1>1 DEF Init, StoreInit, MoveInit, NodeHurt, RowHurt, MoveHurt, Intact
<1>3. \A p \in Repairer : RepairDoubt(p) = {}
  BY DEF Init, RepairInit, RepairDoubt, Judging
<1>4. \A r \in Reader : ReadDoubt(r) = {} /\ Has(r) = Node /\ rdPc[r] = "start"
  BY DEF Init, ReadInit, ReadDoubt, Has
<1>5. \A r \in Reader : acked \in SUBSET Usable(r) /\ Usable(r) \in SUBSET Node
  BY <1>2, <1>3, <1>4 DEF Usable, Hurt
<1>6. Cost = 0
  BY FS_EmptySet DEF Init, StoreInit, Cost
<1>7. \A r \in Reader : Cardinality(Usable(r)) + Cost >= RF
  <2>. SUFFICES ASSUME NEW r \in Reader PROVE Cardinality(Usable(r)) + Cost >= RF
    OBVIOUS
  <2>1. /\ Cardinality(acked) \in Nat /\ Cardinality(Usable(r)) \in Nat
        /\ Cardinality(acked) <= Cardinality(Usable(r))
    BY <1>5, NodeSets
  <2>. QED BY <1>1, <1>6, <2>1, StoreAssumption
<1>8. exists /\ MovedTypeOK
  BY DEF Init, StoreInit, MovedTypeOK
<1>. QED BY <1>4, <1>7, <1>8 DEF Account, LossBound

\* The account stands after every step.
LEMMA AccountStep ==
  ASSUME FullCluster, TypeOK, Account, [Next]_vars
  PROVE  Account'
<1>0. /\ StoreTypeOK /\ RepairTypeOK /\ ReadTypeOK /\ MoveTypeOK /\ exists /\ MovedTypeOK /\ LossBound
      /\ faults \in Nat /\ RF \in Nat /\ R \in Nat
  BY StoreAssumption, ReadAssumption DEF TypeOK, StoreTypeOK, Account
<1>t. MovedTypeOK' /\ moved \subseteq moved'
  BY <1>0 DEF Next, vars, MovedAfter, MoveDelete, MoveTypeOK, MovedTypeOK, Crash
<1>c. ASSUME faults' \in Nat, faults' >= faults
      PROVE  Cost' \in Nat /\ Cost \in Nat /\ Cost' >= Cost
  <2>1. moved \in SUBSET Node /\ moved' \in SUBSET Node /\ moved \in SUBSET moved'
    BY <1>0, <1>t DEF MovedTypeOK
  <2>2. /\ Cardinality(moved) \in Nat /\ Cardinality(moved') \in Nat
        /\ Cardinality(moved) <= Cardinality(moved')
    BY <2>1, NodeSets
  <2>. QED BY <1>0, <1>c, <2>2 DEF Cost
<1>q. ASSUME NEW q \in Reader, NEW N, Hurts(N), Loses(q, N),
             rdPc'[q] = "refused" => Cost' > RF - R
      PROVE  /\ rdPc'[q] \notin {"served", "refused"} => Cardinality(Usable(q)') + Cost' >= RF
             /\ rdPc'[q] = "refused" => Cost' > RF - R
  <2>. SUFFICES ASSUME rdPc'[q] \notin {"served", "refused"}
                PROVE  Cardinality(Usable(q)') + Cost' >= RF
    BY <1>q
  <2>1. Cardinality(Usable(q)) + Cost >= RF
    BY <1>0, <1>q DEF Loses, LossBound
  <2>2. Usable(q) \subseteq Usable(q)' \cup N
    BY <1>q DEF Loses, Usable, Hurts
  <2>. QED BY <1>0, <1>q, <1>t, <2>1, <2>2, LossPaid DEF Hurts
<1>s. ASSUME NEW q \in Reader, NEW N, Hurts(N), Unread(q)
      PROVE  Loses(q, N) /\ (rdPc'[q] = "refused" => Cost' > RF - R)
  <2>1. Has(q)' = Has(q)
    BY <1>s DEF Unread, Has
  <2>2. faults' \in Nat /\ faults' >= faults
    BY <1>0, <1>s DEF Hurts, Paid
  <2>3. rdPc'[q] = "refused" => Cost > RF - R
    BY <1>0, <1>s DEF Unread, LossBound
  <2>4. rdPc'[q] = "refused" => Cost' > RF - R
    BY <1>0, <1>c, <2>2, <2>3
  <2>5. Loses(q, N)
    BY <2>1, <1>s DEF Unread, Loses
  <2>. QED BY <2>4, <2>5
<1>i. ASSUME NEW N, Hurts(N), UNCHANGED readVars
      PROVE  LossBound'
  <2>1. \A q \in Reader : Unread(q)
    BY <1>i DEF readVars, Unread
  <2>. QED BY <2>1, <1>i, <1>q, <1>s DEF LossBound
<1>m. UNCHANGED <<moveVars, moved>> => Unmoved
  BY DEF Unmoved
<1>x. ~DeleteNext /\ ~Crash => exists'
  BY <1>0 DEF Next, vars, storeVars, rowVars, RepairNext, RepairStep,
    RepairWork, RepairCall, RepairLock, RepairVerify, RepairVerified, RepairFetch, RepairStore,
    RepairCheck, RepairChecked, ScanCall, ScanVerify, ScanVerified, MoveNext, MoveWork, MovePick,
    MoveFetch, MoveStore, MoveCheck, MoveDrop, MoveRecord, MoveDelete, MoveUnlist, ReadNext,
    ReadWork, ReadStart, ReadAnswer, ReadVerified, ReadQuorum, ReadFetch, ReadUnreadable,
    StoreNext, NodeStep, Outage, Return, Heartbeat, Lapse, Corrupt, SetBack, Mark
<1>y. ~DeleteNext /\ ~Crash
  BY DEF FullCluster, DeleteNext, Crash, Fault
<1>. SUFFICES ASSUME Reader # {} PROVE LossBound'
  BY <1>t, <1>x, <1>y DEF Account, LossBound
<1>1. CASE RepairNext /\ UNCHANGED <<moveVars, readVars, deleteVars, moved>>
  <2>. PICK p \in Repairer : RepairStep(p)
    BY <1>1 DEF RepairNext
  <2>1. \E N : Hurts(N)
    BY <1>0, <1>1, <1>m, RepairHurts
  <2>. QED BY <2>1, <1>1, <1>i
<1>2. CASE MoveNext /\ moved' = MovedAfter /\ UNCHANGED <<repairVars, readVars, deleteVars>>
  <2>1. \E N : Hurts(N)
    BY <1>2, MoveHurts
  <2>. QED BY <2>1, <1>2, <1>i
<1>3. CASE ReadNext /\ UNCHANGED <<repairVars, moveVars, deleteVars, moved>>
  <2>. PICK r \in Reader : ReadStep(r)
    BY <1>3 DEF ReadNext, ReadStep
  <2>1. PICK N : Hurts(N) /\ Loses(r, N)
    BY <1>0, <1>3, <1>m, ReadHurts
  <2>2. rdPc'[r] = "refused" => Cost' > RF - R
    BY <1>0, <1>3, <1>m, RefusedLost DEF Unmoved
  <2>3. \A q \in Reader \ {r} : Unread(q)
    BY <1>0, OneReader
  <2>4. ASSUME NEW q \in Reader
        PROVE  /\ rdPc'[q] \notin {"served", "refused"} => Cardinality(Usable(q)') + Cost' >= RF
               /\ rdPc'[q] = "refused" => Cost' > RF - R
    <3>1. CASE q = r
      BY <3>1, <2>1, <2>2, <1>q
    <3>2. CASE q # r
      BY <3>2, <2>1, <2>3, <1>q, <1>s
    <3>. QED BY <3>1, <3>2
  <2>. QED BY <2>4 DEF LossBound
<1>4. CASE StoreNext /\ UNCHANGED <<repairVars, moveVars, readVars, deleteVars, moved>>
  <2>. PICK n \in Node : NodeStep(n)
    BY <1>4 DEF StoreNext
  <2>1. \E N : Hurts(N)
    BY <1>0, <1>4, <1>m, NodeHurts
  <2>. QED BY <2>1, <1>4, <1>i
<1>5. CASE UNCHANGED vars
  <2>1. UNCHANGED <<storeVars, repairVars, readVars, moveVars>> /\ Unmoved
    BY <1>5 DEF vars, Unmoved
  <2>2. NodeHurt' = NodeHurt /\ RowHurt' = RowHurt
    BY <2>1 DEF storeVars, NodeHurt, RowHurt, Intact
  <2>3. /\ \A p \in Repairer : RepairDoubt(p)' = RepairDoubt(p)
        /\ \A r \in Reader : ReadDoubt(r)' = ReadDoubt(r)
    BY <2>1 DEF repairVars, readVars, RepairDoubt, ReadDoubt
  <2>4. Hurts({})
    BY <2>1, <2>2, <2>3, HurtParts, PartsHurt, UnmovedHurt DEF Hurts, Paid, storeVars
  <2>. QED BY <2>1, <2>4, <1>i
<1>. QED BY <1>1, <1>2, <1>3, <1>4, <1>5, <1>y DEF Next

\* A download of a fully replicated chunk is refused only after more faults
\* and moves than the read quorum leaves room for, whatever repair, scan and
\* rebalancing write, and however late, while it runs.
THEOREM ReadsSurvive == Spec => []ReadSurvives
<1>1. Init => TypeOK /\ (FullCluster => Account)
  BY InitTypes, AccountInit DEF Init
<1>2. TypeOK /\ (FullCluster => Account) /\ [Next]_vars
        => (TypeOK /\ (FullCluster => Account))'
  <2>1. FullCluster' <=> FullCluster
    BY DEF FullCluster
  <2>. QED BY <2>1, NextTypes, AccountStep
<1>3. (FullCluster => Account) => ReadSurvives
  BY DEF FullCluster, Account, LossBound, ReadSurvives
<1>. QED BY <1>1, <1>2, <1>3, PTL DEF Spec
=============================================================================
