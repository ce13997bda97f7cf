--------------------------- MODULE ClusterProofs ----------------------------
(***************************************************************************)
(* Theorems about Cluster, for any number of nodes, tasks, downloads and   *)
(* faults: type correctness and the exclusion of repairs, that no chunk is *)
(* erased before its deletion is requested, that Cluster implements        *)
(* DurableChunk, that no row outlives the chunk's, and that moves, repairs *)
(* and crashes keep RF rows.                                               *)
(***************************************************************************)
EXTENDS Cluster, RepairProofs

\* The rebalancer keeps the shared state and its own well formed.
LEMMA MoveTypes ==
  ASSUME StoreTypeOK, MoveTypeOK, MoveNext
  PROVE  StoreTypeOK' /\ MoveTypeOK'
<1>0. RowsOK /\ FilesOK /\ NodesOK /\ faults \in Nat
  BY DEF StoreTypeOK
<1>. USE DEF MoveTypeOK, MoveTo, MoveEnds
<1>. DEFINE Kept == UNCHANGED <<rowVars, fileVars, nodeVars>>
<1>k. ASSUME Kept, faults' \in Nat PROVE StoreTypeOK'
  BY <1>0, <1>k DEF StoreTypeOK, RowsOK, FilesOK, NodesOK, rowVars, fileVars, nodeVars
<1>n. StoreTypeOK' <=> RowsOK' /\ FilesOK' /\ NodesOK' /\ faults' \in Nat
  BY DEF StoreTypeOK
<1>1. CASE MovePick
  <2>1. Kept /\ faults' \in Nat
    BY <1>0, <1>1 DEF MovePick, storeVars, rowVars, fileVars, nodeVars
  <2>. QED BY <2>1, <1>k, <1>1 DEF MovePick, Available
<1>2. CASE MoveFetch
  <2>1. Kept /\ faults' \in Nat
    BY <1>0, <1>2, FetchCallOK DEF MoveFetch
  <2>. QED BY <2>1, <1>k, <1>2 DEF MoveFetch
<1>3. CASE MoveStore
  <2>1. FilesOK' /\ faults' \in Nat
    BY <1>0, <1>3, StoreCallOK DEF MoveStore
  <2>2. RowsOK' /\ NodesOK'
    BY <1>0, <1>3 DEF MoveStore, RowsOK, NodesOK, rowVars, nodeVars
  <2>. QED BY <2>1, <2>2, <1>n, <1>3 DEF MoveStore
<1>4. CASE MoveCheck
  <2>1. Kept /\ faults' \in Nat
    BY <1>0, <1>4, CheckCallOK DEF MoveCheck
  <2>. QED BY <2>1, <1>k, <1>4 DEF MoveCheck
<1>5. CASE MoveDrop
  <2>1. FilesOK' /\ faults' \in Nat
    BY <1>0, <1>5, DeleteCallOK DEF MoveDrop
  <2>2. RowsOK' /\ NodesOK'
    BY <1>0, <1>5 DEF MoveDrop, RowsOK, NodesOK, rowVars, nodeVars
  <2>. QED BY <2>1, <2>2, <1>n, <1>5 DEF MoveDrop
<1>6. CASE MoveRecord
  <2>1. FilesOK' /\ NodesOK' /\ faults' \in Nat /\ exists' \in BOOLEAN
    BY <1>0, <1>6 DEF MoveRecord, RowsOK, FilesOK, NodesOK, fileVars, nodeVars
  <2>2. RowsOK'
    BY <2>1, <1>0, <1>6, PutRowOK DEF MoveRecord, RowsOK
  <2>. QED BY <2>1, <2>2, <1>n, <1>6 DEF MoveRecord
<1>7. CASE MoveDelete
  <2>1. FilesOK' /\ faults' \in Nat
    BY <1>0, <1>7, DeleteCallOK DEF MoveDelete
  <2>2. RowsOK' /\ NodesOK'
    BY <1>0, <1>7 DEF MoveDelete, RowsOK, NodesOK, rowVars, nodeVars
  <2>. QED BY <2>1, <2>2, <1>n, <1>7 DEF MoveDelete
<1>8. CASE MoveUnlist
  BY <1>0, <1>n, <1>8 DEF MoveUnlist, RowsOK, FilesOK, NodesOK, fileVars, nodeVars
<1>. QED
  BY <1>1, <1>2, <1>3, <1>4, <1>5, <1>6, <1>7, <1>8 DEF MoveNext, MoveWork

\* So do the downloads.
LEMMA ReadTypes ==
  ASSUME StoreTypeOK, ReadTypeOK, ReadNext
  PROVE  StoreTypeOK' /\ ReadTypeOK'
<1>. PICK r \in Reader : ReadStart(r) \/ ReadWork(r)
  BY DEF ReadNext
<1>0. RowsOK /\ FilesOK /\ NodesOK /\ faults \in Nat
  BY DEF StoreTypeOK
<1>. USE DEF ReadTypeOK, ReadGoto, ReadEnds
<1>. DEFINE Kept == UNCHANGED <<rowVars, fileVars, nodeVars>>
<1>k. ASSUME Kept, faults' \in Nat PROVE StoreTypeOK'
  BY <1>0, <1>k DEF StoreTypeOK, RowsOK, FilesOK, NodesOK, rowVars, fileVars, nodeVars
<1>n. StoreTypeOK' <=> RowsOK' /\ FilesOK' /\ NodesOK' /\ faults' \in Nat
  BY DEF StoreTypeOK
<1>1. CASE ReadStart(r)
  <2>1. Kept /\ faults' \in Nat
    BY <1>0, <1>1 DEF ReadStart, storeVars, rowVars, fileVars, nodeVars
  <2>2. Candidates \in SUBSET Node
    BY DEF Candidates, HealthyRows
  <2>. QED BY <2>1, <2>2, <1>k, <1>1 DEF ReadStart
<1>2. ASSUME NEW n \in Node, ReadAnswer(r, n)
      PROVE  StoreTypeOK' /\ ReadTypeOK'
  <2>1. PICK v \in Verdicts :
          CheckCall(n, v) /\ rdAnswer' = [rdAnswer EXCEPT ![r] = @ \cup {<<n, v>>}]
    BY <1>2 DEF ReadAnswer
  <2>2. Kept /\ faults' \in Nat
    BY <2>1, <1>0, <1>2, CheckCallOK DEF ReadAnswer
  <2>3. rdAnswer' \in [Reader -> SUBSET (Node \X Verdicts)]
    BY <2>1
  <2>. QED BY <2>2, <2>3, <1>k, <1>2 DEF ReadAnswer
<1>3. ASSUME NEW n \in Node, ReadVerified(r, n)
      PROVE  StoreTypeOK' /\ ReadTypeOK'
  <2>1. PICK v \in Verdicts :
          /\ SetStatus(n, StatusOf(v))
          /\ rdAnswer' = [rdAnswer EXCEPT ![r] = @ \ {<<n, v>>}]
          /\ rdTodo' = [rdTodo EXCEPT ![r] = IF v = "ok" THEN @ \cup {n} ELSE @]
    BY <1>3 DEF ReadVerified
  <2>2. FilesOK' /\ NodesOK' /\ faults' \in Nat /\ exists' \in BOOLEAN
    BY <1>0, <1>3 DEF ReadVerified, RowsOK, FilesOK, NodesOK, fileVars, nodeVars
  <2>3. RowsOK'
    BY <2>1, <2>2, <1>0, SetStatusOK, StatusOfOK
  <2>. QED BY <2>1, <2>2, <2>3, <1>n, <1>3 DEF ReadVerified
<1>4. CASE ReadQuorum(r)
  <2>1. Kept /\ faults' \in Nat
    BY <1>0, <1>4 DEF ReadQuorum, storeVars, rowVars, fileVars, nodeVars
  <2>. QED BY <2>1, <1>k, <1>4 DEF ReadQuorum
<1>5. CASE ReadFetch(r)
  <2>1. Kept /\ faults' \in Nat
    BY <1>0, <1>5, FetchCallOK DEF ReadFetch
  <2>. QED BY <2>1, <1>k, <1>5 DEF ReadFetch
<1>6. CASE ReadUnreadable(r)
  <2>1. FilesOK' /\ NodesOK' /\ faults' \in Nat /\ exists' \in BOOLEAN
    BY <1>0, <1>6 DEF ReadUnreadable, RowsOK, FilesOK, NodesOK, fileVars, nodeVars
  <2>2. PICK s \in {"CORRUPTED", "UNREACHABLE"} : SetStatus(rdNode[r][1], s)
    BY <1>6 DEF ReadUnreadable
  <2>3. RowsOK'
    BY <2>1, <2>2, <1>0, SetStatusOK DEF RowStatus
  <2>. QED BY <2>1, <2>3, <1>n, <1>6 DEF ReadUnreadable
<1>. QED
  BY <1>1, <1>2, <1>3, <1>4, <1>5, <1>6 DEF ReadWork

\* So does the deletion of the object.
LEMMA DeleteTypes ==
  ASSUME StoreTypeOK, DeleteTypeOK, DeleteNext
  PROVE  StoreTypeOK' /\ DeleteTypeOK'
<1>0. RowsOK /\ FilesOK /\ NodesOK /\ faults \in Nat
  BY DEF StoreTypeOK
<1>. USE DEF DeleteTypeOK
<1>. PICK d \in Deleter : DeleteStart(d) \/ DeleteWork(d)
  BY DEF DeleteNext
<1>1. CASE DeleteStart(d)
  <2>1. StoreTypeOK'
    BY <1>0, <1>1 DEF DeleteStart, storeVars, StoreTypeOK, RowsOK, FilesOK, NodesOK
  <2>2. Rows \in SUBSET Node
    BY DEF Rows
  <2>. QED BY <2>1, <2>2, <1>1 DEF DeleteStart
<1>2. CASE DeleteUnlink(d)
  <2>. PICK n \in dlTodo[d], ok \in BOOLEAN :
         DeleteCall(n, ok) /\ dlTodo' = [dlTodo EXCEPT ![d] = @ \ {n}]
    BY <1>2 DEF DeleteUnlink
  <2>1. FilesOK' /\ faults' \in Nat
    BY <1>0, DeleteCallOK
  <2>2. RowsOK' /\ NodesOK'
    BY <1>0, <1>2 DEF DeleteUnlink, RowsOK, NodesOK, rowVars, nodeVars
  <2>. QED BY <2>1, <2>2, <1>2 DEF DeleteUnlink, StoreTypeOK
<1>3. CASE DeleteRows(d)
  BY <1>0, <1>3 DEF DeleteRows, StoreTypeOK, RowsOK, FilesOK, NodesOK, fileVars, nodeVars
<1>. QED BY <1>1, <1>2, <1>3 DEF DeleteWork

\* A crash leaves the database and the nodes as they are.
LEMMA CrashTypes ==
  ASSUME TypeOK, Crash
  PROVE  TypeOK'
<1>1. StoreTypeOK'
  BY DEF TypeOK, Crash, Fault, StoreTypeOK, RowsOK, FilesOK, NodesOK, rowVars, fileVars
<1>2. RepairTypeOK'
  BY DEF TypeOK, Crash, RepairTypeOK, Verdicts
<1>3. MoveTypeOK'
  BY DEF TypeOK, Crash, MoveTypeOK, MoveEnds
<1>4. ReadTypeOK'
  BY DEF TypeOK, Crash, ReadTypeOK
<1>5. DeleteTypeOK'
  BY DEF TypeOK, Crash, DeleteTypeOK
<1>6. MovedTypeOK'
  BY DEF TypeOK, Crash, MovedTypeOK
<1>. QED BY <1>1, <1>2, <1>3, <1>4, <1>5, <1>6 DEF TypeOK

\* A part of the state that a step leaves alone stays well formed.
LEMMA IdleTypes ==
  /\ StoreTypeOK  /\ UNCHANGED storeVars  => StoreTypeOK'
  /\ RepairTypeOK /\ UNCHANGED repairVars => RepairTypeOK'
  /\ MoveTypeOK   /\ UNCHANGED moveVars   => MoveTypeOK'
  /\ ReadTypeOK   /\ UNCHANGED readVars   => ReadTypeOK'
  /\ DeleteTypeOK /\ UNCHANGED deleteVars => DeleteTypeOK'
<1>1. StoreTypeOK /\ UNCHANGED storeVars => StoreTypeOK'
  BY DEF StoreTypeOK, RowsOK, FilesOK, NodesOK, storeVars
<1>2. RepairTypeOK /\ UNCHANGED repairVars => RepairTypeOK'
  BY DEF RepairTypeOK, repairVars
<1>3. MoveTypeOK /\ UNCHANGED moveVars => MoveTypeOK'
  BY DEF MoveTypeOK, moveVars
<1>4. ReadTypeOK /\ UNCHANGED readVars => ReadTypeOK'
  BY DEF ReadTypeOK, readVars
<1>5. DeleteTypeOK /\ UNCHANGED deleteVars => DeleteTypeOK'
  BY DEF DeleteTypeOK, deleteVars
<1>. QED BY <1>1, <1>2, <1>3, <1>4, <1>5

\* An accepted upload leaves well-formed state.
LEMMA InitTypes == Init => TypeOK
<1>. SUFFICES ASSUME Init PROVE TypeOK
  OBVIOUS
<1>. USE DEF Init
<1>1. StoreTypeOK
  BY StoreInitTypes
<1>2. RepairTypeOK
  BY RepairInitTypes
<1>3. MoveTypeOK /\ ReadTypeOK /\ DeleteTypeOK
  BY DEF MoveInit, MoveTypeOK, ReadInit, ReadTypeOK, DeleteTypeOK
<1>4. MovedTypeOK
  BY DEF MovedTypeOK
<1>. QED BY <1>1, <1>2, <1>3, <1>4 DEF TypeOK

\* Every step of Cluster keeps the types.
LEMMA NextTypes == TypeOK /\ [Next]_vars => TypeOK'
<1>. SUFFICES ASSUME TypeOK, [Next]_vars PROVE TypeOK'
  OBVIOUS
<1>0. StoreTypeOK /\ RepairTypeOK /\ MoveTypeOK /\ ReadTypeOK /\ DeleteTypeOK
  BY DEF TypeOK
<1>m. MovedTypeOK'
  BY <1>0 DEF TypeOK, Next, vars, MovedTypeOK, MovedAfter, MoveDelete, MoveTypeOK,
    Crash
<1>1. CASE RepairNext /\ UNCHANGED <<moveVars, readVars, deleteVars>>
  BY <1>0, <1>m, <1>1, RepairTypes, IdleTypes DEF TypeOK
<1>2. CASE MoveNext /\ UNCHANGED <<repairVars, readVars, deleteVars>>
  BY <1>0, <1>m, <1>2, MoveTypes, IdleTypes DEF TypeOK
<1>3. CASE ReadNext /\ UNCHANGED <<repairVars, moveVars, deleteVars>>
  BY <1>0, <1>m, <1>3, ReadTypes, IdleTypes DEF TypeOK
<1>4. CASE DeleteNext /\ UNCHANGED <<repairVars, moveVars, readVars>>
  BY <1>0, <1>m, <1>4, DeleteTypes, IdleTypes DEF TypeOK
<1>5. CASE StoreNext /\ UNCHANGED <<repairVars, moveVars, readVars, deleteVars>>
  BY <1>0, <1>m, <1>5, NodeStepTypes, IdleTypes DEF TypeOK
<1>6. CASE Crash
  BY <1>6, CrashTypes
<1>7. CASE UNCHANGED vars
  BY <1>0, <1>m, <1>7, IdleTypes DEF TypeOK, vars
<1>. QED BY <1>1, <1>2, <1>3, <1>4, <1>5, <1>6, <1>7 DEF Next

\* The state always has the types the code's tables and variables give it:
\* no handler, in whatever order they run, writes a status, a version or a
\* node that is not one, and data file and manifest come and go together.
THEOREM TypeCorrect == Spec => []TypeOK
  BY InitTypes, NextTypes, PTL DEF Spec

\* _repair_lock keeps repairs apart among all the other tasks too, and after
\* a coordinator crash in the middle of a repair.
THEOREM ClusterExcludes == Spec => []RepairInv
<1>1. Init => Exclusive
  BY RepairAssumption DEF Init, RepairInit, Exclusive, Locked
<1>2. TypeOK /\ Exclusive /\ [Next]_vars => Exclusive'
  <2>. SUFFICES ASSUME TypeOK, Exclusive, [Next]_vars PROVE Exclusive'
    OBVIOUS
  <2>1. CASE UNCHANGED repairVars
    BY <2>1 DEF repairVars, Exclusive
  <2>2. CASE RepairNext
    BY <2>2, RepairExclusive DEF TypeOK
  <2>3. CASE Crash
    BY <2>3, RepairAssumption DEF Crash, Exclusive, Locked
  <2>. QED BY <2>1, <2>2, <2>3 DEF Next, vars
<1>3. TypeOK /\ Exclusive => RepairInv
  BY DEF TypeOK, Exclusive, RepairInv
<1>. QED BY <1>1, <1>2, <1>3, TypeCorrect, PTL DEF Spec
-----------------------------------------------------------------------------
(***************************************************************************)
(* NeverErased is not inductive by itself: a move deletes the source's     *)
(* file knowing only from its earlier steps that the target holds the      *)
(* chunk.  The invariant says what those steps have established, and that  *)
(* nobody undoes it: the other actors that delete files need a deletion    *)
(* request first, and a file once stored stays, damaged perhaps.           *)
(***************************************************************************)
MoveBacked ==
  wanted => /\ mvPc \in {"store", "check", "drop", "record", "delete"} => mvSrc \in Holders
            /\ mvPc \in {"record", "delete"} => mvDst \in Holders

DeleteAsked == \A d \in Deleter : dlPc[d] = "unlink" => ~wanted

Kept == TypeOK /\ NeverErased /\ MoveBacked /\ DeleteAsked

\* An accepted upload has a copy, since W is not 0.
LEMMA InitKept == Init => Kept
<1>. SUFFICES ASSUME Init PROVE Kept
  OBVIOUS
<1>1. TypeOK
  BY InitTypes
<1>2. PICK targets \in SUBSET Node, acked \in SUBSET Node, kept \in SUBSET Node :
        /\ Accepted(targets, acked, kept)
        /\ data = [n \in Node |-> IF n \in kept THEN "good" ELSE "none"]
  BY DEF Init, StoreInit
<1>3. acked # {}
  <2>1. Cardinality({}) = 0
    BY FS_EmptySet
  <2>. QED BY <2>1, <1>2, StoreAssumption DEF Accepted
<1>4. Holders # {}
  BY <1>2, <1>3 DEF Accepted, Holders
<1>5. MoveBacked /\ DeleteAsked
  BY DEF Init, MoveInit, MoveBacked, DeleteAsked
<1>. QED BY <1>1, <1>4, <1>5 DEF Kept, NeverErased

\* A store call adds at most the called node to the holders.
LEMMA StoreHolders ==
  ASSUME TypeOK, NEW n \in Node, NEW ok, StoreCall(n, ok)
  PROVE  /\ Holders' = Holders \/ Holders' = Holders \cup {n}
         /\ ok => n \in Holders'
  BY DEF TypeOK, StoreTypeOK, FilesOK, StoreCall, WriteFiles, Holders, fileVars

\* A delete call takes at most the called node from the holders.
LEMMA DeleteHolders ==
  ASSUME TypeOK, NEW n \in Node, NEW ok, DeleteCall(n, ok)
  PROVE  Holders' = Holders \/ Holders' = Holders \ {n}
  BY DEF TypeOK, StoreTypeOK, FilesOK, DeleteCall, UnlinkFiles, Holders, fileVars

\* What a step may do to the holders and to the request for deletion.
Same    == Holders' = Holders
Gain(n) == Holders' = Holders \cup {n} /\ wanted' = wanted
Lose(n) == Holders' = Holders \ {n} /\ wanted' = wanted

\* Repair and scan only ever add copies.
LEMMA RepairHolders ==
  ASSUME TypeOK, RepairNext, wanted' = wanted
  PROVE  Same \/ \E n \in Node : Gain(n)
<1>. PICK p \in Repairer : RepairStep(p)
  BY DEF RepairNext
<1>1. CASE RepairStore(p)
  <2>1. PICK n \in rpTodo[p], ok \in BOOLEAN : StoreCall(n, ok)
    BY <1>1 DEF RepairStore
  <2>2. n \in Node
    BY DEF TypeOK, RepairTypeOK
  <2>. QED BY <2>1, <2>2, StoreHolders DEF Same, Gain
<1>2. CASE ~RepairStore(p)
  <2>1. data' = data
    BY <1>2 DEF RepairStep, RepairWork, RepairCall, RepairLock, RepairVerify, RepairVerified,
      RepairFetch, RepairCheck, RepairChecked, ScanCall, ScanVerify, ScanVerified,
      storeVars, fileVars
  <2>. QED BY <2>1 DEF Same, Holders
<1>. QED BY <1>1, <1>2

\* Reads touch no file.
LEMMA ReadHolders ==
  ASSUME ReadNext
  PROVE  Same
<1>1. data' = data
  BY DEF ReadNext, ReadWork, ReadStart, ReadAnswer, ReadVerified, ReadQuorum, ReadFetch,
    ReadUnreadable, storeVars, fileVars
<1>. QED BY <1>1 DEF Same, Holders

\* Neither do failures; damage leaves a damaged file.
LEMMA NodeHolders ==
  ASSUME TypeOK, StoreNext
  PROVE  Same
<1>. PICK n \in Node : NodeStep(n)
  BY DEF StoreNext
<1>1. CASE Corrupt(n)
  BY <1>1 DEF Corrupt, Same, Holders, TypeOK, StoreTypeOK, FilesOK
<1>2. CASE ~Corrupt(n)
  <2>1. data' = data
    BY <1>2 DEF NodeStep, Outage, Return, Heartbeat, Lapse, SetBack, Mark, fileVars
  <2>. QED BY <2>1 DEF Same, Holders
<1>. QED BY <1>1, <1>2

\* A move gains the target's copy, and gives up a copy only while it knows
\* of another one.
LEMMA MoveHolders ==
  ASSUME Kept, MoveNext, wanted' = wanted
  PROVE  /\ Same \/ \E n \in Node : Gain(n) \/ (Lose(n) /\ (wanted => Holders' # {}))
         /\ MoveBacked'
<1>0. TypeOK /\ MoveTypeOK /\ MoveBacked
  BY DEF Kept, TypeOK
<1>1. CASE MovePick
  BY <1>0, <1>1 DEF MovePick, storeVars, Same, Holders, MoveBacked
<1>2. CASE MoveFetch
  <2>1. PICK v \in {"none", "good", "bad"} :
          FetchCall(mvSrc, v) /\ ((v = "good" /\ MoveTo("store")) \/ (v # "good" /\ MoveEnds))
    BY <1>2 DEF MoveFetch
  <2>2. Same
    BY <1>2 DEF MoveFetch, fileVars, Same, Holders
  <2>3. v = "good" => mvSrc \in Holders
    BY <2>1, <1>0, <1>2 DEF FetchCall, Holders, MoveFetch, MoveTypeOK
  <2>. QED BY <2>1, <2>2, <2>3 DEF MoveBacked, MoveTo, MoveEnds, Same
<1>3. CASE MoveStore
  <2>1. PICK ok \in BOOLEAN :
          StoreCall(mvDst, ok) /\ ((ok /\ MoveTo("check")) \/ (~ok /\ MoveEnds))
    BY <1>3 DEF MoveStore
  <2>2. mvDst \in Node
    BY <1>0, <1>3 DEF MoveStore, MoveTypeOK
  <2>3. Holders' = Holders \/ Holders' = Holders \cup {mvDst}
    BY <2>1, <2>2, <1>0, StoreHolders
  <2>. QED BY <2>1, <2>2, <2>3, <1>0, <1>3 DEF MoveStore, MoveBacked, MoveTo, MoveEnds, Same, Gain
<1>4. CASE MoveCheck
  <2>1. PICK v \in Verdicts :
          /\ CheckCall(mvDst, v)
          /\ \/ v = "ok" /\ MoveTo("record")
             \/ v \in {"checksum", "version"} /\ MoveTo("drop")
             \/ v = "error" /\ MoveEnds
    BY <1>4 DEF MoveCheck
  <2>2. Same
    BY <1>4 DEF MoveCheck, fileVars, Same, Holders
  <2>3. v = "ok" => mvDst \in Holders
    BY <2>1, <1>0, <1>4 DEF CheckCall, Verdict, Holders, MoveCheck, MoveTypeOK
  <2>. QED BY <2>1, <2>2, <2>3, <1>0, <1>4 DEF MoveBacked, MoveCheck, MoveTo, MoveEnds, Same
<1>5. CASE MoveDrop
  <2>1. mvDst \in Node /\ mvSrc # mvDst /\ (wanted => mvSrc \in Holders)
    BY <1>0, <1>5 DEF MoveDrop, MoveTypeOK, MoveBacked
  <2>2. Holders' = Holders \/ Holders' = Holders \ {mvDst}
    BY <2>1, <1>0, <1>5, DeleteHolders DEF MoveDrop
  <2>3. MoveBacked'
    BY <1>5 DEF MoveDrop, MoveEnds, MoveBacked
  <2>. QED BY <2>1, <2>2, <2>3 DEF Same, Lose
<1>6. CASE MoveRecord
  BY <1>0, <1>6 DEF MoveRecord, fileVars, Same, Holders, MoveBacked, MoveTo, MoveEnds
<1>7. CASE MoveDelete
  <2>1. mvSrc \in Node /\ mvSrc # mvDst /\ (wanted => mvDst \in Holders)
    BY <1>0, <1>7 DEF MoveDelete, MoveTypeOK, MoveBacked
  <2>2. Holders' = Holders \/ Holders' = Holders \ {mvSrc}
    BY <2>1, <1>0, <1>7, DeleteHolders DEF MoveDelete
  <2>3. MoveBacked'
    BY <1>7 DEF MoveDelete, MoveTo, MoveEnds, MoveBacked
  <2>. QED BY <2>1, <2>2, <2>3 DEF Same, Lose
<1>8. CASE MoveUnlist
  BY <1>8 DEF MoveUnlist, MoveEnds, fileVars, Same, Holders, MoveBacked
<1>. QED
  BY <1>1, <1>2, <1>3, <1>4, <1>5, <1>6, <1>7, <1>8 DEF MoveNext, MoveWork

\* The deletion gives copies up, after it has been asked for.
LEMMA DeletionHolders ==
  ASSUME Kept, DeleteNext
  PROVE  /\ \/ Same /\ wanted' \in {wanted, FALSE}
            \/ \E n \in Node : Lose(n) /\ ~wanted
         /\ DeleteAsked'
<1>0. TypeOK /\ DeleteTypeOK /\ DeleteAsked
  BY DEF Kept, TypeOK
<1>. PICK d \in Deleter : DeleteStart(d) \/ DeleteWork(d)
  BY DEF DeleteNext
<1>1. CASE DeleteStart(d)
  BY <1>1 DEF DeleteStart, storeVars, Same, Holders, DeleteAsked
<1>2. CASE DeleteUnlink(d)
  <2>1. PICK n \in dlTodo[d], ok \in BOOLEAN : DeleteCall(n, ok)
    BY <1>2 DEF DeleteUnlink
  <2>2. n \in Node
    BY <1>0 DEF DeleteTypeOK
  <2>3. Holders' = Holders \/ Holders' = Holders \ {n}
    BY <2>1, <2>2, <1>0, DeleteHolders
  <2>4. wanted' = wanted /\ ~wanted /\ DeleteAsked'
    BY <1>0, <1>2 DEF DeleteUnlink, DeleteAsked
  <2>. QED BY <2>2, <2>3, <2>4 DEF Same, Lose
<1>3. CASE DeleteRows(d)
  <2>1. wanted' = wanted /\ DeleteAsked'
    BY <1>0, <1>3 DEF DeleteRows, DeleteAsked, DeleteTypeOK
  <2>2. Same
    BY <1>3 DEF DeleteRows, fileVars, Same, Holders
  <2>. QED BY <2>1, <2>2
<1>. QED BY <1>1, <1>2, <1>3 DEF DeleteWork

\* The four ways in which a step of Cluster touches the copies.
Effect ==
  \/ Same /\ wanted' \in {wanted, FALSE}
  \/ \E n \in Node : Gain(n)
  \/ \E n \in Node : Lose(n) /\ (wanted => Holders' # {})

\* Every step has one of them, and keeps what a move relies on.
LEMMA NextEffect ==
  ASSUME Kept, [Next]_vars
  PROVE  Effect /\ MoveBacked' /\ DeleteAsked'
<1>0. TypeOK /\ MoveBacked /\ DeleteAsked
  BY DEF Kept
<1>k. ASSUME UNCHANGED moveVars, wanted' \in {wanted, FALSE}, Holders \subseteq Holders'
      PROVE  MoveBacked'
  BY <1>0, <1>k DEF MoveBacked, moveVars, TypeOK, DeleteTypeOK
<1>d. UNCHANGED deleteVars => DeleteAsked' /\ wanted' = wanted
  BY <1>0 DEF DeleteAsked, deleteVars
<1>1. CASE RepairNext /\ UNCHANGED <<moveVars, readVars, deleteVars>>
  BY <1>0, <1>1, <1>k, <1>d, RepairHolders DEF Effect, Same, Gain
<1>2. CASE MoveNext /\ UNCHANGED <<repairVars, readVars, deleteVars>>
  BY <1>2, <1>d, MoveHolders DEF Effect
<1>3. CASE ReadNext /\ UNCHANGED <<repairVars, moveVars, deleteVars>>
  BY <1>3, <1>k, <1>d, ReadHolders DEF Effect, Same
<1>4. CASE DeleteNext /\ UNCHANGED <<repairVars, moveVars, readVars>>
  <2>1. CASE Same /\ wanted' \in {wanted, FALSE}
    BY <2>1, <1>4, <1>k, DeletionHolders DEF Effect, Same
  <2>2. CASE \E n \in Node : Lose(n) /\ ~wanted
    BY <2>2, <1>4, DeletionHolders DEF Effect, Lose, MoveBacked
  <2>. QED BY <2>1, <2>2, <1>4, DeletionHolders
<1>5. CASE StoreNext /\ UNCHANGED <<repairVars, moveVars, readVars, deleteVars>>
  BY <1>0, <1>5, <1>k, <1>d, NodeHolders DEF Effect, Same
<1>6. CASE Crash
  BY <1>6 DEF Crash, MoveEnds, fileVars, Effect, Same, Holders, MoveBacked, DeleteAsked
<1>7. CASE UNCHANGED vars
  <2>1. Same /\ wanted' = wanted /\ UNCHANGED moveVars /\ UNCHANGED deleteVars
    BY <1>7 DEF vars, storeVars, Same, Holders, deleteVars
  <2>. QED BY <2>1, <1>k, <1>d DEF Effect, Same
<1>. QED BY <1>1, <1>2, <1>3, <1>4, <1>5, <1>6, <1>7 DEF Next

\* So the strengthened invariant is inductive.
LEMMA NextKept == Kept /\ [Next]_vars => Kept'
<1>. SUFFICES ASSUME Kept, [Next]_vars PROVE Kept'
  OBVIOUS
<1>1. TypeOK'
  BY NextTypes DEF Kept
<1>2. Effect /\ MoveBacked' /\ DeleteAsked'
  BY NextEffect
<1>3. NeverErased'
  BY <1>2 DEF Effect, Same, Gain, Lose, Kept, NeverErased
<1>. QED BY <1>1, <1>2, <1>3 DEF Kept

\* Whatever repair, scan, rebalancing, reads, node failures and coordinator
\* crashes do in whatever order, with any number of nodes and tasks: until
\* its deletion is requested some node holds the chunk.
THEOREM ChunkKept == Spec => []NeverErased
<1>1. Kept => NeverErased
  BY DEF Kept
<1>. QED BY <1>1, InitKept, NextKept, PTL DEF Spec

\* The components together keep the promise of DurableChunk: copies are made
\* only while there is one, and the last one is not given up.
THEOREM PromiseKept == Spec => KeepsPromise
<1>1. Init => Durable!Accept
  <2>. SUFFICES ASSUME Init PROVE Durable!Accept
    OBVIOUS
  <2>. QED BY InitKept DEF Kept, NeverErased, Init, Holders, Durable!Accept
<1>2. Kept /\ [Next]_vars => [Durable!ChunkStep]_<<Holders, wanted>>
  <2>. SUFFICES ASSUME Kept, [Next]_vars PROVE [Durable!ChunkStep]_<<Holders, wanted>>
    OBVIOUS
  <2>0. wanted \in BOOLEAN /\ (wanted => Holders # {})
    BY DEF Kept, TypeOK, DeleteTypeOK, NeverErased
  <2>1. CASE Same /\ wanted' \in {wanted, FALSE}
    BY <2>0, <2>1 DEF Same, Durable!ChunkStep, Durable!Abandon
  <2>2. ASSUME NEW n \in Node, Gain(n) PROVE Durable!ChunkStep
    BY <2>0, <2>2 DEF Gain, Durable!ChunkStep, Durable!Replicate, Durable!CleanUp
  <2>3. ASSUME NEW n \in Node, Lose(n), wanted => Holders' # {} PROVE Durable!ChunkStep
    BY <2>0, <2>3 DEF Lose, Durable!ChunkStep, Durable!Discard, Durable!CleanUp
  <2>. QED BY <2>1, <2>2, <2>3, NextEffect DEF Effect
<1>. QED BY <1>1, <1>2, InitKept, NextKept, PTL DEF Spec, KeepsPromise, Durable!ChunkSpec
-----------------------------------------------------------------------------
(***************************************************************************)
(* NoRowWithoutChunk is inductive: while the chunk exists a step may write *)
(* any row, afterwards only updates reach the rows, and they find none.    *)
(***************************************************************************)
RowStep ==
  \/ exists' = exists /\ (exists \/ status' = status \/ \E n, s : SetStatus(n, s))
  \/ Rows' = {}

\* The tasks that repair and scan insert rows only for an existing chunk.
LEMMA RepairRows ==
  ASSUME RepairNext
  PROVE  RowStep
<1>. PICK p \in Repairer : RepairStep(p)
  BY DEF RepairNext
<1>1. CASE RepairChecked(p)
  BY <1>1 DEF RepairChecked, RowStep
<1>2. CASE RepairVerified(p) \/ ScanVerified(p)
  BY <1>2 DEF RepairVerified, ScanVerified, RowStep
<1>3. CASE ~(RepairChecked(p) \/ RepairVerified(p) \/ ScanVerified(p))
  <2>1. UNCHANGED rowVars
    BY <1>3 DEF RepairStep, RepairWork, RepairCall, RepairLock, RepairVerify, RepairFetch,
      RepairStore, RepairCheck, ScanCall, ScanVerify, storeVars, rowVars
  <2>. QED BY <2>1 DEF rowVars, RowStep
<1>. QED BY <1>1, <1>2, <1>3

\* The rebalancer too; it removes a row only after a move.
LEMMA MoveRows ==
  ASSUME TypeOK, NoRowWithoutChunk, MoveNext
  PROVE  RowStep
<1>1. CASE MoveRecord
  BY <1>1 DEF MoveRecord, RowStep
<1>2. CASE MoveUnlist
  <2>1. exists' = exists
    BY <1>2 DEF MoveUnlist
  <2>2. ~exists => Rows' = {}
    BY <1>2 DEF MoveUnlist, NoRowWithoutChunk, Rows, TypeOK, StoreTypeOK, RowsOK
  <2>. QED BY <2>1, <2>2 DEF RowStep, TypeOK, StoreTypeOK, RowsOK
<1>3. CASE ~(MoveRecord \/ MoveUnlist)
  <2>1. UNCHANGED rowVars
    BY <1>3 DEF MoveNext, MoveWork, MovePick, MoveFetch, MoveStore, MoveCheck, MoveDrop,
      MoveDelete, storeVars, rowVars
  <2>. QED BY <2>1 DEF rowVars, RowStep
<1>. QED BY <1>1, <1>2, <1>3

\* Downloads, nodes and operators only update rows, the deletion removes all.
LEMMA OtherRows ==
  ASSUME ReadNext \/ DeleteNext \/ StoreNext \/ Crash
  PROVE  RowStep
<1>1. CASE ReadNext
  <2>. PICK r \in Reader : ReadStart(r) \/ ReadWork(r)
    BY <1>1 DEF ReadNext
  <2>1. CASE ReadUnreadable(r)
    BY <2>1 DEF ReadUnreadable, RowStep
  <2>2. ASSUME NEW n \in Node, ReadVerified(r, n) PROVE RowStep
    BY <2>2 DEF ReadVerified, RowStep
  <2>3. CASE UNCHANGED rowVars
    BY <2>3 DEF rowVars, RowStep
  <2>. QED BY <2>1, <2>2, <2>3 DEF ReadWork, ReadStart, ReadAnswer, ReadQuorum, ReadFetch,
      storeVars, rowVars
<1>2. CASE DeleteNext
  <2>. PICK d \in Deleter : DeleteStart(d) \/ DeleteWork(d)
    BY <1>2 DEF DeleteNext
  <2>1. CASE DeleteRows(d)
    BY <2>1 DEF DeleteRows, RowStep, Rows
  <2>2. CASE DeleteStart(d) \/ DeleteUnlink(d)
    BY <2>2 DEF DeleteStart, DeleteUnlink, storeVars, rowVars, RowStep
  <2>. QED BY <2>1, <2>2 DEF DeleteWork
<1>3. CASE StoreNext
  BY <1>3 DEF StoreNext, NodeStep, Outage, Return, Heartbeat, Lapse, Corrupt, SetBack, Mark,
    rowVars, RowStep
<1>4. CASE Crash
  BY <1>4 DEF Crash, rowVars, RowStep
<1>. QED BY <1>1, <1>2, <1>3, <1>4

\* However a deletion overlaps with repairs, scans, moves and reads of the
\* chunk, no replica row is left or comes back once the chunk's row is gone.
THEOREM RowsNeedChunk == Spec => []NoRowWithoutChunk
<1>1. Init => NoRowWithoutChunk
  BY DEF Init, StoreInit, NoRowWithoutChunk
<1>2. TypeOK /\ NoRowWithoutChunk /\ [Next]_vars => NoRowWithoutChunk'
  <2>. SUFFICES ASSUME TypeOK, NoRowWithoutChunk, [Next]_vars PROVE NoRowWithoutChunk'
    OBVIOUS
  <2>1. CASE UNCHANGED vars
    BY <2>1 DEF vars, storeVars, NoRowWithoutChunk, Rows
  <2>2. CASE Next
    <3>1. RowStep
      BY <2>2, RepairRows, MoveRows, OtherRows DEF Next
    <3>2. ASSUME exists' = exists, NEW n, NEW s, SetStatus(n, s) PROVE NoRowWithoutChunk'
      BY <3>2 DEF SetStatus, NoRowWithoutChunk, Rows, TypeOK, StoreTypeOK, RowsOK
    <3>3. CASE exists' = exists /\ (exists \/ status' = status)
      BY <3>3 DEF NoRowWithoutChunk, Rows
    <3>4. CASE Rows' = {}
      BY <3>4 DEF NoRowWithoutChunk
    <3>. QED BY <3>1, <3>2, <3>3, <3>4 DEF RowStep
  <2>. QED BY <2>1, <2>2
<1>. QED BY <1>1, <1>2, TypeCorrect, PTL DEF Spec
-----------------------------------------------------------------------------
(***************************************************************************)
(* RowsKeepRF.  The rebalancer removes a row knowing only from its first   *)
(* step that RF rows were there and the target's was not among them.       *)
(* MoveRoom says that this still holds in its later steps: all the other   *)
(* actors only add rows or write to those there are, until the object's    *)
(* deletion is requested.                                                  *)
(***************************************************************************)
MoveRoom ==
  wanted => /\ mvPc # "idle" => Cardinality(Rows \ {mvDst}) >= RF
            /\ mvPc \in {"delete", "unlist"} => mvDst \in Rows

\* Updates and insertions remove no row.
LEMMA WritesKeepRows ==
  ASSUME RowsOK, NEW n, PutRow(n) \/ \E s \in RowStatus : SetStatus(n, s)
  PROVE  Rows \subseteq Rows'
  BY DEF RowsOK, PutRow, SetStatus, RowStatus, Rows

\* Repair, scan, downloads, nodes and operators do not either, nor does a
\* coordinator crash.
LEMMA OthersKeepRows ==
  ASSUME TypeOK, RepairNext \/ ReadNext \/ StoreNext \/ Crash
  PROVE  Rows \subseteq Rows'
<1>0. RowsOK /\ RepairTypeOK
  BY DEF TypeOK, StoreTypeOK
<1>u. UNCHANGED rowVars => Rows \subseteq Rows'
  BY DEF rowVars, Rows
<1>1. ASSUME NEW p \in Repairer, RepairStep(p) PROVE Rows \subseteq Rows'
  <2>1. CASE RepairChecked(p) \/ RepairVerified(p) \/ ScanVerified(p)
    <3>1. rpVerdict[p] \in Verdicts
      BY <1>0 DEF RepairTypeOK
    <3>2. PutRow(rpNode[p]) \/ SetStatus(rpNode[p], StatusOf(rpVerdict[p]))
      BY <2>1 DEF RepairChecked, RepairVerified, ScanVerified
    <3>. QED BY <1>0, <3>1, <3>2, StatusOfOK, WritesKeepRows
  <2>2. CASE ~(RepairChecked(p) \/ RepairVerified(p) \/ ScanVerified(p))
    <3>1. UNCHANGED rowVars
      BY <1>1, <2>2 DEF RepairStep, RepairWork, RepairCall, RepairLock, RepairVerify, RepairFetch,
        RepairStore, RepairCheck, ScanCall, ScanVerify, storeVars, rowVars
    <3>. QED BY <3>1, <1>u
  <2>. QED BY <2>1, <2>2
<1>2. ASSUME NEW r \in Reader, ReadStart(r) \/ ReadWork(r) PROVE Rows \subseteq Rows'
  <2>1. CASE ReadUnreadable(r)
    BY <2>1, <1>0, WritesKeepRows DEF ReadUnreadable, RowStatus
  <2>2. ASSUME NEW n \in Node, ReadVerified(r, n) PROVE Rows \subseteq Rows'
    BY <2>2, <1>0, StatusOfOK, WritesKeepRows DEF ReadVerified
  <2>3. CASE UNCHANGED rowVars
    BY <2>3, <1>u
  <2>. QED BY <1>2, <2>1, <2>2, <2>3 DEF ReadWork, ReadStart, ReadAnswer, ReadQuorum, ReadFetch,
      storeVars, rowVars
<1>3. ASSUME NEW n \in Node, NodeStep(n) PROVE Rows \subseteq Rows'
  <2>1. ASSUME NEW s \in {"CORRUPTED", "INCONSISTENT"}, Mark(n, s) PROVE Rows \subseteq Rows'
    BY <2>1, <1>0, WritesKeepRows DEF Mark, RowStatus
  <2>. QED BY <1>3, <2>1, <1>u DEF NodeStep, Outage, Return, Heartbeat, Lapse, Corrupt, SetBack
<1>4. CASE Crash
  BY <1>4, <1>u DEF Crash
<1>. QED BY <1>1, <1>2, <1>3, <1>4 DEF RepairNext, ReadNext, StoreNext

\* What a step keeps of the room of a move it leaves alone.
LEMMA RoomKept ==
  ASSUME MoveRoom, UNCHANGED moveVars, Rows \subseteq Rows', wanted' => wanted
  PROVE  MoveRoom'
<1>. SUFFICES ASSUME wanted', mvPc # "idle" PROVE Cardinality(Rows' \ {mvDst}) >= RF
  BY DEF MoveRoom, moveVars
<1>1. Rows' \ {mvDst} \in SUBSET Node /\ Rows \ {mvDst} \in SUBSET (Rows' \ {mvDst})
  BY DEF Rows
<1>2. /\ Cardinality(Rows \ {mvDst}) \in Nat /\ Cardinality(Rows' \ {mvDst}) \in Nat
      /\ Cardinality(Rows \ {mvDst}) <= Cardinality(Rows' \ {mvDst})
  BY <1>1, NodeSets
<1>. QED BY <1>2, StoreAssumption DEF MoveRoom

\* A move is decided with RF rows besides the target, then puts the target's
\* row, and only then removes the source's.
LEMMA MoveSteps ==
  ASSUME TypeOK, MoveRoom, MoveNext, wanted' = wanted, wanted
  PROVE  /\ MoveRoom'
         /\ Cardinality(Rows') >= Cardinality(Rows) \/ Cardinality(Rows') >= RF
<1>0. RowsOK /\ MoveTypeOK /\ Rows \in SUBSET Node /\ RF \in Nat
  BY StoreAssumption DEF TypeOK, StoreTypeOK, Rows
<1>g. ASSUME Rows \subseteq Rows'
      PROVE  Cardinality(Rows') >= Cardinality(Rows)
  <2>1. /\ Cardinality(Rows) \in Nat /\ Cardinality(Rows') \in Nat
        /\ Cardinality(Rows) <= Cardinality(Rows')
    BY <1>g, NodeSets DEF Rows
  <2>. QED BY <2>1
<1>1. CASE MovePick
  <2>1. Rows' = Rows /\ mvDst' \in Node /\ mvPc' = "fetch"
    BY <1>1 DEF MovePick, storeVars, Rows, Available
  <2>2. Cardinality(HealthyRows) >= RF /\ mvDst' \notin Rows
    BY <1>1 DEF MovePick, Movable, Rows
  <2>3. HealthyRows \in SUBSET (Rows \ {mvDst'}) /\ Rows \ {mvDst'} \in SUBSET Node
    BY <2>2 DEF HealthyRows, Rows
  <2>4. /\ Cardinality(HealthyRows) \in Nat /\ Cardinality(Rows \ {mvDst'}) \in Nat
        /\ Cardinality(HealthyRows) <= Cardinality(Rows \ {mvDst'})
    BY <2>3, NodeSets
  <2>5. Cardinality(Rows \ {mvDst'}) >= RF
    BY <1>0, <2>2, <2>4
  <2>. QED BY <1>g, <2>1, <2>5 DEF MoveRoom
<1>2. CASE MoveFetch \/ MoveStore \/ MoveCheck \/ MoveDrop \/ MoveDelete
  <2>1. /\ Rows' = Rows
        /\ \/ MoveEnds
           \/ UNCHANGED mvDst /\ mvPc # "idle" /\ (mvPc' \in {"delete", "unlist"} => mvPc = "delete")
    BY <1>2 DEF MoveFetch, MoveStore, MoveCheck, MoveDrop, MoveDelete, MoveTo, rowVars, Rows
  <2>. QED BY <1>g, <2>1 DEF MoveRoom, MoveEnds
<1>3. CASE MoveRecord
  <2>1. CASE MoveEnds
    <3>1. Rows \subseteq Rows'
      BY <1>0, <1>3, WritesKeepRows DEF MoveRecord, Rows
    <3>. QED BY <1>g, <2>1, <3>1 DEF MoveRoom, MoveEnds
  <2>2. CASE ~MoveEnds
    <3>1. PutRow(mvDst) /\ mvPc' = "delete" /\ mvPc = "record" /\ UNCHANGED <<mvSrc, mvDst>>
      BY <1>3, <2>2 DEF MoveRecord, MoveTo
    <3>2. mvDst \in Node
      BY <1>0, <3>1 DEF MoveTypeOK
    <3>3. Rows' = Rows \cup {mvDst}
      BY <1>0, <3>1, <3>2 DEF PutRow, RowsOK, Rows
    <3>4. Rows' \ {mvDst} = Rows \ {mvDst}
      BY <3>3
    <3>. QED BY <1>g, <3>1, <3>3, <3>4 DEF MoveRoom
  <2>. QED BY <2>1, <2>2
<1>4. CASE MoveUnlist
  <2>1. /\ mvPc = "unlist" /\ mvSrc \in Node /\ mvSrc # mvDst /\ MoveEnds
        /\ status' = [status EXCEPT ![mvSrc] = "NONE"]
    BY <1>0, <1>4 DEF MoveUnlist, MoveTypeOK
  <2>2. Cardinality(Rows \ {mvDst}) >= RF /\ mvDst \in Rows
    BY <2>1 DEF MoveRoom
  <2>3. Rows' = Rows \ {mvSrc}
    BY <1>0, <2>1 DEF RowsOK, Rows
  <2>4. IsFiniteSet(Rows) /\ Cardinality(Rows) \in Nat
    BY <1>0, NodeSets
  <2>5. /\ Cardinality(Rows \ {mvDst}) = Cardinality(Rows) - 1
        /\ Cardinality(Rows \ {mvSrc}) >= Cardinality(Rows) - 1
    BY <2>2, <2>4, FS_RemoveElement
  <2>6. MoveRoom'
    BY <2>1 DEF MoveRoom, MoveEnds
  <2>7. Cardinality(Rows') \in Nat /\ Cardinality(Rows \ {mvDst}) \in Nat
    <3>1. Rows' \in SUBSET Node /\ Rows \ {mvDst} \in SUBSET Node
      BY <1>0, <2>3
    <3>. QED BY <3>1, NodeSets
  <2>. QED BY <1>0, <2>2, <2>3, <2>4, <2>5, <2>6, <2>7
<1>. QED BY <1>1, <1>2, <1>3, <1>4 DEF MoveNext, MoveWork

\* Every step keeps the room of a move, and RowsKeepRF.
LEMMA NextRows ==
  ASSUME TypeOK, MoveRoom, DeleteAsked, [Next]_vars
  PROVE  /\ MoveRoom'
         /\ wanted' => \/ Cardinality(Rows') >= Cardinality(Rows)
                       \/ Cardinality(Rows') >= RF
<1>g. ASSUME Rows \subseteq Rows'
      PROVE  Cardinality(Rows') >= Cardinality(Rows)
  <2>1. /\ Cardinality(Rows) \in Nat /\ Cardinality(Rows') \in Nat
        /\ Cardinality(Rows) <= Cardinality(Rows')
    BY <1>g, NodeSets DEF Rows
  <2>. QED BY <2>1
<1>1. CASE MoveNext /\ UNCHANGED <<repairVars, readVars, deleteVars>>
  <2>1. wanted' = wanted
    BY <1>1 DEF deleteVars
  <2>2. CASE wanted
    BY <1>1, <2>1, <2>2, MoveSteps
  <2>3. CASE ~wanted
    BY <2>1, <2>3 DEF MoveRoom
  <2>. QED BY <2>2, <2>3
<1>2. CASE DeleteNext /\ UNCHANGED <<repairVars, moveVars, readVars>>
  <2>1. ~wanted'
    BY <1>2 DEF DeleteNext, DeleteWork, DeleteStart, DeleteUnlink, DeleteRows, DeleteAsked
  <2>. QED BY <2>1 DEF MoveRoom
<1>3. CASE Crash
  <2>1. Rows \subseteq Rows' /\ mvPc' = "idle"
    BY <1>3, OthersKeepRows DEF Crash, MoveEnds
  <2>. QED BY <1>g, <2>1 DEF MoveRoom
<1>4. CASE UNCHANGED vars
  <2>1. Rows' = Rows /\ UNCHANGED moveVars /\ wanted' = wanted
    BY <1>4 DEF vars, storeVars, deleteVars, Rows
  <2>. QED BY <1>g, <2>1, RoomKept
<1>5. CASE (RepairNext \/ ReadNext \/ StoreNext) /\ UNCHANGED <<moveVars, deleteVars>>
  <2>1. Rows \subseteq Rows' /\ UNCHANGED moveVars /\ wanted' = wanted
    BY <1>5, OthersKeepRows DEF deleteVars
  <2>. QED BY <1>g, <2>1, RoomKept
<1>. QED BY <1>1, <1>2, <1>3, <1>4, <1>5 DEF Next

\* Only the deletion of the object takes a chunk below RF replica rows: a
\* move does not, finished or broken off anywhere, whatever repairs, scans,
\* downloads, node failures and coordinator crashes come between its steps.
THEOREM RowsKept == Spec => RowsKeepRF
<1>1. Init => MoveRoom
  BY DEF Init, MoveInit, MoveRoom
<1>2. Kept => TypeOK /\ DeleteAsked
  BY DEF Kept
<1>3. TypeOK /\ MoveRoom /\ DeleteAsked /\ [Next]_vars
        => MoveRoom' /\ [wanted' => \/ Cardinality(Rows') >= Cardinality(Rows)
                                    \/ Cardinality(Rows') >= RF]_vars
  BY NextRows
<1>. QED BY <1>1, <1>2, <1>3, InitKept, NextKept, PTL DEF Spec, RowsKeepRF
=============================================================================
