---------------------------- MODULE ObjectsProofs ---------------------------
(***************************************************************************)
(* What Objects promises, for any objects, lengths, batch, nodes, RF,      *)
(* quorums, downloads and faults: the counters, that an accepted object is *)
(* whole, on W nodes and listed, and that a complete download is whole.    *)
(* The parts of the invariant IInv build on each other: types and counters *)
(* (CountInv), then for each object what its upload has stored (UploadInv) *)
(* and what lists its files (ListInv), then each download (DownloadInv).   *)
(* An action of an upload leaves all other objects alone (UploadAside); its*)
(* effect on its own is that of GoOn (GoOnUpload, GoOnList).               *)
(***************************************************************************)
EXTENDS Objects, FiniteSetTheorems, TLAPS

Replicas == [Node -> {"NONE", "HEALTHY", "UNREACHABLE"}]
Statuses == {"NONE", "UPLOADING", "HEALTHY", "UNDER_REPLICATED"}
Blank    == [n \in Node |-> "NONE"]

TypesOK == MetaOK /\ UploadsOK /\ OthersOK

\* An upload turns to its next chunk.
Turns(o, status, rows, chosen) ==
  /\ PutMeta(o, status, Append(rows, Blank))
  /\ Goto(o, "storing")
  /\ call' = [call EXCEPT ![o] = [index |-> Len(rows) + 1, targets |-> chosen,
                                  asked |-> chosen, acked |-> {}]]
  /\ active_writes' = active_writes
  /\ \E b \in BOOLEAN : full' = [full EXCEPT ![o] = b]

\* What GoOn does: the upload turns to its next chunk, is refused or stored.
LEMMA GoOnEffect ==
  ASSUME NEW o, NEW status, NEW rows, NEW allFull \in BOOLEAN,
         GoOn(o, status, rows, allFull)
  PROVE  \/ Len(rows) < Length[o] /\ \E chosen \in SUBSET Node : Turns(o, status, rows, chosen)
         \/ Erase(o) /\ Ends(o, "refused")
         \/ /\ ~ (Len(rows) < Length[o])
            /\ \E s \in {"HEALTHY", "UNDER_REPLICATED"} : PutMeta(o, s, rows)
            /\ Ends(o, "stored")
<1>1. CASE Len(rows) < Length[o]
  <2>1. NextChunk(o, status, rows, allFull)
    BY <1>1 DEF GoOn
  <2>2. PICK chosen \in SUBSET Node :
          \/ Erase(o) /\ Ends(o, "refused")
          \/ /\ PutMeta(o, status, Append(rows, Blank))
             /\ Goto(o, "storing")
             /\ call' = [call EXCEPT ![o] = [index |-> Len(rows) + 1, targets |-> chosen,
                                             asked |-> chosen, acked |-> {}]]
             /\ full' = [full EXCEPT ![o] = allFull]
             /\ UNCHANGED active_writes
    BY <2>1 DEF NextChunk, Blank
  <2> QED BY <1>1, <2>2 DEF Turns
<1>2. CASE ~ (Len(rows) < Length[o])
  BY <1>2 DEF GoOn
<1> QED BY <1>1, <1>2

LEMMA PutMetaOK ==
  ASSUME MetaOK, NEW o \in Object, NEW s \in Statuses, NEW rows \in Seq(Replicas),
         s = "NONE" => rows = <<>>, PutMeta(o, s, rows)
  PROVE  MetaOK'
  BY DEF MetaOK, PutMeta, Statuses, Replicas

LEMMA EraseOK == ASSUME MetaOK, NEW o \in Object, Erase(o) PROVE MetaOK'
<1>1. <<>> \in Seq(Replicas) /\ "NONE" \in Statuses
  BY DEF Statuses
<1> QED BY <1>1, PutMetaOK DEF Erase

LEMMA EndsOK ==
  ASSUME UploadsOK, NEW o \in Object, NEW how \in {"stored", "refused"}, Ends(o, how),
         batch' = batch
  PROVE  UploadsOK'
  BY DEF UploadsOK, Ends, Goto, NoCall

LEMMA TurnsOK ==
  ASSUME MetaOK, UploadsOK, NEW o \in Object, NEW status \in Statuses \ {"NONE"},
         NEW rows \in Seq(Replicas), NEW chosen \in SUBSET Node,
         Turns(o, status, rows, chosen), batch' = batch
  PROVE  MetaOK' /\ UploadsOK'
<1>1. Append(rows, Blank) \in Seq(Replicas) /\ Len(rows) + 1 \in Nat
  BY DEF Replicas, Blank
<1>2. MetaOK'
  BY <1>1, PutMetaOK DEF Turns
<1>3. UploadsOK'
  BY <1>1 DEF Turns, Goto, UploadsOK, Running
<1> QED BY <1>2, <1>3

LEMMA GoOnOK ==
  ASSUME MetaOK, UploadsOK, NEW o \in Object, NEW status \in Statuses \ {"NONE"},
         NEW rows \in Seq(Replicas), NEW allFull \in BOOLEAN,
         GoOn(o, status, rows, allFull), batch' = batch
  PROVE  MetaOK' /\ UploadsOK'
<1>1. CASE Erase(o) /\ Ends(o, "refused")
  BY <1>1, EraseOK, EndsOK
<1>2. ASSUME NEW s \in {"HEALTHY", "UNDER_REPLICATED"}, PutMeta(o, s, rows), Ends(o, "stored")
      PROVE  MetaOK' /\ UploadsOK'
  <2>1. s \in Statuses /\ s # "NONE"
    BY DEF Statuses
  <2> QED BY <1>2, <2>1, PutMetaOK, EndsOK
<1>3. ASSUME NEW chosen \in SUBSET Node, Turns(o, status, rows, chosen)
      PROVE  MetaOK' /\ UploadsOK'
  BY <1>3, TurnsOK
<1> QED BY <1>1, <1>2, <1>3, GoOnEffect

LEMMA SameMeta == ASSUME MetaOK, UNCHANGED metaVars PROVE MetaOK'
  BY DEF MetaOK, metaVars

LEMMA SameUploads == ASSUME UploadsOK, UNCHANGED <<phase, call, full, batch>> PROVE UploadsOK'
  BY DEF UploadsOK

LEMMA SameOthers ==
  ASSUME OthersOK, UNCHANGED <<files, deleteVars, copy, W, download>> PROVE OthersOK'
  BY DEF OthersOK, deleteVars

LEMMA InitTypes == ObjectsInit => TypesOK
<1> SUFFICES ASSUME ObjectsInit PROVE TypesOK
  OBVIOUS
<1>1. MetaOK
  BY DEF ObjectsInit, MetaOK
<1>2. UploadsOK
  BY DEF ObjectsInit, UploadsOK, NoCall
<1>3. OthersOK
  BY DEF ObjectsInit, OthersOK
<1> QED BY <1>1, <1>2, <1>3 DEF TypesOK

\* The rows of an object when the stores of a chunk have all been answered
StoredRows(o) == [chunk[o] EXCEPT ![call[o].index] = [n \in Node |-> RowOf(o, n, @[n])]]

LEMMA RowsStored ==
  ASSUME TypesOK, NEW o \in Object, NEW rows, rows = StoredRows(o)
  PROVE  /\ rows \in Seq(Replicas) /\ Len(rows) = Len(chunk[o])
         /\ \A i \in 1..Len(chunk[o]) :
              IF i = call[o].index THEN rows[i] = [n \in Node |-> RowOf(o, n, chunk[o][i][n])]
              ELSE rows[i] = chunk[o][i]
<1>1. chunk[o] \in Seq(Replicas)
  BY DEF TypesOK, MetaOK, Replicas
<1>2. ASSUME NEW i \in 1..Len(chunk[o]) PROVE [n \in Node |-> RowOf(o, n, chunk[o][i][n])] \in Replicas
  BY <1>1, <1>2 DEF RowOf, Replicas
<1>3. rows \in [1..Len(chunk[o]) -> Replicas]
  <2>1. chunk[o] \in [1..Len(chunk[o]) -> Replicas]
    BY <1>1
  <2>2. rows = [i \in 1..Len(chunk[o]) |->
                  IF i = call[o].index THEN [n \in Node |-> RowOf(o, n, chunk[o][i][n])]
                  ELSE chunk[o][i]]
    BY <2>1 DEF StoredRows
  <2> QED BY <1>2, <2>1, <2>2
<1>4. rows \in Seq(Replicas) /\ Len(rows) = Len(chunk[o])
  BY <1>1, <1>3
<1> QED BY <1>1, <1>4 DEF StoredRows

LEMMA UploadTypes ==
  ASSUME TypesOK, NEW o \in Object, UploadBegin(o) \/ UploadWork(o)
  PROVE  TypesOK'
<1> USE DEF TypesOK
<1>1. CASE UploadBegin(o)
  <2>1. MetaOK' /\ OthersOK'
    BY <1>1, SameMeta, SameOthers DEF UploadBegin, otherVars, copyVars, readVars
  <2>2. UploadsOK'
    BY <1>1 DEF UploadBegin, Goto, otherVars, UploadsOK, Running
  <2> QED BY <2>1, <2>2
<1>2. CASE UploadReceive(o)
  <2>1. OthersOK' /\ batch' = batch
    BY <1>2, SameOthers DEF UploadReceive, otherVars, copyVars, readVars
  <2>2. CASE Ends(o, "refused") /\ UNCHANGED metaVars
    BY <2>1, <2>2, SameMeta, EndsOK
  <2>3. CASE GoOn(o, "UPLOADING", <<>>, TRUE)
    <3>1. <<>> \in Seq(Replicas) /\ "UPLOADING" \in Statuses \ {"NONE"}
      BY DEF Statuses
    <3> QED BY <2>1, <2>3, <3>1, GoOnOK
  <2> QED BY <1>2, <2>2, <2>3 DEF UploadReceive
<1>3. CASE UploadStore(o)
  <2>1. PICK n \in call[o].asked, ok \in BOOLEAN :
          /\ Store(<<o, call[o].index, n>>, ok)
          /\ call' = [call EXCEPT ![o] = Answered(@, n, ok)]
    BY <1>3 DEF UploadStore
  <2>2. n \in Node /\ call[o].index \in Nat
    BY <2>1 DEF UploadsOK
  <2>3. OthersOK'
    <3>1. files' \subseteq Object \X Nat \X Node
      BY <2>1, <2>2 DEF Store, OthersOK
    <3> QED BY <1>3, <3>1 DEF UploadStore, otherVars, deleteVars, copyVars, readVars, OthersOK
  <2>4. MetaOK'
    BY <1>3, SameMeta DEF UploadStore
  <2>5. UploadsOK'
    <3>1. Answered(call[o], n, ok) \in [index : Nat, targets : SUBSET Node,
                                        asked : SUBSET Node, acked : SUBSET Node]
      BY <2>2 DEF UploadsOK, Answered
    <3> QED BY <1>3, <2>1, <3>1 DEF UploadStore, otherVars, UploadsOK
  <2> QED BY <2>3, <2>4, <2>5
<1>4. CASE UploadStored(o)
  <2> DEFINE rows == StoredRows(o)
  <2>1. rows \in Seq(Replicas)
    BY RowsStored
  <2>2. OthersOK' /\ batch' = batch
    BY <1>4, SameOthers DEF UploadStored, readVars
  <2>3. row[o] # "NONE" => row[o] \in Statuses \ {"NONE"}
    BY DEF MetaOK, Statuses
  <2>4. CASE Ends(o, "refused") /\ UNCHANGED metaVars
    BY <2>2, <2>4, SameMeta, EndsOK, Zenon
  <2>5. CASE row[o] # "NONE" /\ GoOn(o, row[o], rows, full[o] /\ Cardinality(call[o].acked) >= RF)
    <3>1. (full[o] /\ Cardinality(call[o].acked) >= RF) \in BOOLEAN
      OBVIOUS
    <3> QED BY <2>1, <2>2, <2>3, <2>5, <3>1, GoOnOK
  <2>6. CASE Erase(o) /\ Ends(o, "refused")
    BY <2>2, <2>6, EraseOK, EndsOK
  <2>7. CASE /\ row[o] # "NONE" /\ PutMeta(o, row[o], rows)
             /\ Goto(o, "undoing") /\ call' = [call EXCEPT ![o].asked = call[o].acked]
             /\ UNCHANGED full
    <3>1. MetaOK'
      BY <2>1, <2>3, <2>7, PutMetaOK
    <3>2. UploadsOK'
      BY <2>2, <2>7 DEF Goto, UploadsOK, Running
    <3> QED BY <2>2, <3>1, <3>2
  <2> HIDE DEF rows
  <2>8. \/ Ends(o, "refused") /\ UNCHANGED metaVars
        \/ row[o] # "NONE" /\ GoOn(o, row[o], rows, full[o] /\ Cardinality(call[o].acked) >= RF)
        \/ Erase(o) /\ Ends(o, "refused")
        \/ /\ row[o] # "NONE" /\ PutMeta(o, row[o], rows)
           /\ Goto(o, "undoing") /\ call' = [call EXCEPT ![o].asked = call[o].acked]
           /\ UNCHANGED full
    BY <1>4, Zenon DEF UploadStored, StoredRows, rows
  <2> QED BY <2>4, <2>5, <2>6, <2>7, <2>8
<1>5. CASE UploadUndo(o)
  <2>1. PICK n \in call[o].asked :
          /\ Unlink(<<o, call[o].index, n>>)
          /\ call' = [call EXCEPT ![o].asked = @ \ {n}]
    BY <1>5 DEF UploadUndo
  <2>2. files' \subseteq Object \X Nat \X Node
    BY <2>1 DEF Unlink, OthersOK
  <2>3. OthersOK'
    BY <1>5, <2>2 DEF UploadUndo, otherVars, deleteVars, copyVars, readVars, OthersOK
  <2>4. MetaOK'
    BY <1>5, SameMeta DEF UploadUndo
  <2>5. UploadsOK'
    BY <1>5, <2>1 DEF UploadUndo, otherVars, UploadsOK
  <2> QED BY <2>3, <2>4, <2>5
<1>6. CASE UploadUndone(o)
  BY <1>6, EraseOK, EndsOK, SameOthers DEF UploadUndone, otherVars, copyVars, readVars
<1> QED BY <1>1, <1>2, <1>3, <1>4, <1>5, <1>6 DEF UploadWork

\* A replica's status changes, of a chunk that may be gone.
LEMMA StatusSet ==
  ASSUME MetaOK, NEW o \in Object, NEW i \in Nat, i \in 1..Len(chunk[o]), NEW n \in Node,
         NEW s \in {"HEALTHY", "UNREACHABLE"},
         chunk' = [chunk EXCEPT ![o][i][n] = s], row' = row
  PROVE  MetaOK'
<1> DEFINE rows == [chunk[o] EXCEPT ![i] = [chunk[o][i] EXCEPT ![n] = s]]
<1>1. chunk[o] \in Seq(Replicas) /\ chunk[o][i] \in Replicas
  BY DEF MetaOK, Replicas
<1>2. [chunk[o][i] EXCEPT ![n] = s] \in Replicas
  BY <1>1 DEF Replicas
<1>3. rows \in Seq(Replicas)
  BY <1>1, <1>2
<1>4. chunk' = [chunk EXCEPT ![o] = rows]
  OBVIOUS
<1>5. row[o] # "NONE"
  BY DEF MetaOK
<1> QED BY <1>3, <1>4, <1>5 DEF MetaOK, Replicas

LEMMA DeleteTypes ==
  ASSUME TypesOK, NEW o \in Object, DeleteStart(o) \/ DeleteUnlink(o) \/ DeleteRows(o)
  PROVE  TypesOK'
<1> USE DEF TypesOK
<1>1. UploadsOK'
  BY SameUploads DEF DeleteStart, DeleteUnlink, DeleteRows, uploadVars
<1>2. MetaOK'
  BY SameMeta, EraseOK DEF DeleteStart, DeleteUnlink, DeleteRows
<1>3. CASE DeleteStart(o)
  <2>1. Rows(o) \in SUBSET (Nat \X Node)
    <3>1. 1..Len(chunk[o]) \subseteq Nat
      OBVIOUS
    <3> QED BY <3>1 DEF Rows
  <2>2. OthersOK'
    BY <1>3, <2>1 DEF DeleteStart, copyVars, readVars, OthersOK
  <2> QED BY <1>1, <1>2, <2>2
<1>4. CASE DeleteUnlink(o)
  <2>1. PICK r \in removal[o] : /\ Unlink(<<o, r[1], r[2]>>)
                                /\ removal' = [removal EXCEPT ![o] = @ \ {r}]
    BY <1>4 DEF DeleteUnlink
  <2>2. files' \subseteq files
    BY <2>1 DEF Unlink
  <2>3. removal[o] \ {r} \in SUBSET (Nat \X Node)
    BY <1>4 DEF DeleteUnlink, OthersOK
  <2>4. OthersOK'
    BY <1>4, <2>1, <2>2, <2>3 DEF DeleteUnlink, copyVars, readVars, OthersOK
  <2> QED BY <1>1, <1>2, <2>4
<1>5. CASE DeleteRows(o)
  <2>1. OthersOK'
    BY <1>5 DEF DeleteRows, copyVars, readVars, OthersOK
  <2> QED BY <1>1, <1>2, <2>1
<1> QED BY <1>3, <1>4, <1>5

\* What a step of a copy does: the store of its file, which ends it or not, ...
LEMMA CopyStores ==
  ASSUME TypesOK, CopyStore
  PROVE  \E o \in Object, i \in Nat, n \in Node :
           /\ i \in 1..Len(chunk[o]) /\ files \subseteq files' /\ UNCHANGED metaVars
           /\ files' \subseteq files \cup {<<o, i, n>>}
           /\ \/ copy' = <<o, i, n>> /\ UNCHANGED stray
              \/ CopyEnds(<<o, i, n>>)
<1>1. PICK o \in Object : \E i \in 1..Len(chunk[o]) : \E n \in Node, ok \in BOOLEAN :
        /\ Store(<<o, i, n>>, ok) /\ UNCHANGED metaVars
        /\ \/ ok /\ copy' = <<o, i, n>> /\ UNCHANGED stray
           \/ ~ok /\ CopyEnds(<<o, i, n>>)
  BY Zenon DEF CopyStore
<1>2. PICK i \in 1..Len(chunk[o]), n \in Node, ok \in BOOLEAN :
        /\ Store(<<o, i, n>>, ok) /\ UNCHANGED metaVars
        /\ \/ ok /\ copy' = <<o, i, n>> /\ UNCHANGED stray
           \/ ~ok /\ CopyEnds(<<o, i, n>>)
  BY <1>1, Zenon
<1>3. i \in Nat
  BY DEF TypesOK, MetaOK
<1>4. files \subseteq files' /\ files' \subseteq files \cup {<<o, i, n>>}
  BY <1>2 DEF Store
<1> QED BY <1>2, <1>3, <1>4, Zenon

\* ... and the end, which writes the status of a replica or leaves the rows.
LEMMA CopyRecords ==
  ASSUME TypesOK, CopyRecord
  PROVE  \E o \in Object, i \in Nat, n \in Node :
           /\ copy = <<o, i, n>> /\ CopyEnds(<<o, i, n>>) /\ row' = row
           /\ \/ chunk' = chunk
              \/ i \in 1..Len(chunk[o]) /\ \E s \in {"HEALTHY", "UNREACHABLE"} :
                                             chunk' = [chunk EXCEPT ![o][i][n] = s]
<1>1. PICK o \in Object, i \in Nat, n \in Node : copy = <<o, i, n>>
  BY DEF CopyRecord, TypesOK, OthersOK
<1>2. \A s : CopyRow(<<o, i, n>>, s)
               = IF i \in 1..Len(chunk[o]) THEN [chunk EXCEPT ![o][i][n] = s] ELSE chunk
  BY DEF CopyRow
<1>3. \/ chunk' = chunk
      \/ i \in 1..Len(chunk[o]) /\ \E s \in {"HEALTHY", "UNREACHABLE"} :
                                     chunk' = [chunk EXCEPT ![o][i][n] = s]
  <2>1. chunk' = CopyRow(copy, "HEALTHY") \/ chunk' = CopyRow(copy, "UNREACHABLE") \/ chunk' = chunk
    BY DEF CopyRecord
  <2> QED BY <1>1, <1>2, <2>1
<1> QED BY <1>1, <1>3 DEF CopyRecord

LEMMA CopyTypes == ASSUME TypesOK, CopyStore \/ CopyRecord PROVE TypesOK'
<1>1. UploadsOK'
  BY SameUploads DEF CopyStore, CopyRecord, uploadVars, TypesOK
<1>2. ASSUME CopyStore PROVE MetaOK' /\ OthersOK'
  <2>1. PICK o \in Object, i \in Nat, n \in Node :
          /\ UNCHANGED metaVars
          /\ files' \subseteq files \cup {<<o, i, n>>}
          /\ copy' = <<o, i, n>> \/ CopyEnds(<<o, i, n>>)
    BY <1>2, CopyStores
  <2>2. copy' \in (Object \X Nat \X Node) \cup {None}
    BY <2>1 DEF CopyEnds
  <2>3. files' \subseteq Object \X Nat \X Node
    BY <2>1 DEF TypesOK, OthersOK
  <2>4. UNCHANGED <<deleteVars, W, download>>
    BY <1>2 DEF CopyStore, readVars
  <2>5. OthersOK'
    BY <2>2, <2>3, <2>4 DEF deleteVars, TypesOK, OthersOK
  <2> QED BY <2>1, <2>5, SameMeta DEF TypesOK
<1>3. ASSUME CopyRecord PROVE MetaOK' /\ OthersOK'
  <2>1. PICK o \in Object, i \in Nat, n \in Node :
          /\ copy' = None /\ row' = row
          /\ \/ chunk' = chunk
             \/ i \in 1..Len(chunk[o]) /\ \E s \in {"HEALTHY", "UNREACHABLE"} :
                                            chunk' = [chunk EXCEPT ![o][i][n] = s]
    BY <1>3, CopyRecords DEF CopyEnds
  <2>2. MetaOK'
    BY <2>1, StatusSet, SameMeta DEF TypesOK, metaVars
  <2>3. OthersOK'
    BY <1>3, <2>1 DEF CopyRecord, deleteVars, readVars, TypesOK, OthersOK
  <2> QED BY <2>2, <2>3
<1> QED BY <1>1, <1>2, <1>3 DEF TypesOK

LEMMA DegradeTypes == ASSUME TypesOK, NEW o \in Object, Degrade(o) PROVE TypesOK'
<1> USE DEF TypesOK
<1>1. UploadsOK' /\ OthersOK'
  BY SameUploads, SameOthers DEF Degrade, uploadVars, otherVars, copyVars, readVars
<1>2. PICK i \in Nat, n \in Node :
        i \in 1..Len(chunk[o]) /\ chunk' = [chunk EXCEPT ![o][i][n] = "UNREACHABLE"]
  <2>1. PICK i \in 1..Len(chunk[o]) : \E n \in Healthy(chunk[o][i]) :
          chunk' = [chunk EXCEPT ![o][i][n] = "UNREACHABLE"]
    BY DEF Degrade
  <2>2. i \in Nat
    BY DEF MetaOK
  <2> QED BY <2>1, <2>2, Zenon DEF Healthy
<1>3. row' = row
  BY DEF Degrade
<1>4. MetaOK'
  BY <1>2, <1>3, StatusSet
<1> QED BY <1>1, <1>4

LEMMA RefreshTypes == ASSUME TypesOK, RefreshStatuses PROVE TypesOK'
<1> USE DEF TypesOK
<1>1. UploadsOK' /\ OthersOK'
  BY SameUploads, SameOthers DEF RefreshStatuses, uploadVars, otherVars, copyVars, readVars
<1>2. MetaOK'
  BY DEF RefreshStatuses, MetaOK
<1> QED BY <1>1, <1>2

LEMMA BatchTypes == ASSUME TypesOK, BatchStart \/ BatchAnswer PROVE TypesOK'
<1> USE DEF TypesOK
<1>1. MetaOK' /\ OthersOK'
  BY SameMeta, SameOthers DEF BatchStart, BatchAnswer, copyVars, readVars
<1>2. UploadsOK'
  BY DEF BatchStart, BatchAnswer, GotoAll, uploadVars, UploadsOK, Running
<1> QED BY <1>1, <1>2

LEMMA ReadTypes ==
  ASSUME TypesOK, NEW r \in Reader,
         ReadChunk(r) \/ ReadEnd(r) \/ \E o \in Object : ReadStart(r, o)
  PROVE  TypesOK'
<1> USE DEF TypesOK
<1>1. MetaOK' /\ UploadsOK'
  BY SameMeta, SameUploads DEF ReadChunk, ReadEnd, ReadStart, uploadVars, otherVars
<1>2. /\ UNCHANGED <<files, deleteVars, copyVars, W>>
  BY DEF ReadChunk, ReadEnd, ReadStart, otherVars
<1>3. download' \in [Reader -> Downloads \cup {None}]
  <2>1. CASE ReadChunk(r)
    <3>1. download[r] \in Downloads
      BY <2>1 DEF ReadChunk, Reading, OthersOK
    <3>2. [download[r] EXCEPT !.sent = @ + 1] \in Downloads
      BY <3>1 DEF Downloads
    <3> QED BY <2>1, <3>2 DEF ReadChunk, OthersOK
  <2>2. CASE ReadEnd(r)
    <3>1. download[r] \in Downloads
      BY <2>2 DEF ReadEnd, Reading, OthersOK
    <3>2. [download[r] EXCEPT !.pc = "complete"] \in Downloads
      BY <3>1 DEF Downloads
    <3> QED BY <2>2, <3>2 DEF ReadEnd, OthersOK
  <2>3. ASSUME NEW o \in Object, ReadStart(r, o) PROVE download' \in [Reader -> Downloads \cup {None}]
    <3>1. Len(chunk[o]) \in Nat
      BY DEF MetaOK
    <3>2. [pc |-> "reading", object |-> o, length |-> Len(chunk[o]), sent |-> 0,
           early |-> phase[o] # "stored"] \in Downloads
      BY <3>1 DEF Downloads
    <3> QED BY <2>3, <3>2 DEF ReadStart, OthersOK
  <2> QED BY <2>1, <2>2, <2>3
<1> QED BY <1>1, <1>2, <1>3 DEF OthersOK, deleteVars, copyVars

LEMMA CrashTypes == ASSUME TypesOK, Crash PROVE TypesOK'
<1> USE DEF TypesOK
<1>1. MetaOK'
  BY SameMeta DEF Crash
<1>2. UploadsOK'
  BY DEF Crash, GotoAll, UploadsOK, NoCall
<1>3. OthersOK'
  BY DEF Crash, OthersOK
<1> QED BY <1>1, <1>2, <1>3

LEMMA NextTypes == TypesOK /\ [ObjectsNext]_objectVars => TypesOK'
<1> SUFFICES ASSUME TypesOK, [ObjectsNext]_objectVars PROVE TypesOK'
  OBVIOUS
<1>1. CASE UNCHANGED objectVars
  BY <1>1, SameMeta, SameUploads, SameOthers
     DEF TypesOK, objectVars, uploadVars, otherVars, copyVars, readVars
<1> QED
  BY <1>1, UploadTypes, DeleteTypes, CopyTypes, DegradeTypes, RefreshTypes, BatchTypes,
     ReadTypes, CrashTypes DEF ObjectsNext
-----------------------------------------------------------------------------
Busy    == {o \in Object : phase[o] \in Running}
Readers == {r \in Reader : Reading(r)}

\* The files of a batch wait for its admission.
BatchFirst == batch = "none" => \A o \in Batch : phase[o] = "none"

\* How an action may change the phase of the uploads
PhaseStep ==
  \/ UNCHANGED <<phase, active_writes>>
  \/ \E o \in Object :
       /\ (phase[o] = "none" /\ o \notin Batch) \/ phase[o] = "waiting"
       /\ Goto(o, "receiving") /\ active_writes' = active_writes + 1
  \/ \E o \in Object : phase[o] \in Running /\
       \/ \E how \in {"storing", "undoing"} : Goto(o, how) /\ active_writes' = active_writes
       \/ \E how \in {"stored", "refused"} : Ends(o, how)
  \/ /\ batch = "none" /\ batch' # "none"
     /\ \E how \in {"waiting", "refused"} : GotoAll(Batch, how)
     /\ active_writes' = active_writes
  \/ /\ GotoAll({o \in Object : phase[o] \in Running \cup {"waiting"}}, "interrupted")
     /\ active_writes' = 0

\* A batch that has been answered or refused is not admitted again.
BatchStep == batch' = "none" => batch = "none"

LEMMA GoOnPhase ==
  ASSUME NEW o \in Object, phase[o] \in Running, NEW status, NEW rows,
         NEW allFull \in BOOLEAN, GoOn(o, status, rows, allFull)
  PROVE  PhaseStep
  BY GoOnEffect DEF PhaseStep, Turns

LEMMA UploadPhase ==
  ASSUME TypesOK, NEW o \in Object, UploadBegin(o) \/ UploadWork(o)
  PROVE  PhaseStep /\ BatchStep
<1> USE DEF Running
<1>1. BatchStep
  BY DEF UploadBegin, UploadWork, UploadReceive, UploadStore, UploadStored, UploadUndo,
         UploadUndone, otherVars, BatchStep
<1>2. CASE UploadBegin(o)
  BY <1>1, <1>2 DEF UploadBegin, PhaseStep
<1>3. CASE UploadReceive(o)
  <2>1. phase[o] \in Running /\ (Ends(o, "refused") \/ GoOn(o, "UPLOADING", <<>>, TRUE))
    BY <1>3 DEF UploadReceive
  <2>2. CASE Ends(o, "refused")
    BY <1>1, <2>1, <2>2 DEF PhaseStep
  <2> QED BY <1>1, <2>1, <2>2, GoOnPhase
<1>4. CASE UploadStore(o) \/ UploadUndo(o)
  BY <1>1, <1>4 DEF UploadStore, UploadUndo, PhaseStep
<1>5. CASE UploadStored(o)
  <2> DEFINE rows == StoredRows(o)
  <2>1. phase[o] \in Running
    BY <1>5 DEF UploadStored
  <2>2. CASE Ends(o, "refused")
    BY <1>1, <2>1, <2>2 DEF PhaseStep
  <2>3. CASE GoOn(o, row[o], rows, full[o] /\ Cardinality(call[o].acked) >= RF)
    <3>1. (full[o] /\ Cardinality(call[o].acked) >= RF) \in BOOLEAN
      OBVIOUS
    <3> QED BY <1>1, <2>1, <2>3, <3>1, GoOnPhase
  <2>4. CASE Goto(o, "undoing") /\ active_writes' = active_writes
    BY <1>1, <2>1, <2>4 DEF PhaseStep
  <2> HIDE DEF rows
  <2>5. \/ Ends(o, "refused")
        \/ GoOn(o, row[o], rows, full[o] /\ Cardinality(call[o].acked) >= RF)
        \/ Goto(o, "undoing") /\ active_writes' = active_writes
    BY <1>5, Zenon DEF UploadStored, StoredRows, rows
  <2> QED BY <1>1, <2>2, <2>3, <2>4, <2>5
<1>6. CASE UploadUndone(o)
  BY <1>1, <1>6 DEF UploadUndone, PhaseStep
<1> QED BY <1>1, <1>2, <1>3, <1>4, <1>5, <1>6 DEF UploadWork

LEMMA NextPhase == TypesOK /\ ObjectsNext => PhaseStep /\ BatchStep
<1> SUFFICES ASSUME TypesOK, ObjectsNext PROVE PhaseStep /\ BatchStep
  OBVIOUS
<1>1. ASSUME NEW o \in Object, UploadBegin(o) \/ UploadWork(o) PROVE PhaseStep /\ BatchStep
  BY <1>1, UploadPhase
<1>2. CASE BatchStart
  BY <1>2 DEF BatchStart, PhaseStep, BatchStep
<1>3. CASE Crash
  BY <1>3 DEF Crash, PhaseStep, BatchStep
<1>4. ASSUME UNCHANGED <<phase, active_writes>>, BatchStep PROVE PhaseStep /\ BatchStep
  BY <1>4 DEF PhaseStep
<1>5. CASE \/ BatchAnswer \/ RefreshStatuses \/ CopyStore \/ CopyRecord
           \/ \E o \in Object : DeleteStart(o) \/ DeleteUnlink(o) \/ DeleteRows(o) \/ Degrade(o)
  BY <1>4, <1>5 DEF BatchAnswer, RefreshStatuses, CopyStore, CopyRecord, DeleteStart,
     DeleteUnlink, DeleteRows, Degrade, uploadVars, otherVars, BatchStep
<1>6. CASE \E r \in Reader : ReadChunk(r) \/ ReadEnd(r) \/ \E o \in Object : ReadStart(r, o)
  BY <1>4, <1>6 DEF ReadChunk, ReadEnd, ReadStart, uploadVars, otherVars, BatchStep
<1> QED BY <1>1, <1>2, <1>3, <1>5, <1>6, Zenon DEF ObjectsNext

\* An upload stays accepted.
LEMMA StoredStays ==
  ASSUME TypesOK, BatchFirst, PhaseStep, NEW o \in Object, phase[o] = "stored"
  PROVE  phase'[o] = "stored"
  BY DEF TypesOK, UploadsOK, BatchFirst, PhaseStep, Goto, GotoAll, Ends, Running

LEMMA BatchFirstKept ==
  ASSUME TypesOK, BatchFirst, PhaseStep, BatchStep PROVE BatchFirst'
<1> SUFFICES ASSUME batch = "none", batch' = "none", NEW o \in Batch, phase[o] = "none"
             PROVE  phase'[o] = "none"
  BY DEF BatchFirst, BatchStep
<1>1. o \in Object
  BY ObjectsAssumption
<1> QED BY <1>1 DEF TypesOK, UploadsOK, PhaseStep, Goto, GotoAll, Ends, Running

LEMMA WritesCounted ==
  ASSUME TypesOK, BatchFirst, PhaseStep, active_writes = Cardinality(Busy)
  PROVE  active_writes' = Cardinality(Busy')
<1>0. IsFiniteSet(Busy) /\ Cardinality(Busy) \in Nat
  <2>1. Busy \in SUBSET Object
    BY DEF Busy
  <2> QED BY <2>1, FS_Subset, FS_CardinalityType, ObjectsAssumption
<1>1. CASE UNCHANGED <<phase, active_writes>>
  BY <1>1 DEF Busy
<1>2. ASSUME NEW o \in Object, phase[o] \notin Running, Goto(o, "receiving"),
             active_writes' = active_writes + 1
      PROVE  active_writes' = Cardinality(Busy')
  <2>1. Busy' = Busy \cup {o} /\ o \notin Busy
    BY <1>2 DEF Busy, Goto, TypesOK, UploadsOK, Running
  <2> QED BY <1>0, <1>2, <2>1, FS_AddElement
<1>3. ASSUME NEW o \in Object, phase[o] \in Running, NEW how \in {"storing", "undoing"},
             Goto(o, how), active_writes' = active_writes
      PROVE  active_writes' = Cardinality(Busy')
  <2>1. Busy' = Busy
    BY <1>3 DEF Busy, Goto, TypesOK, UploadsOK, Running
  <2> QED BY <1>3, <2>1
<1>4. ASSUME NEW o \in Object, phase[o] \in Running, NEW how \in {"stored", "refused"},
             Ends(o, how)
      PROVE  active_writes' = Cardinality(Busy')
  <2>1. Busy' = Busy \ {o} /\ o \in Busy
    BY <1>4 DEF Busy, Ends, Goto, TypesOK, UploadsOK, Running
  <2>2. Cardinality(Busy') = Cardinality(Busy) - 1
    BY <1>0, <2>1, FS_RemoveElement
  <2>3. Cardinality(Busy') \in Nat
    BY <1>0, <2>1, FS_RemoveElement, FS_CardinalityType
  <2> QED BY <1>0, <1>4, <2>2, <2>3 DEF Ends
<1>5. ASSUME batch = "none", NEW how \in {"waiting", "refused"}, GotoAll(Batch, how),
             active_writes' = active_writes
      PROVE  active_writes' = Cardinality(Busy')
  <2>1. Busy' = Busy
    BY <1>5 DEF Busy, GotoAll, BatchFirst, Running
  <2> QED BY <1>5, <2>1
<1>6. CASE /\ GotoAll({o \in Object : phase[o] \in Running \cup {"waiting"}}, "interrupted")
           /\ active_writes' = 0
  <2>1. Busy' = {}
    BY <1>6 DEF Busy, GotoAll, Running
  <2> QED BY <1>6, <2>1, FS_EmptySet
<1>7. \A o \in Object : phase[o] \in {"none", "waiting"} => phase[o] \notin Running
  BY DEF Running
<1> QED BY <1>1, <1>2, <1>3, <1>4, <1>5, <1>6, <1>7 DEF PhaseStep

LEMMA ReadsCounted ==
  ASSUME TypesOK, ObjectsNext, active_reads = Cardinality(Readers)
  PROVE  active_reads' = Cardinality(Readers')
<1>0. IsFiniteSet(Readers) /\ Cardinality(Readers) \in Nat
  <2>1. Readers \in SUBSET Reader
    BY DEF Readers
  <2> QED BY <2>1, FS_Subset, FS_CardinalityType, ObjectsAssumption
<1>1. ASSUME UNCHANGED readVars PROVE active_reads' = Cardinality(Readers')
  BY <1>1 DEF readVars, Readers, Reading
<1>2. ASSUME NEW r \in Reader, NEW o \in Object, ReadStart(r, o)
      PROVE  active_reads' = Cardinality(Readers')
  <2>1. [pc |-> "reading", object |-> o, length |-> Len(chunk[o]), sent |-> 0,
         early |-> phase[o] # "stored"] # None
    <3>1. Len(chunk[o]) \in Nat
      BY DEF TypesOK, MetaOK
    <3>2. [pc |-> "reading", object |-> o, length |-> Len(chunk[o]), sent |-> 0,
           early |-> phase[o] # "stored"] \in Downloads
      BY <3>1 DEF Downloads
    <3> QED BY <3>2, ObjectsAssumption
  <2>2. Readers' = Readers \cup {r} /\ r \notin Readers
    BY <1>2, <2>1 DEF ReadStart, Readers, Reading, TypesOK, OthersOK
  <2> QED BY <1>0, <1>2, <2>2, FS_AddElement DEF ReadStart
<1>3. ASSUME NEW r \in Reader, ReadChunk(r) PROVE active_reads' = Cardinality(Readers')
  <2>1. Readers' = Readers
    <3>1. download[r] \in Downloads /\ download[r].pc = "reading"
      BY <1>3 DEF ReadChunk, Reading, TypesOK, OthersOK
    <3>2. [download[r] EXCEPT !.sent = @ + 1] \in Downloads
      BY <3>1 DEF Downloads
    <3>3. [download[r] EXCEPT !.sent = @ + 1].pc = "reading"
      BY <3>1 DEF Downloads
    <3>4. download'[r] # None /\ download'[r].pc = "reading"
      BY <1>3, <3>2, <3>3, ObjectsAssumption DEF ReadChunk, TypesOK, OthersOK
    <3>5. \A s \in Reader \ {r} : download'[s] = download[s]
      BY <1>3 DEF ReadChunk, TypesOK, OthersOK
    <3> QED BY <1>3, <3>4, <3>5 DEF ReadChunk, Readers, Reading
  <2> QED BY <1>3, <2>1 DEF ReadChunk
<1>4. ASSUME NEW r \in Reader, ReadEnd(r) PROVE active_reads' = Cardinality(Readers')
  <2>1. Readers' = Readers \ {r} /\ r \in Readers
    <3>1. r \in Readers /\ download[r] \in Downloads
      BY <1>4 DEF ReadEnd, Readers, Reading, TypesOK, OthersOK
    <3>2. [download[r] EXCEPT !.pc = "complete"].pc # "reading"
      BY <3>1 DEF Downloads
    <3>3. download'[r] = None \/ download'[r].pc # "reading"
      BY <1>4, <3>2 DEF ReadEnd, TypesOK, OthersOK
    <3>4. \A s \in Reader \ {r} : download'[s] = download[s]
      BY <1>4 DEF ReadEnd, TypesOK, OthersOK
    <3> QED BY <3>1, <3>3, <3>4 DEF Readers, Reading
  <2>2. Cardinality(Readers') = Cardinality(Readers) - 1 /\ Cardinality(Readers') \in Nat
    BY <1>0, <2>1, FS_RemoveElement, FS_CardinalityType
  <2> QED BY <1>0, <1>4, <2>2 DEF ReadEnd
<1>5. CASE Crash
  <2>1. Readers' = {}
    BY <1>5 DEF Crash, Readers, Reading
  <2> QED BY <1>5, <2>1, FS_EmptySet DEF Crash
<1>6. CASE \/ BatchStart \/ BatchAnswer \/ RefreshStatuses \/ CopyStore \/ CopyRecord
           \/ \E o \in Object : \/ UploadBegin(o) \/ UploadWork(o)
                                \/ DeleteStart(o) \/ DeleteUnlink(o) \/ DeleteRows(o) \/ Degrade(o)
  BY <1>1, <1>6 DEF BatchStart, BatchAnswer, RefreshStatuses, CopyStore, CopyRecord,
     UploadBegin, UploadWork, UploadReceive, UploadStore, UploadStored, UploadUndo,
     UploadUndone, DeleteStart, DeleteUnlink, DeleteRows, Degrade
<1> QED BY <1>2, <1>3, <1>4, <1>5, <1>6, Zenon DEF ObjectsNext

CountInv == TypesOK /\ BatchFirst /\ CountersOK

LEMMA InitCounts == ObjectsInit => CountInv
<1> SUFFICES ASSUME ObjectsInit PROVE CountInv
  OBVIOUS
<1>1. Busy = {} /\ Readers = {}
  BY DEF ObjectsInit, Busy, Readers, Reading, Running
<1>2. CountersOK
  BY <1>1, FS_EmptySet DEF ObjectsInit, CountersOK, Busy, Readers
<1>3. BatchFirst
  BY ObjectsAssumption DEF ObjectsInit, BatchFirst
<1> QED BY <1>2, <1>3, InitTypes DEF CountInv

LEMMA NextCounts == CountInv /\ [ObjectsNext]_objectVars => CountInv'
<1> SUFFICES ASSUME CountInv, [ObjectsNext]_objectVars PROVE CountInv'
  OBVIOUS
<1>1. TypesOK'
  BY NextTypes DEF CountInv
<1>2. active_writes = Cardinality(Busy) /\ active_reads = Cardinality(Readers)
  BY DEF CountInv, CountersOK, Busy, Readers
<1>3. CASE ObjectsNext
  <2>1. TypesOK /\ BatchFirst /\ PhaseStep /\ BatchStep
    BY <1>3, NextPhase DEF CountInv
  <2>2. active_writes' = Cardinality(Busy') /\ active_reads' = Cardinality(Readers') /\ BatchFirst'
    BY <1>2, <1>3, <2>1, WritesCounted, ReadsCounted, BatchFirstKept
  <2> QED BY <1>1, <2>2 DEF CountInv, CountersOK, Busy, Readers
<1>4. CASE UNCHANGED objectVars
  BY <1>1, <1>4 DEF objectVars, uploadVars, otherVars, readVars, CountInv, CountersOK,
     BatchFirst, Reading
<1> QED BY <1>3, <1>4
-----------------------------------------------------------------------------
Placed(o, i)    == Cardinality(Stored(o, i)) >= W
Listed(o, i, n) == i \in 1..Len(chunk[o]) /\ chunk[o][i][n] # "NONE"

\* While an upload stores a chunk, the chunks before it are in place, and the
\* nodes that have acknowledged this one hold it; an object whose upload was
\* accepted keeps what it had then.
UploadInv(o) ==
  /\ phase[o] = "storing" /\ row[o] # "NONE" =>
       call[o].index = Len(chunk[o]) /\ Len(chunk[o]) \in 1..Length[o]
  /\ phase[o] = "storing" /\ wanted[o] =>
       /\ row[o] # "NONE"
       /\ \A i \in 1..(Len(chunk[o]) - 1) : Placed(o, i)
       /\ call[o].acked \subseteq Stored(o, call[o].index)
  /\ phase[o] = "stored" /\ row[o] # "NONE" => Len(chunk[o]) = Length[o]
  /\ phase[o] = "stored" /\ wanted[o] =>
       row[o] # "NONE" /\ \A i \in 1..Length[o] : Placed(o, i)
  /\ wanted[o] => removal[o] = None

\* What leaves UploadInv of an object as it is
SameUpload(o) ==
  /\ phase'[o] = phase[o] /\ call'[o] = call[o] /\ wanted'[o] = wanted[o]
  /\ removal'[o] = removal[o] /\ W' = W
  /\ (row'[o] = "NONE") <=> (row[o] = "NONE")
  /\ Len(chunk'[o]) = Len(chunk[o])
  /\ \A i \in Nat : Stored(o, i) \subseteq Stored(o, i)'

LEMMA PlacedKept ==
  ASSUME W \in Quorums, NEW o, NEW i, Placed(o, i), W' = W, Stored(o, i) \subseteq Stored(o, i)'
  PROVE  Placed(o, i)'
<1>1. W \in Nat
  <2>1. Cardinality(Node) \in Nat
    BY ObjectsAssumption, FS_CardinalityType
  <2> QED BY <2>1, ObjectsAssumption
<1>2. Stored(o, i)' \in SUBSET Node /\ Stored(o, i) \in SUBSET Stored(o, i)'
  BY DEF Stored
<1>3. IsFiniteSet(Stored(o, i)')
  BY <1>2, ObjectsAssumption, FS_Subset
<1>4. Cardinality(Stored(o, i)) \in Nat /\ Cardinality(Stored(o, i)') \in Nat
  BY <1>2, <1>3, FS_Subset, FS_CardinalityType
<1>5. Cardinality(Stored(o, i)) <= Cardinality(Stored(o, i)')
  BY <1>2, <1>3, FS_Subset
<1> QED BY <1>1, <1>4, <1>5 DEF Placed

LEMMA LenOK == ASSUME MetaOK, NEW o \in Object PROVE Len(chunk[o]) \in Nat /\ Length[o] \in Nat
  BY ObjectsAssumption DEF MetaOK

LEMMA UploadKept ==
  ASSUME TypesOK, NEW o \in Object, UploadInv(o), SameUpload(o) PROVE UploadInv(o)'
<1>1. ASSUME NEW i \in Nat, Placed(o, i) PROVE Placed(o, i)'
  BY <1>1, PlacedKept DEF SameUpload, TypesOK, OthersOK
<1>2. /\ Len(chunk[o]) \in Nat /\ Length[o] \in Nat /\ call[o].index \in Nat
  BY LenOK DEF TypesOK, UploadsOK
<1>3. \A i \in 1..(Len(chunk[o]) - 1) : i \in Nat
  BY <1>2
<1>4. \A i \in 1..Length[o] : i \in Nat
  BY <1>2
<1> QED BY <1>1, <1>2, <1>3, <1>4 DEF UploadInv, SameUpload

\* An object whose deletion has been requested
LEMMA UploadUnwanted ==
  ASSUME NEW o \in Object, UploadInv(o), ~wanted'[o], phase'[o] = phase[o], call'[o] = call[o],
         row'[o] # "NONE" => row[o] # "NONE" /\ chunk'[o] = chunk[o]
  PROVE  UploadInv(o)'
  BY DEF UploadInv

\* What the actions of an upload leave to the other objects
Aside(o) ==
  \A p \in Object \ {o} :
    /\ row'[p] = row[p] /\ chunk'[p] = chunk[p] /\ phase'[p] = phase[p] /\ call'[p] = call[p]
    /\ \A i \in Nat, n \in Node : <<p, i, n>> \in files' <=> <<p, i, n>> \in files

LEMMA GoOnAside ==
  ASSUME TypesOK, NEW o \in Object, NEW status, NEW rows, NEW allFull \in BOOLEAN,
         GoOn(o, status, rows, allFull), UNCHANGED files
  PROVE  Aside(o)
<1>2. CASE Erase(o) /\ Ends(o, "refused")
  BY <1>2 DEF Erase, PutMeta, Ends, Goto, TypesOK, MetaOK, UploadsOK, Aside
<1>3. ASSUME NEW s, PutMeta(o, s, rows), Ends(o, "stored") PROVE Aside(o)
  BY <1>3 DEF PutMeta, Ends, Goto, TypesOK, MetaOK, UploadsOK, Aside
<1>4. ASSUME NEW chosen, Turns(o, status, rows, chosen) PROVE Aside(o)
  BY <1>4 DEF Turns, PutMeta, Goto, TypesOK, MetaOK, UploadsOK, Aside
<1> QED BY <1>2, <1>3, <1>4, GoOnEffect

LEMMA UploadAside ==
  ASSUME TypesOK, NEW o \in Object, UploadBegin(o) \/ UploadWork(o)
  PROVE  Aside(o) /\ UNCHANGED <<deleteVars, copy, W>> /\ stray \subseteq stray'
<1>1. UNCHANGED <<deleteVars, copy, W>> /\ stray \subseteq stray'
  BY DEF UploadBegin, UploadWork, UploadReceive, UploadStore, UploadStored, UploadUndo,
         UploadUndone, otherVars, copyVars
<1> SUFFICES Aside(o)
  BY <1>1
<1>2. ASSUME UNCHANGED metaVars, UNCHANGED files,
             \A p \in Object \ {o} : phase'[p] = phase[p] /\ call'[p] = call[p]
      PROVE  Aside(o)
  BY <1>2 DEF Aside, metaVars
<1>3. ASSUME NEW how, Ends(o, how)
      PROVE  \A p \in Object \ {o} : phase'[p] = phase[p] /\ call'[p] = call[p]
  BY <1>3 DEF Ends, Goto, TypesOK, UploadsOK
<1>4. ASSUME Erase(o), Ends(o, "refused"), UNCHANGED files PROVE Aside(o)
  BY <1>4 DEF Erase, PutMeta, Ends, Goto, TypesOK, MetaOK, UploadsOK, Aside
<1>5. CASE UploadBegin(o)
  BY <1>2, <1>5 DEF UploadBegin, Goto, TypesOK, UploadsOK
<1>6. CASE UploadReceive(o)
  <2>1. CASE GoOn(o, "UPLOADING", <<>>, TRUE)
    BY <1>6, <2>1, GoOnAside DEF UploadReceive
  <2>2. CASE Ends(o, "refused") /\ UNCHANGED metaVars
    BY <1>2, <1>3, <1>6, <2>2 DEF UploadReceive
  <2> QED BY <1>6, <2>1, <2>2 DEF UploadReceive
<1>7. CASE UploadStore(o)
  <2>1. PICK n \in call[o].asked, ok \in BOOLEAN :
          Store(<<o, call[o].index, n>>, ok) /\ call' = [call EXCEPT ![o] = Answered(@, n, ok)]
    BY <1>7 DEF UploadStore
  <2>2. \A p \in Object \ {o} : phase'[p] = phase[p] /\ call'[p] = call[p]
    BY <1>7, <2>1 DEF UploadStore, TypesOK, UploadsOK
  <2>3. \A p \in Object \ {o}, i \in Nat, m \in Node :
          <<p, i, m>> \in files' <=> <<p, i, m>> \in files
    BY <2>1 DEF Store
  <2> QED BY <1>7, <2>2, <2>3 DEF UploadStore, Aside, metaVars
<1>8. CASE UploadStored(o)
  <2> DEFINE rows == StoredRows(o)
             okay == full[o] /\ Cardinality(call[o].acked) >= RF
  <2>1. okay \in BOOLEAN /\ UNCHANGED files
    BY <1>8 DEF UploadStored
  <2> HIDE DEF rows, okay
  <2>2. CASE Ends(o, "refused") /\ UNCHANGED metaVars
    BY <1>2, <1>3, <2>1, <2>2
  <2>3. CASE GoOn(o, row[o], rows, okay)
    BY <2>1, <2>3, GoOnAside
  <2>4. CASE PutMeta(o, row[o], rows) /\ Goto(o, "undoing")
             /\ call' = [call EXCEPT ![o].asked = call[o].acked]
    BY <2>1, <2>4 DEF PutMeta, Goto, TypesOK, MetaOK, UploadsOK, Aside
  <2>5. CASE Erase(o) /\ Ends(o, "refused")
    BY <1>4, <2>1, <2>5
  <2>6. \/ Ends(o, "refused") /\ UNCHANGED metaVars
        \/ GoOn(o, row[o], rows, okay)
        \/ Erase(o) /\ Ends(o, "refused")
        \/ PutMeta(o, row[o], rows) /\ Goto(o, "undoing")
           /\ call' = [call EXCEPT ![o].asked = call[o].acked]
    BY <1>8, Zenon DEF UploadStored, StoredRows, rows, okay
  <2> QED BY <2>2, <2>3, <2>4, <2>5, <2>6
<1>9. CASE UploadUndo(o)
  <2>1. PICK n \in call[o].asked :
          Unlink(<<o, call[o].index, n>>) /\ call' = [call EXCEPT ![o].asked = @ \ {n}]
    BY <1>9 DEF UploadUndo
  <2>2. \A p \in Object \ {o} : phase'[p] = phase[p] /\ call'[p] = call[p]
    BY <1>9, <2>1 DEF UploadUndo, TypesOK, UploadsOK
  <2>3. \A p \in Object \ {o}, i \in Nat, m \in Node :
          <<p, i, m>> \in files' <=> <<p, i, m>> \in files
    BY <2>1 DEF Unlink
  <2> QED BY <1>9, <2>2, <2>3 DEF UploadUndo, Aside, metaVars
<1>10. CASE UploadUndone(o)
  BY <1>4, <1>10 DEF UploadUndone
<1> QED BY <1>5, <1>6, <1>7, <1>8, <1>9, <1>10 DEF UploadWork

\* What GoOn leaves behind, if the chunks so far are in place
LEMMA GoOnUpload ==
  ASSUME TypesOK, NEW o \in Object, NEW status \in Statuses \ {"NONE"},
         NEW rows \in Seq(Replicas), NEW allFull \in BOOLEAN,
         GoOn(o, status, rows, allFull), UNCHANGED <<files, deleteVars, W>>,
         Len(rows) <= Length[o], wanted[o] => removal[o] = None,
         wanted[o] => \A i \in 1..Len(rows) : Placed(o, i)
  PROVE  UploadInv(o)'
<1>1. Len(rows) \in Nat /\ Length[o] \in Nat
  BY ObjectsAssumption
<1>2. \A i : Stored(o, i)' = Stored(o, i) /\ Placed(o, i)' = Placed(o, i)
  BY DEF Stored, Placed
<1>3. wanted'[o] = wanted[o] /\ removal'[o] = removal[o]
  BY DEF deleteVars
<1>4. CASE Erase(o) /\ Ends(o, "refused")
  <2>1. phase'[o] = "refused"
    BY <1>4 DEF Ends, Goto, TypesOK, UploadsOK
  <2> QED BY <1>3, <2>1 DEF UploadInv
<1>5. ASSUME NEW s \in {"HEALTHY", "UNDER_REPLICATED"}, PutMeta(o, s, rows), Ends(o, "stored"),
             ~ (Len(rows) < Length[o])
      PROVE  UploadInv(o)'
  <2>1. phase'[o] = "stored" /\ row'[o] # "NONE" /\ chunk'[o] = rows
    BY <1>5 DEF PutMeta, Ends, Goto, TypesOK, UploadsOK, MetaOK
  <2>2. Len(rows) = Length[o]
    BY <1>1, <1>5
  <2> QED BY <1>2, <1>3, <2>1, <2>2 DEF UploadInv
<1>6. ASSUME NEW chosen \in SUBSET Node, Turns(o, status, rows, chosen), Len(rows) < Length[o]
      PROVE  UploadInv(o)'
  <2>1. /\ phase'[o] = "storing" /\ row'[o] # "NONE" /\ chunk'[o] = Append(rows, Blank)
        /\ call'[o].index = Len(rows) + 1 /\ call'[o].acked = {}
    BY <1>6 DEF Turns, PutMeta, Goto, TypesOK, UploadsOK, MetaOK
  <2>2. Len(chunk'[o]) = Len(rows) + 1
    BY <2>1
  <2>3. Len(chunk'[o]) \in 1..Length[o] /\ 1..(Len(chunk'[o]) - 1) = 1..Len(rows)
    BY <1>1, <1>6, <2>2
  <2> QED BY <1>2, <1>3, <2>1, <2>2, <2>3 DEF UploadInv
<1> QED BY <1>4, <1>5, <1>6, GoOnEffect

LEMMA UploadOwn ==
  ASSUME TypesOK, NEW o \in Object, UploadInv(o), UploadBegin(o) \/ UploadWork(o)
  PROVE  UploadInv(o)'
<1>1. UNCHANGED <<deleteVars, W>> /\ wanted'[o] = wanted[o] /\ removal'[o] = removal[o]
  BY UploadAside DEF deleteVars
<1>2. wanted[o] => removal[o] = None
  BY DEF UploadInv
<1>3. ASSUME phase'[o] \notin {"storing", "stored"} PROVE UploadInv(o)'
  BY <1>1, <1>2, <1>3 DEF UploadInv
<1>4. ASSUME Ends(o, "refused") PROVE UploadInv(o)'
  <2>1. phase'[o] = "refused"
    BY <1>4 DEF Ends, Goto, TypesOK, UploadsOK
  <2> QED BY <1>3, <2>1
<1>5. CASE UploadBegin(o)
  <2>1. phase'[o] = "receiving"
    BY <1>5 DEF UploadBegin, Goto, TypesOK, UploadsOK
  <2> QED BY <1>3, <2>1
<1>6. CASE UploadReceive(o)
  <2>1. CASE GoOn(o, "UPLOADING", <<>>, TRUE)
    <3>1. /\ <<>> \in Seq(Replicas) /\ "UPLOADING" \in Statuses \ {"NONE"} /\ Len(<<>>) <= Length[o]
          /\ \A i \in 1..Len(<<>>) : Placed(o, i)
      BY ObjectsAssumption DEF Statuses
    <3>2. UNCHANGED files
      BY <1>6 DEF UploadReceive
    <3> QED BY <1>1, <1>2, <2>1, <3>1, <3>2, GoOnUpload
  <2> QED BY <1>4, <1>6, <2>1 DEF UploadReceive
<1>7. CASE UploadStore(o)
  <2>1. PICK n \in call[o].asked, ok \in BOOLEAN :
          Store(<<o, call[o].index, n>>, ok) /\ call' = [call EXCEPT ![o] = Answered(@, n, ok)]
    BY <1>7 DEF UploadStore
  <2>2. /\ call'[o].index = call[o].index
        /\ call'[o].acked = IF ok THEN call[o].acked \cup {n} ELSE call[o].acked
    BY <2>1 DEF Answered, TypesOK, UploadsOK
  <2>3. n \in Node
    BY <2>1 DEF TypesOK, UploadsOK
  <2>4. files \subseteq files' /\ (ok => <<o, call[o].index, n>> \in files')
    BY <2>1 DEF Store
  <2>5. \A i : Stored(o, i) \subseteq Stored(o, i)'
    BY <2>4 DEF Stored
  <2>6. call[o].acked \subseteq Stored(o, call[o].index) =>
          (call[o].acked \subseteq Stored(o, call[o].index))'
    <3>1. Stored(o, call[o].index)' = {m \in Node : <<o, call[o].index, m>> \in files'}
      BY <2>2 DEF Stored
    <3>2. Stored(o, call[o].index) = {m \in Node : <<o, call[o].index, m>> \in files}
      BY DEF Stored
    <3> QED BY <2>2, <2>3, <2>4, <3>1, <3>2
  <2>7. \A i : Placed(o, i) => Placed(o, i)'
    BY <1>1, <2>5, PlacedKept DEF TypesOK, OthersOK
  <2>8. phase' = phase /\ row' = row /\ chunk' = chunk
    BY <1>7 DEF UploadStore, metaVars
  <2> QED BY <1>1, <1>7, <2>2, <2>6, <2>7, <2>8 DEF UploadStore, UploadInv
<1>8. CASE UploadStored(o)
  <2> DEFINE rows == StoredRows(o)
             okay == full[o] /\ Cardinality(call[o].acked) >= RF
  <2>1. okay \in BOOLEAN /\ UNCHANGED files /\ phase[o] = "storing"
    BY <1>8 DEF UploadStored
  <2>2. rows \in Seq(Replicas) /\ Len(rows) = Len(chunk[o])
    BY RowsStored
  <2> HIDE DEF rows, okay
  <2>3. CASE row[o] # "NONE" /\ Quorum(o) /\ GoOn(o, row[o], rows, okay)
    <3>1. row[o] \in Statuses \ {"NONE"}
      BY <2>3 DEF TypesOK, MetaOK, Statuses
    <3>2. Len(rows) \in 1..Length[o] /\ call[o].index = Len(rows)
      BY <2>1, <2>2, <2>3 DEF UploadInv
    <3>3. ASSUME wanted[o] PROVE Placed(o, Len(rows))
      <4>1. call[o].acked \in SUBSET Stored(o, Len(rows)) /\ Stored(o, Len(rows)) \in SUBSET Node
        BY <2>1, <3>2, <3>3 DEF UploadInv, Stored
      <4>2. IsFiniteSet(Stored(o, Len(rows)))
        BY <4>1, ObjectsAssumption, FS_Subset
      <4>3. /\ Cardinality(call[o].acked) <= Cardinality(Stored(o, Len(rows)))
            /\ Cardinality(call[o].acked) \in Nat /\ Cardinality(Stored(o, Len(rows))) \in Nat
        BY <4>1, <4>2, FS_Subset, FS_CardinalityType
      <4>4. W \in Nat
        <5>1. Cardinality(Node) \in Nat
          BY ObjectsAssumption, FS_CardinalityType
        <5> QED BY <5>1, ObjectsAssumption DEF TypesOK, OthersOK
      <4>5. Cardinality(call[o].acked) >= W
        BY <2>3 DEF Quorum
      <4> QED BY <4>3, <4>4, <4>5 DEF Placed
    <3>4. ASSUME wanted[o], NEW i \in 1..Len(rows) PROVE Placed(o, i)
      <4>1. Len(rows) \in Nat
        BY <2>2
      <4>2. i = Len(rows) \/ i \in 1..(Len(chunk[o]) - 1)
        BY <2>2, <4>1
      <4> QED BY <2>1, <3>3, <3>4, <4>2 DEF UploadInv
    <3>5. Len(rows) <= Length[o]
      BY <3>2, ObjectsAssumption
    <3> QED BY <1>1, <1>2, <2>1, <2>2, <2>3, <3>1, <3>4, <3>5, GoOnUpload
  <2>4. CASE Goto(o, "undoing")
    <3>1. phase'[o] = "undoing"
      BY <2>4 DEF Goto, TypesOK, UploadsOK
    <3> QED BY <1>3, <3>1
  <2>5. \/ Ends(o, "refused")
        \/ row[o] # "NONE" /\ Quorum(o) /\ GoOn(o, row[o], rows, okay)
        \/ Goto(o, "undoing")
    BY <1>8, Zenon DEF UploadStored, StoredRows, rows, okay
  <2> QED BY <1>4, <2>3, <2>4, <2>5
<1>9. CASE UploadUndo(o)
  BY <1>3, <1>9 DEF UploadUndo
<1>10. CASE UploadUndone(o)
  BY <1>4, <1>10 DEF UploadUndone
<1> QED BY <1>5, <1>6, <1>7, <1>8, <1>9, <1>10 DEF UploadWork

\* Setting a replica's status leaves the number of the chunks.
LEMMA LenSame ==
  ASSUME MetaOK, NEW q, NEW i, NEW n, NEW s, chunk' = [chunk EXCEPT ![q][i][n] = s], NEW o \in Object
  PROVE  Len(chunk'[o]) = Len(chunk[o])
<1>1. chunk[o] \in Seq(Replicas)
  BY DEF MetaOK, Replicas
<1>2. CASE o = q
  <2>1. chunk'[o] = [chunk[o] EXCEPT ![i] = [chunk[o][i] EXCEPT ![n] = s]]
    BY <1>2 DEF MetaOK
  <2> QED BY <1>1, <2>1
<1>3. CASE o # q
  BY <1>3 DEF MetaOK
<1> QED BY <1>2, <1>3

LEMMA DeleteUpload ==
  ASSUME TypesOK, NEW q \in Object, DeleteStart(q) \/ DeleteUnlink(q) \/ DeleteRows(q),
         NEW o \in Object, UploadInv(o), UploadInv(q)
  PROVE  UploadInv(o)'
<1>1. UNCHANGED <<phase, call, W>>
  BY DEF DeleteStart, DeleteUnlink, DeleteRows, uploadVars
<1>2. CASE o = q
  <2>1. ~wanted'[o]
    BY <1>2, ObjectsAssumption
       DEF DeleteStart, DeleteUnlink, DeleteRows, UploadInv, TypesOK, OthersOK
  <2>2. row'[o] # "NONE" => row[o] # "NONE" /\ chunk'[o] = chunk[o]
    BY <1>2 DEF DeleteStart, DeleteUnlink, DeleteRows, Erase, PutMeta, metaVars, TypesOK, MetaOK
  <2> QED BY <1>1, <2>1, <2>2, UploadUnwanted
<1>3. CASE o # q
  <2>1. /\ wanted'[o] = wanted[o] /\ removal'[o] = removal[o]
        /\ row'[o] = row[o] /\ chunk'[o] = chunk[o]
    BY <1>3 DEF DeleteStart, DeleteUnlink, DeleteRows, Erase, PutMeta, metaVars, TypesOK,
       MetaOK, OthersOK
  <2>2. \A i \in Nat : Stored(o, i) \subseteq Stored(o, i)'
    BY <1>3 DEF DeleteStart, DeleteUnlink, DeleteRows, Unlink, Stored
  <2>3. SameUpload(o)
    BY <1>1, <2>1, <2>2 DEF SameUpload
  <2> QED BY <2>3, UploadKept
<1> QED BY <1>2, <1>3

LEMMA NextUpload ==
  ASSUME TypesOK, \A o \in Object : UploadInv(o), ObjectsNext
  PROVE  \A o \in Object : UploadInv(o)'
<1> SUFFICES ASSUME NEW o \in Object PROVE UploadInv(o)'
  OBVIOUS
<1>1. UploadInv(o)
  OBVIOUS
<1>2. ASSUME SameUpload(o) PROVE UploadInv(o)'
  BY <1>1, <1>2, UploadKept
<1>3. ASSUME NEW q \in Object, UploadBegin(q) \/ UploadWork(q) PROVE UploadInv(o)'
  <2>1. CASE o = q
    BY <1>1, <1>3, <2>1, UploadOwn
  <2>2. CASE o # q
    <3>1. Aside(q) /\ UNCHANGED <<deleteVars, copy, W>>
      BY <1>3, UploadAside
    <3>2. SameUpload(o)
      BY <2>2, <3>1 DEF Aside, SameUpload, deleteVars, Stored
    <3> QED BY <1>2, <3>2
  <2> QED BY <2>1, <2>2
<1>4. CASE BatchStart
  <2>1. PICK how \in {"waiting", "refused"} : GotoAll(Batch, how)
    BY <1>4 DEF BatchStart
  <2>2. UNCHANGED <<metaVars, files, call, deleteVars, W>>
    BY <1>4 DEF BatchStart
  <2>3. CASE o \in Batch
    <3>1. phase'[o] \in {"waiting", "refused"}
      BY <2>1, <2>3 DEF GotoAll
    <3> QED BY <1>1, <2>2, <3>1 DEF UploadInv, deleteVars
  <2>4. CASE o \notin Batch
    <3>1. phase'[o] = phase[o]
      BY <2>1, <2>4 DEF GotoAll
    <3> QED BY <1>2, <2>2, <3>1 DEF SameUpload, metaVars, deleteVars, Stored
  <2> QED BY <2>3, <2>4
<1>5. CASE BatchAnswer
  BY <1>2, <1>5 DEF BatchAnswer, SameUpload, metaVars, uploadVars, deleteVars, Stored
<1>6. CASE RefreshStatuses
  <2>1. (row'[o] = "NONE") <=> (row[o] = "NONE")
    BY <1>6 DEF RefreshStatuses
  <2> QED BY <1>2, <1>6, <2>1 DEF RefreshStatuses, SameUpload, uploadVars, otherVars, deleteVars,
          Stored
<1>7. CASE Crash
  <2>1. phase'[o] = "interrupted" \/ (phase'[o] = phase[o] /\ phase[o] # "storing")
    BY <1>7 DEF Crash, GotoAll, Running
  <2>2. UNCHANGED <<metaVars, files, wanted, W>> /\ removal'[o] = None
    BY <1>7 DEF Crash
  <2>3. \A i : Placed(o, i)' = Placed(o, i)
    BY <2>2 DEF Placed, Stored
  <2> QED BY <1>1, <2>1, <2>2, <2>3 DEF UploadInv, metaVars
<1>8. CASE CopyStore
  <2>1. files \subseteq files'
    BY <1>8 DEF CopyStore, Store
  <2> QED BY <1>2, <1>8, <2>1 DEF CopyStore, SameUpload, metaVars, uploadVars, deleteVars, Stored
<1>9. CASE CopyRecord
  <2>1. Len(chunk'[o]) = Len(chunk[o])
    BY <1>9, CopyRecords, LenSame DEF TypesOK
  <2> QED BY <1>2, <1>9, <2>1 DEF CopyRecord, SameUpload, uploadVars, deleteVars, Stored
<1>10. ASSUME NEW q \in Object, Degrade(q) PROVE UploadInv(o)'
  <2>1. PICK i \in 1..Len(chunk[q]) : \E n \in Healthy(chunk[q][i]) :
          chunk' = [chunk EXCEPT ![q][i][n] = "UNREACHABLE"]
    BY <1>10 DEF Degrade
  <2>2. Len(chunk'[o]) = Len(chunk[o])
    BY <2>1, LenSame DEF TypesOK
  <2> QED BY <1>2, <1>10, <2>2 DEF Degrade, SameUpload, uploadVars, otherVars, deleteVars, Stored
<1>11. ASSUME NEW r \in Reader,
              ReadChunk(r) \/ ReadEnd(r) \/ \E q \in Object : ReadStart(r, q)
       PROVE  UploadInv(o)'
  BY <1>2, <1>11 DEF ReadChunk, ReadEnd, ReadStart, SameUpload, metaVars, uploadVars, otherVars,
     deleteVars, Stored
<1>12. ASSUME NEW q \in Object, DeleteStart(q) \/ DeleteUnlink(q) \/ DeleteRows(q)
       PROVE  UploadInv(o)'
  BY <1>12, DeleteUpload
<1> QED
  BY <1>3, <1>4, <1>5, <1>6, <1>7, <1>8, <1>9, <1>10, <1>11, <1>12, Zenon DEF ObjectsNext

LEMMA InitUpload == ASSUME ObjectsInit PROVE \A o \in Object : UploadInv(o)
  BY DEF ObjectsInit, UploadInv

LEMMA SameAllUpload ==
  ASSUME TypesOK, NEW o \in Object, UploadInv(o), UNCHANGED objectVars PROVE UploadInv(o)'
<1>1. SameUpload(o)
  BY DEF SameUpload, objectVars, metaVars, uploadVars, otherVars, deleteVars, Stored
<1> QED BY <1>1, UploadKept
-----------------------------------------------------------------------------
Early == {"none", "waiting", "receiving"}

\* A file of the chunk that is being stored
Current(o, i, n) == phase[o] = "storing" /\ i = call[o].index /\ n \in call[o].targets

\* A file that a copy will list or leave, or that has been left
Loose(o, i, n) == <<o, i, n>> = copy \/ <<o, i, n>> \in stray

\* A file that a deletion would find, and one that is under way still will
Covered(o, i, n) ==
  Listed(o, i, n) /\ (removal[o] # None => <<i, n>> \in removal[o])

\* An object that has no row yet has no files either; the files of one that
\* is being stored, or was accepted, are in its rows and still to be visited
\* by a deletion that runs, or loose, or of the current chunk.
ListInv(o) ==
  /\ phase[o] \in Early =>
       /\ row[o] = "NONE" /\ removal[o] = None /\ (copy # None => copy[1] # o)
       /\ \A i \in Nat, n \in Node : <<o, i, n>> \notin files
  /\ phase[o] = "storing" => call[o].asked \subseteq call[o].targets
  /\ phase[o] \in {"storing", "stored"} =>
       \A i \in Nat, n \in Node : <<o, i, n>> \in files =>
         Covered(o, i, n) \/ Loose(o, i, n) \/ Current(o, i, n)

\* What preserves ListInv of an object
SameList(o) ==
  /\ phase'[o] = phase[o] /\ call'[o] = call[o] /\ removal'[o] = removal[o]
  /\ copy' = copy
  /\ row[o] = "NONE" => row'[o] = "NONE"
  /\ \A i \in Nat, n \in Node :
       /\ Listed(o, i, n) => Listed(o, i, n)'
       /\ <<o, i, n>> \in stray => <<o, i, n>> \in stray'
       /\ <<o, i, n>> \in files' => <<o, i, n>> \in files

LEMMA ListKept == ASSUME NEW o \in Object, ListInv(o), SameList(o) PROVE ListInv(o)'
  BY DEF ListInv, SameList, Covered, Loose, Current

\* What GoOn leaves behind, if the files so far are covered by the rows
LEMMA GoOnList ==
  ASSUME TypesOK, NEW o \in Object, NEW status \in Statuses \ {"NONE"},
         NEW rows \in Seq(Replicas), NEW allFull \in BOOLEAN,
         GoOn(o, status, rows, allFull), UNCHANGED <<files, deleteVars, copy>>,
         \A i \in Nat, n \in Node : <<o, i, n>> \in files =>
           \/ /\ i \in 1..Len(rows) /\ rows[i][n] # "NONE"
              /\ removal[o] # None => <<i, n>> \in removal[o]
           \/ Loose(o, i, n)'
  PROVE  ListInv(o)'
<1>0. Len(rows) \in Nat
  OBVIOUS
<1>1. removal' = removal /\ copy' = copy /\ files' = files
  BY DEF deleteVars
<1>2. CASE Erase(o) /\ Ends(o, "refused")
  <2>1. phase'[o] = "refused"
    BY <1>2 DEF Ends, Goto, TypesOK, UploadsOK
  <2> QED BY <2>1 DEF ListInv, Early
<1>3. ASSUME NEW s \in {"HEALTHY", "UNDER_REPLICATED"}, PutMeta(o, s, rows), Ends(o, "stored")
      PROVE  ListInv(o)'
  <2>1. phase'[o] = "stored" /\ chunk'[o] = rows
    BY <1>3 DEF PutMeta, Ends, Goto, TypesOK, UploadsOK, MetaOK
  <2> QED BY <1>1, <2>1 DEF ListInv, Early, Listed, Covered
<1>4. ASSUME NEW chosen \in SUBSET Node, Turns(o, status, rows, chosen)
      PROVE  ListInv(o)'
  <2>1. /\ phase'[o] = "storing" /\ chunk'[o] = Append(rows, Blank)
        /\ call'[o].asked = chosen /\ call'[o].targets = chosen
    BY <1>4 DEF Turns, PutMeta, Goto, TypesOK, UploadsOK, MetaOK
  <2>2. /\ Len(chunk'[o]) = Len(rows) + 1 /\ \A i \in 1..Len(rows) : chunk'[o][i] = rows[i]
    BY <2>1
  <2>3. 1..Len(rows) \subseteq 1..Len(chunk'[o])
    BY <1>0, <2>2
  <2>4. ASSUME NEW i \in Nat, NEW n \in Node, <<o, i, n>> \in files
        PROVE  Covered(o, i, n)' \/ Loose(o, i, n)'
    BY <1>1, <2>2, <2>3, <2>4 DEF Listed, Covered
  <2> QED BY <1>1, <2>1, <2>4 DEF ListInv, Early
<1> QED BY <1>2, <1>3, <1>4, GoOnEffect

LEMMA ListOwn ==
  ASSUME TypesOK, NEW o \in Object, UploadInv(o), ListInv(o), UploadBegin(o) \/ UploadWork(o)
  PROVE  ListInv(o)'
<1>1. /\ UNCHANGED <<deleteVars, copy>> /\ removal' = removal /\ copy' = copy
      /\ stray \subseteq stray'
  BY UploadAside DEF deleteVars
<1>2. ASSUME phase'[o] \in {"undoing", "refused"} PROVE ListInv(o)'
  BY <1>2 DEF ListInv, Early
<1>3. ASSUME Ends(o, "refused") PROVE ListInv(o)'
  <2>1. phase'[o] = "refused"
    BY <1>3 DEF Ends, Goto, TypesOK, UploadsOK
  <2> QED BY <1>2, <2>1
<1>4. CASE UploadBegin(o)
  <2>1. phase'[o] = "receiving" /\ phase[o] \in Early
    BY <1>4 DEF UploadBegin, Goto, TypesOK, UploadsOK, Early
  <2>2. UNCHANGED <<metaVars, files>>
    BY <1>4 DEF UploadBegin
  <2> QED BY <1>1, <2>1, <2>2 DEF ListInv, Early, metaVars
<1>5. CASE UploadReceive(o)
  <2>1. CASE GoOn(o, "UPLOADING", <<>>, TRUE)
    <3>1. <<>> \in Seq(Replicas) /\ "UPLOADING" \in Statuses \ {"NONE"}
      BY DEF Statuses
    <3>2. UNCHANGED files /\ phase[o] \in Early
      BY <1>5 DEF UploadReceive, Early
    <3>3. \A i \in Nat, n \in Node : <<o, i, n>> \notin files
      BY <3>2 DEF ListInv
    <3> QED BY <1>1, <2>1, <3>1, <3>2, <3>3, GoOnList
  <2> QED BY <1>3, <1>5, <2>1 DEF UploadReceive
<1>6. CASE UploadStore(o)
  <2>1. PICK n \in call[o].asked, ok \in BOOLEAN :
          Store(<<o, call[o].index, n>>, ok) /\ call' = [call EXCEPT ![o] = Answered(@, n, ok)]
    BY <1>6 DEF UploadStore
  <2>2. /\ call'[o].index = call[o].index /\ call'[o].targets = call[o].targets
        /\ call'[o].asked \subseteq call[o].asked
    BY <2>1 DEF Answered, TypesOK, UploadsOK
  <2>3. files' \subseteq files \cup {<<o, call[o].index, n>>}
    BY <2>1 DEF Store
  <2>4. phase[o] = "storing" /\ phase' = phase /\ row' = row /\ chunk' = chunk
    BY <1>6 DEF UploadStore, metaVars
  <2>5. n \in call[o].targets /\ call[o].asked \subseteq call[o].targets
    BY <2>1, <2>4 DEF ListInv
  <2>6. ASSUME NEW i \in Nat, NEW m \in Node, <<o, i, m>> \in files'
        PROVE  Covered(o, i, m)' \/ Loose(o, i, m)' \/ Current(o, i, m)'
    <3>1. CASE <<o, i, m>> \in files
      <4>1. Covered(o, i, m) \/ Loose(o, i, m) \/ Current(o, i, m)
        BY <2>4, <3>1 DEF ListInv
      <4> QED BY <1>1, <2>2, <2>4, <4>1 DEF Covered, Listed, Loose, Current
    <3>2. CASE <<o, i, m>> = <<o, call[o].index, n>>
      BY <2>2, <2>4, <2>5, <3>2 DEF Current
    <3> QED BY <2>3, <2>6, <3>1, <3>2
  <2>7. phase'[o] = "storing" /\ call'[o].asked \subseteq call'[o].targets
    BY <2>2, <2>4, <2>5
  <2> QED BY <2>6, <2>7 DEF ListInv, Early
<1>7. CASE UploadStored(o)
  <2> DEFINE rows == StoredRows(o)
             okay == full[o] /\ Cardinality(call[o].acked) >= RF
  <2>1. /\ okay \in BOOLEAN /\ UNCHANGED files /\ phase[o] = "storing"
        /\ stray' = stray \cup LeftByDeletion(o)
    BY <1>7 DEF UploadStored
  <2>2. /\ rows \in Seq(Replicas) /\ Len(rows) = Len(chunk[o])
        /\ \A i \in 1..Len(chunk[o]) :
              IF i = call[o].index THEN rows[i] = [n \in Node |-> RowOf(o, n, chunk[o][i][n])]
              ELSE rows[i] = chunk[o][i]
    BY RowsStored
  <2> HIDE DEF rows, okay
  <2>3. CASE row[o] # "NONE" /\ GoOn(o, row[o], rows, okay)
    <3>1. row[o] \in Statuses \ {"NONE"}
      BY <2>3 DEF TypesOK, MetaOK, Statuses
    <3>2. call[o].index \in 1..Len(chunk[o])
      <4>1. call[o].index = Len(chunk[o]) /\ Len(chunk[o]) \in 1..Length[o]
        BY <2>1, <2>3 DEF UploadInv
      <4> QED BY <4>1, ObjectsAssumption
    <3>3. ASSUME NEW i \in Nat, NEW n \in Node, <<o, i, n>> \in files
          PROVE  \/ /\ i \in 1..Len(rows) /\ rows[i][n] # "NONE"
                    /\ removal[o] # None => <<i, n>> \in removal[o]
                 \/ Loose(o, i, n)'
      <4>1. CASE Covered(o, i, n)
        BY <2>2, <4>1 DEF Covered, Listed, RowOf
      <4>2. CASE Loose(o, i, n)
        BY <1>1, <4>2 DEF Loose
      <4>3. CASE Current(o, i, n) /\ removal[o] = None
        BY <2>2, <3>2, <4>3 DEF Current, RowOf
      <4>4. CASE Current(o, i, n) /\ removal[o] # None
        <5>1. <<o, i, n>> \in LeftByDeletion(o)
          BY <3>3, <4>4 DEF Current, LeftByDeletion
        <5> QED BY <2>1, <5>1 DEF Loose
      <4> QED BY <2>1, <3>3, <4>1, <4>2, <4>3, <4>4 DEF ListInv
    <3> QED BY <1>1, <2>1, <2>2, <2>3, <3>1, <3>3, GoOnList
  <2>4. CASE Goto(o, "undoing")
    <3>1. phase'[o] = "undoing"
      BY <2>4 DEF Goto, TypesOK, UploadsOK
    <3> QED BY <1>2, <3>1
  <2>5. \/ Ends(o, "refused")
        \/ row[o] # "NONE" /\ GoOn(o, row[o], rows, okay)
        \/ Goto(o, "undoing")
    BY <1>7, Zenon DEF UploadStored, StoredRows, rows, okay
  <2> QED BY <1>3, <2>3, <2>4, <2>5
<1>8. CASE UploadUndo(o)
  BY <1>2, <1>8 DEF UploadUndo
<1>9. CASE UploadUndone(o)
  BY <1>3, <1>9 DEF UploadUndone
<1> QED BY <1>4, <1>5, <1>6, <1>7, <1>8, <1>9 DEF UploadWork

\* Setting the status of a listed replica leaves every replica listed.
LEMMA StatusLists ==
  ASSUME MetaOK, NEW q \in Object, NEW i \in Nat, i \in 1..Len(chunk[q]), NEW n \in Node,
         NEW s \in {"HEALTHY", "UNREACHABLE"}, chunk' = [chunk EXCEPT ![q][i][n] = s],
         NEW o \in Object
  PROVE  /\ \A j \in Nat, m \in Node : Listed(o, j, m) => Listed(o, j, m)'
         /\ Listed(q, i, n)'
<1>1. chunk[q] \in Seq(Replicas) /\ chunk[q][i] \in Replicas
  BY DEF MetaOK, Replicas
<1>2. chunk'[q] = [chunk[q] EXCEPT ![i] = [chunk[q][i] EXCEPT ![n] = s]]
  BY DEF MetaOK
<1>3. Len(chunk'[q]) = Len(chunk[q]) /\ chunk'[q][i] = [chunk[q][i] EXCEPT ![n] = s]
  BY <1>1, <1>2
<1>4. \A j \in 1..Len(chunk[q]) : j # i => chunk'[q][j] = chunk[q][j]
  BY <1>1, <1>2
<1>5. chunk'[q][i][n] = s /\ \A m \in Node : m # n => chunk'[q][i][m] = chunk[q][i][m]
  BY <1>1, <1>3 DEF Replicas
<1>6. Listed(q, i, n)'
  BY <1>3, <1>5 DEF Listed
<1>7. ASSUME NEW j \in Nat, NEW m \in Node, Listed(o, j, m) PROVE Listed(o, j, m)'
  <2>1. CASE o # q
    <3>1. chunk'[o] = chunk[o]
      BY <2>1 DEF MetaOK
    <3> QED BY <1>7, <3>1 DEF Listed
  <2>2. CASE o = q /\ j # i
    BY <1>3, <1>4, <1>7, <2>2 DEF Listed
  <2>3. CASE o = q /\ j = i /\ m # n
    BY <1>3, <1>5, <1>7, <2>3 DEF Listed
  <2>4. CASE o = q /\ j = i /\ m = n
    BY <1>6, <2>4
  <2> QED BY <2>1, <2>2, <2>3, <2>4
<1> QED BY <1>6, <1>7

\* A copy that ends is listed, and by a deletion to be visited, or left.
LEMMA EndsCovered ==
  ASSUME NEW q \in Object, NEW i \in Nat, NEW n \in Node, CopyEnds(<<q, i, n>>),
         removal' = removal
  PROVE  /\ <<q, i, n>> \in files' => Covered(q, i, n)' \/ Loose(q, i, n)'
         /\ \A f : f \in stray => f \in stray' \/ (f = <<q, i, n>> /\ Covered(q, i, n)')
<1> DEFINE f == <<q, i, n>>
<1>1. f[1] = q /\ f[2] = i /\ f[3] = n
  OBVIOUS
<1>2. Found(f) => Covered(q, i, n)'
  BY <1>1 DEF Found, Covered, Listed
<1>3. CASE Found(f)
  <2>1. stray' = stray \ {f}
    BY <1>3 DEF CopyEnds
  <2> QED BY <1>2, <1>3, <2>1
<1>4. CASE ~Found(f)
  <2>1. stray' = stray \cup ({f} \cap files')
    BY <1>4 DEF CopyEnds
  <2> QED BY <2>1 DEF Loose
<1> QED BY <1>3, <1>4

LEMMA CopyList ==
  ASSUME TypesOK, NEW o \in Object, ListInv(o), CopyStore \/ CopyRecord
  PROVE  ListInv(o)'
<1>0. UNCHANGED <<phase, call, row, removal>>
  BY DEF CopyStore, CopyRecord, uploadVars, deleteVars, metaVars
<1>1. CASE CopyStore
  <2>1. PICK q \in Object, i \in Nat, n \in Node :
           /\ i \in 1..Len(chunk[q]) /\ UNCHANGED metaVars
           /\ files' \subseteq files \cup {<<q, i, n>>}
           /\ \/ copy' = <<q, i, n>> /\ UNCHANGED stray
              \/ CopyEnds(<<q, i, n>>)
    BY <1>1, CopyStores
  <2>2. copy = None /\ chunk' = chunk
    BY <1>1, <2>1 DEF CopyStore, metaVars
  <2>3. row[q] # "NONE"
    <3>1. ASSUME row[q] = "NONE" PROVE FALSE
      <4>1. chunk[q] = <<>>
        BY <3>1 DEF TypesOK, MetaOK
      <4> QED BY <2>1, <4>1
    <3> QED BY <3>1
  <2>4. CASE phase[o] \in Early
    <3>1. row[o] = "NONE" /\ o # q /\ removal[o] = None
      BY <2>3, <2>4 DEF ListInv
    <3>2. copy' # None => copy'[1] # o
      BY <2>1, <3>1 DEF CopyEnds
    <3>3. \A j \in Nat, m \in Node : <<o, j, m>> \notin files'
      BY <2>1, <2>4, <3>1 DEF ListInv
    <3> QED BY <1>0, <2>4, <3>1, <3>2, <3>3 DEF ListInv, Early
  <2>5. ASSUME phase[o] \in {"storing", "stored"}, NEW j \in Nat, NEW m \in Node,
               <<o, j, m>> \in files'
        PROVE  Covered(o, j, m)' \/ Loose(o, j, m)' \/ Current(o, j, m)'
    <3>1. CASE <<o, j, m>> = <<q, i, n>>
      <4>1. o = q /\ j = i /\ m = n
        BY <3>1
      <4>2. CASE copy' = <<q, i, n>>
        BY <4>1, <4>2 DEF Loose
      <4>3. CASE CopyEnds(<<q, i, n>>)
        BY <1>0, <2>5, <4>1, <4>3, EndsCovered
      <4> QED BY <2>1, <4>2, <4>3
    <3>2. CASE <<o, j, m>> \in files /\ <<o, j, m>> # <<q, i, n>>
      <4>1. Covered(o, j, m) \/ <<o, j, m>> \in stray \/ Current(o, j, m)
        BY <2>2, <2>5, <3>2, ObjectsAssumption DEF ListInv, Loose
      <4>2. <<o, j, m>> \in stray => <<o, j, m>> \in stray'
        BY <1>0, <2>1, <3>2, EndsCovered
      <4> QED BY <1>0, <2>2, <4>1, <4>2 DEF Covered, Listed, Loose, Current
    <3> QED BY <2>1, <2>5, <3>1, <3>2
  <2> QED BY <1>0, <2>4, <2>5 DEF ListInv, Early
<1>2. CASE CopyRecord
  <2>1. PICK q \in Object, i \in Nat, n \in Node :
           /\ copy = <<q, i, n>> /\ CopyEnds(<<q, i, n>>) /\ row' = row
           /\ \/ chunk' = chunk
              \/ i \in 1..Len(chunk[q]) /\ \E s \in {"HEALTHY", "UNREACHABLE"} :
                                             chunk' = [chunk EXCEPT ![q][i][n] = s]
    BY <1>2, CopyRecords
  <2>2. \A j \in Nat, m \in Node : Listed(o, j, m) => Listed(o, j, m)'
    BY <2>1, StatusLists DEF TypesOK, Listed
  <2>3. files' = files /\ copy' = None
    BY <1>2, <2>1 DEF CopyRecord, CopyEnds
  <2>4. ASSUME phase[o] \in {"storing", "stored"}, NEW j \in Nat, NEW m \in Node,
               <<o, j, m>> \in files
        PROVE  Covered(o, j, m)' \/ Loose(o, j, m)' \/ Current(o, j, m)'
    <3>1. CASE <<o, j, m>> = <<q, i, n>>
      <4>1. o = q /\ j = i /\ m = n
        BY <3>1
      <4> QED BY <1>0, <2>1, <2>3, <2>4, <4>1, EndsCovered
    <3>2. CASE <<o, j, m>> # <<q, i, n>>
      <4>1. Covered(o, j, m) \/ <<o, j, m>> \in stray \/ Current(o, j, m)
        BY <2>1, <2>4, <3>2 DEF ListInv, Loose
      <4>2. <<o, j, m>> \in stray => <<o, j, m>> \in stray'
        BY <1>0, <2>1, <3>2, EndsCovered
      <4> QED BY <1>0, <2>2, <4>1, <4>2 DEF Covered, Loose, Current
    <3> QED BY <3>1, <3>2
  <2> QED BY <1>0, <2>3, <2>4 DEF ListInv, Early
<1> QED BY <1>1, <1>2

LEMMA DeleteList ==
  ASSUME TypesOK, NEW q \in Object, DeleteStart(q) \/ DeleteUnlink(q) \/ DeleteRows(q),
         NEW o \in Object, ListInv(o)
  PROVE  ListInv(o)'
<1>1. UNCHANGED <<phase, call, copy>>
  BY DEF DeleteStart, DeleteUnlink, DeleteRows, uploadVars, copyVars
<1>2. files' \subseteq files
  BY DEF DeleteStart, DeleteUnlink, DeleteRows, Unlink
<1>3. row[o] = "NONE" => row'[o] = "NONE"
  BY DEF DeleteStart, DeleteUnlink, DeleteRows, Erase, PutMeta, metaVars, TypesOK, MetaOK
<1>4. CASE o # q
  <2>1. chunk'[o] = chunk[o] /\ removal'[o] = removal[o]
    BY <1>4 DEF DeleteStart, DeleteUnlink, DeleteRows, Erase, PutMeta, metaVars, TypesOK, MetaOK,
       OthersOK
  <2>2. \A j \in Nat, m \in Node : <<o, j, m>> \in stray => <<o, j, m>> \in stray'
    BY <1>4 DEF DeleteStart, DeleteUnlink, DeleteRows, copyVars
  <2>3. SameList(o)
    BY <1>1, <1>2, <1>3, <2>1, <2>2 DEF SameList, Listed
  <2> QED BY <2>3, ListKept
<1>5. CASE o = q
  <2>1. phase[o] \notin Early
    BY <1>5, ObjectsAssumption DEF DeleteStart, DeleteUnlink, DeleteRows, ListInv
  <2>2. ASSUME phase[o] \in {"storing", "stored"}, NEW i \in Nat, NEW n \in Node,
               <<o, i, n>> \in files'
        PROVE  Covered(o, i, n)' \/ Loose(o, i, n)' \/ Current(o, i, n)'
    <3>1. Covered(o, i, n) \/ Loose(o, i, n) \/ Current(o, i, n)
      BY <1>2, <2>2 DEF ListInv
    <3>2. Current(o, i, n) => Current(o, i, n)'
      BY <1>1 DEF Current
    <3>3. CASE DeleteStart(o)
      <4>1. /\ removal'[o] = Rows(o) /\ chunk' = chunk
            /\ stray' = stray \ {<<o, r[1], r[2]>> : r \in Rows(o)}
        BY <3>3 DEF DeleteStart, metaVars, TypesOK, OthersOK
      <4>2. Listed(o, i, n) <=> <<i, n>> \in Rows(o)
        BY DEF Listed, Rows
      <4>3. CASE Listed(o, i, n)
        BY <4>1, <4>2, <4>3 DEF Covered, Listed
      <4>4. CASE ~Listed(o, i, n)
        <5>1. \A r \in Rows(o) : <<o, i, n>> # <<o, r[1], r[2]>>
          <6>1. \A r \in Rows(o) : r = <<r[1], r[2]>>
            BY DEF Rows
          <6> QED BY <4>2, <4>4, <6>1
        <5>2. <<o, i, n>> \in stray => <<o, i, n>> \in stray'
          BY <4>1, <5>1
        <5> QED BY <1>1, <3>1, <3>2, <4>4, <5>2 DEF Covered, Loose
      <4> QED BY <4>3, <4>4
    <3>4. CASE DeleteUnlink(o)
      <4>1. PICK r \in removal[o] :
              /\ removal' = [removal EXCEPT ![o] = @ \ {r}]
              /\ stray' = stray \cup ({<<o, r[1], r[2]>>} \cap files')
        BY <3>4 DEF DeleteUnlink
      <4>2. chunk' = chunk /\ removal[o] # None /\ removal'[o] = removal[o] \ {r}
        BY <3>4, <4>1 DEF DeleteUnlink, metaVars, TypesOK, OthersOK
      <4>3. CASE <<i, n>> = r
        <5>1. <<o, i, n>> = <<o, r[1], r[2]>>
          BY <4>3
        <5> QED BY <2>2, <4>1, <5>1 DEF Loose
      <4>4. CASE <<i, n>> # r
        <5>1. Covered(o, i, n) => Covered(o, i, n)'
          BY <4>2, <4>4 DEF Covered, Listed
        <5> QED BY <1>1, <3>1, <3>2, <4>1, <5>1 DEF Loose
      <4> QED BY <4>3, <4>4
    <3>5. CASE DeleteRows(o)
      <4>1. ~Covered(o, i, n) /\ stray' = stray
        BY <3>5, ObjectsAssumption DEF DeleteRows, Covered, copyVars
      <4> QED BY <1>1, <3>1, <3>2, <4>1 DEF Loose
    <3> QED BY <1>5, <3>3, <3>4, <3>5
  <2> QED BY <1>1, <2>1, <2>2 DEF ListInv, Early
<1> QED BY <1>4, <1>5

LEMMA NextList ==
  ASSUME TypesOK, BatchFirst, \A o \in Object : UploadInv(o), \A o \in Object : ListInv(o),
         ObjectsNext
  PROVE  \A o \in Object : ListInv(o)'
<1> SUFFICES ASSUME NEW o \in Object PROVE ListInv(o)'
  OBVIOUS
<1>1. ListInv(o) /\ UploadInv(o)
  OBVIOUS
<1>2. ASSUME SameList(o) PROVE ListInv(o)'
  BY <1>1, <1>2, ListKept
<1>3. ASSUME NEW q \in Object, UploadBegin(q) \/ UploadWork(q) PROVE ListInv(o)'
  <2>1. CASE o = q
    BY <1>1, <1>3, <2>1, ListOwn
  <2>2. CASE o # q
    <3>1. Aside(q) /\ UNCHANGED <<deleteVars, copy, W>> /\ stray \subseteq stray'
      BY <1>3, UploadAside
    <3>2. SameList(o)
      BY <2>2, <3>1 DEF Aside, SameList, deleteVars, Listed
    <3> QED BY <1>2, <3>2
  <2> QED BY <2>1, <2>2
<1>4. CASE BatchStart
  <2>1. PICK how \in {"waiting", "refused"} : GotoAll(Batch, how)
    BY <1>4 DEF BatchStart
  <2>2. UNCHANGED <<metaVars, files, call, deleteVars, copyVars>>
    BY <1>4 DEF BatchStart
  <2>3. CASE o \in Batch
    <3>1. phase'[o] \in {"waiting", "refused"} /\ phase[o] \in Early
      BY <1>4, <2>1, <2>3 DEF GotoAll, BatchStart, BatchFirst, Early
    <3> QED BY <1>1, <2>2, <3>1 DEF ListInv, Early, copyVars, metaVars, deleteVars
  <2>4. CASE o \notin Batch
    <3>1. phase'[o] = phase[o]
      BY <2>1, <2>4 DEF GotoAll
    <3> QED BY <1>2, <2>2, <3>1 DEF SameList, metaVars, deleteVars, copyVars, Listed
  <2> QED BY <2>3, <2>4
<1>5. CASE BatchAnswer
  BY <1>2, <1>5 DEF BatchAnswer, SameList, metaVars, uploadVars, deleteVars, copyVars, Listed
<1>6. CASE RefreshStatuses
  <2>1. row[o] = "NONE" => row'[o] = "NONE"
    BY <1>6 DEF RefreshStatuses
  <2> QED BY <1>2, <1>6, <2>1 DEF RefreshStatuses, SameList, uploadVars, otherVars, deleteVars,
          copyVars, Listed
<1>7. CASE Crash
  <2>1. phase'[o] = "interrupted" \/ (phase'[o] = phase[o] /\ phase[o] # "storing")
    BY <1>7 DEF Crash, GotoAll, Running
  <2>2. /\ UNCHANGED <<metaVars, files>> /\ copy' = None /\ stray' = stray \cup ({copy} \ {None})
        /\ removal'[o] = None
    BY <1>7 DEF Crash
  <2>3. \A i \in Nat, n \in Node : <<o, i, n>> = copy => <<o, i, n>> \in stray'
    BY <2>2, ObjectsAssumption
  <2> QED BY <1>1, <2>1, <2>2, <2>3 DEF ListInv, Early, Listed, Covered, Loose, Current, metaVars
<1>8. CASE CopyStore \/ CopyRecord
  BY <1>1, <1>8, CopyList
<1>9. ASSUME NEW q \in Object, Degrade(q) PROVE ListInv(o)'
  <2>1. PICK i \in 1..Len(chunk[q]) : \E n \in Node :
          chunk' = [chunk EXCEPT ![q][i][n] = "UNREACHABLE"]
    BY <1>9 DEF Degrade, Healthy
  <2>2. PICK n \in Node : chunk' = [chunk EXCEPT ![q][i][n] = "UNREACHABLE"]
    BY <2>1
  <2>3. i \in Nat
    BY DEF TypesOK, MetaOK
  <2>4. \A j \in Nat, m \in Node : Listed(o, j, m) => Listed(o, j, m)'
    BY <2>2, <2>3, StatusLists DEF TypesOK
  <2> QED BY <1>2, <1>9, <2>4 DEF Degrade, SameList, uploadVars, otherVars, deleteVars, copyVars
<1>10. ASSUME NEW r \in Reader,
              ReadChunk(r) \/ ReadEnd(r) \/ \E q \in Object : ReadStart(r, q)
       PROVE  ListInv(o)'
  BY <1>2, <1>10 DEF ReadChunk, ReadEnd, ReadStart, SameList, metaVars, uploadVars, otherVars,
     deleteVars, copyVars, Listed
<1>11. ASSUME NEW q \in Object, DeleteStart(q) \/ DeleteUnlink(q) \/ DeleteRows(q)
       PROVE  ListInv(o)'
  BY <1>1, <1>11, DeleteList
<1> QED BY <1>3, <1>4, <1>5, <1>6, <1>7, <1>8, <1>9, <1>10, <1>11, Zenon DEF ObjectsNext

LEMMA InitList == ASSUME ObjectsInit PROVE \A o \in Object : ListInv(o)
  BY DEF ObjectsInit, ListInv, Early

LEMMA SameAllList ==
  ASSUME NEW o \in Object, ListInv(o), UNCHANGED objectVars PROVE ListInv(o)'
<1>1. SameList(o)
  BY DEF SameList, objectVars, metaVars, uploadVars, otherVars, deleteVars, copyVars, Listed
<1> QED BY <1>1, ListKept
-----------------------------------------------------------------------------
\* A download that began after the acceptance knows how many chunks to send.
DownloadInv(r) ==
  download[r] # None =>
    /\ download[r].sent <= download[r].length
    /\ download[r].pc = "complete" => download[r].sent = download[r].length
    /\ ~ download[r].early => /\ phase[download[r].object] = "stored"
                              /\ download[r].length = Length[download[r].object]

LEMMA DownloadKept ==
  ASSUME TypesOK, BatchFirst, PhaseStep, NEW r \in Reader, DownloadInv(r),
         download'[r] = download[r]
  PROVE  DownloadInv(r)'
<1>1. ASSUME download[r] # None PROVE download[r].object \in Object
  BY <1>1 DEF TypesOK, OthersOK, Downloads
<1> QED BY <1>1, StoredStays DEF DownloadInv

LEMMA DownloadOwn ==
  ASSUME TypesOK, NEW r \in Reader, DownloadInv(r), \A o \in Object : UploadInv(o),
         ReadChunk(r) \/ ReadEnd(r) \/ \E o \in Object : ReadStart(r, o)
  PROVE  DownloadInv(r)'
<1>1. phase' = phase
  BY DEF ReadChunk, ReadEnd, ReadStart, uploadVars
<1>2. CASE ReadChunk(r)
  <2>1. download[r] \in Downloads /\ download[r].sent < download[r].length
    BY <1>2 DEF ReadChunk, Reading, TypesOK, OthersOK
  <2>2. /\ download'[r] = [download[r] EXCEPT !.sent = @ + 1]
        /\ download[r] # None /\ download[r].pc = "reading"
    BY <1>2 DEF ReadChunk, Reading, TypesOK, OthersOK
  <2>3. /\ download'[r].pc = "reading" /\ download'[r].length = download[r].length
        /\ download'[r].object = download[r].object /\ download'[r].early = download[r].early
        /\ download'[r].sent = download[r].sent + 1
    BY <2>1, <2>2 DEF Downloads
  <2>4. download[r].sent + 1 <= download[r].length
    BY <2>1 DEF Downloads
  <2> QED BY <1>1, <2>2, <2>3, <2>4 DEF DownloadInv
<1>3. CASE ReadEnd(r)
  <2>1. download[r] \in Downloads /\ download[r] # None
    BY <1>3 DEF ReadEnd, Reading, TypesOK, OthersOK
  <2>2. CASE download' = [download EXCEPT ![r] = None]
    BY <2>2 DEF DownloadInv, TypesOK, OthersOK
  <2>3. CASE /\ download[r].sent = download[r].length
             /\ download' = [download EXCEPT ![r].pc = "complete"]
    <3>1. /\ download'[r].length = download[r].length /\ download'[r].sent = download[r].sent
          /\ download'[r].object = download[r].object /\ download'[r].early = download[r].early
      BY <2>1, <2>3 DEF Downloads, TypesOK, OthersOK
    <3>2. download'[r].sent <= download'[r].length
      BY <2>1, <2>3, <3>1 DEF Downloads
    <3> QED BY <1>1, <2>1, <2>3, <3>1, <3>2 DEF DownloadInv
  <2> QED BY <1>3, <2>2, <2>3 DEF ReadEnd
<1>4. ASSUME NEW o \in Object, ReadStart(r, o) PROVE DownloadInv(r)'
  <2>1. download'[r] = [pc |-> "reading", object |-> o, length |-> Len(chunk[o]), sent |-> 0,
                        early |-> phase[o] # "stored"]
    BY <1>4 DEF ReadStart, TypesOK, OthersOK
  <2>2. row[o] # "NONE" /\ 0 <= Len(chunk[o])
    BY <1>4, LenOK DEF ReadStart, TypesOK
  <2>3. phase[o] = "stored" => Len(chunk[o]) = Length[o]
    BY <2>2 DEF UploadInv
  <2>4. /\ download'[r].pc = "reading" /\ download'[r].object = o
        /\ download'[r].length = Len(chunk[o]) /\ download'[r].sent = 0
    BY <2>1
  <2>5. ~ download'[r].early => phase[o] = "stored"
    <3>1. ASSUME phase[o] # "stored" PROVE download'[r].early
      <4>1. (phase[o] # "stored") = TRUE
        BY <3>1
      <4>2. download'[r] = [pc |-> "reading", object |-> o, length |-> Len(chunk[o]), sent |-> 0,
                            early |-> TRUE]
        BY <2>1, <4>1, Zenon
      <4> QED BY <4>2
    <3> QED BY <3>1
  <2> QED BY <1>1, <2>2, <2>3, <2>4, <2>5 DEF DownloadInv
<1> QED BY <1>2, <1>3, <1>4

LEMMA NextDownload ==
  ASSUME TypesOK, BatchFirst, \A o \in Object : UploadInv(o),
         \A r \in Reader : DownloadInv(r), ObjectsNext
  PROVE  \A r \in Reader : DownloadInv(r)'
<1> SUFFICES ASSUME NEW r \in Reader PROVE DownloadInv(r)'
  OBVIOUS
<1>1. PhaseStep
  BY NextPhase
<1>2. ASSUME download'[r] = download[r] PROVE DownloadInv(r)'
  BY <1>1, <1>2, DownloadKept
<1>3. ASSUME NEW s \in Reader,
             ReadChunk(s) \/ ReadEnd(s) \/ \E o \in Object : ReadStart(s, o)
      PROVE  DownloadInv(r)'
  <2>1. CASE s = r
    BY <1>3, <2>1, DownloadOwn
  <2>2. CASE s # r
    BY <1>2, <1>3, <2>2 DEF ReadChunk, ReadEnd, ReadStart, TypesOK, OthersOK
  <2> QED BY <2>1, <2>2
<1>4. CASE Crash
  <2>1. download'[r] = None \/ download'[r] = download[r]
    BY <1>4 DEF Crash
  <2> QED BY <1>2, <2>1 DEF DownloadInv
<1>5. CASE \/ BatchStart \/ BatchAnswer \/ RefreshStatuses \/ CopyStore \/ CopyRecord
           \/ \E o \in Object : \/ UploadBegin(o) \/ UploadWork(o)
                                \/ DeleteStart(o) \/ DeleteUnlink(o) \/ DeleteRows(o) \/ Degrade(o)
  BY <1>2, <1>5 DEF BatchStart, BatchAnswer, RefreshStatuses, CopyStore, CopyRecord,
     UploadBegin, UploadWork, UploadReceive, UploadStore, UploadStored, UploadUndo,
     UploadUndone, DeleteStart, DeleteUnlink, DeleteRows, Degrade, readVars
<1> QED BY <1>3, <1>4, <1>5, Zenon DEF ObjectsNext
-----------------------------------------------------------------------------
IInv ==
  /\ CountInv
  /\ \A o \in Object : UploadInv(o)
  /\ \A o \in Object : ListInv(o)
  /\ \A r \in Reader : DownloadInv(r)

LEMMA IInvHolds == ObjectsSpec => []IInv
<1>1. ObjectsInit => IInv
  BY InitCounts, InitUpload, InitList DEF IInv, ObjectsInit, DownloadInv
<1>2. IInv /\ [ObjectsNext]_objectVars => IInv'
  <2> SUFFICES ASSUME IInv, [ObjectsNext]_objectVars PROVE IInv'
    OBVIOUS
  <2>1. TypesOK /\ BatchFirst /\ CountInv'
    BY NextCounts DEF IInv, CountInv
  <2>2. CASE ObjectsNext
    BY <2>1, <2>2, NextUpload, NextList, NextDownload DEF IInv
  <2>3. CASE UNCHANGED objectVars
    <3>1. \A o \in Object : UploadInv(o)' /\ ListInv(o)'
      BY <2>1, <2>3, SameAllUpload, SameAllList DEF IInv
    <3>2. download' = download /\ phase' = phase
      BY <2>3 DEF objectVars, readVars, uploadVars
    <3>3. \A r \in Reader : DownloadInv(r)'
      BY <3>2 DEF IInv, DownloadInv
    <3> QED BY <2>1, <3>1, <3>3 DEF IInv
  <2> QED BY <2>2, <2>3
<1> QED BY <1>1, <1>2, PTL DEF ObjectsSpec

\* The rows of a deleted object are gone, all data keep their types, and the
\* metrics page counts exactly the uploads and downloads that run, however
\* the others ended (write_finished, read_finished in finally clauses).
THEOREM ObjectsCounted == ObjectsSpec => []ObjectsInv
<1>1. IInv => ObjectsInv
  BY DEF IInv, CountInv, TypesOK, ObjectsInv
<1> QED BY <1>1, IInvHolds, PTL

\* create_object accepts a write only with W acknowledged replicas of every
\* chunk, and nothing but a deletion takes them away afterwards.
THEOREM AcceptedHasQuorum == ObjectsSpec => []StoredHasQuorum
<1>1. IInv => StoredHasQuorum
  BY DEF IInv, UploadInv, Placed, StoredHasQuorum
<1> QED BY <1>1, IInvHolds, PTL

\* create_object writes a row for every node it asked to store a chunk, also
\* for those that did not answer, so that a deletion finds all files but those
\* that a copy or a deletion has left (stray), whatever was requested since.
THEOREM AcceptedListed == ObjectsSpec => []FilesListed
<1>1. ASSUME IInv PROVE FilesListed
  <2> SUFFICES ASSUME NEW f \in files, phase[f[1]] = "stored"
               PROVE  <<f[2], f[3]>> \in Rows(f[1]) \/ f = copy \/ f \in stray
    BY DEF FilesListed
  <2>1. PICK o \in Object, i \in Nat, n \in Node : f = <<o, i, n>>
    BY <1>1 DEF IInv, CountInv, TypesOK, OthersOK
  <2>2. ListInv(o)
    BY <1>1 DEF IInv
  <2>3. Listed(o, i, n) \/ f = copy \/ f \in stray
    BY <2>1, <2>2 DEF ListInv, Covered, Loose, Current
  <2>4. Listed(o, i, n) => <<i, n>> \in Rows(o)
    BY DEF Listed, Rows
  <2> QED BY <2>1, <2>3, <2>4
<1> QED BY <1>1, IInvHolds, PTL

\* stream_object fixes the list of the chunks before it sends the first one:
\* of an accepted object that is all of them.
THEOREM CompleteIsWhole == ObjectsSpec => []DownloadWhole
<1>1. IInv => DownloadWhole
  BY DEF IInv, DownloadInv, DownloadWhole
<1> QED BY <1>1, IInvHolds, PTL
=============================================================================
