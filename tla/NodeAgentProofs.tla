--------------------------- MODULE NodeAgentProofs --------------------------
(***************************************************************************)
(* What NodeAgent promises to the other modules, for any chunks, sizes,    *)
(* capacity, requests, processes and faults: one process at a time has the *)
(* node's port, data files and manifests come in pairs, acknowledged       *)
(* chunks stay, and the files fit into the capacity.  Only the process's   *)
(* side of the state decides who may touch files, and only the files' side *)
(* what becomes of them, so the invariant is the conjunction of two that   *)
(* are proved apart; that of the capacity rests on both.                   *)
(***************************************************************************)
EXTENDS NodeAgent, SetSums

LifeInv  == LifeTypeOK /\ EndingRuns /\ OneServes /\ DeadIsBlank
FilesInv == FilesTypeOK /\ Paired /\ AckedKept

\* Nothing runs at first.
LEMMA InitLife == AgentInit => LifeInv
<1> SUFFICES ASSUME AgentInit PROVE LifeInv
  OBVIOUS
<1>1. /\ request \in [Request -> Chunk \cup {None}]
      /\ process \in [Process -> {"none", "starting", "serving"}]
  BY DEF AgentInit
<1>2. /\ killed \in BOOLEAN /\ partitioned \in BOOLEAN /\ bereft \subseteq Coordinator
      /\ coordinator \in [Coordinator -> {"down", "probing", "up", "stopping"}]
      /\ started \in [Coordinator -> SUBSET Process] /\ ending \subseteq Process
      /\ faults \in Nat
  BY DEF AgentInit
<1>3. EndingRuns /\ OneServes
  BY DEF AgentInit, EndingRuns, OneServes
<1>4. DeadIsBlank
  BY DEF AgentInit, DeadIsBlank
<1> QED BY <1>1, <1>2, <1>3, <1>4 DEF LifeInv, LifeTypeOK

\* The end of a process takes flags and requests with it if it had the port,
\* and changes nothing of them otherwise.
LEMMA EndLife ==
  ASSUME LifeInv, NEW p \in Process, EndProcess(p), faults' \in Nat
  PROVE  LifeInv'
<1>1. LifeTypeOK'
  <2>1. process' \in [Process -> {"none", "starting", "serving"}]
    BY DEF LifeInv, LifeTypeOK, EndProcess
  <2>2. /\ killed' \in BOOLEAN /\ partitioned' \in BOOLEAN
        /\ request' \in [Request -> Chunk \cup {None}]
    BY DEF LifeInv, LifeTypeOK, EndProcess, flagVars
  <2>3. /\ UNCHANGED <<coordinator, started>> /\ ending' \subseteq Process
        /\ bereft' \subseteq Coordinator
    BY DEF LifeInv, LifeTypeOK, EndProcess
  <2> QED BY <2>1, <2>2, <2>3 DEF LifeInv, LifeTypeOK
<1>2. EndingRuns' /\ OneServes'
  BY DEF LifeInv, LifeTypeOK, EndingRuns, OneServes, EndProcess
<1>3. DeadIsBlank'
  <2>1. CASE process[p] = "serving"
    BY <2>1 DEF EndProcess, DeadIsBlank
  <2>2. CASE process[p] # "serving"
    <3>1. Serving' <=> Serving
      BY <2>2 DEF LifeInv, LifeTypeOK, EndProcess, Serving
    <3> QED BY <2>2, <3>1 DEF LifeInv, EndProcess, DeadIsBlank, flagVars
  <2> QED BY <2>1, <2>2
<1> QED BY <1>1, <1>2, <1>3 DEF LifeInv

\* Every step keeps processes, flags and requests in order.
LEMMA NextLife == LifeInv /\ [AgentNext]_agentVars => LifeInv'
<1> SUFFICES ASSUME LifeInv, [AgentNext]_agentVars PROVE LifeInv'
  OBVIOUS
<1> USE DEF Fault, NoFault
<1>1. CASE UNCHANGED agentVars
  BY <1>1 DEF agentVars, fileVars, flagVars, lifeVars, LifeInv, LifeTypeOK, EndingRuns, OneServes,
              DeadIsBlank, Serving
<1>2. CASE SetFlags
  BY <1>2 DEF SetFlags, fileVars, lifeVars, LifeInv, LifeTypeOK, EndingRuns, OneServes,
              DeadIsBlank, Serving
<1>3. ASSUME NEW q \in Request, NEW c \in Chunk, StoreStart(q, c) PROVE LifeInv'
  BY <1>3 DEF StoreStart, Available, flagVars, lifeVars, LifeInv, LifeTypeOK, EndingRuns, OneServes,
              DeadIsBlank, Serving
<1>4. ASSUME NEW q \in Request, StoreWrite(q) PROVE LifeInv'
  BY <1>4 DEF StoreWrite, flagVars, lifeVars, LifeInv, LifeTypeOK, EndingRuns, OneServes,
              DeadIsBlank, Serving
<1>5. ASSUME NEW c \in Chunk, Delete(c) \/ Corrupt(c) PROVE LifeInv'
  BY <1>5 DEF Delete, Corrupt, flagVars, lifeVars, LifeInv, LifeTypeOK, EndingRuns, OneServes,
              DeadIsBlank, Serving
<1>6. ASSUME NEW p \in Process, Die(p) \/ Terminated(p) PROVE LifeInv'
  <2>1. EndProcess(p) /\ faults' \in Nat
    BY <1>6 DEF Die, Terminated, LifeInv, LifeTypeOK
  <2> QED BY <2>1, EndLife
<1>7. ASSUME NEW p \in Process, Bind(p) PROVE LifeInv'
  <2>1. LifeTypeOK' /\ EndingRuns' /\ OneServes'
    BY <1>7 DEF Bind, flagVars, Serving, LifeInv, LifeTypeOK, EndingRuns, OneServes
  <2>2. DeadIsBlank'
    <3>1. Serving'
      BY <1>7 DEF Bind, Serving, LifeInv, LifeTypeOK
    <3> QED BY <3>1 DEF DeadIsBlank
  <2> QED BY <2>1, <2>2 DEF LifeInv
<1>8. ASSUME NEW c \in Coordinator, NEW p \in Process, Terminate(c, p) PROVE LifeInv'
  <2>1. LifeTypeOK'
    BY <1>8 DEF Terminate, flagVars, LifeInv, LifeTypeOK
  <2>2. EndingRuns'
    BY <1>8 DEF Terminate, LifeInv, EndingRuns
  <2>3. OneServes' /\ DeadIsBlank'
    BY <1>8 DEF Terminate, flagVars, LifeInv, OneServes, DeadIsBlank, Serving
  <2> QED BY <2>1, <2>2, <2>3 DEF LifeInv
<1>9. ASSUME NEW c \in Coordinator, Probe(c) PROVE LifeInv'
  <2>1. CASE UNCHANGED <<process, started>>
    BY <1>9, <2>1 DEF Probe, CoordinatorGoto, flagVars, LifeInv, LifeTypeOK, EndingRuns,
                      OneServes, DeadIsBlank, Serving
  <2>2. ASSUME NEW p \in Process, process[p] = "none",
               process' = [process EXCEPT ![p] = "starting"],
               started' = [started EXCEPT ![c] = @ \cup {p}]
        PROVE  LifeInv'
    <3>1. LifeTypeOK' /\ EndingRuns' /\ OneServes'
      BY <1>9, <2>2 DEF Probe, CoordinatorGoto, flagVars, LifeInv, LifeTypeOK, EndingRuns,
                        OneServes
    <3>2. Serving' <=> Serving
      BY <2>2 DEF LifeInv, LifeTypeOK, Serving
    <3>3. DeadIsBlank'
      BY <1>9, <3>2 DEF Probe, flagVars, LifeInv, DeadIsBlank
    <3> QED BY <3>1, <3>3 DEF LifeInv
  <2> QED BY <1>9, <2>1, <2>2 DEF Probe, Unused
<1>10. ASSUME NEW c \in Coordinator, CoordinatorStart(c) \/ CoordinatorStop(c) \/ CoordinatorEnds(c)
       PROVE  LifeInv'
  <2> USE DEF CoordinatorStart, CoordinatorStop, CoordinatorEnds, CoordinatorGoto, flagVars
  <2>1. /\ UNCHANGED <<killed, partitioned, request, process, ending, faults>>
        /\ bereft' \subseteq Coordinator
    BY <1>10 DEF LifeInv, LifeTypeOK
  <2>2. /\ coordinator' \in [Coordinator -> {"down", "probing", "up", "stopping"}]
        /\ started' \in [Coordinator -> SUBSET Process]
    BY <1>10 DEF LifeInv, LifeTypeOK
  <2>3. LifeTypeOK'
    BY <2>1, <2>2 DEF LifeInv, LifeTypeOK
  <2>4. EndingRuns' /\ OneServes' /\ DeadIsBlank'
    BY <2>1 DEF LifeInv, EndingRuns, OneServes, DeadIsBlank, Serving
  <2> QED BY <2>3, <2>4 DEF LifeInv
<1>11. \/ UNCHANGED agentVars \/ SetFlags
       \/ \E q \in Request : StoreWrite(q) \/ \E c \in Chunk : StoreStart(q, c)
       \/ \E c \in Chunk : Delete(c) \/ Corrupt(c)
       \/ \E p \in Process : Die(p) \/ Terminated(p) \/ Bind(p)
       \/ \E c \in Coordinator :
            \/ CoordinatorStart(c) \/ Probe(c) \/ CoordinatorStop(c) \/ CoordinatorEnds(c)
            \/ \E p \in Process : Terminate(c, p)
  BY ZenonT(30) DEF AgentNext
<1> QED
  BY <1>1, <1>2, <1>3, <1>4, <1>5, <1>6, <1>7, <1>8, <1>9, <1>10, <1>11
-----------------------------------------------------------------------------
\* There are no files at first.
LEMMA InitFiles == AgentInit => FilesInv
  BY DEF AgentInit, FilesInv, FilesTypeOK, Paired, AckedKept

\* Steps that leave the files alone.
LEMMA SameFiles == ASSUME FilesInv, UNCHANGED fileVars PROVE FilesInv'
  BY DEF fileVars, FilesInv, FilesTypeOK, Paired, AckedKept

\* A whole chunk with its manifest, or neither, may replace anything.
LEMMA PairWritten ==
  ASSUME FilesInv, NEW c \in Chunk, NEW n \in Nat,
         \/ Files(c, "whole", n, "valid") /\ acked' = acked \cup {c}
         \/ Files(c, "none", n, "none") /\ acked' = acked \ {c},
         torn' = torn \ {c}
  PROVE  FilesInv'
<1>1. FilesTypeOK'
  BY DEF FilesInv, FilesTypeOK, Files
<1>2. Paired'
  BY DEF FilesInv, FilesTypeOK, Files, Paired
<1>3. AckedKept'
  BY DEF FilesInv, FilesTypeOK, Files, AckedKept
<1> QED BY <1>1, <1>2, <1>3 DEF FilesInv

\* Whatever happens to a chunk's files leaves the others alone; the chunk is
\* no longer promised to anyone, and need not have a pair of files if it
\* counts as torn.
LEMMA TornWritten ==
  ASSUME FilesInv, NEW c \in Chunk, NEW n \in Nat,
         NEW bin \in {"none", "part", "whole", "bad"}, NEW json \in {"none", "torn", "valid"},
         Files(c, bin, n, json), acked' = acked \ {c}, torn' = torn \cup {c}
  PROVE  FilesInv'
<1>1. FilesTypeOK'
  BY DEF FilesInv, FilesTypeOK, Files
<1>2. Paired'
  BY DEF FilesInv, FilesTypeOK, Files, Paired
<1>3. AckedKept'
  BY DEF FilesInv, FilesTypeOK, Files, AckedKept
<1> QED BY <1>1, <1>2, <1>3 DEF FilesInv

\* Damage leaves the pair and ends the promise for the chunk.
LEMMA CorruptFiles == ASSUME FilesInv, NEW c \in Chunk, Corrupt(c) PROVE FilesInv'
<1> USE DEF Corrupt, Files, FilesInv
<1>1. FilesTypeOK'
  BY DEF FilesTypeOK
<1>2. Paired'
  BY DEF FilesTypeOK, Paired
<1>3. AckedKept'
  BY DEF FilesTypeOK, AckedKept
<1> QED BY <1>1, <1>2, <1>3

\* What the end of the process leaves of a write is torn.
LEMMA InterruptedFiles == ASSUME FilesInv, Interrupted PROVE FilesInv'
<1>1. CASE UNCHANGED fileVars
  BY <1>1, SameFiles
<1>2. CASE ~ UNCHANGED fileVars
  <2>1. PICK c \in Chunk :
          /\ \/ \E n \in 0..(Size[c] - 1) : Files(c, "part", n, manifest[c])
             \/ Files(c, "whole", Size[c], manifest[c])
             \/ Files(c, "whole", Size[c], "torn")
             \/ Files(c, "none", 0, manifest[c])
             \/ Files(c, data[c], bytes[c], "torn")
          /\ acked' = acked \ {c} /\ torn' = torn \cup {c}
    BY <1>2 DEF Interrupted
  <2>2. /\ manifest[c] \in {"none", "torn", "valid"} /\ bytes[c] \in Nat
        /\ data[c] \in {"none", "part", "whole", "bad"} /\ Size[c] \in Nat
    BY AgentAssumption DEF FilesInv, FilesTypeOK
  <2>3. \E bin \in {"none", "part", "whole", "bad"}, json \in {"none", "torn", "valid"} :
        \E n \in Nat : Files(c, bin, n, json)
    BY <2>1, <2>2
  <2> QED BY <2>1, <2>3, TornWritten
<1> QED BY <1>1, <1>2

\* A process that ends without having had the port leaves the files alone.
LEMMA EndFiles == ASSUME FilesInv, NEW p \in Process, EndProcess(p) PROVE FilesInv'
  BY InterruptedFiles, SameFiles DEF EndProcess, fileVars

\* Every step keeps pairs and acknowledged chunks.
LEMMA NextFiles == LifeInv /\ FilesInv /\ [AgentNext]_agentVars => FilesInv'
<1> SUFFICES ASSUME LifeInv, FilesInv, [AgentNext]_agentVars PROVE FilesInv'
  OBVIOUS
<1>1. ASSUME UNCHANGED fileVars PROVE FilesInv'
  BY <1>1, SameFiles
<1>2. ASSUME NEW q \in Request, StoreWrite(q) PROVE FilesInv'
  <2>1. request[q] \in Chunk /\ Size[request[q]] \in Nat
    BY <1>2, AgentAssumption DEF StoreWrite, LifeInv, LifeTypeOK
  <2>2. CASE Stored(request[q])
    BY <2>1, <2>2, PairWritten DEF Stored
  <2>3. CASE UNCHANGED fileVars
    BY <1>1, <2>3
  <2> QED BY <1>2, <2>2, <2>3 DEF StoreWrite
<1>3. ASSUME NEW c \in Chunk, Delete(c) PROVE FilesInv'
  BY <1>3, PairWritten DEF Delete
<1>4. ASSUME NEW c \in Chunk, Corrupt(c) PROVE FilesInv'
  BY <1>4, CorruptFiles
<1>5. ASSUME NEW p \in Process, EndProcess(p) PROVE FilesInv'
  BY <1>5, EndFiles
<1>6. CASE UNCHANGED agentVars
  BY <1>1, <1>6 DEF agentVars
<1>7. ASSUME NEW p \in Process, Die(p) \/ Terminated(p) \/ Bind(p) PROVE FilesInv'
  BY <1>1, <1>5, <1>7 DEF Die, Terminated, Bind, fileVars
<1>8. CASE SetFlags \/ \E q \in Request, c \in Chunk : StoreStart(q, c)
  BY <1>1, <1>8 DEF SetFlags, StoreStart
<1>9. ASSUME NEW c \in Coordinator,
             \/ CoordinatorStart(c) \/ Probe(c) \/ CoordinatorStop(c) \/ CoordinatorEnds(c)
             \/ \E p \in Process : Terminate(c, p)
      PROVE  FilesInv'
  BY <1>1, <1>9 DEF CoordinatorStart, Probe, CoordinatorStop, CoordinatorEnds, Terminate
<1> QED BY <1>2, <1>3, <1>4, <1>6, <1>7, <1>8, <1>9 DEF AgentNext
-----------------------------------------------------------------------------
\* Both halves together.
LEMMA Invariance == AgentSpec => [](LifeInv /\ FilesInv)
<1>1. AgentInit => LifeInv /\ FilesInv
  BY InitLife, InitFiles
<1>2. (LifeInv /\ FilesInv) /\ [AgentNext]_agentVars => (LifeInv /\ FilesInv)'
  BY NextLife, NextFiles
<1> QED BY <1>1, <1>2, PTL DEF AgentSpec

\* One process at a time has the node's port, and only that one has requests
\* and flags (main of node_agent.py, start_local_nodes_if_needed).
THEOREM OneAgent == AgentSpec => []AgentInv
<1>1. LifeInv /\ FilesInv => AgentInv
  BY DEF LifeInv, FilesInv, AgentInv
<1> QED BY <1>1, Invariance, PTL

\* Data file and manifest come and go together unless the end of a process
\* has cut a write short (store and delete of node_agent.py).
THEOREM FilesPaired == AgentSpec => []Paired
<1>1. LifeInv /\ FilesInv => Paired
  BY DEF FilesInv
<1> QED BY <1>1, Invariance, PTL

\* An acknowledged chunk stays whole until it is deleted, damaged or torn
\* (store of node_agent.py).
THEOREM AcknowledgedKept == AgentSpec => []AckedKept
<1>1. LifeInv /\ FilesInv => AckedKept
  BY DEF FilesInv
<1> QED BY <1>1, Invariance, PTL
-----------------------------------------------------------------------------
(***************************************************************************)
(* The capacity.  A store is let through by the room it finds, so what was *)
(* there before does not matter; a deletion gives back at least the byte   *)
(* that damage has added, and RoomInv says that it is there to give.       *)
(***************************************************************************)
Damaged == {c \in Chunk : data[c] = "bad"}

RoomInv ==
  /\ CapacityKept
  /\ \A c \in Damaged : bytes[c] # 0

\* What may happen to the files of one chunk, as far as room is concerned: a
\* write of a chunk that fits, a removal, or damage.
Written(c) ==
  /\ Fits(c)
  /\ \E bin \in {"part", "whole"}, n \in 0..Size[c] : \E json : Files(c, bin, n, json)

Removed(c) == \E json : Files(c, "none", 0, json)

Spoilt(c) == data[c] # "bad" /\ \E json : Files(c, "bad", bytes[c] + 1, json)

\* The bytes used, now and after a step.
LEMMA UsedIs == UsedBytes = SumOf(bytes, Chunk)
  BY DEF UsedBytes, SumOf

\* After a step too.
LEMMA UsedNext == UsedBytes' = SumOf(bytes', Chunk)
<1>1. (UsedBytes = SumOf(bytes, Chunk))'
  BY UsedIs, PTL
<1>. QED BY <1>1

\* The room a node has is a matter of natural numbers.
RoomTypes ==
  /\ UsedBytes \in Nat /\ CAPACITY \in Nat
  /\ IsFiniteSet(Damaged) /\ Cardinality(Damaged) \in Nat

LEMMA RoomTyped == FilesTypeOK => RoomTypes
<1>. SUFFICES ASSUME FilesTypeOK PROVE RoomTypes
  OBVIOUS
<1>1. UsedBytes \in Nat
  BY UsedIs, SumOfNat, AgentAssumption DEF FilesTypeOK
<1>2. IsFiniteSet(Damaged)
  BY FS_Subset, AgentAssumption DEF Damaged
<1>. QED BY <1>1, <1>2, FS_CardinalityType, AgentAssumption DEF RoomTypes

\* The same after a step.
LEMMA RoomTypedNext == FilesTypeOK' => RoomTypes'
  BY RoomTyped, PTL

\* A new length of one chunk's file changes the used bytes by the difference.
LEMMA FilesUsed ==
  ASSUME FilesTypeOK, NEW c \in Chunk, NEW bin, NEW n \in Nat, NEW json, Files(c, bin, n, json)
  PROVE  UsedBytes' + bytes[c] = UsedBytes + n
<1>1. bytes \in [Chunk -> Nat] /\ bytes' = [bytes EXCEPT ![c] = n] /\ IsFiniteSet(Chunk)
  BY AgentAssumption DEF FilesTypeOK, Files
<1>2. SumOf([bytes EXCEPT ![c] = n], Chunk) + bytes[c] = SumOf(bytes, Chunk) + n
  BY <1>1, SumOfUpdate
<1>. QED BY <1>1, <1>2, UsedIs, UsedNext

\* A node has no files at first.
LEMMA InitRoom == ASSUME AgentInit PROVE RoomInv
<1>1. FilesTypeOK
  BY DEF AgentInit, FilesTypeOK
<1>2. SumOf(bytes, Chunk) = 0
  BY SumOfZeros, AgentAssumption DEF AgentInit
<1>3. UsedBytes = 0
  BY <1>2 DEF UsedBytes, SumOf
<1>4. CapacityKept
  BY <1>1, <1>3, RoomTyped DEF CapacityKept, Damaged, RoomTypes
<1>5. Damaged = {}
  BY DEF AgentInit, Damaged
<1>. QED BY <1>4, <1>5 DEF RoomInv

\* Steps that leave the data files alone.
LEMMA SameRoom == ASSUME RoomInv, UNCHANGED <<data, bytes>> PROVE RoomInv'
<1>1. UsedBytes' = UsedBytes
  BY UsedIs, UsedNext
<1>2. Damaged' = Damaged
  BY DEF Damaged
<1>. QED BY <1>1, <1>2 DEF RoomInv, CapacityKept, Damaged

\* A chunk that is let through fits, whatever it replaces.
LEMMA WrittenRoom == ASSUME FilesTypeOK, FilesTypeOK', RoomInv, NEW c \in Chunk, Written(c) PROVE RoomInv'
<1>1. PICK bin \in {"part", "whole"}, n \in 0..Size[c] : \E json : Fits(c) /\ Files(c, bin, n, json)
  BY DEF Written
<1>2. n \in Nat /\ Size[c] \in Nat /\ n <= Size[c] /\ bytes[c] \in Nat
  BY <1>1, AgentAssumption DEF FilesTypeOK
<1>3. UsedBytes' + bytes[c] = UsedBytes + n
  BY <1>1, <1>2, FilesUsed
<1>4. /\ UsedBytes \in Nat /\ CAPACITY \in Nat
      /\ UsedBytes' \in Nat /\ Cardinality(Damaged)' \in Nat
  BY RoomTyped, RoomTypedNext DEF RoomTypes
<1>5. UsedBytes' <= CAPACITY
  BY <1>1, <1>2, <1>3, <1>4 DEF Fits
<1>6. CapacityKept'
  BY <1>4, <1>5 DEF CapacityKept, Damaged
<1>7. \A d \in Damaged' : bytes'[d] # 0
  BY <1>1 DEF RoomInv, Files, Damaged, FilesTypeOK
<1>. QED BY <1>6, <1>7 DEF RoomInv

\* A deletion gives back the byte of a damaged chunk too.
LEMMA RemovedRoom == ASSUME FilesTypeOK, FilesTypeOK', RoomInv, NEW c \in Chunk, Removed(c) PROVE RoomInv'
<1>1. PICK json : Files(c, "none", 0, json)
  BY DEF Removed
<1>2. UsedBytes' + bytes[c] = UsedBytes /\ bytes[c] \in Nat
  BY <1>1, FilesUsed, RoomTyped DEF FilesTypeOK, RoomTypes
<1>3. /\ UsedBytes \in Nat /\ CAPACITY \in Nat /\ IsFiniteSet(Damaged)
      /\ Cardinality(Damaged) \in Nat
      /\ UsedBytes' \in Nat /\ Cardinality(Damaged)' \in Nat
  BY RoomTyped, RoomTypedNext DEF RoomTypes
<1>4. Damaged' = Damaged \ {c}
  BY <1>1 DEF Files, Damaged, FilesTypeOK
<1>5. Cardinality(Damaged') = IF c \in Damaged THEN Cardinality(Damaged) - 1 ELSE Cardinality(Damaged)
  BY <1>3, <1>4, FS_RemoveElement
<1>6. UsedBytes <= CAPACITY + Cardinality(Damaged)
  BY DEF RoomInv, CapacityKept, Damaged
<1>7. c \in Damaged => bytes[c] # 0
  BY DEF RoomInv
<1>8. UsedBytes' <= CAPACITY + Cardinality(Damaged')
  BY <1>2, <1>3, <1>5, <1>6, <1>7
<1>9. \A d \in Damaged' : bytes'[d] # 0
  BY <1>1 DEF RoomInv, Files, Damaged, FilesTypeOK
<1>. QED BY <1>8, <1>9 DEF RoomInv, CapacityKept, Damaged

\* Damage adds a byte to a file that had none of that kind.
LEMMA SpoiltRoom == ASSUME FilesTypeOK, FilesTypeOK', RoomInv, NEW c \in Chunk, Spoilt(c) PROVE RoomInv'
<1>1. PICK json : Files(c, "bad", bytes[c] + 1, json)
  BY DEF Spoilt
<1>2. UsedBytes' + bytes[c] = UsedBytes + (bytes[c] + 1) /\ bytes[c] \in Nat
  BY <1>1, FilesUsed DEF FilesTypeOK
<1>3. /\ UsedBytes \in Nat /\ CAPACITY \in Nat /\ IsFiniteSet(Damaged)
      /\ Cardinality(Damaged) \in Nat
      /\ UsedBytes' \in Nat
  BY RoomTyped, RoomTypedNext DEF RoomTypes
<1>4. Damaged' = Damaged \cup {c} /\ c \notin Damaged
  BY <1>1 DEF Spoilt, Files, Damaged, FilesTypeOK
<1>5. Cardinality(Damaged') = Cardinality(Damaged) + 1
  BY <1>3, <1>4, FS_AddElement
<1>6. UsedBytes <= CAPACITY + Cardinality(Damaged)
  BY DEF RoomInv, CapacityKept, Damaged
<1>8. UsedBytes' <= CAPACITY + Cardinality(Damaged')
  BY <1>2, <1>3, <1>5, <1>6
<1>9. \A d \in Damaged' : bytes'[d] # 0
  BY <1>1, <1>2 DEF RoomInv, Files, Damaged, FilesTypeOK
<1>. QED BY <1>8, <1>9 DEF RoomInv, CapacityKept, Damaged

\* An interrupted store has passed the check of the capacity; an interrupted
\* deletion or rewriting of a manifest writes no data.
LEMMA InterruptedRoom ==
  ASSUME FilesTypeOK, Interrupted
  PROVE  UNCHANGED <<data, bytes>> \/ \E c \in Chunk : Written(c) \/ Removed(c)
<1>1. CASE UNCHANGED fileVars
  BY <1>1 DEF fileVars
<1>2. CASE ~ UNCHANGED fileVars
  <2>1. PICK c \in Chunk :
          \/ /\ Fits(c)
             /\ \/ \E n \in 0..(Size[c] - 1) : Files(c, "part", n, manifest[c])
                \/ Files(c, "whole", Size[c], manifest[c])
                \/ Files(c, "whole", Size[c], "torn")
          \/ Files(c, "none", 0, manifest[c])
          \/ Files(c, data[c], bytes[c], "torn")
    BY <1>2 DEF Interrupted
  <2>2. Size[c] \in Nat /\ 0..(Size[c] - 1) \subseteq 0..Size[c] /\ Size[c] \in 0..Size[c]
    BY AgentAssumption
  <2>3. CASE Fits(c) /\ \E n \in 0..(Size[c] - 1) : Files(c, "part", n, manifest[c])
    BY <2>2, <2>3 DEF Written
  <2>4. CASE Fits(c) /\ \E json : Files(c, "whole", Size[c], json)
    BY <2>2, <2>4 DEF Written
  <2>5. CASE Files(c, "none", 0, manifest[c])
    BY <2>5 DEF Removed
  <2>6. CASE Files(c, data[c], bytes[c], "torn")
    BY <2>6 DEF Files, FilesTypeOK
  <2>. QED BY <2>1, <2>3, <2>4, <2>5, <2>6
<1>. QED BY <1>1, <1>2

\* What a step of the node does to its data files.
LEMMA RoomStep ==
  ASSUME LifeInv, FilesTypeOK, [AgentNext]_agentVars
  PROVE  UNCHANGED <<data, bytes>> \/ \E c \in Chunk : Written(c) \/ Removed(c) \/ Spoilt(c)
<1>1. ASSUME NEW q \in Request, StoreWrite(q)
      PROVE  UNCHANGED fileVars \/ \E c \in Chunk : Written(c)
  <2>1. request[q] \in Chunk /\ Size[request[q]] \in 0..Size[request[q]]
    BY <1>1, AgentAssumption DEF StoreWrite, LifeInv, LifeTypeOK
  <2>. QED BY <1>1, <2>1 DEF StoreWrite, Stored, Written
<1>2. ASSUME NEW c \in Chunk, Delete(c) PROVE Removed(c)
  BY <1>2 DEF Delete, Removed
<1>3. ASSUME NEW c \in Chunk, Corrupt(c) PROVE Spoilt(c)
  BY <1>3 DEF Corrupt, Spoilt
<1>4. ASSUME NEW p \in Process, Die(p) \/ Terminated(p) \/ Bind(p)
      PROVE  UNCHANGED fileVars \/ Interrupted
  BY <1>4 DEF Die, Terminated, Bind, EndProcess
<1>5. CASE \/ SetFlags \/ \E q \in Request, c \in Chunk : StoreStart(q, c)
           \/ \E c \in Coordinator :
                \/ CoordinatorStart(c) \/ Probe(c) \/ CoordinatorStop(c) \/ CoordinatorEnds(c)
                \/ \E p \in Process : Terminate(c, p)
  BY <1>5 DEF SetFlags, CoordinatorStart, Probe, CoordinatorStop, CoordinatorEnds, Terminate,
              StoreStart, fileVars
<1>6. UNCHANGED fileVars => UNCHANGED <<data, bytes>>
  BY DEF fileVars
<1>7. UNCHANGED agentVars => UNCHANGED fileVars
  BY DEF agentVars
<1>. QED BY <1>1, <1>2, <1>3, <1>4, <1>5, <1>6, <1>7, InterruptedRoom DEF AgentNext

\* The files of a node never take more than its capacity, damage apart (store
\* and used_bytes of node_agent.py).
THEOREM CapacityRespected == AgentSpec => []CapacityKept
<1>1. RoomInv /\ (LifeInv /\ FilesInv) /\ (LifeInv /\ FilesInv)' /\ [AgentNext]_agentVars => RoomInv'
  BY RoomStep, SameRoom, WrittenRoom, RemovedRoom, SpoiltRoom DEF FilesInv
<1>2. RoomInv => CapacityKept
  BY DEF RoomInv
<1>. QED BY <1>1, <1>2, InitRoom, Invariance, PTL DEF AgentSpec
=============================================================================
