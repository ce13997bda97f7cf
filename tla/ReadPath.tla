------------------------------ MODULE ReadPath ------------------------------
(***************************************************************************)
(* The read of one chunk: _verified_candidates and the loop of             *)
(* stream_object in services/coordinator.py.  Each download is a task of   *)
(* its own; it verifies all available HEALTHY replicas at once, and with   *)
(* at least R of them verified it fetches the chunk from one.              *)
(***************************************************************************)
EXTENDS ReplicaStore

CONSTANTS
  Reader,   \* downloads
  R         \* read_quorum of the object

ASSUME ReadAssumption == R \in 1..RF

VARIABLES
  rdPc,       \* where each download is
  rdAsked,    \* replicas whose /checksum call is under way
  rdAnswer,   \* the answers verify_replica has yet to go on with
  rdTodo,     \* verified replicas, those already tried taken out
  rdNode      \* the replica whose fetch just ended, if it ended badly

readVars == <<rdPc, rdAsked, rdAnswer, rdTodo, rdNode>>

ReadTypeOK ==
  /\ rdPc \in [Reader -> {"start", "verify", "fetch", "unreadable", "served", "refused"}]
  /\ rdAsked \in [Reader -> SUBSET Node]
  /\ rdAnswer \in [Reader -> SUBSET (Node \X Verdicts)]
  /\ rdTodo \in [Reader -> SUBSET Node]
  /\ rdNode \in [Reader -> (Node \X {"none", "bad"}) \cup {None}]

ReadInit ==
  /\ rdPc = [r \in Reader |-> "start"]
  /\ rdAsked = [r \in Reader |-> {}]
  /\ rdAnswer = [r \in Reader |-> {}]
  /\ rdTodo = [r \in Reader |-> {}]
  /\ rdNode = [r \in Reader |-> None]

ReadGoto(r, label) == rdPc' = [rdPc EXCEPT ![r] = label]

\* The end of a download; its locals go out of scope.
ReadEnds(r, how) ==
  /\ ReadGoto(r, how)
  /\ rdTodo' = [rdTodo EXCEPT ![r] = {}]
  /\ rdNode' = [rdNode EXCEPT ![r] = None]

Candidates == {n \in HealthyRows : shown[n]}

\* Without an object the answer is 404; without a candidate there is nothing
\* to verify.
ReadStart(r) ==
  /\ rdPc[r] = "start"
  /\ IF exists /\ Candidates # {}
     THEN /\ ReadGoto(r, "verify")
          /\ rdAsked' = [rdAsked EXCEPT ![r] = Candidates]
          /\ UNCHANGED <<rdTodo, rdNode>>
     ELSE /\ ReadEnds(r, "refused")
          /\ UNCHANGED rdAsked
  /\ UNCHANGED <<storeVars, rdAnswer>>

\* One of the verify_replica calls that asyncio.gather runs: the answer ...
ReadAnswer(r, n) ==
  /\ rdPc[r] = "verify" /\ n \in rdAsked[r]
  /\ \E v \in Verdicts :
       /\ CheckCall(n, v)
       /\ rdAnswer' = [rdAnswer EXCEPT ![r] = @ \cup {<<n, v>>}]
  /\ rdAsked' = [rdAsked EXCEPT ![r] = @ \ {n}]
  /\ UNCHANGED <<rowVars, fileVars, nodeVars, rdPc, rdTodo, rdNode>>

\* ... and what verify_replica does with it.
ReadVerified(r, n) ==
  /\ rdPc[r] = "verify"
  /\ \E v \in Verdicts :
       /\ <<n, v>> \in rdAnswer[r]
       /\ SetStatus(n, StatusOf(v))
       /\ rdAnswer' = [rdAnswer EXCEPT ![r] = @ \ {<<n, v>>}]
       /\ rdTodo' = [rdTodo EXCEPT ![r] = IF v = "ok" THEN @ \cup {n} ELSE @]
  /\ UNCHANGED <<exists, fileVars, nodeVars, faults, rdPc, rdAsked, rdNode>>

\* Bug for the checks: one replica more than the read quorum.
QuorumOffByOne(verified) == Cardinality(verified) > R
QuorumMet(verified) == Cardinality(verified) >= R

\* The gather is over: R verified replicas, or no read.
ReadQuorum(r) ==
  /\ rdPc[r] = "verify" /\ rdAsked[r] = {} /\ rdAnswer[r] = {}
  /\ IF QuorumMet(rdTodo[r])
     THEN ReadGoto(r, "fetch") /\ UNCHANGED <<rdTodo, rdNode>>
     ELSE ReadEnds(r, "refused")
  /\ UNCHANGED <<storeVars, rdAsked, rdAnswer>>

\* Fetch from a verified replica not tried yet: good bytes are delivered.
ReadFetch(r) ==
  /\ rdPc[r] = "fetch"
  /\ \E n \in rdTodo[r], v \in {"none", "good", "bad"} :
       /\ FetchCall(n, v)
       /\ \/ /\ v = "good"
             /\ ReadEnds(r, "served")
          \/ /\ v # "good"
             /\ ReadGoto(r, "unreadable")
             /\ rdTodo' = [rdTodo EXCEPT ![r] = @ \ {n}]
             /\ rdNode' = [rdNode EXCEPT ![r] = <<n, v>>]
  /\ UNCHANGED <<rowVars, fileVars, nodeVars, rdAsked, rdAnswer>>

\* Otherwise the row is marked and the next replica is tried.
ReadUnreadable(r) ==
  /\ rdPc[r] = "unreadable"
  /\ SetStatus(rdNode[r][1], IF rdNode[r][2] = "bad" THEN "CORRUPTED" ELSE "UNREACHABLE")
  /\ IF rdTodo[r] # {}
     THEN /\ ReadGoto(r, "fetch")
          /\ rdNode' = [rdNode EXCEPT ![r] = None]
          /\ UNCHANGED rdTodo
     ELSE ReadEnds(r, "refused")
  /\ UNCHANGED <<exists, fileVars, nodeVars, faults, rdAsked, rdAnswer>>

ReadWork(r) ==
  \/ \E n \in Node : ReadAnswer(r, n) \/ ReadVerified(r, n)
  \/ ReadQuorum(r) \/ ReadFetch(r) \/ ReadUnreadable(r)

ReadNext == \E r \in Reader : ReadStart(r) \/ ReadWork(r)
=============================================================================
