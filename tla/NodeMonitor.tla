---------------------------- MODULE NodeMonitor -----------------------------
(***************************************************************************)
(* What the coordinator knows of the storage nodes: heartbeat_loop and     *)
(* NodeService.heartbeat, the operators' kill, revive, partition, heal and *)
(* chaos handlers, and available_nodes, which every other component asks.  *)
(*                                                                         *)
(* Time is counted in ticks.  A round sends one heartbeat to every node at *)
(* once and ends when each has been answered or has timed out; the next    *)
(* one starts HEARTBEAT_INTERVAL later.  Prompt nodes answer within the    *)
(* tick; a Slow one (a real network between it and the coordinator) may    *)
(* take up to CALL_LIMIT or not answer at all.                             *)
(***************************************************************************)
EXTENDS Naturals, FiniteSets

CONSTANTS
  Node,
  Slow,                 \* nodes whose calls may take time or get lost
  HEARTBEAT_INTERVAL,
  FAILURE_TIMEOUT,
  CALL_LIMIT,           \* how long an HTTP call may take, timeouts included
  Admin,                \* the operator actions that may be used
  MaxAdmin              \* bound: how many of them are used

AdminActions == {"kill", "revive", "partition", "heal", "chaos"}

ASSUME MonitorAssumption ==
  /\ IsFiniteSet(Node) /\ Slow \subseteq Node
  /\ HEARTBEAT_INTERVAL \in Nat /\ FAILURE_TIMEOUT \in Nat /\ CALL_LIMIT \in Nat
  /\ Admin \subseteq AdminActions /\ MaxAdmin \in Nat

VARIABLES
  killed, partitioned,   \* the flags of each node agent
  status,                \* status column of the nodes table
  age,                   \* ticks since last_heartbeat, up to AgeCap
  downFor,               \* history: ticks since the node last served, up to AgeCap
  heartbeat,             \* the call of each node in the running round
  seen,                  \* the status each heartbeat read before its call
  round,                 \* "running" or "sleeping"
  timer,                 \* ticks since the round began or ended
  writes,                \* status updates of operator handlers still to come
  used                   \* operator actions so far

monitorVars == <<killed, partitioned, status, age, downFor, heartbeat, seen,
                 round, timer, writes, used>>
agentVars == <<killed, partitioned>>
roundVars == <<heartbeat, seen, round, timer>>
adminVars == <<writes, used>>

\* No clause looks beyond this many ticks.
AgeCap == FAILURE_TIMEOUT + CALL_LIMIT + HEARTBEAT_INTERVAL + 1

NodeStatus == {"UNKNOWN", "HEALTHY", "FAILED", "PARTITIONED", "UNREACHABLE"}

\* Types; and no heartbeat is under way while the loop sleeps, so that a node
\* never has two of them.
MonitorTypeOK ==
  /\ killed \in [Node -> BOOLEAN] /\ partitioned \in [Node -> BOOLEAN]
  /\ status \in [Node -> NodeStatus]
  /\ age \in [Node -> 0..AgeCap] /\ downFor \in [Node -> 0..AgeCap]
  /\ heartbeat \in [Node -> {"none", "asked", "answered", "failed"}]
  /\ seen \in [Node -> NodeStatus]
  /\ round \in {"running", "sleeping"}
  /\ timer \in 0..(IF round = "running" THEN CALL_LIMIT ELSE HEARTBEAT_INTERVAL)
  /\ \A n \in Node : heartbeat[n] # "none" => round = "running"
  /\ writes \in SUBSET (Node \X {"FAILED", "UNKNOWN", "PARTITIONED"})
  /\ used \in 0..MaxAdmin

\* ensure_available
Up(n) == ~killed[n] /\ ~partitioned[n]

\* Bug for the checks: the age of the last heartbeat is not looked at.
AvailableByStatus(n) == status[n] = "HEALTHY"

\* available_nodes: no agent ever reports DEGRADED
AvailableNode(n) == status[n] = "HEALTHY" /\ age[n] <= FAILURE_TIMEOUT

\* seed_nodes has just run, and the first round is about to start
MonitorInit ==
  /\ killed = [n \in Node |-> FALSE] /\ partitioned = [n \in Node |-> FALSE]
  /\ status = [n \in Node |-> "UNKNOWN"]
  /\ age = [n \in Node |-> AgeCap] /\ downFor = [n \in Node |-> 0]
  /\ heartbeat = [n \in Node |-> "none"]
  /\ seen = [n \in Node |-> "UNKNOWN"]
  /\ round = "sleeping" /\ timer = HEARTBEAT_INTERVAL
  /\ writes = {} /\ used = 0

\* all_heartbeats: each heartbeat reads its nodes row and makes its call
RoundStart ==
  /\ round = "sleeping" /\ timer = HEARTBEAT_INTERVAL
  /\ round' = "running" /\ timer' = 0
  /\ heartbeat' = [n \in Node |-> "asked"]
  /\ seen' = status
  /\ UNCHANGED <<agentVars, status, age, downFor, adminVars>>

\* The agent answers, or the call fails: with the 503 of ensure_available,
\* or because the answer does not come.
Answer(n) ==
  /\ heartbeat[n] = "asked"
  /\ \/ Up(n) /\ heartbeat' = [heartbeat EXCEPT ![n] = "answered"]
     \/ (~Up(n) \/ n \in Slow) /\ heartbeat' = [heartbeat EXCEPT ![n] = "failed"]
  /\ UNCHANGED <<agentVars, status, age, downFor, seen, round, timer, adminVars>>

\* Bug for the checks: a failed heartbeat leaves the status as it was.
StatusAfterFailed(n) == IF heartbeat[n] = "answered" THEN "HEALTHY" ELSE seen[n]

\* Bug for the checks: a failure mark outlives an answered heartbeat.
StatusAfterSticky(n) ==
  IF seen[n] \in {"FAILED", "PARTITIONED"} THEN seen[n]
  ELSE IF heartbeat[n] = "answered" THEN "HEALTHY" ELSE "UNREACHABLE"

StatusAfter(n) ==
  IF heartbeat[n] = "answered" THEN "HEALTHY"
  ELSE IF seen[n] \in {"FAILED", "PARTITIONED"} THEN seen[n]
  ELSE "UNREACHABLE"

\* The heartbeat goes on: it updates the row with what the agent said, or,
\* after an exception, with the status it preserves.
Record(n) ==
  /\ heartbeat[n] \in {"answered", "failed"}
  /\ status' = [status EXCEPT ![n] = StatusAfter(n)]
  /\ age' = [age EXCEPT ![n] = IF heartbeat[n] = "answered" THEN 0 ELSE @]
  /\ heartbeat' = [heartbeat EXCEPT ![n] = "none"]
  /\ UNCHANGED <<agentVars, downFor, seen, round, timer, adminVars>>

\* Bug for the checks: the heartbeats are started but not awaited.
RoundEndEarly ==
  /\ round = "running"
  /\ round' = "sleeping" /\ timer' = 0
  /\ UNCHANGED <<agentVars, status, age, downFor, heartbeat, seen, adminVars>>

\* heartbeat_loop has gathered them all and waits.
RoundEnd ==
  /\ round = "running" /\ \A n \in Node : heartbeat[n] = "none"
  /\ round' = "sleeping" /\ timer' = 0
  /\ UNCHANGED <<agentVars, status, age, downFor, heartbeat, seen, adminVars>>

\* Time passes, but not while something is due within the tick.
Older(ticks) == IF ticks < AgeCap THEN ticks + 1 ELSE ticks

Tick ==
  /\ IF round = "sleeping" THEN timer < HEARTBEAT_INTERVAL
     ELSE /\ timer < CALL_LIMIT
          /\ \A n \in Node : heartbeat[n] # "none" => n \in Slow
          /\ \E n \in Node : heartbeat[n] # "none"
  /\ timer' = timer + 1
  /\ age' = [n \in Node |-> Older(age[n])]
  /\ downFor' = [n \in Node |-> IF Up(n) THEN 0 ELSE Older(downFor[n])]
  /\ UNCHANGED <<agentVars, status, heartbeat, seen, round, adminVars>>

\* NodeService.admin on node n, which a killed agent obeys too; the handler
\* then has status s to write, unless the call raised and the operator got a 502.
Operate(n, action, s) ==
  /\ action \in Admin /\ used < MaxAdmin
  /\ used' = used + 1
  /\ writes' \in {writes \cup {<<n, s>>}, writes}
  /\ downFor' = [downFor EXCEPT ![n] = IF Up(n)' THEN 0 ELSE @]
  /\ UNCHANGED <<status, age, roundVars>>

Kill(n) ==
  /\ killed' = [killed EXCEPT ![n] = TRUE]
  /\ UNCHANGED partitioned
  /\ Operate(n, "kill", "FAILED")

Revive(n) ==
  /\ killed' = [killed EXCEPT ![n] = FALSE]
  /\ partitioned' = [partitioned EXCEPT ![n] = FALSE]
  /\ Operate(n, "revive", "UNKNOWN")

SetPartitioned(n) ==
  /\ partitioned' = [partitioned EXCEPT ![n] = TRUE]
  /\ UNCHANGED killed

Partition(n) == SetPartitioned(n) /\ Operate(n, "partition", "PARTITIONED")

Heal(n) ==
  /\ partitioned' = [partitioned EXCEPT ![n] = FALSE]
  /\ UNCHANGED killed
  /\ Operate(n, "heal", "UNKNOWN")

\* chaos_burst, when it chooses the partition (or has no replica to damage):
\* any node that the table shows HEALTHY.  After a call to damage a replica
\* has failed, it partitions the node whatever the table says: a Partition.
Chaos(n) ==
  /\ status[n] = "HEALTHY"
  /\ SetPartitioned(n)
  /\ Operate(n, "chaos", "PARTITIONED")

\* The handler's UPDATE nodes, some time after the agent obeyed.
AdminWrite ==
  /\ \E w \in writes :
       /\ status' = [status EXCEPT ![w[1]] = w[2]]
       /\ writes' = writes \ {w}
  /\ UNCHANGED <<agentVars, age, downFor, roundVars, used>>

Operator(n) == Kill(n) \/ Revive(n) \/ Partition(n) \/ Heal(n) \/ Chaos(n)

MonitorNext ==
  \/ RoundStart \/ RoundEnd \/ Tick \/ AdminWrite
  \/ \E n \in Node : Answer(n) \/ Record(n) \/ Operator(n)

MonitorSpec == MonitorInit /\ [][MonitorNext]_monitorVars

\* Time does not stop, the loop never ends, calls time out, the event loop
\* runs every ready task.  Operators need not do anything.
MonitorFairness ==
  /\ WF_monitorVars(Tick) /\ WF_monitorVars(RoundStart) /\ WF_monitorVars(RoundEnd)
  /\ WF_monitorVars(AdminWrite)
  /\ \A n \in Node : WF_monitorVars(Answer(n)) /\ WF_monitorVars(Record(n))

MonitorFairSpec == MonitorSpec /\ MonitorFairness
-----------------------------------------------------------------------------
\* A node that has been down for longer than the failure timeout plus the
\* time an answer may be on its way is not available: neither an answer of
\* before the failure nor a revive or heal that another failure overtook
\* keeps it so.
Detected ==
  \A n \in Node :
    downFor[n] > FAILURE_TIMEOUT + (IF n \in Slow THEN CALL_LIMIT ELSE 0) => ~AvailableNode(n)

\* The longest time a prompt node is shown HEALTHY on the strength of one
\* heartbeat: a whole round held up by another node, and the pause after it.
\* (With the defaults this is 7 seconds and exceeds FAILURE_TIMEOUT, 6: a
\* node that does not answer makes all the others unavailable for a second.)
GapBound ==
  \A n \in Node \ Slow :
    status[n] = "HEALTHY" => age[n] <= CALL_LIMIT + HEARTBEAT_INTERVAL

\* A prompt node that is up for good becomes HEALTHY for good, whatever the
\* operators' handlers and the heartbeats of before still write.
Returns ==
  \A n \in Node \ Slow : (<>[]Up(n)) => <>[](status[n] = "HEALTHY")

\* A node that stays down after its kill handler answered is shown FAILED in
\* the end ("Watch the node switch to FAILED"; heartbeat preserves FAILED).
ShownFailed ==
  Admin = {"kill"} =>
    \A n \in Node : <<n, "FAILED">> \in writes ~> [](status[n] = "FAILED")
=============================================================================
