------------------------- MODULE NodeMonitorProofs --------------------------
(***************************************************************************)
(* Theorems about NodeMonitor, for any number of nodes, any intervals and  *)
(* timeouts and any number of operator actions: how long a dead node may   *)
(* be taken for available, and how old the heartbeat of a node shown       *)
(* HEALTHY may be.                                                         *)
(***************************************************************************)
EXTENDS NodeMonitor, TLAPS

\* Ticks are counted up to the cap, one at a time.
LEMMA OlderBy ==
  ASSUME NEW t \in 0..AgeCap
  PROVE  /\ Older(t) \in 0..AgeCap
         /\ Older(t) <= t + 1
         /\ t < AgeCap => Older(t) = t + 1
         /\ t = AgeCap => Older(t) = AgeCap
  BY MonitorAssumption DEF Older, AgeCap

\* What the handlers of the operators' actions have in common.
LEMMA OperatorSteps ==
  ASSUME MonitorTypeOK, NEW n \in Node, Operator(n)
  PROVE  /\ killed' \in [Node -> BOOLEAN] /\ partitioned' \in [Node -> BOOLEAN]
         /\ \A m \in Node \ {n} : killed'[m] = killed[m] /\ partitioned'[m] = partitioned[m]
         /\ \E action \in AdminActions, s \in {"FAILED", "UNKNOWN", "PARTITIONED"} :
              Operate(n, action, s)
<1>. USE DEF MonitorTypeOK
<1>1. CASE Kill(n)
  BY <1>1 DEF Kill, AdminActions
<1>2. CASE Revive(n)
  BY <1>2 DEF Revive, AdminActions
<1>3. CASE Partition(n)
  BY <1>3 DEF Partition, SetPartitioned, AdminActions
<1>4. CASE Heal(n)
  BY <1>4 DEF Heal, AdminActions
<1>5. CASE Chaos(n)
  BY <1>5 DEF Chaos, SetPartitioned, AdminActions
<1>. QED BY <1>1, <1>2, <1>3, <1>4, <1>5 DEF Operator

\* A heartbeat that goes on writes a status of the nodes table.
LEMMA StatusAfterOK ==
  ASSUME MonitorTypeOK, NEW n \in Node
  PROVE  StatusAfter(n) \in NodeStatus
  BY DEF MonitorTypeOK, StatusAfter, NodeStatus

\* The types hold at first.
LEMMA MonitorInitTypes == MonitorInit => MonitorTypeOK
  BY MonitorAssumption DEF MonitorInit, MonitorTypeOK, NodeStatus, AgeCap

\* Every step keeps the types, and starts a heartbeat only in a round.
LEMMA MonitorTypes == MonitorTypeOK /\ [MonitorNext]_monitorVars => MonitorTypeOK'
<1>. SUFFICES ASSUME MonitorTypeOK, [MonitorNext]_monitorVars PROVE MonitorTypeOK'
  OBVIOUS
<1>. USE MonitorAssumption
<1>1. CASE RoundStart
  BY <1>1 DEF RoundStart, MonitorTypeOK, agentVars, adminVars
<1>2. CASE RoundEnd
  BY <1>2 DEF RoundEnd, MonitorTypeOK, agentVars, adminVars
<1>3. CASE Tick
  <2>1. age' \in [Node -> 0..AgeCap] /\ downFor' \in [Node -> 0..AgeCap]
    <3>1. 0 \in 0..AgeCap
      BY DEF AgeCap
    <3>. QED BY <3>1, <1>3, OlderBy DEF Tick, MonitorTypeOK
  <2>2. timer' \in 0..(IF round' = "running" THEN CALL_LIMIT ELSE HEARTBEAT_INTERVAL)
    BY <1>3 DEF Tick, MonitorTypeOK
  <2>. QED BY <2>1, <2>2, <1>3 DEF Tick, MonitorTypeOK, agentVars, adminVars
<1>4. CASE AdminWrite
  <2>. PICK w \in writes : status' = [status EXCEPT ![w[1]] = w[2]] /\ writes' = writes \ {w}
    BY <1>4 DEF AdminWrite
  <2>1. w[2] \in NodeStatus
    BY DEF MonitorTypeOK, NodeStatus
  <2>. QED BY <2>1, <1>4 DEF AdminWrite, MonitorTypeOK, agentVars, roundVars
<1>5. ASSUME NEW n \in Node, Answer(n) PROVE MonitorTypeOK'
  BY <1>5 DEF Answer, MonitorTypeOK, agentVars, adminVars
<1>6. ASSUME NEW n \in Node, Record(n) PROVE MonitorTypeOK'
  <2>1. 0 \in 0..AgeCap
    BY DEF AgeCap
  <2>2. status' \in [Node -> NodeStatus] /\ age' \in [Node -> 0..AgeCap]
    BY <2>1, <1>6, StatusAfterOK DEF Record, MonitorTypeOK
  <2>. QED BY <2>2, <1>6 DEF Record, MonitorTypeOK, agentVars, adminVars
<1>7. ASSUME NEW n \in Node, Operator(n) PROVE MonitorTypeOK'
  <2>1. PICK action \in AdminActions, s \in {"FAILED", "UNKNOWN", "PARTITIONED"} :
          Operate(n, action, s)
    BY <1>7, OperatorSteps
  <2>2. killed' \in [Node -> BOOLEAN] /\ partitioned' \in [Node -> BOOLEAN]
    BY <1>7, OperatorSteps
  <2>3. 0 \in 0..AgeCap
    BY DEF AgeCap
  <2>4. downFor' \in [Node -> 0..AgeCap]
    BY <2>1, <2>3 DEF Operate, MonitorTypeOK
  <2>5. used' \in 0..MaxAdmin
    BY <2>1 DEF Operate, MonitorTypeOK
  <2>6. writes' \in SUBSET (Node \X {"FAILED", "UNKNOWN", "PARTITIONED"})
    BY <2>1 DEF Operate, MonitorTypeOK
  <2>. QED BY <2>1, <2>2, <2>4, <2>5, <2>6 DEF Operate, MonitorTypeOK, roundVars
<1>8. CASE UNCHANGED monitorVars
  BY <1>8 DEF monitorVars, MonitorTypeOK
<1>. QED BY <1>1, <1>2, <1>3, <1>4, <1>5, <1>6, <1>7, <1>8 DEF MonitorNext

\* The nodes table, the ages and the rounds always have their types, and no
\* heartbeat is under way while heartbeat_loop sleeps: a node never has two.
THEOREM MonitorTyped == MonitorSpec => []MonitorTypeOK
  BY MonitorInitTypes, MonitorTypes, PTL DEF MonitorSpec
-----------------------------------------------------------------------------
(***************************************************************************)
(* The age of a prompt node's heartbeat.  GapBound alone says nothing of   *)
(* where the round is: HeartbeatAge does, and that a prompt node's call    *)
(* ends within the tick in which the round began.                          *)
(***************************************************************************)
AgeLimit(n) ==
  IF round = "sleeping" THEN CALL_LIMIT + timer
  ELSE IF heartbeat[n] = "none" THEN timer
  ELSE CALL_LIMIT + HEARTBEAT_INTERVAL

PromptCall(n) == heartbeat[n] # "none" => timer = 0

HeartbeatAge ==
  \A n \in Node \ Slow :
    /\ PromptCall(n)
    /\ status[n] = "HEALTHY" => age[n] <= AgeLimit(n)

\* Only an answered heartbeat writes HEALTHY.
LEMMA HealthyByAnswer ==
  ASSUME NEW n, StatusAfter(n) = "HEALTHY"
  PROVE  heartbeat[n] = "answered"
  BY DEF StatusAfter

\* What HeartbeatAge says of one node, for steps that leave the node alone.
LEMMA AgeKept ==
  ASSUME HeartbeatAge, NEW n \in Node \ Slow, UNCHANGED <<round, timer>>,
         heartbeat'[n] = heartbeat[n], age'[n] = age[n],
         status'[n] = "HEALTHY" => status[n] = "HEALTHY"
  PROVE  PromptCall(n)' /\ (status'[n] = "HEALTHY" => age'[n] <= AgeLimit(n)')
  BY DEF HeartbeatAge, PromptCall, AgeLimit

\* At first no heartbeat is old.
LEMMA HeartbeatAgeInit == MonitorInit => HeartbeatAge
  BY DEF MonitorInit, HeartbeatAge, PromptCall

\* Every step keeps the ages within their limits.
LEMMA HeartbeatAgeStep ==
  MonitorTypeOK /\ HeartbeatAge /\ [MonitorNext]_monitorVars => HeartbeatAge'
<1>. SUFFICES ASSUME MonitorTypeOK, HeartbeatAge, [MonitorNext]_monitorVars,
                     NEW n \in Node \ Slow
              PROVE  PromptCall(n)' /\ (status'[n] = "HEALTHY" => age'[n] <= AgeLimit(n)')
  BY DEF HeartbeatAge
<1>. USE MonitorAssumption
<1>0. /\ PromptCall(n) /\ (status[n] = "HEALTHY" => age[n] <= AgeLimit(n))
      /\ age[n] \in 0..AgeCap /\ age[n] \in Nat
      /\ timer \in Nat /\ round \in {"running", "sleeping"}
      /\ timer <= IF round = "running" THEN CALL_LIMIT ELSE HEARTBEAT_INTERVAL
      /\ round = "sleeping" => heartbeat[n] = "none"
  BY DEF HeartbeatAge, MonitorTypeOK
<1>1. CASE RoundStart
  BY <1>0, <1>1 DEF RoundStart, PromptCall, AgeLimit
<1>2. CASE RoundEnd
  BY <1>0, <1>2 DEF RoundEnd, PromptCall, AgeLimit
<1>3. CASE Tick
  <2>1. age'[n] <= age[n] + 1
    BY <1>0, <1>3, OlderBy DEF Tick
  <2>2. round = "running" => heartbeat[n] = "none"
    BY <1>3 DEF Tick
  <2>3. heartbeat'[n] = "none" /\ AgeLimit(n)' = AgeLimit(n) + 1
    BY <1>0, <1>3, <2>2 DEF Tick, AgeLimit
  <2>4. age'[n] \in Nat /\ AgeLimit(n) \in Nat
    BY <1>0, <1>3, OlderBy DEF Tick, AgeLimit
  <2>. QED BY <1>0, <1>3, <2>1, <2>3, <2>4 DEF Tick, PromptCall
<1>4. CASE AdminWrite
  <2>1. status'[n] = "HEALTHY" => status[n] = "HEALTHY"
    BY <1>4 DEF AdminWrite, MonitorTypeOK
  <2>. QED BY <1>4, <2>1, AgeKept DEF AdminWrite, roundVars
<1>5. ASSUME NEW m \in Node, Answer(m)
      PROVE  PromptCall(n)' /\ (status'[n] = "HEALTHY" => age'[n] <= AgeLimit(n)')
  <2>1. heartbeat'[n] = "none" <=> heartbeat[n] = "none"
    BY <1>5 DEF Answer, MonitorTypeOK
  <2>. QED BY <1>0, <1>5, <2>1 DEF Answer, PromptCall, AgeLimit
<1>6. ASSUME NEW m \in Node, Record(m)
      PROVE  PromptCall(n)' /\ (status'[n] = "HEALTHY" => age'[n] <= AgeLimit(n)')
  <2>1. CASE m = n
    <3>1. heartbeat'[n] = "none" /\ heartbeat[n] # "none"
      BY <1>6, <2>1 DEF Record, MonitorTypeOK
    <3>2. status'[n] = "HEALTHY" => age'[n] = 0
      BY <1>6, <2>1, HealthyByAnswer DEF Record, MonitorTypeOK
    <3>3. timer' = 0 /\ AgeLimit(n)' = 0
      BY <1>0, <1>6, <3>1 DEF Record, PromptCall, AgeLimit
    <3>. QED BY <3>1, <3>2, <3>3 DEF PromptCall
  <2>2. CASE m # n
    BY <1>6, <2>2, AgeKept DEF Record, MonitorTypeOK
  <2>. QED BY <2>1, <2>2
<1>7. ASSUME NEW m \in Node, Operator(m)
      PROVE  PromptCall(n)' /\ (status'[n] = "HEALTHY" => age'[n] <= AgeLimit(n)')
  BY <1>7, OperatorSteps, AgeKept DEF Operate, roundVars
<1>8. CASE UNCHANGED monitorVars
  BY <1>8, AgeKept DEF monitorVars
<1>. QED BY <1>1, <1>2, <1>3, <1>4, <1>5, <1>6, <1>7, <1>8 DEF MonitorNext

\* Whatever other nodes and operators do, a prompt node that is shown HEALTHY
\* was heard of within one round and one pause: CALL_LIMIT +
\* HEARTBEAT_INTERVAL.
THEOREM GapBounded == MonitorSpec => []GapBound
<1>1. MonitorTypeOK /\ HeartbeatAge => GapBound
  <2>. SUFFICES ASSUME MonitorTypeOK, HeartbeatAge, NEW n \in Node \ Slow, status[n] = "HEALTHY"
                PROVE  age[n] <= CALL_LIMIT + HEARTBEAT_INTERVAL
    BY DEF GapBound
  <2>1. age[n] <= AgeLimit(n) /\ age[n] \in Nat
    BY DEF HeartbeatAge, MonitorTypeOK
  <2>2. AgeLimit(n) \in Nat /\ AgeLimit(n) <= CALL_LIMIT + HEARTBEAT_INTERVAL
    BY MonitorAssumption DEF AgeLimit, MonitorTypeOK
  <2>. QED BY <2>1, <2>2, MonitorAssumption
<1>. QED BY <1>1, HeartbeatAgeInit, HeartbeatAgeStep, MonitorTyped, PTL DEF MonitorSpec
-----------------------------------------------------------------------------
(***************************************************************************)
(* How long a dead node may be taken for available.  The age of its last   *)
(* heartbeat keeps up with the time since its failure, but for the time an *)
(* answer given before the failure may have been on its way.               *)
(***************************************************************************)
Slack(n) == IF n \in Slow THEN CALL_LIMIT ELSE 0

Follows(n) ==
  /\ Up(n) => downFor[n] = 0
  /\ heartbeat[n] = "answered" => downFor[n] <= timer
  /\ downFor[n] <= age[n] + Slack(n)

AgeFollows == \A n \in Node : Follows(n)

\* An answer that is on its way is not older than the slack.
LEMMA AnswerAge ==
  ASSUME MonitorTypeOK, HeartbeatAge, NEW n \in Node, heartbeat[n] = "answered"
  PROVE  timer <= Slack(n)
  BY MonitorAssumption DEF MonitorTypeOK, HeartbeatAge, PromptCall, Slack

\* At first nothing is down.
LEMMA AgeFollowsInit == MonitorInit => AgeFollows
  BY MonitorAssumption DEF MonitorInit, AgeFollows, Follows, AgeCap, Slack

\* Every step keeps the ages close behind.
LEMMA AgeFollowsStep ==
  MonitorTypeOK /\ HeartbeatAge /\ AgeFollows /\ [MonitorNext]_monitorVars => AgeFollows'
<1>. SUFFICES ASSUME MonitorTypeOK, HeartbeatAge, AgeFollows, [MonitorNext]_monitorVars,
                     NEW n \in Node
              PROVE  Follows(n)'
  BY DEF AgeFollows
<1>. USE MonitorAssumption
<1>0. /\ Follows(n) /\ timer \in Nat /\ Slack(n) \in Nat
      /\ age[n] \in 0..AgeCap /\ downFor[n] \in 0..AgeCap /\ AgeCap \in Nat
      /\ age[n] \in Nat /\ downFor[n] \in Nat
  BY DEF AgeFollows, Follows, MonitorTypeOK, Slack, AgeCap
<1>u. ASSUME UNCHANGED agentVars, downFor'[n] = downFor[n], age'[n] = age[n], timer' = timer,
             heartbeat'[n] = "answered" => heartbeat[n] = "answered"
      PROVE  Follows(n)'
  BY <1>0, <1>u DEF Follows, Up, agentVars, Slack
<1>1. CASE RoundStart
  BY <1>0, <1>1 DEF RoundStart, Follows, Up, agentVars, Slack
<1>2. CASE RoundEnd
  BY <1>0, <1>2 DEF RoundEnd, Follows, Up, agentVars, Slack
<1>3. CASE Tick
  <2>1. /\ age'[n] = Older(age[n]) /\ downFor'[n] = IF Up(n) THEN 0 ELSE Older(downFor[n])
        /\ timer' = timer + 1 /\ heartbeat' = heartbeat /\ UNCHANGED agentVars
    BY <1>3 DEF Tick
  <2>2. CASE Up(n)
    BY <1>0, <2>1, <2>2, OlderBy DEF Follows, Up, agentVars, Slack
  <2>3. CASE ~Up(n)
    <3>1. ~Up(n)'
      BY <2>1, <2>3 DEF Up, agentVars
    <3>2. downFor'[n] <= downFor[n] + 1 /\ downFor'[n] \in 0..AgeCap
      BY <1>0, <2>1, <2>3, OlderBy
    <3>3. age'[n] = age[n] + 1 \/ age'[n] = AgeCap
      BY <1>0, <2>1, OlderBy
    <3>4. downFor'[n] <= age'[n] + Slack(n)
      BY <1>0, <3>2, <3>3 DEF Follows
    <3>5. heartbeat'[n] = "answered" => downFor'[n] <= timer'
      BY <1>0, <2>1, <3>2 DEF Follows
    <3>. QED BY <3>1, <3>4, <3>5 DEF Follows, Slack
  <2>. QED BY <2>2, <2>3
<1>4. CASE AdminWrite
  BY <1>4, <1>u DEF AdminWrite, roundVars
<1>5. ASSUME NEW m \in Node, Answer(m) PROVE Follows(n)'
  <2>1. CASE m = n /\ Up(n)
    BY <1>0, <1>5, <2>1 DEF Answer, Follows, Up, agentVars, Slack
  <2>2. CASE ~(m = n /\ Up(n))
    <3>1. heartbeat'[n] = "answered" => heartbeat[n] = "answered"
      BY <1>5, <2>2 DEF Answer, MonitorTypeOK
    <3>. QED BY <3>1, <1>5, <1>u DEF Answer
  <2>. QED BY <2>1, <2>2
<1>6. ASSUME NEW m \in Node, Record(m) PROVE Follows(n)'
  <2>1. CASE m = n /\ heartbeat[n] = "answered"
    <3>1. age'[n] = 0 /\ heartbeat'[n] = "none" /\ downFor' = downFor /\ UNCHANGED agentVars
      BY <1>6, <2>1 DEF Record, MonitorTypeOK
    <3>2. downFor[n] <= Slack(n)
      BY <1>0, <2>1, AnswerAge DEF Follows
    <3>. QED BY <1>0, <3>1, <3>2 DEF Follows, Up, agentVars, Slack
  <2>2. CASE ~(m = n /\ heartbeat[n] = "answered")
    <3>1. age'[n] = age[n] /\ (heartbeat'[n] = "answered" => heartbeat[n] = "answered")
      BY <1>6, <2>2 DEF Record, MonitorTypeOK
    <3>. QED BY <3>1, <1>6, <1>u DEF Record
  <2>. QED BY <2>1, <2>2
<1>7. ASSUME NEW m \in Node, Operator(m) PROVE Follows(n)'
  <2>1. UNCHANGED <<age, heartbeat, timer>> /\ downFor' = [downFor EXCEPT ![m] = IF Up(m)' THEN 0 ELSE @]
    BY <1>7, OperatorSteps DEF Operate, roundVars
  <2>2. CASE m = n
    <3>1. downFor'[n] = IF Up(n)' THEN 0 ELSE downFor[n]
      BY <2>1, <2>2 DEF MonitorTypeOK
    <3>. QED BY <1>0, <2>1, <3>1 DEF Follows, Slack
  <2>3. CASE m # n
    <3>1. downFor'[n] = downFor[n] /\ (Up(n)' <=> Up(n))
      BY <1>7, <2>1, <2>3, OperatorSteps DEF Up, MonitorTypeOK
    <3>. QED BY <1>0, <2>1, <3>1 DEF Follows, Slack
  <2>. QED BY <2>2, <2>3
<1>8. CASE UNCHANGED monitorVars
  BY <1>8, <1>u DEF monitorVars, agentVars
<1>. QED BY <1>1, <1>2, <1>3, <1>4, <1>5, <1>6, <1>7, <1>8 DEF MonitorNext

\* A node that has been down for FAILURE_TIMEOUT, and for CALL_LIMIT more if
\* its answers may be late, is not available, in whatever order operators'
\* updates, rounds and late answers come.
THEOREM FailureDetected == MonitorSpec => []Detected
<1>1. MonitorTypeOK /\ AgeFollows => Detected
  BY MonitorAssumption DEF MonitorTypeOK, AgeFollows, Follows, Slack, Detected, AvailableNode
<1>. QED BY <1>1, HeartbeatAgeInit, HeartbeatAgeStep, AgeFollowsInit, AgeFollowsStep,
       MonitorTyped, PTL DEF MonitorSpec
=============================================================================
