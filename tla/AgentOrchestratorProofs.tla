---------------------- MODULE AgentOrchestratorProofs ----------------------
(***************************************************************************)
(* Theorems about AgentOrchestrator, for any number of runs, agents,       *)
(* delegations and kills.                                                  *)
(*                                                                         *)
(* A task whose agent came to "done" never changes again, and an agent is  *)
(* alive only between "spawned" and "stopping".  So what is decided about  *)
(* a tier when its gather() returns still holds when the workflow closes.  *)
(***************************************************************************)
EXTENDS AgentOrchestrator, FiniteSetTheorems, SequenceTheorems, TLAPS

Live == {"spawned", "working", "reported", "stopping"}
Before == {"idle", "decomposing"}

(* Who may be among the instances, and how many.                           *)
SlotInv ==
  /\ IsFiniteSet(instances)
  /\ \A t \in instances : agent[t] \in Live
  /\ LimitHolds
  /\ \A t \in Tasks \ Overriding :
       agent[t] = "starting" => Cardinality(instances) < MaxAgents

(* The tiers of run r.                                                     *)
TierInv(r) ==
  /\ run[r] \in Before =>
       reached[r] = {} /\ status[r] = "none" /\ \A i \in Items : agent[<<r, i>>] = "none"
  /\ run[r] = "tiers" => Sortable(plan[r])
  /\ run[r] = "returned" => Gathered(r)
  /\ \A i \in Items : agent[<<r, i>>] # "none" => i \in reached[r]
  /\ \A i \in reached[r] : agent[<<r, i>>] = "none" => task[<<r, i>>] = "failed"

IInv ==
  /\ TypeOK
  /\ SlotInv
  /\ RegisteredWhileRunning
  /\ \A r \in Runs : TierInv(r)
  /\ TasksInOrder
  /\ VerdictTrue

-----------------------------------------------------------------------------
(* A plan gives tasks of the run tasks of the run to depend on.            *)
LEMMA PlanTypes ==
  ASSUME NEW r \in Runs, NEW d \in Plans[r] \cup {<<>>}
  PROVE  DOMAIN d \subseteq Items /\ \A i \in DOMAIN d : d[i] \subseteq Items
<1>1. CASE d \in Plans[r]
  <2>1. Plans[r] \subseteq UNION {[e -> SUBSET Items] : e \in SUBSET Items}
    BY OrchestratorConstants
  <2> QED BY <1>1, <2>1
<1>2. CASE d = <<>>
  <2>1. DOMAIN d = {}
    BY <1>2
  <2> QED BY <2>1
<1> QED BY <1>1, <1>2

(* What an agent's own step leaves alone.                                  *)
LEMMA AgentActs ==
  ASSUME TypeOK, NEW t \in Tasks, Execute(t) \/ Delegate(t)
  PROVE  /\ agent[t] \notin {"none", "done", "raised"}
         /\ agent' \in [Tasks -> {"none", "queued", "starting", "spawned", "working",
                                  "reported", "stopping", "done", "raised"}]
         /\ task' \in [Tasks -> {"pending", "running", "completed", "failed"}]
         /\ agent'[t] # "none"
         /\ \A u \in Tasks \ {t} : agent'[u] = agent[u] /\ task'[u] = task[u]
         /\ UNCHANGED <<run, workflowVars, killVars, handling>>
<1> USE DEF TypeOK
<1>1. CASE Refuse(t) \/ StartFails(t)
  BY <1>1 DEF Refuse, StartFails, busVars
<1>6. CASE Spawn(t)
  BY <1>6 DEF Spawn, busVars
<1>2. CASE Spawned(t) \/ Assign(t) \/ Delegate(t)
  BY <1>2 DEF Spawned, Assign, Delegate, agentVars, busVars
<1>3. CASE Report(t)
  BY <1>3 DEF Report, busVars
<1>4. CASE Stop(t)
  BY <1>4 DEF Stop, busVars
<1>5. CASE Stopped(t)
  BY <1>5 DEF Stopped, busVars
<1> QED BY <1>1, <1>2, <1>3, <1>4, <1>5, <1>6 DEF Execute

(* What the kills leave alone.                                             *)
LEMMA KillsAct ==
  ASSUME TypeOK, SoftKill \/ (\E t \in Tasks : StopNext(t)) \/ StopEnds \/ KillWorkflows \/ HardKill
  PROVE  /\ UNCHANGED <<run, plan, depth, reached, level, task, assigned, agent, busVars>>
         /\ instances' \subseteq instances
         /\ killer' \in {"none", "stop_all", "workflows", "soft", "over"}
         /\ toStop' \subseteq Tasks /\ stopping' \in Tasks \cup {None} /\ hard' \in BOOLEAN
         /\ \/ UNCHANGED <<status, active>>
            \/ /\ status' = [r \in Runs |-> IF r \in active THEN "cancelled" ELSE status[r]]
               /\ active' = {}
<1> USE DEF TypeOK
<1>1. CASE SoftKill \/ StopEnds \/ HardKill
  BY <1>1 DEF SoftKill, StopEnds, HardKill, workflowVars, agentVars
<1>2. CASE \E t \in Tasks : StopNext(t)
  BY <1>2 DEF StopNext, workflowVars, agentVars
<1>3. CASE KillWorkflows
  BY <1>3 DEF KillWorkflows, Cancel
<1> QED BY <1>1, <1>2, <1>3

(* The other steps: of a run and of the dispatcher.                        *)
RunSteps(r) ==
  \/ Start(r)
  \/ Run(r)
  \/ HandleDelegation(r)
KillSteps ==
  SoftKill \/ (\E t \in Tasks : StopNext(t)) \/ StopEnds \/ KillWorkflows \/ HardKill

LEMMA Steps ==
  ASSUME [Next]_vars
  PROVE  \/ \E r \in Runs : RunSteps(r)
         \/ \E t \in Tasks : Execute(t) \/ Delegate(t)
         \/ KillSteps
         \/ RejectDelegation
         \/ UNCHANGED vars
BY DEF Next, Dispatch, Callbacks, RunSteps, KillSteps

-----------------------------------------------------------------------------
(* Types are kept by every step.                                           *)
LEMMA TypesKept == TypeOK /\ [Next]_vars => TypeOK'
<1> SUFFICES ASSUME TypeOK, [Next]_vars PROVE TypeOK'
  OBVIOUS
<1> USE DEF TypeOK
<1>1. ASSUME NEW r \in Runs, Start(r) PROVE TypeOK'
  BY <1>1 DEF Start, workflowVars, agentVars, busVars, killVars
<1>2. ASSUME NEW r \in Runs, NEW d \in Plans[r], Decomposed(r, d) PROVE TypeOK'
  BY <1>2 DEF Decomposed, Leave, agentVars, killVars
<1>3. ASSUME NEW r \in Runs, BeginTier(r) PROVE TypeOK'
  <2>1. Tier(r) \subseteq Items
    BY PlanTypes DEF Tier
  <2>2. reached' \in [Runs -> SUBSET Items]
    BY <1>3, <2>1 DEF BeginTier
  <2>3. task' \in [Tasks -> {"pending", "running", "completed", "failed"}]
    BY <1>3 DEF BeginTier
  <2>4. agent' \in [Tasks -> {"none", "queued", "starting", "spawned", "working",
                              "reported", "stopping", "done", "raised"}]
    BY <1>3 DEF BeginTier
  <2> QED BY <1>3, <2>2, <2>3, <2>4 DEF BeginTier, busVars, killVars
<1>4. ASSUME NEW r \in Runs, Finish(r) \/ Raise(r) PROVE TypeOK'
  <2>1. CASE Finish(r)
    BY <2>1 DEF Finish, Leave, workflowVars, agentVars, killVars
  <2>2. CASE Raise(r)
    BY <2>2 DEF Raise, Leave, workflowVars, agentVars, killVars
  <2> QED
    BY <1>4, <2>1, <2>2
<1>5. ASSUME NEW t \in Tasks, Execute(t) \/ Delegate(t) PROVE TypeOK'
  <2>1. delegated' = delegated \/ delegated' = Append(delegated, t)
    BY <1>5 DEF Execute, Refuse, Spawn, StartFails, Spawned, Assign, Delegate, Report,
                Stop, Stopped, busVars
  <2>2. assigned' \subseteq Tasks
    BY <1>5 DEF Execute, Refuse, Spawn, StartFails, Spawned, Assign, Delegate, Report,
                Stop, Stopped, agentVars
  <2>3. instances' \subseteq Tasks
    BY <1>5 DEF Execute, Refuse, Spawn, StartFails, Spawned, Assign, Delegate, Report,
                Stop, Stopped, agentVars
  <2>4. delegated' \in Seq(Tasks)
    <3>1. delegated \in Seq(Tasks) /\ t \in Tasks
      BY <1>5
    <3>2. Append(delegated, t) \in Seq(Tasks)
      BY <3>1, AppendProperties
    <3> QED BY <2>1, <3>1, <3>2
  <2> QED BY <1>5, <2>2, <2>3, <2>4, AgentActs DEF workflowVars, killVars
<1>6. ASSUME NEW r \in Runs, HandleDelegation(r) PROVE TypeOK'
  <2>1. delegated' \in Seq(Tasks) /\ Head(delegated) \in Tasks /\ Head(delegated)[1] \in Runs
    BY <1>6 DEF HandleDelegation, Tasks
  <2>2. DepthOf(Head(delegated)) \in 0 .. MaxDepth - 1
    BY <2>1, OrchestratorConstants DEF DepthOf
  <2>3. DepthOf(Head(delegated)) + 1 \in 0 .. MaxDepth - 1
    <3>1. PICK x \in 0 .. MaxDepth - 1 : x = DepthOf(Head(delegated))
      BY <2>2
    <3>2. x + 1 < MaxDepth
      BY <1>6, <3>1 DEF HandleDelegation
    <3> QED
      BY <3>1, <3>2, OrchestratorConstants
  <2>4. depth' \in [Runs -> 0 .. MaxDepth - 1] /\ level' \in [Runs -> Nat]
    BY <1>6, <2>1, <2>3 DEF HandleDelegation
  <2> QED BY <1>6, <2>1, <2>4 DEF HandleDelegation, agentVars, killVars
<1>7. CASE RejectDelegation
  <2>1. delegated' \in Seq(Tasks)
    BY <1>7 DEF RejectDelegation
  <2> QED BY <1>7, <2>1 DEF RejectDelegation, workflowVars, agentVars, killVars
<1>8. CASE KillSteps
  <2>1. status' \in [Runs -> {"none", "running", "completed", "failed", "cancelled"}]
        /\ active' \subseteq Runs
    BY <1>8, KillsAct DEF KillSteps
  <2> QED BY <1>8, <2>1, KillsAct DEF KillSteps, busVars
<1>9. CASE UNCHANGED vars
  BY <1>9 DEF vars
<1> QED BY <1>1, <1>2, <1>3, <1>4, <1>5, <1>6, <1>7, <1>8, <1>9, Steps DEF RunSteps, Run

LEMMA TypesInit == Init => TypeOK
<1> SUFFICES ASSUME Init PROVE TypeOK
  OBVIOUS
<1>1. 0 \in 0 .. MaxDepth - 1
  BY OrchestratorConstants
<1>2. depth \in [Runs -> 0 .. MaxDepth - 1] /\ level \in [Runs -> Nat]
  BY <1>1 DEF Init
<1>3. delegated \in Seq(Tasks)
  BY DEF Init
<1> QED BY <1>2, <1>3 DEF Init, TypeOK

(* Every reachable state is well typed.                                    *)
THEOREM AgentTypes == Spec => []TypeOK
BY TypesInit, TypesKept, PTL DEF Spec

-----------------------------------------------------------------------------
(* A tier begins when no agent of the run is under way: only tasks without *)
(* an agent get one, and what was reached stays as it is.                  *)
LEMMA TierBegins ==
  ASSUME TypeOK, NEW r \in Runs, TierInv(r), BeginTier(r)
  PROVE  /\ run[r] = "tiers" /\ UNCHANGED <<run, status, plan, active, instances>>
         /\ Tier(r) \subseteq DOMAIN plan[r] \ reached[r] /\ Tier(r) \subseteq Items
         /\ reached'[r] = reached[r] \cup Tier(r)
         /\ \A q \in Runs \ {r} : reached'[q] = reached[q]
         /\ \A t \in Tasks \ Of(r, Tier(r)) : agent'[t] = agent[t] /\ task'[t] = task[t]
         /\ \A i \in reached[r] : agent[<<r, i>>] \in {"none", "done"}
         /\ \A i \in Tier(r) :
              /\ agent[<<r, i>>] = "none"
              /\ IF i \in Cascaded(r)
                 THEN agent'[<<r, i>>] = "none" /\ task'[<<r, i>>] = "failed"
                 ELSE agent'[<<r, i>>] = "queued" /\ task'[<<r, i>>] = task[<<r, i>>]
<1>1. Tier(r) \subseteq DOMAIN plan[r] \ reached[r] /\ Tier(r) \subseteq Items
  BY PlanTypes DEF TypeOK, Tier
<1>2. Cascaded(r) \subseteq Tier(r)
  BY DEF Cascaded
<1>3. \A t \in Tasks \ Of(r, Tier(r)) : agent'[t] = agent[t] /\ task'[t] = task[t]
  BY <1>2 DEF BeginTier, Of
<1>4. \A i \in Items : <<r, i>> \in Tasks /\ <<r, i>> \in Of(r, Items)
  BY DEF Tasks, Of
<1>5. \A i \in reached[r] : agent[<<r, i>>] \in {"none", "done"}
  BY <1>4 DEF BeginTier, Gathered, TypeOK
<1>6. ASSUME NEW i \in Tier(r)
      PROVE  /\ agent[<<r, i>>] = "none"
             /\ IF i \in Cascaded(r)
                THEN agent'[<<r, i>>] = "none" /\ task'[<<r, i>>] = "failed"
                ELSE agent'[<<r, i>>] = "queued" /\ task'[<<r, i>>] = task[<<r, i>>]
  <2>1. agent[<<r, i>>] = "none"
    BY <1>1 DEF TierInv
  <2>2. i \in Cascaded(r) <=> <<r, i>> \in Of(r, Cascaded(r))
    BY DEF Of
  <2>3. i \notin Cascaded(r) <=> <<r, i>> \in Of(r, Tier(r) \ Cascaded(r))
    BY DEF Of
  <2>4. <<r, i>> \in Tasks
    BY <1>1, <1>4
  <2> QED BY <2>1, <2>2, <2>3, <2>4 DEF BeginTier
<1> QED BY <1>1, <1>3, <1>5, <1>6 DEF BeginTier, TypeOK

(* Fewer instances keep the limit that more of them kept.                  *)
LEMMA FewerInstances ==
  ASSUME IsFiniteSet(instances), LimitHolds, instances' \subseteq instances
  PROVE  /\ IsFiniteSet(instances') /\ LimitHolds'
         /\ Cardinality(instances) < MaxAgents => Cardinality(instances') < MaxAgents
<1>1. /\ IsFiniteSet(instances') /\ Cardinality(instances') <= Cardinality(instances)
      /\ Cardinality(instances) \in Nat /\ Cardinality(instances') \in Nat
  BY FS_Subset, FS_CardinalityType
<1>2. IsFiniteSet(instances \ Overriding) /\ instances' \ Overriding \subseteq instances \ Overriding
  BY FS_Subset
<1>3. /\ Cardinality(instances' \ Overriding) <= Cardinality(instances \ Overriding)
      /\ Cardinality(instances \ Overriding) \in Nat
      /\ Cardinality(instances' \ Overriding) \in Nat
  BY <1>2, FS_Subset, FS_CardinalityType
<1> QED BY <1>1, <1>3, OrchestratorConstants DEF LimitHolds

(* The instances: who they are, and how many.                              *)
LEMMA SlotsKept ==
  TypeOK /\ SlotInv /\ (\A r \in Runs : TierInv(r)) /\ [Next]_vars => SlotInv'
<1> SUFFICES ASSUME TypeOK, SlotInv, \A r \in Runs : TierInv(r), [Next]_vars
             PROVE  SlotInv'
  OBVIOUS
<1>1. ASSUME instances' \subseteq instances,
             \A t \in Tasks : agent'[t] = "starting" => agent[t] = "starting",
             \A t \in instances' : agent'[t] \in Live
      PROVE  SlotInv'
  BY <1>1, FewerInstances DEF SlotInv
<1>2. ASSUME NEW r \in Runs, RunSteps(r) PROVE SlotInv'
  <2>1. CASE BeginTier(r)
    <3>1. \A t \in Tasks : t \in Of(r, Tier(r)) =>
            agent[t] = "none" /\ agent'[t] \in {"none", "queued"}
      BY <2>1, TierBegins DEF Of
    <3>2. \A t \in Tasks : agent'[t] = agent[t] \/ (agent[t] = "none" /\ agent'[t] \in {"none", "queued"})
      BY <2>1, <3>1, TierBegins
    <3>3. instances' = instances /\ instances \subseteq Tasks
      BY <2>1, TierBegins DEF TypeOK
    <3>4. \A t \in Tasks : agent'[t] = "starting" => agent[t] = "starting"
      BY <3>2
    <3>5. \A t \in instances : agent[t] # "none"
      BY DEF SlotInv, Live
    <3>6. \A t \in instances' : agent'[t] \in Live
      BY <3>2, <3>3, <3>5 DEF SlotInv
    <3> QED BY <1>1, <3>3, <3>4, <3>6
  <2>2. CASE ~BeginTier(r)
    <3>1. instances' = instances /\ agent' = agent
      BY <1>2, <2>2 DEF RunSteps, Start, Run, Decomposed, Finish, Raise,
                        HandleDelegation, agentVars
    <3> QED BY <1>1, <3>1 DEF SlotInv
  <2> QED BY <2>1, <2>2
<1>3. ASSUME NEW t \in Tasks, Execute(t) \/ Delegate(t) PROVE SlotInv'
  <2>0. (\A u \in Tasks \ {t} : agent'[u] = agent[u]) /\ instances \subseteq Tasks
    BY <1>3, AgentActs DEF TypeOK
  <2>1. CASE Refuse(t) \/ StartFails(t) \/ Delegate(t) \/ Report(t) \/ Assign(t) \/ Stop(t)
    <3>1. instances' = instances
      BY <2>1 DEF Refuse, StartFails, Delegate, Report, Assign, Stop, agentVars
    <3>2. agent'[t] # "starting" /\ (t \in instances => agent'[t] \in Live)
      BY <2>1 DEF Refuse, StartFails, Delegate, Report, Assign, Stop, agentVars, TypeOK,
                  SlotInv, Live
    <3> QED BY <1>1, <2>0, <3>1, <3>2 DEF SlotInv
  <2>2. CASE Spawn(t)
    <3>1. instances' = instances /\ t \notin instances
      BY <2>2 DEF Spawn, SlotInv, Live
    <3>2. Cardinality(instances) < MaxAgents
      BY <2>2 DEF Spawn, BelowLimit
    <3>3. \A u \in instances' : agent'[u] \in Live
      BY <2>0, <3>1 DEF SlotInv
    <3> QED BY <3>1, <3>2, <3>3 DEF SlotInv, LimitHolds
  <2>3. CASE Spawned(t)
    <3>1. instances' = instances \cup {t} /\ agent[t] = "starting" /\ agent'[t] = "spawned"
      BY <2>3 DEF Spawned, TypeOK
    <3>2. t \notin instances
      BY <3>1 DEF SlotInv, Live
    <3>3. IsFiniteSet(instances') /\ Cardinality(instances') = Cardinality(instances) + 1
      BY <3>1, <3>2, FS_AddElement DEF SlotInv
    <3>4. Cardinality(instances) \in Nat
      BY FS_CardinalityType DEF SlotInv
    <3>5. \A u \in Tasks \ Overriding : agent'[u] # "starting"
      BY <2>0, <2>3, <3>1 DEF Spawned, MayRun, Midway
    <3>6. LimitHolds'
      <4>1. CASE t \in Overriding
        <5>1. instances' \ Overriding = instances \ Overriding
          BY <3>1, <4>1
        <5> QED BY <5>1 DEF SlotInv, LimitHolds
      <4>2. CASE t \notin Overriding
        <5>1. Cardinality(instances) < MaxAgents
          BY <3>1, <4>2 DEF SlotInv
        <5>2. Cardinality(instances' \ Overriding) <= Cardinality(instances')
              /\ IsFiniteSet(instances' \ Overriding)
          BY <3>3, FS_Subset
        <5>3. Cardinality(instances' \ Overriding) \in Nat
          BY <5>2, FS_CardinalityType
        <5> QED BY <3>3, <3>4, <5>1, <5>2, <5>3, OrchestratorConstants DEF LimitHolds
      <4> QED BY <4>1, <4>2
    <3>7. \A u \in instances' : agent'[u] \in Live
      BY <2>0, <3>1 DEF SlotInv, Live
    <3> QED BY <3>3, <3>5, <3>6, <3>7 DEF SlotInv
  <2>4. CASE Stopped(t)
    <3>1. instances' = instances \ {t} /\ agent'[t] # "starting"
      BY <2>4 DEF Stopped, TypeOK
    <3>2. \A u \in instances' : agent'[u] \in Live
      BY <2>0, <3>1 DEF SlotInv
    <3> QED BY <1>1, <2>0, <3>1, <3>2
  <2> QED BY <1>3, <2>1, <2>2, <2>3, <2>4 DEF Execute
<1>4. CASE KillSteps
  <2>1. instances' \subseteq instances /\ agent' = agent
    BY <1>4, KillsAct DEF KillSteps
  <2> QED BY <1>1, <2>1 DEF SlotInv
<1>5. CASE RejectDelegation \/ UNCHANGED vars
  <2>1. instances' = instances /\ agent' = agent
    BY <1>5 DEF RejectDelegation, vars, agentVars
  <2> QED BY <1>1, <2>1 DEF SlotInv
<1> QED BY <1>2, <1>3, <1>4, <1>5, Steps

-----------------------------------------------------------------------------
(* The registry of workflows follows their status.                         *)
LEMMA RegistryKept ==
  TypeOK /\ RegisteredWhileRunning /\ [Next]_vars => RegisteredWhileRunning'
<1> SUFFICES ASSUME TypeOK, RegisteredWhileRunning, [Next]_vars
             PROVE  RegisteredWhileRunning'
  OBVIOUS
<1> USE DEF RegisteredWhileRunning
<1>1. ASSUME UNCHANGED <<status, active>> PROVE RegisteredWhileRunning'
  BY <1>1
<1>2. ASSUME NEW r \in Runs, RunSteps(r) PROVE RegisteredWhileRunning'
  <2>1. CASE Start(r) \/ BeginTier(r) \/ Raise(r) \/ HandleDelegation(r)
    BY <1>1, <2>1 DEF Start, BeginTier, Raise, HandleDelegation, workflowVars
  <2>2. ASSUME NEW d \in Plans[r], Decomposed(r, d) PROVE RegisteredWhileRunning'
    BY <2>2 DEF Decomposed, TypeOK
  <2>3. CASE Finish(r)
    BY <2>3 DEF Finish, TypeOK
  <2> QED BY <1>2, <2>1, <2>2, <2>3 DEF RunSteps, Run
<1>3. ASSUME NEW t \in Tasks, Execute(t) \/ Delegate(t) PROVE RegisteredWhileRunning'
  BY <1>1, <1>3, AgentActs DEF workflowVars
<1>4. CASE KillSteps
  BY <1>1, <1>4, KillsAct DEF KillSteps
<1>5. CASE RejectDelegation \/ UNCHANGED vars
  BY <1>1, <1>5 DEF RejectDelegation, vars, workflowVars
<1> QED BY <1>2, <1>3, <1>4, <1>5, Steps

(* The tiers of each run.                                                  *)
LEMMA TiersKept ==
  TypeOK /\ RegisteredWhileRunning /\ (\A r \in Runs : TierInv(r)) /\ [Next]_vars
    => \A r \in Runs : TierInv(r)'
<1> SUFFICES ASSUME TypeOK, RegisteredWhileRunning, \A r \in Runs : TierInv(r),
                    [Next]_vars, NEW q \in Runs
             PROVE  TierInv(q)'
  OBVIOUS
<1>0. \A i \in Items : <<q, i>> \in Tasks
  BY DEF Tasks
<1>1. ASSUME \A i \in Items : agent'[<<q, i>>] = agent[<<q, i>>] /\ task'[<<q, i>>] = task[<<q, i>>],
             run'[q] = run[q], plan'[q] = plan[q], reached'[q] = reached[q],
             status'[q] = status[q] \/ run[q] \notin Before
      PROVE  TierInv(q)'
  <2>1. Gathered(q) => Gathered(q)'
    BY <1>1 DEF Gathered, Of
  <2>2. Sortable(plan[q]) = Sortable(plan'[q])
    BY <1>1
  <2>3. run'[q] \in Before =>
          /\ reached'[q] = {} /\ status'[q] = "none"
          /\ \A i \in Items : agent'[<<q, i>>] = "none"
    BY <1>1 DEF TierInv
  <2>4. /\ \A i \in Items : agent'[<<q, i>>] # "none" => i \in reached'[q]
        /\ \A i \in reached'[q] : agent'[<<q, i>>] = "none" => task'[<<q, i>>] = "failed"
    <3>1. reached[q] \subseteq Items
      BY DEF TypeOK
    <3> QED BY <1>1, <3>1 DEF TierInv
  <2>5. /\ run'[q] = "tiers" => Sortable(plan'[q])
        /\ run'[q] = "returned" => Gathered(q)'
    BY <1>1, <2>1, <2>2 DEF TierInv
  <2> QED BY <2>3, <2>4, <2>5 DEF TierInv
<1>2. ASSUME NEW r \in Runs, RunSteps(r) PROVE TierInv(q)'
  <2>1. CASE Start(r) \/ HandleDelegation(r)
    <3>1. UNCHANGED <<agent, task, plan, reached, status>>
      BY <2>1 DEF Start, HandleDelegation, workflowVars, agentVars
    <3>2. q # r => run'[q] = run[q]
      BY <2>1 DEF Start, HandleDelegation, TypeOK
    <3>3. q = r => run[q] \in Before /\ run'[q] \in Before
      BY <2>1 DEF Start, HandleDelegation, TypeOK, Before
    <3>4. CASE q = r
      BY <3>1, <3>3, <3>4 DEF TierInv, Before
    <3> QED BY <1>1, <3>1, <3>2, <3>4
  <2>2. ASSUME NEW d \in Plans[r], Decomposed(r, d) PROVE TierInv(q)'
    <3>1. UNCHANGED <<agent, task, reached>>
      BY <2>2 DEF Decomposed, agentVars
    <3>2. CASE q = r
      <4>1. run[q] \in Before /\ run'[q] = (IF Sortable(d) THEN "tiers" ELSE "raised")
            /\ plan'[q] = d
        <5>1. run[r] = "decomposing" /\ r \in Runs
          BY <2>2 DEF Decomposed
        <5>2. run'[r] = (IF Sortable(d) THEN "tiers" ELSE "raised")
          BY <2>2 DEF Decomposed, TypeOK
        <5>3. plan'[r] = d
          BY <2>2 DEF Decomposed, TypeOK
        <5> QED BY <3>2, <5>1, <5>2, <5>3 DEF Before
      <4> QED BY <3>1, <4>1 DEF TierInv, Before
    <3>3. CASE q # r
      <4>1. run'[q] = run[q] /\ plan'[q] = plan[q] /\ status'[q] = status[q]
        BY <2>2, <3>3 DEF Decomposed, TypeOK
      <4> QED BY <1>1, <3>1, <4>1
    <3> QED BY <3>2, <3>3
  <2>3. CASE BeginTier(r)
    <3>1. CASE q = r
      <4>1. \A i \in reached[q] : agent'[<<q, i>>] = agent[<<q, i>>] /\ task'[<<q, i>>] = task[<<q, i>>]
        BY <2>3, <3>1, <1>0, TierBegins DEF Of, TypeOK
      <4>2. \A i \in Items : agent'[<<q, i>>] # "none" => i \in reached'[q]
        BY <2>3, <3>1, <1>0, TierBegins DEF Of, TierInv
      <4>3. \A i \in reached'[q] : agent'[<<q, i>>] = "none" => task'[<<q, i>>] = "failed"
        BY <2>3, <3>1, <4>1, TierBegins DEF TierInv
      <4> QED BY <2>3, <3>1, <4>2, <4>3, TierBegins DEF TierInv, Before
    <3>2. CASE q # r
      <4>1. \A i \in Items : agent'[<<q, i>>] = agent[<<q, i>>] /\ task'[<<q, i>>] = task[<<q, i>>]
        BY <2>3, <3>2, <1>0, TierBegins DEF Of
      <4> QED BY <1>1, <2>3, <3>2, <4>1, TierBegins
    <3> QED BY <3>1, <3>2
  <2>4. CASE Finish(r)
    BY <2>4 DEF Finish, TierInv, TypeOK, agentVars, Gathered, Of, Before
  <2>5. CASE Raise(r)
    BY <2>5 DEF Raise, TierInv, TypeOK, workflowVars, agentVars, Gathered, Of, Before
  <2> QED BY <1>2, <2>1, <2>2, <2>3, <2>4, <2>5 DEF RunSteps, Run
<1>3. ASSUME NEW t \in Tasks, Execute(t) \/ Delegate(t) PROVE TierInv(q)'
  <2>1. agent[t] \notin {"none", "done", "raised"} /\ agent'[t] # "none"
        /\ (\A u \in Tasks \ {t} : agent'[u] = agent[u] /\ task'[u] = task[u])
        /\ UNCHANGED <<run, status, plan, reached>>
    BY <1>3, AgentActs DEF workflowVars
  <2>2. \A u \in Tasks : agent[u] = "none" <=> agent'[u] = "none"
    BY <2>1
  <2>3. \A u \in Tasks : agent'[u] = "none" => task'[u] = task[u]
    BY <2>1
  <2>4. Gathered(q) => Gathered(q)'
    BY <2>1, <1>0 DEF Gathered, Of
  <2>5. Sortable(plan[q]) = Sortable(plan'[q])
    BY <2>1
  <2> QED BY <2>1, <2>2, <2>3, <2>4, <2>5, <1>0 DEF TierInv, TypeOK
<1>4. CASE KillSteps
  <2>1. /\ UNCHANGED <<run, plan, reached, task, agent>>
        /\ \/ status' = status
           \/ status'[q] = IF q \in active THEN "cancelled" ELSE status[q]
    BY <1>4, KillsAct DEF KillSteps
  <2>2. run[q] \in Before => q \notin active
    BY DEF TierInv, RegisteredWhileRunning
  <2> QED BY <1>1, <2>1, <2>2
<1>5. CASE RejectDelegation \/ UNCHANGED vars
  BY <1>1, <1>5 DEF RejectDelegation, vars, workflowVars, agentVars
<1> QED BY <1>2, <1>3, <1>4, <1>5, Steps

-----------------------------------------------------------------------------
(* A finished agent is not touched any more, by anyone.                    *)
LEMMA DoneStays ==
  ASSUME TypeOK, \A r \in Runs : TierInv(r), [Next]_vars,
         NEW t \in Tasks, agent[t] = "done"
  PROVE  agent'[t] = "done" /\ task'[t] = task[t]
<1>1. ASSUME NEW r \in Runs, RunSteps(r) PROVE agent'[t] = "done" /\ task'[t] = task[t]
  <2>1. CASE BeginTier(r)
    <3>1. t \notin Of(r, Tier(r))
      BY <2>1, TierBegins DEF Of
    <3> QED BY <2>1, <3>1, TierBegins
  <2>2. CASE ~BeginTier(r)
    BY <1>1, <2>2 DEF RunSteps, Start, Run, Decomposed, Finish, Raise,
                      HandleDelegation, agentVars
  <2> QED BY <2>1, <2>2
<1>2. ASSUME NEW u \in Tasks, Execute(u) \/ Delegate(u)
      PROVE  agent'[t] = "done" /\ task'[t] = task[t]
  BY <1>2, AgentActs
<1>3. CASE KillSteps
  BY <1>3, KillsAct DEF KillSteps
<1>4. CASE RejectDelegation \/ UNCHANGED vars
  BY <1>4 DEF RejectDelegation, vars, agentVars
<1> QED BY <1>1, <1>2, <1>3, <1>4, Steps

(* A plan is made once, before any agent; an agent is made by BeginTier.   *)
LEMMA PlanStays ==
  ASSUME TypeOK, \A r \in Runs : TierInv(r), [Next]_vars, NEW r \in Runs, NEW i \in Items,
         agent'[<<r, i>>] # "none"
  PROVE  /\ plan'[r] = plan[r]
         /\ agent[<<r, i>>] # "none" \/ (BeginTier(r) /\ i \in Tier(r) \ Cascaded(r))
<1>0. <<r, i>> \in Tasks
  BY DEF Tasks
<1>1. ASSUME NEW q \in Runs, RunSteps(q)
      PROVE  /\ plan'[r] = plan[r]
             /\ agent[<<r, i>>] # "none" \/ (BeginTier(r) /\ i \in Tier(r) \ Cascaded(r))
  <2>1. CASE Start(q) \/ Finish(q) \/ Raise(q) \/ HandleDelegation(q)
    BY <2>1 DEF Start, Finish, Raise, HandleDelegation, workflowVars, agentVars
  <2>2. ASSUME NEW d \in Plans[q], Decomposed(q, d)
        PROVE  plan'[r] = plan[r] /\ agent[<<r, i>>] # "none"
    <3>1. agent' = agent /\ run[q] = "decomposing"
      BY <2>2 DEF Decomposed, agentVars
    <3>2. q # r
      BY <3>1 DEF TierInv, Before
    <3> QED BY <2>2, <3>1, <3>2 DEF Decomposed, TypeOK
  <2>3. CASE BeginTier(q)
    BY <1>0, <2>3, TierBegins DEF Of
  <2> QED BY <1>1, <2>1, <2>2, <2>3 DEF RunSteps, Run
<1>2. ASSUME NEW u \in Tasks, Execute(u) \/ Delegate(u)
      PROVE  plan'[r] = plan[r] /\ agent[<<r, i>>] # "none"
  BY <1>0, <1>2, AgentActs DEF workflowVars
<1>3. CASE KillSteps
  BY <1>3, KillsAct DEF KillSteps
<1>4. CASE RejectDelegation \/ UNCHANGED vars
  BY <1>4 DEF RejectDelegation, vars, workflowVars, agentVars
<1> QED BY <1>1, <1>2, <1>3, <1>4, Steps

LEMMA OrderKept ==
  TypeOK /\ (\A r \in Runs : TierInv(r)) /\ TasksInOrder /\ [Next]_vars => TasksInOrder'
<1> SUFFICES ASSUME TypeOK, \A r \in Runs : TierInv(r), TasksInOrder, [Next]_vars,
                    NEW r \in Runs, NEW i \in DOMAIN plan'[r], NEW j \in plan'[r][i],
                    agent'[<<r, i>>] # "none"
             PROVE  agent'[<<r, j>>] = "done" /\ task'[<<r, j>>] # "failed"
  BY DEF TasksInOrder
<1>1. i \in Items /\ j \in Items /\ <<r, j>> \in Tasks
  <2>1. plan'[r] \in Plans[r] \cup {<<>>}
    BY TypesKept DEF TypeOK
  <2> QED BY <2>1, PlanTypes DEF Tasks
<1>2. plan'[r] = plan[r]
  BY <1>1, PlanStays
<1>3. agent[<<r, j>>] = "done" /\ task[<<r, j>>] # "failed"
  <2>1. CASE agent[<<r, i>>] # "none"
    BY <1>2, <2>1 DEF TasksInOrder
  <2>2. CASE BeginTier(r) /\ i \in Tier(r) \ Cascaded(r)
    <3>1. j \in reached[r] /\ task[<<r, j>>] # "failed"
      BY <1>2, <2>2 DEF Tier, Cascaded
    <3>2. agent[<<r, j>>] \in {"none", "done"}
      BY <2>2, <3>1, TierBegins
    <3> QED BY <3>1, <3>2 DEF TierInv
  <2> QED BY <1>1, <2>1, <2>2, PlanStays
<1> QED BY <1>1, <1>3, DoneStays

(* When a workflow closes, every task of its plan has been reached.        *)
LEMMA AllReached ==
  ASSUME TypeOK, NEW r \in Runs, Sortable(plan[r]), Tier(r) = {}
  PROVE  DOMAIN plan[r] \subseteq reached[r]
<1> SUFFICES ASSUME DOMAIN plan[r] \ reached[r] # {} PROVE FALSE
  OBVIOUS
<1>1. PICK i \in DOMAIN plan[r] \ reached[r] : plan[r][i] \cap (DOMAIN plan[r] \ reached[r]) = {}
  BY DEF Sortable
<1>2. plan[r][i] \subseteq DOMAIN plan[r]
  BY <1>1 DEF Sortable
<1> QED BY <1>1, <1>2 DEF Tier

LEMMA VerdictKept ==
  TypeOK /\ (\A r \in Runs : TierInv(r)) /\ VerdictTrue /\ [Next]_vars => VerdictTrue'
<1> SUFFICES ASSUME TypeOK, \A r \in Runs : TierInv(r), VerdictTrue, [Next]_vars,
                    NEW r \in Runs, run'[r] = "returned", status'[r] = "completed",
                    NEW i \in DOMAIN plan'[r]
             PROVE  task'[<<r, i>>] # "failed" /\ agent'[<<r, i>>] = "done"
  BY DEF VerdictTrue
<1>1. ASSUME plan'[r] = plan[r], task[<<r, i>>] # "failed", agent[<<r, i>>] = "done"
      PROVE  task'[<<r, i>>] # "failed" /\ agent'[<<r, i>>] = "done"
  <2>1. i \in Items
    BY <1>1, PlanTypes DEF TypeOK
  <2>2. <<r, i>> \in Tasks
    BY <2>1 DEF Tasks
  <2> QED BY <1>1, <2>2, DoneStays
<1>2. ASSUME plan'[r] = plan[r], run[r] = "returned", status[r] = "completed"
      PROVE  task'[<<r, i>>] # "failed" /\ agent'[<<r, i>>] = "done"
  BY <1>1, <1>2 DEF VerdictTrue
<1>3. ASSUME NEW q \in Runs, RunSteps(q)
      PROVE  task'[<<r, i>>] # "failed" /\ agent'[<<r, i>>] = "done"
  <2>1. CASE Finish(q) /\ q = r
    <3>1. /\ Gathered(r) /\ Tier(r) = {} /\ plan' = plan /\ run[r] = "tiers"
          /\ ~\E k \in DOMAIN plan[r] : task[<<r, k>>] = "failed"
      BY <2>1 DEF Finish, TypeOK
    <3>2. i \in reached[r] /\ i \in Items
      BY <3>1, AllReached, PlanTypes DEF TierInv, TypeOK
    <3>3. agent[<<r, i>>] \in {"none", "done"}
      BY <3>1, <3>2 DEF Gathered, Of
    <3>4. agent[<<r, i>>] = "done"
      BY <3>1, <3>2, <3>3 DEF TierInv
    <3> QED BY <1>1, <3>1, <3>4
  <2>2. CASE Finish(q) /\ q # r
    BY <1>2, <2>2 DEF Finish, TypeOK
  <2>3. CASE Start(q) \/ BeginTier(q) \/ Raise(q) \/ HandleDelegation(q)
    BY <1>2, <2>3 DEF Start, BeginTier, Raise, HandleDelegation, workflowVars, TypeOK
  <2>4. ASSUME NEW d \in Plans[q], Decomposed(q, d)
        PROVE  task'[<<r, i>>] # "failed" /\ agent'[<<r, i>>] = "done"
    <3>1. q # r
      BY <2>4 DEF Decomposed, TypeOK
    <3> QED BY <1>2, <2>4, <3>1 DEF Decomposed, TypeOK
  <2> QED BY <1>3, <2>1, <2>2, <2>3, <2>4 DEF RunSteps, Run
<1>4. ASSUME NEW t \in Tasks, Execute(t) \/ Delegate(t)
      PROVE  task'[<<r, i>>] # "failed" /\ agent'[<<r, i>>] = "done"
  BY <1>2, <1>4, AgentActs DEF workflowVars
<1>5. CASE KillSteps
  <2>1. status'[r] = status[r]
    BY <1>5, KillsAct DEF KillSteps
  <2> QED BY <1>2, <1>5, <2>1, KillsAct DEF KillSteps
<1>6. CASE RejectDelegation \/ UNCHANGED vars
  BY <1>2, <1>6 DEF RejectDelegation, vars, workflowVars
<1> QED BY <1>3, <1>4, <1>5, <1>6, Steps

-----------------------------------------------------------------------------
LEMMA Inductive == Spec => []IInv
<1>1. Init => IInv
  <2> SUFFICES ASSUME Init PROVE IInv
    OBVIOUS
  <2>1. TypeOK
    BY TypesInit
  <2>2. SlotInv
    <3>1. instances \ Overriding = {} /\ Cardinality({}) <= MaxAgents
      BY FS_EmptySet, OrchestratorConstants DEF Init
    <3> QED BY <3>1, FS_EmptySet DEF Init, SlotInv, LimitHolds
  <2>3. \A r \in Runs : TierInv(r)
    BY DEF Init, TierInv, Tasks
  <2>4. RegisteredWhileRunning /\ VerdictTrue
    BY DEF Init, RegisteredWhileRunning, VerdictTrue
  <2>5. TasksInOrder
    BY DEF Init, TasksInOrder
  <2> QED BY <2>1, <2>2, <2>3, <2>4, <2>5 DEF IInv
<1>2. IInv /\ [Next]_vars => IInv'
  BY TypesKept, SlotsKept, RegistryKept, TiersKept, OrderKept, VerdictKept DEF IInv
<1> QED BY <1>1, <1>2, PTL DEF Spec

(* Agents whose on_start() does not suspend never exceed the limit, for    *)
(* spawn() checks it and adds them without a pause.                        *)
THEOREM AgentLimit == Spec => []LimitHolds
<1>1. IInv => LimitHolds
  BY DEF IInv, SlotInv
<1> QED BY <1>1, Inductive, PTL

(* A task is run after all it depends on, and not if one of them failed,   *)
(* whatever kills happen meanwhile.                                        *)
THEOREM TasksRunInOrder == Spec => []TasksInOrder
<1>1. IInv => TasksInOrder
  BY DEF IInv
<1> QED BY <1>1, Inductive, PTL

(* A workflow is registered exactly while its status is "running".         *)
THEOREM WorkflowsRegistered == Spec => []RegisteredWhileRunning
<1>1. IInv => RegisteredWhileRunning
  BY DEF IInv
<1> QED BY <1>1, Inductive, PTL

(* When run_workflow() returned, no agent of the workflow is left.         *)
THEOREM NoAgentLeft == Spec => []AgentsReleased
<1>1. IInv => AgentsReleased
  <2> SUFFICES ASSUME IInv, NEW r \in Runs, run[r] = "returned",
                      NEW t \in instances \cap Of(r, Items)
               PROVE  FALSE
    BY DEF AgentsReleased
  <2>1. agent[t] \in Live
    BY DEF IInv, SlotInv
  <2>2. agent[t] \in {"none", "done"}
    BY DEF IInv, TierInv, Gathered
  <2> QED BY <2>1, <2>2 DEF Live
<1> QED BY <1>1, Inductive, PTL

(* A workflow completed only if each of its tasks was run and none failed. *)
THEOREM WorkflowVerdict == Spec => []VerdictTrue
<1>1. IInv => VerdictTrue
  BY DEF IInv
<1> QED BY <1>1, Inductive, PTL

-----------------------------------------------------------------------------
(* While an agent whose on_stop() does not suspend is being stopped by its *)
(* task, nobody else runs: so it is still there when it is deleted.        *)
StoppingInv ==
  \A t \in Tasks \ Overriding :
    /\ agent[t] = "stopping" => t \in instances
    /\ agent[t] # "raised"

LEMMA StoppedUndisturbed ==
  ASSUME NEW t \in Tasks \ Overriding, agent[t] = "stopping", NEW who, who # t
  PROVE  ~MayRun(who)
BY DEF MayRun, Midway

LEMMA StoppingKept == TypeOK /\ StoppingInv /\ [Next]_vars => StoppingInv'
<1> SUFFICES ASSUME TypeOK, StoppingInv, [Next]_vars, NEW t \in Tasks \ Overriding
             PROVE  (agent'[t] = "stopping" => t \in instances') /\ agent'[t] # "raised"
  BY DEF StoppingInv
<1>0. t # None /\ (agent[t] = "stopping" => t \in instances) /\ agent[t] # "raised"
  BY OrchestratorConstants DEF StoppingInv, Tasks
<1>1. ASSUME NEW r \in Runs, RunSteps(r)
      PROVE  instances' = instances /\ (agent'[t] = agent[t] \/ agent'[t] = "queued")
  <2>1. CASE Start(r) \/ Finish(r) \/ Raise(r) \/ HandleDelegation(r) \/ \E d \in Plans[r] : Decomposed(r, d)
    BY <2>1 DEF Start, Finish, Raise, HandleDelegation, Decomposed, agentVars
  <2>2. CASE BeginTier(r)
    BY <2>2 DEF BeginTier
  <2> QED BY <1>1, <2>1, <2>2 DEF RunSteps, Run
<1>2. ASSUME Execute(t) \/ Delegate(t)
      PROVE  (agent'[t] = "stopping" => t \in instances') /\ agent'[t] # "raised"
  <2>1. CASE Refuse(t) \/ Spawn(t) \/ StartFails(t)
    BY <2>1 DEF Refuse, Spawn, StartFails, TypeOK
  <2>2. CASE Spawned(t) \/ Assign(t) \/ Report(t)
    BY <2>2 DEF Spawned, Assign, Report, TypeOK
  <2>3. CASE Stop(t) \/ Stopped(t)
    BY <1>0, <2>3 DEF Stop, Stopped, TypeOK
  <2>4. CASE Delegate(t)
    BY <1>0, <2>4 DEF Delegate, agentVars
  <2> QED BY <1>2, <2>1, <2>2, <2>3, <2>4 DEF Execute
<1>3. ASSUME NEW u \in Tasks, u # t, Execute(u) \/ Delegate(u)
      PROVE  (agent'[t] = "stopping" => t \in instances') /\ agent'[t] # "raised"
  <2>1. agent'[t] = agent[t]
    BY <1>3, AgentActs
  <2>2. MayRun(u) /\ instances' \in {instances, instances \cup {u}, instances \ {u}}
    BY <1>3 DEF Execute, Refuse, Spawn, StartFails, Spawned, Assign, Report, Stop, Stopped,
       Delegate, agentVars
  <2> QED BY <1>0, <1>3, <2>1, <2>2
<1>4. CASE KillSteps
  <2>1. agent' = agent
    BY <1>4, KillsAct DEF KillSteps
  <2>2. MayRun(None)
    BY <1>4 DEF KillSteps, SoftKill, StopNext, StopEnds, KillWorkflows, HardKill,
       Undisturbed, MayRun
  <2>3. agent[t] # "stopping"
    BY <1>0, <2>2, StoppedUndisturbed
  <2> QED BY <1>0, <2>1, <2>3
<1>5. CASE RejectDelegation \/ UNCHANGED vars
  BY <1>0, <1>5 DEF RejectDelegation, vars, agentVars
<1> QED BY <1>0, <1>1, <1>2, <1>3, <1>4, <1>5, Steps

(* _execute_task() does not raise into gather(), whatever kills run beside *)
(* it, unless one of the agent's own hooks suspended or failed.            *)
THEOREM NothingRaised == Spec => []SafeForGather
<1>1. Init => StoppingInv
  BY DEF Init, StoppingInv
<1>2. StoppingInv => SafeForGather
  BY DEF StoppingInv, SafeForGather
<1> QED BY <1>1, <1>2, StoppingKept, AgentTypes, PTL DEF Spec
=============================================================================
