------------------------- MODULE AgentOrchestrator -------------------------
(***************************************************************************)
(* The multi-agent runtime: agents/orchestrator.py with the executor of    *)
(* agents/executor.py that spawns, stops and kills its agents.             *)
(*                                                                         *)
(* Each run of run_workflow() decomposes an instruction into tasks, runs   *)
(* them tier by tier, every task by an agent of its own, and closes.  Runs *)
(* are started by clients and by the handler of delegation events, which   *)
(* the event bus dispatches one at a time.  The kill switch stops or kills *)
(* agents and workflows meanwhile.                                         *)
(*                                                                         *)
(* BaseAgent's on_start() and on_stop() do nothing.  Where an agent        *)
(* overrides them they may suspend, and on_start() may fail.  The bus is   *)
(* not taken to be full, so that emit() does not suspend.                  *)
(***************************************************************************)
EXTENDS Integers, Sequences, FiniteSets

CONSTANTS
  Runs,        \* the calls of run_workflow()
  Clients,     \* those a client makes; the others are for delegations
  Items,       \* the tasks of each run
  Plans,       \* what decompose() may return in each run: the dependencies
               \* of some Items
  Delegating,  \* the agents that delegate; a bound
  MaxAgents,   \* max_concurrent_agents
  MaxDepth,    \* max_workflow_depth
  Overriding,  \* the agents that override on_start() and on_stop()
  None         \* no run, no agent

ASSUME OrchestratorConstants ==
  /\ Plans \in [Runs -> SUBSET UNION {[d -> SUBSET Items] : d \in SUBSET Items}]
  /\ Clients \subseteq Runs
  /\ Delegating \subseteq Runs \X Items
  /\ MaxAgents \in Nat \ {0}
  /\ MaxDepth \in Nat \ {0}
  /\ Overriding \subseteq Runs \X Items
  /\ None \notin Runs \cup (Runs \X Items)

Tasks == Runs \X Items  \* also the agents: each task has an agent of its own

VARIABLES
  run,        \* where each run is
  status,     \* WorkflowState.status
  plan,       \* WorkflowState.task_graph: the dependencies
  depth,      \* WorkflowState.depth
  active,     \* _active_workflows
  reached,    \* the tasks of the tiers begun
  task,       \* AgentTask.status
  assigned,   \* WorkflowState.agent_assignments
  agent,      \* where _execute_task() of each task is
  instances,  \* AgentExecutor._instances
  delegated,  \* delegation events in the bus, with the agent each is from
  handling,   \* the run that the handler of a delegation event is in
  killer,     \* where the soft-kill callbacks are
  toStop,     \* the agents stop_all() has left to stop
  stopping,   \* the agent it is stopping
  hard,       \* whether kill_all() ran, the hard-kill callback
  level       \* history: how many delegations led to each run

vars == <<run, status, plan, depth, active, reached, task, assigned, agent,
          instances, delegated, handling, killer, toStop,
          stopping, hard, level>>

workflowVars == <<status, plan, depth, active, reached, level>>
agentVars == <<task, assigned, agent, instances>>
busVars == <<delegated, handling>>
killVars == <<killer, toStop, stopping, hard>>

TypeOK ==
  /\ run \in [Runs -> {"idle", "decomposing", "tiers", "returned", "raised"}]
  /\ status \in [Runs -> {"none", "running", "completed", "failed", "cancelled"}]
  /\ DOMAIN plan = Runs /\ \A r \in Runs : plan[r] \in Plans[r] \cup {<<>>}
  /\ depth \in [Runs -> 0 .. MaxDepth - 1]
  /\ active \subseteq Runs
  /\ reached \in [Runs -> SUBSET Items]
  /\ task \in [Tasks -> {"pending", "running", "completed", "failed"}]
  /\ assigned \subseteq Tasks
  /\ agent \in [Tasks -> {"none", "queued", "starting", "spawned", "working",
                          "reported", "stopping", "done", "raised"}]
  /\ instances \subseteq Tasks
  /\ delegated \in Seq(Tasks)
  /\ handling \in Runs \cup {None}
  /\ killer \in {"none", "stop_all", "workflows", "soft", "over"}
  /\ toStop \subseteq Tasks
  /\ stopping \in Tasks \cup {None}
  /\ hard \in BOOLEAN
  /\ level \in [Runs -> Nat]

Init ==
  /\ run = [r \in Runs |-> "idle"]
  /\ status = [r \in Runs |-> "none"]
  /\ plan = [r \in Runs |-> <<>>]
  /\ depth = [r \in Runs |-> 0]
  /\ active = {}
  /\ reached = [r \in Runs |-> {}]
  /\ task = [t \in Tasks |-> "pending"]
  /\ assigned = {}
  /\ agent = [t \in Tasks |-> "none"]
  /\ instances = {}
  /\ delegated = <<>>
  /\ handling = None
  /\ killer = "none"
  /\ toStop = {}
  /\ stopping = None
  /\ hard = FALSE
  /\ level = [r \in Runs |-> 0]

-----------------------------------------------------------------------------
(* Who is at an await that does not suspend: nobody else runs there.       *)
Midway ==
  {t \in Tasks :
     \/ agent[t] \in {"spawned", "reported"}
     \/ agent[t] \in {"starting", "stopping"} /\ t \notin Overriding}
    \cup (IF killer = "workflows" \/ (killer = "stop_all" /\ stopping \notin Overriding)
          THEN {None} ELSE {})

MayRun(who) == Midway \subseteq {who}
Undisturbed == Midway = {}

-----------------------------------------------------------------------------
(* A client calls run_workflow().                                          *)
Start(r) ==
  /\ Undisturbed
  /\ r \in Clients
  /\ run[r] = "idle"
  /\ run' = [run EXCEPT ![r] = "decomposing"]
  /\ UNCHANGED <<workflowVars, agentVars, busVars, killVars>>

(* topological_sort_tasks() finds an order: see TopologicalSort.           *)
Sortable(d) ==
  /\ \A i \in DOMAIN d : d[i] \subseteq DOMAIN d
  /\ \A c \in (SUBSET DOMAIN d) \ {{}} : \E i \in c : d[i] \cap c = {}

(* If r is over, the handler of the delegation that led to it returns.     *)
Leave(r, over) ==
  /\ handling' = IF over /\ handling = r THEN None ELSE handling
  /\ UNCHANGED delegated

(* decompose() returned d, cut to max_tasks_per_workflow; run_workflow()   *)
(* raises if there is no order to run the tasks in.                        *)
Decomposed(r, d) ==
  /\ Undisturbed
  /\ run[r] = "decomposing"
  /\ run' = [run EXCEPT ![r] = IF Sortable(d) THEN "tiers" ELSE "raised"]
  /\ status' = [status EXCEPT ![r] = "running"]
  /\ plan' = [plan EXCEPT ![r] = d]
  /\ active' = active \cup {r}
  /\ Leave(r, ~Sortable(d))
  /\ UNCHANGED <<depth, reached, level, agentVars, killVars>>

Of(r, is) == {r} \X is
Gathered(r) == \A t \in Of(r, Items) : agent[t] \in {"none", "done"}
Tier(r) == {i \in DOMAIN plan[r] \ reached[r] : plan[r][i] \subseteq reached[r]}

Cascaded(r) ==
  {i \in Tier(r) : \E j \in plan[r][i] : task[<<r, j>>] = "failed"}

(* The next tier: the tasks with a failed dependency fail, a task of the   *)
(* event loop is made for each of the others.                              *)
BeginTier(r) ==
  /\ Undisturbed
  /\ run[r] = "tiers"
  /\ Gathered(r)
  /\ Tier(r) # {}
  /\ reached' = [reached EXCEPT ![r] = @ \cup Tier(r)]
  /\ task' = [t \in Tasks |->
       IF t \in Of(r, Cascaded(r)) THEN "failed" ELSE task[t]]
  /\ agent' = [t \in Tasks |->
       IF t \in Of(r, Tier(r) \ Cascaded(r)) THEN "queued" ELSE agent[t]]
  /\ UNCHANGED <<run, status, plan, depth, active, level, assigned, instances,
                 busVars, killVars>>

(* Slip: one completed task is enough.                                     *)
FinishIfAny(r) ==
  /\ Undisturbed
  /\ run[r] = "tiers"
  /\ Gathered(r)
  /\ Tier(r) = {}
  /\ run' = [run EXCEPT ![r] = "returned"]
  /\ status' = [status EXCEPT ![r] =
       IF \E i \in DOMAIN plan[r] : task[<<r, i>>] = "completed"
       THEN "completed" ELSE "failed"]
  /\ active' = active \ {r}
  /\ Leave(r, TRUE)
  /\ UNCHANGED <<plan, depth, reached, level, agentVars, killVars>>

Finish(r) ==
  /\ Undisturbed
  /\ run[r] = "tiers"
  /\ Gathered(r)
  /\ Tier(r) = {}
  /\ run' = [run EXCEPT ![r] = "returned"]
  /\ status' = [status EXCEPT ![r] =
       IF \E i \in DOMAIN plan[r] : task[<<r, i>>] = "failed"
       THEN "failed" ELSE "completed"]
  /\ active' = active \ {r}
  /\ Leave(r, TRUE)
  /\ UNCHANGED <<plan, depth, reached, level, agentVars, killVars>>

(* gather() raises what a task raised and leaves the others to themselves. *)
Raise(r) ==
  /\ Undisturbed
  /\ run[r] = "tiers"
  /\ \E t \in Of(r, Items) : agent[t] = "raised"
  /\ run' = [run EXCEPT ![r] = "raised"]
  /\ Leave(r, TRUE)
  /\ UNCHANGED <<workflowVars, agentVars, killVars>>

-----------------------------------------------------------------------------
(* spawn(): over the limit, an unknown agent, or too high a tier.          *)
Refuse(t) ==
  /\ MayRun(t)
  /\ agent[t] = "queued"
  /\ agent' = [agent EXCEPT ![t] = "done"]
  /\ task' = [task EXCEPT ![t] = "failed"]
  /\ UNCHANGED <<run, workflowVars, assigned, instances, busVars, killVars>>

(* Slip: the limit itself is let through.                                  *)
BelowLimitOrAt == Cardinality(instances) <= MaxAgents
BelowLimit == Cardinality(instances) < MaxAgents

Spawn(t) ==
  /\ MayRun(t)
  /\ agent[t] = "queued"
  /\ BelowLimit
  /\ agent' = [agent EXCEPT ![t] = "starting"]
  /\ UNCHANGED <<run, workflowVars, task, assigned, instances, busVars, killVars>>

(* on_start() fails.  What is no ValueError, PermissionError or            *)
(* RuntimeError is not caught either by spawn() or by _execute_task().     *)
StartFails(t) ==
  /\ MayRun(t)
  /\ t \in Overriding
  /\ agent[t] = "starting"
  /\ \/ /\ agent' = [agent EXCEPT ![t] = "done"]
        /\ task' = [task EXCEPT ![t] = "failed"]
     \/ /\ agent' = [agent EXCEPT ![t] = "raised"]
        /\ UNCHANGED task
  /\ UNCHANGED <<run, workflowVars, assigned, instances, busVars, killVars>>

Spawned(t) ==
  /\ MayRun(t)
  /\ agent[t] = "starting"
  /\ agent' = [agent EXCEPT ![t] = "spawned"]
  /\ instances' = instances \cup {t}
  /\ UNCHANGED <<run, workflowVars, task, assigned, busVars, killVars>>

(* The task is assigned, and handle_task() begins.                         *)
Assign(t) ==
  /\ MayRun(t)
  /\ agent[t] = "spawned"
  /\ agent' = [agent EXCEPT ![t] = "working"]
  /\ task' = [task EXCEPT ![t] = "running"]
  /\ assigned' = assigned \cup {t}
  /\ UNCHANGED <<run, workflowVars, instances, busVars, killVars>>

(* The agent delegates, at most once: the event waits in the bus.          *)
Delegate(t) ==
  /\ MayRun(t)
  /\ agent[t] = "working"
  /\ t \in Delegating
  /\ t \notin {delegated[n] : n \in DOMAIN delegated}
  /\ delegated' = Append(delegated, t)
  /\ UNCHANGED <<run, workflowVars, agentVars, handling, killVars>>

(* handle_task() returned with the status it gave the task (or left it     *)
(* running), or raised.                                                    *)
Report(t) ==
  /\ MayRun(t)
  /\ agent[t] = "working"
  /\ agent' = [agent EXCEPT ![t] = "reported"]
  /\ \E outcome \in {"completed", "failed", "running"} :
       task' = [task EXCEPT ![t] = outcome]
  /\ UNCHANGED <<run, workflowVars, assigned, instances, busVars, killVars>>

(* Slips: the agent was not looked up; one that is gone is waited for.     *)
StopUnchecked(t) ==
  /\ MayRun(t)
  /\ agent[t] = "reported"
  /\ agent' = [agent EXCEPT ![t] = "stopping"]
  /\ UNCHANGED <<run, workflowVars, task, assigned, instances, busVars, killVars>>

StopWaiting(t) == t \in instances /\ StopUnchecked(t)

(* Slip: the agent of a failed task is not stopped.                        *)
StopSucceeded(t) ==
  /\ MayRun(t)
  /\ agent[t] = "reported"
  /\ agent' = [agent EXCEPT ![t] =
       IF t \in instances /\ task[t] # "failed" THEN "stopping" ELSE "done"]
  /\ UNCHANGED <<run, workflowVars, task, assigned, instances, busVars, killVars>>

(* stop() finds the agent, unless it was killed.                           *)
Stop(t) ==
  /\ MayRun(t)
  /\ agent[t] = "reported"
  /\ agent' = [agent EXCEPT ![t] = IF t \in instances THEN "stopping" ELSE "done"]
  /\ UNCHANGED <<run, workflowVars, task, assigned, instances, busVars, killVars>>

(* on_stop() returned.  `del` raises KeyError if the agent is gone.        *)
Stopped(t) ==
  /\ MayRun(t)
  /\ agent[t] = "stopping"
  /\ agent' = [agent EXCEPT ![t] = IF t \in instances THEN "done" ELSE "raised"]
  /\ instances' = instances \ {t}
  /\ UNCHANGED <<run, workflowVars, task, assigned, busVars, killVars>>

-----------------------------------------------------------------------------
(* _find_agent_depth(): of the active workflow the agent is assigned to.   *)
DepthOf(t) == IF t[1] \in active /\ t \in assigned THEN depth[t[1]] ELSE 0

(* The bus hands the next delegation to _handle_delegation(), which runs   *)
(* the sub-workflow r before it returns, unless it is too deep.            *)
HandleDelegation(r) ==
  /\ Undisturbed
  /\ handling = None
  /\ delegated # <<>>
  /\ DepthOf(Head(delegated)) + 1 < MaxDepth
  /\ r \notin Clients
  /\ run[r] = "idle"
  /\ run' = [run EXCEPT ![r] = "decomposing"]
  /\ depth' = [depth EXCEPT ![r] = DepthOf(Head(delegated)) + 1]
  /\ level' = [level EXCEPT ![r] = level[Head(delegated)[1]] + 1]
  /\ handling' = r
  /\ delegated' = Tail(delegated)
  /\ UNCHANGED <<status, plan, active, reached, agentVars, killVars>>

RejectDelegation ==
  /\ Undisturbed
  /\ handling = None
  /\ delegated # <<>>
  /\ DepthOf(Head(delegated)) + 1 >= MaxDepth
  /\ delegated' = Tail(delegated)
  /\ UNCHANGED <<run, workflowVars, agentVars, handling, killVars>>

-----------------------------------------------------------------------------
(* A soft kill: stop_all() of the executor, one agent after the other ...  *)
SoftKill ==
  /\ MayRun(None)
  /\ killer = "none"
  /\ killer' = "stop_all"
  /\ toStop' = instances
  /\ UNCHANGED <<run, workflowVars, agentVars, busVars, stopping, hard>>

StopNext(t) ==
  /\ MayRun(None)
  /\ killer = "stop_all"
  /\ stopping = None
  /\ t \in toStop
  /\ toStop' = toStop \ {t}
  /\ stopping' = IF t \in instances THEN t ELSE None
  /\ UNCHANGED <<run, workflowVars, agentVars, busVars, killer, hard>>

(* ... until an agent is gone when it is to be deleted: KeyError.          *)
StopEnds ==
  /\ MayRun(None)
  /\ stopping # None
  /\ instances' = instances \ {stopping}
  /\ stopping' = None
  /\ IF stopping \in instances
     THEN UNCHANGED <<killer, toStop>>
     ELSE killer' = "workflows" /\ toStop' = {}
  /\ UNCHANGED <<run, workflowVars, task, assigned, agent, busVars, hard>>

(* kill_all_workflows(): their agents are killed, which stops nothing that *)
(* the agents or run_workflow() are in the middle of.                      *)
Cancel ==
  /\ status' = [r \in Runs |-> IF r \in active THEN "cancelled" ELSE status[r]]
  /\ instances' = {t \in instances : ~(t[1] \in active /\ t \in assigned)}
  /\ active' = {}

(* ... then kill_all_workflows(); or stop(), when the server shuts down.   *)
KillWorkflows ==
  /\ MayRun(None)
  /\ \/ killer = "none" /\ killer' = "over"
     \/ killer = "workflows" /\ killer' = "soft"
     \/ killer = "stop_all" /\ stopping = None /\ toStop = {} /\ killer' = "soft"
  /\ Cancel
  /\ UNCHANGED <<run, plan, depth, reached, level, task, assigned, agent,
                 busVars, toStop, stopping, hard>>

HardKill ==
  /\ Undisturbed
  /\ killer \in {"stop_all", "workflows", "soft"}
  /\ ~hard
  /\ hard' = TRUE
  /\ instances' = {}
  /\ UNCHANGED <<run, workflowVars, task, assigned, agent, busVars, killer,
                 toStop, stopping>>

-----------------------------------------------------------------------------
Run(r) ==
  \/ \E d \in Plans[r] : Decomposed(r, d)
  \/ BeginTier(r)
  \/ Finish(r)
  \/ Raise(r)

Execute(t) ==
  \/ Refuse(t)
  \/ Spawn(t)
  \/ StartFails(t)
  \/ Spawned(t)
  \/ Assign(t)
  \/ Report(t)
  \/ Stop(t)
  \/ Stopped(t)

Dispatch == RejectDelegation \/ \E r \in Runs : HandleDelegation(r)
Callbacks == (\E t \in Tasks : StopNext(t)) \/ StopEnds \/ (killer # "none" /\ KillWorkflows)

Next ==
  \/ \E r \in Runs : Start(r) \/ Run(r)
  \/ \E t \in Tasks : Execute(t) \/ Delegate(t)
  \/ Dispatch
  \/ SoftKill
  \/ Callbacks
  \/ KillWorkflows
  \/ HardKill

(* The event loop runs what is ready; decompose(), handle_task() and the   *)
(* hooks return.  Clients, agents that delegate and kills owe nothing.     *)
Fairness ==
  /\ \A r \in Runs : WF_vars(Run(r))
  /\ \A t \in Tasks : WF_vars(Execute(t))
  /\ WF_vars(Dispatch)
  /\ WF_vars(Callbacks)

Spec == Init /\ [][Next]_vars /\ Fairness

-----------------------------------------------------------------------------
(* Agents whose on_start() does not suspend are never started over the     *)
(* limit: there are no more of them than max_concurrent_agents.            *)
LimitHolds == Cardinality(instances \ Overriding) <= MaxAgents

(* A task is run after all it depends on, and not if one of them failed.   *)
TasksInOrder ==
  \A r \in Runs : \A i \in DOMAIN plan[r] : \A j \in plan[r][i] :
    agent[<<r, i>>] # "none" =>
      agent[<<r, j>>] = "done" /\ task[<<r, j>>] # "failed"

(* A run that is over has closed its workflow: it is registered exactly    *)
(* while its status is "running", and all its agents are gone.             *)
RegisteredWhileRunning == active = {r \in Runs : status[r] = "running"}
AgentsReleased ==
  \A r \in Runs : run[r] = "returned" => instances \cap Of(r, Items) = {}

(* A workflow completed only if no task of it failed, kills or not.        *)
VerdictTrue ==
  \A r \in Runs :
    run[r] = "returned" /\ status[r] = "completed" =>
      \A i \in DOMAIN plan[r] : task[<<r, i>>] # "failed" /\ agent[<<r, i>>] = "done"

(* Every run of run_workflow() ends, and gives the bus its dispatcher back *)
(* if a delegation led to it.                                              *)
RunsEnd ==
  \A r \in Runs :
    run[r] = "decomposing" ~> run[r] \in {"returned", "raised"} /\ handling # r

(* _execute_task() is safe for gather(): it does not raise, unless a hook  *)
(* suspended or failed in it.                                              *)
SafeForGather == \A t \in Tasks : agent[t] = "raised" => t \in Overriding

(* max_concurrent_agents limits the agents, whatever their hooks do.       *)
LimitStrict == Cardinality(instances) <= MaxAgents

(* The depth check prevents infinite delegation chains: no run is further  *)
(* from a client than max_workflow_depth allows.                           *)
ChainsBounded == \A r \in Runs : level[r] < MaxDepth
=============================================================================
