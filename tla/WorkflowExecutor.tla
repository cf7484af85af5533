-------------------------- MODULE WorkflowExecutor --------------------------
(***************************************************************************)
(* One run of a workflow by automation/workflows/executor.py: tiers of     *)
(* steps one after the other, the steps of a tier side by side, each with  *)
(* its retries and its way of handling errors; condition steps disable the *)
(* steps of the branches they do not take.                                 *)
(*                                                                         *)
(* The definition of the workflow is chosen among Workflows and does not   *)
(* change.  What a step does is external: it succeeds or it fails.         *)
(***************************************************************************)
EXTENDS Integers, FiniteSets

CONSTANTS
  Steps,     \* step ids
  Unknown,   \* ids that no step has, left over in depends_on
  Workflows  \* the definitions: see Definitions

Handlings == {"fail", "retry", "continue", "skip"}
Definitions ==
  [ dependsOn : [Steps -> SUBSET (Steps \cup Unknown)],
    handling : [Steps -> Handlings],
    maxRetries : [Steps -> Nat],
    branches : [Steps -> SUBSET SUBSET Steps] ]  \* next_steps; {}: no condition

ASSUME WorkflowConstants ==
  /\ Steps \cap Unknown = {}
  /\ Workflows \subseteq Definitions

VARIABLES
  wf,        \* the workflow
  status,    \* execution.status
  step,      \* the status of each StepExecution
  task,      \* what the task of each step awaits
  tries,     \* how often each step was run
  reached,   \* the steps of the tiers begun so far
  disabled,  \* disabled_steps
  failed,    \* failed_steps
  shut       \* history: the steps whose branch a condition step did not take

vars == <<wf, status, step, task, tries, reached, disabled, failed, shut>>

Over == {"completed", "failed", "skipped"}

TypeOK ==
  /\ wf \in Definitions
  /\ status \in {"pending", "running", "completed", "failed"}
  /\ step \in [Steps -> {"pending", "running"} \cup Over]
  /\ task \in [Steps -> {"none", "run", "backoff"}]
  /\ tries \in [Steps -> Nat]
  /\ reached \subseteq Steps
  /\ disabled \subseteq Steps
  /\ failed \subseteq Steps
  /\ shut \in [Steps -> SUBSET Steps]

Init ==
  /\ wf \in Workflows
  /\ status = "pending"
  /\ step = [s \in Steps |-> "pending"]
  /\ task = [s \in Steps |-> "none"]
  /\ tries = [s \in Steps |-> 0]
  /\ reached = {}
  /\ disabled = {}
  /\ failed = {}
  /\ shut = [s \in Steps |-> {}]

-----------------------------------------------------------------------------
(* topological_sort_steps() finds an order: every dependency is a step and *)
(* no set of steps waits for itself (see TopologicalSort).                 *)
Sortable ==
  /\ \A s \in Steps : wf.dependsOn[s] \subseteq Steps
  /\ \A c \in (SUBSET Steps) \ {{}} : \E s \in c : wf.dependsOn[s] \cap c = {}

Begin ==
  /\ status = "pending"
  /\ status' = IF Sortable THEN "running" ELSE "failed"
  /\ UNCHANGED <<wf, step, task, tries, reached, disabled, failed, shut>>

(* The next tier.  Before any member runs, those on a branch not taken are *)
(* skipped and those that a failure cascades to fail; the slips forget to. *)
Tier == {s \in Steps \ reached : wf.dependsOn[s] \subseteq reached}

DisabledNever == {}
Disabled == Tier \cap disabled

CascadedNever == {}
Cascaded ==
  {s \in Tier \ disabled :
     wf.dependsOn[s] \cap failed # {} /\ wf.handling[s] = "fail"}

Started == Tier \ (Disabled \cup Cascaded)

(* gather() of the tier before returned.  Slips: as soon as one step ended; *)
(* only when no step failed.                                               *)
GatheredAny == reached = {} \/ \E s \in reached : step[s] \in Over
GatheredGood == \A s \in reached : step[s] \in {"completed", "skipped"}
Gathered == \A s \in Steps : task[s] = "none"

BeginTier ==
  /\ status = "running"
  /\ Gathered
  /\ Tier # {}
  /\ step' = [s \in Steps |->
       IF s \in Disabled THEN "skipped"
       ELSE IF s \in Cascaded THEN "failed"
       ELSE IF s \in Started THEN "running"
       ELSE step[s]]
  /\ task' = [s \in Steps |-> IF s \in Started THEN "run" ELSE task[s]]
  /\ tries' = [s \in Steps |-> IF s \in Started THEN 1 ELSE tries[s]]
  /\ failed' = failed \cup Cascaded
  /\ reached' = reached \cup Tier
  /\ UNCHANGED <<wf, status, disabled, shut>>

-----------------------------------------------------------------------------
End(s, as) ==
  /\ step' = [step EXCEPT ![s] = as]
  /\ task' = [task EXCEPT ![s] = "none"]

(* A condition step disables all branches but the one it takes, or all of  *)
(* them if none matches and there is no default.                           *)
Shut(s) ==
  \E taken \in wf.branches[s] \cup {{}} :
    /\ shut' = [shut EXCEPT ![s] = UNION wf.branches[s] \ taken]
    /\ disabled' = disabled \cup (UNION wf.branches[s] \ taken)

Succeed(s) ==
  /\ task[s] = "run"
  /\ End(s, "completed")
  /\ Shut(s)
  /\ UNCHANGED <<wf, status, tries, reached, failed>>

AttemptLeft(s) == wf.handling[s] = "retry" /\ tries[s] <= wf.maxRetries[s]

Backoff(s) ==
  /\ task[s] = "run"
  /\ AttemptLeft(s)
  /\ task' = [task EXCEPT ![s] = "backoff"]
  /\ UNCHANGED <<wf, status, step, tries, reached, disabled, failed, shut>>

Retry(s) ==
  /\ task[s] = "backoff"
  /\ task' = [task EXCEPT ![s] = "run"]
  /\ tries' = [tries EXCEPT ![s] = @ + 1]
  /\ UNCHANGED <<wf, status, step, reached, disabled, failed, shut>>

(* All attempts failed.                                                    *)
GiveUp(s) ==
  /\ task[s] = "run"
  /\ ~AttemptLeft(s)
  /\ End(s, IF wf.handling[s] = "skip" THEN "skipped" ELSE "failed")
  /\ failed' = IF wf.handling[s] \in {"fail", "retry"}
                 THEN failed \cup {s} ELSE failed
  /\ UNCHANGED <<wf, status, tries, reached, disabled, shut>>

(* Slip: the verdict looks at failed_steps.                                 *)
FinishByCascade ==
  /\ status = "running"
  /\ Gathered
  /\ Tier = {}
  /\ status' = IF failed # {} THEN "failed" ELSE "completed"
  /\ UNCHANGED <<wf, step, task, tries, reached, disabled, failed, shut>>

Finish ==
  /\ status = "running"
  /\ Gathered
  /\ Tier = {}
  /\ status' = IF \E s \in Steps : step[s] = "failed"
                 THEN "failed" ELSE "completed"
  /\ UNCHANGED <<wf, step, task, tries, reached, disabled, failed, shut>>

-----------------------------------------------------------------------------
Attempt(s) == Succeed(s) \/ Backoff(s) \/ Retry(s) \/ GiveUp(s)

Next ==
  \/ Begin
  \/ BeginTier
  \/ \E s \in Steps : Attempt(s)
  \/ Finish

(* Steps succeed or fail some time.  Nothing but the callbacks sees to it: *)
(* the executor does not enforce timeout_seconds.                          *)
Fairness ==
  /\ WF_vars(Begin \/ BeginTier \/ Finish)
  /\ \A s \in Steps : WF_vars(Attempt(s))

Spec == Init /\ [][Next]_vars /\ Fairness

-----------------------------------------------------------------------------
(* A step runs only when everything it depends on is over.                 *)
DependenciesFirst ==
  \A s \in Steps :
    tries[s] > 0 => \A d \in wf.dependsOn[s] : step[d] \in Over

(* A step that is over stays as it is and is not run again, whatever other *)
(* steps of its tier and later tiers do.                                   *)
OverIsOver ==
  [][\A s \in Steps :
       step[s] \in Over => step'[s] = step[s] /\ tries'[s] = tries[s]]_vars

(* A step that handles errors by "fail" does not run when a dependency     *)
(* failed for good, through any number of cascades.                        *)
CascadeStops ==
  \A s \in Steps :
    wf.handling[s] = "fail" /\ wf.dependsOn[s] \cap failed # {} => tries[s] = 0

(* A step on a branch that was not taken does not run if it depends on the *)
(* condition step, also when another condition step takes a branch to it.  *)
NotTakenSkipped ==
  \A c, s \in Steps :
    s \in shut[c] /\ c \in wf.dependsOn[s] => step[s] \in {"pending", "skipped"}

(* Both: what failures and branches stop, they stop (executor.py:185-205). *)
StopsHold == CascadeStops /\ NotTakenSkipped

(* Attempts are neither lost nor made up: a step that failed in the end    *)
(* was tried as often as its retries say, every other one at most so often.*)
RetriesExact ==
  \A s \in Steps :
    LET most == IF wf.handling[s] = "retry" THEN wf.maxRetries[s] + 1 ELSE 1 IN
    /\ tries[s] <= most
    /\ step[s] = "failed" /\ tries[s] > 0 => tries[s] = most

(* The verdict is true: every step is over, and the run failed exactly if  *)
(* one of them did, or if there was no order to run them in.               *)
VerdictTrue ==
  status \in {"completed", "failed"} =>
    IF Sortable
    THEN /\ \A s \in Steps : step[s] \in Over
         /\ status = "failed" <=> \E s \in Steps : step[s] = "failed"
    ELSE status = "failed" /\ \A s \in Steps : step[s] = "pending"

(* Every run ends, also of a definition with a cycle or a dangling id.     *)
RunEnds == status = "pending" ~> status \in {"completed", "failed"}
=============================================================================
