----------------------------- MODULE Scheduler -----------------------------
(***************************************************************************)
(* Scheduled tasks of one user: parse_and_schedule() of                    *)
(* automation/service.py, the confirmations of confirmation.py and the     *)
(* jobs of scheduler.py.  The jobs themselves are APScheduler's, modelled  *)
(* from how NoblaScheduler sets it up: one instance of a job at a time, a  *)
(* one-shot job gone when it fires, a fire too late is dropped.            *)
(***************************************************************************)
EXTENDS Naturals, FiniteSets

CONSTANTS
  Tasks,      \* what the user asks for; each request makes a task of its own
  OneShot,    \* those that run once
  MaxTasks,   \* max_tasks_per_user
  MaxRuns     \* bound: how often a recurring task runs

VARIABLES
  at,        \* where parse_and_schedule() is with each task
  future,    \* of its confirmation
  pending,   \* ConfirmationManager._pending
  tasks,     \* NoblaScheduler._tasks
  status,    \* TaskStatus
  job,       \* the job of each task
  run,       \* its instance
  runs,      \* run_count
  running,   \* the scheduler is
  answer,    \* history: the answer that respond() took
  removed,   \* history: tasks that cancel_task() removed
  spent      \* history: one-shot tasks whose job is gone, and that did not complete

confirming == <<at, future, pending, answer>>
scheduling == <<tasks, status, job, removed>>
executing == <<run, runs, spent>>
vars == <<confirming, scheduling, executing, running>>

Init ==
  /\ at = [t \in Tasks |-> "idle"]
  /\ future = [t \in Tasks |-> "none"]
  /\ pending = {}
  /\ tasks = {}
  /\ status = [t \in Tasks |-> "pending_confirmation"]
  /\ job = [t \in Tasks |-> "none"]
  /\ run = [t \in Tasks |-> "none"]
  /\ runs = [t \in Tasks |-> 0]
  /\ running = TRUE
  /\ answer = [t \in Tasks |-> "none"]
  /\ removed = {}
  /\ spent = {}

-----------------------------------------------------------------------------
(* A request: limit, interpretation, confirmation, job.                    *)
Counted == {t \in tasks : status[t] \in {"active", "paused"}}

Parse(t) ==
  /\ at[t] = "idle"
  /\ at' = [at EXCEPT ![t] = IF Cardinality(Counted) < MaxTasks THEN "interpreting" ELSE "refused"]
  /\ UNCHANGED <<future, pending, answer, scheduling, executing, running>>

\* The schedule is not understood.
Misunderstood(t) ==
  /\ at[t] = "interpreting"
  /\ at' = [at EXCEPT ![t] = "refused"]
  /\ UNCHANGED <<future, pending, answer, scheduling, executing, running>>

\* The request is in _pending before the event that shows it is emitted.
Interpreted(t) ==
  /\ at[t] = "interpreting"
  /\ at' = [at EXCEPT ![t] = "waiting"]
  /\ future' = [future EXCEPT ![t] = "open"]
  /\ pending' = pending \cup {t}
  /\ UNCHANGED <<answer, scheduling, executing, running>>

Respond(t, reply) ==
  /\ t \in pending /\ future[t] = "open"
  /\ future' = [future EXCEPT ![t] = reply]
  /\ answer' = [answer EXCEPT ![t] = reply]
  /\ UNCHANGED <<at, pending, scheduling, executing, running>>

Schedule(t) ==
  /\ at' = [at EXCEPT ![t] = "scheduled"]
  /\ pending' = pending \ {t}
  /\ tasks' = tasks \cup {t}
  /\ status' = [status EXCEPT ![t] = "active"]
  /\ job' = [job EXCEPT ![t] = "scheduled"]
  /\ UNCHANGED <<future, answer, removed, executing, running>>

Approved(t) ==
  /\ at[t] = "waiting" /\ future[t] = "yes"
  /\ Schedule(t)

\* Denied, timed out - also when an answer came in the same turn of the loop -
\* or shut down.
NotApproved(t) ==
  /\ at[t] = "waiting"
  /\ at' = [at EXCEPT ![t] = "cancelled"]
  /\ pending' = pending \ {t}
  /\ status' = [status EXCEPT ![t] = "cancelled"]
  /\ UNCHANGED <<future, answer, tasks, job, removed, executing, running>>

-----------------------------------------------------------------------------
(* The user's operations on a task.                                        *)
Cancel(t) ==
  /\ t \in tasks
  /\ tasks' = tasks \ {t}
  /\ job' = [job EXCEPT ![t] = "none"]
  /\ status' = [status EXCEPT ![t] = "cancelled"]
  /\ removed' = removed \cup {t}
  /\ UNCHANGED <<confirming, executing, running>>

\* A task without a job is neither paused nor resumed.
Pause(t) ==
  /\ t \in tasks /\ status[t] = "active" /\ job[t] # "none"
  /\ job' = [job EXCEPT ![t] = "paused"]
  /\ status' = [status EXCEPT ![t] = "paused"]
  /\ UNCHANGED <<tasks, removed, confirming, executing, running>>

Resume(t) ==
  /\ t \in tasks /\ status[t] = "paused" /\ job[t] # "none"
  /\ job' = [job EXCEPT ![t] = "scheduled"]
  /\ status' = [status EXCEPT ![t] = "active"]
  /\ UNCHANGED <<tasks, removed, confirming, executing, running>>

-----------------------------------------------------------------------------
(* Jobs.                                                                   *)
Due(t) == running /\ job[t] = "scheduled"
AfterFire(t) == job' = [job EXCEPT ![t] = IF t \in OneShot THEN "none" ELSE @]
Spend(t) == spent' = spent \cup ({t} \cap OneShot)

Fire(t) ==
  /\ Due(t) /\ run[t] = "none" /\ runs[t] < MaxRuns
  /\ run' = [run EXCEPT ![t] = "submitted"]
  /\ AfterFire(t)
  /\ UNCHANGED <<tasks, status, removed, runs, spent, confirming, running>>

\* The loop was busy, or the task paused, beyond the grace of its one date.
Missed(t) ==
  /\ Due(t) /\ t \in OneShot
  /\ AfterFire(t)
  /\ Spend(t)
  /\ UNCHANGED <<tasks, status, removed, run, runs, confirming, running>>

BeginUnasked(t) ==  \* slip
  /\ run[t] = "submitted"
  /\ run' = [run EXCEPT ![t] = "calling"] /\ runs' = [runs EXCEPT ![t] = @ + 1]
  /\ UNCHANGED <<spent, confirming, scheduling, running>>
Begin(t) ==
  /\ run[t] = "submitted"
  /\ \/ /\ t \in tasks
        /\ run' = [run EXCEPT ![t] = "calling"]
        /\ runs' = [runs EXCEPT ![t] = @ + 1]
     \/ /\ t \notin tasks
        /\ run' = [run EXCEPT ![t] = "none"]
        /\ UNCHANGED runs
  /\ UNCHANGED <<spent, confirming, scheduling, running>>

\* A one-shot task is completed, also one that was cancelled as it ran.
Executed(t) ==
  /\ run[t] = "calling"
  /\ run' = [run EXCEPT ![t] = "none"]
  /\ \/ /\ t \in OneShot
        /\ status' = [status EXCEPT ![t] = "completed"]
        /\ tasks' = tasks \ {t}
     \/ t \notin OneShot /\ UNCHANGED <<status, tasks>>
  /\ UNCHANGED <<job, removed, runs, spent, confirming, running>>

\* A failure is counted, and the task stays as it is.
Fails(t) ==
  /\ run[t] = "calling"
  /\ run' = [run EXCEPT ![t] = "none"]
  /\ Spend(t)
  /\ UNCHANGED <<runs, confirming, scheduling, running>>

\* stop(): confirmations are denied, then the jobs and their instances go.
Stop ==
  /\ running
  /\ future' = [t \in Tasks |-> IF t \in pending /\ future[t] = "open" THEN "no" ELSE future[t]]
  /\ pending' = {}
  /\ running' = FALSE
  /\ job' = [t \in Tasks |-> "none"]
  /\ run' = [t \in Tasks |-> "none"]
  /\ UNCHANGED <<at, answer, tasks, status, removed, runs, spent>>

-----------------------------------------------------------------------------
Request(t) == Parse(t) \/ Misunderstood(t) \/ Interpreted(t) \/ Approved(t) \/ NotApproved(t)
User(t) == Cancel(t) \/ Pause(t) \/ Resume(t) \/ \E reply \in {"yes", "no"} : Respond(t, reply)
Job(t) == Fire(t) \/ Missed(t) \/ Begin(t) \/ Executed(t) \/ Fails(t)

Next == Stop \/ \E t \in Tasks : Request(t) \/ User(t) \/ Job(t)

Spec == Init /\ [][Next]_vars

-----------------------------------------------------------------------------
TypeOK ==
  /\ at \in [Tasks -> {"idle", "interpreting", "waiting", "refused", "cancelled", "scheduled"}]
  /\ future \in [Tasks -> {"none", "open", "yes", "no"}]
  /\ pending \subseteq Tasks /\ tasks \subseteq Tasks
  /\ status \in [Tasks -> {"pending_confirmation", "active", "paused", "completed", "cancelled"}]
  /\ job \in [Tasks -> {"none", "scheduled", "paused"}]
  /\ run \in [Tasks -> {"none", "submitted", "calling"}]
  /\ runs \in [Tasks -> Nat]
  /\ running \in BOOLEAN
  /\ answer \in [Tasks -> {"none", "yes", "no"}]
  /\ removed \subseteq Tasks /\ spent \subseteq Tasks

\* A job belongs to a task that _tasks still has, and both are paused or
\* neither is (scheduler.py:110-122, 146-201).
JobsHaveTasks ==
  \A t \in Tasks : job[t] # "none" =>
    t \in tasks /\ (job[t] = "paused" <=> status[t] = "paused")

\* What a user sees as active will run again, is running, or is a one-shot
\* task that failed or was missed: that one stays active for good, and keeps its
\* place under the limit (scheduler.py:243-264).
ActiveTasksRun ==
  running => \A t \in tasks :
    /\ status[t] = "active" => job[t] = "scheduled" \/ run[t] # "none" \/ t \in spent
    /\ status[t] = "paused" => job[t] = "paused"

JobsAgree == JobsHaveTasks /\ ActiveTasksRun

\* A run begins only for a task that the user approved and has not removed,
\* whatever was fired, cancelled or stopped in between, and a one-shot task
\* runs at most once (scheduler.py:216-225).
RunsAreWanted ==
  \A t \in Tasks : runs'[t] # runs[t] =>
    /\ answer[t] = "yes" /\ t \notin removed
    /\ t \in OneShot => runs[t] = 0

\* Jobs, tasks and runs are of one mind after every step.
JobsKept == [][JobsAgree' /\ RunsAreWanted]_vars
=============================================================================
