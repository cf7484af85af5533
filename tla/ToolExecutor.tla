---------------------------- MODULE ToolExecutor ----------------------------
(***************************************************************************)
(* The tool pipeline of backend/nobla/tools/executor.py with the approval  *)
(* manager of backend/nobla/tools/approval.py: permission, validation,     *)
(* approval, a semaphore, the tool itself, and an audit entry for each     *)
(* outcome.  An action is the code a call runs between two of its awaits.  *)
(*                                                                         *)
(* handle_kill() denies the approvals that wait, cancels the tasks that    *)
(* run and replaces the semaphore: calls that wait for the old one or hold *)
(* a permit of it keep using it, so a semaphore is named by its generation.*)
(***************************************************************************)
EXTENDS Integers, Sequences, FiniteSets

CONSTANTS
  Calls,          \* calls of execute(), each made once
  NeedsApproval,  \* the calls whose tool needs approval
  MaxConcurrent,  \* max_concurrent
  MaxKills        \* bound: handle_kill() runs at most this often

ASSUME ExecutorConstants ==
  /\ NeedsApproval \subseteq Calls
  /\ MaxConcurrent \in Nat \ {0}
  /\ MaxKills \in Nat

VARIABLES
  pc,            \* the await each call is at
  future,        \* the approval future of each call
  registered,    \* ApprovalManager._pending
  semaphore,     \* the generation of _semaphore
  permits,       \* the free permits of each generation
  waiters,       \* the calls that wait for each generation, in order
  taken,         \* the generation a call waits for or holds
  runningTasks,  \* _running_tasks
  cancelled,     \* the calls whose task was cancelled
  audit,         \* history: the audit entries of each call
  result,        \* the ToolResult of each call
  answer         \* history: the user's answer that resolve() accepted

approvalVars == <<future, registered, answer>>
semaphoreVars == <<semaphore, permits, waiters, taken>>
taskVars == <<runningTasks, cancelled>>
vars == <<pc, future, registered, semaphore, permits, waiters, taken,
          runningTasks, cancelled, audit, result, answer>>

Generations == 0 .. MaxKills
Places == {"idle", "validating", "awaiting", "waiting", "granted",
           "executing", "succeeding", "failing", "killing", "done", "aborted"}
Statuses == {"permission_denied", "validation_failed", "approval_denied",
             "approval_timed_out", "success", "execution_error", "killed"}

(* Where a call is inside the async with block, and so holds a permit.     *)
Inside == {"granted", "executing", "succeeding", "failing", "killing"}
Holders(g) == {t \in Calls : pc[t] \in Inside /\ taken[t] = g}
Ended(t) == pc[t] \in {"done", "aborted"}

TypeOK ==
  /\ pc \in [Calls -> Places]
  /\ future \in [Calls -> {"none", "pending", "approved", "denied"}]
  /\ registered \subseteq Calls
  /\ semaphore \in Generations
  /\ permits \in [Generations -> Nat]
  /\ waiters \in [Generations -> Seq(Calls)]
  /\ taken \in [Calls -> Generations]
  /\ runningTasks \subseteq Calls
  /\ cancelled \subseteq Calls
  /\ audit \in [Calls -> Seq(Statuses)]
  /\ result \in [Calls -> {"none", "success", "failure"}]
  /\ answer \in [Calls -> {"none", "approved", "denied"}]

Init ==
  /\ pc = [t \in Calls |-> "idle"]
  /\ future = [t \in Calls |-> "none"]
  /\ registered = {}
  /\ semaphore = 0
  /\ permits = [g \in Generations |-> MaxConcurrent]
  /\ waiters = [g \in Generations |-> <<>>]
  /\ taken = [t \in Calls |-> 0]
  /\ runningTasks = {}
  /\ cancelled = {}
  /\ audit = [t \in Calls |-> <<>>]
  /\ result = [t \in Calls |-> "none"]
  /\ answer = [t \in Calls |-> "none"]

-----------------------------------------------------------------------------
Goto(t, place) == pc' = [pc EXCEPT ![t] = place]
Log(t, status) == audit' = [audit EXCEPT ![t] = Append(@, status)]
Return(t, r) == result' = [result EXCEPT ![t] = r]

Begin(t) ==
  /\ pc[t] = "idle"
  /\ Goto(t, "validating")
  /\ UNCHANGED <<approvalVars, semaphoreVars, taskVars, audit, result>>

(* An unknown tool leaves no audit entry, a missing permission does.       *)
Refuse(t) ==
  /\ pc[t] = "idle"
  /\ Goto(t, "done")
  /\ Return(t, "failure")
  /\ Log(t, "permission_denied") \/ UNCHANGED audit
  /\ UNCHANGED <<approvalVars, semaphoreVars, taskVars>>

(* A ValueError is recorded; any other exception ends the call without.    *)
ValidationFails(t) ==
  /\ pc[t] = "validating"
  /\ Goto(t, "done")
  /\ Return(t, "failure")
  /\ Log(t, "validation_failed") \/ UNCHANGED audit
  /\ UNCHANGED <<approvalVars, semaphoreVars, taskVars>>

(* Enter the semaphore in force now: at once, or behind those that wait.   *)
Enter(t) ==
  /\ taken' = [taken EXCEPT ![t] = semaphore]
  /\ \/ /\ permits[semaphore] > 0
        /\ permits' = [permits EXCEPT ![semaphore] = @ - 1]
        /\ Goto(t, "executing")
        /\ runningTasks' = runningTasks \cup {t}
        /\ UNCHANGED waiters
     \/ /\ permits[semaphore] = 0
        /\ waiters' = [waiters EXCEPT ![semaphore] = Append(@, t)]
        /\ Goto(t, "waiting")
        /\ UNCHANGED <<permits, runningTasks>>
  /\ UNCHANGED <<semaphore, cancelled>>

Validated(t) ==
  /\ pc[t] = "validating"
  /\ \/ /\ t \in NeedsApproval
        /\ future' = [future EXCEPT ![t] = "pending"]
        /\ registered' = registered \cup {t}
        /\ Goto(t, "awaiting")
        /\ UNCHANGED <<answer, semaphoreVars, taskVars>>
     \/ t \notin NeedsApproval /\ Enter(t) /\ UNCHANGED approvalVars
  /\ UNCHANGED <<audit, result>>

-----------------------------------------------------------------------------
(* resolve(): no-op for an unknown request or a future that is done.       *)
Resolve(t, status) ==
  /\ t \in registered
  /\ future[t] = "pending"
  /\ future' = [future EXCEPT ![t] = status]
  /\ answer' = [answer EXCEPT ![t] = status]
  /\ UNCHANGED <<pc, registered, semaphoreVars, taskVars, audit, result>>

(* request_approval() returns the future's status.                         *)
Approved(t) ==
  /\ pc[t] = "awaiting"
  /\ future[t] = "approved"
  /\ registered' = registered \ {t}
  /\ Enter(t)
  /\ UNCHANGED <<future, answer, audit, result>>

Denied(t) ==
  /\ pc[t] = "awaiting"
  /\ future[t] = "denied"
  /\ registered' = registered \ {t}
  /\ Log(t, "approval_denied")
  /\ Goto(t, "done")
  /\ Return(t, "failure")
  /\ UNCHANGED <<future, answer, semaphoreVars, taskVars>>

(* Slip: only a denial stops the call, a timeout does not.                 *)
TimesOutProceeding(t) ==
  /\ pc[t] = "awaiting"
  /\ registered' = registered \ {t}
  /\ Enter(t)
  /\ UNCHANGED <<future, answer, audit, result>>

(* wait_for() times out: also when an answer came in the same turn of the  *)
(* event loop and the task has not seen it yet.                            *)
TimesOut(t) ==
  /\ pc[t] = "awaiting"
  /\ registered' = registered \ {t}
  /\ Log(t, "approval_timed_out")
  /\ Goto(t, "done")
  /\ Return(t, "failure")
  /\ UNCHANGED <<future, answer, semaphoreVars, taskVars>>

-----------------------------------------------------------------------------
(* A permit handed over by a release: enter the block.                     *)
Granted(t) ==
  /\ pc[t] = "granted"
  /\ Goto(t, "executing")
  /\ runningTasks' = runningTasks \cup {t}
  /\ UNCHANGED <<approvalVars, semaphoreVars, cancelled, audit, result>>

(* The tool ended; the entry is written before the activity notification   *)
(* is sent, and the call waits for that to be sent.                        *)
ToolEnds(t, status, place) ==
  /\ pc[t] = "executing"
  /\ t \notin cancelled
  /\ Log(t, status)
  /\ Goto(t, place)
  /\ UNCHANGED <<approvalVars, semaphoreVars, taskVars, result>>

ToolSucceeds(t) == ToolEnds(t, "success", "succeeding")
ToolFails(t) == ToolEnds(t, "execution_error", "failing")

(* Slip: the kill of a finished tool is not recorded.                      *)
KilledUnrecorded(t) ==
  /\ pc[t] \in {"executing", "succeeding"}
  /\ t \in cancelled
  /\ \/ pc[t] = "executing" /\ Log(t, "killed")
     \/ pc[t] = "succeeding" /\ UNCHANGED audit
  /\ Goto(t, "killing")
  /\ UNCHANGED <<approvalVars, semaphoreVars, taskVars, result>>

(* CancelledError inside the try block: in the tool, or while the success  *)
(* is being reported.                                                      *)
Killed(t) ==
  /\ pc[t] \in {"executing", "succeeding"}
  /\ t \in cancelled
  /\ Log(t, "killed")
  /\ Goto(t, "killing")
  /\ UNCHANGED <<approvalVars, semaphoreVars, taskVars, result>>

(* Leave the block to place: the first that waits gets the permit.         *)
Release(t, place) ==
  LET g == taken[t] IN
  /\ \/ /\ waiters[g] # <<>>
        /\ pc' = [pc EXCEPT ![t] = place, ![Head(waiters[g])] = "granted"]
        /\ waiters' = [waiters EXCEPT ![g] = Tail(@)]
        /\ UNCHANGED permits
     \/ /\ waiters[g] = <<>>
        /\ Goto(t, place)
        /\ permits' = [permits EXCEPT ![g] = @ + 1]
        /\ UNCHANGED waiters
  /\ UNCHANGED <<semaphore, taken>>

(* The notification was sent: return, and leave the block.                 *)
Finish(t) ==
  /\ \/ pc[t] = "succeeding" /\ t \notin cancelled /\ Return(t, "success")
     \/ pc[t] = "failing" /\ t \notin cancelled /\ Return(t, "failure")
     \/ pc[t] = "killing" /\ Return(t, "failure")
  /\ Release(t, "done")
  /\ runningTasks' = runningTasks \ {t}
  /\ UNCHANGED <<approvalVars, cancelled, audit>>

(* Slip: the permit is released only on the way out without an error.      *)
AbortKeepingPermit(t) ==
  /\ pc[t] = "failing"
  /\ t \in cancelled
  /\ Goto(t, "aborted")
  /\ runningTasks' = runningTasks \ {t}
  /\ UNCHANGED <<approvalVars, semaphoreVars, cancelled, audit, result>>

(* CancelledError while a failure is being reported is raised inside an    *)
(* except clause, where nothing catches it: it ends the caller's task.     *)
Abort(t) ==
  /\ pc[t] = "failing"
  /\ t \in cancelled
  /\ Release(t, "aborted")
  /\ runningTasks' = runningTasks \ {t}
  /\ UNCHANGED <<approvalVars, cancelled, audit, result>>

-----------------------------------------------------------------------------
(* Slip: pending approvals are forgotten instead of denied.                *)
HandleKillForgetting ==
  /\ semaphore < MaxKills
  /\ registered' = {}
  /\ cancelled' = cancelled \cup runningTasks
  /\ runningTasks' = {}
  /\ semaphore' = semaphore + 1
  /\ UNCHANGED <<pc, future, permits, waiters, taken, audit, result, answer>>

(* handle_kill(): one step, no await in it.                                *)
HandleKill ==
  /\ semaphore < MaxKills
  /\ future' = [t \in Calls |->
       IF t \in registered /\ future[t] = "pending" THEN "denied"
       ELSE future[t]]
  /\ registered' = {}
  /\ cancelled' = cancelled \cup runningTasks
  /\ runningTasks' = {}
  /\ semaphore' = semaphore + 1
  /\ UNCHANGED <<pc, permits, waiters, taken, audit, result, answer>>

-----------------------------------------------------------------------------
(* What a call does on its own, and what others do to it.                  *)
Step(t) ==
  \/ Validated(t)
  \/ ValidationFails(t)
  \/ Approved(t)
  \/ Denied(t)
  \/ TimesOut(t)
  \/ Granted(t)
  \/ ToolSucceeds(t)
  \/ ToolFails(t)
  \/ Killed(t)
  \/ Finish(t)
  \/ Abort(t)

Next ==
  \/ \E t \in Calls :
       \/ Begin(t)
       \/ Refuse(t)
       \/ Step(t)
       \/ Resolve(t, "approved")
       \/ Resolve(t, "denied")
  \/ HandleKill

(* Validation, tools and notifications end, approvals time out, and the    *)
(* event loop runs the tasks that are ready.                               *)
Spec == Init /\ [][Next]_vars /\ \A t \in Calls : WF_vars(Step(t))

-----------------------------------------------------------------------------
(* The next kill reaches every call that is under way in the block or waits*)
(* for an answer: none slips out of the set handle_kill() works on, and    *)
(* none stays in it after it ended.                                        *)
KillReaches ==
  \A t \in Calls :
    /\ pc[t] \in {"executing", "succeeding", "failing"}
         => t \in runningTasks \cup cancelled
    /\ pc[t] = "awaiting" /\ future[t] = "pending" => t \in registered
    /\ t \in runningTasks => pc[t] \in Inside
    /\ t \in registered => pc[t] = "awaiting"

(* No permit is lost or made up, over kills and handovers: each semaphore  *)
(* has as many as it had, and none is free while a call waits for it.      *)
PermitsExact ==
  \A g \in Generations :
    /\ permits[g] + Cardinality(Holders(g)) = MaxConcurrent
    /\ permits[g] > 0 => waiters[g] = <<>>

(* A call whose tool needs approval is past the approval only if the user  *)
(* approved it: no timeout, kill or second answer lets it through.         *)
ApprovedByUser ==
  \A t \in NeedsApproval :
    pc[t] \in Inside \cup {"waiting"} => answer[t] = "approved"

(* The result agrees with the audit trail: a success is what was recorded  *)
(* last, and a call recorded as killed or denied is never reported as one. *)
AuditAgrees ==
  \A t \in Calls :
    pc[t] = "done" =>
      (result[t] = "success" <=>
         audit[t] # <<>> /\ audit[t][Len(audit[t])] = "success")

(* A call the kill switch cancelled never reports a success, not even when *)
(* its tool was done and only the notification was left to send.           *)
CancelledNeverSucceeds == \A t \in cancelled : result[t] # "success"
=============================================================================
