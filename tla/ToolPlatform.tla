---------------------------- MODULE ToolPlatform ----------------------------
(***************************************************************************)
(* The kill switch, the tool pipeline and the WebSocket gateway together,  *)
(* as backend/nobla/gateway/lifespan.py wires them:                        *)
(*                                                                         *)
(*  - handle_kill() is the first soft-kill callback, so it runs in the     *)
(*    step that closes the gate;                                           *)
(*  - the endpoint handles the messages of one connection one at a time,   *)
(*    so a connection is not read while one of its calls is in progress;   *)
(*  - the gate lets nothing but system.resume (and system.health) through  *)
(*    unless the server is running;                                        *)
(*  - agents call the pipeline directly, one call at a time, past the gate.*)
(***************************************************************************)
EXTENDS Integers, Sequences, FiniteSets

CONSTANTS
  Calls, NeedsApproval, MaxConcurrent, MaxKills,  \* see ToolExecutor
  Requests, WsRequests, Grace, None,              \* see KillSwitch
  Connections,  \* WebSocket connections
  Agents,       \* agent instances
  CallerOf      \* the connection or the agent that makes each call

ASSUME PlatformConstants ==
  /\ Connections \cap Agents = {}
  /\ CallerOf \in [Calls -> Connections \cup Agents]

VARIABLES
  state, request, timer, left, current, owner, age,
  pc, future, registered, semaphore, permits, waiters, taken, runningTasks,
  cancelled, audit, result, answer

KS == INSTANCE KillSwitch
TE == INSTANCE ToolExecutor

killVars == <<state, request, timer, left, current, owner, age>>
toolVars == <<pc, future, registered, semaphore, permits, waiters, taken,
              runningTasks, cancelled, audit, result, answer>>
vars == <<killVars, toolVars>>

Init == KS!Init /\ TE!Init

-----------------------------------------------------------------------------
InProgress(t) == pc[t] # "idle" /\ ~TE!Ended(t)
Idle(caller) == \A t \in Calls : CallerOf[t] = caller => ~InProgress(t)

(* The endpoint is back in receive_text(), and was not ended by a          *)
(* CancelledError that came out of a call.                                 *)
Readable(c) ==
  /\ Idle(c)
  /\ \A t \in Calls : CallerOf[t] = c => pc[t] # "aborted"

(* A message that the gate lets through.                                   *)
Admitted(c) == Readable(c) /\ state = "running"

Arrive(t) ==
  /\ \/ CallerOf[t] \in Connections /\ Admitted(CallerOf[t])
     \/ CallerOf[t] \in Agents /\ Idle(CallerOf[t])
  /\ TE!Begin(t) \/ TE!Refuse(t)
  /\ UNCHANGED killVars

(* tool.approval_response.  The request was sent to the caller's connection*)
(* (an agent has none), the app may answer on any of its connections.      *)
Respond(t) ==
  /\ CallerOf[t] \in Connections
  /\ \E c \in Connections : Admitted(c)
  /\ \E status \in {"approved", "denied"} : TE!Resolve(t, status)
  /\ UNCHANGED killVars

Work(t) == TE!Step(t) /\ UNCHANGED killVars

(* system.kill and POST /api/kill.                                         *)
Heard(k) == k \in WsRequests => \E c \in Connections : Readable(c)

Kill(k) ==
  /\ Heard(k)
  /\ \/ KS!SoftKill(k) /\ TE!HandleKill
     \/ KS!SecondKill(k) /\ UNCHANGED toolVars
     \/ KS!LateKill(k) /\ UNCHANGED toolVars
     \/ KS!RejectKill(k) /\ UNCHANGED toolVars

Resume ==
  /\ \E c \in Connections : Readable(c)
  /\ KS!Resume
  /\ UNCHANGED toolVars

Timers ==
  /\ KS!Tick \/ \E k \in Requests : KS!StartTimer(k) \/ KS!TimerTask(k)
  /\ UNCHANGED toolVars

Next ==
  \/ \E t \in Calls : Arrive(t) \/ Respond(t) \/ Work(t)
  \/ \E k \in Requests : Kill(k)
  \/ Resume
  \/ Timers

Spec ==
  /\ Init
  /\ [][Next]_vars
  /\ WF_vars(Timers)
  /\ \A t \in Calls : WF_vars(Work(t))

-----------------------------------------------------------------------------
(* The step that closes the gate catches every call there is to catch:     *)
(* running tools are cancelled, unanswered approvals are denied.           *)
KillCatches ==
  [][state = "running" /\ state' = "soft_killing" =>
       \A t \in Calls :
         /\ pc[t] \in {"executing", "succeeding", "failing"} => t \in cancelled'
         /\ pc[t] = "awaiting" /\ answer[t] = "none" => future'[t] = "denied"]_vars

(* A server that stays killed falls silent: whatever calls the kill found, *)
(* waiting for a permit, for the user or for their tool, come to an end.   *)
FallsSilent ==
  <>[](state = "killed") => <>[](\A t \in Calls : ~InProgress(t))

(* Phase 4 design: the kill switch stops all running tools.  In a killed   *)
(* server no tool runs that has not been told to stop.                     *)
KilledIsQuiet ==
  state = "killed" => \A t \in Calls : pc[t] = "executing" => t \in cancelled

(* approval.py: the approval manager awaits the user's response.  The      *)
(* connection that was asked can be read while its call awaits the answer. *)
AnswerCanBeRead ==
  \A t \in Calls :
    pc[t] = "awaiting" /\ CallerOf[t] \in Connections => Readable(CallerOf[t])
=============================================================================
