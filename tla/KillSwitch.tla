----------------------------- MODULE KillSwitch -----------------------------
(***************************************************************************)
(* The two-stage kill switch of backend/nobla/security/killswitch.py.      *)
(*                                                                         *)
(* soft_kill() closes the gate, runs the soft-kill callbacks one after the *)
(* other and then starts a timer task that hard-kills after grace_period.  *)
(* Requests for it arrive over HTTP, which always reaches the switch, or   *)
(* over a WebSocket, whose gate refuses them unless the server is running. *)
(* resume() opens the gate again and leaves the timers alone.              *)
(***************************************************************************)
EXTENDS Integers

CONSTANTS
  Requests,    \* the kill requests; request k starts at most one timer task
  WsRequests,  \* those that arrive over a WebSocket connection
  Grace,       \* grace_period, in ticks
  None         \* no timer task

ASSUME KillSwitchConstants ==
  /\ WsRequests \subseteq Requests
  /\ Grace \in Nat \ {0}
  /\ None \notin Requests

VARIABLES
  state,    \* KillState
  request,  \* how far each request is
  timer,    \* the timer task each request started
  left,     \* ticks until that timer task wakes
  current,  \* _hard_kill_task
  owner,    \* history: the request that closed the gate last
  age       \* history: ticks since then, up to Grace

killVars == <<state, request, timer, left, current, owner, age>>

TypeOK ==
  /\ state \in {"running", "soft_killing", "killed"}
  /\ request \in [Requests -> {"new", "callbacks", "ended", "rejected"}]
  /\ timer \in [Requests -> {"none", "sleeping", "cancelled", "ended"}]
  /\ left \in [Requests -> 0 .. Grace]
  /\ current \in Requests \cup {None}
  /\ owner \in Requests \cup {None}
  /\ age \in 0 .. Grace

Init ==
  /\ state = "running"
  /\ request = [k \in Requests |-> "new"]
  /\ timer = [k \in Requests |-> "none"]
  /\ left = [k \in Requests |-> 0]
  /\ current = None
  /\ owner = None
  /\ age = 0

-----------------------------------------------------------------------------
(* hard_kill(): the timer started last is cancelled if it still sleeps.    *)
(* The hard-kill callback (agent_executor.kill_all) runs without a pause.  *)
(* A timer task that hard-kills cancels itself, and ends all the same.     *)
HardKill(fired) ==
  /\ state' = "killed"
  /\ timer' = [k \in Requests |->
       IF k \in fired THEN "ended"
       ELSE IF k = current /\ timer[k] = "sleeping" THEN "cancelled"
       ELSE timer[k]]

(* soft_kill() on a running server: the gate closes before the callbacks.  *)
SoftKill(k) ==
  /\ request[k] = "new"
  /\ state = "running"
  /\ state' = "soft_killing"
  /\ request' = [request EXCEPT ![k] = "callbacks"]
  /\ owner' = k
  /\ age' = 0
  /\ UNCHANGED <<timer, left, current>>

(* A second soft_kill() during the grace period is a hard kill.            *)
SecondKill(k) ==
  /\ request[k] = "new"
  /\ k \notin WsRequests
  /\ state = "soft_killing"
  /\ HardKill({})
  /\ request' = [request EXCEPT ![k] = "ended"]
  /\ UNCHANGED <<left, current, owner, age>>

LateKill(k) ==
  /\ request[k] = "new"
  /\ k \notin WsRequests
  /\ state = "killed"
  /\ request' = [request EXCEPT ![k] = "ended"]
  /\ UNCHANGED <<state, timer, left, current, owner, age>>

(* handle_message(): system.kill is not among KILL_EXEMPT_METHODS.         *)
RejectKill(k) ==
  /\ request[k] = "new"
  /\ k \in WsRequests
  /\ state # "running"
  /\ request' = [request EXCEPT ![k] = "rejected"]
  /\ UNCHANGED <<state, timer, left, current, owner, age>>

(* The callbacks are done, whatever the state is by now: start the timer.  *)
StartTimer(k) ==
  /\ request[k] = "callbacks"
  /\ request' = [request EXCEPT ![k] = "ended"]
  /\ timer' = [timer EXCEPT ![k] = "sleeping"]
  /\ left' = [left EXCEPT ![k] = Grace]
  /\ current' = k
  /\ UNCHANGED <<state, owner, age>>

Resume ==
  /\ state' = "running"
  /\ UNCHANGED <<request, timer, left, current, owner, age>>

-----------------------------------------------------------------------------
(* Slip: the timer task does not look at the state when it wakes.          *)
TimerFiresBlindly(k) ==
  /\ timer[k] = "sleeping"
  /\ left[k] = 0
  /\ HardKill({k})
  /\ UNCHANGED <<request, left, current, owner, age>>

(* _delayed_hard_kill() wakes: only a server still soft-killing is killed. *)
TimerFires(k) ==
  /\ timer[k] = "sleeping"
  /\ left[k] = 0
  /\ \/ state = "soft_killing" /\ HardKill({k})
     \/ /\ state # "soft_killing"
        /\ timer' = [timer EXCEPT ![k] = "ended"]
        /\ UNCHANGED state
  /\ UNCHANGED <<request, left, current, owner, age>>

(* The CancelledError is swallowed and the timer task ends.                *)
TimerCancelled(k) ==
  /\ timer[k] = "cancelled"
  /\ timer' = [timer EXCEPT ![k] = "ended"]
  /\ UNCHANGED <<state, request, left, current, owner, age>>

(* Slip: a sleeper that is due is counted down once more.                  *)
AsleepOrDue == {k \in Requests : timer[k] = "sleeping"}

Asleep == {k \in Requests : timer[k] = "sleeping" /\ left[k] > 0}

Tick ==
  /\ Asleep # {} \/ age < Grace
  /\ left' = [k \in Requests |-> IF k \in Asleep THEN left[k] - 1 ELSE left[k]]
  /\ age' = IF age < Grace THEN age + 1 ELSE age
  /\ UNCHANGED <<state, request, timer, current, owner>>

-----------------------------------------------------------------------------
Answer(k) == SoftKill(k) \/ SecondKill(k) \/ LateKill(k) \/ RejectKill(k)
TimerTask(k) == TimerFires(k) \/ TimerCancelled(k)

Next ==
  \/ \E k \in Requests : Answer(k) \/ StartTimer(k) \/ TimerTask(k)
  \/ Resume
  \/ Tick

(* Time passes, the event loop runs its tasks, and callbacks return.       *)
Fairness ==
  /\ WF_killVars(Tick)
  /\ \A k \in Requests : WF_killVars(StartTimer(k)) /\ WF_killVars(TimerTask(k))

Spec == Init /\ [][Next]_killVars /\ Fairness

-----------------------------------------------------------------------------
(* A soft kill cannot stall: while the server is soft-killing, the request *)
(* that closed the gate still runs callbacks or its own timer still sleeps,*)
(* whatever earlier kills, resumes and stale timers did in between.        *)
KillCannotStall ==
  state = "soft_killing" =>
    /\ owner # None
    /\ request[owner] = "callbacks" \/ timer[owner] = "sleeping"

(* A resumed server is never killed by what is left of an earlier kill: it *)
(* leaves the running state through a new soft kill only.                  *)
ResumeHolds == [][state = "running" => state' # "killed"]_killVars

(* The grace period ends: a soft-killing server is killed or resumed.      *)
KillCompletes == state = "soft_killing" ~> state # "soft_killing"

(* The server waits the whole grace period, unless a second request comes: *)
(* a timer hard-kills only Grace ticks after the gate closed.              *)
GraceRespected ==
  [][(\E k \in Requests : TimerFires(k)) /\ state' = "killed" /\ state # "killed"
       => age = Grace]_killVars
=============================================================================
