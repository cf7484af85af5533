---------------------------- MODULE MCAutomation ----------------------------
(***************************************************************************)
(* The three services of the automation package, each on an instance of    *)
(* its own.  They meet only on the event bus, which has a specification of *)
(* its own, so a behaviour is one of any of them, and part says of which.  *)
(*                                                                         *)
(* Workflows: two, the first with two triggers; two events of one          *)
(* correlation and one that an execution emits.  Webhooks: one inbound     *)
(* hook; mirror has its prefix, alarm the one of dead letters.             *)
(***************************************************************************)
EXTENDS WorkflowTriggers, TLC

CONSTANTS w1, w2, a, b, c, e1, e2, own,
          Tasks, OneShot, MaxTasks, MaxRuns,
          Inbound, Outbound, Hears, DeadLetter,
          MaxHooks, MaxRetries, MaxReceived, MaxDeliveries,
          once, often, other, push, mirror, alarm

\* A hook is inbound or outbound.
ASSUME HookConstants ==
  Inbound \cap Outbound = {} /\ IsFiniteSet(Outbound) /\ MaxRetries \in Nat

VARIABLES part,
          at, future, pending, tasks, job, run, count, running, answer, removed, spent, task,
          hook, log, dead, bus, deliveries, received

scheduler == <<at, future, pending, tasks, task, job, run, count, running, answer, removed, spent>>
webhooks == <<hook, log, dead, bus, deliveries, received>>

S == INSTANCE Scheduler WITH status <- task, runs <- count
W == INSTANCE Webhooks WITH MaxPerUser <- MaxHooks

MCTriggersOf == w1 :> <<a, b>> @@ w2 :> <<c>>
MCCorrelation == e1 :> e1 @@ e2 :> e1 @@ own :> own
MCVerdict == a :> (e1 :> "match" @@ e2 :> "match" @@ own :> "none")
          @@ b :> (e1 :> "none" @@ e2 :> "match" @@ own :> "raises")
          @@ c :> (e1 :> "match" @@ e2 :> "none" @@ own :> "match")
MCHears == [h \in Outbound |-> IF h = mirror THEN {push, mirror} ELSE {alarm, DeadLetter}]

SuiteInit == part \in {"workflows", "scheduler", "webhooks"} /\ Init /\ S!Init /\ W!Init

Workflow == part = "workflows" /\ Next /\ UNCHANGED <<part, scheduler, webhooks>>
Scheduling == part = "scheduler" /\ S!Next /\ UNCHANGED <<part, vars, webhooks>>
Webhook == part = "webhooks" /\ W!Next /\ UNCHANGED <<part, vars, scheduler>>

\* Nothing a part must do is enabled before its first step, so the fairness of a
\* part asks nothing of a behaviour of another.
SuiteSpec ==
  /\ SuiteInit
  /\ [][Workflow \/ Scheduling \/ Webhook]_<<part, vars, scheduler, webhooks>>
  /\ Fairness /\ W!Fairness

JobsKept == S!JobsKept
BooksKept == W!BooksKept

\* What is handled for others comes to an end: an event the matcher has been
\* given, and the delivery of a webhook (trigger_matcher.py:190, outbound.py:194).
HandlingEnds == EveryEventHandled /\ W!DeliveriesEnd
=============================================================================
