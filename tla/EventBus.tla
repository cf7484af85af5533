------------------------------ MODULE EventBus ------------------------------
(***************************************************************************)
(* The asynchronous publish/subscribe bus of backend/nobla/events/bus.py.  *)
(*                                                                         *)
(* One dispatch task takes events from a heap ordered by (-priority,       *)
(* sequence), runs every matching handler concurrently and waits for all   *)
(* of them before it takes the next event.  emit() never waits for a       *)
(* dispatch: it only queues, or drops a non-urgent event when the queue is *)
(* full.  stop() wakes the task with a sentinel and the task drains what   *)
(* is left.  An action is the code a task runs between two of its awaits.  *)
(***************************************************************************)
EXTENDS Integers, Sequences, FiniteSets

CONSTANTS
  Events,            \* the events that may be emitted, each at most once
  Priority,          \* the priority field of each event
  Subscriptions,     \* (pattern, handler) pairs that may be registered
  Matching,          \* the subscriptions whose pattern matches an event
  OverflowWatchers,  \* the subscriptions whose pattern matches bus.overflow
  MaxQueueDepth,     \* max_queue_depth
  UrgentThreshold,   \* URGENT_PRIORITY_THRESHOLD
  Sentinel           \* the object stop() queues to wake the dispatch task

ASSUME BusConstants ==
  /\ Priority \in [Events -> Nat]
  /\ Matching \in [Events -> SUBSET Subscriptions]
  /\ OverflowWatchers \subseteq Subscriptions
  /\ MaxQueueDepth \in Nat
  /\ UrgentThreshold \in Nat \ {0}
  /\ Sentinel \notin Events

VARIABLES
  subscribed,  \* _handlers: the registered subscriptions
  queue,       \* _queue: a set of heap entries
  pending,     \* _pending_count
  sequence,    \* _sequence
  running,     \* _running
  loop,        \* where the dispatch task is ("none": there is no task)
  current,     \* the event being dispatched, or Sentinel
  active,      \* handler tasks of the current event still running
  warning,     \* <<subscription, dropped event>>: bus.overflow handlers running
  fate,        \* history: what became of each event
  accepted,    \* history: queued events, in the order emit() queued them
  log          \* history: dispatched events, in dispatch order

busVars == <<subscribed, queue, pending, sequence, running, loop, current,
             active, warning>>
histVars == <<fate, accepted, log>>
vars == <<subscribed, queue, pending, sequence, running, loop, current,
          active, warning, fate, accepted, log>>

Entries == [prio : Int, seq : Nat, ev : Events \cup {Sentinel}]
Places == {"none", "top", "get", "invoke", "drain", "drain_invoke"}
Fates == {"new", "queued", "dispatching", "done", "dropped"}

Urgent(e) == Priority[e] >= UrgentThreshold

(* A slip the run must notice: priorities ignored.                         *)
BeforeByArrival(a, b) == a.seq < b.seq

(* The heap's order on entries, and its least entry.                       *)
Before(a, b) == a.prio < b.prio \/ (a.prio = b.prio /\ a.seq < b.seq)
IsHead(q) == q \in queue /\ \A r \in queue \ {q} : Before(q, r)

Queued == {q \in queue : q.ev # Sentinel}

TypeOK ==
  /\ subscribed \subseteq Subscriptions
  /\ queue \subseteq Entries
  /\ pending \in Nat
  /\ sequence \in Nat
  /\ running \in BOOLEAN
  /\ loop \in Places
  /\ current \in Events \cup {Sentinel}
  /\ active \subseteq Subscriptions
  /\ warning \subseteq Subscriptions \X Events
  /\ fate \in [Events -> Fates]
  /\ accepted \in Seq(Events)
  /\ log \in Seq(Events)

Init ==
  /\ subscribed = {}
  /\ queue = {}
  /\ pending = 0
  /\ sequence = 0
  /\ running = FALSE
  /\ loop = "none"
  /\ current = Sentinel
  /\ active = {}
  /\ warning = {}
  /\ fate = [e \in Events |-> "new"]
  /\ accepted = <<>>
  /\ log = <<>>

-----------------------------------------------------------------------------
(* Registration: handlers come and go at any time, also while the bus runs *)
(* the handlers of an event.                                               *)
Subscribe(s) ==
  /\ s \notin subscribed
  /\ subscribed' = subscribed \cup {s}
  /\ UNCHANGED <<queue, pending, sequence, running, loop, current, active,
                 warning, histVars>>

Unsubscribe(s) ==
  /\ s \in subscribed
  /\ subscribed' = subscribed \ {s}
  /\ UNCHANGED <<queue, pending, sequence, running, loop, current, active,
                 warning, histVars>>

-----------------------------------------------------------------------------
(* Slips: one event too many; urgent events dropped like the others.       *)
AdmitsOneMore(e) == pending <= MaxQueueDepth \/ Urgent(e)
AdmitsWithRoom(e) == pending < MaxQueueDepth

(* emit(): the queue has room, or the event is urgent.                     *)
Admits(e) == pending < MaxQueueDepth \/ Urgent(e)

EmitQueued(e) ==
  /\ fate[e] = "new"
  /\ Admits(e)
  /\ sequence' = sequence + 1
  /\ queue' = queue \cup
       {[prio |-> -Priority[e], seq |-> sequence + 1, ev |-> e]}
  /\ pending' = pending + 1
  /\ fate' = [fate EXCEPT ![e] = "queued"]
  /\ accepted' = Append(accepted, e)
  /\ UNCHANGED <<subscribed, running, loop, current, active, warning, log>>

(* emit() over capacity: the arriving non-urgent event is dropped and the  *)
(* emitter runs the bus.overflow handlers itself, outside the queue.       *)
EmitDropped(e) ==
  /\ fate[e] = "new"
  /\ ~Admits(e)
  /\ fate' = [fate EXCEPT ![e] = "dropped"]
  /\ warning' = warning \cup ((subscribed \cap OverflowWatchers) \X {e})
  /\ UNCHANGED <<subscribed, queue, pending, sequence, running, loop, current,
                 active, accepted, log>>

(* A bus.overflow handler returns or raises (_safe_invoke swallows it).    *)
WarningDone(s, e) ==
  /\ <<s, e>> \in warning
  /\ warning' = warning \ {<<s, e>>}
  /\ UNCHANGED <<subscribed, queue, pending, sequence, running, loop, current,
                 active, histVars>>

-----------------------------------------------------------------------------
(* start() and stop().  The application starts the bus before any service  *)
(* and calls stop() once, so start() never overlaps a stop() in progress.  *)
Start ==
  /\ ~running
  /\ loop = "none"
  /\ running' = TRUE
  /\ loop' = "top"
  /\ UNCHANGED <<subscribed, queue, pending, sequence, current, active,
                 warning, histVars>>

(* Slip: stop() only clears the flag, and does not wake the task.          *)
StopWithoutSentinel ==
  /\ running
  /\ running' = FALSE
  /\ UNCHANGED <<subscribed, queue, pending, sequence, loop, current, active,
                 warning, histVars>>

Stop ==
  /\ running
  /\ running' = FALSE
  /\ queue' = queue \cup {[prio |-> 0, seq |-> 0, ev |-> Sentinel]}
  /\ UNCHANGED <<subscribed, pending, sequence, loop, current, active,
                 warning, histVars>>

-----------------------------------------------------------------------------

(* Remove entry q and start a handler task per matching subscription.      *)
Dispatch(q, place) ==
  /\ queue' = queue \ {q}
  /\ pending' = IF pending > 0 THEN pending - 1 ELSE 0
  /\ current' = q.ev
  /\ active' = subscribed \cap Matching[q.ev]
  /\ loop' = place
  /\ fate' = [fate EXCEPT ![q.ev] = "dispatching"]
  /\ log' = Append(log, q.ev)
  /\ UNCHANGED <<subscribed, sequence, running, warning, accepted>>

(* The loop test failed: go on to _drain().                                *)
LoopExit ==
  /\ loop = "top"
  /\ ~running
  /\ loop' = "drain"
  /\ UNCHANGED <<subscribed, queue, pending, sequence, running, current,
                 active, warning, histVars>>

(* The loop test succeeded and the queue is empty: wait in queue.get().    *)
LoopWait ==
  /\ loop = "top"
  /\ running
  /\ queue = {}
  /\ loop' = "get"
  /\ UNCHANGED <<subscribed, queue, pending, sequence, running, current,
                 active, warning, histVars>>

(* queue.get() returns: at once after a successful loop test, or when the  *)
(* waiting task is woken, which does not test running again.               *)
CanTake == loop = "get" \/ (loop = "top" /\ running)

LoopTake(q) ==
  /\ CanTake
  /\ IsHead(q)
  /\ q.ev # Sentinel
  /\ Dispatch(q, "invoke")

LoopTakeSentinel(q) ==
  /\ CanTake
  /\ IsHead(q)
  /\ q.ev = Sentinel
  /\ queue' = queue \ {q}
  /\ loop' = "drain"
  /\ UNCHANGED <<subscribed, pending, sequence, running, current, active,
                 warning, histVars>>

(* A handler task ends, by returning or by raising.                        *)
HandlerDone(s) ==
  /\ s \in active
  /\ active' = active \ {s}
  /\ UNCHANGED <<subscribed, queue, pending, sequence, running, loop, current,
                 warning, histVars>>

(* gather() returns when the last handler task has ended.                  *)
InvokeDone ==
  /\ loop \in {"invoke", "drain_invoke"}
  /\ active = {}
  /\ loop' = IF loop = "invoke" THEN "top" ELSE "drain"
  /\ fate' = [fate EXCEPT ![current] = "done"]
  /\ current' = Sentinel
  /\ UNCHANGED <<subscribed, queue, pending, sequence, running, active,
                 warning, accepted, log>>

(* _drain(): a left-over sentinel is skipped, every event is dispatched.   *)
DrainTake(q) ==
  /\ loop = "drain"
  /\ IsHead(q)
  /\ q.ev # Sentinel
  /\ Dispatch(q, "drain_invoke")

DrainSkip(q) ==
  /\ loop = "drain"
  /\ IsHead(q)
  /\ q.ev = Sentinel
  /\ queue' = queue \ {q}
  /\ UNCHANGED <<subscribed, pending, sequence, running, loop, current,
                 active, warning, histVars>>

(* Slip: the drain stops before the queue is empty.                        *)
DrainAbandoned ==
  /\ loop = "drain"
  /\ loop' = "none"
  /\ UNCHANGED <<subscribed, queue, pending, sequence, running, current,
                 active, warning, histVars>>

(* The queue is empty: the task ends and stop() clears _dispatch_task.     *)
DrainDone ==
  /\ loop = "drain"
  /\ queue = {}
  /\ loop' = "none"
  /\ UNCHANGED <<subscribed, queue, pending, sequence, running, current,
                 active, warning, histVars>>

-----------------------------------------------------------------------------
Take(q) ==
  \/ LoopTake(q)
  \/ LoopTakeSentinel(q)
  \/ DrainTake(q)
  \/ DrainSkip(q)

DispatchTask ==
  \/ LoopExit
  \/ LoopWait
  \/ InvokeDone
  \/ DrainDone
  \/ \E q \in queue : Take(q)

Environment ==
  \/ \E s \in Subscriptions : Subscribe(s) \/ Unsubscribe(s)
  \/ \E e \in Events : EmitQueued(e) \/ EmitDropped(e)
  \/ Start
  \/ Stop

Next ==
  \/ DispatchTask
  \/ \E s \in Subscriptions : HandlerDone(s)
  \/ \E s \in Subscriptions, e \in Events : WarningDone(s, e)
  \/ Environment

(* The event loop runs every ready task; handlers are assumed to return.   *)
(* Nothing obliges anyone to emit, subscribe, start or stop.               *)
Fairness ==
  /\ WF_vars(DispatchTask)
  /\ \A s \in Subscriptions : WF_vars(HandlerDone(s))

Spec == Init /\ [][Next]_vars /\ Fairness

-----------------------------------------------------------------------------
(* The counter emit() tests against max_queue_depth is exactly the number  *)
(* of events in the queue: the sentinel is never counted, and no event is  *)
(* counted twice or forgotten by the loop, the drain or a restart.         *)
PendingExact == pending = Cardinality(Queued)

(* However many urgent events are let in over capacity, the non-urgent     *)
(* backlog stays within max_queue_depth.                                   *)
BacklogBounded ==
  Cardinality({q \in Queued : ~Urgent(q.ev)}) <= MaxQueueDepth

(* Both, whatever was emitted, drained and restarted (bus.py:105).         *)
DepthKept == PendingExact /\ BacklogBounded

(* Every event is in exactly one place: an event emit() accepted is in the *)
(* queue, in the hands of the dispatch task, or dispatched; an urgent one  *)
(* is never dropped.                                                       *)
NothingLost ==
  /\ \A e \in Events : fate[e] = "queued" <=> \E q \in queue : q.ev = e
  /\ \A e \in Events : fate[e] = "dispatching" <=> current = e
  /\ \A e \in Events : fate[e] = "dropped" => ~Urgent(e)

(* The bus implements the channel its users rely on, through the loop, the *)
(* drain at shutdown and a restart: no event is lost, duplicated or        *)
(* overtaken, and only non-urgent events are refused.                      *)
Channel == INSTANCE EventChannel WITH
             delivered <- log,
             refused <- {e \in Events : fate[e] = "dropped"}
ImplementsChannel == Channel!Spec

(* Handlers of different events never overlap: the next event is taken     *)
(* only when the gather() of the previous one is complete.                 *)
NoOverlap ==
  [][log' # log => active = {} /\ \A e \in Events : fate[e] # "dispatching"]_vars

(* An event queued while there is a dispatch task is dispatched, also when *)
(* it arrives during stop(): the task ends only with an empty queue.       *)
AcceptedIsDispatched ==
  \A e \in Events : (fate[e] = "queued" /\ loop # "none") ~> fate[e] = "done"

(* stop() returns: the sentinel wakes a task that waits in queue.get().    *)
StopReturns == (~running /\ loop # "none") ~> loop = "none"
=============================================================================
