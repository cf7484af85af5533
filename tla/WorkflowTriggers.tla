-------------------------- MODULE WorkflowTriggers --------------------------
(***************************************************************************)
(* Workflows and the events that start them: the service of                *)
(* automation/workflows/service.py and the matcher of trigger_matcher.py.  *)
(*                                                                         *)
(* The matcher is one handler of the event bus, which hands it one event   *)
(* at a time.  It walks through the dictionary of registered triggers and  *)
(* awaits, in the middle of the walk, each workflow that it starts.        *)
(* Meanwhile clients create, change and delete workflows, and with them    *)
(* the entries of that dictionary.  Between two such awaits nobody else    *)
(* runs.                                                                   *)
(*                                                                         *)
(* A dictionary is a sequence of entries: a removed one leaves a hole, a   *)
(* new one is put at the end, and an insertion that finds no room first    *)
(* squeezes the holes out.  A walk keeps its position, the number of       *)
(* entries it still expects, and the size it started with.                 *)
(***************************************************************************)
EXTENDS Integers, Sequences, FiniteSets

CONSTANTS
  Workflows,     \* the workflows that may ever be stored
  Triggers,      \* their triggers
  TriggersOf,    \* Workflow.triggers, in order
  Events,        \* the events that may ever be emitted
  Own,           \* those that executions of workflows emit
  Correlation,   \* NoblaEvent.correlation_id
  Verdict,       \* whether a trigger's pattern and conditions accept an event
  MaxPerUser,    \* max_workflows_per_user; there is one user
  MaxActive,     \* max_concurrent_executions
  Window,        \* deduplication_window_seconds, in ticks
  MaxEntries,    \* a bound on the entries of the dictionary with its holes
  None           \* no trigger, no workflow, no event

Correlations == {Correlation[e] : e \in Events}

ASSUME TriggerConstants ==
  /\ TriggersOf \in [Workflows -> Seq(Triggers)]
  /\ \A w, v \in Workflows : \A i \in DOMAIN TriggersOf[w], j \in DOMAIN TriggersOf[v] :
       TriggersOf[w][i] = TriggersOf[v][j] => w = v /\ i = j
  /\ \A t \in Triggers : \E w \in Workflows : \E i \in DOMAIN TriggersOf[w] : TriggersOf[w][i] = t
  /\ Own \subseteq Events
  /\ DOMAIN Correlation = Events
  /\ Verdict \in [Triggers -> [Events -> {"match", "none", "raises"}]]
  /\ MaxPerUser \in Nat \ {0} /\ MaxActive \in Nat \ {0}
  /\ Window \in Nat \ {0} /\ MaxEntries \in Nat \ {0}
  /\ None \notin Workflows \cup Triggers \cup Events
  /\ None \notin [trigger : Triggers \cup {None}, workflow : Workflows]

\* An absent field is no match; values that cannot be compared raise TypeError.
Accepts(t, e) == Verdict[t][e]

WorkflowOf(t) == CHOOSE w \in Workflows : \E i \in DOMAIN TriggersOf[w] : TriggersOf[w][i] = t

Slots == 1 .. MaxActive + 1  \* running executions; one more than the limit

VARIABLES
  status,   \* Workflow.status and whether the workflow is in _workflows
  table,    \* TriggerMatcher._triggers
  age,      \* TriggerMatcher._recent: ticks since; Window where there is none
  queue,    \* the events the bus has accepted and not yet dispatched
  walk,     \* _on_event(): the event, and the walk through _triggers
  runs,     \* the executions under way: workflow, and trigger or None
  active,   \* _active_executions
  listed,   \* those that _executions holds
  emitted,  \* history: the events emitted
  visits,   \* history: how often this walk came to each trigger
  touched,  \* history: whether _triggers changed during this walk
  since     \* history: ticks since a trigger last started a workflow

vars == <<status, table, age, queue, walk, runs, active, listed, emitted,
          visits, touched, since>>
clock == <<age, since>>
walkVars == <<walk, visits>>
runVars == <<runs, active, listed>>

Idle == [at |-> "idle", event |-> None, left |-> 0, pos |-> 0, used |-> 0]

Init ==
  /\ status = [w \in Workflows |-> "absent"]
  /\ table = <<>>
  /\ age = [k \in Triggers \X Correlations |-> Window]
  /\ queue = {}
  /\ walk = Idle
  /\ runs = [s \in Slots |-> None]
  /\ active = 0
  /\ listed = {}
  /\ emitted = {}
  /\ visits = [t \in Triggers |-> 0]
  /\ touched = FALSE
  /\ since = [k \in Triggers \X Correlations |-> Window]

-----------------------------------------------------------------------------
(* The dictionary of triggers.                                             *)
Live(d) == {i \in DOMAIN d : d[i] # None}
Size(d) == Cardinality(Live(d))
Registered == {table[i] : i \in DOMAIN table} \ {None}

\* unregister_workflow()
Without(w) == [i \in DOMAIN table |->
                 IF \E j \in DOMAIN TriggersOf[w] : TriggersOf[w][j] = table[i]
                 THEN None ELSE table[i]]

\* What is left without the holes, in order; there is one such sequence.
Squeezed(d) ==
  {[k \in 1 .. Size(d) |-> d[f[k]]] : f \in
     {g \in [1 .. Size(d) -> Live(d)] : \A j, k \in 1 .. Size(d) : j < k => g[j] < g[k]}}

\* register_workflow_triggers() on what is left, with or without a squeeze
With(d, w) ==
  {f \in {rest \o TriggersOf[w] : rest \in {d} \cup Squeezed(d)} : Len(f) <= MaxEntries}

\* Others run only while the walk awaits a workflow, or there is no walk.
Free == walk.at # "walking"
Touches == touched' = (touched \/ (walk.at # "idle" /\ table' # table))

-----------------------------------------------------------------------------
(* The operations of the service.                                          *)
Stored == {w \in Workflows : status[w] \in {"active", "inactive"}}
BelowLimit == Cardinality(Stored) < MaxPerUser

Store(w) ==
  /\ status' = [status EXCEPT ![w] = "active"]
  /\ table' \in With(table, w)
  /\ Touches
  /\ UNCHANGED <<clock, queue, walkVars, runVars, emitted>>

\* import_workflow(), also from a template: nothing is awaited.
Import(w) == Free /\ status[w] = "absent" /\ BelowLimit /\ Store(w)

\* create_from_nl() up to the await of the interpreter, and after it
Interpret(w) ==
  /\ Free /\ status[w] = "absent" /\ BelowLimit
  /\ status' = [status EXCEPT ![w] = "interpreting"]
  /\ UNCHANGED <<table, clock, queue, walkVars, touched, runVars, emitted>>

Interpreted(w) == Free /\ status[w] = "interpreting" /\ Store(w)

\* update() re-registers the triggers of an active workflow, in a new place.  It
\* could be given others (new_triggers), but its caller gives it a name and a
\* description only (gateway/workflow_handlers.py:198).
Update(w) ==
  /\ Free /\ w \in Stored
  /\ IF status[w] = "active" THEN table' \in With(Without(w), w)
                             ELSE table' = Without(w)
  /\ Touches
  /\ UNCHANGED <<status, clock, queue, walkVars, runVars, emitted>>

UpdateStatus(w, new) ==
  /\ Free /\ w \in Stored
  /\ status' = [status EXCEPT ![w] = new]
  /\ IF new = "active" THEN table' \in With(Without(w), w)
                       ELSE table' = Without(w)
  /\ Touches
  /\ UNCHANGED <<clock, queue, walkVars, runVars, emitted>>

DeleteKeepsTriggers(w) ==  \* slip
  /\ Free /\ w \in Stored
  /\ status' = [status EXCEPT ![w] = "deleted"]
  /\ listed' = {s \in listed : runs[s].workflow # w}
  /\ UNCHANGED <<table, clock, queue, walkVars, touched, runs, active, emitted>>
Delete(w) ==
  /\ Free /\ w \in Stored
  /\ status' = [status EXCEPT ![w] = "deleted"]
  /\ table' = Without(w)
  /\ Touches
  /\ listed' = {s \in listed : runs[s].workflow # w}
  /\ UNCHANGED <<clock, queue, walkVars, runs, active, emitted>>

-----------------------------------------------------------------------------
(* Executions.                                                             *)
\* _start_execution() up to its await of execute()
CanStart == active < MaxActive

Start(w, t) ==
  \E s \in Slots :
    /\ runs[s] = None /\ \A r \in 1 .. s - 1 : runs[r] # None
    /\ runs' = [runs EXCEPT ![s] = [trigger |-> t, workflow |-> w]]
    /\ active' = active + 1
    /\ listed' = listed \cup {s}

TriggerManually(w) ==
  /\ Free /\ status[w] = "active" /\ CanStart
  /\ Start(w, None)
  /\ UNCHANGED <<status, table, clock, queue, walkVars, touched, emitted>>

\* The end of execute(), and for one that the matcher awaits its return there
EndsOnceDispatched(s) ==  \* slip
  /\ Free /\ runs[s] # None /\ queue \cap Own = {}
  /\ walk' = IF runs[s].trigger = None THEN walk ELSE [walk EXCEPT !.at = "walking"]
  /\ runs' = [runs EXCEPT ![s] = None]
  /\ active' = active - 1
  /\ listed' = listed \ {s}
  /\ UNCHANGED <<status, table, clock, queue, visits, touched, emitted>>
ExecutionEnds(s) ==
  /\ Free /\ runs[s] # None
  /\ walk' = IF runs[s].trigger = None THEN walk ELSE [walk EXCEPT !.at = "walking"]
  /\ runs' = [runs EXCEPT ![s] = None]
  /\ active' = active - 1
  /\ listed' = listed \ {s}
  /\ UNCHANGED <<status, table, clock, queue, visits, touched, emitted>>

Accepted(e) ==
  /\ e \notin emitted
  /\ emitted' = emitted \cup {e}
  /\ queue' = queue \cup {e}
  /\ UNCHANGED <<status, table, clock, walkVars, touched, runVars>>

ExecutionEmits(e) == Free /\ e \in Own /\ active > 0 /\ Accepted(e)
Emit(e) == Free /\ e \notin Own /\ Accepted(e)

Tick ==
  /\ Free
  /\ age' = [k \in DOMAIN age |-> IF age[k] < Window THEN age[k] + 1 ELSE Window]
  /\ since' = [k \in DOMAIN since |-> IF since[k] < Window THEN since[k] + 1 ELSE Window]
  /\ UNCHANGED <<status, table, queue, walkVars, touched, runVars, emitted>>

-----------------------------------------------------------------------------
(* The walk of _on_event().                                                *)
\* The bus hands over an event, whichever is due, and the walk begins.
Receive(e) ==
  /\ walk.at = "idle" /\ e \in queue
  /\ queue' = queue \ {e}
  /\ walk' = [at |-> "walking", event |-> e, left |-> Size(table), pos |-> 0,
              used |-> Size(table)]
  /\ UNCHANGED <<status, table, clock, runVars, emitted, visits, touched>>

Ahead == {i \in Live(table) : i > walk.pos}
Changed == walk.used # Size(table) \/ (Ahead # {} /\ walk.left = 0)

EndWalk ==
  /\ walk' = Idle
  /\ visits' = [t \in Triggers |-> 0]
  /\ touched' = FALSE
  /\ UNCHANGED <<status, table, clock, queue, runVars, emitted>>

Exhausted == walk.at = "walking" /\ ~Changed /\ Ahead = {} /\ EndWalk
\* RuntimeError: dictionary changed size, or keys changed, during iteration
Disrupted == walk.at = "walking" /\ Changed /\ EndWalk

\* The walk comes to its next entry, and goes on from it.
ComesTo(t) ==
  /\ walk.at = "walking" /\ ~Changed
  /\ \E i \in Ahead : t = table[i] /\ \A j \in Ahead : i <= j

Onward(t, at) ==
  /\ walk' = [walk EXCEPT !.at = at, !.left = @ - 1,
                          !.pos = CHOOSE i \in Ahead : \A j \in Ahead : i <= j]
  /\ visits' = [visits EXCEPT ![t] = @ + 1]

Key(t) == <<t, Correlation[walk.event]>>
IsDuplicate(t) == age[Key(t)] < Window

\* A comparison of values that have no order raises out of the handler.
Raises(t) ==
  /\ ComesTo(t) /\ Accepts(t, walk.event) = "raises"
  /\ EndWalk

PassBy(t) ==
  /\ ComesTo(t)
  /\ \/ Accepts(t, walk.event) = "none"
     \/ Accepts(t, walk.event) = "match" /\ IsDuplicate(t)
  /\ Onward(t, "walking")
  /\ UNCHANGED <<status, table, clock, queue, runVars, emitted, touched>>

Fires(t) ==
  /\ ComesTo(t) /\ Accepts(t, walk.event) = "match" /\ ~IsDuplicate(t)
  /\ age' = [age EXCEPT ![Key(t)] = 0]
  /\ UNCHANGED <<status, table, queue, emitted, touched>>

\* _on_trigger_matched() starts the workflow and the walk waits for it,
FireAndReturn(t) ==  \* slip
  /\ Fires(t) /\ status[WorkflowOf(t)] = "active" /\ CanStart
  /\ Start(WorkflowOf(t), t)
  /\ since' = [since EXCEPT ![Key(t)] = 0]
  /\ walk' = [walk EXCEPT !.at = "running", !.pos = Len(table)]
  /\ visits' = [visits EXCEPT ![t] = @ + 1]
Fire(t) ==
  /\ Fires(t) /\ status[WorkflowOf(t)] = "active" /\ CanStart
  /\ Start(WorkflowOf(t), t)
  /\ since' = [since EXCEPT ![Key(t)] = 0]
  /\ Onward(t, "running")

\* or it returns or raises at once, and the event is spent all the same.
FireInVain(t) ==
  /\ Fires(t) /\ (status[WorkflowOf(t)] # "active" \/ ~CanStart)
  /\ Onward(t, "walking")
  /\ UNCHANGED <<runVars, since>>

Visit(t) == Raises(t) \/ PassBy(t) \/ Fire(t) \/ FireInVain(t)
Walk == Exhausted \/ Disrupted \/ \E t \in Triggers : Visit(t)

-----------------------------------------------------------------------------
Service ==
  \E w \in Workflows :
    \/ Import(w) \/ Interpret(w) \/ Interpreted(w)
    \/ Update(w) \/ Delete(w) \/ TriggerManually(w)
    \/ \E new \in {"active", "inactive"} : UpdateStatus(w, new)

Next ==
  \/ Service
  \/ \E s \in Slots : ExecutionEnds(s)
  \/ \E e \in Events : Emit(e) \/ ExecutionEmits(e) \/ Receive(e)
  \/ Walk
  \/ Tick

\* The event loop runs whatever is ready; workflows return.
Fairness ==
  /\ WF_vars(Walk)
  /\ WF_vars(\E e \in Events : Receive(e))
  /\ \A s \in Slots : WF_vars(ExecutionEnds(s))

Spec == Init /\ [][Next]_vars /\ Fairness

-----------------------------------------------------------------------------
Runs == [trigger : Triggers \cup {None}, workflow : Workflows]

TypeOK ==
  /\ status \in [Workflows -> {"absent", "interpreting", "active", "inactive", "deleted"}]
  /\ table \in Seq(Triggers \cup {None})
  /\ age \in [Triggers \X Correlations -> 0 .. Window]
  /\ queue \subseteq emitted
  /\ emitted \subseteq Events
  /\ walk \in [at : {"idle", "walking", "running"}, event : Events \cup {None},
               left : Nat, pos : Nat, used : Nat]
  /\ runs \in [Slots -> Runs \cup {None}]
  /\ active \in 0 .. MaxActive
  /\ listed \subseteq Slots
  /\ visits \in [Triggers -> Nat]
  /\ touched \in BOOLEAN
  /\ since \in [Triggers \X Correlations -> 0 .. Window]

\* The table of triggers holds each trigger of each active workflow once, and
\* no other, whatever was created, changed, paused or deleted.
TableExact ==
  /\ Registered = {t \in Triggers : status[WorkflowOf(t)] = "active"}
  /\ Size(table) = Cardinality(Registered)

\* The counter that limits executions is the number of those that run, each of
\* which can be looked up unless its workflow was deleted.
CountExact ==
  /\ active = Cardinality({s \in Slots : runs[s] # None})
  /\ listed \subseteq {s \in Slots : runs[s] # None}
  /\ \A s \in Slots : runs[s] # None /\ runs[s].workflow \in Stored => s \in listed

\* What the service, the matcher and the counter say of the same workflows and
\* executions agrees (service.py:138-198, :240-266).
BooksAgree == TableExact /\ CountExact

\* A walk that nobody disturbed comes to every trigger exactly once
\* (trigger_matcher.py:155), so that no matching workflow misses the event.
EveryTriggerSeen ==
  walk.at # "idle" /\ walk'.at = "idle" /\ ~touched /\ ~(\E t \in Triggers : Raises(t))
    => \A t \in Registered : visits[t] = 1

\* However the table changes under the walk, and however events share a
\* correlation, a trigger starts its workflow once per window
\* (trigger_matcher.py:11-12).
StartsOncePerWindow ==
  \A t \in Triggers, s \in Slots :
    runs[s] = None /\ runs'[s] # None /\ runs'[s].trigger = t => since[Key(t)] = Window

\* No trigger is missed, and none starts its workflow twice.
EachTriggerOnce == [][EveryTriggerSeen /\ StartsOncePerWindow]_vars

\* The workflow that runs inside the handler of one event, and the events it
\* emits there, do not keep the bus from any event (trigger_matcher.py:190).
EveryEventHandled ==
  \A e \in Events : e \in emitted ~> (e \notin queue /\ walk.event # e)
=============================================================================
