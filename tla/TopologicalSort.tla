-------------------------- MODULE TopologicalSort --------------------------
(***************************************************************************)
(* Kahn's algorithm that groups the steps of a workflow into tiers:        *)
(* topological_sort_steps() of automation/workflows/executor.py and, line  *)
(* by line the same, topological_sort_tasks() of agents/models.py.         *)
(*                                                                         *)
(* depends_on is a list: it may name a dependency more than once, and it   *)
(* may name ids that no step has.                                          *)
(***************************************************************************)
EXTENDS Integers, FiniteSets, Sequences, FiniteSetsExt

CONSTANTS
  Steps,    \* the steps
  Unknown,  \* ids that are not a step's
  Inputs    \* how often each step's depends_on names each id

VARIABLES
  named,     \* the input
  outcome,   \* "sorting", "sorted", or why ValueError is raised
  inDegree,  \* in_degree
  ready,     \* the steps of the next tier
  tiers      \* the tiers so far, each a set: its order means nothing

vars == <<named, outcome, inDegree, ready, tiers>>

Placed == UNION {tiers[n] : n \in DOMAIN tiers}

InDegree(s) == SumFunctionOnSet(named[s], Steps)

Init ==
  /\ named \in Inputs
  /\ outcome = IF \E s \in Steps, u \in Unknown : named[s][u] > 0
               THEN "unknown id" ELSE "sorting"
  /\ inDegree = [s \in Steps |-> InDegree(s)]
  /\ ready = {s \in Steps : inDegree[s] = 0}
  /\ tiers = <<>>

Edges(s) == SumFunctionOnSet(named[s], ready)

(* What comes down to zero.                                                *)
Freed == {s \in Steps : inDegree[s] > 0 /\ inDegree[s] = Edges(s)}

(* One round of the loop: ready is a tier, and frees the next one.         *)
Round ==
  /\ outcome = "sorting"
  /\ ready # {}
  /\ tiers' = Append(tiers, ready)
  /\ inDegree' = [s \in Steps |-> inDegree[s] - Edges(s)]
  /\ ready' = Freed
  /\ UNCHANGED <<named, outcome>>

(* Slip: nothing compares what was visited with the steps.                 *)
EndUnchecked ==
  /\ outcome = "sorting"
  /\ ready = {}
  /\ outcome' = "sorted"
  /\ UNCHANGED <<named, inDegree, ready, tiers>>

End ==
  /\ outcome = "sorting"
  /\ ready = {}
  /\ outcome' = IF Placed = Steps THEN "sorted" ELSE "cycle"
  /\ UNCHANGED <<named, inDegree, ready, tiers>>

Next == Round \/ End

Fairness == WF_vars(Next)

Spec == Init /\ [][Next]_vars /\ Fairness

-----------------------------------------------------------------------------
DependsOn(s) == {d \in Steps \cup Unknown : named[s][d] > 0}

(* The reference: a tier is every step that is not placed and depends on   *)
(* placed steps only.  It is what WorkflowExecutor and AgentOrchestrator   *)
(* use for the loop.                                                       *)
TierByTier ==
  outcome = "sorting" =>
    ready = {s \in Steps \ Placed : DependsOn(s) \subseteq Placed}

(* There is an order: every id is a step's, and no steps wait for each     *)
(* other.                                                                  *)
Sortable ==
  /\ \A s \in Steps : DependsOn(s) \subseteq Steps
  /\ \A c \in (SUBSET Steps) \ {{}} : \E s \in c : DependsOn(s) \cap c = {}

(* Every round is the reference's tier; and the loop ends on every input,  *)
(* also on a cycle, and finds an order exactly if there is one             *)
(* (executor.py:88-104, models.py:142-161).                                *)
SortsExactly ==
  /\ []TierByTier
  /\ <>(IF Sortable THEN outcome = "sorted" ELSE outcome \in {"unknown id", "cycle"})
=============================================================================
