------------------------ MODULE MCAgentOrchestrator ------------------------
(* The client's run has two tasks, side by side, in sequence, or in a      *)
(* cycle; or one that depends on a task max_tasks_per_workflow cut off.    *)
(* The other runs have one task.  The first agent of a run may delegate,   *)
(* that of the other run r2 overrides its hooks.                           *)
EXTENDS AgentOrchestrator, TLC

CONSTANTS i1, i2, r1, r2

MCPlans ==
  (r1 :> { (i1 :> {}) @@ (i2 :> {}),
           (i1 :> {}) @@ (i2 :> {i1}),
           (i1 :> {i2}) @@ (i2 :> {i1}),
           i1 :> {i2} })
    @@ [r \in Runs |-> {i1 :> {}}]

MCDelegating == {<<r, i1>> : r \in Runs}
MCOverriding == {<<r2, i1>>}
=============================================================================
