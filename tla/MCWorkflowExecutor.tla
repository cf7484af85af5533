------------------------- MODULE MCWorkflowExecutor -------------------------
(***************************************************************************)
(* The executor, and the sort it relies on, each on an instance of its own;*)
(* part says which it is.                                                  *)
(*                                                                         *)
(* Runs: five shapes of four steps, with every handling of the first, the  *)
(* last and one middle step; s1 may be a condition that chooses s2 or s3,  *)
(* and s2 another one that leads to s3 or s4.  Sorts: every graph of three *)
(* steps, each dependency named up to twice; and one unknown id that s1    *)
(* may depend on.                                                          *)
(***************************************************************************)
EXTENDS WorkflowExecutor, TLC

CONSTANTS s1, s2, s3, s4, gone, Sorted, Inputs

VARIABLES part, named, outcome, inDegree, ready, tiers

sort == <<named, outcome, inDegree, ready, tiers>>

T == INSTANCE TopologicalSort WITH Steps <- Sorted

Deps(d2, d3, d4) == (s1 :> {}) @@ (s2 :> d2) @@ (s3 :> d3) @@ (s4 :> d4)
Shapes ==
  { Deps({s1}, {s1}, {s2, s3}),   \* diamond
    Deps({s1}, {s2}, {s1, s3}),   \* chain with a short cut
    Deps({}, {s1, s2}, {s3}),     \* join
    Deps({s4}, {s2}, {s3}),       \* cycle
    Deps({s1, gone}, {s1}, {}) }  \* dangling id

MCWorkflows ==
  { [ dependsOn |-> d,
      handling |-> (s1 :> h1) @@ (s2 :> h2) @@ (s3 :> "fail") @@ (s4 :> h4),
      maxRetries |-> [s \in Steps |-> 1],
      branches |-> b @@ [s \in Steps |-> {}] ] :
    d \in Shapes, h1 \in Handlings, h2 \in Handlings, h4 \in Handlings,
    b \in {s1 :> {}, s1 :> {{s2}, {s3}},
            (s1 :> {{s2, s3}, {s3}}) @@ (s2 :> {{s3}, {s4}})} }

MCInputs ==
  { [s \in Sorted |-> f[s] @@ (gone :> IF s = s1 THEN u ELSE 0)] :
      f \in [Sorted -> [Sorted -> 0 .. 2]], u \in {0, 1} }

\* The one that does not run has an input that is as good as any.
SuiteInit ==
  \/ /\ part = "run" /\ named = [s \in Sorted |-> [d \in Sorted \cup {gone} |-> 0]]
     /\ T!Init /\ Init
  \/ /\ part = "sort" /\ wf = CHOOSE w \in Workflows : TRUE
     /\ Init /\ T!Init

Running == part = "run" /\ Next /\ UNCHANGED <<part, sort>>
Sorting == part = "sort" /\ T!Next /\ UNCHANGED <<part, vars>>

\* Both could go on at first, so that fairness has to know the part.
SuiteFairness ==
  /\ WF_vars(part = "run" /\ (Begin \/ BeginTier \/ Finish))
  /\ \A s \in Steps : WF_vars(part = "run" /\ Attempt(s))
  /\ WF_sort(part = "sort" /\ T!Next)

SuiteSpec == SuiteInit /\ [][Running \/ Sorting]_<<part, vars, sort>> /\ SuiteFairness

\* The liveness of each, in its part.
RunsEnd == part = "run" => RunEnds
SortsExactly == part = "sort" => T!SortsExactly
=============================================================================
