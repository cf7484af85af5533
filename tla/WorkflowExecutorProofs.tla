----------------------- MODULE WorkflowExecutorProofs -----------------------
(***************************************************************************)
(* Theorems about WorkflowExecutor.                                        *)
(*                                                                         *)
(* Everything rests on one fact about tiers: a step of a begun tier has    *)
(* only dependencies that are over.  So a step that still runs, and may    *)
(* yet fail or shut a branch, has no dependents that have been reached, and*)
(* whatever it decides is decided before they are looked at.               *)
(***************************************************************************)
EXTENDS WorkflowExecutor, TLAPS

Untouched(s) ==
  /\ step[s] = "pending"
  /\ task[s] = "none"
  /\ tries[s] = 0
  /\ shut[s] = {}
  /\ s \notin failed

Most(s) == IF wf.handling[s] = "retry" THEN wf.maxRetries[s] + 1 ELSE 1

Counted(s) ==
  /\ tries[s] <= Most(s)
  /\ task[s] # "none" => tries[s] > 0
  /\ task[s] = "backoff" => wf.handling[s] = "retry" /\ tries[s] <= wf.maxRetries[s]
  /\ step[s] = "failed" /\ tries[s] > 0 => tries[s] = Most(s)

(* The tiers.                                                              *)
TierInv ==
  /\ \A s \in Steps \ reached : Untouched(s)
  /\ \A s \in reached : step[s] # "pending"
  /\ \A s \in Steps : step[s] = "running" <=> task[s] # "none"
  /\ \A s \in reached :
       /\ wf.dependsOn[s] \subseteq reached
       /\ \A d \in wf.dependsOn[s] : step[d] \in Over

(* What ended steps decided, and what became of their dependents.          *)
OutcomeInv ==
  /\ \A s \in failed : step[s] = "failed"
  /\ \A s \in Steps :
       /\ shut[s] # {} => step[s] = "completed"
       /\ shut[s] \subseteq disabled
  /\ CascadeStops
  /\ NotTakenSkipped

StatusInv ==
  /\ status = "pending" => reached = {}
  /\ status = "running" => Sortable
  /\ VerdictTrue

IInv ==
  /\ TypeOK
  /\ TierInv
  /\ OutcomeInv
  /\ \A s \in Steps : Counted(s)
  /\ StatusInv

-----------------------------------------------------------------------------
(* Types are kept by every step.                                           *)
LEMMA TypesKept == TypeOK /\ [Next]_vars => TypeOK'
<1> SUFFICES ASSUME TypeOK, [Next]_vars PROVE TypeOK'
  OBVIOUS
<1> USE DEF TypeOK, Over
<1>1. CASE Begin
  BY <1>1 DEF Begin
<1>2. CASE BeginTier
  <2>1. Tier \subseteq Steps /\ Cascaded \subseteq Steps
    BY DEF Tier, Cascaded
  <2> QED BY <1>2, <2>1 DEF BeginTier
<1>3. ASSUME NEW s \in Steps, Succeed(s) PROVE TypeOK'
  <2>1. PICK taken \in wf.branches[s] \cup {{}} :
          /\ shut' = [shut EXCEPT ![s] = UNION wf.branches[s] \ taken]
          /\ disabled' = disabled \cup (UNION wf.branches[s] \ taken)
    BY <1>3 DEF Succeed, Shut
  <2>2. UNION wf.branches[s] \subseteq Steps
    BY DEF Definitions
  <2> QED BY <1>3, <2>1, <2>2 DEF Succeed, End
<1>4. ASSUME NEW s \in Steps, Backoff(s) \/ Retry(s) \/ GiveUp(s) PROVE TypeOK'
  BY <1>4 DEF Backoff, Retry, GiveUp, End
<1>5. CASE Finish
  BY <1>5 DEF Finish
<1>6. CASE UNCHANGED vars
  BY <1>6 DEF vars
<1> QED BY <1>1, <1>2, <1>3, <1>4, <1>5, <1>6 DEF Next, Attempt

(* Every reachable state is well typed.                                    *)
THEOREM RunTypes == Spec => []TypeOK
<1>1. Init => TypeOK
  BY WorkflowConstants DEF Init, TypeOK
<1> QED BY <1>1, TypesKept, PTL DEF Spec

-----------------------------------------------------------------------------
(* A tier begins only when every step reached so far is over.              *)
LEMMA TierBegins ==
  ASSUME TypeOK, TierInv, BeginTier
  PROVE  /\ \A s \in reached : step[s] \in Over /\ task[s] = "none"
         /\ \A s \in reached : step'[s] = step[s] /\ task'[s] = task[s]
                                 /\ tries'[s] = tries[s]
         /\ \A s \in Tier : s \in Steps \ reached /\ wf.dependsOn[s] \subseteq reached
         /\ reached' = reached \cup Tier
         /\ wf' = wf /\ shut' = shut /\ disabled' = disabled
<1>1. \A s \in Steps : task[s] = "none"
  BY DEF BeginTier, Gathered
<1>2. \A s \in reached : step[s] \in Over
  BY <1>1 DEF TypeOK, TierInv, Over
<1>3. Tier \cap reached = {} /\ Disabled \subseteq Tier /\ Cascaded \subseteq Tier
      /\ Started \subseteq Tier
  BY DEF Tier, Disabled, Cascaded, Started
<1>4. \A s \in reached : step'[s] = step[s] /\ task'[s] = task[s] /\ tries'[s] = tries[s]
  BY <1>3 DEF BeginTier, TypeOK
<1> QED BY <1>1, <1>2, <1>4 DEF BeginTier, Tier, TypeOK

(* What becomes of the members of the new tier.                            *)
LEMMA TierSorted ==
  ASSUME TypeOK, TierInv, BeginTier, NEW s \in Tier
  PROVE  \/ s \in disabled /\ step'[s] = "skipped" /\ task'[s] = "none" /\ tries'[s] = 0
         \/ /\ s \notin disabled
            /\ wf.dependsOn[s] \cap failed # {} /\ wf.handling[s] = "fail"
            /\ step'[s] = "failed" /\ task'[s] = "none" /\ tries'[s] = 0
            /\ s \in failed'
         \/ /\ s \notin disabled
            /\ ~(wf.dependsOn[s] \cap failed # {} /\ wf.handling[s] = "fail")
            /\ step'[s] = "running" /\ task'[s] = "run" /\ tries'[s] = 1
            /\ s \notin failed'
<1>1. s \in Steps \ reached /\ Untouched(s)
  BY DEF Tier, TierInv
<1> QED BY <1>1 DEF BeginTier, Disabled, Cascaded, Started, Untouched, TypeOK

(* A step that acts is running: it was reached, its dependencies are over, *)
(* and nothing that depends on it has been reached.                        *)
LEMMA ActorRuns ==
  ASSUME TypeOK, TierInv, NEW s \in Steps, Attempt(s)
  PROVE  /\ step[s] = "running" /\ s \in reached
         /\ \A t \in reached : s \notin wf.dependsOn[t]
         /\ s \notin wf.dependsOn[s]
         /\ status' = status /\ wf' = wf /\ reached' = reached
         /\ \A t \in Steps \ {s} : /\ step'[t] = step[t] /\ task'[t] = task[t]
                                   /\ tries'[t] = tries[t] /\ shut'[t] = shut[t]
                                   /\ t \in failed' <=> t \in failed
<1>1. task[s] # "none"
  BY DEF Attempt, Succeed, Backoff, Retry, GiveUp
<1>2. step[s] = "running" /\ s \in reached
  BY <1>1 DEF TierInv, Untouched
<1>3. \A t \in reached : s \notin wf.dependsOn[t]
  BY <1>2 DEF TierInv, Over
<1>4. status' = status /\ wf' = wf /\ reached' = reached
  BY DEF Attempt, Succeed, Backoff, Retry, GiveUp
<1>5. ASSUME NEW t \in Steps \ {s}
      PROVE  /\ step'[t] = step[t] /\ task'[t] = task[t] /\ tries'[t] = tries[t]
             /\ shut'[t] = shut[t]
             /\ t \in failed' <=> t \in failed
  BY DEF Attempt, Succeed, Shut, Backoff, Retry, GiveUp, End, TypeOK
<1> QED BY <1>2, <1>3, <1>4, <1>5

(* The status a step has after it acted agrees with its task.              *)
LEMMA ActorStatus ==
  ASSUME TypeOK, TierInv, NEW s \in Steps, Attempt(s)
  PROVE  /\ step'[s] # "pending"
         /\ step'[s] = "running" <=> task'[s] # "none"
         /\ step'[s] \in Over \cup {"running"}
         /\ step'[s] # "completed" => shut'[s] = {} \/ shut'[s] = shut[s]
<1>1. step[s] = "running" /\ task[s] # "none"
  BY ActorRuns DEF TierInv
<1>2. CASE Succeed(s)
  BY <1>1, <1>2 DEF Succeed, End, TypeOK, Over
<1>3. CASE Backoff(s) \/ Retry(s)
  BY <1>1, <1>3 DEF Backoff, Retry, TypeOK, Over
<1>4. CASE GiveUp(s)
  BY <1>1, <1>4 DEF GiveUp, End, TypeOK, Over
<1> QED BY <1>2, <1>3, <1>4 DEF Attempt

LEMMA TierKept == TypeOK /\ TierInv /\ [Next]_vars => TierInv'
<1> SUFFICES ASSUME TypeOK, TierInv, [Next]_vars PROVE TierInv'
  OBVIOUS
<1>1. CASE BeginTier
  <2> USE TierBegins, <1>1
  <2>1. \A s \in Steps \ reached' : Untouched(s)'
    BY DEF TierInv, Untouched, BeginTier, Disabled, Cascaded, Started, TypeOK
  <2>2. \A s \in reached' : step'[s] # "pending" /\ (step'[s] = "running" <=> task'[s] # "none")
    BY TierSorted DEF TierInv, Over
  <2>3. \A s \in reached' : wf'.dependsOn[s] \subseteq reached
    BY DEF TierInv
  <2>4. \A s \in reached' : \A d \in wf'.dependsOn[s] : step'[d] \in Over
    BY <2>3
  <2> QED BY <2>1, <2>2, <2>3, <2>4 DEF TierInv, Untouched
<1>2. ASSUME NEW a \in Steps, Attempt(a) PROVE TierInv'
  <2> USE ActorRuns, ActorStatus, <1>2
  <2>1. \A s \in Steps \ reached' : Untouched(s)'
    BY DEF TierInv, Untouched
  <2>2. \A s \in Steps : step'[s] = "running" <=> task'[s] # "none"
    BY DEF TierInv
  <2>3. \A s \in reached' : step'[s] # "pending"
    BY DEF TierInv, TypeOK
  <2>4. ASSUME NEW s \in reached', NEW d \in wf'.dependsOn[s] PROVE step'[d] \in Over
    <3>1. d # a /\ d \in reached /\ step[d] \in Over
      BY <2>4 DEF TierInv
    <3> QED BY <3>1 DEF TypeOK
  <2> QED BY <2>1, <2>2, <2>3, <2>4 DEF TierInv
<1>3. CASE Begin \/ Finish \/ UNCHANGED vars
  BY <1>3 DEF Begin, Finish, vars, TierInv, Untouched
<1> QED BY <1>1, <1>2, <1>3 DEF Next

LEMMA CountedKept ==
  TypeOK /\ TierInv /\ (\A s \in Steps : Counted(s)) /\ [Next]_vars
    => \A s \in Steps : Counted(s)'
<1> SUFFICES ASSUME TypeOK, TierInv, \A s \in Steps : Counted(s), [Next]_vars,
                    NEW s \in Steps
             PROVE  Counted(s)'
  OBVIOUS
<1>0. wf.maxRetries[s] \in Nat /\ wf.handling[s] \in Handlings /\ tries[s] \in Nat
  BY DEF TypeOK, Definitions
<1>1. CASE BeginTier
  <2>1. CASE s \in Tier
    BY <1>0, <1>1, <2>1, TierBegins, TierSorted DEF Counted, Most
  <2>2. CASE s \notin Tier
    <3>1. step'[s] = step[s] /\ task'[s] = task[s] /\ tries'[s] = tries[s] /\ wf' = wf
      BY <1>1, <2>2 DEF BeginTier, Disabled, Cascaded, Started, TypeOK
    <3> QED BY <3>1 DEF Counted, Most
  <2> QED BY <2>1, <2>2
<1>2. ASSUME NEW a \in Steps, Attempt(a), a # s PROVE Counted(s)'
  BY <1>2, ActorRuns DEF Counted, Most
<1>3. CASE Succeed(s)
  BY <1>0, <1>3 DEF Succeed, End, Counted, Most, TypeOK
<1>4. CASE Backoff(s)
  BY <1>0, <1>4, ActorRuns DEF Backoff, AttemptLeft, Counted, Most, TypeOK, Attempt
<1>5. CASE Retry(s)
  <2>1. tries[s] <= wf.maxRetries[s] /\ wf.handling[s] = "retry"
    BY <1>5 DEF Retry, Counted
  <2>2. step[s] = "running"
    BY <1>5, ActorRuns DEF Attempt
  <2>3. /\ tries'[s] = tries[s] + 1 /\ task'[s] = "run"
        /\ step' = step /\ wf' = wf
    BY <1>5 DEF Retry, TypeOK
  <2> QED BY <1>0, <2>1, <2>2, <2>3 DEF Counted, Most
<1>6. CASE GiveUp(s)
  <2>1. tries[s] = Most(s)
    BY <1>0, <1>6 DEF GiveUp, AttemptLeft, Counted, Most
  <2> QED BY <1>0, <1>6, <2>1 DEF GiveUp, End, Counted, Most, TypeOK
<1>7. CASE Begin \/ Finish \/ UNCHANGED vars
  BY <1>7 DEF Begin, Finish, vars, Counted, Most
<1> QED BY <1>1, <1>2, <1>3, <1>4, <1>5, <1>6, <1>7 DEF Next, Attempt

LEMMA OutcomeKept ==
  TypeOK /\ TierInv /\ (\A s \in Steps : Counted(s)) /\ OutcomeInv /\ [Next]_vars
    => OutcomeInv'
<1> SUFFICES ASSUME TypeOK, TierInv, \A s \in Steps : Counted(s), OutcomeInv,
                    [Next]_vars
             PROVE  OutcomeInv'
  OBVIOUS
<1>1. CASE BeginTier
  <2> USE <1>1, TierBegins
  <2>0. failed' = failed \cup Cascaded /\ Cascaded \subseteq Tier
    BY DEF BeginTier, Cascaded
  <2>1. \A s \in failed' : step'[s] = "failed"
    <3>1. ASSUME NEW s \in failed PROVE s \in reached /\ step'[s] = "failed"
      BY DEF OutcomeInv, TierInv, Untouched, TypeOK
    <3>2. ASSUME NEW s \in Cascaded PROVE step'[s] = "failed"
      BY <2>0, TierSorted DEF Cascaded
    <3> QED BY <2>0, <3>1, <3>2
  <2>2. ASSUME NEW s \in Steps
        PROVE  (shut'[s] # {} => step'[s] = "completed") /\ shut'[s] \subseteq disabled'
    BY DEF OutcomeInv, TierInv, Untouched
  <2>3. ASSUME NEW s \in Steps, wf.handling[s] = "fail",
               wf.dependsOn[s] \cap failed' # {}
        PROVE  tries'[s] = 0
    <3>1. CASE s \in reached
      <4>1. wf.dependsOn[s] \subseteq reached
        BY <3>1 DEF TierInv
      <4>2. wf.dependsOn[s] \cap failed # {}
        BY <2>0, <2>3, <4>1
      <4> QED BY <3>1, <4>2, <2>3 DEF OutcomeInv, CascadeStops
    <3>2. CASE s \in Tier
      <4>1. wf.dependsOn[s] \cap failed # {}
        BY <2>0, <2>3, <3>2
      <4> QED BY <3>2, <4>1, <2>3, TierSorted
    <3>3. CASE s \notin reached \cup Tier
      BY <3>3 DEF BeginTier, Started, TierInv, Untouched, TypeOK
    <3> QED BY <3>1, <3>2, <3>3
  <2>4. ASSUME NEW c \in Steps, NEW s \in shut[c], s \in Steps, c \in wf.dependsOn[s]
        PROVE  step'[s] \in {"pending", "skipped"}
    <3>1. CASE s \in Tier
      BY <3>1, <2>4, TierSorted DEF OutcomeInv
    <3>2. CASE s \notin Tier
      BY <3>2, <2>4
         DEF OutcomeInv, NotTakenSkipped, BeginTier, Disabled, Cascaded, Started, TypeOK
    <3> QED BY <3>1, <3>2
  <2> QED BY <2>1, <2>2, <2>3, <2>4 DEF OutcomeInv, CascadeStops, NotTakenSkipped
<1>2. ASSUME NEW a \in Steps, Attempt(a) PROVE OutcomeInv'
  <2> USE <1>2, ActorRuns
  <2>1. \A s \in failed' : step'[s] = "failed"
    <3>1. a \in failed' => step'[a] = "failed"
      BY DEF OutcomeInv, Attempt, Succeed, Backoff, Retry, GiveUp, End, TypeOK
    <3>2. failed' \subseteq Steps
      BY TypesKept DEF TypeOK
    <3> QED BY <3>1, <3>2 DEF OutcomeInv
  <2>2. ASSUME NEW s \in Steps
        PROVE  (shut'[s] # {} => step'[s] = "completed") /\ shut'[s] \subseteq disabled'
    BY DEF OutcomeInv, Attempt, Succeed, Shut, Backoff, Retry, GiveUp, End, TypeOK
  <2>3. ASSUME NEW s \in Steps, wf.handling[s] = "fail",
               wf.dependsOn[s] \cap failed' # {}
        PROVE  tries'[s] = 0
    <3>1. CASE s \in reached
      <4>1. wf.dependsOn[s] \cap failed # {} /\ wf.dependsOn[s] \subseteq reached
        BY <2>3, <3>1 DEF TierInv, TypeOK
      <4>2. tries[s] = 0
        BY <2>3, <4>1 DEF OutcomeInv, CascadeStops
      <4>3. s # a
        BY <4>2 DEF TierInv, Counted, TypeOK
      <4> QED BY <4>2, <4>3
    <3>2. CASE s \notin reached
      BY <3>2 DEF TierInv, Untouched
    <3> QED BY <3>1, <3>2
  <2>4. ASSUME NEW c \in Steps, NEW s \in shut'[c], s \in Steps, c \in wf.dependsOn[s]
        PROVE  step'[s] \in {"pending", "skipped"}
    <3>1. CASE c = a
      <4>1. s \notin reached
        BY <2>4, <3>1
      <4> QED BY <2>4, <4>1 DEF TierInv, Untouched
    <3>2. CASE c # a
      <4>1. step[s] \in {"pending", "skipped"}
        BY <2>4, <3>2 DEF OutcomeInv, NotTakenSkipped
      <4> QED BY <4>1, <2>4
    <3> QED BY <3>1, <3>2
  <2> QED BY <2>1, <2>2, <2>3, <2>4 DEF OutcomeInv, CascadeStops, NotTakenSkipped
<1>3. CASE Begin \/ Finish \/ UNCHANGED vars
  BY <1>3 DEF Begin, Finish, vars, OutcomeInv, CascadeStops, NotTakenSkipped
<1> QED BY <1>1, <1>2, <1>3 DEF Next

(* Without a next tier every step was reached: the steps left out would    *)
(* otherwise wait for each other.                                          *)
LEMMA AllReached ==
  ASSUME TypeOK, Sortable, Tier = {}
  PROVE  reached = Steps
<1>1. SUFFICES ASSUME reached # Steps PROVE FALSE
  OBVIOUS
<1>2. Steps \ reached \in (SUBSET Steps) \ {{}}
  <2>1. Steps \ reached # {}
    BY <1>1 DEF TypeOK
  <2>2. Steps \ reached \in SUBSET Steps
    OBVIOUS
  <2> QED BY <2>1, <2>2
<1>3. PICK s \in Steps \ reached : wf.dependsOn[s] \cap (Steps \ reached) = {}
  BY <1>2 DEF Sortable
<1>4. wf.dependsOn[s] \subseteq reached
  BY <1>3 DEF Sortable
<1> QED BY <1>3, <1>4 DEF Tier

LEMMA StatusKept == TypeOK /\ TierInv /\ StatusInv /\ [Next]_vars => StatusInv'
<1> SUFFICES ASSUME TypeOK, TierInv, StatusInv, [Next]_vars PROVE StatusInv'
  OBVIOUS
<1>1. CASE Begin
  <2>1. \A s \in Steps : step'[s] = "pending"
    BY <1>1 DEF Begin, TierInv, Untouched, StatusInv
  <2>2. Sortable' <=> Sortable
    BY <1>1 DEF Begin, Sortable
  <2> QED BY <1>1, <2>1, <2>2 DEF Begin, StatusInv, VerdictTrue
<1>2. CASE BeginTier
  BY <1>2 DEF BeginTier, StatusInv, VerdictTrue, Sortable
<1>3. ASSUME NEW a \in Steps, Attempt(a) PROVE StatusInv'
  <2>1. status = "running" \/ status = "pending"
    <3>1. step[a] = "running" /\ a \in reached
      BY <1>3, ActorRuns
    <3>2. Sortable \/ step[a] = "pending" \/ status \in {"running", "pending"}
      BY <3>1 DEF StatusInv, VerdictTrue, TypeOK
    <3> QED BY <3>1, <3>2 DEF StatusInv, VerdictTrue, TypeOK, Over
  <2> QED BY <1>3, <2>1, ActorRuns DEF StatusInv, VerdictTrue, Sortable
<1>4. CASE Finish
  <2>1. reached = Steps
    BY <1>4, AllReached DEF Finish, StatusInv
  <2>2. \A s \in Steps : step[s] \in Over
    BY <1>4, <2>1 DEF Finish, Gathered, TierInv, TypeOK, Over
  <2>3. Sortable /\ (Sortable' <=> Sortable)
    BY <1>4 DEF Finish, Sortable, StatusInv
  <2> QED BY <1>4, <2>2, <2>3 DEF Finish, StatusInv, VerdictTrue
<1>5. CASE UNCHANGED vars
  BY <1>5 DEF vars, StatusInv, VerdictTrue, Sortable
<1> QED BY <1>1, <1>2, <1>3, <1>4, <1>5 DEF Next

-----------------------------------------------------------------------------
(* The inductive invariant of a run.                                       *)
THEOREM RunInductive == Spec => []IInv
<1>1. Init => IInv
  <2> SUFFICES ASSUME Init PROVE IInv
    OBVIOUS
  <2>1. TypeOK
    BY WorkflowConstants DEF Init, TypeOK
  <2>2. TierInv /\ OutcomeInv /\ StatusInv
    BY DEF Init, TierInv, Untouched, OutcomeInv, CascadeStops, NotTakenSkipped,
           StatusInv, VerdictTrue
  <2>3. ASSUME NEW s \in Steps PROVE Counted(s)
    BY <2>1 DEF Init, Counted, Most, TypeOK, Definitions
  <2> QED BY <2>1, <2>2, <2>3 DEF IInv
<1>2. IInv /\ [Next]_vars => IInv'
  BY TypesKept, TierKept, CountedKept, OutcomeKept, StatusKept DEF IInv
<1> QED BY <1>1, <1>2, PTL DEF Spec

(* A step runs only when its dependencies are over.                        *)
THEOREM RunsInOrder == Spec => []DependenciesFirst
<1>1. IInv => DependenciesFirst
  BY DEF IInv, TierInv, TypeOK, Untouched, DependenciesFirst
<1> QED BY <1>1, RunInductive, PTL

(* Failures for good reach the dependents that handle errors by "fail".    *)
THEOREM FailuresCascade == Spec => []CascadeStops
<1>1. IInv => CascadeStops
  BY DEF IInv, OutcomeInv
<1> QED BY <1>1, RunInductive, PTL

(* Steps on a branch not taken do not run.                                 *)
THEOREM BranchesShut == Spec => []NotTakenSkipped
<1>1. IInv => NotTakenSkipped
  BY DEF IInv, OutcomeInv
<1> QED BY <1>1, RunInductive, PTL

(* Both, for every workflow: failures and branches stop what they should.  *)
THEOREM StopsHoldAlways == Spec => []StopsHold
<1>1. IInv => StopsHold
  BY DEF IInv, OutcomeInv, StopsHold
<1> QED BY <1>1, RunInductive, PTL

(* Retries are neither lost nor made up.                                   *)
THEOREM RetriesCounted == Spec => []RetriesExact
<1>1. IInv => RetriesExact
  BY DEF IInv, Counted, Most, RetriesExact
<1> QED BY <1>1, RunInductive, PTL

(* The verdict on a run agrees with the fates of its steps.                *)
THEOREM VerdictIsTrue == Spec => []VerdictTrue
<1>1. IInv => VerdictTrue
  BY DEF IInv, StatusInv
<1> QED BY <1>1, RunInductive, PTL

(* A step that is over stays as it is.                                     *)
THEOREM StepsEndOnce == Spec => OverIsOver
<1>1. IInv /\ [Next]_vars =>
        \A s \in Steps :
          step[s] \in Over => step'[s] = step[s] /\ tries'[s] = tries[s]
  <2> SUFFICES ASSUME IInv, [Next]_vars, NEW s \in Steps, step[s] \in Over
               PROVE  step'[s] = step[s] /\ tries'[s] = tries[s]
    OBVIOUS
  <2> USE DEF IInv
  <2>1. CASE BeginTier
    <3>1. s \in reached
      BY DEF TierInv, Untouched, Over
    <3> QED BY <2>1, <3>1, TierBegins
  <2>2. ASSUME NEW a \in Steps, Attempt(a)
        PROVE  step'[s] = step[s] /\ tries'[s] = tries[s]
    <3>1. a # s
      BY <2>2, ActorRuns DEF Over
    <3> QED BY <2>2, <3>1, ActorRuns
  <2>3. CASE Begin \/ Finish \/ UNCHANGED vars
    BY <2>3 DEF Begin, Finish, vars
  <2> QED BY <2>1, <2>2, <2>3 DEF Next
<1> QED BY <1>1, RunInductive, PTL DEF Spec, OverIsOver
=============================================================================
