-------------------------- MODULE AutomationProofs --------------------------
(***************************************************************************)
(* Theorems about the three services that MCAutomation brings together:    *)
(* scheduled tasks (S), webhooks (W), and workflows with the events that   *)
(* start them.  They hold for any number of tasks, hooks and workflows,    *)
(* whatever the bounds of the run are.                                     *)
(***************************************************************************)
EXTENDS MCAutomation, FiniteSetTheorems, NaturalsInduction, WellFoundedInduction, TLAPS

(* Scheduled tasks.                                                        *)
JobsType ==
  /\ at \in [Tasks -> {"idle", "interpreting", "waiting", "refused", "cancelled", "scheduled"}]
  /\ future \in [Tasks -> {"none", "open", "yes", "no"}]
  /\ answer \in [Tasks -> {"none", "yes", "no"}]
  /\ task \in [Tasks -> {"pending_confirmation", "active", "paused", "completed", "cancelled"}]
  /\ job \in [Tasks -> {"none", "scheduled", "paused"}]
  /\ run \in [Tasks -> {"none", "submitted", "calling"}]
  /\ count \in [Tasks -> Nat]
  /\ running \in BOOLEAN /\ tasks \subseteq Tasks

(* Nothing is known of a task that was not scheduled, and none is scheduled *)
(* but with an answer that stands.                                         *)
Asked(t) ==
  /\ t \in pending => at[t] = "waiting"
  /\ future[t] = "yes" => answer[t] = "yes"
  /\ at[t] = "scheduled" => future[t] # "open" /\ answer[t] = "yes"
  /\ at[t] \in {"idle", "interpreting"} => future[t] = "none"
  /\ at[t] # "scheduled" =>
       t \notin tasks /\ t \notin removed /\ job[t] = "none" /\ run[t] = "none" /\ count[t] = 0

(* A one-shot task has its job, or the one run of it, or neither.          *)
Single(t) ==
  t \in OneShot => /\ job[t] # "none" => run[t] = "none" /\ count[t] = 0
                   /\ run[t] = "submitted" => count[t] = 0

Agreed(t) ==
  /\ t \in tasks => t \notin removed
  /\ job[t] # "none" => t \in tasks /\ (job[t] = "paused" <=> task[t] = "paused")
  /\ running /\ t \in tasks =>
       /\ task[t] = "active" => job[t] = "scheduled" \/ run[t] # "none" \/ t \in spent
       /\ task[t] = "paused" => job[t] = "paused"
       /\ t \notin OneShot => job[t] # "none"

JobInv(t) == Asked(t) /\ Single(t) /\ Agreed(t)
JobsInv == JobsType /\ \A t \in Tasks : JobInv(t)

(* A step of one task leaves what is known of every other.                 *)
Alone(t) ==
  /\ UNCHANGED running
  /\ \A u \in Tasks \ {t} :
       /\ at'[u] = at[u] /\ future'[u] = future[u] /\ answer'[u] = answer[u] /\ task'[u] = task[u]
       /\ job'[u] = job[u] /\ run'[u] = run[u] /\ count'[u] = count[u]
       /\ (u \in pending' <=> u \in pending) /\ (u \in tasks' <=> u \in tasks)
       /\ (u \in removed' <=> u \in removed) /\ (u \in spent' <=> u \in spent)

Wanted(t) ==
  count'[t] # count[t] => answer[t] = "yes" /\ t \notin removed /\ (t \in OneShot => count[t] = 0)

LEMMA TaskSteps ==
  ASSUME JobsInv, NEW t \in Tasks, S!Request(t) \/ S!User(t) \/ S!Job(t)
  PROVE  JobsType' /\ JobInv(t)' /\ Alone(t) /\ Wanted(t)
<1> USE DEF JobsInv, JobsType, JobInv, Asked, Single, Agreed, Alone, Wanted,
            S!confirming, S!scheduling, S!executing
<1>1. CASE S!Parse(t) \/ S!Misunderstood(t)
  BY <1>1 DEF S!Parse, S!Misunderstood
<1>2. CASE S!Interpreted(t)
  BY <1>2 DEF S!Interpreted
<1>3. CASE S!Approved(t)
  BY <1>3 DEF S!Approved, S!Schedule
<1>4. CASE S!NotApproved(t)
  BY <1>4 DEF S!NotApproved
<1>5. CASE S!Cancel(t)
  BY <1>5 DEF S!Cancel
<1>6. CASE S!Pause(t)
  BY <1>6 DEF S!Pause
<1>7. CASE S!Resume(t)
  BY <1>7 DEF S!Resume
<1>8. ASSUME NEW reply \in {"yes", "no"}, S!Respond(t, reply)
      PROVE  JobsType' /\ JobInv(t)' /\ Alone(t) /\ Wanted(t)
  BY <1>8 DEF S!Respond
<1>9. CASE S!Fire(t)
  BY <1>9 DEF S!Fire, S!Due, S!AfterFire
<1>10. CASE S!Missed(t)
  BY <1>10 DEF S!Missed, S!Due, S!AfterFire, S!Spend
<1>11. CASE S!Begin(t)
  BY <1>11 DEF S!Begin
<1>12. CASE S!Executed(t)
  BY <1>12 DEF S!Executed
<1>13. CASE S!Fails(t)
  BY <1>13 DEF S!Fails, S!Spend
<1> QED
  BY <1>1, <1>2, <1>3, <1>4, <1>5, <1>6, <1>7, <1>8, <1>9, <1>10, <1>11, <1>12, <1>13
  DEF S!Request, S!User, S!Job

LEMMA JobsStep ==
  ASSUME JobsInv, [S!Next]_(S!vars)
  PROVE  JobsInv' /\ \A t \in Tasks : Wanted(t)
<1>1. ASSUME NEW t \in Tasks, S!Request(t) \/ S!User(t) \/ S!Job(t)
      PROVE  JobsInv' /\ \A u \in Tasks : Wanted(u)
  <2>1. JobsType' /\ JobInv(t)' /\ Alone(t) /\ Wanted(t)
    BY <1>1, TaskSteps
  <2>2. ASSUME NEW u \in Tasks \ {t} PROVE JobInv(u)' /\ Wanted(u)
    BY <2>1, <2>2 DEF Alone, Wanted, JobsInv, JobInv, Asked, Single, Agreed
  <2> QED
    BY <2>1, <2>2 DEF JobsInv
<1>2. CASE S!Stop
  <2>1. JobsType' /\ running' = FALSE /\ count' = count
    BY <1>2 DEF S!Stop, JobsInv, JobsType
  <2>2. ASSUME NEW t \in Tasks PROVE JobInv(t)'
    BY <1>2, <2>1 DEF S!Stop, JobsInv, JobsType, JobInv, Asked, Single, Agreed
  <2> QED
    BY <2>1, <2>2 DEF JobsInv, Wanted
<1>3. CASE UNCHANGED S!vars
  BY <1>3 DEF S!vars, S!confirming, S!scheduling, S!executing, JobsInv, JobsType, JobInv, Asked,
              Single, Agreed, Wanted
<1> QED
  BY <1>1, <1>2, <1>3 DEF S!Next

(* Whatever fires, is paused, cancelled or stopped in whatever order: jobs *)
(* and tasks are of one mind, and only what the user approved and has not  *)
(* removed runs, a one-shot task once.                                     *)
THEOREM JobsAreKept == S!Spec => JobsKept
<1>1. S!Init => JobsInv
  BY DEF S!Init, JobsInv, JobsType, JobInv, Asked, Single, Agreed
<1>2. JobsInv => S!JobsAgree
  BY DEF JobsInv, JobsType, JobInv, Agreed, S!JobsAgree, S!JobsHaveTasks, S!ActiveTasksRun
<1>3. (\A t \in Tasks : Wanted(t)) => S!RunsAreWanted
  BY DEF Wanted, S!RunsAreWanted
<1> QED
  BY <1>1, <1>2, <1>3, JobsStep, PTL DEF S!Spec, JobsKept, S!JobsKept
-----------------------------------------------------------------------------
(* Webhooks.                                                               *)
LEMMA CardinalityOfW == \A X : W!Cardinality(X) = Cardinality(X)
BY Zenon DEF W!Cardinality, Cardinality

Over(D, h, place) == {i \in DOMAIN D : D[i].hook = h /\ D[i].at = place}
Places == {"posting", "sleeping", "sent", "failed", "cancelled"}
Delivery == [at : Places, hook : Outbound, posts : Nat]
Deliveries == Seq(Delivery)
Ends == {"sent", "failed"}

(* A hook of which there are deliveries was registered once; after it was  *)
(* deleted it may get a list of events again, of what ended since.         *)
HookInv(h) ==
  /\ dead[h] = Cardinality(Over(deliveries, h, "failed"))
  /\ h \in W!Registered => log[h] = [failed |-> Cardinality(Over(deliveries, h, "failed")),
                                     processed |-> Cardinality(Over(deliveries, h, "sent"))]
  /\ hook[h] = "deleted" => \/ log[h] = W!Gone
                            \/ \E m \in Nat, n \in 0 .. dead[h] : log[h] = [failed |-> n, processed |-> m]

HooksInv ==
  /\ hook \in [W!Hooks -> {"new", "active", "paused", "disabled", "deleted"}]
  /\ DOMAIN log = W!Hooks /\ DOMAIN dead = W!Hooks
  /\ deliveries \in Deliveries
  /\ \A i \in DOMAIN deliveries : hook[deliveries[i].hook] # "new"
  /\ W!AttemptsTrue
  /\ \A h \in Outbound : HookInv(h)

LEMMA Elements ==
  ASSUME NEW X, NEW z \in Seq(X)
  PROVE  Len(z) \in Nat /\ DOMAIN z = 1 .. Len(z) /\ \A i \in 1 .. Len(z) : z[i] \in X
OBVIOUS

LEMMA DeliveryParts ==
  ASSUME NEW d \in Delivery
  PROVE  /\ d.hook \in Outbound /\ d.at \in Places /\ d.posts \in Nat
         /\ d = [at |-> d.at, hook |-> d.hook, posts |-> d.posts]
BY DEF Delivery

LEMMA DeliveryAt ==
  ASSUME NEW D \in Deliveries, NEW i \in DOMAIN D
  PROVE  D[i] \in Delivery
<1> HIDE DEF Delivery
<1> QED
  BY Elements DEF Deliveries

LEMMA OverFinite ==
  ASSUME NEW D \in Deliveries, NEW h, NEW place
  PROVE  IsFiniteSet(Over(D, h, place)) /\ Cardinality(Over(D, h, place)) \in Nat
<1>1. DOMAIN D = 1 .. Len(D) /\ Len(D) \in Nat
  BY DEF Deliveries
<1>2. IsFiniteSet(1 .. Len(D))
  BY <1>1, FS_Interval
<1>3. Over(D, h, place) \subseteq 1 .. Len(D)
  BY <1>1 DEF Over
<1> QED
  BY <1>2, <1>3, FS_Subset, FS_CardinalityType

LEMMA MoveTypes ==
  ASSUME NEW D \in Deliveries, NEW i \in DOMAIN D, NEW to \in Places, NEW n \in Nat
  PROVE  LET after == [D EXCEPT ![i] = [at |-> to, hook |-> @.hook, posts |-> n]] IN
         /\ after \in Deliveries /\ DOMAIN after = DOMAIN D
         /\ after[i] = [at |-> to, hook |-> D[i].hook, posts |-> n]
         /\ \A j \in DOMAIN D \ {i} : after[j] = D[j]
<1>1. D[i] \in Delivery /\ D[i].hook \in Outbound
  BY DeliveryAt, DeliveryParts
<1>2. [at |-> to, hook |-> D[i].hook, posts |-> n] \in Delivery
  BY <1>1 DEF Delivery
<1> QED
  BY <1>2 DEF Deliveries

(* One delivery moves: it is over where it comes, and nowhere it was.      *)
LEMMA OneMoves ==
  ASSUME NEW D \in Deliveries, NEW i \in DOMAIN D, D[i].at \notin Ends,
         NEW after, DOMAIN after = DOMAIN D, after[i].hook = D[i].hook,
         \A j \in DOMAIN D \ {i} : after[j] = D[j],
         NEW h, NEW place \in Ends
  PROVE  /\ Cardinality(Over(D, h, place)) \in Nat
         /\ Cardinality(Over(after, h, place)) =
              Cardinality(Over(D, h, place)) + (IF h = D[i].hook /\ place = after[i].at THEN 1 ELSE 0)
<1>1. i \notin Over(D, h, place)
  BY DEF Over
<1>2. Over(after, h, place) = IF h = D[i].hook /\ place = after[i].at THEN Over(D, h, place) \cup {i}
                                                                     ELSE Over(D, h, place)
  BY <1>1 DEF Over
<1>3. Cardinality(Over(D, h, place) \cup {i}) = Cardinality(Over(D, h, place)) + 1
  BY <1>1, OverFinite, FS_AddElement
<1> QED
  BY <1>2, <1>3, OverFinite

(* A hook that no delivery ended for keeps what is true of it.             *)
LEMMA OthersKept ==
  ASSUME NEW h \in Outbound, HookInv(h), hook'[h] = hook[h], log'[h] = log[h], dead'[h] = dead[h],
         \A place \in Ends : Cardinality(Over(deliveries', h, place)) = Cardinality(Over(deliveries, h, place))
  PROVE  HookInv(h)'
BY DEF HookInv, W!Registered, W!Hooks, Ends

(* An event that is entered for a hook goes with the delivery that ended,  *)
(* and what is entered for a deleted one stays below its dead letters.     *)
LEMMA EntryKeeps ==
  ASSUME NEW x \in Outbound, HookInv(x), hook[x] # "new", hook' = hook,
         hook \in [W!Hooks -> {"new", "active", "paused", "disabled", "deleted"}],
         NEW sent \in Nat, NEW failed \in Nat, NEW s \in {0, 1},
         Cardinality(Over(deliveries, x, "sent")) = sent,
         Cardinality(Over(deliveries, x, "failed")) = failed,
         Cardinality(Over(deliveries', x, "sent")) = sent + s,
         Cardinality(Over(deliveries', x, "failed")) = failed + (1 - s),
         dead'[x] = dead[x] + (1 - s), DOMAIN log = W!Hooks,
         W!Entered(x, IF s = 1 THEN "processed" ELSE "failed")
  PROVE  HookInv(x)'
<1>0. log'[x] = [(IF log[x] = W!Gone THEN W!Fresh ELSE log[x])
                   EXCEPT ![IF s = 1 THEN "processed" ELSE "failed"] = @ + 1]
  BY DEF W!Entered, W!Hooks
<1>1. x \in W!Hooks /\ dead[x] = failed /\ dead'[x] = failed + (1 - s)
  BY DEF HookInv, W!Hooks
<1>2. ASSUME NEW m \in Nat, NEW k \in Nat,
             (IF log[x] = W!Gone THEN W!Fresh ELSE log[x]) = [failed |-> k, processed |-> m]
      PROVE  log'[x] = [failed |-> k + (1 - s), processed |-> m + s]
  <2>1. CASE s = 1
    BY <1>0, <1>2, <2>1
  <2>2. CASE s = 0
    BY <1>0, <1>2, <2>2
  <2> QED
    BY <2>1, <2>2
<1>3. CASE x \in W!Registered
  <2>1. log[x] = [failed |-> failed, processed |-> sent] /\ log[x] # W!Gone
    BY <1>3 DEF HookInv, W!Gone
  <2>2. log'[x] = [failed |-> failed + (1 - s), processed |-> sent + s]
    BY <1>2, <2>1
  <2>3. hook'[x] # "deleted"
    BY <1>3 DEF W!Registered
  <2> QED
    BY <1>1, <2>2, <2>3 DEF HookInv
<1>4. CASE x \notin W!Registered
  <2>1. hook[x] = "deleted" /\ x \notin W!Registered'
    BY <1>1, <1>4 DEF W!Registered
  <2>2. PICK m \in Nat, k \in 0 .. failed :
           (IF log[x] = W!Gone THEN W!Fresh ELSE log[x]) = [failed |-> k, processed |-> m]
    <3>1. CASE log[x] = W!Gone
      <4>1. 0 \in 0 .. failed
        OBVIOUS
      <4> QED
        BY <3>1, <4>1 DEF W!Fresh
    <3>2. CASE log[x] # W!Gone
      BY <1>1, <2>1, <3>2 DEF HookInv
    <3> QED
      BY <3>1, <3>2
  <2>3. log'[x] = [failed |-> k + (1 - s), processed |-> m + s]
    BY <1>2, <2>2
  <2>4. m + s \in Nat /\ k + (1 - s) \in 0 .. dead'[x]
    BY <1>1
  <2> QED
    BY <1>1, <2>1, <2>3, <2>4 DEF HookInv
<1> QED
  BY <1>3, <1>4

LEMMA DeliveryKeeps ==
  ASSUME HooksInv, NEW i \in DOMAIN deliveries, W!Deliver(i)
  PROVE  HooksInv'
<1>1. PICK x \in Outbound, m \in Nat : x = deliveries[i].hook /\ m = deliveries[i].posts
  BY DeliveryAt, DeliveryParts DEF HooksInv
<1>2. /\ deliveries \in Deliveries /\ x \in W!Hooks /\ HookInv(x) /\ hook[x] # "new"
      /\ MaxRetries \in Nat
  BY <1>1, HookConstants DEF HooksInv, W!Hooks
<1>3. deliveries[i].at \in {"posting", "sleeping"} /\ deliveries[i].at \notin Ends /\ hook' = hook
  BY DEF W!Deliver, W!Sent, W!Retry, W!Awake, W!Exhausted, Ends
<1>4. m <= MaxRetries
  BY <1>1, <1>2, <1>3 DEF HooksInv, W!AttemptsTrue, W!Attempts
<1>5. PICK to \in Places, n \in Nat :
        /\ W!Moved(i, to, n)
        /\ \/ to \in {"posting", "sleeping"} /\ n <= MaxRetries /\ UNCHANGED <<log, dead>>
           \/ to = "sent" /\ W!Sent(i)
           \/ to = "failed" /\ n = MaxRetries + 1 /\ W!Exhausted(i)
  <2>1. CASE W!Sent(i)
    BY <1>1, <2>1 DEF W!Sent, Places
  <2>2. CASE W!Retry(i)
    BY <1>1, <1>2, <2>2 DEF W!Retry, Places
  <2>3. CASE W!Awake(i)
    BY <1>1, <1>4, <2>3 DEF W!Awake, Places
  <2>4. CASE W!Exhausted(i)
    <3>1. W!Moved(i, "failed", m + 1) /\ m = MaxRetries
      BY <1>1, <1>2, <1>4, <2>4 DEF W!Exhausted
    <3> QED
      BY <2>4, <3>1 DEF Places
  <2> QED
    BY <2>1, <2>2, <2>3, <2>4 DEF W!Deliver
<1>6. /\ deliveries' \in Deliveries /\ DOMAIN deliveries' = DOMAIN deliveries
      /\ deliveries'[i] = [at |-> to, hook |-> x, posts |-> n]
      /\ \A j \in DOMAIN deliveries \ {i} : deliveries'[j] = deliveries[j]
  <2>1. deliveries' = [deliveries EXCEPT ![i] = [at |-> to, hook |-> @.hook, posts |-> n]]
    BY <1>5 DEF W!Moved
  <2> QED
    BY <1>1, <1>2, <2>1, MoveTypes
<1>7. deliveries'[i].at = to /\ deliveries'[i].hook = x /\ deliveries'[i].posts = n
  BY <1>6
<1>8. ASSUME NEW h, NEW place \in Ends
      PROVE  /\ Cardinality(Over(deliveries, h, place)) \in Nat
             /\ Cardinality(Over(deliveries', h, place)) =
                  Cardinality(Over(deliveries, h, place)) + (IF h = x /\ place = to THEN 1 ELSE 0)
  <2>1. deliveries'[i].hook = deliveries[i].hook
    BY <1>1, <1>7
  <2> QED
    BY <1>1, <1>2, <1>3, <1>6, <1>7, <2>1, OneMoves
<1>9. \A j \in DOMAIN deliveries' : hook'[deliveries'[j].hook] # "new"
  BY <1>2, <1>3, <1>6, <1>7 DEF HooksInv
<1>10. W!AttemptsTrue'
  <2>1. /\ to = "failed" => n = MaxRetries + 1
        /\ to \in {"posting", "sleeping"} => n <= MaxRetries
        /\ to # "cancelled"
    BY <1>5
  <2>2. \A j \in DOMAIN deliveries \ {i} : deliveries'[j] = deliveries[j]
    BY <1>6
  <2>3. MaxRetries \in Nat /\ (n <= MaxRetries => n < MaxRetries + 1)
    BY <1>2
  <2>4. /\ to = "failed" => n = W!Attempts
        /\ to \in {"posting", "sleeping", "cancelled"} => n < W!Attempts
    BY <2>1, <2>3 DEF W!Attempts
  <2>5. ASSUME NEW j \in DOMAIN deliveries
        PROVE  /\ deliveries'[j].at = "failed" => deliveries'[j].posts = W!Attempts
               /\ deliveries'[j].at \in {"posting", "sleeping", "cancelled"}
                    => deliveries'[j].posts < W!Attempts
    <3>1. CASE j = i
      BY <1>7, <2>4, <3>1
    <3>2. CASE j # i
      BY <2>2, <3>2 DEF HooksInv, W!AttemptsTrue
    <3> QED
      BY <3>1, <3>2
  <2> QED
    BY <1>6, <2>5 DEF W!AttemptsTrue, W!Attempts
<1>11. CASE to \notin Ends
  <2>1. UNCHANGED <<log, dead>>
    BY <1>5, <1>11 DEF Ends
  <2>2. ASSUME NEW h \in Outbound PROVE HookInv(h)'
    <3>1. \A place \in Ends : Cardinality(Over(deliveries', h, place)) = Cardinality(Over(deliveries, h, place))
      BY <1>8, <1>11
    <3> QED
      BY <1>3, <2>1, <3>1, OthersKept DEF HooksInv
  <2> QED
    BY <1>3, <1>6, <1>9, <1>10, <2>1, <2>2 DEF HooksInv
<1>12. ASSUME NEW s \in {0, 1}, to = IF s = 1 THEN "sent" ELSE "failed",
              W!Entered(x, IF s = 1 THEN "processed" ELSE "failed"),
              DOMAIN dead' = W!Hooks, dead'[x] = dead[x] + (1 - s),
              \A h \in W!Hooks \ {x} : dead'[h] = dead[h]
       PROVE  HooksInv'
  <2>1. /\ DOMAIN log' = W!Hooks /\ DOMAIN dead' = W!Hooks
        /\ \A h \in W!Hooks \ {x} : log'[h] = log[h] /\ dead'[h] = dead[h]
    BY <1>12 DEF W!Entered, HooksInv
  <2>2. ASSUME NEW h \in Outbound, h # x PROVE HookInv(h)'
    <3>1. \A place \in Ends : Cardinality(Over(deliveries', h, place)) = Cardinality(Over(deliveries, h, place))
      BY <1>8, <2>2
    <3>2. h \in W!Hooks
      BY DEF W!Hooks
    <3> QED
      BY <1>3, <2>1, <2>2, <3>1, <3>2, OthersKept DEF HooksInv
  <2>3. HookInv(x)'
    <3>3. "sent" \in Ends /\ "failed" \in Ends
      BY DEF Ends
    <3>4. PICK sent \in Nat, failed \in Nat : /\ Cardinality(Over(deliveries, x, "sent")) = sent
                                              /\ Cardinality(Over(deliveries, x, "failed")) = failed
      BY <1>8, <3>3
    <3>5. /\ Cardinality(Over(deliveries', x, "sent")) = sent + s
          /\ Cardinality(Over(deliveries', x, "failed")) = failed + (1 - s)
      BY <1>8, <1>12, <3>3, <3>4
    <3>6. hook \in [W!Hooks -> {"new", "active", "paused", "disabled", "deleted"}] /\ DOMAIN log = W!Hooks
      BY DEF HooksInv
    <3> QED
      BY <1>2, <1>3, <1>12, <3>4, <3>5, <3>6, EntryKeeps
  <2> QED
    BY <1>3, <1>6, <1>9, <1>10, <2>1, <2>2, <2>3 DEF HooksInv
<1>13. CASE to = "sent"
  <2>1. W!Entered(x, "processed") /\ dead' = dead
    BY <1>1, <1>5, <1>13 DEF W!Sent
  <2>2. dead[x] \in Nat
    BY <1>2, OverFinite DEF HookInv
  <2>3. DOMAIN dead' = W!Hooks /\ dead'[x] = dead[x] + (1 - 1) /\ \A h \in W!Hooks \ {x} : dead'[h] = dead[h]
    BY <1>2, <2>1, <2>2 DEF HooksInv
  <2> QED
    BY <1>12, <1>13, <2>1, <2>3
<1>14. CASE to = "failed"
  <2>1. W!Entered(x, "failed") /\ dead' = [dead EXCEPT ![x] = @ + 1]
    BY <1>1, <1>5, <1>14 DEF W!Exhausted
  <2>2. DOMAIN dead' = W!Hooks /\ dead'[x] = dead[x] + (1 - 0) /\ \A h \in W!Hooks \ {x} : dead'[h] = dead[h]
    BY <1>2, <2>1 DEF HooksInv
  <2> QED
    BY <1>12, <1>14, <2>1, <2>2
<1> QED
  BY <1>11, <1>13, <1>14 DEF Ends

(* What starts for an event are posts of matching hooks.                   *)
LEMMA EventKeeps ==
  ASSUME HooksInv, W!OnEvent
  PROVE  HooksInv'
<1> DEFINE M == W!Matching(Head(bus))
           order == W!SetToSeq(M)
           begun == [i \in 1 .. W!Cardinality(M) |-> [at |-> "posting", hook |-> order[i], posts |-> 0]]
<1>1. IsFiniteSet(M) /\ M \subseteq Outbound /\ Cardinality(M) \in Nat /\ W!Cardinality(M) = Cardinality(M)
      /\ \A h \in M : hook[h] = "active"
  BY HookConstants, FS_Subset, FS_CardinalityType, CardinalityOfW DEF W!Matching
<1>2. order \in [1 .. Cardinality(M) -> M]
  <2>1. \E f \in [1 .. Cardinality(M) -> M] : W!IsInjective(f)
    <3>1. PICK f \in Bijection(1 .. Cardinality(M), M) : TRUE
      BY <1>1, FS_CardinalityType DEF ExistsBijection
    <3>2. f \in [1 .. Cardinality(M) -> M] /\ W!IsInjective(f)
      BY <3>1 DEF Bijection, Injection, IsInjective, W!IsInjective
    <3> QED
      BY <3>2
  <2>2. order = CHOOSE f \in [1 .. W!Cardinality(M) -> M] : W!IsInjective(f)
    BY DEF W!SetToSeq
  <2> QED
    BY <1>1, <2>1, <2>2
<1> HIDE DEF M, order
<1>3. begun \in Deliveries /\ \A i \in DOMAIN begun : begun[i].at = "posting" /\ begun[i].hook \in M
                                                      /\ begun[i].posts = 0
  <2> DEFINE size == Cardinality(M)
  <2>1. size \in Nat /\ begun = [i \in 1 .. size |-> [at |-> "posting", hook |-> order[i], posts |-> 0]]
    BY <1>1
  <2>2. \A i \in 1 .. size : order[i] \in M /\ order[i] \in Outbound
    BY <1>1, <1>2
  <2> HIDE DEF size
  <2>3. \A i \in 1 .. size : [at |-> "posting", hook |-> order[i], posts |-> 0] \in Delivery
    BY <2>2 DEF Delivery, Places
  <2> HIDE DEF begun
  <2>4. DOMAIN begun = 1 .. size /\ begun \in [1 .. size -> Delivery]
    BY <2>1, <2>3
  <2>5. begun \in Deliveries
    BY <2>1, <2>4 DEF Deliveries
  <2> QED
    BY <2>1, <2>2, <2>4, <2>5
<1>4. deliveries' = deliveries \o begun /\ UNCHANGED <<hook, log, dead>>
  BY DEF W!OnEvent, M, order
<1> HIDE DEF begun
<1>5. /\ deliveries' \in Deliveries /\ DOMAIN deliveries \subseteq DOMAIN deliveries'
      /\ \A i \in DOMAIN deliveries : deliveries'[i] = deliveries[i]
      /\ \A i \in DOMAIN deliveries' \ DOMAIN deliveries :
           deliveries'[i].at = "posting" /\ deliveries'[i].hook \in M /\ deliveries'[i].posts = 0
  <2>1. deliveries \in Deliveries
    BY DEF HooksInv
  <2> QED
    BY <1>3, <1>4, <2>1 DEF Deliveries
<1>6. ASSUME NEW h \in Outbound PROVE HookInv(h)'
  <2>1. \A place \in Ends : Over(deliveries', h, place) = Over(deliveries, h, place)
    BY <1>5 DEF Over, Ends
  <2> QED
    BY <1>4, <2>1, OthersKept DEF HooksInv
<1>7. W!AttemptsTrue'
  BY <1>5, HookConstants DEF HooksInv, W!AttemptsTrue, W!Attempts
<1>8. \A i \in DOMAIN deliveries' : hook'[deliveries'[i].hook] # "new"
  BY <1>1, <1>4, <1>5 DEF HooksInv
<1> QED
  BY <1>4, <1>5, <1>6, <1>7, <1>8 DEF HooksInv

LEMMA StopKeeps ==
  ASSUME HooksInv, W!Stop
  PROVE  HooksInv'
<1>1. UNCHANGED <<hook, log, dead>> /\ deliveries \in Deliveries
  BY DEF W!Stop, HooksInv
<1>2. /\ DOMAIN deliveries' = DOMAIN deliveries
      /\ \A i \in DOMAIN deliveries :
           deliveries'[i] = IF deliveries[i].at \in {"posting", "sleeping"}
                            THEN [at |-> "cancelled", hook |-> deliveries[i].hook, posts |-> deliveries[i].posts]
                            ELSE deliveries[i]
  BY DEF W!Stop
<1>3. ASSUME NEW i \in DOMAIN deliveries
      PROVE  /\ deliveries'[i] \in Delivery
             /\ deliveries'[i].hook = deliveries[i].hook /\ deliveries'[i].posts = deliveries[i].posts
             /\ \/ deliveries'[i].at = deliveries[i].at
                \/ deliveries[i].at \notin Ends /\ deliveries'[i].at = "cancelled"
  <2>1. PICK x \in Outbound, pl \in Places, m \in Nat :
           deliveries[i] = [at |-> pl, hook |-> x, posts |-> m]
    BY <1>1, DeliveryAt, DeliveryParts
  <2>2. deliveries[i].at = pl /\ deliveries[i].hook = x /\ deliveries[i].posts = m
    BY <2>1
  <2>3. CASE pl \in {"posting", "sleeping"}
    <3>1. deliveries'[i] = [at |-> "cancelled", hook |-> x, posts |-> m]
      BY <1>2, <2>2, <2>3
    <3> QED
      BY <2>2, <2>3, <3>1 DEF Ends, Places, Delivery
  <2>4. CASE pl \notin {"posting", "sleeping"}
    <3>1. deliveries'[i] = deliveries[i] /\ deliveries[i] \in Delivery
      BY <1>1, <1>2, <2>2, <2>4, DeliveryAt
    <3> QED
      BY <3>1
  <2> QED
    BY <2>3, <2>4
<1>4. deliveries' \in Deliveries
  <2>1. DOMAIN deliveries = 1 .. Len(deliveries) /\ Len(deliveries) \in Nat
    BY <1>1 DEF Deliveries
  <2>2. deliveries' = [i \in 1 .. Len(deliveries) |-> deliveries'[i]]
    BY <2>1 DEF W!Stop
  <2> QED
    BY <1>3, <2>1, <2>2 DEF Deliveries
<1>5. ASSUME NEW h \in Outbound PROVE HookInv(h)'
  <2>1. \A place \in Ends : Over(deliveries', h, place) = Over(deliveries, h, place)
    BY <1>2, <1>3 DEF Over, Ends
  <2> QED
    BY <1>1, <2>1, OthersKept DEF HooksInv
<1>6. W!AttemptsTrue'
  BY <1>1, <1>2, <1>3, DeliveryAt, DeliveryParts DEF HooksInv, W!AttemptsTrue, Ends, Places
<1>7. \A i \in DOMAIN deliveries' : hook'[deliveries'[i].hook] # "new"
  BY <1>1, <1>2, <1>3 DEF HooksInv
<1> QED
  BY <1>1, <1>4, <1>5, <1>6, <1>7 DEF HooksInv

LEMMA RegistryKeeps ==
  ASSUME HooksInv, NEW g \in W!Hooks, W!Registry(g)
  PROVE  HooksInv'
<1>1. deliveries' = deliveries /\ dead' = dead /\ deliveries \in Deliveries
  BY DEF W!Registry, W!Register, W!UpdateStatus, W!Delete, W!Receive, HooksInv
<1>2. DOMAIN log' = W!Hooks /\ \A h \in W!Hooks \ {g} : log'[h] = log[h] /\ hook'[h] = hook[h]
  BY DEF W!Registry, W!Register, W!UpdateStatus, W!Delete, W!Receive, W!Entered, HooksInv
<1>3. /\ hook' \in [W!Hooks -> {"new", "active", "paused", "disabled", "deleted"}]
      /\ hook'[g] = "new" => hook[g] = "new"
  BY DEF W!Registry, W!Register, W!UpdateStatus, W!Delete, W!Receive, HooksInv
<1>4. ASSUME NEW h \in Outbound, h # g PROVE HookInv(h)'
  BY <1>1, <1>2, <1>4, OthersKept DEF HooksInv, W!Hooks
<1>5. ASSUME g \in Outbound PROVE HookInv(g)'
  <2>0. HookInv(g)
    BY <1>5 DEF HooksInv
  <2>1. CASE W!Register(g)
    <3>1. hook[g] = "new" /\ hook'[g] = "active" /\ log'[g] = [failed |-> 0, processed |-> 0]
      BY <2>1 DEF W!Register, HooksInv, W!Fresh
    <3>2. \A place : Over(deliveries, g, place) = {}
      BY <3>1 DEF Over, HooksInv
    <3>3. \A place : Cardinality(Over(deliveries, g, place)) = 0
      BY <3>2, FS_EmptySet
    <3> QED
      BY <1>1, <2>0, <3>1, <3>3 DEF HookInv
  <2>2. ASSUME NEW st \in {"active", "paused", "disabled"}, W!UpdateStatus(g, st) PROVE HookInv(g)'
    <3>1. g \in W!Registered /\ hook'[g] = st /\ log' = log
      BY <2>2 DEF W!UpdateStatus, HooksInv
    <3> QED
      BY <1>1, <2>0, <3>1 DEF HookInv, W!Registered
  <2>3. CASE W!Delete(g)
    <3>1. hook'[g] = "deleted" /\ log'[g] = W!Gone
      BY <2>3 DEF W!Delete, HooksInv
    <3> QED
      BY <1>1, <2>0, <3>1 DEF HookInv, W!Registered, W!Gone
  <2>4. ASSUME NEW valid \in BOOLEAN, W!Receive(g, valid) PROVE FALSE
    BY <1>5, <2>4, HookConstants DEF W!Receive
  <2> QED
    BY <2>1, <2>2, <2>3, <2>4 DEF W!Registry
<1>6. W!AttemptsTrue'
  BY <1>1 DEF HooksInv, W!AttemptsTrue
<1>7. \A i \in DOMAIN deliveries' : hook'[deliveries'[i].hook] # "new"
  <2>1. \A h \in W!Hooks : hook[h] # "new" => hook'[h] # "new"
    BY <1>2, <1>3
  <2>2. \A i \in DOMAIN deliveries : deliveries[i].hook \in W!Hooks
    BY <1>1, DeliveryAt, DeliveryParts DEF W!Hooks
  <2> QED
    BY <1>1, <2>1, <2>2 DEF HooksInv
<1> QED
  BY <1>1, <1>2, <1>3, <1>4, <1>5, <1>6, <1>7 DEF HooksInv

(* Whatever is registered, paused and deleted while deliveries retry: the  *)
(* events of a hook and its dead letters are its deliveries that ended.    *)
THEOREM HooksBooksAreKept == W!Spec => []BooksKept
<1>1. W!Init => HooksInv
  <2> SUFFICES ASSUME W!Init PROVE HooksInv
    OBVIOUS
  <2>1. deliveries = <<>> /\ \A h, place : Over(deliveries, h, place) = {}
    BY DEF W!Init, Over
  <2>2. \A h \in Outbound : HookInv(h)
    BY <2>1, FS_EmptySet DEF W!Init, HookInv, W!Registered, W!Hooks
  <2> QED
    BY <2>1, <2>2 DEF W!Init, HooksInv, Deliveries, W!AttemptsTrue
<1>2. HooksInv => BooksKept
  <2> SUFFICES ASSUME HooksInv PROVE W!LogsAgree
    BY DEF BooksKept, W!BooksKept, HooksInv
  <2> SUFFICES ASSUME NEW h \in Outbound
               PROVE  /\ dead[h] = W!Ended(h, "failed")
                      /\ h \in W!Registered => log[h] = [failed |-> W!Ended(h, "failed"), processed |-> W!Ended(h, "sent")]
                      /\ hook[h] = "deleted" /\ log[h] # W!Gone => log[h].failed <= dead[h]
    BY DEF W!LogsAgree
  <2>1. \A place : W!Ended(h, place) = Cardinality(Over(deliveries, h, place))
    BY CardinalityOfW DEF W!Ended, Over
  <2>2. HookInv(h)
    BY DEF HooksInv
  <2>3. dead[h] \in Nat
    BY <2>2, OverFinite DEF HooksInv, HookInv
  <2>4. hook[h] = "deleted" /\ log[h] # W!Gone => log[h].failed <= dead[h]
    <3> SUFFICES ASSUME hook[h] = "deleted", log[h] # W!Gone PROVE log[h].failed <= dead[h]
      OBVIOUS
    <3>1. PICK m \in Nat, k \in 0 .. dead[h] : log[h] = [failed |-> k, processed |-> m]
      BY <2>2 DEF HookInv
    <3>2. log[h].failed = k
      BY <3>1
    <3> QED
      BY <2>3, <3>2
  <2> QED
    BY <2>1, <2>2, <2>4 DEF HookInv
<1>3. HooksInv /\ [W!Next]_(W!vars) => HooksInv'
  <2> SUFFICES ASSUME HooksInv, [W!Next]_(W!vars) PROVE HooksInv'
    OBVIOUS
  <2>1. CASE UNCHANGED W!vars
    BY <2>1 DEF W!vars, HooksInv, HookInv, W!Registered, W!AttemptsTrue
  <2> QED
    BY <2>1, RegistryKeeps, EventKeeps, DeliveryKeeps, StopKeeps DEF W!Next
<1> QED
  BY <1>1, <1>2, <1>3, PTL DEF W!Spec

-----------------------------------------------------------------------------
(* Workflows and their triggers.                                           *)

(* The entries of a dictionary are those of R, each in one place.          *)
Lists(d, R) ==
  /\ d \in Seq(Triggers \cup {None})
  /\ {d[i] : i \in Live(d)} = R
  /\ \A i, j \in Live(d) : d[i] = d[j] => i = j

TriggersIn(w) == {TriggersOf[w][i] : i \in DOMAIN TriggersOf[w]}

LEMMA TriggerOwners ==
  /\ \A t \in Triggers : WorkflowOf(t) \in Workflows
  /\ \A w \in Workflows : TriggersIn(w) = {t \in Triggers : WorkflowOf(t) = w}
<1>1. ASSUME NEW t \in Triggers
      PROVE  WorkflowOf(t) \in Workflows /\ t \in TriggersIn(WorkflowOf(t))
  <2>1. \E w \in Workflows : \E i \in DOMAIN TriggersOf[w] : TriggersOf[w][i] = t
    BY TriggerConstants
  <2> QED
    BY <2>1 DEF WorkflowOf, TriggersIn
<1>2. ASSUME NEW w \in Workflows, NEW t \in TriggersIn(w)
      PROVE  t \in Triggers /\ WorkflowOf(t) = w
  <2>1. PICK i \in DOMAIN TriggersOf[w] : TriggersOf[w][i] = t
    BY <1>2 DEF TriggersIn
  <2>2. t \in Triggers
    BY <2>1, TriggerConstants, Elements
  <2>3. PICK j \in DOMAIN TriggersOf[WorkflowOf(t)] : TriggersOf[WorkflowOf(t)][j] = t
    BY <1>1, <2>2 DEF TriggersIn
  <2> QED
    BY <1>1, <2>1, <2>2, <2>3, TriggerConstants
<1> QED
  BY <1>1, <1>2

LEMMA SizeCounts ==
  ASSUME NEW d, NEW R, Lists(d, R)
  PROVE  /\ IsFiniteSet(Live(d)) /\ IsFiniteSet(R)
         /\ Size(d) \in Nat /\ Size(d) = Cardinality(R)
<1>1. IsFiniteSet(Live(d))
  <2>1. Len(d) \in Nat /\ Live(d) \subseteq 1 .. Len(d)
    BY Elements DEF Lists, Live
  <2>2. IsFiniteSet(1 .. Len(d))
    BY <2>1, FS_Interval
  <2> QED
    BY <2>1, <2>2, FS_Subset
<1>2. [i \in Live(d) |-> d[i]] \in Bijection(Live(d), R)
  BY DEF Lists, Bijection, Injection, Surjection, IsInjective
<1>3. IsFiniteSet(R) /\ Cardinality(R) = Cardinality(Live(d))
  BY <1>1, <1>2, FS_Bijection DEF ExistsBijection
<1> QED
  BY <1>1, <1>3, FS_CardinalityType DEF Size

(* Squeezing the holes out loses no entry.                                 *)
LEMMA SqueezeKeeps ==
  ASSUME NEW d, NEW R, Lists(d, R), NEW e \in Squeezed(d)
  PROVE  Lists(e, R)
<1> DEFINE n == Size(d)
           L == Live(d)
<1>1. PICK g \in [1 .. n -> L] : /\ \A j, k \in 1 .. n : j < k => g[j] < g[k]
                                 /\ e = [k \in 1 .. n |-> d[g[k]]]
  BY DEF Squeezed
<1>2. n \in Nat /\ IsFiniteSet(L) /\ Cardinality(L) = n /\ L \subseteq Nat
  <2>1. L \subseteq Nat
    BY Elements DEF Lists, Live
  <2>2. n \in Nat /\ IsFiniteSet(L)
    BY SizeCounts
  <2> QED
    BY <2>1, <2>2 DEF Size
<1>3. \A i \in L : d[i] \in Triggers \cup {None} /\ d[i] # None
  BY Elements DEF Lists, Live
<1>4. \A i, j \in L : d[i] = d[j] => i = j
  BY DEF Lists
<1>5. {d[i] : i \in L} = R
  BY DEF Lists
<1> HIDE DEF n, L
<1>6. \A j, k \in 1 .. n : g[j] = g[k] => j = k
  <2> SUFFICES ASSUME NEW j \in 1 .. n, NEW k \in 1 .. n, g[j] = g[k], j # k PROVE FALSE
    OBVIOUS
  <2>1. j < k \/ k < j
    BY <1>2
  <2>2. g[j] \in Nat /\ g[k] \in Nat
    BY <1>2
  <2> QED
    BY <1>1, <2>1, <2>2
<1>7. g \in Surjection(1 .. n, L)
  <2>1. g \in Injection(1 .. n, L)
    BY <1>6 DEF Injection, IsInjective
  <2>2. Cardinality(1 .. n) = n
    BY <1>2, FS_Interval
  <2> QED
    BY <1>2, <2>1, <2>2, FS_Injection
<1>8. \A i \in L : \E k \in 1 .. n : g[k] = i
  BY <1>7 DEF Surjection
<1>9. DOMAIN e = 1 .. n /\ \A k \in 1 .. n : e[k] = d[g[k]] /\ e[k] \in Triggers \cup {None} /\ e[k] # None
  BY <1>1, <1>3
<1>10. Live(e) = 1 .. n
  BY <1>9 DEF Live
<1>11. e \in Seq(Triggers \cup {None})
  <2>1. e \in [1 .. n -> Triggers \cup {None}]
    BY <1>1, <1>9
  <2> QED
    BY <1>2, <2>1
<1>12. {e[k] : k \in 1 .. n} = R
  BY <1>1, <1>5, <1>8, <1>9
<1>13. \A j, k \in 1 .. n : e[j] = e[k] => j = k
  BY <1>1, <1>4, <1>6, <1>9
<1> QED
  BY <1>10, <1>11, <1>12, <1>13 DEF Lists

(* What a workflow registers comes to what was there.                      *)
LEMMA AppendAdds ==
  ASSUME NEW d, NEW R, Lists(d, R), NEW w \in Workflows, TriggersIn(w) \cap R = {}
  PROVE  Lists(d \o TriggersOf[w], R \cup TriggersIn(w))
<1> DEFINE f == TriggersOf[w]
           m == Len(d)
           n == Len(f)
           e == d \o f
<1>1. /\ f \in Seq(Triggers) /\ d \in Seq(Triggers \cup {None}) /\ m \in Nat /\ n \in Nat
      /\ DOMAIN d = 1 .. m /\ DOMAIN f = 1 .. n
      /\ \A i \in 1 .. m : d[i] \in Triggers \cup {None}
      /\ \A i \in 1 .. n : f[i] \in Triggers
  BY TriggerConstants, Elements DEF Lists
<1>2. \A i, j \in 1 .. n : f[i] = f[j] => i = j
  <2>1. \A i, j \in DOMAIN TriggersOf[w] : TriggersOf[w][i] = TriggersOf[w][j] => i = j
    BY TriggerConstants
  <2> QED
    BY <1>1, <2>1
<1>3. TriggersIn(w) = {f[i] : i \in 1 .. n}
  BY <1>1 DEF TriggersIn
<1> HIDE DEF f
<1>4. e \in Seq(Triggers \cup {None})
  BY <1>1
<1>5. DOMAIN e = 1 .. m + n /\ (\A i \in 1 .. m : e[i] = d[i]) /\ (\A i \in 1 .. n : e[m + i] = f[i])
  BY <1>1
<1> HIDE DEF e, m, n
<1>6. \A i \in 1 .. n : f[i] # None
  BY <1>1, TriggerConstants
<1>7. Live(d) \subseteq 1 .. m /\ Live(e) = Live(d) \cup {m + i : i \in 1 .. n}
  <2>1. \A k \in m + 1 .. m + n : k - m \in 1 .. n /\ k = m + (k - m)
    BY <1>1
  <2>2. 1 .. m + n = (1 .. m) \cup (m + 1 .. m + n)
    BY <1>1
  <2>3. {m + i : i \in 1 .. n} = m + 1 .. m + n
    BY <1>1, <2>1
  <2>4. \A k \in m + 1 .. m + n : e[k] # None
    BY <1>5, <1>6, <2>1
  <2> QED
    BY <1>1, <1>5, <2>2, <2>3, <2>4 DEF Live
<1>8. {d[i] : i \in Live(d)} = R /\ \A i, j \in Live(d) : d[i] = d[j] => i = j
  BY DEF Lists
<1>9. {e[i] : i \in Live(e)} = R \cup TriggersIn(w)
  BY <1>3, <1>5, <1>7, <1>8
<1>10. ASSUME NEW i \in Live(e), NEW j \in Live(e), e[i] = e[j] PROVE i = j
  <2>1. \A k \in Live(d) : e[k] = d[k] /\ d[k] \in R
    BY <1>5, <1>7, <1>8
  <2>2. \A k \in 1 .. n : e[m + k] = f[k] /\ f[k] \notin R
    BY <1>3, <1>5
  <2>3. CASE i \in Live(d) /\ j \in Live(d)
    BY <1>8, <1>10, <2>1, <2>3
  <2>4. CASE i \notin Live(d) /\ j \notin Live(d)
    BY <1>2, <1>7, <1>10, <2>2, <2>4
  <2> QED
    BY <1>7, <1>10, <2>1, <2>2, <2>3, <2>4
<1> QED
  BY <1>4, <1>9, <1>10 DEF Lists, e, f

LEMMA WithAdds ==
  ASSUME NEW d, NEW R, Lists(d, R), NEW w \in Workflows, TriggersIn(w) \cap R = {},
         NEW e \in With(d, w)
  PROVE  Lists(e, R \cup TriggersIn(w))
<1>1. PICK rest \in {d} \cup Squeezed(d) : e = rest \o TriggersOf[w]
  BY DEF With
<1>2. Lists(rest, R)
  BY <1>1, SqueezeKeeps
<1> QED
  BY <1>1, <1>2, AppendAdds

LEMMA WithoutRemoves ==
  ASSUME NEW R, Lists(table, R), NEW w \in Workflows
  PROVE  Lists(Without(w), R \ TriggersIn(w))
<1> DEFINE e == Without(w)
<1>1. /\ DOMAIN table = 1 .. Len(table) /\ Len(table) \in Nat
      /\ \A i \in 1 .. Len(table) : table[i] \in Triggers \cup {None}
  BY Elements DEF Lists
<1>2. /\ DOMAIN e = DOMAIN table
      /\ \A i \in DOMAIN table : e[i] = IF table[i] \in TriggersIn(w) THEN None ELSE table[i]
  BY DEF Without, TriggersIn
<1>3. e \in Seq(Triggers \cup {None})
  <2>1. e = [i \in 1 .. Len(table) |-> e[i]]
    BY <1>1 DEF Without
  <2> HIDE DEF e
  <2>2. e \in [1 .. Len(table) -> Triggers \cup {None}]
    BY <1>1, <1>2, <2>1
  <2> QED
    BY <1>1, <2>2
<1> HIDE DEF e
<1>4. Live(e) = {i \in Live(table) : table[i] \notin TriggersIn(w)}
      /\ \A i \in Live(e) : e[i] = table[i]
  BY <1>2 DEF Live
<1>5. {table[i] : i \in Live(table)} = R /\ \A i, j \in Live(table) : table[i] = table[j] => i = j
  BY DEF Lists
<1> QED
  BY <1>3, <1>4, <1>5 DEF Lists, e

(* The table is that of the active workflows.                              *)
Watching == {t \in Triggers : status[WorkflowOf(t)] = "active"}
TableInv ==
  /\ status \in [Workflows -> {"absent", "interpreting", "active", "inactive", "deleted"}]
  /\ Lists(table, Watching)

LEMMA TableSays ==
  ASSUME TableInv
  PROVE  TableExact
<1>1. Lists(table, Watching)
  BY DEF TableInv
<1>2. Registered = Watching
  BY <1>1 DEF Registered, Lists, Live
<1> QED
  BY <1>1, <1>2, SizeCounts DEF TableExact, Watching

(* A workflow's status decides of its triggers, and of no others.          *)
LEMMA StatusDecides ==
  ASSUME TableInv, NEW w \in Workflows, NEW s \in {"interpreting", "active", "inactive", "deleted"},
         status' = [status EXCEPT ![w] = s]
  PROVE  /\ status' \in [Workflows -> {"absent", "interpreting", "active", "inactive", "deleted"}]
         /\ Watching' = IF s = "active" THEN (Watching \ TriggersIn(w)) \cup TriggersIn(w)
                                        ELSE Watching \ TriggersIn(w)
         /\ status[w] # "active" => Watching \ TriggersIn(w) = Watching
<1>1. status' \in [Workflows -> {"absent", "interpreting", "active", "inactive", "deleted"}]
      /\ status'[w] = s /\ \A v \in Workflows \ {w} : status'[v] = status[v]
  BY DEF TableInv
<1>2. TriggersIn(w) = {t \in Triggers : WorkflowOf(t) = w}
  BY TriggerOwners
<1>3. \A t \in Triggers : t \in Watching' <=> status'[WorkflowOf(t)] = "active"
  BY DEF Watching
<1> QED
  BY <1>1, <1>2, <1>3, TriggerOwners DEF Watching

LEMMA TableSteps ==
  ASSUME TableInv, [Next]_vars
  PROVE  TableInv'
<1>0. Lists(table, Watching)
  BY DEF TableInv
<1>1. ASSUME NEW w \in Workflows, status[w] \in {"absent", "interpreting"}, Store(w)
      PROVE  TableInv'
  <2>1. status' = [status EXCEPT ![w] = "active"] /\ table' \in With(table, w) /\ status[w] # "active"
    BY <1>1 DEF Store
  <2>2. /\ status' \in [Workflows -> {"absent", "interpreting", "active", "inactive", "deleted"}]
        /\ Watching' = Watching \cup TriggersIn(w) /\ Watching \cap TriggersIn(w) = {}
    <3>1. PICK s \in {"interpreting", "active", "inactive", "deleted"} : s = "active"
      OBVIOUS
    <3>2. /\ status' \in [Workflows -> {"absent", "interpreting", "active", "inactive", "deleted"}]
          /\ Watching' = IF s = "active" THEN (Watching \ TriggersIn(w)) \cup TriggersIn(w)
                                         ELSE Watching \ TriggersIn(w)
          /\ Watching \ TriggersIn(w) = Watching
      BY <2>1, <3>1, StatusDecides
    <3> QED
      BY <3>1, <3>2
  <2>3. Lists(table', Watching \cup TriggersIn(w))
    BY <1>0, <2>1, <2>2, WithAdds
  <2>4. Lists(table', Watching')
    BY <2>2, <2>3
  <2> QED
    BY <2>2, <2>4 DEF TableInv, Lists, Live
<1>2. ASSUME NEW w \in Workflows, NEW s \in {"active", "inactive", "deleted"},
             status' = [status EXCEPT ![w] = s],
             IF s = "active" THEN table' \in With(Without(w), w) ELSE table' = Without(w)
      PROVE  TableInv'
  <2>1. Lists(Without(w), Watching \ TriggersIn(w))
    BY <1>0, WithoutRemoves
  <2>2. /\ status' \in [Workflows -> {"absent", "interpreting", "active", "inactive", "deleted"}]
        /\ Watching' = IF s = "active" THEN (Watching \ TriggersIn(w)) \cup TriggersIn(w)
                                       ELSE Watching \ TriggersIn(w)
    BY <1>2, StatusDecides
  <2>3. Lists(table', Watching')
    <3>1. CASE s = "active"
      <4>1. table' \in With(Without(w), w) /\ TriggersIn(w) \cap (Watching \ TriggersIn(w)) = {}
        BY <1>2, <3>1
      <4>2. Lists(table', (Watching \ TriggersIn(w)) \cup TriggersIn(w))
        BY <2>1, <4>1, WithAdds
      <4> QED
        BY <2>2, <3>1, <4>2
    <3>2. CASE s # "active"
      BY <1>2, <2>1, <2>2, <3>2
    <3> QED
      BY <3>1, <3>2
  <2> QED
    BY <2>2, <2>3 DEF TableInv, Lists, Live
<1>3. ASSUME UNCHANGED <<status, table>> PROVE TableInv'
  BY <1>3 DEF TableInv, Lists, Live, Watching
<1>4. ASSUME NEW w \in Workflows, Import(w) \/ Interpreted(w) PROVE TableInv'
  BY <1>1, <1>4 DEF Import, Interpreted
<1>5. ASSUME NEW w \in Workflows, Interpret(w) PROVE TableInv'
  <2>1. status[w] # "active" /\ status' = [status EXCEPT ![w] = "interpreting"] /\ table' = table
    BY <1>5 DEF Interpret
  <2>2. Watching' = Watching /\ status' \in [Workflows -> {"absent", "interpreting", "active", "inactive", "deleted"}]
    <3>1. PICK s \in {"interpreting", "active", "inactive", "deleted"} : s = "interpreting"
      OBVIOUS
    <3>2. /\ status' \in [Workflows -> {"absent", "interpreting", "active", "inactive", "deleted"}]
          /\ Watching' = IF s = "active" THEN (Watching \ TriggersIn(w)) \cup TriggersIn(w)
                                         ELSE Watching \ TriggersIn(w)
          /\ Watching \ TriggersIn(w) = Watching
      BY <2>1, <3>1, StatusDecides
    <3> QED
      BY <3>1, <3>2
  <2> QED
    BY <1>0, <2>1, <2>2 DEF TableInv, Lists, Live
<1>6. ASSUME NEW w \in Workflows, Update(w) PROVE TableInv'
  <2>1. status[w] \in {"active", "inactive"} /\ status' = [status EXCEPT ![w] = status[w]]
    BY <1>6 DEF Update, Stored, TableInv
  <2> QED
    BY <1>2, <1>6, <2>1 DEF Update
<1>7. ASSUME NEW w \in Workflows, NEW new \in {"active", "inactive"}, UpdateStatus(w, new) PROVE TableInv'
  BY <1>2, <1>7 DEF UpdateStatus
<1>8. ASSUME NEW w \in Workflows, Delete(w) PROVE TableInv'
  BY <1>2, <1>8 DEF Delete
<1>9. ASSUME NEW w \in Workflows, TriggerManually(w) PROVE TableInv'
  BY <1>3, <1>9 DEF TriggerManually
<1>10. ASSUME Service PROVE TableInv'
  BY <1>4, <1>5, <1>6, <1>7, <1>8, <1>9, <1>10 DEF Service
<1>11. ASSUME NEW s \in Slots, ExecutionEnds(s) PROVE TableInv'
  BY <1>3, <1>11 DEF ExecutionEnds
<1>12. ASSUME NEW e \in Events, Emit(e) \/ ExecutionEmits(e) \/ Receive(e) PROVE TableInv'
  BY <1>3, <1>12 DEF Emit, ExecutionEmits, Accepted, Receive
<1>13. ASSUME Walk PROVE TableInv'
  <2>1. ASSUME EndWalk PROVE TableInv'
    BY <1>3, <2>1 DEF EndWalk
  <2>2. ASSUME NEW t \in Triggers, PassBy(t) \/ Fires(t) PROVE TableInv'
    BY <1>3, <2>2 DEF PassBy, Fires
  <2> QED
    BY <1>13, <2>1, <2>2 DEF Walk, Exhausted, Disrupted, Visit, Raises, Fire, FireInVain
<1>14. ASSUME Tick \/ UNCHANGED vars PROVE TableInv'
  BY <1>3, <1>14 DEF Tick, vars
<1> QED
  BY <1>10, <1>11, <1>12, <1>13, <1>14 DEF Next

(* The matcher awaits the one execution that a trigger started.            *)
Busy == {s \in Slots : runs[s] # None}
Known == {"active", "inactive", "deleted"}
RunsInv ==
  /\ runs \in [Slots -> Runs \cup {None}]
  /\ active = Cardinality(Busy) /\ listed \subseteq Busy
  /\ \A s \in Busy : /\ status[runs[s].workflow] \in Known
                     /\ runs[s].workflow \in Stored => s \in listed
                     /\ runs[s].trigger # None => walk.at = "running"
  /\ \A s, r \in Busy : runs[s].trigger # None /\ runs[r].trigger # None => s = r

Walks == [at : {"idle", "walking", "running"}, event : Events \cup {None}, left : Nat, pos : Nat, used : Nat]

LEMMA BusyFinite == IsFiniteSet(Busy) /\ Cardinality(Busy) \in Nat
<1>1. IsFiniteSet(Slots)
  BY TriggerConstants, FS_Interval DEF Slots
<1> QED
  BY <1>1, FS_Subset, FS_CardinalityType DEF Busy

LEMMA RunIs ==
  ASSUME NEW r \in Runs
  PROVE  r.workflow \in Workflows /\ r.trigger \in Triggers \cup {None} /\ r # None
BY TriggerConstants DEF Runs

LEMMA RunsSay ==
  ASSUME RunsInv
  PROVE  CountExact
BY DEF RunsInv, CountExact, Busy

(* Nothing about the runs changes, and nothing they depend on.             *)
LEMMA RunsKept ==
  ASSUME RunsInv, UNCHANGED runVars, walk.at = "running" => walk'.at = "running",
         \A v \in Workflows : /\ status[v] \in Known => status'[v] \in Known
                              /\ status'[v] \in {"active", "inactive"} /\ status[v] \in Known =>
                                   status[v] \in {"active", "inactive"}
  PROVE  RunsInv'
<1>1. runs' = runs /\ active' = active /\ listed' = listed /\ Busy' = Busy
  BY DEF runVars, Busy
<1>2. ASSUME NEW s \in Busy
      PROVE  /\ status'[runs[s].workflow] \in Known
             /\ runs[s].workflow \in Stored' => s \in listed
             /\ runs[s].trigger # None => walk'.at = "running"
  <2>1. runs[s] \in Runs
    BY DEF RunsInv, Busy
  <2> QED
    BY <2>1, RunIs DEF RunsInv, Stored
<1> QED
  BY <1>1, <1>2 DEF RunsInv

LEMMA StartCounts ==
  ASSUME RunsInv, NEW w \in Workflows, NEW t \in Triggers \cup {None}, Start(w, t), UNCHANGED status,
         status[w] = "active",
         IF t = None THEN UNCHANGED walk ELSE walk.at # "running" /\ walk'.at = "running"
  PROVE  RunsInv'
<1>1. PICK s \in Slots : /\ runs[s] = None
                         /\ runs' = [runs EXCEPT ![s] = [trigger |-> t, workflow |-> w]]
                         /\ active' = active + 1 /\ listed' = listed \cup {s}
  BY DEF Start
<1>2. PICK r \in Runs : r = [trigger |-> t, workflow |-> w]
  BY DEF Runs
<1>3. r.trigger = t /\ r.workflow = w /\ r # None
  BY <1>2, RunIs
<1>4. /\ runs' \in [Slots -> Runs \cup {None}] /\ runs'[s] = r
      /\ \A q \in Slots \ {s} : runs'[q] = runs[q]
  BY <1>1, <1>2 DEF RunsInv
<1>5. Busy' = Busy \cup {s} /\ s \notin Busy
  BY <1>1, <1>3, <1>4 DEF Busy
<1>6. active' = Cardinality(Busy')
  BY <1>1, <1>5, BusyFinite, FS_AddElement DEF RunsInv
<1>7. \A q \in Busy : q # s /\ runs'[q] = runs[q] /\ (t # None => runs[q].trigger = None)
  BY <1>4, <1>5 DEF RunsInv, Busy
<1>8. Stored' = Stored
  BY DEF Stored
<1> QED
  BY <1>1, <1>3, <1>4, <1>5, <1>6, <1>7, <1>8 DEF RunsInv, Known

LEMMA EndCounts ==
  ASSUME RunsInv, NEW s \in Slots, ExecutionEnds(s)
  PROVE  RunsInv'
<1>1. /\ runs[s] # None /\ runs' = [runs EXCEPT ![s] = None] /\ status' = status
      /\ active' = active - 1 /\ listed' = listed \ {s}
      /\ runs[s].trigger = None => walk' = walk
  BY DEF ExecutionEnds
<1>2. /\ runs' \in [Slots -> Runs \cup {None}] /\ runs'[s] = None
      /\ \A q \in Slots \ {s} : runs'[q] = runs[q]
  BY <1>1 DEF RunsInv
<1>3. Busy' = Busy \ {s} /\ s \in Busy
  BY <1>1, <1>2 DEF Busy
<1>4. active' = Cardinality(Busy')
  BY <1>1, <1>3, BusyFinite, FS_RemoveElement DEF RunsInv
<1>5. \A q \in Busy' : q \in Busy /\ q # s /\ runs'[q] = runs[q]
  BY <1>2, <1>3 DEF Busy
<1>6. \A q \in Busy' : runs[q].trigger # None => walk'.at = "running"
  BY <1>1, <1>3, <1>5 DEF RunsInv
<1>7. Stored' = Stored
  BY <1>1 DEF Stored
<1> QED
  BY <1>1, <1>2, <1>3, <1>4, <1>5, <1>6, <1>7 DEF RunsInv

LEMMA RunsSteps ==
  ASSUME TableInv, RunsInv, walk \in Walks, [Next]_vars
  PROVE  RunsInv'
<1>0. status \in [Workflows -> {"absent", "interpreting", "active", "inactive", "deleted"}]
  BY DEF TableInv
<1>1. ASSUME NEW w \in Workflows, Store(w) \/ UpdateStatus(w, "active") \/ UpdateStatus(w, "inactive"),
             status[w] \in {"absent", "interpreting"} \/ w \in Stored
      PROVE  RunsInv'
  <2>1. PICK s \in {"active", "inactive"} : status' = [status EXCEPT ![w] = s]
    BY <1>1 DEF Store, UpdateStatus
  <2>2. UNCHANGED runVars /\ UNCHANGED walk
    BY <1>1 DEF Store, UpdateStatus, walkVars, runVars
  <2> QED
    BY <1>0, <1>1, <2>1, <2>2, RunsKept DEF Known, Stored
<1>2. ASSUME NEW w \in Workflows, Import(w) \/ Interpreted(w) \/ Interpret(w) PROVE RunsInv'
  <2>1. CASE Import(w) \/ Interpreted(w)
    BY <1>1, <2>1 DEF Import, Interpreted
  <2>2. CASE Interpret(w)
    BY <1>0, <2>2, RunsKept DEF Interpret, Known, walkVars
  <2> QED
    BY <1>2, <2>1, <2>2
<1>3. ASSUME NEW w \in Workflows, Update(w) PROVE RunsInv'
  BY <1>3, RunsKept DEF Update, walkVars
<1>4. ASSUME NEW w \in Workflows, NEW new \in {"active", "inactive"}, UpdateStatus(w, new) PROVE RunsInv'
  BY <1>1, <1>4 DEF UpdateStatus
<1>5. ASSUME NEW w \in Workflows, Delete(w) PROVE RunsInv'
  <2>1. /\ runs' = runs /\ active' = active /\ walk' = walk /\ Busy' = Busy
        /\ listed' = {s \in listed : runs[s].workflow # w}
        /\ status' = [status EXCEPT ![w] = "deleted"]
    BY <1>5 DEF Delete, walkVars, Busy
  <2>2. ASSUME NEW s \in Busy
        PROVE  /\ status'[runs[s].workflow] \in Known
               /\ runs[s].workflow \in Stored' => s \in listed'
    <3>1. runs[s] \in Runs
      BY DEF RunsInv, Busy
    <3>2. runs[s].workflow \in Workflows
      BY <3>1, RunIs
    <3>3. CASE runs[s].workflow = w
      BY <1>0, <2>1, <3>2, <3>3 DEF Stored, Known
    <3>4. CASE runs[s].workflow # w
      BY <1>0, <2>1, <3>2, <3>4 DEF RunsInv, Stored
    <3> QED
      BY <3>3, <3>4
  <2> QED
    BY <2>1, <2>2 DEF RunsInv
<1>6. ASSUME NEW w \in Workflows, TriggerManually(w) PROVE RunsInv'
  <2>1. /\ Start(w, None) /\ status[w] = "active" /\ UNCHANGED status /\ UNCHANGED walk
    BY <1>6 DEF TriggerManually, walkVars
  <2> QED
    BY <2>1, StartCounts
<1>7. ASSUME Service PROVE RunsInv'
  BY <1>2, <1>3, <1>4, <1>5, <1>6, <1>7 DEF Service
<1>8. ASSUME UNCHANGED runVars, UNCHANGED status, walk.at = "running" => walk'.at = "running" PROVE RunsInv'
  BY <1>8, RunsKept
<1>9. ASSUME NEW e \in Events, Emit(e) \/ ExecutionEmits(e) \/ Receive(e) PROVE RunsInv'
  BY <1>8, <1>9 DEF Emit, ExecutionEmits, Accepted, Receive, walkVars
<1>10. ASSUME Walk PROVE RunsInv'
  <2>1. walk.at = "walking"
    BY <1>10 DEF Walk, Exhausted, Disrupted, Visit, Raises, PassBy, Fire, FireInVain, Fires, ComesTo
  <2>2. ASSUME EndWalk PROVE RunsInv'
    BY <1>8, <2>1, <2>2 DEF EndWalk
  <2>3. ASSUME NEW t \in Triggers, PassBy(t) \/ FireInVain(t) PROVE RunsInv'
    BY <1>8, <2>1, <2>3 DEF PassBy, FireInVain, Fires
  <2>4. ASSUME NEW t \in Triggers, Fire(t) PROVE RunsInv'
    <3>1. walk'.at = "running"
      BY <2>4 DEF Fire, Onward, Walks
    <3>2. /\ Start(WorkflowOf(t), t) /\ UNCHANGED status /\ status[WorkflowOf(t)] = "active"
          /\ WorkflowOf(t) \in Workflows /\ t # None
      BY <2>4, TriggerConstants, TriggerOwners DEF Fire, Fires
    <3> QED
      BY <2>1, <2>4, <3>1, <3>2, StartCounts
  <2> QED
    BY <1>10, <2>2, <2>3, <2>4 DEF Walk, Exhausted, Disrupted, Visit, Raises
<1>11. ASSUME Tick \/ UNCHANGED vars PROVE RunsInv'
  BY <1>8, <1>11 DEF Tick, vars, walkVars, runVars
<1> QED
  BY <1>7, <1>9, <1>10, <1>11, EndCounts DEF Next

(* While nobody changes the table, a walk expects what is ahead of it and  *)
(* has come once to what is behind.                                        *)
Undisturbed ==
  /\ walk.used = Size(table) /\ walk.left = Cardinality(Ahead)
  /\ \A i \in Live(table) : visits[table[i]] = IF i <= walk.pos THEN 1 ELSE 0

WalkInv ==
  /\ walk \in Walks /\ visits \in [Triggers -> Nat] /\ touched \in BOOLEAN
  /\ walk.at = "idle" => visits = [t \in Triggers |-> 0] /\ ~touched
  /\ walk.at # "idle" => walk.event \in Events
  /\ walk.at # "idle" /\ ~touched => Undisturbed

LEMMA LiveEntries ==
  ASSUME TableInv
  PROVE  /\ IsFiniteSet(Live(table)) /\ Size(table) \in Nat /\ Live(table) \subseteq Nat \ {0}
         /\ \A i \in Live(table) : table[i] \in Triggers
         /\ \A i, j \in Live(table) : table[i] = table[j] => i = j
<1>1. Lists(table, Watching)
  BY DEF TableInv
<1>2. table \in Seq(Triggers \cup {None}) /\ \A i, j \in Live(table) : table[i] = table[j] => i = j
  BY <1>1 DEF Lists
<1>3. DOMAIN table = 1 .. Len(table) /\ Len(table) \in Nat
      /\ \A i \in 1 .. Len(table) : table[i] \in Triggers \cup {None}
  BY <1>2, Elements
<1>4. IsFiniteSet(Live(table)) /\ Size(table) \in Nat
  BY <1>1, SizeCounts
<1> QED
  BY <1>2, <1>3, <1>4 DEF Live

LEMMA AheadFinite ==
  ASSUME TableInv
  PROVE  /\ IsFiniteSet(Ahead) /\ Ahead \subseteq Live(table) /\ Cardinality(Ahead) \in Nat
         /\ Cardinality(Ahead) = 0 <=> Ahead = {}
<1>1. IsFiniteSet(Live(table)) /\ Ahead \subseteq Live(table)
  BY LiveEntries DEF Ahead
<1>2. IsFiniteSet(Ahead)
  BY <1>1, FS_Subset
<1> QED
  BY <1>1, <1>2, FS_CardinalityType, FS_EmptySet

LEMMA OnwardKeeps ==
  ASSUME TableInv, WalkInv, NEW t \in Triggers, NEW place \in {"walking", "running"},
         ComesTo(t), Onward(t, place), UNCHANGED <<table, touched>>
  PROVE  WalkInv'
<1>1. walk.at = "walking" /\ ~Changed
  BY DEF ComesTo
<1>2. PICK i \in Ahead : t = table[i] /\ \A j \in Ahead : i <= j
  BY DEF ComesTo
<1> DEFINE least == CHOOSE k \in Ahead : \A j \in Ahead : k <= j
<1>3. least = i
  <2>1. least \in Ahead /\ \A j \in Ahead : least <= j
    BY <1>2
  <2> HIDE DEF least
  <2>2. least \in Nat /\ i \in Nat
    BY <1>2, <2>1, AheadFinite, LiveEntries
  <2> QED
    BY <1>2, <2>1, <2>2
<1>4. walk.left \in Nat /\ walk.left # 0 /\ i \in Nat /\ i \in Live(table) /\ i > walk.pos /\ walk.pos \in Nat
  BY <1>1, <1>2, AheadFinite, LiveEntries DEF Changed, WalkInv, Walks, Ahead
<1>5. walk' = [walk EXCEPT !.at = place, !.left = @ - 1, !.pos = i]
  BY <1>3 DEF Onward
<1>6. /\ walk' \in Walks /\ walk'.at = place /\ walk'.event = walk.event /\ walk'.left = walk.left - 1
      /\ walk'.pos = i /\ walk'.used = walk.used
  <2>1. PICK e \in Events \cup {None}, l \in Nat, p \in Nat, u \in Nat, q \in {"idle", "walking", "running"} :
           walk = [at |-> q, event |-> e, left |-> l, pos |-> p, used |-> u]
    BY DEF WalkInv, Walks
  <2>2. walk' = [at |-> place, event |-> e, left |-> l - 1, pos |-> i, used |-> u]
    BY <1>5, <2>1
  <2>3. l - 1 \in Nat
    BY <1>4, <2>1
  <2> QED
    BY <1>4, <2>1, <2>2, <2>3 DEF Walks
<1>7. /\ visits' \in [Triggers -> Nat] /\ visits'[t] = visits[t] + 1
      /\ \A r \in Triggers \ {t} : visits'[r] = visits[r]
  BY DEF Onward, WalkInv
<1>8. ASSUME ~touched PROVE Undisturbed'
  <2>0. Undisturbed
    BY <1>1, <1>8 DEF WalkInv
  <2>1. Live(table)' = Live(table) /\ Size(table)' = Size(table)
    BY DEF Live, Size
  <2>2. Ahead' = Ahead \ {i}
    <3>1. \A j \in Live(table) : j \in Nat
      BY LiveEntries
    <3>2. \A j \in Live(table) : j > i => j > walk.pos
      BY <1>4, <3>1
    <3>3. \A j \in Ahead : j # i => j > i
      BY <1>2, <1>4, <3>1 DEF Ahead
    <3>4. Ahead' = {j \in Live(table) : j > i}
      BY <1>6, <2>1 DEF Ahead
    <3>5. Ahead = {j \in Live(table) : j > walk.pos}
      BY DEF Ahead
    <3>6. \A j \in Live(table) : j > i <=> j > walk.pos /\ j # i
      BY <1>4, <3>1, <3>2, <3>3, <3>5
    <3> QED
      BY <3>4, <3>5, <3>6
  <2>3. walk'.left = Cardinality(Ahead')
    <3>1. IsFiniteSet(Ahead) /\ i \in Ahead
      BY <1>2, AheadFinite
    <3>2. Cardinality(Ahead') = Cardinality(Ahead) - 1
      BY <2>2, <3>1, FS_RemoveElement
    <3> QED
      BY <1>6, <2>0, <3>2 DEF Undisturbed
  <2>4. ASSUME NEW j \in Live(table) PROVE visits'[table[j]] = IF j <= i THEN 1 ELSE 0
    <3>1. table[j] \in Triggers /\ j \in Nat /\ visits[table[j]] = IF j <= walk.pos THEN 1 ELSE 0
      BY <2>0, LiveEntries DEF Undisturbed
    <3>2. CASE j = i
      <4>1. visits[t] = 0
        BY <1>2, <1>4, <3>1, <3>2
      <4> QED
        BY <1>2, <1>7, <3>2, <4>1
    <3>3. CASE j # i
      <4>1. table[j] # t
        BY <1>2, <1>4, <3>3, LiveEntries
      <4>2. j <= i <=> j <= walk.pos
        <5>1. j > walk.pos => j \in Ahead
          BY DEF Ahead
        <5> QED
          BY <1>2, <1>4, <3>1, <3>3, <5>1
      <4> QED
        BY <1>7, <3>1, <4>1, <4>2
    <3> QED
      BY <3>2, <3>3
  <2> QED
    BY <1>6, <2>0, <2>1, <2>3, <2>4 DEF Undisturbed
<1>9. touched' = touched /\ walk.event \in Events
  BY <1>1 DEF WalkInv
<1> QED
  BY <1>6, <1>7, <1>8, <1>9 DEF WalkInv

(* What others do leaves the walk alone, and says whether it was disturbed.*)
LEMMA OthersTouch ==
  ASSUME WalkInv, UNCHANGED walkVars, Touches \/ UNCHANGED <<table, touched>>
  PROVE  WalkInv'
<1>1. walk' = walk /\ visits' = visits
  BY DEF walkVars
<1>2. touched' \in BOOLEAN /\ (walk.at = "idle" => ~touched')
  <2>1. touched \in BOOLEAN /\ (walk.at = "idle" => ~touched)
    BY DEF WalkInv
  <2>2. CASE Touches
    BY <2>1, <2>2, Zenon DEF Touches
  <2>3. CASE UNCHANGED <<table, touched>>
    BY <2>1, <2>3, Zenon
  <2> QED
    BY <2>2, <2>3
<1>3. ASSUME walk.at # "idle", ~touched' PROVE Undisturbed'
  <2>1. ~touched /\ table' = table
    <3>1. CASE Touches
      BY <1>3, <3>1, Zenon DEF Touches
    <3>2. CASE UNCHANGED <<table, touched>>
      BY <1>3, <3>2, Zenon
    <3> QED
      BY <3>1, <3>2
  <2> QED
    BY <1>1, <1>3, <2>1 DEF WalkInv, Undisturbed, Size, Live, Ahead
<1> QED
  BY <1>1, <1>2, <1>3 DEF WalkInv

LEMMA WalkEnds ==
  ASSUME WalkInv, EndWalk
  PROVE  WalkInv'
<1>1. walk' = Idle /\ visits' = [t \in Triggers |-> 0] /\ touched' = FALSE
  BY DEF EndWalk
<1>2. Idle \in Walks /\ Idle.at = "idle"
  BY DEF Idle, Walks
<1>3. visits' \in [Triggers -> Nat]
  BY <1>1
<1> QED
  BY <1>1, <1>2, <1>3 DEF WalkInv

LEMMA WalkBegins ==
  ASSUME TableInv, WalkInv, NEW e \in Events, Receive(e)
  PROVE  WalkInv'
<1>1. /\ walk.at = "idle" /\ visits' = visits /\ touched' = touched /\ table' = table
      /\ walk' = [at |-> "walking", event |-> e, left |-> Size(table), pos |-> 0, used |-> Size(table)]
  BY DEF Receive
<1>2. /\ walk'.at = "walking" /\ walk'.event = e /\ walk'.left = Size(table) /\ walk'.pos = 0
      /\ walk'.used = Size(table) /\ walk' \in Walks
  BY <1>1, LiveEntries DEF Walks
<1>3. Ahead' = Live(table) /\ Live(table)' = Live(table) /\ Size(table)' = Size(table)
  <2>1. \A i \in Live(table) : i > 0
    BY LiveEntries
  <2> QED
    BY <1>1, <1>2, <2>1 DEF Ahead, Live, Size
<1>4. \A i \in Live(table) : visits'[table[i]] = 0 /\ ~(i <= 0)
  BY <1>1, LiveEntries DEF WalkInv
<1>5. Undisturbed'
  BY <1>1, <1>2, <1>3, <1>4 DEF Undisturbed, Size
<1> QED
  BY <1>1, <1>2, <1>5 DEF WalkInv

LEMMA WalkResumes ==
  ASSUME WalkInv, RunsInv, NEW s \in Slots, ExecutionEnds(s)
  PROVE  WalkInv' /\ (walk.at # "idle" => walk'.at # "idle")
<1>1. /\ UNCHANGED <<table, visits, touched>>
      /\ walk' = IF runs[s].trigger = None THEN walk ELSE [walk EXCEPT !.at = "walking"]
  BY DEF ExecutionEnds
<1>2. CASE runs[s].trigger = None
  BY <1>1, <1>2, OthersTouch DEF walkVars
<1>3. CASE runs[s].trigger # None
  <2>1. walk.at = "running"
    BY <1>3 DEF RunsInv, Busy, ExecutionEnds
  <2>2. PICK e \in Events \cup {None}, l \in Nat, p \in Nat, u \in Nat :
           walk = [at |-> "running", event |-> e, left |-> l, pos |-> p, used |-> u]
    BY <2>1 DEF WalkInv, Walks
  <2>3. walk' = [at |-> "walking", event |-> e, left |-> l, pos |-> p, used |-> u]
    BY <1>1, <1>3, <2>2
  <2>4. /\ walk'.at = "walking" /\ walk'.event = walk.event /\ walk'.left = walk.left
        /\ walk'.pos = walk.pos /\ walk'.used = walk.used /\ walk' \in Walks
    BY <2>2, <2>3 DEF Walks
  <2>5. walk.event \in Events /\ (~touched => Undisturbed)
    BY <2>1 DEF WalkInv
  <2>6. Undisturbed => Undisturbed'
    BY <1>1, <2>4 DEF Undisturbed, Size, Live, Ahead
  <2>7. visits' \in [Triggers -> Nat] /\ touched' \in BOOLEAN
    BY <1>1 DEF WalkInv
  <2> QED
    BY <1>1, <2>4, <2>5, <2>6, <2>7 DEF WalkInv
<1> QED
  BY <1>2, <1>3

LEMMA WalkSteps ==
  ASSUME TableInv, RunsInv, WalkInv, [Next]_vars
  PROVE  WalkInv' /\ EveryTriggerSeen
<1>1. ASSUME UNCHANGED walkVars, Touches \/ UNCHANGED <<table, touched>>
      PROVE  WalkInv' /\ EveryTriggerSeen
  BY <1>1, OthersTouch DEF EveryTriggerSeen, walkVars
<1>2. CASE Service
  BY <1>1, <1>2 DEF Service, Import, Interpreted, Store, Interpret, Update, UpdateStatus, Delete,
     TriggerManually
<1>3. ASSUME NEW s \in Slots, ExecutionEnds(s) PROVE WalkInv' /\ EveryTriggerSeen
  BY <1>3, WalkResumes DEF EveryTriggerSeen
<1>4. ASSUME NEW e \in Events, Emit(e) \/ ExecutionEmits(e) PROVE WalkInv' /\ EveryTriggerSeen
  BY <1>1, <1>4 DEF Emit, ExecutionEmits, Accepted
<1>5. ASSUME NEW e \in Events, Receive(e) PROVE WalkInv' /\ EveryTriggerSeen
  BY <1>5, WalkBegins DEF Receive, EveryTriggerSeen
<1>6. ASSUME NEW t \in Triggers, Raises(t) PROVE WalkInv' /\ EveryTriggerSeen
  BY <1>6, WalkEnds DEF Raises, EveryTriggerSeen
<1>7. ASSUME NEW t \in Triggers, NEW place \in {"walking", "running"}, ComesTo(t), Onward(t, place),
             UNCHANGED <<table, touched>>
      PROVE  WalkInv' /\ EveryTriggerSeen
  <2>1. walk'.at = place
    BY <1>7 DEF Onward, WalkInv, Walks
  <2> QED
    BY <1>7, <2>1, OnwardKeeps DEF EveryTriggerSeen
<1>8. ASSUME NEW t \in Triggers, PassBy(t) \/ Fire(t) \/ FireInVain(t)
      PROVE  WalkInv' /\ EveryTriggerSeen
  BY <1>7, <1>8 DEF PassBy, Fire, FireInVain, Fires
<1>9. ASSUME ~touched, walk.at # "idle" PROVE ~Changed
  <2>1. walk.used = Size(table) /\ walk.left = Cardinality(Ahead)
    BY <1>9 DEF WalkInv, Undisturbed
  <2> QED
    BY <2>1, AheadFinite DEF Changed
<1>10. CASE Disrupted
  BY <1>9, <1>10, WalkEnds DEF Disrupted, EveryTriggerSeen
<1>11. CASE Exhausted
  <2>1. WalkInv' /\ walk.at = "walking" /\ Ahead = {}
    BY <1>11, WalkEnds DEF Exhausted
  <2>2. ASSUME ~touched, NEW t \in Registered PROVE visits[t] = 1
    <3>1. PICK i \in Live(table) : table[i] = t
      BY DEF Registered, Live
    <3>2. i <= walk.pos
      BY <2>1, LiveEntries DEF Ahead, WalkInv, Walks
    <3> QED
      BY <2>1, <2>2, <3>1, <3>2 DEF WalkInv, Undisturbed
  <2> QED
    BY <2>1, <2>2 DEF EveryTriggerSeen
<1>12. CASE Tick \/ UNCHANGED vars
  BY <1>1, <1>12 DEF Tick, vars, walkVars
<1> QED
  BY <1>2, <1>3, <1>4, <1>5, <1>6, <1>8, <1>10, <1>11, <1>12 DEF Next, Walk, Visit

(* What the matcher remembers of a trigger is no older than its last run.  *)
Keys == Triggers \X Correlations
ClockInv ==
  /\ age \in [Keys -> 0 .. Window] /\ since \in [Keys -> 0 .. Window]
  /\ \A k \in Keys : age[k] <= since[k]

LEMMA KeyIs ==
  ASSUME WalkInv, NEW t \in Triggers, walk.at # "idle"
  PROVE  Key(t) \in Keys
BY DEF WalkInv, Keys, Key, Correlations

LEMMA ClockSteps ==
  ASSUME WalkInv, RunsInv, ClockInv, [Next]_vars
  PROVE  ClockInv' /\ StartsOncePerWindow
<1>0. Window \in Nat \ {0} /\ None \notin Triggers
  BY TriggerConstants
<1>1. ASSUME UNCHANGED clock PROVE ClockInv'
  BY <1>1 DEF ClockInv, clock
<1>2. ASSUME \A s \in Slots : runs[s] = None => runs'[s] = None \/ runs'[s].trigger = None
      PROVE  StartsOncePerWindow
  BY <1>0, <1>2 DEF StartsOncePerWindow
<1>3. ASSUME NEW w \in Workflows, NEW t, Start(w, t)
      PROVE  \A s \in Slots : runs[s] = None => runs'[s] = None \/ runs'[s].trigger = t
  <2>1. PICK q \in Slots : runs' = [runs EXCEPT ![q] = [trigger |-> t, workflow |-> w]]
    BY <1>3 DEF Start
  <2>2. DOMAIN runs = Slots
    BY DEF RunsInv
  <2>3. runs'[q].trigger = t /\ \A s \in Slots \ {q} : runs'[s] = runs[s]
    BY <2>1, <2>2
  <2> QED
    BY <2>3
<1>4. CASE Service
  <2>1. UNCHANGED clock
    BY <1>4 DEF Service, Import, Interpreted, Store, Interpret, Update, UpdateStatus, Delete, TriggerManually
  <2>2. runs' = runs \/ \E w \in Workflows : Start(w, None)
    BY <1>4 DEF Service, Import, Interpreted, Store, Interpret, Update, UpdateStatus, Delete, TriggerManually,
       runVars
  <2> QED
    BY <1>1, <1>2, <1>3, <2>1, <2>2
<1>5. ASSUME NEW s \in Slots, ExecutionEnds(s) PROVE ClockInv' /\ StartsOncePerWindow
  <2>1. UNCHANGED clock /\ runs' = [runs EXCEPT ![s] = None] /\ DOMAIN runs = Slots
    BY <1>5 DEF ExecutionEnds, RunsInv
  <2> QED
    BY <1>1, <1>2, <2>1
<1>6. ASSUME UNCHANGED clock, UNCHANGED runs PROVE ClockInv' /\ StartsOncePerWindow
  BY <1>1, <1>2, <1>6
<1>7. ASSUME NEW e \in Events, Emit(e) \/ ExecutionEmits(e) \/ Receive(e)
      PROVE  ClockInv' /\ StartsOncePerWindow
  BY <1>6, <1>7 DEF Emit, ExecutionEmits, Accepted, Receive, runVars, clock
<1>8. ASSUME EndWalk PROVE ClockInv' /\ StartsOncePerWindow
  BY <1>6, <1>8 DEF EndWalk, runVars
<1>9. ASSUME NEW t \in Triggers, PassBy(t) PROVE ClockInv' /\ StartsOncePerWindow
  BY <1>6, <1>9 DEF PassBy, runVars
<1>10. ASSUME NEW t \in Triggers, Fires(t)
       PROVE  /\ Key(t) \in Keys /\ age[Key(t)] = Window /\ since[Key(t)] = Window
              /\ age' \in [Keys -> 0 .. Window] /\ age'[Key(t)] = 0
              /\ \A k \in Keys \ {Key(t)} : age'[k] = age[k]
  <2>1. Key(t) \in Keys
    BY <1>10, KeyIs DEF Fires, ComesTo
  <2>2. age' = [age EXCEPT ![Key(t)] = 0] /\ ~(age[Key(t)] < Window)
    BY <1>10 DEF Fires, IsDuplicate
  <2>3. age[Key(t)] \in 0 .. Window /\ since[Key(t)] \in 0 .. Window /\ age[Key(t)] <= since[Key(t)]
    BY <2>1 DEF ClockInv
  <2>4. age[Key(t)] = Window /\ since[Key(t)] = Window /\ 0 \in 0 .. Window
    BY <1>0, <2>2, <2>3
  <2> QED
    BY <2>1, <2>2, <2>4 DEF ClockInv
<1>11. ASSUME NEW t \in Triggers, Fire(t) PROVE ClockInv' /\ StartsOncePerWindow
  <2>1. Fires(t) /\ since' = [since EXCEPT ![Key(t)] = 0] /\ Start(WorkflowOf(t), t)
    BY <1>11 DEF Fire
  <2>2. /\ since' \in [Keys -> 0 .. Window] /\ since'[Key(t)] = 0
        /\ \A k \in Keys \ {Key(t)} : since'[k] = since[k]
    BY <1>0, <1>10, <2>1 DEF ClockInv
  <2>3. ClockInv'
    BY <1>10, <2>1, <2>2 DEF ClockInv
  <2>4. StartsOncePerWindow
    BY <1>3, <1>10, <2>1, TriggerOwners DEF StartsOncePerWindow
  <2> QED
    BY <2>3, <2>4
<1>12. ASSUME NEW t \in Triggers, FireInVain(t) PROVE ClockInv' /\ StartsOncePerWindow
  <2>1. Fires(t) /\ since' = since /\ runs' = runs
    BY <1>12 DEF FireInVain, runVars
  <2>2. \A k \in Keys : since[k] \in 0 .. Window
    BY DEF ClockInv
  <2>3. ClockInv'
    BY <1>0, <1>10, <2>1, <2>2 DEF ClockInv
  <2> QED
    BY <1>2, <2>1, <2>3
<1>13. ASSUME Tick PROVE ClockInv' /\ StartsOncePerWindow
  <2>1. /\ runs' = runs
        /\ age' = [k \in Keys |-> IF age[k] < Window THEN age[k] + 1 ELSE Window]
        /\ since' = [k \in Keys |-> IF since[k] < Window THEN since[k] + 1 ELSE Window]
    BY <1>13 DEF Tick, runVars, ClockInv
  <2>2. ASSUME NEW k \in Keys PROVE age'[k] \in 0 .. Window /\ since'[k] \in 0 .. Window /\ age'[k] <= since'[k]
    <3>1. age[k] \in 0 .. Window /\ since[k] \in 0 .. Window /\ age[k] <= since[k]
      BY DEF ClockInv
    <3> QED
      BY <1>0, <2>1, <3>1
  <2> QED
    BY <1>2, <2>1, <2>2 DEF ClockInv
<1>14. CASE UNCHANGED vars
  BY <1>6, <1>14 DEF vars, clock
<1> QED
  BY <1>4, <1>5, <1>7, <1>8, <1>9, <1>11, <1>12, <1>13, <1>14
  DEF Next, Walk, Exhausted, Disrupted, Visit, Raises

AutomationInv == TableInv /\ RunsInv /\ WalkInv /\ ClockInv

LEMMA AutomationStarts == Init => AutomationInv
<1> SUFFICES ASSUME Init PROVE AutomationInv
  OBVIOUS
<1>1. TableInv
  <2>1. Watching = {}
    BY TriggerOwners DEF Init, Watching
  <2> QED
    BY <2>1 DEF Init, TableInv, Lists, Live
<1>2. RunsInv
  <2>1. Busy = {}
    BY DEF Init, Busy
  <2> QED
    BY <2>1, FS_EmptySet DEF Init, RunsInv
<1>3. WalkInv
  BY DEF Init, WalkInv, Walks, Idle
<1>4. ClockInv
  BY TriggerConstants DEF Init, ClockInv, Keys
<1> QED
  BY <1>1, <1>2, <1>3, <1>4 DEF AutomationInv

LEMMA AutomationSteps ==
  ASSUME AutomationInv, [Next]_vars
  PROVE  AutomationInv' /\ EveryTriggerSeen /\ StartsOncePerWindow
BY TableSteps, RunsSteps, WalkSteps, ClockSteps DEF AutomationInv, WalkInv

(* Whatever is created, changed, paused, deleted, started and ended: the   *)
(* table is that of the active workflows, and the counter that of the      *)
(* executions under way.                                                   *)
THEOREM TriggersAgree == Spec => []BooksAgree
<1>1. AutomationInv => BooksAgree
  BY TableSays, RunsSay DEF AutomationInv, BooksAgree
<1>2. AutomationInv /\ [Next]_vars => AutomationInv'
  BY AutomationSteps
<1> QED
  BY <1>1, <1>2, AutomationStarts, PTL DEF Spec

(* Under whatever changes of the table, an undisturbed walk comes to every *)
(* trigger, and no trigger starts its workflow twice in a window.          *)
THEOREM TriggersStartOnce == Spec => EachTriggerOnce
<1>1. AutomationInv /\ [Next]_vars => AutomationInv' /\ [EveryTriggerSeen /\ StartsOncePerWindow]_vars
  BY AutomationSteps
<1> QED
  BY <1>1, AutomationStarts, PTL DEF Spec, EachTriggerOnce

-----------------------------------------------------------------------------
(* Whichever service a behaviour of the suite is of, it is a behaviour of  *)
(* each: what holds of their specifications holds of the suite.            *)
THEOREM ServicesKept == SuiteSpec => [](BooksAgree /\ BooksKept) /\ EachTriggerOnce /\ JobsKept
<1>1. SuiteInit => Init /\ S!Init /\ W!Init
  BY DEF SuiteInit
<1> DEFINE Suite == [Workflow \/ Scheduling \/ Webhook]_<<part, vars, scheduler, webhooks>>
<1> USE DEF Workflow, Scheduling, Webhook
<1>2. Suite => [Next]_vars
  OBVIOUS
<1>3. Suite => [S!Next]_(S!vars)
  BY DEF scheduler, S!vars, S!confirming, S!scheduling, S!executing
<1>4. Suite => [W!Next]_(W!vars)
  BY DEF webhooks, W!vars
<1>5. SuiteSpec => Spec /\ S!Spec /\ W!Spec
  BY <1>1, <1>2, <1>3, <1>4, PTL DEF SuiteSpec, Spec, S!Spec, W!Spec
<1> QED
  BY <1>5, TriggersAgree, TriggersStartOnce, JobsAreKept, HooksBooksAreKept, PTL
=============================================================================
