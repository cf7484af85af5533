-------------------- MODULE CallsAndResponsesProofs --------------------
(***************************************************************************)
(* Proofs about a request's tool calls and its response: about             *)
(* ToolExecutor, for any set of calls, any max_concurrent and any number   *)
(* of kills, alone and behind the gateway (ToolPlatform), and about        *)
(* Outbound, for any set of sends, any number of texts and any number of   *)
(* starts and stops.  They are stated of each component alone and, at the  *)
(* end, of the composition of requests that TLC checks.                    *)
(***************************************************************************)
EXTENDS MCRequests, FiniteSetTheorems, SequenceTheorems, TLAPS

(* Who waits for a semaphore is at the await of its acquire(), once.       *)
WaitInv ==
  \A g \in Generations :
    /\ \A i \in DOMAIN waiters[g] :
         pc[waiters[g][i]] = "waiting" /\ taken[waiters[g][i]] = g
    /\ \A i, j \in DOMAIN waiters[g] : waiters[g][i] = waiters[g][j] => i = j

FutureInv == \A t \in Calls : future[t] = "approved" => answer[t] = "approved"

LastIs(t, S) == audit[t] # <<>> /\ audit[t][Len(audit[t])] \in S

RecordInv ==
  \A t \in Calls :
    /\ pc[t] \in {"idle", "validating"} => audit[t] = <<>>
    /\ pc[t] # "done" => result[t] = "none"
    /\ pc[t] = "succeeding" => LastIs(t, {"success"})
    /\ pc[t] \in {"failing", "killing"} => LastIs(t, {"execution_error", "killed"})
    /\ pc[t] = "done" => (result[t] = "success" <=> LastIs(t, {"success"}))

(* What holds of each call on its own.                                     *)
CallInv ==
  FutureInv /\ RecordInv /\ KillReaches /\ ApprovedByUser /\ CancelledNeverSucceeds

IInv == TypeOK /\ WaitInv /\ CallInv

-----------------------------------------------------------------------------
(* The two helpers that move calls through a semaphore.                    *)
LEMMA EnterTypes ==
  ASSUME TypeOK, NEW t \in Calls, Enter(t)
  PROVE  /\ pc' \in [Calls -> Places]
         /\ permits' \in [Generations -> Nat]
         /\ waiters' \in [Generations -> Seq(Calls)]
         /\ taken' \in [Calls -> Generations]
         /\ semaphore' = semaphore
         /\ runningTasks' \subseteq Calls
         /\ cancelled' = cancelled
<1> DEFINE g == semaphore
<1>1. /\ pc \in [Calls -> Places] /\ permits \in [Generations -> Nat]
      /\ waiters \in [Generations -> Seq(Calls)] /\ g \in Generations
      /\ taken \in [Calls -> Generations] /\ runningTasks \subseteq Calls
  BY DEF TypeOK
<1>2. taken' = [taken EXCEPT ![t] = g] /\ UNCHANGED <<semaphore, cancelled>>
  BY DEF Enter
<1>3. \/ /\ permits[g] > 0
         /\ permits' = [permits EXCEPT ![g] = permits[g] - 1]
         /\ pc' = [pc EXCEPT ![t] = "executing"]
         /\ runningTasks' = runningTasks \cup {t}
         /\ waiters' = waiters
      \/ /\ waiters' = [waiters EXCEPT ![g] = Append(waiters[g], t)]
         /\ pc' = [pc EXCEPT ![t] = "waiting"]
         /\ permits' = permits /\ runningTasks' = runningTasks
  BY DEF Enter, Goto
<1>4. pc' \in [Calls -> Places]
  BY <1>1, <1>3 DEF Places
<1>5. Append(waiters[g], t) \in Seq(Calls)
  BY <1>1
<1>6. waiters' \in [Generations -> Seq(Calls)]
  <2> DEFINE w == Append(waiters[g], t)
  <2> HIDE DEF w, g
  <2>1. [waiters EXCEPT ![g] = w] \in [Generations -> Seq(Calls)]
    BY <1>1, <1>5 DEF w
  <2> QED
    BY <1>1, <1>3, <2>1 DEF w
<1>7. permits' \in [Generations -> Nat]
  <2>1. permits[g] \in Nat
    BY <1>1
  <2>2. permits[g] > 0 => [permits EXCEPT ![g] = permits[g] - 1] \in [Generations -> Nat]
    <3>1. permits[g] > 0 => permits[g] - 1 \in Nat
      BY <2>1
    <3> DEFINE n == permits[g] - 1
    <3> HIDE DEF n
    <3>2. n \in Nat => [permits EXCEPT ![g] = n] \in [Generations -> Nat]
      BY <1>1
    <3> QED
      BY <3>1, <3>2 DEF n
  <2> HIDE DEF g
  <2> QED
    BY <1>1, <1>3, <2>2
<1> QED
  BY <1>1, <1>2, <1>3, <1>4, <1>6, <1>7

(* What a release does: the permit goes to the head of the queue, or is    *)
(* free again.                                                             *)
LEMMA ReleaseCases ==
  ASSUME TypeOK, NEW t \in Calls, NEW p \in {"done", "aborted"}, Release(t, p)
  PROVE  \/ /\ waiters[taken[t]] # <<>>
            /\ Head(waiters[taken[t]]) \in Calls
            /\ pc' = [pc EXCEPT ![t] = p, ![Head(waiters[taken[t]])] = "granted"]
            /\ waiters' = [waiters EXCEPT ![taken[t]] = Tail(waiters[taken[t]])]
            /\ UNCHANGED <<permits, semaphore, taken>>
         \/ /\ waiters[taken[t]] = <<>>
            /\ pc' = [pc EXCEPT ![t] = p]
            /\ permits' = [permits EXCEPT ![taken[t]] = permits[taken[t]] + 1]
            /\ UNCHANGED <<waiters, semaphore, taken>>
<1>1. taken[t] \in Generations /\ waiters \in [Generations -> Seq(Calls)]
  BY DEF TypeOK
<1>2. waiters[taken[t]] \in Seq(Calls)
  BY <1>1
<1>3. waiters[taken[t]] # <<>> => Head(waiters[taken[t]]) \in Calls
  BY <1>2
<1> QED
  BY <1>3 DEF Release, Goto

LEMMA ReleaseTypes ==
  ASSUME TypeOK, NEW t \in Calls, NEW p \in {"done", "aborted"}, Release(t, p)
  PROVE  /\ pc' \in [Calls -> Places]
         /\ permits' \in [Generations -> Nat]
         /\ waiters' \in [Generations -> Seq(Calls)]
         /\ UNCHANGED <<semaphore, taken>>
<1> DEFINE g == taken[t]
<1>1. /\ pc \in [Calls -> Places] /\ permits \in [Generations -> Nat]
      /\ waiters \in [Generations -> Seq(Calls)] /\ g \in Generations
  BY DEF TypeOK
<1> HIDE DEF g
<1>2. CASE /\ waiters[g] # <<>>
           /\ Head(waiters[g]) \in Calls
           /\ pc' = [pc EXCEPT ![t] = p, ![Head(waiters[g])] = "granted"]
           /\ waiters' = [waiters EXCEPT ![g] = Tail(waiters[g])]
           /\ UNCHANGED <<permits, semaphore, taken>>
  <2>1. Tail(waiters[g]) \in Seq(Calls)
    BY <1>1, <1>2
  <2>2. pc' \in [Calls -> Places]
    BY <1>1, <1>2 DEF Places
  <2> DEFINE w == Tail(waiters[g])
  <2> HIDE DEF w
  <2>3. [waiters EXCEPT ![g] = w] \in [Generations -> Seq(Calls)]
    BY <1>1, <2>1 DEF w
  <2> QED
    BY <1>1, <1>2, <2>2, <2>3 DEF w
<1>3. CASE /\ pc' = [pc EXCEPT ![t] = p]
           /\ permits' = [permits EXCEPT ![g] = permits[g] + 1]
           /\ UNCHANGED <<waiters, semaphore, taken>>
  <2>1. permits[g] + 1 \in Nat
    BY <1>1
  <2>2. pc' \in [Calls -> Places]
    BY <1>1, <1>3 DEF Places
  <2> QED
    BY <1>1, <1>3, <2>1, <2>2
<1> QED
  BY <1>2, <1>3, ReleaseCases DEF g

-----------------------------------------------------------------------------
LEMMA LogTypes ==
  ASSUME TypeOK, NEW t \in Calls, NEW st \in Statuses, Log(t, st)
  PROVE  audit' \in [Calls -> Seq(Statuses)]
<1>1. Append(audit[t], st) \in Seq(Statuses)
  BY DEF TypeOK
<1> DEFINE w == Append(audit[t], st)
<1>2. audit' = [audit EXCEPT ![t] = w]
  BY DEF Log
<1> HIDE DEF w
<1> QED
  BY <1>1, <1>2 DEF TypeOK, w

(* Every reachable state of the pipeline is well typed.                    *)
LEMMA TypesHold == Init /\ [][Next]_vars => []TypeOK
<1>1. Init => TypeOK
  <2> SUFFICES ASSUME Init PROVE TypeOK
    OBVIOUS
  <2>1. /\ <<>> \in Seq(Calls) /\ <<>> \in Seq(Statuses)
        /\ 0 \in Generations /\ MaxConcurrent \in Nat
    BY ExecutorConstants DEF Generations
  <2> QED
    BY <2>1, ExecutorConstants DEF Init, TypeOK, Places
<1>2. TypeOK /\ [Next]_vars => TypeOK'
  <2> SUFFICES ASSUME TypeOK, [Next]_vars PROVE TypeOK'
    OBVIOUS
  <2> USE DEF approvalVars, semaphoreVars, taskVars
  <2>1. ASSUME NEW t \in Calls, Begin(t) PROVE TypeOK'
    BY <2>1 DEF Begin, Goto, TypeOK, Places
  <2>2. ASSUME NEW t \in Calls, Refuse(t) PROVE TypeOK'
    <3>1. audit' \in [Calls -> Seq(Statuses)]
      BY <2>2, LogTypes DEF Refuse, Statuses, TypeOK
    <3> QED
      BY <2>2, <3>1 DEF Refuse, Goto, Return, TypeOK, Places
  <2>3. ASSUME NEW t \in Calls, ValidationFails(t) PROVE TypeOK'
    <3>1. audit' \in [Calls -> Seq(Statuses)]
      BY <2>3, LogTypes DEF ValidationFails, Statuses, TypeOK
    <3> QED
      BY <2>3, <3>1 DEF ValidationFails, Goto, Return, TypeOK, Places
  <2>4. ASSUME NEW t \in Calls, Validated(t) PROVE TypeOK'
    <3>1. CASE t \in NeedsApproval
      BY <2>4, <3>1 DEF Validated, Goto, TypeOK, Places
    <3>2. CASE t \notin NeedsApproval
      BY <2>4, <3>2, EnterTypes DEF Validated, TypeOK
    <3> QED
      BY <3>1, <3>2
  <2>5. ASSUME NEW t \in Calls, NEW s \in {"approved", "denied"}, Resolve(t, s)
        PROVE TypeOK'
    BY <2>5 DEF Resolve, TypeOK
  <2>6. ASSUME NEW t \in Calls, Approved(t) PROVE TypeOK'
    BY <2>6, EnterTypes DEF Approved, TypeOK
  <2>7. ASSUME NEW t \in Calls, Denied(t) \/ TimesOut(t) PROVE TypeOK'
    <3>1. audit' \in [Calls -> Seq(Statuses)]
      BY <2>7, LogTypes DEF Denied, TimesOut, Statuses
    <3> QED
      BY <2>7, <3>1 DEF Denied, TimesOut, Goto, Return, TypeOK, Places
  <2>8. ASSUME NEW t \in Calls, Granted(t) PROVE TypeOK'
    BY <2>8 DEF Granted, Goto, TypeOK, Places
  <2>9. ASSUME NEW t \in Calls, ToolSucceeds(t) \/ ToolFails(t) \/ Killed(t)
        PROVE TypeOK'
    <3>1. audit' \in [Calls -> Seq(Statuses)]
      BY <2>9, LogTypes DEF ToolSucceeds, ToolFails, ToolEnds, Killed, Statuses
    <3> QED
      BY <2>9, <3>1
         DEF ToolSucceeds, ToolFails, ToolEnds, Killed, Goto, TypeOK, Places
  <2>10. ASSUME NEW t \in Calls, Finish(t) PROVE TypeOK'
    BY <2>10, ReleaseTypes DEF Finish, Return, TypeOK
  <2>11. ASSUME NEW t \in Calls, Abort(t) PROVE TypeOK'
    BY <2>11, ReleaseTypes DEF Abort, TypeOK
  <2>12. CASE HandleKill
    <3>1. semaphore' \in Generations
      BY <2>12, ExecutorConstants DEF HandleKill, TypeOK, Generations
    <3> QED
      BY <2>12, <3>1 DEF HandleKill, TypeOK
  <2>13. CASE UNCHANGED vars
    BY <2>13 DEF vars, TypeOK
  <2> QED
    BY <2>1, <2>2, <2>3, <2>4, <2>5, <2>6, <2>7, <2>8, <2>9, <2>10, <2>11,
       <2>12, <2>13 DEF Next, Step
<1> QED
  BY <1>1, <1>2, PTL

(* Every reachable state of the pipeline of execute() is well typed.       *)
THEOREM ExecutorTypes == Spec => []TypeOK
BY TypesHold, PTL DEF Spec
-----------------------------------------------------------------------------
(* Where calls move when one of them enters or leaves the block.           *)
LEMMA EnterMoves ==
  ASSUME TypeOK, NEW t \in Calls, Enter(t)
  PROVE  /\ \A s \in Calls \ {t} : pc'[s] = pc[s]
         /\ \/ pc'[t] = "executing" /\ runningTasks' = runningTasks \cup {t}
            \/ pc'[t] = "waiting" /\ runningTasks' = runningTasks
         /\ cancelled' = cancelled
BY DEF Enter, Goto, TypeOK

LEMMA ReleaseMoves ==
  ASSUME TypeOK, WaitInv, NEW t \in Calls, pc[t] \in Inside,
         NEW p \in {"done", "aborted"}, Release(t, p)
  PROVE  /\ pc'[t] = p
         /\ \A s \in Calls \ {t} :
              pc'[s] = pc[s] \/ (pc[s] = "waiting" /\ pc'[s] = "granted")
<1> DEFINE g == taken[t]  h == Head(waiters[g])
<1>1. pc \in [Calls -> Places]
  BY DEF TypeOK
<1>2. ASSUME waiters[g] # <<>> PROVE pc[h] = "waiting"
  <2>1. waiters[g] \in Seq(Calls) /\ g \in Generations
    BY DEF TypeOK
  <2>2. 1 \in DOMAIN waiters[g] /\ h = waiters[g][1]
    BY <1>2, <2>1
  <2> QED
    BY <2>1, <2>2 DEF WaitInv
<1>3. CASE /\ waiters[g] # <<>> /\ h \in Calls
           /\ pc' = [pc EXCEPT ![t] = p, ![h] = "granted"]
  <2>1. pc[h] = "waiting" /\ h # t
    BY <1>2, <1>3 DEF Inside
  <2> HIDE DEF h
  <2> QED
    BY <1>1, <1>3, <2>1
<1>4. CASE pc' = [pc EXCEPT ![t] = p]
  BY <1>1, <1>4
<1> QED
  BY <1>3, <1>4, ReleaseCases

-----------------------------------------------------------------------------
(* The queues of the semaphores.                                           *)
LEMMA WaitKept ==
  ASSUME WaitInv, UNCHANGED <<waiters, taken>>, TypeOK,
         \A s \in Calls : pc[s] = "waiting" => pc'[s] = "waiting"
  PROVE  WaitInv'
<1> SUFFICES ASSUME NEW g \in Generations, NEW i \in DOMAIN waiters[g]
             PROVE waiters[g][i] \in Calls
  BY DEF WaitInv
<1> QED
  BY DEF TypeOK

LEMMA WaitEnter ==
  ASSUME WaitInv, TypeOK, NEW t \in Calls, pc[t] # "waiting", Enter(t)
  PROVE  WaitInv'
<1> DEFINE n == semaphore
<1>1. /\ n \in Generations /\ waiters \in [Generations -> Seq(Calls)]
      /\ taken \in [Calls -> Generations] /\ pc \in [Calls -> Places]
      /\ taken' = [taken EXCEPT ![t] = n]
  BY DEF TypeOK, Enter
<1>2. \A g \in Generations : \A i \in DOMAIN waiters[g] :
        waiters[g][i] \in Calls /\ waiters[g][i] # t
  BY <1>1 DEF WaitInv
<1>3. CASE waiters' = waiters /\ pc' = [pc EXCEPT ![t] = "executing"]
  BY <1>1, <1>2, <1>3 DEF WaitInv
<1>4. CASE /\ waiters' = [waiters EXCEPT ![n] = Append(waiters[n], t)]
           /\ pc' = [pc EXCEPT ![t] = "waiting"]
  <2> DEFINE w == waiters[n]  v == Append(w, t)
  <2>1. w \in Seq(Calls)
    BY <1>1
  <2>2. /\ DOMAIN v = DOMAIN w \cup {Len(w) + 1} /\ v[Len(w) + 1] = t
        /\ \A i \in DOMAIN w : v[i] = w[i]
    BY <2>1
  <2>3. \A i \in DOMAIN w : w[i] # t /\ w[i] \in Calls
    BY <1>1, <1>2
  <2> HIDE DEF v
  <2>4. waiters'[n] = v /\ \A g \in Generations \ {n} : waiters'[g] = waiters[g]
    BY <1>1, <1>4 DEF v
  <2>5. ASSUME NEW i \in DOMAIN v
        PROVE  pc'[v[i]] = "waiting" /\ taken'[v[i]] = n
    BY <1>1, <1>4, <2>2, <2>3, <2>5 DEF WaitInv
  <2>6. ASSUME NEW i \in DOMAIN v, NEW j \in DOMAIN v, v[i] = v[j] PROVE i = j
    BY <1>1, <2>2, <2>3, <2>6 DEF WaitInv
  <2>7. ASSUME NEW g \in Generations \ {n}, NEW i \in DOMAIN waiters[g]
        PROVE  pc'[waiters[g][i]] = "waiting" /\ taken'[waiters[g][i]] = g
    BY <1>1, <1>2, <1>4, <2>7 DEF WaitInv
  <2> QED
    BY <2>4, <2>5, <2>6, <2>7 DEF WaitInv
<1> QED
  BY <1>3, <1>4 DEF Enter, Goto

LEMMA WaitRelease ==
  ASSUME WaitInv, TypeOK, NEW t \in Calls, pc[t] \in Inside,
         NEW p \in {"done", "aborted"}, Release(t, p)
  PROVE  WaitInv'
<1> DEFINE n == taken[t]
<1>1. /\ n \in Generations /\ waiters \in [Generations -> Seq(Calls)]
      /\ pc \in [Calls -> Places]
  BY DEF TypeOK
<1> HIDE DEF n
<1>2. \A g \in Generations : \A i \in DOMAIN waiters[g] :
        waiters[g][i] \in Calls /\ waiters[g][i] # t
  BY <1>1 DEF WaitInv, Inside
<1>3. CASE UNCHANGED <<waiters, taken>> /\ pc' = [pc EXCEPT ![t] = p]
  <2>1. \A s \in Calls : pc[s] = "waiting" => pc'[s] = "waiting"
    BY <1>1, <1>3 DEF Inside
  <2> QED
    BY <1>3, <2>1, WaitKept
<1>4. CASE /\ waiters[n] # <<>>
           /\ pc' = [pc EXCEPT ![t] = p, ![Head(waiters[n])] = "granted"]
           /\ waiters' = [waiters EXCEPT ![n] = Tail(waiters[n])]
           /\ UNCHANGED taken
  <2> DEFINE w == waiters[n]  v == Tail(w)  h == Head(w)
  <2>1. w \in Seq(Calls) /\ w # <<>>
    BY <1>1, <1>4
  <2>2. /\ h = w[1] /\ 1 \in DOMAIN w /\ DOMAIN v = 1 .. Len(w) - 1
        /\ DOMAIN w = 1 .. Len(w) /\ Len(w) \in Nat
        /\ \A i \in DOMAIN v : v[i] = w[i + 1] /\ i + 1 \in DOMAIN w
    BY <2>1
  <2> HIDE DEF v, h
  <2>3. waiters'[n] = v /\ \A g \in Generations \ {n} : waiters'[g] = waiters[g]
    BY <1>1, <1>4 DEF v
  <2>4. h \in Calls /\ h # t /\ taken[h] = n
    BY <1>1, <1>2, <2>2 DEF WaitInv
  <2>5. pc' = [pc EXCEPT ![t] = p, ![h] = "granted"]
    BY <1>4 DEF h
  <2>6. ASSUME NEW i \in DOMAIN v
        PROVE  pc'[v[i]] = "waiting" /\ taken'[v[i]] = n
    <3>1. i + 1 \in DOMAIN w /\ v[i] = w[i + 1] /\ i + 1 # 1 /\ i \in Nat
      BY <2>2, <2>6
    <3>2. v[i] # h /\ v[i] # t /\ v[i] \in Calls
      BY <1>1, <1>2, <2>2, <3>1 DEF WaitInv
    <3>3. pc[v[i]] = "waiting" /\ taken[v[i]] = n
      BY <1>1, <3>1 DEF WaitInv
    <3> QED
      BY <1>1, <1>4, <2>5, <3>2, <3>3
  <2>7. ASSUME NEW i \in DOMAIN v, NEW j \in DOMAIN v, v[i] = v[j] PROVE i = j
    <3>1. /\ i + 1 \in DOMAIN w /\ j + 1 \in DOMAIN w /\ w[i + 1] = w[j + 1]
          /\ i \in Nat /\ j \in Nat
      BY <2>2, <2>7
    <3>2. i + 1 = j + 1
      BY <1>1, <3>1 DEF WaitInv
    <3> QED
      BY <3>1, <3>2
  <2>8. ASSUME NEW g \in Generations \ {n}, NEW i \in DOMAIN waiters[g]
        PROVE  pc'[waiters[g][i]] = "waiting" /\ taken'[waiters[g][i]] = g
    <3>1. /\ pc[waiters[g][i]] = "waiting" /\ taken[waiters[g][i]] = g
          /\ waiters[g][i] \in Calls /\ waiters[g][i] # t
      BY <1>2, <2>8 DEF WaitInv
    <3> QED
      BY <1>1, <1>4, <2>4, <2>5, <2>8, <3>1
  <2> QED
    BY <2>3, <2>6, <2>7, <2>8 DEF WaitInv
<1> QED
  BY <1>3, <1>4, ReleaseCases DEF n
-----------------------------------------------------------------------------
LEMMA LogEnds ==
  ASSUME TypeOK, NEW t \in Calls, NEW st \in Statuses, Log(t, st)
  PROVE  /\ audit'[t] # <<>> /\ audit'[t][Len(audit'[t])] = st
         /\ \A s \in Calls \ {t} : audit'[s] = audit[s]
<1>1. audit[t] \in Seq(Statuses)
  BY DEF TypeOK
<1> DEFINE w == Append(audit[t], st)
<1>2. w # <<>> /\ w[Len(w)] = st
  BY <1>1
<1>3. audit' = [audit EXCEPT ![t] = w]
  BY DEF Log
<1> HIDE DEF w
<1> QED
  BY <1>2, <1>3 DEF TypeOK

(* The steps of a call keep what holds of each call.                       *)
LEMMA EntersWell ==
  ASSUME TypeOK, CallInv, NEW t \in Calls, Enter(t),
         pc[t] = "validating" \/ (pc[t] = "awaiting" /\ t \notin registered'),
         registered' \in {registered, registered \ {t}},
         t \in NeedsApproval => answer[t] = "approved",
         UNCHANGED <<future, answer, audit, result>>
  PROVE  CallInv'
<1>1. /\ \A s \in Calls \ {t} : pc'[s] = pc[s]
      /\ \/ pc'[t] = "executing" /\ runningTasks' = runningTasks \cup {t}
         \/ pc'[t] = "waiting" /\ runningTasks' = runningTasks
      /\ cancelled' = cancelled
  BY EnterMoves
<1>2. t \notin runningTasks
  BY DEF CallInv, KillReaches, Inside
<1>3. FutureInv' /\ RecordInv'
  BY <1>1 DEF CallInv, FutureInv, RecordInv, LastIs
<1>4. KillReaches'
  <2>1. t \notin registered'
    BY DEF CallInv, KillReaches
  <2> QED
    BY <1>1, <1>2, <2>1 DEF CallInv, KillReaches, Inside, TypeOK
<1>5. ApprovedByUser' /\ CancelledNeverSucceeds'
  BY <1>1, ExecutorConstants
     DEF CallInv, ApprovedByUser, CancelledNeverSucceeds, Inside, TypeOK
<1> QED
  BY <1>3, <1>4, <1>5 DEF CallInv

LEMMA CallBegins ==
  ASSUME TypeOK, CallInv, NEW t \in Calls,
         Begin(t) \/ Refuse(t) \/ ValidationFails(t) \/ Validated(t)
  PROVE  CallInv'
<1> USE DEF CallInv, approvalVars, semaphoreVars, taskVars
<1>1. CASE Begin(t)
  BY <1>1 DEF TypeOK, Begin, Goto, FutureInv, RecordInv, LastIs, KillReaches,
     ApprovedByUser, CancelledNeverSucceeds, Inside
<1>2. CASE Refuse(t)
  <2>1. \/ audit' = audit
        \/ ~LastIs(t, {"success"})' /\ \A s \in Calls \ {t} : audit'[s] = audit[s]
    BY <1>2, LogEnds DEF Refuse, Statuses, LastIs
  <2>2. pc[t] = "idle" /\ audit[t] = <<>> /\ t \notin registered \cup runningTasks
    BY <1>2 DEF Refuse, RecordInv, KillReaches, Inside
  <2>3. result[t] = "none" /\ result'[t] = "failure" /\ pc'[t] = "done"
    BY <1>2 DEF Refuse, RecordInv, Goto, Return, TypeOK
  <2> QED
    BY <1>2, <2>1, <2>2, <2>3 DEF TypeOK, Refuse, Goto, Return, FutureInv, RecordInv, LastIs,
       KillReaches, ApprovedByUser, CancelledNeverSucceeds, Inside
<1>3. CASE ValidationFails(t)
  <2>1. \/ audit' = audit
        \/ ~LastIs(t, {"success"})' /\ \A s \in Calls \ {t} : audit'[s] = audit[s]
    BY <1>3, LogEnds DEF ValidationFails, Statuses, LastIs
  <2>2. pc[t] = "validating" /\ audit[t] = <<>>
    BY <1>3 DEF ValidationFails, RecordInv
  <2>3. result'[t] = "failure" /\ pc'[t] = "done" /\ future' = future /\ answer' = answer
    BY <1>3 DEF ValidationFails, Goto, Return, TypeOK
  <2>4. \A s \in Calls \ {t} : result'[s] = result[s] /\ pc'[s] = pc[s]
    BY <1>3 DEF ValidationFails, Goto, Return, TypeOK
  <2>5. ~LastIs(t, {"success"})' /\ \A s \in Calls \ {t} : audit'[s] = audit[s]
    BY <2>1, <2>2 DEF LastIs
  <2> QED
    <3>1. FutureInv' /\ RecordInv'
      BY <2>3, <2>4, <2>5 DEF FutureInv, RecordInv, LastIs
    <3>2. KillReaches'
      BY <1>3 DEF TypeOK, ValidationFails, Goto, KillReaches, Inside
    <3>3. ApprovedByUser' /\ CancelledNeverSucceeds'
      BY <1>3 DEF TypeOK, ValidationFails, Goto, Return, ApprovedByUser, CancelledNeverSucceeds,
         Inside
    <3> QED
      BY <3>1, <3>2, <3>3
<1>4. CASE Validated(t)
  <2>1. CASE t \in NeedsApproval
    <3>1. /\ pc[t] = "validating" /\ pc' = [pc EXCEPT ![t] = "awaiting"]
          /\ future' = [future EXCEPT ![t] = "pending"]
          /\ registered' = registered \cup {t}
          /\ UNCHANGED <<answer, semaphoreVars, taskVars, audit, result>>
      BY <1>4, <2>1 DEF Validated, Goto
    <3>2. FutureInv' /\ RecordInv'
      BY <3>1 DEF TypeOK, FutureInv, RecordInv, LastIs
    <3>3. KillReaches'
      BY <3>1 DEF TypeOK, KillReaches, Inside
    <3>4. ApprovedByUser' /\ CancelledNeverSucceeds'
      BY <3>1 DEF TypeOK, ApprovedByUser, CancelledNeverSucceeds, Inside
    <3> QED
      BY <3>2, <3>3, <3>4
  <2>2. CASE t \notin NeedsApproval
    <3>1. pc[t] = "validating" /\ Enter(t) /\ UNCHANGED <<future, registered, answer, audit, result>>
      BY <1>4, <2>2 DEF Validated
    <3> QED
      BY <2>2, <3>1, EntersWell
  <2> QED
    BY <2>1, <2>2
<1> QED
  BY <1>1, <1>2, <1>3, <1>4
LEMMA CallIsAnswered ==
  ASSUME TypeOK, CallInv, NEW t \in Calls,
         \/ \E st \in {"approved", "denied"} : Resolve(t, st)
         \/ Approved(t) \/ Denied(t) \/ TimesOut(t)
  PROVE  CallInv'
<1> USE DEF approvalVars, semaphoreVars, taskVars
<1>1. ASSUME NEW st \in {"approved", "denied"}, Resolve(t, st) PROVE CallInv'
  <2>1. pc[t] = "awaiting"
    BY <1>1 DEF Resolve, CallInv, KillReaches
  <2>2. FutureInv' /\ RecordInv'
    BY <1>1 DEF Resolve, TypeOK, CallInv, FutureInv, RecordInv, LastIs
  <2>3. KillReaches'
    BY <1>1 DEF Resolve, TypeOK, CallInv, KillReaches
  <2>4. ApprovedByUser' /\ CancelledNeverSucceeds'
    BY <1>1, <2>1 DEF Resolve, TypeOK, CallInv, ApprovedByUser, CancelledNeverSucceeds, Inside
  <2> QED
    BY <2>2, <2>3, <2>4 DEF CallInv
<1>2. CASE Approved(t)
  <2>1. answer[t] = "approved"
    BY <1>2 DEF Approved, CallInv, FutureInv
  <2> QED
    BY <1>2, <2>1, EntersWell DEF Approved
<1>3. CASE Denied(t) \/ TimesOut(t)
  <2>1. /\ pc[t] = "awaiting" /\ pc' = [pc EXCEPT ![t] = "done"]
        /\ registered' = registered \ {t}
        /\ result' = [result EXCEPT ![t] = "failure"]
        /\ UNCHANGED <<future, answer, runningTasks, cancelled>>
    BY <1>3 DEF Denied, TimesOut, Goto, Return
  <2>2. ~LastIs(t, {"success"})' /\ \A s \in Calls \ {t} : audit'[s] = audit[s]
    BY <1>3, LogEnds DEF Denied, TimesOut, Statuses, LastIs
  <2>3. FutureInv' /\ RecordInv'
    BY <2>1, <2>2 DEF TypeOK, CallInv, FutureInv, RecordInv, LastIs
  <2>4. t \notin runningTasks
    BY <2>1 DEF CallInv, KillReaches, Inside
  <2>5. KillReaches'
    BY <2>1, <2>4 DEF TypeOK, CallInv, KillReaches
  <2>6. ApprovedByUser' /\ CancelledNeverSucceeds'
    BY <2>1 DEF TypeOK, CallInv, ApprovedByUser, CancelledNeverSucceeds, Inside
  <2> QED
    BY <2>3, <2>5, <2>6 DEF CallInv
<1> QED
  BY <1>1, <1>2, <1>3

LEMMA CallRuns ==
  ASSUME TypeOK, CallInv, NEW t \in Calls,
         Granted(t) \/ ToolSucceeds(t) \/ ToolFails(t) \/ Killed(t)
  PROVE  CallInv'
<1> USE DEF approvalVars, semaphoreVars, taskVars
<1>1. CASE Granted(t)
  <2>1. FutureInv' /\ RecordInv'
    BY <1>1 DEF Granted, Goto, TypeOK, CallInv, FutureInv, RecordInv, LastIs
  <2>2. KillReaches'
    BY <1>1 DEF Granted, Goto, TypeOK, CallInv, KillReaches, Inside
  <2>3. ApprovedByUser' /\ CancelledNeverSucceeds'
    BY <1>1 DEF Granted, Goto, TypeOK, CallInv, ApprovedByUser, CancelledNeverSucceeds, Inside
  <2> QED
    BY <2>1, <2>2, <2>3 DEF CallInv
<1>2. ASSUME NEW st \in {"success", "execution_error", "killed"},
             NEW p \in {"succeeding", "failing", "killing"},
             pc[t] \in {"executing", "succeeding"},
             Log(t, st), Goto(t, p),
             p = "succeeding" <=> st = "success",
             p = "killing" => t \in cancelled,
             UNCHANGED <<approvalVars, semaphoreVars, taskVars, result>>
      PROVE  CallInv'
  <2>1. LastIs(t, {st})' /\ \A s \in Calls \ {t} : audit'[s] = audit[s]
    BY <1>2, LogEnds DEF Statuses, LastIs
  <2>2. pc' = [pc EXCEPT ![t] = p]
    BY <1>2 DEF Goto
  <2>3. FutureInv' /\ RecordInv'
    <3>1. FutureInv'
      BY <1>2 DEF CallInv, FutureInv
    <3>2. RecordInv'
      BY <1>2, <2>1, <2>2 DEF TypeOK, CallInv, RecordInv, LastIs
    <3> QED
      BY <3>1, <3>2
  <2>4. KillReaches'
    BY <1>2, <2>2 DEF TypeOK, CallInv, KillReaches, Inside
  <2>5. ApprovedByUser' /\ CancelledNeverSucceeds'
    BY <1>2, <2>2 DEF TypeOK, CallInv, ApprovedByUser, CancelledNeverSucceeds, Inside
  <2> QED
    BY <2>3, <2>4, <2>5 DEF CallInv
<1> QED
  BY <1>1, <1>2 DEF ToolSucceeds, ToolFails, ToolEnds, Killed

LEMMA CallLeaves ==
  ASSUME TypeOK, CallInv, WaitInv, NEW t \in Calls, Finish(t) \/ Abort(t)
  PROVE  CallInv'
<1> USE DEF approvalVars
<1>1. PICK p \in {"done", "aborted"} :
        /\ pc[t] \in {"succeeding", "failing", "killing"}
        /\ Release(t, p)
        /\ \/ p = "aborted" /\ result' = result
           \/ /\ p = "done" /\ pc[t] = "succeeding" /\ t \notin cancelled
              /\ result' = [result EXCEPT ![t] = "success"]
           \/ /\ p = "done" /\ pc[t] # "succeeding"
              /\ result' = [result EXCEPT ![t] = "failure"]
        /\ runningTasks' = runningTasks \ {t}
        /\ UNCHANGED <<approvalVars, cancelled, audit>>
  BY DEF Finish, Abort, Return
<1>2. /\ pc'[t] = p
      /\ \A s \in Calls \ {t} :
           pc'[s] = pc[s] \/ (pc[s] = "waiting" /\ pc'[s] = "granted")
  BY <1>1, ReleaseMoves DEF Inside
<1>3. FutureInv' /\ RecordInv'
  <2>1. FutureInv'
    BY <1>1 DEF CallInv, FutureInv
  <2>2. ASSUME NEW s \in Calls \ {t} PROVE result'[s] = result[s] /\ audit'[s] = audit[s]
    BY <1>1 DEF TypeOK
  <2>3. result[t] = "none" /\ (pc[t] = "succeeding" <=> LastIs(t, {"success"}))
    BY <1>1 DEF CallInv, RecordInv, LastIs
  <2>4. p = "done" => (result'[t] = "success" <=> LastIs(t, {"success"})')
    BY <1>1, <2>3 DEF TypeOK, LastIs
  <2>5. p # "done" => result'[t] = "none"
    BY <1>1, <2>3
  <2> QED
    BY <1>1, <1>2, <2>1, <2>2, <2>4, <2>5 DEF CallInv, RecordInv, LastIs
<1>4. t \notin registered
  BY <1>1 DEF CallInv, KillReaches
<1>5. KillReaches'
  BY <1>1, <1>2, <1>4 DEF CallInv, KillReaches, Inside
<1>6. ApprovedByUser' /\ CancelledNeverSucceeds'
  BY <1>1, <1>2, ExecutorConstants
     DEF TypeOK, CallInv, ApprovedByUser, CancelledNeverSucceeds, Inside
<1> QED
  BY <1>3, <1>5, <1>6 DEF CallInv

LEMMA KillIsSafe ==
  ASSUME TypeOK, CallInv, HandleKill
  PROVE  CallInv'
<1>1. FutureInv' /\ RecordInv'
  BY DEF HandleKill, TypeOK, CallInv, FutureInv, RecordInv, LastIs
<1>2. KillReaches'
  BY DEF HandleKill, TypeOK, CallInv, KillReaches
<1>3. ApprovedByUser' /\ CancelledNeverSucceeds'
  BY DEF HandleKill, TypeOK, CallInv, ApprovedByUser, CancelledNeverSucceeds,
     KillReaches, RecordInv, Inside
<1> QED
  BY <1>1, <1>2, <1>3 DEF CallInv
-----------------------------------------------------------------------------
(* The steps that leave the queues alone.                                  *)
LEMMA WaitQuiet ==
  ASSUME TypeOK, WaitInv, NEW t \in Calls,
         \/ Begin(t) \/ Refuse(t) \/ ValidationFails(t)
         \/ Validated(t) /\ t \in NeedsApproval
         \/ \E st \in {"approved", "denied"} : Resolve(t, st)
         \/ Denied(t) \/ TimesOut(t)
         \/ Granted(t) \/ ToolSucceeds(t) \/ ToolFails(t) \/ Killed(t)
  PROVE  WaitInv'
<1>1. UNCHANGED <<waiters, taken>>
  BY DEF Begin, Refuse, ValidationFails, Validated, Resolve, Denied, TimesOut,
     Granted, ToolSucceeds, ToolFails, ToolEnds, Killed, semaphoreVars
<1>2. pc' = pc \/ (pc[t] # "waiting" /\ \E p \in Places : pc' = [pc EXCEPT ![t] = p])
  BY DEF Begin, Refuse, ValidationFails, Validated, Resolve, Denied, TimesOut,
     Granted, ToolSucceeds, ToolFails, ToolEnds, Killed, Goto, Places
<1>3. \A s \in Calls : pc[s] = "waiting" => pc'[s] = "waiting"
  BY <1>2 DEF TypeOK
<1> QED
  BY <1>1, <1>3, WaitKept

LEMMA CallsHold == Init /\ [][Next]_vars => []IInv
<1>1. Init => WaitInv /\ CallInv
  <2> SUFFICES ASSUME Init PROVE WaitInv /\ CallInv
    OBVIOUS
  <2>1. WaitInv
    BY DEF Init, WaitInv
  <2>2. CallInv
    BY ExecutorConstants DEF Init, CallInv, FutureInv, RecordInv, LastIs, KillReaches,
       ApprovedByUser, CancelledNeverSucceeds, Inside
  <2> QED
    BY <2>1, <2>2
<1>2. TypeOK /\ WaitInv /\ CallInv /\ [Next]_vars => WaitInv' /\ CallInv'
  <2> SUFFICES ASSUME TypeOK, WaitInv, CallInv, [Next]_vars
               PROVE WaitInv' /\ CallInv'
    OBVIOUS
  <2>1. ASSUME NEW t \in Calls, Begin(t) \/ Refuse(t) \/ ValidationFails(t)
        PROVE WaitInv' /\ CallInv'
    BY <2>1, CallBegins, WaitQuiet
  <2>2. ASSUME NEW t \in Calls, Validated(t) PROVE WaitInv' /\ CallInv'
    <3>1. CASE t \in NeedsApproval
      BY <2>2, <3>1, CallBegins, WaitQuiet
    <3>2. CASE t \notin NeedsApproval
      <4>1. Enter(t) /\ pc[t] # "waiting"
        BY <2>2, <3>2 DEF Validated
      <4> QED
        BY <2>2, <4>1, CallBegins, WaitEnter
    <3> QED
      BY <3>1, <3>2
  <2>3. ASSUME NEW t \in Calls, NEW st \in {"approved", "denied"}, Resolve(t, st)
        PROVE WaitInv' /\ CallInv'
    BY <2>3, CallIsAnswered, WaitQuiet
  <2>4. ASSUME NEW t \in Calls, Approved(t) PROVE WaitInv' /\ CallInv'
    <3>1. Enter(t) /\ pc[t] # "waiting"
      BY <2>4 DEF Approved
    <3> QED
      BY <2>4, <3>1, CallIsAnswered, WaitEnter
  <2>5. ASSUME NEW t \in Calls, Denied(t) \/ TimesOut(t)
        PROVE WaitInv' /\ CallInv'
    BY <2>5, CallIsAnswered, WaitQuiet
  <2>6. ASSUME NEW t \in Calls,
               Granted(t) \/ ToolSucceeds(t) \/ ToolFails(t) \/ Killed(t)
        PROVE WaitInv' /\ CallInv'
    BY <2>6, CallRuns, WaitQuiet
  <2>7. ASSUME NEW t \in Calls, Finish(t) \/ Abort(t) PROVE WaitInv' /\ CallInv'
    <3>1. pc[t] \in Inside /\ \E p \in {"done", "aborted"} : Release(t, p)
      BY <2>7 DEF Finish, Abort, Inside
    <3> QED
      BY <2>7, <3>1, CallLeaves, WaitRelease
  <2>8. CASE HandleKill
    <3>1. WaitInv'
      BY <2>8, WaitKept DEF HandleKill
    <3> QED
      BY <2>8, <3>1, KillIsSafe
  <2>9. CASE UNCHANGED vars
    <3>1. WaitInv'
      BY <2>9, WaitKept DEF vars
    <3> QED
      BY <2>9, <3>1 DEF vars, CallInv, FutureInv, RecordInv, LastIs, KillReaches,
         ApprovedByUser, CancelledNeverSucceeds
  <2> QED
    BY <2>1, <2>2, <2>3, <2>4, <2>5, <2>6, <2>7, <2>8, <2>9 DEF Next, Step
<1> QED
  BY <1>1, <1>2, TypesHold, PTL DEF IInv

(* Who waits is in a queue once, and futures, running tasks, cancellations *)
(* and the audit trail of a call go together.                              *)
THEOREM ExecutorInductive == Spec => []IInv
BY CallsHold, PTL DEF Spec

(* handle_kill() finds every call it should cancel or deny.                *)
THEOREM KillReachesAll == Spec => []KillReaches
BY ExecutorInductive, PTL DEF IInv, CallInv

(* No tool that needs approval runs unless the user approved the call.     *)
THEOREM OnlyApprovedRun == Spec => []ApprovedByUser
BY ExecutorInductive, PTL DEF IInv, CallInv

(* A cancelled call never reports a success.                               *)
THEOREM CancelledFail == Spec => []CancelledNeverSucceeds
BY ExecutorInductive, PTL DEF IInv, CallInv

(* The result of a call agrees with the last entry of its audit trail.     *)
THEOREM AuditIsRight == Spec => []AuditAgrees
<1>1. IInv => AuditAgrees
  BY DEF IInv, CallInv, RecordInv, LastIs, AuditAgrees
<1> QED
  BY <1>1, ExecutorInductive, PTL

-----------------------------------------------------------------------------
(* The permits.  The calls inside a block are finitely many, for they come *)
(* in one at a time, and no more than there are permits.                   *)
PermitInv ==
  \A g \in Generations :
    /\ IsFiniteSet(Holders(g))
    /\ permits[g] + Cardinality(Holders(g)) = MaxConcurrent
    /\ permits[g] > 0 => waiters[g] = <<>>

LEMMA PermitsQuiet ==
  ASSUME TypeOK, PermitInv, UNCHANGED <<permits, waiters, taken>>,
         \A s \in Calls : pc'[s] \in Inside <=> pc[s] \in Inside
  PROVE  PermitInv'
<1>1. \A g \in Generations : Holders(g)' = Holders(g)
  BY DEF Holders
<1> QED
  BY <1>1 DEF PermitInv

LEMMA PermitsEnter ==
  ASSUME TypeOK, PermitInv, NEW t \in Calls, pc[t] \notin Inside, Enter(t)
  PROVE  PermitInv'
<1>0. PICK n \in Generations : n = semaphore
  BY DEF TypeOK
<1>1. /\ pc \in [Calls -> Places] /\ taken \in [Calls -> Generations]
      /\ permits \in [Generations -> Nat] /\ waiters \in [Generations -> Seq(Calls)]
  BY DEF TypeOK
<1>2. taken' = [taken EXCEPT ![t] = n]
  BY <1>0 DEF Enter
<1>3. CASE /\ permits[n] > 0 /\ waiters' = waiters
           /\ permits' = [permits EXCEPT ![n] = permits[n] - 1]
           /\ pc' = [pc EXCEPT ![t] = "executing"]
  <2>1. Holders(n)' = Holders(n) \cup {t} /\ t \notin Holders(n)
    BY <1>1, <1>2, <1>3 DEF Holders, Inside
  <2>2. \A g \in Generations \ {n} : Holders(g)' = Holders(g)
    BY <1>1, <1>2, <1>3 DEF Holders, Inside
  <2>3. IsFiniteSet(Holders(n)') /\ Cardinality(Holders(n)') = Cardinality(Holders(n)) + 1
    <3>1. IsFiniteSet(Holders(n))
      BY DEF PermitInv
    <3> QED
      BY <2>1, <3>1, FS_AddElement
  <2>4. /\ permits[n] \in Nat /\ Cardinality(Holders(n)) \in Nat /\ MaxConcurrent \in Nat
        /\ permits[n] + Cardinality(Holders(n)) = MaxConcurrent
        /\ permits'[n] = permits[n] - 1
        /\ \A g \in Generations \ {n} : permits'[g] = permits[g]
    BY <1>1, <1>3, FS_CardinalityType, ExecutorConstants DEF PermitInv
  <2>5. permits'[n] + Cardinality(Holders(n)') = MaxConcurrent
    BY <2>3, <2>4
  <2>6. waiters'[n] = <<>>
    BY <1>1, <1>3 DEF PermitInv
  <2> QED
    BY <1>3, <2>2, <2>3, <2>4, <2>5, <2>6 DEF PermitInv
<1>4. CASE /\ permits[n] = 0 /\ permits' = permits
           /\ waiters' = [waiters EXCEPT ![n] = Append(waiters[n], t)]
           /\ pc' = [pc EXCEPT ![t] = "waiting"]
  <2>1. \A g \in Generations : Holders(g)' = Holders(g)
    BY <1>1, <1>2, <1>4 DEF Holders, Inside
  <2>2. \A g \in Generations : permits'[g] > 0 => waiters'[g] = <<>>
    <3> SUFFICES ASSUME NEW g \in Generations, permits'[g] > 0
                 PROVE  waiters'[g] = <<>>
      OBVIOUS
    <3>1. permits[g] > 0 /\ g # n
      BY <1>4
    <3>2. waiters'[g] = waiters[g]
      BY <1>1, <1>4, <3>1
    <3> QED
      BY <3>1, <3>2 DEF PermitInv
  <2> QED
    BY <1>4, <2>1, <2>2 DEF PermitInv
<1> QED
  BY <1>0, <1>1, <1>3, <1>4 DEF Enter, Goto

LEMMA PermitsRelease ==
  ASSUME TypeOK, WaitInv, PermitInv, NEW t \in Calls, pc[t] \in Inside,
         NEW p \in {"done", "aborted"}, Release(t, p)
  PROVE  PermitInv'
<1>0. PICK n \in Generations : n = taken[t]
  BY DEF TypeOK
<1>1. /\ pc \in [Calls -> Places] /\ taken \in [Calls -> Generations]
      /\ permits \in [Generations -> Nat] /\ waiters \in [Generations -> Seq(Calls)]
  BY DEF TypeOK
<1>2. /\ t \in Holders(n) /\ IsFiniteSet(Holders(n)) /\ Cardinality(Holders(n)) \in Nat
      /\ permits[n] \in Nat /\ MaxConcurrent \in Nat
      /\ permits[n] + Cardinality(Holders(n)) = MaxConcurrent
  BY <1>0, <1>1, FS_CardinalityType, ExecutorConstants DEF PermitInv, Holders
<1>3. /\ IsFiniteSet(Holders(n) \ {t})
      /\ Cardinality(Holders(n) \ {t}) = Cardinality(Holders(n)) - 1
  BY <1>2, FS_RemoveElement
<1>4. CASE /\ waiters[n] # <<>> /\ Head(waiters[n]) \in Calls
           /\ pc' = [pc EXCEPT ![t] = p, ![Head(waiters[n])] = "granted"]
           /\ waiters' = [waiters EXCEPT ![n] = Tail(waiters[n])]
           /\ UNCHANGED <<permits, semaphore, taken>>
  <2> DEFINE h == Head(waiters[n])
  <2>1. pc[h] = "waiting" /\ taken[h] = n
    <3>1. waiters[n] \in Seq(Calls)
      BY <1>1
    <3>2. 1 \in DOMAIN waiters[n] /\ h = waiters[n][1]
      BY <1>4, <3>1
    <3> QED
      BY <1>1, <3>2 DEF WaitInv
  <2>2. h \in Calls /\ pc' = [pc EXCEPT ![t] = p, ![h] = "granted"] /\ taken' = taken
    BY <1>4
  <2> HIDE DEF h
  <2>3. Holders(n)' = (Holders(n) \ {t}) \cup {h} /\ h \notin Holders(n) \ {t}
    BY <1>0, <1>1, <2>1, <2>2 DEF Holders, Inside
  <2>4. \A g \in Generations \ {n} : Holders(g)' = Holders(g)
    BY <1>0, <1>1, <2>1, <2>2 DEF Holders, Inside
  <2>5. IsFiniteSet(Holders(n)') /\ Cardinality(Holders(n)') = Cardinality(Holders(n))
    <3> DEFINE S == Holders(n) \ {t}
    <3>1. IsFiniteSet(S) /\ Cardinality(S) = Cardinality(Holders(n)) - 1 /\ h \notin S
      BY <1>3, <2>3
    <3> HIDE DEF S
    <3>2. IsFiniteSet(S \cup {h}) /\ Cardinality(S \cup {h}) = Cardinality(S) + 1
      BY <3>1, FS_AddElement
    <3>3. Holders(n)' = S \cup {h}
      BY <2>3 DEF S
    <3> QED
      BY <1>2, <3>1, <3>2, <3>3
  <2>6. permits[n] = 0
    BY <1>1, <1>4 DEF PermitInv
  <2>7. \A g \in Generations \ {n} : waiters'[g] = waiters[g]
    BY <1>1, <1>4
  <2> QED
    BY <1>2, <1>4, <2>4, <2>5, <2>6, <2>7 DEF PermitInv
<1>5. CASE /\ waiters[n] = <<>> /\ pc' = [pc EXCEPT ![t] = p]
           /\ permits' = [permits EXCEPT ![n] = permits[n] + 1]
           /\ UNCHANGED <<waiters, semaphore, taken>>
  <2>1. Holders(n)' = Holders(n) \ {t}
    BY <1>0, <1>1, <1>5 DEF Holders, Inside
  <2>2. \A g \in Generations \ {n} : Holders(g)' = Holders(g)
    BY <1>0, <1>1, <1>5 DEF Holders, Inside
  <2>3. /\ permits'[n] = permits[n] + 1
        /\ \A g \in Generations \ {n} : permits'[g] = permits[g]
    BY <1>1, <1>5
  <2>4. permits'[n] + Cardinality(Holders(n)') = MaxConcurrent
    BY <1>2, <1>3, <2>1, <2>3
  <2> QED
    BY <1>3, <1>5, <2>1, <2>2, <2>3, <2>4 DEF PermitInv
<1> QED
  BY <1>0, <1>4, <1>5, ReleaseCases

LEMMA PermitsNext == IInv /\ PermitInv /\ [Next]_vars => PermitInv'
<1> SUFFICES ASSUME TypeOK, WaitInv, PermitInv, [Next]_vars PROVE PermitInv'
  BY DEF IInv
<1> USE DEF approvalVars, semaphoreVars
<1>1. ASSUME NEW t \in Calls, UNCHANGED semaphoreVars, NEW place \in Places, Goto(t, place),
             pc[t] \in Inside <=> place \in Inside
      PROVE  PermitInv'
  <2>1. \A s \in Calls : pc'[s] \in Inside <=> pc[s] \in Inside
    BY <1>1 DEF Goto, TypeOK
  <2> QED
    BY <1>1, <2>1, PermitsQuiet
<1>2. ASSUME NEW t \in Calls, Begin(t) \/ Refuse(t) \/ ValidationFails(t) PROVE PermitInv'
  <2>1. UNCHANGED semaphoreVars /\ \E place \in {"validating", "done"} : Goto(t, place)
    BY <1>2 DEF Begin, Refuse, ValidationFails
  <2>2. pc[t] \notin Inside
    BY <1>2 DEF Begin, Refuse, ValidationFails, Inside
  <2> QED
    BY <1>1, <2>1, <2>2 DEF Inside, Places
<1>3. ASSUME NEW t \in Calls, Validated(t) PROVE PermitInv'
  <2>1. pc[t] \notin Inside
    BY <1>3 DEF Validated, Inside
  <2>2. CASE t \in NeedsApproval
    <3>1. UNCHANGED semaphoreVars /\ Goto(t, "awaiting")
      BY <1>3, <2>2 DEF Validated
    <3> QED
      BY <1>1, <2>1, <3>1 DEF Inside, Places
  <2>3. CASE t \notin NeedsApproval
    BY <1>3, <2>1, <2>3, PermitsEnter DEF Validated
  <2> QED
    BY <2>2, <2>3
<1>4. ASSUME NEW t \in Calls, Approved(t) PROVE PermitInv'
  BY <1>4, PermitsEnter DEF Approved, Inside
<1>5. ASSUME NEW t \in Calls, Denied(t) \/ TimesOut(t) PROVE PermitInv'
  BY <1>1, <1>5 DEF Denied, TimesOut, Inside, Places
<1>6. ASSUME NEW t \in Calls, Granted(t) PROVE PermitInv'
  BY <1>1, <1>6 DEF Granted, Inside, Places
<1>7. ASSUME NEW t \in Calls, ToolSucceeds(t) \/ ToolFails(t) \/ Killed(t) PROVE PermitInv'
  <2>1. /\ UNCHANGED semaphoreVars /\ pc[t] \in Inside
        /\ \E place \in {"succeeding", "failing", "killing"} : Goto(t, place)
    BY <1>7 DEF ToolSucceeds, ToolFails, ToolEnds, Killed, Inside
  <2> QED
    BY <1>1, <2>1 DEF Inside, Places
<1>8. ASSUME NEW t \in Calls, Finish(t) \/ Abort(t) PROVE PermitInv'
  <2>1. pc[t] \in Inside /\ \E p \in {"done", "aborted"} : Release(t, p)
    BY <1>8 DEF Finish, Abort, Inside
  <2> QED
    BY <2>1, PermitsRelease
<1>9. CASE \/ \E t \in Calls : Resolve(t, "approved") \/ Resolve(t, "denied")
           \/ HandleKill
           \/ UNCHANGED vars
  <2>1. UNCHANGED <<pc, permits, waiters, taken>>
    BY <1>9 DEF Resolve, HandleKill, vars
  <2> QED
    BY <2>1, PermitsQuiet
<1> QED
  BY <1>2, <1>3, <1>4, <1>5, <1>6, <1>7, <1>8, <1>9 DEF Next, Step

LEMMA PermitsHold == Init /\ [][Next]_vars => []PermitsExact
<1>1. Init => PermitInv
  <2> SUFFICES ASSUME Init PROVE PermitInv
    OBVIOUS
  <2>1. \A g \in Generations : Holders(g) = {}
    BY DEF Init, Holders, Inside
  <2>2. \A g \in Generations : IsFiniteSet(Holders(g)) /\ Cardinality(Holders(g)) = 0
    BY <2>1, FS_EmptySet
  <2>3. \A g \in Generations : permits[g] = MaxConcurrent /\ waiters[g] = <<>>
    BY DEF Init
  <2>4. MaxConcurrent + 0 = MaxConcurrent
    BY ExecutorConstants
  <2> QED
    BY <2>2, <2>3, <2>4 DEF PermitInv
<1>2. PermitInv => PermitsExact
  BY DEF PermitInv, PermitsExact
<1> QED
  BY <1>1, <1>2, PermitsNext, CallsHold, PTL

(* No semaphore ever loses a permit or lets one call too many in, over     *)
(* handovers, cancellations and kills that replace it, and none keeps a    *)
(* call waiting while it has a permit to give.                             *)
THEOREM PermitsNeverLost == Spec => []PermitsExact
BY PermitsHold, PTL DEF Spec

-----------------------------------------------------------------------------
(* The kill switch and the gateway around the executor: ToolPlatform, with *)
(* names of their own for what the other parts call otherwise.             *)
CONSTANTS Requests, WsRequests, Grace, None, Connections, Agents, CallerOf
VARIABLES gate, kill, timer, left, newest, owner, age
G == INSTANCE ToolPlatform WITH state <- gate, request <- kill, current <- newest

(* A call that waits for the user was asked about.                         *)
AskedInv == \A t \in Calls : pc[t] = "awaiting" => future[t] # "none"

LEMMA AskedKept == TypeOK /\ AskedInv /\ [Next]_vars => AskedInv'
<1> SUFFICES ASSUME TypeOK, AskedInv, [Next]_vars PROVE AskedInv'
  OBVIOUS
<1> USE DEF TypeOK, AskedInv, approvalVars, semaphoreVars, taskVars, Goto, Return
<1>1. ASSUME NEW t \in Calls, Begin(t) \/ Refuse(t) \/ ValidationFails(t) \/ Denied(t) \/ TimesOut(t) PROVE AskedInv'
  BY <1>1 DEF Begin, Refuse, ValidationFails, Denied, TimesOut
<1>2. ASSUME NEW t \in Calls, Validated(t) \/ Approved(t) PROVE AskedInv'
  BY <1>2 DEF Validated, Approved, Enter
<1>3. ASSUME NEW t \in Calls, Granted(t) \/ ToolSucceeds(t) \/ ToolFails(t) \/ Killed(t) PROVE AskedInv'
  BY <1>3 DEF Granted, ToolSucceeds, ToolFails, ToolEnds, Killed
<1>4. ASSUME NEW t \in Calls, Finish(t) \/ Abort(t) PROVE AskedInv'
  <2>1. UNCHANGED future /\ \E place \in {"done", "aborted"} : Release(t, place)
    BY <1>4 DEF Finish, Abort
  <2>2. \A s \in Calls : pc'[s] = "awaiting" => pc[s] = "awaiting"
    BY <2>1 DEF Release
  <2> QED
    BY <2>1, <2>2
<1>5. ASSUME NEW t \in Calls, NEW status \in {"approved", "denied"}, Resolve(t, status) PROVE AskedInv'
  BY <1>5 DEF Resolve
<1>6. CASE HandleKill \/ UNCHANGED vars
  BY <1>6 DEF HandleKill, vars
<1> QED
  BY <1>1, <1>2, <1>3, <1>4, <1>5, <1>6 DEF Next, Step

(* What the executor does in the gateway it does on its own.               *)
LEMMA SameExecutor ==
  /\ G!TE!Init => Init
  /\ \A t : /\ G!TE!Begin(t) => Begin(t)
            /\ G!TE!Refuse(t) => Refuse(t)
            /\ G!TE!Step(t) => Step(t)
            /\ \A status : G!TE!Resolve(t, status) => Resolve(t, status)
  /\ G!TE!HandleKill => HandleKill
<1> USE DEF G!TE!Goto, Goto, G!TE!Log, Log, G!TE!Return, Return, G!TE!approvalVars, approvalVars,
            G!TE!semaphoreVars, semaphoreVars, G!TE!taskVars, taskVars, G!TE!Generations, Generations
<1>1. G!TE!Init => Init
  BY DEF G!TE!Init, Init
<1>2. G!TE!HandleKill => HandleKill
  BY DEF G!TE!HandleKill, HandleKill
<1>3. ASSUME NEW t PROVE (G!TE!Begin(t) => Begin(t)) /\ (G!TE!Refuse(t) => Refuse(t))
  BY DEF G!TE!Begin, Begin, G!TE!Refuse, Refuse
<1>4. ASSUME NEW t, NEW status PROVE G!TE!Resolve(t, status) => Resolve(t, status)
  BY DEF G!TE!Resolve, Resolve
<1>5. ASSUME NEW t PROVE G!TE!Step(t) => Step(t)
  <2>1. (G!TE!Validated(t) => Validated(t)) /\ (G!TE!Approved(t) => Approved(t))
    BY DEF G!TE!Validated, Validated, G!TE!Approved, Approved, G!TE!Enter, Enter
  <2>2. (G!TE!ValidationFails(t) => ValidationFails(t)) /\ (G!TE!Denied(t) => Denied(t))
        /\ (G!TE!TimesOut(t) => TimesOut(t)) /\ (G!TE!Granted(t) => Granted(t))
    BY DEF G!TE!ValidationFails, ValidationFails, G!TE!Denied, Denied, G!TE!TimesOut, TimesOut,
           G!TE!Granted, Granted
  <2>3. (G!TE!ToolSucceeds(t) => ToolSucceeds(t)) /\ (G!TE!ToolFails(t) => ToolFails(t))
        /\ (G!TE!Killed(t) => Killed(t))
    BY DEF G!TE!ToolSucceeds, ToolSucceeds, G!TE!ToolFails, ToolFails, G!TE!ToolEnds, ToolEnds,
           G!TE!Killed, Killed
  <2>4. (G!TE!Finish(t) => Finish(t)) /\ (G!TE!Abort(t) => Abort(t))
    BY DEF G!TE!Finish, Finish, G!TE!Abort, Abort, G!TE!Release, Release
  <2> QED
    BY <2>1, <2>2, <2>3, <2>4, Zenon DEF G!TE!Step, Step
<1> QED
  BY <1>1, <1>2, <1>3, <1>4, <1>5, Zenon

LEMMA PlatformStep == [G!Next]_(G!vars) => [Next]_vars
<1> SUFFICES ASSUME [G!Next]_(G!vars) PROVE [Next]_vars
  OBVIOUS
<1>1. UNCHANGED G!toolVars => UNCHANGED vars
  BY DEF G!toolVars, vars
<1>2. ASSUME NEW t \in Calls, G!Arrive(t) \/ G!Respond(t) \/ G!Work(t) PROVE [Next]_vars
  BY <1>2, SameExecutor, Zenon DEF G!Arrive, G!Respond, G!Work, Next
<1>3. ASSUME NEW q \in Requests, G!Kill(q) PROVE [Next]_vars
  BY <1>1, <1>3, SameExecutor, Zenon DEF G!Kill, Next
<1>4. CASE G!Resume \/ G!Timers \/ UNCHANGED G!vars
  BY <1>1, <1>4 DEF G!Resume, G!Timers, G!vars
<1> QED
  BY <1>2, <1>3, <1>4, Zenon DEF G!Next

(* The step that closes the gate catches every call there is to catch:     *)
(* running tools are cancelled, unanswered approvals are denied            *)
(* (gateway/lifespan.py registers handle_kill() as a soft-kill callback).  *)
THEOREM KillsCatch == G!Spec => G!KillCatches
<1>1. G!Init => Init /\ AskedInv
  BY SameExecutor DEF G!Init, Init, AskedInv
<1>2. IInv /\ AskedInv /\ [G!Next]_(G!vars)
        => (gate = "running" /\ gate' = "soft_killing" =>
              \A t \in Calls :
                /\ pc[t] \in {"executing", "succeeding", "failing"} => t \in cancelled'
                /\ pc[t] = "awaiting" /\ answer[t] = "none" => future'[t] = "denied")
  <2> SUFFICES ASSUME IInv, AskedInv, [G!Next]_(G!vars), gate = "running", gate' = "soft_killing",
                      NEW t \in Calls
               PROVE  /\ pc[t] \in {"executing", "succeeding", "failing"} => t \in cancelled'
                      /\ pc[t] = "awaiting" /\ answer[t] = "none" => future'[t] = "denied"
    OBVIOUS
  <2>1. HandleKill
    <3>1. CASE UNCHANGED G!killVars
      BY <3>1 DEF G!killVars
    <3>2. ASSUME NEW q \in Requests, G!Kill(q) PROVE HandleKill
      BY <3>2, SameExecutor DEF G!Kill, G!KS!SecondKill, G!KS!LateKill, G!KS!RejectKill
    <3>3. CASE G!Resume \/ G!Timers
      BY <3>3 DEF G!Resume, G!KS!Resume, G!Timers, G!KS!Tick, G!KS!StartTimer, G!KS!TimerTask,
         G!KS!TimerFires, G!KS!TimerCancelled, G!KS!HardKill
    <3> QED
      BY <3>1, <3>2, <3>3 DEF G!Next, G!Arrive, G!Respond, G!Work, G!vars
  <2>2. /\ t \in registered \/ future[t] # "pending" \/ pc[t] # "awaiting"
        /\ pc[t] \in {"executing", "succeeding", "failing"} => t \in runningTasks \cup cancelled
        /\ future[t] = "approved" => answer[t] = "approved"
        /\ future[t] \in {"none", "pending", "approved", "denied"}
    BY DEF IInv, CallInv, FutureInv, KillReaches, TypeOK
  <2> QED
    BY <2>1, <2>2 DEF HandleKill, AskedInv
<1>3. [G!Next]_(G!vars) => [Next]_vars
  BY PlatformStep
<1>4. IInv => TypeOK
  BY DEF IInv
<1> QED
  BY <1>1, <1>2, <1>3, <1>4, AskedKept, CallsHold, PTL DEF G!Spec, G!KillCatches

-----------------------------------------------------------------------------
(* Responses on their way out.                                             *)

Bits == ({"file"} \X {1}) \cup ({"text"} \X (Nat \ {0}))
(* The place of a part in a response: its file comes before its texts.     *)
Rank(p) == IF p[1] = "file" THEN 0 ELSE p[2]
PartsOf(w) == {O!Text(n) : n \in 1 .. w.texts} \cup {O!File(n) : n \in 1 .. w.files}

Postings == {"post", "plainly", "again"}
Firsts == {"refresh", "plainly", "again"}
Kinds == Postings \cup Firsts \cup {"find", "token", "prepare"}
Steps == [do : Kinds, part : Bits \cup {Nobody}]

Fits(svc, w, e) ==
  /\ e.do \in Postings \cup {"prepare"} => e.part \in PartsOf(w)
  /\ e.do = "prepare" => e.part = O!File(1)
  /\ e.do = "find" => svc \in {"discord", "teams"}
  /\ e.do \in {"token", "refresh"} => svc = "teams" /\ e.part = Nobody
  /\ e.do = "plainly" => svc = "telegram"

(* What a step posts comes after all that was tried before.                *)
Follows(e, d) ==
  /\ e.do \in {"prepare", "post", "again"} => \A q \in d : Rank(q) < Rank(e.part)
  /\ e.do = "plainly" => e.part \in d /\ \A q \in d : Rank(q) <= Rank(e.part)

(* The steps still to go, in order, and the parts that were tried.         *)
Line(svc, w, t, d) ==
  /\ t \in Seq(Steps) /\ d \subseteq PartsOf(w)
  /\ \A i \in 1 .. Len(t) : Fits(svc, w, t[i]) /\ Follows(t[i], d) /\ (i > 1 => t[i].do \notin Firsts)
  /\ \A i, j \in 1 .. Len(t) :
       i < j /\ t[i].do \in Postings /\ t[j].do \in Postings \cup {"prepare"}
         => Rank(t[i].part) < Rank(t[j].part)

Brings(svc, e, p) ==
  /\ e.do \in {"post", "again"}
  /\ e.part = p \/ (svc = "discord" /\ p = O!File(1) /\ e.part = O!Text(1))

(* Every part was tried or has its turn.                                   *)
Covered(svc, w, t, d) ==
  \A p \in PartsOf(w) : p \in d \/ \E i \in 1 .. Len(t) : Brings(svc, t[i], p)

Wants == [files : 0 .. 1, form : {"data", "url", "large"}, texts : Nat]

LinesInv ==
  /\ service \in O!Services /\ wanted \in [Sends -> Wants] /\ era \in Nat
  /\ state \in [Sends -> {"idle", "running", "ended"}]
  /\ todo \in [Sends -> Seq(Steps)] /\ tried \in [Sends -> SUBSET Bits]
  /\ \A s \in Sends : /\ Line(service, wanted[s], todo[s], tried[s])
                      /\ state[s] = "running" <=> todo[s] # <<>>
                      /\ state[s] = "idle" => tried[s] = {}
                      /\ state[s] # "idle" /\ s \notin cut => Covered(service, wanted[s], todo[s], tried[s])
  /\ cut \subseteq Sends /\ (up \/ era > 0)
  /\ cut # {} => era > 0 \/ service \in {"discord", "teams", "signal"}

Shows == [as : Bits, part : Bits, send : Sends]
Says(sh, i, s, p) == sh[i].send = s /\ sh[i].part = p

(* What reached the chat, given what was tried and what had no answer.     *)
Told(svc, sh, d, un) ==
  /\ \A i \in 1 .. Len(sh) : /\ sh[i].part \in d[sh[i].send]
                             /\ sh[i].as # sh[i].part => svc = "telegram" /\ sh[i].as = O!Text(1)
  /\ \A i, j \in 1 .. Len(sh) : i < j /\ sh[i].send = sh[j].send =>
       /\ Rank(sh[i].part) <= Rank(sh[j].part)
       /\ sh[i].part = sh[j].part => svc = "telegram" /\ <<sh[i].send, sh[i].part>> \in un
  /\ \A i, j, l \in 1 .. Len(sh) : i < j /\ j < l => 
       ~(/\ sh[i].send = sh[j].send /\ sh[j].send = sh[l].send
         /\ sh[i].part = sh[j].part /\ sh[j].part = sh[l].part)

(* A part that is to be posted once more came once at most, unanswered.    *)
OnceMore(sh, s, p, un) ==
  /\ \A i \in 1 .. Len(sh) : Says(sh, i, s, p) => <<s, p>> \in un
  /\ \A i, j \in 1 .. Len(sh) : i < j => ~(Says(sh, i, s, p) /\ Says(sh, j, s, p))

ShownInv ==
  /\ shown \in Seq(Shows)
  /\ Told(service, shown, tried, unanswered)
  /\ \A s \in Sends : O!Running(s, "plainly") => OnceMore(shown, s, O!Part(s), unanswered)

Fetching == \E s \in Sends : O!Running(s, "refresh") /\ O!Current(s)

Eras == eraOf \in [Sends -> Nat] /\ \A s \in Sends : eraOf[s] <= era

TokenInv ==
  /\ Eras
  /\ refreshes \in Nat /\ expiries \in Nat /\ failures \in Nat
  /\ \A s \in Sends : O!Running(s, "refresh") /\ O!Current(s) => lock = s
  /\ refreshes <= expiries + failures + era + (IF token = "valid" \/ Fetching THEN 1 ELSE 0)

OutboundInv == LinesInv /\ ShownInv /\ TokenInv

LEMMA CardinalityOfO == \A T : O!Cardinality(T) = Cardinality(T)
BY Zenon DEF O!Cardinality, Cardinality

LEMMA Ranks ==
  /\ Rank(O!File(1)) = 0 /\ O!File(1) \in Bits
  /\ \A n \in Nat \ {0} : Rank(O!Text(n)) = n /\ O!Text(n) \in Bits
  /\ \A p \in Bits : /\ Rank(p) \in Nat /\ (p[1] = "file" <=> Rank(p) = 0)
                     /\ (p[1] = "text" <=> Rank(p) # 0) /\ (Rank(p) # 0 => p[2] = Rank(p))
  /\ \A p, q \in Bits : Rank(p) = Rank(q) => p = q
<1>1. Rank(O!File(1)) = 0 /\ O!File(1) \in Bits
  BY DEF Rank, O!File, Bits
<1>2. ASSUME NEW n \in Nat \ {0} PROVE Rank(O!Text(n)) = n /\ O!Text(n) \in Bits
  BY DEF Rank, O!Text, Bits
<1>3. ASSUME NEW p \in Bits
      PROVE  \/ p = O!File(1) /\ p[1] = "file"
             \/ p[1] = "text" /\ \E n \in Nat \ {0} : p = O!Text(n) /\ p[2] = n
  BY DEF Bits, O!File, O!Text
<1>4. \A p \in Bits : /\ Rank(p) \in Nat /\ (p[1] = "file" <=> Rank(p) = 0)
                      /\ (p[1] = "text" <=> Rank(p) # 0) /\ (Rank(p) # 0 => p[2] = Rank(p))
  BY <1>3 DEF Rank
<1>5. \A p, q \in Bits : Rank(p) = Rank(q) => p = q
  BY <1>1, <1>2, <1>3
<1> QED
  BY <1>1, <1>2, <1>4, <1>5

LEMMA PartsAre ==
  ASSUME NEW w \in Wants
  PROVE  /\ PartsOf(w) \subseteq Bits
         /\ \A p \in PartsOf(w) : \/ p = O!File(1) /\ w.files = 1
                                  \/ \E n \in 1 .. w.texts : p = O!Text(n)
         /\ w.files = 1 => O!File(1) \in PartsOf(w)
         /\ \A n \in 1 .. w.texts : O!Text(n) \in PartsOf(w)
<1>1. w.files \in 0 .. 1 /\ w.texts \in Nat
  BY DEF Wants
<1>2. \A n \in 1 .. w.files : n = 1 /\ w.files = 1
  BY <1>1
<1>3. \A n \in 1 .. w.texts : n \in Nat \ {0}
  BY <1>1
<1>4. w.files = 1 => 1 \in 1 .. w.files
  BY <1>1
<1> QED
  BY <1>2, <1>3, <1>4, Ranks DEF PartsOf

LEMMA TailStep ==
  ASSUME NEW S, NEW t \in Seq(S), t # <<>>
  PROVE  /\ Head(t) = t[1] /\ Len(t) \in Nat /\ Len(t) > 0 /\ Tail(t) \in Seq(S)
         /\ Len(Tail(t)) = Len(t) - 1
         /\ \A i \in 1 .. Len(Tail(t)) : i + 1 \in 1 .. Len(t) /\ Tail(t)[i] = t[i + 1]
OBVIOUS

(* The moves of a send: the steps t and the parts d become u and f.        *)
Moves(svc, w, t, d, u, f) ==
  Line(svc, w, u, f) /\ (Covered(svc, w, t, d) => Covered(svc, w, u, f))

IsTail(svc, w, t, d, u, n) ==
  /\ u = Tail(t) /\ n = Len(u) /\ n \in Nat /\ Len(t) = n + 1 /\ Head(t) = t[1] /\ Line(svc, w, u, d)
  /\ \A i \in 1 .. n : i + 1 \in 1 .. Len(t) /\ u[i] = t[i + 1] /\ u[i].do \notin Firsts
  /\ \A i \in 1 .. Len(t) : i # 1 => i - 1 \in 1 .. n /\ u[i - 1] = t[i]

LEMMA TailLine ==
  ASSUME NEW svc, NEW w, NEW t, NEW d, Line(svc, w, t, d), t # <<>>
  PROVE  \E u, n : IsTail(svc, w, t, d, u, n)
<1>1. /\ t \in Seq(Steps) /\ d \subseteq PartsOf(w)
      /\ \A i \in 1 .. Len(t) : Fits(svc, w, t[i]) /\ Follows(t[i], d) /\ (i > 1 => t[i].do \notin Firsts)
      /\ \A i, j \in 1 .. Len(t) :
           i < j /\ t[i].do \in Postings /\ t[j].do \in Postings \cup {"prepare"}
         => Rank(t[i].part) < Rank(t[j].part)
  BY DEF Line
<1>2. /\ Head(t) = t[1] /\ Len(t) \in Nat /\ Len(t) > 0 /\ Tail(t) \in Seq(Steps)
      /\ Len(Tail(t)) = Len(t) - 1
      /\ \A i \in 1 .. Len(Tail(t)) : i + 1 \in 1 .. Len(t) /\ Tail(t)[i] = t[i + 1]
  BY <1>1, TailStep
<1>3. PICK u, n : u = Tail(t) /\ n = Len(u)
  OBVIOUS
<1>4. /\ u \in Seq(Steps) /\ n = Len(u) /\ n \in Nat /\ Len(t) = n + 1
      /\ \A i \in 1 .. n : i + 1 \in 1 .. Len(t) /\ u[i] = t[i + 1]
  BY <1>2, <1>3
<1>5. \A i \in 1 .. n : Fits(svc, w, u[i]) /\ Follows(u[i], d) /\ u[i].do \notin Firsts
  <2> TAKE i \in 1 .. n
  <2>1. i + 1 \in 1 .. Len(t) /\ u[i] = t[i + 1] /\ i + 1 > 1
    BY <1>4
  <2> QED
    BY <1>1, <2>1
<1>6. \A i, j \in 1 .. n : i < j /\ u[i].do \in Postings /\ u[j].do \in Postings \cup {"prepare"}
        => Rank(u[i].part) < Rank(u[j].part)
  <2> SUFFICES ASSUME NEW i \in 1 .. n, NEW j \in 1 .. n, i < j, u[i].do \in Postings, u[j].do \in Postings \cup {"prepare"}
               PROVE  Rank(u[i].part) < Rank(u[j].part)
    OBVIOUS
  <2>1. /\ i + 1 \in 1 .. Len(t) /\ j + 1 \in 1 .. Len(t) /\ i + 1 < j + 1
        /\ u[i] = t[i + 1] /\ u[j] = t[j + 1]
    BY <1>4
  <2> QED
    BY <1>1, <2>1
<1>7. Line(svc, w, u, d)
  BY <1>1, <1>4, <1>5, <1>6 DEF Line
<1>8. ASSUME NEW i \in 1 .. Len(t), i # 1 PROVE i - 1 \in 1 .. n /\ u[i - 1] = t[i]
  <2>1. i - 1 \in 1 .. n /\ (i - 1) + 1 = i
    BY <1>2, <1>4, <1>8
  <2> QED
    BY <1>4, <2>1
<1> QED
  BY <1>1, <1>2, <1>3, <1>4, <1>5, <1>6, <1>7, <1>8 DEF IsTail

LEMMA MoveOn ==
  ASSUME NEW svc, NEW w, NEW t, NEW d, Line(svc, w, t, d), t # <<>>,
         Head(t).do \notin {"post", "again"}
  PROVE  Moves(svc, w, t, d, Tail(t), d)
<1>0. PICK u, n : IsTail(svc, w, t, d, u, n)
  BY TailLine
<1>1. /\ u = Tail(t) /\ n = Len(u) /\ n \in Nat /\ Len(t) = n + 1 /\ Head(t) = t[1] /\ Line(svc, w, u, d)
      /\ \A i \in 1 .. n : i + 1 \in 1 .. Len(t) /\ u[i] = t[i + 1] /\ u[i].do \notin Firsts
      /\ \A i \in 1 .. Len(t) : i # 1 => i - 1 \in 1 .. n /\ u[i - 1] = t[i]
  BY <1>0 DEF IsTail
<1>2. ASSUME NEW p, NEW i \in 1 .. Len(t), Brings(svc, t[i], p)
      PROVE  \E j \in 1 .. n : Brings(svc, u[j], p)
  <2>1. i # 1
    BY <1>1, <1>2 DEF Brings
  <2> QED
    BY <1>1, <1>2, <2>1
<1>3. Covered(svc, w, t, d) => Covered(svc, w, u, d)
  BY <1>1, <1>2 DEF Covered
<1> QED
  BY <1>1, <1>3 DEF Moves

(* A part is posted: with the first text of Discord its file is, too.      *)
Posted(svc, w, d, e) ==
  d \cup {e.part} \cup (IF svc = "discord" /\ e.part = O!Text(1) /\ w.files > 0 THEN {O!File(1)} ELSE {})

LEMMA PostedAre ==
  ASSUME NEW svc, NEW w \in Wants, NEW d, d \subseteq PartsOf(w), NEW e,
         Fits(svc, w, e), e.do \in {"post", "again"}, Follows(e, d)
  PROVE  /\ Posted(svc, w, d, e) \subseteq PartsOf(w) /\ e.part \in Posted(svc, w, d, e)
         /\ e.part \in Bits /\ d \subseteq Posted(svc, w, d, e)
         /\ \A q \in Posted(svc, w, d, e) : Rank(q) <= Rank(e.part)
         /\ \A p \in PartsOf(w) : Brings(svc, e, p) => p \in Posted(svc, w, d, e)
<1>1. e.part \in PartsOf(w) /\ \A q \in d : Rank(q) < Rank(e.part)
  BY DEF Fits, Follows, Postings
<1>2. PartsOf(w) \subseteq Bits
  BY PartsAre
<1>3. w.files \in 0 .. 1
  BY DEF Wants
<1>4. w.files > 0 => O!File(1) \in PartsOf(w)
  <2>1. w.files > 0 => w.files = 1
    BY <1>3
  <2> QED
    BY <2>1, PartsAre
<1>5. \A p \in PartsOf(w) : p = O!File(1) => w.files > 0
  <2>1. w.texts \in Nat
    BY DEF Wants
  <2>2. \A n \in 1 .. w.texts : Rank(O!Text(n)) # Rank(O!File(1))
    BY <2>1, Ranks
  <2>3. w.files = 1 => w.files > 0
    OBVIOUS
  <2> QED
    BY <2>2, <2>3, PartsAre
<1>6. Posted(svc, w, d, e) \subseteq PartsOf(w)
  BY <1>1, <1>4 DEF Posted
<1>7. \A q \in Posted(svc, w, d, e) : Rank(q) <= Rank(e.part)
  <2>1. Rank(e.part) \in Nat /\ \A q \in d : Rank(q) \in Nat
    BY <1>1, <1>2, Ranks
  <2>2. Rank(O!File(1)) <= Rank(e.part) /\ Rank(e.part) <= Rank(e.part)
    BY <2>1, Ranks
  <2>3. \A q \in d : Rank(q) <= Rank(e.part)
    BY <1>1, <2>1
  <2> QED
    BY <2>2, <2>3 DEF Posted
<1>8. \A p \in PartsOf(w) : Brings(svc, e, p) => p \in Posted(svc, w, d, e)
  BY <1>5 DEF Brings, Posted
<1> QED
  BY <1>1, <1>2, <1>6, <1>7, <1>8 DEF Posted

LEMMA TailFollows ==
  ASSUME NEW svc, NEW w \in Wants, NEW t, NEW d, NEW f, Line(svc, w, t, d), t # <<>>,
         Head(t).do \in Postings, f \subseteq PartsOf(w),
         \A q \in f : Rank(q) <= Rank(Head(t).part)
  PROVE  Line(svc, w, Tail(t), f)
<1>0. PICK u, n : IsTail(svc, w, t, d, u, n)
  BY TailLine
<1>1. /\ u = Tail(t) /\ n = Len(u) /\ n \in Nat /\ Len(t) = n + 1 /\ Head(t) = t[1] /\ Line(svc, w, u, d)
      /\ \A i \in 1 .. n : i + 1 \in 1 .. Len(t) /\ u[i] = t[i + 1] /\ u[i].do \notin Firsts
      /\ \A i \in 1 .. Len(t) : i # 1 => i - 1 \in 1 .. n /\ u[i - 1] = t[i]
  BY <1>0 DEF IsTail
<1>2. Fits(svc, w, Head(t)) /\ \A i \in 1 .. n : Fits(svc, w, u[i])
  BY <1>1 DEF Line
<1>3. ASSUME NEW i \in 1 .. n, u[i].do \in Postings \cup {"prepare"}
      PROVE  Rank(Head(t).part) < Rank(u[i].part)
  <2>1. i + 1 \in 1 .. Len(t) /\ 1 \in 1 .. Len(t) /\ 1 < i + 1
    BY <1>1
  <2> QED
    BY <1>1, <1>3, <2>1 DEF Line
<1>4. ASSUME NEW i \in 1 .. n PROVE Follows(u[i], f)
  <2>1. CASE u[i].do \in Postings \cup {"prepare"}
    <3>1. u[i].part \in PartsOf(w) /\ Head(t).part \in PartsOf(w)
      BY <1>2, <2>1 DEF Fits
    <3>2. PartsOf(w) \subseteq Bits
      BY PartsAre
    <3>3. Rank(u[i].part) \in Nat /\ Rank(Head(t).part) \in Nat /\ \A q \in f : Rank(q) \in Nat
      BY <3>1, <3>2, Ranks
    <3>4. \A q \in f : Rank(q) < Rank(u[i].part)
      BY <1>3, <2>1, <3>3
    <3>5. u[i].do # "plainly"
      BY <1>1 DEF Firsts
    <3> QED
      BY <3>4, <3>5 DEF Follows
  <2>2. CASE u[i].do \notin Postings \cup {"prepare"}
    BY <2>2 DEF Follows, Postings
  <2> QED
    BY <2>1, <2>2
<1> QED
  BY <1>1, <1>4 DEF Line

LEMMA HeadLine ==
  ASSUME NEW svc, NEW w, NEW u, NEW f, NEW e \in Steps, Line(svc, w, u, f), Fits(svc, w, e), Follows(e, f),
         \A i \in 1 .. Len(u) : u[i].do \notin Firsts,
         \A i \in 1 .. Len(u) : e.do \in Postings /\ u[i].do \in Postings \cup {"prepare"}
           => Rank(e.part) < Rank(u[i].part)
  PROVE  /\ Line(svc, w, <<e>> \o u, f) /\ Len(<<e>> \o u) = Len(u) + 1 /\ (<<e>> \o u)[1] = e
         /\ \A i \in 1 .. Len(u) : i + 1 \in 1 .. Len(<<e>> \o u) /\ (<<e>> \o u)[i + 1] = u[i]
<1>1. u \in Seq(Steps)
  BY DEF Line
<1>2. PICK t, n : t = <<e>> \o u /\ n = Len(u)
  OBVIOUS
<1>3. /\ t \in Seq(Steps) /\ n \in Nat /\ Len(t) = n + 1 /\ t[1] = e
      /\ \A i \in 1 .. n : t[i + 1] = u[i]
  BY <1>1, <1>2
<1>4. ASSUME NEW i \in 1 .. Len(t), i # 1 PROVE i - 1 \in 1 .. n /\ t[i] = u[i - 1]
  <2>1. i - 1 \in 1 .. n /\ (i - 1) + 1 = i
    BY <1>3, <1>4
  <2> QED
    BY <1>3, <2>1
<1>5. ASSUME NEW i \in 1 .. Len(t)
      PROVE  Fits(svc, w, t[i]) /\ Follows(t[i], f) /\ (i > 1 => t[i].do \notin Firsts)
  <2>1. CASE i = 1
    BY <1>3, <2>1
  <2>2. CASE i # 1
    BY <1>2, <1>4, <2>2 DEF Line
  <2> QED
    BY <2>1, <2>2
<1>6. ASSUME NEW i \in 1 .. Len(t), NEW j \in 1 .. Len(t), i < j, t[i].do \in Postings,
             t[j].do \in Postings \cup {"prepare"}
      PROVE  Rank(t[i].part) < Rank(t[j].part)
  <2>1. j # 1
    BY <1>6
  <2>2. j - 1 \in 1 .. n /\ t[j] = u[j - 1]
    BY <1>4, <2>1
  <2>3. CASE i = 1
    BY <1>2, <1>3, <1>6, <2>2, <2>3
  <2>4. CASE i # 1
    <3>1. i - 1 \in 1 .. n /\ t[i] = u[i - 1]
      BY <1>4, <2>4
    <3>2. i - 1 < j - 1
      BY <1>6
    <3> QED
      BY <1>2, <1>6, <2>2, <3>1, <3>2 DEF Line
  <2> QED
    BY <2>3, <2>4
<1>7. Line(svc, w, t, f)
  BY <1>3, <1>5, <1>6 DEF Line
<1>8. \A i \in 1 .. n : i + 1 \in 1 .. Len(t)
  BY <1>3
<1> QED
  BY <1>2, <1>3, <1>7, <1>8

LEMMA MovePost ==
  ASSUME NEW svc, NEW w \in Wants, NEW t, NEW d, Line(svc, w, t, d), t # <<>>,
         Head(t).do \in {"post", "again"}
  PROVE  Moves(svc, w, t, d, Tail(t), Posted(svc, w, d, Head(t)))
<1>0. PICK u, n : IsTail(svc, w, t, d, u, n)
  BY TailLine
<1>1. /\ u = Tail(t) /\ n = Len(u) /\ n \in Nat /\ Len(t) = n + 1 /\ Head(t) = t[1] /\ Line(svc, w, u, d)
      /\ \A i \in 1 .. n : i + 1 \in 1 .. Len(t) /\ u[i] = t[i + 1] /\ u[i].do \notin Firsts
      /\ \A i \in 1 .. Len(t) : i # 1 => i - 1 \in 1 .. n /\ u[i - 1] = t[i]
  BY <1>0 DEF IsTail
<1>2. 1 \in 1 .. Len(t)
  BY <1>1
<1>3. Fits(svc, w, Head(t)) /\ Follows(Head(t), d) /\ d \subseteq PartsOf(w)
  BY <1>1, <1>2 DEF Line
<1>4. PICK f : f = Posted(svc, w, d, Head(t))
  OBVIOUS
<1>5. /\ f \subseteq PartsOf(w) /\ d \subseteq f /\ \A q \in f : Rank(q) <= Rank(Head(t).part)
      /\ \A p \in PartsOf(w) : Brings(svc, Head(t), p) => p \in f
  BY <1>3, <1>4, PostedAre
<1>6. Line(svc, w, u, f)
  <2>1. Head(t).do \in Postings
    BY DEF Postings
  <2> QED
    BY <1>1, <1>5, <2>1, TailFollows
<1>7. Covered(svc, w, t, d) => Covered(svc, w, u, f)
  <2>1. ASSUME NEW p \in PartsOf(w), NEW i \in 1 .. Len(t), Brings(svc, t[i], p)
        PROVE  p \in f \/ \E j \in 1 .. n : Brings(svc, u[j], p)
    <3>1. CASE i = 1
      BY <1>1, <1>5, <2>1, <3>1
    <3>2. CASE i # 1
      BY <1>1, <2>1, <3>2
    <3> QED
      BY <3>1, <3>2
  <2> QED
    BY <1>1, <1>5, <2>1 DEF Covered
<1> QED
  BY <1>1, <1>4, <1>6, <1>7 DEF Moves

(* The first step is replaced by another one.                              *)
LEMMA MoveHead ==
  ASSUME NEW svc, NEW w \in Wants, NEW t, NEW d, Line(svc, w, t, d), t # <<>>, NEW f, NEW what \in Kinds,
         NEW e, e = [do |-> what, part |-> Head(t).part],
         Fits(svc, w, e), Follows(e, f), d \subseteq f, f \subseteq PartsOf(w),
         \/ f = d /\ Head(t).do = "token" /\ what = "refresh"
         \/ f = d /\ Head(t).do = "post" /\ what = "again"
         \/ f = d \cup {e.part} /\ Head(t).do = "post" /\ what = "plainly" /\ svc = "telegram"
  PROVE  Moves(svc, w, t, d, <<e>> \o Tail(t), f)
<1>0. PICK u, n : IsTail(svc, w, t, d, u, n)
  BY TailLine
<1>1. /\ u = Tail(t) /\ n = Len(u) /\ n \in Nat /\ Len(t) = n + 1 /\ Head(t) = t[1] /\ Line(svc, w, u, d)
      /\ \A i \in 1 .. n : i + 1 \in 1 .. Len(t) /\ u[i] = t[i + 1] /\ u[i].do \notin Firsts
      /\ \A i \in 1 .. Len(t) : i # 1 => i - 1 \in 1 .. n /\ u[i - 1] = t[i]
  BY <1>0 DEF IsTail
<1>2. 1 \in 1 .. Len(t) /\ t[1] \in Steps
  BY <1>1 DEF Line
<1>3. e \in Steps
  BY <1>1, <1>2 DEF Steps
<1>4. ASSUME NEW i \in 1 .. n, e.do \in Postings, u[i].do \in Postings \cup {"prepare"}
      PROVE  Rank(e.part) < Rank(u[i].part)
  <2>1. i + 1 \in 1 .. Len(t) /\ 1 < i + 1 /\ u[i] = t[i + 1]
    BY <1>1
  <2>2. t[1].do \in Postings /\ t[1].part = e.part
    BY <1>1, <1>4 DEF Postings
  <2> QED
    BY <1>2, <1>4, <2>1, <2>2 DEF Line
<1>5. Line(svc, w, u, f)
  <2>1. CASE f = d
    BY <1>1, <2>1
  <2>2. CASE Head(t).do = "post" /\ what = "plainly"
    <3>1. Head(t).do \in Postings /\ \A q \in f : Rank(q) <= Rank(Head(t).part)
      BY <2>2 DEF Follows, Postings
    <3> QED
      BY <1>1, <3>1, TailFollows
  <2> QED
    BY <2>1, <2>2
<1>6. PICK v : v = <<e>> \o u
  OBVIOUS
<1>7. /\ Line(svc, w, v, f) /\ Len(v) = n + 1 /\ v[1] = e
      /\ \A i \in 1 .. n : i + 1 \in 1 .. Len(v) /\ v[i + 1] = u[i]
  <2>1. /\ \A i \in 1 .. Len(u) : u[i].do \notin Firsts
        /\ \A i \in 1 .. Len(u) : e.do \in Postings /\ u[i].do \in Postings \cup {"prepare"}
             => Rank(e.part) < Rank(u[i].part)
    BY <1>1, <1>4
  <2>2. /\ Line(svc, w, <<e>> \o u, f) /\ Len(<<e>> \o u) = Len(u) + 1 /\ (<<e>> \o u)[1] = e
        /\ \A i \in 1 .. Len(u) : i + 1 \in 1 .. Len(<<e>> \o u) /\ (<<e>> \o u)[i + 1] = u[i]
    BY <1>3, <1>5, <2>1, HeadLine
  <2> QED
    BY <1>1, <1>6, <2>2
<1>8. ASSUME NEW p \in PartsOf(w), NEW i \in 1 .. Len(t), Brings(svc, t[i], p)
      PROVE  p \in f \/ \E j \in 1 .. Len(v) : Brings(svc, v[j], p)
  <2>1. CASE i = 1
    <3>1. Head(t).do = "post" /\ what = "plainly" => p = e.part
      BY <1>1, <1>8, <2>1 DEF Brings
    <3>2. Head(t).do = "post" /\ what = "again" => Brings(svc, e, p)
      BY <1>1, <1>8, <2>1 DEF Brings
    <3>3. Head(t).do # "token"
      BY <1>1, <1>8, <2>1 DEF Brings
    <3>4. 1 \in 1 .. Len(v)
      BY <1>1, <1>7
    <3> QED
      BY <1>7, <3>1, <3>2, <3>3, <3>4
  <2>2. CASE i # 1
    <3>1. i - 1 \in 1 .. n /\ u[i - 1] = t[i]
      BY <1>1, <2>2
    <3> QED
      BY <1>7, <1>8, <3>1
  <2> QED
    BY <2>1, <2>2
<1>9. Covered(svc, w, t, d) => Covered(svc, w, v, f)
  BY <1>8 DEF Covered
<1> QED
  BY <1>1, <1>6, <1>7, <1>9 DEF Moves

Parcel(a, b) == O!Posts(O!File, a) \o O!Posts(O!Text, b)

(* What a plan starts with: every part has its turn, or is left out.       *)
Planned(svc, w, u, d) ==
  /\ Line(svc, w, u, d) /\ Covered(svc, w, u, d)
  /\ \A i \in 1 .. Len(u) : u[i].do \notin Firsts

LEMMA ParcelIs ==
  ASSUME NEW a \in 0 .. 1, NEW b \in Nat
  PROVE  /\ Parcel(a, b) \in Seq(Steps) /\ Len(Parcel(a, b)) = a + b
         /\ \A i \in 1 .. a + b : \/ i = 1 /\ a = 1 /\ Parcel(a, b)[i] = [do |-> "post", part |-> O!File(1)]
                                  \/ i > a /\ Parcel(a, b)[i] = [do |-> "post", part |-> O!Text(i - a)]
<1>1. PICK F, T : /\ F = O!Posts(O!File, a) /\ F = [i \in 1 .. a |-> [do |-> "post", part |-> O!File(i)]]
                  /\ T = O!Posts(O!Text, b) /\ T = [i \in 1 .. b |-> [do |-> "post", part |-> O!Text(i)]]
  BY DEF O!Posts
<1>2. \A i \in 1 .. a : i = 1 /\ a = 1
  OBVIOUS
<1>3. \A i \in 1 .. a : F[i] = [do |-> "post", part |-> O!File(1)] /\ F[i] \in Steps
  BY <1>1, <1>2, Ranks DEF Steps, Kinds, Postings
<1>4. \A i \in 1 .. b : T[i] = [do |-> "post", part |-> O!Text(i)] /\ T[i] \in Steps
  BY <1>1, Ranks DEF Steps, Kinds, Postings
<1>5. F \in Seq(Steps) /\ Len(F) = a
  BY <1>1, <1>3
<1>6. T \in Seq(Steps) /\ Len(T) = b
  BY <1>1, <1>4
<1>7. /\ F \o T \in Seq(Steps) /\ Len(F \o T) = a + b
      /\ \A i \in 1 .. a + b : (F \o T)[i] = IF i <= a THEN F[i] ELSE T[i - a]
  BY <1>5, <1>6
<1>8. ASSUME NEW i \in 1 .. a + b
      PROVE  \/ i = 1 /\ a = 1 /\ (F \o T)[i] = [do |-> "post", part |-> O!File(1)]
             \/ i > a /\ (F \o T)[i] = [do |-> "post", part |-> O!Text(i - a)]
  <2>1. CASE i <= a
    <3>1. i \in 1 .. a
      BY <2>1
    <3> QED
      BY <1>2, <1>3, <1>7, <2>1, <3>1
  <2>2. CASE i > a
    <3>1. i - a \in 1 .. b
      BY <2>2
    <3> QED
      BY <1>4, <1>7, <2>2, <3>1
  <2>3. i <= a \/ i > a
    OBVIOUS
  <2> QED
    BY <2>1, <2>2, <2>3
<1> QED
  BY <1>1, <1>7, <1>8 DEF Parcel

LEMMA ParcelLine ==
  ASSUME NEW svc, NEW w \in Wants, NEW a \in 0 .. 1, NEW b \in Nat, b = w.texts, NEW d,
         \/ a = 0 /\ d = {} /\ (w.files = 1 => svc = "discord" /\ b > 0)
         \/ a = w.files /\ d = {} /\ (svc = "discord" => b = 0)
         \/ a = 0 /\ w.files = 1 /\ d = {O!File(1)}
  PROVE  Planned(svc, w, Parcel(a, b), d)
<1>1. PICK u, n : u = Parcel(a, b) /\ n = a + b
  OBVIOUS
<1>2. /\ u \in Seq(Steps) /\ Len(u) = n /\ n \in Nat
      /\ \A i \in 1 .. n : \/ i = 1 /\ a = 1 /\ u[i] = [do |-> "post", part |-> O!File(1)]
                           \/ i > a /\ u[i] = [do |-> "post", part |-> O!Text(i - a)]
  <2>1. /\ Parcel(a, b) \in Seq(Steps) /\ Len(Parcel(a, b)) = a + b
        /\ \A i \in 1 .. a + b : \/ i = 1 /\ a = 1 /\ Parcel(a, b)[i] = [do |-> "post", part |-> O!File(1)]
                                 \/ i > a /\ Parcel(a, b)[i] = [do |-> "post", part |-> O!Text(i - a)]
    BY ParcelIs
  <2>2. n \in Nat
    BY <1>1
  <2> QED
    BY <1>1, <2>1, <2>2
<1>3. w.files \in 0 .. 1
  BY DEF Wants
<1>4. d \subseteq PartsOf(w) /\ (a = 1 => w.files = 1 /\ d = {} /\ O!File(1) \in PartsOf(w))
  BY <1>3, PartsAre
<1>5. ASSUME NEW i \in 1 .. n
      PROVE  /\ u[i].do = "post" /\ u[i].part \in PartsOf(w) /\ Rank(u[i].part) = i - a
             /\ \A q \in d : Rank(q) < i - a
  <2>1. CASE i = 1 /\ a = 1 /\ u[i] = [do |-> "post", part |-> O!File(1)]
    BY <1>4, <2>1, Ranks
  <2>2. CASE i > a /\ u[i] = [do |-> "post", part |-> O!Text(i - a)]
    <3>1. i - a \in 1 .. b /\ i - a \in Nat \ {0} /\ 0 < i - a
      BY <1>1, <2>2
    <3>2. O!Text(i - a) \in PartsOf(w) /\ Rank(O!Text(i - a)) = i - a
      BY <3>1, PartsAre, Ranks
    <3>3. \A q \in d : q = O!File(1)
      OBVIOUS
    <3> QED
      BY <2>2, <3>1, <3>2, <3>3, Ranks
  <2> QED
    BY <1>2, <2>1, <2>2
<1>6. Line(svc, w, u, d)
  <2>1. \A i \in 1 .. n : Fits(svc, w, u[i]) /\ Follows(u[i], d) /\ u[i].do \notin Firsts
    BY <1>5 DEF Fits, Follows, Firsts
  <2>2. \A i, j \in 1 .. n : i < j => Rank(u[i].part) < Rank(u[j].part)
    <3> SUFFICES ASSUME NEW i \in 1 .. n, NEW j \in 1 .. n, i < j
                 PROVE  Rank(u[i].part) < Rank(u[j].part)
      OBVIOUS
    <3>1. Rank(u[i].part) = i - a /\ Rank(u[j].part) = j - a
      BY <1>5
    <3>2. i - a < j - a
      OBVIOUS
    <3> QED
      BY <3>1, <3>2
  <2> QED
    BY <1>2, <1>4, <2>1, <2>2 DEF Line
<1>7. Covered(svc, w, u, d)
  <2>1. ASSUME NEW p \in PartsOf(w), NEW m \in 1 .. w.texts, p = O!Text(m)
        PROVE  \E i \in 1 .. n : Brings(svc, u[i], p)
    <3>1. m + a \in 1 .. n /\ m + a > a /\ (m + a) - a = m /\ ~(m + a = 1 /\ a = 1)
      BY <1>1
    <3>2. u[m + a] = [do |-> "post", part |-> O!Text(m)]
      BY <1>2, <3>1
    <3> QED
      BY <2>1, <3>1, <3>2 DEF Brings
  <2>2. ASSUME NEW p \in PartsOf(w), p = O!File(1), w.files = 1
        PROVE  p \in d \/ \E i \in 1 .. n : Brings(svc, u[i], p)
    <3>1. CASE a = 1
      <4>1. 1 \in 1 .. n
        BY <1>1, <3>1
      <4>2. u[1] = [do |-> "post", part |-> O!File(1)]
        BY <1>2, <3>1, <4>1
      <4> QED
        BY <2>2, <4>1, <4>2 DEF Brings
    <3>2. CASE d = {O!File(1)}
      BY <2>2, <3>2
    <3>3. CASE a = 0 /\ svc = "discord" /\ b > 0
      <4>1. 1 \in 1 .. n /\ 1 > a /\ 1 - a = 1
        BY <1>1, <3>3
      <4>2. u[1] = [do |-> "post", part |-> O!Text(1)]
        BY <1>2, <3>3, <4>1
      <4> QED
        BY <2>2, <3>3, <4>1, <4>2 DEF Brings
    <3> QED
      BY <2>2, <3>1, <3>2, <3>3
  <2> QED
    BY <1>2, <2>1, <2>2, PartsAre DEF Covered
<1> QED
  BY <1>1, <1>2, <1>5, <1>6, <1>7 DEF Planned, Firsts

(* A step before the first post.                                           *)
LEMMA PlanStep ==
  ASSUME NEW svc, NEW w, NEW u, NEW d, Planned(svc, w, u, d), NEW what, NEW p,
         \/ what = "find" /\ svc \in {"discord", "teams"} /\ p = Nobody
         \/ what = "token" /\ svc = "teams" /\ p = Nobody
         \/ what = "prepare" /\ p = O!File(1) /\ p \in PartsOf(w) /\ d = {}
  PROVE  Planned(svc, w, O!Do(what, p) \o u, d)
<1>1. PICK e : e = [do |-> what, part |-> p]
  OBVIOUS
<1>2. /\ e \in Steps /\ e.do \notin Firsts /\ e.do \notin Postings /\ Fits(svc, w, e) /\ Follows(e, d)
  BY <1>1, Ranks DEF Steps, Kinds, Firsts, Postings, Fits, Follows
<1>3. PICK v, n : v = <<e>> \o u /\ n = Len(u)
  OBVIOUS
<1>4. u \in Seq(Steps) /\ n \in Nat
  BY <1>3 DEF Planned, Line
<1>5. /\ Line(svc, w, v, d) /\ Len(v) = n + 1 /\ v[1] = e
      /\ \A i \in 1 .. n : i + 1 \in 1 .. Len(v) /\ v[i + 1] = u[i]
  BY <1>2, <1>3, HeadLine DEF Planned
<1>6. Covered(svc, w, v, d)
  BY <1>3, <1>5 DEF Planned, Covered
<1>7. ASSUME NEW i \in 1 .. Len(v) PROVE v[i].do \notin Firsts
  <2>1. CASE i = 1
    BY <1>2, <1>5, <2>1
  <2>2. CASE i # 1
    <3>1. i - 1 \in 1 .. n /\ (i - 1) + 1 = i
      BY <1>4, <1>5, <2>2
    <3> QED
      BY <1>3, <1>5, <3>1 DEF Planned
  <2> QED
    BY <2>1, <2>2
<1>8. Planned(svc, w, v, d)
  BY <1>5, <1>6, <1>7 DEF Planned
<1> QED
  BY <1>1, <1>3, <1>8 DEF O!Do

LEMMA ParcelSides ==
  /\ \A a \in 0 .. 1 : O!Posts(O!File, a) = Parcel(a, 0)
  /\ \A b \in Nat : O!Posts(O!Text, b) = Parcel(0, b)
<1>1. ASSUME NEW a \in 0 .. 1 PROVE O!Posts(O!File, a) \o O!Posts(O!Text, 0) = O!Posts(O!File, a)
  <2>1. PICK F, T : /\ F = O!Posts(O!File, a) /\ F = [i \in 1 .. a |-> [do |-> "post", part |-> O!File(i)]]
                    /\ T = O!Posts(O!Text, 0) /\ T = [i \in 1 .. 0 |-> [do |-> "post", part |-> O!Text(i)]]
    BY DEF O!Posts
  <2>2. F \in Seq({F[i] : i \in 1 .. a}) /\ T = <<>>
    BY <2>1
  <2>3. F \o <<>> = F
    BY <2>2, ConcatEmptySeq
  <2> QED
    BY <2>1, <2>2, <2>3
<1>2. ASSUME NEW b \in Nat PROVE O!Posts(O!File, 0) \o O!Posts(O!Text, b) = O!Posts(O!Text, b)
  <2>1. PICK F, T : /\ F = O!Posts(O!File, 0) /\ F = [i \in 1 .. 0 |-> [do |-> "post", part |-> O!File(i)]]
                    /\ T = O!Posts(O!Text, b) /\ T = [i \in 1 .. b |-> [do |-> "post", part |-> O!Text(i)]]
    BY DEF O!Posts
  <2>2. T \in Seq({T[i] : i \in 1 .. b}) /\ F = <<>>
    BY <2>1
  <2>3. <<>> \o T = T
    BY <2>2, ConcatEmptySeq
  <2> QED
    BY <2>1, <2>2, <2>3
<1> QED
  BY <1>1, <1>2 DEF Parcel

(* A file that is left out was refused; whatever the service, send() then  *)
(* goes through every part of the response.                                *)
LEMMA PlanCovers ==
  ASSUME service \in O!Services, NEW w \in Wants, NEW fit \in Wants, fit.texts = w.texts, NEW d,
         \/ fit.files = w.files /\ d = {}
         \/ fit.files = 0 /\ w.files = 1 /\ d = {O!File(1)}
  PROVE  Planned(service, w, O!Plan(fit), d)
<1>1. PICK a, b : a = fit.files /\ b = fit.texts
  OBVIOUS
<1>2. a \in 0 .. 1 /\ b \in Nat /\ b = w.texts /\ w.files \in 0 .. 1
  BY <1>1 DEF Wants
<1>3. (a = 0 => O!Posts(O!Text, b) = Parcel(a, b)) /\ (b = 0 => O!Posts(O!File, a) = Parcel(a, b))
  BY <1>2, ParcelSides
<1>4. ASSUME service # "discord" \/ b = 0 PROVE Planned(service, w, Parcel(a, b), d)
  BY <1>1, <1>2, <1>4, ParcelLine
<1>5. a = 1 => w.files = 1 /\ d = {} /\ O!File(1) \in PartsOf(w)
  BY <1>1, <1>2, PartsAre
<1>6. CASE service \in {"telegram", "messenger", "signal"}
  <2>1. O!Plan(fit) = Parcel(a, b)
    BY <1>1, <1>6 DEF O!Plan, O!TelegramSend, O!MessengerSend, O!SignalSend, Parcel
  <2> QED
    BY <1>4, <1>6, <2>1
<1>7. CASE service = "discord"
  <2>1. O!Plan(fit) = O!Do("find", Nobody) \o (IF b = 0 THEN O!Posts(O!File, a) ELSE O!Posts(O!Text, b))
    BY <1>1, <1>7 DEF O!Plan, O!DiscordSend
  <2>2. CASE b = 0
    <3>1. O!Plan(fit) = O!Do("find", Nobody) \o Parcel(a, b)
      BY <1>3, <2>1, <2>2
    <3> QED
      BY <1>4, <1>7, <2>2, <3>1, PlanStep
  <2>3. CASE b # 0
    <3>1. O!Plan(fit) = O!Do("find", Nobody) \o Parcel(0, b)
      BY <1>2, <2>1, <2>3, ParcelSides
    <3>2. Planned(service, w, Parcel(0, b), d)
      <4>1. b > 0 /\ 0 \in 0 .. 1
        BY <1>2, <2>3
      <4> QED
        BY <1>1, <1>2, <1>7, <4>1, ParcelLine
    <3> QED
      BY <1>7, <3>1, <3>2, PlanStep
  <2> QED
    BY <2>2, <2>3
<1>8. CASE service = "teams"
  <2>1. PICK p : p = Parcel(a, b)
    OBVIOUS
  <2>2. Planned(service, w, O!Do("token", Nobody) \o p, d)
    BY <1>4, <1>8, <2>1, PlanStep
  <2>3. Planned(service, w, O!Do("find", Nobody) \o (O!Do("token", Nobody) \o p), d)
    BY <1>8, <2>2, PlanStep
  <2>4. O!Plan(fit) = O!Do("find", Nobody) \o O!Do("token", Nobody) \o O!Posts(O!File, a) \o O!Posts(O!Text, b)
    BY <1>1, <1>8 DEF O!Plan, O!TeamsSend
  <2>5. O!Plan(fit) = O!Do("find", Nobody) \o (O!Do("token", Nobody) \o p)
    BY <2>1, <2>4, ConcatAssociative DEF Parcel, O!Do
  <2> QED
    BY <2>3, <2>5
<1>9. CASE service \in {"whatsapp", "slack"}
  <2>1. CASE a = 0
    <3>1. O!Plan(fit) = <<>> \o O!Posts(O!Text, b)
      BY <1>1, <1>9, <2>1 DEF O!Plan, O!WhatsAppSend, O!SlackSend
    <3>2. O!Posts(O!File, 0) = <<>>
      BY DEF O!Posts
    <3>3. O!Plan(fit) = Parcel(a, b)
      BY <2>1, <3>1, <3>2 DEF Parcel
    <3> QED
      BY <1>4, <1>9, <3>3
  <2>2. CASE a = 1
    <3>1. PICK x, F, T : x = O!Do("prepare", O!File(1)) /\ F = O!Posts(O!File, 1) /\ T = O!Posts(O!Text, b)
      OBVIOUS
    <3>2. x \in Seq(Steps) /\ F \in Seq(Steps) /\ T \in Seq(Steps)
      <4>1. F = Parcel(1, 0) /\ T = Parcel(0, b)
        BY <1>2, <3>1, ParcelSides
      <4>2. Parcel(1, 0) \in Seq(Steps) /\ Parcel(0, b) \in Seq(Steps)
        <5>1. PICK i, j \in 0 .. 1 : i = 1 /\ j = 0
          OBVIOUS
        <5>2. Parcel(i, j) \in Seq(Steps) /\ Parcel(j, b) \in Seq(Steps)
          <6>1. j \in Nat
            OBVIOUS
          <6> QED
            BY <1>2, <6>1, ParcelIs
        <5> QED
          BY <5>1, <5>2
      <4>3. [do |-> "prepare", part |-> O!File(1)] \in Steps
        BY Ranks DEF Steps, Kinds
      <4> QED
        BY <3>1, <4>1, <4>2, <4>3 DEF O!Do
    <3>3. Planned(service, w, F \o T, d)
      BY <1>4, <1>9, <2>2, <3>1 DEF Parcel
    <3>4. Planned(service, w, x \o (F \o T), d)
      BY <1>5, <2>2, <3>1, <3>3, PlanStep
    <3>5. Planned(service, w, x \o (x \o (F \o T)), d)
      BY <1>5, <2>2, <3>1, <3>4, PlanStep
    <3>6. (x \o F) \o T = x \o (F \o T) /\ (x \o x \o F) \o T = x \o (x \o (F \o T))
      <4>1. (x \o F) \o T = x \o (F \o T) /\ F \o T \in Seq(Steps) /\ x \o x \in Seq(Steps)
        BY <3>2, ConcatAssociative
      <4>2. ((x \o x) \o F) \o T = (x \o x) \o (F \o T)
        BY <3>2, <4>1, ConcatAssociative
      <4>3. (x \o x) \o (F \o T) = x \o (x \o (F \o T))
        BY <3>2, <4>1, ConcatAssociative
      <4> QED
        BY <4>1, <4>2, <4>3
    <3>7. fit.files # 0 /\ fit.texts = b
      BY <1>1, <2>2
    <3>8. CASE service = "whatsapp"
      <4>1. O!Plan(fit) = (x \o F) \o T
        BY <3>1, <3>7, <3>8 DEF O!Plan, O!WhatsAppSend
      <4> QED
        BY <3>4, <3>6, <4>1
    <3>9. CASE service = "slack"
      <4>1. O!Plan(fit) = (x \o x \o F) \o T
        BY <3>1, <3>7, <3>9 DEF O!Plan, O!SlackSend
      <4> QED
        BY <3>5, <3>6, <4>1
    <3> QED
      BY <1>9, <3>8, <3>9
  <2> QED
    BY <1>2, <2>1, <2>2
<1> QED
  BY <1>6, <1>7, <1>8, <1>9 DEF O!Services

-----------------------------------------------------------------------------
LEMMA TailRests ==
  ASSUME NEW svc, NEW w, NEW t, NEW d, Line(svc, w, t, d), t # <<>>
  PROVE  Tail(t) # <<>> => Head(Tail(t)).do \notin Firsts
<1>1. PICK u, n : IsTail(svc, w, t, d, u, n)
  BY TailLine
<1>2. u \in Seq(Steps) /\ u = Tail(t) /\ n = Len(u) /\ \A i \in 1 .. n : u[i].do \notin Firsts
  BY <1>1 DEF IsTail, Line
<1>3. ASSUME u # <<>> PROVE 1 \in 1 .. n /\ Head(u) = u[1]
  BY <1>2, <1>3
<1> QED
  BY <1>2, <1>3

LEMMA PlanRests ==
  ASSUME NEW svc, NEW w, NEW t, NEW d, Planned(svc, w, t, d)
  PROVE  t # <<>> => Head(t).do \notin Firsts
<1>1. t \in Seq(Steps) /\ \A i \in 1 .. Len(t) : t[i].do \notin Firsts
  BY DEF Planned, Line
<1>2. ASSUME t # <<>> PROVE 1 \in 1 .. Len(t) /\ Head(t) = t[1]
  BY <1>1, <1>2
<1> QED
  BY <1>1, <1>2

LEMMA LinesMove ==
  ASSUME LinesInv, NEW s \in Sends, NEW t, NEW d,
         O!Proceed(s, t), tried' = [tried EXCEPT ![s] = d], cut \subseteq cut', cut' \subseteq cut \cup {s},
         UNCHANGED <<service, wanted, up, era>>,
         Line(service, wanted[s], t, d), s \notin cut' => Covered(service, wanted[s], t, d),
         cut' # cut => era > 0 \/ service \in {"discord", "teams", "signal"}
  PROVE  LinesInv'
<1>1. /\ todo' = [todo EXCEPT ![s] = t]
      /\ state' = [state EXCEPT ![s] = IF t = <<>> THEN "ended" ELSE "running"]
  BY DEF O!Proceed
<1>2. t \in Seq(Steps) /\ d \subseteq Bits
  <2>1. wanted[s] \in Wants
    BY DEF LinesInv
  <2> QED
    BY <2>1, PartsAre DEF Line
<1>3. /\ todo' \in [Sends -> Seq(Steps)] /\ state' \in [Sends -> {"idle", "running", "ended"}]
      /\ tried' \in [Sends -> SUBSET Bits]
  BY <1>1, <1>2 DEF LinesInv
<1>4. ASSUME NEW u \in Sends
      PROVE  /\ Line(service, wanted[u], todo'[u], tried'[u])
             /\ state'[u] = "running" <=> todo'[u] # <<>>
             /\ state'[u] = "idle" => tried'[u] = {}
             /\ state'[u] # "idle" /\ u \notin cut' => Covered(service, wanted[u], todo'[u], tried'[u])
  <2>1. CASE u = s
    <3>1. todo'[u] = t /\ tried'[u] = d /\ state'[u] = IF t = <<>> THEN "ended" ELSE "running"
      BY <1>1, <2>1 DEF LinesInv
    <3> QED
      BY <2>1, <3>1
  <2>2. CASE u # s
    <3>1. todo'[u] = todo[u] /\ tried'[u] = tried[u] /\ state'[u] = state[u]
      BY <1>1, <2>2 DEF LinesInv
    <3> QED
      BY <2>2, <3>1 DEF LinesInv
  <2> QED
    BY <2>1, <2>2
<1>5. cut' \subseteq Sends /\ (cut' # {} => era > 0 \/ service \in {"discord", "teams", "signal"})
  BY DEF LinesInv
<1> QED
  BY <1>3, <1>4, <1>5 DEF LinesInv

LEMMA OthersRun ==
  ASSUME LinesInv, NEW s \in Sends, NEW t, O!Proceed(s, t), NEW what
  PROVE  /\ \A u \in Sends : u # s => /\ O!Running(u, what)' <=> O!Running(u, what)
                                      /\ O!Part(u)' = O!Part(u)
         /\ O!Running(s, what)' <=> t # <<>> /\ Head(t).do = what
         /\ O!Part(s)' = Head(t).part
<1>1. /\ todo' = [todo EXCEPT ![s] = t]
      /\ state' = [state EXCEPT ![s] = IF t = <<>> THEN "ended" ELSE "running"]
      /\ DOMAIN todo = Sends /\ DOMAIN state = Sends
  BY DEF O!Proceed, LinesInv
<1>2. \A u \in Sends : u # s => todo'[u] = todo[u] /\ state'[u] = state[u]
  BY <1>1
<1>3. todo'[s] = t /\ state'[s] = IF t = <<>> THEN "ended" ELSE "running"
  BY <1>1
<1> QED
  BY <1>2, <1>3, Zenon DEF O!Running, O!Part

LEMMA ShownStays ==
  ASSUME LinesInv, ShownInv, NEW s \in Sends, NEW t, NEW d,
         O!Proceed(s, t), tried' = [tried EXCEPT ![s] = d], tried[s] \subseteq d,
         UNCHANGED <<service, shown>>, unanswered \subseteq unanswered',
         t # <<>> /\ Head(t).do = "plainly" => OnceMore(shown, s, Head(t).part, unanswered')
  PROVE  ShownInv'
<1>1. \A u \in Sends : tried[u] \subseteq tried'[u]
  BY DEF LinesInv
<1>2. \A i \in 1 .. Len(shown) : shown[i].send \in Sends
  <2>1. \A i \in 1 .. Len(shown) : shown[i] \in Shows
    BY ElementOfSeq DEF ShownInv
  <2> QED
    BY <2>1 DEF Shows
<1>3. Told(service, shown, tried', unanswered')
  BY <1>1, <1>2 DEF Told, ShownInv
<1>4. ASSUME NEW u \in Sends, O!Running(u, "plainly")' PROVE OnceMore(shown, u, O!Part(u)', unanswered')
  <2>1. CASE u = s
    BY <1>4, <2>1, OthersRun
  <2>2. CASE u # s
    <3>1. O!Running(u, "plainly") /\ O!Part(u)' = O!Part(u)
      BY <1>4, <2>2, OthersRun
    <3>2. OnceMore(shown, u, O!Part(u), unanswered)
      BY <3>1 DEF ShownInv
    <3> QED
      BY <3>1, <3>2 DEF OnceMore
  <2> QED
    BY <2>1, <2>2
<1> QED
  BY <1>3, <1>4 DEF ShownInv

LEMMA AppendStep ==
  ASSUME NEW S, NEW t \in Seq(S), NEW e \in S
  PROVE  /\ Append(t, e) \in Seq(S) /\ Len(t) \in Nat /\ Len(Append(t, e)) = Len(t) + 1
         /\ Append(t, e)[Len(t) + 1] = e
         /\ \A i \in 1 .. Len(t) : Append(t, e)[i] = t[i] /\ i \in 1 .. Len(t) + 1 /\ i < Len(t) + 1
         /\ \A i \in 1 .. Len(t) + 1 : i = Len(t) + 1 \/ i \in 1 .. Len(t)
OBVIOUS

LEMMA TokenStays ==
  ASSUME LinesInv, TokenInv, NEW s \in Sends, NEW t, O!Proceed(s, t),
         t # <<>> => Head(t).do # "refresh",
         ~(O!Running(s, "refresh") /\ O!Current(s)),
         \A u \in Sends : u # s => eraOf'[u] = eraOf[u], Eras',
         UNCHANGED <<era, token, lock, refreshes, expiries, failures>>
  PROVE  TokenInv'
<1>1. \A u \in Sends : (O!Running(u, "refresh") /\ O!Current(u))' <=> O!Running(u, "refresh") /\ O!Current(u)
  <2> TAKE u \in Sends
  <2>1. CASE u = s
    BY <2>1, OthersRun
  <2>2. CASE u # s
    <3>1. O!Running(u, "refresh")' <=> O!Running(u, "refresh")
      BY <2>2, OthersRun
    <3>2. O!Current(u)' <=> O!Current(u)
      BY <2>2 DEF O!Current
    <3> QED
      BY <3>1, <3>2
  <2> QED
    BY <2>1, <2>2
<1>2. Fetching' <=> Fetching
  BY <1>1, Zenon DEF Fetching
<1>3. \A u \in Sends : (O!Running(u, "refresh") /\ O!Current(u))' => lock' = u
  BY <1>1 DEF TokenInv
<1>4. (token' = "valid" \/ Fetching') <=> (token = "valid" \/ Fetching)
  BY <1>2
<1>5. refreshes' <= expiries' + failures' + era' + (IF token' = "valid" \/ Fetching' THEN 1 ELSE 0)
  BY <1>4 DEF TokenInv
<1> QED
  BY <1>3, <1>5 DEF TokenInv

LEMMA ToldGrows ==
  ASSUME NEW svc, NEW sh \in Seq(Shows), NEW d, NEW f, NEW un, NEW more, Told(svc, sh, d, un),
         NEW e \in Shows, un \subseteq more,
         \A u \in Sends : d[u] \subseteq f[u], e.part \in f[e.send],
         \A q \in d[e.send] : Rank(q) <= Rank(e.part),
         e.as # e.part => svc = "telegram" /\ e.as = O!Text(1),
         \A i \in 1 .. Len(sh) : Says(sh, i, e.send, e.part) => svc = "telegram",
         OnceMore(sh, e.send, e.part, more)
  PROVE  Told(svc, Append(sh, e), f, more)
<1>1. PICK t, n : t = Append(sh, e) /\ n = Len(sh)
  OBVIOUS
<1>2. /\ n \in Nat /\ Len(t) = n + 1 /\ t[n + 1] = e
      /\ \A i \in 1 .. n : t[i] = sh[i] /\ t[i] \in Shows /\ i \in 1 .. n + 1 /\ i < n + 1
      /\ \A i \in 1 .. n + 1 : i = n + 1 \/ i \in 1 .. n
  <2>1. \A i \in 1 .. n : sh[i] \in Shows
    BY <1>1, ElementOfSeq
  <2> QED
    BY <1>1, <2>1, AppendStep
<1>3. /\ \A i \in 1 .. n : t[i].send \in Sends /\ t[i].part \in Bits
      /\ e.send \in Sends /\ e.part \in Bits
  BY <1>2 DEF Shows
<1>4. ASSUME NEW i \in 1 .. n
      PROVE  t[i].part \in d[t[i].send] /\ (t[i].as # t[i].part => svc = "telegram" /\ t[i].as = O!Text(1))
  BY <1>1, <1>2, <1>4 DEF Told
<1>5. \A i \in 1 .. n + 1 : /\ t[i].part \in f[t[i].send]
                            /\ t[i].as # t[i].part => svc = "telegram" /\ t[i].as = O!Text(1)
  BY <1>2, <1>3, <1>4
<1>6. ASSUME NEW i \in 1 .. n + 1, NEW j \in 1 .. n + 1, i < j, t[i].send = t[j].send
      PROVE  /\ Rank(t[i].part) <= Rank(t[j].part)
             /\ t[i].part = t[j].part => svc = "telegram" /\ <<t[i].send, t[i].part>> \in more
  <2>1. i \in 1 .. n
    BY <1>2, <1>6
  <2>2. CASE j \in 1 .. n
    BY <1>1, <1>2, <1>6, <2>1, <2>2 DEF Told
  <2>3. CASE j = n + 1
    <3>1. Rank(t[i].part) <= Rank(e.part)
      BY <1>2, <1>4, <1>6, <2>1, <2>3
    <3>2. t[i].part = e.part => Says(sh, i, e.send, e.part)
      BY <1>1, <1>2, <1>6, <2>1, <2>3 DEF Says
    <3> QED
      BY <1>1, <1>2, <1>6, <2>1, <2>3, <3>1, <3>2 DEF OnceMore
  <2> QED
    BY <1>2, <2>2, <2>3
<1>7. ASSUME NEW i \in 1 .. n + 1, NEW j \in 1 .. n + 1, NEW l \in 1 .. n + 1, i < j, j < l,
             t[i].send = t[j].send, t[j].send = t[l].send, t[i].part = t[j].part, t[j].part = t[l].part
      PROVE  FALSE
  <2>1. i \in 1 .. n /\ j \in 1 .. n
    BY <1>2, <1>7
  <2>2. CASE l \in 1 .. n
    BY <1>1, <1>2, <1>7, <2>1, <2>2 DEF Told
  <2>3. CASE l = n + 1
    <3>1. Says(sh, i, e.send, e.part) /\ Says(sh, j, e.send, e.part)
      BY <1>1, <1>2, <1>7, <2>1, <2>3 DEF Says
    <3> QED
      BY <1>1, <1>7, <2>1, <3>1 DEF OnceMore
  <2> QED
    BY <1>2, <2>2, <2>3
<1>8. Told(svc, t, f, more)
  BY <1>2, <1>5, <1>6, <1>7 DEF Told
<1> QED
  BY <1>1, <1>8

LEMMA OnceMoreGrows ==
  ASSUME NEW sh \in Seq(Shows), NEW e \in Shows, NEW s, NEW p, NEW un, NEW more, un \subseteq more,
         \/ e.send # s /\ OnceMore(sh, s, p, un)
         \/ (\A i \in 1 .. Len(sh) : ~Says(sh, i, s, p)) /\ <<s, p>> \in more
  PROVE  OnceMore(Append(sh, e), s, p, more)
<1>1. PICK t, n : t = Append(sh, e) /\ n = Len(sh)
  OBVIOUS
<1>2. /\ n \in Nat /\ Len(t) = n + 1 /\ t[n + 1] = e
      /\ \A i \in 1 .. n : t[i] = sh[i]
      /\ \A i \in 1 .. n + 1 : i = n + 1 \/ i \in 1 .. n
  BY <1>1, AppendStep
<1>3. \A i \in 1 .. n : Says(t, i, s, p) <=> Says(sh, i, s, p)
  BY <1>2 DEF Says
<1>4. CASE e.send # s /\ OnceMore(sh, s, p, un)
  <2>1. ~Says(t, n + 1, s, p)
    BY <1>2, <1>4 DEF Says
  <2> QED
    BY <1>1, <1>2, <1>3, <1>4, <2>1 DEF OnceMore
<1>5. CASE (\A i \in 1 .. Len(sh) : ~Says(sh, i, s, p)) /\ <<s, p>> \in more
  <2>1. \A i \in 1 .. n + 1 : Says(t, i, s, p) => i = n + 1
    BY <1>1, <1>2, <1>3, <1>5
  <2>2. \A i, j \in 1 .. n + 1 : i < j => ~(Says(t, i, s, p) /\ Says(t, j, s, p))
    BY <1>2, <2>1
  <2> QED
    BY <1>1, <1>2, <1>5, <2>2 DEF OnceMore
<1> QED
  BY <1>4, <1>5

LEMMA ShownGrows ==
  ASSUME LinesInv, ShownInv, NEW s \in Sends, NEW t, NEW d, NEW as \in Bits, NEW p \in Bits, p = O!Part(s),
         O!Proceed(s, t), tried' = [tried EXCEPT ![s] = d], tried[s] \subseteq d, p \in d,
         \A q \in tried[s] : Rank(q) <= Rank(p),
         service' = service, unanswered \subseteq unanswered', O!Reaches(s, as),
         as # p => service = "telegram" /\ as = O!Text(1),
         \A i \in 1 .. Len(shown) : Says(shown, i, s, p) => service = "telegram",
         OnceMore(shown, s, p, unanswered'),
         \/ ~(t # <<>> /\ Head(t).do = "plainly")
         \/ /\ Head(t).part = p /\ <<s, p>> \in unanswered'
            /\ \A i \in 1 .. Len(shown) : ~Says(shown, i, s, p)
  PROVE  ShownInv'
<1>1. PICK e : e = [as |-> as, part |-> p, send |-> s]
  OBVIOUS
<1>2. e \in Shows /\ e.as = as /\ e.part = p /\ e.send = s /\ shown' = Append(shown, e) /\ shown \in Seq(Shows)
  BY <1>1 DEF Shows, O!Reaches, ShownInv
<1>3. \A u \in Sends : tried[u] \subseteq tried'[u]
  BY DEF LinesInv
<1>4. tried'[s] = d
  BY DEF LinesInv
<1>5. Told(service, Append(shown, e), tried', unanswered')
  BY <1>2, <1>3, <1>4, ToldGrows DEF ShownInv
<1>6. ASSUME NEW u \in Sends, O!Running(u, "plainly")'
      PROVE  OnceMore(shown', u, O!Part(u)', unanswered')
  <2>1. CASE u = s
    <3>1. t # <<>> /\ Head(t).do = "plainly" /\ O!Part(u)' = Head(t).part
      BY <1>6, <2>1, OthersRun
    <3>2. OnceMore(Append(shown, e), s, p, unanswered')
      BY <1>2, <3>1, OnceMoreGrows
    <3> QED
      BY <1>2, <2>1, <3>1, <3>2
  <2>2. CASE u # s
    <3>1. O!Running(u, "plainly") /\ O!Part(u)' = O!Part(u)
      BY <1>6, <2>2, OthersRun
    <3>2. OnceMore(shown, u, O!Part(u), unanswered)
      BY <3>1 DEF ShownInv
    <3>3. OnceMore(Append(shown, e), u, O!Part(u), unanswered')
      BY <1>2, <2>2, <3>2, OnceMoreGrows
    <3> QED
      BY <1>2, <3>1, <3>3
  <2> QED
    BY <2>1, <2>2
<1>7. shown' \in Seq(Shows)
  BY <1>2, AppendStep
<1> QED
  BY <1>2, <1>5, <1>6, <1>7 DEF ShownInv

LEMMA AtHead ==
  ASSUME LinesInv, NEW s \in Sends, NEW what, O!Running(s, what)
  PROVE  /\ todo[s] # <<>> /\ Head(todo[s]).do = what /\ Head(todo[s]) \in Steps
         /\ wanted[s] \in Wants /\ Line(service, wanted[s], todo[s], tried[s])
         /\ Fits(service, wanted[s], Head(todo[s])) /\ Follows(Head(todo[s]), tried[s])
         /\ tried = [tried EXCEPT ![s] = tried[s]] /\ tried[s] \subseteq PartsOf(wanted[s])
         /\ s \notin cut => Covered(service, wanted[s], todo[s], tried[s])
         /\ \A other : other # what => ~O!Running(s, other)
<1>1. state[s] = "running" /\ Head(todo[s]).do = what
  BY DEF O!Running
<1>2. /\ todo[s] # <<>> /\ wanted[s] \in Wants /\ Line(service, wanted[s], todo[s], tried[s])
      /\ s \notin cut => Covered(service, wanted[s], todo[s], tried[s])
  BY <1>1 DEF LinesInv
<1>3. PICK t : t = todo[s]
  OBVIOUS
<1>4. t \in Seq(Steps) /\ 1 \in 1 .. Len(t) /\ Head(t) = t[1] /\ t[1] \in Steps
  BY <1>2, <1>3 DEF Line
<1>5. Fits(service, wanted[s], t[1]) /\ Follows(t[1], tried[s]) /\ tried[s] \subseteq PartsOf(wanted[s])
  BY <1>2, <1>3, <1>4 DEF Line
<1>6. tried = [tried EXCEPT ![s] = tried[s]]
  BY DEF LinesInv
<1>7. \A other : other # what => ~O!Running(s, other)
  BY <1>1 DEF O!Running
<1> QED
  BY <1>1, <1>2, <1>3, <1>4, <1>5, <1>6, <1>7

(* A part is posted, and may have reached the chat.                        *)
LEMMA PostedTells ==
  ASSUME LinesInv, ShownInv, NEW s \in Sends, NEW what \in {"post", "again"}, O!Running(s, what), O!Tried(s),
         NEW t, O!Proceed(s, t), service' = service, unanswered \subseteq unanswered',
         UNCHANGED shown \/ O!Reaches(s, O!Part(s)),
         t # <<>> /\ Head(t).do = "plainly"
           => Head(t).part = O!Part(s) /\ (shown' # shown => <<s, O!Part(s)>> \in unanswered')
  PROVE  /\ ShownInv' /\ O!Part(s) \in Bits
         /\ \E d : /\ d = Posted(service, wanted[s], tried[s], Head(todo[s]))
                   /\ tried' = [tried EXCEPT ![s] = d] /\ d \subseteq PartsOf(wanted[s])
<1>1. /\ Head(todo[s]).do = what /\ wanted[s] \in Wants /\ tried[s] \subseteq PartsOf(wanted[s])
      /\ Fits(service, wanted[s], Head(todo[s])) /\ Follows(Head(todo[s]), tried[s])
  BY AtHead
<1>2. PICK e, p, d : e = Head(todo[s]) /\ p = e.part /\ d = Posted(service, wanted[s], tried[s], e)
  OBVIOUS
<1>3. /\ d \subseteq PartsOf(wanted[s]) /\ p \in d /\ p \in Bits /\ tried[s] \subseteq d
      /\ \A q \in tried[s] : Rank(q) < Rank(p)
  BY <1>1, <1>2, PostedAre DEF Follows
<1>4. tried' = [tried EXCEPT ![s] = d] /\ p = O!Part(s)
  BY <1>2 DEF O!Tried, O!Part, Posted
<1>5. \A i \in 1 .. Len(shown) : ~Says(shown, i, s, p)
  <2> SUFFICES ASSUME NEW i \in 1 .. Len(shown), Says(shown, i, s, p) PROVE FALSE
    OBVIOUS
  <2>1. p \in tried[s]
    BY DEF ShownInv, Told, Says
  <2>2. Rank(p) \in Nat
    BY <1>3, Ranks
  <2> QED
    BY <1>3, <2>1, <2>2
<1>6. OnceMore(shown, s, p, unanswered')
  BY <1>5 DEF OnceMore
<1>7. ShownInv'
  <2>1. CASE UNCHANGED shown
    BY <1>3, <1>4, <1>6, <2>1, ShownStays
  <2>2. CASE shown' # shown /\ O!Reaches(s, p)
    <3>1. \A q \in tried[s] : Rank(q) <= Rank(p)
      <4>1. tried[s] \subseteq Bits
        BY <1>1, PartsAre
      <4> QED
        BY <1>3, <4>1, Ranks
    <3> QED
      BY <1>3, <1>4, <1>5, <1>6, <2>2, <3>1, ShownGrows
  <2> QED
    BY <1>4, <2>1, <2>2
<1> QED
  BY <1>2, <1>3, <1>4, <1>7

LEMMA SkipKeeps ==
  ASSUME OutboundInv, NEW s \in Sends, NEW what, O!Running(s, what), what \notin {"post", "again", "refresh"},
         O!Proceed(s, Tail(todo[s])),
         UNCHANGED <<service, wanted, up, era, eraOf, token, lock, refreshes, expiries, failures, tried, shown,
                     unanswered, cut>>
  PROVE  OutboundInv'
<1>1. LinesInv /\ ShownInv /\ TokenInv
  BY DEF OutboundInv
<1>2. /\ todo[s] # <<>> /\ wanted[s] \in Wants /\ Line(service, wanted[s], todo[s], tried[s])
      /\ Head(todo[s]).do = what
      /\ tried = [tried EXCEPT ![s] = tried[s]]
      /\ s \notin cut => Covered(service, wanted[s], todo[s], tried[s])
      /\ ~O!Running(s, "refresh")
  BY <1>1, AtHead
<1>3. PICK t : t = Tail(todo[s])
  OBVIOUS
<1>4. Moves(service, wanted[s], todo[s], tried[s], t, tried[s])
  BY <1>2, <1>3, MoveOn
<1>5. t # <<>> => Head(t).do \notin Firsts
  BY <1>2, <1>3, TailRests
<1>6. LinesInv'
  BY <1>1, <1>2, <1>3, <1>4, LinesMove DEF Moves
<1>7. ShownInv'
  BY <1>1, <1>2, <1>3, <1>5, ShownStays DEF Firsts
<1>8. TokenInv'
  <2>1. Eras'
    BY <1>1 DEF TokenInv, Eras
  <2> QED
    BY <1>1, <1>2, <1>3, <1>5, <2>1, TokenStays DEF Firsts
<1> QED
  BY <1>6, <1>7, <1>8 DEF OutboundInv

LEMMA GiveUpKeeps ==
  ASSUME OutboundInv, NEW s \in Sends, O!GiveUp(s), NEW d, tried' = [tried EXCEPT ![s] = d],
         d \subseteq PartsOf(wanted[s]), UNCHANGED <<service, wanted, up, era>>,
         era > 0 \/ service \in {"discord", "teams", "signal"}
  PROVE  LinesInv' /\ O!Proceed(s, <<>>)
<1>1. LinesInv
  BY DEF OutboundInv
<1>2. O!Proceed(s, <<>>) /\ cut' = cut \cup {s}
  BY DEF O!GiveUp
<1>3. Line(service, wanted[s], <<>>, d)
  BY DEF Line
<1> QED
  BY <1>1, <1>2, <1>3, LinesMove

LEMMA FindKeeps ==
  ASSUME OutboundInv, NEW s \in Sends, NEW ok, O!Find(s, ok)
  PROVE  OutboundInv'
<1>1. LinesInv /\ ShownInv /\ TokenInv
  BY DEF OutboundInv
<1>2. /\ O!Running(s, "find")
      /\ UNCHANGED <<service, wanted, up, era, eraOf, token, lock, refreshes, expiries, failures, tried, shown,
                     unanswered>>
      /\ (O!Proceed(s, Tail(todo[s])) /\ UNCHANGED cut) \/ O!GiveUp(s)
  BY DEF O!Find, O!tokens
<1>3. /\ todo[s] # <<>> /\ wanted[s] \in Wants /\ Line(service, wanted[s], todo[s], tried[s])
      /\ Head(todo[s]).do = "find" /\ Fits(service, wanted[s], Head(todo[s]))
      /\ tried = [tried EXCEPT ![s] = tried[s]] /\ tried[s] \subseteq PartsOf(wanted[s])
      /\ s \notin cut => Covered(service, wanted[s], todo[s], tried[s])
      /\ ~O!Running(s, "refresh")
  BY <1>1, <1>2, AtHead
<1>4. CASE O!Proceed(s, Tail(todo[s])) /\ UNCHANGED cut
  BY <1>1, <1>2, <1>3, <1>4, SkipKeeps
<1>5. CASE O!GiveUp(s)
  <2>1. LinesInv' /\ O!Proceed(s, <<>>)
    BY <1>1, <1>2, <1>3, <1>5, GiveUpKeeps DEF Fits
  <2>2. ShownInv'
    BY <1>1, <1>2, <1>3, <2>1, ShownStays
  <2>3. TokenInv'
    <3>1. Eras'
      BY <1>1, <1>2 DEF TokenInv, Eras
    <3> QED
      BY <1>1, <1>2, <1>3, <2>1, <3>1, TokenStays
  <2> QED
    BY <2>1, <2>2, <2>3 DEF OutboundInv
<1> QED
  BY <1>2, <1>4, <1>5

LEMMA PostSkips ==
  ASSUME OutboundInv, NEW s \in Sends, NEW what \in {"post", "again"}, O!Running(s, what), O!Tried(s),
         O!Proceed(s, Tail(todo[s])), unanswered \subseteq unanswered',
         UNCHANGED shown \/ O!Reaches(s, O!Part(s)),
         UNCHANGED <<service, wanted, up, era, eraOf, token, lock, refreshes, expiries, failures, cut>>
  PROVE  OutboundInv'
<1>1. LinesInv /\ ShownInv /\ TokenInv
  BY DEF OutboundInv
<1>2. /\ todo[s] # <<>> /\ wanted[s] \in Wants /\ Line(service, wanted[s], todo[s], tried[s])
      /\ Head(todo[s]).do = what
      /\ s \notin cut => Covered(service, wanted[s], todo[s], tried[s])
      /\ ~O!Running(s, "refresh")
  BY <1>1, AtHead
<1>3. PICK t : t = Tail(todo[s])
  OBVIOUS
<1>4. t # <<>> => Head(t).do \notin Firsts
  BY <1>2, <1>3, TailRests
<1>5. /\ ShownInv'
      /\ \E d : /\ d = Posted(service, wanted[s], tried[s], Head(todo[s]))
                /\ tried' = [tried EXCEPT ![s] = d] /\ d \subseteq PartsOf(wanted[s])
  <2>1. t # <<>> /\ Head(t).do = "plainly"
          => Head(t).part = O!Part(s) /\ (shown' # shown => <<s, O!Part(s)>> \in unanswered')
    BY <1>4 DEF Firsts
  <2>2. O!Proceed(s, t) /\ service' = service
    BY <1>3
  <2> QED
    BY <1>1, <2>1, <2>2, PostedTells
<1>6. PICK d : /\ d = Posted(service, wanted[s], tried[s], Head(todo[s]))
               /\ tried' = [tried EXCEPT ![s] = d]
  BY <1>5
<1>7. Moves(service, wanted[s], todo[s], tried[s], t, d)
  BY <1>2, <1>3, <1>6, MovePost
<1>8. LinesInv'
  BY <1>1, <1>2, <1>3, <1>6, <1>7, LinesMove DEF Moves
<1>9. TokenInv'
  <2>1. Eras'
    BY <1>1 DEF TokenInv, Eras
  <2> QED
    BY <1>1, <1>2, <1>3, <1>4, <2>1, TokenStays DEF Firsts
<1> QED
  BY <1>5, <1>8, <1>9 DEF OutboundInv

LEMMA PostGives ==
  ASSUME OutboundInv, NEW s \in Sends, O!Running(s, "post"), O!Tried(s), O!GiveUp(s), service = "signal",
         unanswered \subseteq unanswered', UNCHANGED shown \/ O!Reaches(s, O!Part(s)),
         UNCHANGED <<service, wanted, up, era, eraOf, token, lock, refreshes, expiries, failures>>
  PROVE  OutboundInv'
<1>1. LinesInv /\ ShownInv /\ TokenInv
  BY DEF OutboundInv
<1>2. O!Proceed(s, <<>>) /\ ~O!Running(s, "refresh")
  BY <1>1, AtHead DEF O!GiveUp
<1>3. /\ ShownInv'
      /\ \E d : /\ d = Posted(service, wanted[s], tried[s], Head(todo[s]))
                /\ tried' = [tried EXCEPT ![s] = d] /\ d \subseteq PartsOf(wanted[s])
  <2>1. PICK what \in {"post", "again"} : what = "post"
    OBVIOUS
  <2>2. PICK t : t = <<>>
    OBVIOUS
  <2>3. /\ O!Proceed(s, t) /\ O!Running(s, what) /\ service' = service
        /\ t # <<>> /\ Head(t).do = "plainly"
             => Head(t).part = O!Part(s) /\ (shown' # shown => <<s, O!Part(s)>> \in unanswered')
    BY <1>2, <2>1, <2>2
  <2> QED
    BY <1>1, <2>3, PostedTells
<1>4. LinesInv'
  BY <1>3, GiveUpKeeps
<1>5. TokenInv'
  <2>1. Eras'
    BY <1>1 DEF TokenInv, Eras
  <2> QED
    BY <1>1, <1>2, <2>1, TokenStays
<1> QED
  BY <1>3, <1>4, <1>5 DEF OutboundInv

(* A text of Telegram that failed, or that had no answer, goes once more.  *)
LEMMA PostPlainer ==
  ASSUME OutboundInv, NEW s \in Sends, O!Running(s, "post"), O!Tried(s), service = "telegram",
         O!Proceed(s, O!Do("plainly", O!Part(s)) \o Tail(todo[s])), unanswered \subseteq unanswered',
         UNCHANGED shown \/ O!Reaches(s, O!Part(s)),
         shown' # shown => <<s, O!Part(s)>> \in unanswered',
         UNCHANGED <<service, wanted, up, era, eraOf, token, lock, refreshes, expiries, failures, cut>>
  PROVE  OutboundInv'
<1>1. LinesInv /\ ShownInv /\ TokenInv
  BY DEF OutboundInv
<1>2. /\ todo[s] # <<>> /\ wanted[s] \in Wants /\ Line(service, wanted[s], todo[s], tried[s])
      /\ Head(todo[s]).do = "post" /\ tried[s] \subseteq PartsOf(wanted[s])
      /\ Fits(service, wanted[s], Head(todo[s])) /\ Follows(Head(todo[s]), tried[s])
      /\ s \notin cut => Covered(service, wanted[s], todo[s], tried[s])
      /\ ~O!Running(s, "refresh")
  BY <1>1, AtHead
<1>3. PICK e, t : e = [do |-> "plainly", part |-> Head(todo[s]).part] /\ t = <<e>> \o Tail(todo[s])
  OBVIOUS
<1>4. e.do = "plainly" /\ e.part = O!Part(s) /\ O!Proceed(s, t)
  BY <1>3 DEF O!Do, O!Part
<1>5. t # <<>> /\ Head(t) = e
  <2>1. Tail(todo[s]) \in Seq(Steps)
    BY <1>2, TailStep DEF Line
  <2>2. Len(t) = 1 + Len(Tail(todo[s])) /\ t[1] = e /\ Len(Tail(todo[s])) \in Nat
    BY <1>3, <2>1
  <2> QED
    BY <2>2
<1>6. /\ ShownInv'
      /\ \E d : /\ d = Posted(service, wanted[s], tried[s], Head(todo[s]))
                /\ tried' = [tried EXCEPT ![s] = d] /\ d \subseteq PartsOf(wanted[s])
  BY <1>1, <1>4, <1>5, PostedTells
<1>7. PICK d : /\ d = tried[s] \cup {e.part} /\ d = Posted(service, wanted[s], tried[s], Head(todo[s]))
               /\ tried' = [tried EXCEPT ![s] = d] /\ d \subseteq PartsOf(wanted[s])
  BY <1>3, <1>6 DEF Posted
<1>8. Moves(service, wanted[s], todo[s], tried[s], t, d)
  <2>1. \A q \in d : Rank(q) <= Rank(e.part)
    BY <1>2, <1>3, <1>7, PostedAre
  <2>2. Fits(service, wanted[s], e) /\ Follows(e, d)
    BY <1>2, <1>3, <1>4, <1>7, <2>1 DEF Fits, Follows, Postings
  <2>3. "plainly" \in Kinds
    BY DEF Kinds, Postings
  <2>4. tried[s] \subseteq d
    BY <1>7
  <2> QED
    BY <1>2, <1>3, <1>7, <2>2, <2>3, <2>4, MoveHead
<1>9. LinesInv'
  BY <1>1, <1>2, <1>4, <1>7, <1>8, LinesMove DEF Moves
<1>10. TokenInv'
  <2>1. Eras' /\ Head(t).do # "refresh"
    BY <1>1, <1>4, <1>5 DEF TokenInv, Eras
  <2> QED
    BY <1>1, <1>2, <1>4, <2>1, TokenStays
<1> QED
  BY <1>6, <1>9, <1>10 DEF OutboundInv

LEMMA PostKeeps ==
  ASSUME OutboundInv, NEW s \in Sends, NEW outcome \in {"arrives", "fails", "unanswered"}, O!Post(s, outcome)
  PROVE  OutboundInv'
<1>1. /\ O!Running(s, "post") /\ O!Tried(s) /\ unanswered \subseteq unanswered'
      /\ UNCHANGED shown \/ O!Reaches(s, O!Part(s))
      /\ UNCHANGED <<service, wanted, up, era, eraOf, token, lock, refreshes, expiries, failures>>
  BY Zenon DEF O!Post, O!PostTelegram, O!PostDiscord, O!PostWhatsApp, O!PostMessenger, O!PostSlack, O!PostTeams,
     O!PostSignal, O!Posting, O!tokens
<1>2. \/ O!Skip(s)
      \/ service = "signal" /\ O!GiveUp(s)
      \/ /\ service = "telegram" /\ O!Proceed(s, O!Do("plainly", O!Part(s)) \o Tail(todo[s])) /\ UNCHANGED cut
         /\ shown' # shown => <<s, O!Part(s)>> \in unanswered'
  <2>1. CASE O!PostTelegram(s, outcome)
    <3>1. /\ service = "telegram"
          /\ outcome # "fails" \/ UNCHANGED shown
          /\ unanswered' = IF outcome = "unanswered" THEN unanswered \cup {<<s, O!Part(s)>>} ELSE unanswered
          /\ \/ O!Skip(s)
             \/ outcome # "arrives" /\ O!Proceed(s, O!Do("plainly", O!Part(s)) \o Tail(todo[s])) /\ UNCHANGED cut
      BY <2>1, Zenon DEF O!PostTelegram, O!Posting
    <3> QED
      BY <3>1
  <2>2. CASE O!PostSignal(s, outcome)
    BY <2>2, Zenon DEF O!PostSignal, O!Posting
  <2>3. CASE \/ O!PostDiscord(s, outcome) \/ O!PostWhatsApp(s, outcome) \/ O!PostMessenger(s, outcome)
             \/ O!PostSlack(s, outcome) \/ O!PostTeams(s, outcome)
    BY <2>3, Zenon DEF O!PostDiscord, O!PostWhatsApp, O!PostMessenger, O!PostSlack, O!PostTeams, O!Posting
  <2> QED
    BY <2>1, <2>2, <2>3 DEF O!Post
<1>3. CASE O!Skip(s)
  <2>1. O!Proceed(s, Tail(todo[s])) /\ UNCHANGED cut
    BY <1>3 DEF O!Skip
  <2> QED
    BY <1>1, <2>1, PostSkips
<1>4. CASE service = "signal" /\ O!GiveUp(s)
  BY <1>1, <1>4, PostGives
<1>5. CASE /\ service = "telegram" /\ O!Proceed(s, O!Do("plainly", O!Part(s)) \o Tail(todo[s])) /\ UNCHANGED cut
           /\ shown' # shown => <<s, O!Part(s)>> \in unanswered'
  BY <1>1, <1>5, PostPlainer
<1> QED
  BY <1>2, <1>3, <1>4, <1>5

(* A file that could not be prepared is left out, and the texts come next. *)
LEMMA PrepareKeeps ==
  ASSUME OutboundInv, NEW s \in Sends, NEW svc, NEW ok \in BOOLEAN, O!Preparing(svc, s, ok),
         svc \in {"whatsapp", "slack"}
  PROVE  OutboundInv'
<1>1. LinesInv /\ ShownInv /\ TokenInv
  BY DEF OutboundInv
<1>2. /\ service = svc /\ O!Running(s, "prepare")
      /\ O!Proceed(s, IF ok THEN Tail(todo[s]) ELSE O!Posts(O!Text, wanted[s].texts))
      /\ tried' = [tried EXCEPT ![s] = IF ok THEN @ ELSE @ \cup {O!Part(s)}]
      /\ UNCHANGED <<service, wanted, up, era, eraOf, token, lock, refreshes, expiries, failures, shown,
                     unanswered, cut>>
  BY Zenon DEF O!Preparing, O!tokens
<1>3. CASE ok
  <2>1. O!Proceed(s, Tail(todo[s])) /\ tried' = [tried EXCEPT ![s] = tried[s]]
    BY <1>2, <1>3
  <2>2. tried' = tried
    BY <1>1, <2>1 DEF LinesInv
  <2> QED
    BY <1>2, <2>1, <2>2, SkipKeeps
<1>4. CASE ~ok
  <2>1. /\ todo[s] # <<>> /\ wanted[s] \in Wants /\ Line(service, wanted[s], todo[s], tried[s])
        /\ Head(todo[s]).do = "prepare" /\ tried[s] \subseteq PartsOf(wanted[s])
        /\ Fits(service, wanted[s], Head(todo[s])) /\ Follows(Head(todo[s]), tried[s])
        /\ ~O!Running(s, "refresh")
    BY <1>1, <1>2, AtHead
  <2>2. PICK t, b : t = Parcel(0, b) /\ b = wanted[s].texts
    OBVIOUS
  <2>3. b \in Nat /\ wanted[s].files \in 0 .. 1
    BY <2>1, <2>2 DEF Wants
  <2>4. O!Proceed(s, t)
    BY <1>2, <1>4, <2>2, <2>3, ParcelSides
  <2>5. O!Part(s) = O!File(1) /\ O!File(1) \in PartsOf(wanted[s]) /\ \A q \in tried[s] : Rank(q) < Rank(O!File(1))
    BY <2>1 DEF Fits, Follows, O!Part
  <2>6. wanted[s].files = 1
    <3>1. ASSUME NEW n \in 1 .. wanted[s].texts, O!File(1) = O!Text(n) PROVE FALSE
      <4>1. n \in Nat \ {0}
        BY <2>2, <2>3
      <4> QED
        BY <3>1, <4>1, Ranks
    <3> QED
      BY <2>1, <2>5, <3>1, PartsAre
  <2>7. tried[s] = {}
    <3>1. tried[s] \subseteq Bits
      BY <2>1, PartsAre
    <3> QED
      BY <2>5, <3>1, Ranks
  <2>8. PICK d : d = {O!File(1)}
    OBVIOUS
  <2>9. tried' = [tried EXCEPT ![s] = d]
    BY <1>2, <1>4, <2>5, <2>7, <2>8
  <2>10. Planned(service, wanted[s], t, d)
    <3>1. PICK a \in 0 .. 1 : a = 0
      OBVIOUS
    <3>2. Planned(service, wanted[s], Parcel(a, b), d)
      BY <2>1, <2>2, <2>3, <2>6, <2>8, <3>1, ParcelLine
    <3> QED
      BY <2>2, <3>1, <3>2
  <2>11. t # <<>> => Head(t).do \notin Firsts
    BY <2>10, PlanRests
  <2>12. LinesInv'
    BY <1>1, <1>2, <2>4, <2>9, <2>10, LinesMove DEF Planned
  <2>13. ShownInv'
    BY <1>1, <1>2, <2>4, <2>7, <2>9, <2>11, ShownStays DEF Firsts
  <2>14. TokenInv'
    <3>1. Eras'
      BY <1>1, <1>2 DEF TokenInv, Eras
    <3> QED
      BY <1>1, <1>2, <2>1, <2>4, <2>11, <3>1, TokenStays DEF Firsts
  <2> QED
    BY <2>12, <2>13, <2>14 DEF OutboundInv
<1> QED
  BY <1>3, <1>4

LEMMA PlainlyKeeps ==
  ASSUME OutboundInv, NEW s \in Sends, NEW outcome, O!PostPlainly(s, outcome)
  PROVE  OutboundInv'
<1>1. LinesInv /\ ShownInv /\ TokenInv
  BY DEF OutboundInv
<1>2. /\ O!Running(s, "plainly") /\ O!Proceed(s, Tail(todo[s]))
      /\ UNCHANGED shown \/ O!Reaches(s, O!Text(1))
      /\ UNCHANGED <<service, wanted, up, era, eraOf, token, lock, refreshes, expiries, failures, tried,
                     unanswered, cut>>
  BY DEF O!PostPlainly, O!tokens
<1>3. CASE UNCHANGED shown
  BY <1>2, <1>3, SkipKeeps
<1>4. CASE O!Reaches(s, O!Text(1))
  <2>1. /\ todo[s] # <<>> /\ wanted[s] \in Wants /\ Line(service, wanted[s], todo[s], tried[s])
        /\ Head(todo[s]).do = "plainly" /\ Fits(service, wanted[s], Head(todo[s]))
        /\ Follows(Head(todo[s]), tried[s])
        /\ tried = [tried EXCEPT ![s] = tried[s]] /\ tried[s] \subseteq PartsOf(wanted[s])
        /\ s \notin cut => Covered(service, wanted[s], todo[s], tried[s])
        /\ ~O!Running(s, "refresh")
    BY <1>1, <1>2, AtHead
  <2>2. PICK p : p = O!Part(s)
    OBVIOUS
  <2>3. p \in tried[s] /\ service = "telegram" /\ \A q \in tried[s] : Rank(q) <= Rank(p)
    BY <2>1, <2>2 DEF Fits, Follows, O!Part
  <2>4. p \in Bits
    BY <2>1, <2>3, PartsAre
  <2>5. PICK t : t = Tail(todo[s])
    OBVIOUS
  <2>6. t # <<>> => Head(t).do \notin Firsts
    BY <2>1, <2>5, TailRests
  <2>7. Moves(service, wanted[s], todo[s], tried[s], t, tried[s])
    BY <2>1, <2>5, MoveOn
  <2>8. LinesInv'
    BY <1>1, <1>2, <2>1, <2>5, <2>7, LinesMove DEF Moves
  <2>9. ShownInv'
    <3>1. PICK as : as = O!Text(1)
      OBVIOUS
    <3>2. as \in Bits /\ O!Reaches(s, as)
      BY <1>4, <3>1, Ranks
    <3>3. OnceMore(shown, s, p, unanswered')
      BY <1>1, <1>2, <2>2 DEF ShownInv
    <3>4. ~(t # <<>> /\ Head(t).do = "plainly") /\ O!Proceed(s, t)
      BY <1>2, <2>5, <2>6 DEF Firsts
    <3>5. tried' = [tried EXCEPT ![s] = tried[s]] /\ service' = service /\ unanswered \subseteq unanswered'
      BY <1>2, <2>1
    <3> QED
      BY <1>1, <2>2, <2>3, <2>4, <3>1, <3>2, <3>3, <3>4, <3>5, ShownGrows
  <2>10. TokenInv'
    <3>1. Eras'
      BY <1>1, <1>2 DEF TokenInv, Eras
    <3> QED
      BY <1>1, <1>2, <2>1, <2>5, <2>6, <3>1, TokenStays DEF Firsts
  <2> QED
    BY <2>8, <2>9, <2>10 DEF OutboundInv
<1> QED
  BY <1>2, <1>3, <1>4

LEMMA AgainKeeps ==
  ASSUME OutboundInv, NEW s \in Sends, NEW outcome, O!PostAgain(s, outcome)
  PROVE  OutboundInv'
<1>1. /\ O!Running(s, "again") /\ O!Tried(s) /\ O!Proceed(s, Tail(todo[s]))
      /\ UNCHANGED shown \/ O!Reaches(s, O!Part(s))
      /\ UNCHANGED <<service, wanted, up, era, eraOf, token, lock, refreshes, expiries, failures, unanswered, cut>>
  BY DEF O!PostAgain, O!tokens
<1>2. PICK what \in {"post", "again"} : what = "again"
  OBVIOUS
<1> QED
  BY <1>1, <1>2, PostSkips

LEMMA PostLaterKeeps ==
  ASSUME OutboundInv, NEW s \in Sends, O!PostLater(s)
  PROVE  OutboundInv'
<1>1. LinesInv /\ ShownInv /\ TokenInv
  BY DEF OutboundInv
<1>2. /\ service = "teams" /\ O!Running(s, "post")
      /\ O!Proceed(s, O!Do("again", O!Part(s)) \o Tail(todo[s]))
      /\ UNCHANGED <<service, wanted, up, era, eraOf, token, lock, refreshes, expiries, failures, tried, shown,
                     unanswered, cut>>
  BY DEF O!PostLater, O!tokens
<1>3. /\ todo[s] # <<>> /\ wanted[s] \in Wants /\ Line(service, wanted[s], todo[s], tried[s])
      /\ Head(todo[s]).do = "post" /\ tried[s] \subseteq PartsOf(wanted[s])
      /\ tried = [tried EXCEPT ![s] = tried[s]]
      /\ Fits(service, wanted[s], Head(todo[s])) /\ Follows(Head(todo[s]), tried[s])
      /\ s \notin cut => Covered(service, wanted[s], todo[s], tried[s])
      /\ ~O!Running(s, "refresh")
  BY <1>1, <1>2, AtHead
<1>4. PICK e, t : e = [do |-> "again", part |-> Head(todo[s]).part] /\ t = <<e>> \o Tail(todo[s])
  OBVIOUS
<1>5. e.do = "again" /\ e.part = O!Part(s) /\ O!Proceed(s, t)
  BY <1>2, <1>4 DEF O!Do, O!Part
<1>6. Head(t) = e
  <2>1. Tail(todo[s]) \in Seq(Steps)
    BY <1>3, TailStep DEF Line
  <2>2. Len(t) = 1 + Len(Tail(todo[s])) /\ t[1] = e /\ Len(Tail(todo[s])) \in Nat
    BY <1>4, <2>1
  <2> QED
    BY <2>2
<1>7. Moves(service, wanted[s], todo[s], tried[s], t, tried[s])
  <2>1. Fits(service, wanted[s], e) /\ Follows(e, tried[s])
    BY <1>3, <1>4 DEF Fits, Follows, Postings
  <2>2. "again" \in Kinds
    BY DEF Kinds, Postings
  <2> QED
    BY <1>3, <1>4, <2>1, <2>2, MoveHead
<1>8. LinesInv'
  BY <1>1, <1>2, <1>3, <1>5, <1>7, LinesMove DEF Moves
<1>9. ShownInv'
  BY <1>1, <1>2, <1>3, <1>5, <1>6, ShownStays
<1>10. TokenInv'
  <2>1. Eras'
    BY <1>1, <1>2 DEF TokenInv, Eras
  <2> QED
    BY <1>1, <1>2, <1>3, <1>5, <1>6, <2>1, TokenStays
<1> QED
  BY <1>8, <1>9, <1>10 DEF OutboundInv

LEMMA NobodySends == Nobody \notin Sends
BY RequestConstants, Zenon

LEMMA TokenKeeps ==
  ASSUME OutboundInv, NEW s \in Sends, O!HasToken(s) \/ O!LoseToken(s)
  PROVE  OutboundInv'
<1>1. CASE O!HasToken(s)
  <2>1. /\ O!Running(s, "token") /\ O!Proceed(s, Tail(todo[s]))
        /\ UNCHANGED <<service, wanted, up, era, eraOf, token, lock, refreshes, expiries, failures, tried, shown,
                       unanswered, cut>>
    BY <1>1 DEF O!HasToken, O!tokens
  <2> QED
    BY <2>1, SkipKeeps
<1>2. CASE O!LoseToken(s)
  <2>1. LinesInv /\ ShownInv /\ TokenInv
    BY DEF OutboundInv
  <2>2. PICK what \in {"token", "refresh"} : O!Running(s, what)
    BY <1>2 DEF O!LoseToken
  <2>3. /\ ~O!Current(s) /\ O!GiveUp(s)
        /\ UNCHANGED <<service, wanted, up, era, eraOf, token, lock, refreshes, expiries, failures, tried, shown,
                       unanswered>>
    BY <1>2 DEF O!LoseToken, O!tokens
  <2>4. /\ service = "teams" /\ tried = [tried EXCEPT ![s] = tried[s]] /\ tried[s] \subseteq PartsOf(wanted[s])
    BY <2>1, <2>2, AtHead DEF Fits
  <2>5. LinesInv' /\ O!Proceed(s, <<>>)
    BY <2>3, <2>4, GiveUpKeeps
  <2>6. ShownInv'
    BY <2>1, <2>3, <2>4, <2>5, ShownStays
  <2>7. TokenInv'
    <3>1. Eras'
      BY <2>1, <2>3 DEF TokenInv, Eras
    <3> QED
      BY <2>1, <2>3, <2>5, <3>1, TokenStays
  <2> QED
    BY <2>5, <2>6, <2>7 DEF OutboundInv
<1> QED
  BY <1>1, <1>2

LEMMA AcquireKeeps ==
  ASSUME OutboundInv, NEW s \in Sends, O!Acquire(s)
  PROVE  OutboundInv'
<1>1. LinesInv /\ ShownInv /\ TokenInv
  BY DEF OutboundInv
<1>2. /\ O!Running(s, "token") /\ O!Current(s) /\ lock = Nobody /\ token # "valid" /\ lock' = s
      /\ refreshes' = refreshes + 1
      /\ todo' = [todo EXCEPT ![s] = O!Do("refresh", Nobody) \o Tail(todo[s])]
      /\ UNCHANGED <<service, wanted, state, up, era, eraOf, token, expiries, failures, tried, shown,
                     unanswered, cut>>
  BY DEF O!Acquire, O!Refreshing
<1>3. /\ todo[s] # <<>> /\ wanted[s] \in Wants /\ Line(service, wanted[s], todo[s], tried[s])
      /\ Head(todo[s]).do = "token" /\ tried[s] \subseteq PartsOf(wanted[s])
      /\ tried = [tried EXCEPT ![s] = tried[s]]
      /\ Fits(service, wanted[s], Head(todo[s])) /\ Follows(Head(todo[s]), tried[s])
      /\ s \notin cut => Covered(service, wanted[s], todo[s], tried[s])
  BY <1>1, <1>2, AtHead
<1>4. PICK e, t : e = [do |-> "refresh", part |-> Head(todo[s]).part] /\ t = <<e>> \o Tail(todo[s])
  OBVIOUS
<1>5. e.do = "refresh" /\ e.part = Nobody /\ t = O!Do("refresh", Nobody) \o Tail(todo[s])
  BY <1>3, <1>4 DEF O!Do, Fits
<1>6. t # <<>> /\ Head(t) = e
  <2>1. Tail(todo[s]) \in Seq(Steps)
    BY <1>3, TailStep DEF Line
  <2>2. Len(t) = 1 + Len(Tail(todo[s])) /\ t[1] = e /\ Len(Tail(todo[s])) \in Nat
    BY <1>4, <2>1
  <2> QED
    BY <2>2
<1>7. O!Proceed(s, t)
  <2>1. state = [state EXCEPT ![s] = "running"]
    BY <1>1, <1>2 DEF LinesInv, O!Running
  <2> QED
    BY <1>2, <1>5, <1>6, <2>1 DEF O!Proceed
<1>8. Moves(service, wanted[s], todo[s], tried[s], t, tried[s])
  <2>1. Fits(service, wanted[s], e) /\ Follows(e, tried[s])
    BY <1>3, <1>5 DEF Fits, Follows, Postings
  <2>2. "refresh" \in Kinds
    BY DEF Kinds, Firsts
  <2> QED
    BY <1>3, <1>4, <2>1, <2>2, MoveHead
<1>9. LinesInv'
  BY <1>1, <1>2, <1>3, <1>7, <1>8, LinesMove DEF Moves
<1>10. ShownInv'
  BY <1>1, <1>2, <1>3, <1>5, <1>6, <1>7, ShownStays
<1>11. TokenInv'
  <2>1. \A u \in Sends : ~(O!Running(u, "refresh") /\ O!Current(u))
    BY <1>1, <1>2, NobodySends DEF TokenInv
  <2>2. ASSUME NEW u \in Sends, u # s PROVE ~(O!Running(u, "refresh") /\ O!Current(u))'
    <3>1. O!Running(u, "refresh")' <=> O!Running(u, "refresh")
      BY <1>1, <1>7, <2>2, OthersRun
    <3> QED
      BY <1>2, <2>1, <3>1 DEF O!Current
  <2>3. (O!Running(s, "refresh") /\ O!Current(s))'
    <3>1. t # <<>> /\ Head(t).do = "refresh"
      BY <1>5, <1>6
    <3>2. O!Running(s, "refresh")'
      BY <1>1, <1>7, <3>1, OthersRun
    <3> QED
      BY <1>2, <3>2 DEF O!Current
  <2>4. ~Fetching /\ Fetching'
    BY <2>1, <2>3 DEF Fetching
  <2>5. refreshes' \in Nat /\ refreshes' <= expiries + failures + era + 1
    <3>1. refreshes <= expiries + failures + era + (IF token = "valid" \/ Fetching THEN 1 ELSE 0)
      BY <1>1 DEF TokenInv
    <3>2. refreshes <= expiries + failures + era + 0
      BY <1>2, <2>4, <3>1
    <3>3. refreshes \in Nat /\ expiries \in Nat /\ failures \in Nat /\ era \in Nat /\ refreshes' = refreshes + 1
      BY <1>1, <1>2 DEF TokenInv, LinesInv
    <3> QED
      BY <3>2, <3>3
  <2>6. Eras'
    BY <1>1, <1>2 DEF TokenInv, Eras
  <2> QED
    BY <1>1, <1>2, <2>2, <2>4, <2>5, <2>6 DEF TokenInv
<1> QED
  BY <1>9, <1>10, <1>11 DEF OutboundInv

(* The end of a fetch, whose lock no other holds.                          *)
LEMMA FetchEnds ==
  ASSUME LinesInv, TokenInv, NEW s \in Sends, NEW t, O!Running(s, "refresh"), O!Current(s), O!Proceed(s, t),
         t # <<>> => Head(t).do # "refresh", lock' = Nobody,
         UNCHANGED <<era, eraOf, expiries, refreshes>>,
         \/ token' = "valid" /\ failures' = failures
         \/ token' = token /\ failures' = failures + 1
  PROVE  TokenInv'
<1>1. ASSUME NEW u \in Sends PROVE ~(O!Running(u, "refresh") /\ O!Current(u))'
  <2>1. CASE u = s
    BY <2>1, OthersRun
  <2>2. CASE u # s
    <3>1. O!Running(u, "refresh")' <=> O!Running(u, "refresh")
      BY <2>2, OthersRun
    <3>2. ~(O!Running(u, "refresh") /\ O!Current(u))
      BY <2>2 DEF TokenInv
    <3> QED
      BY <3>1, <3>2 DEF O!Current
  <2> QED
    BY <2>1, <2>2
<1>2. ~Fetching'
  BY <1>1 DEF Fetching
<1>3. refreshes <= expiries + failures + era + 1 /\ era \in Nat
  BY DEF TokenInv, LinesInv
<1>4. /\ failures' \in Nat
      /\ refreshes <= expiries + failures' + era + (IF token' = "valid" \/ Fetching' THEN 1 ELSE 0)
  BY <1>2, <1>3 DEF TokenInv
<1>5. Eras'
  BY DEF TokenInv, Eras
<1> QED
  BY <1>1, <1>4, <1>5 DEF TokenInv

LEMMA RefreshedKeeps ==
  ASSUME OutboundInv, NEW s \in Sends, O!Refreshed(s) \/ O!RefreshFails(s)
  PROVE  OutboundInv'
<1>1. LinesInv /\ ShownInv /\ TokenInv
  BY DEF OutboundInv
<1>2. /\ O!Running(s, "refresh") /\ O!Current(s) /\ lock' = Nobody
      /\ UNCHANGED <<service, wanted, up, era, eraOf, refreshes, expiries, tried, shown, unanswered>>
  BY DEF O!Refreshed, O!RefreshFails
<1>3. /\ todo[s] # <<>> /\ wanted[s] \in Wants /\ Line(service, wanted[s], todo[s], tried[s])
      /\ Head(todo[s]).do = "refresh" /\ tried[s] \subseteq PartsOf(wanted[s])
      /\ tried = [tried EXCEPT ![s] = tried[s]]
      /\ Fits(service, wanted[s], Head(todo[s]))
      /\ s \notin cut => Covered(service, wanted[s], todo[s], tried[s])
  BY <1>1, <1>2, AtHead
<1>4. CASE O!Refreshed(s)
  <2>1. token' = "valid" /\ O!Proceed(s, Tail(todo[s])) /\ UNCHANGED <<failures, cut>>
    BY <1>4 DEF O!Refreshed
  <2>2. PICK t : t = Tail(todo[s])
    OBVIOUS
  <2>3. Moves(service, wanted[s], todo[s], tried[s], t, tried[s])
    BY <1>3, <2>2, MoveOn
  <2>4. t # <<>> => Head(t).do \notin Firsts
    BY <1>3, <2>2, TailRests
  <2>5. LinesInv'
    BY <1>1, <1>2, <1>3, <2>1, <2>2, <2>3, LinesMove DEF Moves
  <2>6. ShownInv'
    BY <1>1, <1>2, <1>3, <2>1, <2>2, <2>4, ShownStays DEF Firsts
  <2>7. TokenInv'
    BY <1>1, <1>2, <2>1, <2>2, <2>4, FetchEnds DEF Firsts
  <2> QED
    BY <2>5, <2>6, <2>7 DEF OutboundInv
<1>5. CASE O!RefreshFails(s)
  <2>1. failures' = failures + 1 /\ token' = token /\ O!GiveUp(s)
    BY <1>5 DEF O!RefreshFails
  <2>2. service = "teams"
    BY <1>3 DEF Fits
  <2>3. LinesInv' /\ O!Proceed(s, <<>>)
    BY <1>2, <1>3, <2>1, <2>2, GiveUpKeeps
  <2>4. ShownInv'
    BY <1>1, <1>2, <1>3, <2>3, ShownStays
  <2>5. TokenInv'
    BY <1>1, <1>2, <2>1, <2>3, FetchEnds
  <2> QED
    BY <2>3, <2>4, <2>5 DEF OutboundInv
<1> QED
  BY <1>4, <1>5

(* A send begins with what its service takes.                              *)
LEMMA BeginSends ==
  ASSUME OutboundInv, NEW s \in Sends, O!Begin(s)
  PROVE  OutboundInv'
<1>1. LinesInv /\ ShownInv /\ TokenInv
  BY DEF OutboundInv
<1>2. PICK fit, t, d :
        /\ fit = [wanted[s] EXCEPT !.files = IF O!Takes(wanted[s].form) THEN @ ELSE 0]
        /\ t = (IF up \/ service = "signal" THEN O!Plan(fit) ELSE <<>>)
        /\ d = (IF fit.files = wanted[s].files THEN {} ELSE {O!File(1)})
  OBVIOUS
<1>3. /\ state[s] = "idle" /\ O!Proceed(s, t) /\ tried' = [tried EXCEPT ![s] = d]
      /\ eraOf' = [eraOf EXCEPT ![s] = era] /\ cut' = IF up THEN cut ELSE cut \cup {s}
      /\ UNCHANGED <<service, wanted, up, era, token, lock, refreshes, expiries, failures, shown, unanswered>>
  BY <1>2, Zenon DEF O!Begin, O!Proceed, O!tokens
<1>4. wanted[s] \in Wants /\ service \in O!Services /\ era \in Nat /\ tried[s] = {} /\ (up \/ era > 0)
  BY <1>1, <1>3 DEF LinesInv
<1>5. wanted[s].files \in 0 .. 1 /\ wanted[s].texts \in Nat
  BY <1>4 DEF Wants
<1>6. /\ fit \in Wants /\ fit.texts = wanted[s].texts
      /\ fit.files = wanted[s].files \/ fit.files = 0
  BY <1>2, <1>4, <1>5 DEF Wants
<1>7. \/ fit.files = wanted[s].files /\ d = {}
      \/ fit.files = 0 /\ wanted[s].files = 1 /\ d = {O!File(1)}
  BY <1>2, <1>5, <1>6
<1>8. Planned(service, wanted[s], O!Plan(fit), d)
  BY <1>4, <1>6, <1>7, PlanCovers
<1>9. /\ Line(service, wanted[s], t, d) /\ (s \notin cut' => Covered(service, wanted[s], t, d))
      /\ t # <<>> => Head(t).do \notin Firsts
  <2>1. CASE up \/ service = "signal"
    <3>1. t = O!Plan(fit)
      BY <1>2, <2>1
    <3> QED
      BY <1>8, <3>1, PlanRests DEF Planned
  <2>2. CASE ~(up \/ service = "signal")
    <3>1. t = <<>> /\ s \in cut'
      BY <1>2, <1>3, <2>2
    <3>2. d \subseteq PartsOf(wanted[s])
      BY <1>8 DEF Planned, Line
    <3> QED
      BY <3>1, <3>2 DEF Line
  <2> QED
    BY <2>1, <2>2
<1>10. LinesInv'
  <2>1. cut \subseteq cut' /\ cut' \subseteq cut \cup {s} /\ (cut' # cut => era > 0)
    BY <1>3, <1>4
  <2> QED
    BY <1>1, <1>3, <1>9, <2>1, LinesMove
<1>11. ShownInv'
  BY <1>1, <1>3, <1>4, <1>9, ShownStays DEF Firsts
<1>12. TokenInv'
  <2>1. Eras' /\ \A u \in Sends : u # s => eraOf'[u] = eraOf[u]
    BY <1>1, <1>3, <1>4 DEF TokenInv, Eras
  <2>2. ~O!Running(s, "refresh")
    BY <1>3 DEF O!Running
  <2> QED
    BY <1>1, <1>3, <1>9, <2>1, <2>2, TokenStays DEF Firsts
<1> QED
  BY <1>10, <1>11, <1>12 DEF OutboundInv

LEMMA WithinOne ==
  ASSUME NEW r \in Nat, NEW a \in Nat, NEW b \in Nat, NEW c \in Nat, r <= a + b + c, NEW P
  PROVE  r <= a + b + c + (IF P THEN 1 ELSE 0)
<1>1. CASE P
  BY <1>1
<1>2. CASE ~P
  BY <1>2
<1> QED
  BY <1>1, <1>2

LEMMA ToggleKeeps ==
  ASSUME OutboundInv, O!Toggle
  PROVE  OutboundInv'
<1>1. LinesInv /\ ShownInv /\ TokenInv
  BY DEF OutboundInv
<1>2. /\ era' = era + 1
      /\ UNCHANGED <<service, wanted, state, todo, eraOf, refreshes, expiries, failures, tried, shown,
                     unanswered, cut>>
  <2>1. PICK svc : O!Started(svc) \/ O!Stopped(svc)
    BY DEF O!Toggle, O!StartTelegram, O!StartDiscord, O!StartWhatsApp, O!StartMessenger, O!StartSlack,
           O!StartSignal, O!StartTeams, O!StopTelegram, O!StopDiscord, O!StopWhatsApp, O!StopMessenger,
           O!StopSlack, O!StopSignal, O!StopTeams
  <2> QED
    BY <2>1 DEF O!Started, O!Stopped, O!tokens
<1>3. LinesInv'
  BY <1>1, <1>2 DEF LinesInv
<1>4. ShownInv'
  BY <1>1, <1>2 DEF ShownInv, O!Running, O!Part
<1>5. \A u \in Sends : eraOf'[u] # era' /\ eraOf'[u] <= era'
  BY <1>1, <1>2 DEF TokenInv, Eras, LinesInv
<1>6. refreshes' <= expiries' + failures' + era'
  BY <1>1, <1>2 DEF TokenInv, LinesInv
<1>7. TokenInv'
  <2>1. \A u \in Sends : ~O!Current(u)'
    BY <1>5 DEF O!Current
  <2>2. Eras'
    BY <1>1, <1>2, <1>5 DEF TokenInv, Eras
  <2>3. refreshes' <= expiries' + failures' + era' + (IF token' = "valid" \/ Fetching' THEN 1 ELSE 0)
    <3>1. refreshes' \in Nat /\ expiries' \in Nat /\ failures' \in Nat /\ era' \in Nat
      BY <1>1, <1>2 DEF TokenInv, LinesInv
    <3> QED
      BY <1>6, <3>1, WithinOne
  <2>4. refreshes' \in Nat /\ expiries' \in Nat /\ failures' \in Nat
    BY <1>1, <1>2 DEF TokenInv
  <2> QED
    BY <2>1, <2>2, <2>3, <2>4 DEF TokenInv
<1> QED
  BY <1>3, <1>4, <1>7 DEF OutboundInv

LEMMA ExpireKeeps ==
  ASSUME OutboundInv, O!Expire
  PROVE  OutboundInv'
<1>1. LinesInv /\ ShownInv /\ TokenInv
  BY DEF OutboundInv
<1>2. /\ token' = "stale" /\ expiries' = expiries + 1
      /\ UNCHANGED <<service, wanted, state, todo, up, era, eraOf, lock, refreshes, failures, tried, shown,
                     unanswered, cut>>
  BY DEF O!Expire
<1>3. LinesInv'
  BY <1>1, <1>2 DEF LinesInv
<1>4. ShownInv'
  BY <1>1, <1>2 DEF ShownInv, O!Running, O!Part
<1>5. TokenInv'
  <2>1. refreshes <= expiries + failures + era + 1
    BY <1>1 DEF TokenInv, LinesInv
  <2>2. refreshes' \in Nat /\ expiries' \in Nat /\ failures' \in Nat /\ era' \in Nat
    BY <1>1, <1>2 DEF TokenInv, LinesInv
  <2>3. refreshes' <= expiries' + failures' + era'
    BY <1>1, <1>2, <2>1, <2>2 DEF TokenInv
  <2>4. refreshes' <= expiries' + failures' + era' + (IF token' = "valid" \/ Fetching' THEN 1 ELSE 0)
    BY <2>2, <2>3, WithinOne
  <2>5. Eras' /\ \A u \in Sends : (O!Running(u, "refresh") /\ O!Current(u))' => lock' = u
    BY <1>1, <1>2 DEF TokenInv, Eras, O!Running, O!Current
  <2> QED
    BY <2>2, <2>4, <2>5 DEF TokenInv
<1> QED
  BY <1>3, <1>4, <1>5 DEF OutboundInv

LEMMA OutboundKept == OutboundInv /\ [O!Next]_(O!vars) => OutboundInv'
<1> SUFFICES ASSUME OutboundInv, [O!Next]_(O!vars) PROVE OutboundInv'
  OBVIOUS
<1>1. ASSUME NEW s \in Sends, O!Step(s) PROVE OutboundInv'
  <2>1. CASE O!Begin(s)
    BY <2>1, BeginSends
  <2>2. ASSUME NEW ok \in BOOLEAN, O!Find(s, ok) PROVE OutboundInv'
    BY <2>2, FindKeeps
  <2>3. ASSUME NEW ok \in BOOLEAN, O!Prepare(s, ok) PROVE OutboundInv'
    <3>1. PICK svc \in {"whatsapp", "slack"} : O!Preparing(svc, s, ok)
      BY <2>3 DEF O!Prepare, O!UploadWhatsApp, O!UploadSlack
    <3> QED
      BY <3>1, PrepareKeeps
  <2>4. ASSUME NEW outcome \in {"arrives", "fails", "unanswered"}, O!Post(s, outcome) PROVE OutboundInv'
    BY <2>4, PostKeeps
  <2>5. ASSUME NEW outcome, O!PostPlainly(s, outcome) \/ O!PostAgain(s, outcome) PROVE OutboundInv'
    BY <2>5, PlainlyKeeps, AgainKeeps
  <2>6. CASE O!PostLater(s)
    BY <2>6, PostLaterKeeps
  <2>7. CASE O!HasToken(s) \/ O!LoseToken(s)
    BY <2>7, TokenKeeps
  <2>8. CASE O!Acquire(s)
    BY <2>8, AcquireKeeps
  <2>9. CASE O!Refreshed(s) \/ O!RefreshFails(s)
    BY <2>9, RefreshedKeeps
  <2> QED
    BY <1>1, <2>1, <2>2, <2>3, <2>4, <2>5, <2>6, <2>7, <2>8, <2>9, Zenon DEF O!Step
<1>2. CASE O!Toggle
  BY <1>2, ToggleKeeps
<1>3. CASE O!Expire
  BY <1>3, ExpireKeeps
<1>4. CASE UNCHANGED O!vars
  <2>1. UNCHANGED <<service, wanted, state, todo, up, era, eraOf, token, lock, refreshes, expiries, failures,
                    tried, shown, unanswered, cut>>
    BY <1>4 DEF O!vars
  <2>2. LinesInv'
    BY <2>1 DEF OutboundInv, LinesInv
  <2>3. ShownInv'
    BY <2>1 DEF OutboundInv, ShownInv, O!Running, O!Part
  <2>4. Eras' /\ (Fetching' <=> Fetching)
    BY <2>1 DEF OutboundInv, TokenInv, Eras, Fetching, O!Running, O!Current
  <2>5. TokenInv'
    BY <2>1, <2>4 DEF OutboundInv, TokenInv, O!Running, O!Current
  <2> QED
    BY <2>2, <2>3, <2>5 DEF OutboundInv
<1> QED
  BY <1>1, <1>2, <1>3, <1>4 DEF O!Next

LEMMA OutboundStarts == O!Init => OutboundInv
<1> SUFFICES ASSUME O!Init PROVE OutboundInv
  OBVIOUS
<1>1. /\ service \in O!Services
      /\ wanted \in [Sends -> [files : 0 .. 1, form : {"data", "url", "large"}, texts : 0 .. MaxTexts]]
      /\ state = [s \in Sends |-> "idle"] /\ todo = [s \in Sends |-> <<>>]
      /\ up = TRUE /\ era = 0 /\ eraOf = [s \in Sends |-> 0] /\ token = "none"
      /\ refreshes = 0 /\ expiries = 0 /\ failures = 0
      /\ tried = [s \in Sends |-> {}] /\ shown = <<>> /\ unanswered = {} /\ cut = {}
  BY DEF O!Init
<1>2. wanted \in [Sends -> Wants]
  <2>1. 0 .. MaxTexts \subseteq Nat
    OBVIOUS
  <2> QED
    BY <1>1, <2>1 DEF Wants
<1>3. \A s \in Sends : Line(service, wanted[s], todo[s], tried[s])
  BY <1>1 DEF Line
<1>4. LinesInv
  BY <1>1, <1>2, <1>3 DEF LinesInv
<1>5. \A s \in Sends, what \in Kinds : ~O!Running(s, what)
  BY <1>1 DEF O!Running
<1>6. ShownInv
  <2>1. shown \in Seq(Shows) /\ Len(shown) = 0
    BY <1>1
  <2>2. "plainly" \in Kinds
    BY DEF Kinds, Postings
  <2> QED
    BY <1>1, <1>5, <2>1, <2>2 DEF ShownInv, Told
<1>7. TokenInv
  <2>1. "refresh" \in Kinds
    BY DEF Kinds, Firsts
  <2>2. Eras /\ ~Fetching
    BY <1>1, <1>5, <2>1 DEF Eras, Fetching
  <2> QED
    BY <1>1, <1>5, <2>1, <2>2 DEF TokenInv
<1> QED
  BY <1>4, <1>6, <1>7 DEF OutboundInv

LEMMA FewApart ==
  /\ \A T : (\A x, y \in T : x = y) => IsFiniteSet(T) /\ Cardinality(T) <= 1
  /\ \A T \in SUBSET Nat : (\A x, y, z \in T : ~(x < y /\ y < z)) => IsFiniteSet(T) /\ Cardinality(T) <= 2
<1>1. ASSUME NEW T, \A x, y \in T : x = y PROVE IsFiniteSet(T) /\ Cardinality(T) <= 1
  <2>1. CASE T = {}
    BY <2>1, FS_EmptySet
  <2>2. ASSUME NEW x \in T PROVE IsFiniteSet(T) /\ Cardinality(T) = 1
    <3>1. T = {x}
      BY <1>1
    <3> QED
      BY <3>1, FS_Singleton
  <2> QED
    BY <2>1, <2>2
<1>2. ASSUME NEW T \in SUBSET Nat, \A x, y, z \in T : ~(x < y /\ y < z)
      PROVE  IsFiniteSet(T) /\ Cardinality(T) <= 2
  <2>1. CASE T = {}
    BY <2>1, FS_EmptySet
  <2>2. ASSUME NEW x \in T PROVE IsFiniteSet(T) /\ Cardinality(T) <= 2
    <3>1. CASE \A y \in T : y = x
      <4>1. \A y, z \in T : y = z
        BY <3>1
      <4>2. IsFiniteSet(T) /\ Cardinality(T) <= 1
        BY <1>1, <4>1
      <4>3. Cardinality(T) \in Nat
        BY <4>2, FS_CardinalityType
      <4> QED
        BY <4>2, <4>3
    <3>2. ASSUME NEW y \in T, y # x PROVE IsFiniteSet(T) /\ Cardinality(T) <= 2
      <4>1. ASSUME NEW z \in T, z # x, z # y PROVE FALSE
        BY <1>2, <3>2, <4>1
      <4>2. T = {x, y}
        BY <4>1
      <4>3. IsFiniteSet({x}) /\ Cardinality({x}) = 1
        BY FS_Singleton
      <4>4. IsFiniteSet({x} \cup {y}) /\ Cardinality({x} \cup {y}) = Cardinality({x}) + 1
        BY <3>2, <4>3, FS_AddElement
      <4> QED
        BY <4>2, <4>3, <4>4
    <3> QED
      BY <3>1, <3>2
  <2> QED
    BY <2>1, <2>2
<1> QED
  BY <1>1, <1>2

LEMMA OutboundSays == OutboundInv => O!OutboundSound
<1> SUFFICES ASSUME OutboundInv PROVE O!OutboundSound
  OBVIOUS
<1>1. LinesInv /\ ShownInv /\ TokenInv
  BY DEF OutboundInv
<1>2. /\ Told(service, shown, tried, unanswered) /\ shown \in Seq(Shows)
      /\ \A i \in 1 .. Len(shown) : shown[i] \in Shows
  BY <1>1, ElementOfSeq DEF ShownInv
<1>3. DOMAIN shown = 1 .. Len(shown) /\ Len(shown) \in Nat
  BY <1>2
<1>4. ASSUME NEW s \in Sends, NEW p \in O!Parts(s)
      PROVE  O!Times(s, p) <= (IF service = "telegram" /\ <<s, p>> \in unanswered THEN 2 ELSE 1)
  <2>1. PICK T : T = {i \in DOMAIN shown : shown[i].send = s /\ shown[i].part = p}
    OBVIOUS
  <2>2. O!Times(s, p) = Cardinality(T)
    BY <2>1, CardinalityOfO DEF O!Times
  <2>3. T \in SUBSET Nat /\ \A i \in T : i \in 1 .. Len(shown) /\ shown[i].send = s /\ shown[i].part = p
    BY <1>3, <2>1
  <2>4. CASE service = "telegram" /\ <<s, p>> \in unanswered
    <3>1. \A i, j, l \in T : ~(i < j /\ j < l)
      BY <1>2, <2>3 DEF Told
    <3>2. Cardinality(T) <= 2
      BY <2>3, <3>1, FewApart
    <3> QED
      BY <2>2, <2>4, <3>2
  <2>5. CASE ~(service = "telegram" /\ <<s, p>> \in unanswered)
    <3>1. \A i, j \in T : ~(i < j)
      BY <1>2, <2>3, <2>5 DEF Told
    <3>2. \A i, j \in T : i = j
      BY <2>3, <3>1
    <3>3. Cardinality(T) <= 1
      BY <3>2, FewApart
    <3> QED
      BY <2>2, <2>5, <3>3
  <2> QED
    BY <2>4, <2>5
<1>5. ASSUME NEW i \in DOMAIN shown, NEW j \in DOMAIN shown, i < j, shown[i].send = shown[j].send
      PROVE  \/ shown[i].part[1] = "file"
             \/ shown[j].part[1] = "text" /\ shown[i].part[2] <= shown[j].part[2]
  <2>1. PICK p, q : p = shown[i].part /\ q = shown[j].part
    OBVIOUS
  <2>2. p \in Bits /\ q \in Bits
    BY <1>2, <1>3, <2>1 DEF Shows
  <2>3. Rank(p) <= Rank(q)
    BY <1>2, <1>3, <1>5, <2>1 DEF Told
  <2>4. /\ Rank(p) \in Nat /\ Rank(q) \in Nat
        /\ (p[1] = "file" <=> Rank(p) = 0) /\ (q[1] = "text" <=> Rank(q) # 0)
        /\ (Rank(p) # 0 => p[2] = Rank(p)) /\ (Rank(q) # 0 => q[2] = Rank(q))
    BY <2>2, Ranks
  <2>5. CASE Rank(p) = 0
    BY <2>1, <2>4, <2>5
  <2>6. CASE Rank(p) # 0
    <3>1. Rank(q) # 0
      BY <2>3, <2>4, <2>6
    <3>2. q[1] = "text" /\ p[2] = Rank(p) /\ q[2] = Rank(q)
      BY <2>4, <2>6, <3>1
    <3> QED
      BY <2>1, <2>3, <3>2
  <2> QED
    BY <2>5, <2>6
<1>6. ASSUME NEW i \in DOMAIN shown, shown[i].as # shown[i].part
      PROVE  service = "telegram" /\ shown[i].as = O!Text(1)
  BY <1>2, <1>3, <1>6 DEF Told
<1>7. O!PartsOnce
  BY <1>4, <1>5, <1>6, Zenon DEF O!PartsOnce
<1>8. O!EveryPartTried
  <2>1. ASSUME NEW s \in Sends, state[s] = "ended", s \notin cut PROVE tried[s] = O!Parts(s)
    <3>1. todo[s] = <<>> /\ Line(service, wanted[s], todo[s], tried[s])
          /\ Covered(service, wanted[s], todo[s], tried[s])
      BY <1>1, <2>1 DEF LinesInv
    <3>2. PartsOf(wanted[s]) \subseteq tried[s]
      BY <3>1 DEF Covered
    <3> QED
      BY <3>1, <3>2, Zenon DEF Line, PartsOf, O!Parts
  <2>2. \A s \in Sends : s \in cut => era > 0 \/ service \in {"discord", "teams", "signal"}
    BY <1>1 DEF LinesInv
  <2> QED
    BY <2>1, <2>2 DEF O!EveryPartTried
<1>9. O!OneRefresh
  <2>1. PICK T : T = {s \in Sends : O!Running(s, "refresh") /\ O!Current(s)}
    OBVIOUS
  <2>2. \A s, u \in T : s = u
    BY <1>1, <2>1 DEF TokenInv
  <2>3. O!Cardinality(T) <= 1
    BY <2>2, FewApart, CardinalityOfO
  <2>4. refreshes <= 1 + expiries + failures + era
    BY <1>1 DEF TokenInv, LinesInv
  <2> QED
    BY <2>1, <2>3, <2>4 DEF O!OneRefresh
<1> QED
  BY <1>7, <1>8, <1>9 DEF O!OutboundSound

(* A response goes out part by part: no part appears twice, but for one of *)
(* Telegram whose first post had no answer; parts keep their order; one    *)
(* that fails takes no other with it; and however many sends of Teams want *)
(* a token, one of them fetches it (channels/<service>/adapter.py).        *)
THEOREM ResponsesGoOut == O!Spec => []OutboundSound
<1>1. O!OutboundSound => OutboundSound
  BY DEF OutboundSound
<1> QED
  BY <1>1, OutboundStarts, OutboundKept, OutboundSays, PTL DEF O!Spec

-----------------------------------------------------------------------------
(* A step of the composition is one of the executor, or leaves it alone,   *)
(* and the same of a response when one is sent.                            *)
LEMMA SuiteMoves ==
  ASSUME [Calling \/ Messaging \/ Pointing \/ Hosting \/ Agent \/ Chatting \/ Listening]_<<vars, suite>>
  PROVE  /\ [Next]_vars /\ part' = part
         /\ part = "outbound" => [O!Next]_(O!vars)
<1>1. UNCHANGED messages => UNCHANGED O!vars
  BY DEF messages, outbound, O!vars
<1>2. CASE Calling \/ UNCHANGED <<vars, suite>>
  BY <1>1, <1>2 DEF Calling, suite
<1>3. CASE Messaging
  BY <1>3 DEF Messaging, Message
<1>4. CASE Pointing \/ Hosting \/ Agent \/ Chatting \/ Listening
  BY <1>1, <1>4 DEF Pointing, Hosting, Agent, Chatting, Listening
<1> QED
  BY <1>2, <1>3, <1>4

(* The same properties of the composition that TLC checks.                 *)
THEOREM CallsAndResponses ==
  SuiteSpec => [](PermitsExact /\ ApprovedByUser /\ AuditAgrees /\ OutboundSound)
<1>1. SuiteInit => Init /\ (part = "outbound" => O!Init)
  BY DEF SuiteInit, InitMessages, InitCalls, InitInbound, InitOutbound, InitChunks, InitBlocks,
         InitInput, InitDesktop, InitOthers
<1>2. SuiteSpec => []PermitsExact /\ []IInv
  <2>1. [Calling \/ Messaging \/ Pointing \/ Hosting \/ Agent \/ Chatting \/ Listening]_<<vars, suite>>
        => [Next]_vars
    BY SuiteMoves
  <2> QED
    BY <1>1, <2>1, PermitsHold, CallsHold, PTL DEF SuiteSpec
<1>3. IInv => ApprovedByUser /\ AuditAgrees
  BY DEF IInv, CallInv, RecordInv, LastIs, AuditAgrees
<1>4. SuiteSpec => []OutboundSound
  <2> DEFINE Inv == part = "outbound" => OutboundInv
  <2>1. SuiteInit => Inv
    BY <1>1, OutboundStarts
  <2>2. Inv /\ [Calling \/ Messaging \/ Pointing \/ Hosting \/ Agent \/ Chatting \/ Listening]_<<vars, suite>>
        => Inv'
    BY SuiteMoves, OutboundKept
  <2>3. Inv => OutboundSound
    BY OutboundSays DEF OutboundSound
  <2> QED
    BY <2>1, <2>2, <2>3, PTL DEF SuiteSpec
<1> QED
  BY <1>2, <1>3, <1>4, PTL
=============================================================================
