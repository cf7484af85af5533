--------------------------- MODULE EventBusProofs ---------------------------
(***************************************************************************)
(* Proofs about EventBus, for every set of events, every assignment of     *)
(* priorities and every queue depth.                                       *)
(***************************************************************************)
EXTENDS EventBus, FiniteSetTheorems, TLAPS

Members(s) == Channel!Members(s)

(* A queue entry carries its event's place in the order of acceptance, so  *)
(* the heap's order on entries is the channel's order on events.           *)
QueueInv ==
  /\ sequence = Len(accepted)
  /\ \A q \in queue : q.ev = Sentinel => q.prio = 0 /\ q.seq = 0
  /\ \A q \in queue : q.ev # Sentinel =>
       q.seq \in DOMAIN accepted /\ accepted[q.seq] = q.ev /\ q.prio = -Priority[q.ev]
  /\ \A i, j \in DOMAIN accepted : accepted[i] = accepted[j] => i = j

(* Each event's fate says which of the structures hold it.                 *)
FateInv ==
  /\ \A e \in Events :
       fate[e] \in {"queued", "dispatching", "done"} <=> e \in Members(accepted)
  /\ \A e \in Events :
       fate[e] \in {"dispatching", "done"} <=> e \in Members(log)
  /\ NothingLost

(* The dispatch task holds an event exactly while it waits for handlers.   *)
LoopInv ==
  /\ loop \in {"invoke", "drain_invoke"} <=> current # Sentinel
  /\ current = Sentinel => active = {}

CountInv ==
  /\ IsFiniteSet(queue)
  /\ PendingExact
  /\ BacklogBounded

IInv == TypeOK /\ QueueInv /\ FateInv /\ LoopInv

-----------------------------------------------------------------------------
LEMMA MembersAppend ==
  ASSUME NEW S, NEW s \in Seq(S), NEW x \in S
  PROVE  Members(Append(s, x)) = Members(s) \cup {x}
<1>1. DOMAIN Append(s, x) = DOMAIN s \cup {Len(s) + 1}
  OBVIOUS
<1>2. \A i \in DOMAIN s : Append(s, x)[i] = s[i]
  OBVIOUS
<1>3. Append(s, x)[Len(s) + 1] = x
  OBVIOUS
<1> QED
  BY <1>1, <1>2, <1>3 DEF Members, Channel!Members

(* The steps that only move the dispatch task, the handlers or the         *)
(* subscriptions.                                                          *)
LEMMA QuietStep ==
  ASSUME UNCHANGED <<queue, pending, sequence, current, fate, accepted, log>>,
         QueueInv, FateInv
  PROVE  QueueInv' /\ FateInv'
BY DEF QueueInv, FateInv, NothingLost, Members, Channel!Members

-----------------------------------------------------------------------------
LEMMA TypeInit == Init => TypeOK
<1>1. <<>> \in Seq(Events)
  OBVIOUS
<1>2. [e \in Events |-> "new"] \in [Events -> Fates]
  BY DEF Fates
<1> SUFFICES ASSUME Init PROVE TypeOK
  OBVIOUS
<1>3. fate \in [Events -> Fates] /\ accepted \in Seq(Events) /\ log \in Seq(Events)
  BY <1>1, <1>2 DEF Init
<1>4. /\ subscribed \subseteq Subscriptions
      /\ active \subseteq Subscriptions
      /\ queue \subseteq Entries
      /\ warning \subseteq Subscriptions \X Events
  BY DEF Init
<1>5. pending \in Nat /\ sequence \in Nat
  BY DEF Init
<1>6. QED
  BY <1>3, <1>4, <1>5 DEF Init, TypeOK, Places

LEMMA TypeStep == TypeOK /\ [Next]_vars => TypeOK'
<1> SUFFICES ASSUME TypeOK, [Next]_vars PROVE TypeOK'
  OBVIOUS
<1> USE BusConstants DEF TypeOK, Fates, Places, Entries, busVars, histVars
<1>1. ASSUME NEW s \in Subscriptions, Subscribe(s) \/ Unsubscribe(s)
      PROVE TypeOK'
  BY <1>1 DEF Subscribe, Unsubscribe
<1>2. ASSUME NEW e \in Events, EmitQueued(e)
      PROVE TypeOK'
  <2>1. queue' \subseteq Entries
    BY <1>2 DEF EmitQueued
  <2>2. QED
    BY <1>2, <2>1 DEF EmitQueued
<1>3. ASSUME NEW e \in Events, EmitDropped(e)
      PROVE TypeOK'
  BY <1>3 DEF EmitDropped
<1>4. ASSUME NEW s \in Subscriptions, NEW e \in Events, WarningDone(s, e)
      PROVE TypeOK'
  BY <1>4 DEF WarningDone
<1>5. ASSUME Start \/ Stop
      PROVE TypeOK'
  <2>1. [prio |-> 0, seq |-> 0, ev |-> Sentinel] \in Entries
    OBVIOUS
  <2>2. CASE Start
    BY <2>2 DEF Start
  <2>3. CASE Stop
    BY <2>1, <2>3 DEF Stop
  <2>4. QED
    BY <1>5, <2>2, <2>3
<1>6. ASSUME NEW s \in Subscriptions, HandlerDone(s)
      PROVE TypeOK'
  BY <1>6 DEF HandlerDone
<1>7. ASSUME LoopExit \/ LoopWait \/ InvokeDone \/ DrainDone
      PROVE TypeOK'
  BY <1>7 DEF LoopExit, LoopWait, InvokeDone, DrainDone
<1>8. ASSUME NEW q \in queue, q.ev # Sentinel, NEW p \in Places, Dispatch(q, p)
      PROVE TypeOK'
  <2>1. q.ev \in Events
    BY <1>8
  <2>2. pending' \in Nat
    BY <1>8 DEF Dispatch
  <2>3. QED
    BY <1>8, <2>1, <2>2 DEF Dispatch
<1>9. ASSUME NEW q \in queue, Take(q)
      PROVE TypeOK'
  <2>1. CASE LoopTake(q)
    BY <1>8, <2>1 DEF LoopTake
  <2>2. CASE DrainTake(q)
    BY <1>8, <2>2 DEF DrainTake
  <2>3. CASE LoopTakeSentinel(q) \/ DrainSkip(q)
    BY <2>3 DEF LoopTakeSentinel, DrainSkip
  <2>4. QED
    BY <1>9, <2>1, <2>2, <2>3 DEF Take
<1>10. CASE UNCHANGED vars
  BY <1>10 DEF vars
<1>11. QED
  BY <1>1, <1>2, <1>3, <1>4, <1>5, <1>6, <1>7, <1>9, <1>10
     DEF Next, DispatchTask, Environment

(* The state variables keep their types.                                   *)
THEOREM TypeCorrect == Spec => []TypeOK
<1>1. QED
  BY TypeInit, TypeStep, PTL DEF Spec


-----------------------------------------------------------------------------
(* What emit() does to the queue's place in the order of acceptance.       *)
LEMMA EmitStep ==
  ASSUME IInv, NEW e \in Events, EmitQueued(e)
  PROVE  QueueInv' /\ FateInv'
<1> USE DEF IInv, TypeOK
<1> DEFINE new == [prio |-> -Priority[e], seq |-> sequence + 1, ev |-> e]
<1>1. /\ accepted' = Append(accepted, e)
      /\ accepted' \in Seq(Events)
      /\ Len(accepted') = Len(accepted) + 1
      /\ DOMAIN accepted' = DOMAIN accepted \cup {Len(accepted) + 1}
      /\ DOMAIN accepted = 1 .. Len(accepted)
      /\ \A i \in DOMAIN accepted : accepted'[i] = accepted[i]
      /\ accepted'[Len(accepted) + 1] = e
  BY DEF EmitQueued
<1>2. Members(accepted)' = Members(accepted) \cup {e}
  BY <1>1, MembersAppend DEF Members
<1>3. queue' = queue \cup {new} /\ new.ev = e /\ e # Sentinel
  BY BusConstants DEF EmitQueued
<1>4. fate[e] = "new" /\ fate' = [fate EXCEPT ![e] = "queued"]
  BY DEF EmitQueued
<1>5. log' = log /\ current' = current /\ sequence' = sequence + 1
  BY DEF EmitQueued
<1>6. e \notin Members(accepted) /\ e \notin Members(log)
  BY <1>4 DEF FateInv
<1>7. QueueInv'
  <2>1. sequence' = Len(accepted')
    BY <1>1, <1>5 DEF QueueInv
  <2>2. \A q \in queue' : q.ev = Sentinel => q.prio = 0 /\ q.seq = 0
    BY <1>3 DEF QueueInv
  <2>3. \A q \in queue' : q.ev # Sentinel =>
          q.seq \in DOMAIN accepted' /\ accepted'[q.seq] = q.ev /\ q.prio = -Priority[q.ev]
    <3> SUFFICES ASSUME NEW q \in queue', q.ev # Sentinel
                 PROVE  q.seq \in DOMAIN accepted' /\ accepted'[q.seq] = q.ev
                        /\ q.prio = -Priority[q.ev]
      OBVIOUS
    <3>1. CASE q = new
      BY <3>1, <1>1 DEF QueueInv
    <3>2. CASE q \in queue
      BY <3>2, <1>1 DEF QueueInv
    <3>3. QED
      BY <3>1, <3>2, <1>3
  <2>4. \A i, j \in DOMAIN accepted' : accepted'[i] = accepted'[j] => i = j
    BY <1>1, <1>6 DEF QueueInv, Members, Channel!Members
  <2>5. QED
    BY <2>1, <2>2, <2>3, <2>4 DEF QueueInv
<1>8. FateInv'
  <2>1. \A d \in Events : fate'[d] = IF d = e THEN "queued" ELSE fate[d]
    BY <1>4
  <2>2. Members(log)' = Members(log)
    BY <1>5 DEF Members, Channel!Members
  <2>3. current # e
    BY <1>4 DEF FateInv, NothingLost
  <2>4. \A d \in Events : fate'[d] = "queued" <=> \E q \in queue' : q.ev = d
    <3> HIDE DEF new
    <3>1. \A d \in Events : (\E q \in queue' : q.ev = d) <=> d = e \/ \E q \in queue : q.ev = d
      BY <1>3
    <3>2. \A d \in Events : fate[d] = "queued" <=> \E q \in queue : q.ev = d
      BY DEF FateInv, NothingLost
    <3>3. QED
      BY <2>1, <3>1, <3>2
  <2>5. \A d \in Events : fate'[d] = "dispatching" <=> current' = d
    BY <1>5, <2>1, <2>3 DEF FateInv, NothingLost
  <2>6. \A d \in Events : fate'[d] = "dropped" => ~Urgent(d)
    BY <2>1 DEF FateInv, NothingLost
  <2>7. QED
    BY <1>2, <1>6, <2>1, <2>2, <2>4, <2>5, <2>6 DEF FateInv, NothingLost
<1>9. QED
  BY <1>7, <1>8

(* What taking a queue entry does: its event moves from queue to log.      *)
LEMMA DispatchStep ==
  ASSUME IInv, NEW q \in queue, q.ev # Sentinel, NEW p \in Places, Dispatch(q, p),
         current = Sentinel
  PROVE  QueueInv' /\ FateInv'
<1> USE DEF IInv, TypeOK
<1> DEFINE e == q.ev
<1>1. e \in Events
  BY DEF Entries
<1>2. /\ queue' = queue \ {q} /\ current' = e
      /\ fate' = [fate EXCEPT ![e] = "dispatching"]
      /\ log' = Append(log, e)
      /\ accepted' = accepted /\ sequence' = sequence
  BY DEF Dispatch
<1>3. fate[e] = "queued"
  BY <1>1 DEF FateInv, NothingLost
<1>4. \A r \in queue : r.ev = e => r = q
  <2> SUFFICES ASSUME NEW r \in queue, r.ev = e PROVE r = q
    OBVIOUS
  <2>1. r.seq = q.seq /\ r.prio = q.prio
    BY DEF QueueInv
  <2>2. r \in Entries /\ q \in Entries
    OBVIOUS
  <2>3. QED
    BY <2>1, <2>2 DEF Entries
<1>5. QueueInv'
  BY <1>2 DEF QueueInv
<1>6. FateInv'
  <2>1. \A d \in Events : fate'[d] = IF d = e THEN "dispatching" ELSE fate[d]
    BY <1>1, <1>2
  <2>2. Members(log)' = Members(log) \cup {e}
    BY <1>1, <1>2, MembersAppend DEF Members
  <2>3. Members(accepted)' = Members(accepted)
    BY <1>2 DEF Members, Channel!Members
  <2>4. \A d \in Events : fate'[d] = "queued" <=> \E r \in queue' : r.ev = d
    BY <1>2, <1>4, <2>1 DEF FateInv, NothingLost
  <2>5. \A d \in Events : fate[d] # "dispatching"
    BY BusConstants DEF FateInv, NothingLost
  <2>6. \A d \in Events : fate'[d] = "dispatching" <=> current' = d
    BY <1>2, <2>1, <2>5
  <2>7. \A d \in Events : fate'[d] = "dropped" => ~Urgent(d)
    BY <2>1 DEF FateInv, NothingLost
  <2>8. QED
    BY <1>1, <1>3, <2>1, <2>2, <2>3, <2>4, <2>6, <2>7 DEF FateInv, NothingLost
<1>7. QED
  BY <1>5, <1>6

(* Only a task that holds no event takes one.                              *)
LEMMA TakerIsFree ==
  ASSUME IInv, NEW q \in queue, LoopTake(q) \/ DrainTake(q)
  PROVE  /\ current = Sentinel /\ active = {}
         /\ IsHead(q) /\ q.ev # Sentinel
         /\ \E p \in {"invoke", "drain_invoke"} : Dispatch(q, p)
BY DEF IInv, LoopInv, LoopTake, DrainTake, CanTake

-----------------------------------------------------------------------------
(* The inductive invariant: the queue's entries, the fates, the history    *)
(* and the task's program counter agree.                                   *)
THEOREM Inductive == Spec => []IInv
<1>1. Init => IInv
  <2> SUFFICES ASSUME Init, TypeOK PROVE QueueInv /\ FateInv /\ LoopInv
    BY TypeInit DEF IInv
  <2>1. Members(accepted) = {} /\ Members(log) = {}
    BY DEF Init, Members, Channel!Members
  <2>2. QueueInv
    BY DEF Init, QueueInv
  <2>3. FateInv
    <3>1. \A e \in Events : fate[e] = "new" /\ current # e
      BY BusConstants DEF Init
    <3>2. queue = {}
      BY DEF Init
    <3>3. QED
      BY <2>1, <3>1, <3>2 DEF FateInv, NothingLost
  <2>4. LoopInv
    BY DEF Init, LoopInv
  <2>5. QED
    BY <2>2, <2>3, <2>4
<1>2. IInv /\ [Next]_vars => IInv'
  <2> SUFFICES ASSUME IInv, [Next]_vars PROVE IInv'
    OBVIOUS
  <2>1. TypeOK'
    BY TypeStep DEF IInv
  <2> SUFFICES QueueInv' /\ FateInv' /\ LoopInv'
    BY <2>1 DEF IInv
  <2>2. ASSUME NEW s \in Subscriptions, Subscribe(s) \/ Unsubscribe(s)
        PROVE QueueInv' /\ FateInv' /\ LoopInv'
    BY <2>2, QuietStep DEF Subscribe, Unsubscribe, IInv, LoopInv, histVars
  <2>3. ASSUME NEW e \in Events, EmitQueued(e)
        PROVE QueueInv' /\ FateInv' /\ LoopInv'
    BY <2>3, EmitStep DEF EmitQueued, IInv, LoopInv
  <2>4. ASSUME NEW e \in Events, EmitDropped(e)
        PROVE QueueInv' /\ FateInv' /\ LoopInv'
    <3>1. QueueInv' /\ LoopInv'
      BY <2>4 DEF EmitDropped, IInv, QueueInv, LoopInv
    <3>2. /\ fate[e] = "new" /\ ~Urgent(e)
          /\ UNCHANGED <<queue, current, accepted, log>>
      BY <2>4 DEF EmitDropped, Admits
    <3>3. \A d \in Events : fate'[d] = IF d = e THEN "dropped" ELSE fate[d]
      BY <2>4 DEF EmitDropped, IInv, TypeOK
    <3>4. Members(accepted)' = Members(accepted) /\ Members(log)' = Members(log)
      BY <3>2 DEF Members, Channel!Members
    <3>5. QED
      BY <3>1, <3>2, <3>3, <3>4 DEF IInv, FateInv, NothingLost
  <2>5. ASSUME NEW s \in Subscriptions, NEW e \in Events, WarningDone(s, e)
        PROVE QueueInv' /\ FateInv' /\ LoopInv'
    BY <2>5, QuietStep DEF WarningDone, IInv, LoopInv, histVars
  <2>6. CASE Start
    BY <2>6, QuietStep DEF Start, IInv, LoopInv, histVars
  <2>7. CASE Stop
    <3> DEFINE z == [prio |-> 0, seq |-> 0, ev |-> Sentinel]
    <3>1. LoopInv'
      BY <2>7 DEF Stop, IInv, LoopInv
    <3>2. /\ queue' = queue \cup {z} /\ z.ev = Sentinel /\ z.prio = 0 /\ z.seq = 0
          /\ UNCHANGED <<sequence, current, fate, accepted, log>>
      BY <2>7 DEF Stop, histVars
    <3> HIDE DEF z
    <3>3. QueueInv'
      BY <3>2 DEF IInv, QueueInv
    <3>4. \A e \in Events : (\E q \in queue' : q.ev = e) <=> \E q \in queue : q.ev = e
      BY <3>2, BusConstants
    <3>5. FateInv'
      BY <3>2, <3>4 DEF IInv, FateInv, NothingLost, Members, Channel!Members
    <3>6. QED
      BY <3>1, <3>3, <3>5
  <2>8. ASSUME NEW s \in Subscriptions, HandlerDone(s)
        PROVE QueueInv' /\ FateInv' /\ LoopInv'
    BY <2>8, QuietStep DEF HandlerDone, IInv, LoopInv, histVars
  <2>9. CASE LoopExit \/ LoopWait \/ DrainDone
    BY <2>9, QuietStep DEF LoopExit, LoopWait, DrainDone, IInv, LoopInv, histVars
  <2>10. CASE InvokeDone
    <3>1. /\ current \in Events /\ current' = Sentinel /\ active' = {}
          /\ loop' \in {"top", "drain"}
          /\ UNCHANGED <<queue, sequence, accepted, log>>
      BY <2>10 DEF InvokeDone, IInv, LoopInv, TypeOK
    <3>2. \A d \in Events : fate'[d] = IF d = current THEN "done" ELSE fate[d]
      BY <2>10, <3>1 DEF InvokeDone, IInv, TypeOK
    <3>3. QueueInv' /\ LoopInv'
      BY <3>1 DEF IInv, QueueInv, LoopInv
    <3>4. Members(accepted)' = Members(accepted) /\ Members(log)' = Members(log)
      BY <3>1 DEF Members, Channel!Members
    <3>5. fate[current] = "dispatching"
      BY <3>1 DEF IInv, FateInv, NothingLost
    <3>6. NothingLost'
      BY <3>1, <3>2, <3>5, BusConstants DEF IInv, FateInv, NothingLost
    <3>7. QED
      BY <3>1, <3>2, <3>3, <3>4, <3>5, <3>6 DEF IInv, FateInv
  <2>11. ASSUME NEW q \in queue, LoopTake(q) \/ DrainTake(q)
         PROVE QueueInv' /\ FateInv' /\ LoopInv'
    <3>1. /\ current = Sentinel /\ q.ev # Sentinel
      BY <2>11, TakerIsFree
    <3>2. PICK p \in {"invoke", "drain_invoke"} : Dispatch(q, p)
      BY <2>11, TakerIsFree
    <3>3. QueueInv' /\ FateInv'
      BY <3>1, <3>2, DispatchStep DEF Places
    <3>4. LoopInv'
      BY <3>1, <3>2 DEF Dispatch, LoopInv
    <3>5. QED
      BY <3>3, <3>4
  <2>12. ASSUME NEW q \in queue, LoopTakeSentinel(q) \/ DrainSkip(q)
         PROVE QueueInv' /\ FateInv' /\ LoopInv'
    <3>1. /\ q.ev = Sentinel /\ queue' = queue \ {q}
          /\ UNCHANGED <<sequence, current, active, fate, accepted, log>>
          /\ loop' = "drain" /\ loop \in {"top", "get", "drain"}
      BY <2>12 DEF LoopTakeSentinel, DrainSkip, CanTake, histVars
    <3>2. QueueInv' /\ LoopInv'
      BY <3>1 DEF IInv, QueueInv, LoopInv
    <3>3. \A e \in Events : (\E r \in queue' : r.ev = e) <=> \E r \in queue : r.ev = e
      BY <3>1, BusConstants
    <3>4. FateInv'
      BY <3>1, <3>3 DEF IInv, FateInv, NothingLost, Members, Channel!Members
    <3>5. QED
      BY <3>2, <3>4
  <2>13. CASE UNCHANGED vars
    BY <2>13, QuietStep DEF vars, IInv, LoopInv
  <2>14. QED
    BY <2>2, <2>3, <2>4, <2>5, <2>6, <2>7, <2>8, <2>9, <2>10, <2>11, <2>12, <2>13
       DEF Next, DispatchTask, Environment, Take
<1>3. QED
  BY <1>1, <1>2, PTL DEF Spec

(* No event is lost between emit(), the queue, the task and shutdown.      *)
THEOREM NoEventLost == Spec => []NothingLost
BY Inductive, PTL DEF IInv, FateInv

(* Handlers of two events never run at the same time.                      *)
THEOREM HandlersDoNotOverlap == Spec => NoOverlap
<1>1. IInv /\ [Next]_vars =>
        [log' # log => active = {} /\ \A e \in Events : fate[e] # "dispatching"]_vars
  <2> SUFFICES ASSUME IInv, Next, log' # log
               PROVE active = {} /\ \A e \in Events : fate[e] # "dispatching"
    OBVIOUS
  <2>1. PICK q \in queue : LoopTake(q) \/ DrainTake(q)
    BY DEF Next, DispatchTask, Environment, Take, Subscribe, Unsubscribe, EmitQueued,
           EmitDropped, WarningDone, Start, Stop, LoopExit, LoopWait, HandlerDone,
           InvokeDone, DrainDone, LoopTakeSentinel, DrainSkip, histVars
  <2>2. current = Sentinel /\ active = {}
    BY <2>1, TakerIsFree
  <2>3. QED
    BY <2>2, BusConstants DEF IInv, FateInv, NothingLost
<1>2. QED
  BY <1>1, Inductive, PTL DEF Spec, NoOverlap

-----------------------------------------------------------------------------
(* The bus implements the abstract channel.                                *)
LEMMA DispatchDelivers ==
  ASSUME IInv, NEW q \in queue, LoopTake(q) \/ DrainTake(q)
  PROVE  Channel!Deliver(q.seq) /\ q.seq \in DOMAIN accepted
<1> USE DEF IInv, TypeOK
<1>1. /\ current = Sentinel /\ q.ev # Sentinel /\ IsHead(q)
      /\ \E p \in {"invoke", "drain_invoke"} : Dispatch(q, p)
  BY TakerIsFree
<1>2. q.ev \in Events /\ fate[q.ev] = "queued"
  BY <1>1 DEF Entries, FateInv, NothingLost
<1>3. q.seq \in DOMAIN accepted /\ accepted[q.seq] = q.ev /\ q.prio = -Priority[q.ev]
  BY <1>1 DEF QueueInv
<1>4. /\ log' = Append(log, q.ev) /\ accepted' = accepted
      /\ fate' = [fate EXCEPT ![q.ev] = "dispatching"]
  BY <1>1 DEF Dispatch
<1>5. \A e \in Events : fate'[e] = "dropped" <=> fate[e] = "dropped"
  BY <1>2, <1>4
<1>6. \A e \in Events : e \in Channel!Waiting <=> fate[e] = "queued"
  BY DEF FateInv, Members, Channel!Waiting
<1>7. \A j \in DOMAIN accepted : accepted[j] \in Events
  OBVIOUS
<1>8. Channel!Due(q.seq)
  <2> SUFFICES ASSUME NEW j \in DOMAIN accepted, accepted[j] \in Channel!Waiting, j # q.seq
               PROVE  \/ Priority[accepted[j]] < Priority[accepted[q.seq]]
                      \/ /\ Priority[accepted[j]] = Priority[accepted[q.seq]]
                         /\ q.seq < j
    BY <1>2, <1>3, <1>6 DEF Channel!Due
  <2>1. PICK r \in queue : r.ev = accepted[j]
    BY <1>6, <1>7 DEF FateInv, NothingLost
  <2>2. r.ev # Sentinel
    BY <1>7, <2>1, BusConstants
  <2>3. r.seq = j /\ r.prio = -Priority[accepted[j]]
    BY <2>1, <2>2 DEF QueueInv
  <2>4. Before(q, r)
    BY <1>1, <2>3 DEF IsHead
  <2>5. Priority[accepted[j]] \in Nat /\ Priority[q.ev] \in Nat
    BY <1>2, <1>7, BusConstants
  <2>6. QED
    BY <1>3, <2>3, <2>4, <2>5 DEF Before
<1>9. QED
  BY <1>3, <1>4, <1>5, <1>8 DEF Channel!Deliver

(* A dropped event was refused; every other step leaves the channel alone  *)
(* or accepts an event.                                                    *)
THEOREM BusImplementsChannel == Spec => ImplementsChannel
<1>1. Init => Channel!Init
  BY DEF Init, Channel!Init
<1>2. IInv /\ [Next]_vars => [Channel!Next]_(Channel!channelVars)
  <2> SUFFICES ASSUME IInv, [Next]_vars PROVE [Channel!Next]_(Channel!channelVars)
    OBVIOUS
  <2> DEFINE dropped == {e \in Events : fate[e] = "dropped"}
  <2>1. ASSUME UNCHANGED <<accepted, log, fate>>
        PROVE UNCHANGED Channel!channelVars
    BY <2>1 DEF Channel!channelVars
  <2>2. ASSUME NEW e \in Events, fate[e] = "new"
        PROVE e \notin Channel!Members(accepted) \cup dropped
    BY <2>2 DEF IInv, FateInv, Members
  <2>3. ASSUME NEW e \in Events, EmitQueued(e)
        PROVE Channel!Accept(e)
    <3>1. fate[e] = "new" /\ fate' = [fate EXCEPT ![e] = "queued"]
      BY <2>3 DEF EmitQueued
    <3>2. dropped' = dropped
      BY <3>1 DEF IInv, TypeOK
    <3>3. QED
      BY <2>2, <2>3, <3>1, <3>2 DEF EmitQueued, Channel!Accept
  <2>4. ASSUME NEW e \in Events, EmitDropped(e)
        PROVE Channel!Refuse(e)
    <3>1. fate[e] = "new" /\ fate' = [fate EXCEPT ![e] = "dropped"] /\ ~Urgent(e)
      BY <2>4 DEF EmitDropped, Admits
    <3>2. dropped' = dropped \cup {e}
      BY <3>1 DEF IInv, TypeOK
    <3>3. Priority[e] < UrgentThreshold
      BY <3>1, BusConstants DEF Urgent
    <3>4. QED
      BY <2>2, <2>4, <3>1, <3>2, <3>3 DEF EmitDropped, Channel!Refuse
  <2>5. ASSUME NEW q \in queue, LoopTake(q) \/ DrainTake(q)
        PROVE Channel!Next
    BY <2>5, DispatchDelivers DEF Channel!Next
  <2>6. CASE InvokeDone
    <3>1. fate[current] = "dispatching" /\ current \in Events
      BY <2>6 DEF InvokeDone, IInv, TypeOK, LoopInv, FateInv, NothingLost
    <3>2. dropped' = dropped /\ UNCHANGED <<accepted, log>>
      BY <2>6, <3>1 DEF InvokeDone, IInv, TypeOK
    <3>3. QED
      BY <3>2 DEF Channel!channelVars
  <2>7. ASSUME \/ \E s \in Subscriptions : Subscribe(s) \/ Unsubscribe(s) \/ HandlerDone(s)
               \/ \E s \in Subscriptions, e \in Events : WarningDone(s, e)
               \/ Start \/ Stop \/ LoopExit \/ LoopWait \/ DrainDone
               \/ \E q \in queue : LoopTakeSentinel(q) \/ DrainSkip(q)
               \/ UNCHANGED vars
        PROVE UNCHANGED <<accepted, log, fate>>
    BY <2>7 DEF Subscribe, Unsubscribe, HandlerDone, WarningDone, Start, Stop, LoopExit,
                LoopWait, DrainDone, LoopTakeSentinel, DrainSkip, vars, histVars
  <2>8. QED
    BY <2>1, <2>3, <2>4, <2>5, <2>6, <2>7
       DEF Next, DispatchTask, Environment, Take, Channel!Next
<1>3. QED
  BY <1>1, <1>2, Inductive, PTL DEF Spec, ImplementsChannel, Channel!Spec

-----------------------------------------------------------------------------
(* Counting: what one entry more or less does to the two cardinalities.    *)
Backlog == {q \in Queued : ~Urgent(q.ev)}

LEMMA QueuedIsFinite ==
  ASSUME IsFiniteSet(queue)
  PROVE  /\ IsFiniteSet(Queued) /\ IsFiniteSet(Backlog)
         /\ Cardinality(Queued) \in Nat /\ Cardinality(Backlog) \in Nat
         /\ Cardinality(Backlog) <= Cardinality(Queued)
<1>1. Queued \subseteq queue /\ Backlog \subseteq Queued
  BY DEF Queued, Backlog
<1>2. IsFiniteSet(Queued)
  BY <1>1, FS_Subset
<1>3. IsFiniteSet(Backlog) /\ Cardinality(Backlog) <= Cardinality(Queued)
  BY <1>1, <1>2, FS_Subset
<1>4. QED
  BY <1>2, <1>3, FS_CardinalityType

LEMMA CountEmit ==
  ASSUME IInv, CountInv, NEW e \in Events, EmitQueued(e)
  PROVE  CountInv'
<1> DEFINE new == [prio |-> -Priority[e], seq |-> sequence + 1, ev |-> e]
<1>1. /\ queue' = queue \cup {new} /\ new.ev = e /\ e # Sentinel
      /\ pending' = pending + 1 /\ fate[e] = "new" /\ Admits(e)
  BY BusConstants DEF EmitQueued
<1> HIDE DEF new
<1>2. new \notin queue
  BY <1>1 DEF IInv, FateInv, NothingLost
<1>3. Queued' = Queued \cup {new} /\ new \notin Queued
  BY <1>1, <1>2 DEF Queued
<1>4. IsFiniteSet(queue')
  BY <1>1, FS_AddElement DEF CountInv
<1>5. PendingExact'
  BY <1>1, <1>3, QueuedIsFinite, FS_AddElement DEF CountInv, PendingExact
<1>6. BacklogBounded'
  <2>1. CASE Urgent(e)
    <3>1. Backlog' = Backlog
      BY <1>1, <1>3, <2>1 DEF Backlog, Urgent
    <3>2. QED
      BY <3>1 DEF CountInv, BacklogBounded, Backlog
  <2>2. CASE ~Urgent(e)
    <3>1. pending < MaxQueueDepth
      BY <1>1, <2>2 DEF Admits
    <3>2. Backlog' = Backlog \cup {new} /\ new \notin Backlog
      BY <1>1, <1>3, <2>2 DEF Backlog, Urgent
    <3>3. Cardinality(Backlog') = Cardinality(Backlog) + 1
      BY <3>2, QueuedIsFinite, FS_AddElement DEF CountInv
    <3>4. Cardinality(Backlog) <= pending
      BY QueuedIsFinite DEF CountInv, PendingExact
    <3>5. Cardinality(Backlog') <= MaxQueueDepth
      BY <3>1, <3>3, <3>4, QueuedIsFinite, BusConstants DEF CountInv, IInv, TypeOK
    <3>6. QED
      BY <3>5 DEF BacklogBounded, Backlog
  <2>3. QED
    BY <2>1, <2>2
<1>7. QED
  BY <1>4, <1>5, <1>6 DEF CountInv

LEMMA CountDispatch ==
  ASSUME IInv, CountInv, NEW q \in queue, q.ev # Sentinel,
         NEW p \in {"invoke", "drain_invoke"}, Dispatch(q, p)
  PROVE  CountInv'
<1>1. queue' = queue \ {q} /\ pending' = IF pending > 0 THEN pending - 1 ELSE 0
  BY DEF Dispatch
<1>2. Queued' = Queued \ {q} /\ q \in Queued
  BY <1>1 DEF Queued
<1>3. IsFiniteSet(queue')
  BY <1>1, FS_RemoveElement DEF CountInv
<1>4. Cardinality(Queued') = Cardinality(Queued) - 1
  BY <1>2, QueuedIsFinite, FS_RemoveElement DEF CountInv
<1>5. Cardinality(Queued) > 0
  BY <1>2, QueuedIsFinite, FS_EmptySet DEF CountInv
<1>6. PendingExact'
  BY <1>1, <1>4, <1>5, QueuedIsFinite DEF CountInv, PendingExact
<1>7. Backlog' \subseteq Backlog
  BY <1>2 DEF Backlog, Urgent
<1>8. Cardinality(Backlog') <= Cardinality(Backlog) /\ IsFiniteSet(Backlog')
  BY <1>7, QueuedIsFinite, FS_Subset DEF CountInv
<1>9. Cardinality(Backlog') \in Nat
  BY <1>8, FS_CardinalityType
<1>10. Cardinality(Backlog) <= MaxQueueDepth
  BY DEF CountInv, BacklogBounded, Backlog
<1>11. Cardinality(Backlog') <= MaxQueueDepth
  BY <1>8, <1>9, <1>10, QueuedIsFinite, BusConstants DEF CountInv
<1>12. BacklogBounded'
  BY <1>11 DEF BacklogBounded, Backlog
<1>13. QED
  BY <1>3, <1>6, <1>12 DEF CountInv

LEMMA CountSame ==
  ASSUME CountInv, IsFiniteSet(queue'), Queued' = Queued, pending' = pending
  PROVE  CountInv'
BY DEF CountInv, PendingExact, BacklogBounded, Urgent

(* The counter is exact, and the non-urgent backlog stays within bounds.   *)
THEOREM QueueBounded == Spec => []DepthKept
<1>1. Init => CountInv
  <2> SUFFICES ASSUME Init PROVE CountInv
    OBVIOUS
  <2>1. Queued = {} /\ Backlog = {} /\ queue = {} /\ pending = 0
    BY DEF Init, Queued, Backlog
  <2>2. Cardinality({}) = 0 /\ IsFiniteSet({})
    BY FS_EmptySet
  <2>3. QED
    BY <2>1, <2>2, BusConstants DEF CountInv, PendingExact, BacklogBounded, Backlog
<1>2. IInv /\ CountInv /\ [Next]_vars => CountInv'
  <2> SUFFICES ASSUME IInv, CountInv, [Next]_vars PROVE CountInv'
    OBVIOUS
  <2>1. ASSUME NEW e \in Events, EmitQueued(e)
        PROVE CountInv'
    BY <2>1, CountEmit
  <2>2. ASSUME NEW q \in queue, LoopTake(q) \/ DrainTake(q)
        PROVE CountInv'
    BY <2>2, CountDispatch, TakerIsFree
  <2>3. CASE Stop
    <3> DEFINE z == [prio |-> 0, seq |-> 0, ev |-> Sentinel]
    <3>1. queue' = queue \cup {z} /\ z.ev = Sentinel /\ pending' = pending
      BY <2>3 DEF Stop
    <3> HIDE DEF z
    <3>2. Queued' = Queued
      BY <3>1 DEF Queued
    <3>3. IsFiniteSet(queue')
      BY <3>1, FS_AddElement DEF CountInv
    <3>4. QED
      BY <3>1, <3>2, <3>3, CountSame
  <2>4. ASSUME NEW q \in queue, LoopTakeSentinel(q) \/ DrainSkip(q)
        PROVE CountInv'
    <3>1. queue' = queue \ {q} /\ q.ev = Sentinel /\ pending' = pending
      BY <2>4 DEF LoopTakeSentinel, DrainSkip
    <3>2. Queued' = Queued
      BY <3>1 DEF Queued
    <3>3. IsFiniteSet(queue')
      BY <3>1, FS_RemoveElement DEF CountInv
    <3>4. QED
      BY <3>1, <3>2, <3>3, CountSame
  <2>5. ASSUME UNCHANGED <<queue, pending>>
        PROVE CountInv'
    BY <2>5, CountSame DEF CountInv, Queued
  <2>6. ASSUME \/ \E s \in Subscriptions : Subscribe(s) \/ Unsubscribe(s) \/ HandlerDone(s)
               \/ \E s \in Subscriptions, e \in Events : WarningDone(s, e)
               \/ \E e \in Events : EmitDropped(e)
               \/ Start \/ LoopExit \/ LoopWait \/ DrainDone \/ InvokeDone
               \/ UNCHANGED vars
        PROVE UNCHANGED <<queue, pending>>
    BY <2>6 DEF Subscribe, Unsubscribe, HandlerDone, WarningDone, EmitDropped, Start,
                LoopExit, LoopWait, DrainDone, InvokeDone, vars
  <2>7. QED
    BY <2>1, <2>2, <2>3, <2>4, <2>5, <2>6 DEF Next, DispatchTask, Environment, Take
<1>3. QED
  BY <1>1, <1>2, Inductive, PTL DEF Spec, CountInv, DepthKept
=============================================================================
