------------------------------ MODULE Webhooks ------------------------------
(***************************************************************************)
(* Webhooks: the registry and the inbound side of                          *)
(* automation/webhooks/manager.py and the deliveries of outbound.py, each  *)
(* a task that posts one event to one hook, with retries.                  *)
(*                                                                         *)
(* What a delivery emits when it ends has the prefix of its hook, so a     *)
(* hook hears of its own deliveries and delivers that too, without end.    *)
(***************************************************************************)
EXTENDS Naturals, Sequences, FiniteSets, SequencesExt

CONSTANTS
  Inbound, Outbound,  \* the hooks
  Hears,              \* of an outbound hook: those whose event types begin like its prefix
  DeadLetter,         \* stands for the notices of dead letters
  MaxPerUser,         \* max_webhooks_per_user
  MaxRetries,         \* max_retries
  MaxReceived,        \* bound: inbound requests
  MaxDeliveries       \* bound: deliveries

Hooks == Inbound \cup Outbound

VARIABLES
  hook,        \* status of each hook
  log,         \* _events: how many were processed and failed; Gone without an entry
  dead,        \* _dead_letters: how many
  bus,         \* events the bus has not dispatched, by the hook they are of
  deliveries,  \* all deliveries: hook, place, posts made
  received     \* how many inbound requests came

vars == <<hook, log, dead, bus, deliveries, received>>

Fresh == [failed |-> 0, processed |-> 0]
Gone == [failed |-> 0, gone |-> TRUE, processed |-> 0]

Init ==
  /\ hook = [h \in Hooks |-> "new"]
  /\ log = [h \in Hooks |-> Gone]
  /\ dead = [h \in Hooks |-> 0]
  /\ bus = <<>>
  /\ deliveries = <<>>
  /\ received = 0

-----------------------------------------------------------------------------
(* The registry.                                                           *)
Registered == {h \in Hooks : hook[h] \in {"active", "paused", "disabled"}}

Register(h) ==
  /\ hook[h] = "new" /\ Cardinality(Registered) < MaxPerUser
  /\ hook' = [hook EXCEPT ![h] = "active"]
  /\ log' = [log EXCEPT ![h] = Fresh]
  /\ UNCHANGED <<dead, bus, deliveries, received>>

UpdateStatus(h, status) ==
  /\ h \in Registered
  /\ hook' = [hook EXCEPT ![h] = status]
  /\ UNCHANGED <<log, dead, bus, deliveries, received>>

\* Dead letters are kept.
DeleteAll(h) ==  \* slip
  /\ h \in Registered
  /\ hook' = [hook EXCEPT ![h] = "deleted"]
  /\ log' = [log EXCEPT ![h] = Gone] /\ dead' = [dead EXCEPT ![h] = 0]
  /\ UNCHANGED <<bus, deliveries, received>>
Delete(h) ==
  /\ h \in Registered
  /\ hook' = [hook EXCEPT ![h] = "deleted"]
  /\ log' = [log EXCEPT ![h] = Gone]
  /\ UNCHANGED <<dead, bus, deliveries, received>>

\* An entry is appended to the list of h, a new list when h has none.
Entered(h, kind) ==
  LET list == IF log[h] = Gone THEN Fresh ELSE log[h] IN
  log' = [log EXCEPT ![h] = [list EXCEPT ![kind] = @ + 1]]

\* process_inbound(): the signature verifies, or the request is logged and
\* refused.
Receive(h, valid) ==
  /\ h \in Inbound /\ hook[h] = "active" /\ received < MaxReceived
  /\ received' = received + 1
  /\ bus' = IF valid THEN Append(bus, h) ELSE bus
  /\ Entered(h, IF valid THEN "processed" ELSE "failed")
  /\ UNCHANGED <<hook, dead, deliveries>>

-----------------------------------------------------------------------------
(* Deliveries.                                                             *)
Matching(source) == {h \in Outbound : hook[h] = "active" /\ source \in Hears[h]}

\* _on_event() starts a task for each hook that matches.
OnEvent ==
  /\ bus # <<>>
  /\ LET begun == [i \in 1 .. Cardinality(Matching(Head(bus))) |->
                     [at |-> "posting", hook |-> SetToSeq(Matching(Head(bus)))[i], posts |-> 0]] IN
     /\ Len(deliveries) + Len(begun) <= MaxDeliveries
     /\ deliveries' = deliveries \o begun
  /\ bus' = Tail(bus)
  /\ UNCHANGED <<hook, log, dead, received>>

Moved(i, place, posts) ==
  deliveries' = [deliveries EXCEPT ![i] = [at |-> place, hook |-> @.hook, posts |-> posts]]

\* Whatever has become of the hook meanwhile.
Sent(i) ==
  LET d == deliveries[i] IN
  /\ d.at = "posting"
  /\ Moved(i, "sent", d.posts + 1)
  /\ Entered(d.hook, "processed")
  /\ bus' = Append(bus, d.hook)
  /\ UNCHANGED <<hook, dead, received>>

Retry(i) ==
  LET d == deliveries[i] IN
  /\ d.at = "posting" /\ d.posts < MaxRetries
  /\ Moved(i, "sleeping", d.posts + 1)
  /\ UNCHANGED <<hook, log, dead, bus, received>>

Awake(i) ==
  LET d == deliveries[i] IN
  /\ d.at = "sleeping"
  /\ Moved(i, "posting", d.posts)
  /\ UNCHANGED <<hook, log, dead, bus, received>>

\* retry_count of a dead letter, attempts of the failure event.
Attempts == MaxRetries + 1

\* The notice of the dead letter is emitted, then the failure.
Exhausted(i) ==
  LET d == deliveries[i] IN
  /\ d.at = "posting" /\ d.posts >= MaxRetries
  /\ Moved(i, "failed", d.posts + 1)
  /\ Entered(d.hook, "failed")
  /\ dead' = [dead EXCEPT ![d.hook] = @ + 1]
  /\ bus' = bus \o <<DeadLetter, d.hook>>
  /\ UNCHANGED <<hook, received>>

\* stop(): the deliveries under way are cancelled.  The handler stays
\* subscribed, since start() never got the id of its subscription.
Stop ==
  /\ \E i \in DOMAIN deliveries : deliveries[i].at \in {"posting", "sleeping"}
  /\ deliveries' = [i \in DOMAIN deliveries |->
       IF deliveries[i].at \in {"posting", "sleeping"}
       THEN [at |-> "cancelled", hook |-> deliveries[i].hook, posts |-> deliveries[i].posts]
       ELSE deliveries[i]]
  /\ UNCHANGED <<hook, log, dead, bus, received>>

-----------------------------------------------------------------------------
Registry(h) ==
  \/ Register(h)
  \/ \E status \in {"active", "paused", "disabled"} : UpdateStatus(h, status)
  \/ Delete(h)
  \/ \E valid \in BOOLEAN : Receive(h, valid)

Deliver(i) == Sent(i) \/ Retry(i) \/ Awake(i) \/ Exhausted(i)

Next ==
  \/ \E h \in Hooks : Registry(h)
  \/ OnEvent
  \/ \E i \in DOMAIN deliveries : Deliver(i)
  \/ Stop

\* A post ends by its timeout, and the retry after its delay.
Fairness ==
  \A i \in 1 .. MaxDeliveries : WF_vars(i \in DOMAIN deliveries /\ Deliver(i))

Spec == Init /\ [][Next]_vars /\ Fairness

-----------------------------------------------------------------------------
Counts == [failed : Nat, processed : Nat] \cup {Gone}

TypeOK ==
  /\ hook \in [Hooks -> {"new", "active", "paused", "disabled", "deleted"}]
  /\ log \in [Hooks -> Counts]
  /\ dead \in [Hooks -> Nat]
  /\ bus \in Seq(Hooks \cup {DeadLetter})
  /\ deliveries \in Seq([at : {"posting", "sleeping", "sent", "failed", "cancelled"},
                         hook : Outbound, posts : 0 .. MaxRetries + 1])
  /\ received \in 0 .. MaxReceived

Ended(h, place) == Cardinality({i \in DOMAIN deliveries :
                                  deliveries[i].hook = h /\ deliveries[i].at = place})

\* While a hook is registered its events are those deliveries that ended, each once.
\* The dead letters are the failed ones also after the hook was deleted, though a
\* late delivery then gives it a list of events again (manager.py:116-127,
\* outbound.py:185-234).
LogsAgree ==
  \A h \in Outbound :
    /\ dead[h] = Ended(h, "failed")
    /\ h \in Registered => log[h] = [failed |-> Ended(h, "failed"), processed |-> Ended(h, "sent")]
    /\ hook[h] = "deleted" /\ log[h] # Gone => log[h].failed <= dead[h]

\* A dead letter and the failure event tell the truth: so many posts were made, and
\* none that goes on or was cancelled has had so many in vain.  It is the first post
\* and max_retries more, as the tests want ("initial + 2 retries",
\* tests/test_webhooks.py:1130); the docstring says less (AttemptsAsDocumented).
AttemptsTrue ==
  \A i \in DOMAIN deliveries :
    LET d == deliveries[i] IN
    /\ d.at = "failed" => d.posts = Attempts
    /\ d.at \in {"posting", "sleeping", "cancelled"} => d.posts < Attempts

\* Does not hold: "max_retries: Maximum delivery attempts per event" (outbound.py:65).
AttemptsAsDocumented == \A i \in DOMAIN deliveries : deliveries[i].posts <= MaxRetries

\* What the hooks' logs, dead letters and notices say is what happened.
BooksKept == LogsAgree /\ AttemptsTrue

\* Every delivery ends, whether or not its hook is still there.
DeliveriesEnd ==
  \A i \in 1 .. MaxDeliveries :
    i \in DOMAIN deliveries ~> i \in DOMAIN deliveries
                               /\ deliveries[i].at \in {"sent", "failed", "cancelled"}
=============================================================================
