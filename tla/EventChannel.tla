---------------------------- MODULE EventChannel ----------------------------
(***************************************************************************)
(* What the event bus promises its users, without queue, task or shutdown: *)
(* an offered event is accepted or, if it is not urgent, refused; accepted *)
(* events are delivered once each, a more urgent one before a less urgent  *)
(* one that waits with it, and events of one priority in the order they    *)
(* were accepted.                                                          *)
(***************************************************************************)
EXTENDS Integers, Sequences

CONSTANTS Events, Priority, UrgentThreshold

VARIABLES
  accepted,   \* the accepted events, in the order of acceptance
  delivered,  \* the delivered events, in the order of delivery
  refused     \* the refused events

channelVars == <<accepted, delivered, refused>>

Members(s) == {s[i] : i \in DOMAIN s}
Waiting == Members(accepted) \ Members(delivered)

Init ==
  /\ accepted = <<>>
  /\ delivered = <<>>
  /\ refused = {}

Accept(e) ==
  /\ e \notin Members(accepted) \cup refused
  /\ accepted' = Append(accepted, e)
  /\ UNCHANGED <<delivered, refused>>

Refuse(e) ==
  /\ e \notin Members(accepted) \cup refused
  /\ Priority[e] < UrgentThreshold
  /\ refused' = refused \cup {e}
  /\ UNCHANGED <<accepted, delivered>>

(* The i-th accepted event is the next one due.                            *)
Due(i) ==
  /\ accepted[i] \in Waiting
  /\ \A j \in DOMAIN accepted :
       accepted[j] \in Waiting /\ j # i =>
         \/ Priority[accepted[j]] < Priority[accepted[i]]
         \/ Priority[accepted[j]] = Priority[accepted[i]] /\ i < j

Deliver(i) ==
  /\ Due(i)
  /\ delivered' = Append(delivered, accepted[i])
  /\ UNCHANGED <<accepted, refused>>

Next ==
  \/ \E e \in Events : Accept(e) \/ Refuse(e)
  \/ \E i \in DOMAIN accepted : Deliver(i)

Spec == Init /\ [][Next]_channelVars
=============================================================================
