------------------------------- MODULE Remote -------------------------------
(***************************************************************************)
(* The SSH tools: ssh.connect, ssh.exec and sftp.manage over one pool of   *)
(* connections (tools/remote/pool.py), with the guard that counts them     *)
(* (tools/remote/safety.py).                                               *)
(*                                                                         *)
(* A call goes through the executor: validate(), the user's approval,      *)
(* execute().  A kill denies and cancels calls, and the pool and the guard *)
(* have their own.  A connection is named after the call that made it.     *)
(***************************************************************************)
EXTENDS Integers, FiniteSets

CONSTANTS
  Connects,     \* calls of ssh.connect, action connect
  Disconnects,  \* calls of ssh.connect, action disconnect
  Commands,     \* calls of ssh.exec and sftp.manage
  MaxSessions,  \* remote_control.max_connections
  Nothing

Calls == Connects \cup Disconnects \cup Commands

VARIABLES
  step,    \* of a call: "new", "asked", "working", "ok", "failed", "cancelled"
  target,  \* of a call that is no connect: the connection it names
  pool,    \* _connections
  alive,   \* of those: not closed, by this side or the other
  count    \* _active_connection_count

vars == <<step, target, pool, alive, count>>

Init ==
  /\ step = [c \in Calls |-> "new"]
  /\ target = [c \in Calls |-> Nothing]
  /\ pool = {} /\ alive = {} /\ count = 0

Goes(c, s) == step' = [step EXCEPT ![c] = s]
Made == {c \in Connects : step[c] = "ok"}

-----------------------------------------------------------------------------
(* validate(); the approval is given, denied, or never asked for.          *)
Validate(c) ==
  /\ step[c] = "new"
  /\ \/ c \in Connects /\ count < MaxSessions /\ Goes(c, "asked") /\ UNCHANGED target
     \/ c \notin Connects /\ Goes(c, "asked")
        /\ \E k \in Made : target' = [target EXCEPT ![c] = k]
  /\ UNCHANGED <<pool, alive, count>>

Refuse(c) ==
  /\ step[c] = "new" /\ c \in Connects /\ count >= MaxSessions
  /\ Goes(c, "failed") /\ UNCHANGED <<target, pool, alive, count>>

Deny(c) == step[c] = "asked" /\ Goes(c, "failed") /\ UNCHANGED <<target, pool, alive, count>>

\* execute(), up to its first await: a disconnect closes before it waits.
Execute(c) ==
  /\ step[c] = "asked"
  /\ Goes(c, IF c \in Connects \/ target[c] \in pool THEN "working" ELSE "failed")
  /\ alive' = IF c \in Disconnects THEN alive \ {target[c]} ELSE alive
  /\ UNCHANGED <<target, pool, count>>

-----------------------------------------------------------------------------
(* The rest of execute().                                                  *)

\* The cap is not asked again.
Connected(c) ==
  /\ c \in Connects /\ step[c] = "working"
  /\ \/ /\ Goes(c, "ok")
        /\ pool' = pool \cup {c} /\ alive' = alive \cup {c} /\ count' = count + 1
     \/ Goes(c, "failed") /\ UNCHANGED <<pool, alive, count>>
  /\ UNCHANGED target

Decremented == IF count = 0 THEN 0 ELSE count - 1

\* Slip: what another call closed meanwhile is counted down twice.
DisconnectedAnyway(c) ==
  /\ c \in Disconnects /\ step[c] = "working"
  /\ pool' = pool \ {target[c]} /\ count' = Decremented
  /\ Goes(c, "ok") /\ UNCHANGED <<target, alive>>

\* del raises KeyError where another call has been faster.
Disconnected(c) ==
  /\ c \in Disconnects /\ step[c] = "working"
  /\ IF target[c] \in pool
     THEN Goes(c, "ok") /\ pool' = pool \ {target[c]} /\ count' = Decremented
     ELSE Goes(c, "failed") /\ UNCHANGED <<pool, count>>
  /\ UNCHANGED <<target, alive>>

\* A run, or a transfer, is over; touch() raises where the entry is gone.
Done(c) ==
  /\ c \in Commands /\ step[c] = "working"
  /\ \/ target[c] \in alive /\ target[c] \in pool /\ Goes(c, "ok")
     \/ Goes(c, "failed")
  /\ UNCHANGED <<target, pool, alive, count>>

\* handle_kill() of the executor.
Cancel(c) == step[c] = "working" /\ Goes(c, "cancelled") /\ UNCHANGED <<target, pool, alive, count>>

\* The other side ends a session; its entry stays.
Drop(k) == k \in alive /\ alive' = alive \ {k} /\ UNCHANGED <<step, target, pool, count>>

Next ==
  \/ \E c \in Calls :
       Validate(c) \/ Refuse(c) \/ Deny(c) \/ Execute(c) \/ Cancel(c)
       \/ Connected(c) \/ Disconnected(c) \/ Done(c)
  \/ \E k \in Connects : Drop(k)

Spec == Init /\ [][Next]_vars

-----------------------------------------------------------------------------
TypeOK ==
  /\ step \in [Calls -> {"new", "asked", "working", "ok", "failed", "cancelled"}]
  /\ target \in [Calls -> Connects \cup {Nothing}]
  /\ alive \subseteq pool /\ pool \subseteq Connects /\ count \in Nat

\* The guard counts what the pool holds, also when calls disconnect the same
\* connection at once, or are cancelled between its close and its removal
\* (pool.py:67, ssh_connect.py:209); and a connection leaves the pool exactly
\* when one disconnect says so.
PoolCounted ==
  /\ count = Cardinality(pool)
  /\ \A k \in Made :
       Cardinality({d \in Disconnects : target[d] = k /\ step[d] = "ok"}) = IF k \in pool THEN 0 ELSE 1

\* "Max connections reached" (safety.py:109): violated, since the cap is asked
\* before the approval and the connect.
CapHolds == Cardinality(pool) <= MaxSessions
=============================================================================
