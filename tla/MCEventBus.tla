----------------------------- MODULE MCEventBus -----------------------------
(* A small instance of EventBus: two ordinary events of one priority, one  *)
(* of a middle priority, one urgent event, a queue of depth two.           *)
EXTENDS EventBus, TLC

CONSTANTS e1, e2, e3, u1, s1, s2

MCEvents == {e1, e2, e3, u1}
MCPriority == (e1 :> 0) @@ (e2 :> 0) @@ (e3 :> 1) @@ (u1 :> 5)
MCMatching == (e1 :> {s1, s2}) @@ (e2 :> {s1}) @@ (e3 :> {s1}) @@ (u1 :> {})
=============================================================================
