--------------------------- MODULE MCToolPlatform ---------------------------
(* A client with two connections, an agent, one permit and two kills.      *)
EXTENDS ToolPlatform, TLC

CONSTANTS a1, c1, g1, ws1, ws2, agent, h1, w1

MCCallerOf == (a1 :> ws1) @@ (c1 :> ws2) @@ (g1 :> agent)
MCTwoCallers == (a1 :> ws1) @@ (g1 :> agent)
=============================================================================
