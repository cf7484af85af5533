----------------------------- MODULE MCChannels -----------------------------
(***************************************************************************)
(* The kill switch, and the three clients of remote services that keep a   *)
(* connection, a queue or pending calls, each on an instance of its own;   *)
(* part says whose behaviour it is.  The fair actions of a part that does  *)
(* not run are not enabled in the state it is left in.                     *)
(*                                                                         *)
(* Kill: three kill requests, one of them over a WebSocket: a kill, a      *)
(* resume, a second kill and a request that finds the switch in any state. *)
(* Signal: one call, three kinds of message, one connection lost.  Slack:  *)
(* two responses and a reply, two refusals.  MCP: one connection of each   *)
(* transport, with its handshake and one tool call.                        *)
(***************************************************************************)
EXTENDS KillSwitch, Sequences, TLC

CONSTANTS h1, h2, w1,
          c1, prompt, linked, quiet,
          Callers, Loop, Messages, Kind, MaxConns, MaxCuts,
          Responses, Replies, MaxLimits, MaxStarts, Nothing,
          Stdio, Sse, MaxRequests, MaxConnections

\* The task that reads is none of the callers; no queue is not a queue; there are
\* the two requests of a handshake.
ASSUME ChannelConstants ==
  /\ Loop \notin Callers
  /\ Nothing \notin Responses \cup Replies /\ Nothing \notin Seq(Responses \cup Replies)
  /\ MaxRequests \in Nat \ {0, 1}

VARIABLES part,
          running, conn, loop, message, rpcId, pending, call, link, wire,
          asked, delivered, made, leaked,
          started, client, stop, queue, limited, worker, renewed, held, direct,
          accepted, posted, dropped, unordered, limits, starts,
          phase, connections, cache, reader, asking, registered, read, lost

signal == <<running, conn, loop, message, rpcId, pending, call, made, leaked,
            link, wire, asked, delivered>>
slack == <<started, client, stop, queue, limited, worker, renewed, held, direct,
           accepted, posted, dropped, unordered, limits, starts>>
mcp == <<phase, connections, cache, reader, asking, registered, read, lost>>

G == INSTANCE Signal
S == INSTANCE Slack WITH running <- started
M == INSTANCE Mcp WITH call <- asking

MCKind == prompt :> "prompt" @@ linked :> "linked" @@ quiet :> "quiet"

\* A switch nobody uses, long after it was last used.
Unused ==
  /\ state = "running"
  /\ request = [k \in Requests |-> "ended"]
  /\ timer = [k \in Requests |-> "none"]
  /\ left = [k \in Requests |-> 0]
  /\ current = None /\ owner = None /\ age = Grace

SuiteInit ==
  /\ \/ part = "kill" /\ Init
     \/ part \in {"signal", "slack", "mcp"} /\ Unused
  /\ G!Init /\ S!Init /\ M!Init

Killing == part = "kill" /\ Next /\ UNCHANGED <<part, signal, slack, mcp>>
Signalling == part = "signal" /\ G!Next /\ UNCHANGED <<part, killVars, slack, mcp>>
Slacking == part = "slack" /\ S!Next /\ UNCHANGED <<part, killVars, signal, mcp>>
Connecting == part = "mcp" /\ M!Next /\ UNCHANGED <<part, killVars, signal, slack>>

SuiteSpec ==
  /\ SuiteInit
  /\ [][Killing \/ Signalling \/ Slacking \/ Connecting]_<<part, killVars, signal, slack, mcp>>
  /\ Fairness /\ G!Fairness /\ S!Fairness /\ M!Fairness

SendsKept == S!SendsKept

\* Of Signal's daemon and of a server of tools: an answer comes to who asked.
AnswersReach == G!AnswersFindTheirCalls /\ M!AnswersReach

LateAnswersHarmless == M!LateAnswersHarmless

\* Whatever was handed to one of the four comes to an end: a soft kill, a call to
\* the daemon and the loop that reads it, a message in the queue, a request of the
\* protocol (killswitch.py:45, signal/adapter.py:245, slack/adapter.py:407,
\* mcp_client.py:93).
EveryCallEnds == KillCompletes /\ G!CallsEndAndLoopReads /\ S!SendsEnd /\ M!RequestsEnd
=============================================================================
