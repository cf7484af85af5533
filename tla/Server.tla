------------------------------- MODULE Server -------------------------------
(***************************************************************************)
(* The lifespan of the server: lifespan() of gateway/lifespan.py builds    *)
(* and starts its sections one after the other, each from those before it, *)
(* and after serving stops the ones that have a life of their own.         *)
(*                                                                         *)
(* What the sections do meanwhile is in the modules of their own.  Five of *)
(* them raise whenever they are enabled; nothing catches that, and a       *)
(* startup that fails stops nothing.                                       *)
(***************************************************************************)
EXTENDS Naturals, Sequences, FiniteSets

CONSTANT Switches   \* the sections that the settings may enable

VARIABLES
  enabled,    \* settings.*.enabled
  at,         \* starting, serving, stopping, down, or where an exception ended it
  next,       \* the section that starts or stops next
  up,         \* the sections built, and not stopped since
  adapters,   \* ChannelManager._adapters
  callbacks   \* of the kill switch, on a soft kill

vars == <<enabled, at, next, up, adapters, callbacks>>

Unguarded == {"telegram", "discord", "whatsapp", "messenger"}
Guarded == {"slack", "signal", "teams"}
Channels == Unguarded \cup Guarded
Optional == Channels \cup {"scheduler", "webhooks", "workflows", "learning", "marketplace", "agents"}
Built == {"providers", "security", "skills", "memory", "search", "persona", "auth", "templates"}

ToolsFirst ==  \* slip
  <<"bus", "providers", "tools", "security",
    "telegram", "discord", "whatsapp", "messenger", "slack", "signal", "teams",
    "skills", "memory", "search", "voice", "persona", "auth",
    "scheduler", "webhooks", "workflows", "templates", "learning", "marketplace", "agents">>
StartOrder ==
  <<"bus", "providers", "security", "tools",
    "telegram", "discord", "whatsapp", "messenger", "slack", "signal", "teams",
    "skills", "memory", "search", "voice", "persona", "auth",
    "scheduler", "webhooks", "workflows", "templates", "learning", "marketplace", "agents">>

StopOrder ==
  <<"agents", "marketplace", "learning", "workflows", "webhooks", "scheduler", "channels",
    "bus", "memory", "security">>

\* What the constructor of a section is given.
Given(s) ==
  CASE s \in Channels \cup {"webhooks"} -> {"bus"}
    [] s = "tools" -> {"bus", "security"}
    [] s = "skills" -> {"bus", "tools"}
    [] s = "search" -> {"providers", "memory"}
    [] s = "voice" -> {"providers"}
    [] s = "persona" -> {"memory"}
    [] s = "scheduler" -> {"bus", "providers", "tools"}
    [] s = "workflows" -> {"bus", "providers"}
    [] s \in {"learning", "marketplace"} -> {"bus", "skills"}
    [] s = "agents" -> {"bus", "providers", "tools", "memory"}
    [] OTHER -> {}

\* Those that act on their own once they are up.
Active == Channels \cup {"scheduler", "webhooks", "workflows", "agents"}

Init ==
  /\ enabled \in SUBSET (Switches \cap Optional)
  /\ at = "starting"
  /\ next = 1
  /\ up = {}
  /\ adapters = {}
  /\ callbacks = {}

-----------------------------------------------------------------------------
(* Startup.                                                                *)
Turn(s) == at = "starting" /\ next <= Len(StartOrder) /\ StartOrder[next] = s
Onward == next' = next + 1 /\ UNCHANGED <<enabled, at>>
Raises == at' = "failed" /\ UNCHANGED <<enabled, next>>
IsUp(s) == up' = up \cup {s}

Skip(s) ==
  /\ Turn(s) /\ s \in Optional \ enabled
  /\ Onward
  /\ UNCHANGED <<up, adapters, callbacks>>

StartBus == Turn("bus") /\ IsUp("bus") /\ Onward /\ UNCHANGED <<adapters, callbacks>>

Build(s) == Turn(s) /\ s \in Built /\ IsUp(s) /\ Onward /\ UNCHANGED <<adapters, callbacks>>

BuildTools ==
  /\ Turn("tools")
  /\ IsUp("tools")
  /\ callbacks' = callbacks \cup {"tools"}
  /\ Onward
  /\ UNCHANGED adapters

\* Without a model for either direction there is no voice.
BuildVoice ==
  /\ Turn("voice")
  /\ IsUp("voice") \/ UNCHANGED up
  /\ Onward
  /\ UNCHANGED <<adapters, callbacks>>

\* An adapter is registered before it is started, and stays so.
StartChannel(c) ==
  /\ Turn(c) /\ c \in Channels \cap enabled
  /\ adapters' = adapters \cup {c}
  /\ \/ IsUp(c) /\ Onward
     \/ c \in Guarded /\ Onward /\ UNCHANGED up
     \/ c \in Unguarded /\ Raises /\ UNCHANGED up
  /\ UNCHANGED callbacks

StartScheduler ==
  /\ Turn("scheduler") /\ "scheduler" \in enabled
  /\ IsUp("scheduler")
  /\ Onward
  /\ UNCHANGED <<adapters, callbacks>>

\* start() awaits the None that subscribe() returns, once it has subscribed.
StartWebhooks ==
  /\ Turn("webhooks") /\ "webhooks" \in enabled
  /\ IsUp("webhooks")
  /\ Raises
  /\ UNCHANGED <<adapters, callbacks>>

StartWorkflows ==
  /\ Turn("workflows") /\ "workflows" \in enabled
  /\ IsUp("workflows")
  /\ Raises
  /\ UNCHANGED <<adapters, callbacks>>

\* The kill switch has no is_active.
StartLearning ==
  /\ Turn("learning") /\ "learning" \in enabled
  /\ Raises
  /\ UNCHANGED <<up, adapters, callbacks>>

StartMarketplace ==
  /\ Turn("marketplace") /\ "marketplace" \in enabled
  /\ Raises
  /\ UNCHANGED <<up, adapters, callbacks>>

\* The settings of the MCP server are not among those of the agents.
StartAgents ==
  /\ Turn("agents") /\ "agents" \in enabled
  /\ IsUp("agents")
  /\ callbacks' = callbacks \cup {"agents"}
  /\ Raises
  /\ UNCHANGED adapters

Serve ==
  /\ at = "starting" /\ next > Len(StartOrder)
  /\ at' = "serving"
  /\ UNCHANGED <<enabled, next, up, adapters, callbacks>>

-----------------------------------------------------------------------------
(* Shutdown.                                                               *)
ShutDown ==
  /\ at = "serving"
  /\ at' = "stopping"
  /\ next' = 1
  /\ UNCHANGED <<enabled, up, adapters, callbacks>>

Members(s) == IF s = "channels" THEN adapters ELSE {s}

\* stop_all() goes on past an adapter that raises.
Stop ==
  /\ at = "stopping" /\ next <= Len(StopOrder)
  /\ up' = up \ Members(StopOrder[next])
  /\ next' = next + 1
  /\ UNCHANGED <<enabled, at, adapters, callbacks>>

\* The database does not answer, and the sandbox is not cleaned up.
CloseFails ==
  /\ at = "stopping" /\ next <= Len(StopOrder) /\ StopOrder[next] = "memory"
  /\ at' = "aborted"
  /\ UNCHANGED <<enabled, next, up, adapters, callbacks>>

Stopped ==
  /\ at = "stopping" /\ next > Len(StopOrder)
  /\ at' = "down"
  /\ UNCHANGED <<enabled, next, up, adapters, callbacks>>

-----------------------------------------------------------------------------
Section ==
  \/ \E s \in Optional : Skip(s) \/ StartChannel(s)
  \/ \E s \in Built : Build(s)
  \/ StartBus \/ BuildTools \/ BuildVoice
  \/ StartScheduler \/ StartWebhooks \/ StartWorkflows
  \/ StartLearning \/ StartMarketplace \/ StartAgents

Next == Section \/ Serve \/ ShutDown \/ Stop \/ CloseFails \/ Stopped

Spec == Init /\ [][Next]_vars

-----------------------------------------------------------------------------
TypeOK ==
  /\ enabled \subseteq Switches
  /\ at \in {"starting", "failed", "serving", "stopping", "aborted", "down"}
  /\ next \in 1 .. Len(StartOrder) + 1
  /\ up \subseteq {StartOrder[i] : i \in DOMAIN StartOrder}
  /\ adapters \subseteq Channels
  /\ callbacks \subseteq {"tools", "agents"}

\* Every section is built from sections that are up, and none is stopped under
\* one that acts on its own and was given it: no adapter or job is left to
\* emit on a bus that has stopped, and the kill switch knows of the agents before
\* they can be called (lifespan.py:406-413, 814-819, 854-866).
BuiltAndStoppedInOrder ==
  [][/\ \A s \in up' \ up : Given(s) \subseteq up
     /\ \A s \in up \ up' : \A t \in Active \cap up' : s \notin Given(t)
     /\ "agents" \in up' => "agents" \in callbacks'
     /\ at' = "down" => up' \cap Active = {}]_vars

\* "Initialize all services on startup" (lifespan.py:403): the server comes up
\* with whatever is enabled, unless a chat service refuses.
InitializesAll == at = "failed" => enabled \cap Unguarded # {}
=============================================================================
