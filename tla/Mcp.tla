-------------------------------- MODULE Mcp --------------------------------
(***************************************************************************)
(* Connections to external MCP servers: MCPClientManager and its two       *)
(* transports (agents/mcp_client.py).                                      *)
(*                                                                         *)
(* Every connection has one reader, which resolves the futures of the      *)
(* requests the server answers.  Over stdio a request is written, then     *)
(* registered; over SSE it is registered, then posted.  The first two      *)
(* requests of a connection are its handshake.                             *)
(***************************************************************************)
EXTENDS Naturals, FiniteSets

CONSTANTS
  Stdio, Sse,      \* connections, by transport
  MaxRequests,     \* bound: requests of a connection
  MaxConnections   \* _max_connections

Conns == Stdio \cup Sse
Asks == 1 .. MaxRequests  \* _req_id

VARIABLES
  phase,        \* of a connection: "none", "opening", "initialize", "tools", "open", "closing", "gone"
  connections,  \* _connections
  cache,        \* _tool_cache: the connections in it
  reader,       \* _reader, _sse_task: "none", "reading", "dead"
  call,         \* of a request: "new", "sending", "resolved", "waiting", "answered", "failed", "timedout"
  registered,   \* _pending
  read,         \* history: requests whose answer was read; a server answers once
  lost          \* history: answers read that were nobody's

vars == <<phase, connections, cache, reader, call, registered, read, lost>>

Init ==
  /\ phase = [c \in Conns |-> "none"]
  /\ connections = {} /\ cache = {}
  /\ reader = [c \in Conns |-> "none"]
  /\ call = [c \in Conns |-> [r \in Asks |-> "new"]]
  /\ registered = [c \in Conns |-> {}] /\ read = [c \in Conns |-> {}] /\ lost = [c \in Conns |-> {}]

Goes(c, s) == phase' = [phase EXCEPT ![c] = s]
Becomes(c, r, s) == call' = [call EXCEPT ![c][r] = s]
Register(c, r) == registered' = [registered EXCEPT ![c] = @ \cup {r}]

-----------------------------------------------------------------------------
(* send_request().                                                         *)

\* Slip: SSE posts first, as stdio writes first.
BeginUnregistered(c, r) == Becomes(c, r, "sending") /\ UNCHANGED registered

Begin(c, r) ==
  /\ Becomes(c, r, "sending")
  /\ IF c \in Sse THEN Register(c, r) ELSE UNCHANGED registered

\* drain() or post() is over; an answer may be there already.
Sent(c, r) ==
  /\ \/ call[c][r] = "sending" /\ Becomes(c, r, "waiting")
     \/ call[c][r] = "resolved" /\ Becomes(c, r, "answered")
  /\ IF c \in Stdio THEN Register(c, r) ELSE UNCHANGED registered
  /\ UNCHANGED <<phase, connections, cache, reader, read, lost>>

\* The future is left where it is, and not cancelled.
SendFails(c, r) ==
  /\ call[c][r] \in {"sending", "resolved"}
  /\ Becomes(c, r, "failed")
  /\ UNCHANGED <<phase, connections, cache, reader, registered, read, lost>>

\* wait_for() cancels the future, and leaves it registered.
Timeout(c, r) ==
  /\ call[c][r] = "waiting"
  /\ Becomes(c, r, "timedout")
  /\ UNCHANGED <<phase, connections, cache, reader, registered, read, lost>>

-----------------------------------------------------------------------------
(* _read_loop() and _sse_loop().                                           *)

\* An answer to a cancelled future raises InvalidStateError in the reader.
Answer(c, r) ==
  /\ reader[c] = "reading" /\ call[c][r] # "new" /\ r \notin read[c]
  /\ read' = [read EXCEPT ![c] = @ \cup {r}]
  /\ registered' = [registered EXCEPT ![c] = @ \ {r}]
  /\ CASE r \notin registered[c] ->
            lost' = [lost EXCEPT ![c] = @ \cup {r}] /\ UNCHANGED <<call, reader>>
       [] r \in registered[c] /\ call[c][r] = "timedout" ->
            reader' = [reader EXCEPT ![c] = "dead"] /\ UNCHANGED <<call, lost>>
       [] r \in registered[c] /\ call[c][r] = "failed" -> UNCHANGED <<call, reader, lost>>
       [] OTHER ->
            /\ Becomes(c, r, IF call[c][r] = "waiting" THEN "answered" ELSE "resolved")
            /\ UNCHANGED <<reader, lost>>
  /\ UNCHANGED <<phase, connections, cache>>

\* The server's side of the stream ends.  Nobody who waits is told.
StreamEnds(c) ==
  /\ reader[c] = "reading"
  /\ reader' = [reader EXCEPT ![c] = "dead"]
  /\ UNCHANGED <<phase, connections, cache, call, registered, read, lost>>

-----------------------------------------------------------------------------
(* connect(), call_tool() and disconnect().                                *)
Connect(c) ==
  /\ phase[c] = "none" /\ Cardinality(connections) < MaxConnections
  /\ Goes(c, "opening") /\ reader' = [reader EXCEPT ![c] = "reading"]
  /\ UNCHANGED <<connections, cache, call, registered, read, lost>>

\* The endpoint of SSE did not come in time; what was opened stays.
OpenFails(c) ==
  /\ c \in Sse /\ phase[c] = "opening"
  /\ Goes(c, "gone")
  /\ UNCHANGED <<connections, cache, reader, call, registered, read, lost>>

Opened(c) ==
  /\ phase[c] = "opening"
  /\ Goes(c, "initialize") /\ Begin(c, 1)
  /\ UNCHANGED <<connections, cache, reader, read, lost>>

\* The first request is over; the notification that follows may fail.
Greeted(c) ==
  /\ phase[c] = "initialize"
  /\ \/ call[c][1] = "answered" /\ Goes(c, "tools") /\ Begin(c, 2)
     \/ call[c][1] \in {"answered", "failed", "timedout"} /\ Goes(c, "gone") /\ UNCHANGED <<call, registered>>
  /\ UNCHANGED <<connections, cache, reader, read, lost>>

\* Without the tools the connection is open all the same.
Listed(c) ==
  /\ phase[c] = "tools" /\ call[c][2] \in {"answered", "failed", "timedout"}
  /\ Goes(c, "open") /\ connections' = connections \cup {c}
  /\ cache' = IF call[c][2] = "answered" THEN cache \cup {c} ELSE cache
  /\ UNCHANGED <<reader, call, registered, read, lost>>

CallTool(c, r) ==
  /\ c \in connections /\ r > 2 /\ call[c][r] = "new"
  /\ Begin(c, r)
  /\ UNCHANGED <<phase, connections, cache, reader, read, lost>>

Disconnect(c) ==
  /\ c \in connections
  /\ connections' = connections \ {c}
  /\ Goes(c, "closing") /\ reader' = [reader EXCEPT ![c] = "dead"]
  /\ UNCHANGED <<cache, call, registered, read, lost>>

Closed(c) ==
  /\ phase[c] = "closing"
  /\ Goes(c, "gone") /\ cache' = cache \ {c}
  /\ UNCHANGED <<connections, reader, call, registered, read, lost>>

Next ==
  \E c \in Conns :
    \/ Connect(c) \/ OpenFails(c) \/ Opened(c) \/ Greeted(c) \/ Listed(c)
    \/ Disconnect(c) \/ Closed(c) \/ StreamEnds(c)
    \/ \E r \in Asks :
         CallTool(c, r) \/ Sent(c, r) \/ SendFails(c, r) \/ Timeout(c, r) \/ Answer(c, r)

\* A timeout fires, and httpx has one for a post; drain() has none.  The tasks
\* of connect() and disconnect() go on.
Fairness ==
  /\ \A c \in Conns : WF_vars(Opened(c) \/ Greeted(c) \/ Listed(c) \/ Closed(c))
  /\ \A c \in Sse, r \in Asks : WF_vars(Sent(c, r) \/ SendFails(c, r) \/ Timeout(c, r))
  /\ \A c \in Stdio, r \in Asks : WF_vars(Timeout(c, r))

Spec == Init /\ [][Next]_vars /\ Fairness

-----------------------------------------------------------------------------
TypeOK ==
  /\ phase \in [Conns -> {"none", "opening", "initialize", "tools", "open", "closing", "gone"}]
  /\ connections \subseteq Conns /\ cache \subseteq Conns
  /\ registered \in [Conns -> SUBSET Asks]

\* Over SSE no answer that is read goes astray, also one that overtakes the
\* response to its own post (mcp_client.py:185); the tools of a connection are
\* known only while it is there or being closed (mcp_client.py:329); and
\* a request is forgotten only when it is answered.
AnswersReach ==
  /\ \A c \in Sse : lost[c] = {}
  /\ cache \subseteq {c \in Conns : phase[c] \in {"open", "closing"}}
  /\ \A c \in Conns, r \in Asks : call[c][r] = "waiting" => r \in registered[c]

\* Every request ends (there are finitely many), also when the reader died, the stream ended or the
\* connection was closed under it: over SSE once it begins, over stdio once it
\* is written (mcp_client.py:93, 200).
RequestsEnd ==
  <>[](\A c \in Conns, r \in Asks :
         call[c][r] # "waiting" /\ (c \in Sse => call[c][r] \notin {"sending", "resolved"}))

\* "Read the SSE stream, resolve pending futures." (mcp_client.py:210), as long
\* as the server sends: violated by one late answer.
LateAnswersHarmless == [][\A c \in connections, r \in Asks : Answer(c, r) => reader'[c] = "reading"]_vars
=============================================================================
