--------------------------- MODULE AgentMessages ---------------------------
(***************************************************************************)
(* How agents hear of each other and reach their tools: the protocol of    *)
(* tasks and capabilities over the event bus (agents/communication.py), an *)
(* agent's workspace (agents/workspace.py), and the server that offers     *)
(* agents to MCP clients (agents/mcp_server.py).                           *)
(*                                                                         *)
(* A wait is a call of wait_for_result or of query_capabilities.  Its key  *)
(* is the id of the task, or the pair of sender and recipient: two queries *)
(* between the same agents have one key.  What answers a key is counted.   *)
(***************************************************************************)
EXTENDS Integers, Sequences, FiniteSets, Functions

CONSTANTS
  Waits, Keys,
  KeyOf,         \* of a wait
  Queries,       \* the waits that are query_capabilities: they emit first
  MaxAnswers,    \* bound: answers emitted for a key
  ToolCalls,     \* calls of execute_tool on one workspace
  MaxToolCalls,  \* max_tool_calls
  Clients,       \* event streams of the MCP server
  Requests,      \* messages posted to it
  ClientOf,      \* of a request
  Nobody

VARIABLES
  wait,       \* of a wait: "new", "emitting", "waiting", "done", "failed"
  pending,    \* _pending and _pending_caps: the wait whose future is stored
  future,     \* of a wait: which of the answers handled is in its future, or 0
  since,      \* history, of a wait: the answers handled when its future was stored
  crossed,    \* history: the waits another wait for the key overlapped
  emitted,    \* of a key: the answers emitted
  queue,      \* the event bus: the keys of the answers queued
  handled,    \* of a key: the answers handled
  call,       \* of a tool call: "new", "running", "returned", "refused", "raised"
  expired,    \* max_runtime_seconds is over
  counted,    \* _tool_calls
  most,       \* history: the most calls that ran together
  stream,     \* of a client: "none", "registered", "open", "ended", "away"
  clients,    \* keys of _clients
  out,        \* of a client: its queue; "" closes
  request,    \* of a request: "new", "served", "answered"
  read        \* of a client: what its stream has brought it

protocol == <<wait, pending, future, since, crossed, emitted, queue, handled>>
workspace == <<call, expired, counted, most>>
serving == <<stream, clients, out, request, read>>
vars == <<protocol, workspace, serving>>

Init ==
  /\ wait = [w \in Waits |-> "new"] /\ pending = [k \in Keys |-> Nobody]
  /\ future = [w \in Waits |-> 0] /\ since = [w \in Waits |-> 0] /\ crossed = {}
  /\ emitted = [k \in Keys |-> 0] /\ queue = <<>> /\ handled = [k \in Keys |-> 0]
  /\ call = [c \in ToolCalls |-> "new"] /\ expired = FALSE /\ counted = 0 /\ most = 0
  /\ stream = [c \in Clients |-> "none"] /\ clients = {}
  /\ out = [c \in Clients |-> <<>>]
  /\ request = [r \in Requests |-> "new"] /\ read = [c \in Clients |-> <<>>]

-----------------------------------------------------------------------------
(* The protocol.                                                           *)
Becomes(w, s) == wait' = [wait EXCEPT ![w] = s]
Pending(w) == wait[w] \in {"emitting", "waiting"}

\* A second wait for a key takes the place of the first.
Register(w) ==
  /\ wait[w] = "new" /\ Becomes(w, IF w \in Queries THEN "emitting" ELSE "waiting")
  /\ pending' = [pending EXCEPT ![KeyOf[w]] = w]
  /\ since' = [since EXCEPT ![w] = handled[KeyOf[w]]]
  /\ LET others == {v \in Waits : KeyOf[v] = KeyOf[w] /\ Pending(v)} IN
     crossed' = IF others = {} THEN crossed ELSE crossed \cup others \cup {w}
  /\ UNCHANGED <<future, emitted, queue, handled>>

Emitted(w) ==
  /\ wait[w] = "emitting" /\ Becomes(w, "waiting")
  /\ UNCHANGED <<pending, future, since, crossed, emitted, queue, handled>>

\* send_result(), send_error(), or an agent's answer to a query; the bus drops
\* it when it is full.
Answer(k) ==
  /\ emitted[k] < MaxAnswers /\ emitted' = [emitted EXCEPT ![k] = @ + 1]
  /\ queue' = Append(queue, k) \/ UNCHANGED queue
  /\ UNCHANGED <<wait, pending, future, since, crossed, handled>>

\* Slip: without the test of done().
ResolveAgain(k, n) ==
  future' = IF pending[k] = Nobody THEN future ELSE [future EXCEPT ![pending[k]] = n]

Resolve(k, n) ==
  future' = IF pending[k] = Nobody \/ (pending[k] # Nobody /\ future[pending[k]] # 0)
            THEN future ELSE [future EXCEPT ![pending[k]] = n]

\* _on_task_complete(), _on_capability_response()
Handle ==
  /\ queue # <<>> /\ queue' = Tail(queue)
  /\ handled' = [handled EXCEPT ![Head(queue)] = @ + 1]
  /\ Resolve(Head(queue), handled[Head(queue)] + 1)
  /\ UNCHANGED <<wait, pending, since, crossed, emitted>>

\* finally: the entry goes, whoever's it is.
Popped(w) == pending' = [pending EXCEPT ![KeyOf[w]] = Nobody]

Wake(w) ==
  /\ wait[w] = "waiting" /\ future[w] # 0
  /\ Becomes(w, "done") /\ Popped(w)
  /\ UNCHANGED <<future, since, crossed, emitted, queue, handled>>

\* The timeout, also of a future that has just been resolved, or a cancellation.
GiveUp(w) ==
  /\ wait[w] = "waiting"
  /\ Becomes(w, "failed") /\ Popped(w)
  /\ UNCHANGED <<future, since, crossed, emitted, queue, handled>>

\* A query cancelled while its event waits for a place leaves its future.
Abandon(w) ==
  /\ wait[w] = "emitting" /\ Becomes(w, "failed")
  /\ UNCHANGED <<pending, future, since, crossed, emitted, queue, handled>>

-----------------------------------------------------------------------------
(* The workspace: the limits are read before the call and the count is     *)
(* raised after it.  Nothing counts tokens, and the memory it is given has *)
(* no store() to write to.                                                 *)
Running == {c \in ToolCalls : call[c] = "running"}

WithinLimits == ~expired /\ counted < MaxToolCalls

Use(c) ==
  /\ call[c] = "new"
  /\ call' = [call EXCEPT ![c] = IF WithinLimits THEN "running" ELSE "refused"]
  /\ LET together == Cardinality(Running) + 1 IN
     most' = IF WithinLimits /\ together > most THEN together ELSE most
  /\ UNCHANGED <<expired, counted>>

Used(c) ==
  /\ call[c] = "running"
  /\ \/ call' = [call EXCEPT ![c] = "returned"] /\ counted' = counted + 1
     \/ call' = [call EXCEPT ![c] = "raised"] /\ UNCHANGED counted
  /\ UNCHANGED <<expired, most>>

Expire == ~expired /\ expired' = TRUE /\ UNCHANGED <<call, counted, most>>

-----------------------------------------------------------------------------
(* The MCP server.                                                         *)
Connect(c) ==
  /\ stream[c] = "none" /\ stream' = [stream EXCEPT ![c] = "registered"]
  /\ clients' = clients \cup {c}
  /\ UNCHANGED <<out, request, read>>

Open(c) ==
  /\ stream[c] = "registered" /\ stream' = [stream EXCEPT ![c] = "open"]
  /\ UNCHANGED <<clients, out, request, read>>

\* A client that goes before its stream begins stays registered.
Disconnect(c) ==
  /\ \/ stream[c] = "registered" /\ UNCHANGED clients
     \/ stream[c] = "open" /\ clients' = clients \ {c}
  /\ stream' = [stream EXCEPT ![c] = "away"]
  /\ UNCHANGED <<out, request, read>>

Serve(r) ==
  /\ request[r] = "new" /\ stream[ClientOf[r]] # "none"
  /\ request' = [request EXCEPT ![r] = "served"]
  /\ UNCHANGED <<stream, clients, out, read>>

\* dispatch() has returned: the answer goes into the stream and is returned.
\* A notification has no answer.
Reply(r) ==
  /\ request[r] = "served" /\ request' = [request EXCEPT ![r] = "answered"]
  /\ out' = IF ClientOf[r] \in clients THEN [out EXCEPT ![ClientOf[r]] = Append(@, r)] ELSE out
  /\ UNCHANGED <<stream, clients, read>>

Notify(r) ==
  /\ request[r] = "served" /\ request' = [request EXCEPT ![r] = "answered"]
  /\ UNCHANGED <<stream, clients, out, read>>

Push(c) ==
  /\ stream[c] = "open" /\ out[c] # <<>> /\ out' = [out EXCEPT ![c] = Tail(@)]
  /\ IF Head(out[c]) = ""
     THEN stream' = [stream EXCEPT ![c] = "ended"] /\ clients' = clients \ {c} /\ UNCHANGED read
     ELSE read' = [read EXCEPT ![c] = Append(@, Head(out[c]))] /\ UNCHANGED <<stream, clients>>
  /\ UNCHANGED request

Stop ==
  /\ out' = [c \in Clients |-> IF c \in clients THEN Append(out[c], "") ELSE out[c]]
  /\ clients # {} /\ clients' = {}
  /\ UNCHANGED <<stream, request, read>>

-----------------------------------------------------------------------------
Talk ==
  /\ \/ \E w \in Waits : Register(w) \/ Emitted(w) \/ Wake(w) \/ GiveUp(w) \/ Abandon(w)
     \/ \E k \in Keys : Answer(k)
     \/ Handle
  /\ UNCHANGED <<workspace, serving>>

Work ==
  /\ (\E c \in ToolCalls : Use(c) \/ Used(c)) \/ Expire
  /\ UNCHANGED <<protocol, serving>>

Offer ==
  /\ \/ \E c \in Clients : Connect(c) \/ Open(c) \/ Disconnect(c) \/ Push(c)
     \/ \E r \in Requests : Serve(r) \/ Reply(r) \/ Notify(r)
     \/ Stop
  /\ UNCHANGED <<protocol, workspace>>

Next == Talk \/ Work \/ Offer

Spec == Init /\ [][Next]_vars

-----------------------------------------------------------------------------
TypeOK ==
  /\ wait \in [Waits -> {"new", "emitting", "waiting", "done", "failed"}]
  /\ pending \in [Keys -> Waits \cup {Nobody}]
  /\ future \in [Waits -> 0 .. MaxAnswers] /\ since \in [Waits -> 0 .. MaxAnswers]
  /\ crossed \subseteq Waits /\ emitted \in [Keys -> 0 .. MaxAnswers]
  /\ queue \in Seq(Keys) /\ handled \in [Keys -> 0 .. MaxAnswers]
  /\ call \in [ToolCalls -> {"new", "running", "returned", "refused", "raised"}]
  /\ expired \in BOOLEAN /\ counted \in Nat /\ most \in Nat
  /\ stream \in [Clients -> {"none", "registered", "open", "ended", "away"}]
  /\ clients \subseteq Clients /\ out \in [Clients -> Seq(Requests \cup {""})]
  /\ request \in [Requests -> {"new", "served", "answered"}]
  /\ read \in [Clients -> Seq(Requests)]

\* A wait brings the first answer to its key that is handled after it began, and
\* one that no other wait for the key overlapped does not miss it; an entry
\* nobody waits for is left only by a query that was cancelled before it waited
\* (communication.py:127, 132).
WaitsSound ==
  /\ \A w \in Waits :
       /\ future[w] \in {0, since[w] + 1}
       /\ Pending(w) /\ w \notin crossed /\ handled[KeyOf[w]] > since[w] => future[w] # 0
  /\ \A k \in Keys : pending[k] # Nobody =>
       Pending(pending[k]) \/ (pending[k] \in Queries /\ wait[pending[k]] = "failed")

\* The limit of a workspace is exceeded by no more calls than ran beside each
\* other, less one (workspace.py:72).
LimitKept == counted + Cardinality(Running) <= MaxToolCalls + (IF most = 0 THEN 0 ELSE most - 1)

\* A client's stream brings every answer at most once and nothing after it was
\* closed, and a stream the server no longer writes to is about to end
\* (mcp_server.py:62, 207).
StreamsSound ==
  \A c \in Clients :
    /\ IsInjective(read[c] \o out[c])
    /\ stream[c] = "ended" => out[c] = <<>>
    /\ stream[c] \in {"registered", "open"} => c \in clients \/ "" \in Range(out[c])

\* Agents hear what is meant for them, within their limits.
AgentsTalk == WaitsSound /\ LimitKept /\ StreamsSound
=============================================================================
