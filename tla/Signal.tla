------------------------------- MODULE Signal -------------------------------
(***************************************************************************)
(* The Signal channel: JSON-RPC calls to the signal-cli daemon over one    *)
(* TCP connection, channels/signal/adapter.py, and what the handlers of    *)
(* handlers.py call while they answer a message.                           *)
(*                                                                         *)
(* One task reads the connection.  It resolves the futures of calls, and   *)
(* it handles messages itself: the calls a handler makes wait for an       *)
(* answer that only this task could read, until they time out.             *)
(***************************************************************************)
EXTENDS Integers, Sequences, FiniteSets

CONSTANTS
  Callers,    \* calls made by other tasks: sends, notifications, health checks
  Loop,       \* the task that reads, when it makes a call
  Messages,   \* what the daemon delivers
  Kind,       \* "quiet": no reply; "prompt": a text is sent; "linked": a receipt
  MaxConns,   \* bound: connections made
  MaxCuts     \* bound: connections lost

Calls == Callers \cup {Loop}

VARIABLES
  running,    \* _running
  conn,       \* _reader and _writer: which connection, or 0
  loop,       \* where _receive_loop() is
  message,    \* the message it handles
  rpcId,      \* _rpc_id
  pending,    \* _pending_responses: their ids
  call,       \* the calls: place, id, future, connection
  link,       \* of each connection made: open or closed
  wire,       \* the lines each holds for the reader
  asked,      \* requests the daemon has not answered
  delivered,  \* messages delivered
  made,       \* history: calls made, which numbers them
  leaked      \* history: ids left in _pending_responses by a failed write

adapter == <<running, conn, loop, message>>
rpc == <<rpcId, pending, call, made, leaked>>
daemon == <<link, wire, asked, delivered>>
vars == <<adapter, rpc, daemon>>

NoCall == [at |-> "idle", by |-> 0, conn |-> 0, future |-> "none", id |-> 0, number |-> 0]

\* start() has connected.
Init ==
  /\ running = TRUE
  /\ conn = 1
  /\ loop = "reading"
  /\ message = "none"
  /\ rpcId = 0
  /\ pending = {}
  /\ call = [c \in Calls |-> NoCall]
  /\ link = <<"open">>
  /\ wire = <<(<<>>)>>
  /\ asked = <<{}>>
  /\ delivered = {}
  /\ made = 0
  /\ leaked = {}

\* The task of a call comes to another place; its future is set.
Moved(r, place) ==
  [at |-> place, by |-> r.by, conn |-> r.conn, future |-> r.future, id |-> r.id, number |-> r.number]
Set(r, how, by) ==
  [at |-> r.at, by |-> by, conn |-> r.conn, future |-> how, id |-> r.id, number |-> r.number]
Goes(c, place) == call' = [call EXCEPT ![c] = Moved(@, place)]

-----------------------------------------------------------------------------
(* _rpc_call().  Writes are one at a time, under _rpc_lock.                *)
Locked == \E c \in Calls : call[c].at = "draining"

\* The future is registered before the write; the write to a connection that
\* is lost goes nowhere, and stop() may have taken the writer away meanwhile.
Write(c) ==
  /\ rpcId' = rpcId + 1
  /\ made' = made + 1
  /\ pending' = pending \cup {rpcId + 1}
  /\ IF conn = 0
     THEN /\ Goes(c, "failed")
          /\ leaked' = leaked \cup {rpcId + 1}
          /\ UNCHANGED asked
     ELSE /\ call' = [call EXCEPT ![c] = [at |-> "draining", by |-> 0, conn |-> conn, future |-> "open",
                                          id |-> rpcId + 1, number |-> made + 1]]
          /\ asked' = [asked EXCEPT ![conn] = IF link[conn] = "open"
                         THEN @ \cup {[id |-> rpcId + 1, number |-> made + 1]} ELSE @]
          /\ UNCHANGED leaked

Enter(c) ==
  IF conn # 0 /\ ~Locked THEN Write(c)
  ELSE /\ Goes(c, IF conn = 0 THEN "failed" ELSE "queued")
       /\ UNCHANGED <<rpcId, made, pending, asked, leaked>>

Begin(c) ==
  /\ c \in Callers /\ call[c].at = "idle"
  /\ Enter(c)
  /\ UNCHANGED <<adapter, link, wire, delivered>>

Granted(c) ==
  /\ call[c].at = "queued" /\ ~Locked
  /\ Write(c)
  /\ UNCHANGED <<adapter, link, wire, delivered>>

Drained(c) ==
  /\ call[c].at = "draining"
  /\ Goes(c, "waiting")
  /\ UNCHANGED <<adapter, rpcId, pending, made, leaked, daemon>>

DrainFails(c) ==
  /\ call[c].at = "draining" /\ link[call[c].conn] = "closed"
  /\ Goes(c, "lost")
  /\ leaked' = leaked \cup ({call[c].id} \cap pending)
  /\ UNCHANGED <<adapter, rpcId, pending, made, daemon>>

Return(c) ==
  /\ call[c].at = "waiting" /\ call[c].future # "open"
  /\ Goes(c, IF call[c].future = "answered" THEN "answered" ELSE "failed")
  /\ UNCHANGED <<adapter, rpcId, pending, made, leaked, daemon>>

TimeoutNever(c) == c \notin Calls /\ UNCHANGED vars  \* slip
Timeout(c) ==
  /\ call[c].at = "waiting" /\ call[c].future = "open"
  /\ Goes(c, "failed")
  /\ pending' = pending \ {call[c].id}
  /\ UNCHANGED <<adapter, rpcId, made, leaked, daemon>>

-----------------------------------------------------------------------------
(* _receive_loop().                                                        *)
Resolved(ids, how, by) ==
  [c \in Calls |-> IF call[c].future = "open" /\ call[c].id \in ids
                   THEN Set(call[c], how, by) ELSE call[c]]

FailPending ==
  /\ call' = Resolved(pending, "failed", 0)
  /\ pending' = {}
  /\ leaked' = {}

Line == Head(wire[conn])
Reads == loop = "reading" /\ conn # 0 /\ wire[conn] # <<>>
Consumed == wire' = [wire EXCEPT ![conn] = Tail(@)]

\* A response whose call has given up is dropped.
ReadResponse ==
  /\ Reads /\ Line.id # 0
  /\ Consumed
  /\ call' = IF Line.id \in pending THEN Resolved({Line.id}, "answered", Line.number) ELSE call
  /\ pending' = pending \ {Line.id}
  /\ leaked' = leaked \ {Line.id}
  /\ UNCHANGED <<adapter, rpcId, made, link, asked, delivered>>

ReadQuiet ==
  /\ Reads /\ Line.id = 0 /\ Kind[Line.message] = "quiet"
  /\ Consumed
  /\ UNCHANGED <<adapter, rpc, link, asked, delivered>>

Handle ==
  /\ Reads /\ Line.id = 0 /\ Kind[Line.message] # "quiet"
  /\ Consumed
  /\ loop' = "handling"
  /\ message' = Line.message
  /\ Enter(Loop)
  /\ UNCHANGED <<running, conn, link, delivered>>

\* A text that could not be sent is logged; a receipt raises into the loop.
Over == loop = "handling" /\ call[Loop].at \in {"answered", "failed", "lost"}

Handled ==
  /\ Over /\ (Kind[message] = "prompt" \/ call[Loop].at = "answered")
  /\ loop' = "reading" /\ message' = "none"
  /\ call' = [call EXCEPT ![Loop] = NoCall]
  /\ UNCHANGED <<running, conn, rpcId, pending, made, leaked, daemon>>

ReceiptFails ==
  /\ Over /\ Kind[message] = "linked" /\ call[Loop].at # "answered"
  /\ loop' = "recovering" /\ message' = "none"
  /\ IF call[Loop].at = "lost"
     THEN /\ pending' = {} /\ leaked' = {}
          /\ call' = [Resolved(pending, "failed", 0) EXCEPT ![Loop] = NoCall]
     ELSE /\ call' = [call EXCEPT ![Loop] = NoCall]
          /\ UNCHANGED <<pending, leaked>>
  /\ UNCHANGED <<running, conn, rpcId, made, daemon>>

EndOfFile ==
  /\ loop = "reading" /\ conn # 0 /\ wire[conn] = <<>> /\ link[conn] = "closed"
  /\ FailPending
  /\ loop' = "reconnecting"
  /\ UNCHANGED <<running, conn, message, rpcId, made, daemon>>

\* _reconnect(): the old connection is not closed, nor read any further.
Away == loop \in {"reconnecting", "recovering"}

Reconnected ==
  /\ Away /\ Len(link) < MaxConns
  /\ conn' = Len(link) + 1
  /\ link' = Append(link, "open") /\ wire' = Append(wire, <<>>) /\ asked' = Append(asked, {})
  /\ loop' = "reading"
  /\ UNCHANGED <<running, message, rpc, delivered>>

ReconnectFails ==
  /\ Away
  /\ loop' = "reading"
  /\ UNCHANGED <<running, conn, message, rpc, daemon>>

-----------------------------------------------------------------------------
(* stop(): the loop is cancelled, and fails what is pending unless an      *)
(* exception is already being handled; then the writer goes.               *)
Stop ==
  /\ running
  /\ running' = FALSE
  /\ loop' = "ended" /\ message' = "none"
  /\ IF loop = "recovering" THEN UNCHANGED <<call, pending, leaked>>
     ELSE /\ pending' = {} /\ leaked' = {}
          /\ call' = [Resolved(pending, "failed", 0) EXCEPT ![Loop] = NoCall]
  /\ UNCHANGED <<conn, rpcId, made, daemon>>

Close ==
  /\ ~running /\ conn # 0
  /\ link' = [link EXCEPT ![conn] = "closed"]
  /\ asked' = [asked EXCEPT ![conn] = {}]
  /\ conn' = 0
  /\ UNCHANGED <<running, loop, message, rpc, wire, delivered>>

-----------------------------------------------------------------------------
(* The daemon.                                                             *)
Open == {g \in DOMAIN link : link[g] = "open"}

Answer(g) ==
  \E r \in asked[g] :
    /\ asked' = [asked EXCEPT ![g] = @ \ {r}]
    /\ wire' = [wire EXCEPT ![g] = Append(@, [id |-> r.id, message |-> "none", number |-> r.number])]
    /\ UNCHANGED <<adapter, rpc, link, delivered>>

\* To every connection there is.
Deliver(m) ==
  /\ m \notin delivered
  /\ delivered' = delivered \cup {m}
  /\ wire' = [g \in DOMAIN wire |-> IF g \in Open
                THEN Append(wire[g], [id |-> 0, message |-> m, number |-> 0]) ELSE wire[g]]
  /\ UNCHANGED <<adapter, rpc, link, asked>>

Cut(g) ==
  /\ g \in Open /\ Cardinality(DOMAIN link \ Open) < MaxCuts
  /\ link' = [link EXCEPT ![g] = "closed"]
  /\ asked' = [asked EXCEPT ![g] = {}]
  /\ UNCHANGED <<adapter, rpc, wire, delivered>>

-----------------------------------------------------------------------------
Rpc(c) == Begin(c) \/ Granted(c) \/ Drained(c) \/ DrainFails(c) \/ Return(c) \/ Timeout(c)

Receive == ReadResponse \/ ReadQuiet \/ Handle \/ Handled \/ ReceiptFails \/ EndOfFile
Reconnect == Reconnected \/ ReconnectFails

Next ==
  \/ \E c \in Calls : Rpc(c)
  \/ Receive \/ Reconnect \/ Stop \/ Close
  \/ \E g \in DOMAIN link : Answer(g) \/ Cut(g)
  \/ \E m \in Messages : Deliver(m)

\* The event loop runs what is ready; the daemon reads, so that writes drain; ten
\* seconds pass.
Progress(c) == Granted(c) \/ Drained(c) \/ Return(c) \/ Timeout(c)
Fairness ==
  /\ \A c \in Calls : WF_vars(Progress(c))
  /\ WF_vars(Receive)
  /\ WF_vars(Reconnect)

Spec == Init /\ [][Next]_vars /\ Fairness

-----------------------------------------------------------------------------
TypeOK ==
  /\ running \in BOOLEAN
  /\ conn \in 0 .. Len(link)
  /\ loop \in {"reading", "handling", "reconnecting", "recovering", "ended"}
  /\ message \in Messages \cup {"none"}
  /\ pending \subseteq 1 .. rpcId /\ leaked \subseteq pending
  /\ \A c \in Calls :
       /\ call[c].at \in {"idle", "queued", "draining", "waiting", "answered", "failed", "lost"}
       /\ call[c].future \in {"none", "open", "answered", "failed"}
  /\ link \in Seq({"open", "closed"})
  /\ DOMAIN wire = DOMAIN link /\ DOMAIN asked = DOMAIN link
  /\ delivered \subseteq Messages

Waits(c) == call[c].at \in {"draining", "waiting"} /\ call[c].future = "open"

\* Across timeouts, lost connections and reconnects, what a call returns is the
\* answer to that call and no other; whoever waits can still be found by the
\* answer; and nothing else is left over but what a failed write leaves, until
\* the next loss (adapter.py:210-251, 285-290).
AnswersFindTheirCalls ==
  /\ \A c \in Calls : call[c].at = "answered" => call[c].by = call[c].number
  /\ \A c \in Calls : Waits(c) => call[c].id \in pending
  /\ pending = {call[c].id : c \in {d \in Calls : Waits(d)}} \cup leaked

\* Every call ends, and the loop always comes back to reading or ends, although
\* it waits for itself.
CallsEndAndLoopReads ==
  /\ \A c \in Callers : call[c].at # "idle" ~> call[c].at \in {"answered", "failed", "lost"}
  /\ (loop # "reading") ~> (loop \in {"reading", "ended"})

\* "The receive loop (which owns the StreamReader) resolves RPC responses without
\* a read race" (adapter.py:194-196): no call gives up whose answer has arrived.
ArrivedAnswersResolve ==
  \A c \in Calls : call[c].at = "failed" /\ conn # 0 /\ call[c].conn = conn =>
    \A i \in DOMAIN wire[conn] : wire[conn][i].number # call[c].number
=============================================================================
