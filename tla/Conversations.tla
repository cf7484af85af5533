--------------------------- MODULE Conversations ---------------------------
(***************************************************************************)
(* A conversation and what is kept of it: chat.send and chat.stream        *)
(* (gateway/websocket.py) write every message to the database and to the   *)
(* working memory (memory/orchestrator.py, episodic.py, working.py).       *)
(*                                                                         *)
(* A connection's requests come one after the other, but the answer of a   *)
(* stream is written by a task of its own, and a user has connections.     *)
(* What the router does is Router's: here it answers or fails.  The        *)
(* database is external: a transaction reads what is committed, waits for  *)
(* the lock of a row another one has updated, and stamps its rows with the *)
(* time it began.                                                          *)
(***************************************************************************)
EXTENDS Integers, Sequences, FiniteSets, Functions

CONSTANTS
  Requests,
  Streams,      \* those that are chat.stream; the others are chat.send
  ConnOf,       \* of a request
  MaxBreaks,    \* bound: pauses and crashes
  Nobody

Roles == {"user", "assistant"}

VARIABLES
  exists,     \* the conversation is in the database
  at,         \* of a request: "new", the role it stores, "routing", "streaming", "over", "failed"
  txn,        \* of a request: its transaction, "none", "inserted", "counted", "committed"
  stamp,      \* of a request: created_at of the row it has inserted
  writes,     \* of a request: the message_count it has written
  lock,       \* the request that has updated the conversation's row
  rows,       \* the messages committed
  count,      \* message_count
  memory,     \* the working memory, if there is one
  answered,   \* history: the requests whose answer the client got
  before,     \* history, of a request: those of its connection that were over
  clock, breaks

row == <<txn, stamp, writes, lock, rows, count>>
history == <<answered, before>>
bounds == <<clock, breaks>>
vars == <<exists, at, row, memory, history, bounds>>

None == <<Nobody>>  \* no working memory

Init ==
  /\ exists = FALSE
  /\ at = [r \in Requests |-> "new"] /\ txn = [r \in Requests |-> "none"]
  /\ stamp = [r \in Requests |-> 0] /\ writes = [r \in Requests |-> 0]
  /\ lock = Nobody /\ rows = {} /\ count = 0 /\ memory = None
  /\ answered = {} /\ before = [r \in Requests |-> {}]
  /\ clock = 0 /\ breaks = 0

Goes(r, s) == at' = [at EXCEPT ![r] = s]
Storing(r) == at[r] \in Roles

\* What a transaction held is gone with it.
Forget(R) ==
  /\ stamp' = [r \in Requests |-> IF r \in R THEN 0 ELSE stamp[r]]
  /\ writes' = [r \in Requests |-> IF r \in R THEN 0 ELSE writes[r]]

\* handle_message() is in this request: a stream has left it when it streams.
Handling(r) ==
  /\ at[r] \in Roles \cup {"routing"}
  /\ ~(r \in Streams /\ at[r] = "assistant")

\* The client gets what it is sent, unless it has gone.
Tell(r) == answered' \in {answered, answered \cup {r}}

-----------------------------------------------------------------------------
(* Requests.                                                               *)
Receive(r) ==
  /\ at[r] = "new"
  /\ \A q \in Requests : ConnOf[q] = ConnOf[r] => ~Handling(q)
  /\ Goes(r, "user")
  /\ before' = [before EXCEPT ![r] =
       {q \in Requests : ConnOf[q] = ConnOf[r] /\ at[q] \in {"over", "failed"}}]
  /\ UNCHANGED <<exists, row, memory, answered, bounds>>

\* conversation.create
Create ==
  /\ ~exists /\ exists' = TRUE
  /\ UNCHANGED <<at, row, memory, history, bounds>>

-----------------------------------------------------------------------------
(* process_message(): one transaction, then the working memory.  Without   *)
(* the conversation the foreign key refuses the row.                       *)
Insert(r) ==
  /\ Storing(r) /\ txn[r] = "none" /\ exists
  /\ txn' = [txn EXCEPT ![r] = "inserted"]
  /\ clock' = clock + 1 /\ stamp' = [stamp EXCEPT ![r] = clock + 1]
  /\ UNCHANGED <<exists, at, writes, lock, rows, count, memory, history, breaks>>

\* Slip: the count is read and written back.
CountUnlocked(r) ==
  /\ txn[r] = "inserted" /\ lock' = r
  /\ txn' = [txn EXCEPT ![r] = "counted"] /\ writes' = [writes EXCEPT ![r] = count + 1]
  /\ UNCHANGED <<exists, at, stamp, rows, count, memory, history, bounds>>

\* The update is in the database: the row stays locked until the commit.
Count(r) ==
  /\ txn[r] = "inserted" /\ lock = Nobody /\ lock' = r
  /\ txn' = [txn EXCEPT ![r] = "counted"] /\ writes' = [writes EXCEPT ![r] = count + 1]
  /\ UNCHANGED <<exists, at, stamp, rows, count, memory, history, bounds>>

Commit(r) ==
  /\ txn[r] = "counted" /\ lock' = Nobody
  /\ txn' = [txn EXCEPT ![r] = "committed"]
  /\ rows' = rows \cup {[by |-> r, role |-> at[r], time |-> stamp[r]]} /\ count' = writes[r] /\ Forget({r})
  /\ UNCHANGED <<exists, at, memory, history, bounds>>

\* Any statement may raise: the transaction is rolled back, and the request
\* answers with an error.
StoreFails(r) ==
  /\ Storing(r) /\ txn[r] # "committed"
  /\ Goes(r, "failed") /\ txn' = [txn EXCEPT ![r] = "none"]
  /\ lock' = (IF lock = r THEN Nobody ELSE lock) /\ Forget({r})
  /\ UNCHANGED <<exists, rows, count, memory, history, bounds>>

\* Working memory is made when there is none, also after a pause.
Remember(r) ==
  /\ txn[r] = "committed" /\ txn' = [txn EXCEPT ![r] = "none"]
  /\ memory' = Append(IF memory = None THEN <<>> ELSE memory, <<r, at[r]>>)
  /\ \/ at[r] = "user" /\ Goes(r, "routing") /\ UNCHANGED answered
     \/ at[r] = "assistant" /\ Goes(r, "over")
        /\ IF r \in Streams THEN UNCHANGED answered ELSE Tell(r)
  /\ UNCHANGED <<exists, stamp, writes, lock, rows, count, before, bounds>>

-----------------------------------------------------------------------------
(* The answer, after the context has been looked up.                       *)
Routed(r) ==
  /\ at[r] = "routing"
  /\ \/ r \notin Streams /\ Goes(r, "assistant") /\ UNCHANGED answered
     \/ r \in Streams /\ Goes(r, "streaming") /\ Tell(r)
     \/ Goes(r, "failed") /\ UNCHANGED answered
  /\ UNCHANGED <<exists, row, memory, before, bounds>>

\* The stream ends, is cancelled or breaks: what has come by then is stored.
Streamed(r) ==
  /\ at[r] = "streaming" /\ (Goes(r, "assistant") \/ Goes(r, "failed"))
  /\ UNCHANGED <<exists, row, memory, history, bounds>>

-----------------------------------------------------------------------------
(* The client pauses the conversation; the server crashes.                 *)
Pause ==
  /\ breaks < MaxBreaks /\ breaks' = breaks + 1
  /\ memory' = None
  /\ UNCHANGED <<exists, at, row, history, clock>>

\* What was not committed is lost, with the working memory.
Crash ==
  /\ breaks < MaxBreaks /\ breaks' = breaks + 1
  /\ at' = [r \in Requests |-> IF at[r] \in {"new", "over"} THEN at[r] ELSE "failed"]
  /\ txn' = [r \in Requests |-> "none"] /\ lock' = Nobody /\ memory' = None
  /\ Forget(Requests)
  /\ UNCHANGED <<exists, rows, count, history, clock>>

Next ==
  \/ \E r \in Requests : Receive(r) \/ Insert(r) \/ Count(r) \/ Commit(r) \/ StoreFails(r)
                         \/ Remember(r) \/ Routed(r) \/ Streamed(r)
  \/ Create \/ Pause \/ Crash

Spec == Init /\ [][Next]_vars

-----------------------------------------------------------------------------
TypeOK ==
  /\ exists \in BOOLEAN
  /\ at \in [Requests -> Roles \cup {"new", "routing", "streaming", "over", "failed"}]
  /\ txn \in [Requests -> {"none", "inserted", "counted", "committed"}]
  /\ stamp \in [Requests -> Nat] /\ writes \in [Requests -> Nat] /\ count \in Nat
  /\ lock \in Requests \cup {Nobody}
  /\ rows \subseteq [by : Requests, role : Roles, time : Nat]
  /\ memory \in Seq(Requests \X Roles) \cup {None}
  /\ answered \subseteq Requests /\ before \in [Requests -> SUBSET Requests]

Stored(r, role) == {w \in rows : w.by = r /\ w.role = role}

\* The conversation's count is that of its messages, whatever writes at once,
\* fails or crashes (episodic.py:58).
Counted == count = Cardinality(rows)

\* A request leaves at most one question and one answer, the answer later than
\* its question; and what one connection has asked and been answered by
\* chat.send comes before what it asks next (websocket.py:731).
InTurns ==
  \A r \in Requests :
    /\ \A role \in Roles : Cardinality(Stored(r, role)) <= 1
    /\ \A a \in Stored(r, "assistant") : \E u \in Stored(r, "user") : u.time < a.time
    /\ \A q \in before[r] : \A w, v \in rows : w.by = q /\ v.by = r => w.time < v.time

\* What a client was told by chat.send is stored, and so is the question it was
\* told an answer would stream to.
ToldIsStored ==
  \A r \in answered :
    Stored(r, "user") # {} /\ (r \notin Streams => Stored(r, "assistant") # {})

\* The working memory holds committed messages only, each once, an answer after
\* its question unless a pause or a crash came between.
MemoryTrue ==
  memory # None =>
    /\ IsInjective(memory)
    /\ \A i \in DOMAIN memory : Stored(memory[i][1], memory[i][2]) # {}
    /\ \A i, j \in DOMAIN memory :
         memory[i][1] = memory[j][1] /\ memory[i][2] = "user" /\ memory[j][2] = "assistant" => i < j

\* The history of a conversation is what was said in it.
HistorySound == Counted /\ InTurns /\ ToldIsStored /\ MemoryTrue
=============================================================================
