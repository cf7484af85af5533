------------------------------- MODULE Router -------------------------------
(***************************************************************************)
(* Language-model requests: brain/router.py with one breaker of            *)
(* circuit_breaker.py per provider, and the streams of brain/streaming.py  *)
(* that chat.stream of gateway/websocket.py starts and registers.          *)
(*                                                                         *)
(* A request goes through its candidates, awaits the health check of each  *)
(* whose breaker lets it in, and then the answer.  Results come back to    *)
(* breakers that other requests have changed meanwhile.  A stream is only  *)
(* handed out by the router: its breaker never hears how it ended.         *)
(***************************************************************************)
EXTENDS Integers, Sequences, FiniteSets

CONSTANTS
  Providers,
  Requests,       \* chat.send and chat.stream
  Streams,        \* those of chat.stream
  Conversation,   \* of each stream
  Preferred,      \* _PREFERENCE: the lists of providers preferred by complexity
  FallbackChain,  \* fallback_chain
  Threshold,      \* failure_threshold
  Recovery,       \* recovery_timeout, in ticks
  RollingWindow,  \* rolling_window, in ticks
  HalfOpenMax,    \* half_open_max_calls
  None            \* no stream

ASSUME RouterConstants ==
  /\ Streams \subseteq Requests
  /\ DOMAIN Conversation = Streams
  /\ Preferred \subseteq Seq(Providers)
  /\ FallbackChain \in Seq(Providers)
  /\ Threshold \in Nat \ {0} /\ Recovery \in Nat \ {0}
  /\ RollingWindow \in Nat \ {0} /\ HalfOpenMax \in Nat \ {0}
  /\ None \notin Requests

Conversations == {Conversation[s] : s \in Streams}

VARIABLES
  breaker,    \* circuit_breakers: a CircuitBreaker for each provider
  at,         \* where each request is
  plan,       \* its candidates that it has not left; the first is being tried
  registry,   \* _active_streams
  cancelled,  \* the streams whose cancel() was called
  log,        \* history: how long ago calls failed, since one last succeeded
  late,       \* history: streams that sent a token or the end after cancel()
  shared      \* history: streams that were not alone in their conversation

vars == <<breaker, at, plan, registry, cancelled, log, late, shared>>
routing == <<breaker, log, plan>>
streaming == <<registry, cancelled, late, shared>>

Init ==
  /\ breaker = [p \in Providers |->
                  [state |-> "closed", failures |-> <<>>, opened |-> Recovery, probes |-> 0]]
  /\ at = [r \in Requests |-> "idle"]
  /\ plan = [r \in Requests |-> <<>>]
  /\ registry = [c \in Conversations |-> None]
  /\ cancelled = {}
  /\ log = [p \in Providers |-> <<>>]
  /\ late = {}
  /\ shared = {}

-----------------------------------------------------------------------------
(* A breaker b: its failures and opening are kept as the time since.       *)

\* is_available(): the count of probes is tested here and raised nowhere.
Available(b) ==
  \/ b.state = "closed"
  \/ b.state = "open" /\ b.opened = Recovery
  \/ b.state = "half_open" /\ b.probes < HalfOpenMax

AdmittedCounting(b) ==  \* slip
  IF b.state = "closed" THEN b
  ELSE [b EXCEPT !.state = "half_open", !.probes = IF b.state = "open" THEN 1 ELSE @ + 1]
Admitted(b) ==
  IF b.state = "open" THEN [b EXCEPT !.state = "half_open", !.probes = 0] ELSE b

Succeeded(b) == [b EXCEPT !.state = "closed", !.failures = <<>>, !.probes = 0]

Failed(b) ==
  LET counted == Append(b.failures, 0) IN
  CASE b.state = "half_open"      -> [b EXCEPT !.state = "open", !.opened = 0]
    [] b.state # "half_open" /\ Len(counted) >= Threshold ->
         [b EXCEPT !.state = "open", !.opened = 0, !.failures = counted]
    [] OTHER                      -> [b EXCEPT !.failures = counted]

\* A tick of time, with what is then out of the rolling window pruned: the
\* failures are in the order they came, so that comes first.
Older(ages, limit) == [i \in DOMAIN ages |-> IF ages[i] < limit THEN ages[i] + 1 ELSE limit]
Recent(ages) ==
  LET kept == {i \in DOMAIN ages : ages[i] < RollingWindow} IN
  IF kept = {} THEN <<>> ELSE SubSeq(ages, CHOOSE i \in kept : \A j \in kept : i <= j, Len(ages))
Aged(b) ==
  [b EXCEPT !.failures = Recent(Older(@, RollingWindow)),
            !.opened = IF @ < Recovery THEN @ + 1 ELSE Recovery]

Oldest == IF Recovery > RollingWindow THEN Recovery ELSE RollingWindow

Tick ==
  /\ breaker' = [p \in Providers |-> Aged(breaker[p])]
  /\ log' = [p \in Providers |-> Older(log[p], Oldest)]
  /\ UNCHANGED <<at, plan, streaming>>

-----------------------------------------------------------------------------
(* route() and stream_route().                                             *)
Candidates(preferred) ==
  preferred \o SelectSeq(FallbackChain, LAMBDA p : \A i \in DOMAIN preferred : preferred[i] # p)

Provider(r) == Head(plan[r])

\* With the breakers as they are now, request r comes to the first candidate
\* left that lets it in, or fails.
Proceed(r, left, now) ==
  LET open == {i \in DOMAIN left : Available(now[left[i]])} IN
  IF open = {}
  THEN /\ at' = [at EXCEPT ![r] = "failed"]
       /\ plan' = [plan EXCEPT ![r] = <<>>]
       /\ breaker' = now
  ELSE LET i == CHOOSE i \in open : \A j \in open : i <= j IN
       /\ at' = [at EXCEPT ![r] = "checking"]
       /\ plan' = [plan EXCEPT ![r] = SubSeq(left, i, Len(left))]
       /\ breaker' = [now EXCEPT ![left[i]] = Admitted(@)]

Begin(r, preferred) ==
  /\ at[r] = "idle"
  /\ Proceed(r, Candidates(preferred), breaker)
  /\ UNCHANGED <<log, streaming>>

\* A health check never raises: a provider that is down is passed over, and
\* its breaker is not told.
Unhealthy(r) ==
  /\ at[r] = "checking"
  /\ Proceed(r, Tail(plan[r]), breaker)
  /\ UNCHANGED <<log, streaming>>

Healthy(r) ==
  /\ at[r] = "checking" /\ r \notin Streams
  /\ at' = [at EXCEPT ![r] = "generating"]
  /\ UNCHANGED <<routing, streaming>>

Generated(r) ==
  /\ at[r] = "generating"
  /\ at' = [at EXCEPT ![r] = "answered"]
  /\ plan' = [plan EXCEPT ![r] = <<>>]
  /\ breaker' = [breaker EXCEPT ![Provider(r)] = Succeeded(@)]
  /\ log' = [log EXCEPT ![Provider(r)] = <<>>]
  /\ UNCHANGED streaming

GenerateFails(r) ==
  /\ at[r] = "generating"
  /\ Proceed(r, Tail(plan[r]), [breaker EXCEPT ![Provider(r)] = Failed(@)])
  /\ log' = [log EXCEPT ![Provider(r)] = Append(@, 0)]
  /\ UNCHANGED streaming

-----------------------------------------------------------------------------
(* Streams.                                                                *)
Live(s) == at[s] \in {"created", "streaming", "ending"}
Of(c) == {s \in Streams : Conversation[s] = c}

\* handle_chat_stream() registers the session and starts its task.
StreamGiven(s) ==
  /\ at[s] = "checking" /\ s \in Streams
  /\ at' = [at EXCEPT ![s] = "created"]
  /\ plan' = [plan EXCEPT ![s] = <<>>]
  /\ registry' = [registry EXCEPT ![Conversation[s]] = s]
  /\ LET others == {o \in Of(Conversation[s]) : Live(o)} IN
     shared' = shared \cup others \cup (IF others # {} THEN {s} ELSE {})
  /\ UNCHANGED <<breaker, log, cancelled, late>>

Cancel(c) ==
  /\ registry[c] # None
  /\ cancelled' = cancelled \cup {registry[c]}
  /\ UNCHANGED <<routing, at, registry, late, shared>>

\* StreamSession.run(): the start, each token, and the end are notified
Moves(s, from, to) ==
  /\ at[s] = from /\ at' = [at EXCEPT ![s] = to]
  /\ late' = late \cup ({s} \cap cancelled)
  /\ UNCHANGED <<routing, registry, cancelled, shared>>

Starts(s) == s \notin cancelled /\ Moves(s, "created", "streaming")
Token(s) == s \notin cancelled /\ Moves(s, "streaming", "streaming")

Exhausted(s) == s \notin cancelled /\ Moves(s, "streaming", "ending")

\* run() returns or raises; run_stream() takes the conversation, whichever
\* stream it now stands for, out of the registry.
Ended(s) ==
  /\ at' = [at EXCEPT ![s] = "ended"]
  /\ registry' = [registry EXCEPT ![Conversation[s]] = None]
  /\ UNCHANGED <<routing, cancelled, late, shared>>

EndSent(s) == at[s] = "ending" /\ Ended(s)
Stopped(s) == at[s] \in {"created", "streaming"} /\ s \in cancelled /\ Ended(s)
StreamFails(s) == Live(s) /\ Ended(s)

Stream(s) ==
  \/ StreamGiven(s) \/ Starts(s) \/ Token(s) \/ Exhausted(s)
  \/ EndSent(s) \/ Stopped(s) \/ StreamFails(s)

-----------------------------------------------------------------------------
Request(r) ==
  \/ \E preferred \in Preferred : Begin(r, preferred)
  \/ Unhealthy(r) \/ Healthy(r) \/ Generated(r) \/ GenerateFails(r)

Next ==
  \/ \E r \in Requests : Request(r)
  \/ \E s \in Streams : Stream(s)
  \/ \E c \in Conversations : Cancel(c)
  \/ Tick

Spec == Init /\ [][Next]_vars

-----------------------------------------------------------------------------
Places == {"idle", "checking", "generating", "answered", "failed",
           "created", "streaming", "ending", "ended"}

TypeOK ==
  /\ DOMAIN breaker = Providers
  /\ \A p \in Providers :
       /\ breaker[p].state \in {"closed", "open", "half_open"}
       /\ breaker[p].failures \in Seq(0 .. RollingWindow)
       /\ breaker[p].opened \in 0 .. Recovery
       /\ breaker[p].probes \in Nat
  /\ at \in [Requests -> Places]
  /\ plan \in [Requests -> Seq(Providers)]
  /\ registry \in [Conversations -> Streams \cup {None}]
  /\ cancelled \subseteq Streams
  /\ log \in [Providers -> Seq(0 .. Oldest)]
  /\ late \subseteq Streams
  /\ shared \subseteq Streams

\* Whatever results come back in whatever order: a closed breaker has seen fewer
\* than Threshold failures in the window since the last success, an open one
\* opened at a failure that no success followed (circuit_breaker.py:82-112),
TripsWhenDue ==
  \A p \in Providers :
    LET b == breaker[p] IN
    /\ b.state = "closed" =>
         Cardinality({i \in DOMAIN log[p] : log[p][i] < RollingWindow}) < Threshold
    /\ b.state # "closed" /\ b.opened < Recovery =>
         \E i \in DOMAIN log[p] : log[p][i] = b.opened

\* and a half-open one with no call under way lets the next one in, also after
\* a probe that was unhealthy or a stream, which report nothing.
NeverStuck ==
  \A p \in Providers :
    \/ Available(breaker[p])
    \/ breaker[p].state = "open"
    \/ \E r \in Requests : at[r] \in {"checking", "generating"} /\ Provider(r) = p

\* A cancelled stream sends no further token and no end (streaming.py:64-87). What is
\* registered has not ended, and a stream that is alone in its conversation
\* can be cancelled as long as it runs (websocket.py:496-503).
CancelReaches ==
  /\ late = {}
  /\ \A c \in Conversations : registry[c] # None => Live(registry[c])
  /\ \A s \in Streams : Live(s) /\ s \notin shared => registry[Conversation[s]] = s

\* The three together: what a circuit breaker decides, and who can be cancelled,
\* is right in every order of results and streams.
RoutingSound == TripsWhenDue /\ NeverStuck /\ CancelReaches
=============================================================================
