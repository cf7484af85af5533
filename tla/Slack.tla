------------------------------- MODULE Slack -------------------------------
(***************************************************************************)
(* Sending to Slack: SlackAdapter of channels/slack/adapter.py with the    *)
(* RateLimitQueue of channels/slack/handlers.py.                           *)
(*                                                                         *)
(* Responses go through a queue that one worker drains; replies of the     *)
(* handlers are posted at once, by whoever makes them.  A post that Slack  *)
(* refuses with 429 goes to the end of the queue, which then pauses.       *)
(***************************************************************************)
EXTENDS Integers, Sequences, FiniteSets

CONSTANTS
  Responses,  \* send(): through the queue
  Replies,    \* _send_raw_text(): at once
  MaxLimits,  \* bound: posts refused with 429
  MaxStarts,  \* bound: starts
  Nothing

Posts == Responses \cup Replies

VARIABLES
  running,    \* _running
  client,     \* _client: is there one
  stop,       \* where stop() is: "none", "cancelling", "closing"
  queue,      \* _rate_queue: its messages, or Nothing
  limited,    \* is now before _retry_after
  worker,     \* the queue task: "none", "polling", "waiting", "posting"
  renewed,    \* has _retry_after moved while the worker waits
  held,       \* the message the worker posts
  direct,     \* messages being posted outside the worker
  accepted,   \* history: messages handed in, in order
  posted,     \* what Slack took, in order
  dropped,    \* history: messages lost to a failed post or to stop()
  unordered,  \* history: messages refused with 429, or posted beside the queue
  limits, starts

sending == <<queue, limited, worker, renewed, held, direct>>
history == <<accepted, posted, dropped, unordered, limits, starts>>
vars == <<running, client, stop, sending, history>>

Init ==
  /\ running = FALSE /\ client = FALSE /\ stop = "none"
  /\ queue = Nothing /\ limited = FALSE
  /\ worker = "none" /\ renewed = FALSE /\ held = Nothing
  /\ direct = {}
  /\ accepted = <<>> /\ posted = <<>> /\ dropped = {} /\ unordered = {}
  /\ limits = 0 /\ starts = 0

InSeq(s) == {s[i] : i \in DOMAIN s}

-----------------------------------------------------------------------------
(* start() and stop().                                                     *)
Start ==
  /\ ~running /\ starts < MaxStarts
  /\ starts' = starts + 1
  /\ running' = TRUE /\ client' = TRUE
  /\ queue' = <<>> /\ limited' = FALSE /\ worker' = "polling"
  /\ UNCHANGED <<stop, renewed, held, direct, accepted, posted, dropped, unordered, limits>>

\* The worker is cancelled, and a message it posts is lost.
BeginStop ==
  /\ running /\ stop = "none"
  /\ stop' = "cancelling"
  /\ worker' = "none" /\ held' = Nothing
  /\ dropped' = dropped \cup ({held} \ {Nothing})
  /\ UNCHANGED <<running, client, queue, limited, renewed, direct, accepted, posted, unordered, limits, starts>>

\* The queue goes with what it holds.
DropQueue ==
  /\ stop = "cancelling"
  /\ stop' = "closing"
  /\ queue' = Nothing
  /\ dropped' = dropped \cup InSeq(queue)
  /\ UNCHANGED <<running, client, limited, worker, renewed, held, direct, accepted, posted, unordered, limits, starts>>

\* Posts under way fail with the client.
Stopped ==
  /\ stop = "closing"
  /\ stop' = "none" /\ running' = FALSE /\ client' = FALSE
  /\ direct' = {} /\ dropped' = dropped \cup direct
  /\ UNCHANGED <<queue, limited, worker, renewed, held, accepted, posted, unordered, limits, starts>>

-----------------------------------------------------------------------------
(* send() and _send_raw_text().                                            *)
Send(m) ==
  /\ m \notin InSeq(accepted) /\ client
  /\ accepted' = Append(accepted, m)
  /\ IF m \in Responses /\ queue # Nothing
     THEN queue' = Append(queue, m) /\ UNCHANGED <<direct, unordered>>
     ELSE direct' = direct \cup {m} /\ unordered' = unordered \cup {m} /\ UNCHANGED queue
  /\ UNCHANGED <<running, client, stop, limited, worker, renewed, held, posted, dropped, limits, starts>>

-----------------------------------------------------------------------------
(* _post_message(), by the worker or directly.  What becomes of one post.  *)
Taken(m) == posted' = Append(posted, m) /\ UNCHANGED <<queue, limited, renewed, dropped, unordered, limits>>
Failed(m) == dropped' = dropped \cup {m} /\ UNCHANGED <<queue, limited, renewed, posted, unordered, limits>>

\* Slip: refused messages are only paused for.
PauseOnly(m) ==
  /\ limits < MaxLimits
  /\ limits' = limits + 1 /\ unordered' = unordered \cup {m}
  /\ limited' = (queue # Nothing \/ limited)
  /\ renewed' = (renewed \/ (worker = "waiting" /\ queue # Nothing))
  /\ UNCHANGED <<queue, posted, dropped>>

\* set_retry_after() and enqueue(), as long as there is a queue.
Limit(m) ==
  /\ limits < MaxLimits
  /\ limits' = limits + 1 /\ unordered' = unordered \cup {m}
  /\ IF queue = Nothing
     THEN dropped' = dropped \cup {m} /\ UNCHANGED <<queue, limited, renewed>>
     ELSE /\ queue' = Append(queue, m) /\ limited' = TRUE
          /\ renewed' = (renewed \/ worker = "waiting")
          /\ UNCHANGED dropped
  /\ UNCHANGED posted

PostDirectly(m) ==
  /\ m \in direct
  /\ direct' = direct \ {m}
  /\ Taken(m) \/ Failed(m) \/ Limit(m)
  /\ UNCHANGED <<running, client, stop, worker, held, accepted, starts>>

-----------------------------------------------------------------------------
(* _queue_worker() and RateLimitQueue.process().                           *)
Take ==
  /\ held' = Head(queue) /\ queue' = Tail(queue) /\ worker' = "posting"

\* The delay is read once.
Poll ==
  /\ worker = "polling" /\ queue # Nothing /\ queue # <<>>
  /\ IF limited THEN worker' = "waiting" /\ renewed' = FALSE /\ UNCHANGED <<held, queue>>
     ELSE Take /\ UNCHANGED renewed
  /\ UNCHANGED <<running, client, stop, limited, direct, history>>

\* The delay is over, if not a later one.
Wake ==
  /\ worker = "waiting" /\ (~limited \/ renewed)
  /\ Take /\ renewed' = FALSE
  /\ UNCHANGED <<running, client, stop, limited, direct, history>>

WorkerPosts ==
  /\ worker = "posting"
  /\ worker' = "polling" /\ held' = Nothing
  /\ Taken(held) \/ Failed(held) \/ Limit(held)
  /\ UNCHANGED <<running, client, stop, direct, accepted, starts>>

\* The time of _retry_after comes.
Lift == limited /\ limited' = FALSE /\ UNCHANGED <<running, client, stop, queue, worker, renewed, held, direct, history>>

Next ==
  \/ Start \/ BeginStop \/ DropQueue \/ Stopped
  \/ \E m \in Posts : Send(m) \/ PostDirectly(m)
  \/ Poll \/ Wake \/ WorkerPosts \/ Lift

\* stop(), once called, and the worker go on; a post returns, and time passes.
Fairness ==
  /\ WF_vars(DropQueue \/ Stopped)
  /\ WF_vars(Poll \/ Wake \/ WorkerPosts) /\ WF_vars(Lift)
  /\ \A m \in Posts : WF_vars(PostDirectly(m))

Spec == Init /\ [][Next]_vars /\ Fairness

-----------------------------------------------------------------------------
TypeOK ==
  /\ queue = Nothing \/ queue \in Seq(Posts)
  /\ worker \in {"none", "polling", "waiting", "posting"}
  /\ held \in Posts \cup {Nothing} /\ (held # Nothing <=> worker = "posting")
  /\ direct \subseteq Posts

Times(m, s) == Cardinality({i \in DOMAIN s : s[i] = m})

\* A message is in one place: waiting, being posted, taken, or dropped.
InOnePlace(m) ==
  1 = (IF queue = Nothing THEN 0 ELSE Times(m, queue)) + Times(m, posted)
      + Cardinality({n \in {held} : n = m}) + Cardinality({n \in direct : n = m})
      + Cardinality({n \in dropped : n = m})

Before(m, n, s) == \E i, j \in DOMAIN s : i < j /\ s[i] = m /\ s[j] = n

\* No message handed in is lost, except to a failed post or a stop, or posted
\* twice, also when 429s come from posts beside the queue; and a response that
\* went through the queue without a 429 reaches Slack before every later one
\* (slack/adapter.py:407, handlers.py:71).
SendsKept ==
  /\ \A m \in InSeq(accepted) : InOnePlace(m)
  /\ \A m, n \in Responses :
       Before(m, n, accepted) /\ m \notin unordered /\ n \in InSeq(posted)
         => m \in dropped \/ Before(m, n, posted)

\* Every message handed in (there are finitely many) is taken or dropped in the
\* end, however often Slack refused it before.
SendsEnd == <>[](InSeq(accepted) \subseteq InSeq(posted) \cup dropped)

\* "pause all sends until the delay elapses" (slack/handlers.py:51): violated.
PausedIsQuiet == [][limited /\ limited' => \A m \in Posts : m \in direct' => m \in direct]_vars
=============================================================================
