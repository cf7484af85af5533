# Verification of the Nobla agent backend

Nobla is a personal AI agent: a Python backend (`backend/nobla`, one asyncio process) that a Flutter app talks to over
WebSocket. It calls language models, runs tools on the user's machine after approval, talks to seven chat services, runs
agents and workflows, and can be stopped by a kill switch. This directory holds TLA+ models of the parts whose
correctness depends on the order in which things happen, the TLC configurations that check them, and TLAPS proofs about them.

Everything in the backend runs on one event loop. Code between two `await`s that really suspend runs
without interruption, so an action of these modules is what a task executes between two such awaits; the
interleavings that TLC explores are the orders in which the event loop may run the tasks. What runs in a thread
(`asyncio.to_thread`) is interleaved more finely. Paths below are relative to `src/backend/nobla`.

## Parts of the system

| Part | State it keeps | Operations | Works with | What is hard | Correct when |
|---|---|---|---|---|---|
| Event bus `events/bus.py` | heap of events, pending counter, subscriptions, dispatch task | emit, subscribe, unsubscribe, start, stop | every service publishes and subscribes | priorities against order, overflow, stop and drain while events arrive, restart | nothing accepted is lost, repeated or overtaken; handlers of two events never overlap; stop returns |
| Kill switch `security/killswitch.py` | state, delayed hard-kill task, callbacks | soft_kill, hard_kill, resume | gateway gate; callbacks into executor, agents, workflows, learning, marketplace | resume and further kills while callbacks run or a timer sleeps | a kill always completes, a resumed server is never killed by leftovers |
| Tool executor and approvals `tools/executor.py`, `tools/approval.py` | running tasks, semaphore, pending approval futures | execute, resolve, handle_kill | gateway and agent workspaces call it, the kill switch cancels it, events go to the bus | cancellation at every await, answer against timeout, semaphore replaced in use | nothing unapproved runs, permits are exact, audit trail and result agree |
| Gateway `gateway/websocket.py`, `tool_handlers.py` | connections, registry of streams | RPC methods | everything | one message at a time per connection; the gate | a killed server accepts nothing but resume |
| Startup and shutdown `gateway/lifespan.py` | what was built and started | startup, shutdown | every service | a section that raises half-way | each section is given only what is up, and nothing is stopped under what uses it |
| Workflow executor `automation/workflows/executor.py` | step statuses, failed and disabled steps | execute | tools, agents, bus | parallel tiers, conditions, retries, failure cascades | steps run after what they depend on, no more often than allowed, failures and branches not taken stop what they should |
| Workflow service and triggers `workflows/service.py`, `trigger_matcher.py` | workflows, executions, registered triggers, dedup window | create, update, pause, delete, trigger; walk through the triggers | bus, executor | the dictionary changes while a walk through it awaits a workflow | no trigger is missed or fires twice; books agree |
| Scheduler and confirmation `automation/` | tasks, jobs, pending confirmations | schedule, confirm, pause, resume, cancel | APScheduler, bus | answer against timeout, a job that fires against its removal | tasks and jobs agree; a run is one the task wanted |
| Webhooks `automation/webhooks` | registrations, delivery attempts, dead letters, logs | register, receive, deliver, pause, delete | bus, HTTP | a delivery outlives its hook | logs agree with what was posted; every delivery ends |
| Agent orchestrator and executor `agents/` | instances, tasks, active workflows | spawn, stop, kill, run_workflow, delegate | tool executor, bus, kill switch | limit checked before an await, stop against kill | the limit holds, no agent stays behind, the verdict is that of the tasks |
| Agent messages and workspaces `agents/communication.py`, `workspace.py` | futures by task and by pair of agents, counters | wait, query, call a tool | bus, tool executor | two waits with one key, late answers | an answer reaches who waits; limits hold as far as calls are sequential |
| MCP server and client `agents/mcp_*.py` | clients and streams; connections, pending requests | serve, stop; connect, call, disconnect | agents, external servers | answer against disconnect, readers that die | answers reach who asked, requests end |
| LLM router and streams `brain/router.py`, `circuit_breaker.py`, `streaming.py` | failures and state per provider, active streams | route, stream, cancel | providers | late results, recovery, two streams of a conversation | a failing provider is left alone, none for ever; what runs can be cancelled |
| Conversations `memory/orchestrator.py`, `episodic.py`, `working.py` | rows, counts, working memory | chat.send, chat.stream, create, pause | database, router | tasks of a stream beside the connection's next request; crashes | what a client was told is stored, in order, and counted |
| Personas `persona/`, `gateway/persona_routes.py` | rows, default per user | create, update, delete, clone, prefer, resolve | database, router | reads in one session that decide in another | an answer's persona was the user's choice; an edit did what was reported |
| Channels and linking `channels/linking.py`, `manager.py` | links both ways, pairing codes, adapters | link, unlink, pair, deliver, broadcast | chat handlers | lists walked while they change | who is linked is reached |
| Chat handlers `channels/*/handlers.py` | little: deferred and seen messages | handle a message, press, reaction, receipt | linking, bus, adapters | the account changes while files are fetched | one event per message, for the account it was for |
| Chat adapters `channels/*/adapter.py`, `media.py`, `formatter.py` | running flag, HTTP client, token | start, stop, send | seven services | a part fails or is unanswered, a stop in between | every part is tried, none sent twice, texts are cut without loss |
| Slack queue, Signal connection `channels/slack`, `channels/signal` | queue and pause; connection, pending calls | send; call, receive, reconnect | the two services | 429s beside a queue; answers of a connection that was lost | sends are kept; answers find their calls |
| Skills `skills/runtime.py`, `tools/registry.py` | installed and enabled skills, bridges, tools | install, upgrade, enable, disable, uninstall | tool registry | names that collide, rollback | one tool per skill |
| SSH tools `tools/remote` | pool, counter | connect, disconnect, exec, transfer | tool executor | two calls on one connection, cancellation | the counter is the size of the pool |
| Computer control `tools/control` | guard, held button, processes, backups | mouse, keyboard, app and file operations | tool executor | threads a kill does not reach | no button stays down; what is known of the host is enough to undo |
| Voice activity `voice/vad.py` | buffers, counters of frames | start, process, stop | speech models | thresholds across chunks | segments are the speech |
| Screen mirror `gateway/mirror_handlers.py` | subscriptions, flag | subscribe, capture | tool executor | a flag raised late and lowered early | the mirror never stops for good |

Not modelled: LLM providers, learning, marketplace, workflow templates and parsing, memory extraction and retrieval, voice
engines, vision, search and code tools, permissions, sandbox, costs, audit, thin handlers, database schema, the app; see below.
`PROJECT.json` lists all parts with their modules.

## Modules

| Module | Models | Part of the suite |
|---|---|---|
| `EventChannel` | what the bus promises: accepted events are delivered once, by priority, then in order | abstract specification of `EventBus` |
| `EventBus` | `events/bus.py`; implements `EventChannel` (`ImplementsChannel`) | `MCEventBus` |
| `KillSwitch` | `security/killswitch.py` and the gate that refuses `system.kill` | `MCChannels`, `ToolPlatform` |
| `ToolExecutor` | `tools/executor.py`, `tools/approval.py` | `MCRequests`, `ToolPlatform` |
| `ToolPlatform` | the two before with the gateway: `websocket.py`, `tool_handlers.py`, `lifespan.py`, `app.py` | `MCToolPlatform` |
| `TopologicalSort` | `topological_sort_steps()`, `topological_sort_tasks()` | `MCWorkflowExecutor` |
| `WorkflowExecutor` | `automation/workflows/executor.py` | `MCWorkflowExecutor` |
| `WorkflowTriggers` | `automation/workflows/service.py`, `trigger_matcher.py` | `MCAutomation` |
| `Scheduler` | `automation/service.py`, `confirmation.py`, `scheduler.py` | `MCAutomation` |
| `Webhooks` | `automation/webhooks/manager.py`, `outbound.py` | `MCAutomation` |
| `AgentOrchestrator` | `agents/orchestrator.py`, `agents/executor.py`, and the kill callbacks wired to them | `MCAgentOrchestrator` |
| `Router` | `brain/router.py`, `circuit_breaker.py`, `streaming.py` | `MCServices` |
| `Server` | `gateway/lifespan.py` | `MCServices` |
| `Linking` | `channels/linking.py`, `manager.py`, the link commands of seven handlers | `MCServices` |
| `Skills` | `skills/runtime.py`, `tools/registry.py` | `MCServices` |
| `Remote` | `tools/remote/` | `MCServices` |
| `Personas` | `persona/`, `gateway/persona_routes.py` | `MCServices` |
| `Signal`, `Slack`, `Mcp` | the Signal adapter, sending to Slack, the MCP client | `MCChannels` |
| `Inbound` | what seven chat handlers do with a message | `MCRequests` |
| `Outbound` | what seven adapters do with a response | `MCRequests` |
| `Chunks`, `Blocks` | how a response becomes messages, or blocks | `MCRequests` |
| `Control`, `Desktop` | mouse and keyboard; applications and files | `MCRequests` |
| `AgentMessages` | `agents/communication.py`, `workspace.py`, `mcp_server.py` | `MCRequests` |
| `Conversations` | what chat.send and chat.stream store | `MCRequests` |
| `VoiceActivity`, `Mirror` | `voice/vad.py`; `gateway/mirror_handlers.py` | `MCRequests` |

`MCX.tla` is a small instance of `X`, or a *suite*: several modules that share no state, each on an instance of its own,
with a variable `part` that says whose behaviour is explored. A suite asks the questions of its members in one run. Its
members do not interact in the code either, except over the bus, whose promise is `EventChannel`, or by
calls that take no time. Theorems of `X`, or of the members of a suite `MCX`, are in `XProofs.tla`. Operators introduced as *slips* are versions of the definition
below them with a plausible mistake in it; no specification uses them. They are there to see that a property notices
the mistake when a slip is put in the definition's place.

### EventBus

`queue` is `_queue` as a set of heap entries (`IsHead` is what `heappop` returns), `pending` is `_pending_count`,
`loop` is where `_dispatch_loop()` and `_drain()` are. `emit()` is `EmitQueued` or, when the counter is at
the limit, `EmitDropped`, which also starts the `bus.overflow` handlers in the emitter. `LoopWait`, `LoopTake` and
`LoopTakeSentinel` are `queue.get()`; a waiting task that is woken does not test `_running` again. `Dispatch` creates the
handler tasks, `InvokeDone` is the return of `gather()`, and `DrainTake`, `DrainSkip`, `DrainDone` are `_drain()`. The
sentinel of `stop()` is an entry with priority and number 0 that the counter does not count. `Start` waits for
the end of a previous `stop()`, as the application does.

`EventChannel` has no queue, no task and no shutdown: the refinement maps `delivered` to the dispatch log and `refused` to
the dropped events.

### KillSwitch

One record per kill request (`request`, `timer`, `left`) since several can be under way: `SoftKill` closes the gate and
enters the callbacks, `StartTimer` is the rest of `soft_kill()` after its callbacks, *whatever the state has become
meanwhile*, `TimerFires` is `_delayed_hard_kill()` after its sleep. `current` is `_hard_kill_task`, the only
timer `hard_kill()` cancels. Time is `Tick`; `owner` and `age` are history: who closed the gate, and how long ago.

### ToolExecutor

A call is at one of the awaits of `execute()` (`pc`). `Enter` is the way into `async with self._semaphore`, `Release` the
way out with the handover to the first waiter. `handle_kill()` replaces the semaphore, so semaphores are numbered
(`semaphore` is the current number) and a call remembers the one it took. A timeout of the approval may win over an
answer in the same turn of the event loop (`TimesOut` has no condition on the future). Cancellation is delivered at the
await where it finds the call: in the tool or the report of a success it is recorded (`Killed`), in the report of a
failure it leaves `execute()` (`Abort`).

### ToolPlatform

The state of the two modules with the gateway between them. `Arrive` and `Respond` are the two RPC methods; a
connection handles one message at a time (`Readable`), the gate lets only `system.resume` through unless the server is running
(`Admitted`), an agent calls the executor directly. `Kill` joins `soft_kill()` and `handle_kill()` in one
step: `handle_kill` is the first callback registered and does not suspend.

### TopologicalSort, WorkflowExecutor

`named` counts how often `depends_on` names an id, `inDegree` is `in_degree`, a round of the `while` loop is `Round`. `SortsExactly`
says that the loop computes, round by round, what `Tier` in the two executors is defined to be, and that `ValueError` is
raised exactly when `Sortable` is false; so those modules need not repeat the loop. Step ids are distinct.

`wf` is the definition of a workflow, chosen once. `BeginTier` is one round of the loop in `execute()` up to its `gather()`:
it skips, cascades and starts. `Succeed`, `Backoff`, `Retry`, `GiveUp` are the ends of an attempt in `_execute_step()`; the
outcome of a step, and the branch a condition takes, are free. `Finish` is the verdict.

### WorkflowTriggers, Scheduler, Webhooks

The dictionary of triggers is modelled with its holes and its resizing, since `_on_event()` iterates over it while it
changes: CPython notices a change of size, not an exchange of entries. `Visit` is the walk from one awaited workflow to the next;
`ExecutionEnds` returns to the walk or to `trigger()`. The correlation window is `clock`.

In `Scheduler` a request goes through interpretation, confirmation and scheduling (`confirming`, `scheduling`), and a job
is APScheduler's: one instance at a time, a one-shot job gone when it fires, a late fire dropped. In `Webhooks` a delivery is
a task of its own with the posts it made; what it emits when it ends is heard by the hooks that `Hears` says.

### AgentOrchestrator, AgentMessages

A *run* is one call of `run_workflow()`, a task is a pair of a run and an item. `Decomposed`, `BeginTier`, `Finish` and
`Raise` are `run_workflow()` at its awaits; `Refuse` to `Stopped` are `_execute_task()` with `spawn()` and `stop()`. `handling`
is the delegation whose handler occupies the dispatch task of the bus. `SoftKill`, `StopNext`, `StopEnds`, `KillWorkflows` are
the soft-kill callbacks `stop_all` and `kill_all_workflows`, `HardKill` is `kill_all`; `KillWorkflows` without a kill is
`stop()` at shutdown. Awaiting a coroutine that does not suspend gives nobody else the floor: the hooks of the built-in
agents do not, those in `Overriding` may. `Midway` names the task at an await that does not suspend, and `MayRun` keeps
all others from running there.

`AgentMessages` has the futures by key (`pending`): a second wait for a key replaces the first one's, and whoever ends first
pops the entry. Its second part counts the calls of a workspace, its third the streams of the MCP server.

### Router, Conversations, Personas

`Router`: a request at each `await` of `route()`: the health check, then the answer. `breaker` has the list of failures
as ages, `log` is the history the property compares it with. A stream is handed out and reports nothing to its breaker.
`Conversations`: one transaction is `Insert`, `Count`, `Commit`; the database is external and modelled by read-committed
snapshots, row locks and the time a transaction began, by which history is ordered. `Forget` is a rollback, `Crash` the
end of the process, after which the working memory is gone. `Personas`: one step per database session, two where a row read is
written in the same session; SQLAlchemy writes only attributes that changed, and none of a row that is gone.

### Server, Linking, Skills, Remote

`Server` goes through the sections of `lifespan()` in order (`StartOrder`), with what the constructor of each is given, and back
in `StopOrder`; five sections raise when enabled, because the code does. `Linking` has both maps of the service and a broadcast as
a walk by index through the very list that links extend. `Skills` has the three dictionaries of the runtime and the registry;
a source carries an id and a name, and an install stores the skill before it registers the tool and takes it out again when that fails. `Remote` has calls between validation, approval and execution around `pool` and `count`.

### Signal, Slack, Mcp

`Signal`: one task reads the connection, resolves the futures of calls and runs the handlers of messages; what they call can
only be answered by that task. `wire` is what is on the way, `link` the current connection. `Slack`: one worker drains the queue, pauses after
a 429, and others post beside it. `Mcp`: over stdio a request is written and then registered, over SSE registered and
then posted; the reader may die, the stream may end, and the connection may be closed in every state.

### Inbound, Outbound, Chunks, Blocks

A handler is the sequence of stages its code goes through, one per service and kind of message (`TelegramMessage` ... in `Inbound`, `Plan` in
`Outbound`); between two stages other tasks run only where the first suspends. A stage is assumed not to raise. The differences between the services are
in the tables: which checks come first, who defers a message, what is sent as one request, what is retried. `Chunks` is the
loop of `split_message` over characters of four kinds, `Blocks` the loop over lines of Slack and Teams.

### Control, Desktop, VoiceActivity, Mirror

`Control`: a drag is a thread which a kill does not reach; a text is typed chunk by chunk with the guard asked for each. `Desktop`: launches and
closes of an application, and files with their backups, whose age is the time of the content. `VoiceActivity` takes
audio in pieces of half a frame and counts frames as `vad.py` does; the property compares its segments with a definition over the whole
recording, what `stop()` returns of a frame cut in two among them. `Mirror` has the flag
and the tasks that raise and lower it.

## What the runs check

Deadlock is checked in `event_bus` and `tool_platform`. In all others the system really stops, when
every call, run or delivery is over (`CHECK_DEADLOCK FALSE`).

| Run | Distinct states | What it shows |
|---|---|---|
| `event_bus` | 44,032 | `ImplementsChannel`: the bus is the channel, over restarts. `DepthKept`: the counter that guards the queue is exact and the backlog bounded. `AcceptedIsDispatched`, `StopReturns`: nothing is left in the queue by `stop()`, and it returns. |
| `tool_platform` | 236,452 | `KillCatches`: the step that closes the gate reaches every running tool and open approval. `FallsSilent`: a server that stays killed ends every call. |
| `workflow` | 123,069 | `DependenciesFirst`; `StopsHold`: what a failure or a branch not taken stops does not run; `VerdictTrue`; `RunsEnd`; `SortsExactly` on every graph of three steps. |
| `automation` | 189,101 | `BooksAgree`: triggers, workflows, executions and the counter of the running agree. `EachTriggerOnce`: a walk sees every trigger there throughout, and starts none twice in a window. `JobsKept`: jobs and tasks agree and every run is of a task that wants it. `BooksKept`: logs agree with deliveries, and a dead letter tells how many posts were made. `HandlingEnds`: every event given to the matcher and every delivery ends. |
| `agents` | 148,052 | `LimitHolds`, `AgentsReleased`, `VerdictTrue`, `SafeForGather`, `RunsEnd`, under stop and kill at any time. |
| `services` | 904,528 | `ChatsSound`: breakers open when due, none stays shut off for ever, a running stream can be cancelled as far as it is alone in its conversation; and the persona that answers was the user's at that time. `EveryoneReached`: who is linked is reached by one message and by a broadcast. `OneToolPerSkill`. `PoolCounted`. `BuiltAndStoppedInOrder`. |
| `channels` | 274,194 | `SendsKept`: Slack posts nothing twice and loses nothing but what failed or was stopped. `AnswersReach`: an answer of Signal's daemon or an MCP server reaches the call that asked. `ResumeHolds`: a left-over timer does not kill a resumed server. `EveryCallEnds`: kills, calls, posts and requests end. |
| `requests` | 1,643,824 | `PermitsExact` over replaced semaphores, `ApprovedByUser`, `AuditAgrees`. `InboundSound`: one event per message, of the kind and account due, in order. `OutboundSound`: every part once, none left out without a reason, one token refresh at a time. `FormattingSound`: cuts lose nothing but space, pieces fit. `ControlSound`: no button stays down, processes are tracked, overwritten files can be restored, the mirror goes on. `AgentsTalk`, `HistorySound`, `SegmentsSound`. |

The temporal properties are checked where their fairness is; the type invariants and the other invariants the modules
define are the ones the theorems prove, or were checked with TLC while the modules were written; a suite checks the
conjunctions named above, which are the deepest of them.

Four runs state what a document or comment says and show that the code does otherwise:

| Run | Said | Done |
|---|---|---|
| `tool_platform_quiet` (`KilledIsQuiet`) | the kill switch stops all running tools | a call between its approval (or validation) and its permit is in no set `handle_kill()` looks at; its tool starts in the killed server |
| `tool_platform_answer` (`AnswerCanBeRead`) | the approval manager awaits the user's response | the connection that was asked is not read until the call returns; the answer must come over another one, or the approval times out |
| `server_starts` (`InitializesAll`) | "Initialize all services on startup" | webhooks and workflows await the `None` of `subscribe()`, learning and marketplace read `ks.is_active`, agents read `settings.agents.mcp_server`: with any of them enabled the startup raises |
| `messages_split` (`SplitEnds`) | "Split long text into chunks" | a word longer than a message is cut at 0, and the loop of WhatsApp and Messenger never ends |

## Differences between code and documents, and other observations

Met while modelling; the models do what the code does. Those with a name in parentheses are stated in the module and
TLC finds them violated.

Bus, kill switch, tools:

- The queue of the bus drops the arriving event, not the oldest (`events/bus.py:105`, against `:8-9` and `:102`).
- After kill, resume, kill, the first timer ends the second grace period early (`GraceRespected`, `security/killswitch.py:64`). A
  soft-kill callback that never returns means that no timer is started at all (`:45`).
- A second `system.kill` over a WebSocket is refused by the gate (`gateway/websocket.py:52`, `:653`); only `POST /api/kill` makes it
  a hard kill. Scheduler, outbound webhooks and channels are not registered with the kill switch; streams survive a kill.
- A call cancelled while its failure is reported leaves no "killed" entry in the audit trail (`tools/executor.py:127-137`), and one whose
  `validate()` raises anything but a `ValueError` leaves no entry at all (`:70`).
- After a kill and a resume, calls that waited for the old semaphore run beside those of the new one (`tools/executor.py:148`).
- `CostTracker.record` and `check_budget` have no caller. `Sandbox._run_container` is synchronous: while a container runs the
  event loop stands still, and a kill is not handled.

Workflows and automation:

- A failure cascades according to the dependent's error handling, not the failed step's (`workflows/executor.py:197`, against `:17`).
- `timeout_seconds` of a step is never used (`workflows/models.py:199`).
- Deleting or pausing a workflow, and `update()`, which registers its triggers again, disturb a walk that awaits another one: it raises, or leaves
  triggers out, or meets one twice (`workflows/triggers.py:155`). Nobody gives `update()` new triggers or steps; an event refused by the limit is spent for its window; `create_from_nl` tests the
  limit before an await; a trigger on `workflow.*` starts itself; `delete()` drops the records of executions still running.
- The application gives the scheduler no `job_callback`, and no handler calls it; `TaskStatus.FAILED` is never set.
- `max_retries` of outbound webhooks counts the posts after the first (`outbound.py:176`, and `tests/test_webhooks.py:1130`: "initial + 2
  retries"); the docstring calls it the "Maximum delivery attempts per event" (`AttemptsAsDocumented`, `outbound.py:65`).
- What a delivery emits is delivered to hooks with its prefix, without end; retries go on after a hook was paused or deleted.

Agents:

- The limit of agents is tested before `await on_start()` and the agent counted after it (`LimitStrict`, `agents/executor.py:64`).
- The depth of a parent whose workflow closed is 0, so chains are not bounded (`ChainsBounded`, `agents/orchestrator.py:204`).
- An exception of a hook that is none of three kinds makes `run_workflow()` raise while other tasks go on (`:186`, against `:159`).
- `kill()` forgets an agent but does not stop its `handle_task()`; a workflow cancelled by a kill goes on and overwrites its status.
- Only tests call `wait_for_result` and `query_capabilities`. Two queries between the same agents share a key; a second waiter takes the
  place of the first's future. `report_result` (`agents/base.py:135`) emits no `task_id`, so it resolves nothing. A workspace's limit may be
  passed by concurrent calls (`agents/workspace.py:72`); tokens are never counted. An MCP client that goes before its stream begins stays registered.
- MCP client: over stdio a late answer kills the reader (`LateAnswersHarmless`), the end of the stream fails nobody, `drain()` has no
  timeout, a failed handshake leaks the transport, the cap is tested before an await. `MCPClientManager` has no caller.

Chat, personas:

- Failures of health checks and streams are not recorded by breakers; `update_preference()` has no caller.
- chat.send without an existing conversation is a foreign-key error; nothing in the program inserts rows of users; a failed route leaves a
  question without an answer; a stream's partial text is stored also after a cancel; working memory comes back after a pause with a late
  answer; a second stream replaces the first in the registry; the warm path has no caller.
- Nothing sets the persona of a session. A chat may get the professional persona although at every moment a valid default existed (the default changed and
  the old one was deleted between two reads). Two first `set_default()` at once, and a clone or creation that meets its name, end in an unhandled
  `IntegrityError`. A deleted persona stays somebody's default. A name of `null` in an update raises `AttributeError`.

Channels:

- Signal: a call made by a handler waits 10 s for an answer that only the waiting task could read (`ArrivedAnswersResolve`,
  `signal/adapter.py:194`), then reconnects without closing the old connection.
- Slack: "pause all sends" does not pause direct posts (`PausedIsQuiet`, `slack/handlers.py:51`); replies to slash commands are dropped in
  socket mode; a message that mentions the app is handled twice.
- Five services publish through `event_bus.publish`, which the bus does not have. The webhook entry points of Messenger, WhatsApp, Teams and Slack have no
  HTTP route; they ignore whether the adapter runs; redelivered webhooks are handled again.
- Linking again leaves the key in the former user's list; "most recently active channel" is not honoured; commands lower-case account ids;
  `deliver`, `broadcast`, `complete_pairing` and `update_tier` have no caller.
- Slack cuts a section at 3000 characters and a message at 50 blocks, Teams a text block at 10000; a fence followed by text loses its code; Messenger's
  button template takes the first 640 characters of the last chunk, and actions without a label are left out (in `Chunks` each has one); WhatsApp drops a response of buttons without text. Telegram escapes before it
  splits. A failed Signal send skips the rest; Teams replies are never sent to users without a conversation reference, and a failed token
  refresh raises out of `send()`; concurrent sends to one chat interleave.
- A reply or a pairing code that cannot be sent ends the handler and is not sent again (`telegram/handlers.py`, and the others alike).

Skills, host, voice:

- A failed upgrade of a skill leaves neither version; a disabled skill still executes (`skills/runtime.py:147`). The marketplace gives `install` a UUID, which raises.
- SSH connections pass the cap together (`CapHolds`, `tools/remote/safety.py:109`); `prune()` and `halt()` have no caller; `touch()`
  reports a finished run as a failure when its connection went; `tools/remote/__init__.py:16` imports a name that does not exist.
- Typing text never starts with the default delay (`TypingBegins`, `tools/control/keyboard.py:108`, `:144`). Nothing calls `InputSafetyGuard.halt()`.
  A killed drag goes on; the fail-safe can stop the release of the button; a click in a drag releases it. Two launches of one application leave a
  process untracked; on Windows and macOS what is tracked is a launcher that ends at once (`tools/control/app.py:53`, `:59`), and the model is of Linux. `copy` makes no backup; backups are pruned by a pattern that matches those of other files.
- Only tests make a `VoiceActivityDetector`; in the middle of speech `stop()` returns the rest of a frame as a segment, again at each call, and loses
  the speech in progress (`voice/vad.py:131`).
  The voice session of a client that disconnects is never ended. Two captures of the mirror may run at once.
- Learning never starts and nothing feeds it; publishing, installing and upgrading in the marketplace raise at their first call. A startup that
  fails tears nothing down, and the MCP server is never stopped.

## Bounds

| Run | Bound | Why it is enough |
|---|---|---|
| `event_bus` | four events, each emitted once: two of one priority, one above, one urgent; depth 2; two subscriptions | two events of one priority to be reordered, one to overtake them, one to exceed the depth; the depth is reached with an event left over to be dropped |
| `tool_platform` | two calls (one with approval, one of an agent), two connections, two kills; the two violation runs have a third call | caller, second connection and agent are all the kinds of caller |
| `workflow` | five shapes of four steps (diamond, chain with a short cut, join, cycle, dangling id), one retry, two condition steps; sorts of three steps, each dependency named up to twice, one unknown id | a failure can pass two tiers, a branch can be disabled by one condition and taken by another; cycles of length one, two and three |
| `automation` | two workflows, one with two triggers; two events of one correlation and one an execution emits; three entries, one active execution, a window of one tick; three tasks, two runs each; one inbound hook, two outbound ones that hear each other, one retry, three deliveries | a walk can meet a removal behind it, before it and at its place, and an insertion that squeezes the holes; an event that the limit refuses; a delivery that outlives its hook and one it causes |
| `agents` | two runs, two items, one agent allowed, one whose hooks suspend, depth 2 | side by side, in sequence, cyclic and dangling plans; a tier larger than the limit; a delegation while its parent runs |
| `services` | two providers, three sends, two streams, threshold 2, recovery one tick; two identities of each of four pairs of services; four sources; one session, two connects and disconnects; nine switches of the startup; one user with two rows, two edits and a message | a failure, one that opens the breaker and a late result; a link taken over by another account; an id, a name and both shared; two disconnects of one connection; each edit beside each other edit and both reads of a resolve |
| `channels` | three kill requests, grace 2; one call and three messages of Signal, two connections; two responses and one reply on Slack, two 429s, two starts; one MCP connection of each transport with its handshake and one call | a kill, a resume, a second kill and what finds them; an answer of a lost connection; a post that is put back while another overtakes |
| `requests` | three calls, one permit, two kills; two messages, two accounts, one change; a file and two texts, two sends, two stops or starts; texts of up to five characters for messages of three, four lines; one gesture, drag and text; three operations on two files; three waits, three answers, four calls for a limit of two; three chat requests, one pause or crash; eighteen pieces of audio, nine frames, three segments returned; three captures | one call holds the old semaphore, one waits, one uses the new; a change between any two stages; a cut inside a word, at a space and at the end; a backup pruned by another file's; a key waited for twice; an answer of a stream beside the next question; speech, silence and speech again |

Every bound is a constant of its module (`Max...`) or a set of things that happen once; numbers that only grow (`age`, the clock) stop at
the largest value the code compares them with. Symmetry is used in `services` only, among the sends and among the streams,
whose values also stand for users and connects; that run has no liveness property.

## Fairness

The event loop of asyncio runs every task that is ready, so whatever a task does next without waiting for anyone is weakly
fair. What a task waits for is assumed to come where the code waits without a limit: handlers of events, tools,
validation, kill callbacks, workflow steps, agents' hooks and `handle_task()`, the service's answer to an HTTP request
and the writes of a connection are assumed to return. This is an assumption about them: the code bounds none of these
(`timeout_seconds` of a step is never enforced, soft-kill callbacks are awaited without a limit), so a handler that
hangs does stop the bus. Approvals, calls to Signal and MCP requests need no such assumption: they time out. Nothing
is assumed of clients, users, emitters, delegations, kills, resumes, or of the answers of daemons and servers: no property relies on one to come.

Weak fairness suffices for permits, although they come and go, because a permit is handed to the first waiter and
not put back for anyone to take. In a suite the fairness of a part asks nothing of the behaviours of another: nothing a part
must do is enabled in the state it is left in (`MCWorkflowExecutor`, where both could go on at first, conditions its fairness on `part`).

## What is proved

TLAPS checks the theorems for every value of the constants that meets the named `ASSUME`s: any number of events,
requests, calls, steps, runs; any priorities, definitions and plans; any bounds.

| Module | Theorems | Argument |
|---|---|---|
| `EventBusProofs` | `TypeCorrect`, `NoEventLost`, `HandlersDoNotOverlap`, `QueueBounded`, `BusImplementsChannel` | `QueueInv`: an entry carries its event's place in the order of acceptance, so the heap's order on entries is the channel's order on events. `FateInv`: the fate of an event says in which structures it is. `LoopInv`: the dispatch task holds an event exactly while it waits for handlers. With these a taken entry is the channel's `Due` event, every other step stutters. Counting is separate (`CountInv`), with the library's facts on cardinality. |
| `CallsAndResponsesProofs` | `ExecutorTypes`, `ExecutorInductive`, `KillReachesAll`, `OnlyApprovedRun`, `CancelledFail`, `AuditIsRight`, `PermitsNeverLost`, `KillsCatch`, `ResponsesGoOut`, `CallsAndResponses` | Each call's part (`CallInv`) is almost inductive on its own; what another call does to it is the handover of a permit, for which `WaitInv` is needed: who is in a queue of waiters waits there, and once only. `RecordInv` ties the audit trail to the place of the call. `PermitInv`: of each semaphore, permits and holders add up to the maximum, and nobody waits while a permit is free; a handover replaces one holder by another. What the gateway makes of the executor is a step of the executor (`PlatformStep`), so its invariant holds in `ToolPlatform`, and with it `KillCatches`. `OutboundInv`: `Line` says of the steps still to go that they are in order, fit the service and come after all that was tried (`Rank`), `Covered` that every part was tried or has its turn, whatever was cut off; `ShownInv` that what reached the chat was tried, and a part that is posted once more came at most once, unanswered; `TokenInv` that who fetches the token holds the lock of the adapter it began with, and counts the reasons for each fetch. |
| `WorkflowExecutorProofs` | `RunTypes`, `RunInductive`, `RunsInOrder`, `FailuresCascade`, `BranchesShut`, `StopsHoldAlways`, `RetriesCounted`, `VerdictIsTrue`, `StepsEndOnce` | `TierInv`: steps of tiers not reached are untouched, dependencies of reached ones are over. So what a tier decides from `failed` and `disabled` cannot change later. `StatusInv` needs that with no tier left every step is reached: `Sortable` gives a step without unreached dependencies (`AllReached`). |
| `AgentOrchestratorProofs` | `AgentTypes`, `AgentLimit`, `TasksRunInOrder`, `WorkflowsRegistered`, `NoAgentLeft`, `WorkflowVerdict`, `NothingRaised` | A task that came to "done" never changes, an agent is an instance only between "spawned" and "stopping" (`SlotInv`), so what held when `gather()` returned holds when the workflow closes, whatever was killed. `AgentLimit` needs that an agent whose hook does not suspend passed the test with room left, and that nobody ran since. `NothingRaised` needs that nobody runs either while such an agent is stopped (`StoppingInv`): it is still an instance when it is deleted. |
| `AutomationProofs` | `TriggersAgree`, `TriggersStartOnce`, `JobsAreKept`, `HooksBooksAreKept`, `ServicesKept` | `TableInv`: without its holes the dictionary lists each trigger of an active workflow once, which a resize keeps. `RunsInv`: the counter is the number of executions, the matcher awaits at most one. `WalkInv`: as long as nobody registers or removes a trigger the iterator expects just what is ahead of it, and has come once to what is behind. `ClockInv`: what the matcher remembers is no older than the last run. `JobsInv` says of a task alone how answer, task, job and run agree, and every step is one task's. `HooksInv` says of a hook what its deliveries say; that a hook was deleted and gets a log again is a case of its own. |
| `ServicesProofs` | `PoolAlwaysCounted`, `SkillsAreTools`, `ServerInOrder`, `LinkedAreReached`, `ChatsStaySound`, `SuiteSound` | `PoolInv`: a connection is named by others only once it was made, and one disconnect takes it out of the pool. `SkillInv`: skills and tools correspond one to one, no built-in is replaced (`Corresponds`). `ServerInv`: what sections are given is always built, and earlier (`GivenBefore`, section by section). `LinkInv`: a linked identity is in its user's list, and a list that is walked while it changes holds all that is still owed further on (`WalkInv`). `BreakersInv`: failures that count are in the window, a breaker trips with the failure that makes them too many. `StreamsInv`: the registry names the stream of a conversation that runs, except beside another. `ChatsInv`: an answer's persona was, at some moment, what the user's choice led to. `EditsInv`: an id is not given twice, so what an edit read of a row is true while the row is there. |
| `ChannelsProofs` | `KillSwitchTypes`, `NoStall`, `ResumedStaysUp`, `SendsAreKept`, `AnswersAlwaysReach`, `ChannelsSound` | Only `HardKill` cancels a timer, and it also leaves soft-killing: `KillCannotStall` is inductive with the types. `McpInv`: over SSE a request that was begun is registered until its answer was read. `SlackInv`: a message handed in is in one place (`PlaceInv`), a queue is there from start to stop (`WorkInv`), and what met no 429 is not overtaken (`OrderInv`). `SignalInv`: an id belongs to one call ever, and pending are the ids of calls that wait, or leaked. |
| `RequestsProofs` | `HostStaysControlled`, `HistoryIsSaid`, `AgentsHear`, `MessagesHeard`, `RequestsSound` | `InputInv`: a thread that runs belongs to a call that is not over. `AppsInv`: a process nobody tracks met another call of its application. `FilesInv`: a content once saved has a backup, or as many later ones of a pattern that catches it as are kept; a prune keeps that, because patterns are nested (`PruneKeepsSafe`). `MirrorInv`: of two captures under way each is marked. `HistoryInv`: who counts holds the row's lock (`LockInv`), what a request stored follows from how far it is (`RowsInv`), and the working memory has it in order (`Recalls`). `WaitsInv`: a key's future is the waiter's, unless another crossed it. `WorkspaceInv`: as many calls run as ran together. `StreamsInv`: what a client read and what is queued for it are its answers, once each. `InboundInv`: the stages a handler has still to go through fit its service (`Shape`); while one that sends an event is among them the message was neither heard nor answered, what must not be heard has its filter still ahead, and the account is one the user has had, or will be asked for (`TaskInv`). Of the two handlers of a press one at most gets past the response (`PairInv`), and where messages are handled in turn nobody speaks before the earlier ones are done (`SerialInv`). |

`ServicesKept`, `SuiteSound`, `ChannelsSound`, `RequestsSound` and `CallsAndResponses` are about the specifications the suites explore: the members' theorems hold in them
together, because a step of one part leaves the variables of the others alone.

The assumptions say what the code relies on: limits are numbers, sets of calls of different operations are disjoint, a value that stands for
"nothing" is none of the real ones (`BusConstants`, `KillSwitchConstants`, `ExecutorConstants`, `WorkflowConstants`, `OrchestratorConstants`,
`RouterConstants`, `TriggerConstants`, `HookConstants`, `RemoteConstants`, `SkillConstants`, `LinkConstants`, `PersonaConstants`, `ChannelConstants`,
`RequestConstants`). Three say more. `TriggerConstants`: a trigger belongs to one workflow. `PersonaConstants`: ids of rows are never presets. `RequestConstants`: file
names have no wildcards in them, so that the pattern of a file's backups matches those of the file itself, and two patterns that
meet are nested.

Model-checked only:

- the liveness properties: fairness and ENABLED are beyond the prover; and the violations, which are counterexamples;
- `TopologicalSort`, whose in-degrees are sums, so that its invariant would need induction over sets;
- what `Chunks`, `Blocks` (`FormattingSound`) and `VoiceActivity` (`SegmentsSound`) compute: folds and recursive functions, which need induction over sequences.

## What is not modelled, and why

- What a tool, a step, an agent, a model or a handler *does*: it returns, or fails, some time.
- LLM providers and their credentials: one request, one answer, no state of their own.
- Learning: it never starts (`InitializesAll`), and `add_candidate`, `create_macro`, `record_feedback` and `finalize_sequence` have no caller. Its statistics are data.
- Marketplace: it never starts, and installing, upgrading and publishing raise at their first call. Search is a query.
- Workflow templates and parsing, decomposition of instructions, formatting and markup: text to text. The template registry is a dictionary.
- Memory beyond what a chat stores: extraction, embeddings, graph, retrieval are queries and statistics; consolidation and the warm path have no caller.
- Voice engines and emotion: external models; a session per connection that is replaced or popped in one step.
- Vision, code and search tools: I/O on the host, one call each.
- Permissions, authentication, audit, costs, sandbox: comparisons on one request, Docker, and budgets nobody records.
- Thin REST and RPC handlers: a permission test and one call of a service that is modelled.
- Database schema, settings, the Flutter app. The app is the environment that sends requests and answers.
- Restart of the process: of the state of the modelled parts only conversations, messages and personas outlive it. `Conversations` has a crash; a persona is written in one transaction. All else starts empty.

## Plan

1. An abstract specification of a call with a pending future (asked, answered or ended), implemented by the approvals, `Signal`, `Mcp` and `AgentMessages`.
2. The voice session of a connection, with the cache of emotions.
