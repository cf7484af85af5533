----------------------------- MODULE MCRequests -----------------------------
(***************************************************************************)
(* The way of a request through the gateway, each part on an instance of   *)
(* its own: a behaviour is one of any of them, and part says of which.  A  *)
(* part that does not run has 0 for its variables, or its initial state.   *)
(*                                                                         *)
(* Calls: three calls for one permit, one of them subject to approval, and *)
(* two kills, so that a call holds the first semaphore, another waits for  *)
(* it and a third uses the second one.  Inbound: two messages of one user, *)
(* two accounts, one change.  Outbound: a response of a file and two       *)
(* texts, on Teams two at a time, and the adapter stopped and started.     *)
(* Chunks: every text of five characters for messages of three.  Blocks:   *)
(* every text of four lines for sections and messages of two.  Input: a    *)
(* gesture, a drag and a text of two chunks.  Apps: two launches and two   *)
(* closes of one application.  Files: three calls over two files, one of   *)
(* which has a pattern that catches the backups of both.  Protocol: two    *)
(* queries for one key and the wait for a result.  Workspace: four calls   *)
(* within a limit of two.  Serving: two requests of one client.  Chat: a   *)
(* stream and a message on one connection and a message on another, and a  *)
(* pause or a crash.  Voice: recordings of up to nine frames.  Mirror:     *)
(* three calls of two connections.                                         *)
(***************************************************************************)
EXTENDS ToolExecutor, TLC

CONSTANTS a1, c1, c2, s1, s2,
          MaxMsgs, Accounts, NoOne, Idle, MaxChanges,
          Sends, Nobody, MaxTexts, MaxToggles, MaxExpiries,
          Limit, TemplateCap, ButtonCap, ReplyCap, MaxLen, MaxActions, MaxTurns,
          SectionCap, BlockCap, MaxLines,
          Gestures, Drags, Keys, Typings, Pieces, Delays, Minute, MaxPerMinute,
          Launches, Closes, app, Apps, AppOf, Ops, f1, f2, Files, Catches, MaxBackups,
          Waits, k, TaskKeys, KeyOf, Queries, MaxAnswers, ToolCalls, MaxToolCalls,
          Clients, Pushes, ClientOf,
          r1, r2, r3, Chats, Streams, ConnOf, MaxBreaks,
          Modes, SilenceFrames, MinSpeechFrames, MaxChunk, MaxPieces, MaxReturned,
          m1, m2, m3, Watchers, Reports, WatcherOf

\* The calls of one tool are not those of another, and those who wait are not
\* nobody.  A backup of a file is caught by the pattern of that file; the names
\* have no wildcards in them, so that of two patterns that catch one name the
\* longer catches no more than the other.
ASSUME RequestConstants ==
  /\ Gestures \cap Drags = {} /\ (Gestures \cup Drags \cup Keys) \cap Typings = {} /\ Keys \cap Drags = {}
  /\ Pieces \in Nat \ {0}
  /\ Launches \cap Closes = {} /\ (Launches \cup Closes) \cap Ops = {} /\ NoOne \notin Launches
  /\ AppOf \in [Launches \cup Closes -> Apps]
  /\ Catches \in [Files -> SUBSET Files] /\ MaxBackups \in Nat
  /\ \A f \in Files : f \in Catches[f]
  /\ \A f, g \in Files : Catches[f] \cap Catches[g] # {} =>
       Catches[f] \subseteq Catches[g] \/ Catches[g] \subseteq Catches[f]
  /\ Idle \notin (1 .. MaxMsgs) \X {1, 2}
  /\ Nobody \notin Waits /\ KeyOf \in [Waits -> TaskKeys] /\ MaxToolCalls \in Nat
  /\ ClientOf \in [Pushes -> Clients] /\ "" \notin Pushes
  /\ Nobody \notin Chats /\ Nobody \notin Sends

VARIABLES part, service, todo, shown, actions,
          sort, oneByOne, order, holder, linked, keys, changes, account, since,
          got, deferred, prompted, rejected, emitted, offered,
          wanted, state, up, era, eraOf, token, lock, refreshes, expiries, failures,
          tried, unanswered, cut,
          text, template, phase, remaining, chunks, turns,
          lines, at, current, blocks, buttons, over,
          delay, guard, pointing, thread, done, button, jammed,
          step, tracked, alive, target, together, disk, backups, doing, lost, clock,
          wait, pending, promise, begun, crossed, answers, queue, handled,
          tool, expired, counted, most, stream, clients, out, request, read,
          exists, stage, txn, stamp, writes, rowLock, rows, count, memory, told, before,
          time, breaks,
          mode, active, buffer, detector, fed, verdicts, returned,
          connected, watching, capturing, picture, overlapped

inbound == <<sort, oneByOne, order, holder, linked, keys, changes, account, since,
             got, deferred, prompted, rejected, emitted, offered>>
outbound == <<wanted, state, up, era, eraOf, token, lock, refreshes, expiries,
              failures, tried, unanswered, cut>>
chunking == <<text, template, phase, remaining, chunks, turns>>
blocking == <<lines, at, current, blocks, buttons, over>>
messages == <<service, todo, shown, actions, inbound, outbound, chunking, blocking>>
input == <<delay, guard, pointing, thread, done, button, jammed>>
desktop == <<step, tracked, alive, target, together, disk, backups, doing, lost, clock>>
agents == <<wait, pending, promise, begun, crossed, answers, queue, handled,
            tool, expired, counted, most, stream, clients, out, request, read>>
chat == <<exists, stage, txn, stamp, writes, rowLock, rows, count, memory, told, before,
          time, breaks>>
media == <<mode, active, buffer, detector, fed, verdicts, returned,
           connected, watching, capturing, picture, overlapped>>
suite == <<part, messages, input, desktop, agents, chat, media>>

I == INSTANCE Inbound
O == INSTANCE Outbound
C == INSTANCE Chunks
B == INSTANCE Blocks
N == INSTANCE Control WITH
       step <- pointing, Chunks <- Pieces, Texts <- Typings, MaxActions <- MaxPerMinute
D == INSTANCE Desktop WITH Nothing <- NoOne
A == INSTANCE AgentMessages WITH
       Keys <- TaskKeys, Requests <- Pushes,
       future <- promise, since <- begun, emitted <- answers, call <- tool
H == INSTANCE Conversations WITH
       Requests <- Chats, at <- stage, lock <- rowLock, answered <- told, clock <- time
V == INSTANCE VoiceActivity WITH taken <- returned
M == INSTANCE Mirror WITH together <- overlapped

\* One application, one key, one client; the second file's backups look like the
\* first's; a third call comes from a second connection.
MCAppOf == [c \in Launches \cup Closes |-> app]
MCCatches == f1 :> {f1, f2} @@ f2 :> {f2}
MCKeyOf == [w \in Waits |-> k]
MCClientOf == [r \in Pushes |-> CHOOSE c \in Clients : TRUE]
MCConnOf == [r \in Chats |-> IF r = r3 THEN 2 ELSE 1]
MCWatcherOf == [r \in Reports |-> IF r = m3 THEN 2 ELSE 1]

NoInbound ==
  /\ sort = 0 /\ oneByOne = 0 /\ order = 0 /\ holder = 0 /\ linked = 0
  /\ keys = 0 /\ changes = 0 /\ account = 0 /\ since = 0 /\ got = 0
  /\ deferred = 0 /\ prompted = 0 /\ rejected = 0 /\ emitted = 0 /\ offered = 0
NoOutbound ==
  /\ wanted = 0 /\ state = 0 /\ up = 0 /\ era = 0 /\ eraOf = 0
  /\ token = 0 /\ lock = 0 /\ refreshes = 0 /\ expiries = 0 /\ failures = 0
  /\ tried = 0 /\ unanswered = 0 /\ cut = 0
NoChunks ==
  /\ text = 0 /\ template = 0 /\ phase = 0 /\ remaining = 0 /\ chunks = 0
  /\ turns = 0
NoBlocks ==
  /\ lines = 0 /\ at = 0 /\ current = 0 /\ blocks = 0 /\ buttons = 0
  /\ over = 0

\* Only Teams has something two sends share.
OneSend == service # "teams" => wanted[s2].files = 0 /\ wanted[s2].texts = 0

InitCalls == /\ part = "calls" /\ service = 0 /\ todo = 0 /\ shown = 0 /\ actions = 0
             /\ NoInbound /\ NoOutbound /\ NoChunks /\ NoBlocks
InitInbound == /\ part = "inbound" /\ I!Init /\ shown = 0 /\ actions = 0
               /\ NoOutbound /\ NoChunks /\ NoBlocks
InitOutbound == /\ part = "outbound" /\ O!Init /\ OneSend /\ actions = 0
                /\ NoInbound /\ NoChunks /\ NoBlocks
InitChunks == /\ part = "chunks" /\ C!Init /\ todo = 0
              /\ NoInbound /\ NoOutbound /\ NoBlocks
InitBlocks == /\ part = "blocks" /\ B!Init /\ todo = 0 /\ shown = 0
              /\ NoInbound /\ NoOutbound /\ NoChunks

NoInput ==
  /\ delay = 0 /\ guard = 0 /\ pointing = 0 /\ thread = 0 /\ done = 0
  /\ button = 0 /\ jammed = 0
NoDesktop ==
  /\ step = 0 /\ tracked = 0 /\ alive = 0 /\ target = 0 /\ together = 0
  /\ disk = 0 /\ backups = 0 /\ doing = 0 /\ lost = 0 /\ clock = 0
NoMessages ==
  /\ service = 0 /\ todo = 0 /\ shown = 0 /\ actions = 0
  /\ NoInbound /\ NoOutbound /\ NoChunks /\ NoBlocks

InitMessages == InitCalls \/ InitInbound \/ InitOutbound \/ InitChunks \/ InitBlocks
InitInput == part = "input" /\ N!Init /\ NoMessages /\ NoDesktop
InitDesktop == part \in {"apps", "files"} /\ D!Init /\ NoMessages /\ NoInput

InitOthers == part \in {"protocol", "workspace", "serving", "chat", "voice", "mirror"} /\ NoMessages /\ NoInput /\ NoDesktop

SuiteInit ==
  /\ Init /\ A!Init /\ H!Init /\ V!Init /\ M!Init
  /\ (InitMessages /\ NoInput /\ NoDesktop) \/ InitInput \/ InitDesktop \/ InitOthers
  /\ part # "voice" => mode = "auto_detect"

Calling == part = "calls" /\ Next /\ UNCHANGED suite
Message ==
  \/ /\ part = "inbound" /\ I!Next
     /\ UNCHANGED <<shown, actions, outbound, chunking, blocking>>
  \/ /\ part = "outbound" /\ O!Next
     /\ UNCHANGED <<actions, inbound, chunking, blocking>>
  \/ /\ part = "chunks" /\ C!Next
     /\ UNCHANGED <<todo, inbound, outbound, blocking>>
  \/ /\ part = "blocks" /\ B!Next
     /\ UNCHANGED <<todo, shown, inbound, outbound, chunking>>
Messaging == Message /\ UNCHANGED <<vars, part, input, desktop, agents, chat, media>>
Pointing == part = "input" /\ N!Next /\ UNCHANGED <<vars, part, messages, desktop, agents, chat, media>>
Hosting ==
  /\ (part = "apps" /\ D!AppControl) \/ (part = "files" /\ D!FileManage)
  /\ UNCHANGED <<vars, part, messages, input, agents, chat, media>>
Agent ==
  /\ \/ part = "protocol" /\ A!Talk
     \/ part = "workspace" /\ A!Work
     \/ part = "serving" /\ A!Offer
  /\ UNCHANGED <<vars, part, messages, input, desktop, chat, media>>
Chatting == part = "chat" /\ H!Next /\ UNCHANGED <<vars, part, messages, input, desktop, agents, media>>
Listening ==
  /\ \/ part = "voice" /\ V!Next /\ UNCHANGED <<connected, watching, capturing, picture, overlapped>>
     \/ /\ part = "mirror" /\ M!Next
        /\ UNCHANGED <<mode, active, buffer, detector, fed, verdicts, returned>>
  /\ UNCHANGED <<vars, part, messages, input, desktop, agents, chat>>

SuiteSpec ==
  SuiteInit
  /\ [][Calling \/ Messaging \/ Pointing \/ Hosting \/ Agent \/ Chatting \/ Listening]_<<vars, suite>>

\* The chunks alone, with the fairness their end needs: the loop does not pause.
ChunksSpec ==
  /\ Init /\ A!Init /\ H!Init /\ V!Init /\ M!Init /\ InitChunks /\ NoInput /\ NoDesktop
  /\ mode = "auto_detect"
  /\ [][Messaging]_<<vars, suite>>
  /\ WF_<<vars, suite>>(Messaging)

InboundSound == part = "inbound" => I!InboundSound
OutboundSound == part = "outbound" => O!OutboundSound

\* What is written reaches the chat whole and in order, in chunks as in blocks
\* (channels/<service>/formatter.py).
FormattingSound == (part = "chunks" => C!SplitSound) /\ (part = "blocks" => B!BlocksSound)

\* What the tools do on the host stays under control (tools/control),
\* and the mirror of it goes on (gateway/mirror_handlers.py).
ControlSound ==
  /\ part = "input" => N!InputSound
  /\ part \in {"apps", "files"} => D!DesktopSound
  /\ M!MirrorSound

\* Agents hear what is meant for them, within their limits.
AgentsTalk == A!AgentsTalk

\* The history of a conversation is what was said in it (memory/orchestrator.py).
HistorySound == H!HistorySound

\* Speech comes as it was spoken (voice/vad.py).
SegmentsSound == V!SegmentsSound

SplitEnds == C!SplitEnds
=============================================================================
