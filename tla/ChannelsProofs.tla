--------------------------- MODULE ChannelsProofs ---------------------------
(***************************************************************************)
(* Theorems about the four components that MCChannels brings together:     *)
(* the kill switch, the client of tool servers (M), sending to Slack (S)   *)
(* and the calls to the Signal daemon (G).  They hold for any number of    *)
(* requests, messages and connections, and any grace period.               *)
(***************************************************************************)
EXTENDS MCChannels, FiniteSetTheorems, TLAPS

(* The kill switch.                                                        *)

LEMMA HardKillTypes ==
  ASSUME TypeOK, NEW fired \in SUBSET Requests, HardKill(fired)
  PROVE  /\ state' = "killed"
         /\ timer' \in [Requests -> {"none", "sleeping", "cancelled", "ended"}]
BY DEF TypeOK, HardKill

(* Every reachable state of the switch is well typed: killswitch.py's      *)
(* fields, with the timer tasks they refer to.                             *)
THEOREM KillSwitchTypes == Spec => []TypeOK
<1>1. Init => TypeOK
  BY KillSwitchConstants DEF Init, TypeOK
<1>2. TypeOK /\ [Next]_killVars => TypeOK'
  <2> SUFFICES ASSUME TypeOK, [Next]_killVars PROVE TypeOK'
    OBVIOUS
  <2> USE KillSwitchConstants DEF TypeOK
  <2>1. ASSUME NEW k \in Requests, SoftKill(k) PROVE TypeOK'
    BY <2>1 DEF SoftKill
  <2>2. ASSUME NEW k \in Requests, SecondKill(k) PROVE TypeOK'
    BY <2>2, HardKillTypes DEF SecondKill
  <2>3. ASSUME NEW k \in Requests, LateKill(k) \/ RejectKill(k) PROVE TypeOK'
    BY <2>3 DEF LateKill, RejectKill
  <2>4. ASSUME NEW k \in Requests, StartTimer(k) PROVE TypeOK'
    BY <2>4 DEF StartTimer
  <2>5. CASE Resume
    BY <2>5 DEF Resume
  <2>6. ASSUME NEW k \in Requests, TimerFires(k) PROVE TypeOK'
    <3>1. CASE state = "soft_killing"
      BY <2>6, <3>1, HardKillTypes DEF TimerFires
    <3>2. CASE state # "soft_killing"
      BY <2>6, <3>2 DEF TimerFires
    <3> QED
      BY <3>1, <3>2
  <2>7. ASSUME NEW k \in Requests, TimerCancelled(k) PROVE TypeOK'
    BY <2>7 DEF TimerCancelled
  <2>8. CASE Tick
    BY <2>8 DEF Tick, Asleep
  <2>9. CASE UNCHANGED killVars
    BY <2>9 DEF killVars
  <2> QED
    BY <2>1, <2>2, <2>3, <2>4, <2>5, <2>6, <2>7, <2>8, <2>9
       DEF Next, Answer, TimerTask
<1> QED
  BY <1>1, <1>2, PTL DEF Spec

-----------------------------------------------------------------------------
(* A soft kill cannot stall: the invariant names the request that closed   *)
(* the gate, so that the timers and callbacks of other kills do not count. *)
THEOREM NoStall == Spec => []KillCannotStall
<1>1. Init => KillCannotStall
  BY DEF Init, KillCannotStall
<1>2. TypeOK /\ KillCannotStall /\ [Next]_killVars => KillCannotStall'
  <2> SUFFICES ASSUME TypeOK, KillCannotStall, [Next]_killVars,
                      state' = "soft_killing"
               PROVE  /\ owner' # None
                      /\ \/ request'[owner'] = "callbacks"
                         \/ timer'[owner'] = "sleeping"
    BY DEF KillCannotStall
  <2> USE KillSwitchConstants DEF TypeOK, KillCannotStall
  <2>1. ASSUME NEW k \in Requests, SoftKill(k)
        PROVE owner' \in Requests /\ request'[owner'] = "callbacks"
    BY <2>1 DEF SoftKill
  <2>2. ASSUME NEW k \in Requests, SecondKill(k) PROVE FALSE
    BY <2>2 DEF SecondKill, HardKill
  <2>3. ASSUME NEW k \in Requests, LateKill(k) \/ RejectKill(k)
        PROVE /\ UNCHANGED <<state, timer, owner>>
              /\ request[k] = "new"
              /\ k # owner => request'[owner] = request[owner]
    BY <2>3 DEF LateKill, RejectKill
  <2>4. ASSUME NEW k \in Requests, StartTimer(k)
        PROVE /\ owner' = owner /\ state = "soft_killing"
              /\ k = owner => timer'[owner] = "sleeping"
              /\ k # owner => /\ request'[owner] = request[owner]
                              /\ timer'[owner] = timer[owner]
    BY <2>4 DEF StartTimer
  <2>5. ASSUME Resume PROVE FALSE
    BY <2>5 DEF Resume
  <2>6. ASSUME NEW k \in Requests, TimerFires(k) PROVE FALSE
    BY <2>6 DEF TimerFires, HardKill
  <2>7. ASSUME NEW k \in Requests, TimerCancelled(k)
        PROVE /\ owner' = owner /\ request' = request /\ state = "soft_killing"
              /\ timer[owner] = "sleeping" => timer'[owner] = "sleeping"
    BY <2>7 DEF TimerCancelled
  <2>8. CASE Tick \/ UNCHANGED killVars
    BY <2>8 DEF Tick, killVars
  <2>9. CASE \E k \in Requests : LateKill(k) \/ RejectKill(k)
    BY <2>3, <2>9
  <2>10. CASE \E k \in Requests : StartTimer(k)
    BY <2>4, <2>10
  <2> QED
    BY <2>1, <2>2, <2>5, <2>6, <2>7, <2>8, <2>9, <2>10
       DEF Next, Answer, TimerTask
<1> QED
  BY <1>1, <1>2, KillSwitchTypes, PTL DEF Spec

LEMMA ResumedSteps == [Next]_killVars => [state = "running" => state' # "killed"]_killVars
<1> SUFFICES ASSUME Next, state = "running" PROVE state' # "killed"
  OBVIOUS
<1> QED
  BY DEF Next, Answer, TimerTask, SoftKill, SecondKill, LateKill, RejectKill,
         StartTimer, Resume, TimerFires, TimerCancelled, Tick

(* What is left of an earlier kill, its callbacks and its timer, never     *)
(* kills a resumed server.                                                 *)
THEOREM ResumedStaysUp == Spec => ResumeHolds
BY ResumedSteps, PTL DEF Spec, ResumeHolds

-----------------------------------------------------------------------------
(* The client of tool servers.                                             *)

(* What waits is registered; over SSE whatever was begun is, until its     *)
(* answer was read.                                                        *)
AskInv(c, r) ==
  /\ asking[c][r] = "waiting" => r \in registered[c]
  /\ c \in Sse => /\ asking[c][r] = "sending" => r \in registered[c]
                  /\ asking[c][r] # "new" => r \in registered[c] \cup read[c]

McpInv ==
  /\ DOMAIN phase = M!Conns /\ DOMAIN registered = M!Conns /\ DOMAIN asking = M!Conns
  /\ DOMAIN read = M!Conns /\ DOMAIN lost = M!Conns
  /\ \A c \in M!Conns : DOMAIN asking[c] = M!Asks
  /\ \A c \in Sse : lost[c] = {}
  /\ \A c \in M!Conns, r \in M!Asks : AskInv(c, r)
  /\ cache \subseteq {c \in M!Conns : phase[c] \in {"open", "closing"}}

(* What a step does to one request, and to its connection's history.       *)
LEMMA RequestMoves ==
  ASSUME McpInv, NEW c \in M!Conns, NEW r \in M!Asks, NEW s, M!Becomes(c, r, s)
  PROVE  /\ DOMAIN asking' = M!Conns /\ asking'[c][r] = s
         /\ \A d \in M!Conns : DOMAIN asking'[d] = M!Asks
         /\ \A d \in M!Conns, q \in M!Asks : d # c \/ q # r => asking'[d][q] = asking[d][q]
BY DEF McpInv, M!Becomes

LEMMA Registers ==
  ASSUME McpInv, NEW c \in M!Conns, NEW r \in M!Asks, M!Register(c, r)
  PROVE  /\ DOMAIN registered' = M!Conns /\ registered'[c] = registered[c] \cup {r}
         /\ \A d \in M!Conns \ {c} : registered'[d] = registered[d]
BY DEF McpInv, M!Register

LEMMA Moves ==
  ASSUME McpInv, NEW c \in M!Conns, NEW s, M!Goes(c, s)
  PROVE  /\ DOMAIN phase' = M!Conns /\ phase'[c] = s
         /\ \A d \in M!Conns \ {c} : phase'[d] = phase[d]
BY DEF McpInv, M!Goes

(* The cache holds as long as a connection in it stays open or closes.     *)
LEMMA CacheKept ==
  ASSUME McpInv, NEW c \in M!Conns, NEW s, M!Goes(c, s), UNCHANGED cache,
         s \in {"open", "closing"} \/ phase[c] \notin {"open", "closing"}
  PROVE  cache' \subseteq {d \in M!Conns : phase'[d] \in {"open", "closing"}}
BY Moves DEF McpInv

LEMMA BeginKeeps ==
  ASSUME McpInv, NEW c \in M!Conns, NEW r \in M!Asks, M!Begin(c, r), UNCHANGED <<read, lost>>,
         DOMAIN phase' = M!Conns, cache' \subseteq {d \in M!Conns : phase'[d] \in {"open", "closing"}}
  PROVE  McpInv'
<1>1. M!Becomes(c, r, "sending")
  BY DEF M!Begin
<1>2. /\ DOMAIN registered' = M!Conns /\ \A d \in M!Conns : registered[d] \subseteq registered'[d]
      /\ c \in Sse => r \in registered'[c]
  BY Registers DEF M!Begin, McpInv
<1>3. ASSUME NEW d \in M!Conns, NEW q \in M!Asks PROVE AskInv(d, q)'
  <2>1. AskInv(d, q)
    BY DEF McpInv
  <2>2. CASE d = c /\ q = r
    BY <1>1, <1>2, <2>2, RequestMoves DEF AskInv
  <2>3. CASE d # c \/ q # r
    <3>1. asking'[d][q] = asking[d][q]
      BY <1>1, <2>3, RequestMoves
    <3> QED
      BY <1>2, <2>1, <3>1 DEF AskInv
  <2> QED
    BY <2>2, <2>3
<1>4. DOMAIN asking' = M!Conns /\ \A d \in M!Conns : DOMAIN asking'[d] = M!Asks
  BY <1>1, RequestMoves
<1> QED
  BY <1>2, <1>3, <1>4 DEF McpInv

LEMMA Handshake == 1 \in M!Asks /\ 2 \in M!Asks
BY ChannelConstants DEF M!Asks

LEMMA QuietKeeps ==
  ASSUME McpInv, UNCHANGED <<asking, registered, read, lost>>,
         DOMAIN phase' = M!Conns, cache' \subseteq {d \in M!Conns : phase'[d] \in {"open", "closing"}}
  PROVE  McpInv'
BY DEF McpInv, AskInv

LEMMA ConnectionKeeps ==
  ASSUME McpInv, NEW c \in M!Conns,
         \/ M!Connect(c) \/ M!OpenFails(c) \/ M!Opened(c) \/ M!Greeted(c) \/ M!Listed(c)
         \/ M!Disconnect(c) \/ M!Closed(c) \/ M!StreamEnds(c)
  PROVE  McpInv'
<1> DEFINE Cached == DOMAIN phase' = M!Conns /\ cache' \subseteq {d \in M!Conns : phase'[d] \in {"open", "closing"}}
<1>1. CASE M!Connect(c) \/ M!OpenFails(c)
  <2>1. Cached
    BY <1>1, CacheKept, Moves DEF M!Connect, M!OpenFails
  <2> QED
    BY <1>1, <2>1, QuietKeeps DEF M!Connect, M!OpenFails
<1>2. CASE M!Opened(c)
  <2>1. Cached
    BY <1>2, CacheKept, Moves DEF M!Opened
  <2> QED
    BY <1>2, <2>1, Handshake, BeginKeeps DEF M!Opened
<1>3. CASE M!Greeted(c)
  <2>1. Cached
    BY <1>3, CacheKept, Moves DEF M!Greeted
  <2>2. CASE M!Begin(c, 2)
    BY <1>3, <2>1, <2>2, Handshake, BeginKeeps DEF M!Greeted
  <2>3. CASE UNCHANGED <<asking, registered>>
    BY <1>3, <2>1, <2>3, QuietKeeps DEF M!Greeted
  <2> QED
    BY <1>3, <2>2, <2>3 DEF M!Greeted
<1>4. CASE M!Listed(c)
  <2>1. Cached
    BY <1>4, Moves DEF M!Listed, McpInv
  <2> QED
    BY <1>4, <2>1, QuietKeeps DEF M!Listed
<1>5. CASE M!Disconnect(c)
  <2>1. Cached
    BY <1>5, CacheKept, Moves DEF M!Disconnect
  <2> QED
    BY <1>5, <2>1, QuietKeeps DEF M!Disconnect
<1>6. CASE M!Closed(c)
  <2>1. Cached
    BY <1>6, Moves DEF M!Closed, McpInv
  <2> QED
    BY <1>6, <2>1, QuietKeeps DEF M!Closed
<1>7. CASE M!StreamEnds(c)
  BY <1>7, QuietKeeps DEF M!StreamEnds, McpInv
<1> QED
  BY <1>1, <1>2, <1>3, <1>4, <1>5, <1>6, <1>7

(* A request moves on, and its connection's history with it.               *)
LEMMA OtherAsks ==
  ASSUME McpInv, NEW c \in M!Conns, NEW r \in M!Asks, NEW s, M!Becomes(c, r, s),
         UNCHANGED <<phase, cache, lost>>,
         DOMAIN registered' = M!Conns, DOMAIN read' = M!Conns,
         \A d \in M!Conns, q \in M!Asks :
           ~(d = c /\ q = r) /\ q \in registered[d] => q \in registered'[d],
         \A d \in M!Conns, q \in M!Asks : ~(d = c /\ q = r) /\ q \in read[d] => q \in read'[d],
         s = "waiting" => r \in registered'[c],
         c \in Sse /\ s = "sending" => r \in registered'[c],
         c \in Sse /\ s # "new" => r \in registered'[c] \cup read'[c]
  PROVE  McpInv'
<1>1. ASSUME NEW d \in M!Conns, NEW q \in M!Asks PROVE AskInv(d, q)'
  <2>1. AskInv(d, q)
    BY DEF McpInv
  <2>2. CASE d = c /\ q = r
    BY <2>2, RequestMoves DEF AskInv
  <2>3. CASE d # c \/ q # r
    <3>1. asking'[d][q] = asking[d][q]
      BY <2>3, RequestMoves
    <3> QED
      BY <2>1, <2>3, <3>1 DEF AskInv
  <2> QED
    BY <2>2, <2>3
<1>2. DOMAIN asking' = M!Conns /\ \A d \in M!Conns : DOMAIN asking'[d] = M!Asks
  BY RequestMoves
<1> QED
  BY <1>1, <1>2 DEF McpInv

LEMMA RequestKeeps ==
  ASSUME McpInv, NEW c \in M!Conns, NEW r \in M!Asks,
         M!CallTool(c, r) \/ M!Sent(c, r) \/ M!SendFails(c, r) \/ M!Timeout(c, r)
  PROVE  McpInv'
<1>1. CASE M!CallTool(c, r)
  BY <1>1, BeginKeeps DEF M!CallTool, McpInv
<1>2. CASE M!Sent(c, r)
  <2>1. PICK s \in {"waiting", "answered"} :
           /\ M!Becomes(c, r, s) /\ asking[c][r] # "new"
           /\ s = "waiting" => asking[c][r] = "sending"
    BY <1>2 DEF M!Sent
  <2>2. /\ DOMAIN registered' = M!Conns /\ \A d \in M!Conns : registered[d] \subseteq registered'[d]
        /\ c \in Stdio => r \in registered'[c]
    BY <1>2, Registers DEF M!Sent, McpInv
  <2>3. UNCHANGED <<phase, cache, read, lost>> /\ (c \in Stdio \/ c \in Sse)
    BY <1>2 DEF M!Sent, M!Conns
  <2>4. AskInv(c, r) /\ DOMAIN read' = M!Conns
    BY <2>3 DEF McpInv
  <2> QED
    BY <2>1, <2>2, <2>3, <2>4, OtherAsks DEF AskInv
<1>3. CASE M!SendFails(c, r) \/ M!Timeout(c, r)
  <2>1. PICK s \in {"failed", "timedout"} : M!Becomes(c, r, s) /\ asking[c][r] # "new"
    BY <1>3 DEF M!SendFails, M!Timeout
  <2>2. UNCHANGED <<phase, cache, registered, read, lost>>
    BY <1>3 DEF M!SendFails, M!Timeout
  <2>3. AskInv(c, r) /\ DOMAIN read' = M!Conns /\ DOMAIN registered' = M!Conns
    BY <2>2 DEF McpInv
  <2> QED
    BY <2>1, <2>2, <2>3, OtherAsks DEF AskInv
<1> QED
  BY <1>1, <1>2, <1>3

LEMMA AnswerKeeps ==
  ASSUME McpInv, NEW c \in M!Conns, NEW r \in M!Asks, M!Answer(c, r)
  PROVE  McpInv'
<1>1. /\ UNCHANGED <<phase, connections, cache>> /\ asking[c][r] # "new" /\ r \notin read[c]
      /\ DOMAIN read' = M!Conns /\ read'[c] = read[c] \cup {r}
      /\ DOMAIN registered' = M!Conns /\ registered'[c] = registered[c] \ {r}
      /\ \A d \in M!Conns \ {c} : read'[d] = read[d] /\ registered'[d] = registered[d]
  BY DEF M!Answer, McpInv
<1>2. c \in Sse => r \in registered[c]
  BY <1>1 DEF McpInv, AskInv
<1>3. CASE r \notin registered[c]
  <2>1. asking' = asking /\ DOMAIN lost' = M!Conns /\ \A d \in M!Conns \ {c} : lost'[d] = lost[d]
    BY <1>3 DEF M!Answer, McpInv
  <2>2. c \notin Sse /\ \A d \in Sse : d \in M!Conns
    BY <1>2, <1>3 DEF M!Conns
  <2>3. ASSUME NEW d \in M!Conns, NEW q \in M!Asks PROVE AskInv(d, q)'
    BY <1>1, <1>3, <2>1, <2>2 DEF McpInv, AskInv
  <2> QED
    BY <1>1, <2>1, <2>2, <2>3 DEF McpInv
<1>4. CASE r \in registered[c] /\ asking[c][r] \in {"timedout", "failed"}
  <2>1. asking' = asking /\ lost' = lost
    BY <1>4 DEF M!Answer
  <2>2. ASSUME NEW d \in M!Conns, NEW q \in M!Asks PROVE AskInv(d, q)'
    BY <1>1, <1>4, <2>1 DEF McpInv, AskInv
  <2> QED
    BY <1>1, <2>1, <2>2 DEF McpInv
<1>5. CASE r \in registered[c] /\ asking[c][r] \notin {"timedout", "failed"}
  <2>1. lost' = lost /\ \E s \in {"answered", "resolved"} : M!Becomes(c, r, s)
    BY <1>5 DEF M!Answer
  <2> QED
    BY <1>1, <2>1, OtherAsks
<1> QED
  BY <1>3, <1>4, <1>5

(* However answers, failed posts, timeouts and disconnects are ordered.    *)
LEMMA McpKept == McpInv /\ [M!Next]_(M!vars) => McpInv'
<1> SUFFICES ASSUME McpInv, [M!Next]_(M!vars) PROVE McpInv'
  OBVIOUS
<1>1. CASE UNCHANGED M!vars
  BY <1>1 DEF M!vars, McpInv, AskInv
<1> QED
  BY <1>1, ConnectionKeeps, RequestKeeps, AnswerKeeps DEF M!Next

LEMMA McpStarts == M!Init => McpInv
BY DEF M!Init, McpInv, AskInv, M!Conns

LEMMA McpSays == McpInv => M!AnswersReach
BY DEF McpInv, AskInv, M!AnswersReach

-----------------------------------------------------------------------------
(* Sending to Slack.                                                       *)

(* What becomes of a sequence that a message joins, or leaves in front.    *)
Distinct(z) == \A i, j \in DOMAIN z : z[i] = z[j] => i = j

LEMMA Elements ==
  ASSUME NEW X, NEW z \in Seq(X)
  PROVE  Len(z) \in Nat /\ DOMAIN z = 1 .. Len(z) /\ \A i \in 1 .. Len(z) : z[i] \in X
OBVIOUS

LEMMA Joined ==
  ASSUME NEW X, NEW z \in Seq(X), NEW m \in X
  PROVE  /\ Append(z, m) \in Seq(X) /\ S!InSeq(Append(z, m)) = S!InSeq(z) \cup {m}
         /\ Distinct(z) /\ m \notin S!InSeq(z) => Distinct(Append(z, m))
         /\ \A n, o : S!Before(n, o, Append(z, m)) <=>
                         S!Before(n, o, z) \/ (n \in S!InSeq(z) /\ o = m)
<1> DEFINE e == Append(z, m)
           k == Len(z)
<1>1. k \in Nat /\ DOMAIN z = 1 .. k /\ \A i \in 1 .. k : z[i] \in X
  BY Elements
<1>2. e \in Seq(X) /\ DOMAIN e = 1 .. k + 1 /\ e[k + 1] = m /\ \A i \in 1 .. k : e[i] = z[i]
  BY <1>1
<1> HIDE DEF e, k
<1>3. \A i \in 1 .. k + 1 : i \in 1 .. k \/ i = k + 1
  BY <1>1
<1>4. \A i \in 1 .. k : i \in 1 .. k + 1 /\ i < k + 1 /\ i # k + 1
  BY <1>1
<1>5. k + 1 \in 1 .. k + 1
  BY <1>1
<1>6. S!InSeq(e) = S!InSeq(z) \cup {m}
  BY <1>1, <1>2, <1>3, <1>4, <1>5 DEF S!InSeq
<1>7. Distinct(z) /\ m \notin S!InSeq(z) => Distinct(e)
  BY <1>1, <1>2, <1>3 DEF Distinct, S!InSeq
<1>8. ASSUME NEW n, NEW o, S!Before(n, o, e)
      PROVE  S!Before(n, o, z) \/ (n \in S!InSeq(z) /\ o = m)
  <2>1. PICK i \in 1 .. k + 1, j \in 1 .. k + 1 : i < j /\ e[i] = n /\ e[j] = o
    BY <1>2, <1>8 DEF S!Before
  <2>2. i \in 1 .. k
    BY <1>1, <2>1
  <2>3. CASE j \in 1 .. k
    BY <1>1, <1>2, <2>1, <2>2, <2>3 DEF S!Before
  <2>4. CASE j = k + 1
    BY <1>1, <1>2, <2>1, <2>2, <2>4 DEF S!InSeq
  <2> QED
    BY <1>3, <2>1, <2>3, <2>4
<1>9. ASSUME NEW n, NEW o, S!Before(n, o, z) \/ (n \in S!InSeq(z) /\ o = m)
      PROVE  S!Before(n, o, e)
  <2>1. CASE S!Before(n, o, z)
    BY <1>1, <1>2, <1>4, <2>1 DEF S!Before
  <2>2. CASE n \in S!InSeq(z) /\ o = m
    BY <1>1, <1>2, <1>4, <1>5, <2>2 DEF S!Before, S!InSeq
  <2> QED
    BY <1>9, <2>1, <2>2
<1> QED
  BY <1>2, <1>6, <1>7, <1>8, <1>9 DEF e

LEMMA Left ==
  ASSUME NEW X, NEW z \in Seq(X), z # <<>>, Distinct(z)
  PROVE  /\ Head(z) \in X /\ Tail(z) \in Seq(X) /\ Distinct(Tail(z))
         /\ S!InSeq(z) = S!InSeq(Tail(z)) \cup {Head(z)} /\ Head(z) \notin S!InSeq(Tail(z))
         /\ \A n, o : S!Before(n, o, z) => o # Head(z) /\ (n = Head(z) \/ S!Before(n, o, Tail(z)))
<1> DEFINE e == Tail(z)
           k == Len(z)
<1>1. k \in Nat \ {0} /\ DOMAIN z = 1 .. k /\ \A i \in 1 .. k : z[i] \in X
  BY Elements
<1>2. /\ e \in Seq(X) /\ DOMAIN e = 1 .. k - 1 /\ Head(z) = z[1]
      /\ \A i \in 1 .. k - 1 : e[i] = z[i + 1]
  BY <1>1
<1> HIDE DEF e, k
<1>3. \A i \in 1 .. k - 1 : i + 1 \in 1 .. k /\ i + 1 # 1
  BY <1>1
<1>4. \A i \in 1 .. k : i # 1 => i - 1 \in 1 .. k - 1 /\ (i - 1) + 1 = i
  BY <1>1
<1>5. \A i \in 1 .. k : i # 1 => e[i - 1] = z[i]
  BY <1>1, <1>2, <1>4
<1>6. 1 \in 1 .. k
  BY <1>1
<1>7. S!InSeq(z) = S!InSeq(e) \cup {z[1]}
  <2>1. \A i \in 1 .. k - 1 : \E j \in 1 .. k : e[i] = z[j]
    BY <1>2, <1>3
  <2>2. \A i \in 1 .. k : i = 1 \/ \E j \in 1 .. k - 1 : z[i] = e[j]
    BY <1>4, <1>5
  <2>3. S!InSeq(z) = {z[i] : i \in 1 .. k} /\ S!InSeq(e) = {e[i] : i \in 1 .. k - 1}
    BY <1>1, <1>2 DEF S!InSeq
  <2> QED
    BY <1>6, <2>1, <2>2, <2>3
<1>8. z[1] \notin S!InSeq(e)
  <2>1. ASSUME NEW i \in 1 .. k - 1 PROVE e[i] # z[1]
    <3>1. PICK j \in 1 .. k : j = i + 1 /\ j # 1 /\ e[i] = z[j]
      BY <1>2, <1>3
    <3> QED
      BY <1>1, <1>6, <3>1 DEF Distinct
  <2>2. S!InSeq(e) = {e[i] : i \in 1 .. k - 1}
    BY <1>2 DEF S!InSeq
  <2> QED
    BY <2>1, <2>2
<1>9. Distinct(e)
  <2> SUFFICES ASSUME NEW i \in 1 .. k - 1, NEW j \in 1 .. k - 1, e[i] = e[j] PROVE i = j
    BY <1>2 DEF Distinct
  <2>1. i + 1 \in 1 .. k /\ j + 1 \in 1 .. k /\ z[i + 1] = z[j + 1]
    BY <1>2, <1>3
  <2>2. i + 1 = j + 1
    BY <1>1, <2>1 DEF Distinct
  <2> QED
    BY <1>1, <2>2
<1>10. ASSUME NEW n, NEW o, S!Before(n, o, z)
       PROVE  o # z[1] /\ (n = z[1] \/ S!Before(n, o, e))
  <2>1. PICK i \in 1 .. k, j \in 1 .. k : i < j /\ z[i] = n /\ z[j] = o
    BY <1>1, <1>10 DEF S!Before
  <2>2. j # 1 /\ o # z[1]
    BY <1>1, <1>6, <2>1 DEF Distinct
  <2>3. CASE i # 1
    <3>1. i - 1 \in DOMAIN e /\ j - 1 \in DOMAIN e /\ i - 1 < j - 1
      BY <1>1, <1>2, <1>4, <2>1, <2>2, <2>3
    <3>2. e[i - 1] = n /\ e[j - 1] = o
      BY <1>5, <2>1, <2>2, <2>3
    <3> QED
      BY <2>2, <3>1, <3>2 DEF S!Before
  <2> QED
    BY <2>1, <2>2, <2>3
<1> QED
  BY <1>1, <1>2, <1>6, <1>7, <1>8, <1>9, <1>10 DEF e

(* Where the messages handed in are.                                       *)
Waiting == IF queue = Nothing THEN {} ELSE S!InSeq(queue)
Held == {held} \ {Nothing}
Took == S!InSeq(posted)
Handed == S!InSeq(accepted)

PlaceInv ==
  /\ accepted \in Seq(S!Posts) /\ posted \in Seq(S!Posts) /\ Distinct(posted)
  /\ queue # Nothing => queue \in Seq(S!Posts) /\ Distinct(queue)
  /\ held \in S!Posts \cup {Nothing} /\ direct \subseteq S!Posts /\ dropped \subseteq S!Posts
  /\ Handed = Waiting \cup Took \cup Held \cup direct \cup dropped
  /\ Waiting \cap (Took \cup Held \cup direct \cup dropped) = {}
  /\ Took \cap (Held \cup direct \cup dropped) = {}
  /\ Held \cap (direct \cup dropped) = {} /\ direct \cap dropped = {}

(* There is a queue from start() until stop() has dropped it, and a worker *)
(* until stop() begins; only without a queue is a response posted directly.*)
WorkInv ==
  /\ started \in BOOLEAN /\ client \in BOOLEAN
  /\ worker \in {"none", "polling", "waiting", "posting"} /\ (held # Nothing <=> worker = "posting")
  /\ worker # "none" => started /\ stop = "none"
  /\ started /\ stop # "closing" => queue # Nothing
  /\ ~started => stop = "none" /\ ~client /\ direct = {} /\ queue = Nothing
  /\ stop \in {"none", "cancelling", "closing"} /\ (stop = "closing" => queue = Nothing)
  /\ worker = "waiting" => queue # <<>>
  /\ direct \subseteq unordered /\ (direct \cap Responses # {} => queue = Nothing)

(* A message that went through the queue without a 429 is ahead of all     *)
(* that were handed in after it.                                           *)
Keeps(m, n) ==
  S!Before(m, n, accepted) /\ m \notin unordered \cup dropped =>
    /\ n \in Took => S!Before(m, n, posted)
    /\ n \in Held => m \in Took
    /\ n \in Waiting => m \in Took \cup Held \/ S!Before(m, n, queue)

OrderInv == \A m, n \in Responses : Keeps(m, n)

SlackInv == PlaceInv /\ WorkInv /\ OrderInv

LEMMA SlackConstants ==
  Nothing \notin S!Posts /\ Nothing \notin Seq(S!Posts) /\ <<>> # Nothing /\ Responses \subseteq S!Posts
<1>1. Nothing \notin S!Posts /\ Nothing \notin Seq(S!Posts) /\ Responses \subseteq S!Posts
  BY ChannelConstants DEF S!Posts
<1>2. <<>> \in Seq(S!Posts)
  OBVIOUS
<1> QED
  BY <1>1, <1>2

LEMMA EmptyHolds == S!InSeq(<<>>) = {} /\ Distinct(<<>>)
BY DEF S!InSeq, Distinct

LEMMA BeforeIn ==
  ASSUME NEW m, NEW n, NEW z, S!Before(m, n, z)
  PROVE  m \in S!InSeq(z) /\ n \in S!InSeq(z)
BY DEF S!Before, S!InSeq

(* A response in the hands of a sender beside the queue comes after all    *)
(* that were handed in before it and are not lost.                         *)
LEMMA DirectLast ==
  ASSUME PlaceInv, WorkInv, NEW m \in Responses, NEW n \in Responses, n \in direct,
         S!Before(m, n, accepted), m \notin unordered \cup dropped
  PROVE  m \in Took
<1>1. queue = Nothing /\ Waiting = {}
  BY DEF WorkInv, Waiting
<1>2. Held = {}
  BY <1>1 DEF WorkInv, Held
<1>3. m \in Handed /\ m \notin direct
  BY BeforeIn DEF Handed, WorkInv
<1> QED
  BY <1>1, <1>2, <1>3 DEF PlaceInv

(* start() and stop().                                                     *)
LEMMA StartKeeps ==
  ASSUME SlackInv, S!Start
  PROVE  SlackInv'
<1>1. /\ ~started /\ started' = TRUE /\ client' = TRUE /\ queue' = <<>> /\ worker' = "polling"
      /\ UNCHANGED <<stop, held, direct, accepted, posted, dropped, unordered>>
  BY DEF S!Start
<1>2. queue = Nothing /\ stop = "none" /\ direct = {} /\ worker = "none" /\ held = Nothing
  BY <1>1 DEF SlackInv, WorkInv
<1>3. Waiting = {} /\ Waiting' = {} /\ Took' = Took /\ Handed' = Handed /\ Held' = Held
  BY <1>1, <1>2, SlackConstants, EmptyHolds DEF Waiting, Took, Handed, Held
<1>4. PlaceInv'
  <2>1. queue' \in Seq(S!Posts) /\ Distinct(queue')
    BY <1>1, EmptyHolds
  <2> QED
    BY <1>1, <1>3, <2>1 DEF SlackInv, PlaceInv, Distinct
<1>5. WorkInv'
  BY <1>1, <1>2, SlackConstants DEF WorkInv
<1>6. OrderInv'
  <2> SUFFICES ASSUME NEW m \in Responses, NEW n \in Responses PROVE Keeps(m, n)'
    BY DEF OrderInv
  <2>1. Keeps(m, n)
    BY DEF SlackInv, OrderInv
  <2> QED
    BY <1>1, <1>3, <2>1 DEF Keeps, S!Before
<1> QED
  BY <1>4, <1>5, <1>6 DEF SlackInv

LEMMA StopKeeps ==
  ASSUME SlackInv, S!BeginStop \/ S!DropQueue \/ S!Stopped
  PROVE  SlackInv'
<1>1. UNCHANGED <<accepted, posted, unordered>> /\ Took' = Took /\ Handed' = Handed
  BY DEF S!BeginStop, S!DropQueue, S!Stopped, Took, Handed
<1>2. PICK gone \in {Held, Waiting, direct} :
        /\ dropped' = dropped \cup gone
        /\ Waiting' = Waiting \ gone /\ Held' = Held \ gone /\ direct' = direct \ gone
        /\ (queue' = queue \/ queue' = Nothing) /\ (held' = held \/ held' = Nothing)
  <2>1. CASE S!BeginStop
    <3>1. dropped' = dropped \cup Held /\ UNCHANGED <<queue, direct>> /\ held' = Nothing
      BY <2>1 DEF S!BeginStop, Held
    <3>2. Held' = {} /\ Waiting' = Waiting /\ Waiting \cap Held = {} /\ direct \cap Held = {}
      BY <3>1 DEF Waiting, Held, SlackInv, PlaceInv
    <3> QED
      BY <3>1, <3>2
  <2>2. CASE S!DropQueue
    <3>1. dropped' = dropped \cup S!InSeq(queue) /\ UNCHANGED <<held, direct>> /\ queue' = Nothing
          /\ stop = "cancelling"
      BY <2>2 DEF S!DropQueue
    <3>2. queue # Nothing
      BY <3>1 DEF SlackInv, WorkInv
    <3>3. Waiting = S!InSeq(queue) /\ Waiting' = {} /\ Held' = Held
      BY <3>1, <3>2 DEF Waiting, Held
    <3>4. Held \cap Waiting = {} /\ direct \cap Waiting = {}
      BY DEF SlackInv, PlaceInv
    <3> QED
      BY <3>1, <3>3, <3>4
  <2>3. CASE S!Stopped
    <3>1. dropped' = dropped \cup direct /\ UNCHANGED <<queue, held>> /\ direct' = {}
      BY <2>3 DEF S!Stopped
    <3>2. Waiting' = Waiting /\ Held' = Held /\ Waiting \cap direct = {} /\ Held \cap direct = {}
      BY <3>1 DEF Waiting, Held, SlackInv, PlaceInv
    <3> QED
      BY <3>1, <3>2
  <2> QED
    BY <2>1, <2>2, <2>3
<1>3. PlaceInv'
  <2>1. gone \subseteq S!Posts
    BY DEF SlackInv, PlaceInv, Held, Waiting, S!InSeq
  <2>2. queue' # Nothing => queue' \in Seq(S!Posts) /\ Distinct(queue')
    BY <1>2 DEF SlackInv, PlaceInv
  <2>3. accepted' \in Seq(S!Posts) /\ posted' \in Seq(S!Posts) /\ Distinct(posted')
    BY <1>1 DEF SlackInv, PlaceInv
  <2>4. held' \in S!Posts \cup {Nothing} /\ direct' \subseteq S!Posts /\ dropped' \subseteq S!Posts
    BY <1>2, <2>1 DEF SlackInv, PlaceInv
  <2> QED
    BY <1>1, <1>2, <2>2, <2>3, <2>4 DEF SlackInv, PlaceInv
<1>4. WorkInv'
  <2>1. CASE S!BeginStop
    BY <2>1 DEF S!BeginStop, SlackInv, WorkInv
  <2>2. CASE S!DropQueue
    BY <2>2 DEF S!DropQueue, SlackInv, WorkInv
  <2>3. CASE S!Stopped
    BY <2>3 DEF S!Stopped, SlackInv, WorkInv
  <2> QED
    BY <2>1, <2>2, <2>3
<1>5. OrderInv'
  <2> SUFFICES ASSUME NEW m \in Responses, NEW n \in Responses, S!Before(m, n, accepted),
                      m \notin unordered \cup dropped'
               PROVE  Keeps(m, n)'
    BY <1>1 DEF OrderInv, Keeps, S!Before
  <2>1. m \notin unordered \cup dropped /\ m \notin gone /\ Keeps(m, n)
    BY <1>2 DEF SlackInv, OrderInv
  <2>2. n \in Waiting' => queue' = queue
    BY <1>2 DEF Waiting
  <2> QED
    BY <1>1, <1>2, <2>1, <2>2 DEF Keeps, S!Before
<1> QED
  BY <1>3, <1>4, <1>5 DEF SlackInv

(* send() and _send_raw_text().                                            *)
LEMMA SendKeeps ==
  ASSUME SlackInv, NEW m \in S!Posts, S!Send(m)
  PROVE  SlackInv'
<1>1. /\ m \notin Handed /\ client /\ accepted' = Append(accepted, m)
      /\ UNCHANGED <<started, client, stop, worker, held, posted, dropped>>
  BY DEF S!Send, Handed
<1>2. started
  BY <1>1 DEF SlackInv, WorkInv
<1>3. /\ accepted' \in Seq(S!Posts) /\ Handed' = Handed \cup {m}
      /\ \A a, b : S!Before(a, b, accepted') <=> S!Before(a, b, accepted) \/ (a \in Handed /\ b = m)
  BY <1>1, Joined DEF SlackInv, PlaceInv, Handed
<1>4. Took' = Took /\ Held' = Held /\ m \notin Took \cup Held \cup Waiting \cup direct \cup dropped
  BY <1>1 DEF Took, Held, SlackInv, PlaceInv
<1>5. ASSUME NEW a \in Responses, NEW b \in Responses, S!Before(a, b, accepted')
      PROVE  (S!Before(a, b, accepted) /\ b # m) \/ (a \in Handed /\ b = m)
  BY <1>1, <1>3, <1>5, BeforeIn DEF Handed
<1>6. CASE m \in Responses /\ queue # Nothing
  <2>1. queue' = Append(queue, m) /\ UNCHANGED <<direct, unordered>> /\ queue \in Seq(S!Posts) /\ Distinct(queue)
    BY <1>6 DEF S!Send, SlackInv, PlaceInv
  <2>2. /\ queue' \in Seq(S!Posts) /\ S!InSeq(queue') = S!InSeq(queue) \cup {m}
        /\ m \notin S!InSeq(queue) => Distinct(queue')
        /\ \A a, b : S!Before(a, b, queue') <=> S!Before(a, b, queue) \/ (a \in S!InSeq(queue) /\ b = m)
    BY <2>1, Joined
  <2>3. queue' # Nothing /\ queue' # <<>>
    <3>1. m \in S!InSeq(queue')
      BY <2>2
    <3> QED
      BY <2>2, <3>1, SlackConstants, EmptyHolds
  <2>4. Waiting = S!InSeq(queue) /\ Waiting' = Waiting \cup {m} /\ Distinct(queue')
    BY <1>4, <1>6, <2>2, <2>3 DEF Waiting
  <2>5. PlaceInv'
    BY <1>1, <1>3, <1>4, <2>1, <2>2, <2>4 DEF SlackInv, PlaceInv
  <2>6. WorkInv'
    BY <1>1, <1>2, <1>6, <2>1, <2>3 DEF SlackInv, WorkInv
  <2>7. OrderInv'
    <3> SUFFICES ASSUME NEW a \in Responses, NEW b \in Responses, S!Before(a, b, accepted'),
                        a \notin unordered \cup dropped
                 PROVE  Keeps(a, b)'
      BY <1>1, <2>1 DEF OrderInv, Keeps
    <3>1. CASE a \in Handed /\ b = m
      <4>1. a \in Waiting \cup Took \cup Held
        BY <3>1 DEF SlackInv, PlaceInv, WorkInv
      <4>2. b \notin Took' /\ b \notin Held'
        BY <1>4, <3>1
      <4> QED
        BY <1>4, <2>2, <2>4, <3>1, <4>1, <4>2 DEF Keeps
    <3>2. CASE S!Before(a, b, accepted) /\ b # m
      <4>1. Keeps(a, b)
        BY DEF SlackInv, OrderInv
      <4> QED
        BY <1>1, <1>4, <2>2, <2>4, <3>2, <4>1 DEF Keeps
    <3> QED
      BY <1>5, <3>1, <3>2
  <2> QED
    BY <2>5, <2>6, <2>7 DEF SlackInv
<1>7. CASE ~(m \in Responses /\ queue # Nothing)
  <2>1. direct' = direct \cup {m} /\ unordered' = unordered \cup {m} /\ UNCHANGED queue
    BY <1>7 DEF S!Send
  <2>2. Waiting' = Waiting
    BY <2>1 DEF Waiting
  <2>3. PlaceInv'
    BY <1>1, <1>3, <1>4, <2>1, <2>2 DEF SlackInv, PlaceInv, Distinct
  <2>4. WorkInv'
    BY <1>1, <1>2, <1>7, <2>1 DEF SlackInv, WorkInv
  <2>5. OrderInv'
    <3> SUFFICES ASSUME NEW a \in Responses, NEW b \in Responses, S!Before(a, b, accepted'),
                        a \notin unordered' \cup dropped
                 PROVE  Keeps(a, b)'
      BY <1>1, <2>1 DEF OrderInv, Keeps
    <3>1. CASE a \in Handed /\ b = m
      BY <1>4, <2>2, <3>1 DEF Keeps
    <3>2. CASE S!Before(a, b, accepted) /\ b # m
      <4>1. Keeps(a, b) /\ a \notin unordered
        BY <2>1 DEF SlackInv, OrderInv
      <4> QED
        BY <1>1, <1>4, <2>1, <2>2, <3>2, <4>1 DEF Keeps, S!Before
    <3> QED
      BY <1>5, <3>1, <3>2
  <2> QED
    BY <2>3, <2>4, <2>5 DEF SlackInv
<1> QED
  BY <1>6, <1>7

(* A post returns, of the worker or of a sender beside the queue.          *)
Returns(m) ==
  /\ UNCHANGED <<started, client, stop, accepted>>
  /\ \/ UNCHANGED <<worker, held>> /\ m \in direct /\ direct' = direct \ {m}
     \/ /\ worker = "posting" /\ held = m /\ worker' = "polling" /\ held' = Nothing
        /\ UNCHANGED direct

LEMMA ReturnsFrees ==
  ASSUME SlackInv, NEW m \in S!Posts, Returns(m)
  PROVE  /\ m \in Held \cup direct /\ Held' = Held \ {m} /\ direct' = direct \ {m} /\ Handed' = Handed
         /\ m \in Handed /\ m \notin Waiting \cup Took \cup dropped
         /\ held' \in S!Posts \cup {Nothing} /\ direct' \subseteq S!Posts
         /\ worker' \in {"none", "polling", "waiting", "posting"} /\ (held' # Nothing <=> worker' = "posting")
         /\ worker' # "none" => started /\ stop = "none"
         /\ worker' = "waiting" => worker = "waiting"
<1>1. Held \cap direct = {} /\ m # Nothing
  BY SlackConstants DEF SlackInv, PlaceInv
<1>2. CASE UNCHANGED <<worker, held>> /\ m \in direct /\ direct' = direct \ {m}
  BY <1>1, <1>2 DEF Returns, SlackInv, PlaceInv, WorkInv, Held, Handed
<1>3. CASE worker = "posting" /\ held = m /\ worker' = "polling" /\ held' = Nothing /\ UNCHANGED direct
  <2>1. Held = {m} /\ Held' = {} /\ m \notin direct
    BY <1>1, <1>3 DEF Held
  <2> QED
    BY <1>3, <2>1 DEF Returns, SlackInv, PlaceInv, WorkInv, Handed
<1> QED
  BY <1>2, <1>3 DEF Returns

LEMMA TakenKeeps ==
  ASSUME SlackInv, NEW m \in S!Posts, Returns(m), S!Taken(m)
  PROVE  SlackInv'
<1>1. posted' = Append(posted, m) /\ UNCHANGED <<queue, dropped, unordered, accepted>>
  BY DEF S!Taken, Returns
<1>2. /\ posted' \in Seq(S!Posts) /\ Took' = Took \cup {m} /\ (m \notin Took => Distinct(posted'))
      /\ \A a, b : S!Before(a, b, posted') <=> S!Before(a, b, posted) \/ (a \in Took /\ b = m)
  BY <1>1, Joined DEF SlackInv, PlaceInv, Took
<1>3. Waiting' = Waiting
  BY <1>1 DEF Waiting
<1>4. PlaceInv'
  BY <1>1, <1>2, <1>3, ReturnsFrees DEF SlackInv, PlaceInv, Distinct
<1>5. WorkInv'
  BY <1>1, ReturnsFrees DEF SlackInv, WorkInv, Returns
<1>6. OrderInv'
  <2> SUFFICES ASSUME NEW a \in Responses, NEW b \in Responses, S!Before(a, b, accepted),
                      a \notin unordered \cup dropped
               PROVE  Keeps(a, b)'
    BY <1>1 DEF OrderInv, Keeps, S!Before
  <2>1. Keeps(a, b)
    BY DEF SlackInv, OrderInv
  <2>2. b = m => a \in Took
    <3>1. CASE b \in direct
      BY <3>1, DirectLast DEF SlackInv
    <3> QED
      BY <2>1, <3>1, ReturnsFrees DEF Keeps
  <2>3. b \in Took' => S!Before(a, b, posted')
    BY <1>2, <2>1, <2>2 DEF Keeps
  <2>4. b \in Held' => a \in Took'
    BY <1>2, <2>1, ReturnsFrees DEF Keeps
  <2>5. b \in Waiting => a \in Took' \cup Held' \/ S!Before(a, b, queue)
    BY <1>2, <2>1, ReturnsFrees DEF Keeps
  <2> QED
    BY <1>1, <1>3, <2>3, <2>4, <2>5 DEF Keeps
<1> QED
  BY <1>4, <1>5, <1>6 DEF SlackInv

LEMMA DroppedKeeps ==
  ASSUME SlackInv, NEW m \in S!Posts, Returns(m), dropped' = dropped \cup {m},
         UNCHANGED <<queue, posted>>, unordered \subseteq unordered'
  PROVE  SlackInv'
<1>1. Waiting' = Waiting /\ Took' = Took
  BY DEF Waiting, Took
<1>2. PlaceInv'
  BY <1>1, ReturnsFrees DEF SlackInv, PlaceInv, Distinct, Returns
<1>3. WorkInv'
  BY ReturnsFrees DEF SlackInv, WorkInv, Returns
<1>4. OrderInv'
  <2> SUFFICES ASSUME NEW a \in Responses, NEW b \in Responses, S!Before(a, b, accepted),
                      a \notin unordered' \cup dropped'
               PROVE  Keeps(a, b)'
    BY DEF OrderInv, Keeps, S!Before, Returns
  <2>1. Keeps(a, b) /\ a # m /\ a \notin unordered \cup dropped
    BY DEF SlackInv, OrderInv
  <2> QED
    BY <1>1, <2>1, ReturnsFrees DEF Keeps, S!Before
<1> QED
  BY <1>2, <1>3, <1>4 DEF SlackInv

LEMMA LimitKeeps ==
  ASSUME SlackInv, NEW m \in S!Posts, Returns(m), S!Limit(m)
  PROVE  SlackInv'
<1>1. unordered' = unordered \cup {m} /\ UNCHANGED <<posted, accepted>> /\ Took' = Took
  BY DEF S!Limit, Took, Returns
<1>2. CASE queue = Nothing
  BY <1>1, <1>2, DroppedKeeps DEF S!Limit
<1>3. CASE queue # Nothing
  <2>1. queue' = Append(queue, m) /\ UNCHANGED dropped /\ queue \in Seq(S!Posts) /\ Distinct(queue)
    BY <1>3 DEF S!Limit, SlackInv, PlaceInv
  <2>2. /\ queue' \in Seq(S!Posts) /\ S!InSeq(queue') = S!InSeq(queue) \cup {m}
        /\ m \notin S!InSeq(queue) => Distinct(queue')
        /\ \A a, b : S!Before(a, b, queue') <=> S!Before(a, b, queue) \/ (a \in S!InSeq(queue) /\ b = m)
    BY <2>1, Joined
  <2>3. queue' # Nothing /\ queue' # <<>>
    <3>1. m \in S!InSeq(queue')
      BY <2>2
    <3> QED
      BY <2>2, <3>1, SlackConstants, EmptyHolds
  <2>4. Waiting = S!InSeq(queue) /\ Waiting' = Waiting \cup {m} /\ Distinct(queue')
    BY <1>3, <2>2, <2>3, ReturnsFrees DEF Waiting
  <2>5. PlaceInv'
    BY <1>1, <2>1, <2>2, <2>4, ReturnsFrees DEF SlackInv, PlaceInv, Distinct
  <2>6. WorkInv'
    BY <1>1, <1>3, <2>3, ReturnsFrees DEF SlackInv, WorkInv, Returns
  <2>7. OrderInv'
    <3> SUFFICES ASSUME NEW a \in Responses, NEW b \in Responses, S!Before(a, b, accepted),
                        a \notin unordered' \cup dropped
                 PROVE  Keeps(a, b)'
      BY <1>1, <2>1 DEF OrderInv, Keeps, S!Before
    <3>1. Keeps(a, b) /\ a # m /\ a \notin unordered \cup dropped
      BY <1>1 DEF SlackInv, OrderInv
    <3>2. b = m => b \in Held
      BY <1>3, ReturnsFrees DEF SlackInv, WorkInv
    <3>3. b \in Took => S!Before(a, b, posted)
      BY <3>1 DEF Keeps
    <3>4. b \in Held' \/ b = m => a \in Took
      BY <3>1, <3>2, ReturnsFrees DEF Keeps
    <3>5. b \in Waiting => a \in Took \cup Held' \/ S!Before(a, b, queue')
      BY <2>2, <3>1, ReturnsFrees DEF Keeps
    <3> QED
      BY <1>1, <2>4, <3>3, <3>4, <3>5 DEF Keeps
  <2> QED
    BY <2>5, <2>6, <2>7 DEF SlackInv
<1> QED
  BY <1>2, <1>3

LEMMA PostKeeps ==
  ASSUME SlackInv, S!WorkerPosts \/ \E m \in S!Posts : S!PostDirectly(m)
  PROVE  SlackInv'
<1>1. PICK m \in S!Posts : Returns(m) /\ (S!Taken(m) \/ S!Failed(m) \/ S!Limit(m))
  <2>1. CASE S!WorkerPosts
    <3>1. held \in S!Posts
      BY <2>1 DEF S!WorkerPosts, SlackInv, PlaceInv, WorkInv
    <3> QED
      BY <2>1, <3>1 DEF S!WorkerPosts, Returns
  <2>2. CASE \E m \in S!Posts : S!PostDirectly(m)
    BY <2>2 DEF S!PostDirectly, Returns
  <2> QED
    BY <2>1, <2>2
<1> QED
  BY <1>1, TakenKeeps, DroppedKeeps, LimitKeeps DEF S!Failed

(* The worker takes the message in front, when no delay holds it back.     *)
LEMMA TakeKeeps ==
  ASSUME SlackInv, S!Poll \/ S!Wake
  PROVE  SlackInv'
<1>1. UNCHANGED <<started, client, stop, direct, accepted, posted, dropped, unordered>>
      /\ worker \in {"polling", "waiting"} /\ Took' = Took /\ Handed' = Handed
  BY DEF S!Poll, S!Wake, S!history, Took, Handed
<1>2. queue # Nothing /\ queue # <<>>
  BY DEF S!Poll, S!Wake, SlackInv, WorkInv
<1>3. started /\ stop = "none" /\ held = Nothing /\ Held = {}
  BY <1>1 DEF SlackInv, WorkInv, Held
<1>4. CASE S!Take
  <2>1. held' = Head(queue) /\ queue' = Tail(queue) /\ worker' = "posting"
        /\ queue \in Seq(S!Posts) /\ Distinct(queue)
    BY <1>2, <1>4 DEF S!Take, SlackInv, PlaceInv
  <2>2. /\ held' \in S!Posts /\ queue' \in Seq(S!Posts) /\ Distinct(queue')
        /\ S!InSeq(queue) = S!InSeq(queue') \cup {held'} /\ held' \notin S!InSeq(queue')
        /\ \A a, b : S!Before(a, b, queue) => b # held' /\ (a = held' \/ S!Before(a, b, queue'))
    BY <1>2, <2>1, Left
  <2>3. Waiting = Waiting' \cup {held'} /\ held' \notin Waiting' /\ Waiting' = S!InSeq(queue')
        /\ Held' = {held'} /\ queue' # Nothing /\ Waiting = S!InSeq(queue)
    BY <1>2, <2>2, SlackConstants DEF Waiting, Held
  <2>4. PlaceInv'
    BY <1>1, <1>3, <2>2, <2>3 DEF SlackInv, PlaceInv, Distinct
  <2>5. WorkInv'
    BY <1>1, <1>2, <1>3, <2>1, <2>2, <2>3, SlackConstants DEF SlackInv, WorkInv
  <2>6. OrderInv'
    <3> SUFFICES ASSUME NEW a \in Responses, NEW b \in Responses, S!Before(a, b, accepted),
                        a \notin unordered \cup dropped
                 PROVE  Keeps(a, b)'
      BY <1>1 DEF OrderInv, Keeps, S!Before
    <3>1. /\ b \in Took => S!Before(a, b, posted)
          /\ b \in Waiting => a \in Took \/ S!Before(a, b, queue)
      BY <1>3 DEF SlackInv, OrderInv, Keeps
    <3>2. b \in Took' => S!Before(a, b, posted)'
      BY <1>1, <3>1 DEF S!Before
    <3>3. b \in Held' => a \in Took'
      BY <1>1, <2>2, <2>3, <3>1
    <3>4. b \in Waiting' => a \in Took' \cup Held' \/ S!Before(a, b, queue')
      BY <1>1, <2>2, <2>3, <3>1
    <3> QED
      BY <3>2, <3>3, <3>4 DEF Keeps, S!Before
  <2> QED
    BY <2>4, <2>5, <2>6 DEF SlackInv
<1>5. CASE ~S!Take
  <2>1. worker' = "waiting" /\ UNCHANGED <<held, queue>>
    BY <1>5 DEF S!Poll, S!Wake
  <2>2. Waiting' = Waiting /\ Held' = Held
    BY <2>1 DEF Waiting, Held
  <2>3. PlaceInv'
    BY <1>1, <2>1, <2>2 DEF SlackInv, PlaceInv, Distinct
  <2>4. WorkInv'
    BY <1>1, <1>2, <1>3, <2>1 DEF SlackInv, WorkInv
  <2>5. OrderInv'
    BY <1>1, <2>1, <2>2 DEF SlackInv, OrderInv, Keeps, S!Before
  <2> QED
    BY <2>3, <2>4, <2>5 DEF SlackInv
<1> QED
  BY <1>4, <1>5

LEMMA SlackKept == SlackInv /\ [S!Next]_(S!vars) => SlackInv'
<1> SUFFICES ASSUME SlackInv, [S!Next]_(S!vars) PROVE SlackInv'
  OBVIOUS
<1>1. CASE S!Lift \/ UNCHANGED S!vars
  <2>1. UNCHANGED <<started, client, stop, queue, worker, held, direct, accepted, posted, dropped, unordered>>
    BY <1>1 DEF S!Lift, S!vars, S!sending, S!history
  <2>2. Waiting' = Waiting /\ Held' = Held /\ Took' = Took /\ Handed' = Handed
    BY <2>1 DEF Waiting, Held, Took, Handed
  <2>3. PlaceInv' /\ WorkInv'
    BY <2>1, <2>2 DEF SlackInv, PlaceInv, WorkInv, Distinct
  <2>4. OrderInv'
    BY <2>1, <2>2 DEF SlackInv, OrderInv, Keeps, S!Before
  <2> QED
    BY <2>3, <2>4 DEF SlackInv
<1> QED
  BY <1>1, StartKeeps, StopKeeps, SendKeeps, PostKeeps, TakeKeeps DEF S!Next

LEMMA SlackStarts == S!Init => SlackInv
<1> SUFFICES ASSUME S!Init PROVE SlackInv
  OBVIOUS
<1>1. Waiting = {} /\ Held = {} /\ Took = {} /\ Handed = {} /\ direct = {} /\ dropped = {}
  BY EmptyHolds DEF S!Init, Waiting, Held, Took, Handed
<1>2. PlaceInv
  BY <1>1, EmptyHolds DEF S!Init, PlaceInv
<1>3. WorkInv
  BY <1>1 DEF S!Init, WorkInv
<1>4. OrderInv
  BY <1>1, BeforeIn DEF OrderInv, Keeps, Handed
<1> QED
  BY <1>2, <1>3, <1>4 DEF SlackInv

(* The counts of SendsKept, from the places.                               *)
LEMMA CardinalityOfS == \A T : S!Cardinality(T) = Cardinality(T)
BY Zenon DEF S!Cardinality, Cardinality

LEMMA CountOne ==
  ASSUME NEW T, NEW m
  PROVE  S!Cardinality({n \in T : n = m}) = IF m \in T THEN 1 ELSE 0
<1>1. {n \in T : n = m} = IF m \in T THEN {m} ELSE {}
  OBVIOUS
<1>2. Cardinality({m}) = 1 /\ Cardinality({}) = 0
  BY FS_Singleton, FS_EmptySet
<1> QED
  BY <1>1, <1>2, CardinalityOfS

LEMMA CountTimes ==
  ASSUME NEW z, Distinct(z), NEW m
  PROVE  S!Times(m, z) = IF m \in S!InSeq(z) THEN 1 ELSE 0
<1>1. CASE m \in S!InSeq(z)
  <2>1. PICK i \in DOMAIN z : z[i] = m
    BY <1>1 DEF S!InSeq
  <2>2. {j \in DOMAIN z : z[j] = m} = {i}
    BY <2>1 DEF Distinct
  <2> QED
    BY <1>1, <2>2, CardinalityOfS, FS_Singleton DEF S!Times
<1>2. CASE m \notin S!InSeq(z)
  <2>1. {j \in DOMAIN z : z[j] = m} = {}
    BY <1>2 DEF S!InSeq
  <2> QED
    BY <1>2, <2>1, CardinalityOfS, FS_EmptySet DEF S!Times
<1> QED
  BY <1>1, <1>2

LEMMA SlackSays == SlackInv => S!SendsKept
<1> SUFFICES ASSUME SlackInv PROVE S!SendsKept
  OBVIOUS
<1>1. ASSUME NEW m \in Handed PROVE S!InOnePlace(m)
  <2> DEFINE W == IF queue = Nothing THEN 0 ELSE S!Times(m, queue)
  <2>1. W = IF m \in Waiting THEN 1 ELSE 0
    BY CountTimes DEF Waiting, SlackInv, PlaceInv
  <2>2. S!Times(m, posted) = IF m \in Took THEN 1 ELSE 0
    BY CountTimes DEF Took, SlackInv, PlaceInv
  <2>3. S!Cardinality({n \in {held} : n = m}) = IF m \in Held THEN 1 ELSE 0
    <3>1. m # Nothing
      BY SlackConstants, Elements DEF Handed, S!InSeq, SlackInv, PlaceInv
    <3> QED
      BY <3>1, CountOne DEF Held
  <2>4. /\ S!Cardinality({n \in direct : n = m}) = IF m \in direct THEN 1 ELSE 0
        /\ S!Cardinality({n \in dropped : n = m}) = IF m \in dropped THEN 1 ELSE 0
    BY CountOne
  <2>5. /\ m \in Waiting \cup Took \cup Held \cup direct \cup dropped
        /\ m \in Waiting => m \notin Took \cup Held \cup direct \cup dropped
        /\ m \in Took => m \notin Held \cup direct \cup dropped
        /\ m \in Held => m \notin direct \cup dropped
        /\ m \in direct => m \notin dropped
    BY DEF SlackInv, PlaceInv
  <2>6. S!InOnePlace(m) <=> 1 = W + S!Times(m, posted) + S!Cardinality({n \in {held} : n = m})
                                + S!Cardinality({n \in direct : n = m}) + S!Cardinality({n \in dropped : n = m})
    BY DEF S!InOnePlace
  <2> HIDE DEF W
  <2> QED
    BY <2>1, <2>2, <2>3, <2>4, <2>5, <2>6
<1>2. \A m, n \in Responses :
         S!Before(m, n, accepted) /\ m \notin unordered /\ n \in Took => m \in dropped \/ S!Before(m, n, posted)
  BY DEF SlackInv, OrderInv, Keeps
<1> QED
  BY <1>1, <1>2 DEF S!SendsKept, Handed, Took

(* In every order of responses, replies, refusals, failures, stops and     *)
(* starts no message is lost but to a failed post or a stop, none is posted*)
(* twice, and none that was not refused is overtaken.                      *)
THEOREM SendsAreKept == S!Spec => []SendsKept
<1>1. SlackInv => SendsKept
  BY SlackSays DEF SendsKept
<1> QED
  BY <1>1, SlackStarts, SlackKept, PTL DEF S!Spec

-----------------------------------------------------------------------------
(* Calls to the Signal daemon.                                             *)
Lines == {l \in [id : Nat, message : Messages \cup {"none"}, number : Nat] : l.id = l.number}
Queries == {q \in [id : Nat, number : Nat] : q.id = q.number}
Spots == {"idle", "queued", "draining", "waiting", "answered", "failed", "lost"}
Case == [at : Spots, by : Nat, conn : Nat, future : {"none", "open", "answered", "failed"},
         id : Nat, number : Nat]

(* Ids are never used again, so the id of a call is its number, and so is  *)
(* that of an answer.                                                      *)
WireInv ==
  /\ rpcId \in Nat /\ made = rpcId
  /\ link \in Seq({"open", "closed"}) /\ wire \in Seq(Seq(Lines)) /\ asked \in Seq(SUBSET Queries)
  /\ Len(wire) = Len(link) /\ Len(asked) = Len(link) /\ conn \in 0 .. Len(link)

Awaits(r) == r.at \in {"draining", "waiting"} /\ r.future = "open"

Sound(r) ==
  /\ r.id = r.number /\ r.id \in 0 .. rpcId
  /\ r.at \in {"idle", "queued"} => r.future = "none"
  /\ r.future = "answered" => r.by = r.id
  /\ r.at = "answered" => r.future = "answered"
  /\ r.at = "draining" /\ r.future # "open" => r.id \notin pending
  /\ Awaits(r) => r.id \notin leaked

(* What is pending is the id of one call that waits, or was leaked.        *)
CallsInv ==
  /\ call \in [G!Calls -> Case]
  /\ \A c \in G!Calls : Sound(call[c])
  /\ \A c, d \in G!Calls :
       call[c].future = "open" /\ call[d].future = "open" /\ call[c].id = call[d].id => c = d
  /\ \A x : x \in pending <=> x \in leaked \/ \E c \in G!Calls : Awaits(call[c]) /\ call[c].id = x
  /\ \A x \in pending : x \in 1 .. rpcId
  /\ loop # "handling" => call[Loop].at = "idle"

LEMMA CaseFields ==
  ASSUME NEW r \in Case
  PROVE  /\ r.at \in Spots /\ r.by \in Nat /\ r.conn \in Nat /\ r.id \in Nat /\ r.number \in Nat
         /\ r.future \in {"none", "open", "answered", "failed"}
BY DEF Case

LEMMA NoCallIs ==
  /\ G!NoCall \in Case /\ G!NoCall.at = "idle" /\ G!NoCall.future = "none" /\ ~Awaits(G!NoCall)
  /\ G!NoCall.id = 0 /\ G!NoCall.number = 0
BY DEF G!NoCall, Case, Spots, Awaits

LEMMA MovedIs ==
  ASSUME NEW r \in Case, NEW place \in Spots
  PROVE  /\ G!Moved(r, place) \in Case /\ G!Moved(r, place).at = place
         /\ G!Moved(r, place).by = r.by /\ G!Moved(r, place).conn = r.conn
         /\ G!Moved(r, place).future = r.future /\ G!Moved(r, place).id = r.id
         /\ G!Moved(r, place).number = r.number
BY CaseFields DEF Case, G!Moved

LEMMA SetIs ==
  ASSUME NEW r \in Case, NEW how \in {"answered", "failed"}, NEW by \in Nat
  PROVE  /\ G!Set(r, how, by) \in Case /\ G!Set(r, how, by).at = r.at
         /\ G!Set(r, how, by).by = by /\ G!Set(r, how, by).conn = r.conn
         /\ G!Set(r, how, by).future = how /\ G!Set(r, how, by).id = r.id
         /\ G!Set(r, how, by).number = r.number
BY CaseFields DEF Case, G!Set

LEMMA LoopCalls == Loop \in G!Calls /\ \A c \in Callers : c \in G!Calls /\ c # Loop
BY ChannelConstants DEF G!Calls

(* One call moves on.                                                      *)
LEMMA CallMoves ==
  ASSUME CallsInv, NEW c \in G!Calls, NEW place \in Spots, G!Goes(c, place)
  PROVE  /\ call' \in [G!Calls -> Case] /\ \A d \in G!Calls \ {c} : call'[d] = call[d]
         /\ call'[c].at = place /\ call'[c].future = call[c].future /\ call'[c].id = call[c].id
         /\ call'[c].number = call[c].number /\ call'[c].by = call[c].by
BY MovedIs DEF CallsInv, G!Goes

(* What must be shown of a step that makes no new call.                    *)
LEMMA CallsChange ==
  ASSUME CallsInv, rpcId' = rpcId, call' \in [G!Calls -> Case], pending' \subseteq pending,
         \A c \in G!Calls : Sound(call[c])',
         \A c \in G!Calls : call'[c].future = "open" => call[c].future = "open" /\ call'[c].id = call[c].id,
         \A x : x \in pending' <=> x \in leaked' \/ \E c \in G!Calls : Awaits(call'[c]) /\ call'[c].id = x,
         loop' # "handling" => call'[Loop].at = "idle"
  PROVE  CallsInv'
BY DEF CallsInv, Awaits

(* A call that waits goes on waiting, one that does not begins not to.     *)
LEMMA OneCallChanges ==
  ASSUME CallsInv, UNCHANGED <<rpcId, pending, leaked>>, NEW c \in G!Calls,
         call' \in [G!Calls -> Case], \A d \in G!Calls \ {c} : call'[d] = call[d],
         Sound(call[c])', Awaits(call'[c]) <=> Awaits(call[c]),
         call'[c].future = "open" => call[c].future = "open",
         call'[c].future = "open" \/ Awaits(call[c]) => call'[c].id = call[c].id,
         loop' # "handling" => call'[Loop].at = "idle"
  PROVE  CallsInv'
<1>1. ASSUME NEW d \in G!Calls
      PROVE  /\ Sound(call[d])'
             /\ Awaits(call'[d]) <=> Awaits(call[d])
             /\ Awaits(call[d]) => call'[d].id = call[d].id
             /\ call'[d].future = "open" => call[d].future = "open" /\ call'[d].id = call[d].id
  <2>1. CASE d = c
    BY <2>1
  <2>2. CASE d # c
    BY <2>2 DEF CallsInv, Sound
  <2> QED
    BY <2>1, <2>2
<1>2. \A x : x \in pending' <=> x \in leaked' \/ \E d \in G!Calls : Awaits(call'[d]) /\ call'[d].id = x
  BY <1>1 DEF CallsInv
<1> QED
  BY <1>1, <1>2, CallsChange

(* Where the lock is not free, or there is no connection.                  *)
LEMMA QueueKeeps ==
  ASSUME CallsInv, NEW c \in G!Calls, call[c].at = "idle", NEW place \in {"queued", "failed"},
         G!Goes(c, place), UNCHANGED <<rpcId, pending, leaked>>,
         loop' = "handling" \/ (c # Loop /\ loop' = loop)
  PROVE  CallsInv'
<1>1. /\ call' \in [G!Calls -> Case] /\ \A d \in G!Calls \ {c} : call'[d] = call[d]
      /\ call'[c].at = place /\ call'[c].future = call[c].future /\ call'[c].id = call[c].id
      /\ call'[c].number = call[c].number /\ call'[c].by = call[c].by
  BY CallMoves DEF Spots
<1>2. call[c].future = "none" /\ Sound(call[c])
  BY DEF CallsInv, Sound
<1>3. Sound(call[c])' /\ ~Awaits(call'[c]) /\ ~Awaits(call[c])
  BY <1>1, <1>2 DEF Sound, Awaits
<1>4. loop' # "handling" => call'[Loop].at = "idle"
  BY <1>1, LoopCalls DEF CallsInv
<1> QED
  BY <1>1, <1>2, <1>3, <1>4, OneCallChanges

LEMMA WriteKeeps ==
  ASSUME WireInv, CallsInv, NEW c \in G!Calls, call[c].at \in {"idle", "queued"}, G!Write(c),
         UNCHANGED <<conn, link, wire>> \/ (UNCHANGED <<conn, link>> /\ wire' \in Seq(Seq(Lines)) /\ Len(wire') = Len(wire)),
         loop' = "handling" \/ (c # Loop /\ loop' = loop) \/ (loop' = loop /\ loop = "handling")
  PROVE  WireInv' /\ CallsInv'
<1> DEFINE new == rpcId + 1
<1>1. new \in Nat /\ rpcId' = new /\ made' = new /\ pending' = pending \cup {new}
  BY DEF G!Write, WireInv
<1>2. \A d \in G!Calls : call[d].id \in 0 .. rpcId /\ call[d].id # new
  BY DEF CallsInv, Sound, WireInv
<1>3. new \notin pending /\ new \notin leaked /\ leaked \subseteq pending
  BY DEF CallsInv, WireInv
<1>4. call[c].future = "none" /\ ~Awaits(call[c]) /\ Sound(call[c])
  BY DEF CallsInv, Sound, Awaits
<1>5. WireInv'
  <2>1. CASE conn = 0
    BY <1>1, <2>1 DEF G!Write, WireInv
  <2>2. CASE conn # 0
    <3>1. PICK q : q = [id |-> rpcId + 1, number |-> made + 1]
      OBVIOUS
    <3>2. q \in Queries
      BY <1>1, <3>1 DEF Queries, WireInv
    <3>3. asked' = [asked EXCEPT ![conn] = IF link[conn] = "open" THEN @ \cup {q} ELSE @]
      BY <2>2, <3>1 DEF G!Write
    <3>4. conn \in 1 .. Len(asked) /\ asked \in Seq(SUBSET Queries)
      BY <2>2 DEF WireInv
    <3>5. PICK z : z = IF link[conn] = "open" THEN asked[conn] \cup {q} ELSE asked[conn]
      OBVIOUS
    <3>6. z \in SUBSET Queries /\ asked' = [asked EXCEPT ![conn] = z]
      BY <3>2, <3>3, <3>4, <3>5
    <3>7. asked' \in Seq(SUBSET Queries) /\ Len(asked') = Len(asked)
      BY <3>4, <3>6
    <3> QED
      BY <1>1, <3>7 DEF WireInv
  <2> QED
    BY <2>1, <2>2
<1>6. CASE conn = 0
  <2>1. G!Goes(c, "failed") /\ leaked' = leaked \cup {new}
    BY <1>6 DEF G!Write
  <2>2. /\ call' \in [G!Calls -> Case] /\ \A d \in G!Calls \ {c} : call'[d] = call[d]
        /\ call'[c].at = "failed" /\ call'[c].future = call[c].future /\ call'[c].id = call[c].id
        /\ call'[c].number = call[c].number /\ call'[c].by = call[c].by
    BY <2>1, CallMoves DEF Spots
  <2>3. \A d \in G!Calls : call'[d].id = call[d].id /\ call'[d].future = call[d].future
                          /\ (Awaits(call'[d]) <=> Awaits(call[d]))
    BY <1>4, <2>2 DEF Awaits
  <2>4. ASSUME NEW d \in G!Calls PROVE Sound(call[d])'
    <3>1. Sound(call[d])
      BY DEF CallsInv
    <3>2. CASE d = c
      <4>1. /\ call'[d].id = call'[d].number /\ call'[d].id \in 0 .. rpcId
            /\ call'[d].at = "failed" /\ call'[d].future = "none" /\ ~Awaits(call'[d])
        BY <1>2, <1>4, <2>2, <2>3, <3>1, <3>2 DEF Sound
      <4>2. call'[d].id \in 0 .. rpcId'
        <5>1. rpcId \in Nat /\ rpcId' = rpcId + 1
          BY <1>1 DEF WireInv
        <5> QED
          BY <4>1, <5>1
      <4> QED
        BY <4>1, <4>2 DEF Sound
    <3>3. CASE d # c
      <4>1. call'[d] = call[d] /\ call[d].id # new /\ call[d].id \in 0 .. rpcId'
        BY <1>1, <1>2, <2>2, <3>3 DEF WireInv
      <4> QED
        BY <1>1, <2>1, <3>1, <4>1 DEF Sound, Awaits
    <3> QED
      BY <3>2, <3>3
  <2>5. \A x : x \in pending' <=> x \in leaked' \/ \E d \in G!Calls : Awaits(call'[d]) /\ call'[d].id = x
    BY <1>1, <2>1, <2>3 DEF CallsInv
  <2>6. loop' # "handling" => call'[Loop].at = "idle"
    BY <2>2, LoopCalls DEF CallsInv
  <2>7. \A x \in pending' : x \in 1 .. rpcId'
    BY <1>1 DEF CallsInv, WireInv
  <2> QED
    BY <1>5, <2>2, <2>3, <2>4, <2>5, <2>6, <2>7 DEF CallsInv
<1>7. CASE conn # 0
  <2>1. PICK r : r = [at |-> "draining", by |-> 0, conn |-> conn, future |-> "open", id |-> new, number |-> made + 1]
    OBVIOUS
  <2>2. /\ r \in Case /\ r.at = "draining" /\ r.future = "open" /\ r.id = new /\ r.number = new
        /\ Awaits(r)
    BY <1>1, <2>1 DEF Case, Spots, Awaits, WireInv
  <2>3. call' = [call EXCEPT ![c] = r] /\ leaked' = leaked
    BY <1>7, <2>1 DEF G!Write
  <2>4. /\ call' \in [G!Calls -> Case] /\ \A d \in G!Calls \ {c} : call'[d] = call[d]
        /\ call'[c] = r
    BY <2>2, <2>3 DEF CallsInv
  <2>5. ASSUME NEW d \in G!Calls PROVE Sound(call[d])'
    <3>1. CASE d = c
      BY <1>1, <1>3, <2>2, <2>3, <2>4, <3>1 DEF Sound
    <3>2. CASE d # c
      BY <1>1, <1>2, <2>3, <2>4, <3>2 DEF Sound, CallsInv, WireInv
    <3> QED
      BY <3>1, <3>2
  <2>6. \A x : x \in pending' <=> x \in leaked' \/ \E d \in G!Calls : Awaits(call'[d]) /\ call'[d].id = x
    <3>1. \A d \in G!Calls \ {c} : call'[d] = call[d]
      BY <2>4
    <3> QED
      BY <1>1, <1>4, <2>2, <2>3, <2>4, <3>1 DEF CallsInv
  <2>7. \A d, e \in G!Calls :
          call'[d].future = "open" /\ call'[e].future = "open" /\ call'[d].id = call'[e].id => d = e
    BY <1>2, <2>2, <2>4 DEF CallsInv
  <2>8. loop' # "handling" => call'[Loop].at = "idle"
    BY <2>4, LoopCalls DEF CallsInv
  <2>9. \A x \in pending' : x \in 1 .. rpcId'
    BY <1>1 DEF CallsInv, WireInv
  <2> QED
    BY <1>5, <2>4, <2>5, <2>6, <2>7, <2>8, <2>9 DEF CallsInv
<1> QED
  BY <1>6, <1>7

(* Futures are set, and their ids forgotten; the loop may drop its own call.*)
Resolves(ids, how, by, quit) ==
  /\ ids \subseteq pending /\ pending' = pending \ ids /\ leaked' = leaked \ ids
  /\ call' \in [G!Calls -> Case]
  /\ \A c \in G!Calls : call'[c] = IF c \in quit THEN G!NoCall ELSE G!Resolved(ids, how, by)[c]
  /\ quit \subseteq {Loop} /\ \A c \in quit : Awaits(call[c]) => call[c].id \in ids

LEMMA ResolveKeeps ==
  ASSUME WireInv, CallsInv, rpcId' = rpcId, NEW ids, NEW how \in {"answered", "failed"},
         NEW by \in Nat, how = "answered" => ids \subseteq {by}, NEW quit,
         Resolves(ids, how, by, quit), loop' # "handling" => Loop \in quit \/ loop # "handling"
  PROVE  CallsInv'
<1> USE DEF Resolves
<1> DEFINE Hit(c) == call[c].future = "open" /\ call[c].id \in ids
<1>1. ASSUME NEW c \in G!Calls
      PROVE  /\ call[c] \in Case /\ Sound(call[c])
             /\ c \in quit => call'[c] = G!NoCall
             /\ c \notin quit /\ Hit(c) =>
                  /\ call'[c].at = call[c].at /\ call'[c].by = by /\ call'[c].future = how
                  /\ call'[c].id = call[c].id /\ call'[c].number = call[c].number
             /\ c \notin quit /\ ~Hit(c) => call'[c] = call[c]
  <2>1. call[c] \in Case /\ Sound(call[c])
    BY DEF CallsInv
  <2>2. G!Resolved(ids, how, by)[c] = IF Hit(c) THEN G!Set(call[c], how, by) ELSE call[c]
    BY DEF G!Resolved
  <2> HIDE DEF Hit
  <2> QED
    BY <2>1, <2>2, SetIs
<1>2. ASSUME NEW c \in G!Calls PROVE Sound(call[c])'
  <2>1. CASE c \in quit
    BY <1>1, <2>1, NoCallIs DEF Sound, WireInv
  <2>2. CASE c \notin quit /\ Hit(c)
    <3>1. call[c].at \notin {"idle", "queued"}
      BY <1>1, <2>2 DEF Sound
    <3>2. how = "answered" => by = call[c].id
      BY <2>2
    <3>3. call[c].at # "answered"
      BY <1>1, <2>2 DEF Sound
    <3> QED
      BY <1>1, <2>2, <3>1, <3>2, <3>3 DEF Sound, Awaits
  <2>3. CASE c \notin quit /\ ~Hit(c)
    BY <1>1, <2>3 DEF Sound
  <2> QED
    BY <2>1, <2>2, <2>3
<1>3. ASSUME NEW c \in G!Calls, call'[c].future = "open"
      PROVE  call[c].future = "open" /\ call'[c].id = call[c].id
  BY <1>1, <1>3, NoCallIs
<1>4. ASSUME NEW c \in G!Calls
      PROVE  /\ Awaits(call'[c]) => Awaits(call[c]) /\ call[c].id \notin ids /\ call'[c] = call[c]
             /\ Awaits(call[c]) /\ call[c].id \notin ids => call'[c] = call[c]
  BY <1>1, NoCallIs DEF Awaits
<1>5. \A x : x \in pending' <=> x \in leaked' \/ \E c \in G!Calls : Awaits(call'[c]) /\ call'[c].id = x
  <2> SUFFICES ASSUME NEW x
               PROVE  x \in pending' <=> x \in leaked' \/ \E c \in G!Calls : Awaits(call'[c]) /\ call'[c].id = x
    OBVIOUS
  <2>1. x \in pending <=> x \in leaked \/ \E c \in G!Calls : Awaits(call[c]) /\ call[c].id = x
    BY DEF CallsInv
  <2>2. (\E c \in G!Calls : Awaits(call'[c]) /\ call'[c].id = x)
        <=> x \notin ids /\ \E c \in G!Calls : Awaits(call[c]) /\ call[c].id = x
    BY <1>4
  <2> QED
    BY <2>1, <2>2
<1>6. loop' # "handling" => call'[Loop].at = "idle"
  <2>1. CASE Loop \in quit
    BY <1>1, <2>1, LoopCalls, NoCallIs
  <2>2. CASE Loop \notin quit
    <3>1. loop' # "handling" => call[Loop].at = "idle"
      BY <2>2 DEF CallsInv
    <3> QED
      BY <1>1, <2>2, <3>1, LoopCalls
  <2> QED
    BY <2>1, <2>2
<1> QED
  BY <1>2, <1>3, <1>5, <1>6, CallsChange

LEMMA ResolvedType ==
  ASSUME CallsInv, NEW ids, NEW how \in {"answered", "failed"}, NEW by \in Nat
  PROVE  G!Resolved(ids, how, by) \in [G!Calls -> Case]
BY SetIs DEF CallsInv, G!Resolved

LEMMA NoneResolved ==
  ASSUME CallsInv
  PROVE  \A c \in G!Calls : G!Resolved({}, "failed", 0)[c] = call[c]
BY DEF G!Resolved

(* The loop reads on, or reconnects, or ends, without its call.            *)
LEMMA QuitKeeps ==
  ASSUME WireInv, CallsInv, UNCHANGED <<rpcId, pending, leaked>>, ~Awaits(call[Loop]),
         call' = [call EXCEPT ![Loop] = G!NoCall]
  PROVE  CallsInv'
<1> DEFINE quit == {Loop}
<1>1. call' \in [G!Calls -> Case]
  BY NoCallIs DEF CallsInv
<1>2. \A c \in G!Calls : call'[c] = IF c \in quit THEN G!NoCall ELSE G!Resolved({}, "failed", 0)[c]
  BY NoneResolved DEF CallsInv
<1>3. \A c \in quit : ~Awaits(call[c])
  OBVIOUS
<1>4. /\ {} \subseteq pending /\ pending' = pending \ {} /\ leaked' = leaked \ {}
      /\ Loop \in quit /\ quit \subseteq {Loop}
  OBVIOUS
<1> HIDE DEF quit
<1>5. PICK how \in {"answered", "failed"} : how = "failed"
  OBVIOUS
<1>6. Resolves({}, how, 0, quit)
  BY <1>1, <1>2, <1>3, <1>4, <1>5 DEF Resolves
<1> QED
  BY <1>4, <1>5, <1>6, ResolveKeeps

LEMMA FailKeeps ==
  ASSUME WireInv, CallsInv, rpcId' = rpcId, pending' = {}, leaked' = {},
         \/ call' = G!Resolved(pending, "failed", 0) /\ loop # "handling"
         \/ call' = [G!Resolved(pending, "failed", 0) EXCEPT ![Loop] = G!NoCall]
  PROVE  CallsInv'
<1>1. PICK how \in {"answered", "failed"} : how = "failed"
  OBVIOUS
<1>2. G!Resolved(pending, how, 0) \in [G!Calls -> Case]
  BY ResolvedType
<1>3. leaked \subseteq pending /\ \A c \in G!Calls : Awaits(call[c]) => call[c].id \in pending
  BY DEF CallsInv
<1>4. /\ pending' = pending \ pending /\ leaked' = leaked \ pending
  BY <1>3
<1>5. CASE call' = G!Resolved(pending, how, 0) /\ loop # "handling"
  <2>1. \A c \in G!Calls : call'[c] = IF c \in {} THEN G!NoCall ELSE G!Resolved(pending, how, 0)[c]
    BY <1>5
  <2>2. Resolves(pending, how, 0, {})
    BY <1>2, <1>4, <1>5, <2>1 DEF Resolves
  <2> QED
    BY <1>1, <1>5, <2>2, ResolveKeeps
<1>6. CASE call' = [G!Resolved(pending, how, 0) EXCEPT ![Loop] = G!NoCall]
  <2>1. call' \in [G!Calls -> Case]
    BY <1>2, <1>6, NoCallIs
  <2>2. \A c \in G!Calls : call'[c] = IF c \in {Loop} THEN G!NoCall ELSE G!Resolved(pending, how, 0)[c]
    BY <1>2, <1>6
  <2>3. \A c \in {Loop} : Awaits(call[c]) => call[c].id \in pending
    BY <1>3, LoopCalls
  <2>4. PICK quit : quit = {Loop}
    OBVIOUS
  <2>5. /\ Loop \in quit /\ quit \subseteq {Loop}
        /\ \A c \in G!Calls : call'[c] = IF c \in quit THEN G!NoCall ELSE G!Resolved(pending, how, 0)[c]
        /\ \A c \in quit : Awaits(call[c]) => call[c].id \in pending
    BY <2>2, <2>3, <2>4
  <2>6. Resolves(pending, how, 0, quit)
    BY <1>4, <2>1, <2>5 DEF Resolves
  <2> QED
    BY <1>1, <2>5, <2>6, ResolveKeeps
<1> QED
  BY <1>1, <1>5, <1>6

LEMMA ResponseKeeps ==
  ASSUME WireInv, CallsInv, UNCHANGED <<rpcId, loop>>, NEW x \in Nat, x \in pending,
         call' = G!Resolved({x}, "answered", x), pending' = pending \ {x}, leaked' = leaked \ {x}
  PROVE  CallsInv'
<1>1. PICK how \in {"answered", "failed"} : how = "answered"
  OBVIOUS
<1>2. PICK ids : ids = {x}
  OBVIOUS
<1>3. PICK quit : quit = {}
  OBVIOUS
<1>4. call' = G!Resolved(ids, how, x)
  BY <1>1, <1>2
<1>5. call' \in [G!Calls -> Case]
  BY <1>4, ResolvedType
<1>6. \A c \in G!Calls : call'[c] = IF c \in quit THEN G!NoCall ELSE G!Resolved(ids, how, x)[c]
  BY <1>3, <1>4
<1>7. \A c \in quit : Awaits(call[c]) => call[c].id \in ids
  BY <1>3
<1>8. /\ ids \subseteq pending /\ ids \subseteq {x}
      /\ pending' = pending \ ids /\ leaked' = leaked \ ids
  BY <1>2
<1>9. quit \subseteq {Loop} /\ (how = "answered" => ids \subseteq {x})
  BY <1>2, <1>3
<1>10. rpcId' = rpcId /\ loop' = loop
  OBVIOUS
<1>11. Resolves(ids, how, x, quit)
  BY <1>5, <1>6, <1>7, <1>8, <1>9 DEF Resolves
<1> QED
  BY <1>9, <1>10, <1>11, ResolveKeeps

(* _rpc_call() goes on, in any task.                                       *)
LEMMA CallStepKeeps ==
  ASSUME CallsInv, UNCHANGED <<rpcId, loop>>, NEW c \in G!Calls, G!Drained(c) \/ G!Return(c)
  PROVE  CallsInv'
<1>1. PICK place \in Spots :
        /\ G!Goes(c, place)
        /\ \/ place = "waiting" /\ call[c].at = "draining"
           \/ place = "answered" /\ call[c].at = "waiting" /\ call[c].future = "answered"
           \/ place = "failed" /\ call[c].at = "waiting" /\ call[c].future # "open"
  BY DEF G!Drained, G!Return, Spots
<1>2. /\ call' \in [G!Calls -> Case] /\ \A d \in G!Calls \ {c} : call'[d] = call[d]
      /\ call'[c].at = place /\ call'[c].future = call[c].future /\ call'[c].id = call[c].id
      /\ call'[c].number = call[c].number /\ call'[c].by = call[c].by
  BY <1>1, CallMoves
<1>3. UNCHANGED <<pending, leaked>>
  BY DEF G!Drained, G!Return
<1>4. Sound(call[c])
  BY DEF CallsInv
<1>5. Sound(call[c])' /\ (Awaits(call'[c]) <=> Awaits(call[c]))
  BY <1>1, <1>2, <1>3, <1>4 DEF Sound, Awaits
<1>6. loop' # "handling" => call'[Loop].at = "idle"
  BY <1>1, <1>2, LoopCalls DEF CallsInv
<1> QED
  BY <1>2, <1>3, <1>5, <1>6, OneCallChanges

LEMMA DrainFailsKeeps ==
  ASSUME CallsInv, UNCHANGED <<rpcId, loop, pending>>, NEW c \in G!Calls, G!DrainFails(c)
  PROVE  CallsInv'
<1>1. /\ call[c].at = "draining" /\ G!Goes(c, "lost")
      /\ leaked' = leaked \cup ({call[c].id} \cap pending)
  BY DEF G!DrainFails
<1>2. /\ call' \in [G!Calls -> Case] /\ \A d \in G!Calls \ {c} : call'[d] = call[d]
      /\ call'[c].at = "lost" /\ call'[c].future = call[c].future /\ call'[c].id = call[c].id
      /\ call'[c].number = call[c].number /\ call'[c].by = call[c].by
  BY <1>1, CallMoves DEF Spots
<1>3. \A d \in G!Calls : Sound(call[d])
  BY DEF CallsInv
<1>4. call[c].id \in pending <=> call[c].future = "open"
  BY <1>1, <1>3 DEF CallsInv, Sound, Awaits
<1>5. ASSUME NEW d \in G!Calls PROVE Sound(call[d])'
  <2>1. CASE d = c
    BY <1>2, <1>3, <2>1 DEF Sound, Awaits
  <2>2. CASE d # c
    <3>1. Awaits(call[d]) => call[d].id \notin leaked'
      BY <1>1, <1>3, <1>4, <2>2 DEF CallsInv, Sound, Awaits
    <3> QED
      BY <1>2, <1>3, <2>2, <3>1 DEF Sound
  <2> QED
    BY <2>1, <2>2
<1>6. \A d \in G!Calls : call'[d].future = "open" => call[d].future = "open" /\ call'[d].id = call[d].id
  BY <1>2
<1>7. \A x : x \in pending' <=> x \in leaked' \/ \E d \in G!Calls : Awaits(call'[d]) /\ call'[d].id = x
  <2> SUFFICES ASSUME NEW x
               PROVE  x \in pending <=> x \in leaked' \/ \E d \in G!Calls : Awaits(call'[d]) /\ call'[d].id = x
    OBVIOUS
  <2>1. x \in pending <=> x \in leaked \/ \E d \in G!Calls : Awaits(call[d]) /\ call[d].id = x
    BY DEF CallsInv
  <2>2. ~Awaits(call'[c]) /\ \A d \in G!Calls \ {c} : Awaits(call'[d]) <=> Awaits(call[d])
    BY <1>2 DEF Awaits
  <2>3. Awaits(call[c]) => call[c].id \in leaked'
    BY <1>1, <1>4 DEF Awaits
  <2> QED
    BY <1>1, <1>2, <2>1, <2>2, <2>3
<1>8. loop' # "handling" => call'[Loop].at = "idle"
  BY <1>1, <1>2, LoopCalls DEF CallsInv
<1> QED
  BY <1>2, <1>5, <1>6, <1>7, <1>8, CallsChange

LEMMA TimeoutKeeps ==
  ASSUME CallsInv, UNCHANGED <<rpcId, loop, leaked>>, NEW c \in G!Calls, G!Timeout(c)
  PROVE  CallsInv'
<1>1. /\ call[c].at = "waiting" /\ call[c].future = "open" /\ G!Goes(c, "failed")
      /\ pending' = pending \ {call[c].id}
  BY DEF G!Timeout
<1>2. /\ call' \in [G!Calls -> Case] /\ \A d \in G!Calls \ {c} : call'[d] = call[d]
      /\ call'[c].at = "failed" /\ call'[c].future = call[c].future /\ call'[c].id = call[c].id
      /\ call'[c].number = call[c].number /\ call'[c].by = call[c].by
  BY <1>1, CallMoves DEF Spots
<1>3. \A d \in G!Calls : Sound(call[d])
  BY DEF CallsInv
<1>4. ASSUME NEW d \in G!Calls PROVE Sound(call[d])'
  <2>1. CASE d = c
    BY <1>1, <1>2, <1>3, <2>1 DEF Sound, Awaits
  <2>2. CASE d # c
    BY <1>1, <1>2, <1>3, <2>2 DEF Sound
  <2> QED
    BY <2>1, <2>2
<1>5. \A d \in G!Calls : call'[d].future = "open" => call[d].future = "open" /\ call'[d].id = call[d].id
  BY <1>2
<1>6. \A x : x \in pending' <=> x \in leaked' \/ \E d \in G!Calls : Awaits(call'[d]) /\ call'[d].id = x
  <2> SUFFICES ASSUME NEW x
               PROVE  x \in pending' <=> x \in leaked \/ \E d \in G!Calls : Awaits(call'[d]) /\ call'[d].id = x
    OBVIOUS
  <2>1. x \in pending <=> x \in leaked \/ \E d \in G!Calls : Awaits(call[d]) /\ call[d].id = x
    BY DEF CallsInv
  <2>2. ~Awaits(call'[c]) /\ \A d \in G!Calls \ {c} : call'[d] = call[d]
    BY <1>2 DEF Awaits
  <2>3. call[c].id \notin leaked
    BY <1>1, <1>3 DEF Sound, Awaits
  <2>4. \A d \in G!Calls \ {c} : Awaits(call[d]) => call[d].id # call[c].id
    BY <1>1 DEF CallsInv, Awaits
  <2> QED
    BY <1>1, <2>1, <2>2, <2>3, <2>4
<1>7. loop' # "handling" => call'[Loop].at = "idle"
  BY <1>1, <1>2, LoopCalls DEF CallsInv
<1> QED
  BY <1>1, <1>2, <1>4, <1>5, <1>6, <1>7, CallsChange

(* The lines of the connections and the requests the daemon holds.         *)
SignalInv == WireInv /\ CallsInv

LEMMA CallsStay ==
  ASSUME CallsInv, UNCHANGED <<rpcId, pending, call, leaked>>, loop' = loop \/ call[Loop].at = "idle"
  PROVE  CallsInv'
BY DEF CallsInv, Sound

LEMMA OneLineChanges ==
  ASSUME WireInv, NEW g \in DOMAIN link, NEW z \in Seq(Lines), wire' = [wire EXCEPT ![g] = z]
  PROVE  wire' \in Seq(Seq(Lines)) /\ Len(wire') = Len(wire)
<1>1. g \in 1 .. Len(wire) /\ wire \in Seq(Seq(Lines))
  BY DEF WireInv
<1> QED
  BY <1>1

LEMMA OneHeldChanges ==
  ASSUME WireInv, NEW g \in DOMAIN link, NEW z \in SUBSET Queries, asked' = [asked EXCEPT ![g] = z]
  PROVE  asked' \in Seq(SUBSET Queries) /\ Len(asked') = Len(asked)
<1>1. g \in 1 .. Len(asked) /\ asked \in Seq(SUBSET Queries)
  BY DEF WireInv
<1> QED
  BY <1>1

LEMMA LineIs ==
  ASSUME WireInv, G!Reads, G!Consumed
  PROVE  /\ conn \in DOMAIN link /\ G!Line \in Lines
         /\ G!Line.id \in Nat /\ G!Line.number = G!Line.id
         /\ wire' \in Seq(Seq(Lines)) /\ Len(wire') = Len(wire)
<1>1. conn \in DOMAIN link /\ conn \in 1 .. Len(wire) /\ wire \in Seq(Seq(Lines))
  BY DEF WireInv, G!Reads
<1>2. wire[conn] \in Seq(Lines) /\ wire[conn] # <<>>
  BY <1>1 DEF G!Reads
<1>3. G!Line \in Lines /\ Tail(wire[conn]) \in Seq(Lines)
  BY <1>2 DEF G!Line
<1>4. wire' \in Seq(Seq(Lines)) /\ Len(wire') = Len(wire)
  BY <1>1, <1>3, OneLineChanges DEF G!Consumed
<1> QED
  BY <1>1, <1>3, <1>4 DEF Lines

LEMMA EnterKeeps ==
  ASSUME SignalInv, NEW c \in G!Calls, call[c].at = "idle", G!Enter(c),
         UNCHANGED <<conn, link>>, wire' \in Seq(Seq(Lines)), Len(wire') = Len(wire),
         loop' = "handling" \/ (c # Loop /\ loop' = loop)
  PROVE  SignalInv'
<1>1. CASE G!Write(c)
  BY <1>1, WriteKeeps DEF SignalInv
<1>2. CASE ~G!Write(c)
  <2>1. PICK place \in {"queued", "failed"} : G!Goes(c, place)
    BY <1>2 DEF G!Enter
  <2>2. UNCHANGED <<rpcId, made, pending, asked, leaked>>
    BY <1>2 DEF G!Enter
  <2>3. CallsInv'
    BY <2>1, <2>2, QueueKeeps DEF SignalInv
  <2>4. WireInv'
    BY <2>2 DEF SignalInv, WireInv
  <2> QED
    BY <2>3, <2>4 DEF SignalInv
<1> QED
  BY <1>1, <1>2

LEMMA RpcKeeps ==
  ASSUME SignalInv, NEW c \in G!Calls, G!Rpc(c)
  PROVE  SignalInv'
<1>1. CASE G!Begin(c)
  <2>1. /\ c # Loop /\ call[c].at = "idle" /\ G!Enter(c) /\ UNCHANGED <<conn, link, wire, loop>>
    BY <1>1, LoopCalls DEF G!Begin, G!adapter
  <2>2. wire' \in Seq(Seq(Lines)) /\ Len(wire') = Len(wire)
    BY <2>1 DEF SignalInv, WireInv
  <2> QED
    BY <2>1, <2>2, EnterKeeps
<1>2. CASE G!Granted(c)
  <2>1. call[c].at = "queued" /\ G!Write(c) /\ UNCHANGED <<conn, link, wire, loop>>
    BY <1>2 DEF G!Granted, G!adapter
  <2>2. c # Loop \/ loop = "handling"
    BY <2>1 DEF SignalInv, CallsInv
  <2> QED
    BY <2>1, <2>2, WriteKeeps DEF SignalInv
<1>3. CASE G!Drained(c) \/ G!DrainFails(c) \/ G!Return(c) \/ G!Timeout(c)
  <2>1. UNCHANGED <<rpcId, made, conn, loop, link, wire, asked>>
    BY <1>3 DEF G!Drained, G!DrainFails, G!Return, G!Timeout, G!adapter, G!daemon
  <2>2. WireInv'
    BY <2>1 DEF SignalInv, WireInv
  <2>3. CallsInv'
    <3>1. CASE G!Drained(c) \/ G!Return(c)
      BY <2>1, <3>1, CallStepKeeps DEF SignalInv
    <3>2. CASE G!DrainFails(c)
      BY <2>1, <3>2, DrainFailsKeeps DEF SignalInv, G!DrainFails
    <3>3. CASE G!Timeout(c)
      BY <2>1, <3>3, TimeoutKeeps DEF SignalInv, G!Timeout
    <3> QED
      BY <1>3, <3>1, <3>2, <3>3
  <2> QED
    BY <2>2, <2>3 DEF SignalInv
<1> QED
  BY <1>1, <1>2, <1>3 DEF G!Rpc

LEMMA ReadKeeps ==
  ASSUME SignalInv, G!ReadResponse \/ G!ReadQuiet \/ G!Handle
  PROVE  SignalInv'
<1>1. G!Reads /\ G!Consumed
  BY DEF G!ReadResponse, G!ReadQuiet, G!Handle
<1>2. /\ conn \in DOMAIN link /\ G!Line \in Lines
      /\ G!Line.id \in Nat /\ G!Line.number = G!Line.id
      /\ wire' \in Seq(Seq(Lines)) /\ Len(wire') = Len(wire)
  BY <1>1, LineIs DEF SignalInv
<1>3. call[Loop].at = "idle"
  BY <1>1 DEF SignalInv, CallsInv, G!Reads
<1>4. CASE G!ReadResponse
  <2>1. UNCHANGED <<rpcId, made, conn, loop, link, asked>>
    BY <1>4 DEF G!ReadResponse, G!adapter
  <2>2. WireInv'
    BY <1>2, <2>1 DEF SignalInv, WireInv
  <2>3. CASE G!Line.id \in pending
    <3>1. PICK x \in Nat : x = G!Line.id
      BY <1>2
    <3>2. call' = G!Resolved({x}, "answered", x) /\ pending' = pending \ {x} /\ leaked' = leaked \ {x}
      BY <1>2, <1>4, <2>3, <3>1 DEF G!ReadResponse
    <3>3. CallsInv'
      BY <2>1, <2>3, <3>1, <3>2, ResponseKeeps DEF SignalInv
    <3> QED
      BY <2>2, <3>3 DEF SignalInv
  <2>4. CASE G!Line.id \notin pending
    <3>1. G!Line.id \notin leaked
      BY <2>4 DEF SignalInv, CallsInv
    <3>2. UNCHANGED <<call, pending, leaked>>
      BY <1>4, <2>4, <3>1 DEF G!ReadResponse
    <3> QED
      BY <2>1, <2>2, <3>2, CallsStay DEF SignalInv
  <2> QED
    BY <2>3, <2>4
<1>5. CASE G!ReadQuiet
  <2>1. UNCHANGED <<rpcId, made, conn, loop, link, asked, pending, call, leaked>>
    BY <1>5 DEF G!ReadQuiet, G!adapter, G!rpc
  <2>2. WireInv'
    BY <1>2, <2>1 DEF SignalInv, WireInv
  <2> QED
    BY <2>1, <2>2, CallsStay DEF SignalInv
<1>6. CASE G!Handle
  BY <1>2, <1>3, <1>6, LoopCalls, EnterKeeps DEF G!Handle
<1> QED
  BY <1>4, <1>5, <1>6

LEMMA LoopKeeps ==
  ASSUME SignalInv, G!Handled \/ G!ReceiptFails \/ G!EndOfFile \/ G!Stop
  PROVE  SignalInv'
<1>1. UNCHANGED <<rpcId, made, conn, link, wire, asked>>
  BY DEF G!Handled, G!ReceiptFails, G!EndOfFile, G!Stop, G!daemon
<1>2. WireInv'
  BY <1>1 DEF SignalInv, WireInv
<1>3. CASE G!Handled
  BY <1>1, <1>2, <1>3, QuitKeeps DEF SignalInv, G!Handled, G!Over, Awaits
<1>4. CASE G!ReceiptFails
  <2>1. CASE call[Loop].at = "lost"
    BY <1>1, <1>2, <1>4, <2>1, FailKeeps DEF SignalInv, G!ReceiptFails
  <2>2. CASE call[Loop].at # "lost"
    BY <1>1, <1>2, <1>4, <2>2, QuitKeeps DEF SignalInv, G!ReceiptFails, G!Over, Awaits
  <2> QED
    BY <2>1, <2>2
<1>5. CASE G!EndOfFile
  BY <1>1, <1>2, <1>5, FailKeeps DEF SignalInv, G!EndOfFile, G!FailPending
<1>6. CASE G!Stop
  <2>1. CASE loop = "recovering"
    <3>1. UNCHANGED <<call, pending, leaked>> /\ call[Loop].at = "idle"
      BY <1>6, <2>1 DEF G!Stop, SignalInv, CallsInv
    <3> QED
      BY <1>1, <1>2, <3>1, CallsStay DEF SignalInv
  <2>2. CASE loop # "recovering"
    BY <1>1, <1>2, <1>6, <2>2, FailKeeps DEF SignalInv, G!Stop
  <2> QED
    BY <2>1, <2>2
<1> QED
  BY <1>3, <1>4, <1>5, <1>6

LEMMA DaemonKeeps ==
  ASSUME SignalInv,
         \/ G!Reconnect \/ G!Close
         \/ \E g \in DOMAIN link : G!Answer(g) \/ G!Cut(g)
         \/ \E m \in Messages : G!Deliver(m)
  PROVE  SignalInv'
<1>1. UNCHANGED <<rpcId, made, pending, call, leaked>>
  BY DEF G!Reconnect, G!Reconnected, G!ReconnectFails, G!Close, G!Answer, G!Cut, G!Deliver, G!rpc, G!adapter
<1>2. loop' = loop \/ call[Loop].at = "idle"
  BY DEF G!Reconnect, G!Reconnected, G!ReconnectFails, G!Away, G!Close, G!Answer, G!Cut, G!Deliver, G!rpc, G!adapter,
         SignalInv, CallsInv
<1>3. CallsInv'
  BY <1>1, <1>2, CallsStay DEF SignalInv
<1>4. /\ link \in Seq({"open", "closed"}) /\ wire \in Seq(Seq(Lines)) /\ asked \in Seq(SUBSET Queries)
      /\ Len(wire) = Len(link) /\ Len(asked) = Len(link) /\ conn \in 0 .. Len(link)
  BY DEF SignalInv, WireInv
<1>5. CASE G!Reconnected
  <2>1. /\ conn' = Len(link) + 1
        /\ link' = Append(link, "open") /\ wire' = Append(wire, <<>>) /\ asked' = Append(asked, {})
    BY <1>5 DEF G!Reconnected
  <2>2. link' \in Seq({"open", "closed"}) /\ Len(link') = Len(link) + 1
    BY <1>4, <2>1
  <2>3. wire' \in Seq(Seq(Lines)) /\ Len(wire') = Len(wire) + 1
    BY <1>4, <2>1
  <2>4. asked' \in Seq(SUBSET Queries) /\ Len(asked') = Len(asked) + 1
    BY <1>4, <2>1
  <2>5. WireInv'
    BY <1>1, <1>4, <2>1, <2>2, <2>3, <2>4 DEF SignalInv, WireInv
  <2> QED
    BY <1>3, <2>5 DEF SignalInv
<1>6. CASE G!ReconnectFails
  <2>1. WireInv'
    BY <1>6 DEF G!ReconnectFails, G!rpc, G!daemon, SignalInv, WireInv
  <2> QED
    BY <1>3, <2>1 DEF SignalInv
<1>7. ASSUME NEW g \in DOMAIN link, link' = [link EXCEPT ![g] = "closed"],
             asked' = [asked EXCEPT ![g] = {}], wire' = wire, conn' \in {0, conn}
      PROVE  SignalInv'
  <2>1. link' \in Seq({"open", "closed"}) /\ Len(link') = Len(link)
    BY <1>4, <1>7
  <2>2. asked' \in Seq(SUBSET Queries) /\ Len(asked') = Len(asked)
    BY <1>7, OneHeldChanges DEF SignalInv
  <2>3. WireInv'
    BY <1>1, <1>4, <1>7, <2>1, <2>2 DEF SignalInv, WireInv
  <2> QED
    BY <1>3, <2>3 DEF SignalInv
<1>8. CASE G!Close
  <2>1. conn \in DOMAIN link
    BY <1>4, <1>8 DEF G!Close
  <2> QED
    BY <1>7, <1>8, <2>1 DEF G!Close
<1>9. ASSUME NEW g \in DOMAIN link, G!Cut(g) PROVE SignalInv'
  BY <1>7, <1>9 DEF G!Cut, G!adapter
<1>10. ASSUME NEW g \in DOMAIN link, G!Answer(g) PROVE SignalInv'
  <2>1. PICK r \in asked[g] :
          /\ asked' = [asked EXCEPT ![g] = @ \ {r}]
          /\ wire' = [wire EXCEPT ![g] = Append(@, [id |-> r.id, message |-> "none", number |-> r.number])]
          /\ UNCHANGED <<conn, link>>
    BY <1>10 DEF G!Answer, G!adapter
  <2>2. asked[g] \in SUBSET Queries /\ wire[g] \in Seq(Lines) /\ g \in DOMAIN wire /\ g \in DOMAIN asked
    BY <1>4
  <2>3. PICK l : l = [id |-> r.id, message |-> "none", number |-> r.number]
    OBVIOUS
  <2>4. l \in Lines
    BY <2>2, <2>3 DEF Queries, Lines
  <2>5. PICK z : z = Append(wire[g], l)
    OBVIOUS
  <2>6. PICK y : y = asked[g] \ {r}
    OBVIOUS
  <2>7. /\ z \in Seq(Lines) /\ y \in SUBSET Queries
        /\ asked' = [asked EXCEPT ![g] = y] /\ wire' = [wire EXCEPT ![g] = z]
    BY <2>1, <2>2, <2>3, <2>4, <2>5, <2>6
  <2>8. wire' \in Seq(Seq(Lines)) /\ Len(wire') = Len(wire)
    BY <2>7, OneLineChanges DEF SignalInv
  <2>9. asked' \in Seq(SUBSET Queries) /\ Len(asked') = Len(asked)
    BY <2>7, OneHeldChanges DEF SignalInv
  <2>10. WireInv'
    BY <1>1, <1>4, <2>1, <2>8, <2>9 DEF SignalInv, WireInv
  <2> QED
    BY <1>3, <2>10 DEF SignalInv
<1>11. ASSUME NEW m \in Messages, G!Deliver(m) PROVE SignalInv'
  <2>1. PICK l : l = [id |-> 0, message |-> m, number |-> 0]
    OBVIOUS
  <2>2. l \in Lines
    BY <2>1 DEF Lines
  <2>3. /\ wire' = [g \in DOMAIN wire |-> IF g \in G!Open THEN Append(wire[g], l) ELSE wire[g]]
        /\ UNCHANGED <<conn, link, asked>>
    BY <1>11, <2>1 DEF G!Deliver, G!adapter
  <2>4. \A g \in 1 .. Len(wire) : wire[g] \in Seq(Lines) /\ Append(wire[g], l) \in Seq(Lines)
    BY <1>4, <2>2
  <2>5. wire' \in [1 .. Len(wire) -> Seq(Lines)]
    BY <1>4, <2>3, <2>4
  <2>6. wire' \in Seq(Seq(Lines)) /\ Len(wire') = Len(wire)
    <3>1. PICK n \in Nat : n = Len(wire)
      BY <1>4
    <3>2. PICK w \in [1 .. n -> Seq(Lines)] : w = wire'
      BY <2>5, <3>1
    <3>3. w \in Seq(Seq(Lines))
      BY <3>1
    <3>4. Len(w) = n
      <4>1. PICK k \in Nat : k = Len(w)
        BY <3>3
      <4>2. DOMAIN w = 1 .. k /\ DOMAIN w = 1 .. n
        BY <3>2, <3>3, <4>1
      <4> QED
        BY <3>1, <4>1, <4>2
    <3> QED
      BY <3>1, <3>2, <3>3, <3>4
  <2>7. WireInv'
    BY <1>1, <1>4, <2>3, <2>6 DEF SignalInv, WireInv
  <2> QED
    BY <1>3, <2>7 DEF SignalInv
<1> QED
  BY <1>5, <1>6, <1>8, <1>9, <1>10, <1>11 DEF G!Reconnect

LEMMA SignalKept == SignalInv /\ [G!Next]_(G!vars) => SignalInv'
<1> SUFFICES ASSUME SignalInv, [G!Next]_(G!vars) PROVE SignalInv'
  OBVIOUS
<1>1. CASE UNCHANGED G!vars
  <2>1. UNCHANGED <<rpcId, made, pending, call, leaked, loop, conn, link, wire, asked>>
    BY <1>1 DEF G!vars, G!adapter, G!rpc, G!daemon
  <2>2. WireInv'
    BY <2>1 DEF SignalInv, WireInv
  <2> QED
    BY <2>1, <2>2, CallsStay DEF SignalInv
<1> QED
  BY <1>1, RpcKeeps, ReadKeeps, LoopKeeps, DaemonKeeps DEF G!Next, G!Receive

LEMMA SignalStarts == G!Init => SignalInv
<1> SUFFICES ASSUME G!Init PROVE SignalInv
  OBVIOUS
<1>1. WireInv
  <2>1. link \in Seq({"open", "closed"}) /\ wire \in Seq(Seq(Lines)) /\ asked \in Seq(SUBSET Queries)
    BY DEF G!Init
  <2> QED
    BY <2>1 DEF G!Init, WireInv
<1>2. \A c \in G!Calls : call[c] = G!NoCall
  BY DEF G!Init
<1>3. call \in [G!Calls -> Case]
  BY NoCallIs DEF G!Init
<1>4. \A c \in G!Calls : Sound(call[c])
  BY <1>2, NoCallIs DEF G!Init, Sound
<1>5. CallsInv
  BY <1>2, <1>3, <1>4, NoCallIs, LoopCalls DEF G!Init, CallsInv
<1> QED
  BY <1>1, <1>5 DEF SignalInv

LEMMA SignalSays == SignalInv => G!AnswersFindTheirCalls
<1> SUFFICES ASSUME SignalInv PROVE G!AnswersFindTheirCalls
  OBVIOUS
<1>1. \A c \in G!Calls : Sound(call[c]) /\ (G!Waits(c) <=> Awaits(call[c]))
  BY DEF SignalInv, CallsInv, G!Waits, Awaits
<1>2. \A x : x \in pending <=> x \in leaked \/ \E c \in G!Calls : G!Waits(c) /\ call[c].id = x
  BY <1>1 DEF SignalInv, CallsInv
<1>3. pending = {call[c].id : c \in {d \in G!Calls : G!Waits(d)}} \cup leaked
  BY <1>2
<1>4. \A c \in G!Calls : call[c].at = "answered" => call[c].by = call[c].number
  BY <1>1 DEF Sound
<1> QED
  BY <1>2, <1>3, <1>4 DEF G!AnswersFindTheirCalls

(* Across timeouts, lost connections, reconnects and stops, and whatever   *)
(* the other side sends, what a call returns is the answer to that call,   *)
(* and no answer misses a call that still waits: to the Signal daemon and  *)
(* to the MCP servers.                                                     *)
THEOREM AnswersAlwaysReach == G!Spec /\ M!Spec => []AnswersReach
<1>1. SignalInv /\ McpInv => AnswersReach
  BY SignalSays, McpSays DEF AnswersReach
<1> QED
  BY <1>1, SignalStarts, SignalKept, McpStarts, McpKept, PTL DEF G!Spec, M!Spec

-----------------------------------------------------------------------------
(* Whichever client a behaviour of the suite is of, it is a behaviour of   *)
(* the others' specifications too, and no step of it undoes a resume.      *)
THEOREM ChannelsSound == SuiteSpec => [](SendsKept /\ AnswersReach) /\ ResumeHolds
<1>1. SuiteInit => G!Init /\ S!Init /\ M!Init
  BY DEF SuiteInit
<1> DEFINE Suite == [Killing \/ Signalling \/ Slacking \/ Connecting]_<<part, killVars, signal, slack, mcp>>
<1> USE DEF Killing, Signalling, Slacking, Connecting
<1>2. Suite => [G!Next]_(G!vars)
  BY DEF G!vars, G!adapter, G!rpc, G!daemon, signal
<1>3. Suite => [S!Next]_(S!vars)
  BY DEF S!vars, S!sending, S!history, slack
<1>4. Suite => [M!Next]_(M!vars)
  BY DEF M!vars, mcp
<1>5. Suite => [state = "running" => state' # "killed"]_killVars
  <2>1. Suite => [Next]_killVars
    OBVIOUS
  <2> QED
    BY <2>1, ResumedSteps
<1>6. SuiteSpec => G!Spec /\ S!Spec /\ M!Spec
  BY <1>1, <1>2, <1>3, <1>4, PTL DEF SuiteSpec, G!Spec, S!Spec, M!Spec
<1>7. SuiteSpec => ResumeHolds
  BY <1>5, PTL DEF SuiteSpec, ResumeHolds
<1> QED
  BY <1>6, <1>7, SendsAreKept, AnswersAlwaysReach, PTL
=============================================================================
