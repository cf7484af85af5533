------------------------------ MODULE Outbound ------------------------------
(***************************************************************************)
(* How the adapters of the seven chat services send a response             *)
(* (channels/<service>/adapter.py send() and media.py).                    *)
(*                                                                         *)
(* A send is the sequence of steps its code goes through, one step for     *)
(* each request to the service; a request may fail, and it may arrive      *)
(* without an answer.  Two sends run at a time, and the adapter may be     *)
(* stopped and started in between.  How a response becomes texts is Chunks *)
(* and Blocks; Slack's queue is Slack, Signal's calls are Signal.          *)
(***************************************************************************)
EXTENDS Integers, Sequences, FiniteSets

CONSTANTS Sends, Nobody,
          MaxTexts,    \* bound: messages of a response
          MaxToggles,  \* bound: starts and stops of the adapter
          MaxExpiries  \* bound: tokens that expire

VARIABLES
  service,
  wanted,     \* send -> [files, form, texts]
  state,      \* send -> "idle", "running", "ended"
  todo,       \* send -> steps still to go, each [do, part]
  up, era,    \* the client exists; how often it was started or stopped
  eraOf,      \* send -> era in which it began
  token,      \* Teams: "none", "valid", "stale"
  lock,       \* Teams: who holds the lock of the token
  refreshes, expiries, failures,
  tried,      \* send -> parts that were posted or found unfit
  shown,      \* what reached the chat: [send, part, as]
  unanswered, \* parts that arrived without an answer
  cut         \* sends that gave up before their last part

tokens == <<token, lock, refreshes, expiries, failures>>
vars == <<service, wanted, state, todo, up, era, eraOf, token, lock, refreshes, expiries,
          failures, tried, shown, unanswered, cut>>

Services == {"telegram", "discord", "whatsapp", "messenger", "slack", "teams", "signal"}

\* Which attachments a service takes: with their bytes, by address, with too many bytes
\* for a message of Teams.
TakesForm ==
  [telegram |-> {"data", "url", "large"}, discord |-> {"data", "large"},
   whatsapp |-> {"data", "large"}, messenger |-> {"url"}, slack |-> {"data", "large"},
   teams |-> {"data", "url"}, signal |-> {"data", "large"}]
Takes(form) == form \in TakesForm[service]

File(n) == <<"file", n>>
Text(n) == <<"text", n>>
Do(what, part) == <<[do |-> what, part |-> part]>>
Posts(Part(_), n) == [i \in 1 .. n |-> [do |-> "post", part |-> Part(i)]]

\* The steps of send(), by service.
TelegramSend(w) == Posts(File, w.files) \o Posts(Text, w.texts)
\* The channel or the user is looked up first, and the files go with the first text.
DiscordSend(w) ==
  Do("find", Nobody) \o (IF w.texts = 0 THEN Posts(File, w.files) ELSE Posts(Text, w.texts))
WhatsAppSend(w) ==
  (IF w.files = 0 THEN <<>> ELSE Do("prepare", File(1)) \o Posts(File, 1))
    \o Posts(Text, w.texts)
MessengerSend(w) == Posts(File, w.files) \o Posts(Text, w.texts)
SlackSend(w) ==
  (IF w.files = 0 THEN <<>>
   ELSE Do("prepare", File(1)) \o Do("prepare", File(1)) \o Posts(File, 1))
    \o Posts(Text, w.texts)
\* Who never wrote to the bot has no conversation to post to.
TeamsSend(w) ==
  Do("find", Nobody) \o Do("token", Nobody) \o Posts(File, w.files) \o Posts(Text, w.texts)
SignalSend(w) == Posts(File, w.files) \o Posts(Text, w.texts)

Plan(w) ==
  CASE service = "telegram" -> TelegramSend(w) [] service = "discord" -> DiscordSend(w)
    [] service = "whatsapp" -> WhatsAppSend(w) [] service = "messenger" -> MessengerSend(w)
    [] service = "slack" -> SlackSend(w) [] service = "teams" -> TeamsSend(w)
    [] service = "signal" -> SignalSend(w)

OneText == {"slack", "teams"}   \* a response is one message of blocks

Init ==
  /\ service \in Services
  /\ wanted \in [Sends -> [files : 0 .. 1, form : {"data", "url", "large"}, texts : 0 .. MaxTexts]]
  /\ \A s \in Sends : /\ wanted[s].texts <= (IF service \in OneText THEN 1 ELSE MaxTexts)
                      /\ wanted[s].files = 0 => wanted[s].form = "data"
  /\ state = [s \in Sends |-> "idle"]
  /\ todo = [s \in Sends |-> <<>>]
  /\ up = TRUE /\ era = 0 /\ eraOf = [s \in Sends |-> 0]
  /\ token = "none" /\ lock = Nobody
  /\ refreshes = 0 /\ expiries = 0 /\ failures = 0
  /\ tried = [s \in Sends |-> {}]
  /\ shown = <<>> /\ unanswered = {} /\ cut = {}

-----------------------------------------------------------------------------
\* The adapter's client is opened and closed; a second start or stop does nothing.
Started(svc) ==
  /\ service = svc /\ ~up /\ era < MaxToggles
  /\ up' = TRUE /\ era' = era + 1
  /\ UNCHANGED <<service, wanted, state, todo, eraOf, refreshes, expiries, failures, tried,
                 shown, unanswered, cut>>
Stopped(svc) ==
  /\ service = svc /\ up /\ era < MaxToggles
  /\ up' = FALSE /\ era' = era + 1
  /\ UNCHANGED <<service, wanted, state, todo, eraOf, tokens, tried, shown, unanswered, cut>>
SameToken == UNCHANGED <<token, lock>>

StartTelegram == Started("telegram") /\ SameToken
StartDiscord == Started("discord") /\ SameToken
StartWhatsApp == Started("whatsapp") /\ SameToken
StartMessenger == Started("messenger") /\ SameToken
StartSlack == Started("slack") /\ SameToken
StartSignal == Started("signal") /\ SameToken
\* With a TokenManager of its own.
StartTeams == Started("teams") /\ token' = "none" /\ lock' = Nobody

StopTelegram == Stopped("telegram")
StopDiscord == Stopped("discord")
StopWhatsApp == Stopped("whatsapp")
StopMessenger == Stopped("messenger")
StopSlack == Stopped("slack")
StopSignal == Stopped("signal")
StopTeams == Stopped("teams")

Toggle ==
  \/ StartTelegram \/ StartDiscord \/ StartWhatsApp \/ StartMessenger \/ StartSlack
  \/ StartSignal \/ StartTeams
  \/ StopTelegram \/ StopDiscord \/ StopWhatsApp \/ StopMessenger \/ StopSlack
  \/ StopSignal \/ StopTeams

\* A file the service does not take is left out.  Without a client nothing is sent;
\* Signal finds out when it calls.
Begin(s) ==
  /\ state[s] = "idle"
  /\ LET fit == [wanted[s] EXCEPT !.files = IF Takes(wanted[s].form) THEN @ ELSE 0]
         steps == IF up \/ service = "signal" THEN Plan(fit) ELSE <<>>
     IN /\ todo' = [todo EXCEPT ![s] = steps]
        /\ state' = [state EXCEPT ![s] = IF steps = <<>> THEN "ended" ELSE "running"]
        /\ tried' = [tried EXCEPT ![s] = IF fit.files = wanted[s].files THEN {} ELSE {File(1)}]
  /\ eraOf' = [eraOf EXCEPT ![s] = era]
  /\ cut' = IF up THEN cut ELSE cut \cup {s}
  /\ UNCHANGED <<service, wanted, up, era, tokens, shown, unanswered>>

Running(s, what) == state[s] = "running" /\ Head(todo[s]).do = what
Part(s) == Head(todo[s]).part

Proceed(s, rest) ==
  /\ todo' = [todo EXCEPT ![s] = rest]
  /\ state' = [state EXCEPT ![s] = IF rest = <<>> THEN "ended" ELSE "running"]
GiveUp(s) == Proceed(s, <<>>) /\ cut' = cut \cup {s}

\* Discord: neither a channel nor a user with this id; Teams: no conversation.
Find(s, found) ==
  /\ Running(s, "find")
  /\ IF found THEN Proceed(s, Tail(todo[s])) /\ UNCHANGED cut ELSE GiveUp(s)
  /\ UNCHANGED <<service, wanted, up, era, eraOf, tokens, tried, shown, unanswered>>

\* An upload before the file itself: when it fails the file is left out, and the texts
\* come next.
Preparing(svc, s, ok) ==
  /\ service = svc /\ Running(s, "prepare")
  /\ Proceed(s, IF ok THEN Tail(todo[s]) ELSE Posts(Text, wanted[s].texts))
  /\ tried' = [tried EXCEPT ![s] = IF ok THEN @ ELSE @ \cup {Part(s)}]
  /\ UNCHANGED <<service, wanted, up, era, eraOf, tokens, shown, unanswered, cut>>

UploadWhatsApp(s, ok) == Preparing("whatsapp", s, ok)
UploadSlack(s, ok) == Preparing("slack", s, ok)
Prepare(s, ok) == UploadWhatsApp(s, ok) \/ UploadSlack(s, ok)

\* WhatsApp, Messenger and Slack open a client of their own for files once the adapter's
\* is gone.
OwnClient(part) == part[1] = "file" /\ service \in {"whatsapp", "messenger", "slack"}
Reachable(part) == up \/ OwnClient(part)

Reaches(s, as) == shown' = Append(shown, [as |-> as, part |-> Part(s), send |-> s])
Tried(s) == tried' = [tried EXCEPT ![s] = @ \cup {Part(s)}
                        \cup (IF service = "discord" /\ Part(s) = Text(1) /\ wanted[s].files > 0
                              THEN {File(1)} ELSE {})]

Skip(s) == Proceed(s, Tail(todo[s])) /\ UNCHANGED cut

\* One request of a service, and what its code does after one that failed.
Posting(svc, s, outcome, AfterFailure) ==
  /\ service = svc /\ Running(s, "post")
  /\ outcome # "fails" => Reachable(Part(s))
  /\ Tried(s)
  /\ IF outcome = "fails" THEN UNCHANGED shown ELSE Reaches(s, Part(s))
  /\ unanswered' = IF outcome = "unanswered" THEN unanswered \cup {<<s, Part(s)>>} ELSE unanswered
  /\ IF outcome = "arrives" THEN Skip(s) ELSE AfterFailure
  /\ UNCHANGED <<service, wanted, up, era, eraOf, tokens>>

\* Telegram posts a text once more without markup.
PostTelegram(s, outcome) ==
  Posting("telegram", s, outcome,
          IF Part(s)[1] = "file" THEN Skip(s)
          ELSE Proceed(s, Do("plainly", Part(s)) \o Tail(todo[s])) /\ UNCHANGED cut)
\* The others log the failure and go on with the next part.
PostDiscord(s, outcome) == Posting("discord", s, outcome, Skip(s))
PostWhatsApp(s, outcome) == Posting("whatsapp", s, outcome, Skip(s))
PostMessenger(s, outcome) == Posting("messenger", s, outcome, Skip(s))
PostSlack(s, outcome) == Posting("slack", s, outcome, Skip(s))
PostTeams(s, outcome) == Posting("teams", s, outcome, Skip(s))
\* Signal's error leaves send().
PostSignal(s, outcome) == Posting("signal", s, outcome, GiveUp(s))

Post(s, outcome) ==
  \/ PostTelegram(s, outcome) \/ PostDiscord(s, outcome) \/ PostWhatsApp(s, outcome)
  \/ PostMessenger(s, outcome) \/ PostSlack(s, outcome) \/ PostTeams(s, outcome)
  \/ PostSignal(s, outcome)

\* Telegram's second try shows the beginning of the response, whichever part it is.
PostPlainly(s, outcome) ==
  /\ Running(s, "plainly")
  /\ outcome = "arrives" => up
  /\ IF outcome = "arrives" THEN Reaches(s, Text(1)) ELSE UNCHANGED shown
  /\ Proceed(s, Tail(todo[s]))
  /\ UNCHANGED <<service, wanted, up, era, eraOf, tokens, tried, unanswered, cut>>

\* Teams: a text refused with 429 is posted once more after a pause.
PostLater(s) ==
  /\ service = "teams" /\ Running(s, "post") /\ Part(s)[1] = "text" /\ up
  /\ Proceed(s, Do("again", Part(s)) \o Tail(todo[s]))
  /\ UNCHANGED <<service, wanted, up, era, eraOf, tokens, tried, shown, unanswered, cut>>
PostAgain(s, outcome) ==
  /\ Running(s, "again")
  /\ outcome = "arrives" => up
  /\ Tried(s)
  /\ IF outcome = "arrives" THEN Reaches(s, Part(s)) ELSE UNCHANGED shown
  /\ Proceed(s, Tail(todo[s]))
  /\ UNCHANGED <<service, wanted, up, era, eraOf, tokens, unanswered, cut>>

-----------------------------------------------------------------------------
(* Teams: the token every send begins with.                                 *)

Expire ==
  /\ token = "valid" /\ expiries < MaxExpiries
  /\ token' = "stale" /\ expiries' = expiries + 1
  /\ UNCHANGED <<service, wanted, state, todo, up, era, eraOf, lock, refreshes, failures,
                 tried, shown, unanswered, cut>>

Current(s) == eraOf[s] = era

\* has_valid_token, before and after the lock.
HasToken(s) ==
  /\ Running(s, "token") /\ Current(s) /\ token = "valid"
  /\ Proceed(s, Tail(todo[s]))
  /\ UNCHANGED <<service, wanted, up, era, eraOf, tokens, tried, shown, unanswered, cut>>

Refreshing(s) == /\ refreshes' = refreshes + 1
                 /\ todo' = [todo EXCEPT ![s] = Do("refresh", Nobody) \o Tail(@)]

\* A change OneRefresh must notice: the lock is not waited for.
AcquireAnyway(s) ==
  /\ Running(s, "token") /\ Current(s) /\ token # "valid"
  /\ lock' = s /\ Refreshing(s)
  /\ UNCHANGED <<service, wanted, state, up, era, eraOf, token, expiries, failures, tried,
                 shown, unanswered, cut>>

Acquire(s) ==
  /\ Running(s, "token") /\ Current(s) /\ lock = Nobody /\ token # "valid"
  /\ lock' = s /\ Refreshing(s)
  /\ UNCHANGED <<service, wanted, state, up, era, eraOf, token, expiries, failures, tried,
                 shown, unanswered, cut>>
Refreshed(s) ==
  /\ Running(s, "refresh") /\ Current(s)
  /\ token' = "valid" /\ lock' = Nobody
  /\ Proceed(s, Tail(todo[s]))
  /\ UNCHANGED <<service, wanted, up, era, eraOf, refreshes, expiries, failures, tried,
                 shown, unanswered, cut>>

\* The error leaves send(), and the response is lost.
RefreshFails(s) ==
  /\ Running(s, "refresh") /\ Current(s)
  /\ lock' = Nobody /\ failures' = failures + 1
  /\ GiveUp(s)
  /\ UNCHANGED <<service, wanted, up, era, eraOf, token, refreshes, expiries, tried, shown,
                 unanswered>>

\* A send that waits for the token of an adapter that was stopped fails with its client.
LoseToken(s) ==
  /\ Running(s, "token") \/ Running(s, "refresh")
  /\ ~Current(s)
  /\ GiveUp(s)
  /\ UNCHANGED <<service, wanted, up, era, eraOf, tokens, tried, shown, unanswered>>

Step(s) ==
  \/ Begin(s)
  \/ \E ok \in BOOLEAN : Find(s, ok) \/ Prepare(s, ok)
  \/ \E outcome \in {"arrives", "fails", "unanswered"} : Post(s, outcome)
  \/ \E outcome \in {"arrives", "fails"} : PostPlainly(s, outcome) \/ PostAgain(s, outcome)
  \/ PostLater(s)
  \/ HasToken(s) \/ Acquire(s) \/ Refreshed(s) \/ RefreshFails(s) \/ LoseToken(s)

Next == (\E s \in Sends : Step(s)) \/ Toggle \/ Expire
Spec == Init /\ [][Next]_vars

-----------------------------------------------------------------------------
TypeOK ==
  /\ service \in Services /\ up \in BOOLEAN /\ era \in 0 .. MaxToggles
  /\ state \in [Sends -> {"idle", "running", "ended"}]
  /\ token \in {"none", "valid", "stale"} /\ lock \in Sends \cup {Nobody}
  /\ cut \subseteq Sends

Times(s, part) == Cardinality({i \in DOMAIN shown : shown[i].send = s /\ shown[i].part = part})
Parts(s) == {Text(i) : i \in 1 .. wanted[s].texts} \cup {File(i) : i \in 1 .. wanted[s].files}

\* No part of a response appears twice, unless Telegram's first try arrived without an
\* answer, and its parts appear in their order, each as itself; only Telegram's second
\* try shows the beginning of the response in place of the part (telegram/adapter.py:156).
PartsOnce ==
  /\ \A s \in Sends : \A part \in Parts(s) :
       Times(s, part) <= (IF service = "telegram" /\ <<s, part>> \in unanswered THEN 2 ELSE 1)
  /\ \A i, j \in DOMAIN shown :
       i < j /\ shown[i].send = shown[j].send =>
         \/ shown[i].part[1] = "file"
         \/ shown[j].part[1] = "text" /\ shown[i].part[2] <= shown[j].part[2]
  /\ \A i \in DOMAIN shown :
       shown[i].as # shown[i].part => service = "telegram" /\ shown[i].as = Text(1)

\* A part that fails takes no later part with it: a send that has ended tried every
\* part, unless it had no client, no chat, no token or, on Signal, a failed call
\* (messenger/adapter.py:183 and signal/adapter.py:115).
EveryPartTried ==
  \A s \in Sends :
    /\ state[s] = "ended" /\ s \notin cut => tried[s] = Parts(s)
    /\ s \in cut => ~up \/ era > 0 \/ service \in {"discord", "teams", "signal"}

\* However many sends want a token at once, one of them fetches it, and it is fetched
\* anew only when it expired, could not be fetched, or the adapter began anew
\* (teams/adapter.py:48).
OneRefresh ==
  /\ Cardinality({s \in Sends : Running(s, "refresh") /\ Current(s)}) <= 1
  /\ refreshes <= 1 + expiries + failures + era

OutboundSound == PartsOnce /\ EveryPartTried /\ OneRefresh
=============================================================================
