------------------------------ MODULE Inbound ------------------------------
(***************************************************************************)
(* What the handlers of the seven chat services do with what a user sends  *)
(* (channels/<service>/handlers.py, with the entry points and downloads of *)
(* adapter.py and media.py).                                               *)
(*                                                                         *)
(* A handler is the sequence of the stages its code goes through; a stage  *)
(* may end it.  Between two stages the event loop runs other tasks only    *)
(* when the first of them suspends.  The messages are one user's, whose    *)
(* account other tasks link, change and unlink at any time.  What a stage  *)
(* awaits is assumed not to raise: in the code a reply that cannot be sent *)
(* ends the handler, and nobody sends it again.  On Messenger a quick      *)
(* reply goes through the stages of a press, and a postback that starts    *)
(* with `!` or is GET_STARTED through those of a command.                  *)
(***************************************************************************)
EXTENDS Integers, Sequences, FiniteSets, Functions

CONSTANTS MaxMsgs,     \* bound: what the user sends, numbered as it arrives
          Accounts,    \* accounts of the gateway
          NoOne,       \* no account
          Idle,        \* no task is between two stages
          MaxChanges   \* bound: changes of the link, and of the keys

VARIABLES
  service, sort,   \* the service, and what each message is
  oneByOne,        \* the library, the read loop or one payload: in order
  order,           \* tasks in the order in which their messages arrived
  todo,            \* task -> stages its handler has still to go through
  holder,          \* the task that goes on without suspending, or Idle
  linked,          \* the account the user is linked to
  keys,            \* Teams: _jwks_available
  changes,         \* changes of linked and keys so far
  account,         \* task -> the account resolve() returned
  since,           \* task -> accounts the user was linked to since the arrival
  got,             \* task -> downloaded and loaded attachments
  deferred,        \* Discord: presses whose response was used
  prompted,        \* task -> it was answered with a pairing code
  rejected,        \* task -> its request was refused
  emitted,         \* events handed to the bus (Telegram, Discord)
  offered          \* events handed to event_bus.publish, which the bus does not have

context == <<service, sort, oneByOne>>
handling == <<account, got, deferred, prompted, rejected>>
vars == <<service, sort, oneByOne, order, todo, holder, linked, keys, changes, account,
          since, got, deferred, prompted, rejected, emitted, offered>>

Msgs == 1 .. MaxMsgs

\* A press on Discord runs two handlers: the client's on_interaction and the callback
\* of the button's view.
Tasks == Msgs \X {1, 2}
Concurrent == {"discord", "teams"}
Serial == {"telegram", "signal"}

-----------------------------------------------------------------------------
(* The handlers, stage by stage.  "wait" is an await without effect here:   *)
(* an acknowledgement, a receipt or a reply.                                *)

TelegramDownload == <<"fetch">>
TelegramMessage == <<"address", "resolve">> \o TelegramDownload \o <<"emit">>
TelegramPress == <<"wait", "resolve", "emit">>

DiscordDownload == <<"fetch">>
DiscordRegular == <<"address", "resolve">> \o DiscordDownload \o <<"emit">>
DiscordMessage == <<"own", "command">> \o DiscordRegular
DiscordPress == <<"resolve", "defer", "emit">>

WhatsAppExtract == <<"locate", "fetch">>
WhatsAppMessage == <<"verify", "command">> \o WhatsAppExtract \o <<"resolve", "publish">>
WhatsAppPress == <<"verify", "identify", "publish">>
WhatsAppReaction == <<"verify", "identify", "publish">>
WhatsAppStatus == <<"verify", "publish">>

MessengerExtract == <<"locate", "fetch">>
MessengerMessage ==
  <<"verify", "own", "command">> \o MessengerExtract \o <<"resolve", "publish">>
MessengerPress == <<"verify", "own", "lookup", "publish">>
MessengerReceipt == <<"verify", "publish">>

SlackMessage == <<"own", "address", "command", "resolve", "publish">>
SlackPress == <<"identify", "publish">>
SlackEnvelope(stages) == IF oneByOne THEN <<"wait">> \o stages ELSE stages

TeamsMessage == <<"verify", "address", "command", "resolve", "publish">>
TeamsInvoke == <<"verify", "identify", "publish">>
TeamsReaction == <<"verify", "identify", "publish">>

SignalMessage == <<"own", "address", "command", "load", "resolve", "publish", "wait">>
SignalReceipt == <<"own", "publish">>

Handler ==
  [telegram  |-> [message |-> TelegramMessage, press |-> TelegramPress],
   discord   |-> [message |-> DiscordMessage, press |-> DiscordPress],
   whatsapp  |-> [message |-> WhatsAppMessage, press |-> WhatsAppPress,
                  reaction |-> WhatsAppReaction, status |-> WhatsAppStatus],
   messenger |-> [message |-> MessengerMessage, press |-> MessengerPress,
                  status |-> MessengerReceipt],
   slack     |-> [message |-> SlackEnvelope(SlackMessage), press |-> SlackEnvelope(SlackPress)],
   teams     |-> [message |-> TeamsMessage, press |-> TeamsInvoke, reaction |-> TeamsReaction],
   signal    |-> [message |-> SignalMessage, status |-> SignalReceipt]]

\* What can arrive at a service: besides texts whatever its handlers have a stage for.
Asks == [text |-> "resolve", file |-> "fetch", command |-> "command", unknown |-> "command",
         own |-> "own", aside |-> "address", unsigned |-> "verify"]
Kind(s) == IF s \in DOMAIN Asks THEN "message" ELSE s
Sorts(svc) ==
  {s \in DOMAIN Asks : Asks[s] \in Range(Handler[svc].message)}
    \cup (DOMAIN Handler[svc] \ {"message"})
    \cup (IF svc = "signal" THEN {"file"} ELSE {})

-----------------------------------------------------------------------------
Init ==
  /\ oneByOne \in BOOLEAN
  /\ service \in DOMAIN Handler
  /\ service \in Concurrent => ~oneByOne
  /\ service \in Serial => oneByOne
  /\ sort \in [Msgs -> Sorts(service)]
  /\ order = <<>>
  /\ todo = [t \in Tasks |-> <<>>]
  /\ holder = Idle
  /\ linked \in Accounts \cup {NoOne}
  /\ keys \in BOOLEAN /\ (service # "teams" => keys)
  /\ changes = 0
  /\ account = [t \in Tasks |-> NoOne] /\ since = [t \in Tasks |-> {}]
  /\ got = [t \in Tasks |-> 0]
  /\ deferred = {} /\ prompted = {} /\ rejected = {}
  /\ emitted = <<>> /\ offered = <<>>

\* A message arrives: its handler is a task, or waits for the ones before it.
Arrive(m) ==
  /\ holder = Idle
  /\ m = 1 + Cardinality({order[i][1] : i \in DOMAIN order})
  /\ LET new == IF service = "discord" /\ sort[m] = "press"
                THEN <<<<m, 1>>, <<m, 2>>>> ELSE <<<<m, 1>>>>
     IN /\ order' = order \o new
        /\ todo' = [t \in Tasks |-> IF t \in Range(new)
                                    THEN Handler[service][Kind(sort[m])] ELSE todo[t]]
        /\ since' = [t \in Tasks |-> IF t \in Range(new) THEN {linked} ELSE since[t]]
  /\ UNCHANGED <<context, holder, linked, keys, changes, handling, emitted, offered>>

\* Another task links the user, to the same or to another account, or unlinks it.
Relink(a) ==
  /\ holder = Idle /\ changes < MaxChanges /\ a # linked
  /\ linked' = a /\ changes' = changes + 1
  /\ since' = [t \in Tasks |-> IF todo[t] = <<>> THEN since[t] ELSE since[t] \cup {a}]
  /\ UNCHANGED <<context, order, todo, holder, keys, handling, emitted, offered>>

\* Teams: the loop that fetches the keys succeeds or fails; without keys every request
\* is refused.
FetchKeys(fetched) ==
  /\ service = "teams" /\ holder = Idle /\ changes < MaxChanges
  /\ keys' = fetched /\ changes' = changes + 1
  /\ UNCHANGED <<context, order, todo, holder, linked, since, handling, emitted, offered>>

-----------------------------------------------------------------------------
At(t, stage) ==
  /\ holder \in {Idle, t}
  /\ todo[t] # <<>> /\ Head(todo[t]) = stage
  /\ oneByOne => \A i, j \in DOMAIN order : i < j /\ order[j] = t => todo[order[i]] = <<>>

Go(t) == /\ todo' = [todo EXCEPT ![t] = Tail(@)]
         /\ holder' = IF Len(todo[t]) = 1 THEN Idle ELSE t
Suspend(t) == todo' = [todo EXCEPT ![t] = Tail(@)] /\ holder' = Idle
End(t) == todo' = [todo EXCEPT ![t] = <<>>] /\ holder' = Idle
Reply(t) == todo' = [todo EXCEPT ![t] = <<"wait">>] /\ holder' = t
PassIf(t, ok) == IF ok THEN Go(t) ELSE End(t)

Still == UNCHANGED <<context, order, linked, keys, changes, since>>
Quiet == UNCHANGED <<emitted, offered>>
Of(t) == sort[t[1]]

\* The signature of a webhook, or the token of a request to Teams, for which the keys
\* must have been fetched.
SignedWhatsApp(t) == Of(t) # "unsigned"
SignedMessenger(t) == Of(t) # "unsigned"
TokenValid(t) == Of(t) # "unsigned" /\ keys

Verify(t) ==
  /\ At(t, "verify")
  /\ LET ok == CASE service = "whatsapp" -> SignedWhatsApp(t)
                 [] service = "messenger" -> SignedMessenger(t)
                 [] service = "teams" -> TokenValid(t)
     IN PassIf(t, ok) /\ rejected' = (IF ok THEN rejected ELSE rejected \cup {t})
  /\ Still /\ Quiet /\ UNCHANGED <<account, got, deferred, prompted>>

\* What the bot sent itself, and what a group says without naming it, is ignored.
Own(t) == /\ At(t, "own") /\ PassIf(t, Of(t) # "own")
          /\ Still /\ Quiet /\ UNCHANGED handling
Address(t) == /\ At(t, "address") /\ PassIf(t, Of(t) # "aside")
              /\ Still /\ Quiet /\ UNCHANGED handling

\* A command is answered; one that is not known is a text for Discord and Signal and
\* nothing for the others.  What commands do to the link is Relink.
Command(t) ==
  /\ At(t, "command")
  /\ \/ Of(t) = "command" /\ Reply(t)
     \/ Of(t) = "unknown" /\ PassIf(t, service \in {"discord", "signal"})
     \/ Of(t) \notin {"command", "unknown"} /\ Go(t)
  /\ Still /\ Quiet /\ UNCHANGED handling

\* A user without an account gets a pairing code, or is told that the session expired.
Resolve(t) ==
  /\ At(t, "resolve")
  /\ account' = [account EXCEPT ![t] = linked]
  /\ IF linked = NoOne THEN Reply(t) /\ prompted' = prompted \cup {t}
     ELSE Go(t) /\ UNCHANGED prompted
  /\ Still /\ Quiet /\ UNCHANGED <<got, deferred, rejected>>

ResolveQuietly(t) ==
  /\ At(t, "identify")
  /\ account' = [account EXCEPT ![t] = linked]
  /\ PassIf(t, linked # NoOne)
  /\ Still /\ Quiet /\ UNCHANGED <<got, deferred, prompted, rejected>>

\* A press on Messenger goes on without an account.
LookUp(t) ==
  /\ At(t, "lookup")
  /\ account' = [account EXCEPT ![t] = linked]
  /\ Go(t)
  /\ Still /\ Quiet /\ UNCHANGED <<got, deferred, prompted, rejected>>

\* The address of a file and then the file are fetched; either may fail, the file may
\* be too large, and the message goes on without it.
Locate(t) ==
  /\ At(t, "locate")
  /\ IF Of(t) # "file" THEN Go(t)
     ELSE \/ Suspend(t)
          \/ todo' = [todo EXCEPT ![t] = SubSeq(@, 3, Len(@))] /\ holder' = Idle
  /\ Still /\ Quiet /\ UNCHANGED handling

Fetch(t) ==
  /\ At(t, "fetch")
  /\ IF Of(t) # "file" THEN Go(t) /\ UNCHANGED got
     ELSE Suspend(t) /\ \E n \in 0 .. 1 : got' = [got EXCEPT ![t] = n]
  /\ Still /\ Quiet /\ UNCHANGED <<account, deferred, prompted, rejected>>

\* Signal: the daemon has written the file, and it is there or not.
Load(t) ==
  /\ At(t, "load")
  /\ Go(t)
  /\ \E n \in 0 .. 1 : (n = 1 => Of(t) = "file") /\ got' = [got EXCEPT ![t] = n]
  /\ Still /\ Quiet /\ UNCHANGED <<account, deferred, prompted, rejected>>

Wait(t) == /\ At(t, "wait") /\ Suspend(t)
           /\ Still /\ Quiet /\ UNCHANGED handling

\* A change HandledOnce must notice: the response can be used again.
DeferAgain(t) ==
  /\ At(t, "defer")
  /\ Suspend(t)
  /\ deferred' = deferred \cup {t[1]}
  /\ Still /\ Quiet /\ UNCHANGED <<account, got, prompted, rejected>>

\* The response of an interaction can be used once; a second use raises.
Defer(t) ==
  /\ At(t, "defer")
  /\ IF t[1] \in deferred THEN End(t) ELSE Suspend(t)
  /\ deferred' = deferred \cup {t[1]}
  /\ Still /\ Quiet /\ UNCHANGED <<account, got, prompted, rejected>>

Event(t) == [task |-> t, account |-> account[t], now |-> linked, files |-> got[t]]

Emit(t) == /\ At(t, "emit") /\ Go(t)
           /\ emitted' = Append(emitted, Event(t))
           /\ Still /\ UNCHANGED <<offered, handling>>

\* EventBus has no publish(): the error is logged and the handler goes on.
Publish(t) == /\ At(t, "publish") /\ Go(t)
              /\ offered' = Append(offered, Event(t))
              /\ Still /\ UNCHANGED <<emitted, handling>>

Handle(t) ==
  \/ Verify(t) \/ Own(t) \/ Address(t) \/ Command(t)
  \/ Resolve(t) \/ ResolveQuietly(t) \/ LookUp(t)
  \/ Locate(t) \/ Fetch(t) \/ Load(t) \/ Wait(t) \/ Defer(t)
  \/ Emit(t) \/ Publish(t)

Next ==
  \/ \E m \in Msgs : Arrive(m)
  \/ \E a \in Accounts \cup {NoOne} : Relink(a)
  \/ \E fetched \in BOOLEAN : FetchKeys(fetched)
  \/ \E t \in Tasks : Handle(t)

Spec == Init /\ [][Next]_vars

-----------------------------------------------------------------------------
Events == emitted \o offered
EventsOf(t) == {i \in DOMAIN Events : Events[i].task = t}
EventsOfMsg(m) == {i \in DOMAIN Events : Events[i].task[1] = m}
Handled(t) == t \in Range(order) /\ todo[t] = <<>>

TypeOK ==
  /\ holder \in Tasks \cup {Idle} /\ linked \in Accounts \cup {NoOne}
  /\ account \in [Tasks -> Accounts \cup {NoOne}] /\ since \in [Tasks -> SUBSET (Accounts \cup {NoOne})]
  /\ got \in [Tasks -> 0 .. 1] /\ deferred \subseteq Msgs
  /\ prompted \subseteq Tasks /\ rejected \subseteq Tasks

\* Whatever a user sends becomes at most one event, and a text or file that is handled
\* has become an event, got a pairing code or was refused: none is swallowed, although
\* a press runs two handlers and the account may go while a file is fetched
\* (discord/handlers.py:310, telegram/handlers.py:238, teams/adapter.py:98).
HandledOnce ==
  /\ \A m \in Msgs : Cardinality(EventsOfMsg(m)) <= 1
  /\ \A t \in Tasks : Handled(t) /\ Of(t) \in {"text", "file"} =>
       Cardinality(EventsOf(t)) + Cardinality({t} \cap prompted)
         + Cardinality({t} \cap rejected) = 1

\* Nothing that is not meant for the agent becomes an event: the bot's own messages,
\* what a group says among itself, commands, and requests that do not verify.
OnlyDue == \A i \in DOMAIN Events :
  LET t == Events[i].task
  IN /\ Of(t) \notin {"own", "aside", "command", "unsigned"}
     /\ t \notin prompted \cup rejected

\* An event names an account the user has had since the message arrived; where the
\* account is looked up last, the one the user has at that moment.
RightAccount == \A i \in DOMAIN Events :
  LET e == Events[i]
  IN Of(e.task) # "status" =>
       /\ e.account \in since[e.task]
       /\ service \notin {"telegram", "discord"} => e.account = e.now
       /\ e.account = NoOne => service = "messenger" /\ Of(e.task) = "press"

\* Where messages are handled one by one, their events keep the order of arrival.
InOrder ==
  oneByOne => \A i, j \in DOMAIN Events : i < j =>
    \E p, q \in DOMAIN order : p < q /\ order[p] = Events[i].task /\ order[q] = Events[j].task

InboundSound == HandledOnce /\ OnlyDue /\ RightAccount /\ InOrder
=============================================================================
