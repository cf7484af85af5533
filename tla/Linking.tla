------------------------------ MODULE Linking ------------------------------
(***************************************************************************)
(* Links between chat identities and accounts: UserLinkingService of       *)
(* channels/linking.py, the commands by which the seven chat handlers use  *)
(* it, and ChannelManager of channels/manager.py, which looks a user's     *)
(* identities up to deliver.                                               *)
(*                                                                         *)
(* No operation of the service suspends.  A broadcast does, at every send, *)
(* and it walks over the very list that links extend meanwhile.            *)
(***************************************************************************)
EXTENDS Integers, Sequences, FiniteSets

CONSTANTS
  Users,      \* accounts
  Keys,       \* chat identities: a channel and a user id of it
  Layouts,    \* which chat service each may be an identity of
  Codes,      \* pairing codes that may be drawn
  TTL,        \* PAIRING_CODE_TTL_SECONDS, in ticks
  None

Services == {"telegram", "discord", "messenger", "whatsapp", "slack", "teams", "signal"}

VARIABLES
  channel,      \* the chat service of each identity; chosen at the start
  links,        \* _links: the account of each identity, or None
  channels,     \* _user_channels: each user's identities, in order
  pairings,     \* _pending_pairings: of each code the identity and the age, or None
  adapters,     \* _adapters: the channels registered
  at,           \* the broadcast: "idle", "walking" or "over"
  user,         \* whom it is for
  list,         \* the list it walks: None while it is the one in channels
  index,        \* how far it is
  owed          \* history: identities linked to the user when it began, not yet visited

service == <<links, channels, pairings>>
broadcast == <<at, user, list, index, owed>>
vars == <<channel, service, adapters, broadcast>>

Init ==
  /\ links = [k \in Keys |-> None]
  /\ channels = [u \in Users |-> <<>>]
  /\ pairings = [c \in Codes |-> None]
  /\ channel \in Layouts
  /\ adapters = {channel[k] : k \in Keys}
  /\ at = "idle" /\ user = None /\ list = None /\ index = 1 /\ owed = {}

-----------------------------------------------------------------------------
(* UserLinkingService.                                                     *)
Listed(k, u) == \E i \in DOMAIN channels[u] : channels[u][i] = k

\* link(): the newest identity goes first.  A former user's list is not touched.
Link(k, u) ==
  /\ links' = [links EXCEPT ![k] = u]
  /\ channels' = IF Listed(k, u) THEN channels ELSE [channels EXCEPT ![u] = <<k>> \o @]

\* The identities of u without k, which is there once (ListsComplete).
Without(k, u) ==
  IF Listed(k, u)
  THEN LET i == CHOOSE i \in DOMAIN channels[u] : channels[u][i] = k
       IN [j \in 1 .. Len(channels[u]) - 1 |-> channels[u][IF j < i THEN j ELSE j + 1]]
  ELSE channels[u]

\* Slip: the list is changed in place.
UnlinkInPlace(k) ==
  LET u == links[k]
  IN /\ u # None
     /\ links' = [links EXCEPT ![k] = None]
     /\ channels' = [channels EXCEPT ![u] = Without(k, u)]
     /\ UNCHANGED list

\* unlink() makes a new list; a walk over the old one goes on over the old one.
Unlink(k) ==
  LET u == links[k]
  IN /\ u # None
     /\ links' = [links EXCEPT ![k] = None]
     /\ channels' = [channels EXCEPT ![u] = Without(k, u)]
     /\ list' = IF at = "walking" /\ user = u /\ list = None THEN channels[u] ELSE list

Expired(c) == pairings[c].age > TTL

\* create_pairing_code() drops the expired ones first.
CreateCode(k) ==
  \E c \in Codes :
    /\ pairings[c] = None
    /\ pairings' = [d \in Codes |-> IF d = c THEN [key |-> k, age |-> 0]
                                    ELSE IF pairings[d] # None /\ Expired(d) THEN None
                                    ELSE pairings[d]]

\* complete_pairing() takes the code, expired or not.
Complete(c, u) ==
  /\ pairings[c] # None
  /\ pairings' = [pairings EXCEPT ![c] = None]
  /\ IF Expired(c) THEN UNCHANGED <<links, channels>> ELSE Link(pairings[c].key, u)
  /\ UNCHANGED <<channel, adapters, broadcast>>

Tick ==
  /\ \E c \in Codes : pairings[c] # None /\ ~Expired(c)
  /\ pairings' = [c \in Codes |-> IF pairings[c] = None \/ Expired(c) THEN pairings[c]
                                  ELSE [pairings[c] EXCEPT !.age = @ + 1]]
  /\ UNCHANGED <<channel, links, channels, adapters, broadcast>>

-----------------------------------------------------------------------------
(* The commands of the handlers.  A reply follows; it changes nothing      *)
(* here.  A message or a button of a linked identity becomes an event.     *)
Prompt(k) == CreateCode(k) /\ UNCHANGED <<channel, links, channels, adapters, broadcast>>

\* start, and a message before the identity is linked.
PromptUnlinked(k) == links[k] = None /\ Prompt(k)

Leave(k) == Unlink(k) /\ UNCHANGED <<channel, pairings, adapters, at, user, index, owed>>

\* Telegram and Discord refuse an identity already linked.  For another they
\* create a code and complete it at once: what stays of that is the purge.
LinkOnce(k, u) ==
  /\ links[k] = None
  /\ Link(k, u)
  /\ pairings' = [c \in Codes |-> IF pairings[c] # None /\ Expired(c) THEN None ELSE pairings[c]]
  /\ UNCHANGED <<channel, adapters, broadcast>>

\* The others link whatever the identity was linked to.
LinkAnew(k, u) == Link(k, u) /\ UNCHANGED <<channel, pairings, adapters, broadcast>>

Telegram(k, u) == channel[k] = "telegram" /\ (PromptUnlinked(k) \/ LinkOnce(k, u) \/ Leave(k))
Discord(k, u) == channel[k] = "discord" /\ (PromptUnlinked(k) \/ LinkOnce(k, u) \/ Leave(k))
\* Here link without an account asks for a code, linked or not.
Messenger(k, u) == channel[k] = "messenger" /\ (Prompt(k) \/ LinkAnew(k, u) \/ Leave(k))
WhatsApp(k, u) == channel[k] = "whatsapp" /\ (Prompt(k) \/ LinkAnew(k, u) \/ Leave(k))
Slack(k, u) == channel[k] = "slack" /\ (Prompt(k) \/ LinkAnew(k, u) \/ Leave(k))
SlackSlash(k, u) == channel[k] = "slack" /\ (Prompt(k) \/ LinkAnew(k, u) \/ Leave(k))
Teams(k, u) == channel[k] = "teams" /\ (Prompt(k) \/ LinkAnew(k, u) \/ Leave(k))
SignalChat(k, u) == channel[k] = "signal" /\ (Prompt(k) \/ LinkAnew(k, u) \/ Leave(k))

-----------------------------------------------------------------------------
(* ChannelManager.                                                         *)
Register(c) == c \notin adapters /\ adapters' = adapters \cup {c} /\ UNCHANGED <<channel, service, broadcast>>
Unregister(c) == c \in adapters /\ adapters' = adapters \ {c} /\ UNCHANGED <<channel, service, broadcast>>

\* deliver() sends to the first identity listed whose adapter is registered.
Deliverable(u) == {k \in Keys : Listed(k, u) /\ channel[k] \in adapters}
Target(u) ==
  IF Deliverable(u) = {} THEN None
  ELSE LET first(i) == /\ channels[u][i] \in Deliverable(u)
                       /\ \A j \in 1 .. i - 1 : channels[u][j] \notin Deliverable(u)
       IN channels[u][CHOOSE i \in DOMAIN channels[u] : first(i)]

\* broadcast() takes the list itself, not a copy, and visits the first at once.
Begin(u) ==
  /\ at = "idle" /\ channels[u] # <<>>
  /\ at' = "walking" /\ user' = u /\ index' = 2 /\ list' = None
  /\ owed' = {k \in Keys : links[k] = u} \ {channels[u][1]}
  /\ UNCHANGED <<channel, service, adapters>>

Walked == IF list = None THEN channels[user] ELSE list

\* A send suspends; one that fails, or has no adapter, is passed over.
Visit ==
  /\ at = "walking" /\ index <= Len(Walked)
  /\ owed' = owed \ {Walked[index]}
  /\ index' = index + 1
  /\ UNCHANGED <<channel, service, adapters, at, user, list>>

Over ==
  /\ at = "walking" /\ index > Len(Walked)
  /\ at' = "over" /\ list' = None
  /\ UNCHANGED <<channel, service, adapters, user, index, owed>>

Next ==
  \/ \E k \in Keys, u \in Users :
       \/ Telegram(k, u) \/ Discord(k, u) \/ Messenger(k, u) \/ WhatsApp(k, u)
       \/ Slack(k, u) \/ SlackSlash(k, u) \/ Teams(k, u) \/ SignalChat(k, u)
  \/ \E c \in Codes, u \in Users : Complete(c, u)
  \/ \E c \in Services : Unregister(c) \/ (c \in {channel[k] : k \in Keys} /\ Register(c))
  \/ \E u \in Users : Begin(u)
  \/ Tick \/ Visit \/ Over

Spec == Init /\ [][Next]_vars

-----------------------------------------------------------------------------
TypeOK ==
  /\ channel \in Layouts
  /\ links \in [Keys -> Users \cup {None}]
  /\ \A u \in Users : channels[u] \in Seq(Keys)
  /\ \A c \in Codes : pairings[c] = None \/ pairings[c] \in [key : Keys, age : 0 .. TTL + 1]
  /\ adapters \subseteq Services
  /\ at \in {"idle", "walking", "over"} /\ index \in Nat \ {0} /\ owed \subseteq Keys

\* An identity linked to a user is in that user's list, and no list has one twice.
ListsComplete ==
  \A u \in Users :
    /\ \A k \in Keys : links[k] = u => Listed(k, u)
    /\ \A i, j \in DOMAIN channels[u] : channels[u][i] = channels[u][j] => i = j

\* A message to a user with a linked identity on a registered channel has one
\* to go to.
DeliveryFound ==
  \A u \in Users :
    (\E k \in Keys : links[k] = u /\ channel[k] \in adapters) => Target(u) # None

\* A broadcast that is over has visited every identity linked to the user when
\* it began, whatever was linked and unlinked while it sent.
BroadcastReaches == at = "over" => owed = {}

\* Whoever is linked can be reached, by one message and by a broadcast under
\* way while links change (linking.py:88, manager.py:122).
EveryoneReached == ListsComplete /\ DeliveryFound /\ BroadcastReaches

=============================================================================
