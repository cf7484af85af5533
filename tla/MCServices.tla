----------------------------- MODULE MCServices -----------------------------
(***************************************************************************)
(* Components that meet only through calls that take no time, each on an   *)
(* instance of its own: a behaviour is one of any of them, and part says   *)
(* of which.                                                               *)
(*                                                                         *)
(* Router: two providers, three sends and two streams of one conversation. *)
(* Linking: two users, and two identities of each pair of chat services.   *)
(* Skills: two sources of one id, one with a name of its own, and two with *)
(* the names of others.  Remote: one session, two connects and disconnects.*)
(* Personas: a user with two rows at most, two edits and a message.        *)
(***************************************************************************)
EXTENDS Router, TLC

CONSTANTS p, q, s1, s2, s3, one, two, chat,
          Switches,
          k1, k2, Users, Keys, Layouts, Codes, TTL,
          Sources, IdOf, NameOf, Rejected, Builtins, Builtin, old, new, same, shell,
          Connects, Disconnects, Commands, MaxSessions,
          Accounts, Ids, Presets, Professional, Names, Edits, Chats, UserOf

\* A call of the SSH tools is of one tool and one action.
ASSUME RemoteConstants ==
  /\ Connects \cap Disconnects = {}
  /\ Commands \cap (Connects \cup Disconnects) = {}
  /\ None \notin Connects

\* A source has a tool of its own, other than those built in.
ASSUME SkillConstants == Builtin \notin Sources /\ None \notin Sources /\ Builtin # None

\* No account, identity or list of identities is missing.
ASSUME LinkConstants == None \notin Users /\ None \notin Keys /\ None \notin Seq(Keys)

\* Edits are no chats; the ids of rows are neither presets nor missing.
ASSUME PersonaConstants ==
  /\ Edits \cap Chats = {} /\ UserOf \in [Chats -> Accounts]
  /\ None \notin Ids \cup Presets /\ Ids \cap Presets = {} /\ Professional \in Presets

VARIABLES part,
          settings, stage, next, up, managed, callbacks,
          channel, links, channels, pairings, adapters, walk, user, list, index, owed,
          installed, enabled, bridges, tools,
          step, target, pool, alive, count,
          rows, made, default, place, wish, found, used, broken, seen

server == <<settings, stage, next, up, managed, callbacks>>
linking == <<channel, links, channels, pairings, adapters, walk, user, list, index, owed>>
skills == <<installed, enabled, bridges, tools>>
remote == <<step, target, pool, alive, count>>
personas == <<rows, made, default, place, wish, found, used, broken, seen>>

V == INSTANCE Server WITH enabled <- settings, at <- stage, adapters <- managed
L == INSTANCE Linking WITH at <- walk
K == INSTANCE Skills WITH registry <- tools, Nothing <- None
R == INSTANCE Remote WITH Nothing <- None
P == INSTANCE Personas WITH
       at <- place, plan <- wish, Users <- Accounts, Nothing <- None

MCConversation == [s \in Streams |-> chat]
MCPreferred == {<<q>>}
MCFallbackChain == <<p, q>>
MCLayouts == {k1 :> "telegram" @@ k2 :> "slack", k1 :> "discord" @@ k2 :> "signal",
              k1 :> "messenger" @@ k2 :> "whatsapp", k1 :> "teams" @@ k2 :> "teams"}
MCIdOf == old :> "id" @@ new :> "id" @@ same :> "other" @@ shell :> "third"
MCUserOf == [c \in Chats |-> CHOOSE u \in Accounts : TRUE]
MCNameOf == old :> "name" @@ new :> "renamed" @@ same :> "name" @@ shell :> "shell"

\* The sends are alike; so are the streams, the users and the connects, whose
\* values are the same.
Alike == Permutations(Requests \ Streams) \cup Permutations(Streams)

SuiteInit ==
  /\ part \in {"router", "server", "linking", "skills", "remote", "personas"}
  /\ Init /\ V!Init /\ L!Init /\ K!Init /\ R!Init /\ P!Init
  /\ part # "linking" => channel = k1 :> "teams" @@ k2 :> "teams"
  /\ part # "server" => settings = {}
  /\ part # "personas" => rows = <<>> /\ \A u \in Accounts : default[u] = {}

Routing == part = "router" /\ Next /\ UNCHANGED <<part, server, linking, skills, remote, personas>>
Serving == part = "server" /\ V!Next /\ UNCHANGED <<part, vars, linking, skills, remote, personas>>
Linked == part = "linking" /\ L!Next /\ UNCHANGED <<part, vars, server, skills, remote, personas>>
Skill == part = "skills" /\ K!Next /\ UNCHANGED <<part, vars, server, linking, remote, personas>>
Session == part = "remote" /\ R!Next /\ UNCHANGED <<part, vars, server, linking, skills, personas>>
Persona == part = "personas" /\ P!Next /\ UNCHANGED <<part, vars, server, linking, skills, remote>>

SuiteSpec ==
  SuiteInit
  /\ [][Routing \/ Serving \/ Linked \/ Skill \/ Session \/ Persona]_
       <<part, vars, server, linking, skills, remote, personas>>

\* Requests to the models are routed soundly, and answer as the persona chosen:
\* RoutingSound of Router and PersonasSound of Personas.
ChatsSound == RoutingSound /\ P!PersonasSound
BuiltAndStoppedInOrder == V!BuiltAndStoppedInOrder
InitializesAll == V!InitializesAll
EveryoneReached == L!EveryoneReached
OneToolPerSkill == K!OneToolPerSkill
PoolCounted == R!PoolCounted
=============================================================================
