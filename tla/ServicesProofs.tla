--------------------------- MODULE ServicesProofs ---------------------------
(***************************************************************************)
(* Theorems about the components that MCServices brings together: the SSH  *)
(* pool (R), the skills (K), startup and shutdown (V), the links of the    *)
(* channels (L), the router with its breakers and streams (the module      *)
(* itself), the personas (P); and about the suite. They hold for any       *)
(* number of calls, sources, channels, providers and edits, and any        *)
(* thresholds.                                                             *)
(***************************************************************************)
EXTENDS MCServices, FiniteSetTheorems, NaturalsInduction, WellFoundedInduction, TLAPS

(* An instance has its own copy of what the standard modules define.       *)
LEMMA CardinalityOfR == \A S : R!Cardinality(S) = Cardinality(S)
BY Zenon DEF R!Cardinality, Cardinality

-----------------------------------------------------------------------------
(* The SSH pool.                                                           *)
Steps == {"new", "asked", "working", "ok", "failed", "cancelled"}
Closers(k) == {d \in Disconnects : target[d] = k /\ step[d] = "ok"}

(* A connection is named by others only once it was made, stays made, and  *)
(* one disconnect takes it out of the pool.                                *)
PoolInv ==
  /\ step \in [R!Calls -> Steps]
  /\ target \in [R!Calls -> Connects \cup {None}]
  /\ \A c \in R!Calls : target[c] \in Connects => step[target[c]] = "ok"
  /\ pool \subseteq R!Made /\ IsFiniteSet(pool) /\ count = Cardinality(pool)
  /\ \A k \in R!Made : IF k \in pool THEN Closers(k) = {} ELSE \E d : Closers(k) = {d}

LEMMA PoolQuiet ==
  ASSUME PoolInv, UNCHANGED <<pool, count>>, NEW c \in R!Calls, NEW s \in Steps, R!Goes(c, s),
         step[c] # "ok", s # "ok" \/ c \in Commands,
         \/ target' = target
         \/ step[c] = "new" /\ \E k \in R!Made : target' = [target EXCEPT ![c] = k]
  PROVE  PoolInv'
<1>1. /\ step' = [step EXCEPT ![c] = s] /\ step' \in [R!Calls -> Steps]
      /\ target' \in [R!Calls -> Connects \cup {None}]
  BY DEF PoolInv, R!Goes, R!Made
<1>2. R!Made' = R!Made
  BY <1>1, RemoteConstants DEF PoolInv, R!Made, R!Calls
<1>3. \A k \in R!Made : Closers(k)' = Closers(k)
  BY <1>1, RemoteConstants DEF PoolInv, Closers, R!Made, R!Calls
<1>4. ASSUME NEW d \in R!Calls, target'[d] \in Connects PROVE step'[target'[d]] = "ok"
  BY <1>1, <1>4 DEF PoolInv, R!Made, R!Calls
<1> QED
  BY <1>1, <1>2, <1>3, <1>4 DEF PoolInv

LEMMA PoolGrows ==
  ASSUME PoolInv, NEW c \in Connects, step[c] = "working", R!Goes(c, "ok"), target' = target,
         pool' = pool \cup {c}, count' = count + 1
  PROVE  PoolInv'
<1>1. step' = [step EXCEPT ![c] = "ok"] /\ step' \in [R!Calls -> Steps] /\ c \in R!Calls
  BY DEF PoolInv, R!Goes, R!Calls, Steps
<1>2. R!Made' = R!Made \cup {c} /\ c \notin R!Made
  BY <1>1 DEF R!Made, R!Calls, PoolInv
<1>3. \A k \in Connects : Closers(k)' = Closers(k)
  BY <1>1, RemoteConstants DEF PoolInv, Closers, R!Calls
<1>4. Closers(c) = {}
  BY RemoteConstants DEF PoolInv, Closers, R!Calls
<1>5. c \notin pool
  BY <1>2 DEF PoolInv
<1>6. IsFiniteSet(pool') /\ count' = Cardinality(pool')
  BY <1>5, FS_AddElement DEF PoolInv
<1>7. pool' \subseteq R!Made'
  BY <1>2 DEF PoolInv
<1>8. ASSUME NEW k \in R!Made' PROVE (IF k \in pool THEN Closers(k) = {} ELSE \E d : Closers(k) = {d})'
  <2>1. k \in Connects
    BY <1>2 DEF R!Made
  <2>2. Closers(k)' = Closers(k)
    BY <1>3, <2>1
  <2> QED
    BY <1>2, <1>4, <1>8, <2>2 DEF PoolInv
<1>9. ASSUME NEW d \in R!Calls, target'[d] \in Connects PROVE step'[target'[d]] = "ok"
  BY <1>1, <1>9 DEF PoolInv, R!Calls
<1> QED
  BY <1>1, <1>6, <1>7, <1>8, <1>9 DEF PoolInv

LEMMA PoolShrinks ==
  ASSUME PoolInv, NEW c \in Disconnects, step[c] = "working", R!Goes(c, "ok"), target' = target,
         target[c] \in pool, pool' = pool \ {target[c]}, count' = R!Decremented
  PROVE  PoolInv'
<1> DEFINE n == target[c]
<1>1. step' = [step EXCEPT ![c] = "ok"] /\ step' \in [R!Calls -> Steps] /\ c \in R!Calls
  BY DEF PoolInv, R!Goes, R!Calls, Steps
<1>2. R!Made' = R!Made /\ n \in R!Made
  BY <1>1, RemoteConstants DEF R!Made, R!Calls, PoolInv
<1>3. Closers(n) = {} /\ Closers(n)' = {c}
  BY <1>1, <1>2, RemoteConstants DEF PoolInv, Closers, R!Calls
<1>4. \A k \in R!Made \ {n} : Closers(k)' = Closers(k)
  BY <1>1, RemoteConstants DEF PoolInv, Closers, R!Calls, R!Made
<1>5. IsFiniteSet(pool') /\ count' = Cardinality(pool')
  <2>1. /\ IsFiniteSet(pool \ {n}) /\ Cardinality(pool \ {n}) = Cardinality(pool) - 1
        /\ Cardinality(pool) \in Nat /\ Cardinality(pool \ {n}) \in Nat
    BY FS_RemoveElement, FS_CardinalityType DEF PoolInv
  <2>2. R!Decremented = count - 1
    BY <2>1 DEF PoolInv, R!Decremented
  <2> QED
    BY <2>1, <2>2 DEF PoolInv
<1>6. \A k \in R!Made' : (IF k \in pool THEN Closers(k) = {} ELSE \E d : Closers(k) = {d})'
  BY <1>2, <1>3, <1>4 DEF PoolInv
<1>7. ASSUME NEW d \in R!Calls, target'[d] \in Connects PROVE step'[target'[d]] = "ok"
  BY <1>1, <1>7 DEF PoolInv, R!Calls
<1> QED
  BY <1>1, <1>2, <1>5, <1>6, <1>7 DEF PoolInv

LEMMA PoolKept == PoolInv /\ [R!Next]_(R!vars) => PoolInv'
<1> SUFFICES ASSUME PoolInv, [R!Next]_(R!vars) PROVE PoolInv'
  OBVIOUS
<1> USE DEF Steps
<1>1. ASSUME NEW c \in R!Calls, R!Validate(c) PROVE PoolInv'
  BY <1>1, PoolQuiet DEF R!Validate
<1>2. ASSUME NEW c \in R!Calls, R!Refuse(c) \/ R!Deny(c) \/ R!Cancel(c) PROVE PoolInv'
  BY <1>2, PoolQuiet DEF R!Refuse, R!Deny, R!Cancel
<1>3. ASSUME NEW c \in R!Calls, R!Execute(c) PROVE PoolInv'
  BY <1>3, PoolQuiet DEF R!Execute
<1>4. ASSUME NEW c \in R!Calls, R!Connected(c) PROVE PoolInv'
  BY <1>4, PoolQuiet, PoolGrows DEF R!Connected
<1>5. ASSUME NEW c \in R!Calls, R!Disconnected(c) PROVE PoolInv'
  BY <1>5, PoolQuiet, PoolShrinks DEF R!Disconnected
<1>6. ASSUME NEW c \in R!Calls, R!Done(c) PROVE PoolInv'
  BY <1>6, PoolQuiet DEF R!Done
<1>7. CASE (\E k \in Connects : R!Drop(k)) \/ UNCHANGED R!vars
  <2>1. UNCHANGED <<step, target, pool, count>>
    BY <1>7 DEF R!Drop, R!vars
  <2>2. R!Made' = R!Made /\ \A k : Closers(k)' = Closers(k)
    BY <2>1 DEF R!Made, Closers
  <2> QED
    BY <2>1, <2>2 DEF PoolInv
<1> QED
  BY <1>1, <1>2, <1>3, <1>4, <1>5, <1>6, <1>7 DEF R!Next

(* The guard counts the connections of the pool, and each is closed by one *)
(* disconnect at most, whatever calls disconnect it at once, and whichever *)
(* of them are cancelled between closing it and removing it.               *)
THEOREM PoolAlwaysCounted == R!Spec => []PoolCounted
<1>1. R!Init => PoolInv
  BY RemoteConstants, FS_EmptySet DEF R!Init, PoolInv, R!Made, R!Calls, Steps
<1>2. PoolInv => PoolCounted
  <2> SUFFICES ASSUME PoolInv PROVE PoolCounted
    OBVIOUS
  <2>1. \A k \in R!Made : Cardinality(Closers(k)) = IF k \in pool THEN 0 ELSE 1
    BY FS_EmptySet, FS_Singleton DEF PoolInv
  <2>2. count = Cardinality(pool)
    BY DEF PoolInv
  <2> QED
    BY <2>1, <2>2, CardinalityOfR, Zenon DEF PoolCounted, R!PoolCounted, Closers
<1> QED
  BY <1>1, <1>2, PoolKept, PTL DEF R!Spec

-----------------------------------------------------------------------------
(* Skills and their tools.                                                 *)
(* What install() makes of a registry in which skills and tools correspond.*)
Corresponds(present, named) ==
  /\ present \subseteq Sources /\ named \in [K!ToolNames -> Sources \cup {Builtin, None}]
  /\ \A s \in Sources : s \in present <=> named[NameOf[s]] = s
  /\ \A s, t \in present : IdOf[s] = IdOf[t] => s = t
  /\ \A n \in K!ToolNames : named[n] = Builtin <=> n \in Builtins

LEMMA InstallCorresponds ==
  ASSUME NEW s \in Sources, NEW present, NEW named, Corresponds(present, named)
  PROVE  LET after == K!Installed(s, present, named) IN
         /\ Corresponds(after.installed, after.registry)
         /\ after.installed = IF after.ok THEN present \cup {s} ELSE present
         /\ after.ok => IdOf[s] \notin K!InstalledIds(present)
<1>1. CASE K!Refused(s, present) \/ ~K!Registers(s, named)
  <2>1. ~K!Refused(s, present) => s \notin present
    BY DEF K!Refused, K!InstalledIds
  <2>2. ~K!Refused(s, present) => K!Stored(s, present) \ {s} = present
    BY <2>1 DEF K!Stored
  <2> QED
    BY <1>1, <2>2 DEF K!Installed
<1>2. CASE ~(K!Refused(s, present) \/ ~K!Registers(s, named))
  <2> DEFINE after == [named EXCEPT ![NameOf[s]] = s]
  <2>1. K!Installed(s, present, named) = [ok |-> TRUE, installed |-> present \cup {s}, registry |-> after]
    BY <1>2 DEF K!Installed, K!Stored
  <2>2. /\ named[NameOf[s]] = None /\ NameOf[s] \in K!ToolNames
        /\ \A t \in present : IdOf[t] # IdOf[s]
    BY <1>2 DEF K!Refused, K!Registers, K!InstalledIds, K!ToolNames
  <2>3. after \in [K!ToolNames -> Sources \cup {Builtin, None}]
    BY <2>2 DEF Corresponds
  <2>4. \A t \in Sources : NameOf[t] \in K!ToolNames
    BY DEF K!ToolNames
  <2>5. \A t \in Sources : t \in present \cup {s} <=> after[NameOf[t]] = t
    BY <2>2, <2>4, SkillConstants DEF Corresponds
  <2>6. \A n \in K!ToolNames : after[n] = Builtin <=> n \in Builtins
    BY <2>2, SkillConstants DEF Corresponds
  <2> HIDE DEF after
  <2>7. Corresponds(present \cup {s}, after)
    BY <2>2, <2>3, <2>5, <2>6 DEF Corresponds
  <2> QED
    BY <1>2, <2>1, <2>7 DEF K!Refused
<1> QED
  BY <1>1, <1>2

LEMMA UninstallCorresponds ==
  ASSUME NEW s \in installed, Corresponds(installed, tools)
  PROVE  Corresponds(installed \ {s}, K!Unregistered(s, tools))
<1> DEFINE after == [tools EXCEPT ![NameOf[s]] = None]
<1>1. s \in Sources /\ tools[NameOf[s]] = s /\ \A t \in Sources : NameOf[t] \in K!ToolNames
  BY DEF Corresponds, K!ToolNames
<1>2. \A t \in Sources : t \in installed \ {s} <=> after[NameOf[t]] = t
  BY <1>1, SkillConstants DEF Corresponds
<1>3. \A n \in K!ToolNames : after[n] = Builtin <=> n \in Builtins
  BY <1>1, SkillConstants DEF Corresponds
<1> QED
  BY <1>1, <1>2, <1>3 DEF Corresponds, K!Unregistered

SkillInv ==
  /\ Corresponds(installed, tools)
  /\ bridges = installed
  /\ enabled \subseteq K!InstalledIds(installed)

LEMMA SkillsKept == SkillInv /\ [K!Next]_(K!vars) => SkillInv'
<1> SUFFICES ASSUME SkillInv, [K!Next]_(K!vars) PROVE SkillInv'
  OBVIOUS
<1>1. ASSUME NEW s \in Sources, K!Install(s) PROVE SkillInv'
  <2> DEFINE after == K!Installed(s, installed, tools)
  <2>1. /\ Corresponds(after.installed, after.registry)
        /\ after.installed = IF after.ok THEN installed \cup {s} ELSE installed
    BY InstallCorresponds DEF SkillInv
  <2>2. /\ installed' = after.installed /\ tools' = after.registry
        /\ bridges' = IF after.ok THEN bridges \cup {s} ELSE bridges
        /\ enabled' \subseteq enabled
    BY <1>1 DEF K!Install
  <2> HIDE DEF after
  <2> QED
    BY <2>1, <2>2 DEF SkillInv, K!InstalledIds
<1>2. ASSUME NEW s \in Sources, K!Uninstall(s) PROVE SkillInv'
  <2>1. Corresponds(installed', tools')
    BY <1>2, UninstallCorresponds DEF SkillInv, K!Uninstall
  <2> QED
    BY <1>2, <2>1 DEF SkillInv, K!Uninstall, K!InstalledIds
<1>3. ASSUME NEW s \in Sources, K!Enable(s) \/ K!Disable(s) PROVE SkillInv'
  BY <1>3 DEF SkillInv, K!Enable, K!Disable, K!InstalledIds
<1>4. ASSUME NEW s \in Sources, NEW t \in Sources, K!Upgrade(s, t) PROVE SkillInv'
  <2> DEFINE left == installed \ {s}  after == K!Installed(t, left, K!Unregistered(s, tools))
  <2>1. s \in installed
    BY <1>4 DEF K!Upgrade
  <2>2. Corresponds(left, K!Unregistered(s, tools))
    BY <2>1, UninstallCorresponds DEF SkillInv
  <2>3. /\ Corresponds(after.installed, after.registry)
        /\ after.installed = IF after.ok THEN left \cup {t} ELSE left
    BY <2>2, InstallCorresponds
  <2>4. /\ installed' = after.installed /\ tools' = after.registry
        /\ bridges' = (bridges \ {s}) \cup (IF after.ok THEN {t} ELSE {})
        /\ enabled' = IF after.ok /\ IdOf[s] \in enabled
                      THEN (enabled \ {IdOf[s]}) \cup {IdOf[t]} ELSE enabled \ {IdOf[s]}
    BY <1>4 DEF K!Upgrade
  <2> HIDE DEF after
  <2> QED
    BY <2>1, <2>3, <2>4 DEF SkillInv, K!InstalledIds
<1>5. CASE UNCHANGED K!vars
  BY <1>5 DEF SkillInv, Corresponds, K!vars, K!InstalledIds
<1> QED
  BY <1>1, <1>2, <1>3, <1>4, <1>5 DEF K!Next

(* After any installs, upgrades, roll-backs and removals, every installed  *)
(* skill and no other is the tool of its name, and built-in tools stay.    *)
THEOREM SkillsAreTools == K!Spec => []OneToolPerSkill
<1>1. K!Init => SkillInv
  <2> SUFFICES ASSUME K!Init PROVE SkillInv
    OBVIOUS
  <2>1. \A s \in Sources : NameOf[s] \in K!ToolNames
    BY DEF K!ToolNames
  <2> QED
    BY <2>1, SkillConstants DEF K!Init, SkillInv, Corresponds, K!InstalledIds
<1>2. SkillInv => OneToolPerSkill
  BY DEF SkillInv, Corresponds, OneToolPerSkill, K!OneToolPerSkill
<1> QED
  BY <1>1, <1>2, SkillsKept, PTL DEF K!Spec

-----------------------------------------------------------------------------
(* The sections of the server.                                             *)
Basic == {"bus", "providers", "security", "tools", "skills", "memory"}
Before(i) == {V!StartOrder[j] : j \in 1 .. i - 1}

(* What a section is given is one that is always built, earlier.           *)
LEMMA GivenBefore ==
  ASSUME NEW i \in 1 .. 24
  PROVE  V!Given(V!StartOrder[i]) \subseteq Basic \cap Before(i)
<1>1. i = 1 \/ i = 2 \/ i = 3 \/ i = 4 \/ i = 5 \/ i = 6 \/ i = 7 \/ i = 8 \/ i = 9 \/ i = 10
      \/ i = 11 \/ i = 12 \/ i = 13 \/ i = 14 \/ i = 15 \/ i = 16 \/ i = 17 \/ i = 18
      \/ i = 19 \/ i = 20 \/ i = 21 \/ i = 22 \/ i = 23 \/ i = 24
  OBVIOUS
<1>2. ASSUME NEW g \in V!Given(V!StartOrder[i])
      PROVE  /\ g = "bus" => i > 1
             /\ g = "providers" => i > 2
             /\ g = "security" => i > 3
             /\ g = "tools" => i > 4
             /\ g = "skills" => i > 12
             /\ g = "memory" => i > 13
             /\ g \in Basic
  BY <1>1, <1>2 DEF V!Given, V!StartOrder, V!Channels, V!Unguarded, V!Guarded, Basic
<1>3. /\ V!StartOrder[1] = "bus" /\ V!StartOrder[2] = "providers" /\ V!StartOrder[3] = "security"
      /\ V!StartOrder[4] = "tools" /\ V!StartOrder[12] = "skills" /\ V!StartOrder[13] = "memory"
  BY DEF V!StartOrder
<1> QED
  BY <1>2, <1>3 DEF Before, Basic

Gone == UNION {V!Members(V!StopOrder[j]) : j \in 1 .. next - 1}

ServerInv ==
  /\ next \in Nat \ {0}
  /\ stage = "starting" => Basic \cap Before(next) \subseteq up
  /\ stage = "stopping" => up \cap Gone = {}
  /\ up \cap V!Channels \subseteq managed /\ managed \subseteq V!Channels
  /\ "agents" \in up => "agents" \in callbacks

(* A section comes up when it is its turn, or is passed over.              *)
Passes ==
  /\ next \in 1 .. 24 /\ stage = "starting"
  /\ \/ next' = next + 1 /\ stage' = "starting"
     \/ next' = next /\ stage' = "failed"
  /\ \/ up' = up \cup {V!StartOrder[next]}
     \/ up' = up /\ V!StartOrder[next] \notin Basic
  /\ up' \cap V!Channels \subseteq managed' /\ managed' \subseteq V!Channels
  /\ "agents" \in up' => "agents" \in callbacks'

LEMMA SectionPasses ==
  ASSUME ServerInv, V!Section
  PROVE  Passes
<1> USE DEF ServerInv, Passes, V!Turn, V!Onward, V!Raises, V!IsUp, Basic, V!Channels, V!Unguarded, V!Guarded
<1>0. Len(V!StartOrder) = 24
  BY DEF V!StartOrder
<1>1. ASSUME NEW s \in V!Optional, V!Skip(s) PROVE Passes
  BY <1>0, <1>1 DEF V!Skip, V!Optional
<1>2. ASSUME NEW s \in V!Optional, V!StartChannel(s) PROVE Passes
  BY <1>0, <1>2 DEF V!StartChannel
<1>3. ASSUME NEW s \in V!Built, V!Build(s) PROVE Passes
  BY <1>0, <1>3 DEF V!Build, V!Built
<1>4. CASE V!StartBus
  BY <1>0, <1>4 DEF V!StartBus
<1>5. CASE V!BuildTools
  BY <1>0, <1>5 DEF V!BuildTools
<1>6. CASE V!BuildVoice
  BY <1>0, <1>6 DEF V!BuildVoice
<1>7. CASE V!StartScheduler
  BY <1>0, <1>7 DEF V!StartScheduler
<1>8. CASE V!StartWebhooks
  BY <1>0, <1>8 DEF V!StartWebhooks
<1>9. CASE V!StartWorkflows
  BY <1>0, <1>9 DEF V!StartWorkflows
<1>10. CASE V!StartLearning
  BY <1>0, <1>10 DEF V!StartLearning
<1>11. CASE V!StartMarketplace
  BY <1>0, <1>11 DEF V!StartMarketplace
<1>12. CASE V!StartAgents
  BY <1>0, <1>12 DEF V!StartAgents
<1> QED
  BY <1>1, <1>2, <1>3, <1>4, <1>5, <1>6, <1>7, <1>8, <1>9, <1>10, <1>11, <1>12 DEF V!Section

InOrder ==
  /\ \A s \in up' \ up : V!Given(s) \subseteq up
  /\ \A s \in up \ up' : \A t \in V!Active \cap up' : s \notin V!Given(t)
  /\ "agents" \in up' => "agents" \in callbacks'
  /\ stage' = "down" => up' \cap V!Active = {}

LEMMA ServerStarts ==
  ASSUME ServerInv, V!Section
  PROVE  ServerInv' /\ InOrder
<1>1. Passes
  BY SectionPasses
<1>2. Before(next + 1) = Before(next) \cup {V!StartOrder[next]}
  <2>1. 1 .. (next + 1) - 1 = (1 .. next - 1) \cup {next}
    BY <1>1 DEF Passes
  <2> QED
    BY <2>1 DEF Before
<1>3. stage' = "starting" => Basic \cap Before(next)' \subseteq up'
  <2> SUFFICES ASSUME next' = next + 1 PROVE Basic \cap Before(next') \subseteq up'
    BY <1>1 DEF Passes, Before
  <2> QED
    BY <1>1, <1>2 DEF Passes, ServerInv
<1>4. ServerInv'
  BY <1>1, <1>3 DEF Passes, ServerInv
<1>5. ASSUME NEW s \in up' \ up PROVE V!Given(s) \subseteq up
  <2>1. s = V!StartOrder[next] /\ next \in 1 .. 24
    BY <1>1, <1>5 DEF Passes
  <2> QED
    BY <1>1, <2>1, GivenBefore DEF ServerInv, Passes
<1> QED
  BY <1>1, <1>4, <1>5 DEF InOrder, Passes

(* Each section that acts on its own is stopped before the bus.            *)
LEMMA ActiveGone ==
  ASSUME ServerInv, stage = "stopping", next > 7
  PROVE  up \cap V!Active = {}
<1>1. ASSUME NEW j \in 1 .. 7 PROVE V!Members(V!StopOrder[j]) \cap up = {}
  BY DEF ServerInv, Gone
<1>2. \A s \in {"agents", "workflows", "webhooks", "scheduler"} : s \notin up
  BY <1>1 DEF V!Members, V!StopOrder
<1>3. managed \cap up = {}
  <2>1. V!Members(V!StopOrder[7]) = managed
    BY DEF V!Members, V!StopOrder
  <2> QED
    BY <1>1, <2>1
<1> QED
  BY <1>2, <1>3 DEF V!Active, ServerInv

LEMMA ServerStops ==
  ASSUME ServerInv, V!Stop
  PROVE  ServerInv' /\ InOrder
<1>1. /\ next \in 1 .. 10 /\ next' = next + 1 /\ stage = "stopping"
      /\ up' = up \ V!Members(V!StopOrder[next])
      /\ UNCHANGED <<stage, managed, callbacks>>
  BY DEF V!Stop, ServerInv, V!StopOrder
<1>2. up' \cap Gone' = {}
  <2>1. 1 .. next' - 1 = (1 .. next - 1) \cup {next}
    BY <1>1
  <2>2. Gone' = Gone \cup V!Members(V!StopOrder[next])
    BY <1>1, <2>1 DEF Gone, V!Members
  <2> QED
    BY <1>1, <2>2 DEF ServerInv
<1>3. ServerInv'
  BY <1>1, <1>2 DEF ServerInv
<1>4. ASSUME NEW s \in V!Members(V!StopOrder[next]), NEW t \in V!Active \cap up', s \in V!Given(t)
      PROVE  FALSE
  <2>1. next <= 7
    BY <1>1, <1>4, ActiveGone
  <2>2. s \in {"agents", "marketplace", "learning", "workflows", "webhooks", "scheduler"} \cup V!Channels
    BY <1>1, <1>4, <2>1 DEF V!StopOrder, V!Members, ServerInv
  <2>3. V!Given(t) \subseteq {"bus", "providers", "tools", "memory"}
    BY <1>4 DEF V!Given, V!Active, V!Channels, V!Unguarded, V!Guarded
  <2> QED
    BY <1>4, <2>2, <2>3 DEF V!Channels, V!Unguarded, V!Guarded
<1> QED
  BY <1>1, <1>3, <1>4 DEF InOrder, ServerInv

LEMMA ServerNext ==
  ASSUME ServerInv, [V!Next]_(V!vars)
  PROVE  ServerInv' /\ (V!Next => InOrder)
<1>1. CASE V!Section
  BY <1>1, ServerStarts
<1>2. CASE V!Stop
  BY <1>2, ServerStops
<1>3. CASE V!Serve \/ V!CloseFails
  BY <1>3 DEF V!Serve, V!CloseFails, ServerInv, InOrder
<1>4. CASE V!ShutDown
  <2>1. next' = 1 /\ Gone' = {}
    BY <1>4 DEF V!ShutDown, Gone
  <2> QED
    BY <1>4, <2>1 DEF V!ShutDown, ServerInv, InOrder
<1>5. CASE V!Stopped
  <2>0. Len(V!StopOrder) = 10
    BY DEF V!StopOrder
  <2>1. up \cap V!Active = {}
    BY <1>5, <2>0, ActiveGone DEF V!Stopped, ServerInv
  <2> QED
    BY <1>5, <2>1 DEF V!Stopped, ServerInv, InOrder
<1>6. ASSUME UNCHANGED V!vars PROVE ServerInv'
  <2>1. Gone' = Gone /\ Before(next)' = Before(next)
    BY <1>6 DEF V!vars, Gone, V!Members, Before
  <2> QED
    BY <1>6, <2>1 DEF V!vars, ServerInv
<1> QED
  BY <1>1, <1>2, <1>3, <1>4, <1>5, <1>6 DEF V!Next

(* Whatever the settings enable and wherever the startup fails: a section  *)
(* is built from sections that are up, and none is stopped under one that  *)
(* still acts and was given it.                                            *)
THEOREM ServerInOrder == V!Spec => BuiltAndStoppedInOrder
<1>1. V!Init => ServerInv
  BY DEF V!Init, ServerInv, Before, Gone
<1>2. ServerInv /\ [V!Next]_(V!vars) => ServerInv' /\ [InOrder]_(V!vars)
  BY ServerNext
<1> QED
  BY <1>1, <1>2, PTL DEF V!Spec, InOrder, BuiltAndStoppedInOrder, V!BuiltAndStoppedInOrder
-----------------------------------------------------------------------------
(* Links and broadcasts.                                                   *)

(* A list that is walked holds what is still to be visited further on.     *)
WalkInv ==
  /\ list # None => list \in Seq(Keys)
  /\ walk \in {"idle", "walking", "over"} /\ index \in Nat \ {0}
  /\ walk = "walking" => /\ user \in Users
                         /\ \A k \in owed : \E i \in DOMAIN L!Walked : i >= index /\ L!Walked[i] = k
  /\ walk = "over" => owed = {}

LinkInv ==
  /\ links \in [Keys -> Users \cup {None}]
  /\ channels \in [Users -> Seq(Keys)]
  /\ \A c \in Codes : pairings[c] = None \/ pairings[c] \in [key : Keys, age : Nat]
  /\ L!ListsComplete
  /\ WalkInv

(* With k, not listed before, at its head a list has what it had, one      *)
(* place further on.                                                       *)
LEMMA HeadAdded ==
  ASSUME NEW S, NEW l \in Seq(S), NEW k \in S
  PROVE  LET longer == <<k>> \o l IN
         /\ longer \in Seq(S) /\ Len(longer) = Len(l) + 1 /\ longer[1] = k
         /\ \A i \in DOMAIN l : i + 1 \in DOMAIN longer /\ longer[i + 1] = l[i]
         /\ \A i \in DOMAIN longer : i # 1 => i - 1 \in DOMAIN l /\ longer[i] = l[i - 1]
OBVIOUS

(* A list without k has every other element it had, once.                  *)
LEMMA OneTakenOut ==
  ASSUME LinkInv, NEW u \in Users, NEW k \in Keys
  PROVE  LET shorter == L!Without(k, u) IN
         /\ shorter \in Seq(Keys)
         /\ \A i, j \in DOMAIN shorter : shorter[i] = shorter[j] => i = j
         /\ \A m \in Keys \ {k} : L!Listed(m, u) => \E i \in DOMAIN shorter : shorter[i] = m
<1>1. /\ channels[u] \in Seq(Keys)
      /\ \A i, j \in DOMAIN channels[u] : channels[u][i] = channels[u][j] => i = j
  BY DEF LinkInv, L!ListsComplete
<1>2. CASE ~L!Listed(k, u)
  BY <1>1, <1>2 DEF L!Without, L!Listed
<1>3. CASE L!Listed(k, u)
  <2> DEFINE l == channels[u]
             i == CHOOSE i \in DOMAIN l : l[i] = k
             shorter == [j \in 1 .. Len(l) - 1 |-> l[IF j < i THEN j ELSE j + 1]]
  <2>1. i \in 1 .. Len(l) /\ l[i] = k /\ L!Without(k, u) = shorter
    BY <1>1, <1>3 DEF L!Listed, L!Without
  <2> HIDE DEF i
  <2>2. shorter \in Seq(Keys) /\ DOMAIN shorter = 1 .. Len(l) - 1
    BY <1>1, <2>1
  <2>3. \A j, m \in DOMAIN shorter : shorter[j] = shorter[m] => j = m
    BY <1>1, <2>1, <2>2
  <2>4. ASSUME NEW m \in Keys \ {k}, L!Listed(m, u) PROVE \E j \in DOMAIN shorter : shorter[j] = m
    <3>1. PICK j \in DOMAIN l : l[j] = m
      BY <2>4 DEF L!Listed
    <3>2. CASE j < i
      BY <1>1, <2>1, <2>2, <3>1, <3>2
    <3>3. CASE j > i
      <4>1. j - 1 \in DOMAIN shorter /\ shorter[j - 1] = m
        BY <1>1, <2>1, <2>2, <3>1, <3>3
      <4> QED
        BY <4>1
    <3> QED
      BY <1>1, <2>1, <2>4, <3>1, <3>2, <3>3
  <2>5. L!Without(k, u) = shorter
    BY <2>1
  <2> HIDE DEF shorter
  <2> QED
    BY <2>2, <2>3, <2>4, <2>5
<1> QED
  BY <1>2, <1>3

LEMMA LinkKeeps ==
  ASSUME LinkInv, NEW k \in Keys, NEW u \in Users, L!Link(k, u), UNCHANGED <<walk, user, list, index, owed>>,
         \A c \in Codes : pairings'[c] = None \/ pairings'[c] \in [key : Keys, age : Nat]
  PROVE  LinkInv'
<1>1. links' = [links EXCEPT ![k] = u]
  BY DEF L!Link
<1>2. CASE L!Listed(k, u)
  <2>1. channels' = channels /\ L!Walked' = L!Walked
    BY <1>2 DEF L!Link, L!Walked
  <2> QED
    BY <1>1, <1>2, <2>1 DEF LinkInv, WalkInv, L!ListsComplete, L!Listed
<1>3. CASE ~L!Listed(k, u)
  <2> DEFINE longer == <<k>> \o channels[u]
  <2>0. channels[u] \in Seq(Keys)
    BY DEF LinkInv
  <2>1. /\ longer \in Seq(Keys) /\ Len(longer) = Len(channels[u]) + 1 /\ longer[1] = k
        /\ \A i \in DOMAIN channels[u] : i + 1 \in DOMAIN longer /\ longer[i + 1] = channels[u][i]
        /\ \A i \in DOMAIN longer : i # 1 => i - 1 \in DOMAIN channels[u] /\ longer[i] = channels[u][i - 1]
    BY <2>0, HeadAdded
  <2> HIDE DEF longer
  <2>2. channels' = [channels EXCEPT ![u] = longer] /\ channels' \in [Users -> Seq(Keys)]
    BY <1>3, <2>1 DEF L!Link, LinkInv, longer
  <2>3. ASSUME NEW m \in Keys, L!Listed(m, u) PROVE \E i \in DOMAIN longer : longer[i] = m
    BY <2>1, <2>3 DEF L!Listed
  <2>4. \A i, j \in DOMAIN longer : longer[i] = longer[j] => i = j
    <3> SUFFICES ASSUME NEW i \in DOMAIN longer, NEW j \in DOMAIN longer, longer[i] = longer[j]
                 PROVE  i = j
      OBVIOUS
    <3>1. i \in Nat /\ j \in Nat
      BY <2>1
    <3>2. CASE i = 1 \/ j = 1
      BY <1>3, <2>1, <3>1, <3>2 DEF L!Listed
    <3>3. CASE i # 1 /\ j # 1
      <4>1. i - 1 = j - 1
        BY <2>1, <3>3 DEF LinkInv, L!ListsComplete
      <4> QED
        BY <3>1, <4>1
    <3> QED
      BY <3>2, <3>3
  <2>5. L!ListsComplete'
    <3> SUFFICES ASSUME NEW v \in Users
                 PROVE  /\ \A m \in Keys : links'[m] = v => L!Listed(m, v)'
                        /\ \A i, j \in DOMAIN channels'[v] : channels'[v][i] = channels'[v][j] => i = j
      BY DEF L!ListsComplete
    <3>1. CASE v # u
      BY <1>1, <2>2, <3>1 DEF LinkInv, L!ListsComplete, L!Listed
    <3>2. CASE v = u
      <4>1. channels'[u] = longer
        BY <2>2 DEF LinkInv
      <4>2. ASSUME NEW m \in Keys, links'[m] = u PROVE \E i \in DOMAIN longer : longer[i] = m
        <5>1. CASE m = k
          BY <2>1, <5>1
        <5>2. CASE m # k
          BY <1>1, <2>3, <4>2, <5>2 DEF LinkInv, L!ListsComplete
        <5> QED
          BY <5>1, <5>2
      <4> QED
        BY <2>4, <3>2, <4>1, <4>2 DEF L!Listed
    <3> QED
      BY <3>1, <3>2
  <2>6. ASSUME walk = "walking", NEW m \in owed
        PROVE  \E i \in DOMAIN L!Walked' : i >= index /\ L!Walked'[i] = m
    <3>1. PICK i \in DOMAIN L!Walked : i >= index /\ L!Walked[i] = m
      BY <2>6 DEF LinkInv, WalkInv
    <3>2. CASE list = None /\ user = u
      <4>1. L!Walked = channels[u] /\ L!Walked' = longer
        BY <2>2, <3>2 DEF L!Walked, LinkInv
      <4>2. i \in Nat /\ index \in Nat
        BY <2>0, <3>1, <4>1 DEF LinkInv, WalkInv
      <4> QED
        BY <2>1, <3>1, <4>1, <4>2
    <3>3. CASE ~(list = None /\ user = u)
      <4>1. L!Walked' = L!Walked
        BY <2>2, <2>6, <3>3 DEF L!Walked, LinkInv, WalkInv
      <4> QED
        BY <3>1, <4>1
    <3> QED
      BY <3>2, <3>3
  <2> QED
    BY <1>1, <2>2, <2>5, <2>6 DEF LinkInv, WalkInv
<1> QED
  BY <1>2, <1>3

LEMMA UnlinkKeeps ==
  ASSUME LinkInv, NEW k \in Keys, L!Leave(k)
  PROVE  LinkInv'
<1> DEFINE u == links[k]
           shorter == L!Without(k, u)
<1>1. /\ u \in Users /\ links' = [links EXCEPT ![k] = None]
      /\ channels' = [channels EXCEPT ![u] = shorter]
      /\ list' = IF walk = "walking" /\ user = u /\ list = None THEN channels[u] ELSE list
      /\ UNCHANGED <<pairings, walk, user, index, owed>>
  BY DEF L!Leave, L!Unlink, LinkInv
<1>2. /\ shorter \in Seq(Keys)
      /\ \A i, j \in DOMAIN shorter : shorter[i] = shorter[j] => i = j
      /\ \A m \in Keys \ {k} : L!Listed(m, u) => \E i \in DOMAIN shorter : shorter[i] = m
  BY <1>1, OneTakenOut
<1> HIDE DEF u, shorter
<1>3. links' \in [Keys -> Users \cup {None}] /\ channels' \in [Users -> Seq(Keys)]
  BY <1>1, <1>2 DEF LinkInv
<1>4. L!ListsComplete'
  <2> SUFFICES ASSUME NEW v \in Users
               PROVE  /\ \A m \in Keys : links'[m] = v => L!Listed(m, v)'
                      /\ \A i, j \in DOMAIN channels'[v] : channels'[v][i] = channels'[v][j] => i = j
    BY DEF L!ListsComplete
  <2>1. CASE v # u
    BY <1>1, <2>1, LinkConstants DEF LinkInv, L!ListsComplete, L!Listed
  <2>2. CASE v = u
    <3>1. channels'[u] = shorter
      BY <1>1 DEF LinkInv
    <3>2. ASSUME NEW m \in Keys, links'[m] = u PROVE m # k /\ L!Listed(m, u)
      BY <1>1, <3>2, LinkConstants DEF LinkInv, L!ListsComplete
    <3> QED
      BY <1>2, <2>2, <3>1, <3>2 DEF L!Listed
  <2> QED
    BY <2>1, <2>2
<1>5. walk = "walking" => L!Walked' = L!Walked
  BY <1>1, LinkConstants DEF L!Walked, LinkInv, WalkInv
<1>6. list' # None => list' \in Seq(Keys)
  BY <1>1 DEF LinkInv, WalkInv
<1> QED
  BY <1>1, <1>3, <1>4, <1>5, <1>6 DEF LinkInv, WalkInv

LEMMA BroadcastKeeps ==
  ASSUME LinkInv, L!Visit \/ L!Over \/ (\E u \in Users : L!Begin(u))
  PROVE  LinkInv'
<1>0. UNCHANGED <<links, channels, pairings>> /\ L!ListsComplete'
  BY DEF L!Visit, L!Over, L!Begin, LinkInv, L!ListsComplete, L!Listed, L!service
<1>1. CASE L!Visit
  <2>1. /\ walk = "walking" /\ owed' = owed \ {L!Walked[index]} /\ index' = index + 1
        /\ UNCHANGED <<walk, user, list>> /\ L!Walked' = L!Walked
    BY <1>0, <1>1 DEF L!Visit, L!Walked
  <2>2. L!Walked \in Seq(Keys)
    BY <2>1 DEF LinkInv, WalkInv, L!Walked
  <2>3. ASSUME NEW m \in owed'
        PROVE  \E i \in DOMAIN L!Walked : i >= index + 1 /\ L!Walked[i] = m
    <3>1. PICK i \in DOMAIN L!Walked : i >= index /\ L!Walked[i] = m
      BY <2>1, <2>3 DEF LinkInv, WalkInv
    <3>2. i # index
      BY <2>1, <2>3, <3>1
    <3> QED
      BY <2>2, <3>1, <3>2 DEF LinkInv, WalkInv
  <2> QED
    BY <1>0, <2>1, <2>3 DEF LinkInv, WalkInv
<1>2. CASE L!Over
  <2>1. L!Walked \in Seq(Keys)
    BY <1>2 DEF LinkInv, WalkInv, L!Walked, L!Over
  <2>2. owed = {}
    BY <1>2, <2>1 DEF LinkInv, WalkInv, L!Over
  <2> QED
    BY <1>0, <1>2, <2>2 DEF LinkInv, WalkInv, L!Over
<1>3. ASSUME NEW u \in Users, L!Begin(u) PROVE LinkInv'
  <2>1. /\ walk' = "walking" /\ user' = u /\ index' = 2 /\ list' = None
        /\ owed' = {k \in Keys : links[k] = u} \ {channels[u][1]}
        /\ L!Walked' = channels[u]
    BY <1>0, <1>3 DEF L!Begin, L!Walked
  <2>2. channels[u] \in Seq(Keys)
    BY DEF LinkInv
  <2>3. ASSUME NEW m \in owed' PROVE \E i \in DOMAIN channels[u] : i >= 2 /\ channels[u][i] = m
    <3>1. m \in Keys /\ links[m] = u /\ m # channels[u][1]
      BY <2>1, <2>3
    <3>2. PICK i \in DOMAIN channels[u] : channels[u][i] = m
      BY <3>1 DEF LinkInv, L!ListsComplete, L!Listed
    <3> QED
      BY <2>2, <3>1, <3>2
  <2> QED
    BY <1>0, <2>1, <2>3 DEF LinkInv, WalkInv
<1> QED
  BY <1>1, <1>2, <1>3

LEMMA LinksKept == LinkInv /\ [L!Next]_(L!vars) => LinkInv'
<1> SUFFICES ASSUME LinkInv, [L!Next]_(L!vars) PROVE LinkInv'
  OBVIOUS
<1>1. ASSUME UNCHANGED <<links, channels, walk, user, list, index, owed>>,
             \A c \in Codes : pairings'[c] = None \/ pairings'[c] \in [key : Keys, age : Nat]
      PROVE  LinkInv'
  BY <1>1 DEF LinkInv, WalkInv, L!ListsComplete, L!Listed, L!Walked
<1>2. ASSUME NEW k \in Keys, L!Prompt(k) PROVE LinkInv'
  BY <1>1, <1>2 DEF L!Prompt, L!CreateCode, L!broadcast, LinkInv
<1>3. ASSUME NEW k \in Keys, NEW u \in Users, L!LinkOnce(k, u) \/ L!LinkAnew(k, u) PROVE LinkInv'
  <2>1. L!Link(k, u) /\ UNCHANGED <<walk, user, list, index, owed>>
    BY <1>3 DEF L!LinkOnce, L!LinkAnew, L!broadcast
  <2>2. \A c \in Codes : pairings'[c] = None \/ pairings'[c] \in [key : Keys, age : Nat]
    BY <1>3 DEF L!LinkOnce, L!LinkAnew, LinkInv
  <2> QED
    BY <2>1, <2>2, LinkKeeps
<1>4. ASSUME NEW c \in Codes, NEW u \in Users, L!Complete(c, u) PROVE LinkInv'
  <2>1. /\ pairings[c].key \in Keys /\ UNCHANGED <<walk, user, list, index, owed>>
        /\ \A d \in Codes : pairings'[d] = None \/ pairings'[d] \in [key : Keys, age : Nat]
    BY <1>4 DEF L!Complete, L!broadcast, LinkInv
  <2>2. L!Link(pairings[c].key, u) \/ UNCHANGED <<links, channels>>
    BY <1>4 DEF L!Complete
  <2> QED
    BY <1>1, <2>1, <2>2, LinkKeeps
<1>5. CASE L!Tick
  <2>1. \A c \in Codes : pairings'[c] = pairings[c] \/ pairings'[c] = [pairings[c] EXCEPT !.age = @ + 1]
    BY <1>5 DEF L!Tick
  <2>2. ASSUME NEW c \in Codes, pairings[c] # None PROVE pairings'[c] \in [key : Keys, age : Nat]
    <3>1. PICK request \in [key : Keys, age : Nat] : pairings[c] = request
      BY <2>2 DEF LinkInv
    <3>2. pairings'[c] = request \/ pairings'[c] = [request EXCEPT !.age = @ + 1]
      BY <2>1, <3>1
    <3>3. [request EXCEPT !.age = @ + 1] \in [key : Keys, age : Nat]
      OBVIOUS
    <3> QED
      BY <3>2, <3>3
  <2> QED
    BY <1>1, <1>5, <2>1, <2>2 DEF L!Tick, L!broadcast, LinkInv
<1>6. ASSUME NEW c \in L!Services, L!Register(c) \/ L!Unregister(c) PROVE LinkInv'
  BY <1>1, <1>6 DEF L!Register, L!Unregister, L!service, L!broadcast, LinkInv
<1>7. CASE UNCHANGED L!vars
  BY <1>1, <1>7 DEF L!vars, L!service, L!broadcast, LinkInv
<1> QED
  BY <1>2, <1>3, <1>4, <1>5, <1>6, <1>7, UnlinkKeeps, BroadcastKeeps
  DEF L!Next, L!Telegram, L!Discord, L!Messenger, L!WhatsApp, L!Slack, L!SlackSlash, L!Teams,
      L!SignalChat, L!PromptUnlinked

(* The first of a list that can be delivered to is there if any is.        *)
LEMMA FirstDeliverable ==
  ASSUME LinkInv, NEW u \in Users, L!Deliverable(u) # {}
  PROVE  L!Target(u) \in Keys
<1> DEFINE Fits(i) == i \in DOMAIN channels[u] /\ channels[u][i] \in L!Deliverable(u)
<1>0. channels[u] \in Seq(Keys)
  BY DEF LinkInv
<1>1. PICK n \in Nat : Fits(n)
  BY <1>0 DEF L!Deliverable, L!Listed
<1> DEFINE Q == {i \in Nat : Fits(i)}
<1>2. PICK i \in Q : \A j \in Q : <<j, i>> \notin OpToRel(<, Nat)
  BY <1>1, NatLessThanWellFounded, WFMin
<1>3. ASSUME NEW j \in 1 .. i - 1 PROVE channels[u][j] \notin L!Deliverable(u)
  <2>1. <<j, i>> \in OpToRel(<, Nat)
    BY <1>2 DEF OpToRel
  <2>2. j \notin Q
    BY <1>2, <2>1
  <2>3. i \in DOMAIN channels[u] /\ DOMAIN channels[u] = 1 .. Len(channels[u])
    <3>1. i \in Q
      OBVIOUS
    <3> QED
      BY <1>0, <3>1
  <2>4. j \in Nat /\ j \in DOMAIN channels[u]
    BY <2>3
  <2> QED
    BY <2>2, <2>4
<1>4. \E m \in DOMAIN channels[u] : /\ channels[u][m] \in L!Deliverable(u)
                                    /\ \A j \in 1 .. m - 1 : channels[u][j] \notin L!Deliverable(u)
  BY <1>2, <1>3
<1> QED
  BY <1>0, <1>4 DEF L!Target

(* Whatever is linked anew, unlinked and paired while a broadcast sends:   *)
(* every linked identity is listed, a message finds one that is on, and a  *)
(* broadcast has visited those it began with.                              *)
THEOREM LinkedAreReached == L!Spec => []EveryoneReached
<1>1. L!Init => LinkInv
  BY LinkConstants DEF L!Init, LinkInv, WalkInv, L!ListsComplete, L!Listed
<1>2. LinkInv => EveryoneReached
  <2> SUFFICES ASSUME LinkInv PROVE L!DeliveryFound
    BY DEF LinkInv, WalkInv, EveryoneReached, L!EveryoneReached, L!BroadcastReaches
  <2>1. ASSUME NEW u \in Users, NEW k \in Keys, links[k] = u, channel[k] \in adapters
        PROVE  L!Target(u) # None
    <3>1. k \in L!Deliverable(u)
      BY <2>1 DEF L!Deliverable, LinkInv, L!ListsComplete
    <3> QED
      BY <3>1, FirstDeliverable, LinkConstants
  <2> QED
    BY <2>1 DEF L!DeliveryFound
<1> QED
  BY <1>1, <1>2, LinksKept, PTL DEF L!Spec
-----------------------------------------------------------------------------
(* A breaker b and the log l of the failures since its last success.       *)

(* The failures of a closed breaker are the last of the log, in the order  *)
(* they came, and those before them are out of the window.                 *)
WindowInv(b, l) ==
  LET n == Len(b.failures)
      m == Len(l) - n IN
  /\ n < Threshold /\ m >= 0
  /\ \A i \in 1 .. n : l[m + i] = b.failures[i] /\ b.failures[i] < RollingWindow
  /\ \A i, j \in 1 .. n : i <= j => b.failures[i] >= b.failures[j]
  /\ \A i \in 1 .. m : l[i] >= RollingWindow

BreakerInv(b, l) ==
  /\ b \in [state : {"closed", "open", "half_open"}, failures : Seq(Nat), opened : 0 .. Recovery,
            probes : {0}]
  /\ l \in Seq(Nat)
  /\ b.state = "closed" => WindowInv(b, l)
  /\ b.state # "closed" /\ b.opened < Recovery => \E i \in DOMAIN l : l[i] = b.opened

LEMMA Windows == Recovery \in Nat \ {0} /\ RollingWindow \in Nat \ {0} /\ Threshold \in Nat \ {0}
                 /\ HalfOpenMax \in Nat \ {0}
                 /\ Oldest \in Nat /\ RollingWindow <= Oldest /\ Recovery <= Oldest
BY RouterConstants DEF Oldest

LEMMA Elements ==
  ASSUME NEW S, NEW z \in Seq(S)
  PROVE  Len(z) \in Nat /\ DOMAIN z = 1 .. Len(z) /\ \A i \in 1 .. Len(z) : z[i] \in S
OBVIOUS

LEMMA AgesGrow ==
  ASSUME NEW limit \in Nat, NEW z \in Seq(Nat)
  PROVE  /\ Older(z, limit) \in Seq(Nat) /\ Len(Older(z, limit)) = Len(z)
         /\ \A i \in 1 .. Len(z) : Older(z, limit)[i] = IF z[i] < limit THEN z[i] + 1 ELSE limit
<1>1. \A i \in 1 .. Len(z) : (IF z[i] < limit THEN z[i] + 1 ELSE limit) \in Nat
  BY Elements
<1>2. Older(z, limit) = [i \in 1 .. Len(z) |-> IF z[i] < limit THEN z[i] + 1 ELSE limit]
  BY Elements DEF Older
<1> QED
  BY <1>1, <1>2, Elements

(* What a tick prunes comes first: the rest begins with one in the window. *)
LEMMA Pruned ==
  ASSUME NEW f \in Seq(Nat)
  PROVE  LET g == Older(f, RollingWindow)
             rest == Recent(g) IN
         /\ rest \in Seq(Nat)
         /\ \E k \in 1 .. Len(f) + 1 :
              /\ Len(rest) = Len(f) - k + 1
              /\ \A i \in 1 .. Len(rest) : rest[i] = g[k + i - 1]
              /\ \A i \in 1 .. k - 1 : g[i] >= RollingWindow
              /\ k <= Len(f) => g[k] < RollingWindow
<1> DEFINE g == Older(f, RollingWindow)
           kept == {i \in DOMAIN g : g[i] < RollingWindow}
           k == CHOOSE i \in kept : \A j \in kept : i <= j
           rest == Recent(g)
<1>0. g \in Seq(Nat) /\ Len(g) = Len(f) /\ DOMAIN g = 1 .. Len(f)
  BY Windows, AgesGrow
<1>1. /\ g \in Seq(Nat) /\ Len(g) = Len(f) /\ DOMAIN g = 1 .. Len(f) /\ Len(f) \in Nat
      /\ \A i \in 1 .. Len(f) : g[i] \in Nat
  BY <1>0
<1>2. rest = IF kept = {} THEN <<>> ELSE SubSeq(g, k, Len(g))
  BY Zenon DEF Recent
<1> HIDE DEF g, rest
<1>3. CASE kept = {}
  <2>1. rest = <<>>
    BY <1>2, <1>3
  <2>2. \A i \in 1 .. Len(f) : g[i] >= RollingWindow
    BY <1>1, <1>3, Windows
  <2>3. Len(f) + 1 \in 1 .. Len(f) + 1 /\ (Len(f) + 1) - 1 = Len(f) /\ Len(rest) = Len(f) - (Len(f) + 1) + 1
    BY <2>1
  <2> QED
    BY <2>1, <2>2, <2>3 DEF g, rest
<1>4. CASE kept # {}
  <2>0. kept \subseteq 1 .. Len(f) /\ kept \subseteq Nat
    BY <1>1
  <2>1. k \in kept /\ \A j \in kept : k <= j
    <3>1. PICK i \in kept : \A j \in kept : <<j, i>> \notin OpToRel(<, Nat)
      BY <1>4, <2>0, NatLessThanWellFounded, WFMin
    <3>2. ASSUME NEW j \in kept PROVE i <= j
      <4>1. i \in Nat /\ j \in Nat
        BY <2>0
      <4>2. j < i => <<j, i>> \in OpToRel(<, Nat)
        BY <4>1 DEF OpToRel
      <4>3. ~(j < i)
        BY <3>1, <4>2
      <4> QED
        BY <4>1, <4>3
    <3> HIDE DEF kept
    <3> QED
      BY <3>2
  <2> HIDE DEF k
  <2>2. k \in 1 .. Len(f) /\ g[k] < RollingWindow
    BY <1>1, <2>0, <2>1
  <2>3. ASSUME NEW i \in 1 .. k - 1 PROVE g[i] >= RollingWindow
    <3>1. i \in 1 .. Len(f) /\ ~(k <= i)
      BY <1>1, <2>2
    <3>2. i \notin kept
      BY <2>1, <3>1
    <3> QED
      BY <1>1, <3>1, <3>2, Windows
  <2>4. rest = SubSeq(g, k, Len(g))
    BY <1>2, <1>4
  <2>5. rest \in Seq(Nat) /\ Len(rest) = Len(f) - k + 1 /\ \A i \in 1 .. Len(rest) : rest[i] = g[k + i - 1]
    BY <1>1, <2>2, <2>4
  <2>6. \E m \in 1 .. Len(f) + 1 :
           /\ Len(rest) = Len(f) - m + 1
           /\ \A i \in 1 .. Len(rest) : rest[i] = g[m + i - 1]
           /\ \A i \in 1 .. m - 1 : g[i] >= RollingWindow
           /\ m <= Len(f) => g[m] < RollingWindow
    <3>1. k \in 1 .. Len(f) + 1
      BY <1>1, <2>2
    <3> WITNESS k \in 1 .. Len(f) + 1
    <3> QED
      BY <2>2, <2>3, <2>5
  <2> HIDE DEF kept
  <2> QED
    BY <2>5, <2>6 DEF g, rest
<1> QED
  BY <1>3, <1>4

LEMMA AgedKeeps ==
  ASSUME NEW b, NEW l, BreakerInv(b, l)
  PROVE  BreakerInv(Aged(b), Older(l, Oldest))
<1> DEFINE f == b.failures
           g == Older(f, RollingWindow)
           rest == Recent(g)
           aged == Older(l, Oldest)
           o == IF b.opened < Recovery THEN b.opened + 1 ELSE Recovery
           after == Aged(b)
<1>1. /\ b \in [state : {"closed", "open", "half_open"}, failures : Seq(Nat), opened : 0 .. Recovery,
                probes : {0}]
      /\ l \in Seq(Nat) /\ f \in Seq(Nat)
  BY DEF BreakerInv
<1>0. /\ b = [state |-> b.state, failures |-> f, opened |-> b.opened, probes |-> 0]
      /\ b.state \in {"closed", "open", "half_open"} /\ o \in 0 .. Recovery /\ b.opened \in Nat
  BY <1>1, Windows
<1>8. after = [state |-> b.state, failures |-> rest, opened |-> o, probes |-> 0]
  <2>1. after = [b EXCEPT !.failures = rest, !.opened = o]
    BY Zenon DEF Aged
  <2>2. PICK st, z, u : b = [state |-> st, failures |-> z, opened |-> u, probes |-> 0]
    BY <1>0
  <2> HIDE DEF f, rest, o, after
  <2>3. after = [state |-> st, failures |-> rest, opened |-> o, probes |-> 0]
    BY <2>1, <2>2
  <2> QED
    BY <2>2, <2>3
<1>2. /\ after.state = b.state /\ after.failures = rest /\ after.opened = o
      /\ rest \in Seq(Nat) => after \in [state : {"closed", "open", "half_open"}, failures : Seq(Nat),
                                         opened : 0 .. Recovery, probes : {0}]
  <2> HIDE DEF f, rest, o, after
  <2> QED
    BY <1>0, <1>8
<1>3. /\ aged \in Seq(Nat) /\ Len(aged) = Len(l) /\ DOMAIN aged = DOMAIN l
      /\ DOMAIN l = 1 .. Len(l)
      /\ \A i \in 1 .. Len(l) : aged[i] = IF l[i] < Oldest THEN l[i] + 1 ELSE Oldest
  <2> HIDE DEF aged
  <2> QED
    BY <1>1, AgesGrow, Elements, Windows DEF aged
<1>4. /\ g \in Seq(Nat) /\ Len(g) = Len(f)
      /\ \A i \in 1 .. Len(f) : g[i] = IF f[i] < RollingWindow THEN f[i] + 1 ELSE RollingWindow
  <2> HIDE DEF f, g
  <2> QED
    BY <1>1, AgesGrow, Windows DEF g
<1>5. /\ rest \in Seq(Nat)
      /\ \E k \in 1 .. Len(f) + 1 :
           /\ Len(rest) = Len(f) - k + 1
           /\ \A i \in 1 .. Len(rest) : rest[i] = g[k + i - 1]
           /\ \A i \in 1 .. k - 1 : g[i] >= RollingWindow
           /\ k <= Len(f) => g[k] < RollingWindow
  BY <1>1, Pruned
<1> HIDE DEF g, rest, aged, o, after
<1>6. ASSUME b.state = "closed" PROVE WindowInv(after, aged)
  <2>1. WindowInv(b, l)
    BY <1>6 DEF BreakerInv
  <2> DEFINE n == Len(f)  m == Len(l) - n  r == Len(rest)  d == Len(aged) - r
  <2>2. /\ n < Threshold /\ m >= 0 /\ n \in Nat /\ m \in Nat
        /\ \A i \in 1 .. n : l[m + i] = f[i] /\ f[i] < RollingWindow
        /\ \A i, j \in 1 .. n : i <= j => f[i] >= f[j]
        /\ \A i \in 1 .. m : l[i] >= RollingWindow
    BY <1>1, <2>1 DEF WindowInv
  <2>3. \A i \in 1 .. n : f[i] \in Nat /\ g[i] = f[i] + 1
    <3> HIDE DEF m, r, d
    <3>1. \A i \in 1 .. n : f[i] \in Nat
      BY <1>1, Elements
    <3> QED
      BY <1>4, <2>2, <3>1
  <2>4. PICK k \in 1 .. n + 1 :
           /\ r = n - k + 1
           /\ \A i \in 1 .. r : rest[i] = g[k + i - 1]
           /\ \A i \in 1 .. k - 1 : g[i] >= RollingWindow
           /\ k <= n => g[k] < RollingWindow
    BY <1>5
  <2>5. Len(l) \in Nat /\ d = m + (k - 1) /\ r \in Nat /\ r <= n /\ Len(l) = m + n
    BY <1>1, <1>3, <2>2, <2>4
  <2> HIDE DEF n, m, r, d, f
  <2>6. \A i \in 1 .. Len(l) : l[i] \in Nat
    BY <1>1, Elements
  <2>7. ASSUME NEW i \in 1 .. r PROVE aged[d + i] = rest[i] /\ rest[i] < RollingWindow
    <3>1. k + i - 1 \in 1 .. n /\ k \in 1 .. n /\ k <= k + i - 1 /\ d + i = m + (k + i - 1)
      BY <2>2, <2>4, <2>5
    <3> DEFINE j == k + i - 1
    <3>2. rest[i] = f[j] + 1 /\ l[m + j] = f[j] /\ f[j] <= f[k] /\ f[k] + 1 < RollingWindow
      BY <2>2, <2>3, <2>4, <3>1
    <3>3. m + j \in 1 .. Len(l)
      BY <2>2, <2>5, <3>1
    <3> HIDE DEF j
    <3>4. j \in 1 .. n /\ k \in 1 .. n /\ f[j] \in Nat /\ f[k] \in Nat
      BY <2>3, <3>1 DEF j
    <3>5. f[j] + 1 < RollingWindow /\ aged[m + j] = f[j] + 1
      <4>1. PICK x \in 1 .. Len(l) : x = m + j
        BY <3>3
      <4>2. l[x] < RollingWindow /\ l[x] + 1 < RollingWindow /\ l[x] = f[j]
        BY <3>2, <3>4, <4>1, Windows
      <4>3. f[j] < Oldest /\ f[j] + 1 < RollingWindow
        BY <3>2, <3>4, <4>2, Windows
      <4>4. aged[x] = IF l[x] < Oldest THEN l[x] + 1 ELSE Oldest
        BY <1>3
      <4> HIDE DEF m
      <4> QED
        BY <4>1, <4>2, <4>3, <4>4, Zenon
    <3> QED
      BY <3>1, <3>2, <3>5 DEF j
  <2>8. ASSUME NEW i \in 1 .. d PROVE aged[i] >= RollingWindow
    <3>1. i \in 1 .. Len(l) /\ l[i] \in Nat
      BY <2>2, <2>4, <2>5, <2>6
    <3>2. CASE i <= m
      <4>1. l[i] >= RollingWindow
        BY <2>2, <3>1, <3>2
      <4> QED
        BY <1>3, <3>1, <4>1, Windows
    <3>3. CASE i > m
      <4>1. i - m \in 1 .. k - 1 /\ i - m \in 1 .. n /\ m + (i - m) = i
        BY <2>2, <2>4, <2>5, <3>1, <3>3
      <4>2. l[i] = f[i - m] /\ f[i - m] + 1 >= RollingWindow
        BY <2>2, <2>3, <2>4, <4>1
      <4> QED
        BY <1>3, <3>1, <4>2, Windows
    <3> QED
      BY <2>2, <3>1, <3>2, <3>3
  <2>9. ASSUME NEW i \in 1 .. r, NEW j \in 1 .. r, i <= j PROVE rest[i] >= rest[j]
    <3>1. k + i - 1 \in 1 .. n /\ k + j - 1 \in 1 .. n /\ k + i - 1 <= k + j - 1
      BY <2>2, <2>4, <2>5, <2>9
    <3>2. f[k + i - 1] >= f[k + j - 1]
      BY <2>2, <3>1
    <3> QED
      BY <2>3, <2>4, <3>1, <3>2
  <2>10. r < Threshold /\ d >= 0
    BY <2>2, <2>4, <2>5, Windows
  <2> QED
    BY <1>2, <2>7, <2>8, <2>9, <2>10 DEF WindowInv, r, d
<1>7. ASSUME b.state # "closed", o < Recovery PROVE \E i \in DOMAIN aged : aged[i] = o
  <2>1. o = b.opened + 1 /\ b.opened < Recovery
    BY <1>1, <1>7, Windows DEF o
  <2>2. PICK i \in DOMAIN l : l[i] = b.opened
    BY <1>7, <2>1 DEF BreakerInv
  <2>3. aged[i] = o
    BY <1>1, <1>3, <2>1, <2>2, Windows
  <2> QED
    BY <1>3, <2>2, <2>3
<1> QED
  BY <1>2, <1>3, <1>5, <1>6, <1>7 DEF BreakerInv, after, aged

LEMMA FailedKeeps ==
  ASSUME NEW b, NEW l, BreakerInv(b, l)
  PROVE  BreakerInv(Failed(b), Append(l, 0))
<1> DEFINE f == b.failures
           longer == Append(l, 0)
           counted == Append(f, 0)
           after == Failed(b)
<1>1. /\ b \in [state : {"closed", "open", "half_open"}, failures : Seq(Nat), opened : 0 .. Recovery,
                probes : {0}]
      /\ l \in Seq(Nat) /\ f \in Seq(Nat)
  BY DEF BreakerInv
<1>2. /\ longer \in Seq(Nat) /\ Len(longer) = Len(l) + 1 /\ longer[Len(l) + 1] = 0
      /\ \A i \in 1 .. Len(l) : longer[i] = l[i]
      /\ DOMAIN longer = 1 .. Len(l) + 1 /\ DOMAIN l = 1 .. Len(l) /\ Len(l) \in Nat
  BY <1>1, Windows
<1>3. /\ counted \in Seq(Nat) /\ Len(counted) = Len(f) + 1 /\ counted[Len(f) + 1] = 0 /\ Len(f) \in Nat
      /\ \A i \in 1 .. Len(f) : counted[i] = f[i] /\ f[i] \in Nat
  BY <1>1
<1>4. /\ after \in [state : {"closed", "open", "half_open"}, failures : Seq(Nat), opened : 0 .. Recovery,
                    probes : {0}]
      /\ after.state = "closed" => b.state = "closed" /\ after.failures = counted /\ Len(counted) < Threshold
      /\ after.state # "closed" => \/ after.opened = 0
                                   \/ after.opened = b.opened /\ b.state # "closed"
  <2> DEFINE fields == [state : {"closed", "open", "half_open"}, failures : Seq(Nat), opened : 0 .. Recovery,
                        probes : {0}]
  <2>0. 0 \in 0 .. Recovery
    BY Windows
  <2>1. PICK st \in {"closed", "open", "half_open"}, o \in 0 .. Recovery :
           b = [state |-> st, failures |-> f, opened |-> o, probes |-> 0]
    BY <1>1
  <2> HIDE DEF f, counted
  <2>2. CASE b.state = "half_open"
    <3>1. after = [state |-> "open", failures |-> f, opened |-> 0, probes |-> 0]
      BY <2>1, <2>2 DEF Failed
    <3> QED
      BY <1>1, <2>0, <3>1 DEF f
  <2>3. CASE b.state # "half_open" /\ Len(counted) >= Threshold
    <3>1. after = [b EXCEPT !.state = "open", !.opened = 0, !.failures = counted]
      BY <2>3 DEF Failed, f, counted
    <3>2. after = [state |-> "open", failures |-> counted, opened |-> 0, probes |-> 0]
      BY <2>1, <3>1
    <3> QED
      BY <1>3, <2>0, <3>2
  <2>4. CASE b.state # "half_open" /\ ~(Len(counted) >= Threshold)
    <3>0. after = [b EXCEPT !.failures = counted]
      BY <2>4 DEF Failed, f, counted
    <3>1. after = [state |-> st, failures |-> counted, opened |-> o, probes |-> 0]
      BY <2>1, <3>0
    <3>2. b.state = st /\ b.opened = o
      BY <2>1
    <3> HIDE DEF after
    <3> QED
      BY <1>3, <2>4, <3>1, <3>2, Windows
  <2> QED
    BY <2>2, <2>3, <2>4
<1> HIDE DEF longer, counted, after
<1>5. ASSUME after.state = "closed" PROVE WindowInv(after, longer)
  <2> DEFINE n == Len(f)  m == Len(l) - n
  <2>1. WindowInv(b, l) /\ after.failures = counted /\ Len(counted) < Threshold
    BY <1>4, <1>5 DEF BreakerInv
  <2>2. /\ m >= 0 /\ n \in Nat /\ m \in Nat
        /\ \A i \in 1 .. n : l[m + i] = f[i] /\ f[i] < RollingWindow
        /\ \A i, j \in 1 .. n : i <= j => f[i] >= f[j]
        /\ \A i \in 1 .. m : l[i] >= RollingWindow
    BY <1>1, <2>1 DEF WindowInv
  <2>3. Len(counted) = n + 1 /\ Len(longer) - Len(counted) = m
    BY <1>2, <1>3
  <2>4. Len(l) = m + n
    BY <1>2, <2>2
  <2> HIDE DEF n, m, f
  <2>5. ASSUME NEW i \in 1 .. n + 1 PROVE longer[m + i] = counted[i] /\ counted[i] < RollingWindow
    <3>1. CASE i = n + 1
      BY <1>2, <1>3, <2>2, <2>4, <3>1, Windows DEF n
    <3>2. CASE i # n + 1
      <4>1. i \in 1 .. n /\ m + i \in 1 .. Len(l)
        BY <2>2, <2>4, <3>2
      <4> QED
        BY <1>2, <1>3, <2>2, <4>1 DEF n
    <3> QED
      BY <3>1, <3>2
  <2>6. ASSUME NEW i \in 1 .. n + 1, NEW j \in 1 .. n + 1, i <= j PROVE counted[i] >= counted[j]
    <3>1. counted[i] \in Nat
      BY <1>3, <2>3
    <3>2. CASE j = n + 1
      BY <1>3, <3>1, <3>2 DEF n
    <3>3. CASE j # n + 1
      <4>1. i \in 1 .. n /\ j \in 1 .. n
        BY <2>2, <2>6, <3>3
      <4> QED
        BY <1>3, <2>2, <2>6, <4>1 DEF n
    <3> QED
      BY <3>2, <3>3
  <2>7. \A i \in 1 .. m : longer[i] >= RollingWindow
    BY <1>2, <2>2, <2>4
  <2> QED
    BY <2>1, <2>2, <2>3, <2>5, <2>6, <2>7 DEF WindowInv
<1>6. ASSUME after.state # "closed", after.opened < Recovery PROVE \E i \in DOMAIN longer : longer[i] = after.opened
  <2>1. CASE after.opened = 0
    <3>1. Len(l) + 1 \in DOMAIN longer
      BY <1>2
    <3> QED
      BY <1>2, <2>1, <3>1
  <2>2. CASE after.opened = b.opened /\ b.state # "closed"
    <3>1. PICK i \in DOMAIN l : l[i] = b.opened
      BY <1>6, <2>2 DEF BreakerInv
    <3>2. i \in DOMAIN longer /\ longer[i] = l[i]
      BY <1>2
    <3> QED
      BY <2>2, <3>1, <3>2
  <2> QED
    BY <1>4, <1>6, <2>1, <2>2
<1> QED
  BY <1>2, <1>4, <1>5, <1>6 DEF BreakerInv, after, longer

LEMMA SucceededKeeps ==
  ASSUME NEW b, NEW l, BreakerInv(b, l)
  PROVE  BreakerInv(Succeeded(b), <<>>)
<1> DEFINE after == Succeeded(b)
<1>1. PICK st \in {"closed", "open", "half_open"}, f \in Seq(Nat), o \in 0 .. Recovery :
         b = [state |-> st, failures |-> f, opened |-> o, probes |-> 0]
  BY DEF BreakerInv
<1>2. after = [state |-> "closed", failures |-> <<>>, opened |-> o, probes |-> 0]
  <2>1. after = [b EXCEPT !.state = "closed", !.failures = <<>>, !.probes = 0]
    BY DEF Succeeded
  <2> HIDE DEF after
  <2> QED
    BY <1>1, <2>1
<1>3. WindowInv(after, <<>>)
  BY <1>2, Windows DEF WindowInv
<1> QED
  BY <1>2, <1>3 DEF BreakerInv

LEMMA AdmittedKeeps ==
  ASSUME NEW b, NEW l, BreakerInv(b, l)
  PROVE  BreakerInv(Admitted(b), l)
<1>1. CASE b.state # "open"
  BY <1>1 DEF Admitted
<1>2. CASE b.state = "open"
  BY <1>2 DEF BreakerInv, Admitted
<1> QED
  BY <1>1, <1>2
-----------------------------------------------------------------------------
(* Requests to the models.                                                 *)
BreakersInv ==
  /\ DOMAIN breaker = Providers /\ DOMAIN log = Providers
  /\ \A x \in Providers : BreakerInv(breaker[x], log[x])

(* The registry names a stream that runs, or none that is alone does.      *)
StreamsInv ==
  /\ at \in [Requests -> Places]
  /\ registry \in [Conversations -> Streams \cup {None}]
  /\ late = {}
  /\ \A c \in Conversations : registry[c] # None => Live(registry[c]) /\ Conversation[registry[c]] = c
  /\ \A s \in Streams : Live(s) /\ s \notin shared => registry[Conversation[s]] = s
  /\ \A s, o \in Streams : Live(s) /\ Live(o) /\ Conversation[s] = Conversation[o] /\ s # o => s \in shared

LEMMA Choosing ==
  ASSUME BreakersInv, StreamsInv, NEW r \in Requests, NEW left, NEW now, Proceed(r, left, now),
         ~Live(r), UNCHANGED streaming,
         DOMAIN now = Providers /\ \A x \in Providers : BreakerInv(now[x], log'[x]),
         DOMAIN log' = Providers
  PROVE  BreakersInv' /\ StreamsInv'
<1>1. BreakersInv'
  <2>1. CASE breaker' = now
    BY <2>1 DEF BreakersInv
  <2>2. ASSUME NEW x, breaker' = [now EXCEPT ![x] = Admitted(@)] PROVE BreakersInv'
    BY <2>2, AdmittedKeeps DEF BreakersInv
  <2> QED
    BY <2>1, <2>2 DEF Proceed
<1>2. StreamsInv'
  <2>1. PICK spot \in {"checking", "failed"} : at' = [at EXCEPT ![r] = spot]
    BY DEF Proceed
  <2>2. at' \in [Requests -> Places]
    BY <2>1 DEF StreamsInv, Places
  <2>3. \A s \in Streams : Live(s)' <=> Live(s)
    BY <2>1, RouterConstants DEF StreamsInv, Live
  <2> QED
    BY <2>2, <2>3 DEF StreamsInv, streaming
<1> QED
  BY <1>1, <1>2

LEMMA RequestKeeps ==
  ASSUME BreakersInv, StreamsInv, NEW r \in Requests, Request(r)
  PROVE  BreakersInv' /\ StreamsInv'
<1>1. ASSUME NEW preferred \in Preferred, Begin(r, preferred) PROVE BreakersInv' /\ StreamsInv'
  BY <1>1, Choosing DEF Begin, Live, BreakersInv
<1>2. CASE Unhealthy(r)
  BY <1>2, Choosing DEF Unhealthy, Live, BreakersInv
<1>3. CASE Healthy(r)
  <2>1. \A s \in Streams : Live(s)' <=> Live(s)
    BY <1>3 DEF Healthy, Live, StreamsInv
  <2>2. at' \in [Requests -> Places]
    BY <1>3 DEF Healthy, StreamsInv, Places
  <2> QED
    BY <1>3, <2>1, <2>2 DEF Healthy, StreamsInv, BreakersInv, routing, streaming
<1>4. CASE Generated(r)
  <2>1. \A s \in Streams : Live(s)' <=> Live(s)
    BY <1>4, RouterConstants DEF Generated, Live, StreamsInv
  <2>2. at' \in [Requests -> Places]
    BY <1>4 DEF Generated, StreamsInv, Places
  <2>3. BreakersInv'
    BY <1>4, SucceededKeeps DEF Generated, BreakersInv
  <2> QED
    BY <1>4, <2>1, <2>2, <2>3 DEF Generated, StreamsInv, streaming
<1>5. CASE GenerateFails(r)
  <2> DEFINE now == [breaker EXCEPT ![Provider(r)] = Failed(@)]
  <2>1. /\ Proceed(r, Tail(plan[r]), now) /\ UNCHANGED streaming /\ ~Live(r)
        /\ log' = [log EXCEPT ![Provider(r)] = Append(@, 0)]
    BY <1>5 DEF GenerateFails, Live
  <2>2. DOMAIN now = Providers /\ DOMAIN log' = Providers
        /\ \A x \in Providers : BreakerInv(now[x], log'[x])
    BY <2>1, FailedKeeps DEF BreakersInv
  <2> QED
    BY <2>1, <2>2, Choosing
<1> QED
  BY <1>1, <1>2, <1>3, <1>4, <1>5 DEF Request

LEMMA StreamKeeps ==
  ASSUME BreakersInv, StreamsInv, NEW s \in Streams, Stream(s)
  PROVE  BreakersInv' /\ StreamsInv'
<1> USE RouterConstants
<1>0. s \in Requests /\ Conversation[s] \in Conversations /\ None \notin Streams
  BY DEF Conversations
<1>1. BreakersInv'
  BY DEF Stream, StreamGiven, Starts, Token, Exhausted, EndSent, Stopped, StreamFails, Moves, Ended,
         routing, BreakersInv
<1>2. CASE StreamGiven(s)
  <2>1. /\ at' = [at EXCEPT ![s] = "created"] /\ ~Live(s)
        /\ registry' = [registry EXCEPT ![Conversation[s]] = s] /\ late' = late
    BY <1>2 DEF StreamGiven, Live
  <2>2. \A o \in Streams : Live(o)' <=> Live(o) \/ o = s
    BY <1>0, <2>1 DEF StreamsInv, Live
  <2>3. /\ shared \subseteq shared'
        /\ \A o \in Streams : Live(o) /\ Conversation[o] = Conversation[s] => o \in shared' /\ s \in shared'
    BY <1>2 DEF StreamGiven, Of
  <2>4. at' \in [Requests -> Places] /\ registry' \in [Conversations -> Streams \cup {None}]
    BY <1>0, <2>1 DEF StreamsInv, Places
  <2>5. ASSUME NEW c \in Conversations
        PROVE  (registry[c] # None => Live(registry[c]) /\ Conversation[registry[c]] = c)'
    <3>1. registry'[c] = IF c = Conversation[s] THEN s ELSE registry[c]
      BY <2>1 DEF StreamsInv
    <3>2. registry[c] # None => registry[c] \in Streams
      BY DEF StreamsInv
    <3>3. at'[s] = "created"
      BY <1>0, <2>1 DEF StreamsInv
    <3>4. CASE c = Conversation[s]
      BY <3>1, <3>3, <3>4 DEF Live
    <3>5. CASE c # Conversation[s]
      <4>1. registry'[c] = registry[c]
        BY <3>1, <3>5
      <4>2. registry[c] # None => at'[registry[c]] \in {"created", "streaming", "ending"} /\ Conversation[registry[c]] = c
        BY <2>2, <3>2 DEF StreamsInv, Live
      <4> QED
        BY <4>1, <4>2 DEF Live
    <3> QED
      BY <3>4, <3>5
  <2>6. \A o \in Streams : Live(o)' /\ o \notin shared' => registry'[Conversation[o]] = o
    BY <1>0, <2>1, <2>2, <2>3 DEF StreamsInv
  <2>7. \A t, o \in Streams : Live(t)' /\ Live(o)' /\ Conversation[t] = Conversation[o] /\ t # o => t \in shared'
    BY <2>2, <2>3 DEF StreamsInv
  <2> QED
    BY <1>1, <2>1, <2>4, <2>5, <2>6, <2>7 DEF StreamsInv
<1>3. CASE Starts(s) \/ Token(s) \/ Exhausted(s)
  <2>1. PICK spot \in {"streaming", "ending"} : at' = [at EXCEPT ![s] = spot] /\ Live(s)
    BY <1>3 DEF Starts, Token, Exhausted, Moves, Live
  <2>2. \A o \in Streams : Live(o)' <=> Live(o)
    BY <1>0, <2>1 DEF StreamsInv, Live
  <2>3. at' \in [Requests -> Places]
    BY <1>0, <2>1 DEF StreamsInv, Places
  <2>4. late' = late /\ UNCHANGED <<registry, shared>>
    BY <1>3 DEF Starts, Token, Exhausted, Moves
  <2> QED
    BY <1>1, <2>2, <2>3, <2>4 DEF StreamsInv
<1>4. CASE Ended(s) /\ Live(s)
  <2>1. /\ at' = [at EXCEPT ![s] = "ended"] /\ registry' = [registry EXCEPT ![Conversation[s]] = None]
        /\ UNCHANGED <<late, shared>>
    BY <1>4 DEF Ended
  <2>2. \A o \in Streams : Live(o)' <=> Live(o) /\ o # s
    BY <1>0, <2>1 DEF StreamsInv, Live
  <2>3. at' \in [Requests -> Places] /\ registry' \in [Conversations -> Streams \cup {None}]
    BY <1>0, <2>1 DEF StreamsInv, Places
  <2>4. ASSUME NEW c \in Conversations
        PROVE  (registry[c] # None => Live(registry[c]) /\ Conversation[registry[c]] = c)'
    <3>1. registry'[c] = IF c = Conversation[s] THEN None ELSE registry[c]
      BY <2>1 DEF StreamsInv
    <3>2. registry[c] # None => /\ registry[c] \in Streams /\ Live(registry[c])
                                /\ Conversation[registry[c]] = c
      BY DEF StreamsInv
    <3>3. CASE c = Conversation[s]
      BY <3>1, <3>3
    <3>4. CASE c # Conversation[s]
      <4>1. registry'[c] = registry[c]
        BY <3>1, <3>4
      <4>2. registry[c] # None => at'[registry[c]] \in {"created", "streaming", "ending"}
        BY <2>2, <3>2, <3>4 DEF Live
      <4> QED
        BY <3>2, <4>1, <4>2 DEF Live
    <3> QED
      BY <3>3, <3>4
  <2>5. \A o \in Streams : Live(o)' /\ o \notin shared' => registry'[Conversation[o]] = o
    BY <1>0, <1>4, <2>1, <2>2 DEF StreamsInv
  <2> QED
    BY <1>1, <2>1, <2>2, <2>3, <2>4, <2>5 DEF StreamsInv
<1>5. EndSent(s) \/ Stopped(s) \/ StreamFails(s) => Ended(s) /\ Live(s)
  BY DEF EndSent, Stopped, StreamFails, Live
<1> QED
  BY <1>2, <1>3, <1>4, <1>5 DEF Stream

LEMMA RoutingKept == BreakersInv /\ StreamsInv /\ [Next]_vars => BreakersInv' /\ StreamsInv'
<1> SUFFICES ASSUME BreakersInv, StreamsInv, [Next]_vars PROVE BreakersInv' /\ StreamsInv'
  OBVIOUS
<1>1. ASSUME UNCHANGED <<at, registry, late, shared>> PROVE StreamsInv'
  BY <1>1 DEF StreamsInv, Live
<1>2. ASSUME NEW c \in Conversations, Cancel(c) PROVE BreakersInv' /\ StreamsInv'
  BY <1>1, <1>2 DEF Cancel, routing, BreakersInv
<1>3. CASE Tick
  <2>1. BreakersInv'
    BY <1>3, AgedKeeps DEF Tick, BreakersInv
  <2> QED
    BY <1>1, <1>3, <2>1 DEF Tick, streaming
<1>4. CASE UNCHANGED vars
  BY <1>1, <1>4 DEF vars, BreakersInv
<1> QED
  BY <1>2, <1>3, <1>4, RequestKeeps, StreamKeeps DEF Next

LEMMA RoutingHolds == BreakersInv /\ StreamsInv => RoutingSound
<1> SUFFICES ASSUME BreakersInv, StreamsInv PROVE RoutingSound
  OBVIOUS
<1>1. ASSUME NEW x \in Providers, breaker[x].state = "closed"
      PROVE  Cardinality({i \in DOMAIN log[x] : log[x][i] < RollingWindow}) < Threshold
  <2> DEFINE l == log[x]
             n == Len(breaker[x].failures)
             m == Len(l) - n
  <2>1. WindowInv(breaker[x], l) /\ l \in Seq(Nat) /\ breaker[x].failures \in Seq(Nat)
    BY <1>1 DEF BreakersInv, BreakerInv
  <2>2. /\ Len(l) \in Nat /\ DOMAIN l = 1 .. Len(l) /\ n \in Nat
        /\ \A i \in 1 .. Len(l) : l[i] \in Nat
    BY <2>1, Elements
  <2>7. /\ n < Threshold /\ m >= 0
        /\ \A i \in 1 .. n : l[m + i] = breaker[x].failures[i] /\ breaker[x].failures[i] < RollingWindow
        /\ \A i \in 1 .. m : l[i] >= RollingWindow
    BY Zenon, <2>1 DEF WindowInv
  <2>3. /\ n < Threshold /\ m \in Nat
        /\ \A i \in 1 .. n : l[m + i] < RollingWindow
        /\ \A i \in 1 .. m : l[i] >= RollingWindow
    <3> HIDE DEF l, n
    <3>1. Len(l) \in Nat /\ n \in Nat /\ m >= 0
      BY <2>2, <2>7, Zenon
    <3>2. m \in Nat
      BY <3>1
    <3>3. \A i \in 1 .. n : l[m + i] < RollingWindow
      <4> HIDE DEF m
      <4> QED
        BY <2>7, Zenon
    <3> QED
      BY <2>7, <3>2, <3>3, Zenon
  <2> HIDE DEF l, n
  <2>4. \A i \in 1 .. Len(l) : l[i] < RollingWindow <=> i \in m + 1 .. Len(l)
    <3> SUFFICES ASSUME NEW i \in 1 .. Len(l) PROVE l[i] < RollingWindow <=> i \in m + 1 .. Len(l)
      OBVIOUS
    <3>1. CASE i <= m
      BY <2>2, <2>3, <3>1, Windows
    <3>2. CASE i > m
      <4>1. i - m \in 1 .. n /\ m + (i - m) = i
        BY <2>2, <2>3, <3>2
      <4>2. l[i] < RollingWindow
        BY <2>3, <4>1
      <4> QED
        BY <2>2, <2>3, <3>2, <4>2
    <3> QED
      BY <2>2, <2>3, <3>1, <3>2
  <2>5. {i \in DOMAIN l : l[i] < RollingWindow} = m + 1 .. Len(l)
    BY <2>2, <2>3, <2>4
  <2>6. Cardinality(m + 1 .. Len(l)) = n
    BY <2>2, <2>3, FS_Interval
  <2> QED
    BY <2>3, <2>5, <2>6 DEF l
<1>2. TripsWhenDue
  BY <1>1 DEF TripsWhenDue, BreakersInv, BreakerInv
<1>3. NeverStuck
  BY Windows DEF NeverStuck, Available, BreakersInv, BreakerInv
<1>4. CancelReaches
  BY DEF CancelReaches, StreamsInv
<1> QED
  BY <1>2, <1>3, <1>4 DEF RoutingSound

LEMMA RoutingStarts == Init => BreakersInv /\ StreamsInv
<1> SUFFICES ASSUME Init PROVE BreakersInv /\ StreamsInv
  OBVIOUS
<1>1. ASSUME NEW x \in Providers PROVE BreakerInv(breaker[x], log[x])
  <2>1. breaker[x] = [state |-> "closed", failures |-> <<>>, opened |-> Recovery, probes |-> 0]
        /\ log[x] = <<>>
    BY DEF Init
  <2> QED
    BY <2>1, Windows DEF BreakerInv, WindowInv
<1> QED
  <2>1. BreakersInv
    BY <1>1 DEF Init, BreakersInv
  <2>2. \A s \in Streams : ~Live(s)
    BY RouterConstants DEF Init, Live
  <2> QED
    BY <2>1, <2>2 DEF Init, StreamsInv, Places
-----------------------------------------------------------------------------
(* Personas.                                                               *)

(* A chat that found its user's default has seen it, and one that answered *)
(* has seen what its answer rests on.                                      *)
ChatTrue(c) ==
  LET defaults == {s[1] : s \in seen[c]} IN
  \/ used[c] \in defaults /\ \E s \in seen[c] : used[c] \in s[2]
  \/ /\ used[c] = Professional
     /\ \/ c \in broken \/ None \in defaults
        \/ \E d \in defaults, s \in seen[c] : d \notin s[2]

ChatsInv ==
  /\ DOMAIN place = P!Calls /\ DOMAIN found = P!Calls /\ DOMAIN used = Chats /\ DOMAIN seen = Chats
  /\ \A c \in Chats : /\ place[c] = "resolving" => \E s \in seen[c] : s[1] = found[c]
                      /\ place[c] = "answered" => ChatTrue(c)

OpsAt ==
  [inserting |-> {"create", "clone"}, refreshing |-> {"create", "clone", "update"},
   naming |-> {"clone"}, looking |-> {"update", "delete", "clone"}, selecting |-> {"update", "delete"},
   updating |-> {"update"}, deleting |-> {"delete"}, choosing |-> {"prefer"}, preferring |-> {"prefer"}]

(* A row keeps its user and its id is not given again: what an edit read   *)
(* of either is true as long as the row is there.                          *)
EditInv(e) ==
  /\ place[e] # "new" => DOMAIN wish[e] = {"op", "user", "persona", "name"}
  /\ place[e] \in DOMAIN OpsAt => wish[e].op \in OpsAt[place[e]]
  /\ place[e] \in {"updating", "deleting"} => found[e] \in made
  /\ place[e] = "updating" /\ found[e] \in DOMAIN rows => rows[found[e]].user = wish[e].user
  /\ place[e] = "refreshing" /\ wish[e].op \in {"create", "clone"} => found[e] \in made
  /\ \/ place[e] = "ok" /\ wish[e].op = "delete"
     \/ place[e] = "failed" /\ wish[e].op \in {"create", "clone"}
     => found[e] \in made \cup {None} /\ found[e] \notin DOMAIN rows

RowsInv ==
  /\ DOMAIN rows \subseteq made /\ made \subseteq Ids
  /\ \A i \in DOMAIN rows : rows[i] = [user |-> rows[i].user, name |-> rows[i].name]
  /\ \A i, j \in DOMAIN rows : rows[i] = rows[j] => i = j

EditsInv == RowsInv /\ DOMAIN wish = Edits /\ \A e \in Edits : EditInv(e)

LEMMA ChatStep ==
  ASSUME ChatsInv, P!Next, NEW c \in Chats, P!ReadDefault(c) \/ P!Resolve(c)
  PROVE  ChatsInv'
<1>1. c \in P!Calls /\ UNCHANGED <<rows, default>>
  BY DEF P!Calls, P!ReadDefault, P!Resolve, P!Resolving
<1>2. place' = [place EXCEPT ![c] = place'[c]] /\ place[c] \in {"new", "resolving"}
      /\ place'[c] \in {"resolving", "answered"}
  BY <1>1 DEF P!ReadDefault, P!Resolve, P!Go, ChatsInv
<1>3. /\ seen'[c] = seen[c] \cup {P!Watched(c)} /\ DOMAIN seen' = Chats
      /\ \A o \in Chats \ {c} : seen[o] \subseteq seen'[o] /\ (place[o] = "answered" => seen'[o] = seen[o])
  BY <1>1, <1>2 DEF P!Next, P!Watched, P!Default
<1>4. /\ DOMAIN found' = P!Calls /\ DOMAIN used' = Chats /\ DOMAIN place' = P!Calls
      /\ \A o \in Chats \ {c} : found'[o] = found[o] /\ used'[o] = used[o] /\ place'[o] = place[o]
      /\ broken \subseteq broken' /\ \A o \in Chats \ {c} : o \in broken' => o \in broken
  <2>1. /\ found' = found \/ \E x : found' = [found EXCEPT ![c] = x]
        /\ \E x : used' = [used EXCEPT ![c] = x]
        /\ broken' = broken \/ broken' = broken \cup {c}
    BY DEF P!ReadDefault, P!Resolve, P!Find
  <2>2. \A o \in Chats \ {c} : o \in P!Calls /\ place'[o] = place[o]
    BY <1>1, <1>2 DEF ChatsInv, P!Calls
  <2>3. DOMAIN found' = P!Calls /\ \A o \in Chats \ {c} : found'[o] = found[o]
    BY <1>1, <2>1, <2>2 DEF ChatsInv
  <2>4. DOMAIN used' = Chats /\ \A o \in Chats \ {c} : used'[o] = used[o]
    BY <2>1 DEF ChatsInv
  <2>5. DOMAIN place' = P!Calls
    BY <1>2 DEF ChatsInv
  <2> QED
    BY <2>1, <2>2, <2>3, <2>4, <2>5
<1>5. ASSUME NEW o \in Chats \ {c}
      PROVE  (/\ place[o] = "resolving" => \E s \in seen[o] : s[1] = found[o]
              /\ place[o] = "answered" => ChatTrue(o))'
  BY <1>3, <1>4, <1>5 DEF ChatsInv, ChatTrue
<1>6. P!Watched(c) = <<P!Default(UserOf[c]), DOMAIN rows \cup Presets>>
  BY DEF P!Watched
<1> DEFINE d == P!Default(UserOf[c])
<1> HIDE DEF d
<1>7. /\ P!Watched(c) \in seen'[c] /\ P!Watched(c)[1] = d /\ P!Watched(c)[2] = DOMAIN rows \cup Presets
      /\ seen[c] \subseteq seen'[c]
  BY <1>3, <1>6 DEF d
<1>8. CASE P!ReadDefault(c)
  <2>1. \/ /\ place'[c] = "resolving" /\ found'[c] = d
        \/ /\ place'[c] = "answered" /\ used'[c] = Professional /\ (d = None \/ c \in broken')
    BY <1>1, <1>8 DEF P!ReadDefault, P!Go, P!Find, ChatsInv, d
  <2> QED
    BY <1>4, <1>3, <1>5, <1>7, <2>1 DEF ChatsInv, ChatTrue
<1>9. CASE P!Resolve(c)
  <2>1. PICK s \in seen[c] : s[1] = found[c]
    BY <1>9 DEF P!Resolve, ChatsInv
  <2>2. /\ place'[c] = "answered"
        /\ \/ used'[c] = found[c] /\ found[c] \in DOMAIN rows \cup Presets
           \/ used'[c] = Professional /\ (found[c] \notin DOMAIN rows \cup Presets \/ c \in broken')
    BY <1>1, <1>9 DEF P!Resolve, P!Go, P!Exists, ChatsInv
  <2>3. ChatTrue(c)'
    BY <1>7, <2>1, <2>2 DEF ChatTrue
  <2> QED
    BY <1>3, <1>4, <1>5, <2>2, <2>3 DEF ChatsInv
<1> QED
  BY <1>8, <1>9

(* What an edit does leaves chats as they are, but for what they see.      *)
LEMMA ChatsUndisturbed ==
  ASSUME ChatsInv, P!Next, NEW e \in Edits, UNCHANGED <<used, broken>>,
         DOMAIN place' = P!Calls, DOMAIN found' = P!Calls,
         \A r \in P!Calls \ {e} : place'[r] = place[r] /\ found'[r] = found[r]
  PROVE  ChatsInv'
<1>1. DOMAIN seen' = Chats
      /\ \A c \in Chats : seen[c] \subseteq seen'[c] /\ (place[c] = "answered" => seen'[c] = seen[c])
  BY DEF P!Next
<1>2. \A c \in Chats : place'[c] = place[c] /\ found'[c] = found[c]
  BY PersonaConstants DEF P!Calls
<1> QED
  BY <1>1, <1>2 DEF ChatsInv, ChatTrue
(* Of the edits only e moves, and the ids that were given out keep their   *)
(* rows, or lose them.                                                     *)
Edit(e) ==
  /\ DOMAIN place' = P!Calls /\ DOMAIN found' = P!Calls /\ DOMAIN wish' = Edits
  /\ \A r \in P!Calls \ {e} : place'[r] = place[r] /\ found'[r] = found[r]
  /\ \A o \in Edits \ {e} : wish'[o] = wish[o]
  /\ made \subseteq made' /\ UNCHANGED <<used, broken>>
  /\ \A i \in made : i \in DOMAIN rows' => i \in DOMAIN rows /\ rows'[i].user = rows[i].user

LEMMA EditKeeps ==
  ASSUME ChatsInv, EditsInv, P!Next, NEW e \in Edits, Edit(e), RowsInv', EditInv(e)'
  PROVE  ChatsInv' /\ EditsInv'
<1>1. ASSUME NEW o \in Edits, o # e PROVE EditInv(o)'
  <2>1. wish'[o] = wish[o] /\ place'[o] = place[o] /\ found'[o] = found[o]
    BY <1>1 DEF Edit, P!Calls
  <2>2. None \notin DOMAIN rows'
    BY PersonaConstants DEF RowsInv
  <2>3. EditInv(o)
    BY DEF EditsInv
  <2> QED
    BY <2>1, <2>2, <2>3 DEF EditInv, Edit
<1> QED
  BY <1>1, ChatsUndisturbed DEF EditsInv, Edit

LEMMA EditStep ==
  ASSUME ChatsInv, EditsInv, P!Next, NEW e \in Edits,
         \/ \E w \in P!Wishes : P!Begin(e, w)
         \/ \E i \in Ids : P!Insert(e, i)
         \/ P!Look(e) \/ P!NameCopy(e) \/ P!Refresh(e) \/ P!Select(e) \/ P!Update(e) \/ P!Delete(e)
         \/ P!Choose(e) \/ P!Prefer(e)
  PROVE  ChatsInv' /\ EditsInv'
<1> USE DEF P!Go, P!Find, P!Mine, P!Reading, P!Elsewhere
<1>0. /\ e \in P!Calls /\ DOMAIN place = P!Calls /\ DOMAIN found = P!Calls /\ DOMAIN wish = Edits
      /\ EditInv(e) /\ RowsInv
  BY DEF P!Calls, ChatsInv, EditsInv
<1>1. ASSUME UNCHANGED <<rows, made>> PROVE RowsInv'
  BY <1>0, <1>1 DEF RowsInv
<1>2. ASSUME NEW w \in P!Wishes, P!Begin(e, w) PROVE ChatsInv' /\ EditsInv'
  <2>1. /\ wish'[e] = w /\ DOMAIN w = {"op", "user", "persona", "name"}
        /\ w.op \in {"create", "update", "delete", "clone", "prefer"}
    BY <1>0, <1>2 DEF P!Begin, P!Wishes
  <2>2. place'[e] = CASE w.op = "create" -> IF w.name \in P!Reserved THEN "refused" ELSE "inserting"
                      [] w.op = "prefer" -> "choosing"
                      [] OTHER -> "looking"
    BY <1>0, <1>2 DEF P!Begin
  <2>3. EditInv(e)'
    BY <2>1, <2>2 DEF EditInv, OpsAt
  <2>4. Edit(e)
    BY <1>0, <1>2 DEF Edit, P!Begin
  <2> QED
    BY <1>1, <1>2, <2>3, <2>4, EditKeeps DEF P!Begin
<1>3. CASE P!Look(e)
  <2>1. /\ place[e] = "looking" /\ place'[e] \in {"refused", "naming", "selecting"} /\ wish' = wish
        /\ place'[e] = "naming" => wish[e].op = "clone"
        /\ place'[e] = "selecting" => wish[e].op # "clone"
    BY <1>0, <1>3 DEF P!Look
  <2>2. EditInv(e)'
    BY <1>0, <2>1 DEF EditInv, OpsAt
  <2>3. Edit(e)
    BY <1>0, <1>3 DEF Edit, P!Look
  <2> QED
    BY <1>1, <1>3, <2>2, <2>3, EditKeeps DEF P!Look
<1>4. CASE P!NameCopy(e)
  <2>1. PICK n : wish' = [wish EXCEPT ![e].name = n]
    BY <1>4 DEF P!NameCopy
  <2>2. /\ place[e] = "naming" /\ place'[e] = "inserting" /\ UNCHANGED <<rows, made, found, used, broken>>
        /\ place' = [place EXCEPT ![e] = "inserting"]
    BY <1>0, <1>4 DEF P!NameCopy
  <2>3. DOMAIN wish[e] = {"op", "user", "persona", "name"} /\ wish[e].op = "clone"
    BY <1>0, <2>2 DEF EditInv, OpsAt
  <2>4. DOMAIN wish'[e] = {"op", "user", "persona", "name"} /\ wish'[e].op = "clone"
    BY <1>0, <2>1, <2>3
  <2>5. EditInv(e)'
    BY <2>2, <2>4 DEF EditInv, OpsAt
  <2>6. Edit(e)
    BY <1>0, <2>1, <2>2 DEF Edit
  <2> QED
    BY <1>1, <2>2, <2>5, <2>6, EditKeeps
<1>5. ASSUME NEW i \in Ids, P!Insert(e, i) PROVE ChatsInv' /\ EditsInv'
  <2> DEFINE row == [user |-> wish[e].user, name |-> wish[e].name]
  <2>1. place[e] = "inserting" /\ i \notin made /\ wish' = wish /\ UNCHANGED <<used, broken>>
        /\ wish[e].op \in {"create", "clone"} /\ DOMAIN wish[e] = {"op", "user", "persona", "name"}
    BY <1>0, <1>5 DEF P!Insert, EditInv, OpsAt
  <2>2. CASE P!Clash(i, wish[e].user, wish[e].name)
    <3>1. /\ place' = [place EXCEPT ![e] = "failed"] /\ found' = [found EXCEPT ![e] = None]
          /\ UNCHANGED <<rows, made>>
      BY <1>5, <2>2 DEF P!Insert
    <3>2. EditInv(e)'
      BY <1>0, <2>1, <3>1, PersonaConstants DEF EditInv, OpsAt, RowsInv
    <3>3. Edit(e)
      BY <1>0, <2>1, <3>1 DEF Edit
    <3> QED
      BY <1>1, <3>1, <3>2, <3>3, EditKeeps
  <2>3. CASE ~P!Clash(i, wish[e].user, wish[e].name)
    <3>1. /\ place' = [place EXCEPT ![e] = "refreshing"] /\ found' = [found EXCEPT ![e] = i]
          /\ rows' = [j \in DOMAIN rows \cup {i} |-> IF j = i THEN row ELSE rows[j]]
          /\ made' = made \cup {i}
      BY <1>5, <2>3 DEF P!Insert
    <3>2. EditInv(e)'
      BY <1>0, <2>1, <3>1 DEF EditInv, OpsAt
    <3>3. Edit(e)
      BY <1>0, <2>1, <3>1 DEF Edit
    <3>4. \A j \in DOMAIN rows : rows[j] # row
      BY <1>0, <2>1, <2>3 DEF P!Clash, RowsInv
    <3>5. RowsInv'
      <4>1. row = [user |-> row.user, name |-> row.name]
        OBVIOUS
      <4> HIDE DEF row
      <4> QED
        BY <1>0, <2>1, <3>1, <3>4, <4>1 DEF RowsInv
    <3> QED
      BY <3>2, <3>3, <3>5, EditKeeps
  <2> QED
    BY <2>2, <2>3
<1>6. CASE P!Refresh(e)
  <2>1. /\ place[e] = "refreshing" /\ place'[e] = IF found[e] \in DOMAIN rows THEN "ok" ELSE "failed"
        /\ UNCHANGED <<rows, made, wish, found, used, broken>>
    BY <1>0, <1>6 DEF P!Refresh
  <2>2. EditInv(e)'
    BY <1>0, <2>1 DEF EditInv, OpsAt
  <2>3. Edit(e)
    BY <1>0, <1>6, <2>1 DEF Edit, P!Refresh
  <2> QED
    BY <1>1, <2>1, <2>2, <2>3, EditKeeps
<1>7. CASE P!Select(e)
  <2>1. /\ place[e] = "selecting" /\ found'[e] = wish[e].persona /\ UNCHANGED <<rows, made, used, broken>>
        /\ place'[e] \in {"refused", "deleting", "updating"}
        /\ place'[e] # "refused" => /\ wish[e].persona \in DOMAIN rows
                                    /\ rows[wish[e].persona].user = wish[e].user
        /\ place'[e] = "deleting" => wish[e].op = "delete"
        /\ place'[e] = "updating" => wish[e].op # "delete"
    BY <1>0, <1>7 DEF P!Select
  <2>2. DOMAIN wish[e] = {"op", "user", "persona", "name"} /\ wish[e].op \in {"update", "delete"}
    BY <1>0, <2>1 DEF EditInv, OpsAt
  <2>3. /\ DOMAIN wish' = Edits /\ \A o \in Edits \ {e} : wish'[o] = wish[o]
        /\ DOMAIN wish'[e] = DOMAIN wish[e] /\ wish'[e].op = wish[e].op /\ wish'[e].user = wish[e].user
    <3>1. wish' = wish \/ wish' = [wish EXCEPT ![e].name = None]
      BY <1>7 DEF P!Select
    <3> QED
      BY <1>0, <2>2, <3>1
  <2>4. EditInv(e)'
    BY <1>0, <2>1, <2>2, <2>3 DEF EditInv, OpsAt, RowsInv
  <2>5. Edit(e)
    BY <1>0, <1>7, <2>3 DEF Edit, P!Select
  <2> QED
    BY <1>1, <2>1, <2>4, <2>5, EditKeeps
<1>8. CASE P!Update(e)
  <2> DEFINE it == found[e]  n == wish[e].name
  <2>1. /\ place[e] = "updating" /\ wish[e].op = "update" /\ it \in made
        /\ it \in DOMAIN rows => rows[it].user = wish[e].user
    BY <1>0, <1>8 DEF P!Update, EditInv, OpsAt
  <2>2. /\ UNCHANGED <<made, found, wish, used, broken>>
        /\ place' = [place EXCEPT ![e] = place'[e]] /\ place'[e] \in {"failed", "refreshing"}
        /\ \/ rows' = rows
           \/ /\ it \in DOMAIN rows /\ ~P!Clash(it, wish[e].user, n)
              /\ rows' = [rows EXCEPT ![it].name = n]
    BY <1>0, <1>8 DEF P!Update
  <2>3. /\ DOMAIN rows' = DOMAIN rows
        /\ \A i \in DOMAIN rows \ {it} : rows'[i] = rows[i]
        /\ rows' = rows \/ rows'[it] = [user |-> wish[e].user, name |-> n]
        /\ \A i \in DOMAIN rows : rows'[i].user = rows[i].user
    <3>1. CASE rows' = rows
      BY <3>1
    <3>2. CASE it \in DOMAIN rows /\ rows' = [rows EXCEPT ![it].name = n]
      <4>1. rows[it] = [user |-> wish[e].user, name |-> rows[it].name]
        BY <1>0, <2>1, <3>2 DEF RowsInv
      <4>2. rows'[it] = [user |-> wish[e].user, name |-> n]
        BY <3>2, <4>1
      <4> QED
        BY <2>1, <3>2, <4>2
    <3> QED
      BY <2>2, <3>1, <3>2
  <2>4. RowsInv'
    <3>1. CASE rows' = rows
      BY <1>1, <2>2, <3>1
    <3>2. CASE rows'[it] = [user |-> wish[e].user, name |-> n] /\ ~P!Clash(it, wish[e].user, n)
      <4>1. \A i \in DOMAIN rows \ {it} : rows[i] # rows'[it]
        BY <3>2 DEF P!Clash
      <4>2. rows'[it] = [user |-> rows'[it].user, name |-> rows'[it].name]
        BY <3>2
      <4> HIDE DEF it, n
      <4> QED
        BY <1>0, <2>2, <2>3, <4>1, <4>2 DEF RowsInv
    <3> QED
      BY <2>2, <2>3, <3>1, <3>2
  <2>5. EditInv(e)'
    BY <1>0, <2>1, <2>2 DEF EditInv, OpsAt
  <2>6. Edit(e)
    BY <1>0, <2>2, <2>3 DEF Edit
  <2> QED
    BY <2>4, <2>5, <2>6, EditKeeps
<1>9. CASE P!Delete(e)
  <2>1. /\ place[e] = "deleting" /\ place' = [place EXCEPT ![e] = "ok"]
        /\ UNCHANGED <<made, found, wish, used, broken>>
        /\ rows' = [i \in DOMAIN rows \ {found[e]} |-> rows[i]]
    BY <1>9 DEF P!Delete
  <2>2. EditInv(e)'
    BY <1>0, <2>1 DEF EditInv, OpsAt
  <2>3. Edit(e)
    BY <1>0, <2>1 DEF Edit
  <2>4. RowsInv'
    BY <1>0, <2>1 DEF RowsInv
  <2> QED
    BY <2>2, <2>3, <2>4, EditKeeps
<1>10. CASE P!Choose(e) \/ P!Prefer(e)
  <2>1. /\ place[e] \in {"choosing", "preferring"} /\ place'[e] \in {"preferring", "failed", "ok"}
        /\ UNCHANGED <<rows, made, wish, used, broken>>
    BY <1>0, <1>10 DEF P!Choose, P!Prefer
  <2>2. EditInv(e)'
    BY <1>0, <2>1 DEF EditInv, OpsAt
  <2>3. Edit(e)
    BY <1>0, <1>10, <2>1 DEF Edit, P!Choose, P!Prefer
  <2> QED
    BY <1>1, <2>1, <2>2, <2>3, EditKeeps
<1> QED
  BY <1>2, <1>3, <1>4, <1>5, <1>6, <1>7, <1>8, <1>9, <1>10

LEMMA PersonasKept == ChatsInv /\ EditsInv /\ [P!Next]_(P!vars) => ChatsInv' /\ EditsInv'
<1> SUFFICES ASSUME ChatsInv, EditsInv, [P!Next]_(P!vars) PROVE ChatsInv' /\ EditsInv'
  OBVIOUS
<1>1. ASSUME NEW c \in Chats, P!Next, P!ReadDefault(c) \/ P!Resolve(c) PROVE ChatsInv' /\ EditsInv'
  <2>1. \A e \in Edits : place'[e] = place[e] /\ found'[e] = found[e]
    BY <1>1, PersonaConstants DEF P!ReadDefault, P!Resolve, P!Go, P!Find, ChatsInv, P!Calls
  <2>2. UNCHANGED <<rows, made, wish>>
    BY <1>1 DEF P!ReadDefault, P!Resolve, P!Resolving
  <2>3. EditsInv'
    BY <2>1, <2>2 DEF EditsInv, RowsInv, EditInv
  <2> QED
    BY <1>1, <2>3, ChatStep
<1>2. CASE UNCHANGED P!vars
  BY <1>2 DEF P!vars, ChatsInv, ChatTrue, EditsInv, RowsInv, EditInv
<1> QED
  BY <1>1, <1>2, EditStep DEF P!Next, P!Step

LEMMA PersonasStart == P!Init => ChatsInv /\ EditsInv
<1> SUFFICES ASSUME P!Init PROVE ChatsInv /\ EditsInv
  OBVIOUS
<1>1. PICK S \in SUBSET Ids : rows \in [S -> [user : Accounts, name : {<<n>> : n \in Names}]]
  BY DEF P!Init
<1>2. RowsInv
  BY <1>1 DEF P!Init, RowsInv
<1>3. \A r \in P!Calls : place[r] = "new"
  BY DEF P!Init
<1> QED
  BY <1>2, <1>3 DEF P!Init, ChatsInv, EditsInv, EditInv, OpsAt, P!Calls

LEMMA PersonasHold == ChatsInv /\ EditsInv => P!PersonasSound
BY DEF ChatsInv, ChatTrue, EditsInv, EditInv, RowsInv, P!PersonasSound, P!ChatsUpToDate, P!EditsTrue

(* In every order of requests, results, edits and ticks: breakers open and *)
(* close for what failed in the window, cancellation reaches the stream    *)
(* that runs, and a chat answers as a persona its user had chosen.         *)
THEOREM ChatsStaySound == Spec /\ P!Spec => []ChatsSound
<1>1. BreakersInv /\ StreamsInv /\ ChatsInv /\ EditsInv => ChatsSound
  BY RoutingHolds, PersonasHold DEF ChatsSound
<1> QED
  BY <1>1, RoutingStarts, RoutingKept, PersonasStart, PersonasKept, PTL DEF Spec, P!Spec
-----------------------------------------------------------------------------
(* Whichever component a behaviour of the suite is of, it is a behaviour   *)
(* of each: what holds of their specifications holds of the suite.         *)
THEOREM SuiteSound ==
  SuiteSpec => /\ [](ChatsSound /\ EveryoneReached /\ OneToolPerSkill /\ PoolCounted)
               /\ BuiltAndStoppedInOrder
<1>1. SuiteInit => Init /\ V!Init /\ L!Init /\ K!Init /\ R!Init /\ P!Init
  BY DEF SuiteInit
<1> DEFINE Suite == [Routing \/ Serving \/ Linked \/ Skill \/ Session \/ Persona]_
                      <<part, vars, server, linking, skills, remote, personas>>
<1> USE DEF Routing, Serving, Linked, Skill, Session, Persona
<1>2. Suite => [Next]_vars
  OBVIOUS
<1>3. Suite => [V!Next]_(V!vars)
  BY DEF V!vars, server
<1>4. Suite => [L!Next]_(L!vars)
  BY DEF L!vars, L!service, L!broadcast, linking
<1>5. Suite => [K!Next]_(K!vars)
  BY DEF K!vars, skills
<1>6. Suite => [R!Next]_(R!vars)
  BY DEF R!vars, remote
<1>7. Suite => [P!Next]_(P!vars)
  BY DEF P!vars, personas
<1>8. SuiteSpec => Spec /\ V!Spec /\ L!Spec /\ K!Spec /\ R!Spec /\ P!Spec
  BY <1>1, <1>2, <1>3, <1>4, <1>5, <1>6, <1>7, PTL
  DEF SuiteSpec, Spec, V!Spec, L!Spec, K!Spec, R!Spec, P!Spec
<1> QED
  BY <1>8, ChatsStaySound, LinkedAreReached, SkillsAreTools, PoolAlwaysCounted, ServerInOrder, PTL
=============================================================================
