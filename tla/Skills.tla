------------------------------- MODULE Skills -------------------------------
(***************************************************************************)
(* Installed skills and the tools they become: SkillRuntime over the       *)
(* registry of tools (skills/runtime.py, tools/registry.py).               *)
(*                                                                         *)
(* Nothing in these operations suspends: the adapter and the scanner have  *)
(* awaits that return at once, and the events are queued.  A source is     *)
(* what is imported: it carries an id and the name its tool gets.          *)
(***************************************************************************)
EXTENDS FiniteSets

CONSTANTS
  Sources,
  IdOf, NameOf,  \* of a source
  Rejected,      \* sources that no adapter takes, or that fail the scan
  Builtins,      \* names of tools that are no skills
  Builtin, Nothing

ToolNames == {NameOf[s] : s \in Sources} \cup Builtins
SkillIds == {IdOf[s] : s \in Sources}

VARIABLES
  installed,  \* _installed, _skills: at most one source per id
  enabled,    \* manifest.enabled: of the installed ids
  bridges,    \* _bridges: the sources wrapped
  registry    \* _TOOL_REGISTRY, by name

vars == <<installed, enabled, bridges, registry>>

Init ==
  /\ installed = {} /\ enabled = {} /\ bridges = {}
  /\ registry = [n \in ToolNames |-> IF n \in Builtins THEN Builtin ELSE Nothing]

InstalledIds(present) == {IdOf[s] : s \in present}

-----------------------------------------------------------------------------
\* ToolRegistry.register() and unregister().
Registers(s, tools) == tools[NameOf[s]] = Nothing
Unregistered(s, tools) == [tools EXCEPT ![NameOf[s]] = Nothing]

Refused(s, present) == s \in Rejected \/ IdOf[s] \in InstalledIds(present)
Stored(s, present) == present \cup {s}

\* Slip: the store is not rolled back.
InstalledHalf(s, present, tools) ==
  LET ok == ~Refused(s, present) /\ Registers(s, tools) IN
    [ok |-> ok,
     installed |-> IF Refused(s, present) THEN present ELSE Stored(s, present),
     registry |-> IF ok THEN [tools EXCEPT ![NameOf[s]] = s] ELSE tools]

\* install(): it stores the skill, then registers the tool, and takes the skill out
\* of the store again when the name of the tool is taken.  Nothing else runs between.
Installed(s, present, tools) ==
  LET ok == ~Refused(s, present) /\ Registers(s, tools) IN
    [ok |-> ok,
     installed |-> IF Refused(s, present) THEN present
                   ELSE IF ok THEN Stored(s, present) ELSE Stored(s, present) \ {s},
     registry |-> IF ok THEN [tools EXCEPT ![NameOf[s]] = s] ELSE tools]

Install(s) ==
  LET after == Installed(s, installed, registry) IN
    /\ installed' = after.installed /\ registry' = after.registry
    /\ bridges' = IF after.ok THEN bridges \cup {s} ELSE bridges
    /\ enabled' = IF after.ok THEN enabled \ {IdOf[s]} ELSE enabled

Uninstall(s) ==
  /\ s \in installed
  /\ installed' = installed \ {s} /\ bridges' = bridges \ {s}
  /\ registry' = Unregistered(s, registry)
  /\ enabled' = enabled \ {IdOf[s]}

Enable(s) == s \in installed /\ enabled' = enabled \cup {IdOf[s]} /\ UNCHANGED <<installed, bridges, registry>>
Disable(s) == s \in installed /\ enabled' = enabled \ {IdOf[s]} /\ UNCHANGED <<installed, bridges, registry>>

\* upgrade(): uninstall(), then install() of any source, then enable() if the
\* old one was.  When the new one cannot be installed, none is left.
Upgrade(old, new) ==
  /\ old \in installed
  /\ LET after == Installed(new, installed \ {old}, Unregistered(old, registry)) IN
       /\ installed' = after.installed /\ registry' = after.registry
       /\ bridges' = (bridges \ {old}) \cup (IF after.ok THEN {new} ELSE {})
       /\ enabled' = IF after.ok /\ IdOf[old] \in enabled
                     THEN (enabled \ {IdOf[old]}) \cup {IdOf[new]}
                     ELSE enabled \ {IdOf[old]}

Next ==
  \E s \in Sources :
    Install(s) \/ Uninstall(s) \/ Enable(s) \/ Disable(s) \/ \E new \in Sources : Upgrade(s, new)

Spec == Init /\ [][Next]_vars

-----------------------------------------------------------------------------
TypeOK ==
  /\ installed \subseteq Sources /\ bridges \subseteq Sources
  /\ enabled \subseteq SkillIds
  /\ registry \in [ToolNames -> Sources \cup {Builtin, Nothing}]

\* Skills and tools correspond one to one, whatever was installed, upgraded and
\* rolled back before: every installed skill, and no other, is the tool of its
\* name, with one bridge; ids are unique; a skill that is gone is not enabled;
\* and the tools that are no skills stay (skills/runtime.py:94, 176).
OneToolPerSkill ==
  /\ bridges = installed
  /\ \A s \in Sources : s \in installed <=> registry[NameOf[s]] = s
  /\ \A s, t \in installed : IdOf[s] = IdOf[t] => s = t
  /\ enabled \subseteq InstalledIds(installed)
  /\ \A n \in ToolNames : registry[n] = Builtin <=> n \in Builtins
=============================================================================
