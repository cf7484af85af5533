------------------------------- MODULE Mirror -------------------------------
(***************************************************************************)
(* The screen a client watches while tools run: after a call is reported   *)
(* its connection gets a picture, which a task of its own takes and sends  *)
(* (gateway/mirror_handlers.py, tools/executor.py).                        *)
(*                                                                         *)
(* One is meant to be taken at a time, but the flag is raised when the     *)
(* task begins, not when it is made, and any task that ends lowers it.     *)
(***************************************************************************)
EXTENDS FiniteSets

CONSTANTS
  Watchers,  \* connections
  Reports,   \* calls of tools
  WatcherOf  \* of a call

VARIABLES
  connected,  \* ConnectionManager._connections
  watching,   \* _mirror_subscribers
  capturing,  \* _capture_in_progress
  picture,    \* of a call: "none", "made", "taking", "sending", "over"
  together    \* history: the calls whose captures met another's

vars == <<connected, watching, capturing, picture, together>>

Init ==
  /\ connected = Watchers /\ watching = {} /\ capturing = FALSE
  /\ picture = [r \in Reports |-> "none"] /\ together = {}

Moves(r, s) == picture' = [picture EXCEPT ![r] = s]

Subscribe(w) ==
  /\ w \in connected /\ watching' = watching \cup {w}
  /\ UNCHANGED <<connected, capturing, picture, together>>

Unsubscribe(w) ==
  /\ w \in connected /\ watching' = watching \ {w}
  /\ UNCHANGED <<connected, capturing, picture, together>>

Disconnect(w) ==
  /\ connected' = connected \ {w} /\ watching' = watching \ {w}
  /\ UNCHANGED <<capturing, picture, together>>

-----------------------------------------------------------------------------
Tasks == {r \in Reports : picture[r] \in {"made", "taking", "sending"}}
Met(r) == IF Tasks = {} THEN {} ELSE Tasks \cup {r}

\* The end of _audit(): a task is made, or nothing.
Report(r) ==
  /\ picture[r] = "none"
  /\ IF WatcherOf[r] \in watching /\ ~capturing
     THEN Moves(r, "made") /\ together' = together \cup Met(r)
     ELSE Moves(r, "over") /\ UNCHANGED together
  /\ UNCHANGED <<connected, watching, capturing>>

Begin(r) ==
  /\ picture[r] = "made" /\ Moves(r, "taking") /\ capturing' = TRUE
  /\ UNCHANGED <<connected, watching, together>>

Take(r) ==
  /\ picture[r] = "taking" /\ Moves(r, "sending")
  /\ UNCHANGED <<connected, watching, capturing, together>>

\* There is no such tool, it fails, or the picture is sent: send_to() a
\* connection that is gone does nothing.
Ends(r) ==
  /\ picture[r] \in {"taking", "sending"} /\ Moves(r, "over") /\ capturing' = FALSE
  /\ UNCHANGED <<connected, watching, together>>

Next ==
  \/ \E w \in Watchers : Subscribe(w) \/ Unsubscribe(w) \/ Disconnect(w)
  \/ \E r \in Reports : Report(r) \/ Begin(r) \/ Take(r) \/ Ends(r)

Spec == Init /\ [][Next]_vars

-----------------------------------------------------------------------------
TypeOK ==
  /\ connected \subseteq Watchers /\ watching \subseteq Watchers /\ capturing \in BOOLEAN
  /\ picture \in [Reports -> {"none", "made", "taking", "sending", "over"}]
  /\ together \subseteq Reports

\* The flag never outlives the captures, however many run at once, so that the
\* mirror does not stop for good; a capture that met no other runs under it; and
\* nobody who has gone is taken for a watcher (mirror_handlers.py:117).
MirrorSound ==
  /\ capturing => \E r \in Reports : picture[r] \in {"taking", "sending"}
  /\ \A r \in Reports \ together : picture[r] \in {"taking", "sending"} => capturing
  /\ watching \subseteq connected
=============================================================================
