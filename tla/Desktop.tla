------------------------------ MODULE Desktop ------------------------------
(***************************************************************************)
(* Applications and files on the host: app.control and file.manage         *)
(* (tools/control/app.py, file_manager.py).                                *)
(*                                                                         *)
(* Calls come approved from the executor and work in threads, which a kill *)
(* does not reach.  Reading, listing and switching windows change nothing. *)
(* A process is named after the call that launched it; the content of a    *)
(* file after the time it was written, its st_mtime, which a move, a copy  *)
(* and a backup keep.                                                      *)
(***************************************************************************)
EXTENDS Integers, FiniteSets

CONSTANTS
  Launches, Closes,  \* calls of app.control
  Apps,
  AppOf,             \* of a call
  Ops,               \* calls of file.manage
  Files,
  Catches,           \* of a file f: the files whose backups match f.*
  MaxBackups,        \* max_backups_per_file
  Nothing

AppCalls == Launches \cup Closes
Absent == 0

VARIABLES
  step,      \* of a call: "new", "starting", "closing", "closed", "working", "ok",
             \* "failed", "cancelled"
  tracked,   \* _launched_pids
  alive,     \* the processes that run
  target,    \* of a close: proc
  together,  \* history: calls that met another of their application or file
  disk,      \* of a file: its content
  backups,   \* .nobla-backup: the file, its content, and the call that made it
  doing,     \* of a call of file.manage: its action and paths
  lost,      \* history: contents replaced or deleted, by calls that were alone
  clock

apps == <<tracked, alive, target>>
files == <<disk, backups, doing, lost, clock>>
vars == <<step, together, apps, files>>

Init ==
  /\ step = [c \in AppCalls \cup Ops |-> "new"]
  /\ tracked = [a \in Apps |-> Nothing] /\ alive = {}
  /\ target = [c \in Closes |-> Nothing] /\ together = {}
  /\ disk \in [Files -> {Absent, 1}] /\ backups = {}
  /\ doing = [c \in Ops |-> Nothing]
  /\ lost = {} /\ clock = 1

Goes(c, s) == step' = [step EXCEPT ![c] = s]

-----------------------------------------------------------------------------
(* app.control                                                             *)
Meets(c) ==
  LET others == {d \in AppCalls \ {c} : AppOf[d] = AppOf[c] /\ step[d] \in {"starting", "closing", "closed"}}
  IN together' = IF others = {} THEN together ELSE together \cup others \cup {c}

\* What is tracked and has exited is stale.
Running(a) == tracked[a] # Nothing /\ tracked[a] \in alive
Forgotten(a) == [tracked EXCEPT ![a] = Nothing]

Launch(c) ==
  /\ c \in Launches /\ step[c] = "new"
  /\ \/ Running(AppOf[c]) /\ Goes(c, "ok") /\ UNCHANGED <<tracked, together>>
     \/ ~Running(AppOf[c]) /\ Goes(c, "starting") /\ Meets(c) /\ tracked' = Forgotten(AppOf[c])
  /\ UNCHANGED <<alive, target>>

\* Popen() in a thread; nobody hears of the process when the call was killed.  The
\* process is the application, as on Linux: on Windows and macOS it is a launcher
\* (`cmd /c start`, `open -a`), which ends (app.py:53, 59).
Launched(c) ==
  /\ c \in Launches /\ step[c] = "starting"
  /\ \/ Goes(c, "ok") /\ alive' = alive \cup {c} /\ tracked' = [tracked EXCEPT ![AppOf[c]] = c]
     \/ Goes(c, "failed") /\ UNCHANGED <<tracked, alive>>
     \/ Goes(c, "cancelled") /\ UNCHANGED tracked
        /\ (alive' = alive \cup {c} \/ UNCHANGED alive)
  /\ UNCHANGED <<target, together>>

Close(c) ==
  /\ c \in Closes /\ step[c] = "new"
  /\ LET a == AppOf[c] IN
     \/ tracked[a] = Nothing /\ Goes(c, "failed") /\ UNCHANGED <<tracked, target, together>>
     \/ tracked[a] # Nothing /\ ~Running(a) /\ Goes(c, "ok")
        /\ tracked' = Forgotten(a) /\ UNCHANGED <<target, together>>
     \/ Running(a) /\ Goes(c, "closing") /\ Meets(c)
        /\ target' = [target EXCEPT ![c] = tracked[a]] /\ UNCHANGED tracked
  /\ UNCHANGED alive

\* terminate(), wait() and at last kill(), in threads.
Terminated(c) ==
  /\ c \in Closes /\ step[c] = "closing"
  /\ Goes(c, "closed") /\ alive' = alive \ {target[c]}
  /\ UNCHANGED <<tracked, target, together>>

\* del raises KeyError where another call has been faster; it takes whatever
\* the application is now.
Closed(c) ==
  /\ c \in Closes /\ step[c] = "closed"
  /\ IF tracked[AppOf[c]] = Nothing
     THEN Goes(c, "failed") /\ UNCHANGED tracked
     ELSE Goes(c, "ok") /\ tracked' = Forgotten(AppOf[c])
  /\ UNCHANGED <<alive, target, together>>

\* handle_kill() between the threads of a close.
Killed(c) ==
  /\ c \in Closes /\ step[c] \in {"closing", "closed"} /\ Goes(c, "cancelled")
  /\ (alive' = alive \ {target[c]} \/ UNCHANGED alive)
  /\ UNCHANGED <<tracked, target, together>>

Exits(p) == p \in alive /\ alive' = alive \ {p} /\ UNCHANGED <<step, tracked, target, together>>

-----------------------------------------------------------------------------
(* file.manage                                                             *)

\* Of the backups that match, all but MaxBackups go: the oldest, by the time of
\* their content.
Excess(f, kept) ==
  LET matching == {b \in kept : b.file \in Catches[f]}
      number == Cardinality(matching) - MaxBackups
  IN {o \in SUBSET matching : Cardinality(o) = IF number < 0 THEN 0 ELSE number}

\* Slip: the newest go.
PrunedNewest(f, kept) ==
  {kept \ gone : gone \in {o \in Excess(f, kept) :
     \A b \in o, k \in kept \ o : k.file \in Catches[f] => b.content >= k.content}}

Pruned(f, kept) ==
  {kept \ gone : gone \in {o \in Excess(f, kept) :
     \A b \in o, k \in kept \ o : k.file \in Catches[f] => b.content <= k.content}}

\* _create_backup()
BackedUp(c, f) ==
  IF disk[f] = Absent THEN UNCHANGED backups
  ELSE backups' \in Pruned(f, backups \cup {[file |-> f, content |-> disk[f], by |-> c]})

Jobs == {j \in [action : {"write", "delete", "move", "copy"}, from : Files, to : Files] :
           j.action \in {"write", "delete"} <=> j.from = j.to}

Shares(c, f) ==
  LET others == {d \in Ops \ {c} : step[d] = "working" /\ doing[d].to = f}
  IN together' = IF others = {} THEN together ELSE together \cup others \cup {c}

\* The thread up to its backup: nothing is backed up before a copy.
Begin(c, j) ==
  /\ c \in Ops /\ step[c] = "new"
  /\ j.action # "write" => disk[j.from] # Absent
  /\ Goes(c, "working") /\ doing' = [doing EXCEPT ![c] = j] /\ Shares(c, j.to)
  /\ IF j.action = "copy" THEN UNCHANGED backups ELSE BackedUp(c, j.to)
  /\ UNCHANGED <<apps, disk, lost, clock>>

\* The source is missing, or the backup fails.
Fails(c) ==
  /\ c \in Ops /\ step[c] = "new" /\ Goes(c, "failed")
  /\ UNCHANGED <<apps, files, together>>

Loses(c) ==
  lost' = IF disk[doing[c].to] = Absent \/ c \in together THEN lost
          ELSE lost \cup {[file |-> doing[c].to, content |-> disk[doing[c].to]]}

\* write_text() truncates first: what fails then has replaced the content too.
Write(c) ==
  /\ doing[c].action = "write"
  /\ clock' = clock + 1 /\ disk' = [disk EXCEPT ![doing[c].to] = clock + 1]
  /\ Loses(c) /\ (Goes(c, "ok") \/ Goes(c, "failed"))

Delete(c) ==
  /\ doing[c].action = "delete"
  /\ IF disk[doing[c].to] = Absent
     THEN Goes(c, "failed") /\ UNCHANGED <<disk, lost>>
     ELSE Goes(c, "ok") /\ disk' = [disk EXCEPT ![doing[c].to] = Absent] /\ Loses(c)
  /\ UNCHANGED clock

Move(c) ==
  /\ doing[c].action = "move"
  /\ IF disk[doing[c].from] = Absent
     THEN Goes(c, "failed") /\ UNCHANGED <<disk, lost>>
     ELSE Goes(c, "ok") /\ Loses(c)
          /\ disk' = [disk EXCEPT ![doing[c].to] = disk[doing[c].from], ![doing[c].from] = Absent]
  /\ UNCHANGED clock

Copy(c) ==
  /\ doing[c].action = "copy"
  /\ IF disk[doing[c].from] = Absent
     THEN Goes(c, "failed") /\ UNCHANGED disk
     ELSE Goes(c, "ok") /\ disk' = [disk EXCEPT ![doing[c].to] = disk[doing[c].from]]
  /\ UNCHANGED <<lost, clock>>

Finish(c) ==
  /\ c \in Ops /\ step[c] = "working"
  /\ Write(c) \/ Delete(c) \/ Move(c) \/ Copy(c)
  /\ UNCHANGED <<apps, together, backups, doing>>

-----------------------------------------------------------------------------
AppControl ==
  /\ \/ \E c \in AppCalls : Launch(c) \/ Launched(c) \/ Close(c) \/ Terminated(c) \/ Closed(c) \/ Killed(c)
     \/ \E p \in Launches : Exits(p)
  /\ UNCHANGED files

FileManage == \E c \in Ops : (\E j \in Jobs : Begin(c, j)) \/ Fails(c) \/ Finish(c)

Next == AppControl \/ FileManage

Spec == Init /\ [][Next]_vars

-----------------------------------------------------------------------------
TypeOK ==
  /\ step \in [AppCalls \cup Ops -> {"new", "starting", "closing", "closed", "working", "ok", "failed", "cancelled"}]
  /\ tracked \in [Apps -> Launches \cup {Nothing}] /\ alive \subseteq Launches
  /\ target \in [Closes -> Launches \cup {Nothing}] /\ together \subseteq AppCalls \cup Ops
  /\ disk \in [Files -> Nat] /\ clock \in Nat
  /\ backups \subseteq [file : Files, content : Nat, by : Ops]
  /\ doing \in [Ops -> Jobs \cup {Nothing}] /\ lost \subseteq [file : Files, content : Nat]

\* A process of Nobla's that runs can be closed: it is tracked under its
\* application, unless its launch was killed, or met another launch or close of
\* the application (app.py:364, 406); and a close that reports success has
\* ended what it found.
AppsKept ==
  /\ \A p \in alive : tracked[AppOf[p]] = p \/ p \in together \/ step[p] = "cancelled"
  /\ \A c \in Closes : step[c] \in {"closed", "ok"} => target[c] \notin alive

\* "Destructive ops (write, delete, move) create backups" (file_manager.py:9): a
\* content that a call replaced, alone on its file, is in a backup, or as many
\* of the file's pattern as are kept are of later contents.
BackupsKept ==
  \A l \in lost :
    \/ \E b \in backups : b.file = l.file /\ b.content = l.content
    \/ \E f \in Files : l.file \in Catches[f] /\
         Cardinality({b \in backups : b.file \in Catches[f] /\ b.content >= l.content}) >= MaxBackups

\* What the tools know of the host is enough to undo what they did there.
DesktopSound == AppsKept /\ BackupsKept
=============================================================================
