------------------------------ MODULE Control ------------------------------
(***************************************************************************)
(* The mouse and the keyboard: mouse.control and keyboard.control behind   *)
(* the guard that limits them (tools/control/mouse.py, keyboard.py,        *)
(* safety.py).                                                             *)
(*                                                                         *)
(* The executor has validated and approved a call when it comes here.  A   *)
(* drag is one thread, which a kill does not reach; a text is typed chunk  *)
(* by chunk from the event loop.  Nothing in the program calls halt().     *)
(* A check of the guard is one step: what two threads may do to each other *)
(* inside it costs the limits some precision, of which nothing is claimed. *)
(***************************************************************************)
EXTENDS Integers

CONSTANTS
  Gestures,    \* calls of mouse.control: move, click, double_click, scroll
  Drags,       \* calls of mouse.control, action drag
  Keys,        \* calls of keyboard.control: key_press, shortcut
  Texts,       \* calls of keyboard.control, action type
  Chunks,      \* the chunks of a drag, and of a text
  Delays,      \* the values of min_action_delay_ms, in ticks
  Minute,      \* the window of the rate limit, in ticks
  MaxActions   \* max_actions_per_minute

Inputs == Gestures \cup Drags \cup Keys \cup Texts
Devices == {"mouse", "keyboard"}
Device(c) == IF c \in Gestures \cup Drags THEN "mouse" ELSE "keyboard"

VARIABLES
  delay,    \* min_action_delay_ms
  guard,    \* _last_action and _counters of a device, as the time since
  step,     \* of a call: "new", "acting", "moving", "typing", "ok", "stopped" by the guard,
            \* "failed", "cancelled"
  thread,   \* the calls a thread of which runs
  done,     \* of a call: its chunks that are out
  button,   \* the mouse button is down
  jammed    \* history: mouseUp() itself has failed

vars == <<delay, guard, step, thread, done, button, jammed>>

Init ==
  /\ delay \in Delays
  /\ guard = [d \in Devices |-> [last |-> delay, count |-> 0, age |-> Minute]]
  /\ step = [c \in Inputs |-> "new"]
  /\ thread = {} /\ done = [c \in Inputs |-> 0]
  /\ button = FALSE /\ jammed = FALSE

Goes(c, s) == step' = [step EXCEPT ![c] = s]

\* A thread is over.  Each of its calls into pyautogui may raise, as when the
\* pointer is in the corner of the fail-safe.
Returns(c, s) == IF step[c] = "cancelled" THEN UNCHANGED step ELSE Goes(c, s)

-----------------------------------------------------------------------------
(* The guard of one device.                                                *)
TooSoon(g) == g.last < delay

\* _check_min_delay() notes the time before the rate is asked.
Noted(g) == [g EXCEPT !.last = 0]
Renewed(g) == IF g.age >= Minute THEN [g EXCEPT !.count = 0, !.age = 0] ELSE g

Admits(g) == ~TooSoon(g) /\ Renewed(g).count < MaxActions
Checked(g) ==
  CASE TooSoon(g) -> g
    [] ~TooSoon(g) /\ ~Admits(g) -> Noted(g)
    [] Admits(g) -> [Noted(Renewed(g)) EXCEPT !.count = @ + 1]

Aged(g) == [last |-> IF g.last < delay THEN g.last + 1 ELSE delay,
            count |-> g.count,
            age |-> IF g.age < Minute THEN g.age + 1 ELSE Minute]

Tick ==
  /\ guard' = [d \in Devices |-> Aged(guard[d])]
  /\ UNCHANGED <<delay, step, thread, done, button, jammed>>

Check(c, g) == guard' = [guard EXCEPT ![Device(c)] = Checked(g)]

-----------------------------------------------------------------------------
(* execute(): refused, or on its way.                                      *)
Refused(c) ==
  /\ step[c] = "new" /\ ~Admits(guard[Device(c)])
  /\ Check(c, guard[Device(c)]) /\ Goes(c, "failed")
  /\ UNCHANGED <<delay, thread, done, button, jammed>>

Admitted(c) == step[c] = "new" /\ Admits(guard[Device(c)])

\* One action in a thread of its own.
Act(c) ==
  /\ c \in Gestures \cup Keys /\ Admitted(c)
  /\ Check(c, guard[Device(c)])
  /\ Goes(c, "acting") /\ thread' = thread \cup {c}
  /\ UNCHANGED <<delay, done, button, jammed>>

Acted(c) ==
  /\ c \in thread \ (Drags \cup Texts) /\ thread' = thread \ {c}
  /\ \/ Returns(c, "ok") /\ button' = (button /\ c \notin Gestures)
     \/ Returns(c, "failed") /\ UNCHANGED button
  /\ UNCHANGED <<delay, guard, done, jammed>>

-----------------------------------------------------------------------------
(* A drag: the thread moves to the start, presses, moves chunk by chunk    *)
(* with a check before each, and releases whatever happens.                *)
Drag(c) ==
  /\ c \in Drags /\ Admitted(c)
  /\ Check(c, guard["mouse"])
  /\ Goes(c, "moving") /\ thread' = thread \cup {c}
  /\ UNCHANGED <<delay, done, button, jammed>>

\* Pressed, or failed before, or nowhere to go.
Pressed(c) ==
  /\ c \in thread \cap Drags /\ done[c] = 0
  /\ \/ /\ button' = TRUE /\ done' = [done EXCEPT ![c] = 1] /\ UNCHANGED <<step, thread>>
     \/ /\ thread' = thread \ {c} /\ Returns(c, "failed") /\ UNCHANGED <<button, done>>
     \/ /\ thread' = thread \ {c} /\ Returns(c, "ok") /\ UNCHANGED button
        /\ done' = [done EXCEPT ![c] = Chunks + 1]
  /\ UNCHANGED <<delay, guard, jammed>>

\* finally: mouseUp(), which the fail-safe may stop too.
Released(c, verdict) ==
  /\ thread' = thread \ {c}
  /\ \/ button' = FALSE /\ Returns(c, verdict) /\ UNCHANGED jammed
     \/ jammed' = TRUE /\ Returns(c, "failed") /\ UNCHANGED button

Moved(c) ==
  /\ c \in thread \cap Drags /\ done[c] \in 1 .. Chunks
  /\ Check(c, guard["mouse"])
  /\ \/ /\ Admits(guard["mouse"]) /\ done' = [done EXCEPT ![c] = @ + 1]
        /\ UNCHANGED <<step, thread, button, jammed>>
     \/ /\ Admits(guard["mouse"]) /\ Released(c, "failed") /\ UNCHANGED done
     \/ /\ ~Admits(guard["mouse"]) /\ Released(c, "stopped") /\ UNCHANGED done
  /\ UNCHANGED delay

Dropped(c) ==
  /\ c \in thread \cap Drags /\ done[c] = Chunks + 1
  /\ Released(c, "ok")
  /\ UNCHANGED <<delay, guard, done>>

-----------------------------------------------------------------------------
(* A text: execute() has checked, and each chunk is checked again, the     *)
(* first with nothing in between.  A chunk is a thread.                    *)
Typing(c, g, others) ==
  /\ Check(c, g)
  /\ IF Admits(g) THEN Goes(c, "typing") /\ thread' = others \cup {c}
                  ELSE Goes(c, "stopped") /\ thread' = others

Type(c) ==
  /\ c \in Texts /\ Admitted(c)
  /\ Typing(c, Checked(guard["keyboard"]), thread)
  /\ UNCHANGED <<delay, done, button, jammed>>

Written(c) ==
  /\ c \in thread \cap Texts
  /\ done' = [done EXCEPT ![c] = @ + 1]
  /\ IF done[c] + 1 < Chunks /\ step[c] = "typing"
     THEN Typing(c, guard["keyboard"], thread \ {c})
     ELSE Returns(c, "ok") /\ thread' = thread \ {c} /\ UNCHANGED guard
  /\ UNCHANGED <<delay, button, jammed>>

WriteFails(c) ==
  /\ c \in thread \cap Texts
  /\ Returns(c, "failed") /\ thread' = thread \ {c}
  /\ UNCHANGED <<delay, guard, done, button, jammed>>

\* handle_kill() of the executor: the call is over, its thread goes on.
Cancel(c) ==
  /\ step[c] \in {"acting", "moving", "typing"} /\ Goes(c, "cancelled")
  /\ UNCHANGED <<delay, guard, thread, done, button, jammed>>

Next ==
  \/ \E c \in Inputs :
       Refused(c) \/ Act(c) \/ Acted(c) \/ Drag(c) \/ Pressed(c) \/ Moved(c)
       \/ Dropped(c) \/ Type(c) \/ Written(c) \/ WriteFails(c) \/ Cancel(c)
  \/ Tick

Spec == Init /\ [][Next]_vars

-----------------------------------------------------------------------------
TypeOK ==
  /\ delay \in Delays
  /\ \A d \in Devices : guard[d].last \in 0 .. delay /\ guard[d].count \in 0 .. MaxActions
                        /\ guard[d].age \in 0 .. Minute
  /\ step \in [Inputs -> {"new", "acting", "moving", "typing", "ok", "stopped", "failed", "cancelled"}]
  /\ thread \subseteq Inputs /\ done \in [Inputs -> 0 .. Chunks + 1]
  /\ button \in BOOLEAN /\ jammed \in BOOLEAN

\* The button does not stay down: while it is, a drag runs, also one whose call
\* was killed, unless the fail-safe stopped the release itself (mouse.py:222).
\* What reports success is all out, and a call that is over has no thread left
\* unless it was killed.
InputSound ==
  /\ button => jammed \/ \E c \in thread \cap Drags : done[c] > 0
  /\ \A c \in Drags : step[c] = "ok" => done[c] = Chunks + 1
  /\ \A c \in Texts : step[c] = "ok" => done[c] = Chunks
  /\ \A c \in thread : step[c] \in {"acting", "moving", "typing", "cancelled"}

\* "Type text in chunks with halt checks between each chunk." (keyboard.py:138):
\* what stops a text between its chunks has let the first one out.  Violated:
\* the guard is asked twice at one moment, and the second time the minimum
\* delay has not passed.
TypingBegins == \A c \in Texts : step[c] = "stopped" => done[c] > 0
=============================================================================
