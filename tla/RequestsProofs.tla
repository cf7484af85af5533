--------------------------- MODULE RequestsProofs ---------------------------
(***************************************************************************)
(* Theorems about the components that MCRequests brings together: the      *)
(* control of the host, mouse and keyboard (N), applications and files     *)
(* (D) and the mirror of the screen (M), what a conversation keeps (H),    *)
(* the messages, workspaces and streams of the agents (A), and what the    *)
(* chat services hear (I); and about the suite, whose parts leave each     *)
(* other alone.  They hold for any number of calls, files, chats, agents   *)
(* and messages, and any limits.                                           *)
(***************************************************************************)
EXTENDS MCRequests, FiniteSetTheorems, SequenceTheorems, TLAPS

(* The mirror of the screen.                                               *)

(* Of two captures that are under way at once each is marked.              *)
MirrorInv ==
  /\ picture \in [Reports -> {"none", "made", "taking", "sending", "over"}]
  /\ watching \subseteq connected
  /\ capturing => \E r \in Reports : picture[r] \in {"taking", "sending"}
  /\ \A r \in Reports : picture[r] \in {"taking", "sending"} => capturing \/ r \in overlapped
  /\ \A r, q \in M!Tasks : r # q => r \in overlapped

LEMMA MirrorStarts == M!Init => MirrorInv
BY DEF M!Init, MirrorInv, M!Tasks

LEMMA MirrorKept == MirrorInv /\ [M!Next]_(M!vars) => MirrorInv'
<1> SUFFICES ASSUME MirrorInv, [M!Next]_(M!vars) PROVE MirrorInv'
  OBVIOUS
<1> USE DEF MirrorInv, M!Tasks, M!Moves
<1>1. ASSUME NEW w \in Watchers, M!Subscribe(w) \/ M!Unsubscribe(w) \/ M!Disconnect(w)
      PROVE  MirrorInv'
  BY <1>1 DEF M!Subscribe, M!Unsubscribe, M!Disconnect
<1>2. ASSUME NEW r \in Reports, M!Report(r) PROVE MirrorInv'
  <2>1. CASE picture' = picture
    BY <1>2, <2>1 DEF M!Report
  <2>2. CASE WatcherOf[r] \in watching /\ ~capturing
    <3>1. /\ picture' = [picture EXCEPT ![r] = "made"] /\ picture[r] = "none"
          /\ UNCHANGED <<connected, watching, capturing>>
          /\ overlapped' = overlapped \cup M!Met(r)
      BY <1>2, <2>2 DEF M!Report
    <3>2. M!Tasks' = M!Tasks \cup {r}
      BY <3>1
    <3>3. \A p, q \in M!Tasks' : p # q => p \in overlapped'
      BY <3>1, <3>2 DEF M!Met
    <3> QED
      BY <3>1, <3>3
  <2>3. CASE ~(WatcherOf[r] \in watching /\ ~capturing)
    BY <1>2, <2>3 DEF M!Report
  <2> QED
    BY <2>2, <2>3
<1>3. ASSUME NEW r \in Reports, M!Begin(r) \/ M!Take(r) PROVE MirrorInv'
  BY <1>3 DEF M!Begin, M!Take
<1>4. ASSUME NEW r \in Reports, M!Ends(r) PROVE MirrorInv'
  BY <1>4 DEF M!Ends
<1>5. CASE UNCHANGED M!vars
  BY <1>5 DEF M!vars
<1> QED
  BY <1>1, <1>2, <1>3, <1>4, <1>5 DEF M!Next

LEMMA MirrorSays == MirrorInv => M!MirrorSound
BY DEF MirrorInv, M!MirrorSound

-----------------------------------------------------------------------------
(* The mouse and the keyboard.                                             *)
Underway == {"acting", "moving", "typing", "cancelled"}

(* A call whose thread runs is not over; what reports success is all out.  *)
Orderly(c) ==
  /\ c \in thread => pointing[c] \in Underway
  /\ pointing[c] = "new" => done[c] = 0
  /\ c \in Drags /\ pointing[c] = "ok" => done[c] = Pieces + 1
  /\ c \in Typings /\ pointing[c] = "ok" => done[c] = Pieces
  /\ c \in thread \cap Typings =>
       pointing[c] \in {"typing", "cancelled"} /\ (pointing[c] = "typing" => done[c] < Pieces)

InputTypes ==
  /\ pointing \in [N!Inputs -> Underway \cup {"new", "ok", "stopped", "failed"}]
  /\ done \in [N!Inputs -> Nat] /\ thread \subseteq N!Inputs

InputInv ==
  /\ InputTypes
  /\ \A c \in N!Inputs : Orderly(c)
  /\ button => jammed \/ \E c \in thread \cap Drags : done[c] > 0

LEMMA InputsApart ==
  /\ Pieces \in Nat /\ Pieces > 0
  /\ \A c \in Typings : c \notin Gestures \cup Drags \cup Keys
  /\ \A c \in Drags : c \notin Gestures \cup Keys
<1>1. /\ Gestures \cap Drags = {} /\ (Gestures \cup Drags \cup Keys) \cap Typings = {} /\ Keys \cap Drags = {}
      /\ Pieces \in Nat \ {0}
  BY RequestConstants, Zenon
<1> QED
  BY <1>1

LEMMA InputStarts == N!Init => InputInv
BY DEF N!Init, InputInv, InputTypes, Orderly, N!Inputs, Underway

(* What becomes of a call whose thread is over.                            *)
LEMMA ThreadEnds ==
  ASSUME InputInv, NEW c \in thread, NEW s \in {"ok", "stopped", "failed"}, N!Returns(c, s)
  PROVE  /\ pointing' \in [N!Inputs -> Underway \cup {"new", "ok", "stopped", "failed"}]
         /\ \A d \in N!Inputs \ {c} : pointing'[d] = pointing[d]
         /\ pointing'[c] \in {s, "cancelled"}
         /\ pointing[c] # "cancelled" => pointing'[c] = s
BY DEF InputInv, InputTypes, Orderly, N!Returns, N!Goes, Underway

(* A step is about one call.                                               *)
LEMMA OneInput ==
  ASSUME InputInv, NEW c \in N!Inputs, InputTypes',
         \A d \in N!Inputs \ {c} :
           pointing'[d] = pointing[d] /\ done'[d] = done[d] /\ (d \in thread' <=> d \in thread),
         Orderly(c)',
         \/ ~button' \/ jammed'
         \/ button' = button /\ jammed' = jammed
            /\ (c \in thread \cap Drags /\ done[c] > 0 => c \in thread' /\ done'[c] > 0)
         \/ c \in thread' \cap Drags /\ done'[c] > 0
  PROVE  InputInv'
<1>1. \A d \in N!Inputs : Orderly(d)'
  BY DEF InputInv, Orderly
<1>2. button' => jammed' \/ \E d \in thread' \cap Drags : done'[d] > 0
  BY DEF InputInv, InputTypes
<1> QED
  BY <1>1, <1>2 DEF InputInv

LEMMA InputKept == InputInv /\ [N!Next]_(N!vars) => InputInv'
<1> SUFFICES ASSUME InputInv, [N!Next]_(N!vars) PROVE InputInv'
  OBVIOUS
<1> USE DEF Underway
<1> USE InputsApart
<1>1. ASSUME NEW c \in N!Inputs, N!Refused(c) \/ N!Act(c) \/ N!Drag(c) PROVE InputInv'
  <2>1. /\ pointing[c] = "new" /\ UNCHANGED <<done, button, jammed>>
        /\ \/ N!Goes(c, "failed") /\ thread' = thread
           \/ N!Goes(c, "acting") /\ thread' = thread \cup {c} /\ c \notin Typings
           \/ N!Goes(c, "moving") /\ thread' = thread \cup {c} /\ c \notin Typings
    BY <1>1 DEF N!Refused, N!Act, N!Drag, N!Admitted
  <2>2. InputTypes' /\ pointing'[c] \in {"failed", "acting", "moving"}
        /\ \A d \in N!Inputs \ {c} : pointing'[d] = pointing[d]
    BY <2>1 DEF InputInv, InputTypes, N!Goes
  <2>3. c \notin thread
    BY <2>1 DEF InputInv, Orderly
  <2>4. Orderly(c)'
    BY <2>1, <2>2, <2>3 DEF Orderly, InputInv, InputTypes, N!Goes
  <2> QED
    BY <2>1, <2>2, <2>3, <2>4, OneInput
<1>2. ASSUME NEW c \in N!Inputs, N!Acted(c) PROVE InputInv'
  <2>1. PICK s \in {"ok", "failed"} : N!Returns(c, s)
    BY <1>2 DEF N!Acted
  <2>2. /\ c \in thread /\ c \notin Drags \cup Typings /\ thread' = thread \ {c}
        /\ UNCHANGED <<done, jammed>>
    BY <1>2 DEF N!Acted
  <2>6. button' => button
    BY <1>2, Zenon DEF N!Acted
  <2>3. /\ pointing' \in [N!Inputs -> Underway \cup {"new", "ok", "stopped", "failed"}]
        /\ \A d \in N!Inputs \ {c} : pointing'[d] = pointing[d]
        /\ pointing'[c] \in {s, "cancelled"}
    BY <2>1, <2>2, ThreadEnds
  <2>4. InputTypes'
    BY <2>2, <2>3 DEF InputInv, InputTypes
  <2>5. Orderly(c)'
    BY <2>2, <2>3 DEF Orderly
  <2>7. (\A d \in N!Inputs : Orderly(d)') /\ InputTypes'
    BY <2>2, <2>3, <2>4, <2>5 DEF InputInv, Orderly
  <2>8. button' => jammed' \/ \E d \in thread' \cap Drags : done'[d] > 0
    BY <2>2, <2>6 DEF InputInv
  <2> QED
    BY <2>7, <2>8 DEF InputInv
<1>3. ASSUME NEW c \in N!Inputs, N!Pressed(c) PROVE InputInv'
  <2>1. /\ c \in thread /\ c \in Drags /\ c \notin Typings /\ done[c] = 0 /\ jammed' = jammed
        /\ c \in N!Inputs
    BY <1>3 DEF N!Pressed
  <2>2. CASE button' = TRUE /\ done' = [done EXCEPT ![c] = 1] /\ UNCHANGED <<pointing, thread>>
    <3>1. InputTypes' /\ done'[c] = 1 /\ \A d \in N!Inputs \ {c} : done'[d] = done[d]
      BY <2>2 DEF InputInv, InputTypes
    <3>2. Orderly(c)'
      BY <2>1, <2>2, <3>1 DEF InputInv, Orderly
    <3>3. c \in thread' /\ done'[c] > 0
      BY <2>1, <2>2, <3>1
    <3>4. \A d \in N!Inputs \ {c} :
            pointing'[d] = pointing[d] /\ done'[d] = done[d] /\ (d \in thread' <=> d \in thread)
      BY <2>2, <3>1
    <3> QED
      BY <2>1, <3>1, <3>2, <3>3, <3>4, OneInput
  <2>3. ASSUME NEW s \in {"ok", "failed"}, N!Returns(c, s), thread' = thread \ {c}, button' = button,
               \/ s = "failed" /\ done' = done
               \/ s = "ok" /\ done' = [done EXCEPT ![c] = Pieces + 1]
        PROVE  InputInv'
    <3>1. /\ pointing' \in [N!Inputs -> Underway \cup {"new", "ok", "stopped", "failed"}]
          /\ \A d \in N!Inputs \ {c} : pointing'[d] = pointing[d]
          /\ pointing'[c] \in {s, "cancelled"}
      BY <2>1, <2>3, ThreadEnds
    <3>2. InputTypes' /\ (\A d \in N!Inputs \ {c} : done'[d] = done[d])
          /\ (s = "ok" => done'[c] = Pieces + 1)
      BY <2>1, <2>3, <3>1 DEF InputInv, InputTypes
    <3>3. Orderly(c)'
      BY <2>1, <2>3, <3>1, <3>2 DEF Orderly
    <3> QED
      BY <2>1, <2>3, <3>1, <3>2, <3>3, OneInput
  <2> QED
    BY <1>3, <2>2, <2>3 DEF N!Pressed
<1>4. ASSUME NEW c \in thread \cap Drags, NEW s \in {"ok", "stopped", "failed"}, N!Released(c, s),
             UNCHANGED done, s = "ok" => done[c] = Pieces + 1
      PROVE  InputInv'
  <2>1. PICK r \in {"ok", "stopped", "failed"} :
          N!Returns(c, r) /\ r \in {s, "failed"}
    BY <1>4 DEF N!Released
  <2>2. /\ thread' = thread \ {c}
        /\ \/ button' = FALSE /\ jammed' = jammed
           \/ jammed' = TRUE /\ button' = button
    BY <1>4 DEF N!Released
  <2>3. /\ pointing' \in [N!Inputs -> Underway \cup {"new", "ok", "stopped", "failed"}]
        /\ \A d \in N!Inputs \ {c} : pointing'[d] = pointing[d]
        /\ pointing'[c] \in {r, "cancelled"}
    BY <1>4, <2>1, ThreadEnds
  <2>4. InputTypes' /\ c \in N!Inputs
    BY <1>4, <2>2, <2>3 DEF InputInv, InputTypes
  <2>5. Orderly(c)'
    BY <1>4, <2>1, <2>2, <2>3 DEF Orderly
  <2> QED
    BY <1>4, <2>2, <2>3, <2>4, <2>5, OneInput
<1>5. ASSUME NEW c \in N!Inputs, N!Moved(c) PROVE InputInv'
  <2>1. CASE done' = [done EXCEPT ![c] = @ + 1] /\ UNCHANGED <<pointing, thread, button, jammed>>
    <3>1. c \in thread \cap Drags /\ c \notin Typings
      BY <1>5 DEF N!Moved
    <3>2. InputTypes' /\ done'[c] = done[c] + 1 /\ \A d \in N!Inputs \ {c} : done'[d] = done[d]
      BY <2>1 DEF InputInv, InputTypes
    <3>3. Orderly(c)'
      BY <2>1, <3>1, <3>2 DEF InputInv, Orderly
    <3>4. done[c] \in Nat /\ done'[c] > 0
      BY <3>2 DEF InputInv, InputTypes
    <3> QED
      BY <2>1, <3>1, <3>2, <3>3, <3>4, OneInput
  <2>2. CASE UNCHANGED done /\ c \in thread \cap Drags /\ (N!Released(c, "failed") \/ N!Released(c, "stopped"))
    BY <1>4, <2>2
  <2> QED
    BY <1>5, <2>1, <2>2 DEF N!Moved
<1>6. ASSUME NEW c \in N!Inputs, N!Dropped(c) PROVE InputInv'
  BY <1>4, <1>6 DEF N!Dropped
<1>7. ASSUME NEW c \in Typings, NEW g, N!Typing(c, g, thread \ {c}), InputTypes,
             UNCHANGED <<button, jammed>>, done' \in [N!Inputs -> Nat],
             \A d \in N!Inputs \ {c} : done'[d] = done[d], done'[c] < Pieces
      PROVE  InputInv'
  <2>1. c \in N!Inputs /\ c \notin Drags
    BY DEF N!Inputs
  <2>2. \/ N!Goes(c, "typing") /\ thread' = (thread \ {c}) \cup {c}
        \/ N!Goes(c, "stopped") /\ thread' = thread \ {c}
    BY <1>7 DEF N!Typing
  <2>3. InputTypes' /\ \A d \in N!Inputs \ {c} : pointing'[d] = pointing[d]
    BY <1>7, <2>1, <2>2 DEF InputInv, InputTypes, N!Goes
  <2>4. Orderly(c)'
    BY <1>7, <2>1, <2>2 DEF InputInv, InputTypes, Orderly, N!Goes
  <2> QED
    BY <1>7, <2>1, <2>2, <2>3, <2>4, OneInput
<1>8. ASSUME NEW c \in N!Inputs, N!Type(c) PROVE InputInv'
  <2>1. c \in Typings /\ pointing[c] = "new" /\ UNCHANGED <<done, button, jammed>>
        /\ N!Typing(c, N!Checked(guard["keyboard"]), thread)
    BY <1>8 DEF N!Type, N!Admitted
  <2>2. done[c] = 0 /\ thread \ {c} = thread
    BY <2>1 DEF InputInv, Orderly
  <2>3. done' \in [N!Inputs -> Nat] /\ done'[c] < Pieces
    BY <2>1, <2>2 DEF InputInv, InputTypes
  <2> QED
    BY <1>7, <2>1, <2>2, <2>3 DEF InputInv
<1>9. ASSUME NEW c \in N!Inputs, N!Written(c) PROVE InputInv'
  <2>1. /\ c \in thread /\ c \in Typings /\ c \notin Drags
        /\ done' = [done EXCEPT ![c] = @ + 1] /\ UNCHANGED <<button, jammed>>
    BY <1>9 DEF N!Written
  <2>2. /\ done' \in [N!Inputs -> Nat] /\ done'[c] = done[c] + 1 /\ done[c] \in Nat
        /\ \A d \in N!Inputs \ {c} : done'[d] = done[d]
    BY <2>1 DEF InputInv, InputTypes
  <2>3. CASE done[c] + 1 < Pieces /\ pointing[c] = "typing"
    BY <1>7, <1>9, <2>1, <2>2, <2>3 DEF N!Written, InputInv
  <2>4. CASE ~(done[c] + 1 < Pieces /\ pointing[c] = "typing")
    <3>1. N!Returns(c, "ok") /\ thread' = thread \ {c}
      BY <1>9, <2>4 DEF N!Written
    <3>2. PICK s \in {"ok", "stopped", "failed"} : s = "ok"
      OBVIOUS
    <3>3. /\ pointing' \in [N!Inputs -> Underway \cup {"new", "ok", "stopped", "failed"}]
          /\ \A d \in N!Inputs \ {c} : pointing'[d] = pointing[d]
          /\ pointing'[c] \in {"ok", "cancelled"}
      BY <2>1, <3>1, <3>2, ThreadEnds
    <3>4. pointing'[c] = "ok" => pointing[c] = "typing"
      BY <2>1, <3>1 DEF N!Returns, N!Goes, InputInv, Orderly
    <3>5. InputTypes'
      BY <2>2, <3>1, <3>3 DEF InputInv, InputTypes
    <3>6. pointing[c] = "typing" => done[c] < Pieces
      BY <2>1 DEF InputInv, Orderly
    <3>7. pointing'[c] = "ok" => done'[c] = Pieces
      BY <2>2, <2>4, <3>4, <3>6
    <3>8. Orderly(c)'
      BY <2>1, <3>1, <3>3, <3>7 DEF Orderly
    <3> QED
      BY <2>1, <2>2, <3>1, <3>3, <3>5, <3>8, OneInput
  <2> QED
    BY <2>3, <2>4
<1>10. ASSUME NEW c \in N!Inputs, N!WriteFails(c) PROVE InputInv'
  <2>1. /\ c \in thread /\ c \in Typings /\ c \notin Drags /\ N!Returns(c, "failed")
        /\ thread' = thread \ {c} /\ UNCHANGED <<done, button, jammed>>
    BY <1>10 DEF N!WriteFails
  <2>2. PICK s \in {"ok", "stopped", "failed"} : s = "failed"
    OBVIOUS
  <2>3. /\ pointing' \in [N!Inputs -> Underway \cup {"new", "ok", "stopped", "failed"}]
        /\ \A d \in N!Inputs \ {c} : pointing'[d] = pointing[d]
        /\ pointing'[c] \in {"failed", "cancelled"}
    BY <2>1, <2>2, ThreadEnds
  <2>4. InputTypes' /\ Orderly(c)'
    BY <2>1, <2>3 DEF InputInv, InputTypes, Orderly
  <2> QED
    BY <2>1, <2>3, <2>4, OneInput
<1>11. ASSUME NEW c \in N!Inputs, N!Cancel(c) PROVE InputInv'
  <2>1. /\ pointing[c] \in Underway /\ pointing' = [pointing EXCEPT ![c] = "cancelled"]
        /\ UNCHANGED <<thread, done, button, jammed>>
    BY <1>11 DEF N!Cancel, N!Goes
  <2>2. InputTypes' /\ Orderly(c)' /\ \A d \in N!Inputs \ {c} : pointing'[d] = pointing[d]
    BY <2>1 DEF InputInv, InputTypes, Orderly
  <2> QED
    BY <2>1, <2>2, OneInput
<1>12. CASE N!Tick \/ UNCHANGED N!vars
  BY <1>12 DEF N!Tick, N!vars, InputInv, InputTypes, Orderly
<1> QED
  BY <1>1, <1>2, <1>3, <1>5, <1>6, <1>8, <1>9, <1>10, <1>11, <1>12 DEF N!Next

LEMMA InputSays == InputInv => N!InputSound
BY DEF InputInv, InputTypes, Orderly, N!InputSound, N!Inputs, Underway

-----------------------------------------------------------------------------
(* Applications.                                                           *)
Busy(c) == step[c] \in {"starting", "closing", "closed"}

StepTypes ==
  step \in [D!AppCalls \cup Ops ->
              {"new", "starting", "closing", "closed", "working", "ok", "failed", "cancelled"}]

AppTypes ==
  /\ StepTypes
  /\ tracked \in [Apps -> Launches \cup {NoOne}] /\ alive \subseteq Launches
  /\ target \in [Closes -> Launches \cup {NoOne}]

(* A process that a launch or a close under way does not know of met one.  *)
Untracked(p) == p \in together \/ step[p] = "cancelled"

AppsInv ==
  /\ AppTypes
  /\ \A p \in alive : step[p] \in {"ok", "cancelled"}
  /\ \A c \in Closes : target[c] # NoOne => step[target[c]] \in {"ok", "cancelled"}
  /\ \A c \in Closes : step[c] = "new" => target[c] = NoOne
  /\ \A c, d \in D!AppCalls : c # d /\ AppOf[c] = AppOf[d] /\ Busy(c) /\ Busy(d) => c \in together
  /\ \A c \in Launches, p \in alive : step[c] = "starting" /\ AppOf[p] = AppOf[c] => Untracked(p)
  /\ \A c \in Closes : Busy(c) => tracked[AppOf[c]] \in {NoOne, target[c]} \cup together
  /\ \A p \in alive : tracked[AppOf[p]] = p \/ Untracked(p)
  /\ \A c \in Closes : step[c] \in {"closed", "ok"} => target[c] \notin alive

LEMMA AppsApart ==
  /\ \A c \in Launches : c \in D!AppCalls /\ c \notin Closes /\ c \notin Ops /\ c # NoOne /\ AppOf[c] \in Apps
  /\ \A c \in Closes : c \in D!AppCalls /\ c \notin Launches /\ c \notin Ops /\ AppOf[c] \in Apps
  /\ \A c \in D!AppCalls : c \in Launches \/ c \in Closes
<1>1. /\ Launches \cap Closes = {} /\ (Launches \cup Closes) \cap Ops = {} /\ NoOne \notin Launches
      /\ AppOf \in [Launches \cup Closes -> Apps]
  BY RequestConstants, Zenon
<1> QED
  BY <1>1 DEF D!AppCalls

LEMMA AppsStart == D!Init => AppsInv
BY AppsApart DEF D!Init, AppsInv, AppTypes, StepTypes, Busy, Untracked

LEMMA MeetsMarks ==
  ASSUME AppsInv, NEW c \in D!AppCalls, D!Meets(c), step' = [step EXCEPT ![c] = "starting"] \/ step' = [step EXCEPT ![c] = "closing"]
  PROVE  /\ together \subseteq together'
         /\ \A d, e \in D!AppCalls : d # e /\ AppOf[d] = AppOf[e] /\ Busy(d)' /\ Busy(e)' => d \in together'
<1>1. step'[c] \in {"starting", "closing"} /\ \A d \in D!AppCalls \ {c} : step'[d] = step[d]
  BY DEF AppsInv, AppTypes, StepTypes
<1>2. PICK others : others = {d \in D!AppCalls \ {c} : AppOf[d] = AppOf[c] /\ step[d] \in {"starting", "closing", "closed"}}
  OBVIOUS
<1>3. together' = IF others = {} THEN together ELSE together \cup others \cup {c}
  BY <1>2 DEF D!Meets
<1>4. ASSUME NEW d \in D!AppCalls, NEW e \in D!AppCalls, d # e, AppOf[d] = AppOf[e], Busy(d)', Busy(e)'
      PROVE  d \in together'
  <2>1. CASE d = c
    BY <1>1, <1>2, <1>3, <1>4, <2>1 DEF Busy
  <2>2. CASE e = c
    BY <1>1, <1>2, <1>3, <1>4, <2>2 DEF Busy
  <2>3. CASE d # c /\ e # c
    BY <1>1, <1>3, <1>4, <2>3 DEF Busy, AppsInv
  <2> QED
    BY <2>1, <2>2, <2>3
<1> QED
  BY <1>3, <1>4

(* A call that is not begun, or is over, marks nobody.                     *)
LEMMA AppsEnd ==
  ASSUME AppsInv, NEW c \in D!AppCalls, NEW s \in {"ok", "failed", "cancelled"}, D!Goes(c, s), UNCHANGED together
  PROVE  /\ StepTypes' /\ step'[c] = s /\ \A d \in D!AppCalls \ {c} : step'[d] = step[d]
         /\ \A d, e \in D!AppCalls : d # e /\ AppOf[d] = AppOf[e] /\ Busy(d)' /\ Busy(e)' => d \in together'
BY DEF AppsInv, AppTypes, StepTypes, D!Goes, Busy

LEMMA LaunchKeeps ==
  ASSUME AppsInv, NEW c \in D!AppCalls, D!Launch(c)
  PROVE  AppsInv'
<1> USE AppsApart
<1>1. c \in Launches /\ step[c] = "new" /\ UNCHANGED <<alive, target>> /\ c \notin alive
      /\ \A d \in Closes : target[d] # c
  BY DEF D!Launch, AppsInv
<1>2. CASE D!Goes(c, "ok") /\ UNCHANGED <<tracked, together>>
  <2>1. PICK s \in {"ok", "failed", "cancelled"} : s = "ok"
    OBVIOUS
  <2>2. /\ StepTypes' /\ step'[c] = "ok" /\ \A d \in D!AppCalls \ {c} : step'[d] = step[d]
        /\ \A d, e \in D!AppCalls : d # e /\ AppOf[d] = AppOf[e] /\ Busy(d)' /\ Busy(e)' => d \in together'
    BY <1>2, <2>1, AppsEnd
  <2> QED
    BY <1>1, <1>2, <2>2 DEF AppsInv, AppTypes, Busy, Untracked
<1>3. CASE ~D!Running(AppOf[c]) /\ D!Goes(c, "starting") /\ D!Meets(c) /\ tracked' = D!Forgotten(AppOf[c])
  <2>1. step' = [step EXCEPT ![c] = "starting"] /\ tracked' = [tracked EXCEPT ![AppOf[c]] = NoOne]
    BY <1>3 DEF D!Goes, D!Forgotten
  <2>2. /\ together \subseteq together'
        /\ \A d, e \in D!AppCalls : d # e /\ AppOf[d] = AppOf[e] /\ Busy(d)' /\ Busy(e)' => d \in together'
    BY <1>3, <2>1, MeetsMarks
  <2>3. step'[c] = "starting" /\ (\A d \in D!AppCalls \ {c} : step'[d] = step[d]) /\ StepTypes'
    BY <2>1 DEF AppsInv, AppTypes, StepTypes
  <2>4. ASSUME NEW p \in alive PROVE step'[p] = step[p] /\ (Untracked(p) => Untracked(p)')
    BY <1>1, <2>2, <2>3 DEF AppsInv, AppTypes, Untracked
  <2>5. ASSUME NEW p \in alive, AppOf[p] = AppOf[c] PROVE Untracked(p)
    BY <1>3, <2>5 DEF AppsInv, D!Running, AppTypes
  <2>6. AppTypes'
    BY <1>1, <2>1, <2>3 DEF AppsInv, AppTypes
  <2>7. \A d \in Launches, p \in alive' : step'[d] = "starting" /\ AppOf[p] = AppOf[d] => Untracked(p)'
    BY <1>1, <2>3, <2>4, <2>5 DEF AppsInv
  <2>8. \A p \in alive' : tracked'[AppOf[p]] = p \/ Untracked(p)'
    BY <1>1, <2>1, <2>4, <2>5 DEF AppsInv, AppTypes
  <2>9. \A d \in Closes : Busy(d)' => tracked'[AppOf[d]] \in {NoOne, target'[d]} \cup together'
    BY <1>1, <2>1, <2>2, <2>3 DEF AppsInv, AppTypes, Busy
  <2>10. /\ \A p \in alive' : step'[p] \in {"ok", "cancelled"}
         /\ \A d \in Closes : target'[d] # NoOne => step'[target'[d]] \in {"ok", "cancelled"}
         /\ \A d \in Closes : step'[d] = "new" => target'[d] = NoOne
         /\ \A d \in Closes : step'[d] \in {"closed", "ok"} => target'[d] \notin alive'
    BY <1>1, <2>3, <2>4 DEF AppsInv, AppTypes
  <2> QED
    BY <2>2, <2>6, <2>7, <2>8, <2>9, <2>10 DEF AppsInv
<1> QED
  BY <1>2, <1>3 DEF D!Launch

LEMMA LaunchedKeeps ==
  ASSUME AppsInv, NEW c \in D!AppCalls, D!Launched(c)
  PROVE  AppsInv'
<1> USE AppsApart
<1>1. c \in Launches /\ step[c] = "starting" /\ UNCHANGED <<target, together>> /\ c \notin alive
      /\ \A d \in Closes : target[d] # c
  BY DEF D!Launched, AppsInv
<1>2. PICK s \in {"ok", "failed", "cancelled"} :
        /\ D!Goes(c, s)
        /\ \/ s = "ok" /\ alive' = alive \cup {c} /\ tracked' = [tracked EXCEPT ![AppOf[c]] = c]
           \/ s = "failed" /\ UNCHANGED <<tracked, alive>>
           \/ s = "cancelled" /\ UNCHANGED tracked /\ (alive' = alive \cup {c} \/ UNCHANGED alive)
  BY DEF D!Launched
<1>3. /\ StepTypes' /\ step'[c] = s /\ \A d \in D!AppCalls \ {c} : step'[d] = step[d]
      /\ \A d, e \in D!AppCalls : d # e /\ AppOf[d] = AppOf[e] /\ Busy(d)' /\ Busy(e)' => d \in together'
  BY <1>1, <1>2, AppsEnd
<1>4. AppTypes'
  BY <1>1, <1>2, <1>3 DEF AppsInv, AppTypes
<1>5. ASSUME NEW p \in alive PROVE step'[p] = step[p] /\ p # c /\ (Untracked(p) => Untracked(p)')
  BY <1>1, <1>3 DEF AppsInv, AppTypes, Untracked
<1>6. ASSUME NEW p \in alive, AppOf[p] = AppOf[c] PROVE Untracked(p)
  BY <1>1, <1>6 DEF AppsInv
<1>7. /\ \A p \in alive' : step'[p] \in {"ok", "cancelled"}
      /\ \A d \in Closes : target'[d] # NoOne => step'[target'[d]] \in {"ok", "cancelled"}
      /\ \A d \in Closes : step'[d] = "new" => target'[d] = NoOne
      /\ \A d \in Closes : step'[d] \in {"closed", "ok"} => target'[d] \notin alive'
  BY <1>1, <1>2, <1>3, <1>5 DEF AppsInv, AppTypes
<1>8. \A d \in Launches, p \in alive' : step'[d] = "starting" /\ AppOf[p] = AppOf[d] => Untracked(p)'
  <2> SUFFICES ASSUME NEW d \in Launches, NEW p \in alive', step'[d] = "starting", AppOf[p] = AppOf[d]
               PROVE  Untracked(p)'
    OBVIOUS
  <2>1. d # c /\ step[d] = "starting"
    BY <1>2, <1>3
  <2>2. CASE p = c
    BY <1>1, <2>1, <2>2 DEF AppsInv, Busy, Untracked
  <2>3. CASE p # c
    BY <1>2, <1>5, <2>1, <2>3 DEF AppsInv
  <2> QED
    BY <2>2, <2>3
<1>9. \A d \in Closes : Busy(d)' => tracked'[AppOf[d]] \in {NoOne, target'[d]} \cup together'
  <2> SUFFICES ASSUME NEW d \in Closes, Busy(d)'
               PROVE  tracked'[AppOf[d]] \in {NoOne, target'[d]} \cup together'
    OBVIOUS
  <2>1. Busy(d) /\ d # c
    BY <1>1, <1>3 DEF Busy
  <2>2. CASE s = "ok" /\ AppOf[d] = AppOf[c]
    BY <1>1, <1>2, <2>1, <2>2 DEF AppsInv, AppTypes, Busy
  <2>3. CASE ~(s = "ok" /\ AppOf[d] = AppOf[c])
    BY <1>1, <1>2, <2>1, <2>3 DEF AppsInv, AppTypes
  <2> QED
    BY <2>2, <2>3
<1>10. \A p \in alive' : tracked'[AppOf[p]] = p \/ Untracked(p)'
  BY <1>1, <1>2, <1>3, <1>5, <1>6 DEF AppsInv, AppTypes, Untracked
<1> QED
  BY <1>3, <1>4, <1>7, <1>8, <1>9, <1>10 DEF AppsInv

LEMMA CloseKeeps ==
  ASSUME AppsInv, NEW c \in D!AppCalls, D!Close(c)
  PROVE  AppsInv'
<1> USE AppsApart
<1>1. c \in Closes /\ step[c] = "new" /\ UNCHANGED alive /\ c \notin alive /\ target[c] = NoOne
  BY DEF D!Close, AppsInv, AppTypes
<1>2. CASE UNCHANGED <<target, together>> /\ (D!Goes(c, "failed") \/ D!Goes(c, "ok"))
  <2>1. PICK s \in {"ok", "failed", "cancelled"} : D!Goes(c, s) /\ s # "cancelled"
    BY <1>2
  <2>2. /\ StepTypes' /\ step'[c] = s /\ \A d \in D!AppCalls \ {c} : step'[d] = step[d]
        /\ \A d, e \in D!AppCalls : d # e /\ AppOf[d] = AppOf[e] /\ Busy(d)' /\ Busy(e)' => d \in together'
    BY <1>2, <2>1, AppsEnd
  <2>3. tracked' = tracked \/ (tracked[AppOf[c]] \notin alive /\ tracked' = [tracked EXCEPT ![AppOf[c]] = NoOne])
    BY <1>2, <2>1, <2>2 DEF D!Close, D!Goes, D!Running, D!Forgotten, AppsInv, AppTypes, StepTypes
  <2>4. AppTypes'
    BY <1>1, <1>2, <2>2, <2>3 DEF AppsInv, AppTypes
  <2>5. \A p \in alive : step'[p] = step[p] /\ (Untracked(p) => Untracked(p)') /\ tracked'[AppOf[p]] \in {tracked[AppOf[p]], NoOne}
          /\ (tracked[AppOf[p]] = p => tracked'[AppOf[p]] = p)
    BY <1>1, <1>2, <2>2, <2>3 DEF AppsInv, AppTypes, Untracked
  <2>6. \A d \in Closes : Busy(d)' => tracked'[AppOf[d]] \in {NoOne, target'[d]} \cup together'
    BY <1>2, <2>1, <2>2, <2>3 DEF AppsInv, AppTypes, Busy
  <2>7. /\ \A d \in Closes : target'[d] # NoOne => step'[target'[d]] \in {"ok", "cancelled"}
        /\ \A d \in Closes : step'[d] = "new" => target'[d] = NoOne
        /\ \A d \in Closes : step'[d] \in {"closed", "ok"} => target'[d] \notin alive'
    BY <1>1, <1>2, <2>1, <2>2 DEF AppsInv, AppTypes
  <2>8. \A d \in Launches, p \in alive' : step'[d] = "starting" /\ AppOf[p] = AppOf[d] => Untracked(p)'
    BY <1>1, <2>2, <2>5 DEF AppsInv
  <2> QED
    BY <1>1, <2>2, <2>4, <2>5, <2>6, <2>7, <2>8 DEF AppsInv
<1>3. CASE /\ D!Running(AppOf[c]) /\ D!Goes(c, "closing") /\ D!Meets(c)
           /\ target' = [target EXCEPT ![c] = tracked[AppOf[c]]] /\ UNCHANGED tracked
  <2>1. step' = [step EXCEPT ![c] = "closing"]
    BY <1>3 DEF D!Goes
  <2>2. /\ together \subseteq together'
        /\ \A d, e \in D!AppCalls : d # e /\ AppOf[d] = AppOf[e] /\ Busy(d)' /\ Busy(e)' => d \in together'
    BY <1>3, <2>1, MeetsMarks
  <2>3. step'[c] = "closing" /\ (\A d \in D!AppCalls \ {c} : step'[d] = step[d]) /\ StepTypes'
    BY <2>1 DEF AppsInv, AppTypes, StepTypes
  <2>4. /\ target'[c] = tracked[AppOf[c]] /\ tracked[AppOf[c]] \in alive
        /\ \A d \in Closes \ {c} : target'[d] = target[d]
    BY <1>1, <1>3 DEF AppsInv, AppTypes, D!Running
  <2>5. AppTypes'
    BY <1>1, <1>3, <2>3 DEF AppsInv, AppTypes
  <2>6. \A p \in alive : step'[p] = step[p] /\ (Untracked(p) => Untracked(p)')
    BY <1>1, <2>2, <2>3 DEF AppsInv, AppTypes, Untracked
  <2>7. \A d \in Launches, p \in alive' : step'[d] = "starting" /\ AppOf[p] = AppOf[d] => Untracked(p)'
    BY <1>1, <2>3, <2>6 DEF AppsInv
  <2>8. \A d \in Closes : Busy(d)' => tracked'[AppOf[d]] \in {NoOne, target'[d]} \cup together'
    BY <1>3, <2>2, <2>3, <2>4 DEF AppsInv, Busy
  <2>9. ASSUME NEW d \in Closes
        PROVE  /\ target'[d] # NoOne => step'[target'[d]] \in {"ok", "cancelled"}
               /\ step'[d] = "new" => target'[d] = NoOne
               /\ step'[d] \in {"closed", "ok"} => target'[d] \notin alive'
    <3>1. CASE d = c
      BY <1>1, <2>3, <2>4, <2>6, <3>1 DEF AppsInv
    <3>2. CASE d # c
      BY <1>1, <2>3, <2>4, <3>2 DEF AppsInv, AppTypes
    <3> QED
      BY <3>1, <3>2
  <2> QED
    BY <1>1, <1>3, <2>2, <2>5, <2>6, <2>7, <2>8, <2>9 DEF AppsInv
<1> QED
  BY <1>2, <1>3 DEF D!Close

LEMMA CloseStepKeeps ==
  ASSUME AppsInv, NEW c \in D!AppCalls, D!Terminated(c) \/ D!Closed(c) \/ D!Killed(c)
  PROVE  AppsInv'
<1> USE AppsApart
<1>1. PICK s \in {"closed", "ok", "failed", "cancelled"} :
        /\ D!Goes(c, s) /\ c \in Closes /\ UNCHANGED <<target, together>>
        /\ \/ s = "closed" /\ step[c] = "closing" /\ alive' = alive \ {target[c]} /\ UNCHANGED tracked
           \/ s = "failed" /\ step[c] = "closed" /\ UNCHANGED <<tracked, alive>>
           \/ s = "ok" /\ step[c] = "closed" /\ tracked' = [tracked EXCEPT ![AppOf[c]] = NoOne] /\ UNCHANGED alive
           \/ s = "cancelled" /\ Busy(c) /\ UNCHANGED tracked /\ (alive' = alive \ {target[c]} \/ UNCHANGED alive)
  BY DEF D!Terminated, D!Closed, D!Killed, D!Forgotten, Busy
<1>2. /\ StepTypes' /\ step'[c] = s /\ \A d \in D!AppCalls \ {c} : step'[d] = step[d]
  BY <1>1 DEF AppsInv, AppTypes, StepTypes, D!Goes
<1>3. Busy(c) /\ alive' \subseteq alive /\ c \notin alive
  BY <1>1 DEF Busy, AppsInv
<1>4. AppTypes'
  BY <1>1, <1>2, <1>3 DEF AppsInv, AppTypes
<1>5. \A p \in alive : step'[p] = step[p] /\ (Untracked(p) => Untracked(p)')
  BY <1>1, <1>2, <1>3 DEF AppsInv, AppTypes, Untracked
<1>6. \A d, e \in D!AppCalls : d # e /\ AppOf[d] = AppOf[e] /\ Busy(d)' /\ Busy(e)' => d \in together'
  BY <1>1, <1>2, <1>3 DEF AppsInv, Busy
<1>7. \A d \in Launches, p \in alive' : step'[d] = "starting" /\ AppOf[p] = AppOf[d] => Untracked(p)'
  BY <1>1, <1>2, <1>3, <1>5 DEF AppsInv
<1>8. \A d \in Closes : Busy(d)' => tracked'[AppOf[d]] \in {NoOne, target'[d]} \cup together'
  BY <1>1, <1>2, <1>3 DEF AppsInv, AppTypes, Busy
<1>9. \A p \in alive' : tracked'[AppOf[p]] = p \/ Untracked(p)'
  <2> SUFFICES ASSUME NEW p \in alive' PROVE tracked'[AppOf[p]] = p \/ Untracked(p)'
    OBVIOUS
  <2>1. p \in alive /\ (tracked[AppOf[p]] = p \/ Untracked(p))
    BY <1>3 DEF AppsInv
  <2>2. CASE s = "ok" /\ tracked[AppOf[c]] = p
    <3>1. p # target[c] /\ p \in {NoOne, target[c]} \cup together /\ p # NoOne
      BY <1>1, <1>3, <2>1, <2>2 DEF AppsInv, AppTypes
    <3> QED
      BY <1>1, <3>1 DEF Untracked
  <2>3. CASE ~(s = "ok" /\ tracked[AppOf[c]] = p)
    BY <1>1, <1>5, <2>1, <2>3 DEF AppsInv, AppTypes
  <2> QED
    BY <2>2, <2>3
<1>10. ASSUME NEW d \in Closes
       PROVE  /\ target'[d] # NoOne => step'[target'[d]] \in {"ok", "cancelled"}
              /\ step'[d] = "new" => target'[d] = NoOne
              /\ step'[d] \in {"closed", "ok"} => target'[d] \notin alive'
  <2>1. target[d] # NoOne => target[d] \in Launches /\ target[d] # c
    BY <1>1 DEF AppsInv, AppTypes
  <2>2. CASE d = c
    BY <1>1, <1>2, <1>3, <2>1, <2>2 DEF AppsInv
  <2>3. CASE d # c
    BY <1>1, <1>2, <1>3, <2>1, <2>3 DEF AppsInv
  <2> QED
    BY <2>2, <2>3
<1> QED
  BY <1>3, <1>4, <1>5, <1>6, <1>7, <1>8, <1>9, <1>10 DEF AppsInv

LEMMA ExitKeeps ==
  ASSUME AppsInv, NEW p \in Launches, D!Exits(p)
  PROVE  AppsInv'
BY DEF D!Exits, AppsInv, AppTypes, StepTypes, Busy, Untracked

(* The calls of the two tools are not the same: what one does to the steps *)
(* and the meetings does not concern the other.                            *)
LEMMA AppsStay ==
  ASSUME AppsInv, StepTypes', \A c \in D!AppCalls : step'[c] = step[c], together \subseteq together',
         UNCHANGED <<tracked, alive, target>>
  PROVE  AppsInv'
<1> USE AppsApart
<1>1. \A p \in Launches : Untracked(p) => Untracked(p)'
  BY DEF Untracked
<1>2. \A c \in D!AppCalls : Busy(c)' <=> Busy(c)
  BY DEF Busy
<1>3. AppTypes'
  BY DEF AppsInv, AppTypes
<1>4. \A c \in Closes : target[c] # NoOne => target[c] \in D!AppCalls
  BY DEF AppsInv, AppTypes
<1> QED
  BY <1>1, <1>2, <1>3, <1>4 DEF AppsInv, AppTypes

LEMMA AppsSay == AppsInv => D!AppsKept
BY DEF AppsInv, Untracked, D!AppsKept

-----------------------------------------------------------------------------
(* Files.  A content is safe that a backup of its file has, or when as     *)
(* many as are kept of a pattern that catches the file are of later ones.  *)
SafeIn(kept, g, n) ==
  \/ \E b \in kept : b.file = g /\ b.content = n
  \/ \E h \in Files : g \in Catches[h] /\
       Cardinality({b \in kept : b.file \in Catches[h] /\ b.content >= n}) >= MaxBackups

Backups == [file : Files, content : Nat, by : Ops]

Alone(c) == step[c] = "working" /\ c \notin together /\ doing[c].action # "copy"

FilesInv ==
  /\ StepTypes
  /\ disk \in [Files -> Nat] /\ clock \in Nat
  /\ backups \subseteq Backups /\ IsFiniteSet(backups)
  /\ lost \subseteq [file : Files, content : Nat]
  /\ \A c \in Ops : step[c] = "working" => doing[c] \in D!Jobs
  /\ doing \in [Ops -> D!Jobs \cup {NoOne}]
  /\ \A c, d \in Ops :
       c # d /\ step[c] = "working" /\ step[d] = "working" /\ doing[c].to = doing[d].to => c \in together
  /\ \A c \in Ops : Alone(c) /\ disk[doing[c].to] # 0 => SafeIn(backups, doing[c].to, disk[doing[c].to])
  /\ \A l \in lost : SafeIn(backups, l.file, l.content)

LEMMA CardinalityOfD == \A T : D!Cardinality(T) = Cardinality(T)
BY Zenon DEF D!Cardinality, Cardinality

LEMMA PatternsNest ==
  /\ Catches \in [Files -> SUBSET Files] /\ MaxBackups \in Nat
  /\ \A g \in Files : g \in Catches[g]
  /\ \A g, h \in Files : Catches[g] \cap Catches[h] # {} =>
       Catches[g] \subseteq Catches[h] \/ Catches[h] \subseteq Catches[g]
BY RequestConstants, Zenon

LEMMA SafeGrows ==
  ASSUME NEW K, IsFiniteSet(K), NEW S \in SUBSET K, NEW g, NEW n, SafeIn(S, g, n)
  PROVE  SafeIn(K, g, n)
<1>1. CASE \E b \in S : b.file = g /\ b.content = n
  BY <1>1 DEF SafeIn
<1>2. ASSUME NEW h \in Files, g \in Catches[h],
             Cardinality({b \in S : b.file \in Catches[h] /\ b.content >= n}) >= MaxBackups
      PROVE  SafeIn(K, g, n)
  <2> DEFINE less == {b \in S : b.file \in Catches[h] /\ b.content >= n}
             more == {b \in K : b.file \in Catches[h] /\ b.content >= n}
  <2>1. less \subseteq more /\ more \subseteq K
    OBVIOUS
  <2>2. IsFiniteSet(more) /\ IsFiniteSet(less)
    BY <2>1, FS_Subset
  <2>3. Cardinality(less) <= Cardinality(more) /\ Cardinality(less) \in Nat /\ Cardinality(more) \in Nat
    BY <2>1, <2>2, FS_Subset, FS_CardinalityType
  <2>4. Cardinality(more) >= MaxBackups
    BY <1>2, <2>3, PatternsNest
  <2> QED
    BY <1>2, <2>4 DEF SafeIn
<1> QED
  BY <1>1, <1>2 DEF SafeIn

(* What is pruned is older than what stays, and if anything is pruned then *)
(* as many as are kept stay.                                               *)
LEMMA PruneLeaves ==
  ASSUME NEW K, K \subseteq Backups, IsFiniteSet(K), NEW g \in Files, NEW left1 \in D!Pruned(g, K)
  PROVE  /\ left1 \subseteq K
         /\ \A b \in K \ left1 :
              /\ b.file \in Catches[g]
              /\ Cardinality({q \in left1 : q.file \in Catches[g] /\ q.content >= b.content}) = MaxBackups
<1> DEFINE matching == {b \in K : b.file \in Catches[g]}
<1>1. PICK gone \in D!Excess(g, K) :
        /\ left1 = K \ gone
        /\ \A b \in gone, q \in K \ gone : q.file \in Catches[g] => b.content <= q.content
  BY DEF D!Pruned
<1>2. gone \subseteq matching
      /\ Cardinality(gone) = IF Cardinality(matching) - MaxBackups < 0 THEN 0 ELSE Cardinality(matching) - MaxBackups
  BY CardinalityOfD DEF D!Excess
<1>3. IsFiniteSet(matching) /\ IsFiniteSet(gone)
  BY <1>2, FS_Subset
<1>4. ASSUME NEW b \in K \ left1
      PROVE  /\ b.file \in Catches[g]
             /\ Cardinality({q \in left1 : q.file \in Catches[g] /\ q.content >= b.content}) = MaxBackups
  <2>1. b \in gone /\ b.file \in Catches[g]
    BY <1>1, <1>2, <1>4
  <2>2. {q \in left1 : q.file \in Catches[g] /\ q.content >= b.content} = matching \ gone
    <3>1. \A q \in matching \ gone : q.content >= b.content
      <4> SUFFICES ASSUME NEW q \in matching \ gone PROVE q.content >= b.content
        OBVIOUS
      <4>1. b.content \in Nat /\ q.content \in Nat
        BY <1>4 DEF Backups
      <4>2. b.content <= q.content
        BY <1>1, <2>1
      <4> QED
        BY <4>1, <4>2
    <3> QED
      BY <1>1, <1>2, <3>1
  <2>3. Cardinality(gone) # 0
    BY <1>3, <2>1, FS_EmptySet
  <2>4. Cardinality(matching \ gone) = Cardinality(matching) - Cardinality(matching \cap gone)
        /\ Cardinality(matching) \in Nat /\ Cardinality(gone) \in Nat
    BY <1>3, FS_Difference, FS_CardinalityType
  <2>5. matching \cap gone = gone
    BY <1>2
  <2> HIDE DEF matching
  <2>6. Cardinality(matching \ gone) = MaxBackups
    <3>1. PICK x \in Nat, y \in Nat, z \in Nat :
            x = Cardinality(matching) /\ y = Cardinality(gone) /\ z = MaxBackups
      BY <2>4, PatternsNest
    <3>2. y # 0 /\ y = IF x - z < 0 THEN 0 ELSE x - z
      BY <1>2, <2>3, <3>1
    <3>3. Cardinality(matching \ gone) = x - y
      BY <2>4, <2>5, <3>1
    <3> QED
      BY <3>1, <3>2, <3>3
  <2> QED
    BY <2>1, <2>2, <2>6
<1> QED
  BY <1>1, <1>4

LEMMA PruneKeepsSafe ==
  ASSUME NEW K, K \subseteq Backups, IsFiniteSet(K), NEW g \in Files, NEW left1 \in D!Pruned(g, K),
         NEW h \in Files, NEW n \in Nat, SafeIn(K, h, n)
  PROVE  SafeIn(left1, h, n)
<1>1. /\ left1 \subseteq K
      /\ \A b \in K \ left1 :
           /\ b.file \in Catches[g]
           /\ Cardinality({q \in left1 : q.file \in Catches[g] /\ q.content >= b.content}) = MaxBackups
  BY PruneLeaves
<1>2. /\ IsFiniteSet(left1)
      /\ \A T \in SUBSET left1 : IsFiniteSet(T) /\ Cardinality(T) \in Nat
      /\ \A T \in SUBSET left1 : \A U \in SUBSET T : Cardinality(U) <= Cardinality(T)
  BY <1>1, FS_Subset, FS_CardinalityType
<1>3. \A q \in K : q.file \in Files /\ q.content \in Nat
  BY DEF Backups
<1>4. ASSUME NEW b \in K \ left1, b.content >= n, NEW p \in Files, Catches[g] \subseteq Catches[p]
      PROVE  Cardinality({q \in left1 : q.file \in Catches[p] /\ q.content >= n}) >= MaxBackups
  <2> DEFINE few == {q \in left1 : q.file \in Catches[g] /\ q.content >= b.content}
             all == {q \in left1 : q.file \in Catches[p] /\ q.content >= n}
  <2>1. few \subseteq all /\ all \subseteq left1
    BY <1>1, <1>3, <1>4
  <2>2. Cardinality(few) = MaxBackups
    BY <1>1
  <2>3. Cardinality(few) <= Cardinality(all) /\ Cardinality(all) \in Nat
    BY <1>2, <2>1
  <2> QED
    BY <2>2, <2>3, PatternsNest
<1>5. CASE \E b \in K : b.file = h /\ b.content = n
  <2>1. PICK b \in K : b.file = h /\ b.content = n
    BY <1>5
  <2>2. CASE b \in left1
    BY <2>1, <2>2 DEF SafeIn
  <2>3. CASE b \notin left1
    <3>1. h \in Catches[g] /\ b.content >= n
      <4>1. b.file \in Catches[g]
        BY <1>1, <2>3
      <4>2. b.content >= n
        BY <2>1
      <4> QED
        BY <2>1, <4>1, <4>2
    <3>2. Cardinality({q \in left1 : q.file \in Catches[g] /\ q.content >= n}) >= MaxBackups
      BY <1>4, <2>1, <2>3, <3>1
    <3> QED
      BY <3>1, <3>2 DEF SafeIn
  <2> QED
    BY <2>2, <2>3
<1>6. ASSUME NEW p \in Files, h \in Catches[p],
             Cardinality({q \in K : q.file \in Catches[p] /\ q.content >= n}) >= MaxBackups
      PROVE  SafeIn(left1, h, n)
  <2>1. CASE \E b \in K \ left1 : b.file \in Catches[p] /\ b.content >= n
    <3>1. PICK b \in K \ left1 : b.file \in Catches[p] /\ b.content >= n
      BY <2>1
    <3>2. b.file \in Catches[g] \cap Catches[p]
      BY <1>1, <3>1
    <3>3. CASE Catches[g] \subseteq Catches[p]
      <4>1. Cardinality({q \in left1 : q.file \in Catches[p] /\ q.content >= n}) >= MaxBackups
        BY <1>4, <3>1, <3>3
      <4> QED
        BY <1>6, <4>1 DEF SafeIn
    <3>4. CASE Catches[p] \subseteq Catches[g]
      <4>1. Cardinality({q \in left1 : q.file \in Catches[g] /\ q.content >= n}) >= MaxBackups
        BY <1>4, <3>1
      <4> QED
        BY <1>6, <3>4, <4>1 DEF SafeIn
    <3> QED
      BY <3>2, <3>3, <3>4, PatternsNest
  <2>2. CASE ~\E b \in K \ left1 : b.file \in Catches[p] /\ b.content >= n
    <3>1. {q \in K : q.file \in Catches[p] /\ q.content >= n} = {q \in left1 : q.file \in Catches[p] /\ q.content >= n}
      BY <1>1, <2>2
    <3> QED
      BY <1>6, <3>1 DEF SafeIn
  <2> QED
    BY <2>1, <2>2
<1> QED
  BY <1>5, <1>6 DEF SafeIn

(* _create_backup(): everything that was safe still is, and so is what is  *)
(* on the disk.                                                            *)
LEMMA BackupKeeps ==
  ASSUME FilesInv, NEW c \in Ops, NEW g \in Files, D!BackedUp(c, g)
  PROVE  /\ backups' \subseteq Backups /\ IsFiniteSet(backups')
         /\ \A h \in Files, n \in Nat : SafeIn(backups, h, n) => SafeIn(backups', h, n)
         /\ disk[g] # 0 => SafeIn(backups', g, disk[g])
<1>1. CASE disk[g] = 0
  BY <1>1 DEF D!BackedUp, D!Absent, FilesInv
<1>2. CASE disk[g] # 0
  <2>1. PICK b : b = [file |-> g, content |-> disk[g], by |-> c]
    OBVIOUS
  <2>2. b \in Backups /\ b.file = g /\ b.content = disk[g] /\ disk[g] \in Nat
    BY <2>1 DEF Backups, FilesInv
  <2>3. PICK K : K = backups \cup {b}
    OBVIOUS
  <2>4. backups' \in D!Pruned(g, K)
    BY <1>2, <2>1, <2>3 DEF D!BackedUp, D!Absent
  <2>5. K \subseteq Backups /\ IsFiniteSet(K) /\ b \in K /\ backups \in SUBSET K
    BY <2>2, <2>3, FS_AddElement DEF FilesInv
  <2>6. backups' \subseteq K
    BY <2>4, <2>5, PruneLeaves
  <2>7. \A h \in Files, n \in Nat : SafeIn(K, h, n) => SafeIn(backups', h, n)
    BY <2>4, <2>5, PruneKeepsSafe
  <2>8. \A h \in Files, n \in Nat : SafeIn(backups, h, n) => SafeIn(K, h, n)
    BY <2>5, SafeGrows
  <2>9. SafeIn(K, g, disk[g])
    BY <2>2, <2>5 DEF SafeIn
  <2>10. backups' \subseteq Backups /\ IsFiniteSet(backups')
    BY <2>5, <2>6, FS_Subset
  <2> QED
    BY <2>2, <2>7, <2>8, <2>9, <2>10
<1> QED
  BY <1>1, <1>2

LEMMA FilesStart == D!Init => FilesInv
BY FS_EmptySet DEF D!Init, FilesInv, StepTypes, Alone, Backups, D!Absent

LEMMA BeginKeeps ==
  ASSUME FilesInv, NEW c \in Ops, NEW j \in D!Jobs, D!Begin(c, j)
  PROVE  FilesInv'
<1>1. /\ step[c] = "new" /\ step' = [step EXCEPT ![c] = "working"]
      /\ doing' = [doing EXCEPT ![c] = j] /\ D!Shares(c, j.to)
      /\ UNCHANGED <<disk, lost, clock>>
      /\ IF j.action = "copy" THEN UNCHANGED backups ELSE D!BackedUp(c, j.to)
  BY DEF D!Begin, D!Goes
<1>2. /\ StepTypes' /\ step'[c] = "working" /\ doing'[c] = j
      /\ \A d \in Ops \ {c} : step'[d] = step[d] /\ doing'[d] = doing[d]
      /\ doing' \in [Ops -> D!Jobs \cup {NoOne}]
  BY <1>1 DEF FilesInv, StepTypes
<1>3. j.to \in Files
  BY DEF D!Jobs
<1>4. /\ backups' \subseteq Backups /\ IsFiniteSet(backups')
      /\ \A h \in Files, n \in Nat : SafeIn(backups, h, n) => SafeIn(backups', h, n)
      /\ j.action # "copy" /\ disk[j.to] # 0 => SafeIn(backups', j.to, disk[j.to])
  <2>1. CASE j.action = "copy"
    BY <1>1, <2>1 DEF FilesInv
  <2>2. CASE j.action # "copy"
    BY <1>1, <1>3, <2>2, BackupKeeps
  <2> QED
    BY <2>1, <2>2
<1>5. /\ together \subseteq together'
      /\ \A d, e \in Ops :
           d # e /\ step'[d] = "working" /\ step'[e] = "working" /\ doing'[d].to = doing'[e].to => d \in together'
  <2>1. PICK others : others = {d \in Ops \ {c} : step[d] = "working" /\ doing[d].to = j.to}
    OBVIOUS
  <2>2. together' = IF others = {} THEN together ELSE together \cup others \cup {c}
    BY <1>1, <2>1 DEF D!Shares
  <2>3. ASSUME NEW d \in Ops, NEW e \in Ops, d # e, step'[d] = "working", step'[e] = "working",
               doing'[d].to = doing'[e].to
        PROVE  d \in together'
    <3>1. CASE d = c
      BY <1>2, <2>1, <2>2, <2>3, <3>1
    <3>2. CASE e = c
      BY <1>2, <2>1, <2>2, <2>3, <3>2
    <3>3. CASE d # c /\ e # c
      BY <1>2, <2>2, <2>3, <3>3 DEF FilesInv
    <3> QED
      BY <3>1, <3>2, <3>3
  <2> QED
    BY <2>2, <2>3
<1>6. ASSUME NEW d \in Ops, Alone(d)', disk'[doing'[d].to] # 0
      PROVE  SafeIn(backups', doing'[d].to, disk'[doing'[d].to])
  <2>1. CASE d = c
    BY <1>1, <1>2, <1>4, <1>6, <2>1 DEF Alone
  <2>2. CASE d # c
    <3>1. Alone(d) /\ doing'[d] = doing[d] /\ doing[d] \in D!Jobs
      BY <1>2, <1>5, <1>6, <2>2 DEF Alone, FilesInv
    <3>2. doing[d].to \in Files /\ disk[doing[d].to] \in Nat
      BY <3>1 DEF D!Jobs, FilesInv
    <3>3. SafeIn(backups, doing[d].to, disk[doing[d].to])
      BY <1>1, <1>6, <3>1 DEF FilesInv
    <3> QED
      BY <1>1, <1>4, <3>1, <3>2, <3>3
  <2> QED
    BY <2>1, <2>2
<1>7. \A l \in lost' : SafeIn(backups', l.file, l.content)
  BY <1>1, <1>4 DEF FilesInv
<1>8. \A d \in Ops : step'[d] = "working" => doing'[d] \in D!Jobs
  BY <1>2 DEF FilesInv
<1> QED
  BY <1>1, <1>2, <1>4, <1>5, <1>6, <1>7, <1>8 DEF FilesInv

(* Nothing but its own file and the one it moves is changed by a call.     *)
LEMMA FinishKeeps ==
  ASSUME FilesInv, NEW c \in Ops, D!Finish(c)
  PROVE  FilesInv'
<1>1. /\ step[c] = "working" /\ doing[c] \in D!Jobs /\ UNCHANGED <<together, backups, doing>>
      /\ D!Write(c) \/ D!Delete(c) \/ D!Move(c) \/ D!Copy(c)
  BY DEF D!Finish, FilesInv
<1>2. doing[c].to \in Files /\ doing[c].from \in Files
      /\ (doing[c].action = "move" => doing[c].from # doing[c].to)
  BY <1>1 DEF D!Jobs
<1>3. PICK s \in {"ok", "failed"} : D!Goes(c, s)
  BY <1>1 DEF D!Write, D!Delete, D!Move, D!Copy
<1>4. /\ StepTypes' /\ step'[c] = s /\ \A d \in Ops \ {c} : step'[d] = step[d]
  BY <1>3 DEF FilesInv, StepTypes, D!Goes
<1>5. /\ disk' \in [Files -> Nat] /\ clock' \in Nat
      /\ \A f \in Files \ {doing[c].to} : disk'[f] \in {disk[f], 0}
  <2>1. disk \in [Files -> Nat] /\ clock \in Nat
    BY DEF FilesInv
  <2>2. CASE D!Write(c)
    BY <1>2, <2>1, <2>2 DEF D!Write
  <2>3. CASE D!Delete(c)
    BY <1>2, <2>1, <2>3 DEF D!Delete, D!Absent
  <2>4. CASE D!Move(c)
    BY <1>2, <2>1, <2>4 DEF D!Move, D!Absent
  <2>5. CASE D!Copy(c)
    BY <1>2, <2>1, <2>5 DEF D!Copy, D!Absent
  <2> QED
    BY <1>1, <2>2, <2>3, <2>4, <2>5
<1>6. /\ lost' \subseteq [file : Files, content : Nat]
      /\ \A l \in lost' : SafeIn(backups, l.file, l.content)
  <2>1. CASE lost' = lost
    BY <2>1 DEF FilesInv
  <2>2. CASE lost' # lost
    <3>1. D!Loses(c) /\ doing[c].action # "copy"
      BY <1>1, <2>2 DEF D!Write, D!Delete, D!Move, D!Copy
    <3>2. PICK l : l = [file |-> doing[c].to, content |-> disk[doing[c].to]]
      OBVIOUS
    <3>3. lost' = lost \cup {l} /\ disk[doing[c].to] # 0 /\ c \notin together
      BY <2>2, <3>1, <3>2 DEF D!Loses, D!Absent
    <3>4. Alone(c)
      BY <1>1, <3>1, <3>3 DEF Alone
    <3>5. SafeIn(backups, doing[c].to, disk[doing[c].to]) /\ disk[doing[c].to] \in Nat
      BY <1>2, <3>3, <3>4 DEF FilesInv
    <3>6. l \in [file : Files, content : Nat] /\ SafeIn(backups, l.file, l.content)
      BY <1>2, <3>2, <3>5
    <3> QED
      BY <3>3, <3>6 DEF FilesInv
  <2> QED
    BY <2>1, <2>2
<1>7. ASSUME NEW d \in Ops, Alone(d)', disk'[doing[d].to] # 0
      PROVE  SafeIn(backups, doing[d].to, disk'[doing[d].to])
  <2>1. d # c /\ Alone(d) /\ doing[d] \in D!Jobs
    BY <1>1, <1>4, <1>7 DEF Alone, FilesInv
  <2>2. doing[d].to # doing[c].to
    BY <1>1, <2>1 DEF Alone, FilesInv
  <2>3. doing[d].to \in Files
    BY <2>1 DEF D!Jobs
  <2>4. disk'[doing[d].to] = disk[doing[d].to]
    BY <1>5, <1>7, <2>2, <2>3
  <2> QED
    BY <1>7, <2>1, <2>4 DEF FilesInv
<1>8. \A d \in Ops : step'[d] = "working" => step[d] = "working" /\ d # c
  BY <1>4
<1> QED
  BY <1>1, <1>4, <1>5, <1>6, <1>7, <1>8 DEF FilesInv

LEMMA FilesStay ==
  ASSUME FilesInv, StepTypes', \A c \in Ops : step'[c] = step[c] \/ step'[c] = "failed",
         together \subseteq together', UNCHANGED <<disk, backups, doing, lost, clock>>
  PROVE  FilesInv'
<1>1. \A c \in Ops : step'[c] = "working" => step[c] = "working"
  OBVIOUS
<1>2. \A c \in Ops : Alone(c)' => Alone(c)
  BY <1>1 DEF Alone
<1> QED
  BY <1>1, <1>2 DEF FilesInv

LEMMA FilesSay == FilesInv => D!BackupsKept
BY CardinalityOfD DEF FilesInv, SafeIn, D!BackupsKept

-----------------------------------------------------------------------------
(* The two tools together, and what the three parts promise.               *)
DesktopInv == AppsInv /\ FilesInv

(* What a step of app.control leaves to file.manage.                       *)
LEMMA AppsAside ==
  ASSUME DesktopInv, AppsInv', NEW c \in D!AppCalls, NEW s, D!Goes(c, s) \/ UNCHANGED step,
         D!Meets(c) \/ UNCHANGED together, UNCHANGED D!files
  PROVE  FilesInv'
<1>1. StepTypes' /\ \A d \in Ops : step'[d] = step[d]
  BY AppsApart DEF DesktopInv, AppsInv, AppTypes, StepTypes, D!Goes
<1>2. together \subseteq together'
  BY DEF D!Meets
<1> QED
  BY <1>1, <1>2, FilesStay DEF DesktopInv, D!files

LEMMA DesktopKept == DesktopInv /\ [D!Next]_(D!vars) => DesktopInv'
<1> SUFFICES ASSUME DesktopInv, [D!Next]_(D!vars) PROVE DesktopInv'
  OBVIOUS
<1>1. ASSUME NEW c \in D!AppCalls, UNCHANGED D!files,
             \/ D!Launch(c) \/ D!Launched(c) \/ D!Close(c) \/ D!Terminated(c) \/ D!Closed(c) \/ D!Killed(c)
      PROVE  DesktopInv'
  <2>1. AppsInv'
    BY <1>1, LaunchKeeps, LaunchedKeeps, CloseKeeps, CloseStepKeeps DEF DesktopInv
  <2>2. PICK s \in {"starting", "closing", "closed", "ok", "failed", "cancelled"} : D!Goes(c, s)
    BY <1>1 DEF D!Launch, D!Launched, D!Close, D!Terminated, D!Closed, D!Killed
  <2>3. D!Meets(c) \/ UNCHANGED together
    BY <1>1 DEF D!Launch, D!Launched, D!Close, D!Terminated, D!Closed, D!Killed
  <2> QED
    BY <1>1, <2>1, <2>2, <2>3, AppsAside DEF DesktopInv
<1>2. ASSUME NEW p \in Launches, UNCHANGED D!files, D!Exits(p) PROVE DesktopInv'
  <2>1. AppsInv'
    BY <1>2, ExitKeeps DEF DesktopInv
  <2>2. FilesInv'
    BY <1>2, FilesStay DEF D!Exits, D!files, DesktopInv, FilesInv, StepTypes
  <2> QED
    BY <2>1, <2>2 DEF DesktopInv
<1>3. ASSUME NEW c \in Ops, D!Fails(c) PROVE DesktopInv'
  <2>1. /\ step' = [step EXCEPT ![c] = "failed"] /\ UNCHANGED <<together, tracked, alive, target>>
        /\ UNCHANGED <<disk, backups, doing, lost, clock>>
    BY <1>3 DEF D!Fails, D!Goes, D!apps, D!files
  <2>2. StepTypes' /\ \A d \in D!AppCalls \cup Ops : step'[d] = step[d] \/ (d = c /\ step'[d] = "failed")
    BY <2>1 DEF DesktopInv, FilesInv, StepTypes
  <2>3. \A d \in D!AppCalls : step'[d] = step[d]
    BY <2>2, AppsApart
  <2>4. AppsInv'
    BY <2>1, <2>2, <2>3, AppsStay DEF DesktopInv
  <2>5. FilesInv'
    BY <2>1, <2>2, FilesStay DEF DesktopInv
  <2> QED
    BY <2>4, <2>5 DEF DesktopInv
<1>4. ASSUME NEW c \in Ops, FilesInv', NEW s, D!Goes(c, s), together \subseteq together',
             UNCHANGED D!apps
      PROVE  DesktopInv'
  <2>1. \A d \in D!AppCalls : step'[d] = step[d]
    BY <1>4, AppsApart DEF D!Goes, DesktopInv, AppsInv, AppTypes, StepTypes
  <2>2. AppsInv'
    BY <1>4, <2>1, AppsStay DEF DesktopInv, FilesInv, D!apps
  <2> QED
    BY <1>4, <2>2 DEF DesktopInv
<1>5. ASSUME NEW c \in Ops, NEW j \in D!Jobs, D!Begin(c, j) PROVE DesktopInv'
  <2>1. FilesInv'
    BY <1>5, BeginKeeps DEF DesktopInv
  <2>2. D!Goes(c, "working") /\ together \subseteq together' /\ UNCHANGED D!apps
    BY <1>5 DEF D!Begin, D!Shares
  <2> QED
    BY <1>4, <2>1, <2>2
<1>6. ASSUME NEW c \in Ops, D!Finish(c) PROVE DesktopInv'
  <2>1. FilesInv'
    BY <1>6, FinishKeeps DEF DesktopInv
  <2>2. PICK s \in {"ok", "failed"} : D!Goes(c, s)
    BY <1>6 DEF D!Finish, D!Write, D!Delete, D!Move, D!Copy
  <2>3. together' = together /\ UNCHANGED D!apps
    BY <1>6 DEF D!Finish
  <2> QED
    BY <1>4, <2>1, <2>2, <2>3
<1>7. CASE UNCHANGED D!vars
  <2>1. UNCHANGED <<step, together, tracked, alive, target, disk, backups, doing, lost, clock>>
    BY <1>7 DEF D!vars, D!apps, D!files
  <2>2. StepTypes'
    BY <2>1 DEF DesktopInv, FilesInv, StepTypes
  <2>3. AppsInv'
    BY <2>1, <2>2, AppsStay DEF DesktopInv
  <2>4. FilesInv'
    BY <2>1, <2>2, FilesStay DEF DesktopInv
  <2> QED
    BY <2>3, <2>4 DEF DesktopInv
<1> QED
  BY <1>1, <1>2, <1>3, <1>5, <1>6, <1>7 DEF D!Next, D!AppControl, D!FileManage

(* What the tools do on the host stays under control, whatever they do     *)
(* beside each other and however calls are cut off by a kill: a button is  *)
(* not left pressed and a text reported as typed is all typed, a process   *)
(* that runs can be closed, what was replaced is in a backup, and the      *)
(* mirror of the screen goes on (tools/control, gateway/mirror_handlers).  *)
THEOREM HostStaysControlled == N!Spec /\ D!Spec /\ M!Spec => []ControlSound
<1>1. N!Init /\ D!Init /\ M!Init => InputInv /\ DesktopInv /\ MirrorInv
  BY InputStarts, AppsStart, FilesStart, MirrorStarts DEF DesktopInv
<1>2. /\ InputInv /\ [N!Next]_(N!vars) => InputInv'
      /\ DesktopInv /\ [D!Next]_(D!vars) => DesktopInv'
      /\ MirrorInv /\ [M!Next]_(M!vars) => MirrorInv'
  BY InputKept, DesktopKept, MirrorKept
<1>3. InputInv /\ DesktopInv /\ MirrorInv => ControlSound
  BY InputSays, AppsSay, FilesSay, MirrorSays DEF DesktopInv, ControlSound, D!DesktopSound
<1> QED
  BY <1>1, <1>2, <1>3, PTL DEF N!Spec, D!Spec, M!Spec

-----------------------------------------------------------------------------
(* Conversations.                                                          *)
ChatRoles == {"user", "assistant"}
Rows == [by : Chats, role : ChatRoles, time : Nat]

Says(r, role) == \E w \in rows : w.by = r /\ w.role = role

ChatTypes ==
  /\ stage \in [Chats -> ChatRoles \cup {"new", "routing", "streaming", "over", "failed"}]
  /\ txn \in [Chats -> {"none", "inserted", "counted", "committed"}]
  /\ stamp \in [Chats -> Nat] /\ writes \in [Chats -> Nat] /\ count \in Nat /\ time \in Nat
  /\ rows \subseteq Rows /\ IsFiniteSet(rows)
  /\ told \subseteq Chats /\ before \in [Chats -> SUBSET Chats]

(* Who has counted holds the row, so that nobody else writes the count.    *)
LockInv ==
  /\ \A r \in Chats : txn[r] = "counted" <=> rowLock = r
  /\ \A r \in Chats : txn[r] = "counted" => writes[r] = count + 1
  /\ \A r \in Chats : txn[r] # "none" => stage[r] \in ChatRoles
  /\ count = Cardinality(rows)

(* What a request has stored, by how far it has come.                      *)
Leaves(r) ==
  /\ stage[r] = "new" \/ (stage[r] = "user" /\ txn[r] # "committed") => \A w \in rows : w.by # r
  /\ \/ stage[r] = "user" /\ txn[r] = "committed"
     \/ stage[r] \in {"routing", "streaming", "assistant"}
     => Says(r, "user")
  /\ \/ stage[r] \in {"user", "routing", "streaming"}
     \/ stage[r] = "assistant" /\ txn[r] # "committed"
     => ~Says(r, "assistant")
  /\ stage[r] = "over" \/ (stage[r] = "assistant" /\ txn[r] = "committed") => Says(r, "assistant")

RowsInv ==
  /\ \A r \in Chats : Leaves(r)
  /\ \A w, v \in rows : w.by = v.by /\ w.role = v.role => w = v
  /\ \A w \in rows : w.time <= time
  /\ \A w \in rows : w.role = "assistant" =>
       \E u \in rows : u.by = w.by /\ u.role = "user" /\ u.time < w.time
  /\ \A r \in Chats : \A q \in before[r] : stage[q] \in {"over", "failed"}
  /\ \A r \in Chats : txn[r] \in {"inserted", "counted"} =>
       stamp[r] <= time /\ \A w \in rows : w.by = r \/ w.by \in before[r] => w.time < stamp[r]
  /\ \A r \in Chats : \A q \in before[r] : \A w, v \in rows : w.by = q /\ v.by = r => w.time < v.time
  /\ \A r \in told : Says(r, "user") /\ (r \notin Streams => Says(r, "assistant"))

(* What the working memory has of a request, by how far it has come.       *)
Recalls(m) ==
  /\ m \in Seq(Chats \X ChatRoles)
  /\ \A i, j \in DOMAIN m : m[i] = m[j] => i = j
  /\ \A i \in DOMAIN m : Says(m[i][1], m[i][2])
  /\ \A i, j \in DOMAIN m : m[i][1] = m[j][1] /\ m[i][2] = "user" /\ m[j][2] = "assistant" => i < j
  /\ \A i \in DOMAIN m : stage[m[i][1]] \notin {"new", "user"}
  /\ \A i \in DOMAIN m : m[i][2] = "assistant" => stage[m[i][1]] \in {"over", "failed"}

HistoryInv == ChatTypes /\ LockInv /\ RowsInv /\ (memory # H!None => Recalls(memory))

LEMMA CardinalityOfH == \A T : H!Cardinality(T) = Cardinality(T)
BY Zenon DEF H!Cardinality, Cardinality

LEMMA NobodyChats == Nobody \notin Chats
BY RequestConstants, Zenon

LEMMA HistoryStarts == H!Init => HistoryInv
<1> SUFFICES ASSUME H!Init PROVE HistoryInv
  OBVIOUS
<1>1. rows = {} /\ IsFiniteSet(rows) /\ Cardinality(rows) = 0
  BY FS_EmptySet DEF H!Init
<1>2. ChatTypes
  BY <1>1 DEF H!Init, ChatTypes
<1>3. LockInv
  BY <1>1, NobodyChats DEF H!Init, LockInv
<1>4. RowsInv
  BY <1>1 DEF H!Init, RowsInv, Leaves, Says
<1>5. memory = H!None
  BY DEF H!Init
<1> QED
  BY <1>2, <1>3, <1>4, <1>5 DEF HistoryInv

(* What only moves a request on, and stores nothing.                       *)
LEMMA RecallsStay ==
  ASSUME HistoryInv, UNCHANGED <<memory, rows>>,
         \A r \in Chats : stage[r] \notin {"new", "user"} => stage'[r] \notin {"new", "user"},
         \A r \in Chats : stage[r] \in {"over", "failed"} => stage'[r] \in {"over", "failed"}
  PROVE  memory' # H!None => Recalls(memory)'
<1> SUFFICES ASSUME memory # H!None PROVE Recalls(memory)'
  BY DEF H!None
<1>1. Recalls(memory)
  BY DEF HistoryInv
<1>2. \A i \in DOMAIN memory : memory[i] \in Chats \X ChatRoles
  BY <1>1 DEF Recalls
<1>3. \A i \in DOMAIN memory : memory[i][1] \in Chats
  BY <1>2
<1> QED
  BY <1>1, <1>3 DEF Recalls, Says

LEMMA ReceiveKeeps ==
  ASSUME HistoryInv, NEW r \in Chats, H!Receive(r)
  PROVE  HistoryInv'
<1>1. /\ stage[r] = "new" /\ stage' = [stage EXCEPT ![r] = "user"]
      /\ UNCHANGED <<txn, stamp, writes, rowLock, rows, count, memory, told, time>>
  BY DEF H!Receive, H!Goes, H!row, H!bounds
<1>2. PICK olds \in SUBSET Chats :
        /\ before' = [before EXCEPT ![r] = olds]
        /\ \A q \in olds : stage[q] \in {"over", "failed"}
  <2>1. PICK olds : olds = {q \in Chats : ConnOf[q] = ConnOf[r] /\ stage[q] \in {"over", "failed"}}
    OBVIOUS
  <2>2. before' = [before EXCEPT ![r] = olds]
    BY <2>1 DEF H!Receive
  <2> QED
    BY <2>1, <2>2
<1>3. ChatTypes'
  BY <1>1, <1>2 DEF HistoryInv, ChatTypes, ChatRoles
<1>4. LockInv'
  BY <1>1 DEF HistoryInv, ChatTypes, LockInv, ChatRoles
<1>5. stage'[r] = "user" /\ (\A q \in Chats \ {r} : stage'[q] = stage[q] /\ before'[q] = before[q])
      /\ before'[r] = olds
  BY <1>1, <1>2 DEF HistoryInv, ChatTypes
<1>6. txn[r] = "none" /\ \A w \in rows : w.by # r
  BY <1>1 DEF HistoryInv, LockInv, ChatRoles, RowsInv, Leaves, ChatTypes
<1>7. \A q \in Chats : Leaves(q)'
  BY <1>1, <1>5, <1>6 DEF HistoryInv, RowsInv, Leaves, Says
<1>8. \A p \in Chats : \A q \in before'[p] : stage'[q] \in {"over", "failed"}
  <2>1. \A q \in Chats : stage[q] \in {"over", "failed"} => stage'[q] \in {"over", "failed"}
    BY <1>1, <1>5
  <2> QED
    BY <1>2, <1>5, <2>1 DEF HistoryInv, RowsInv, ChatTypes
<1>9. RowsInv'
  BY <1>1, <1>5, <1>6, <1>7, <1>8 DEF HistoryInv, RowsInv, Says
<1>10. memory' # H!None => Recalls(memory)'
  BY <1>1, <1>5, RecallsStay
<1> QED
  BY <1>3, <1>4, <1>9, <1>10 DEF HistoryInv

LEMMA InsertKeeps ==
  ASSUME HistoryInv, NEW r \in Chats, H!Insert(r)
  PROVE  HistoryInv'
<1>1. /\ stage[r] \in ChatRoles /\ txn[r] = "none" /\ txn' = [txn EXCEPT ![r] = "inserted"]
      /\ time' = time + 1 /\ stamp' = [stamp EXCEPT ![r] = time + 1]
      /\ UNCHANGED <<stage, writes, rowLock, rows, count, memory, told, before>>
  BY DEF H!Insert, H!Storing, H!Roles, ChatRoles, H!history
<1>2. ChatTypes'
  BY <1>1 DEF HistoryInv, ChatTypes
<1>3. LockInv'
  BY <1>1 DEF HistoryInv, ChatTypes, LockInv
<1>4. /\ txn'[r] = "inserted" /\ stamp'[r] = time + 1
      /\ \A q \in Chats \ {r} : txn'[q] = txn[q] /\ stamp'[q] = stamp[q]
  BY <1>1 DEF HistoryInv, ChatTypes
<1>5. \A q \in Chats : Leaves(q)'
  BY <1>1, <1>4 DEF HistoryInv, RowsInv, Leaves, Says
<1>6. /\ \A w \in rows : w.time <= time /\ w.time \in Nat
      /\ time \in Nat /\ \A q \in Chats : stamp[q] \in Nat
  BY DEF HistoryInv, RowsInv, ChatTypes, Rows
<1>7. \A w \in rows' : w.time <= time'
  BY <1>1, <1>6
<1>8. \A q \in Chats : txn'[q] \in {"inserted", "counted"} =>
        stamp'[q] <= time' /\ \A w \in rows' : w.by = q \/ w.by \in before'[q] => w.time < stamp'[q]
  <2> SUFFICES ASSUME NEW q \in Chats, txn'[q] \in {"inserted", "counted"}
               PROVE  stamp'[q] <= time' /\ \A w \in rows' : w.by = q \/ w.by \in before'[q] => w.time < stamp'[q]
    OBVIOUS
  <2>1. CASE q = r
    BY <1>1, <1>4, <1>6, <2>1
  <2>2. CASE q # r
    <3>1. stamp[q] <= time /\ \A w \in rows : w.by = q \/ w.by \in before[q] => w.time < stamp[q]
      BY <1>4, <2>2 DEF HistoryInv, RowsInv
    <3> QED
      BY <1>1, <1>4, <1>6, <2>2, <3>1
  <2> QED
    BY <2>1, <2>2
<1>9. RowsInv'
  BY <1>1, <1>5, <1>7, <1>8 DEF HistoryInv, RowsInv, Says
<1>10. memory' # H!None => Recalls(memory)'
  BY <1>1, RecallsStay
<1> QED
  BY <1>2, <1>3, <1>9, <1>10 DEF HistoryInv

LEMMA CountKeeps ==
  ASSUME HistoryInv, NEW r \in Chats, H!Count(r)
  PROVE  HistoryInv'
<1> USE NobodyChats
<1>1. /\ txn[r] = "inserted" /\ rowLock = Nobody /\ rowLock' = r
      /\ txn' = [txn EXCEPT ![r] = "counted"] /\ writes' = [writes EXCEPT ![r] = count + 1]
      /\ UNCHANGED <<stage, stamp, rows, count, memory, told, before, time>>
  BY DEF H!Count, H!history, H!bounds
<1>2. ChatTypes'
  BY <1>1 DEF HistoryInv, ChatTypes
<1>3. LockInv'
  BY <1>1 DEF HistoryInv, ChatTypes, LockInv
<1>4. txn'[r] = "counted" /\ \A q \in Chats \ {r} : txn'[q] = txn[q]
  BY <1>1 DEF HistoryInv, ChatTypes
<1>5. \A q \in Chats : Leaves(q)'
  BY <1>1, <1>4 DEF HistoryInv, RowsInv, Leaves, Says
<1>6. RowsInv'
  BY <1>1, <1>4, <1>5 DEF HistoryInv, RowsInv, Says
<1>7. memory' # H!None => Recalls(memory)'
  BY <1>1, RecallsStay
<1> QED
  BY <1>2, <1>3, <1>6, <1>7 DEF HistoryInv

LEMMA CommitKeeps ==
  ASSUME HistoryInv, NEW r \in Chats, H!Commit(r)
  PROVE  HistoryInv'
<1> USE NobodyChats
<1>1. PICK b : b = [by |-> r, role |-> stage[r], time |-> stamp[r]]
  OBVIOUS
<1>2. /\ txn[r] = "counted" /\ rowLock' = Nobody /\ txn' = [txn EXCEPT ![r] = "committed"]
      /\ rows' = rows \cup {b} /\ count' = writes[r]
      /\ stamp' = [q \in Chats |-> IF q = r THEN 0 ELSE stamp[q]]
      /\ writes' = [q \in Chats |-> IF q = r THEN 0 ELSE writes[q]]
      /\ UNCHANGED <<stage, memory, told, before, time>>
  BY <1>1 DEF H!Commit, H!Forget, H!history, H!bounds
<1>3. rowLock = r /\ writes[r] = count + 1 /\ stage[r] \in ChatRoles /\ count = Cardinality(rows)
      /\ count \in Nat /\ stamp[r] \in Nat
  BY <1>2 DEF HistoryInv, LockInv, ChatTypes
<1>4. b \in Rows /\ b.by = r /\ b.role = stage[r] /\ b.time = stamp[r]
  BY <1>1, <1>3 DEF Rows
<1>5. /\ \A w \in rows : w.by = r => w.role # stage[r]
      /\ stage[r] = "user" => \A w \in rows : w.by # r
      /\ stage[r] = "assistant" => Says(r, "user")
  BY <1>2, <1>3 DEF HistoryInv, RowsInv, Leaves, Says, ChatRoles
<1>6. b \notin rows
  BY <1>4, <1>5
<1>7. IsFiniteSet(rows') /\ Cardinality(rows') = Cardinality(rows) + 1
  BY <1>2, <1>6, FS_AddElement DEF HistoryInv, ChatTypes
<1>8. ChatTypes'
  <2>1. rows' \subseteq Rows /\ count' \in Nat
    BY <1>2, <1>3, <1>4 DEF HistoryInv, ChatTypes
  <2> QED
    BY <1>2, <1>7, <2>1 DEF HistoryInv, ChatTypes
<1>9. txn'[r] = "committed" /\ \A q \in Chats \ {r} : txn'[q] = txn[q] /\ stamp'[q] = stamp[q]
  BY <1>2 DEF HistoryInv, ChatTypes
<1>10. \A q \in Chats : txn'[q] # "counted"
  BY <1>3, <1>9 DEF HistoryInv, LockInv
<1>11. LockInv'
  <2>1. count' = Cardinality(rows')
    BY <1>2, <1>3, <1>7
  <2>2. \A q \in Chats : txn'[q] = "counted" <=> rowLock' = q
    BY <1>2, <1>10
  <2>3. \A q \in Chats : txn'[q] # "none" => stage'[q] \in ChatRoles
    BY <1>2, <1>3, <1>9 DEF HistoryInv, LockInv
  <2> QED
    BY <1>10, <2>1, <2>2, <2>3 DEF LockInv
<1>12. \A q \in Chats \ {r}, role \in ChatRoles : Says(q, role)' <=> Says(q, role)
  BY <1>2, <1>4 DEF Says
<1>13. \A q \in Chats, role \in ChatRoles : Says(q, role) => Says(q, role)'
  BY <1>2 DEF Says
<1>14. \A q \in Chats : Leaves(q)'
  <2> SUFFICES ASSUME NEW q \in Chats PROVE Leaves(q)'
    OBVIOUS
  <2>1. CASE q # r
    <3>1. stage'[q] = stage[q] /\ txn'[q] = txn[q] /\ Leaves(q)
      BY <1>2, <1>9, <2>1 DEF HistoryInv, RowsInv
    <3>2. (\A w \in rows : w.by # q) => \A w \in rows' : w.by # q
      BY <1>2, <1>4, <2>1
    <3>3. (Says(q, "user")' <=> Says(q, "user")) /\ (Says(q, "assistant")' <=> Says(q, "assistant"))
      BY <1>12, <2>1 DEF ChatRoles
    <3> QED
      BY <3>1, <3>2, <3>3 DEF Leaves
  <2>2. CASE q = r
    <3>1. stage'[r] = stage[r] /\ txn'[r] = "committed"
      BY <1>2, <1>9
    <3>2. b \in rows'
      BY <1>2
    <3>3. CASE stage[r] = "user"
      <4>1. Says(r, "user")'
        BY <1>4, <3>2, <3>3 DEF Says
      <4>2. ~Says(r, "assistant")'
        BY <1>2, <1>4, <1>5, <3>3 DEF Says
      <4> QED
        BY <2>2, <3>1, <3>3, <4>1, <4>2 DEF Leaves
    <3>4. CASE stage[r] = "assistant"
      <4>1. Says(r, "assistant")'
        BY <1>4, <3>2, <3>4 DEF Says
      <4>2. Says(r, "user")'
        BY <1>5, <1>13, <3>4 DEF ChatRoles
      <4> QED
        BY <2>2, <3>1, <3>4, <4>1, <4>2 DEF Leaves
    <3> QED
      BY <1>3, <3>3, <3>4 DEF ChatRoles
  <2> QED
    BY <2>1, <2>2
<1>15. \A w, v \in rows' : w.by = v.by /\ w.role = v.role => w = v
  BY <1>2, <1>4, <1>5 DEF HistoryInv, RowsInv
<1>16. stamp[r] <= time /\ \A w \in rows : w.by = r \/ w.by \in before[r] => w.time < stamp[r]
  BY <1>2 DEF HistoryInv, RowsInv
<1>17. \A w \in rows' : w.time <= time'
  BY <1>2, <1>4, <1>16 DEF HistoryInv, RowsInv
<1>18. \A w \in rows' : w.role = "assistant" => \E u \in rows' : u.by = w.by /\ u.role = "user" /\ u.time < w.time
  <2> SUFFICES ASSUME NEW w \in rows', w.role = "assistant"
               PROVE  \E u \in rows' : u.by = w.by /\ u.role = "user" /\ u.time < w.time
    OBVIOUS
  <2>1. CASE w \in rows
    BY <1>2, <2>1 DEF HistoryInv, RowsInv
  <2>2. CASE w = b
    <3>1. PICK u \in rows : u.by = r /\ u.role = "user"
      BY <1>4, <1>5, <2>2 DEF Says
    <3> QED
      BY <1>2, <1>4, <1>16, <2>2, <3>1
  <2> QED
    BY <1>2, <2>1, <2>2
<1>19. \A q \in Chats : r \notin before[q]
  BY <1>3 DEF HistoryInv, RowsInv, ChatRoles
<1>20. \A q \in Chats : txn'[q] \in {"inserted", "counted"} =>
         stamp'[q] <= time' /\ \A w \in rows' : w.by = q \/ w.by \in before'[q] => w.time < stamp'[q]
  <2> SUFFICES ASSUME NEW q \in Chats, txn'[q] \in {"inserted", "counted"}
               PROVE  stamp'[q] <= time' /\ \A w \in rows' : w.by = q \/ w.by \in before'[q] => w.time < stamp'[q]
    OBVIOUS
  <2>1. q # r /\ txn[q] \in {"inserted", "counted"} /\ stamp'[q] = stamp[q]
    BY <1>9
  <2>2. stamp[q] <= time /\ \A w \in rows : w.by = q \/ w.by \in before[q] => w.time < stamp[q]
    BY <2>1 DEF HistoryInv, RowsInv
  <2> QED
    BY <1>2, <1>4, <1>19, <2>1, <2>2
<1>21. \A p \in Chats : \A q \in before'[p] : \A w, v \in rows' : w.by = q /\ v.by = p => w.time < v.time
  <2> SUFFICES ASSUME NEW p \in Chats, NEW q \in before[p], NEW w \in rows', NEW v \in rows', w.by = q, v.by = p
               PROVE  w.time < v.time
    BY <1>2
  <2>1. w \in rows
    BY <1>2, <1>4, <1>19
  <2>2. CASE v \in rows
    BY <2>1, <2>2 DEF HistoryInv, RowsInv
  <2>3. CASE v = b
    BY <1>4, <1>16, <2>1, <2>3
  <2> QED
    BY <1>2, <2>2, <2>3
<1>22. \A q \in told' : Says(q, "user")' /\ (q \notin Streams => Says(q, "assistant")')
  BY <1>2, <1>13 DEF HistoryInv, RowsInv, ChatTypes, ChatRoles
<1>23. \A p \in Chats : \A q \in before'[p] : stage'[q] \in {"over", "failed"}
  BY <1>2 DEF HistoryInv, RowsInv
<1>24. RowsInv'
  BY <1>14, <1>15, <1>17, <1>18, <1>20, <1>21, <1>22, <1>23 DEF RowsInv
<1>25. memory' # H!None => Recalls(memory)'
  <2> SUFFICES ASSUME memory # H!None PROVE Recalls(memory)'
    BY <1>2 DEF H!None
  <2>1. Recalls(memory)
    BY DEF HistoryInv
  <2>2. \A i \in DOMAIN memory : memory[i] \in Chats \X ChatRoles
    BY <2>1 DEF Recalls
  <2>3. \A i \in DOMAIN memory : memory[i][1] \in Chats /\ memory[i][2] \in ChatRoles
    BY <2>2
  <2>4. \A i \in DOMAIN memory : Says(memory[i][1], memory[i][2])'
    <3> SUFFICES ASSUME NEW i \in DOMAIN memory PROVE Says(memory[i][1], memory[i][2])'
      OBVIOUS
    <3>1. Says(memory[i][1], memory[i][2])
      BY <2>1 DEF Recalls
    <3>2. PICK q \in Chats, role \in ChatRoles : q = memory[i][1] /\ role = memory[i][2]
      BY <2>3
    <3>3. Says(q, role)'
      BY <1>13, <3>1, <3>2
    <3>4. memory' = memory
      BY <1>2
    <3> QED
      BY <3>2, <3>3, <3>4
  <2> QED
    BY <1>2, <2>1, <2>4 DEF Recalls
<1> QED
  BY <1>8, <1>11, <1>24, <1>25 DEF HistoryInv

(* What has to be so of the rows when a request moves on, or several do at *)
(* a crash, without storing anything.                                      *)
LEMMA MovesKeep ==
  ASSUME HistoryInv, UNCHANGED <<rows, before, time>>, ChatTypes',
         \A q \in Chats : Leaves(q)',
         \A q \in Chats : stage[q] \in {"over", "failed"} => stage'[q] \in {"over", "failed"},
         \A q \in Chats : txn'[q] \in {"inserted", "counted"} => txn'[q] = txn[q] /\ stamp'[q] = stamp[q],
         \A q \in told' \ told : Says(q, "user") /\ (q \notin Streams => Says(q, "assistant"))
  PROVE  RowsInv'
<1>1. \A p \in Chats : \A q \in before[p] : q \in Chats /\ stage'[q] \in {"over", "failed"}
  BY DEF HistoryInv, RowsInv, ChatTypes
<1>2. \A q \in Chats : txn'[q] \in {"inserted", "counted"} =>
        stamp'[q] <= time /\ \A w \in rows : w.by = q \/ w.by \in before[q] => w.time < stamp'[q]
  BY DEF HistoryInv, RowsInv
<1>3. \A q \in told' : Says(q, "user") /\ (q \notin Streams => Says(q, "assistant"))
  BY DEF HistoryInv, RowsInv
<1> QED
  BY <1>1, <1>2, <1>3 DEF HistoryInv, RowsInv, Says

LEMMA StoreFailsKeeps ==
  ASSUME HistoryInv, NEW r \in Chats, H!StoreFails(r)
  PROVE  HistoryInv'
<1> USE NobodyChats
<1>1. /\ stage[r] \in ChatRoles /\ stage' = [stage EXCEPT ![r] = "failed"]
      /\ txn' = [txn EXCEPT ![r] = "none"]
      /\ rowLock' = IF rowLock = r THEN Nobody ELSE rowLock
      /\ stamp' = [q \in Chats |-> IF q = r THEN 0 ELSE stamp[q]]
      /\ writes' = [q \in Chats |-> IF q = r THEN 0 ELSE writes[q]]
      /\ UNCHANGED <<rows, count, memory, told, before, time>>
  BY DEF H!StoreFails, H!Storing, H!Roles, ChatRoles, H!Goes, H!Forget, H!history, H!bounds
<1>2. ChatTypes'
  BY <1>1 DEF HistoryInv, ChatTypes
<1>3. /\ stage'[r] = "failed" /\ txn'[r] = "none"
      /\ \A q \in Chats \ {r} : /\ stage'[q] = stage[q] /\ txn'[q] = txn[q]
                                /\ stamp'[q] = stamp[q] /\ writes'[q] = writes[q]
  BY <1>1 DEF HistoryInv, ChatTypes
<1>4. LockInv'
  BY <1>1, <1>3 DEF HistoryInv, LockInv
<1>5. \A q \in Chats : Leaves(q)'
  BY <1>1, <1>3 DEF HistoryInv, RowsInv, Leaves, Says
<1>6. \A q \in Chats : stage[q] \in {"over", "failed"} => stage'[q] \in {"over", "failed"}
  BY <1>3
<1>7. RowsInv'
  BY <1>1, <1>2, <1>3, <1>5, <1>6, MovesKeep
<1>8. memory' # H!None => Recalls(memory)'
  BY <1>1, <1>3, RecallsStay
<1> QED
  BY <1>2, <1>4, <1>7, <1>8 DEF HistoryInv

LEMMA CrashKeeps ==
  ASSUME HistoryInv, H!Crash
  PROVE  HistoryInv'
<1> USE NobodyChats
<1>1. /\ stage' = [q \in Chats |-> IF stage[q] \in {"new", "over"} THEN stage[q] ELSE "failed"]
      /\ txn' = [q \in Chats |-> "none"] /\ rowLock' = Nobody /\ memory' = H!None
      /\ stamp' = [q \in Chats |-> IF q \in Chats THEN 0 ELSE stamp[q]]
      /\ writes' = [q \in Chats |-> IF q \in Chats THEN 0 ELSE writes[q]]
      /\ UNCHANGED <<rows, count, told, before, time>>
  BY DEF H!Crash, H!Forget, H!history
<1>2. ChatTypes'
  BY <1>1 DEF HistoryInv, ChatTypes
<1>3. LockInv'
  BY <1>1 DEF HistoryInv, LockInv
<1>4. \A q \in Chats : Leaves(q)'
  BY <1>1 DEF HistoryInv, RowsInv, Leaves, Says
<1>5. RowsInv'
  BY <1>1, <1>2, <1>4, MovesKeep
<1> QED
  BY <1>1, <1>2, <1>3, <1>5 DEF HistoryInv, H!None

LEMMA RoutedKeeps ==
  ASSUME HistoryInv, NEW r \in Chats, H!Routed(r) \/ H!Streamed(r)
  PROVE  HistoryInv'
<1>1. PICK s \in {"assistant", "streaming", "failed"} :
        /\ stage[r] \in {"routing", "streaming"} /\ stage' = [stage EXCEPT ![r] = s]
        /\ told' = told \/ (told' \subseteq told \cup {r} /\ told \subseteq told' /\ r \in Streams)
        /\ UNCHANGED <<txn, stamp, writes, rowLock, rows, count, memory, before, time>>
  BY DEF H!Routed, H!Streamed, H!Goes, H!Tell, H!row, H!history, H!bounds
<1>2. ChatTypes'
  BY <1>1 DEF HistoryInv, ChatTypes, ChatRoles
<1>3. stage'[r] = s /\ \A q \in Chats \ {r} : stage'[q] = stage[q]
  BY <1>1 DEF HistoryInv, ChatTypes
<1>4. txn[r] = "none" /\ Says(r, "user") /\ ~Says(r, "assistant")
  BY <1>1 DEF HistoryInv, LockInv, RowsInv, Leaves, ChatRoles
<1>5. LockInv'
  BY <1>1, <1>3, <1>4 DEF HistoryInv, LockInv
<1>6. \A q \in Chats : Leaves(q)'
  BY <1>1, <1>3, <1>4 DEF HistoryInv, RowsInv, Leaves, Says
<1>7. \A q \in Chats : stage[q] \in {"over", "failed"} => stage'[q] \in {"over", "failed"}
  BY <1>1, <1>3
<1>8. RowsInv'
  BY <1>1, <1>2, <1>4, <1>6, <1>7, MovesKeep
<1>9. memory' # H!None => Recalls(memory)'
  BY <1>1, <1>3, RecallsStay
<1> QED
  BY <1>2, <1>5, <1>8, <1>9 DEF HistoryInv

(* The working memory grows by what has just been committed.               *)
LEMMA RememberKeeps ==
  ASSUME HistoryInv, NEW r \in Chats, H!Remember(r)
  PROVE  HistoryInv'
<1>1. PICK s \in {"routing", "over"} :
        /\ txn[r] = "committed" /\ txn' = [txn EXCEPT ![r] = "none"]
        /\ stage' = [stage EXCEPT ![r] = s]
        /\ \/ stage[r] = "user" /\ s = "routing" /\ told' = told
           \/ stage[r] = "assistant" /\ s = "over" /\ (told' = told \/ told' = told \cup {r})
        /\ UNCHANGED <<stamp, writes, rowLock, rows, count, before, time>>
  BY DEF H!Remember, H!Goes, H!Tell, H!bounds
<1>2. ChatTypes'
  BY <1>1 DEF HistoryInv, ChatTypes, ChatRoles
<1>3. /\ stage'[r] = s /\ txn'[r] = "none"
      /\ \A q \in Chats \ {r} : stage'[q] = stage[q] /\ txn'[q] = txn[q]
  BY <1>1 DEF HistoryInv, ChatTypes
<1>4. /\ Says(r, stage[r]) /\ Says(r, "user") /\ (stage[r] = "user" => ~Says(r, "assistant"))
      /\ stage[r] \in ChatRoles /\ txn[r] # "counted"
  BY <1>1 DEF HistoryInv, RowsInv, Leaves, ChatRoles
<1>5. LockInv'
  BY <1>1, <1>3, <1>4 DEF HistoryInv, LockInv
<1>6. \A q \in Chats : Leaves(q)'
  BY <1>1, <1>3, <1>4 DEF HistoryInv, RowsInv, Leaves, Says
<1>7. \A q \in Chats : stage[q] \in {"over", "failed"} => stage'[q] \in {"over", "failed"}
  BY <1>1, <1>3
<1>8. RowsInv'
  BY <1>1, <1>2, <1>3, <1>4, <1>6, <1>7, MovesKeep
<1>9. PICK m : m = IF memory = H!None THEN <<>> ELSE memory
  OBVIOUS
<1>10. PICK e : e = <<r, stage[r]>>
  OBVIOUS
<1>11. memory' = Append(m, e) /\ e \in Chats \X ChatRoles /\ e[1] = r /\ e[2] = stage[r]
  BY <1>4, <1>9, <1>10 DEF H!Remember
<1>12. Recalls(m)
  BY <1>9 DEF HistoryInv, Recalls
<1>13. /\ m \in Seq(Chats \X ChatRoles) /\ Len(m) \in Nat /\ DOMAIN m = 1 .. Len(m)
       /\ \A i \in DOMAIN m : m[i] \in Chats \X ChatRoles
  BY <1>12 DEF Recalls
<1>14. /\ memory' \in Seq(Chats \X ChatRoles) /\ DOMAIN memory' = 1 .. Len(m) + 1
       /\ memory'[Len(m) + 1] = e /\ \A i \in DOMAIN m : memory'[i] = m[i]
  BY <1>11, <1>13
<1>15. \A i \in DOMAIN m : m[i][1] \in Chats /\ m[i][2] \in ChatRoles
  BY <1>13
<1>16. ASSUME NEW i \in DOMAIN m, m[i][1] = r PROVE stage[r] = "assistant" /\ m[i][2] = "user" /\ m[i] # e
  <2>1. stage[r] \notin {"new", "user"} /\ (m[i][2] = "assistant" => stage[r] \in {"over", "failed"})
    BY <1>12, <1>16 DEF Recalls
  <2> QED
    BY <1>4, <1>11, <1>15, <2>1 DEF ChatRoles
<1>17. \A i \in DOMAIN m : m[i] # e
  BY <1>11, <1>16
<1>18. \A i, j \in DOMAIN memory' : memory'[i] = memory'[j] => i = j
  <2>1. \A i, j \in DOMAIN m : m[i] = m[j] => i = j
    BY <1>12 DEF Recalls
  <2>2. \A i \in DOMAIN memory' : i \in DOMAIN m \/ i = Len(m) + 1
    BY <1>13, <1>14
  <2> QED
    BY <1>14, <1>17, <2>1, <2>2
<1>19. \A i \in DOMAIN memory' : (i \in DOMAIN m /\ memory'[i] = m[i]) \/ (i = Len(m) + 1 /\ memory'[i] = e)
  BY <1>13, <1>14
<1>20. (\A i \in DOMAIN memory : Says(memory[i][1], memory[i][2]))'
  <2>1. \A i \in DOMAIN m : Says(m[i][1], m[i][2])
    BY <1>12 DEF Recalls
  <2>2. \A i \in DOMAIN memory' : Says(memory'[i][1], memory'[i][2])
    BY <1>4, <1>11, <1>19, <2>1
  <2> QED
    BY <1>1, <2>2 DEF Says
<1>21. \A i, j \in DOMAIN memory' :
         memory'[i][1] = memory'[j][1] /\ memory'[i][2] = "user" /\ memory'[j][2] = "assistant" => i < j
  <2> SUFFICES ASSUME NEW i \in DOMAIN memory', NEW j \in DOMAIN memory', memory'[i][1] = memory'[j][1],
                      memory'[i][2] = "user", memory'[j][2] = "assistant"
               PROVE  i < j
    OBVIOUS
  <2>1. CASE i \in DOMAIN m /\ j \in DOMAIN m
    BY <1>12, <1>14, <2>1 DEF Recalls
  <2>2. CASE i \in DOMAIN m /\ j = Len(m) + 1
    BY <1>13, <2>2
  <2>3. CASE i = Len(m) + 1 /\ j \in DOMAIN m
    <3>1. m[j][1] = r /\ m[j][2] = "assistant"
      BY <1>11, <1>14, <2>3
    <3> QED
      BY <1>16, <2>3, <3>1
  <2>4. CASE i = Len(m) + 1 /\ j = Len(m) + 1
    BY <2>4
  <2> QED
    BY <1>19, <2>1, <2>2, <2>3, <2>4
<1>22. \A i \in DOMAIN memory' : stage'[memory'[i][1]] \notin {"new", "user"}
  <2>1. \A i \in DOMAIN m : stage[m[i][1]] \notin {"new", "user"}
    BY <1>12 DEF Recalls
  <2>2. \A q \in Chats : stage[q] \notin {"new", "user"} => stage'[q] \notin {"new", "user"}
    BY <1>1, <1>3
  <2> QED
    BY <1>3, <1>11, <1>15, <1>19, <2>1, <2>2
<1>23. \A i \in DOMAIN memory' : memory'[i][2] = "assistant" => stage'[memory'[i][1]] \in {"over", "failed"}
  <2>1. \A i \in DOMAIN m : m[i][2] = "assistant" => stage[m[i][1]] \in {"over", "failed"}
    BY <1>12 DEF Recalls
  <2> QED
    BY <1>1, <1>3, <1>7, <1>11, <1>15, <1>19, <2>1
<1>24. Recalls(memory)'
  BY <1>14, <1>18, <1>20, <1>21, <1>22, <1>23 DEF Recalls
<1> QED
  BY <1>2, <1>5, <1>8, <1>24 DEF HistoryInv

LEMMA HistoryKept == HistoryInv /\ [H!Next]_(H!vars) => HistoryInv'
<1> SUFFICES ASSUME HistoryInv, [H!Next]_(H!vars) PROVE HistoryInv'
  OBVIOUS
<1>1. ASSUME UNCHANGED <<stage, txn, stamp, writes, rowLock, rows, count, told, before, time>>,
             memory' = memory \/ memory' = H!None
      PROVE  HistoryInv'
  <2>1. ChatTypes' /\ LockInv'
    BY <1>1 DEF HistoryInv, ChatTypes, LockInv
  <2>2. \A q \in Chats : Leaves(q)'
    BY <1>1 DEF HistoryInv, RowsInv, Leaves, Says
  <2>3. RowsInv'
    BY <1>1, <2>1, <2>2, MovesKeep
  <2>4. CASE memory' = memory
    <3>1. memory' # H!None => Recalls(memory)'
      BY <1>1, <2>4, RecallsStay
    <3> QED
      BY <2>1, <2>3, <3>1 DEF HistoryInv
  <2>5. CASE memory' = H!None
    BY <2>1, <2>3, <2>5 DEF HistoryInv, H!None
  <2> QED
    BY <1>1, <2>4, <2>5
<1>2. CASE H!Create \/ H!Pause \/ UNCHANGED H!vars
  BY <1>1, <1>2 DEF H!Create, H!Pause, H!vars, H!row, H!history, H!bounds
<1> QED
  BY <1>2, ReceiveKeeps, InsertKeeps, CountKeeps, CommitKeeps, StoreFailsKeeps, RememberKeeps,
     RoutedKeeps, CrashKeeps DEF H!Next

LEMMA OneStored ==
  ASSUME HistoryInv, NEW r \in Chats, NEW role \in ChatRoles
  PROVE  H!Cardinality(H!Stored(r, role)) <= 1
<1>1. CASE H!Stored(r, role) = {}
  BY <1>1, CardinalityOfH, FS_EmptySet
<1>2. ASSUME NEW w \in H!Stored(r, role) PROVE H!Cardinality(H!Stored(r, role)) <= 1
  <2>1. H!Stored(r, role) = {w}
    BY <1>2 DEF H!Stored, HistoryInv, RowsInv
  <2>2. Cardinality({w}) = 1
    BY FS_Singleton
  <2>3. H!Cardinality({w}) = 1
    BY <2>2, CardinalityOfH, Zenon
  <2> QED
    BY <2>1, <2>3
<1> QED
  BY <1>1, <1>2

LEMMA HistorySays == HistoryInv => H!HistorySound
<1> SUFFICES ASSUME HistoryInv PROVE H!HistorySound
  OBVIOUS
<1>1. H!Counted
  BY CardinalityOfH DEF HistoryInv, LockInv, H!Counted
<1>2. H!InTurns
  <2>1. \A r \in Chats : \A role \in H!Roles : H!Cardinality(H!Stored(r, role)) <= 1
    BY OneStored DEF H!Roles, ChatRoles
  <2>2. \A r \in Chats : \A a \in H!Stored(r, "assistant") : \E u \in H!Stored(r, "user") : u.time < a.time
    BY DEF HistoryInv, RowsInv, H!Stored
  <2>3. \A r \in Chats : \A q \in before[r] : \A w, v \in rows : w.by = q /\ v.by = r => w.time < v.time
    BY DEF HistoryInv, RowsInv
  <2> QED
    BY <2>1, <2>2, <2>3 DEF H!InTurns
<1>3. \A r, role : Says(r, role) => H!Stored(r, role) # {}
  BY DEF Says, H!Stored
<1>4. H!ToldIsStored
  BY <1>3 DEF HistoryInv, RowsInv, H!ToldIsStored
<1>5. H!MemoryTrue
  BY <1>3 DEF HistoryInv, Recalls, H!MemoryTrue, H!IsInjective
<1> QED
  BY <1>1, <1>2, <1>4, <1>5 DEF H!HistorySound

(* The history of a conversation is what was said in it, whatever requests *)
(* write at once, fail or are cut off by a crash: the count is that of the *)
(* messages, questions come before their answers and those before the next *)
(* question, what a client was told is stored, and the working memory has  *)
(* nothing else (memory/orchestrator.py).                                  *)
THEOREM HistoryIsSaid == H!Spec => []HistorySound
<1>1. H!Init => HistoryInv
  BY HistoryStarts
<1>2. HistoryInv /\ [H!Next]_(H!vars) => HistoryInv'
  BY HistoryKept
<1>3. HistoryInv => HistorySound
  BY HistorySays DEF HistorySound
<1> QED
  BY <1>1, <1>2, <1>3, PTL DEF H!Spec

-----------------------------------------------------------------------------
(* Agents: who waits for an answer.                                        *)
WaitTypes ==
  /\ wait \in [Waits -> {"new", "emitting", "waiting", "done", "failed"}]
  /\ pending \in [TaskKeys -> Waits \cup {Nobody}]
  /\ promise \in [Waits -> Nat] /\ begun \in [Waits -> Nat] /\ crossed \subseteq Waits
  /\ queue \in Seq(TaskKeys) /\ handled \in [TaskKeys -> Nat]

WaitsInv ==
  /\ WaitTypes
  /\ \A w \in Waits : wait[w] = "emitting" => w \in Queries
  /\ \A w \in Waits : wait[w] = "new" => promise[w] = 0
  /\ \A w \in Waits : promise[w] \in {0, begun[w] + 1}
  /\ \A y \in TaskKeys : pending[y] # Nobody =>
       /\ KeyOf[pending[y]] = y
       /\ A!Pending(pending[y]) \/ (pending[y] \in Queries /\ wait[pending[y]] = "failed")
       /\ promise[pending[y]] = 0 => handled[y] = begun[pending[y]]
  /\ \A w \in Waits : A!Pending(w) /\ w \notin crossed => pending[KeyOf[w]] = w
  /\ \A w, v \in Waits : w # v /\ KeyOf[w] = KeyOf[v] /\ A!Pending(w) /\ A!Pending(v) => w \in crossed

LEMMA WaitConstants == Nobody \notin Waits /\ \A w \in Waits : KeyOf[w] \in TaskKeys
<1>1. Nobody \notin Waits /\ KeyOf \in [Waits -> TaskKeys]
  BY RequestConstants, Zenon
<1> QED
  BY <1>1

LEMMA WaitsStart == A!Init => WaitsInv
BY WaitConstants DEF A!Init, WaitsInv, WaitTypes, A!Pending

LEMMA RegisterKeeps ==
  ASSUME WaitsInv, NEW w \in Waits, A!Register(w)
  PROVE  WaitsInv'
<1> USE WaitConstants
<1>1. PICK s \in {"emitting", "waiting"} :
        /\ wait[w] = "new" /\ wait' = [wait EXCEPT ![w] = s] /\ (s = "emitting" => w \in Queries)
        /\ pending' = [pending EXCEPT ![KeyOf[w]] = w]
        /\ begun' = [begun EXCEPT ![w] = handled[KeyOf[w]]]
        /\ UNCHANGED <<promise, queue, handled>>
  BY DEF A!Register, A!Becomes
<1>2. PICK others : others = {v \in Waits : KeyOf[v] = KeyOf[w] /\ A!Pending(v)}
  OBVIOUS
<1>3. crossed' = IF others = {} THEN crossed ELSE crossed \cup others \cup {w}
  BY <1>2 DEF A!Register
<1>4. /\ wait'[w] = s /\ begun'[w] = handled[KeyOf[w]] /\ pending'[KeyOf[w]] = w
      /\ \A v \in Waits \ {w} : wait'[v] = wait[v] /\ begun'[v] = begun[v]
      /\ \A y \in TaskKeys \ {KeyOf[w]} : pending'[y] = pending[y]
  BY <1>1 DEF WaitsInv, WaitTypes
<1>5. WaitTypes'
  BY <1>1, <1>3, <1>2 DEF WaitsInv, WaitTypes
<1>6. promise[w] = 0 /\ ~A!Pending(w)
  BY <1>1 DEF WaitsInv, A!Pending
<1>7. \A v \in Waits : v # w => (A!Pending(v)' <=> A!Pending(v))
  BY <1>4 DEF A!Pending
<1>8. A!Pending(w)'
  BY <1>4 DEF A!Pending
<1>9. \A y \in TaskKeys : pending'[y] # Nobody =>
        /\ KeyOf[pending'[y]] = y
        /\ A!Pending(pending[y])' \/ (pending'[y] \in Queries /\ wait'[pending'[y]] = "failed")
        /\ promise'[pending'[y]] = 0 => handled'[y] = begun'[pending'[y]]
  <2> SUFFICES ASSUME NEW y \in TaskKeys, pending'[y] # Nobody
               PROVE  /\ KeyOf[pending'[y]] = y
                      /\ A!Pending(pending[y])' \/ (pending'[y] \in Queries /\ wait'[pending'[y]] = "failed")
                      /\ promise'[pending'[y]] = 0 => handled'[y] = begun'[pending'[y]]
    OBVIOUS
  <2>1. CASE y = KeyOf[w]
    BY <1>1, <1>4, <1>8, <2>1 DEF A!Pending
  <2>2. CASE y # KeyOf[w]
    <3>1. pending'[y] = pending[y] /\ pending[y] \in Waits /\ KeyOf[pending[y]] = y /\ pending[y] # w
      BY <1>4, <2>2 DEF WaitsInv, WaitTypes
    <3> QED
      BY <1>1, <1>4, <3>1 DEF WaitsInv, A!Pending
  <2> QED
    BY <2>1, <2>2
<1>10. \A v \in Waits : A!Pending(v)' /\ v \notin crossed' => pending'[KeyOf[v]] = v
  <2> SUFFICES ASSUME NEW v \in Waits, A!Pending(v)', v \notin crossed', v # w
               PROVE  pending'[KeyOf[v]] = v
    BY <1>4
  <2>1. A!Pending(v) /\ v \notin crossed /\ v \notin others
    BY <1>3, <1>7
  <2>2. KeyOf[v] # KeyOf[w]
    BY <1>2, <2>1
  <2> QED
    BY <1>4, <2>1, <2>2 DEF WaitsInv
<1>11. \A u, v \in Waits : u # v /\ KeyOf[u] = KeyOf[v] /\ A!Pending(u)' /\ A!Pending(v)' => u \in crossed'
  <2> SUFFICES ASSUME NEW u \in Waits, NEW v \in Waits, u # v, KeyOf[u] = KeyOf[v], A!Pending(u)', A!Pending(v)'
               PROVE  u \in crossed'
    OBVIOUS
  <2>1. CASE u = w
    BY <1>2, <1>3, <1>7, <2>1
  <2>2. CASE v = w
    BY <1>2, <1>3, <1>7, <2>2
  <2>3. CASE u # w /\ v # w
    BY <1>3, <1>7, <2>3 DEF WaitsInv
  <2> QED
    BY <2>1, <2>2, <2>3
<1>12. \A v \in Waits : /\ wait'[v] = "emitting" => v \in Queries
                        /\ wait'[v] = "new" => promise'[v] = 0
                        /\ promise'[v] \in {0, begun'[v] + 1}
  BY <1>1, <1>4, <1>6 DEF WaitsInv
<1> QED
  BY <1>5, <1>9, <1>10, <1>11, <1>12 DEF WaitsInv

(* A wait ends: the entry of its key goes, or it stays for a query that is *)
(* cut off.                                                                *)
LEMMA WaitEnds ==
  ASSUME WaitsInv, NEW w \in Waits, A!Wake(w) \/ A!GiveUp(w) \/ A!Abandon(w) \/ A!Emitted(w)
  PROVE  WaitsInv'
<1> USE WaitConstants
<1>1. PICK s \in {"done", "failed", "waiting"} :
        /\ A!Pending(w) /\ wait' = [wait EXCEPT ![w] = s]
        /\ UNCHANGED <<promise, begun, crossed, queue, handled>>
        /\ \/ s \in {"done", "failed"} /\ pending' = [pending EXCEPT ![KeyOf[w]] = Nobody]
           \/ s = "failed" /\ w \in Queries /\ pending' = pending
           \/ s = "waiting" /\ pending' = pending
  BY DEF A!Wake, A!GiveUp, A!Abandon, A!Emitted, A!Becomes, A!Popped, A!Pending, WaitsInv
<1>2. wait'[w] = s /\ \A v \in Waits \ {w} : wait'[v] = wait[v]
  BY <1>1 DEF WaitsInv, WaitTypes
<1>3. WaitTypes'
  BY <1>1 DEF WaitsInv, WaitTypes
<1>4. \A v \in Waits : A!Pending(v)' => A!Pending(v) /\ (v = w => s = "waiting")
  BY <1>1, <1>2 DEF A!Pending
<1>5. \A v \in Waits : v # w => (A!Pending(v)' <=> A!Pending(v))
  BY <1>2 DEF A!Pending
<1>6. \A y \in TaskKeys : pending'[y] # Nobody =>
        /\ pending'[y] = pending[y] /\ pending[y] \in Waits
        /\ pending[y] = w => pending' = pending
  BY <1>1 DEF WaitsInv, WaitTypes
<1>7. \A y \in TaskKeys : pending'[y] # Nobody =>
        A!Pending(pending[y])' \/ (pending'[y] \in Queries /\ wait'[pending'[y]] = "failed")
  <2> SUFFICES ASSUME NEW y \in TaskKeys, pending'[y] # Nobody
               PROVE  A!Pending(pending[y])' \/ (pending'[y] \in Queries /\ wait'[pending'[y]] = "failed")
    OBVIOUS
  <2>1. pending'[y] = pending[y] /\ pending[y] \in Waits /\ KeyOf[pending[y]] = y
    BY <1>6 DEF WaitsInv
  <2>2. CASE pending[y] = w
    <3>1. s = "waiting" \/ (s = "failed" /\ w \in Queries)
      BY <1>1, <2>1, <2>2 DEF WaitsInv, WaitTypes
    <3> QED
      BY <1>2, <2>1, <2>2, <3>1 DEF A!Pending
  <2>3. CASE pending[y] # w
    BY <1>2, <2>1, <2>3 DEF WaitsInv, A!Pending
  <2> QED
    BY <2>2, <2>3
<1>8. \A v \in Waits : A!Pending(v)' /\ v \notin crossed' => pending'[KeyOf[v]] = v
  <2> SUFFICES ASSUME NEW v \in Waits, A!Pending(v)', v \notin crossed
               PROVE  pending'[KeyOf[v]] = v
    BY <1>1
  <2>1. A!Pending(v) /\ pending[KeyOf[v]] = v
    BY <1>4 DEF WaitsInv
  <2>2. v = w \/ KeyOf[v] # KeyOf[w]
    BY <1>1, <2>1 DEF WaitsInv
  <2> QED
    BY <1>1, <1>4, <2>1, <2>2 DEF WaitsInv, WaitTypes
<1>9. \A u, v \in Waits : u # v /\ KeyOf[u] = KeyOf[v] /\ A!Pending(u)' /\ A!Pending(v)' => u \in crossed'
  BY <1>1, <1>4 DEF WaitsInv
<1>10. \A v \in Waits : /\ wait'[v] = "emitting" => v \in Queries
                        /\ wait'[v] = "new" => promise'[v] = 0
                        /\ promise'[v] \in {0, begun'[v] + 1}
  BY <1>1, <1>2 DEF WaitsInv
<1>11. \A y \in TaskKeys : pending'[y] # Nobody =>
         /\ KeyOf[pending'[y]] = y
         /\ promise'[pending'[y]] = 0 => handled'[y] = begun'[pending'[y]]
  BY <1>1, <1>6 DEF WaitsInv
<1> QED
  BY <1>3, <1>7, <1>8, <1>9, <1>10, <1>11 DEF WaitsInv

(* The first answer that is handled is the one that is brought.            *)
LEMMA HandleKeeps ==
  ASSUME WaitsInv, A!Handle
  PROVE  WaitsInv'
<1> USE WaitConstants
<1>1. PICK y \in TaskKeys, n \in Nat : y = Head(queue) /\ n = handled[y] + 1
  BY DEF A!Handle, WaitsInv, WaitTypes
<1>2. /\ queue' = Tail(queue) /\ queue' \in Seq(TaskKeys)
      /\ handled' = [handled EXCEPT ![y] = n]
      /\ UNCHANGED <<wait, pending, begun, crossed>>
  BY <1>1 DEF A!Handle, WaitsInv, WaitTypes
<1>3. handled'[y] = n /\ (\A z \in TaskKeys \ {y} : handled'[z] = handled[z]) /\ n # 0 /\ handled[y] \in Nat
  BY <1>1, <1>2 DEF WaitsInv, WaitTypes
<1>4. promise' = IF pending[y] = Nobody \/ (pending[y] # Nobody /\ promise[pending[y]] # 0)
                 THEN promise ELSE [promise EXCEPT ![pending[y]] = n]
  BY <1>1 DEF A!Handle, A!Resolve
<1>5. \A v \in Waits : promise'[v] = promise[v] \/ (v = pending[y] /\ promise[v] = 0 /\ promise'[v] = n)
  BY <1>4 DEF WaitsInv, WaitTypes
<1>6. pending[y] # Nobody => pending[y] \in Waits /\ promise'[pending[y]] # 0
  BY <1>3, <1>4 DEF WaitsInv, WaitTypes
<1>7. WaitTypes'
  BY <1>2, <1>4 DEF WaitsInv, WaitTypes
<1>8. \A v \in Waits : promise'[v] \in {0, begun[v] + 1} /\ (wait[v] = "new" => promise'[v] = 0)
  <2> SUFFICES ASSUME NEW v \in Waits, promise'[v] # promise[v]
               PROVE  promise'[v] \in {0, begun[v] + 1} /\ wait[v] # "new"
    BY DEF WaitsInv
  <2>1. v = pending[y] /\ promise[v] = 0 /\ promise'[v] = n /\ v # Nobody
    BY <1>5
  <2> QED
    BY <1>1, <2>1 DEF WaitsInv, A!Pending
<1>9. \A z \in TaskKeys : pending[z] # Nobody /\ promise'[pending[z]] = 0 => handled'[z] = begun[pending[z]]
  <2> SUFFICES ASSUME NEW z \in TaskKeys, pending[z] # Nobody, promise'[pending[z]] = 0
               PROVE  handled'[z] = begun[pending[z]]
    OBVIOUS
  <2>1. z # y /\ pending[z] \in Waits
    BY <1>6 DEF WaitsInv, WaitTypes
  <2>2. promise[pending[z]] = 0
    BY <1>3, <1>5, <2>1
  <2> QED
    BY <1>3, <2>1, <2>2 DEF WaitsInv
<1>10. \A v \in Waits : A!Pending(v)' <=> A!Pending(v)
  BY <1>2 DEF A!Pending
<1> QED
  BY <1>2, <1>7, <1>8, <1>9, <1>10 DEF WaitsInv, A!Pending

LEMMA WaitsKept == WaitsInv /\ [A!Next]_(A!vars) => WaitsInv'
<1> SUFFICES ASSUME WaitsInv, [A!Next]_(A!vars) PROVE WaitsInv'
  OBVIOUS
<1>1. ASSUME NEW y \in TaskKeys, A!Answer(y) PROVE WaitsInv'
  <2>1. UNCHANGED <<wait, pending, promise, begun, crossed, handled>>
        /\ (queue' = Append(queue, y) \/ queue' = queue)
    BY <1>1 DEF A!Answer
  <2>2. queue \in Seq(TaskKeys)
    BY DEF WaitsInv, WaitTypes
  <2>3. queue' \in Seq(TaskKeys)
    BY <2>1, <2>2
  <2> QED
    BY <2>1, <2>3 DEF WaitsInv, WaitTypes, A!Pending
<1>2. CASE UNCHANGED A!protocol
  BY <1>2 DEF A!protocol, WaitsInv, WaitTypes, A!Pending
<1>3. CASE A!Talk
  BY <1>1, <1>3, RegisterKeeps, WaitEnds, HandleKeeps DEF A!Talk
<1> QED
  BY <1>2, <1>3 DEF A!Next, A!Work, A!Offer, A!vars

LEMMA WaitsSay == WaitsInv => A!WaitsSound
<1> SUFFICES ASSUME WaitsInv PROVE A!WaitsSound
  OBVIOUS
<1>1. ASSUME NEW w \in Waits, A!Pending(w), w \notin crossed, handled[KeyOf[w]] > begun[w]
      PROVE  promise[w] # 0
  <2>1. pending[KeyOf[w]] = w /\ w # Nobody /\ KeyOf[w] \in TaskKeys
    BY <1>1, WaitConstants DEF WaitsInv
  <2>2. promise[w] = 0 => handled[KeyOf[w]] = begun[w]
    BY <2>1 DEF WaitsInv
  <2>3. begun[w] \in Nat
    BY DEF WaitsInv, WaitTypes
  <2> QED
    BY <1>1, <2>2, <2>3
<1> QED
  BY <1>1 DEF WaitsInv, A!WaitsSound

-----------------------------------------------------------------------------
(* An agent's workspace: as many calls run as have run together, and each  *)
(* was let in below the limit.                                             *)
Busies == {c \in ToolCalls : tool[c] = "running"}

WorkspaceInv ==
  /\ tool \in [ToolCalls -> {"new", "running", "returned", "refused", "raised"}]
  /\ counted \in Nat /\ most \in Nat
  /\ IsFiniteSet(Busies) /\ Cardinality(Busies) <= most
  /\ counted + Cardinality(Busies) <= MaxToolCalls + (IF most = 0 THEN 0 ELSE most - 1)

LEMMA CardinalityOfA == \A T : A!Cardinality(T) = Cardinality(T)
BY Zenon DEF A!Cardinality, Cardinality

LEMMA ToolLimit == MaxToolCalls \in Nat
BY RequestConstants, Zenon

LEMMA WorkspaceStarts == A!Init => WorkspaceInv
<1> SUFFICES ASSUME A!Init PROVE WorkspaceInv
  OBVIOUS
<1>1. Busies = {}
  BY DEF A!Init, Busies
<1>2. IsFiniteSet(Busies) /\ Cardinality(Busies) = 0
  BY <1>1, FS_EmptySet
<1> QED
  BY <1>2, ToolLimit DEF A!Init, WorkspaceInv

LEMMA WorkspaceKept == WorkspaceInv /\ [A!Next]_(A!vars) => WorkspaceInv'
<1> SUFFICES ASSUME WorkspaceInv, [A!Next]_(A!vars) PROVE WorkspaceInv'
  OBVIOUS
<1>1. PICK x \in Nat, z \in Nat : x = Cardinality(Busies) /\ z = MaxToolCalls
  BY ToolLimit, FS_CardinalityType DEF WorkspaceInv
<1>2. /\ counted \in Nat /\ most \in Nat /\ x <= most
      /\ counted + x <= z + (IF most = 0 THEN 0 ELSE most - 1)
  BY <1>1 DEF WorkspaceInv
<1>3. ASSUME NEW c \in ToolCalls, A!Use(c) PROVE WorkspaceInv'
  <2>1. CASE A!WithinLimits
    <3>1. /\ tool[c] = "new" /\ tool' = [tool EXCEPT ![c] = "running"]
          /\ most' = IF x + 1 > most THEN x + 1 ELSE most
          /\ counted' = counted /\ counted < z
      BY <1>1, <1>3, <2>1, CardinalityOfA DEF A!Use, A!WithinLimits, A!Running, Busies
    <3>2. Busies' = Busies \cup {c} /\ c \notin Busies
          /\ tool' \in [ToolCalls -> {"new", "running", "returned", "refused", "raised"}]
      BY <3>1 DEF Busies, WorkspaceInv
    <3>3. IsFiniteSet(Busies') /\ Cardinality(Busies') = x + 1
      BY <1>1, <3>2, FS_AddElement DEF WorkspaceInv
    <3>4. /\ counted' \in Nat /\ most' \in Nat /\ x + 1 <= most'
          /\ counted' + (x + 1) <= z + (IF most' = 0 THEN 0 ELSE most' - 1)
      BY <1>2, <3>1
    <3> QED
      BY <1>1, <3>2, <3>3, <3>4 DEF WorkspaceInv
  <2>2. CASE ~A!WithinLimits
    <3>1. tool[c] = "new" /\ tool' = [tool EXCEPT ![c] = "refused"] /\ UNCHANGED <<most, counted>>
      BY <1>3, <2>2 DEF A!Use
    <3>2. Busies' = Busies /\ tool' \in [ToolCalls -> {"new", "running", "returned", "refused", "raised"}]
      BY <3>1 DEF Busies, WorkspaceInv
    <3> QED
      BY <3>1, <3>2 DEF WorkspaceInv
  <2> QED
    BY <2>1, <2>2
<1>4. ASSUME NEW c \in ToolCalls, A!Used(c) PROVE WorkspaceInv'
  <2>1. PICK s \in {"returned", "raised"} :
          /\ tool[c] = "running" /\ tool' = [tool EXCEPT ![c] = s]
          /\ counted' = counted + 1 \/ counted' = counted
          /\ most' = most
    BY <1>4 DEF A!Used
  <2>2. Busies' = Busies \ {c} /\ c \in Busies
        /\ tool' \in [ToolCalls -> {"new", "running", "returned", "refused", "raised"}]
    BY <2>1 DEF Busies, WorkspaceInv
  <2>3. IsFiniteSet(Busies') /\ Cardinality(Busies') = x - 1
    BY <1>1, <2>2, FS_RemoveElement DEF WorkspaceInv
  <2>4. /\ counted' \in Nat /\ most' \in Nat /\ x - 1 <= most'
        /\ counted' + (x - 1) <= z + (IF most' = 0 THEN 0 ELSE most' - 1)
    BY <1>2, <2>1
  <2> QED
    BY <1>1, <2>2, <2>3, <2>4 DEF WorkspaceInv
<1>5. CASE UNCHANGED <<tool, counted, most>>
  BY <1>5 DEF WorkspaceInv, Busies
<1> QED
  BY <1>3, <1>4, <1>5 DEF A!Next, A!Talk, A!Work, A!Offer, A!Expire, A!vars, A!workspace

LEMMA WorkspaceSays == WorkspaceInv => A!LimitKept
BY CardinalityOfA DEF WorkspaceInv, Busies, A!LimitKept, A!Running

-----------------------------------------------------------------------------
(* What a client's stream carries: o is what waits to be sent, d what it   *)
(* has brought, s its state; sent are the requests answered, K the clients *)
(* that are still written to, and e is what ends a stream.                 *)
Posts(e) == Pushes \cup {e}

Carries(e, c, sent, o, d, s, K) ==
  /\ o \in Seq(Posts(e)) /\ d \in Seq(Pushes)
  /\ \A i, j \in 1 .. Len(o) : o[i] = o[j] => i = j
  /\ \A i, j \in 1 .. Len(d) : d[i] = d[j] => i = j
  /\ \A i \in 1 .. Len(d), j \in 1 .. Len(o) : d[i] # o[j]
  /\ \A i \in 1 .. Len(d) : d[i] \in sent
  /\ \A i \in 1 .. Len(o) : o[i] # e => o[i] \in sent
  /\ \A i \in 1 .. Len(o) : o[i] = e => i = Len(o) /\ c \notin K
  /\ c \in K => s \in {"registered", "open", "away"}
  /\ s \in {"none", "ended"} => Len(o) = 0
  /\ s \in {"registered", "open"} => c \in K \/ \E i \in 1 .. Len(o) : o[i] = e

LEMMA NoPushEmpty == "" \notin Pushes /\ ClientOf \in [Pushes -> Clients]
BY RequestConstants, Zenon

LEMMA CarriesLater ==
  ASSUME NEW e, e \notin Pushes, NEW c, NEW sent, NEW o, NEW d, NEW s, NEW K, Carries(e, c, sent, o, d, s, K), NEW now, sent \subseteq now
  PROVE  Carries(e, c, now, o, d, s, K)
BY DEF Carries

LEMMA CarriesReply ==
  ASSUME NEW e, e \notin Pushes, NEW c, NEW sent, NEW o, NEW d, NEW s, NEW K, Carries(e, c, sent, o, d, s, K), c \in K,
         NEW r \in Pushes, r \notin sent
  PROVE  Carries(e, c, sent \cup {r}, Append(o, r), d, s, K)
<1>1. o \in Seq(Posts(e)) /\ r \in Posts(e) /\ r # e /\ Len(o) \in Nat /\ s \notin {"none", "ended"}
  BY DEF Carries, Posts
<1>2. PICK p : p = Append(o, r)
  OBVIOUS
<1>3. p \in Seq(Posts(e)) /\ Len(p) = Len(o) + 1 /\ p[Len(o) + 1] = r /\ \A i \in 1 .. Len(o) : p[i] = o[i]
  BY <1>1, <1>2
<1>4. \A i \in 1 .. Len(o) : o[i] # e /\ o[i] # r
  BY <1>1 DEF Carries
<1>5. \A i \in 1 .. Len(p) : (i \in 1 .. Len(o) /\ p[i] = o[i]) \/ (i = Len(o) + 1 /\ p[i] = r)
  BY <1>1, <1>3
<1>6. \A i, j \in 1 .. Len(p) : p[i] = p[j] => i = j
  BY <1>4, <1>5 DEF Carries
<1>7. \A i \in 1 .. Len(d), j \in 1 .. Len(p) : d[i] # p[j]
  BY <1>5 DEF Carries
<1>8. \A i \in 1 .. Len(p) : p[i] # e /\ p[i] \in sent \cup {r}
  BY <1>1, <1>4, <1>5 DEF Carries
<1>9. Carries(e, c, sent \cup {r}, p, d, s, K)
  BY <1>1, <1>3, <1>6, <1>7, <1>8 DEF Carries
<1> QED
  BY <1>2, <1>9

LEMMA CarriesStop ==
  ASSUME NEW e, e \notin Pushes, NEW c, NEW sent, NEW o, NEW d, NEW s, NEW K, Carries(e, c, sent, o, d, s, K), c \in K
  PROVE  Carries(e, c, sent, Append(o, e), d, s, {})
<1>1. o \in Seq(Posts(e)) /\ e \in Posts(e) /\ Len(o) \in Nat /\ s \notin {"none", "ended"} /\ d \in Seq(Pushes)
  BY DEF Carries, Posts
<1>2. PICK p : p = Append(o, e)
  OBVIOUS
<1>3. p \in Seq(Posts(e)) /\ Len(p) = Len(o) + 1 /\ p[Len(o) + 1] = e /\ \A i \in 1 .. Len(o) : p[i] = o[i]
  BY <1>1, <1>2
<1>4. (\A i \in 1 .. Len(o) : o[i] # e) /\ (\A i \in 1 .. Len(d) : d[i] # e)
  BY <1>1 DEF Carries
<1>5. \A i \in 1 .. Len(p) : (i \in 1 .. Len(o) /\ p[i] = o[i]) \/ (i = Len(o) + 1 /\ p[i] = e)
  BY <1>1, <1>3
<1>6. \A i, j \in 1 .. Len(p) : p[i] = p[j] => i = j
  BY <1>4, <1>5 DEF Carries
<1>7. \A i \in 1 .. Len(d), j \in 1 .. Len(p) : d[i] # p[j]
  BY <1>4, <1>5 DEF Carries
<1>8. \A i \in 1 .. Len(p) : (p[i] # e => p[i] \in sent) /\ (p[i] = e => i = Len(p))
  BY <1>3, <1>4, <1>5 DEF Carries
<1>9. Len(o) + 1 \in 1 .. Len(p)
  BY <1>1, <1>3
<1>10. Carries(e, c, sent, p, d, s, {})
  BY <1>1, <1>3, <1>6, <1>7, <1>8, <1>9 DEF Carries
<1> QED
  BY <1>2, <1>10

LEMMA CarriesPush ==
  ASSUME NEW e, e \notin Pushes, NEW c, NEW sent, NEW o, NEW d, NEW K, Carries(e, c, sent, o, d, "open", K), o # <<>>, Head(o) # e
  PROVE  Carries(e, c, sent, Tail(o), Append(d, Head(o)), "open", K)
<1>1. o \in Seq(Posts(e)) /\ d \in Seq(Pushes) /\ Len(o) \in Nat /\ Len(d) \in Nat /\ Len(o) > 0
  BY DEF Carries
<1>2. PICK r : r = o[1]
  OBVIOUS
<1>3. Head(o) = r /\ r # e /\ r \in Posts(e) /\ 1 \in 1 .. Len(o)
  BY <1>1, <1>2
<1>4. r \in Pushes /\ r \in sent
  BY <1>2, <1>3 DEF Posts, Carries
<1>5. PICK p, q : p = Tail(o) /\ q = Append(d, r)
  OBVIOUS
<1>6. p \in Seq(Posts(e)) /\ Len(p) = Len(o) - 1 /\ \A i \in 1 .. Len(p) : p[i] = o[i + 1] /\ i + 1 \in 1 .. Len(o)
  BY <1>1, <1>5
<1>7. q \in Seq(Pushes) /\ Len(q) = Len(d) + 1 /\ q[Len(d) + 1] = r /\ \A i \in 1 .. Len(d) : q[i] = d[i]
  BY <1>1, <1>4, <1>5
<1>8. \A i \in 1 .. Len(q) : (i \in 1 .. Len(d) /\ q[i] = d[i]) \/ (i = Len(d) + 1 /\ q[i] = r)
  BY <1>1, <1>7
<1>9. \A i \in 1 .. Len(d) : d[i] # r
  BY <1>2, <1>3 DEF Carries
<1>10. \A i \in 1 .. Len(p) : p[i] # r
  <2> SUFFICES ASSUME NEW i \in 1 .. Len(p), p[i] = r PROVE FALSE
    OBVIOUS
  <2>1. o[i + 1] = o[1] /\ i + 1 \in 1 .. Len(o)
    BY <1>2, <1>6
  <2>2. i + 1 = 1
    BY <1>3, <2>1 DEF Carries
  <2> QED
    BY <2>2
<1>11. \A i, j \in 1 .. Len(p) : p[i] = p[j] => i = j
  <2> SUFFICES ASSUME NEW i \in 1 .. Len(p), NEW j \in 1 .. Len(p), p[i] = p[j] PROVE i = j
    OBVIOUS
  <2>1. i + 1 = j + 1
    BY <1>6 DEF Carries
  <2> QED
    BY <2>1
<1>12. \A i, j \in 1 .. Len(q) : q[i] = q[j] => i = j
  BY <1>8, <1>9 DEF Carries
<1>13. \A i \in 1 .. Len(q), j \in 1 .. Len(p) : q[i] # p[j]
  BY <1>6, <1>8, <1>10 DEF Carries
<1>14. \A i \in 1 .. Len(q) : q[i] \in sent
  BY <1>4, <1>8 DEF Carries
<1>15. \A i \in 1 .. Len(p) : p[i] # e => p[i] \in sent
  BY <1>6 DEF Carries
<1>16. \A i \in 1 .. Len(p) : p[i] = e => i = Len(p) /\ c \notin K
  <2> SUFFICES ASSUME NEW i \in 1 .. Len(p), p[i] = e PROVE i = Len(p) /\ c \notin K
    OBVIOUS
  <2>1. i + 1 = Len(o) /\ c \notin K
    BY <1>6 DEF Carries
  <2> QED
    BY <1>1, <1>6, <2>1
<1>17. c \in K \/ \E i \in 1 .. Len(p) : p[i] = e
  <2> SUFFICES ASSUME c \notin K PROVE \E i \in 1 .. Len(p) : p[i] = e
    OBVIOUS
  <2>1. PICK j \in 1 .. Len(o) : o[j] = e
    BY DEF Carries
  <2>2. j # 1
    BY <1>2, <1>3, <2>1
  <2>3. j - 1 \in 1 .. Len(p) /\ (j - 1) + 1 = j
    BY <1>1, <1>6, <2>2
  <2>4. p[j - 1] = o[j]
    BY <1>6, <2>3
  <2> QED
    BY <2>1, <2>3, <2>4
<1>18. Carries(e, c, sent, p, q, "open", K)
  BY <1>6, <1>7, <1>11, <1>12, <1>13, <1>14, <1>15, <1>16, <1>17 DEF Carries
<1> QED
  BY <1>3, <1>5, <1>18

LEMMA CarriesEnd ==
  ASSUME NEW e, e \notin Pushes, NEW c, NEW sent, NEW o, NEW d, NEW K, Carries(e, c, sent, o, d, "open", K), o # <<>>, Head(o) = e
  PROVE  Carries(e, c, sent, Tail(o), d, "ended", K \ {c})
<1>1. o \in Seq(Posts(e)) /\ d \in Seq(Pushes) /\ Len(o) \in Nat /\ Len(o) > 0 /\ o[1] = e /\ 1 \in 1 .. Len(o)
  BY DEF Carries
<1>2. Len(o) = 1
  BY <1>1 DEF Carries
<1>3. Tail(o) \in Seq(Posts(e)) /\ Len(Tail(o)) = 0
  BY <1>1, <1>2
<1> QED
  BY <1>1, <1>3 DEF Carries

(* The stream of c while another joins or leaves.                          *)
LEMMA CarriesBeside ==
  ASSUME NEW e, e \notin Pushes, NEW c, NEW sent, NEW o, NEW d, NEW s, NEW K, Carries(e, c, sent, o, d, s, K), NEW L, c \in L <=> c \in K
  PROVE  Carries(e, c, sent, o, d, s, L)
BY DEF Carries

LEMMA CarriesMoves ==
  ASSUME NEW e, e \notin Pushes, NEW c, NEW sent, NEW o, NEW d, NEW s, NEW K, Carries(e, c, sent, o, d, s, K)
  PROVE  /\ s = "none" => Carries(e, c, sent, o, d, "registered", K \cup {c})
         /\ s = "registered" => Carries(e, c, sent, o, d, "open", K) /\ Carries(e, c, sent, o, d, "away", K)
         /\ s = "open" => Carries(e, c, sent, o, d, "away", K \ {c})
BY DEF Carries

LEMMA CarriesSays ==
  ASSUME NEW e, NEW c, NEW sent, NEW o, NEW d, NEW s, NEW K, Carries(e, c, sent, o, d, s, K)
  PROVE  /\ \A i, j \in DOMAIN (d \o o) : (d \o o)[i] = (d \o o)[j] => i = j
         /\ s = "ended" => o = <<>>
         /\ s \in {"registered", "open"} => c \in K \/ \E i \in DOMAIN o : o[i] = e
<1>1. o \in Seq(Posts(e)) /\ d \in Seq(Posts(e)) /\ Len(o) \in Nat /\ Len(d) \in Nat
  BY DEF Carries, Posts
<1>2. PICK p : p = d \o o
  OBVIOUS
<1>3. /\ DOMAIN p = 1 .. Len(d) + Len(o)
      /\ \A i \in 1 .. Len(d) : p[i] = d[i]
      /\ \A i \in 1 .. Len(o) : p[Len(d) + i] = o[i]
  BY <1>1, <1>2
<1>4. \A i \in DOMAIN p : i \in 1 .. Len(d) \/ \E j \in 1 .. Len(o) : i = Len(d) + j
  <2> SUFFICES ASSUME NEW i \in DOMAIN p, i \notin 1 .. Len(d) PROVE \E j \in 1 .. Len(o) : i = Len(d) + j
    OBVIOUS
  <2>1. i - Len(d) \in 1 .. Len(o) /\ i = Len(d) + (i - Len(d))
    BY <1>1, <1>3
  <2> QED
    BY <2>1
<1>5. \A i, j \in DOMAIN p : p[i] = p[j] => i = j
  <2> SUFFICES ASSUME NEW i \in DOMAIN p, NEW j \in DOMAIN p, p[i] = p[j] PROVE i = j
    OBVIOUS
  <2>1. CASE i \in 1 .. Len(d) /\ j \in 1 .. Len(d)
    BY <1>3, <2>1 DEF Carries
  <2>2. CASE i \in 1 .. Len(d) /\ \E m \in 1 .. Len(o) : j = Len(d) + m
    BY <1>3, <2>2 DEF Carries
  <2>3. CASE j \in 1 .. Len(d) /\ \E m \in 1 .. Len(o) : i = Len(d) + m
    BY <1>3, <2>3 DEF Carries
  <2>4. ASSUME NEW m \in 1 .. Len(o), NEW n \in 1 .. Len(o), i = Len(d) + m, j = Len(d) + n PROVE i = j
    <3>1. m = n
      BY <1>3, <2>4 DEF Carries
    <3> QED
      BY <2>4, <3>1
  <2> QED
    BY <1>4, <2>1, <2>2, <2>3, <2>4
<1>6. s = "ended" => o = <<>>
  BY <1>1 DEF Carries
<1>7. DOMAIN o = 1 .. Len(o)
  BY <1>1
<1> QED
  BY <1>2, <1>5, <1>6, <1>7 DEF Carries

StreamEnd == ""
Sent == {r \in Pushes : request[r] = "answered"}

StreamsInv ==
  /\ request \in [Pushes -> {"new", "served", "answered"}]
  /\ stream \in [Clients -> {"none", "registered", "open", "ended", "away"}]
  /\ clients \subseteq Clients
  /\ out \in [Clients -> Seq(Posts(StreamEnd))] /\ read \in [Clients -> Seq(Pushes)]
  /\ \A c \in Clients : Carries(StreamEnd, c, Sent, out[c], read[c], stream[c], clients)

LEMMA PostConstants == StreamEnd \notin Pushes /\ \A r \in Pushes : ClientOf[r] \in Clients
<1>1. StreamEnd \notin Pushes
  BY NoPushEmpty, Zenon DEF StreamEnd
<1>2. ClientOf \in [Pushes -> Clients]
  BY NoPushEmpty, Zenon
<1> QED
  BY <1>1, <1>2

LEMMA StreamsStart == A!Init => StreamsInv
<1> SUFFICES ASSUME A!Init PROVE StreamsInv
  OBVIOUS
<1>1. /\ stream = [c \in Clients |-> "none"] /\ clients = {}
      /\ out = [c \in Clients |-> <<>>]
      /\ request = [r \in Pushes |-> "new"] /\ read = [c \in Clients |-> <<>>]
  BY DEF A!Init
<1>2. PICK e : e = StreamEnd
  OBVIOUS
<1>3. \A c \in Clients : Carries(e, c, Sent, out[c], read[c], stream[c], clients)
  BY <1>1 DEF Carries
<1> QED
  BY <1>1, <1>2, <1>3 DEF StreamsInv

LEMMA JoinKeeps ==
  ASSUME StreamsInv, NEW c \in Clients, A!Connect(c) \/ A!Open(c) \/ A!Disconnect(c)
  PROVE  StreamsInv'
<1> USE PostConstants
<1>1. PICK s \in {"registered", "open", "away"} :
        /\ stream' = [stream EXCEPT ![c] = s] /\ UNCHANGED <<out, request, read>>
        /\ \/ stream[c] = "none" /\ s = "registered" /\ clients' = clients \cup {c}
           \/ stream[c] = "registered" /\ s \in {"open", "away"} /\ clients' = clients
           \/ stream[c] = "open" /\ s = "away" /\ clients' = clients \ {c}
  BY DEF A!Connect, A!Open, A!Disconnect
<1>2. stream'[c] = s /\ \A b \in Clients \ {c} : stream'[b] = stream[b] /\ (b \in clients' <=> b \in clients)
  BY <1>1 DEF StreamsInv
<1>3. PICK e : e = StreamEnd
  OBVIOUS
<1>4. e \notin Pushes /\ \A b \in Clients : Carries(e, b, Sent, out[b], read[b], stream[b], clients)
  BY <1>3 DEF StreamsInv
<1>5. Carries(e, c, Sent, out[c], read[c], s, clients')
  <2>1. PICK o, d, t, J, sent :
          o = out[c] /\ d = read[c] /\ t = stream[c] /\ J = clients /\ sent = Sent
    OBVIOUS
  <2>2. Carries(e, c, sent, o, d, t, J)
    BY <1>4, <2>1
  <2>3. /\ t = "none" => Carries(e, c, sent, o, d, "registered", J \cup {c})
        /\ t = "registered" => Carries(e, c, sent, o, d, "open", J) /\ Carries(e, c, sent, o, d, "away", J)
        /\ t = "open" => Carries(e, c, sent, o, d, "away", J \ {c})
    BY <1>4, <2>2, CarriesMoves
  <2> QED
    BY <1>1, <2>1, <2>3
<1>6. \A b \in Clients \ {c} : Carries(e, b, Sent, out[b], read[b], stream'[b], clients')
  <2> SUFFICES ASSUME NEW b \in Clients \ {c} PROVE Carries(e, b, Sent, out[b], read[b], stream[b], clients')
    BY <1>2
  <2>1. b \in clients' <=> b \in clients
    BY <1>2
  <2> QED
    BY <1>4, <2>1, CarriesBeside
<1>7. \A b \in Clients : Carries(StreamEnd, b, Sent', out'[b], read'[b], stream'[b], clients')
  BY <1>1, <1>2, <1>3, <1>5, <1>6 DEF Sent
<1> QED
  BY <1>1, <1>7 DEF StreamsInv

LEMMA ServeKeeps ==
  ASSUME StreamsInv, NEW r \in Pushes, A!Serve(r) \/ A!Reply(r) \/ A!Notify(r)
  PROVE  StreamsInv'
<1> USE PostConstants
<1>1. CASE A!Serve(r)
  <2>1. request[r] = "new" /\ request' = [request EXCEPT ![r] = "served"] /\ UNCHANGED <<stream, clients, out, read>>
    BY <1>1 DEF A!Serve
  <2>2. Sent' = Sent
    BY <2>1 DEF StreamsInv, Sent
  <2> QED
    BY <2>1, <2>2 DEF StreamsInv
<1>2. CASE A!Reply(r) \/ A!Notify(r)
  <2>1. /\ request[r] = "served" /\ request' = [request EXCEPT ![r] = "answered"]
        /\ UNCHANGED <<stream, clients, read>>
        /\ \/ out' = out
           \/ ClientOf[r] \in clients /\ out' = [out EXCEPT ![ClientOf[r]] = Append(out[ClientOf[r]], r)]
    BY <1>2, Zenon DEF A!Reply, A!Notify
  <2>2. Sent' = Sent \cup {r} /\ r \notin Sent /\ request' \in [Pushes -> {"new", "served", "answered"}]
    BY <2>1 DEF StreamsInv, Sent
  <2>3. PICK e : e = StreamEnd
    OBVIOUS
  <2>4. e \notin Pushes /\ \A b \in Clients : Carries(e, b, Sent, out[b], read[b], stream[b], clients)
    BY <2>3 DEF StreamsInv
  <2>5. \A b \in Clients : Carries(e, b, Sent', out[b], read[b], stream[b], clients)
    BY <2>2, <2>4, CarriesLater
  <2>6. CASE out' = out
    BY <2>1, <2>2, <2>3, <2>5, <2>6 DEF StreamsInv
  <2>7. CASE ClientOf[r] \in clients /\ out' = [out EXCEPT ![ClientOf[r]] = Append(out[ClientOf[r]], r)]
    <3>1. PICK c \in Clients : c = ClientOf[r]
      OBVIOUS
    <3>2. Carries(e, c, Sent', Append(out[c], r), read[c], stream[c], clients)
      BY <2>2, <2>4, <2>7, <3>1, CarriesReply
    <3>3. out[c] \in Seq(Posts(e)) /\ r \in Posts(e)
      BY <2>3 DEF StreamsInv, Posts
    <3>4. Append(out[c], r) \in Seq(Posts(e))
      BY <3>3
    <3>5. out' \in [Clients -> Seq(Posts(e))] /\ out'[c] = Append(out[c], r) /\ \A b \in Clients \ {c} : out'[b] = out[b]
      BY <2>3, <2>7, <3>1, <3>4 DEF StreamsInv
    <3>6. \A b \in Clients : Carries(e, b, Sent', out'[b], read[b], stream[b], clients)
      BY <2>5, <3>2, <3>5
    <3> QED
      BY <2>1, <2>2, <2>3, <3>5, <3>6 DEF StreamsInv
  <2> QED
    BY <2>1, <2>6, <2>7
<1> QED
  BY <1>1, <1>2

LEMMA PushKeeps ==
  ASSUME StreamsInv, NEW c \in Clients, A!Push(c)
  PROVE  StreamsInv'
<1> USE PostConstants
<1>1. /\ stream[c] = "open" /\ out[c] # <<>> /\ out' = [out EXCEPT ![c] = Tail(out[c])] /\ request' = request
      /\ \/ Head(out[c]) = StreamEnd
            /\ stream' = [stream EXCEPT ![c] = "ended"] /\ clients' = clients \ {c} /\ read' = read
         \/ Head(out[c]) # StreamEnd
            /\ read' = [read EXCEPT ![c] = Append(read[c], Head(out[c]))] /\ stream' = stream /\ clients' = clients
  BY Zenon DEF A!Push, StreamEnd
<1>2. PICK e : e = StreamEnd
  OBVIOUS
<1>3. e \notin Pushes /\ \A b \in Clients : Carries(e, b, Sent, out[b], read[b], stream[b], clients)
  BY <1>2 DEF StreamsInv
<1>4. Sent' = Sent
  BY <1>1 DEF Sent
<1>5. Carries(e, c, Sent, out[c], read[c], "open", clients)
  BY <1>1, <1>3
<1>6. out[c] \in Seq(Posts(e)) /\ read[c] \in Seq(Pushes)
  BY <1>2 DEF StreamsInv
<1>7. Tail(out[c]) \in Seq(Posts(e)) /\ Head(out[c]) \in Posts(e)
  BY <1>1, <1>6
<1>8. /\ out' \in [Clients -> Seq(Posts(e))] /\ out'[c] = Tail(out[c])
      /\ \A b \in Clients \ {c} : out'[b] = out[b]
  BY <1>1, <1>2, <1>7 DEF StreamsInv
<1>9. CASE /\ Head(out[c]) = StreamEnd
           /\ stream' = [stream EXCEPT ![c] = "ended"] /\ clients' = clients \ {c} /\ read' = read
  <2>1. Carries(e, c, Sent, Tail(out[c]), read[c], "ended", clients \ {c})
    BY <1>1, <1>2, <1>3, <1>5, <1>9, CarriesEnd
  <2>2. stream'[c] = "ended" /\ \A b \in Clients \ {c} : stream'[b] = stream[b] /\ (b \in clients' <=> b \in clients)
    BY <1>9 DEF StreamsInv
  <2>3. \A b \in Clients \ {c} : Carries(e, b, Sent, out[b], read[b], stream[b], clients')
    <3> SUFFICES ASSUME NEW b \in Clients \ {c} PROVE Carries(e, b, Sent, out[b], read[b], stream[b], clients')
      OBVIOUS
    <3>1. b \in clients' <=> b \in clients
      BY <2>2
    <3> QED
      BY <1>3, <3>1, CarriesBeside
  <2>4. \A b \in Clients : Carries(e, b, Sent, out'[b], read'[b], stream'[b], clients')
    BY <1>8, <1>9, <2>1, <2>2, <2>3
  <2> QED
    BY <1>1, <1>2, <1>4, <1>8, <1>9, <2>4 DEF StreamsInv
<1>10. CASE /\ Head(out[c]) # StreamEnd
            /\ read' = [read EXCEPT ![c] = Append(read[c], Head(out[c]))] /\ stream' = stream /\ clients' = clients
  <2>1. Carries(e, c, Sent, Tail(out[c]), Append(read[c], Head(out[c])), "open", clients)
    BY <1>1, <1>2, <1>3, <1>5, <1>10, CarriesPush
  <2>2. Head(out[c]) \in Pushes
    BY <1>2, <1>7, <1>10 DEF Posts
  <2>3. Append(read[c], Head(out[c])) \in Seq(Pushes)
    BY <1>6, <2>2
  <2>4. /\ read' \in [Clients -> Seq(Pushes)] /\ read'[c] = Append(read[c], Head(out[c]))
        /\ \A b \in Clients \ {c} : read'[b] = read[b]
    BY <1>10, <2>3 DEF StreamsInv
  <2>5. \A b \in Clients : Carries(e, b, Sent, out'[b], read'[b], stream[b], clients)
    <3>1. ASSUME NEW b \in Clients, b # c
          PROVE  Carries(e, b, Sent, out'[b], read'[b], stream[b], clients)
      BY <1>3, <1>8, <2>4, <3>1
    <3>2. Carries(e, c, Sent, out'[c], read'[c], stream[c], clients)
      BY <1>1, <1>8, <2>1, <2>4
    <3> QED
      BY <3>1, <3>2
  <2> QED
    BY <1>1, <1>2, <1>4, <1>8, <1>10, <2>4, <2>5 DEF StreamsInv
<1> QED
  BY <1>1, <1>9, <1>10

LEMMA StopKeeps ==
  ASSUME StreamsInv, A!Stop
  PROVE  StreamsInv'
<1> USE PostConstants
<1>1. /\ out' = [c \in Clients |-> IF c \in clients THEN Append(out[c], StreamEnd) ELSE out[c]]
      /\ clients' = {} /\ UNCHANGED <<stream, request, read>>
  BY Zenon DEF A!Stop, StreamEnd
<1>2. PICK e : e = StreamEnd
  OBVIOUS
<1>3. e \notin Pushes /\ \A b \in Clients : Carries(e, b, Sent, out[b], read[b], stream[b], clients)
  BY <1>2 DEF StreamsInv
<1>4. Sent' = Sent
  BY <1>1 DEF Sent
<1>5. ASSUME NEW c \in Clients
      PROVE  out'[c] \in Seq(Posts(e)) /\ Carries(e, c, Sent, out'[c], read[c], stream[c], {})
  <2>1. out[c] \in Seq(Posts(e)) /\ e \in Posts(e)
    BY <1>2 DEF StreamsInv, Posts
  <2>2. CASE c \in clients
    <3>1. out'[c] = Append(out[c], e)
      BY <1>1, <1>2, <2>2
    <3>2. Append(out[c], e) \in Seq(Posts(e))
      BY <2>1
    <3>3. Carries(e, c, Sent, Append(out[c], e), read[c], stream[c], {})
      BY <1>3, <2>2, CarriesStop
    <3> QED
      BY <3>1, <3>2, <3>3
  <2>3. CASE c \notin clients
    <3>1. out'[c] = out[c] /\ (c \in {} <=> c \in clients)
      BY <1>1, <2>3
    <3>2. Carries(e, c, Sent, out[c], read[c], stream[c], {})
      BY <1>3, <3>1, CarriesBeside
    <3> QED
      BY <2>1, <3>1, <3>2
  <2> QED
    BY <2>2, <2>3
<1>6. out' \in [Clients -> Seq(Posts(e))]
  BY <1>1, <1>5
<1> QED
  BY <1>1, <1>2, <1>4, <1>5, <1>6 DEF StreamsInv

LEMMA StreamsKept == StreamsInv /\ [A!Next]_(A!vars) => StreamsInv'
<1> SUFFICES ASSUME StreamsInv, [A!Next]_(A!vars) PROVE StreamsInv'
  OBVIOUS
<1>1. CASE UNCHANGED A!serving
  <2>1. UNCHANGED <<stream, clients, out, request, read>>
    BY <1>1 DEF A!serving
  <2>2. Sent' = Sent
    BY <2>1 DEF Sent
  <2> QED
    BY <2>1, <2>2 DEF StreamsInv
<1>2. CASE A!Offer
  BY <1>2, JoinKeeps, ServeKeeps, PushKeeps, StopKeeps DEF A!Offer
<1> QED
  BY <1>1, <1>2 DEF A!Next, A!Work, A!Talk, A!vars

LEMMA StreamsSay == StreamsInv => A!StreamsSound
<1> SUFFICES ASSUME StreamsInv PROVE A!StreamsSound
  OBVIOUS
<1>1. PICK e : e = StreamEnd
  OBVIOUS
<1>2. \A c \in Clients : Carries(e, c, Sent, out[c], read[c], stream[c], clients)
  BY <1>1 DEF StreamsInv
<1>3. \A c \in Clients :
        /\ \A i, j \in DOMAIN (read[c] \o out[c]) : (read[c] \o out[c])[i] = (read[c] \o out[c])[j] => i = j
        /\ stream[c] = "ended" => out[c] = <<>>
        /\ stream[c] \in {"registered", "open"} => c \in clients \/ \E i \in DOMAIN out[c] : out[c][i] = e
  <2> TAKE c \in Clients
  <2>1. PICK o, d, t, J, sent :
          o = out[c] /\ d = read[c] /\ t = stream[c] /\ J = clients /\ sent = Sent
    OBVIOUS
  <2>2. Carries(e, c, sent, o, d, t, J)
    BY <1>2, <2>1
  <2>3. /\ \A i, j \in DOMAIN (d \o o) : (d \o o)[i] = (d \o o)[j] => i = j
        /\ t = "ended" => o = <<>>
        /\ t \in {"registered", "open"} => c \in J \/ \E i \in DOMAIN o : o[i] = e
    BY <2>2, CarriesSays
  <2> QED
    BY <2>1, <2>3
<1>4. \A c \in Clients : A!IsInjective(read[c] \o out[c])
  BY <1>3 DEF A!IsInjective
<1>5. \A c \in Clients : stream[c] \in {"registered", "open"} => c \in clients \/ e \in A!Range(out[c])
  BY <1>3 DEF A!Range
<1>6. \A c \in Clients : stream[c] = "ended" => out[c] = <<>>
  BY <1>3
<1> QED
  BY <1>1, <1>4, <1>5, <1>6, Zenon DEF A!StreamsSound, StreamEnd

(* Agents hear what is meant for them, within their limits: a wait brings  *)
(* the first answer that came after it began, and one alone on its key     *)
(* does not miss it; the calls of a workspace exceed its limit by no more  *)
(* than ran beside each other; a client's stream brings every answer once  *)
(* and nothing after its end (agents/communication.py, workspace.py,       *)
(* mcp_server.py).                                                         *)
THEOREM AgentsHear == A!Spec => []AgentsTalk
<1>1. A!Init => WaitsInv /\ WorkspaceInv /\ StreamsInv
  BY WaitsStart, WorkspaceStarts, StreamsStart
<1>2. WaitsInv /\ WorkspaceInv /\ StreamsInv /\ [A!Next]_(A!vars) => (WaitsInv /\ WorkspaceInv /\ StreamsInv)'
  BY WaitsKept, WorkspaceKept, StreamsKept
<1>3. WaitsInv /\ WorkspaceInv /\ StreamsInv => AgentsTalk
  BY WaitsSay, WorkspaceSays, StreamsSay DEF AgentsTalk, A!AgentsTalk
<1> QED
  BY <1>1, <1>2, <1>3, PTL DEF A!Spec

-----------------------------------------------------------------------------
(* What the handlers of the chat services hear.                            *)

LEMMA CardinalityOfI == \A T : I!Cardinality(T) = Cardinality(T)
BY Zenon DEF I!Cardinality, Cardinality

LEMMA AtMostOne == \A T : (\A x, y \in T : x = y) => IsFiniteSet(T) /\ Cardinality(T) <= 1
<1> SUFFICES ASSUME NEW T, \A x, y \in T : x = y PROVE IsFiniteSet(T) /\ Cardinality(T) <= 1
  OBVIOUS
<1>1. CASE T = {}
  BY <1>1, FS_EmptySet
<1>2. ASSUME NEW x \in T PROVE IsFiniteSet(T) /\ Cardinality(T) = 1
  <2>1. T = {x}
    OBVIOUS
  <2> QED
    BY <2>1, FS_Singleton
<1> QED
  BY <1>1, <1>2

LEMMA IdleApart == \A u \in I!Tasks : u # Idle
BY RequestConstants, Zenon DEF I!Tasks, I!Msgs

LEMMA TailStep ==
  ASSUME NEW S, NEW t \in Seq(S), t # <<>>
  PROVE  /\ Head(t) = t[1] /\ Len(t) \in Nat /\ Len(t) > 0 /\ Tail(t) \in Seq(S)
         /\ Len(Tail(t)) = Len(t) - 1
         /\ \A i \in 1 .. Len(Tail(t)) : Tail(t)[i] = t[i + 1] /\ i + 1 \in 1 .. Len(t)
OBVIOUS

(* Stages: those that send the event, and those that ask for the account.  *)
Outs == {"emit", "publish"}
Seekers == {"resolve", "identify", "lookup"}
Stages == Outs \cup Seekers
            \cup {"wait", "address", "fetch", "own", "command", "defer", "locate", "verify", "load"}
\* The stage that ends the handling of what is not meant for the agent.
Filtered == {"own", "aside", "command", "unsigned"}
Filter == [own |-> "own", aside |-> "address", command |-> "command", unsigned |-> "verify"]

Has(r, S) == \E i \in 1 .. Len(r) : r[i] \in S

(* The stages a handler of svc may still have to go through for a srt.     *)
Shape(svc, srt, r) ==
  /\ r \in Seq(Stages)
  /\ \A i \in 1 .. Len(r) :
       /\ r[i] \in Outs => /\ r[i] = IF svc \in {"telegram", "discord"} THEN "emit" ELSE "publish"
                           /\ \A j \in 1 .. Len(r) : j > i => r[j] = "wait"
       /\ r[i] # "wait" => \E j \in 1 .. Len(r) : j >= i /\ r[j] \in Outs
       /\ r[i] = "verify" => svc \in {"whatsapp", "messenger", "teams"}
       /\ r[i] = "lookup" => svc = "messenger" /\ srt = "press"
       /\ r[i] \in {"identify", "defer", "lookup"} => srt \notin {"text", "file"}
       /\ r[i] = "locate" => i < Len(r) /\ r[i + 1] = "fetch"
       /\ i > 1 /\ r[i] = "publish" /\ srt # "status" => r[i - 1] \in Seekers

(* The tasks whose messages have become events.                            *)
Spoke == {I!Events[i].task : i \in DOMAIN I!Events}
Unspent(t) == t \notin Spoke /\ t \notin prompted /\ t \notin rejected

(* The account is one the user has had.                                    *)
Knows(svc, srt, r, acc, past) ==
  srt # "status" /\ Has(r, Outs) /\ ~Has(r, Seekers) =>
    acc \in past /\ (acc = NoOne => svc = "messenger" /\ srt = "press")

(* A task on whose way an event still is has had no event and no answer;   *)
(* a text or a file for which none is had one of them.                     *)
TaskInv(t) ==
  /\ Shape(service, I!Of(t), todo[t])
  /\ Has(todo[t], Outs) => Unspent(t)
  /\ t \in Spoke => t \notin prompted /\ t \notin rejected
  /\ ~(t \in prompted /\ t \in rejected)
  /\ I!Of(t) \in {"text", "file"} /\ ~Has(todo[t], Outs) => ~Unspent(t)
  /\ I!Of(t) \in Filtered /\ Has(todo[t], Outs) => Has(todo[t], {Filter[I!Of(t)]})
  /\ Knows(service, I!Of(t), todo[t], account[t], since[t])
  /\ I!Of(t) # "status" /\ todo[t] # <<>> /\ Head(todo[t]) = "publish" => holder = t /\ account[t] = linked
  /\ todo[t] # <<>> => linked \in since[t]

Arrived == I!Range(order)
TasksInv ==
  /\ \A t \in Arrived : TaskInv(t)
  /\ \A t \in I!Tasks \ Arrived : todo[t] = <<>> /\ Unspent(t)

(* Of the two handlers of a press on Discord one goes past the response.   *)
Passed(t) == t \in Spoke \/ (Has(todo[t], Outs) /\ ~Has(todo[t], {"defer"}))
PairInv ==
  /\ \A t \in Arrived : t[2] = 2 => service = "discord" /\ I!Of(t) = "press"
  /\ service = "discord" => \A t, u \in Arrived :
       I!Of(t) = "press" /\ Passed(t) => t[1] \in deferred /\ (t[1] = u[1] /\ Passed(u) => t = u)

Due(e) ==
  /\ e.task \in Arrived /\ I!Of(e.task) \notin Filtered
  /\ I!Of(e.task) # "status" =>
       /\ e.account \in since[e.task]
       /\ service \notin {"telegram", "discord"} => e.account = e.now
       /\ e.account = NoOne => service = "messenger" /\ I!Of(e.task) = "press"
EventsInv ==
  /\ emitted # <<>> => service \in {"telegram", "discord"}
  /\ offered # <<>> => service \notin {"telegram", "discord"}
  /\ \A i \in DOMAIN I!Events : Due(I!Events[i])
  /\ \A i, j \in DOMAIN I!Events : I!Events[i].task[1] = I!Events[j].task[1] => i = j

Earlier(t, u) == \E p, q \in DOMAIN order : p < q /\ order[p] = t /\ order[q] = u
SerialInv == oneByOne =>
  /\ \A t, u \in Arrived : Earlier(t, u) /\ u \in Spoke => todo[t] = <<>>
  /\ \A i, j \in DOMAIN I!Events : i < j => Earlier(I!Events[i].task, I!Events[j].task)

Records == [task : I!Tasks, account : Accounts \cup {NoOne}, now : Accounts \cup {NoOne}, files : 0 .. 1]
BaseInv ==
  /\ oneByOne \in BOOLEAN /\ service \in DOMAIN I!Handler /\ sort \in [I!Msgs -> I!Sorts(service)]
  /\ order \in Seq(I!Tasks) /\ \A i, j \in DOMAIN order : order[i] = order[j] => i = j
  /\ \E n \in Nat : {order[i][1] : i \in DOMAIN order} = 1 .. n
  /\ todo \in [I!Tasks -> Seq(Stages)] /\ linked \in Accounts \cup {NoOne}
  /\ account \in [I!Tasks -> Accounts \cup {NoOne}] /\ got \in [I!Tasks -> 0 .. 1]
  /\ since \in [I!Tasks -> SUBSET (Accounts \cup {NoOne})]
  /\ emitted \in Seq(Records) /\ offered \in Seq(Records)

InboundInv == BaseInv /\ TasksInv /\ PairInv /\ EventsInv /\ SerialInv

Asked == DOMAIN I!Asks

(* A handler as it begins.                                                 *)
Starts(svc, srt, h) ==
  /\ Shape(svc, srt, h) /\ h # <<>> /\ Has(h, Outs)
  /\ srt # "status" => Has(h, Seekers) /\ Head(h) # "publish"
  /\ svc = "discord" /\ srt = "press" => Has(h, {"defer"})

(* Handlers put together from parts.                                       *)
LEMMA Joined ==
  ASSUME NEW r \in Seq(Stages), NEW u \in Seq(Stages), NEW h \in Seq(Stages), Len(h) = Len(r) + Len(u),
         \A i \in 1 .. Len(r) : h[i] = r[i], \A i \in 1 .. Len(u) : h[Len(r) + i] = u[i]
  PROVE  r \o u = h
<1>1. /\ r \o u \in Seq(Stages) /\ Len(r \o u) = Len(r) + Len(u)
      /\ \A i \in 1 .. Len(r) : (r \o u)[i] = r[i]
      /\ \A i \in 1 .. Len(u) : (r \o u)[Len(r) + i] = u[i]
  OBVIOUS
<1>2. PICK x : x = r \o u
  OBVIOUS
<1>3. Len(r) \in Nat /\ Len(u) \in Nat
  OBVIOUS
<1>4. \A i \in 1 .. Len(r) + Len(u) : i \in 1 .. Len(r) \/ \E j \in 1 .. Len(u) : i = Len(r) + j
  <2> SUFFICES ASSUME NEW i \in 1 .. Len(r) + Len(u), i \notin 1 .. Len(r)
               PROVE  \E j \in 1 .. Len(u) : i = Len(r) + j
    OBVIOUS
  <2>1. i - Len(r) \in 1 .. Len(u) /\ i = Len(r) + (i - Len(r))
    BY <1>3
  <2> QED
    BY <2>1
<1>5. \A i \in 1 .. Len(x) : x[i] = h[i]
  <2>1. Len(x) = Len(r) + Len(u) /\ \A i \in 1 .. Len(r) : x[i] = h[i]
    BY <1>1, <1>2
  <2>2. \A j \in 1 .. Len(u) : x[Len(r) + j] = h[Len(r) + j]
    BY <1>1, <1>2
  <2> QED
    BY <1>4, <2>1, <2>2
<1> QED
  BY <1>1, <1>2, <1>5, SeqEqual

LEMMA HandlersAre ==
  /\ I!TelegramMessage = <<"address", "resolve", "fetch", "emit">>
  /\ I!DiscordRegular = <<"address", "resolve", "fetch", "emit">>
  /\ I!DiscordMessage = <<"own", "command", "address", "resolve", "fetch", "emit">>
  /\ I!WhatsAppMessage = <<"verify", "command", "locate", "fetch", "resolve", "publish">>
  /\ I!MessengerMessage = <<"verify", "own", "command", "locate", "fetch", "resolve", "publish">>
  /\ <<"wait">> \o I!SlackMessage = <<"wait", "own", "address", "command", "resolve", "publish">>
  /\ <<"wait">> \o I!SlackPress = <<"wait", "identify", "publish">>
<1> USE DEF Stages, Outs, Seekers
<1>1. I!TelegramMessage = <<"address", "resolve", "fetch", "emit">>
  <2>1. ASSUME NEW r, NEW u, NEW h, r = <<"address", "resolve">>, u = <<"fetch">>,
               h = <<"address", "resolve", "fetch">>
        PROVE  r \o u = h
    <3>1. r \in Seq(Stages) /\ u \in Seq(Stages) /\ h \in Seq(Stages)
      /\ Len(r) = 2 /\ Len(u) = 1 /\ Len(h) = 3
      BY <2>1 DEF Stages, Outs, Seekers
    <3>2. (\A i \in 1 .. Len(r) : h[i] = r[i]) /\ \A i \in 1 .. Len(u) : h[Len(r) + i] = u[i]
      BY <2>1, <3>1
    <3>3. Len(h) = Len(r) + Len(u)
      BY <3>1
    <3> QED
      BY <3>1, <3>2, <3>3, Joined, Zenon
  <2>2. ASSUME NEW r, NEW u, NEW h, r = <<"address", "resolve", "fetch">>, u = <<"emit">>,
               h = <<"address", "resolve", "fetch", "emit">>
        PROVE  r \o u = h
    <3>1. r \in Seq(Stages) /\ u \in Seq(Stages) /\ h \in Seq(Stages)
      /\ Len(r) = 3 /\ Len(u) = 1 /\ Len(h) = 4
      BY <2>2 DEF Stages, Outs, Seekers
    <3>2. (\A i \in 1 .. Len(r) : h[i] = r[i]) /\ \A i \in 1 .. Len(u) : h[Len(r) + i] = u[i]
      BY <2>2, <3>1
    <3>3. Len(h) = Len(r) + Len(u)
      BY <3>1
    <3> QED
      BY <3>1, <3>2, <3>3, Joined, Zenon
  <2> QED
    BY <2>1, <2>2 DEF I!TelegramMessage, I!TelegramDownload
<1>2. I!DiscordRegular = <<"address", "resolve", "fetch", "emit">>
  <2>1. ASSUME NEW r, NEW u, NEW h, r = <<"address", "resolve">>, u = <<"fetch">>,
               h = <<"address", "resolve", "fetch">>
        PROVE  r \o u = h
    <3>1. r \in Seq(Stages) /\ u \in Seq(Stages) /\ h \in Seq(Stages)
      /\ Len(r) = 2 /\ Len(u) = 1 /\ Len(h) = 3
      BY <2>1 DEF Stages, Outs, Seekers
    <3>2. (\A i \in 1 .. Len(r) : h[i] = r[i]) /\ \A i \in 1 .. Len(u) : h[Len(r) + i] = u[i]
      BY <2>1, <3>1
    <3>3. Len(h) = Len(r) + Len(u)
      BY <3>1
    <3> QED
      BY <3>1, <3>2, <3>3, Joined, Zenon
  <2>2. ASSUME NEW r, NEW u, NEW h, r = <<"address", "resolve", "fetch">>, u = <<"emit">>,
               h = <<"address", "resolve", "fetch", "emit">>
        PROVE  r \o u = h
    <3>1. r \in Seq(Stages) /\ u \in Seq(Stages) /\ h \in Seq(Stages)
      /\ Len(r) = 3 /\ Len(u) = 1 /\ Len(h) = 4
      BY <2>2 DEF Stages, Outs, Seekers
    <3>2. (\A i \in 1 .. Len(r) : h[i] = r[i]) /\ \A i \in 1 .. Len(u) : h[Len(r) + i] = u[i]
      BY <2>2, <3>1
    <3>3. Len(h) = Len(r) + Len(u)
      BY <3>1
    <3> QED
      BY <3>1, <3>2, <3>3, Joined, Zenon
  <2> QED
    BY <2>1, <2>2 DEF I!DiscordRegular, I!DiscordDownload
<1>3. I!DiscordMessage = <<"own", "command", "address", "resolve", "fetch", "emit">>
  <2>1. ASSUME NEW r, NEW u, NEW h, r = <<"own", "command">>, u = <<"address", "resolve", "fetch", "emit">>,
               h = <<"own", "command", "address", "resolve", "fetch", "emit">>
        PROVE  r \o u = h
    <3>1. r \in Seq(Stages) /\ u \in Seq(Stages) /\ h \in Seq(Stages)
      /\ Len(r) = 2 /\ Len(u) = 4 /\ Len(h) = 6
      BY <2>1 DEF Stages, Outs, Seekers
    <3>2. (\A i \in 1 .. Len(r) : h[i] = r[i]) /\ \A i \in 1 .. Len(u) : h[Len(r) + i] = u[i]
      BY <2>1, <3>1
    <3>3. Len(h) = Len(r) + Len(u)
      BY <3>1
    <3> QED
      BY <3>1, <3>2, <3>3, Joined, Zenon
  <2> QED
    BY <2>1, <1>2 DEF I!DiscordMessage
<1>4. I!WhatsAppMessage = <<"verify", "command", "locate", "fetch", "resolve", "publish">>
  <2>1. ASSUME NEW r, NEW u, NEW h, r = <<"verify", "command">>, u = <<"locate", "fetch">>,
               h = <<"verify", "command", "locate", "fetch">>
        PROVE  r \o u = h
    <3>1. r \in Seq(Stages) /\ u \in Seq(Stages) /\ h \in Seq(Stages)
      /\ Len(r) = 2 /\ Len(u) = 2 /\ Len(h) = 4
      BY <2>1 DEF Stages, Outs, Seekers
    <3>2. (\A i \in 1 .. Len(r) : h[i] = r[i]) /\ \A i \in 1 .. Len(u) : h[Len(r) + i] = u[i]
      BY <2>1, <3>1
    <3>3. Len(h) = Len(r) + Len(u)
      BY <3>1
    <3> QED
      BY <3>1, <3>2, <3>3, Joined, Zenon
  <2>2. ASSUME NEW r, NEW u, NEW h, r = <<"verify", "command", "locate", "fetch">>, u = <<"resolve", "publish">>,
               h = <<"verify", "command", "locate", "fetch", "resolve", "publish">>
        PROVE  r \o u = h
    <3>1. r \in Seq(Stages) /\ u \in Seq(Stages) /\ h \in Seq(Stages)
      /\ Len(r) = 4 /\ Len(u) = 2 /\ Len(h) = 6
      BY <2>2 DEF Stages, Outs, Seekers
    <3>2. (\A i \in 1 .. Len(r) : h[i] = r[i]) /\ \A i \in 1 .. Len(u) : h[Len(r) + i] = u[i]
      BY <2>2, <3>1
    <3>3. Len(h) = Len(r) + Len(u)
      BY <3>1
    <3> QED
      BY <3>1, <3>2, <3>3, Joined, Zenon
  <2> QED
    BY <2>1, <2>2 DEF I!WhatsAppMessage, I!WhatsAppExtract
<1>5. I!MessengerMessage = <<"verify", "own", "command", "locate", "fetch", "resolve", "publish">>
  <2>1. ASSUME NEW r, NEW u, NEW h, r = <<"verify", "own", "command">>, u = <<"locate", "fetch">>,
               h = <<"verify", "own", "command", "locate", "fetch">>
        PROVE  r \o u = h
    <3>1. r \in Seq(Stages) /\ u \in Seq(Stages) /\ h \in Seq(Stages)
      /\ Len(r) = 3 /\ Len(u) = 2 /\ Len(h) = 5
      BY <2>1 DEF Stages, Outs, Seekers
    <3>2. (\A i \in 1 .. Len(r) : h[i] = r[i]) /\ \A i \in 1 .. Len(u) : h[Len(r) + i] = u[i]
      BY <2>1, <3>1
    <3>3. Len(h) = Len(r) + Len(u)
      BY <3>1
    <3> QED
      BY <3>1, <3>2, <3>3, Joined, Zenon
  <2>2. ASSUME NEW r, NEW u, NEW h, r = <<"verify", "own", "command", "locate", "fetch">>, u = <<"resolve", "publish">>,
               h = <<"verify", "own", "command", "locate", "fetch", "resolve", "publish">>
        PROVE  r \o u = h
    <3>1. r \in Seq(Stages) /\ u \in Seq(Stages) /\ h \in Seq(Stages)
      /\ Len(r) = 5 /\ Len(u) = 2 /\ Len(h) = 7
      BY <2>2 DEF Stages, Outs, Seekers
    <3>2. (\A i \in 1 .. Len(r) : h[i] = r[i]) /\ \A i \in 1 .. Len(u) : h[Len(r) + i] = u[i]
      BY <2>2, <3>1
    <3>3. Len(h) = Len(r) + Len(u)
      BY <3>1
    <3> QED
      BY <3>1, <3>2, <3>3, Joined, Zenon
  <2>3. <<"verify", "own", "command">> \o <<"locate", "fetch">> = <<"verify", "own", "command", "locate", "fetch">>
    BY <2>1, Zenon
  <2>4. <<"verify", "own", "command", "locate", "fetch">> \o <<"resolve", "publish">>
          = <<"verify", "own", "command", "locate", "fetch", "resolve", "publish">>
    BY <2>2, Zenon
  <2> QED
    BY <2>3, <2>4, Zenon DEF I!MessengerMessage, I!MessengerExtract
<1>6. <<"wait">> \o I!SlackMessage = <<"wait", "own", "address", "command", "resolve", "publish">>
  <2>1. ASSUME NEW r, NEW u, NEW h, r = <<"wait">>, u = <<"own", "address", "command", "resolve", "publish">>, h = <<"wait", "own", "address", "command", "resolve", "publish">>
        PROVE  r \o u = h
    <3>1. r \in Seq(Stages) /\ u \in Seq(Stages) /\ h \in Seq(Stages)
      /\ Len(r) = 1 /\ Len(u) = 5 /\ Len(h) = 6
      BY <2>1 DEF Stages, Outs, Seekers
    <3>2. (\A i \in 1 .. Len(r) : h[i] = r[i]) /\ \A i \in 1 .. Len(u) : h[Len(r) + i] = u[i]
      BY <2>1, <3>1
    <3>3. Len(h) = Len(r) + Len(u)
      BY <3>1
    <3> QED
      BY <3>1, <3>2, <3>3, Joined, Zenon
  <2> QED
    BY <2>1 DEF I!SlackMessage
<1>7. <<"wait">> \o I!SlackPress = <<"wait", "identify", "publish">>
  <2>1. ASSUME NEW r, NEW u, NEW h, r = <<"wait">>, u = <<"identify", "publish">>, h = <<"wait", "identify", "publish">>
        PROVE  r \o u = h
    <3>1. r \in Seq(Stages) /\ u \in Seq(Stages) /\ h \in Seq(Stages)
      /\ Len(r) = 1 /\ Len(u) = 2 /\ Len(h) = 3
      BY <2>1 DEF Stages, Outs, Seekers
    <3>2. (\A i \in 1 .. Len(r) : h[i] = r[i]) /\ \A i \in 1 .. Len(u) : h[Len(r) + i] = u[i]
      BY <2>1, <3>1
    <3>3. Len(h) = Len(r) + Len(u)
      BY <3>1
    <3> QED
      BY <3>1, <3>2, <3>3, Joined, Zenon
  <2> QED
    BY <2>1 DEF I!SlackPress
<1> QED
  BY <1>1, <1>2, <1>3, <1>4, <1>5, <1>6, <1>7

LEMMA HandlersStart ==
  /\ \A srt \in Asked : Starts("telegram", srt, <<"address", "resolve", "fetch", "emit">>)
  /\ \A srt \in {"press"} : Starts("telegram", srt, <<"wait", "resolve", "emit">>)
  /\ \A srt \in Asked : Starts("discord", srt, <<"own", "command", "address", "resolve", "fetch", "emit">>)
  /\ \A srt \in {"press"} : Starts("discord", srt, <<"resolve", "defer", "emit">>)
  /\ \A srt \in Asked : Starts("whatsapp", srt, <<"verify", "command", "locate", "fetch", "resolve", "publish">>)
  /\ \A srt \in {"press", "reaction"} : Starts("whatsapp", srt, <<"verify", "identify", "publish">>)
  /\ \A srt \in {"status"} : Starts("whatsapp", srt, <<"verify", "publish">>)
  /\ \A srt \in Asked : Starts("messenger", srt, <<"verify", "own", "command", "locate", "fetch", "resolve", "publish">>)
  /\ \A srt \in {"press"} : Starts("messenger", srt, <<"verify", "own", "lookup", "publish">>)
  /\ \A srt \in {"status"} : Starts("messenger", srt, <<"verify", "publish">>)
  /\ \A srt \in Asked : Starts("slack", srt, <<"own", "address", "command", "resolve", "publish">>)
  /\ \A srt \in Asked : Starts("slack", srt, <<"wait", "own", "address", "command", "resolve", "publish">>)
  /\ \A srt \in {"press"} : Starts("slack", srt, <<"identify", "publish">>)
  /\ \A srt \in {"press"} : Starts("slack", srt, <<"wait", "identify", "publish">>)
  /\ \A srt \in Asked : Starts("teams", srt, <<"verify", "address", "command", "resolve", "publish">>)
  /\ \A srt \in {"press", "reaction"} : Starts("teams", srt, <<"verify", "identify", "publish">>)
  /\ \A srt \in Asked : Starts("signal", srt, <<"own", "address", "command", "load", "resolve", "publish", "wait">>)
  /\ \A srt \in {"status"} : Starts("signal", srt, <<"own", "publish">>)
<1>1. ASSUME NEW srt \in Asked, NEW h, h = <<"address", "resolve", "fetch", "emit">>
       PROVE  Starts("telegram", srt, h)
  <2>1. h \in Seq(Stages) /\ Len(h) = 4 /\ h[1] = "address" /\ h[2] = "resolve" /\ h[3] = "fetch" /\ h[4] = "emit"
    BY <1>1 DEF Stages, Outs, Seekers
  <2>2. Shape("telegram", srt, h)
    BY <2>1 DEF Shape, Outs, Seekers, Asked, I!Asks
  <2>3. h # <<>> /\ Head(h) = h[1]
    <3>1. h # <<>>
      BY <1>1
    <3> QED
      BY <2>1, <3>1
  <2>4. 2 \in 1 .. Len(h) /\ 4 \in 1 .. Len(h)
    BY <2>1
  <2> QED
    BY <2>1, <2>2, <2>3, <2>4 DEF Starts, Has, Outs, Seekers, Asked, I!Asks
<1>2. ASSUME NEW srt \in {"press"}, NEW h, h = <<"wait", "resolve", "emit">>
       PROVE  Starts("telegram", srt, h)
  <2>1. h \in Seq(Stages) /\ Len(h) = 3 /\ h[1] = "wait" /\ h[2] = "resolve" /\ h[3] = "emit"
    BY <1>2 DEF Stages, Outs, Seekers
  <2>2. Shape("telegram", srt, h)
    BY <2>1 DEF Shape, Outs, Seekers, Asked, I!Asks
  <2>3. h # <<>> /\ Head(h) = h[1]
    <3>1. h # <<>>
      BY <1>2
    <3> QED
      BY <2>1, <3>1
  <2>4. 2 \in 1 .. Len(h) /\ 3 \in 1 .. Len(h)
    BY <2>1
  <2> QED
    BY <2>1, <2>2, <2>3, <2>4 DEF Starts, Has, Outs, Seekers, Asked, I!Asks
<1>3. ASSUME NEW srt \in Asked, NEW h, h = <<"own", "command", "address", "resolve", "fetch", "emit">>
       PROVE  Starts("discord", srt, h)
  <2>1. h \in Seq(Stages) /\ Len(h) = 6 /\ h[1] = "own" /\ h[2] = "command" /\ h[3] = "address" /\ h[4] = "resolve" /\ h[5] = "fetch" /\ h[6] = "emit"
    BY <1>3 DEF Stages, Outs, Seekers
  <2>2. Shape("discord", srt, h)
    BY <2>1 DEF Shape, Outs, Seekers, Asked, I!Asks
  <2>3. h # <<>> /\ Head(h) = h[1]
    <3>1. h # <<>>
      BY <1>3
    <3> QED
      BY <2>1, <3>1
  <2>4. 4 \in 1 .. Len(h) /\ 6 \in 1 .. Len(h)
    BY <2>1
  <2> QED
    BY <2>1, <2>2, <2>3, <2>4 DEF Starts, Has, Outs, Seekers, Asked, I!Asks
<1>4. ASSUME NEW srt \in {"press"}, NEW h, h = <<"resolve", "defer", "emit">>
       PROVE  Starts("discord", srt, h)
  <2>1. h \in Seq(Stages) /\ Len(h) = 3 /\ h[1] = "resolve" /\ h[2] = "defer" /\ h[3] = "emit"
    BY <1>4 DEF Stages, Outs, Seekers
  <2>2. Shape("discord", srt, h)
    BY <2>1 DEF Shape, Outs, Seekers, Asked, I!Asks
  <2>3. h # <<>> /\ Head(h) = h[1]
    <3>1. h # <<>>
      BY <1>4
    <3> QED
      BY <2>1, <3>1
  <2>4. 1 \in 1 .. Len(h) /\ 2 \in 1 .. Len(h) /\ 3 \in 1 .. Len(h)
    BY <2>1
  <2> QED
    BY <2>1, <2>2, <2>3, <2>4 DEF Starts, Has, Outs, Seekers, Asked, I!Asks
<1>5. ASSUME NEW srt \in Asked, NEW h, h = <<"verify", "command", "locate", "fetch", "resolve", "publish">>
       PROVE  Starts("whatsapp", srt, h)
  <2>1. h \in Seq(Stages) /\ Len(h) = 6 /\ h[1] = "verify" /\ h[2] = "command" /\ h[3] = "locate" /\ h[4] = "fetch" /\ h[5] = "resolve" /\ h[6] = "publish"
    BY <1>5 DEF Stages, Outs, Seekers
  <2>2. Shape("whatsapp", srt, h)
    BY <2>1 DEF Shape, Outs, Seekers, Asked, I!Asks
  <2>3. h # <<>> /\ Head(h) = h[1]
    <3>1. h # <<>>
      BY <1>5
    <3> QED
      BY <2>1, <3>1
  <2>4. 5 \in 1 .. Len(h) /\ 6 \in 1 .. Len(h)
    BY <2>1
  <2> QED
    BY <2>1, <2>2, <2>3, <2>4 DEF Starts, Has, Outs, Seekers, Asked, I!Asks
<1>6. ASSUME NEW srt \in {"press", "reaction"}, NEW h, h = <<"verify", "identify", "publish">>
       PROVE  Starts("whatsapp", srt, h)
  <2>1. h \in Seq(Stages) /\ Len(h) = 3 /\ h[1] = "verify" /\ h[2] = "identify" /\ h[3] = "publish"
    BY <1>6 DEF Stages, Outs, Seekers
  <2>2. Shape("whatsapp", srt, h)
    BY <2>1 DEF Shape, Outs, Seekers, Asked, I!Asks
  <2>3. h # <<>> /\ Head(h) = h[1]
    <3>1. h # <<>>
      BY <1>6
    <3> QED
      BY <2>1, <3>1
  <2>4. 2 \in 1 .. Len(h) /\ 3 \in 1 .. Len(h)
    BY <2>1
  <2> QED
    BY <2>1, <2>2, <2>3, <2>4 DEF Starts, Has, Outs, Seekers, Asked, I!Asks
<1>7. ASSUME NEW srt \in {"status"}, NEW h, h = <<"verify", "publish">>
       PROVE  Starts("whatsapp", srt, h)
  <2>1. h \in Seq(Stages) /\ Len(h) = 2 /\ h[1] = "verify" /\ h[2] = "publish"
    BY <1>7 DEF Stages, Outs, Seekers
  <2>2. Shape("whatsapp", srt, h)
    BY <2>1 DEF Shape, Outs, Seekers, Asked, I!Asks
  <2>3. h # <<>> /\ Head(h) = h[1]
    <3>1. h # <<>>
      BY <1>7
    <3> QED
      BY <2>1, <3>1
  <2>4. 2 \in 1 .. Len(h)
    BY <2>1
  <2> QED
    BY <2>1, <2>2, <2>3, <2>4 DEF Starts, Has, Outs, Seekers, Asked, I!Asks
<1>8. ASSUME NEW srt \in Asked, NEW h, h = <<"verify", "own", "command", "locate", "fetch", "resolve", "publish">>
       PROVE  Starts("messenger", srt, h)
  <2>1. h \in Seq(Stages) /\ Len(h) = 7 /\ h[1] = "verify" /\ h[2] = "own" /\ h[3] = "command" /\ h[4] = "locate" /\ h[5] = "fetch" /\ h[6] = "resolve" /\ h[7] = "publish"
    BY <1>8 DEF Stages, Outs, Seekers
  <2>2. Shape("messenger", srt, h)
    BY <2>1 DEF Shape, Outs, Seekers, Asked, I!Asks
  <2>3. h # <<>> /\ Head(h) = h[1]
    <3>1. h # <<>>
      BY <1>8
    <3> QED
      BY <2>1, <3>1
  <2>4. 6 \in 1 .. Len(h) /\ 7 \in 1 .. Len(h)
    BY <2>1
  <2> QED
    BY <2>1, <2>2, <2>3, <2>4 DEF Starts, Has, Outs, Seekers, Asked, I!Asks
<1>9. ASSUME NEW srt \in {"press"}, NEW h, h = <<"verify", "own", "lookup", "publish">>
       PROVE  Starts("messenger", srt, h)
  <2>1. h \in Seq(Stages) /\ Len(h) = 4 /\ h[1] = "verify" /\ h[2] = "own" /\ h[3] = "lookup" /\ h[4] = "publish"
    BY <1>9 DEF Stages, Outs, Seekers
  <2>2. Shape("messenger", srt, h)
    BY <2>1 DEF Shape, Outs, Seekers, Asked, I!Asks
  <2>3. h # <<>> /\ Head(h) = h[1]
    <3>1. h # <<>>
      BY <1>9
    <3> QED
      BY <2>1, <3>1
  <2>4. 3 \in 1 .. Len(h) /\ 4 \in 1 .. Len(h)
    BY <2>1
  <2> QED
    BY <2>1, <2>2, <2>3, <2>4 DEF Starts, Has, Outs, Seekers, Asked, I!Asks
<1>10. ASSUME NEW srt \in {"status"}, NEW h, h = <<"verify", "publish">>
       PROVE  Starts("messenger", srt, h)
  <2>1. h \in Seq(Stages) /\ Len(h) = 2 /\ h[1] = "verify" /\ h[2] = "publish"
    BY <1>10 DEF Stages, Outs, Seekers
  <2>2. Shape("messenger", srt, h)
    BY <2>1 DEF Shape, Outs, Seekers, Asked, I!Asks
  <2>3. h # <<>> /\ Head(h) = h[1]
    <3>1. h # <<>>
      BY <1>10
    <3> QED
      BY <2>1, <3>1
  <2>4. 2 \in 1 .. Len(h)
    BY <2>1
  <2> QED
    BY <2>1, <2>2, <2>3, <2>4 DEF Starts, Has, Outs, Seekers, Asked, I!Asks
<1>11. ASSUME NEW srt \in Asked, NEW h, h = <<"own", "address", "command", "resolve", "publish">>
       PROVE  Starts("slack", srt, h)
  <2>1. h \in Seq(Stages) /\ Len(h) = 5 /\ h[1] = "own" /\ h[2] = "address" /\ h[3] = "command" /\ h[4] = "resolve" /\ h[5] = "publish"
    BY <1>11 DEF Stages, Outs, Seekers
  <2>2. Shape("slack", srt, h)
    BY <2>1 DEF Shape, Outs, Seekers, Asked, I!Asks
  <2>3. h # <<>> /\ Head(h) = h[1]
    <3>1. h # <<>>
      BY <1>11
    <3> QED
      BY <2>1, <3>1
  <2>4. 4 \in 1 .. Len(h) /\ 5 \in 1 .. Len(h)
    BY <2>1
  <2> QED
    BY <2>1, <2>2, <2>3, <2>4 DEF Starts, Has, Outs, Seekers, Asked, I!Asks
<1>12. ASSUME NEW srt \in Asked, NEW h, h = <<"wait", "own", "address", "command", "resolve", "publish">>
       PROVE  Starts("slack", srt, h)
  <2>1. h \in Seq(Stages) /\ Len(h) = 6 /\ h[1] = "wait" /\ h[2] = "own" /\ h[3] = "address" /\ h[4] = "command" /\ h[5] = "resolve" /\ h[6] = "publish"
    BY <1>12 DEF Stages, Outs, Seekers
  <2>2. Shape("slack", srt, h)
    BY <2>1 DEF Shape, Outs, Seekers, Asked, I!Asks
  <2>3. h # <<>> /\ Head(h) = h[1]
    <3>1. h # <<>>
      BY <1>12
    <3> QED
      BY <2>1, <3>1
  <2>4. 5 \in 1 .. Len(h) /\ 6 \in 1 .. Len(h)
    BY <2>1
  <2> QED
    BY <2>1, <2>2, <2>3, <2>4 DEF Starts, Has, Outs, Seekers, Asked, I!Asks
<1>13. ASSUME NEW srt \in {"press"}, NEW h, h = <<"identify", "publish">>
       PROVE  Starts("slack", srt, h)
  <2>1. h \in Seq(Stages) /\ Len(h) = 2 /\ h[1] = "identify" /\ h[2] = "publish"
    BY <1>13 DEF Stages, Outs, Seekers
  <2>2. Shape("slack", srt, h)
    BY <2>1 DEF Shape, Outs, Seekers, Asked, I!Asks
  <2>3. h # <<>> /\ Head(h) = h[1]
    <3>1. h # <<>>
      BY <1>13
    <3> QED
      BY <2>1, <3>1
  <2>4. 1 \in 1 .. Len(h) /\ 2 \in 1 .. Len(h)
    BY <2>1
  <2> QED
    BY <2>1, <2>2, <2>3, <2>4 DEF Starts, Has, Outs, Seekers, Asked, I!Asks
<1>14. ASSUME NEW srt \in {"press"}, NEW h, h = <<"wait", "identify", "publish">>
       PROVE  Starts("slack", srt, h)
  <2>1. h \in Seq(Stages) /\ Len(h) = 3 /\ h[1] = "wait" /\ h[2] = "identify" /\ h[3] = "publish"
    BY <1>14 DEF Stages, Outs, Seekers
  <2>2. Shape("slack", srt, h)
    BY <2>1 DEF Shape, Outs, Seekers, Asked, I!Asks
  <2>3. h # <<>> /\ Head(h) = h[1]
    <3>1. h # <<>>
      BY <1>14
    <3> QED
      BY <2>1, <3>1
  <2>4. 2 \in 1 .. Len(h) /\ 3 \in 1 .. Len(h)
    BY <2>1
  <2> QED
    BY <2>1, <2>2, <2>3, <2>4 DEF Starts, Has, Outs, Seekers, Asked, I!Asks
<1>15. ASSUME NEW srt \in Asked, NEW h, h = <<"verify", "address", "command", "resolve", "publish">>
       PROVE  Starts("teams", srt, h)
  <2>1. h \in Seq(Stages) /\ Len(h) = 5 /\ h[1] = "verify" /\ h[2] = "address" /\ h[3] = "command" /\ h[4] = "resolve" /\ h[5] = "publish"
    BY <1>15 DEF Stages, Outs, Seekers
  <2>2. Shape("teams", srt, h)
    BY <2>1 DEF Shape, Outs, Seekers, Asked, I!Asks
  <2>3. h # <<>> /\ Head(h) = h[1]
    <3>1. h # <<>>
      BY <1>15
    <3> QED
      BY <2>1, <3>1
  <2>4. 4 \in 1 .. Len(h) /\ 5 \in 1 .. Len(h)
    BY <2>1
  <2> QED
    BY <2>1, <2>2, <2>3, <2>4 DEF Starts, Has, Outs, Seekers, Asked, I!Asks
<1>16. ASSUME NEW srt \in {"press", "reaction"}, NEW h, h = <<"verify", "identify", "publish">>
       PROVE  Starts("teams", srt, h)
  <2>1. h \in Seq(Stages) /\ Len(h) = 3 /\ h[1] = "verify" /\ h[2] = "identify" /\ h[3] = "publish"
    BY <1>16 DEF Stages, Outs, Seekers
  <2>2. Shape("teams", srt, h)
    BY <2>1 DEF Shape, Outs, Seekers, Asked, I!Asks
  <2>3. h # <<>> /\ Head(h) = h[1]
    <3>1. h # <<>>
      BY <1>16
    <3> QED
      BY <2>1, <3>1
  <2>4. 2 \in 1 .. Len(h) /\ 3 \in 1 .. Len(h)
    BY <2>1
  <2> QED
    BY <2>1, <2>2, <2>3, <2>4 DEF Starts, Has, Outs, Seekers, Asked, I!Asks
<1>17. ASSUME NEW srt \in Asked, NEW h, h = <<"own", "address", "command", "load", "resolve", "publish", "wait">>
       PROVE  Starts("signal", srt, h)
  <2>1. h \in Seq(Stages) /\ Len(h) = 7 /\ h[1] = "own" /\ h[2] = "address" /\ h[3] = "command" /\ h[4] = "load" /\ h[5] = "resolve" /\ h[6] = "publish" /\ h[7] = "wait"
    BY <1>17 DEF Stages, Outs, Seekers
  <2>2. Shape("signal", srt, h)
    BY <2>1 DEF Shape, Outs, Seekers, Asked, I!Asks
  <2>3. h # <<>> /\ Head(h) = h[1]
    <3>1. h # <<>>
      BY <1>17
    <3> QED
      BY <2>1, <3>1
  <2>4. 5 \in 1 .. Len(h) /\ 6 \in 1 .. Len(h)
    BY <2>1
  <2> QED
    BY <2>1, <2>2, <2>3, <2>4 DEF Starts, Has, Outs, Seekers, Asked, I!Asks
<1>18. ASSUME NEW srt \in {"status"}, NEW h, h = <<"own", "publish">>
       PROVE  Starts("signal", srt, h)
  <2>1. h \in Seq(Stages) /\ Len(h) = 2 /\ h[1] = "own" /\ h[2] = "publish"
    BY <1>18 DEF Stages, Outs, Seekers
  <2>2. Shape("signal", srt, h)
    BY <2>1 DEF Shape, Outs, Seekers, Asked, I!Asks
  <2>3. h # <<>> /\ Head(h) = h[1]
    <3>1. h # <<>>
      BY <1>18
    <3> QED
      BY <2>1, <3>1
  <2>4. 2 \in 1 .. Len(h)
    BY <2>1
  <2> QED
    BY <2>1, <2>2, <2>3, <2>4 DEF Starts, Has, Outs, Seekers, Asked, I!Asks
<1> QED
  BY <1>1, <1>2, <1>3, <1>4, <1>5, <1>6, <1>7, <1>8, <1>9, <1>10, <1>11, <1>12, <1>13, <1>14, <1>15, <1>16, <1>17, <1>18

LEMMA ServicesAre ==
  ASSUME NEW svc \in DOMAIN I!Handler
  PROVE  svc \in {"telegram", "discord", "whatsapp", "messenger", "slack", "teams", "signal"}
BY DEF I!Handler

(* What a message is met by.                                               *)
Opening(srt) == I!Handler[service][I!Kind(srt)]

LEMMA MessagesStart ==
  ASSUME service \in DOMAIN I!Handler, oneByOne \in BOOLEAN, NEW srt \in Asked
  PROVE  /\ Opening(srt) = I!Handler[service].message
         /\ Starts(service, srt, Opening(srt))
<1>1. I!Kind(srt) = "message"
  BY DEF I!Kind, Asked
<1>2. service \in {"telegram", "discord", "whatsapp", "messenger", "slack", "teams", "signal"}
  BY ServicesAre
<1>3. Opening(srt) = I!Handler[service].message
  BY <1>1 DEF Opening
<1>4. CASE service = "telegram"
  <2>1. I!Handler["telegram"].message = I!TelegramMessage
    BY DEF I!Handler
  <2>2. Starts("telegram", srt, I!TelegramMessage)
    BY HandlersStart, HandlersAre
  <2> QED
    BY <1>3, <1>4, <2>1, <2>2
<1>5. CASE service = "discord"
  <2>1. I!Handler["discord"].message = I!DiscordMessage
    BY DEF I!Handler
  <2>2. Starts("discord", srt, I!DiscordMessage)
    BY HandlersStart, HandlersAre
  <2> QED
    BY <1>3, <1>5, <2>1, <2>2
<1>6. CASE service = "whatsapp"
  <2>1. I!Handler["whatsapp"].message = I!WhatsAppMessage
    BY DEF I!Handler
  <2>2. Starts("whatsapp", srt, I!WhatsAppMessage)
    BY HandlersStart, HandlersAre
  <2> QED
    BY <1>3, <1>6, <2>1, <2>2
<1>7. CASE service = "messenger"
  <2>1. I!Handler["messenger"].message = I!MessengerMessage
    BY DEF I!Handler
  <2>2. Starts("messenger", srt, I!MessengerMessage)
    BY HandlersStart, HandlersAre
  <2> QED
    BY <1>3, <1>7, <2>1, <2>2
<1>8. CASE service = "teams"
  <2>1. I!Handler["teams"].message = I!TeamsMessage
    BY DEF I!Handler
  <2>2. Starts("teams", srt, I!TeamsMessage)
    BY HandlersStart DEF I!TeamsMessage
  <2> QED
    BY <1>3, <1>8, <2>1, <2>2
<1>9. CASE service = "signal"
  <2>1. I!Handler["signal"].message = I!SignalMessage
    BY DEF I!Handler
  <2>2. Starts("signal", srt, I!SignalMessage)
    BY HandlersStart DEF I!SignalMessage
  <2> QED
    BY <1>3, <1>9, <2>1, <2>2
<1>10. CASE service = "slack"
  <2>1. I!Handler["slack"].message = I!SlackEnvelope(I!SlackMessage)
    BY DEF I!Handler
  <2>2. Starts("slack", srt, I!SlackMessage) /\ Starts("slack", srt, <<"wait">> \o I!SlackMessage)
    <3>1. Starts("slack", srt, I!SlackMessage)
      BY HandlersStart DEF I!SlackMessage
    <3>2. Starts("slack", srt, <<"wait">> \o I!SlackMessage)
      BY HandlersStart, HandlersAre
    <3> QED
      BY <3>1, <3>2
  <2>3. Starts("slack", srt, I!SlackEnvelope(I!SlackMessage))
    BY <2>2 DEF I!SlackEnvelope
  <2> QED
    BY <1>3, <1>10, <2>1, <2>3
<1> QED
  BY <1>2, <1>3, <1>4, <1>5, <1>6, <1>7, <1>8, <1>9, <1>10

LEMMA OthersStart ==
  ASSUME service \in DOMAIN I!Handler, oneByOne \in BOOLEAN,
         NEW srt \in DOMAIN I!Handler[service] \ {"message"}
  PROVE  srt \in {"press", "reaction", "status"} /\ Starts(service, srt, Opening(srt))
<1>1. service \in {"telegram", "discord", "whatsapp", "messenger", "slack", "teams", "signal"}
  BY ServicesAre
<1>2. srt \in {"press", "reaction", "status"}
  BY <1>1 DEF I!Handler
<1>3. I!Kind(srt) = srt
  BY <1>2 DEF I!Kind, I!Asks
<1>4. CASE service \in {"telegram", "discord"}
  <2>1. srt = "press"
    BY <1>4 DEF I!Handler
  <2>2. CASE service = "telegram"
    <3>1. Opening(srt) = <<"wait", "resolve", "emit">>
      BY <1>3, <2>1, <2>2 DEF Opening, I!Handler, I!TelegramPress
    <3> QED
      BY <2>1, <2>2, <3>1, HandlersStart
  <2>3. CASE service = "discord"
    <3>1. Opening(srt) = <<"resolve", "defer", "emit">>
      BY <1>3, <2>1, <2>3 DEF Opening, I!Handler, I!DiscordPress
    <3> QED
      BY <2>1, <2>3, <3>1, HandlersStart
  <2> QED
    BY <1>4, <2>2, <2>3
<1>5. CASE service = "whatsapp"
  BY <1>2, <1>3, <1>5, HandlersStart DEF Opening, I!Handler, I!WhatsAppPress, I!WhatsAppReaction, I!WhatsAppStatus
<1>6. CASE service = "messenger"
  <2>1. srt \in {"press", "status"}
    BY <1>6 DEF I!Handler
  <2> QED
    BY <1>3, <1>6, <2>1, HandlersStart DEF Opening, I!Handler, I!MessengerPress, I!MessengerReceipt
<1>7. CASE service = "slack"
  <2>1. srt = "press"
    BY <1>7 DEF I!Handler
  <2> QED
    <3>1. I!Handler["slack"]["press"] = I!SlackEnvelope(I!SlackPress)
      BY DEF I!Handler
    <3>2. Starts("slack", srt, I!SlackPress)
      BY <2>1, HandlersStart DEF I!SlackPress
    <3>3. Starts("slack", srt, <<"wait">> \o I!SlackPress)
      BY <2>1, HandlersStart, HandlersAre
    <3>4. Starts("slack", srt, I!SlackEnvelope(I!SlackPress))
      BY <3>2, <3>3 DEF I!SlackEnvelope
    <3> QED
      BY <1>3, <1>7, <2>1, <3>1, <3>4 DEF Opening
<1>8. CASE service = "teams"
  <2>1. srt \in {"press", "reaction"}
    BY <1>8 DEF I!Handler
  <2> QED
    BY <1>3, <1>8, <2>1, HandlersStart DEF Opening, I!Handler, I!TeamsInvoke, I!TeamsReaction
<1>9. CASE service = "signal"
  <2>1. srt = "status"
    BY <1>9 DEF I!Handler
  <2> QED
    BY <1>3, <1>9, <2>1, HandlersStart DEF Opening, I!Handler, I!SignalReceipt
<1> QED
  BY <1>1, <1>2, <1>4, <1>5, <1>6, <1>7, <1>8, <1>9

LEMMA Opens ==
  ASSUME service \in DOMAIN I!Handler, oneByOne \in BOOLEAN, NEW srt \in I!Sorts(service)
  PROVE  /\ Starts(service, srt, Opening(srt))
         /\ srt \in Filtered => Has(Opening(srt), {Filter[srt]})
<1>1. CASE srt \in Asked
  <2>1. /\ Starts(service, srt, Opening(srt)) /\ Opening(srt) = I!Handler[service].message
        /\ Opening(srt) \in Seq(Stages)
    BY <1>1, MessagesStart DEF Starts, Shape
  <2>2. ASSUME srt \in Filtered PROVE Has(Opening(srt), {Filter[srt]})
    <3>1. srt \in {"own", "aside", "command", "unsigned"}
      BY <2>2 DEF Filtered
    <3>2. I!Asks[srt] \in I!Range(I!Handler[service].message)
      <4>1. srt \notin DOMAIN I!Handler[service] \ {"message"}
        BY <3>1, OthersStart
      <4> QED
        BY <3>1, <4>1, Zenon DEF I!Sorts
    <3>3. I!Asks[srt] = Filter[srt]
      BY <3>1 DEF I!Asks, Filter
    <3> QED
      BY <2>1, <3>2, <3>3 DEF Has, I!Range
  <2> QED
    BY <2>1, <2>2
<1>2. CASE srt \notin Asked
  <2>1. srt \in DOMAIN I!Handler[service] \ {"message"}
    BY <1>2 DEF I!Sorts, Asked, I!Asks
  <2>2. srt \notin Filtered
    BY <2>1, OthersStart DEF Filtered
  <2> QED
    BY <2>1, <2>2, OthersStart
<1> QED
  BY <1>1, <1>2


(* What is left when the first stage is over.                              *)
Drops(svc, srt, r, h, u) ==
  /\ Shape(svc, srt, u) /\ h \in Stages
  /\ \A S : Has(r, S) <=> h \in S \/ Has(u, S)
  /\ h # "wait" => Has(r, Outs)
  /\ h \in Outs => /\ h = (IF svc \in {"telegram", "discord"} THEN "emit" ELSE "publish")
                   /\ \A S : Has(u, S) => "wait" \in S
  /\ h = "verify" => svc \in {"whatsapp", "messenger", "teams"}
  /\ h = "lookup" => svc = "messenger" /\ srt = "press"
  /\ h \in {"identify", "defer", "lookup"} => srt \notin {"text", "file"}
  /\ h = "locate" => u # <<>> /\ Head(u) = "fetch"
  /\ u # <<>> /\ Head(u) = "publish" /\ srt # "status" => h \in Seekers
  /\ Len(r) = 1 <=> u = <<>>

LEMMA Dropping ==
  ASSUME NEW svc, NEW srt, NEW r, NEW h, NEW q, Shape(svc, srt, r), r # <<>>, h = Head(r), q = Tail(r)
  PROVE  Drops(svc, srt, r, h, q)
<1>2. /\ r \in Seq(Stages) /\ q \in Seq(Stages) /\ Len(r) \in Nat /\ Len(r) > 0 /\ Len(q) = Len(r) - 1
      /\ h = r[1]
      /\ \A i \in 1 .. Len(q) : q[i] = r[i + 1] /\ i + 1 \in 1 .. Len(r)
  BY TailStep DEF Shape
<1>3. 1 \in 1 .. Len(r) /\ \A i \in 1 .. Len(r) : i = 1 \/ (i - 1 \in 1 .. Len(q) /\ r[i] = q[i - 1] /\ (i - 1) + 1 = i)
  BY <1>2
<1>4. Shape(svc, srt, q)
  <2> SUFFICES ASSUME NEW i \in 1 .. Len(q)
               PROVE  /\ q[i] \in Outs => /\ q[i] = (IF svc \in {"telegram", "discord"} THEN "emit" ELSE "publish")
                                          /\ \A j \in 1 .. Len(q) : j > i => q[j] = "wait"
                      /\ q[i] # "wait" => \E j \in 1 .. Len(q) : j >= i /\ q[j] \in Outs
                      /\ q[i] = "verify" => svc \in {"whatsapp", "messenger", "teams"}
                      /\ q[i] = "lookup" => svc = "messenger" /\ srt = "press"
                      /\ q[i] \in {"identify", "defer", "lookup"} => srt \notin {"text", "file"}
                      /\ q[i] = "locate" => i < Len(q) /\ q[i + 1] = "fetch"
                      /\ i > 1 /\ q[i] = "publish" /\ srt # "status" => q[i - 1] \in Seekers
    BY <1>2 DEF Shape
  <2>1. PICK x \in 1 .. Len(r) : x = i + 1 /\ q[i] = r[x]
    BY <1>2
  <2>2. /\ r[x] \in Outs => /\ r[x] = (IF svc \in {"telegram", "discord"} THEN "emit" ELSE "publish")
                            /\ \A j \in 1 .. Len(r) : j > x => r[j] = "wait"
        /\ r[x] # "wait" => \E j \in 1 .. Len(r) : j >= x /\ r[j] \in Outs
        /\ r[x] = "verify" => svc \in {"whatsapp", "messenger", "teams"}
        /\ r[x] = "lookup" => svc = "messenger" /\ srt = "press"
        /\ r[x] \in {"identify", "defer", "lookup"} => srt \notin {"text", "file"}
        /\ r[x] = "locate" => x < Len(r) /\ r[x + 1] = "fetch"
        /\ x > 1 /\ r[x] = "publish" /\ srt # "status" => r[x - 1] \in Seekers
    BY DEF Shape
  <2>3. q[i] \in Outs => \A j \in 1 .. Len(q) : j > i => q[j] = "wait"
    BY <1>2, <2>1, <2>2
  <2>4. q[i] # "wait" => \E j \in 1 .. Len(q) : j >= i /\ q[j] \in Outs
    <3> SUFFICES ASSUME q[i] # "wait" PROVE \E j \in 1 .. Len(q) : j >= i /\ q[j] \in Outs
      OBVIOUS
    <3>1. PICK j \in 1 .. Len(r) : j >= x /\ r[j] \in Outs
      BY <2>1, <2>2
    <3>2. j - 1 \in 1 .. Len(q) /\ j - 1 >= i /\ r[j] = q[j - 1]
      BY <1>2, <1>3, <2>1, <3>1
    <3> QED
      BY <3>1, <3>2
  <2>5. q[i] = "locate" => i < Len(q) /\ q[i + 1] = "fetch"
    BY <1>2, <2>1, <2>2
  <2>6. i > 1 /\ q[i] = "publish" /\ srt # "status" => q[i - 1] \in Seekers
    BY <1>2, <2>1, <2>2
  <2> QED
    BY <2>1, <2>2, <2>3, <2>4, <2>5, <2>6
<1>5. ASSUME NEW S PROVE Has(r, S) <=> r[1] \in S \/ Has(q, S)
  <2>1. Has(q, S) => Has(r, S)
    BY <1>2 DEF Has
  <2>2. Has(r, S) => r[1] \in S \/ Has(q, S)
    BY <1>3 DEF Has
  <2>3. r[1] \in S => Has(r, S)
    BY <1>3 DEF Has
  <2> QED
    BY <2>1, <2>2, <2>3
<1>6. /\ r[1] \in Stages
      /\ r[1] \in Outs => /\ r[1] = (IF svc \in {"telegram", "discord"} THEN "emit" ELSE "publish")
                          /\ \A j \in 1 .. Len(r) : j > 1 => r[j] = "wait"
      /\ r[1] # "wait" => \E j \in 1 .. Len(r) : r[j] \in Outs
      /\ r[1] = "verify" => svc \in {"whatsapp", "messenger", "teams"}
      /\ r[1] = "lookup" => svc = "messenger" /\ srt = "press"
      /\ r[1] \in {"identify", "defer", "lookup"} => srt \notin {"text", "file"}
      /\ r[1] = "locate" => 1 < Len(r) /\ r[2] = "fetch"
      /\ 2 \in 1 .. Len(r) /\ r[2] = "publish" /\ srt # "status" => r[1] \in Seekers
  <2>1. r[1] \in Stages
    BY <1>2, <1>3
  <2>2. 2 \in 1 .. Len(r) => 2 > 1 /\ 2 - 1 = 1
    OBVIOUS
  <2> QED
    BY <1>3, <2>1, <2>2 DEF Shape
<1>7. r[1] # "wait" => Has(r, Outs)
  BY <1>6 DEF Has
<1>8. r[1] \in Outs => \A S : Has(q, S) => "wait" \in S
  BY <1>2, <1>6 DEF Has
<1>9. (Len(r) = 1 <=> q = <<>>) /\ (q # <<>> => Head(q) = r[2] /\ 2 \in 1 .. Len(r)) /\ (1 < Len(r) => q # <<>>)
  <2>1. q = <<>> <=> Len(q) = 0
    BY <1>2
  <2>2. q # <<>> => 1 \in 1 .. Len(q) /\ Head(q) = q[1] /\ 1 + 1 = 2
    BY <1>2, <2>1
  <2> QED
    BY <1>2, <2>1, <2>2
<1> QED
  BY <1>2, <1>4, <1>5, <1>6, <1>7, <1>8, <1>9 DEF Drops


(* A step of the handler of t, which has r to go through afterwards.       *)
Changes(t, r) ==
  /\ t \in I!Tasks /\ todo[t] # <<>> /\ holder \in {Idle, t} /\ I!Still
  /\ r \in Seq(Stages) /\ todo' = [todo EXCEPT ![t] = r] /\ holder' \in {Idle, t}
  /\ account' \in [I!Tasks -> Accounts \cup {NoOne}] /\ got' \in [I!Tasks -> 0 .. 1]
  /\ \A u \in I!Tasks \ {t} : account'[u] = account[u]
  /\ \A u \in I!Tasks \ {t} : (u \in prompted' <=> u \in prompted) /\ (u \in rejected' <=> u \in rejected)
  /\ deferred \subseteq deferred'

LEMMA OrderPlaces ==
  ASSUME BaseInv
  PROVE  /\ Arrived \subseteq I!Tasks /\ Arrived = {order[i] : i \in DOMAIN order}
         /\ \A u \in I!Tasks : u # Idle /\ u[1] \in I!Msgs /\ u[2] \in {1, 2} /\ u = <<u[1], u[2]>>
         /\ \A i \in DOMAIN order : order[i] \in Arrived /\ order[i] \in I!Tasks
<1>1. order \in Seq(I!Tasks)
  BY DEF BaseInv
<1>2. Arrived = {order[i] : i \in DOMAIN order}
  BY DEF Arrived, I!Range
<1>3. \A i \in DOMAIN order : order[i] \in I!Tasks
  BY <1>1
<1>4. \A u \in I!Tasks : u # Idle
  BY IdleApart, Zenon
<1>5. \A u \in I!Tasks : u[1] \in I!Msgs /\ u[2] \in {1, 2} /\ u = <<u[1], u[2]>>
  BY DEF I!Tasks
<1> QED
  BY <1>2, <1>3, <1>4, <1>5

LEMMA Steady ==
  ASSUME InboundInv, NEW t, NEW r, Changes(t, r)
  PROVE  /\ t \in Arrived /\ todo'[t] = r /\ Arrived' = Arrived
         /\ \A u \in I!Tasks \ {t} : todo'[u] = todo[u]
         /\ \A u, w : Earlier(u, w)' <=> Earlier(u, w)
         /\ \A u : I!Of(u)' = I!Of(u)
         /\ service' = service /\ oneByOne' = oneByOne /\ order' = order /\ linked' = linked /\ since' = since
<1>1. /\ service' = service /\ sort' = sort /\ oneByOne' = oneByOne /\ order' = order
      /\ linked' = linked /\ since' = since
  BY DEF Changes, I!Still, I!context
<1>2. t \in I!Tasks /\ todo[t] # <<>> /\ todo \in [I!Tasks -> Seq(Stages)] /\ todo' = [todo EXCEPT ![t] = r]
  BY DEF Changes, InboundInv, BaseInv
<1>3. t \in Arrived
  BY <1>2 DEF InboundInv, TasksInv
<1>4. todo'[t] = r /\ \A u \in I!Tasks \ {t} : todo'[u] = todo[u]
  BY <1>2
<1>5. Arrived' = Arrived
  BY <1>1 DEF Arrived, I!Range
<1>6. \A u, w : Earlier(u, w)' <=> Earlier(u, w)
  BY <1>1 DEF Earlier
<1>7. \A u : I!Of(u)' = I!Of(u)
  BY <1>1 DEF I!Of
<1> QED
  BY <1>1, <1>3, <1>4, <1>5, <1>6, <1>7

LEMMA BaseKept ==
  ASSUME InboundInv, NEW t, NEW r, Changes(t, r), emitted' \in Seq(Records), offered' \in Seq(Records)
  PROVE  BaseInv'
<1>1. BaseInv /\ Changes(t, r)
  BY DEF InboundInv
<1>2. /\ service' = service /\ sort' = sort /\ oneByOne' = oneByOne /\ order' = order
      /\ linked' = linked /\ since' = since
  BY <1>1 DEF Changes, I!Still, I!context
<1>3. todo' \in [I!Tasks -> Seq(Stages)]
  BY <1>1 DEF Changes, BaseInv
<1>4. /\ oneByOne' \in BOOLEAN /\ service' \in DOMAIN I!Handler' /\ sort' \in [I!Msgs -> I!Sorts(service)']
  <2>1. I!Handler' = I!Handler
    BY <1>2 DEF I!Handler, I!SlackEnvelope
  <2>2. I!Sorts(service)' = I!Sorts(service)
    BY <1>2, <2>1 DEF I!Sorts
  <2> QED
    BY <1>1, <1>2, <2>1, <2>2 DEF BaseInv
<1>5. \A i, j \in DOMAIN order' : order'[i] = order'[j] => i = j
  BY <1>1, <1>2 DEF BaseInv
<1>6. \E n \in Nat : {order'[i][1] : i \in DOMAIN order'} = 1 .. n
  <2>1. PICK n \in Nat : {order[i][1] : i \in DOMAIN order} = 1 .. n
    BY <1>1, Zenon DEF BaseInv
  <2>2. {order'[i][1] : i \in DOMAIN order'} = 1 .. n
    BY <1>2, <2>1
  <2> QED
    BY <2>2
<1>7. order' \in Seq(I!Tasks) /\ linked' \in Accounts \cup {NoOne} /\ since' \in [I!Tasks -> SUBSET (Accounts \cup {NoOne})]
  BY <1>1, <1>2 DEF BaseInv
<1>8. account' \in [I!Tasks -> Accounts \cup {NoOne}] /\ got' \in [I!Tasks -> 0 .. 1]
  BY <1>1 DEF Changes
<1> QED
  BY <1>3, <1>4, <1>5, <1>6, <1>7, <1>8, Zenon DEF BaseInv

LEMMA TasksKept ==
  ASSUME InboundInv, NEW t, NEW r, Changes(t, r), TaskInv(t)', Spoke \subseteq Spoke', Spoke' \subseteq Spoke \cup {t}
  PROVE  TasksInv'
<1>1. /\ t \in Arrived /\ todo'[t] = r /\ Arrived' = Arrived
      /\ \A u \in I!Tasks \ {t} : todo'[u] = todo[u]
      /\ \A u : I!Of(u)' = I!Of(u)
      /\ service' = service /\ linked' = linked /\ since' = since
  BY Steady
<1>2. BaseInv /\ Arrived \subseteq I!Tasks /\ \A u \in I!Tasks : u # Idle
  BY OrderPlaces DEF InboundInv
<1>3. ASSUME NEW u \in I!Tasks \ {t}
      PROVE  /\ todo'[u] = todo[u] /\ account'[u] = account[u] /\ (u \in Spoke' <=> u \in Spoke)
             /\ (u \in prompted' <=> u \in prompted) /\ (u \in rejected' <=> u \in rejected)
             /\ (Unspent(u)' <=> Unspent(u)) /\ holder # u
  BY <1>1, <1>2 DEF Changes, Unspent
<1>4. ASSUME NEW u \in Arrived, u # t
      PROVE  TaskInv(u)'
  <2>1. u \in I!Tasks \ {t} /\ TaskInv(u)
    BY <1>2, <1>4 DEF InboundInv, TasksInv
  <2>2. /\ todo'[u] = todo[u] /\ account'[u] = account[u] /\ (u \in Spoke' <=> u \in Spoke)
        /\ (u \in prompted' <=> u \in prompted) /\ (u \in rejected' <=> u \in rejected)
        /\ (Unspent(u)' <=> Unspent(u)) /\ holder # u /\ I!Of(u)' = I!Of(u)
    BY <1>1, <1>3, <2>1
  <2> QED
    BY <1>1, <2>1, <2>2, Zenon DEF TaskInv
<1>5. ASSUME NEW u \in I!Tasks \ Arrived
      PROVE  todo'[u] = <<>> /\ Unspent(u)'
  <2>1. u \in I!Tasks \ {t} /\ todo[u] = <<>> /\ Unspent(u)
    BY <1>1 DEF InboundInv, TasksInv
  <2> QED
    BY <1>3, <2>1
<1> QED
  BY <1>1, <1>4, <1>5 DEF TasksInv


LEMMA PairKept ==
  ASSUME InboundInv, NEW t, NEW r, Changes(t, r), Spoke \subseteq Spoke', Spoke' \subseteq Spoke \cup {t},
         service = "discord" /\ Passed(t)' => Passed(t) \/ (t[1] \notin deferred /\ t[1] \in deferred')
  PROVE  PairInv'
<1>1. /\ t \in Arrived /\ Arrived' = Arrived /\ \A u \in I!Tasks \ {t} : todo'[u] = todo[u]
      /\ \A u : I!Of(u)' = I!Of(u)
      /\ service' = service
  BY Steady
<1>2. BaseInv /\ Arrived \subseteq I!Tasks /\ deferred \subseteq deferred'
  BY OrderPlaces DEF InboundInv, Changes
<1>3. ASSUME NEW u \in Arrived, u # t PROVE Passed(u)' <=> Passed(u)
  <2>1. todo'[u] = todo[u] /\ (u \in Spoke' <=> u \in Spoke)
    BY <1>1, <1>2, <1>3
  <2> QED
    BY <2>1 DEF Passed
<1>4. ASSUME NEW u \in Arrived, u[2] = 2 PROVE service = "discord" /\ I!Of(u) = "press"
  BY <1>4 DEF InboundInv, PairInv
<1>5. ASSUME service = "discord", NEW x \in Arrived, NEW u \in Arrived, I!Of(x) = "press", Passed(x)'
      PROVE  x[1] \in deferred' /\ (x[1] = u[1] /\ Passed(u)' => x = u)
  <2>1. ASSUME NEW y \in Arrived, I!Of(y) = "press", Passed(y)
        PROVE  y[1] \in deferred /\ \A w \in Arrived : y[1] = w[1] /\ Passed(w) => y = w
    BY <1>5, <2>1 DEF InboundInv, PairInv
  <2>2. CASE x # t
    <3>1. Passed(x)
      BY <1>3, <1>5, <2>2
    <3>2. x[1] \in deferred /\ \A w \in Arrived : x[1] = w[1] /\ Passed(w) => x = w
      BY <1>5, <2>1, <3>1
    <3>3. ASSUME u = t, x[1] = u[1], Passed(u)' PROVE x = u
      <4>1. Passed(t)
        BY <1>5, <3>2, <3>3
      <4> QED
        BY <3>2, <3>3, <4>1
    <3>4. ASSUME u # t, x[1] = u[1], Passed(u)' PROVE x = u
      BY <1>3, <3>2, <3>4
    <3> QED
      BY <1>2, <3>2, <3>3, <3>4
  <2>3. CASE x = t
    <3>1. CASE Passed(t)
      <4>1. t[1] \in deferred /\ \A w \in Arrived : t[1] = w[1] /\ Passed(w) => t = w
        BY <1>5, <2>1, <2>3, <3>1
      <4> QED
        BY <1>2, <1>3, <2>3, <4>1
    <3>2. CASE ~Passed(t)
      <4>1. t[1] \notin deferred /\ t[1] \in deferred'
        BY <1>5, <2>3, <3>2
      <4>2. ASSUME u # t, x[1] = u[1], Passed(u)' PROVE FALSE
        <5>1. Passed(u) /\ I!Of(u) = "press"
          BY <1>3, <1>5, <4>2 DEF I!Of
        <5> QED
          BY <2>1, <2>3, <4>1, <4>2, <5>1
      <4> QED
        BY <2>3, <4>1, <4>2
    <3> QED
      BY <3>1, <3>2
  <2> QED
    BY <2>2, <2>3
<1> QED
  BY <1>1, <1>4, <1>5 DEF PairInv

(* Steps that send nothing.                                                *)
LEMMA SilentKept ==
  ASSUME InboundInv, NEW t, NEW r, Changes(t, r), I!Quiet, TaskInv(t)',
         service = "discord" /\ Passed(t)' => Passed(t) \/ (t[1] \notin deferred /\ t[1] \in deferred')
  PROVE  InboundInv'
<1>1. emitted' = emitted /\ offered' = offered /\ BaseInv
  BY DEF I!Quiet, InboundInv
<1>2. I!Events' = I!Events
  BY <1>1 DEF I!Events
<1>3. Spoke' = Spoke
  BY <1>2 DEF Spoke
<1>4. BaseInv'
  BY <1>1, BaseKept DEF BaseInv
<1>5. TasksInv'
  BY <1>3, TasksKept
<1>6. PairInv'
  BY <1>3, PairKept
<1>7. /\ t \in Arrived /\ todo'[t] = r /\ Arrived' = Arrived
      /\ \A u \in I!Tasks \ {t} : todo'[u] = todo[u]
      /\ \A u, w : Earlier(u, w)' <=> Earlier(u, w)
      /\ \A u : I!Of(u)' = I!Of(u)
      /\ service' = service /\ oneByOne' = oneByOne /\ since' = since /\ order' = order
  BY Steady
<1>8. EventsInv'
  <2>1. ASSUME NEW e PROVE Due(e)' <=> Due(e)
    BY <1>7 DEF Due
  <2>2. \A i \in DOMAIN I!Events : Due(I!Events[i])
    BY DEF InboundInv, EventsInv
  <2>3. \A i \in DOMAIN I!Events' : Due(I!Events[i])'
    BY <1>2, <1>7, <2>2 DEF Due
  <2> QED
    BY <1>1, <1>2, <1>7, <2>3 DEF InboundInv, EventsInv
<1>9. SerialInv'
  <2>1. ASSUME oneByOne, NEW u \in Arrived, NEW w \in Arrived, Earlier(u, w), w \in Spoke
        PROVE  todo'[u] = <<>>
    <3>1. todo[u] = <<>>
      BY <2>1 DEF InboundInv, SerialInv
    <3>2. u \in I!Tasks \ {t}
      BY <1>1, <3>1, OrderPlaces DEF Changes
    <3> QED
      BY <1>7, <3>1, <3>2
  <2>2. oneByOne => \A i, j \in DOMAIN I!Events : i < j => Earlier(I!Events[i].task, I!Events[j].task)
    BY DEF InboundInv, SerialInv
  <2>3. (\A i, j \in DOMAIN I!Events : i < j => Earlier(I!Events[i].task, I!Events[j].task))'
          <=> \A i, j \in DOMAIN I!Events : i < j => Earlier(I!Events[i].task, I!Events[j].task)
    BY <1>2, <1>7 DEF Earlier
  <2> QED
    BY <1>3, <1>7, <2>1, <2>2, <2>3 DEF SerialInv
<1> QED
  BY <1>4, <1>5, <1>6, <1>8, <1>9 DEF InboundInv


(* The event of t is handed to the bus.                                    *)
Speaks(t) ==
  \/ service \in {"telegram", "discord"} /\ emitted' = Append(emitted, I!Event(t)) /\ offered' = offered
  \/ service \notin {"telegram", "discord"} /\ offered' = Append(offered, I!Event(t)) /\ emitted' = emitted
Longer(n, e, u, w) ==
  /\ DOMAIN u = 1 .. n /\ DOMAIN w = 1 .. n + 1
  /\ \A i \in 1 .. n : w[i] = u[i]
  /\ w[n + 1] = e /\ n \in Nat

LEMMA Grows ==
  ASSUME InboundInv, NEW t \in I!Tasks, Speaks(t)
  PROVE  /\ emitted' \in Seq(Records) /\ offered' \in Seq(Records)
         /\ \E n \in Nat : Longer(n, I!Event(t), I!Events, I!Events')
<1>1. emitted \in Seq(Records) /\ offered \in Seq(Records) /\ I!Event(t) \in Records
  BY DEF InboundInv, BaseInv, Records, I!Event
<1>2. PICK e \in Records : e = I!Event(t)
  BY <1>1
<1>3. ASSUME NEW u \in Seq(Records), NEW w, w = Append(u, e)
      PROVE  w \in Seq(Records) /\ Len(u) \in Nat /\ Longer(Len(u), e, u, w)
  BY <1>3 DEF Longer
<1>4. \A u \in Seq(Records) : u \o <<>> = u /\ <<>> \o u = u
  OBVIOUS
<1>5. CASE service \in {"telegram", "discord"}
  <2>1. emitted' = Append(emitted, e) /\ offered' = offered
    BY <1>2, <1>5 DEF Speaks
  <2>2. offered = <<>>
    BY <1>5 DEF InboundInv, EventsInv
  <2>3. emitted' \in Seq(Records) /\ Len(emitted) \in Nat /\ Longer(Len(emitted), e, emitted, emitted')
    BY <1>1, <1>3, <2>1
  <2>4. I!Events = emitted /\ I!Events' = emitted'
    BY <1>1, <1>4, <2>1, <2>2, <2>3 DEF I!Events
  <2> QED
    BY <1>1, <1>2, <2>1, <2>3, <2>4
<1>6. CASE service \notin {"telegram", "discord"}
  <2>1. offered' = Append(offered, e) /\ emitted' = emitted
    BY <1>2, <1>6 DEF Speaks
  <2>2. emitted = <<>>
    BY <1>6 DEF InboundInv, EventsInv
  <2>3. offered' \in Seq(Records) /\ Len(offered) \in Nat /\ Longer(Len(offered), e, offered, offered')
    BY <1>1, <1>3, <2>1
  <2>4. I!Events = offered /\ I!Events' = offered'
    BY <1>1, <1>4, <2>1, <2>2, <2>3 DEF I!Events
  <2> QED
    BY <1>1, <1>2, <2>1, <2>3, <2>4
<1> QED
  BY <1>5, <1>6

LEMMA SpokenKept ==
  ASSUME InboundInv, NEW t, NEW r, Changes(t, r), Speaks(t), TaskInv(t)', Due(I!Event(t)),
         deferred' = deferred, Has(todo[t], Outs), ~Has(todo[t], {"defer"}),
         oneByOne => \A i, j \in DOMAIN order : i < j /\ order[j] = t => todo[order[i]] = <<>>
  PROVE  InboundInv'
<1>1. t \in I!Tasks /\ todo[t] # <<>> /\ BaseInv
  BY DEF Changes, InboundInv
<1>2. PICK e : e = I!Event(t) /\ e.task = t
  BY DEF I!Event
<1>3. emitted' \in Seq(Records) /\ offered' \in Seq(Records)
  BY <1>1, Grows
<1>4. PICK n \in Nat : Longer(n, e, I!Events, I!Events')
  BY <1>1, <1>2, Grows
<1> DEFINE u == I!Events
           w == I!Events'
<1>5. /\ DOMAIN u = 1 .. n /\ DOMAIN w = 1 .. n + 1 /\ \A i \in 1 .. n : w[i] = u[i] /\ i \in 1 .. n + 1
      /\ w[n + 1] = e /\ n + 1 \in 1 .. n + 1 /\ \A i \in 1 .. n + 1 : i \in 1 .. n \/ i = n + 1
      /\ \A i \in 1 .. n : i < n + 1 /\ ~(n + 1 < i)
  BY <1>4 DEF Longer
<1>6. /\ Spoke = {u[i].task : i \in DOMAIN u} /\ Spoke' = {w[i].task : i \in DOMAIN w}
  BY DEF Spoke
<1> HIDE DEF u, w
<1>7. Spoke \subseteq Spoke' /\ Spoke' \subseteq Spoke \cup {t} /\ t \in Spoke'
  <2>1. ASSUME NEW x \in Spoke PROVE x \in Spoke'
    BY <1>5, <1>6
  <2>2. ASSUME NEW x \in Spoke' PROVE x \in Spoke \cup {t}
    BY <1>2, <1>5, <1>6
  <2>3. t \in Spoke'
    BY <1>2, <1>5, <1>6
  <2> QED
    BY <2>1, <2>2, <2>3
<1>8. BaseInv'
  BY <1>3, BaseKept
<1>9. TasksInv'
  BY <1>7, TasksKept
<1>10. Passed(t)
  BY DEF Passed
<1>11. PairInv'
  BY <1>7, <1>10, PairKept
<1>12. /\ t \in Arrived /\ Arrived' = Arrived /\ Arrived \subseteq I!Tasks
       /\ \A x \in I!Tasks \ {t} : todo'[x] = todo[x]
       /\ \A x, y : Earlier(x, y)' <=> Earlier(x, y)
       /\ \A x : I!Of(x)' = I!Of(x)
       /\ service' = service /\ oneByOne' = oneByOne /\ since' = since /\ order' = order
  BY <1>1, Steady, OrderPlaces
<1>13. Unspent(t) /\ t \notin Spoke
  BY <1>12 DEF InboundInv, TasksInv, TaskInv, Unspent
<1>14. \A i \in 1 .. n : Due(u[i]) /\ u[i].task \in Arrived /\ u[i].task \in Spoke
  <2>1. \A i \in 1 .. n : Due(u[i])
    BY <1>5 DEF InboundInv, EventsInv, u
  <2> QED
    BY <1>5, <1>6, <2>1 DEF Due
<1>15. \A i \in 1 .. n : u[i].task[1] # t[1]
  <2> SUFFICES ASSUME NEW i \in 1 .. n, u[i].task[1] = t[1] PROVE FALSE
    OBVIOUS
  <2>1. PICK x \in Arrived : x = u[i].task /\ x \in Spoke /\ x[1] = t[1]
    BY <1>14
  <2>2. x # t
    BY <1>13, <2>1
  <2>3. x[2] = 2 \/ t[2] = 2
    <3>1. x \in I!Tasks /\ t \in I!Tasks
      BY <1>12
    <3>2. x[2] \in {1, 2} /\ t[2] \in {1, 2} /\ x = <<x[1], x[2]>> /\ t = <<t[1], t[2]>>
      BY <1>1, <3>1, OrderPlaces
    <3> QED
      BY <2>1, <2>2, <3>2
  <2>4. service = "discord" /\ I!Of(x) = "press" /\ I!Of(t) = "press"
    BY <1>12, <2>1, <2>3 DEF InboundInv, PairInv, I!Of
  <2>5. Passed(x)
    BY <2>1 DEF Passed
  <2> QED
    BY <1>10, <1>12, <2>1, <2>2, <2>4, <2>5 DEF InboundInv, PairInv
<1>16. EventsInv'
  <2>1. (emitted' # <<>> => service \in {"telegram", "discord"}) /\ (offered' # <<>> => service \notin {"telegram", "discord"})
    BY DEF InboundInv, EventsInv, Speaks
  <2>2. ASSUME NEW i \in 1 .. n + 1 PROVE Due(w[i])
    BY <1>2, <1>5, <1>14, <2>2
  <2>3. \A i \in DOMAIN I!Events' : Due(I!Events[i])'
    BY <1>5, <1>12, <2>2 DEF Due, w
  <2>4. ASSUME NEW i \in 1 .. n + 1, NEW j \in 1 .. n + 1, w[i].task[1] = w[j].task[1] PROVE i = j
    <3>1. \A x, y \in 1 .. n : u[x].task[1] = u[y].task[1] => x = y
      BY <1>5 DEF InboundInv, EventsInv, u
    <3> QED
      BY <1>2, <1>5, <1>15, <2>4, <3>1
  <2>5. \A i, j \in DOMAIN I!Events' : I!Events'[i].task[1] = I!Events'[j].task[1] => i = j
    BY <1>5, <2>4 DEF w
  <2> QED
    BY <1>12, <2>1, <2>3, <2>5 DEF EventsInv
<1>17. SerialInv'
  <2>1. ASSUME oneByOne, NEW x \in Arrived, NEW y \in Arrived, Earlier(x, y), y \in Spoke'
        PROVE  todo'[x] = <<>>
    <3>1. todo[x] = <<>>
      <4>1. CASE y = t
        BY <2>1, <4>1 DEF Earlier
      <4>2. CASE y # t
        <5>1. y \in Spoke
          BY <1>7, <2>1, <4>2
        <5> QED
          BY <2>1, <5>1 DEF InboundInv, SerialInv
      <4> QED
        BY <4>1, <4>2
    <3>2. x \in I!Tasks \ {t}
      BY <1>1, <1>12, <3>1
    <3> QED
      BY <1>12, <3>1, <3>2
  <2>2. ASSUME oneByOne, NEW x \in Spoke, x \in Arrived PROVE Earlier(x, t)
    <3>1. PICK p, q \in DOMAIN order : order[p] = x /\ order[q] = t
      BY <1>1, <1>12, <2>2, OrderPlaces
    <3>2. p # q /\ p \in Nat /\ q \in Nat
      BY <1>1, <1>13, <2>2, <3>1 DEF BaseInv
    <3>3. ~(q < p)
      <4>1. ASSUME q < p PROVE FALSE
        <5>1. Earlier(t, x)
          BY <3>1, <4>1 DEF Earlier
        <5> QED
          BY <1>1, <1>12, <2>2, <5>1 DEF InboundInv, SerialInv
      <4> QED
        BY <4>1
    <3>4. p < q
      BY <3>2, <3>3
    <3> QED
      BY <3>1, <3>4 DEF Earlier
  <2>3. ASSUME oneByOne, NEW i \in 1 .. n + 1, NEW j \in 1 .. n + 1, i < j
        PROVE  Earlier(w[i].task, w[j].task)
    <3>1. \A x, y \in 1 .. n : x < y => Earlier(u[x].task, u[y].task)
      BY <1>5, <2>3 DEF InboundInv, SerialInv, u
    <3>2. i \in 1 .. n
      BY <1>5, <2>3
    <3>3. CASE j \in 1 .. n
      BY <1>5, <2>3, <3>1, <3>2, <3>3
    <3>4. CASE j = n + 1
      BY <1>2, <1>5, <1>14, <2>2, <2>3, <3>2, <3>4
    <3> QED
      BY <1>5, <3>3, <3>4
  <2>4. oneByOne => (\A i, j \in DOMAIN I!Events : i < j => Earlier(I!Events[i].task, I!Events[j].task))'
    BY <1>5, <1>12, <2>3 DEF Earlier, w
  <2> QED
    BY <1>12, <2>1, <2>4 DEF SerialInv
<1> QED
  BY <1>8, <1>9, <1>11, <1>16, <1>17 DEF InboundInv


(* What is left after stages of K, none of which sends anything.           *)
Past(t, r, K) ==
  /\ Shape(service, I!Of(t), r)
  /\ \A S : Has(todo[t], S) <=> Has(r, S) \/ \E c \in K : c \in S
  /\ \A c \in K : c \notin Outs /\ (I!Of(t) \in Filtered => c # Filter[I!Of(t)])
  /\ r # <<>> /\ Head(r) = "publish" /\ I!Of(t) # "status" => K \cap Seekers # {}

LEMMA PastKept ==
  ASSUME InboundInv, NEW t, NEW r, NEW K, Changes(t, r), Past(t, r, K), I!Quiet,
         prompted' = prompted, rejected' = rejected,
         "defer" \in K => t[1] \notin deferred /\ t[1] \in deferred',
         K \cap Seekers = {} => account' = account,
         K \cap Seekers # {} => /\ account'[t] = linked /\ (r # <<>> => holder' = t)
                                /\ linked = NoOne => service = "messenger" /\ I!Of(t) = "press"
  PROVE  InboundInv'
<1>1. /\ t \in Arrived /\ todo'[t] = r /\ I!Of(t)' = I!Of(t)
      /\ service' = service /\ linked' = linked /\ since' = since
  BY Steady
<1>2. TaskInv(t) /\ todo[t] # <<>>
  BY <1>1 DEF InboundInv, TasksInv, Changes
<1>3. Spoke' = Spoke
  BY DEF Spoke, I!Events, I!Quiet
<1>4. Unspent(t)' <=> Unspent(t)
  BY <1>3 DEF Unspent
<1>5. /\ Shape(service, I!Of(t), r)
      /\ \A S : Has(todo[t], S) <=> Has(r, S) \/ \E c \in K : c \in S
      /\ \A c \in K : c \notin Outs /\ (I!Of(t) \in Filtered => c # Filter[I!Of(t)])
      /\ r # <<>> /\ Head(r) = "publish" /\ I!Of(t) # "status" => K \cap Seekers # {}
  BY DEF Past
<1>6. Has(r, Outs) <=> Has(todo[t], Outs)
  BY <1>5
<1>7. I!Of(t) \in Filtered /\ Has(r, Outs) => Has(r, {Filter[I!Of(t)]})
  BY <1>2, <1>5, <1>6 DEF TaskInv
<1>8. linked \in since[t]
  BY <1>2 DEF TaskInv
<1>9. Knows(service, I!Of(t), r, account'[t], since[t])
  <2>1. CASE K \cap Seekers = {}
    <3>1. Has(r, Seekers) <=> Has(todo[t], Seekers)
      BY <1>5, <2>1
    <3> QED
      BY <1>2, <1>6, <2>1, <3>1 DEF TaskInv, Knows
  <2>2. CASE K \cap Seekers # {}
    BY <1>8, <2>2 DEF Knows
  <2> QED
    BY <2>1, <2>2
<1>10. TaskInv(t)'
  <2>1. (Has(todo[t], Outs) => Unspent(t)) /\ (t \in Spoke => t \notin prompted /\ t \notin rejected)
        /\ ~(t \in prompted /\ t \in rejected)
        /\ (I!Of(t) \in {"text", "file"} /\ ~Has(todo[t], Outs) => ~Unspent(t))
    BY <1>2, Zenon DEF TaskInv
  <2>2. I!Of(t) # "status" /\ r # <<>> /\ Head(r) = "publish" => holder' = t /\ account'[t] = linked
    BY <1>5
  <2> QED
    BY <1>1, <1>3, <1>4, <1>5, <1>6, <1>7, <1>8, <1>9, <2>1, <2>2, Zenon DEF TaskInv
<1>11. Passed(t)' => Passed(t) \/ (t[1] \notin deferred /\ t[1] \in deferred')
  <2>1. Passed(t)' <=> t \in Spoke \/ (Has(r, Outs) /\ ~Has(r, {"defer"}))
    BY <1>1, <1>3 DEF Passed
  <2>2. "defer" \notin K => (Has(r, {"defer"}) <=> Has(todo[t], {"defer"}))
    BY <1>5
  <2> QED
    BY <1>6, <2>1, <2>2 DEF Passed
<1> QED
  BY <1>10, <1>11, SilentKept

(* The handling of t ends, but for a reply.                                *)
LEMMA EndKept ==
  ASSUME InboundInv, NEW t, NEW r \in {<<>>, <<"wait">>}, Changes(t, r), I!Quiet, Has(todo[t], Outs),
         ~(t \in prompted' /\ t \in rejected'),
         I!Of(t) \in {"text", "file"} => t \in prompted' \/ t \in rejected'
  PROVE  InboundInv'
<1>1. /\ t \in Arrived /\ todo'[t] = r /\ I!Of(t)' = I!Of(t)
      /\ service' = service /\ linked' = linked /\ since' = since
  BY Steady
<1>2. TaskInv(t) /\ todo[t] # <<>>
  BY <1>1 DEF InboundInv, TasksInv, Changes
<1>3. Spoke' = Spoke /\ t \notin Spoke /\ linked \in since[t]
  BY <1>2 DEF Spoke, I!Events, I!Quiet, TaskInv, Unspent
<1>4. /\ r \in Seq(Stages) /\ \A i \in 1 .. Len(r) : r[i] = "wait"
      /\ r # <<>> => Head(r) = "wait"
  <2>1. CASE r = <<>>
    BY <2>1
  <2>2. CASE r = <<"wait">>
    <3>1. "wait" \in Stages
      BY DEF Stages
    <3>2. Len(r) = 1 /\ r[1] = "wait" /\ Head(r) = "wait"
      BY <2>2
    <3>3. \A i \in 1 .. Len(r) : i = 1
      BY <3>2
    <3> QED
      BY <2>2, <3>1, <3>2, <3>3
  <2> QED
    BY <2>1, <2>2
<1>5. ~Has(r, Outs) /\ Shape(service, I!Of(t), r)
  BY <1>4 DEF Has, Shape, Outs
<1>6. I!Of(t) \in {"text", "file"} => ~Unspent(t)'
  BY DEF Unspent
<1>7. Knows(service, I!Of(t), r, account'[t], since[t])
  BY <1>5 DEF Knows
<1>8. TaskInv(t)'
  <2>1. ~(r # <<>> /\ Head(r) = "publish")
    BY <1>4
  <2> QED
    BY <1>1, <1>3, <1>5, <1>6, <1>7, <2>1, Zenon DEF TaskInv
<1>9. ~Passed(t)'
  BY <1>1, <1>3, <1>5 DEF Passed
<1> QED
  BY <1>8, <1>9, SilentKept


(* A task that may go on with stage h.                                     *)
LEMMA Heads ==
  ASSUME InboundInv, NEW t \in I!Tasks, NEW h, I!At(t, h)
  PROVE  /\ t \in Arrived /\ TaskInv(t) /\ Shape(service, I!Of(t), todo[t]) /\ todo[t] # <<>>
         /\ Head(todo[t]) = h /\ h \in Stages /\ holder \in {Idle, t} /\ todo[t] \in Seq(Stages)
         /\ h # "wait" => Has(todo[t], Outs) /\ Unspent(t)
         /\ h = "verify" => service \in {"whatsapp", "messenger", "teams"}
         /\ h \in {"identify", "defer", "lookup"} => I!Of(t) \notin {"text", "file"}
<1>1. todo[t] # <<>> /\ Head(todo[t]) = h /\ holder \in {Idle, t}
  BY DEF I!At
<1>2. t \in Arrived
  BY <1>1 DEF InboundInv, TasksInv
<1>3. TaskInv(t)
  BY <1>2 DEF InboundInv, TasksInv
<1>4. Shape(service, I!Of(t), todo[t]) /\ todo[t] \in Seq(Stages)
  BY <1>3 DEF TaskInv, Shape
<1>5. PICK svc, srt, r : svc = service /\ srt = I!Of(t) /\ r = todo[t]
  OBVIOUS
<1>6. Shape(svc, srt, r) /\ r # <<>> /\ Head(r) = h
  BY <1>1, <1>4, <1>5
<1>7. /\ h \in Stages
      /\ h # "wait" => Has(r, Outs)
      /\ h = "verify" => svc \in {"whatsapp", "messenger", "teams"}
      /\ h \in {"identify", "defer", "lookup"} => srt \notin {"text", "file"}
  <2>1. Drops(svc, srt, r, h, Tail(r))
    BY <1>6, Dropping
  <2> QED
    BY <2>1 DEF Drops
<1>8. h # "wait" => Has(todo[t], Outs) /\ Unspent(t)
  BY <1>3, <1>5, <1>7 DEF TaskInv
<1> QED
  BY <1>1, <1>2, <1>3, <1>4, <1>5, <1>7, <1>8

LEMMA GoOn ==
  ASSUME InboundInv, NEW t \in I!Tasks, NEW h, I!At(t, h), h \notin Outs, I!Still, I!Quiet, I!Go(t) \/ I!Suspend(t),
         I!Of(t) \in Filtered => h # Filter[I!Of(t)],
         got' \in [I!Tasks -> 0 .. 1], prompted' = prompted, rejected' = rejected, deferred \subseteq deferred',
         h = "defer" => t[1] \notin deferred /\ t[1] \in deferred',
         h \notin Seekers => account' = account,
         h \in Seekers => I!Go(t) /\ account' = [account EXCEPT ![t] = linked] /\ (linked = NoOne => h = "lookup")
  PROVE  InboundInv'
<1>1. /\ TaskInv(t) /\ Shape(service, I!Of(t), todo[t]) /\ todo[t] # <<>> /\ Head(todo[t]) = h
      /\ holder \in {Idle, t} /\ todo[t] \in Seq(Stages)
  BY Heads
<1>2. BaseInv
  BY DEF InboundInv
<1>3. PICK svc, srt, q, r : svc = service /\ srt = I!Of(t) /\ q = todo[t] /\ r = Tail(q)
  OBVIOUS
<1>4. Shape(svc, srt, q) /\ q # <<>> /\ Head(q) = h
  BY <1>1, <1>3
<1>5. /\ Shape(svc, srt, r)
      /\ \A S : Has(q, S) <=> h \in S \/ Has(r, S)
      /\ h = "lookup" => svc = "messenger" /\ srt = "press"
      /\ r # <<>> /\ Head(r) = "publish" /\ srt # "status" => h \in Seekers
      /\ Len(q) = 1 <=> r = <<>>
  <2>1. Drops(svc, srt, q, h, r)
    BY <1>3, <1>4, Dropping
  <2> QED
    BY <2>1 DEF Drops
<1>6. r \in Seq(Stages)
  BY <1>5 DEF Shape
<1>7. todo' = [todo EXCEPT ![t] = r] /\ holder' \in {Idle, t} /\ (I!Go(t) /\ r # <<>> => holder' = t)
  BY <1>3, <1>5 DEF I!Go, I!Suspend
<1>8. /\ account' \in [I!Tasks -> Accounts \cup {NoOne}] /\ \A u \in I!Tasks \ {t} : account'[u] = account[u]
      /\ h \in Seekers => account'[t] = linked
  BY <1>2 DEF BaseInv
<1>9. Changes(t, r)
  BY <1>1, <1>6, <1>7, <1>8 DEF Changes
<1>10. PICK K : K = {h}
  OBVIOUS
<1>11. Past(t, r, K)
  BY <1>3, <1>5, <1>10 DEF Past
<1>12. K \cap Seekers = {} <=> h \notin Seekers
  BY <1>10
<1> QED
  BY <1>3, <1>5, <1>7, <1>8, <1>9, <1>10, <1>11, <1>12, PastKept

LEMMA EndOn ==
  ASSUME InboundInv, NEW t \in I!Tasks, NEW h, I!At(t, h), h # "wait", I!Still, I!Quiet, I!End(t) \/ I!Reply(t),
         account' = account \/ account' = [account EXCEPT ![t] = linked], got' = got, deferred \subseteq deferred',
         \/ (prompted' = prompted /\ rejected' \in {rejected, rejected \cup {t}})
         \/ (rejected' = rejected /\ prompted' \in {prompted, prompted \cup {t}}),
         I!Of(t) \in {"text", "file"} => t \in prompted' \cup rejected'
  PROVE  InboundInv'
<1>1. /\ todo[t] # <<>> /\ holder \in {Idle, t} /\ Has(todo[t], Outs) /\ Unspent(t)
  BY Heads
<1>2. BaseInv
  BY DEF InboundInv
<1>3. PICK r \in {<<>>, <<"wait">>} : todo' = [todo EXCEPT ![t] = r] /\ holder' \in {Idle, t}
  BY DEF I!End, I!Reply
<1>4. r \in Seq(Stages)
  <2>1. <<>> \in Seq(Stages) /\ <<"wait">> \in Seq(Stages)
    BY DEF Stages
  <2> QED
    BY <1>3, <2>1
<1>5. /\ account' \in [I!Tasks -> Accounts \cup {NoOne}] /\ \A u \in I!Tasks \ {t} : account'[u] = account[u]
      /\ got' \in [I!Tasks -> 0 .. 1]
  BY <1>2 DEF BaseInv
<1>6. /\ \A u \in I!Tasks \ {t} : (u \in prompted' <=> u \in prompted) /\ (u \in rejected' <=> u \in rejected)
      /\ ~(t \in prompted' /\ t \in rejected')
  BY <1>1 DEF Unspent
<1>7. Changes(t, r)
  BY <1>1, <1>3, <1>4, <1>5, <1>6 DEF Changes
<1> QED
  BY <1>1, <1>6, <1>7, EndKept


(* A file whose address is not found is not fetched.                       *)
LEMMA SkipOn ==
  ASSUME InboundInv, NEW t \in I!Tasks, I!At(t, "locate"), I!Of(t) = "file", I!Still, I!Quiet,
         todo' = [todo EXCEPT ![t] = SubSeq(@, 3, Len(@))], holder' = Idle, UNCHANGED I!handling
  PROVE  InboundInv'
<1>1. /\ TaskInv(t) /\ Shape(service, I!Of(t), todo[t]) /\ todo[t] # <<>> /\ Head(todo[t]) = "locate"
      /\ holder \in {Idle, t} /\ todo[t] \in Seq(Stages)
  BY Heads
<1>2. BaseInv
  BY DEF InboundInv
<1>3. PICK svc, srt, q, u, r : svc = service /\ srt = I!Of(t) /\ q = todo[t] /\ u = Tail(q) /\ r = Tail(u)
  OBVIOUS
<1>4. Shape(svc, srt, q) /\ q # <<>> /\ Head(q) = "locate"
  BY <1>1, <1>3
<1>5. /\ Shape(svc, srt, u) /\ u # <<>> /\ Head(u) = "fetch"
      /\ \A S : Has(q, S) <=> "locate" \in S \/ Has(u, S)
  <2>1. PICK h : h = "locate"
    OBVIOUS
  <2>2. Drops(svc, srt, q, h, u)
    BY <1>3, <1>4, <2>1, Dropping
  <2> QED
    BY <2>1, <2>2 DEF Drops
<1>6. /\ Shape(svc, srt, r)
      /\ \A S : Has(u, S) <=> "fetch" \in S \/ Has(r, S)
      /\ r # <<>> /\ Head(r) = "publish" /\ srt # "status" => "fetch" \in Seekers
  <2>1. PICK h : h = "fetch"
    OBVIOUS
  <2>2. Drops(svc, srt, u, h, r)
    BY <1>3, <1>5, <2>1, Dropping
  <2> QED
    BY <2>1, <2>2 DEF Drops
<1>7. r \in Seq(Stages) /\ q \in Seq(Stages) /\ u \in Seq(Stages)
  BY <1>4, <1>5, <1>6 DEF Shape
<1>8. SubSeq(q, 3, Len(q)) = r
  BY <1>3, <1>4, <1>5, <1>7
<1>9. todo' = [todo EXCEPT ![t] = r]
  BY <1>3, <1>8
<1>10. /\ account' = account /\ got' = got /\ deferred' = deferred /\ prompted' = prompted /\ rejected' = rejected
  BY DEF I!handling
<1>11. Changes(t, r)
  BY <1>1, <1>2, <1>7, <1>9, <1>10 DEF Changes, BaseInv
<1>12. PICK K : K = {"locate", "fetch"}
  OBVIOUS
<1>13. \A S : Has(q, S) <=> Has(r, S) \/ \E c \in K : c \in S
  BY <1>5, <1>6, <1>12
<1>14. \A c \in K : c \notin Outs /\ c \notin Seekers /\ c # "defer"
  BY <1>12 DEF Outs, Seekers
<1>15. I!Of(t) \notin Filtered
  BY DEF Filtered
<1>16. ~(r # <<>> /\ Head(r) = "publish" /\ srt # "status")
  BY <1>6 DEF Seekers
<1>17. Past(t, r, K)
  BY <1>3, <1>6, <1>13, <1>14, <1>15, <1>16 DEF Past
<1>18. K \cap Seekers = {} /\ "defer" \notin K
  BY <1>14
<1> QED
  BY <1>10, <1>11, <1>17, <1>18, PastKept

(* The event is sent.                                                      *)
LEMMA SpeakOn ==
  ASSUME InboundInv, NEW t \in I!Tasks, NEW h, I!At(t, h),
         (h = "emit" /\ emitted' = Append(emitted, I!Event(t)) /\ offered' = offered)
           \/ (h = "publish" /\ offered' = Append(offered, I!Event(t)) /\ emitted' = emitted),
         I!Go(t), I!Still, UNCHANGED I!handling
  PROVE  InboundInv'
<1>1. /\ t \in Arrived /\ TaskInv(t) /\ Shape(service, I!Of(t), todo[t]) /\ todo[t] # <<>> /\ Head(todo[t]) = h
      /\ holder \in {Idle, t} /\ todo[t] \in Seq(Stages) /\ Has(todo[t], Outs) /\ Unspent(t) /\ h \in Outs
  BY Heads DEF Outs
<1>2. BaseInv
  BY DEF InboundInv
<1>3. PICK svc, srt, q, r : svc = service /\ srt = I!Of(t) /\ q = todo[t] /\ r = Tail(q)
  OBVIOUS
<1>4. Shape(svc, srt, q) /\ q # <<>> /\ Head(q) = h
  BY <1>1, <1>3
<1>5. /\ Shape(svc, srt, r)
      /\ \A S : Has(q, S) <=> h \in S \/ Has(r, S)
      /\ h = (IF svc \in {"telegram", "discord"} THEN "emit" ELSE "publish")
      /\ \A S : Has(r, S) => "wait" \in S
      /\ r # <<>> /\ Head(r) = "publish" /\ srt # "status" => h \in Seekers
      /\ Len(q) = 1 <=> r = <<>>
  <2>1. Drops(svc, srt, q, h, r)
    BY <1>3, <1>4, Dropping
  <2> QED
    BY <1>1, <2>1 DEF Drops
<1>6. r \in Seq(Stages)
  BY <1>5 DEF Shape
<1>7. todo' = [todo EXCEPT ![t] = r] /\ holder' \in {Idle, t}
  BY <1>3 DEF I!Go
<1>8. /\ account' = account /\ got' = got /\ deferred' = deferred /\ prompted' = prompted /\ rejected' = rejected
  BY DEF I!handling
<1>9. Changes(t, r)
  BY <1>1, <1>2, <1>6, <1>7, <1>8 DEF Changes, BaseInv
<1>10. Speaks(t)
  BY <1>3, <1>5 DEF Speaks
<1>11. ~Has(r, Outs) /\ ~Has(r, Seekers) /\ \A f \in Filtered : ~Has(r, {Filter[f]}) /\ Filter[f] # h
  BY <1>1, <1>5 DEF Outs, Seekers, Filtered, Filter
<1>12. ~Has(todo[t], {"defer"}) /\ ~Has(todo[t], Seekers)
  BY <1>1, <1>3, <1>5, <1>11 DEF Outs, Seekers
<1>13. I!Of(t) \notin Filtered
  BY <1>1, <1>3, <1>5, <1>11 DEF TaskInv
<1>14. linked \in since[t] /\ Knows(service, I!Of(t), todo[t], account[t], since[t])
  BY <1>1 DEF TaskInv
<1>15. Due(I!Event(t))
  <2>1. I!Event(t).task = t /\ I!Event(t).account = account[t] /\ I!Event(t).now = linked
    BY DEF I!Event
  <2>2. service \notin {"telegram", "discord"} /\ I!Of(t) # "status" => account[t] = linked
    BY <1>1, <1>3, <1>5 DEF TaskInv
  <2> QED
    BY <1>1, <1>12, <1>13, <1>14, <2>1, <2>2 DEF Due, Knows
<1>16. /\ todo'[t] = r /\ I!Of(t)' = I!Of(t) /\ service' = service /\ linked' = linked /\ since' = since
  BY <1>9, Steady
<1>17. t \in Spoke'
  <2>1. PICK n \in Nat : Longer(n, I!Event(t), I!Events, I!Events')
    BY <1>10, Grows
  <2>2. n + 1 \in 1 .. n + 1 /\ I!Event(t).task = t
    BY DEF I!Event
  <2>3. n + 1 \in DOMAIN I!Events' /\ I!Events'[n + 1] = I!Event(t)
    BY <2>1, <2>2 DEF Longer
  <2> QED
    BY <2>2, <2>3 DEF Spoke
<1>18. TaskInv(t)'
  <2>1. t \notin prompted' /\ t \notin rejected' /\ ~Unspent(t)'
    BY <1>1, <1>8, <1>17 DEF Unspent
  <2>2. Knows(service, I!Of(t), r, account'[t], since[t])
    BY <1>11 DEF Knows
  <2>3. ~(r # <<>> /\ Head(r) = "publish" /\ srt # "status")
    BY <1>1, <1>5 DEF Outs, Seekers
  <2> QED
    BY <1>3, <1>5, <1>11, <1>14, <1>16, <2>1, <2>2, <2>3, Zenon DEF TaskInv
<1>19. oneByOne => \A i, j \in DOMAIN order : i < j /\ order[j] = t => todo[order[i]] = <<>>
  BY DEF I!At
<1> QED
  BY <1>1, <1>8, <1>9, <1>10, <1>12, <1>15, <1>18, <1>19, SpokenKept


(* Every step of a handler.                                                *)
LEMMA HandleKept ==
  ASSUME InboundInv, NEW t \in I!Tasks, I!Handle(t)
  PROVE  InboundInv'
<1>1. /\ got \in [I!Tasks -> 0 .. 1]
      /\ \A n \in 0 .. 1 : [got EXCEPT ![t] = n] \in [I!Tasks -> 0 .. 1]
  BY DEF InboundInv, BaseInv
<1>2. CASE I!Verify(t)
  <2>1. I!At(t, "verify") /\ I!Still /\ I!Quiet /\ UNCHANGED <<account, got, deferred, prompted>>
    BY <1>2 DEF I!Verify
  <2>2. PICK ok \in BOOLEAN : /\ I!PassIf(t, ok) /\ rejected' = (IF ok THEN rejected ELSE rejected \cup {t})
                              /\ ok => I!Of(t) # "unsigned"
    <3>1. service \in {"whatsapp", "messenger", "teams"}
      BY <2>1, Heads
    <3> QED
      BY <1>2, <3>1 DEF I!Verify, I!SignedWhatsApp, I!SignedMessenger, I!TokenValid
  <2>3. CASE ok
    <3>1. I!Go(t) /\ rejected' = rejected /\ I!Of(t) # "unsigned"
      BY <2>2, <2>3 DEF I!PassIf
    <3>2. "verify" \notin Outs \cup Seekers /\ (I!Of(t) \in Filtered => "verify" # Filter[I!Of(t)])
      BY <3>1 DEF Outs, Seekers, Filtered, Filter
    <3> QED
      BY <1>1, <2>1, <3>1, <3>2, GoOn
  <2>4. CASE ~ok
    <3>1. I!End(t) /\ rejected' = rejected \cup {t}
      BY <2>2, <2>4 DEF I!PassIf
    <3> QED
      BY <2>1, <3>1, EndOn
  <2> QED
    BY <2>3, <2>4
<1>3. CASE I!Own(t)
  <2>1. /\ I!At(t, "own") /\ I!Still /\ I!Quiet /\ UNCHANGED <<account, got, deferred, prompted, rejected>>
        /\ I!PassIf(t, I!Of(t) # "own")
    BY <1>3 DEF I!Own, I!handling
  <2>2. CASE I!Of(t) # "own"
    <3>1. I!Go(t)
      BY <2>1, <2>2 DEF I!PassIf
    <3>2. "own" \notin Outs \cup Seekers /\ (I!Of(t) \in Filtered => "own" # Filter[I!Of(t)])
      BY <2>2 DEF Outs, Seekers, Filtered, Filter
    <3> QED
      BY <1>1, <2>1, <3>1, <3>2, GoOn
  <2>3. CASE I!Of(t) = "own"
    <3>1. I!End(t)
      BY <2>1, <2>3 DEF I!PassIf
    <3> QED
      BY <2>1, <2>3, <3>1, EndOn
  <2> QED
    BY <2>2, <2>3
<1>4. CASE I!Address(t)
  <2>1. /\ I!At(t, "address") /\ I!Still /\ I!Quiet /\ UNCHANGED <<account, got, deferred, prompted, rejected>>
        /\ I!PassIf(t, I!Of(t) # "aside")
    BY <1>4 DEF I!Address, I!handling
  <2>2. CASE I!Of(t) # "aside"
    <3>1. I!Go(t)
      BY <2>1, <2>2 DEF I!PassIf
    <3>2. "address" \notin Outs \cup Seekers /\ (I!Of(t) \in Filtered => "address" # Filter[I!Of(t)])
      BY <2>2 DEF Outs, Seekers, Filtered, Filter
    <3> QED
      BY <1>1, <2>1, <3>1, <3>2, GoOn
  <2>3. CASE I!Of(t) = "aside"
    <3>1. I!End(t)
      BY <2>1, <2>3 DEF I!PassIf
    <3> QED
      BY <2>1, <2>3, <3>1, EndOn
  <2> QED
    BY <2>2, <2>3
<1>5. CASE I!Command(t)
  <2>1. /\ I!At(t, "command") /\ I!Still /\ I!Quiet /\ UNCHANGED <<account, got, deferred, prompted, rejected>>
    BY <1>5 DEF I!Command, I!handling
  <2>2. \/ I!Of(t) = "command" /\ I!Reply(t)
        \/ I!Of(t) = "unknown" /\ I!End(t)
        \/ I!Of(t) # "command" /\ I!Go(t)
    BY <1>5 DEF I!Command, I!PassIf
  <2>3. CASE I!Of(t) # "command" /\ I!Go(t)
    <3>1. "command" \notin Outs \cup Seekers /\ (I!Of(t) \in Filtered => "command" # Filter[I!Of(t)])
      BY <2>3 DEF Outs, Seekers, Filtered, Filter
    <3> QED
      BY <1>1, <2>1, <2>3, <3>1, GoOn
  <2>4. CASE I!Of(t) \in {"command", "unknown"} /\ (I!Reply(t) \/ I!End(t))
    <3>1. I!Of(t) \notin {"text", "file"}
      BY <2>4
    <3> QED
      BY <2>1, <2>4, <3>1, EndOn
  <2> QED
    BY <2>2, <2>3, <2>4
<1>6. CASE I!Resolve(t)
  <2>1. /\ I!At(t, "resolve") /\ I!Still /\ I!Quiet /\ UNCHANGED <<got, deferred, rejected>>
        /\ account' = [account EXCEPT ![t] = linked]
    BY <1>6 DEF I!Resolve
  <2>2. CASE linked = NoOne
    <3>1. I!Reply(t) /\ prompted' = prompted \cup {t}
      BY <1>6, <2>2 DEF I!Resolve
    <3> QED
      BY <2>1, <3>1, EndOn
  <2>3. CASE linked # NoOne
    <3>1. I!Go(t) /\ prompted' = prompted
      BY <1>6, <2>3 DEF I!Resolve
    <3>2. "resolve" \in Seekers \ Outs /\ (I!Of(t) \in Filtered => "resolve" # Filter[I!Of(t)])
      BY DEF Outs, Seekers, Filtered, Filter
    <3> QED
      BY <1>1, <2>1, <2>3, <3>1, <3>2, GoOn
  <2> QED
    BY <2>2, <2>3
<1>7. CASE I!ResolveQuietly(t)
  <2>1. /\ I!At(t, "identify") /\ I!Still /\ I!Quiet /\ UNCHANGED <<got, deferred, prompted, rejected>>
        /\ account' = [account EXCEPT ![t] = linked] /\ I!PassIf(t, linked # NoOne)
    BY <1>7 DEF I!ResolveQuietly
  <2>2. CASE linked = NoOne
    <3>1. I!End(t) /\ I!Of(t) \notin {"text", "file"}
      BY <2>1, <2>2, Heads DEF I!PassIf
    <3> QED
      BY <2>1, <3>1, EndOn
  <2>3. CASE linked # NoOne
    <3>1. I!Go(t)
      BY <2>1, <2>3 DEF I!PassIf
    <3>2. "identify" \in Seekers \ Outs /\ (I!Of(t) \in Filtered => "identify" # Filter[I!Of(t)])
      BY DEF Outs, Seekers, Filtered, Filter
    <3> QED
      BY <1>1, <2>1, <2>3, <3>1, <3>2, GoOn
  <2> QED
    BY <2>2, <2>3
<1>8. CASE I!LookUp(t)
  <2>1. /\ I!At(t, "lookup") /\ I!Still /\ I!Quiet /\ UNCHANGED <<got, deferred, prompted, rejected>>
        /\ account' = [account EXCEPT ![t] = linked] /\ I!Go(t)
    BY <1>8 DEF I!LookUp
  <2>2. "lookup" \in Seekers \ Outs /\ (I!Of(t) \in Filtered => "lookup" # Filter[I!Of(t)])
    BY DEF Outs, Seekers, Filtered, Filter
  <2> QED
    BY <1>1, <2>1, <2>2, GoOn
<1>9. CASE I!Locate(t)
  <2>1. /\ I!At(t, "locate") /\ I!Still /\ I!Quiet /\ UNCHANGED I!handling
    BY <1>9 DEF I!Locate
  <2>2. \/ I!Go(t) \/ I!Suspend(t)
        \/ I!Of(t) = "file" /\ todo' = [todo EXCEPT ![t] = SubSeq(@, 3, Len(@))] /\ holder' = Idle
    BY <1>9 DEF I!Locate
  <2>3. CASE I!Go(t) \/ I!Suspend(t)
    <3>1. UNCHANGED <<account, got, deferred, prompted, rejected>>
      BY <2>1 DEF I!handling
    <3>2. "locate" \notin Outs \cup Seekers /\ (I!Of(t) \in Filtered => "locate" # Filter[I!Of(t)])
      BY DEF Outs, Seekers, Filtered, Filter
    <3> QED
      BY <1>1, <2>1, <2>3, <3>1, <3>2, GoOn
  <2>4. CASE I!Of(t) = "file" /\ todo' = [todo EXCEPT ![t] = SubSeq(@, 3, Len(@))] /\ holder' = Idle
    BY <2>1, <2>4, SkipOn
  <2> QED
    BY <2>2, <2>3, <2>4
<1>10. CASE I!Fetch(t)
  <2>1. /\ I!At(t, "fetch") /\ I!Still /\ I!Quiet /\ UNCHANGED <<account, deferred, prompted, rejected>>
        /\ (I!Go(t) \/ I!Suspend(t)) /\ got' \in [I!Tasks -> 0 .. 1]
    BY <1>1, <1>10 DEF I!Fetch
  <2>2. "fetch" \notin Outs \cup Seekers /\ (I!Of(t) \in Filtered => "fetch" # Filter[I!Of(t)])
    BY DEF Outs, Seekers, Filtered, Filter
  <2> QED
    BY <2>1, <2>2, GoOn
<1>11. CASE I!Load(t)
  <2>1. /\ I!At(t, "load") /\ I!Still /\ I!Quiet /\ UNCHANGED <<account, deferred, prompted, rejected>>
        /\ I!Go(t) /\ got' \in [I!Tasks -> 0 .. 1]
    BY <1>1, <1>11 DEF I!Load
  <2>2. "load" \notin Outs \cup Seekers /\ (I!Of(t) \in Filtered => "load" # Filter[I!Of(t)])
    BY DEF Outs, Seekers, Filtered, Filter
  <2> QED
    BY <2>1, <2>2, GoOn
<1>12. CASE I!Wait(t)
  <2>1. /\ I!At(t, "wait") /\ I!Still /\ I!Quiet /\ UNCHANGED <<account, got, deferred, prompted, rejected>>
        /\ I!Suspend(t)
    BY <1>12 DEF I!Wait, I!handling
  <2>2. "wait" \notin Outs \cup Seekers /\ (I!Of(t) \in Filtered => "wait" # Filter[I!Of(t)])
    BY DEF Outs, Seekers, Filtered, Filter
  <2> QED
    BY <1>1, <2>1, <2>2, GoOn
<1>13. CASE I!Defer(t)
  <2>1. /\ I!At(t, "defer") /\ I!Still /\ I!Quiet /\ UNCHANGED <<account, got, prompted, rejected>>
        /\ deferred' = deferred \cup {t[1]}
    BY <1>13 DEF I!Defer
  <2>2. CASE t[1] \in deferred
    <3>1. I!End(t) /\ I!Of(t) \notin {"text", "file"}
      BY <1>13, <2>1, <2>2, Heads DEF I!Defer
    <3> QED
      BY <2>1, <3>1, EndOn
  <2>3. CASE t[1] \notin deferred
    <3>1. I!Suspend(t)
      BY <1>13, <2>3 DEF I!Defer
    <3>2. "defer" \notin Outs \cup Seekers /\ (I!Of(t) \in Filtered => "defer" # Filter[I!Of(t)])
      BY DEF Outs, Seekers, Filtered, Filter
    <3> QED
      BY <1>1, <2>1, <2>3, <3>1, <3>2, GoOn
  <2> QED
    BY <2>2, <2>3
<1>14. CASE I!Emit(t)
  <2>1. /\ I!At(t, "emit") /\ I!Go(t) /\ emitted' = Append(emitted, I!Event(t)) /\ offered' = offered
        /\ I!Still /\ UNCHANGED I!handling
    BY <1>14 DEF I!Emit, I!handling
  <2> QED
    BY <2>1, SpeakOn
<1>15. CASE I!Publish(t)
  <2>1. /\ I!At(t, "publish") /\ I!Go(t) /\ offered' = Append(offered, I!Event(t)) /\ emitted' = emitted
        /\ I!Still /\ UNCHANGED I!handling
    BY <1>15 DEF I!Publish, I!handling
  <2> QED
    BY <2>1, SpeakOn
<1> QED
  BY <1>2, <1>3, <1>4, <1>5, <1>6, <1>7, <1>8, <1>9, <1>10, <1>11, <1>12, <1>13, <1>14, <1>15 DEF I!Handle


(* What happens besides.                                                   *)
LEMMA ElseKept ==
  ASSUME InboundInv, (\E a \in Accounts \cup {NoOne} : I!Relink(a)) \/ \E b \in BOOLEAN : I!FetchKeys(b)
  PROVE  InboundInv'
<1>1. /\ UNCHANGED <<service, sort, oneByOne, order, todo, holder, account, got, deferred, prompted, rejected, emitted, offered>>
      /\ holder = Idle
  BY DEF I!Relink, I!FetchKeys, I!context, I!handling
<1>2. /\ linked' \in Accounts \cup {NoOne} /\ since' \in [I!Tasks -> SUBSET (Accounts \cup {NoOne})]
      /\ \A u \in I!Tasks : since[u] \subseteq since'[u] /\ (todo[u] # <<>> /\ linked \in since[u] => linked' \in since'[u])
  <2>1. linked \in Accounts \cup {NoOne} /\ since \in [I!Tasks -> SUBSET (Accounts \cup {NoOne})]
    BY DEF InboundInv, BaseInv
  <2>2. ASSUME NEW a \in Accounts \cup {NoOne}, I!Relink(a)
        PROVE  /\ linked' \in Accounts \cup {NoOne} /\ since' \in [I!Tasks -> SUBSET (Accounts \cup {NoOne})]
               /\ \A u \in I!Tasks : since[u] \subseteq since'[u] /\ (todo[u] # <<>> => linked' \in since'[u])
    <3>1. linked' = a /\ since' = [t \in I!Tasks |-> IF todo[t] = <<>> THEN since[t] ELSE since[t] \cup {a}]
      BY <2>2 DEF I!Relink
    <3> QED
      BY <2>1, <3>1
  <2>3. ASSUME NEW b \in BOOLEAN, I!FetchKeys(b) PROVE linked' = linked /\ since' = since
    BY <2>3 DEF I!FetchKeys
  <2> QED
    BY <2>1, <2>2, <2>3
<1>3. BaseInv /\ Arrived \subseteq I!Tasks /\ \A u \in I!Tasks : u # Idle
  BY OrderPlaces DEF InboundInv
<1>4. BaseInv'
  <2>1. I!Handler' = I!Handler
    BY <1>1 DEF I!Handler, I!SlackEnvelope
  <2>2. I!Sorts(service)' = I!Sorts(service)
    BY <1>1, <2>1 DEF I!Sorts
  <2>3. oneByOne' \in BOOLEAN /\ service' \in DOMAIN I!Handler' /\ sort' \in [I!Msgs -> I!Sorts(service)']
    BY <1>1, <1>3, <2>1, <2>2 DEF BaseInv
  <2>4. \E n \in Nat : {order'[i][1] : i \in DOMAIN order'} = 1 .. n
    <3>1. PICK n \in Nat : {order[i][1] : i \in DOMAIN order} = 1 .. n
      BY <1>3, Zenon DEF BaseInv
    <3>2. {order'[i][1] : i \in DOMAIN order'} = 1 .. n
      BY <1>1, <3>1
    <3> QED
      BY <3>2
  <2>5. /\ order' \in Seq(I!Tasks) /\ \A i, j \in DOMAIN order' : order'[i] = order'[j] => i = j
    BY <1>1, <1>3 DEF BaseInv
  <2>6. /\ todo' \in [I!Tasks -> Seq(Stages)] /\ account' \in [I!Tasks -> Accounts \cup {NoOne}]
        /\ got' \in [I!Tasks -> 0 .. 1] /\ emitted' \in Seq(Records) /\ offered' \in Seq(Records)
    BY <1>1, <1>3 DEF BaseInv
  <2> QED
    BY <1>2, <2>3, <2>4, <2>5, <2>6, Zenon DEF BaseInv
<1>5. /\ Spoke' = Spoke /\ I!Events' = I!Events /\ Arrived' = Arrived
      /\ \A u : I!Of(u)' = I!Of(u) /\ (Unspent(u)' <=> Unspent(u)) /\ (Passed(u)' <=> Passed(u))
      /\ \A u, w : Earlier(u, w)' <=> Earlier(u, w)
  <2>1. I!Events' = I!Events /\ Arrived' = Arrived
    BY <1>1 DEF I!Events, Arrived, I!Range
  <2>2. Spoke' = Spoke
    BY <2>1 DEF Spoke
  <2>3. \A u : I!Of(u)' = I!Of(u) /\ (Unspent(u)' <=> Unspent(u)) /\ (Passed(u)' <=> Passed(u))
    BY <1>1, <2>2 DEF I!Of, Unspent, Passed
  <2>4. \A u, w : Earlier(u, w)' <=> Earlier(u, w)
    BY <1>1 DEF Earlier
  <2> QED
    BY <2>1, <2>2, <2>3, <2>4
<1>6. TasksInv'
  <2>1. ASSUME NEW u \in Arrived PROVE TaskInv(u)'
    <3>1. TaskInv(u) /\ u \in I!Tasks /\ holder # u
      BY <1>1, <1>3 DEF InboundInv, TasksInv
    <3>2. since[u] \subseteq since'[u] /\ (todo[u] # <<>> => linked' \in since'[u])
      BY <1>2, <3>1 DEF TaskInv
    <3>3. Knows(service, I!Of(u), todo[u], account[u], since'[u])
      BY <3>1, <3>2 DEF TaskInv, Knows
    <3>4. ~(I!Of(u) # "status" /\ todo[u] # <<>> /\ Head(todo[u]) = "publish")
      BY <3>1, Zenon DEF TaskInv
    <3>5. /\ Shape(service, I!Of(u), todo[u]) /\ (Has(todo[u], Outs) => Unspent(u))
          /\ u \in Spoke => u \notin prompted /\ u \notin rejected
          /\ ~(u \in prompted /\ u \in rejected)
          /\ I!Of(u) \in {"text", "file"} /\ ~Has(todo[u], Outs) => ~Unspent(u)
          /\ I!Of(u) \in Filtered /\ Has(todo[u], Outs) => Has(todo[u], {Filter[I!Of(u)]})
      BY <3>1, Zenon DEF TaskInv
    <3> QED
      BY <1>1, <1>5, <3>2, <3>3, <3>4, <3>5, Zenon DEF TaskInv
  <2>2. \A u \in I!Tasks \ Arrived : todo[u] = <<>> /\ Unspent(u)
    BY DEF InboundInv, TasksInv
  <2> QED
    BY <1>1, <1>5, <2>1, <2>2 DEF TasksInv
<1>7. PairInv'
  BY <1>1, <1>5 DEF InboundInv, PairInv
<1>8. EventsInv'
  <2>1. ASSUME NEW e, Due(e) PROVE Due(e)'
    BY <1>1, <1>2, <1>3, <1>5, <2>1 DEF Due
  <2>2. \A i \in DOMAIN I!Events : Due(I!Events[i])
    BY DEF InboundInv, EventsInv
  <2>3. \A i \in DOMAIN I!Events' : Due(I!Events[i])'
    BY <1>1, <1>2, <1>3, <1>5, <2>2 DEF Due
  <2> QED
    BY <1>1, <1>5, <2>3 DEF InboundInv, EventsInv
<1>9. SerialInv'
  <2>1. (\A i, j \in DOMAIN I!Events : i < j => Earlier(I!Events[i].task, I!Events[j].task))'
          <=> \A i, j \in DOMAIN I!Events : i < j => Earlier(I!Events[i].task, I!Events[j].task)
    BY <1>1, <1>5 DEF Earlier
  <2> QED
    BY <1>1, <1>5, <2>1 DEF InboundInv, SerialInv
<1> QED
  BY <1>4, <1>6, <1>7, <1>8, <1>9 DEF InboundInv

LEMMA InboundStarts == ASSUME I!Init PROVE InboundInv
<1>1. /\ oneByOne \in BOOLEAN /\ service \in DOMAIN I!Handler /\ sort \in [I!Msgs -> I!Sorts(service)] /\ order = <<>>
      /\ todo = [t \in I!Tasks |-> <<>>] /\ linked \in Accounts \cup {NoOne}
      /\ account = [t \in I!Tasks |-> NoOne] /\ since = [t \in I!Tasks |-> {}] /\ got = [t \in I!Tasks |-> 0]
      /\ deferred = {} /\ prompted = {} /\ rejected = {} /\ emitted = <<>> /\ offered = <<>>
  BY DEF I!Init
<1>2. I!Events = <<>> /\ DOMAIN I!Events = {} /\ DOMAIN order = {} /\ Arrived = {} /\ Spoke = {}
  <2>1. I!Events = <<>>
    BY <1>1 DEF I!Events
  <2>2. DOMAIN I!Events = {} /\ DOMAIN order = {}
    BY <1>1, <2>1
  <2> QED
    BY <2>1, <2>2 DEF Arrived, I!Range, Spoke
<1>3. BaseInv
  <2>1. {order[i][1] : i \in DOMAIN order} = 1 .. 0
    BY <1>2
  <2>2. \E n \in Nat : {order[i][1] : i \in DOMAIN order} = 1 .. n
    BY <2>1
  <2>3. todo \in [I!Tasks -> Seq(Stages)] /\ account \in [I!Tasks -> Accounts \cup {NoOne}] /\ got \in [I!Tasks -> 0 .. 1]
        /\ since \in [I!Tasks -> SUBSET (Accounts \cup {NoOne})]
    BY <1>1
  <2>4. order \in Seq(I!Tasks) /\ emitted \in Seq(Records) /\ offered \in Seq(Records)
    BY <1>1
  <2> QED
    BY <1>1, <1>2, <2>2, <2>3, <2>4 DEF BaseInv
<1>4. TasksInv
  BY <1>1, <1>2 DEF TasksInv, Unspent
<1>5. PairInv /\ EventsInv /\ SerialInv
  BY <1>1, <1>2 DEF PairInv, EventsInv, SerialInv
<1> QED
  BY <1>3, <1>4, <1>5 DEF InboundInv


(* A message arrives: its tasks come after the others.                     *)
Comes(m, a) ==
  /\ m \in I!Msgs /\ a \in Seq(I!Tasks) /\ a # <<>>
  /\ \A i \in DOMAIN a : a[i][1] = m /\ (a[i][2] = 2 => service = "discord" /\ sort[m] = "press")
  /\ \A i, j \in DOMAIN a : a[i] = a[j] => i = j
  /\ \A i \in DOMAIN order : order[i][1] # m
  /\ order' = order \o a
  /\ todo' = [t \in I!Tasks |-> IF t \in I!Range(a) THEN Opening(sort[m]) ELSE todo[t]]
  /\ since' = [t \in I!Tasks |-> IF t \in I!Range(a) THEN {linked} ELSE since[t]]

LEMMA Arrives ==
  ASSUME InboundInv, NEW m \in I!Msgs, I!Arrive(m)
  PROVE  /\ \E a : Comes(m, a)
         /\ \E n \in Nat : {order[i][1] : i \in DOMAIN order} = 1 .. n /\ m = n + 1
<1>1. PICK n \in Nat : {order[i][1] : i \in DOMAIN order} = 1 .. n
  BY DEF InboundInv, BaseInv
<1>2. m = n + 1
  <2>1. PICK ms : ms = {order[i][1] : i \in DOMAIN order}
    OBVIOUS
  <2>2. m = 1 + I!Cardinality(ms)
    BY <2>1 DEF I!Arrive
  <2>3. I!Cardinality(ms) = Cardinality(ms)
    BY CardinalityOfI
  <2>4. Cardinality(1 .. n) = n
    <3>1. 1 \in Int /\ n \in Int
      OBVIOUS
    <3>2. Cardinality(1 .. n) = IF 1 > n THEN 0 ELSE n - 1 + 1
      BY <3>1, FS_Interval
    <3> QED
      BY <3>2
  <2>5. I!Cardinality(ms) = n
    BY <1>1, <2>1, <2>3, <2>4
  <2> QED
    BY <2>2, <2>5
<1>3. PICK a : /\ a = (IF service = "discord" /\ sort[m] = "press" THEN <<<<m, 1>>, <<m, 2>>>> ELSE <<<<m, 1>>>>)
               /\ order' = order \o a
               /\ todo' = [t \in I!Tasks |-> IF t \in I!Range(a) THEN Opening(sort[m]) ELSE todo[t]]
               /\ since' = [t \in I!Tasks |-> IF t \in I!Range(a) THEN {linked} ELSE since[t]]
  BY DEF I!Arrive, Opening
<1>4. /\ a \in Seq(I!Tasks) /\ a # <<>>
      /\ \A i \in DOMAIN a : a[i][1] = m /\ (a[i][2] = 2 => service = "discord" /\ sort[m] = "press")
      /\ \A i, j \in DOMAIN a : a[i] = a[j] => i = j
  <2>1. <<m, 1>> \in I!Tasks /\ <<m, 2>> \in I!Tasks
    BY DEF I!Tasks
  <2>2. CASE service = "discord" /\ sort[m] = "press"
    <3>1. a = <<<<m, 1>>, <<m, 2>>>>
      BY <1>3, <2>2
    <3>2. a \in Seq(I!Tasks) /\ a # <<>> /\ DOMAIN a = {1, 2} /\ a[1] = <<m, 1>> /\ a[2] = <<m, 2>>
      BY <2>1, <3>1
    <3> QED
      BY <2>2, <3>2
  <2>3. CASE ~(service = "discord" /\ sort[m] = "press")
    <3>1. a = <<<<m, 1>>>>
      BY <1>3, <2>3
    <3>2. a \in Seq(I!Tasks) /\ a # <<>> /\ DOMAIN a = {1} /\ a[1] = <<m, 1>>
      BY <2>1, <3>1
    <3> QED
      BY <3>2
  <2> QED
    BY <2>2, <2>3
<1>5. \A i \in DOMAIN order : order[i][1] # m
  <2>1. m \notin 1 .. n
    BY <1>2
  <2> QED
    BY <1>1, <2>1
<1> QED
  BY <1>1, <1>2, <1>3, <1>4, <1>5 DEF Comes

LEMMA Behind ==
  ASSUME NEW S, NEW u \in Seq(S), NEW a \in Seq(S)
  PROVE  /\ u \o a \in Seq(S)
         /\ \A i \in DOMAIN u : i \in DOMAIN (u \o a) /\ (u \o a)[i] = u[i]
         /\ \A i \in DOMAIN (u \o a) : i \in DOMAIN u \/ \E j \in DOMAIN a : i = Len(u) + j /\ (u \o a)[i] = a[j]
         /\ \A j \in DOMAIN a : Len(u) + j \in DOMAIN (u \o a) /\ (u \o a)[Len(u) + j] = a[j]
         /\ \A i \in DOMAIN u, j \in DOMAIN a : i < Len(u) + j /\ i \in Nat /\ j \in Nat /\ Len(u) \in Nat
<1>1. /\ u \o a \in Seq(S) /\ Len(u \o a) = Len(u) + Len(a) /\ Len(u) \in Nat /\ Len(a) \in Nat
      /\ DOMAIN u = 1 .. Len(u) /\ DOMAIN a = 1 .. Len(a) /\ DOMAIN (u \o a) = 1 .. Len(u) + Len(a)
  OBVIOUS
<1>2. \A i \in 1 .. Len(u) + Len(a) : (u \o a)[i] = IF i <= Len(u) THEN u[i] ELSE a[i - Len(u)]
  OBVIOUS
<1>3. PICK p, q, w : p = Len(u) /\ q = Len(a) /\ w = u \o a
  OBVIOUS
<1>4. /\ p \in Nat /\ q \in Nat /\ DOMAIN u = 1 .. p /\ DOMAIN a = 1 .. q /\ DOMAIN w = 1 .. p + q
      /\ \A i \in 1 .. p + q : w[i] = IF i <= p THEN u[i] ELSE a[i - p]
  BY <1>1, <1>2, <1>3
<1>5. \A i \in 1 .. p : i \in 1 .. p + q /\ w[i] = u[i]
  BY <1>4
<1>6. \A j \in 1 .. q : p + j \in 1 .. p + q /\ w[p + j] = a[j]
  <2> SUFFICES ASSUME NEW j \in 1 .. q PROVE p + j \in 1 .. p + q /\ w[p + j] = a[j]
    OBVIOUS
  <2>1. p + j \in 1 .. p + q /\ ~(p + j <= p) /\ (p + j) - p = j
    BY <1>4
  <2> QED
    BY <1>4, <2>1
<1>7. \A i \in 1 .. p + q : i \in 1 .. p \/ \E j \in 1 .. q : i = p + j /\ w[i] = a[j]
  <2> SUFFICES ASSUME NEW i \in 1 .. p + q, i \notin 1 .. p PROVE \E j \in 1 .. q : i = p + j /\ w[i] = a[j]
    OBVIOUS
  <2>1. i - p \in 1 .. q /\ i = p + (i - p)
    BY <1>4
  <2> QED
    BY <1>6, <2>1
<1>8. \A i \in 1 .. p, j \in 1 .. q : i < p + j /\ i \in Nat /\ j \in Nat /\ p \in Nat
  BY <1>4
<1>9. /\ w \in Seq(S) /\ (\A i \in DOMAIN u : i \in DOMAIN w /\ w[i] = u[i])
      /\ \A i \in DOMAIN w : i \in DOMAIN u \/ \E j \in DOMAIN a : i = p + j /\ w[i] = a[j]
  <2>1. w \in Seq(S)
    BY <1>1, <1>3
  <2>2. \A i \in DOMAIN u : i \in DOMAIN w /\ w[i] = u[i]
    BY <1>4, <1>5, Zenon
  <2>3. \A i \in DOMAIN w : i \in DOMAIN u \/ \E j \in DOMAIN a : i = p + j /\ w[i] = a[j]
    BY <1>4, <1>7, Zenon
  <2> QED
    BY <2>1, <2>2, <2>3
<1>10. /\ \A j \in DOMAIN a : p + j \in DOMAIN w /\ w[p + j] = a[j]
       /\ \A i \in DOMAIN u, j \in DOMAIN a : i < p + j /\ i \in Nat /\ j \in Nat /\ p \in Nat
  BY <1>4, <1>6, <1>8, Zenon
<1> QED
  BY <1>3, <1>9, <1>10, Zenon


LEMMA ArriveKept ==
  ASSUME InboundInv, NEW m \in I!Msgs, I!Arrive(m)
  PROVE  InboundInv'
<1>1. /\ UNCHANGED <<service, sort, oneByOne, linked, account, got, deferred, prompted, rejected, emitted, offered>>
      /\ holder' = holder /\ holder = Idle
  BY DEF I!Arrive, I!context, I!handling
<1>2. PICK a : Comes(m, a)
  BY Arrives
<1>3. /\ a \in Seq(I!Tasks) /\ a # <<>>
      /\ \A i \in DOMAIN a : a[i][1] = m /\ (a[i][2] = 2 => service = "discord" /\ sort[m] = "press")
      /\ \A i, j \in DOMAIN a : a[i] = a[j] => i = j
      /\ \A i \in DOMAIN order : order[i][1] # m
      /\ order' = order \o a
      /\ todo' = [t \in I!Tasks |-> IF t \in I!Range(a) THEN Opening(sort[m]) ELSE todo[t]]
      /\ since' = [t \in I!Tasks |-> IF t \in I!Range(a) THEN {linked} ELSE since[t]]
  BY <1>2 DEF Comes
<1>4. BaseInv /\ Arrived \subseteq I!Tasks /\ order \in Seq(I!Tasks)
      /\ \A u \in I!Tasks : u # Idle /\ u[1] \in I!Msgs /\ u[2] \in {1, 2} /\ u = <<u[1], u[2]>>
      /\ \A i \in DOMAIN order : order[i] \in Arrived
  BY OrderPlaces DEF InboundInv, BaseInv
<1>5. PICK w : w = order' /\ w = order \o a
  BY <1>3
<1>6. /\ w \in Seq(I!Tasks)
      /\ \A i \in DOMAIN order : i \in DOMAIN w /\ w[i] = order[i]
      /\ \A i \in DOMAIN w : i \in DOMAIN order \/ \E j \in DOMAIN a : i = Len(order) + j /\ w[i] = a[j]
      /\ \A j \in DOMAIN a : Len(order) + j \in DOMAIN w /\ w[Len(order) + j] = a[j]
      /\ \A i \in DOMAIN order, j \in DOMAIN a : i < Len(order) + j /\ i \in Nat /\ j \in Nat /\ Len(order) \in Nat
  <2>1. PICK u \in Seq(I!Tasks) : u = order
    BY <1>4
  <2> QED
    BY <1>3, <1>5, <2>1, Behind
<1>7. PICK fresh : fresh = I!Range(a)
  OBVIOUS
<1>8. /\ fresh \subseteq I!Tasks /\ fresh = {a[j] : j \in DOMAIN a}
      /\ \A u \in fresh : u[1] = m /\ (u[2] = 2 => service = "discord" /\ I!Of(u) = "press") /\ I!Of(u) = sort[m]
      /\ \A u \in Arrived : u[1] # m /\ u \notin fresh
  <2>1. fresh = {a[j] : j \in DOMAIN a}
    BY <1>7 DEF I!Range
  <2>2. \A u \in fresh : u \in I!Tasks /\ u[1] = m /\ (u[2] = 2 => service = "discord" /\ sort[m] = "press")
    BY <1>3, <2>1
  <2>3. \A u \in Arrived : u[1] # m
    BY <1>3, <1>4, OrderPlaces DEF Arrived, I!Range
  <2> QED
    BY <2>1, <2>2, <2>3 DEF I!Of
<1>9. Arrived' = Arrived \cup fresh
  <2>1. Arrived' = {w[i] : i \in DOMAIN w} /\ Arrived = {order[i] : i \in DOMAIN order}
    BY <1>5 DEF Arrived, I!Range
  <2> QED
    BY <1>6, <1>8, <2>1
<1>10. /\ I!Events' = I!Events /\ Spoke' = Spoke /\ I!Handler' = I!Handler
       /\ \A u : I!Of(u)' = I!Of(u) /\ (Unspent(u)' <=> Unspent(u))
  <2>1. I!Events' = I!Events /\ I!Handler' = I!Handler
    BY <1>1 DEF I!Events, I!Handler, I!SlackEnvelope
  <2>2. Spoke' = Spoke
    BY <2>1 DEF Spoke
  <2> QED
    BY <1>1, <2>1, <2>2 DEF I!Of, Unspent
<1>11. /\ Starts(service, sort[m], Opening(sort[m]))
       /\ sort[m] \in Filtered => Has(Opening(sort[m]), {Filter[sort[m]]})
  BY <1>4, Opens DEF BaseInv
<1>12. PICK h : h = Opening(sort[m])
  OBVIOUS
<1>13. /\ Shape(service, sort[m], h) /\ h # <<>> /\ Has(h, Outs) /\ h \in Seq(Stages)
       /\ sort[m] # "status" => Has(h, Seekers) /\ Head(h) # "publish"
       /\ service = "discord" /\ sort[m] = "press" => Has(h, {"defer"})
       /\ sort[m] \in Filtered => Has(h, {Filter[sort[m]]})
  BY <1>11, <1>12 DEF Starts, Shape
<1>14. /\ todo' \in [I!Tasks -> Seq(Stages)] /\ since' \in [I!Tasks -> SUBSET (Accounts \cup {NoOne})]
       /\ \A u \in fresh : todo'[u] = h /\ since'[u] = {linked}
       /\ \A u \in I!Tasks \ fresh : todo'[u] = todo[u] /\ since'[u] = since[u]
  BY <1>3, <1>4, <1>7, <1>8, <1>12, <1>13 DEF BaseInv
<1>15. ASSUME NEW x, NEW y
       PROVE  /\ Earlier(x, y) => Earlier(x, y)'
              /\ Earlier(x, y)' /\ y \in Arrived => Earlier(x, y)
  <2>1. Earlier(x, y)' <=> \E p, q \in DOMAIN w : p < q /\ w[p] = x /\ w[q] = y
    BY <1>5 DEF Earlier
  <2>2. Earlier(x, y) => \E p, q \in DOMAIN w : p < q /\ w[p] = x /\ w[q] = y
    BY <1>6 DEF Earlier
  <2>3. ASSUME NEW p \in DOMAIN w, NEW q \in DOMAIN w, p < q, w[p] = x, w[q] = y, y \in Arrived PROVE Earlier(x, y)
    <3>1. q \in DOMAIN order
      BY <1>6, <1>8, <2>3
    <3>2. p \in DOMAIN order
      <4>1. ASSUME NEW j \in DOMAIN a, p = Len(order) + j PROVE FALSE
        BY <1>6, <2>3, <3>1, <4>1
      <4> QED
        BY <1>6, <2>3, <4>1
    <3> QED
      BY <1>6, <2>3, <3>1, <3>2 DEF Earlier
  <2> QED
    BY <2>1, <2>2, <2>3
<1>16. BaseInv'
  <2>1. I!Sorts(service)' = I!Sorts(service)
    BY <1>1, <1>10 DEF I!Sorts
  <2>2. oneByOne' \in BOOLEAN /\ service' \in DOMAIN I!Handler' /\ sort' \in [I!Msgs -> I!Sorts(service)']
    BY <1>1, <1>4, <1>10, <2>1 DEF BaseInv
  <2>3. ASSUME NEW i \in DOMAIN w, NEW j \in DOMAIN w, w[i] = w[j] PROVE i = j
    <3>1. \A p, q \in DOMAIN order : order[p] = order[q] => p = q
      BY <1>4 DEF BaseInv
    <3>2. CASE i \in DOMAIN order /\ j \in DOMAIN order
      BY <1>6, <2>3, <3>1, <3>2
    <3>3. CASE i \in DOMAIN order /\ j \notin DOMAIN order
      <4>1. PICK q \in DOMAIN a : w[j] = a[q]
        BY <1>6, <3>3
      <4>2. order[i] = a[q]
        BY <1>6, <2>3, <3>3, <4>1
      <4> QED
        BY <1>3, <3>3, <4>2
    <3>4. CASE i \notin DOMAIN order /\ j \in DOMAIN order
      <4>1. PICK q \in DOMAIN a : w[i] = a[q]
        BY <1>6, <3>4
      <4>2. order[j] = a[q]
        BY <1>6, <2>3, <3>4, <4>1
      <4> QED
        BY <1>3, <3>4, <4>2
    <3>5. CASE i \notin DOMAIN order /\ j \notin DOMAIN order
      BY <1>3, <1>6, <2>3, <3>5
    <3> QED
      BY <3>2, <3>3, <3>4, <3>5
  <2>4. \E n \in Nat : {w[i][1] : i \in DOMAIN w} = 1 .. n
    <3>1. PICK n \in Nat : {order[i][1] : i \in DOMAIN order} = 1 .. n /\ m = n + 1
      BY Arrives
    <3>2. 1 .. n + 1 = (1 .. n) \cup {m} /\ n + 1 \in Nat
      BY <3>1
    <3>3. {w[i][1] : i \in DOMAIN w} = {order[i][1] : i \in DOMAIN order} \cup {m}
      <4>1. ASSUME NEW i \in DOMAIN w PROVE w[i][1] \in {order[p][1] : p \in DOMAIN order} \cup {m}
        <5>1. CASE i \in DOMAIN order
          BY <1>6, <5>1
        <5>2. CASE \E j \in DOMAIN a : w[i] = a[j]
          BY <1>3, <5>2
        <5> QED
          BY <1>6, <5>1, <5>2
      <4>2. ASSUME NEW p \in DOMAIN order PROVE order[p][1] \in {w[i][1] : i \in DOMAIN w}
        BY <1>6
      <4>3. m \in {w[i][1] : i \in DOMAIN w}
        <5>1. PICK j \in DOMAIN a : TRUE
          BY <1>3
        <5> QED
          BY <1>3, <1>6, <5>1
      <4> QED
        BY <4>1, <4>2, <4>3
    <3> QED
      BY <3>1, <3>2, <3>3
  <2>5. /\ linked' \in Accounts \cup {NoOne} /\ account' \in [I!Tasks -> Accounts \cup {NoOne}]
        /\ got' \in [I!Tasks -> 0 .. 1] /\ emitted' \in Seq(Records) /\ offered' \in Seq(Records)
    BY <1>1, <1>4 DEF BaseInv
  <2>6. /\ order' \in Seq(I!Tasks) /\ \A i, j \in DOMAIN order' : order'[i] = order'[j] => i = j
        /\ \E n \in Nat : {order'[i][1] : i \in DOMAIN order'} = 1 .. n
    <3>1. order' \in Seq(I!Tasks) /\ \A i, j \in DOMAIN order' : order'[i] = order'[j] => i = j
      BY <1>5, <1>6, <2>3
    <3>2. PICK n \in Nat : {w[i][1] : i \in DOMAIN w} = 1 .. n
      BY <2>4
    <3>3. {order'[i][1] : i \in DOMAIN order'} = 1 .. n
      BY <1>5, <3>2
    <3> QED
      BY <3>1, <3>3
  <2> QED
    BY <1>14, <2>2, <2>5, <2>6, Zenon DEF BaseInv
<1>17. TasksInv'
  <2>1. ASSUME NEW u \in Arrived PROVE TaskInv(u)'
    <3>1. TaskInv(u) /\ u \in I!Tasks \ fresh
      BY <1>4, <1>8 DEF InboundInv, TasksInv
    <3>2. todo'[u] = todo[u] /\ since'[u] = since[u]
      BY <1>14, <3>1
    <3> QED
      BY <1>1, <1>10, <3>1, <3>2, Zenon DEF TaskInv
  <2>2. ASSUME NEW u \in fresh PROVE TaskInv(u)'
    <3>1. Unspent(u) /\ u \in I!Tasks \ Arrived
      BY <1>8 DEF InboundInv, TasksInv
    <3>2. todo'[u] = h /\ since'[u] = {linked} /\ I!Of(u) = sort[m] /\ u \notin Spoke /\ u \notin prompted /\ u \notin rejected
      BY <1>8, <1>14, <3>1 DEF Unspent
    <3>3. Knows(service, sort[m], h, account[u], since'[u])
      BY <1>13 DEF Knows
    <3>4. ~(sort[m] # "status" /\ h # <<>> /\ Head(h) = "publish")
      BY <1>13
    <3>5. linked \in since'[u]
      BY <3>2
    <3> QED
      BY <1>1, <1>10, <1>13, <3>1, <3>2, <3>3, <3>4, <3>5, Zenon DEF TaskInv
  <2>3. ASSUME NEW u \in I!Tasks \ Arrived' PROVE todo'[u] = <<>> /\ Unspent(u)'
    <3>1. u \in I!Tasks \ Arrived /\ u \in I!Tasks \ fresh
      BY <1>9, <2>3
    <3>2. todo[u] = <<>> /\ Unspent(u)
      BY <3>1 DEF InboundInv, TasksInv
    <3> QED
      BY <1>10, <1>14, <3>1, <3>2
  <2> QED
    BY <1>9, <2>1, <2>2, <2>3 DEF TasksInv
<1>18. PairInv'
  <2>1. ASSUME NEW u \in Arrived PROVE Passed(u)' <=> Passed(u)
    <3>1. todo'[u] = todo[u]
      BY <1>4, <1>8, <1>14
    <3> QED
      BY <1>10, <3>1 DEF Passed
  <2>2. ASSUME NEW u \in fresh, service = "discord", I!Of(u) = "press" PROVE ~Passed(u)'
    <3>1. u \notin Spoke
      BY <1>8 DEF InboundInv, TasksInv, Unspent
    <3>2. todo'[u] = h /\ Has(h, {"defer"})
      BY <1>8, <1>13, <1>14, <2>2
    <3> QED
      BY <1>10, <3>1, <3>2 DEF Passed
  <2>3. \A u \in Arrived : u[2] = 2 => service = "discord" /\ I!Of(u) = "press"
    BY DEF InboundInv, PairInv
  <2>4. ASSUME service = "discord", NEW x \in Arrived \cup fresh, NEW u \in Arrived \cup fresh, I!Of(x) = "press", Passed(x)'
        PROVE  x[1] \in deferred /\ (x[1] = u[1] /\ Passed(u)' => x = u)
    <3>1. x \in Arrived /\ Passed(x)
      BY <2>1, <2>2, <2>4
    <3>2. x[1] \in deferred /\ \A y \in Arrived : x[1] = y[1] /\ Passed(y) => x = y
      BY <2>4, <3>1 DEF InboundInv, PairInv
    <3>3. CASE u \in Arrived
      BY <2>1, <3>2, <3>3
    <3>4. CASE u \in fresh
      BY <1>8, <3>1, <3>2, <3>4
    <3> QED
      BY <3>3, <3>4
  <2> QED
    BY <1>1, <1>8, <1>9, <1>10, <2>3, <2>4 DEF PairInv
<1>19. EventsInv'
  <2>1. ASSUME NEW i \in DOMAIN I!Events PROVE Due(I!Events[i])'
    <3>1. Due(I!Events[i])
      BY DEF InboundInv, EventsInv
    <3>2. PICK e : e = I!Events[i]
      OBVIOUS
    <3>3. e.task \in I!Tasks \ fresh /\ e.task \in Arrived
      BY <1>4, <1>8, <3>1, <3>2 DEF Due
    <3>4. since'[e.task] = since[e.task]
      BY <1>14, <3>3
    <3> QED
      BY <1>1, <1>9, <1>10, <3>1, <3>2, <3>3, <3>4 DEF Due
  <2>2. \A i \in DOMAIN I!Events' : Due(I!Events[i])'
    BY <1>10, <2>1
  <2> QED
    BY <1>1, <1>10, <2>2 DEF InboundInv, EventsInv
<1>20. SerialInv'
  <2>1. ASSUME oneByOne, NEW x \in Arrived', NEW y \in Arrived', Earlier(x, y)', y \in Spoke
        PROVE  todo'[x] = <<>>
    <3>1. y \in Arrived
      <4>1. \A u \in fresh : u \notin Spoke
        BY <1>8 DEF InboundInv, TasksInv, Unspent
      <4> QED
        BY <1>9, <2>1, <4>1
    <3>2. Earlier(x, y)
      BY <1>15, <2>1, <3>1
    <3>3. x \in Arrived
      BY <1>4, <3>2 DEF Earlier
    <3>4. todo[x] = <<>>
      BY <2>1, <3>1, <3>2, <3>3 DEF InboundInv, SerialInv
    <3> QED
      BY <1>4, <1>8, <1>14, <3>3, <3>4
  <2>2. ASSUME oneByOne, NEW i \in DOMAIN I!Events, NEW j \in DOMAIN I!Events, i < j
        PROVE  Earlier(I!Events[i].task, I!Events[j].task)'
    <3>1. PICK x, y : x = I!Events[i].task /\ y = I!Events[j].task
      OBVIOUS
    <3>2. Earlier(x, y)
      BY <2>2, <3>1 DEF InboundInv, SerialInv
    <3>3. Earlier(x, y)'
      BY <1>15, <3>2
    <3>4. I!Events'[i].task = x /\ I!Events'[j].task = y
      BY <1>10, <3>1
    <3> QED
      BY <3>3, <3>4 DEF Earlier
  <2>3. oneByOne => (\A i, j \in DOMAIN I!Events : i < j => Earlier(I!Events[i].task, I!Events[j].task))'
    BY <1>10, <2>2
  <2> QED
    BY <1>1, <1>10, <2>1, <2>3 DEF SerialInv
<1> QED
  BY <1>16, <1>17, <1>18, <1>19, <1>20 DEF InboundInv


(* What the invariant says.                                                *)
LEMMA Ones ==
  ASSUME NEW S, NEW b \in BOOLEAN, b => \E x : S = {x}, ~b => S = {}
  PROVE  I!Cardinality(S) = IF b THEN 1 ELSE 0
<1>1. I!Cardinality(S) = Cardinality(S)
  BY CardinalityOfI
<1>2. Cardinality({}) = 0 /\ \A x : Cardinality({x}) = 1
  BY FS_EmptySet, FS_Singleton
<1> QED
  BY <1>1, <1>2

LEMMA InboundSays == ASSUME InboundInv PROVE I!InboundSound
<1>1. \A i, j \in DOMAIN I!Events : I!Events[i].task[1] = I!Events[j].task[1] => i = j
  BY DEF InboundInv, EventsInv
<1>2. \A i \in DOMAIN I!Events : Due(I!Events[i])
  BY DEF InboundInv, EventsInv
<1>3. I!HandledOnce
  <2>1. ASSUME NEW m \in I!Msgs PROVE I!Cardinality(I!EventsOfMsg(m)) <= 1
    <3>1. PICK S : S = I!EventsOfMsg(m)
      OBVIOUS
    <3>2. \A x, y \in S : x = y
      BY <1>1, <3>1 DEF I!EventsOfMsg
    <3>3. Cardinality(S) <= 1 /\ I!Cardinality(S) = Cardinality(S)
      BY <3>2, AtMostOne, CardinalityOfI
    <3> QED
      BY <3>1, <3>3
  <2>2. ASSUME NEW t \in I!Tasks, I!Handled(t), I!Of(t) \in {"text", "file"}
        PROVE  I!Cardinality(I!EventsOf(t)) + I!Cardinality({t} \cap prompted) + I!Cardinality({t} \cap rejected) = 1
    <3>1. t \in Arrived /\ todo[t] = <<>>
      BY <2>2 DEF I!Handled, Arrived
    <3>2. ~Has(todo[t], Outs)
      BY <3>1 DEF Has
    <3>3. /\ ~Unspent(t) /\ (t \in Spoke => t \notin prompted /\ t \notin rejected)
          /\ ~(t \in prompted /\ t \in rejected)
      <4>1. TaskInv(t)
        BY <3>1 DEF InboundInv, TasksInv
      <4> QED
        BY <2>2, <3>2, <4>1 DEF TaskInv
    <3>4. PICK b \in BOOLEAN, p \in BOOLEAN, q \in BOOLEAN : (b <=> t \in Spoke) /\ (p <=> t \in prompted) /\ (q <=> t \in rejected)
      OBVIOUS
    <3>5. PICK S : S = I!EventsOf(t)
      OBVIOUS
    <3>6. (b => \E x : S = {x}) /\ (~b => S = {})
      <4>1. S = {i \in DOMAIN I!Events : I!Events[i].task = t}
        BY <3>5 DEF I!EventsOf
      <4>2. b <=> \E i \in DOMAIN I!Events : I!Events[i].task = t
        BY <3>4 DEF Spoke
      <4>3. \A x, y \in S : x = y
        BY <1>1, <4>1
      <4> QED
        BY <4>1, <4>2, <4>3
    <3>7. I!Cardinality(S) = IF b THEN 1 ELSE 0
      BY <3>6, Ones
    <3>8. I!Cardinality({t} \cap prompted) = IF p THEN 1 ELSE 0
      <4>1. PICK T : T = {t} \cap prompted
        OBVIOUS
      <4>2. (p => T = {t}) /\ (~p => T = {})
        BY <3>4, <4>1
      <4> QED
        BY <4>1, <4>2, Ones
    <3>9. I!Cardinality({t} \cap rejected) = IF q THEN 1 ELSE 0
      <4>1. PICK T : T = {t} \cap rejected
        OBVIOUS
      <4>2. (q => T = {t}) /\ (~q => T = {})
        BY <3>4, <4>1
      <4> QED
        BY <4>1, <4>2, Ones
    <3>10. (b /\ ~p /\ ~q) \/ (~b /\ p /\ ~q) \/ (~b /\ ~p /\ q)
      BY <3>3, <3>4 DEF Unspent
    <3> QED
      BY <3>5, <3>7, <3>8, <3>9, <3>10
  <2> QED
    BY <2>1, <2>2 DEF I!HandledOnce
<1>4. I!OnlyDue
  <2> SUFFICES ASSUME NEW i \in DOMAIN I!Events, NEW t, t = I!Events[i].task
               PROVE  I!Of(t) \notin Filtered /\ t \notin prompted \cup rejected
    BY DEF I!OnlyDue, Filtered
  <2>1. t \in Spoke /\ Due(I!Events[i])
    BY <1>2 DEF Spoke
  <2>2. t \in Arrived /\ I!Of(t) \notin Filtered
    BY <2>1 DEF Due
  <2>3. TaskInv(t)
    BY <2>2 DEF InboundInv, TasksInv
  <2> QED
    BY <2>1, <2>2, <2>3 DEF TaskInv
<1>5. I!RightAccount
  BY <1>2 DEF I!RightAccount, Due
<1>6. I!InOrder
  BY DEF I!InOrder, InboundInv, SerialInv, Earlier
<1> QED
  BY <1>3, <1>4, <1>5, <1>6 DEF I!InboundSound

LEMMA InboundKept == ASSUME InboundInv, [I!Next]_(I!vars) PROVE InboundInv'
<1>1. CASE I!Next
  BY <1>1, ArriveKept, ElseKept, HandleKept DEF I!Next
<1>2. CASE UNCHANGED I!vars
  <2>1. UNCHANGED <<service, sort, oneByOne, order, todo, holder, linked, account, since, got, deferred, prompted, rejected, emitted, offered>>
    BY <1>2 DEF I!vars
  <2>2. I!Events' = I!Events /\ Arrived' = Arrived /\ I!Handler' = I!Handler
    BY <2>1 DEF I!Events, Arrived, I!Range, I!Handler, I!SlackEnvelope
  <2>3. Spoke' = Spoke /\ I!Sorts(service)' = I!Sorts(service)
    BY <2>1, <2>2 DEF Spoke, I!Sorts
  <2>4. /\ \A u : I!Of(u)' = I!Of(u) /\ (Unspent(u)' <=> Unspent(u)) /\ (Passed(u)' <=> Passed(u))
        /\ \A u, w : Earlier(u, w)' <=> Earlier(u, w)
    BY <2>1, <2>3 DEF I!Of, Unspent, Passed, Earlier
  <2>5. BaseInv'
    <3>1. BaseInv
      BY DEF InboundInv
    <3>2. PICK n \in Nat : {order[i][1] : i \in DOMAIN order} = 1 .. n
      BY <3>1 DEF BaseInv
    <3>3. {order'[i][1] : i \in DOMAIN order'} = 1 .. n
      BY <2>1, <3>2
    <3>4. oneByOne' \in BOOLEAN /\ service' \in DOMAIN I!Handler' /\ sort' \in [I!Msgs -> I!Sorts(service)']
      BY <2>1, <2>2, <2>3, <3>1 DEF BaseInv
    <3>5. /\ order' \in Seq(I!Tasks) /\ \A i, j \in DOMAIN order' : order'[i] = order'[j] => i = j
          /\ todo' \in [I!Tasks -> Seq(Stages)] /\ linked' \in Accounts \cup {NoOne}
          /\ account' \in [I!Tasks -> Accounts \cup {NoOne}] /\ got' \in [I!Tasks -> 0 .. 1]
          /\ since' \in [I!Tasks -> SUBSET (Accounts \cup {NoOne})]
          /\ emitted' \in Seq(Records) /\ offered' \in Seq(Records)
      BY <2>1, <3>1 DEF BaseInv
    <3>6. \E n1 \in Nat : {order'[i][1] : i \in DOMAIN order'} = 1 .. n1
      BY <3>3
    <3> QED
      BY <3>4, <3>5, <3>6, Zenon DEF BaseInv
  <2>6. TasksInv' /\ PairInv'
    BY <2>1, <2>2, <2>3, <2>4 DEF InboundInv, TasksInv, TaskInv, PairInv
  <2>7. EventsInv'
    BY <2>1, <2>2, <2>4 DEF InboundInv, EventsInv, Due
  <2>8. (\A i, j \in DOMAIN I!Events : i < j => Earlier(I!Events[i].task, I!Events[j].task))'
          <=> \A i, j \in DOMAIN I!Events : i < j => Earlier(I!Events[i].task, I!Events[j].task)
    BY <2>1, <2>2 DEF Earlier
  <2>9. SerialInv'
    BY <2>1, <2>2, <2>3, <2>4, <2>8 DEF InboundInv, SerialInv
  <2> QED
    BY <2>5, <2>6, <2>7, <2>9 DEF InboundInv
<1> QED
  BY <1>1, <1>2

(* What a user sends is answered once, refused or heard once, by the right *)
(* account and in order, whatever is interleaved: the handlers of the      *)
(* seven services, for any number of messages, accounts and changes        *)
(* (channels/<service>/handlers.py).                                       *)
THEOREM MessagesHeard == I!Spec => []InboundSound
<1>1. I!Init => InboundInv
  BY InboundStarts
<1>2. InboundInv /\ [I!Next]_(I!vars) => InboundInv'
  BY InboundKept
<1>3. InboundInv => InboundSound
  BY InboundSays DEF InboundSound
<1> QED
  BY <1>1, <1>2, <1>3, PTL DEF I!Spec

-----------------------------------------------------------------------------
(* The whole of MCRequests, where a behaviour is one part's.               *)
RequestsInv ==
  /\ part = "inbound" => InboundInv
  /\ part = "input" => InputInv
  /\ part \in {"apps", "files"} => DesktopInv
  /\ MirrorInv /\ HistoryInv
  /\ WaitsInv /\ WorkspaceInv /\ StreamsInv

LEMMA SuiteStarts == SuiteInit => RequestsInv
<1> SUFFICES ASSUME SuiteInit PROVE RequestsInv
  OBVIOUS
<1>1. A!Init /\ H!Init /\ M!Init
  BY DEF SuiteInit
<1>2. (part = "inbound" => I!Init) /\ (part = "input" => N!Init) /\ (part \in {"apps", "files"} => D!Init)
  BY DEF SuiteInit, InitMessages, InitCalls, InitInbound, InitOutbound, InitChunks, InitBlocks,
         InitInput, InitDesktop, InitOthers
<1> QED
  BY <1>1, <1>2, InboundStarts, InputStarts, AppsStart, FilesStart, MirrorStarts, HistoryStarts, WaitsStart,
     WorkspaceStarts, StreamsStart DEF RequestsInv, DesktopInv

(* A step of one part is none of another's.                                *)
LEMMA SuiteSteps ==
  ASSUME [Calling \/ Messaging \/ Pointing \/ Hosting \/ Agent \/ Chatting \/ Listening]_<<vars, suite>>
  PROVE  /\ part' = part
         /\ part = "inbound" => [I!Next]_(I!vars)
         /\ part = "input" => [N!Next]_(N!vars)
         /\ part \in {"apps", "files"} => [D!Next]_(D!vars)
         /\ [M!Next]_(M!vars) /\ [H!Next]_(H!vars) /\ [A!Next]_(A!vars)
<1> USE DEF suite
<1>1. UNCHANGED input => UNCHANGED N!vars
  BY DEF input, N!vars
<1>2. UNCHANGED desktop => UNCHANGED D!vars
  BY DEF desktop, D!vars, D!apps, D!files
<1>3. UNCHANGED agents => UNCHANGED A!vars
  BY DEF agents, A!vars, A!protocol, A!workspace, A!serving
<1>4. UNCHANGED chat => UNCHANGED H!vars
  BY DEF chat, H!vars, H!row, H!history, H!bounds
<1>5. UNCHANGED media => UNCHANGED M!vars
  BY DEF media, M!vars
<1>6. UNCHANGED messages => UNCHANGED I!vars
  BY DEF messages, inbound, I!vars
<1>7. CASE Calling \/ UNCHANGED <<vars, suite>>
  BY <1>1, <1>2, <1>3, <1>4, <1>5, <1>6, <1>7 DEF Calling
<1>8. CASE Messaging
  BY <1>1, <1>2, <1>3, <1>4, <1>5, <1>6, <1>8 DEF Messaging, Message
<1>9. CASE Pointing
  BY <1>2, <1>3, <1>4, <1>5, <1>6, <1>9 DEF Pointing
<1>10. CASE Hosting
  BY <1>1, <1>3, <1>4, <1>5, <1>6, <1>10 DEF Hosting, D!Next
<1>11. CASE Agent
  BY <1>1, <1>2, <1>4, <1>5, <1>6, <1>11 DEF Agent, A!Next
<1>12. CASE Chatting
  BY <1>1, <1>2, <1>3, <1>5, <1>6, <1>12 DEF Chatting
<1>13. CASE Listening
  BY <1>1, <1>2, <1>3, <1>4, <1>6, <1>13 DEF Listening, M!vars
<1> QED
  BY <1>7, <1>8, <1>9, <1>10, <1>11, <1>12, <1>13

(* The same of the composition that TLC checks.                            *)
THEOREM RequestsSound == SuiteSpec => [](InboundSound /\ ControlSound /\ AgentsTalk /\ HistorySound)
<1>1. SuiteInit => RequestsInv
  BY SuiteStarts
<1>2. RequestsInv /\ [Calling \/ Messaging \/ Pointing \/ Hosting \/ Agent \/ Chatting \/ Listening]_<<vars, suite>>
      => RequestsInv'
  BY SuiteSteps, InboundKept, InputKept, DesktopKept, MirrorKept, HistoryKept, WaitsKept, WorkspaceKept, StreamsKept
     DEF RequestsInv
<1>3. RequestsInv => InboundSound /\ ControlSound /\ AgentsTalk /\ HistorySound
  BY InboundSays, InputSays, AppsSay, FilesSay, MirrorSays, HistorySays, WaitsSay, WorkspaceSays, StreamsSay
     DEF RequestsInv, DesktopInv, InboundSound, ControlSound, D!DesktopSound, AgentsTalk, A!AgentsTalk, HistorySound
<1> QED
  BY <1>1, <1>2, <1>3, PTL DEF SuiteSpec
=============================================================================
