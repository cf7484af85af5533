------------------------------- MODULE Chunks -------------------------------
(***************************************************************************)
(* How the formatters of five chat services cut a response into messages   *)
(* the service accepts, and where its buttons go                           *)
(* (channels/<service>/formatter.py: split_message, format_response).      *)
(*                                                                         *)
(* A text is a sequence of characters of four kinds.  One step is one pass *)
(* of the loop of split_message; the last step is the rest of              *)
(* format_response.  Markup and payloads are left out, and every action    *)
(* has a label (Messenger skips one that has none).                        *)
(***************************************************************************)
EXTENDS Integers, Sequences, SequencesExt, FiniteSetsExt

CONSTANTS Limit,        \* MAX_MESSAGE_LENGTH
          TemplateCap,  \* what Messenger's button template takes of a text (640)
          ButtonCap,    \* MAX_BUTTONS of WhatsApp and of Messenger's template (3)
          ReplyCap,     \* MAX_QUICK_REPLIES of Messenger (13), Discord's 25
          MaxLen,       \* bound: characters of a response
          MaxActions,   \* bound: actions of a response
          MaxTurns      \* bound: passes of the loop that are told apart

VARIABLES
  service,    \* whose formatter
  text,       \* the text given to split_message
  actions,    \* number of InlineActions of the response
  template,   \* Messenger: metadata["ui"] == "buttons"
  phase,      \* "split", "format", "done"
  remaining, chunks,
  turns,      \* passes of the loop
  shown       \* the chunk that carries the actions (0: none) and how many

vars == <<service, text, actions, template, phase, remaining, chunks, turns, shown>>

Services == {"telegram", "discord", "whatsapp", "messenger", "signal"}
White == {" ", "\n"}
Char == White \cup {"x", "."}
Texts == UNION {[1 .. n -> Char] : n \in 0 .. MaxLen}

\* str.rfind(pattern, 0, end): the characters before the last occurrence, or -1.
RFind(s, pattern, end) ==
  LET at == {i \in 0 .. (end - Len(pattern)) :
               SubSeq(s, i + 1, i + Len(pattern)) = pattern}
  IN IF at = {} THEN -1 ELSE Max(at)

FirstFrom(least, cuts) == LET found == SelectSeq(cuts, LAMBDA c : c >= least)
                          IN IF found = <<>> THEN Limit ELSE Head(found)

LStrip(s, W) == LET kept == {i \in DOMAIN s : s[i] \notin W}
                IN IF kept = {} THEN <<>> ELSE SubSeq(s, Min(kept), Len(s))
RStrip(s, W) == Reverse(LStrip(Reverse(s), W))

\* A paragraph, a line or the end of a sentence, whichever is found first, and the
\* limit when the cut would be at the very beginning.
ParagraphCut(s) ==
  LET sentence == RFind(s, <<".", " ">>, Limit)
      found == SelectSeq(<<RFind(s, <<"\n", "\n">>, Limit), RFind(s, <<"\n">>, Limit),
                           IF sentence = -1 THEN -1 ELSE sentence + 1>>,
                         LAMBDA c : c # -1)
  IN IF found = <<>> \/ Head(found) <= 0 THEN Limit ELSE Head(found)

\* WhatsApp and Messenger take any line end or space, the first character included.
WordCut(s) == FirstFrom(0, <<RFind(s, <<"\n">>, Limit), RFind(s, <<" ">>, Limit)>>)

\* Signal refuses a cut at the very beginning.
SafeCut(s) == FirstFrom(1, <<RFind(s, <<"\n">>, Limit), RFind(s, <<" ">>, Limit)>>)

Init ==
  /\ service \in Services
  /\ text \in Texts
  /\ actions \in 0 .. MaxActions
  /\ template \in BOOLEAN /\ (template => service = "messenger" /\ actions > 0)
  /\ service = "signal" /\ actions > 0 => text # <<>>
  /\ phase = "split"
  /\ remaining = text /\ chunks = <<>> /\ turns = 0
  /\ shown = [at |-> 0, count |-> 0]

Keep == UNCHANGED <<service, text, actions, template>>

\* A text of at most Limit characters is one chunk; a loop ends with the rest of the
\* text or with nothing left.
EndSplit(rest) ==
  /\ chunks' = rest
  /\ remaining' = <<>>
  /\ phase' = "format"
  /\ UNCHANGED <<turns, shown>> /\ Keep

\* One pass of the loop.  Passes beyond MaxTurns are counted modulo and their chunks
\* not kept, so that a loop that never ends is a cycle of states.
Turn(chunk, rest) ==
  /\ remaining' = rest
  /\ chunks' = IF Len(chunks) < MaxTurns THEN Append(chunks, chunk) ELSE chunks
  /\ turns' = IF turns < MaxTurns THEN turns + 1 ELSE MaxTurns - 1
  /\ UNCHANGED <<phase, shown>> /\ Keep

\* A change SplitSound must notice: the character after the cut is lost.
TrimmedOneShort(cut) == Turn(RStrip(SubSeq(remaining, 1, cut), White),
                             LStrip(SubSeq(remaining, cut + 2, Len(remaining)), White))

Trimmed(cut) == Turn(RStrip(SubSeq(remaining, 1, cut), White),
                     LStrip(SubSeq(remaining, cut + 1, Len(remaining)), White))
Lined(cut) == Turn(SubSeq(remaining, 1, cut),
                   LStrip(SubSeq(remaining, cut + 1, Len(remaining)), {"\n"}))

Splitting(s, emptyHasNone, Pass) ==
  /\ service = s /\ phase = "split"
  /\ \/ text = <<>> /\ EndSplit(IF emptyHasNone THEN <<>> ELSE <<text>>)
     \/ text # <<>> /\ remaining = <<>> /\ EndSplit(chunks)
     \/ remaining # <<>> /\ Len(remaining) <= Limit /\ EndSplit(Append(chunks, remaining))
     \/ Len(remaining) > Limit /\ Pass

SplitTelegram == Splitting("telegram", FALSE, Trimmed(ParagraphCut(remaining)))
SplitDiscord == Splitting("discord", FALSE, Trimmed(ParagraphCut(remaining)))
SplitWhatsApp == Splitting("whatsapp", TRUE, Lined(WordCut(remaining)))
SplitMessenger == Splitting("messenger", TRUE, Lined(WordCut(remaining)))
SplitSignal == Splitting("signal", TRUE, Lined(SafeCut(remaining)))

\* The rest of format_response: the actions go to the last chunk.
Formatting(s, pieces, count) ==
  /\ service = s /\ phase = "format"
  /\ phase' = "done"
  /\ chunks' = pieces
  /\ shown' = IF count > 0 /\ pieces # <<>> THEN [at |-> Len(pieces), count |-> count]
              ELSE shown
  /\ UNCHANGED <<remaining, turns>> /\ Keep

Capped(cap) == Min({actions, cap})

\* Rows of three buttons, as many as there are actions.
FormatTelegram == Formatting("telegram", chunks, actions)
\* At most 25 buttons.
FormatDiscord == Formatting("discord", chunks, Capped(ReplyCap))
\* At most three reply buttons; an empty response is no message.
FormatWhatsApp == Formatting("whatsapp", chunks, Capped(ButtonCap))
\* Actions without a text have an empty message of their own; a button template takes
\* only the beginning of the last chunk, and only when the actions fit it, which are
\* quick replies otherwise.
FormatMessenger ==
  LET base == IF chunks = <<>> /\ actions > 0 THEN <<<<>>>> ELSE chunks
      asTemplate == template /\ actions \in 1 .. ButtonCap
      cut == IF asTemplate
             THEN [base EXCEPT ![Len(base)] = SubSeq(@, 1, Min({Len(@), TemplateCap}))]
             ELSE base
  IN Formatting("messenger", cut, Capped(IF asTemplate THEN ButtonCap ELSE ReplyCap))
\* The actions were written into the text as numbered lines.
FormatSignal == Formatting("signal", chunks, 0)

Split == SplitTelegram \/ SplitDiscord \/ SplitWhatsApp \/ SplitMessenger \/ SplitSignal
Next ==
  \/ Split
  \/ FormatTelegram \/ FormatDiscord \/ FormatWhatsApp \/ FormatMessenger \/ FormatSignal

Fairness == WF_vars(Next)
Spec == Init /\ [][Next]_vars /\ Fairness

-----------------------------------------------------------------------------
Written(s) == SelectSeq(s, LAMBDA c : c \notin White)
Cut == service = "messenger" /\ template /\ actions \in 1 .. ButtonCap /\ phase = "done"

TypeOK ==
  /\ service \in Services /\ phase \in {"split", "format", "done"}
  /\ text \in Texts /\ remaining \in Texts
  /\ \A i \in DOMAIN chunks : chunks[i] \in Texts
  /\ turns \in 0 .. MaxTurns
  /\ shown.at \in 0 .. Len(chunks) /\ shown.count \in 0 .. MaxActions

\* Nothing that is written is lost, doubled or moved by the cuts, however lines, spaces
\* and sentences fall (a button template excepted, which takes only the beginning of
\* its text), and the actions are on the last message (<service>/formatter.py,
\* split_message and format_response).
NothingLostAtCuts ==
  /\ ~Cut => Written(FlattenSeq(chunks) \o remaining) = Written(text)
  /\ phase = "done" => shown.at \in {0, Len(chunks)}

\* Every message fits the service, and three of the loops take at least one character
\* a pass.
PiecesFit ==
  /\ \A i \in DOMAIN chunks : Len(chunks[i]) <= Limit
  /\ service \in {"telegram", "discord", "signal"} => turns <= Len(text) - Len(remaining)

SplitSound == NothingLostAtCuts /\ PiecesFit

\* "Split long text into chunks that fit WhatsApp's message limit"
\* (whatsapp/formatter.py:75): every text that begins with a word is split in the end.
SplitEnds == (text # <<>> /\ Head(text) \notin White) => <>(phase = "done")
=============================================================================
