------------------------------- MODULE Blocks -------------------------------
(***************************************************************************)
(* How the formatters of Slack and Teams turn a response into blocks: the  *)
(* lines of the text are walked once, lines of plain text are collected    *)
(* until a line of another kind or the end flushes them into one block,    *)
(* and the actions come last (channels/slack/formatter.py,                 *)
(* channels/teams/formatter.py).                                           *)
(*                                                                         *)
(* A line stands for its number and its kind; a fence is a whole fenced    *)
(* code block, which is one line by the time the lines are walked.  A      *)
(* fence whose closing mark is followed by text is a plain line, and loses *)
(* its code.                                                               *)
(***************************************************************************)
EXTENDS Integers, Sequences, SequencesExt, FiniteSetsExt

CONSTANTS SectionCap,  \* lines a block takes (3000 characters, 10000 for Teams)
          BlockCap,    \* MAX_BLOCKS of Slack
          ButtonCap,   \* MAX_ACTIONS, MAX_CARD_ACTIONS
          MaxLines,    \* bound: lines of a response
          MaxActions   \* bound: actions of a response

VARIABLES service, lines, actions,
          at,       \* lines walked
          current,  \* current_text: numbers of the lines collected
          blocks,   \* sequence of [kind, of]: of is the numbers of the lines
          buttons,  \* the buttons shown; -1 while the text is walked
          over

vars == <<service, lines, actions, at, current, blocks, buttons, over>>

\* Only Teams has a block of its own for a quotation.
Plain == {"text", "blank"} \cup (IF service = "slack" THEN {"quote"} ELSE {})
Kinds == {"text", "blank", "divider", "header", "fence", "quote"}

Init ==
  /\ service \in {"slack", "teams"}
  /\ lines \in UNION {[1 .. n -> Kinds] : n \in 0 .. MaxLines}
  /\ actions \in 0 .. MaxActions
  /\ at = 0 /\ current = <<>> /\ blocks = <<>> /\ buttons = -1 /\ over = FALSE

First(seq, n) == SubSeq(seq, 1, Min({n, Len(seq)}))

\* _flush_text(): blank lines at both ends are stripped, nothing is no block.
Flushed ==
  LET told == {i \in DOMAIN current : lines[current[i]] # "blank"}
  IN IF told = {} THEN blocks
     ELSE Append(blocks, [kind |-> "text",
                          of |-> First(SubSeq(current, Min(told), Max(told)), SectionCap)])

\* Without a text there is neither block nor button.
Empty ==
  /\ lines = <<>> /\ ~over
  /\ over' = TRUE /\ buttons' = 0
  /\ UNCHANGED <<service, lines, actions, at, current, blocks>>

Collect ==
  /\ at < Len(lines) /\ lines[at + 1] \in Plain
  /\ at' = at + 1
  /\ current' = Append(current, at + 1)
  /\ UNCHANGED <<service, lines, actions, blocks, buttons, over>>

\* A line with a block of its own flushes what was collected before it.
Single(kind) ==
  /\ at < Len(lines) /\ lines[at + 1] = kind
  /\ at' = at + 1
  /\ blocks' = Append(Flushed, [kind |-> kind, of |-> <<at + 1>>])
  /\ current' = <<>>
  /\ UNCHANGED <<service, lines, actions, buttons, over>>

SlackLine == service = "slack" /\ \E kind \in Kinds \ Plain : Single(kind)
TeamsLine == service = "teams" /\ \E kind \in Kinds \ Plain : Single(kind)

Walked == lines # <<>> /\ at = Len(lines) /\ buttons = -1

\* The blocks of the text and then of the whole message are cut at MAX_BLOCKS, so
\* that a text of that many blocks leaves no room for the actions.
SlackEnd ==
  /\ service = "slack" /\ Walked
  /\ LET body == First(Flushed, BlockCap)
         row == IF actions > 0 THEN <<[kind |-> "actions", of |-> <<>>]>> ELSE <<>>
         whole == First(body \o row, BlockCap)
     IN /\ blocks' = whole
        /\ buttons' = IF Len(whole) > Len(body) THEN Min({actions, ButtonCap}) ELSE 0
  /\ current' = <<>> /\ over' = TRUE
  /\ UNCHANGED <<service, lines, actions, at>>

\* The actions of a card are kept apart from its body.
TeamsEnd ==
  /\ service = "teams" /\ Walked
  /\ blocks' = Flushed
  /\ buttons' = Min({actions, ButtonCap})
  /\ current' = <<>> /\ over' = TRUE
  /\ UNCHANGED <<service, lines, actions, at>>

Next == Empty \/ Collect \/ SlackLine \/ TeamsLine \/ SlackEnd \/ TeamsEnd
Spec == Init /\ [][Next]_vars

-----------------------------------------------------------------------------
TypeOK ==
  /\ at \in 0 .. Len(lines) /\ buttons \in -1 .. MaxActions /\ over \in BOOLEAN
  /\ \A b \in Range(blocks) : b.kind \in Kinds \cup {"actions"} /\ Range(b.of) \subseteq DOMAIN lines

Taken == FlattenSeq([i \in DOMAIN blocks |-> blocks[i].of])

\* A line is beyond what its block takes if as many lines of plain text come before it
\* without a line of another kind.
Beyond(i) == \E from \in 1 .. i :
  /\ i - from >= SectionCap
  /\ \A j \in from .. i : lines[j] \in Plain

\* The blocks show the lines in their order, each once, and every line with text is
\* shown unless its section or the message was full; the buttons are missing only
\* when the blocks of the text filled the message
\* (slack/formatter.py, markdown_to_blocks and format_response; teams/formatter.py).
BlocksSound ==
  over =>
    /\ \A i, j \in DOMAIN Taken : i < j => Taken[i] < Taken[j]
    /\ \A i \in DOMAIN lines :
         \/ lines[i] = "blank" \/ i \in Range(Taken) \/ Beyond(i)
         \/ (service = "slack" /\ Len(blocks) = BlockCap)
    /\ actions > 0 /\ buttons = 0 =>
         lines = <<>> \/ (service = "slack" /\ Len(blocks) = BlockCap)
=============================================================================
