---------------------------- MODULE VoiceActivity ----------------------------
(***************************************************************************)
(* Where speech begins and ends: VoiceActivityDetector (voice/vad.py).     *)
(*                                                                         *)
(* Audio comes in pieces, two of which are a frame; a segment is the       *)
(* numbers of its pieces.  Whether a frame is speech is the Silero model's *)
(* verdict, which is external: any.                                        *)
(***************************************************************************)
EXTENDS Integers, Sequences, FiniteSets

CONSTANTS
  Modes,            \* among "push_to_talk", "auto_detect", "walkie_talkie"
  SilenceFrames,    \* frames_per_silence
  MinSpeechFrames,  \* frames_per_min_speech
  MaxChunk,         \* bound: pieces in a chunk
  MaxPieces,        \* bound: pieces since the start
  MaxReturned       \* bound: calls of stop() once so many segments were returned

VARIABLES
  mode,      \* _mode
  active,    \* _active
  buffer,    \* _buffer: the numbers of its pieces
  detector,  \* _is_speech, _speech_frames, _silence_frames, _speech_buffer, _segments
  fed,       \* history: the pieces taken since the start
  verdicts,  \* history: of the frames since the start
  taken      \* history: what get_segments() and stop() returned since the start

vars == <<mode, active, buffer, detector, fed, verdicts, taken>>

Cleared == [isSpeech |-> FALSE, speech |-> 0, silence |-> 0, heard |-> <<>>, segments |-> <<>>]
Fresh ==
  /\ buffer' = <<>> /\ detector' = Cleared
  /\ fed' = 0 /\ verdicts' = <<>> /\ taken' = <<>>

Init ==
  /\ mode \in Modes /\ active = FALSE
  /\ buffer = <<>> /\ detector = Cleared
  /\ fed = 0 /\ verdicts = <<>> /\ taken = <<>>

-----------------------------------------------------------------------------
(* One frame, number n, by its verdict.                                    *)
Frame(n) == <<2 * n - 1, 2 * n>>

\* Slip: speech does not end a silence.
SpeechInSilence(d, n) ==
  [d EXCEPT !.isSpeech = TRUE, !.speech = @ + 1, !.heard = @ \o Frame(n)]

Speech(d, n) ==
  [d EXCEPT !.isSpeech = TRUE, !.speech = @ + 1, !.silence = 0, !.heard = @ \o Frame(n)]

\* The silence is long enough: what was heard is a segment, if it is not too short.
Ended(d) ==
  [Cleared EXCEPT !.segments =
     IF d.speech >= MinSpeechFrames THEN Append(d.segments, d.heard) ELSE d.segments]

Silence(d) ==
  IF ~d.isSpeech THEN d
  ELSE IF d.silence + 1 >= SilenceFrames THEN Ended(d)
  ELSE [d EXCEPT !.silence = @ + 1]

\* _process_auto_detect(): vs are the verdicts of the whole frames there are.
Detected(vs) ==
  LET first == Len(verdicts)
      after[i \in 0..Len(vs)] ==
        IF i = 0 THEN detector
        ELSE IF vs[i] THEN Speech(after[i - 1], first + i) ELSE Silence(after[i - 1])
  IN  after[Len(vs)]

-----------------------------------------------------------------------------
Start == active' = TRUE /\ Fresh /\ UNCHANGED mode

Feed(k) ==
  LET all == buffer \o [i \in 1..k |-> fed + i] IN
    /\ active /\ fed + k <= MaxPieces /\ fed' = fed + k
    /\ IF mode # "auto_detect"
       THEN buffer' = all /\ UNCHANGED <<detector, verdicts>>
       ELSE \E vs \in [1..(Len(all) \div 2) -> BOOLEAN] :
              /\ buffer' = SubSeq(all, 2 * Len(vs) + 1, Len(all))
              /\ detector' = Detected(vs) /\ verdicts' = verdicts \o vs
    /\ UNCHANGED <<mode, active, taken>>

GetSegments ==
  /\ taken' = taken \o detector.segments
  /\ detector' = [detector EXCEPT !.segments = <<>>]
  /\ UNCHANGED <<mode, active, buffer, fed, verdicts>>

\* stop() returns the segments and, while speech goes on, what the buffer holds as
\* one more: the rest of a frame, and not the speech that was heard.  In the other
\* modes the buffer is everything.  The buffer is kept, so a second stop() returns
\* it again.
Stop ==
  /\ Len(taken) < MaxReturned
  /\ active' = FALSE
  /\ LET rest == IF buffer # <<>> /\ (mode = "auto_detect" => detector.isSpeech)
                 THEN <<buffer>> ELSE <<>>
     IN taken' = taken \o detector.segments \o rest
  /\ detector' = [detector EXCEPT !.segments = <<>>]
  /\ UNCHANGED <<mode, buffer, fed, verdicts>>

Reset == Fresh /\ UNCHANGED <<mode, active>>

Next == Start \/ (\E k \in 1..MaxChunk : Feed(k)) \/ GetSegments \/ Stop \/ Reset

Spec == Init /\ [][Next]_vars

-----------------------------------------------------------------------------
TypeOK ==
  /\ mode \in Modes /\ active \in BOOLEAN /\ buffer \in Seq(1..MaxPieces)
  /\ detector \in [isSpeech : BOOLEAN, speech : Nat, silence : Nat, heard : Seq(Nat),
                   segments : Seq(Seq(Nat))]
  /\ fed \in 0..MaxPieces /\ verdicts \in Seq(BOOLEAN) /\ taken \in Seq(Seq(Nat))

\* The utterances of a recording: speech with no silence in it as long as the
\* threshold (one frame, for a threshold under one).
Quiet == IF SilenceFrames = 0 THEN 1 ELSE SilenceFrames
Spoken == {i \in DOMAIN verdicts : verdicts[i]}
Begins == {i \in Spoken : \A j \in Spoken : j < i => i - j > Quiet}
Utterance(b) == {i \in Spoken : i >= b /\ \A c \in Begins : c <= b \/ i < c}
Ends(b) == \A i \in Utterance(b) : Len(verdicts) - i >= Quiet
Sorted(S) ==
  [i \in 1..Cardinality(S) |-> CHOOSE n \in S : Cardinality({m \in S : m < n}) = i - 1]
Audio(S) ==
  LET frames == Sorted(S) IN [i \in 1..2 * Len(frames) |-> Frame(frames[(i + 1) \div 2])[2 - (i % 2)]]

\* The segments are the utterances that have ended and are not too short, each
\* once, in order and without the silence in them, however the audio was cut into
\* chunks; what is being heard is the utterance that has not ended; and what else
\* stop() returned, less than a frame, is what came after the last frame of an
\* utterance that had not ended (_process_auto_detect(), vad.py:85; stop(),
\* vad.py:131, which loses what was heard of that utterance).
UtterancesExact ==
  mode = "auto_detect" =>
    LET done == {b \in Begins : Ends(b) /\ Cardinality(Utterance(b)) >= MinSpeechFrames}
        open == {b \in Begins : ~Ends(b)}
        Whole(s) == Len(s) > 1
    IN  /\ SelectSeq(taken \o detector.segments, Whole)
             = [i \in 1..Cardinality(done) |-> Audio(Utterance(Sorted(done)[i]))]
        /\ \A i \in DOMAIN taken :
             ~Whole(taken[i]) => taken[i] = <<2 * Len(verdicts) + 1>> /\ fed = 2 * Len(verdicts) + 1
                                 /\ open # {} /\ ~active
        /\ detector.heard = Audio(UNION {Utterance(b) : b \in open})
        /\ detector.isSpeech <=> open # {}
        /\ \A i \in DOMAIN buffer : buffer[i] > 2 * Len(verdicts)

\* Between start and stop everything is kept in the modes that detect nothing, and
\* stop() returns all of it (vad.py:126).
AllKept ==
  mode # "auto_detect" =>
    /\ buffer = [i \in 1..fed |-> i]
    /\ \A i \in DOMAIN taken : taken[i] = buffer

SegmentsSound == UtterancesExact /\ AllKept
=============================================================================
