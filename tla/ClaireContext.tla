--------------------------- MODULE ClaireContext ---------------------------
(***************************************************************************)
(* ClaireContext and the loop of avatar_replay that feeds it: speech is    *)
(* resampled, pushed in small chunks, and after each chunk every window    *)
(* that is ready is popped.  A window is the stretch of sound around the   *)
(* time of one motion frame, padded where the turn has not begun or has    *)
(* ended.  Samples are numbered; Padding stands for a sample of silence.   *)
(***************************************************************************)
EXTENDS Integers, Sequences, FiniteSets, Resampler

CONSTANTS
  SourceRate,      \* rate of the recorded speech: 24000
  ContextRate,     \* sample_rate: 16000
  ContextRadius,   \* radius of the resampler between the two
  Fps,             \* motion frames per second
  Window, Offset,  \* window_samples and offset_samples: 8320 and 4160
  PushSize,        \* max_chunk_samples: 320
  SourceChunk,     \* bound: samples the source hands over at once
  MaxSource        \* bound: samples of the source

ASSUME ContextAssumption ==
  /\ {SourceRate, ContextRate, ContextRadius, Fps, Window, Offset, PushSize, SourceChunk,
      MaxSource} \subseteq Nat \ {0}
  /\ Offset < Window /\ Fps <= ContextRate

VARIABLES
  source,      \* branch.input_count
  branch,      \* resampled samples not pushed yet: [next, to)
  exhausted,   \* the source has ended
  history,     \* ClaireContext.buffer
  origin,      \* number of its first sample
  arrived,     \* ledger.next_sample
  closed,      \* eof: the AudioEOF was accepted
  frameIndex,  \* frame_index
  dropped,     \* cancelled
  failure,     \* pop() or push() raised
  window       \* history: the newest window, and how far the sound had come

contextVars == <<source, branch, exhausted, history, origin, arrived, closed,
                 frameIndex, dropped, failure, window>>

Padding == -1
NoWindow == [index |-> -1, samples |-> <<>>, known |-> 0, whole |-> FALSE]

Center(index) == (index * ContextRate) \div Fps
ValidEndReached(sample) == sample * SourceRate >= source * ContextRate
MostBuffered == Window + PushSize
Between(x, low, high) == IF x < low THEN low ELSE IF x > high THEN high ELSE x

\* pop() has a window to give: all its right context is there, or the sound has
\* ended and the frame lies before the end.
WindowReady ==
  /\ ~dropped
  /\ IF closed THEN ~ValidEndReached(Center(frameIndex))
               ELSE Center(frameIndex) - Offset + Window <= arrived

\* The window around `center`, out of a buffer that begins at sample `from`.
Materialized(buffer, from, center) ==
  LET start == center - Offset
      first == IF start < 0 THEN 0 ELSE start
      last == IF start + Window < arrived THEN start + Window ELSE arrived
      left == IF start < 0 THEN -start ELSE 0
      right == IF start + Window > arrived THEN start + Window - arrived ELSE 0
  IN  [i \in 1..left |-> Padding] \o SubSeq(buffer, first - from + 1, last - from)
        \o [i \in 1..right |-> Padding]

\* MUTANT: the history is kept from the time of the next frame on.
KeepFrom_Center(index) == Between(Center(index), 0, arrived)

\* What the window of the next frame begins with is the first sample to keep.
KeepFrom(index) == Between(Center(index) - Offset, 0, arrived)

\* pop() gives the window of the next motion frame and releases what no later
\* window needs.  Its two checks raise.
Pop ==
  /\ WindowReady
  /\ LET center == Center(frameIndex)
         samples == Materialized(history, origin, center)
         keep == KeepFrom(frameIndex + 1)
         released == IF keep > origin THEN keep - origin ELSE 0
     IN  IF (IF center - Offset < 0 THEN 0 ELSE center - Offset) < origin \/ Len(samples) # Window
         THEN failure' = TRUE /\ UNCHANGED <<window, frameIndex, history, origin>>
         ELSE /\ window' = [index |-> frameIndex, samples |-> samples, known |-> arrived,
                            whole |-> closed]
              /\ frameIndex' = frameIndex + 1
              /\ history' = SubSeq(history, released + 1, Len(history))
              /\ origin' = origin + released
              /\ UNCHANGED failure
  /\ UNCHANGED <<source, branch, exhausted, arrived, closed, dropped>>

\* The next stretch of the source goes through the resampler.
FeedSource ==
  /\ ~dropped /\ ~exhausted /\ branch.next = branch.to /\ ~WindowReady
  /\ \E count \in 1..SourceChunk :
       /\ source + count <= MaxSource
       /\ source' = source + count
       /\ branch' = [branch EXCEPT !.to = Emitted(source + count, SourceRate, ContextRate, ContextRadius)]
  /\ UNCHANGED <<exhausted, history, origin, arrived, closed, frameIndex, dropped, failure, window>>

\* The source has ended: the resampler gives what it owes.
FinishSource ==
  /\ ~dropped /\ ~exhausted /\ branch.next = branch.to /\ ~WindowReady
  /\ exhausted' = TRUE
  /\ branch' = [branch EXCEPT !.to = Owed(source, SourceRate, ContextRate)]
  /\ UNCHANGED <<source, history, origin, arrived, closed, frameIndex, dropped, failure, window>>

\* push(AudioChunk), one piece of at most PushSize; too much at once raises.
PushChunk ==
  /\ ~dropped /\ branch.next < branch.to /\ ~WindowReady
  /\ LET count == Between(branch.to - branch.next, 1, PushSize)
     IN  IF Len(history) + count > MostBuffered
         THEN failure' = TRUE /\ UNCHANGED <<history, arrived, branch>>
         ELSE /\ history' = history \o [i \in 1..count |-> branch.next + i - 1]
              /\ arrived' = arrived + count
              /\ branch' = [branch EXCEPT !.next = @ + count]
              /\ UNCHANGED failure
  /\ UNCHANGED <<source, exhausted, origin, closed, frameIndex, dropped, window>>

\* push(AudioEOF) with the exact end of the source.
PushEof ==
  /\ ~dropped /\ exhausted /\ ~closed /\ branch.next = branch.to /\ ~WindowReady
  /\ closed' = TRUE
  /\ UNCHANGED <<source, branch, exhausted, history, origin, arrived, frameIndex, dropped,
                 failure, window>>

\* pop() after the last window clears the buffer.
PopLast ==
  /\ ~dropped /\ closed /\ ~WindowReady /\ history # <<>>
  /\ history' = <<>>
  /\ UNCHANGED <<source, branch, exhausted, origin, arrived, closed, frameIndex, dropped,
                 failure, window>>

CancelContext ==
  /\ ~dropped
  /\ dropped' = TRUE /\ history' = <<>>
  /\ UNCHANGED <<source, branch, exhausted, origin, arrived, closed, frameIndex, failure, window>>

ContextInit ==
  /\ source = 0 /\ branch = [next |-> 0, to |-> 0] /\ exhausted = FALSE
  /\ history = <<>> /\ origin = 0 /\ arrived = 0 /\ closed = FALSE
  /\ frameIndex = 0 /\ dropped = FALSE /\ failure = FALSE /\ window = NoWindow

ContextNext ==
  FeedSource \/ FinishSource \/ PushChunk \/ PushEof \/ Pop \/ PopLast \/ CancelContext

ContextSpec == ContextInit /\ [][ContextNext]_contextVars

---------------------------------------------------------------------------
\* Properties

FrameCount == Cardinality({k \in 0..(source * Fps) : ~ValidEndReached(Center(k))})

\* Every window is the stretch of the turn around its frame, sample for sample,
\* with silence only before the turn began and after it ended, although it is cut
\* out of a history that is thrown away behind it; there is one for every motion
\* frame of the turn and none for a frame beyond its end; and a caller who takes
\* what is ready never meets the bound of the history or one of the checks.
WindowsAreExact ==
  /\ ~failure /\ Len(history) <= MostBuffered
  /\ window # NoWindow =>
       LET start == Center(window.index) - Offset
       IN  /\ window.samples = [i \in 1..Window |->
                IF 0 <= start + i - 1 /\ start + i - 1 < window.known THEN start + i - 1 ELSE Padding]
           /\ start + Window > window.known => window.whole
  /\ ~WindowReady /\ closed /\ ~dropped => frameIndex = FrameCount
=============================================================================
