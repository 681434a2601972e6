----------------------------- MODULE TextSpeech -----------------------------
(***************************************************************************)
(* From the language model to the voice: the tokens of Llm.tokens(), the   *)
(* StableSegmenter that cuts them into pieces that can be spoken, and the  *)
(* tasks text_producer() and speak() of a response with their queue of two *)
(* (generate() of actor.py).                                               *)
(*                                                                         *)
(* A text is words of two halves; the blank that completes a word comes    *)
(* with its second half.  A word is the end of a sentence, or it is not:   *)
(* abbreviations and numbers are not.                                      *)
(***************************************************************************)
EXTENDS Integers, Sequences, FiniteSetsExt, SequencesExt

CONSTANTS
  Words,        \* bound: words of an answer
  MaxWords,     \* max_words of the segmenter
  FewWords,     \* complete words that may be released for want of an end
  SegmentRoom   \* segments the queue holds

ASSUME TextAssumption ==
  /\ {Words, MaxWords, FewWords, SegmentRoom} \subseteq Nat \ {0} /\ FewWords <= MaxWords

VARIABLES
  sentenceEnds,  \* the words that end a sentence
  received,      \* halves of words the model has sent
  cutAt,           \* halves of words that have left the buffer
  pending,       \* segments the producer still has to put, as ranges of halves
  segments,      \* the queue; None is [from |-> 0, to |-> 0]
  producer,      \* "reads", "last", "none", "over", "left", "failed"
  speaker,       \* "gets", "speaks", "flushed", "left", "failed"
  saying,        \* the segment the voice is at
  spoken,        \* the segments it has said
  fresh          \* the epoch of the response is the current one

textVars == <<sentenceEnds, received, cutAt, pending, segments, producer, speaker, saying, spoken, fresh>>

None == [from |-> 0, to |-> 0]
WordOf(half) == (half + 1) \div 2
CompleteWords(halves) == halves \div 2

TextInit ==
  /\ sentenceEnds \in SUBSET (1..Words)
  /\ received = 0 /\ cutAt = 0 /\ pending = <<>> /\ segments = <<>>
  /\ producer = "reads" /\ speaker = "gets" /\ saying = None /\ spoken = <<>> /\ fresh = TRUE

-----------------------------------------------------------------------------
(* StableSegmenter.push(): cut at the first sentence end among the         *)
(* complete words, or else behind the largest number of words; again, as   *)
(* long as there is something to cut.                                      *)

\* Where the next segment ends when w words are gone and c have been completed, or 0.
SegmentEnd(w, c) ==
  LET ends == {e \in sentenceEnds : w < e /\ e <= c}
  IN IF ends # {} THEN Min(ends) ELSE IF c - w >= MaxWords THEN w + MaxWords ELSE 0

CutsFrom(w0, c) ==
  LET cuts[w \in 0..Words] ==
        IF SegmentEnd(w, c) = 0 THEN <<>>
        ELSE <<[from |-> 2 * w + 1, to |-> 2 * SegmentEnd(w, c)]>> \o cuts[SegmentEnd(w, c)]
  IN cuts[w0]

\* MUTANT: what is cut off empties the buffer.
Pushed_Empties(halves) ==
  LET cuts == CutsFrom(CompleteWords(cutAt), CompleteWords(halves))
  IN pending' = cuts /\ cutAt' = IF cuts = <<>> THEN cutAt ELSE halves

Pushed(halves) ==
  LET cuts == CutsFrom(CompleteWords(cutAt), CompleteWords(halves))
  IN pending' = cuts /\ cutAt' = IF cuts = <<>> THEN cutAt ELSE Last(cuts).to

\* MUTANT: what is released empties the buffer.
Released_Empties ==
  LET complete == CompleteWords(received') - CompleteWords(cutAt)
      to == cutAt + 2 * Min({MaxWords, complete})
  IN /\ CutsFrom(CompleteWords(cutAt), CompleteWords(received')) = <<>> /\ complete >= FewWords
     /\ pending' = <<[from |-> cutAt + 1, to |-> to]>> /\ cutAt' = received'

\* release_words(): a pause may release what is complete, if it is not too little.
Released ==
  LET complete == CompleteWords(received') - CompleteWords(cutAt)
      to == cutAt + 2 * Min({MaxWords, complete})
  IN /\ CutsFrom(CompleteWords(cutAt), CompleteWords(received')) = <<>> /\ complete >= FewWords
     /\ pending' = <<[from |-> cutAt + 1, to |-> to]>> /\ cutAt' = to

-----------------------------------------------------------------------------
(* text_producer(): a token is some halves of words; the epoch is looked   *)
(* at before each.                                                         *)

Token ==
  /\ producer = "reads" /\ pending = <<>>
  /\ \E halves \in 1..3 : received + halves <= 2 * Words /\ received' = received + halves
  /\ IF fresh THEN (Pushed(received') \/ Released) /\ UNCHANGED producer
              ELSE producer' = "left" /\ UNCHANGED <<pending, cutAt>>
  /\ UNCHANGED <<sentenceEnds, segments, speaker, saying, spoken, fresh>>

\* The stream says that it is done: the rest of the buffer is spoken as it is.
Done ==
  /\ producer = "reads" /\ pending = <<>> /\ producer' = "last"
  /\ pending' = IF cutAt = received THEN <<>> ELSE <<[from |-> cutAt + 1, to |-> received]>>
  /\ cutAt' = received
  /\ UNCHANGED <<sentenceEnds, received, segments, speaker, saying, spoken, fresh>>

\* It reports an error, ends without that word, or sends too much: the response fails.
Fails ==
  /\ producer = "reads" /\ pending = <<>> /\ producer' = "failed"
  /\ speaker' = IF speaker \in {"gets", "speaks"} THEN "failed" ELSE speaker
  /\ UNCHANGED <<sentenceEnds, received, cutAt, pending, segments, saying, spoken, fresh>>

PutSegment ==
  /\ producer \in {"reads", "last", "none"} /\ Len(segments) < SegmentRoom
  /\ \/ /\ pending # <<>>
        /\ segments' = Append(segments, Head(pending)) /\ pending' = Tail(pending)
        /\ UNCHANGED producer
     \/ /\ pending = <<>> /\ producer = "last" /\ producer' = "over"
        /\ segments' = Append(segments, None) /\ UNCHANGED pending
  /\ UNCHANGED <<sentenceEnds, received, cutAt, speaker, saying, spoken, fresh>>

-----------------------------------------------------------------------------
(* speak(): one segment after the other, and then the end of the answer.   *)

GetSegment ==
  /\ speaker = "gets" /\ segments # <<>>
  /\ segments' = Tail(segments)
  /\ IF Head(segments) = None THEN speaker' = "flushed" /\ UNCHANGED saying
     ELSE IF ~fresh THEN speaker' = "left" /\ UNCHANGED saying
     ELSE speaker' = "speaks" /\ saying' = Head(segments)
  /\ UNCHANGED <<sentenceEnds, received, cutAt, pending, producer, spoken, fresh>>

\* push() of the voice returns; FALSE when it was cancelled meanwhile.
Spoken ==
  /\ speaker = "speaks" /\ saying' = None
  /\ \/ fresh /\ speaker' = "gets" /\ spoken' = Append(spoken, saying)
     \/ ~fresh /\ speaker' = "left" /\ UNCHANGED spoken
  /\ UNCHANGED <<sentenceEnds, received, cutAt, pending, segments, producer, fresh>>

\* An interruption: the epoch moves on.
Superseded ==
  /\ fresh /\ fresh' = FALSE
  /\ UNCHANGED <<sentenceEnds, received, cutAt, pending, segments, producer, speaker, saying, spoken>>

TextNext == Token \/ Done \/ Fails \/ PutSegment \/ GetSegment \/ Spoken \/ Superseded

-----------------------------------------------------------------------------
Halves(ranges) == FlattenSeq([i \in DOMAIN ranges |->
                    [k \in 1..(ranges[i].to - ranges[i].from + 1) |-> ranges[i].from + k - 1]])
Voiced == spoken \o (IF saying = None THEN <<>> ELSE <<saying>>) \o SelectSeq(segments, LAMBDA s : s # None)
            \o pending

\* What is spoken, queued and still in the buffer is the text as it was received, each part
\* of it once and in order; a piece never runs over the end of a sentence, it ends behind a
\* complete word unless the text itself does not; and the answer is flushed only when all
\* of the text was spoken.
TextIsSpoken ==
  /\ speaker \in {"gets", "speaks", "flushed"} => Halves(Voiced) = [k \in 1..cutAt |-> k]
  /\ \A i \in DOMAIN Voiced :
       /\ \A w \in sentenceEnds : Voiced[i].from <= 2 * w /\ 2 * w < Voiced[i].to => FALSE
       /\ Voiced[i].to % 2 = 0 \/ (producer # "reads" /\ Voiced[i].to = received)
  /\ speaker = "flushed" => Halves(spoken) = [k \in 1..received |-> k]
=============================================================================
