---------------------------- MODULE ClaireInput ----------------------------
(***************************************************************************)
(* ClaireInputMux: one generation of native speech becomes packets that    *)
(* pair playback samples with the motion samples of the same time.  Two    *)
(* resamplers with histories of their own run at different delays; what    *)
(* one has put out and the other not yet stays pending.  Samples are       *)
(* numbered; their amplitudes, and the check on them, are left out.        *)
(***************************************************************************)
EXTENDS Naturals, Sequences, Resampler

CONSTANTS
  NativeRate, PlaybackRate, MotionRate,  \* 24000, 48000, 16000
  FilterRadius,   \* radius of both resamplers
  PacketAudio,    \* playback samples of a packet: 960
  PacketMotion,   \* motion samples of a packet: 320
  MaxChunk,       \* samples of the largest chunk accepted: 2400
  MaxTurn         \* samples of the longest turn: two minutes

ASSUME ClaireInputAssumption ==
  /\ {NativeRate, PlaybackRate, MotionRate, FilterRadius, PacketAudio, PacketMotion,
      MaxChunk, MaxTurn} \subseteq Nat \ {0}
  /\ PlaybackRate = 3 * MotionRate /\ PacketAudio = 3 * PacketMotion

VARIABLES
  speech,     \* ledger.next_sample: native samples accepted
  finished,   \* the EOF was accepted
  refused,    \* accept() raised "EOF conservation failed"
  muted,      \* cancelled
  pendingAudio, pendingMotion,  \* [from, to): resampled and not yet in a packet
  packets     \* history: the packets returned

muxVars == <<speech, finished, refused, muted, pendingAudio, pendingMotion, packets>>

Size(range) == range.to - range.from

AudioAfter(count, final) ==
  IF final THEN Owed(count, NativeRate, PlaybackRate)
           ELSE Emitted(count, NativeRate, PlaybackRate, FilterRadius)

MotionAfter(count, final) ==
  IF final THEN Owed(count, NativeRate, MotionRate)
           ELSE Emitted(count, NativeRate, MotionRate, FilterRadius)

\* MUTANT: a packet goes out as soon as its motion is there.
WholePackets_Motion(audio, motion) == Size(motion) \div PacketMotion

\* How many whole packets the pending samples make.
WholePackets(audio, motion) ==
  LET a == Size(audio) \div PacketAudio
      m == Size(motion) \div PacketMotion
  IN  IF a < m THEN a ELSE m

\* _packet(): the packet numbered `i` out of what is pending.
Packet(audio, motion, i) ==
  [start |-> audio.from + i * PacketAudio, audio |-> PacketAudio,
   motionStart |-> motion.from + i * PacketMotion, motion |-> PacketMotion, eof |-> FALSE]

Advance(range, count) == [range EXCEPT !.from = @ + count]

\* The samples of an event go through both filters and out in whole packets.
Pair(count, final) ==
  LET audio == [pendingAudio EXCEPT !.to = AudioAfter(count, final)]
      motion == [pendingMotion EXCEPT !.to = MotionAfter(count, final)]
      whole == WholePackets(audio, motion)
      audioRest == Advance(audio, whole * PacketAudio)
      motionRest == Advance(motion, whole * PacketMotion)
      last == [start |-> audioRest.from, audio |-> Size(audioRest),
               motionStart |-> motionRest.from, motion |-> Size(motionRest), eof |-> TRUE]
      out == packets \o [i \in 1..whole |-> Packet(audio, motion, i - 1)]
      conserved == Size(audioRest) < PacketAudio
                     /\ Size(motionRest) = (Size(audioRest) + 2) \div 3
  IN  /\ speech' = count
      /\ finished' = final
      /\ refused' = (final /\ ~conserved)
      /\ packets' = IF final /\ conserved THEN Append(out, last) ELSE out
      /\ pendingAudio' = IF final /\ conserved THEN Advance(audioRest, Size(audioRest)) ELSE audioRest
      /\ pendingMotion' = IF final /\ conserved THEN Advance(motionRest, Size(motionRest)) ELSE motionRest

\* accept(AudioChunk); an event of another generation, or after cancel(), and
\* one the ledger refuses, change nothing.
AcceptChunk(samples) ==
  /\ ~muted /\ ~finished
  /\ samples <= MaxChunk /\ speech + samples <= MaxTurn
  /\ Pair(speech + samples, FALSE)
  /\ UNCHANGED muted

\* accept(AudioEOF): nonempty, on a whole sample.
AcceptEof ==
  /\ ~muted /\ ~finished /\ speech > 0
  /\ Pair(speech, TRUE)
  /\ UNCHANGED muted

\* cancel(): no tail of a filter is flushed.
CancelMux ==
  /\ ~muted
  /\ muted' = TRUE
  /\ pendingAudio' = Advance(pendingAudio, Size(pendingAudio))
  /\ pendingMotion' = Advance(pendingMotion, Size(pendingMotion))
  /\ UNCHANGED <<speech, finished, refused, packets>>

MuxInit ==
  /\ speech = 0 /\ finished = FALSE /\ refused = FALSE /\ muted = FALSE
  /\ pendingAudio = [from |-> 0, to |-> 0] /\ pendingMotion = [from |-> 0, to |-> 0]
  /\ packets = <<>>

MuxNext ==
  \/ \E samples \in 0..MaxChunk : AcceptChunk(samples)
  \/ AcceptEof \/ CancelMux

MuxSpec == MuxInit /\ [][MuxNext]_muxVars

---------------------------------------------------------------------------
\* Properties

\* Packets follow each other without a hole in either stream, the motion of a
\* packet is that of its sound, one third as many samples, and after the EOF both
\* streams are complete to the last sample of the turn: the check of accept() on
\* the tails never fires, however the speech is cut into chunks.
PacketsArePaired ==
  /\ ~refused
  /\ \A i \in 1..Len(packets) :
       LET p == packets[i]
       IN  /\ p.start = (i - 1) * PacketAudio /\ p.motionStart = (i - 1) * PacketMotion
           /\ p.eof <=> finished /\ i = Len(packets)
           /\ ~p.eof => p.audio = PacketAudio /\ p.motion = PacketMotion
           /\ p.start + p.audio <= AudioAfter(speech, finished)
           /\ p.motionStart + p.motion <= MotionAfter(speech, finished)
  /\ finished =>
       LET last == packets[Len(packets)]
       IN  /\ last.start + last.audio = Owed(speech, NativeRate, PlaybackRate)
           /\ last.motionStart + last.motion = Owed(speech, NativeRate, MotionRate)
           /\ last.audio < PacketAudio /\ 3 * last.motion >= last.audio
=============================================================================
