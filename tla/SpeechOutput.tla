---------------------------- MODULE SpeechOutput -----------------------------
(***************************************************************************)
(* What the audio core promises to whoever listens: each turn is spoken    *)
(* from its first sample, in order, without a gap or a repetition, every   *)
(* sample under the label of the native sample it was computed from; never *)
(* more than the accepted input is worth; and nothing of a turn after it   *)
(* was abandoned.  AudioPipeline implements it.                            *)
(***************************************************************************)
EXTENDS Integers, Sequences

CONSTANTS InRate,    \* samples per second of the native speech
          OutRate,   \* samples per second of the output
          Label,     \* names of text segments
          NoTurn     \* no turn is being spoken

VARIABLES turn,     \* the number of the turn being spoken, or NoTurn
          begun,    \* turns up to this number may have been spoken
          script,   \* per accepted native sample of the turn, its label
          sealed,   \* no more input will be accepted for the turn
          said,     \* how many samples of the turn were put out
          heard     \* what was put out last

speechVars == <<turn, begun, script, sealed, said, heard>>

\* Output samples whose time lies before native sample n.
Worth(n) == (n * OutRate + InRate - 1) \div InRate

\* The native sample whose interval holds output sample j.
SourceOf(j) == (j * InRate) \div OutRate

Sample(t, j, labels) == [epoch |-> t, at |-> j, label |-> labels[SourceOf(j) + 1]]

SpeechInit ==
  /\ turn = NoTurn /\ begun = -1
  /\ script = <<>> /\ sealed = FALSE
  /\ said = 0 /\ heard = <<>>

Begin ==
  /\ begun' > begun
  /\ turn' = begun'
  /\ script' = <<>> /\ sealed' = FALSE /\ said' = 0 /\ heard' = <<>>

\* One event adds some number of samples of one segment.
Accept(l) ==
  /\ turn # NoTurn /\ ~sealed
  /\ Len(script') >= Len(script)
  /\ script' = script \o [i \in 1..(Len(script') - Len(script)) |-> l]
  /\ UNCHANGED <<turn, begun, sealed, said, heard>>

Seal ==
  /\ turn # NoTurn /\ ~sealed
  /\ sealed' = TRUE
  /\ UNCHANGED <<turn, begun, script, said, heard>>

Speak ==
  /\ turn # NoTurn
  /\ said' \in said..Worth(Len(script))
  /\ heard' = [i \in 1..(said' - said) |-> Sample(turn, said + i - 1, script)]
  /\ UNCHANGED <<turn, begun, script, sealed>>

Abandon ==
  /\ turn' = NoTurn /\ begun' >= begun
  /\ script' = <<>> /\ sealed' = FALSE /\ said' = 0 /\ heard' = <<>>

SpeechNext ==
  \/ Begin
  \/ \E l \in Label : Accept(l)
  \/ Seal
  \/ Speak
  \/ Abandon

SpeechSpec == SpeechInit /\ [][SpeechNext]_speechVars
=============================================================================
