--------------------------- MODULE ListenerPromise ---------------------------
(***************************************************************************)
(* What the browser promises to the person who listens: the answers that   *)
(* are heard only get newer; whoever interrupts does not hear again what   *)
(* was known at that moment; once the conversation has ended on this side, *)
(* nothing is heard.                                                       *)
(***************************************************************************)
EXTENDS Integers

VARIABLES
  heard,   \* the epoch of the answer that is audible, 0 for silence
  newest,  \* the highest epoch heard so far
  floor,   \* the epoch the page knew when the user last interrupted
  over     \* the conversation has ended on this side

vars == <<heard, newest, floor, over>>

Init == heard = 0 /\ newest = 0 /\ floor = 0 /\ ~over

Silence == heard' = 0 /\ UNCHANGED <<newest, floor, over>>

Hear ==
  /\ ~over
  /\ heard' \in Nat /\ heard' > newest /\ heard' > floor
  /\ newest' = heard'
  /\ UNCHANGED <<floor, over>>

BargeIn ==
  /\ heard' = 0
  /\ floor' \in Nat /\ floor' >= floor
  /\ UNCHANGED <<newest, over>>

End == heard' = 0 /\ over' /\ UNCHANGED <<newest, floor>>

Next == Silence \/ Hear \/ BargeIn \/ End

Spec == Init /\ [][Next]_vars
=============================================================================
