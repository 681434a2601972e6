------------------------------ MODULE MCMedia -------------------------------
(***************************************************************************)
(* What carries an answer to whoever listens, and what the scripts observe *)
(* of it: the native publisher, the raw publisher of the audio reference,  *)
(* the text that is spoken, a receiver, the programs with two turns, the   *)
(* qualification of a worker, the evidence of a probe and the programs     *)
(* that run the others.  They share no state: TLC chooses one and runs it  *)
(* alone.                                                                  *)
(***************************************************************************)
EXTENDS Publisher, RawMedia, Receiver, LocalTurns, TextSpeech, Qualifier, ProbeTrace,
        OwnedRuns

VARIABLE media

MCCaseLists == {<<"live">>, <<"recorded", "malformed", "flood">>}

mediaVars ==
  <<media, vars, rawVars, receiverVars, localVars, textVars, qualifierVars, probeVars, ownedVars>>

MediaInit ==
  /\ media \in {"native", "raw", "receiver", "local", "text", "qualifier", "probe", "owned"}
  /\ Init /\ RawInit /\ ReceiverInit /\ LocalInit /\ TextInit /\ QualifierInit
  /\ ProbeInit /\ OwnedInit
  /\ media # "receiver" => use = "normal"
  /\ media # "local" => program = "replay"
  /\ media # "text" => sentenceEnds = {}
  /\ media # "probe" => ~scheduled
  /\ media # "qualifier" => cases = <<"live">>
  /\ media # "owned" => runner = "soak"

OthersOfNative ==
  UNCHANGED <<media, rawVars, receiverVars, localVars, textVars, qualifierVars, probeVars, ownedVars>>

MediaNext ==
  \/ media = "native" /\ Next /\ OthersOfNative
  \/ /\ media = "raw" /\ RawNext
     /\ UNCHANGED <<media, vars, receiverVars, localVars, textVars, qualifierVars, probeVars, ownedVars>>
  \/ /\ media = "receiver" /\ ReceiverNext
     /\ UNCHANGED <<media, vars, rawVars, localVars, textVars, qualifierVars, probeVars, ownedVars>>
  \/ /\ media = "local" /\ LocalNext
     /\ UNCHANGED <<media, vars, rawVars, receiverVars, textVars, qualifierVars, probeVars, ownedVars>>
  \/ /\ media = "text" /\ TextNext
     /\ UNCHANGED <<media, vars, rawVars, receiverVars, localVars, qualifierVars, probeVars, ownedVars>>
  \/ /\ media = "qualifier" /\ QualifierNext
     /\ UNCHANGED <<media, vars, rawVars, receiverVars, localVars, textVars, probeVars, ownedVars>>
  \/ /\ media = "probe" /\ ProbeNext
     /\ UNCHANGED <<media, vars, rawVars, receiverVars, localVars, textVars, qualifierVars, ownedVars>>
  \/ /\ media = "owned" /\ OwnedNext
     /\ UNCHANGED <<media, vars, rawVars, receiverVars, localVars, textVars, qualifierVars, probeVars>>

\* The fairness of FairSpec (Publisher), when it is the native publisher that runs.
MediaSpec ==
  /\ MediaInit /\ [][MediaNext]_mediaVars
  /\ WF_mediaVars(media = "native" /\ RespStep /\ OthersOfNative)
  /\ WF_mediaVars(media = "native" /\ CtlStep /\ OthersOfNative)
  /\ \A n \in Start : /\ WF_mediaVars(media = "native" /\ Spawn(n) /\ OthersOfNative)
                      /\ WF_mediaVars(media = "native" /\ ReaderStep(n) /\ OthersOfNative)
  /\ WF_mediaVars(media = "native" /\ blocked /\ Interrupt(TRUE) /\ OthersOfNative)

\* What the qualification scripts report of a run is what happened in it: what the
\* receiver got (Receiver), what the probe's files hold (ProbeTrace), and how the processes
\* of each case ended (OwnedRuns).
InstrumentsAreExact == ReceiptIsExact /\ EvidenceIsWhole /\ GroupsAreOwned
=============================================================================
