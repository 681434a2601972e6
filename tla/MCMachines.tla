----------------------------- MODULE MCMachines -----------------------------
(***************************************************************************)
(* The parts that share no state with any other, the five machines of the  *)
(* media path, the local profile and the cache of artifacts: TLC chooses   *)
(* one and runs it alone.                                                  *)
(***************************************************************************)
EXTENDS TurnInput, MotionTimeline, ClaireInput, ClaireContext, Encoder, Profile, Artifacts

VARIABLE machine

CONSTANTS jaw, skin, qwen, claire, shared, own

MCPart == {jaw, skin}
MCPartFaces == [p \in MCPart |-> IF p = jaw THEN {1} ELSE {2, 3}]
Shape(tiles, depth) == [tiles |-> tiles, depth |-> depth, valid |-> TRUE]
MCGeometry ==
  { <<Shape({0, 1}, 1), Shape({0}, 1), Shape({1}, 0)>>,
    <<Shape({}, 0), Shape({0, 1}, 2), Shape({0, 1}, 2)>>,
    <<Shape({0}, 0), [Shape({1}, 0) EXCEPT !.valid = FALSE], Shape({0}, 1)>>,
    <<Shape({0, 1}, 0), Shape({0}, 1), Shape({0, 1}, 1)>> }

MCInventory == [s \in {qwen, claire} |-> IF s = qwen THEN {shared, own} ELSE {shared}]

machineVars ==
  <<machine, turnVars, motionVars, muxVars, contextVars, encoderVars, profileVars, cacheVars>>

MachinesInit ==
  /\ machine \in {"turn", "motion", "mux", "context", "encoder", "profile", "cache"}
  /\ TurnInit /\ MotionInit /\ MuxInit /\ ContextInit /\ EncoderInit /\ ProfileInit /\ CacheInit

MachinesNext ==
  /\ UNCHANGED machine
  /\ \/ /\ machine = "turn" /\ TurnNext
        /\ UNCHANGED <<motionVars, muxVars, contextVars, encoderVars, profileVars, cacheVars>>
     \/ /\ machine = "motion" /\ MotionNext
        /\ UNCHANGED <<turnVars, muxVars, contextVars, encoderVars, profileVars, cacheVars>>
     \/ /\ machine = "mux" /\ MuxNext
        /\ UNCHANGED <<turnVars, motionVars, contextVars, encoderVars, profileVars, cacheVars>>
     \/ /\ machine = "context" /\ ContextNext
        /\ UNCHANGED <<turnVars, motionVars, muxVars, encoderVars, profileVars, cacheVars>>
     \/ /\ machine = "encoder" /\ EncoderNext
        /\ UNCHANGED <<turnVars, motionVars, muxVars, contextVars, profileVars, cacheVars>>
     \/ /\ machine = "profile" /\ ProfileNext
        /\ UNCHANGED <<turnVars, motionVars, muxVars, contextVars, encoderVars, cacheVars>>
     \/ /\ machine = "cache" /\ CacheNext
        /\ UNCHANGED <<turnVars, motionVars, muxVars, contextVars, encoderVars, profileVars>>

\* The receive loop is the one that has to come to an end by itself (TurnInput).
MachinesSpec ==
  MachinesInit /\ [][MachinesNext]_machineVars
    /\ WF_machineVars(machine = "turn" /\ ReceiveStep
                        /\ UNCHANGED <<machine, motionVars, muxVars, contextVars, encoderVars, profileVars, cacheVars>>)
=============================================================================
