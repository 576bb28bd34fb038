---------------------------- MODULE MCOggEncoder ----------------------------
(* A small instance of OggEncoder: frames of three samples of two bytes at  *)
(* half the 48 kHz rate, so that a call may leave an odd byte, end inside a *)
(* frame or at its end, or hold two frames.  And, in behaviours of its own, *)
(* what a CELT frame spends: narrow band frames, mono and stereo, at a rate *)
(* of 44 bits a frame.                                                      *)
EXTENDS OggEncoder, CeltFrame

CONSTANT Topics     \* the parts behaviours are of: "container", "CELT frame"
VARIABLE topic      \* the part this one is of

MCTagLens == {1}
MCPacketLens == {1, 4}
MCDurations == {Coded}
MCSourceLens == {0}
MCCallSizes == {1, 3, 12}

Kind(end, C, LM, vbr) == [end |-> end, C |-> C, LM |-> LM, vbr |-> vbr, rate |-> 352]

MCKinds == {Kind(13, 2, 1, "cbr"), Kind(13, 1, 2, "vbr"), Kind(13, 1, 3, "cvbr")}

-----------------------------------------------------------------------------

EncodingInit == topic \in Topics /\ EncoderInit /\ FrameInit

EncodingNext ==
    \/ topic = "container" /\ (EncoderRuns \/ EncoderCalls) /\ UNCHANGED <<topic, frameVars>>
    \/ topic = "CELT frame" /\ FrameNext /\ UNCHANGED <<topic, evars>>

EncodingSpec == EncodingInit /\ [][EncodingNext]_<<topic, evars, frameVars>>
=============================================================================
