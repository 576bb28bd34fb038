------------------------------ MODULE OggEncoder ------------------------------
(***************************************************************************)
(* The Encoder of oggopus/encoder.go: it cuts the PCM it is given into     *)
(* frames, codes each into a packet for containerWriter (OggWriter), and   *)
(* on Close pads the end of the stream and trims its granule position.     *)
(*                                                                         *)
(* PCM is counted, not held: bytes of input, samples per channel at the    *)
(* input rate, samples per channel at 48 kHz.  The codec is outside: it    *)
(* turns a frame into a packet of any length in PacketLens.  A step of the *)
(* Encoder runs from one place where the sink can fail to the next; `stage`*)
(* says where the call in progress is, and the steps of OggWriter run in   *)
(* between, while pc is not "ready".                                       *)
(***************************************************************************)
EXTENDS OggWriter

CONSTANTS
    FrameLen,        \* e.frameLen: samples per channel and frame at the input rate
    RateRatio,       \* 48000 / SampleRate
    BytesPerSample,  \* Channels * 2
    CallSizes,       \* lengths of the buffers Write is given
    MaxBytes,        \* bound: bytes consumed per stream
    MaxResets        \* bound: calls of Reset

Coded == FrameLen * RateRatio          \* a frame at 48 kHz
FrameBytes == FrameLen * BytesPerSample

\* preSkip is 312 and a frame at least 960 samples at 48 kHz (Close's comment).
ASSUME EncoderAssumption ==
    /\ FrameLen \in Nat \ {0} /\ RateRatio \in Nat \ {0}
    /\ BytesPerSample \in Nat \ {0}
    /\ CallSizes \subseteq Nat /\ MaxBytes \in Nat /\ MaxResets \in Nat
    /\ PreSkip < Coded

VARIABLES
    enc,         \* e.enc # nil
    cw,          \* e.cw # nil; the scratch frame has its length exactly then
    carry,       \* len(e.carry)
    srcSamples, coded48k, closed,
    \* the call in progress: where it is, the bytes of p left, and whether the
    \* writer's last call returned an error; res is what the last call returned
    stage, rest, err, res,
    \* history: bytes consumed by Write, silence frames, and resets so far
    taken, resets

encState == <<enc, cw, carry, srcSamples, coded48k, closed>>
evars == <<vars, encState, stage, rest, err, res, taken, resets>>

\* NewEncoder: the reset of a zero Encoder, up to newContainerWriter.
EncoderInit ==
    /\ Init
    /\ enc = TRUE /\ cw = FALSE
    /\ carry = 0 /\ srcSamples = 0 /\ coded48k = 0 /\ closed = FALSE
    /\ stage = "head" /\ rest = 0 /\ err = FALSE /\ res = "none"
    /\ taken = 0 /\ resets = 0

Return(r) == stage' = "idle" /\ res' = r

\* The call went on with a nil container writer and an empty scratch frame.
Panic == stage' = "panicked" /\ res' = "panic"

-----------------------------------------------------------------------------
(* Reset                                                                    *)

\* Mutant of ClearedCarry: what is buffered survives a reset.
CarryKept == carry

\* e.carry after a reset.
ClearedCarry == 0

\* Everything reset clears before anything can fail.
Cleared ==
    /\ cw' = FALSE /\ carry' = ClearedCarry
    /\ srcSamples' = 0 /\ coded48k' = 0 /\ closed' = FALSE
    /\ taken' = 0 /\ resets' = resets + 1
    /\ rest' = 0 /\ err' = FALSE

\* newContainerWriter on a new sink: the writer is again as Init has it.
NewContainerWriter ==
    /\ seq' = 0 /\ seg' = <<>> /\ gran' = GranuleNone /\ isCont' = FALSE
    /\ havePage' = FALSE /\ audioStarted' = FALSE /\ swClosed' = FALSE
    /\ granule' = 0 /\ held' = NoPacket /\ audioCount' = 0
    /\ sink' = <<>> /\ fails' = 0 /\ closing' = FALSE /\ pc' = "enter"
    /\ \E n \in TagLens :
          /\ accepted' = <<[len |-> OpusHeadLen, end |-> 0], [len |-> n, end |-> 0]>>
          /\ call' = Frame("head", [pkt |-> 1, len |-> OpusHeadLen], 0, TRUE,
                           [pkt |-> 2, len |-> n, dur |-> 0])

\* A valid configuration and sink: the codec is built and initStream begins
\* the headers of a new stream.
Reset ==
    /\ stage = "idle" /\ resets < MaxResets
    /\ Cleared
    /\ enc' = TRUE
    /\ stage' = "head"
    /\ NewContainerWriter
    /\ UNCHANGED res

\* cfg.validate, the nil sink or newFrameEncoder: no codec, no stream.
ResetRejected ==
    /\ stage = "idle" /\ resets < MaxResets
    /\ Cleared
    /\ enc' = FALSE
    /\ Return("rejected")
    /\ pc' = "dropped"
    /\ UNCHANGED <<swVars, cwVars, call, sink, fails, accepted, closing>>

\* newContainerWriter returns: on an error e.cw stays nil.  NewEncoder then
\* returns no Encoder; the one Reset was called on is still in the caller's hands.
HeadersDone ==
    /\ stage = "head" /\ pc \in {"ready", "dropped"}
    /\ cw' = ~err
    /\ stage' = IF err /\ resets = 0 THEN "nothing" ELSE "idle"
    /\ res' = IF err THEN "sink" ELSE "ok"
    /\ UNCHANGED <<vars, enc, carry, srcSamples, coded48k, closed, rest, err,
                   taken, resets>>

-----------------------------------------------------------------------------
(* encodeFrame                                                              *)

\* The 48 kHz samples a frame of `real` source samples codes: a whole frame.
CodedBy(real) == Coded

\* The scratch frame is coded and queued; the counters have moved before
\* cw.writePacket can fail.  The call is at `then` when the writer is done.  The codec
\* does not fail: the frame is always a whole one of 20 ms and the buffer,
\* maxPacketBytes, holds six frames of the largest size.
EncodeFrame(real, then) ==
    IF cw
    THEN /\ srcSamples' = srcSamples + real
         /\ coded48k' = coded48k + CodedBy(real)
         /\ \E n \in PacketLens : WritePacket(n, Coded)
         /\ stage' = then /\ err' = FALSE
         /\ UNCHANGED res
    ELSE Panic /\ UNCHANGED <<vars, srcSamples, coded48k, err>>

-----------------------------------------------------------------------------
(* Write                                                                    *)

\* What a call on an Encoder that is closed or has no codec returns.
Refused ==
    \/ closed /\ Return("closed")
    \/ ~closed /\ ~enc /\ Return("uninitialized")

\* The bytes that top the carry off to a frame.
TopOff(n) == IF carry = 0 THEN 0
             ELSE IF n < FrameBytes - carry THEN n ELSE FrameBytes - carry

Write(n) ==
    /\ stage = "idle" /\ taken + n <= MaxBytes
    /\ \/ Refused /\ UNCHANGED <<carry, rest, taken>>
       \/ /\ ~closed /\ enc
          /\ carry' = carry + TopOff(n)
          /\ taken' = taken + TopOff(n)
          /\ rest' = n - TopOff(n)
          /\ stage' = IF carry' = FrameBytes THEN "carry" ELSE "frames"
          /\ UNCHANGED res
    /\ UNCHANGED <<vars, enc, cw, srcSamples, coded48k, closed, err, resets>>

\* The carry is a whole frame.
EncodeCarry ==
    /\ stage = "carry"
    /\ EncodeFrame(FrameLen, "carried")
    /\ UNCHANGED <<enc, cw, carry, closed, rest, taken, resets>>

CarryDone ==
    /\ stage = "carried" /\ pc = "ready"
    /\ IF err THEN Return("sink") /\ UNCHANGED carry
              ELSE stage' = "frames" /\ carry' = 0 /\ UNCHANGED res
    /\ UNCHANGED <<vars, enc, cw, srcSamples, coded48k, closed, rest, err,
                   taken, resets>>

\* A whole frame straight from p.
EncodeWhole ==
    /\ stage = "frames" /\ rest >= FrameBytes
    /\ EncodeFrame(FrameLen, "framed")
    /\ UNCHANGED <<enc, cw, carry, closed, rest, taken, resets>>

\* What is left of p after a frame.
Advance == rest - FrameBytes

WholeDone ==
    /\ stage = "framed" /\ pc = "ready"
    /\ IF err THEN Return("sink") /\ UNCHANGED <<rest, taken>>
              ELSE /\ stage' = "frames"
                   /\ rest' = Advance
                   /\ taken' = taken + FrameBytes
                   /\ UNCHANGED res
    /\ UNCHANGED <<vars, encState, err, resets>>

HoldRemainder ==
    /\ stage = "frames" /\ rest < FrameBytes
    /\ carry' = carry + rest
    /\ taken' = taken + rest
    /\ rest' = 0
    /\ Return("ok")
    /\ UNCHANGED <<vars, enc, cw, srcSamples, coded48k, closed, err, resets>>

-----------------------------------------------------------------------------
(* Close                                                                    *)

CloseCall ==
    /\ stage = "idle"
    /\ \/ closed /\ Return("ok")
       \/ ~closed /\ ~enc /\ Return("uninitialized")
       \/ ~closed /\ enc /\ carry % BytesPerSample # 0 /\ Return("odd")
       \/ /\ ~closed /\ enc /\ carry % BytesPerSample = 0
          /\ stage' = IF carry > 0 THEN "partial" ELSE "tail"
          /\ UNCHANGED res
    /\ UNCHANGED <<vars, encState, rest, err, taken, resets>>

\* The partial frame, zero-padded.
EncodePartial ==
    /\ stage = "partial"
    /\ EncodeFrame(carry \div BytesPerSample, "padded")
    /\ UNCHANGED <<enc, cw, carry, closed, rest, taken, resets>>

PartialDone ==
    /\ stage = "padded" /\ pc = "ready"
    /\ IF err THEN Return("sink") /\ UNCHANGED carry
              ELSE stage' = "tail" /\ carry' = 0 /\ UNCHANGED res
    /\ UNCHANGED <<vars, enc, cw, srcSamples, coded48k, closed, rest, err,
                   taken, resets>>

Source48k == srcSamples * RateRatio

\* No audio at all, or a granule position beyond the coded samples.
NeedsSilence == audioCount = 0 \/ coded48k < PreSkip + Source48k

EncodeSilence ==
    /\ stage = "tail" /\ cw /\ NeedsSilence
    /\ EncodeFrame(0, "silence")
    /\ UNCHANGED <<enc, cw, carry, closed, rest, taken, resets>>

SilenceDone ==
    /\ stage = "silence" /\ pc = "ready"
    /\ IF err THEN Return("sink") ELSE stage' = "tail" /\ UNCHANGED res
    /\ UNCHANGED <<vars, encState, rest, err, taken, resets>>

\* The Encoder is closed before the last pages are written.
CloseWriter ==
    /\ stage = "tail" /\ cw /\ ~NeedsSilence
    /\ closed' = TRUE
    /\ Close(Source48k)
    /\ stage' = "last" /\ err' = FALSE
    /\ UNCHANGED <<enc, cw, carry, srcSamples, coded48k, rest, res, taken,
                   resets>>

LastDone ==
    /\ stage = "last" /\ pc = "ready"
    /\ Return(IF err THEN "sink" ELSE "ok")
    /\ UNCHANGED <<vars, encState, rest, err, taken, resets>>

\* Close reads e.cw.audioCount.
CloseNilWriter ==
    /\ stage = "tail" /\ ~cw
    /\ Panic
    /\ UNCHANGED <<vars, encState, rest, err, taken, resets>>

-----------------------------------------------------------------------------

\* The writer's own steps, and the error its call returns with.
WriterRuns ==
    /\ Step
    /\ err' = (fails' # fails)
    /\ UNCHANGED <<encState, stage, rest, res, taken, resets>>

EncoderRuns ==
    \/ WriterRuns \/ HeadersDone
    \/ EncodeCarry \/ CarryDone \/ EncodeWhole \/ WholeDone \/ HoldRemainder
    \/ EncodePartial \/ PartialDone \/ EncodeSilence \/ SilenceDone
    \/ CloseWriter \/ LastDone \/ CloseNilWriter

EncoderCalls == \/ Reset \/ ResetRejected \/ CloseCall
                \/ \E n \in CallSizes : Write(n)

EncoderSpec == EncoderInit /\ [][EncoderRuns \/ EncoderCalls]_evars

-----------------------------------------------------------------------------
(* Properties.                                                              *)

StreamClosed == closed /\ stage = "idle" /\ fails = 0

\* Whatever the sizes of the calls and whatever stream the Encoder was used
\* for before, the duration the last page gives, less the pre-skip, is that of
\* the bytes Write consumed (srcSamples, Close's end trim); and its granule never
\* claims more samples than the packets decode to (RFC 7845 section 4.5, Close's
\* padding).
DurationIsSource ==
    StreamClosed =>
        LET end == sink[Len(sink)].granule
        IN /\ (end - PreSkip) * BytesPerSample = taken * RateRatio
           /\ end <= Coded * (Len(accepted) - 2)

Places == {"head", "idle", "carry", "carried", "frames", "framed", "partial", "padded",
           "tail", "silence", "last", "nothing", "panicked"}

EncoderTypeOK ==
    /\ enc \in BOOLEAN /\ cw \in BOOLEAN /\ closed \in BOOLEAN /\ err \in BOOLEAN
    /\ carry \in Nat /\ srcSamples \in Nat /\ coded48k \in Nat /\ rest \in Nat
    /\ taken \in Nat /\ resets \in Nat
    /\ stage \in Places

\* What is buffered is at most a frame; a frame is cut from p only while nothing is.
Buffered ==
    /\ carry <= FrameBytes
    /\ stage \in {"frames", "framed"} => carry = 0 \/ rest = 0
    /\ stage = "framed" => rest >= FrameBytes

\* An Encoder at work has a codec, and only a sink error fails a call.
Working ==
    /\ closed \/ stage \notin {"idle", "nothing", "panicked"} => enc
    /\ err => fails > 0

\* Where the bytes taken are: counted as samples, in carry, or in the frame just
\* handed over.
ByteCount ==
    /\ stage = "framed" => srcSamples * BytesPerSample + carry = taken + FrameBytes
    /\ stage \in {"carried", "padded"} => srcSamples * BytesPerSample = taken
    /\ stage \notin {"framed", "carried", "padded", "nothing", "panicked"} =>
          srcSamples * BytesPerSample + carry = taken
    /\ stage = "carry" => carry = FrameBytes
    /\ stage = "partial" => carry % BytesPerSample = 0
    /\ closed \/ stage \in {"tail", "silence", "last"} => carry = 0

\* Before Close pads, what is coded is what was counted; never more than a frame
\* beyond what the last granule position needs.
Pacing ==
    /\ ~closed /\ stage \in {"head", "idle", "carry", "carried", "frames", "framed", "partial"} =>
          coded48k = Source48k
    /\ coded48k <= PreSkip + Source48k + Coded

InWrite == pc \in {"enter", "place"} /\ call.op = "write"

\* The frames coded are the packets accepted and the one about to be.
Queued ==
    /\ audioCount = Len(accepted) - 2
    /\ held # NoPacket => held.dur = Coded
    /\ InWrite => /\ coded48k = Coded * (Len(accepted) - 1)
                  /\ call.new.dur = Coded
                  /\ LastEnd + Coded = coded48k
    /\ ~InWrite => /\ coded48k = Coded * (Len(accepted) - 2)
                   /\ ~closing => LastEnd = coded48k
    /\ pc = "ready" /\ ~closing /\ audioCount > 0 => held # NoPacket
    /\ closing => LastEnd = PreSkip + Source48k /\ LastEnd <= coded48k

\* Where the writer is, by where the Encoder is.
InStep ==
    /\ pc # "dropped" /\ (closing <=> closed)
    /\ closed => stage \in {"last", "idle"}
    /\ stage = "last" => closed
    /\ pc \in {"enter", "place"} /\ call.op \in {"head", "tags"} => stage = "head"
    /\ InWrite => stage \in {"carried", "framed", "padded", "silence"}
    /\ stage = "head" => held = NoPacket /\ Len(accepted) = 2
    /\ stage \in {"idle", "carry", "frames", "partial", "tail"} => pc = "ready"

\* The inductive invariant under DurationIsSource.
EncoderInv ==
    /\ EncoderTypeOK /\ Buffered /\ Working
    /\ WriterInv
    /\ fails = 0 /\ enc => ByteCount /\ Pacing /\ Queued /\ InStep

\* An Encoder whose reset failed reports errUninitialized instead of panicking
\* (reset's comment, errUninitialized's comment).
NeverPanics == res # "panic"

\* srcSamples counts the samples consumed (its comment); Write says which bytes
\* those are.
SourceIsConsumed ==
    (stage = "idle" /\ cw) => srcSamples * BytesPerSample + carry = taken
=============================================================================
