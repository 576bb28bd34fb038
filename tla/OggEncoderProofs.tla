--------------------------- MODULE OggEncoderProofs ---------------------------
(***************************************************************************)
(* Theorems about OggEncoder, for every frame length, rate, sample width   *)
(* and size of the calls.  The writer under it keeps its invariants        *)
(* (OggWriterProofs); what is proved here is the count of samples.         *)
(***************************************************************************)
EXTENDS OggEncoder, OggWriterProofs

EncoderNext == EncoderRuns \/ EncoderCalls

\* Products the counts are made of.
LEMMA Distributes ==
    \A a, b, c \in Int : (a + b) * c = a * c + b * c /\ c * (a + b) = c * a + c * b
  BY SMT

LEMMA Commutes == \A a, b, c \in Int : a * b * c = a * c * b
  BY SMT

\* A carry of whole samples is as many bytes as its samples have.
LEMMA WholeSamples ==
    ASSUME NEW n \in Nat, NEW b \in Nat \ {0}
    PROVE  n \div b \in Nat /\ (n % b = 0 => (n \div b) * b = n)
  BY SMT

\* The sizes are counts.
LEMMA Sizes == Coded \in Nat \ {0} /\ FrameBytes \in Nat \ {0} /\ PreSkip \in Nat
  <1>1. FrameLen \in Nat \ {0} /\ RateRatio \in Nat \ {0} /\ BytesPerSample \in Nat \ {0}
    BY EncoderAssumption
  <1>2. \A a, b \in Nat \ {0} : a * b \in Nat \ {0}
    BY SMT
  <1> QED
    BY <1>1, <1>2, WriterAssumption DEF Coded, FrameBytes

LEMMA SourceNat == EncoderTypeOK => Source48k \in Nat
  <1>1. \A a, b \in Nat : a * b \in Nat
    BY SMT
  <1> QED
    BY <1>1, EncoderAssumption DEF Source48k, EncoderTypeOK

\* Counting k more source samples moves the 48 kHz count by their duration and the
\* bytes by their size.
LEMMA SourceAdds ==
    ASSUME EncoderTypeOK, NEW k \in Nat, srcSamples' = srcSamples + k
    PROVE  /\ Source48k' = Source48k + k * RateRatio
           /\ srcSamples' * BytesPerSample = srcSamples * BytesPerSample + k * BytesPerSample
           /\ k * RateRatio \in Nat
  <1>1. \A a, b \in Nat : a * b \in Nat
    BY SMT
  <1>2. RateRatio \in Nat /\ BytesPerSample \in Nat /\ srcSamples \in Nat
    BY EncoderAssumption DEF EncoderTypeOK
  <1> QED
    BY <1>1, <1>2, Distributes DEF Source48k

-----------------------------------------------------------------------------
\* NewEncoder starts well typed, with a new writer.
LEMMA EncoderStarts == EncoderInit => EncoderInv
  <1> SUFFICES ASSUME EncoderInit PROVE EncoderInv
    OBVIOUS
  <1>1. Init /\ WriterInv
    BY WriterStarts DEF EncoderInit
  <1>2. /\ enc = TRUE /\ cw = FALSE /\ carry = 0 /\ srcSamples = 0 /\ coded48k = 0
        /\ closed = FALSE /\ stage = "head" /\ rest = 0 /\ err = FALSE /\ taken = 0 /\ resets = 0
    BY DEF EncoderInit
  <1>3. EncoderTypeOK /\ Buffered
    <2>1. enc \in BOOLEAN /\ cw \in BOOLEAN /\ closed \in BOOLEAN /\ err \in BOOLEAN
      BY <1>2, Zenon
    <2> QED
      BY <1>2, <2>1, Sizes DEF EncoderTypeOK, Places, Buffered
  <1>4. Source48k = 0 /\ srcSamples * BytesPerSample = 0
    BY <1>2, EncoderAssumption DEF Source48k
  <1>5. ByteCount /\ Pacing /\ Working
    BY <1>2, <1>4, Sizes DEF ByteCount, Pacing, Working
  <1>6. /\ audioCount = 0 /\ held = NoPacket /\ pc = "enter" /\ closing = FALSE
        /\ call.op = "head" /\ Len(accepted) = 2 /\ LastEnd = 0
    <2>1. audioCount = 0 /\ held = NoPacket /\ pc = "enter" /\ closing = FALSE
      BY <1>1, Zenon DEF Init
    <2>2. PICK n \in TagLens :
            /\ accepted = <<[len |-> OpusHeadLen, end |-> 0], [len |-> n, end |-> 0]>>
            /\ call = Frame("head", [pkt |-> 1, len |-> OpusHeadLen], 0, TRUE,
                            [pkt |-> 2, len |-> n, dur |-> 0])
      BY <1>1, Zenon DEF Init
    <2> QED
      BY <2>1, <2>2 DEF Frame, LastEnd
  <1>7. Queued
    BY <1>2, <1>6, Sizes DEF Queued, InWrite
  <1>8. InStep
    BY <1>2, <1>6 DEF InStep, InWrite
  <1> QED
    BY <1>1, <1>3, <1>5, <1>7, <1>8 DEF EncoderInv

\* The flags stay flags.
LEMMA FlagStep == EncoderTypeOK /\ [EncoderNext]_evars =>
                  /\ enc' \in BOOLEAN /\ cw' \in BOOLEAN /\ closed' \in BOOLEAN /\ err' \in BOOLEAN
  <1> SUFFICES ASSUME EncoderTypeOK, [EncoderNext]_evars
               PROVE  /\ enc' \in BOOLEAN /\ cw' \in BOOLEAN
                      /\ closed' \in BOOLEAN /\ err' \in BOOLEAN
    OBVIOUS
  <1> USE DEF encState, evars, Return, Panic
  <1>0. enc \in BOOLEAN /\ cw \in BOOLEAN /\ closed \in BOOLEAN /\ err \in BOOLEAN
    BY DEF EncoderTypeOK
  <1>1. CASE WriterRuns
    <2>1. err' \in BOOLEAN
      BY <1>1, Zenon DEF WriterRuns
    <2>2. enc' = enc /\ cw' = cw /\ closed' = closed
      BY <1>1 DEF WriterRuns
    <2> QED
      BY <1>0, <2>1, <2>2
  <1>2. CASE HeadersDone
    BY <1>0, <1>2, Zenon DEF HeadersDone
  <1>3. ASSUME NEW real, NEW then, EncodeFrame(real, then), UNCHANGED <<enc, cw, closed>>
        PROVE  /\ enc' \in BOOLEAN /\ cw' \in BOOLEAN
               /\ closed' \in BOOLEAN /\ err' \in BOOLEAN
    BY <1>0, <1>3, Zenon DEF EncodeFrame
  <1>4. CASE EncodeCarry \/ EncodeWhole \/ EncodePartial \/ EncodeSilence
    BY <1>3, <1>4 DEF EncodeCarry, EncodeWhole, EncodePartial, EncodeSilence
  <1>5. CASE CarryDone \/ WholeDone \/ HoldRemainder \/ PartialDone \/ SilenceDone
             \/ CloseWriter \/ LastDone \/ CloseNilWriter \/ CloseCall
             \/ \E n \in CallSizes : Write(n)
    BY <1>0, <1>5 DEF CarryDone, WholeDone, HoldRemainder, PartialDone, SilenceDone,
       CloseWriter, LastDone, CloseNilWriter, CloseCall, Write
  <1>6. CASE Reset \/ ResetRejected
    BY <1>0, <1>6 DEF Reset, ResetRejected, Cleared
  <1>7. CASE UNCHANGED evars
    BY <1>0, <1>7
  <1> QED
    BY <1>1, <1>2, <1>4, <1>5, <1>6, <1>7 DEF EncoderNext, EncoderRuns, EncoderCalls

\* The counters stay counters and the carry at most a frame.
LEMMA CounterStep == EncoderTypeOK /\ Buffered /\ [EncoderNext]_evars =>
                     EncoderTypeOK' /\ Buffered'
  <1> DEFINE Counters == /\ carry \in Nat /\ srcSamples \in Nat /\ coded48k \in Nat
                         /\ rest \in Nat /\ taken \in Nat /\ resets \in Nat
                         /\ stage \in Places
  <1> SUFFICES ASSUME EncoderTypeOK, Buffered, [EncoderNext]_evars PROVE Counters' /\ Buffered'
    BY FlagStep DEF EncoderTypeOK
  <1>0. Counters
    BY DEF EncoderTypeOK
  <1> USE <1>0, Sizes DEF Places, Buffered, encState, evars, Return, Panic
  <1>1. ASSUME NEW real \in Nat, NEW then \in Places \ {"frames", "framed"}, EncodeFrame(real, then),
               UNCHANGED <<carry, rest, taken, resets>>
        PROVE  Counters' /\ Buffered'
    <2>1. stage' \in Places \ {"frames", "framed"}
      BY <1>1, Zenon DEF EncodeFrame
    <2>2. srcSamples' \in {srcSamples, srcSamples + real} /\ coded48k' \in {coded48k, coded48k + Coded}
      BY <1>1, Zenon DEF EncodeFrame, CodedBy
    <2> QED
      BY <1>1, <2>1, <2>2
  <1>2. FrameLen \in Nat /\ carry \div BytesPerSample \in Nat
    BY EncoderAssumption, WholeSamples
  <1>3. CASE Reset
    BY <1>3 DEF Reset, Cleared, ClearedCarry
  <1>4. CASE ResetRejected
    BY <1>4 DEF ResetRejected, Cleared, ClearedCarry
  <1>5. CASE CloseCall
    BY <1>5 DEF CloseCall
  <1>6. ASSUME NEW n \in CallSizes, Write(n) PROVE Counters' /\ Buffered'
    <2>1. n \in Nat
      BY EncoderAssumption
    <2>2. TopOff(n) \in Nat /\ TopOff(n) <= n /\ carry + TopOff(n) <= FrameBytes
          /\ (carry = 0 => TopOff(n) = 0)
          /\ (carry # 0 /\ carry + TopOff(n) # FrameBytes => n - TopOff(n) = 0)
      BY <2>1 DEF TopOff
    <2>3. CASE stage' = "idle"
      BY <1>6, <2>2, <2>1, <2>3 DEF Write, Refused
    <2>4. CASE stage' # "idle"
      <3>1. /\ carry' = carry + TopOff(n) /\ taken' = taken + TopOff(n)
            /\ rest' = n - TopOff(n) /\ stage' = IF carry' = FrameBytes THEN "carry" ELSE "frames"
            /\ UNCHANGED <<srcSamples, coded48k, resets>>
        BY <1>6, <2>4 DEF Write, Refused
      <3> QED
        BY <2>1, <2>2, <3>1
    <2> QED
      BY <2>3, <2>4
  <1>7. CASE WriterRuns \/ HeadersDone \/ SilenceDone \/ LastDone \/ CloseNilWriter
    BY <1>7 DEF WriterRuns, HeadersDone, SilenceDone, LastDone, CloseNilWriter
  <1>8. CASE CarryDone \/ WholeDone \/ PartialDone \/ HoldRemainder
    BY <1>8 DEF CarryDone, WholeDone, PartialDone, HoldRemainder, Advance
  <1>9. CASE CloseWriter
    BY <1>9 DEF CloseWriter
  <1>10. CASE EncodeWhole
    <2>1. CASE cw
      BY <1>10, <1>2, <2>1 DEF EncodeWhole, EncodeFrame, CodedBy
    <2>2. CASE ~cw
      BY <1>10, <2>2 DEF EncodeWhole, EncodeFrame
    <2> QED
      BY <2>1, <2>2
  <1>11. CASE EncodeCarry \/ EncodePartial \/ EncodeSilence
    BY <1>1, <1>2, <1>11 DEF EncodeCarry, EncodePartial, EncodeSilence
  <1>12. CASE UNCHANGED evars
    BY <1>12
  <1> QED
    BY <1>3, <1>4, <1>5, <1>6, <1>7, <1>8, <1>9, <1>10, <1>11, <1>12
       DEF EncoderNext, EncoderRuns, EncoderCalls

-----------------------------------------------------------------------------
(* What the Encoder asks of the writer.                                      *)

\* NewContainerWriter starts a new writer.
LEMMA ResetInit == NewContainerWriter => Init'
  BY DEF NewContainerWriter, Init

\* Every step of the Encoder is one of a writer with any caller, or starts a new one.
LEMMA EncoderDrivesWriter ==
    EncoderTypeOK /\ [EncoderNext]_evars => Init' \/ [AnyNext]_vars
  <1> SUFFICES ASSUME EncoderTypeOK, [EncoderNext]_evars PROVE Init' \/ [AnyNext]_vars
    OBVIOUS
  <1>1. ASSUME NEW real, NEW then, EncodeFrame(real, then) PROVE [AnyNext]_vars
    <2>1. CASE cw
      <3>1. PICK n \in PacketLens : WritePacket(n, Coded)
        BY <1>1, <2>1 DEF EncodeFrame
      <3>2. n \in Nat /\ Coded \in Nat
        BY Sizes, WriterAssumption
      <3> QED
        BY <3>1, <3>2 DEF AnyNext
    <2>2. CASE ~cw
      BY <1>1, <2>2 DEF EncodeFrame
    <2> QED
      BY <2>1, <2>2
  <1>2. CASE EncodeCarry \/ EncodeWhole \/ EncodePartial \/ EncodeSilence
    BY <1>1, <1>2 DEF EncodeCarry, EncodeWhole, EncodePartial, EncodeSilence
  <1>3. CASE CloseWriter
    <2>1. Close(Source48k)
      BY <1>3 DEF CloseWriter
    <2> QED
      BY <2>1, SourceNat DEF AnyNext
  <1>4. CASE WriterRuns
    BY <1>4 DEF WriterRuns, AnyNext
  <1>5. CASE Reset
    BY <1>5, ResetInit DEF Reset
  <1>6. CASE ResetRejected
    BY <1>6 DEF ResetRejected, AnyNext, Leave
  <1>7. CASE HeadersDone \/ CarryDone \/ WholeDone \/ HoldRemainder \/ PartialDone
             \/ SilenceDone \/ LastDone \/ CloseNilWriter \/ CloseCall
             \/ \E n \in CallSizes : Write(n)
    BY <1>7 DEF HeadersDone, CarryDone, WholeDone, HoldRemainder, PartialDone, SilenceDone,
       LastDone, CloseNilWriter, CloseCall, Write
  <1>8. CASE UNCHANGED evars
    BY <1>8 DEF evars
  <1> QED
    BY <1>2, <1>3, <1>4, <1>5, <1>6, <1>7, <1>8 DEF EncoderNext, EncoderRuns, EncoderCalls

\* The writer keeps its invariants under the Encoder.
LEMMA EncoderWriterStep ==
    EncoderTypeOK /\ WriterInv /\ [EncoderNext]_evars => WriterInv'
  <1>1. (Init => WriterInv)'
    BY WriterStarts, PTL
  <1> QED
    BY <1>1, EncoderDrivesWriter, WriterKeeps

\* A codec is there while a call is at work, and an error is the sink's.
LEMMA WorkingStep ==
    EncoderTypeOK /\ WriterInv /\ Working /\ [EncoderNext]_evars => Working'
  <1> SUFFICES ASSUME EncoderTypeOK, WriterInv, Working, [EncoderNext]_evars PROVE Working'
    OBVIOUS
  <1>0. fails \in Nat
    BY DEF WriterInv, PageInv, TypeOK
  <1> USE DEF Working, encState, evars, vars, Return, Panic
  <1>1. ASSUME NEW real, NEW then, EncodeFrame(real, then), UNCHANGED <<enc, closed>>,
               stage \notin {"idle", "nothing", "panicked"}
        PROVE  Working'
    <2>1. enc' = enc /\ closed' = closed /\ enc
      BY <1>1
    <2>2. CASE cw
      <3>1. err' = FALSE
        BY <1>1, <2>2, Zenon DEF EncodeFrame
      <3> QED
        BY <2>1, <3>1
    <2>3. CASE ~cw
      <3>1. stage' = "panicked" /\ err' = err /\ fails' = fails
        BY <1>1, <2>3 DEF EncodeFrame
      <3> QED
        BY <2>1, <3>1
    <2> QED
      BY <2>2, <2>3
  <1>2. CASE EncodeCarry \/ EncodeWhole \/ EncodePartial \/ EncodeSilence
    BY <1>1, <1>2 DEF EncodeCarry, EncodeWhole, EncodePartial, EncodeSilence
  <1>3. CASE CloseWriter
    BY <1>3 DEF CloseWriter
  <1>4. CASE WriterRuns
    <2>1. fails' \in {fails, fails + 1}
      BY <1>4 DEF WriterRuns, Step, CommitForced, CommitFull, CommitLast, CommitFails, Enter,
         PlaceSegment, ReturnHead, ReturnTags, ReturnWrite, ReturnClose
    <2>3. err' => fails' # fails
      BY <1>4, Zenon DEF WriterRuns
    <2>4. err' => fails' > 0
      BY <1>0, <2>1, <2>3
    <2> QED
      BY <1>4, <2>4 DEF WriterRuns
  <1>5. CASE Reset
    BY <1>5 DEF Reset, Cleared
  <1>6. CASE ResetRejected
    BY <1>6 DEF ResetRejected, Cleared
  <1>7. CASE HeadersDone \/ CarryDone \/ WholeDone \/ HoldRemainder \/ PartialDone
             \/ SilenceDone \/ LastDone \/ CloseNilWriter \/ CloseCall
    BY <1>7 DEF HeadersDone, CarryDone, WholeDone, HoldRemainder, PartialDone, SilenceDone,
       LastDone, CloseNilWriter, CloseCall
  <1>8. ASSUME NEW n \in CallSizes, Write(n) PROVE Working'
    BY <1>8 DEF Write, Refused
  <1>9. CASE UNCHANGED evars
    BY <1>9
  <1> QED
    BY <1>2, <1>3, <1>4, <1>5, <1>6, <1>7, <1>8, <1>9
       DEF EncoderNext, EncoderRuns, EncoderCalls

-----------------------------------------------------------------------------
(* The packets queued.                                                       *)

\* What the writer's own steps do to the packets: nothing, until the call that
\* holds the new packet returns.
LEMMA OwnSteps ==
    ASSUME WriterInv, Step, fails = 0, fails' = 0
    PROVE  /\ closing' = closing /\ pc \in {"enter", "place", "eos"} /\ pc' # "dropped"
           /\ (InWrite' => InWrite)
           /\ (pc' \in {"enter", "place"} /\ call'.op \in {"head", "tags"}) =>
                  pc \in {"enter", "place"} /\ call.op \in {"head", "tags"}
           /\ \/ /\ accepted' = accepted /\ audioCount' = audioCount
                 /\ (InWrite' <=> InWrite) /\ (InWrite => call'.new = call.new)
                 /\ held' \in {held, NoPacket}
                 /\ pc' = "ready" /\ ~closing => Len(accepted) = 2
              \/ /\ InWrite /\ ~InWrite' /\ Hold(call.new) /\ pc' = "ready"
                 /\ call.new # NoPacket
  <1>0. TypeOK /\ ClosingOK /\ CallInTurn
    BY DEF WriterInv, PageInv, OrderInv
  <1> USE DEF InWrite, swVars, cwVars
  <1>1. ~CommitFails
    BY DEF CommitFails
  <1>2. CASE CommitForced
    BY <1>2 DEF CommitForced, AtForced
  <1>3. CASE CommitFull
    BY <1>3 DEF CommitFull, AtFull
  <1>4. CASE CommitLast
    BY <1>0, <1>4 DEF CommitLast, AtLast, ClosingOK
  <1>5. CASE Enter
    BY <1>5 DEF Enter
  <1>6. CASE PlaceSegment
    <2>1. call'.op = call.op /\ call'.new = call.new
      BY <1>0, <1>6 DEF PlaceSegment, TypeOK, Frames
    <2> QED
      BY <1>6, <2>1 DEF PlaceSegment
  <1>7. CASE ReturnHead
    <2>1. call'.op = "tags"
      BY <1>7 DEF ReturnHead, Frame
    <2> QED
      BY <1>7, <2>1 DEF ReturnHead, Returns
  <1>8. CASE ReturnTags
    BY <1>0, <1>8 DEF ReturnTags, Returns, CallInTurn
  <1>9. CASE ReturnWrite
    BY <1>0, <1>9 DEF ReturnWrite, Returns, TypeOK
  <1>10. CASE ReturnClose
    BY <1>0, <1>10 DEF ReturnClose, Returns, ClosingOK
  <1> QED
    BY <1>1, <1>2, <1>3, <1>4, <1>5, <1>6, <1>7, <1>8, <1>9, <1>10 DEF Step

\* What Hold does, in numbers.
LEMMA HoldCounts ==
    ASSUME TypeOK, NEW p, Hold(p)
    PROVE  /\ Len(accepted') = Len(accepted) + 1 /\ Len(accepted) \in Nat /\ Len(accepted) >= 2
           /\ LastEnd' = LastEnd + p.dur /\ held' = p /\ audioCount' = audioCount + 1
  <1>1. accepted' = Append(accepted, [len |-> p.len, end |-> LastEnd + p.dur])
    BY DEF Hold
  <1>2. /\ Len(accepted') = Len(accepted) + 1 /\ Len(accepted) \in Nat /\ Len(accepted) >= 2
        /\ accepted'[Len(accepted) + 1] = [len |-> p.len, end |-> LastEnd + p.dur]
    BY <1>1 DEF TypeOK
  <1> QED
    BY <1>2 DEF Hold, LastEnd

\* One more packet is a frame more.
LEMMA FrameMore ==
    ASSUME NEW n \in Int
    PROVE  /\ Coded * (n - 1) = Coded * (n - 2) + Coded
           /\ Coded * ((n + 1) - 2) = Coded * (n - 1)
           /\ Coded * (n - 2) \in Int
  <1>1. Coded \in Int
    BY Sizes
  <1>2. \A a \in Int : a * (n - 1) = a * (n - 2) + a /\ a * ((n + 1) - 2) = a * (n - 1)
                       /\ a * (n - 2) \in Int
    BY SMT
  <1> QED
    BY <1>1, <1>2

\* LastEnd is a count.
LEMMA LastEndNat == TypeOK => LastEnd \in Nat
  <1> SUFFICES ASSUME TypeOK PROVE LastEnd \in Nat
    OBVIOUS
  <1>1. accepted \in Seq(Accepted) /\ Len(accepted) \in 1..Len(accepted)
    BY DEF TypeOK
  <1>2. accepted[Len(accepted)] \in Accepted
    BY <1>1, ElementOfSeq
  <1> QED
    BY <1>2 DEF LastEnd, Accepted

\* The writer's own steps keep the queue.
LEMMA QueueRuns ==
    ASSUME WriterInv, EncoderTypeOK, Queued, Step, fails = 0, fails' = 0,
           UNCHANGED <<srcSamples, coded48k>>
    PROVE  Queued'
  <1>0. TypeOK /\ Len(accepted) \in Nat /\ Len(accepted) >= 2
    BY DEF WriterInv, PageInv, TypeOK
  <1>1. Source48k' = Source48k
    BY DEF Source48k
  <1>2. closing' = closing
    BY OwnSteps
  <1>3. ASSUME /\ accepted' = accepted /\ audioCount' = audioCount
               /\ (InWrite' <=> InWrite) /\ (InWrite => call'.new = call.new)
               /\ held' \in {held, NoPacket}
               /\ pc' = "ready" /\ ~closing => Len(accepted) = 2
        PROVE  Queued'
    <2>1. LastEnd' = LastEnd
      BY <1>3 DEF LastEnd
    <2>2. pc' = "ready" /\ ~closing => audioCount' = 0
      <3>1. audioCount = Len(accepted) - 2
        BY DEF Queued
      <3> QED
        BY <1>0, <1>3, <3>1
    <2>3. pc' = "ready" /\ ~closing' /\ audioCount' > 0 => held' # NoPacket
      BY <1>2, <2>2
    <2>4. Len(accepted') = Len(accepted) /\ (held' # NoPacket => held'.dur = Coded)
      BY <1>3 DEF Queued
    <2>5. InWrite' => /\ coded48k' = Coded * (Len(accepted') - 1)
                      /\ call'.new.dur = Coded
                      /\ LastEnd' + Coded = coded48k'
      BY <1>3, <2>1 DEF Queued
    <2>6. ~InWrite' => /\ coded48k' = Coded * (Len(accepted') - 2)
                       /\ ~closing' => LastEnd' = coded48k'
      BY <1>2, <1>3, <2>1 DEF Queued
    <2>7. closing' => LastEnd' = PreSkip + Source48k' /\ LastEnd' <= coded48k'
      BY <1>1, <1>2, <2>1 DEF Queued
    <2>8. audioCount' = Len(accepted') - 2
      BY <1>3 DEF Queued
    <2> QED
      BY <2>3, <2>4, <2>5, <2>6, <2>7, <2>8 DEF Queued
  <1>4. ASSUME InWrite, ~InWrite', Hold(call.new), pc' = "ready", call.new # NoPacket
        PROVE  Queued'
    <2>1. /\ Len(accepted') = Len(accepted) + 1 /\ LastEnd' = LastEnd + call.new.dur
          /\ held' = call.new /\ audioCount' = audioCount + 1
      BY <1>0, <1>4, HoldCounts
    <2>2. /\ coded48k = Coded * (Len(accepted) - 1) /\ call.new.dur = Coded
          /\ LastEnd + Coded = coded48k /\ audioCount = Len(accepted) - 2
      BY <1>4 DEF Queued
    <2>3. ~closing
      BY <1>4 DEF WriterInv, OrderInv, CallInTurn, InWrite
    <2>4. coded48k' = Coded * (Len(accepted') - 2)
      BY <1>0, <2>1, <2>2, FrameMore
    <2> QED
      BY <1>0, <1>2, <1>4, <2>1, <2>2, <2>3, <2>4 DEF Queued
  <1> QED
    BY <1>3, <1>4, OwnSteps

\* Handing a frame to the writer queues it.
LEMMA QueueFrame ==
    ASSUME WriterInv, EncoderTypeOK, Queued, NEW n \in Nat, WritePacket(n, Coded),
           coded48k' = coded48k + Coded, fails = 0
    PROVE  /\ Queued' /\ ~closing' /\ pc' # "dropped" /\ fails' = 0
           /\ ~(pc' \in {"enter", "place"} /\ call'.op \in {"head", "tags"})
  <1>0. TypeOK /\ Len(accepted) \in Nat /\ Len(accepted) >= 2
    BY DEF WriterInv, PageInv, TypeOK
  <1> DEFINE new == [pkt |-> Len(accepted) + 1, len |-> n, dur |-> Coded]
  <1>1. /\ pc = "ready" /\ ~closing /\ ~closing' /\ fails' = 0 /\ ~InWrite
    BY DEF WritePacket, InWrite
  <1>2. /\ audioCount = Len(accepted) - 2 /\ coded48k = Coded * (Len(accepted) - 2)
        /\ LastEnd = coded48k
    BY <1>1 DEF Queued
  <1>3. CASE held # NoPacket
    <2>1. /\ call' = Frame("write", held, granule', ForceNewPage, new) /\ pc' = "enter"
          /\ UNCHANGED <<held, accepted, audioCount>>
      BY <1>3 DEF WritePacket, PlaceAudio
    <2>2. call'.op = "write" /\ call'.new.dur = Coded /\ InWrite'
      BY <2>1 DEF Frame, InWrite
    <2>3. coded48k' = Coded * (Len(accepted) - 1)
      BY <1>0, <1>2, FrameMore
    <2>4. LastEnd' + Coded = coded48k'
      BY <1>2, <2>1 DEF LastEnd
    <2>5. held.dur = Coded
      BY <1>3 DEF Queued
    <2> QED
      BY <1>1, <1>2, <2>1, <2>2, <2>3, <2>4, <2>5 DEF Queued
  <1>4. CASE held = NoPacket
    <2>1. Hold(new) /\ pc' = "ready"
      BY <1>1, <1>4 DEF WritePacket
    <2>2. /\ Len(accepted') = Len(accepted) + 1 /\ LastEnd' = LastEnd + Coded
          /\ held' = new /\ audioCount' = audioCount + 1
      BY <1>0, <2>1, HoldCounts
    <2>3. new # NoPacket /\ new.dur = Coded
      BY <1>0, Sizes, NewPacket
    <2>4. coded48k' = Coded * (Len(accepted') - 2)
      BY <1>0, <1>2, <2>2, FrameMore
    <2>5. ~InWrite'
      BY <2>1 DEF InWrite
    <2> QED
      BY <1>0, <1>1, <1>2, <2>1, <2>2, <2>3, <2>4, <2>5 DEF Queued
  <1> QED
    BY <1>3, <1>4

\* Close gives the last packet the end of the source, for what is coded without it
\* does not reach that far and what is coded with it does.
LEMMA QueueClose ==
    ASSUME WriterInv, EncoderTypeOK, Queued, Pacing, Close(Source48k), fails = 0,
           ~closing, ~NeedsSilence, UNCHANGED <<srcSamples, coded48k>>
    PROVE  /\ Queued' /\ closing' /\ pc' # "dropped" /\ fails' = 0
           /\ pc' \in {"enter", "place"} => call'.op = "close"
  <1>0. TypeOK /\ Len(accepted) \in Nat /\ Len(accepted) >= 2 /\ Dated
    BY DEF WriterInv, PageInv, TypeOK, GranuleInv
  <1>1. /\ pc = "ready" /\ closing' /\ fails' = 0 /\ UNCHANGED <<held, audioCount, granule>>
        /\ ~InWrite
    BY DEF Close, InWrite, cwVars
  <1>2. audioCount > 0 /\ coded48k >= PreSkip + Source48k
    <2>1. audioCount \in Nat /\ audioCount # 0 /\ ~(coded48k < PreSkip + Source48k)
      BY <1>0 DEF NeedsSilence, TypeOK
    <2>2. coded48k \in Nat /\ PreSkip + Source48k \in Nat
      BY SourceNat, Sizes DEF EncoderTypeOK
    <2> QED
      BY <2>1, <2>2
  <1>3. held # NoPacket /\ held.dur = Coded /\ LastEnd = coded48k
    BY <1>1, <1>2 DEF Queued
  <1>4. granule = accepted[Len(accepted) - 1].end /\ LastEnd = granule + held.dur /\ granule \in Nat
    BY <1>0, <1>1, <1>3 DEF Dated, TypeOK
  <1>5. granule <= PreSkip + Source48k
    <2>1. coded48k \in Nat /\ Source48k \in Nat /\ Coded \in Nat /\ PreSkip \in Nat
      BY SourceNat, Sizes DEF EncoderTypeOK
    <2>2. coded48k <= PreSkip + Source48k + Coded /\ coded48k = granule + Coded
      BY <1>3, <1>4 DEF Pacing
    <2> QED
      BY <1>4, <2>1, <2>2
  <1>6. Larger(PreSkip + Source48k, accepted[Len(accepted) - 1].end) = PreSkip + Source48k
    BY <1>4, <1>5, SourceNat, Sizes DEF Larger
  <1>7. /\ pc' = "enter" /\ call'.op = "close"
        /\ accepted' = [accepted EXCEPT ![Len(accepted)].end = PreSkip + Source48k]
    BY <1>3, <1>6 DEF Close, PlaceAudio, Frame
  <1>8. Len(accepted') = Len(accepted) /\ LastEnd' = PreSkip + Source48k
    <2>1. Len(accepted') = Len(accepted) /\ Len(accepted) \in DOMAIN accepted
      BY <1>0, <1>7 DEF TypeOK
    <2>2. accepted[Len(accepted)] \in Accepted
      BY <1>0, <2>1, ElementOfSeq DEF TypeOK
    <2> QED
      BY <1>7, <2>1, <2>2 DEF LastEnd, Accepted
  <1>9. Source48k' = Source48k /\ ~InWrite'
    BY <1>7 DEF Source48k, InWrite
  <1> QED
    BY <1>1, <1>2, <1>3, <1>7, <1>8, <1>9 DEF Queued

-----------------------------------------------------------------------------
(* The count of samples.                                                     *)

Counts == ByteCount /\ Pacing /\ Queued /\ InStep

\* A frame handed over, from any of the places of the Encoder that do.
LEMMA EncodeCounts ==
    ASSUME EncoderTypeOK, WriterInv, fails = 0, NEW real \in Nat,
           NEW then \in {"carried", "framed", "padded", "silence"},
           EncodeFrame(real, then), cw, Queued, InStep, ~closed, closed' = closed,
           real * RateRatio >= coded48k - PreSkip - Source48k
    PROVE  /\ Queued' /\ InStep'
           /\ stage' = then /\ srcSamples' = srcSamples + real
           /\ coded48k' <= PreSkip + Source48k' + Coded /\ coded48k' = coded48k + Coded
           /\ Source48k' = Source48k + real * RateRatio
           /\ srcSamples' * BytesPerSample = srcSamples * BytesPerSample + real * BytesPerSample
  <1>1. /\ srcSamples' = srcSamples + real /\ coded48k' = coded48k + Coded /\ stage' = then
    BY DEF EncodeFrame, CodedBy
  <1>2. PICK n \in PacketLens : WritePacket(n, Coded)
    BY DEF EncodeFrame
  <1>3. n \in Nat
    BY WriterAssumption
  <1>4. /\ Queued' /\ ~closing' /\ pc' # "dropped"
        /\ ~(pc' \in {"enter", "place"} /\ call'.op \in {"head", "tags"})
    BY <1>1, <1>2, <1>3, QueueFrame
  <1>5. /\ Source48k' = Source48k + real * RateRatio /\ real * RateRatio \in Nat
        /\ srcSamples' * BytesPerSample = srcSamples * BytesPerSample + real * BytesPerSample
    BY <1>1, SourceAdds
  <1>6. coded48k' <= PreSkip + Source48k' + Coded
    <2> DEFINE r == real * RateRatio
    <2>1. coded48k \in Nat /\ Source48k \in Nat /\ Coded \in Nat /\ PreSkip \in Nat
      BY SourceNat, Sizes DEF EncoderTypeOK
    <2>2. r \in Nat /\ r >= coded48k - PreSkip - Source48k /\ Source48k' = Source48k + r
      BY <1>5
    <2> HIDE DEF r
    <2> QED
      BY <1>1, <2>1, <2>2
  <1>7. InStep'
    BY <1>1, <1>4 DEF InStep
  <1> QED
    BY <1>1, <1>4, <1>5, <1>6, <1>7

\* Nothing is queued while neither the writer nor the counters move.
LEMMA QueueStill ==
    ASSUME Queued, UNCHANGED <<vars, srcSamples, coded48k>>
    PROVE  Queued' /\ Source48k' = Source48k
  BY DEF Queued, InWrite, LastEnd, Source48k, vars, swVars, cwVars

\* Every step keeps the counts, on a sink that takes every page.
LEMMA CountStep == EncoderInv /\ [EncoderNext]_evars /\ fails' = 0 /\ enc' => Counts'
  <1> SUFFICES ASSUME EncoderInv, [EncoderNext]_evars, fails' = 0, enc' PROVE Counts'
    OBVIOUS
  <1>0. EncoderTypeOK /\ Buffered /\ Working /\ WriterInv /\ fails \in Nat
    BY DEF EncoderInv, WriterInv, PageInv, TypeOK
  <1>t. /\ carry \in Nat /\ srcSamples \in Nat /\ coded48k \in Nat /\ rest \in Nat /\ taken \in Nat
        /\ Source48k \in Nat /\ PreSkip \in Nat /\ Coded \in Nat \ {0} /\ FrameBytes \in Nat \ {0}
        /\ FrameLen \in Nat /\ RateRatio \in Nat /\ BytesPerSample \in Nat \ {0}
    BY <1>0, SourceNat, Sizes, EncoderAssumption DEF EncoderTypeOK
  <1>p. \A a, b \in Nat : a * b \in Nat
    BY SMT
  <1>w. srcSamples * BytesPerSample \in Nat
    BY <1>p, <1>t
  <1>1. CASE Reset
    <2>1. Init' /\ carry' = 0 /\ srcSamples' = 0 /\ coded48k' = 0 /\ ~closed' /\ taken' = 0
          /\ stage' = "head"
      BY <1>1, ResetInit DEF Reset, Cleared, ClearedCarry
    <2>2. /\ audioCount' = 0 /\ held' = NoPacket /\ pc' = "enter" /\ closing' = FALSE
      BY <1>1, Zenon DEF Reset, NewContainerWriter
    <2>3. call'.op = "head" /\ Len(accepted') = 2 /\ LastEnd' = 0
      <3>1. PICK n \in TagLens :
              /\ accepted' = <<[len |-> OpusHeadLen, end |-> 0], [len |-> n, end |-> 0]>>
              /\ call' = Frame("head", [pkt |-> 1, len |-> OpusHeadLen], 0, TRUE,
                               [pkt |-> 2, len |-> n, dur |-> 0])
        BY <1>1, Zenon DEF Reset, NewContainerWriter
      <3> QED
        BY <3>1 DEF Frame, LastEnd
    <2>4. Source48k' = 0 /\ srcSamples' * BytesPerSample = 0
      BY <1>t, <2>1 DEF Source48k
    <2>5. ByteCount' /\ Pacing'
      BY <1>t, <2>1, <2>4 DEF ByteCount, Pacing
    <2>6. Queued'
      BY <1>t, <2>1, <2>2, <2>3 DEF Queued, InWrite
    <2>7. InStep'
      BY <2>1, <2>2, <2>3 DEF InStep, InWrite
    <2> QED
      BY <2>5, <2>6, <2>7 DEF Counts
  <1>2. CASE ResetRejected
    BY <1>2, Zenon DEF ResetRejected
  <1>r. ASSUME ~Reset PROVE fails = 0 /\ enc /\ enc' = enc /\ ~err /\ Counts
    <2> USE DEF encState, evars, vars, Return, Panic
    <2>1. ~ResetRejected
      BY Zenon DEF ResetRejected
    <2>f. ASSUME NEW real, NEW then, EncodeFrame(real, then) PROVE fails' = fails
      BY <2>f DEF EncodeFrame, WritePacket, swVars, cwVars
    <2>8. enc' = enc /\ (fails' = fails \/ Step)
      <3>3. CASE EncodeCarry \/ EncodeWhole \/ EncodePartial \/ EncodeSilence
        BY <3>3, <2>f DEF EncodeCarry, EncodeWhole, EncodePartial, EncodeSilence
      <3>4. CASE CloseWriter
        BY <3>4 DEF CloseWriter, Close, swVars, cwVars
      <3>5. CASE HeadersDone \/ CarryDone \/ WholeDone \/ HoldRemainder \/ PartialDone
                 \/ SilenceDone \/ LastDone \/ CloseNilWriter \/ CloseCall
                 \/ \E n \in CallSizes : Write(n)
        BY <3>5 DEF HeadersDone, CarryDone, WholeDone, HoldRemainder, PartialDone, SilenceDone,
           LastDone, CloseNilWriter, CloseCall, Write
      <3>6. CASE WriterRuns
        BY <3>6 DEF WriterRuns
      <3>7. CASE UNCHANGED evars
        BY <3>7
      <3> QED
        BY <1>r, <2>1, <3>3, <3>4, <3>5, <3>6, <3>7 DEF EncoderNext, EncoderRuns, EncoderCalls
    <2>2. Step => fails' \in {fails, fails + 1}
      BY DEF Step, CommitForced, CommitFull, CommitLast, CommitFails, Enter,
         PlaceSegment, ReturnHead, ReturnTags, ReturnWrite, ReturnClose
    <2>9. fails = 0
      BY <1>0, <2>8, <2>2
    <2>10. enc
      BY <2>8, Zenon
    <2>11. ~err
      BY <1>0, <2>9 DEF Working
    <2> QED
      BY <2>8, <2>9, <2>10, <2>11 DEF EncoderInv, Counts
  <1>s. ASSUME UNCHANGED <<vars, srcSamples, coded48k>>, ~Reset
        PROVE  Queued' /\ Source48k' = Source48k
    BY <1>r, <1>s, QueueStill DEF Counts
  <1> USE DEF encState, evars, Return, Panic
  <1>3. CASE WriterRuns /\ ~Reset
    <2>1. Step /\ UNCHANGED <<stage, srcSamples, coded48k, carry, taken, closed>>
      BY <1>3 DEF WriterRuns
    <2>2. Queued'
      BY <1>0, <1>3, <1>r, <2>1, QueueRuns DEF Counts
    <2>3. ByteCount' /\ Pacing'
      BY <1>3, <1>r, <2>1 DEF ByteCount, Pacing, Source48k, Counts
    <2>4. InStep'
      <3> HIDE DEF InWrite
      <3>1. InStep
        BY <1>3, <1>r DEF Counts
      <3>2. /\ closing' = closing /\ pc \in {"enter", "place", "eos"} /\ pc' # "dropped"
            /\ (InWrite' => InWrite)
            /\ (pc' \in {"enter", "place"} /\ call'.op \in {"head", "tags"}) =>
                  pc \in {"enter", "place"} /\ call.op \in {"head", "tags"}
            /\ ~InWrite => accepted' = accepted /\ held' \in {held, NoPacket}
        BY <1>0, <1>3, <1>r, <2>1, OwnSteps
      <3> QED
        BY <2>1, <3>1, <3>2 DEF InStep
    <2> QED
      BY <2>2, <2>3, <2>4 DEF Counts
  <1>4. CASE HeadersDone /\ ~Reset
    <2>1. /\ stage = "head" /\ pc \in {"ready", "dropped"} /\ stage' \in {"idle"}
          /\ UNCHANGED <<vars, carry, srcSamples, coded48k, closed, taken>>
      BY <1>4, <1>r DEF HeadersDone
    <2>2. ByteCount' /\ Pacing' /\ InStep'
      BY <1>4, <1>r, <2>1 DEF ByteCount, Pacing, InStep, InWrite, Counts, Source48k, vars,
         swVars, cwVars
    <2> QED
      BY <1>4, <1>s, <2>1, <2>2 DEF Counts
  <1>q. ASSUME stage \in {"carry", "frames", "partial", "tail"}, UNCHANGED <<vars, closed>>,
               stage' \in {"carry", "frames", "partial", "tail", "idle", "panicked"}, ~closed, ~Reset
        PROVE  InStep'
    BY <1>q, <1>r DEF InStep, InWrite, Counts, vars, swVars, cwVars
  <1>n. ASSUME stage \in {"carry", "frames", "partial", "tail", "carried", "framed", "padded", "silence"},
               ~Reset
        PROVE  ~closed
    BY <1>n, <1>r DEF InStep, Counts
  <1>u. ASSUME stage' = "panicked", UNCHANGED <<vars, srcSamples, coded48k, closed>>, ~Reset,
               stage \in {"carry", "frames", "partial", "tail"}
        PROVE  Counts'
    <2>1. InStep' /\ Queued' /\ Source48k' = Source48k
      BY <1>n, <1>q, <1>s, <1>u
    <2>2. ByteCount' /\ Pacing'
      BY <1>r, <1>u, <1>n, <2>1 DEF ByteCount, Pacing, Counts
    <2> QED
      BY <2>1, <2>2 DEF Counts
  <1>5. ASSUME NEW real \in Nat, NEW then \in {"carried", "framed", "padded", "silence"},
               EncodeFrame(real, then), stage \in {"carry", "frames", "partial", "tail"},
               real * RateRatio >= coded48k - PreSkip - Source48k,
               UNCHANGED <<carry, closed, taken>>, ~Reset,
               /\ then \in {"carried", "padded"} => real * BytesPerSample = carry
               /\ then = "framed" => real * BytesPerSample = FrameBytes
               /\ then = "silence" => stage = "tail" /\ real = 0
               /\ then \in {"carried", "framed"} => real * RateRatio = Coded /\ coded48k = Source48k
        PROVE  Counts'
    <2>1. CASE cw
      <3>1. /\ Queued' /\ InStep'
            /\ stage' = then /\ srcSamples' = srcSamples + real
            /\ coded48k' <= PreSkip + Source48k' + Coded /\ coded48k' = coded48k + Coded
            /\ Source48k' = Source48k + real * RateRatio
            /\ srcSamples' * BytesPerSample = srcSamples * BytesPerSample + real * BytesPerSample
        BY <1>0, <1>5, <1>r, <1>n, <2>1, EncodeCounts DEF Counts
      <3>2. srcSamples * BytesPerSample + carry = taken
        BY <1>5, <1>r DEF Counts, ByteCount
      <3>3. ByteCount'
        <4>1. then = "silence" => carry = 0 /\ real * BytesPerSample = 0
          BY <1>5, <1>r, <1>t DEF Counts, ByteCount
        <4>2. then \in {"carried", "padded"} => srcSamples' * BytesPerSample = taken'
          BY <1>5, <3>1, <3>2
        <4>3. then = "framed" => srcSamples' * BytesPerSample + carry' = taken' + FrameBytes
          <5>1. then = "framed" => srcSamples' * BytesPerSample = srcSamples * BytesPerSample + FrameBytes
            BY <1>5, <3>1
          <5> QED
            BY <1>5, <1>t, <1>w, <3>2, <5>1
        <4>4. then = "silence" => srcSamples' * BytesPerSample + carry' = taken' /\ carry' = 0
          BY <1>5, <1>t, <1>w, <3>1, <3>2, <4>1
        <4>5. ~closed'
          BY <1>5, <1>n
        <4> QED
          BY <1>5, <3>1, <4>2, <4>3, <4>4, <4>5 DEF ByteCount
      <3>4. Pacing'
        BY <1>5, <3>1 DEF Pacing
      <3> QED
        BY <3>1, <3>3, <3>4 DEF Counts
    <2>2. CASE ~cw
      <3>1. stage' = "panicked" /\ UNCHANGED <<vars, srcSamples, coded48k>>
        BY <1>5, <2>2 DEF EncodeFrame
      <3> QED
        BY <1>5, <1>u, <3>1
    <2> QED
      BY <2>1, <2>2
  <1>e. FrameLen * RateRatio = Coded /\ FrameLen * BytesPerSample = FrameBytes
    BY DEF Coded, FrameBytes
  <1>g. ASSUME stage \in {"carry", "frames", "partial"}, ~Reset PROVE coded48k = Source48k
    BY <1>g, <1>n, <1>r DEF Counts, Pacing
  <1>6. CASE EncodeCarry /\ ~Reset
    <2>1. /\ stage = "carry" /\ EncodeFrame(FrameLen, "carried") /\ UNCHANGED <<carry, closed, taken>>
      BY <1>6 DEF EncodeCarry
    <2>2. coded48k = Source48k /\ carry = FrameBytes
      BY <1>6, <1>g, <1>r, <2>1 DEF Counts, ByteCount
    <2>3. FrameLen * RateRatio >= coded48k - PreSkip - Source48k
      BY <1>e, <1>t, <2>2
    <2> QED
      BY <1>5, <1>6, <1>e, <1>t, <2>1, <2>2, <2>3
  <1>7. CASE EncodeWhole /\ ~Reset
    <2>1. /\ stage = "frames" /\ EncodeFrame(FrameLen, "framed") /\ UNCHANGED <<carry, closed, taken>>
      BY <1>7 DEF EncodeWhole
    <2>2. coded48k = Source48k
      BY <1>7, <1>g, <2>1
    <2>3. FrameLen * RateRatio >= coded48k - PreSkip - Source48k
      BY <1>e, <1>t, <2>2
    <2> QED
      BY <1>5, <1>7, <1>e, <1>t, <2>1, <2>2, <2>3
  <1>8. CASE EncodePartial /\ ~Reset
    <2> DEFINE real == carry \div BytesPerSample
    <2>1. /\ stage = "partial" /\ EncodeFrame(real, "padded") /\ UNCHANGED <<carry, closed, taken>>
      BY <1>8 DEF EncodePartial
    <2>2. coded48k = Source48k
      BY <1>8, <1>g, <2>1
    <2>3. real \in Nat /\ real * BytesPerSample = carry
      <3>1. carry % BytesPerSample = 0
        BY <1>8, <1>r, <2>1 DEF Counts, ByteCount
      <3> QED
        BY <1>t, <3>1, WholeSamples
    <2> HIDE DEF real
    <2>4. real * RateRatio >= coded48k - PreSkip - Source48k
      <3>1. real * RateRatio \in Nat
        BY <1>p, <1>t, <2>3
      <3>2. coded48k - PreSkip - Source48k <= 0
        BY <1>t, <2>2
      <3> QED
        BY <1>t, <3>1, <3>2
    <2> QED
      BY <1>5, <1>8, <2>1, <2>3, <2>4
  <1>9. CASE EncodeSilence /\ ~Reset
    <2>1. /\ stage = "tail" /\ EncodeFrame(0, "silence") /\ UNCHANGED <<carry, closed, taken>>
          /\ NeedsSilence
      BY <1>9 DEF EncodeSilence
    <2>2. coded48k <= PreSkip + Source48k
      <3>1. CASE audioCount = 0
        <4>1. pc = "ready" /\ Queued
          BY <1>9, <1>r, <2>1 DEF Counts, InStep
        <4>2. coded48k = Coded * (Len(accepted) - 2) /\ Len(accepted) - 2 = 0
          BY <3>1, <4>1 DEF Queued, InWrite
        <4>3. \A k : k = 0 => Coded * k = 0
          BY <1>t
        <4>4. coded48k = 0
          BY <4>2, <4>3, Zenon
        <4> QED
          BY <1>t, <4>4
      <3>2. CASE coded48k < PreSkip + Source48k
        BY <1>t, <3>2
      <3> QED
        BY <2>1, <3>1, <3>2 DEF NeedsSilence
    <2>3. 0 * RateRatio >= coded48k - PreSkip - Source48k
      BY <1>t, <2>2
    <2> QED
      BY <1>5, <1>9, <2>1, <2>3
  <1>10. CASE (CarryDone \/ PartialDone) /\ ~Reset
    <2>1. /\ stage \in {"carried", "padded"} /\ pc = "ready" /\ carry' = 0
          /\ stage' = IF stage = "carried" THEN "frames" ELSE "tail"
          /\ UNCHANGED <<vars, srcSamples, coded48k, closed, taken>>
      BY <1>10, <1>r DEF CarryDone, PartialDone
    <2>2. Queued' /\ Source48k' = Source48k
      BY <1>10, <1>s, <2>1
    <2>3. srcSamples' * BytesPerSample + carry' = taken'
      <3>1. srcSamples * BytesPerSample = taken
        BY <1>10, <1>r, <2>1 DEF Counts, ByteCount
      <3> QED
        BY <1>t, <2>1, <3>1
    <2>4. ByteCount'
      BY <2>1, <2>3 DEF ByteCount
    <2>5. Pacing'
      BY <1>10, <1>r, <1>n, <2>1, <2>2 DEF Pacing, Counts
    <2>6. InStep'
      BY <1>10, <1>r, <2>1 DEF InStep, InWrite, Counts, vars, swVars, cwVars
    <2> QED
      BY <2>2, <2>4, <2>5, <2>6 DEF Counts
  <1>11. CASE WholeDone /\ ~Reset
    <2>1. /\ stage = "framed" /\ pc = "ready" /\ stage' = "frames" /\ taken' = taken + FrameBytes
          /\ UNCHANGED <<vars, srcSamples, coded48k, closed, carry>>
      BY <1>11, <1>r DEF WholeDone
    <2>2. Queued' /\ Source48k' = Source48k
      BY <1>11, <1>s, <2>1
    <2>3. srcSamples' * BytesPerSample + carry' = taken' /\ ~closed'
      BY <1>11, <1>r, <1>n, <2>1 DEF Counts, ByteCount
    <2>4. ByteCount'
      BY <2>1, <2>3 DEF ByteCount
    <2>5. Pacing'
      BY <1>11, <1>r, <1>n, <2>1, <2>2 DEF Pacing, Counts
    <2>6. InStep'
      BY <1>11, <1>r, <2>1 DEF InStep, InWrite, Counts, vars, swVars, cwVars
    <2> QED
      BY <2>2, <2>4, <2>5, <2>6 DEF Counts
  <1>12. CASE HoldRemainder /\ ~Reset
    <2>1. /\ stage = "frames" /\ stage' = "idle" /\ taken' = taken + rest /\ carry' = carry + rest
          /\ UNCHANGED <<vars, srcSamples, coded48k, closed>>
      BY <1>12 DEF HoldRemainder
    <2>2. Queued' /\ Source48k' = Source48k
      BY <1>12, <1>s, <2>1
    <2>3. srcSamples' * BytesPerSample + carry' = taken' /\ ~closed'
      <3>1. srcSamples * BytesPerSample + carry = taken
        BY <1>12, <1>r, <2>1 DEF Counts, ByteCount
      <3> QED
        BY <1>12, <1>n, <1>t, <1>w, <2>1, <3>1
    <2>4. ByteCount'
      BY <2>1, <2>3 DEF ByteCount
    <2>5. Pacing'
      BY <1>12, <1>r, <1>n, <2>1, <2>2 DEF Pacing, Counts
    <2>6. InStep'
      BY <1>12, <1>n, <1>q, <2>1
    <2> QED
      BY <2>2, <2>4, <2>5, <2>6 DEF Counts
  <1>13. CASE SilenceDone /\ ~Reset
    <2>1. /\ stage = "silence" /\ pc = "ready" /\ stage' = "tail"
          /\ UNCHANGED <<vars, srcSamples, coded48k, closed, carry, taken>>
      BY <1>13, <1>r DEF SilenceDone
    <2>2. Queued' /\ Source48k' = Source48k
      BY <1>13, <1>s, <2>1
    <2>3. ByteCount' /\ Pacing'
      BY <1>13, <1>r, <1>n, <2>1, <2>2 DEF ByteCount, Pacing, Counts
    <2>4. InStep'
      BY <1>13, <1>r, <2>1 DEF InStep, InWrite, Counts, vars, swVars, cwVars
    <2> QED
      BY <2>2, <2>3, <2>4 DEF Counts
  <1>14. CASE CloseWriter /\ ~Reset
    <2>1. /\ stage = "tail" /\ ~NeedsSilence /\ Close(Source48k) /\ closed' = TRUE /\ stage' = "last"
          /\ UNCHANGED <<srcSamples, coded48k, carry, taken>>
      BY <1>14 DEF CloseWriter
    <2>2. ~closing
      BY <1>14, <1>n, <1>r, <2>1 DEF Counts, InStep
    <2>3. /\ Queued' /\ closing' /\ pc' # "dropped"
          /\ pc' \in {"enter", "place"} => call'.op = "close"
      BY <1>0, <1>14, <1>r, <2>1, <2>2, QueueClose DEF Counts
    <2>4. ByteCount' /\ Pacing'
      BY <1>14, <1>r, <2>1 DEF ByteCount, Pacing, Counts, Source48k
    <2>5. InStep'
      BY <2>1, <2>3 DEF InStep, InWrite
    <2> QED
      BY <2>3, <2>4, <2>5 DEF Counts
  <1>15. CASE LastDone /\ ~Reset
    <2>1. /\ stage = "last" /\ pc = "ready" /\ stage' = "idle"
          /\ UNCHANGED <<vars, srcSamples, coded48k, closed, carry, taken>>
      BY <1>15 DEF LastDone
    <2>2. Queued' /\ Source48k' = Source48k
      BY <1>15, <1>s, <2>1
    <2>3. ByteCount' /\ Pacing'
      BY <1>15, <1>r, <2>1, <2>2 DEF ByteCount, Pacing, Counts, InStep
    <2>4. InStep'
      BY <1>15, <1>r, <2>1 DEF InStep, InWrite, Counts, vars, swVars, cwVars
    <2> QED
      BY <2>2, <2>3, <2>4 DEF Counts
  <1>16. CASE CloseNilWriter /\ ~Reset
    BY <1>16, <1>u DEF CloseNilWriter
  <1>17. CASE CloseCall /\ ~Reset
    <2>1. /\ stage = "idle" /\ UNCHANGED <<vars, srcSamples, coded48k, closed, carry, taken>>
          /\ stage' \in {"idle", "partial", "tail"} /\ (stage' # "idle" => ~closed)
          /\ stage' = "partial" => carry % BytesPerSample = 0
          /\ stage' = "tail" => carry = 0
      BY <1>0, <1>t, <1>17 DEF CloseCall
    <2>2. Queued' /\ Source48k' = Source48k
      BY <1>17, <1>s, <2>1
    <2>3. ByteCount' /\ Pacing'
      BY <1>17, <1>r, <2>1, <2>2 DEF ByteCount, Pacing, Counts
    <2>4. InStep'
      BY <1>17, <1>r, <2>1 DEF InStep, InWrite, Counts, vars, swVars, cwVars
    <2> QED
      BY <2>2, <2>3, <2>4 DEF Counts
  <1>18. ASSUME NEW n \in CallSizes, Write(n), ~Reset PROVE Counts'
    <2>1. /\ stage = "idle" /\ UNCHANGED <<vars, srcSamples, coded48k, closed>>
      BY <1>18 DEF Write
    <2>2. Queued' /\ Source48k' = Source48k
      BY <1>18, <1>s, <2>1
    <2>n. n \in Nat
      BY EncoderAssumption
    <2>3. CASE stage' = "idle"
      <3>1. UNCHANGED <<carry, taken>>
        BY <1>18, <2>3 DEF Write, Refused
      <3> QED
        BY <1>18, <1>r, <2>1, <2>2, <2>3, <3>1 DEF ByteCount, Pacing, Counts, InStep, InWrite,
           vars, swVars, cwVars
    <2>4. CASE stage' # "idle"
      <3>1. /\ ~closed /\ carry' = carry + TopOff(n) /\ taken' = taken + TopOff(n)
            /\ stage' = IF carry' = FrameBytes THEN "carry" ELSE "frames"
        BY <1>18, <2>4 DEF Write, Refused
      <3>2. TopOff(n) \in Nat
        BY <1>0, <1>t, <2>n DEF TopOff, Buffered
      <3>3. srcSamples * BytesPerSample + carry = taken
        BY <1>18, <1>r, <2>1 DEF Counts, ByteCount
      <3>4. srcSamples' * BytesPerSample + carry' = taken'
        BY <1>t, <1>w, <2>1, <3>1, <3>2, <3>3
      <3>5. ByteCount'
        BY <2>1, <3>1, <3>4 DEF ByteCount
      <3>6. Pacing'
        BY <1>18, <1>r, <2>1, <2>2, <3>1 DEF Pacing, Counts
      <3>7. InStep'
        BY <1>18, <1>r, <2>1, <3>1 DEF InStep, InWrite, Counts, vars, swVars, cwVars
      <3> QED
        BY <2>2, <3>5, <3>6, <3>7 DEF Counts
    <2> QED
      BY <2>3, <2>4
  <1>19. CASE UNCHANGED evars /\ ~Reset
    <2>1. UNCHANGED <<vars, srcSamples, coded48k, stage, carry, closed, taken>>
      BY <1>19
    <2>2. Queued' /\ Source48k' = Source48k
      BY <1>19, <1>s, <2>1
    <2>3. ByteCount' /\ Pacing' /\ InStep'
      BY <1>19, <1>r, <2>1, <2>2 DEF ByteCount, Pacing, InStep, InWrite, Counts, vars, swVars, cwVars
    <2> QED
      BY <2>2, <2>3 DEF Counts
  <1> QED
    BY <1>1, <1>2, <1>3, <1>4, <1>6, <1>7, <1>8, <1>9, <1>10, <1>11, <1>12, <1>13, <1>14,
       <1>15, <1>16, <1>17, <1>18, <1>19 DEF EncoderNext, EncoderRuns, EncoderCalls

-----------------------------------------------------------------------------
(* The invariant and what it gives.                                          *)

LEMMA EncoderStep == EncoderInv /\ [EncoderNext]_evars => EncoderInv'
  <1> SUFFICES ASSUME EncoderInv, [EncoderNext]_evars PROVE EncoderInv'
    OBVIOUS
  <1>1. EncoderTypeOK' /\ Buffered' /\ Working' /\ WriterInv'
    BY CounterStep, WorkingStep, EncoderWriterStep DEF EncoderInv
  <1>2. fails' = 0 /\ enc' => (ByteCount /\ Pacing /\ Queued /\ InStep)'
    BY CountStep DEF Counts
  <1> QED
    BY <1>1, <1>2 DEF EncoderInv

\* Every state of the Encoder satisfies the invariant: the samples counted are the
\* bytes taken, the packets queued are the frames coded, and the writer is where the
\* call in progress left it.
THEOREM EncoderInvariant == EncoderSpec => []EncoderInv
  <1>1. EncoderInit => EncoderInv
    BY EncoderStarts
  <1>2. EncoderInv /\ [EncoderRuns \/ EncoderCalls]_evars => EncoderInv'
    BY EncoderStep DEF EncoderNext
  <1> QED
    BY <1>1, <1>2, PTL DEF EncoderSpec

\* A stream that was closed on a sink that took every page ends with the duration of
\* its source.
LEMMA ClosedDuration == EncoderInv => DurationIsSource
  <1> SUFFICES ASSUME EncoderInv, closed, stage = "idle", fails = 0
               PROVE  LET end == sink[Len(sink)].granule
                      IN /\ (end - PreSkip) * BytesPerSample = taken * RateRatio
                         /\ end <= Coded * (Len(accepted) - 2)
    BY DEF DurationIsSource, StreamClosed
  <1>1. EncoderTypeOK /\ WriterInv /\ enc /\ ByteCount /\ Queued /\ InStep
    BY Zenon DEF EncoderInv, Working
  <1>2. closing /\ pc = "ready" /\ ~InWrite
    BY <1>1 DEF InStep, InWrite
  <1>3. sink[Len(sink)].granule = LastEnd
    BY <1>1, <1>2, LastStamp
  <1>4. LastEnd = PreSkip + Source48k /\ LastEnd <= coded48k
    BY <1>1, <1>2 DEF Queued
  <1>5. coded48k = Coded * (Len(accepted) - 2)
    BY <1>1, <1>2 DEF Queued
  <1>6. /\ srcSamples \in Nat /\ taken \in Nat /\ Source48k \in Nat /\ PreSkip \in Nat
        /\ BytesPerSample \in Nat /\ RateRatio \in Nat
    BY <1>1, SourceNat, Sizes, EncoderAssumption DEF EncoderTypeOK
  <1>7. srcSamples * BytesPerSample = taken
    <2>1. carry = 0 /\ srcSamples * BytesPerSample + carry = taken
      BY <1>1 DEF ByteCount
    <2>2. \A a, b \in Nat : a * b \in Nat
      BY SMT
    <2>3. srcSamples * BytesPerSample \in Nat
      BY <1>6, <2>2
    <2> QED
      BY <2>1, <2>3
  <1>8. Source48k * BytesPerSample = taken * RateRatio
    <2>1. srcSamples * RateRatio * BytesPerSample = srcSamples * BytesPerSample * RateRatio
      BY <1>6, Commutes
    <2> QED
      BY <1>7, <2>1, Zenon DEF Source48k
  <1>9. LastEnd - PreSkip = Source48k
    BY <1>4, <1>6
  <1> QED
    BY <1>3, <1>4, <1>5, <1>8, <1>9, Zenon

\* Whatever the sizes of the calls, the rate, the frame and the streams before, the
\* duration the last page gives is that of the bytes Write consumed, and no more than
\* the packets decode to (Close's end trim and padding).
THEOREM DurationCorrect == EncoderSpec => []DurationIsSource
  <1> QED
    BY EncoderInvariant, ClosedDuration, PTL

=============================================================================
