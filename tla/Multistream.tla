----------------------------- MODULE Multistream -----------------------------
(***************************************************************************)
(* An encoder of the public opus package and the decoder of its packets:   *)
(* opus.Encoder, one stream, or opus.MultistreamEncoder, which shares the  *)
(* bytes of a packet among the encoders of its streams and routes channels *)
(* to them (internal/opusenc/opus_multistream_encoder.go and ms_layout.go, *)
(* internal/opusdec/opus_multistream_decoder.go).                          *)
(*                                                                         *)
(* A stream's packet is the samples it lasts and the channels it carries.  *)
(* Packets arrive whole, cut short, with a stream of another duration, or  *)
(* not at all.                                                             *)
(***************************************************************************)
EXTENDS OpusEncoder

CONSTANTS
    Configs    \* see ConfigAssumption

\* mapping: from a channel to the stream's, 255 for none; a config that is not multi
\* is an opus.Encoder.  frames are the sizes, in samples, it is called with, rooms the
\* lengths of the buffers it encodes into, wants the bytes CELT uses under VBR.
ASSUME ConfigAssumption ==
    \A cfg \in Configs :
        /\ cfg.streams \in 1..255 /\ cfg.coupled \in 0..cfg.streams /\ cfg.channels \in 1..255
        /\ cfg.streams + cfg.coupled <= cfg.channels
        /\ cfg.mapping \in [0..(cfg.channels - 1) -> 0..255]
        /\ ~cfg.multi => cfg.streams = 1
        /\ \A f \in cfg.frames :
              \E k \in {1, 2, 4, 8, 16, 24, 32, 40, 48} : f = k * (Fs \div 400)

ASSUME RatesAssumption ==
    \A cfg \in Configs :
        cfg.bitrate = OpusAuto \/ cfg.bitrate \in 500..(750000 * cfg.channels)

ASSUME CallsAssumption ==
    \A cfg \in Configs :
        /\ cfg.complexity \in 1..10
        /\ \A room \in cfg.rooms : room \in Nat \ {0} /\ room <= 100000
        /\ \A want \in cfg.wants : want \in Nat \ {0, 1}

VARIABLES
    c,      \* the configuration
    enc,    \* the encoders, by stream
    runs,   \* history, by stream: half milliseconds of silence coded up to now, and
            \* of it left out since a frame was not
    sent,   \* the packet under way, by stream, or <<>>
    lead,   \* the decoders: samples decoded more than by the first
    torn,   \* history: a stream failed in the middle of a packet
    heard,  \* channels played, by channel, or <<>>
    last    \* history: what the last call returned

msvars == <<c, enc, runs, sent, lead, torn, heard, last>>

-----------------------------------------------------------------------------
(* Layouts                                                                  *)

Streams == 1..c.streams
Coupled(s) == s <= c.coupled

\* The channels a stream's channel goes to; getLeftChannel and its like walk them.
From(k) == {ch \in DOMAIN c.mapping : c.mapping[ch] = k}
LeftOf(s) == From(2 * (s - 1))
RightOf(s) == From(2 * (s - 1) + 1)
MonoOf(s) == From(s - 1 + c.coupled)

ValidateLayout ==
    /\ c.streams + c.coupled <= 255
    /\ \A ch \in DOMAIN c.mapping : c.mapping[ch] < c.streams + c.coupled \/ c.mapping[ch] = 255

\* An encoder needs a channel for every one of a stream.
ValidateEncoderLayout ==
    \A s \in Streams : IF Coupled(s) THEN LeftOf(s) # {} /\ RightOf(s) # {} ELSE MonoOf(s) # {}

-----------------------------------------------------------------------------
(* Sharing the rate: surroundRateAllocation without an LFE stream           *)

Allocated(frame) ==
    LET normal == 2 * c.coupled + (c.streams - c.coupled)
        offset == 40 * LargerOf(50, Fs \div frame)
        bitrate == CASE c.bitrate = OpusAuto -> normal * (offset + Fs + 10000)
                     [] OTHER -> c.bitrate
        streamOffset == LargerOf(0, SmallerOf(20000,
                            Quot(Quot(bitrate - offset * normal, normal), 2)))
        total == 256 * (c.streams - c.coupled) + 512 * c.coupled
        rate == Quot(256 * (bitrate - streamOffset * c.streams - offset * normal), total)
    IN  [s \in Streams |->
            LargerOf(500, IF Coupled(s) THEN 2 * offset + LargerOf(0, streamOffset + 2 * rate)
                          ELSE offset + LargerOf(0, streamOffset + rate))]

RateSum(frame) == Sum([s \in Streams |-> Allocated(frame)[s]])

\* SetBitrate of an encoder.
Settable(rate, channels) ==
    CASE rate <= 500 -> 500 [] rate > 750000 * channels -> 750000 * channels [] OTHER -> rate

-----------------------------------------------------------------------------
(* Sharing the bytes                                                        *)

Is100ms(frame) == Fs \div frame = 10

SmallestPacket(frame) == c.streams * 2 - 1 + (IF Is100ms(frame) THEN c.streams ELSE 0)

\* Under CBR the packet is as long as the rate says.
Budget(frame, room) ==
    CASE c.vbr -> room
      [] ~c.vbr /\ c.bitrate = OpusAuto ->
            SmallerOf(room, (BitrateToBits(RateSum(frame), frame) + 4) \div 8)
      [] OTHER -> SmallerOf(room, LargerOf(SmallestPacket(frame),
                                           (BitrateToBits(c.bitrate, frame) + 4) \div 8))

\* The pooled buffer of one stream's packet.
FrameTmp == 6 * 1275 + 12

\* What is left without the least that the streams behind it need, and the size of a
\* self-delimited packet.
CurrMax(s, budget, total, frame) ==
    LET left == c.streams - s
        kept == budget - total - LargerOf(0, 2 * left - 1) - (IF Is100ms(frame) THEN left ELSE 0)
        max == SmallerOf(kept, FrameTmp)
    IN  IF left = 0 THEN max ELSE IF max > 253 THEN max - 2 ELSE max - 1

\* The rate of a stream; under CBR the last one has all that is left.
StreamRate(s, frame, max) ==
    Settable(IF ~c.vbr /\ s = c.streams THEN BitsToBitrate(max * 8, frame)
             ELSE Allocated(frame)[s],
             IF Coupled(s) THEN 2 ELSE 1)

\* silent: by stream, how many of its frames of 20 ms (or its frame) are silent.
EncodeStream(m, a, s) ==
    IF ~a.ok THEN a
    ELSE LET max == CurrMax(s, m.budget, a.total, m.frame)
             final == s = c.streams
         IN Then(EncodeNative(c, enc[s], StreamRate(s, m.frame, max), m.frame, max,
                              m.silent[s], m.want), LAMBDA r :
            Then(IF r.packet.len = Refused THEN Refused
                 ELSE OutLength(r.packet.sizes, m.budget - a.total, ~final,
                                final /\ ~c.vbr), LAMBDA len :
                 [e |-> Append(a.e, r.e), results |-> Append(a.results, r),
                  ok |-> len # Refused, total |-> a.total + len]))

EncodeStreams(frame, budget, silent, want) ==
    LET m == [frame |-> frame, budget |-> budget, silent |-> silent, want |-> want]
    IN  FoldLeft(LAMBDA a, s : EncodeStream(m, a, s),
                 [e |-> <<>>, results |-> <<>>, ok |-> TRUE, total |-> 0], [s \in Streams |-> s])

-----------------------------------------------------------------------------
(* What a call leaves and reports                                           *)

\* The sub-frames of a call are of 20 ms; a shorter frame is one.
SubFrames(frame) == LargerOf(1, frame \div (Fs \div 50))
SubHalfMs(frame) == SmallerOf(40, (2000 * frame) \div Fs)

\* History: the silence is known only up to just over 200 ms, degenerate frames are no
\* part of it.
RanOne(m, a, i) ==
    [silent |-> IF i <= m.silent THEN SmallerOf(405, a.silent + m.ms) ELSE 0,
     skipped |-> IF m.skips[i] THEN a.skipped + m.ms ELSE 0]
Ran(run, skips, ms, silent) ==
    LET m == [skips |-> skips, ms |-> ms, silent |-> silent]
    IN  FoldLeft(LAMBDA a, i : RanOne(m, a, i), run, [i \in DOMAIN skips |-> i])

Lasts(packet, frame) ==
    Len(packet.sizes) * SamplesPerFrame(packet.toc, Fs) = frame

TocChannels(toc) == 1 + ((toc \div 4) % 2)

\* The bytes nearest to the rate, by itself: CBR spends it to within half a byte.
Nearest(rate, frame, bytes) ==
    LET off == 8 * bytes * 400 - rate * (frame \div (Fs \div 400))
    IN  off <= 5 * 400 /\ -off <= 5 * 400

\* A call that returns a packet of len bytes in room; accepted says that it had to.
Report(accepted, len, room, exact, lasts, continues) ==
    [kept |-> IF accepted THEN len \in 1..room /\ exact ELSE len = Refused,
     two |-> c.multi \/ c.dtx \/ len >= 2, lasts |-> len # Refused => lasts, continues |-> continues]

Silent == [kept |-> TRUE, two |-> TRUE, lasts |-> TRUE, continues |-> TRUE]

\* What a stream's packet carries, a channel for each of its own.
Carried(s, packet) ==
    LET Source(S) == {Min(S)}
        both == Source(LeftOf(s)) \cup Source(RightOf(s))
    IN  IF ~Coupled(s) THEN <<Source(MonoOf(s))>>
        ELSE IF TocChannels(packet.toc) = 1 THEN <<both, both>>
        ELSE <<Source(LeftOf(s)), Source(RightOf(s))>>

-----------------------------------------------------------------------------
(* Encoding                                                                 *)

Layouts(cfg) == /\ c = cfg
                /\ ValidateLayout /\ ValidateEncoderLayout

FreshEncoders == [s \in Streams |-> Fresh(IF Coupled(s) THEN 2 ELSE 1)]
NoRuns == [s \in Streams |-> [silent |-> 0, skipped |-> 0]]

Init ==
    /\ \E cfg \in Configs : Layouts(cfg)
    /\ enc = FreshEncoders /\ runs = NoRuns
    /\ lead = [s \in Streams |-> 0] /\ torn = FALSE
    /\ sent = <<>> /\ heard = <<>> /\ last = Silent

\* opus.Encoder.
EncodeSingle(frame, room, silent, want) ==
    \E r \in {EncodeNative(c, enc[1], c.bitrate, frame, room, silent[1], want)} :
        /\ enc' = <<r.e>>
        /\ runs' = <<Ran(runs[1], r.skips, SubHalfMs(frame), silent[1])>>
        /\ sent' = IF r.packet.len = Refused THEN <<>>
                   ELSE << [samples |-> frame, carries |-> Carried(1, r.packet)] >>
        /\ last' = Report(~RefusesArgs(frame, room), r.packet.len, room,
                          (~c.vbr /\ c.bitrate # OpusAuto /\ r.packet.len > 2)
                             => \/ r.packet.len = SmallerOf(room, PacketCap)
                                \/ Nearest(c.bitrate, frame, r.packet.len),
                          Lasts(r.packet, frame), r.continues)

\* opus.MultistreamEncoder; streams encoded before one fails have gone on.
EncodeMulti(frame, room, silent, want) ==
    IF room < SmallestPacket(frame)
    THEN last' = Report(FALSE, Refused, room, TRUE, TRUE, TRUE) /\ UNCHANGED <<enc, runs, sent>>
    ELSE \E budget \in {Budget(frame, room)} :
         \E a \in {EncodeStreams(frame, budget, silent, want)} :
            /\ enc' = [s \in Streams |-> IF s \in DOMAIN a.e THEN a.e[s] ELSE enc[s]]
            /\ runs' = [s \in Streams |->
                           IF s \in DOMAIN a.e
                           THEN Ran(runs[s], a.results[s].skips, SubHalfMs(frame), silent[s])
                           ELSE runs[s]]
            /\ sent' = IF ~a.ok THEN <<>>
                       ELSE [s \in Streams |-> [samples |-> frame,
                                                carries |-> Carried(s, a.results[s].packet)]]
            /\ last' = Report(TRUE, IF a.ok THEN a.total ELSE Refused, room,
                              ~c.vbr => a.total = budget,
                              \A s \in DOMAIN a.results : Lasts(a.results[s].packet, frame),
                              \A s \in DOMAIN a.results : a.results[s].continues)

Encode ==
    /\ sent = <<>>
    /\ \E frame \in c.frames, room \in c.rooms, want \in c.wants :
       \E first, others \in {0, 1, SubFrames(frame)} :
          LET silent == [s \in Streams |-> IF s = 1 THEN first ELSE others]
          IN IF c.multi THEN EncodeMulti(frame, room, silent, want)
             ELSE others = 0 /\ EncodeSingle(frame, room, silent, want)
    /\ heard' = <<>> /\ UNCHANGED <<c, lead, torn>>

ResetEncoder ==
    /\ enc' = FreshEncoders /\ runs' = NoRuns /\ last' = Silent
    /\ UNCHANGED <<c, sent, lead, torn, heard>>

-----------------------------------------------------------------------------
(* Decoding                                                                 *)

\* Mutant of PacketValidate: only the last stream's duration is looked at.
PacketValidateLast(packets) ==
    Len(packets) = c.streams

\* msPacketValidate, before any decoder sees the packet.
PacketValidate(packets) ==
    /\ Len(packets) = c.streams
    /\ \A s \in Streams : packets[s].samples = packets[1].samples

\* Every channel is copied from the stream's channel it maps to; the others are muted.
Routed(packets) ==
    [ch \in DOMAIN c.mapping |->
        UNION {UNION {IF ~Coupled(s) THEN (IF ch \in MonoOf(s) THEN packets[s].carries[1] ELSE {})
                      ELSE (IF ch \in LeftOf(s) THEN packets[s].carries[1] ELSE {})
                           \cup (IF ch \in RightOf(s) THEN packets[s].carries[2] ELSE {})}
               : s \in Streams}]

\* The decoders decode in turn; one may fail.
Advance(packets, upTo) ==
    [s \in Streams |-> lead[s] + (IF s <= upTo THEN packets[s].samples ELSE 0)
                               - (IF 1 <= upTo THEN packets[1].samples ELSE 0)]

Decode(packets) ==
    IF ~PacketValidate(packets) THEN UNCHANGED <<lead, torn>> /\ heard' = <<>>
    ELSE \/ /\ lead' = Advance(packets, c.streams) /\ heard' = Routed(packets)
            /\ UNCHANGED torn
         \/ \E s \in Streams : /\ lead' = Advance(packets, s - 1)
                               /\ torn' = TRUE /\ heard' = <<>>

\* The packet as it was, cut behind a stream, or with another frame for one.
Arrivals ==
    {sent} \cup {SubSeq(sent, 1, n) : n \in 0..(Len(sent) - 1)}
           \cup {[sent EXCEPT ![s].samples = 2 * @] : s \in DOMAIN sent}

\* Bound: a caller whose decoder failed in a packet conceals until it resets it.
Deliver ==
    /\ sent # <<>> /\ ~torn
    /\ \E packets \in Arrivals : Decode(packets)
    /\ sent' = <<>> /\ last' = Silent /\ UNCHANGED <<c, enc, runs>>

\* Conceal: every decoder as much.
Lose == sent' = <<>> /\ heard' = <<>> /\ UNCHANGED <<c, enc, runs, lead, torn, last>>

ResetDecoder ==
    /\ lead' = [s \in Streams |-> 0] /\ torn' = FALSE
    /\ heard' = <<>> /\ UNCHANGED <<c, enc, runs, sent, last>>

Next == Encode \/ ResetEncoder \/ Deliver \/ Lose \/ ResetDecoder

Spec == Init /\ [][Next]_msvars

-----------------------------------------------------------------------------
(* Properties                                                               *)

\* A call with room for the smallest packet returns one: never longer than the
\* buffer, under CBR of the length the rate asks for, and no stream, header or
\* padding finds less room than it needs (the byte budgets of encodeNative,
\* encodeMultiframe and the multistream encoder).  The smallest is one byte, a TOC, with
\* DTX or without, and two for 100 ms: see AtLeastTwoBytes.
BudgetKept == last.kept

\* The packet lasts what was encoded, by its TOC and its frames, on every path: coded,
\* split into frames of 20 ms, left out, or degenerate at any duration.
DurationNamed == last.lasts

\* Every packet has the size and the duration it was asked for.
PacketsAsAsked == BudgetKept /\ DurationNamed

\* "Without DTX, n is always at least 2", "the one fatal case is a buffer with no room at
\* all": a call of an opus.Encoder without DTX, with a buffer of any size, returns a
\* packet of two bytes or more (Report says nothing of other encoders).
AtLeastTwoBytes == last.two

\* What CELT is given continues what it was given before, 4 ms late, through frames
\* of all sizes, and the stereo image fades from the width it had (UpdateDelayBuffer,
\* PCMFades).
InputContinues == last.continues

\* DTX leaves out silence only after 200 ms of it, and for little more than 400 ms
\* before a frame refreshes the decoder (decideDTXMode over the frames of packets).
DtxBounded ==
    \A s \in Streams :
        runs[s].skipped > 0 => runs[s].silent > 400 /\ runs[s].skipped < 800 + 40

\* From one coded frame to the next of the same size, channels and bandwidth do not
\* move against the rate; a rate that stays keeps them.
DecisionsFollowRate ==
    [][\A s \in DOMAIN enc :
          LET was == enc[s] now == enc'[s]
          IN  (was.asked # NotAsked /\ now.asked # NotAsked
                  /\ was.asked.frame = now.asked.frame)
              => /\ now.asked.rate >= was.asked.rate =>
                        now.streamChannels >= was.streamChannels /\ now.bandwidth >= was.bandwidth
                 /\ now.asked.rate <= was.asked.rate =>
                        now.streamChannels <= was.streamChannels /\ now.bandwidth <= was.bandwidth
      ]_msvars

\* Every channel plays what was encoded from it, or from the first channel that has
\* the same place in the layout, a muted one nothing; a packet that is refused moves
\* no decoder, one that is taken moves all of them (decodeNative).
ChannelsKept ==
    /\ ~torn => \A s \in Streams : lead[s] = 0
    /\ heard # <<>> =>
          \A ch \in DOMAIN heard :
              IF c.mapping[ch] = 255 THEN heard[ch] = {}
              ELSE /\ Min(From(c.mapping[ch])) \in heard[ch]
                   /\ \A from \in heard[ch] :
                         \/ c.mapping[from] = c.mapping[ch]
                         \/ /\ c.mapping[ch] < 2 * c.coupled
                            /\ c.mapping[from] \div 2 = c.mapping[ch] \div 2

\* The inductive invariant under ChannelsKept: the layout is one both sides take, and
\* the streams of the packet under way last the same and carry channels of their own,
\* in mono (TOC 0) or stereo (TOC 4).
ChannelInv ==
    /\ c \in Configs /\ ValidateLayout /\ ValidateEncoderLayout
    /\ sent # <<>> =>
          /\ sent = [s \in Streams |-> sent[s]] /\ sent[1].samples \in Nat
          /\ \A s \in Streams :
                sent[s] \in [samples : {sent[1].samples},
                             carries : {Carried(s, [toc |-> t]) : t \in {0, 4}}]
    /\ ChannelsKept

\* The inductive invariant under InputContinues and DtxBounded: between calls every
\* encoder's buffer holds the last 10 ms, its width is the one heard, and its counter is
\* the silence that was, from 400 on what a refresh left of it; a run of frames left out
\* began there.
EncoderType ==
    [channels : {1, 2}, mode : {Celt, Hybrid}, streamChannels : {1, 2}, bandwidth : Int,
     auto : Int, first : BOOLEAN, quiet : 0..1200, delay : [1..BufferUnits -> Int],
     width : Int, asked : [rate : Int, frame : Int], heard : Int]

InStep(e) ==
    /\ e \in EncoderType
    /\ e.delay = [i \in 1..BufferUnits |-> i - 1 - BufferUnits]
    /\ e.width = e.heard /\ e.width <= Unity

Counted(quiet, run) ==
    /\ run = [silent |-> run.silent, skipped |-> run.skipped] /\ run.silent \in Nat /\ run.skipped \in Nat
    /\ quiet <= run.silent \/ run.silent >= 405
    /\ IF run.skipped = 0 THEN quiet <= 400
       ELSE quiet > 400 /\ run.skipped < quiet - 360

EncodersInv ==
    /\ c \in Configs
    /\ enc = [s \in Streams |-> enc[s]] /\ runs = [s \in Streams |-> runs[s]]
    /\ \A s \in Streams : InStep(enc[s]) /\ Counted(enc[s].quiet, runs[s])
    /\ last.continues
=============================================================================
