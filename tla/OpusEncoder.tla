----------------------------- MODULE OpusEncoder -----------------------------
(***************************************************************************)
(* One encoder of internal/opusenc, as the public opus package configures  *)
(* it: forced to CELT, application audio.  EncodeNative is the whole call: *)
(* the byte budget, the rate decisions with their hysteresis, the packet   *)
(* that only names its duration when there is no room (degenerate), DTX,   *)
(* and the frames of 20 ms that a longer packet is put together from.      *)
(*                                                                         *)
(* Operators on the encoder's state.  CELT is known by the bytes it needs; *)
(* it takes no more than it is given and under CBR exactly that.  The      *)
(* numbers are the code's own.                                             *)
(***************************************************************************)
EXTENDS OpusPacket

CONSTANTS Fs   \* the sample rate

ASSUME RateAssumption == Fs \in {8000, 12000, 16000, 24000, 48000}

OpusAuto == -1000
BitrateMax == -1
Refused == -1

Celt == "CELT"
Hybrid == "hybrid"
Silk == "SILK"

Narrowband == 1
Mediumband == 2
Wideband == 3
Superwideband == 4
Fullband == 5

SmallerOf(a, b) == IF a < b THEN a ELSE b
LargerOf(a, b) == IF a > b THEN a ELSE b

\* Go's quotient, for a divisor above 0.
Quot(a, b) == IF a < 0 THEN -((-a) \div b) ELSE a \div b

-----------------------------------------------------------------------------
(* The state, resetRegion                                                   *)

\* The delay buffer in units of Fs / 2000: 10 ms; each unit by its place, counted
\* from the next sample to come.
BufferUnits == 20
DelayUnits == 8
Place(n) == [i \in 1..n |-> i - 1]

NotAsked == [rate |-> 0, frame |-> 0]
Unity == 16384

\* History: asked is the rate and size of the last coded frame, heard the width its
\* fade ended at.
Fresh(channels) ==
    [channels |-> channels, mode |-> Hybrid, streamChannels |-> channels,
     bandwidth |-> Fullband, auto |-> 0, first |-> TRUE, quiet |-> 0,
     delay |-> [i \in 1..BufferUnits |-> i - 1 - BufferUnits],
     width |-> Unity, asked |-> NotAsked, heard |-> Unity]

-----------------------------------------------------------------------------
(* Rates.  c is the configuration: vbr, dtx, complexity.                    *)

BitsToBitrate(bits, frame) == Quot(bits * ((6 * Fs) \div frame), 6)
BitrateToBits(rate, frame) == Quot(rate * 6, (6 * Fs) \div frame)

\* UserBitrateToBitrate.
Bitrate(e, rate, frame, room) ==
    SmallerOf(CASE rate = OpusAuto -> (60 * Fs) \div frame + Fs * e.channels
                [] rate = BitrateMax -> 1500000
                [] OTHER -> rate,
              BitsToBitrate(room * 8, frame))

\* Mutant of CbrBytes: to the byte below, not to the nearest.
CbrBytesCut(rate, frame, room) == SmallerOf(BitrateToBits(rate, frame) \div 8, room)

CbrBytes(rate, frame, room) ==
    SmallerOf((BitrateToBits(rate, frame) + 4) \div 8, room)

\* ComputeEquivRate; no packet loss is configured.
EquivRate(c, rate, channels, frameRate, celt) ==
    LET overhead == IF frameRate > 50 THEN (40 * channels + 20) * (frameRate - 50) ELSE 0
        small == rate - overhead
        cbr == IF c.vbr THEN small ELSE small - Quot(small, 12)
        complex == Quot(cbr * (90 + c.complexity), 100)
    IN  IF celt /\ c.complexity < 5 THEN Quot(complex * 9, 10) ELSE complex

\* The thresholds, interpolated for the voice estimate 48 of Signal auto.
Interpolated(music, voice) == music + (48 * 48 * (voice - music)) \div 16384
StereoThreshold == Interpolated(17000, 19000)
BandThreshold == [b \in Mediumband..Fullband |->
                    CASE b = Fullband -> Interpolated(12000, 14000)
                      [] b = Superwideband -> Interpolated(11000, 13500)
                      [] OTHER -> 9000]
BandHysteresis == [b \in Mediumband..Fullband |->
                    CASE b = Fullband -> 2000 [] b = Superwideband -> 1000 [] OTHER -> 700]

\* Mutant of DecideStreamChannels: the hysteresis is the wrong way round.
DecideStreamChannelsSwung(e, equiv) ==
    IF e.channels = 1 THEN 1
    ELSE LET threshold == StereoThreshold
                            + IF e.streamChannels = 2 THEN 1000 ELSE -1000
         IN IF equiv > threshold THEN 2 ELSE 1

DecideStreamChannels(e, equiv) ==
    IF e.channels = 1 THEN 1
    ELSE LET threshold == StereoThreshold
                            + IF e.streamChannels = 2 THEN -1000 ELSE 1000
         IN IF equiv > threshold THEN 2 ELSE 1

\* The widest band the rate affords; mediumband is never chosen.
AutoBandwidth(e, equiv) ==
    LET threshold(b) ==
            BandThreshold[b] + (CASE e.first -> 0
                                  [] ~e.first /\ e.auto >= b -> -BandHysteresis[b]
                                  [] OTHER -> BandHysteresis[b])
        affords == {b \in Mediumband..Fullband : equiv >= threshold(b)}
        widest == IF affords = {} THEN Narrowband ELSE Max(affords)
    IN  IF widest = Mediumband THEN Wideband ELSE widest

\* selectBandwidth: no more than the sample rate carries, and no mediumband in CELT.
Nyquist == CASE Fs <= 8000 -> Narrowband [] Fs \in {12000, 16000} -> Wideband
             [] Fs = 24000 -> Superwideband [] OTHER -> Fullband
ClampedBandwidth(band) == SmallerOf(band, Nyquist)

\* DecideRates: the budget, and with enough of it the decisions.
IsDegenerate(room, rate, frameRate) ==
    \/ room < 3 \/ rate < 3 * frameRate * 8
    \/ frameRate < 50 /\ (room * frameRate < 300 \/ rate < 2400)

DecideRates(c, e, userRate, frame, room) ==
    LET user == Bitrate(e, userRate, frame, room)
        frameRate == Fs \div frame
        cbr == IF c.vbr THEN -1 ELSE CbrBytes(user, frame, room)
        rate == IF c.vbr THEN user ELSE BitsToBitrate(cbr * 8, frame)
        max == IF c.vbr THEN room ELSE LargerOf(1, cbr)
        streams == DecideStreamChannels(e, EquivRate(c, rate, e.channels, frameRate, FALSE))
        equiv == EquivRate(c, rate, streams, frameRate, TRUE)
        auto == AutoBandwidth(e, equiv)
        degenerate == IsDegenerate(max, rate, frameRate)
    IN  [rate |-> rate, cbr |-> cbr, max |-> max, equiv |-> equiv, degenerate |-> degenerate,
         e |-> IF degenerate THEN e
               ELSE [e EXCEPT !.streamChannels = streams, !.mode = Celt,
                              !.auto = auto, !.bandwidth = ClampedBandwidth(auto)]]

-----------------------------------------------------------------------------
(* The TOC, and the length of a packet of frames of given sizes             *)

\* Halvings of 2.5 ms: GenTOC's period.
Period(frameRate) == CHOOSE p \in 0..6 : /\ frameRate * 2^p >= 400
                                         /\ \A q \in 0..(p - 1) : frameRate * 2^q < 400

GenTOC(mode, frameRate, band, channels) ==
    (CASE mode = Silk -> 32 * (band - Narrowband) + 8 * (Period(frameRate) - 2)
       [] mode = Celt -> 128 + 32 * LargerOf(band - Mediumband, 0) + 8 * Period(frameRate)
       [] OTHER -> 96 + 16 * (band - Superwideband) + 8 * (Period(frameRate) - 2))
    + (IF channels = 2 THEN 4 ELSE 0)

SizeBytes(n) == IF n >= 252 THEN 2 ELSE 1
Sum(ns) == FoldLeft(LAMBDA a, n : a + n, 0, ns)
Fields(ns) == Sum([i \in DOMAIN ns |-> SizeBytes(ns[i])])
AllEqual(ns) == \A i \in DOMAIN ns : ns[i] = ns[1]

\* The repacketizer's outRangeImpl: a packet of these frames in maxlen bytes, with
\* its last frame's size written out (sd) or padded to all of maxlen.
OutLength(ns, maxlen, sd, pad) ==
    LET own == IF sd THEN SizeBytes(Last(ns)) ELSE 0
        plain == own + 1 + Sum(ns) + (IF AllEqual(ns) THEN 0 ELSE SizeBytes(ns[1]))
        code3 == own + 2 + Sum(ns) + (IF AllEqual(ns) THEN 0 ELSE Fields(Front(ns)))
        least == IF Len(ns) <= 2 THEN plain ELSE code3
    IN  CASE least > maxlen -> Refused
          [] least <= maxlen /\ pad /\ Len(ns) <= 2 /\ plain < maxlen ->
                IF code3 > maxlen THEN Refused ELSE maxlen
          [] least <= maxlen /\ pad /\ Len(ns) > 2 -> maxlen
          [] OTHER -> least

\* packet.Pad of a packet of these frames, now of length bytes.
PadTo(ns, length, newLen) ==
    IF length = newLen THEN newLen
    ELSE IF length > newLen THEN Refused ELSE OutLength(ns, newLen, FALSE, TRUE)

\* What a call returns: a packet [len, toc, sizes], or none.
NotCoded == [len |-> Refused, toc |-> 0, sizes |-> <<>>]

-----------------------------------------------------------------------------
(* EncodeDegenerate                                                         *)

\* The mode, rate and code that name the duration in the fewest bytes.
DegenerateShape(e, out, frameRate) ==
    LET mode == IF frameRate > 100 THEN Celt ELSE e.mode
    IN  IF frameRate = 25 THEN [mode |-> mode, rate |-> 50, code |-> 1]
        ELSE IF frameRate <= 16
        THEN IF out = 1 THEN [mode |-> Silk, rate |-> IF frameRate = 12 THEN 25 ELSE 16,
                              code |-> IF frameRate <= 12 THEN 1 ELSE 0]
             ELSE [mode |-> mode, rate |-> 50, code |-> 3]
        ELSE [mode |-> mode, rate |-> frameRate, code |-> 0]

\* Its frames: code 1 has two, code 3 the number of 20 ms frames.
DegenerateFrames(code, frameRate) ==
    CASE code = 0 -> 1 [] code = 1 -> 2 [] OTHER -> 50 \div frameRate

DegenerateBand(mode, band) ==
    CASE mode = Silk -> SmallerOf(band, Wideband)
      [] mode = Hybrid -> LargerOf(band, Superwideband)
      [] OTHER -> IF band = Mediumband THEN Narrowband ELSE band

\* The encoder's state is left alone.
EncodeDegenerate(c, e, out, max, frameRate) ==
    LET shape == DegenerateShape(e, out, frameRate)
        ns == [i \in 1..DegenerateFrames(shape.code, frameRate) |-> 0]
        bytes == IF shape.code > 1 THEN 2 ELSE 1
    IN  [len |-> IF c.vbr THEN bytes ELSE PadTo(ns, bytes, LargerOf(bytes, max)),
         toc |-> GenTOC(shape.mode, shape.rate, DegenerateBand(shape.mode, e.bandwidth),
                        e.streamChannels),
         sizes |-> ns]

-----------------------------------------------------------------------------
(* encodeFrameNative                                                        *)

\* PCMFront and UpdateDelayBuffer: CELT codes the input 4 ms late.
Input(e, units) == SubSeq(e.delay, BufferUnits - DelayUnits + 1, BufferUnits) \o Place(units)

\* Mutant of Delayed: a short frame keeps the oldest of the buffer.
DelayedShort(e, units) ==
    LET all == IF units < BufferUnits THEN SubSeq(e.delay, 1, BufferUnits - units) \o Place(units)
               ELSE SubSeq(Place(units), units - BufferUnits + 1, units)
    IN  [i \in 1..BufferUnits |-> all[i] - units]

Delayed(e, units) ==
    LET keep == BufferUnits - units - DelayUnits
        all == IF keep > 0 THEN SubSeq(e.delay, units + 1, units + keep) \o Input(e, units)
               ELSE SubSeq(Input(e, units), 1 - keep, units + DelayUnits)
    IN  [i \in 1..BufferUnits |-> all[i] - units]

\* PCMFades: the stereo image narrows at low rates, over the overlap from the width
\* of the frame before.
StereoWidth(equiv) ==
    CASE equiv > 32000 -> Unity [] equiv < 16000 -> 0
      [] OTHER -> Unity - (2048 * (32000 - equiv)) \div (equiv - 14000)

Fades(e, equiv) ==
    e.channels = 2 /\ (e.width < Unity \/ StereoWidth(equiv) < Unity)

\* Whether the samples and their width go on where the last coded frame ended.
Continues(e, units) ==
    /\ Input(e, units) = [i \in 1..(DelayUnits + units) |-> i - 1 - DelayUnits]
    /\ e.width = e.heard

\* Mutant of DtxCount: no frame refreshes the decoder.
DtxCountOnly(quiet, ms) == [dtx |-> quiet + ms > 400, quiet |-> SmallerOf(quiet + ms, 1240)]

\* decideDTXMode without activity; half milliseconds.
DtxCount(quiet, ms) ==
    IF quiet + ms <= 400 THEN [dtx |-> FALSE, quiet |-> quiet + ms]
    ELSE IF quiet + ms <= 1200 THEN [dtx |-> TRUE, quiet |-> quiet + ms]
    ELSE [dtx |-> FALSE, quiet |-> 400]

\* Its guard: the whole input of the call is silent; the counter starts anew with
\* a frame that is not.
DecideDtx(c, e, allSilent, silent, ms) ==
    IF c.dtx /\ allSilent /\ silent THEN DtxCount(e.quiet, ms)
    ELSE [dtx |-> FALSE, quiet |-> 0]

\* The frame after the front end and CELT: the state and the packet.
CodedFrame(e, d, frame, dtx) ==
    LET units == frame \div (Fs \div 2000)
    IN  [e EXCEPT !.first = FALSE, !.quiet = dtx.quiet, !.delay = Delayed(e, units),
                  !.width = IF Fades(e, d.equiv) THEN StereoWidth(d.equiv) ELSE @,
                  !.heard = IF e.channels = 2 THEN StereoWidth(d.equiv) ELSE @,
                  !.asked = [rate |-> d.rate, frame |-> frame]]

\* want is what CELT would use; it is given at least 2 bytes or fails.
CeltBytes(c, nb, want) == IF c.vbr THEN SmallerOf(want, nb) ELSE nb

EncodeFrameNative(c, e, d, frame, orig, allSilent, silent, want) ==
    LET nb == SmallerOf(orig, MaxFrameLen + 1) - 1
        dtx == DecideDtx(c, e, allSilent, silent, (2000 * frame) \div Fs)
        n == CeltBytes(c, nb, want)
    IN  [e |-> CodedFrame(e, d, frame, dtx),
         ok |-> nb >= 2,
         dtx |-> dtx.dtx,
         continues |-> Continues(e, frame \div (Fs \div 2000)),
         len |-> CASE nb < 2 -> Refused
                   [] nb >= 2 /\ dtx.dtx -> 1
                   [] OTHER -> IF c.vbr THEN n + 1 ELSE PadTo(<<n>>, n + 1, orig),
         size |-> IF dtx.dtx THEN 0 ELSE n]

-----------------------------------------------------------------------------
(* encodeMultiframe                                                         *)

HeaderBytes(n) == IF n = 2 THEN 3 ELSE 2 + (n - 1) * 2

\* One frame of 20 ms; m is what all n of them have in common, lenSum their bytes.
SubFrame(m, a, i) ==
    LET sub == Fs \div 50
        max == SmallerOf(m.lenSum - a.total,
                         SmallerOf(BitrateToBits(m.d.rate, sub) \div 8, m.lenSum \div m.n))
    IN  Then(EncodeFrameNative(m.c, a.e, m.d, sub, max, m.silent = m.n, i <= m.silent, m.want),
             LAMBDA f :
             [e |-> f.e, total |-> a.total + f.len, ok |-> a.ok /\ f.len # Refused,
              sizes |-> Append(a.sizes, f.size),
              dtx |-> a.dtx + (IF f.len = 1 THEN 1 ELSE 0),
              continues |-> a.continues /\ f.continues,
              skips |-> Append(a.skips, f.dtx)])

NoSubFrames(e) == [e |-> e, total |-> 0, ok |-> TRUE, sizes |-> <<>>, dtx |-> 0,
                   continues |-> TRUE, skips |-> <<>>]

\* silent: how many frames of 20 ms from the first on are.
EncodeMultiframe(c, e, userRate, d, frame, out, silent, want) ==
    LET n == frame \div (Fs \div 50)
        target == IF c.vbr \/ userRate = BitrateMax THEN out ELSE SmallerOf(d.cbr, out)
        m == [c |-> c, d |-> d, n |-> n, lenSum |-> n + target - HeaderBytes(n),
              silent |-> silent, want |-> want]
    IN  Then(FoldLeft(LAMBDA a, i : SubFrame(m, a, i), NoSubFrames(e), [i \in 1..n |-> i]),
             LAMBDA a :
             [e |-> a.e, skips |-> a.skips, continues |-> a.continues,
              packet |->
                 [len |-> IF ~a.ok THEN Refused
                          ELSE OutLength(a.sizes, target, FALSE, ~c.vbr /\ a.dtx # n),
                  toc |-> GenTOC(Celt, 50, a.e.bandwidth, a.e.streamChannels),
                  sizes |-> a.sizes]])

-----------------------------------------------------------------------------
(* encodeNative                                                             *)

PacketCap == (MaxFrameLen + 1) * 6

\* The code for 100 ms takes a second byte.
RefusesArgs(frame, out) == out <= 0 \/ (out = 1 /\ Fs = frame * 10)

\* skips: which of its frames are left out; degenerate frames are none of these.
EncodeNative(c, e, userRate, frame, out, silent, want) ==
    IF RefusesArgs(frame, out)
    THEN [e |-> e, packet |-> NotCoded, skips |-> <<>>, continues |-> TRUE, degenerate |-> FALSE,
          cbr |-> -1]
    ELSE Then(DecideRates(c, e, userRate, frame, SmallerOf(out, PacketCap)), LAMBDA d :
         IF d.degenerate
         THEN [e |-> d.e, packet |-> EncodeDegenerate(c, d.e, out, d.max, Fs \div frame),
               skips |-> <<>>, continues |-> TRUE, degenerate |-> TRUE, cbr |-> d.cbr]
         ELSE IF frame > Fs \div 50
         THEN Then(EncodeMultiframe(c, d.e, userRate, d, frame, out, silent, want), LAMBDA m :
                   [e |-> m.e, packet |-> m.packet, skips |-> m.skips,
                    continues |-> m.continues, degenerate |-> FALSE, cbr |-> d.cbr])
         ELSE Then(EncodeFrameNative(c, d.e, d, frame, d.max, silent = 1, silent = 1, want),
                   LAMBDA f :
                   [e |-> f.e,
                    packet |-> [len |-> f.len,
                                toc |-> GenTOC(Celt, Fs \div frame, f.e.bandwidth,
                                               f.e.streamChannels),
                                sizes |-> <<f.size>>],
                    skips |-> <<f.dtx>>, continues |-> f.continues,
                    degenerate |-> FALSE, cbr |-> d.cbr]))
=============================================================================
