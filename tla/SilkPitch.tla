------------------------------ MODULE SilkPitch ------------------------------
(***************************************************************************)
(* The long-term prediction of the SILK decoder, of one channel: from how  *)
(* far back decode_core.go and, when a frame is lost, plc.go take the      *)
(* signal they repeat.  A lag comes from the bitstream (decode_pitch.go),  *)
(* from the frame before a loss, and then drifts; the memory it reaches    *)
(* into changes its length with the rate (decoder_set_fs.go), between      *)
(* frames and while frames are lost.  Lags and positions are samples of    *)
(* the internal rate, fs kHz; gains and samples are left out.              *)
(***************************************************************************)
EXTENDS Integers, Sequences

CONSTANTS
    Contours,   \* columns of the contour codebooks a stream uses
    MidLag      \* a lag index of a stream, in ms; the others are the extremes

ASSUME PitchAssumption == MidLag \in Nat

VARIABLES
    channel,    \* what is kept from frame to frame
    predicted   \* history: what the last frame was predicted from

pitchVars == <<channel, predicted>>

Order(fs) == IF fs = 16 THEN 16 ELSE 10
LtpMem(fs) == 20 * fs
Subfr(fs) == 5 * fs

\* Taps of the long-term filter on either side of the lag.
LtpHalf == 2

\* lossy is LossCnt # 0; first, FirstFrameAfterReset; lagQ8 to drawn are sPLC's PitchLQ8,
\* FsKHz and <<NbSubfr, SubfrLength>>; glue is LastFrameLost.
ResetChannel ==
    [fs |-> 0, nb |-> 0, lossy |-> FALSE, voiced |-> FALSE, first |-> TRUE,
     lagPrev |-> 0, lagQ8 |-> 0, plcFs |-> 0, drawn |-> <<2, 20>>, glue |-> FALSE]

NoFrame == [fs |-> 0]

PitchInit == channel = ResetChannel /\ predicted = NoFrame

-----------------------------------------------------------------------------
(* Between frames.                                                          *)

\* resetDecoder.
ResetDecoder ==
    /\ channel' = ResetChannel
    /\ predicted' = NoFrame

Restarted(c) == [c EXCEPT !.first = TRUE, !.lagPrev = 100, !.voiced = FALSE]

\* silkDecoderSetFs, at the first frame of a packet.
SetFs(fs, nb) ==
    /\ <<fs, nb>> # <<channel.fs, channel.nb>>
    /\ channel' = LET sized == [channel EXCEPT !.fs = fs, !.nb = nb]
                  IN IF fs # channel.fs THEN Restarted(sized) ELSE sized
    /\ predicted' = NoFrame

\* The first side frame after some that were not coded.
RestartSide ==
    /\ channel.fs # 0
    /\ channel' = Restarted(channel)
    /\ predicted' = NoFrame

-----------------------------------------------------------------------------
(* A frame that is there.                                                   *)

silkCBLagsStage2 ==
    << <<0, 2, -1, -1, -1, 0, 0, 1, 1, 0, 1>>,
       <<0, 1, 0, 0, 0, 0, 0, 1, 0, 0, 0>>,
       <<0, 0, 1, 0, 0, 0, 1, 0, 0, 0, 0>>,
       <<0, -1, 2, 1, 0, 1, 1, 0, 0, -1, -1>> >>

silkCBLagsStage3 ==
    << <<0, 0, 1, -1, 0, 1, -1, 0, -1, 1, -2, 2, -2, -2, 2, -3, 2, 3, -3, -4, 3, -4,
         4, 4, -5, 5, -6, -5, 6, -7, 6, 5, 8, -9>>,
       <<0, 0, 1, 0, 0, 0, 0, 0, 0, 0, -1, 1, 0, 0, 1, -1, 0, 1, -1, -1, 1, -1,
         2, 1, -1, 2, -2, -2, 2, -2, 2, 2, 3, -3>>,
       <<0, 1, 0, 0, 0, 0, 0, 0, 1, 0, 1, 0, 0, 1, -1, 1, 0, 0, 2, 1, -1, 2,
         -1, -1, 2, -1, 2, 2, -1, 3, -2, -2, -2, 3>>,
       <<0, 1, 0, 0, 1, 0, 1, -1, 2, -1, 2, -1, 2, 3, -2, 3, -2, -2, 4, 4, -3, 5,
         -3, -4, 6, -4, 6, 5, -5, 8, -6, -5, -7, 9>> >>

silkCBLagsStage210ms == << <<0, 1, 0>>, <<0, 0, 1>> >>

silkCBLagsStage310ms ==
    << <<0, 0, 1, -1, 1, -1, 2, -2, 2, -2, 3, -3>>,
       <<0, 1, 0, 1, -1, 2, -1, 2, -2, 3, -2, 3>> >>

LagCB(fs, nb) ==
    IF fs = 8 THEN IF nb = 4 THEN silkCBLagsStage2 ELSE silkCBLagsStage210ms
    ELSE IF nb = 4 THEN silkCBLagsStage3 ELSE silkCBLagsStage310ms

Limited(x, low, high) == IF x < low THEN low ELSE IF x > high THEN high ELSE x

\* silkDecodePitch: from 2 to 18 ms.
DecodePitch(fs, nb, index, contour) ==
    [k \in 1..nb |-> Limited(2 * fs + index + LagCB(fs, nb)[k][contour], 2 * fs, 18 * fs)]

\* DecodeIndices: an absolute index counts 16 ms; two deltas at most may follow it, of
\* -8 to 11.
LagIndices(fs) == {-16, 0, MidLag * fs, 16 * fs - 1 + 22}

\* A frame after the loss of a voiced one that is not voiced repeats what was concealed,
\* for its first two subframes.
Bridges(voiced) == channel.lossy /\ channel.voiced /\ ~voiced

\* DecodeCore's lags, of the subframes that are predicted from one.
CoreLags(voiced, lags) ==
    IF Bridges(voiced) THEN [k \in 1..channel.nb |-> IF k <= 2 THEN channel.lagPrev ELSE 0]
    ELSE lags

\* plcUpdate: the lag of the strongest of the last subframes that cover a period.  There
\* is one: the taps of every filter of the three codebooks add up to more than zero.
Strongest(voiced, lags) ==
    IF voiced
    THEN {lags[channel.nb - j] * 256 : j \in {i \in 0..(channel.nb - 1) :
                                                  i * Subfr(channel.fs) < lags[channel.nb]}}
    ELSE {18 * channel.fs * 256}

\* DecodeFrame.  The filters of the two halves of a frame differ if they are interpolated,
\* and then the third subframe whitens its past again.
DecodeFrame(voiced, lags, interpolated) ==
    LET used == CoreLags(voiced, lags)
        inHalves == interpolated /\ channel.nb = 4 /\ ~channel.first
    IN /\ predicted' = [fs |-> channel.fs, lost |-> FALSE, lags |-> used,
                        pitched |-> IF voiced THEN 1..channel.nb
                                    ELSE IF Bridges(voiced) THEN 1..2 ELSE {},
                        whitened |-> IF inHalves THEN {1, 3} ELSE {1}]
       /\ \E lagQ8 \in Strongest(voiced, lags) :
             channel' = [channel EXCEPT !.lossy = FALSE, !.voiced = voiced, !.first = FALSE,
                                        !.lagPrev = used[channel.nb], !.lagQ8 = lagQ8,
                                        !.plcFs = channel.fs, !.glue = FALSE,
                                        !.drawn = <<channel.nb, Subfr(channel.fs)>>]

Unvoiced == [k \in 1..channel.nb |-> 0]

Decode ==
    /\ channel.fs # 0
    /\ \/ \E interpolated \in BOOLEAN : DecodeFrame(FALSE, Unvoiced, interpolated)
       \/ \E index \in LagIndices(channel.fs), interpolated \in BOOLEAN,
             contour \in Contours \cap (1..Len(LagCB(channel.fs, channel.nb)[1])) :
             DecodeFrame(TRUE, DecodePitch(channel.fs, channel.nb, index, contour), interpolated)

-----------------------------------------------------------------------------
(* A frame that is lost.                                                    *)

Rounded(lagQ8) == (lagQ8 + 128) \div 256

\* PLC: the concealment of another rate is forgotten.
PLCReset(c) ==
    IF c.fs # c.plcFs
    THEN [c EXCEPT !.plcFs = c.fs, !.lagQ8 = c.nb * Subfr(c.fs) * 128, !.drawn = <<2, 20>>]
    ELSE c

\* Mutant of Drift: nothing holds the lag back.
DriftUncapped(fs, lagQ8) == lagQ8 + (lagQ8 * 655) \div 65536

\* The lag grows by a hundredth in a subframe, up to 18 ms.
Drift(fs, lagQ8) == Limited(lagQ8 + (lagQ8 * 655) \div 65536, 0, 18 * fs * 256)

\* The lag of each subframe, and the one that is left.
Drifted(c) ==
    LET q1 == Drift(c.fs, c.lagQ8)  q2 == Drift(c.fs, q1)
        q3 == Drift(c.fs, q2)       q4 == Drift(c.fs, q3)
    IN IF c.nb = 4 THEN <<c.lagQ8, q1, q2, q3, q4>> ELSE <<c.lagQ8, q1, q2>>

\* plcEnergy measures the last two subframes as if a good frame had the length of the lost
\* one; plcConceal draws its noise at those of the last good frame.
Measured(c) == <<c.nb, Subfr(c.fs)>>

Conceal ==
    /\ channel.fs # 0
    /\ LET c == PLCReset(channel)
           lagsQ8 == Drifted(c)
           left == lagsQ8[c.nb + 1]
       IN /\ predicted' = [fs |-> c.fs, lost |-> TRUE,
                           lags |-> [k \in 1..c.nb |-> Rounded(lagsQ8[k])],
                           pitched |-> 1..c.nb, whitened |-> {1}, measured |-> Measured(c)]
          /\ channel' = [c EXCEPT !.lossy = TRUE, !.lagQ8 = left,
                                  !.lagPrev = Rounded(left), !.glue = TRUE]

PitchNext ==
    \/ ResetDecoder
    \/ \E fs \in {8, 12, 16}, nb \in {2, 4} : SetFs(fs, nb)
    \/ RestartSide
    \/ Decode
    \/ Conceal

PitchSpec == PitchInit /\ [][PitchNext]_pitchVars

-----------------------------------------------------------------------------
(* Properties.                                                              *)

\* Where the analysis filter that whitens the past of subframe w starts in OutBuf.
StartIdx(fs, lag) == LtpMem(fs) - lag - Order(fs) - LtpHalf

\* The first of the samples behind subframe k that its lag needs.
Reach(p, k) == (k - 1) * Subfr(p.fs) - p.lags[k] - LtpHalf

\* What a subframe repeats was made before it, lies in the memory of the channel's rate, and
\* has been whitened and rescaled in this frame: since the last whitening, no lag was so
\* much shorter that samples were left behind.
Within(p) ==
    \A k \in p.pitched :
       LET w == IF 3 \in p.whitened /\ k >= 3 THEN 3 ELSE 1
       IN /\ p.lags[k] > LtpHalf
          /\ StartIdx(p.fs, p.lags[w]) > 0
          /\ \A j \in w..k : j \in p.pitched /\ Reach(p, j) <= Reach(p, k)

\* The lag is safe through any run of frames, losses, rate and frame length changes and
\* restarts; a frame that repeats a concealed one does so at the lag that one ended with,
\* and is faded in just when there is something to fade in from.
HistoryReaches ==
    /\ predicted # NoFrame => Within(predicted)
    /\ channel.lossy /\ channel.voiced => channel.lagPrev = Rounded(channel.lagQ8)
    /\ channel.glue = channel.lossy

\* The inductive invariant under HistoryReaches: the concealed lag is one of the rate it
\* was concealed at, and what a bridge repeats is one of the channel's.
PitchInv ==
    /\ channel \in [fs : {0, 8, 12, 16}, nb : {0, 2, 4}, lossy : BOOLEAN, voiced : BOOLEAN,
                    first : BOOLEAN, lagPrev : Int, lagQ8 : Int, plcFs : {0, 8, 12, 16},
                    drawn : Nat \X Nat, glue : BOOLEAN]
    /\ IF channel.fs = 0 THEN ~channel.lossy /\ ~channel.voiced ELSE channel.nb # 0
    /\ channel.plcFs # 0 => /\ 2 * channel.plcFs * 256 <= channel.lagQ8
                            /\ channel.lagQ8 <= 18 * channel.plcFs * 256
    /\ channel.lossy /\ channel.voiced => channel.plcFs = channel.fs
    /\ HistoryReaches

\* plcEnergy's comment: it measures the last two subframes of the good excitation, to pick
\* the quieter of them as the source of the noise.
NoiseFromLastTwo ==
    predicted # NoFrame =>
        (predicted.lost /\ ~channel.first => predicted.measured = channel.drawn)
=============================================================================
