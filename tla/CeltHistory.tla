---------------------------- MODULE CeltHistory ----------------------------
(***************************************************************************)
(* What a CELT decoder carries from frame to frame, internal/celt/         *)
(* celt_decoder.go: the energies the next frame is predicted from and what *)
(* makes that safe after a loss, the post-filter that lags 2.5 ms behind,  *)
(* and which of two concealments a lost frame gets: its pitch repeated, or *)
(* noise.  The bands do not touch each other's state, so the energies are  *)
(* those of one band, Watched, in halves of the code's unit of 6 dB;       *)
(* durations are in units of 2.5 ms.                                       *)
(***************************************************************************)
EXTENDS Integers, FiniteSets

CONSTANTS
    DurationCap,    \* where lossDuration and plcDuration stop (10000)
    Filters,        \* settings of the post-filter
    Off,            \* the setting of none
    Received,       \* the frames: LM, C, filter, transient and the energies of Watched
    LostSizes,      \* LM of the frames that are lost
    Watched,        \* the band
    Ends            \* the ends of the coded bands

Silent == -56       \* -gconst28, the least there is
Hybrid1 == 17       \* the first band of hybrid frames

ASSUME HistoryAssumption ==
    /\ Off \in Filters /\ DurationCap \in Nat \ {0}
    /\ \A r \in Received :
          /\ r.LM \in 0..3 /\ r.C \in 1..2 /\ r.filter \in Filters /\ r.transient \in BOOLEAN
          /\ r.transient => r.LM > 0
          /\ r.energy \in [1..2 -> Int] /\ \A c \in 1..2 : r.energy[c] >= Silent
    /\ LostSizes \subseteq 0..3
    /\ Watched \in Nat /\ \A e \in Ends : e \in Nat

VARIABLES
    lossDuration, plcDuration, skipPlc, lastFrameType, prefilterAndFold,
    lastPitch,          \* lastPitchIndex and lpc: TRUE if found in this run of losses
    postfilter,         \* old and now: the settings of two frames
    channels,           \* of the decoder
    startBand, endBand,
    oldBandE, oldLogE, oldLogE2, backgroundLogE,    \* Watched's, of two channels
    lastTwo, heard      \* history, see HistoryInit

controlVars == <<lossDuration, plcDuration, skipPlc, lastFrameType, prefilterAndFold,
                 lastPitch, postfilter, heard>>
energyVars == <<oldBandE, oldLogE, oldLogE2, backgroundLogE, lastTwo>>
historyVars == <<controlVars, energyVars, channels, startBand, endBand>>

WatchedIsCoded == startBand <= Watched /\ Watched < endBand
Least(a, b) == IF a < b THEN a ELSE b
Loudest(a, b) == IF a > b THEN a ELSE b

Both(e) == [c \in 1..2 |-> e]

-----------------------------------------------------------------------------
(* Energies.                                                                *)

\* What a mono frame goes on from: the louder of the channels.
Joined(C) ==
    IF C = 1 THEN [oldBandE EXCEPT ![1] = Loudest(oldBandE[1], oldBandE[2])] ELSE oldBandE

\* After a loss an energy above those of the frames before it goes back to the least of
\* them, and one that was falling falls on; short frames, which say less, start lower.
Safety(LM) == IF LM = 0 THEN 3 ELSE IF LM = 1 THEN 1 ELSE 0
Missing(LM) == Least(10, lossDuration \div 2^LM)
Fall(e0, e1, e2) == Loudest(0, Least(4, Loudest(e1 - e0, (e2 - e0) \div 2)))
Safe(e0, e1, e2, LM) ==
    (IF e0 < Loudest(e1, e2) THEN Loudest(-40, e0 - (1 + Missing(LM)) * Fall(e0, e1, e2))
     ELSE Least(Least(e0, e1), e2)) - Safety(LM)

\* Mutant of Predicted: after a loss as after a frame.
PredictedUnsafely(LM, C) == Joined(C)

\* The energies unquantCoarseEnergy predicts a frame from.
Predicted(LM, C) ==
    IF lossDuration # 0 /\ WatchedIsCoded
    THEN [c \in 1..2 |-> Safe(Joined(C)[c], oldLogE[c], oldLogE2[c], LM)]
    ELSE Joined(C)

\* It does so from -9 at the least.
Heeded(e) == Loudest(-18, e)

\* What it makes of them, whichever, is the frame's; a mono frame's is of both channels.
\* A frame of silence is silent in every band, coded or not.
IsSilent(r) == \A c \in 1..2 : r.energy[c] = Silent
Decoded(r) ==
    [c \in 1..2 |-> LET d == IF r.C = 1 THEN 1 ELSE c
                   IN IF WatchedIsCoded \/ IsSilent(r) THEN r.energy[d] ELSE Joined(r.C)[d]]

\* The energies behind a frame that decoded to d; the background rises by 0.16 at most,
\* which rounds to no half or to one.
Remember(d, transient, rise) ==
    /\ backgroundLogE' = [c \in 1..2 |-> Least(backgroundLogE[c] + rise, d[c])]
    /\ IF ~WatchedIsCoded
       THEN oldBandE' = Both(0) /\ oldLogE' = Both(Silent) /\ oldLogE2' = Both(Silent)
       ELSE /\ oldBandE' = d
            /\ oldLogE' = IF transient THEN [c \in 1..2 |-> Least(oldLogE[c], d[c])] ELSE d
            /\ oldLogE2' = IF transient THEN oldLogE2 ELSE oldLogE

\* Noise fades to the background: 1.5 for the first frame of a loss, 0.5 for the others.
Decay ==
    LET decay == IF lossDuration = 0 THEN 3 ELSE 1
    IN [c \in 1..2 |-> IF c <= channels /\ WatchedIsCoded
                       THEN Loudest(backgroundLogE[c], oldBandE[c] - decay) ELSE oldBandE[c]]

\* A mono frame is predicted from what was the louder channel.
Of(e, C, c) == IF C = 1 THEN Loudest(e[1], e[2]) ELSE e[c]

\* p is right to predict a frame of C channels from, see FramesContinue.
PredictsWell(p, C) ==
    WatchedIsCoded => \A c \in 1..C :
        IF heard.lost = 0 THEN p[c] = Of(lastTwo.last, C, c)
        ELSE /\ Heeded(p[c]) <= Heeded(Of(lastTwo.last, C, c))
             /\ lastTwo.steady => Heeded(p[c]) <= Heeded(Of(lastTwo.before, C, c))

-----------------------------------------------------------------------------
(* Frames.                                                                  *)

\* SetStartBand and SetEndBand, before a frame.
SetBands(s, e) ==
    /\ startBand' = s /\ endBand' = e
    /\ UNCHANGED <<controlVars, energyVars, channels>>

\* celtSynthesis is followed by the post-filter: the first 2.5 ms fade from old to now,
\* the others, when the frame is longer, from now to the frame's own setting.
FilterAfter(LM, f) ==
    IF LM = 0 THEN [old |-> postfilter.now, now |-> f] ELSE [old |-> f, now |-> f]

\* DecodeWithEC on a frame of 2^r.LM units that is there.
ReceiveFrame(r, rise) ==
    /\ skipPlc' = IF lossDuration = 0 THEN FALSE ELSE skipPlc
    /\ Remember(Decoded(r), r.transient, rise)
    /\ postfilter' = FilterAfter(r.LM, r.filter)
    /\ lossDuration' = 0 /\ plcDuration' = 0
    /\ lastFrameType' = "normal" /\ prefilterAndFold' = FALSE
    /\ lastPitch' = FALSE
    /\ UNCHANGED <<channels, startBand, endBand>>
    /\ lastTwo' = [last |-> oldBandE', before |-> lastTwo.last, steady |-> ~r.transient]
    /\ heard' =
         [run |-> Least(2, heard.run + 1),
          trusted |-> heard.trusted \/ heard.run + 1 >= (IF heard.afresh THEN 1 ELSE 2),
          afresh |-> heard.afresh, lost |-> 0,
          filter |-> IF r.LM = 0 THEN postfilter.now ELSE r.filter,
          pitch |-> FALSE,
          sound |->
             /\ PredictsWell(Predicted(r.LM, r.C), r.C)
             /\ postfilter.old = heard.filter
             /\ prefilterAndFold = heard.pitch]

Noisy == plcDuration >= 40 \/ startBand # 0 \/ skipPlc

Lengthened(d, LM) == Least(DurationCap, d + 2^LM)

\* celtDecodeLost, by noise.
LoseToNoise(LM) ==
    /\ Noisy
    /\ prefilterAndFold' = FALSE /\ skipPlc' = TRUE
    /\ postfilter' = [postfilter EXCEPT !.old = postfilter.now]
    /\ lastFrameType' = "noise" /\ lastPitch' = FALSE
    /\ oldBandE' = Decay
    /\ lastTwo' = [lastTwo EXCEPT !.steady = @ /\ ~WatchedIsCoded]
    /\ heard' = [heard EXCEPT !.run = 0, !.trusted = FALSE, !.afresh = FALSE,
                              !.filter = postfilter.now, !.pitch = FALSE,
                              !.lost = Least(DurationCap, @ + 2^LM),
                              !.sound = /\ postfilter.old = heard.filter
                                        /\ prefilterAndFold = heard.pitch]

\* And by pitch, which is found at the first loss of a run and kept for the others.
LoseToPitch(LM) ==
    /\ ~Noisy
    /\ prefilterAndFold' = TRUE
    /\ lastPitch' = IF lastFrameType # "periodic" THEN TRUE ELSE lastPitch
    /\ lastFrameType' = "periodic"
    /\ UNCHANGED <<skipPlc, postfilter, oldBandE, lastTwo>>
    /\ heard' = [heard EXCEPT !.run = 0, !.afresh = FALSE, !.pitch = TRUE,
                              !.lost = Least(DurationCap, @ + 2^LM),
                              !.sound = /\ heard.trusted /\ heard.lost < 40
                                        /\ lastFrameType = "periodic" => lastPitch]

Lose(LM) ==
    /\ LoseToNoise(LM) \/ LoseToPitch(LM)
    /\ lossDuration' = Lengthened(lossDuration, LM)
    /\ plcDuration' = Lengthened(plcDuration, LM)
    /\ UNCHANGED <<channels, startBand, endBand, oldLogE, oldLogE2, backgroundLogE>>

FreshHeard == [run |-> 0, trusted |-> FALSE, afresh |-> TRUE, lost |-> 0,
               filter |-> Off, pitch |-> FALSE, sound |-> TRUE]
FreshTwo == [last |-> Both(0), before |-> Both(0), steady |-> TRUE]

ResetState ==
    /\ lossDuration' = 0 /\ plcDuration' = 0 /\ skipPlc' = TRUE
    /\ lastFrameType' = "none" /\ prefilterAndFold' = FALSE /\ lastPitch' = FALSE
    /\ postfilter' = [old |-> Off, now |-> Off]
    /\ oldBandE' = Both(0) /\ backgroundLogE' = Both(0)
    /\ oldLogE' = Both(Silent) /\ oldLogE2' = Both(Silent)
    /\ heard' = FreshHeard /\ lastTwo' = FreshTwo
    /\ UNCHANGED <<channels, startBand, endBand>>

-----------------------------------------------------------------------------

\* heard: good frames in a row (to 2); whether there were two since noise was last
\* played, or one since a reset with no loss between; whether that reset is the last
\* thing before the run; the time lost since; the filter the output ended with; whether
\* its end was repeated pitch; and what the property says of the last frame.
\* lastTwo: the energies of the last two frames, zero if they did not code the band, and
\* whether the last is no transient and no noise came after it.
HistoryInit ==
    /\ lossDuration = 0 /\ plcDuration = 0 /\ skipPlc = TRUE
    /\ lastFrameType = "none" /\ prefilterAndFold = FALSE /\ lastPitch = FALSE
    /\ postfilter = [old |-> Off, now |-> Off]
    /\ channels \in {1, 2} /\ startBand = 0 /\ endBand = 21
    /\ oldBandE = Both(0) /\ backgroundLogE = Both(0)
    /\ oldLogE = Both(Silent) /\ oldLogE2 = Both(Silent)
    /\ heard = FreshHeard /\ lastTwo = FreshTwo

HistoryNext ==
    \/ \E s \in {0, Hybrid1}, e \in Ends : s < e /\ SetBands(s, e)
    \/ \E r \in Received, rise \in {0, 1} : ReceiveFrame(r, rise)
    \/ \E LM \in LostSizes : Lose(LM)
    \/ ResetState

HistorySpec == HistoryInit /\ [][HistoryNext]_historyVars
-----------------------------------------------------------------------------
(* Property.                                                                *)

\* A frame continues where the one before it ended.  Its energies are predicted, in
\* both channels, from those of the last frame, or from zero where that one coded no such
\* band; behind a loss, which may have faded them or filled the band with noise, from
\* none that is above the last frame's, nor above the frame's before that if the last
\* was no transient and was not faded.  The post-filter takes over at the setting the
\* output ended with; what was concealed by repeated pitch is folded once, before the
\* next frame that is not.  Pitch is repeated only by a decoder that has heard two
\* frames in a row since it last played noise (one, if it begins), for less than 100 ms,
\* and with the pitch of this very loss.
FramesContinue == heard.sound

\* The inductive invariant under FramesContinue: the counters of the code are those of
\* the history, and a decoder that may repeat pitch has heard enough;
ControlInv ==
    /\ lossDuration \in Nat /\ plcDuration = heard.lost /\ lossDuration = heard.lost
    /\ heard \in [run : Nat, trusted : BOOLEAN, afresh : BOOLEAN, lost : Nat,
                  filter : Filters, pitch : BOOLEAN, sound : BOOLEAN]
    /\ skipPlc \in BOOLEAN /\ lastPitch \in BOOLEAN
    /\ postfilter \in [old : Filters, now : Filters] /\ postfilter.old = heard.filter
    /\ prefilterAndFold = heard.pitch
    /\ lastFrameType = "periodic" => lastPitch
    /\ lossDuration = 0 => heard.trusted \/ heard.afresh \/ heard.run >= 1
    /\ ~skipPlc => heard.trusted
    /\ heard.sound

\* a band the last frame did not code is remembered as silent, one that it coded is
\* above its background and not above that frame.
Unheard == \A c \in 1..2 : oldLogE[c] = Silent /\ oldLogE2[c] = Silent
Followed ==
    \A c \in 1..2 :
        /\ backgroundLogE[c] <= oldBandE[c] /\ oldBandE[c] <= lastTwo.last[c]
        /\ lastTwo.steady => /\ oldBandE[c] = lastTwo.last[c] /\ oldLogE[c] = lastTwo.last[c]
                             /\ oldLogE2[c] <= lastTwo.before[c]

EnergyTypes ==
    /\ oldBandE \in [1..2 -> Int] /\ oldLogE \in [1..2 -> Int]
    /\ oldLogE2 \in [1..2 -> Int] /\ backgroundLogE \in [1..2 -> Int]
    /\ lastTwo \in [last : [1..2 -> Int], before : [1..2 -> Int], steady : BOOLEAN]
    /\ startBand \in Nat /\ endBand \in Nat /\ channels \in {1, 2}

EnergyInv ==
    /\ EnergyTypes
    /\ heard.lost = 0 => oldBandE = lastTwo.last
    /\ \A c \in 1..2 : /\ oldBandE[c] >= Silent /\ backgroundLogE[c] >= Silent
                       /\ lastTwo.last[c] >= Silent /\ lastTwo.before[c] >= Silent
                       /\ oldLogE[c] <= lastTwo.last[c]
    /\ Unheard \/ Followed

HistoryInv == ControlInv /\ EnergyInv
============================================================================
