----------------------------- MODULE CeltFrame -----------------------------
(***************************************************************************)
(* The syntax of a CELT frame as its encoder (celt_encoder_encode.go) and  *)
(* its decoder (celt_decoder.go) walk it.  Nearly every element is there   *)
(* only if the frame still has room for it, and the two judge the room at  *)
(* different times: the encoder by the bytes it may still use, which VBR   *)
(* takes away when half of the frame is coded, the decoder by the bytes    *)
(* that arrive.  An action codes one element, as the encoder decides it,   *)
(* and notes which lengths make the decoder decide the same.  Positions    *)
(* are in eighths of a bit; the signal is any choice the code leaves it.   *)
(***************************************************************************)
EXTENDS CeltMode, FiniteSetsExt

CONSTANTS
    Kinds,      \* [end, C, LM, vbr, rate]: the bands, the channels, the frame size,
                \* "cbr", "vbr" or "cvbr", and the bits of a frame in VBR
    Buffers,    \* the bytes a caller gives the encoder
    Targets,    \* what computeVbr may want
    MaxBoosts   \* bound on the quanta of a frame's boosts

\* The most bytes of a frame of 2.5 * 2^LM ms.
FrameCap(k) == 1275 \div 2^(3 - k.LM)

\* The stream keeps its rate, which is of two bytes at least; and a variable frame's
\* elements and boosts fit under its cap, however they are chosen.
ASSUME FrameAssumption ==
    /\ \A k \in Kinds :
          /\ k.end \in 1..BandCount /\ k.C \in 1..2 /\ k.LM \in 0..MaxLM
          /\ k.vbr \in {"cbr", "vbr", "cvbr"} /\ k.rate \in Nat
          /\ k.vbr = "cvbr" => k.rate >= 128
          /\ k.vbr # "cbr" => 8128 + 96 * MaxBoosts <= 64 * FrameCap(k)
    /\ \A k, l \in Kinds : k.vbr = "cvbr" /\ l.vbr = "cvbr" => k.rate = l.rate
    /\ Buffers \subseteq Nat \ {0, 1} /\ Targets \subseteq Nat /\ MaxBoosts \in Nat

VARIABLES
    kind,
    at,             \* the element that is next
    band, channel,
    bytes,          \* nbCompressedBytes: what the encoder still counts on
    tell,           \* TellFrac of both coders
    seen,           \* the decoder's variable tell, which it does not always renew
    flags,          \* silence, transient; of tf_encode logp, reserve, curr, changed
    boost,          \* of dynalloc: total, this band's, flag cost, of the first flag
    needs, refuses, \* the decoder reads the same if needs <= its room < refuses
    reservoir,      \* vbrReservoir
    overspent       \* history: the most that the last frames together took too much

frameVars == <<kind, at, band, channel, bytes, tell, seen, flags, boost, needs,
               refuses, reservoir, overspent>>

Never == 10^9
NoFlags == [silence |-> FALSE, transient |-> 0, logp |-> 0, reserve |-> 0, curr |-> 0,
            changed |-> 0]
NoBoost == [total |-> 0, here |-> 0, cost |-> 6, first |-> 6]

Room == 64 * bytes
WholeBits(t) == 8 * ((t + 7) \div 8)
Tell == WholeBits(tell)

\* What a flag costs that is set once in 2^logp times, in whole bits.
Cost(logp, bit) == IF bit = 1 \/ logp = 1 THEN 8 * logp ELSE 0

\* The decoder reads an element if it has n eighths.  The frame may yet lose room, but
\* gains none: what it cannot lose, or already has not, need not be remembered.
Needed(n) == IF n > Room \/ kind.vbr # "cbr" THEN Max({needs, n}) ELSE needs
RefusedAt(n) == IF n <= Room THEN Min({refuses, n}) ELSE refuses

\* The encoder codes an element or not.
DecoderAsks(coded, n) ==
    IF coded THEN needs' = Needed(n) /\ UNCHANGED refuses
             ELSE refuses' = RefusedAt(n) /\ UNCHANGED needs

-----------------------------------------------------------------------------
(* The frame up to its coarse energies                                      *)

\* Mutant of MaxAllowed: the reservoir is not asked.
MaxAllowedUnbounded(k, n) == Min({Max({2, (2 * k.rate) \div 64}), n})

\* In constrained VBR a frame and the reservoir have two frames' bits together.
MaxAllowed(k, n) == Min({Max({2, (2 * k.rate - reservoir) \div 64}), n})

StartFrame(k, n) ==
    /\ at = "idle"
    /\ kind' = k
    /\ bytes' = IF k.vbr = "cvbr" THEN MaxAllowed(k, Min({n, 1275})) ELSE Min({n, 1275})
    /\ tell' = 8 /\ seen' = 8
    /\ band' = 0 /\ channel' = 1
    /\ flags' = NoFlags /\ boost' = NoBoost
    /\ needs' = 9 /\ refuses' = Never
    /\ at' = "silence"
    /\ UNCHANGED <<reservoir, overspent>>

\* A silent frame pretends to be full; in VBR it is cut to two bytes first.
Silence(s) ==
    /\ at = "silence"
    /\ flags' = [flags EXCEPT !.silence = s]
    /\ bytes' = IF s /\ kind.vbr # "cbr" THEN Min({bytes, 2}) ELSE bytes
    /\ tell' = IF s THEN 64 * bytes' ELSE tell + 1
    /\ seen' = IF s THEN tell' ELSE seen
    /\ needs' = IF s THEN tell' ELSE needs
    /\ refuses' = IF s THEN tell' + 1 ELSE refuses
    /\ at' = "postfilter"
    /\ UNCHANGED <<kind, band, channel, boost, reservoir, overspent>>

\* The postfilter needs a flag, an octave, a period and a gain; the tapset behind
\* them is written in any case and read if there is room.
Postfilter(on, cost) ==
    /\ at = "postfilter"
    /\ \E first \in {IF flags.silence THEN tell ELSE 8} :
       LET coded == first + 128 <= Room
           enabled == coded /\ ~flags.silence /\ bytes > 12 * kind.C
       IN  /\ on => enabled
           /\ cost \in IF on THEN {88, 128} ELSE {IF coded THEN 8 ELSE 0}
           /\ tell' = tell + cost + (IF on THEN 16 ELSE 0)
           /\ DecoderAsks(coded, IF on THEN Max({seen + 128, WholeBits(tell + cost) + 16})
                                 ELSE seen + 128)
           /\ seen' = IF coded THEN WholeBits(tell') ELSE seen
    /\ at' = "transient"
    /\ UNCHANGED <<kind, band, channel, bytes, flags, boost, reservoir, overspent>>

Transient(t) ==
    /\ at = "transient"
    /\ \E coded \in {kind.LM > 0 /\ Tell + 24 <= Room} :
          /\ coded \/ t = 0
          /\ flags' = [flags EXCEPT !.transient = t]
          /\ tell' = IF coded THEN tell + Cost(3, t) ELSE tell
          /\ IF kind.LM > 0 THEN DecoderAsks(coded, seen + 24) ELSE UNCHANGED <<needs, refuses>>
          /\ seen' = IF coded THEN WholeBits(tell') ELSE seen
    /\ at' = "intra"
    /\ UNCHANGED <<kind, band, channel, bytes, boost, reservoir, overspent>>

\* The first symbol of quantCoarseEnergyImpl; both passes start from here.
Intra(intra) ==
    /\ at = "intra"
    /\ \E coded \in {Tell + 24 <= Room} :
          /\ coded \/ intra = 0
          /\ tell' = IF coded THEN tell + Cost(3, intra) ELSE tell
          /\ DecoderAsks(coded, seen + 24)
    /\ at' = "coarse"
    /\ UNCHANGED <<kind, band, channel, bytes, seen, flags, boost, reservoir, overspent>>

\* How a band's energy is coded, by the bits left.
EnergyCode(left) ==
    IF left >= 120 THEN "laplace" ELSE IF left >= 16 THEN "small"
    ELSE IF left >= 8 THEN "bit" ELSE "none"

EnergyCosts(code) ==
    CASE code = "laplace" -> {0, 120} [] code = "small" -> {8, 16} [] code = "bit" -> {8}
      [] OTHER -> {0}

\* unquantCoarseEnergy makes the same choice by its own length: the room of this code
\* or more, and less than the next better one has.
EnergyRoom(code) ==
    CASE code = "laplace" -> 120 [] code = "small" -> 16 [] code = "bit" -> 8 [] OTHER -> 0
BetterRoom(code) ==
    CASE code = "laplace" -> Never [] code = "small" -> 120 [] code = "bit" -> 16 [] OTHER -> 8

CoarseEnergy(cost) ==
    /\ at = "coarse"
    /\ \E code \in {EnergyCode(Room - Tell)} :
          /\ cost \in EnergyCosts(code)
          /\ needs' = Needed(Tell + EnergyRoom(code))
          /\ refuses' = RefusedAt(Tell + BetterRoom(code))
    /\ tell' = tell + cost
    /\ channel' = IF channel < kind.C THEN channel + 1 ELSE 1
    /\ band' = IF channel < kind.C THEN band ELSE (band + 1) % kind.end
    /\ at' = IF channel = kind.C /\ band + 1 = kind.end THEN "tf" ELSE at
    /\ UNCHANGED <<kind, bytes, seen, flags, boost, reservoir, overspent>>

-----------------------------------------------------------------------------
(* Time and frequency resolution, spread                                    *)

\* Room is kept for tf_select, a bit, if the first flag fits with it.
TfStart ==
    /\ at = "tf"
    /\ \E logp \in {IF flags.transient = 1 THEN 2 ELSE 4} :
       \E kept \in {kind.LM > 0 /\ Tell + 8 * logp + 8 <= Room} :
          /\ flags' = [flags EXCEPT !.logp = logp, !.reserve = IF kept THEN 8 ELSE 0]
          /\ IF kind.LM > 0 THEN DecoderAsks(kept, Tell + 8 * logp + 8)
                            ELSE UNCHANGED <<needs, refuses>>
    /\ at' = "tf_band"
    /\ UNCHANGED <<kind, band, channel, bytes, tell, seen, boost, reservoir, overspent>>

\* A flag is read beside the room kept for tf_select.
TfNeed == Tell + 8 * flags.logp + flags.reserve

\* A band's resolution, coded as whether it changes.
TfBand(change) ==
    /\ at = "tf_band"
    /\ \E need \in {TfNeed} :
       \E coded \in {need <= Room} :
          /\ coded \/ change = 0
          /\ tell' = IF coded THEN tell + Cost(flags.logp, change) ELSE tell
          /\ DecoderAsks(coded, need)
          /\ flags' = LET curr == (flags.curr + change) % 2
                      IN  [flags EXCEPT !.curr = curr,
                              !.changed = IF coded THEN Max({@, curr}) ELSE @,
                              !.logp = IF flags.transient = 1 THEN 4 ELSE 5]
    /\ band' = (band + 1) % kind.end
    /\ at' = IF band + 1 = kind.end THEN "tf_select" ELSE at
    /\ UNCHANGED <<kind, channel, bytes, seen, boost, reservoir, overspent>>

\* tf_select is coded if it makes a difference.
TfSelect ==
    /\ at = "tf_select"
    /\ LET row == tfSelectTable[kind.LM + 1][flags.transient + 1]
       IN  tell' = IF flags.reserve > 0 /\ row[1 + flags.changed] # row[3 + flags.changed]
                   THEN tell + 8 ELSE tell
    /\ at' = "spread"
    /\ UNCHANGED <<kind, band, channel, bytes, seen, flags, boost, needs, refuses,
                   reservoir, overspent>>

Spread(cost) ==
    /\ at = "spread"
    /\ \E coded \in {Tell + 32 <= Room} :
          /\ cost \in IF coded THEN {8, 32} ELSE {0}
          /\ DecoderAsks(coded, Tell + 32)
    /\ tell' = tell + cost
    /\ at' = "boost"
    /\ UNCHANGED <<kind, band, channel, bytes, seen, flags, boost, reservoir, overspent>>

-----------------------------------------------------------------------------
(* Boosts and trim                                                          *)

\* Six bits, but at most one and at least an eighth of a bit for a coefficient.
Quanta == LET width == kind.C * Width(band) * 2^kind.LM
          IN  Min({8 * width, Max({48, width})})

\* The boosts so far are spent for the encoder as for the decoder, which takes them
\* off its total.
BoostNeed == tell + 8 * boost.cost + boost.total + 1

MayBoost == BoostNeed <= Room /\ boost.here < Cap(band, kind.C, kind.LM)

BoostBand ==
    /\ at = "boost" /\ MayBoost
    /\ boost.total < MaxBoosts * 48
    /\ tell' = tell + Cost(boost.cost, 1)
    /\ DecoderAsks(TRUE, BoostNeed)
    /\ boost' = [boost EXCEPT !.total = @ + Quanta, !.here = @ + Quanta, !.cost = 1]
    /\ UNCHANGED <<kind, at, band, channel, bytes, seen, flags, reservoir, overspent>>

\* A flag that is not set, or none, ends the band; the flags of the bands behind one
\* with a boost cost less.
NextBoost ==
    /\ at = "boost"
    /\ tell' = IF MayBoost THEN tell + Cost(boost.cost, 0) ELSE tell
    /\ IF boost.here < Cap(band, kind.C, kind.LM) THEN DecoderAsks(MayBoost, BoostNeed)
       ELSE UNCHANGED <<needs, refuses>>
    /\ \E first \in {IF boost.here > 0 THEN Max({2, boost.first - 1}) ELSE boost.first} :
          boost' = [boost EXCEPT !.here = 0, !.first = first, !.cost = first]
    /\ band' = (band + 1) % kind.end
    /\ at' = IF band + 1 = kind.end THEN "trim" ELSE at
    /\ UNCHANGED <<kind, channel, bytes, seen, flags, reservoir, overspent>>

Trim(cost) ==
    /\ at = "trim"
    /\ \E need \in {tell + 48 + boost.total} :
          /\ cost \in IF need <= Room THEN {8, 48} ELSE {0}
          /\ DecoderAsks(need <= Room, need)
    /\ tell' = tell + cost
    /\ at' = IF kind.vbr = "cbr" THEN "bands" ELSE "shrink"
    /\ UNCHANGED <<kind, band, channel, bytes, seen, flags, boost, reservoir, overspent>>

-----------------------------------------------------------------------------
(* Variable bit rate                                                        *)

\* Mutant of MinAllowed: a margin of one byte.
MinAllowedTight == (tell + boost.total + 63) \div 64 + 1

\* What is coded and promised, and two bytes, so that no test of the decoder failed.
MinAllowed == (tell + boost.total + 63) \div 64 + 2

\* The frame shrinks to what computeVbr wants for it, and the reservoir is kept in
\* constrained VBR; what it lacks of being empty is filled up by a longer frame.
Shrink(target) ==
    /\ at = "shrink"
    /\ \E most \in {Min({bytes, FrameCap(kind)})} :
       \E wanted \in {Min({most, Max({MinAllowed, (target + tell + 32) \div 64})})} :
       \E available \in {IF flags.silence THEN 2 ELSE wanted} :
       \E level \in {IF kind.vbr = "cvbr" THEN reservoir + 64 * available - kind.rate ELSE 0} :
          /\ bytes' = Min({most, available + (IF level < 0 /\ ~flags.silence
                                              THEN (-level) \div 64 ELSE 0)})
          /\ reservoir' = IF kind.vbr = "cvbr" THEN Max({0, level}) ELSE reservoir
          /\ overspent' = IF kind.vbr = "cvbr"
                          THEN Max({0, overspent}) + 64 * bytes' - kind.rate ELSE overspent
    /\ at' = "bands"
    /\ UNCHANGED <<kind, band, channel, tell, seen, flags, boost, needs, refuses>>

-----------------------------------------------------------------------------
(* Bands                                                                    *)

\* The allocation is for what is left but for an eighth and, in a long transient,
\* the anti-collapse flag.
LeftBits == Room - tell - 1
AntiCollapseReserve ==
    IF flags.transient = 1 /\ kind.LM >= 2 /\ LeftBits >= 8 * (kind.LM + 2) THEN 8 ELSE 0

\* A bit for each channel of a band, in two rounds by priority, while there are bits.
FinerEnergies(spare) == Min({2 * kind.end * kind.C, spare - (spare % kind.C)})

\* Energies and shapes take at most what they are given; then come the anti-collapse
\* flag and, bit by bit, what finer energies the rest pays for.
CodeBands(all) ==
    /\ at = "bands"
    /\ \E spent \in {IF all THEN Max({tell, Room - AntiCollapseReserve}) ELSE tell} :
       \E shaped \in {spent + AntiCollapseReserve} :
       \E spare \in {(Room - WholeBits(shaped)) \div 8} :
          tell' = shaped + 8 * FinerEnergies(spare)
    /\ at' = "done"
    /\ UNCHANGED <<kind, band, channel, bytes, seen, flags, boost, needs, refuses, reservoir,
                   overspent>>

NextFrame ==
    /\ at = "done"
    /\ at' = "idle"
    /\ kind' = [end |-> 0, C |-> 1, LM |-> 0, vbr |-> "cbr", rate |-> 0]
    /\ bytes' = 2 /\ tell' = 8 /\ seen' = 8 /\ band' = 0 /\ channel' = 1
    /\ flags' = NoFlags /\ boost' = NoBoost /\ needs' = 0 /\ refuses' = Never
    /\ UNCHANGED <<reservoir, overspent>>

FrameInit ==
    /\ at = "idle"
    /\ kind = [end |-> 0, C |-> 1, LM |-> 0, vbr |-> "cbr", rate |-> 0]
    /\ bytes = 2 /\ tell = 8 /\ seen = 8 /\ band = 0 /\ channel = 1
    /\ flags = NoFlags /\ boost = NoBoost /\ needs = 0 /\ refuses = Never
    /\ reservoir = 0 /\ overspent = 0

FrameNext ==
    \/ \E k \in Kinds, n \in Buffers : StartFrame(k, n)
    \/ \E s \in BOOLEAN : Silence(s)
    \/ \E on \in BOOLEAN, cost \in {0, 8, 88, 128} : Postfilter(on, cost)
    \/ \E t \in {0, 1} : Transient(t) \/ Intra(t) \/ TfBand(t)
    \/ \E cost \in {0, 8, 16, 120} : CoarseEnergy(cost)
    \/ TfStart \/ TfSelect
    \/ \E cost \in {0, 8, 32, 48} : Spread(cost) \/ Trim(cost)
    \/ BoostBand \/ NextBoost
    \/ \E target \in Targets : Shrink(target)
    \/ \E all \in BOOLEAN : CodeBands(all)
    \/ NextFrame

FrameSpec == FrameInit /\ [][FrameNext]_frameVars

-----------------------------------------------------------------------------
(* Properties.                                                              *)

\* The decoder makes every decision of the encoder again, though it knows only the
\* length the frame has at the end: no flag is read that was not written, none
\* overlooked, and an energy is decoded by the code it was coded with ("the margin
\* of 2 bytes ensures that none of the bust-prevention logic in the decoder will
\* have triggered so far", celt_encoder_encode.go).
SyntaxAgrees == at = "done" => needs <= Room /\ Room < refuses

\* No element, nor the bits a boost promises, goes past the bytes there are: the
\* encoder never fails at the end of a frame and the decoder never answers
\* ErrInternal for a frame of this encoder.
NeverBusts == Tell <= Room

\* In constrained VBR the frames of any stretch of the stream together take at most
\* one frame more than the rate gives them, however the targets change.
RateHolds == kind.vbr = "cvbr" => overspent <= kind.rate /\ reservoir \in 0..kind.rate

\* The bytes of a frame suffice for it, and the bytes of the stream for its rate
\* (quantCoarseEnergy, the reservoir of CeltEncodeWithEC).
BudgetHolds == NeverBusts /\ RateHolds

-----------------------------------------------------------------------------
(* The inductive invariant under both.                                      *)

\* Where no variable frame is on its way to its length.
Ended == {"idle", "bands", "done"}

\* A band with a boost has cheap flags from then on.
FrameTyped ==
    /\ bytes \in 2..1275 /\ tell \in Nat /\ seen \in Nat
    /\ needs \in Nat /\ refuses \in Nat /\ reservoir \in Nat /\ overspent \in Int
    /\ band \in Nat /\ channel \in 1..2
    /\ IF at = "idle" THEN kind.vbr = "cbr"
       ELSE kind \in Kinds /\ band < kind.end /\ channel <= kind.C
    /\ flags \in [silence : BOOLEAN, transient : {0, 1}, logp : {0, 2, 4, 5}, reserve : {0, 8},
                 curr : {0, 1}, changed : {0, 1}]
    /\ boost \in [total : Nat, here : Nat, cost : 1..6, first : 2..6]
    /\ IF boost.here = 0 THEN boost.cost >= 2 ELSE boost.cost = 1
    /\ boost.total <= 48 * MaxBoosts + 352
    /\ at = "shrink" => kind.vbr # "cbr"

\* How the two coders stand to each other, at the elements that the decoder judges by a
\* position it has not renewed.
SeenAgrees ==
    /\ at = "silence" => tell = 8 /\ seen = 8
    /\ at = "postfilter" => IF flags.silence THEN tell = Room /\ seen = tell
                            ELSE tell = 9 /\ seen = 8
    /\ at \in {"transient", "intra"} =>
          seen = Tell \/ (seen = 8 /\ tell = 9 /\ bytes = 2)

\* What is coded, kept for tf_select or needed by the decoder is within the bytes the
\* encoder counts on, and the decoder refuses no fewer.
RoomHolds ==
    /\ tell <= Room /\ needs <= Room /\ Room < refuses
    /\ at \in {"tf_band", "tf_select"} => Tell + flags.reserve <= Room
    /\ at = "tf_band" => flags.logp # 0

\* The most bits of a variable frame up to each element, but for its boosts.
SoFar ==
    CASE at = "silence" -> 8 [] at = "postfilter" -> 128 [] at = "transient" -> 272
      [] at = "intra" -> 296 [] at = "coarse" -> 320 + 120 * (2 * band + channel - 1)
      [] at = "tf" -> 5360 [] at = "tf_band" -> 5360 + 40 * band [] at = "tf_select" -> 6200
      [] at = "spread" -> 6208
      [] at = "boost" -> 6240 + 48 * band + (IF boost.here > 0 THEN 40 ELSE 0)
      [] at = "trim" -> 7248 [] at = "shrink" -> 7296

\* So the least length it may shrink to is enough for the decoder.
VariableHolds ==
    /\ at \notin {"boost", "trim", "shrink"} \cup Ended => boost.total = 0 /\ boost.here = 0
    /\ kind.vbr # "cbr" /\ at \notin Ended =>
          /\ tell <= SoFar + boost.total
          /\ needs <= tell + boost.total + 128
          /\ flags.silence => bytes = 2

\* The reservoir accounts for what was taken too much.
ReservoirHolds ==
    /\ \A k \in Kinds : k.vbr = "cvbr" => reservoir <= k.rate
    /\ overspent <= reservoir
    /\ kind.vbr = "cvbr" /\ at \notin Ended => 64 * bytes <= Max({128, 2 * kind.rate - reservoir})

FrameInv == FrameTyped /\ SeenAgrees /\ RoomHolds /\ VariableHolds /\ ReservoirHolds
=============================================================================
