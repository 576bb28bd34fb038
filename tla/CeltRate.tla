------------------------------ MODULE CeltRate ------------------------------
(***************************************************************************)
(* The bit allocation of a CELT frame, internal/celt/rate.go: the bits left *)
(* behind the side information are given to the bands, as pulses and as    *)
(* bits of fine energy, by the same arithmetic in encoder and decoder.  A  *)
(* step is a turn of one of its loops; what the encoder chooses and the    *)
(* decoder reads (where to stop skipping bands, intensity and dual stereo) *)
(* is any choice the code lets it make.                                    *)
(***************************************************************************)
EXTENDS CeltMode, FiniteSetsExt

CONSTANT Frames    \* [start, end, C, LM, trim, offsets, total]: the bands coded,
                   \* channels, frame size, trim, each band's boost, bits to give

VARIABLES
    frame,      \* the arguments of the call
    turn,       \* the loop it is in
    range,      \* lo and hi of a bisection
    ends,       \* the two rows it lies between: the lower, the steps to the upper
    bits, fine, \* a band's bits and fine bits; bits become pulses
    coded,      \* codedBands; in the last loop the band it is at
    sums,       \* psum, total, balance
    stereo,     \* what is set aside for, and the values of, intensity and dual
    side        \* history: bits of the skip flags coded, and of intensity and dual

rateVars == <<frame, turn, range, ends, bits, fine, coded, sums, stereo, side>>

Bands == frame.start..(frame.end - 1)
Floor == frame.C * 8
Pos(x) == Max({0, x})
SumOf(v) == FoldFunction(+, 0, v)
Nothing == [j \in Bands |-> 0]

\* Below this a band gets no pulses.
Thresh(j) == Max({Floor, (3 * Width(j) * 2^frame.LM * 8) \div 16})

\* The tilt of the allocation.
TrimOffset(j) ==
    (frame.C * Width(j) * (frame.trim - 5 - frame.LM) * (frame.end - j - 1)
        * 2^(frame.LM + 3)) \div 64
    - (IF Width(j) * 2^frame.LM = 1 THEN Floor ELSE 0)

BandCap(j) == Cap(j, frame.C, frame.LM)

-----------------------------------------------------------------------------
(* The quality all bands can have                                           *)

\* Bits of band j in row q of allocVectors; the row behind the last is the cap.
Quality(q, j) ==
    IF q = Len(allocVectors) THEN BandCap(j)
    ELSE (frame.C * Width(j) * allocVectors[q + 1][j + 1] * 2^frame.LM) \div 4

Tilted(q, j) == IF Quality(q, j) > 0 THEN Pos(Quality(q, j) + TrimOffset(j)) ELSE 0

Row(q) == [j \in Bands |-> Tilted(q, j) + frame.offsets[j]]

\* What bands that want v get: up to the highest band that reaches its threshold all
\* of it, at most the cap; above it the floor or nothing.
Granted(v) ==
    [j \in Bands |->
        IF \E k \in j..(frame.end - 1) : v[k] >= Thresh(k) THEN Min({v[j], BandCap(j)})
        ELSE IF v[j] >= Floor THEN Floor ELSE 0]

\* k of 64 parts of the way from the lower row to the upper.
Between(k) == [j \in Bands |-> ends.low[j] + (k * ends.step[j]) \div 64]

\* Mutant of SkipReserve: the bit that ends the skipping is not set aside.
SkipReserveNone(total) == 0

\* The bit that will end the skipping.
SkipReserve(total) == IF total >= 8 THEN 8 ELSE 0

StereoReserve(left) ==
    IF frame.C = 2 /\ log2FracTable[frame.end - frame.start + 1] <= left
    THEN log2FracTable[frame.end - frame.start + 1] ELSE 0

DualReserve(rsv, left) == IF rsv > 0 /\ left - rsv >= 8 THEN 8 ELSE 0

\* clt_compute_allocation up to its bisection.
Call(f) ==
    /\ turn = "idle"
    /\ frame' = f
    /\ turn' = "rows"
    /\ range' = [lo |-> 1, hi |-> Len(allocVectors) - 1]
    /\ sums' = [psum |-> 0, total |-> Pos(f.total), balance |-> 0]
    /\ UNCHANGED <<ends, bits, fine, coded, stereo, side>>

\* What is left of the total once the side information is set aside.
Shared ==
    LET t == sums.total - SkipReserve(sums.total)
    IN  t - StereoReserve(t) - DualReserve(StereoReserve(t), t)

HalveRows ==
    /\ turn = "rows" /\ range.lo <= range.hi
    /\ \E mid \in {(range.lo + range.hi) \div 2} : \E v \in {Row(mid)} :
          range' = IF SumOf(Granted(v)) > Shared
                   THEN [range EXCEPT !.hi = mid - 1] ELSE [range EXCEPT !.lo = mid + 1]
    /\ UNCHANGED <<frame, turn, ends, bits, fine, coded, sums, stereo, side>>

\* The rows are found; the lowest is without the boosts.
RowsFound ==
    /\ turn = "rows" /\ range.lo > range.hi
    /\ \E low \in {[j \in Bands |-> Tilted(range.lo - 1, j)
                                      + (IF range.lo > 1 THEN frame.offsets[j] ELSE 0)]} :
          ends' = [low |-> low,
                   step |-> [j \in Bands |->
                       Pos(Tilted(range.lo, j) + frame.offsets[j] - low[j])]]
    /\ range' = [lo |-> 0, hi |-> 64]
    /\ turn' = "steps"
    /\ \E t \in {sums.total - SkipReserve(sums.total)} :
          stereo' = [rsv |-> StereoReserve(t), dualRsv |-> DualReserve(StereoReserve(t), t),
                     skipRsv |-> SkipReserve(sums.total), intensity |-> 0, dual |-> 0]
    /\ sums' = [sums EXCEPT !.total = Shared]
    /\ UNCHANGED <<frame, bits, fine, coded, side>>

\* interp_bits2pulses' bisection, six turns.
HalveSteps ==
    /\ turn = "steps" /\ range.hi - range.lo > 1
    /\ \E mid \in {(range.lo + range.hi) \div 2} : \E v \in {Between(mid)} :
          range' = IF SumOf(Granted(v)) > sums.total
                   THEN [range EXCEPT !.hi = mid] ELSE [range EXCEPT !.lo = mid]
    /\ UNCHANGED <<frame, turn, ends, bits, fine, coded, sums, stereo, side>>

StepsFound ==
    /\ turn = "steps" /\ range.hi - range.lo = 1
    /\ \E v \in {Between(range.lo)} : bits' = Granted(v)
    /\ sums' = [sums EXCEPT !.psum = SumOf(bits')]
    /\ coded' = frame.end
    /\ turn' = "skip"
    /\ UNCHANGED <<frame, range, ends, fine, stereo, side>>

-----------------------------------------------------------------------------
(* Skipping bands from the top                                              *)

Left == sums.total - sums.psum
Span == Edge(coded) - Edge(frame.start)
PerCoefficient == Left \div Span
Rest == Left - Span * PerCoefficient

Top == coded - 1
BandBits == bits[Top] + PerCoefficient * Width(Top)
              + Pos(Rest - (Edge(Top) - Edge(frame.start)))

\* A decision is coded for a band that would keep its pulses; one that would not
\* is skipped without asking.
Flagged == BandBits >= Max({Thresh(Top), Floor + 8})

\* The highest boosted band, and no band below it, is never skipped.
Skippable == Top > Max({frame.start} \cup {j \in Bands : frame.offsets[j] > 0})

NoneSkippable ==
    /\ turn = "skip" /\ ~Skippable
    /\ sums' = [sums EXCEPT !.total = @ + stereo.skipRsv]
    /\ turn' = "stereo"
    /\ UNCHANGED <<frame, range, ends, bits, fine, coded, stereo, side>>

KeepBand ==
    /\ turn = "skip" /\ Skippable /\ Flagged
    /\ side' = side + 8
    /\ turn' = "stereo"
    /\ UNCHANGED <<frame, range, ends, bits, fine, coded, sums, stereo>>

\* A narrower spectrum needs fewer bits for its intensity band.
Reclaimed(rsv) == IF rsv > 0 THEN log2FracTable[Top - frame.start + 1] ELSE 0

SkipBand ==
    /\ turn = "skip" /\ Skippable
    /\ \E flag \in {IF Flagged THEN 8 ELSE 0} :
       \E kept \in {IF BandBits - flag >= Floor THEN Floor ELSE 0} :
          /\ side' = side + flag
          /\ bits' = [bits EXCEPT ![Top] = kept]
          /\ sums' = [sums EXCEPT !.psum = @ + flag - bits[Top] - stereo.rsv
                                             + Reclaimed(stereo.rsv) + kept]
    /\ stereo' = [stereo EXCEPT !.rsv = Reclaimed(@)]
    /\ coded' = Top
    /\ UNCHANGED <<frame, turn, range, ends, fine>>

\* The intensity band and the dual stereo flag, coded if there is room; a dual
\* flag that makes no difference gives its bit back.
CodeStereo(intensity, dual) ==
    /\ turn = "stereo"
    /\ intensity \in (IF stereo.rsv > 0 THEN frame.start..coded ELSE {0})
    /\ \E dualBit \in {IF intensity <= frame.start THEN 0 ELSE stereo.dualRsv} :
          /\ dual = 0 \/ dualBit > 0
          /\ sums' = [sums EXCEPT !.total = @ + stereo.dualRsv - dualBit]
          /\ stereo' = [stereo EXCEPT !.intensity = intensity, !.dual = dual]
          /\ side' = side + stereo.rsv + dualBit
    /\ turn' = "spread"
    /\ UNCHANGED <<frame, range, ends, bits, fine, coded>>

-----------------------------------------------------------------------------
(* Pulses and fine energy                                                   *)

\* What is left goes to the coded bands, by their width, the rest to the lowest.
SpreadLeft ==
    /\ turn = "spread"
    /\ bits' = [j \in Bands |->
                   IF j >= coded THEN bits[j]
                   ELSE bits[j] + PerCoefficient * Width(j)
                          + Pos(Min({Rest - (Edge(j) - Edge(frame.start)), Width(j)}))]
    /\ fine' = Nothing
    /\ coded' = frame.start
    /\ range' = [lo |-> frame.start, hi |-> coded]
    /\ turn' = "split"
    /\ UNCHANGED <<frame, ends, sums, stereo, side>>

MaxFineBits == 8

\* A band's fine bits, its fair share of b bits by log2(n).
FineShare(j, n, b) ==
    LET den == frame.C * n
                 + (IF frame.C = 2 /\ n > 2 /\ stereo.dual = 0 /\ j < stereo.intensity
                    THEN 1 ELSE 0)
        curve == den * (logN[j + 1] + frame.LM * 8)
        offset == curve \div 2 - den * 21 + (IF n = 2 THEN (den * 8) \div 4 ELSE 0)
        shifted == IF b + offset < den * 16 THEN offset + curve \div 4
                   ELSE IF b + offset < den * 24 THEN offset + curve \div 8 ELSE offset
        fair == (Pos(b + shifted + den * 4) \div den) \div 8
    IN  Min({MaxFineBits,
             IF frame.C * fair > b \div 8 THEN (b \div frame.C) \div 8 ELSE fair})

\* Bits over what the pulses of a band can use: its cap, or a sign for each channel.
Excess(j, n, bit) == Pos(bit - (IF n > 1 THEN BandCap(j) ELSE Floor))

\* What the pulses of a coded band cannot use goes to its fine energy, and what that
\* cannot is the balance the next band starts from.
SplitBand ==
    /\ turn = "split" /\ coded < range.hi
    /\ \E n \in {Width(coded) * 2^frame.LM}, bit \in {bits[coded] + sums.balance} :
       \E excess \in {Excess(coded, n, bit)} :
       \E share \in {IF n > 1 THEN FineShare(coded, n, bit - excess) ELSE 0} :
       \E extra \in {Min({excess \div Floor, MaxFineBits - share})} :
          /\ bits' = [bits EXCEPT ![coded] = bit - excess - share * Floor]
          /\ fine' = [fine EXCEPT ![coded] = share + extra]
          /\ sums' = [sums EXCEPT !.balance = excess - extra * Floor]
    /\ coded' = coded + 1
    /\ UNCHANGED <<frame, turn, range, ends, stereo, side>>

\* A skipped band uses all it has for fine energy.
SkippedBands ==
    /\ turn = "split" /\ coded = range.hi
    /\ fine' = [j \in Bands |-> IF j < coded THEN fine[j] ELSE bits[j] \div Floor]
    /\ bits' = [j \in Bands |-> IF j < coded THEN bits[j] ELSE 0]
    /\ turn' = "done"
    /\ UNCHANGED <<frame, range, ends, coded, sums, stereo, side>>

-----------------------------------------------------------------------------

RateIdle == [start |-> 0, end |-> 0, C |-> 1, LM |-> 0, trim |-> 0, total |-> 0,
             offsets |-> <<>>]

RateInit ==
    /\ frame = RateIdle /\ turn = "idle" /\ range = [lo |-> 0, hi |-> 0]
    /\ ends = [low |-> <<>>, step |-> <<>>] /\ bits = <<>> /\ fine = <<>> /\ coded = 0
    /\ sums = [psum |-> 0, total |-> 0, balance |-> 0]
    /\ stereo = [rsv |-> 0, dualRsv |-> 0, skipRsv |-> 0, intensity |-> 0, dual |-> 0]
    /\ side = 0

RateNext ==
    \/ \E f \in Frames : Call(f)
    \/ HalveRows \/ RowsFound \/ HalveSteps \/ StepsFound
    \/ NoneSkippable \/ KeepBand \/ SkipBand
    \/ \E i \in 0..BandCount, d \in {0, 1} : CodeStereo(i, d)
    \/ SpreadLeft \/ SplitBand \/ SkippedBands

-----------------------------------------------------------------------------
(* Property.                                                                *)

\* The allocation gives away what there is, to the last eighth of a bit: pulses,
\* fine energy, the side information coded on the way and the balance left for
\* quant_all_bands are together the bits it was given, whatever is skipped; no
\* part is negative or more than a band can use; and nothing is overspent on
\* the way, which the unsigned divisions would take for a fortune (celt_udiv in
\* interp_bits2pulses, and the asserts its comments keep).
AllocationExact ==
    /\ turn \in {"skip", "stereo", "spread"} => Left >= 0
    /\ turn = "done" =>
          /\ SumOf(bits) + Floor * SumOf(fine) + side + sums.balance = Pos(frame.total)
          /\ sums.balance >= 0
          /\ \A j \in Bands : bits[j] \in 0..BandCap(j) /\ fine[j] \in 0..MaxFineBits
=============================================================================
