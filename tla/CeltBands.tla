----------------------------- MODULE CeltBands -----------------------------
(***************************************************************************)
(* Two questions about the bands of a CELT frame, internal/celt/bands.go.  *)
(* The bits of one band: quantBand, quantBandStereo and the halving of     *)
(* quantPartition, which sends an angle for every cut and pulses for every *)
(* piece that is small enough.  The encoder may choose any angle, and the  *)
(* decoder reads one, so the angle is an input.  What a symbol costs the   *)
(* range coder is rounded up to an eighth of a bit.                        *)
(*                                                                         *)
(* The bands in turn, quantAllBands, as the decoder runs it and as the     *)
(* encoder does that tries every stereo angle rounded down and rounded up. *)
(* A band with too few bits for pulses folds: it copies spectrum of lower  *)
(* bands out of the buffers norm and norm2, which come from a pool and     *)
(* hold a former frame until this one writes them.  A coefficient stands   *)
(* for 2^LM of them, and is modelled by the band whose spectrum it is.     *)
(***************************************************************************)
EXTENDS CeltMode, FiniteSetsExt

CONSTANTS
    SplitBands,    \* bands, as far as their widths and costs differ
    BudgetSteps,   \* budgets tried, from none to more than the band can use
    CutAngles        \* pairs of angles, for the cuts in turn

VARIABLE outcome     \* the band last outcome, its budget, and what is left of the frame's

splitVars == outcome

\* G(v) for the value v of x.
With(x, G(_)) == CHOOSE y \in {G(v) : v \in {x}} : TRUE

-----------------------------------------------------------------------------
(* Pulses.  Sizes run from LM = -1, half of the shortest block.             *)

CacheAt(band, LM, q) == cacheBits[cacheIndex[(LM + 1) * BandCount + band + 1] + q + 1]
MaxPulses(band, LM) == CacheAt(band, LM, 0)

\* pulses2bits
PulseBits(band, LM, q) == IF q = 0 THEN 0 ELSE CacheAt(band, LM, q) + 1

\* bits2pulses: six halvings, and the nearer of the two that are left.
BitsToPulses(band, LM, bits) ==
    LET Halve(r, k) ==
            LET mid == (r[1] + r[2] + 1) \div 2
            IN IF CacheAt(band, LM, mid) >= bits - 1 THEN <<r[1], mid>> ELSE <<mid, r[2]>>
        Nearer(r) ==
            LET low == IF r[1] = 0 THEN -1 ELSE CacheAt(band, LM, r[1])
            IN IF bits - 1 - low <= CacheAt(band, LM, r[2]) - (bits - 1) THEN r[1] ELSE r[2]
    IN With(FoldLeft(Halve, <<0, MaxPulses(band, LM)>>, <<1, 2, 3, 4, 5, 6>>), Nearer)

\* Mutant of LeafPulses: what the budget came to is trusted to be there.
LeafPulsesTrusted(band, LM, b, left) == BitsToPulses(band, LM, b)

\* As many as the bits are for, or the most that what is left pays for.
LeafPulses(band, LM, b, left) ==
    With(BitsToPulses(band, LM, b), LAMBDA q :
        CHOOSE p \in 0..q : /\ p = 0 \/ PulseBits(band, LM, p) <= left
                            /\ \A r \in (p + 1)..q : PulseBits(band, LM, r) > left)

-----------------------------------------------------------------------------
(* The angle between two halves, or between mid and side.                   *)

exp2Table8 == <<16384, 17866, 19483, 21247, 23170, 25267, 27554, 30048>>

PulseCap(band, LM) == logN[band + 1] + 8 * LM

\* computeQn: how finely it is sent, always leaving the side a pulse.
Qn(band, N, b, LM, stereo) ==
    LET offset == PulseCap(band, LM) \div 2 - (IF stereo /\ N = 2 THEN 16 ELSE 4)
        n2 == 2 * N - 1 - (IF stereo /\ N = 2 THEN 1 ELSE 0)
        qb == Min({(b + n2 * offset) \div n2, b - PulseCap(band, LM) - 32, 64})
    IN IF qb < 4 THEN 1
       ELSE 2 * ((exp2Table8[(qb % 8) + 1] \div 2^(14 - qb \div 8) + 1) \div 2)

\* Eighths of a bit for a symbol that has fs of ft.
SymbolCost(fs, ft) ==
    LET e == CHOOSE k \in 0..15 : ft <= fs * 2^k /\ (k = 0 \/ ft > fs * 2^(k - 1))
    IN IF e = 0 THEN 0
       ELSE 8 * (e - 1) +
            (CHOOSE r \in 1..8 :
                /\ r = 8 \/ ft * 16384 <= fs * 2^(e - 1) * exp2Table8[r + 1]
                /\ ft * 16384 > fs * 2^(e - 1) * exp2Table8[r])

\* A step for stereo, uniform over time or for two coefficients, else a triangle.
AngleCost(a, qn, N, B0, stereo) ==
    LET half == qn \div 2
    IN CASE stereo /\ N > 2 -> SymbolCost(IF a <= half THEN 3 ELSE 1, 3 * (half + 1) + half)
         [] stereo \/ B0 > 1 -> IF qn < 256 THEN SymbolCost(1, qn + 1)
                                ELSE SymbolCost(1, qn \div 2 + 1) + 8
         [] OTHER -> SymbolCost(IF a <= half THEN a + 1 ELSE qn + 1 - a, (half + 1)^2)

FracMul16(a, b) == (16384 + a * b) \div 32768

BitexactCos(x) ==
    LET x2 == (4096 + x * x) \div 8192
    IN 1 + (32767 - x2)
         + FracMul16(x2, -7651 + FracMul16(x2, 8277 + FracMul16(-626, x2)))

BitexactLog2tan(isin, icos) ==
    LET Ilog(v) == CHOOSE k \in 1..16 : 2^(k - 1) <= v /\ v < 2^k
        Curve(v) == With(v * 2^(15 - Ilog(v)), LAMBDA w : FracMul16(w, FracMul16(w, -2597) + 7932))
    IN (Ilog(isin) - Ilog(icos)) * 2048 + Curve(isin) - Curve(icos)

\* How much the mid should have more than the side, of what they get together.
MidSideDelta(angle, N) ==
    CASE angle = 0 -> -16384
      [] angle = 16384 -> 16384
      [] OTHER -> FracMul16((N - 1) * 128,
                            BitexactLog2tan(BitexactCos(16384 - angle), BitexactCos(angle)))

Step(how, qn) ==
    CASE how = "mid" -> 0
      [] how = "more mid" -> 1
      [] how = "even" -> qn \div 2
      [] how = "more side" -> qn - 1
      [] how = "side" -> qn

\* computeTheta: the angle, the bits it takes, and what it says of the halves.
Theta(j, N, b, B0, LM, stereo, left) ==
    With(IF stereo /\ j.intensity THEN 1 ELSE Qn(j.band, N, b, LM, stereo), LAMBDA qn :
        IF qn = 1
        THEN [angle |-> 0, cost |-> IF stereo /\ b > 16 /\ left > 16 THEN 16 ELSE 0,
              delta |-> -16384]
        ELSE With(Step(j.angles[((LM + 1) % 2) + 1], qn), LAMBDA a :
                [angle |-> (a * 16384) \div qn, cost |-> AngleCost(a, qn, N, B0, stereo),
                 delta |-> MidSideDelta((a * 16384) \div qn, N)]))

-----------------------------------------------------------------------------
(* The halves.                                                              *)

MidBits(b, delta) == Max({0, Min({b, (b - delta) \div 2})})

\* What the first half did not use, but for three bits, is the second's.
Spare(unused) == IF unused > 24 THEN unused - 24 ELSE 0

\* The half with more bits goes first; the other gains unless it is silent.
InTurn(first, second, louder, left, Code(_, _)) ==
    With(Code(first, left), LAMBDA after :
        Code(IF louder THEN second + Spare(first - (left - after)) ELSE second, after))

Halves(th, b, mid, left, Code(_, _)) ==
    IF mid >= b - mid
    THEN InTurn(mid, b - mid, th.angle # 0, left, Code)
    ELSE InTurn(b - mid, mid, th.angle # 16384, left, Code)

\* Short blocks: before an attack the later half gets more, after it less.
MaskedDelta(delta, angle, N, LM) ==
    IF angle \in {0, 16384} THEN delta
    ELSE IF angle > 8192 THEN delta - delta \div 2^(4 - LM)
    ELSE Min({0, delta + (8 * N) \div 2^(5 - LM)})

\* quantPartition: what is left of the frame's bits after N coefficients.
RECURSIVE Partition(_, _, _, _, _, _)
Partition(j, N, b, B, LM, left) ==
    IF LM # -1 /\ N > 2 /\ b > CacheAt(j.band, LM, MaxPulses(j.band, LM)) + 12
    THEN With(Theta(j, N \div 2, b, B, LM - 1, FALSE, left), LAMBDA th :
         With(IF B > 1 THEN MaskedDelta(th.delta, th.angle, N \div 2, LM - 1) ELSE th.delta,
              LAMBDA delta :
            Halves(th, b - th.cost, MidBits(b - th.cost, delta), left - th.cost,
                   LAMBDA bits, rest :
                      Partition(j, N \div 2, bits, (B + 1) \div 2, LM - 1, rest))))
    ELSE left - PulseBits(j.band, LM, LeafPulses(j.band, LM, b, left))

\* quantBandN1: signs, while there is a bit for them.
Signs(channels, left) == left - 8 * Max({0, Min({channels, left \div 8})})

\* The short blocks after recombining, or dividing them while they have pairs.
BlocksAt(N, B, tf) ==
    IF tf > 0 THEN B \div 2^tf
    ELSE B * 2^Max({t \in 0..(-tf) : (N \div B) % 2^t = 0})

\* quantBand
Mono(j, b, left) ==
    IF j.N = 1 THEN Signs(1, left)
    ELSE Partition(j, j.N, b, BlocksAt(j.N, j.B, j.tf), j.LM, left)

\* quantBandStereo: two coefficients leave the side one bit, its sign.
Stereo(j, b, left) ==
    IF j.N = 1 THEN Signs(2, left)
    ELSE With(Theta(j, j.N, b, j.B, j.LM, TRUE, left), LAMBDA th :
         IF j.N = 2
         THEN With(IF th.angle \in {0, 16384} THEN 0 ELSE 8, LAMBDA sign :
                 Mono(j, b - th.cost - sign, left - th.cost - sign))
         ELSE Halves(th, b - th.cost, MidBits(b - th.cost, th.delta), left - th.cost,
                     LAMBDA bits, rest : Mono(j, bits, rest)))

-----------------------------------------------------------------------------

Jobs(band, LM, C) ==
    [band : {band}, LM : {LM}, N : {Width(band) * 2^LM}, B : {1, 2^LM}, tf : {-1, 0, 1},
     angles : CutAngles, intensity : {FALSE, C = 2}]

\* The budget is never more than what is left, one more than remaining_bits.
CodeSplit(band, LM, C) ==
    \E j \in Jobs(band, LM, C), k \in BudgetSteps, spare \in {0, 9} :
        /\ j.tf <= 0 \/ j.B > 1
        /\ \E b \in {(k * Cap(band, C, LM)) \div 8} :
              outcome' = [b |-> b, spare |-> spare,
                        left |-> IF C = 2 THEN Stereo(j, b, b - 1 + spare)
                                 ELSE Mono(j, b, b - 1 + spare)]

SplitInit == outcome = [b |-> 0, spare |-> 0, left |-> -1]

SplitNext ==
    /\ outcome.left = -1 /\ outcome.b = 0
    /\ \E band \in SplitBands, LM \in 0..MaxLM, C \in 1..2 : CodeSplit(band, LM, C)

-----------------------------------------------------------------------------
(* Property.                                                                *)

\* A band never costs the frame more than is left of it, whatever angles are chosen:
\* the angle is sent only as finely as leaves room for the pulses, a half is lent no
\* more than the other saved, and the pulses of the last piece give way when rounding
\* went against it.  The decoder reads what the encoder wrote, so if it did overrun
\* both would go on with bits of no meaning.
BandsInBudget == outcome.left >= -1

-----------------------------------------------------------------------------
(* The bands in turn, and what they fold.                                    *)

CONSTANT BandJobs   \* [start, end, C, dual, intensity, rdo]: the frames

VARIABLES
    job,        \* the arguments of the call
    part,       \* where it is: "idle", "prepare", "code", "again", "done"
    band,       \* i
    lowband,    \* lowbandOffset; 0 is none
    update,     \* updateLowband
    dual,       \* dualStereo
    norm,       \* norm and norm2: a coefficient is the band it was made by, or Stale
    fold        \* what the band folds: the offset, -1 if noise will do, the masks read

bandVars == <<job, part, band, lowband, update, dual, norm, fold>>

Stale == -1

\* Offsets in norm, which begins at the first band and leaves out the last of the mode.
Offset(j) == Edge(j) - Edge(job.start)
NormLen == Offset(BandCount - 1)
Cells(j) == Offset(j)..(Offset(j) + Width(j) - 1)
LastBand == band = job.end - 1
NoFold == [from |-> -1, masks |-> {}]

Filled(v, cells, tag) == [x \in DOMAIN v |-> IF x \in cells THEN tag ELSE v[x]]

-----------------------------------------------------------------------------

StartFold(j) ==
    /\ part = "idle"
    /\ job' = j /\ band' = j.start
    /\ part' = "prepare"
    /\ lowband' = 0 /\ update' = TRUE /\ dual' = j.dual
    /\ norm' = [c \in 1..2 |-> [x \in 0..(Edge(BandCount - 1) - Edge(j.start) - 1) |-> Stale]]
    /\ fold' = NoFold

\* The band to fold from moves up while bands have a bit for every coefficient.
NextLowband ==
    IF /\ Edge(band) - Width(band) >= Edge(job.start) \/ band = job.start + 1
       /\ update \/ lowband = 0
    THEN band ELSE lowband

\* Mutant of HybridCopy: the second band folds from what happens to be behind the first.
HybridCopyNone(v) == v

\* special_hybrid_folding: the end of the first band again, for a second that is wider.
HybridCopy(v) ==
    LET n1 == Width(job.start)
        n2 == Width(job.start + 1)
    IN [x \in DOMAIN v |-> IF x \in n1..(n2 - 1) THEN v[x - n2 + n1] ELSE v[x]]

WithCopy(n) ==
    [c \in 1..2 |-> IF band = job.start + 1 /\ (c = 1 \/ dual) THEN HybridCopy(n[c]) ELSE n[c]]

\* Never what the band itself will hold, so a band's width below the lowband.
FoldFrom(low) == Max({0, Offset(low) - Width(band)})

\* The bands whose collapse masks tell whether there is anything to fold.
FoldMasks(low) ==
    LET from == FoldFrom(low) + Edge(job.start)
        first == Max({j \in 0..(low - 1) : Edge(j) <= from})
        end == Min({j \in low..band : j >= band \/ Edge(j) >= from + Width(band)})
    IN first..Max({first, end - 1})

\* Intensity starts: what was two channels is folded as one.
Merged(n) ==
    [n EXCEPT ![1] = [x \in DOMAIN n[1] |->
        IF x < Offset(band) /\ n[1][x] # n[2][x] THEN Stale ELSE n[1][x]]]

\* Where to fold from, if the spreading and the resolution of the band ask for it.
Prepare(folds) ==
    /\ part = "prepare"
    /\ lowband' = NextLowband
    /\ fold' = IF folds /\ NextLowband # 0
               THEN [from |-> FoldFrom(NextLowband), masks |-> FoldMasks(NextLowband)]
               ELSE NoFold
    /\ dual' = (dual /\ band # job.intensity)
    /\ norm' = IF dual /\ band = job.intensity THEN Merged(WithCopy(norm)) ELSE WithCopy(norm)
    /\ part' = "code"
    /\ UNCHANGED <<job, band, update>>

Advance(deep) ==
    /\ update' = deep
    /\ part' = IF LastBand THEN "done" ELSE "prepare"
    /\ band' = IF LastBand THEN band ELSE band + 1
    /\ UNCHANGED <<job, lowband, dual, fold>>

\* The band writes its place in norm, the last nowhere.
Written(tag) ==
    [c \in 1..2 |-> IF ~LastBand /\ (c = 1 \/ dual) THEN Filled(norm[c], Cells(band), tag)
                    ELSE norm[c]]

TwoTries == job.rdo /\ ~dual /\ job.C = 2 /\ band < job.intensity

\* quant_band or quant_band_stereo; deep says whether it had a bit a coefficient.
CodeBand(deep) ==
    /\ part = "code" /\ ~TwoTries
    /\ norm' = Written(band)
    /\ Advance(deep)

Down(j) == j + 100
Up(j) == j + 200

\* The angle rounded down, and then everything as it was but for norm.
RoundDown ==
    /\ part = "code" /\ TwoTries
    /\ norm' = WithCopy(Written(Down(band)))
    /\ part' = "again"
    /\ UNCHANGED <<job, band, lowband, update, dual, fold>>

\* Rounded up, and what the better try left is kept or put back.
RoundUp(up, deep) ==
    /\ part = "again"
    /\ \E try \in {IF up THEN Up(band) ELSE Down(band)} :
       \E n \in {Written(try)} :
          norm' = [c \in 1..2 |-> [x \in DOMAIN n[c] |->
                      IF n[c][x] = try THEN band
                      ELSE IF n[c][x] > 100 THEN Stale ELSE n[c][x]]]
    /\ Advance(deep)

-----------------------------------------------------------------------------

(* The short blocks of one band, as bits of its masks (quant_band).  B of    *)
(* them lie interleaved in its coefficients; pairs are recombined, or each is *)
(* divided while it has an even number of coefficients.                       *)

bitInterleaveTable == <<0, 1, 1, 1, 2, 3, 3, 3, 2, 3, 3, 3, 2, 3, 3, 3>>
bitDeinterleaveTable ==
    <<0, 3, 12, 15, 48, 51, 60, 63, 192, 195, 204, 207, 240, 243, 252, 255>>

Bits(m) == {k \in 0..15 : (m \div 2^k) % 2 = 1}
Mask(blocks) == FoldSet(LAMBDA k, m : m + 2^k, 0, blocks)

\* What there is to fold in the blocks the band is coded in.
InnerFill(fill, B, n, tf) ==
    LET Pair(m, k) == bitInterleaveTable[(m % 16) + 1] + 4 * bitInterleaveTable[(m \div 16) + 1]
        Halve(f, k) == f \cup {b + B * 2^(k - 1) : b \in f}
    IN FoldLeft(Halve,
                Bits(FoldLeft(Pair, Mask(fill), [k \in 1..Recombinations(tf) |-> k])),
                [k \in 1..Divisions(n, tf) |-> k])

\* Which blocks of the frame got something, of those the band was coded in.
OuterMask(coded, B, n, tf) ==
    LET t == Divisions(n, tf)
        Join(m, k) == m \cup {b - B * 2^(t - k) : b \in {c \in m : c >= B * 2^(t - k)}}
        Part(m, k) == Bits(bitDeinterleaveTable[Mask(m) + 1])
    IN {b \in FoldLeft(Part, FoldLeft(Join, coded, [k \in 1..t |-> k]),
                       [k \in 1..Recombinations(tf) |-> k]) : b < B}

-----------------------------------------------------------------------------

BandInit ==
    /\ job = [start |-> 0, end |-> 0, C |-> 1, dual |-> FALSE, intensity |-> 0, rdo |-> FALSE]
    /\ part = "idle" /\ band = 0 /\ lowband = 0 /\ update = FALSE /\ dual = FALSE
    /\ norm = <<>> /\ fold = NoFold

BandNext ==
    \/ \E j \in BandJobs : StartFold(j)
    \/ \E folds \in BOOLEAN : Prepare(folds)
    \/ \E deep \in BOOLEAN : CodeBand(deep)
    \/ RoundDown
    \/ \E up, deep \in BOOLEAN : RoundUp(up, deep)

-----------------------------------------------------------------------------
(* Property.                                                                *)

FoldCells == fold.from..(fold.from + Width(band) - 1)

\* The blocks a coefficient lies in, in the frame and while the band is coded.
OuterBlock(x, B) == x % B
InnerBlock(x, B, n, tf) ==
    (x % (B * 2^Divisions(n, tf))) \div 2^Recombinations(tf)

\* A bit of a mask stands for the coefficients of its block, recombined or divided.
MasksNameBlocks ==
    \A B \in {1, 2, 4, 8}, n \in 1..8, tf \in -3..3 :
      2^Recombinations(tf) <= B =>
        \A x \in 0..(n * B - 1) :
           LET outer == OuterBlock(x, B)
               inner == InnerBlock(x, B, n, tf)
           IN /\ inner \in InnerFill({outer}, B, n, tf)
              /\ outer \in OuterMask({inner}, B, n, tf)
              /\ \A y \in InnerFill({outer}, B, n, tf) :
                    \E z \in 0..(n * B - 1) :
                       OuterBlock(z, B) = outer /\ InnerBlock(z, B, n, tf) = y

\* What a band folds is spectrum of this frame: every coefficient it copies was made
\* by a lower band of this very frame, in the try that was kept, in both channels
\* while there are two, and by a band whose collapse mask was asked whether it is
\* empty; the masks asked are those of bands already coded.  The buffers keep the
\* former frame's spectrum, so a gap would be heard and would differ between
\* encoder and decoder.  And the masks say so of the right short blocks, however
\* the band was divided or recombined.
FoldsInFrame ==
    part \in {"code", "again"} /\ fold.from # -1 /\ Width(band) > 1 =>
        /\ fold.masks \subseteq job.start..(band - 1)
        /\ FoldCells \subseteq 0..(NormLen - 1)
        /\ \A c \in 1..(IF dual THEN 2 ELSE 1), x \in FoldCells : norm[c][x] \in fold.masks

FoldsFromCoded ==
    /\ FoldsInFrame
    /\ part = "prepare" /\ band = job.start /\ job.C = 1 => MasksNameBlocks
=============================================================================
