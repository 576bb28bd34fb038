--------------------------- MODULE CeltTransform ---------------------------
(***************************************************************************)
(* The transform of CELT: what the encoder makes of the samples of a frame *)
(* (computeMdcts of internal/celt/celt_encoder.go) and the decoder of the  *)
(* spectrum (celtSynthesis of celt_decoder.go), with the MDCT of mdct.go   *)
(* and the FFT of kiss_fft.go under it.  All of it is linear, so samples   *)
(* and coefficients are numbers of the field of 15361 elements, where      *)
(* every sine and cosine the tables hold exists exactly: what is left out  *)
(* is the rounding, and the shifts by which the code avoids some of it     *)
(* and which cancel.  A complex number is <<r, i>>.                        *)
(*                                                                         *)
(* And what a band goes through before its pulses are searched, and back:  *)
(* Haar steps over its short blocks, their reordering (quantBand of        *)
(* bands.go), the halving down to leaves (quantPartition) and the spread   *)
(* rotation of each (vq.go), in the same field.  The pulses are left out:  *)
(* they would be the leaf itself if there were enough of them.             *)
(***************************************************************************)
EXTENDS Integers, SequencesExt, CeltMode

CONSTANTS
    Kinds,      \* <<LM, short>>: the frames of a stream
    Layouts,    \* <<C, CC>>: channels coded, and of the decoder
    MaxCalls   \* how many frames a stream has

VARIABLES
    layout,     \* <<C, CC>>, or <<>>
    sent,       \* history: how many frames, and where the next begins
    tail,       \* per channel of the decoder, what overlaps the next frame
    played      \* the last frame's output, per channel

transformVars == <<layout, sent, tail, played>>

Prime == 15361      \* 8 * 1920 + 1
Circle == 15360
Half == 7681

Overlap == 120
ShortSize == 120

\* Sequences that are built once, not each time they are looked at.
Array(n, Op(_)) == [k \in 1..n |-> Op(k - 1)] \o <<>>

-----------------------------------------------------------------------------
(* Sines and cosines of a turn's 15360th parts, of a root of unity.         *)

Power(x, e) ==
    FoldLeft(LAMBDA r, b : (((r * r) % Prime) * (IF (e \div 2^b) % 2 = 1 THEN x ELSE 1)) % Prime,
             1, [b \in 1..14 |-> 14 - b])

Root == 7
I == Power(Root, Circle \div 4)
HalfOverI == (Half * (Prime - I)) % Prime

Cos(k) == ((Power(Root, k) + Power(Root, Circle - k)) * Half) % Prime
Sin(k) == ((Power(Root, k) + Prime - Power(Root, Circle - k)) * HalfOverI) % Prime

\* fftTwiddles48000960 and mdctTwiddles960, which follow each other for four sizes.
Twiddles == Array(480, LAMBDA k : <<Cos(32 * k), Prime - Sin(32 * k)>>)
Trig == Array(1800, LAMBDA k :
            IF k < 960 THEN Cos(8 * k + 1) ELSE IF k < 1440 THEN Cos(16 * (k - 960) + 2)
            ELSE IF k < 1680 THEN Cos(32 * (k - 1440) + 4) ELSE Cos(64 * (k - 1680) + 8))

\* window120: all that matters is that the squares of a value and of its mirror image
\* add up to 1.
Window == Array(Overlap, LAMBDA k : IF k < 60 THEN Sin(5 * k + 3) ELSE Cos(5 * (119 - k) + 3))

-----------------------------------------------------------------------------
(* kiss_fft.go.                                                             *)

CAdd(a, b) == <<(a[1] + b[1]) % Prime, (a[2] + b[2]) % Prime>>
CSub(a, b) == <<(a[1] - b[1]) % Prime, (a[2] - b[2]) % Prime>>
CMul(a, b) == <<(a[1] * b[1] - a[2] * b[2]) % Prime, (a[1] * b[2] + a[2] * b[1]) % Prime>>
Times(a, s) == <<(a[1] * s) % Prime, (a[2] * s) % Prime>>
MinusI(a) == <<a[2], (-a[1]) % Prime>>

\* factors, p and m of each stage, by shift.
Factors == <<
    << <<5, 96>>, <<3, 32>>, <<4, 8>>, <<2, 4>>, <<4, 1>> >>,
    << <<5, 48>>, <<3, 16>>, <<4, 4>>, <<4, 1>> >>,
    << <<5, 24>>, <<3, 8>>, <<2, 4>>, <<4, 1>> >>,
    << <<5, 12>>, <<3, 4>>, <<4, 1>> >> >>

\* fstride: how many blocks a stage has.
Blocks(shift, s) == FoldLeft(LAMBDA n, f : n * f[1], 1, SubSeq(Factors[shift + 1], 1, s - 1))
Points(shift) == 480 \div 2^shift

\* bitrev, backwards: the input that is put at x.
Placed(shift, x) ==
    LET fs == Factors[shift + 1]
    IN FoldLeft(LAMBDA sum, s : sum + ((x \div fs[s][2]) % fs[s][1]) * Blocks(shift, s),
                0, [s \in 1..Len(fs) |-> s])

Eighth == Cos(Circle \div 8)

\* kfBfly2, whose twiddles are those of eight points.
Bfly2(leg, j, g) ==
    LET c == Eighth
        x == g[2]
        t == IF j = 0 THEN x
             ELSE IF j = 1 THEN <<((x[1] + x[2]) * c) % Prime, ((x[2] - x[1]) * c) % Prime>>
             ELSE IF j = 2 THEN MinusI(x)
             ELSE <<((x[2] - x[1]) * c) % Prime, (-(x[2] + x[1]) * c) % Prime>>
    IN IF leg = 0 THEN CAdd(g[1], t) ELSE CSub(g[1], t)

\* A third of the circle.
epi3 == Sin(Circle \div 3)

\* kfBfly3.
Bfly3(leg, g) ==
    LET sum == CAdd(g[2], g[3])
        mid == CSub(g[1], Times(sum, Half))
        side == MinusI(Times(CSub(g[2], g[3]), epi3))
    IN CASE leg = 0 -> CAdd(g[1], sum)
         [] leg = 1 -> CAdd(mid, side)
         [] leg = 2 -> CSub(mid, side)

\* kfBfly4.
Bfly4(leg, g) ==
    LET odd == MinusI(CSub(g[2], g[4]))
    IN CASE leg = 0 -> CAdd(CAdd(g[1], g[3]), CAdd(g[2], g[4]))
         [] leg = 1 -> CAdd(CSub(g[1], g[3]), odd)
         [] leg = 2 -> CSub(CAdd(g[1], g[3]), CAdd(g[2], g[4]))
         [] leg = 3 -> CSub(CSub(g[1], g[3]), odd)

\* ya and yb: a fifth and two fifths of the circle.
Fifth == Circle \div 5
ya == <<Cos(Fifth), Sin(Fifth)>>
yb == <<Cos(2 * Fifth), Sin(2 * Fifth)>>

\* Mutant of Bfly5: the legs that need yb take the sines the wrong way round.
Bfly5Swapped(leg, g) ==
    LET s7 == CAdd(g[2], g[5])
        s8 == CAdd(g[3], g[4])
        s10 == CSub(g[2], g[5])
        s9 == CSub(g[3], g[4])
        Mid(a, b) == CAdd(g[1], CAdd(Times(s7, a[1]), Times(s8, b[1])))
        s6 == MinusI(CAdd(Times(s10, ya[2]), Times(s9, yb[2])))
        s12 == MinusI(CSub(Times(s9, ya[2]), Times(s10, yb[2])))
    IN CASE leg = 0 -> CAdd(g[1], CAdd(s7, s8))
         [] leg = 1 -> CAdd(Mid(ya, yb), s6)
         [] leg = 4 -> CSub(Mid(ya, yb), s6)
         [] leg = 2 -> CAdd(Mid(yb, ya), s12)
         [] leg = 3 -> CSub(Mid(yb, ya), s12)

\* kfBfly5.
Bfly5(leg, g) ==
    LET s7 == CAdd(g[2], g[5])
        s8 == CAdd(g[3], g[4])
        s10 == CSub(g[2], g[5])
        s9 == CSub(g[3], g[4])
        Mid(a, b) == CAdd(g[1], CAdd(Times(s7, a[1]), Times(s8, b[1])))
        s6 == MinusI(CAdd(Times(s10, ya[2]), Times(s9, yb[2])))
        s12 == MinusI(CSub(Times(s10, yb[2]), Times(s9, ya[2])))
    IN CASE leg = 0 -> CAdd(g[1], CAdd(s7, s8))
         [] leg = 1 -> CAdd(Mid(ya, yb), s6)
         [] leg = 4 -> CSub(Mid(ya, yb), s6)
         [] leg = 2 -> CAdd(Mid(yb, ya), s12)
         [] leg = 3 -> CSub(Mid(yb, ya), s12)

\* What a stage makes of the group of inputs of one of its outputs.
Bfly(p, leg, j, g) ==
    CASE p = 2 -> Bfly2(leg, j, g)
      [] p = 3 -> Bfly3(leg, g)
      [] p = 4 -> Bfly4(leg, g)
      [] p = 5 -> Bfly5(leg, g)

\* One stage: the twiddles of stage s are 2^shift * Blocks apart; radix 2 has its own.
Stage(shift, s, f) ==
    LET p == Factors[shift + 1][s][1]
        m == Factors[shift + 1][s][2]
        step == Blocks(shift, s) * 2^shift
        Leg(x, l) == f[(x \div (p * m)) * p * m + (x % m) + l * m + 1]
        Group(x) == [l \in 1..p |->
            IF p = 2 \/ l = 1 THEN Leg(x, l - 1)
            ELSE CMul(Leg(x, l - 1), Twiddles[(x % m) * (l - 1) * step + 1])] \o <<>>
        At(x) == FoldLeft(LAMBDA none, g : Bfly(p, (x \div m) % p, x % m, g), 0, <<Group(x)>>)
    IN Array(Points(shift), At)

\* opusFFTImpl on the inputs put in their places.
FFT(shift, f) ==
    LET stages == Len(Factors[shift + 1])
    IN FoldLeft(LAMBDA g, s : Stage(shift, s, g), f, [s \in 1..stages |-> stages + 1 - s])

-----------------------------------------------------------------------------
(* mdct.go.                                                                 *)

N2(shift) == 960 \div 2^shift
N4(shift) == 480 \div 2^shift
TrigOff(shift) == 1920 - 1920 \div 2^shift

T0(shift, i) == Trig[TrigOff(shift) + i + 1]
T1(shift, i) == Trig[TrigOff(shift) + N4(shift) + i + 1]
W(k) == Window[k + 1]

\* The i-th of the N/4 complex numbers cltMDCTForward folds `in` into.
Fold(shift, in, i) ==
    LET at(k) == in[k + 1]
        xp1 == Overlap \div 2 + 2 * i
        xp2 == N2(shift) - 1 + Overlap \div 2 - 2 * i
        k == 2 * (i - (N4(shift) - 30))
    IN IF i < 30
       THEN <<(at(xp1 + N2(shift)) * W(59 - 2 * i) + at(xp2) * W(60 + 2 * i)) % Prime,
              (at(xp1) * W(60 + 2 * i) - at(xp2 - N2(shift)) * W(59 - 2 * i)) % Prime>>
       ELSE IF i < N4(shift) - 30 THEN <<at(xp2), at(xp1)>>
       ELSE <<(at(xp2) * W(119 - k) - at(xp1 - N2(shift)) * W(k)) % Prime,
              (at(xp1) * W(119 - k) + at(xp2 + N2(shift)) * W(k)) % Prime>>

\* scale: the FFT is divided by its length.
Scales == Array(4, LAMBDA shift : Power(N4(shift), Prime - 2))

\* cltMDCTForward.
Forward(shift, in) ==
    LET Turned(f, i) == Times(CMul(f, <<T0(shift, i), T1(shift, i)>>), Scales[shift + 1])
        Pre(x) == FoldLeft(LAMBDA none, i : Turned(Fold(shift, in, i), i), 0, <<Placed(shift, x)>>)
        Post(f, q) ==
            LET i == IF q % 2 = 0 THEN q \div 2 ELSE (N2(shift) - 1 - q) \div 2
            IN IF q % 2 = 0
               THEN (f[i + 1][2] * T1(shift, i) - f[i + 1][1] * T0(shift, i)) % Prime
               ELSE (f[i + 1][1] * T1(shift, i) + f[i + 1][2] * T0(shift, i)) % Prime
    IN FoldLeft(LAMBDA none, f : Array(N2(shift), LAMBDA q : Post(f, q)), 0,
                <<FFT(shift, Array(N4(shift), Pre))>>)

\* The spectrum turned back to samples by cltMDCTBackward, before they overlap.
Unfolded(shift, X) ==
    LET Turned(x1, x2, t0, t1) == <<(x1 * t0 - x2 * t1) % Prime, (x2 * t0 + x1 * t1) % Prime>>
        Pre(x) == FoldLeft(LAMBDA none, i :
                      Turned(X[2 * i + 1], X[N2(shift) - 2 * i], T0(shift, i), T1(shift, i)),
                      0, <<Placed(shift, x)>>)
        Post(f, q) ==
            LET i == IF q % 2 = 0 THEN q \div 2 ELSE (N2(shift) - 1 - q) \div 2
            IN IF q % 2 = 0
               THEN (f[i + 1][2] * T0(shift, i) + f[i + 1][1] * T1(shift, i)) % Prime
               ELSE (f[i + 1][2] * T1(shift, i) - f[i + 1][1] * T0(shift, i)) % Prime
    IN FoldLeft(LAMBDA none, f : Array(N2(shift), LAMBDA q : Post(f, q)), 0,
                <<FFT(shift, Array(N4(shift), Pre))>>)

\* The first 120 samples of out, whose other half the call before left.
Mirrored(old, new) ==
    Array(Overlap, LAMBDA k :
        IF k < 60 THEN (old[k + 1] * W(119 - k) - new[60 - k] * W(k)) % Prime
        ELSE (old[120 - k] * W(119 - k) + new[k - 59] * W(k)) % Prime)

\* cltMDCTBackward at the end of out, which is 60 samples that wait for their overlap.
Backward(shift, X, out) ==
    FoldLeft(LAMBDA none, new :
                SubSeq(out, 1, Len(out) - 60)
                \o Mirrored(SubSeq(out, Len(out) - 59, Len(out)), SubSeq(new, 1, 60))
                \o SubSeq(new, 61, Len(new)),
             0, <<Unfolded(shift, X)>>)

-----------------------------------------------------------------------------

ShortBlocks(kind) == IF kind[2] THEN 2^kind[1] ELSE 1
Shift(kind) == IF kind[2] THEN 3 ELSE 3 - kind[1]
FrameSize(kind) == ShortSize * 2^kind[1]
BlockSize(kind) == FrameSize(kind) \div ShortBlocks(kind)

\* What is played: no two samples of a stream depend on each other.
Sample(c, k) == (Power(3 + c, 7 * k) + 11 * k) % Prime
Input(c, from, n) == Array(n, LAMBDA k : Sample(c, from + k))

\* computeMdcts, one channel: coefficient q of block b is number b + q * B.
Spectrum(kind, in) ==
    LET B == ShortBlocks(kind)
        blocks == [b \in 1..B |->
            Forward(Shift(kind), SubSeq(in, (b - 1) * BlockSize(kind) + 1,
                                        b * BlockSize(kind) + Overlap))] \o <<>>
    IN FoldLeft(LAMBDA none, bs : Array(FrameSize(kind), LAMBDA x : bs[(x % B) + 1][x \div B + 1]),
                0, <<blocks>>)

Mean(X, Y) == Array(Len(X), LAMBDA k : ((X[k + 1] + Y[k + 1]) * Half) % Prime)

\* Both channels, as one if the frame is mono.
Spectra(kind, C, from) ==
    FoldLeft(LAMBDA none, X : IF C = 1 THEN <<Mean(X[1], X[2])>> ELSE X, 0,
             << [c \in 1..2 |-> Spectrum(kind, Input(c, from, FrameSize(kind) + Overlap))] \o <<>> >>)

\* celtSynthesis: the blocks of a channel, one after the other.
Synthesis(kind, X, out) ==
    LET B == ShortBlocks(kind)
    IN FoldLeft(LAMBDA o, b :
                   Backward(Shift(kind), Array(BlockSize(kind), LAMBDA q : X[b + q * B + 1]), o),
                out, [b \in 1..B |-> b - 1])

\* The spectrum a channel plays: its own, the only one there is, or the mean of two.  The
\* scratch a second spectrum takes in the output of a channel lies behind the 60 samples
\* that wait there.
Heard(X, CC, c) ==
    IF Len(X) = 1 THEN X[1] ELSE IF CC = 1 THEN Mean(X[1], X[2]) ELSE X[c]

\* celtSynthesis, in all three of its cases.
Outputs(kind, X, waits) ==
    [c \in 1..Len(waits) |->
        FoldLeft(LAMBDA none, x : Synthesis(kind, x, waits[c]), 0, <<Heard(X, Len(waits), c)>>)] \o <<>>

-----------------------------------------------------------------------------

TransformInit == layout = <<>> /\ sent = [frames |-> 0, next |-> 0] /\ tail = <<>> /\ played = <<>>

Begin(C, CC) ==
    /\ layout = <<>>
    /\ layout' = <<C, CC>>
    /\ tail' = [c \in 1..CC |-> [k \in 1..60 |-> 0]]
    /\ UNCHANGED <<sent, played>>

\* One frame through both; its samples begin where the last frame's ended.
CodeFrame(kind) ==
    /\ layout # <<>> /\ sent.frames < MaxCalls
    /\ \E X \in {Spectra(kind, layout[1], sent.next)} :
       \E out \in {Outputs(kind, X, tail)} :
          /\ played' = [c \in 1..layout[2] |-> SubSeq(out[c], 1, FrameSize(kind))]
          /\ tail' = [c \in 1..layout[2] |->
                         SubSeq(out[c], FrameSize(kind) + 1, FrameSize(kind) + 60)]
    /\ sent' = [frames |-> sent.frames + 1, next |-> sent.next + FrameSize(kind)]
    /\ UNCHANGED layout

TransformNext ==
    \/ \E l \in Layouts : Begin(l[1], l[2])
    \/ \E kind \in Kinds : CodeFrame(kind)

-----------------------------------------------------------------------------
(* Property.                                                                *)

\* What channel c should play: its own samples, or the mean if either side is mono.
Expected(c, k) ==
    IF layout[1] = 1 \/ layout[2] = 1 THEN ((Sample(1, k) + Sample(2, k)) * Half) % Prime
    ELSE Sample(c, k)

\* Without quantisation CELT is transparent: every frame but the first comes out as it
\* went in, sample by sample, whatever the lengths and the block switching of it and of
\* the frames around it, in every layout of channels.
FramesTransparent ==
    sent.frames > 1 =>
        \A c \in 1..layout[2] : \A k \in 1..Len(played[c]) :
           played[c][k] = Expected(c, sent.next - Len(played[c]) + k - 1)

-----------------------------------------------------------------------------
(* The shape of a band                                                       *)

CONSTANTS
    ShapeBands,     \* bands, from the narrowest to wide ones
    Pulses          \* K of a leaf

VARIABLE shaped     \* [sent, got]: a band before and after

\* sqrt2Inv31.
Sqrt2Inv == Eighth

\* haar1: of each comb of 2 * stride coefficients, the first half with the second.
Haar(X, n, stride) ==
    LET Whole == (n \div 2) * 2 * stride
        At(x) == X[x + 1]
    IN Array(Len(X), LAMBDA x :
          IF x >= Whole THEN At(x)
          ELSE IF x % (2 * stride) < stride THEN ((At(x) + At(x + stride)) * Sqrt2Inv) % Prime
          ELSE ((At(x - stride) - At(x)) * Sqrt2Inv) % Prime)

orderyTable ==
    <<1, 0, 3, 0, 2, 1, 7, 0, 4, 3, 6, 1, 5, 2,
      15, 0, 8, 7, 12, 3, 11, 4, 14, 1, 9, 6, 13, 2, 10, 5>>

\* Where block i goes: in the order of a Hadamard transform if the frame is one block.
Place(i, stride, hadamard) == IF hadamard THEN orderyTable[stride - 1 + i] ELSE i

DeinterleaveHadamard(X, n, stride, hadamard) ==
    LET From(p) == CHOOSE i \in 0..(stride - 1) : Place(i, stride, hadamard) = p
    IN Array(n * stride, LAMBDA x : X[(x % n) * stride + From(x \div n) + 1])

InterleaveHadamard(X, n, stride, hadamard) ==
    Array(n * stride, LAMBDA x : X[Place(x % stride, stride, hadamard) * n + x \div stride + 1])

-----------------------------------------------------------------------------
(* The rotation of vq.go.                                                   *)

\* One pair x1, x2: the new x1 and the new x2.
Low(x1, x2, c, s) == (c * x1 - s * x2) % Prime
High(x1, x2, c, s) == (c * x2 + s * x1) % Prime

\* What is made of a finished x.
Made(x, Op(_)) == CHOOSE made \in {Op(y) : y \in {x}} : TRUE

\* FoldLeft of a long sequence, in rows of eight.
FoldRows(Op(_, _), base, seq) ==
    LET Row(r) == SubSeq(seq, 8 * r + 1, Min({8 * r + 8, Len(seq)}))
    IN FoldLeft(LAMBDA from, row : Made(from, LAMBDA x : FoldLeft(Op, x, Row(row))), base,
             [row \in 1..((Len(seq) + 7) \div 8) |-> row - 1])

\* expRotation1: pairs `stride` apart, upwards and back.
Rotate(X, stride, c, s) ==
    LET n == Len(X)
        Pair(Y, i) == [Y EXCEPT ![i] = Low(Y[i], Y[i + stride], c, s),
                                ![i + stride] = High(Y[i], Y[i + stride], c, s)]
    IN IF n > stride
       THEN FoldRows(Pair, X, [i \in 1..(n - stride) |-> i]
                              \o [i \in 1..(n - 2 * stride) |-> n - 2 * stride + 1 - i])
       ELSE X

\* expRotation1Stride1: the element the next pair shares is carried, not stored.
RotateNext(X, c, s) ==
    LET n == Len(X)
        Up(a, i) == [out |-> Append(a.out, Low(a.x, X[i + 1], c, s)), x |-> High(a.x, X[i + 1], c, s)]
        up == FoldRows(Up, [out |-> <<>>, x |-> X[1]], [i \in 1..(n - 1) |-> i])
        Back(Y) ==
            LET Down(a, i) == [out |-> <<High(Y[i], a.x, c, s)>> \o a.out, x |-> Low(Y[i], a.x, c, s)]
                down == FoldRows(Down, [out |-> SubSeq(Y, n, n), x |-> Y[n - 1]],
                                 [i \in 1..(n - 2) |-> n - 1 - i])
            IN <<down.x>> \o down.out
    IN IF n <= 1 THEN X ELSE Made(Append(up.out, up.x), Back)

\* The angle, which depends on the length, the pulses and the spread, and its complement.
ThetaCos == Cos(1234)
ThetaSin == Sin(1234)

\* stride2: about the root of the length of a block, if it is at least 8.
SecondStride(n, stride) ==
    IF n < 8 * stride THEN 0
    ELSE Min({t \in 1..n : (t * t + t) * stride + stride \div 4 >= n})

Blocked(X, stride, Op(_)) ==
    LET n == Len(X) \div stride
    IN FoldLeft(LAMBDA out, i : out \o Op(SubSeq(X, (i - 1) * n + 1, i * n)), <<>>,
                [i \in 1..stride |-> i]) \o SubSeq(X, stride * n + 1, Len(X))

\* expRotation of one block, towards the search and back.
SpreadBlock(block, second) ==
    Made(RotateNext(block, ThetaCos, Prime - ThetaSin),
         LAMBDA Y : IF second = 0 THEN Y ELSE Rotate(Y, second, ThetaSin, Prime - ThetaCos))
UnspreadBlock(block, second) ==
    Made(IF second = 0 THEN block ELSE Rotate(block, second, ThetaSin, ThetaCos),
         LAMBDA Y : RotateNext(Y, ThetaCos, ThetaSin))

\* One direction of expRotation for a leaf with B blocks; with few pulses only.
Rotated(X, B, k, spread, Op(_, _)) ==
    IF 2 * k >= Len(X) \/ ~spread THEN X
    ELSE LET second == SecondStride(Len(X), B)
         IN Blocked(X, B, LAMBDA block : Op(block, second))

-----------------------------------------------------------------------------
(* quantBand and quantPartition.                                            *)

\* B blocks of N coefficients in all, as they are coded: `at` is B0, `of` is N_B0.
Blocking(N, B, tf) ==
    LET t == Divisions(N \div B, tf)
    IN [joined |-> Recombinations(tf), divided |-> t, long |-> B = 1,
        at |-> (B \div 2^Recombinations(tf)) * 2^t, of |-> ((N \div B) * 2^Recombinations(tf)) \div 2^t]

\* Towards the search.
Reshape(X, bk) ==
    LET joined == FoldLeft(LAMBDA Y, k : Haar(Y, Len(X) \div 2^k, 2^k), X,
                           [i \in 1..bk.joined |-> i - 1])
        divided == FoldLeft(LAMBDA Y, k : Haar(Y, bk.of * 2^k, bk.at \div 2^k), joined,
                            [i \in 1..bk.divided |-> bk.divided + 1 - i])
    IN IF bk.at > 1
       THEN DeinterleaveHadamard(divided, bk.of \div 2^bk.joined, bk.at * 2^bk.joined, bk.long)
       ELSE divided

\* And back.
Restore(X, bk) ==
    LET ordered == IF bk.at > 1
                   THEN InterleaveHadamard(X, bk.of \div 2^bk.joined, bk.at * 2^bk.joined, bk.long)
                   ELSE X
        whole == FoldLeft(LAMBDA Y, k : Haar(Y, bk.of * 2^k, bk.at \div 2^k), ordered,
                          [i \in 1..bk.divided |-> i])
    IN FoldLeft(LAMBDA Y, k : Haar(Y, Len(X) \div 2^k, 2^k), whole,
                [i \in 1..bk.joined |-> i - 1])

\* The leaves of quantPartition, when a band of B blocks is halved `deep` times.
Leaves(X, deep, Op(_)) == Blocked(X, 2^deep, Op)
LeafBlocks(B, deep) == FoldLeft(LAMBDA b, k : (b + 1) \div 2, B, [k \in 1..deep |-> k])

-----------------------------------------------------------------------------

ShapeInit == shaped = [sent |-> <<>>, got |-> <<>>]

\* A band that is coded by the encoder (algQuant) and rebuilt, by it or by the decoder
\* (algUnquant).
ShapeBand(i, kind, tf, deep, k, spread) ==
    LET LM == kind[1]
        N == Width(i) * 2^LM
        bk == Blocking(N, ShortBlocks(kind), tf)
        B == LeafBlocks(bk.at, deep)
    IN /\ N > 1 /\ deep <= LM + 1 /\ (deep > 0 => N \div 2^(deep - 1) > 2)
       /\ \E X \in {Input(1, i, N)} :
          \E coded \in {Leaves(Reshape(X, bk), deep,
                             LAMBDA leaf : Rotated(leaf, B, k, spread, SpreadBlock))} :
             shaped' = [sent |-> X,
                        got |-> Restore(Leaves(coded, deep,
                                    LAMBDA leaf : Rotated(leaf, B, k, spread, UnspreadBlock)),
                                        bk)]

Changes(kind) ==
    {tfSelectTable[kind[1] + 1][IF kind[2] THEN 2 ELSE 1][j] : j \in 1..4}

ShapeNext ==
    /\ shaped.sent = <<>>
    /\ \E i \in ShapeBands, kind \in Kinds, deep \in 0..(MaxLM + 1), k \in Pulses, spread \in BOOLEAN :
       \E tf \in Changes(kind) : ShapeBand(i, kind, tf, deep, k, spread)

-----------------------------------------------------------------------------
(* Property.                                                                *)

\* A band comes back from its shape, whatever its width, its blocks and their change of
\* resolution, and however deep it is halved: the steps are undone in an order that is
\* not everywhere the reverse (haar1 of recombined blocks, the passes of expRotation1),
\* and the two ways to rotate are one.
BandsTransparent == shaped.got = shaped.sent

Transparent == FramesTransparent /\ BandsTransparent
=============================================================================
