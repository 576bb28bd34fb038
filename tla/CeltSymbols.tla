---------------------------- MODULE CeltSymbols ----------------------------
(***************************************************************************)
(* The symbols CELT makes of its values, as the interval the encoder gives *)
(* the range coder and what the decoder makes of a point of it: the pulse  *)
(* vector of a band (internal/celt/cwrs.go), a coarse energy (laplace.go)  *)
(* and the angle of a split (computeTheta of bands.go).  Each side has its *)
(* own arithmetic; a state is one value to be coded.                       *)
(***************************************************************************)
EXTENDS Integers, SequencesExt, FiniteSetsExt

CONSTANTS
    MaxN, MaxK,     \* dimensions and pulses of a vector
    Models,         \* <<fs, decay>>: probability of 0 and decay of an energy, as coded
    EnergyValues,       \* values of an energy
    Angles          \* qn: even, the finest angle

VARIABLE symbol     \* what is coded: [code |-> ...] and its value

Abs(v) == IF v < 0 THEN -v ELSE v

-----------------------------------------------------------------------------
(* Pulses: all vectors of n integers whose absolute values sum to k.        *)

\* Row n + 1 of U from row n: U(n,k) = U(n-1,k) + U(n,k-1) + U(n-1,k-1).
NextRow(row) ==
    FoldLeft(LAMBDA r, k : Append(r, row[k] + row[k - 1] + r[k - 1]), <<0>>,
             [k \in 1..(Len(row) - 1) |-> k + 1])

Extent == Max({MaxN, MaxK}) + 2

\* celtPVQUData, row n at n + 1: vectors of n whose first is not all of k, halved.
PVQU == FoldLeft(LAMBDA rows, n : Append(rows, NextRow(rows[n])),
                 << <<1>> \o [k \in 1..Extent |-> 0] >>, [n \in 1..Extent |-> n])

U(n, k) == PVQU[n + 1][k + 1]
V(n, k) == U(n, k) + U(n, k + 1)

\* icwrs: from the last dimension to the first.
Index(y) ==
    LET n == Len(y)
        Add(s, j) ==
            LET k == s.k + Abs(y[j])
            IN [k |-> k,
                i |-> s.i + U(n - j + 1, s.k) + (IF y[j] < 0 THEN U(n - j + 1, k + 1) ELSE 0)]
    IN FoldLeft(Add, [k |-> Abs(y[n]), i |-> IF y[n] < 0 THEN 1 ELSE 0],
                [m \in 1..(n - 1) |-> n - m]).i

\* One dimension of cwrsi: s.n dimensions and s.k pulses are left, s.i is the index
\* among them.  Its branches differ in which half of the symmetric table they walk.
Dimension(s) ==
    LET negative == s.i >= U(s.n, s.k + 1)
        i == IF negative THEN s.i - U(s.n, s.k + 1) ELSE s.i
        k == Max({m \in 0..s.k : U(s.n, m) <= i})
    IN [n |-> s.n - 1, k |-> k, i |-> i - U(s.n, k),
        y |-> Append(s.y, IF negative THEN k - s.k ELSE s.k - k)]

\* The last two dimensions, without the table.
LastTwo(s) ==
    LET negative == s.i >= 2 * s.k + 1
        i == IF negative THEN s.i - (2 * s.k + 1) ELSE s.i
        k == (i + 1) \div 2
        left == IF k # 0 THEN i - (2 * k - 1) ELSE i
    IN s.y \o <<IF negative THEN k - s.k ELSE s.k - k, IF left = 1 THEN -k ELSE k>>

\* cwrsi.
Vector(n, k, i) ==
    LastTwo(FoldLeft(LAMBDA s, d : Dimension(s), [n |-> n, k |-> k, i |-> i, y |-> <<>>],
                     [d \in 1..(n - 2) |-> d]))

-----------------------------------------------------------------------------
(* Coarse energy.                                                           *)

Guaranteed == 16
\* At the slowest decay of a model no walk is longer.
Steps == [i \in 1..24 |-> i]

GetFreq1(fs, decay) == ((32768 - 2 * Guaranteed - fs) * (16384 - decay)) \div 32768

\* The decaying part of the distribution, up to value a.
Walk(a, fs0, decay) ==
    FoldLeft(LAMBDA w, i :
                IF w.fs > 0 /\ w.i < a
                THEN [i |-> w.i + 1, fl |-> w.fl + 2 * w.fs + 2,
                      fs |-> (2 * w.fs * decay) \div 32768]
                ELSE w,
             [i |-> 1, fl |-> fs0, fs |-> GetFreq1(fs0, decay)], Steps)

\* Mutant of Flat: one more value than the tail has room for.
FlatOneMore(w, a, sign) ==
    LET most == (32768 - w.fl - sign) \div 2 + 1
        di == Min({a - w.i, most - 1})
        fl == w.fl + 2 * di + 1 + sign
    IN [value |-> w.i + di, fl |-> fl, fs |-> Min({1, 32768 - fl})]

\* Its flat tail, which ends: what is beyond is coded as the last value it has.
Flat(w, a, sign) ==
    LET most == (32768 - w.fl - sign) \div 2
        di == Min({a - w.i, most - 1})
        fl == w.fl + 2 * di + 1 + sign
    IN [value |-> w.i + di, fl |-> fl, fs |-> Min({1, 32768 - fl})]

\* ec_laplace_encode: the value it codes, and its interval of 32768.
LaplaceEncode(v, fs0, decay) ==
    LET sign == IF v < 0 THEN -1 ELSE 0
        w == Walk(Abs(v), fs0, decay)
        flat == Flat(w, Abs(v), sign)
    IN IF v = 0 THEN [value |-> 0, fl |-> 0, fs |-> fs0]
       ELSE IF w.fs = 0
       THEN [flat EXCEPT !.value = IF sign < 0 THEN -@ ELSE @]
       ELSE [value |-> v, fl |-> IF sign < 0 THEN w.fl ELSE w.fl + w.fs + 1, fs |-> w.fs + 1]

\* ec_laplace_decode of a point of that interval.
LaplaceDecode(fm, fs0, decay) ==
    LET w == FoldLeft(LAMBDA s, i :
                IF s.fs > 1 /\ fm >= s.fl + 2 * s.fs
                THEN [val |-> s.val + 1, fl |-> s.fl + 2 * s.fs,
                      fs |-> ((2 * s.fs - 2) * decay) \div 32768 + 1]
                ELSE s,
             [val |-> 1, fl |-> fs0, fs |-> GetFreq1(fs0, decay) + 1], Steps)
        di == IF w.fs <= 1 THEN (fm - w.fl) \div 2 ELSE 0
        fl == w.fl + 2 * di
    IN IF fm < fs0 THEN [value |-> 0, fl |-> 0, fh |-> fs0]
       ELSE IF fm < fl + w.fs
       THEN [value |-> -(w.val + di), fl |-> fl, fh |-> Min({fl + w.fs, 32768})]
       ELSE [value |-> w.val + di, fl |-> fl + w.fs, fh |-> Min({fl + 2 * w.fs, 32768})]

-----------------------------------------------------------------------------
(* Angles: x of 0..qn, steeper up to the middle for stereo, a triangle for  *)
(* a split in time.                                                         *)

StepTotal(qn) == 3 * (qn \div 2 + 1) + qn \div 2

StepInterval(qn, x) ==
    LET x0 == qn \div 2
    IN IF x <= x0 THEN [fl |-> 3 * x, fh |-> 3 * (x + 1)]
       ELSE [fl |-> (x - 1 - x0) + (x0 + 1) * 3, fh |-> (x - x0) + (x0 + 1) * 3]

StepAngle(qn, fm) ==
    LET x0 == qn \div 2
    IN IF fm < (x0 + 1) * 3 THEN fm \div 3 ELSE x0 + 1 + (fm - (x0 + 1) * 3)

TriangleTotal(qn) == (qn \div 2 + 1) * (qn \div 2 + 1)

TriangleInterval(qn, x) ==
    IF x <= qn \div 2
    THEN [fl |-> (x * (x + 1)) \div 2, fh |-> (x * (x + 1)) \div 2 + x + 1]
    ELSE LET fl == TriangleTotal(qn) - ((qn + 1 - x) * (qn + 2 - x)) \div 2
         IN [fl |-> fl, fh |-> fl + qn + 1 - x]

\* isqrt32, bit by bit from the highest the root can have; val > 0.
Isqrt32(val) ==
    LET top == Max({b \in 0..15 : 4^b <= val})
        Bit(r, b) ==
            LET t == (2 * r.g + 2^b) * 2^b
            IN IF t <= r.val THEN [g |-> r.g + 2^b, val |-> r.val - t] ELSE r
    IN FoldLeft(Bit, [g |-> 0, val |-> val], [m \in 1..(top + 1) |-> top + 1 - m]).g

TriangleAngle(qn, fm) ==
    LET half == qn \div 2
    IN IF fm < (half * (half + 1)) \div 2
       THEN (Isqrt32(8 * fm + 1) - 1) \div 2
       ELSE (2 * (qn + 1) - Isqrt32(8 * (TriangleTotal(qn) - fm - 1) + 1)) \div 2

-----------------------------------------------------------------------------

NoSymbol == [code |-> "none"]

SymbolInit == symbol = NoSymbol

CodePulses(n, k, i) ==
    /\ i < V(n, k)
    /\ symbol' = [code |-> "pulses", n |-> n, k |-> k, i |-> i]
CodeEnergy(m, v) == symbol' = [code |-> "energy", fs |-> m[1], decay |-> m[2], v |-> v]
CodeAngle(qn, x) == symbol' = [code |-> "angle", qn |-> qn, x |-> x]

SymbolNext ==
    /\ symbol = NoSymbol
    /\ \/ \E n \in 2..MaxN, k \in 1..MaxK : \E i \in 0..(V(n, k) - 1) : CodePulses(n, k, i)
       \/ \E m \in Models, v \in EnergyValues : CodeEnergy(m, v)
       \/ \E qn \in Angles : \E x \in 0..qn : CodeAngle(qn, x)

-----------------------------------------------------------------------------
(* Property.                                                                *)

PulsesRoundTrip(n, k, i) ==
    \E y \in {Vector(n, k, i)} :
       /\ Len(y) = n /\ FoldLeft(LAMBDA s, v : s + Abs(v), 0, y) = k
       /\ Index(y) = i

\* The interval is in range and not empty, and from its first and from its last point
\* the decoder finds it again, and the value the encoder says it coded.
EnergyRoundTrip(fs, decay, v) ==
    \E e \in {LaplaceEncode(v, fs, decay)} :
       /\ e.fs > 0 /\ e.fl + e.fs <= 32768
       /\ \A fm \in {e.fl, e.fl + e.fs - 1} :
             LaplaceDecode(fm, fs, decay) = [value |-> e.value, fl |-> e.fl, fh |-> e.fl + e.fs]

AngleRoundTrip(qn, x) ==
    /\ \A fm \in StepInterval(qn, x).fl..(StepInterval(qn, x).fh - 1) : StepAngle(qn, fm) = x
    /\ \A fm \in {TriangleInterval(qn, x).fl, TriangleInterval(qn, x).fh - 1} :
          TriangleAngle(qn, fm) = x
    /\ StepInterval(qn, qn).fh = StepTotal(qn)
    /\ TriangleInterval(qn, qn).fh = TriangleTotal(qn)

\* What the encoder codes the decoder reads: a vector of pulses is its index's vector
\* and has all its pulses; an energy, whatever the model of its band, comes back as
\* the value the encoder went on with, the tail's end included (value is an in/out
\* parameter of ecLaplaceEncode); an angle comes back from every point of its share.
SymbolsRoundTrip ==
    CASE symbol.code = "pulses" -> PulsesRoundTrip(symbol.n, symbol.k, symbol.i)
      [] symbol.code = "energy" -> EnergyRoundTrip(symbol.fs, symbol.decay, symbol.v)
      [] symbol.code = "angle" -> AngleRoundTrip(symbol.qn, symbol.x)
      [] OTHER -> TRUE
=============================================================================
