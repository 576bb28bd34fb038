--------------------------- MODULE CeltFrameProofs ---------------------------
(***************************************************************************)
(* Proofs about CeltFrame: encoder and decoder agree on every element of a *)
(* frame, and its bits suffice, for all kinds of frame, rates and buffers. *)
(***************************************************************************)
EXTENDS CeltFrame, TLAPS

-----------------------------------------------------------------------------
(* Numbers                                                                  *)

LEMMA MinOfTwo ==
    ASSUME NEW a \in Int, NEW b \in Int
    PROVE  Min({a, b}) = IF a <= b THEN a ELSE b
  <1>1. \E x \in {a, b} : \A y \in {a, b} : x =< y
    OBVIOUS
  <1>2. /\ Min({a, b}) \in {a, b}
        /\ Min({a, b}) <= a /\ Min({a, b}) <= b
    BY <1>1 DEF Min
  <1> QED
    BY <1>2

LEMMA MaxOfTwo ==
    ASSUME NEW a \in Int, NEW b \in Int
    PROVE  Max({a, b}) = IF a >= b THEN a ELSE b
  <1>1. \E x \in {a, b} : \A y \in {a, b} : x >= y
    OBVIOUS
  <1>2. /\ Max({a, b}) \in {a, b}
        /\ Max({a, b}) >= a /\ Max({a, b}) >= b
    BY <1>1 DEF Max
  <1> QED
    BY <1>2

\* Whole bits are the next eight eighths.
LEMMA WholeBitsFacts ==
    ASSUME NEW t \in Nat
    PROVE  /\ WholeBits(t) \in Nat /\ t <= WholeBits(t) /\ WholeBits(t) <= t + 7
  BY DEF WholeBits

LEMMA WholeBitsPlus ==
    ASSUME NEW t \in Nat, NEW n \in Nat
    PROVE  WholeBits(t + 8 * n) = WholeBits(t) + 8 * n
  BY DEF WholeBits

LEMMA WholeBitsUpTo ==
    ASSUME NEW t \in Nat, NEW n \in Nat
    PROVE  /\ t <= 8 * n => WholeBits(t) <= 8 * n
           /\ WholeBits(8 * n) = 8 * n
  BY DEF WholeBits

\* The powers of the sizes of a frame.
LEMMA Powers == 2^0 = 1 /\ 2^1 = 2 /\ 2^2 = 4 /\ 2^3 = 8
  OBVIOUS

\* A band has 1 to 22 coefficients of the shortest frame.
LEMMA Widths == \A j \in 0..(BandCount - 1) : Width(j) \in 1..22
  BY DEF Width, Edge, eBands, BandCount

LEMMA QuantaFacts ==
    ASSUME kind \in Kinds, band \in Nat, band < kind.end
    PROVE  Quanta \in 8..352
  <1> DEFINE width == kind.C * Width(band) * 2^kind.LM
  <1>1. kind.C \in {1, 2} /\ kind.LM \in {0, 1, 2, 3} /\ band \in 0..(BandCount - 1)
    BY FrameAssumption DEF MaxLM, BandCount
  <1>2. Width(band) \in 1..22
    BY <1>1, Widths
  <1>3. 2^kind.LM \in {1, 2, 4, 8}
    BY <1>1, Powers
  <1>4. width \in 1..352
    <2>1. ASSUME NEW C \in {1, 2}, NEW w \in 1..22, NEW p \in {1, 2, 4, 8}
          PROVE  C * w * p \in 1..352
      BY <2>1
    <2> QED
      BY <1>1, <1>2, <1>3, <2>1
  <1> HIDE DEF width
  <1>5. Max({48, width}) = IF 48 >= width THEN 48 ELSE width
    BY <1>4, MaxOfTwo
  <1>6. Min({8 * width, Max({48, width})}) =
           IF 8 * width <= Max({48, width}) THEN 8 * width ELSE Max({48, width})
    BY <1>4, <1>5, MinOfTwo
  <1>7. Min({8 * width, Max({48, width})}) \in 8..352
    BY <1>4, <1>5, <1>6
  <1> QED
    BY <1>7 DEF Quanta, width

LEMMA CapFacts ==
    ASSUME NEW k \in Kinds
    PROVE  FrameCap(k) \in 159..1275
  <1>1. k.LM \in {0, 1, 2, 3}
    BY FrameAssumption DEF MaxLM
  <1>2. 2^(3 - k.LM) \in {1, 2, 4, 8}
    <2>1. 3 - k.LM \in {0, 1, 2, 3}
      BY <1>1
    <2> QED
      BY <2>1, Powers
  <1>3. ASSUME NEW p \in {1, 2, 4, 8}
        PROVE  1275 \div p \in 159..1275
    <2>1. 1275 \div 1 = 1275 /\ 1275 \div 2 = 637 /\ 1275 \div 4 = 318 /\ 1275 \div 8 = 159
      OBVIOUS
    <2> QED
      BY <1>3, <2>1
  <1> DEFINE p == 2^(3 - k.LM)
  <1>4. FrameCap(k) = 1275 \div p
    BY DEF FrameCap
  <1>5. p \in {1, 2, 4, 8}
    BY <1>2
  <1> HIDE DEF p
  <1> QED
    BY <1>3, <1>4, <1>5

LEMMA CostFacts ==
    ASSUME NEW logp \in 1..6, NEW bit \in {0, 1}
    PROVE  /\ Cost(logp, bit) \in Nat /\ Cost(logp, bit) <= 8 * logp
           /\ \E n \in 0..logp : Cost(logp, bit) = 8 * n
           /\ Cost(logp, 1) = 8 * logp /\ (logp >= 2 => Cost(logp, 0) = 0)
  <1>1. Cost(logp, bit) \in {0, 8 * logp}
    BY DEF Cost
  <1>2. \E n \in 0..logp : Cost(logp, bit) = 8 * n
    BY <1>1
  <1> QED
    BY <1>1, <1>2 DEF Cost

-----------------------------------------------------------------------------
(* Agreement on an element                                                  *)

\* Where both coders judge alike, what the decoder needs stays within the frame and no
\* length of it is refused.
LEMMA Asked ==
    ASSUME needs \in Nat, bytes \in Nat, needs <= Room, NEW coded \in BOOLEAN, NEW n \in Nat,
           DecoderAsks(coded, n), coded => n <= Room, ~coded => n > Room
    PROVE  /\ needs' \in Nat /\ needs' <= Room /\ needs' \in {needs, n}
           /\ refuses' = refuses /\ (~coded => needs' = needs)
  <1>1. CASE coded
    <2>1. needs' = Needed(n) /\ refuses' = refuses
      BY <1>1 DEF DecoderAsks
    <2>2. Needed(n) \in {needs, n}
      BY MaxOfTwo DEF Needed
    <2> QED
      BY <1>1, <2>1, <2>2
  <1>2. CASE ~coded
    <2>1. refuses' = RefusedAt(n) /\ needs' = needs
      BY <1>2 DEF DecoderAsks
    <2>2. ~(n <= Room)
      BY <1>2 DEF Room
    <2> QED
      BY <1>2, <2>1, <2>2 DEF RefusedAt
  <1> QED
    BY <1>1, <1>2

-----------------------------------------------------------------------------
(* The invariant, action by action                                          *)

\* What is common to the elements of a frame: the frame and the reservoir stay.
LEMMA FrameStays ==
    ASSUME FrameInv, at \notin {"idle", "bands", "done"}, UNCHANGED <<kind, bytes, reservoir, overspent>>
    PROVE  /\ ReservoirHolds' /\ Room' = Room /\ Room \in Nat
           /\ kind' \in Kinds /\ bytes' \in 2..1275 /\ reservoir' \in Nat /\ overspent' \in Int
           /\ kind.C \in 1..2 /\ kind.LM \in 0..3 /\ kind.end \in 1..21
  <1>1. ReservoirHolds' /\ Room' = Room /\ Room \in Nat
    BY DEF FrameInv, ReservoirHolds, Room, FrameTyped, Ended
  <1>2. kind \in Kinds /\ bytes \in 2..1275 /\ reservoir \in Nat /\ overspent \in Int
    BY DEF FrameInv, FrameTyped
  <1>3. kind.C \in 1..2 /\ kind.LM \in 0..3 /\ kind.end \in 1..21
    BY <1>2, FrameAssumption DEF MaxLM, BandCount
  <1> QED
    BY <1>1, <1>2, <1>3

\* A whole number of bits fits if it does in eighths.
LEMMA RoomFacts ==
    bytes \in 2..1275 => Room \in Nat /\ Room >= 128 /\ Room = 8 * (8 * bytes) /\ Room < Never
  <1> SUFFICES ASSUME bytes \in 2..1275
               PROVE  Room \in Nat /\ Room >= 128 /\ Room = 8 * (8 * bytes) /\ Room < Never
    OBVIOUS
  <1>1. Never \in Nat /\ Never > 100000
    BY SMT DEF Never
  <1>2. Room \in Nat /\ Room >= 128 /\ Room = 8 * (8 * bytes) /\ Room < 100000
    BY SMT DEF Room
  <1> QED
    BY <1>1, <1>2, SMT

LEMMA TellFits ==
    ASSUME FrameTyped
    PROVE  /\ Tell \in Nat /\ tell <= Tell /\ Tell <= tell + 7
           /\ tell <= Room => Tell <= Room
           /\ WholeBits(Room) = Room
           /\ \A m \in Nat : WholeBits(tell + 8 * m) = Tell + 8 * m
  <1>1. tell \in Nat /\ bytes \in 2..1275 /\ 8 * bytes \in Nat
    BY DEF FrameTyped
  <1>2. Room = 8 * (8 * bytes)
    BY <1>1, RoomFacts
  <1>3. /\ tell <= 8 * (8 * bytes) => WholeBits(tell) <= 8 * (8 * bytes)
        /\ WholeBits(8 * (8 * bytes)) = 8 * (8 * bytes)
    <2> DEFINE m == 8 * bytes
    <2>1. m \in Nat
      BY <1>1
    <2> HIDE DEF m
    <2>2. (tell <= 8 * m => WholeBits(tell) <= 8 * m) /\ WholeBits(8 * m) = 8 * m
      BY <1>1, <2>1, WholeBitsUpTo
    <2> QED
      BY <2>2 DEF m
  <1>4. /\ tell <= Room => WholeBits(tell) <= Room
        /\ WholeBits(Room) = Room
    BY <1>2, <1>3
  <1>5. WholeBits(tell) \in Nat /\ tell <= WholeBits(tell) /\ WholeBits(tell) <= tell + 7
    BY <1>1, WholeBitsFacts
  <1>6. \A m \in Nat : WholeBits(tell + 8 * m) = WholeBits(tell) + 8 * m
    BY <1>1, WholeBitsPlus
  <1> QED
    BY <1>4, <1>5, <1>6 DEF Tell

LEMMA FrameInitHolds == FrameInit => FrameInv
  <1> SUFFICES ASSUME FrameInit PROVE FrameInv
    OBVIOUS
  <1>1. /\ at = "idle" /\ kind.vbr = "cbr" /\ bytes = 2 /\ tell = 8 /\ seen = 8 /\ band = 0
        /\ channel = 1 /\ needs = 0 /\ refuses = Never /\ reservoir = 0 /\ overspent = 0
        /\ flags = NoFlags /\ boost = NoBoost
    BY DEF FrameInit
  <1>2. FrameTyped
    BY <1>1, FrameAssumption DEF FrameTyped, NoFlags, NoBoost, Never
  <1>3. SeenAgrees /\ RoomHolds
    BY <1>1, RoomFacts DEF SeenAgrees, RoomHolds
  <1>4. VariableHolds
    BY <1>1 DEF VariableHolds, Ended
  <1>5. ReservoirHolds
    BY <1>1, FrameAssumption DEF ReservoirHolds, Ended
  <1> QED
    BY <1>2, <1>3, <1>4, <1>5 DEF FrameInv

LEMMA StartFrameHolds ==
    ASSUME FrameInv, NEW k \in Kinds, NEW n \in Buffers, StartFrame(k, n)
    PROVE  FrameInv'
  <1> DEFINE given == Min({n, 1275})
  <1>1. n \in Nat /\ n >= 2 /\ reservoir \in Nat /\ overspent \in Int /\ overspent <= reservoir
    BY FrameAssumption DEF FrameInv, FrameTyped, ReservoirHolds
  <1>2. given \in 2..1275
    <2>1. Min({n, 1275}) = IF n <= 1275 THEN n ELSE 1275
      BY <1>1, MinOfTwo
    <2> QED
      BY <1>1, <2>1
  <1> HIDE DEF given
  <1>3. /\ at' = "silence" /\ kind' = k /\ tell' = 8 /\ seen' = 8 /\ band' = 0 /\ channel' = 1
        /\ flags' = NoFlags /\ boost' = NoBoost /\ needs' = 9 /\ refuses' = Never
        /\ reservoir' = reservoir /\ overspent' = overspent
        /\ bytes' = IF k.vbr = "cvbr" THEN MaxAllowed(k, given) ELSE given
    BY DEF StartFrame, given
  <1>4. k.vbr = "cvbr" => /\ MaxAllowed(k, given) \in 2..1275
                          /\ 64 * MaxAllowed(k, given) <= Max({128, 2 * k.rate - reservoir})
    <2> SUFFICES ASSUME k.vbr = "cvbr"
                 PROVE  /\ MaxAllowed(k, given) \in 2..1275
                        /\ 64 * MaxAllowed(k, given) <= Max({128, 2 * k.rate - reservoir})
      OBVIOUS
    <2> DEFINE left == 2 * k.rate - reservoir
    <2>1. left \in Int
      BY <1>1, FrameAssumption
    <2> HIDE DEF left
    <2>2. left \div 64 \in Int /\ 64 * (left \div 64) <= left
      BY <2>1
    <2>3. Max({2, left \div 64}) = IF 2 >= left \div 64 THEN 2 ELSE left \div 64
      BY <2>2, MaxOfTwo
    <2> DEFINE most == Max({2, left \div 64})
               allowed == Min({most, given})
    <2>4. most \in Int /\ most >= 2 /\ (most = 2 \/ most = left \div 64)
      BY <2>2, <2>3
    <2> HIDE DEF most
    <2>5. allowed = IF most <= given THEN most ELSE given
      BY <2>4, <1>2, MinOfTwo
    <2>6. Max({128, left}) = IF 128 >= left THEN 128 ELSE left
      BY <2>1, MaxOfTwo
    <2> HIDE DEF allowed
    <2>7. allowed \in 2..1275 /\ allowed <= most
      BY <2>4, <2>5, <1>2
    <2>8. 64 * allowed <= Max({128, left})
      BY <2>1, <2>2, <2>4, <2>6, <2>7
    <2>9. MaxAllowed(k, given) = allowed
      BY DEF MaxAllowed, left, most, allowed
    <2> QED
      BY <2>7, <2>8, <2>9 DEF left
  <1>5. bytes' \in 2..1275
    BY <1>2, <1>3, <1>4
  <1>6. k.C \in 1..2 /\ k.end \in 1..21
    BY FrameAssumption DEF BandCount
  <1>7. FrameTyped'
    <2>1. flags' \in [silence : BOOLEAN, transient : {0, 1}, logp : {0, 2, 4, 5},
                      reserve : {0, 8}, curr : {0, 1}, changed : {0, 1}]
      BY <1>3 DEF NoFlags
    <2>2. boost' \in [total : Nat, here : Nat, cost : 1..6, first : 2..6]
          /\ boost'.here = 0 /\ boost'.cost = 6 /\ boost'.total = 0
      BY <1>3 DEF NoBoost
    <2> QED
      BY <1>1, <1>3, <1>5, <1>6, <2>1, <2>2, FrameAssumption DEF FrameTyped, Never
  <1>8. SeenAgrees' /\ RoomHolds'
    <2>1. Room' \in Nat /\ Room' >= 128 /\ Room' < Never
      <3>1. (bytes \in 2..1275 => /\ Room \in Nat /\ Room >= 128
                                  /\ Room = 8 * (8 * bytes) /\ Room < Never)'
        BY RoomFacts, PTL
      <3> QED
        BY <1>5, <3>1
    <2> QED
      BY <1>3, <2>1 DEF SeenAgrees, RoomHolds
  <1>9. VariableHolds'
    BY <1>3 DEF VariableHolds, Ended, SoFar, NoFlags, NoBoost
  <1>10. ReservoirHolds'
    BY <1>1, <1>3, <1>4 DEF ReservoirHolds, FrameInv
  <1> QED
    BY <1>7, <1>8, <1>9, <1>10 DEF FrameInv

LEMMA SilenceHolds ==
    ASSUME FrameInv, NEW s \in BOOLEAN, Silence(s)
    PROVE  FrameInv'
  <1>1. /\ at = "silence" /\ tell = 8 /\ seen = 8 /\ bytes \in 2..1275 /\ boost.total = 0
        /\ boost.here = 0 /\ needs \in Nat /\ refuses \in Nat /\ needs <= Room /\ Room < refuses
        /\ reservoir \in Nat /\ kind \in Kinds
        /\ (kind.vbr # "cbr" => needs <= 8 + boost.total + 128)
    BY DEF Silence, FrameInv, FrameTyped, SeenAgrees, RoomHolds, VariableHolds, Ended
  <1>2. /\ at' = "postfilter" /\ UNCHANGED <<kind, band, channel, boost, reservoir, overspent>>
        /\ flags' = [flags EXCEPT !.silence = s]
        /\ bytes' = IF s /\ kind.vbr # "cbr" THEN Min({bytes, 2}) ELSE bytes
        /\ tell' = IF s THEN 64 * bytes' ELSE tell + 1
        /\ seen' = IF s THEN tell' ELSE seen
        /\ needs' = IF s THEN tell' ELSE needs
        /\ refuses' = IF s THEN tell' + 1 ELSE refuses
    BY DEF Silence
  <1>3. /\ flags' \in [silence : BOOLEAN, transient : {0, 1}, logp : {0, 2, 4, 5},
                       reserve : {0, 8}, curr : {0, 1}, changed : {0, 1}]
        /\ flags'.silence = s
    <2>1. flags \in [silence : BOOLEAN, transient : {0, 1}, logp : {0, 2, 4, 5},
                     reserve : {0, 8}, curr : {0, 1}, changed : {0, 1}]
      BY DEF FrameInv, FrameTyped
    <2> QED
      BY <1>2, <2>1
  <1>4. bytes' = IF s /\ kind.vbr # "cbr" THEN 2 ELSE bytes
    <2>1. Min({bytes, 2}) = 2
      <3>1. Min({bytes, 2}) = IF bytes <= 2 THEN bytes ELSE 2
        BY <1>1, MinOfTwo
      <3> QED
        BY <1>1, <3>1
    <2> QED
      BY <1>2, <2>1
  <1>5. Room = 64 * bytes /\ Room' = 64 * bytes' /\ bytes' \in 2..1275 /\ Room \in Nat
        /\ Room' \in Nat
    BY <1>1, <1>4 DEF Room
  <1>6. s => tell' = Room' /\ seen' = Room' /\ needs' = Room' /\ refuses' = Room' + 1
    BY <1>2, <1>5
  <1>7. ~s => /\ tell' = 9 /\ seen' = 8 /\ needs' = needs /\ refuses' = refuses
              /\ Room' = Room /\ bytes' = bytes
    BY <1>1, <1>2, <1>4, <1>5
  <1>8. FrameTyped'
    <2>1. /\ band \in Nat /\ channel \in 1..2 /\ kind \in Kinds /\ band < kind.end
          /\ channel <= kind.C /\ overspent \in Int
          /\ boost \in [total : Nat, here : Nat, cost : 1..6, first : 2..6]
          /\ (IF boost.here = 0 THEN boost.cost >= 2 ELSE boost.cost = 1)
          /\ boost.total <= 48 * MaxBoosts + 352
      BY <1>1 DEF FrameInv, FrameTyped
    <2>2. tell' \in Nat /\ seen' \in Nat /\ needs' \in Nat /\ refuses' \in Nat
      <3>1. CASE s
        <4>1. PICK b \in 2..1275 : bytes' = b
          BY <1>5, SMT
        <4>2. /\ tell' = 64 * b /\ seen' = 64 * b /\ needs' = 64 * b
              /\ refuses' = 64 * b + 1
          BY <1>2, <3>1, <4>1, SMT
        <4> QED
          BY <4>2, SMT
      <3>2. CASE ~s
        BY <1>1, <1>7, <3>2
      <3> QED
        BY <3>1, <3>2
    <2>3. bytes' \in 2..1275 /\ reservoir' \in Nat
      BY <1>1, <1>2, <1>5
    <2>4. /\ at' # "idle" /\ at' # "shrink"
          /\ UNCHANGED <<kind, band, channel, boost, overspent>>
      BY <1>2
    <2> QED
      BY <1>3, <2>1, <2>2, <2>3, <2>4 DEF FrameTyped
  <1>9. SeenAgrees'
    BY <1>2, <1>3, <1>6, <1>7 DEF SeenAgrees
  <1>10. RoomHolds'
    BY <1>1, <1>2, <1>5, <1>6, <1>7 DEF RoomHolds
  <1>11. VariableHolds'
    <2>1. boost' = boost /\ kind' = kind /\ SoFar' = 128
      BY <1>2 DEF SoFar
    <2>2. kind.vbr # "cbr" /\ s => bytes' = 2 /\ tell' = 128 /\ needs' = 128
      BY <1>4, <1>5, <1>6
    <2>3. kind.vbr # "cbr" /\ ~s => tell' = 9 /\ needs' <= 136
      BY <1>1, <1>7
    <2>4. kind.vbr # "cbr" => tell' <= 128 /\ needs' <= tell' + 128
      <3>1. CASE s
        BY <2>2, <3>1
      <3>2. CASE ~s
        BY <1>1, <1>7, <2>3, <3>2
      <3> QED
        BY <3>1, <3>2
    <2>5. kind.vbr # "cbr" /\ flags'.silence => bytes' = 2
      BY <1>3, <2>2
    <2>6. tell' \in Nat
      BY <1>8 DEF FrameTyped
    <2>7. kind.vbr # "cbr" => /\ tell' <= SoFar' + boost'.total
                              /\ needs' <= tell' + boost'.total + 128
      BY <1>1, <2>1, <2>4, <2>6
    <2> QED
      BY <1>1, <2>1, <2>5, <2>7 DEF VariableHolds
  <1>12. ReservoirHolds'
    <2>1. /\ \A k \in Kinds : k.vbr = "cvbr" => reservoir <= k.rate
          /\ overspent <= reservoir
          /\ kind.vbr = "cvbr" => 64 * bytes <= Max({128, 2 * kind.rate - reservoir})
      BY <1>1 DEF FrameInv, ReservoirHolds, Ended
    <2>2. bytes' <= bytes /\ kind.rate \in Nat
      BY <1>1, <1>4, FrameAssumption
    <2>3. Max({128, 2 * kind.rate - reservoir}) \in Int
      BY <1>1, <2>2, MaxOfTwo
    <2>4. kind.vbr = "cvbr" => 64 * bytes' <= Max({128, 2 * kind.rate - reservoir})
      BY <1>1, <1>5, <2>1, <2>2, <2>3
    <2> QED
      BY <1>2, <2>1, <2>4 DEF ReservoirHolds
  <1> QED
    BY <1>8, <1>9, <1>10, <1>11, <1>12 DEF FrameInv

\* What the elements up to the boosts have to show.
Flags == [silence : BOOLEAN, transient : {0, 1}, logp : {0, 2, 4, 5}, reserve : {0, 8},
          curr : {0, 1}, changed : {0, 1}]
Early == {"postfilter", "transient", "intra", "coarse", "tf", "tf_band", "tf_select", "spread"}
Later == {"transient", "intra", "coarse", "tf", "tf_band", "tf_select", "spread", "boost"}

LEMMA EarlyFacts ==
    ASSUME FrameInv, at \in Early
    PROVE  /\ boost.total = 0 /\ boost.here = 0 /\ needs \in Nat /\ needs <= Room
           /\ tell \in Nat /\ tell <= Room /\ Tell <= Room /\ seen \in Nat /\ refuses \in Nat
           /\ Tell \in Nat /\ tell <= Tell /\ Tell <= tell + 7 /\ Room \in Nat /\ bytes \in 2..1275
           /\ flags \in Flags /\ kind \in Kinds /\ Room = 64 * bytes
           /\ band \in Nat /\ channel \in 1..2 /\ band < kind.end /\ channel <= kind.C
           /\ kind.C \in 1..2 /\ kind.end \in 1..21 /\ kind.LM \in 0..3
           /\ kind.vbr # "cbr" => tell <= SoFar + boost.total /\ needs <= tell + boost.total + 128
  <1>1. FrameTyped /\ at # "idle" /\ at \notin {"boost", "trim", "shrink"} \cup Ended
    BY DEF FrameInv, Early, Ended
  <1>2. /\ needs \in Nat /\ tell \in Nat /\ seen \in Nat /\ refuses \in Nat /\ flags \in Flags
        /\ bytes \in 2..1275 /\ kind \in Kinds
        /\ band \in Nat /\ channel \in 1..2 /\ band < kind.end /\ channel <= kind.C
    BY <1>1 DEF FrameTyped, Flags
  <1>3. boost.total = 0 /\ boost.here = 0
    BY <1>1 DEF FrameInv, VariableHolds
  <1>4. needs <= Room /\ tell <= Room
    BY DEF FrameInv, RoomHolds
  <1>5. Tell <= Room /\ Tell \in Nat /\ tell <= Tell /\ Tell <= tell + 7
    BY <1>1, <1>4, TellFits
  <1>6. kind.vbr # "cbr" => tell <= SoFar + boost.total /\ needs <= tell + boost.total + 128
    BY <1>1 DEF FrameInv, VariableHolds
  <1>7. Room \in Nat /\ Room = 64 * bytes
    BY <1>2, RoomFacts DEF Room
  <1>8. kind.C \in 1..2 /\ kind.end \in 1..21 /\ kind.LM \in 0..3
    BY <1>2, FrameAssumption DEF BandCount, MaxLM
  <1> QED
    BY <1>2, <1>3, <1>4, <1>5, <1>6, <1>7, <1>8, SMT

LEMMA EarlyElement ==
    ASSUME FrameInv, at \in Early, at' \in Later,
           UNCHANGED <<kind, bytes, boost, reservoir, overspent, refuses>>,
           NEW t \in Nat, tell' = t, t <= Room, seen' \in Nat,
           NEW n \in Nat, needs' = n, n <= Room,
           band' \in Nat, band' < kind.end, channel' \in 1..2, channel' <= kind.C,
           flags' \in Flags, flags'.silence = flags.silence,
           NEW m \in Nat, SoFar' = m,
           kind.vbr # "cbr" => t <= m /\ n <= t + 128,
           at' \in {"transient", "intra"} =>
              (seen' = Tell' \/ (seen' = 8 /\ tell' = 9 /\ bytes = 2)),
           at' \in {"tf_band", "tf_select"} => Tell' + flags'.reserve <= Room,
           at' = "tf_band" => flags'.logp # 0
    PROVE  FrameInv'
  <1>1. at \notin {"idle", "bands", "done"} /\ at # "idle" /\ at \notin Ended
    BY DEF Early, Ended
  <1>2. /\ ReservoirHolds' /\ Room' = Room
        /\ bytes' \in 2..1275 /\ reservoir' \in Nat /\ overspent' \in Int
    BY <1>1, FrameStays
  <1>3. FrameTyped'
    <2>1. /\ refuses \in Nat /\ kind \in Kinds
          /\ boost \in [total : Nat, here : Nat, cost : 1..6, first : 2..6]
          /\ (IF boost.here = 0 THEN boost.cost >= 2 ELSE boost.cost = 1)
          /\ boost.total <= 48 * MaxBoosts + 352
      BY <1>1 DEF FrameInv, FrameTyped
    <2>2. at' # "idle" /\ at' # "shrink"
      BY DEF Later
    <2> QED
      BY <1>2, <2>1, <2>2 DEF FrameTyped, Flags
  <1>4. SeenAgrees'
    <2>1. at' # "silence" /\ at' # "postfilter"
      BY DEF Later
    <2> QED
      BY <2>1 DEF SeenAgrees
  <1>5. RoomHolds'
    <2>1. Room < refuses
      BY DEF FrameInv, RoomHolds
    <2> QED
      BY <1>2, <2>1 DEF RoomHolds
  <1>6. VariableHolds'
    <2>1. boost' = boost /\ boost.total = 0 /\ boost.here = 0
      BY EarlyFacts
    <2>2. kind.vbr # "cbr" /\ flags.silence => bytes = 2
      BY <1>1 DEF FrameInv, VariableHolds, Ended
    <2>3. kind.vbr # "cbr" => tell' <= SoFar' + boost'.total /\ needs' <= tell' + boost'.total + 128
      <3>1. kind.vbr # "cbr" => t <= m + 0 /\ n <= t + 0 + 128
        OBVIOUS
      <3> QED
        BY <2>1, <3>1, Zenon
    <2> QED
      BY <2>1, <2>2, <2>3 DEF VariableHolds
  <1> QED
    BY <1>2, <1>3, <1>4, <1>5, <1>6 DEF FrameInv

LEMMA PostfilterHolds ==
    ASSUME FrameInv, NEW on \in BOOLEAN, NEW cost \in {0, 8, 88, 128}, Postfilter(on, cost)
    PROVE  FrameInv'
  <1> DEFINE first == IF flags.silence THEN tell ELSE 8
             coded == first + 128 <= Room
             enabled == coded /\ ~flags.silence /\ bytes > 12 * kind.C
             n == IF on THEN Max({seen + 128, WholeBits(tell + cost) + 16} ) ELSE seen + 128
             t == tell + cost + (IF on THEN 16 ELSE 0)
  <1>1. /\ at = "postfilter" /\ at' = "transient"
        /\ UNCHANGED <<kind, band, channel, bytes, flags, boost, reservoir, overspent>>
        /\ on => enabled
        /\ cost \in IF on THEN {88, 128} ELSE {IF coded THEN 8 ELSE 0}
        /\ tell' = t /\ DecoderAsks(coded, n)
        /\ seen' = IF coded THEN WholeBits(tell') ELSE seen
    BY DEF Postfilter
  <1>2. /\ at \in Early /\ at' \in Later
        /\ needs \in Nat /\ needs <= Room /\ tell \in Nat /\ tell <= Room /\ seen \in Nat
        /\ Tell <= Room /\ bytes \in 2..1275 /\ kind.C \in 1..2 /\ Room = 64 * bytes /\ flags \in Flags
        /\ band \in Nat /\ channel \in 1..2 /\ band < kind.end /\ channel <= kind.C
    <2>1. at \in Early /\ at' \in Later
      BY <1>1 DEF Early, Later
    <2> QED
      BY <2>1, EarlyFacts
  <1>3. kind.vbr # "cbr" => tell <= 128 /\ needs <= tell + 128
    <2>1. SoFar = 128 /\ boost.total = 0
      BY <1>1, <1>2, EarlyFacts DEF SoFar
    <2>2. kind.vbr # "cbr" => tell <= SoFar + boost.total /\ needs <= tell + boost.total + 128
      BY <1>2, EarlyFacts
    <2> QED
      BY <1>2, <2>1, <2>2
  <1>4. IF flags.silence THEN tell = Room /\ seen = tell ELSE tell = 9 /\ seen = 8
    BY <1>1 DEF FrameInv, SeenAgrees
  <1>5. /\ t \in Nat /\ t <= Room /\ n \in Nat /\ (coded => n <= Room) /\ (~coded => n > Room)
        /\ (kind.vbr # "cbr" => t <= 272 /\ (coded => n <= t + 128))
        /\ tell <= t
        /\ ~coded => t = tell
        /\ ~coded /\ ~flags.silence => bytes = 2
    <2>1. CASE flags.silence
      <3>1. ~coded /\ ~on /\ tell = Room /\ seen = Room
        BY <1>1, <1>2, <1>4, <2>1
      <3>2. cost = 0 /\ t = tell /\ n = Room + 128
        BY <1>1, <1>2, <3>1
      <3> QED
        BY <1>2, <1>3, <2>1, <3>1, <3>2
    <2>2. CASE ~flags.silence /\ on
      <3>1. bytes >= 13 /\ tell = 9 /\ seen = 8 /\ cost \in {88, 128} /\ coded
        BY <1>1, <1>2, <1>4, <2>2
      <3>2. WholeBits(97) = 104 /\ WholeBits(137) = 144
        BY DEF WholeBits
      <3>3. Max({136, 120}) = 136 /\ Max({136, 160}) = 160
        BY MaxOfTwo
      <3>4. seen + 128 = 136 /\ n = Max({seen + 128, WholeBits(tell + cost) + 16})
        BY <2>2, <3>1
      <3>5. CASE cost = 88
        <4>1. tell + cost = 97
          BY <3>1, <3>5
        <4>2. WholeBits(tell + cost) + 16 = 120
          BY <4>1, <3>2
        <4>3. n = 136 /\ t = 113
          BY <2>2, <3>3, <3>4, <3>5, <4>1, <4>2
        <4> QED
          BY <1>2, <3>1, <4>3
      <3>6. CASE cost = 128
        <4>1. tell + cost = 137
          BY <3>1, <3>6
        <4>2. WholeBits(tell + cost) + 16 = 160
          BY <4>1, <3>2
        <4>3. n = 160 /\ t = 153
          BY <2>2, <3>3, <3>4, <3>6, <4>1, <4>2
        <4> QED
          BY <1>2, <3>1, <4>3
      <3> QED
        BY <3>1, <3>5, <3>6
    <2>3. CASE ~flags.silence /\ ~on
      <3>1. tell = 9 /\ seen = 8 /\ n = 136 /\ first = 8 /\ (coded <=> 136 <= Room)
        BY <1>4, <2>3
      <3>2. cost = (IF coded THEN 8 ELSE 0) /\ t = 9 + cost
        BY <1>1, <2>3, <3>1
      <3> QED
        BY <1>2, <2>3, <3>1, <3>2
    <2> QED
      BY <2>1, <2>2, <2>3
  <1>6. needs' \in Nat /\ needs' <= Room /\ needs' \in {needs, n} /\ refuses' = refuses
        /\ (~coded => needs' = needs)
    <2> HIDE DEF coded, n, t
    <2>1. coded \in BOOLEAN
      BY DEF coded
    <2> QED
      BY <1>1, <1>2, <1>5, <2>1, Asked
  <1> HIDE DEF coded, n, t, first, enabled
  <1>7. kind.vbr # "cbr" => t <= 272 /\ needs' <= t + 128
    <2>1. CASE kind.vbr # "cbr" /\ coded
      <3>1. t <= 272 /\ n <= t + 128 /\ needs <= t + 128
        BY <1>2, <1>3, <1>5, <2>1
      <3> QED
        BY <1>6, <3>1
    <2>2. CASE kind.vbr # "cbr" /\ ~coded
      <3>1. t <= 272 /\ needs <= t + 128 /\ needs' = needs
        BY <1>2, <1>3, <1>5, <1>6, <2>2
      <3> QED
        BY <3>1, Zenon
    <2> QED
      BY <2>1, <2>2
  <1>8. seen' = Tell' \/ (seen' = 8 /\ tell' = 9 /\ bytes = 2)
    <2>1. CASE coded
      BY <1>1, <2>1 DEF Tell
    <2>2. CASE ~coded /\ flags.silence
      <3>1. t = Room /\ seen = Room /\ WholeBits(Room) = Room
        BY <1>4, <1>5, <2>2, TellFits DEF FrameInv
      <3> QED
        BY <1>1, <2>2, <3>1 DEF Tell
    <2>3. CASE ~coded /\ ~flags.silence
      BY <1>1, <1>4, <1>5, <2>3
    <2> QED
      BY <2>1, <2>2, <2>3
  <1>9. seen' \in Nat
    <2>1. WholeBits(t) \in Nat
      BY <1>5, WholeBitsFacts
    <2> QED
      BY <1>1, <1>2, <2>1
  <1>10. /\ SoFar' = 272 /\ at' \notin {"tf_band", "tf_select"} /\ band' \in Nat
         /\ band' < kind.end /\ channel' \in 1..2 /\ channel' <= kind.C
         /\ flags' \in Flags /\ flags'.silence = flags.silence
    BY <1>1, <1>2 DEF SoFar
  <1> QED
    BY <1>1, <1>2, <1>5, <1>6, <1>7, <1>8, <1>9, <1>10, EarlyElement

LEMMA TransientHolds ==
    ASSUME FrameInv, NEW bit \in {0, 1}, Transient(bit)
    PROVE  FrameInv'
  <1> DEFINE coded == kind.LM > 0 /\ Tell + 24 <= Room
             t == IF coded THEN tell + Cost(3, bit) ELSE tell
  <1>1. /\ at = "transient" /\ at' = "intra" /\ (coded \/ bit = 0)
        /\ UNCHANGED <<kind, band, channel, bytes, boost, reservoir, overspent>>
        /\ flags' = [flags EXCEPT !.transient = bit]
        /\ tell' = t
        /\ IF kind.LM > 0 THEN DecoderAsks(coded, seen + 24) ELSE UNCHANGED <<needs, refuses>>
        /\ seen' = IF coded THEN WholeBits(tell') ELSE seen
    BY DEF Transient
  <1>2. /\ at \in Early /\ at' \in Later
        /\ needs \in Nat /\ needs <= Room /\ tell \in Nat /\ tell <= Room /\ seen \in Nat
        /\ Tell <= Room /\ bytes \in 2..1275 /\ kind.C \in 1..2 /\ Room = 64 * bytes /\ flags \in Flags
        /\ band \in Nat /\ channel \in 1..2 /\ band < kind.end /\ channel <= kind.C
        /\ Tell \in Nat /\ tell <= Tell /\ Tell <= tell + 7 /\ kind.LM \in 0..3
    <2>1. at \in Early /\ at' \in Later
      BY <1>1 DEF Early, Later
    <2> QED
      BY <2>1, EarlyFacts
  <1>3. kind.vbr # "cbr" => tell <= 272 /\ needs <= tell + 128
    <2>1. SoFar = 272 /\ boost.total = 0
      BY <1>1, <1>2, EarlyFacts DEF SoFar
    <2>2. kind.vbr # "cbr" => tell <= SoFar + boost.total /\ needs <= tell + boost.total + 128
      BY <1>2, EarlyFacts
    <2> QED
      BY <1>2, <2>1, <2>2
  <1>4. seen = Tell \/ (seen = 8 /\ tell = 9 /\ bytes = 2)
    BY <1>1 DEF FrameInv, SeenAgrees
  <1>5. tell = 9 => Tell = 16
    BY DEF Tell, WholeBits
  <1>6. Cost(3, bit) \in Nat /\ Cost(3, bit) <= 24
    BY CostFacts
  <1>7. /\ kind.LM > 0 /\ coded => seen + 24 <= Room /\ seen + 24 <= tell + 31
        /\ kind.LM > 0 /\ ~coded => seen + 24 > Room
    BY <1>2, <1>4, <1>5
  <1>8. t \in Nat /\ t <= Room /\ tell <= t /\ t <= tell + 24
    BY <1>2, <1>6
  <1>9. /\ needs' \in Nat /\ needs' <= Room /\ refuses' = refuses
        /\ needs' = needs \/ (needs' = seen + 24 /\ coded /\ kind.LM > 0)
    <2> HIDE DEF coded, t
    <2>1. CASE kind.LM > 0
      <3>1. coded \in BOOLEAN /\ seen + 24 \in Nat
        BY <1>2 DEF coded
      <3> QED
        BY <1>1, <1>2, <1>7, <2>1, <3>1, Asked
    <2>2. CASE ~(kind.LM > 0)
      BY <1>1, <1>2, <2>2
    <2> QED
      BY <2>1, <2>2
  <1> HIDE DEF coded, t
  <1>10. kind.vbr # "cbr" => t <= 296 /\ needs' <= t + 128
    <2>1. CASE kind.vbr # "cbr" /\ needs' = needs
      <3>1. t <= 296 /\ needs <= t + 128
        BY <1>2, <1>3, <1>8, <2>1
      <3> QED
        BY <2>1, <3>1, Zenon
    <2>2. CASE kind.vbr # "cbr" /\ needs' = seen + 24 /\ coded /\ kind.LM > 0
      <3>1. t <= 296 /\ seen + 24 <= t + 128
        BY <1>2, <1>3, <1>7, <1>8, <2>2
      <3> QED
        BY <2>2, <3>1, Zenon
    <2> QED
      BY <1>9, <2>1, <2>2
  <1>11. seen' = Tell' \/ (seen' = 8 /\ tell' = 9 /\ bytes = 2)
    <2>1. CASE coded
      BY <1>1, <2>1 DEF Tell
    <2>2. CASE ~coded
      <3>1. tell' = tell /\ seen' = seen
        BY <1>1, <2>2 DEF t
      <3> QED
        BY <1>4, <3>1 DEF Tell
    <2> QED
      BY <2>1, <2>2
  <1>12. seen' \in Nat
    <2>1. WholeBits(t) \in Nat
      BY <1>8, WholeBitsFacts
    <2> QED
      BY <1>1, <1>2, <2>1
  <1>13. flags' \in Flags /\ flags'.silence = flags.silence
    BY <1>1, <1>2 DEF Flags
  <1>14. SoFar' = 296 /\ at' \notin {"tf_band", "tf_select"}
    BY <1>1 DEF SoFar
  <1>15. band' \in Nat /\ band' < kind.end /\ channel' \in 1..2 /\ channel' <= kind.C
    BY <1>1, <1>2
  <1> QED
    BY <1>1, <1>2, <1>8, <1>9, <1>10, <1>11, <1>12, <1>13, <1>14, <1>15, EarlyElement

LEMMA IntraHolds ==
    ASSUME FrameInv, NEW bit \in {0, 1}, Intra(bit)
    PROVE  FrameInv'
  <1> DEFINE coded == Tell + 24 <= Room
             t == IF coded THEN tell + Cost(3, bit) ELSE tell
  <1>1. /\ at = "intra" /\ at' = "coarse"
        /\ UNCHANGED <<kind, band, channel, bytes, seen, flags, boost, reservoir, overspent>>
        /\ tell' = t /\ DecoderAsks(coded, seen + 24)
    BY DEF Intra
  <1>2. /\ at \in Early /\ at' \in Later
        /\ needs \in Nat /\ needs <= Room /\ tell \in Nat /\ tell <= Room /\ seen \in Nat
        /\ bytes \in 2..1275 /\ Room = 64 * bytes /\ flags \in Flags
        /\ band \in Nat /\ channel \in 1..2 /\ band < kind.end /\ channel <= kind.C
        /\ Tell \in Nat /\ tell <= Tell /\ Tell <= tell + 7
    <2>1. at \in Early /\ at' \in Later
      BY <1>1 DEF Early, Later
    <2> QED
      BY <2>1, EarlyFacts
  <1>3. kind.vbr # "cbr" => tell <= 296 /\ needs <= tell + 128
    <2>1. SoFar = 296 /\ boost.total = 0
      BY <1>1, <1>2, EarlyFacts DEF SoFar
    <2>2. kind.vbr # "cbr" => tell <= SoFar + boost.total /\ needs <= tell + boost.total + 128
      BY <1>2, EarlyFacts
    <2> QED
      BY <1>2, <2>1, <2>2
  <1>4. seen = Tell \/ (seen = 8 /\ tell = 9 /\ bytes = 2)
    BY <1>1 DEF FrameInv, SeenAgrees
  <1>5. tell = 9 => Tell = 16
    BY DEF Tell, WholeBits
  <1>6. Cost(3, bit) \in Nat /\ Cost(3, bit) <= 24
    BY CostFacts
  <1>7. /\ coded => seen + 24 <= Room /\ seen + 24 <= tell + 31
        /\ ~coded => seen + 24 > Room
    BY <1>2, <1>4, <1>5
  <1>8. t \in Nat /\ t <= Room /\ tell <= t /\ t <= tell + 24
    BY <1>2, <1>6
  <1>9. /\ needs' \in Nat /\ needs' <= Room /\ refuses' = refuses
        /\ needs' = needs \/ (needs' = seen + 24 /\ coded)
    <2> HIDE DEF coded, t
    <2>1. coded \in BOOLEAN /\ seen + 24 \in Nat
      BY <1>2 DEF coded
    <2> QED
      BY <1>1, <1>2, <1>7, <2>1, Asked
  <1> HIDE DEF coded, t
  <1>10. kind.vbr # "cbr" => t <= 320 /\ needs' <= t + 128
    <2>1. CASE kind.vbr # "cbr" /\ needs' = needs
      <3>1. t <= 320 /\ needs <= t + 128
        BY <1>2, <1>3, <1>8, <2>1
      <3> QED
        BY <2>1, <3>1, Zenon
    <2>2. CASE kind.vbr # "cbr" /\ needs' = seen + 24 /\ coded
      <3>1. t <= 320 /\ seen + 24 <= t + 128
        BY <1>2, <1>3, <1>7, <1>8, <2>2
      <3> QED
        BY <2>2, <3>1, Zenon
    <2> QED
      BY <1>9, <2>1, <2>2
  <1> DEFINE m == 320 + 120 * (2 * band + channel - 1)
  <1>11. SoFar' = m /\ m \in Nat /\ 320 <= m
    BY <1>1, <1>2 DEF SoFar
  <1> HIDE DEF m
  <1>12. kind.vbr # "cbr" => t <= m /\ needs' <= t + 128
    BY <1>8, <1>10, <1>11
  <1>13. /\ at' \notin {"transient", "intra", "tf_band", "tf_select"} /\ seen' \in Nat
         /\ flags' \in Flags /\ flags'.silence = flags.silence
         /\ band' \in Nat /\ band' < kind.end /\ channel' \in 1..2 /\ channel' <= kind.C
    BY <1>1, <1>2
  <1> QED
    BY <1>1, <1>2, <1>8, <1>9, <1>11, <1>12, <1>13, EarlyElement

LEMMA CoarseEnergyHolds ==
    ASSUME FrameInv, NEW cost \in {0, 8, 16, 120}, CoarseEnergy(cost)
    PROVE  FrameInv'
  <1> DEFINE left == Room - Tell
             code == EnergyCode(left)
             need == Tell + EnergyRoom(code)
             better == Tell + BetterRoom(code)
             last == channel = kind.C /\ band + 1 = kind.end
  <1>1. /\ at = "coarse" /\ cost \in EnergyCosts(code)
        /\ needs' = Needed(need) /\ refuses' = RefusedAt(better)
        /\ tell' = tell + cost
        /\ channel' = IF channel < kind.C THEN channel + 1 ELSE 1
        /\ band' = IF channel < kind.C THEN band ELSE (band + 1) % kind.end
        /\ at' = IF last THEN "tf" ELSE "coarse"
        /\ UNCHANGED <<kind, bytes, seen, flags, boost, reservoir, overspent>>
    BY DEF CoarseEnergy
  <1>2. /\ at \in Early /\ at' \in Later
        /\ needs \in Nat /\ needs <= Room /\ tell \in Nat /\ tell <= Room /\ seen \in Nat
        /\ bytes \in 2..1275 /\ Room \in Nat /\ flags \in Flags /\ refuses \in Nat
        /\ band \in Nat /\ channel \in 1..2 /\ band < kind.end /\ channel <= kind.C
        /\ Tell \in Nat /\ tell <= Tell /\ Tell <= tell + 7 /\ Tell <= Room
        /\ kind.C \in 1..2 /\ kind.end \in 1..21
    <2>1. at \in Early /\ at' \in Later
      BY <1>1 DEF Early, Later
    <2> QED
      BY <2>1, EarlyFacts
  <1>3. kind.vbr # "cbr" => tell <= 320 + 120 * (2 * band + channel - 1) /\ needs <= tell + 128
    <2>1. SoFar = 320 + 120 * (2 * band + channel - 1) /\ boost.total = 0
      BY <1>1, <1>2, EarlyFacts DEF SoFar
    <2>2. kind.vbr # "cbr" => tell <= SoFar + boost.total /\ needs <= tell + boost.total + 128
      BY <1>2, EarlyFacts
    <2> HIDE DEF left, need, better, last, code
    <2> QED
      BY <1>2, <2>1, <2>2
  <1>4. left \in Nat /\ Room < Never
    BY <1>2, RoomFacts
  <1>5. /\ EnergyRoom(code) \in 0..120 /\ EnergyRoom(code) <= left
        /\ cost <= EnergyRoom(code)
        /\ BetterRoom(code) > left
    <2>1. left < Never
      <3>1. Never \in Nat
        BY DEF Never
      <3> QED
        BY <1>2, <1>4, <3>1
    <2> HIDE DEF left
    <2>2. CASE left >= 120
      <3>1. code = "laplace"
        BY <2>2 DEF EnergyCode
      <3> HIDE DEF code
      <3>2. EnergyRoom(code) = 120 /\ BetterRoom(code) = Never /\ EnergyCosts(code) = {0, 120}
        BY <3>1 DEF EnergyRoom, BetterRoom, EnergyCosts
      <3> QED
        BY <1>1, <1>4, <2>1, <2>2, <3>2
    <2>3. CASE left < 120 /\ left >= 16
      <3>1. code = "small"
        BY <1>4, <2>3 DEF EnergyCode
      <3> HIDE DEF code
      <3>2. EnergyRoom(code) = 16 /\ BetterRoom(code) = 120 /\ EnergyCosts(code) = {8, 16}
        BY <3>1 DEF EnergyRoom, BetterRoom, EnergyCosts
      <3> QED
        BY <1>1, <1>4, <2>3, <3>2
    <2>4. CASE left < 16 /\ left >= 8
      <3>1. code = "bit"
        BY <1>4, <2>4 DEF EnergyCode
      <3> HIDE DEF code
      <3>2. EnergyRoom(code) = 8 /\ BetterRoom(code) = 16 /\ EnergyCosts(code) = {8}
        BY <3>1 DEF EnergyRoom, BetterRoom, EnergyCosts
      <3> QED
        BY <1>1, <1>4, <2>4, <3>2
    <2>5. CASE left < 8
      <3>1. code = "none"
        BY <1>4, <2>5 DEF EnergyCode
      <3> HIDE DEF code
      <3>2. EnergyRoom(code) = 0 /\ BetterRoom(code) = 8 /\ EnergyCosts(code) = {0}
        BY <3>1 DEF EnergyRoom, BetterRoom, EnergyCosts
      <3> QED
        BY <1>1, <1>4, <2>5, <3>2
    <2> QED
      BY <1>4, <2>2, <2>3, <2>4, <2>5
  <1> HIDE DEF code
  <1>6. need \in Nat /\ need <= Room /\ need <= tell + 127 /\ tell + cost <= Room
        /\ tell + cost \in Nat
    BY <1>2, <1>5
  <1>7. ~(better <= Room)
    <2>1. BetterRoom(code) \in Int
      BY DEF BetterRoom, Never
    <2> QED
      BY <1>2, <1>5, <2>1
  <1> HIDE DEF left, need, better
  <1>8. refuses' = refuses /\ needs' \in {needs, need} /\ needs' \in Nat /\ needs' <= Room
    <2>1. refuses' = refuses
      BY <1>1, <1>7 DEF RefusedAt
    <2>2. needs' \in {needs, need}
      <3>1. Max({needs, need}) = IF needs >= need THEN needs ELSE need
        BY <1>2, <1>6, MaxOfTwo
      <3> QED
        BY <1>1, <3>1 DEF Needed
    <2> QED
      BY <1>2, <1>6, <2>1, <2>2
  <1>9. kind.vbr # "cbr" => needs' <= tell + cost + 128
    <2>1. CASE kind.vbr # "cbr" /\ needs' = needs
      <3>1. needs <= tell + cost + 128
        BY <1>2, <1>3, <2>1
      <3> QED
        BY <2>1, <3>1, Zenon
    <2>2. CASE needs' = need
      <3>1. need <= tell + cost + 128
        BY <1>2, <1>6
      <3> QED
        BY <2>2, <3>1, Zenon
    <2> QED
      BY <1>8, <2>1, <2>2
  <1> DEFINE b == IF channel < kind.C THEN band ELSE (band + 1) % kind.end
             c == IF channel < kind.C THEN channel + 1 ELSE 1
             m == IF last THEN 5360 ELSE 320 + 120 * (2 * b + c - 1)
  <1>10. /\ b \in Nat /\ b < kind.end /\ c \in 1..2 /\ c <= kind.C
         /\ ~(channel < kind.C) /\ ~last => b = band + 1
    BY <1>2
  <1>11. kind.vbr # "cbr" => tell + cost <= m
    <2> SUFFICES ASSUME kind.vbr # "cbr" PROVE tell + cost <= m
      OBVIOUS
    <2>1. tell <= 320 + 120 * (2 * band + channel - 1) /\ cost <= 120
      BY <1>3
    <2>2. CASE last
      <3>1. band <= 20 /\ channel <= 2
        BY <1>2, <2>2
      <3>2. m = 5360
        BY <2>2
      <3> HIDE DEF last, b, c, m
      <3> QED
        BY <1>2, <2>1, <3>1, <3>2
    <2>3. CASE ~last /\ channel < kind.C
      <3>1. b = band /\ c = channel + 1 /\ m = 320 + 120 * (2 * b + c - 1)
        BY <2>3
      <3> HIDE DEF last, b, c, m
      <3> QED
        BY <1>2, <2>1, <3>1
    <2>4. CASE ~last /\ ~(channel < kind.C)
      <3>1. b = band + 1 /\ c = 1 /\ m = 320 + 120 * (2 * b + c - 1) /\ channel <= 2
        BY <1>2, <1>10, <2>4
      <3> HIDE DEF last, b, c, m
      <3> QED
        BY <1>2, <2>1, <3>1
    <2> QED
      BY <2>2, <2>3, <2>4
  <1>12. SoFar' = m
    <2>1. band' = b /\ channel' = c
      BY <1>1
    <2>2. CASE last
      <3>1. at' = "tf"
        BY <1>1, <2>2
      <3>2. SoFar' = 5360
        BY <3>1 DEF SoFar
      <3> QED
        BY <2>2, <3>2
    <2>3. CASE ~last
      <3>1. at' = "coarse"
        BY <1>1, <2>3
      <3>2. SoFar' = 320 + 120 * (2 * band' + channel' - 1)
        BY <3>1 DEF SoFar
      <3>3. SoFar' = 320 + 120 * (2 * b + c - 1)
        BY <2>1, <3>2
      <3> QED
        BY <2>3, <3>3
    <2> QED
      BY <2>2, <2>3
  <1>13. m \in Nat
    <2> HIDE DEF last, b, c
    <2> QED
      BY <1>10
  <1>14. /\ at' \notin {"transient", "intra", "tf_band", "tf_select"} /\ seen' \in Nat
         /\ flags' \in Flags /\ flags'.silence = flags.silence
    BY <1>1, <1>2
  <1>15. band' \in Nat /\ band' < kind.end /\ channel' \in 1..2 /\ channel' <= kind.C
    BY <1>1, <1>10
  <1> HIDE DEF b, c, m, last
  <1> DEFINE t == tell + cost
  <1>16. t \in Nat /\ t <= Room /\ tell' = t /\ (kind.vbr # "cbr" => t <= m /\ needs' <= t + 128)
    BY <1>1, <1>6, <1>9, <1>11
  <1> HIDE DEF t
  <1> QED
    BY <1>1, <1>2, <1>8, <1>12, <1>13, <1>14, <1>15, <1>16, EarlyElement

LEMMA TfStartHolds ==
    ASSUME FrameInv, TfStart
    PROVE  FrameInv'
  <1> DEFINE logp == IF flags.transient = 1 THEN 2 ELSE 4
             n == Tell + 8 * logp + 8
             kept == kind.LM > 0 /\ n <= Room
  <1>1. /\ at = "tf" /\ at' = "tf_band"
        /\ UNCHANGED <<kind, band, channel, bytes, tell, seen, boost, reservoir, overspent>>
        /\ flags' = [flags EXCEPT !.logp = logp, !.reserve = IF kept THEN 8 ELSE 0]
        /\ IF kind.LM > 0 THEN DecoderAsks(kept, n) ELSE UNCHANGED <<needs, refuses>>
    BY DEF TfStart
  <1>2. /\ at \in Early /\ at' \in Later
        /\ needs \in Nat /\ needs <= Room /\ tell \in Nat /\ tell <= Room /\ seen \in Nat
        /\ bytes \in 2..1275 /\ Room \in Nat /\ flags \in Flags /\ refuses \in Nat
        /\ band \in Nat /\ channel \in 1..2 /\ band < kind.end /\ channel <= kind.C
        /\ Tell \in Nat /\ tell <= Tell /\ Tell <= tell + 7 /\ Tell <= Room /\ kind.LM \in 0..3
    <2>1. at \in Early /\ at' \in Later
      BY <1>1 DEF Early, Later
    <2> QED
      BY <2>1, EarlyFacts
  <1>3. kind.vbr # "cbr" => tell <= 5360 /\ needs <= tell + 128
    <2>1. SoFar = 5360 /\ boost.total = 0
      BY <1>1, <1>2, EarlyFacts DEF SoFar
    <2>2. kind.vbr # "cbr" => tell <= SoFar + boost.total /\ needs <= tell + boost.total + 128
      BY <1>2, EarlyFacts
    <2> HIDE DEF logp, n, kept
    <2> QED
      BY <1>2, <2>1, <2>2
  <1>4. n \in Nat /\ n <= tell + 47 /\ kept \in BOOLEAN /\ logp \in {2, 4}
    BY <1>2
  <1>5. /\ needs' \in Nat /\ needs' <= Room /\ refuses' = refuses /\ needs' \in {needs, n}
    <2>1. CASE kind.LM > 0
      <3>1. (kept => n <= Room) /\ (~kept => n > Room)
        BY <1>2, <1>4, <2>1
      <3> HIDE DEF kept, n
      <3> QED
        BY <1>1, <1>2, <1>4, <2>1, <3>1, Asked
    <2>2. CASE ~(kind.LM > 0)
      BY <1>1, <1>2, <2>2
    <2> QED
      BY <2>1, <2>2
  <1>6. kept => Tell + 8 <= Room
    BY <1>2, <1>4
  <1> HIDE DEF kept, n, logp
  <1>7. kind.vbr # "cbr" => needs' <= tell + 128
    <2>1. CASE kind.vbr # "cbr" /\ needs' = needs
      <3>1. needs <= tell + 128
        BY <1>3, <2>1
      <3> QED
        BY <2>1, <3>1, Zenon
    <2>2. CASE needs' = n
      <3>1. n <= tell + 128
        BY <1>2, <1>4
      <3> QED
        BY <2>2, <3>1, Zenon
    <2>3. needs' = needs \/ needs' = n
      BY <1>5
    <2> QED
      BY <2>1, <2>2, <2>3, Zenon
  <1>8. /\ flags' \in Flags /\ flags'.silence = flags.silence /\ flags'.logp = logp
        /\ flags'.reserve = IF kept THEN 8 ELSE 0
    <2> DEFINE first == [flags EXCEPT !.logp = logp]
    <2>1. first \in Flags /\ first.silence = flags.silence /\ first.logp = logp
      BY <1>2, <1>4 DEF Flags
    <2>2. flags' = [first EXCEPT !.reserve = IF kept THEN 8 ELSE 0]
      BY <1>1, <1>2 DEF Flags
    <2> HIDE DEF first
    <2> QED
      BY <2>1, <2>2 DEF Flags
  <1>9. Tell' + flags'.reserve <= Room
    <2>1. Tell' = Tell
      BY <1>1 DEF Tell
    <2>2. Tell + (IF kept THEN 8 ELSE 0) <= Room
      BY <1>2, <1>6
    <2> QED
      BY <1>8, <2>1, <2>2
  <1> DEFINE m == 5360 + 40 * band
  <1>10. SoFar' = m /\ m \in Nat /\ 5360 <= m
    BY <1>1, <1>2 DEF SoFar
  <1> HIDE DEF m
  <1>11. kind.vbr # "cbr" => tell <= m /\ needs' <= tell + 128
    BY <1>2, <1>3, <1>7, <1>10
  <1>12. /\ at' \notin {"transient", "intra"} /\ seen' \in Nat /\ flags'.logp # 0
         /\ band' \in Nat /\ band' < kind.end /\ channel' \in 1..2 /\ channel' <= kind.C
         /\ tell' = tell
    BY <1>1, <1>2, <1>4, <1>8
  <1> QED
    BY <1>1, <1>2, <1>5, <1>8, <1>9, <1>10, <1>11, <1>12, EarlyElement

LEMMA TfBandHolds ==
    ASSUME FrameInv, NEW change \in {0, 1}, TfBand(change)
    PROVE  FrameInv'
  <1> DEFINE coded == TfNeed <= Room
             t == IF coded THEN tell + Cost(flags.logp, change) ELSE tell
             curr == (flags.curr + change) % 2
             last == band + 1 = kind.end
  <1>1. /\ at = "tf_band" /\ at' = IF last THEN "tf_select" ELSE "tf_band"
        /\ UNCHANGED <<kind, channel, bytes, seen, boost, reservoir, overspent>>
        /\ tell' = t /\ DecoderAsks(coded, TfNeed)
        /\ flags' = [flags EXCEPT !.curr = curr, !.changed = IF coded THEN Max({@, curr}) ELSE @,
                                  !.logp = IF flags.transient = 1 THEN 4 ELSE 5]
        /\ band' = (band + 1) % kind.end
    BY DEF TfBand
  <1>2. /\ at \in Early /\ at' \in Later
        /\ needs \in Nat /\ needs <= Room /\ tell \in Nat /\ tell <= Room /\ seen \in Nat
        /\ bytes \in 2..1275 /\ Room \in Nat /\ flags \in Flags /\ refuses \in Nat
        /\ band \in Nat /\ channel \in 1..2 /\ band < kind.end /\ channel <= kind.C
        /\ Tell \in Nat /\ tell <= Tell /\ Tell <= tell + 7 /\ Tell <= Room /\ kind.end \in 1..21
    <2>1. at \in Early /\ at' \in Later
      BY <1>1 DEF Early, Later
    <2> QED
      BY <2>1, EarlyFacts
  <1>3. kind.vbr # "cbr" => tell <= 5360 + 40 * band /\ needs <= tell + 128
    <2>1. SoFar = 5360 + 40 * band /\ boost.total = 0
      BY <1>1, <1>2, EarlyFacts DEF SoFar
    <2>2. kind.vbr # "cbr" => tell <= SoFar + boost.total /\ needs <= tell + boost.total + 128
      BY <1>2, EarlyFacts
    <2> HIDE DEF coded, t, curr, last
    <2> QED
      BY <1>2, <2>1, <2>2
  <1>4. Tell + flags.reserve <= Room /\ flags.logp # 0
    BY <1>1 DEF FrameInv, RoomHolds
  <1>5. flags.logp \in {2, 4, 5} /\ flags.reserve \in {0, 8} /\ flags.curr \in {0, 1}
        /\ flags.changed \in {0, 1}
    BY <1>2, <1>4 DEF Flags
  <1> DEFINE spent == Cost(flags.logp, change)
  <1>6. /\ spent \in Nat /\ spent <= 8 * flags.logp /\ spent <= 40
        /\ \E j \in Nat : spent = 8 * j
    <2>1. flags.logp \in 1..6
      BY <1>5
    <2>2. spent \in Nat /\ spent <= 8 * flags.logp /\ \E j \in 0..flags.logp : spent = 8 * j
      BY <2>1, CostFacts
    <2> HIDE DEF spent
    <2> QED
      BY <1>5, <2>2
  <1> HIDE DEF spent
  <1>7. TfNeed \in Nat /\ TfNeed = Tell + 8 * flags.logp + flags.reserve /\ TfNeed <= tell + 55
    BY <1>2, <1>5 DEF TfNeed
  <1>8. /\ needs' \in Nat /\ needs' <= Room /\ refuses' = refuses /\ needs' \in {needs, TfNeed}
    <2>1. coded \in BOOLEAN /\ (coded => TfNeed <= Room) /\ (~coded => TfNeed > Room)
      BY <1>2, <1>7
    <2> HIDE DEF coded, t, curr, last
    <2> QED
      BY <1>1, <1>2, <1>7, <2>1, Asked
  <1>9. /\ t \in Nat /\ t <= Room /\ tell <= t /\ t <= tell + 40
        /\ Tell' + flags.reserve <= Room
    <2>1. CASE coded
      <3>1. t = tell + spent
        BY <2>1 DEF spent
      <3>2. PICK j \in Nat : spent = 8 * j
        BY <1>6
      <3>3. WholeBits(tell + spent) = Tell + spent
        BY <1>2, <3>2, TellFits DEF FrameInv
      <3>4. Tell' = Tell + spent
        BY <1>1, <3>1, <3>3 DEF Tell
      <3>5. Tell + 8 * flags.logp + flags.reserve <= Room
        BY <1>2, <1>7, <2>1
      <3> HIDE DEF coded, t, curr, last
      <3>6. tell + spent \in Nat /\ tell + spent <= Room /\ tell <= tell + spent
            /\ tell + spent <= tell + 40 /\ Tell + spent + flags.reserve <= Room
        BY <1>2, <1>5, <1>6, <3>5
      <3> QED
        BY <3>1, <3>4, <3>6
    <2>2. CASE ~coded
      <3>1. t = tell
        BY <2>2
      <3>2. Tell' = Tell
        BY <1>1, <3>1 DEF Tell
      <3> HIDE DEF coded, t, curr, last
      <3>3. tell <= tell /\ tell <= tell + 40
        BY <1>2
      <3> QED
        BY <1>2, <1>4, <3>1, <3>2, <3>3
    <2> QED
      BY <2>1, <2>2
  <1>10. curr \in {0, 1}
    BY <1>5
  <1> HIDE DEF coded, t, curr
  <1>11. kind.vbr # "cbr" => needs' <= t + 128
    <2>1. CASE kind.vbr # "cbr" /\ needs' = needs
      <3>1. needs <= t + 128
        BY <1>2, <1>3, <1>9, <2>1
      <3> QED
        BY <2>1, <3>1, Zenon
    <2>2. CASE needs' = TfNeed
      <3>1. TfNeed <= t + 128
        BY <1>2, <1>7, <1>9
      <3> QED
        BY <2>2, <3>1, Zenon
    <2> QED
      BY <1>8, <2>1, <2>2
  <1>12. /\ flags' \in Flags /\ flags'.silence = flags.silence /\ flags'.logp \in {4, 5}
         /\ flags'.reserve = flags.reserve
    <2> DEFINE changed == IF coded THEN Max({flags.changed, curr}) ELSE flags.changed
               logp == IF flags.transient = 1 THEN 4 ELSE 5
               one == [flags EXCEPT !.curr = curr]
               two == [one EXCEPT !.changed = changed]
    <2>1. changed \in {0, 1}
      <3>1. Max({flags.changed, curr}) = IF flags.changed >= curr THEN flags.changed ELSE curr
        BY <1>5, <1>10, MaxOfTwo
      <3> QED
        BY <1>5, <1>10, <3>1
    <2>2. flags' = [flags EXCEPT !.curr = curr, !.changed = changed, !.logp = logp]
      BY <1>1, <1>2 DEF Flags
    <2>3. logp \in {4, 5}
      OBVIOUS
    <2> HIDE DEF changed, logp
    <2>4. one \in Flags /\ one.silence = flags.silence /\ one.reserve = flags.reserve
      BY <1>2, <1>10 DEF Flags
    <2>5. flags' = [two EXCEPT !.logp = logp]
      BY <1>2, <2>2 DEF Flags
    <2> HIDE DEF one
    <2>6. two \in Flags /\ two.silence = flags.silence /\ two.reserve = flags.reserve
      BY <2>1, <2>4 DEF Flags
    <2> HIDE DEF two
    <2> QED
      BY <2>3, <2>5, <2>6 DEF Flags
  <1>13. band' \in Nat /\ band' < kind.end /\ (~last => band' = band + 1)
    BY <1>1, <1>2
  <1> DEFINE m == IF last THEN 6200 ELSE 5360 + 40 * (band + 1)
  <1>14. SoFar' = m
    <2>1. CASE last
      <3>1. at' = "tf_select"
        BY <1>1, <2>1
      <3> QED
        BY <2>1, <3>1 DEF SoFar
    <2>2. CASE ~last
      <3>1. at' = "tf_band" /\ band' = band + 1
        BY <1>1, <1>13, <2>2
      <3>2. SoFar' = 5360 + 40 * band'
        BY <3>1 DEF SoFar
      <3> QED
        BY <2>2, <3>1, <3>2
    <2> QED
      BY <2>1, <2>2
  <1>15. m \in Nat /\ 5360 + 40 * band + 40 <= m
    BY <1>2
  <1> HIDE DEF m
  <1>16. kind.vbr # "cbr" => t <= m /\ needs' <= t + 128
    BY <1>2, <1>3, <1>9, <1>11, <1>15
  <1>17. /\ at' \notin {"transient", "intra"} /\ seen' \in Nat /\ flags'.logp # 0
         /\ channel' \in 1..2 /\ channel' <= kind.C /\ Tell' + flags'.reserve <= Room
    BY <1>1, <1>2, <1>9, <1>12
  <1> HIDE DEF last
  <1> QED
    BY <1>1, <1>2, <1>8, <1>9, <1>12, <1>13, <1>14, <1>15, <1>16, <1>17, EarlyElement

LEMMA TfSelectHolds ==
    ASSUME FrameInv, TfSelect
    PROVE  FrameInv'
  <1>1. /\ at = "tf_select" /\ at' = "spread"
        /\ UNCHANGED <<kind, band, channel, bytes, seen, flags, boost, needs, refuses, reservoir,
                       overspent>>
        /\ tell' = tell \/ (flags.reserve > 0 /\ tell' = tell + 8)
    BY DEF TfSelect
  <1>2. /\ at \in Early /\ at' \in Later
        /\ needs \in Nat /\ needs <= Room /\ tell \in Nat /\ tell <= Room /\ seen \in Nat
        /\ Room \in Nat /\ flags \in Flags
        /\ band \in Nat /\ channel \in 1..2 /\ band < kind.end /\ channel <= kind.C
        /\ Tell \in Nat /\ tell <= Tell
    <2>1. at \in Early /\ at' \in Later
      BY <1>1 DEF Early, Later
    <2> QED
      BY <2>1, EarlyFacts
  <1>3. kind.vbr # "cbr" => tell <= 6200 /\ needs <= tell + 128
    <2>1. SoFar = 6200 /\ boost.total = 0
      BY <1>1, <1>2, EarlyFacts DEF SoFar
    <2>2. kind.vbr # "cbr" => tell <= SoFar + boost.total /\ needs <= tell + boost.total + 128
      BY <1>2, EarlyFacts
    <2> QED
      BY <1>2, <2>1, <2>2
  <1>4. Tell + flags.reserve <= Room /\ flags.reserve \in {0, 8}
    BY <1>1, <1>2 DEF FrameInv, RoomHolds, Flags
  <1>5. \E t \in Nat : /\ tell' = t /\ t <= Room
                       /\ (kind.vbr # "cbr" => t <= 6208 /\ needs <= t + 128)
    <2>1. CASE tell' = tell
      <3>1. kind.vbr # "cbr" => tell <= 6208
        BY <1>2, <1>3
      <3> tell \in Nat
        BY <1>2
      <3> WITNESS tell \in Nat
      <3> QED
        BY <1>2, <1>3, <2>1, <3>1
    <2>2. CASE flags.reserve > 0 /\ tell' = tell + 8
      <3> DEFINE t == tell + 8
      <3>1. t \in Nat /\ t <= Room /\ (kind.vbr # "cbr" => t <= 6208 /\ needs <= t + 128)
        BY <1>2, <1>3, <1>4, <2>2
      <3>2. tell' = t
        BY <2>2
      <3> HIDE DEF t
      <3> t \in Nat
        BY <3>1
      <3> WITNESS t \in Nat
      <3> QED
        BY <3>1, <3>2
    <2> QED
      BY <1>1, <2>1, <2>2
  <1>6. PICK t \in Nat : /\ tell' = t /\ t <= Room
                         /\ (kind.vbr # "cbr" => t <= 6208 /\ needs <= t + 128)
    BY <1>5
  <1>7. /\ SoFar' = 6208 /\ needs' = needs /\ refuses' = refuses /\ seen' \in Nat
        /\ band' \in Nat /\ band' < kind.end /\ channel' \in 1..2 /\ channel' <= kind.C
        /\ flags' \in Flags /\ flags'.silence = flags.silence
        /\ at' \notin {"transient", "intra", "tf_band", "tf_select"}
    BY <1>1, <1>2 DEF SoFar
  <1> QED
    BY <1>1, <1>2, <1>6, <1>7, EarlyElement

LEMMA SpreadHolds ==
    ASSUME FrameInv, NEW cost \in {0, 8, 32, 48}, Spread(cost)
    PROVE  FrameInv'
  <1> DEFINE coded == Tell + 32 <= Room
             n == Tell + 32
             t == tell + cost
  <1>1. /\ at = "spread" /\ at' = "boost" /\ tell' = t /\ DecoderAsks(coded, n)
        /\ cost \in IF coded THEN {8, 32} ELSE {0}
        /\ UNCHANGED <<kind, band, channel, bytes, seen, flags, boost, reservoir, overspent>>
    BY DEF Spread
  <1>2. /\ at \in Early /\ at' \in Later
        /\ needs \in Nat /\ needs <= Room /\ tell \in Nat /\ tell <= Room /\ seen \in Nat
        /\ Room \in Nat /\ flags \in Flags /\ bytes \in Nat
        /\ band \in Nat /\ channel \in 1..2 /\ band < kind.end /\ channel <= kind.C
        /\ Tell \in Nat /\ tell <= Tell /\ Tell <= tell + 7 /\ boost.here = 0
    <2>1. at \in Early /\ at' \in Later
      BY <1>1 DEF Early, Later
    <2> QED
      BY <2>1, EarlyFacts
  <1>3. kind.vbr # "cbr" => tell <= 6208 /\ needs <= tell + 128
    <2>1. SoFar = 6208 /\ boost.total = 0
      BY <1>1, <1>2, EarlyFacts DEF SoFar
    <2>2. kind.vbr # "cbr" => tell <= SoFar + boost.total /\ needs <= tell + boost.total + 128
      BY <1>2, EarlyFacts
    <2> HIDE DEF coded, t, n
    <2> QED
      BY <1>2, <2>1, <2>2
  <1>4. /\ coded \in BOOLEAN /\ n \in Nat /\ (coded => n <= Room) /\ (~coded => n > Room)
        /\ n <= tell + 39 /\ t \in Nat /\ t <= Room /\ tell <= t
        /\ (kind.vbr # "cbr" => t <= 6240)
    BY <1>1, <1>2, <1>3
  <1> HIDE DEF coded, n, t
  <1>5. needs' \in Nat /\ needs' <= Room /\ needs' \in {needs, n} /\ refuses' = refuses
    BY <1>1, <1>2, <1>4, Asked
  <1>6. kind.vbr # "cbr" => needs' <= t + 128
    <2>1. kind.vbr # "cbr" => needs <= t + 128
      BY <1>2, <1>3, <1>4
    <2>2. n <= t + 128
      BY <1>2, <1>4
    <2>3. needs' = needs \/ needs' = n
      BY <1>5
    <2> QED
      BY <2>1, <2>2, <2>3, Zenon
  <1> DEFINE m == 6240 + 48 * band
  <1>7. m \in Nat /\ 6240 <= m
    BY <1>2
  <1>8. SoFar' = m
    <2>1. SoFar' = 6240 + 48 * band' + (IF boost'.here > 0 THEN 40 ELSE 0)
      BY <1>1 DEF SoFar
    <2>2. band' = band /\ boost'.here = 0
      BY <1>1, <1>2
    <2>3. 6240 + 48 * band + (IF 0 > 0 THEN 40 ELSE 0) = m
      BY <1>2
    <2> HIDE DEF m
    <2> QED
      BY <2>1, <2>2, <2>3
  <1> HIDE DEF m
  <1>9. kind.vbr # "cbr" => t <= m /\ needs' <= t + 128
    BY <1>4, <1>6, <1>7
  <1>10. /\ band' \in Nat /\ band' < kind.end /\ channel' \in 1..2 /\ channel' <= kind.C
         /\ flags' \in Flags /\ flags'.silence = flags.silence /\ seen' \in Nat
         /\ at' \notin {"transient", "intra", "tf_band", "tf_select"}
    BY <1>1, <1>2
  <1> QED
    BY <1>1, <1>2, <1>4, <1>5, <1>7, <1>8, <1>9, <1>10, EarlyElement

\* What the boosts and the trim have to show.
Boosts == [total : Nat, here : Nat, cost : 1..6, first : 2..6]
FlagCost(b) == IF b.here = 0 THEN b.cost >= 2 ELSE b.cost = 1

LEMMA LateFacts ==
    ASSUME FrameInv, at \in {"boost", "trim"}
    PROVE  /\ boost \in Boosts /\ FlagCost(boost) /\ boost.total <= 48 * MaxBoosts + 352
           /\ boost.total \in Nat /\ boost.here \in Nat /\ boost.cost \in 1..6 /\ boost.first \in 2..6
           /\ needs \in Nat /\ needs <= Room /\ tell \in Nat /\ tell <= Room /\ Room \in Nat
           /\ bytes \in Nat /\ kind \in Kinds /\ kind.C \in 1..2 /\ kind.end \in 1..21
           /\ band \in Nat /\ band < kind.end
           /\ kind.vbr # "cbr" => tell <= SoFar + boost.total /\ needs <= tell + boost.total + 128
  <1>1. FrameTyped /\ at # "idle" /\ at \notin Ended
    BY DEF FrameInv, Ended
  <1>2. /\ boost \in Boosts /\ FlagCost(boost) /\ boost.total <= 48 * MaxBoosts + 352
        /\ needs \in Nat /\ tell \in Nat /\ bytes \in 2..1275 /\ kind \in Kinds
        /\ band \in Nat /\ band < kind.end
    BY <1>1 DEF FrameTyped, Boosts, FlagCost
  <1>3. boost.total \in Nat /\ boost.here \in Nat /\ boost.cost \in 1..6 /\ boost.first \in 2..6
    BY <1>2 DEF Boosts
  <1>4. needs <= Room /\ tell <= Room
    BY DEF FrameInv, RoomHolds
  <1>5. kind.vbr # "cbr" => tell <= SoFar + boost.total /\ needs <= tell + boost.total + 128
    BY <1>1 DEF FrameInv, VariableHolds
  <1>6. Room \in Nat /\ bytes \in Nat
    BY <1>2, RoomFacts
  <1>7. kind.C \in 1..2 /\ kind.end \in 1..21
    BY <1>2, FrameAssumption DEF BandCount
  <1> QED
    BY <1>2, <1>3, <1>4, <1>5, <1>6, <1>7, SMT

LEMMA LateElement ==
    ASSUME FrameInv, at \in {"boost", "trim"}, at' \in {"boost", "trim", "shrink", "bands"},
           UNCHANGED <<kind, bytes, channel, seen, flags, reservoir, overspent, refuses>>,
           NEW t \in Nat, tell' = t, t <= Room,
           NEW n \in Nat, needs' = n, n <= Room,
           band' \in Nat, band' < kind.end,
           boost' \in Boosts, FlagCost(boost'),
           NEW total \in Nat, boost'.total = total, total <= 48 * MaxBoosts + 352,
           NEW m \in Nat, at' # "bands" => SoFar' = m,
           kind.vbr # "cbr" => at' # "bands" /\ t <= m + total /\ n <= t + total + 128,
           at' = "shrink" => kind.vbr # "cbr"
    PROVE  FrameInv'
  <1>1. at \notin {"idle", "bands", "done"} /\ at # "idle" /\ at \notin Ended
    BY DEF Ended
  <1>2. /\ ReservoirHolds' /\ Room' = Room
        /\ bytes' \in 2..1275 /\ reservoir' \in Nat /\ overspent' \in Int
    BY <1>1, FrameStays
  <1>3. FrameTyped'
    <2>1. /\ refuses \in Nat /\ kind \in Kinds /\ seen \in Nat /\ channel \in 1..2
          /\ channel <= kind.C
          /\ flags \in [silence : BOOLEAN, transient : {0, 1}, logp : {0, 2, 4, 5},
                        reserve : {0, 8}, curr : {0, 1}, changed : {0, 1}]
      BY <1>1 DEF FrameInv, FrameTyped
    <2>2. at' # "idle"
      OBVIOUS
    <2>3. boost' \in [total : Nat, here : Nat, cost : 1..6, first : 2..6]
          /\ (IF boost'.here = 0 THEN boost'.cost >= 2 ELSE boost'.cost = 1)
          /\ boost'.total <= 48 * MaxBoosts + 352
      BY DEF Boosts, FlagCost
    <2> QED
      BY <1>2, <2>1, <2>2, <2>3 DEF FrameTyped
  <1>4. SeenAgrees'
    BY DEF SeenAgrees
  <1>5. RoomHolds'
    <2>1. Room < refuses
      BY DEF FrameInv, RoomHolds
    <2> QED
      BY <1>2, <2>1 DEF RoomHolds
  <1>6. VariableHolds'
    <2>1. kind.vbr # "cbr" /\ flags.silence => bytes = 2
      BY <1>1 DEF FrameInv, VariableHolds
    <2>2. kind.vbr # "cbr" =>
             tell' <= SoFar' + boost'.total /\ needs' <= tell' + boost'.total + 128
      BY Zenon
    <2>3. at' \in {"boost", "trim", "shrink"} \cup Ended
      BY DEF Ended
    <2> QED
      BY <2>1, <2>2, <2>3 DEF VariableHolds
  <1> QED
    BY <1>2, <1>3, <1>4, <1>5, <1>6 DEF FrameInv

LEMMA BoostBandHolds ==
    ASSUME FrameInv, BoostBand
    PROVE  FrameInv'
  <1> DEFINE spent == Cost(boost.cost, 1)
             t == tell + spent
             total == boost.total + Quanta
             here == boost.here + Quanta
  <1>1. /\ at = "boost" /\ at' = "boost" /\ BoostNeed <= Room /\ boost.total < MaxBoosts * 48
        /\ tell' = t /\ DecoderAsks(TRUE, BoostNeed)
        /\ boost' = [boost EXCEPT !.total = @ + Quanta, !.here = @ + Quanta, !.cost = 1]
        /\ UNCHANGED <<kind, band, channel, bytes, seen, flags, reservoir, overspent>>
    BY DEF BoostBand, MayBoost
  <1>2. /\ boost \in Boosts /\ FlagCost(boost)
        /\ boost.total \in Nat /\ boost.here \in Nat /\ boost.cost \in 1..6 /\ boost.first \in 2..6
        /\ needs \in Nat /\ needs <= Room /\ tell \in Nat /\ tell <= Room /\ Room \in Nat
        /\ bytes \in Nat /\ kind \in Kinds /\ band \in Nat /\ band < kind.end /\ MaxBoosts \in Nat
    BY <1>1, LateFacts, FrameAssumption
  <1>3. Quanta \in 8..352
    BY <1>2, QuantaFacts
  <1>4. spent = 8 * boost.cost
    BY <1>2, CostFacts
  <1>5. BoostNeed = tell + 8 * boost.cost + boost.total + 1 /\ BoostNeed \in Nat
    BY <1>2 DEF BoostNeed
  <1>6. needs' \in Nat /\ needs' <= Room /\ needs' \in {needs, BoostNeed} /\ refuses' = refuses
    BY <1>1, <1>2, <1>5, Asked
  <1>7. /\ kind.vbr # "cbr" => tell <= SoFar + boost.total /\ needs <= tell + boost.total + 128
        /\ boost.here = 0 => SoFar = 6240 + 48 * band
        /\ boost.here # 0 => SoFar = 6280 + 48 * band
    <2>1. SoFar = 6240 + 48 * band + (IF boost.here > 0 THEN 40 ELSE 0)
      BY <1>1 DEF SoFar
    <2> HIDE DEF spent, t, total, here
    <2>2. kind.vbr # "cbr" => tell <= SoFar + boost.total /\ needs <= tell + boost.total + 128
      BY <1>1, LateFacts
    <2>3. boost.here = 0 => SoFar = 6240 + 48 * band
      BY <1>2, <2>1
    <2>4. boost.here # 0 => SoFar = 6280 + 48 * band
      BY <1>2, <2>1
    <2> QED
      BY <2>2, <2>3, <2>4
  <1> HIDE DEF spent
  <1>8. /\ t \in Nat /\ t <= Room /\ total \in Nat /\ here \in Nat /\ here > 0
        /\ total <= 48 * MaxBoosts + 352
    BY <1>1, <1>2, <1>3, <1>4, <1>5
  <1> DEFINE m == 6280 + 48 * band
  <1>9. kind.vbr # "cbr" => /\ t <= m + total
                            /\ needs <= t + total + 128
                            /\ BoostNeed <= t + total + 128
    <2> SUFFICES ASSUME kind.vbr # "cbr"
                 PROVE  t <= m + total /\ needs <= t + total + 128 /\ BoostNeed <= t + total + 128
      OBVIOUS
    <2>1. CASE boost.here = 0
      <3>1. tell <= 6240 + 48 * band + boost.total
        BY <1>2, <1>7, <2>1
      <3> QED
        BY <1>2, <1>3, <1>4, <1>5, <1>7, <3>1
    <2>2. CASE boost.here # 0
      <3>1. boost.cost = 1
        BY <1>2, <2>2 DEF FlagCost
      <3>2. tell <= 6280 + 48 * band + boost.total
        BY <1>2, <1>7, <2>2
      <3> QED
        BY <1>2, <1>3, <1>4, <1>5, <1>7, <3>1, <3>2
    <2> QED
      BY <2>1, <2>2
  <1>10. /\ boost' \in Boosts /\ boost'.total = total /\ boost'.here = here /\ boost'.cost = 1
    <2> DEFINE one == [boost EXCEPT !.total = total]
               two == [one EXCEPT !.here = here]
    <2>1. boost' = [boost EXCEPT !.total = total, !.here = here, !.cost = 1]
      BY <1>1, Zenon
    <2> HIDE DEF total, here
    <2>2. one \in Boosts /\ one.total = total
      BY <1>2, <1>8 DEF Boosts
    <2>3. boost' = [two EXCEPT !.cost = 1]
      BY <1>2, <2>1 DEF Boosts
    <2> HIDE DEF one
    <2>4. two \in Boosts /\ two.total = total /\ two.here = here
      BY <1>8, <2>2 DEF Boosts
    <2> HIDE DEF two
    <2> QED
      BY <2>3, <2>4 DEF Boosts
  <1>11. FlagCost(boost')
    BY <1>8, <1>10 DEF FlagCost
  <1>12. SoFar' = m /\ m \in Nat
    <2>1. SoFar' = 6240 + 48 * band' + (IF boost'.here > 0 THEN 40 ELSE 0)
      BY <1>1 DEF SoFar
    <2>2. SoFar' = 6240 + 48 * band + (IF here > 0 THEN 40 ELSE 0)
      BY <1>1, <1>10, <2>1
    <2> HIDE DEF here
    <2> QED
      BY <1>2, <1>8, <2>2
  <1> HIDE DEF m, t, total, here
  <1>13. kind.vbr # "cbr" => t <= m + total /\ needs' <= t + total + 128
    <2>1. needs' = needs \/ needs' = BoostNeed
      BY <1>6
    <2> QED
      BY <1>9, <2>1, Zenon
  <1>14. band' \in Nat /\ band' < kind.end /\ at' \notin {"bands", "shrink"}
    BY <1>1, <1>2
  <1> QED
    BY <1>1, <1>6, <1>8, <1>10, <1>11, <1>12, <1>13, <1>14, LateElement

LEMMA NextBoostHolds ==
    ASSUME FrameInv, NextBoost
    PROVE  FrameInv'
  <1> DEFINE spent == Cost(boost.cost, 0)
             t == IF MayBoost THEN tell + spent ELSE tell
             first == IF boost.here > 0 THEN Max({2, boost.first - 1}) ELSE boost.first
             last == band + 1 = kind.end
             below == boost.here < Cap(band, kind.C, kind.LM)
  <1>1. /\ at = "boost" /\ at' = IF last THEN "trim" ELSE "boost"
        /\ tell' = t
        /\ IF below THEN DecoderAsks(MayBoost, BoostNeed) ELSE UNCHANGED <<needs, refuses>>
        /\ boost' = [boost EXCEPT !.here = 0, !.first = first, !.cost = first]
        /\ band' = (band + 1) % kind.end
        /\ UNCHANGED <<kind, channel, bytes, seen, flags, reservoir, overspent>>
    BY DEF NextBoost
  <1>2. /\ boost \in Boosts /\ FlagCost(boost) /\ boost.total <= 48 * MaxBoosts + 352
        /\ boost.total \in Nat /\ boost.here \in Nat /\ boost.cost \in 1..6 /\ boost.first \in 2..6
        /\ needs \in Nat /\ needs <= Room /\ tell \in Nat /\ tell <= Room /\ Room \in Nat
        /\ bytes \in Nat /\ band \in Nat /\ band < kind.end /\ kind.end \in 1..21
    BY <1>1, LateFacts
  <1>3. spent \in {0, 8} /\ (boost.here = 0 => spent = 0) /\ spent <= 8 * boost.cost
    <2>1. CASE boost.here = 0
      <3>1. boost.cost >= 2
        BY <1>2, <2>1 DEF FlagCost
      <3> QED
        BY <1>2, <2>1, <3>1, CostFacts
    <2>2. CASE boost.here # 0
      <3>1. boost.cost = 1
        BY <1>2, <2>2 DEF FlagCost
      <3> QED
        BY <2>2, <3>1 DEF Cost
    <2> QED
      BY <2>1, <2>2
  <1> HIDE DEF spent
  <1>4. BoostNeed = tell + 8 * boost.cost + boost.total + 1 /\ BoostNeed \in Nat
    BY <1>2 DEF BoostNeed
  <1>5. MayBoost <=> below /\ BoostNeed <= Room
    BY DEF MayBoost
  <1> HIDE DEF below
  <1>6. /\ needs' \in Nat /\ needs' <= Room /\ refuses' = refuses
        /\ needs' \in {needs, BoostNeed}
    <2>1. CASE below
      <3>1. MayBoost \in BOOLEAN /\ (MayBoost => BoostNeed <= Room)
            /\ (~MayBoost => BoostNeed > Room)
        <4>1. ~MayBoost => ~(BoostNeed <= Room)
          BY <1>5, <2>1
        <4>2. MayBoost \in BOOLEAN
          BY DEF MayBoost
        <4> QED
          BY <1>2, <1>4, <1>5, <4>1, <4>2
      <3> HIDE DEF t, first, last
      <3> QED
        BY <1>1, <1>2, <1>4, <2>1, <3>1, Asked
    <2>2. CASE ~below
      BY <1>1, <1>2, <2>2
    <2> QED
      BY <2>1, <2>2
  <1>7. /\ t \in Nat /\ t <= Room /\ tell <= t /\ t <= tell + spent
    BY <1>2, <1>3, <1>4, <1>5
  <1>8. /\ kind.vbr # "cbr" => tell <= SoFar + boost.total /\ needs <= tell + boost.total + 128
        /\ boost.here = 0 => SoFar = 6240 + 48 * band
        /\ boost.here # 0 => SoFar = 6280 + 48 * band
    <2>1. SoFar = 6240 + 48 * band + (IF boost.here > 0 THEN 40 ELSE 0)
      BY <1>1 DEF SoFar
    <2> HIDE DEF spent, t, first, last
    <2>2. kind.vbr # "cbr" => tell <= SoFar + boost.total /\ needs <= tell + boost.total + 128
      BY <1>1, LateFacts
    <2>3. boost.here = 0 => SoFar = 6240 + 48 * band
      BY <1>2, <2>1
    <2>4. boost.here # 0 => SoFar = 6280 + 48 * band
      BY <1>2, <2>1
    <2> QED
      BY <2>2, <2>3, <2>4
  <1>9. first \in 2..6
    <2>1. Max({2, boost.first - 1}) = IF 2 >= boost.first - 1 THEN 2 ELSE boost.first - 1
      BY <1>2, MaxOfTwo
    <2> QED
      BY <1>2, <2>1
  <1> HIDE DEF t, first
  <1> DEFINE m == 6240 + 48 * (band + 1)
             k == IF last THEN 7248 ELSE m
  <1>10. kind.vbr # "cbr" => /\ t <= m + boost.total
                             /\ needs <= t + boost.total + 128
                             /\ BoostNeed <= t + boost.total + 128
    <2> SUFFICES ASSUME kind.vbr # "cbr"
                 PROVE  /\ t <= m + boost.total /\ needs <= t + boost.total + 128
                        /\ BoostNeed <= t + boost.total + 128
      OBVIOUS
    <2>1. CASE boost.here = 0
      <3>1. tell <= 6240 + 48 * band + boost.total
        BY <1>2, <1>8, <2>1
      <3> QED
        BY <1>2, <1>3, <1>4, <1>7, <1>8, <2>1, <3>1
    <2>2. CASE boost.here # 0
      <3>1. tell <= 6280 + 48 * band + boost.total
        BY <1>2, <1>8, <2>2
      <3> QED
        BY <1>2, <1>3, <1>4, <1>7, <1>8, <3>1
    <2> QED
      BY <2>1, <2>2
  <1>11. m \in Nat /\ k \in Nat /\ m <= k
    BY <1>2
  <1>12. band' \in Nat /\ band' < kind.end /\ (~last => band' = band + 1)
    BY <1>1, <1>2
  <1>13. /\ boost' \in Boosts /\ boost'.total = boost.total /\ boost'.here = 0
         /\ boost'.cost = first
    <2> DEFINE one == [boost EXCEPT !.here = 0]
               two == [one EXCEPT !.first = first]
    <2>1. one \in Boosts /\ one.total = boost.total /\ one.here = 0
      BY <1>2 DEF Boosts
    <2>2. boost' = [two EXCEPT !.cost = first]
      BY <1>1, <1>2 DEF Boosts
    <2> HIDE DEF one
    <2>3. two \in Boosts /\ two.total = boost.total /\ two.here = 0
      BY <1>9, <2>1 DEF Boosts
    <2> HIDE DEF two
    <2> QED
      BY <1>9, <2>2, <2>3 DEF Boosts
  <1>14. FlagCost(boost')
    BY <1>9, <1>13 DEF FlagCost
  <1>15. SoFar' = k
    <2>1. CASE last
      <3>1. at' = "trim"
        BY <1>1, <2>1
      <3> QED
        BY <2>1, <3>1 DEF SoFar
    <2>2. CASE ~last
      <3>1. at' = "boost"
        BY <1>1, <2>2
      <3>2. SoFar' = 6240 + 48 * band' + (IF boost'.here > 0 THEN 40 ELSE 0)
        BY <3>1 DEF SoFar
      <3>3. SoFar' = 6240 + 48 * (band + 1) + (IF 0 > 0 THEN 40 ELSE 0)
        BY <1>12, <1>13, <2>2, <3>2
      <3>4. 6240 + 48 * (band + 1) + (IF 0 > 0 THEN 40 ELSE 0) = m
        BY <1>2
      <3> HIDE DEF m, last
      <3> QED
        BY <2>2, <3>3, <3>4
    <2> QED
      BY <2>1, <2>2
  <1>16. at' \in {"boost", "trim"}
    BY <1>1
  <1> HIDE DEF m, k, last
  <1>17. kind.vbr # "cbr" => t <= k + boost.total /\ needs' <= t + boost.total + 128
    <2>1. needs' = needs \/ needs' = BoostNeed
      BY <1>6
    <2>2. kind.vbr # "cbr" => t <= k + boost.total
      BY <1>2, <1>7, <1>10, <1>11
    <2> QED
      BY <1>10, <2>1, <2>2, Zenon
  <1>18. at' \notin {"bands", "shrink"}
    BY <1>16
  <1> QED
    BY <1>1, <1>2, <1>6, <1>7, <1>11, <1>12, <1>13, <1>14, <1>15, <1>16, <1>17, <1>18, LateElement

LEMMA TrimHolds ==
    ASSUME FrameInv, NEW cost \in {0, 8, 32, 48}, Trim(cost)
    PROVE  FrameInv'
  <1> DEFINE need == tell + 48 + boost.total
             t == tell + cost
             coded == need <= Room
  <1>1. /\ at = "trim" /\ at' = IF kind.vbr = "cbr" THEN "bands" ELSE "shrink"
        /\ cost \in IF coded THEN {8, 48} ELSE {0}
        /\ tell' = t /\ DecoderAsks(coded, need)
        /\ UNCHANGED <<kind, band, channel, bytes, seen, flags, boost, reservoir, overspent>>
    BY DEF Trim
  <1>2. /\ boost \in Boosts /\ FlagCost(boost) /\ boost.total <= 48 * MaxBoosts + 352
        /\ boost.total \in Nat
        /\ needs \in Nat /\ needs <= Room /\ tell \in Nat /\ tell <= Room /\ Room \in Nat
        /\ bytes \in Nat /\ band \in Nat /\ band < kind.end
    BY <1>1, LateFacts
  <1>3. /\ need \in Nat /\ coded \in BOOLEAN /\ (coded => need <= Room) /\ (~coded => need > Room)
        /\ t \in Nat /\ t <= Room /\ tell <= t /\ t <= tell + 48
        /\ need <= t + boost.total + 128
    BY <1>1, <1>2
  <1> HIDE DEF need, t, coded
  <1>4. needs' \in Nat /\ needs' <= Room /\ needs' \in {needs, need} /\ refuses' = refuses
    BY <1>1, <1>2, <1>3, Asked
  <1>5. kind.vbr # "cbr" => /\ t <= 7296 + boost.total
                            /\ needs <= t + boost.total + 128
    <2>1. SoFar = 7248
      BY <1>1 DEF SoFar
    <2>2. kind.vbr # "cbr" => tell <= SoFar + boost.total /\ needs <= tell + boost.total + 128
      BY <1>1, LateFacts
    <2> QED
      BY <1>2, <1>3, <2>1, <2>2
  <1>6. kind.vbr # "cbr" => needs' <= t + boost.total + 128
    <2>1. needs' = needs \/ needs' = need
      BY <1>4
    <2>2. need <= t + boost.total + 128
      BY <1>3
    <2>3. kind.vbr # "cbr" => needs <= t + boost.total + 128
      BY <1>5
    <2> QED
      BY <2>1, <2>2, <2>3, Zenon
  <1>7. at' # "bands" => SoFar' = 7296
    <2>1. at' # "bands" => at' = "shrink"
      BY <1>1
    <2> QED
      BY <2>1 DEF SoFar
  <1>8. /\ band' \in Nat /\ band' < kind.end /\ boost' \in Boosts /\ FlagCost(boost')
        /\ boost'.total = boost.total /\ at' \in {"shrink", "bands"}
        /\ (kind.vbr # "cbr" => at' # "bands") /\ (at' = "shrink" => kind.vbr # "cbr")
    BY <1>1, <1>2
  <1> QED
    BY <1>1, <1>2, <1>3, <1>4, <1>5, <1>6, <1>7, <1>8, LateElement

\* What the margin and the cap leave is enough for what the decoder needs.
LEMMA ShrinkHolds ==
    ASSUME FrameInv, NEW target \in Targets, Shrink(target)
    PROVE  FrameInv'
  <1> DEFINE cap == FrameCap(kind)
             most == Min({bytes, cap})
             asked == Max({MinAllowed, (target + tell + 32) \div 64})
             wanted == Min({most, asked})
             available == IF flags.silence THEN 2 ELSE wanted
             level == IF kind.vbr = "cvbr" THEN reservoir + 64 * available - kind.rate ELSE 0
             refill == IF level < 0 /\ ~flags.silence THEN (-level) \div 64 ELSE 0
             long == available + refill
             b == Min({most, long})
  <1>1. /\ at = "shrink" /\ at' = "bands"
        /\ bytes' = b
        /\ reservoir' = IF kind.vbr = "cvbr" THEN Max({0, level}) ELSE reservoir
        /\ overspent' = IF kind.vbr = "cvbr" THEN Max({0, overspent}) + 64 * bytes' - kind.rate
                        ELSE overspent
        /\ UNCHANGED <<kind, band, channel, tell, seen, flags, boost, needs, refuses>>
    <2> DEFINE Cut(m, a, l) ==
                  /\ bytes' = Min({m, a + (IF l < 0 /\ ~flags.silence THEN (-l) \div 64 ELSE 0)})
                  /\ reservoir' = IF kind.vbr = "cvbr" THEN Max({0, l}) ELSE reservoir
                  /\ overspent' = IF kind.vbr = "cvbr"
                                  THEN Max({0, overspent}) + 64 * bytes' - kind.rate ELSE overspent
               Wanted(m) == Min({m, asked})
               Available(w) == IF flags.silence THEN 2 ELSE w
               Level(a) == IF kind.vbr = "cvbr" THEN reservoir + 64 * a - kind.rate ELSE 0
    <2>1. /\ at = "shrink" /\ at' = "bands"
          /\ UNCHANGED <<kind, band, channel, tell, seen, flags, boost, needs, refuses>>
          /\ \E m \in {most} : \E w \in {Wanted(m)} : \E a \in {Available(w)} :
             \E l \in {Level(a)} : Cut(m, a, l)
      BY DEF Shrink
    <2> HIDE DEF Cut, Wanted, Available, Level, most, asked
    <2>2. \E w \in {Wanted(most)} : \E a \in {Available(w)} : \E l \in {Level(a)} : Cut(most, a, l)
      BY <2>1
    <2>3. Cut(most, Available(Wanted(most)), Level(Available(Wanted(most))))
      BY <2>2
    <2>4. wanted = Wanted(most) /\ available = Available(wanted) /\ level = Level(available)
      BY DEF Wanted, Available, Level
    <2> HIDE DEF wanted, available, level
    <2>5. Cut(most, available, level)
      BY <2>3, <2>4
    <2> QED
      BY <2>1, <2>5 DEF Cut
  <1>2. /\ kind \in Kinds /\ kind.vbr # "cbr" /\ bytes \in 2..1275 /\ tell \in Nat /\ needs \in Nat
        /\ refuses \in Nat /\ reservoir \in Nat /\ overspent \in Int
        /\ boost.total \in Nat /\ boost.total <= 48 * MaxBoosts + 352
        /\ needs <= Room /\ tell <= Room /\ Room < refuses /\ Room = 64 * bytes
        /\ overspent <= reservoir /\ MaxBoosts \in Nat /\ target \in Nat /\ kind.rate \in Nat
    <2>1. FrameTyped
      BY DEF FrameInv
    <2>2. boost.total \in Nat
      BY <2>1 DEF FrameTyped
    <2>3. /\ kind \in Kinds /\ kind.vbr # "cbr" /\ bytes \in 2..1275 /\ tell \in Nat
          /\ needs \in Nat /\ refuses \in Nat /\ reservoir \in Nat /\ overspent \in Int
          /\ boost.total <= 48 * MaxBoosts + 352
      BY <1>1, <2>1 DEF FrameTyped
    <2>4. needs <= Room /\ tell <= Room /\ Room < refuses /\ Room = 64 * bytes
          /\ overspent <= reservoir
      BY DEF FrameInv, RoomHolds, ReservoirHolds, Room
    <2> QED
      BY <2>2, <2>3, <2>4, FrameAssumption
  <1>3. /\ tell <= 7296 + boost.total /\ needs <= tell + boost.total + 128
        /\ flags.silence => bytes = 2
    <2>1. SoFar = 7296
      BY <1>1 DEF SoFar
    <2>2. /\ tell <= SoFar + boost.total /\ needs <= tell + boost.total + 128
          /\ flags.silence => bytes = 2
      BY <1>1, <1>2 DEF FrameInv, VariableHolds, Ended
    <2> QED
      BY <2>1, <2>2
  <1>4. cap \in 159..1275 /\ 8128 + 96 * MaxBoosts <= 64 * cap
    BY <1>2, CapFacts, FrameAssumption
  <1>5. /\ MinAllowed \in Nat /\ MinAllowed >= 2
        /\ tell + boost.total + 128 <= 64 * MinAllowed
    <2> DEFINE held == tell + boost.total + 63
    <2>1. held \in Nat /\ tell + boost.total = held - 63
      BY <1>2
    <2> HIDE DEF held
    <2>2. held \div 64 \in Nat /\ held <= 64 * (held \div 64) + 63
      BY <2>1
    <2>3. MinAllowed = held \div 64 + 2
      BY DEF MinAllowed, held
    <2> QED
      BY <1>2, <2>1, <2>2, <2>3
  <1>6. (target + tell + 32) \div 64 \in Nat
    BY <1>2
  <1> HIDE DEF cap
  <1>7. most = (IF bytes <= cap THEN bytes ELSE cap) /\ most \in 2..1275 /\ most <= bytes
    <2>1. most = IF bytes <= cap THEN bytes ELSE cap
      BY <1>2, <1>4, MinOfTwo
    <2>2. bytes \in 2..1275 /\ cap \in 159..1275
      BY <1>2, <1>4
    <2> HIDE DEF most
    <2> QED
      BY <2>1, <2>2
  <1>8. asked \in Nat /\ asked >= MinAllowed
    <2> DEFINE w == (target + tell + 32) \div 64
    <2>1. w \in Nat
      BY <1>6
    <2> HIDE DEF w
    <2>2. Max({MinAllowed, w}) = IF MinAllowed >= w THEN MinAllowed ELSE w
      BY <1>5, <2>1, MaxOfTwo
    <2>3. Max({MinAllowed, w}) \in Nat /\ Max({MinAllowed, w}) >= MinAllowed
      BY <1>5, <2>1, <2>2
    <2> QED
      BY <2>3 DEF w
  <1> HIDE DEF most, asked
  <1>9. wanted = IF most <= asked THEN most ELSE asked
    BY <1>7, <1>8, MinOfTwo
  <1>10. needs <= 64 * most /\ tell <= 64 * most
    BY <1>2, <1>3, <1>4, <1>7
  <1>11. needs <= 64 * asked /\ tell <= 64 * asked /\ asked >= 2
    BY <1>2, <1>3, <1>5, <1>8
  <1> HIDE DEF wanted
  <1>12. /\ wanted \in 2..1275 /\ wanted <= most /\ needs <= 64 * wanted /\ tell <= 64 * wanted
    <2>1. CASE most <= asked
      <3>1. wanted = most
        BY <1>9, <2>1
      <3> QED
        BY <1>7, <1>10, <3>1
    <2>2. CASE ~(most <= asked)
      <3>1. wanted = asked
        BY <1>9, <2>2
      <3>2. asked \in 2..1275 /\ asked <= most
        BY <1>7, <1>8, <1>11, <2>2
      <3> QED
        BY <1>11, <3>1, <3>2
    <2> QED
      BY <2>1, <2>2
  <1>13. /\ available \in 2..1275 /\ available <= most
         /\ needs <= 64 * available /\ tell <= 64 * available
    <2>1. CASE flags.silence
      BY <1>2, <1>3, <1>7, <2>1
    <2>2. CASE ~flags.silence
      BY <1>12, <2>2
    <2> QED
      BY <2>1, <2>2
  <1> HIDE DEF available
  <1>14. level \in Int /\ refill \in Nat /\ (level >= 0 => refill = 0)
         /\ (level < 0 => 64 * refill <= -level)
    <2>1. level \in Int
      BY <1>2, <1>13
    <2> HIDE DEF level
    <2>2. level < 0 => (-level) \div 64 \in Nat /\ 64 * ((-level) \div 64) <= -level
      BY <2>1
    <2> QED
      BY <2>1, <2>2
  <1> HIDE DEF refill
  <1>15. kind.vbr = "cvbr" => level = reservoir + 64 * available - kind.rate
    OBVIOUS
  <1> HIDE DEF level
  <1>16. long \in Nat /\ available <= long
    BY <1>13, <1>14
  <1> HIDE DEF long
  <1>17. b = IF most <= long THEN most ELSE long
    BY <1>7, <1>16, MinOfTwo
  <1> HIDE DEF b
  <1>18. b \in 2..1275 /\ b <= bytes /\ b <= long /\ available <= b
    BY <1>2, <1>7, <1>13, <1>16, <1>17
  <1>19. needs <= 64 * b /\ tell <= 64 * b /\ 64 * b < refuses
    BY <1>2, <1>13, <1>18
  <1>20. Room' = 64 * b
    BY <1>1 DEF Room
  <1>21. RoomHolds'
    BY <1>1, <1>19, <1>20 DEF RoomHolds
  <1>22. SeenAgrees' /\ VariableHolds'
    BY <1>1 DEF SeenAgrees, VariableHolds, Ended
  <1>23. kind.vbr = "cvbr" =>
            \E r \in Nat, o \in Int : reservoir' = r /\ overspent' = o /\ r <= kind.rate /\ o <= r
    <2> SUFFICES ASSUME kind.vbr = "cvbr"
                 PROVE  \E r \in Nat, o \in Int : /\ reservoir' = r /\ overspent' = o
                                                  /\ r <= kind.rate /\ o <= r
      OBVIOUS
    <2>1. kind.rate >= 128 /\ reservoir <= kind.rate
      BY <1>2, FrameAssumption DEF FrameInv, ReservoirHolds
    <2>2. 64 * bytes <= 128 \/ 64 * bytes <= 2 * kind.rate - reservoir
      <3>1. 64 * bytes <= Max({128, 2 * kind.rate - reservoir})
        BY <1>1 DEF FrameInv, ReservoirHolds, Ended
      <3> DEFINE two == 2 * kind.rate - reservoir
      <3>2. two \in Int
        BY <1>2
      <3> HIDE DEF two
      <3>3. Max({128, two}) = IF 128 >= two THEN 128 ELSE two
        BY <3>2, MaxOfTwo
      <3>4. 64 * bytes <= Max({128, two})
        BY <3>1 DEF two
      <3>5. 64 * bytes <= 128 \/ 64 * bytes <= two
        BY <3>3, <3>4
      <3> QED
        BY <3>5 DEF two
    <2> DEFINE r == Max({0, level})
               f == Max({0, overspent})
               o == f + 64 * b - kind.rate
    <2>3. r = (IF 0 >= level THEN 0 ELSE level) /\ f = (IF 0 >= overspent THEN 0 ELSE overspent)
      BY <1>2, <1>14, MaxOfTwo
    <2>4. reservoir' = r /\ overspent' = o
      BY <1>1
    <2> HIDE DEF r, f
    <2>5. r \in Nat /\ f \in Nat /\ f <= reservoir /\ (level >= 0 => r = level)
          /\ (level < 0 => r = 0)
      BY <1>2, <1>14, <2>3
    <2>6. level <= kind.rate
      BY <1>2, <1>7, <1>13, <1>15, <2>1, <2>2
    <2>7. r <= kind.rate
      BY <1>2, <1>14, <2>5, <2>6
    <2>8. o \in Int /\ o <= r
      <3>1. level = reservoir + 64 * available - kind.rate /\ long = available + refill
        BY <1>15 DEF long
      <3>2. CASE level >= 0
        <4>1. long = available /\ b <= available
          BY <1>13, <1>14, <1>18, <3>1, <3>2
        <4> QED
          BY <1>2, <1>13, <1>14, <1>18, <2>5, <3>1, <3>2, <4>1
      <3>3. CASE level < 0
        BY <1>2, <1>13, <1>14, <1>18, <2>5, <3>1, <3>3
      <3> QED
        BY <1>14, <3>2, <3>3
    <2> HIDE DEF o
    <2> QED
      BY <2>4, <2>5, <2>7, <2>8
  <1>24. reservoir' \in Nat /\ overspent' \in Int /\ overspent' <= reservoir'
    <2>1. CASE kind.vbr = "cvbr"
      BY <1>23, <2>1
    <2>2. CASE kind.vbr # "cvbr"
      BY <1>1, <1>2, <2>2
    <2> QED
      BY <2>1, <2>2
  <1>25. \A k \in Kinds : k.vbr = "cvbr" => reservoir' <= k.rate
    <2> SUFFICES ASSUME NEW k \in Kinds, k.vbr = "cvbr"
                 PROVE  reservoir' <= k.rate
      OBVIOUS
    <2>1. CASE kind.vbr = "cvbr"
      <3>1. k.rate = kind.rate
        BY <1>2, <2>1, FrameAssumption
      <3> QED
        BY <1>23, <2>1, <3>1
    <2>2. CASE kind.vbr # "cvbr"
      <3>1. reservoir' = reservoir
        BY <1>1, <2>2
      <3>2. reservoir <= k.rate
        BY DEF FrameInv, ReservoirHolds
      <3> QED
        BY <3>1, <3>2
    <2> QED
      BY <2>1, <2>2
  <1>26. ReservoirHolds'
    BY <1>1, <1>24, <1>25 DEF ReservoirHolds, Ended
  <1>27. FrameTyped'
    <2>1. /\ seen \in Nat /\ band \in Nat /\ channel \in 1..2 /\ band < kind.end /\ channel <= kind.C
          /\ flags \in [silence : BOOLEAN, transient : {0, 1}, logp : {0, 2, 4, 5},
                        reserve : {0, 8}, curr : {0, 1}, changed : {0, 1}]
          /\ boost \in [total : Nat, here : Nat, cost : 1..6, first : 2..6]
          /\ (IF boost.here = 0 THEN boost.cost >= 2 ELSE boost.cost = 1)
      BY <1>1 DEF FrameInv, FrameTyped
    <2>2. bytes' \in 2..1275
      BY <1>1, <1>18
    <2> QED
      BY <1>1, <1>2, <1>24, <2>1, <2>2 DEF FrameTyped
  <1> QED
    BY <1>21, <1>22, <1>26, <1>27 DEF FrameInv

LEMMA CodeBandsHolds ==
    ASSUME FrameInv, NEW all \in BOOLEAN, CodeBands(all)
    PROVE  FrameInv'
  <1> DEFINE acr == AntiCollapseReserve
             spent == IF all THEN Max({tell, Room - acr}) ELSE tell
             shaped == spent + acr
             whole == WholeBits(shaped)
             spare == (Room - whole) \div 8
             finer == FinerEnergies(spare)
             t == shaped + 8 * finer
  <1>1. /\ at = "bands" /\ at' = "done" /\ tell' = t
        /\ UNCHANGED <<kind, band, channel, bytes, seen, flags, boost, needs, refuses, reservoir,
                       overspent>>
    BY DEF CodeBands
  <1>2. FrameTyped /\ tell \in Nat /\ tell <= Room /\ bytes \in 2..1275 /\ kind \in Kinds
    BY <1>1 DEF FrameInv, FrameTyped, RoomHolds
  <1>3. Room \in Nat /\ Room = 8 * (8 * bytes) /\ 8 * bytes \in Nat
    BY <1>2, RoomFacts
  <1>4. kind.C \in 1..2 /\ kind.end \in 1..21 /\ kind.LM \in 0..3
    BY <1>2, FrameAssumption DEF BandCount, MaxLM
  <1>5. acr \in {0, 8} /\ tell + acr <= Room
    <2>1. LeftBits = Room - tell - 1
      BY DEF LeftBits
    <2>2. CASE kind.LM >= 2 /\ LeftBits >= 8 * (kind.LM + 2)
      <3>1. tell + 8 <= Room
        BY <1>2, <1>3, <1>4, <2>1, <2>2
      <3> QED
        BY <1>2, <1>3, <3>1 DEF AntiCollapseReserve
    <2>3. CASE ~(kind.LM >= 2 /\ LeftBits >= 8 * (kind.LM + 2))
      <3>1. acr = 0
        BY <2>3 DEF AntiCollapseReserve
      <3> HIDE DEF acr
      <3> QED
        BY <1>2, <1>3, <3>1
    <2> QED
      BY <2>2, <2>3
  <1> HIDE DEF acr
  <1>6. spent \in Nat /\ shaped \in Nat /\ shaped <= Room
    <2>1. Max({tell, Room - acr}) = IF tell >= Room - acr THEN tell ELSE Room - acr
      BY <1>2, <1>3, <1>5, MaxOfTwo
    <2>2. Max({tell, Room - acr}) \in Nat /\ Max({tell, Room - acr}) + acr <= Room
      BY <1>2, <1>3, <1>5, <2>1
    <2> QED
      BY <1>2, <1>3, <1>5, <2>2
  <1> HIDE DEF spent, shaped
  <1>7. whole \in Nat /\ shaped <= whole /\ whole <= Room
    <2>1. \A m \in Nat : shaped <= 8 * m => WholeBits(shaped) <= 8 * m
      BY <1>6, WholeBitsUpTo
    <2>2. whole <= Room
      BY <1>3, <1>6, <2>1
    <2> QED
      BY <1>6, <2>2, WholeBitsFacts
  <1> HIDE DEF whole
  <1>8. spare \in Nat /\ 8 * spare <= Room - whole
    BY <1>3, <1>7
  <1> HIDE DEF spare
  <1>9. finer \in Nat /\ finer <= spare
    <2> DEFINE even == spare - (spare % kind.C)
               full == 2 * kind.end * kind.C
    <2>1. even \in Nat /\ even <= spare
      <3>1. kind.C = 1 \/ kind.C = 2
        BY <1>4
      <3>2. spare % 1 \in Nat /\ spare % 1 <= spare /\ spare % 2 \in Nat /\ spare % 2 <= spare
        BY <1>8
      <3> QED
        BY <1>8, <3>1, <3>2
    <2>2. full \in Nat
      <3>1. kind.C = 1 \/ kind.C = 2
        BY <1>4
      <3> QED
        BY <1>4, <3>1
    <2> HIDE DEF even, full
    <2>3. Min({full, even}) = IF full <= even THEN full ELSE even
      BY <2>1, <2>2, MinOfTwo
    <2>4. Min({full, even}) \in Nat /\ Min({full, even}) <= spare
      BY <1>8, <2>1, <2>2, <2>3
    <2>5. finer = Min({full, even})
      BY DEF FinerEnergies, full, even
    <2> HIDE DEF finer
    <2> QED
      BY <2>4, <2>5
  <1> HIDE DEF finer
  <1>10. t \in Nat /\ t <= Room
    BY <1>3, <1>6, <1>7, <1>8, <1>9
  <1> HIDE DEF t
  <1>11. FrameTyped'
    <2>1. tell' \in Nat
      BY <1>1, <1>10
    <2> QED
      BY <1>1, <1>2, <2>1 DEF FrameTyped
  <1>12. RoomHolds'
    <2>1. Room' = Room
      BY <1>1 DEF Room
    <2>2. needs <= Room /\ Room < refuses
      BY DEF FrameInv, RoomHolds
    <2> QED
      BY <1>1, <1>10, <2>1, <2>2 DEF RoomHolds
  <1>13. SeenAgrees' /\ VariableHolds'
    BY <1>1 DEF SeenAgrees, VariableHolds, Ended
  <1>14. ReservoirHolds'
    BY <1>1 DEF FrameInv, ReservoirHolds, Ended
  <1> QED
    BY <1>11, <1>12, <1>13, <1>14 DEF FrameInv

LEMMA NextFrameHolds ==
    ASSUME FrameInv, NextFrame
    PROVE  FrameInv'
  <1>1. /\ at' = "idle" /\ kind'.vbr = "cbr" /\ bytes' = 2 /\ tell' = 8 /\ seen' = 8 /\ band' = 0
        /\ channel' = 1 /\ needs' = 0 /\ refuses' = Never
        /\ flags' = NoFlags /\ boost' = NoBoost /\ reservoir' = reservoir /\ overspent' = overspent
    BY DEF NextFrame
  <1>2. FrameTyped'
    <2>1. reservoir \in Nat /\ overspent \in Int /\ MaxBoosts \in Nat
      BY FrameAssumption DEF FrameInv, FrameTyped
    <2>2. flags' \in [silence : BOOLEAN, transient : {0, 1}, logp : {0, 2, 4, 5},
                      reserve : {0, 8}, curr : {0, 1}, changed : {0, 1}]
      BY <1>1 DEF NoFlags
    <2>3. boost' \in [total : Nat, here : Nat, cost : 1..6, first : 2..6]
          /\ boost'.here = 0 /\ boost'.cost = 6 /\ boost'.total = 0
      BY <1>1 DEF NoBoost
    <2> QED
      BY <1>1, <2>1, <2>2, <2>3 DEF FrameTyped, Never
  <1>3. SeenAgrees' /\ RoomHolds'
    <2>1. (bytes \in 2..1275 => /\ Room \in Nat /\ Room >= 128
                                /\ Room = 8 * (8 * bytes) /\ Room < Never)'
      BY RoomFacts, PTL
    <2>2. Room' \in Nat /\ Room' >= 128 /\ Room' < Never
      BY <1>1, <2>1
    <2> QED
      BY <1>1, <2>2 DEF SeenAgrees, RoomHolds
  <1>4. VariableHolds'
    BY <1>1 DEF VariableHolds, Ended
  <1>5. ReservoirHolds'
    BY <1>1 DEF FrameInv, ReservoirHolds, Ended
  <1> QED
    BY <1>2, <1>3, <1>4, <1>5 DEF FrameInv

-----------------------------------------------------------------------------
(* The theorems                                                             *)

LEMMA FrameInvInductive == FrameInv /\ [FrameNext]_frameVars => FrameInv'
  <1> SUFFICES ASSUME FrameInv, [FrameNext]_frameVars
               PROVE  FrameInv'
    OBVIOUS
  <1>1. ASSUME NEW k \in Kinds, NEW n \in Buffers, StartFrame(k, n)
        PROVE  FrameInv'
    BY <1>1, StartFrameHolds
  <1>2. ASSUME NEW s \in BOOLEAN, Silence(s)
        PROVE  FrameInv'
    BY <1>2, SilenceHolds
  <1>3. ASSUME NEW on \in BOOLEAN, NEW cost \in {0, 8, 88, 128}, Postfilter(on, cost)
        PROVE  FrameInv'
    BY <1>3, PostfilterHolds
  <1>4. ASSUME NEW t \in {0, 1}, Transient(t) \/ Intra(t) \/ TfBand(t)
        PROVE  FrameInv'
    BY <1>4, TransientHolds, IntraHolds, TfBandHolds
  <1>5. ASSUME NEW cost \in {0, 8, 16, 120}, CoarseEnergy(cost)
        PROVE  FrameInv'
    BY <1>5, CoarseEnergyHolds
  <1>6. ASSUME TfStart \/ TfSelect
        PROVE  FrameInv'
    BY <1>6, TfStartHolds, TfSelectHolds
  <1>7. ASSUME NEW cost \in {0, 8, 32, 48}, Spread(cost) \/ Trim(cost)
        PROVE  FrameInv'
    BY <1>7, SpreadHolds, TrimHolds
  <1>8. ASSUME BoostBand \/ NextBoost
        PROVE  FrameInv'
    BY <1>8, BoostBandHolds, NextBoostHolds
  <1>9. ASSUME NEW target \in Targets, Shrink(target)
        PROVE  FrameInv'
    BY <1>9, ShrinkHolds
  <1>10. ASSUME NEW all \in BOOLEAN, CodeBands(all)
         PROVE  FrameInv'
    BY <1>10, CodeBandsHolds
  <1>11. CASE NextFrame
    BY <1>11, NextFrameHolds
  <1>12. CASE UNCHANGED frameVars
    <2>1. FrameTyped'
      BY <1>12 DEF FrameInv, FrameTyped, frameVars
    <2>2. SeenAgrees'
      BY <1>12 DEF FrameInv, SeenAgrees, Tell, WholeBits, Room, frameVars
    <2>3. RoomHolds'
      BY <1>12 DEF FrameInv, RoomHolds, Tell, WholeBits, Room, frameVars
    <2>4. VariableHolds'
      <3>1. SoFar' = SoFar
        BY <1>12 DEF SoFar, frameVars
      <3> QED
        BY <1>12, <3>1 DEF FrameInv, VariableHolds, frameVars
    <2>5. ReservoirHolds'
      BY <1>12 DEF FrameInv, ReservoirHolds, frameVars
    <2> QED
      BY <2>1, <2>2, <2>3, <2>4, <2>5 DEF FrameInv
  <1> QED
    BY <1>1, <1>2, <1>3, <1>4, <1>5, <1>6, <1>7, <1>8, <1>9, <1>10, <1>11, <1>12 DEF FrameNext

\* The encoder's elements and the decoder's are the same whatever VBR takes away from a
\* frame: what the decoder needs has arrived, and no length refuses it an element or
\* lends it one (celt_encoder_encode.go, celt_decoder.go).
THEOREM SyntaxAlwaysAgrees == FrameSpec => []SyntaxAgrees
  <1>1. FrameInv => SyntaxAgrees
    BY DEF FrameInv, RoomHolds, SyntaxAgrees
  <1> QED
    BY <1>1, FrameInitHolds, FrameInvInductive, PTL DEF FrameSpec

\* No frame goes past its bytes, and in constrained VBR no stretch of the stream past
\* its rate by more than a frame (the reservoir of CeltEncodeWithEC).
THEOREM BudgetAlwaysHolds == FrameSpec => []BudgetHolds
  <1>1. FrameInv => BudgetHolds
    <2> SUFFICES ASSUME FrameInv PROVE BudgetHolds
      OBVIOUS
    <2>1. NeverBusts
      BY TellFits DEF FrameInv, RoomHolds, NeverBusts
    <2>2. RateHolds
      <3> SUFFICES ASSUME kind.vbr = "cvbr"
                   PROVE  overspent <= kind.rate /\ reservoir \in 0..kind.rate
        BY DEF RateHolds
      <3>1. kind \in Kinds
        BY DEF FrameInv, FrameTyped
      <3>2. /\ reservoir <= kind.rate /\ overspent <= reservoir /\ reservoir \in Nat
            /\ overspent \in Int /\ kind.rate \in Nat
        BY <3>1, FrameAssumption DEF FrameInv, ReservoirHolds, FrameTyped
      <3> QED
        BY <3>2
    <2> QED
      BY <2>1, <2>2 DEF BudgetHolds
  <1> QED
    BY <1>1, FrameInitHolds, FrameInvInductive, PTL DEF FrameSpec

=============================================================================
