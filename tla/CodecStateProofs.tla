---------------------------- MODULE CodecStateProofs ----------------------------
(***************************************************************************)
(* Theorems about what the CELT and the SILK decoder carry from one frame  *)
(* to the next, CeltHistory and SilkPitch, and about the frequencies of    *)
(* the SILK decoder's filter, SilkNlsf.                                    *)
(***************************************************************************)
EXTENDS CeltHistory, SilkPitch, SilkNlsf, WellFoundedInduction, FiniteSetTheorems, TLAPS

LEMMA FreshFacts ==
    /\ FreshHeard \in [run : Nat, trusted : BOOLEAN, afresh : BOOLEAN, lost : Nat,
                       filter : Filters, pitch : BOOLEAN, sound : BOOLEAN]
    /\ FreshHeard.afresh /\ FreshHeard.sound /\ FreshHeard.lost = 0
    /\ FreshHeard.filter = Off /\ FreshHeard.pitch = FALSE
    /\ [old |-> Off, now |-> Off] \in [old : Filters, now : Filters]
  BY HistoryAssumption DEF FreshHeard

LEMMA BothFacts ==
    ASSUME NEW e \in Int
    PROVE  Both(e) \in [1..2 -> Int] /\ \A c \in 1..2 : Both(e)[c] = e
  BY DEF Both

\* The energies of a decoder that was reset: nothing is remembered.
NothingHeard ==
    /\ oldBandE = Both(0) /\ backgroundLogE = Both(0)
    /\ oldLogE = Both(Silent) /\ oldLogE2 = Both(Silent) /\ lastTwo = FreshTwo
    /\ startBand \in Nat /\ endBand \in Nat /\ channels \in {1, 2}

LEMMA FreshEnergies == NothingHeard => EnergyInv
  <1> SUFFICES ASSUME NothingHeard PROVE EnergyInv
    OBVIOUS
  <1> USE DEF NothingHeard
  <1>1. Silent \in Int /\ Silent <= 0 /\ 0 \in Int
    BY DEF Silent
  <1>2. lastTwo.last = Both(0) /\ lastTwo.before = Both(0)
    BY DEF FreshTwo
  <1>3. lastTwo \in [last : [1..2 -> Int], before : [1..2 -> Int], steady : BOOLEAN]
    BY <1>1, BothFacts DEF FreshTwo
  <1>4. EnergyTypes
    BY <1>1, <1>3, BothFacts DEF EnergyTypes
  <1>5. Unheard
    BY <1>1, BothFacts DEF Unheard
  <1>6. \A c \in 1..2 : /\ oldBandE[c] >= Silent /\ backgroundLogE[c] >= Silent
                        /\ lastTwo.last[c] >= Silent /\ lastTwo.before[c] >= Silent
                        /\ oldLogE[c] <= lastTwo.last[c]
    BY <1>1, <1>2, BothFacts
  <1> QED
    BY <1>2, <1>4, <1>5, <1>6 DEF EnergyInv

LEMMA HistoryStarts == HistoryInit => HistoryInv
  <1> SUFFICES ASSUME HistoryInit PROVE HistoryInv
    OBVIOUS
  <1>1. /\ heard = FreshHeard /\ postfilter = [old |-> Off, now |-> Off]
        /\ lossDuration = 0 /\ plcDuration = 0 /\ skipPlc = TRUE /\ lastPitch = FALSE
        /\ prefilterAndFold = FALSE /\ lastFrameType = "none"
    BY DEF HistoryInit
  <1>2. ControlInv
    BY <1>1, FreshFacts DEF ControlInv
  <1>3. EnergyInv
    BY FreshEnergies DEF HistoryInit, NothingHeard
  <1> QED
    BY <1>2, <1>3 DEF HistoryInv

\* What is heeded of an energy grows with it.
LEMMA HeededGrows ==
    ASSUME NEW a \in Int, NEW b \in Int, a <= b
    PROVE  Heeded(a) <= Heeded(b)
  BY DEF Heeded, Loudest

LEMMA Product == \A x, y \in Nat : x * y \in Nat
  OBVIOUS

LEMMA MissingIsNat ==
    ASSUME lossDuration \in Nat, NEW LM \in 0..3
    PROVE  Missing(LM) \in Nat
  <1>1. \A a \in Nat : a \div 1 \in Nat /\ a \div 2 \in Nat /\ a \div 4 \in Nat /\ a \div 8 \in Nat
    OBVIOUS
  <1>2. 2^0 = 1 /\ 2^1 = 2 /\ 2^2 = 4 /\ 2^3 = 8
    OBVIOUS
  <1>3. LM = 0 \/ LM = 1 \/ LM = 2 \/ LM = 3
    OBVIOUS
  <1>4. lossDuration \div 2^LM \in Nat
    BY <1>1, <1>2, <1>3, Zenon
  <1> DEFINE n == lossDuration \div 2^LM
  <1> HIDE DEF n
  <1>5. Least(10, n) \in Nat
    BY <1>4 DEF Least, n
  <1> QED
    BY <1>5 DEF Missing, n

\* Behind a loss an energy is never raised, and one that is not falling is not above
\* those of the frames before.
LEMMA SafeBounds ==
    ASSUME lossDuration \in Nat, NEW LM \in 0..3,
           NEW e0 \in Int, NEW e1 \in Int, NEW e2 \in Int
    PROVE  /\ Safe(e0, e1, e2, LM) \in Int
           /\ Heeded(Safe(e0, e1, e2, LM)) <= Heeded(e0)
           /\ e1 <= e0 /\ e2 <= e0 =>
                 Safe(e0, e1, e2, LM) <= e1 /\ Safe(e0, e1, e2, LM) <= e2
  <1> DEFINE fall == Fall(e0, e1, e2)
             drop == (1 + Missing(LM)) * fall
             s == Safety(LM)
  <1>1. (e2 - e0) \div 2 \in Int
    OBVIOUS
  <1>2. fall \in Nat
    BY <1>1 DEF Fall, Loudest, Least
  <1>3. drop \in Nat
    BY <1>2, MissingIsNat, Product
  <1>4. s \in Nat
    BY DEF Safety
  <1>5. Safe(e0, e1, e2, LM) = (IF e0 < Loudest(e1, e2) THEN Loudest(-40, e0 - drop)
                                ELSE Least(Least(e0, e1), e2)) - s
    BY DEF Safe
  <1> HIDE DEF fall, drop, s
  <1> QED
    BY <1>3, <1>4, <1>5 DEF Heeded, Loudest, Least

\* A frame's energies are predicted from those of the last, or from none that is louder.
LEMMA PredictsRight ==
    ASSUME ControlInv, EnergyInv, NEW LM \in 0..3, NEW C \in 1..2
    PROVE  PredictsWell(Predicted(LM, C), C)
  <1> SUFFICES ASSUME WatchedIsCoded, NEW c \in 1..C
               PROVE  IF heard.lost = 0 THEN Predicted(LM, C)[c] = Of(lastTwo.last, C, c)
                      ELSE /\ Heeded(Predicted(LM, C)[c]) <= Heeded(Of(lastTwo.last, C, c))
                           /\ lastTwo.steady =>
                                 Heeded(Predicted(LM, C)[c]) <= Heeded(Of(lastTwo.before, C, c))
    BY DEF PredictsWell
  <1> DEFINE e0 == Joined(C)[c]
             e1 == oldLogE[c]
             e2 == oldLogE2[c]
             last == Of(lastTwo.last, C, c)
             before == Of(lastTwo.before, C, c)
  <1>1. c \in 1..2 /\ c \in {1, 2} /\ (C = 1 => c = 1)
    OBVIOUS
  <1>2. lossDuration \in Nat /\ lossDuration = heard.lost
    BY DEF ControlInv
  <1>3. e0 = Of(oldBandE, C, c)
    BY <1>1 DEF Joined, Of, EnergyInv, EnergyTypes
  <1>4. /\ e0 \in Int /\ e1 \in Int /\ e2 \in Int /\ last \in Int /\ before \in Int
        /\ e0 >= oldBandE[c] /\ oldBandE[c] \in Int
        /\ last >= lastTwo.last[c] /\ before >= lastTwo.before[c]
        /\ lastTwo.last[c] \in Int /\ lastTwo.before[c] \in Int
        /\ lastTwo.last[c] >= Silent /\ lastTwo.before[c] >= Silent /\ oldBandE[c] >= Silent
    BY <1>1, <1>3 DEF Of, Loudest, EnergyInv, EnergyTypes
  <1>5. CASE heard.lost = 0
    <2>1. Predicted(LM, C) = Joined(C)
      BY <1>2, <1>5 DEF Predicted
    <2>2. oldBandE = lastTwo.last
      BY <1>5 DEF EnergyInv
    <2> QED
      BY <1>3, <1>5, <2>1, <2>2
  <1>6. CASE heard.lost # 0
    <2> DEFINE p == Safe(e0, e1, e2, LM)
    <2>1. Predicted(LM, C)[c] = p
      BY <1>1, <1>2, <1>6 DEF Predicted
    <2> HIDE DEF e0, e1, e2
    <2>2. /\ p \in Int /\ Heeded(p) <= Heeded(e0)
          /\ e1 <= e0 /\ e2 <= e0 => p <= e1 /\ p <= e2
      BY <1>2, <1>4, SafeBounds
    <2>3. CASE Unheard
      <3>1. e1 = Silent /\ e2 = Silent
        BY <1>1, <2>3 DEF Unheard, e1, e2
      <3> HIDE DEF p, last, before
      <3>2. p <= last /\ p <= before
        BY <1>4, <2>2, <3>1 DEF Silent
      <3>3. Heeded(p) <= Heeded(last) /\ Heeded(p) <= Heeded(before)
        BY <1>4, <2>2, <3>2, HeededGrows
      <3> QED
        BY <1>6, <2>1, <3>3 DEF p, last, before
    <2>4. CASE Followed
      <3>1. e0 <= last
        BY <1>1, <1>3, <2>4 DEF Of, Loudest, Followed, EnergyInv, EnergyTypes, e0
      <3>2. lastTwo.steady => e1 = lastTwo.last[c] /\ oldBandE[c] = lastTwo.last[c]
                              /\ e2 <= lastTwo.before[c]
        BY <1>1, <2>4 DEF Followed, e1, e2
      <3> HIDE DEF p, last, before
      <3>3. Heeded(e0) \in Int /\ Heeded(p) \in Int /\ Heeded(last) \in Int /\ Heeded(before) \in Int
        BY <1>4, <2>2 DEF Heeded, Loudest
      <3>4. Heeded(p) <= Heeded(last)
        BY <1>4, <2>2, <3>1, <3>3, HeededGrows
      <3>5. ASSUME lastTwo.steady PROVE Heeded(p) <= Heeded(before)
        <4>1. e1 <= e0 /\ e2 <= before
          BY <1>4, <3>2, <3>5
        <4>2. CASE e2 <= e0
          <5>1. p <= before
            BY <1>4, <2>2, <4>1, <4>2
          <5> QED
            BY <1>4, <2>2, <5>1, HeededGrows
        <4>3. CASE e0 <= e2
          <5>1. e0 <= before
            BY <1>4, <4>1, <4>3
          <5>2. Heeded(e0) <= Heeded(before)
            BY <1>4, <5>1, HeededGrows
          <5> QED
            BY <2>2, <3>3, <5>2
        <4> QED
          BY <1>4, <4>2, <4>3
      <3> QED
        BY <1>6, <2>1, <3>4, <3>5 DEF p, last, before
    <2> QED
      BY <2>3, <2>4 DEF EnergyInv
  <1> QED
    BY <1>5, <1>6

\* What a frame that is there leaves behind.
LEMMA RememberKeeps ==
    ASSUME EnergyInv, NEW r \in Received, NEW rise \in {0, 1}, ReceiveFrame(r, rise)
    PROVE  EnergyInv'
  <1> DEFINE d == Decoded(r)
  <1>1. /\ r.C \in 1..2 /\ r.energy \in [1..2 -> Int] /\ \A c \in 1..2 : r.energy[c] >= Silent
        /\ r.transient \in BOOLEAN
    BY HistoryAssumption
  <1>2. Joined(r.C) \in [1..2 -> Int] /\ \A c \in 1..2 : Joined(r.C)[c] >= Silent
    BY <1>1 DEF Joined, Loudest, EnergyInv, EnergyTypes, Silent
  <1>3. d \in [1..2 -> Int] /\ \A c \in 1..2 : d[c] \in Int /\ d[c] >= Silent
    BY <1>1, <1>2 DEF Decoded
  <1> HIDE DEF d
  <1>4. /\ Remember(d, r.transient, rise)
        /\ lastTwo' = [last |-> oldBandE', before |-> lastTwo.last, steady |-> ~r.transient]
        /\ UNCHANGED <<channels, startBand, endBand>>
    BY DEF ReceiveFrame, d
  <1>5. /\ lastTwo'.last = oldBandE' /\ lastTwo'.before = lastTwo.last
        /\ lastTwo'.steady = ~r.transient
    BY <1>4
  <1>6. /\ backgroundLogE' \in [1..2 -> Int]
        /\ \A c \in 1..2 : backgroundLogE'[c] >= Silent /\ backgroundLogE'[c] <= d[c]
    BY <1>3, <1>4 DEF Remember, Least, EnergyInv, EnergyTypes, Silent
  <1>7. lastTwo.last \in [1..2 -> Int] /\ \A c \in 1..2 : lastTwo.last[c] >= Silent
    BY DEF EnergyInv, EnergyTypes
  <1>8. Silent \in Int /\ Silent <= 0 /\ 0 \in Int
    BY DEF Silent
  <1>9. CASE ~WatchedIsCoded
    <2>1. oldBandE' = Both(0) /\ oldLogE' = Both(Silent) /\ oldLogE2' = Both(Silent)
      BY <1>4, <1>9 DEF Remember
    <2>2. Unheard'
      BY <1>8, <2>1, BothFacts DEF Unheard
    <2>3. oldBandE' \in [1..2 -> Int] /\ oldLogE' \in [1..2 -> Int] /\ oldLogE2' \in [1..2 -> Int]
      BY <1>8, <2>1, BothFacts
    <2>4. EnergyTypes'
      BY <1>1, <1>4, <1>6, <1>7, <2>3 DEF EnergyInv, EnergyTypes
    <2>5. \A c \in 1..2 : oldBandE'[c] >= Silent /\ oldLogE'[c] <= oldBandE'[c]
      BY <1>8, <2>1, BothFacts
    <2> QED
      BY <1>5, <1>6, <1>7, <2>2, <2>4, <2>5 DEF EnergyInv
  <1>10. CASE WatchedIsCoded
    <2>1. oldBandE' = d
      BY <1>4, <1>10 DEF Remember
    <2>2. CASE r.transient
      <3>1. oldLogE' = [c \in 1..2 |-> Least(oldLogE[c], d[c])] /\ oldLogE2' = oldLogE2
        BY <1>4, <1>10, <2>2 DEF Remember
      <3>2. /\ oldLogE' \in [1..2 -> Int] /\ oldLogE2' \in [1..2 -> Int]
            /\ \A c \in 1..2 : oldLogE'[c] <= d[c]
        BY <1>3, <3>1 DEF Least, EnergyInv, EnergyTypes
      <3>3. EnergyTypes'
        BY <1>1, <1>3, <1>4, <1>6, <1>7, <2>1, <3>2 DEF EnergyInv, EnergyTypes
      <3>4. ~lastTwo'.steady
        BY <1>5, <2>2
      <3>5. Followed'
        BY <1>3, <1>5, <1>6, <2>1, <3>4 DEF Followed
      <3> QED
        BY <1>3, <1>5, <1>6, <1>7, <2>1, <3>2, <3>3, <3>5 DEF EnergyInv
    <2>3. CASE ~r.transient
      <3>1. oldLogE' = d /\ oldLogE2' = oldLogE
        BY <1>4, <1>10, <2>3 DEF Remember
      <3>2. oldLogE \in [1..2 -> Int] /\ \A c \in 1..2 : oldLogE[c] <= lastTwo.last[c]
        BY DEF EnergyInv, EnergyTypes
      <3>3. EnergyTypes'
        BY <1>1, <1>3, <1>4, <1>6, <1>7, <2>1, <3>1, <3>2 DEF EnergyInv, EnergyTypes
      <3>4. Followed'
        BY <1>3, <1>5, <1>6, <2>1, <3>1, <3>2 DEF Followed
      <3> QED
        BY <1>3, <1>5, <1>6, <1>7, <2>1, <3>1, <3>3, <3>4 DEF EnergyInv
    <2> QED
      BY <1>1, <2>2, <2>3
  <1> QED
    BY <1>9, <1>10

\* And a frame that is lost: noise fades it, repeated pitch leaves it.
LEMMA FadeKeeps ==
    ASSUME EnergyInv, NEW LM \in LostSizes, Lose(LM), heard'.lost # 0
    PROVE  EnergyInv'
  <1>1. UNCHANGED <<channels, startBand, endBand, oldLogE, oldLogE2, backgroundLogE>>
    BY DEF Lose
  <1>2. CASE LoseToNoise(LM)
    <2>1. /\ oldBandE' = Decay
          /\ lastTwo' = [lastTwo EXCEPT !.steady = lastTwo.steady /\ ~WatchedIsCoded]
      BY <1>2 DEF LoseToNoise
    <2>2. /\ lastTwo'.last = lastTwo.last /\ lastTwo'.before = lastTwo.before
          /\ lastTwo'.steady = (lastTwo.steady /\ ~WatchedIsCoded)
          /\ lastTwo' \in [last : [1..2 -> Int], before : [1..2 -> Int], steady : BOOLEAN]
      BY <2>1 DEF EnergyInv, EnergyTypes
    <2>3. /\ oldBandE' \in [1..2 -> Int]
          /\ \A c \in 1..2 : /\ oldBandE'[c] >= Silent
                             /\ backgroundLogE[c] <= oldBandE[c] =>
                                   /\ oldBandE'[c] <= oldBandE[c]
                                   /\ backgroundLogE[c] <= oldBandE'[c]
                             /\ ~WatchedIsCoded => oldBandE'[c] = oldBandE[c]
      BY <2>1 DEF Decay, Loudest, EnergyInv, EnergyTypes, Silent
    <2>4. EnergyTypes'
      BY <1>1, <2>2, <2>3 DEF EnergyInv, EnergyTypes
    <2>5. Unheard => Unheard'
      BY <1>1 DEF Unheard
    <2>6. ASSUME Followed PROVE Followed'
      BY <1>1, <2>2, <2>3, <2>6 DEF Followed, EnergyInv, EnergyTypes
    <2> QED
      BY <1>1, <2>2, <2>3, <2>4, <2>5, <2>6 DEF EnergyInv
  <1>3. CASE LoseToPitch(LM)
    <2>1. UNCHANGED <<oldBandE, lastTwo>>
      BY <1>3 DEF LoseToPitch
    <2> QED
      BY <1>1, <2>1 DEF EnergyInv, EnergyTypes, Unheard, Followed
  <1> QED
    BY <1>2, <1>3 DEF Lose

\* A frame that is there continues the one before, whatever came between.
LEMMA ReceiveKeeps ==
    ASSUME HistoryInv, NEW r \in Received, NEW rise \in {0, 1}, ReceiveFrame(r, rise)
    PROVE  HistoryInv'
  <1>1. r.LM \in 0..3 /\ r.C \in 1..2 /\ r.filter \in Filters
    BY HistoryAssumption
  <1>2. PredictsWell(Predicted(r.LM, r.C), r.C)
    BY <1>1, PredictsRight DEF HistoryInv
  <1>3. postfilter.old = heard.filter /\ prefilterAndFold = heard.pitch
    BY DEF HistoryInv, ControlInv
  <1>4. heard' =
         [run |-> Least(2, heard.run + 1),
          trusted |-> heard.trusted \/ heard.run + 1 >= (IF heard.afresh THEN 1 ELSE 2),
          afresh |-> heard.afresh, lost |-> 0,
          filter |-> IF r.LM = 0 THEN postfilter.now ELSE r.filter,
          pitch |-> FALSE, sound |-> TRUE]
    BY <1>2, <1>3, Zenon DEF ReceiveFrame
  <1>5. /\ Least(2, heard.run + 1) \in Nat /\ Least(2, heard.run + 1) >= 1
        /\ heard.run \in Nat
    BY DEF HistoryInv, ControlInv, Least
  <1>6. /\ heard' \in [run : Nat, trusted : BOOLEAN, afresh : BOOLEAN, lost : Nat,
                       filter : Filters, pitch : BOOLEAN, sound : BOOLEAN]
        /\ heard'.sound /\ heard'.pitch = FALSE /\ heard'.lost = 0
        /\ heard'.run >= 1
        /\ heard'.filter = IF r.LM = 0 THEN postfilter.now ELSE r.filter
        /\ heard.trusted => heard'.trusted
        /\ heard.afresh \/ heard.run >= 1 => heard'.trusted
    BY <1>1, <1>4, <1>5 DEF HistoryInv, ControlInv
  <1>7. postfilter' \in [old : Filters, now : Filters] /\ postfilter'.old = heard'.filter
    BY <1>1, <1>6 DEF ReceiveFrame, FilterAfter, HistoryInv, ControlInv
  <1>8. ~skipPlc' => heard'.trusted
    BY <1>6 DEF ReceiveFrame, HistoryInv, ControlInv
  <1>9. /\ lossDuration' = 0 /\ plcDuration' = 0 /\ lastFrameType' = "normal"
        /\ prefilterAndFold' = FALSE /\ lastPitch' = FALSE /\ skipPlc' \in BOOLEAN
    BY DEF ReceiveFrame, HistoryInv, ControlInv
  <1>10. /\ lossDuration' \in Nat /\ plcDuration' = heard'.lost /\ lossDuration' = heard'.lost
         /\ prefilterAndFold' = heard'.pitch /\ lastPitch' \in BOOLEAN
         /\ lastFrameType' # "periodic"
    BY <1>6, <1>9
  <1>11. ControlInv'
    BY <1>6, <1>7, <1>8, <1>9, <1>10, Zenon DEF ControlInv
  <1> QED
    BY <1>11, RememberKeeps DEF HistoryInv

\* Time lost counts on, in the code as in the history.
LEMMA Lengthening ==
    ASSUME NEW d \in Nat, NEW LM \in 0..3
    PROVE  Lengthened(d, LM) \in Nat \ {0}
  <1>1. 2^LM \in Nat \ {0}
    <2>1. 2^0 \in Nat \ {0} /\ 2^1 \in Nat \ {0} /\ 2^2 \in Nat \ {0} /\ 2^3 \in Nat \ {0}
      OBVIOUS
    <2>2. LM = 0 \/ LM = 1 \/ LM = 2 \/ LM = 3
      OBVIOUS
    <2> QED
      BY <2>1, <2>2, Zenon
  <1> DEFINE u == 2^LM
  <1> HIDE DEF u
  <1>2. d + u \in Nat \ {0}
    BY <1>1 DEF u
  <1>3. Least(DurationCap, d + u) \in Nat \ {0}
    BY <1>2, HistoryAssumption DEF Least
  <1> QED
    BY <1>3 DEF Lengthened, u

LEMMA LoseKeeps ==
    ASSUME HistoryInv, NEW LM \in LostSizes, Lose(LM)
    PROVE  HistoryInv'
  <1> DEFINE n == Least(DurationCap, heard.lost + 2^LM)
  <1>1. LM \in 0..3
    BY HistoryAssumption
  <1>2. n \in Nat \ {0} /\ lossDuration' = n /\ plcDuration' = n
    BY <1>1, Lengthening DEF Lose, HistoryInv, ControlInv, Lengthened
  <1>3. CASE LoseToNoise(LM)
    <2>1. heard' = [heard EXCEPT !.run = 0, !.trusted = FALSE, !.afresh = FALSE,
                                 !.filter = postfilter.now, !.pitch = FALSE,
                                 !.lost = n, !.sound = TRUE]
      BY <1>3 DEF LoseToNoise, HistoryInv, ControlInv
    <2> HIDE DEF n
    <2>2. /\ heard' \in [run : Nat, trusted : BOOLEAN, afresh : BOOLEAN, lost : Nat,
                         filter : Filters, pitch : BOOLEAN, sound : BOOLEAN]
          /\ heard'.filter = postfilter.now /\ heard'.pitch = FALSE /\ heard'.sound
          /\ heard'.lost = n
      BY <1>2, <2>1 DEF HistoryInv, ControlInv
    <2>3. /\ postfilter' \in [old : Filters, now : Filters] /\ postfilter'.old = postfilter.now
          /\ prefilterAndFold' = FALSE /\ skipPlc' = TRUE
          /\ lastFrameType' = "noise" /\ lastPitch' = FALSE
      BY <1>3 DEF LoseToNoise, HistoryInv, ControlInv
    <2>4. /\ lossDuration' \in Nat /\ lossDuration' # 0 /\ plcDuration' = heard'.lost
          /\ lossDuration' = heard'.lost
          /\ prefilterAndFold' = heard'.pitch /\ skipPlc' \in BOOLEAN
          /\ lastPitch' \in BOOLEAN /\ lastFrameType' # "periodic"
          /\ postfilter'.old = heard'.filter
      BY <1>2, <2>2, <2>3
    <2>5. ControlInv'
      BY <2>2, <2>3, <2>4, Zenon DEF ControlInv
    <2>6. EnergyInv'
      BY <1>2, <2>2, FadeKeeps DEF HistoryInv
    <2> QED
      BY <2>5, <2>6 DEF HistoryInv
  <1>4. CASE LoseToPitch(LM)
    <2>1. heard.trusted /\ heard.lost < 40
      BY <1>4 DEF LoseToPitch, Noisy, HistoryInv, ControlInv
    <2>2. lastFrameType = "periodic" => lastPitch
      BY DEF HistoryInv, ControlInv
    <2>3. heard' = [heard EXCEPT !.run = 0, !.afresh = FALSE, !.pitch = TRUE,
                                 !.lost = n, !.sound = TRUE]
      BY <1>4, <2>1, <2>2, Zenon DEF LoseToPitch
    <2> HIDE DEF n
    <2>4. /\ heard' \in [run : Nat, trusted : BOOLEAN, afresh : BOOLEAN, lost : Nat,
                         filter : Filters, pitch : BOOLEAN, sound : BOOLEAN]
          /\ heard'.filter = heard.filter /\ heard'.pitch = TRUE /\ heard'.sound
          /\ heard'.lost = n /\ heard'.trusted = heard.trusted
      BY <1>2, <2>3 DEF HistoryInv, ControlInv
    <2>5. prefilterAndFold' = TRUE /\ UNCHANGED <<skipPlc, postfilter>>
      BY <1>4 DEF LoseToPitch
    <2>6. lastPitch' = TRUE
      BY <1>4, <2>2 DEF LoseToPitch, HistoryInv, ControlInv
    <2>7. /\ lossDuration' \in Nat /\ lossDuration' # 0 /\ plcDuration' = heard'.lost
          /\ lossDuration' = heard'.lost
          /\ prefilterAndFold' = heard'.pitch /\ lastPitch' \in BOOLEAN
          /\ heard'.trusted /\ skipPlc' \in BOOLEAN
          /\ postfilter' \in [old : Filters, now : Filters] /\ postfilter'.old = heard'.filter
      BY <1>2, <2>1, <2>4, <2>5, <2>6 DEF HistoryInv, ControlInv
    <2>8. ControlInv'
      BY <2>4, <2>6, <2>7, Zenon DEF ControlInv
    <2>9. EnergyInv'
      BY <1>2, <2>4, FadeKeeps DEF HistoryInv
    <2> QED
      BY <2>8, <2>9 DEF HistoryInv
  <1> QED
    BY <1>3, <1>4 DEF Lose

LEMMA ResetKeeps ==
    ASSUME HistoryInv, ResetState
    PROVE  HistoryInv'
  <1>1. ControlInv'
    BY FreshFacts DEF ResetState, ControlInv
  <1>2. EnergyInv'
    <2>1. NothingHeard'
      BY DEF ResetState, HistoryInv, EnergyInv, EnergyTypes, NothingHeard
    <2> QED
      BY <2>1, FreshEnergies, PTL
  <1> QED
    BY <1>1, <1>2 DEF HistoryInv

\* Whatever is received, lost, retuned and reset, a frame of CELT continues where the one
\* before it ended, its energies are predicted from that frame's or, behind a loss, from
\* none that is louder, and pitch is repeated only by a decoder that may (DecodeWithEC,
\* celtDecodeLost).
THEOREM FramesAlwaysContinue == HistorySpec => []FramesContinue
  <1>1. HistoryInv /\ [HistoryNext]_historyVars => HistoryInv'
    <2> SUFFICES ASSUME HistoryInv, [HistoryNext]_historyVars PROVE HistoryInv'
      OBVIOUS
    <2>1. CASE \E s \in {0, Hybrid1}, e \in Ends : s < e /\ SetBands(s, e)
      <3>1. startBand' \in Nat /\ endBand' \in Nat
        BY <2>1, HistoryAssumption DEF SetBands, Hybrid1
      <3>2. UNCHANGED <<controlVars, energyVars, channels>>
        BY <2>1 DEF SetBands
      <3>3. ControlInv'
        BY <3>2 DEF controlVars, HistoryInv, ControlInv
      <3>4. EnergyInv'
        BY <3>1, <3>2 DEF controlVars, energyVars, HistoryInv, EnergyInv, EnergyTypes, Unheard, Followed
      <3> QED
        BY <3>3, <3>4 DEF HistoryInv
    <2>2. CASE \E r \in Received, rise \in {0, 1} : ReceiveFrame(r, rise)
      BY <2>2, ReceiveKeeps
    <2>3. CASE \E LM \in LostSizes : Lose(LM)
      BY <2>3, LoseKeeps
    <2>4. CASE ResetState
      BY <2>4, ResetKeeps
    <2>5. CASE UNCHANGED historyVars
      <3>1. ControlInv'
        BY <2>5 DEF historyVars, controlVars, HistoryInv, ControlInv
      <3>2. EnergyInv'
        BY <2>5 DEF historyVars, controlVars, energyVars, HistoryInv, EnergyInv, EnergyTypes,
                    Unheard, Followed
      <3> QED
        BY <3>1, <3>2 DEF HistoryInv
    <2> QED
      BY <2>1, <2>2, <2>3, <2>4, <2>5 DEF HistoryNext
  <1>2. HistoryInv => FramesContinue
    BY DEF HistoryInv, ControlInv, FramesContinue
  <1> QED
    BY <1>1, <1>2, HistoryStarts, PTL DEF HistorySpec

-----------------------------------------------------------------------------
(* SilkPitch.                                                                *)

\* The entries of the contour codebooks.
LEMMA CodebooksSmall ==
    /\ \A k \in 1..4 : \A i \in 1..11 : silkCBLagsStage2[k][i] \in -9..9
    /\ \A k \in 1..4 : \A i \in 1..34 : silkCBLagsStage3[k][i] \in -9..9
    /\ \A k \in 1..2 : \A i \in 1..3 : silkCBLagsStage210ms[k][i] \in -9..9
    /\ \A k \in 1..2 : \A i \in 1..12 : silkCBLagsStage310ms[k][i] \in -9..9
  <1>1. \A i \in 1..34 : silkCBLagsStage3[1][i] \in -9..9
    BY DEF silkCBLagsStage3
  <1>2. \A i \in 1..34 : silkCBLagsStage3[2][i] \in -9..9
    BY DEF silkCBLagsStage3
  <1>3. \A i \in 1..34 : silkCBLagsStage3[3][i] \in -9..9
    BY DEF silkCBLagsStage3
  <1>4. \A i \in 1..34 : silkCBLagsStage3[4][i] \in -9..9
    BY DEF silkCBLagsStage3
  <1>5. \A k \in 1..4 : \A i \in 1..11 : silkCBLagsStage2[k][i] \in -9..9
    BY DEF silkCBLagsStage2
  <1>6. \A k \in 1..2 : \A i \in 1..3 : silkCBLagsStage210ms[k][i] \in -9..9
    BY DEF silkCBLagsStage210ms
  <1>7. \A k \in 1..2 : \A i \in 1..12 : silkCBLagsStage310ms[k][i] \in -9..9
    BY DEF silkCBLagsStage310ms
  <1>8. \A k \in 1..4 : \A i \in 1..34 : silkCBLagsStage3[k][i] \in -9..9
    <2>1. \A k \in 1..4 : k = 1 \/ k = 2 \/ k = 3 \/ k = 4
      OBVIOUS
    <2> QED
      BY <1>1, <1>2, <1>3, <1>4, <2>1, Zenon
  <1> QED
    BY <1>5, <1>6, <1>7, <1>8, Zenon

LEMMA CodebookLengths ==
    /\ Len(silkCBLagsStage2[1]) = 11 /\ Len(silkCBLagsStage3[1]) = 34
    /\ Len(silkCBLagsStage210ms[1]) = 3 /\ Len(silkCBLagsStage310ms[1]) = 12
  BY DEF silkCBLagsStage2, silkCBLagsStage3, silkCBLagsStage210ms, silkCBLagsStage310ms

Rates == {8, 12, 16}

\* A lag is one the bitstream can hold: 2 to 18 ms.
IsLag(fs, lag) == lag \in (2 * fs)..(18 * fs)

LEMMA Codebook ==
    ASSUME NEW fs \in Rates, NEW nb \in {2, 4}, NEW k \in 1..nb,
           NEW contour \in 1..Len(LagCB(fs, nb)[1])
    PROVE  LagCB(fs, nb)[k][contour] \in -9..9
  <1>1. CASE fs = 8 /\ nb = 4
    BY <1>1, CodebooksSmall, CodebookLengths DEF LagCB
  <1>2. CASE fs = 8 /\ nb = 2
    BY <1>2, CodebooksSmall, CodebookLengths DEF LagCB
  <1>3. CASE fs # 8 /\ nb = 4
    BY <1>3, CodebooksSmall, CodebookLengths DEF LagCB
  <1>4. CASE fs # 8 /\ nb = 2
    BY <1>4, CodebooksSmall, CodebookLengths DEF LagCB
  <1> QED
    BY <1>1, <1>2, <1>3, <1>4

LEMMA LimitedFacts ==
    ASSUME NEW low \in Int, NEW high \in Int, low <= high, NEW x \in Int, NEW y \in Int
    PROVE  /\ Limited(x, low, high) \in low..high
           /\ x - y <= 18 => Limited(x, low, high) - Limited(y, low, high) <= 18
  BY DEF Limited

\* The lags of a frame are of its rate, and hardly differ.
LEMMA PitchDecoded ==
    ASSUME NEW fs \in Rates, NEW nb \in {2, 4}, NEW index \in Int,
           NEW contour \in 1..Len(LagCB(fs, nb)[1])
    PROVE  LET lags == DecodePitch(fs, nb, index, contour)
           IN  /\ \A k \in 1..nb : IsLag(fs, lags[k])
               /\ \A j, k \in 1..nb : lags[k] - lags[j] <= 18
  <1> DEFINE lags == DecodePitch(fs, nb, index, contour)
             raw(k) == 2 * fs + index + LagCB(fs, nb)[k][contour]
  <1>1. ASSUME NEW k \in 1..nb
        PROVE  /\ lags[k] = Limited(raw(k), 2 * fs, 18 * fs)
               /\ LagCB(fs, nb)[k][contour] \in -9..9
    BY Codebook DEF DecodePitch
  <1>2. fs \in Int /\ fs > 0
    BY DEF Rates
  <1> HIDE DEF lags
  <1>5. ASSUME NEW j \in 1..nb, NEW k \in 1..nb
        PROVE  raw(j) \in Int /\ raw(k) \in Int /\ raw(k) - raw(j) <= 18
    <2> DEFINE a == LagCB(fs, nb)[j][contour]
               b == LagCB(fs, nb)[k][contour]
               base == 2 * fs + index
    <2>1. a \in -9..9 /\ b \in -9..9
      BY <1>1
    <2>2. base \in Int /\ raw(j) = base + a /\ raw(k) = base + b
      BY <1>2
    <2> HIDE DEF a, b, base, raw
    <2> QED
      BY <2>1, <2>2
  <1> HIDE DEF raw
  <1>6. 2 * fs \in Int /\ 18 * fs \in Int /\ 2 * fs <= 18 * fs
    BY <1>2
  <1> DEFINE low == 2 * fs
             high == 18 * fs
  <1>7. low \in Int /\ high \in Int /\ low <= high
    BY <1>6
  <1>8. \A k \in 1..nb : lags[k] = Limited(raw(k), low, high)
    BY <1>1
  <1>3. ASSUME NEW k \in 1..nb PROVE IsLag(fs, lags[k])
    <2>1. lags[k] \in low..high
      <3> HIDE DEF low, high
      <3> QED
        BY <1>5, <1>7, <1>8, LimitedFacts
    <2> QED
      BY <2>1 DEF IsLag
  <1>4. ASSUME NEW j \in 1..nb, NEW k \in 1..nb PROVE lags[k] - lags[j] <= 18
    <2> HIDE DEF low, high
    <2>1. lags[j] = Limited(raw(j), low, high) /\ lags[k] = Limited(raw(k), low, high)
      BY <1>8
    <2>2. raw(j) \in Int /\ raw(k) \in Int /\ raw(k) - raw(j) <= 18
      BY <1>5
    <2> QED
      BY <1>7, <2>1, <2>2, LimitedFacts
  <1> QED
    BY <1>3, <1>4 DEF lags

\* What makes a frame's prediction sound: lags of its rate that lengthen by less than a
\* subframe from one to the next.
LEMMA WithinIf ==
    ASSUME NEW p, NEW n \in {0, 2, 4}, p.fs \in Rates, p.pitched = 1..n,
           \A k \in 1..n : IsLag(p.fs, p.lags[k]),
           \A j, k \in 1..n : j < k => p.lags[k] - p.lags[j] <= 5 * p.fs
    PROVE  Within(p)
  <1> SUFFICES ASSUME NEW k \in 1..n, NEW w \in {1, 3}, w <= k
               PROVE  /\ p.lags[k] > LtpHalf
                      /\ StartIdx(p.fs, p.lags[w]) > 0
                      /\ \A j \in w..k : j \in 1..n /\ Reach(p, j) <= Reach(p, k)
    BY DEF Within
  <1>1. p.fs \in {8, 12, 16} /\ w \in 1..n
    BY DEF Rates
  <1>2. p.lags[k] > LtpHalf /\ StartIdx(p.fs, p.lags[w]) > 0
    <2> DEFINE f == p.fs
               a == p.lags[k]
               b == p.lags[w]
    <2>1. f \in {8, 12, 16} /\ a \in (2 * f)..(18 * f) /\ b \in (2 * f)..(18 * f)
      BY <1>1 DEF IsLag
    <2> HIDE DEF f, a, b
    <2>2. a > LtpHalf /\ StartIdx(f, b) > 0
      BY <2>1 DEF StartIdx, LtpMem, Order, LtpHalf
    <2> QED
      BY <2>2 DEF f, a, b
  <1>3. ASSUME NEW j \in w..k PROVE j \in 1..n /\ Reach(p, j) <= Reach(p, k)
    <2>1. j \in 1..n /\ j <= k
      OBVIOUS
    <2>2. p.lags[j] \in Int /\ p.lags[k] \in Int
      BY <1>1, <2>1 DEF IsLag
    <2>3. CASE j = k
      BY <2>1, <2>3, <1>1, <2>2 DEF Reach, Subfr, LtpHalf
    <2>5. k \in Nat /\ j \in Nat
      BY <2>1
    <2>4. CASE j < k
      <3>1. p.lags[k] - p.lags[j] <= 5 * p.fs
        BY <2>1, <2>4
      <3>2. PICK a \in Int, b \in Int, f \in {8, 12, 16} :
                  a = p.lags[j] /\ b = p.lags[k] /\ f = p.fs
        BY <1>1, <2>2
      <3>3. b - a <= 5 * f
        BY <3>1, <3>2
      <3>4. (j - 1) * (5 * f) - a - 2 <= (k - 1) * (5 * f) - b - 2
        <4>1. CASE f = 8
          BY <2>4, <2>5, <3>3, <4>1
        <4>2. CASE f = 12
          BY <2>4, <2>5, <3>3, <4>2
        <4>3. CASE f = 16
          BY <2>4, <2>5, <3>3, <4>3
        <4> QED
          BY <4>1, <4>2, <4>3
      <3>5. Reach(p, j) <= Reach(p, k)
        BY <3>2, <3>4, Zenon DEF Reach, Subfr, LtpHalf
      <3> QED
        BY <2>1, <3>5
    <2> QED
      BY <2>1, <2>3, <2>4
  <1> QED
    BY <1>2, <1>3

\* The concealed lag is one of the rate it was concealed at.
ConcealedLag(c) ==
    /\ 2 * c.plcFs * 256 <= c.lagQ8 /\ c.lagQ8 <= 18 * c.plcFs * 256

ChannelType ==
    [fs : {0, 8, 12, 16}, nb : {0, 2, 4}, lossy : BOOLEAN, voiced : BOOLEAN,
     first : BOOLEAN, lagPrev : Int, lagQ8 : Int, plcFs : {0, 8, 12, 16},
     drawn : Nat \X Nat, glue : BOOLEAN]

\* A frame that is there: its lags are of the rate, decoded or the one of the concealment
\* it bridges to.
LEMMA DecodeKeeps ==
    ASSUME PitchInv, channel.fs # 0, NEW voiced \in BOOLEAN, NEW lags, NEW interpolated \in BOOLEAN,
           DecodeFrame(voiced, lags, interpolated),
           lags = [k \in 1..channel.nb |-> lags[k]],
           IF voiced THEN /\ \A k \in 1..channel.nb : IsLag(channel.fs, lags[k])
                          /\ \A j, k \in 1..channel.nb : lags[k] - lags[j] <= 18
                     ELSE \A k \in 1..channel.nb : lags[k] = 0
    PROVE  PitchInv'
  <1> DEFINE used == CoreLags(voiced, lags)
             fs == channel.fs
             nb == channel.nb
  <1>1. fs \in Rates /\ nb \in {2, 4} /\ channel \in ChannelType
    BY DEF PitchInv, ChannelType, Rates
  <1>2. Bridges(voiced) => IsLag(fs, channel.lagPrev)
    <2> SUFFICES ASSUME Bridges(voiced) PROVE IsLag(fs, channel.lagPrev)
      OBVIOUS
    <2> DEFINE q == channel.lagQ8
    <2>1. /\ channel.lagPrev = Rounded(q) /\ q \in Int
          /\ 2 * fs * 256 <= q /\ q <= 18 * fs * 256
      BY <1>1 DEF PitchInv, HistoryReaches, Bridges, Rates
    <2>2. fs \in {8, 12, 16}
      BY <1>1 DEF Rates
    <2> HIDE DEF fs, q
    <2>3. Rounded(q) \in (2 * fs)..(18 * fs)
      BY <2>1, <2>2 DEF Rounded
    <2> QED
      BY <2>1, <2>3 DEF IsLag, fs
  <1>3. PICK n \in {0, 2, 4} :
          /\ predicted'.pitched = 1..n /\ n <= nb
          /\ \A k \in 1..n : IsLag(fs, used[k])
          /\ \A j, k \in 1..n : used[k] - used[j] <= 18
          /\ predicted'.fs = fs /\ predicted'.lags = used
    <2>0. predicted'.fs = fs /\ predicted'.lags = used
      BY DEF DecodeFrame
    <2>1. CASE voiced
      <3>1. used = lags /\ predicted'.pitched = 1..nb
        BY <2>1 DEF CoreLags, Bridges, DecodeFrame
      <3>2. /\ \A k \in 1..nb : IsLag(fs, used[k])
            /\ \A j, k \in 1..nb : used[k] - used[j] <= 18
        BY <2>1, <3>1
      <3>3. nb \in {0, 2, 4} /\ nb <= nb
        BY <1>1
      <3> HIDE DEF used, fs, nb
      <3> QED
        BY <2>0, <3>1, <3>2, <3>3, Zenon
    <2>2. CASE ~voiced /\ Bridges(voiced)
      <3>1. /\ used = [k \in 1..nb |-> IF k <= 2 THEN channel.lagPrev ELSE 0]
            /\ predicted'.pitched = 1..2
        BY <2>2 DEF CoreLags, DecodeFrame
      <3>2. \A k \in 1..2 : used[k] = channel.lagPrev
        BY <1>1, <3>1
      <3>3. channel.lagPrev \in Int
        BY <1>1 DEF ChannelType
      <3> QED
        BY <1>1, <1>2, <2>0, <2>2, <3>1, <3>2, <3>3
    <2>3. CASE ~voiced /\ ~Bridges(voiced)
      <3>1. predicted'.pitched = 1..0
        BY <2>3 DEF DecodeFrame
      <3> QED
        BY <1>1, <2>0, <3>1
    <2> QED
      BY <2>1, <2>2, <2>3
  <1>4. Within(predicted')
    <2>1. \A j, k \in 1..n : j < k => used[k] - used[j] <= 5 * fs
      <3>1. \A k \in 1..n : used[k] \in Int
        BY <1>1, <1>3 DEF IsLag, Rates
      <3>2. 18 <= 5 * fs /\ 5 * fs \in Int
        BY <1>1 DEF Rates
      <3> HIDE DEF used, fs
      <3> QED
        BY <1>3, <3>1, <3>2
    <2> QED
      BY <1>1, <1>3, <2>1, WithinIf
  <1>5. PICK lagQ8 \in Strongest(voiced, lags) :
             channel' = [channel EXCEPT !.lossy = FALSE, !.voiced = voiced, !.first = FALSE,
                                        !.lagPrev = used[nb], !.lagQ8 = lagQ8,
                                        !.plcFs = fs, !.glue = FALSE,
                                        !.drawn = <<nb, Subfr(fs)>>]
    BY DEF DecodeFrame
  <1>6. lagQ8 \in Int /\ 2 * fs * 256 <= lagQ8 /\ lagQ8 <= 18 * fs * 256
    <2>1. CASE voiced
      <3>1. PICK j \in 0..(nb - 1) : lagQ8 = lags[nb - j] * 256
        BY <2>1, <1>5 DEF Strongest
      <3>2. nb - j \in 1..nb
        BY <1>1
      <3>3. lags[nb - j] \in (2 * fs)..(18 * fs)
        BY <2>1, <3>2 DEF IsLag
      <3> QED
        <4> DEFINE x == lags[nb - j]
        <4>1. lagQ8 = x * 256 /\ x \in (2 * fs)..(18 * fs) /\ fs \in {8, 12, 16}
          BY <1>1, <3>1, <3>3 DEF Rates
        <4> HIDE DEF x, fs
        <4> QED
          BY <4>1
    <2>2. CASE ~voiced
      BY <1>1, <1>5, <2>2 DEF Strongest, Rates
    <2> QED
      BY <2>1, <2>2
  <1>7. used[nb] \in Int
    <2>1. nb \in 1..nb
      BY <1>1
    <2>2. CASE voiced
      <3>1. used[nb] = lags[nb] /\ lags[nb] \in (2 * fs)..(18 * fs)
        BY <2>1, <2>2 DEF CoreLags, Bridges, IsLag
      <3>2. 2 * fs \in Int /\ 18 * fs \in Int
        BY <1>1 DEF Rates
      <3> HIDE DEF used, fs, nb
      <3> QED
        BY <3>1, <3>2
    <2>3. CASE ~voiced
      BY <1>1, <2>1, <2>3 DEF CoreLags, ChannelType
    <2> QED
      BY <2>2, <2>3
  <1>8. <<nb, Subfr(fs)>> \in Nat \X Nat
    BY <1>1 DEF Rates, Subfr
  <1> HIDE DEF used, fs, nb
  <1>9. /\ channel' \in ChannelType /\ channel'.fs = fs /\ channel'.nb = nb /\ channel'.plcFs = fs
        /\ channel'.lagQ8 = lagQ8 /\ channel'.lossy = FALSE /\ channel'.glue = FALSE
    <2>1. channel \in ChannelType /\ channel.fs = fs /\ channel.nb = nb /\ fs \in {0, 8, 12, 16}
      BY <1>1 DEF ChannelType, fs, nb
    <2>2. used[nb] \in Int /\ lagQ8 \in Int /\ <<nb, Subfr(fs)>> \in Nat \X Nat
      BY <1>6, <1>7, <1>8
    <2>3. channel' \in ChannelType
      <3> DEFINE moved == [channel EXCEPT !.lagPrev = used[nb], !.lagQ8 = lagQ8, !.plcFs = fs,
                                          !.drawn = <<nb, Subfr(fs)>>]
                 quiet(c) == [c EXCEPT !.lossy = FALSE, !.first = FALSE, !.glue = FALSE]
                 spoken(c) == [c EXCEPT !.voiced = voiced]
      <3>1. moved \in ChannelType
        BY <2>1, <2>2 DEF ChannelType
      <3>2. channel' = spoken(quiet(moved))
        BY <1>5
      <3>3. \A c \in ChannelType : quiet(c) \in ChannelType
        BY ZenonT(40) DEF ChannelType
      <3>4. \A c \in ChannelType : spoken(c) \in ChannelType
        BY ZenonT(40) DEF ChannelType
      <3> HIDE DEF moved, quiet, spoken
      <3>5. quiet(moved) \in ChannelType
        BY <3>1, <3>3
      <3>6. spoken(quiet(moved)) \in ChannelType
        BY <3>4, <3>5
      <3> QED
        BY <3>2, <3>6
    <2>4. channel'.fs = fs /\ channel'.nb = nb
      BY <1>5, <2>1, Zenon DEF ChannelType, nb
    <2>5. channel'.plcFs = fs /\ channel'.lagQ8 = lagQ8
      BY <1>5, <2>1, Zenon DEF ChannelType
    <2>6. channel'.lossy = FALSE /\ channel'.glue = FALSE
      BY <1>5, <2>1, Zenon DEF ChannelType
    <2> QED
      BY <2>3, <2>4, <2>5, <2>6, Zenon
  <1>10. /\ channel'.fs # 0 /\ channel'.nb # 0 /\ channel'.plcFs = channel'.fs
         /\ ~channel'.lossy /\ channel'.glue = channel'.lossy
    <2>1. channel'.fs # 0 /\ channel'.nb # 0 /\ channel'.plcFs = channel'.fs
      BY <1>1, <1>9 DEF Rates, fs, nb
    <2>2. ~channel'.lossy /\ channel'.glue = channel'.lossy
      BY <1>9, Zenon
    <2> QED
      BY <2>1, <2>2
  <1>11. /\ 2 * channel'.plcFs * 256 <= channel'.lagQ8
         /\ channel'.lagQ8 <= 18 * channel'.plcFs * 256
    <2>1. channel'.plcFs = fs /\ channel'.lagQ8 = lagQ8
      BY <1>9
    <2> QED
      BY <1>6, <2>1
  <1> QED
    BY <1>4, <1>9, <1>10, <1>11, Zenon DEF PitchInv, HistoryReaches, ChannelType

\* The lag of a concealment drifts upwards, by less than a subframe, to 18 ms.
LEMMA DriftFacts ==
    ASSUME NEW fs \in Rates, NEW q \in Int, 2 * fs * 256 <= q, q <= 18 * fs * 256
    PROVE  LET r == Drift(fs, q)
           IN  r \in Int /\ q <= r /\ r <= 18 * fs * 256 /\ r - q <= fs * 256
  <1> DEFINE d == (q * 655) \div 65536
  <1>1. d \in Int /\ 0 <= d /\ d <= fs * 256
    BY DEF Rates
  <1> HIDE DEF d
  <1>2. Drift(fs, q) = Limited(q + d, 0, 18 * fs * 256)
    BY DEF Drift, d
  <1>3. fs \in Int /\ fs > 0
    BY DEF Rates
  <1> QED
    BY <1>1, <1>2, <1>3 DEF Limited

\* Rounding keeps bounds and, nearly, differences.
LEMMA RoundedFacts ==
    ASSUME NEW fs \in Rates, NEW q \in Int, 2 * fs * 256 <= q, q <= 18 * fs * 256,
           NEW r \in Int, q <= r, r <= 18 * fs * 256, r - q <= 4 * fs * 256
    PROVE  /\ IsLag(fs, Rounded(q)) /\ IsLag(fs, Rounded(r))
           /\ Rounded(r) - Rounded(q) <= 5 * fs
  BY DEF Rates, IsLag, Rounded

\* A frame that is lost.
LEMMA ConcealKeeps ==
    ASSUME PitchInv, Conceal
    PROVE  PitchInv'
  <1> DEFINE c == PLCReset(channel)
             fs == c.fs
             nb == c.nb
             q == Drifted(c)
             left == q[nb + 1]
  <1>1. channel \in ChannelType /\ channel.fs \in Rates /\ channel.nb \in {2, 4}
    BY DEF PitchInv, ChannelType, Rates, Conceal
  <1>2. /\ c \in ChannelType /\ c.fs = channel.fs /\ c.nb = channel.nb /\ c.plcFs = channel.fs
        /\ c.lagQ8 \in Int /\ 2 * c.fs * 256 <= c.lagQ8 /\ c.lagQ8 <= 18 * c.fs * 256
    <2>1. CASE channel.fs = channel.plcFs
      <3>1. c = channel
        BY <2>1 DEF PLCReset
      <3> QED
        BY <1>1, <2>1, <3>1 DEF PitchInv, ChannelType, Rates
    <2>2. CASE channel.fs # channel.plcFs
      <3> DEFINE l == channel.nb * Subfr(channel.fs) * 128
      <3>1. l \in Int /\ 2 * channel.fs * 256 <= l /\ l <= 18 * channel.fs * 256
        BY <1>1 DEF Rates, Subfr
      <3> HIDE DEF l
      <3>2. c = [channel EXCEPT !.plcFs = channel.fs, !.lagQ8 = l, !.drawn = <<2, 20>>]
        BY <2>2 DEF PLCReset, l
      <3> HIDE DEF c
      <3>3. <<2, 20>> \in Nat \X Nat
        OBVIOUS
      <3> QED
        BY <1>1, <3>1, <3>2, <3>3 DEF ChannelType, Rates
    <2> QED
      BY <2>1, <2>2
  <1>3. /\ predicted' = [fs |-> fs, lost |-> TRUE, lags |-> [k \in 1..nb |-> Rounded(q[k])],
                         pitched |-> 1..nb, whitened |-> {1}, measured |-> Measured(c)]
        /\ channel' = [c EXCEPT !.lossy = TRUE, !.lagQ8 = left, !.lagPrev = Rounded(left),
                                !.glue = TRUE]
    BY DEF Conceal
  <1>4. /\ \A k \in 1..(nb + 1) : /\ q[k] \in Int /\ 2 * fs * 256 <= q[k]
                                  /\ q[k] <= 18 * fs * 256
        /\ \A j, k \in 1..(nb + 1) : j < k => q[j] <= q[k] /\ q[k] - q[j] <= 4 * fs * 256
    <2> DEFINE q0 == c.lagQ8
               q1 == Drift(fs, q0)
               q2 == Drift(fs, q1)
               q3 == Drift(fs, q2)
               q4 == Drift(fs, q3)
    <2>0. fs \in Rates /\ fs \in Int /\ fs > 0 /\ nb \in {2, 4}
      BY <1>1, <1>2 DEF Rates
    <2>1. q = IF nb = 4 THEN <<q0, q1, q2, q3, q4>> ELSE <<q0, q1, q2>>
      BY DEF Drifted
    <2>2. q0 \in Int /\ 2 * fs * 256 <= q0 /\ q0 <= 18 * fs * 256
      BY <1>2
    <2> HIDE DEF q0, fs, nb, q
    <2>3. q1 \in Int /\ q0 <= q1 /\ q1 <= 18 * fs * 256 /\ q1 - q0 <= fs * 256
      BY <2>0, <2>2, DriftFacts
    <2>4. 2 * fs * 256 <= q1
      BY <2>0, <2>2, <2>3
    <2> HIDE DEF q1
    <2>5. q2 \in Int /\ q1 <= q2 /\ q2 <= 18 * fs * 256 /\ q2 - q1 <= fs * 256
      BY <2>0, <2>3, <2>4, DriftFacts
    <2>6. 2 * fs * 256 <= q2
      BY <2>0, <2>3, <2>4, <2>5
    <2> HIDE DEF q2
    <2>7. q3 \in Int /\ q2 <= q3 /\ q3 <= 18 * fs * 256 /\ q3 - q2 <= fs * 256
      BY <2>0, <2>5, <2>6, DriftFacts
    <2>8. 2 * fs * 256 <= q3
      BY <2>0, <2>5, <2>6, <2>7
    <2> HIDE DEF q3
    <2>9. q4 \in Int /\ q3 <= q4 /\ q4 <= 18 * fs * 256 /\ q4 - q3 <= fs * 256
      BY <2>0, <2>7, <2>8, DriftFacts
    <2> HIDE DEF q4
    <2>10. CASE nb = 4
      BY <2>0, <2>1, <2>2, <2>3, <2>4, <2>5, <2>6, <2>7, <2>8, <2>9, <2>10
    <2>11. CASE nb = 2
      BY <2>0, <2>1, <2>2, <2>3, <2>4, <2>5, <2>6, <2>11
    <2> QED
      BY <2>0, <2>10, <2>11
  <1>5. fs \in Rates /\ nb \in {2, 4} /\ nb + 1 \in 1..(nb + 1)
    BY <1>1, <1>2
  <1>6. Within(predicted')
    <2> DEFINE lag(k) == Rounded(q[k])
    <2>1. /\ predicted'.fs = fs /\ predicted'.pitched = 1..nb
          /\ \A k \in 1..nb : predicted'.lags[k] = lag(k)
      BY <1>3
    <2>2. \A k \in 1..nb : k \in 1..(nb + 1)
      BY <1>5
    <2> HIDE DEF q, fs, nb
    <2>3. \A k \in 1..nb : IsLag(fs, lag(k))
      <3> SUFFICES ASSUME NEW k \in 1..nb PROVE IsLag(fs, lag(k))
        OBVIOUS
      <3>1. q[k] \in Int /\ 2 * fs * 256 <= q[k] /\ q[k] <= 18 * fs * 256
        BY <1>4, <2>2
      <3>2. q[k] - q[k] <= 4 * fs * 256 /\ q[k] <= q[k]
        BY <1>5, <3>1 DEF Rates
      <3> QED
        BY <1>5, <3>1, <3>2, RoundedFacts
    <2>4. \A j, k \in 1..nb : j < k => lag(k) - lag(j) <= 5 * fs
      BY <1>4, <1>5, <2>2, RoundedFacts
    <2> HIDE DEF lag
    <2> QED
      BY <1>5, <2>1, <2>3, <2>4, WithinIf
  <1>7. left \in Int /\ 2 * fs * 256 <= left /\ left <= 18 * fs * 256 /\ Rounded(left) \in Int
    <2>1. left \in Int /\ 2 * fs * 256 <= left /\ left <= 18 * fs * 256
      BY <1>4, <1>5
    <2> HIDE DEF left
    <2> QED
      BY <2>1 DEF Rounded
  <1> HIDE DEF left, q
  <1>8. /\ channel' \in ChannelType /\ channel'.fs = channel.fs /\ channel'.nb = channel.nb
        /\ channel'.plcFs = channel.fs /\ channel'.lagQ8 = left
        /\ channel'.lagPrev = Rounded(left) /\ channel'.lossy = TRUE /\ channel'.glue = TRUE
    <2> HIDE DEF c
    <2> QED
      BY <1>1, <1>2, <1>3, <1>7 DEF ChannelType, Rates
  <1>9. 2 * channel.fs * 256 <= left /\ left <= 18 * channel.fs * 256
    BY <1>2, <1>7
  <1> HIDE DEF c
  <1> QED
    BY <1>1, <1>6, <1>8, <1>9 DEF PitchInv, HistoryReaches, ChannelType, Rates

\* A restart and a change of rate leave nothing to bridge to.
LEMMA RestartKeeps ==
    ASSUME PitchInv, NEW c \in ChannelType, channel' = Restarted(c), predicted' = NoFrame,
           c.fs # 0, c.nb # 0, c.lossy = channel.lossy, c.glue = channel.glue,
           c.plcFs = channel.plcFs, c.lagQ8 = channel.lagQ8
    PROVE  PitchInv'
  <1>1. /\ channel' \in ChannelType /\ channel'.voiced = FALSE /\ channel'.fs = c.fs
        /\ channel'.nb = c.nb /\ channel'.lossy = c.lossy /\ channel'.glue = c.glue
        /\ channel'.plcFs = c.plcFs /\ channel'.lagQ8 = c.lagQ8
    <2>1. channel' \in ChannelType
      <3>1. \A d \in ChannelType : [d EXCEPT !.first = TRUE] \in ChannelType
        BY ZenonT(40) DEF ChannelType
      <3>2. \A d \in ChannelType : [d EXCEPT !.voiced = FALSE] \in ChannelType
        BY ZenonT(40) DEF ChannelType
      <3>3. \A d \in ChannelType : [d EXCEPT !.lagPrev = 100] \in ChannelType
        BY DEF ChannelType
      <3>4. Restarted(c) = [[[c EXCEPT !.first = TRUE] EXCEPT !.lagPrev = 100] EXCEPT !.voiced = FALSE]
        BY DEF Restarted
      <3> QED
        BY <3>1, <3>2, <3>3, <3>4
    <2>2. /\ channel'.fs = c.fs /\ channel'.nb = c.nb /\ channel'.plcFs = c.plcFs
          /\ channel'.lagQ8 = c.lagQ8
      BY DEF Restarted, ChannelType
    <2>3. channel'.voiced = FALSE
      BY Zenon DEF Restarted, ChannelType
    <2>4. channel'.lossy = c.lossy /\ channel'.glue = c.glue
      BY Zenon DEF Restarted, ChannelType
    <2> QED
      BY <2>1, <2>2, <2>3, <2>4
  <1>2. HistoryReaches'
    <2>1. channel'.glue = channel'.lossy
      BY <1>1 DEF PitchInv, HistoryReaches
    <2> QED
      BY <1>1, <2>1 DEF HistoryReaches
  <1>3. channel'.plcFs # 0 => /\ 2 * channel'.plcFs * 256 <= channel'.lagQ8
                              /\ channel'.lagQ8 <= 18 * channel'.plcFs * 256
    BY <1>1 DEF PitchInv
  <1> QED
    BY <1>1, <1>2, <1>3 DEF PitchInv, ChannelType

LEMMA SetFsKeeps ==
    ASSUME PitchInv, NEW fs \in Rates, NEW nb \in {2, 4}, SetFs(fs, nb)
    PROVE  PitchInv'
  <1> DEFINE sized == [channel EXCEPT !.fs = fs, !.nb = nb]
  <1>1. channel \in ChannelType
    BY DEF PitchInv, ChannelType
  <1>2. /\ sized \in ChannelType /\ sized.fs = fs /\ sized.nb = nb /\ sized.lossy = channel.lossy
        /\ sized.glue = channel.glue /\ sized.plcFs = channel.plcFs
        /\ sized.lagQ8 = channel.lagQ8 /\ sized.voiced = channel.voiced
        /\ sized.lagPrev = channel.lagPrev
    BY <1>1 DEF ChannelType, Rates
  <1> HIDE DEF sized
  <1>3. fs # 0 /\ nb # 0
    BY DEF Rates
  <1>4. /\ predicted' = NoFrame
        /\ channel' = IF fs # channel.fs THEN Restarted(sized) ELSE sized
    BY DEF SetFs, sized
  <1>5. CASE fs # channel.fs
    BY <1>2, <1>3, <1>4, <1>5, RestartKeeps
  <1>6. CASE fs = channel.fs
    BY <1>2, <1>3, <1>4, <1>6 DEF PitchInv, HistoryReaches, ChannelType
  <1> QED
    BY <1>5, <1>6

LEMMA PitchStarts == PitchInit => PitchInv
  <1>1. /\ ResetChannel.fs = 0 /\ ResetChannel.lossy = FALSE /\ ResetChannel.voiced = FALSE
        /\ ResetChannel.glue = FALSE /\ ResetChannel.plcFs = 0 /\ <<2, 20>> \in Nat \X Nat
    BY DEF ResetChannel
  <1>2. ResetChannel \in ChannelType
    BY <1>1 DEF ResetChannel, ChannelType
  <1> QED
    BY <1>1, <1>2 DEF PitchInit, PitchInv, HistoryReaches, ChannelType

LEMMA PitchStep == PitchInv /\ [PitchNext]_pitchVars => PitchInv'
  <1> SUFFICES ASSUME PitchInv, [PitchNext]_pitchVars PROVE PitchInv'
    OBVIOUS
  <1>1. CASE ResetDecoder
    <2>1. (PitchInit => PitchInv)'
      BY PitchStarts, PTL
    <2> QED
      BY <1>1, <2>1 DEF ResetDecoder, PitchInit
  <1>2. CASE \E fs \in {8, 12, 16}, nb \in {2, 4} : SetFs(fs, nb)
    BY <1>2, SetFsKeeps DEF Rates
  <1>3. CASE RestartSide
    <2>1. channel \in ChannelType /\ channel.nb # 0
      BY <1>3 DEF PitchInv, ChannelType, RestartSide
    <2> QED
      BY <1>3, <2>1, RestartKeeps DEF RestartSide
  <1>4. CASE Decode
    <2>1. channel.fs \in Rates /\ channel.nb \in {2, 4} /\ channel.fs # 0
      BY <1>4 DEF PitchInv, Rates, Decode
    <2>2. CASE \E interpolated \in BOOLEAN : DecodeFrame(FALSE, Unvoiced, interpolated)
      <3>1. /\ Unvoiced = [k \in 1..channel.nb |-> Unvoiced[k]]
            /\ \A k \in 1..channel.nb : Unvoiced[k] = 0
        BY DEF Unvoiced
      <3>2. PICK interpolated \in BOOLEAN : DecodeFrame(FALSE, Unvoiced, interpolated)
        BY <2>2
      <3> QED
        BY <2>1, <3>1, <3>2, DecodeKeeps
    <2>3. CASE \E index \in LagIndices(channel.fs), interpolated \in BOOLEAN,
                  contour \in Contours \cap (1..Len(LagCB(channel.fs, channel.nb)[1])) :
                  DecodeFrame(TRUE, DecodePitch(channel.fs, channel.nb, index, contour),
                              interpolated)
      <3>1. PICK index \in LagIndices(channel.fs), interpolated \in BOOLEAN,
                 contour \in 1..Len(LagCB(channel.fs, channel.nb)[1]) :
                 DecodeFrame(TRUE, DecodePitch(channel.fs, channel.nb, index, contour),
                             interpolated)
        BY <2>3
      <3> DEFINE lags == DecodePitch(channel.fs, channel.nb, index, contour)
      <3>2. index \in Int
        BY <2>1, PitchAssumption DEF LagIndices, Rates
      <3>3. /\ \A k \in 1..channel.nb : IsLag(channel.fs, lags[k])
            /\ \A j, k \in 1..channel.nb : lags[k] - lags[j] <= 18
        BY <2>1, <3>2, PitchDecoded
      <3>4. lags = [k \in 1..channel.nb |-> lags[k]]
        BY DEF DecodePitch
      <3> HIDE DEF lags
      <3>5. DecodeFrame(TRUE, lags, interpolated)
        BY <3>1 DEF lags
      <3> QED
        BY <2>1, <3>3, <3>4, <3>5, DecodeKeeps
    <2> QED
      BY <1>4, <2>2, <2>3 DEF Decode
  <1>5. CASE Conceal
    BY <1>5, ConcealKeeps
  <1>6. CASE UNCHANGED pitchVars
    BY <1>6 DEF pitchVars, PitchInv, HistoryReaches, Within, Reach, StartIdx
  <1> QED
    BY <1>1, <1>2, <1>3, <1>4, <1>5, <1>6 DEF PitchNext

\* Whatever the frames, losses, restarts and changes of rate and frame length, and
\* whichever columns of the codebooks a stream uses, what SILK repeats lies in the
\* memory it has (DecodeCore, plcConceal, silkDecoderSetFs).
THEOREM HistoryAlwaysReaches == PitchSpec => []HistoryReaches
  <1>1. PitchInv => HistoryReaches
    BY DEF PitchInv
  <1> QED
    BY <1>1, PitchStarts, PitchStep, PTL DEF PitchSpec

-----------------------------------------------------------------------------
(* Folds over sequences, and the least of what is finite.                    *)

\* A set of numbers has a least: the induction the folds are done by.
LEMMA LeastOf ==
    ASSUME NEW T \in SUBSET Nat, T # {}
    PROVE  \E n \in T : \A m \in T : n <= m
  <1> DEFINE Less == {ss \in Nat \X Nat : ss[1] < ss[2]}
  <1>1. IsWellFoundedOn(Less, Nat)
    BY NatLessThanWellFounded, Zenon DEF OpToRel
  <1>2. PICK n \in T : \A m \in T : ~ (<<m, n>> \in Less)
    <2> HIDE DEF Less
    <2> QED
      BY <1>1, WFMin
  <1>3. \A m \in T : n <= m
    <2> SUFFICES ASSUME NEW m \in T, m < n PROVE FALSE
      OBVIOUS
    <2>1. <<m, n>> \in Nat \X Nat /\ <<m, n>>[1] < <<m, n>>[2]
      OBVIOUS
    <2>2. <<m, n>> \in Less
      BY <2>1, Zenon
    <2> QED
      BY <1>2, <2>2
  <1> QED
    BY <1>3

\* A set that holds 0, and with each number the next, holds them all.
LEMMA Climb ==
    ASSUME NEW n \in Nat, NEW T, 0 \in T, \A k \in 1..n : k - 1 \in T => k \in T
    PROVE  \A k \in 0..n : k \in T
  <1> DEFINE Out == {k \in 0..n : k \notin T}
  <1> SUFFICES ASSUME Out # {} PROVE FALSE
    OBVIOUS
  <1>1. PICK k \in Out : \A j \in Out : k <= j
    <2>1. Out \in SUBSET Nat
      OBVIOUS
    <2> HIDE DEF Out
    <2> QED
      BY <2>1, LeastOf
  <1>2. k \in 1..n /\ k - 1 \in 0..n /\ ~(k <= k - 1)
    BY <1>1
  <1> QED
    BY <1>1, <1>2

\* The last of the first k numbers.
LEMMA LastOf ==
    ASSUME NEW k \in Nat, NEW s \in SUBSET (1..k), k \in s
    PROVE  Max(s) = k
  <1>1. k \in s /\ \A y \in s : k >= y
    OBVIOUS
  <1>2. \A x \in s : (\A y \in s : x >= y) => x = k
    BY <1>1
  <1> QED
    BY <1>1, <1>2, Zenon DEF Max

\* The last of some of the first numbers is one of them.
LEMMA LastIn ==
    ASSUME NEW n \in Nat, NEW s \in SUBSET (1..n), s # {}
    PROVE  Max(s) \in s
  <1> DEFINE T == {n - x : x \in s}
  <1>1. PICK m \in T : \A j \in T : m <= j
    <2>1. T \in SUBSET Nat /\ T # {}
      OBVIOUS
    <2> HIDE DEF T
    <2> QED
      BY <2>1, LeastOf
  <1>2. PICK x \in s : m = n - x
    BY <1>1
  <1>3. \A y \in s : x >= y
    <2> SUFFICES ASSUME NEW y \in s PROVE x >= y
      OBVIOUS
    <2>1. n - y \in T
      OBVIOUS
    <2>2. n - x <= n - y
      BY <1>1, <1>2, <2>1
    <2>3. x \in Nat /\ y \in Nat
      OBVIOUS
    <2> HIDE DEF T
    <2> QED
      BY <2>2, <2>3
  <1> QED
    BY <1>3, Zenon DEF Max

\* Without the last, the first k numbers are the first k - 1.
LEMMA FirstNumbers ==
    ASSUME NEW k \in Nat, k # 0
    PROVE  Max(1..k) = k /\ 1..k # {} /\ (1..k) \ {k} = 1..(k - 1)
  <1>1. 1..k \in SUBSET (1..k) /\ k \in 1..k /\ (1..k) \ {k} = 1..(k - 1)
    OBVIOUS
  <1> QED
    BY <1>1, LastOf

\* A function that a fold is computed with: what it gives for any of the places.
Folded(g, V, base, n, step) ==
    /\ g \in [SUBSET (1..n) -> V]
    /\ \A s \in SUBSET (1..n) : g[s] = IF s = {} THEN base ELSE step[<<g[s \ {Max(s)}], Max(s)>>]

\* The function a fold is the value of exists, by a least counterexample.
LEMMA FoldExists ==
    ASSUME NEW V, NEW base \in V, NEW n \in Nat, NEW step,
           \A v \in V, k \in 1..n : step[<<v, k>>] \in V
    PROVE  \E g : Folded(g, V, base, n, step)
  <1> DEFINE Has(k) == \E g \in [SUBSET (1..k) -> V] : \A s \in SUBSET (1..k) :
                          g[s] = IF s = {} THEN base ELSE step[<<g[s \ {Max(s)}], Max(s)>>]
             T == {k \in 0..n : Has(k)}
  <1>1. 0 \in T
    <2> DEFINE e == [s \in SUBSET (1..0) |-> base]
    <2>1. \A s \in SUBSET (1..0) : s = {}
      OBVIOUS
    <2>2. \A s \in SUBSET (1..0) :
             e[s] = IF s = {} THEN base ELSE step[<<e[s \ {Max(s)}], Max(s)>>]
      BY <2>1, Zenon
    <2>3. e \in [SUBSET (1..0) -> V]
      OBVIOUS
    <2>4. Has(0)
      <3> HIDE DEF e
      <3> QED
        BY <2>2, <2>3, Zenon
    <2>5. 0 \in 0..n
      OBVIOUS
    <2> QED
      BY <2>4, <2>5, Zenon
  <1>2. ASSUME NEW k \in 1..n, k - 1 \in T PROVE k \in T
    <2>1. PICK g \in [SUBSET (1..(k - 1)) -> V] : \A s \in SUBSET (1..(k - 1)) :
             g[s] = IF s = {} THEN base ELSE step[<<g[s \ {Max(s)}], Max(s)>>]
      BY <1>2, Zenon
    <2> DEFINE h == [s \in SUBSET (1..k) |-> IF k \in s THEN step[<<g[s \ {k}], k>>] ELSE g[s]]
    <2>k. k \in Nat /\ k # 0
      OBVIOUS
    <2>2. \A s \in SUBSET (1..k) : s \ {k} \in SUBSET (1..(k - 1)) /\ (k \notin s => s \ {k} = s)
      OBVIOUS
    <2>3. h \in [SUBSET (1..k) -> V]
      <3> SUFFICES ASSUME NEW s \in SUBSET (1..k)
                   PROVE  (IF k \in s THEN step[<<g[s \ {k}], k>>] ELSE g[s]) \in V
        BY Zenon
      <3>1. g[s \ {k}] \in V
        BY <2>2, Zenon
      <3>2. step[<<g[s \ {k}], k>>] \in V
        BY <3>1, Zenon
      <3>3. k \notin s => g[s] \in V
        BY <2>2, <3>1
      <3> QED
        BY <3>2, <3>3, Zenon
    <2>4. ASSUME NEW s \in SUBSET (1..k)
          PROVE  h[s] = IF s = {} THEN base ELSE step[<<h[s \ {Max(s)}], Max(s)>>]
      <3>1. CASE k \in s
        <4>1. Max(s) = k
          BY <2>k, <3>1, LastOf
        <4>2. s \ {k} \in SUBSET (1..k) /\ k \notin s \ {k} /\ s # {}
          BY <3>1
        <4>3. h[s \ {k}] = g[s \ {k}] /\ h[s] = step[<<g[s \ {k}], k>>]
          BY <3>1, <4>2, Zenon
        <4> QED
          BY <4>1, <4>2, <4>3, Zenon
      <3>2. CASE k \notin s
        <4>1. s \in SUBSET (1..(k - 1))
          BY <2>2, <3>2
        <4>2. h[s] = g[s]
          BY <3>2, Zenon
        <4>3. g[s] = IF s = {} THEN base ELSE step[<<g[s \ {Max(s)}], Max(s)>>]
          BY <2>1, <4>1, Zenon
        <4>4. s \ {Max(s)} \in SUBSET (1..k) /\ k \notin s \ {Max(s)}
          BY <3>2
        <4>5. h[s \ {Max(s)}] = g[s \ {Max(s)}]
          BY <4>4, Zenon
        <4> QED
          BY <4>2, <4>3, <4>5, Zenon
      <3> QED
        BY <3>1, <3>2
    <2>5. Has(k)
      <3> HIDE DEF h
      <3> QED
        BY <2>3, <2>4, Zenon
    <2>6. k \in 0..n
      OBVIOUS
    <2> QED
      BY <2>5, <2>6, Zenon
  <1>3. n \in 0..n
    OBVIOUS
  <1> HIDE DEF T
  <1>4. n \in T
    BY <1>1, <1>2, <1>3, Climb, Zenon
  <1> QED
    BY <1>4, Zenon DEF T, Folded

\* What the fold gives for the first places, one after the other.
Chained(w, V, base, n, step) ==
    /\ w \in [0..n -> V] /\ w[0] = base
    /\ \A k \in 1..n : w[k] = step[<<w[k - 1], k>>]

Follows(g, V, base, n, step) ==
    /\ \A v \in V, k \in 1..n : step[<<v, k>>] \in V
    /\ g[{}] = base
    /\ \A k \in 1..n : g[1..(k - 1)] \in V => g[1..k] = step[<<g[1..(k - 1)], k>>]

\* And its values at the first numbers make a chain, one step from the next.
LEMMA FoldChain ==
    ASSUME NEW V, NEW base \in V, NEW n \in Nat, NEW step, NEW g,
           Follows(g, V, base, n, step)
    PROVE  \E w : Chained(w, V, base, n, step) /\ w[n] = g[1..n]
  <1> DEFINE w == [k \in 0..n |-> g[1..k]]
             T == {k \in 0..n : w[k] \in V}
  <1>1. /\ 1..0 = {} /\ 0 \in 0..n /\ n \in 0..n
        /\ \A k \in 1..n : k \in 0..n /\ k - 1 \in 0..n
    OBVIOUS
  <1>2. w[0] = base /\ w[n] = g[1..n]
    BY <1>1 DEF Follows
  <1>3. \A k \in 1..n : w[k] = g[1..k] /\ w[k - 1] = g[1..(k - 1)]
    BY <1>1, Zenon
  <1>4. \A k \in 1..n : w[k - 1] \in V => w[k] = step[<<w[k - 1], k>>]
    BY <1>3, Zenon DEF Follows
  <1>5. DOMAIN w = 0..n /\ w = [k \in 0..n |-> w[k]]
    OBVIOUS
  <1> HIDE DEF w
  <1>6. \A k \in 0..n : w[k] \in V
    <2>1. 0 \in T
      BY <1>1, <1>2
    <2>2. ASSUME NEW k \in 1..n, k - 1 \in T PROVE k \in T
      <3>1. w[k - 1] \in V
        BY <2>2
      <3>2. w[k] = step[<<w[k - 1], k>>]
        BY <1>4, <3>1
      <3>3. w[k] \in V
        BY <3>1, <3>2, Zenon DEF Follows
      <3> QED
        BY <1>1, <3>3
    <2> HIDE DEF T
    <2>3. \A k \in 0..n : k \in T
      BY <2>1, <2>2, Climb, Zenon
    <2> QED
      BY <2>3 DEF T
  <1>7. w \in [0..n -> V]
    BY <1>5, <1>6
  <1>8. \A k \in 1..n : w[k] = step[<<w[k - 1], k>>]
    BY <1>1, <1>4, <1>6
  <1> QED
    BY <1>2, <1>7, <1>8, Zenon DEF Chained

-----------------------------------------------------------------------------
(* What the folds of NLSFStabilize compute.                                  *)

\* What adding a sequence up is computed with.
Sums(g, q, n) ==
    g = [t \in SUBSET (1..n) |-> IF t = {} THEN 0 ELSE g[t \ {Max(t)}] + q[Max(t)]]

\* The sum, place by place.
Summed(w, V, q, n) ==
    /\ w \in [0..n -> V] /\ w[0] = 0
    /\ \A k \in 1..n : w[k] = w[k - 1] + q[k]

\* A sum of numbers goes up one by one.
LEMMA Addition ==
    ASSUME NEW V, NEW q, NEW n \in Nat, DOMAIN q = 1..n,
           0 \in V, \A v \in V, k \in 1..n : v + q[k] \in V
    PROVE  \E w : Summed(w, V, q, n) /\ Added(q) = w[n]
  <1> DEFINE g == CHOOSE g : Sums(g, q, n)
             step == [vk \in V \X (1..n) |-> vk[1] + q[vk[2]]]
  <1>1. Added(q) = g[1..n]
    BY Zenon DEF Added, FoldLeft, MapThenFoldSet, Sums
  <1>2. \A v \in V, k \in 1..n : step[<<v, k>>] = v + q[k]
    OBVIOUS
  <1>c. \A v \in V, k \in 1..n : step[<<v, k>>] \in V
    BY <1>2, Zenon
  <1> HIDE DEF step
  <1>3. \E h : Sums(h, q, n)
    <2>1. PICK h : Folded(h, V, 0, n, step)
      BY <1>c, FoldExists, Zenon
    <2>2. ASSUME NEW t \in SUBSET (1..n)
          PROVE  h[t] = IF t = {} THEN 0 ELSE h[t \ {Max(t)}] + q[Max(t)]
      <3>1. h[t] = IF t = {} THEN 0 ELSE step[<<h[t \ {Max(t)}], Max(t)>>]
        BY <2>1, Zenon DEF Folded
      <3>2. t # {} => Max(t) \in 1..n
        BY LastIn
      <3>3. t \ {Max(t)} \in SUBSET (1..n)
        OBVIOUS
      <3>4. h[t \ {Max(t)}] \in V
        BY <2>1, <3>3, Zenon DEF Folded
      <3> QED
        BY <1>2, <3>1, <3>2, <3>4, Zenon
    <2>3. h = [t \in SUBSET (1..n) |-> h[t]]
      BY <2>1 DEF Folded
    <2> QED
      BY <2>2, <2>3, Zenon DEF Sums
  <1>4. Sums(g, q, n)
    BY <1>3, Zenon
  <1> HIDE DEF g
  <1>5. \A t \in SUBSET (1..n) :
           g[t] = IF t = {} THEN 0 ELSE g[t \ {Max(t)}] + q[Max(t)]
    BY <1>4, Zenon DEF Sums
  <1>6. g[{}] = 0
    <2>1. {} \in SUBSET (1..n)
      OBVIOUS
    <2> QED
      BY <1>5, <2>1, Zenon
  <1>7. ASSUME NEW k \in 1..n, g[1..(k - 1)] \in V
        PROVE  g[1..k] = step[<<g[1..(k - 1)], k>>]
    <2>1. 1..k \in SUBSET (1..n) /\ k \in Nat /\ k # 0
      OBVIOUS
    <2>2. Max(1..k) = k /\ 1..k # {} /\ (1..k) \ {k} = 1..(k - 1)
      BY <2>1, FirstNumbers, Zenon
    <2>3. g[1..k] = g[1..(k - 1)] + q[k]
      BY <1>5, <2>1, <2>2, Zenon
    <2> QED
      BY <1>2, <1>7, <2>3, Zenon
  <1>a. Follows(g, V, 0, n, step)
    BY <1>c, <1>6, <1>7, Zenon DEF Follows
  <1>8. PICK w : Chained(w, V, 0, n, step) /\ w[n] = g[1..n]
    BY <1>a, FoldChain
  <1>9. \A k \in 1..n : w[k] = w[k - 1] + q[k]
    <2> SUFFICES ASSUME NEW k \in 1..n PROVE w[k] = w[k - 1] + q[k]
      OBVIOUS
    <2>1. k - 1 \in 0..n
      OBVIOUS
    <2>2. w[k - 1] \in V /\ w[k] = step[<<w[k - 1], k>>]
      BY <1>8, <2>1, Zenon DEF Chained
    <2> QED
      BY <1>2, <2>2, Zenon
  <1> QED
    BY <1>1, <1>8, <1>9, Zenon DEF Chained, Summed

\* The passes upwards.
UpFold(f, d, q) == FoldLeft(LAMBDA g, i : Upward(g, d, i), f, q)

\* What the pass upwards is computed with.
Ups(g, f, d, q, n) ==
    g = [t \in SUBSET (1..n) |-> IF t = {} THEN f ELSE Upward(g[t \ {Max(t)}], d, q[Max(t)])]

\* The frequencies pushed up, one after the other.
PushedBy(w, V, f, d, q, n) ==
    /\ w \in [0..n -> V] /\ w[0] = f
    /\ \A k \in 1..n : w[k] = Upward(w[k - 1], d, q[k])

\* A pass upwards is a chain of steps, each at the next frequency.
LEMMA Upwards ==
    ASSUME NEW V, NEW f \in V, NEW d, NEW q, NEW n \in Nat, DOMAIN q = 1..n,
           \A v \in V, k \in 1..n : Upward(v, d, q[k]) \in V
    PROVE  \E w : PushedBy(w, V, f, d, q, n) /\ UpFold(f, d, q) = w[n]
  <1> DEFINE g == CHOOSE g : Ups(g, f, d, q, n)
             step == [vk \in V \X (1..n) |-> Upward(vk[1], d, q[vk[2]])]
  <1>1. UpFold(f, d, q) = g[1..n]
    BY Zenon DEF UpFold, FoldLeft, MapThenFoldSet, Ups
  <1>2. \A v \in V, k \in 1..n : step[<<v, k>>] = Upward(v, d, q[k])
    OBVIOUS
  <1>c. \A v \in V, k \in 1..n : step[<<v, k>>] \in V
    BY <1>2, Zenon
  <1> HIDE DEF step
  <1>3. \E h : Ups(h, f, d, q, n)
    <2>1. PICK h : Folded(h, V, f, n, step)
      BY <1>c, FoldExists, Zenon
    <2>2. ASSUME NEW t \in SUBSET (1..n)
          PROVE  h[t] = IF t = {} THEN f ELSE Upward(h[t \ {Max(t)}], d, q[Max(t)])
      <3>1. h[t] = IF t = {} THEN f ELSE step[<<h[t \ {Max(t)}], Max(t)>>]
        BY <2>1, Zenon DEF Folded
      <3>2. t # {} => Max(t) \in 1..n
        BY LastIn
      <3>3. t \ {Max(t)} \in SUBSET (1..n)
        OBVIOUS
      <3>4. h[t \ {Max(t)}] \in V
        BY <2>1, <3>3, Zenon DEF Folded
      <3> QED
        BY <1>2, <3>1, <3>2, <3>4, Zenon
    <2>3. h = [t \in SUBSET (1..n) |-> h[t]]
      BY <2>1 DEF Folded
    <2> QED
      BY <2>2, <2>3, Zenon DEF Ups
  <1>4. Ups(g, f, d, q, n)
    BY <1>3, Zenon
  <1> HIDE DEF g
  <1>5. \A t \in SUBSET (1..n) :
           g[t] = IF t = {} THEN f ELSE Upward(g[t \ {Max(t)}], d, q[Max(t)])
    BY <1>4, Zenon DEF Ups
  <1>6. g[{}] = f
    <2>1. {} \in SUBSET (1..n)
      OBVIOUS
    <2> QED
      BY <1>5, <2>1, Zenon
  <1>7. ASSUME NEW k \in 1..n, g[1..(k - 1)] \in V
        PROVE  g[1..k] = step[<<g[1..(k - 1)], k>>]
    <2>1. 1..k \in SUBSET (1..n) /\ k \in Nat /\ k # 0
      OBVIOUS
    <2>2. Max(1..k) = k /\ 1..k # {} /\ (1..k) \ {k} = 1..(k - 1)
      BY <2>1, FirstNumbers, Zenon
    <2>3. g[1..k] = Upward(g[1..(k - 1)], d, q[k])
      BY <1>5, <2>1, <2>2, Zenon
    <2> QED
      BY <1>2, <1>7, <2>3, Zenon
  <1>a. Follows(g, V, f, n, step)
    BY <1>c, <1>6, <1>7, Zenon DEF Follows
  <1>8. PICK w : Chained(w, V, f, n, step) /\ w[n] = g[1..n]
    BY <1>a, FoldChain
  <1>9. \A k \in 1..n : w[k] = Upward(w[k - 1], d, q[k])
    <2> SUFFICES ASSUME NEW k \in 1..n PROVE w[k] = Upward(w[k - 1], d, q[k])
      OBVIOUS
    <2>1. k - 1 \in 0..n
      OBVIOUS
    <2>2. w[k - 1] \in V /\ w[k] = step[<<w[k - 1], k>>]
      BY <1>8, <2>1, Zenon DEF Chained
    <2> QED
      BY <1>2, <2>2, Zenon
  <1> QED
    BY <1>1, <1>8, <1>9, Zenon DEF Chained, PushedBy

\* The passes downwards.
DownFold(f, d, q) == FoldLeft(LAMBDA g, i : Downward(g, d, i), f, q)

\* What the pass downwards is computed with.
Downs(g, f, d, q, n) ==
    g = [t \in SUBSET (1..n) |-> IF t = {} THEN f ELSE Downward(g[t \ {Max(t)}], d, q[Max(t)])]

\* And down.
PulledBy(w, V, f, d, q, n) ==
    /\ w \in [0..n -> V] /\ w[0] = f
    /\ \A k \in 1..n : w[k] = Downward(w[k - 1], d, q[k])

\* So is one downwards.
LEMMA Downwards ==
    ASSUME NEW V, NEW f \in V, NEW d, NEW q, NEW n \in Nat, DOMAIN q = 1..n,
           \A v \in V, k \in 1..n : Downward(v, d, q[k]) \in V
    PROVE  \E w : PulledBy(w, V, f, d, q, n) /\ DownFold(f, d, q) = w[n]
  <1> DEFINE g == CHOOSE g : Downs(g, f, d, q, n)
             step == [vk \in V \X (1..n) |-> Downward(vk[1], d, q[vk[2]])]
  <1>1. DownFold(f, d, q) = g[1..n]
    BY Zenon DEF DownFold, FoldLeft, MapThenFoldSet, Downs
  <1>2. \A v \in V, k \in 1..n : step[<<v, k>>] = Downward(v, d, q[k])
    OBVIOUS
  <1>c. \A v \in V, k \in 1..n : step[<<v, k>>] \in V
    BY <1>2, Zenon
  <1> HIDE DEF step
  <1>3. \E h : Downs(h, f, d, q, n)
    <2>1. PICK h : Folded(h, V, f, n, step)
      BY <1>c, FoldExists, Zenon
    <2>2. ASSUME NEW t \in SUBSET (1..n)
          PROVE  h[t] = IF t = {} THEN f ELSE Downward(h[t \ {Max(t)}], d, q[Max(t)])
      <3>1. h[t] = IF t = {} THEN f ELSE step[<<h[t \ {Max(t)}], Max(t)>>]
        BY <2>1, Zenon DEF Folded
      <3>2. t # {} => Max(t) \in 1..n
        BY LastIn
      <3>3. t \ {Max(t)} \in SUBSET (1..n)
        OBVIOUS
      <3>4. h[t \ {Max(t)}] \in V
        BY <2>1, <3>3, Zenon DEF Folded
      <3> QED
        BY <1>2, <3>1, <3>2, <3>4, Zenon
    <2>3. h = [t \in SUBSET (1..n) |-> h[t]]
      BY <2>1 DEF Folded
    <2> QED
      BY <2>2, <2>3, Zenon DEF Downs
  <1>4. Downs(g, f, d, q, n)
    BY <1>3, Zenon
  <1> HIDE DEF g
  <1>5. \A t \in SUBSET (1..n) :
           g[t] = IF t = {} THEN f ELSE Downward(g[t \ {Max(t)}], d, q[Max(t)])
    BY <1>4, Zenon DEF Downs
  <1>6. g[{}] = f
    <2>1. {} \in SUBSET (1..n)
      OBVIOUS
    <2> QED
      BY <1>5, <2>1, Zenon
  <1>7. ASSUME NEW k \in 1..n, g[1..(k - 1)] \in V
        PROVE  g[1..k] = step[<<g[1..(k - 1)], k>>]
    <2>1. 1..k \in SUBSET (1..n) /\ k \in Nat /\ k # 0
      OBVIOUS
    <2>2. Max(1..k) = k /\ 1..k # {} /\ (1..k) \ {k} = 1..(k - 1)
      BY <2>1, FirstNumbers, Zenon
    <2>3. g[1..k] = Downward(g[1..(k - 1)], d, q[k])
      BY <1>5, <2>1, <2>2, Zenon
    <2> QED
      BY <1>2, <1>7, <2>3, Zenon
  <1>a. Follows(g, V, f, n, step)
    BY <1>c, <1>6, <1>7, Zenon DEF Follows
  <1>8. PICK w : Chained(w, V, f, n, step) /\ w[n] = g[1..n]
    BY <1>a, FoldChain
  <1>9. \A k \in 1..n : w[k] = Downward(w[k - 1], d, q[k])
    <2> SUFFICES ASSUME NEW k \in 1..n PROVE w[k] = Downward(w[k - 1], d, q[k])
      OBVIOUS
    <2>1. k - 1 \in 0..n
      OBVIOUS
    <2>2. w[k - 1] \in V /\ w[k] = step[<<w[k - 1], k>>]
      BY <1>8, <2>1, Zenon DEF Chained
    <2> QED
      BY <1>2, <2>2, Zenon
  <1> QED
    BY <1>1, <1>8, <1>9, Zenon DEF Chained, PulledBy

\* The turns of the loop.
TurnFold(s, d, q) == FoldLeft(LAMBDA a, loop : Turn(a, d), s, q)

\* What the loop is computed with.
Loops(g, s, d, q, n) ==
    g = [t \in SUBSET (1..n) |-> IF t = {} THEN s ELSE Turn(g[t \ {Max(t)}], d)]

\* The turns of the loop.
Turned(w, V, s, d, q, n) ==
    /\ w \in [0..n -> V] /\ w[0] = s
    /\ \A k \in 1..n : w[k] = Turn(w[k - 1], d)

\* And so are the turns of the loop.
LEMMA Turns ==
    ASSUME NEW V, NEW s \in V, NEW d, NEW q, NEW n \in Nat, DOMAIN q = 1..n,
           \A v \in V : Turn(v, d) \in V
    PROVE  \E w : Turned(w, V, s, d, q, n) /\ TurnFold(s, d, q) = w[n]
  <1> DEFINE g == CHOOSE g : Loops(g, s, d, q, n)
             step == [vk \in V \X (1..n) |-> Turn(vk[1], d)]
  <1>1. TurnFold(s, d, q) = g[1..n]
    BY Zenon DEF TurnFold, FoldLeft, MapThenFoldSet, Loops
  <1>2. \A v \in V, k \in 1..n : step[<<v, k>>] = Turn(v, d)
    OBVIOUS
  <1>c. \A v \in V, k \in 1..n : step[<<v, k>>] \in V
    BY <1>2, Zenon
  <1> HIDE DEF step
  <1>3. \E h : Loops(h, s, d, q, n)
    <2>1. PICK h : Folded(h, V, s, n, step)
      BY <1>c, FoldExists, Zenon
    <2>2. ASSUME NEW t \in SUBSET (1..n)
          PROVE  h[t] = IF t = {} THEN s ELSE Turn(h[t \ {Max(t)}], d)
      <3>1. h[t] = IF t = {} THEN s ELSE step[<<h[t \ {Max(t)}], Max(t)>>]
        BY <2>1, Zenon DEF Folded
      <3>2. t # {} => Max(t) \in 1..n
        BY LastIn
      <3>3. t \ {Max(t)} \in SUBSET (1..n)
        OBVIOUS
      <3>4. h[t \ {Max(t)}] \in V
        BY <2>1, <3>3, Zenon DEF Folded
      <3> QED
        BY <1>2, <3>1, <3>2, <3>4, Zenon
    <2>3. h = [t \in SUBSET (1..n) |-> h[t]]
      BY <2>1 DEF Folded
    <2> QED
      BY <2>2, <2>3, Zenon DEF Loops
  <1>4. Loops(g, s, d, q, n)
    BY <1>3, Zenon
  <1> HIDE DEF g
  <1>5. \A t \in SUBSET (1..n) :
           g[t] = IF t = {} THEN s ELSE Turn(g[t \ {Max(t)}], d)
    BY <1>4, Zenon DEF Loops
  <1>6. g[{}] = s
    <2>1. {} \in SUBSET (1..n)
      OBVIOUS
    <2> QED
      BY <1>5, <2>1, Zenon
  <1>7. ASSUME NEW k \in 1..n, g[1..(k - 1)] \in V
        PROVE  g[1..k] = step[<<g[1..(k - 1)], k>>]
    <2>1. 1..k \in SUBSET (1..n) /\ k \in Nat /\ k # 0
      OBVIOUS
    <2>2. Max(1..k) = k /\ 1..k # {} /\ (1..k) \ {k} = 1..(k - 1)
      BY <2>1, FirstNumbers, Zenon
    <2>3. g[1..k] = Turn(g[1..(k - 1)], d)
      BY <1>5, <2>1, <2>2, Zenon
    <2> QED
      BY <1>2, <1>7, <2>3, Zenon
  <1>a. Follows(g, V, s, n, step)
    BY <1>c, <1>6, <1>7, Zenon DEF Follows
  <1>8. PICK w : Chained(w, V, s, n, step) /\ w[n] = g[1..n]
    BY <1>a, FoldChain
  <1>9. \A k \in 1..n : w[k] = Turn(w[k - 1], d)
    <2> SUFFICES ASSUME NEW k \in 1..n PROVE w[k] = Turn(w[k - 1], d)
      OBVIOUS
    <2>1. k - 1 \in 0..n
      OBVIOUS
    <2>2. w[k - 1] \in V /\ w[k] = step[<<w[k - 1], k>>]
      BY <1>8, <2>1, Zenon DEF Chained
    <2> QED
      BY <1>2, <2>2, Zenon
  <1> QED
    BY <1>1, <1>8, <1>9, Zenon DEF Chained, Turned

-----------------------------------------------------------------------------
(* NLSFStabilize                                                             *)

\* The less and the greater of two numbers.
LEMMA OfTwo ==
    ASSUME NEW a \in Int, NEW b \in Int
    PROVE  /\ Min({a, b}) = IF a <= b THEN a ELSE b
           /\ Max({a, b}) = IF a >= b THEN a ELSE b
  <1> DEFINE S == {a, b}
             low == IF a <= b THEN a ELSE b
             high == IF a >= b THEN a ELSE b
  <1>1. /\ low \in S /\ \A y \in S : low <= y
        /\ high \in S /\ \A y \in S : high >= y
    OBVIOUS
  <1>2. /\ \A x \in S : (\A y \in S : x <= y) => x = low
        /\ \A x \in S : (\A y \in S : x >= y) => x = high
    OBVIOUS
  <1> HIDE DEF S, low, high
  <1>3. Min(S) = low /\ Max(S) = high
    BY <1>1, <1>2, Zenon DEF Min, Max
  <1> QED
    BY <1>3 DEF S, low, high

\* The least of some numbers, none below a bound.
LEMMA LeastIn ==
    ASSUME NEW b \in Int, NEW S \in SUBSET Int, S # {}, \A x \in S : x >= b
    PROVE  Min(S) \in S /\ \A y \in S : Min(S) <= y
  <1> DEFINE T == {x - b : x \in S}
  <1>1. PICK m \in T : \A j \in T : m <= j
    <2>1. T \in SUBSET Nat /\ T # {}
      OBVIOUS
    <2> HIDE DEF T
    <2> QED
      BY <2>1, LeastOf
  <1>2. PICK x \in S : m = x - b
    BY <1>1
  <1>3. \A y \in S : x <= y
    <2> SUFFICES ASSUME NEW y \in S PROVE x <= y
      OBVIOUS
    <2>1. y - b \in T
      OBVIOUS
    <2>2. x - b <= y - b
      BY <1>1, <1>2, <2>1
    <2>3. x \in Int /\ y \in Int
      OBVIOUS
    <2> HIDE DEF T
    <2> QED
      BY <2>2, <2>3
  <1> QED
    BY <1>3, Zenon DEF Min

\* The sum of numbers.
LEMMA NatAddition ==
    ASSUME NEW q, NEW n \in Nat, DOMAIN q = 1..n, \A k \in 1..n : q[k] \in Nat
    PROVE  \E w : Summed(w, Nat, q, n) /\ Added(q) = w[n]
  <1>1. PICK V : V = Nat
    OBVIOUS
  <1>2. \A v \in V, k \in 1..n : v + q[k] \in V
    BY <1>1
  <1>3. 0 \in V
    BY <1>1
  <1>4. \E w : Summed(w, V, q, n) /\ Added(q) = w[n]
    BY <1>2, <1>3, Addition, Zenon
  <1> QED
    BY <1>1, <1>4, Zenon

\* The distances up to each frequency: of an order L, with room left for all of them.
Room(P, d, L) ==
    /\ L \in Nat /\ L >= 1 /\ NlsfRange \in Nat
    /\ \A k \in 1..(L + 1) : d[k] \in Nat
    /\ P \in [0..(L + 1) -> Nat] /\ P[0] = 0
    /\ \A k \in 1..(L + 1) : P[k] = P[k - 1] + d[k]
    /\ \A k \in 0..L : P[k] <= P[L]
    /\ d[L + 1] >= 2 /\ P[L + 1] < NlsfRange

\* Distances that fit have such a sequence of totals.
LEMMA RoomFor ==
    ASSUME NEW d \in Distances
    PROVE  \E P : Room(P, d, Len(d) - 1)
  <1>1. /\ NlsfRange \in Nat /\ d \in Seq(Nat) /\ Len(d) > 1 /\ d[Len(d)] >= 2
        /\ Added(d) < NlsfRange
    BY DistancesFit
  <1>2. PICK n \in Nat : n = Len(d)
    BY <1>1
  <1>3. DOMAIN d = 1..n /\ \A k \in 1..n : d[k] \in Nat
    BY <1>1, <1>2
  <1>a. PICK P : Summed(P, Nat, d, n) /\ Added(d) = P[n]
    BY <1>3, NatAddition, Zenon
  <1>4. /\ P \in [0..n -> Nat] /\ P[0] = 0 /\ Added(d) = P[n]
        /\ \A k \in 1..n : P[k] = P[k - 1] + d[k]
    BY <1>a DEF Summed
  <1>5. \A j \in 0..(n - 1) : P[n - 1 - j] <= P[n - 1]
    <2> DEFINE T == {j \in 0..(n - 1) : P[n - 1 - j] <= P[n - 1]}
    <2>a. n - 1 \in Nat /\ n - 1 \in 0..n
      BY <1>1, <1>2
    <2>1. n - 1 \in Nat /\ n - 1 \in 0..n /\ P[n - 1] \in Nat
      BY <1>4, <2>a
    <2>2. 0 \in T
      BY <2>1
    <2>3. ASSUME NEW j \in 1..(n - 1), j - 1 \in T PROVE j \in T
      <3>1. n - j \in 1..n /\ n - 1 - (j - 1) = n - j /\ (n - j) - 1 = n - 1 - j /\ j \in 0..(n - 1)
            /\ n - 1 - j \in 0..n /\ n - j \in 0..n
        BY <2>1
      <3>2. P[n - j] <= P[n - 1]
        BY <2>3, <3>1
      <3>3. P[n - j] = P[n - 1 - j] + d[n - j] /\ d[n - j] \in Nat
        BY <1>3, <1>4, <3>1
      <3>4. P[n - 1 - j] \in Nat
        BY <1>4, <3>1
      <3>5. P[n - 1 - j] <= P[n - 1]
        BY <2>1, <3>2, <3>3, <3>4
      <3> QED
        BY <3>1, <3>5
    <2> HIDE DEF T
    <2>4. \A j \in 0..(n - 1) : j \in T
      BY <2>1, <2>2, <2>3, Climb
    <2> QED
      BY <2>4 DEF T
  <1>6. \A k \in 0..(n - 1) : P[k] <= P[n - 1]
    <2> SUFFICES ASSUME NEW k \in 0..(n - 1) PROVE P[k] <= P[n - 1]
      OBVIOUS
    <2>1. n - 1 - k \in 0..(n - 1) /\ n - 1 - (n - 1 - k) = k
      OBVIOUS
    <2> QED
      BY <1>5, <2>1
  <1>7. n - 1 + 1 = n /\ n - 1 \in Nat /\ n - 1 >= 1
    BY <1>1, <1>2
  <1>8. Room(P, d, n - 1)
    BY <1>1, <1>2, <1>3, <1>4, <1>6, <1>7 DEF Room
  <1> QED
    BY <1>2, <1>8

\* What the proofs below use of it.
LEMMA RoomFacts ==
    ASSUME NEW P, NEW d, NEW L, Room(P, d, L)
    PROVE  /\ L \in Nat /\ L >= 1 /\ NlsfRange \in Nat /\ P[0] = 0
           /\ \A k \in 0..(L + 1) : P[k] \in Nat /\ P[k] < NlsfRange
           /\ \A k \in 1..(L + 1) : d[k] \in Nat /\ P[k] = P[k - 1] + d[k] /\ d[k] < NlsfRange
           /\ \A k \in 0..L : P[k] <= P[L]
           /\ P[L + 1] = P[L] + d[L + 1] /\ d[L + 1] >= 2
  <1>1. L \in Nat /\ L >= 1 /\ NlsfRange \in Nat /\ P[0] = 0 /\ d[L + 1] >= 2 /\ P[L + 1] < NlsfRange
    BY Zenon DEF Room
  <1>2. \A k \in 0..L : P[k] <= P[L]
    BY Zenon DEF Room
  <1>3. \A k \in 1..(L + 1) : d[k] \in Nat /\ P[k] = P[k - 1] + d[k]
    BY Zenon DEF Room
  <1>4. P \in [0..(L + 1) -> Nat]
    BY Zenon DEF Room
  <1>5. P[L + 1] = P[L] + d[L + 1] /\ d[L + 1] \in Nat /\ P[L] \in Nat
    <2>1. L + 1 \in 1..(L + 1) /\ (L + 1) - 1 = L /\ L \in 0..(L + 1)
      BY <1>1
    <2>2. P[L + 1] = P[(L + 1) - 1] + d[L + 1]
      BY <1>3, <2>1, Zenon
    <2> QED
      BY <1>3, <1>4, <2>1, <2>2
  <1>6. ASSUME NEW k \in 0..(L + 1) PROVE P[k] \in Nat /\ P[k] < NlsfRange
    <2>1. P[k] \in Nat
      BY <1>4
    <2>2. k \in 0..L \/ k = L + 1
      BY <1>1
    <2> QED
      BY <1>1, <1>2, <1>5, <2>1, <2>2
  <1>7. ASSUME NEW k \in 1..(L + 1) PROVE d[k] < NlsfRange
    <2>1. k \in 0..(L + 1) /\ k - 1 \in 0..(L + 1)
      BY <1>1
    <2>2. P[k] = P[k - 1] + d[k] /\ P[k] < NlsfRange /\ P[k] \in Nat /\ P[k - 1] \in Nat /\ d[k] \in Nat
      BY <1>3, <1>6, <2>1
    <2> QED
      BY <1>1, <2>2
  <1> QED
    BY <1>1, <1>2, <1>3, <1>5, <1>6, <1>7

\* The total of some distances in a row.
LEMMA TotalIs ==
    ASSUME NEW P, NEW d, NEW L, Room(P, d, L),
           NEW a \in 0..(L + 1), NEW b \in a..(L + 1)
    PROVE  Total(d, a, b - 1) = P[b] - P[a]
  <1> DEFINE m == b - a
             s == [n \in 1..m |-> d[a + n]]
  <1>1. m \in Nat /\ L \in Nat
    BY DEF Room
  <1>2. Total(d, a, b - 1) = Added(s)
    <2>1. b - 1 - a + 1 = m
      BY <1>1
    <2>2. \A n \in 1..m : (a + n - 1) + 1 = a + n
      BY <1>1
    <2>3. [n \in 1..(b - 1 - a + 1) |-> d[(a + n - 1) + 1]] = s
      BY <2>1, <2>2
    <2> HIDE DEF s
    <2> QED
      BY <2>3, Zenon DEF Total, D
  <1>3. \A n \in 1..m : s[n] = d[a + n] /\ a + n \in 1..(L + 1) /\ a + (n - 1) \in 0..(L + 1)
    BY <1>1
  <1>4. DOMAIN s = 1..m
    OBVIOUS
  <1> HIDE DEF s, m
  <1>5. \A k \in 1..m : s[k] \in Nat
    BY <1>3 DEF Room
  <1>b. PICK w : Summed(w, Nat, s, m) /\ Added(s) = w[m]
    BY <1>1, <1>4, <1>5, NatAddition, Zenon
  <1>6. /\ w \in [0..m -> Nat] /\ w[0] = 0 /\ Added(s) = w[m]
        /\ \A k \in 1..m : w[k] = w[k - 1] + s[k]
    BY <1>b DEF Summed
  <1>7. \A k \in 0..m : w[k] = P[a + k] - P[a]
    <2> DEFINE T == {k \in 0..m : w[k] = P[a + k] - P[a]}
    <2>1. 0 \in T
      <3>1. a + 0 = a /\ P[a] \in Nat
        BY <1>1 DEF Room
      <3> QED
        BY <1>1, <1>6, <3>1
    <2>2. ASSUME NEW k \in 1..m, k - 1 \in T PROVE k \in T
      <3>1. w[k] = w[k - 1] + d[a + k]
        BY <1>3, <1>6
      <3>2. (a + k) - 1 = a + (k - 1) /\ P[a + k] = P[a + (k - 1)] + d[a + k]
        <4>1. (a + k) - 1 = a + (k - 1)
          BY <1>1
        <4> QED
          BY <1>3, <4>1 DEF Room
      <3>3. P[a + (k - 1)] \in Nat /\ P[a] \in Nat /\ d[a + k] \in Nat
        BY <1>3 DEF Room
      <3>4. w[k - 1] = P[a + (k - 1)] - P[a]
        BY <2>2
      <3> QED
        BY <1>1, <3>1, <3>2, <3>3, <3>4
    <2> HIDE DEF T
    <2>3. \A k \in 0..m : k \in T
      BY <1>1, <2>1, <2>2, Climb
    <2> QED
      BY <2>3 DEF T
  <1>8. m \in 0..m /\ a + m = b
    BY <1>1 DEF m
  <1> QED
    BY <1>2, <1>6, <1>7, <1>8

\* The frequencies of an order.
Freqs(L) == [1..L -> 0..(NlsfRange - 1)]

\* As many frequencies as the order says.
LEMMA OrderOf ==
    ASSUME NEW S, NEW L \in Nat, NEW f \in [1..L -> S]
    PROVE  Len(f) = L /\ DOMAIN f = 1..L
  <1>1. f \in Seq(S)
    OBVIOUS
  <1>2. Len(f) \in Nat /\ DOMAIN f = 1..Len(f) /\ DOMAIN f = 1..L
    BY <1>1
  <1> QED
    BY <1>2

\* The gaps, whose places are numbered as in the code.
LEMMA GapIs ==
    ASSUME NEW P, NEW d, NEW L, Room(P, d, L), NEW f \in [1..L -> Int]
    PROVE  /\ Gap(f, d, 0) = f[1] - d[1]
           /\ Gap(f, d, L) = NlsfRange - (f[L] + d[L + 1])
           /\ \A i \in 1..(L - 1) : Gap(f, d, i) = f[i + 1] - (f[i] + d[i + 1])
           /\ \A i \in 0..L : Gap(f, d, i) \in Int
  <1>1. L \in Nat /\ L >= 1 /\ Len(f) = L
    BY OrderOf, RoomFacts
  <1>2. /\ Gap(f, d, 0) = f[1] - d[1]
        /\ Gap(f, d, L) = NlsfRange - (f[L] + d[L + 1])
        /\ \A i \in 1..(L - 1) : Gap(f, d, i) = f[i + 1] - (f[i] + d[i + 1])
    BY <1>1 DEF Gap, D
  <1>3. NlsfRange \in Int /\ \A k \in 1..(L + 1) : d[k] \in Int
    BY RoomFacts
  <1>4. ASSUME NEW i \in 0..L PROVE Gap(f, d, i) \in Int
    <2>1. CASE i = 0
      BY <1>1, <1>2, <1>3, <2>1
    <2>2. CASE i = L
      <3>1. f[L] \in Int /\ d[L + 1] \in Int
        BY <1>1, <1>3
      <3> QED
        BY <1>2, <1>3, <2>2, <3>1
    <2>3. CASE i \in 1..(L - 1)
      <3>1. Gap(f, d, i) = f[i + 1] - (f[i] + d[i + 1])
        BY <1>2, <2>3
      <3>2. f[i + 1] \in Int /\ f[i] \in Int /\ d[i + 1] \in Int
        BY <1>1, <1>3, <2>3
      <3> QED
        BY <3>1, <3>2
    <2> QED
      BY <1>1, <2>1, <2>2, <2>3
  <1> QED
    BY <1>2, <1>4

\* The loop that looks for the closest pair finds one.
LEMMA ClosestIn ==
    ASSUME NEW P, NEW d, NEW L, Room(P, d, L), NEW f \in Freqs(L)
    PROVE  Closest(f, d) \in 0..L
  <1> DEFINE G == {Gap(f, d, i) : i \in 0..L}
             I == {i \in 0..L : Gap(f, d, i) = Min(G)}
  <1>1. L \in Nat /\ L >= 1 /\ NlsfRange \in Nat /\ Len(f) = L /\ f \in [1..L -> Int]
    <2>1. L \in Nat /\ NlsfRange \in Nat /\ L >= 1
      BY RoomFacts
    <2>2. f \in [1..L -> Int]
      BY DEF Freqs
    <2> QED
      BY <2>1, <2>2, OrderOf
  <1>2. \A i \in 0..L : Gap(f, d, i) \in Int /\ Gap(f, d, i) >= -2 * NlsfRange
    <2> SUFFICES ASSUME NEW i \in 0..L PROVE Gap(f, d, i) \in Int /\ Gap(f, d, i) >= -2 * NlsfRange
      OBVIOUS
    <2>1. Gap(f, d, i) \in Int
      BY <1>1, GapIs
    <2>2. \A k \in 1..(L + 1) : d[k] \in Nat /\ d[k] < NlsfRange
      BY RoomFacts
    <2>3. \A k \in 1..L : f[k] \in Nat /\ f[k] < NlsfRange
      BY <1>1 DEF Freqs
    <2>4. CASE i = 0
      <3>1. Gap(f, d, i) = f[1] - d[1]
        BY <1>1, <2>4, GapIs
      <3> QED
        BY <1>1, <2>1, <2>2, <2>3, <3>1
    <2>5. CASE i = L
      <3>1. Gap(f, d, i) = NlsfRange - (f[L] + d[L + 1])
        BY <1>1, <2>5, GapIs
      <3> QED
        BY <1>1, <2>1, <2>2, <2>3, <3>1
    <2>6. CASE i \in 1..(L - 1)
      <3>1. Gap(f, d, i) = f[i + 1] - (f[i] + d[i + 1])
        <4>1. /\ Gap(f, d, 0) = f[1] - d[1]
              /\ Gap(f, d, L) = NlsfRange - (f[L] + d[L + 1])
              /\ \A j \in 1..(L - 1) : Gap(f, d, j) = f[j + 1] - (f[j] + d[j + 1])
              /\ \A j \in 0..L : Gap(f, d, j) \in Int
          <5>1. f \in [1..L -> Int]
            BY <1>1
          <5> QED
            BY <5>1, GapIs, Zenon
        <4> QED
          BY <2>6, <4>1, Zenon
      <3>2. i \in 1..L /\ i + 1 \in 1..L /\ i + 1 \in 1..(L + 1)
        BY <1>1, <2>6
      <3> QED
        BY <1>1, <2>1, <2>2, <2>3, <3>1, <3>2
    <2> QED
      BY <1>1, <2>4, <2>5, <2>6
  <1>3. G \in SUBSET Int /\ G # {} /\ \A x \in G : x >= -2 * NlsfRange
    <2>1. 0 \in 0..L
      BY <1>1
    <2>2. G # {}
      BY <2>1, Zenon
    <2>3. \A x \in G : x \in Int /\ x >= -2 * NlsfRange
      BY <1>2, Zenon
    <2> QED
      BY <2>2, <2>3, Zenon
  <1>4. Min(G) \in G
    <2>1. -2 * NlsfRange \in Int
      BY <1>1
    <2> HIDE DEF G
    <2> QED
      BY <1>3, <2>1, LeastIn
  <1>5. I # {} /\ I \in SUBSET Int /\ \A x \in I : x >= 0
    <2>1. PICK i \in 0..L : Min(G) = Gap(f, d, i)
      BY <1>4
    <2>2. i \in I
      BY <2>1, Zenon
    <2>3. I \in SUBSET (0..L)
      OBVIOUS
    <2> HIDE DEF I
    <2> QED
      BY <1>1, <2>2, <2>3
  <1>6. Min(I) \in I
    <2> HIDE DEF I
    <2> QED
      BY <1>5, LeastIn
  <1>7. Closest(f, d) = Min(I)
    BY <1>1, Zenon DEF Closest
  <1> QED
    BY <1>6, <1>7

\* What is limited is within its limits.
LEMMA WithinLimits ==
    ASSUME NEW x \in Int, NEW low \in Int, NEW high \in Int, low <= high
    PROVE  LimitTo(x, low, high) \in low..high
  <1>1. Min({x, high}) = IF x <= high THEN x ELSE high
    BY OfTwo
  <1>2. PICK m \in Int : m = Min({x, high}) /\ m <= high
    <2> DEFINE least == IF x <= high THEN x ELSE high
    <2>1. least \in Int /\ least <= high
      OBVIOUS
    <2>2. Min({x, high}) = least
      BY <1>1
    <2> QED
      BY <2>1, <2>2, Zenon
  <1>3. Max({low, m}) = IF low >= m THEN low ELSE m
    BY OfTwo
  <1>4. LimitTo(x, low, high) = Max({low, m})
    <2>1. ~(low > high)
      OBVIOUS
    <2> QED
      BY <1>2, <2>1, Zenon DEF LimitTo
  <1> QED
    BY <1>2, <1>3, <1>4

\* A pair around its centre stays in range, with what is below it and above.
LEMMA PairArithmetic ==
    ASSUME NEW N \in Nat, NEW e \in Nat, NEW half \in Nat, 2 * half <= e, e <= 2 * half + 1,
           NEW below \in Nat, NEW above \in Nat, NEW upto \in Nat, NEW all \in Nat, NEW z \in Nat,
           above = below + e, above <= upto, all = upto + z, z >= 2,
           NEW centre \in Int, below + half <= centre, centre <= N - (all - above) - half
    PROVE  centre - half \in 0..(N - 1) /\ centre - half + e \in 0..(N - 1)
  <1>1. centre - half >= 0 /\ centre - half + e >= 0
    OBVIOUS
  <1>2. centre - half + e <= N - 1
    OBVIOUS
  <1>3. centre - half <= N - 1
    BY <1>2
  <1> QED
    BY <1>1, <1>2, <1>3

\* Where a turn of the loop puts a pair: between the room of those below and of those
\* above, so that no frequency leaves the range of an int16.
LEMMA PairFits ==
    ASSUME NEW P, NEW d, NEW L, Room(P, d, L), NEW f \in [1..L -> Int], NEW i \in 1..(L - 1)
    PROVE  LET half == D(d, i) \div 2
               centre == LimitTo((f[i] + f[i + 1] + 1) \div 2,
                                 Total(d, 0, i - 1) + half,
                                 NlsfRange - Total(d, i + 1, L) - half)
           IN  /\ centre - half \in 0..(NlsfRange - 1)
               /\ centre - half + D(d, i) \in 0..(NlsfRange - 1)
  <1>1. /\ L \in Nat /\ L >= 1 /\ NlsfRange \in Nat /\ P[0] = 0
        /\ \A k \in 0..(L + 1) : P[k] \in Nat /\ P[k] < NlsfRange
        /\ \A k \in 1..(L + 1) : d[k] \in Nat /\ P[k] = P[k - 1] + d[k] /\ d[k] < NlsfRange
        /\ \A k \in 0..L : P[k] <= P[L]
        /\ P[L + 1] = P[L] + d[L + 1] /\ d[L + 1] >= 2
    BY RoomFacts, Zenon
  <1>2. /\ i \in 0..(L + 1) /\ i + 1 \in 1..(L + 1) /\ i + 1 \in 0..L /\ (i + 1) - 1 = i
        /\ 0 \in 0..(L + 1) /\ i \in 0..(L + 1) /\ i + 1 \in 0..(L + 1) /\ L + 1 \in (i + 1)..(L + 1)
        /\ (L + 1) - 1 = L /\ i \in 1..L /\ i + 1 \in 1..L /\ L + 1 \in 0..(L + 1) /\ L \in 0..(L + 1)
    BY <1>1
  <1>3. Total(d, 0, i - 1) = P[i] - P[0]
    BY <1>2, TotalIs, Zenon
  <1>4. Total(d, i + 1, L) = P[L + 1] - P[i + 1]
    BY <1>2, TotalIs
  <1>5. PICK e \in Nat : e = d[i + 1]
    BY <1>1, <1>2
  <1>6. PICK half \in Nat : half = e \div 2
    OBVIOUS
  <1>7. 2 * half <= e /\ e <= 2 * half + 1
    BY <1>6
  <1>8. PICK below \in Nat, above \in Nat, all \in Nat, upto \in Nat :
           below = P[i] /\ above = P[i + 1] /\ all = P[L + 1] /\ upto = P[L]
    BY <1>1, <1>2
  <1>9. /\ above = below + e /\ above <= upto /\ all = upto + d[L + 1]
        /\ d[L + 1] >= 2 /\ d[L + 1] \in Nat /\ all < NlsfRange
    <2>1. P[i + 1] = P[(i + 1) - 1] + d[i + 1] /\ P[i + 1] <= P[L]
      BY <1>1, <1>2, Zenon
    <2>2. d[L + 1] \in Nat
      BY <1>1
    <2> QED
      BY <1>1, <1>2, <1>5, <1>8, <2>1, <2>2
  <1> DEFINE low == below - 0 + half
             high == NlsfRange - (all - above) - half
  <1>10. low \in Int /\ high \in Int /\ low <= high
    <2>1. NlsfRange \in Nat
      BY <1>1
    <2>2. 2 * half <= e /\ above = below + e /\ all < NlsfRange
      BY <1>7, <1>9
    <2> QED
      BY <2>1, <2>2
  <1>11. PICK x \in Int : x = (f[i] + f[i + 1] + 1) \div 2
    <2>1. f[i] \in Int /\ f[i + 1] \in Int
      BY <1>2
    <2> QED
      BY <2>1
  <1>12. PICK centre \in Int : centre = LimitTo(x, low, high) /\ low <= centre /\ centre <= high
    <2> HIDE DEF low, high
    <2>1. LimitTo(x, low, high) \in low..high
      BY <1>10, WithinLimits
    <2> QED
      BY <1>10, <2>1
  <1>13. centre - half \in 0..(NlsfRange - 1) /\ centre - half + e \in 0..(NlsfRange - 1)
    <2>1. NlsfRange \in Nat /\ d[L + 1] \in Nat
      BY <1>1, <1>9
    <2>2. /\ 2 * half <= e /\ e <= 2 * half + 1 /\ above = below + e /\ above <= upto
          /\ all = upto + d[L + 1] /\ d[L + 1] >= 2
      BY <1>7, <1>9
    <2>3. below + half <= centre /\ centre <= NlsfRange - (all - above) - half
      <3>1. low = below + half /\ high = NlsfRange - (all - above) - half
        OBVIOUS
      <3> HIDE DEF low, high
      <3> QED
        BY <1>12, <3>1
    <2> QED
      BY <2>1, <2>2, <2>3, PairArithmetic
  <1> QED
    BY <1>1, <1>3, <1>4, <1>5, <1>6, <1>8, <1>11, <1>12, <1>13, Zenon DEF D

\* A turn of the loop keeps the frequencies in range.
LEMMA MoveKeeps ==
    ASSUME NEW P, NEW d, NEW L, Room(P, d, L), NEW f \in Freqs(L)
    PROVE  MoveApart(f, d) \in Freqs(L)
  <1>1. L \in Nat /\ L >= 1 /\ NlsfRange \in Nat
    BY RoomFacts
  <1>2. f \in [1..L -> Int] /\ Len(f) = L
    <2>1. f \in [1..L -> Int]
      BY <1>1 DEF Freqs
    <2> QED
      BY <1>1, <2>1, OrderOf
  <1>3. PICK i \in 0..L : i = Closest(f, d)
    BY ClosestIn
  <1>4. CASE i = 0
    <2>1. MoveApart(f, d) = [f EXCEPT ![1] = d[1]]
      <3>1. 0 + 1 = 1
        OBVIOUS
      <3> QED
        BY <1>3, <1>4, <3>1, Zenon DEF MoveApart, D
    <2>2. d[1] \in 0..(NlsfRange - 1)
      BY <1>1, RoomFacts
    <2> QED
      BY <2>1, <2>2 DEF Freqs
  <1>5. CASE i = L
    <2>1. MoveApart(f, d) = [f EXCEPT ![L] = NlsfRange - d[L + 1]]
      <3>1. L # 0
        BY <1>1
      <3>2. i = Closest(f, d) /\ Len(f) = L
        BY <1>2, <1>3
      <3> QED
        BY <1>5, <3>1, <3>2, Zenon DEF MoveApart, D
    <2>2. d[L + 1] \in Nat /\ d[L + 1] < NlsfRange /\ d[L + 1] >= 2
      BY <1>1, RoomFacts
    <2>3. NlsfRange - d[L + 1] \in 0..(NlsfRange - 1)
      BY <1>1, <2>2
    <2> QED
      BY <2>1, <2>3 DEF Freqs
  <1>6. CASE i \in 1..(L - 1)
    <2>1. PICK x, y : /\ x \in 0..(NlsfRange - 1) /\ y \in 0..(NlsfRange - 1)
                      /\ MoveApart(f, d) = [f EXCEPT ![i] = x, ![i + 1] = y]
      <3> DEFINE half == D(d, i) \div 2
                 centre == LimitTo((f[i] + f[i + 1] + 1) \div 2,
                                   Total(d, 0, i - 1) + half,
                                   NlsfRange - Total(d, i + 1, L) - half)
      <3>1. /\ centre - half \in 0..(NlsfRange - 1)
            /\ centre - half + D(d, i) \in 0..(NlsfRange - 1)
        BY <1>2, <1>6, PairFits, Zenon
      <3>2. i # 0 /\ i # L
        BY <1>1, <1>6
      <3>3. MoveApart(f, d) = [f EXCEPT ![i] = centre - half, ![i + 1] = centre - half + D(d, i)]
        BY <1>2, <1>3, <3>2, Zenon DEF MoveApart
      <3> HIDE DEF centre, half
      <3> QED
        BY <3>1, <3>3, Zenon
    <2> QED
      BY <2>1 DEF Freqs
  <1> QED
    BY <1>1, <1>4, <1>5, <1>6

\* Sorting neither loses nor makes up a frequency.
LEMMA SortedKeeps ==
    ASSUME NEW L \in Nat, NEW f \in [1..L -> Int], \A i \in 1..L : f[i] >= 0 /\ f[i] < NlsfRange,
           NlsfRange \in Nat
    PROVE  Sorted(f) \in Freqs(L)
  <1> DEFINE Upto(x) == {i \in 1..L : f[i] <= x}
             From(k) == {x \in {f[i] : i \in 1..L} : Cardinality(Upto(x)) >= k}
  <1>1. DOMAIN f = 1..L /\ Range(f) = {f[i] : i \in 1..L}
    BY DEF Range
  <1>2. ASSUME NEW k \in 1..L PROVE Min(From(k)) \in 0..(NlsfRange - 1)
    <2> DEFINE N == {-f[i] : i \in 1..L}
    <2>1. N \in SUBSET Int /\ N # {} /\ \A x \in N : x >= -NlsfRange
      OBVIOUS
    <2>2. Min(N) \in N /\ \A y \in N : Min(N) <= y
      <3>1. -NlsfRange \in Int
        OBVIOUS
      <3> HIDE DEF N
      <3> QED
        BY <2>1, <3>1, LeastIn
    <2>3. PICK m \in 1..L : Min(N) = -f[m]
      BY <2>2
    <2>4. Upto(f[m]) = 1..L
      <3> SUFFICES ASSUME NEW i \in 1..L PROVE f[i] <= f[m]
        OBVIOUS
      <3>1. -f[i] \in N
        OBVIOUS
      <3>2. -f[m] <= -f[i]
        BY <2>2, <2>3, <3>1
      <3>3. f[i] \in Int /\ f[m] \in Int
        OBVIOUS
      <3> HIDE DEF N
      <3> QED
        BY <3>2, <3>3
    <2>5. Cardinality(Upto(f[m])) = L
      <3>1. Cardinality(1..L) = L
        BY FS_Interval
      <3> QED
        BY <2>4, <3>1, Zenon
    <2>6. f[m] \in From(k)
      <3>1. L >= k
        OBVIOUS
      <3>2. Cardinality(Upto(f[m])) >= k
        <4> HIDE DEF Upto
        <4> QED
          BY <2>5, <3>1
      <3>3. f[m] \in {f[i] : i \in 1..L}
        OBVIOUS
      <3> HIDE DEF Upto
      <3> QED
        BY <3>2, <3>3, Zenon
    <2>7. From(k) \in SUBSET Int /\ \A x \in From(k) : x >= 0 /\ x \in 0..(NlsfRange - 1)
      <3> SUFFICES ASSUME NEW x \in From(k) PROVE x \in Int /\ x >= 0 /\ x \in 0..(NlsfRange - 1)
        OBVIOUS
      <3>1. PICK i \in 1..L : x = f[i]
        BY Zenon
      <3> HIDE DEF From
      <3> QED
        BY <3>1
    <2> HIDE DEF From
    <2>a. PICK S : S = From(k)
      OBVIOUS
    <2>8. Min(From(k)) \in From(k)
      <3>1. S \in SUBSET Int /\ S # {} /\ \A x \in S : x >= 0
        BY <2>6, <2>7, <2>a
      <3>b. PICK b \in Int : b = 0
        OBVIOUS
      <3>2. Min(S) \in S
        <4>1. \A x \in S : x >= b
          BY <3>1, <3>b
        <4> QED
          BY <3>1, <4>1, LeastIn, Zenon
      <3> QED
        BY <2>a, <3>2, Zenon
    <2> QED
      BY <2>7, <2>8
  <1>3. Sorted(f) = [k \in 1..L |-> Min(From(k))]
    BY <1>1, Zenon DEF Sorted
  <1> HIDE DEF From
  <1> QED
    BY <1>2, <1>3 DEF Freqs

\* What a step of either pass makes of g.
Raised(u, g, d, i) ==
    \E x \in Int : u = [g EXCEPT ![i] = x] /\ (x >= g[i - 1] + d[i] \/ x >= NlsfRange - 1)
Pulled(u, g, d, i) ==
    \E x \in Int : /\ u = [g EXCEPT ![i] = x] /\ x <= g[i + 1] - d[i + 1]
                   /\ x = g[i] \/ x = g[i + 1] - d[i + 1]

\* A frequency pushed upwards is above the one below by its distance, or at the top.
LEMMA UpwardIs ==
    ASSUME NEW P, NEW d, NEW L, Room(P, d, L), NEW g \in [1..L -> Int], NEW i \in 2..L
    PROVE  Raised(Upward(g, d, i), g, d, i)
  <1>1. /\ L \in Nat /\ NlsfRange \in Nat /\ i - 1 \in 1..L /\ i \in 1..L /\ i \in 1..(L + 1)
        /\ (i - 1) + 1 = i
    BY RoomFacts
  <1>2. d[i] \in Int /\ g[i] \in Int /\ g[i - 1] \in Int
    BY <1>1, RoomFacts
  <1>3. PICK a \in Int : a = AddSat(g[i - 1], d[i]) /\ (a = g[i - 1] + d[i] \/ a = NlsfRange - 1)
    <2>1. PICK b \in Int, c \in Int : b = g[i - 1] + d[i] /\ c = NlsfRange - 1
      BY <1>1, <1>2
    <2>2. Min({b, c}) = b \/ Min({b, c}) = c
      BY OfTwo, Zenon
    <2> QED
      BY <2>1, <2>2, Zenon DEF AddSat
  <1>4. PICK h \in Int : h = g[i]
    BY <1>2
  <1>5. Max({h, a}) \in Int /\ Max({h, a}) >= a
    <2>1. Max({h, a}) = IF h >= a THEN h ELSE a
      BY OfTwo
    <2> DEFINE most == IF h >= a THEN h ELSE a
    <2>2. most \in Int /\ most >= a
      OBVIOUS
    <2> QED
      BY <2>1, <2>2, Zenon
  <1>6. Upward(g, d, i) = [g EXCEPT ![i] = Max({h, a})]
    BY <1>1, <1>3, <1>4, Zenon DEF Upward, D
  <1>7. Max({h, a}) >= g[i - 1] + d[i] \/ Max({h, a}) >= NlsfRange - 1
    BY <1>3, <1>5
  <1> QED
    BY <1>5, <1>6, <1>7, Zenon DEF Raised

\* One pulled downwards is below the one above by its distance.
LEMMA DownwardIs ==
    ASSUME NEW P, NEW d, NEW L, Room(P, d, L), NEW g \in [1..L -> Int], NEW i \in 1..(L - 1)
    PROVE  Pulled(Downward(g, d, i), g, d, i)
  <1>1. L \in Nat /\ i + 1 \in 1..L /\ i \in 1..L /\ i + 1 \in 1..(L + 1)
    BY RoomFacts
  <1>2. d[i + 1] \in Int /\ g[i] \in Int /\ g[i + 1] \in Int
    BY <1>1, RoomFacts
  <1>3. PICK a \in Int, h \in Int : a = g[i + 1] - d[i + 1] /\ h = g[i]
    BY <1>2
  <1>4. Min({h, a}) \in Int /\ Min({h, a}) <= a /\ (Min({h, a}) = h \/ Min({h, a}) = a)
    <2>1. Min({h, a}) = IF h <= a THEN h ELSE a
      BY OfTwo
    <2> DEFINE least == IF h <= a THEN h ELSE a
    <2>2. least \in Int /\ least <= a /\ (least = h \/ least = a)
      OBVIOUS
    <2> QED
      BY <2>1, <2>2, Zenon
  <1>5. Downward(g, d, i) = [g EXCEPT ![i] = Min({h, a})]
    BY <1>3, Zenon DEF Downward, D
  <1> QED
    BY <1>3, <1>4, <1>5, Zenon DEF Pulled

\* The pass upwards leaves room below every frequency.
LEMMA PushedUpIs ==
    ASSUME NEW P, NEW d, NEW L, Room(P, d, L), NEW f \in Freqs(L)
    PROVE  /\ PushedUp(f, d) \in [1..L -> Int]
           /\ \A i \in 1..L : PushedUp(f, d)[i] >= P[i]
           /\ PushedUp(f, d)[L] <= NlsfRange - d[L + 1]
  <1>1. /\ L \in Nat /\ L >= 1 /\ NlsfRange \in Nat /\ P[0] = 0
        /\ \A k \in 0..(L + 1) : P[k] \in Nat /\ P[k] < NlsfRange
        /\ \A k \in 1..(L + 1) : d[k] \in Nat /\ P[k] = P[k - 1] + d[k] /\ d[k] < NlsfRange
        /\ \A k \in 0..L : P[k] <= P[L]
        /\ P[L + 1] = P[L] + d[L + 1] /\ d[L + 1] >= 2
    BY RoomFacts, Zenon
  <1>2. f \in [1..L -> Int] /\ Len(f) = L
    <2>1. f \in [1..L -> Int]
      BY <1>1 DEF Freqs
    <2> QED
      BY <1>1, <2>1, OrderOf
  <1>3. PICK s \in [1..L -> Int] : s = Sorted(f)
    <2>0. NlsfRange \in Nat /\ f \in [1..L -> 0..(NlsfRange - 1)]
      BY <1>1, Zenon DEF Freqs
    <2>1. \A i \in 1..L : f[i] >= 0 /\ f[i] < NlsfRange
      BY <2>0
    <2>2. Sorted(f) \in Freqs(L)
      BY <1>1, <1>2, <2>1, SortedKeeps
    <2> QED
      BY <1>1, <2>2 DEF Freqs
  <1>4. PICK first \in [1..L -> Int] : first = [Sorted(f) EXCEPT ![1] = Max({@, D(d, 0)})]
                                       /\ first[1] >= P[1]
    <2>1. s[1] \in Int /\ d[1] \in Int /\ P[1] = d[1]
      <3>1. 1 \in 1..L /\ 1 \in 1..(L + 1) /\ 1 - 1 = 0
        BY <1>1
      <3>2. P[1] = P[1 - 1] + d[1] /\ d[1] \in Nat
        BY <1>1, <3>1, Zenon
      <3> QED
        BY <1>1, <3>1, <3>2
    <2>2. PICK h \in Int, e \in Int : h = s[1] /\ e = d[1]
      BY <2>1
    <2>3. PICK m \in Int : m = Max({h, e}) /\ m >= e
      <3>1. Max({h, e}) = IF h >= e THEN h ELSE e
        BY OfTwo
      <3> DEFINE most == IF h >= e THEN h ELSE e
      <3>2. most \in Int /\ most >= e
        OBVIOUS
      <3> QED
        BY <3>1, <3>2, Zenon
    <2>4. [Sorted(f) EXCEPT ![1] = Max({@, D(d, 0)})] = [s EXCEPT ![1] = m]
      <3>1. 0 + 1 = 1
        OBVIOUS
      <3> QED
        BY <1>3, <2>2, <2>3, <3>1, Zenon DEF D
    <2>5. 1 \in 1..L
      BY <1>1
    <2>6. PICK o \in [1..L -> Int] : o = [s EXCEPT ![1] = m] /\ o[1] = m
      <3> DEFINE o == [s EXCEPT ![1] = m]
      <3>1. o \in [1..L -> Int]
        OBVIOUS
      <3>2. o[1] = m
        BY <2>5
      <3> QED
        BY <3>1, <3>2, Zenon
    <2>7. m >= P[1]
      BY <2>1, <2>2, <2>3
    <2> QED
      BY <2>4, <2>6, <2>7, Zenon
  <1>q. PICK q : q = [n \in 1..(L - 1) |-> n + 1]
    OBVIOUS
  <1>5. PICK m \in Nat : m = L - 1
    BY <1>1
  <1>6. DOMAIN q = 1..m /\ \A k \in 1..m : q[k] = k + 1 /\ k + 1 \in 2..L
    BY <1>1, <1>5, <1>q
  <1>7. PICK V : V = [1..L -> Int]
    OBVIOUS
  <1>8. \A v \in V, k \in 1..m : Upward(v, d, q[k]) \in V
    <2> SUFFICES ASSUME NEW v \in V, NEW k \in 1..m PROVE Upward(v, d, q[k]) \in V
      OBVIOUS
    <2>1. PICK i \in 2..L : i = q[k]
      BY <1>6
    <2>v. v \in [1..L -> Int]
      BY <1>7
    <2>r. Raised(Upward(v, d, i), v, d, i)
      BY <2>v, UpwardIs, Zenon
    <2>2. PICK x \in Int : Upward(v, d, i) = [v EXCEPT ![i] = x]
      BY <2>r, Zenon DEF Raised
    <2>3. [v EXCEPT ![i] = x] \in [1..L -> Int]
      BY <2>v
    <2> QED
      BY <1>7, <2>1, <2>2, <2>3, Zenon
  <1>9. PICK w : PushedBy(w, V, first, d, q, m) /\ UpFold(first, d, q) = w[m]
    <2>1. first \in V
      BY <1>7
    <2>2. DOMAIN q = 1..m
      BY <1>6, Zenon
    <2> QED
      BY <1>8, <2>1, <2>2, Upwards
  <1>b. /\ w \in [0..m -> V] /\ w[0] = first
        /\ \A k \in 1..m : w[k] = Upward(w[k - 1], d, q[k])
    BY <1>9, Zenon DEF PushedBy
  <1>10. \A k \in 0..m : w[k] \in [1..L -> Int]
    BY <1>7, <1>b
  <1>11. \A k \in 0..m : \A i \in 1..(k + 1) : w[k][i] >= P[i]
    <2> DEFINE T == {k \in 0..m : \A i \in 1..(k + 1) : w[k][i] >= P[i]}
    <2>1. 0 \in T
      <3>1. w[0] = first /\ 0 \in 0..m
        BY <1>b
      <3>2. \A i \in 1..(0 + 1) : i = 1
        OBVIOUS
      <3> QED
        BY <1>4, <3>1, <3>2
    <2>2. ASSUME NEW k \in 1..m, k - 1 \in T PROVE k \in T
      <3>1. w[k] = Upward(w[k - 1], d, k + 1) /\ k + 1 \in 2..L /\ k - 1 \in 0..m /\ k \in 0..m
        <4>1. q[k] = k + 1 /\ k + 1 \in 2..L
          BY <1>6, Zenon
        <4>2. w[k] = Upward(w[k - 1], d, q[k])
          BY <1>b, Zenon
        <4>3. k - 1 \in 0..m /\ k \in 0..m
          OBVIOUS
        <4> QED
          BY <4>1, <4>2, <4>3, Zenon
      <3>2. PICK g \in [1..L -> Int], i \in 2..L : g = w[k - 1] /\ i = k + 1
        BY <1>10, <3>1
      <3>3. PICK x \in Int : /\ w[k] = [g EXCEPT ![i] = x]
                             /\ x >= g[i - 1] + d[i] \/ x >= NlsfRange - 1
        <4>1. w[k] = Upward(g, d, i)
          BY <3>1, <3>2, Zenon
        <4>2. Raised(Upward(g, d, i), g, d, i)
          BY UpwardIs, Zenon
        <4> QED
          BY <4>1, <4>2, Zenon DEF Raised
      <3>4. \A j \in 1..k : g[j] >= P[j]
        <4>1. (k - 1) + 1 = k
          OBVIOUS
        <4> QED
          BY <2>2, <3>2, <4>1
      <3>5. x >= P[i]
        <4>1. i - 1 = k /\ k \in 1..k /\ i \in 1..(L + 1) /\ k \in 0..(L + 1) /\ i \in 0..(L + 1) /\ k \in 1..L
          <5>1. L \in Nat
            BY <1>1
          <5> QED
            BY <3>2, <5>1
        <4>2. P[i] = P[i - 1] + d[i] /\ d[i] \in Nat /\ P[i] \in Nat /\ P[i] < NlsfRange /\ P[k] \in Nat
          BY <1>1, <4>1, Zenon
        <4>3. g[k] >= P[k] /\ g[k] \in Int
          BY <3>4, <4>1
        <4> QED
          <5>1. NlsfRange \in Nat
            BY <1>1
          <5>2. x >= g[k] + d[i] \/ x >= NlsfRange - 1
            BY <3>3, <4>1
          <5>3. P[i] = P[k] + d[i]
            BY <4>1, <4>2
          <5> QED
            BY <4>2, <4>3, <5>1, <5>2, <5>3
      <3>6. ASSUME NEW j \in 1..(k + 1) PROVE w[k][j] >= P[j]
        <4>1. j \in 1..L /\ (j \in 1..k \/ j = i)
          <5>1. L \in Nat /\ k + 1 \in 2..L /\ i = k + 1
            BY <1>1, <3>1, <3>2, Zenon
          <5> QED
            BY <5>1
        <4>2. CASE j = i
          BY <3>2, <3>3, <3>5, <4>1, <4>2
        <4>3. CASE j # i
          <5>1. w[k][j] = g[j] /\ j \in 1..k
            BY <3>2, <3>3, <4>1, <4>3
          <5> QED
            BY <3>4, <5>1, Zenon
        <4> QED
          BY <4>2, <4>3
      <3> QED
        BY <3>1, <3>6
    <2> HIDE DEF T
    <2>3. \A k \in 0..m : k \in T
      BY <2>1, <2>2, Climb, Zenon
    <2> QED
      BY <2>3 DEF T
  <1>12. PICK up \in [1..L -> Int] : up = w[m] /\ \A i \in 1..L : up[i] >= P[i]
    <2>1. m \in 0..m /\ m + 1 = L
      BY <1>1, <1>5
    <2> QED
      BY <1>10, <1>11, <2>1
  <1>13. PushedUp(f, d) = [up EXCEPT ![L] = Min({@, NlsfRange - D(d, L)})]
    BY <1>2, <1>4, <1>9, <1>12, <1>q, Zenon DEF PushedUp, UpFold
  <1>14. PICK h \in Int, e \in Int : h = up[L] /\ e = NlsfRange - d[L + 1]
    <2>1. L \in 1..L /\ L + 1 \in 1..(L + 1)
      BY <1>1
    <2>2. d[L + 1] \in Nat
      BY <1>1, <2>1
    <2> QED
      BY <1>1, <2>1, <2>2
  <1>15. PICK x \in Int : x = Min({h, e}) /\ x <= e /\ (x = h \/ x = e)
    <2>1. Min({h, e}) = IF h <= e THEN h ELSE e
      BY OfTwo
    <2> DEFINE least == IF h <= e THEN h ELSE e
    <2>2. least \in Int /\ least <= e /\ (least = h \/ least = e)
      OBVIOUS
    <2> QED
      BY <2>1, <2>2, Zenon
  <1>16. PushedUp(f, d) = [up EXCEPT ![L] = x]
    BY <1>13, <1>14, <1>15, Zenon DEF D
  <1>17. x >= P[L]
    <2>1. L \in 1..L /\ L + 1 \in 1..(L + 1) /\ L \in 0..(L + 1) /\ L + 1 \in 0..(L + 1)
      BY <1>1
    <2>2. P[L + 1] = P[L] + d[L + 1] /\ P[L] \in Nat /\ d[L + 1] \in Nat /\ P[L + 1] < NlsfRange
      BY <1>1, <2>1, Zenon
    <2>3. h >= P[L]
      BY <1>12, <1>14, <2>1
    <2> QED
      <3>1. NlsfRange \in Nat
        BY <1>1
      <3>2. e = NlsfRange - d[L + 1] /\ (x = h \/ x = e)
        BY <1>14, <1>15
      <3> QED
        BY <2>2, <2>3, <3>1, <3>2
  <1>18. PICK v \in [1..L -> Int] : v = [up EXCEPT ![L] = x]
    OBVIOUS
  <1>19. \A i \in 1..L : v[i] = IF i = L THEN x ELSE up[i]
    BY <1>18
  <1>20. \A i \in 1..L : v[i] >= P[i]
    BY <1>12, <1>17, <1>19, Zenon
  <1>21. v[L] <= NlsfRange - d[L + 1]
    <2>1. L \in 1..L
      BY <1>1
    <2> QED
      BY <1>14, <1>15, <1>19, <2>1, Zenon
  <1> QED
    BY <1>16, <1>18, <1>20, <1>21, Zenon

\* The pass downwards puts every frequency at its distance from the one above, and the
\* room below is enough for it.
Placed(g, P, d, L, from) ==
    /\ \A i \in 1..L : g[i] >= P[i]
    /\ \A i \in from..(L - 1) : g[i] <= g[i + 1] - d[i + 1]
    /\ g[L] <= NlsfRange - d[L + 1]

\* One step downwards places one frequency more.
LEMMA StepPlaces ==
    ASSUME NEW P, NEW d, NEW L, Room(P, d, L), NEW g \in [1..L -> Int], NEW j \in 1..(L - 1),
           Placed(g, P, d, L, j + 1)
    PROVE  Placed(Downward(g, d, j), P, d, L, j)
  <1>1. /\ L \in Nat /\ j \in 1..L /\ j + 1 \in 1..L /\ j + 1 \in 1..(L + 1)
        /\ j \in 0..(L + 1) /\ j + 1 \in 0..(L + 1) /\ (j + 1) - 1 = j /\ j # L
    BY RoomFacts
  <1>a. /\ L \in Nat /\ L >= 1 /\ NlsfRange \in Nat /\ P[0] = 0
        /\ \A k \in 0..(L + 1) : P[k] \in Nat /\ P[k] < NlsfRange
        /\ \A k \in 1..(L + 1) : d[k] \in Nat /\ P[k] = P[k - 1] + d[k] /\ d[k] < NlsfRange
        /\ \A k \in 0..L : P[k] <= P[L]
        /\ P[L + 1] = P[L] + d[L + 1] /\ d[L + 1] >= 2
    BY RoomFacts, Zenon
  <1>2. P[j + 1] = P[j] + d[j + 1] /\ d[j + 1] \in Nat /\ P[j] \in Nat /\ P[j + 1] \in Nat
    BY <1>1, <1>a
  <1>3. Pulled(Downward(g, d, j), g, d, j)
    BY DownwardIs, Zenon
  <1>4. PICK x \in Int : /\ Downward(g, d, j) = [g EXCEPT ![j] = x]
                         /\ x <= g[j + 1] - d[j + 1]
                         /\ x = g[j] \/ x = g[j + 1] - d[j + 1]
    BY <1>3, Zenon DEF Pulled
  <1>5. PICK u \in [1..L -> Int] : u = [g EXCEPT ![j] = x]
    OBVIOUS
  <1>6. u[j] = x /\ \A i \in 1..L : i # j => u[i] = g[i]
    BY <1>1, <1>5
  <1>7. /\ \A i \in 1..L : g[i] >= P[i]
        /\ \A i \in (j + 1)..(L - 1) : g[i] <= g[i + 1] - d[i + 1]
        /\ g[L] <= NlsfRange - d[L + 1]
    BY Zenon DEF Placed
  <1>8. x >= P[j]
    <2>1. g[j] >= P[j] /\ g[j + 1] >= P[j + 1] /\ g[j + 1] \in Int
      BY <1>1, <1>7
    <2>2. x = g[j] \/ x = g[j + 1] - d[j + 1]
      BY <1>4, Zenon
    <2>3. g[j + 1] - d[j + 1] >= P[j]
      BY <1>2, <2>1
    <2> QED
      BY <2>1, <2>2, <2>3
  <1>9. ASSUME NEW i \in 1..L PROVE u[i] >= P[i]
    BY <1>6, <1>7, <1>8
  <1>10. ASSUME NEW i \in j..(L - 1) PROVE u[i] <= u[i + 1] - d[i + 1]
    <2>1. i \in 1..L /\ i + 1 \in 1..L /\ i + 1 # j
      BY <1>1
    <2>2. u[i + 1] = g[i + 1]
      BY <1>6, <2>1
    <2>3. CASE i = j
      BY <1>4, <1>6, <2>2, <2>3
    <2>4. CASE i # j
      <3>1. i \in (j + 1)..(L - 1)
        BY <1>1, <2>4
      <3>2. u[i] = g[i]
        BY <1>6, <2>1, <2>4
      <3> QED
        BY <1>7, <2>2, <3>1, <3>2, Zenon
    <2> QED
      BY <2>3, <2>4
  <1>11. u[L] <= NlsfRange - d[L + 1]
    <2>1. L \in 1..L
      BY <1>1
    <2> QED
      BY <1>1, <1>6, <1>7, <2>1, Zenon
  <1>12. Placed(u, P, d, L, j)
    BY <1>9, <1>10, <1>11, Zenon DEF Placed
  <1> QED
    BY <1>4, <1>5, <1>12, Zenon

\* What is placed from the first on is apart.
LEMMA PlacedIsApart ==
    ASSUME NEW P, NEW d, NEW L, Room(P, d, L), NEW g \in [1..L -> Int],
           Placed(g, P, d, L, 1)
    PROVE  KeptApart(g, d)
  <1>1. L \in Nat /\ L >= 1 /\ Len(g) = L /\ NlsfRange \in Nat
    <2>1. L \in Nat /\ L >= 1 /\ NlsfRange \in Nat
      BY RoomFacts, Zenon
    <2> QED
      BY <2>1, OrderOf
  <1>2. /\ \A i \in 1..L : g[i] >= P[i]
        /\ \A i \in 1..(L - 1) : g[i] <= g[i + 1] - d[i + 1]
        /\ g[L] <= NlsfRange - d[L + 1]
    BY Zenon DEF Placed
  <1>3. /\ Gap(g, d, 0) = g[1] - d[1]
        /\ Gap(g, d, L) = NlsfRange - (g[L] + d[L + 1])
        /\ \A i \in 1..(L - 1) : Gap(g, d, i) = g[i + 1] - (g[i] + d[i + 1])
        /\ \A i \in 0..L : Gap(g, d, i) \in Int
    BY GapIs, Zenon
  <1>a. /\ L \in Nat /\ L >= 1 /\ NlsfRange \in Nat /\ P[0] = 0
        /\ \A k \in 0..(L + 1) : P[k] \in Nat /\ P[k] < NlsfRange
        /\ \A k \in 1..(L + 1) : d[k] \in Nat /\ P[k] = P[k - 1] + d[k] /\ d[k] < NlsfRange
        /\ \A k \in 0..L : P[k] <= P[L]
        /\ P[L + 1] = P[L] + d[L + 1] /\ d[L + 1] >= 2
    BY RoomFacts, Zenon
  <1>4. \A k \in 1..(L + 1) : d[k] \in Nat
    BY <1>a, Zenon
  <1>5. Gap(g, d, 0) >= 0
    <2>1. 1 \in 1..L /\ 1 \in 1..(L + 1) /\ 1 - 1 = 0 /\ g[1] \in Int
      BY <1>1
    <2>2. P[1] = P[1 - 1] + d[1] /\ d[1] \in Nat /\ P[0] = 0
      BY <1>a, <2>1
    <2>3. P[1] = d[1]
      BY <2>1, <2>2
    <2> QED
      BY <1>2, <1>3, <2>1, <2>2, <2>3
  <1>6. Gap(g, d, L) >= 0
    <2>1. L \in 1..L /\ L + 1 \in 1..(L + 1)
      BY <1>1
    <2>2. g[L] \in Int /\ d[L + 1] \in Nat
      BY <1>4, <2>1
    <2>3. g[L] <= NlsfRange - d[L + 1] /\ Gap(g, d, L) = NlsfRange - (g[L] + d[L + 1])
      BY <1>2, <1>3, Zenon
    <2> QED
      BY <1>1, <2>2, <2>3
  <1>7. ASSUME NEW i \in 1..(L - 1) PROVE Gap(g, d, i) >= 0
    <2>1. i \in 1..L /\ i + 1 \in 1..L /\ i + 1 \in 1..(L + 1)
      BY <1>1
    <2>2. g[i] \in Int /\ g[i + 1] \in Int /\ d[i + 1] \in Nat
      BY <1>4, <2>1
    <2>3. g[i] <= g[i + 1] - d[i + 1] /\ Gap(g, d, i) = g[i + 1] - (g[i] + d[i + 1])
      BY <1>2, <1>3, Zenon
    <2> QED
      BY <2>2, <2>3
  <1>8. \A i \in 0..L : i = 0 \/ i = L \/ i \in 1..(L - 1)
    BY <1>1
  <1> QED
    BY <1>1, <1>5, <1>6, <1>7, <1>8, Zenon DEF KeptApart

\* The fallback keeps every distance.
LEMMA FallbackIsApart ==
    ASSUME NEW P, NEW d, NEW L, Room(P, d, L), NEW f \in Freqs(L)
    PROVE  KeptApart(Fallback(f, d), d)
  <1>1. L \in Nat /\ L >= 1 /\ NlsfRange \in Nat
    BY RoomFacts, Zenon
  <1>2. Len(f) = L
    <2>1. f \in [1..L -> Int]
      BY <1>1 DEF Freqs
    <2> QED
      BY <1>1, <2>1, OrderOf
  <1>3. PICK u \in [1..L -> Int] : /\ u = PushedUp(f, d) /\ \A i \in 1..L : u[i] >= P[i]
                                   /\ u[L] <= NlsfRange - d[L + 1]
    BY PushedUpIs, Zenon
  <1>4. PICK m \in Nat : m = L - 1
    BY <1>1
  <1>5. PICK q : q = [n \in 1..(L - 1) |-> L - n]
    OBVIOUS
  <1>6. DOMAIN q = 1..m /\ \A k \in 1..m : q[k] = L - k /\ L - k \in 1..(L - 1)
    BY <1>1, <1>4, <1>5
  <1>7. PICK V : V = [1..L -> Int]
    OBVIOUS
  <1>8. \A v \in V, k \in 1..m : Downward(v, d, q[k]) \in V
    <2> SUFFICES ASSUME NEW v \in V, NEW k \in 1..m PROVE Downward(v, d, q[k]) \in V
      OBVIOUS
    <2>1. PICK i \in 1..(L - 1) : i = q[k]
      BY <1>6
    <2>2. v \in [1..L -> Int]
      BY <1>7
    <2>3. Pulled(Downward(v, d, i), v, d, i)
      BY <2>2, DownwardIs, Zenon
    <2>4. PICK x \in Int : Downward(v, d, i) = [v EXCEPT ![i] = x]
      BY <2>3, Zenon DEF Pulled
    <2>5. [v EXCEPT ![i] = x] \in [1..L -> Int]
      BY <2>2
    <2> QED
      BY <1>7, <2>1, <2>4, <2>5, Zenon
  <1>9. PICK w : PulledBy(w, V, u, d, q, m) /\ DownFold(u, d, q) = w[m]
    <2>1. u \in V
      BY <1>7
    <2>2. DOMAIN q = 1..m
      BY <1>6, Zenon
    <2> QED
      BY <1>8, <2>1, <2>2, Downwards
  <1>10. /\ w \in [0..m -> V] /\ w[0] = u
         /\ \A k \in 1..m : w[k] = Downward(w[k - 1], d, q[k])
    BY <1>9, Zenon DEF PulledBy
  <1>11. \A k \in 0..m : w[k] \in [1..L -> Int]
    BY <1>7, <1>10
  <1> DEFINE T == {k \in 0..m : Placed(w[k], P, d, L, L - k)}
  <1>12. 0 \in T
    <2>1. 0 \in 0..m /\ L - 0 = L /\ L..(L - 1) = {}
      BY <1>1
    <2>2. Placed(u, P, d, L, L)
      BY <1>3, <2>1, Zenon DEF Placed
    <2> QED
      BY <1>10, <2>1, <2>2, Zenon
  <1>13. ASSUME NEW k \in 1..m, k - 1 \in T PROVE k \in T
    <2>1. k - 1 \in 0..m /\ k \in 0..m
      OBVIOUS
    <2>2. PICK g \in [1..L -> Int], j \in 1..(L - 1) : g = w[k - 1] /\ j = L - k
      BY <1>6, <1>11, <2>1
    <2>3. L - (k - 1) = j + 1
      BY <1>1, <2>2
    <2>4. Placed(g, P, d, L, j + 1)
      BY <1>13, <2>2, <2>3, Zenon
    <2>5. Placed(Downward(g, d, j), P, d, L, j)
      BY <2>4, StepPlaces, Zenon
    <2>6. w[k] = Downward(g, d, j)
      BY <1>6, <1>10, <2>2, Zenon
    <2> QED
      BY <2>1, <2>2, <2>5, <2>6, Zenon
  <1> HIDE DEF T
  <1>14. \A k \in 0..m : k \in T
    BY <1>12, <1>13, Climb, Zenon
  <1>15. Placed(w[m], P, d, L, 1)
    <2>1. m \in 0..m /\ L - m = 1
      BY <1>1, <1>4
    <2>2. Placed(w[m], P, d, L, L - m)
      BY <1>14, <2>1, Zenon DEF T
    <2> QED
      BY <2>1, <2>2, Zenon
  <1>16. Fallback(f, d) = w[m]
    BY <1>2, <1>3, <1>5, <1>9, Zenon DEF Fallback, DownFold
  <1> QED
    <2>1. w[m] \in [1..L -> Int]
      BY <1>11
    <2> QED
      BY <1>15, <1>16, <2>1, PlacedIsApart, Zenon

\* A turn leaves the frequencies in range, and stops only when they are apart.
States(L, d) == {s \in [f : Freqs(L), done : BOOLEAN] : s.done => KeptApart(s.f, d)}

\* A turn that has not stopped moves a pair, and stays in range.
LEMMA TurnKeeps ==
    ASSUME NEW P, NEW d, NEW L, Room(P, d, L), NEW s \in States(L, d)
    PROVE  Turn(s, d) \in States(L, d)
  <1>1. s \in [f : Freqs(L), done : BOOLEAN] /\ (s.done => KeptApart(s.f, d))
    BY Zenon DEF States
  <1>2. PICK f \in Freqs(L) : f = s.f
    BY <1>1
  <1>3. CASE s.done \/ KeptApart(s.f, d)
    <2>1. Turn(s, d) = [s EXCEPT !.done = TRUE] /\ KeptApart(f, d)
      BY <1>1, <1>2, <1>3, Zenon DEF Turn
    <2>2. PICK t : t = [s EXCEPT !.done = TRUE]
      OBVIOUS
    <2>3. t \in [f : Freqs(L), done : BOOLEAN] /\ t.f = f
      BY <1>1, <1>2, <2>2
    <2> QED
      BY <2>1, <2>2, <2>3, Zenon DEF States
  <1>4. CASE ~(s.done \/ KeptApart(s.f, d))
    <2>1. Turn(s, d) = [s EXCEPT !.f = MoveApart(f, d)] /\ s.done = FALSE
      BY <1>1, <1>2, <1>4, Zenon DEF Turn
    <2>2. PICK g \in Freqs(L) : g = MoveApart(f, d)
      BY MoveKeeps, Zenon
    <2>3. PICK t : t = [s EXCEPT !.f = g]
      OBVIOUS
    <2>4. t \in [f : Freqs(L), done : BOOLEAN] /\ t.done = FALSE
      BY <1>1, <2>1, <2>3
    <2> QED
      BY <2>1, <2>2, <2>3, <2>4, Zenon DEF States
  <1> QED
    BY <1>3, <1>4

\* However far apart they came, the frequencies end apart.
LEMMA StabilizedIsApart ==
    ASSUME NEW P, NEW d, NEW L, Room(P, d, L), NEW f \in Freqs(L), StabilizeLoops \in Nat
    PROVE  KeptApart(Stabilized(f, d), d)
  <1>1. PICK V : V = States(L, d)
    OBVIOUS
  <1>2. PICK s : s = [f |-> f, done |-> FALSE]
    OBVIOUS
  <1>3. s \in V
    <2>1. s \in [f : Freqs(L), done : BOOLEAN] /\ s.done = FALSE
      BY <1>2
    <2> QED
      BY <1>1, <2>1, Zenon DEF States
  <1>4. PICK q : q = [loop \in 1..StabilizeLoops |-> loop]
    OBVIOUS
  <1>5. DOMAIN q = 1..StabilizeLoops
    BY <1>4
  <1>6. \A v \in V : Turn(v, d) \in V
    BY <1>1, TurnKeeps, Zenon
  <1>7. PICK w : Turned(w, V, s, d, q, StabilizeLoops) /\ TurnFold(s, d, q) = w[StabilizeLoops]
    BY <1>3, <1>5, <1>6, Turns
  <1>8. PICK moved \in V : moved = TurnFold(s, d, q)
    <2>1. w \in [0..StabilizeLoops -> V]
      BY <1>7, Zenon DEF Turned
    <2>2. StabilizeLoops \in 0..StabilizeLoops
      OBVIOUS
    <2> QED
      BY <1>7, <2>1, <2>2
  <1>9. Stabilized(f, d) = IF moved.done THEN moved.f ELSE Fallback(moved.f, d)
    BY <1>2, <1>4, <1>8, Zenon DEF Stabilized, TurnFold
  <1>10. moved \in [f : Freqs(L), done : BOOLEAN] /\ (moved.done => KeptApart(moved.f, d))
    BY <1>1, Zenon DEF States
  <1>11. PICK g \in Freqs(L) : g = moved.f
    BY <1>10
  <1>12. KeptApart(Fallback(g, d), d)
    BY FallbackIsApart, Zenon
  <1> QED
    BY <1>9, <1>10, <1>11, <1>12, Zenon

\* The inductive invariant: where the frequencies come from.
LEMMA NlsfInvHolds == NlsfSpec => []NlsfInv
  <1>1. NlsfInit => NlsfInv
    BY Zenon DEF NlsfInit, NlsfInv
  <1>2. NlsfInv /\ [NlsfNext]_nlsf => NlsfInv'
    <2> SUFFICES ASSUME NlsfInv, [NlsfNext]_nlsf PROVE NlsfInv'
      OBVIOUS
    <2>1. ASSUME NEW d \in Distances, Choose(d) PROVE NlsfInv'
      <3>1. nlsf' = [d |-> d, in |-> <<>>]
        BY <2>1, Zenon DEF Choose
      <3>2. nlsf'.d = d /\ nlsf'.in = <<>>
        BY <3>1
      <3>3. <<>> \in Seq(0..(NlsfRange - 1)) /\ 0 <= Len(d) - 1 /\ Len(<<>>) = 0
        <4>1. d \in Seq(Nat) /\ Len(d) > 1
          BY DistancesFit, Zenon
        <4> QED
          BY <4>1
      <3> QED
        BY <3>1, <3>2, <3>3, Zenon DEF NlsfInv
    <2>2. ASSUME NEW x \in 0..(NlsfRange - 1), AddNlsf(x) PROVE NlsfInv'
      <3>1. /\ nlsf.d # <<>> /\ Len(nlsf.in) < Len(nlsf.d) - 1
            /\ nlsf' = [nlsf EXCEPT !.in = Append(@, x)]
        BY <2>2, Zenon DEF AddNlsf
      <3>2. /\ nlsf = [d |-> nlsf.d, in |-> nlsf.in] /\ nlsf.d \in Distances
            /\ nlsf.in \in Seq(0..(NlsfRange - 1)) /\ Len(nlsf.in) <= Len(nlsf.d) - 1
        <4>1. nlsf # NoNlsf
          <5>1. NoNlsf.d = <<>>
            BY DEF NoNlsf
          <5> QED
            BY <3>1, <5>1, Zenon
        <4> QED
          BY <4>1, Zenon DEF NlsfInv
      <3>3. PICK e \in Distances, s \in Seq(0..(NlsfRange - 1)) : e = nlsf.d /\ s = nlsf.in
        BY <3>2, Zenon
      <3>4. nlsf' = [d |-> e, in |-> Append(s, x)]
        BY <3>1, <3>2, <3>3
      <3>5. nlsf'.d = e /\ nlsf'.in = Append(s, x)
        BY <3>4
      <3>6. Append(s, x) \in Seq(0..(NlsfRange - 1)) /\ Len(Append(s, x)) = Len(s) + 1
        OBVIOUS
      <3>7. Len(e) \in Nat
        <4>1. e \in Seq(Nat)
          BY DistancesFit, Zenon
        <4> QED
          BY <4>1
      <3>8. Len(Append(s, x)) <= Len(e) - 1
        <4>1. Len(s) < Len(e) - 1 /\ Len(s) \in Nat
          BY <3>1, <3>3
        <4> QED
          BY <3>6, <3>7, <4>1
      <3> QED
        BY <3>4, <3>5, <3>6, <3>8, Zenon DEF NlsfInv
    <2>3. ASSUME UNCHANGED nlsf PROVE NlsfInv'
      BY <2>3, Zenon DEF NlsfInv
    <2> QED
      BY <2>1, <2>2, <2>3, Zenon DEF NlsfNext
  <1> QED
    BY <1>1, <1>2, PTL DEF NlsfSpec

\* Whatever a packet says, the filter gets frequencies in order, each at its distance
\* from the next and from both ends (NLSFStabilize of nlsf_decode.go): for every order,
\* distances that leave room and number of moves.
THEOREM NlsfAlwaysApart == NlsfSpec => []NlsfApart
  <1>1. NlsfInv => NlsfApart
    <2> SUFFICES ASSUME NlsfInv, nlsf.d # <<>>, Len(nlsf.in) = Len(nlsf.d) - 1
                 PROVE  KeptApart(Stabilized(nlsf.in, nlsf.d), nlsf.d)
      BY Zenon DEF NlsfApart
    <2>1. nlsf.d \in Distances /\ nlsf.in \in Seq(0..(NlsfRange - 1))
      <3>1. NoNlsf.d = <<>>
        BY DEF NoNlsf
      <3> QED
        BY <3>1, Zenon DEF NlsfInv
    <2>2. PICK d \in Distances, f \in Seq(0..(NlsfRange - 1)) : d = nlsf.d /\ f = nlsf.in
      BY <2>1, Zenon
    <2>3. PICK L : L = Len(d) - 1
      OBVIOUS
    <2>4. PICK P : Room(P, d, L)
      BY <2>3, RoomFor, Zenon
    <2>5. f \in Freqs(L)
      <3>1. Len(f) = L
        BY <2>2, <2>3, Zenon
      <3>2. f \in [1..Len(f) -> 0..(NlsfRange - 1)]
        <4>1. \A S : \A s \in Seq(S) : s \in [1..Len(s) -> S]
          OBVIOUS
        <4>2. PICK S : S = 0..(NlsfRange - 1)
          OBVIOUS
        <4> QED
          BY <4>1, <4>2, Zenon
      <3> QED
        BY <3>1, <3>2, Zenon DEF Freqs
    <2>6. StabilizeLoops \in Nat
      BY DistancesFit, Zenon
    <2>7. KeptApart(Stabilized(f, d), d)
      BY <2>4, <2>5, <2>6, StabilizedIsApart, Zenon
    <2> QED
      BY <2>2, <2>7, Zenon
  <1> QED
    BY <1>1, NlsfInvHolds, PTL

=============================================================================
