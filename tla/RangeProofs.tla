------------------------------ MODULE RangeProofs ------------------------------
(***************************************************************************)
(* What holds of the range coder's registers for any widths and symbols.   *)
(***************************************************************************)
EXTENDS RangeEncoder, RangeDecoder, SequenceTheorems, TLAPS

\* Facts of division and of products of naturals the solvers need to be told.
LEMMA Divide ==
    ASSUME NEW a \in Nat, NEW b \in Nat \ {0}
    PROVE  /\ a \div b \in Nat /\ a % b \in 0..(b - 1)
           /\ a = b * (a \div b) + (a % b)
           /\ b * (a \div b) <= a /\ a < b * (a \div b) + b
  OBVIOUS

LEMMA Times ==
    ASSUME NEW a \in Nat, NEW b \in Nat, NEW c \in Nat, a <= b
    PROVE  a * c <= b * c /\ c * a <= c * b /\ a * c \in Nat /\ c * a \in Nat
  OBVIOUS

LEMMA Differences ==
    ASSUME NEW rng \in Nat, NEW val \in Nat, NEW x \in Nat, NEW y \in Nat,
           y < x, x <= rng
    PROVE  /\ val + (rng - x) \in Nat /\ x - y \in Nat \ {0}
           /\ x - y <= rng /\ (val + (rng - x)) + (x - y) <= val + rng
           /\ rng - y \in Nat \ {0} /\ rng - y <= rng /\ val + (rng - y) <= val + rng
  OBVIOUS

LEMMA Constants ==
    /\ Sym \in Nat \ {0, 1} /\ Bot \in Nat \ {0, 1} /\ Top \in Nat \ {0, 1}
    /\ SymMax = Sym - 1 /\ Top = Sym * Bot /\ Bot < Top /\ Sym < Top
  <1>1. Sym \in Nat \ {0, 1} /\ Bot \in Nat \ {0, 1}
    BY RangeAssumption
  <1>2. 2 * Bot <= Sym * Bot /\ Sym * Bot \in Nat
    BY <1>1, Times
  <1>3. 2 * Sym <= Bot * Sym
    BY <1>1, Times
  <1>4. Bot * Sym = Sym * Bot
    BY <1>1
  <1> QED
    BY <1>1, <1>2, <1>3, <1>4 DEF Top, SymMax

\* What Symbols may hold, a fact to each of its kinds.
LEMMA SymbolKinds ==
    ASSUME NEW s \in Symbols
    PROVE  IsInterval(s) \/ IsBit(s) \/ IsIcdf(s) \/ IsUint(s) \/ IsRaw(s) \/ IsSilence(s)
  BY RangeAssumption

-----------------------------------------------------------------------------
(* The encoder's registers                                                  *)

\* The low end and the range leave room for one carry, and for none where no digit
\* held back could take it.
Sound(rng, val, rem) ==
    /\ rng \in 1..Top /\ val \in Nat /\ rem \in (-1)..SymMax
    /\ val + rng < 2 * Top
    /\ rem \in {-1, SymMax} => val + rng <= Top

\* A part of a sound interval is sound.
LEMMA NarrowSound ==
    ASSUME NEW rng, NEW val, NEW rem, Sound(rng, val, rem),
           NEW n \in Nat \ {0}, NEW v \in Nat, n <= rng, v + n <= val + rng
    PROVE  Sound(n, v, rem)
  BY Constants DEF Sound

\* The parts of a range that Encode, EncBitLogp and EncIcdf tell apart: lo steps of
\* r from its top down to hi steps, the rest of the division with the lowest.
Cuts(rng, total, lo, hi) ==
    \E r \in Nat \ {0}, x \in Nat, y \in Nat :
        /\ r = rng \div total /\ x = r * lo /\ y = r * hi
        /\ x - y = r * (lo - hi)
        /\ y < x /\ x <= rng

LEMMA Cut ==
    ASSUME NEW rng \in Nat, NEW total \in Nat \ {0}, total <= rng,
           NEW lo \in 0..total, NEW hi \in 0..total, hi < lo
    PROVE  Cuts(rng, total, lo, hi)
  <1> DEFINE r == rng \div total
  <1>1. r \in Nat /\ total * r <= rng /\ rng < total * r + total
    BY Divide
  <1> HIDE DEF r
  <1>2. r # 0
    BY <1>1
  <1>3. r * lo <= r * total /\ r * lo \in Nat /\ r * hi \in Nat
    BY <1>1, Times
  <1>4. r * (lo - hi) = r * lo - r * hi
    BY <1>1
  <1>5. r * 1 <= r * (lo - hi)
    <2>1. 1 \in Nat /\ lo - hi \in Nat /\ 1 <= lo - hi
      OBVIOUS
    <2> QED
      BY <2>1, <1>1, Times
  <1>6. r * total = total * r /\ r * 1 = r
    BY <1>1
  <1> QED
    BY <1>1, <1>2, <1>3, <1>4, <1>5, <1>6 DEF r, Cuts

\* A turn of enc_normalize keeps the registers sound: where the digit held back from
\* now on is SymMax, the carry has gone out with it.
LEMMA TurnSound ==
    ASSUME NEW rng, NEW val, NEW rem, Sound(rng, val, rem), rng <= Bot,
           NEW c, c = val \div Bot
    PROVE  /\ Sound(rng * Sym, NextVal(val), IF c = SymMax THEN rem ELSE c % Sym)
           /\ c \in 0..(2 * Sym - 1)
  <1> DEFINE m == val % Bot
  <1>1. val \in Nat /\ rng \in Nat \ {0} /\ val + rng < 2 * Top
    BY Constants DEF Sound
  <1>2. c \in Nat /\ m \in 0..(Bot - 1) /\ val = Bot * c + m
    BY <1>1, Constants, Divide
  <1> HIDE DEF m
  <1>3. c <= 2 * Sym - 1
    <2>1. SUFFICES ASSUME c >= 2 * Sym PROVE FALSE
      BY <1>2, Constants
    <2>2. Bot * (2 * Sym) <= Bot * c
      BY <2>1, <1>2, Constants, Times
    <2>3. Bot * (2 * Sym) = 2 * Top
      BY Constants
    <2> QED
      BY <2>2, <2>3, <1>1, <1>2, Constants
  <1>4. rng * Sym \in 1..Top /\ m * Sym \in Nat
    <2>1. rng * Sym <= Bot * Sym /\ rng * Sym \in Nat /\ 1 * Sym <= rng * Sym
      BY <1>1, Constants, Times
    <2> QED
      BY <2>1, <1>2, Constants
  <1>5. m * Sym + rng * Sym < 2 * Top
    <2>1. (m + rng) * Sym <= (2 * Bot - 1) * Sym
      BY <1>1, <1>2, Constants, Times
    <2>2. (2 * Bot - 1) * Sym = 2 * Top - Sym /\ (m + rng) * Sym = m * Sym + rng * Sym
      BY <1>1, <1>2, Constants
    <2> QED
      BY <2>1, <2>2, <1>4, Constants
  <1>6. m + rng <= Bot => m * Sym + rng * Sym <= Top
    <2>1. m + rng <= Bot => (m + rng) * Sym <= Bot * Sym
      BY <1>1, <1>2, Constants, Times
    <2>2. (m + rng) * Sym = m * Sym + rng * Sym
      BY <1>1, <1>2, Constants
    <2> QED
      BY <2>1, <2>2, Constants
  <1>7. ASSUME c = SymMax, val + rng <= Top
        PROVE  m + rng <= Bot
    <2>1. Bot * c = Top - Bot
      BY <1>7, Constants
    <2> QED
      BY <2>1, <1>1, <1>2, <1>7, Constants
  <1>8. ASSUME c # SymMax, c % Sym = SymMax
        PROVE  m + rng <= Bot
    <2>1. c = 2 * Sym - 1
      <3>1. PICK q \in Nat : c = Sym * q + SymMax
        <4>1. c \div Sym \in Nat /\ c = Sym * (c \div Sym) + (c % Sym)
          BY <1>2, Constants, Divide
        <4> QED
          BY <4>1, <1>8
      <3>2. q # 0
        BY <3>1, <1>8, Constants
      <3>3. PICK p \in Nat : p = Sym * q /\ Sym <= p
        <4>1. Sym * 1 <= Sym * q /\ Sym * q \in Nat /\ Sym * 1 = Sym
          BY <3>1, <3>2, Constants, Times
        <4> QED
          BY <4>1
      <3>4. c = p + SymMax
        BY <3>1, <3>3
      <3> QED
        BY <3>3, <3>4, <1>2, <1>3, Constants
    <2>2. Bot * c = 2 * Top - Bot
      BY <2>1, Constants
    <2> QED
      BY <2>2, <1>1, <1>2, Constants
  <1>9. c % Sym \in 0..SymMax
    BY <1>2, Constants, Divide
  <1>10. NextVal(val) = m * Sym
    BY DEF NextVal, m
  <1>11. CASE c = SymMax
    BY <1>11, <1>3, <1>2, <1>4, <1>5, <1>6, <1>7, <1>10, Constants DEF Sound
  <1>12. CASE c # SymMax
    BY <1>12, <1>3, <1>2, <1>4, <1>5, <1>6, <1>8, <1>9, <1>10, Constants DEF Sound
  <1> QED
    BY <1>11, <1>12

\* The fields of enc, which every step keeps.
EncoderFields ==
    enc = [rng |-> enc.rng, val |-> enc.val, rem |-> enc.rem, ext |-> enc.ext,
           offs |-> enc.offs, endOffs |-> enc.endOffs, storage |-> enc.storage,
           window |-> enc.window, nend |-> enc.nend, nbits |-> enc.nbits,
           error |-> enc.error]

\* Inductive: the registers are sound, and between two calls normalized.
EncoderInv ==
    /\ EncoderFields
    /\ pc \in {"idle", "normalize"}
    /\ Sound(enc.rng, enc.val, enc.rem)
    /\ pc = "idle" => enc.rng > Bot

LEMMA EncoderInitInv == EncoderInit => EncoderInv
  BY Constants DEF EncoderInit, EncoderInv, EncoderFields, Sound

\* Coding calls, each a part of the range (Narrow).
LEMMA NarrowInv ==
    ASSUME EncoderInv, NEW v \in Nat, NEW n \in Nat \ {0},
           n <= enc.rng, v + n <= enc.val + enc.rng, Narrow(v, n)
    PROVE  EncoderInv'
  <1>1. Sound(n, v, enc.rem)
    <2>1. PICK rng, val, rem : rng = enc.rng /\ val = enc.val /\ rem = enc.rem
      OBVIOUS
    <2>2. Sound(rng, val, rem) /\ n <= rng /\ v + n <= val + rng
      BY <2>1 DEF EncoderInv
    <2>3. Sound(n, v, rem)
      BY <2>2, NarrowSound
    <2> QED
      BY <2>1, <2>3
  <1>2. EncoderFields' /\ enc'.rng = n /\ enc'.val = v /\ enc'.rem = enc.rem
    BY DEF Narrow, EncoderInv, EncoderFields
  <1> QED
    BY <1>1, <1>2 DEF Narrow, EncoderInv

LEMMA EncodeInv ==
    ASSUME EncoderInv, pc = "idle",
           NEW ft \in 1..Bot, NEW fl \in Nat, NEW fh \in (fl + 1)..ft, Encode(fl, fh, ft)
    PROVE  EncoderInv'
  <1>1. enc.rng \in Nat /\ enc.val \in Nat /\ ft <= enc.rng /\ ft \in Nat \ {0}
    BY Constants DEF EncoderInv, Sound
  <1>2. ft - fl \in 0..ft /\ ft - fh \in 0..ft /\ ft - fh < ft - fl
        /\ (ft - fl) - (ft - fh) = fh - fl
    BY Constants
  <1>3. PICK r \in Nat \ {0}, x \in Nat, y \in Nat :
           /\ r = enc.rng \div ft /\ x = r * (ft - fl) /\ y = r * (ft - fh)
           /\ x - y = r * (fh - fl) /\ y < x /\ x <= enc.rng
    <2>1. PICK rng \in Nat : rng = enc.rng /\ ft <= rng
      BY <1>1
    <2>2. PICK lo \in 0..ft, hi \in 0..ft : lo = ft - fl /\ hi = ft - fh /\ hi < lo
      BY <1>2
    <2>3. PICK r \in Nat \ {0}, x \in Nat, y \in Nat :
             /\ r = rng \div ft /\ x = r * lo /\ y = r * hi
             /\ x - y = r * (lo - hi) /\ y < x /\ x <= rng
      <3>1. Cuts(rng, ft, lo, hi)
        BY <2>1, <1>1, <2>2, Cut
      <3> QED
        BY <3>1 DEF Cuts
    <2>4. lo - hi = fh - fl
      BY <1>2, <2>2
    <2> QED
      BY <2>1, <2>2, <2>3, <2>4
  <1>4. y < x /\ x <= enc.rng
    BY <1>3
  <1>5. CASE fl > 0
    <2>1. Narrow(enc.val + (enc.rng - x), x - y)
      BY <1>3, <1>5 DEF Encode
    <2>2. PICK v \in Nat, n \in Nat \ {0} :
             /\ v = enc.val + (enc.rng - x) /\ n = x - y
             /\ n <= enc.rng /\ v + n <= enc.val + enc.rng
      <3>1. enc.val + (enc.rng - x) \in Nat /\ x - y \in Nat \ {0}
        BY <1>1, <1>4
      <3> QED
        BY <3>1, <1>1, <1>4
    <2> QED
      BY <2>1, <2>2, NarrowInv
  <1>6. CASE ~(fl > 0)
    <2>1. Narrow(enc.val, enc.rng - y)
      BY <1>3, <1>6 DEF Encode
    <2>2. PICK n \in Nat \ {0} :
             n = enc.rng - y /\ n <= enc.rng /\ enc.val + n <= enc.val + enc.rng
      <3>1. enc.rng - y \in Nat \ {0}
        BY <1>1, <1>4
      <3> QED
        BY <3>1, <1>1, <1>4
    <2> QED
      BY <2>1, <2>2, <1>1, NarrowInv
  <1> QED
    BY <1>5, <1>6

LEMMA BitInv ==
    ASSUME EncoderInv, pc = "idle",
           NEW bit \in {0, 1}, NEW scale \in 2..Bot, EncBitLogp(bit, scale)
    PROVE  EncoderInv'
  <1>1. PICK rng \in Nat, val \in Nat : rng = enc.rng /\ val = enc.val /\ Bot < rng
    BY Constants DEF EncoderInv, Sound
  <1>2. PICK r \in Nat \ {0} : r = rng \div scale /\ r < rng
    <2>1. scale \in Nat \ {0} /\ scale <= rng /\ 2 \in 0..scale /\ 1 \in 0..scale /\ 1 < 2
      BY <1>1, Constants
    <2>2. PICK r \in Nat \ {0}, x \in Nat, y \in Nat :
             r = rng \div scale /\ x = r * 2 /\ y = r * 1 /\ y < x /\ x <= rng
      <3>1. Cuts(rng, scale, 2, 1)
        BY <2>1, <1>1, Cut
      <3> QED
        BY <3>1 DEF Cuts
    <2> QED
      BY <2>2
  <1>3. CASE bit # 0
    <2>1. PICK v \in Nat : v = val + (rng - r) /\ v + r <= val + rng
      BY <1>1, <1>2
    <2>2. Narrow(v, r)
      BY <1>1, <1>2, <1>3, <2>1 DEF EncBitLogp
    <2> QED
      BY <1>1, <1>2, <2>1, <2>2, NarrowInv
  <1>4. CASE ~(bit # 0)
    <2>1. PICK n \in Nat \ {0} : n = rng - r /\ n <= rng /\ val + n <= val + rng
      BY <1>1, <1>2
    <2>2. Narrow(val, n)
      BY <1>1, <1>2, <1>4, <2>1 DEF EncBitLogp
    <2> QED
      BY <1>1, <2>1, <2>2, NarrowInv
  <1> QED
    BY <1>3, <1>4

LEMMA IcdfInv ==
    ASSUME EncoderInv, pc = "idle",
           NEW scale \in 2..Bot, NEW last \in Nat,
           NEW icdf \in [0..last -> 0..(scale - 1)], NEW i \in 0..last,
           i > 0 => icdf[i] < icdf[i - 1],
           EncIcdf(i, icdf, scale)
    PROVE  EncoderInv'
  <1>1. PICK rng \in Nat, val \in Nat : rng = enc.rng /\ val = enc.val /\ Bot < rng
    BY Constants DEF EncoderInv, Sound
  <1>2. PICK hi \in 0..(scale - 1) : hi = icdf[i]
    OBVIOUS
  <1>3. PICK lo \in 1..scale : lo = (IF i > 0 THEN icdf[i - 1] ELSE scale) /\ hi < lo
    <2>1. CASE i > 0
      <3>1. icdf[i - 1] \in 0..(scale - 1) /\ hi < icdf[i - 1]
        BY <1>2, <2>1
      <3> QED
        BY <3>1, <2>1, <1>2
    <2>2. CASE ~(i > 0)
      BY <2>2, <1>2
    <2> QED
      BY <2>1, <2>2
  <1>4. PICK r \in Nat \ {0}, x \in Nat, y \in Nat :
           /\ r = rng \div scale /\ x = r * lo /\ y = r * hi /\ x - y = r * (lo - hi)
           /\ y < x /\ x <= rng
    <2>1. scale \in Nat \ {0} /\ scale <= rng /\ lo \in 0..scale /\ hi \in 0..scale
      BY <1>1, <1>2, <1>3, Constants
    <2>2. Cuts(rng, scale, lo, hi)
      BY <2>1, <1>1, <1>3, Cut
    <2> QED
      BY <2>2 DEF Cuts
  <1>5. y < x /\ x <= rng
    BY <1>4
  <1>6. CASE i > 0
    <2>1. PICK v \in Nat, n \in Nat \ {0} :
             v = val + (rng - x) /\ n = x - y /\ n <= rng /\ v + n <= val + rng
      <3>1. /\ val + (rng - x) \in Nat /\ x - y \in Nat \ {0}
            /\ x - y <= rng /\ (val + (rng - x)) + (x - y) <= val + rng
        BY <1>5, Differences
      <3> QED
        BY <3>1, Zenon
    <2>2. Narrow(v, n)
      BY <1>1, <1>2, <1>3, <1>4, <1>6, <2>1 DEF EncIcdf
    <2> QED
      BY <1>1, <2>1, <2>2, NarrowInv
  <1>7. CASE ~(i > 0)
    <2>1. PICK n \in Nat \ {0} : n = rng - y /\ n <= rng /\ val + n <= val + rng
      <3>1. rng - y \in Nat \ {0} /\ rng - y <= rng /\ val + (rng - y) <= val + rng
        BY <1>5, Differences
      <3> QED
        BY <3>1, Zenon
    <2>2. Narrow(val, n)
      BY <1>1, <1>2, <1>4, <1>7, <2>1 DEF EncIcdf
    <2> QED
      BY <1>1, <2>1, <2>2, NarrowInv
  <1> QED
    BY <1>6, <1>7

LEMMA UintInv ==
    ASSUME EncoderInv, pc = "idle",
           NEW s \in Symbols, IsUint(s), EncUint(s.value, s.count)
    PROVE  EncoderInv'
  <1>1. PICK c \in Nat, v \in Nat, p \in Nat \ {0} :
           c = s.count /\ v = s.value /\ v <= c - 1 /\ p = Part(c)
    BY DEF IsUint
  <1>2. PICK ft \in 2..Bot : ft = Parts(c) /\ ft = (c - 1) \div p + 1
    BY <1>1 DEF IsUint, Parts
  <1>3. PICK high \in Nat : high = v \div p /\ high < ft
    <2>1. PICK q \in Nat, h \in Nat :
             q = (c - 1) \div p /\ h = v \div p /\ c - 1 < p * q + p /\ p * h <= v
      <3>1. c - 1 \in Nat
        BY <1>1
      <3>2. (c - 1) \div p \in Nat /\ c - 1 < p * ((c - 1) \div p) + p
        BY <1>1, <3>1, Divide
      <3>3. v \div p \in Nat /\ p * (v \div p) <= v
        BY <1>1, Divide
      <3> QED
        BY <3>2, <3>3
    <2>2. h <= q
      <3>1. SUFFICES ASSUME q + 1 <= h PROVE FALSE
        BY <2>1
      <3>2. p * (q + 1) <= p * h /\ p * (q + 1) = p * q + p
        BY <3>1, <2>1, <1>1, Times
      <3> QED
        BY <3>2, <2>1, <1>1
    <2> QED
      BY <2>1, <2>2, <1>2
  <1>4. Encode(high, high + 1, ft)
    BY <1>1, <1>2, <1>3 DEF EncUint
  <1>5. ft \in 1..Bot /\ high + 1 \in (high + 1)..ft
    BY <1>2, <1>3, Constants
  <1> QED
    BY <1>3, <1>4, <1>5, EncodeInv

\* What leaves the registers alone: raw bits, silence, EncShrink.
LEMMA RegistersKept ==
    ASSUME EncoderInv, EncoderFields',
           enc'.rng = enc.rng, enc'.val = enc.val, enc'.rem = enc.rem,
           pc' \in {"idle", "normalize"}, pc' = "idle" => enc.rng > Bot
    PROVE  EncoderInv'
  BY DEF EncoderInv

LEMMA BitsKeep ==
    ASSUME EncoderFields, NEW low, NEW bits, EncBits(low, bits)
    PROVE  /\ EncoderFields'
           /\ enc'.rng = enc.rng /\ enc'.val = enc.val /\ enc'.rem = enc.rem
  BY DEF EncBits, AddBits, RawWritten, EncoderFields

LEMMA CodeInv ==
    ASSUME EncoderInv, NEW s \in Symbols, Code(s)
    PROVE  EncoderInv'
  <1>1. pc = "idle"
    BY DEF Code
  <1>2. CASE s.op = "interval" /\ Encode(s.fl, s.fh, s.ft)
    <2>1. IsInterval(s)
      BY <1>2, SymbolKinds DEF IsInterval, IsBit, IsIcdf, IsUint, IsRaw, IsSilence
    <2> QED
      BY <1>1, <1>2, <2>1, EncodeInv DEF IsInterval
  <1>3. CASE s.op = "bit" /\ EncBitLogp(s.bit, s.scale)
    <2>1. IsBit(s)
      BY <1>3, SymbolKinds DEF IsInterval, IsBit, IsIcdf, IsUint, IsRaw, IsSilence
    <2> QED
      BY <1>1, <1>3, <2>1, BitInv DEF IsBit
  <1>4. CASE s.op = "icdf" /\ EncIcdf(s.index, s.icdf, s.scale)
    <2>1. IsIcdf(s)
      BY <1>4, SymbolKinds DEF IsInterval, IsBit, IsIcdf, IsUint, IsRaw, IsSilence
    <2> QED
      BY <1>1, <1>4, <2>1, IcdfInv DEF IsIcdf
  <1>5. CASE s.op = "uint" /\ EncUint(s.value, s.count)
    <2>1. IsUint(s)
      BY <1>5, SymbolKinds DEF IsInterval, IsBit, IsIcdf, IsUint, IsRaw, IsSilence
    <2> QED
      BY <1>1, <1>5, <2>1, UintInv
  <1>6. CASE s.op = "raw" /\ EncBits(s.low, s.bits) /\ UNCHANGED <<pc, pending>>
    BY <1>1, <1>6, BitsKeep, RegistersKept DEF EncoderInv
  <1>7. CASE s.op = "silence" /\ SetTellForSilence /\ UNCHANGED <<buf, pc, pending>>
    <2>1. /\ EncoderFields'
          /\ enc'.rng = enc.rng /\ enc'.val = enc.val /\ enc'.rem = enc.rem
      BY <1>7 DEF SetTellForSilence, EncoderInv, EncoderFields
    <2> QED
      BY <1>7, <2>1, RegistersKept DEF EncoderInv
  <1> QED
    BY <1>2, <1>3, <1>4, <1>5, <1>6, <1>7 DEF Code

LEMMA TurnInv ==
    ASSUME EncoderInv, NormalizeTurn
    PROVE  EncoderInv'
  <1>1. PICK rng, val, rem, c :
           /\ rng = enc.rng /\ val = enc.val /\ rem = enc.rem /\ c = val \div Bot
    OBVIOUS
  <1>2. Sound(rng, val, rem) /\ rng <= Bot
    BY <1>1 DEF EncoderInv, NormalizeTurn
  <1>3. Sound(rng * Sym, NextVal(val), IF c = SymMax THEN rem ELSE c % Sym)
    BY <1>1, <1>2, TurnSound
  <1>4. /\ EncoderFields'
        /\ enc'.rng = rng * Sym /\ enc'.val = NextVal(val)
        /\ enc'.rem = IF c = SymMax THEN rem ELSE c % Sym
    <2>1. CASE c = SymMax
      BY <1>1, <2>1 DEF NormalizeTurn, CarryOut, EncoderInv, EncoderFields
    <2>2. CASE c # SymMax
      BY <1>1, <2>2 DEF NormalizeTurn, CarryOut, EncoderInv, EncoderFields
    <2> QED
      BY <2>1, <2>2
  <1>5. pc' = "normalize"
    BY DEF NormalizeTurn
  <1> QED
    BY <1>3, <1>4, <1>5 DEF EncoderInv

LEMMA EncoderNextInv == EncoderInv /\ [EncoderNext]_evars => EncoderInv'
  <1> SUFFICES ASSUME EncoderInv, [EncoderNext]_evars
               PROVE  EncoderInv'
    OBVIOUS
  <1>1. CASE \E s \in Symbols : Code(s)
    BY <1>1, CodeInv
  <1>2. CASE NormalizeTurn
    BY <1>2, TurnInv
  <1>3. CASE NormalizeEnds
    <2>1. CASE pending.bits > 0
      <3>1. EncBits(pending.low, pending.bits)
        BY <1>3, <2>1 DEF NormalizeEnds
      <3> QED
        BY <1>3, <3>1, BitsKeep, RegistersKept DEF NormalizeEnds, EncoderInv
    <2>2. CASE ~(pending.bits > 0)
      <3>1. enc' = enc
        BY <1>3, <2>2 DEF NormalizeEnds
      <3> QED
        BY <1>3, <3>1, RegistersKept DEF NormalizeEnds, EncoderInv, EncoderFields
    <2> QED
      BY <2>1, <2>2
  <1>4. CASE \E size \in Storages : EncShrink(size)
    <2>1. /\ EncoderFields' /\ pc' = pc
          /\ enc'.rng = enc.rng /\ enc'.val = enc.val /\ enc'.rem = enc.rem
      BY <1>4 DEF EncShrink, EncoderInv, EncoderFields
    <2> QED
      BY <2>1, RegistersKept DEF EncoderInv
  <1>5. CASE UNCHANGED evars
    BY <1>5, RegistersKept DEF evars, EncoderInv, EncoderFields
  <1> QED
    BY <1>1, <1>2, <1>3, <1>4, <1>5 DEF EncoderNext

\* No carry is ever lost: it meets a digit that is held back and is not SymMax, for
\* any widths and any symbols (enc_carry_out); and the registers keep their width, no
\* sum of uint32 wraps and the range is never empty (Encode, enc_normalize).
THEOREM RegistersAlwaysSafe == EncoderSpec => []RegistersSafe
  <1>1. EncoderInv => CarryAbsorbed
    BY Constants DEF EncoderInv, Sound, CarryAbsorbed
  <1>2. EncoderInv => RegistersFit
    BY DEF EncoderInv, Sound, RegistersFit
  <1> QED
    BY <1>1, <1>2, EncoderInitInv, EncoderNextInv, PTL DEF EncoderSpec, RegistersSafe

-----------------------------------------------------------------------------
(* The decoder's value                                                      *)

Inside(rng, val) == rng \in 1..Top /\ val \in 0..(rng - 1)

LEMMA InsideIf ==
    ASSUME NEW rng \in Nat, NEW val \in Nat, val < rng, rng <= Top
    PROVE  Inside(rng, val)
  <1>1. PICK top \in Nat : top = Top
    BY Constants
  <1> QED
    BY <1>1 DEF Inside

DecoderFields ==
    dec = [rng |-> dec.rng, val |-> dec.val, rem |-> dec.rem, offs |-> dec.offs,
           endOffs |-> dec.endOffs, storage |-> dec.storage, window |-> dec.window,
           nend |-> dec.nend, nbits |-> dec.nbits, error |-> dec.error]

\* What dec_normalize reads: digits, from inside the buffer.
Readable ==
    /\ dec.storage \in Nat /\ dec.offs \in Nat /\ dec.rem \in Nat
    /\ \A i \in 0..(dec.storage - 1) : data[i] \in 0..SymMax

\* Inductive: the value is inside the range, and between two calls normalized.
DecoderInv ==
    /\ DecoderFields /\ Readable
    /\ dpc \in {"idle", "normalize"}
    /\ Inside(dec.rng, dec.val)
    /\ dpc = "idle" => dec.rng > Bot

LEMMA InsideAbove ==
    ASSUME NEW rng \in Nat, NEW val \in Nat, val < rng, rng <= Top,
           NEW s \in Nat, s <= val
    PROVE  Inside(rng - s, val - s)
  <1>1. PICK top \in Nat : top = Top /\ rng <= top
    BY Constants
  <1> QED
    BY <1>1, InsideIf

LEMMA DecoderInitInv == DecoderInit => DecoderInv
  <1> SUFFICES ASSUME DecoderInit PROVE DecoderInv
    OBVIOUS
  <1>1. PICK s \in Seq(0..SymMax) : data = Bytes(s) /\ dec = Fresh(data, Len(s))
    BY InputsAssumption DEF DecoderInit
  <1>2. Len(s) \in Nat /\ \A i \in 0..(Len(s) - 1) : data[i] \in 0..SymMax
    <2>1. Len(s) \in Nat /\ \A j \in 1..Len(s) : s[j] \in 0..SymMax
      BY <1>1, ElementOfSeq, LenProperties
    <2>2. ASSUME NEW i \in 0..(Len(s) - 1) PROVE data[i] = s[i + 1] /\ i + 1 \in 1..Len(s)
      BY <1>1, <2>1 DEF Bytes
    <2> QED
      BY <2>1, <2>2
  <1>3. PICK first \in 0..SymMax : first = IF Len(s) > 0 THEN data[0] ELSE 0
    BY <1>2, Constants
  <1>4. PICK x \in Nat \ {0}, d \in Nat \ {0} : x = 2^CodeExtra /\ d = Drop /\ Sym = d * x
    BY RangeAssumption
  <1>5. PICK q \in Nat : q = first \div d /\ q < x
    <2>1. PICK q \in Nat : q = first \div d /\ d * q <= first
      <3>1. first \in Nat /\ d \in Nat \ {0}
        BY <1>4, Constants
      <3>2. first \div d \in Nat /\ d * (first \div d) <= first
        BY <3>1, Divide
      <3> QED
        BY <3>2
    <2>2. q < x
      <3>1. SUFFICES ASSUME x <= q PROVE FALSE
        BY <1>4, <2>1
      <3>2. d * x <= d * q
        BY <3>1, <1>4, <2>1, Times
      <3>3. first < Sym
        BY Constants
      <3> QED
        BY <3>2, <3>3, <2>1, <1>4, Constants
    <2> QED
      BY <2>1, <2>2
  <1>6. dec.rng = x /\ dec.val = x - 1 - q /\ dec.storage = Len(s) /\ dec.rem = first
        /\ dec.offs = Lower(1, Len(s)) /\ DecoderFields
    BY <1>1, <1>3, <1>4, <1>5 DEF Fresh, DecoderFields
  <1>7. x <= Sym
    <2>1. 1 * x <= d * x
      BY <1>4, Times
    <2> QED
      BY <2>1, <1>4
  <1>8. Inside(x, x - 1 - q)
    <2>1. x - 1 - q \in Nat /\ x - 1 - q < x
      BY <1>5
    <2>2. x <= Top
      BY <1>7, Constants
    <2> QED
      BY <2>1, <2>2, InsideIf
  <1>9. Readable
    BY <1>2, <1>6, Constants DEF Readable, Lower
  <1> QED
    BY <1>6, <1>8, <1>9 DEF DecoderInv, DecoderInit

\* Decoding calls (Take): they keep what is to be read.
LEMMA TakeInv ==
    ASSUME DecoderInv, NEW v, NEW n, NEW symbol, Inside(n, v), Take(symbol, v, n)
    PROVE  DecoderInv'
  <1>1. /\ DecoderFields' /\ dec'.rng = n /\ dec'.val = v /\ dpc' = "normalize"
        /\ dec'.storage = dec.storage /\ dec'.offs = dec.offs /\ dec'.rem = dec.rem
        /\ data' = data
    BY DEF Take, DecoderInv, DecoderFields
  <1>2. Readable'
    BY <1>1 DEF DecoderInv, Readable
  <1> QED
    BY <1>1, <1>2 DEF DecoderInv

\* The interval that DecUpdate takes away holds the value, if the frequency Decode
\* returned is inside [fl, fh).
LEMMA UpdateInside ==
    ASSUME NEW rng \in Nat, NEW val \in 0..(rng - 1), rng <= Top,
           NEW ft \in Nat \ {0}, ft <= rng, NEW ext, ext = rng \div ft,
           NEW f, f = ft - Lower(val \div ext + 1, ft),
           NEW fl \in Nat, NEW fh \in (fl + 1)..ft, fl <= f, f < fh,
           NEW s, s = ext * (ft - fh)
    PROVE  Inside(IF fl > 0 THEN ext * (fh - fl) ELSE rng - s, val - s)
  <1>1. ext \in Nat \ {0} /\ ext * ft <= rng
    <2>1. ext \in Nat /\ ft * ext <= rng /\ rng < ft * ext + ft
      BY Divide
    <2>2. ext # 0 /\ ft * ext = ext * ft
      BY <2>1
    <2> QED
      BY <2>1, <2>2
  <1>2. PICK k \in Nat : k = val \div ext /\ ext * k <= val /\ val < ext * k + ext
    <2>1. val \in Nat /\ ext \in Nat \ {0}
      BY <1>1
    <2>2. /\ val \div ext \in Nat /\ ext * (val \div ext) <= val
          /\ val < ext * (val \div ext) + ext
      BY <2>1, Divide
    <2> QED
      BY <2>2
  <1>3. f = ft - Lower(k + 1, ft)
    BY <1>2
  <1>4. ft - fh <= k
    BY <1>2, <1>3 DEF Lower
  <1>5. s <= ext * k /\ s \in Nat
    <2>1. ft - fh \in Nat
      OBVIOUS
    <2> QED
      BY <2>1, <1>1, <1>2, <1>4, Times
  <1>6. val - s \in Nat
    BY <1>2, <1>5
  <1>7. CASE fl > 0
    <2>1. f = ft - (k + 1) /\ k + 1 <= ft - fl
      BY <1>2, <1>3, <1>7 DEF Lower
    <2>2. PICK x \in Nat, y \in Nat :
             /\ x = ext * (k + 1) /\ y = ext * (ft - fl) /\ x <= y /\ y <= ext * ft
             /\ x = ext * k + ext
      <3>1. ft - fl \in Nat /\ ft - fl <= ft
        OBVIOUS
      <3>2. ext * (k + 1) = ext * k + ext
        BY <1>1, <1>2
      <3> QED
        BY <2>1, <3>1, <3>2, <1>1, <1>2, Times
    <2>3. ext * (fh - fl) = y - s
      BY <2>2, <1>1
    <2>4. val < y /\ y <= Top /\ s \in Nat /\ s <= val
      BY <2>2, <1>1, <1>2, <1>5, Constants
    <2>5. y - s \in Nat /\ val - s < y - s /\ y - s <= Top
      BY <2>2, <2>4, Constants
    <2> QED
      BY <2>3, <2>5, <1>6, <1>7, InsideIf
  <1>8. CASE ~(fl > 0)
    <2>1. s \in Nat /\ s <= val /\ val \in Nat /\ val < rng
      BY <1>5, <1>6
    <2> QED
      BY <2>1, <1>8, InsideAbove
  <1> QED
    BY <1>7, <1>8

LEMMA UpdateInv ==
    ASSUME DecoderInv, dpc = "idle", NEW symbol, NEW ft \in 1..Bot,
           NEW fl \in Nat, NEW fh \in (fl + 1)..ft,
           fl <= Frequency(ft), Frequency(ft) < fh, Update(symbol, fl, fh, ft)
    PROVE  DecoderInv'
  <1>1. PICK rng \in Nat : rng = dec.rng /\ ft <= rng /\ rng <= Top /\ ft \in Nat \ {0}
    BY Constants DEF DecoderInv, Inside
  <1>2. PICK val \in 0..(rng - 1) : val = dec.val
    BY <1>1 DEF DecoderInv, Inside
  <1>3. PICK ext, f, s : /\ ext = rng \div ft /\ f = ft - Lower(val \div ext + 1, ft)
                         /\ s = ext * (ft - fh)
    OBVIOUS
  <1>4. f = Frequency(ft)
    BY <1>1, <1>2, <1>3 DEF Frequency
  <1>5. PICK n : n = IF fl > 0 THEN ext * (fh - fl) ELSE rng - s
    OBVIOUS
  <1>6. Inside(n, val - s)
    BY <1>1, <1>3, <1>4, <1>5, UpdateInside
  <1>7. Take(symbol, val - s, n)
    BY <1>1, <1>2, <1>3, <1>5 DEF Update
  <1> QED
    BY <1>6, <1>7, TakeInv

LEMMA FrequencyBelow ==
    ASSUME DecoderInv, dpc = "idle", NEW ft \in 1..Bot
    PROVE  Frequency(ft) \in 0..(ft - 1)
  <1>1. PICK rng \in Nat : rng = dec.rng /\ ft <= rng /\ ft \in Nat \ {0}
    BY Constants DEF DecoderInv, Inside
  <1>2. PICK ext \in Nat \ {0} : ext = rng \div ft
    <2>1. ft \in 0..ft /\ 0 \in 0..ft /\ 0 < ft
      BY <1>1
    <2>2. Cuts(rng, ft, ft, 0)
      BY <2>1, <1>1, Cut
    <2> QED
      BY <2>2 DEF Cuts
  <1>3. PICK k \in Nat : k = dec.val \div ext
    <2>1. dec.val \in Nat
      BY <1>1 DEF DecoderInv, Inside
    <2> QED
      BY <2>1, <1>2, Divide
  <1> QED
    BY <1>1, <1>2, <1>3 DEF Frequency, Lower

LEMMA DecodeIntervalInv ==
    ASSUME DecoderInv, dpc = "idle", NEW ft \in 1..Bot,
           NEW fl \in Nat, NEW fh \in (fl + 1)..ft, DecodeInterval(fl, fh, ft)
    PROVE  DecoderInv'
  <1>1. PICK f \in 0..(ft - 1) : f = Frequency(ft)
    BY FrequencyBelow
  <1>2. CASE fl <= f /\ f < fh
    <2>1. Update(f, fl, fh, ft)
      BY <1>1, <1>2 DEF DecodeInterval
    <2> QED
      BY <2>1, <1>1, <1>2, UpdateInv
  <1>3. CASE ~(fl <= f /\ f < fh)
    <2>1. Update(f, f, f + 1, ft)
      BY <1>1, <1>3 DEF DecodeInterval
    <2>2. f \in Nat /\ f + 1 \in (f + 1)..ft /\ f <= f /\ f < f + 1
      BY <1>1
    <2> QED
      BY <2>1, <2>2, <1>1, UpdateInv
  <1> QED
    BY <1>2, <1>3

LEMMA DecodeBitInv ==
    ASSUME DecoderInv, dpc = "idle", NEW scale \in 2..Bot, DecBitLogp(scale)
    PROVE  DecoderInv'
  <1>1. PICK rng \in Nat, val \in Nat :
           rng = dec.rng /\ val = dec.val /\ Bot < rng /\ rng <= Top /\ val < rng
    BY Constants DEF DecoderInv, Inside
  <1>2. PICK s \in Nat : s = rng \div scale /\ s <= rng
    <2>1. scale \in Nat \ {0} /\ scale <= rng /\ 1 \in 0..scale /\ 0 \in 0..scale /\ 0 < 1
      BY <1>1, Constants
    <2>2. Cuts(rng, scale, 1, 0)
      BY <2>1, <1>1, Cut
    <2> QED
      BY <2>2 DEF Cuts
  <1>3. CASE val < s
    <2>1. Take(1, val, s)
      BY <1>1, <1>2, <1>3 DEF DecBitLogp
    <2>2. s <= Top
      BY <1>1, <1>2, Constants
    <2>3. Inside(s, val)
      BY <1>1, <1>2, <1>3, <2>2, InsideIf
    <2> QED
      BY <2>1, <2>3, TakeInv
  <1>4. CASE ~(val < s)
    <2>1. Take(0, val - s, rng - s)
      BY <1>1, <1>2, <1>4 DEF DecBitLogp
    <2>2. s <= val
      BY <1>1, <1>2, <1>4
    <2>3. Inside(rng - s, val - s)
      BY <1>1, <1>2, <2>2, InsideAbove
    <2> QED
      BY <2>1, <2>3, TakeInv
  <1> QED
    BY <1>3, <1>4

LEMMA DecodeIcdfInv ==
    ASSUME DecoderInv, dpc = "idle",
           NEW scale \in 2..Bot, NEW last \in Nat,
           NEW icdf \in [0..last -> 0..(scale - 1)], DecIcdf(icdf, last, scale)
    PROVE  DecoderInv'
  <1>1. PICK rng \in Nat, val \in Nat :
           rng = dec.rng /\ val = dec.val /\ Bot < rng /\ rng <= Top /\ val < rng
    BY Constants DEF DecoderInv, Inside
  <1>2. PICK r \in Nat : r = rng \div scale /\ r * scale <= rng
    <2>1. scale \in Nat \ {0} /\ scale <= rng /\ scale \in 0..scale /\ 0 \in 0..scale
          /\ 0 < scale
      BY <1>1, Constants
    <2>2. Cuts(rng, scale, scale, 0)
      BY <2>1, <1>1, Cut
    <2> QED
      BY <2>2 DEF Cuts
  <1>3. PICK i \in 0..last :
           /\ val >= r * icdf[i] /\ \A j \in 0..(i - 1) : val < r * icdf[j]
           /\ Take(i, val - r * icdf[i], (IF i = 0 THEN rng ELSE r * icdf[i - 1]) - r * icdf[i])
    BY <1>1, <1>2 DEF DecIcdf
  <1>4. PICK s \in Nat : s = r * icdf[i] /\ s <= val
    <2>1. icdf[i] \in Nat
      OBVIOUS
    <2> QED
      BY <2>1, <1>1, <1>2, <1>3
  <1>5. PICK t \in Nat : t = (IF i = 0 THEN rng ELSE r * icdf[i - 1]) /\ val < t /\ t <= Top
    <2>1. CASE i = 0
      BY <2>1, <1>1
    <2>2. CASE i # 0
      <3>1. PICK x \in 0..(scale - 1) : x = icdf[i - 1] /\ val < r * x
        BY <2>2, <1>3
      <3>2. r * x <= r * scale /\ r * x \in Nat
        <4>1. x \in Nat /\ scale \in Nat /\ x <= scale
          BY <3>1
        <4> QED
          BY <4>1, <1>2, Times
      <3>3. r * x <= Top
        <4>1. scale \in Nat /\ scale <= scale
          BY Constants
        <4>2. r * scale \in Nat
          BY <4>1, <1>2, Times
        <4>3. PICK p \in Nat, q \in Nat : p = r * x /\ q = r * scale
          BY <3>2, <4>2, Zenon
        <4>4. p <= q /\ q <= rng
          BY <3>2, <1>2, <4>3, Zenon
        <4>5. p <= Top
          BY <4>4, <1>1, Constants
        <4> QED
          BY <4>3, <4>5, Zenon
      <3> QED
        BY <3>1, <3>2, <3>3, <2>2
    <2> QED
      BY <2>1, <2>2
  <1>6. Inside(t - s, val - s)
    BY <1>1, <1>4, <1>5, InsideAbove
  <1>7. Take(i, val - s, t - s)
    BY <1>3, <1>4, <1>5
  <1> QED
    BY <1>6, <1>7, TakeInv

\* What leaves rng and val alone: raw bits, silence, ShrinkStorage.
LEMMA ValueKept ==
    ASSUME DecoderInv, DecoderFields',
           dec'.rng = dec.rng, dec'.val = dec.val, dec'.rem = dec.rem,
           dec'.offs = dec.offs, dec'.storage \in Nat, dec'.storage <= dec.storage,
           data' = data, dpc' \in {"idle", "normalize"}, dpc' = "idle" => dec.rng > Bot
    PROVE  DecoderInv'
  <1>1. Readable'
    BY DEF DecoderInv, Readable
  <1> QED
    BY <1>1 DEF DecoderInv

LEMMA RawKeeps ==
    ASSUME DecoderFields, NEW n, NEW d, d = RawTaken(dec, n)
    PROVE  /\ d = [rng |-> d.rng, val |-> d.val, rem |-> d.rem, offs |-> d.offs,
                   endOffs |-> d.endOffs, storage |-> d.storage, window |-> d.window,
                   nend |-> d.nend, nbits |-> d.nbits, error |-> d.error]
           /\ d.rng = dec.rng /\ d.val = dec.val /\ d.rem = dec.rem
           /\ d.offs = dec.offs /\ d.storage = dec.storage
  <1>1. PICK k, w : k = Refills(dec, n) /\ w = Window(dec, k) \div 2^n
    OBVIOUS
  <1>2. PICK e : e = Refilled(dec, k)
    OBVIOUS
  <1>3. e = [rng |-> dec.rng, val |-> dec.val, rem |-> dec.rem, offs |-> dec.offs,
             endOffs |-> e.endOffs, storage |-> dec.storage, window |-> dec.window,
             nend |-> e.nend, nbits |-> dec.nbits, error |-> dec.error]
    BY <1>2 DEF Refilled, DecoderFields
  <1>4. d = [e EXCEPT !.window = w, !.nend = @ - n, !.nbits = @ + n]
    BY <1>1, <1>2 DEF RawTaken
  <1>5. e = [rng |-> e.rng, val |-> e.val, rem |-> e.rem, offs |-> e.offs,
             endOffs |-> e.endOffs, storage |-> e.storage, window |-> e.window,
             nend |-> e.nend, nbits |-> e.nbits, error |-> e.error]
        /\ e.rng = dec.rng /\ e.val = dec.val /\ e.rem = dec.rem
        /\ e.offs = dec.offs /\ e.storage = dec.storage
    BY <1>3
  <1>6. /\ d = [rng |-> d.rng, val |-> d.val, rem |-> d.rem, offs |-> d.offs,
                endOffs |-> d.endOffs, storage |-> d.storage, window |-> d.window,
                nend |-> d.nend, nbits |-> d.nbits, error |-> d.error]
        /\ d.rng = e.rng /\ d.val = e.val /\ d.rem = e.rem
        /\ d.offs = e.offs /\ d.storage = e.storage
    BY <1>4, <1>5
  <1> QED
    BY <1>5, <1>6

LEMMA DecodeInv ==
    ASSUME DecoderInv, NEW s \in Symbols, Decode(s)
    PROVE  DecoderInv'
  <1>1. dpc = "idle"
    BY DEF Decode
  <1>2. CASE s.op = "interval" /\ DecodeInterval(s.fl, s.fh, s.ft)
    <2>1. IsInterval(s)
      BY <1>2, SymbolKinds DEF IsInterval, IsBit, IsIcdf, IsUint, IsRaw, IsSilence
    <2> QED
      BY <1>1, <1>2, <2>1, DecodeIntervalInv DEF IsInterval
  <1>3. CASE s.op = "bit" /\ DecBitLogp(s.scale)
    <2>1. IsBit(s)
      BY <1>3, SymbolKinds DEF IsInterval, IsBit, IsIcdf, IsUint, IsRaw, IsSilence
    <2> QED
      BY <1>1, <1>3, <2>1, DecodeBitInv DEF IsBit
  <1>4. CASE s.op = "icdf" /\ DecIcdf(s.icdf, s.last, s.scale)
    <2>1. IsIcdf(s)
      BY <1>4, SymbolKinds DEF IsInterval, IsBit, IsIcdf, IsUint, IsRaw, IsSilence
    <2> QED
      BY <1>1, <1>4, <2>1, DecodeIcdfInv DEF IsIcdf
  <1>5. CASE s.op = "uint" /\ DecUint(s.count)
    <2>1. PICK ft \in 2..Bot : ft = Parts(s.count)
      BY <1>5, SymbolKinds DEF IsInterval, IsBit, IsIcdf, IsUint, IsRaw, IsSilence
    <2>2. ft \in 1..Bot
      BY <2>1, Constants
    <2>3. PICK f \in 0..(ft - 1) : f = Frequency(ft)
      BY <1>1, <2>2, FrequencyBelow
    <2>4. Update(f, f, f + 1, ft)
      BY <1>5, <2>1, <2>3 DEF DecUint
    <2>5. f \in Nat /\ f + 1 \in (f + 1)..ft /\ f <= f /\ f < f + 1
      BY <2>2, <2>3
    <2> QED
      BY <1>1, <2>2, <2>3, <2>4, <2>5, UpdateInv
  <1>6. CASE s.op = "raw" /\ DecBits(s.bits) /\ UNCHANGED <<data, dpc, wanted>>
    <2>1. dec' = RawTaken(dec, s.bits)
      BY <1>6 DEF DecBits
    <2>2. /\ DecoderFields' /\ dec'.rng = dec.rng /\ dec'.val = dec.val
          /\ dec'.rem = dec.rem /\ dec'.offs = dec.offs /\ dec'.storage = dec.storage
      <3>1. PICK d : d = RawTaken(dec, s.bits) /\ dec' = d
        BY <2>1
      <3> QED
        BY <3>1, RawKeeps DEF DecoderInv, DecoderFields
    <2> QED
      BY <1>1, <1>6, <2>2, ValueKept DEF DecoderInv, Readable
  <1>7. CASE s.op = "silence" /\ DecSilence /\ UNCHANGED <<data, dpc, wanted, got>>
    <2>1. /\ DecoderFields' /\ dec'.rng = dec.rng /\ dec'.val = dec.val
          /\ dec'.rem = dec.rem /\ dec'.offs = dec.offs /\ dec'.storage = dec.storage
      BY <1>7 DEF DecSilence, DecoderInv, DecoderFields
    <2> QED
      BY <1>1, <1>7, <2>1, ValueKept DEF DecoderInv, Readable
  <1> QED
    BY <1>2, <1>3, <1>4, <1>5, <1>6, <1>7 DEF Decode

\* A turn of dec_normalize: a digit comes in below a value below the range.
LEMMA DecTurnInv ==
    ASSUME DecoderInv, DecNormalizeTurn
    PROVE  DecoderInv'
  <1>1. PICK rng \in Nat \ {0}, val \in Nat :
           rng = dec.rng /\ val = dec.val /\ rng <= Bot /\ val <= rng - 1
    BY Constants DEF DecoderInv, Inside, DecNormalizeTurn
  <1>2. ByteAt(dec, dec.offs) \in 0..SymMax
    BY Constants DEF DecoderInv, Readable, ByteAt
  <1>3. PICK digit \in 0..SymMax : digit = NextDigit(dec)
    <2>1. PICK b \in Nat, d \in Nat \ {0} : b = ByteAt(dec, dec.offs) /\ d = Drop
      BY <1>2, RangeAssumption
    <2>2. dec.rem * Sym + b \in Nat
      BY <2>1, Constants DEF DecoderInv, Readable
    <2>3. (dec.rem * Sym + b) \div d \in Nat
      BY <2>1, <2>2, Divide
    <2>4. ((dec.rem * Sym + b) \div d) % Sym \in 0..(Sym - 1)
      BY <2>3, Constants, Divide
    <2> QED
      BY <2>1, <2>4, Constants DEF NextDigit
  <1>4. PICK v \in Nat, n \in Nat : /\ v = val * Sym + (SymMax - digit) /\ n = rng * Sym
                                    /\ v < n /\ n <= Top
    <2>1. val * Sym <= (rng - 1) * Sym /\ val * Sym \in Nat
      BY <1>1, Constants, Times
    <2>2. (rng - 1) * Sym = rng * Sym - Sym /\ rng * Sym \in Nat
      BY <1>1, Constants
    <2>3. rng * Sym <= Bot * Sym /\ Bot * Sym = Top
      BY <1>1, Constants, Times
    <2>4. SymMax - digit \in 0..(Sym - 1)
      BY <1>3, Constants
    <2>5. PICK a \in Nat, b \in Nat : a = val * Sym /\ b = rng * Sym /\ a <= b - Sym /\ b <= Top
      BY <2>1, <2>2, <2>3
    <2>6. a + (SymMax - digit) \in Nat /\ a + (SymMax - digit) < b
      BY <2>4, <2>5, Constants
    <2> QED
      BY <2>5, <2>6
  <1>5. v % Top = v
    BY <1>4, Constants
  <1>6. Inside(n, v)
    BY <1>4, InsideIf
  <1>7. /\ DecoderFields' /\ dec'.rng = n /\ dec'.val = v
        /\ dec'.rem = ByteAt(dec, dec.offs) /\ dec'.storage = dec.storage
        /\ dec'.offs = Advance(dec.offs, 1, dec.storage)
        /\ data' = data /\ dpc' = "normalize"
    BY <1>1, <1>3, <1>4, <1>5 DEF DecNormalizeTurn, DecoderInv, DecoderFields
  <1>8. Readable'
    BY <1>2, <1>7, Constants DEF DecoderInv, Readable, Advance
  <1> QED
    BY <1>6, <1>7, <1>8 DEF DecoderInv

LEMMA DecoderNextInv == DecoderInv /\ [DecoderNext]_dvars => DecoderInv'
  <1> SUFFICES ASSUME DecoderInv, [DecoderNext]_dvars
               PROVE  DecoderInv'
    OBVIOUS
  <1>1. CASE \E s \in Symbols : Decode(s)
    BY <1>1, DecodeInv
  <1>2. CASE DecNormalizeTurn
    BY <1>2, DecTurnInv
  <1>3. CASE DecNormalizeEnds
    <2>1. /\ DecoderFields' /\ dec'.rng = dec.rng /\ dec'.val = dec.val
          /\ dec'.rem = dec.rem /\ dec'.offs = dec.offs /\ dec'.storage = dec.storage
      <3>1. CASE wanted > 0
        <4>1. PICK d, e : d = RawTaken(dec, RawOf(wanted)) /\ dec' = [d EXCEPT !.error = e]
          BY <1>3, <3>1 DEF DecNormalizeEnds
        <4> QED
          BY <4>1, RawKeeps DEF DecoderInv, DecoderFields
      <3>2. CASE ~(wanted > 0)
        BY <1>3, <3>2 DEF DecNormalizeEnds, DecoderInv, DecoderFields
      <3> QED
        BY <3>1, <3>2
    <2> QED
      BY <1>3, <2>1, ValueKept DEF DecNormalizeEnds, DecoderInv, Readable
  <1>4. CASE \E n \in 1..dec.storage : ShrinkStorage(n)
    <2>1. /\ DecoderFields' /\ dec'.rng = dec.rng /\ dec'.val = dec.val
          /\ dec'.rem = dec.rem /\ dec'.offs = dec.offs
          /\ dec'.storage \in Nat /\ dec'.storage <= dec.storage
      BY <1>4 DEF ShrinkStorage, DecoderInv, DecoderFields, Readable
    <2> QED
      BY <1>4, <2>1, ValueKept DEF ShrinkStorage, DecoderInv
  <1>5. CASE UNCHANGED dvars
    BY <1>5, ValueKept DEF dvars, DecoderInv, DecoderFields, Readable
  <1> QED
    BY <1>1, <1>2, <1>3, <1>4, <1>5 DEF DecoderNext

\* Whatever bytes a decoder is given and whatever is asked of it, the value stays
\* inside the range: no subtraction wraps, and no division is by zero (entdec.go).
THEOREM ValueAlwaysInRange == DecoderSpec => []ValueInRange
  <1>1. DecoderInv => ValueInRange
    BY DEF DecoderInv, Inside, ValueInRange
  <1> QED
    BY <1>1, DecoderInitInv, DecoderNextInv, PTL DEF DecoderSpec
=============================================================================
