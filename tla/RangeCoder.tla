------------------------------ MODULE RangeCoder ------------------------------
(***************************************************************************)
(* What the encoder and the decoder of internal/rangecoding share:         *)
(* entcode.go, and the symbols a caller may code.  The widths are          *)
(* parameters: the code has SymBits = 8, CodeBits = 32, WindowSize = 32    *)
(* and UintBits = 8, and TLC's integers would not hold its registers.      *)
(***************************************************************************)
EXTENDS Integers, Sequences

CONSTANTS
    SymBits, CodeBits, WindowSize, UintBits,   \* ecSymBits, ecCodeBits, ...
    Sym, Bot,                                  \* 1 << ecSymBits, ecCodeBot
    Symbols        \* what may be coded, a set of records (see below)

SymMax == Sym - 1
Top == Sym * Bot

\* ecCodeExtra, and what is shifted out of a digit to leave that many bits.
CodeExtra == ((CodeBits - 2) % SymBits) + 1
Drop == 2^(SymBits - CodeExtra)

\* ecIlog: the number of bits of n.
Ilog(n) == CHOOSE l \in 0..CodeBits : n < 2^l /\ (n > 0 => 2^(l - 1) <= n)

\* ecTell.
Tell(c) == c.nbits - Ilog(c.rng)

\* The raw bits of an integer below count, and the parts its range-coded half
\* tells apart (EncUint, DecUint).
RawOf(count) ==
    LET b == Ilog(count - 1) - UintBits IN IF b > 0 THEN b ELSE 0
Part(count) == 2^RawOf(count)
Parts(count) == (count - 1) \div Part(count) + 1

(***************************************************************************)
(* A symbol: an interval of frequencies (Encode, EncodeBin), a bit         *)
(* (EncBitLogp; scale is 1 << _logp), an index into an inverse cumulative  *)
(* table (EncIcdf; scale is 1 << _ftb), an integer (EncUint), raw bits     *)
(* (EncBits), the jump of SetTellForSilence.                               *)
(***************************************************************************)
IsInterval(s) == s.op = "interval" /\ s.fl \in Nat /\ s.fh \in (s.fl + 1)..s.ft /\ s.ft \in 1..Bot
IsBit(s) == s.op = "bit" /\ s.bit \in {0, 1} /\ s.scale \in 2..Bot
IsIcdf(s) ==
    /\ s.op = "icdf" /\ s.scale \in 2..Bot
    /\ s.last \in Nat /\ s.icdf \in [0..s.last -> 0..(s.scale - 1)] /\ s.icdf[s.last] = 0
    /\ s.index \in 0..s.last
    /\ s.index > 0 => s.icdf[s.index] < s.icdf[s.index - 1]
IsUint(s) ==
    /\ s.op = "uint" /\ s.count \in Nat /\ s.value \in 0..(s.count - 1)
    /\ Part(s.count) \in Nat \ {0} /\ Parts(s.count) \in 2..Bot
IsRaw(s) == s.op = "raw" /\ s.bits \in 1..(WindowSize - SymBits + 1) /\ s.low \in 0..(2^s.bits - 1)
IsSilence(s) == s.op = "silence"

ASSUME RangeAssumption ==
    /\ Sym \in Nat \ {0, 1} /\ Sym = 2^SymBits
    /\ Bot \in Nat \ {0, 1} /\ Bot = 2^(CodeBits - SymBits - 1)
    /\ Drop \in Nat \ {0} /\ 2^CodeExtra \in Nat \ {0} /\ Sym = Drop * 2^CodeExtra
    /\ \A s \in Symbols :
          IsInterval(s) \/ IsBit(s) \/ IsIcdf(s) \/ IsUint(s) \/ IsRaw(s) \/ IsSilence(s)
=============================================================================
