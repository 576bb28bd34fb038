----------------------------- MODULE RangeEncoder -----------------------------
(***************************************************************************)
(* The range encoder of internal/rangecoding/entenc.go up to EncDone, one  *)
(* step for each turn of enc_normalize.  Range-coded digits are written    *)
(* from the front of the buffer, raw bits from its end.                    *)
(***************************************************************************)
EXTENDS RangeCoder

CONSTANT Storages      \* lengths of the buffers Init is given

VARIABLES
    enc,       \* the Encoder's fields, but for the buffer
    buf,       \* the buffer, a function of 0..(length - 1)
    pc,        \* "idle", or where EncDone or a coding call is
    pending    \* EncUint's raw bits, to be written when enc_normalize is done

evars == <<enc, buf, pc, pending>>

NoBits == [bits |-> 0, low |-> 0]

EncoderInit ==
    /\ \E n \in Storages :
          /\ enc = [rng |-> Top, val |-> 0, rem |-> -1, ext |-> 0,
                    offs |-> 0, endOffs |-> 0, storage |-> n,
                    window |-> 0, nend |-> 0, nbits |-> CodeBits + 1, error |-> FALSE]
          /\ buf = [i \in 0..(n - 1) |-> SymMax]
    /\ pc = "idle" /\ pending = NoBits

-----------------------------------------------------------------------------
(* write_byte, write_byte_at_end, enc_carry_out                             *)

Room(e) == e.storage - e.offs - e.endOffs
Least(m, n) == IF m <= n THEN m ELSE n

\* What enc_carry_out(c) writes, if c ends the run of digits that could pass on
\* a carry: the digit before the run, and the run.
Resolved(e) == e.ext + (IF e.rem >= 0 THEN 1 ELSE 0)
Digit(e, c, i) ==
    IF i = 0 /\ e.rem >= 0 THEN (e.rem + c \div Sym) % Sym
                           ELSE (SymMax + c \div Sym) % Sym

\* Mutant of CarryOut: a digit SymMax is not held back.
CarryAtOnce(e, c) ==
    [e EXCEPT !.offs = @ + Least(Resolved(e), Room(e)),
              !.error = @ \/ Resolved(e) > Room(e),
              !.ext = 0, !.rem = c % Sym]

CarryOut(e, c) ==
    IF c = SymMax THEN [e EXCEPT !.ext = @ + 1]
    ELSE [e EXCEPT !.offs = @ + Least(Resolved(e), Room(e)),
                   !.error = @ \/ Resolved(e) > Room(e),
                   !.ext = 0, !.rem = c % Sym]

CarriedInto(b, e, c) ==
    IF c = SymMax THEN b
    ELSE [i \in DOMAIN b |->
             IF i \in e.offs..(e.offs + Least(Resolved(e), Room(e)) - 1)
             THEN Digit(e, c, i - e.offs) ELSE b[i]]

\* The digits of the window that are written at the end once n bits are to go.
WindowDigit(w, i) == (w \div Sym^i) % Sym
RawWritten(e, n) == [e EXCEPT !.endOffs = @ + Least(n, Room(e)),
                              !.error = @ \/ n > Room(e),
                              !.window = @ \div Sym^n,
                              !.nend = @ - n * SymBits]
RawInto(b, e, n) ==
    [i \in DOMAIN b |->
        IF i \in (e.storage - e.endOffs - Least(n, Room(e)))..(e.storage - e.endOffs - 1)
        THEN WindowDigit(e.window, e.storage - e.endOffs - 1 - i) ELSE b[i]]

-----------------------------------------------------------------------------
(* The coding calls: the register is narrowed, then normalized              *)

Narrow(val, rng) ==
    /\ enc' = [enc EXCEPT !.val = val, !.rng = rng]
    /\ pc' = "normalize"
    /\ UNCHANGED buf

Encode(fl, fh, ft) ==
    LET r == enc.rng \div ft
    IN  IF fl > 0 THEN Narrow(enc.val + (enc.rng - r * (ft - fl)), r * (fh - fl))
                  ELSE Narrow(enc.val, enc.rng - r * (ft - fh))

EncBitLogp(bit, scale) ==
    LET s == enc.rng \div scale
    IN  IF bit # 0 THEN Narrow(enc.val + (enc.rng - s), s)
                   ELSE Narrow(enc.val, enc.rng - s)

EncIcdf(s, icdf, scale) ==
    LET r == enc.rng \div scale
    IN  IF s > 0 THEN Narrow(enc.val + (enc.rng - r * icdf[s - 1]),
                             r * (icdf[s - 1] - icdf[s]))
                 ELSE Narrow(enc.val, enc.rng - r * icdf[s])

EncUint(value, count) ==
    /\ LET high == value \div Part(count) IN Encode(high, high + 1, Parts(count))
    /\ pending' = [bits |-> RawOf(count), low |-> value % Part(count)]

\* EncBits(low, bits).
Flushes(e, bits) == IF e.nend + bits > WindowSize THEN e.nend \div SymBits ELSE 0
AddBits(e, low, bits) ==
    [e EXCEPT !.window = @ + low * 2^e.nend, !.nend = @ + bits, !.nbits = @ + bits]
EncBits(low, bits) ==
    LET n == Flushes(enc, bits)
    IN  enc' = AddBits(RawWritten(enc, n), low, bits) /\ buf' = RawInto(buf, enc, n)

\* SetTellForSilence(storage * 8), after which nothing is coded.
SetTellForSilence ==
    enc' = [enc EXCEPT !.nbits = @ + enc.storage * SymBits - Tell(enc)]

Code(s) ==
    /\ pc = "idle"
    /\ \/ s.op = "interval" /\ Encode(s.fl, s.fh, s.ft) /\ UNCHANGED pending
       \/ s.op = "bit" /\ EncBitLogp(s.bit, s.scale) /\ UNCHANGED pending
       \/ s.op = "icdf" /\ EncIcdf(s.index, s.icdf, s.scale) /\ UNCHANGED pending
       \/ s.op = "uint" /\ EncUint(s.value, s.count)
       \/ s.op = "raw" /\ EncBits(s.low, s.bits) /\ UNCHANGED <<pc, pending>>
       \/ s.op = "silence" /\ SetTellForSilence /\ UNCHANGED <<buf, pc, pending>>

NextVal(val) == (val % Bot) * Sym

\* A turn of enc_normalize.
NormalizeTurn ==
    /\ pc = "normalize" /\ enc.rng <= Bot
    /\ LET c == enc.val \div Bot
       IN  /\ enc' = [CarryOut(enc, c) EXCEPT !.val = NextVal(@),
                                              !.rng = @ * Sym, !.nbits = @ + SymBits]
           /\ buf' = CarriedInto(buf, enc, c)
    /\ UNCHANGED <<pc, pending>>

\* enc_normalize is done; EncUint goes on to its raw bits.
NormalizeEnds ==
    /\ pc = "normalize" /\ enc.rng > Bot
    /\ pc' = "idle" /\ pending' = NoBits
    /\ IF pending.bits > 0 THEN EncBits(pending.low, pending.bits)
                           ELSE UNCHANGED <<enc, buf>>

\* EncShrink(size): the raw bits move to the end of the new size.
EncShrink(size) ==
    /\ pc = "idle" /\ size <= enc.storage /\ enc.offs + enc.endOffs <= size
    /\ enc' = [enc EXCEPT !.storage = size]
    /\ buf' = [i \in DOMAIN buf |->
                  IF i \in (size - enc.endOffs)..(size - 1)
                  THEN buf[i + enc.storage - size] ELSE buf[i]]
    /\ UNCHANGED <<pc, pending>>

EncoderNext ==
    \/ \E s \in Symbols : Code(s)
    \/ NormalizeTurn
    \/ NormalizeEnds
    \/ \E size \in Storages : EncShrink(size)

EncoderSpec == EncoderInit /\ [][EncoderNext]_evars

-----------------------------------------------------------------------------
(* Properties.                                                              *)

\* A carry out of the register always meets a digit that can take it: the digit
\* held back exists and is not SymMax, so it does not wrap, and the digits already
\* in the buffer need never change (enc_carry_out; byte(rem + carry) is exact).
CarryAbsorbed ==
    (pc = "normalize" /\ enc.rng <= Bot /\ enc.val >= Top) => enc.rem \in 0..(SymMax - 1)

\* The registers keep their 32 bits: the low end plus the range stays below twice
\* the top, so that no uint32 sum wraps, EncDone's comparison with it included, and
\* the range is never empty.
RegistersFit == enc.rng \in 1..Top /\ enc.val \in Nat /\ enc.val + enc.rng < 2 * Top

\* Both hold of any calls, in any order (Encode, enc_normalize).
RegistersSafe == CarryAbsorbed /\ RegistersFit
=============================================================================
