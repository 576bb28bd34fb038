----------------------------- MODULE RangeDecoder -----------------------------
(***************************************************************************)
(* The range decoder of internal/rangecoding/entdec.go over any bytes at   *)
(* all, one step for each turn of dec_normalize.  What a call returns is   *)
(* in `got` until the next call.                                           *)
(***************************************************************************)
EXTENDS RangeCoder

CONSTANT Inputs        \* bytes a decoder may find, as sequences of digits
ASSUME InputsAssumption == Inputs \subseteq Seq(0..SymMax)

VARIABLES
    dec,       \* the Decoder's fields, but for the buffer
    data,      \* the buffer, a function of 0..(length - 1)
    dpc,       \* "idle" or "normalize"
    wanted,    \* DecUint: the integers to choose from, while its raw bits are to come
    got        \* what the call returned, or is about to add raw bits to

dvars == <<dec, data, dpc, wanted, got>>

\* read_byte and read_byte_from_end: zeros behind either end.
ByteAt(d, i) == IF i < d.storage THEN data[i] ELSE 0
EndByte(d, i) == IF i < d.storage THEN data[d.storage - 1 - i] ELSE 0
Lower(m, n) == IF m <= n THEN m ELSE n

\* An offset after n more bytes: it stops at the storage, and stays where it is if
\* ShrinkStorage has put it beyond.
Advance(at, n, storage) == IF at + n <= storage THEN at + n
                           ELSE IF at <= storage THEN storage ELSE at

\* Init over data, up to its dec_normalize.
Fresh(bytes, n) ==
    LET first == IF n > 0 THEN bytes[0] ELSE 0
    IN  [rng |-> 2^CodeExtra, val |-> 2^CodeExtra - 1 - first \div Drop, rem |-> first,
         offs |-> Lower(1, n), endOffs |-> 0, storage |-> n, window |-> 0, nend |-> 0,
         nbits |-> CodeBits + 1 - ((CodeBits - CodeExtra) \div SymBits) * SymBits,
         error |-> FALSE]

\* The digit dec_normalize takes in: the rest of the last byte read and the
\* beginning of the next.
NextDigit(d) == ((d.rem * Sym + ByteAt(d, d.offs)) \div Drop) % Sym

DecNormalizeTurn ==
    /\ dpc = "normalize" /\ dec.rng <= Bot
    /\ dec' = [dec EXCEPT !.nbits = @ + SymBits, !.rng = @ * Sym,
                          !.rem = ByteAt(dec, dec.offs),
                          !.offs = Advance(@, 1, dec.storage),
                          !.val = (@ * Sym + (SymMax - NextDigit(dec))) % Top]
    /\ UNCHANGED <<data, dpc, wanted, got>>

-----------------------------------------------------------------------------
(* The decoding calls                                                       *)

Take(symbol, val, rng) ==
    /\ dec' = [dec EXCEPT !.val = val, !.rng = rng]
    /\ got' = symbol
    /\ dpc' = "normalize"
    /\ UNCHANGED data

\* Decode(ft), DecodeBin: a frequency inside the symbol's interval.
Frequency(ft) == ft - Lower(dec.val \div (dec.rng \div ft) + 1, ft)

\* Mutant of Update: the first symbol does not get the remainder of the division.
UpdateEven(symbol, fl, fh, ft) ==
    LET ext == dec.rng \div ft IN Take(symbol, dec.val - ext * (ft - fh), ext * (fh - fl))

\* DecUpdate(fl, fh, ft).
Update(symbol, fl, fh, ft) ==
    LET ext == dec.rng \div ft
        s == ext * (ft - fh)
    IN  Take(symbol, dec.val - s, IF fl > 0 THEN ext * (fh - fl) ELSE dec.rng - s)

\* A caller that knows the interval of each frequency: here [fl, fh) is one symbol,
\* and every other frequency one of its own.
DecodeInterval(fl, fh, ft) ==
    LET f == Frequency(ft)
    IN  IF fl <= f /\ f < fh THEN Update(f, fl, fh, ft) ELSE Update(f, f, f + 1, ft)

DecBitLogp(scale) ==
    LET s == dec.rng \div scale
    IN  IF dec.val < s THEN Take(1, dec.val, s) ELSE Take(0, dec.val - s, dec.rng - s)

DecIcdf(icdf, last, scale) ==
    LET r == dec.rng \div scale
    IN  \E i \in 0..last :
            /\ dec.val >= r * icdf[i] /\ \A j \in 0..(i - 1) : dec.val < r * icdf[j]
            /\ Take(i, dec.val - r * icdf[i],
                    (IF i = 0 THEN dec.rng ELSE r * icdf[i - 1]) - r * icdf[i])

DecUint(count) ==
    LET s == Frequency(Parts(count))
    IN  /\ Update(s, s, s + 1, Parts(count))
        /\ wanted' = IF RawOf(count) > 0 THEN count ELSE 0

\* DecBits: bytes are taken in until the window is nearly full.
Refills(d, bits) ==
    IF d.nend >= bits THEN 0 ELSE (WindowSize - SymBits - d.nend) \div SymBits + 1
Refilled(d, n) == [d EXCEPT !.nend = @ + n * SymBits, !.endOffs = Advance(@, n, d.storage)]
Window(d, n) ==
    LET with[i \in 0..n] == IF i = 0 THEN d.window
                            ELSE with[i - 1] + EndByte(d, d.endOffs + i - 1)
                                               * 2^(d.nend + (i - 1) * SymBits)
    IN  with[n]
RawValue(d, bits) == Window(d, Refills(d, bits)) % 2^bits
RawTaken(d, bits) ==
    [Refilled(d, Refills(d, bits)) EXCEPT
        !.window = Window(d, Refills(d, bits)) \div 2^bits,
        !.nend = @ - bits, !.nbits = @ + bits]

DecBits(bits) == dec' = RawTaken(dec, bits) /\ got' = RawValue(dec, bits)

DecSilence == dec' = [dec EXCEPT !.nbits = @ + dec.storage * SymBits - Tell(dec)]

Decode(s) ==
    /\ dpc = "idle"
    /\ \/ s.op = "interval" /\ DecodeInterval(s.fl, s.fh, s.ft) /\ UNCHANGED wanted
       \/ s.op = "bit" /\ DecBitLogp(s.scale) /\ UNCHANGED wanted
       \/ s.op = "icdf" /\ DecIcdf(s.icdf, s.last, s.scale) /\ UNCHANGED wanted
       \/ s.op = "uint" /\ DecUint(s.count)
       \/ s.op = "raw" /\ DecBits(s.bits) /\ UNCHANGED <<data, dpc, wanted>>
       \/ s.op = "silence" /\ DecSilence /\ UNCHANGED <<data, dpc, wanted, got>>

\* An integer that cannot have been coded is an error, and the largest one.
Clipped(t, count) == IF t <= count - 1 THEN t ELSE count - 1

DecNormalizeEnds ==
    /\ dpc = "normalize" /\ dec.rng > Bot
    /\ dpc' = "idle" /\ wanted' = 0
    /\ IF wanted > 0
       THEN LET t == got * Part(wanted) + RawValue(dec, RawOf(wanted))
            IN  /\ got' = Clipped(t, wanted)
                /\ dec' = [RawTaken(dec, RawOf(wanted)) EXCEPT
                              !.error = @ \/ t > wanted - 1]
       ELSE UNCHANGED <<dec, got>>
    /\ UNCHANGED data

Bytes(s) == [i \in 0..(Len(s) - 1) |-> s[i + 1]]

DecoderInit ==
    /\ \E s \in Inputs : data = Bytes(s) /\ dec = Fresh(data, Len(s))
    /\ dpc = "normalize" /\ wanted = 0 /\ got = 0

\* ShrinkStorage(n): opus_decoder.go takes the redundant frame off the packet.
ShrinkStorage(n) ==
    /\ dpc = "idle" /\ n <= dec.storage
    /\ dec' = [dec EXCEPT !.storage = @ - n]
    /\ UNCHANGED <<data, dpc, wanted, got>>

DecoderNext ==
    \/ \E s \in Symbols : Decode(s)
    \/ DecNormalizeTurn
    \/ DecNormalizeEnds
    \/ \E n \in 1..dec.storage : ShrinkStorage(n)

DecoderSpec == DecoderInit /\ [][DecoderNext]_dvars

-----------------------------------------------------------------------------
(* Properties.                                                              *)

\* Whatever the bytes and whatever is asked for, the value stays inside the range:
\* no subtraction in DecUpdate, DecBitLogp or DecIcdf wraps below zero, the
\* division in Decode has a divisor, and the mask of dec_normalize cuts nothing.
ValueInRange == dec.rng \in 1..Top /\ dec.val \in 0..(dec.rng - 1)
=============================================================================
