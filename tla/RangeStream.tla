----------------------------- MODULE RangeStream -----------------------------
(***************************************************************************)
(* A packet from the first symbol coded to the last decoded: the encoder,  *)
(* the trial encodings of quant_bands.go and bands.go with the bytes they  *)
(* splice, EncPatchInitialBits, EncDone, and the decoder over the buffer   *)
(* and whatever follows it in the packet (opus_decoder.go's redundancy).  *)
(* Bytes nobody coded are what follows an empty buffer.                    *)
(***************************************************************************)
EXTENDS RangeEncoder, RangeDecoder, SequencesExt, Bitwise

CONSTANTS
    Tails,        \* bytes that may follow the buffer in a packet, as Inputs
    Patches,      \* [val, bits] EncPatchInitialBits may be called with
    Trials,       \* numbers of symbols after which a caller tries two encodings
    MaxSymbols,   \* bound: symbols in a packet
    MaxTrial,     \* bound: symbols in a packet when a trial ends
    MaxTell       \* bound: bits used after which nothing more is decoded

VARIABLES
    script,       \* history: the symbols the buffer holds
    tells,        \* history: Tell after each of them
    flush,        \* EncDone: end and l
    saved,        \* the Encoder copied before a trial, or NoCopy
    kept,         \* the trial's Encoder, symbols and bytes, or NoCopy
    at            \* symbols decoded

streamVars == <<script, tells, flush, saved, kept, at>>
NoCopy == [copy |-> FALSE]

StreamInit ==
    /\ EncoderInit
    /\ data = <<>> /\ dec = Fresh(<<>>, 0) /\ dpc = "idle" /\ wanted = 0 /\ got = 0
    /\ script = <<>> /\ tells = <<>> /\ flush = [end |-> 0, l |-> 0]
    /\ saved = NoCopy /\ kept = NoCopy /\ at = 0

\* Tell is noted when a coding call returns.
NoteTell == tells' = IF pc' = "idle" THEN Append(tells, Tell(enc')) ELSE tells

-----------------------------------------------------------------------------
(* Coding                                                                   *)

Silent == script # <<>> /\ Last(script).op = "silence"

CodeSymbol ==
    /\ Len(script) < (IF saved = NoCopy THEN MaxSymbols ELSE MaxTrial) /\ ~Silent
    /\ \E s \in Symbols : Code(s) /\ script' = Append(script, s)
    /\ NoteTell
    /\ UNCHANGED <<dvars, flush, saved, kept, at>>

Normalize ==
    /\ NormalizeTurn \/ NormalizeEnds
    /\ NoteTell
    /\ UNCHANGED <<dvars, script, flush, saved, kept, at>>

\* EncShrink comes before SetTellForSilence (celt_encoder_encode.go:437-450).
Shrink ==
    /\ saved = NoCopy /\ ~Silent
    /\ \E size \in Storages : size < enc.storage /\ EncShrink(size)
    /\ UNCHANGED <<dvars, streamVars>>

\* *enc copied before a trial; the copy shares the buffer.
Snapshot ==
    /\ pc = "idle" /\ saved = NoCopy /\ ~Silent /\ Len(script) \in Trials
    /\ saved' = [copy |-> TRUE, enc |-> enc, n |-> Len(script)]
    /\ UNCHANGED <<evars, dvars, script, tells, flush, kept, at>>

\* The first trial and its bytes are put by; the second starts from the copy.
Restart ==
    /\ pc = "idle" /\ saved # NoCopy /\ kept = NoCopy /\ Len(script) > saved.n
    /\ kept' = [copy |-> TRUE, enc |-> enc, bytes |-> buf, script |-> script, tells |-> tells]
    /\ enc' = saved.enc
    /\ script' = SubSeq(script, 1, saved.n) /\ tells' = SubSeq(tells, 1, saved.n)
    /\ UNCHANGED <<buf, pc, pending, dvars, flush, saved, at>>

\* Mutant of Splice: the bytes of the second trial stay.
NoSplice(from, to) == buf

\* The bytes the first trial left in from..to go back.
Splice(from, to) == [i \in DOMAIN buf |-> IF i \in from..to THEN kept.bytes[i] ELSE buf[i]]

\* The first trial wins.  quantCoarseEnergy, which codes no raw bits, puts back
\* what is between the two offsets; quantAllBands everything from the first on.
RawFree(s) == \A i \in DOMAIN s : s[i].op \notin {"raw", "uint", "silence"}
KeepFirst ==
    /\ pc = "idle" /\ kept # NoCopy
    /\ enc' = kept.enc /\ script' = kept.script /\ tells' = kept.tells
    /\ \/ buf' = Splice(saved.enc.offs, enc.storage - 1)
       \/ /\ RawFree(SubSeq(script, saved.n + 1, Len(script)))
          /\ RawFree(SubSeq(kept.script, saved.n + 1, Len(kept.script)))
          /\ buf' = Splice(saved.enc.offs, kept.enc.offs - 1)
    /\ saved' = NoCopy /\ kept' = NoCopy
    /\ UNCHANGED <<pc, pending, dvars, flush, at>>

\* EncPatchInitialBits, on a first symbol that was coded to be patched: the first
\* of 2^bits equal parts.  An encoder in error has lost its packet, and is left alone.
PatchedDigit(x, val, bits) == (x % 2^(SymBits - bits)) + val * 2^(SymBits - bits)

EncPatchInitialBits(val, bits) ==
    CASE enc.offs > 0 ->
            /\ buf' = [buf EXCEPT ![0] = PatchedDigit(@, val, bits)]
            /\ UNCHANGED enc
      [] enc.offs = 0 /\ enc.rem >= 0 ->
            enc' = [enc EXCEPT !.rem = PatchedDigit(@, val, bits)] /\ UNCHANGED buf
      [] enc.offs = 0 /\ enc.rem < 0 /\ enc.rng <= Top \div 2^bits ->
            /\ enc' = [enc EXCEPT !.val = (@ % (Top \div 2^bits)) + val * (Top \div 2^bits)]
            /\ UNCHANGED buf
      [] OTHER -> enc' = [enc EXCEPT !.error = TRUE] /\ UNCHANGED buf

Patch ==
    /\ pc = "idle" /\ saved = NoCopy /\ script # <<>> /\ ~enc.error
    /\ \E p \in Patches :
          /\ script[1] = [op |-> "interval", fl |-> 0, fh |-> 1, ft |-> 2^p.bits]
          /\ EncPatchInitialBits(p.val, p.bits)
          /\ script' = [script EXCEPT ![1].fl = p.val, ![1].fh = p.val + 1]
    /\ UNCHANGED <<pc, pending, dvars, tells, flush, saved, kept, at>>

-----------------------------------------------------------------------------
(* EncDone                                                                  *)

\* The shortest value that decodes correctly whatever follows it, and its bits.
Shortest(val, rng) ==
    LET Rounded(l) == LET msk == (Top - 1) \div 2^l
                      IN  [end |-> ((val + msk) \div (msk + 1)) * (msk + 1),
                           free |-> msk, l |-> l]
        first == Rounded(CodeBits - Ilog(rng))
        best == IF first.end + first.free >= val + rng THEN Rounded(first.l + 1) ELSE first
    IN  [end |-> best.end, l |-> best.l]

EncDone ==
    /\ pc = "idle"
    /\ flush' = Shortest(enc.val, enc.rng)
    /\ pc' = "flush"
    /\ saved' = NoCopy /\ kept' = NoCopy
    /\ UNCHANGED <<enc, buf, pending, dvars, script, tells, at>>

FlushTurn ==
    /\ pc = "flush" /\ flush.l > 0
    /\ enc' = CarryOut(enc, flush.end \div Bot)
    /\ buf' = CarriedInto(buf, enc, flush.end \div Bot)
    /\ flush' = [end |-> (flush.end % Bot) * Sym, l |-> flush.l - SymBits]
    /\ UNCHANGED <<pc, pending, dvars, script, tells, saved, kept, at>>

Cleared(b, e) ==
    [i \in DOMAIN b |-> IF i \in e.offs..(e.storage - e.endOffs - 1) THEN 0 ELSE b[i]]

\* The bits that do not fill a byte go into the last byte, of which the range coder
\* leaves `spare` bits free if there is no other.
LastBits(b, e, spare) ==
    LET full == e.offs + e.endOffs >= e.storage /\ spare < e.nend
        bits == IF full THEN e.window % 2^spare ELSE e.window
    IN  CASE e.nend = 0 -> [buf |-> b, error |-> FALSE]
          [] e.nend > 0 /\ e.endOffs >= e.storage -> [buf |-> b, error |-> TRUE]
          [] OTHER -> [buf |-> [b EXCEPT ![e.storage - e.endOffs - 1] = @ | bits],
                       error |-> full]

Finish ==
    /\ pc = "flush" /\ flush.l <= 0
    /\ \E held \in {enc.rem >= 0 \/ enc.ext > 0} :
       \E e1 \in {IF held THEN CarryOut(enc, 0) ELSE enc},
          b1 \in {IF held THEN CarriedInto(buf, enc, 0) ELSE buf} :
       \E e2 \in {RawWritten(e1, e1.nend \div SymBits)},
          b2 \in {RawInto(b1, e1, e1.nend \div SymBits)} :
       \E end \in {LastBits(Cleared(b2, e2), e2, -flush.l)} :
          IF e2.error THEN enc' = e2 /\ buf' = b2
          ELSE enc' = [e2 EXCEPT !.error = end.error] /\ buf' = end.buf
    /\ pc' = "done"
    /\ UNCHANGED <<pending, dvars, streamVars>>

-----------------------------------------------------------------------------
(* Decoding                                                                 *)

Packet(tail) ==
    [i \in 0..(enc.storage + Len(tail) - 1) |->
        IF i < enc.storage THEN buf[i] ELSE tail[i - enc.storage + 1]]

StartDecoding ==
    /\ pc = "done" /\ ~enc.error
    /\ \E tail \in (IF script = <<>> THEN Inputs ELSE Tails) :
          /\ data' = Packet(tail)
          /\ dec' = Fresh(data', enc.storage + Len(tail))
    /\ dpc' = "normalize" /\ wanted' = 0 /\ got' = 0
    /\ pc' = "decode"
    /\ UNCHANGED <<enc, buf, pending, streamVars>>

\* ShrinkStorage comes before raw bits are read.
MayDecode(s) == s.op \notin {"raw", "uint", "silence"} \/ dec.storage = enc.storage

ShrinkToBuffer ==
    /\ pc = "decode" /\ at < Len(script) /\ ~MayDecode(script[at + 1])
    /\ ShrinkStorage(dec.storage - enc.storage)
    /\ UNCHANGED <<evars, streamVars>>

DecodeSymbol ==
    /\ pc = "decode" /\ at < Len(script)
    /\ MayDecode(script[at + 1])
    /\ Decode(script[at + 1])
    /\ at' = at + 1
    /\ UNCHANGED <<evars, script, tells, flush, saved, kept>>

\* What nobody coded is decoded as anything: a damaged packet, or one read beyond
\* its end.
DecodeOn ==
    /\ pc = "decode" /\ at >= Len(script) /\ Tell(dec) < MaxTell
    /\ \E s \in Symbols : s.op # "silence" /\ Decode(s)
    /\ at' = Len(script) + 1
    /\ UNCHANGED <<evars, script, tells, flush, saved, kept>>

DecNormalize ==
    /\ pc = "decode"
    /\ DecNormalizeTurn \/ DecNormalizeEnds
    /\ UNCHANGED <<evars, streamVars>>

StreamNext ==
    \/ CodeSymbol \/ Normalize \/ Shrink \/ Snapshot \/ Restart \/ KeepFirst \/ Patch
    \/ EncDone \/ FlushTurn \/ Finish
    \/ StartDecoding \/ ShrinkToBuffer \/ DecodeSymbol \/ DecodeOn \/ DecNormalize

StreamSpec == StreamInit /\ [][StreamNext]_<<evars, dvars, streamVars>>

-----------------------------------------------------------------------------
(* Properties.                                                              *)

Decoded == pc = "decode" /\ dpc = "idle" /\ at \in 1..Len(script)

\* What got says of the symbol s.
Is(s, value) ==
    CASE s.op = "interval" -> s.fl <= value /\ value < s.fh
      [] s.op = "bit" -> value = s.bit
      [] s.op = "icdf" -> value = s.index
      [] s.op = "uint" -> value = s.value
      [] s.op = "raw" -> value = s.low
      [] OTHER -> TRUE

SymbolsDecoded == Decoded => Is(script[at], got) /\ Tell(dec) = tells[at]

FitsAsTold ==
    (pc \in {"flush", "done"} /\ Tell(enc) <= enc.storage * SymBits
        /\ script # <<>> /\ ~Silent) => ~enc.error

\* A packet that Tell says fits does fit: EncDone finds no error if as many whole
\* bits as Tell reports are in the buffer (the budget checks of internal/celt).  And a
\* packet whose encoder met no error decodes to the symbols coded, whatever
\* carries ran through it, whatever trials were made and given up in the same
\* buffer, whatever size it was shrunk to, and whatever follows it (EncDone's
\* comment: "decoded correctly regardless of the bits that follow"); and both sides
\* count the same bits after every symbol, so that every budget check is taken the
\* same way (ecTell's comment).
RoundTrip == FitsAsTold /\ SymbolsDecoded
=============================================================================
