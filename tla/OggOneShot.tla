----------------------------- MODULE OggOneShot -----------------------------
(***************************************************************************)
(* Decoding a whole stream into memory, oggopus/decode_oneshot.go: the     *)
(* decoder's WriteTo hands the samples of one packet after another to a    *)
(* writer that keeps a ceiling.  Sizes are machine words up to MaxInt.     *)
(***************************************************************************)
EXTENDS Integers, TLAPS

CONSTANTS
    MaxInt,       \* the largest int
    PieceSizes,   \* bytes a packet decodes to; none if all were dropped
    MaxPieces     \* packets of a stream

ASSUME OneShotAssumption ==
    /\ MaxInt \in Nat \ {0} /\ MaxPieces \in Nat
    /\ PieceSizes \subseteq 0..MaxInt

VARIABLES
    call,      \* the ceiling asked for and where the call is: "idle", "run", "ok", "failed"
    written,   \* n, the bytes the writer counted
    sink,      \* the bytes in the buffer
    decoded,   \* history: the bytes decoded so far
    pieces     \* history: in how many packets

oneShotVars == <<call, written, sink, decoded, pieces>>

Words == (-MaxInt - 1)..MaxInt

\* What is left of the sum or difference of two words.
Wrap(x) ==
    IF x > MaxInt THEN x - 2 * MaxInt - 2
    ELSE IF x < -MaxInt - 1 THEN x + 2 * MaxInt + 2 ELSE x

\* Mutant of OverCeiling: the sum is formed first.
OverCeilingSum(n, len, max) == Wrap(n + len) > max

\* No sum is formed that could pass the largest int.
OverCeiling(n, len, max) == n > Wrap(max - len)

\* DecodeInterleavedLimit of a stream whose headers are good.
DecodeAll(max) ==
    /\ call.at = "idle"
    /\ call' = [at |-> "run", max |-> max]
    /\ UNCHANGED <<written, sink, decoded, pieces>>

\* fill gives no samples, and WriteTo asks again.
SkipPiece ==
    /\ call.at = "run" /\ pieces < MaxPieces /\ 0 \in PieceSizes
    /\ pieces' = pieces + 1
    /\ UNCHANGED <<call, written, sink, decoded>>

\* One turn of WriteTo: the writer takes all of a packet or nothing, and then it ends.
\* Without a ceiling the buffer ends at the largest int all the same.
WritePiece(len) ==
    /\ call.at = "run" /\ pieces < MaxPieces /\ len > 0
    /\ sink + len \in Words \/ call.max > 0
    /\ decoded' = decoded + len /\ pieces' = pieces + 1
    /\ IF call.max > 0 /\ OverCeiling(written, len, call.max)
       THEN /\ call' = [call EXCEPT !.at = "failed"]
            /\ UNCHANGED <<written, sink>>
       ELSE /\ written' = Wrap(written + len)
            /\ sink' = sink + len
            /\ UNCHANGED call

\* The stream ends, or breaks off; the caller gets the buffer, or none of it.
EndStream(at) ==
    /\ call.at = "run"
    /\ call' = [call EXCEPT !.at = at]
    /\ UNCHANGED <<written, sink, decoded, pieces>>

OneShotInit ==
    /\ call = [at |-> "idle", max |-> 0]
    /\ written = 0 /\ sink = 0 /\ decoded = 0 /\ pieces = 0

OneShotNext ==
    \/ \E max \in Words : DecodeAll(max)
    \/ SkipPiece
    \/ \E len \in PieceSizes : WritePiece(len)
    \/ \E at \in {"ok", "failed"} : EndStream(at)

OneShotSpec == OneShotInit /\ [][OneShotNext]_oneShotVars

-----------------------------------------------------------------------------
(* Property.                                                                *)

\* The buffer never holds more than the ceiling, and a call that returns samples
\* returns all of the stream: a packet is never cut to fit, nor one left out and a
\* smaller one after it kept, and a ceiling near the largest int is kept as well.
CeilingHolds ==
    /\ call.max > 0 => sink <= call.max
    /\ written = sink
    /\ call.at \in {"run", "ok"} => sink = decoded

-----------------------------------------------------------------------------
(* The ceiling holds for every width of an int, every ceiling and every      *)
(* stream.                                                                   *)

\* The sizes stay machine words.
SizesOK ==
    /\ call.at \in {"idle", "run", "ok", "failed"} /\ call.max \in Words
    /\ call = [at |-> call.at, max |-> call.max]
    /\ sink \in 0..MaxInt /\ decoded \in Nat /\ pieces \in Nat
    /\ call.at = "idle" => sink = 0 /\ decoded = 0

CeilingInv == SizesOK /\ CeilingHolds

\* The comparison of cappedWriter.Write means what it says: neither side of it wraps.
LEMMA OverCeilingExact ==
    ASSUME NEW n \in 0..MaxInt, NEW len \in 0..MaxInt, NEW max \in 1..MaxInt
    PROVE  OverCeiling(n, len, max) <=> n + len > max
  BY OneShotAssumption DEF OverCeiling, Wrap

\* A piece is taken whole if it fits, and not at all if it does not.
LEMMA WriteKeeps ==
    ASSUME CeilingInv, NEW len \in PieceSizes, WritePiece(len)
    PROVE  CeilingInv'
<1>1. /\ len \in 0..MaxInt /\ MaxInt \in Nat
      /\ call.at = "run" /\ call.max \in Words /\ sink \in 0..MaxInt
      /\ written = sink /\ sink = decoded /\ decoded \in Nat /\ pieces \in Nat
      /\ call.max > 0 => call.max \in 1..MaxInt
      /\ call.max > 0 => sink <= call.max
  BY OneShotAssumption DEF CeilingInv, SizesOK, CeilingHolds, WritePiece, Words
<1>2. decoded' = decoded + len /\ pieces' = pieces + 1
  BY DEF WritePiece
<1>3. CASE call.max > 0 /\ OverCeiling(written, len, call.max)
  <2>1. call' = [call EXCEPT !.at = "failed"] /\ written' = written /\ sink' = sink
    BY <1>3 DEF WritePiece
  <2>2. call' = [at |-> "failed", max |-> call.max]
    BY <2>1 DEF CeilingInv, SizesOK
  <2>3. call'.at = "failed" /\ call'.max = call.max
    BY <2>2
  <2> QED
    BY <1>1, <1>2, <2>1, <2>2, <2>3 DEF CeilingInv, SizesOK, CeilingHolds
<1>4. CASE ~(call.max > 0 /\ OverCeiling(written, len, call.max))
  <2>1. call' = call /\ written' = Wrap(written + len) /\ sink' = sink + len
    BY <1>4 DEF WritePiece
  <2>2. sink + len <= MaxInt /\ (call.max > 0 => sink + len <= call.max)
    <3>1. CASE call.max > 0
      BY <1>1, <1>4, <3>1, OverCeilingExact
    <3>2. CASE ~(call.max > 0)
      BY <1>1, <3>2 DEF WritePiece, Words
    <3> QED
      BY <3>1, <3>2
  <2>3. written' = sink + len
    BY <1>1, <2>1, <2>2 DEF Wrap
  <2> QED
    BY <1>1, <1>2, <2>1, <2>2, <2>3 DEF CeilingInv, SizesOK, CeilingHolds
<1> QED
  BY <1>3, <1>4

LEMMA CeilingStep ==
    CeilingInv /\ [OneShotNext]_oneShotVars => CeilingInv'
<1> SUFFICES ASSUME CeilingInv, [OneShotNext]_oneShotVars
             PROVE  CeilingInv'
  OBVIOUS
<1>1. ASSUME NEW max \in Words, DecodeAll(max)
      PROVE  CeilingInv'
  <2>1. call'.at = "run" /\ call'.max = max /\ call' = [at |-> "run", max |-> max]
    BY <1>1 DEF DecodeAll
  <2> QED
    BY <1>1, <2>1, OneShotAssumption
       DEF CeilingInv, SizesOK, CeilingHolds, DecodeAll, Words
<1>2. CASE SkipPiece
  BY <1>2 DEF CeilingInv, SizesOK, CeilingHolds, SkipPiece
<1>3. ASSUME NEW len \in PieceSizes, WritePiece(len)
      PROVE  CeilingInv'
  BY <1>3, WriteKeeps
<1>4. ASSUME NEW at \in {"ok", "failed"}, EndStream(at)
      PROVE  CeilingInv'
  <2>1. call' = [at |-> at, max |-> call.max]
    BY <1>4 DEF EndStream, CeilingInv, SizesOK
  <2>2. call'.at = at /\ call'.max = call.max
    BY <2>1
  <2> QED
    BY <1>4, <2>1, <2>2 DEF CeilingInv, SizesOK, CeilingHolds, EndStream
<1>5. CASE UNCHANGED oneShotVars
  BY <1>5 DEF CeilingInv, SizesOK, CeilingHolds, oneShotVars
<1> QED
  BY <1>1, <1>2, <1>3, <1>4, <1>5 DEF OneShotNext

\* Whatever the ceiling and the stream, the buffer holds the whole of what was decoded
\* and never more than the ceiling (DecodeInterleavedLimit).
THEOREM CeilingAlwaysHolds == OneShotSpec => []CeilingHolds
<1>1. OneShotInit => CeilingInv
  BY OneShotAssumption DEF OneShotInit, CeilingInv, SizesOK, CeilingHolds, Words
<1>2. CeilingInv => CeilingHolds
  BY DEF CeilingInv
<1> QED
  BY <1>1, <1>2, CeilingStep, PTL DEF OneShotSpec
=============================================================================
