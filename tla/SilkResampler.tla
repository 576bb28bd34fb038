--------------------------- MODULE SilkResampler ---------------------------
(***************************************************************************)
(* The resampler that takes SILK's 8, 12 or 16 kHz to the rate of the      *)
(* decoder (internal/silk/resampler.go, resampler_private.go): the samples *)
(* of a stream arrive in frames, go through a delay of under 1 ms and a    *)
(* filter with memory, and are interpolated in batches of 10 ms that each  *)
(* begin to count anew.  A sample is modelled by its place in the stream,  *)
(* a sample of the output by the first of the filtered samples it is made  *)
(* of and by the phase of its coefficients.  Rates are in kHz.             *)
(***************************************************************************)
EXTENDS Integers, SequencesExt

CONSTANTS
    FrameLengths,     \* lengths of the frames fed, in ms
    MaxMs       \* how much of a stream is fed

VARIABLES
    rs,         \* the resampler's state
    fed, made,  \* history: samples in and out so far, but for the last frame's
    resampled   \* the last frame's output

resamplerVars == <<rs, fed, made, resampled>>

delayMatrixDec == [
    in8 |-> <<4, 0, 2, 0, 0>>, in12 |-> <<0, 9, 4, 7, 4>>, in16 |-> <<0, 3, 12, 7, 7>>]

InputDelay(i, o) ==
    LET row == IF i = 8 THEN delayMatrixDec.in8
               ELSE IF i = 12 THEN delayMatrixDec.in12 ELSE delayMatrixDec.in16
        rateID == CHOOSE k \in 1..5 : <<8, 12, 16, 24, 48>>[k] = o
    IN row[rateID]

Method(i, o) ==
    IF o = 2 * i THEN "up2" ELSE IF o > i THEN "iir_fir"
    ELSE IF o < i THEN "down_fir" ELSE "copy"

\* Samples of the buffer each output is made of, and phases between two samples.
FIROrder(i, o) == IF Method(i, o) = "iir_fir" THEN 8 ELSE IF o = 8 /\ i = 16 THEN 24 ELSE 18
Phases(i, o) ==
    IF Method(i, o) = "iir_fir" THEN 12
    ELSE IF 4 * o = 3 * i THEN 3 ELSE IF 3 * o = 2 * i THEN 2 ELSE 1

\* The interpolating methods but the down-sampling first double the rate.
Doubled(i, o) == IF Method(i, o) = "iir_fir" THEN 2 ELSE 1

\* Mutant of InvRatioQ16: the ratio is not rounded up.
InvRatioQ16Down(i, o) == 4 * ((i * Doubled(i, o) * 16384) \div o)

\* The distance of two outputs, in 65536ths of a sample, rounded up.
InvRatioQ16(i, o) ==
    LET down == 4 * ((i * Doubled(i, o) * 16384) \div o)
    IN CHOOSE r \in down..(down + 4) :
          /\ r * o >= i * Doubled(i, o) * 65536
          /\ r = down \/ (r - 1) * o < i * Doubled(i, o) * 65536

\* ResamplerInit; what has not been fed are the zeros before the stream.
ResamplerInit(i, o) ==
    /\ rs = [method |-> "none"]
    /\ rs' = [method |-> Method(i, o), in |-> i, out |-> o,
              delay |-> [k \in 1..InputDelay(i, o) |-> k - 1 - InputDelay(i, o)],
              filter |-> -InputDelay(i, o),
              sFIR |-> [k \in 1..FIROrder(i, o) |->
                           k - 1 - FIROrder(i, o) - InputDelay(i, o) * Doubled(i, o)]]
    /\ UNCHANGED <<fed, made, resampled>>

-----------------------------------------------------------------------------

\* The filter, which must see the stream in order: it is then past these samples.
Filter(r, in) ==
    [r EXCEPT !.filter = IF \A k \in DOMAIN in : in[k] = @ + k - 1 THEN @ + Len(in) ELSE -1000]
Filtered(in, factor) == [k \in 1..(Len(in) * factor) |-> in[((k - 1) \div factor) + 1] * factor
                                                          + ((k - 1) % factor)]

\* The interpolation of a buffer of n new samples: index steps by the ratio.
Interpolated(buf, n, step, phases) ==
    [k \in 1..((n * 65536 + step - 1) \div step) |->
        <<buf[((k - 1) * step) \div 65536 + 1],
          ((((k - 1) * step) % 65536) * phases) \div 65536>>]

\* One batch of private_IIR_FIR or private_down_FIR.
Batch(s, in) ==
    LET up == Doubled(s.r.in, s.r.out)
        order == FIROrder(s.r.in, s.r.out)
        buf == s.r.sFIR \o Filtered(in, up)
        r == Filter(s.r, in)
    IN [r |-> [r EXCEPT !.sFIR = SubSeq(buf, Len(in) * up + 1, Len(in) * up + order)],
        out |-> s.out \o Interpolated(buf, Len(in) * up, InvRatioQ16(r.in, r.out),
                                      Phases(r.in, r.out))]

BatchSize(r) == r.in * 10

\* One of the two calls: the first ms, which was delayed, and the others.
ResamplePart(s, in) ==
    IF s.r.method = "copy"
    THEN [s EXCEPT !.out = @ \o [k \in DOMAIN in |-> <<in[k], 0>>]]
    ELSE IF s.r.method = "up2"
    THEN [r |-> Filter(s.r, in),
          out |-> s.out \o [k \in 1..(2 * Len(in)) |-> <<Filtered(in, 2)[k], 0>>]]
    ELSE FoldLeft(LAMBDA t, b : Batch(t, SubSeq(in, b * BatchSize(s.r) + 1,
                                          IF (b + 1) * BatchSize(s.r) < Len(in)
                                          THEN (b + 1) * BatchSize(s.r) ELSE Len(in))),
                  s, [b \in 1..((Len(in) + BatchSize(s.r) - 1) \div BatchSize(s.r)) |-> b - 1])

\* Resampler on a frame of ms.
Resample(ms) ==
    /\ rs.method # "none"
    /\ \E in \in {[k \in 1..(ms * rs.in) |-> fed + k - 1]} :
       \E direct \in {rs.in - Len(rs.delay)} :
       \E s \in {ResamplePart(ResamplePart([r |-> rs, out |-> <<>>], rs.delay \o SubSeq(in, 1, direct)),
                      SubSeq(in, direct + 1, direct + Len(in) - rs.in))} :
          /\ rs' = [s.r EXCEPT !.delay = SubSeq(in, Len(in) - Len(@) + 1, Len(in))]
          /\ resampled' = s.out
          /\ fed' = fed + Len(in)
          /\ made' = made + Len(resampled)

-----------------------------------------------------------------------------

ResamplerIdle == rs = [method |-> "none"] /\ fed = 0 /\ made = 0 /\ resampled = <<>>

ResamplerNext ==
    \/ \E i \in {8, 12, 16}, o \in {8, 12, 16, 24, 48} : ResamplerInit(i, o)
    \/ \E ms \in FrameLengths :
          /\ rs.method # "none" /\ fed + ms * rs.in <= MaxMs * rs.in
          /\ Resample(ms)

-----------------------------------------------------------------------------
(* Property.                                                                *)

\* However a stream is cut into frames, its output is one stream: so many samples as
\* the rates say, the k-th made of the filtered samples from exactly the place that
\* k at the one rate is at the other, at the phase of the remainder, with no sample
\* lost, repeated or filtered out of turn at the edge of a frame, of the delayed
\* millisecond or of a batch.
ResamplerExact ==
    rs.method # "none" =>
        LET up == IF rs.method = "up2" THEN 2 ELSE Doubled(rs.in, rs.out)
            order == IF rs.method \in {"copy", "up2"} THEN 0 ELSE FIROrder(rs.in, rs.out)
            Place(k) == IF rs.method = "up2" THEN k ELSE (k * rs.in * up) \div rs.out
            Rest(k) == IF rs.method = "up2" THEN 0 ELSE (k * rs.in * up) % rs.out
            Begin == (-InputDelay(rs.in, rs.out)) * up - order
        IN /\ made + Len(resampled) = (fed \div rs.in) * rs.out
           /\ rs.method # "copy" => rs.filter = fed - Len(rs.delay)
           /\ \A k \in 1..Len(resampled) :
                 resampled[k] = <<Begin + Place(made + k - 1),
                            (Rest(made + k - 1) * Phases(rs.in, rs.out)) \div rs.out>>
           /\ \A k \in 2..Len(rs.sFIR) : rs.sFIR[k] = rs.sFIR[k - 1] + 1
=============================================================================
