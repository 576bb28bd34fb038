---------------------------- MODULE MCOpusDecoder ----------------------------
(***************************************************************************)
(* Model checking the Opus decoder: packets of every mode and of each      *)
(* length that takes a path of its own, mono and stereo, with the SILK     *)
(* flags, redundant frames and failures that a switch can meet.  And, in   *)
(* behaviours of its own, the range coder that both codecs read from.      *)
(***************************************************************************)
EXTENDS OpusDecoder, RangeStream, TLC

CONSTANT Topics     \* the parts behaviours are of: "decoder", "range coder"
VARIABLE topic      \* the part this one is of

Flag(S) == [i \in FrameIndex |-> i \in S]
Two(mid, side) == [n \in Channel |-> IF n = 0 THEN Flag(mid) ELSE Flag(side)]

Plain == [empty |-> FALSE, redundancy |-> "none", broken |-> "none",
          vad |-> Two({0, 1, 2}, {0, 1, 2}), lbrr |-> Two({}, {}),
          mid |-> Flag({}), lmid |-> Flag({})]

\* The side is only coded now and then; LBRR frames of both channels, of one.
MidOnlyFirst == [Plain EXCEPT !.vad = Two({0, 1, 2}, {1, 2}), !.mid = Flag({0})]
MidOnlyThen == [Plain EXCEPT !.vad = Two({0, 1, 2}, {0, 2}), !.mid = Flag({1})]
AllMidOnly == [Plain EXCEPT !.vad = Two({0}, {}), !.mid = Flag({0, 1, 2}),
                            !.lbrr = Two({0}, {}), !.lmid = Flag({0})]
Redundant == [Plain EXCEPT !.lbrr = Two({0, 1, 2}, {1, 2}), !.lmid = Flag({0})]
SideLbrr == [Plain EXCEPT !.lbrr = Two({1}, {0, 1}), !.vad = Two({0, 1, 2}, {}),
                          !.mid = Flag({0, 1, 2})]
Empty == [Plain EXCEPT !.empty = TRUE]

With(f, r, b) == [f EXCEPT !.redundancy = r, !.broken = b]

PacketOf(mode, rate, size, channels, frames) ==
    [mode |-> mode, rate |-> rate, size |-> size, channels |-> channels,
     frames |-> frames]

MCPackets ==
    {PacketOf(SilkMode, 16, 8, 1, <<f>>) :
        f \in {Plain, Redundant, With(Plain, "to CELT", "none"), With(Plain, "to SILK", "none")}}
    \cup {PacketOf(SilkMode, 16, 24, 2, <<f>>) :
        f \in {Plain, MidOnlyFirst, MidOnlyThen, Redundant, SideLbrr}}
    \cup {PacketOf(SilkMode, 8, 4, 2, <<f>>) :
        f \in {AllMidOnly, With(Plain, "to CELT", "redundant")}}
    \cup {PacketOf(SilkMode, 8, 8, 1, <<Plain, Empty>>), PacketOf(SilkMode, 12, 16, 1, <<Redundant>>)}
    \cup {PacketOf(Hybrid, 16, 8, 2, <<f>>) :
        f \in {Plain, MidOnlyFirst, With(Plain, "to CELT", "none"), With(Plain, "to SILK", "none"),
               With(Plain, "bogus", "none"), With(Plain, "to SILK", "redundant"),
               With(Plain, "none", "main")}}
    \cup {PacketOf(Hybrid, 16, 4, 1, <<Plain>>)}
    \cup {PacketOf(CeltMode, 16, 1, 1, <<Plain>>), PacketOf(CeltMode, 16, 8, 2, <<Plain, Empty>>),
          PacketOf(CeltMode, 16, 2, 2, <<With(Plain, "none", "main"), Plain>>),
          PacketOf(CeltMode, 16, 4, 1, <<>>)}

MCCapacities == {3, 8, 30}

\* RangeStream with digits of two bits and registers of eight: the same four digits to a
\* register as in the code, and the same rest of one digit less a bit.  A raw window
\* holds four digits, integers of more than two bits have raw bits.
MCSymbols ==
    {[op |-> "interval", fl |-> f[1], fh |-> f[2], ft |-> f[3]] :
        f \in {<<0, 1, 2>>, <<1, 2, 3>>, <<15, 16, 16>>, <<5, 7, 11>>}}
    \cup {[op |-> "bit", bit |-> b, scale |-> 8] : b \in {0, 1}}
    \cup {[op |-> "icdf", index |-> 1, icdf |-> (0 :> 3 @@ 1 :> 2 @@ 2 :> 0), last |-> 2, scale |-> 4]}
    \cup {[op |-> "uint", value |-> 6, count |-> 11]}
    \cup {[op |-> "raw", bits |-> n, low |-> 2^n - 1] : n \in {1, 5}}
    \cup {[op |-> "silence"]}

MCTails == {<<>>, <<3, 3, 0>>}
MCInputs == BoundedSeq(0..SymMax, 3)
MCPatches == {[val |-> 1, bits |-> 1]}
MCStorages == {0, 3, 6}

-----------------------------------------------------------------------------

rangeVars == <<evars, dvars, streamVars>>

\* The part that rests begins with a buffer of some size.
CodingInit ==
    /\ topic \in Topics /\ Init /\ StreamInit
    /\ topic = "decoder" => enc.storage = 0

CodingNext ==
    \/ topic = "decoder" /\ Next /\ UNCHANGED <<topic, rangeVars>>
    \/ topic = "range coder" /\ StreamNext /\ UNCHANGED <<topic, decoderVars>>

CodingSpec == CodingInit /\ [][CodingNext]_<<topic, decoderVars, rangeVars>>
=============================================================================
