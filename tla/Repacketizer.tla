----------------------------- MODULE Repacketizer -----------------------------
(***************************************************************************)
(* The Repacketizer of internal/packet/repacketizer.go, and a caller who   *)
(* feeds it packets, among them the one it has written last, and writes    *)
(* what it holds into buffers of any of a few lengths.  The caller forgets *)
(* a packet once it adds another: that bounds the states, and the code has *)
(* no memory of a packet it has written.                                   *)
(***************************************************************************)
EXTENDS OpusPacket

CONSTANTS
    Packets,      \* byte sequences the caller has, [data, selfDelimited]
    Buffers,      \* lengths of the buffers it writes into
    MaxHeld       \* bound: frames held before the caller stops adding

ASSUME RepacketizerAssumption ==
    /\ \A p \in Packets : p.data \in Seq(Byte) /\ p.selfDelimited \in BOOLEAN
    /\ Buffers \subseteq Nat /\ MaxHeld \in Nat

VARIABLES
    toc, frames,   \* rp.toc, rp.frames[:rp.nbFrames]
    out,           \* the packet written last: the bytes written, the length
                   \* returned, and the length it was to fill; or NothingOut
    wanted         \* history: the TOC configuration and frames it was written from

rvars == <<toc, frames, out, wanted>>

NothingOut == [data |-> <<>>, selfDelimited |-> FALSE, length |-> 0, room |-> 0]
NothingWanted == [config |-> 0, frames |-> <<>>]

RepacketizerInit ==
    /\ toc = 0 /\ frames = <<>>
    /\ out = NothingOut /\ wanted = NothingWanted

-----------------------------------------------------------------------------
(* Init and Cat                                                             *)

Reset == frames' = <<>> /\ UNCHANGED <<toc, out, wanted>>

\* 120 ms at 8 kHz, and the frames array.
Fits(t, held, more) ==
    /\ (held + more) * SamplesPerFrame(t, 8000) <= 960
    /\ held + more <= MaxFrames

Cat(data, selfDelimited) ==
    /\ data # <<>>
    /\ frames # <<>> => Config(toc) = Config(data[1])
    /\ toc' = IF frames = <<>> THEN data[1] ELSE toc
    /\ \E p \in {Parse(data, selfDelimited)} :
          frames' = IF p.ok /\ Fits(toc', Len(frames), Len(p.frames))
                    THEN frames \o p.frames ELSE frames
    /\ out' = NothingOut /\ wanted' = NothingWanted

-----------------------------------------------------------------------------
(* writeHeader and outRangeImpl                                             *)

\* The bytes the frame-length field of n takes.
SizeLen(n) == IF n >= 252 THEN 2 ELSE 1
SumLen(fs) == FoldLeft(LAMBDA n, f : n + Len(f), 0, fs)
SumSizeLen(fs) == FoldLeft(LAMBDA n, f : n + SizeLen(Len(f)), 0, fs)
SizeFields(fs) == FlattenSeq([i \in 1..Len(fs) |-> EncodeSize(Len(fs[i]))])

Equal(fs) == \A i \in DOMAIN fs : Len(fs[i]) = Len(fs[1])

\* selfDelimHeaderSize, and the field it makes room for.
SelfDelimSize(fs, sd) == IF sd THEN SizeLen(Len(Last(fs))) ELSE 0

SelfDelimField(fs, sd) == IF sd THEN EncodeSize(Len(Last(fs))) ELSE <<>>

\* Codes 0, 1 and 2: totSize and header of one or two frames.
PlainSize(fs, sd) ==
    SelfDelimSize(fs, sd) + 1 + SumLen(fs)
        + (IF Equal(fs) THEN 0 ELSE SizeLen(Len(fs[1])))
PlainHeader(t, fs) ==
    IF Equal(fs) THEN <<Config(t) + Len(fs) - 1>>
                 ELSE <<Config(t) + 2>> \o EncodeSize(Len(fs[1]))

Code3Size(fs, sd) ==
    SelfDelimSize(fs, sd) + 2 + SumLen(fs)
        + (IF Equal(fs) THEN 0 ELSE SumSizeLen(Front(fs)))

\* Mutant of PaddingRun: full bytes are counted from the amount itself.
PaddingRunFull(n) == n \div 255

\* The bytes of 255 in the padding descriptor; one byte more ends it.
PaddingRun(n) == (n - 1) \div 255

PaddingField(n) ==
    IF n = 0 THEN <<>>
    ELSE [i \in 1..PaddingRun(n) |-> 255] \o <<(n - 255 * PaddingRun(n) - 1) % 256>>

Code3Header(t, fs, padAmount) ==
    <<Config(t) + 3,
      Len(fs) + (IF Equal(fs) THEN 0 ELSE 128) + (IF padAmount = 0 THEN 0 ELSE 64)>>
    \o PaddingField(padAmount)
    \o (IF Equal(fs) THEN <<>> ELSE SizeFields(Front(fs)))

Refused == [ok |-> FALSE]

\* A packet of the frames fs in a buffer of maxlen: its bytes, and the length
\* the code works out beside them.
OutRange(t, fs, maxlen, sd, pad) ==
    LET plain == Len(fs) <= 2
        code3 == Len(fs) > 2 \/ (pad /\ PlainSize(fs, sd) < maxlen)
        padAmount == IF pad THEN maxlen - Code3Size(fs, sd) ELSE 0
        header == IF code3 THEN Code3Header(t, fs, padAmount) ELSE PlainHeader(t, fs)
        written == Then(header \o SelfDelimField(fs, sd) \o FlattenSeq(fs), LAMBDA b :
                        IF pad THEN b \o [i \in 1..(maxlen - Len(b)) |-> 0] ELSE b)
    IN  IF \/ fs = <<>>
           \/ plain /\ PlainSize(fs, sd) > maxlen
           \/ code3 /\ Code3Size(fs, sd) > maxlen
           \/ /\ code3 /\ padAmount # 0
              /\ Code3Size(fs, sd) + PaddingRun(padAmount) + 1 > maxlen
        THEN Refused
        ELSE [ok |-> TRUE, data |-> written,
              length |-> IF code3 THEN Code3Size(fs, sd) + padAmount
                         ELSE PlainSize(fs, sd)]

\* Out, OutSelfDelimited, OutRange and OutRangePadded.
WriteOut(begin, end, maxlen, sd, pad) ==
    /\ begin < end /\ end <= Len(frames)
    /\ \E o \in {OutRange(toc, SubSeq(frames, begin + 1, end), maxlen, sd, pad)} :
          /\ o.ok
          /\ out' = [data |-> o.data, selfDelimited |-> sd,
                     length |-> o.length, room |-> IF pad THEN maxlen ELSE o.length]
    /\ wanted' = [config |-> Config(toc), frames |-> SubSeq(frames, begin + 1, end)]
    /\ UNCHANGED <<toc, frames>>

\* Pad on the packet written last, by a repacketizer of its own.
Padding(data, newLen) ==
    CASE Len(data) = newLen -> [ok |-> TRUE, data |-> data, length |-> newLen]
      [] Len(data) > newLen -> Refused
      [] OTHER -> Then(Parse(data, FALSE), LAMBDA p :
                       IF p.ok /\ Fits(data[1], 0, Len(p.frames))
                       THEN OutRange(data[1], p.frames, newLen, FALSE, TRUE)
                       ELSE Refused)

Pad(newLen) ==
    /\ out # NothingOut /\ ~out.selfDelimited
    /\ \E o \in {Padding(out.data, newLen)} :
           /\ o.ok
           /\ out' = [out EXCEPT !.data = o.data, !.length = o.length, !.room = newLen]
    /\ UNCHANGED <<toc, frames, wanted>>

-----------------------------------------------------------------------------

CatAny ==
    /\ Len(frames) < MaxHeld
    /\ \/ \E p \in Packets : Cat(p.data, p.selfDelimited)
       \/ Cat(out.data, out.selfDelimited)

WriteAny ==
    \E end \in 1..Len(frames), n \in Buffers, sd, pad \in BOOLEAN :
        \E begin \in {0, end - 1} : WriteOut(begin, end, n, sd, pad /\ ~sd)

PadAny == \E n \in Buffers : Pad(n)

RepacketizerNext == Reset \/ CatAny \/ WriteAny \/ PadAny

RepacketizerSpec == RepacketizerInit /\ [][RepacketizerNext]_rvars

-----------------------------------------------------------------------------
(* Properties.                                                              *)

\* Whatever the repacketizer wrote, through any number of merges, splits,
\* re-parses and paddings, parses to the frames it was asked to write, in their
\* order and under their configuration, and is as long as the length returned,
\* which is the buffer's if it was to be padded (outRangeImpl against parser.run).
CarriesFrames ==
    out # NothingOut =>
        \E p \in {Parse(out.data, out.selfDelimited)} :
            /\ p.ok
            /\ Len(out.data) = out.length /\ out.length = out.room
            /\ Config(p.toc) = wanted.config
            /\ p.frames = wanted.frames

\* A self-delimited packet ends where it ends: followed by any other packet it
\* parses to the same frames and consumes exactly itself, so that the streams of
\* a multistream packet come apart where they were joined (Consumed).
ComesApart ==
    (out # NothingOut /\ out.selfDelimited) =>
        \A q \in Packets :
            \E p \in {Parse(out.data \o q.data, TRUE)} :
                p.ok /\ p.frames = wanted.frames /\ p.consumed = Len(out.data)

\* What is held, and every packet written, lasts 120 ms at most, and the two
\* ways to measure a packet agree (Cat's duration check, CountFrames, Samples).
Within120ms ==
    /\ Len(frames) <= MaxFrames
    /\ Len(frames) * SamplesPerFrame(toc, 48000) <= 5760
    /\ out # NothingOut =>
          Samples(out.data, 48000)
              = Len(wanted.frames) * SamplesPerFrame(out.data[1], 48000)

\* What goes in comes out: merging, splitting and padding neither lose, move nor cut
\* a frame, and never make a packet no decoder takes.
FramesKept == CarriesFrames /\ ComesApart /\ Within120ms

-----------------------------------------------------------------------------
(* The parser on bytes nobody has framed: a buffer that takes any byte       *)
(* after any other, and after each of them the layout of RFC 6716 (section   *)
(* 3.2 and appendix B), which parse.go names, is the reference for what the  *)
(* parser may accept.                                                        *)

CONSTANTS
    Tocs,         \* first bytes of a buffer
    Bytes,        \* bytes after the first
    MaxLen        \* bound: the length of a buffer

ASSUME PacketBytesAssumption ==
    Tocs \subseteq Byte /\ Bytes \subseteq Byte /\ MaxLen \in Nat

VARIABLE data     \* the bytes Parse and ParseSelfDelimited are called with

PacketBytesInit == data = <<>>

Receive(b) == data' = Append(data, b)

PacketBytesNext ==
    /\ Len(data) < MaxLen
    /\ \E b \in (IF data = <<>> THEN Tocs ELSE Bytes) : Receive(b)

-----------------------------------------------------------------------------
(* The layout                                                               *)

Constant(lens) == \A i, j \in DOMAIN lens : lens[i] = lens[j]
Fields(lens) == FlattenSeq([i \in DOMAIN lens |-> EncodeSize(lens[i])])

\* The header of frames of the lengths lens with the first bytes of d: the count
\* byte, the padding descriptor (here of one byte, pad), the lengths
\* of all frames but the last if they may differ, and that of the last if the
\* packet is self-delimited.
Layout(d, selfDelimited, lens, pad) ==
    LET code3 == Code(d[1]) = 3
        vbr == Code(d[1]) = 2 \/ (code3 /\ Vbr(d[2]))
    IN  <<d[1]>>
        \o (IF code3 THEN <<d[2]>> ELSE <<>>)
        \o (IF code3 /\ Padded(d[2]) THEN <<pad>> ELSE <<>>)
        \o (IF vbr THEN Fields(Front(lens)) ELSE <<>>)
        \o (IF selfDelimited THEN EncodeSize(Last(lens)) ELSE <<>>)

\* d begins with (selfDelimited), or is, a packet of frames of the lengths lens.
Describes(d, selfDelimited, lens, pad) ==
    \E head \in {Layout(d, selfDelimited, lens, pad)} :
        LET size == Len(head) + FoldLeft(+, pad, lens)
        IN  /\ IsPrefix(head, d)
            /\ IF selfDelimited THEN size <= Len(d) ELSE size = Len(d)
            /\ \/ Code(d[1]) \in {0, 2} \/ Constant(lens)
               \/ Code(d[1]) = 3 /\ Vbr(d[2])

\* Every description of d: its frames' lengths and its padding.
Descriptions(d, selfDelimited) ==
    LET n == CountFrames(d)
        padded == Code(d[1]) = 3 /\ Len(d) > 1 /\ Padded(d[2])
    IN  IF n < 1 \/ n * SamplesPerFrame(d[1], 48000) > 5760 THEN {}
        ELSE {x \in [lens : [1..n -> 0..(Len(d) - 1)], pad : 0..(Len(d) - 1)] :
                 /\ padded \/ x.pad = 0
                 /\ FoldLeft(+, x.pad, x.lens) < Len(d)
                 /\ Describes(d, selfDelimited, x.lens, x.pad)}

-----------------------------------------------------------------------------
(* Properties.                                                              *)

\* The parser accepts exactly the buffers that are laid out as a packet of at
\* most 120 ms, each in the one way it can be read: the frames follow one another
\* behind the header and leave the padding, and nothing else, behind them
\* (parser.run and fillPacket).  No run of 255 fits into
\* the buffers of the run.
ParsesLayout ==
    data # <<>> =>
        \A sd \in BOOLEAN :
            \E p \in {Parse(data, sd)}, all \in {Descriptions(data, sd)} :
                IF ~p.ok THEN all = {}
                ELSE /\ Cardinality(all) = 1
                     /\ \A x \in all :
                           /\ x.lens = [i \in DOMAIN p.frames |-> Len(p.frames[i])]
                           /\ x.pad = p.padding
                           /\ FlattenSeq(p.frames) =
                                 SubSeq(data, p.consumed - x.pad
                                                - FoldLeft(+, 0, x.lens) + 1,
                                        p.consumed - x.pad)
                           /\ sd \/ p.consumed = Len(data)
=============================================================================
