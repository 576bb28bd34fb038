----------------------------- MODULE OpusDecoder -----------------------------
(***************************************************************************)
(* The Opus decoder of internal/opusdec/opus_decoder.go: Decode on packets *)
(* of any mode, on lost packets and on packets that carry the frame before *)
(* them (FEC).  A frame goes to SILK, to CELT or to both; where the mode   *)
(* changes, a redundant CELT frame or 5 ms of concealment of the old mode  *)
(* joins the two.  The two codecs have memory, and each call must find it  *)
(* where the frame before it in time has left it, or reset.                *)
(*                                                                         *)
(* Samples are left out: a codec is known by how far it has decoded.  Time *)
(* is in units of 2.5 ms, so F2_5 is 1, F5 2, F10 4 and F20 8.  Frame      *)
(* sizes that are no multiple of it are refused (concealment, FEC) or      *)
(* amount to the multiple below (a packet).                                *)
(***************************************************************************)
EXTENDS SilkDecoder, SequencesExt

CONSTANTS
    Packets,     \* packets the decoder is given, see PacketType
    Capacities,  \* values of frameSize, in units
    SilkMode, Hybrid, CeltMode, NoMode

ASSUME ModesDiffer == Cardinality({SilkMode, Hybrid, CeltMode, NoMode}) = 4

Modes == {SilkMode, Hybrid, CeltMode}

\* What a frame holds: data that is too short to be decoded is empty; the SILK
\* symbols; a redundant CELT frame for the switch to or from SILK, or a length of
\* one that does not fit (bogus); and the CELT frame that ends behind its data.
FrameType ==
    [empty : BOOLEAN,
     vad : [Channel -> [FrameIndex -> BOOLEAN]],
     lbrr : [Channel -> [FrameIndex -> BOOLEAN]],
     mid : [FrameIndex -> BOOLEAN], lmid : [FrameIndex -> BOOLEAN],
     redundancy : {"none", "to CELT", "to SILK", "bogus"},
     broken : {"none", "main", "redundant"}]

\* The packet's TOC (mode, rate of the bandwidth in kHz, duration of a frame,
\* channels) and frames; a packet that does not parse has none.
PacketType == [mode : Modes, rate : {8, 12, 16}, size : {1, 2, 4, 8, 16, 24},
               channels : {1, 2}, frames : Seq(FrameType)]

ASSUME DecoderAssumption ==
    /\ \A p \in Packets :
          /\ p.mode \in Modes /\ p.rate \in {8, 12, 16} /\ p.channels \in {1, 2}
          /\ p.size \in IF p.mode = SilkMode THEN {4, 8, 16, 24}
                        ELSE IF p.mode = Hybrid THEN {4, 8} ELSE {1, 2, 4, 8}
          /\ \A i \in DOMAIN p.frames :
                p.frames[i].redundancy # "none" => p.mode # CeltMode
          /\ Len(p.frames) * p.size <= 48
    /\ Capacities \subseteq 1..48

VARIABLES st,    \* the OpusDecoder
          last   \* history: what the last call did and returned

-----------------------------------------------------------------------------
(* CELT as the Opus decoder uses it: how far it has decoded, from the start *)
(* of the frame at hand, or fresh from a reset.                             *)

FreshCelt == [fresh |-> TRUE, at |-> 0]

CeltRun(c, from, size) == [fresh |-> FALSE, at |-> from + size]
CeltContinues(c, from) == c.fresh \/ c.at = from

\* Seen from the start of the next frame, size units on: where it ends, if that is
\* there, else far behind or ahead.
Behind == -100
Ahead == 100

NextFrame(c, size) ==
    IF c.fresh THEN c
    ELSE [c EXCEPT !.at = IF c.at < size THEN Behind ELSE IF c.at = size THEN 0 ELSE Ahead]

\* A frame that fails in CELT: the caller's time stands still.
NoTime(c) == IF c.fresh \/ c.at < 0 THEN c ELSE [c EXCEPT !.at = 0]

\* Concealment decoded for a crossfade takes no time.
Back(c, size) == IF c.fresh THEN c ELSE [c EXCEPT !.at = @ + size]

NoControl == [channels |-> 0, rate |-> 0, payload |-> 0]

\* newDecoder; silkOn: SILK has decoded up to the end of the last frame (history).
InitDecoder ==
    [mode |-> NoMode, prevMode |-> NoMode, prevRedundancy |-> FALSE, rate |-> 0,
     frameSize |-> 1, streamChannels |-> ApiChannels, ctl |-> NoControl,
     silk |-> InitSilk, silkOn |-> TRUE, celt |-> FreshCelt]

\* ResetState; lastPacketDuration and rangeFinal are reported only.
ResetDecoder(d) ==
    [InitDecoder EXCEPT !.ctl = d.ctl, !.silk = ResetSilk(d.silk)]

SmallerOf(a, b) == IF a < b THEN a ELSE b
LargerOf(a, b) == IF a > b THEN a ELSE b

-----------------------------------------------------------------------------
(* What a frame's decoding reports                                          *)

\* ret is the units returned, or an error; filled: the output up to there is
\* written, and no crossfade reads what is not; celt and silk: each codec has gone
\* on from where it was; own: CELT's part of a frame, not the first of all, has not gone
\* on from the redundant frame beside it; legal: SILK is called with what it accepts.
Quiet == [ret |-> 0, filled |-> TRUE, celt |-> TRUE, own |-> TRUE, silk |-> TRUE,
          legal |-> TRUE, reads |-> <<>>, skipped |-> <<>>]

InternalError == -3
BadArg == -1
BufferTooSmall == -2
InvalidPacket == -4

Also(r, q) == [r EXCEPT !.filled = @ /\ q.filled, !.celt = @ /\ q.celt,
                        !.silk = @ /\ q.silk, !.legal = @ /\ q.legal, !.own = @ /\ q.own]

Nothing == [empty |-> TRUE, redundancy |-> "none", broken |-> "none",
            vad |-> [n \in Channel |-> NoFrames], lbrr |-> [n \in Channel |-> NoFrames],
            mid |-> NoFrames, lmid |-> NoFrames]

-----------------------------------------------------------------------------
(* The SILK layer of a frame                                                *)

LostFlag(f, fec) == IF f.empty THEN Lost ELSE IF fec THEN Lbrr ELSE Normal

SilkStart(d) == IF d.prevMode = CeltMode THEN ResetSilk(d.silk) ELSE d.silk

\* decControl: rate and channels come with a payload, and stay for concealment.
Control(d, f, mode, size) ==
    [channels |-> IF f.empty THEN d.ctl.channels ELSE d.streamChannels,
     rate |-> IF f.empty THEN d.ctl.rate
              ELSE IF mode = SilkMode THEN d.rate ELSE 16,
     payload |-> LargerOf(4, size)]

\* SILK frames until the Opus frame is full: at most three of 20 ms.
SilkFrames(d, f, mode, size, fec) ==
    LET ctl == Control(d, f, mode, size)
        Call(a, k) ==
            IF ~a.legal \/ a.decoded >= size THEN a
            ELSE Then(DecodeSilk(a.silk, ctl, LostFlag(f, fec), a.decoded = 0, f), LAMBDA r :
                      [a EXCEPT !.silk = r.s, !.decoded = @ + r.units,
                                !.sound = @ /\ r.sound, !.reads = @ \o r.reads,
                                !.skipped = @ \o r.skipped])
    IN  FoldLeft(Call, [silk |-> SilkStart(d), decoded |-> 0,
                        sound |-> d.silkOn \/ SilkStart(d).ch[0].fs = 0,
                        legal |-> LegalControl(ctl), reads |-> <<>>, skipped |-> <<>>],
                 <<1, 2, 3>>)

\* Output: SILK decodes 10 ms at least; below that into a buffer of its own.
SilkLayer(d, f, mode, size, fec) ==
    IF mode = CeltMode THEN [d |-> [d EXCEPT !.silkOn = FALSE], r |-> Quiet]
    ELSE Then(SilkFrames(d, f, mode, size, fec), LAMBDA s :
            [d |-> [d EXCEPT !.silk = Forget(s.silk), !.silkOn = TRUE,
                             !.ctl = Control(d, f, mode, size)],
             r |-> [Quiet EXCEPT !.silk = s.sound, !.legal = s.legal,
                                 !.filled = s.decoded = LargerOf(4, size),
                                 !.reads = s.reads, !.skipped = s.skipped]])

-----------------------------------------------------------------------------
(* The CELT layer                                                           *)

ToSilk(f) == f.redundancy = "to SILK"
ToCelt(f) == f.redundancy = "to CELT"

\* The redundant frame of a switch to SILK is decoded always, from CELT's state at the
\* start of this frame.  What it decodes to is ignored if the frame before was SILK's
\* and no redundant CELT frame ended it: CELT is stale then.
Ignored(d, f) == ToSilk(f) /\ d.prevMode = SilkMode /\ ~d.prevRedundancy

\* The state a CELT run behind that redundant frame finds, if it was not reset.
BehindRedundant(c, f) == ToSilk(f) /\ c = CeltRun(FreshCelt, 0, 2)

\* Mutant of MainCelt: CELT is not reset for a frame that it does not continue.
MainCeltKept(d, mode) == d.celt

\* "Make sure to discard any previous CELT state".
MainCelt(d, mode) ==
    IF mode # d.prevMode /\ d.prevMode # NoMode /\ ~d.prevRedundancy
    THEN FreshCelt ELSE d.celt

\* A SILK frame after hybrid ones: 2.5 ms of silence fade CELT out.
FadesOut(d, f) == d.prevMode = Hybrid /\ ~(ToSilk(f) /\ d.prevRedundancy)

\* The CELT runs of a frame, in their order: the redundant frame of a switch to
\* SILK, the frame itself or its fade out, the redundant frame of a switch to CELT,
\* which starts from a reset.  from is what the second of them finds; a redundant frame
\* that fails leaves it out.
CeltLayer(d, f, mode, size) ==
    LET redundant == IF ToSilk(f) THEN CeltRun(d.celt, 0, 2) ELSE d.celt
        start == MainCelt([d EXCEPT !.celt = redundant], mode)
        own == SmallerOf(8, size)
        main == IF mode # SilkMode THEN CeltRun(start, 0, own)
                ELSE IF FadesOut(d, f) THEN CeltRun(redundant, 0, 1)
                ELSE redundant
        from == IF ToSilk(f) /\ f.broken = "redundant" THEN FreshCelt
                ELSE IF mode # SilkMode THEN start
                ELSE IF FadesOut(d, f) THEN redundant ELSE FreshCelt
    IN  [redundant |-> redundant,
         celt |-> IF ToCelt(f) THEN CeltRun(FreshCelt, size - 2, 2) ELSE main,
         sound |-> /\ ToSilk(f) => Ignored(d, f) \/ CeltContinues(d.celt, 0)
                   /\ CeltContinues(from, 0) \/ BehindRedundant(from, f),
         own |-> d.prevMode = NoMode \/ ~BehindRedundant(from, f),
         filled |-> mode = CeltMode => own = size]

-----------------------------------------------------------------------------
(* opusDecodeFrame                                                          *)

\* What is left of the frame once decodeFec is known: the redundancy is not read,
\* and CELT conceals, as it does when the redundancy leaves it no bytes.
Used(f, fec) ==
    IF fec THEN [f EXCEPT !.redundancy = "none", !.broken = "none"]
    ELSE IF f.redundancy = "bogus" THEN [f EXCEPT !.broken = "none"] ELSE f

IsRedundant(f) == ToCelt(f) \/ ToSilk(f)

\* CELT and the end of the frame, after SILK has left the report r.
AfterSilk(d, r, f, mode, size) ==
    Then(CeltLayer(d, f, mode, size), LAMBDA c :
    LET done == [r EXCEPT !.celt = @ /\ c.sound, !.own = @ /\ c.own,
                          !.filled = @ /\ c.filled]
        closed == [d EXCEPT !.prevMode = mode, !.prevRedundancy = ToCelt(f),
                            !.celt = NextFrame(c.celt, size)]
    IN  IF IsRedundant(f) /\ f.broken = "redundant"
        THEN [d |-> [d EXCEPT !.celt = NoTime(IF ToSilk(f) THEN c.redundant ELSE c.celt)],
              r |-> [done EXCEPT !.ret = InternalError]]
        ELSE [d |-> closed,
              r |-> [done EXCEPT !.ret = IF f.broken = "main" /\ mode # SilkMode
                                         THEN InternalError ELSE size]])

\* Mutant of PlcSize: any size is concealed at once.
PlcSizeAny(mode, size) == size

\* PLC sizes: 2.5 and 5 ms (not SILK), 10 and 20 ms.
PlcSize(mode, size) ==
    IF size > 4 /\ size < 8 THEN 4
    ELSE IF mode # SilkMode /\ size = 3 THEN 2
    ELSE size

\* "Run PLC using last used mode (CELT if we ended with CELT redundancy)".
PlcMode(d) == IF d.prevRedundancy THEN CeltMode ELSE d.prevMode

\* data == nil, up to 20 ms.
ConcealPiece(d, room) ==
    LET mode == PlcMode(d)
        size == PlcSize(mode, SmallerOf(room, d.frameSize))
    IN  IF mode = NoMode THEN [d |-> d, r |-> [Quiet EXCEPT !.ret = size]]
        ELSE Then(SilkLayer(d, Nothing, mode, size, FALSE), LAMBDA silk :
                  AfterSilk(silk.d, silk.r, Nothing, mode, size))

\* Steps that take what is left of a size, at most of them, until none is left.
Fill(d, size, Step(_, _)) ==
    LET Once(a, k) ==
            IF a.left <= 0 \/ a.r.ret < 0 THEN a
            ELSE Then(Step(a.d, a.left), LAMBDA x :
                      [d |-> x.d, left |-> a.left - x.r.ret,
                       r |-> [Also(x.r, a.r) EXCEPT !.ret = x.r.ret]])
    IN  Then(FoldLeft(Once, [d |-> d, left |-> size, r |-> Quiet], [k \in 1..size |-> k]),
             LAMBDA end : [d |-> end.d, r |-> IF end.r.ret < 0 THEN end.r
                                              ELSE [end.r EXCEPT !.ret = size - end.left]])

Conceal(d, room) ==
    LET size == SmallerOf(room, d.frameSize)
    IN  IF size > 8 /\ PlcMode(d) # NoMode
        THEN Fill(d, size, LAMBDA e, left : ConcealPiece(e, SmallerOf(left, 8)))
        ELSE ConcealPiece(d, size)

\* "transition": between CELT and the others, unless CELT redundancy joins them.
NeedsTransition(d, mode) ==
    /\ d.prevMode # NoMode
    /\ IF mode = CeltMode THEN d.prevMode # CeltMode /\ ~d.prevRedundancy
       ELSE d.prevMode = CeltMode

\* 5 ms of the old mode to fade from; the crossfade reads all of it.
Transition(d, size) ==
    Then(Conceal(d, SmallerOf(2, size)), LAMBDA x :
        [d |-> [x.d EXCEPT !.celt = Back(@, SmallerOf(2, size)), !.silkOn = d.silkOn],
         r |-> [Also(Quiet, x.r) EXCEPT !.filled = @ /\ x.r.ret = SmallerOf(2, size)]])

\* A frame that has data: a switch to CELT conceals first, a switch from it after
\* SILK has decoded, and only if there is no redundant frame.
DecodeData(d, f, fec) ==
    LET size == d.frameSize
        u == Used(f, fec)
        Joined(e, here) == IF here /\ NeedsTransition(d, d.mode) THEN Transition(e, size)
                           ELSE [d |-> e, r |-> Quiet]
    IN  Then(Joined(d, d.mode = CeltMode), LAMBDA first :
        Then(SilkLayer(first.d, u, d.mode, size, fec), LAMBDA silk :
            IF ~silk.r.legal
            THEN [d |-> silk.d, r |-> [silk.r EXCEPT !.ret = InternalError]]
            ELSE Then(Joined(silk.d, d.mode # CeltMode /\ ~IsRedundant(u)), LAMBDA then :
                      AfterSilk(then.d, Also(Also(silk.r, first.r), then.r),
                                u, d.mode, size))))

DecodeFrameOf(d, f, room, fec) ==
    IF room < 1 THEN [d |-> d, r |-> [Quiet EXCEPT !.ret = BufferTooSmall]]
    ELSE IF f.empty THEN Conceal(d, room) ELSE DecodeData(d, f, fec)

-----------------------------------------------------------------------------
(* opusDecodeNativeImpl                                                     *)

\* The TOC, once the packet has parsed.
Announced(d, p) == [d EXCEPT !.mode = p.mode, !.rate = p.rate, !.frameSize = p.size,
                             !.streamChannels = p.channels]

\* A lost packet: all of frameSize.
ConcealAll(d, size) == Fill(d, size, Conceal)

Report(r, want) ==
    [returns |-> r.ret \in {want, InternalError}, filled |-> r.filled, celt |-> r.celt,
     own |-> r.own, silk |-> r.silk, legal |-> r.legal, fec |-> r.reads = r.skipped]

Init == st = InitDecoder /\ last = Report(Quiet, 0)

Lose(size) ==
    \E x \in {ConcealAll(st, size)} : st' = x.d /\ last' = Report(x.r, size)

Refuse(code) == last' = Report([Quiet EXCEPT !.ret = code], code) /\ UNCHANGED st

DecodeFrames(d, frames, room) ==
    LET One(a, f) ==
            IF a.r.ret < 0 THEN a
            ELSE Then(DecodeFrameOf(a.d, f, room - a.n, FALSE), LAMBDA x :
                      [d |-> x.d, n |-> a.n + LargerOf(0, x.r.ret),
                       r |-> [Also(x.r, a.r) EXCEPT !.ret = x.r.ret]])
    IN  FoldLeft(One, [d |-> d, n |-> 0, r |-> Quiet], frames)

\* A packet without frames does not parse.
Receive(p, room) ==
    IF p.frames = <<>> THEN Refuse(InvalidPacket)
    ELSE IF Len(p.frames) * p.size > room THEN Refuse(BufferTooSmall)
    ELSE \E end \in {DecodeFrames(Announced(st, p), p.frames, room)} :
            /\ st' = end.d
            /\ last' = Report([end.r EXCEPT !.reads = <<>>, !.skipped = <<>>,
                                            !.ret = IF @ < 0 THEN @ ELSE end.n],
                              Len(p.frames) * p.size)

\* decodeFec: the packet after a lost one, of which the first frame may hold the
\* end of the lost one.
NoFec(p, size) == size < p.size \/ p.mode = CeltMode \/ st.mode = CeltMode

Recover(p, size) ==
    IF p.frames = <<>> THEN Refuse(InvalidPacket)
    ELSE IF NoFec(p, size) THEN Lose(size)
    ELSE \E before \in {ConcealAll(st, size - p.size)} :
         \E x \in {DecodeFrameOf(Announced(before.d, p), p.frames[1], p.size, TRUE)} :
            /\ st' = x.d
            /\ last' = Report([Also(x.r, before.r) EXCEPT !.ret = IF @ < 0 THEN @ ELSE size],
                              size)

Reset == st' = ResetDecoder(st) /\ last' = Report(Quiet, 0)

Next ==
    \/ \E p \in Packets, n \in Capacities : Receive(p, n) \/ Recover(p, n)
    \/ \E n \in Capacities : Lose(n)
    \/ Reset

decoderVars == <<st, last>>
Spec == Init /\ [][Next]_decoderVars

-----------------------------------------------------------------------------
(* Properties                                                               *)

\* Every call returns the duration it should: that of the packet, all of the
\* concealment asked for; all of it has been written, no crossfade reads samples
\* nobody wrote, and SILK is only called with sizes and rates it accepts.
CallsFill ==
    last.returns /\ last.filled /\ last.legal

\* CELT decodes a frame from a reset or from the end of the frame before it, the redundant
\* frame of a switch to SILK too unless its samples are ignored; behind that redundant
\* frame the code also lets the frame's own CELT part go on from it (DiscardsCelt).
CeltInStep == last.celt

\* SILK decodes from a reset or from the frame before it; its channels are set up
\* for the payload, they predict and interpolate from frames they have, and each
\* resampler has had all of the output at its rate.
SilkInStep == last.silk

\* Whatever the modes, losses and redundant frames before, no layer goes on from the
\* state of another mode's frame (the switches of decodeFrame).
LayersInStep == CeltInStep /\ SilkInStep

\* "Make sure to discard any previous CELT state": the CELT part of a frame that carries
\* the redundant frame of a switch to SILK, decoded just before it for the same time, does
\* not go on from that (decodeFrame).
DiscardsCelt == last.own

\* The LBRR frames are read by a FEC decode as they are read over by a normal one.
FecReadsLbrr == last.fec
=============================================================================
