----------------------------- MODULE SilkDecoder -----------------------------
(***************************************************************************)
(* The control of the SILK decoder: Decoder.Decode of internal/silk        *)
(* (dec_api.go) with the channel state it sets up (decoder_set_fs.go,      *)
(* init_decoder.go) and decodes frames on (decode_frame.go,                *)
(* decode_indices.go, decode_parameters.go).  Operators on the state; the  *)
(* Opus decoder calls Decode once for every SILK frame of a payload.       *)
(*                                                                         *)
(* Samples and codebook entries are left out.  What is kept is which rate, *)
(* size and earlier frame each step works from: a channel that predicts    *)
(* from a frame it does not have decodes noise, and nothing reports it.    *)
(* Time is in units of 2.5 ms, rates in kHz.                               *)
(***************************************************************************)
EXTENDS Integers, Sequences, FiniteSets

CONSTANTS ApiRate,     \* APISampleRate, kHz
          ApiChannels  \* NChannelsAPI

ASSUME SilkAssumption == ApiRate \in {8, 12, 16, 24, 48} /\ ApiChannels \in {1, 2}

Channel == {0, 1}
FrameIndex == 0..2

\* lostFlag.
Normal == "normal"
Lost == "lost"
Lbrr == "lbrr"

\* condCoding.
Conditionally == "conditionally"
Independently == "independently"
NoLTPScaling == "independently, no LTP scaling"

NoFrames == [i \in FrameIndex |-> FALSE]

\* A step on a value worked out before it, once.
Then(x, G(_)) == CHOOSE y \in {G(v) : v \in {x}} : TRUE

NoFrame == <<"none", 0>>

-----------------------------------------------------------------------------
(* The state of a channel                                                   *)

\* A resampler: the rate it was initialised for, and whether it is as initialised,
\* has been given all the output since, or has missed some (history).
NoResampler == [in |-> 0, step |-> "off"]

\* first is FirstFrameAfterReset, done NFramesDecoded, frames NFramesPerPacket,
\* tables what the codebooks were chosen for.  History: nlsf is the rate prevNLSF
\* is of (0: none of this run), coded the frame whose indices are the last read.
ResetChannel ==
    [fs |-> 0, nb |-> 0, length |-> 0, tables |-> <<0, 0>>,
     frames |-> 0, done |-> 0, vad |-> NoFrames, lbrr |-> NoFrames,
     first |-> TRUE, res |-> NoResampler, nlsf |-> 0, coded |-> NoFrame]

\* InitDecoder; the channel counts are those of the zero value.
InitSilk == [ch |-> [n \in Channel |-> ResetChannel],
             api |-> 0, internal |-> 0, prevMidOnly |-> FALSE]

\* ResetDecoder keeps the channel counts.
ResetSilk(s) == [s EXCEPT !.ch = InitSilk.ch, !.prevMidOnly = FALSE]

\* silkDecoderSetFs; the output rate does not change in the life of a decoder.
SetFs(ch, fs) ==
    LET length == ch.nb * 5 * fs
        resampled == IF ch.fs # fs
                     THEN [ch EXCEPT !.res = [in |-> fs, step |-> "fresh"]] ELSE ch
        tabled == IF ch.fs # fs \/ ch.length # length
                  THEN [resampled EXCEPT !.tables = <<fs, ch.nb>>,
                                         !.length = length] ELSE resampled
    IN  IF ch.fs # fs
        THEN [tabled EXCEPT !.fs = fs, !.first = TRUE, !.coded = NoFrame]
        ELSE tabled

\* Subframes of a frame and frames of a payload, by its duration.
Subframes(payload) == IF payload = 4 THEN 2 ELSE 4
FramesPerPacket(payload) == IF payload <= 8 THEN 1 ELSE payload \div 8

LegalPayload(payload) == payload \in {4, 8, 16, 24}
LegalRate(fs) == fs \in {8, 12, 16}

\* What a channel is set up for must be what the payload says.
FitsPayload(ch, ctl) ==
    /\ ch.fs = ctl.rate /\ ch.nb = Subframes(ctl.payload)
    /\ ch.length = ch.nb * 5 * ch.fs /\ ch.tables = <<ch.fs, ch.nb>>

-----------------------------------------------------------------------------
(* One frame of one channel                                                 *)

\* A frame coded conditionally takes its first gain and its pitch lag from the
\* frame before it in the payload, of the same kind.
HasPrevious(ch, kind, i, cond) ==
    cond = Conditionally => ch.coded = <<kind, i - 1>>

\* DecodeParameters interpolates from prevNLSF in 20 ms frames, unless first.
HasNLSF(ch) == (ch.nb = 4 /\ ~ch.first) => ch.nlsf = ch.fs

\* DecodeFrame: whether it decodes or conceals, and the channel after.
IsCoded(ch, lost) == lost = Normal \/ (lost = Lbrr /\ ch.lbrr[ch.done])

DecodeFrame(ch, lost) ==
    IF IsCoded(ch, lost)
    THEN [ch EXCEPT !.coded = <<lost, ch.done>>, !.nlsf = ch.fs,
                    !.first = FALSE, !.done = @ + 1]
    ELSE [ch EXCEPT !.coded = NoFrame, !.done = @ + 1]

\* A channel that has no frame here.
SkipFrame(ch) == [ch EXCEPT !.coded = NoFrame, !.nlsf = 0, !.done = @ + 1]

\* The side channel's memory is cleared for the first frame with side coding.
RestartSide(ch) == [ch EXCEPT !.first = TRUE, !.coded = NoFrame, !.nlsf = 0]

-----------------------------------------------------------------------------
(* Decoder.Decode.  ctl is DecControlStruct: internal channels, rate and    *)
(* payload; sym the symbols the payload holds.                              *)

Coded(ctl) == 0..(ctl.channels - 1)

OnCoded(s, ctl, Op(_)) ==
    [s EXCEPT !.ch = [n \in Channel |-> IF n \in Coded(ctl) THEN Op(@[n]) ELSE @[n]]]

\* "Test if first frame in payload", and the second channel of a new stereo.
NewPacket(s, ctl, new) ==
    LET counted == IF new THEN OnCoded(s, ctl, LAMBDA ch : [ch EXCEPT !.done = 0])
                   ELSE s
    IN  IF ctl.channels > s.internal THEN [counted EXCEPT !.ch[1] = ResetChannel]
        ELSE counted

\* Lengths, rate and codebooks.
SetUp(s, ctl) ==
    IF s.ch[0].done = 0
    THEN OnCoded(s, ctl, LAMBDA ch :
             SetFs([ch EXCEPT !.frames = FramesPerPacket(ctl.payload),
                              !.nb = Subframes(ctl.payload),
                              !.coded = NoFrame], ctl.rate))
    ELSE s

\* The right channel goes on where the mono output was.
StereoStarts(s, ctl) ==
    LET starts == ApiChannels = 2 /\ ctl.channels = 2 /\ (s.api = 1 \/ s.internal = 1)
        copied == IF starts THEN [s EXCEPT !.ch[1].res = s.ch[0].res] ELSE s
    IN  [copied EXCEPT !.api = ApiChannels, !.internal = ctl.channels]

\* The VAD and LBRR flags; then, decoding normally, all LBRR frames are read over.
Flags(s, ctl, lost, sym) ==
    IF lost # Lost /\ s.ch[0].done = 0
    THEN [s EXCEPT !.ch = [n \in Channel |->
             IF n \notin Coded(ctl) THEN @[n]
             ELSE LET frames == 0..(@[n].frames - 1)
                      flagged == {i \in frames : sym.lbrr[n][i]}
                  IN [@[n] EXCEPT
                        !.vad = [i \in FrameIndex |-> i \in frames /\ sym.vad[n][i]],
                        !.lbrr = [i \in FrameIndex |-> i \in flagged],
                        !.coded = IF lost = Normal /\ flagged # {}
                                  THEN <<Lbrr, CHOOSE i \in flagged : \A j \in flagged : j <= i>>
                                  ELSE @]]]
    ELSE s

\* The LBRR frames are read conditionally after one another; the mid-only flag is
\* only there when the side has none.
SkipReads(s, ctl, sym) ==
    LET Frame(i, n) ==
            IF ~s.ch[n].lbrr[i] THEN <<>>
            ELSE (IF ctl.channels = 2 /\ n = 0
                  THEN <<"pred">> \o (IF ~s.ch[1].lbrr[i] THEN <<"midonly">> ELSE <<>>)
                  ELSE <<>>)
                 \o << <<n, IF i > 0 /\ s.ch[n].lbrr[i - 1]
                            THEN Conditionally ELSE Independently>> >>
        Both(i) == Frame(i, 0) \o (IF ctl.channels = 2 THEN Frame(i, 1) ELSE <<>>)
    IN  Both(0) \o Both(1) \o Both(2)

\* Whether the predictor is in the payload, and the mid-only flag after it.
HasPredictor(s, ctl, lost) ==
    /\ ctl.channels = 2
    /\ lost = Normal \/ (lost = Lbrr /\ s.ch[0].lbrr[s.ch[0].done])

\* Mutant of HasMidOnly: it follows the side's VAD flag in LBRR data too.
HasMidOnlyByVad(s, ctl, lost) ==
    HasPredictor(s, ctl, lost) /\ ~s.ch[1].vad[s.ch[0].done]

HasMidOnly(s, ctl, lost) ==
    /\ HasPredictor(s, ctl, lost)
    /\ LET i == s.ch[0].done
       IN  IF lost = Normal THEN ~s.ch[1].vad[i] ELSE ~s.ch[1].lbrr[i]

\* decodeOnlyMiddle.
MidOnly(s, ctl, lost, sym) ==
    /\ HasMidOnly(s, ctl, lost)
    /\ IF lost = Normal THEN sym.mid[s.ch[0].done] ELSE sym.lmid[s.ch[0].done]

SideRestarted(s, ctl, midOnly) ==
    IF ctl.channels = 2 /\ ~midOnly /\ s.prevMidOnly
    THEN [s EXCEPT !.ch[1] = RestartSide(@)] ELSE s

HasSide(s, ctl, lost, midOnly) ==
    IF lost = Normal THEN ~midOnly
    ELSE \/ ~s.prevMidOnly
         \/ ctl.channels = 2 /\ lost = Lbrr /\ s.ch[1].lbrr[s.ch[1].done]

\* i is frameIndex, which counts channel 0: for the side it has been advanced.
CondCoding(s, n, i, lost) ==
    IF i <= 0 THEN Independently
    ELSE IF lost = Lbrr
    THEN (IF s.ch[n].lbrr[i - 1] THEN Conditionally ELSE Independently)
    ELSE IF n > 0 /\ s.prevMidOnly THEN NoLTPScaling
    ELSE Conditionally

\* The frame of one channel: the state, whether it has what it predicts from, and
\* what it reads.
Frame(s, ctl, n, lost, hasSide) ==
    LET ch == s.ch[n]
        cond == CondCoding(s, n, s.ch[0].done - n, lost)
        decodes == n = 0 \/ hasSide
        coded == decodes /\ IsCoded(ch, lost)
    IN  [s |-> [s EXCEPT !.ch[n] = IF decodes THEN DecodeFrame(ch, lost)
                                   ELSE SkipFrame(ch)],
         sound |-> /\ decodes => FitsPayload(ch, ctl)
                   /\ coded => HasPrevious(ch, lost, ch.done, cond) /\ HasNLSF(ch),
         reads |-> IF coded THEN << <<n, cond>> >> ELSE <<>>]

\* A resampler takes the output of its channel at its rate, all of it; the right
\* one starts anew only with the left one.
ResamplerFits(s, n, rate) ==
    LET res == s.ch[n].res
    IN  /\ res.in = rate /\ res.step # "off"
        /\ res.step = "fresh" => s.ch[0].res.step = "fresh"

\* Which resamplers run: one for every output that has a channel of its own, and
\* the right one once more when stereo collapses to mono.
Resampled(ctl, toMono) ==
    {n \in Channel : n < ApiChannels /\ n < ctl.channels}
        \cup (IF ApiChannels = 2 /\ ctl.channels = 1 /\ toMono THEN {1} ELSE {})

\* The end of a call.  units is nSamplesOut; sound says that every frame and every
\* resampler continues what it should.
Output(flagged, both, midOnly, ctl, lost, new, toMono, sym) ==
    LET used == Resampled(ctl, toMono)
    IN  [s |-> [both.s EXCEPT
                  !.ch = [n \in Channel |->
                            [@[n] EXCEPT !.res.step = IF n \in used THEN "on" ELSE "off"]],
                  !.prevMidOnly = IF lost = Lost THEN @ ELSE midOnly],
         units |-> 2 * flagged.ch[0].nb,
         sound |-> both.sound /\ \A n \in used : ResamplerFits(both.s, n, ctl.rate),
         reads |-> (IF HasPredictor(flagged, ctl, lost)
                    THEN <<"pred">> \o (IF HasMidOnly(flagged, ctl, lost)
                                        THEN <<"midonly">> ELSE <<>>)
                    ELSE <<>>) \o both.reads,
         skipped |-> IF lost # Lost /\ new THEN SkipReads(flagged, ctl, sym) ELSE <<>>]

\* From the flags on; s is the state at the start of the call.
DecodeFlagged(s, flagged, ctl, lost, new, sym) ==
    LET midOnly == MidOnly(flagged, ctl, lost, sym)
        ready == SideRestarted(flagged, ctl, midOnly)
        hasSide == HasSide(ready, ctl, lost, midOnly)
        toMono == ctl.channels = 1 /\ s.internal = 2 /\ ctl.rate = s.ch[0].fs
    IN  Then(Frame(ready, ctl, 0, lost, hasSide), LAMBDA mid :
            LET side == Frame(mid.s, ctl, 1, lost, hasSide)
                frames == IF ctl.channels = 2
                          THEN [s |-> side.s, sound |-> mid.sound /\ side.sound,
                                reads |-> mid.reads \o side.reads]
                          ELSE mid
            IN  Then(frames, LAMBDA both : Output(flagged, both, midOnly, ctl, lost, new,
                                                  toMono, sym)))

\* One call.
DecodeSilk(s, ctl, lost, new, sym) ==
    Then(NewPacket(s, ctl, new), LAMBDA opened :
        Then(Flags(StereoStarts(SetUp(opened, ctl), ctl), ctl, lost, sym), LAMBDA flagged :
            DecodeFlagged(opened, flagged, ctl, lost, new, sym)))

\* Between payloads: the flags and the place in the payload are set anew by the
\* first call of the next, or not looked at.
Forget(s) == [s EXCEPT !.ch = [n \in Channel |->
                 [@[n] EXCEPT !.vad = NoFrames, !.lbrr = NoFrames, !.coded = NoFrame]]]

\* What the Opus decoder must call it with.
LegalControl(ctl) ==
    /\ ctl.channels \in {1, 2} /\ LegalRate(ctl.rate) /\ LegalPayload(ctl.payload)
=============================================================================
