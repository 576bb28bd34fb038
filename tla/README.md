# A TLA+ model of go-opus

go-opus is a Go port of the libopus codec with its own Ogg Opus container.
This directory holds TLA+ modules that model the parts of it whose correctness
depends on order, state and failure, the TLC configurations that check them on
small instances, and theorems that hold for every instance, with proofs for
TLAPS. Line numbers refer to the sources under `src/`.

## 1. The system

| part | state it keeps | operations | talks to |
|---|---|---|---|
| muxer, `oggopus/writer.go` | pending page (segment table, granule, CONTINUED), page number, one held packet, cumulative granule | writeHeaders, writeAudioPacket, commit, close | an `io.Writer` that may fail |
| demuxer, `oggopus/reader.go`, `page.go`, `header.go` | partial packet, queue of a page's packets, last and final granule, headers still to come | newContainerReader, nextPacket, repositionAt, auxReader | an `io.Reader` that may fail, end early, or lack a page |
| streaming encoder, `oggopus/encoder.go` | carry of bytes short of a frame, counts of source and coded samples, closed | NewEncoder, Reset, Write, Close | codec seam, muxer |
| streaming decoder, `oggopus/decoder.go` | decoded bytes not yet read, pre-skip left, samples delivered, end-trim limit, seek target, latched error, codec-in-sequence flag | NewDecoder, Reset, Read, WriteTo | codec seam, demuxer, read-ahead buffer |
| seeks, `oggopus/seek.go` | page index, scan window | Length, SeekToSample, SeekToSampleExact | the source under the read-ahead buffer |
| public codec API, `opus` | configuration, buffers | Encode, Decode, DecodeFEC, Reset, the multistream pair | opusenc, opusdec |
| Opus decoder, `internal/opusdec` | previous mode, redundancy, last packet duration, the two codecs | Decode, concealment, FEC, Reset; multistream | packet, silk, celt, rangecoding |
| Opus encoder, `internal/opusenc` | channels, bandwidth, DTX count, delay buffer, stereo width | encodeNative, encodeMultiframe, Reset; multistream | celt, rangecoding, packet |
| SILK decoder, `internal/silk` | two channels: rate, frame length, LBRR and VAD flags, last gains and indices, pitch history, loss count; stereo and resampler memory | Decode, plc, resampler | range coder |
| CELT, `internal/celt` | energies of three frames, overlap, post-filter, loss durations; the encoder's reservoir | CeltEncodeWithEC, DecodeWithEC, allocation, bands, MDCT | range coder |
| packet framing, `internal/packet` | repacketizer's frames | Parse, Cat, Out, Pad | callers' buffers |
| range coder, `internal/rangecoding` | range, value, carry run, both ends of the buffer | Encode, EncBits, EncShrink, EncDone and their inverses | callers' buffers |
| fixed point arithmetic, `internal/fixedmath`, `internal/silkmath` | none | integer formulas | celt, silk |
| helpers: `pcm`, `internal/wav`, `cmd`, `internal/opuscompare`, `internal/reftest`, `rules`, `scripts`, `tools` | none that matters here | file formats, flags, comparison with libopus | |

Nothing in the repository runs concurrently with itself: an Encoder or a
Decoder is used by one goroutine. What is hard is what happens between calls
and around failures:

* a call that fails half way leaves state the next call builds on (a refused
  page in the middle of a packet, a Reset that fails in the headers, a seek that
  fails after the source moved);
* one source read from two sides (sequential read-ahead and the index scans);
* facts learned late (the end trim, from a page whose packets are half served);
* boundaries: packets of a multiple of 255 bytes, full segment tables, the
  pre-skip against the coded samples, bisection bounds against page bounds;
* streams no encoder here writes but every decoder meets: no end-of-stream page,
  chained streams, a cut tail, granules that claim too much, missing pages;
* codecs with memory, behind a switch: SILK and CELT are fed in turn, together or
  not at all, by packets whose mode, bandwidth, channels and length change from
  one to the next, with losses in between;
* two sides that must decide alike from different knowledge: every optional
  element of a CELT frame is there only if both see the room for it;
* budgets in integers that are divided, reserved, lent and given back: the bytes
  of frames and streams, the bits of bands, the bits of halves of a band.

`PROJECT.json` lists each of these hazards at its line, with the properties
that cover it.

### What makes each part correct

* Muxer: whatever the sink refuses, the pages on it are valid and agree with
  each other; while it refuses nothing, the packets are there whole, in order,
  exactly dated, and complete once close returns.
* Demuxer: what goes in comes out whole, once and in order; a missing page costs
  the packets that were on it and no others; a packet is refused for its length
  alone; the duration is the one the writer closed with.
* Encoder: the duration of a stream is that of the bytes Write took, the coded
  samples cover it, and no call loops.
* Decoder and seeks: every Read begins with the sample it should, after any
  sequence of reads, measurements, seeks, failures and Resets; an exact seek
  stays exact; Length is what sequential decoding yields.
* Range coder: what was coded is decoded, whatever carries ran through the
  buffer, whatever was tried in it and given up; both sides count the same bits;
  a packet that fits by that count fits; the registers never wrap.
* Packet framing: the parser accepts the packets of RFC 6716 and nothing else,
  the two cheap measures agree with it, and what the repacketizer writes parses
  to the frames it was written from, at the length it reports.
* Opus decoder: a call fills what it was asked for; a layer goes on only from the
  frame before in time or from a reset; SILK's LBRR frames are skipped as they are read.
* Opus encoder: a packet has the size and the duration asked for; CELT's input is
  continuous; DTX and the rate decisions keep their bounds; channels reach the
  stream and the place of their layout.
* CELT: encoder and decoder walk the same syntax; frame, reservoir, allocation and
  bands keep their budgets; folding copies from this frame; each symbol decodes to
  what was coded; without quantisation the transform is transparent; after a loss
  the next frame continues what was heard.
* SILK: prediction reaches only into history that is there; resampled output is
  one stream, however the input is cut.

## 2. Modules

| module | what it is | lines of |
|---|---|---|
| `OggPage` | segments, lacing, pages: what writer, reader and index share | `oggopus/page.go` |
| `OggWriter`, `OggWriterProofs` | the muxer; theorems about it | `writer.go`, `header.go` |
| `OggReader` | the demuxer, over an input sequence of pages | `reader.go` |
| `PacketStream` | the abstract specification: a channel of packets with an end | |
| `OggStream`, `OggStreamProofs` | `OggWriter` and `OggReader` over one sink; the refinement of `PacketStream`, and its proof | |
| `OggEncoder`, `OggEncoderProofs` | the streaming encoder, over `OggWriter`; its theorem | `encoder.go` |
| `OggSeek` | the page index: pure functions of a finished file | `seek.go` |
| `OggScan` | the page scanner: windows over bytes | `seek.go` |
| `OggDecoder` | the streaming decoder and its seeks, over `OggSeek` | `decoder.go`, `seek.go` |
| `OggOneShot` | decoding into memory under a ceiling; its theorem | `decode_oneshot.go` |
| `OpusPacket` | the parser of Opus packets | `internal/packet/parse.go`, `sizes.go`, `toc.go` |
| `Repacketizer` | over `OpusPacket`: the repacketizer and padding, and the parser on any bytes against the layout of RFC 6716 | `repacketizer.go`, `parse.go` |
| `RangeCoder` | what the range encoder and decoder share | `internal/rangecoding/entcode.go` |
| `RangeEncoder`, `RangeDecoder`, `RangeProofs` | the two, a step for each call and each turn of their normalization; theorems | `entenc.go`, `entdec.go` |
| `RangeStream` | a packet from the first symbol coded to the last decoded | |
| `OpusDecoder` | one decoder: modes, redundancy, concealment, FEC | `internal/opusdec/opus_decoder.go` |
| `SilkDecoder` | the control of the SILK decoder under it | `internal/silk/dec_api.go`, `decode_*.go` |
| `OpusEncoder` | one encoder, as the public package configures it | `internal/opusenc` |
| `Multistream`, `MultistreamProofs` | encoders and decoders of one or more streams, over `OpusEncoder`; theorems | `opus_multistream_*.go`, `opus/*.go` |
| `CeltMode` | the tables of the 48 kHz mode that the CELT modules share | `static_modes_gen.go` |
| `CeltFrame`, `CeltFrameProofs` | the syntax of a frame, encoder against decoder, and its bytes; theorems | `celt_encoder_encode.go`, `celt_decoder.go`, `quant_bands.go` |
| `CeltRate` | the bit allocation | `rate.go` |
| `CeltBands` | the bits of one band and of its halves; which spectrum a band folds | `bands.go` |
| `CeltSymbols` | values to intervals and back | `cwrs.go`, `laplace.go`, `bands.go` |
| `CeltHistory` | what a decoder carries over losses | `celt_decoder.go` |
| `CeltTransform` | over a finite field: MDCT, FFT and synthesis; Haar steps, reordering and rotation of a band, and back | `mdct.go`, `kiss_fft.go`, `bands.go`, `vq.go`, `haar1_simd.go` |
| `CeltTf` | the encoder's search for time-frequency resolutions | `celt_encoder_tf.go` |
| `SilkNlsf` | the filter's frequencies moved apart | `nlsf_decode.go`, `sort.go` |
| `SilkPitch` | how far back the decoder predicts from | `decode_core.go`, `decode_pitch.go`, `plc.go` |
| `SilkResampler` | the decoder's resampler, by positions | `resampler.go`, `resampler_private.go` |
| `CodecStateProofs` | theorems about `CeltHistory`, `SilkPitch` and `SilkNlsf` | |
| `MC...` | small instances for TLC; `MCAlgorithms` runs fifteen parts side by side | |

### How state and actions correspond to the code

**`OggWriter`.** `seq, gran, seg, isCont, havePage, audioStarted, swClosed` are
the fields of `streamWriter`; `granule, held, audioCount` those of
`containerWriter`. A segment is known by its packet, its place in the packet
and its length, so a page is a sequence of segments. `pc` and `call` are the
call of `writePacket` in progress: `CommitForced`, `CommitFull` and
`CommitLast` are the three places `commit` is called from, each of which may
fail (`CommitFails`); `PlaceSegment` is one turn of the loop; `ReturnHead`,
`ReturnTags`, `ReturnWrite` and `ReturnClose` are what each caller does with a
result without error. `accepted` and `closing` are history: what the muxer was
given, and that close was called. After a refused page any call may follow, as
a caller may make it.

**`OggReader`.** `input` is what the source holds, `rpos` how far it has been
read, `next` the segment of the page being processed: `ReadPage`, then
`JoinSegment` or `CutSegment` or `PacketTooLarge` for each segment, then
`EndPage`. `stage` says which packet the caller waits for: OpusHead, OpusTags,
audio. `ReaderFault` is what a source can do: end inside a page, fail, hold a
page of another stream, or miss a page.

**`OggStream`** lets every step of the writer interleave with every step of
the reader, and lets the writing process go away (`Abandon`).

**`OggEncoder`** adds the Encoder's fields to `OggWriter`. `stage` is the place in
Write or Close between two calls of the muxer; the muxer's steps run in between
(`WriterRuns`). The codec has no error to return: it is given whole frames of 20 ms and a
buffer that holds six frames of the largest size (`encoder.go:195-198` is unreachable). PCM is a number of bytes, a frame `FrameLen` samples. `taken` is
what Write reported consumed, the reference the duration is compared with.

**`OggSeek`** takes a file to be its pages, the durations of its packets and
what follows the last whole page. `BuildIndex`, `ChooseLanding` and what they
call follow `seek.go` bisection by bisection, as recursive functions. The
reference is `Link`, the pages a sequential reader meets, and `SequentialLength`, the samples they
decode to. `Measure` is the walk that `decodedTotal` and `checkInitialGranule` share, with
its two ways out: a packet over the limit, and one without a duration. The scans are modelled
by the page they return, and checked to return it by `OggScan`.

**`OggScan`** has a source of a few bytes in which the capture pattern may stand
anywhere, in front of a page or not, and the window `d.scan` with what earlier
calls left in it; its operators are `pageAt`, `findForward`, `findBackward` and
`fill`, its steps the calls, at any span.

**`OggDecoder`** splits a call where the source can fail. `Filling` and the
actions under it are `fill`; `Ask`, `IndexBuilt`, `IndexFails` are `seekCheck`
and `ensureIndex`; `SeekRestarts`, `SeekLands`, `ExactBuffered`,
`ExactForward`, `ExactRestarts`, `PastEnd` and `SeekFails` are the two seeks.
`ahead` is what the read-ahead buffer holds, `spos` where the source is: an
index build moves the second under the first. PCM is counted: `pcm` says how
many bytes are left, the sample they end at, and whether the codec had decoded
every packet before. `cursor` and `exact` are history: which byte the next Read
must begin with, and whether its bytes must be those of a sequential decode.
`plan` holds the index functions' results for the bound file, worked out when
it is bound.

**`OggOneShot`** hands a writer the pieces of one packet after another, in words
up to `MaxInt`, small enough that the sums of its check can overflow.

**`OpusPacket`** keeps the parser as a record of `parser`'s fields that each
stage takes and returns; `ok` is FALSE once a stage has returned an error.
`Then` makes TLC compute a stage's result once. **`Repacketizer`** has `toc` and
`frames` (`rp.frames[:rp.nbFrames]`; `rp.framesize` follows from `toc`), and one
action for each of Init, Cat, the Out family, and Pad; `out` is the last packet
written and `wanted` the frames it was written from. Sizes and bytes are worked
out apart, as in the code. `Receive` grows a buffer nobody has framed, for the parser
alone. Slices are values: Cat's frames alias its callers'
buffers, and a caller who reuses one before Out changes the frames.

**`RangeEncoder`**, **`RangeDecoder`**. `enc` and `dec` are the fields of the
two structs. A coding call narrows the range (`Narrow`) or takes a part of it
(`Take`); then each turn of `enc_normalize` or `dec_normalize` is a step, and
EncUint and DecUint go on to their raw bits when the last is done. `Symbols`
says what may be coded, one record for a call and its arguments. A shift is a
product or a quotient by a power of two, a mask a remainder. The widths are parameters:
digits of 8 bits, registers of 32 in the code. **`RangeStream`** runs
one encoder and then one decoder over its buffer. `Snapshot`, `Restart` and
`KeepFirst` are the two trial encodings of `quant_bands.go:398-437` and
`bands.go:1476-1522`, whose copied Encoders share the buffer; `Shrink`, `Patch`,
`EncDone`, `FlushTurn` and `Finish` follow `entenc.go`; `StartDecoding` may put
other bytes behind the buffer, which `ShrinkToBuffer` takes off before raw bits
are read, as `opus_decoder.go:528` does for a redundant frame; `DecodeOn` reads what
nobody coded, behind the symbols or in any bytes at all. `script` and
`tells` are history: the symbols coded, and Tell after each.

**`OpusDecoder`**. `st` has the fields of `OpusDecoder` that outlive a call; for
each of CELT and SILK it also keeps, as history, how far in time that codec has
decoded. An action is one call of Decode, on a packet, on nothing (concealment of a
capacity) or on the LBRR frames of a packet; `DecodeFrameOf` is `opusDecodeFrame`,
and `Transition` its call of itself for the 5 ms that join two modes. What the call did is in
`last`: whether each frame found its codec at the end of the frame before, whether
all samples were written before they were read. The redundant frame of a switch to SILK
must be found in step as well, unless its samples are `Ignored`, which they are behind a
SILK frame without redundancy only. The frame's own CELT part may go on from that
redundant frame (`BehindRedundant`): the code does not prevent it, which
`DiscardsCelt` reports. **`SilkDecoder`** is the SILK half
of that state as operators on records, one per function of `dec_api.go` and the
files under it; a packet's flags (VAD, LBRR, mid only) are its data. Time is in
units of 2.5 ms.

**`OpusEncoder`** has an operator for each step of `encodeNative` on the encoder's
state, with the code's own numbers: budgets in bytes, thresholds in bits per
second. CELT is known by the bytes it wants. The public package forces CELT and
disables everything SILK, so the branches for the other modes, unreachable there,
are not modelled. **`Multistream`** makes calls of Encode with any duration, room
and want of a configuration, and hands each packet, whole or not, to the decoders.
A packet may be its TOC alone, one byte, and 100 ms in one byte are refused;
`AtLeastTwoBytes` sets that against the documentation. `runs` counts silence and what of it
was left out; `heard` is which input channels
each output channel plays.

**`CeltFrame`** codes a frame element by element, in the order of the bitstream;
each action is one element, with the encoder's guard and the decoder's. The
decoder's guards know the final length only, which the encoder fixes half way
(`Shrink`): `needs` and `refuses` collect the lengths for which the decoder
decides alike. Costs are whole bits, or in eighths where the code asks for
`TellFrac`. Frames begin at band 0 with one bit
told, as they do in a CELT-only stream, the only kind the encoder makes.
`FrameAssumption` says of the constants that a frame's rate is two bytes at least
(`rates.go:443` codes none below three), and that a variable frame's elements and
boosts, at their longest, lie below the cap of `1275 >> (3 - LM)` bytes (`FrameCap`).
The code never compares these: it lets the cap win over the minimum. So model and
theorems are about frames of up to 21 quanta of boosts in 2.5 ms, 127 in 5 ms, 340 in
10 ms and 765 in 20 ms, each quantum 6 bits; a frame with more, and with most of its
energies in the longest codes besides, is outside of them.
Allocation and bands stand in it for what they promise, which `CeltRate` and
`CeltBands` check.

**`CeltRate`**: a step is a turn of a loop of `clt_compute_allocation` or
`interp_bits2pulses`; what the encoder codes and the decoder reads (skip,
intensity, dual stereo) is a choice. **`CeltBands`** asks two things: `norm` says of each
coefficient of the two pooled buffers by which band it was made, `Stale` if by a
former frame; `Prepare` works out what a band may fold, `CodeBand` writes it,
`RoundDown` and `RoundUp` are the encoder's two tries. `CodeSplit` follows one band through
`quantBand`, `quantBandStereo` and `quantPartition`, which is recursive, with a
choice of angle at every cut; symbols cost their size rounded up to an eighth bit.
**`CeltSymbols`**: for each value the encoder's interval and the decoder's reading
of the points at both its ends, for pulse vectors, coarse energies and angles.

**`CeltHistory`** follows the energies of one band, `Watched`, in both channels, in
halves of 6 dB: no band touches another's. A frame that is coded has any of the
energies of `Received`; from what it is predicted (`Predicted`) is the code's: `Joined`
for one channel, `Safe` behind a loss, in the four arrays as a frame (`Remember`), noise
(`Decay`) and the edges of the coded bands leave them. `lastTwo` is history: the energies
of the last two frames themselves. Behind a loss the prediction is neither's, and what
makes it safe is that it is not above them, so that is what `FramesContinue` says.
Prediction matters for inter frames; an intra frame heeds none. Actions are a frame
received, a frame lost, a range changed, a reset. The comment that two packets are
needed before pitch is repeated holds after noise; a decoder that begins may repeat
it after one, as in the reference. **`CeltTransform`** computes with the field of
15361 elements, in which the roots of unity of all transform lengths exist, so that
`Transparent` is an equality; the code's tables become powers of a root, its window
the sine of half the angle: all the transform needs of it is that its halves are
power complementary.

Its second half sends one band through quantBand, quantPartition and expRotation
and back in that field, where 1/sqrt(2) and the sine and cosine of an angle exist:
`Transparent` is of both. The leaf is not quantized; what the pulses leave
of it is data. **`CeltTf`** measures the bands of a frame one by one, each at any
resolution it can have, and `TfCheapest` compares the search of the code with all
flags there are. **`SilkNlsf`** takes any frequencies, in any order, through the
loop of twenty moves and the fallback. The loop does not always end by itself: where
there is little room two pairs can push each other for ever, as one in seven of the
frequencies of the instance do, so the fallback is not a formality.

**`SilkPitch`** keeps of a channel its rate, number of subframes, last lag and the
concealment's lag in 1/256 samples. `plcUpdate` takes the lag of the subframe with the
strongest taps; the taps of each codebook vector add up to more than zero, so there
always is one (`Strongest`). `Decode`, `Conceal`, `SetFs` and
`RestartSide` are what moves them. **`SilkResampler`**: a sample is its place in
the stream; the fractional position of each output sample is computed as the code
does, in 16 fractional bits.

**`MCAlgorithms`** puts fifteen of these parts into one state machine. Each works
on one input at a time and shares nothing with the others; `topic` says which of
them a behaviour is of, and the others stay in their initial state.

## 3. Runs

| run | asks | bounds |
|---|---|---|
| `ogg_stream` | muxer and demuxer implement `PacketStream`; granules are exact | 3 audio packets of 1, 2 or 6 bytes, two durations; segments of 2 bytes, pages of 2 segments; the writer may go away |
| `ogg_stream_lossy` | pages under a failing sink; the demuxer when a page is missing or foreign, the source fails, a packet is over the limit; that reading ends | 3 packets of 2, 6, 7 bytes at a limit of 6; 1 refused and 1 missing page |
| `ogg_encoder` | the Encoder's duration and padding; beside it, of CELT frames: one syntax, budgets, reservoir | calls of 1, 3 and 12 bytes, frames of 6 bytes, 14 bytes in all, 2 refused pages, 1 Reset; three kinds of narrow band frames (CBR, VBR, constrained VBR), buffers of 2, 4 and 13 bytes, up to 2 boosts |
| `ogg_decoder` | the Decoder under reads, seeks, failures, Reset; the index of any file | 9 files played, 326 more indexed; reads of 3 bytes, 3 targets, 1 failure of the source, 1 Reset |
| `encoder_failed_reset` | finding: a Reset that fails in its headers | as `ogg_encoder`, 1 refused page |
| `encoder_consumed` | finding: samples counted for a refused packet | as `ogg_encoder`, 1 refused page |
| `silk_noise` | finding: which subframes the noise is chosen by | two contours, one lag |
| `redundant_not_discarded` | finding: CELT goes on from its own redundant frame | as `opus_decoder` |
| `encoder_one_byte` | finding: a packet of one byte without DTX | one encoder, frames of 20 and 100 ms, buffers of 1 and 2 bytes |
| `opus_decoder` | calls, layers and LBRR of the decoder, for ever; beside it, of the range coder: what is decoded, the bits both sides count, what fits, registers of both sides | 48 kHz stereo; 25 packets: every mode, 2.5 to 60 ms, mono and stereo, each redundancy, bad and empty frames; capacities of 7.5, 20 and 75 ms; range coder: up to 4 of 10 symbols; 3 where two encodings are tried, behind the first; buffers of 0, 3 and 6 digits, digits of 2 bits, registers of 8; nothing or 3 digits behind the buffer; an empty packet in any bytes of up to 3 digits; decoding goes on while fewer than 6 bits are used |
| `multistream` | sizes, durations, input, DTX, rate decisions, channels | 4 single encoders and 3 of two streams and five channels; frames of 2.5 to 120 ms, rooms of 1 to 9000 bytes |
| `algorithms` | a property for each of fifteen parts | see below |

Two runs hold two parts each that share nothing: `ogg_encoder` the Encoder and a CELT
frame, `opus_decoder` the decoder and the range coder. `topic` says which of them a
behaviour is of, as in `MCAlgorithms`; a run about one of them takes it alone by
`Topics`.

Why the bounds are enough. With segments of two bytes and pages of two
segments, a packet of 1, 2 or 6 bytes ends inside a page, needs a terminating
zero segment, fills a page exactly, or spans three pages; `lacing` and `commit`
look at nothing but these relations, and the theorems of section 5 remove the
bound. One refused page reaches every place a commit is called from, and two let
a retry fail as well. The frame of the encoder is smaller than the pre-skip plus
one frame and not a divisor of the call sizes, so that each of the relations
`coded < preSkip + source`, equality and surplus occurs. The files indexed in
`ogg_decoder` are every paging of four packets of one or three segments, with and
without end trim, EOS and a second stream; the window below which a bisection walks
is about three pages, so that both phases run. The nine played are: an end trim
longer than a packet on a page with two; no EOS page; a second stream behind the
first; a cut tail; a packet the codec rejects; one beyond the size limit, with
an EOS page and without; audio on the OpusTags page; and a last granule that claims more than there is. Reads of three
bytes with samples of two stop inside samples.

The range coder's registers hold four digits in the instance as in the code, of
two bits instead of eight, with the same rest of one bit; four symbols are
enough for carries through runs of two digits, for EncDone to carry once more,
and for range digits and raw bits to meet in one byte or to lack room. The
theorems of section 5 hold for the code's widths.

The decoder's state in `opus_decoder` is finite, so sequences of calls are not
bounded; its packets take each branch of `opusDecodeFrame`. The rooms and rates of
`multistream` lie on both sides of each threshold, and its counters close over any
number of calls. `CeltFrame` in `ogg_encoder` is about little room: in a frame
with room every element is there on both sides. With 2, 4 and 13 bytes each guard is met with just
enough and one bit short; 13 narrow bands have every element a wider frame has.

The fifteen parts of `algorithms`:

* packet parser: every buffer of up to five bytes over six TOC bytes and ten
  others. Five bytes hold every stage of every code, with frames, lengths and
  padding one byte short and one too many. Lengths of two bytes and paddings of
  more than 254 come with the repacketizer: a frame of 252 bytes is the first with a
  length of two, and buffers of 256, 258 and 514 bytes leave paddings of about 255
  and more; two packets of two 60 ms frames meet the 120 ms limit;
* page scan: sources of 11 bytes, patterns of 2, pages of 3, any window;
* one-shot decode: words of 4 bits, 4 pieces, so that sums overflow;
* allocation: CELT, full band and hybrid, 2.5 and 20 ms, mono and stereo, both
  ends of the trim, totals from starved to saturated, with and without a boost;
* bands: the starts and ends of CELT and hybrid frames, both kinds of stereo, the
  intensity at, in and past the bands, both tries of an angle;
* band split: the first band, a middle and the first hybrid one, budgets in steps,
  five kinds of angle at two levels of cuts;
* symbols: pulse vectors of up to 5 in 5, energies past both ends of the tail in
  seven models, every even resolution of angles up to 32 and three above;
* history: one band that frames code or do not, four kinds of frames (mono and stereo, 2.5
  and 20 ms, with and without a transient) that are loud and quiet in either channel,
  losses of 20 ms counted to 100 ms, beyond which they only let `Safe` fall further (the
  theorem is for any). No frame of silence: the background would take a
  hundred frames to come back from it;
* transform: all four layouts of channels, 2.5 to 20 ms, long and short blocks, in
  every sequence of two frames; the second must be that which went in;
* band shape: bands of 1, 2, 6 and 18 coefficients times the frame size, every change
  of resolution of the table, halved as deep as it can be, rotated or not;
* resolution: three bands, one of them narrow, each at any resolution, two
  importances and two prices of a change: every flag can cost more than it saves;
* filter frequencies: all triples below 14, with distances that leave 4 and 6 of it
  free. One triple in seven ends in the fallback;
* pitch: the extreme contours, four lags, any run of frames, losses and rates;
* resampler: 8, 12 and 16 kHz to every output rate, 22 ms in pieces of 1, 10, 20.

`CHECK_DEADLOCK FALSE` stands where the system may stop: a stream that was read
to its end or whose writer went away, an Encoder that could not be built or
has panicked, a function asked once, a buffer that is full, a packet or a frame
that is done.

### What the runs show

The passing runs hold every property listed in `PROJECT.json`. Five runs find
the code and its comments at odds:

* `encoder_failed_reset`: `reset` sets `e.enc` (`encoder.go:110`) and then writes
  the headers; if the sink refuses them, `e.enc` is set, `e.cw` is nil and
  `e.frame` is empty. The guards of Write and Close look at `e.enc` only, and the
  next call panics. The comments at `encoder.go:76-78` and `errors.go:49-53`
  promise `errUninitialized`.
* `encoder_consumed`: `encodeFrame` counts the samples of a frame
  (`encoder.go:199`) before the packet is accepted. When the sink refuses a page,
  Write reports the frame as not consumed, and a caller who sends it again has
  it counted twice in the end trim.
* `silk_noise`: `plcEnergy` (`silk/plc.go:182`) is called with the subframes of the
  lost frame, and reads the excitation of the last good one with them. Its comment
  says it measures the last two subframes of the good frame. If 20 ms were good and
  10 ms are concealed, it measures the first two, and the noise is then taken from
  the last of the good frame by the wrong criterion. The reference implementation does the same.
* `redundant_not_discarded`: a frame with the redundant frame of a switch to SILK decodes
  that first, for its first 5 ms, and then its own CELT part from the start of the same
  frame. "Make sure to discard any previous CELT state" (`opus_decoder.go:594`) holds only if the
  mode changed and no redundancy ended the frame before (line 595). If the CELT
  packets between a switch to CELT and one back are lost, or if the frame before was hybrid as
  well, the CELT part goes on from the redundant frame. Its samples are used
  then, too: line 651 ignores them behind SILK without redundancy only. Likewise in the
  reference implementation.
* `encoder_one_byte`: with one or two bytes of room a variable rate packet is its TOC
  (`rates.go:515-534`), also without DTX, where `opus/encoder.go:208` says "n is always at least
  2"; the repository's own test encodes into one byte (`encoder_test.go:363`). And 100 ms
  in one byte are refused (`rates.go:929`) though `opus/encoder.go:221` and
  `TestEncodeBufferTooSmall` call a buffer with no room at all the one fatal case.

## 4. Fairness

`StreamFairSpec` and `DecoderFairSpec` assume weak fairness of the steps of a call
in progress, never of the calls: a call is sequential Go code and runs to its
return. In `OggStream` the reader's steps are fair as well: the reader is called
until it reports the end or an error, and its source is fair only in that what is
on the sink can be read. No failure is ever required to happen or to stop
happening, except that a file cut inside a page fails the read that reaches the
cut. The other specifications state no fairness: their calls are single steps or
their properties are safety.

## 5. Proofs

`OggWriterProofs` proves, for all `MaxSegmentLen`, `MaxPageSegments`, packet
lengths, durations and any number of refused pages, from `PageAssumption` and
`WriterAssumption` (the constants are numbers of the kind the code has, and a
page has at least one segment of at least one byte):

* `WellFormedCorrect`: `Spec => []WellFormed`: types, a segment table that never
  exceeds a page, and pages that agree with each other, however often the sink fails;
* `OrderCorrect`: `Spec => []SegmentsInOrder`;
* `CloseComplete`: `Spec => []ClosedIsComplete`;
* `GranulesCorrect`: `Spec => []GranulesExact`.

None of the four is inductive. `PageInv` adds to the types and the pages what
ties the pending page to the last page out (`PendingOK`: the page number is the
number of pages out, CONTINUED says whether that page stopped inside a packet,
the granule is stamped exactly when a packet ends on the pending page) and what
close leaves (`ClosingOK`: nothing is written after EOS). `OrderInv` says, while
no page was refused, that sink and pending page are the stream so far
(`SinkInOrder`, `PendingFollows`), that the call in progress carries the packet
whose turn it is (`CallInTurn`), and which segment comes next at each control
point (`Cursor`). Each is proved by `Init`, one step per action, and
the lemmas about lacing, one commit and one placed segment; the temporal step
is the last. `GranuleInv` adds that the granule about to be stamped is the count of the
last packet placed, for the pending page as for those out, with the count of the
packet held back kept apart: close may still lower it. Every invariant of this
section is a definition of the model and was checked by TLC before it was proved.

`OggEncoderProofs` proves `DurationCorrect`: `EncoderSpec => []DurationIsSource`, from
`EncoderAssumption`. `EncoderInv` says at each control point of Write and Close what
is carried over, what was padded and what was put into frames, so that the samples
of the packets and the samples counted from the caller stay a known distance apart;
Close's end trim takes off that distance. The encoder keeps the muxer's invariants
because each of its steps is a step of the muxer or leaves it alone, or is a reset,
which begins a new one.

`OggStreamProofs` proves what muxer and demuxer promise together, from
`StreamAssumption` (a page of another stream has another serial, and the packet limit
is a natural number) and the muxer's:

* `DurationReported`: `StreamSpec => []DurationExact`. The reader stands at a page
  the writer wrote (`AtPage`), so the end it reports is that of the last page;
  what it missed before does not enter;
* `PacketsSurvive`: `StreamSpec => []WholePacketsSurvive`, whatever pages the source
  missed. `SurvivalInv` adds two parts to `StreamInv`, because that one says nothing
  once a page is gone. `Survivors` describes what `processPage` has in its hands by
  the segment it read last (`LeftBy`): the first part of that segment's packet if no
  page with a part of it is missing, and anything otherwise; from there a packet
  none of whose pages is missing is joined whole and kept, in the queue or among
  those served, or an audio packet stands where `newContainerReader` takes a header,
  which will refuse it (`Doomed`). `Measured`, for a source that misses nothing, says
  that what was joined is within `AudioLimit` and that the packet refused is the first
  that is not. What a packet's length is takes the value of a fold at a
  sequence of any length: the function the fold chooses exists and adds the last
  segment to what comes before it (`TotalsExist`, `TotalsAre`), both by a least
  counterexample (`LeastOf`), so the segments joined so far are a multiple of a full
  one until the packet is whole (`JoinedLen`);
* `Delivery`: `StreamSpec /\ []Intact => DeliversPackets`, where `Intact` says that no
  page was refused or lost so far: the refinement of `PacketStream`, its safety, for every
  geometry, limit and interleaving. `FaultlessDelivery` is the same without the
  premise where `MaxFails` and `MaxGaps` are 0. `StreamInv` says that what the
  reader has queued, what it has handed on and the packet it is assembling are the
  segments of the pages it has read, cut where packets end; with
  `SegmentsInOrder` of the muxer they are the packets accepted, and each step of the
  two is a step of `PacketStream` or leaves its variables alone.

`CodecStateProofs` proves of what decoders carry from frame to frame, and of the
frequencies of a filter:

* `FramesAlwaysContinue`: `HistorySpec => []FramesContinue`, for any band, ends of the
  coded bands, filters, frames and energies and any bound on a loss
  (`HistoryAssumption`). Of `HistoryInv`, `ControlInv` ties the counters and flags of the
  decoder to the frames heard, and `EnergyInv` its four arrays to `lastTwo`: what is
  remembered of the last frame is never above it, noise only lowers it, and not below the
  background, and a band that was not coded is silent in the arrays that bound it. With the
  floor of -9 that `unquantCoarseEnergy` lifts each prediction to, a frame behind a loss is
  then predicted from no more than those before it had;
* `HistoryAlwaysReaches`: `PitchSpec => []HistoryReaches`, from `PitchAssumption`, for all
  lags the code can decode and any contours of the three codebooks. `PitchInv` bounds the
  lag kept through a loss by the rate it was concealed at; the lemmas under it are
  the codebooks' (`CodebooksSmall`, `PitchDecoded`), the drift of the lag
  (`DriftFacts`) and the reach of a decoded and of a concealed frame;
* `NlsfAlwaysApart`: `NlsfSpec => []NlsfApart`, for every order, number of turns and
  sequence of distances that leaves room (`DistancesFit`: they add up to less than
  2^15, the last being 2 or more, as those of both codebooks do). `NlsfInv` is only
  where the frequencies come from; the argument is in the three loops. A turn keeps
  every frequency within 0 and 2^15 - 1 (`MoveKeeps`), so nothing wraps in its 16
  bits, and so does the sort (`SortedKeeps`). The pass upwards leaves each frequency
  no lower than the distances below it add up to, also where the sum saturates
  (`PushedUpIs`); the pass downwards keeps that and places one frequency more with
  each step (`StepPlaces`), so that none is pushed past the lower end. Each loop is
  a fold, and a lemma apiece says that it is a chain of steps (`Turns`, `Upwards`,
  `Downwards`).

`MultistreamProofs` proves `ChannelsAlwaysKept`: `Spec => []ChannelsKept`, for every layout
that `ValidateLayout` and `ValidateEncoderLayout` take (`ConfigAssumption` has the
ranges `NewMSEncoder` checks). `ChannelInv` says of the packet under way that its streams
last the same and carry channels of their own. What a decoder takes is then that packet
(`TakenPackets`), and the two walks over the layout meet in the same places: a
stream's place in the mapping is its own (`ShareOfPlace`), and every place that is
not muted has a stream (`FirstIsHeard`). Nothing is assumed of what the encoders make of
the signal.

Of the encoders it proves, for every sampling rate, configuration and sequence of calls
and resets, those that are refused or fail half way included
(`ConfigAssumption`, `RatesAssumption` and `CallsAssumption` are what the constructors
and setters let through, for buffers of up to 100000 bytes):

* `InputAlwaysContinues`: `Spec => []InputContinues`;
* `DtxAlwaysBounded`: `Spec => []DtxBounded`.

Both follow from `EncodersInv`. Between calls every encoder's delay buffer holds the
last 10 ms and the fade ended at the width that was heard (`InStep`); the counter of
`decideDTXMode` is the silence there was, and while frames are left out it is beyond
200 ms and ahead of them by more than 180 ms (`Counted`). That is what makes the
bound inductive: a refresh sets the counter back to 200 ms, never to nothing. The steps
are a frame (`FrameKeeps`), the frames of a packet (`FramesKeep`), a call
(`NativeKeeps`) and the streams of a packet (`StreamsKeep`). The last two and the history
(`RanKeeps`) are over folds, whose values are chains of steps (`FramesInTurn`,
`StreamsInTurn`, `RunsInTurn`); the numbers between, rates, budgets and lengths, need only
be integers. The theory of the folds is the one of `CodecStateProofs`, for other steps.

`CeltFrameProofs` proves, for any set of kinds, buffers and targets, from
`FrameAssumption`:

* `SyntaxAlwaysAgrees`: `FrameSpec => []SyntaxAgrees`;
* `BudgetAlwaysHolds`: `FrameSpec => []BudgetHolds`.

Both follow from `FrameInv`. Until the frame shrinks, both coders judge by the same
room, so what the decoder needs is within it and what it refuses is beyond
(`RoomHolds`); `SeenAgrees` is for the three elements the decoder judges by an old
position, which makes no difference because the room is whole bytes. For the shrink
the invariant counts: the decoder needs at most two bytes more than is coded and promised,
which is the margin of `MinAllowed`, and never more than the cap leaves (`SoFar`,
`VariableHolds`). The reservoir is never below what was taken too much
(`ReservoirHolds`), because an empty one is filled up by whole bytes. There is a lemma
for each element; what the elements before and after the boosts share is in
`EarlyElement` and `LateElement`.

`RangeProofs` proves, for all widths, symbols, buffers and inputs, from
`RangeAssumption` (the constants are the powers of two they are in
`entcode.go`, and a symbol divides the range into no more than `Bot` parts) and
`InputsAssumption`:

* `RegistersAlwaysSafe`: `EncoderSpec => []RegistersSafe`: a carry always meets a
  digit that can take it, so that bytes written never change, and no sum of the
  encoder's registers wraps;
* `ValueAlwaysInRange`: `DecoderSpec => []ValueInRange`, over any bytes.

The encoder's follows from one invariant, `Sound`: the low end plus the range
is below twice the top, and at most the top where no digit is held back or the
one held back is 255. The second half is what makes it inductive (`TurnSound`):
a digit of 255 is held back as such only when its carry has just gone out, and
then the range lies in the lower half. The decoder's says that the value is below the range
and that every digit read is one; a turn multiplies both (`DecTurnInv`), and a
call leaves the part of the range that holds the value (`UpdateInside`).

`EncoderSpec` codes into one buffer; that the invariants also survive trials,
patches and the flush is model-checked, in `opus_decoder`.

`OggOneShot` proves `CeilingAlwaysHolds`: `OneShotSpec => []CeilingHolds`, for
every `MaxInt`, ceiling and stream. The invariant adds that sizes are words;
`OverCeilingExact` is the point: neither side of the comparison in
`cappedWriter.Write` wraps, so it means what it says.

Only model-checked:

* all liveness, which TLAPS cannot prove under fairness here;
* `PacketsAsAsked` and `DecisionsFollowRate` of the encoders, `CallsFill`,
  `LayersInStep` and `FecReadsLbrr` of the decoder, and packet framing: most of what they
  say is a sum or a layout over sequences of any length. The library's induction takes a
  predicate as a parameter, which the provers cannot instantiate, so each such fold
  needs an argument of its own, as the length of a packet has in `OggStreamProofs`;
* what is defined by recursion or bits: the band split and the pages `OggScan` finds, whose
  modules declare a recursive operator, `RangeStream` (Bitwise) and the round trips;
* the index, the seeks and the streaming decoder; the remaining algorithms of CELT and SILK, each over its bounded inputs.

## 6. Not modelled

* The bytes of a page and its CRC: a damaged page is one the reader refuses.
* The buffers packets alias (`reader.go:151`), in the container, the parser and the
  repacketizer: packets are values. Every caller in `src/` is done with a packet
  before it asks for the next.
* Audio that shares the OpusTags page is not decoded in `OggDecoder`; the index
  refuses such a file, which is modelled.
* `chooseLanding`'s errors for a page that is gone between index and seek.
* The trace hooks of the range coder, and the table behind eighths of bits
  (`ecTellFrac`), a pure function of the range.
* Signal arithmetic: filters, vector search, comb filter, anti-collapse, comfort
  noise, gains, soft clip, and the rounding of the transform. What a sample is
  worth is compared bit by bit with libopus by the repository's own tests and is
  not a question for a model checker.
* The encoder's analyses (transients, tonality, dynamic allocation, pitch, trim, the L1
  measure of a resolution): the models let them decide anything they can.
* The branches of the Opus encoder for SILK and hybrid, which the repository has no
  encoder for, and the controls that no public call sets.
* The final range, which is what the range coder's state is at the end.
* Files, flags and tools: `pcm`, `internal/wav`, `cmd`, test oracles.

## 7. Plan

1. Proofs: that reads follow on each other in `OggDecoder` without a seek; the 120 ms
   bound of `Repacketizer`.
2. The layouts of surround encoders with an LFE stream in `multistream`, and
   wide band frames in `ogg_encoder`.
3. The codec seam of the container over `Multistream` instead of over its contract.
