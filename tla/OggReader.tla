------------------------------ MODULE OggReader ------------------------------
(***************************************************************************)
(* The Ogg demuxer of oggopus/reader.go: containerReader, which joins      *)
(* segments back into packets page by page, strips the two header packets  *)
(* and keeps the granule accounting.                                       *)
(*                                                                         *)
(* processPage is cut at its segment loop: one action per segment.  The    *)
(* caller asks for packets until the end of the stream or an error, as     *)
(* newContainerReader and then the Decoder do.  The source is a sequence   *)
(* of pages, from which some may be missing or to which a page of another  *)
(* logical stream may be added.                                            *)
(***************************************************************************)
EXTENDS OggPage, SequencesExt

CONSTANTS
    PreSkip,         \* the pre-skip in OpusHead
    AudioLimit,      \* audioPacketLimit of the stream
    HeaderKeep,      \* maxHeaderPacketLen
    ForeignPages,    \* pages of other logical streams the source may hold
    MaxGaps          \* bound: pages missing from the source

VARIABLES
    input,           \* the pages of the source so far
    inputDone,       \* the source has no more pages to come
    rpos,            \* pages of the source gone by
    rpc,             \* "want", "segs", "eof", or the error it stopped at
    pg, next,        \* the page processPage is at, and its next segment
    stage,           \* "head" and "tags" in newContainerReader, then "audio"
    serial,          \* the stream's serial, or NoSerial before the first page
    partial,         \* the segments of a packet still spanning pages
    queue,           \* the packets completed on this page and not yet served
    headers,         \* header packets still to complete
    lastGranule, finalGranule, sawEOS,
    delivered,       \* history: the audio packets served
    gaps             \* history: the places in the source a page is missing from

readerState == <<stage, serial, partial, queue, headers, lastGranule,
                 finalGranule, sawEOS>>
rvars == <<rpos, rpc, pg, next, readerState, delivered, gaps>>

NoSerial == -1
NoPage == [bos |-> FALSE, cont |-> FALSE, eos |-> FALSE, granule |-> GranuleNone,
           sequence |-> 0, serial |-> NoSerial, segs |-> <<>>]

ByteLen(segs) == FoldLeft(LAMBDA n, s : n + s.len, 0, segs)

RInit ==
    /\ rpos = 0 /\ rpc = "want" /\ pg = NoPage /\ next = 1
    /\ stage = "head" /\ serial = NoSerial /\ partial = <<>> /\ queue = <<>>
    /\ headers = 2 /\ lastGranule = 0 /\ finalGranule = -1 /\ sawEOS = FALSE
    /\ delivered = <<>> /\ gaps = {}

-----------------------------------------------------------------------------
(* nextRawPacket                                                            *)

\* parseOpusHead and checkOpusTagsMagic/parseOpusTags look at the front of the
\* packet; OpusTags is parsed to its end only when it cannot have been cut.
HeadParses(p) == p[1].pkt = 1 /\ p[1].part = 1
TagsParse(p) ==
    /\ p[1].pkt = 2 /\ p[1].part = 1
    /\ ByteLen(p) >= HeaderKeep \/ \A i \in DOMAIN p : p[i].pkt = 2

\* A completed packet is served: to newContainerReader while it reads the two
\* headers, then to the Decoder.
Serve ==
    /\ rpc = "want" /\ queue # <<>>
    /\ queue' = Tail(queue)
    /\ \/ /\ stage = "head" /\ HeadParses(Head(queue))
          /\ stage' = "tags" /\ UNCHANGED <<rpc, delivered>>
       \/ /\ stage = "tags" /\ TagsParse(Head(queue))
          /\ stage' = "audio" /\ UNCHANGED <<rpc, delivered>>
       \/ /\ stage = "audio"
          /\ delivered' = Append(delivered, Head(queue))
          /\ UNCHANGED <<rpc, stage>>
       \/ /\ \/ stage = "head" /\ ~HeadParses(Head(queue))
             \/ stage = "tags" /\ ~TagsParse(Head(queue))
          /\ rpc' = "badheader" /\ UNCHANGED <<stage, delivered>>
    /\ UNCHANGED <<rpos, pg, next, serial, partial, headers, lastGranule,
                   finalGranule, sawEOS, gaps>>

NeedsPage == rpc = "want" /\ queue = <<>> /\ ~sawEOS

\* Mutant of EndOfStream: the packets of the EOS page are not served.
EndOfStreamEarly ==
    /\ rpc = "want"
    /\ sawEOS \/ (queue = <<>> /\ rpos = Len(input) /\ inputDone)
    /\ rpc' = IF stage = "audio" THEN "eof" ELSE "badheader"
    /\ UNCHANGED <<rpos, pg, next, readerState, delivered, gaps>>

\* Mutant of EndOfStream: a source that ends without an EOS page is waited for.
EndOfStreamMarked ==
    /\ rpc = "want" /\ queue = <<>> /\ sawEOS
    /\ rpc' = IF stage = "audio" THEN "eof" ELSE "badheader"
    /\ UNCHANGED <<rpos, pg, next, readerState, delivered, gaps>>

\* The end of the stream: after the EOS page nothing more is read, and a source
\* that ends at a page boundary ends a stream that has no EOS page.  In
\* newContainerReader a stream that ends is an error.
EndOfStream ==
    /\ rpc = "want" /\ queue = <<>>
    /\ sawEOS \/ (rpos = Len(input) /\ inputDone)
    /\ rpc' = IF stage = "audio" THEN "eof" ELSE "badheader"
    /\ UNCHANGED <<rpos, pg, next, readerState, delivered, gaps>>

\* readPage returns an error: an I/O error, a page cut short, a bad capture
\* pattern or a checksum that does not match.
ReadFails ==
    /\ NeedsPage
    /\ rpc' = "failed"
    /\ UNCHANGED <<rpos, pg, next, readerState, delivered, gaps>>

\* Mutant of Dangling: the packet cut off by a gap is kept.
DanglingKept(p) == partial

\* What of the partial packet a page leaves: a page that does not continue a
\* packet drops the one left dangling.
Dangling(p) == IF p.cont THEN partial ELSE <<>>

\* processPage up to its loop: the serial and BOS checks, and the packet left
\* dangling by a page that is not continued.
BeginPage(p) ==
    /\ NeedsPage
    /\ \/ /\ IF serial = NoSerial THEN p.bos ELSE p.serial = serial
          /\ serial' = p.serial
          /\ partial' = Dangling(p)
          /\ pg' = p /\ next' = 1 /\ rpc' = "segs"
       \/ /\ IF serial = NoSerial THEN ~p.bos ELSE p.serial # serial
          /\ serial' = IF serial = NoSerial THEN p.serial ELSE serial
          /\ rpc' = "foreign"
          /\ UNCHANGED <<pg, next, partial>>
    /\ UNCHANGED <<stage, queue, headers, lastGranule, finalGranule, sawEOS,
                   delivered>>

ReadPage ==
    /\ rpos < Len(input)
    /\ BeginPage(input[rpos + 1])
    /\ rpos' = rpos + 1
    /\ UNCHANGED gaps

\* A page of another stream turns up behind the first page.
ReadForeign ==
    /\ serial # NoSerial
    /\ \E p \in ForeignPages : BeginPage(p)
    /\ UNCHANGED <<rpos, gaps>>

\* A page is missing from the source.
LosePage ==
    /\ NeedsPage /\ rpos < Len(input) /\ Cardinality(gaps) < MaxGaps
    /\ rpos' = rpos + 1
    /\ gaps' = gaps \cup {rpos + 1}
    /\ UNCHANGED <<rpc, pg, next, readerState, delivered>>

-----------------------------------------------------------------------------
(* processPage: the segment loop and what follows it.                       *)

\* The limit that holds for the segment: a header is cut, audio is not.
Limit == IF headers > 0 THEN HeaderKeep ELSE AudioLimit

TooLong(s) == ByteLen(partial) > Limit - s.len

\* A header packet keeps its first HeaderKeep bytes.
CutSegment(s) == [s EXCEPT !.len = Limit - ByteLen(partial)]

JoinSegment ==
    /\ rpc = "segs" /\ next <= Len(pg.segs)
    /\ LET s == pg.segs[next]
           kept == IF TooLong(s) THEN CutSegment(s) ELSE s
           joined == Append(partial, kept)
       IN  /\ ~(TooLong(s) /\ headers = 0)
           /\ IF EndsPacket(s)
              THEN /\ queue' = Append(queue, joined)
                   /\ partial' = <<>>
                   /\ headers' = IF headers > 0 THEN headers - 1 ELSE headers
              ELSE /\ partial' = joined
                   /\ UNCHANGED <<queue, headers>>
    /\ next' = next + 1
    /\ UNCHANGED <<rpos, rpc, pg, stage, serial, lastGranule, finalGranule,
                   sawEOS, delivered, gaps>>

\* packetTooLarge: the packet is given up, and so are those completed before it
\* on the page, for the Decoder latches the error.
PacketTooLarge ==
    /\ rpc = "segs" /\ next <= Len(pg.segs)
    /\ headers = 0 /\ TooLong(pg.segs[next])
    /\ rpc' = "toolarge"
    /\ partial' = <<>>
    /\ UNCHANGED <<rpos, pg, next, stage, serial, queue, headers, lastGranule,
                   finalGranule, sawEOS, delivered, gaps>>

\* Mutant of EndPage: the final granule is taken before the page's own.
EndPageStale ==
    /\ rpc = "segs" /\ next > Len(pg.segs)
    /\ rpc' = "want"
    /\ lastGranule' = IF pg.granule # GranuleNone THEN pg.granule ELSE lastGranule
    /\ sawEOS' = pg.eos
    /\ finalGranule' = IF pg.eos THEN lastGranule ELSE finalGranule
    /\ UNCHANGED <<rpos, pg, next, stage, serial, partial, queue, headers,
                   delivered, gaps>>

\* The granule and end-of-stream accounting.
EndPage ==
    /\ rpc = "segs" /\ next > Len(pg.segs)
    /\ rpc' = "want"
    /\ lastGranule' = IF pg.granule # GranuleNone THEN pg.granule ELSE lastGranule
    /\ sawEOS' = pg.eos
    /\ finalGranule' = IF pg.eos THEN lastGranule' ELSE finalGranule
    /\ UNCHANGED <<rpos, pg, next, stage, serial, partial, queue, headers,
                   delivered, gaps>>

ReaderStep == \/ Serve \/ EndOfStream \/ ReadPage \/ JoinSegment
              \/ PacketTooLarge \/ EndPage
ReaderFault == ReadFails \/ ReadForeign \/ LosePage

ReaderDone == rpc \in {"eof", "badheader", "failed", "foreign", "toolarge"}

\* totalSamples, for a stream that ended with an EOS page.
TotalSamples == finalGranule - PreSkip
=============================================================================
