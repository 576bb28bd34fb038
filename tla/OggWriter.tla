------------------------------ MODULE OggWriter ------------------------------
(***************************************************************************)
(* The Ogg muxer of oggopus/writer.go: streamWriter, which packs segments  *)
(* into one pending page and commits it when the next page must begin, and *)
(* containerWriter, which holds one packet back so that close can trim the *)
(* granule position of the last one.                                       *)
(*                                                                         *)
(* Every page is one Write on the sink, which may fail.  The handlers are  *)
(* therefore cut at the commits: pc and call are the control state of the  *)
(* call in progress, and each action runs the code between two places      *)
(* where the sink can fail.  The caller is the Encoder: it may go on after *)
(* an error (its Write and Close do not refuse to), and after close it     *)
(* writes nothing more.                                                    *)
(***************************************************************************)
EXTENDS OggPage

CONSTANTS
    StreamSerial,   \* the serial number the stream was given
    PreSkip,        \* OpusHead's pre-skip, in 48 kHz samples
    TagLens,        \* lengths the OpusTags packet may have
    PacketLens,     \* lengths an audio packet may have
    Durations,      \* durations an audio packet may have
    SourceLens,     \* source sample counts close may be given
    MaxPackets,     \* bound: audio packets accepted
    MaxFails        \* bound: sink errors

ASSUME WriterAssumption ==
    /\ StreamSerial \in Nat /\ PreSkip \in Nat /\ MaxPackets \in Nat /\ MaxFails \in Nat
    /\ TagLens \subseteq Nat /\ PacketLens \subseteq Nat
    /\ Durations \subseteq Nat /\ SourceLens \subseteq Nat

VARIABLES
    \* streamWriter
    seq, seg, gran, isCont, havePage, audioStarted, swClosed,
    \* containerWriter; held is NoPacket or the packet held back
    granule, held, audioCount,
    \* the call in progress
    pc, call,
    \* the pages that reached the sink, and the sink errors so far
    sink, fails,
    \* history: the packets accepted, headers first: the length of each and its
    \* end in cumulative samples
    accepted,
    \* the caller has called close
    closing

swVars == <<seq, seg, gran, isCont, havePage, audioStarted, swClosed>>
cwVars == <<granule, held, audioCount>>
vars == <<swVars, cwVars, pc, call, sink, fails, accepted, closing>>

NoPacket == [pkt |-> 0, len |-> 0, dur |-> 0]
Accepted == [len : Nat, end : Nat]
Packet == [pkt : Nat \ {0}, len : Nat, dur : Nat]

Larger(a, b) == IF a >= b THEN a ELSE b

\* The packets of a stream are numbered 1 (OpusHead), 2 (OpusTags), 3 ...
OpusHeadLen == MaxSegmentLen - 1   \* fits one segment: 19 bytes in the code
FirstAudio == 3

\* A frame of streamWriter.writePacket: the packet, the granule to stamp, the
\* next segment to place, forceNewPage, and what the caller does on return.
Frame(op, p, g, force, new) ==
    [op |-> op, pkt |-> p.pkt, len |-> p.len, gran |-> g, next |-> 1,
     force |-> force, new |-> new]

Segs == Lacing(call.pkt, call.len)

-----------------------------------------------------------------------------
(* newContainerWriter: the first call places OpusHead on a fresh page.      *)

Init ==
    /\ seq = 0 /\ seg = <<>> /\ gran = GranuleNone /\ isCont = FALSE
    /\ havePage = FALSE /\ audioStarted = FALSE /\ swClosed = FALSE
    /\ granule = 0 /\ held = NoPacket /\ audioCount = 0
    /\ sink = <<>> /\ fails = 0 /\ closing = FALSE
    /\ \E n \in TagLens :
          /\ accepted = <<[len |-> OpusHeadLen, end |-> 0], [len |-> n, end |-> 0]>>
          /\ call = Frame("head", [pkt |-> 1, len |-> OpusHeadLen], 0, TRUE,
                          [pkt |-> 2, len |-> n, dur |-> 0])
    /\ pc = "enter"

-----------------------------------------------------------------------------
(* streamWriter.commit, and where the sink can fail.                        *)

\* The page commit hands to writePage.
PendingPage(eos) ==
    [bos |-> seq = 0, cont |-> isCont, eos |-> eos, granule |-> gran,
     sequence |-> seq, serial |-> StreamSerial, segs |-> seg]

\* Mutant of Commit: the granule position is not reset.
CommitKeepsGranule(eos) ==
    /\ sink' = Append(sink, PendingPage(eos))
    /\ isCont' = (seg[Len(seg)].len = MaxSegmentLen)
    /\ seq' = seq + 1
    /\ seg' = <<>>
    /\ gran' = gran
    /\ havePage' = FALSE

\* commit with a sink that takes the page: the page buffers are reset.
Commit(eos) ==
    /\ sink' = Append(sink, PendingPage(eos))
    /\ isCont' = (seg[Len(seg)].len = MaxSegmentLen)
    /\ seq' = seq + 1
    /\ seg' = <<>>
    /\ gran' = GranuleNone
    /\ havePage' = FALSE

\* The pending page can take no more segments.
PageFull == havePage /\ Len(seg) = MaxPageSegments

\* Where the code commits: the forced page of a call that begins, the full
\* page in the segment loop, the last page in close.
AtForced == pc = "enter" /\ call.force /\ havePage
AtFull == pc = "place" /\ call.next <= Len(Segs) /\ PageFull
AtLast == pc = "eos" /\ havePage

CommitForced ==
    /\ AtForced
    /\ Commit(FALSE)
    /\ pc' = "place"
    /\ UNCHANGED <<audioStarted, swClosed, cwVars, call, fails, accepted, closing>>

CommitFull ==
    /\ AtFull
    /\ Commit(FALSE)
    /\ UNCHANGED <<audioStarted, swClosed, cwVars, pc, call, fails, accepted, closing>>

CommitLast ==
    /\ AtLast
    /\ Commit(TRUE)
    /\ pc' = "ready"
    /\ UNCHANGED <<audioStarted, swClosed, cwVars, call, fails, accepted, closing>>

\* writePage returns the sink's error: commit leaves the pending page as it is
\* and every caller up to the Encoder returns the error.  newContainerWriter
\* drops the writer; an Encoder keeps it and may call it again.
CommitFails ==
    /\ AtForced \/ AtFull \/ AtLast
    /\ fails < MaxFails
    /\ fails' = fails + 1
    /\ pc' = IF ~closing /\ call.op \in {"head", "tags"} THEN "dropped" ELSE "ready"
    /\ UNCHANGED <<swVars, cwVars, call, sink, accepted, closing>>

-----------------------------------------------------------------------------
(* streamWriter.writePacket: the segment loop.                              *)

Enter ==
    /\ pc = "enter" /\ ~(call.force /\ havePage)
    /\ pc' = "place"
    /\ UNCHANGED <<swVars, cwVars, call, sink, fails, accepted, closing>>

PlaceSegment ==
    /\ pc = "place" /\ call.next <= Len(Segs) /\ ~PageFull
    /\ havePage' = TRUE
    /\ seg' = Append(seg, Segs[call.next])
    /\ gran' = IF call.next = Len(Segs) THEN call.gran ELSE gran
    /\ call' = [call EXCEPT !.next = @ + 1]
    /\ UNCHANGED <<seq, isCont, audioStarted, swClosed, cwVars, pc, sink,
                   fails, accepted, closing>>

-----------------------------------------------------------------------------
(* What follows the loop, by caller.                                        *)

Returns(op) == pc = "place" /\ call.next > Len(Segs) /\ call.op = op

\* writeHeaders goes on with OpusTags, on a page of its own.
ReturnHead ==
    /\ Returns("head")
    /\ call' = Frame("tags", call.new, 0, TRUE, NoPacket)
    /\ pc' = "enter"
    /\ UNCHANGED <<swVars, cwVars, sink, fails, accepted, closing>>

ReturnTags ==
    /\ Returns("tags")
    /\ pc' = "ready"
    /\ UNCHANGED <<swVars, cwVars, call, sink, fails, accepted, closing>>

LastEnd == accepted[Len(accepted)].end

\* The end of containerWriter.writePacket: hold the new packet.
Hold(p) ==
    /\ held' = p
    /\ audioCount' = audioCount + 1
    /\ accepted' = Append(accepted, [len |-> p.len, end |-> LastEnd + p.dur])

ReturnWrite ==
    /\ Returns("write")
    /\ Hold(call.new)
    /\ pc' = "ready"
    /\ UNCHANGED <<swVars, granule, call, sink, fails, closing>>

\* Mutant of ReturnClose: the last page is never committed.
ReturnCloseUncommitted ==
    /\ Returns("close")
    /\ held' = NoPacket
    /\ swClosed' = TRUE
    /\ pc' = "ready"
    /\ UNCHANGED <<seq, seg, gran, isCont, havePage, audioStarted, granule,
                   audioCount, call, sink, fails, accepted, closing>>

\* containerWriter.close goes on with streamWriter.close, which marks itself
\* closed before it commits.
ReturnClose ==
    /\ Returns("close")
    /\ held' = NoPacket
    /\ swClosed' = TRUE
    /\ pc' = IF swClosed THEN "ready" ELSE "eos"
    /\ UNCHANGED <<seq, seg, gran, isCont, havePage, audioStarted, granule,
                   audioCount, call, sink, fails, accepted, closing>>

-----------------------------------------------------------------------------
(* The calls of the Encoder.                                                *)

ForceNewPage == ~audioStarted

\* writeAudioPacket: the first audio packet begins a fresh page.
PlaceAudio(op, p, g, new) ==
    /\ call' = Frame(op, p, g, ForceNewPage, new)
    /\ audioStarted' = TRUE
    /\ pc' = "enter"

\* Mutant of FlushedGranule: the new packet's duration instead of the held one's.
FlushedGranuleOfNew(dur) == granule + dur

\* cw.granule once the held packet is flushed; dur is the new packet's duration.
FlushedGranule(dur) == granule + held.dur

\* containerWriter.writePacket: flush the held packet, then hold the new one.
\* The granule has moved before the page that needs it can fail.
WritePacket(len, dur) ==
    /\ pc = "ready" /\ ~closing /\ Len(accepted) < MaxPackets + 2
    /\ LET new == [pkt |-> Len(accepted) + 1, len |-> len, dur |-> dur] IN
       IF held # NoPacket
       THEN /\ granule' = FlushedGranule(dur)
            /\ PlaceAudio("write", held, granule', new)
            /\ UNCHANGED <<held, audioCount, accepted>>
       ELSE /\ Hold(new)
            /\ UNCHANGED <<granule, call, audioStarted, pc>>
    /\ UNCHANGED <<seq, seg, gran, isCont, havePage, swClosed, sink, fails,
                   closing>>

\* containerWriter.close: flush the held packet with the trimmed granule, then
\* close the stream.  After an error it may be called again.
Close(src) ==
    /\ pc = "ready"
    /\ closing' = TRUE
    /\ IF held # NoPacket
       THEN LET final == Larger(PreSkip + src, granule) IN
            /\ PlaceAudio("close", held, final, NoPacket)
            /\ accepted' = [accepted EXCEPT ![Len(accepted)].end =
                     Larger(PreSkip + src, accepted[Len(accepted) - 1].end)]
            /\ UNCHANGED swClosed
       ELSE /\ swClosed' = TRUE
            /\ pc' = IF swClosed THEN "ready" ELSE "eos"
            /\ UNCHANGED <<call, audioStarted, accepted>>
    /\ UNCHANGED <<seq, seg, gran, isCont, havePage, cwVars, sink, fails>>

\* A dropped writer is never called again.
Dropped == pc = "dropped" /\ UNCHANGED vars

Step == \/ CommitForced \/ CommitFull \/ CommitLast \/ CommitFails
        \/ Enter \/ PlaceSegment
        \/ ReturnHead \/ ReturnTags \/ ReturnWrite \/ ReturnClose

Next == \/ Step \/ Dropped
        \/ \E n \in PacketLens, d \in Durations : WritePacket(n, d)
        \/ \E n \in SourceLens : Close(n)

Spec == Init /\ [][Next]_vars

\* A call runs to its return: the handlers are sequential code.
FairSpec == Spec /\ WF_vars(Step)

-----------------------------------------------------------------------------
(* Properties.                                                              *)

Frames == [op : {"head", "tags", "write", "close"}, pkt : Nat \ {0}, len : Nat,
           gran : Nat, next : Nat \ {0}, force : BOOLEAN,
           new : Packet \cup {NoPacket}]

\* Types of the state of streamWriter and containerWriter, with the bound on
\* the pending segment table (maxPageSegments).
TypeOK ==
    /\ seq \in Nat /\ gran \in Int
    /\ seg \in Seq(Segment) /\ Len(seg) <= MaxPageSegments
    /\ isCont \in BOOLEAN /\ havePage \in BOOLEAN
    /\ audioStarted \in BOOLEAN /\ swClosed \in BOOLEAN
    /\ granule \in Nat /\ held \in Packet \cup {NoPacket} /\ audioCount \in Nat
    /\ pc \in {"enter", "place", "eos", "ready", "dropped"}
    /\ call \in Frames /\ (call.op \in {"head", "write"} => call.new # NoPacket)
    /\ sink \in Seq(Page) /\ fails \in Nat
    /\ accepted \in Seq(Accepted) /\ Len(accepted) >= 2
    /\ closing \in BOOLEAN

LastSegment(p) == p.segs[Len(p.segs)]

WellPlaced(pages, k) ==
    LET p == pages[k] IN
    /\ p.segs # <<>> /\ Len(p.segs) <= MaxPageSegments
    /\ p.sequence = k - 1
    /\ p.bos <=> k = 1
    /\ p.cont <=> k > 1 /\ ~EndsPacket(LastSegment(pages[k - 1]))
    /\ p.eos => k = Len(pages)
    /\ (p.granule = GranuleNone) <=> ~CompletesPacket(p.segs)

\* Every page on the sink is one writePage accepts, and its flags agree with
\* its neighbours: pages are numbered from 0, only the first is BOS, a page is
\* flagged CONTINUED exactly when the page before it stops inside a packet,
\* nothing follows an EOS page, and a page carries a granule position exactly
\* when a packet ends on it.  It holds whatever the sink refused on the way
\* (streamWriter.commit).
PagesWellFormed == \A k \in DOMAIN sink : WellPlaced(sink, k)

\* The writer's state is typed, its segment table bounded, and so are the pages it
\* has written (streamWriter).
WellFormed == TypeOK /\ PagesWellFormed

\* What ties the pending page to the pages before it.
PendingOK ==
    /\ seq = Len(sink)
    /\ havePage <=> seg # <<>>
    /\ isCont <=> sink # <<>> /\ ~EndsPacket(LastSegment(sink[Len(sink)]))
    /\ (gran = GranuleNone) <=> ~CompletesPacket(seg)

\* What is over once close has gone through.
ClosingOK ==
    /\ swClosed => held = NoPacket /\ closing /\ pc \in {"eos", "ready", "dropped"}
    /\ pc = "eos" => swClosed
    /\ (pc \in {"enter", "place"} /\ call.op = "close") => closing
    /\ \A k \in DOMAIN sink : sink[k].eos => swClosed /\ pc \in {"ready", "dropped"}

\* The inductive invariant under PagesWellFormed.
PageInv == TypeOK /\ PendingOK /\ ClosingOK /\ PagesWellFormed

InOrder(segs) == \A i \in 1..(Len(segs) - 1) : Follows(segs[i], segs[i + 1])
Opens(s) == s.pkt = 1 /\ s.part = 1

\* The segments of page k continue those of the page before.
PageFollows(pages, k) ==
    /\ InOrder(pages[k].segs)
    /\ IF k = 1 THEN Opens(pages[1].segs[1])
                ELSE Follows(LastSegment(pages[k - 1]), pages[k].segs[1])

\* Lacing, page splitting and the one-packet hold-back neither lose, repeat
\* nor reorder a segment while the sink takes every page: each segment on the
\* sink is followed, on its page or on the next, by the next of the stream, so
\* that joining segments up to a short one gives back packets 1, 2, 3 ...
\* (streamWriter.writePacket, lacing).
SinkInOrder == \A k \in DOMAIN sink : PageFollows(sink, k)
SegmentsInOrder == fails = 0 => SinkInOrder

\* The pending page continues the sink, and segment i of packet p is the next
\* one the stream needs.
PendingFollows ==
    seg # <<>> => /\ InOrder(seg)
                  /\ IF sink = <<>> THEN Opens(seg[1])
                     ELSE Follows(LastSegment(sink[Len(sink)]), seg[1])
NextIs(p, i) ==
    IF seg # <<>> THEN Follows(seg[Len(seg)], [pkt |-> p, part |-> i])
    ELSE IF sink # <<>> THEN Follows(LastSegment(sink[Len(sink)]), [pkt |-> p, part |-> i])
    ELSE p = 1 /\ i = 1

\* The packet of the call in progress, by caller, is the oldest not yet placed.
CallInTurn ==
    pc \in {"enter", "place"} =>
        /\ call.op = "head" => call.pkt = 1 /\ call.new.pkt = 2
        /\ call.op = "tags" => call.pkt = 2
        /\ call.op \in {"head", "tags"} => held = NoPacket /\ Len(accepted) = 2
        /\ call.op \in {"write", "close"} =>
              held # NoPacket /\ call.pkt = held.pkt /\ held.pkt = Len(accepted)
        /\ call.op = "write" => call.new.pkt = call.pkt + 1
        /\ closing => call.op = "close"

\* The place of the stream the writer is at, by control state.
Cursor ==
    /\ pc = "enter" => call.next = 1 /\ NextIs(call.pkt, 1)
    /\ pc = "place" => IF call.next <= Len(Segs) THEN NextIs(call.pkt, call.next)
                                                 ELSE NextIs(call.pkt + 1, 1)
    /\ pc \in {"ready", "eos"} =>
          IF held # NoPacket THEN held.pkt = Len(accepted) /\ NextIs(held.pkt, 1)
                             ELSE NextIs(Len(accepted) + 1, 1)
    /\ (closing /\ pc = "ready") => seg = <<>> /\ sink # <<>> /\ sink[Len(sink)].eos
                                     /\ held = NoPacket

\* The inductive invariant under SegmentsInOrder and ClosedIsComplete.
OrderInv == fails = 0 => SinkInOrder /\ PendingFollows /\ CallInTurn /\ Cursor

\* The granule position of a page is the cumulative sample count through the
\* last packet that ends on it, whatever packets share or span pages, and on
\* the last page of a closed stream the trimmed count (containerWriter).
GranulesExact ==
    fails = 0 =>
        \A k \in DOMAIN sink :
            CompletesPacket(sink[k].segs) =>
                sink[k].granule = accepted[LastCompleted(sink[k].segs)].end

\* Segment i is the last of a table that ends its packet.
LastEnding(segs, i) ==
    EndsPacket(segs[i]) /\ \A j \in DOMAIN segs : EndsPacket(segs[j]) => j <= i

\* g is the count, by acc, through the last packet that ends on a page with these
\* segments.
Stamped(acc, segs, g) ==
    CompletesPacket(segs) =>
        \E i \in DOMAIN segs : LastEnding(segs, i) /\ g = acc[segs[i].pkt].end

EndsBy(segs, n) == \A i \in DOMAIN segs : EndsPacket(segs[i]) => segs[i].pkt <= n

\* The packets that may have ended on a page: those before the one being placed
\* or held, whose end close may still change.
Settled == IF pc \in {"enter", "place"}
           THEN IF call.next <= Len(Segs) THEN call.pkt - 1 ELSE call.pkt
           ELSE IF held # NoPacket /\ pc # "dropped" THEN Len(accepted) - 1
                                                     ELSE Len(accepted)

\* The granule positions the writer is about to use, by control state.
Dated ==
    /\ pc \in {"enter", "place"} =>
          /\ call.gran = accepted[call.pkt].end
          /\ call.op \in {"head", "tags"} =>
                granule = 0 /\ accepted[1].end = 0 /\ accepted[2].end = 0
          /\ call.op = "write" => granule = LastEnd
    /\ pc = "ready" /\ ~closing =>
          IF held # NoPacket
          THEN granule = accepted[Len(accepted) - 1].end /\ LastEnd = granule + held.dur
          ELSE granule = LastEnd

\* The inductive invariant under GranulesExact.
GranuleInv ==
    fails = 0 =>
        /\ Dated
        /\ Stamped(accepted, seg, gran) /\ EndsBy(seg, Settled)
        /\ \A k \in DOMAIN sink : /\ Stamped(accepted, sink[k].segs, sink[k].granule)
                                  /\ EndsBy(sink[k].segs, Settled)

\* All that is inductive of the writer.
WriterInv == PageInv /\ OrderInv /\ GranuleInv

\* A close that meets no sink error leaves every accepted packet on the sink:
\* the last page is EOS and ends the last packet (containerWriter.close).
ClosedIsComplete ==
    (fails = 0 /\ closing /\ pc = "ready") =>
        LET p == sink[Len(sink)] IN
        /\ p.eos
        /\ EndsPacket(LastSegment(p))
        /\ LastSegment(p).pkt = Len(accepted)
=============================================================================
