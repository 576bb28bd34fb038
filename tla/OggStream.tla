------------------------------ MODULE OggStream ------------------------------
(***************************************************************************)
(* A stream end to end: the pages of OggWriter are the source of           *)
(* OggReader, which reads them while they are written.  The writer's       *)
(* process may go away at any point, which leaves a stream without an EOS  *)
(* page; the source may miss pages, fail, or hold a page of another stream.*)
(***************************************************************************)
EXTENDS OggWriter, SequencesExt

CONSTANTS AudioLimit, HeaderKeep, ForeignPages, MaxGaps

\* Another logical stream has another serial; the limit is a number of bytes.
ASSUME StreamAssumption == /\ \A p \in ForeignPages : p.serial # StreamSerial
                           /\ AudioLimit \in Nat

VARIABLES rpos, rpc, pg, next, stage, serial, partial, queue, headers,
          lastGranule, finalGranule, sawEOS, delivered, gaps

readerVars == <<rpos, rpc, pg, next, stage, serial, partial, queue, headers,
                lastGranule, finalGranule, sawEOS, delivered, gaps>>
svars == <<vars, readerVars>>

\* The last page is on the sink.
Ended == sink # <<>> /\ sink[Len(sink)].eos

R == INSTANCE OggReader WITH input <- sink,
                             inputDone <- Ended \/ pc = "dropped"

\* The process that writes the stream goes away.
Abandon ==
    /\ pc # "dropped" /\ ~Ended
    /\ pc' = "dropped"
    /\ UNCHANGED <<swVars, cwVars, call, sink, fails, accepted, closing>>

StreamInit == Init /\ R!RInit

StreamNext == \/ (Next \/ Abandon) /\ UNCHANGED readerVars
              \/ (R!ReaderStep \/ R!ReaderFault) /\ UNCHANGED vars

StreamSpec == StreamInit /\ [][StreamNext]_svars

\* Each call on the writer runs to its return, and the reader is called until
\* it reports the end or an error.
StreamFairSpec ==
    /\ StreamSpec
    /\ WF_svars(Step /\ UNCHANGED readerVars)
    /\ WF_svars(R!ReaderStep /\ UNCHANGED vars)

-----------------------------------------------------------------------------
(* The container implements PacketStream.                                   *)

\* The packet a reassembled one is, if it is one of those accepted.
Bytes(i) == Lacing(i, accepted[i].len)
Whole(p) == p[1].pkt \in DOMAIN accepted /\ p = Bytes(p[1].pkt)
Content(p) == IF Whole(p) THEN <<p[1].pkt, accepted[p[1].pkt].len>> ELSE <<0, 0>>

\* What the users of the container see of it.
Sent == [i \in 1..(Len(accepted) - 2) |-> <<i + 2, accepted[i + 2].len>>]
Received == [i \in 1..Len(delivered) |-> Content(delivered[i])]
WriterIs == IF Ended THEN "closed" ELSE IF pc = "dropped" THEN "broken" ELSE "open"
ReaderIs == IF ~R!ReaderDone THEN "reading" ELSE IF rpc = "eof" THEN "eof" ELSE "failed"

PS == INSTANCE PacketStream WITH
    Contents <- (FirstAudio..(MaxPackets + 2)) \X PacketLens,
    sent <- Sent, recv <- Received, wstate <- WriterIs, rstate <- ReaderIs

\* Packets come out whole, once, in order, and the end of a closed stream only
\* after the last one, while the sink takes and the source keeps every page
\* (containerWriter, containerReader).
DeliversPackets == PS!ASpec

-----------------------------------------------------------------------------
(* Properties of the reader on a source that may miss pages.                *)

\* No part of the packet was on a page that is missing.
Undamaged(i) == \A k \in 1..rpos : k \in gaps =>
                    \A j \in DOMAIN sink[k].segs : sink[k].segs[j].pkt # i

\* A packet none of whose pages is missing.
Arrived(i) ==
    /\ \E k \in 1..rpos : \E j \in DOMAIN sink[k].segs :
          sink[k].segs[j].pkt = i /\ EndsPacket(sink[k].segs[j])
    /\ Undamaged(i)

\* Every audio packet none of whose pages is missing, once they have been read and
\* served.
Survives ==
    (fails = 0 /\ stage = "audio" /\ rpc = "want" /\ queue = <<>>) =>
        \A i \in FirstAudio..Len(accepted) :
            Arrived(i) => \E d \in DOMAIN delivered :
                              Content(delivered[d]) = <<i, accepted[i].len>>

\* A packet too long is the first there is, and no part of it is delivered.
RefusedByLength ==
    (fails = 0 /\ gaps = {}) =>
        /\ rpc = "toolarge" =>
              \E i \in FirstAudio..Len(accepted) :
                  /\ accepted[i].len > AudioLimit
                  /\ \A j \in FirstAudio..(i - 1) : accepted[j].len <= AudioLimit
        /\ \A d \in DOMAIN delivered : R!ByteLen(delivered[d]) <= AudioLimit

\* A missing page damages only the packets that had a part on it: every other came
\* out whole (processPage's handling of a dangling partial packet); and a packet is
\* refused for its own length alone, not for how the pages split it (the limit check
\* in processPage comes before the append).
WholePacketsSurvive == Survives /\ RefusedByLength

\* The duration the reader reports at the end of a closed stream, whatever pages
\* before the last it missed, is the one close was given, unless close had to hold
\* it up to what was already written (totalSamples, finalGranule).
DurationExact ==
    (fails = 0 /\ rpc = "eof" /\ sawEOS) =>
        R!TotalSamples + PreSkip = LastEnd

\* A closed stream is read to its end.
ReadsToEnd == (Ended /\ fails = 0) ~> R!ReaderDone

-----------------------------------------------------------------------------
(* The inductive invariants under DurationExact and DeliversPackets.         *)

\* Segment s is cut from an accepted packet.
CutFrom(s) == /\ s.pkt \in DOMAIN accepted /\ s.part \in DOMAIN Bytes(s.pkt)
              /\ s = Bytes(s.pkt)[s.part]

\* The packet in the writer's hands, by control state, is the one accepted.
InHand ==
    /\ pc \in {"enter", "place"} =>
          /\ call.pkt \in DOMAIN accepted /\ call.len = accepted[call.pkt].len
          /\ call.op = "head" => call.new.len = accepted[2].len
          /\ call.op = "write" => call.new.len \in PacketLens /\ Len(accepted) < MaxPackets + 2
    /\ pc # "dropped" /\ held # NoPacket => held.len = accepted[Len(accepted)].len

\* What the writer lays out is cut from the packets its caller gave it.
Laced ==
    /\ InHand
    /\ \A i \in DOMAIN seg : CutFrom(seg[i])
    /\ \A k \in DOMAIN sink : \A i \in DOMAIN sink[k].segs : CutFrom(sink[k].segs[i])
    /\ Len(accepted) <= MaxPackets + 2
    /\ \A i \in FirstAudio..Len(accepted) : accepted[i].len \in PacketLens

IsSeq(s) == s \in Seq({s[i] : i \in DOMAIN s})

\* The reader is at a page of the writer's, whatever the source misses or adds; the
\* EOS page is the last it reads, and gives it the final granule position.
AtPage ==
    /\ rpos \in 0..Len(sink) /\ serial \in {R!NoSerial, StreamSerial}
    /\ rpc \in {"want", "segs", "eof", "badheader", "failed", "foreign", "toolarge"}
    /\ \A k \in DOMAIN sink : sink[k].serial = StreamSerial
    /\ rpc = "segs" => rpos > 0 /\ pg = sink[rpos] /\ next \in 1..(Len(pg.segs) + 1)
    /\ sawEOS => /\ rpos > 0 /\ sink[rpos].eos
                 /\ sink[rpos].granule # GranuleNone => finalGranule = sink[rpos].granule
    /\ Ended => pc # "dropped"

\* Packets served, and packets read to their end.
Served == IF stage = "head" THEN 0 ELSE IF stage = "tags" THEN 1 ELSE 2 + Len(delivered)
Joined == Served + Len(queue)

\* s is the segment read last: it ends the last packet joined, or partial does with it.
ReadTo(s) == IF EndsPacket(s) THEN s.pkt = Joined /\ partial = <<>>
                              ELSE s.pkt = Joined + 1 /\ s.part = Len(partial)
ReadPages(n) == IF n = 0 THEN Joined = 0 /\ partial = <<>> ELSE ReadTo(LastSegment(sink[n]))

\* What was served is the audio packets from the first on.
ServedInOrder ==
    /\ IsSeq(delivered) /\ stage \in {"head", "tags", "audio"}
    /\ stage # "audio" => delivered = <<>>
    /\ \A d \in DOMAIN delivered : d + 2 \in DOMAIN accepted /\ delivered[d] = Bytes(d + 2)

\* What is queued and partly read is what comes next; of a header only its place counts.
Buffers ==
    /\ IsSeq(partial) /\ IsSeq(queue)
    /\ headers = IF Joined < 2 THEN 2 - Joined ELSE 0
    /\ \A k \in DOMAIN queue : Served + k > 2 =>
          Served + k \in DOMAIN accepted /\ queue[k] = Bytes(Served + k)
    /\ \A j \in DOMAIN partial : Joined >= 2 =>
          Joined + 1 \in DOMAIN accepted /\ partial[j] = Bytes(Joined + 1)[j]

\* How far the reader has read, by control state.
ReadSoFar ==
    /\ rpc = "want" => ReadPages(rpos) /\ (rpos > 0 => sawEOS = sink[rpos].eos)
    /\ rpc = "segs" => IF next = 1 THEN ReadPages(rpos - 1) ELSE ReadTo(pg.segs[next - 1])

\* On a source that misses nothing the reader has joined what it has read.
Reassembled == ServedInOrder /\ (rpc \in {"want", "segs"} => Buffers /\ ReadSoFar)

StreamInv ==
    /\ WriterInv /\ AtPage
    /\ fails = 0 => Laced
    /\ fails = 0 /\ gaps = {} => Reassembled

-----------------------------------------------------------------------------
(* The inductive invariant under WholePacketsSurvive, for a source that may  *)
(* miss pages.                                                               *)

\* The segment that ends packet i has gone by.
EndPassed(i) ==
    \E k \in 1..rpos : \E j \in DOMAIN sink[k].segs :
        /\ sink[k].segs[j].pkt = i /\ EndsPacket(sink[k].segs[j])
        /\ k < rpos \/ rpc = "want" \/ j < next

\* What partial is after segment s, if no page with a part of its packet is missing.
HoldsPart(s) ==
    /\ Len(partial) = s.part /\ partial[1].pkt = s.pkt
    /\ headers = 0 => \A j \in DOMAIN partial : partial[j] = Bytes(s.pkt)[j]
LeftBy(s) == IF EndsPacket(s)
             THEN partial = <<>>
             ELSE s.pkt >= FirstAudio /\ Undamaged(s.pkt) => HoldsPart(s)

\* What the page before the one to be read left; after a missing page, anything.
LeftByPages == (rpos = 0 => partial = <<>>)
               /\ (rpos > 0 /\ rpos \notin gaps => LeftBy(LastSegment(sink[rpos])))
LeftInPage == /\ rpos \notin gaps
              /\ next = 1 /\ rpos = 1 => partial = <<>>
              /\ next = 1 /\ rpos > 1 => LeftBy(LastSegment(sink[rpos - 1]))
              /\ next > 1 => LeftBy(pg.segs[next - 1])

\* Packet i is served, or waits to be.
Kept(i) == \/ \E d \in DOMAIN delivered : delivered[d] = Bytes(i)
           \/ \E k \in DOMAIN queue : queue[k] = Bytes(i)

\* An audio packet waits where newContainerReader takes a header: it will refuse it.
Doomed == \E k \in DOMAIN queue : Served + k <= 2 /\ queue[k][1].pkt >= FirstAudio

Listed == IsSeq(partial) /\ IsSeq(queue) /\ IsSeq(delivered)

Survivors ==
    /\ Listed /\ gaps \subseteq 1..rpos /\ stage \in {"head", "tags", "audio"}
    /\ stage # "audio" => delivered = <<>>
    /\ headers = IF Joined < 2 THEN 2 - Joined ELSE 0
    /\ rpc = "want" => LeftByPages
    /\ rpc = "segs" => LeftInPage
    /\ \A i \in FirstAudio..Len(accepted) : EndPassed(i) /\ Undamaged(i) => Kept(i) \/ Doomed

\* The audio packets up to the nth are within the limit.
InLimit(n) == \A i \in FirstAudio..n : accepted[i].len <= AudioLimit

\* On a source that misses nothing, what was joined is, and what is refused is not.
Measured ==
    /\ InLimit(2 + Len(delivered))
    /\ rpc \in {"want", "segs"} => InLimit(Joined)
    /\ rpc = "toolarge" => \E i \in FirstAudio..Len(accepted) :
                               accepted[i].len > AudioLimit /\ InLimit(i - 1)

SurvivalInv ==
    /\ StreamInv
    /\ fails = 0 /\ rpc \in {"want", "segs"} => Survivors
    /\ fails = 0 /\ gaps = {} => Measured
=============================================================================
