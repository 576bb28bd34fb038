------------------------------- MODULE OggSeek -------------------------------
(***************************************************************************)
(* The page index of oggopus/seek.go, as functions of a finished file:     *)
(* the scans for a page, the measure of the first logical stream           *)
(* (buildIndex) and the bisection for the page a seek lands on             *)
(* (chooseLanding).                                                        *)
(*                                                                         *)
(* A file is its audio pages, the durations of its packets, numbered from  *)
(* 1, and what follows the last whole page.  Offsets are counted from the  *)
(* first audio page, a page being one byte longer than its body.  The      *)
(* scans see every page and nothing that is none: a window that cuts a     *)
(* page and a capture pattern inside a body are left out.                  *)
(***************************************************************************)
EXTENDS OggPage, SequencesExt

CONSTANTS
    Files,        \* the files looked at
    Serial,       \* the serial of the first logical stream
    AudioLimit,   \* audioPacketLimit
    ScanWindow    \* scanWindow: below it a bisection turns into a walk

\* pages, preSkip, dur: the durations, zero if a packet's bytes name none; bad: the
\* packets the codec rejects; tagsBad: audio shares the OpusTags page; junk: bytes
\* behind the last page.

\* G of x, which is worked out once.
Then(x, G(_)) == CHOOSE y \in {G(v) : v \in {x}} : TRUE

Least(a, b) == IF a <= b THEN a ELSE b
Most(a, b) == IF a >= b THEN a ELSE b

ByteLen(segs) == FoldLeft(LAMBDA n, s : n + s.len, 0, segs)
PageLen(p) == 1 + ByteLen(p.segs)

\* The offsets a page starts and ends at.
End(f, k) == FoldLeft(LAMBDA n, p : n + PageLen(p), 0, SubSeq(f.pages, 1, k))
Off(f, k) == End(f, k - 1)
FileLen(f) == End(f, Len(f.pages)) + f.junk

PageNumbers(f) == 1..Len(f.pages)

\* pageRef.hasGranule
HasGranule(p) == p.granule >= 0 /\ CompletesPacket(p.segs)

\* The scans return a page number, or 0 when there is none.
FindForward(f, from, bound) ==
    LET ks == {k \in PageNumbers(f) : Off(f, k) >= from /\ Off(f, k) < bound}
    IN  IF ks = {} THEN 0 ELSE Min(ks)

FindBackward(f, floor, end) ==
    LET ks == {k \in PageNumbers(f) : Off(f, k) >= floor /\ End(f, k) <= end}
    IN  IF ks = {} THEN 0 ELSE Max(ks)

PageAt(f, off) ==
    LET ks == {k \in PageNumbers(f) : Off(f, k) = off}
    IN  IF ks = {} THEN 0 ELSE Min(ks)

-----------------------------------------------------------------------------
(* processPage: the packets a page completes and the one it leaves open.    *)

Reassembly == [queue |-> <<>>, partial |-> <<>>]

Reassemble(partial, p) ==
    FoldLeft(LAMBDA r, s :
                 IF EndsPacket(s)
                 THEN [queue |-> Append(r.queue, Append(r.partial, s)), partial |-> <<>>]
                 ELSE [r EXCEPT !.partial = Append(@, s)],
             [queue |-> <<>>, partial |-> IF p.cont THEN partial ELSE <<>>], p.segs)

\* processPage gives up on a page that makes a packet of more than the limit.
TooLarge(r) == \E p \in Range(r.queue) \cup {r.partial} : ByteLen(p) > AudioLimit

\* The packets completed by pages from..to, read one after the other.
Completed(f, from, to) ==
    FoldLeft(LAMBDA r, p : LET next == Reassemble(r.partial, p) IN
                 [queue |-> r.queue \o next.queue, partial |-> next.partial],
             Reassembly, SubSeq(f.pages, from, to)).queue

\* packetSamples48k of each packet, summed; a packet is known by its segments.
Samples(f, packets) == FoldLeft(LAMBDA n, p : n + f.dur[p[1].pkt], 0, packets)

-----------------------------------------------------------------------------
(* buildIndex                                                               *)

\* Page k is of the first stream.
InLink(f, k) == k # 0 /\ f.pages[k].serial = Serial

\* The walk that settles where the pages of the first stream stop.
LinkWalk(f, from) ==
    LET walk[off \in 0..FileLen(f)] ==
            IF InLink(f, PageAt(f, off)) THEN walk[End(f, PageAt(f, off))] ELSE off
    IN  walk[from]

\* Pages of the first stream come first: bisect on the serial.
LinkBisect(f, limit) ==
    LET bisect[lo \in 0..limit, hi \in 0..limit] ==
            LET mid == lo + (hi - lo) \div 2
                k == FindForward(f, mid, hi)
            IN  IF hi - lo < ScanWindow THEN LinkWalk(f, lo)
                ELSE IF InLink(f, k) THEN bisect[End(f, k), hi]
                ELSE bisect[lo, mid]
    IN  bisect[0, limit]

LinkEnd(f) ==
    LET k == FindBackward(f, 0, FileLen(f))
    IN  IF InLink(f, k) THEN End(f, k) ELSE LinkBisect(f, Off(f, k))

\* A walk over pages from..to that adds up their packets, those of page known aside,
\* which its granule counts; it stops at a packet that is too large or has no duration.
Measure(f, from, to, known) ==
    FoldLeft(LAMBDA m, k :
                 IF m.err # "ok" THEN m
                 ELSE Then(Reassemble(m.partial, f.pages[k]), LAMBDA r :
                      IF TooLarge(r) THEN [m EXCEPT !.err = "toolarge"]
                      ELSE IF k = known
                      THEN [m EXCEPT !.partial = r.partial, !.sum = f.pages[k].granule]
                      ELSE IF \E p \in Range(r.queue) : f.dur[p[1].pkt] = 0
                      THEN [m EXCEPT !.err = "unsupported"]
                      ELSE [m EXCEPT !.partial = r.partial, !.sum = @ + Samples(f, r.queue)]),
             [err |-> "ok", sum |-> 0, partial |-> <<>>],
             [i \in 1..(to - from + 1) |-> from + i - 1])

\* decodedTotal: the samples of a stream of pages 1..last without an
\* end-of-stream page, final being the last with a granule position.
DecodedTotal(f, last, final) ==
    LET before == {k \in 1..(final - 1) : HasGranule(f.pages[k])}
    IN  IF before = {} THEN Measure(f, 1, last, 0)
        ELSE Measure(f, Max(before), last, Max(before))

\* checkInitialGranule, on the first page that completes a packet.
InitialGranule(f, last) ==
    LET ks == {k \in 1..last : CompletesPacket(f.pages[k].segs)}
        first == IF ks = {} THEN last ELSE Min(ks)
        granule == f.pages[first].granule
    IN  Then(Measure(f, 1, first, 0), LAMBDA m :
             IF m.err = "toolarge" \/ ks = {} THEN m.err
             ELSE IF granule = GranuleNone THEN "invalid"
             ELSE IF m.err # "ok" \/ granule > m.sum THEN "unsupported"
             ELSE IF granule < m.sum /\ ~f.pages[first].eos THEN "invalid"
             ELSE "ok")

Index(err, end, length, eos) == [err |-> err, linkEnd |-> end, length |-> length, eos |-> eos]

\* Mutant of DatedIndex: the length is the last granule, end-of-stream or not.
DatedIndexTrimsAlways(f, last, final) ==
    Index(InitialGranule(f, last), End(f, last), f.pages[final].granule - f.preSkip, TRUE)

\* The index of a stream of pages 1..last, the last granule being on page final.
DatedIndex(f, last, final) ==
    IF ~f.pages[last].eos
    THEN Then(DecodedTotal(f, last, final), LAMBDA total :
              Index(IF total.err # "ok" THEN total.err ELSE InitialGranule(f, last),
                    End(f, last), Most(total.sum - f.preSkip, 0), FALSE))
    ELSE IF f.pages[final].granule < f.preSkip
    THEN Index("unsupported", End(f, last), 0, TRUE)
    ELSE Index(InitialGranule(f, last), End(f, last),
               f.pages[final].granule - f.preSkip, TRUE)

\* buildIndex without its I/O errors.
BuildIndex(f) ==
    LET index[last \in PageNumbers(f)] ==
            LET dated == {k \in 1..last : HasGranule(f.pages[k])}
                from[final \in PageNumbers(f)] == DatedIndex(f, last, final)
            IN  IF dated = {} THEN Index("ok", End(f, last), 0, f.pages[last].eos)
                ELSE from[Max(dated)]
    IN  IF f.tagsBad THEN Index("unsupported", 0, 0, FALSE)
        ELSE IF FileLen(f) = 0 THEN Index("ok", 0, 0, FALSE)
        ELSE IF f.pages = <<>> THEN Index("nopage", 0, 0, FALSE)
        ELSE IF LinkEnd(f) = 0 THEN Index("ok", 0, 0, FALSE)
        ELSE index[FindBackward(f, 0, LinkEnd(f))]

-----------------------------------------------------------------------------
(* chooseLanding                                                            *)

\* The first page of the stream from an offset on that has a granule position.
FindGranulePage(f, from, bound) ==
    LET find[off \in 0..FileLen(f)] ==
            LET k == FindForward(f, off, bound)
            IN  IF off >= bound \/ k = 0 THEN 0
                ELSE IF InLink(f, k) /\ HasGranule(f.pages[k]) THEN k
                ELSE find[End(f, k)]
    IN  find[from]

\* The sample a page's successor starts at.
Position(f, k) == f.pages[k].granule - f.preSkip

\* A page up to sample pre is landed on unless it ends inside the pre-skip.
Better(f, k, best) == IF Position(f, k) >= 0 THEN k ELSE best

\* The walk; -1 is the error for an offset no page of the stream starts at.
LandingWalk(f, pre, best, from, hi) ==
    LET walk[b \in 0..Len(f.pages), off \in 0..FileLen(f)] ==
            LET k == PageAt(f, off)
            IN  IF off >= hi THEN b
                ELSE IF ~InLink(f, k) THEN -1
                ELSE IF ~HasGranule(f.pages[k]) THEN walk[b, End(f, k)]
                ELSE IF Position(f, k) > pre THEN b
                ELSE walk[Better(f, k, b), End(f, k)]
    IN  walk[best, from]

\* The bisection's next lower bound, page k found from the middle on.
AfterLanding(f, k, mid) == End(f, k)

LandingBisect(f, pre, limit) ==
    LET bisect[best \in 0..Len(f.pages), lo \in 0..limit, hi \in 0..limit] ==
            LET mid == lo + (hi - lo) \div 2
                k == FindGranulePage(f, mid, hi)
            IN  IF hi - lo < ScanWindow THEN LandingWalk(f, pre, best, lo, hi)
                ELSE IF k = 0 \/ Position(f, k) > pre THEN bisect[best, lo, mid]
                ELSE bisect[Better(f, k, best), AfterLanding(f, k, mid), hi]
    IN  bisect[0, 0, limit]

\* The page to land on for a pre-roll that starts at sample pre; 0 for none.
ChooseLanding(f, idx, pre) == LandingBisect(f, pre, idx.linkEnd)

-----------------------------------------------------------------------------
(* What the index stands for.                                               *)

\* The pages of the first logical stream, as a sequential reader meets them.
Link(f) == {k \in PageNumbers(f) : \A j \in 1..k : f.pages[j].serial = Serial}

\* The samples a sequential decode of the first stream yields: those of its
\* packets, behind the pre-skip and before the end trim.
SequentialLength(f) ==
    LET last == Cardinality(Link(f))
        coded == Samples(f, Completed(f, 1, last)) - f.preSkip
    IN  IF last > 0 /\ f.pages[last].eos /\ Position(f, last) < coded THEN Position(f, last)
        ELSE Most(coded, 0)

\* The last granule is beyond what the packets decode to.
OverClaims(f) ==
    LET last == Cardinality(Link(f))
    IN  f.pages[last].eos /\ f.pages[last].granule > Samples(f, Completed(f, 1, last))
=============================================================================
