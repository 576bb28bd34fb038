------------------------------ MODULE OggDecoder ------------------------------
(***************************************************************************)
(* The Decoder of oggopus/decoder.go and its seeks (seek.go) on a file:    *)
(* fill takes packets from the container reader through the codec, drops   *)
(* the pre-skip, the pre-roll of a seek and the end trim; Length and the   *)
(* two seeks move the source the read-ahead buffer reads from.             *)
(*                                                                         *)
(* A step of a call ends where the source can fail.  PCM is counted: pcm   *)
(* says how many bytes are left of the last packet, which sample they end  *)
(* at, and whether the codec decoded them in the state a sequential decode *)
(* would have.  The codec is known by the packets it has decoded since its *)
(* reset.  The read-ahead holds whole pages.                               *)
(***************************************************************************)
EXTENDS OggSeek

CONSTANTS
    Played,        \* bound: the files calls are made on; of the others only the
                   \* index is looked at
    NextFiles,     \* bound: the files Reset is given
    PreRoll,       \* seekPreRoll
    SampleBytes,   \* 2 * Channels
    ReadSizes,     \* lengths of the buffers Read is given
    Targets,       \* sample indexes the seeks are given
    MaxFaults,     \* bound: errors of the source
    MaxResets      \* bound: calls of Reset

ASSUME DecoderAssumption ==
    /\ NextFiles \subseteq Played /\ Played \subseteq Files
    /\ AudioLimit \in Nat /\ PreRoll \in Nat /\ SampleBytes \in Nat \ {0}
    /\ ReadSizes \subseteq Nat \ {0} /\ Targets \subseteq Nat
    /\ MaxFaults \in Nat /\ MaxResets \in Nat

VARIABLES
    file, plan,    \* the source, and its Plan
    spos, ahead,   \* the page it is at; the pages read ahead into d.br
    cr,            \* the container reader
    codec,         \* packets 1..codec decoded since the reset, or OutOfStep
    \* the Decoder
    dec, pcm, preSkipLeft, delivered, limit, skipTo, atEnd, err, inSequence, idx,
    \* the call in progress, its argument, what the last call returned
    at, op, arg, res,
    \* history: the byte the next Read must begin with, whether its bytes must
    \* be those of a sequential decode
    cursor, exact,
    faults, resets

source == <<file, plan, spos, ahead>>
decoder == <<preSkipLeft, delivered, limit, skipTo, atEnd, err>>
call == <<op, arg>>
dvars == <<source, cr, codec, dec, pcm, decoder, inSequence, idx, at, call, res,
           cursor, exact, faults, resets>>

OutOfStep == -1
Unknown == -1     \* cursor after an error of Read that is not latched
Broken == -2      \* cursor after a failed seek: no data until the next one
NoSample == -100  \* where a packet that is none ends

\* A container reader at the first audio page, and one repositioned at a page.
FreshReader == [queue |-> <<>>, partial |-> <<>>, sawEOS |-> FALSE,
                lastGranule |-> 0, finalGranule |-> -1]

NoPCM == [bytes |-> 0, end |-> 0, exact |-> TRUE]
NoIndex == [ready |-> FALSE, err |-> "ok", linkEnd |-> 0, length |-> 0, eos |-> FALSE]

Lost == 1..(Len(file.pages) + 1)

\* What buildIndex finds in a file and the page each seek then lands on, 0 for a
\* restart: worked out when the file is bound, used when the calls are made.
Plan(f) ==
    Then(BuildIndex(f), LAMBDA i :
         [idx |-> i,
          page |-> [n \in Targets |-> IF n < PreRoll \/ i.err # "ok" THEN 0
                                      ELSE ChooseLanding(f, i, n - PreRoll)]])

\* What d.br may hold once page k has been read from it.
ReadAhead(k) == {SubSeq([i \in 1..Len(file.pages) |-> i], k + 1, n) :
                    n \in k..Least(k + 1, Len(file.pages))}

-----------------------------------------------------------------------------
(* init, Reset                                                              *)

Bound(f) ==
    /\ file' = f /\ plan' = Plan(f) /\ spos' = 1 /\ ahead' = <<>>
    /\ cr' = FreshReader /\ codec' = 0
    /\ dec' = TRUE /\ pcm' = NoPCM /\ preSkipLeft' = f.preSkip
    /\ delivered' = 0 /\ limit' = -1 /\ skipTo' = 0 /\ atEnd' = FALSE
    /\ err' = "none" /\ inSequence' = TRUE
    /\ idx' = NoIndex
    /\ cursor' = 0 /\ exact' = TRUE

DecoderInit ==
    /\ file \in Files /\ plan = Plan(file) /\ spos = 1 /\ ahead = <<>>
    /\ cr = FreshReader /\ codec = 0
    /\ dec = TRUE /\ pcm = NoPCM /\ preSkipLeft = file.preSkip
    /\ delivered = 0 /\ limit = -1 /\ skipTo = 0 /\ atEnd = FALSE
    /\ err = "none" /\ inSequence = TRUE
    /\ idx = NoIndex
    /\ at = "idle" /\ op = "none" /\ arg = 0 /\ res = "none"
    /\ cursor = 0 /\ exact = TRUE /\ faults = 0 /\ resets = 0

Return(r) == at' = "idle" /\ op' = "none" /\ arg' = 0 /\ res' = r

Reset ==
    /\ at = "idle" /\ resets < MaxResets
    /\ resets' = resets + 1
    /\ \E f \in NextFiles : Bound(f)
    /\ Return("ok")
    /\ UNCHANGED <<faults>>

\* A nil source or headers that do not parse: no codec, no reader.
ResetFails ==
    /\ at = "idle" /\ file \in Played /\ resets < MaxResets
    /\ resets' = resets + 1
    /\ dec' = FALSE /\ pcm' = NoPCM /\ idx' = NoIndex
    /\ skipTo' = 0 /\ atEnd' = FALSE /\ err' = "none" /\ inSequence' = FALSE
    /\ cursor' = Broken
    /\ Return("rejected")
    /\ UNCHANGED <<source, cr, codec, preSkipLeft, delivered, limit, exact, faults>>

-----------------------------------------------------------------------------
(* fill                                                                     *)

\* Read fills while it has nothing to copy, a seek until it is at its target.
Filling == \/ at = "read" /\ pcm.bytes = 0
           \/ at = "target" /\ delivered < skipTo

\* seekToEnd
AtEnd(n) ==
    /\ inSequence' = FALSE /\ atEnd' = TRUE /\ err' = "none"
    /\ pcm' = NoPCM /\ cursor' = n * SampleBytes
    /\ Return("ok")
    /\ UNCHANGED <<preSkipLeft, delivered, limit, skipTo>>

\* seekFailed
SeekFailed(e) ==
    /\ inSequence' = FALSE /\ err' = e /\ pcm' = NoPCM
    /\ cursor' = Broken
    /\ Return(e)
    /\ UNCHANGED <<preSkipLeft, delivered, limit, skipTo, atEnd>>

\* Mutant of Done: decodeToTarget does not look at done.
DoneIgnored ==
    IF at = "read"
    THEN Return("eof") /\ UNCHANGED <<pcm, decoder, inSequence, cursor>>
    ELSE UNCHANGED <<at, call, res, pcm, decoder, inSequence, cursor>>

\* What follows the last whole page is read in one go, and is then behind spos.
AtJunk == spos = Len(file.pages) + 1 /\ file.junk > 0

\* fill is done: Read returns io.EOF, a seek stops where the stream does.
Done ==
    IF at = "read"
    THEN Return("eof") /\ UNCHANGED <<pcm, decoder, inSequence, cursor>>
    ELSE AtEnd(delivered)

FillDone ==
    /\ Filling
    /\ \/ atEnd
       \/ /\ cr.queue = <<>>
          /\ cr.sawEOS \/ (ahead = <<>> /\ spos > Len(file.pages) /\ ~AtJunk)
    /\ Done
    /\ UNCHANGED <<source, cr, codec, dec, idx, exact, faults, resets>>

\* Mutant of InSequenceAfter: an error of Read leaves inSequence set.
InSequenceKept == inSequence

\* d.inSequence after an error of fill.
InSequenceAfter == FALSE

\* fill fails: a packet too large is latched, any other error is not.
Fails(e) ==
    IF at = "target" THEN SeekFailed(e)
    ELSE /\ inSequence' = InSequenceAfter
         /\ err' = IF e = "toolarge" THEN e ELSE err
         /\ cursor' = IF e = "toolarge" THEN Broken ELSE Unknown
         /\ Return(e)
         /\ UNCHANGED <<pcm, preSkipLeft, delivered, limit, skipTo, atEnd>>

NeedsPage == Filling /\ ~atEnd /\ cr.queue = <<>> /\ ~cr.sawEOS

\* d.br reads on in the source.
Refill ==
    /\ NeedsPage /\ ahead = <<>> /\ spos <= Len(file.pages)
    /\ \E more \in ReadAhead(spos) :
          /\ ahead' = <<spos>> \o more
          /\ spos' = spos + 1 + Len(more)
    /\ UNCHANGED <<file, plan, cr, codec, dec, pcm, decoder, inSequence, idx, at, call, res,
                   cursor, exact, faults, resets>>

\* The source fails, between two pages or inside the next one, which is then
\* lost; or it ends inside a page.
RefillFails ==
    /\ NeedsPage /\ ahead = <<>>
    /\ \/ /\ faults < MaxFaults /\ faults' = faults + 1
          /\ spos' \in {spos, Least(spos + 1, Len(file.pages) + 1)}
          /\ Fails("io")
       \/ /\ AtJunk
          /\ spos' = spos + 1
          /\ UNCHANGED faults
          /\ Fails("truncated")
    /\ UNCHANGED <<file, plan, ahead, cr, codec, dec, idx, exact, resets>>

\* The reader behind page p.
Processed(reader, p) ==
    LET r == Reassemble(reader.partial, p)
        granule == IF p.granule # GranuleNone THEN p.granule ELSE reader.lastGranule
    IN  [queue |-> r.queue, partial |-> r.partial, sawEOS |-> p.eos,
         lastGranule |-> granule,
         finalGranule |-> IF p.eos THEN granule ELSE reader.finalGranule]

\* nextRawPacket reads a page out of d.br.
TakePage ==
    /\ NeedsPage /\ ahead # <<>>
    /\ ahead' = Tail(ahead)
    /\ LET p == file.pages[Head(ahead)]
           r == Processed(cr, p) IN
       \/ /\ p.serial = Serial /\ ~TooLarge(r)
          /\ cr' = r
          /\ UNCHANGED <<pcm, decoder, inSequence, at, call, res, cursor>>
       \/ /\ p.serial # Serial
          /\ Fails("foreign") /\ UNCHANGED cr
       \/ /\ p.serial = Serial /\ TooLarge(r)
          /\ Fails("toolarge")
          /\ cr' = [cr EXCEPT !.partial = <<>>]
    /\ UNCHANGED <<file, plan, spos, codec, dec, idx, exact, faults, resets>>

\* The sample packet k begins at, counted from the first sample of the stream.
Start(k) == FoldLeft(+, 0, SubSeq(file.dur, 1, k - 1))

Whole(p) == p = Lacing(p[1].pkt, ByteLen(p))

\* d.limit, learned once the EOS page has been read.
LimitNow == IF limit < 0 /\ cr.finalGranule >= 0
            THEN cr.finalGranule - file.preSkip ELSE limit

\* decodeFrame, the drops and the end trim.
DecodePacket ==
    /\ Filling /\ ~atEnd /\ cr.queue # <<>>
    /\ cr' = [cr EXCEPT !.queue = Tail(@)]
    /\ LET p == Head(cr.queue)
           k == p[1].pkt
           skip == Least(preSkipLeft, file.dur[k])
           drop == IF delivered < skipTo
                   THEN Least(skipTo - delivered, file.dur[k] - skip) ELSE 0
           reached == delivered + drop
           left == file.dur[k] - skip - drop
           keep == IF LimitNow >= 0 /\ reached + left > LimitNow
                   THEN Most(LimitNow - reached, 0) ELSE left
       IN  IF k \in file.bad
           THEN Fails("bad") /\ codec' = OutOfStep
           ELSE /\ codec' = IF codec = k - 1 THEN k ELSE OutOfStep
                /\ limit' = LimitNow
                /\ preSkipLeft' = preSkipLeft - skip
                /\ delivered' = reached + keep
                /\ pcm' = [bytes |-> keep * SampleBytes,
                           end |-> IF Whole(p)
                                   THEN Start(k) + skip + drop + keep - file.preSkip
                                   ELSE NoSample,
                           exact |-> codec = k - 1]
                /\ UNCHANGED <<skipTo, atEnd, err, inSequence, at, call, res, cursor>>
    /\ UNCHANGED <<source, dec, idx, exact, faults, resets>>

-----------------------------------------------------------------------------
(* Read; WriteTo is Read after Read.                                        *)

Read(n) ==
    /\ at = "idle" /\ file \in Played
    /\ IF ~dec THEN Return("uninitialized")
       ELSE IF err # "none" THEN Return("latched")
       ELSE at' = "read" /\ op' = "read" /\ arg' = n /\ res' = "none"
    /\ UNCHANGED <<source, cr, codec, dec, pcm, decoder, inSequence, idx, cursor,
                   exact, faults, resets>>

ReadCopies ==
    /\ at = "read" /\ pcm.bytes > 0
    /\ LET n == Least(arg, pcm.bytes) IN
       /\ pcm' = [pcm EXCEPT !.bytes = @ - n]
       /\ cursor' = IF cursor = Unknown THEN Unknown ELSE cursor + n
    /\ Return("data")
    /\ UNCHANGED <<source, cr, codec, dec, decoder, inSequence, idx, exact,
                   faults, resets>>

-----------------------------------------------------------------------------
(* Length, SeekToSample, SeekToSampleExact: ensureIndex first.              *)

\* The call once the index is there.
Indexed(o, n, index) ==
    IF index.err # "ok" THEN Return(index.err)
    ELSE IF o = "length" THEN Return("ok")
    ELSE at' = o /\ op' = o /\ arg' = n /\ res' = "none"

Ask(o, n) ==
    /\ at = "idle" /\ file \in Played
    /\ IF ~dec THEN Return("uninitialized")
       ELSE IF idx.ready THEN Indexed(o, n, idx)
       ELSE at' = "index" /\ op' = o /\ arg' = n /\ res' = "none"
    /\ UNCHANGED <<source, cr, codec, dec, pcm, decoder, inSequence, idx, cursor,
                   exact, faults, resets>>

\* Mutant of Restored: the read position is not put back.
NotRestored == {Len(file.pages) + 1}

\* Where the source is once the index is built.
Restored == {spos}

\* A packet that is too large is met again by the next call; the rest is remembered.
IndexBuilt ==
    /\ at = "index"
    /\ LET i == plan.idx
       IN  /\ idx' = IF i.err = "toolarge" THEN idx
                     ELSE [ready |-> TRUE, err |-> i.err, linkEnd |-> i.linkEnd,
                           length |-> i.length, eos |-> i.eos]
           /\ Indexed(op, arg, i)
    /\ spos' \in Restored
    /\ UNCHANGED <<file, plan, ahead, cr, codec, dec, pcm, decoder, inSequence, cursor,
                   exact, faults, resets>>

\* An I/O error while indexing is not remembered; one that leaves the source
\* where it is cannot be read past.
IndexFails ==
    /\ at = "index" /\ faults < MaxFaults
    /\ faults' = faults + 1
    /\ \/ Return("io") /\ UNCHANGED <<spos, pcm, decoder, inSequence, cursor>>
       \/ SeekFailed("io") /\ spos' \in Lost
    /\ UNCHANGED <<file, plan, ahead, cr, codec, dec, idx, exact, resets>>

\* resetForSeek
ResetForSeek(skip, from, lim) ==
    /\ codec' = 0 /\ preSkipLeft' = skip /\ delivered' = from /\ skipTo' = arg
    /\ limit' = lim /\ pcm' = NoPCM /\ atEnd' = FALSE /\ err' = "none"
    /\ at' = "target"
    /\ UNCHANGED <<call, res>>

\* rewind: a new container reader at the first audio page.
Rewind == /\ cr' = FreshReader
          /\ ahead' \in ReadAhead(0)
          /\ spos' = 1 + Len(ahead')

PastEnd ==
    /\ at \in {"seek", "exact"} /\ arg >= idx.length
    /\ AtEnd(idx.length)
    /\ UNCHANGED <<source, cr, codec, dec, idx, exact, faults, resets>>

Landing == plan.page[arg]

SeekLimit == IF idx.eos THEN idx.length ELSE -1

SeekRestarts ==
    /\ at = "seek" /\ arg < idx.length /\ Landing = 0
    /\ inSequence' = FALSE
    /\ Rewind
    /\ ResetForSeek(file.preSkip, 0, SeekLimit)
    /\ exact' = TRUE
    /\ UNCHANGED <<file, plan, dec, idx, cursor, faults, resets>>

\* repositionAt
Repositioned == [FreshReader EXCEPT !.lastGranule = cr.lastGranule]

\* The packets the landing page completes are not decoded.
SeekLands ==
    /\ at = "seek" /\ arg < idx.length /\ Landing > 0
    /\ inSequence' = FALSE
    /\ LET r == Processed(Repositioned, file.pages[Landing]) IN
       IF TooLarge(r)
       THEN /\ SeekFailed("toolarge")
            /\ cr' = Repositioned
            /\ UNCHANGED <<codec, exact>>
       ELSE /\ cr' = [r EXCEPT !.queue = <<>>]
            /\ ResetForSeek(0, Position(file, Landing), SeekLimit)
            /\ exact' = FALSE
            /\ UNCHANGED cursor
    /\ ahead' \in ReadAhead(Landing)
    /\ spos' = Landing + 1 + Len(ahead')
    /\ UNCHANGED <<file, plan, dec, idx, faults, resets>>

\* The samples SeekToSampleExact can go forward from: the next whole one is in
\* reach and nothing disturbed the codec.
Ahead == inSequence /\ arg >= delivered - pcm.bytes \div SampleBytes

ExactBuffered ==
    /\ at = "exact" /\ arg < idx.length /\ Ahead /\ arg <= delivered
    /\ pcm' = [pcm EXCEPT !.bytes = (delivered - arg) * SampleBytes]
    /\ cursor' = arg * SampleBytes /\ exact' = TRUE
    /\ Return("ok")
    /\ UNCHANGED <<source, cr, codec, dec, decoder, inSequence, idx, faults, resets>>

ExactForward ==
    /\ at = "exact" /\ arg < idx.length /\ Ahead /\ arg > delivered
    /\ pcm' = NoPCM /\ skipTo' = arg /\ exact' = TRUE
    /\ at' = "target"
    /\ UNCHANGED <<source, cr, codec, dec, preSkipLeft, delivered, limit, atEnd, err,
                   inSequence, idx, call, res, cursor, faults, resets>>

ExactRestarts ==
    /\ at = "exact" /\ arg < idx.length /\ ~Ahead
    /\ Rewind
    /\ ResetForSeek(file.preSkip, 0, -1)
    /\ inSequence' = TRUE /\ exact' = TRUE
    /\ UNCHANGED <<file, plan, dec, idx, cursor, faults, resets>>

\* The source fails while SeekToSample looks for its landing, or either seek
\* moves it; the read-ahead may have been dropped already.
SeekFails ==
    /\ arg < idx.length
    /\ at = "seek" \/ (at = "exact" /\ ~Ahead)
    /\ faults < MaxFaults
    /\ faults' = faults + 1
    /\ SeekFailed("io")
    /\ spos' \in Lost /\ ahead' \in {ahead, <<>>}
    /\ cr' \in IF at = "seek" /\ Landing > 0 THEN {cr, Repositioned} ELSE {cr}
    /\ UNCHANGED <<file, plan, codec, dec, idx, exact, resets>>

\* decodeToTarget is there.
TargetReached ==
    /\ at = "target" /\ delivered >= skipTo
    /\ cursor' = arg * SampleBytes
    /\ Return("ok")
    /\ UNCHANGED <<source, cr, codec, dec, pcm, decoder, inSequence, idx, exact,
                   faults, resets>>

-----------------------------------------------------------------------------

DecoderRuns ==
    \/ FillDone \/ Refill \/ TakePage \/ DecodePacket \/ ReadCopies
    \/ IndexBuilt \/ PastEnd \/ SeekRestarts \/ SeekLands
    \/ ExactBuffered \/ ExactForward \/ ExactRestarts \/ TargetReached
SourceFails == RefillFails \/ IndexFails \/ SeekFails
DecoderCalls ==
    \/ Reset \/ ResetFails
    \/ \E n \in ReadSizes : Read(n)
    \/ Ask("length", 0)
    \/ \E n \in Targets : Ask("seek", n) \/ Ask("exact", n)

DecoderSpec == DecoderInit /\ [][DecoderRuns \/ SourceFails \/ DecoderCalls]_dvars

\* A call runs to its return; a file that ends inside a page fails the call.
DecoderFairSpec == DecoderSpec /\ WF_dvars(DecoderRuns \/ RefillFails)

-----------------------------------------------------------------------------
(* Properties.                                                              *)

\* What reading the whole file would have found: where the first stream ends, and as
\* many samples as its packets decode to behind the pre-skip and before the end trim,
\* if the last granule claims no sample they do not hold.
LengthIsSequential ==
    ~OverClaims(file) =>
        /\ plan.idx.linkEnd = End(file, Cardinality(Link(file)))
        /\ plan.idx.length = SequentialLength(file)

\* The page a walk over the whole stream would choose: the last whose successor starts
\* at a sample in 0..pre.
LandingIsLast ==
    \A pre \in 0..plan.idx.length :
        LET ks == {k \in Link(file) : /\ HasGranule(file.pages[k])
                                      /\ Position(file, k) \in 0..pre}
        IN  ChooseLanding(file, plan.idx, pre) = IF ks = {} THEN 0 ELSE Max(ks)

\* However a stream is paged and whatever lies behind it, the index is that of a
\* sequential decode (Length: "equals the sequential decode length exactly"), and the
\* bisection lands where a walk would (chooseLanding).
IndexExact ==
    (res = "none" /\ at = "idle" /\ plan.idx.err = "ok" /\ file.pages # <<>>) =>
        LengthIsSequential /\ LandingIsLast

Returns(r) == at # "idle" /\ at' = "idle" /\ res' = r

\* Whatever was read, measured, sought and refused before, a Read begins with
\* the byte after the last one read or with the sample the last seek returned,
\* and there is no data between a failed seek and one that succeeds (fill's
\* drops, decodeToTarget, ensureIndex's restored position, d.err); it reports the
\* end only at the sample Length counts, or where a seek past the end put it (the
\* end trim, d.atEnd).  After SeekToSampleExact, after a SeekToSample that restarts
\* at the first page and as long as nothing was sought, it yields what a sequential
\* decode yields: the codec has decoded every packet before (d.inSequence).
ReadsInPlace ==
    [][/\ Returns("data") =>
             /\ cursor # Broken
             /\ cursor = Unknown \/ pcm.end * SampleBytes - pcm.bytes = cursor
             /\ exact /\ cursor # Unknown => pcm.exact
       /\ (Returns("eof") /\ cursor >= 0) =>
             \/ cursor = SequentialLength(file) * SampleBytes
             \/ atEnd /\ cursor = idx.length * SampleBytes]_dvars

\* A seek that meets no I/O error reaches its target on a stream whose packets
\* decode, whatever failed before it: it returns the index asked for or the end,
\* and a packet the codec rejects can stop it only if it comes before the target.
SeekReaches ==
    [][(at # "idle" /\ at' = "idle" /\ op \in {"seek", "exact"} /\ idx'.err = "ok") =>
           \/ res' = "io"
           \/ res' = "bad" /\ \E k \in file.bad : Start(k) - file.preSkip < arg
           \/ res' = "toolarge" /\ \E k \in DOMAIN file.dur : Start(k) - file.preSkip < arg
           \/ /\ res' = "ok"
              /\ cursor' = SampleBytes *
                     (IF arg >= idx.length THEN idx.length
                      ELSE Least(arg, SequentialLength(file)))]_dvars

\* Every call returns: a seek past what the packets decode to stops as well.
CallsReturn == (at # "idle") ~> (at = "idle")
=============================================================================
