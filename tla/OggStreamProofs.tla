--------------------------- MODULE OggStreamProofs ---------------------------
(***************************************************************************)
(* Theorems about OggStream, for every page geometry and every sequence of *)
(* packets: the reader joins what it has read, so the container implements *)
(* PacketStream, and reports the duration the stream was closed with; and  *)
(* what no missing page had a part of comes out of it whole.               *)
(***************************************************************************)
EXTENDS OggStream, OggWriterProofs, FiniteSetTheorems, WellFoundedInduction

\* The writer and the process it is in are one of the writers OggWriterProofs is about.
LEMMA StreamDrivesWriter == [StreamNext]_svars => [AnyNext]_vars
  <1>1. Abandon => Leave
    BY DEF Abandon, Leave
  <1> QED
    BY <1>1, NextIsAny DEF StreamNext, svars, AnyNext

LEMMA StreamWriter == /\ StreamInit => WriterInv
                      /\ WriterInv /\ [StreamNext]_svars => WriterInv'
  BY WriterStarts, WriterKeeps, StreamDrivesWriter DEF StreamInit

\* What a step does to the sink: nothing, or one page more.
LEMMA SinkSteps ==
    ASSUME [AnyNext]_vars
    PROVE  \/ sink' = sink
           \/ /\ pc \in {"enter", "place", "eos"} /\ havePage
              /\ \E e \in BOOLEAN : sink' = Append(sink, PendingPage(e)) /\ (e => pc' = "ready")
  <1>1. CASE CommitForced
    BY <1>1 DEF CommitForced, AtForced, Commit
  <1>2. CASE CommitFull
    BY <1>2 DEF CommitFull, AtFull, PageFull, Commit
  <1>3. CASE CommitLast
    BY <1>3 DEF CommitLast, AtLast, Commit
  <1>4. CASE CommitFails \/ Enter \/ PlaceSegment \/ ReturnHead \/ ReturnTags \/ ReturnWrite
             \/ ReturnClose \/ Leave
    BY <1>4 DEF CommitFails, Enter, PlaceSegment, ReturnHead, ReturnTags, ReturnWrite,
       ReturnClose, Leave
  <1>5. CASE \/ \E n \in Nat, d \in Nat : WritePacket(n, d)
             \/ \E n \in Nat : Close(n)
    BY <1>5 DEF WritePacket, Close
  <1>6. CASE UNCHANGED vars
    BY <1>6 DEF vars
  <1> QED
    BY <1>1, <1>2, <1>3, <1>4, <1>5, <1>6 DEF AnyNext, Step

\* The pages on the sink stay where they are.
LEMMA SinkGrows ==
    ASSUME TypeOK, NEW e \in BOOLEAN, sink' = Append(sink, PendingPage(e))
    PROVE  /\ Len(sink) \in Nat /\ DOMAIN sink = 1..Len(sink)
           /\ Len(sink') = Len(sink) + 1 /\ DOMAIN sink' = 1..(Len(sink) + 1)
           /\ \A k \in DOMAIN sink : sink'[k] = sink[k]
           /\ sink'[Len(sink')] = PendingPage(e)
           /\ PendingPage(e).segs = seg /\ PendingPage(e).eos = e
           /\ PendingPage(e).serial = StreamSerial
  <1> DEFINE p == PendingPage(e)
  <1>1. p \in Page
    BY WriterAssumption DEF PendingPage, Page, TypeOK
  <1>2. p.segs = seg /\ p.eos = e /\ p.serial = StreamSerial
    BY DEF PendingPage
  <1>3. sink \in Seq(Page) /\ Len(sink) \in Nat /\ DOMAIN sink = 1..Len(sink)
    BY LenProperties DEF TypeOK
  <1>5. sink' = Append(sink, p)
    OBVIOUS
  <1> HIDE DEF p
  <1>4. /\ Len(sink') = Len(sink) + 1 /\ DOMAIN sink' = 1..(Len(sink) + 1)
        /\ \A k \in DOMAIN sink : sink'[k] = sink[k]
        /\ sink'[Len(sink')] = p
    BY <1>1, <1>3, <1>5
  <1> QED
    BY <1>2, <1>3, <1>4 DEF p

\* A process that has written the EOS page does not go away.
LEMMA EndedStays ==
    ASSUME WriterInv, AtPage, [StreamNext]_svars
    PROVE  (Ended => pc # "dropped")'
  <1>0. sink \in Seq(Page) /\ TypeOK /\ ClosingOK /\ [AnyNext]_vars
    BY StreamDrivesWriter DEF WriterInv, PageInv, TypeOK
  <1>1. CASE sink' = sink
    <2> SUFFICES ASSUME Ended PROVE pc' # "dropped"
      BY <1>1 DEF Ended
    <2>1. Len(sink) \in DOMAIN sink /\ sink[Len(sink)].eos
      BY <1>0, EmptySeq, LenProperties DEF Ended
    <2>2. pc = "ready"
      BY <1>0, <2>1 DEF ClosingOK, AtPage
    <2>3. ~Abandon
      BY DEF Abandon
    <2>4. Next => pc' # "dropped"
      BY <2>2 DEF Next, Step, CommitForced, CommitFull, CommitLast, CommitFails, Enter,
         PlaceSegment, ReturnHead, ReturnTags, ReturnWrite, ReturnClose, Dropped, AtForced, AtFull,
         AtLast, Returns, WritePacket, Close, PlaceAudio
    <2> QED
      BY <2>2, <2>3, <2>4 DEF StreamNext, svars, vars
  <1>2. CASE sink' # sink
    <2>1. PICK e \in BOOLEAN : sink' = Append(sink, PendingPage(e)) /\ (e => pc' = "ready")
      BY <1>0, <1>2, SinkSteps
    <2>2. sink'[Len(sink')].eos = e
      BY <1>0, <2>1, SinkGrows
    <2> QED
      BY <2>1, <2>2 DEF Ended
  <1> QED
    BY <1>1, <1>2

-----------------------------------------------------------------------------
(* Where the reader is.                                                      *)

LEMMA AtPageInit == StreamInit => AtPage
  <1> SUFFICES ASSUME StreamInit PROVE AtPage
    OBVIOUS
  <1>1. sink = <<>> /\ rpos = 0 /\ serial = R!NoSerial /\ rpc = "want" /\ sawEOS = FALSE
    BY Zenon DEF StreamInit, Init, R!RInit
  <1>2. DOMAIN sink = {} /\ Len(sink) = 0
    BY <1>1
  <1>3. ~Ended
    BY <1>1 DEF Ended
  <1> QED
    BY <1>1, <1>2, <1>3 DEF AtPage

\* The writer's steps leave the reader where it is.
LEMMA AtPageWriter ==
    ASSUME WriterInv, AtPage, [StreamNext]_svars, UNCHANGED readerVars
    PROVE  AtPage'
  <1>0. TypeOK /\ [AnyNext]_vars
    BY StreamDrivesWriter DEF WriterInv, PageInv
  <1>e. (Ended => pc # "dropped")'
    BY EndedStays
  <1>1. CASE sink' = sink
    BY <1>1, <1>e DEF AtPage, readerVars
  <1>2. CASE sink' # sink
    <2>1. PICK e \in BOOLEAN : sink' = Append(sink, PendingPage(e)) /\ (e => pc' = "ready")
      BY <1>0, <1>2, SinkSteps
    <2>2. /\ Len(sink) \in Nat /\ DOMAIN sink = 1..Len(sink)
          /\ Len(sink') = Len(sink) + 1 /\ DOMAIN sink' = 1..(Len(sink) + 1)
          /\ \A k \in DOMAIN sink : sink'[k] = sink[k]
          /\ sink'[Len(sink) + 1].serial = StreamSerial
      BY <1>0, <2>1, SinkGrows
    <2>3. rpos' = rpos /\ rpos \in 0..Len(sink) /\ (rpos > 0 => sink'[rpos] = sink[rpos])
      BY <2>2 DEF AtPage, readerVars
    <2>4. \A k \in DOMAIN sink' : sink'[k].serial = StreamSerial
      BY <2>2 DEF AtPage
    <2>5. rpos' \in 0..Len(sink')
      BY <2>2, <2>3
    <2>6. (sawEOS => /\ rpos > 0 /\ sink[rpos].eos
                     /\ sink[rpos].granule # GranuleNone => finalGranule = sink[rpos].granule)'
      BY <2>3 DEF AtPage, readerVars
    <2>7. (rpc = "segs" => rpos > 0 /\ pg = sink[rpos] /\ next \in 1..(Len(pg.segs) + 1))'
      BY <2>3 DEF AtPage, readerVars
    <2> QED
      BY <1>e, <2>4, <2>5, <2>6, <2>7 DEF AtPage, readerVars
  <1> QED
    BY <1>1, <1>2

\* BeginPage at a page of the source.
LEMMA ReadPageTo ==
    ASSUME WriterInv, AtPage, R!ReadPage
    PROVE  /\ rpos < Len(sink) /\ rpos' = rpos + 1 /\ rpc = "want" /\ queue = <<>> /\ ~sawEOS
           /\ UNCHANGED <<stage, queue, headers, lastGranule, finalGranule, sawEOS, delivered, gaps>>
           /\ serial' = StreamSerial
           /\ \/ /\ rpc' = "segs" /\ pg' = sink[rpos + 1] /\ next' = 1
                 /\ partial' = IF sink[rpos + 1].cont THEN partial ELSE <<>>
              \/ rpc' = "foreign" /\ UNCHANGED <<pg, next, partial>>
           /\ rpos \in Nat /\ Len(sink) \in Nat /\ rpos + 1 \in DOMAIN sink
  <1>0. sink \in Seq(Page) /\ DOMAIN sink = 1..Len(sink) /\ Len(sink) \in Nat
    BY LenProperties DEF WriterInv, PageInv, TypeOK
  <1>1. rpos < Len(sink) /\ rpos' = rpos + 1 /\ R!BeginPage(sink[rpos + 1]) /\ gaps' = gaps
    BY DEF R!ReadPage
  <1>2. rpos \in Nat /\ rpos + 1 \in DOMAIN sink
    BY <1>0, <1>1 DEF AtPage
  <1>3. sink[rpos + 1].serial = StreamSerial /\ serial \in {R!NoSerial, StreamSerial}
    BY <1>2 DEF AtPage
  <1>4. serial' = StreamSerial
    BY <1>1, <1>3 DEF R!BeginPage
  <1> QED
    BY <1>0, <1>1, <1>2, <1>4 DEF R!BeginPage, R!NeedsPage, R!Dangling

\* A page of another stream is refused.
LEMMA ForeignRefused ==
    ASSUME AtPage, R!ReadForeign
    PROVE  /\ rpc = "want" /\ rpc' = "foreign"
           /\ UNCHANGED <<rpos, pg, next, stage, serial, partial, queue, headers, lastGranule,
                          finalGranule, sawEOS, delivered, gaps>>
  <1>1. PICK p \in ForeignPages : R!BeginPage(p)
    BY DEF R!ReadForeign
  <1>2. serial # R!NoSerial /\ rpos' = rpos /\ gaps' = gaps
    BY DEF R!ReadForeign
  <1>3. p.serial # serial
    BY <1>2, StreamAssumption DEF AtPage
  <1> QED
    BY <1>1, <1>2, <1>3 DEF R!BeginPage, R!NeedsPage

\* The reader's steps.
LEMMA AtPageReader ==
    ASSUME WriterInv, AtPage, R!ReaderStep \/ R!ReaderFault, UNCHANGED vars
    PROVE  AtPage'
  <1> USE DEF R!readerState
  <1>0. sink \in Seq(Page) /\ DOMAIN sink = 1..Len(sink) /\ Len(sink) \in Nat
    BY LenProperties DEF WriterInv, PageInv, TypeOK
  <1>v. sink' = sink /\ pc' = pc /\ (Ended' <=> Ended)
    BY DEF vars, Ended
  <1>1. CASE R!Serve
    BY <1>v, <1>1 DEF R!Serve, AtPage
  <1>2. CASE R!EndOfStream
    BY <1>v, <1>2 DEF R!EndOfStream, AtPage
  <1>3. CASE R!ReadPage
    <2>1. sink[rpos + 1] \in Page
      BY <1>3, ReadPageTo, <1>0, PageFields
    <2>2. Len(sink[rpos + 1].segs) \in Nat
      BY <1>0, <1>3, ReadPageTo, PageFields, LenProperties
    <2> QED
      BY <1>0, <1>3, <1>v, <2>2, ReadPageTo DEF AtPage
  <1>4. CASE R!JoinSegment
    <2>1. /\ rpc = "segs" /\ next <= Len(pg.segs) /\ next' = next + 1
          /\ UNCHANGED <<rpos, rpc, pg, serial, finalGranule, sawEOS>>
      BY <1>4 DEF R!JoinSegment
    <2>2. rpos \in DOMAIN sink /\ pg = sink[rpos]
      BY <1>0, <2>1 DEF AtPage
    <2>3. Len(pg.segs) \in Nat
      BY <1>0, <2>2, PageFields, LenProperties
    <2> QED
      BY <1>v, <2>1, <2>3 DEF AtPage
  <1>5. CASE R!PacketTooLarge
    BY <1>v, <1>5 DEF R!PacketTooLarge, AtPage
  <1>6. CASE R!EndPage
    BY <1>v, <1>6 DEF R!EndPage, AtPage, R!GranuleNone, GranuleNone
  <1>7. CASE R!ReadFails
    BY <1>v, <1>7 DEF R!ReadFails, AtPage
  <1>8. CASE R!ReadForeign
    BY <1>v, <1>8, ForeignRefused DEF AtPage
  <1>9. CASE R!LosePage
    BY <1>0, <1>v, <1>9 DEF R!LosePage, R!NeedsPage, AtPage
  <1> QED
    BY <1>1, <1>2, <1>3, <1>4, <1>5, <1>6, <1>7, <1>8, <1>9 DEF R!ReaderStep, R!ReaderFault

LEMMA AtPageStep == WriterInv /\ AtPage /\ [StreamNext]_svars => AtPage'
  <1> SUFFICES ASSUME WriterInv, AtPage, [StreamNext]_svars PROVE AtPage'
    OBVIOUS
  <1>1. CASE UNCHANGED readerVars
    BY <1>1, AtPageWriter
  <1>2. CASE (R!ReaderStep \/ R!ReaderFault) /\ UNCHANGED vars
    BY <1>2, AtPageReader
  <1> QED
    BY <1>1, <1>2 DEF StreamNext, svars

\* The reader is where the writer's pages put it, whatever the source misses.
THEOREM ReaderAtPage == StreamSpec => [](WriterInv /\ AtPage)
  <1>1. StreamInit => WriterInv /\ AtPage
    BY StreamWriter, AtPageInit
  <1>2. WriterInv /\ AtPage /\ [StreamNext]_svars => (WriterInv /\ AtPage)'
    BY StreamWriter, AtPageStep
  <1> QED
    BY <1>1, <1>2, PTL DEF StreamSpec

\* The EOS page is the writer's last, and it is stamped.
LEMMA EndRead == WriterInv /\ AtPage => DurationExact
  <1> SUFFICES ASSUME WriterInv, AtPage, fails = 0, sawEOS PROVE R!TotalSamples + PreSkip = LastEnd
    BY DEF DurationExact
  <1>0. /\ sink \in Seq(Page) /\ DOMAIN sink = 1..Len(sink) /\ Len(sink) \in Nat
        /\ ClosingOK /\ PagesWellFormed /\ TypeOK
    BY LenProperties DEF WriterInv, PageInv, TypeOK
  <1>1. rpos \in DOMAIN sink /\ sink[rpos].eos
    BY <1>0 DEF AtPage
  <1>2. rpos = Len(sink)
    BY <1>0, <1>1 DEF PagesWellFormed, WellPlaced
  <1>3. Ended
    BY <1>0, <1>1, <1>2 DEF Ended
  <1>4. closing /\ pc = "ready"
    BY <1>0, <1>1, <1>3 DEF AtPage, ClosingOK
  <1>5. sink[rpos].granule = LastEnd
    BY <1>2, <1>4, LastStamp
  <1>6. LastEnd \in Nat
    <2>1. accepted \in Seq(Accepted) /\ Len(accepted) \in 1..Len(accepted)
      BY <1>0, LenProperties DEF TypeOK
    <2>2. accepted[Len(accepted)] \in Accepted
      BY <2>1, ElementOfSeq
    <2> QED
      BY <2>2 DEF LastEnd, Accepted
  <1>7. finalGranule = LastEnd
    BY <1>5, <1>6 DEF AtPage, GranuleNone
  <1> QED
    BY <1>6, <1>7, WriterAssumption DEF R!TotalSamples

\* The duration the reader reports at the end of a closed stream is the one close was
\* given, or what was already written if that is more: on a sink that took every page,
\* and whatever pages before the last the source missed (totalSamples, finalGranule).
THEOREM DurationReported == StreamSpec => []DurationExact
  BY ReaderAtPage, EndRead, PTL

-----------------------------------------------------------------------------
(* What is on the pages.                                                     *)

\* A packet accepted keeps its place and its length.
LEMMA AcceptedKept ==
    ASSUME TypeOK, [AnyNext]_vars
    PROVE  /\ Len(accepted') \in {Len(accepted), Len(accepted) + 1}
           /\ \A i \in DOMAIN accepted : i \in DOMAIN accepted' /\ accepted'[i].len = accepted[i].len
           /\ \/ Len(accepted') = Len(accepted)
              \/ ReturnWrite
              \/ \E n, d \in Nat : WritePacket(n, d) /\ held = NoPacket
  <1>0. accepted \in Seq(Accepted) /\ Len(accepted) \in Nat /\ DOMAIN accepted = 1..Len(accepted)
    BY LenProperties DEF TypeOK
  <1>1. ASSUME NEW p, Hold(p)
        PROVE  /\ Len(accepted') = Len(accepted) + 1
               /\ \A i \in DOMAIN accepted :
                     i \in DOMAIN accepted' /\ accepted'[i].len = accepted[i].len
    <2> DEFINE new == [len |-> p.len, end |-> LastEnd + p.dur]
               S == Accepted \cup {new}
    <2>1. accepted' = Append(accepted, new)
      BY <1>1 DEF Hold
    <2>2. accepted \in Seq(S) /\ new \in S
      BY <1>0
    <2> HIDE DEF new, S
    <2> QED
      BY <1>0, <2>1, <2>2
  <1>2. CASE ReturnWrite
    BY <1>0, <1>1, <1>2 DEF ReturnWrite
  <1>3. ASSUME NEW n \in Nat, NEW d \in Nat, WritePacket(n, d), held = NoPacket
        PROVE  /\ Len(accepted') = Len(accepted) + 1
               /\ \A i \in DOMAIN accepted :
                     i \in DOMAIN accepted' /\ accepted'[i].len = accepted[i].len
    BY <1>1, <1>3 DEF WritePacket
  <1>4. ASSUME NEW n \in Nat, NEW d \in Nat, WritePacket(n, d), held # NoPacket
        PROVE  accepted' = accepted
    BY <1>4 DEF WritePacket
  <1>5. ASSUME NEW n \in Nat, Close(n)
        PROVE  /\ Len(accepted') = Len(accepted)
               /\ \A i \in DOMAIN accepted :
                     i \in DOMAIN accepted' /\ accepted'[i].len = accepted[i].len
    <2>1. CASE held = NoPacket
      BY <1>5, <2>1 DEF Close
    <2>2. CASE held # NoPacket
      <3> DEFINE x == Larger(PreSkip + n, accepted[Len(accepted) - 1].end)
      <3>1. accepted' = [accepted EXCEPT ![Len(accepted)].end = x]
        BY <1>5, <2>2 DEF Close
      <3> HIDE DEF x
      <3>2. DOMAIN accepted' = 1..Len(accepted)
        BY <1>0, <3>1
      <3>3. \A i \in DOMAIN accepted : accepted[i] \in Accepted
        BY <1>0, ElementOfSeq
      <3>4. \A i \in DOMAIN accepted : accepted'[i].len = accepted[i].len
        BY <1>0, <3>1, <3>3 DEF Accepted
      <3>5. Len(accepted') = Len(accepted)
        BY <1>0, <3>1, ExceptSeq
      <3> QED
        BY <1>0, <3>2, <3>4, <3>5
    <2> QED
      BY <2>1, <2>2
  <1>6. CASE \/ CommitForced \/ CommitFull \/ CommitLast \/ CommitFails \/ Enter \/ PlaceSegment
             \/ ReturnHead \/ ReturnTags \/ ReturnClose \/ Leave
    <2>1. accepted' = accepted
      BY <1>6 DEF CommitForced, CommitFull, CommitLast, CommitFails, Enter, PlaceSegment,
         ReturnHead, ReturnTags, ReturnClose, Leave
    <2> QED
      BY <1>0, <2>1
  <1>7. CASE UNCHANGED vars
    <2>1. accepted' = accepted
      BY <1>7 DEF vars
    <2> QED
      BY <1>0, <2>1
  <1> QED
    BY <1>0, <1>2, <1>3, <1>4, <1>5, <1>6, <1>7 DEF AnyNext, Step

\* The new packet is the last accepted.
LEMMA HoldLast ==
    ASSUME TypeOK, NEW p, Hold(p)
    PROVE  /\ Len(accepted) \in Nat /\ Len(accepted') = Len(accepted) + 1
           /\ accepted'[Len(accepted) + 1].len = p.len /\ held' = p
  <1> DEFINE new == [len |-> p.len, end |-> LastEnd + p.dur]
             S == Accepted \cup {new}
  <1>1. accepted' = Append(accepted, new) /\ new.len = p.len
    BY DEF Hold
  <1>2. accepted \in Seq(S) /\ new \in S /\ Len(accepted) \in Nat
    BY DEF TypeOK
  <1> HIDE DEF new, S
  <1> QED
    BY <1>1, <1>2 DEF Hold

\* The packets accepted are of the lengths the caller gives and no more than the bound.
LEMMA BoundsStep ==
    ASSUME TypeOK, Laced, [StreamNext]_svars
    PROVE  /\ Len(accepted') <= MaxPackets + 2
           /\ \A i \in FirstAudio..Len(accepted') : accepted'[i].len \in PacketLens
  <1>0. /\ Len(accepted) \in Nat /\ Len(accepted) <= MaxPackets + 2 /\ MaxPackets \in Nat
        /\ DOMAIN accepted = 1..Len(accepted)
        /\ \A i \in FirstAudio..Len(accepted) : accepted[i].len \in PacketLens
    BY WriterAssumption, LenProperties DEF TypeOK, Laced
  <1>1. ASSUME Len(accepted') = Len(accepted) + 1, accepted'[Len(accepted) + 1].len \in PacketLens,
               Len(accepted) < MaxPackets + 2, [AnyNext]_vars
        PROVE  /\ Len(accepted') <= MaxPackets + 2
               /\ \A i \in FirstAudio..Len(accepted') : accepted'[i].len \in PacketLens
    <2>1. \A i \in DOMAIN accepted : accepted'[i].len = accepted[i].len
      BY <1>1, AcceptedKept
    <2> QED
      BY <1>0, <1>1, <2>1 DEF FirstAudio
  <1>2. ASSUME Len(accepted') = Len(accepted), [AnyNext]_vars
        PROVE  /\ Len(accepted') <= MaxPackets + 2
               /\ \A i \in FirstAudio..Len(accepted') : accepted'[i].len \in PacketLens
    <2>1. \A i \in DOMAIN accepted : accepted'[i].len = accepted[i].len
      BY <1>2, AcceptedKept
    <2> QED
      BY <1>0, <1>2, <2>1 DEF FirstAudio
  <1>3. [AnyNext]_vars
    BY StreamDrivesWriter
  <1>4. CASE ReturnWrite
    <2>1. Hold(call.new) /\ call.new.len \in PacketLens /\ Len(accepted) < MaxPackets + 2
      BY <1>4 DEF ReturnWrite, Returns, Laced, InHand
    <2> QED
      BY <1>1, <1>3, <2>1, HoldLast
  <1>5. ASSUME NEW n \in PacketLens, NEW d \in Durations, WritePacket(n, d)
        PROVE  /\ Len(accepted') <= MaxPackets + 2
               /\ \A i \in FirstAudio..Len(accepted') : accepted'[i].len \in PacketLens
    <2>1. Len(accepted) < MaxPackets + 2
      BY <1>5 DEF WritePacket
    <2>2. CASE held = NoPacket
      <3> DEFINE p == [pkt |-> Len(accepted) + 1, len |-> n, dur |-> d]
      <3>1. Hold(p) /\ p.len = n
        BY <1>5, <2>2 DEF WritePacket
      <3> HIDE DEF p
      <3>2. Len(accepted') = Len(accepted) + 1 /\ accepted'[Len(accepted) + 1].len = n
        BY <3>1, HoldLast
      <3> QED
        BY <1>1, <1>3, <2>1, <3>2
    <2>3. CASE held # NoPacket
      <3>1. accepted' = accepted
        BY <1>5, <2>3 DEF WritePacket
      <3> QED
        BY <1>2, <1>3, <3>1
    <2> QED
      BY <2>2, <2>3
  <1>6. ASSUME NEW n \in SourceLens, Close(n)
        PROVE  /\ Len(accepted') <= MaxPackets + 2
               /\ \A i \in FirstAudio..Len(accepted') : accepted'[i].len \in PacketLens
    <2>1. Len(accepted') = Len(accepted)
      <3>1. CASE held = NoPacket
        BY <1>6, <3>1 DEF Close
      <3>2. CASE held # NoPacket
        <4>1. n \in Nat
          BY WriterAssumption
        <4>2. ~ReturnWrite /\ ~\E m, d \in Nat : WritePacket(m, d) /\ held = NoPacket
          BY <1>6, <3>2 DEF Close, ReturnWrite, Returns
        <4> QED
          BY <1>3, <4>1, <4>2, AcceptedKept
      <3> QED
        BY <3>1, <3>2
    <2> QED
      BY <1>2, <1>3, <2>1
  <1>7. CASE UNCHANGED accepted
    BY <1>2, <1>3, <1>7
  <1> QED
    BY <1>4, <1>5, <1>6, <1>7 DEF StreamNext, svars, vars, Next, Step, Abandon, Dropped,
       CommitForced, CommitFull, CommitLast, CommitFails, Enter, PlaceSegment, ReturnHead,
       ReturnTags, ReturnClose

\* What the writer has in hand is the packet whose turn it is.
LEMMA InHandStep ==
    ASSUME WriterInv, Laced, [StreamNext]_svars, fails = 0, fails' = 0
    PROVE  InHand'
  <1>0. /\ TypeOK /\ CallInTurn /\ Cursor /\ [AnyNext]_vars
        /\ accepted \in Seq(Accepted) /\ DOMAIN accepted = 1..Len(accepted)
        /\ Len(accepted) \in Nat /\ Len(accepted) >= 2 /\ call \in Frames
    BY StreamDrivesWriter, LenProperties DEF WriterInv, PageInv, OrderInv, TypeOK
  <1>1. InHand
    BY DEF Laced
  <1>k. /\ Len(accepted') \in {Len(accepted), Len(accepted) + 1}
        /\ \A i \in DOMAIN accepted : i \in DOMAIN accepted' /\ accepted'[i].len = accepted[i].len
    BY <1>0, AcceptedKept
  <1>2. CASE CommitForced \/ CommitFull \/ CommitLast \/ Enter
    BY <1>1, <1>2 DEF CommitForced, CommitFull, CommitLast, Enter, AtForced, AtFull, AtLast,
       InHand, cwVars
  <1>3. CASE CommitFails
    BY <1>0, <1>3 DEF CommitFails, TypeOK
  <1>4. CASE PlaceSegment
    <2>1. /\ call'.op = call.op /\ call'.pkt = call.pkt /\ call'.len = call.len
          /\ call'.new = call.new
      BY <1>0, <1>4 DEF PlaceSegment, Frames
    <2> QED
      BY <1>1, <1>4, <2>1 DEF PlaceSegment, InHand, cwVars
  <1>5. CASE ReturnHead
    <2>1. call.new.pkt = 2 /\ held = NoPacket /\ call.new.len = accepted[2].len
      BY <1>0, <1>1, <1>5 DEF ReturnHead, Returns, CallInTurn, InHand
    <2>2. call'.op = "tags" /\ call'.pkt = call.new.pkt /\ call'.len = call.new.len
      BY <1>5 DEF ReturnHead, Frame
    <2>3. held' = held /\ accepted' = accepted
      BY <1>5 DEF ReturnHead, cwVars
    <2>4. call'.pkt \in DOMAIN accepted' /\ call'.len = accepted'[call'.pkt].len
      BY <1>0, <2>1, <2>2, <2>3
    <2> QED
      BY <2>1, <2>2, <2>3, <2>4 DEF InHand
  <1>6. CASE ReturnTags \/ ReturnClose
    BY <1>1, <1>6 DEF ReturnTags, ReturnClose, Returns, InHand, cwVars
  <1>7. CASE ReturnWrite
    <2>1. Hold(call.new) /\ pc' = "ready"
      BY <1>7 DEF ReturnWrite
    <2>2. held' = call.new /\ accepted'[Len(accepted')].len = call.new.len
      BY <1>0, <2>1, HoldLast
    <2> QED
      BY <2>1, <2>2 DEF InHand
  <1>8. ASSUME NEW n \in PacketLens, NEW d \in Durations, WritePacket(n, d) PROVE InHand'
    <2>1. Len(accepted) < MaxPackets + 2 /\ pc = "ready"
      BY <1>8 DEF WritePacket
    <2> DEFINE p == [pkt |-> Len(accepted) + 1, len |-> n, dur |-> d]
    <2>p. p.len = n
      OBVIOUS
    <2>2. CASE held = NoPacket
      <3>1. Hold(p) /\ pc' = "ready"
        BY <1>8, <2>1, <2>2 DEF WritePacket
      <3> HIDE DEF p
      <3>2. held' = p /\ accepted'[Len(accepted')].len = p.len
        BY <1>0, <3>1, HoldLast
      <3> QED
        BY <3>1, <3>2 DEF InHand
    <2>3. CASE held # NoPacket
      <3>1. /\ call' = Frame("write", held, granule', ForceNewPage, p)
            /\ held' = held /\ accepted' = accepted
        BY <1>8, <2>3 DEF WritePacket, PlaceAudio
      <3> HIDE DEF p
      <3>2. call'.op = "write" /\ call'.pkt = held.pkt /\ call'.len = held.len /\ call'.new = p
        BY <3>1 DEF Frame
      <3>3. held.pkt = Len(accepted) /\ held.len = accepted[Len(accepted)].len
        BY <1>0, <1>1, <2>1, <2>3 DEF Cursor, InHand
      <3> QED
        BY <1>0, <2>1, <2>p, <3>1, <3>2, <3>3 DEF InHand
    <2> QED
      BY <2>2, <2>3
  <1>9. ASSUME NEW n \in SourceLens, Close(n) PROVE InHand'
    <2>1. CASE held = NoPacket
      BY <1>1, <1>9, <2>1 DEF Close, InHand, cwVars
    <2>2. CASE held # NoPacket
      <3>1. /\ call'.op = "close" /\ call'.pkt = held.pkt /\ call'.len = held.len
            /\ held' = held /\ pc = "ready"
        BY <1>9, <2>2 DEF Close, PlaceAudio, Frame, cwVars
      <3>2. held.pkt = Len(accepted) /\ held.len = accepted[Len(accepted)].len
        BY <1>0, <1>1, <2>2, <3>1 DEF Cursor, InHand
      <3>3. Len(accepted') = Len(accepted)
        <4>1. n \in Nat
          BY WriterAssumption
        <4>2. ~ReturnWrite /\ ~\E m, k \in Nat : WritePacket(m, k) /\ held = NoPacket
          BY <2>2, <3>1 DEF ReturnWrite, Returns
        <4> QED
          BY <1>0, <4>1, <4>2, AcceptedKept
      <3> QED
        BY <1>0, <1>k, <3>1, <3>2, <3>3 DEF InHand
    <2> QED
      BY <2>1, <2>2
  <1>10. CASE Abandon
    BY <1>10 DEF Abandon, InHand
  <1>11. CASE UNCHANGED vars
    BY <1>1, <1>11 DEF vars, cwVars, InHand
  <1> QED
    BY <1>2, <1>3, <1>4, <1>5, <1>6, <1>7, <1>8, <1>9, <1>10, <1>11
       DEF StreamNext, svars, Next, Step, Dropped

\* A segment cut from a packet stays cut from it.
LEMMA CutKept ==
    ASSUME TypeOK, [AnyNext]_vars
    PROVE  \A s : CutFrom(s) => /\ s.pkt \in DOMAIN accepted'
                                /\ s.part \in DOMAIN Lacing(s.pkt, accepted'[s.pkt].len)
                                /\ s = Lacing(s.pkt, accepted'[s.pkt].len)[s.part]
  <1>1. \A i \in DOMAIN accepted : i \in DOMAIN accepted' /\ accepted'[i].len = accepted[i].len
    BY AcceptedKept
  <1> QED
    BY <1>1 DEF CutFrom, Bytes

\* Every segment placed or committed is cut from a packet of the caller's.
LEMMA SegmentsCut ==
    ASSUME WriterInv, Laced, [StreamNext]_svars
    PROVE  /\ (\A i \in DOMAIN seg : CutFrom(seg[i]))'
           /\ (\A k \in DOMAIN sink : \A i \in DOMAIN sink[k].segs : CutFrom(sink[k].segs[i]))'
  <1>0. TypeOK /\ [AnyNext]_vars
    BY StreamDrivesWriter DEF WriterInv, PageInv
  <1>s. seg \in Seq(Segment) /\ DOMAIN seg = 1..Len(seg) /\ Len(seg) \in Nat
    BY <1>0, LenProperties DEF TypeOK
  <1>k. \A s : CutFrom(s) => /\ s.pkt \in DOMAIN accepted'
                             /\ s.part \in DOMAIN Lacing(s.pkt, accepted'[s.pkt].len)
                             /\ s = Lacing(s.pkt, accepted'[s.pkt].len)[s.part]
    BY <1>0, CutKept
  <1>1. (\A k \in DOMAIN sink : \A i \in DOMAIN sink[k].segs : CutFrom(sink[k].segs[i]))'
    <2>1. CASE sink' = sink
      BY <1>k, <2>1 DEF Laced, CutFrom, Bytes
    <2>2. CASE sink' # sink
      <3>1. PICK e \in BOOLEAN : sink' = Append(sink, PendingPage(e))
        BY <1>0, <2>2, SinkSteps
      <3>2. /\ Len(sink) \in Nat /\ DOMAIN sink = 1..Len(sink)
            /\ DOMAIN sink' = 1..(Len(sink) + 1)
            /\ \A k \in DOMAIN sink : sink'[k] = sink[k]
            /\ sink'[Len(sink) + 1].segs = seg
        BY <1>0, <3>1, SinkGrows
      <3>3. \A k \in DOMAIN sink' : \A i \in DOMAIN sink'[k].segs : CutFrom(sink'[k].segs[i])
        <4>1. \A i \in DOMAIN seg : CutFrom(seg[i])
          BY DEF Laced
        <4>2. \A k \in DOMAIN sink : \A i \in DOMAIN sink[k].segs : CutFrom(sink[k].segs[i])
          BY DEF Laced
        <4>3. SUFFICES ASSUME NEW k \in DOMAIN sink'
                       PROVE  \A i \in DOMAIN sink'[k].segs : CutFrom(sink'[k].segs[i])
          OBVIOUS
        <4>4. k \in DOMAIN sink \/ k = Len(sink) + 1
          BY <3>2, <4>3
        <4> QED
          BY <3>2, <4>1, <4>2, <4>4, Zenon
      <3> QED
        BY <1>k, <3>3 DEF CutFrom, Bytes
    <2> QED
      BY <2>1, <2>2
  <1>2. (\A i \in DOMAIN seg : CutFrom(seg[i]))'
    <2>1. CASE seg' = seg
      BY <1>k, <2>1 DEF Laced, CutFrom, Bytes
    <2>2. CASE seg' = <<>>
      BY <2>2
    <2>3. CASE PlaceSegment
      <3> DEFINE x == Segs[call.next]
      <3>1. call.next \in 1..Len(Segs) /\ seg' = Append(seg, x)
        BY <1>0, <2>3 DEF PlaceSegment, TypeOK, Frames
      <3>2. x \in Segment /\ x.pkt = call.pkt /\ x.part = call.next /\ DOMAIN Segs = 1..Len(Segs)
        BY <1>0, <3>1, CallSegments, LenProperties
      <3>3. CutFrom(x)
        <4>1. call.pkt \in DOMAIN accepted /\ call.len = accepted[call.pkt].len
          BY <2>3 DEF Laced, InHand, PlaceSegment
        <4>2. Segs = Bytes(call.pkt)
          BY <4>1 DEF Segs, Bytes
        <4> QED
          BY <3>1, <3>2, <4>1, <4>2 DEF CutFrom
      <3> HIDE DEF x
      <3>4. /\ DOMAIN seg' = 1..(Len(seg) + 1) /\ seg'[Len(seg) + 1] = x
            /\ \A i \in DOMAIN seg : seg'[i] = seg[i]
        BY <1>s, <3>1, <3>2
      <3>5. \A i \in DOMAIN seg' : CutFrom(seg'[i])
        BY <1>s, <3>3, <3>4 DEF Laced
      <3> QED
        BY <1>k, <3>5 DEF CutFrom, Bytes
    <2>4. seg' = seg \/ seg' = <<>> \/ PlaceSegment
      BY <1>0 DEF AnyNext, Step, CommitForced, CommitFull, CommitLast, Commit, CommitFails, Enter,
         ReturnHead, ReturnTags, ReturnWrite, ReturnClose, Leave, WritePacket, Close, vars, swVars
    <2> QED
      BY <2>1, <2>2, <2>3, <2>4
  <1> QED
    BY <1>1, <1>2

LEMMA LacedStep == WriterInv /\ Laced /\ [StreamNext]_svars /\ fails = 0 /\ fails' = 0 => Laced'
  <1> SUFFICES ASSUME WriterInv, Laced, [StreamNext]_svars, fails = 0, fails' = 0 PROVE Laced'
    OBVIOUS
  <1>1. TypeOK
    BY DEF WriterInv, PageInv
  <1> QED
    BY <1>1, BoundsStep, InHandStep, SegmentsCut DEF Laced

LEMMA LacedInit == StreamInit => Laced
  <1> SUFFICES ASSUME StreamInit PROVE Laced
    OBVIOUS
  <1>1. PICK n \in TagLens :
          /\ accepted = <<[len |-> OpusHeadLen, end |-> 0], [len |-> n, end |-> 0]>>
          /\ call = Frame("head", [pkt |-> 1, len |-> OpusHeadLen], 0, TRUE,
                          [pkt |-> 2, len |-> n, dur |-> 0])
    BY Zenon DEF StreamInit, Init
  <1>2. sink = <<>> /\ seg = <<>> /\ held = NoPacket
    BY Zenon DEF StreamInit, Init
  <1>3. DOMAIN accepted = 1..2 /\ Len(accepted) = 2 /\ accepted[1].len = OpusHeadLen
        /\ accepted[2].len = n
    BY <1>1
  <1>4. call.op = "head" /\ call.pkt = 1 /\ call.len = OpusHeadLen /\ call.new.len = n
    BY <1>1 DEF Frame
  <1>5. InHand
    BY <1>2, <1>3, <1>4 DEF InHand
  <1> QED
    BY <1>2, <1>3, <1>5, WriterAssumption DEF Laced, FirstAudio

-----------------------------------------------------------------------------
(* What the reader has joined.                                               *)

\* Sequences of anything.
LEMMA SeqFacts ==
    ASSUME NEW s, IsSeq(s)
    PROVE  /\ Len(s) \in Nat /\ DOMAIN s = 1..Len(s)
           /\ \A e : /\ IsSeq(Append(s, e)) /\ Len(Append(s, e)) = Len(s) + 1
                     /\ DOMAIN Append(s, e) = 1..(Len(s) + 1)
                     /\ Append(s, e)[Len(s) + 1] = e
                     /\ \A i \in 1..Len(s) : Append(s, e)[i] = s[i]
           /\ s # <<>> => /\ Len(s) > 0 /\ Head(s) = s[1]
                          /\ IsSeq(Tail(s)) /\ Len(Tail(s)) = Len(s) - 1
                          /\ \A i \in 1..(Len(s) - 1) : Tail(s)[i] = s[i + 1]
  <1> DEFINE S == {s[i] : i \in DOMAIN s}
  <1>1. s \in Seq(S)
    BY DEF IsSeq
  <1> HIDE DEF S
  <1>2. Len(s) \in Nat /\ DOMAIN s = 1..Len(s)
    BY <1>1, LenProperties
  <1>3. ASSUME NEW t, NEW T, t \in Seq(T) PROVE IsSeq(t)
    <2> DEFINE U == {t[i] : i \in DOMAIN t}
    <2>1. DOMAIN t = 1..Len(t) /\ Len(t) \in Nat
      BY <1>3, LenProperties
    <2>2. \A i \in 1..Len(t) : t[i] \in U
      BY <2>1
    <2>3. t = [i \in 1..Len(t) |-> t[i]]
      BY <1>3
    <2> HIDE DEF U
    <2>4. t \in [1..Len(t) -> U]
      BY <2>2, <2>3
    <2>5. t \in Seq(U)
      BY <2>1, <2>4
    <2> QED
      BY <2>5 DEF IsSeq, U
  <1>4. ASSUME NEW e
        PROVE  /\ IsSeq(Append(s, e)) /\ Len(Append(s, e)) = Len(s) + 1
               /\ DOMAIN Append(s, e) = 1..(Len(s) + 1)
               /\ Append(s, e)[Len(s) + 1] = e
               /\ \A i \in 1..Len(s) : Append(s, e)[i] = s[i]
    <2> DEFINE V == S \cup {e}
    <2>1. s \in Seq(V) /\ e \in V
      BY <1>1
    <2> HIDE DEF V
    <2>2. Append(s, e) \in Seq(V)
      BY <2>1
    <2>3. IsSeq(Append(s, e))
      BY <1>3, <2>2
    <2> QED
      BY <1>2, <2>1, <2>2, <2>3
  <1>5. ASSUME s # <<>>
        PROVE  /\ Len(s) > 0 /\ Head(s) = s[1]
               /\ IsSeq(Tail(s)) /\ Len(Tail(s)) = Len(s) - 1
               /\ \A i \in 1..(Len(s) - 1) : Tail(s)[i] = s[i + 1]
    <2>1. Len(s) > 0 /\ Tail(s) \in Seq(S) /\ Len(Tail(s)) = Len(s) - 1 /\ Head(s) = s[1]
      BY <1>1, <1>5, EmptySeq, HeadTailProperties
    <2>2. IsSeq(Tail(s))
      BY <1>3, <2>1
    <2> QED
      BY <1>1, <1>2, <1>5, <2>1, <2>2, HeadTailProperties
  <1> QED
    BY <1>2, <1>4, <1>5

LEMMA EmptyIsSeq == IsSeq(<<>>) /\ Len(<<>>) = 0 /\ DOMAIN <<>> = {}
  BY DEF IsSeq

LEMMA ReassembledInit == StreamInit => Reassembled
  <1> SUFFICES ASSUME StreamInit PROVE Reassembled
    OBVIOUS
  <1>1. /\ rpos = 0 /\ rpc = "want" /\ stage = "head" /\ partial = <<>> /\ queue = <<>>
        /\ headers = 2 /\ delivered = <<>>
    BY Zenon DEF StreamInit, R!RInit
  <1>2. Served = 0 /\ Joined = 0
    BY <1>1, EmptyIsSeq DEF Served, Joined
  <1> QED
    BY <1>1, <1>2, EmptyIsSeq DEF Reassembled, ServedInOrder, Buffers, ReadSoFar, ReadPages

\* The writer's steps change nothing of what was joined.
LEMMA ReassembledWriter ==
    ASSUME WriterInv, AtPage, Reassembled, [StreamNext]_svars, UNCHANGED readerVars
    PROVE  Reassembled'
  <1>0. TypeOK /\ [AnyNext]_vars
    BY StreamDrivesWriter DEF WriterInv, PageInv
  <1>1. \A i \in DOMAIN accepted : i \in DOMAIN accepted' /\ accepted'[i].len = accepted[i].len
    BY <1>0, AcceptedKept
  <1>2. \A i \in DOMAIN accepted : Bytes(i)' = Bytes(i)
    BY <1>1 DEF Bytes
  <1>3. Served' = Served /\ Joined' = Joined
    BY DEF Served, Joined, readerVars
  <1>4. \A k \in DOMAIN sink : sink'[k] = sink[k]
    <2>1. CASE sink' = sink
      BY <2>1
    <2>2. CASE sink' # sink
      <3>1. PICK e \in BOOLEAN : sink' = Append(sink, PendingPage(e))
        BY <1>0, <2>2, SinkSteps
      <3> QED
        BY <1>0, <3>1, SinkGrows
    <2> QED
      BY <2>1, <2>2
  <1>5. DOMAIN sink = 1..Len(sink) /\ Len(sink) \in Nat /\ rpos \in 0..Len(sink)
    BY <1>0, LenProperties DEF TypeOK, AtPage
  <1>6. ServedInOrder'
    BY <1>1, <1>2 DEF Reassembled, ServedInOrder, readerVars, Bytes
  <1>7. rpc \in {"want", "segs"} => Buffers'
    BY <1>1, <1>2, <1>3 DEF Reassembled, Buffers, readerVars, Bytes
  <1>8. rpc \in {"want", "segs"} => ReadSoFar'
    <2>1. rpos > 0 => sink'[rpos] = sink[rpos]
      BY <1>4, <1>5
    <2>2. rpos > 0 /\ rpos - 1 # 0 => sink'[rpos - 1] = sink[rpos - 1]
      BY <1>4, <1>5
    <2>3. \A s : ReadTo(s) => /\ EndsPacket(s) => s.pkt = Joined' /\ partial' = <<>>
                              /\ ~EndsPacket(s) => s.pkt = Joined' + 1 /\ s.part = Len(partial')
      BY <1>3 DEF ReadTo, readerVars
    <2>4. ReadPages(rpos) /\ rpc = "want" => ReadPages(rpos)'
      BY <1>3, <1>5, <2>1, <2>3 DEF ReadPages, ReadTo, readerVars, LastSegment
    <2>5. ReadPages(rpos - 1) /\ rpc = "segs" => ReadPages(rpos - 1)'
      <3>1. rpc = "segs" => rpos > 0
        BY DEF AtPage
      <3> QED
        BY <1>3, <1>5, <2>2, <2>3, <3>1 DEF ReadPages, ReadTo, readerVars, LastSegment
    <2>6. rpc' = rpc /\ next' = next /\ pg' = pg /\ sawEOS' = sawEOS /\ rpos' = rpos
      BY DEF readerVars
    <2>7. ReadTo(pg.segs[next - 1]) => ReadTo(pg.segs[next - 1])'
      BY <2>3, <2>6 DEF ReadTo
    <2> QED
      BY <2>1, <2>4, <2>5, <2>6, <2>7 DEF Reassembled, ReadSoFar
  <1> QED
    BY <1>6, <1>7, <1>8 DEF Reassembled, readerVars

\* nextRawPacket takes the packet at the head of the queue, and the audio packets it
\* serves are the accepted ones in their order.
LEMMA ReassembledServe ==
    ASSUME Reassembled, R!Serve, UNCHANGED vars, AtPage
    PROVE  Reassembled'
  <1>v. accepted' = accepted /\ sink' = sink
    BY DEF vars
  <1>b. \A i : Bytes(i)' = Bytes(i)
    BY <1>v DEF Bytes
  <1>1. /\ rpc = "want" /\ queue # <<>> /\ queue' = Tail(queue)
        /\ UNCHANGED <<rpos, pg, next, partial, headers, sawEOS>>
    BY DEF R!Serve
  <1>2. ServedInOrder /\ Buffers /\ ReadSoFar
    BY <1>1 DEF Reassembled
  <1>3. /\ Len(queue) \in Nat /\ Len(queue) > 0 /\ DOMAIN queue = 1..Len(queue)
        /\ Head(queue) = queue[1] /\ IsSeq(queue') /\ Len(queue') = Len(queue) - 1
        /\ \A i \in 1..(Len(queue) - 1) : queue'[i] = queue[i + 1]
    BY <1>1, <1>2, SeqFacts DEF Buffers
  <1>4. DOMAIN queue' = 1..(Len(queue) - 1)
    BY <1>3, SeqFacts
  <1>5. Len(delivered) \in Nat /\ DOMAIN delivered = 1..Len(delivered)
    BY <1>2, SeqFacts DEF ServedInOrder
  <1>6. CASE rpc' = "badheader" /\ UNCHANGED <<stage, delivered>>
    BY <1>2, <1>6, <1>b, <1>v DEF Reassembled, ServedInOrder
  <1>7. CASE rpc' = "want" /\ Served' = Served + 1 /\ ServedInOrder'
    <2>s. Served \in Int
      BY <1>5 DEF Served
    <2>1. Joined' = Joined /\ Joined \in Int /\ Served \in Int
      BY <1>3, <1>7, <2>s DEF Joined
    <2>2. \A k \in DOMAIN queue' : k + 1 \in DOMAIN queue /\ queue'[k] = queue[k + 1]
                                   /\ Served' + k = Served + (k + 1)
      <3> SUFFICES ASSUME NEW k \in DOMAIN queue'
                   PROVE  /\ k + 1 \in DOMAIN queue /\ queue'[k] = queue[k + 1]
                          /\ Served' + k = Served + (k + 1)
        OBVIOUS
      <3>1. k \in 1..(Len(queue) - 1)
        BY <1>4
      <3>2. k + 1 \in 1..Len(queue)
        BY <1>3, <3>1
      <3>3. k + 1 \in DOMAIN queue /\ queue'[k] = queue[k + 1]
        BY <1>3, <3>1, <3>2, Zenon
      <3>4. Served' + k = Served + (k + 1)
        BY <1>7, <2>1, <3>1
      <3> QED
        BY <3>3, <3>4
    <2>3. (\A k \in DOMAIN queue : Served + k > 2 =>
             Served + k \in DOMAIN accepted /\ queue[k] = Bytes(Served + k))'
      <3> SUFFICES ASSUME NEW k \in DOMAIN queue', Served' + k > 2
                   PROVE  Served' + k \in DOMAIN accepted' /\ queue'[k] = Bytes(Served + k)'
        OBVIOUS
      <3>1. Served + (k + 1) \in DOMAIN accepted /\ queue[k + 1] = Bytes(Served + (k + 1))
        BY <1>2, <2>2 DEF Buffers
      <3> QED
        BY <1>v, <2>2, <3>1 DEF Bytes
    <2>4. Buffers'
      BY <1>1, <1>2, <1>3, <1>b, <1>v, <2>1, <2>3 DEF Buffers, Bytes
    <2>5. ReadSoFar'
      BY <1>1, <1>2, <1>7, <1>v, <2>1 DEF ReadSoFar, ReadPages, ReadTo, LastSegment
    <2> QED
      BY <1>7, <2>4, <2>5 DEF Reassembled
  <1>8. CASE stage = "head" /\ stage' = "tags" /\ UNCHANGED <<rpc, delivered>>
    <2>1. ServedInOrder'
      BY <1>2, <1>8, <1>b, <1>v DEF ServedInOrder
    <2>2. Served' = Served + 1
      BY <1>8 DEF Served
    <2> QED
      BY <1>1, <1>7, <1>8, <2>1, <2>2
  <1>9. CASE stage = "tags" /\ stage' = "audio" /\ UNCHANGED <<rpc, delivered>>
    <2>1. ServedInOrder'
      BY <1>2, <1>9, <1>b, <1>v DEF ServedInOrder
    <2>2. Len(delivered) = 0
      BY <1>2, <1>9, EmptyIsSeq DEF ServedInOrder
    <2>3. Served' = Served + 1
      BY <1>9, <2>2 DEF Served
    <2> QED
      BY <1>1, <1>7, <1>9, <2>1, <2>3
  <1>10. CASE /\ stage = "audio" /\ delivered' = Append(delivered, Head(queue))
              /\ UNCHANGED <<rpc, stage>>
    <2>1. /\ IsSeq(delivered') /\ Len(delivered') = Len(delivered) + 1
          /\ DOMAIN delivered' = 1..(Len(delivered) + 1)
          /\ delivered'[Len(delivered) + 1] = queue[1]
          /\ \A d \in 1..Len(delivered) : delivered'[d] = delivered[d]
      BY <1>2, <1>3, <1>10, SeqFacts DEF ServedInOrder
    <2>2. Served = 2 + Len(delivered) /\ Served' = Served + 1
      BY <1>5, <1>10, <2>1 DEF Served
    <2>3. Served + 1 \in DOMAIN accepted /\ queue[1] = Bytes(Served + 1)
      BY <1>2, <1>3, <1>5, <2>2 DEF Buffers
    <2>4. \A d \in DOMAIN delivered' : d + 2 \in DOMAIN accepted /\ delivered'[d] = Bytes(d + 2)
      <3> SUFFICES ASSUME NEW d \in DOMAIN delivered'
                   PROVE  d + 2 \in DOMAIN accepted /\ delivered'[d] = Bytes(d + 2)
        OBVIOUS
      <3>1. CASE d \in 1..Len(delivered)
        BY <1>2, <1>5, <2>1, <3>1 DEF ServedInOrder
      <3>2. CASE d = Len(delivered) + 1
        <4>1. d + 2 = Served + 1
          BY <1>5, <2>2, <3>2
        <4> QED
          BY <2>1, <2>3, <3>2, <4>1
      <3> QED
        BY <1>5, <2>1, <3>1, <3>2
    <2>5. ServedInOrder'
      BY <1>2, <1>10, <1>b, <1>v, <2>1, <2>4 DEF ServedInOrder, Bytes
    <2> QED
      BY <1>1, <1>7, <1>10, <2>2, <2>5
  <1> QED
    BY <1>6, <1>8, <1>9, <1>10 DEF R!Serve

\* The next page continues the one read: its first segment is the one that is missing.
LEMMA ReassembledPage ==
    ASSUME WriterInv, AtPage, Reassembled, R!ReadPage, UNCHANGED vars
    PROVE  Reassembled'
  <1>v. accepted' = accepted /\ sink' = sink
    BY DEF vars
  <1>b. \A i : Bytes(i)' = Bytes(i)
    BY <1>v DEF Bytes
  <1>1. /\ rpos < Len(sink) /\ rpos' = rpos + 1 /\ rpc = "want"
        /\ UNCHANGED <<stage, queue, headers, delivered>>
        /\ \/ /\ rpc' = "segs" /\ next' = 1
              /\ partial' = IF sink[rpos + 1].cont THEN partial ELSE <<>>
           \/ rpc' = "foreign"
        /\ rpos \in Nat /\ rpos + 1 \in DOMAIN sink
    BY ReadPageTo
  <1>2. ServedInOrder /\ Buffers /\ ReadPages(rpos)
    BY <1>1 DEF Reassembled, ReadSoFar
  <1>3. ServedInOrder'
    BY <1>1, <1>2, <1>b, <1>v DEF ServedInOrder
  <1>4. sink[rpos + 1].cont <=> rpos + 1 > 1 /\ ~EndsPacket(LastSegment(sink[rpos]))
    <2>1. WellPlaced(sink, rpos + 1)
      BY <1>1 DEF WriterInv, PageInv, PagesWellFormed
    <2>2. (rpos + 1) - 1 = rpos
      BY <1>1
    <2> QED
      BY <2>1, <2>2 DEF WellPlaced
  <1>5. CASE rpc' = "segs"
    <2>1. partial' = partial
      BY <1>1, <1>2, <1>4, <1>5 DEF ReadPages, ReadTo
    <2>2. Served' = Served /\ Joined' = Joined
      BY <1>1 DEF Served, Joined
    <2>3. Buffers'
      BY <1>1, <1>2, <1>b, <1>v, <2>1, <2>2 DEF Buffers, Bytes
    <2>4. ReadPages(rpos - 1)'
      <3>1. rpos' - 1 = rpos
        BY <1>1
      <3> QED
        BY <1>2, <1>v, <2>1, <2>2, <3>1 DEF ReadPages, ReadTo, LastSegment
    <2> QED
      BY <1>1, <1>3, <1>5, <2>3, <2>4 DEF Reassembled, ReadSoFar
  <1>6. CASE rpc' = "foreign"
    BY <1>3, <1>6 DEF Reassembled
  <1> QED
    BY <1>1, <1>5, <1>6

LEMMA SeqIsSeq == ASSUME NEW T, NEW t \in Seq(T) PROVE IsSeq(t)
  <1> DEFINE U == {t[i] : i \in DOMAIN t}
  <1>1. DOMAIN t = 1..Len(t) /\ Len(t) \in Nat
    BY LenProperties
  <1>2. \A i \in 1..Len(t) : t[i] \in U
    BY <1>1
  <1>3. t = [i \in 1..Len(t) |-> t[i]]
    OBVIOUS
  <1> HIDE DEF U
  <1>4. t \in [1..Len(t) -> U]
    BY <1>2, <1>3
  <1>5. t \in Seq(U)
    BY <1>1, <1>4
  <1> QED
    BY <1>5 DEF IsSeq, U

\* Sequences with the same entries are the same.
LEMMA SeqSame ==
    ASSUME NEW a, NEW b, IsSeq(a), IsSeq(b), Len(a) = Len(b), \A i \in 1..Len(a) : a[i] = b[i]
    PROVE  a = b
  <1> DEFINE A == {a[i] : i \in DOMAIN a}
             B == {b[i] : i \in DOMAIN b}
  <1>1. a \in Seq(A) /\ b \in Seq(B)
    BY DEF IsSeq
  <1> HIDE DEF A, B
  <1>2. a = [i \in 1..Len(a) |-> a[i]] /\ b = [i \in 1..Len(b) |-> b[i]]
    BY <1>1
  <1> QED
    BY <1>2

\* What follows the segment read last is the next the reader needs.
LEMMA NextNeeded ==
    ASSUME NEW s, NEW t, ReadTo(t), Follows(t, s), Joined \in Nat, Len(partial) \in Nat,
           t.pkt \in Nat, t.part \in Nat
    PROVE  s.pkt = Joined + 1 /\ s.part = Len(partial) + 1
  <1>1. CASE EndsPacket(t)
    <2>1. Len(partial) = 0
      BY <1>1, EmptyIsSeq DEF ReadTo
    <2> QED
      BY <1>1, <2>1 DEF ReadTo, Follows
  <1>2. CASE ~EndsPacket(t)
    BY <1>2 DEF ReadTo, Follows
  <1> QED
    BY <1>1, <1>2

\* The segment the loop is at is the next of the stream.
LEMMA SegmentInTurn ==
    ASSUME WriterInv, AtPage, Reassembled, fails = 0, rpc = "segs", next <= Len(pg.segs)
    PROVE  LET s == pg.segs[next]
           IN  /\ s \in Segment /\ s.pkt = Joined + 1 /\ s.part = Len(partial) + 1
               /\ Joined \in Nat /\ Len(partial) \in Nat /\ rpos \in DOMAIN sink /\ pg = sink[rpos]
               /\ next \in DOMAIN pg.segs /\ next \in Nat
  <1>0. /\ sink \in Seq(Page) /\ DOMAIN sink = 1..Len(sink) /\ Len(sink) \in Nat
        /\ SinkInOrder /\ PagesWellFormed
    BY LenProperties DEF WriterInv, PageInv, OrderInv, TypeOK
  <1>1. ServedInOrder /\ Buffers /\ ReadSoFar
    BY DEF Reassembled
  <1>2. Joined \in Nat /\ Len(partial) \in Nat
    <2>1. Len(delivered) \in Nat /\ Len(queue) \in Nat /\ Len(partial) \in Nat
      BY <1>1, SeqFacts DEF ServedInOrder, Buffers
    <2>2. Served \in Nat
      BY <2>1 DEF Served
    <2> QED
      BY <2>1, <2>2 DEF Joined
  <1>3. rpos \in DOMAIN sink /\ pg = sink[rpos] /\ rpos \in Nat /\ rpos > 0 /\ next \in Nat \ {0}
    BY <1>0 DEF AtPage
  <1>4. /\ pg.segs \in Seq(Segment) /\ DOMAIN pg.segs = 1..Len(pg.segs) /\ Len(pg.segs) \in Nat
        /\ \A i \in DOMAIN pg.segs : pg.segs[i] \in Segment
    BY <1>0, <1>3, PageFields, SegmentFields
  <1>5. next \in DOMAIN pg.segs
    BY <1>3, <1>4
  <1>f. \A t \in Segment : t.pkt \in Nat /\ t.part \in Nat
    BY DEF Segment
  <1>6. CASE next > 1
    <2>1. next - 1 \in 1..(Len(pg.segs) - 1) /\ (next - 1) + 1 = next /\ next # 1
      BY <1>3, <1>4, <1>5, <1>6
    <2>2. Follows(pg.segs[next - 1], pg.segs[next])
      BY <1>0, <1>3, <2>1 DEF SinkInOrder, PageFollows, InOrder
    <2>3. ReadTo(pg.segs[next - 1])
      BY <1>1, <2>1 DEF ReadSoFar
    <2>4. pg.segs[next - 1] \in Segment
      BY <1>4, <2>1
    <2> QED
      BY <1>2, <1>3, <1>4, <1>5, <1>f, <2>2, <2>3, <2>4, NextNeeded
  <1>7. CASE next = 1
    <2>1. ReadPages(rpos - 1)
      BY <1>1, <1>7 DEF ReadSoFar
    <2>2. CASE rpos = 1
      <3>1. Opens(pg.segs[1])
        BY <1>0, <1>3, <2>2 DEF SinkInOrder, PageFollows
      <3>2. Joined = 0 /\ Len(partial) = 0
        BY <2>1, <2>2, EmptyIsSeq DEF ReadPages
      <3> QED
        BY <1>2, <1>3, <1>4, <1>5, <1>7, <3>1, <3>2 DEF Opens
    <2>3. CASE rpos > 1
      <3> DEFINE t == LastSegment(sink[rpos - 1])
      <3>1. rpos - 1 \in DOMAIN sink /\ rpos - 1 # 0
        BY <1>0, <1>3, <2>3
      <3>2. /\ sink[rpos - 1].segs \in Seq(Segment) /\ sink[rpos - 1].segs # <<>>
        BY <1>0, <3>1, PageFields DEF PagesWellFormed, WellPlaced
      <3>3. t \in Segment
        BY <3>2, SegmentFields, EmptySeq DEF LastSegment
      <3>4. Follows(t, pg.segs[1])
        BY <1>0, <1>3, <2>3 DEF SinkInOrder, PageFollows
      <3>5. ReadTo(t)
        BY <2>1, <3>1 DEF ReadPages
      <3> HIDE DEF t
      <3> QED
        BY <1>2, <1>3, <1>4, <1>5, <1>7, <1>f, <3>3, <3>4, <3>5, NextNeeded
    <2> QED
      BY <1>3, <2>2, <2>3
  <1> QED
    BY <1>3, <1>6, <1>7

\* The packet ends on the last segment lacing returns, and on no other.
LEMMA LacingEnds ==
    ASSUME NEW p \in Nat \ {0}, NEW n \in Nat
    PROVE  /\ Lacing(p, n) \in Seq(Segment)
           /\ \A i \in 1..Len(Lacing(p, n)) : EndsPacket(Lacing(p, n)[i]) <=> i = Len(Lacing(p, n))
  BY LacingShape

\* A segment cut from an accepted packet ends it exactly when it is its last.
LEMMA CutShape ==
    ASSUME TypeOK, NEW s \in Segment, CutFrom(s)
    PROVE  LET L == Bytes(s.pkt)
           IN  /\ IsSeq(L) /\ s.part \in 1..Len(L) /\ s = L[s.part]
               /\ EndsPacket(s) <=> s.part = Len(L)
  <1> DEFINE n == accepted[s.pkt].len
  <1>1. s.pkt \in Nat \ {0} /\ n \in Nat
    <2>1. accepted \in Seq(Accepted) /\ s.pkt \in 1..Len(accepted)
      BY LenProperties DEF TypeOK, CutFrom
    <2>2. accepted[s.pkt] \in Accepted
      BY <2>1, ElementOfSeq
    <2>3. accepted[s.pkt].len \in Nat
      BY <2>2 DEF Accepted
    <2>4. s.pkt \in Nat \ {0}
      BY DEF Segment
    <2> QED
      BY <2>3, <2>4
  <1>2. Bytes(s.pkt) = Lacing(s.pkt, n)
    BY DEF Bytes
  <1> HIDE DEF n
  <1>3. /\ Lacing(s.pkt, n) \in Seq(Segment)
        /\ \A i \in 1..Len(Lacing(s.pkt, n)) :
              EndsPacket(Lacing(s.pkt, n)[i]) <=> i = Len(Lacing(s.pkt, n))
    <2>1. s.pkt \in Nat \ {0} /\ n \in Nat
      BY <1>1
    <2> QED
      BY <2>1, LacingEnds, Zenon
  <1>4. IsSeq(Lacing(s.pkt, n)) /\ DOMAIN Lacing(s.pkt, n) = 1..Len(Lacing(s.pkt, n))
    <2>1. IsSeq(Lacing(s.pkt, n))
      BY <1>3, SeqIsSeq
    <2>2. DOMAIN Lacing(s.pkt, n) = 1..Len(Lacing(s.pkt, n))
      BY <1>3, LenProperties
    <2> QED
      BY <2>1, <2>2, Zenon
  <1>5. s.part \in DOMAIN Lacing(s.pkt, n) /\ s = Lacing(s.pkt, n)[s.part]
    BY <1>2 DEF CutFrom
  <1>6. EndsPacket(s) <=> s.part = Len(Lacing(s.pkt, n))
    BY <1>3, <1>4, <1>5, Zenon
  <1> QED
    BY <1>2, <1>4, <1>5, <1>6, Zenon

\* processPage's loop adds the segment that comes next, and closes the packet it ends.
LEMMA ReassembledJoin ==
    ASSUME WriterInv, AtPage, Laced, Reassembled, R!JoinSegment, UNCHANGED vars, fails = 0
    PROVE  Reassembled'
  <1> DEFINE s == pg.segs[next]
             kept == IF R!TooLong(s) THEN R!CutSegment(s) ELSE s
             joined == Append(partial, kept)
  <1>v. accepted' = accepted /\ sink' = sink /\ TypeOK
    BY DEF vars, WriterInv, PageInv
  <1>b. \A i : Bytes(i)' = Bytes(i)
    BY <1>v DEF Bytes
  <1>1. /\ rpc = "segs" /\ next <= Len(pg.segs) /\ next' = next + 1
        /\ ~(R!TooLong(s) /\ headers = 0)
        /\ UNCHANGED <<rpos, rpc, pg, stage, delivered>>
        /\ EndsPacket(s) => /\ queue' = Append(queue, joined) /\ partial' = <<>>
                            /\ headers' = IF headers > 0 THEN headers - 1 ELSE headers
        /\ ~EndsPacket(s) => /\ partial' = joined /\ UNCHANGED <<queue, headers>>
    BY DEF R!JoinSegment, R!EndsPacket, EndsPacket
  <1>2. /\ s \in Segment /\ s.pkt = Joined + 1 /\ s.part = Len(partial) + 1
        /\ Joined \in Nat /\ Len(partial) \in Nat /\ rpos \in DOMAIN sink /\ pg = sink[rpos]
        /\ next \in DOMAIN pg.segs /\ next \in Nat
    BY <1>1, SegmentInTurn
  <1>3. CutFrom(s)
    BY <1>2 DEF Laced
  <1> DEFINE L == Bytes(s.pkt)
  <1>4. /\ IsSeq(L) /\ s.part \in 1..Len(L) /\ s = L[s.part]
        /\ EndsPacket(s) <=> s.part = Len(L)
    BY <1>v, <1>2, <1>3, CutShape
  <1>5. ServedInOrder /\ Buffers
    BY <1>1 DEF Reassembled
  <1>6. ServedInOrder'
    BY <1>1, <1>5, <1>b, <1>v DEF ServedInOrder
  <1>7. Served' = Served /\ Served \in Nat /\ Len(queue) \in Nat /\ DOMAIN queue = 1..Len(queue)
    <2>1. Len(delivered) \in Nat
      BY <1>5, SeqFacts DEF ServedInOrder
    <2> QED
      BY <1>1, <1>5, <2>1, SeqFacts DEF Served, Buffers
  <1>8. /\ IsSeq(joined) /\ Len(joined) = Len(partial) + 1
        /\ DOMAIN joined = 1..(Len(partial) + 1)
        /\ joined[Len(partial) + 1] = kept
        /\ \A i \in 1..Len(partial) : joined[i] = partial[i]
        /\ DOMAIN partial = 1..Len(partial)
    BY <1>5, SeqFacts DEF Buffers
  <1>9. Joined >= 2 => /\ s.pkt \in DOMAIN accepted
                       /\ \A i \in 1..Len(joined) : joined[i] = L[i]
    <2> SUFFICES ASSUME Joined >= 2
                 PROVE  /\ s.pkt \in DOMAIN accepted
                        /\ \A i \in 1..Len(joined) : joined[i] = L[i]
      OBVIOUS
    <2>1. headers = 0
      BY <1>2, <1>5 DEF Buffers
    <2>2. kept = s
      BY <1>1, <2>1
    <2> HIDE DEF kept, joined
    <2>3. \A i \in 1..Len(partial) : partial[i] = L[i]
      BY <1>2, <1>5, <1>8 DEF Buffers
    <2> HIDE DEF L, s
    <2>4. joined[Len(partial) + 1] = L[Len(partial) + 1]
      BY <1>2, <1>4, <1>8, <2>2
    <2>5. \A i \in 1..Len(joined) : joined[i] = L[i]
      BY <1>2, <1>8, <2>3, <2>4
    <2> QED
      BY <1>3, <2>5 DEF CutFrom
  <1>r. next' # 1 /\ pg'.segs[next' - 1] = s
    BY <1>1, <1>2
  <1> HIDE DEF s, kept, joined, L
  <1>10. CASE EndsPacket(s)
    <2>1. joined = L \/ Joined < 2
      BY <1>2, <1>4, <1>8, <1>9, <1>10, SeqSame
    <2>2. /\ IsSeq(queue') /\ Len(queue') = Len(queue) + 1 /\ DOMAIN queue' = 1..(Len(queue) + 1)
          /\ queue'[Len(queue) + 1] = joined
          /\ \A k \in 1..Len(queue) : queue'[k] = queue[k]
      <3>1. queue' = Append(queue, joined) /\ IsSeq(queue)
        BY <1>1, <1>5, <1>10 DEF Buffers
      <3> QED
        BY <3>1, SeqFacts
    <2>3. Joined' = Joined + 1 /\ Joined = Served + Len(queue)
      BY <1>7, <2>2 DEF Joined
    <2>4. headers' = IF Joined' < 2 THEN 2 - Joined' ELSE 0
      <3>1. headers = IF Joined < 2 THEN 2 - Joined ELSE 0
        BY <1>5 DEF Buffers
      <3> QED
        BY <1>1, <1>2, <1>10, <2>3, <3>1
    <2>5. \A k \in DOMAIN queue' : Served + k > 2 =>
             Served + k \in DOMAIN accepted /\ queue'[k] = Bytes(Served + k)
      <3> SUFFICES ASSUME NEW k \in DOMAIN queue', Served + k > 2
                   PROVE  Served + k \in DOMAIN accepted /\ queue'[k] = Bytes(Served + k)
        OBVIOUS
      <3>1. CASE k \in 1..Len(queue)
        BY <1>5, <1>7, <2>2, <3>1 DEF Buffers
      <3>2. CASE k = Len(queue) + 1
        <4>1. Served + k = s.pkt /\ Joined >= 2
          BY <1>2, <1>7, <2>3, <3>2
        <4>2. joined = L
          BY <1>2, <2>1, <4>1
        <4> QED
          BY <1>9, <2>2, <3>2, <4>1, <4>2 DEF L
      <3> QED
        BY <1>7, <2>2, <3>1, <3>2
    <2>6. Buffers'
      <3>1. IsSeq(partial') /\ DOMAIN partial' = {}
        BY <1>1, <1>10, EmptyIsSeq
      <3> QED
        BY <1>7, <1>v, <2>2, <2>4, <2>5, <3>1 DEF Buffers, Bytes
    <2>7. ReadTo(pg.segs[next - 1])'
      BY <1>1, <1>2, <1>r, <1>10, <2>3 DEF ReadTo
    <2> QED
      BY <1>1, <1>6, <1>r, <2>6, <2>7 DEF Reassembled, ReadSoFar
  <1>11. CASE ~EndsPacket(s)
    <2>1. partial' = joined /\ queue' = queue /\ headers' = headers
      BY <1>1, <1>11
    <2>2. Joined' = Joined
      BY <1>7, <2>1 DEF Joined
    <2>3. Buffers'
      <3>1. \A j \in DOMAIN partial' : Joined >= 2 =>
               Joined + 1 \in DOMAIN accepted /\ partial'[j] = Bytes(Joined + 1)[j]
        BY <1>2, <1>8, <1>9, <2>1 DEF L
      <3> QED
        BY <1>5, <1>7, <1>8, <1>v, <2>1, <2>2, <3>1 DEF Buffers, Bytes
    <2>4. ReadTo(pg.segs[next - 1])'
      BY <1>2, <1>8, <1>r, <1>11, <2>1, <2>2 DEF ReadTo
    <2> QED
      BY <1>1, <1>6, <1>r, <2>3, <2>4 DEF Reassembled, ReadSoFar
  <1> QED
    BY <1>10, <1>11

\* The page is read to its end.
LEMMA ReassembledEnd ==
    ASSUME WriterInv, AtPage, Reassembled, R!EndPage, UNCHANGED vars
    PROVE  Reassembled'
  <1>v. accepted' = accepted /\ sink' = sink
    BY DEF vars
  <1>b. \A i : Bytes(i)' = Bytes(i)
    BY <1>v DEF Bytes
  <1>0. sink \in Seq(Page) /\ DOMAIN sink = 1..Len(sink) /\ Len(sink) \in Nat /\ PagesWellFormed
    BY LenProperties DEF WriterInv, PageInv, TypeOK
  <1>1. /\ rpc = "segs" /\ next > Len(pg.segs) /\ rpc' = "want" /\ sawEOS' = pg.eos
        /\ UNCHANGED <<rpos, stage, partial, queue, headers, delivered>>
    BY DEF R!EndPage
  <1>2. rpos \in DOMAIN sink /\ rpos \in Nat \ {0} /\ pg = sink[rpos]
        /\ next \in 1..(Len(pg.segs) + 1)
    BY <1>0, <1>1 DEF AtPage
  <1>3. Len(pg.segs) \in Nat \ {0}
    BY <1>0, <1>2, PageFields, EmptySeq, LenProperties DEF PagesWellFormed, WellPlaced
  <1>4. next # 1 /\ next - 1 = Len(pg.segs)
    BY <1>1, <1>2, <1>3
  <1>5. ServedInOrder /\ Buffers /\ ReadTo(LastSegment(sink[rpos]))
    BY <1>1, <1>2, <1>4 DEF Reassembled, ReadSoFar, LastSegment
  <1>6. Served' = Served /\ Joined' = Joined
    BY <1>1 DEF Served, Joined
  <1>7. ServedInOrder' /\ Buffers'
    BY <1>1, <1>5, <1>6, <1>b, <1>v DEF ServedInOrder, Buffers, Bytes
  <1>8. ReadPages(rpos)'
    BY <1>1, <1>2, <1>5, <1>6, <1>v DEF ReadPages, ReadTo, LastSegment
  <1> QED
    BY <1>1, <1>2, <1>7, <1>8, <1>v DEF Reassembled, ReadSoFar

-----------------------------------------------------------------------------
(* The invariant of the stream.                                              *)

\* A step after which nothing has failed comes from a state where nothing had.
LEMMA FailsBefore ==
    ASSUME WriterInv, [AnyNext]_vars, fails' = 0
    PROVE  fails = 0
  <1>1. fails \in Nat
    BY DEF WriterInv, PageInv, TypeOK
  <1>2. fails' \in {fails, fails + 1}
    BY DEF AnyNext, Step, CommitForced, CommitFull, CommitLast, CommitFails, Enter,
       PlaceSegment, ReturnHead, ReturnTags, ReturnWrite, ReturnClose, Leave, WritePacket,
       Close, vars
  <1> QED
    BY <1>1, <1>2

\* Nor does a step of the reader after which no page is missing lose one.
LEMMA GapsBefore ==
    ASSUME R!ReaderStep \/ R!ReaderFault, gaps' = {}
    PROVE  gaps = {} /\ ~R!LosePage
  <1>1. \A g : gaps \cup {g} # {}
    OBVIOUS
  <1> QED
    BY <1>1 DEF R!ReaderStep, R!ReaderFault, R!Serve, R!EndOfStream, R!ReadPage,
       R!JoinSegment, R!PacketTooLarge, R!EndPage, R!ReadFails, R!ReadForeign, R!LosePage

LEMMA StreamStep == StreamInv /\ [StreamNext]_svars => StreamInv'
  <1> SUFFICES ASSUME StreamInv, [StreamNext]_svars PROVE StreamInv'
    OBVIOUS
  <1>1. WriterInv /\ AtPage /\ [AnyNext]_vars
    BY StreamDrivesWriter DEF StreamInv
  <1>2. WriterInv' /\ AtPage'
    BY <1>1, StreamWriter, AtPageStep
  <1>3. fails' = 0 => fails = 0
    BY <1>1, FailsBefore
  <1>4. fails' = 0 => Laced'
    BY <1>1, <1>3, LacedStep DEF StreamInv
  <1>5. ASSUME fails' = 0, gaps' = {} PROVE Reassembled'
    <2>1. CASE UNCHANGED readerVars
      <3>1. gaps = {}
        BY <1>5, <2>1 DEF readerVars
      <3> QED
        BY <1>1, <1>3, <1>5, <2>1, <3>1, ReassembledWriter DEF StreamInv
    <2>2. CASE (R!ReaderStep \/ R!ReaderFault) /\ UNCHANGED vars
      <3>1. fails = 0 /\ Laced /\ UNCHANGED vars
        BY <1>3, <1>5, <2>2 DEF StreamInv
      <3>3. gaps = {} /\ ~R!LosePage
        BY <1>5, <2>2, GapsBefore
      <3>4. Reassembled
        BY <3>1, <3>3 DEF StreamInv
      <3>5. ASSUME rpc' \notin {"want", "segs"}, UNCHANGED <<stage, delivered>> PROVE Reassembled'
        <4>1. ServedInOrder'
          BY <3>1, <3>4, <3>5 DEF Reassembled, ServedInOrder, Bytes, vars
        <4> QED
          BY <3>5, <4>1 DEF Reassembled
      <3>6. CASE R!Serve
        BY <1>1, <3>1, <3>4, <3>6, ReassembledServe
      <3>7. CASE R!EndOfStream \/ R!ReadFails \/ R!PacketTooLarge
        BY <3>5, <3>7 DEF R!EndOfStream, R!ReadFails, R!PacketTooLarge, R!readerState
      <3>8. CASE R!ReadPage
        BY <1>1, <3>1, <3>4, <3>8, ReassembledPage
      <3>9. CASE R!JoinSegment
        BY <1>1, <3>1, <3>4, <3>9, ReassembledJoin
      <3>10. CASE R!EndPage
        BY <1>1, <3>1, <3>4, <3>10, ReassembledEnd
      <3>11. CASE R!ReadForeign
        BY <1>1, <3>5, <3>11, ForeignRefused
      <3> QED
        BY <2>2, <3>3, <3>6, <3>7, <3>8, <3>9, <3>10, <3>11 DEF R!ReaderStep, R!ReaderFault
    <2> QED
      BY <2>1, <2>2 DEF StreamNext, svars
  <1> QED
    BY <1>2, <1>4, <1>5 DEF StreamInv

\* Every state of a stream satisfies the invariant: the pages are cut from the packets
\* the caller gave, the reader is at one of them, and what it has joined is what it has
\* read.
THEOREM StreamInvariant == StreamSpec => []StreamInv
  <1>1. StreamInit => StreamInv
    BY StreamWriter, AtPageInit, LacedInit, ReassembledInit DEF StreamInv
  <1> QED
    BY <1>1, StreamStep, PTL DEF StreamSpec

-----------------------------------------------------------------------------
(* The container implements PacketStream.                                    *)

LEMMA FunIsSeq ==
    ASSUME NEW k \in Nat, NEW f, f = [i \in 1..k |-> f[i]]
    PROVE  IsSeq(f) /\ Len(f) = k
  <1> DEFINE U == {f[i] : i \in 1..k}
  <1>1. DOMAIN f = 1..k
    OBVIOUS
  <1>2. \A i \in 1..k : f[i] \in U
    OBVIOUS
  <1> HIDE DEF U
  <1>3. f \in [1..k -> U]
    BY <1>2
  <1>4. f \in Seq(U)
    BY <1>3
  <1>5. IsSeq(f)
    BY <1>4, SeqIsSeq
  <1> QED
    BY <1>1, <1>4, <1>5, LenProperties

\* Any packet has a first segment, which names it.
LEMMA LacingFirst ==
    ASSUME NEW p \in Nat \ {0}, NEW n \in Nat
    PROVE  Lacing(p, n)[1].pkt = p
  <1> DEFINE L == Lacing(p, n)
  <1>1. /\ L \in Seq(Segment) /\ Len(L) = n \div MaxSegmentLen + 1
        /\ \A i \in 1..Len(L) : /\ L[i].pkt = p /\ L[i].part = i
                                /\ EndsPacket(L[i]) <=> i = Len(L)
    BY LacingShape
  <1>2. n \div MaxSegmentLen \in Nat
    BY DivMod
  <1> HIDE DEF L
  <1>3. 1 \in 1..Len(L)
    BY <1>1, <1>2
  <1>4. L[1].pkt = p
    BY <1>1, <1>3
  <1> QED
    BY <1>4 DEF L

\* A packet served is one that was accepted.
LEMMA ContentIs ==
    ASSUME TypeOK, ServedInOrder, NEW d \in DOMAIN delivered
    PROVE  Content(delivered[d]) = <<d + 2, accepted[d + 2].len>> /\ d + 2 \in DOMAIN accepted
  <1> DEFINE i == d + 2
  <1>1. i \in DOMAIN accepted /\ delivered[d] = Bytes(i)
    BY DEF ServedInOrder
  <1>2. i \in Nat \ {0} /\ accepted[i].len \in Nat
    <2>1. accepted \in Seq(Accepted) /\ i \in 1..Len(accepted)
      BY <1>1, LenProperties DEF TypeOK
    <2>2. accepted[i] \in Accepted
      BY <2>1, ElementOfSeq
    <2> QED
      BY <2>1, <2>2 DEF Accepted
  <1> HIDE DEF i
  <1>3. Bytes(i)[1].pkt = i
    <2> DEFINE n == accepted[i].len
    <2>1. Bytes(i) = Lacing(i, n) /\ n \in Nat
      BY <1>2 DEF Bytes
    <2> HIDE DEF n
    <2> QED
      BY <1>2, <2>1, LacingFirst
  <1>4. Whole(delivered[d])
    BY <1>1, <1>3 DEF Whole
  <1>5. Content(delivered[d]) = <<i, accepted[i].len>>
    BY <1>1, <1>3, <1>4 DEF Content
  <1> QED
    BY <1>1, <1>5 DEF i

\* What was sent and received, as sequences.
InView ==
    /\ IsSeq(Sent) /\ Len(Sent) = Len(accepted) - 2 /\ DOMAIN Sent = 1..(Len(accepted) - 2)
    /\ \A i \in 1..(Len(accepted) - 2) : Sent[i] = <<i + 2, accepted[i + 2].len>>
    /\ IsSeq(Received) /\ Len(Received) = Len(delivered) /\ DOMAIN Received = 1..Len(delivered)
    /\ \A i \in 1..Len(delivered) : Received[i] = <<i + 2, accepted[i + 2].len>>
    /\ Len(accepted) \in Nat /\ Len(accepted) >= 2 /\ DOMAIN accepted = 1..Len(accepted)
    /\ Len(delivered) \in Nat /\ DOMAIN delivered = 1..Len(delivered)
    /\ Len(delivered) <= Len(accepted) - 2

\* They are sequences, and the second is no longer than the first.
LEMMA Views == TypeOK /\ ServedInOrder => InView
  <1> SUFFICES ASSUME TypeOK, ServedInOrder PROVE InView
    OBVIOUS
  <1>1. /\ Len(accepted) \in Nat /\ Len(accepted) >= 2 /\ DOMAIN accepted = 1..Len(accepted)
        /\ Len(accepted) - 2 \in Nat
    BY LenProperties DEF TypeOK
  <1>2. Len(delivered) \in Nat /\ DOMAIN delivered = 1..Len(delivered)
    BY SeqFacts DEF ServedInOrder
  <1>3. IsSeq(Sent) /\ Len(Sent) = Len(accepted) - 2 /\ DOMAIN Sent = 1..(Len(accepted) - 2)
    <2>1. Sent = [i \in 1..(Len(accepted) - 2) |-> Sent[i]]
      BY DEF Sent
    <2> QED
      BY <1>1, <2>1, FunIsSeq
  <1>4. IsSeq(Received) /\ Len(Received) = Len(delivered) /\ DOMAIN Received = 1..Len(delivered)
    <2>1. Received = [i \in 1..Len(delivered) |-> Received[i]]
      BY DEF Received
    <2> QED
      BY <1>2, <2>1, FunIsSeq
  <1>5. \A i \in 1..Len(delivered) : Received[i] = <<i + 2, accepted[i + 2].len>>
    BY <1>2, ContentIs DEF Received
  <1>6. Len(delivered) <= Len(accepted) - 2
    <2>1. CASE Len(delivered) = 0
      BY <1>1, <2>1
    <2>2. CASE Len(delivered) > 0
      <3>1. Len(delivered) \in DOMAIN delivered
        BY <1>2, <2>2
      <3>2. Len(delivered) + 2 \in DOMAIN accepted
        BY <3>1, ContentIs
      <3> QED
        BY <1>1, <1>2, <3>2
    <2> QED
      BY <1>2, <2>1, <2>2
  <1>7. \A i \in 1..(Len(accepted) - 2) : Sent[i] = <<i + 2, accepted[i + 2].len>>
    BY DEF Sent
  <1> QED
    BY <1>1, <1>2, <1>3, <1>4, <1>5, <1>6, <1>7 DEF InView

\* A stream that has ended does not move, nor one whose writer went away.
LEMMA OverStays ==
    ASSUME WriterInv, AtPage, [StreamNext]_svars, Ended \/ pc = "dropped"
    PROVE  WriterIs' = WriterIs /\ Len(accepted') = Len(accepted)
  <1>0. TypeOK /\ ClosingOK /\ [AnyNext]_vars /\ sink \in Seq(Page)
    BY StreamDrivesWriter DEF WriterInv, PageInv, TypeOK
  <1>1. Ended => pc = "ready" /\ closing
    <2>1. Ended => Len(sink) \in DOMAIN sink /\ sink[Len(sink)].eos
      BY <1>0, EmptySeq, LenProperties DEF Ended
    <2> QED
      BY <1>0, <2>1 DEF ClosingOK, AtPage
  <1>2. pc = "dropped" \/ (pc = "ready" /\ closing)
    BY <1>1
  <1>3. sink' = sink
    BY <1>0, <1>2, SinkSteps
  <1>4. Ended' <=> Ended
    BY <1>3 DEF Ended
  <1>5. Ended' => pc' # "dropped"
    BY EndedStays
  <1>6. pc = "dropped" => pc' = "dropped"
    BY DEF StreamNext, svars, vars, Next, Step, CommitForced, CommitFull, CommitLast, CommitFails,
       Enter, PlaceSegment, ReturnHead, ReturnTags, ReturnWrite, ReturnClose, Dropped, AtForced,
       AtFull, AtLast, Returns, WritePacket, Close, Abandon
  <1>7. Len(accepted') = Len(accepted)
    <2>1. ~ReturnWrite /\ ~\E n, d \in Nat : WritePacket(n, d) /\ held = NoPacket
      BY <1>2 DEF ReturnWrite, Returns, WritePacket
    <2> QED
      BY <1>0, <2>1, AcceptedKept
  <1> QED
    BY <1>4, <1>6, <1>7 DEF WriterIs

\* The writer's steps: a packet is accepted, the last page is written, the process goes
\* away, or nothing a user sees happens.
LEMMA WriterImplements ==
    ASSUME StreamInv, StreamInv', [StreamNext]_svars, UNCHANGED readerVars,
           fails = 0, fails' = 0, gaps = {}
    PROVE  PS!ANext \/ UNCHANGED <<Sent, Received, WriterIs, ReaderIs>>
  <1>0. /\ WriterInv /\ AtPage /\ TypeOK /\ TypeOK' /\ [AnyNext]_vars /\ ClosingOK
        /\ ServedInOrder /\ ServedInOrder' /\ Laced'
    BY StreamDrivesWriter DEF StreamInv, Reassembled, WriterInv, PageInv, readerVars
  <1>1. InView
    BY <1>0, Views
  <1>2. InView'
    <2>1. (TypeOK /\ ServedInOrder => InView)'
      BY Views, PTL
    <2> QED
      BY <1>0, <2>1
  <1>3. \A i \in DOMAIN accepted : i \in DOMAIN accepted' /\ accepted'[i].len = accepted[i].len
    BY <1>0, AcceptedKept
  <1>8. \A i \in 1..Len(Sent) : i \in 1..(Len(accepted') - 2) => Sent[i] = Sent'[i]
    <2> SUFFICES ASSUME NEW i \in 1..Len(Sent), i \in 1..(Len(accepted') - 2)
                 PROVE  Sent[i] = Sent'[i]
      OBVIOUS
    <2>1. i \in 1..(Len(accepted) - 2) /\ i + 2 \in DOMAIN accepted
      BY <1>1 DEF InView
    <2>2. Sent[i] = <<i + 2, accepted[i + 2].len>>
      BY <1>1, <2>1 DEF InView
    <2>3. Sent'[i] = <<i + 2, accepted'[i + 2].len>>
      BY <1>2 DEF InView
    <2> QED
      BY <1>3, <2>1, <2>2, <2>3
  <1>4. Received' = Received
    <2>1. delivered' = delivered
      BY DEF readerVars
    <2>2. \A i \in 1..Len(Received) : Received[i] = Received'[i]
      <3> SUFFICES ASSUME NEW i \in 1..Len(Received) PROVE Received[i] = Received'[i]
        OBVIOUS
      <3>1. i \in 1..Len(delivered) /\ i \in 1..Len(delivered')
        BY <1>1, <2>1 DEF InView
      <3>2. Received[i] = <<i + 2, accepted[i + 2].len>>
        BY <1>1, <3>1 DEF InView
      <3>3. Received'[i] = <<i + 2, accepted'[i + 2].len>>
        BY <1>2, <3>1 DEF InView
      <3>4. i + 2 \in DOMAIN accepted
        BY <1>1, <3>1 DEF InView
      <3> QED
        BY <1>3, <3>2, <3>3, <3>4
    <2>3. IsSeq(Received) /\ IsSeq(Received') /\ Len(Received) = Len(Received')
      BY <1>1, <1>2, <2>1 DEF InView
    <2> QED
      BY <2>2, <2>3, SeqSame
  <1>5. ReaderIs' = ReaderIs
    BY DEF ReaderIs, R!ReaderDone, readerVars
  <1>6. CASE Len(accepted') = Len(accepted)
    <2>1. Sent' = Sent
      <3>1. \A i \in 1..Len(Sent) : Sent[i] = Sent'[i]
        BY <1>1, <1>6, <1>8 DEF InView
      <3>2. IsSeq(Sent) /\ IsSeq(Sent') /\ Len(Sent) = Len(Sent')
        BY <1>1, <1>2, <1>6 DEF InView
      <3> QED
        BY <3>1, <3>2, SeqSame
    <2>2. CASE Ended \/ pc = "dropped"
      BY <1>0, <1>4, <1>5, <2>1, <2>2, OverStays
    <2>3. CASE ~(Ended \/ pc = "dropped")
      <3>1. WriterIs = "open" /\ WriterIs' \in {"open", "closed", "broken"}
        BY <2>3 DEF WriterIs
      <3> QED
        BY <1>4, <1>5, <2>1, <3>1 DEF PS!ANext, PS!Finish, PS!Break
    <2> QED
      BY <2>2, <2>3
  <1>7. CASE Len(accepted') # Len(accepted)
    <2>1. ReturnWrite \/ \E n, d \in Nat : WritePacket(n, d) /\ held = NoPacket
      BY <1>0, <1>7, AcceptedKept
    <2>2. Len(accepted') = Len(accepted) + 1
      BY <1>0, <1>7, AcceptedKept
    <2>3. ~(Ended \/ pc = "dropped")
      BY <1>0, <1>7, OverStays
    <2>4. sink' = sink /\ pc' # "dropped"
      BY <2>1, <2>3 DEF ReturnWrite, WritePacket
    <2>5. WriterIs = "open" /\ WriterIs' = WriterIs
      BY <2>3, <2>4 DEF WriterIs, Ended
    <2>6. DOMAIN accepted' = 1..Len(accepted')
      BY <1>0, LenProperties DEF TypeOK
    <2> DEFINE c == <<Len(accepted'), accepted'[Len(accepted')].len>>
    <2>7. c \in (FirstAudio..(MaxPackets + 2)) \X PacketLens
      <3>1. /\ Len(accepted') <= MaxPackets + 2 /\ MaxPackets \in Nat
            /\ \A i \in FirstAudio..Len(accepted') : accepted'[i].len \in PacketLens
        BY <1>0, WriterAssumption DEF Laced
      <3>2. Len(accepted') \in FirstAudio..Len(accepted')
        BY <1>1, <2>2 DEF FirstAudio, InView
      <3>3. Len(accepted') \in FirstAudio..(MaxPackets + 2)
        BY <3>1, <3>2 DEF FirstAudio
      <3> QED
        BY <3>1, <3>2, <3>3
    <2>8. Sent'[Len(Sent) + 1] = c
      <3>1. Len(Sent) + 1 \in 1..(Len(accepted') - 2) /\ (Len(Sent) + 1) + 2 = Len(accepted')
        BY <1>1, <2>2 DEF InView
      <3> QED
        BY <1>2, <3>1 DEF InView
    <2> HIDE DEF c
    <2>9. Sent' = Append(Sent, c)
      <3> DEFINE b == Append(Sent, c)
      <3>1. /\ IsSeq(b) /\ Len(b) = Len(Sent) + 1 /\ b[Len(Sent) + 1] = c
            /\ \A i \in 1..Len(Sent) : b[i] = Sent[i]
        BY <1>1, SeqFacts DEF InView
      <3> HIDE DEF b
      <3>2. Len(Sent') = Len(b)
        BY <1>1, <1>2, <2>2, <3>1 DEF InView
      <3>3. \A i \in 1..Len(Sent) : Sent'[i] = b[i]
        BY <1>1, <1>8, <2>2, <3>1 DEF InView
      <3>4. \A i \in 1..Len(Sent') : Sent'[i] = b[i]
        BY <1>1, <2>8, <3>1, <3>2, <3>3 DEF InView
      <3>5. Sent' = b
        BY <1>2, <3>1, <3>2, <3>4, SeqSame DEF InView
      <3> QED
        BY <3>5 DEF b
    <2> QED
      BY <1>4, <1>5, <2>5, <2>7, <2>9 DEF PS!ANext, PS!Send
  <1> QED
    BY <1>6, <1>7
\* At the end of a closed stream the reader has served every packet.
LEMMA EndServesAll ==
    ASSUME StreamInv, R!EndOfStream, fails = 0, gaps = {}, Ended, stage = "audio"
    PROVE  Len(delivered) = Len(accepted) - 2
  <1>0. /\ sink \in Seq(Page) /\ DOMAIN sink = 1..Len(sink) /\ Len(sink) \in Nat
        /\ ClosingOK /\ PagesWellFormed /\ TypeOK /\ AtPage /\ Buffers /\ ReadSoFar
        /\ ServedInOrder /\ PageInv /\ OrderInv /\ rpc = "want" /\ queue = <<>>
    BY LenProperties DEF StreamInv, Reassembled, WriterInv, PageInv, TypeOK, R!EndOfStream
  <1>1. Len(sink) \in DOMAIN sink /\ sink[Len(sink)].eos /\ Len(sink) > 0
    BY <1>0, EmptySeq DEF Ended
  <1>2. rpos = Len(sink)
    <2>1. CASE sawEOS
      <3>1. rpos \in DOMAIN sink /\ sink[rpos].eos
        BY <1>0, <2>1 DEF AtPage
      <3> QED
        BY <1>0, <3>1 DEF PagesWellFormed, WellPlaced
    <2> QED
      BY <2>1 DEF R!EndOfStream
  <1>3. closing /\ pc = "ready"
    BY <1>0, <1>1 DEF AtPage, ClosingOK
  <1>4. EndsPacket(LastSegment(sink[Len(sink)])) /\ LastSegment(sink[Len(sink)]).pkt = Len(accepted)
    BY <1>0, <1>3, ClosedPages DEF ClosedIsComplete
  <1>5. ReadTo(LastSegment(sink[Len(sink)]))
    BY <1>0, <1>1, <1>2 DEF ReadSoFar, ReadPages
  <1>6. Joined = Len(accepted)
    BY <1>4, <1>5 DEF ReadTo
  <1>7. Joined = 2 + Len(delivered) /\ Len(delivered) \in Nat
    <2>1. Len(delivered) \in Nat /\ Len(queue) = 0
      BY <1>0, SeqFacts, EmptyIsSeq DEF ServedInOrder
    <2>2. Served = 2 + Len(delivered)
      BY DEF Served
    <2> QED
      BY <2>1, <2>2 DEF Joined
  <1> QED
    BY <1>6, <1>7

\* The reader's steps: a packet is received, the end is reported, an error is, or
\* nothing a user sees happens.
LEMMA ReaderImplements ==
    ASSUME StreamInv, StreamInv', R!ReaderStep \/ R!ReaderFault, UNCHANGED vars,
           fails = 0, gaps = {}, gaps' = {}
    PROVE  PS!ANext \/ UNCHANGED <<Sent, Received, WriterIs, ReaderIs>>
  <1> USE DEF R!readerState
  <1>0. /\ TypeOK /\ TypeOK' /\ ServedInOrder /\ ServedInOrder' /\ AtPage /\ fails' = 0
    BY DEF StreamInv, Reassembled, WriterInv, PageInv, vars
  <1>1. InView
    BY <1>0, Views
  <1>2. InView'
    <2>1. (TypeOK /\ ServedInOrder => InView)'
      BY Views, PTL
    <2> QED
      BY <1>0, <2>1
  <1>3. Sent' = Sent /\ accepted' = accepted
    BY DEF Sent, vars
  <1>4. WriterIs' = WriterIs
    BY DEF WriterIs, Ended, vars
  <1>5. ASSUME delivered' = delivered PROVE Received' = Received
    BY <1>3, <1>5 DEF Received, Content, Whole, Bytes
  <1>6. rpc \in {"want", "segs"} /\ ReaderIs = "reading"
    BY DEF R!ReaderStep, R!ReaderFault, R!Serve, R!EndOfStream, R!ReadPage, R!JoinSegment,
       R!PacketTooLarge, R!EndPage, R!ReadFails, R!ReadForeign, R!LosePage, R!BeginPage,
       R!NeedsPage, R!ReaderDone, ReaderIs
  <1>7. ASSUME delivered' = delivered, rpc' \in {"want", "segs"}
        PROVE  UNCHANGED <<Sent, Received, WriterIs, ReaderIs>>
    <2>1. ReaderIs' = ReaderIs
      BY <1>6, <1>7 DEF ReaderIs, R!ReaderDone
    <2> QED
      BY <1>3, <1>4, <1>5, <1>7, <2>1
  <1>8. ASSUME delivered' = delivered, rpc' \in {"badheader", "failed", "foreign", "toolarge"}
        PROVE  PS!ANext
    <2>1. ReaderIs' = "failed"
      BY <1>8 DEF ReaderIs, R!ReaderDone
    <2> QED
      BY <1>3, <1>4, <1>5, <1>6, <1>8, <2>1 DEF PS!ANext, PS!Fail
  <1>9. CASE delivered' # delivered
    <2>1. R!Serve /\ delivered' = Append(delivered, Head(queue)) /\ rpc' = rpc
      BY <1>9 DEF R!ReaderStep, R!ReaderFault, R!Serve, R!EndOfStream, R!ReadPage, R!JoinSegment,
         R!PacketTooLarge, R!EndPage, R!ReadFails, R!ReadForeign, R!LosePage, R!BeginPage
    <2>2. ReaderIs' = ReaderIs
      BY <2>1 DEF ReaderIs, R!ReaderDone
    <2>3. Len(delivered') = Len(delivered) + 1
      BY <1>0, <2>1, SeqFacts DEF ServedInOrder
    <2>4. Len(Received) < Len(Sent) /\ Len(Received) \in Nat /\ Len(Received') = Len(Received) + 1
      BY <1>1, <1>2, <1>3, <2>3 DEF InView
    <2> DEFINE c == Sent[Len(Received) + 1]
               b == Append(Received, c)
    <2>5. \A i \in 1..Len(Received') : Received'[i] = <<i + 2, accepted[i + 2].len>>
      BY <1>2, <1>3 DEF InView
    <2>6. Received'[Len(Received) + 1] = c
      <3>1. Len(Received) + 1 \in 1..Len(Received') /\ Len(Received) + 1 \in 1..(Len(accepted) - 2)
        BY <1>1, <2>4 DEF InView
      <3> QED
        BY <1>1, <2>5, <3>1 DEF InView
    <2> HIDE DEF c
    <2>7. /\ IsSeq(b) /\ Len(b) = Len(Received) + 1 /\ b[Len(Received) + 1] = c
          /\ \A i \in 1..Len(Received) : b[i] = Received[i]
      BY <1>1, SeqFacts DEF InView
    <2> HIDE DEF b
    <2>8. \A i \in 1..Len(Received) : Received'[i] = b[i]
      <3> SUFFICES ASSUME NEW i \in 1..Len(Received) PROVE Received'[i] = b[i]
        OBVIOUS
      <3>1. i \in 1..Len(delivered) /\ i \in 1..Len(Received')
        BY <1>1, <2>4 DEF InView
      <3>2. Received[i] = <<i + 2, accepted[i + 2].len>>
        BY <1>1, <3>1 DEF InView
      <3> QED
        BY <2>5, <2>7, <3>1, <3>2
    <2>9. \A i \in 1..Len(Received') : Received'[i] = b[i]
      BY <2>4, <2>6, <2>7, <2>8
    <2>10. Received' = b
      <3>1. IsSeq(Received') /\ IsSeq(b) /\ Len(Received') = Len(b)
        BY <1>2, <2>4, <2>7 DEF InView
      <3> QED
        BY <2>9, <3>1, SeqSame
    <2> QED
      BY <1>3, <1>4, <1>6, <2>2, <2>4, <2>10 DEF PS!ANext, PS!Receive, b, c
  <1>10. CASE rpc' = "eof" /\ delivered' = delivered
    <2>1. R!EndOfStream /\ stage = "audio"
      BY <1>6, <1>10 DEF R!ReaderStep, R!ReaderFault, R!Serve, R!EndOfStream, R!ReadPage,
         R!JoinSegment, R!PacketTooLarge, R!EndPage, R!ReadFails, R!ReadForeign, R!LosePage,
         R!BeginPage
    <2>2. ReaderIs' = "eof"
      BY <1>10 DEF ReaderIs, R!ReaderDone
    <2>3. CASE Ended
      <3>1. Len(delivered) = Len(accepted) - 2
        BY <2>1, <2>3, EndServesAll
      <3>2. Len(Received) = Len(Sent) /\ WriterIs = "closed"
        BY <1>1, <2>3, <3>1 DEF InView, WriterIs
      <3> QED
        BY <1>3, <1>4, <1>5, <1>6, <1>10, <2>2, <3>2 DEF PS!ANext, PS!End
    <2>4. CASE ~Ended
      <3>1. pc = "dropped"
        <4>1. sawEOS => Ended
          <5> SUFFICES ASSUME sawEOS PROVE Ended
            OBVIOUS
          <5>1. /\ sink \in Seq(Page) /\ DOMAIN sink = 1..Len(sink) /\ Len(sink) \in Nat
                /\ PagesWellFormed
            BY LenProperties DEF StreamInv, WriterInv, PageInv, TypeOK
          <5>2. rpos \in DOMAIN sink /\ sink[rpos].eos
            BY <1>0, <5>1 DEF AtPage
          <5>3. rpos = Len(sink)
            BY <5>1, <5>2 DEF PagesWellFormed, WellPlaced
          <5>4. sink # <<>>
            BY <5>1, <5>2
          <5> QED
            BY <5>2, <5>3, <5>4 DEF Ended
        <4> QED
          BY <2>1, <2>4, <4>1 DEF R!EndOfStream
      <3>2. WriterIs = "broken"
        BY <2>4, <3>1 DEF WriterIs
      <3> QED
        BY <1>3, <1>4, <1>5, <1>6, <1>10, <2>2, <3>2 DEF PS!ANext, PS!End
    <2> QED
      BY <2>3, <2>4
  <1>11. AtPage'
    BY DEF StreamInv
  <1> QED
    BY <1>7, <1>8, <1>9, <1>10, <1>11 DEF AtPage
LEMMA ImplementsInit == StreamInit => PS!AInit
  <1> SUFFICES ASSUME StreamInit PROVE PS!AInit
    OBVIOUS
  <1>1. WriterInv /\ Reassembled
    BY StreamWriter, ReassembledInit
  <1>2. InView
    BY <1>1, Views DEF Reassembled, WriterInv, PageInv
  <1>3. delivered = <<>> /\ rpc = "want"
    BY DEF StreamInit, R!RInit
  <1>4. sink = <<>> /\ pc = "enter"
    BY Zenon DEF StreamInit, Init
  <1>5. Len(accepted) = 2
    BY DEF StreamInit, Init
  <1>6. Received = <<>>
    <2>1. Len(Received) = 0 /\ IsSeq(Received)
      BY <1>2, <1>3, EmptyIsSeq DEF InView
    <2> QED
      BY <2>1, SeqSame, EmptyIsSeq
  <1>7. Sent = <<>>
    <2>1. Len(Sent) = 0 /\ IsSeq(Sent)
      BY <1>2, <1>5 DEF InView
    <2> QED
      BY <2>1, SeqSame, EmptyIsSeq
  <1>8. WriterIs = "open" /\ ReaderIs = "reading"
    BY <1>3, <1>4 DEF WriterIs, ReaderIs, Ended, R!ReaderDone
  <1> QED
    BY <1>6, <1>7, <1>8 DEF PS!AInit

\* While nothing is lost, a step of the stream is one of the container or changes
\* nothing a user sees.
Intact == fails = 0 /\ gaps = {}

LEMMA ImplementsStep ==
    StreamInv /\ StreamInv' /\ Intact /\ Intact' /\ [StreamNext]_svars => [PS!ANext]_(PS!avars)
  <1> SUFFICES ASSUME StreamInv, StreamInv', Intact, Intact', [StreamNext]_svars
               PROVE  PS!ANext \/ UNCHANGED <<Sent, Received, WriterIs, ReaderIs>>
    BY DEF PS!avars
  <1>1. CASE UNCHANGED readerVars
    BY <1>1, WriterImplements DEF Intact
  <1>2. CASE (R!ReaderStep \/ R!ReaderFault) /\ UNCHANGED vars
    BY <1>2, ReaderImplements DEF Intact
  <1> QED
    BY <1>1, <1>2 DEF StreamNext, svars

\* The container implements PacketStream: while the sink takes every page and the source
\* misses none, the packets the writer accepted come out of the reader whole, once each
\* and in order, and it reports the end of a closed stream only after the last of them;
\* whenever the writer's process goes away, the source fails or a page of another stream
\* turns up (containerWriter, containerReader).
THEOREM Delivery == StreamSpec /\ []Intact => DeliversPackets
  <1>1. StreamInit => PS!AInit
    BY ImplementsInit
  <1>2. StreamInv /\ StreamInv' /\ Intact /\ Intact' /\ [StreamNext]_svars
        => [PS!ANext]_(PS!avars)
    BY ImplementsStep
  <1> QED
    BY <1>1, <1>2, StreamInvariant, PTL DEF StreamSpec, DeliversPackets, PS!ASpec

\* In particular where the sink and the source have no faults to make.
THEOREM FaultlessDelivery ==
    ASSUME MaxFails = 0, MaxGaps = 0
    PROVE  StreamSpec => DeliversPackets
  <1>1. StreamInit => Intact
    BY Zenon DEF StreamInit, Init, R!RInit, Intact
  <1>2. StreamInv /\ Intact /\ [StreamNext]_svars => Intact'
    <2> SUFFICES ASSUME Intact, [StreamNext]_svars PROVE Intact'
      OBVIOUS
    <2>1. ~CommitFails
      BY DEF CommitFails, Intact
    <2>2. ~R!LosePage
      <3>1. R!Cardinality({}) = Cardinality({})
        BY DEF R!Cardinality, Cardinality
      <3> QED
        BY <3>1, FS_EmptySet DEF R!LosePage, Intact
    <2>3. fails' = fails
      BY <2>1 DEF StreamNext, svars, vars, Next, Step, CommitForced, CommitFull, CommitLast,
         Enter, PlaceSegment, ReturnHead, ReturnTags, ReturnWrite, ReturnClose, Dropped, AtForced,
         AtFull, AtLast, Returns, WritePacket, Close, Abandon
    <2>4. gaps' = gaps
      BY <2>2 DEF StreamNext, svars, readerVars, R!ReaderStep, R!ReaderFault, R!Serve,
         R!EndOfStream, R!ReadPage, R!JoinSegment, R!PacketTooLarge, R!EndPage, R!ReadFails,
         R!ReadForeign
    <2> QED
      BY <2>3, <2>4 DEF Intact
  <1> QED
    BY <1>1, <1>2, Delivery, StreamInvariant, PTL DEF StreamSpec

-----------------------------------------------------------------------------
(* The length of what a fold adds up.                                        *)

\* A set of naturals that is not empty has a least element.
LEMMA LeastOf ==
    ASSUME NEW T \in SUBSET Nat, T # {}
    PROVE  \E n \in T : \A m \in T : n <= m
  <1> DEFINE Less == {ss \in Nat \X Nat : ss[1] < ss[2]}
  <1>1. IsWellFoundedOn(Less, Nat)
    BY NatLessThanWellFounded, Zenon DEF OpToRel
  <1>2. PICK n \in T : \A m \in T : ~ (<<m, n>> \in Less)
    <2> HIDE DEF Less
    <2> QED
      BY <1>1, WFMin
  <1>3. \A m \in T : n <= m
    <2> SUFFICES ASSUME NEW m \in T, m < n PROVE FALSE
      OBVIOUS
    <2>1. <<m, n>> \in Nat \X Nat /\ <<m, n>>[1] < <<m, n>>[2]
      OBVIOUS
    <2>2. <<m, n>> \in Less
      BY <2>1, Zenon
    <2> QED
      BY <1>2, <2>2
  <1> QED
    BY <1>3

\* The function that ByteLen of n segments is computed with: the total of any of them.
Totals(g, p, n) == g = [s \in SUBSET (1..n) |->
                          IF s = {} THEN 0 ELSE g[s \ {R!Max(s)}] + p[R!Max(s)].len]

\* ByteLen is the value that function has at the set of all the indices.
LEMMA TotalsOf ==
    ASSUME NEW p, NEW n, DOMAIN p = 1..n
    PROVE  R!ByteLen(p) = (CHOOSE g : Totals(g, p, n))[1..n]
  BY Zenon DEF R!ByteLen, R!FoldLeft, R!MapThenFoldSet, Totals

\* The greatest of a set is the one not below any other.
LEMMA MaxIs ==
    ASSUME NEW k \in Nat, NEW s \in SUBSET (1..k), k \in s
    PROVE  R!Max(s) = k
  <1>1. k \in s /\ \A y \in s : k >= y
    OBVIOUS
  <1>2. \A x \in s : (\A y \in s : x >= y) => x = k
    BY <1>1
  <1> QED
    BY <1>1, <1>2, Zenon DEF R!Max

\* The segment with the greatest index is added last.
LEMMA TotalsAt ==
    ASSUME NEW g, NEW p, NEW n \in Nat, Totals(g, p, n)
    PROVE  g[{}] = 0 /\ \A k \in 1..n : g[1..k] = g[1..(k - 1)] + p[k].len
  <1>1. \A s \in SUBSET (1..n) : g[s] = IF s = {} THEN 0 ELSE g[s \ {R!Max(s)}] + p[R!Max(s)].len
    BY Zenon DEF Totals
  <1>2. g[{}] = 0
    BY <1>1
  <1>3. ASSUME NEW k \in 1..n PROVE g[1..k] = g[1..(k - 1)] + p[k].len
    <2>1. k \in Nat /\ 1..k \in SUBSET (1..k) /\ k \in 1..k
      OBVIOUS
    <2>2. R!Max(1..k) = k
      BY <2>1, MaxIs
    <2>3. 1..k \in SUBSET (1..n) /\ 1..k # {} /\ (1..k) \ {k} = 1..(k - 1)
      OBVIOUS
    <2> QED
      BY <1>1, <2>2, <2>3, Zenon
  <1> QED
    BY <1>2, <1>3

\* There is such a function.
LEMMA TotalsExist ==
    ASSUME NEW p, NEW n \in Nat
    PROVE  \E g : Totals(g, p, n)
  <1> DEFINE Off == {k \in Nat : ~ \E g : Totals(g, p, k)}
  <1>1. SUFFICES ASSUME Off # {} PROVE FALSE
    OBVIOUS
  <1>2. PICK k \in Off : \A j \in Off : k <= j
    <2>1. Off \in SUBSET Nat
      OBVIOUS
    <2> HIDE DEF Off
    <2> QED
      BY <1>1, <2>1, LeastOf
  <1>3. CASE k = 0
    <2> DEFINE g == [s \in SUBSET (1..0) |-> 0]
    <2>1. \A s \in SUBSET (1..0) : s = {}
      OBVIOUS
    <2>2. g = [s \in SUBSET (1..0) |->
                 IF s = {} THEN 0 ELSE g[s \ {R!Max(s)}] + p[R!Max(s)].len]
      BY <2>1, Zenon
    <2>3. Totals(g, p, 0)
      BY <2>2, Zenon DEF Totals
    <2> QED
      BY <1>2, <1>3, <2>3
  <1>4. CASE k # 0
    <2>1. k - 1 \in Nat /\ k - 1 < k /\ k \in Nat
      BY <1>4
    <2>2. PICK g : Totals(g, p, k - 1)
      BY <1>2, <2>1
    <2> DEFINE h == [s \in SUBSET (1..k) |-> IF k \in s THEN g[s \ {k}] + p[k].len ELSE g[s]]
    <2>3. ASSUME NEW s \in SUBSET (1..k)
          PROVE  h[s] = IF s = {} THEN 0 ELSE h[s \ {R!Max(s)}] + p[R!Max(s)].len
      <3>1. CASE k \in s
        <4>1. R!Max(s) = k
          BY <2>1, <3>1, MaxIs
        <4>2. s \ {k} \in SUBSET (1..k) /\ k \notin s \ {k} /\ s # {}
          BY <3>1
        <4>3. h[s \ {k}] = g[s \ {k}] /\ h[s] = g[s \ {k}] + p[k].len
          BY <3>1, <4>2, Zenon
        <4> QED
          BY <4>1, <4>2, <4>3, Zenon
      <3>2. CASE k \notin s
        <4>1. s \in SUBSET (1..(k - 1))
          BY <2>1, <3>2
        <4>2. h[s] = g[s]
          BY <3>2, Zenon
        <4>3. g[s] = IF s = {} THEN 0 ELSE g[s \ {R!Max(s)}] + p[R!Max(s)].len
          BY <2>2, <4>1, Zenon DEF Totals
        <4>4. s \ {R!Max(s)} \in SUBSET (1..k) /\ k \notin s \ {R!Max(s)}
          BY <3>2
        <4>5. h[s \ {R!Max(s)}] = g[s \ {R!Max(s)}]
          BY <4>4, Zenon
        <4> QED
          BY <4>2, <4>3, <4>5, Zenon
      <3> QED
        BY <3>1, <3>2
    <2>4. h = [s \in SUBSET (1..k) |->
                 IF s = {} THEN 0 ELSE h[s \ {R!Max(s)}] + p[R!Max(s)].len]
      <3> DEFINE G == [s \in SUBSET (1..k) |->
                         IF s = {} THEN 0 ELSE h[s \ {R!Max(s)}] + p[R!Max(s)].len]
      <3>1. \A s \in SUBSET (1..k) : h[s] = G[s]
        BY <2>3, Zenon
      <3> QED
        BY <3>1, Zenon
    <2>5. Totals(h, p, k)
      BY <2>4, Zenon DEF Totals
    <2> QED
      BY <1>2, <2>5
  <1> QED
    BY <1>3, <1>4

\* So the one ByteLen chooses is such a function.
LEMMA TotalsAre ==
    ASSUME NEW p, NEW n \in Nat, DOMAIN p = 1..n
    PROVE  \E g : Totals(g, p, n) /\ R!ByteLen(p) = g[1..n]
  <1> DEFINE g == CHOOSE g : Totals(g, p, n)
  <1>1. Totals(g, p, n)
    BY TotalsExist, Zenon
  <1>2. R!ByteLen(p) = g[1..n]
    BY TotalsOf, Zenon
  <1> QED
    BY <1>1, <1>2

\* Division leaves the remainder.
LEMMA Quotient ==
    ASSUME NEW n \in Nat
    PROVE  n = (n \div MaxSegmentLen) * MaxSegmentLen + (n % MaxSegmentLen)
  BY PageAssumption, SMT

\* Full segments add up to a multiple of the length of one.
LEMMA FullSegments ==
    ASSUME NEW g, NEW p, NEW n \in Nat, Totals(g, p, n), NEW d \in 0..n,
           \A i \in 1..d : p[i].len = MaxSegmentLen
    PROVE  g[1..d] = d * MaxSegmentLen
  <1> DEFINE Off == {k \in 0..d : g[1..k] # k * MaxSegmentLen}
  <1>1. SUFFICES ASSUME Off # {} PROVE FALSE
    <2>1. d \in 0..d
      OBVIOUS
    <2> QED
      BY <1>1, <2>1
  <1>2. PICK k \in Off : \A j \in Off : k <= j
    <2>1. Off \in SUBSET Nat
      OBVIOUS
    <2> HIDE DEF Off
    <2> QED
      BY <1>1, <2>1, LeastOf
  <1>m. MaxSegmentLen \in Nat
    BY PageAssumption
  <1>3. k # 0
    <2> SUFFICES ASSUME k = 0 PROVE FALSE
      OBVIOUS
    <2>1. 1..k = {}
      OBVIOUS
    <2>2. g[1..k] = 0
      BY <2>1, TotalsAt
    <2>3. k * MaxSegmentLen = 0
      BY <1>m
    <2> QED
      BY <1>2, <2>2, <2>3
  <1>4. k \in 1..n /\ k \in 1..d /\ k - 1 \in 0..d /\ k - 1 < k
    BY <1>3
  <1>5. g[1..k] = g[1..(k - 1)] + p[k].len
    BY <1>4, TotalsAt
  <1>6. g[1..(k - 1)] = (k - 1) * MaxSegmentLen
    <2>1. k - 1 \notin Off
      BY <1>2, <1>4
    <2> QED
      BY <1>4, <2>1
  <1>7. (k - 1) * MaxSegmentLen + MaxSegmentLen = k * MaxSegmentLen
    BY <1>m, <1>4
  <1> QED
    BY <1>2, <1>4, <1>5, <1>6, <1>7

\* What of a packet has been joined is full segments, until it is whole.
LEMMA JoinedLen ==
    ASSUME NEW x, NEW n \in Nat, NEW p, NEW k \in 0..(n \div MaxSegmentLen + 1), DOMAIN p = 1..k,
           \A i \in 1..k : p[i] = Lacing(x, n)[i]
    PROVE  R!ByteLen(p) = IF k <= n \div MaxSegmentLen THEN k * MaxSegmentLen ELSE n
  <1> DEFINE d == n \div MaxSegmentLen
             r == n % MaxSegmentLen
  <1>1. d \in Nat /\ r \in Nat /\ MaxSegmentLen \in Nat /\ n = d * MaxSegmentLen + r
    <2>1. d \in Nat /\ r \in 0..(MaxSegmentLen - 1)
      BY DivMod
    <2>2. n = d * MaxSegmentLen + r
      BY Quotient
    <2> HIDE DEF d, r
    <2> QED
      BY <2>1, <2>2, PageAssumption
  <1>2. \A i \in 1..k : p[i].len = IF i <= d THEN MaxSegmentLen ELSE r
    <2> SUFFICES ASSUME NEW i \in 1..k PROVE p[i].len = IF i <= d THEN MaxSegmentLen ELSE r
      OBVIOUS
    <2>1. i \in 1..(d + 1)
      BY <1>1
    <2>2. Lacing(x, n)[i].len = IF i <= d THEN MaxSegmentLen ELSE r
      BY <2>1, Zenon DEF Lacing
    <2>3. p[i] = Lacing(x, n)[i]
      OBVIOUS
    <2> QED
      BY <2>2, <2>3, Zenon
  <1> HIDE DEF d, r
  <1>k. k \in Nat /\ k <= d + 1
    BY <1>1 DEF d
  <1>3. PICK g : Totals(g, p, k) /\ R!ByteLen(p) = g[1..k]
    BY <1>k, TotalsAre
  <1>4. CASE k <= d
    <2>1. k \in 0..k /\ \A i \in 1..k : p[i].len = MaxSegmentLen
      BY <1>1, <1>2, <1>k, <1>4
    <2>2. g[1..k] = k * MaxSegmentLen
      BY <1>3, <1>k, <2>1, FullSegments
    <2> QED
      BY <1>3, <1>4, <2>2 DEF d
  <1>5. CASE ~(k <= d)
    <2>1. k = d + 1 /\ d \in 0..k /\ k \in 1..k /\ k - 1 = d
      BY <1>1, <1>k, <1>5
    <2>2. \A i \in 1..d : p[i].len = MaxSegmentLen
      BY <1>1, <1>2, <1>k, <2>1
    <2>3. g[1..d] = d * MaxSegmentLen
      BY <1>3, <1>k, <2>1, <2>2, FullSegments
    <2>4. g[1..k] = g[1..d] + p[k].len
      <3>1. g[1..k] = g[1..(k - 1)] + p[k].len
        BY <1>3, <1>k, <2>1, TotalsAt
      <3> QED
        BY <2>1, <3>1
    <2>5. p[k].len = r
      BY <1>2, <1>5, <2>1
    <2> QED
      BY <1>1, <1>3, <1>5, <2>3, <2>4, <2>5 DEF d
  <1> QED
    BY <1>4, <1>5

-----------------------------------------------------------------------------
(* What survives a missing page.                                             *)

\* The pages on the sink keep their places.
LEMMA PagesKept ==
    ASSUME TypeOK, [AnyNext]_vars
    PROVE  \A k \in DOMAIN sink : k \in DOMAIN sink' /\ sink'[k] = sink[k]
  <1>1. CASE sink' = sink
    BY <1>1
  <1>2. CASE sink' # sink
    <2>1. PICK e \in BOOLEAN : sink' = Append(sink, PendingPage(e))
      BY <1>2, SinkSteps
    <2> QED
      BY <2>1, SinkGrows
  <1> QED
    BY <1>1, <1>2

\* The pages gone by are on the sink, and so are their segments.
LEMMA PagesRead ==
    ASSUME WriterInv, AtPage
    PROVE  /\ sink \in Seq(Page) /\ DOMAIN sink = 1..Len(sink) /\ Len(sink) \in Nat
           /\ rpos \in Nat /\ \A k \in 1..rpos : k \in DOMAIN sink
           /\ \A k \in DOMAIN sink :
                 /\ sink[k].segs \in Seq(Segment) /\ Len(sink[k].segs) \in Nat \ {0}
                 /\ DOMAIN sink[k].segs = 1..Len(sink[k].segs)
                 /\ \A j \in DOMAIN sink[k].segs : sink[k].segs[j] \in Segment
                 /\ LastSegment(sink[k]) \in Segment
                 /\ LastSegment(sink[k]) = sink[k].segs[Len(sink[k].segs)]
                 /\ Len(sink[k].segs) \in DOMAIN sink[k].segs
  <1>0. sink \in Seq(Page) /\ DOMAIN sink = 1..Len(sink) /\ Len(sink) \in Nat /\ PagesWellFormed
    BY LenProperties DEF WriterInv, PageInv, TypeOK
  <1>1. rpos \in Nat /\ \A k \in 1..rpos : k \in DOMAIN sink
    BY <1>0 DEF AtPage
  <1>2. ASSUME NEW k \in DOMAIN sink
        PROVE  /\ sink[k].segs \in Seq(Segment) /\ Len(sink[k].segs) \in Nat \ {0}
               /\ DOMAIN sink[k].segs = 1..Len(sink[k].segs)
               /\ \A j \in DOMAIN sink[k].segs : sink[k].segs[j] \in Segment
               /\ LastSegment(sink[k]) \in Segment
               /\ LastSegment(sink[k]) = sink[k].segs[Len(sink[k].segs)]
               /\ Len(sink[k].segs) \in DOMAIN sink[k].segs
    <2>1. sink[k].segs \in Seq(Segment) /\ sink[k].segs # <<>>
      BY <1>0, PageFields DEF PagesWellFormed, WellPlaced
    <2>2. /\ DOMAIN sink[k].segs = 1..Len(sink[k].segs) /\ Len(sink[k].segs) \in Nat
          /\ \A j \in DOMAIN sink[k].segs : sink[k].segs[j] \in Segment
      BY <2>1, SegmentFields
    <2>3. Len(sink[k].segs) # 0
      BY <2>1, EmptySeq
    <2>4. Len(sink[k].segs) \in DOMAIN sink[k].segs
      BY <2>2, <2>3
    <2> QED
      BY <2>1, <2>2, <2>3, <2>4 DEF LastSegment
  <1> QED
    BY <1>0, <1>1, <1>2

\* An accepted packet's segments: the first names it.
LEMMA BytesFirst ==
    ASSUME TypeOK, NEW i \in DOMAIN accepted
    PROVE  /\ i \in Nat \ {0} /\ accepted[i].len \in Nat
           /\ Bytes(i)[1].pkt = i /\ IsSeq(Bytes(i))
           /\ Len(Bytes(i)) = accepted[i].len \div MaxSegmentLen + 1
  <1>1. i \in Nat \ {0} /\ accepted[i].len \in Nat
    <2>1. accepted \in Seq(Accepted) /\ i \in 1..Len(accepted)
      BY LenProperties DEF TypeOK
    <2>2. accepted[i] \in Accepted
      BY <2>1, ElementOfSeq
    <2> QED
      BY <2>1, <2>2 DEF Accepted
  <1> DEFINE n == accepted[i].len
  <1>2. Bytes(i) = Lacing(i, n) /\ n \in Nat
    BY <1>1 DEF Bytes
  <1> HIDE DEF n
  <1>3. Lacing(i, n)[1].pkt = i
    BY <1>1, <1>2, LacingFirst
  <1>4. Lacing(i, n) \in Seq(Segment) /\ Len(Lacing(i, n)) = n \div MaxSegmentLen + 1
    BY <1>1, <1>2, LacingShape
  <1>5. IsSeq(Lacing(i, n))
    BY <1>4, SeqIsSeq
  <1> QED
    BY <1>1, <1>2, <1>3, <1>4, <1>5 DEF n

\* Nothing has gone by at first.
LEMMA SurvivorsInit == StreamInit => Survivors
  <1> SUFFICES ASSUME StreamInit PROVE Survivors
    OBVIOUS
  <1>1. /\ rpos = 0 /\ rpc = "want" /\ stage = "head" /\ partial = <<>> /\ queue = <<>>
        /\ headers = 2 /\ delivered = <<>> /\ gaps = {}
    BY Zenon DEF StreamInit, R!RInit
  <1>2. Joined = 0 /\ \A i : ~EndPassed(i)
    BY <1>1, EmptyIsSeq DEF Served, Joined, EndPassed
  <1> QED
    BY <1>1, <1>2, EmptyIsSeq DEF Survivors, Listed, LeftByPages

\* The writer's steps touch nothing the reader has read.
LEMMA SurvivorsWriter ==
    ASSUME WriterInv, AtPage, Laced, Survivors, [StreamNext]_svars, UNCHANGED readerVars,
           rpc \in {"want", "segs"}
    PROVE  Survivors'
  <1>0. TypeOK /\ [AnyNext]_vars
    BY StreamDrivesWriter DEF WriterInv, PageInv
  <1>1. \A k \in 1..rpos : sink'[k] = sink[k] /\ k \in DOMAIN sink
    BY <1>0, PagesKept, PagesRead
  <1>u. /\ rpos' = rpos /\ rpc' = rpc /\ gaps' = gaps /\ next' = next /\ partial' = partial
        /\ queue' = queue /\ headers' = headers /\ delivered' = delivered /\ pg' = pg
        /\ stage' = stage
    BY DEF readerVars
  <1>2. \A i : (Undamaged(i)' <=> Undamaged(i)) /\ (EndPassed(i)' <=> EndPassed(i))
    BY <1>1, <1>u DEF Undamaged, EndPassed
  <1>3. \A i \in DOMAIN accepted : Bytes(i)' = Bytes(i)
    BY <1>0, AcceptedKept DEF Bytes
  <1>4. Served' = Served /\ Joined' = Joined
    BY <1>u DEF Served, Joined
  <1>5. ASSUME NEW s, CutFrom(s), LeftBy(s) PROVE LeftBy(s)'
    <2>1. Bytes(s.pkt)' = Bytes(s.pkt)
      BY <1>3, <1>5 DEF CutFrom
    <2> QED
      BY <1>2, <1>5, <1>u, <2>1 DEF LeftBy, HoldsPart
  <1>6. \A k \in DOMAIN sink : \A j \in DOMAIN sink[k].segs : CutFrom(sink[k].segs[j])
    BY DEF Laced
  <1>7. rpc = "want" => LeftByPages'
    <2> SUFFICES ASSUME rpc = "want" PROVE LeftByPages'
      OBVIOUS
    <2>1. LeftByPages
      BY DEF Survivors
    <2>2. CASE rpos > 0 /\ rpos \notin gaps
      <3>1. rpos \in 1..rpos /\ rpos \in DOMAIN sink
        BY <1>1, <2>2, PagesRead
      <3>2. CutFrom(LastSegment(sink[rpos]))
        BY <1>6, <3>1, PagesRead
      <3>3. LeftBy(LastSegment(sink[rpos]))'
        BY <1>1, <1>5, <1>u, <2>1, <2>2, <3>1, <3>2 DEF LeftByPages, LastSegment
      <3> QED
        BY <1>u, <2>2, <3>3 DEF LeftByPages
    <2> QED
      BY <1>u, <2>1, <2>2 DEF LeftByPages
  <1>8. rpc = "segs" => LeftInPage'
    <2> SUFFICES ASSUME rpc = "segs" PROVE LeftInPage'
      OBVIOUS
    <2>1. LeftInPage /\ rpos > 0 /\ pg = sink[rpos] /\ next \in 1..(Len(pg.segs) + 1)
      BY DEF Survivors, AtPage
    <2>2. rpos \in 1..rpos /\ rpos \in DOMAIN sink /\ rpos \in Nat
      BY <1>1, <2>1, PagesRead
    <2>3. next = 1 /\ rpos > 1 => LeftBy(LastSegment(sink[rpos - 1]))'
      <3> SUFFICES ASSUME next = 1, rpos > 1 PROVE LeftBy(LastSegment(sink[rpos - 1]))'
        OBVIOUS
      <3>1. rpos - 1 \in 1..rpos
        BY <2>2
      <3>2. CutFrom(LastSegment(sink[rpos - 1]))
        BY <1>1, <1>6, <3>1, PagesRead
      <3>3. sink'[rpos - 1] = sink[rpos - 1]
        BY <1>1, <3>1
      <3>4. LeftBy(LastSegment(sink[rpos - 1]))
        BY <2>1 DEF LeftInPage
      <3>5. PICK t : t = LastSegment(sink[rpos - 1])
        OBVIOUS
      <3>6. LeftBy(t)'
        BY <1>5, <3>2, <3>4, <3>5
      <3>7. t = LastSegment(sink'[rpos' - 1])
        BY <1>u, <3>3, <3>5 DEF LastSegment
      <3> QED
        BY <3>6, <3>7 DEF LeftBy, HoldsPart, Undamaged
    <2>4. next > 1 => LeftBy(pg.segs[next - 1])'
      <3> SUFFICES ASSUME next > 1 PROVE LeftBy(pg.segs[next - 1])'
        OBVIOUS
      <3>1. Len(pg.segs) \in Nat /\ DOMAIN pg.segs = 1..Len(pg.segs)
        BY <2>1, <2>2, PagesRead
      <3>2. next - 1 \in DOMAIN pg.segs
        BY <2>1, <3>1
      <3>3. CutFrom(pg.segs[next - 1])
        BY <1>6, <2>1, <2>2, <3>2
      <3>4. PICK t : t = pg.segs[next - 1]
        OBVIOUS
      <3>5. LeftBy(t)'
        BY <1>5, <2>1, <3>3, <3>4 DEF LeftInPage
      <3> QED
        BY <1>u, <3>4, <3>5 DEF LeftBy, HoldsPart, Undamaged
    <2> QED
      BY <1>u, <2>1, <2>3, <2>4 DEF LeftInPage
  <1>9. ASSUME NEW i \in FirstAudio..Len(accepted'), EndPassed(i)', Undamaged(i)'
        PROVE  (Kept(i) \/ Doomed)'
    <2>1. EndPassed(i) /\ Undamaged(i)
      BY <1>2, <1>9
    <2>2. i \in DOMAIN accepted
      BY <1>1, <1>6, <2>1 DEF EndPassed, CutFrom
    <2>3. i \in FirstAudio..Len(accepted)
      <3>1. DOMAIN accepted = 1..Len(accepted) /\ Len(accepted) \in Nat
        BY <1>0, LenProperties DEF TypeOK
      <3> QED
        BY <2>2, <3>1 DEF FirstAudio
    <2>4. Kept(i) \/ Doomed
      BY <2>1, <2>3 DEF Survivors
    <2>5. Kept(i) => Kept(i)'
      BY <1>3, <1>u, <2>2 DEF Kept
    <2>6. Doomed => Doomed'
      BY <1>4, <1>u DEF Doomed
    <2> QED
      BY <2>4, <2>5, <2>6
  <1>10. Listed' /\ (gaps \subseteq 1..rpos)'
    BY <1>u DEF Survivors, Listed
  <1>11. headers' = IF Joined' < 2 THEN 2 - Joined' ELSE 0
    BY <1>4, <1>u DEF Survivors
  <1>12. stage' \in {"head", "tags", "audio"} /\ (stage' # "audio" => delivered' = <<>>)
    BY <1>u DEF Survivors
  <1> QED
    BY <1>u, <1>7, <1>8, <1>9, <1>10, <1>11, <1>12 DEF Survivors

\* nextRawPacket serves what was kept, and newContainerReader refuses a header that is
\* another packet.
LEMMA SurvivorsServe ==
    ASSUME WriterInv, AtPage, Survivors, R!Serve, UNCHANGED vars, rpc' \in {"want", "segs"}
    PROVE  Survivors'
  <1>v. accepted' = accepted /\ sink' = sink /\ TypeOK
    BY DEF vars, WriterInv, PageInv
  <1>1. /\ rpc = "want" /\ rpc' = "want" /\ queue # <<>> /\ queue' = Tail(queue)
        /\ UNCHANGED <<rpos, pg, next, partial, headers, gaps>>
    BY DEF R!Serve
  <1>l. IsSeq(partial) /\ IsSeq(queue) /\ IsSeq(delivered)
    BY DEF Survivors, Listed
  <1>2. /\ Len(queue) \in Nat /\ Len(queue) > 0 /\ DOMAIN queue = 1..Len(queue)
        /\ Head(queue) = queue[1] /\ IsSeq(queue') /\ Len(queue') = Len(queue) - 1
        /\ \A i \in 1..(Len(queue) - 1) : queue'[i] = queue[i + 1]
    BY <1>1, <1>l, SeqFacts
  <1>3. DOMAIN queue' = 1..(Len(queue) - 1)
    BY <1>2, SeqFacts
  <1>4. Len(delivered) \in Nat /\ DOMAIN delivered = 1..Len(delivered)
    BY <1>l, SeqFacts
  <1>5. \/ stage = "head" /\ stage' = "tags" /\ delivered' = delivered /\ queue[1][1].pkt = 1
        \/ stage = "tags" /\ stage' = "audio" /\ delivered' = delivered /\ queue[1][1].pkt = 2
        \/ stage = "audio" /\ stage' = "audio" /\ delivered' = Append(delivered, queue[1])
    BY <1>1, <1>2 DEF R!Serve, R!HeadParses, R!TagsParse
  <1>6. /\ IsSeq(delivered') /\ stage' \in {"head", "tags", "audio"}
        /\ stage' # "audio" => delivered' = <<>>
        /\ \A d \in DOMAIN delivered : d \in DOMAIN delivered' /\ delivered'[d] = delivered[d]
        /\ stage = "audio" => \E d \in DOMAIN delivered' : delivered'[d] = queue[1]
    <2>1. CASE stage = "audio"
      <3>a. delivered' = Append(delivered, queue[1])
        BY <1>5, <2>1
      <3>1. /\ IsSeq(delivered') /\ DOMAIN delivered' = 1..(Len(delivered) + 1)
            /\ delivered'[Len(delivered) + 1] = queue[1]
            /\ \A d \in 1..Len(delivered) : delivered'[d] = delivered[d]
        BY <1>l, <3>a, SeqFacts
      <3>2. Len(delivered) + 1 \in DOMAIN delivered'
        BY <1>4, <3>1
      <3> QED
        BY <1>4, <1>5, <2>1, <3>1, <3>2
    <2>2. CASE stage # "audio"
      BY <1>5, <1>l, <2>2 DEF Survivors
    <2> QED
      BY <2>1, <2>2
  <1>7. Served \in Nat /\ Served' = Served + 1 /\ (stage # "audio" => Served < 2)
        /\ (stage = "audio" => Served >= 2)
    <2>1. CASE stage = "head" /\ stage' = "tags"
      BY <2>1 DEF Served
    <2>2. CASE stage = "tags" /\ stage' = "audio" /\ delivered' = delivered
      <3>1. Len(delivered) = 0
        BY <2>2, EmptyIsSeq DEF Survivors
      <3> QED
        BY <2>2, <3>1 DEF Served
    <2>3. CASE stage = "audio" /\ stage' = "audio" /\ delivered' = Append(delivered, queue[1])
      <3>1. Len(delivered') = Len(delivered) + 1
        BY <1>l, <2>3, SeqFacts
      <3> QED
        BY <1>4, <2>3, <3>1 DEF Served
    <2> QED
      BY <1>5, <2>1, <2>2, <2>3
  <1>8. Joined' = Joined
    BY <1>2, <1>7 DEF Joined
  <1>9. \A k \in DOMAIN queue : k # 1 => k - 1 \in DOMAIN queue' /\ queue'[k - 1] = queue[k]
    <2> SUFFICES ASSUME NEW k \in DOMAIN queue, k # 1
                 PROVE  k - 1 \in DOMAIN queue' /\ queue'[k - 1] = queue[k]
      OBVIOUS
    <2>1. k - 1 \in 1..(Len(queue) - 1) /\ (k - 1) + 1 = k
      BY <1>2
    <2>2. queue'[k - 1] = queue[(k - 1) + 1]
      BY <1>2, <2>1, Zenon
    <2> QED
      BY <1>3, <2>1, <2>2
  <1>10. Doomed => Doomed'
    <2> SUFFICES ASSUME Doomed PROVE Doomed'
      OBVIOUS
    <2>1. PICK k \in DOMAIN queue : Served + k <= 2 /\ queue[k][1].pkt >= FirstAudio
      BY DEF Doomed
    <2>2. k # 1
      <3> SUFFICES ASSUME k = 1 PROVE FALSE
        OBVIOUS
      <3>1. stage # "audio"
        BY <1>7, <2>1
      <3> QED
        BY <1>5, <2>1, <3>1 DEF FirstAudio
    <2>3. k - 1 \in DOMAIN queue' /\ queue'[k - 1] = queue[k]
      BY <1>9, <2>2
    <2>4. Served' + (k - 1) <= 2
      BY <1>2, <1>7, <2>1
    <2> QED
      BY <2>1, <2>3, <2>4 DEF Doomed
  <1>11. ASSUME NEW i \in FirstAudio..Len(accepted), Kept(i) PROVE Kept(i)'
    <2>b. Bytes(i)' = Bytes(i) /\ Bytes(i)[1].pkt = i /\ i >= 3 /\ i \in Nat
      <3>1. i \in DOMAIN accepted /\ i \in Nat /\ i >= 3
        <4>1. DOMAIN accepted = 1..Len(accepted) /\ Len(accepted) \in Nat
          BY <1>v, LenProperties DEF TypeOK
        <4> QED
          BY <4>1 DEF FirstAudio
      <3> QED
        BY <1>v, <3>1, BytesFirst DEF Bytes
    <2>1. CASE \E d \in DOMAIN delivered : delivered[d] = Bytes(i)
      BY <1>6, <2>1, <2>b DEF Kept
    <2>2. ASSUME NEW k \in DOMAIN queue, queue[k] = Bytes(i) PROVE Kept(i)'
      <3>1. CASE k = 1
        <4>1. stage = "audio"
          BY <1>5, <2>2, <2>b, <3>1
        <4> QED
          BY <1>6, <2>2, <2>b, <3>1, <4>1 DEF Kept
      <3>2. CASE k # 1
        BY <1>9, <2>2, <2>b, <3>2 DEF Kept
      <3> QED
        BY <3>1, <3>2
    <2> QED
      BY <1>11, <2>1, <2>2 DEF Kept
  <1>12. \A i : (EndPassed(i)' <=> EndPassed(i)) /\ (Undamaged(i)' <=> Undamaged(i))
    BY <1>1, <1>v DEF EndPassed, Undamaged
  <1>13. \A i \in FirstAudio..Len(accepted') :
            EndPassed(i)' /\ Undamaged(i)' => Kept(i)' \/ Doomed'
    BY <1>10, <1>11, <1>12, <1>v DEF Survivors
  <1>14. LeftByPages'
    <2>1. LeftByPages
      BY <1>1 DEF Survivors
    <2> QED
      BY <1>1, <1>v, <2>1
         DEF LeftByPages, LeftBy, HoldsPart, Undamaged, Bytes, LastSegment
  <1>15. headers' = IF Joined' < 2 THEN 2 - Joined' ELSE 0
    BY <1>1, <1>8 DEF Survivors
  <1>16. Listed' /\ (gaps \subseteq 1..rpos)'
    BY <1>1, <1>2, <1>6, <1>l DEF Survivors, Listed
  <1> QED
    BY <1>1, <1>6, <1>13, <1>14, <1>15, <1>16 DEF Survivors

\* A page that continues no packet clears the one left dangling; one that does comes
\* right after the page before it, or after a page the packet was on that is missing.
LEMMA SurvivorsPage ==
    ASSUME WriterInv, AtPage, Survivors, R!ReadPage, UNCHANGED vars, rpc' \in {"want", "segs"}
    PROVE  Survivors'
  <1>v. accepted' = accepted /\ sink' = sink
    BY DEF vars
  <1>1. /\ rpos < Len(sink) /\ rpos' = rpos + 1 /\ rpc = "want" /\ rpc' = "segs"
        /\ UNCHANGED <<stage, queue, headers, delivered, gaps>>
        /\ pg' = sink[rpos + 1] /\ next' = 1
        /\ partial' = IF sink[rpos + 1].cont THEN partial ELSE <<>>
        /\ rpos \in Nat /\ rpos + 1 \in DOMAIN sink
    BY ReadPageTo
  <1>2. /\ LeftByPages /\ gaps \subseteq 1..rpos
        /\ IsSeq(partial) /\ IsSeq(queue) /\ IsSeq(delivered)
    BY <1>1 DEF Survivors, Listed
  <1>3. sink[rpos + 1].cont <=> rpos + 1 > 1 /\ ~EndsPacket(LastSegment(sink[rpos]))
    <2>1. WellPlaced(sink, rpos + 1)
      BY <1>1 DEF WriterInv, PageInv, PagesWellFormed
    <2>2. (rpos + 1) - 1 = rpos
      BY <1>1
    <2> QED
      BY <2>1, <2>2 DEF WellPlaced
  <1>4. 1..rpos \subseteq 1..(rpos + 1) /\ rpos + 1 \notin 1..rpos
    BY <1>1
  <1>5. \A i : Undamaged(i)' => Undamaged(i)
    BY <1>1, <1>4, <1>v DEF Undamaged
  <1>6. rpos' > 1 => LeftBy(LastSegment(sink[rpos - 1]))'
    <2> SUFFICES ASSUME rpos' > 1 PROVE LeftBy(LastSegment(sink[rpos - 1]))'
      OBVIOUS
    <2>1. PICK t : t = LastSegment(sink[rpos])
      OBVIOUS
    <2>2. rpos > 0 /\ rpos' - 1 = rpos /\ rpos \in 1..rpos
      BY <1>1
    <2>3. LeftBy(t)'
      <3>1. CASE EndsPacket(t)
        BY <1>1, <1>3, <2>1, <3>1 DEF LeftBy
      <3>2. CASE ~EndsPacket(t)
        <4> SUFFICES ASSUME t.pkt >= FirstAudio, Undamaged(t.pkt)' PROVE HoldsPart(t)'
          BY <3>2 DEF LeftBy
        <4>1. partial' = partial
          BY <1>1, <1>3, <2>1, <2>2, <3>2
        <4>2. Undamaged(t.pkt)
          BY <1>5
        <4>3. rpos \notin gaps
          <5>1. /\ Len(sink[rpos].segs) \in DOMAIN sink[rpos].segs
                /\ t = sink[rpos].segs[Len(sink[rpos].segs)]
            BY <2>1, <2>2, PagesRead
          <5> QED
            BY <2>2, <4>2, <5>1 DEF Undamaged
        <4>4. HoldsPart(t)
          BY <1>2, <2>1, <2>2, <3>2, <4>2, <4>3 DEF LeftByPages, LeftBy
        <4> QED
          BY <1>1, <1>v, <4>1, <4>4 DEF HoldsPart, Bytes
      <3> QED
        BY <3>1, <3>2
    <2>4. t = LastSegment(sink'[rpos' - 1])
      BY <1>v, <2>1, <2>2 DEF LastSegment
    <2> QED
      BY <2>3, <2>4 DEF LeftBy, HoldsPart, Undamaged
  <1>7. LeftInPage'
    <2>1. rpos' \notin gaps'
      BY <1>1, <1>2, <1>4
    <2>2. rpos' = 1 => partial' = <<>>
      BY <1>1, <1>3
    <2> QED
      BY <1>1, <1>6, <2>1, <2>2 DEF LeftInPage
  <1>8. \A i : EndPassed(i)' => EndPassed(i)
    <2> SUFFICES ASSUME NEW i, EndPassed(i)' PROVE EndPassed(i)
      OBVIOUS
    <2>1. PICK k \in 1..(rpos + 1) : \E j \in DOMAIN sink[k].segs :
            /\ sink[k].segs[j].pkt = i /\ EndsPacket(sink[k].segs[j])
            /\ k < rpos + 1 \/ j < 1
      BY <1>1, <1>v DEF EndPassed
    <2>2. PICK j \in DOMAIN sink[k].segs :
            /\ sink[k].segs[j].pkt = i /\ EndsPacket(sink[k].segs[j])
            /\ k < rpos + 1 \/ j < 1
      BY <2>1
    <2>3. k \in DOMAIN sink
      BY <1>1, PagesRead
    <2>4. ~(j < 1)
      BY <2>3, PagesRead
    <2>5. k \in 1..rpos
      BY <1>1, <2>2, <2>4
    <2> QED
      BY <1>1, <2>2, <2>5 DEF EndPassed
  <1>9. \A i \in FirstAudio..Len(accepted') :
            EndPassed(i)' /\ Undamaged(i)' => Kept(i)' \/ Doomed'
    <2>1. \A i : (Kept(i)' <=> Kept(i))
      BY <1>1, <1>v DEF Kept, Bytes
    <2>2. Doomed' <=> Doomed
      BY <1>1 DEF Doomed, Served
    <2> QED
      BY <1>5, <1>8, <1>v, <2>1, <2>2 DEF Survivors
  <1>10. headers' = IF Joined' < 2 THEN 2 - Joined' ELSE 0
    BY <1>1 DEF Survivors, Joined, Served
  <1>11. Listed' /\ (gaps \subseteq 1..rpos)'
    BY <1>1, <1>2, <1>4, EmptyIsSeq DEF Listed
  <1>12. stage' \in {"head", "tags", "audio"} /\ (stage' # "audio" => delivered' = <<>>)
    BY <1>1 DEF Survivors
  <1> QED
    BY <1>1, <1>7, <1>9, <1>10, <1>11, <1>12 DEF Survivors

\* A page that is missing damages the packets with a part on it.
LEMMA SurvivorsLose ==
    ASSUME WriterInv, AtPage, Survivors, R!LosePage, UNCHANGED vars
    PROVE  Survivors'
  <1>v. accepted' = accepted /\ sink' = sink
    BY DEF vars
  <1>1. /\ rpc = "want" /\ rpos' = rpos + 1 /\ gaps' = gaps \cup {rpos + 1} /\ rpc' = rpc
        /\ UNCHANGED <<stage, partial, queue, headers, delivered, pg, next>>
    BY DEF R!LosePage, R!NeedsPage, R!readerState
  <1>2. rpos \in Nat
    BY PagesRead
  <1>3. gaps' \subseteq 1..rpos'
    BY <1>1, <1>2 DEF Survivors
  <1>4. LeftByPages'
    BY <1>1, <1>2 DEF LeftByPages
  <1>5. ASSUME NEW i, EndPassed(i)', Undamaged(i)' PROVE EndPassed(i) /\ Undamaged(i)
    <2>1. Undamaged(i)
      BY <1>1, <1>2, <1>5, <1>v DEF Undamaged
    <2>2. PICK k \in 1..(rpos + 1) : \E j \in DOMAIN sink[k].segs :
            sink[k].segs[j].pkt = i /\ EndsPacket(sink[k].segs[j])
      BY <1>1, <1>5, <1>v DEF EndPassed
    <2>3. k # rpos + 1
      BY <1>1, <1>5, <1>v, <2>2 DEF Undamaged
    <2>4. k \in 1..rpos
      BY <1>2, <2>3
    <2> QED
      BY <1>1, <2>1, <2>2, <2>4 DEF EndPassed
  <1>6. \A i \in FirstAudio..Len(accepted') :
            EndPassed(i)' /\ Undamaged(i)' => Kept(i)' \/ Doomed'
    <2>1. \A i : (Kept(i)' <=> Kept(i))
      BY <1>1, <1>v DEF Kept, Bytes
    <2>2. Doomed' <=> Doomed
      BY <1>1 DEF Doomed, Served
    <2> QED
      BY <1>5, <1>v, <2>1, <2>2 DEF Survivors
  <1>7. headers' = IF Joined' < 2 THEN 2 - Joined' ELSE 0
    BY <1>1 DEF Survivors, Joined, Served
  <1>8. Listed' /\ stage' \in {"head", "tags", "audio"} /\ (stage' # "audio" => delivered' = <<>>)
    BY <1>1 DEF Survivors, Listed
  <1> QED
    BY <1>1, <1>3, <1>4, <1>6, <1>7, <1>8 DEF Survivors

\* The page is read to its end.
LEMMA SurvivorsEnd ==
    ASSUME WriterInv, AtPage, Survivors, R!EndPage, UNCHANGED vars
    PROVE  Survivors'
  <1>v. accepted' = accepted /\ sink' = sink
    BY DEF vars
  <1>1. /\ rpc = "segs" /\ next > Len(pg.segs) /\ rpc' = "want"
        /\ UNCHANGED <<rpos, stage, partial, queue, headers, delivered, gaps, pg, next>>
    BY DEF R!EndPage
  <1>2. rpos > 0 /\ pg = sink[rpos] /\ next \in 1..(Len(pg.segs) + 1) /\ rpos \in DOMAIN sink
    <2>1. rpos > 0 /\ pg = sink[rpos] /\ next \in 1..(Len(pg.segs) + 1)
      BY <1>1 DEF AtPage
    <2>2. rpos \in 1..rpos
      BY <2>1, PagesRead
    <2> QED
      BY <2>1, <2>2, PagesRead
  <1>3. Len(pg.segs) \in Nat \ {0} /\ LastSegment(sink[rpos]) = pg.segs[Len(pg.segs)]
        /\ DOMAIN pg.segs = 1..Len(pg.segs)
    BY <1>2, PagesRead
  <1>4. next > 1 /\ next - 1 = Len(pg.segs)
    BY <1>1, <1>2, <1>3
  <1>5. LeftBy(LastSegment(sink[rpos]))
    BY <1>1, <1>3, <1>4 DEF Survivors, LeftInPage
  <1>6. LeftByPages'
    <2>1. PICK t : t = LastSegment(sink[rpos])
      OBVIOUS
    <2>2. LeftBy(t)'
      BY <1>1, <1>5, <1>v, <2>1 DEF LeftBy, HoldsPart, Undamaged, Bytes
    <2>3. t = LastSegment(sink'[rpos'])
      BY <1>1, <1>v, <2>1 DEF LastSegment
    <2>4. LeftBy(LastSegment(sink[rpos]))'
      BY <2>2, <2>3 DEF LeftBy, HoldsPart, Undamaged
    <2> QED
      BY <1>1, <1>2, <2>4 DEF LeftByPages
  <1>7. ASSUME NEW i, EndPassed(i)', Undamaged(i)' PROVE EndPassed(i) /\ Undamaged(i)
    <2>1. Undamaged(i)
      BY <1>1, <1>7, <1>v DEF Undamaged
    <2>2. PICK k \in 1..rpos : \E j \in DOMAIN sink[k].segs :
            sink[k].segs[j].pkt = i /\ EndsPacket(sink[k].segs[j])
      BY <1>1, <1>7, <1>v DEF EndPassed
    <2>3. PICK j \in DOMAIN sink[k].segs : sink[k].segs[j].pkt = i /\ EndsPacket(sink[k].segs[j])
      BY <2>2
    <2>4. k < rpos \/ j < next
      <3>1. CASE k = rpos
        BY <1>1, <1>2, <1>3, <2>3, <3>1
      <3>2. CASE k # rpos
        BY <3>2, PagesRead
      <3> QED
        BY <3>1, <3>2
    <2> QED
      BY <2>1, <2>3, <2>4 DEF EndPassed
  <1>8. \A i \in FirstAudio..Len(accepted') :
            EndPassed(i)' /\ Undamaged(i)' => Kept(i)' \/ Doomed'
    <2>1. \A i : (Kept(i)' <=> Kept(i))
      BY <1>1, <1>v DEF Kept, Bytes
    <2>2. Doomed' <=> Doomed
      BY <1>1 DEF Doomed, Served
    <2> QED
      BY <1>7, <1>v, <2>1, <2>2 DEF Survivors
  <1>9. headers' = IF Joined' < 2 THEN 2 - Joined' ELSE 0
    BY <1>1 DEF Survivors, Joined, Served
  <1>10. Listed' /\ stage' \in {"head", "tags", "audio"} /\ (stage' # "audio" => delivered' = <<>>)
         /\ (gaps \subseteq 1..rpos)'
    BY <1>1 DEF Survivors, Listed
  <1> QED
    BY <1>1, <1>6, <1>8, <1>9, <1>10 DEF Survivors

\* Before the loop joins segment s, partial holds what comes before it in its packet: if
\* it is the packet's first, nothing, whatever is missing.
LEMMA PartBefore ==
    ASSUME WriterInv, AtPage, Survivors, fails = 0, rpc = "segs", next <= Len(pg.segs)
    PROVE  LET s == pg.segs[next]
           IN  /\ s \in Segment /\ rpos \in DOMAIN sink /\ pg = sink[rpos] /\ rpos \in 1..rpos
               /\ next \in DOMAIN pg.segs /\ next \in Nat /\ next > 0
               /\ s.part = 1 => partial = <<>>
               /\ s.pkt >= FirstAudio /\ Undamaged(s.pkt) =>
                    /\ Len(partial) = s.part - 1
                    /\ Len(partial) > 0 => partial[1].pkt = s.pkt
                    /\ headers = 0 => \A j \in 1..Len(partial) : partial[j] = Bytes(s.pkt)[j]
  <1>1. LeftInPage /\ IsSeq(partial)
    BY DEF Survivors, Listed
  <1>2. rpos > 0 /\ pg = sink[rpos] /\ next \in 1..(Len(pg.segs) + 1)
    BY DEF AtPage
  <1>3. rpos \in 1..rpos /\ rpos \in DOMAIN sink /\ rpos \in Nat /\ DOMAIN sink = 1..Len(sink)
    BY <1>2, PagesRead
  <1>4. /\ Len(pg.segs) \in Nat /\ DOMAIN pg.segs = 1..Len(pg.segs)
        /\ \A j \in DOMAIN pg.segs : pg.segs[j] \in Segment
    BY <1>2, <1>3, PagesRead
  <1>5. next \in DOMAIN pg.segs /\ next \in Nat /\ next > 0
    BY <1>2, <1>4
  <1>6. SinkInOrder
    BY DEF WriterInv, OrderInv
  <1>7. PageFollows(sink, rpos)
    BY <1>3, <1>6 DEF SinkInOrder
  <1>8. PICK s \in Segment : s = pg.segs[next]
    BY <1>4, <1>5
  <1>s. s.pkt \in Nat \ {0} /\ s.part \in Nat \ {0} /\ Len(partial) \in Nat /\ DOMAIN partial = 1..Len(partial)
    BY <1>1, SeqFacts DEF Segment
  <1>9. /\ s.part = 1 => partial = <<>>
        /\ s.pkt >= FirstAudio /\ Undamaged(s.pkt) =>
              /\ Len(partial) = s.part - 1
              /\ Len(partial) > 0 => partial[1].pkt = s.pkt
              /\ headers = 0 => \A j \in 1..Len(partial) : partial[j] = Bytes(s.pkt)[j]
    <2>1. ASSUME partial = <<>>, s.part = 1
          PROVE  /\ s.part = 1 => partial = <<>>
                 /\ s.pkt >= FirstAudio /\ Undamaged(s.pkt) =>
                       /\ Len(partial) = s.part - 1
                       /\ Len(partial) > 0 => partial[1].pkt = s.pkt
                       /\ headers = 0 => \A j \in 1..Len(partial) : partial[j] = Bytes(s.pkt)[j]
      <3>1. Len(partial) = 0 /\ 1..0 = {}
        BY <2>1, EmptyIsSeq
      <3> QED
        BY <2>1, <3>1
    <2>2. ASSUME NEW t \in Segment, LeftBy(t), Follows(t, s)
          PROVE  /\ s.part = 1 => partial = <<>>
                 /\ s.pkt >= FirstAudio /\ Undamaged(s.pkt) =>
                       /\ Len(partial) = s.part - 1
                       /\ Len(partial) > 0 => partial[1].pkt = s.pkt
                       /\ headers = 0 => \A j \in 1..Len(partial) : partial[j] = Bytes(s.pkt)[j]
      <3>1. CASE EndsPacket(t)
        BY <2>1, <2>2, <3>1 DEF LeftBy, Follows
      <3>2. CASE ~EndsPacket(t)
        <4>1. s.pkt = t.pkt /\ s.part = t.part + 1 /\ t.part \in Nat \ {0}
          BY <2>2, <3>2 DEF Follows, Segment
        <4>2. s.part # 1
          BY <4>1
        <4>3. s.pkt >= FirstAudio /\ Undamaged(s.pkt) => HoldsPart(t)
          BY <2>2, <3>2, <4>1 DEF LeftBy
        <4>4. HoldsPart(t) => /\ Len(partial) = s.part - 1 /\ partial[1].pkt = s.pkt
                              /\ headers = 0 => \A j \in DOMAIN partial : partial[j] = Bytes(s.pkt)[j]
          BY <4>1 DEF HoldsPart
        <4> QED
          BY <1>s, <4>2, <4>3, <4>4
      <3> QED
        BY <3>1, <3>2
    <2>3. CASE next > 1
      <3>1. next - 1 \in 1..(Len(pg.segs) - 1) /\ (next - 1) + 1 = next
            /\ next - 1 \in DOMAIN pg.segs
        BY <1>4, <1>5, <2>3
      <3>2. Follows(pg.segs[next - 1], s)
        BY <1>2, <1>7, <1>8, <3>1 DEF PageFollows, InOrder
      <3>3. LeftBy(pg.segs[next - 1])
        BY <1>1, <2>3 DEF LeftInPage
      <3>4. pg.segs[next - 1] \in Segment
        BY <1>4, <3>1
      <3> QED
        BY <2>2, <3>2, <3>3, <3>4
    <2>4. CASE next = 1 /\ rpos = 1
      <3>1. Opens(s)
        BY <1>2, <1>7, <1>8, <2>4 DEF PageFollows
      <3>2. partial = <<>> /\ s.part = 1
        BY <1>1, <2>4, <3>1 DEF LeftInPage, Opens
      <3> QED
        BY <2>1, <3>2
    <2>5. CASE next = 1 /\ rpos > 1
      <3>1. rpos - 1 \in DOMAIN sink /\ rpos # 1
        BY <1>3, <2>5
      <3>2. Follows(LastSegment(sink[rpos - 1]), s)
        BY <1>2, <1>7, <1>8, <2>5, <3>1 DEF PageFollows
      <3>3. LeftBy(LastSegment(sink[rpos - 1]))
        BY <1>1, <2>5 DEF LeftInPage
      <3>4. LastSegment(sink[rpos - 1]) \in Segment
        BY <3>1, PagesRead
      <3> QED
        BY <2>2, <3>2, <3>3, <3>4
    <2> QED
      BY <1>2, <1>3, <1>5, <2>3, <2>4, <2>5
  <1> QED
    BY <1>2, <1>3, <1>5, <1>8, <1>9

\* processPage's loop: a packet none of whose pages is missing is joined whole, and an
\* audio packet joined in a header's place is one newContainerReader will refuse.
LEMMA SurvivorsJoin ==
    ASSUME WriterInv, AtPage, Laced, Survivors, R!JoinSegment, UNCHANGED vars, fails = 0
    PROVE  Survivors'
  <1> DEFINE s == pg.segs[next]
             kept == IF R!TooLong(s) THEN R!CutSegment(s) ELSE s
             joined == Append(partial, kept)
  <1>v. accepted' = accepted /\ sink' = sink /\ TypeOK
    BY DEF vars, WriterInv, PageInv
  <1>1. /\ rpc = "segs" /\ next <= Len(pg.segs) /\ next' = next + 1
        /\ ~(R!TooLong(s) /\ headers = 0)
        /\ UNCHANGED <<rpos, rpc, pg, stage, delivered, gaps>>
        /\ EndsPacket(s) => /\ queue' = Append(queue, joined) /\ partial' = <<>>
                            /\ headers' = IF headers > 0 THEN headers - 1 ELSE headers
        /\ ~EndsPacket(s) => /\ partial' = joined /\ UNCHANGED <<queue, headers>>
    BY DEF R!JoinSegment, R!EndsPacket, EndsPacket
  <1>2. /\ s \in Segment /\ rpos \in DOMAIN sink /\ pg = sink[rpos] /\ rpos \in 1..rpos
        /\ next \in DOMAIN pg.segs /\ next \in Nat /\ next > 0
        /\ s.part = 1 => partial = <<>>
        /\ s.pkt >= FirstAudio /\ Undamaged(s.pkt) =>
             /\ Len(partial) = s.part - 1
             /\ Len(partial) > 0 => partial[1].pkt = s.pkt
             /\ headers = 0 => \A j \in 1..Len(partial) : partial[j] = Bytes(s.pkt)[j]
    BY <1>1, PartBefore
  <1>3. CutFrom(s)
    BY <1>2 DEF Laced
  <1> DEFINE L == Bytes(s.pkt)
  <1>4. /\ IsSeq(L) /\ s.part \in 1..Len(L) /\ s = L[s.part]
        /\ EndsPacket(s) <=> s.part = Len(L)
    BY <1>v, <1>2, <1>3, CutShape
  <1>5. kept.pkt = s.pkt /\ (headers = 0 => kept = s)
    BY <1>1, <1>2 DEF R!CutSegment, Segment
  <1>l. /\ IsSeq(partial) /\ IsSeq(queue) /\ IsSeq(delivered)
        /\ stage \in {"head", "tags", "audio"} /\ (stage # "audio" => delivered = <<>>)
    BY DEF Survivors, Listed
  <1>6. Served' = Served /\ Served \in Nat /\ Len(queue) \in Nat /\ DOMAIN queue = 1..Len(queue)
        /\ Joined = Served + Len(queue)
    <2>1. Len(delivered) \in Nat /\ Len(queue) \in Nat /\ DOMAIN queue = 1..Len(queue)
      BY <1>l, SeqFacts
    <2> QED
      BY <1>1, <2>1 DEF Served, Joined
  <1>7. /\ IsSeq(joined) /\ Len(joined) = Len(partial) + 1 /\ Len(partial) \in Nat
        /\ DOMAIN joined = 1..(Len(partial) + 1)
        /\ joined[Len(partial) + 1] = kept
        /\ \A i \in 1..Len(partial) : joined[i] = partial[i]
    BY <1>l, SeqFacts
  <1>r. s.pkt \in Nat \ {0} /\ s.part \in Nat \ {0} /\ Len(L) \in Nat
    BY <1>2, <1>4, SeqFacts DEF Segment
  <1>n. next' # 1 /\ next' > 1 /\ pg'.segs[next' - 1] = s
    BY <1>1, <1>2
  <1>k. kept \in {kept} /\ L \in {L} /\ joined \in {joined}
    OBVIOUS
  <1> HIDE DEF kept, joined
  <1>8. s.pkt >= FirstAudio /\ Undamaged(s.pkt) =>
            /\ Len(joined) = s.part /\ joined[1].pkt = s.pkt
            /\ headers = 0 => \A j \in 1..Len(joined) : joined[j] = L[j]
    <2> SUFFICES ASSUME s.pkt >= FirstAudio, Undamaged(s.pkt)
                 PROVE  /\ Len(joined) = s.part /\ joined[1].pkt = s.pkt
                        /\ headers = 0 => \A j \in 1..Len(joined) : joined[j] = L[j]
      OBVIOUS
    <2>1. Len(partial) = s.part - 1
      BY <1>2
    <2>2. Len(joined) = s.part
      BY <1>7, <1>r, <2>1
    <2>3. joined[1].pkt = s.pkt
      <3>1. CASE Len(partial) = 0
        BY <1>5, <1>7, <3>1
      <3>2. CASE Len(partial) > 0
        BY <1>2, <1>7, <3>2
      <3> QED
        BY <1>7, <3>1, <3>2
    <2>4. ASSUME headers = 0, NEW j \in 1..Len(joined) PROVE joined[j] = L[j]
      <3>1. CASE j \in 1..Len(partial)
        BY <1>2, <1>7, <2>4, <3>1
      <3>2. CASE j = Len(partial) + 1
        <4>1. j = s.part
          BY <1>r, <2>1, <3>2
        <4>2. joined[j] = s
          BY <1>5, <1>7, <2>4, <3>2
        <4> QED
          BY <1>4, <4>1, <4>2
      <3> QED
        BY <1>7, <2>4, <3>1, <3>2
    <2> QED
      BY <2>2, <2>3, <2>4
  <1>u. \A i : Undamaged(i)' <=> Undamaged(i)
    BY <1>1, <1>v DEF Undamaged
  <1>h. headers = IF Joined < 2 THEN 2 - Joined ELSE 0
    BY DEF Survivors
  <1>9. ASSUME NEW i \in FirstAudio..Len(accepted'), EndPassed(i)', Undamaged(i)', EndPassed(i)
        PROVE  Kept(i) \/ Doomed
    BY <1>9, <1>u, <1>v DEF Survivors
  <1>10. ASSUME NEW i, EndPassed(i)', ~EndPassed(i) PROVE EndsPacket(s) /\ i = s.pkt
    <2>1. PICK k \in 1..rpos : \E j \in DOMAIN sink[k].segs :
            /\ sink[k].segs[j].pkt = i /\ EndsPacket(sink[k].segs[j])
            /\ k < rpos \/ j < next + 1
      BY <1>1, <1>10, <1>v DEF EndPassed
    <2>2. PICK j \in DOMAIN sink[k].segs :
            /\ sink[k].segs[j].pkt = i /\ EndsPacket(sink[k].segs[j])
            /\ k < rpos \/ j < next + 1
      BY <2>1
    <2>3. ~(k < rpos) /\ ~(j < next)
      BY <1>10, <2>2 DEF EndPassed
    <2>4. k = rpos /\ k \in DOMAIN sink
      BY <2>3, PagesRead
    <2>5. j = next
      <3>1. j \in Nat
        BY <2>4, PagesRead
      <3> QED
        BY <1>2, <2>2, <2>3, <3>1
    <2> QED
      BY <1>2, <2>2, <2>4, <2>5
  <1>11. CASE EndsPacket(s)
    <2>1. partial' = <<>> /\ queue' = Append(queue, joined)
          /\ headers' = IF headers > 0 THEN headers - 1 ELSE headers
      BY <1>1, <1>11
    <2>2. /\ IsSeq(queue') /\ Len(queue') = Len(queue) + 1 /\ DOMAIN queue' = 1..(Len(queue) + 1)
          /\ queue'[Len(queue) + 1] = joined
          /\ \A k \in 1..Len(queue) : queue'[k] = queue[k]
      BY <1>l, <2>1, SeqFacts
    <2>3. Joined' = Joined + 1
      BY <1>6, <2>2 DEF Joined
    <2>4. headers' = IF Joined' < 2 THEN 2 - Joined' ELSE 0
      BY <1>6, <1>h, <2>1, <2>3
    <2>5. LeftInPage'
      <3>1. LeftBy(pg.segs[next - 1])'
        BY <1>n, <1>11, <2>1 DEF LeftBy
      <3> QED
        BY <1>1, <1>n, <2>1, <3>1 DEF Survivors, LeftInPage
    <2>6. ASSUME NEW i \in FirstAudio..Len(accepted'), EndPassed(i)', Undamaged(i)'
          PROVE  Kept(i)' \/ Doomed'
      <3>1. CASE EndPassed(i)
        <4>1. Kept(i) \/ Doomed
          BY <1>9, <2>6, <3>1
        <4>2. \A k \in DOMAIN queue : k \in DOMAIN queue' /\ queue'[k] = queue[k]
          BY <1>6, <2>2
        <4>3. Kept(i) => Kept(i)'
          BY <1>1, <1>v, <4>2 DEF Kept, Bytes
        <4>4. Doomed => Doomed'
          BY <1>6, <4>2 DEF Doomed
        <4> QED
          BY <4>1, <4>3, <4>4
      <3>2. CASE ~EndPassed(i)
        <4>1. i = s.pkt /\ s.pkt >= FirstAudio /\ Undamaged(s.pkt)
          BY <1>10, <1>u, <2>6, <3>2 DEF FirstAudio
        <4>2. Len(queue) + 1 \in DOMAIN queue'
          BY <1>6, <2>2
        <4>3. CASE headers = 0
          <5>1. joined = L
            BY <1>4, <1>7, <1>8, <1>11, <4>1, <4>3, SeqSame
          <5>2. Bytes(i)' = L
            BY <1>v, <4>1 DEF Bytes
          <5> QED
            BY <2>2, <4>2, <5>1, <5>2 DEF Kept
        <4>4. CASE headers # 0
          <5>1. Served' + (Len(queue) + 1) <= 2
            BY <1>6, <1>h, <4>4
          <5>2. queue'[Len(queue) + 1][1].pkt >= FirstAudio
            BY <1>8, <2>2, <4>1
          <5> QED
            BY <4>2, <5>1, <5>2 DEF Doomed
        <4> QED
          BY <4>3, <4>4
      <3> QED
        BY <3>1, <3>2
    <2>7. Listed'
      BY <1>1, <1>l, <2>1, <2>2, EmptyIsSeq DEF Listed
    <2> QED
      BY <1>1, <1>l, <2>4, <2>5, <2>6, <2>7 DEF Survivors
  <1>12. CASE ~EndsPacket(s)
    <2>1. partial' = joined /\ queue' = queue /\ headers' = headers
      BY <1>1, <1>12
    <2>2. LeftInPage'
      <3>1. PICK t : t = s
        OBVIOUS
      <3>2. LeftBy(t)'
        <4> SUFFICES ASSUME t.pkt >= FirstAudio, Undamaged(t.pkt)' PROVE HoldsPart(t)'
          BY <1>12, <3>1 DEF LeftBy
        <4>1. /\ Len(joined) = t.part /\ joined[1].pkt = t.pkt
              /\ headers = 0 => \A j \in 1..Len(joined) : joined[j] = Bytes(t.pkt)[j]
          BY <1>8, <1>u, <3>1
        <4> QED
          BY <1>7, <1>v, <2>1, <4>1 DEF HoldsPart, Bytes
      <3>3. LeftBy(pg.segs[next - 1])'
        BY <1>n, <3>1, <3>2 DEF LeftBy, HoldsPart, Undamaged
      <3> QED
        BY <1>1, <1>n, <3>3 DEF Survivors, LeftInPage
    <2>3. headers' = IF Joined' < 2 THEN 2 - Joined' ELSE 0
      BY <1>6, <1>h, <2>1 DEF Joined
    <2>4. ASSUME NEW i \in FirstAudio..Len(accepted'), EndPassed(i)', Undamaged(i)'
          PROVE  Kept(i)' \/ Doomed'
      <3>1. Kept(i) \/ Doomed
        BY <1>9, <1>10, <1>12, <2>4
      <3>2. Kept(i) => Kept(i)'
        BY <1>1, <1>v, <2>1 DEF Kept, Bytes
      <3>3. Doomed => Doomed'
        BY <1>6, <2>1 DEF Doomed
      <3> QED
        BY <3>1, <3>2, <3>3
    <2>5. Listed'
      BY <1>1, <1>7, <1>l, <2>1 DEF Listed
    <2> QED
      BY <1>1, <1>l, <2>2, <2>3, <2>4, <2>5 DEF Survivors
  <1> QED
    BY <1>11, <1>12

\* Whatever the source misses, what survives is kept.
LEMMA SurvivorsStep ==
    ASSUME WriterInv, AtPage, Laced, fails = 0, rpc \in {"want", "segs"} => Survivors,
           [StreamNext]_svars, rpc' \in {"want", "segs"}
    PROVE  Survivors'
  <1>1. CASE UNCHANGED readerVars
    <2>1. rpc \in {"want", "segs"}
      BY <1>1 DEF readerVars
    <2> QED
      BY <1>1, <2>1, SurvivorsWriter
  <1>2. CASE (R!ReaderStep \/ R!ReaderFault) /\ UNCHANGED vars
    <2>1. rpc \in {"want", "segs"}
      BY <1>2 DEF R!ReaderStep, R!ReaderFault, R!Serve, R!EndOfStream, R!ReadPage, R!JoinSegment,
         R!PacketTooLarge, R!EndPage, R!ReadFails, R!ReadForeign, R!LosePage, R!BeginPage,
         R!NeedsPage
    <2>2. ~R!EndOfStream /\ ~R!ReadFails /\ ~R!PacketTooLarge
      BY DEF R!EndOfStream, R!ReadFails, R!PacketTooLarge
    <2>3. ~R!ReadForeign
      BY ForeignRefused
    <2>4. CASE R!Serve
      BY <1>2, <2>1, <2>4, SurvivorsServe
    <2>5. CASE R!ReadPage
      BY <1>2, <2>1, <2>5, SurvivorsPage
    <2>6. CASE R!JoinSegment
      BY <1>2, <2>1, <2>6, SurvivorsJoin
    <2>7. CASE R!EndPage
      BY <1>2, <2>1, <2>7, SurvivorsEnd
    <2>8. CASE R!LosePage
      BY <1>2, <2>1, <2>8, SurvivorsLose
    <2> QED
      BY <1>2, <2>2, <2>3, <2>4, <2>5, <2>6, <2>7, <2>8 DEF R!ReaderStep, R!ReaderFault
  <1> QED
    BY <1>1, <1>2 DEF StreamNext, svars

\* At a page boundary with nothing left to serve, what was kept was served.
LEMMA SurvivorsServed ==
    ASSUME WriterInv, Survivors, rpc = "want", stage = "audio", queue = <<>>,
           NEW i \in FirstAudio..Len(accepted), Arrived(i)
    PROVE  \E d \in DOMAIN delivered : Content(delivered[d]) = <<i, accepted[i].len>>
  <1>1. EndPassed(i) /\ Undamaged(i)
    BY DEF Arrived, EndPassed
  <1>2. Kept(i) \/ Doomed
    BY <1>1 DEF Survivors
  <1>3. PICK d \in DOMAIN delivered : delivered[d] = Bytes(i)
    BY <1>2, EmptyIsSeq DEF Kept, Doomed
  <1>4. i \in DOMAIN accepted /\ TypeOK
    <2>1. TypeOK /\ DOMAIN accepted = 1..Len(accepted) /\ Len(accepted) \in Nat
      BY LenProperties DEF WriterInv, PageInv, TypeOK
    <2> QED
      BY <2>1 DEF FirstAudio
  <1>5. Bytes(i)[1].pkt = i
    BY <1>4, BytesFirst
  <1>6. Content(delivered[d]) = <<i, accepted[i].len>>
    BY <1>3, <1>4, <1>5 DEF Content, Whole
  <1> QED
    BY <1>6

-----------------------------------------------------------------------------
(* What is refused for its length.                                           *)

\* What was joined was accepted.
LEMMA JoinedAccepted ==
    ASSUME TypeOK, Reassembled
    PROVE  /\ Len(delivered) \in Nat /\ 2 + Len(delivered) <= Len(accepted)
           /\ rpc \in {"want", "segs"} => /\ Joined \in Nat /\ Joined <= Len(accepted)
                                          /\ Served \in Nat /\ Len(queue) \in Nat
                                          /\ Joined = Served + Len(queue)
           /\ Len(accepted) \in Nat /\ DOMAIN accepted = 1..Len(accepted)
  <1>1. InView /\ ServedInOrder
    BY Views DEF Reassembled
  <1>2. /\ Len(delivered) \in Nat /\ 2 + Len(delivered) <= Len(accepted)
        /\ Len(accepted) \in Nat /\ DOMAIN accepted = 1..Len(accepted)
    BY <1>1 DEF InView
  <1>3. ASSUME rpc \in {"want", "segs"}
        PROVE  /\ Joined \in Nat /\ Joined <= Len(accepted)
               /\ Served \in Nat /\ Len(queue) \in Nat
               /\ Joined = Served + Len(queue)
    <2>1. Buffers
      BY <1>3 DEF Reassembled
    <2>2. Len(queue) \in Nat /\ DOMAIN queue = 1..Len(queue)
      BY <2>1, SeqFacts DEF Buffers
    <2>3. Served \in Nat /\ Served <= 2 + Len(delivered)
      BY <1>2 DEF Served
    <2>4. Joined \in Nat /\ Joined = Served + Len(queue)
      BY <2>2, <2>3 DEF Joined
    <2>5. Joined <= Len(accepted)
      <3>1. CASE Len(queue) = 0
        BY <1>2, <2>3, <2>4, <3>1
      <3>2. CASE Len(queue) # 0 /\ Joined > 2
        <4>1. Len(queue) \in DOMAIN queue
          BY <2>2, <3>2
        <4>2. Served + Len(queue) \in DOMAIN accepted
          BY <2>1, <2>4, <3>2, <4>1 DEF Buffers
        <4> QED
          BY <1>2, <2>4, <4>2
      <3>3. CASE Joined <= 2
        BY <1>2, <2>4, <3>3
      <3> QED
        BY <2>4, <3>1, <3>2, <3>3
    <2> QED
      BY <2>2, <2>3, <2>4, <2>5
  <1> QED
    BY <1>2, <1>3

\* Counting segments that are full.
LEMMA Multiples ==
    ASSUME NEW m \in Nat, NEW a \in Nat, NEW b \in Nat, a + 1 <= b
    PROVE  a * m + m <= b * m
  <1>1. (a + 1) * m <= b * m
    OBVIOUS
  <1>2. (a + 1) * m = a * m + m
    OBVIOUS
  <1> QED
    BY <1>1, <1>2

\* The segment that goes over the limit is of a packet that does, and the one that ends a
\* packet within the limit is of one within it: processPage compares what is left of the
\* limit with each segment as it comes.
LEMMA LengthJudged ==
    ASSUME WriterInv, AtPage, Laced, Reassembled, fails = 0, rpc = "segs",
           next <= Len(pg.segs), headers = 0
    PROVE  LET s == pg.segs[next]
           IN  /\ s.pkt = Joined + 1 /\ s.pkt \in FirstAudio..Len(accepted)
               /\ R!TooLong(s) => accepted[s.pkt].len > AudioLimit
               /\ ~R!TooLong(s) /\ EndsPacket(s) => accepted[s.pkt].len <= AudioLimit
  <1>1. PICK s \in Segment : s = pg.segs[next]
    BY SegmentInTurn
  <1>2. /\ s.pkt = Joined + 1 /\ s.part = Len(partial) + 1
        /\ Joined \in Nat /\ Len(partial) \in Nat /\ rpos \in DOMAIN sink /\ pg = sink[rpos]
        /\ next \in DOMAIN pg.segs
    BY <1>1, SegmentInTurn
  <1>3. TypeOK /\ Buffers
    BY DEF WriterInv, PageInv, Reassembled
  <1>4. CutFrom(s)
    BY <1>1, <1>2 DEF Laced
  <1>5. /\ s.part \in 1..Len(Bytes(s.pkt)) /\ s = Bytes(s.pkt)[s.part]
        /\ EndsPacket(s) <=> s.part = Len(Bytes(s.pkt))
    BY <1>3, <1>4, CutShape
  <1>6. s.pkt \in DOMAIN accepted
    BY <1>4 DEF CutFrom
  <1>7. Joined >= 2
    BY <1>2, <1>3 DEF Buffers
  <1>8. s.pkt \in FirstAudio..Len(accepted)
    <2>1. DOMAIN accepted = 1..Len(accepted) /\ Len(accepted) \in Nat
      BY <1>3, LenProperties DEF TypeOK
    <2> QED
      BY <1>2, <1>6, <1>7, <2>1 DEF FirstAudio
  <1>9. PICK n \in Nat : n = accepted[s.pkt].len
    BY <1>3, <1>6, BytesFirst
  <1> DEFINE d == n \div MaxSegmentLen
             r == n % MaxSegmentLen
             k == Len(partial)
  <1>10. d \in Nat /\ r \in 0..(MaxSegmentLen - 1) /\ n = d * MaxSegmentLen + r
    BY DivMod, Quotient
  <1>11. Len(Bytes(s.pkt)) = d + 1 /\ Bytes(s.pkt) = Lacing(s.pkt, n)
    BY <1>3, <1>6, <1>9, BytesFirst DEF Bytes
  <1>12. k \in 0..d /\ (EndsPacket(s) <=> k = d)
    BY <1>2, <1>5, <1>10, <1>11
  <1>13. DOMAIN partial = 1..k /\ \A i \in 1..k : partial[i] = Lacing(s.pkt, n)[i]
    <2>1. DOMAIN partial = 1..k
      BY <1>3, SeqFacts DEF Buffers
    <2>2. \A i \in DOMAIN partial : partial[i] = Bytes(s.pkt)[i]
      BY <1>2, <1>3, <1>7 DEF Buffers
    <2> QED
      BY <1>11, <2>1, <2>2
  <1>14. R!ByteLen(partial) = k * MaxSegmentLen
    <2>1. k \in 0..(n \div MaxSegmentLen + 1) /\ k <= n \div MaxSegmentLen
      BY <1>10, <1>12
    <2>2. R!ByteLen(partial) = IF k <= n \div MaxSegmentLen THEN k * MaxSegmentLen ELSE n
      <3> HIDE DEF k, d, r
      <3>1. PICK p : p = partial
        OBVIOUS
      <3>2. PICK m \in 0..(n \div MaxSegmentLen + 1) : m = k
        BY <2>1
      <3>3. DOMAIN p = 1..m /\ \A i \in 1..m : p[i] = Lacing(s.pkt, n)[i]
        BY <1>13, <3>1, <3>2
      <3>4. R!ByteLen(p) = IF m <= n \div MaxSegmentLen THEN m * MaxSegmentLen ELSE n
        BY <3>3, JoinedLen
      <3> QED
        BY <3>1, <3>2, <3>4
    <2> QED
      BY <2>1, <2>2
  <1>15. s.len = IF k + 1 <= d THEN MaxSegmentLen ELSE r
    <2>1. s.part \in 1..(d + 1) /\ s.part = k + 1
      BY <1>2, <1>5, <1>11
    <2>2. Lacing(s.pkt, n)[s.part].len = IF s.part <= d THEN MaxSegmentLen ELSE r
      BY <2>1, Zenon DEF Lacing
    <2> QED
      BY <1>5, <1>11, <2>1, <2>2
  <1>16. MaxSegmentLen \in Nat /\ AudioLimit \in Nat
    BY PageAssumption, StreamAssumption
  <1> HIDE DEF d, r, k
  <1>17. R!TooLong(s) <=> k * MaxSegmentLen > AudioLimit - s.len
    BY <1>14 DEF R!TooLong, R!Limit
  <1>18. CASE k = d
    <2>1. s.len = r /\ k * MaxSegmentLen = d * MaxSegmentLen
      BY <1>10, <1>15, <1>18
    <2>2. k * MaxSegmentLen \in Nat /\ r \in Nat /\ n = k * MaxSegmentLen + r
      BY <1>10, <1>16, <2>1
    <2>3. R!TooLong(s) <=> n > AudioLimit
      BY <1>16, <1>17, <2>1, <2>2
    <2> QED
      BY <1>1, <1>2, <1>8, <1>9, <1>16, <2>3
  <1>19. CASE k # d
    <2>1. k \in Nat /\ k + 1 <= d /\ s.len = MaxSegmentLen /\ ~EndsPacket(s)
      BY <1>10, <1>12, <1>15, <1>19
    <2>2. k * MaxSegmentLen + MaxSegmentLen <= d * MaxSegmentLen
      BY <1>10, <1>16, <2>1, Multiples
    <2>3. k * MaxSegmentLen \in Nat /\ d * MaxSegmentLen \in Nat
      BY <1>10, <1>16, <2>1
    <2>4. R!TooLong(s) => n > AudioLimit
      BY <1>10, <1>16, <1>17, <2>1, <2>2, <2>3
    <2> QED
      BY <1>1, <1>2, <1>8, <1>9, <2>1, <2>4
  <1> QED
    BY <1>18, <1>19

\* A packet that is within the limit stays so.
LEMMA InLimitKept ==
    ASSUME TypeOK, [AnyNext]_vars, NEW n \in Nat, n <= Len(accepted), InLimit(n)
    PROVE  InLimit(n)'
  <1>1. DOMAIN accepted = 1..Len(accepted) /\ Len(accepted) \in Nat
    BY LenProperties DEF TypeOK
  <1>2. \A i \in FirstAudio..n : i \in DOMAIN accepted
    BY <1>1 DEF FirstAudio
  <1>3. \A i \in DOMAIN accepted : accepted'[i].len = accepted[i].len
    BY AcceptedKept
  <1> QED
    BY <1>2, <1>3 DEF InLimit

\* Nothing is joined at first.
LEMMA MeasuredInit == StreamInit => Measured
  <1> SUFFICES ASSUME StreamInit PROVE Measured
    OBVIOUS
  <1>1. rpc = "want" /\ stage = "head" /\ queue = <<>> /\ delivered = <<>>
    BY Zenon DEF StreamInit, R!RInit
  <1>2. Len(delivered) = 0 /\ Joined = 0
    BY <1>1, EmptyIsSeq DEF Served, Joined
  <1> QED
    BY <1>1, <1>2 DEF Measured, InLimit, FirstAudio

\* The writer's steps change neither what was joined nor what was accepted before.
LEMMA MeasuredWriter ==
    ASSUME TypeOK, Reassembled, Measured, [AnyNext]_vars, UNCHANGED readerVars
    PROVE  Measured'
  <1>u. rpc' = rpc /\ delivered' = delivered /\ stage' = stage /\ queue' = queue
    BY DEF readerVars
  <1>1. /\ Len(delivered) \in Nat /\ 2 + Len(delivered) <= Len(accepted)
        /\ rpc \in {"want", "segs"} => Joined \in Nat /\ Joined <= Len(accepted)
        /\ Len(accepted) \in Nat /\ DOMAIN accepted = 1..Len(accepted)
    BY JoinedAccepted
  <1>2. /\ Len(accepted') \in {Len(accepted), Len(accepted) + 1}
        /\ \A i \in DOMAIN accepted : i \in DOMAIN accepted' /\ accepted'[i].len = accepted[i].len
    BY AcceptedKept
  <1>3. \A n \in Nat : n <= Len(accepted) /\ InLimit(n) => InLimit(n)'
    BY InLimitKept
  <1>4. InLimit(2 + Len(delivered))'
    <2>1. PICK n \in Nat : n = 2 + Len(delivered)
      BY <1>1
    <2>2. InLimit(n)'
      BY <1>1, <1>3, <2>1 DEF Measured
    <2> QED
      BY <1>u, <2>1, <2>2 DEF InLimit
  <1>5. rpc \in {"want", "segs"} => InLimit(Joined)'
    <2> SUFFICES ASSUME rpc \in {"want", "segs"} PROVE InLimit(Joined)'
      OBVIOUS
    <2>1. PICK n \in Nat : n = Joined
      BY <1>1
    <2>2. InLimit(n)'
      BY <1>1, <1>3, <2>1 DEF Measured
    <2>3. Joined' = n
      BY <1>u, <2>1 DEF Joined, Served
    <2> QED
      BY <2>2, <2>3 DEF InLimit
  <1>6. (rpc = "toolarge" => \E i \in FirstAudio..Len(accepted) :
                                accepted[i].len > AudioLimit /\ InLimit(i - 1))'
    <2> SUFFICES ASSUME rpc = "toolarge"
                 PROVE  (\E i \in FirstAudio..Len(accepted) :
                            accepted[i].len > AudioLimit /\ InLimit(i - 1))'
      BY <1>u
    <2>1. PICK i \in FirstAudio..Len(accepted) : accepted[i].len > AudioLimit /\ InLimit(i - 1)
      BY DEF Measured
    <2>2. i \in DOMAIN accepted /\ i - 1 \in Nat /\ i - 1 <= Len(accepted)
          /\ i \in FirstAudio..Len(accepted')
      BY <1>1, <1>2 DEF FirstAudio
    <2>3. InLimit(i - 1)'
      BY <1>3, <2>1, <2>2
    <2>4. accepted'[i].len > AudioLimit
      BY <1>2, <2>1, <2>2
    <2> QED
      BY <2>2, <2>3, <2>4
  <1> QED
    BY <1>u, <1>4, <1>5, <1>6 DEF Measured

\* Each step of the reader on a source that misses nothing: a packet is served from the
\* queue, joined once it was found within the limit, or refused as the first that is not.
LEMMA MeasuredReader ==
    ASSUME WriterInv, AtPage, Laced, Reassembled, Measured, fails = 0,
           R!ReaderStep \/ R!ReadFails \/ R!ReadForeign, UNCHANGED vars
    PROVE  Measured'
  <1>v. accepted' = accepted /\ TypeOK
    BY DEF vars, WriterInv, PageInv
  <1>1. /\ Len(delivered) \in Nat /\ 2 + Len(delivered) <= Len(accepted)
        /\ rpc \in {"want", "segs"} => /\ Joined \in Nat /\ Joined <= Len(accepted)
                                       /\ Served \in Nat /\ Len(queue) \in Nat
                                       /\ Joined = Served + Len(queue)
        /\ Len(accepted) \in Nat /\ DOMAIN accepted = 1..Len(accepted)
    BY <1>v, JoinedAccepted
  <1>2. ASSUME delivered' = delivered, rpc' \notin {"want", "segs", "toolarge"}
        PROVE  Measured'
    BY <1>2, <1>v DEF Measured, InLimit
  <1>3. ASSUME delivered' = delivered, rpc' # "toolarge", Joined' = Joined, rpc \in {"want", "segs"}
        PROVE  Measured'
    BY <1>3, <1>v DEF Measured, InLimit
  <1>4. CASE R!Serve
    <2>1. /\ rpc = "want" /\ rpc' \in {"want", "badheader"} /\ queue # <<>> /\ queue' = Tail(queue)
          /\ delivered' \in {delivered, Append(delivered, Head(queue))}
      BY <1>4 DEF R!Serve
    <2>2. ServedInOrder /\ Buffers
      BY <2>1 DEF Reassembled
    <2>3. Len(queue) > 0 /\ Len(queue') = Len(queue) - 1
      BY <2>1, <2>2, SeqFacts DEF Buffers
    <2>4. stage = "audio" /\ delivered' # delivered =>
            Len(delivered') = Len(delivered) + 1 /\ Served = 2 + Len(delivered)
      BY <2>1, <2>2, SeqFacts DEF ServedInOrder, Served
    <2>5. delivered' # delivered => stage = "audio" /\ stage' = "audio" /\ rpc' = "want"
      BY <1>4 DEF R!Serve
    <2>6. 2 + Len(delivered') <= Joined \/ delivered' = delivered
      BY <1>1, <2>1, <2>3, <2>4, <2>5
    <2>7. rpc' = "want" => Joined' = Joined
      <3> SUFFICES ASSUME rpc' = "want" PROVE Joined' = Joined
        OBVIOUS
      <3>1. Served' = Served + 1
        <4>1. CASE stage = "head" /\ stage' = "tags"
          BY <4>1 DEF Served
        <4>2. CASE stage = "tags" /\ stage' = "audio" /\ delivered' = delivered
          <5>1. Len(delivered) = 0
            BY <2>2, <4>2, EmptyIsSeq DEF ServedInOrder
          <5> QED
            BY <4>2, <5>1 DEF Served
        <4>3. CASE stage = "audio" /\ stage' = "audio" /\ delivered' = Append(delivered, Head(queue))
          <5>1. Len(delivered') = Len(delivered) + 1
            BY <2>2, <4>3, SeqFacts DEF ServedInOrder
          <5> QED
            BY <1>1, <4>3, <5>1 DEF Served
        <4> QED
          BY <1>4, <4>1, <4>2, <4>3 DEF R!Serve
      <3> QED
        BY <1>1, <2>1, <2>3, <3>1 DEF Joined
    <2>8. Len(delivered') \in Nat
      BY <1>1, <2>4, <2>5
    <2>9. InLimit(2 + Len(delivered))'
      <3>1. PICK n \in Nat : n = 2 + Len(delivered')
        BY <2>8
      <3>2. \A i \in FirstAudio..n : accepted[i].len <= AudioLimit
        BY <1>1, <2>1, <2>6, <3>1 DEF Measured, InLimit, FirstAudio
      <3> QED
        BY <1>v, <3>1, <3>2 DEF InLimit
    <2>10. rpc' = "want" => InLimit(Joined)'
      BY <1>v, <2>1, <2>7 DEF Measured, InLimit
    <2> QED
      BY <2>1, <2>9, <2>10 DEF Measured
  <1>5. CASE R!EndOfStream \/ R!ReadFails
    BY <1>2, <1>5 DEF R!EndOfStream, R!ReadFails, R!readerState
  <1>6. CASE R!ReadForeign
    BY <1>2, <1>6, ForeignRefused
  <1>7. CASE R!ReadPage
    <2>1. /\ rpc = "want" /\ UNCHANGED <<stage, queue, delivered>>
          /\ rpc' \in {"segs", "foreign"}
      BY <1>7, ReadPageTo
    <2> QED
      BY <1>3, <2>1 DEF Joined, Served
  <1>8. CASE R!EndPage
    BY <1>3, <1>8 DEF R!EndPage, Joined, Served
  <1>9. CASE R!PacketTooLarge
    <2>1. /\ rpc = "segs" /\ next <= Len(pg.segs) /\ headers = 0 /\ R!TooLong(pg.segs[next])
          /\ rpc' = "toolarge" /\ delivered' = delivered
      BY <1>9 DEF R!PacketTooLarge
    <2>2. PICK i \in FirstAudio..Len(accepted) : i = Joined + 1 /\ accepted[i].len > AudioLimit
      BY <2>1, LengthJudged
    <2>3. InLimit(i - 1)
      BY <1>1, <2>1, <2>2 DEF Measured, InLimit
    <2>4. InLimit(i - 1)' /\ accepted'[i].len > AudioLimit /\ i \in FirstAudio..Len(accepted')
      BY <1>v, <2>2, <2>3 DEF InLimit
    <2>5. InLimit(2 + Len(delivered))'
      BY <1>v, <2>1 DEF Measured, InLimit
    <2> QED
      BY <2>1, <2>4, <2>5 DEF Measured
  <1>10. CASE R!JoinSegment
    <2>1. /\ rpc = "segs" /\ next <= Len(pg.segs) /\ rpc' = rpc /\ UNCHANGED <<stage, delivered>>
          /\ ~(R!TooLong(pg.segs[next]) /\ headers = 0)
      BY <1>10 DEF R!JoinSegment
    <2>2. CASE ~EndsPacket(pg.segs[next])
      <3>1. queue' = queue
        BY <1>10, <2>2 DEF R!JoinSegment, R!EndsPacket, EndsPacket
      <3> QED
        BY <1>3, <2>1, <3>1 DEF Joined, Served
    <2>3. CASE EndsPacket(pg.segs[next])
      <3>1. PICK e : queue' = Append(queue, e)
        BY <1>10, <2>3 DEF R!JoinSegment, R!EndsPacket, EndsPacket
      <3>2. Buffers
        BY <2>1 DEF Reassembled
      <3>3. Len(queue') = Len(queue) + 1
        BY <3>1, <3>2, SeqFacts DEF Buffers
      <3>4. Joined' = Joined + 1 /\ Joined \in Nat
        <4>1. Served' = Served
          BY <2>1 DEF Served
        <4>2. Joined' = Served' + Len(queue')
          BY DEF Joined
        <4>3. Joined = Served + Len(queue) /\ Served \in Nat /\ Len(queue) \in Nat
          BY <1>1, <2>1
        <4> QED
          BY <3>3, <4>1, <4>2, <4>3
      <3>5. Joined + 1 >= FirstAudio => accepted[Joined + 1].len <= AudioLimit
        <4> SUFFICES ASSUME Joined + 1 >= FirstAudio PROVE accepted[Joined + 1].len <= AudioLimit
          OBVIOUS
        <4>1. headers = 0
          BY <3>2, <3>4 DEF Buffers, FirstAudio
        <4>2. LET s == pg.segs[next]
              IN  s.pkt = Joined + 1 /\ accepted[s.pkt].len <= AudioLimit
          BY <2>1, <2>3, <4>1, LengthJudged
        <4> QED
          BY <4>2
      <3>6. InLimit(Joined)'
        <4>1. PICK n \in Nat : n = Joined
          BY <3>4
        <4>2. \A i \in FirstAudio..n : accepted[i].len <= AudioLimit
          BY <2>1, <4>1 DEF Measured, InLimit
        <4>3. \A i \in FirstAudio..(n + 1) : accepted[i].len <= AudioLimit
          BY <3>5, <4>1, <4>2 DEF FirstAudio
        <4>4. Joined' = n + 1
          BY <3>4, <4>1
        <4> QED
          BY <1>v, <4>3, <4>4 DEF InLimit
      <3>7. InLimit(2 + Len(delivered))'
        BY <1>v, <2>1 DEF Measured, InLimit
      <3> QED
        BY <2>1, <3>6, <3>7 DEF Measured
    <2> QED
      BY <2>2, <2>3
  <1> QED
    BY <1>4, <1>5, <1>6, <1>7, <1>8, <1>9, <1>10 DEF R!ReaderStep

\* Every step of the writer, of the reader and of the source keeps both parts.
LEMMA SurvivalStep == SurvivalInv /\ [StreamNext]_svars => SurvivalInv'
  <1> SUFFICES ASSUME SurvivalInv, [StreamNext]_svars PROVE SurvivalInv'
    OBVIOUS
  <1>1. StreamInv /\ StreamInv' /\ WriterInv /\ AtPage /\ [AnyNext]_vars
    BY StreamStep, StreamDrivesWriter DEF SurvivalInv, StreamInv
  <1>2. fails' = 0 => fails = 0
    BY <1>1, FailsBefore
  <1>3. fails' = 0 /\ rpc' \in {"want", "segs"} => Survivors'
    <2> SUFFICES ASSUME fails' = 0, rpc' \in {"want", "segs"} PROVE Survivors'
      OBVIOUS
    <2>1. fails = 0 /\ Laced /\ (rpc \in {"want", "segs"} => Survivors)
      BY <1>1, <1>2 DEF SurvivalInv, StreamInv
    <2> QED
      BY <1>1, <2>1, SurvivorsStep
  <1>4. ASSUME fails' = 0, gaps' = {} PROVE Measured'
    <2>1. CASE UNCHANGED readerVars
      <3>1. Reassembled /\ Measured /\ TypeOK
        BY <1>1, <1>2, <1>4, <2>1 DEF readerVars, SurvivalInv, StreamInv, WriterInv, PageInv
      <3> QED
        BY <1>1, <2>1, <3>1, MeasuredWriter
    <2>2. CASE (R!ReaderStep \/ R!ReaderFault) /\ UNCHANGED vars
      <3>1. fails = 0 /\ Laced
        BY <1>1, <1>2, <1>4 DEF StreamInv
      <3>3. gaps = {} /\ ~R!LosePage
        BY <1>4, <2>2, GapsBefore
      <3>4. Reassembled /\ Measured
        BY <1>1, <3>1, <3>3 DEF SurvivalInv, StreamInv
      <3>5. R!ReaderStep \/ R!ReadFails \/ R!ReadForeign
        BY <2>2, <3>3 DEF R!ReaderFault
      <3> QED
        BY <1>1, <2>2, <3>1, <3>4, <3>5, MeasuredReader
    <2> QED
      BY <2>1, <2>2 DEF StreamNext, svars
  <1> QED
    BY <1>1, <1>3, <1>4 DEF SurvivalInv

\* Every state of a stream satisfies the stronger invariant too, whatever pages were lost.
THEOREM SurvivalInvariant == StreamSpec => []SurvivalInv
  <1>1. StreamInit => SurvivalInv
    BY StreamWriter, AtPageInit, LacedInit, ReassembledInit, SurvivorsInit, MeasuredInit
       DEF StreamInv, SurvivalInv
  <1> QED
    BY <1>1, SurvivalStep, PTL DEF StreamSpec

\* A packet delivered from a source that missed nothing is as long as the writer's.
LEMMA DeliveredLen ==
    ASSUME WriterInv, ServedInOrder, NEW d \in DOMAIN delivered
    PROVE  /\ d + 2 \in FirstAudio..(2 + Len(delivered))
           /\ R!ByteLen(delivered[d]) = accepted[d + 2].len
  <1>1. TypeOK
    BY DEF WriterInv, PageInv
  <1>2. d + 2 \in DOMAIN accepted /\ delivered[d] = Bytes(d + 2)
    BY DEF ServedInOrder
  <1>3. Len(delivered) \in Nat /\ d \in 1..Len(delivered)
    BY SeqFacts DEF ServedInOrder
  <1>4. PICK i : i = d + 2
    OBVIOUS
  <1>5. /\ accepted[i].len \in Nat /\ IsSeq(Bytes(i))
        /\ Len(Bytes(i)) = accepted[i].len \div MaxSegmentLen + 1
    BY <1>1, <1>2, <1>4, BytesFirst
  <1>a. PICK n \in Nat : n = accepted[i].len
    BY <1>5
  <1>b. PICK p : p = Bytes(i)
    OBVIOUS
  <1>6. n = accepted[i].len /\ p = Bytes(i)
    BY <1>a, <1>b
  <1>7. PICK k \in Nat : k = n \div MaxSegmentLen + 1 /\ DOMAIN p = 1..k
    BY <1>5, <1>6, SeqFacts
  <1>8. k = n \div MaxSegmentLen + 1 /\ n \div MaxSegmentLen \in Nat
    BY <1>7, DivMod
  <1>9. \A j \in 1..k : p[j] = Lacing(i, n)[j]
    BY <1>6 DEF Bytes
  <1>10. R!ByteLen(p) = n
    <2>1. k \in 0..(n \div MaxSegmentLen + 1) /\ ~(k <= n \div MaxSegmentLen)
      BY <1>8
    <2>2. R!ByteLen(p) = IF k <= n \div MaxSegmentLen THEN k * MaxSegmentLen ELSE n
      <3>1. DOMAIN p = 1..k
        BY <1>7
      <3> QED
        BY <1>9, <2>1, <3>1, JoinedLen
    <2> QED
      BY <2>1, <2>2
  <1> QED
    BY <1>2, <1>3, <1>4, <1>6, <1>10 DEF FirstAudio

\* What the invariant says of a packet that arrived, and of one that was refused.
LEMMA InvSurvive == SurvivalInv => WholePacketsSurvive
  <1> SUFFICES ASSUME SurvivalInv PROVE WholePacketsSurvive
    OBVIOUS
  <1>1. WriterInv
    BY DEF SurvivalInv, StreamInv
  <1>2. Survives
    <2> SUFFICES ASSUME fails = 0, stage = "audio", rpc = "want", queue = <<>>,
                        NEW i \in FirstAudio..Len(accepted), Arrived(i)
                 PROVE  \E d \in DOMAIN delivered : Content(delivered[d]) = <<i, accepted[i].len>>
      BY DEF Survives
    <2>1. Survivors
      BY DEF SurvivalInv
    <2> QED
      BY <1>1, <2>1, SurvivorsServed
  <1>3. RefusedByLength
    <2> SUFFICES ASSUME fails = 0, gaps = {}
                 PROVE  /\ rpc = "toolarge" =>
                             \E i \in FirstAudio..Len(accepted) :
                                 /\ accepted[i].len > AudioLimit
                                 /\ \A j \in FirstAudio..(i - 1) : accepted[j].len <= AudioLimit
                        /\ \A d \in DOMAIN delivered : R!ByteLen(delivered[d]) <= AudioLimit
      BY DEF RefusedByLength
    <2>1. Measured /\ Reassembled
      BY DEF SurvivalInv, StreamInv
    <2>2. ASSUME NEW d \in DOMAIN delivered PROVE R!ByteLen(delivered[d]) <= AudioLimit
      <3>1. ServedInOrder
        BY <2>1 DEF Reassembled
      <3>2. d + 2 \in FirstAudio..(2 + Len(delivered))
            /\ R!ByteLen(delivered[d]) = accepted[d + 2].len
        BY <1>1, <2>2, <3>1, DeliveredLen
      <3> QED
        BY <2>1, <3>2 DEF Measured, InLimit
    <2> QED
      BY <2>1, <2>2 DEF Measured, InLimit
  <1> QED
    BY <1>2, <1>3 DEF WholePacketsSurvive

\* A missing page damages only the packets that had a part on it (WholePacketsSurvive):
\* whatever pages the source missed and however writer and reader interleave, a packet
\* with no part on them is delivered whole, which is what processPage's treatment of a
\* partial packet that is not continued, and of a continuation of none, is for; and
\* where none is missing the first packet over the limit is the one refused, before
\* any of it is delivered (the test of the packet's length ahead of the append).
THEOREM PacketsSurvive == StreamSpec => []WholePacketsSurvive
  BY SurvivalInvariant, InvSurvive, PTL

=============================================================================
