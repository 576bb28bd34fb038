--------------------------- MODULE OggWriterProofs ---------------------------
(* Theorems about OggWriter, for every page geometry and every input.        *)
EXTENDS OggWriter, SequenceTheorems, TLAPS

\* The steps of a writer whose caller may hand it any packet, may close with any
\* count and may drop it at any point: those of Next, of the Encoder and of a
\* process that goes away.
Leave == pc' = "dropped" /\ UNCHANGED <<swVars, cwVars, call, sink, fails, accepted, closing>>

AnyNext == \/ Step \/ Leave
           \/ \E n \in Nat, d \in Nat : WritePacket(n, d)
           \/ \E n \in Nat : Close(n)

\* The calls OggWriter is checked with are among them.
LEMMA NextIsAny == [Next]_vars => [AnyNext]_vars
  <1>1. Dropped => Leave
    BY DEF Dropped, Leave, vars, swVars, cwVars
  <1>2. ASSUME NEW n \in PacketLens, NEW d \in Durations, WritePacket(n, d) PROVE AnyNext
    BY <1>2, WriterAssumption DEF AnyNext
  <1>3. ASSUME NEW n \in SourceLens, Close(n) PROVE AnyNext
    BY <1>3, WriterAssumption DEF AnyNext
  <1>4. Step => AnyNext
    BY DEF AnyNext
  <1> QED
    BY <1>1, <1>2, <1>3, <1>4 DEF Next, AnyNext

\* How many full segments a packet length has, and what is left (lacing).
LEMMA DivMod ==
    ASSUME NEW n \in Nat
    PROVE  n \div MaxSegmentLen \in Nat /\ n % MaxSegmentLen \in 0..(MaxSegmentLen - 1)
  BY PageAssumption, SMT

\* What lacing returns (page.go): segments of its packet, in order, of which the
\* last, and only the last, is shorter than the maximum.
LEMMA LacingShape ==
    ASSUME NEW p \in Nat \ {0}, NEW n \in Nat
    PROVE  /\ Lacing(p, n) \in Seq(Segment)
           /\ Len(Lacing(p, n)) = n \div MaxSegmentLen + 1
           /\ \A i \in 1..Len(Lacing(p, n)) :
                /\ Lacing(p, n)[i].pkt = p
                /\ Lacing(p, n)[i].part = i
                /\ EndsPacket(Lacing(p, n)[i]) <=> i = Len(Lacing(p, n))
  <1> DEFINE d == n \div MaxSegmentLen
             r == n % MaxSegmentLen
             L == Lacing(p, n)
  <1>1. d \in Nat /\ r \in 0..(MaxSegmentLen - 1)
    BY DivMod
  <1>2. MaxSegmentLen \in Nat \ {0}
    BY PageAssumption
  <1>3. L = [i \in 1..(d + 1) |->
              [pkt |-> p, part |-> i, len |-> IF i <= d THEN MaxSegmentLen ELSE r]]
    BY DEF Lacing
  <1> HIDE DEF d, r, L
  <1>4. \A i \in 1..(d + 1) : L[i] \in Segment
    BY <1>1, <1>2, <1>3 DEF Segment
  <1>5. L \in Seq(Segment) /\ Len(L) = d + 1
    <2>1. L \in [1..(d + 1) -> Segment]
      BY <1>3, <1>4
    <2>2. d + 1 \in Nat
      BY <1>1
    <2> QED
      BY <2>1, <2>2
  <1>6. ASSUME NEW i \in 1..(d + 1)
        PROVE  /\ L[i].pkt = p /\ L[i].part = i
               /\ EndsPacket(L[i]) <=> i = d + 1
    <2>1. L[i].len = IF i <= d THEN MaxSegmentLen ELSE r
      BY <1>3
    <2>2. EndsPacket(L[i]) <=> i = d + 1
      BY <2>1, <1>1, <1>2 DEF EndsPacket
    <2> QED
      BY <2>2, <1>3
  <1> QED
    BY <1>5, <1>6 DEF L, d

-----------------------------------------------------------------------------
\* A call of writePacket carries the packet, granule and flags it is given.
LEMMA FrameType ==
    ASSUME NEW op \in {"head", "tags", "write", "close"},
           NEW p, p.pkt \in Nat \ {0}, p.len \in Nat,
           NEW g \in Nat, NEW force \in BOOLEAN, NEW new \in Packet \cup {NoPacket}
    PROVE  Frame(op, p, g, force, new) \in Frames
  BY DEF Frame, Frames

\* The segments writePacket places: those of its packet, numbered from 1.
LEMMA CallSegments ==
    ASSUME TypeOK
    PROVE  /\ Segs \in Seq(Segment) /\ Len(Segs) \in Nat \ {0}
           /\ \A i \in 1..Len(Segs) :
                /\ Segs[i] \in Segment /\ Segs[i].pkt = call.pkt /\ Segs[i].part = i
                /\ EndsPacket(Segs[i]) <=> i = Len(Segs)
  <1>1. PICK p \in Nat \ {0}, n \in Nat : p = call.pkt /\ n = call.len
    BY DEF TypeOK, Frames
  <1> DEFINE L == Lacing(p, n)
  <1>2. Segs = L
    BY <1>1 DEF Segs
  <1>3. /\ L \in Seq(Segment) /\ Len(L) = n \div MaxSegmentLen + 1
        /\ \A i \in 1..Len(L) :
                /\ L[i].pkt = p
                /\ L[i].part = i
                /\ EndsPacket(L[i]) <=> i = Len(L)
    BY LacingShape
  <1>4. n \div MaxSegmentLen \in Nat
    BY DivMod
  <1> HIDE DEF L
  <1>5. Len(L) \in Nat \ {0}
    BY <1>3, <1>4
  <1>6. \A i \in 1..Len(L) : L[i] \in Segment
    BY <1>3, ElementOfSeq
  <1> QED
    BY <1>1, <1>2, <1>3, <1>5, <1>6

\* A packet is never the absence of one.
LEMMA PacketFields ==
    ASSUME NEW p \in Packet \cup {NoPacket}, p # NoPacket
    PROVE  p \in Packet /\ p.pkt \in Nat \ {0} /\ p.len \in Nat /\ p.dur \in Nat
  BY DEF Packet

\* A packet handed to containerWriter.writePacket is a packet, never the absence
\* of one.
LEMMA NewPacket ==
    ASSUME NEW i \in Nat \ {0}, NEW n \in Nat, NEW d \in Nat
    PROVE  /\ [pkt |-> i, len |-> n, dur |-> d] \in Packet
           /\ [pkt |-> i, len |-> n, dur |-> d] # NoPacket
  BY DEF Packet, NoPacket

-----------------------------------------------------------------------------
\* A commit, wherever streamWriter does it, leaves the writer well typed and one
\* page more on the sink.
LEMMA CommitType ==
    ASSUME PageInv, NEW e \in BOOLEAN, Commit(e), havePage
    PROVE  /\ seq' \in Nat /\ gran' \in Int
           /\ seg' \in Seq(Segment) /\ Len(seg') <= MaxPageSegments
           /\ isCont' \in BOOLEAN /\ havePage' \in BOOLEAN
           /\ sink' \in Seq(Page)
  <1>0. TypeOK
    BY DEF PageInv
  <1>1. PendingPage(e) \in Page
    BY <1>0, WriterAssumption DEF PendingPage, Page, TypeOK
  <1>2. sink' \in Seq(Page)
    BY <1>0, <1>1 DEF Commit, TypeOK
  <1>3. seg' \in Seq(Segment) /\ Len(seg') <= MaxPageSegments
    BY PageAssumption DEF Commit
  <1>4. seq' \in Nat /\ gran' \in Int
    BY <1>0 DEF Commit, TypeOK, GranuleNone
  <1>5. isCont' \in BOOLEAN /\ havePage' \in BOOLEAN
    BY Zenon DEF Commit
  <1> QED
    BY <1>2, <1>3, <1>4, <1>5

\* newStreamWriter and the OpusHead call start well typed.
LEMMA TypeInit == Init => TypeOK
  <1> SUFFICES ASSUME Init PROVE TypeOK
    OBVIOUS
  <1>1. PICK n \in TagLens :
            /\ accepted = <<[len |-> OpusHeadLen, end |-> 0], [len |-> n, end |-> 0]>>
            /\ call = Frame("head", [pkt |-> 1, len |-> OpusHeadLen], 0, TRUE,
                            [pkt |-> 2, len |-> n, dur |-> 0])
    BY Zenon DEF Init
  <1>2. OpusHeadLen \in Nat /\ n \in Nat
    BY PageAssumption, WriterAssumption DEF OpusHeadLen
  <1>3. [pkt |-> 2, len |-> n, dur |-> 0] \in Packet \cup {NoPacket}
    BY <1>2, NewPacket
  <1> DEFINE p == [pkt |-> 1, len |-> OpusHeadLen]
  <1>p. p.pkt \in Nat \ {0} /\ p.len \in Nat
    BY <1>2
  <1>q. call = Frame("head", p, 0, TRUE, [pkt |-> 2, len |-> n, dur |-> 0])
    BY <1>1
  <1> HIDE DEF p
  <1>4. call \in Frames
    BY <1>p, <1>q, <1>3, FrameType
  <1>5. call.op = "head" /\ call.new # NoPacket
    BY <1>1, <1>2, NewPacket DEF Frame
  <1>6. accepted \in Seq(Accepted) /\ Len(accepted) = 2
    BY <1>1, <1>2 DEF Accepted
  <1>7. seg \in Seq(Segment) /\ Len(seg) <= MaxPageSegments /\ sink \in Seq(Page)
    BY PageAssumption DEF Init
  <1>8. /\ isCont \in BOOLEAN /\ havePage \in BOOLEAN /\ audioStarted \in BOOLEAN
        /\ swClosed \in BOOLEAN /\ closing \in BOOLEAN
    BY Zenon DEF Init
  <1>9. seq \in Nat /\ gran \in Int /\ granule \in Nat /\ held = NoPacket
        /\ audioCount \in Nat /\ pc = "enter" /\ fails \in Nat
    <2>1. /\ seq = 0 /\ gran = GranuleNone /\ granule = 0 /\ held = NoPacket
          /\ audioCount = 0 /\ pc = "enter" /\ fails = 0
      BY Zenon DEF Init
    <2> QED
      BY <2>1 DEF GranuleNone
  <1> QED
    BY <1>4, <1>5, <1>6, <1>7, <1>8, <1>9 DEF TypeOK

\* Holding back a packet (containerWriter.writePacket) keeps the types.
LEMMA HoldType ==
    ASSUME TypeOK, NEW p \in Packet, Hold(p)
    PROVE  /\ held' \in Packet \cup {NoPacket} /\ audioCount' \in Nat
           /\ accepted' \in Seq(Accepted) /\ Len(accepted') >= 2
  <1>0. \A i \in 1..Len(accepted) : accepted[i] \in Accepted
    BY ElementOfSeq DEF TypeOK
  <1>1. LastEnd \in Nat
    <2>1. Len(accepted) \in 1..Len(accepted)
      BY DEF TypeOK
    <2>2. accepted[Len(accepted)] \in Accepted
      BY <1>0, <2>1
    <2> QED
      BY <2>2 DEF LastEnd, Accepted
  <1>2. [len |-> p.len, end |-> LastEnd + p.dur] \in Accepted
    BY <1>1 DEF Packet, Accepted
  <1> QED
    BY <1>2 DEF TypeOK, Hold

\* An interval from one is as long as its end says.
LEMMA SameInterval ==
    ASSUME NEW a \in Nat, NEW b \in Nat, 1..a = 1..b
    PROVE  a = b
  OBVIOUS

LEMMA BelowLast ==
    ASSUME NEW n \in Nat
    PROVE  \A p \in 1..(n - 1) : p \in 1..n /\ p # n
  OBVIOUS

\* Every step of the writer keeps the types and the segment table within a page.
LEMMA TypeStep == PageInv /\ [AnyNext]_vars => TypeOK'
  <1> SUFFICES ASSUME PageInv, [AnyNext]_vars PROVE TypeOK'
    OBVIOUS
  <1>0. TypeOK /\ PendingOK
    BY DEF PageInv
  <1> USE DEF swVars, cwVars
  <1>1. CASE CommitForced
    <2>1. havePage
      BY <1>1 DEF CommitForced, AtForced
    <2> QED
      BY <1>0, <1>1, <2>1, CommitType DEF CommitForced, TypeOK
  <1>2. CASE CommitFull
    <2>1. havePage
      BY <1>2 DEF CommitFull, AtFull, PageFull
    <2> QED
      BY <1>0, <1>2, <2>1, CommitType DEF CommitFull, TypeOK
  <1>3. CASE CommitLast
    <2>1. havePage
      BY <1>3 DEF CommitLast, AtLast
    <2> QED
      BY <1>0, <1>3, <2>1, CommitType DEF CommitLast, TypeOK
  <1>4. CASE CommitFails
    BY <1>0, <1>4 DEF CommitFails, TypeOK
  <1>5. CASE Enter
    BY <1>0, <1>5 DEF Enter, TypeOK
  <1>6. CASE PlaceSegment
    <2>1. Segs[call.next] \in Segment
      BY <1>0, <1>6, CallSegments DEF PlaceSegment, TypeOK, Frames
    <2>2. seg' \in Seq(Segment) /\ Len(seg') <= MaxPageSegments
      <3>1. seg \in Seq(Segment) /\ Len(seg) <= MaxPageSegments /\ seg' = Append(seg, Segs[call.next])
        BY <1>0, <1>6 DEF PlaceSegment, TypeOK
      <3>2. seg' \in Seq(Segment) /\ Len(seg') = Len(seg) + 1 /\ Len(seg) \in Nat
        BY <2>1, <3>1, AppendProperties, LenProperties
      <3>3. Len(seg) # MaxPageSegments
        <4>1. CASE havePage
          BY <1>6, <4>1 DEF PlaceSegment, PageFull
        <4>2. CASE ~havePage
          BY <1>0, <4>2, PageAssumption, EmptySeq DEF PendingOK
        <4> QED
          BY <4>1, <4>2
      <3> QED
        BY <3>1, <3>2, <3>3, PageAssumption
    <2>3. gran' \in Int
      BY <1>0, <1>6 DEF PlaceSegment, TypeOK, Frames
    <2>4. call' \in Frames /\ (call'.op \in {"head", "write"} => call'.new # NoPacket)
      <3>1. call \in Frames /\ call' = [call EXCEPT !.next = call.next + 1]
        BY <1>0, <1>6 DEF PlaceSegment, TypeOK
      <3>2. call' \in Frames
        BY <3>1 DEF Frames
      <3>3. call'.op = call.op /\ call'.new = call.new
        BY <3>1 DEF Frames
      <3> QED
        BY <1>0, <3>2, <3>3 DEF TypeOK
    <2> QED
      BY <1>0, <1>6, <2>2, <2>3, <2>4 DEF PlaceSegment, TypeOK
  <1>7. CASE ReturnHead
    <2>1. call.new \in Packet
      BY <1>0, <1>7 DEF ReturnHead, Returns, TypeOK, Frames
    <2>2. call' \in Frames
      BY <1>7, <2>1, PacketFields, FrameType DEF ReturnHead, Packet
    <2>3. call'.op = "tags"
      BY <1>7 DEF ReturnHead, Frame
    <2> QED
      BY <1>0, <1>7, <2>2, <2>3 DEF ReturnHead, TypeOK
  <1>8. CASE ReturnTags
    BY <1>0, <1>8 DEF ReturnTags, TypeOK
  <1>9. CASE ReturnWrite
    <2>1. call.new \in Packet
      BY <1>0, <1>9 DEF ReturnWrite, Returns, TypeOK, Frames
    <2> QED
      BY <1>0, <1>9, <2>1, HoldType DEF ReturnWrite, TypeOK
  <1>10. CASE ReturnClose
    BY <1>0, <1>10 DEF ReturnClose, TypeOK
  <1>11. CASE Leave
    BY <1>0, <1>11 DEF Leave, TypeOK
  <1>12. ASSUME NEW n \in Nat, NEW d \in Nat, WritePacket(n, d)
         PROVE  TypeOK'
    <2> DEFINE new == [pkt |-> Len(accepted) + 1, len |-> n, dur |-> d]
    <2>1. new \in Packet /\ new # NoPacket
      BY <1>0, WriterAssumption, NewPacket DEF TypeOK
    <2>2. CASE held # NoPacket
      <3>1. held \in Packet
        BY <1>0, <2>2 DEF TypeOK
      <3>2. granule' \in Nat
        BY <1>0, <1>12, <2>2, <3>1 DEF WritePacket, FlushedGranule, TypeOK, Packet
      <3>3. ForceNewPage \in BOOLEAN
        BY <1>0 DEF ForceNewPage, TypeOK
      <3>4. call' = Frame("write", held, granule', ForceNewPage, new)
        BY <1>12, <2>2 DEF WritePacket, PlaceAudio
      <3>5. call' \in Frames
        BY <2>1, <3>1, <3>2, <3>3, <3>4, FrameType DEF Packet
      <3>6. call'.new # NoPacket
        BY <2>1, <3>4 DEF Frame
      <3> QED
        BY <1>0, <1>12, <2>2, <3>2, <3>5, <3>6 DEF WritePacket, PlaceAudio, TypeOK
    <2>3. CASE held = NoPacket
      BY <1>0, <1>12, <2>1, <2>3, HoldType DEF WritePacket, TypeOK
    <2> QED
      BY <2>2, <2>3
  <1>13. ASSUME NEW n \in Nat, Close(n)
         PROVE  TypeOK'
    <2>1. PreSkip + n \in Nat
      BY WriterAssumption
    <2>2. CASE held # NoPacket
      <3>1. held \in Packet
        BY <1>0, <2>2 DEF TypeOK
      <3>2. Larger(PreSkip + n, granule) \in Nat
        BY <1>0, <2>1 DEF TypeOK, Larger
      <3>3. ForceNewPage \in BOOLEAN
        BY <1>0 DEF ForceNewPage, TypeOK
      <3>4. call' = Frame("close", held, Larger(PreSkip + n, granule), ForceNewPage,
                          NoPacket)
        BY <1>13, <2>2 DEF Close, PlaceAudio
      <3>5. call' \in Frames /\ call'.op = "close"
        BY <3>1, <3>2, <3>3, <3>4, FrameType DEF Packet, Frame
      <3>6. Larger(PreSkip + n, accepted[Len(accepted) - 1].end) \in Nat
        <4>1. /\ Len(accepted) - 1 \in 1..Len(accepted)
              /\ accepted \in Seq(Accepted)
          BY <1>0 DEF TypeOK
        <4>2. accepted[Len(accepted) - 1] \in Accepted
          BY <4>1, ElementOfSeq
        <4> QED
          BY <2>1, <4>2 DEF Larger, Accepted
      <3>7. accepted' \in Seq(Accepted) /\ Len(accepted') >= 2
        <4> DEFINE e == Larger(PreSkip + n, accepted[Len(accepted) - 1].end)
                   last == [accepted[Len(accepted)] EXCEPT !.end = e]
        <4>1. accepted' = [accepted EXCEPT ![Len(accepted)] = last]
          BY <1>13, <2>2 DEF Close
        <4>2. /\ Len(accepted) \in 1..Len(accepted) /\ Len(accepted) >= 2
              /\ accepted \in Seq(Accepted)
          BY <1>0 DEF TypeOK
        <4>3. accepted[Len(accepted)] \in Accepted
          BY <4>2, ElementOfSeq
        <4>4. last \in Accepted
          BY <3>6, <4>3 DEF Accepted
        <4> HIDE DEF last
        <4> QED
          BY <4>1, <4>2, <4>4, ExceptSeq
      <3> QED
        BY <1>0, <1>13, <2>2, <3>5, <3>7 DEF Close, PlaceAudio, TypeOK
    <2>3. CASE held = NoPacket
      BY <1>0, <1>13, <2>3 DEF Close, TypeOK
    <2> QED
      BY <2>2, <2>3
  <1>14. CASE UNCHANGED vars
    BY <1>0, <1>14 DEF vars, TypeOK
  <1> QED
    BY <1>1, <1>2, <1>3, <1>4, <1>5, <1>6, <1>7, <1>8, <1>9, <1>10, <1>11, <1>12,
       <1>13, <1>14 DEF AnyNext, Step

-----------------------------------------------------------------------------
\* The page a commit appends agrees with the page before it, and the pending page
\* starts empty, CONTINUED exactly when a packet was cut (streamWriter.commit).
LEMMA AppendPage ==
    ASSUME TypeOK, PendingOK, PagesWellFormed, NEW e \in BOOLEAN, Commit(e), havePage,
           \A k \in DOMAIN sink : ~sink[k].eos
    PROVE  PagesWellFormed' /\ PendingOK'
  <1> DEFINE p == PendingPage(e)
             n == Len(sink)
  <1>1. /\ sink \in Seq(Page) /\ n \in Nat /\ DOMAIN sink = 1..n
        /\ seg \in Seq(Segment) /\ seg # <<>> /\ Len(seg) \in Nat \ {0}
    BY LenProperties, EmptySeq DEF TypeOK, PendingOK
  <1>2. /\ p.segs = seg /\ p.sequence = n /\ (p.bos <=> n = 0) /\ p.cont = isCont
        /\ p.granule = gran
    BY DEF PendingPage, PendingOK
  <1>3. p \in Page
    BY WriterAssumption DEF PendingPage, Page, TypeOK
  <1>4. sink' = Append(sink, p)
    BY DEF Commit
  <1> HIDE DEF p
  <1>5. /\ Len(sink') = n + 1 /\ DOMAIN sink' = 1..(n + 1) /\ sink'[n + 1] = p
        /\ \A k \in 1..n : sink'[k] = sink[k]
    BY <1>1, <1>3, <1>4
  <1>6. ASSUME NEW k \in 1..n PROVE WellPlaced(sink', k)
    <2>1. sink'[k] = sink[k] /\ (k > 1 => sink'[k - 1] = sink[k - 1])
      BY <1>1, <1>5
    <2>2. WellPlaced(sink, k) /\ ~sink[k].eos
      BY <1>1 DEF PagesWellFormed
    <2> QED
      BY <2>1, <2>2 DEF WellPlaced
  <1>7. WellPlaced(sink', n + 1)
    <2>1. p.segs # <<>> /\ Len(p.segs) <= MaxPageSegments /\ p.sequence = (n + 1) - 1
          /\ (p.bos <=> n + 1 = 1)
      BY <1>1, <1>2 DEF TypeOK
    <2>2. p.cont <=> n + 1 > 1 /\ ~EndsPacket(LastSegment(sink'[(n + 1) - 1]))
      <3>1. isCont <=> n # 0 /\ ~EndsPacket(LastSegment(sink[n]))
        BY <1>1 DEF PendingOK
      <3>2. n # 0 => sink'[(n + 1) - 1] = sink[n]
        BY <1>1, <1>5
      <3> QED
        BY <1>1, <1>2, <3>1, <3>2
    <2>3. (p.granule = GranuleNone) <=> ~CompletesPacket(p.segs)
      BY <1>2 DEF PendingOK
    <2> QED
      BY <1>5, <2>1, <2>2, <2>3 DEF WellPlaced
  <1>8. PagesWellFormed'
    BY <1>1, <1>5, <1>6, <1>7 DEF PagesWellFormed
  <1>9. PendingOK'
    <2>1. seq' = Len(sink') /\ (havePage' <=> seg' # <<>>)
      BY <1>1, <1>5 DEF Commit, PendingOK
    <2>2. isCont' <=> sink' # <<>> /\ ~EndsPacket(LastSegment(sink'[Len(sink')]))
      <3>1. LastSegment(sink'[Len(sink')]) = seg[Len(seg)]
        BY <1>2, <1>5 DEF LastSegment
      <3>2. seg[Len(seg)] \in Segment
        BY <1>1, ElementOfSeq
      <3>3. seg[Len(seg)].len \in 0..MaxSegmentLen
        BY <3>2 DEF Segment
      <3>4. seg[Len(seg)].len = MaxSegmentLen <=> ~EndsPacket(seg[Len(seg)])
        BY <3>3, PageAssumption DEF EndsPacket
      <3>5. isCont' <=> seg[Len(seg)].len = MaxSegmentLen
        BY Zenon DEF Commit
      <3>6. sink' # <<>>
        BY <1>1, <1>5
      <3> QED
        BY <3>1, <3>4, <3>5, <3>6
    <2>3. gran' = GranuleNone /\ ~CompletesPacket(seg')
      BY DEF Commit, CompletesPacket
    <2> QED
      BY <2>1, <2>2, <2>3 DEF PendingOK, CompletesPacket
  <1> QED
    BY <1>8, <1>9

\* Placing a segment keeps the granule position in step with the packets that
\* end on the pending page.
LEMMA PlaceKeepsPending ==
    ASSUME TypeOK, PendingOK, PlaceSegment
    PROVE  PendingOK'
  <1> DEFINE x == Segs[call.next]
  <1>1. call.next \in 1..Len(Segs) /\ seg' = Append(seg, x) /\ call.gran \in Nat
    <2>1. call.next \in Nat \ {0} /\ call.gran \in Nat
      BY DEF TypeOK, Frames
    <2> QED
      BY <2>1, CallSegments DEF PlaceSegment
  <1>2. x \in Segment /\ (EndsPacket(x) <=> call.next = Len(Segs))
    BY <1>1, CallSegments
  <1>3. seg \in Seq(Segment) /\ Len(seg) \in Nat /\ DOMAIN seg = 1..Len(seg)
    BY LenProperties DEF TypeOK
  <1> HIDE DEF x
  <1>4. /\ DOMAIN seg' = 1..(Len(seg) + 1) /\ seg' # <<>> /\ seg'[Len(seg) + 1] = x
        /\ \A i \in DOMAIN seg : seg'[i] = seg[i]
    BY <1>1, <1>2, <1>3
  <1>5. CompletesPacket(seg') <=> CompletesPacket(seg) \/ EndsPacket(x)
    BY <1>3, <1>4 DEF CompletesPacket
  <1>6. gran' = IF EndsPacket(x) THEN call.gran ELSE gran
    BY <1>2 DEF PlaceSegment
  <1>7. (gran' = GranuleNone) <=> ~CompletesPacket(seg')
    BY <1>1, <1>5, <1>6 DEF PendingOK, GranuleNone
  <1>8. seq' = Len(sink') /\ (havePage' <=> seg' # <<>>)
    BY <1>4 DEF PlaceSegment, PendingOK
  <1> QED
    BY <1>7, <1>8 DEF PlaceSegment, PendingOK

\* Nothing is on the sink before the first commit.
LEMMA PagesInit == Init => PendingOK /\ ClosingOK /\ PagesWellFormed
  <1> SUFFICES ASSUME Init PROVE PendingOK /\ ClosingOK /\ PagesWellFormed
    OBVIOUS
  <1>1. /\ seq = 0 /\ seg = <<>> /\ gran = GranuleNone /\ isCont = FALSE
        /\ havePage = FALSE /\ swClosed = FALSE /\ sink = <<>> /\ pc = "enter"
    BY Zenon DEF Init
  <1>2. call.op = "head"
    BY DEF Init, Frame
  <1>3. DOMAIN sink = {} /\ DOMAIN seg = {} /\ Len(sink) = 0
    BY <1>1
  <1> QED
    BY <1>1, <1>2, <1>3 DEF PendingOK, ClosingOK, PagesWellFormed, CompletesPacket

\* Every step keeps the pages on the sink well formed, whatever the sink refuses:
\* a failed commit changes neither the page nor the sequence number.
LEMMA PagesStep == PageInv /\ [AnyNext]_vars => (PendingOK /\ ClosingOK /\ PagesWellFormed)'
  <1> SUFFICES ASSUME PageInv, [AnyNext]_vars
               PROVE  (PendingOK /\ ClosingOK /\ PagesWellFormed)'
    OBVIOUS
  <1>0. TypeOK /\ PendingOK /\ ClosingOK /\ PagesWellFormed
    BY DEF PageInv
  <1> USE DEF swVars, cwVars
  <1>a. ASSUME UNCHANGED <<seq, seg, gran, isCont, havePage, sink>>
        PROVE  PendingOK' /\ PagesWellFormed'
    BY <1>0, <1>a DEF PendingOK, PagesWellFormed
  <1>b. ASSUME pc \notin {"ready", "dropped"} PROVE \A k \in DOMAIN sink : ~sink[k].eos
    BY <1>0, <1>b DEF ClosingOK
  <1>1. CASE CommitForced
    <2>1. havePage /\ pc = "enter" /\ Commit(FALSE)
      BY <1>1 DEF CommitForced, AtForced
    <2>2. PendingOK' /\ PagesWellFormed'
      BY <1>0, <1>b, <2>1, AppendPage
    <2>3. \A k \in DOMAIN sink' : ~sink'[k].eos
      BY <1>0, <1>b, <2>1 DEF Commit, PendingPage, TypeOK
    <2> QED
      BY <1>0, <1>1, <2>1, <2>2, <2>3 DEF CommitForced, ClosingOK
  <1>2. CASE CommitFull
    <2>1. havePage /\ pc = "place" /\ Commit(FALSE)
      BY <1>2 DEF CommitFull, AtFull, PageFull
    <2>2. PendingOK' /\ PagesWellFormed'
      BY <1>0, <1>b, <2>1, AppendPage
    <2>3. \A k \in DOMAIN sink' : ~sink'[k].eos
      BY <1>0, <1>b, <2>1 DEF Commit, PendingPage, TypeOK
    <2> QED
      BY <1>0, <1>2, <2>1, <2>2, <2>3 DEF CommitFull, ClosingOK
  <1>3. CASE CommitLast
    <2>1. havePage /\ pc = "eos" /\ Commit(TRUE)
      BY <1>3 DEF CommitLast, AtLast
    <2>2. PendingOK' /\ PagesWellFormed'
      BY <1>0, <1>b, <2>1, AppendPage
    <2> QED
      BY <1>0, <1>3, <2>1, <2>2 DEF CommitLast, ClosingOK
  <1>4. CASE CommitFails
    <2>1. pc # "ready" /\ (closing => pc' = "ready")
      BY <1>4 DEF CommitFails, AtForced, AtFull, AtLast
    <2> QED
      BY <1>0, <1>a, <1>b, <1>4, <2>1 DEF CommitFails, ClosingOK
  <1>5. CASE Enter
    BY <1>0, <1>a, <1>5 DEF Enter, ClosingOK
  <1>6. CASE PlaceSegment
    <2>1. PendingOK'
      BY <1>0, <1>6, PlaceKeepsPending
    <2>2. call'.op = call.op
      BY <1>0, <1>6 DEF PlaceSegment, TypeOK, Frames
    <2> QED
      BY <1>0, <1>6, <2>1, <2>2 DEF PlaceSegment, ClosingOK, PagesWellFormed
  <1>7. CASE ReturnHead
    <2>1. call'.op = "tags"
      BY <1>7 DEF ReturnHead, Frame
    <2> QED
      BY <1>0, <1>a, <1>7, <2>1 DEF ReturnHead, Returns, ClosingOK
  <1>8. CASE ReturnTags
    BY <1>0, <1>a, <1>8 DEF ReturnTags, Returns, ClosingOK
  <1>9. CASE ReturnWrite
    BY <1>0, <1>a, <1>9 DEF ReturnWrite, Returns, ClosingOK, Hold
  <1>10. CASE ReturnClose
    BY <1>0, <1>a, <1>10 DEF ReturnClose, Returns, ClosingOK
  <1>11. CASE Leave
    BY <1>0, <1>11 DEF Leave, PendingOK, ClosingOK, PagesWellFormed
  <1>12. ASSUME NEW n \in Nat, NEW d \in Nat, WritePacket(n, d)
         PROVE  (PendingOK /\ ClosingOK /\ PagesWellFormed)'
    <2>1. ~swClosed /\ pc = "ready" /\ ~closing
      BY <1>0, <1>12 DEF WritePacket, ClosingOK
    <2>2. PendingOK' /\ PagesWellFormed'
      BY <1>a, <1>12 DEF WritePacket
    <2>3. \A k \in DOMAIN sink' : ~sink'[k].eos
      BY <1>0, <1>12, <2>1 DEF WritePacket, ClosingOK
    <2>4. swClosed' = FALSE /\ (pc' = "enter" => call'.op = "write") /\ pc' \in {"ready", "enter"}
      BY <1>0, <1>12, <2>1 DEF WritePacket, PlaceAudio, Frame, TypeOK
    <2> QED
      BY <2>2, <2>3, <2>4 DEF ClosingOK
  <1>13. ASSUME NEW n \in Nat, Close(n)
         PROVE  (PendingOK /\ ClosingOK /\ PagesWellFormed)'
    <2>1. PendingOK' /\ PagesWellFormed'
      BY <1>a, <1>13 DEF Close
    <2>2. CASE held # NoPacket
      BY <1>0, <1>13, <2>1, <2>2 DEF Close, PlaceAudio, ClosingOK
    <2>3. CASE held = NoPacket
      BY <1>0, <1>13, <2>1, <2>3 DEF Close, ClosingOK
    <2> QED
      BY <2>2, <2>3
  <1>14. CASE UNCHANGED vars
    BY <1>0, <1>14 DEF vars, PendingOK, ClosingOK, PagesWellFormed
  <1> QED
    BY <1>1, <1>2, <1>3, <1>4, <1>5, <1>6, <1>7, <1>8, <1>9, <1>10, <1>11, <1>12,
       <1>13, <1>14 DEF AnyNext, Step

-----------------------------------------------------------------------------
\* PageInv is inductive: it holds of the writer for every page geometry, every
\* packet and however often the sink fails (streamWriter, containerWriter).
THEOREM PageInvariant == Spec => []PageInv
  <1>1. Init => PageInv
    BY TypeInit, PagesInit DEF PageInv
  <1>2. PageInv /\ [AnyNext]_vars => PageInv'
    BY TypeStep, PagesStep DEF PageInv
  <1> QED
    BY <1>1, <1>2, NextIsAny, PTL DEF Spec

\* The state of the writer keeps its types and the segment table its bound, and every
\* page that reaches the sink is well formed and agrees with its neighbours, for every
\* page geometry and however often the sink fails (streamWriter.commit).
THEOREM WellFormedCorrect == Spec => []WellFormed
  <1>1. PageInv => WellFormed
    BY DEF PageInv, WellFormed
  <1> QED
    BY <1>1, PageInvariant, PTL

-----------------------------------------------------------------------------

\* A commit moves the pending segments to the sink and loses no place.
LEMMA CommitOrder ==
    ASSUME TypeOK, PendingOK, NEW e \in BOOLEAN, Commit(e), havePage,
           SinkInOrder, PendingFollows
    PROVE  /\ SinkInOrder' /\ PendingFollows'
           /\ sink' # <<>> /\ LastSegment(sink'[Len(sink')]) = seg[Len(seg)]
           /\ seg # <<>> /\ seg' = <<>>
  <1> DEFINE p == PendingPage(e)
             n == Len(sink)
  <1>1. /\ sink \in Seq(Page) /\ n \in Nat /\ DOMAIN sink = 1..n
        /\ seg \in Seq(Segment) /\ seg # <<>> /\ Len(seg) \in Nat \ {0}
    BY LenProperties, EmptySeq DEF TypeOK, PendingOK
  <1>2. p \in Page /\ p.segs = seg
    BY WriterAssumption DEF PendingPage, Page, TypeOK
  <1>3. sink' = Append(sink, p) /\ seg' = <<>>
    BY DEF Commit
  <1> HIDE DEF p
  <1>4. /\ Len(sink') = n + 1 /\ DOMAIN sink' = 1..(n + 1) /\ sink'[n + 1] = p
        /\ sink' # <<>> /\ \A k \in 1..n : sink'[k] = sink[k]
    BY <1>1, <1>2, <1>3
  <1>5. ASSUME NEW k \in 1..n PROVE PageFollows(sink', k)
    <2>1. /\ sink'[k] = sink[k] /\ (k # 1 => sink'[k - 1] = sink[k - 1])
          /\ sink'[1] = sink[1]
      BY <1>1, <1>4
    <2>2. PageFollows(sink, k)
      BY <1>1 DEF SinkInOrder
    <2> QED
      BY <2>1, <2>2 DEF PageFollows
  <1>6. PageFollows(sink', n + 1)
    <2>1. InOrder(p.segs)
      BY <1>1, <1>2 DEF PendingFollows
    <2>2. CASE n = 0
      BY <1>1, <1>2, <1>4, <2>1, <2>2 DEF PendingFollows, PageFollows
    <2>3. CASE n # 0
      <3>1. sink # <<>> /\ n \in 1..n
        BY <1>1, <2>3
      <3>2. sink'[(n + 1) - 1] = sink[n]
        BY <1>1, <1>4, <3>1
      <3> QED
        BY <1>1, <1>2, <1>4, <2>1, <2>3, <3>1, <3>2 DEF PendingFollows, PageFollows
    <2> QED
      BY <2>2, <2>3
  <1>7. SinkInOrder'
    BY <1>1, <1>4, <1>5, <1>6 DEF SinkInOrder
  <1>8. LastSegment(sink'[Len(sink')]) = seg[Len(seg)]
    BY <1>2, <1>4 DEF LastSegment
  <1> QED
    BY <1>1, <1>3, <1>4, <1>7, <1>8 DEF PendingFollows

\* The next segment the stream needs is the same before and after a commit.
LEMMA CommitKeepsPlace ==
    ASSUME TypeOK, PendingOK, NEW e \in BOOLEAN, Commit(e), havePage,
           SinkInOrder, PendingFollows
    PROVE  \A p, i : NextIs(p, i)' <=> NextIs(p, i)
  BY CommitOrder DEF NextIs

\* Placing the segment the stream needs moves the place by one segment.
LEMMA PlaceOrder ==
    ASSUME TypeOK, PlaceSegment, SinkInOrder, PendingFollows, NextIs(call.pkt, call.next)
    PROVE  /\ SinkInOrder' /\ PendingFollows'
           /\ (IF call.next <= Len(Segs) THEN NextIs(call.pkt, call.next)
                                         ELSE NextIs(call.pkt + 1, 1))'
  <1> DEFINE x == Segs[call.next]
             n == Len(seg)
  <1>1. /\ call.next \in 1..Len(Segs) /\ Len(Segs) \in Nat /\ seg' = Append(seg, x)
        /\ sink' = sink
    <2>1. call.next \in Nat \ {0}
      BY DEF TypeOK, Frames
    <2> QED
      BY <2>1, CallSegments DEF PlaceSegment
  <1>2. /\ x \in Segment /\ x.pkt = call.pkt /\ x.part = call.next
        /\ EndsPacket(x) <=> call.next = Len(Segs)
    BY <1>1, CallSegments
  <1>3. seg \in Seq(Segment) /\ n \in Nat /\ DOMAIN seg = 1..n /\ (seg = <<>> <=> n = 0)
    BY LenProperties, EmptySeq DEF TypeOK
  <1> HIDE DEF x
  <1>4. /\ seg' # <<>> /\ Len(seg') = n + 1 /\ seg'[n + 1] = x
        /\ \A i \in 1..n : seg'[i] = seg[i]
    BY <1>1, <1>2, <1>3
  <1>5. ASSUME seg = <<>> PROVE PendingFollows'
    <2>1. seg'[1] = x /\ Len(seg') = 1
      BY <1>3, <1>4, <1>5
    <2>2. IF sink # <<>> THEN Follows(LastSegment(sink[Len(sink)]), x) ELSE Opens(x)
      BY <1>2, <1>5 DEF NextIs, Follows, Opens
    <2>3. InOrder(seg')
      <3>1. 1..(Len(seg') - 1) = {}
        BY <2>1
      <3> QED
        BY <3>1 DEF InOrder
    <2> QED
      BY <1>1, <2>1, <2>2, <2>3 DEF PendingFollows
  <1>6. ASSUME seg # <<>> PROVE PendingFollows'
    <2>1. Follows(seg[n], x)
      BY <1>2, <1>6 DEF NextIs, Follows
    <2>2. InOrder(seg')
      <3> SUFFICES ASSUME NEW i \in 1..n PROVE Follows(seg'[i], seg'[i + 1])
        BY <1>3, <1>4 DEF InOrder
      <3>1. CASE i = n
        BY <1>4, <2>1, <3>1, <1>3
      <3>2. CASE i # n
        <4>1. i \in 1..(n - 1) /\ i + 1 \in 1..n
          <5>1. n \in Nat /\ i \in Int /\ 1 <= i /\ i <= n
            BY <1>3
          <5> QED
            BY <5>1, <3>2
        <4>2. Follows(seg[i], seg[i + 1])
          BY <1>6, <4>1 DEF PendingFollows, InOrder
        <4> QED
          BY <1>4, <4>1, <4>2
      <3> QED
        BY <3>1, <3>2
    <2>3. seg'[1] = seg[1]
      BY <1>3, <1>4, <1>6
    <2> QED
      BY <1>1, <1>4, <1>6, <2>2, <2>3 DEF PendingFollows
  <1>7. IF call.next + 1 <= Len(Segs) THEN Follows(x, [pkt |-> call.pkt, part |-> call.next + 1])
                                     ELSE Follows(x, [pkt |-> call.pkt + 1, part |-> 1])
    BY <1>1, <1>2 DEF Follows
  <1>8. (IF call.next <= Len(Segs) THEN NextIs(call.pkt, call.next)
                                  ELSE NextIs(call.pkt + 1, 1))'
    <2>1. \A p, i : (NextIs(p, i)' <=> Follows(x, [pkt |-> p, part |-> i]))
      BY <1>4 DEF NextIs
    <2>2. call'.next = call.next + 1 /\ call'.pkt = call.pkt /\ call'.len = call.len
      BY DEF PlaceSegment, TypeOK, Frames
    <2>3. Segs' = Segs
      BY <2>2 DEF Segs
    <2>4. NextIs(call.pkt, call.next)' <=> Follows(x, [pkt |-> call.pkt, part |-> call.next + 1])
      BY <2>1, <2>2
    <2>5. NextIs(call.pkt + 1, 1)' <=> Follows(x, [pkt |-> call.pkt + 1, part |-> 1])
      BY <2>1, <2>2
    <2> QED
      BY <1>7, <2>2, <2>3, <2>4, <2>5
  <1>9. PendingFollows'
    BY <1>5, <1>6
  <1> QED
    BY <1>1, <1>8, <1>9 DEF SinkInOrder

\* The stream starts with segment 1 of OpusHead.
LEMMA OrderInit == Init => OrderInv
  <1> SUFFICES ASSUME Init PROVE OrderInv
    OBVIOUS
  <1>1. /\ seg = <<>> /\ sink = <<>> /\ pc = "enter" /\ held = NoPacket /\ closing = FALSE
    BY Zenon DEF Init
  <1>2. PICK n \in TagLens :
            /\ accepted = <<[len |-> OpusHeadLen, end |-> 0], [len |-> n, end |-> 0]>>
            /\ call = Frame("head", [pkt |-> 1, len |-> OpusHeadLen], 0, TRUE,
                            [pkt |-> 2, len |-> n, dur |-> 0])
    BY Zenon DEF Init
  <1>3. call.op = "head" /\ call.pkt = 1 /\ call.next = 1 /\ call.new.pkt = 2
    BY <1>2 DEF Frame
  <1>4. Len(accepted) = 2
    BY <1>2
  <1>5. SinkInOrder /\ PendingFollows
    BY <1>1 DEF SinkInOrder, PendingFollows
  <1>6. CallInTurn
    BY <1>1, <1>3, <1>4 DEF CallInTurn
  <1>7. Cursor
    BY <1>1, <1>3 DEF Cursor, NextIs
  <1> QED
    BY <1>5, <1>6, <1>7 DEF OrderInv

\* Every step on a sink that takes its pages keeps the order: the writer is where
\* the stream goes on (writePacket, the hold-back, close).
LEMMA OrderStep == PageInv /\ OrderInv /\ [AnyNext]_vars => OrderInv'
  <1> SUFFICES ASSUME PageInv, OrderInv, [AnyNext]_vars, fails' = 0
               PROVE  (SinkInOrder /\ PendingFollows /\ CallInTurn /\ Cursor)'
    BY DEF OrderInv
  <1>0. TypeOK /\ PendingOK /\ ClosingOK
    BY DEF PageInv
  <1> USE DEF swVars, cwVars
  <1>a. ~CommitFails
    BY <1>0 DEF CommitFails, TypeOK
  <1>b. fails = 0
    <2>1. CASE UNCHANGED vars
      BY <2>1 DEF vars
    <2>2. CASE AnyNext
      BY <1>a, <2>2 DEF AnyNext, Step, Leave, CommitForced, CommitFull, CommitLast, Enter, PlaceSegment,
         ReturnHead, ReturnTags, ReturnWrite, ReturnClose, WritePacket, Close
    <2> QED
      BY <2>1, <2>2
  <1>c. SinkInOrder /\ PendingFollows /\ CallInTurn /\ Cursor
    BY <1>b DEF OrderInv
  <1>d. ASSUME UNCHANGED <<seg, sink>>
        PROVE  SinkInOrder' /\ PendingFollows' /\ \A p, i : NextIs(p, i)' <=> NextIs(p, i)
    BY <1>c, <1>d DEF SinkInOrder, PendingFollows, NextIs
  <1>e. ASSUME UNCHANGED call PROVE Segs' = Segs
    BY <1>e DEF Segs
  <1>1. CASE CommitForced
    <2>1. havePage /\ pc = "enter" /\ pc' = "place" /\ Commit(FALSE)
      BY <1>1 DEF CommitForced, AtForced
    <2>2. SinkInOrder' /\ PendingFollows' /\ \A p, i : NextIs(p, i)' <=> NextIs(p, i)
      BY <1>0, <1>c, <2>1, CommitOrder, CommitKeepsPlace
    <2>3. UNCHANGED <<call, held, accepted, closing>>
      BY <1>1 DEF CommitForced
    <2>4. CallInTurn'
      BY <1>c, <2>1, <2>3 DEF CallInTurn
    <2>5. call.next = 1 /\ NextIs(call.pkt, 1)
      BY <1>c, <2>1 DEF Cursor
    <2>6. 1 <= Len(Segs)
      BY <1>0, CallSegments
    <2>7. Cursor'
      BY <1>e, <2>1, <2>2, <2>3, <2>5, <2>6 DEF Cursor
    <2> QED
      BY <2>2, <2>4, <2>7
  <1>2. CASE CommitFull
    <2>1. havePage /\ pc = "place" /\ pc' = "place" /\ Commit(FALSE) /\ call.next <= Len(Segs)
      BY <1>2 DEF CommitFull, AtFull, PageFull
    <2>2. SinkInOrder' /\ PendingFollows' /\ \A p, i : NextIs(p, i)' <=> NextIs(p, i)
      BY <1>0, <1>c, <2>1, CommitOrder, CommitKeepsPlace
    <2>3. UNCHANGED <<call, held, accepted, closing>>
      BY <1>2 DEF CommitFull
    <2>4. CallInTurn'
      BY <1>c, <2>1, <2>3 DEF CallInTurn
    <2>5. Cursor'
      BY <1>c, <1>e, <2>1, <2>2, <2>3 DEF Cursor
    <2> QED
      BY <2>2, <2>4, <2>5
  <1>3. CASE CommitLast
    <2>1. havePage /\ pc = "eos" /\ pc' = "ready" /\ Commit(TRUE)
      BY <1>3 DEF CommitLast, AtLast
    <2>2. /\ SinkInOrder' /\ PendingFollows' /\ sink' # <<>> /\ seg' = <<>>
          /\ \A p, i : NextIs(p, i)' <=> NextIs(p, i)
      BY <1>0, <1>c, <2>1, CommitOrder, CommitKeepsPlace
    <2>3. UNCHANGED <<call, held, accepted, closing>>
      BY <1>3 DEF CommitLast
    <2>4. sink'[Len(sink')].eos
      BY <1>0, <2>1 DEF Commit, PendingPage, TypeOK
    <2>5. held = NoPacket
      BY <1>0, <2>1 DEF ClosingOK
    <2>6. CallInTurn'
      BY <2>1 DEF CallInTurn
    <2>7. Cursor'
      BY <1>c, <2>1, <2>2, <2>3, <2>4, <2>5 DEF Cursor
    <2> QED
      BY <2>2, <2>6, <2>7
  <1>5. CASE Enter
    <2>1. /\ pc = "enter" /\ pc' = "place" /\ UNCHANGED <<seg, sink, call, held, accepted, closing>>
      BY <1>5 DEF Enter
    <2>2. SinkInOrder' /\ PendingFollows' /\ \A p, i : NextIs(p, i)' <=> NextIs(p, i)
      BY <1>d, <2>1
    <2>3. call.next = 1 /\ NextIs(call.pkt, 1)
      BY <1>c, <2>1 DEF Cursor
    <2>4. 1 <= Len(Segs)
      BY <1>0, CallSegments
    <2>5. CallInTurn'
      BY <1>c, <2>1 DEF CallInTurn
    <2>6. Cursor'
      BY <1>e, <2>1, <2>2, <2>3, <2>4 DEF Cursor
    <2> QED
      BY <2>2, <2>5, <2>6
  <1>6. CASE PlaceSegment
    <2>1. pc = "place" /\ pc' = "place" /\ call.next <= Len(Segs)
          /\ UNCHANGED <<held, accepted, closing>>
      BY <1>6 DEF PlaceSegment
    <2>2. NextIs(call.pkt, call.next)
      BY <1>c, <2>1 DEF Cursor
    <2>3. SinkInOrder' /\ PendingFollows'
          /\ (IF call.next <= Len(Segs) THEN NextIs(call.pkt, call.next)
                                        ELSE NextIs(call.pkt + 1, 1))'
      BY <1>0, <1>6, <1>c, <2>2, PlaceOrder
    <2>4. call'.op = call.op /\ call'.pkt = call.pkt /\ call'.new = call.new
      BY <1>0, <1>6 DEF PlaceSegment, TypeOK, Frames
    <2>5. CallInTurn'
      BY <1>c, <2>1, <2>4 DEF CallInTurn
    <2>6. Cursor'
      BY <2>1, <2>3 DEF Cursor
    <2> QED
      BY <2>3, <2>5, <2>6
  <1>r. ASSUME NEW op, Returns(op)
        PROVE  NextIs(call.pkt + 1, 1)
    <2>1. call.next \in Nat /\ Len(Segs) \in Nat
      BY <1>0, CallSegments DEF TypeOK, Frames
    <2> QED
      BY <1>c, <1>r, <2>1 DEF Cursor, Returns
  <1>7. CASE ReturnHead
    <2>1. /\ pc = "place" /\ call.op = "head" /\ pc' = "enter"
          /\ call' = Frame("tags", call.new, 0, TRUE, NoPacket)
          /\ UNCHANGED <<seg, sink, held, accepted, closing>>
      BY <1>7 DEF ReturnHead, Returns
    <2>2. SinkInOrder' /\ PendingFollows' /\ \A p, i : NextIs(p, i)' <=> NextIs(p, i)
      BY <1>d, <2>1
    <2>3. /\ call.pkt = 1 /\ call.new.pkt = 2 /\ held = NoPacket /\ Len(accepted) = 2
          /\ closing => FALSE
      BY <1>c, <2>1 DEF CallInTurn
    <2>4. call'.op = "tags" /\ call'.pkt = 2 /\ call'.next = 1
      BY <2>1, <2>3 DEF Frame
    <2>5. NextIs(2, 1)
      BY <1>7, <1>r, <2>3 DEF ReturnHead
    <2>6. CallInTurn'
      BY <2>1, <2>3, <2>4 DEF CallInTurn
    <2>7. Cursor'
      BY <2>1, <2>2, <2>4, <2>5 DEF Cursor
    <2> QED
      BY <2>2, <2>6, <2>7
  <1>8. CASE ReturnTags
    <2>1. /\ pc = "place" /\ call.op = "tags" /\ pc' = "ready"
          /\ UNCHANGED <<seg, sink, held, accepted, closing>>
      BY <1>8 DEF ReturnTags, Returns
    <2>2. SinkInOrder' /\ PendingFollows' /\ \A p, i : NextIs(p, i)' <=> NextIs(p, i)
      BY <1>d, <2>1
    <2>3. call.pkt = 2 /\ held = NoPacket /\ Len(accepted) = 2 /\ (closing => FALSE)
      BY <1>c, <2>1 DEF CallInTurn
    <2>4. NextIs(3, 1)
      BY <1>8, <1>r, <2>3 DEF ReturnTags
    <2>5. CallInTurn' /\ Cursor'
      BY <2>1, <2>2, <2>3, <2>4 DEF CallInTurn, Cursor
    <2> QED
      BY <2>2, <2>5
  <1>9. CASE ReturnWrite
    <2>1. /\ pc = "place" /\ call.op = "write" /\ pc' = "ready" /\ Hold(call.new)
          /\ UNCHANGED <<seg, sink, closing>>
      BY <1>9 DEF ReturnWrite, Returns
    <2>2. SinkInOrder' /\ PendingFollows' /\ \A p, i : NextIs(p, i)' <=> NextIs(p, i)
      BY <1>d, <2>1
    <2>3. /\ call.pkt = Len(accepted) /\ call.new.pkt = call.pkt + 1 /\ (closing => FALSE)
          /\ call.new # NoPacket
      BY <1>0, <1>c, <2>1 DEF CallInTurn, TypeOK
    <2>4. Len(accepted') = Len(accepted) + 1 /\ held' = call.new
      BY <1>0, <2>1 DEF Hold, TypeOK
    <2>5. NextIs(call.pkt + 1, 1)
      BY <1>9, <1>r DEF ReturnWrite
    <2>6. CallInTurn'
      BY <2>1 DEF CallInTurn
    <2>7. held'.pkt = call.pkt + 1 /\ held'.pkt = Len(accepted')
      BY <2>3, <2>4
    <2>8. NextIs(held.pkt, 1)'
      BY <2>2, <2>5, <2>7
    <2>9. Cursor'
      BY <2>1, <2>3, <2>4, <2>7, <2>8 DEF Cursor
    <2> QED
      BY <2>2, <2>6, <2>9
  <1>10. CASE ReturnClose
    <2>1. /\ pc = "place" /\ call.op = "close" /\ pc' = "eos" /\ held' = NoPacket
          /\ UNCHANGED <<seg, sink, accepted, closing>>
      BY <1>0, <1>10 DEF ReturnClose, Returns, ClosingOK
    <2>2. SinkInOrder' /\ PendingFollows' /\ \A p, i : NextIs(p, i)' <=> NextIs(p, i)
      BY <1>d, <2>1
    <2>3. call.pkt = Len(accepted)
      BY <1>c, <2>1 DEF CallInTurn
    <2>4. NextIs(Len(accepted) + 1, 1)
      BY <1>10, <1>r, <2>3 DEF ReturnClose
    <2>5. CallInTurn' /\ Cursor'
      BY <2>1, <2>2, <2>4 DEF CallInTurn, Cursor
    <2> QED
      BY <2>2, <2>5
  <1>12. ASSUME NEW n \in Nat, NEW d \in Nat, WritePacket(n, d)
         PROVE  (SinkInOrder /\ PendingFollows /\ CallInTurn /\ Cursor)'
    <2> DEFINE new == [pkt |-> Len(accepted) + 1, len |-> n, dur |-> d]
    <2>1. pc = "ready" /\ ~closing /\ closing' = closing /\ UNCHANGED <<seg, sink>>
      BY <1>12 DEF WritePacket
    <2>2. SinkInOrder' /\ PendingFollows' /\ \A p, i : NextIs(p, i)' <=> NextIs(p, i)
      BY <1>d, <2>1
    <2>3. CASE held # NoPacket
      <3>1. /\ call' = Frame("write", held, granule', ForceNewPage, new) /\ pc' = "enter"
            /\ UNCHANGED <<held, accepted>>
        BY <1>12, <2>3 DEF WritePacket, PlaceAudio
      <3>2. /\ call'.op = "write" /\ call'.pkt = held.pkt /\ call'.next = 1
            /\ call'.new.pkt = Len(accepted) + 1
        BY <3>1 DEF Frame
      <3>3. held.pkt = Len(accepted) /\ NextIs(held.pkt, 1)
        BY <1>c, <2>1, <2>3 DEF Cursor
      <3>4. CallInTurn'
        BY <2>1, <2>3, <3>1, <3>2, <3>3 DEF CallInTurn
      <3>5. NextIs(call.pkt, 1)'
        BY <2>2, <3>2, <3>3
      <3>6. Cursor'
        BY <3>1, <3>2, <3>5 DEF Cursor
      <3> QED
        BY <2>2, <3>4, <3>6
    <2>4. CASE held = NoPacket
      <3>1. Hold(new) /\ pc' = pc
        BY <1>12, <2>4 DEF WritePacket
      <3>2. held' = new /\ Len(accepted') = Len(accepted) + 1
        BY <1>0, <3>1 DEF Hold, TypeOK
      <3>3. held'.pkt = Len(accepted')
        BY <3>2
      <3>4. NextIs(Len(accepted) + 1, 1)
        BY <1>c, <2>1, <2>4 DEF Cursor
      <3>5. NextIs(held.pkt, 1)'
        BY <2>2, <3>2, <3>3, <3>4
      <3>6. held' # NoPacket
        BY <1>0, <3>2, WriterAssumption, NewPacket DEF TypeOK
      <3>7. CallInTurn' /\ Cursor'
        BY <2>1, <3>1, <3>3, <3>5, <3>6 DEF CallInTurn, Cursor
      <3> QED
        BY <2>2, <3>7
    <2> QED
      BY <2>3, <2>4
  <1>13. ASSUME NEW n \in Nat, Close(n)
         PROVE  (SinkInOrder /\ PendingFollows /\ CallInTurn /\ Cursor)'
    <2>1. pc = "ready" /\ closing' = TRUE /\ UNCHANGED <<seg, sink, held>>
      BY <1>13 DEF Close
    <2>2. SinkInOrder' /\ PendingFollows' /\ \A p, i : NextIs(p, i)' <=> NextIs(p, i)
      BY <1>d, <2>1
    <2>3. CASE held # NoPacket
      <3>1. /\ call' = Frame("close", held, Larger(PreSkip + n, granule), ForceNewPage, NoPacket)
            /\ pc' = "enter"
        BY <1>13, <2>3 DEF Close, PlaceAudio
      <3>2. Len(accepted') = Len(accepted)
        BY <1>0, <1>13, <2>3 DEF Close, TypeOK
      <3>3. call'.op = "close" /\ call'.pkt = held.pkt /\ call'.next = 1
        BY <3>1 DEF Frame
      <3>4. held.pkt = Len(accepted) /\ NextIs(held.pkt, 1)
        BY <1>c, <2>1, <2>3 DEF Cursor
      <3>5. CallInTurn'
        BY <2>1, <2>3, <3>1, <3>2, <3>3, <3>4 DEF CallInTurn
      <3>6. NextIs(call.pkt, 1)'
        BY <2>2, <3>3, <3>4
      <3>7. Cursor'
        BY <3>1, <3>3, <3>6 DEF Cursor
      <3> QED
        BY <2>2, <3>5, <3>7
    <2>4. CASE held = NoPacket
      <3>1. pc' = (IF swClosed THEN "ready" ELSE "eos") /\ UNCHANGED <<accepted, call>>
        BY <1>13, <2>4 DEF Close
      <3>2. NextIs(Len(accepted) + 1, 1)'
        <4>1. NextIs(Len(accepted) + 1, 1)
          BY <1>c, <2>1, <2>4 DEF Cursor
        <4> QED
          BY <2>2, <3>1, <4>1
      <3>3. swClosed => seg = <<>> /\ sink # <<>> /\ sink[Len(sink)].eos
        BY <1>0, <1>c, <2>1 DEF ClosingOK, Cursor
      <3>4. CallInTurn' /\ Cursor'
        BY <2>1, <2>4, <3>1, <3>2, <3>3 DEF CallInTurn, Cursor
      <3> QED
        BY <2>2, <3>4
    <2> QED
      BY <2>3, <2>4
  <1>14. CASE UNCHANGED vars
    <2>1. UNCHANGED <<seg, sink, pc, call, held, accepted, closing>>
      BY <1>14 DEF vars
    <2>2. SinkInOrder' /\ PendingFollows' /\ \A p, i : NextIs(p, i)' <=> NextIs(p, i)
      BY <1>d, <2>1
    <2>3. CallInTurn'
      BY <1>c, <2>1 DEF CallInTurn
    <2>4. Cursor'
      BY <1>c, <1>e, <2>1, <2>2 DEF Cursor
    <2> QED
      BY <2>2, <2>3, <2>4
  <1>11. CASE Leave
    <2>1. pc' = "dropped" /\ UNCHANGED <<seg, sink, call, held, accepted, closing>>
      BY <1>11 DEF Leave
    <2>2. SinkInOrder' /\ PendingFollows'
      BY <1>d, <2>1
    <2>3. CallInTurn' /\ Cursor'
      BY <2>1 DEF CallInTurn, Cursor
    <2> QED
      BY <2>2, <2>3
  <1> QED
    BY <1>a, <1>1, <1>2, <1>3, <1>5, <1>6, <1>7, <1>8, <1>9, <1>10, <1>11, <1>12,
       <1>13, <1>14 DEF AnyNext, Step

\* OrderInv holds of the writer: what the sink and the pending page hold is the
\* stream so far, and the call in progress carries what comes next.
THEOREM OrderInvariant == Spec => []OrderInv
  <1>1. Init => OrderInv
    BY OrderInit
  <1>2. PageInv /\ OrderInv /\ [AnyNext]_vars => OrderInv'
    BY OrderStep
  <1> QED
    BY <1>1, <1>2, NextIsAny, PageInvariant, PTL DEF Spec

\* While the sink takes every page, the segments on it are those of packets
\* 1, 2, 3 ... in order, none lost, repeated or torn, for every page geometry
\* and all packet lengths (lacing, streamWriter.writePacket).
THEOREM OrderCorrect == Spec => []SegmentsInOrder
  <1>1. OrderInv => SegmentsInOrder
    BY DEF OrderInv, SegmentsInOrder
  <1> QED
    BY <1>1, OrderInvariant, PTL

\* What the invariants say of a stream that is closed.
LEMMA ClosedPages == PageInv /\ OrderInv => ClosedIsComplete
  <1> SUFFICES ASSUME PageInv, OrderInv, fails = 0, closing, pc = "ready"
               PROVE  LET p == sink[Len(sink)] IN
                      /\ p.eos
                      /\ EndsPacket(LastSegment(p))
                      /\ LastSegment(p).pkt = Len(accepted)
    BY DEF ClosedIsComplete
  <1>1. /\ seg = <<>> /\ sink # <<>> /\ sink[Len(sink)].eos /\ held = NoPacket
        /\ NextIs(Len(accepted) + 1, 1)
    BY DEF OrderInv, Cursor
  <1> DEFINE s == LastSegment(sink[Len(sink)])
  <1>2. Follows(s, [pkt |-> Len(accepted) + 1, part |-> 1])
    BY <1>1 DEF NextIs
  <1>3. s \in Segment
    <2>1. sink \in Seq(Page) /\ Len(sink) \in 1..Len(sink)
      BY <1>1, EmptySeq DEF PageInv, TypeOK
    <2>2. sink[Len(sink)] \in Page /\ sink[Len(sink)].segs # <<>>
      BY <2>1, ElementOfSeq DEF PageInv, PagesWellFormed, WellPlaced
    <2>3. sink[Len(sink)].segs \in Seq(Segment)
      BY <2>2 DEF Page
    <2>4. Len(sink[Len(sink)].segs) \in 1..Len(sink[Len(sink)].segs)
      BY <2>2, <2>3, EmptySeq
    <2> QED
      BY <2>3, <2>4, ElementOfSeq DEF LastSegment
  <1>4. Len(accepted) \in Nat
    BY DEF PageInv, TypeOK
  <1> HIDE DEF s
  <1>5. EndsPacket(s) /\ s.pkt = Len(accepted)
    BY <1>2, <1>3, <1>4 DEF Follows, Segment
  <1> QED
    BY <1>1, <1>5 DEF s

\* A close that meets no sink error leaves every accepted packet on the sink,
\* behind an EOS page (containerWriter.close).
THEOREM CloseComplete == Spec => []ClosedIsComplete
  BY ClosedPages, PageInvariant, OrderInvariant, PTL

-----------------------------------------------------------------------------
\* The packet LastCompleted names is that of the one last ending segment.
LEMMA LastCompletedIs ==
    ASSUME NEW segs \in Seq(Segment), NEW i \in DOMAIN segs, LastEnding(segs, i)
    PROVE  LastCompleted(segs) = segs[i].pkt
  <1> DEFINE ends == {j \in DOMAIN segs : EndsPacket(segs[j])}
             Last(m) == \A j \in ends : j <= m
             c == CHOOSE m \in ends : Last(m)
  <1>1. i \in ends /\ Last(i)
    BY DEF LastEnding
  <1>2. c \in ends /\ Last(c)
    BY <1>1
  <1>3. c <= i /\ i <= c /\ c \in Int /\ i \in Int
    BY <1>1, <1>2, LenProperties
  <1>4. c = i
    BY <1>3
  <1> QED
    BY <1>4 DEF LastCompleted

\* What the entries of a segment table are.
LEMMA SegmentFields ==
    ASSUME NEW segs \in Seq(Segment)
    PROVE  /\ DOMAIN segs = 1..Len(segs) /\ Len(segs) \in Nat
           /\ \A i \in DOMAIN segs : segs[i] \in Segment /\ segs[i].pkt \in Nat \ {0}
  <1>1. DOMAIN segs = 1..Len(segs) /\ Len(segs) \in Nat
    BY LenProperties
  <1>2. \A i \in 1..Len(segs) : segs[i] \in Segment
    BY ElementOfSeq
  <1> QED
    BY <1>1, <1>2 DEF Segment

\* What the pages of a stream are.
LEMMA PageFields ==
    ASSUME NEW pages \in Seq(Page)
    PROVE  /\ DOMAIN pages = 1..Len(pages) /\ Len(pages) \in Nat
           /\ \A k \in DOMAIN pages : pages[k] \in Page /\ pages[k].segs \in Seq(Segment)
  <1>1. DOMAIN pages = 1..Len(pages) /\ Len(pages) \in Nat
    BY LenProperties
  <1>2. \A k \in 1..Len(pages) : pages[k] \in Page
    BY ElementOfSeq
  <1> QED
    BY <1>1, <1>2 DEF Page

\* A packet has at least one segment.
LEMMA SegmentCount == TypeOK => Len(Segs) \in Nat \ {0}
  BY CallSegments

\* A stamp stands while the ends of the packets that have ended do.
LEMMA StampKept ==
    ASSUME NEW a, NEW b, NEW segs \in Seq(Segment), NEW g, NEW n \in Int, NEW m \in Int,
           Stamped(a, segs, g), EndsBy(segs, n), n <= m,
           \A p \in 1..n : b[p].end = a[p].end
    PROVE  Stamped(b, segs, g) /\ EndsBy(segs, m)
  <1>1. \A i \in DOMAIN segs : segs[i].pkt \in Nat \ {0}
    BY SegmentFields
  <1>2. EndsBy(segs, m)
    BY <1>1 DEF EndsBy
  <1>3. ASSUME CompletesPacket(segs)
        PROVE  \E i \in DOMAIN segs : LastEnding(segs, i) /\ g = b[segs[i].pkt].end
    <2>1. PICK i \in DOMAIN segs : LastEnding(segs, i) /\ g = a[segs[i].pkt].end
      BY <1>3 DEF Stamped
    <2>2. segs[i].pkt \in 1..n
      BY <1>1, <2>1 DEF LastEnding, EndsBy
    <2> QED
      BY <2>1, <2>2
  <1> QED
    BY <1>2, <1>3 DEF Stamped

\* The segment that ends a packet stamps the page with the packet's end
\* (writePacket), any other leaves the stamp.
LEMMA PlaceStamps ==
    ASSUME TypeOK, PlaceSegment, Stamped(accepted, seg, gran), EndsBy(seg, Settled),
           call.gran = accepted[call.pkt].end
    PROVE  /\ Stamped(accepted', seg', gran') /\ EndsBy(seg', Settled')
           /\ Settled \in Int /\ Settled' \in Int /\ Settled <= Settled'
  <1> DEFINE x == Segs[call.next]
             n == Len(seg)
  <1>1. /\ call.next \in 1..Len(Segs) /\ Len(Segs) \in Nat /\ seg' = Append(seg, x)
        /\ accepted' = accepted /\ call.pkt \in Nat \ {0} /\ pc = "place" /\ pc' = "place"
    <2>1. call.next \in Nat \ {0} /\ call.pkt \in Nat \ {0}
      BY DEF TypeOK, Frames
    <2> QED
      BY <2>1, CallSegments DEF PlaceSegment
  <1>2. /\ x \in Segment /\ x.pkt = call.pkt
        /\ EndsPacket(x) <=> call.next = Len(Segs)
    BY <1>1, CallSegments
  <1>3. seg \in Seq(Segment) /\ n \in Nat /\ DOMAIN seg = 1..n
    BY LenProperties DEF TypeOK
  <1>4. call'.next = call.next + 1 /\ call'.pkt = call.pkt /\ Segs' = Segs
    BY DEF PlaceSegment, TypeOK, Frames, Segs
  <1>5. /\ Settled = call.pkt - 1
        /\ Settled' = IF EndsPacket(x) THEN call.pkt ELSE call.pkt - 1
    BY <1>1, <1>2, <1>4 DEF Settled
  <1>6. gran' = IF EndsPacket(x) THEN call.gran ELSE gran
    BY <1>2 DEF PlaceSegment
  <1> HIDE DEF x
  <1>7. /\ DOMAIN seg' = 1..(n + 1) /\ seg'[n + 1] = x
        /\ \A i \in 1..n : seg'[i] = seg[i]
    BY <1>1, <1>2, <1>3
  <1>8. \A i \in 1..n : seg[i].pkt \in Nat \ {0}
    BY <1>3, SegmentFields
  <1>9. EndsBy(seg', Settled')
    <2> SUFFICES ASSUME NEW i \in 1..(n + 1), EndsPacket(seg'[i])
                 PROVE  seg'[i].pkt <= Settled'
      BY <1>7 DEF EndsBy
    <2>1. CASE i = n + 1
      BY <1>1, <1>2, <1>5, <1>7, <2>1
    <2>2. CASE i # n + 1
      <3>1. i \in 1..n /\ seg'[i] = seg[i]
        BY <1>3, <1>7, <2>2
      <3>2. seg[i].pkt <= call.pkt - 1
        BY <1>3, <1>5, <3>1 DEF EndsBy
      <3> QED
        BY <1>1, <1>5, <1>8, <3>1, <3>2
    <2> QED
      BY <2>1, <2>2
  <1>10. Stamped(accepted', seg', gran')
    <2>1. CASE EndsPacket(x)
      <3>1. LastEnding(seg', n + 1)
        BY <1>3, <1>7, <2>1 DEF LastEnding
      <3>2. gran' = accepted'[seg'[n + 1].pkt].end
        BY <1>1, <1>2, <1>6, <1>7, <2>1
      <3> QED
        BY <1>3, <1>7, <3>1, <3>2 DEF Stamped
    <2>2. CASE ~EndsPacket(x)
      <3> SUFFICES ASSUME CompletesPacket(seg')
                   PROVE  \E i \in DOMAIN seg' : /\ LastEnding(seg', i)
                                                 /\ gran' = accepted'[seg'[i].pkt].end
        BY DEF Stamped
      <3>1. CompletesPacket(seg)
        BY <1>3, <1>7, <2>2 DEF CompletesPacket
      <3>2. PICK i \in DOMAIN seg : LastEnding(seg, i) /\ gran = accepted[seg[i].pkt].end
        BY <3>1 DEF Stamped
      <3>3. i \in DOMAIN seg' /\ seg'[i] = seg[i]
        BY <1>3, <1>7
      <3>4. LastEnding(seg', i)
        BY <1>3, <1>7, <2>2, <3>2, <3>3 DEF LastEnding
      <3> QED
        BY <1>1, <1>6, <2>2, <3>2, <3>3, <3>4
    <2> QED
      BY <2>1, <2>2
  <1> QED
    BY <1>1, <1>5, <1>9, <1>10

\* A commit moves the stamp of the pending page to the sink.
LEMMA CommitStamps ==
    ASSUME TypeOK, NEW e \in BOOLEAN, Commit(e), NEW n, NEW a,
           Stamped(a, seg, gran), EndsBy(seg, n),
           \A k \in DOMAIN sink : /\ Stamped(a, sink[k].segs, sink[k].granule)
                                  /\ EndsBy(sink[k].segs, n)
    PROVE  /\ Stamped(a, seg', gran') /\ EndsBy(seg', n)
           /\ \A k \in DOMAIN sink' : /\ Stamped(a, sink'[k].segs, sink'[k].granule)
                                      /\ EndsBy(sink'[k].segs, n)
  <1> DEFINE p == PendingPage(e)
  <1>1. p \in Page /\ p.segs = seg /\ p.granule = gran
    BY WriterAssumption DEF PendingPage, Page, TypeOK
  <1>2. sink \in Seq(Page) /\ sink' = Append(sink, p) /\ seg' = <<>>
    BY DEF Commit, TypeOK
  <1> HIDE DEF p
  <1>3. /\ DOMAIN sink = 1..Len(sink) /\ Len(sink) \in Nat
        /\ DOMAIN sink' = 1..(Len(sink) + 1) /\ sink'[Len(sink) + 1] = p
        /\ \A k \in 1..Len(sink) : sink'[k] = sink[k]
    BY <1>1, <1>2, LenProperties
  <1>4. DOMAIN seg' = {}
    BY <1>2
  <1>5. Stamped(a, seg', gran') /\ EndsBy(seg', n)
    BY <1>4 DEF Stamped, EndsBy, CompletesPacket
  <1>6. ASSUME NEW k \in DOMAIN sink'
        PROVE  Stamped(a, sink'[k].segs, sink'[k].granule) /\ EndsBy(sink'[k].segs, n)
    <2>1. CASE k = Len(sink) + 1
      BY <1>1, <1>3, <2>1
    <2>2. CASE k # Len(sink) + 1
      BY <1>3, <2>2
    <2> QED
      BY <2>1, <2>2
  <1> QED
    BY <1>5, <1>6

\* No packet has ended before the stream starts, and the headers end at sample 0.
LEMMA GranuleInit == Init => GranuleInv
  <1> SUFFICES ASSUME Init PROVE GranuleInv
    OBVIOUS
  <1>1. /\ seg = <<>> /\ sink = <<>> /\ pc = "enter" /\ granule = 0
    BY Zenon DEF Init
  <1>2. PICK n \in TagLens :
            /\ accepted = <<[len |-> OpusHeadLen, end |-> 0], [len |-> n, end |-> 0]>>
            /\ call = Frame("head", [pkt |-> 1, len |-> OpusHeadLen], 0, TRUE,
                            [pkt |-> 2, len |-> n, dur |-> 0])
    BY Zenon DEF Init
  <1>3. call.op = "head" /\ call.pkt = 1 /\ call.gran = 0
    BY <1>2 DEF Frame
  <1>4. accepted[1].end = 0 /\ accepted[2].end = 0
    BY <1>2
  <1>5. Dated
    BY <1>1, <1>3, <1>4 DEF Dated
  <1>6. DOMAIN seg = {} /\ DOMAIN sink = {}
    BY <1>1
  <1> QED
    BY <1>5, <1>6 DEF GranuleInv, Stamped, EndsBy, CompletesPacket

\* Every step keeps the stamps true: a packet's end is settled before the page it
\* ends on is stamped with it, and close re-dates only the packet still held back.
LEMMA GranuleStep == PageInv /\ OrderInv /\ GranuleInv /\ [AnyNext]_vars => GranuleInv'
  <1> DEFINE Marked == /\ Stamped(accepted, seg, gran) /\ EndsBy(seg, Settled)
                       /\ \A k \in DOMAIN sink :
                              /\ Stamped(accepted, sink[k].segs, sink[k].granule)
                              /\ EndsBy(sink[k].segs, Settled)
  <1> SUFFICES ASSUME PageInv, OrderInv, GranuleInv, [AnyNext]_vars, fails' = 0
               PROVE  Dated' /\ Marked'
    BY DEF GranuleInv
  <1>0. TypeOK /\ TypeOK' /\ ClosingOK
    BY TypeStep DEF PageInv
  <1> USE DEF swVars, cwVars
  <1>a. ~CommitFails
    BY <1>0 DEF CommitFails, TypeOK
  <1>b. fails = 0
    <2>1. CASE UNCHANGED vars
      BY <2>1 DEF vars
    <2>2. CASE AnyNext
      BY <1>a, <2>2 DEF AnyNext, Step, Leave, CommitForced, CommitFull, CommitLast, Enter,
         PlaceSegment, ReturnHead, ReturnTags, ReturnWrite, ReturnClose, WritePacket, Close
    <2> QED
      BY <2>1, <2>2
  <1>c. CallInTurn /\ Cursor /\ Dated /\ Marked
    BY <1>b DEF OrderInv, GranuleInv
  <1>d. /\ seg \in Seq(Segment) /\ \A k \in DOMAIN sink : sink[k].segs \in Seq(Segment)
        /\ Len(accepted) \in Nat /\ Len(accepted) >= 2 /\ DOMAIN accepted = 1..Len(accepted)
        /\ call.pkt \in Nat \ {0} /\ call.next \in Nat \ {0} /\ Len(Segs) \in Nat \ {0}
        /\ Len(Segs)' \in Nat \ {0}
    <2>1. sink \in Seq(Page)
      BY <1>0 DEF TypeOK
    <2>2. \A k \in DOMAIN sink : sink[k].segs \in Seq(Segment)
      BY <2>1, PageFields
    <2>3. Len(Segs) \in Nat \ {0}
      BY <1>0, SegmentCount
    <2>4. (TypeOK => Len(Segs) \in Nat \ {0})'
      BY SegmentCount, PTL
    <2>5. Len(Segs)' \in Nat \ {0}
      BY <1>0, <2>4
    <2> QED
      BY <1>0, <2>2, <2>3, <2>5, LenProperties DEF TypeOK, Frames
  <1> HIDE DEF Marked
  <1>k. ASSUME UNCHANGED <<seg, gran, sink>>, Settled \in Int, Settled' \in Int, Settled <= Settled',
               \A p \in 1..Settled : accepted'[p].end = accepted[p].end
        PROVE  Marked'
    <2>1. Stamped(accepted', seg, gran) /\ EndsBy(seg, Settled')
      BY <1>c, <1>d, <1>k, StampKept DEF Marked
    <2>2. ASSUME NEW k \in DOMAIN sink
          PROVE  /\ Stamped(accepted', sink[k].segs, sink[k].granule)
                 /\ EndsBy(sink[k].segs, Settled')
      BY <1>c, <1>d, <1>k, <2>2, StampKept DEF Marked
    <2> QED
      BY <1>k, <2>1, <2>2 DEF Marked
  <1>m. ASSUME NEW e \in BOOLEAN, Commit(e), accepted' = accepted, Settled' = Settled
        PROVE  Marked'
    BY <1>0, <1>c, <1>m, CommitStamps DEF Marked
  <1>e. ASSUME UNCHANGED call PROVE Segs' = Segs
    BY <1>e DEF Segs
  <1>1. CASE CommitForced
    <2>1. pc = "enter" /\ pc' = "place" /\ Commit(FALSE) /\ UNCHANGED <<call, held, accepted, granule>>
      BY <1>1 DEF CommitForced, AtForced
    <2>2. Settled' = Settled
      BY <1>e, <2>1 DEF Settled
    <2>3. Dated'
      BY <1>c, <2>1 DEF Dated, LastEnd
    <2> QED
      BY <1>m, <2>1, <2>2, <2>3
  <1>2. CASE CommitFull
    <2>1. pc = "place" /\ pc' = "place" /\ Commit(FALSE) /\ UNCHANGED <<call, held, accepted, granule>>
      BY <1>2 DEF CommitFull, AtFull
    <2>2. Settled' = Settled
      BY <1>e, <2>1 DEF Settled
    <2>3. Dated'
      BY <1>c, <2>1 DEF Dated, LastEnd
    <2> QED
      BY <1>m, <2>1, <2>2, <2>3
  <1>3. CASE CommitLast
    <2>1. /\ pc = "eos" /\ pc' = "ready" /\ Commit(TRUE)
          /\ UNCHANGED <<call, held, accepted, granule, closing>>
      BY <1>3 DEF CommitLast, AtLast
    <2>2. Settled' = Settled
      BY <2>1 DEF Settled
    <2>3. Dated'
      BY <1>0, <2>1 DEF Dated, ClosingOK
    <2> QED
      BY <1>m, <2>1, <2>2, <2>3
  <1>5. CASE Enter
    <2>1. /\ pc = "enter" /\ pc' = "place"
          /\ UNCHANGED <<call, held, accepted, granule, seg, gran, sink>>
      BY <1>5 DEF Enter
    <2>2. Settled' = Settled /\ Settled \in Int
      BY <1>d, <1>e, <2>1 DEF Settled
    <2>3. Dated'
      BY <1>c, <2>1 DEF Dated, LastEnd
    <2> QED
      BY <1>k, <2>1, <2>2, <2>3
  <1>6. CASE PlaceSegment
    <2>1. /\ pc = "place" /\ pc' = "place" /\ UNCHANGED <<held, accepted, granule, sink>>
          /\ call'.gran = call.gran /\ call'.pkt = call.pkt /\ call'.op = call.op
      BY <1>0, <1>6 DEF PlaceSegment, TypeOK, Frames
    <2>2. call.gran = accepted[call.pkt].end
      BY <1>c, <2>1 DEF Dated
    <2>3. /\ Stamped(accepted', seg', gran') /\ EndsBy(seg', Settled')
          /\ Settled \in Int /\ Settled' \in Int /\ Settled <= Settled'
      BY <1>0, <1>6, <1>c, <2>2, PlaceStamps DEF Marked
    <2>4. ASSUME NEW k \in DOMAIN sink
          PROVE  /\ Stamped(accepted', sink[k].segs, sink[k].granule)
                 /\ EndsBy(sink[k].segs, Settled')
      <3>1. Stamped(accepted, sink[k].segs, sink[k].granule) /\ EndsBy(sink[k].segs, Settled)
        BY <1>c DEF Marked
      <3> QED
        BY <1>d, <2>1, <2>3, <3>1, StampKept
    <2>5. Dated'
      BY <1>c, <2>1 DEF Dated, LastEnd
    <2> QED
      BY <2>1, <2>3, <2>4, <2>5 DEF Marked
  <1>r. ASSUME NEW op, Returns(op)
        PROVE  pc = "place" /\ call.op = op /\ Settled = call.pkt
    BY <1>d, <1>r DEF Returns, Settled
  <1>7. CASE ReturnHead
    <2>1. /\ pc = "place" /\ call.op = "head" /\ Settled = call.pkt /\ pc' = "enter"
          /\ call' = Frame("tags", call.new, 0, TRUE, NoPacket)
          /\ UNCHANGED <<seg, gran, sink, held, accepted, granule>>
      BY <1>7, <1>r DEF ReturnHead
    <2>2. call.pkt = 1 /\ call.new.pkt = 2
      BY <1>c, <2>1 DEF CallInTurn
    <2>3. call'.op = "tags" /\ call'.pkt = 2 /\ call'.next = 1 /\ call'.gran = 0
      BY <2>1, <2>2 DEF Frame
    <2>4. Settled' = 1
      <3>1. call'.next <= Len(Segs)'
        BY <1>d, <2>3
      <3>2. pc' = "enter"
        BY <2>1
      <3>3. Settled' = call'.pkt - 1
        BY <3>1, <3>2 DEF Settled
      <3> QED
        BY <2>3, <3>3
    <2>5. Dated'
      BY <1>c, <2>1, <2>3 DEF Dated
    <2> QED
      BY <1>k, <2>1, <2>2, <2>4, <2>5
  <1>8. CASE ReturnTags
    <2>1. /\ pc = "place" /\ call.op = "tags" /\ Settled = call.pkt /\ pc' = "ready"
          /\ UNCHANGED <<seg, gran, sink, held, accepted, granule>>
      BY <1>8, <1>r DEF ReturnTags
    <2>2. call.pkt = 2 /\ held = NoPacket /\ Len(accepted) = 2
      BY <1>c, <2>1 DEF CallInTurn
    <2>3. Settled' = 2
      BY <2>1, <2>2 DEF Settled
    <2>4. Dated'
      BY <1>c, <2>1, <2>2 DEF Dated, LastEnd
    <2> QED
      BY <1>k, <2>1, <2>2, <2>3, <2>4
  <1>h. ASSUME NEW p, p # NoPacket, Hold(p), pc' = "ready", UNCHANGED <<seg, gran, sink, granule>>,
               Settled = Len(accepted), granule = LastEnd
        PROVE  Dated' /\ Marked'
    <2>1. /\ accepted' = Append(accepted, [len |-> p.len, end |-> LastEnd + p.dur])
          /\ held' = p
      BY <1>h DEF Hold
    <2>2. /\ Len(accepted') = Len(accepted) + 1
          /\ accepted'[Len(accepted) + 1] = [len |-> p.len, end |-> LastEnd + p.dur]
          /\ \A i \in 1..Len(accepted) : accepted'[i] = accepted[i]
      BY <1>0, <2>1 DEF TypeOK
    <2>3. Settled' = Len(accepted)
      <3>1. Settled' = Len(accepted') - 1
        BY <1>h, <2>1 DEF Settled
      <3> QED
        BY <1>d, <2>2, <3>1
    <2>4. Marked'
      BY <1>d, <1>h, <1>k, <2>2, <2>3
    <2>5. LastEnd' = granule' + p.dur /\ granule' = accepted'[Len(accepted') - 1].end
      <3>1. Len(accepted') - 1 = Len(accepted) /\ Len(accepted) \in 1..Len(accepted)
        BY <1>d, <2>2
      <3>2. accepted'[Len(accepted') - 1].end = LastEnd
        BY <2>2, <3>1 DEF LastEnd
      <3>3. LastEnd' = LastEnd + p.dur
        BY <2>2 DEF LastEnd
      <3> QED
        BY <1>h, <3>2, <3>3
    <2>6. Dated'
      BY <1>h, <2>1, <2>5 DEF Dated
    <2> QED
      BY <2>4, <2>6
  <1>9. CASE ReturnWrite
    <2>1. /\ pc = "place" /\ call.op = "write" /\ Settled = call.pkt /\ pc' = "ready"
          /\ Hold(call.new) /\ UNCHANGED <<seg, gran, sink, granule>>
      BY <1>9, <1>r DEF ReturnWrite
    <2>2. call.pkt = Len(accepted) /\ call.new # NoPacket
      BY <1>0, <1>c, <2>1 DEF CallInTurn, TypeOK
    <2>3. granule = LastEnd
      BY <1>c, <2>1 DEF Dated
    <2> QED
      BY <1>h, <2>1, <2>2, <2>3
  <1>10. CASE ReturnClose
    <2>1. /\ pc = "place" /\ call.op = "close" /\ Settled = call.pkt /\ pc' = "eos"
          /\ held' = NoPacket /\ UNCHANGED <<seg, gran, sink, accepted, granule>>
      BY <1>0, <1>10, <1>r DEF ReturnClose, ClosingOK
    <2>2. call.pkt = Len(accepted)
      BY <1>c, <2>1 DEF CallInTurn
    <2>3. Settled' = Len(accepted)
      BY <2>1 DEF Settled
    <2>4. Dated'
      BY <2>1 DEF Dated
    <2> QED
      BY <1>d, <1>k, <2>1, <2>2, <2>3, <2>4
  <1>11. CASE Leave
    <2>1. /\ pc' = "dropped" /\ UNCHANGED <<seg, gran, sink, call, held, accepted>>
      BY <1>11 DEF Leave
    <2>2. Settled' = Len(accepted)
      BY <2>1 DEF Settled
    <2>3. pc \in {"enter", "place"} => call.pkt <= Len(accepted)
      <3>1. pc \in {"enter", "place"} => call.op \in {"head", "tags", "write", "close"}
        BY <1>0 DEF TypeOK, Frames
      <3> QED
        BY <1>c, <1>d, <3>1 DEF CallInTurn
    <2>4. Settled \in Int /\ Settled <= Len(accepted)
      BY <1>d, <2>3 DEF Settled
    <2>5. Dated'
      BY <2>1 DEF Dated
    <2> QED
      BY <1>d, <1>k, <2>1, <2>2, <2>4, <2>5
  <1>12. ASSUME NEW n \in Nat, NEW d \in Nat, WritePacket(n, d)
         PROVE  Dated' /\ Marked'
    <2> DEFINE new == [pkt |-> Len(accepted) + 1, len |-> n, dur |-> d]
    <2>1. pc = "ready" /\ ~closing /\ closing' = closing /\ UNCHANGED <<seg, gran, sink>>
      BY <1>12 DEF WritePacket
    <2>2. CASE held # NoPacket
      <3>1. /\ call' = Frame("write", held, granule', ForceNewPage, new) /\ pc' = "enter"
            /\ granule' = granule + held.dur /\ UNCHANGED <<held, accepted>>
        BY <1>12, <2>2 DEF WritePacket, PlaceAudio, FlushedGranule
      <3>2. /\ call'.op = "write" /\ call'.pkt = held.pkt /\ call'.next = 1
            /\ call'.gran = granule'
        BY <3>1 DEF Frame
      <3>3. held.pkt = Len(accepted)
        BY <1>c, <2>1, <2>2 DEF Cursor
      <3>4. Settled = Len(accepted) - 1 /\ Settled' = Len(accepted) - 1
        BY <1>d, <2>1, <2>2, <3>1, <3>2, <3>3 DEF Settled
      <3>5. granule' = LastEnd
        BY <1>c, <2>1, <2>2, <3>1 DEF Dated
      <3>6. Dated'
        BY <3>1, <3>2, <3>3, <3>5 DEF Dated, LastEnd
      <3> QED
        BY <1>d, <1>k, <2>1, <3>1, <3>4, <3>6
    <2>3. CASE held = NoPacket
      <3>1. Hold(new) /\ pc' = "ready" /\ UNCHANGED granule
        BY <1>12, <2>1, <2>3 DEF WritePacket
      <3>2. new # NoPacket
        BY <1>d, NewPacket
      <3>3. Settled = Len(accepted)
        BY <2>1, <2>3 DEF Settled
      <3>4. granule = LastEnd
        BY <1>c, <2>1, <2>3 DEF Dated
      <3> HIDE DEF new
      <3> QED
        BY <1>h, <2>1, <3>1, <3>2, <3>3, <3>4
    <2> QED
      BY <2>2, <2>3
  <1>13. ASSUME NEW n \in Nat, Close(n)
         PROVE  Dated' /\ Marked'
    <2>1. pc = "ready" /\ closing' = TRUE /\ UNCHANGED <<seg, gran, sink, held, granule>>
      BY <1>13 DEF Close
    <2>2. CASE held # NoPacket
      <3> DEFINE final == Larger(PreSkip + n, granule)
                 last == Len(accepted)
      <3>1. /\ call' = Frame("close", held, final, ForceNewPage, NoPacket) /\ pc' = "enter"
            /\ accepted' = [accepted EXCEPT ![last].end =
                     Larger(PreSkip + n, accepted[last - 1].end)]
        BY <1>13, <2>2 DEF Close, PlaceAudio
      <3>2. /\ call'.op = "close" /\ call'.pkt = held.pkt /\ call'.next = 1
            /\ call'.gran = final
        BY <3>1 DEF Frame
      <3>3. held.pkt = last /\ ~closing
        BY <1>c, <2>1, <2>2 DEF Cursor
      <3>4. granule = accepted[last - 1].end
        BY <1>c, <2>1, <2>2, <3>3 DEF Dated
      <3>5. /\ \A p \in 1..(last - 1) : accepted'[p] = accepted[p]
            /\ Len(accepted') = last
        <4>1. accepted \in Seq(Accepted)
          BY <1>0 DEF TypeOK
        <4>2. \A p \in 1..(last - 1) : p \in DOMAIN accepted /\ p # last
          <5>1. last \in Nat /\ DOMAIN accepted = 1..last
            BY <1>d
          <5> HIDE DEF last
          <5> QED
            BY <5>1, BelowLast
        <4>3. DOMAIN accepted' = DOMAIN accepted
          BY <3>1
        <4>4. \A p \in 1..(last - 1) : accepted'[p] = accepted[p]
          BY <3>1, <4>2
        <4>5. accepted' \in Seq(Accepted)
          BY <1>0 DEF TypeOK
        <4>6. Len(accepted') \in Nat /\ DOMAIN accepted' = 1..Len(accepted')
          BY <4>5, LenProperties
        <4>7. PICK k \in Nat : k = Len(accepted')
          BY <4>6, Zenon
        <4>8. 1..k = 1..last
          BY <1>d, <4>3, <4>6, <4>7, Zenon
        <4>9. k = last
          <5> HIDE DEF last
          <5>1. last \in Nat
            BY <1>d DEF last
          <5> QED
            BY <4>8, <5>1, SameInterval
        <4> QED
          BY <4>4, <4>7, <4>9, Zenon
      <3>6. accepted'[last].end = final
        <4>1. last \in 1..Len(accepted)
          BY <1>d
        <4>2. accepted[last] \in Accepted /\ last \in DOMAIN accepted
          BY <1>0, <1>d, <4>1, ElementOfSeq DEF TypeOK
        <4> QED
          BY <3>1, <3>4, <4>2 DEF Accepted
      <3>7. Settled = last - 1 /\ Settled' = last - 1
        BY <1>d, <2>1, <2>2, <3>1, <3>2, <3>3 DEF Settled
      <3>8. Dated'
        BY <3>1, <3>2, <3>3, <3>6 DEF Dated
      <3> QED
        BY <1>d, <1>k, <2>1, <3>5, <3>7, <3>8
    <2>3. CASE held = NoPacket
      <3>1. pc' \in {"ready", "eos"} /\ UNCHANGED <<accepted, call>>
        BY <1>13, <2>1, <2>3 DEF Close
      <3>2. Settled = Len(accepted) /\ Settled' = Len(accepted)
        BY <2>1, <2>3, <3>1 DEF Settled
      <3>3. Dated'
        BY <2>1, <3>1 DEF Dated
      <3> QED
        BY <1>d, <1>k, <2>1, <3>1, <3>2, <3>3
    <2> QED
      BY <2>2, <2>3
  <1>14. CASE UNCHANGED vars
    <2>1. UNCHANGED <<seg, gran, sink, pc, call, held, accepted, closing, granule>>
      BY <1>14 DEF vars
    <2>2. Settled' = Settled
      BY <1>e, <2>1 DEF Settled
    <2>3. Dated'
      BY <1>c, <2>1 DEF Dated, LastEnd
    <2> QED
      BY <1>c, <2>1, <2>2, <2>3 DEF Marked
  <1> QED
    BY <1>a, <1>1, <1>2, <1>3, <1>5, <1>6, <1>7, <1>8, <1>9, <1>10, <1>11, <1>12,
       <1>13, <1>14 DEF AnyNext, Step

\* The writer's stamps are true in every reachable state.
THEOREM GranuleInvariant == Spec => []GranuleInv
  <1>1. PageInv /\ OrderInv /\ GranuleInv /\ [AnyNext]_vars => GranuleInv'
    BY GranuleStep
  <1> QED
    BY <1>1, GranuleInit, NextIsAny, PageInvariant, OrderInvariant, PTL DEF Spec

\* What the invariants say of the pages on the sink.
LEMMA StampsExact == PageInv /\ GranuleInv => GranulesExact
  <1> SUFFICES ASSUME PageInv, GranuleInv, fails = 0, NEW k \in DOMAIN sink,
                      CompletesPacket(sink[k].segs)
               PROVE  sink[k].granule = accepted[LastCompleted(sink[k].segs)].end
    BY DEF GranulesExact
  <1>1. sink \in Seq(Page)
    BY DEF PageInv, TypeOK
  <1>2. sink[k].segs \in Seq(Segment)
    BY <1>1, PageFields
  <1>3. PICK i \in DOMAIN sink[k].segs :
            /\ LastEnding(sink[k].segs, i)
            /\ sink[k].granule = accepted[sink[k].segs[i].pkt].end
    BY DEF GranuleInv, Stamped
  <1>4. LastCompleted(sink[k].segs) = sink[k].segs[i].pkt
    BY <1>2, <1>3, LastCompletedIs
  <1> QED
    BY <1>3, <1>4

\* While the sink takes every page, a page's granule position is the cumulative
\* count through the last packet that ends on it, trimmed on the last page of a
\* closed stream, however packets share and span pages (containerWriter.writePacket
\* and close: the hold-back).
THEOREM GranulesCorrect == Spec => []GranulesExact
  BY GranuleInvariant, PageInvariant, StampsExact, PTL

-----------------------------------------------------------------------------
(* For the modules that compose the writer with its callers and readers.     *)

\* A new writer meets all of its invariants.
LEMMA WriterStarts == Init => WriterInv
  BY TypeInit, PagesInit, OrderInit, GranuleInit DEF WriterInv, PageInv

\* Any caller's step keeps them.
LEMMA WriterKeeps == WriterInv /\ [AnyNext]_vars => WriterInv'
  BY TypeStep, PagesStep, OrderStep, GranuleStep DEF WriterInv, PageInv

\* The EOS page of a closed stream is stamped with the end of the last packet.
LEMMA LastStamp ==
    ASSUME WriterInv, fails = 0, closing, pc = "ready"
    PROVE  sink # <<>> /\ sink[Len(sink)].eos /\ sink[Len(sink)].granule = LastEnd
  <1> DEFINE p == sink[Len(sink)]
  <1>1. sink \in Seq(Page) /\ sink # <<>> /\ PagesWellFormed
    BY DEF WriterInv, PageInv, OrderInv, Cursor, TypeOK
  <1>2. Len(sink) \in DOMAIN sink
    BY <1>1, EmptySeq, LenProperties
  <1>3. p.segs \in Seq(Segment) /\ p.segs # <<>>
    BY <1>1, <1>2, PageFields DEF PagesWellFormed, WellPlaced
  <1>4. p.eos /\ EndsPacket(LastSegment(p)) /\ LastSegment(p).pkt = Len(accepted)
    BY ClosedPages DEF WriterInv, ClosedIsComplete
  <1>5. DOMAIN p.segs = 1..Len(p.segs) /\ Len(p.segs) \in DOMAIN p.segs
    BY <1>3, EmptySeq, LenProperties
  <1>6. LastEnding(p.segs, Len(p.segs))
    BY <1>4, <1>5 DEF LastEnding, LastSegment
  <1>7. LastCompleted(p.segs) = Len(accepted)
    BY <1>3, <1>4, <1>5, <1>6, LastCompletedIs DEF LastSegment
  <1>8. CompletesPacket(p.segs)
    BY <1>4, <1>5 DEF CompletesPacket, LastSegment
  <1>9. p.granule = accepted[Len(accepted)].end
    BY <1>2, <1>7, <1>8, StampsExact DEF WriterInv, GranulesExact
  <1> QED
    BY <1>1, <1>4, <1>9 DEF LastEnd

=============================================================================
