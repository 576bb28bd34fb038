-------------------------- MODULE MultistreamProofs --------------------------
(***************************************************************************)
(* Proofs about Multistream: every channel plays what was encoded from it, *)
(* for every layout of streams, pairs and channels; the input of every     *)
(* stream continues and what DTX leaves out is bounded, for every          *)
(* configuration and any calls.                                            *)
(***************************************************************************)
EXTENDS Multistream, WellFoundedInduction, FiniteSetTheorems, TLAPS

-----------------------------------------------------------------------------
(* Layouts                                                                  *)

\* A set of numbers has a least: the induction the folds are done by.
LEMMA LeastOf ==
    ASSUME NEW T \in SUBSET Nat, T # {}
    PROVE  \E n \in T : \A m \in T : n <= m
  <1> DEFINE Less == {ss \in Nat \X Nat : ss[1] < ss[2]}
  <1>1. IsWellFoundedOn(Less, Nat)
    BY NatLessThanWellFounded, Zenon DEF OpToRel
  <1>2. PICK n \in T : \A m \in T : ~ (<<m, n>> \in Less)
    <2> HIDE DEF Less
    <2> QED
      BY <1>1, WFMin
  <1>3. \A m \in T : n <= m
    <2> SUFFICES ASSUME NEW m \in T, m < n PROVE FALSE
      OBVIOUS
    <2>1. <<m, n>> \in Nat \X Nat /\ <<m, n>>[1] < <<m, n>>[2]
      OBVIOUS
    <2>2. <<m, n>> \in Less
      BY <2>1, Zenon
    <2> QED
      BY <1>2, <2>2
  <1> QED
    BY <1>3

\* The first of some channels is one of them.
LEMMA FirstChannel ==
    ASSUME NEW S \in SUBSET Nat, S # {}
    PROVE  Min(S) \in S
  BY LeastOf DEF Min

\* What a layout the code has taken says of its numbers.
LEMMA LayoutFacts ==
    ASSUME c \in Configs, ValidateLayout
    PROVE  /\ c.streams \in Nat /\ c.coupled \in Nat /\ c.streams >= 1
           /\ c.coupled <= c.streams /\ c.streams + c.coupled <= 255
           /\ c.mapping \in [0..(c.channels - 1) -> 0..255]
           /\ \A ch \in DOMAIN c.mapping :
                 /\ c.mapping[ch] \in 0..255
                 /\ c.mapping[ch] < c.streams + c.coupled \/ c.mapping[ch] = 255
  <1>1. c.mapping \in [0..(c.channels - 1) -> 0..255]
    BY ConfigAssumption
  <1>2. c.streams \in 1..255
    BY ConfigAssumption
  <1>3. c.coupled \in 0..c.streams
    BY ConfigAssumption
  <1>4. c.streams + c.coupled <= 255
    BY DEF ValidateLayout
  <1>5. \A ch \in DOMAIN c.mapping :
           /\ c.mapping[ch] \in 0..255
           /\ c.mapping[ch] < c.streams + c.coupled \/ c.mapping[ch] = 255
    <2>1. DOMAIN c.mapping = 0..(c.channels - 1)
      BY <1>1
    <2>2. \A ch \in DOMAIN c.mapping : c.mapping[ch] \in 0..255
      BY <1>1, <2>1, Zenon
    <2> QED
      BY <2>2 DEF ValidateLayout
  <1>6. c.streams \in Nat /\ c.coupled \in Nat /\ c.streams >= 1 /\ c.coupled <= c.streams
    BY <1>2, <1>3
  <1> QED
    BY <1>1, <1>4, <1>5, <1>6

\* The streams' channels, without the layouts' words: a stream of a pair has the places
\* 2s - 2 and 2s - 1 of the mapping, another one the place s - 1 + coupled, no place is
\* 255, and a channel has each.
LEMMA Places ==
    ASSUME c \in Configs, ValidateLayout, ValidateEncoderLayout, NEW s \in Streams
    PROVE  /\ Coupled(s) => /\ Min(LeftOf(s)) \in LeftOf(s)
                            /\ Min(RightOf(s)) \in RightOf(s)
           /\ ~Coupled(s) => Min(MonoOf(s)) \in MonoOf(s)
  <1>1. DOMAIN c.mapping \subseteq Nat
    <2>1. c.mapping \in [0..(c.channels - 1) -> 0..255]
      BY LayoutFacts
    <2>2. c.channels \in 1..255
      BY ConfigAssumption
    <2>3. DOMAIN c.mapping = 0..(c.channels - 1)
      BY <2>1
    <2>4. 0..(c.channels - 1) \subseteq Nat
      BY <2>2
    <2> QED
      BY <2>3, <2>4
  <1>2. \A k : From(k) \in SUBSET Nat
    BY <1>1 DEF From
  <1>3. CASE Coupled(s)
    <2>1. LeftOf(s) # {} /\ RightOf(s) # {}
      BY <1>3 DEF ValidateEncoderLayout
    <2> QED
      BY <1>2, <1>3, <2>1, FirstChannel DEF LeftOf, RightOf
  <1>4. CASE ~Coupled(s)
    <2>1. MonoOf(s) # {}
      BY <1>4 DEF ValidateEncoderLayout
    <2> QED
      BY <1>2, <1>4, <2>1, FirstChannel DEF MonoOf
  <1> QED
    BY <1>3, <1>4

-----------------------------------------------------------------------------
(* What is heard                                                            *)

\* What the streams' packets may carry.
Carries(packets) ==
    \A s \in Streams : packets[s].carries \in {Carried(s, [toc |-> t]) : t \in {0, 4}}

\* A pair's two channels carry their own, or both of them each.
LEMMA Carriage ==
    ASSUME NEW packets, Carries(packets), NEW s \in Streams
    PROVE  /\ ~Coupled(s) => packets[s].carries[1] = {Min(MonoOf(s))}
           /\ Coupled(s) =>
                 /\ Min(LeftOf(s)) \in packets[s].carries[1]
                 /\ Min(RightOf(s)) \in packets[s].carries[2]
                 /\ packets[s].carries[1] \subseteq {Min(LeftOf(s)), Min(RightOf(s))}
                 /\ packets[s].carries[2] \subseteq {Min(LeftOf(s)), Min(RightOf(s))}
  <1>1. PICK t \in {0, 4} : packets[s].carries = Carried(s, [toc |-> t])
    BY DEF Carries
  <1>2. CASE ~Coupled(s)
    BY <1>1, <1>2 DEF Carried
  <1>3. CASE Coupled(s)
    <2> DEFINE L == Min(LeftOf(s))
               R == Min(RightOf(s))
    <2>1. packets[s].carries \in {<<{L} \cup {R}, {L} \cup {R}>>, <<{L}, {R}>>}
      BY <1>1, <1>3 DEF Carried
    <2> HIDE DEF L, R
    <2>2. /\ L \in packets[s].carries[1] /\ R \in packets[s].carries[2]
          /\ packets[s].carries[1] \subseteq {L, R} /\ packets[s].carries[2] \subseteq {L, R}
      BY <2>1
    <2> QED
      BY <1>3, <2>2 DEF L, R
  <1> QED
    BY <1>2, <1>3

\* What a channel gets from one stream.
Share(packets, s, ch) ==
    IF ~Coupled(s) THEN (IF ch \in MonoOf(s) THEN packets[s].carries[1] ELSE {})
    ELSE (IF ch \in LeftOf(s) THEN packets[s].carries[1] ELSE {})
         \cup (IF ch \in RightOf(s) THEN packets[s].carries[2] ELSE {})

\* The place of a channel in the layout says which streams give it anything.
LEMMA PlaceOf ==
    ASSUME c \in Configs, ValidateLayout, NEW s \in Streams, NEW ch \in DOMAIN c.mapping
    PROVE  /\ ch \in MonoOf(s) <=> c.mapping[ch] = s - 1 + c.coupled
           /\ ch \in LeftOf(s) <=> c.mapping[ch] = 2 * (s - 1)
           /\ ch \in RightOf(s) <=> c.mapping[ch] = 2 * (s - 1) + 1
           /\ s \in 1..c.streams
  <1> QED
    BY DEF MonoOf, LeftOf, RightOf, From, Streams

\* A channel hears nothing of a stream, or a channel of the same place or pair.
LEMMA ShareOfPlace ==
    ASSUME c \in Configs, ValidateLayout, ValidateEncoderLayout, NEW packets, Carries(packets),
           NEW s \in Streams, NEW ch \in DOMAIN c.mapping, NEW from \in Share(packets, s, ch)
    PROVE  /\ c.mapping[ch] # 255
           /\ \/ c.mapping[from] = c.mapping[ch]
              \/ /\ c.mapping[ch] < 2 * c.coupled
                 /\ c.mapping[from] \div 2 = c.mapping[ch] \div 2
  <1>1. /\ c.streams \in Nat /\ c.coupled \in Nat /\ c.coupled <= c.streams
        /\ c.streams + c.coupled <= 255 /\ s \in 1..c.streams
    BY LayoutFacts DEF Streams
  <1>2. CASE ~Coupled(s)
    <2>1. ch \in MonoOf(s) /\ from = Min(MonoOf(s))
      BY <1>2, Carriage DEF Share
    <2>2. from \in MonoOf(s)
      BY <1>2, <2>1, Places
    <2>3. c.mapping[ch] = s - 1 + c.coupled /\ c.mapping[from] = s - 1 + c.coupled
      BY <2>1, <2>2 DEF MonoOf, From
    <2> QED
      BY <1>1, <2>3
  <1>3. CASE Coupled(s)
    <2>1. ch \in LeftOf(s) \/ ch \in RightOf(s)
      BY <1>3 DEF Share
    <2>2. from \in {Min(LeftOf(s)), Min(RightOf(s))}
      BY <1>3, Carriage DEF Share
    <2>3. from \in LeftOf(s) \/ from \in RightOf(s)
      BY <1>3, <2>2, Places
    <2>4. /\ c.mapping[ch] \in {2 * (s - 1), 2 * (s - 1) + 1}
          /\ c.mapping[from] \in {2 * (s - 1), 2 * (s - 1) + 1}
      BY <2>1, <2>3 DEF LeftOf, RightOf, From
    <2>5. s <= c.coupled
      BY <1>3 DEF Coupled
    <2> QED
      BY <1>1, <2>4, <2>5
  <1> QED
    BY <1>2, <1>3

\* A channel that is not muted hears the first of its place, of some stream.
LEMMA FirstIsHeard ==
    ASSUME c \in Configs, ValidateLayout, ValidateEncoderLayout, NEW packets, Carries(packets),
           NEW ch \in DOMAIN c.mapping, c.mapping[ch] # 255
    PROVE  \E s \in Streams : Min(From(c.mapping[ch])) \in Share(packets, s, ch)
  <1> DEFINE m == c.mapping[ch]
  <1>1. /\ c.streams \in Nat /\ c.coupled \in Nat /\ c.coupled <= c.streams
        /\ m \in 0..255 /\ m < c.streams + c.coupled
    BY LayoutFacts
  <1>2. ch \in From(m)
    BY DEF From
  <1> HIDE DEF m
  <1>3. CASE m >= 2 * c.coupled
    <2> DEFINE s == m - c.coupled + 1
    <2>1. s \in Streams /\ ~Coupled(s) /\ s - 1 + c.coupled = m
      BY <1>1, <1>3 DEF Streams, Coupled
    <2>2. MonoOf(s) = From(m)
      BY <2>1 DEF MonoOf
    <2> HIDE DEF s
    <2>3. Min(From(m)) \in Share(packets, s, ch)
      BY <1>2, <2>1, <2>2, Carriage DEF Share
    <2> QED
      BY <2>1, <2>3 DEF m
  <1>4. CASE m < 2 * c.coupled
    <2> DEFINE s == m \div 2 + 1
    <2>1. /\ s \in Streams /\ Coupled(s)
          /\ 2 * (s - 1) = m \/ 2 * (s - 1) + 1 = m
      <3>1. PICK h \in Nat : h = m \div 2 /\ (2 * h = m \/ 2 * h + 1 = m)
        BY <1>1
      <3>2. h + 1 \in 1..c.streams /\ h + 1 <= c.coupled
        BY <1>1, <1>4, <3>1
      <3>3. h + 1 - 1 = h /\ s = h + 1
        BY <3>1
      <3> QED
        BY <3>1, <3>2, <3>3 DEF Streams, Coupled
    <2> HIDE DEF s
    <2>2. CASE 2 * (s - 1) = m
      <3>1. LeftOf(s) = From(m)
        BY <2>2 DEF LeftOf
      <3>2. Min(From(m)) \in Share(packets, s, ch)
        BY <1>2, <2>1, <3>1, Carriage DEF Share
      <3> QED
        BY <2>1, <3>2 DEF m
    <2>3. CASE 2 * (s - 1) + 1 = m
      <3>1. RightOf(s) = From(m)
        BY <2>3 DEF RightOf
      <3>2. Min(From(m)) \in Share(packets, s, ch)
        BY <1>2, <2>1, <3>1, Carriage DEF Share
      <3> QED
        BY <2>1, <3>2 DEF m
    <2> QED
      BY <2>1, <2>2, <2>3
  <1> QED
    BY <1>1, <1>3, <1>4

\* Channels are routed right, whatever streams in accord carry.
Rightly(sounds) ==
    \A ch \in DOMAIN sounds :
        IF c.mapping[ch] = 255 THEN sounds[ch] = {}
        ELSE /\ Min(From(c.mapping[ch])) \in sounds[ch]
             /\ \A from \in sounds[ch] :
                   \/ c.mapping[from] = c.mapping[ch]
                   \/ /\ c.mapping[ch] < 2 * c.coupled
                      /\ c.mapping[from] \div 2 = c.mapping[ch] \div 2

LEMMA RoutedRightly ==
    ASSUME c \in Configs, ValidateLayout, ValidateEncoderLayout, NEW packets, Carries(packets)
    PROVE  Rightly(Routed(packets))
  <1>1. /\ DOMAIN Routed(packets) = DOMAIN c.mapping
        /\ \A ch \in DOMAIN c.mapping :
              Routed(packets)[ch] = UNION {Share(packets, s, ch) : s \in Streams}
    BY DEF Routed, Share
  <1> SUFFICES ASSUME NEW ch \in DOMAIN c.mapping
               PROVE  IF c.mapping[ch] = 255 THEN Routed(packets)[ch] = {}
                      ELSE /\ Min(From(c.mapping[ch])) \in Routed(packets)[ch]
                           /\ \A from \in Routed(packets)[ch] :
                                 \/ c.mapping[from] = c.mapping[ch]
                                 \/ /\ c.mapping[ch] < 2 * c.coupled
                                    /\ c.mapping[from] \div 2 = c.mapping[ch] \div 2
    BY <1>1 DEF Rightly
  <1>2. \A from \in Routed(packets)[ch] :
           \E s \in Streams : from \in Share(packets, s, ch)
    BY <1>1
  <1>3. \A from \in Routed(packets)[ch] :
           /\ c.mapping[ch] # 255
           /\ \/ c.mapping[from] = c.mapping[ch]
              \/ /\ c.mapping[ch] < 2 * c.coupled
                 /\ c.mapping[from] \div 2 = c.mapping[ch] \div 2
    BY <1>2, ShareOfPlace
  <1>4. CASE c.mapping[ch] = 255
    BY <1>3, <1>4
  <1>5. CASE c.mapping[ch] # 255
    <2>1. PICK s \in Streams : Min(From(c.mapping[ch])) \in Share(packets, s, ch)
      BY <1>5, FirstIsHeard
    <2>2. Min(From(c.mapping[ch])) \in Routed(packets)[ch]
      BY <1>1, <2>1
    <2> QED
      BY <1>3, <1>5, <2>2
  <1> QED
    BY <1>4, <1>5

-----------------------------------------------------------------------------
(* The packet under way                                                     *)

\* Streams that last the same, in Nat, with channels of their own.
Whole(packets) ==
    /\ packets = [s \in Streams |-> packets[s]] /\ packets[1].samples \in Nat
    /\ \A s \in Streams :
          packets[s] \in [samples : {packets[1].samples},
                          carries : {Carried(s, [toc |-> t]) : t \in {0, 4}}]

\* A packet's TOC is of mono or of stereo.
LEMMA CarriedByToc ==
    ASSUME NEW s, NEW packet
    PROVE  Carried(s, packet) \in {Carried(s, [toc |-> t]) : t \in {0, 4}}
  <1>1. TocChannels(0) = 1 /\ TocChannels(4) = 2
    BY DEF TocChannels
  <1>2. CASE TocChannels(packet.toc) = 1
    <2>1. Carried(s, packet) = Carried(s, [toc |-> 0])
      BY <1>1, <1>2 DEF Carried
    <2> QED
      BY <2>1
  <1>3. CASE TocChannels(packet.toc) # 1
    <2>1. Carried(s, packet) = Carried(s, [toc |-> 4])
      BY <1>1, <1>3 DEF Carried
    <2> QED
      BY <2>1
  <1> QED
    BY <1>2, <1>3

\* A frame is as many samples as there are 2.5 ms in it.
LEMMA FrameInNat ==
    ASSUME c \in Configs, NEW frame \in c.frames
    PROVE  frame \in Nat
  <1>1. PICK k \in {1, 2, 4, 8, 16, 24, 32, 40, 48} : frame = k * (Fs \div 400)
    BY ConfigAssumption
  <1>2. Fs \div 400 \in Nat
    BY RateAssumption
  <1> QED
    BY <1>1, <1>2

\* What an encoder makes of frames is whole.
LEMMA MadeWhole ==
    ASSUME c \in Configs, ValidateLayout, NEW frame \in c.frames, NEW packets,
           packets = [s \in Streams |-> packets[s]],
           \A s \in Streams : \E packet :
              packets[s] = [samples |-> frame, carries |-> Carried(s, packet)]
    PROVE  Whole(packets) /\ packets # <<>>
  <1>1. \A s \in Streams :
           packets[s] \in [samples : {frame}, carries : {Carried(s, [toc |-> t]) : t \in {0, 4}}]
    BY CarriedByToc
  <1>2. 1 \in Streams
    BY LayoutFacts DEF Streams
  <1>3. packets[1].samples = frame
    BY <1>1, <1>2
  <1> QED
    BY <1>1, <1>2, <1>3, FrameInNat DEF Whole

\* A packet the decoder takes, cut or changed as it may be, is the one that was sent but
\* for its duration, if there is one stream.
LEMMA TakenPackets ==
    ASSUME c \in Configs, ValidateLayout, Whole(sent), NEW packets \in Arrivals,
           PacketValidate(packets)
    PROVE  /\ Carries(packets)
           /\ \A s \in Streams : packets[s].samples = packets[1].samples
           /\ packets[1].samples \in Nat
  <1>1. c.streams \in Nat /\ c.streams >= 1 /\ 1 \in Streams
    BY LayoutFacts DEF Streams
  <1>2. /\ sent = [s \in Streams |-> sent[s]] /\ DOMAIN sent = Streams /\ sent[1].samples \in Nat
        /\ \A s \in Streams :
              sent[s] \in [samples : {sent[1].samples},
                           carries : {Carried(s, [toc |-> t]) : t \in {0, 4}}]
    BY DEF Whole
  <1>3. /\ Len(packets) = c.streams
        /\ \A s \in Streams : packets[s].samples = packets[1].samples
    BY DEF PacketValidate
  <1>4. CASE packets = sent
    BY <1>1, <1>2, <1>3, <1>4 DEF Carries
  <1>5. CASE \E n \in 0..(Len(sent) - 1) : packets = SubSeq(sent, 1, n)
    <2>1. PICK n \in 0..(Len(sent) - 1) : packets = SubSeq(sent, 1, n)
      BY <1>5
    <2>2. sent = [s \in 1..c.streams |-> sent[s]] /\ Len(sent) = c.streams
      <3>1. sent = [s \in 1..c.streams |-> sent[s]]
        BY <1>2 DEF Streams
      <3> QED
        BY <1>1, <3>1
    <2>3. Len(packets) = n
      BY <1>1, <2>1, <2>2
    <2> QED
      BY <1>1, <1>3, <2>2, <2>3
  <1>6. CASE \E at \in DOMAIN sent : packets = [sent EXCEPT ![at].samples = 2 * @]
    <2>1. PICK at \in Streams : packets = [sent EXCEPT ![at].samples = 2 * @]
      BY <1>2, <1>6
    <2>2. \A s \in Streams : packets[s].carries = sent[s].carries
      BY <1>2, <2>1
    <2>3. packets[1].samples \in {sent[1].samples, 2 * sent[1].samples}
      BY <1>1, <1>2, <2>1
    <2>4. packets[1].samples \in Nat
      BY <1>2, <2>3
    <2> QED
      BY <1>2, <1>3, <2>2, <2>4 DEF Carries
  <1> QED
    BY <1>4, <1>5, <1>6 DEF Arrivals

-----------------------------------------------------------------------------
(* The invariant                                                            *)

\* The decoders advance as one, or one of them has failed.
LEMMA DecodeKeeps ==
    ASSUME ChannelInv, ~torn, sent # <<>>, NEW packets \in Arrivals, Decode(packets),
           UNCHANGED c
    PROVE  ChannelsKept'
  <1>1. /\ c \in Configs /\ ValidateLayout /\ ValidateEncoderLayout /\ Whole(sent)
        /\ \A s \in Streams : lead[s] = 0
    BY DEF ChannelInv, ChannelsKept, Whole
  <1>2. c' = c /\ Streams' = Streams /\ (\A k : From(k)' = From(k))
    BY DEF Streams, From
  <1>3. ASSUME ~torn' => \A s \in Streams : lead'[s] = 0, heard' = <<>> \/ Rightly(heard')
        PROVE  ChannelsKept'
    BY <1>2, <1>3 DEF ChannelsKept, Rightly
  <1>4. CASE ~PacketValidate(packets)
    <2>1. lead' = lead /\ torn' = torn /\ heard' = <<>>
      BY <1>4 DEF Decode
    <2> QED
      BY <1>1, <1>3, <2>1
  <1>5. CASE PacketValidate(packets)
    <2>1. /\ Carries(packets) /\ packets[1].samples \in Nat
          /\ \A s \in Streams : packets[s].samples = packets[1].samples
      BY <1>1, <1>5, TakenPackets
    <2>2. CASE /\ lead' = Advance(packets, c.streams) /\ heard' = Routed(packets)
               /\ UNCHANGED torn
      <3>1. Rightly(heard')
        BY <1>1, <2>1, <2>2, RoutedRightly
      <3>2. c.streams \in Nat /\ c.streams >= 1 /\ \A s \in Streams : s <= c.streams
        BY <1>1, LayoutFacts DEF Streams
      <3>3. \A s \in Streams : lead'[s] = 0
        BY <1>1, <2>1, <2>2, <3>2 DEF Advance
      <3> QED
        BY <1>3, <3>1, <3>3
    <2>3. CASE torn' = TRUE /\ heard' = <<>>
      BY <1>3, <2>3
    <2> QED
      BY <1>5, <2>2, <2>3 DEF Decode
  <1> QED
    BY <1>4, <1>5

\* An encoder's packet is whole, when there is one.
LEMMA EncodeSends ==
    ASSUME ChannelInv, Encode
    PROVE  sent' = <<>> \/ (Whole(sent') /\ sent' # <<>>)
  <1>1. c \in Configs /\ ValidateLayout
    BY DEF ChannelInv
  <1>2. sent = <<>>
    BY DEF Encode
  <1>3. PICK frame \in c.frames, room \in c.rooms, want \in c.wants :
           \E silent : \/ c.multi /\ EncodeMulti(frame, room, silent, want)
                       \/ ~c.multi /\ EncodeSingle(frame, room, silent, want)
    BY DEF Encode
  <1> PICK silent : \/ c.multi /\ EncodeMulti(frame, room, silent, want)
                    \/ ~c.multi /\ EncodeSingle(frame, room, silent, want)
    BY <1>3, Zenon
  <1>4. CASE c.multi /\ EncodeMulti(frame, room, silent, want)
    <2>1. CASE UNCHANGED sent
      BY <1>2, <2>1
    <2>2. CASE \E budget \in {Budget(frame, room)} :
               \E a \in {EncodeStreams(frame, budget, silent, want)} :
                  sent' = IF ~a.ok THEN <<>>
                          ELSE [s \in Streams |-> [samples |-> frame,
                                                   carries |-> Carried(s, a.results[s].packet)]]
      <3>1. PICK a :
               sent' = IF ~a.ok THEN <<>>
                       ELSE [s \in Streams |-> [samples |-> frame,
                                                carries |-> Carried(s, a.results[s].packet)]]
        BY <2>2
      <3>2. CASE a.ok
        <4>1. sent' = [s \in Streams |-> [samples |-> frame,
                                          carries |-> Carried(s, a.results[s].packet)]]
          BY <3>1, <3>2
        <4>2. sent' = [s \in Streams |-> sent'[s]]
          BY <4>1
        <4>3. \A s \in Streams : \E packet :
                 sent'[s] = [samples |-> frame, carries |-> Carried(s, packet)]
          BY <4>1
        <4> QED
          BY <1>1, <4>2, <4>3, MadeWhole
      <3> QED
        BY <3>1, <3>2
    <2> QED
      BY <1>4, <2>1, <2>2 DEF EncodeMulti
  <1>5. CASE ~c.multi /\ EncodeSingle(frame, room, silent, want)
    <2>1. PICK r \in {EncodeNative(c, enc[1], c.bitrate, frame, room, silent[1], want)} :
             sent' = IF r.packet.len = Refused THEN <<>>
                     ELSE << [samples |-> frame, carries |-> Carried(1, r.packet)] >>
      BY <1>5 DEF EncodeSingle
    <2>2. Streams = {1}
      <3>1. c.streams = 1
        BY <1>1, <1>5, ConfigAssumption
      <3> QED
        BY <3>1 DEF Streams
    <2>3. CASE r.packet.len # Refused
      <3>1. sent' = << [samples |-> frame, carries |-> Carried(1, r.packet)] >>
        BY <2>1, <2>3
      <3>2. sent' = [s \in Streams |-> sent'[s]]
        BY <2>2, <3>1
      <3>3. \A s \in Streams : \E packet :
               sent'[s] = [samples |-> frame, carries |-> Carried(s, packet)]
        BY <2>2, <3>1
      <3> QED
        BY <1>1, <3>2, <3>3, MadeWhole
    <2> QED
      BY <2>1, <2>3
  <1> QED
    BY <1>4, <1>5

\* A whole packet stays one while the layout does.
LEMMA ChannelInvNext ==
    ASSUME ChannelInv, UNCHANGED c, ChannelsKept', sent' = <<>> \/ Whole(sent')
    PROVE  ChannelInv'
  <1>1. /\ Streams' = Streams /\ (ValidateLayout = ValidateLayout')
        /\ (ValidateEncoderLayout = ValidateEncoderLayout')
        /\ \A s, t : Carried(s, t)' = Carried(s, t)
    BY DEF Streams, ValidateLayout, ValidateEncoderLayout, LeftOf, RightOf, MonoOf, From,
           Coupled, Carried
  <1>2. sent' # <<>> =>
           /\ sent' = [s \in Streams |-> sent'[s]] /\ sent'[1].samples \in Nat
           /\ \A s \in Streams :
                 sent'[s] \in [samples : {sent'[1].samples},
                               carries : {Carried(s, [toc |-> t]) : t \in {0, 4}}]
    BY DEF Whole
  <1> QED
    BY <1>1, <1>2 DEF ChannelInv

LEMMA ChannelStarts == Init => ChannelInv
  <1> SUFFICES ASSUME Init PROVE ChannelInv
    OBVIOUS
  <1>1. c \in Configs /\ ValidateLayout /\ ValidateEncoderLayout
    BY DEF Init, Layouts
  <1>2. lead = [s \in Streams |-> 0] /\ sent = <<>> /\ heard = <<>>
    BY DEF Init
  <1> QED
    BY <1>1, <1>2 DEF ChannelInv, ChannelsKept

LEMMA ChannelStep == ChannelInv /\ [Next]_msvars => ChannelInv'
  <1> SUFFICES ASSUME ChannelInv, [Next]_msvars PROVE ChannelInv'
    OBVIOUS
  <1>1. sent # <<>> => Whole(sent)
    BY DEF ChannelInv, Whole
  <1>2. (c' = c /\ lead' = lead /\ torn' = torn /\ (heard' = <<>> \/ heard' = heard))
           => ChannelsKept'
    <2> SUFFICES ASSUME c' = c, lead' = lead, torn' = torn, heard' = <<>> \/ heard' = heard
                 PROVE  ChannelsKept'
      OBVIOUS
    <2>1. (~torn => \A s \in Streams : lead[s] = 0) /\ (heard = <<>> \/ Rightly(heard))
      BY DEF ChannelInv, ChannelsKept, Rightly
    <2>2. Streams' = Streams /\ \A k : From(k)' = From(k)
      BY DEF Streams, From
    <2>3. heard' = <<>> \/ Rightly(heard')
      BY <2>1
    <2>4. ~torn' => \A s \in Streams' : lead'[s] = 0
      BY <2>1, <2>2
    <2> QED
      BY <2>2, <2>3, <2>4 DEF ChannelsKept, Rightly
  <1>3. CASE Encode
    <2>1. UNCHANGED <<c, lead, torn>> /\ heard' = <<>>
      BY <1>3 DEF Encode
    <2> QED
      BY <1>2, <1>3, <2>1, EncodeSends, ChannelInvNext
  <1>4. CASE ResetEncoder
    BY <1>1, <1>2, <1>4, ChannelInvNext DEF ResetEncoder
  <1>5. CASE Deliver
    <2>1. sent # <<>> /\ ~torn /\ sent' = <<>> /\ UNCHANGED c
      BY <1>5 DEF Deliver
    <2>2. PICK packets \in Arrivals : Decode(packets)
      BY <1>5 DEF Deliver
    <2>3. ChannelsKept'
      BY <2>1, <2>2, DecodeKeeps
    <2> QED
      BY <2>1, <2>3, ChannelInvNext
  <1>6. CASE Lose
    BY <1>2, <1>6, ChannelInvNext DEF Lose
  <1>7. CASE ResetDecoder
    <2>1. /\ c' = c /\ sent' = sent /\ heard' = <<>>
          /\ lead' = [s \in Streams |-> 0]
      BY <1>7 DEF ResetDecoder
    <2>2. Streams' = Streams
      BY <2>1 DEF Streams
    <2>3. ChannelsKept'
      BY <2>1, <2>2 DEF ChannelsKept
    <2> QED
      BY <1>1, <2>1, <2>3, ChannelInvNext
  <1>8. CASE UNCHANGED msvars
    BY <1>1, <1>2, <1>8, ChannelInvNext DEF msvars
  <1> QED
    BY <1>3, <1>4, <1>5, <1>6, <1>7, <1>8 DEF Next

\* For every layout of up to 255 streams, pairs and channels, muted ones and twins among
\* them, and through packets cut, changed, lost or failing half way: a channel plays what
\* was encoded from it or its twin, and the decoders stay in step (NewMSEncoder's layout
\* checks, msPacketValidate, the channel copies of decodeNative).
THEOREM ChannelsAlwaysKept == Spec => []ChannelsKept
  <1>1. ChannelInv => ChannelsKept
    BY DEF ChannelInv
  <1> QED
    BY <1>1, ChannelStarts, ChannelStep, PTL DEF Spec

-----------------------------------------------------------------------------
(* Folds over sequences.                                                     *)

\* A set that holds 0, and with each number the next, holds them all.
LEMMA Climb ==
    ASSUME NEW n \in Nat, NEW T, 0 \in T, \A k \in 1..n : k - 1 \in T => k \in T
    PROVE  \A k \in 0..n : k \in T
  <1> DEFINE Out == {k \in 0..n : k \notin T}
  <1> SUFFICES ASSUME Out # {} PROVE FALSE
    OBVIOUS
  <1>1. PICK k \in Out : \A j \in Out : k <= j
    <2>1. Out \in SUBSET Nat
      OBVIOUS
    <2> HIDE DEF Out
    <2> QED
      BY <2>1, LeastOf
  <1>2. k \in 1..n /\ k - 1 \in 0..n /\ ~(k <= k - 1)
    BY <1>1
  <1> QED
    BY <1>1, <1>2

\* The last of the first k numbers.
LEMMA LastOf ==
    ASSUME NEW k \in Nat, NEW s \in SUBSET (1..k), k \in s
    PROVE  Max(s) = k
  <1>1. k \in s /\ \A y \in s : k >= y
    OBVIOUS
  <1>2. \A x \in s : (\A y \in s : x >= y) => x = k
    BY <1>1
  <1> QED
    BY <1>1, <1>2, Zenon DEF Max

\* The last of some of the first numbers is one of them.
LEMMA LastIn ==
    ASSUME NEW n \in Nat, NEW s \in SUBSET (1..n), s # {}
    PROVE  Max(s) \in s
  <1> DEFINE T == {n - x : x \in s}
  <1>1. PICK m \in T : \A j \in T : m <= j
    <2>1. T \in SUBSET Nat /\ T # {}
      OBVIOUS
    <2> HIDE DEF T
    <2> QED
      BY <2>1, LeastOf
  <1>2. PICK x \in s : m = n - x
    BY <1>1
  <1>3. \A y \in s : x >= y
    <2> SUFFICES ASSUME NEW y \in s PROVE x >= y
      OBVIOUS
    <2>1. n - y \in T
      OBVIOUS
    <2>2. n - x <= n - y
      BY <1>1, <1>2, <2>1
    <2>3. x \in Nat /\ y \in Nat
      OBVIOUS
    <2> HIDE DEF T
    <2> QED
      BY <2>2, <2>3
  <1> QED
    BY <1>3, Zenon DEF Max

\* Without the last, the first k numbers are the first k - 1.
LEMMA FirstNumbers ==
    ASSUME NEW k \in Nat, k # 0
    PROVE  Max(1..k) = k /\ 1..k # {} /\ (1..k) \ {k} = 1..(k - 1)
  <1>1. 1..k \in SUBSET (1..k) /\ k \in 1..k /\ (1..k) \ {k} = 1..(k - 1)
    OBVIOUS
  <1> QED
    BY <1>1, LastOf

\* A function that a fold is computed with: what it gives for any of the places.
Folded(g, V, base, n, step) ==
    /\ g \in [SUBSET (1..n) -> V]
    /\ \A s \in SUBSET (1..n) : g[s] = IF s = {} THEN base ELSE step[<<g[s \ {Max(s)}], Max(s)>>]

\* The function a fold is the value of exists, by a least counterexample.
LEMMA FoldExists ==
    ASSUME NEW V, NEW base \in V, NEW n \in Nat, NEW step,
           \A v \in V, k \in 1..n : step[<<v, k>>] \in V
    PROVE  \E g : Folded(g, V, base, n, step)
  <1> DEFINE Has(k) == \E g \in [SUBSET (1..k) -> V] : \A s \in SUBSET (1..k) :
                          g[s] = IF s = {} THEN base ELSE step[<<g[s \ {Max(s)}], Max(s)>>]
             T == {k \in 0..n : Has(k)}
  <1>1. 0 \in T
    <2> DEFINE e == [s \in SUBSET (1..0) |-> base]
    <2>1. \A s \in SUBSET (1..0) : s = {}
      OBVIOUS
    <2>2. \A s \in SUBSET (1..0) :
             e[s] = IF s = {} THEN base ELSE step[<<e[s \ {Max(s)}], Max(s)>>]
      BY <2>1, Zenon
    <2>3. e \in [SUBSET (1..0) -> V]
      OBVIOUS
    <2>4. Has(0)
      <3> HIDE DEF e
      <3> QED
        BY <2>2, <2>3, Zenon
    <2>5. 0 \in 0..n
      OBVIOUS
    <2> QED
      BY <2>4, <2>5, Zenon
  <1>2. ASSUME NEW k \in 1..n, k - 1 \in T PROVE k \in T
    <2>1. PICK g \in [SUBSET (1..(k - 1)) -> V] : \A s \in SUBSET (1..(k - 1)) :
             g[s] = IF s = {} THEN base ELSE step[<<g[s \ {Max(s)}], Max(s)>>]
      BY <1>2, Zenon
    <2> DEFINE h == [s \in SUBSET (1..k) |-> IF k \in s THEN step[<<g[s \ {k}], k>>] ELSE g[s]]
    <2>k. k \in Nat /\ k # 0
      OBVIOUS
    <2>2. \A s \in SUBSET (1..k) : s \ {k} \in SUBSET (1..(k - 1)) /\ (k \notin s => s \ {k} = s)
      OBVIOUS
    <2>3. h \in [SUBSET (1..k) -> V]
      <3> SUFFICES ASSUME NEW s \in SUBSET (1..k)
                   PROVE  (IF k \in s THEN step[<<g[s \ {k}], k>>] ELSE g[s]) \in V
        BY Zenon
      <3>1. g[s \ {k}] \in V
        BY <2>2, Zenon
      <3>2. step[<<g[s \ {k}], k>>] \in V
        BY <3>1, Zenon
      <3>3. k \notin s => g[s] \in V
        BY <2>2, <3>1
      <3> QED
        BY <3>2, <3>3, Zenon
    <2>4. ASSUME NEW s \in SUBSET (1..k)
          PROVE  h[s] = IF s = {} THEN base ELSE step[<<h[s \ {Max(s)}], Max(s)>>]
      <3>1. CASE k \in s
        <4>1. Max(s) = k
          BY <2>k, <3>1, LastOf
        <4>2. s \ {k} \in SUBSET (1..k) /\ k \notin s \ {k} /\ s # {}
          BY <3>1
        <4>3. h[s \ {k}] = g[s \ {k}] /\ h[s] = step[<<g[s \ {k}], k>>]
          BY <3>1, <4>2, Zenon
        <4> QED
          BY <4>1, <4>2, <4>3, Zenon
      <3>2. CASE k \notin s
        <4>1. s \in SUBSET (1..(k - 1))
          BY <2>2, <3>2
        <4>2. h[s] = g[s]
          BY <3>2, Zenon
        <4>3. g[s] = IF s = {} THEN base ELSE step[<<g[s \ {Max(s)}], Max(s)>>]
          BY <2>1, <4>1, Zenon
        <4>4. s \ {Max(s)} \in SUBSET (1..k) /\ k \notin s \ {Max(s)}
          BY <3>2
        <4>5. h[s \ {Max(s)}] = g[s \ {Max(s)}]
          BY <4>4, Zenon
        <4> QED
          BY <4>2, <4>3, <4>5, Zenon
      <3> QED
        BY <3>1, <3>2
    <2>5. Has(k)
      <3> HIDE DEF h
      <3> QED
        BY <2>3, <2>4, Zenon
    <2>6. k \in 0..n
      OBVIOUS
    <2> QED
      BY <2>5, <2>6, Zenon
  <1>3. n \in 0..n
    OBVIOUS
  <1> HIDE DEF T
  <1>4. n \in T
    BY <1>1, <1>2, <1>3, Climb, Zenon
  <1> QED
    BY <1>4, Zenon DEF T, Folded

\* What the fold gives for the first places, one after the other.
Chained(w, V, base, n, step) ==
    /\ w \in [0..n -> V] /\ w[0] = base
    /\ \A k \in 1..n : w[k] = step[<<w[k - 1], k>>]

Follows(g, V, base, n, step) ==
    /\ \A v \in V, k \in 1..n : step[<<v, k>>] \in V
    /\ g[{}] = base
    /\ \A k \in 1..n : g[1..(k - 1)] \in V => g[1..k] = step[<<g[1..(k - 1)], k>>]

\* And its values at the first numbers make a chain, one step from the next.
LEMMA FoldChain ==
    ASSUME NEW V, NEW base \in V, NEW n \in Nat, NEW step, NEW g,
           Follows(g, V, base, n, step)
    PROVE  \E w : Chained(w, V, base, n, step) /\ w[n] = g[1..n]
  <1> DEFINE w == [k \in 0..n |-> g[1..k]]
             T == {k \in 0..n : w[k] \in V}
  <1>1. /\ 1..0 = {} /\ 0 \in 0..n /\ n \in 0..n
        /\ \A k \in 1..n : k \in 0..n /\ k - 1 \in 0..n
    OBVIOUS
  <1>2. w[0] = base /\ w[n] = g[1..n]
    BY <1>1 DEF Follows
  <1>3. \A k \in 1..n : w[k] = g[1..k] /\ w[k - 1] = g[1..(k - 1)]
    BY <1>1, Zenon
  <1>4. \A k \in 1..n : w[k - 1] \in V => w[k] = step[<<w[k - 1], k>>]
    BY <1>3, Zenon DEF Follows
  <1>5. DOMAIN w = 0..n /\ w = [k \in 0..n |-> w[k]]
    OBVIOUS
  <1> HIDE DEF w
  <1>6. \A k \in 0..n : w[k] \in V
    <2>1. 0 \in T
      BY <1>1, <1>2
    <2>2. ASSUME NEW k \in 1..n, k - 1 \in T PROVE k \in T
      <3>1. w[k - 1] \in V
        BY <2>2
      <3>2. w[k] = step[<<w[k - 1], k>>]
        BY <1>4, <3>1
      <3>3. w[k] \in V
        BY <3>1, <3>2, Zenon DEF Follows
      <3> QED
        BY <1>1, <3>3
    <2> HIDE DEF T
    <2>3. \A k \in 0..n : k \in T
      BY <2>1, <2>2, Climb, Zenon
    <2> QED
      BY <2>3 DEF T
  <1>7. w \in [0..n -> V]
    BY <1>5, <1>6
  <1>8. \A k \in 1..n : w[k] = step[<<w[k - 1], k>>]
    BY <1>1, <1>4, <1>6
  <1> QED
    BY <1>2, <1>7, <1>8, Zenon DEF Chained

\* The frames of a packet.
FrameFold(m, a0, q) == FoldLeft(LAMBDA a, i : SubFrame(m, a, i), a0, q)

\* What they are computed with.
FrameValues(g, m, a0, q, n) ==
    g = [t \in SUBSET (1..n) |-> IF t = {} THEN a0 ELSE SubFrame(m, g[t \ {Max(t)}], q[Max(t)])]

\* One after the other.
FrameByFrame(w, V, m, a0, q, n) ==
    /\ w \in [0..n -> V] /\ w[0] = a0
    /\ \A k \in 1..n : w[k] = SubFrame(m, w[k - 1], q[k])

\* The frames are a chain of steps, each at the next frame.
LEMMA FramesInTurn ==
    ASSUME NEW V, NEW m, NEW a0 \in V, NEW q, NEW n \in Nat, DOMAIN q = 1..n,
           \A v \in V, k \in 1..n : SubFrame(m, v, q[k]) \in V
    PROVE  \E w : FrameByFrame(w, V, m, a0, q, n) /\ FrameFold(m, a0, q) = w[n]
  <1> DEFINE g == CHOOSE g : FrameValues(g, m, a0, q, n)
             step == [vk \in V \X (1..n) |-> SubFrame(m, vk[1], q[vk[2]])]
  <1>1. FrameFold(m, a0, q) = g[1..n]
    BY Zenon DEF FrameFold, FoldLeft, MapThenFoldSet, FrameValues
  <1>2. \A v \in V, k \in 1..n : step[<<v, k>>] = SubFrame(m, v, q[k])
    OBVIOUS
  <1>c. \A v \in V, k \in 1..n : step[<<v, k>>] \in V
    BY <1>2, Zenon
  <1> HIDE DEF step
  <1>3. \E h : FrameValues(h, m, a0, q, n)
    <2>1. PICK h : Folded(h, V, a0, n, step)
      BY <1>c, FoldExists, Zenon
    <2>2. ASSUME NEW t \in SUBSET (1..n)
          PROVE  h[t] = IF t = {} THEN a0 ELSE SubFrame(m, h[t \ {Max(t)}], q[Max(t)])
      <3>1. h[t] = IF t = {} THEN a0 ELSE step[<<h[t \ {Max(t)}], Max(t)>>]
        BY <2>1, Zenon DEF Folded
      <3>2. t # {} => Max(t) \in 1..n
        BY LastIn
      <3>3. t \ {Max(t)} \in SUBSET (1..n)
        OBVIOUS
      <3>4. h[t \ {Max(t)}] \in V
        BY <2>1, <3>3, Zenon DEF Folded
      <3> QED
        BY <1>2, <3>1, <3>2, <3>4, Zenon
    <2>3. h = [t \in SUBSET (1..n) |-> h[t]]
      BY <2>1 DEF Folded
    <2> QED
      BY <2>2, <2>3, Zenon DEF FrameValues
  <1>4. FrameValues(g, m, a0, q, n)
    BY <1>3, Zenon
  <1> HIDE DEF g
  <1>5. \A t \in SUBSET (1..n) :
           g[t] = IF t = {} THEN a0 ELSE SubFrame(m, g[t \ {Max(t)}], q[Max(t)])
    BY <1>4, Zenon DEF FrameValues
  <1>6. g[{}] = a0
    <2>1. {} \in SUBSET (1..n)
      OBVIOUS
    <2> QED
      BY <1>5, <2>1, Zenon
  <1>7. ASSUME NEW k \in 1..n, g[1..(k - 1)] \in V
        PROVE  g[1..k] = step[<<g[1..(k - 1)], k>>]
    <2>1. 1..k \in SUBSET (1..n) /\ k \in Nat /\ k # 0
      OBVIOUS
    <2>2. Max(1..k) = k /\ 1..k # {} /\ (1..k) \ {k} = 1..(k - 1)
      BY <2>1, FirstNumbers, Zenon
    <2>3. g[1..k] = SubFrame(m, g[1..(k - 1)], q[k])
      BY <1>5, <2>1, <2>2, Zenon
    <2> QED
      BY <1>2, <1>7, <2>3, Zenon
  <1>a. Follows(g, V, a0, n, step)
    BY <1>c, <1>6, <1>7, Zenon DEF Follows
  <1>8. PICK w : Chained(w, V, a0, n, step) /\ w[n] = g[1..n]
    BY <1>a, FoldChain
  <1>9. \A k \in 1..n : w[k] = SubFrame(m, w[k - 1], q[k])
    <2> SUFFICES ASSUME NEW k \in 1..n PROVE w[k] = SubFrame(m, w[k - 1], q[k])
      OBVIOUS
    <2>1. k - 1 \in 0..n
      OBVIOUS
    <2>2. w[k - 1] \in V /\ w[k] = step[<<w[k - 1], k>>]
      BY <1>8, <2>1, Zenon DEF Chained
    <2> QED
      BY <1>2, <2>2, Zenon
  <1> QED
    BY <1>1, <1>8, <1>9, Zenon DEF Chained, FrameByFrame

\* The streams of a packet.
StreamFold(m, a0, q) == FoldLeft(LAMBDA a, i : EncodeStream(m, a, i), a0, q)

\* What they are computed with.
StreamValues(g, m, a0, q, n) ==
    g = [t \in SUBSET (1..n) |-> IF t = {} THEN a0 ELSE EncodeStream(m, g[t \ {Max(t)}], q[Max(t)])]

\* One after the other.
StreamByStream(w, V, m, a0, q, n) ==
    /\ w \in [0..n -> V] /\ w[0] = a0
    /\ \A k \in 1..n : w[k] = EncodeStream(m, w[k - 1], q[k])

\* So are the streams.
LEMMA StreamsInTurn ==
    ASSUME NEW V, NEW m, NEW a0 \in V, NEW q, NEW n \in Nat, DOMAIN q = 1..n,
           \A v \in V, k \in 1..n : EncodeStream(m, v, q[k]) \in V
    PROVE  \E w : StreamByStream(w, V, m, a0, q, n) /\ StreamFold(m, a0, q) = w[n]
  <1> DEFINE g == CHOOSE g : StreamValues(g, m, a0, q, n)
             step == [vk \in V \X (1..n) |-> EncodeStream(m, vk[1], q[vk[2]])]
  <1>1. StreamFold(m, a0, q) = g[1..n]
    BY Zenon DEF StreamFold, FoldLeft, MapThenFoldSet, StreamValues
  <1>2. \A v \in V, k \in 1..n : step[<<v, k>>] = EncodeStream(m, v, q[k])
    OBVIOUS
  <1>c. \A v \in V, k \in 1..n : step[<<v, k>>] \in V
    BY <1>2, Zenon
  <1> HIDE DEF step
  <1>3. \E h : StreamValues(h, m, a0, q, n)
    <2>1. PICK h : Folded(h, V, a0, n, step)
      BY <1>c, FoldExists, Zenon
    <2>2. ASSUME NEW t \in SUBSET (1..n)
          PROVE  h[t] = IF t = {} THEN a0 ELSE EncodeStream(m, h[t \ {Max(t)}], q[Max(t)])
      <3>1. h[t] = IF t = {} THEN a0 ELSE step[<<h[t \ {Max(t)}], Max(t)>>]
        BY <2>1, Zenon DEF Folded
      <3>2. t # {} => Max(t) \in 1..n
        BY LastIn
      <3>3. t \ {Max(t)} \in SUBSET (1..n)
        OBVIOUS
      <3>4. h[t \ {Max(t)}] \in V
        BY <2>1, <3>3, Zenon DEF Folded
      <3> QED
        BY <1>2, <3>1, <3>2, <3>4, Zenon
    <2>3. h = [t \in SUBSET (1..n) |-> h[t]]
      BY <2>1 DEF Folded
    <2> QED
      BY <2>2, <2>3, Zenon DEF StreamValues
  <1>4. StreamValues(g, m, a0, q, n)
    BY <1>3, Zenon
  <1> HIDE DEF g
  <1>5. \A t \in SUBSET (1..n) :
           g[t] = IF t = {} THEN a0 ELSE EncodeStream(m, g[t \ {Max(t)}], q[Max(t)])
    BY <1>4, Zenon DEF StreamValues
  <1>6. g[{}] = a0
    <2>1. {} \in SUBSET (1..n)
      OBVIOUS
    <2> QED
      BY <1>5, <2>1, Zenon
  <1>7. ASSUME NEW k \in 1..n, g[1..(k - 1)] \in V
        PROVE  g[1..k] = step[<<g[1..(k - 1)], k>>]
    <2>1. 1..k \in SUBSET (1..n) /\ k \in Nat /\ k # 0
      OBVIOUS
    <2>2. Max(1..k) = k /\ 1..k # {} /\ (1..k) \ {k} = 1..(k - 1)
      BY <2>1, FirstNumbers, Zenon
    <2>3. g[1..k] = EncodeStream(m, g[1..(k - 1)], q[k])
      BY <1>5, <2>1, <2>2, Zenon
    <2> QED
      BY <1>2, <1>7, <2>3, Zenon
  <1>a. Follows(g, V, a0, n, step)
    BY <1>c, <1>6, <1>7, Zenon DEF Follows
  <1>8. PICK w : Chained(w, V, a0, n, step) /\ w[n] = g[1..n]
    BY <1>a, FoldChain
  <1>9. \A k \in 1..n : w[k] = EncodeStream(m, w[k - 1], q[k])
    <2> SUFFICES ASSUME NEW k \in 1..n PROVE w[k] = EncodeStream(m, w[k - 1], q[k])
      OBVIOUS
    <2>1. k - 1 \in 0..n
      OBVIOUS
    <2>2. w[k - 1] \in V /\ w[k] = step[<<w[k - 1], k>>]
      BY <1>8, <2>1, Zenon DEF Chained
    <2> QED
      BY <1>2, <2>2, Zenon
  <1> QED
    BY <1>1, <1>8, <1>9, Zenon DEF Chained, StreamByStream

\* The run of silence over the frames of a packet.
RunFold(m, a0, q) == FoldLeft(LAMBDA a, i : RanOne(m, a, i), a0, q)

\* What it is computed with.
RunValues(g, m, a0, q, n) ==
    g = [t \in SUBSET (1..n) |-> IF t = {} THEN a0 ELSE RanOne(m, g[t \ {Max(t)}], q[Max(t)])]

\* Frame by frame.
RunByRun(w, V, m, a0, q, n) ==
    /\ w \in [0..n -> V] /\ w[0] = a0
    /\ \A k \in 1..n : w[k] = RanOne(m, w[k - 1], q[k])

\* And so is the history of a stream.
LEMMA RunsInTurn ==
    ASSUME NEW V, NEW m, NEW a0 \in V, NEW q, NEW n \in Nat, DOMAIN q = 1..n,
           \A v \in V, k \in 1..n : RanOne(m, v, q[k]) \in V
    PROVE  \E w : RunByRun(w, V, m, a0, q, n) /\ RunFold(m, a0, q) = w[n]
  <1> DEFINE g == CHOOSE g : RunValues(g, m, a0, q, n)
             step == [vk \in V \X (1..n) |-> RanOne(m, vk[1], q[vk[2]])]
  <1>1. RunFold(m, a0, q) = g[1..n]
    BY Zenon DEF RunFold, FoldLeft, MapThenFoldSet, RunValues
  <1>2. \A v \in V, k \in 1..n : step[<<v, k>>] = RanOne(m, v, q[k])
    OBVIOUS
  <1>c. \A v \in V, k \in 1..n : step[<<v, k>>] \in V
    BY <1>2, Zenon
  <1> HIDE DEF step
  <1>3. \E h : RunValues(h, m, a0, q, n)
    <2>1. PICK h : Folded(h, V, a0, n, step)
      BY <1>c, FoldExists, Zenon
    <2>2. ASSUME NEW t \in SUBSET (1..n)
          PROVE  h[t] = IF t = {} THEN a0 ELSE RanOne(m, h[t \ {Max(t)}], q[Max(t)])
      <3>1. h[t] = IF t = {} THEN a0 ELSE step[<<h[t \ {Max(t)}], Max(t)>>]
        BY <2>1, Zenon DEF Folded
      <3>2. t # {} => Max(t) \in 1..n
        BY LastIn
      <3>3. t \ {Max(t)} \in SUBSET (1..n)
        OBVIOUS
      <3>4. h[t \ {Max(t)}] \in V
        BY <2>1, <3>3, Zenon DEF Folded
      <3> QED
        BY <1>2, <3>1, <3>2, <3>4, Zenon
    <2>3. h = [t \in SUBSET (1..n) |-> h[t]]
      BY <2>1 DEF Folded
    <2> QED
      BY <2>2, <2>3, Zenon DEF RunValues
  <1>4. RunValues(g, m, a0, q, n)
    BY <1>3, Zenon
  <1> HIDE DEF g
  <1>5. \A t \in SUBSET (1..n) :
           g[t] = IF t = {} THEN a0 ELSE RanOne(m, g[t \ {Max(t)}], q[Max(t)])
    BY <1>4, Zenon DEF RunValues
  <1>6. g[{}] = a0
    <2>1. {} \in SUBSET (1..n)
      OBVIOUS
    <2> QED
      BY <1>5, <2>1, Zenon
  <1>7. ASSUME NEW k \in 1..n, g[1..(k - 1)] \in V
        PROVE  g[1..k] = step[<<g[1..(k - 1)], k>>]
    <2>1. 1..k \in SUBSET (1..n) /\ k \in Nat /\ k # 0
      OBVIOUS
    <2>2. Max(1..k) = k /\ 1..k # {} /\ (1..k) \ {k} = 1..(k - 1)
      BY <2>1, FirstNumbers, Zenon
    <2>3. g[1..k] = RanOne(m, g[1..(k - 1)], q[k])
      BY <1>5, <2>1, <2>2, Zenon
    <2> QED
      BY <1>2, <1>7, <2>3, Zenon
  <1>a. Follows(g, V, a0, n, step)
    BY <1>c, <1>6, <1>7, Zenon DEF Follows
  <1>8. PICK w : Chained(w, V, a0, n, step) /\ w[n] = g[1..n]
    BY <1>a, FoldChain
  <1>9. \A k \in 1..n : w[k] = RanOne(m, w[k - 1], q[k])
    <2> SUFFICES ASSUME NEW k \in 1..n PROVE w[k] = RanOne(m, w[k - 1], q[k])
      OBVIOUS
    <2>1. k - 1 \in 0..n
      OBVIOUS
    <2>2. w[k - 1] \in V /\ w[k] = step[<<w[k - 1], k>>]
      BY <1>8, <2>1, Zenon DEF Chained
    <2> QED
      BY <1>2, <2>2, Zenon
  <1> QED
    BY <1>1, <1>8, <1>9, Zenon DEF Chained, RunByRun

\* What adding a sequence up is computed with.
Sums(g, q, n) ==
    g = [t \in SUBSET (1..n) |-> IF t = {} THEN 0 ELSE g[t \ {Max(t)}] + q[Max(t)]]

\* The sum, place by place.
Summed(w, V, q, n) ==
    /\ w \in [0..n -> V] /\ w[0] = 0
    /\ \A k \in 1..n : w[k] = w[k - 1] + q[k]

\* A sum of numbers goes up one by one.
LEMMA Addition ==
    ASSUME NEW V, NEW q, NEW n \in Nat, DOMAIN q = 1..n,
           0 \in V, \A v \in V, k \in 1..n : v + q[k] \in V
    PROVE  \E w : Summed(w, V, q, n) /\ Sum(q) = w[n]
  <1> DEFINE g == CHOOSE g : Sums(g, q, n)
             step == [vk \in V \X (1..n) |-> vk[1] + q[vk[2]]]
  <1>1. Sum(q) = g[1..n]
    BY Zenon DEF Sum, FoldLeft, MapThenFoldSet, Sums
  <1>2. \A v \in V, k \in 1..n : step[<<v, k>>] = v + q[k]
    OBVIOUS
  <1>c. \A v \in V, k \in 1..n : step[<<v, k>>] \in V
    BY <1>2, Zenon
  <1> HIDE DEF step
  <1>3. \E h : Sums(h, q, n)
    <2>1. PICK h : Folded(h, V, 0, n, step)
      BY <1>c, FoldExists, Zenon
    <2>2. ASSUME NEW t \in SUBSET (1..n)
          PROVE  h[t] = IF t = {} THEN 0 ELSE h[t \ {Max(t)}] + q[Max(t)]
      <3>1. h[t] = IF t = {} THEN 0 ELSE step[<<h[t \ {Max(t)}], Max(t)>>]
        BY <2>1, Zenon DEF Folded
      <3>2. t # {} => Max(t) \in 1..n
        BY LastIn
      <3>3. t \ {Max(t)} \in SUBSET (1..n)
        OBVIOUS
      <3>4. h[t \ {Max(t)}] \in V
        BY <2>1, <3>3, Zenon DEF Folded
      <3> QED
        BY <1>2, <3>1, <3>2, <3>4, Zenon
    <2>3. h = [t \in SUBSET (1..n) |-> h[t]]
      BY <2>1 DEF Folded
    <2> QED
      BY <2>2, <2>3, Zenon DEF Sums
  <1>4. Sums(g, q, n)
    BY <1>3, Zenon
  <1> HIDE DEF g
  <1>5. \A t \in SUBSET (1..n) :
           g[t] = IF t = {} THEN 0 ELSE g[t \ {Max(t)}] + q[Max(t)]
    BY <1>4, Zenon DEF Sums
  <1>6. g[{}] = 0
    <2>1. {} \in SUBSET (1..n)
      OBVIOUS
    <2> QED
      BY <1>5, <2>1, Zenon
  <1>7. ASSUME NEW k \in 1..n, g[1..(k - 1)] \in V
        PROVE  g[1..k] = step[<<g[1..(k - 1)], k>>]
    <2>1. 1..k \in SUBSET (1..n) /\ k \in Nat /\ k # 0
      OBVIOUS
    <2>2. Max(1..k) = k /\ 1..k # {} /\ (1..k) \ {k} = 1..(k - 1)
      BY <2>1, FirstNumbers, Zenon
    <2>3. g[1..k] = g[1..(k - 1)] + q[k]
      BY <1>5, <2>1, <2>2, Zenon
    <2> QED
      BY <1>2, <1>7, <2>3, Zenon
  <1>a. Follows(g, V, 0, n, step)
    BY <1>c, <1>6, <1>7, Zenon DEF Follows
  <1>8. PICK w : Chained(w, V, 0, n, step) /\ w[n] = g[1..n]
    BY <1>a, FoldChain
  <1>9. \A k \in 1..n : w[k] = w[k - 1] + q[k]
    <2> SUFFICES ASSUME NEW k \in 1..n PROVE w[k] = w[k - 1] + q[k]
      OBVIOUS
    <2>1. k - 1 \in 0..n
      OBVIOUS
    <2>2. w[k - 1] \in V /\ w[k] = step[<<w[k - 1], k>>]
      BY <1>8, <2>1, Zenon DEF Chained
    <2> QED
      BY <1>2, <2>2, Zenon
  <1> QED
    BY <1>1, <1>8, <1>9, Zenon DEF Chained, Summed

-----------------------------------------------------------------------------
(* The encoders: numbers.                                                    *)

\* The durations, in steps of 2.5 ms.
Durations == {1, 2, 4, 8, 16, 24, 32, 40, 48}

LEMMA QuotInt ==
    ASSUME NEW a \in Int, NEW b \in Nat \ {0}
    PROVE  Quot(a, b) \in Int
  BY DEF Quot

LEMMA PickInt ==
    ASSUME NEW a \in Int, NEW b \in Int
    PROVE  /\ SmallerOf(a, b) \in Int /\ LargerOf(a, b) \in Int
           /\ SmallerOf(a, b) <= a /\ SmallerOf(a, b) <= b
           /\ a <= LargerOf(a, b) /\ b <= LargerOf(a, b)
  BY DEF SmallerOf, LargerOf

\* What a duration is in samples, and in half milliseconds.
LEMMA FrameFacts ==
    ASSUME NEW k \in Durations, NEW frame, frame = k * (Fs \div 400)
    PROVE  /\ frame \in Nat \ {0} /\ Fs \div frame \in Nat \ {0}
           /\ (6 * Fs) \div frame \in Nat \ {0}
           /\ frame \div (Fs \div 2000) = 5 * k /\ (2000 * frame) \div Fs = 5 * k
           /\ (frame > Fs \div 50) <=> (k > 8)
           /\ frame \div (Fs \div 50) \in Nat
           /\ k > 8 => frame \div (Fs \div 50) >= 2
  <1> DEFINE P == /\ frame \in Nat \ {0} /\ Fs \div frame \in Nat \ {0}
                  /\ (6 * Fs) \div frame \in Nat \ {0}
                  /\ frame \div (Fs \div 2000) = 5 * k /\ (2000 * frame) \div Fs = 5 * k
                  /\ (frame > Fs \div 50) <=> (k > 8)
                  /\ frame \div (Fs \div 50) \in Nat
                  /\ k > 8 => frame \div (Fs \div 50) >= 2
  <1>1. CASE Fs = 8000
    BY <1>1 DEF Durations
  <1>2. CASE Fs = 12000
    BY <1>2 DEF Durations
  <1>3. CASE Fs = 16000
    BY <1>3 DEF Durations
  <1>4. CASE Fs = 24000
    BY <1>4 DEF Durations
  <1>5. CASE Fs = 48000
    BY <1>5 DEF Durations
  <1> QED
    BY <1>1, <1>2, <1>3, <1>4, <1>5, RateAssumption

-----------------------------------------------------------------------------
(* One frame.                                                                *)

\* What a value computed once is used for.
LEMMA OneOf ==
    ASSUME NEW z
    PROVE  (CHOOSE y \in {z} : TRUE) = z
  OBVIOUS

\* Samples by their places, all in a row.
Row(n, o) == [i \in 1..n |-> i + o]
Cut(s, from, to) == SubSeq(s, from, to)
Joined(s, t) == s \o t

LEMMA RowCut ==
    ASSUME NEW n \in Nat, NEW o \in Int, NEW from \in Nat, NEW to \in Nat, NEW l \in Nat,
           NEW p \in Int, 1 <= from, to <= n, l = to - from + 1, p = o + from - 1
    PROVE  Cut(Row(n, o), from, to) = Row(l, p)
  BY DEF Row, Cut

LEMMA RowJoin ==
    ASSUME NEW n \in Nat, NEW m \in Nat, NEW o \in Int,
           NEW p \in Int, p = n + o, NEW l \in Nat, l = n + m
    PROVE  Joined(Row(n, o), Row(m, p)) = Row(l, o)
  BY DEF Row, Joined

\* The buffer between calls.
Steady == Row(BufferUnits, -BufferUnits - 1)

LEMMA InputSteady ==
    ASSUME NEW e, e.delay = Steady, NEW units \in {5, 10, 20, 40}
    PROVE  Input(e, units) = Row(8 + units, -9)
  <1>0. 20 - 8 + 1 = 13 /\ -20 - 1 = -21
    OBVIOUS
  <1>1. Cut(Row(20, -21), 13, 20) = Row(8, -9)
    BY RowCut
  <1>2. Place(units) = Row(units, -1)
    BY DEF Place, Row
  <1>3. Joined(Row(8, -9), Row(units, -1)) = Row(8 + units, -9)
    <2>1. Joined(Row(8, -9), Row(5, -1)) = Row(13, -9)
      BY RowJoin
    <2>2. Joined(Row(8, -9), Row(10, -1)) = Row(18, -9)
      BY RowJoin
    <2>3. Joined(Row(8, -9), Row(20, -1)) = Row(28, -9)
      BY RowJoin
    <2>4. Joined(Row(8, -9), Row(40, -1)) = Row(48, -9)
      BY RowJoin
    <2>5. 8 + 5 = 13 /\ 8 + 10 = 18 /\ 8 + 20 = 28 /\ 8 + 40 = 48
      OBVIOUS
    <2> QED
      BY <2>1, <2>2, <2>3, <2>4, <2>5, Zenon
  <1>4. Input(e, units) = Joined(Cut(Row(20, -21), 13, 20), Place(units))
    BY <1>0, Zenon DEF Input, Joined, Cut, BufferUnits, DelayUnits, Steady
  <1> QED
    BY <1>1, <1>2, <1>3, <1>4, Zenon

\* What is kept of it and of the input.
Kept(units) == IF 12 - units > 0
               THEN Joined(Cut(Row(20, -21), units + 1, 12), Row(8 + units, -9))
               ELSE Cut(Row(8 + units, -9), units - 12 + 1, units + 8)

LEMMA KeptSteady ==
    ASSUME NEW units \in {5, 10, 20, 40}
    PROVE  Kept(units) = Row(20, units - 21)
  <1>1. CASE units = 5
    <2>1. Cut(Row(20, -21), 6, 12) = Row(7, -16)
      BY RowCut
    <2>2. Joined(Row(7, -16), Row(13, -9)) = Row(20, -16)
      BY RowJoin
    <2>3. 5 + 1 = 6 /\ 8 + 5 = 13 /\ -16 = 5 - 21 /\ 12 - 5 > 0
      OBVIOUS
    <2> QED
      BY <1>1, <2>1, <2>2, <2>3, Zenon DEF Kept
  <1>2. CASE units = 10
    <2>1. Cut(Row(20, -21), 11, 12) = Row(2, -11)
      BY RowCut
    <2>2. Joined(Row(2, -11), Row(18, -9)) = Row(20, -11)
      BY RowJoin
    <2>3. 10 + 1 = 11 /\ 8 + 10 = 18 /\ -11 = 10 - 21 /\ 12 - 10 > 0
      OBVIOUS
    <2> QED
      BY <1>2, <2>1, <2>2, <2>3, Zenon DEF Kept
  <1>3. CASE units = 20
    <2>1. Cut(Row(28, -9), 9, 28) = Row(20, -1)
      BY RowCut
    <2>2. 20 - 12 + 1 = 9 /\ 8 + 20 = 28 /\ 20 + 8 = 28 /\ -1 = 20 - 21 /\ ~(12 - 20 > 0)
      OBVIOUS
    <2> QED
      BY <1>3, <2>1, <2>2, Zenon DEF Kept
  <1>4. CASE units = 40
    <2>1. Cut(Row(48, -9), 29, 48) = Row(20, 19)
      BY RowCut
    <2>2. 40 - 12 + 1 = 29 /\ 8 + 40 = 48 /\ 40 + 8 = 48 /\ 19 = 40 - 21 /\ ~(12 - 40 > 0)
      OBVIOUS
    <2> QED
      BY <1>4, <2>1, <2>2, Zenon DEF Kept
  <1> QED
    BY <1>1, <1>2, <1>3, <1>4

\* After a frame it holds the last 10 ms again.
LEMMA DelaySteady ==
    ASSUME NEW e, e.delay = Steady, NEW units \in {5, 10, 20, 40}
    PROVE  Delayed(e, units) = Steady
  <1>1. Input(e, units) = Row(8 + units, -9)
    BY InputSteady
  <1>2. /\ 20 - units - 8 = 12 - units /\ 1 - (12 - units) = units - 12 + 1
        /\ units + (12 - units) = 12 /\ -20 - 1 = -21
    OBVIOUS
  <1>3. Delayed(e, units) = [i \in 1..20 |-> Kept(units)[i] - units]
    BY <1>1, <1>2, Zenon DEF Delayed, Kept, Joined, Cut, BufferUnits, DelayUnits, Steady
  <1>4. \A i \in 1..20 : Row(20, units - 21)[i] - units = i + -21
    BY DEF Row
  <1>5. [i \in 1..20 |-> Row(20, units - 21)[i] - units] = [i \in 1..20 |-> i + -21]
    BY <1>4, Zenon
  <1>6. Steady = [i \in 1..20 |-> i + -21]
    BY <1>2, Zenon DEF Steady, Row, BufferUnits
  <1> QED
    BY <1>3, <1>5, <1>6, KeptSteady, Zenon

\* No width is above unity.
LEMMA WidthBound ==
    ASSUME NEW equiv \in Int
    PROVE  StereoWidth(equiv) \in Int /\ StereoWidth(equiv) <= Unity
  <1>1. CASE equiv > 32000 \/ equiv < 16000
    BY <1>1 DEF StereoWidth, Unity
  <1>2. CASE ~(equiv > 32000) /\ ~(equiv < 16000)
    <2> DEFINE x == 2048 * (32000 - equiv)
               y == equiv - 14000
    <2>1. x \in Nat /\ y \in Nat \ {0}
      BY <1>2
    <2> HIDE DEF x, y
    <2>2. x \div y \in Nat
      BY <2>1
    <2>3. StereoWidth(equiv) = Unity - x \div y
      BY <1>2 DEF StereoWidth, x, y
    <2> QED
      BY <2>2, <2>3 DEF Unity
  <1> QED
    BY <1>1, <1>2

\* One frame of the silence counter.
QuietStep(q, next, skip, silent, ms) ==
    /\ next \in 0..1200 /\ skip \in BOOLEAN
    /\ skip => silent /\ next = q + ms /\ next > 400
    /\ ~skip => /\ next <= 400
                /\ next = 0 \/ (silent /\ (next = q + ms \/ q + ms > 1200))

\* The half milliseconds of what CELT takes, and the counter after them.
HalfMs == {5, 10, 20, 40}
Counts == 0..1200
Dtx(q, dtx, silent, ms) == QuietStep(q, dtx.quiet, dtx.dtx, silent, ms)

LEMMA DtxCounts ==
    ASSUME NEW cfg, NEW e, NEW all, NEW silent \in BOOLEAN, NEW ms \in HalfMs, e.quiet \in 0..1200
    PROVE  Dtx(e.quiet, DecideDtx(cfg, e, all, silent, ms), silent, ms)
  <1> DEFINE dtx == DecideDtx(cfg, e, all, silent, ms)
  <1>1. CASE cfg.dtx /\ all /\ silent
    <2>1. dtx = DtxCount(e.quiet, ms)
      BY <1>1 DEF DecideDtx
    <2>2. PICK q \in 0..1200 : q = e.quiet
      OBVIOUS
    <2>3. QuietStep(q, DtxCount(q, ms).quiet, DtxCount(q, ms).dtx, silent, ms)
      <3>1. silent = TRUE
        BY <1>1
      <3> QED
        BY <3>1 DEF QuietStep, DtxCount, HalfMs
    <2> HIDE DEF dtx
    <2>4. QuietStep(e.quiet, dtx.quiet, dtx.dtx, silent, ms)
      BY <2>1, <2>2, <2>3
    <2> QED
      BY <2>4 DEF dtx, Dtx
  <1>2. CASE ~(cfg.dtx /\ all /\ silent)
    <2>1. dtx = [dtx |-> FALSE, quiet |-> 0]
      BY <1>2 DEF DecideDtx
    <2> QED
      BY <2>1 DEF QuietStep, Dtx
  <1> QED
    BY <1>1, <1>2

\* The history keeps count of it.
RunAfter(run, silent, skip, ms) ==
    [silent |-> IF silent THEN SmallerOf(405, run.silent + ms) ELSE 0,
     skipped |-> IF skip THEN run.skipped + ms ELSE 0]

LEMMA CountStep ==
    ASSUME NEW q \in Counts, NEW next, NEW skip, NEW silent, NEW ms \in HalfMs,
           QuietStep(q, next, skip, silent, ms), NEW run, Counted(q, run)
    PROVE  Counted(next, RunAfter(run, silent, skip, ms))
  <1> DEFINE now == RunAfter(run, silent, skip, ms)
  <1>1. PICK a \in Nat : a = run.silent
    BY DEF Counted
  <1>2. PICK b \in Nat : b = run.skipped
    BY DEF Counted
  <1>3. (q <= a \/ a >= 405) /\ IF b = 0 THEN q <= 400 ELSE q > 400 /\ b < q - 360
    BY <1>1, <1>2 DEF Counted
  <1>4. next \in Nat /\ skip \in BOOLEAN
    BY DEF QuietStep
  <1>5. /\ now.silent = IF silent THEN SmallerOf(405, a + ms) ELSE 0
        /\ now.skipped = IF skip THEN b + ms ELSE 0
        /\ now = [silent |-> now.silent, skipped |-> now.skipped]
    BY <1>1, <1>2 DEF RunAfter
  <1> HIDE DEF now
  <1>6. PICK s \in Nat : s = IF silent THEN SmallerOf(405, a + ms) ELSE 0
    BY DEF SmallerOf, HalfMs
  <1>7. PICK t \in Nat : t = IF skip THEN b + ms ELSE 0
    BY DEF HalfMs
  <1>8. (next <= s \/ s >= 405) /\ IF t = 0 THEN next <= 400 ELSE next > 400 /\ t < next - 360
    <2>1. CASE skip
      BY <1>3, <1>4, <1>6, <1>7, <2>1 DEF QuietStep, SmallerOf, HalfMs, Counts
    <2>2. CASE ~skip
      <3>1. t = 0 /\ next <= 400 /\ (next = 0 \/ (silent /\ (next = q + ms \/ q + ms > 1200)))
        BY <1>7, <2>2 DEF QuietStep
      <3>2. ms \in 5..40 /\ q \in 0..1200
        BY DEF HalfMs, Counts
      <3>3. CASE next = 0
        BY <1>6, <3>1, <3>3
      <3>4. CASE silent /\ (next = q + ms \/ q + ms > 1200)
        <4>1. s = SmallerOf(405, a + ms)
          BY <1>6, <3>4
        <4>2. next <= s \/ s >= 405
          BY <1>3, <1>4, <3>1, <3>2, <3>4, <4>1 DEF SmallerOf
        <4> QED
          BY <3>1, <4>2
      <3> QED
        BY <3>1, <3>3, <3>4
    <2> QED
      BY <2>1, <2>2
  <1>9. now.silent = s /\ now.skipped = t
    BY <1>5, <1>6, <1>7, Zenon
  <1> QED
    BY <1>5, <1>8, <1>9 DEF Counted, now

-----------------------------------------------------------------------------
(* Lengths and rates are whole numbers.                                      *)

LEMMA SumInt ==
    ASSUME NEW q, NEW n \in Nat, DOMAIN q = 1..n, \A k \in 1..n : q[k] \in Int
    PROVE  Sum(q) \in Int
  <1> DEFINE V == Int
  <1>1. 0 \in V /\ \A v \in V, k \in 1..n : v + q[k] \in V
    OBVIOUS
  <1> HIDE DEF V
  <1>2. PICK w : Summed(w, V, q, n) /\ Sum(q) = w[n]
    BY <1>1, Addition, Zenon
  <1>3. n \in 0..n
    OBVIOUS
  <1>4. w[n] \in V
    BY <1>2, <1>3, Zenon DEF Summed
  <1> QED
    BY <1>2, <1>4 DEF V

LEMMA FieldsInt ==
    ASSUME NEW ns \in Seq(Int)
    PROVE  Fields(Front(ns)) \in Int
  <1> DEFINE q == [i \in DOMAIN Front(ns) |-> SizeBytes(Front(ns)[i])]
  <1>1. PICK n \in Nat : DOMAIN Front(ns) = 1..n
    <2>1. CASE Len(ns) = 0
      <3>1. DOMAIN Front(ns) = 1..0
        BY <2>1 DEF Front
      <3> QED
        BY <3>1
    <2>2. CASE Len(ns) # 0
      <3>1. DOMAIN Front(ns) = 1..(Len(ns) - 1) /\ Len(ns) - 1 \in Nat
        BY <2>2 DEF Front
      <3> QED
        BY <3>1
    <2> QED
      BY <2>1, <2>2
  <1>2. DOMAIN q = 1..n
    BY <1>1
  <1>3. \A k \in 1..n : q[k] \in Int
    BY <1>1 DEF SizeBytes
  <1> HIDE DEF q
  <1>4. Sum(q) \in Int
    BY <1>2, <1>3, SumInt
  <1> QED
    BY <1>4, Zenon DEF Fields, q

LEMMA OutLengthInt ==
    ASSUME NEW ns \in Seq(Int), NEW maxlen \in Int, NEW sd, NEW pad
    PROVE  OutLength(ns, maxlen, sd, pad) \in Int
  <1>1. PICK sum \in Int : sum = Sum(ns)
    BY SumInt
  <1>2. PICK fields \in Int : fields = Fields(Front(ns))
    BY FieldsInt
  <1>3. PICK own \in Int : own = IF sd THEN SizeBytes(Last(ns)) ELSE 0
    BY DEF SizeBytes
  <1>4. PICK second \in Int : second = IF AllEqual(ns) THEN 0 ELSE SizeBytes(ns[1])
    BY DEF SizeBytes
  <1>5. PICK third \in Int : third = IF AllEqual(ns) THEN 0 ELSE fields
    OBVIOUS
  <1>6. PICK plain \in Int : plain = own + 1 + sum + second
    OBVIOUS
  <1>7. PICK code3 \in Int : code3 = own + 2 + sum + third
    OBVIOUS
  <1>8. PICK least \in Int : least = IF Len(ns) <= 2 THEN plain ELSE code3
    OBVIOUS
  <1>9. OutLength(ns, maxlen, sd, pad) =
           CASE least > maxlen -> Refused
             [] least <= maxlen /\ pad /\ Len(ns) <= 2 /\ plain < maxlen ->
                   IF code3 > maxlen THEN Refused ELSE maxlen
             [] least <= maxlen /\ pad /\ Len(ns) > 2 -> maxlen
             [] OTHER -> least
    BY <1>1, <1>2, <1>3, <1>4, <1>5, <1>6, <1>7, <1>8, Zenon DEF OutLength
  <1> QED
    BY <1>9 DEF Refused

LEMMA PadToInt ==
    ASSUME NEW ns \in Seq(Int), NEW length \in Int, NEW newLen \in Int
    PROVE  PadTo(ns, length, newLen) \in Int
  <1>1. PICK x \in Int : x = OutLength(ns, newLen, FALSE, TRUE)
    BY OutLengthInt
  <1>2. Refused \in Int
    BY DEF Refused
  <1> QED
    BY <1>1, <1>2, Zenon DEF PadTo

\* A duration is one of those.
Lasting(frame) == \E k \in Durations : frame = k * (Fs \div 400)

LEMMA BitsInt ==
    ASSUME NEW frame, Lasting(frame), NEW x \in Int
    PROVE  BitsToBitrate(x, frame) \in Int /\ BitrateToBits(x, frame) \in Int
  <1>0. PICK k \in Durations : frame = k * (Fs \div 400)
    BY DEF Lasting
  <1>1. PICK y \in Nat \ {0} : y = (6 * Fs) \div frame
    BY <1>0, FrameFacts
  <1>2. Quot(x * y, 6) \in Int /\ Quot(x * 6, y) \in Int
    BY QuotInt
  <1> QED
    BY <1>1, <1>2, Zenon DEF BitsToBitrate, BitrateToBits

LEMMA BitrateInt ==
    ASSUME NEW frame, Lasting(frame), NEW e, e.channels \in {1, 2}, NEW rate \in Int, NEW room \in Int
    PROVE  Bitrate(e, rate, frame, room) \in Int
  <1>1. PICK cap \in Int : cap = BitsToBitrate(room * 8, frame)
    BY BitsInt
  <1>0. PICK k \in Durations : frame = k * (Fs \div 400)
    BY DEF Lasting
  <1>2. PICK f \in Nat \ {0} : f = frame
    BY <1>0, FrameFacts
  <1>3. Fs \in Int
    BY RateAssumption
  <1>4. (60 * Fs) \div f + Fs * e.channels \in Int
    BY <1>3
  <1> QED
    BY <1>1, <1>2, <1>4, PickInt DEF Bitrate

LEMMA CbrInt ==
    ASSUME NEW frame, Lasting(frame), NEW rate \in Int, NEW room \in Int
    PROVE  CbrBytes(rate, frame, room) \in Int
  <1>1. PICK x \in Int : x = BitrateToBits(rate, frame)
    BY BitsInt
  <1> QED
    BY <1>1 DEF CbrBytes, SmallerOf

LEMMA EquivInt ==
    ASSUME NEW cfg, cfg.complexity \in 1..10, NEW rate \in Int, NEW channels \in {1, 2},
           NEW frameRate \in Nat, NEW celt
    PROVE  EquivRate(cfg, rate, channels, frameRate, celt) \in Int
  <1> DEFINE overhead == IF frameRate > 50 THEN (40 * channels + 20) * (frameRate - 50) ELSE 0
             small == rate - overhead
             cbr == IF cfg.vbr THEN small ELSE small - Quot(small, 12)
             complex == Quot(cbr * (90 + cfg.complexity), 100)
             slow == Quot(complex * 9, 10)
  <1>1. overhead \in Int
    OBVIOUS
  <1> HIDE DEF overhead
  <1>2. small \in Int
    BY <1>1
  <1> HIDE DEF small
  <1>3. cbr \in Int
    BY <1>2, QuotInt
  <1> HIDE DEF cbr
  <1>4. complex \in Int
    <2>1. PICK x \in Int : x = 90 + cfg.complexity
      OBVIOUS
    <2>2. cbr * x \in Int
      BY <1>3
    <2> QED
      BY <2>1, <2>2, QuotInt
  <1> HIDE DEF complex
  <1>5. slow \in Int
    BY <1>4, QuotInt
  <1>6. EquivRate(cfg, rate, channels, frameRate, celt)
           = IF celt /\ cfg.complexity < 5 THEN slow ELSE complex
    BY DEF EquivRate, overhead, small, cbr, complex
  <1> HIDE DEF slow
  <1> QED
    BY <1>4, <1>5, <1>6

-----------------------------------------------------------------------------
(* One frame keeps an encoder in step.                                       *)

LEMMA SteadyIs == Steady = [i \in 1..BufferUnits |-> i - 1 - BufferUnits]
  <1>1. \A i \in 1..20 : i + (-20 - 1) = i - 1 - 20
    OBVIOUS
  <1> QED
    BY <1>1, Zenon DEF Steady, Row, BufferUnits

\* What the rate decisions come to.
Decided(d, e) ==
    /\ d.rate \in Int /\ d.cbr \in Int /\ d.max \in Int /\ d.equiv \in Int
    /\ d.degenerate \in BOOLEAN
    /\ InStep(d.e) /\ d.e.quiet = e.quiet

\* The fields of an encoder, by name.
OneOrTwo == {1, 2}
Modes == {Celt, Hybrid}
Buffers == [1..BufferUnits -> Int]
Askings == [rate : Int, frame : Int]

LEMMA EncoderFields ==
    EncoderType = [channels : OneOrTwo, mode : Modes, streamChannels : OneOrTwo, bandwidth : Int,
                   auto : Int, first : BOOLEAN, quiet : Counts, delay : Buffers,
                   width : Int, asked : Askings, heard : Int]
  BY DEF EncoderType, OneOrTwo, Modes, Counts, Buffers, Askings

\* What the decisions and a frame assign to an encoder.
Assigned(now, quiet, delay, width, ear) ==
    /\ now \in EncoderType /\ now.quiet = quiet
    /\ now.delay = delay /\ now.width = width /\ now.heard = ear

LEMMA EncoderDecided ==
    ASSUME NEW e \in EncoderType, NEW streams \in OneOrTwo, NEW mode \in Modes,
           NEW auto \in Int, NEW band \in Int
    PROVE  Assigned([e EXCEPT !.streamChannels = streams, !.mode = mode, !.auto = auto,
                              !.bandwidth = band], e.quiet, e.delay, e.width, e.heard)
  BY EncoderFields DEF Assigned

AfterCode(e, first, quiet, delay, width, ear, asked) ==
    [e EXCEPT !.first = first, !.quiet = quiet, !.delay = delay, !.width = width,
              !.heard = ear, !.asked = asked]

LEMMA EncoderCoded ==
    ASSUME NEW e \in EncoderType, NEW first \in BOOLEAN, NEW quiet \in Counts,
           NEW delay \in Buffers, NEW width \in Int, NEW ear \in Int, NEW asked \in Askings
    PROVE  Assigned(AfterCode(e, first, quiet, delay, width, ear, asked), quiet, delay, width, ear)
  <1> DEFINE now == AfterCode(e, first, quiet, delay, width, ear, asked)
  <1>1. now \in EncoderType
    BY EncoderFields DEF AfterCode
  <1>2. now.quiet = quiet /\ now.delay = delay /\ now.width = width /\ now.heard = ear
    BY EncoderFields DEF AfterCode
  <1> QED
    BY <1>1, <1>2, Zenon DEF Assigned

LEMMA BandsFit ==
    ASSUME NEW e, NEW equiv
    PROVE  AutoBandwidth(e, equiv) \in Int /\ ClampedBandwidth(AutoBandwidth(e, equiv)) \in Int
  <1> DEFINE threshold(b) ==
                BandThreshold[b] + (CASE e.first -> 0
                                      [] ~e.first /\ e.auto >= b -> -BandHysteresis[b]
                                      [] OTHER -> BandHysteresis[b])
             affords == {b \in Mediumband..Fullband : equiv >= threshold(b)}
             widest == IF affords = {} THEN Narrowband ELSE Max(affords)
  <1>1. affords \in SUBSET (1..5)
    BY DEF Mediumband, Fullband
  <1> HIDE DEF affords
  <1>2. affords # {} => Max(affords) \in 1..5
    BY <1>1, LastIn
  <1>3. widest \in Int
    BY <1>2 DEF Narrowband
  <1>4. AutoBandwidth(e, equiv) = IF widest = Mediumband THEN Wideband ELSE widest
    BY DEF AutoBandwidth, affords
  <1> HIDE DEF widest
  <1>5. PICK a \in Int : a = AutoBandwidth(e, equiv)
    BY <1>3, <1>4 DEF Mediumband, Wideband
  <1>6. Nyquist \in Int
    BY RateAssumption DEF Nyquist, Narrowband, Wideband, Superwideband, Fullband
  <1>7. ClampedBandwidth(a) \in Int
    BY <1>6, PickInt DEF ClampedBandwidth
  <1> QED
    BY <1>5, <1>7

LEMMA DecideKeeps ==
    ASSUME NEW cfg, cfg.complexity \in 1..10, NEW e, InStep(e), NEW frame, Lasting(frame),
           NEW userRate \in Int, NEW room \in Int
    PROVE  Decided(DecideRates(cfg, e, userRate, frame, room), e)
  <1> DEFINE user == Bitrate(e, userRate, frame, room)
             frameRate == Fs \div frame
             cbr == IF cfg.vbr THEN -1 ELSE CbrBytes(user, frame, room)
             rate == IF cfg.vbr THEN user ELSE BitsToBitrate(cbr * 8, frame)
             max == IF cfg.vbr THEN room ELSE LargerOf(1, cbr)
             streams == DecideStreamChannels(e, EquivRate(cfg, rate, e.channels, frameRate, FALSE))
             equiv == EquivRate(cfg, rate, streams, frameRate, TRUE)
             auto == AutoBandwidth(e, equiv)
             degenerate == IsDegenerate(max, rate, frameRate)
             next == [e EXCEPT !.streamChannels = streams, !.mode = Celt,
                               !.auto = auto, !.bandwidth = ClampedBandwidth(auto)]
             d == DecideRates(cfg, e, userRate, frame, room)
  <1>1. e.channels \in {1, 2} /\ e \in EncoderType
    BY DEF InStep, EncoderType
  <1>2. user \in Int
    BY <1>1, BitrateInt
  <1>3. frameRate \in Nat
    BY FrameFacts DEF Lasting
  <1>4. cbr \in Int
    <2> HIDE DEF user
    <2>1. CbrBytes(user, frame, room) \in Int
      BY <1>2, CbrInt
    <2> QED
      BY <2>1
  <1>5. rate \in Int
    <2> HIDE DEF user, cbr
    <2>1. cbr * 8 \in Int
      BY <1>4
    <2>2. BitsToBitrate(cbr * 8, frame) \in Int
      BY <2>1, BitsInt
    <2> QED
      BY <1>2, <2>2
  <1>6. max \in Int
    <2> HIDE DEF cbr
    <2> QED
      BY <1>4 DEF LargerOf
  <1>7. streams \in {1, 2}
    BY DEF DecideStreamChannels
  <1>8. equiv \in Int
    <2> HIDE DEF rate, streams, frameRate
    <2> QED
      BY <1>3, <1>5, <1>7, EquivInt
  <1>9. auto \in Int /\ ClampedBandwidth(auto) \in Int
    <2> HIDE DEF equiv
    <2> QED
      BY BandsFit
  <1>10. degenerate \in BOOLEAN
    <2> HIDE DEF max, rate, frameRate
    <2> QED
      BY DEF IsDegenerate
  <1>11. InStep(next) /\ next.quiet = e.quiet
    <2> HIDE DEF streams, auto
    <2>1. Celt \in Modes /\ streams \in OneOrTwo
      BY <1>7 DEF Modes, OneOrTwo
    <2>2. /\ next \in EncoderType /\ next.quiet = e.quiet
          /\ next.delay = e.delay /\ next.width = e.width /\ next.heard = e.heard
      <3> DEFINE band == ClampedBandwidth(auto)
      <3>1. band \in Int
        BY <1>9
      <3> HIDE DEF band
      <3>2. Assigned([e EXCEPT !.streamChannels = streams, !.mode = Celt, !.auto = auto,
                               !.bandwidth = band], e.quiet, e.delay, e.width, e.heard)
        BY <1>1, <1>9, <2>1, <3>1, EncoderDecided, Zenon
      <3> QED
        BY <3>2, Zenon DEF band, Assigned
    <2> QED
      BY <2>2, Zenon DEF InStep
  <1>12. d = [rate |-> rate, cbr |-> cbr, max |-> max, equiv |-> equiv, degenerate |-> degenerate,
              e |-> IF degenerate THEN e ELSE next]
    BY DEF DecideRates
  <1> HIDE DEF rate, cbr, max, equiv, degenerate, next, d
  <1>13. /\ d.rate = rate /\ d.cbr = cbr /\ d.max = max /\ d.equiv = equiv
         /\ d.degenerate = degenerate /\ d.e = IF degenerate THEN e ELSE next
    BY <1>12
  <1>14. Decided(d, e)
    BY <1>4, <1>5, <1>6, <1>8, <1>10, <1>11, <1>13, Zenon DEF Decided
  <1> QED
    BY <1>14 DEF d

\* What a frame leaves and returns.
FrameDone(f, e, silent, ms) ==
    /\ InStep(f.e) /\ f.continues /\ f.continues \in BOOLEAN /\ f.len \in Int /\ f.size \in Int
    /\ QuietStep(e.quiet, f.e.quiet, f.dtx, silent, ms)

\* A frame by its half milliseconds.
Halves(frame, ms) ==
    frame \in Int /\ frame \div (Fs \div 2000) = ms /\ (2000 * frame) \div Fs = ms

LEMMA FrameKeeps ==
    ASSUME NEW cfg, NEW e, InStep(e), NEW d, d.rate \in Int, d.equiv \in Int,
           NEW ms \in HalfMs, NEW frame, Halves(frame, ms), NEW orig \in Int,
           NEW all, NEW silent \in BOOLEAN, NEW want \in Int
    PROVE  FrameDone(EncodeFrameNative(cfg, e, d, frame, orig, all, silent, want), e, silent, ms)
  <1> DEFINE units == frame \div (Fs \div 2000)
             half == (2000 * frame) \div Fs
             nb == SmallerOf(orig, MaxFrameLen + 1) - 1
             dtx == DecideDtx(cfg, e, all, silent, half)
             n == CeltBytes(cfg, nb, want)
             f == EncodeFrameNative(cfg, e, d, frame, orig, all, silent, want)
             now == CodedFrame(e, d, frame, dtx)
             len == CASE nb < 2 -> Refused
                      [] nb >= 2 /\ dtx.dtx -> 1
                      [] OTHER -> IF cfg.vbr THEN n + 1 ELSE PadTo(<<n>>, n + 1, orig)
             size == IF dtx.dtx THEN 0 ELSE n
  <1>1. frame \in Int /\ units = ms /\ half = ms
    BY DEF Halves
  <1> HIDE DEF units, half
  <1>b. e \in EncoderType
    BY DEF InStep
  <1>c. e.quiet \in 0..1200
    BY <1>b DEF EncoderType
  <1>2. e.delay = Steady
    BY SteadyIs DEF InStep
  <1>3. QuietStep(e.quiet, dtx.quiet, dtx.dtx, silent, ms)
    <2> DEFINE count == DecideDtx(cfg, e, all, silent, ms)
    <2>1. Dtx(e.quiet, count, silent, ms)
      BY <1>c, DtxCounts
    <2>2. dtx = count
      BY <1>1
    <2> QED
      BY <2>1, <2>2, Zenon DEF Dtx
  <1>4. nb \in Int
    BY PickInt DEF MaxFrameLen
  <1> HIDE DEF nb
  <1>5. n \in Int
    BY <1>4 DEF CeltBytes, SmallerOf
  <1>6. Continues(e, units)
    <2>1. Input(e, units) = [i \in 1..(DelayUnits + units) |-> i - 1 - DelayUnits]
      <3>1. Input(e, ms) = Row(8 + ms, -9)
        BY <1>1, <1>2, InputSteady DEF HalfMs
      <3>2. \A i \in 1..(8 + ms) : i + -9 = i - 1 - 8
        BY DEF HalfMs
      <3>3. [i \in 1..(8 + ms) |-> i + -9] = [i \in 1..(8 + ms) |-> i - 1 - 8]
        BY <3>2, Zenon
      <3>4. Row(8 + ms, -9) = [i \in 1..(8 + ms) |-> i - 1 - 8]
        BY <3>3, Zenon DEF Row
      <3>5. Input(e, ms) = [i \in 1..(DelayUnits + ms) |-> i - 1 - DelayUnits]
        BY <3>1, <3>4, Zenon DEF DelayUnits
      <3> QED
        BY <1>1, <3>5
    <2> QED
      BY <2>1 DEF Continues, InStep
  <1>7. Delayed(e, units) = Steady
    <2>1. Delayed(e, ms) = Steady
      BY <1>2, DelaySteady DEF HalfMs
    <2> QED
      BY <1>1, <2>1
  <1> HIDE DEF dtx, n
  <1>8. InStep(now) /\ now.quiet = dtx.quiet
    <2> DEFINE w == StereoWidth(d.equiv)
               width == IF Fades(e, d.equiv) THEN w ELSE e.width
               ear == IF e.channels = 2 THEN w ELSE e.heard
    <2>1. PICK v \in Int : v = w /\ v <= Unity
      BY WidthBound
    <2>2. /\ e.width \in Int /\ e.width = e.heard /\ e.width <= Unity
          /\ e.heard \in Int /\ e.channels \in {1, 2}
      BY DEF InStep, EncoderType
    <2>3. width = ear /\ width \in Int /\ width <= Unity
      <3>1. Fades(e, d.equiv) <=> (e.channels = 2 /\ (e.width < Unity \/ v < Unity))
        BY <2>1 DEF Fades
      <3> HIDE DEF w
      <3> QED
        BY <2>1, <2>2, <3>1 DEF Unity
    <2> DEFINE asked == [rate |-> d.rate, frame |-> frame]
               delay == Delayed(e, units)
    <2>4. now = AfterCode(e, FALSE, dtx.quiet, delay, width, ear, asked)
      BY DEF CodedFrame, AfterCode, units
    <2>5. dtx.quiet \in Counts
      BY <1>3 DEF QuietStep, Counts
    <2>a. delay \in Buffers
      BY <1>7 DEF Steady, Row, BufferUnits, Buffers
    <2>b. asked \in Askings
      BY <1>1 DEF Askings
    <2> HIDE DEF width, ear, asked, delay, now
    <2>c. width \in Int /\ ear \in Int /\ FALSE \in BOOLEAN
      BY <2>3
    <2>d. Assigned(AfterCode(e, FALSE, dtx.quiet, delay, width, ear, asked),
                   dtx.quiet, delay, width, ear)
      BY <1>b, <2>5, <2>a, <2>b, <2>c, EncoderCoded, Zenon
    <2>6. /\ now \in EncoderType /\ now.quiet = dtx.quiet
          /\ now.delay = Steady /\ now.width = width /\ now.heard = ear
      BY <1>7, <2>4, <2>d, Zenon DEF delay, Assigned
    <2> QED
      BY <2>3, <2>6, SteadyIs, Zenon DEF InStep
  <1>9. len \in Int
    <2>1. <<n>> \in Seq(Int) /\ n + 1 \in Int
      BY <1>5
    <2>2. PICK p \in Int : p = PadTo(<<n>>, n + 1, orig)
      BY <2>1, PadToInt
    <2> QED
      BY <2>1, <2>2 DEF Refused
  <1>10. size \in Int
    BY <1>5
  <1>11. f = [e |-> now, ok |-> nb >= 2, dtx |-> dtx.dtx, continues |-> Continues(e, units),
              len |-> len, size |-> size]
    BY DEF EncodeFrameNative, nb, dtx, n, units, half
  <1> HIDE DEF now, len, size, f
  <1>12. /\ f.e = now /\ f.dtx = dtx.dtx /\ f.continues = Continues(e, units)
         /\ f.len = len /\ f.size = size
    BY <1>11
  <1>13. Continues(e, units) \in BOOLEAN
    BY DEF Continues
  <1>14. FrameDone(f, e, silent, ms)
    BY <1>3, <1>6, <1>8, <1>9, <1>10, <1>12, <1>13, Zenon DEF FrameDone
  <1> QED
    BY <1>14 DEF f

-----------------------------------------------------------------------------
(* The frames of a packet keep it so.                                        *)

InSteps == {e \in EncoderType : InStep(e)}
Yes == {TRUE}
Numbers == Seq(Int)
Skips == Seq(BOOLEAN)

\* What is known of the frames coded up to now.
FramesCoded == [e : InSteps, total : Int, ok : BOOLEAN, sizes : Numbers, dtx : Int,
                continues : Yes, skips : Skips]

\* What is known of the frames of one packet.
Shared(m) == m.lenSum \in Int /\ m.n \in Nat \ {0} /\ m.d.rate \in Int /\ m.d.equiv \in Int
             /\ m.want \in Int

RoomOf(m, a) == SmallerOf(m.lenSum - a.total,
                          SmallerOf(BitrateToBits(m.d.rate, Fs \div 50) \div 8, m.lenSum \div m.n))
OneFrame(m, a, i) ==
    EncodeFrameNative(m.c, a.e, m.d, Fs \div 50, RoomOf(m, a), m.silent = m.n, i <= m.silent, m.want)
AfterSub(a, f) ==
    [e |-> f.e, total |-> a.total + f.len, ok |-> a.ok /\ f.len # Refused,
     sizes |-> Append(a.sizes, f.size), dtx |-> a.dtx + (IF f.len = 1 THEN 1 ELSE 0),
     continues |-> a.continues /\ f.continues, skips |-> Append(a.skips, f.dtx)]

LEMMA SubFrameIs ==
    ASSUME NEW m, NEW a, NEW i
    PROVE  SubFrame(m, a, i) = AfterSub(a, OneFrame(m, a, i))
  <1>1. {AfterSub(a, f) : f \in {OneFrame(m, a, i)}} = {AfterSub(a, OneFrame(m, a, i))}
    OBVIOUS
  <1>2. SubFrame(m, a, i) = CHOOSE y \in {AfterSub(a, f) : f \in {OneFrame(m, a, i)}} : TRUE
    BY DEF SubFrame, Then, AfterSub, OneFrame, RoomOf
  <1> QED
    BY <1>1, <1>2, OneOf, Zenon

LEMMA TwentyMs == Halves(Fs \div 50, 40) /\ 40 \in HalfMs /\ Lasting(Fs \div 50)
  <1>1. 8 \in Durations /\ 8 * 5 = 40
    BY DEF Durations
  <1>2. Fs \div 50 = 8 * (Fs \div 400)
    BY RateAssumption
  <1>3. PICK frame : frame = 8 * (Fs \div 400)
    BY Zenon
  <1>4. frame \in Nat \ {0} /\ frame \div (Fs \div 2000) = 5 * 8 /\ (2000 * frame) \div Fs = 5 * 8
    BY <1>1, <1>3, FrameFacts
  <1>5. Halves(frame, 40)
    BY <1>4 DEF Halves
  <1> QED
    BY <1>1, <1>2, <1>3, <1>5 DEF Lasting, HalfMs

Here(silent, i) == i <= silent

\* How a frame moves on from the one before.
SubStep(a, now, silent) ==
    \E skip \in BOOLEAN : /\ now.skips = Append(a.skips, skip)
                          /\ QuietStep(a.e.quiet, now.e.quiet, skip, silent, 40)

LEMMA QuietIs ==
    ASSUME NEW q, NEW next, NEW skip, NEW silent, NEW ms, QuietStep(q, next, skip, silent, ms)
    PROVE  skip \in BOOLEAN /\ next \in 0..1200
  BY DEF QuietStep

LEMMA SubFrameKeeps ==
    ASSUME NEW m, Shared(m), NEW a \in FramesCoded, NEW i
    PROVE  SubFrame(m, a, i) \in FramesCoded /\ SubStep(a, SubFrame(m, a, i), Here(m.silent, i))
  <1> DEFINE f == OneFrame(m, a, i)
             now == AfterSub(a, f)
             whole == m.silent = m.n
             here == Here(m.silent, i)
  <1>0. /\ f = EncodeFrameNative(m.c, a.e, m.d, Fs \div 50, RoomOf(m, a), whole, here, m.want)
        /\ here \in BOOLEAN
    BY DEF OneFrame, Here
  <1> HIDE DEF whole, here, f
  <1>1. /\ a.e \in InSteps /\ a.total \in Int /\ a.ok \in BOOLEAN /\ a.sizes \in Numbers
        /\ a.dtx \in Int /\ a.continues \in Yes /\ a.skips \in Skips
    BY DEF FramesCoded
  <1>2. InStep(a.e)
    BY <1>1 DEF InSteps
  <1>3. RoomOf(m, a) \in Int
    <2>1. PICK bits \in Int : bits = BitrateToBits(m.d.rate, Fs \div 50)
      BY TwentyMs, BitsInt DEF Shared
    <2>2. PICK x \in Int : x = m.lenSum
      BY DEF Shared
    <2>3. PICK y \in Nat \ {0} : y = m.n
      BY DEF Shared
    <2>4. PICK z \in Int : z = a.total
      BY <1>1
    <2>5. SmallerOf(x - z, SmallerOf(bits \div 8, x \div y)) \in Int
      BY DEF SmallerOf
    <2> QED
      BY <2>1, <2>2, <2>3, <2>4, <2>5, Zenon DEF RoomOf
  <1>4. FrameDone(f, a.e, here, 40)
    <2>1. FrameDone(EncodeFrameNative(m.c, a.e, m.d, Fs \div 50, RoomOf(m, a), whole, here, m.want),
                    a.e, here, 40)
      BY <1>0, <1>2, <1>3, TwentyMs, FrameKeeps DEF Shared
    <2> QED
      BY <1>0, <2>1, Zenon
  <1>5. /\ InStep(f.e) /\ f.continues /\ f.len \in Int /\ f.size \in Int
        /\ QuietStep(a.e.quiet, f.e.quiet, f.dtx, here, 40)
    BY <1>4, Zenon DEF FrameDone
  <1>a. f.dtx \in BOOLEAN
    BY <1>5, QuietIs
  <1>6. f.e \in InSteps
    BY <1>5 DEF InSteps, InStep
  <1>7. a.total + f.len \in Int /\ a.dtx + (IF f.len = 1 THEN 1 ELSE 0) \in Int
    BY <1>1, <1>5
  <1>8. (a.ok /\ f.len # Refused) \in BOOLEAN /\ (a.continues /\ f.continues) \in Yes
    BY <1>1, <1>5 DEF Yes
  <1>9. Append(a.sizes, f.size) \in Numbers /\ Append(a.skips, f.dtx) \in Skips
    BY <1>1, <1>5, <1>a DEF Numbers, Skips
  <1>10. now \in FramesCoded
    BY <1>6, <1>7, <1>8, <1>9, Zenon DEF AfterSub, FramesCoded
  <1>11. SubStep(a, now, here)
    <2>1. now.skips = Append(a.skips, f.dtx) /\ now.e = f.e
      BY DEF AfterSub
    <2> QED
      BY <1>5, <1>a, <2>1, Zenon DEF SubStep
  <1> QED
    BY <1>10, <1>11, SubFrameIs, Zenon DEF f, here

\* The silence counter over n frames of which some are left out.
Quiets(counts, n, skips, silent, ms) ==
    /\ counts \in [0..n -> Counts] /\ DOMAIN skips = 1..n
    /\ \A k \in 1..n : QuietStep(counts[k - 1], counts[k], skips[k], Here(silent, k), ms)

\* From what it was to what it is.
QuietOver(from, to, skips, silent, ms) ==
    \E n \in Nat : \E counts : /\ Quiets(counts, n, skips, silent, ms)
                               /\ counts[0] = from /\ counts[n] = to

\* The frames up to one of them.
UpTo(w, k, silent) ==
    /\ Len(w[k].skips) = k
    /\ \A j \in 1..k : QuietStep(w[j - 1].e.quiet, w[j].e.quiet, w[k].skips[j], Here(silent, j), 40)

LEMMA OneMore ==
    ASSUME NEW n \in Nat, NEW w \in [0..n -> FramesCoded], NEW silent, NEW k \in 1..n,
           UpTo(w, k - 1, silent), SubStep(w[k - 1], w[k], Here(silent, k))
    PROVE  UpTo(w, k, silent)
  <1>1. PICK skip \in BOOLEAN : /\ w[k].skips = Append(w[k - 1].skips, skip)
                                /\ QuietStep(w[k - 1].e.quiet, w[k].e.quiet, skip, Here(silent, k), 40)
    BY DEF SubStep
  <1>2. k - 1 \in 0..n /\ k \in 0..n
    OBVIOUS
  <1>3. PICK was \in Seq(BOOLEAN) : was = w[k - 1].skips /\ Len(was) = k - 1
    BY <1>2 DEF FramesCoded, Skips, UpTo
  <1>4. PICK now \in Seq(BOOLEAN) : now = w[k].skips /\ now = Append(was, skip)
    BY <1>1, <1>2, <1>3 DEF FramesCoded, Skips
  <1>5. Len(now) = k /\ now[k] = skip /\ \A j \in 1..(k - 1) : now[j] = was[j]
    BY <1>3, <1>4
  <1>6. ASSUME NEW j \in 1..k
        PROVE  QuietStep(w[j - 1].e.quiet, w[j].e.quiet, now[j], Here(silent, j), 40)
    <2>1. CASE j = k
      BY <1>1, <1>5, <2>1
    <2>2. CASE j # k
      <3>1. j \in 1..(k - 1)
        BY <2>2
      <3>2. QuietStep(w[j - 1].e.quiet, w[j].e.quiet, was[j], Here(silent, j), 40)
        BY <1>3, <3>1, Zenon DEF UpTo
      <3> QED
        BY <1>5, <3>1, <3>2
    <2> QED
      BY <2>1, <2>2
  <1> QED
    BY <1>4, <1>5, <1>6, Zenon DEF UpTo

LEMMA FramesKeep ==
    ASSUME NEW m, Shared(m), NEW e, InStep(e), NEW n \in Nat, NEW q, q = [i \in 1..n |-> i]
    PROVE  /\ FrameFold(m, NoSubFrames(e), q) \in FramesCoded
           /\ QuietOver(e.quiet, FrameFold(m, NoSubFrames(e), q).e.quiet,
                        FrameFold(m, NoSubFrames(e), q).skips, m.silent, 40)
  <1> DEFINE none == NoSubFrames(e)
  <1>1. none \in FramesCoded
    <2>1. e \in InSteps /\ 0 \in Int /\ <<>> \in Numbers /\ <<>> \in Skips /\ TRUE \in Yes
      BY DEF InSteps, InStep, Numbers, Skips, Yes
    <2> QED
      BY <2>1, Zenon DEF NoSubFrames, FramesCoded
  <1>2. none.e = e /\ none.skips = <<>>
    BY DEF NoSubFrames
  <1> HIDE DEF none
  <1>3. DOMAIN q = 1..n /\ \A k \in 1..n : q[k] = k
    OBVIOUS
  <1>4. \A v \in FramesCoded, k \in 1..n : SubFrame(m, v, q[k]) \in FramesCoded
    BY SubFrameKeeps
  <1>5. PICK w : FrameByFrame(w, FramesCoded, m, none, q, n) /\ FrameFold(m, none, q) = w[n]
    BY <1>1, <1>3, <1>4, FramesInTurn
  <1>6. w \in [0..n -> FramesCoded] /\ w[0] = none /\ \A k \in 1..n : w[k] = SubFrame(m, w[k - 1], k)
    BY <1>3, <1>5, Zenon DEF FrameByFrame
  <1>7. 0 \in 0..n /\ n \in 0..n /\ \A k \in 1..n : k \in 0..n /\ k - 1 \in 0..n
    OBVIOUS
  <1>8. UpTo(w, n, m.silent)
    <2> DEFINE T == {k \in 0..n : UpTo(w, k, m.silent)}
    <2>1. 0 \in T
      <3>1. Len(w[0].skips) = 0 /\ 1..0 = {}
        BY <1>2, <1>6
      <3>2. UpTo(w, 0, m.silent)
        BY <3>1, Zenon DEF UpTo
      <3> QED
        BY <1>7, <3>2
    <2>2. ASSUME NEW k \in 1..n, k - 1 \in T PROVE k \in T
      <3>1. w[k - 1] \in FramesCoded
        BY <1>6, <1>7
      <3>2. SubStep(w[k - 1], w[k], Here(m.silent, k))
        BY <1>6, <3>1, SubFrameKeeps, Zenon
      <3>3. UpTo(w, k - 1, m.silent)
        BY <2>2
      <3>4. UpTo(w, k, m.silent)
        BY <1>6, <3>2, <3>3, OneMore, Zenon
      <3> QED
        BY <1>7, <3>4
    <2> HIDE DEF T
    <2>3. \A k \in 0..n : k \in T
      BY <2>1, <2>2, Climb, Zenon
    <2>4. n \in T
      BY <1>7, <2>3
    <2> QED
      BY <2>4 DEF T
  <1> DEFINE counts == [k \in 0..n |-> w[k].e.quiet]
             skips == w[n].skips
  <1>9. Quiets(counts, n, skips, m.silent, 40)
    <2>1. \A k \in 0..n : w[k].e.quiet \in Counts
      <3> SUFFICES ASSUME NEW k \in 0..n PROVE w[k].e.quiet \in Counts
        OBVIOUS
      <3>1. w[k].e \in InSteps
        BY <1>6 DEF FramesCoded
      <3>2. w[k].e \in EncoderType
        BY <3>1, Zenon DEF InSteps
      <3> QED
        BY <3>2, EncoderFields
    <2>2. counts \in [0..n -> Counts]
      BY <2>1
    <2>3. DOMAIN skips = 1..n
      <3>1. skips \in Seq(BOOLEAN)
        BY <1>6, <1>7 DEF FramesCoded, Skips
      <3>2. Len(skips) = n
        BY <1>8 DEF UpTo
      <3> QED
        BY <3>1, <3>2
    <2>4. \A k \in 1..n : QuietStep(counts[k - 1], counts[k], skips[k], Here(m.silent, k), 40)
      BY <1>7, <1>8, Zenon DEF UpTo
    <2> QED
      BY <2>2, <2>3, <2>4, Zenon DEF Quiets
  <1>10. counts[0] = e.quiet /\ counts[n] = w[n].e.quiet
    BY <1>2, <1>6, <1>7
  <1>11. QuietOver(e.quiet, w[n].e.quiet, skips, m.silent, 40)
    <2> HIDE DEF counts, skips
    <2> QED
      BY <1>9, <1>10, Zenon DEF QuietOver
  <1>12. w[n] \in FramesCoded
    BY <1>6, <1>7
  <1> QED
    BY <1>5, <1>11, <1>12 DEF none

-----------------------------------------------------------------------------
(* A call of an encoder.                                                     *)

\* What a call leaves and returns.
Went(r, e, silent, ms) ==
    /\ InStep(r.e) /\ r.continues = TRUE /\ r.packet.sizes \in Numbers
    /\ QuietOver(e.quiet, r.e.quiet, r.skips, silent, ms)

Target(cfg, userRate, d, out) ==
    IF cfg.vbr \/ userRate = BitrateMax THEN out ELSE SmallerOf(d.cbr, out)
SharedBy(cfg, d, n, target, silent, want) ==
    [c |-> cfg, d |-> d, n |-> n, lenSum |-> n + target - HeaderBytes(n),
     silent |-> silent, want |-> want]
AfterFrames(cfg, target, n, a) ==
    [e |-> a.e, skips |-> a.skips, continues |-> a.continues,
     packet |-> [len |-> IF ~a.ok THEN Refused
                         ELSE OutLength(a.sizes, target, FALSE, ~cfg.vbr /\ a.dtx # n),
                 toc |-> GenTOC(Celt, 50, a.e.bandwidth, a.e.streamChannels),
                 sizes |-> a.sizes]]
Frames(cfg, e, userRate, d, n, out, silent, want) ==
    FrameFold(SharedBy(cfg, d, n, Target(cfg, userRate, d, out), silent, want),
              NoSubFrames(e), [i \in 1..n |-> i])

LEMMA MultiframeIs ==
    ASSUME NEW cfg, NEW e, NEW userRate, NEW d, NEW frame, NEW out, NEW silent, NEW want,
           NEW n, n = frame \div (Fs \div 50)
    PROVE  EncodeMultiframe(cfg, e, userRate, d, frame, out, silent, want)
             = AfterFrames(cfg, Target(cfg, userRate, d, out), n,
                           Frames(cfg, e, userRate, d, n, out, silent, want))
  <1> DEFINE m == frame \div (Fs \div 50)
             t == Target(cfg, userRate, d, out)
             a == Frames(cfg, e, userRate, d, m, out, silent, want)
  <1>1. {AfterFrames(cfg, t, m, x) : x \in {a}} = {AfterFrames(cfg, t, m, a)}
    OBVIOUS
  <1>2. EncodeMultiframe(cfg, e, userRate, d, frame, out, silent, want)
          = CHOOSE y \in {AfterFrames(cfg, t, m, x) : x \in {a}} : TRUE
    BY DEF EncodeMultiframe, Then, AfterFrames, Frames, FrameFold, SharedBy, Target
  <1> QED
    BY <1>1, <1>2, OneOf, Zenon

LEMMA MultiframeKeeps ==
    ASSUME NEW cfg, NEW e, InStep(e), NEW userRate, NEW d,
           d.rate \in Int, d.equiv \in Int, d.cbr \in Int, NEW frame, NEW out \in Int,
           NEW silent, NEW want \in Int, NEW n \in Nat \ {0}, n = frame \div (Fs \div 50)
    PROVE  Went(EncodeMultiframe(cfg, e, userRate, d, frame, out, silent, want), e, silent, 40)
  <1> DEFINE t == Target(cfg, userRate, d, out)
             m == SharedBy(cfg, d, n, t, silent, want)
             q == [i \in 1..n |-> i]
             a == FrameFold(m, NoSubFrames(e), q)
             r == AfterFrames(cfg, t, n, a)
  <1>1. t \in Int
    BY DEF Target, SmallerOf
  <1>2. n + t - HeaderBytes(n) \in Int
    <2> HIDE DEF t
    <2> QED
      BY <1>1 DEF HeaderBytes
  <1>3. Shared(m) /\ m.silent = silent
    <2> HIDE DEF t
    <2> QED
      BY <1>2 DEF Shared, SharedBy
  <1> HIDE DEF m, t
  <1>4. a \in FramesCoded /\ QuietOver(e.quiet, a.e.quiet, a.skips, silent, 40)
    <2>1. n \in Nat
      OBVIOUS
    <2> QED
      BY <1>3, <2>1, FramesKeep
  <1>5. a = Frames(cfg, e, userRate, d, n, out, silent, want)
    BY DEF Frames, m, t
  <1> HIDE DEF a
  <1>6. a.e \in InSteps /\ a.sizes \in Numbers /\ a.continues \in Yes
    BY <1>4 DEF FramesCoded
  <1>7. InStep(a.e) /\ a.continues = TRUE
    BY <1>6, Zenon DEF InSteps, Yes
  <1>8. r.e = a.e /\ r.continues = a.continues /\ r.packet.sizes = a.sizes /\ r.skips = a.skips
    BY DEF AfterFrames
  <1> HIDE DEF r
  <1>9. Went(r, e, silent, 40)
    BY <1>4, <1>6, <1>7, <1>8, Zenon DEF Went
  <1>10. r = EncodeMultiframe(cfg, e, userRate, d, frame, out, silent, want)
    <2>1. EncodeMultiframe(cfg, e, userRate, d, frame, out, silent, want)
            = AfterFrames(cfg, Target(cfg, userRate, d, out), n,
                          Frames(cfg, e, userRate, d, n, out, silent, want))
      BY MultiframeIs
    <2> QED
      BY <1>5, <2>1, Zenon DEF r, t
  <1> QED
    BY <1>9, <1>10, Zenon

\* The paths of EncodeNative behind the rate decisions.
LeftOut(cfg, d, frame, out) ==
    [e |-> d.e, packet |-> EncodeDegenerate(cfg, d.e, out, d.max, Fs \div frame),
     skips |-> <<>>, continues |-> TRUE, degenerate |-> TRUE, cbr |-> d.cbr]
Several(d, m) ==
    [e |-> m.e, packet |-> m.packet, skips |-> m.skips, continues |-> m.continues,
     degenerate |-> FALSE, cbr |-> d.cbr]
Single(d, frame, f) ==
    [e |-> f.e,
     packet |-> [len |-> f.len,
                 toc |-> GenTOC(Celt, Fs \div frame, f.e.bandwidth, f.e.streamChannels),
                 sizes |-> <<f.size>>],
     skips |-> <<f.dtx>>, continues |-> f.continues, degenerate |-> FALSE, cbr |-> d.cbr]

Path(cfg, userRate, frame, out, silent, want, d) ==
    IF d.degenerate THEN LeftOut(cfg, d, frame, out)
    ELSE IF frame > Fs \div 50
    THEN Several(d, EncodeMultiframe(cfg, d.e, userRate, d, frame, out, silent, want))
    ELSE Single(d, frame, EncodeFrameNative(cfg, d.e, d, frame, d.max, silent = 1, silent = 1, want))

LEMMA NativeIs ==
    ASSUME NEW cfg, NEW e, NEW userRate, NEW frame, NEW out, NEW silent, NEW want,
           ~RefusesArgs(frame, out), NEW d,
           d = DecideRates(cfg, e, userRate, frame, SmallerOf(out, PacketCap))
    PROVE  EncodeNative(cfg, e, userRate, frame, out, silent, want)
             = Path(cfg, userRate, frame, out, silent, want, d)
  <1> DEFINE Multi(x) == EncodeMultiframe(cfg, x.e, userRate, x, frame, out, silent, want)
             One(x) == EncodeFrameNative(cfg, x.e, x, frame, x.max, silent = 1, silent = 1, want)
             Then1(x) == CHOOSE y \in {Several(x, m) : m \in {Multi(x)}} : TRUE
             Then2(x) == CHOOSE y \in {Single(x, frame, f) : f \in {One(x)}} : TRUE
             G(x) == IF x.degenerate THEN LeftOut(cfg, x, frame, out)
                     ELSE IF frame > Fs \div 50 THEN Then1(x) ELSE Then2(x)
             d0 == DecideRates(cfg, e, userRate, frame, SmallerOf(out, PacketCap))
  <1>1. EncodeNative(cfg, e, userRate, frame, out, silent, want)
          = CHOOSE y \in {G(x) : x \in {d0}} : TRUE
    BY Zenon DEF EncodeNative, Then, LeftOut, Several, Single
  <1> HIDE DEF d0
  <1>2. {G(x) : x \in {d0}} = {G(d0)}
    OBVIOUS
  <1>3. EncodeNative(cfg, e, userRate, frame, out, silent, want) = G(d0)
    <2> HIDE DEF G
    <2> QED
      BY <1>1, <1>2, OneOf, Zenon
  <1>4. Then1(d0) = Several(d0, Multi(d0))
    <2>1. {Several(d0, m) : m \in {Multi(d0)}} = {Several(d0, Multi(d0))}
      OBVIOUS
    <2> QED
      BY <2>1, OneOf, Zenon
  <1>5. Then2(d0) = Single(d0, frame, One(d0))
    <2>1. {Single(d0, frame, f) : f \in {One(d0)}} = {Single(d0, frame, One(d0))}
      OBVIOUS
    <2> QED
      BY <2>1, OneOf, Zenon
  <1>6. G(d0) = Path(cfg, userRate, frame, out, silent, want, d0)
    BY <1>4, <1>5, Zenon DEF Path
  <1>7. d = d0
    BY DEF d0
  <1> QED
    BY <1>3, <1>6, <1>7, Zenon

\* A frame left out says nothing of the state.
LEMMA NothingCoded ==
    ASSUME NEW q \in Counts, NEW silent, NEW ms
    PROVE  QuietOver(q, q, <<>>, silent, ms)
  <1> DEFINE counts == [k \in 0..0 |-> q]
  <1>1. Quiets(counts, 0, <<>>, silent, ms)
    <2>1. counts \in [0..0 -> Counts] /\ DOMAIN <<>> = 1..0 /\ 1..0 = {}
      OBVIOUS
    <2> QED
      BY <2>1, Zenon DEF Quiets
  <1>2. counts[0] = q /\ 0 \in Nat
    OBVIOUS
  <1> HIDE DEF counts
  <1> QED
    BY <1>1, <1>2, Zenon DEF QuietOver

LEMMA OneCoded ==
    ASSUME NEW q \in Counts, NEW next \in Counts, NEW skip, NEW silent, NEW ms, NEW here,
           QuietStep(q, next, skip, here, ms), here = Here(silent, 1)
    PROVE  QuietOver(q, next, <<skip>>, silent, ms)
  <1> DEFINE counts == [k \in 0..1 |-> IF k = 0 THEN q ELSE next]
  <1>1. /\ counts \in [0..1 -> Counts] /\ DOMAIN <<skip>> = 1..1 /\ <<skip>>[1] = skip
        /\ counts[0] = q /\ counts[1] = next /\ 1..1 = {1} /\ 1 - 1 = 0 /\ 1 \in Nat
    OBVIOUS
  <1> HIDE DEF counts
  <1>2. Quiets(counts, 1, <<skip>>, silent, ms)
    BY <1>1, Zenon DEF Quiets
  <1> QED
    BY <1>1, <1>2, Zenon DEF QuietOver

\* The frames of a call and their half milliseconds.
LEMMA CallFacts ==
    ASSUME NEW frame, Lasting(frame)
    PROVE  /\ frame > Fs \div 50 =>
                 /\ SubHalfMs(frame) = 40 /\ frame \div (Fs \div 50) \in Nat \ {0}
           /\ ~(frame > Fs \div 50) =>
                 /\ SubFrames(frame) = 1 /\ SubHalfMs(frame) \in HalfMs
                 /\ Halves(frame, SubHalfMs(frame))
           /\ Fs \div frame \in Nat \ {0}
  <1>1. PICK k \in Durations : frame = k * (Fs \div 400)
    BY DEF Lasting
  <1>2. /\ frame \in Nat \ {0} /\ Fs \div frame \in Nat \ {0}
        /\ frame \div (Fs \div 2000) = 5 * k /\ (2000 * frame) \div Fs = 5 * k
        /\ (frame > Fs \div 50) <=> (k > 8)
        /\ frame \div (Fs \div 50) \in Nat
        /\ k > 8 => frame \div (Fs \div 50) >= 2
    BY <1>1, FrameFacts
  <1>3. CASE k > 8
    <2>1. SubHalfMs(frame) = 40
      BY <1>2, <1>3 DEF SubHalfMs, SmallerOf, Durations
    <2> QED
      BY <1>2, <1>3, <2>1
  <1>4. CASE ~(k > 8)
    <2>1. k \in {1, 2, 4, 8} /\ SubHalfMs(frame) = 5 * k
      BY <1>2, <1>4 DEF SubHalfMs, SmallerOf, Durations
    <2>2. SubHalfMs(frame) \in HalfMs
      BY <2>1 DEF HalfMs
    <2>3. Halves(frame, SubHalfMs(frame))
      BY <1>2, <2>1 DEF Halves
    <2>4. SubFrames(frame) = 1
      <3>1. frame \div (Fs \div 50) <= 1
        <4>1. frame <= Fs \div 50 /\ Fs \div 50 \in {160, 240, 320, 480, 960}
          BY <1>2, <1>4, RateAssumption
        <4>2. PICK s \in {160, 240, 320, 480, 960} : s = Fs \div 50
          BY <4>1
        <4>3. frame \div s <= 1
          BY <1>2, <4>1, <4>2
        <4> QED
          BY <4>2, <4>3
      <3> QED
        BY <1>2, <3>1 DEF SubFrames, LargerOf
    <2> QED
      BY <1>2, <1>4, <2>2, <2>3, <2>4
  <1> QED
    BY <1>3, <1>4

LEMMA DegenerateSizes ==
    ASSUME NEW cfg, NEW e, NEW out, NEW max, NEW frameRate \in Nat \ {0}
    PROVE  EncodeDegenerate(cfg, e, out, max, frameRate).sizes \in Numbers
  <1> DEFINE shape == DegenerateShape(e, out, frameRate)
             n == DegenerateFrames(shape.code, frameRate)
             ns == [i \in 1..n |-> 0]
  <1>1. 50 \div frameRate \in Nat
    OBVIOUS
  <1>2. n \in Nat
    BY <1>1 DEF DegenerateFrames
  <1>3. EncodeDegenerate(cfg, e, out, max, frameRate).sizes = ns
    BY DEF EncodeDegenerate
  <1> HIDE DEF n
  <1>4. ns \in Seq(Int)
    BY <1>2
  <1> QED
    BY <1>3, <1>4 DEF Numbers

LEMMA NativeKeeps ==
    ASSUME NEW cfg, cfg.complexity \in 1..10, NEW e, InStep(e), NEW userRate \in Int,
           NEW frame, Lasting(frame), NEW out \in Int, NEW want \in Int,
           NEW silent \in {0, 1, SubFrames(frame)}
    PROVE  Went(EncodeNative(cfg, e, userRate, frame, out, silent, want), e, silent,
                SubHalfMs(frame))
  <1> DEFINE r == EncodeNative(cfg, e, userRate, frame, out, silent, want)
             ms == SubHalfMs(frame)
  <1>0. e.quiet \in Counts
    BY EncoderFields DEF InStep
  <1>1. CASE RefusesArgs(frame, out)
    <2>1. r.e = e /\ r.continues = TRUE /\ r.packet.sizes = <<>> /\ r.skips = <<>>
      BY <1>1 DEF EncodeNative, NotCoded
    <2>2. QuietOver(e.quiet, e.quiet, <<>>, silent, ms)
      BY <1>0, NothingCoded, Zenon
    <2>3. <<>> \in Numbers
      BY DEF Numbers
    <2> HIDE DEF r, ms
    <2>4. Went(r, e, silent, ms)
      BY <2>1, <2>2, <2>3, Zenon DEF Went
    <2> QED
      BY <2>4 DEF r, ms
  <1>2. CASE ~RefusesArgs(frame, out)
    <2> DEFINE d == DecideRates(cfg, e, userRate, frame, SmallerOf(out, PacketCap))
               path == Path(cfg, userRate, frame, out, silent, want, d)
    <2>1. SmallerOf(out, PacketCap) \in Int
      BY DEF SmallerOf, PacketCap, MaxFrameLen
    <2>2. Decided(d, e)
      BY <2>1, DecideKeeps
    <2>a. d = DecideRates(cfg, e, userRate, frame, SmallerOf(out, PacketCap))
      OBVIOUS
    <2> HIDE DEF d
    <2>3. r = path
      BY <1>2, <2>a, NativeIs
    <2> HIDE DEF r
    <2>4. /\ d.rate \in Int /\ d.cbr \in Int /\ d.max \in Int /\ d.equiv \in Int
          /\ InStep(d.e) /\ d.e.quiet = e.quiet
      BY <2>2, Zenon DEF Decided
    <2>5. CASE d.degenerate
      <3>1. path = LeftOut(cfg, d, frame, out)
        BY <2>5 DEF Path
      <3>2. EncodeDegenerate(cfg, d.e, out, d.max, Fs \div frame).sizes \in Numbers
        BY CallFacts, DegenerateSizes
      <3>3. /\ r.e = d.e /\ r.continues = TRUE /\ r.skips = <<>>
            /\ r.packet = EncodeDegenerate(cfg, d.e, out, d.max, Fs \div frame)
        BY <2>3, <3>1 DEF LeftOut
      <3>4. QuietOver(e.quiet, e.quiet, <<>>, silent, ms)
        BY <1>0, NothingCoded, Zenon
      <3> HIDE DEF ms
      <3> QED
        BY <2>4, <3>2, <3>3, <3>4, Zenon DEF Went, r, ms
    <2>6. CASE ~d.degenerate /\ frame > Fs \div 50
      <3> DEFINE m == EncodeMultiframe(cfg, d.e, userRate, d, frame, out, silent, want)
      <3>1. path = Several(d, m)
        BY <2>6 DEF Path
      <3>2. ms = 40 /\ frame \div (Fs \div 50) \in Nat \ {0}
        BY <2>6, CallFacts
      <3>3. Went(m, d.e, silent, 40)
        BY <2>4, <3>2, MultiframeKeeps
      <3> HIDE DEF m, ms
      <3>4. /\ r.e = m.e /\ r.continues = m.continues /\ r.skips = m.skips
            /\ r.packet = m.packet
        BY <2>3, <3>1 DEF Several
      <3>5. Went(r, e, silent, ms)
        BY <2>4, <3>2, <3>3, <3>4, Zenon DEF Went
      <3> QED
        BY <3>5 DEF r, ms
    <2>7. CASE ~d.degenerate /\ ~(frame > Fs \div 50)
      <3> DEFINE here == silent = 1
                 f == EncodeFrameNative(cfg, d.e, d, frame, d.max, here, here, want)
      <3>1. path = Single(d, frame, f)
        BY <2>7 DEF Path
      <3>2. ms \in HalfMs /\ Halves(frame, ms) /\ SubFrames(frame) = 1
        BY <2>7, CallFacts
      <3>3. here \in BOOLEAN /\ here = Here(silent, 1)
        BY <3>2 DEF Here
      <3> HIDE DEF here, ms
      <3>4. FrameDone(f, d.e, here, ms)
        BY <2>4, <3>2, <3>3, FrameKeeps
      <3> HIDE DEF f
      <3>5. /\ InStep(f.e) /\ f.continues /\ f.continues \in BOOLEAN /\ f.size \in Int
            /\ QuietStep(e.quiet, f.e.quiet, f.dtx, here, ms)
        BY <2>4, <3>4, Zenon DEF FrameDone
      <3>6. f.e.quiet \in Counts
        BY <3>5, EncoderFields DEF InStep
      <3>7. QuietOver(e.quiet, f.e.quiet, <<f.dtx>>, silent, ms)
        BY <1>0, <3>3, <3>5, <3>6, OneCoded
      <3>8. <<f.size>> \in Numbers
        BY <3>5 DEF Numbers
      <3>9. /\ r.e = f.e /\ r.continues = f.continues /\ r.skips = <<f.dtx>>
            /\ r.packet.sizes = <<f.size>>
        BY <2>3, <3>1 DEF Single
      <3>10. Went(r, e, silent, ms)
        BY <3>5, <3>7, <3>8, <3>9, Zenon DEF Went
      <3> QED
        BY <3>10 DEF r, ms
    <2> QED
      BY <2>5, <2>6, <2>7
  <1> QED
    BY <1>1, <1>2

-----------------------------------------------------------------------------
(* The history of a stream over a call.                                      *)

Runs == [silent : Nat, skipped : Nat]

LEMMA RanKeeps ==
    ASSUME NEW from \in Counts, NEW to, NEW skips, NEW silent, NEW ms \in HalfMs,
           QuietOver(from, to, skips, silent, ms), NEW run, Counted(from, run)
    PROVE  Counted(to, Ran(run, skips, ms, silent))
  <1> DEFINE m == [skips |-> skips, ms |-> ms, silent |-> silent]
             q == [i \in DOMAIN skips |-> i]
  <1>1. PICK n \in Nat : \E counts : /\ Quiets(counts, n, skips, silent, ms)
                                     /\ counts[0] = from /\ counts[n] = to
    BY Zenon DEF QuietOver
  <1>2. PICK counts : /\ Quiets(counts, n, skips, silent, ms)
                      /\ counts[0] = from /\ counts[n] = to
    BY <1>1
  <1>3. /\ counts \in [0..n -> Counts] /\ DOMAIN skips = 1..n
        /\ \A k \in 1..n : QuietStep(counts[k - 1], counts[k], skips[k], Here(silent, k), ms)
    BY <1>2, Zenon DEF Quiets
  <1>4. run \in Runs
    BY DEF Counted, Runs
  <1>5. DOMAIN q = 1..n /\ \A k \in 1..n : q[k] = k
    BY <1>3
  <1>6. m.skips = skips /\ m.ms = ms /\ m.silent = silent
    OBVIOUS
  <1>7. Ran(run, skips, ms, silent) = RunFold(m, run, q)
    BY DEF Ran, RunFold
  <1> HIDE DEF m, q
  <1>8. \A v \in Runs, k \in 1..n :
           RanOne(m, v, k) = RunAfter(v, Here(silent, k), skips[k], ms)
    BY <1>6, Zenon DEF RanOne, RunAfter, Here
  <1>9. \A v \in Runs, k \in 1..n : RanOne(m, v, q[k]) \in Runs
    <2> SUFFICES ASSUME NEW v \in Runs, NEW k \in 1..n PROVE RanOne(m, v, k) \in Runs
      BY <1>5
    <2> DEFINE here == Here(silent, k)
               skip == skips[k]
    <2>1. RanOne(m, v, k) = RunAfter(v, here, skip, ms)
      BY <1>8
    <2> HIDE DEF here, skip
    <2>2. RunAfter(v, here, skip, ms) \in Runs
      BY DEF RunAfter, Runs, SmallerOf, HalfMs
    <2> QED
      BY <2>1, <2>2
  <1>10. PICK w : RunByRun(w, Runs, m, run, q, n) /\ RunFold(m, run, q) = w[n]
    BY <1>4, <1>5, <1>9, RunsInTurn
  <1>11. w \in [0..n -> Runs] /\ w[0] = run /\ \A k \in 1..n : w[k] = RanOne(m, w[k - 1], k)
    BY <1>5, <1>10, Zenon DEF RunByRun
  <1>12. 0 \in 0..n /\ n \in 0..n /\ \A k \in 1..n : k \in 0..n /\ k - 1 \in 0..n
    OBVIOUS
  <1> DEFINE T == {k \in 0..n : Counted(counts[k], w[k])}
  <1>13. 0 \in T
    BY <1>2, <1>11, <1>12
  <1>14. ASSUME NEW k \in 1..n, k - 1 \in T PROVE k \in T
    <2>1. counts[k - 1] \in Counts /\ w[k - 1] \in Runs /\ Counted(counts[k - 1], w[k - 1])
      BY <1>3, <1>11, <1>12, <1>14
    <2>2. QuietStep(counts[k - 1], counts[k], skips[k], Here(silent, k), ms)
      BY <1>3
    <2>3. w[k] = RunAfter(w[k - 1], Here(silent, k), skips[k], ms)
      BY <1>8, <1>11, <2>1, Zenon
    <2>4. Counted(counts[k], w[k])
      BY <2>1, <2>2, <2>3, CountStep
    <2> QED
      BY <1>12, <2>4
  <1> HIDE DEF T
  <1>15. \A k \in 0..n : k \in T
    BY <1>13, <1>14, Climb, Zenon
  <1>16. n \in T
    BY <1>12, <1>15
  <1> QED
    BY <1>2, <1>7, <1>10, <1>16 DEF T

-----------------------------------------------------------------------------
(* What a stream is given.                                                   *)

LEMMA ConfigFacts ==
    ASSUME c \in Configs
    PROVE  /\ c.streams \in 1..255 /\ c.streams \in Nat /\ c.coupled \in 0..c.streams
           /\ c.bitrate \in Int
           /\ c.complexity \in 1..10 /\ Streams = 1..c.streams
           /\ (~c.multi => c.streams = 1)
           /\ \A f \in c.frames : Lasting(f)
           /\ \A room \in c.rooms : room \in Int
           /\ \A want \in c.wants : want \in Int
  <1>1. /\ c.streams \in 1..255 /\ c.coupled \in 0..c.streams /\ c.channels \in 1..255
        /\ (~c.multi => c.streams = 1)
    BY ConfigAssumption
  <1>0. c.streams \in Nat
    BY <1>1
  <1>2. \A f \in c.frames : Lasting(f)
    <2>1. \A f \in c.frames :
             \E k \in {1, 2, 4, 8, 16, 24, 32, 40, 48} : f = k * (Fs \div 400)
      BY ConfigAssumption, SMT
    <2> QED
      BY <2>1, SMT DEF Lasting, Durations
  <1>4. c.bitrate \in Int
    <2>1. c.channels \in 1..255
      BY <1>1
    <2> QED
      BY <2>1, RatesAssumption, SMT DEF OpusAuto
  <1>5. \A room \in c.rooms : room \in Int
    BY CallsAssumption, SMT
  <1>6. \A want \in c.wants : want \in Int
    BY CallsAssumption, SMT
  <1>7. c.complexity \in 1..10
    BY CallsAssumption, SMT
  <1> QED
    BY <1>0, <1>1, <1>2, <1>4, <1>5, <1>6, <1>7, Zenon DEF Streams

LEMMA AllocatedInt ==
    ASSUME c \in Configs, NEW frame, Lasting(frame)
    PROVE  /\ DOMAIN Allocated(frame) = Streams
           /\ \A s \in Streams : Allocated(frame)[s] \in Int
  <1> DEFINE normal == 2 * c.coupled + (c.streams - c.coupled)
             offset == 40 * LargerOf(50, Fs \div frame)
             bitrate == CASE c.bitrate = OpusAuto -> normal * (offset + Fs + 10000)
                          [] OTHER -> c.bitrate
             streamOffset == LargerOf(0, SmallerOf(20000,
                                 Quot(Quot(bitrate - offset * normal, normal), 2)))
             total == 256 * (c.streams - c.coupled) + 512 * c.coupled
             rate == Quot(256 * (bitrate - streamOffset * c.streams - offset * normal), total)
             Given(s) == LargerOf(500,
                            IF Coupled(s) THEN 2 * offset + LargerOf(0, streamOffset + 2 * rate)
                            ELSE offset + LargerOf(0, streamOffset + rate))
  <1>1. c.streams \in 1..255 /\ c.coupled \in 0..c.streams /\ c.bitrate \in Int
    BY ConfigFacts
  <1>2. normal \in Nat \ {0} /\ total \in Nat \ {0}
    <2>1. PICK n \in 1..255 : n = c.streams
      BY <1>1
    <2>2. PICK k \in 0..n : k = c.coupled
      BY <1>1, <2>1
    <2>3. 2 * k + (n - k) \in Nat \ {0} /\ 256 * (n - k) + 512 * k \in Nat \ {0}
      OBVIOUS
    <2> QED
      BY <2>1, <2>2, <2>3
  <1>3. offset \in Int
    BY CallFacts DEF LargerOf
  <1>4. Fs \in Int
    BY RateAssumption
  <1>5. Allocated(frame) = [s \in Streams |-> Given(s)]
    BY DEF Allocated
  <1> HIDE DEF normal, offset, total
  <1>6. offset * normal \in Int /\ normal * (offset + Fs + 10000) \in Int
    BY <1>2, <1>3, <1>4
  <1>7. bitrate \in Int
    BY <1>1, <1>6
  <1> HIDE DEF bitrate
  <1>8. streamOffset \in Int
    <2>1. bitrate - offset * normal \in Int
      BY <1>6, <1>7
    <2>2. PICK x \in Int : x = Quot(bitrate - offset * normal, normal)
      BY <1>2, <2>1, QuotInt
    <2>3. PICK y \in Int : y = Quot(x, 2)
      BY QuotInt
    <2>4. LargerOf(0, SmallerOf(20000, y)) \in Int
      BY DEF LargerOf, SmallerOf
    <2> QED
      BY <2>2, <2>3, <2>4, SMT
  <1> HIDE DEF streamOffset
  <1>9. rate \in Int
    <2>1. streamOffset * c.streams \in Int
      BY <1>1, <1>8
    <2>2. 256 * (bitrate - streamOffset * c.streams - offset * normal) \in Int
      BY <1>6, <1>7, <2>1
    <2> QED
      BY <1>2, <2>2, QuotInt
  <1> HIDE DEF rate
  <1>10. ASSUME NEW s \in Streams PROVE Given(s) \in Int
    <2>1. 2 * offset + LargerOf(0, streamOffset + 2 * rate) \in Int
      BY <1>3, <1>8, <1>9 DEF LargerOf
    <2>2. offset + LargerOf(0, streamOffset + rate) \in Int
      BY <1>3, <1>8, <1>9 DEF LargerOf
    <2> QED
      BY <2>1, <2>2 DEF LargerOf
  <1> HIDE DEF Given
  <1> QED
    BY <1>5, <1>10

LEMMA StreamRateInt ==
    ASSUME c \in Configs, NEW frame, Lasting(frame), NEW s \in Streams, NEW max \in Int
    PROVE  StreamRate(s, frame, max) \in Int
  <1>1. PICK x \in Int : x = BitsToBitrate(max * 8, frame)
    BY BitsInt
  <1>2. PICK y \in Int : y = Allocated(frame)[s]
    BY AllocatedInt
  <1>3. PICK z \in Int : z = IF ~c.vbr /\ s = c.streams THEN x ELSE y
    OBVIOUS
  <1>4. PICK two \in Int : two = IF Coupled(s) THEN 2 ELSE 1
    OBVIOUS
  <1>5. StreamRate(s, frame, max) = Settable(z, two)
    BY <1>1, <1>2, <1>3, <1>4, Zenon DEF StreamRate
  <1> QED
    BY <1>5, SMT DEF Settable

LEMMA BudgetInt ==
    ASSUME c \in Configs, NEW frame, Lasting(frame), NEW room \in Int
    PROVE  Budget(frame, room) \in Int
  <1>1. c.streams \in 1..255 /\ c.bitrate \in Int /\ Streams = 1..c.streams
    BY ConfigFacts
  <1>0. c.streams \in Nat
    BY ConfigFacts, Zenon
  <1>2. PICK sum \in Int : sum = RateSum(frame)
    <2> DEFINE q == [s \in Streams |-> Allocated(frame)[s]]
    <2>1. DOMAIN q = 1..c.streams
      BY <1>1, Zenon
    <2>2. \A k \in 1..c.streams : q[k] \in Int
      BY <1>1, AllocatedInt
    <2> HIDE DEF q
    <2>3. Sum(q) \in Int
      BY <1>0, <2>1, <2>2, SumInt
    <2> QED
      BY <2>3 DEF RateSum, q
  <1>3. PICK x \in Int : x = BitrateToBits(sum, frame)
    BY BitsInt
  <1>4. PICK y \in Int : y = BitrateToBits(c.bitrate, frame)
    BY <1>1, BitsInt
  <1>5. PICK least \in Int : least = SmallestPacket(frame)
    <2>1. c.streams * 2 - 1 + (IF Is100ms(frame) THEN c.streams ELSE 0) \in Int
      <3>1. PICK n \in Int : n = c.streams
        BY <1>0
      <3>2. n * 2 - 1 + (IF Is100ms(frame) THEN n ELSE 0) \in Int
        OBVIOUS
      <3> QED
        BY <3>1, <3>2, Zenon
    <2> QED
      BY <2>1, Zenon DEF SmallestPacket
  <1>6. Budget(frame, room) =
           CASE c.vbr -> room
             [] ~c.vbr /\ c.bitrate = OpusAuto -> SmallerOf(room, (x + 4) \div 8)
             [] OTHER -> SmallerOf(room, LargerOf(least, (y + 4) \div 8))
    BY <1>2, <1>3, <1>4, <1>5, Zenon DEF Budget
  <1>7. SmallerOf(room, (x + 4) \div 8) \in Int
    BY DEF SmallerOf
  <1>8. SmallerOf(room, LargerOf(least, (y + 4) \div 8)) \in Int
    BY DEF SmallerOf, LargerOf
  <1> QED
    BY <1>6, <1>7, <1>8

LEMMA CurrMaxInt ==
    ASSUME c \in Configs, NEW s \in Streams, NEW budget \in Int, NEW total \in Int, NEW frame
    PROVE  CurrMax(s, budget, total, frame) \in Int
  <1>1. c.streams \in Int /\ s \in Int
    BY ConfigFacts
  <1>2. PICK left \in Int : left = c.streams - s
    BY <1>1
  <1>3. PICK reserve \in Int : reserve = LargerOf(0, 2 * left - 1)
    BY DEF LargerOf
  <1>4. PICK more \in Int : more = IF Is100ms(frame) THEN left ELSE 0
    OBVIOUS
  <1>5. PICK max \in Int : max = SmallerOf(budget - total - reserve - more, FrameTmp)
    BY DEF SmallerOf, FrameTmp
  <1>6. CurrMax(s, budget, total, frame)
           = IF left = 0 THEN max ELSE IF max > 253 THEN max - 2 ELSE max - 1
    BY <1>2, <1>3, <1>4, <1>5, SMT DEF CurrMax
  <1> QED
    BY <1>6

-----------------------------------------------------------------------------
(* The streams of a packet.                                                  *)

\* What is known when a packet is encoded.
Ready(m) ==
    /\ c \in Configs /\ \A s \in Streams : InStep(enc[s])
    /\ Lasting(m.frame) /\ m.budget \in Int /\ m.want \in Int
    /\ \A s \in Streams : m.silent[s] \in {0, 1, SubFrames(m.frame)}

\* One stream, by the parts EncodeStream names.
MaxOf(m, a, s) == CurrMax(s, m.budget, a.total, m.frame)
Coded(m, s, rate, max) == EncodeNative(c, enc[s], rate, m.frame, max, m.silent[s], m.want)
CodedIn(m, a, s) == Coded(m, s, StreamRate(s, m.frame, MaxOf(m, a, s)), MaxOf(m, a, s))
LenIn(m, a, s, r) ==
    IF r.packet.len = Refused THEN Refused
    ELSE OutLength(r.packet.sizes, m.budget - a.total, ~(s = c.streams), s = c.streams /\ ~c.vbr)
AfterStream(a, r, len) ==
    [e |-> Append(a.e, r.e), results |-> Append(a.results, r),
     ok |-> len # Refused, total |-> a.total + len]

LEMMA EncodeStreamIs ==
    ASSUME NEW m, NEW a, NEW s, a.ok
    PROVE  EncodeStream(m, a, s)
             = AfterStream(a, CodedIn(m, a, s), LenIn(m, a, s, CodedIn(m, a, s)))
  <1> DEFINE r0 == CodedIn(m, a, s)
             G(r) == CHOOSE y \in {AfterStream(a, r, len) : len \in {LenIn(m, a, s, r)}} : TRUE
  <1>1. EncodeStream(m, a, s) = CHOOSE y \in {G(r) : r \in {r0}} : TRUE
    BY Zenon DEF EncodeStream, Then, CodedIn, Coded, MaxOf, LenIn, AfterStream
  <1>2. {G(r) : r \in {r0}} = {G(r0)}
    <2> HIDE DEF r0, G
    <2> QED
      OBVIOUS
  <1>3. EncodeStream(m, a, s) = G(r0)
    <2> HIDE DEF r0, G
    <2> QED
      BY <1>1, <1>2, OneOf, Zenon
  <1>4. {AfterStream(a, r0, len) : len \in {LenIn(m, a, s, r0)}}
          = {AfterStream(a, r0, LenIn(m, a, s, r0))}
    <2> HIDE DEF r0
    <2> QED
      OBVIOUS
  <1>5. G(r0) = AfterStream(a, r0, LenIn(m, a, s, r0))
    BY <1>4, OneOf, Zenon
  <1> HIDE DEF G
  <1> QED
    BY <1>3, <1>5, Zenon

\* All that the streams can come to, and what is known of them up to now.
Natives(m) == {Coded(m, s, rate, max) : s \in Streams, rate \in Int, max \in Int}
StreamsCoded(m) == [e : Seq(InSteps), results : Seq(Natives(m)), ok : BOOLEAN, total : Int]

Gone(m, r, s) == Went(r, enc[s], m.silent[s], SubHalfMs(m.frame))

\* How a stream moves on from the one before: one behind a refused one is not encoded.
StreamStep(m, a, now, s) ==
    \/ ~a.ok /\ now = a
    \/ a.ok /\ \E r \in Natives(m) : /\ now.e = Append(a.e, r.e) /\ now.results = Append(a.results, r)
                                     /\ Gone(m, r, s)

LEMMA StreamKeeps ==
    ASSUME NEW m, Ready(m), NEW a \in StreamsCoded(m), NEW s \in Streams
    PROVE  /\ EncodeStream(m, a, s) \in StreamsCoded(m)
           /\ StreamStep(m, a, EncodeStream(m, a, s), s)
  <1>0. c \in Configs /\ Lasting(m.frame) /\ m.budget \in Int /\ m.want \in Int
    BY DEF Ready
  <1>1. CASE ~a.ok
    <2>1. EncodeStream(m, a, s) = a
      BY <1>1 DEF EncodeStream
    <2> QED
      BY <1>1, <2>1, Zenon DEF StreamStep
  <1>2. CASE a.ok
    <2> DEFINE max == MaxOf(m, a, s)
               rate == StreamRate(s, m.frame, max)
               r == CodedIn(m, a, s)
               len == LenIn(m, a, s, r)
    <2>1. /\ a.e \in Seq(InSteps) /\ a.results \in Seq(Natives(m)) /\ a.total \in Int
      BY DEF StreamsCoded
    <2>2. max \in Int
      BY <1>0, <2>1, CurrMaxInt DEF MaxOf
    <2>a. r = Coded(m, s, StreamRate(s, m.frame, max), max)
      BY Zenon DEF CodedIn
    <2> HIDE DEF max
    <2>3. rate \in Int
      BY <1>0, <2>2, StreamRateInt
    <2>b. r = Coded(m, s, rate, max)
      BY <2>a
    <2> HIDE DEF rate, r
    <2>4. r \in Natives(m)
      BY <2>2, <2>3, <2>b DEF Natives
    <2>5. Gone(m, r, s)
      <3>1. c.complexity \in 1..10
        BY <1>0, ConfigFacts, Zenon
      <3>2. InStep(enc[s]) /\ m.silent[s] \in {0, 1, SubFrames(m.frame)}
        BY Zenon DEF Ready
      <3>3. PICK sl \in {0, 1, SubFrames(m.frame)} : sl = m.silent[s]
        BY <3>2, Zenon
      <3>4. PICK e0 : e0 = enc[s] /\ InStep(e0)
        BY <3>2, Zenon
      <3>5. Went(EncodeNative(c, e0, rate, m.frame, max, sl, m.want), e0, sl, SubHalfMs(m.frame))
        BY <1>0, <2>2, <2>3, <3>1, <3>3, <3>4, NativeKeeps
      <3> QED
        BY <2>b, <3>3, <3>4, <3>5, Zenon DEF Gone, Coded
    <2>6. InStep(r.e) /\ r.packet.sizes \in Numbers
      BY <2>5, Zenon DEF Gone, Went
    <2>7. len \in Int
      <3>1. PICK left \in Int : left = m.budget - a.total
        BY <1>0, <2>1
      <3>2. OutLength(r.packet.sizes, left, ~(s = c.streams), s = c.streams /\ ~c.vbr) \in Int
        BY <2>6, <3>1, OutLengthInt DEF Numbers
      <3>3. Refused \in Int
        BY DEF Refused
      <3> QED
        BY <3>1, <3>2, <3>3, Zenon DEF LenIn
    <2> HIDE DEF len
    <2>8. EncodeStream(m, a, s) = AfterStream(a, r, len)
      BY <1>2, EncodeStreamIs, Zenon DEF r, len
    <2>9. r.e \in InSteps
      BY <2>6 DEF InSteps, InStep
    <2>10. AfterStream(a, r, len) \in StreamsCoded(m)
      <3>1. Append(a.e, r.e) \in Seq(InSteps)
        BY <2>1, <2>9
      <3>2. Append(a.results, r) \in Seq(Natives(m))
        <4> DEFINE N == Natives(m)
        <4> HIDE DEF N
        <4>1. a.results \in Seq(N) /\ r \in N
          BY <2>1, <2>4, Zenon DEF N
        <4>2. Append(a.results, r) \in Seq(N)
          BY <4>1
        <4> QED
          BY <4>2 DEF N
      <3>3. (len # Refused) \in BOOLEAN /\ a.total + len \in Int
        BY <2>1, <2>7
      <3> QED
        BY <3>1, <3>2, <3>3, Zenon DEF AfterStream, StreamsCoded
    <2>11. StreamStep(m, a, AfterStream(a, r, len), s)
      <3>1. /\ AfterStream(a, r, len).e = Append(a.e, r.e)
            /\ AfterStream(a, r, len).results = Append(a.results, r)
        BY DEF AfterStream
      <3> QED
        BY <1>2, <2>4, <2>5, <3>1, Zenon DEF StreamStep
    <2> QED
      BY <2>8, <2>10, <2>11, Zenon
  <1> QED
    BY <1>1, <1>2

\* The streams up to one of them.
UpToStream(m, a, k) ==
    /\ Len(a.e) <= k /\ Len(a.results) = Len(a.e) /\ (a.ok => Len(a.e) = k)
    /\ \A s \in 1..Len(a.e) : Gone(m, a.results[s], s) /\ a.e[s] = a.results[s].e

LEMMA OneStreamMore ==
    ASSUME NEW m, NEW a \in StreamsCoded(m), NEW now \in StreamsCoded(m), NEW k \in Nat \ {0},
           UpToStream(m, a, k - 1), StreamStep(m, a, now, k)
    PROVE  UpToStream(m, now, k)
  <1>1. /\ a.e \in Seq(InSteps) /\ a.results \in Seq(Natives(m))
        /\ Len(a.e) <= k - 1 /\ Len(a.results) = Len(a.e) /\ (a.ok => Len(a.e) = k - 1)
        /\ \A s \in 1..Len(a.e) : Gone(m, a.results[s], s) /\ a.e[s] = a.results[s].e
    BY DEF StreamsCoded, UpToStream
  <1>2. CASE ~a.ok /\ now = a
    <2>1. Len(a.e) <= k
      BY <1>1
    <2> QED
      BY <1>1, <1>2, <2>1, Zenon DEF UpToStream
  <1>3. CASE a.ok /\ ~(~a.ok /\ now = a)
    <2> DEFINE N == Natives(m)
    <2>1. PICK r \in N : /\ now.e = Append(a.e, r.e) /\ now.results = Append(a.results, r)
                         /\ Gone(m, r, k)
      BY <1>3, Zenon DEF StreamStep
    <2>2. a.results \in Seq(N)
      BY <1>1, Zenon
    <2> HIDE DEF N
    <2>3. PICK es \in Seq(InSteps) : es = a.e
      BY <1>1
    <2>4. PICK rs \in Seq(N) : rs = a.results
      BY <2>2
    <2>5. Len(es) = k - 1 /\ Len(rs) = k - 1
      BY <1>1, <1>3, <2>3, <2>4
    <2>6. /\ Len(Append(es, r.e)) = k /\ Len(Append(rs, r)) = k
          /\ Append(es, r.e)[k] = r.e /\ Append(rs, r)[k] = r
          /\ \A s \in 1..(k - 1) : Append(es, r.e)[s] = es[s] /\ Append(rs, r)[s] = rs[s]
      BY <2>5
    <2>7. ASSUME NEW s \in 1..k
          PROVE  Gone(m, Append(rs, r)[s], s) /\ Append(es, r.e)[s] = Append(rs, r)[s].e
      <3>1. CASE s = k
        BY <2>1, <2>6, <3>1, Zenon
      <3>2. CASE s # k
        <4>1. s \in 1..(k - 1)
          BY <3>2
        <4>2. Gone(m, rs[s], s) /\ es[s] = rs[s].e
          BY <1>1, <2>3, <2>4, <2>5, <4>1, Zenon
        <4> QED
          BY <2>6, <4>1, <4>2, Zenon
      <3> QED
        BY <3>1, <3>2
    <2>8. now.e = Append(es, r.e) /\ now.results = Append(rs, r) /\ k <= k
      BY <2>1, <2>3, <2>4
    <2> QED
      BY <2>6, <2>7, <2>8, Zenon DEF UpToStream
  <1> QED
    BY <1>2, <1>3, Zenon DEF StreamStep

NoStreams == [e |-> <<>>, results |-> <<>>, ok |-> TRUE, total |-> 0]

LEMMA StreamsKeep ==
    ASSUME NEW m, Ready(m), NEW q, DOMAIN q = Streams, \A s \in Streams : q[s] = s
    PROVE  /\ StreamFold(m, NoStreams, q) \in StreamsCoded(m)
           /\ UpToStream(m, StreamFold(m, NoStreams, q), c.streams)
  <1> DEFINE n == c.streams
             V == StreamsCoded(m)
  <1>1. n \in Nat /\ Streams = 1..n
    <2>1. c \in Configs
      BY DEF Ready
    <2> QED
      BY <2>1, ConfigFacts, Zenon
  <1>2. NoStreams \in V
    <2>1. <<>> \in Seq(InSteps) /\ <<>> \in Seq(Natives(m)) /\ TRUE \in BOOLEAN /\ 0 \in Int
      OBVIOUS
    <2> QED
      BY <2>1, Zenon DEF NoStreams, StreamsCoded
  <1>3. DOMAIN q = 1..n /\ \A k \in 1..n : q[k] = k
    BY <1>1, Zenon
  <1>4. \A v \in V, k \in 1..n : EncodeStream(m, v, k) \in V /\ StreamStep(m, v, EncodeStream(m, v, k), k)
    BY <1>1, StreamKeeps, Zenon
  <1>5. \A v \in V, k \in 1..n : EncodeStream(m, v, q[k]) \in V
    BY <1>3, <1>4, Zenon
  <1>a. PICK top \in Nat : top = n
    BY <1>1, Zenon
  <1> HIDE DEF n, V
  <1>6. PICK w : StreamByStream(w, V, m, NoStreams, q, top) /\ StreamFold(m, NoStreams, q) = w[top]
    <2>1. DOMAIN q = 1..top
      BY <1>3, <1>a, Zenon
    <2>2. \A v \in V, k \in 1..top : EncodeStream(m, v, q[k]) \in V
      BY <1>5, <1>a, Zenon
    <2> QED
      BY <1>2, <2>1, <2>2, StreamsInTurn
  <1>7. /\ w \in [0..top -> V] /\ w[0] = NoStreams
        /\ \A k \in 1..top : w[k] = EncodeStream(m, w[k - 1], k)
    BY <1>3, <1>6, <1>a, Zenon DEF StreamByStream
  <1>8. 0 \in 0..top /\ top \in 0..top
        /\ \A k \in 1..top : k \in 0..top /\ k - 1 \in 0..top /\ k \in Nat \ {0}
    OBVIOUS
  <1> DEFINE T == {k \in 0..top : UpToStream(m, w[k], k)}
  <1>9. 0 \in T
    <2>1. /\ Len(NoStreams.e) = 0 /\ Len(NoStreams.results) = 0 /\ 0 <= 0 /\ 1..0 = {}
      BY DEF NoStreams
    <2>2. UpToStream(m, NoStreams, 0)
      BY <2>1, Zenon DEF UpToStream
    <2> QED
      BY <1>7, <1>8, <2>2
  <1>10. ASSUME NEW k \in 1..top, k - 1 \in T PROVE k \in T
    <2>1. w[k - 1] \in V /\ w[k] \in V
      BY <1>7, <1>8
    <2>2. StreamStep(m, w[k - 1], w[k], k)
      BY <1>4, <1>7, <1>a, <2>1, Zenon
    <2>3. UpToStream(m, w[k - 1], k - 1)
      BY <1>10
    <2>4. UpToStream(m, w[k], k)
      BY <1>8, <2>1, <2>2, <2>3, OneStreamMore, Zenon DEF V
    <2> QED
      BY <1>8, <2>4
  <1> HIDE DEF T
  <1>11. \A k \in 0..top : k \in T
    BY <1>9, <1>10, Climb, Zenon
  <1>12. top \in T /\ w[top] \in V
    BY <1>7, <1>8, <1>11
  <1>13. UpToStream(m, w[top], top)
    BY <1>12 DEF T
  <1> QED
    BY <1>6, <1>12, <1>13, <1>a, Zenon DEF n, V

-----------------------------------------------------------------------------
(* The encoders between calls.                                               *)

\* What a call leaves keeps step, and its history with it.
LEMMA WentCounted ==
    ASSUME NEW e, InStep(e), NEW run, Counted(e.quiet, run), NEW frame, Lasting(frame),
           NEW silent, NEW r, Went(r, e, silent, SubHalfMs(frame))
    PROVE  /\ InStep(r.e) /\ Counted(r.e.quiet, Ran(run, r.skips, SubHalfMs(frame), silent))
           /\ r.continues = TRUE
  <1>1. /\ InStep(r.e) /\ r.continues = TRUE
        /\ QuietOver(e.quiet, r.e.quiet, r.skips, silent, SubHalfMs(frame))
    BY Zenon DEF Went
  <1>2. e.quiet \in Counts
    BY EncoderFields DEF InStep
  <1>3. SubHalfMs(frame) \in HalfMs
    BY CallFacts, TwentyMs
  <1>4. PICK ms \in HalfMs : ms = SubHalfMs(frame)
    BY <1>3
  <1>5. QuietOver(e.quiet, r.e.quiet, r.skips, silent, ms)
    BY <1>1, <1>4, Zenon
  <1>6. Counted(r.e.quiet, Ran(run, r.skips, ms, silent))
    BY <1>2, <1>5, RanKeeps
  <1> QED
    BY <1>1, <1>4, <1>6, Zenon

LEMMA FreshInStep ==
    ASSUME NEW n \in {1, 2}
    PROVE  InStep(Fresh(n)) /\ Fresh(n).quiet = 0
  <1> DEFINE buffer == [i \in 1..BufferUnits |-> i - 1 - BufferUnits]
  <1>1. buffer \in Buffers
    BY DEF Buffers, BufferUnits
  <1>2. NotAsked \in Askings
    BY DEF NotAsked, Askings
  <1> HIDE DEF buffer
  <1>3. /\ n \in OneOrTwo /\ Hybrid \in Modes /\ Fullband \in Int /\ 0 \in Int /\ 0 \in Counts
        /\ Unity \in Int /\ TRUE \in BOOLEAN
    BY DEF OneOrTwo, Modes, Fullband, Counts, Unity
  <1>4. Fresh(n) = [channels |-> n, mode |-> Hybrid, streamChannels |-> n,
                    bandwidth |-> Fullband, auto |-> 0, first |-> TRUE, quiet |-> 0,
                    delay |-> buffer, width |-> Unity, asked |-> NotAsked, heard |-> Unity]
    BY DEF Fresh, buffer
  <1>5. Fresh(n) \in EncoderType
    BY <1>1, <1>2, <1>3, <1>4, EncoderFields
  <1>6. /\ Fresh(n).delay = buffer /\ Fresh(n).width = Unity /\ Fresh(n).heard = Unity
        /\ Fresh(n).quiet = 0
    BY <1>4
  <1>7. Unity <= Unity
    BY DEF Unity
  <1> QED
    BY <1>5, <1>6, <1>7, Zenon DEF InStep, buffer

\* Fresh encoders keep step with a history of nothing.
LEMMA FreshKeep ==
    \A s \in Streams : /\ InStep(FreshEncoders[s])
                       /\ Counted(FreshEncoders[s].quiet, NoRuns[s])
  <1> SUFFICES ASSUME NEW s \in Streams
               PROVE  /\ InStep(FreshEncoders[s])
                      /\ Counted(FreshEncoders[s].quiet, NoRuns[s])
    OBVIOUS
  <1>1. PICK n \in {1, 2} : FreshEncoders[s] = Fresh(n)
    BY DEF FreshEncoders
  <1>2. NoRuns[s] = [silent |-> 0, skipped |-> 0]
    BY DEF NoRuns
  <1>3. Counted(0, NoRuns[s])
    BY <1>2 DEF Counted
  <1>4. InStep(Fresh(n)) /\ Fresh(n).quiet = 0
    BY FreshInStep
  <1> QED
    BY <1>1, <1>3, <1>4, Zenon

LEMMA EncodersNext ==
    ASSUME c \in Configs, c' = c, NEW es, NEW rs,
           enc' = [s \in Streams |-> es[s]], runs' = [s \in Streams |-> rs[s]],
           \A s \in Streams : InStep(es[s]) /\ Counted(es[s].quiet, rs[s]),
           last'.continues
    PROVE  EncodersInv'
  <1>1. Streams' = Streams
    BY DEF Streams
  <1>2. \A s \in Streams : enc'[s] = es[s] /\ runs'[s] = rs[s]
    OBVIOUS
  <1>3. enc' = [s \in Streams |-> enc'[s]] /\ runs' = [s \in Streams |-> runs'[s]]
    OBVIOUS
  <1>4. \A s \in Streams : InStep(enc'[s]) /\ Counted(enc'[s].quiet, runs'[s])
    BY <1>2, Zenon
  <1> QED
    BY <1>1, <1>3, <1>4, Zenon DEF EncodersInv

\* What is silent of the streams of a call.
Silences(silent, frame) == \A s \in Streams : silent[s] \in {0, 1, SubFrames(frame)}

LEMMA SingleKeeps ==
    ASSUME EncodersInv, ~c.multi, c' = c, NEW frame \in c.frames, NEW room \in c.rooms,
           NEW want \in c.wants, NEW silent, Silences(silent, frame),
           EncodeSingle(frame, room, silent, want)
    PROVE  EncodersInv'
  <1>0. /\ c \in Configs /\ \A s \in Streams : InStep(enc[s]) /\ Counted(enc[s].quiet, runs[s])
    BY Zenon DEF EncodersInv
  <1>1. /\ c.bitrate \in Int /\ c.complexity \in 1..10 /\ Lasting(frame)
        /\ room \in Int /\ want \in Int
    BY <1>0, ConfigFacts, Zenon
  <1>2. Streams = {1}
    <2>1. c.streams = 1
      BY <1>0, ConfigFacts, Zenon
    <2>2. Streams = 1..1
      BY <2>1, Zenon DEF Streams
    <2> QED
      BY <2>2
  <1>3. PICK r \in {EncodeNative(c, enc[1], c.bitrate, frame, room, silent[1], want)} :
           /\ enc' = <<r.e>>
           /\ runs' = <<Ran(runs[1], r.skips, SubHalfMs(frame), silent[1])>>
           /\ last' = Report(~RefusesArgs(frame, room), r.packet.len, room,
                             (~c.vbr /\ c.bitrate # OpusAuto /\ r.packet.len > 2)
                                => \/ r.packet.len = SmallerOf(room, PacketCap)
                                   \/ Nearest(c.bitrate, frame, r.packet.len),
                             Lasts(r.packet, frame), r.continues)
    BY Zenon DEF EncodeSingle
  <1>4. PICK e : e = enc[1] /\ InStep(e) /\ Counted(e.quiet, runs[1])
    BY <1>0, <1>2
  <1>5. PICK sl \in {0, 1, SubFrames(frame)} : sl = silent[1]
    BY <1>2 DEF Silences
  <1>6. PICK rate \in Int : rate = c.bitrate
    BY <1>1
  <1>7. Went(EncodeNative(c, e, rate, frame, room, sl, want), e, sl, SubHalfMs(frame))
    BY <1>1, <1>4, <1>5, <1>6, NativeKeeps
  <1>8. Went(r, e, sl, SubHalfMs(frame))
    BY <1>3, <1>4, <1>5, <1>6, <1>7, Zenon
  <1>9. /\ InStep(r.e) /\ Counted(r.e.quiet, Ran(runs[1], r.skips, SubHalfMs(frame), sl))
        /\ r.continues = TRUE
    BY <1>1, <1>4, <1>8, WentCounted, Zenon
  <1>10. last'.continues
    <2>1. last'.continues = r.continues
      BY <1>3 DEF Report
    <2> QED
      BY <1>9, <2>1
  <1> DEFINE run == Ran(runs[1], r.skips, SubHalfMs(frame), silent[1])
             es == <<r.e>>
             rs == <<run>>
  <1>11. InStep(r.e) /\ Counted(r.e.quiet, run)
    BY <1>5, <1>9, Zenon
  <1>12. runs' = rs /\ enc' = es
    BY <1>3, Zenon
  <1> HIDE DEF run
  <1>13. es = [s \in Streams |-> es[s]] /\ rs = [s \in Streams |-> rs[s]]
    BY <1>2
  <1>14. es[1] = r.e /\ rs[1] = run
    OBVIOUS
  <1> HIDE DEF es, rs
  <1>15. \A s \in Streams : InStep(es[s]) /\ Counted(es[s].quiet, rs[s])
    BY <1>2, <1>11, <1>14, Zenon
  <1>16. enc' = [s \in Streams |-> es[s]] /\ runs' = [s \in Streams |-> rs[s]]
    BY <1>12, <1>13, Zenon
  <1> QED
    BY <1>0, <1>10, <1>15, <1>16, EncodersNext, Zenon

LEMMA MultiKeeps ==
    ASSUME EncodersInv, c' = c, NEW frame \in c.frames, NEW room \in c.rooms,
           NEW want \in c.wants, NEW silent, Silences(silent, frame),
           EncodeMulti(frame, room, silent, want)
    PROVE  EncodersInv'
  <1>0. /\ c \in Configs /\ \A s \in Streams : InStep(enc[s]) /\ Counted(enc[s].quiet, runs[s])
        /\ enc = [s \in Streams |-> enc[s]] /\ runs = [s \in Streams |-> runs[s]]
    BY Zenon DEF EncodersInv
  <1>1. Lasting(frame) /\ room \in Int /\ want \in Int /\ Streams = 1..c.streams /\ c.streams \in Nat
    BY <1>0, ConfigFacts, Zenon
  <1>2. CASE room < SmallestPacket(frame)
    <2>1. last' = Report(FALSE, Refused, room, TRUE, TRUE, TRUE) /\ UNCHANGED <<enc, runs, sent>>
      BY <1>2, Zenon DEF EncodeMulti
    <2>2. last'.continues
      BY <2>1 DEF Report
    <2> QED
      BY <1>0, <2>1, <2>2, EncodersNext, Zenon
  <1>3. CASE ~(room < SmallestPacket(frame))
    <2>1. PICK budget \in {Budget(frame, room)} :
          \E a \in {EncodeStreams(frame, budget, silent, want)} :
            /\ enc' = [s \in Streams |-> IF s \in DOMAIN a.e THEN a.e[s] ELSE enc[s]]
            /\ runs' = [s \in Streams |->
                           IF s \in DOMAIN a.e
                           THEN Ran(runs[s], a.results[s].skips, SubHalfMs(frame), silent[s])
                           ELSE runs[s]]
            /\ last' = Report(TRUE, IF a.ok THEN a.total ELSE Refused, room,
                              ~c.vbr => a.total = budget,
                              \A s \in DOMAIN a.results : Lasts(a.results[s].packet, frame),
                              \A s \in DOMAIN a.results : a.results[s].continues)
      BY <1>3, Zenon DEF EncodeMulti
    <2>2. PICK a \in {EncodeStreams(frame, budget, silent, want)} :
            /\ enc' = [s \in Streams |-> IF s \in DOMAIN a.e THEN a.e[s] ELSE enc[s]]
            /\ runs' = [s \in Streams |->
                           IF s \in DOMAIN a.e
                           THEN Ran(runs[s], a.results[s].skips, SubHalfMs(frame), silent[s])
                           ELSE runs[s]]
            /\ last' = Report(TRUE, IF a.ok THEN a.total ELSE Refused, room,
                              ~c.vbr => a.total = budget,
                              \A s \in DOMAIN a.results : Lasts(a.results[s].packet, frame),
                              \A s \in DOMAIN a.results : a.results[s].continues)
      BY <2>1, Zenon
    <2>3. budget \in Int
      BY <1>0, <1>1, BudgetInt
    <2> DEFINE m == [frame |-> frame, budget |-> budget, silent |-> silent, want |-> want]
               q == [s \in Streams |-> s]
    <2>4. a = StreamFold(m, NoStreams, q)
      BY <2>2 DEF EncodeStreams, StreamFold, NoStreams
    <2>5. m.frame = frame /\ m.silent = silent /\ m.budget = budget /\ m.want = want
      OBVIOUS
    <2>6. DOMAIN q = Streams /\ \A s \in Streams : q[s] = s
      OBVIOUS
    <2> HIDE DEF m, q
    <2>7. Ready(m)
      BY <1>0, <1>1, <2>3, <2>5, Zenon DEF Ready, Silences
    <2>8. a \in StreamsCoded(m) /\ UpToStream(m, a, c.streams)
      BY <2>4, <2>6, <2>7, StreamsKeep, Zenon
    <2>9. a.e \in Seq(InSteps) /\ a.results \in Seq(Natives(m))
      BY <2>8, Zenon DEF StreamsCoded
    <2>10. /\ Len(a.e) <= c.streams /\ Len(a.results) = Len(a.e)
           /\ \A s \in 1..Len(a.e) : Gone(m, a.results[s], s) /\ a.e[s] = a.results[s].e
      BY <2>8, Zenon DEF UpToStream
    <2>11. DOMAIN a.e = 1..Len(a.e) /\ DOMAIN a.results = 1..Len(a.e) /\ DOMAIN a.e \subseteq Streams
      <3>1. DOMAIN a.e = 1..Len(a.e) /\ Len(a.e) \in Nat
        BY <2>9
      <3> DEFINE N == Natives(m)
      <3> HIDE DEF N
      <3>2. a.results \in Seq(N)
        BY <2>9 DEF N
      <3>3. DOMAIN a.results = 1..Len(a.results)
        BY <3>2
      <3>4. 1..Len(a.e) \subseteq 1..c.streams
        BY <1>1, <2>10, <3>1
      <3> QED
        BY <1>1, <2>10, <3>1, <3>3, <3>4, Zenon
    <2>12. ASSUME NEW s \in DOMAIN a.e
           PROVE  /\ InStep(a.e[s]) /\ a.results[s].continues
                  /\ Counted(a.e[s].quiet, Ran(runs[s], a.results[s].skips, SubHalfMs(frame), silent[s]))
      <3>1. s \in Streams /\ s \in 1..Len(a.e)
        BY <2>11
      <3>2. Went(a.results[s], enc[s], silent[s], SubHalfMs(frame)) /\ a.e[s] = a.results[s].e
        BY <2>5, <2>10, <3>1, Zenon DEF Gone
      <3>3. InStep(enc[s]) /\ Counted(enc[s].quiet, runs[s])
        BY <1>0, <3>1, Zenon
      <3>4. /\ InStep(a.results[s].e) /\ a.results[s].continues = TRUE
            /\ Counted(a.results[s].e.quiet,
                       Ran(runs[s], a.results[s].skips, SubHalfMs(frame), silent[s]))
        BY <1>1, <3>2, <3>3, WentCounted, Zenon
      <3> QED
        BY <3>2, <3>4, Zenon
    <2> DEFINE es == [s \in Streams |-> IF s \in DOMAIN a.e THEN a.e[s] ELSE enc[s]]
               rs == [s \in Streams |->
                         IF s \in DOMAIN a.e
                         THEN Ran(runs[s], a.results[s].skips, SubHalfMs(frame), silent[s])
                         ELSE runs[s]]
    <2>13. enc' = [s \in Streams |-> es[s]] /\ runs' = [s \in Streams |-> rs[s]]
      <3>1. enc' = es /\ runs' = rs
        BY <2>2, Zenon
      <3>2. es = [s \in Streams |-> es[s]] /\ rs = [s \in Streams |-> rs[s]]
        OBVIOUS
      <3> HIDE DEF es, rs
      <3> QED
        BY <3>1, <3>2, Zenon
    <2>14. ASSUME NEW s \in Streams PROVE InStep(es[s]) /\ Counted(es[s].quiet, rs[s])
      <3>1. CASE s \in DOMAIN a.e
        <4>1. /\ es[s] = a.e[s]
              /\ rs[s] = Ran(runs[s], a.results[s].skips, SubHalfMs(frame), silent[s])
          BY <3>1, Zenon
        <4> HIDE DEF es, rs
        <4> QED
          BY <2>12, <3>1, <4>1, Zenon
      <3>2. CASE s \notin DOMAIN a.e
        <4>1. es[s] = enc[s] /\ rs[s] = runs[s]
          BY <3>2, Zenon
        <4> HIDE DEF es, rs
        <4> QED
          BY <1>0, <4>1, Zenon
      <3> QED
        BY <3>1, <3>2
    <2>15. last'.continues
      <3>1. last'.continues = (\A s \in DOMAIN a.results : a.results[s].continues)
        BY <2>2 DEF Report
      <3>2. \A s \in DOMAIN a.results : a.results[s].continues
        BY <2>11, <2>12, Zenon
      <3> QED
        BY <3>1, <3>2, Zenon
    <2> HIDE DEF es, rs
    <2> QED
      BY <1>0, <2>13, <2>14, <2>15, EncodersNext, Zenon
  <1> QED
    BY <1>2, <1>3

\* A counter in step bounds what was left out.
LEMMA CountBounds ==
    ASSUME NEW quiet \in Counts, NEW run, Counted(quiet, run), run.skipped > 0
    PROVE  run.silent > 400 /\ run.skipped < 800 + 40
  BY DEF Counted, Counts

LEMMA EncodersStart == Init => EncodersInv
  <1> SUFFICES ASSUME Init PROVE EncodersInv
    OBVIOUS
  <1>1. c \in Configs /\ enc = FreshEncoders /\ runs = NoRuns /\ last = Silent
    BY Zenon DEF Init, Layouts
  <1>2. FreshEncoders = [s \in Streams |-> FreshEncoders[s]] /\ NoRuns = [s \in Streams |-> NoRuns[s]]
    BY DEF FreshEncoders, NoRuns
  <1>3. Silent.continues
    BY DEF Silent
  <1> QED
    BY <1>1, <1>2, <1>3, FreshKeep, Zenon DEF EncodersInv

LEMMA EncodersStep == EncodersInv /\ [Next]_msvars => EncodersInv'
  <1> SUFFICES ASSUME EncodersInv, [Next]_msvars PROVE EncodersInv'
    OBVIOUS
  <1>0. /\ c \in Configs /\ \A s \in Streams : InStep(enc[s]) /\ Counted(enc[s].quiet, runs[s])
        /\ enc = [s \in Streams |-> enc[s]] /\ runs = [s \in Streams |-> runs[s]]
        /\ last.continues
    BY Zenon DEF EncodersInv
  <1>1. CASE Encode
    <2>0. c' = c
      BY <1>1 DEF Encode
    <2>1. PICK frame \in c.frames, room \in c.rooms, want \in c.wants :
             \E first, others \in {0, 1, SubFrames(frame)} :
                LET silent == [s \in Streams |-> IF s = 1 THEN first ELSE others]
                IN IF c.multi THEN EncodeMulti(frame, room, silent, want)
                   ELSE others = 0 /\ EncodeSingle(frame, room, silent, want)
      BY <1>1, Zenon DEF Encode
    <2>2. PICK first \in {0, 1, SubFrames(frame)}, others \in {0, 1, SubFrames(frame)} :
             LET silent == [s \in Streams |-> IF s = 1 THEN first ELSE others]
             IN IF c.multi THEN EncodeMulti(frame, room, silent, want)
                ELSE others = 0 /\ EncodeSingle(frame, room, silent, want)
      BY <2>1, Zenon
    <2> DEFINE silent == [s \in Streams |-> IF s = 1 THEN first ELSE others]
    <2>3. \/ c.multi /\ EncodeMulti(frame, room, silent, want)
          \/ ~c.multi /\ EncodeSingle(frame, room, silent, want)
      BY <2>2, Zenon
    <2>4. Silences(silent, frame)
      BY DEF Silences
    <2> HIDE DEF silent
    <2>5. CASE c.multi /\ EncodeMulti(frame, room, silent, want)
      BY <2>0, <2>4, <2>5, MultiKeeps, Zenon
    <2>6. CASE ~c.multi /\ EncodeSingle(frame, room, silent, want)
      BY <2>0, <2>4, <2>6, SingleKeeps, Zenon
    <2> QED
      BY <2>3, <2>5, <2>6, Zenon
  <1>2. CASE ResetEncoder
    <2>1. enc' = FreshEncoders /\ runs' = NoRuns /\ last' = Silent /\ c' = c
      BY <1>2, Zenon DEF ResetEncoder
    <2>2. /\ FreshEncoders = [s \in Streams |-> FreshEncoders[s]]
          /\ NoRuns = [s \in Streams |-> NoRuns[s]]
      BY DEF FreshEncoders, NoRuns
    <2>3. last'.continues
      BY <2>1 DEF Silent
    <2>4. enc' = [s \in Streams |-> FreshEncoders[s]] /\ runs' = [s \in Streams |-> NoRuns[s]]
      BY <2>1, <2>2, Zenon
    <2> QED
      BY <1>0, <2>1, <2>3, <2>4, EncodersNext, FreshKeep, Zenon
  <1>3. ASSUME UNCHANGED <<c, enc, runs>>, last' = last \/ last' = Silent PROVE EncodersInv'
    <2>1. Silent.continues
      BY DEF Silent
    <2>2. last'.continues
      BY <1>0, <1>3, <2>1, Zenon
    <2>3. enc' = [s \in Streams |-> enc[s]] /\ runs' = [s \in Streams |-> runs[s]] /\ c' = c
      BY <1>0, <1>3, Zenon
    <2> QED
      BY <1>0, <2>2, <2>3, EncodersNext, Zenon
  <1>4. CASE Deliver
    BY <1>3, <1>4, Zenon DEF Deliver
  <1>5. CASE Lose
    BY <1>3, <1>5, Zenon DEF Lose
  <1>6. CASE ResetDecoder
    BY <1>3, <1>6, Zenon DEF ResetDecoder
  <1>7. CASE UNCHANGED msvars
    BY <1>3, <1>7, Zenon DEF msvars
  <1> QED
    BY <1>1, <1>2, <1>4, <1>5, <1>6, <1>7, Zenon DEF Next

\* What CELT is given continues what it was given before, in every stream, at every
\* frame size, and the image fades from the width it had (UpdateDelayBuffer, PCMFades).
THEOREM InputAlwaysContinues == Spec => []InputContinues
  <1>1. EncodersInv => InputContinues
    BY Zenon DEF EncodersInv, InputContinues
  <1> QED
    BY <1>1, EncodersStart, EncodersStep, PTL DEF Spec

\* DTX leaves a frame out only behind 200 ms of silence, and for little more than 400 ms
\* before one refreshes the decoder (decideDTXMode), over any packets of any frames.
THEOREM DtxAlwaysBounded == Spec => []DtxBounded
  <1>1. EncodersInv => DtxBounded
    <2> SUFFICES ASSUME EncodersInv, NEW s \in Streams, runs[s].skipped > 0
                 PROVE  runs[s].silent > 400 /\ runs[s].skipped < 800 + 40
      BY Zenon DEF DtxBounded
    <2>1. InStep(enc[s]) /\ Counted(enc[s].quiet, runs[s])
      BY Zenon DEF EncodersInv
    <2>2. enc[s].quiet \in Counts
      BY <2>1, EncoderFields DEF InStep
    <2> QED
      BY <2>1, <2>2, CountBounds
  <1> QED
    BY <1>1, EncodersStart, EncodersStep, PTL DEF Spec
=============================================================================
