------------------------------- MODULE OggPage -------------------------------
(***************************************************************************)
(* Ogg pages as oggopus/page.go builds and splits them.                    *)
(*                                                                         *)
(* A packet is a number (its place in the logical stream) and a length.    *)
(* Its bytes are abstracted to its segments: a segment remembers which     *)
(* packet it is cut from, its place in that packet and its length, the     *)
(* lacing value.  Joining segments is then joining bytes, and a reader     *)
(* that mixes up two packets holds a sequence no packet laces to.          *)
(***************************************************************************)
EXTENDS Integers, Sequences

CONSTANTS
    MaxSegmentLen,   \* largest lacing value, 255 in the code
    MaxPageSegments  \* largest segment table, 255 in the code

ASSUME PageAssumption == /\ MaxSegmentLen \in Nat \ {0}
                         /\ MaxPageSegments \in Nat \ {0}

\* The granule position of a page on which no packet completes.
GranuleNone == -1

Segment == [pkt : Nat \ {0}, part : Nat \ {0}, len : 0..MaxSegmentLen]

Page == [bos : BOOLEAN, cont : BOOLEAN, eos : BOOLEAN, granule : Int,
         sequence : Nat, serial : Nat, segs : Seq(Segment)]

\* Mutant of Lacing: no terminating empty segment.
LacingUnterminated(pkt, n) ==
    [i \in 1..((n + MaxSegmentLen - 1) \div MaxSegmentLen) |->
        [pkt |-> pkt, part |-> i,
         len |-> IF i <= n \div MaxSegmentLen THEN MaxSegmentLen
                                              ELSE n % MaxSegmentLen]]

\* lacing: full segments, then one shorter segment, which is empty when the
\* length is an exact multiple of MaxSegmentLen.
Lacing(pkt, n) ==
    [i \in 1..(n \div MaxSegmentLen + 1) |->
        [pkt |-> pkt, part |-> i,
         len |-> IF i <= n \div MaxSegmentLen THEN MaxSegmentLen
                                              ELSE n % MaxSegmentLen]]

\* A lacing value below the maximum ends its packet.
EndsPacket(s) == s.len < MaxSegmentLen

\* page.completesPacket
CompletesPacket(segs) == \E i \in DOMAIN segs : EndsPacket(segs[i])

\* The last packet that ends on a page, for a table on which one does.
LastCompleted(segs) ==
    LET ends == {i \in DOMAIN segs : EndsPacket(segs[i])}
    IN  segs[CHOOSE i \in ends : \A j \in ends : j <= i].pkt

\* t is the segment that comes right after s in the logical stream.
Follows(s, t) ==
    IF EndsPacket(s) THEN t.pkt = s.pkt + 1 /\ t.part = 1
                     ELSE t.pkt = s.pkt /\ t.part = s.part + 1

=============================================================================
