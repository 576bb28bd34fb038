---------------------------- MODULE MCOggStream ----------------------------
EXTENDS OggStream
MCTagLens == {1, 5}
MCPacketLens == {1, 2, 6}
MCLossyPacketLens == {2, 6, 7}
MCDurations == {2}
MCTwoDurations == {2, 3}
MCSourceLens == {0, 3}
MCForeign == {[bos |-> TRUE, cont |-> FALSE, eos |-> FALSE, granule |-> 0,
               sequence |-> 0, serial |-> 2,
               segs |-> <<[pkt |-> 1, part |-> 1, len |-> 1]>>]}
=============================================================================
