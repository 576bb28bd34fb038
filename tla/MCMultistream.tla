---------------------------- MODULE MCMultistream ----------------------------
(***************************************************************************)
(* Model checking the encoders and the multistream decoder: the smallest   *)
(* rooms, those around every rate threshold, and more than a frame can be; *)
(* one and two channels, a layout with twin and muted channels.            *)
(***************************************************************************)
EXTENDS Multistream

Single(channels, vbr, dtx, bitrate, complexity, frames, rooms, wants) ==
    [multi |-> FALSE, streams |-> 1, coupled |-> channels - 1, channels |-> channels,
     mapping |-> [ch \in 0..(channels - 1) |-> ch],
     vbr |-> vbr, dtx |-> dtx, bitrate |-> bitrate, complexity |-> complexity,
     frames |-> frames, rooms |-> rooms, wants |-> wants]

\* Two streams, a pair and one, for five channels; the pair's left one twice.
Multi(vbr, dtx, bitrate, frames, rooms, wants) ==
    [multi |-> TRUE, streams |-> 2, coupled |-> 1, channels |-> 5,
     mapping |-> [ch \in 0..4 |-> (0 :> 2 @@ 1 :> 1 @@ 2 :> 0 @@ 3 :> 255 @@ 4 :> 0)[ch]],
     vbr |-> vbr, dtx |-> dtx, bitrate |-> bitrate, complexity |-> 10,
     frames |-> frames, rooms |-> rooms, wants |-> wants]

MCConfigs ==
    {\* DTX through single frames and packets of six, with and without room
     Single(2, TRUE, TRUE, OpusAuto, 10, {960, 5760}, {2, 300}, {2, 2000}),
     Single(1, FALSE, TRUE, 9100, 10, {960, 1920}, {2, 46}, {2}),
     \* the thresholds of bandwidth, channels and width
     Single(2, TRUE, FALSE, 60000, 4, {120, 960}, {17, 30, 36, 41, 46, 300}, {2000}),
     \* every duration in the smallest rooms, and more than a packet can be
     Single(2, FALSE, FALSE, 600000, 10, {120, 960, 1920, 4800, 5760},
            {1, 2, 6, 17, 9000}, {2}),
     Multi(TRUE, FALSE, OpusAuto, {960, 4800}, {3, 5, 300}, {2, 2000}),
     Multi(FALSE, FALSE, 40000, {960, 1920}, {4, 300}, {2}),
     Multi(FALSE, FALSE, 2000, {960, 4800, 5760}, {3, 5, 46, 3000}, {2})}

\* An encoder in a buffer that holds a TOC and in one that could hold more.
MCShortConfigs == {Single(2, TRUE, FALSE, 96000, 10, {960, 4800}, {1, 2}, {2})}
=============================================================================
