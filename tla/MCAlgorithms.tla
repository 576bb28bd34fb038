---------------------------- MODULE MCAlgorithms ----------------------------
(* The parts that work on one input at a time, each on its own: a behaviour   *)
(* picks one of them and takes its steps, the others stay as they began.      *)
EXTENDS Repacketizer, OggScan, OggOneShot, CeltRate, CeltBands, CeltSymbols,
        CeltHistory, CeltTransform, CeltTf, SilkNlsf, SilkPitch, SilkResampler

VARIABLE topic     \* the part this behaviour is of

\* Packets.  The bytes are TOCs of 20 ms frames in every code, 60 ms and 2.5 ms
\* frames in code 3, and count bytes with and without VBR and padding; the
\* repacketizer gets packets of 20 ms (config 1, 0x08) and 60 ms (config 3,
\* 0x18), with frames around the one-byte length, one of them self-delimited,
\* one of them cut short.
MCTocs == {8, 9, 10, 11, 27, 131}
MCBytes == {0, 1, 2, 3, 65, 66, 130, 131, 194, 252}

Fill(n, b) == [i \in 1..n |-> b]

MCPackets ==
    {[data |-> d, selfDelimited |-> FALSE] : d \in
        { <<8>>,
          <<8>> \o Fill(252, 7),
          <<11, 130, 1, 3, 4, 4>>,
          <<11, 66, 2, 1, 2, 0, 0>>,
          <<25, 9, 9>>,
          <<11, 2, 1>> }}
    \cup {[data |-> <<11, 3, 1, 5, 6, 7>>, selfDelimited |-> TRUE]}

\* The shortest packets, one byte around the bounds of a field, and room for
\* padding whose length takes one byte, exactly one, and two.
MCBuffers == {4, 256, 258, 514}

\* Frames from starved to more than they can use; one boosted band, or one past it.
MCFrames ==
    {[start |-> r[1], end |-> r[2], C |-> C, LM |-> LM, trim |-> trim, total |-> total,
      offsets |-> [j \in 0..20 |-> IF j = r[1] + boosted THEN 48 ELSE 0]] :
        r \in {<<0, 21>>, <<17, 19>>}, C \in {1, 2}, LM \in {0, 3},
        trim \in {0, 10}, boosted \in {-1, 1},
        total \in {9, 40, 500, 40000}}

\* CELT alone and hybrid, narrow and full band, mono, both kinds of stereo, and the
\* two tries of an angle.
Job(from, to, chans, two, i, tries) ==
    [start |-> from, end |-> to, C |-> chans, dual |-> two, intensity |-> i, rdo |-> tries]
MCJobs ==
    {Job(from, to, 1, FALSE, 0, FALSE) : from \in {0, 17}, to \in {19, 21}}
    \cup {Job(17, to, 2, two, i, FALSE) : to \in {19, 21}, two \in BOOLEAN, i \in {18, 19, 21}}
    \cup {Job(0, to, 2, FALSE, i, TRUE) : to \in {13, 21}, i \in {0, 8, 21}}
    \cup {Job(0, to, 2, TRUE, i, FALSE) : to \in {13, 21}, i \in {1, 8, 21}}

MCAngles ==
    {<<"mid", "even">>, <<"more mid", "more mid">>, <<"even", "even">>,
     <<"even", "more side">>, <<"more side", "more mid">>, <<"side", "even">>,
     <<"more mid", "side">>}

\* Laplace models from flat to steep, and energies into the flat tail and past it.
MCModels ==
    {<<72 * 128, 127 * 64>>, <<24 * 128, 179 * 64>>, <<177 * 128, 11 * 64>>,
     <<192 * 128, 6 * 64>>, <<42 * 128, 121 * 64>>, <<77 * 128, 40 * 64>>,
     <<21 * 128, 178 * 64>>}
MCEnergies == (-70..70) \cup {-20000, 20000}
MCResolutions == {2 * h : h \in 1..16} \cup {64, 128, 256}

\* Frames of both lengths and layouts, with and without short blocks, and energies of
\* the band that rise, fall and differ between the channels.  None is silent: from there
\* the background takes over a hundred frames to come back.
CONSTANT f1
Fr(LM, C, filter, transient, left, right) ==
    [LM |-> LM, C |-> C, filter |-> filter, transient |-> transient,
     energy |-> <<left, right>>]
MCReceived ==
    {Fr(0, 2, f1, FALSE, 2, -1), Fr(0, 1, Off, FALSE, -1, -1),
     Fr(3, 2, Off, TRUE, -1, 2), Fr(3, 1, f1, FALSE, 2, 2)}

\* Frame sizes with one and with short transforms, and the channels coded and heard.
MCKinds == {<<0, FALSE>>, <<1, TRUE>>, <<1, FALSE>>, <<2, FALSE>>, <<3, FALSE>>, <<3, TRUE>>}
MCLayouts == {<<2, 2>>, <<1, 2>>, <<2, 1>>, <<1, 1>>}

\* Long and short blocks with little and with much to choose; prices of a change.
MCTfFrames ==
    {[LM |-> f[1], transient |-> f[2], lambda |-> l] :
        f \in {<<0, 0>>, <<1, 1>>, <<3, 0>>, <<3, 1>>}, l \in {80, 300}}

\* Of 14, most and little is taken by the distances.
MCDistances == {<<3, 1, 2, 4>>, <<1, 2, 3, 2>>}

-----------------------------------------------------------------------------

Topics ==
    {"packet bytes", "repacketizer", "page scan", "one-shot decode",
     "allocation", "bands", "band split", "symbols", "history", "transform",
     "band shape", "resolution", "nlsf", "pitch", "resampler"}

AlgorithmsInit ==
    /\ topic \in Topics
    /\ PacketBytesInit /\ RepacketizerInit /\ ScanInit
    /\ OneShotInit /\ RateInit /\ BandInit
    /\ SplitInit /\ SymbolInit /\ HistoryInit
    /\ TransformInit /\ ShapeInit /\ TfInit /\ NlsfInit
    /\ PitchInit /\ ResamplerIdle
    /\ topic # "history" => channels = 2

\* Everything but the part t is as it was.
Rests(t, vars) == IF topic = t THEN TRUE ELSE UNCHANGED vars
OthersRest ==
    /\ UNCHANGED topic
    /\ Rests("packet bytes", data) /\ Rests("repacketizer", rvars)
    /\ Rests("page scan", scanVars) /\ Rests("one-shot decode", oneShotVars)
    /\ Rests("allocation", rateVars) /\ Rests("bands", bandVars)
    /\ Rests("band split", splitVars) /\ Rests("symbols", symbol)
    /\ Rests("history", historyVars) /\ Rests("transform", transformVars)
    /\ Rests("band shape", shaped) /\ Rests("resolution", measured) /\ Rests("nlsf", nlsf)
    /\ Rests("pitch", pitchVars) /\ Rests("resampler", resamplerVars)

AlgorithmsNext ==
    \/ topic = "packet bytes" /\ PacketBytesNext /\ OthersRest
    \/ topic = "repacketizer" /\ RepacketizerNext /\ OthersRest
    \/ topic = "page scan" /\ ScanNext /\ OthersRest
    \/ topic = "one-shot decode" /\ OneShotNext /\ OthersRest
    \/ topic = "allocation" /\ RateNext /\ OthersRest
    \/ topic = "bands" /\ BandNext /\ OthersRest
    \/ topic = "band split" /\ SplitNext /\ OthersRest
    \/ topic = "symbols" /\ SymbolNext /\ OthersRest
    \/ topic = "history" /\ HistoryNext /\ OthersRest
    \/ topic = "transform" /\ TransformNext /\ OthersRest
    \/ topic = "band shape" /\ ShapeNext /\ OthersRest
    \/ topic = "resolution" /\ TfNext /\ OthersRest
    \/ topic = "nlsf" /\ NlsfNext /\ OthersRest
    \/ topic = "pitch" /\ PitchNext /\ OthersRest
    \/ topic = "resampler" /\ ResamplerNext /\ OthersRest

allVars ==
    <<topic, data, rvars, scanVars, oneShotVars, rateVars, bandVars,
      splitVars, symbol, historyVars, transformVars, shaped, measured, nlsf, pitchVars,
      resamplerVars>>

AlgorithmsSpec == AlgorithmsInit /\ [][AlgorithmsNext]_allVars
=============================================================================
