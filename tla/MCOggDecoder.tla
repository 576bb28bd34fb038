----------------------------- MODULE MCOggDecoder -----------------------------
(* Short streams with what a file can have: an end trim, no EOS page, a second *)
(* stream behind the first, a cut tail, a packet the codec rejects, one beyond *)
(* the size limit, a last granule beyond what the packets decode to.           *)
EXTENDS OggDecoder

CONSTANTS Eos, NoEos, Chained, Cut, BadPacket, Huge, HugeNoEos, OnTags, OverClaim

\* Files: packets of given lengths, their segments divided into pages as a muxer may
\* divide them.
Dur == 2

\* The segments of packets of the given lengths.
Flat(lens) == FoldLeftDomain(LAMBDA s, i : s \o Lacing(i, lens[i]), <<>>, lens)

\* The segments, divided behind those in cuts.
Bodies(segs, cuts) ==
    FoldLeftDomain(LAMBDA b, i : IF i > 1 /\ i - 1 \notin cuts
                                 THEN [b EXCEPT ![Len(b)] = Append(@, segs[i])]
                                 ELSE Append(b, <<segs[i]>>), <<>>, segs)

Paged(segs, cuts, eos, trim) ==
    Then(Bodies(segs, cuts), LAMBDA bodies :
    LET lastPage == Len(bodies)
    IN  [k \in 1..lastPage |->
            [bos |-> FALSE, cont |-> bodies[k][1].part > 1,
             eos |-> eos /\ k = lastPage,
             granule |-> IF CompletesPacket(bodies[k])
                         THEN LastCompleted(bodies[k]) * Dur - (IF k = lastPage THEN trim ELSE 0)
                         ELSE GranuleNone,
             sequence |-> k, serial |-> Serial, segs |-> bodies[k]]])

Pagings(n) == {c \in SUBSET (1..(n - 1)) :
                  \A i \in 0..(n - 2) : \E j \in {i + 1, i + 2} : j \in c \/ j >= n}

Foreign == [bos |-> TRUE, cont |-> FALSE, eos |-> FALSE, granule |-> 0, sequence |-> 0,
            serial |-> Serial + 1, segs |-> <<[pkt |-> 9, part |-> 1, len |-> 1]>>]

File(pages, preSkip, n, junk) ==
    [pages |-> pages, preSkip |-> preSkip, dur |-> [i \in 1..n |-> Dur], bad |-> {},
     tagsBad |-> FALSE, junk |-> junk]

-----------------------------------------------------------------------------

Segments == Flat(<<1, 5, 1, 1, 5>>)
Cuts == {1, 3, 5, 7}

Stream(eos, trim) == Paged(Segments, Cuts, eos, trim)

MCFile(kind) ==
    CASE kind = Eos       -> File(Paged(Flat(<<1, 5, 5, 1, 1>>), Cuts, TRUE, 3), 1, 5, 0)
      [] kind = NoEos     -> File(Stream(FALSE, 0), 3, 5, 0)
      [] kind = Chained   -> File(Stream(FALSE, 0) \o <<Foreign, Foreign>>, 1, 5, 0)
      [] kind = Cut       -> File(Stream(FALSE, 0), 1, 5, 2)
      [] kind = BadPacket -> [File(Stream(TRUE, 0), 1, 5, 0) EXCEPT !.bad = {3}]
      [] kind = Huge      -> File(Paged(Flat(<<1, 1, 7, 1>>), {2, 4}, TRUE, 0), 1, 4, 0)
      [] kind = HugeNoEos -> File(Paged(Flat(<<1, 7>>), {1, 3}, FALSE, 0), 1, 2, 0)
      [] kind = OnTags    -> [File(Paged(Flat(<<1, 1>>), {1}, TRUE, 0), 1, 2, 0)
                                 EXCEPT !.tagsBad = TRUE]
      [] kind = OverClaim -> File(Stream(TRUE, -6), 1, 5, 0)

MCPlayed == {MCFile(kind) : kind \in {Eos, NoEos, Chained, Cut, BadPacket, Huge, HugeNoEos,
                                     OnTags, OverClaim}}

MCNextFiles == {MCFile(Eos), MCFile(Chained)}

\* For the index: every way a muxer can page a short stream of packets of one or three
\* segments, with and without an EOS page, an end trim, a second stream behind it; and
\* files it refuses or finds nothing in.
MCPagings ==
    UNION {LET segs == Flat(lens)
           IN  {File(Paged(segs, cuts, end.eos, end.trim) \o end.tail, 3, Len(lens), 0) :
                   cuts \in Pagings(Len(segs)),
                   end \in {[eos |-> FALSE, trim |-> 0, tail |-> <<>>],
                            [eos |-> FALSE, trim |-> 0, tail |-> <<Foreign, Foreign, Foreign>>],
                            [eos |-> TRUE, trim |-> 0, tail |-> <<>>],
                            [eos |-> TRUE, trim |-> 1, tail |-> <<Foreign, Foreign, Foreign>>]}} :
           lens \in {<<1, 1, 1>>, <<5, 1, 5>>, <<1, 5, 5>>, <<1, 5, 1, 5>>}}

MCOddFiles ==
    LET segs == Flat(<<1, 1>>) IN
    {File(<<>>, 1, 0, 0), File(<<>>, 1, 0, 3),
     File(Paged(segs, {1}, TRUE, 0), 5, 2, 0),
     File([Paged(segs, {1}, TRUE, 0) EXCEPT ![1].granule = 3, ![2].granule = 5], 1, 2, 0),
     File([Paged(segs, {1}, TRUE, 0) EXCEPT ![1].granule = 1], 1, 2, 0),
     File(Paged(SubSeq(Flat(<<5>>), 1, 2), {}, FALSE, 0), 1, 1, 2),
     File(Paged(Flat(<<7, 1>>), {2, 4}, TRUE, 0), 1, 2, 0),
     [File(Paged(segs, {1}, TRUE, 0), 1, 2, 0) EXCEPT !.dur[1] = 0, !.bad = {1}],
     [File(Paged(segs, {1}, FALSE, 0), 1, 2, 0) EXCEPT !.dur[2] = 0, !.bad = {2}],
     [File(Paged(segs, {}, TRUE, 0), 1, 2, 0) EXCEPT !.tagsBad = TRUE]}

MCFiles == MCPlayed \cup MCPagings \cup MCOddFiles
===============================================================================
