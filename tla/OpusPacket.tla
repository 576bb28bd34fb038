------------------------------ MODULE OpusPacket ------------------------------
(***************************************************************************)
(* The framing of Opus packets, internal/packet: toc.go, sizes.go and      *)
(* parse.go.  A packet is its bytes; a position counts the bytes before    *)
(* it.  The parser is a record that its stages take and return, with ok    *)
(* FALSE once a stage has returned ErrInvalidPacket.                       *)
(***************************************************************************)
EXTENDS Integers, Sequences, SequencesExt, FiniteSetsExt

Byte == 0..255
MaxFrameLen == 1275

\* G of the value of x, computed once: one stage after another.
Then(x, G(_)) == CHOOSE y \in {G(v) : v \in {x}} : TRUE

\* MaxFrames, the 120 ms of 2.5 ms frames.
MaxFrames == 48

Config(toc) == toc - (toc % 4)
Code(toc) == toc % 4

SamplesPerFrame(toc, fs) ==
    LET shift == (toc \div 8) % 4
    IN  CASE toc >= 128 -> (fs * 2^shift) \div 400
          [] toc \in 96..127 -> IF shift % 2 = 1 THEN fs \div 50 ELSE fs \div 100
          [] OTHER -> IF shift = 3 THEN (fs * 60) \div 1000 ELSE (fs * 2^shift) \div 100

-----------------------------------------------------------------------------
(* sizes.go                                                                 *)

EncodeSize(n) ==
    IF n < 252 THEN <<n>>
    ELSE LET first == 252 + (n % 4) IN <<first, (n - first) \div 4>>

Truncated == [nbytes |-> -1, size |-> -1]

\* The frame length at pos, of which `length` bytes are logically there.
ParseSize(data, pos, length) ==
    LET left == Min({length, Len(data) - pos})
    IN  CASE left < 1 -> Truncated
          [] left >= 1 /\ data[pos + 1] < 252 -> [nbytes |-> 1, size |-> data[pos + 1]]
          [] left = 1 /\ data[pos + 1] >= 252 -> Truncated
          [] OTHER -> [nbytes |-> 2, size |-> 4 * data[pos + 2] + data[pos + 1]]

-----------------------------------------------------------------------------
(* The stages of parser.run                                                 *)

Parser(data) ==
    [ok |-> TRUE, pos |-> 1, remaining |-> Len(data) - 1, last |-> Len(data) - 1,
     sizes |-> <<>>, count |-> 1, cbr |-> FALSE, pad |-> 0]

Invalid(p) == [p EXCEPT !.ok = FALSE]

\* One signalled length: parseCode2's, or a turn of parseCode3VBR.
ReadSize(data, p) ==
    Then(ParseSize(data, p.pos, p.remaining), LAMBDA s :
         [p EXCEPT !.ok = @ /\ s.size >= 0 /\ s.size <= p.remaining - s.nbytes,
                   !.pos = @ + s.nbytes,
                   !.remaining = @ - s.nbytes,
                   !.last = @ - (s.nbytes + s.size),
                   !.sizes = Append(@, s.size)])

\* The parser after each turn of the loop, and the check behind the loop.
ReadSizes(data, p) ==
    LET after[i \in 0..(p.count - 1)] ==
            IF i = 0 THEN [p EXCEPT !.last = p.remaining]
            ELSE Then(after[i - 1], LAMBDA q : IF q.ok THEN ReadSize(data, q) ELSE q)
    IN  Then(after[p.count - 1], LAMBDA q : [q EXCEPT !.ok = @ /\ q.last >= 0])

\* All frames of one length, that of the bytes that remain.
ShareBytes(p) ==
    LET each == p.remaining \div p.count
    IN  [p EXCEPT !.ok = @ /\ each * p.count = p.remaining,
                  !.last = each,
                  !.sizes = [i \in 1..(p.count - 1) |-> each]]

\* Two equal frames.
Code1(p, selfDelimited) == IF selfDelimited THEN p ELSE ShareBytes(p)

\* Mutant of ReadPadding: the padding is not taken off what remains.
ReadPaddingKept(data, p) ==
    LET ends == {i \in (p.pos + 1)..Len(data) : data[i] # 255}
        run(e) == e - p.pos - 1
        pad(e) == 254 * run(e) + data[e]
    IN  IF ends = {} THEN Invalid(p)
        ELSE Then(Min(ends), LAMBDA e :
                  [p EXCEPT !.ok = @ /\ run(e) + 1 + pad(e) <= p.remaining,
                            !.pos = e,
                            !.remaining = @ - (run(e) + 1),
                            !.pad = pad(e)])

\* The run of padding lengths: a byte of 255 stands for 254 and another byte.
\* Every turn takes at least its byte, so what is left is short at some turn
\* exactly if it is short at the end.
ReadPadding(data, p) ==
    LET ends == {i \in (p.pos + 1)..Len(data) : data[i] # 255}
        run(e) == e - p.pos - 1
        pad(e) == 254 * run(e) + data[e]
    IN  IF ends = {} THEN Invalid(p)
        ELSE Then(Min(ends), LAMBDA e :
                  [p EXCEPT !.ok = @ /\ run(e) + 1 + pad(e) <= p.remaining,
                            !.pos = e,
                            !.remaining = @ - (run(e) + 1 + pad(e)),
                            !.pad = pad(e)])

\* More than 120 ms.
TooLong120(toc, count) == SamplesPerFrame(toc, 48000) * count > 5760

\* The count byte: VBR in bit 7, padding in bit 6.
CountOf(b) == b % 64
Padded(b) == (b \div 64) % 2 = 1
Vbr(b) == b >= 128

Code3(data, p, selfDelimited) ==
    IF p.remaining < 1 \/ CountOf(data[2]) = 0 \/ TooLong120(data[1], CountOf(data[2]))
    THEN Invalid(p)
    ELSE LET q == [p EXCEPT !.pos = 2, !.remaining = @ - 1,
                            !.count = CountOf(data[2]), !.cbr = ~Vbr(data[2])]
         IN  Then(IF Padded(data[2]) THEN ReadPadding(data, q) ELSE q, LAMBDA r :
                  CASE ~r.ok -> r
                    [] r.ok /\ ~r.cbr -> ReadSizes(data, r)
                    [] r.ok /\ r.cbr /\ ~selfDelimited -> ShareBytes(r)
                    [] OTHER -> r)

\* The length of the last frame is written out; under CBR it is every frame's.
FinishSelfDelimited(data, p) ==
    LET left(s) == p.remaining - s.nbytes
    IN  Then(ParseSize(data, p.pos, p.remaining), LAMBDA s :
             [p EXCEPT !.ok = /\ @ /\ s.size >= 0 /\ s.size <= left(s)
                              /\ IF p.cbr THEN s.size * p.count <= left(s)
                                          ELSE s.nbytes + s.size <= p.last,
                       !.pos = @ + s.nbytes,
                       !.sizes = IF p.cbr THEN [i \in 1..p.count |-> s.size]
                                 ELSE Append(@, s.size)])

\* The last frame is what is left.
FinishNormal(p) ==
    [p EXCEPT !.ok = @ /\ p.last <= MaxFrameLen, !.sizes = Append(@, p.last)]

Run(data, selfDelimited) ==
    LET p == Parser(data)
        two == [p EXCEPT !.count = 2]
        header == CASE Code(data[1]) = 0 -> p
                    [] Code(data[1]) = 1 -> Code1([two EXCEPT !.cbr = TRUE], selfDelimited)
                    [] Code(data[1]) = 2 -> ReadSize(data, two)
                    [] OTHER -> Code3(data, p, selfDelimited)
    IN  Then(header, LAMBDA q :
             CASE ~q.ok -> q
               [] q.ok /\ selfDelimited -> FinishSelfDelimited(data, q)
               [] OTHER -> FinishNormal(q))

-----------------------------------------------------------------------------
(* Parse, CountFrames, Samples                                              *)

NoPacket == [ok |-> FALSE]

\* fillPacket: where frame i begins, after the sizes before it.
StartOf(p, i) == p.pos + FoldLeft(+, 0, SubSeq(p.sizes, 1, i - 1))

Parse(data, selfDelimited) ==
    IF data = <<>> THEN NoPacket
    ELSE Then(Run(data, selfDelimited), LAMBDA p :
              IF ~p.ok \/ StartOf(p, p.count + 1) + p.pad > Len(data) THEN NoPacket
              ELSE [ok |-> TRUE, toc |-> data[1],
                    frames |-> [i \in 1..p.count |->
                                   SubSeq(data, StartOf(p, i) + 1, StartOf(p, i + 1))],
                    padding |-> p.pad,
                    consumed |-> StartOf(p, p.count + 1) + p.pad])

\* -1 stands for an error.
CountFrames(data) ==
    CASE data = <<>> -> -1
      [] data # <<>> /\ Code(data[1]) = 0 -> 1
      [] data # <<>> /\ Code(data[1]) \in {1, 2} -> 2
      [] OTHER -> IF Len(data) < 2 THEN -1 ELSE CountOf(data[2])

Samples(data, fs) ==
    LET samples == CountFrames(data) * SamplesPerFrame(data[1], fs)
    IN  IF CountFrames(data) < 0 \/ samples * 25 > fs * 3 THEN -1 ELSE samples
=============================================================================
