------------------------------ MODULE SilkNlsf ------------------------------
(***************************************************************************)
(* NLSFStabilize of internal/silk/nlsf_decode.go: the frequencies of a     *)
(* SILK filter are moved apart, and away from the ends, until each keeps   *)
(* its distance.  If twenty moves are not enough they are sorted and       *)
(* pushed, once upwards and once downwards.  Frequencies are numbered from *)
(* 1, distances from 0, the last being that to the upper end.              *)
(***************************************************************************)
EXTENDS Integers, SequencesExt, FiniteSetsExt

CONSTANTS
    NlsfRange,      \* 2^15: frequencies are below it, and saturate there
    Distances,      \* deltaMinQ15: sequences one longer than the order
    StabilizeLoops  \* stabilizeMaxLoops: 20

Added(s) == FoldLeft(LAMBDA sum, x : sum + x, 0, s)

\* A pair an odd distance apart may go one past its room, which the last distance of the
\* tables, 461 and 347, leaves below 2^15.
ASSUME DistancesFit ==
    /\ NlsfRange \in Nat /\ StabilizeLoops \in Nat
    /\ \A d \in Distances : /\ d \in Seq(Nat) /\ Len(d) > 1 /\ d[Len(d)] >= 2
                            /\ Added(d) < NlsfRange

VARIABLE nlsf       \* [d, in]: distances, and the frequencies as they came

D(d, i) == d[i + 1]
Total(d, from, to) == Added([n \in 1..(to - from + 1) |-> D(d, from + n - 1)])

\* How much farther than it must frequency i + 1 is from the one below; 0 and the order
\* are the distances to the ends.
Gap(f, d, i) ==
    IF i = 0 THEN f[1] - D(d, 0)
    ELSE IF i = Len(f) THEN NlsfRange - (f[i] + D(d, i))
    ELSE f[i + 1] - (f[i] + D(d, i))

\* The first of the smallest.
Closest(f, d) ==
    LET gaps == {Gap(f, d, i) : i \in 0..Len(f)}
    IN Min({i \in 0..Len(f) : Gap(f, d, i) = Min(gaps)})

LimitTo(x, low, high) ==
    IF low > high THEN Min({Max({x, high}), low}) ELSE Max({low, Min({x, high})})

\* One pass of the loop: the pair keeps its centre, where there is room for all the rest.
MoveApart(f, d) ==
    LET L == Len(f)
        i == Closest(f, d)
        half == D(d, i) \div 2
        centre == LimitTo((f[i] + f[i + 1] + 1) \div 2,
                          Total(d, 0, i - 1) + half,
                          NlsfRange - Total(d, i + 1, L) - half)
    IN IF i = 0 THEN [f EXCEPT ![1] = D(d, 0)]
       ELSE IF i = L THEN [f EXCEPT ![L] = NlsfRange - D(d, L)]
       ELSE [f EXCEPT ![i] = centre - half, ![i + 1] = centre - half + D(d, i)]

KeptApart(f, d) == \A i \in 0..Len(f) : Gap(f, d, i) >= 0

\* silkInsertionSortIncreasingAllValuesInt16: the kth is the least that has k up to it.
Sorted(f) ==
    [k \in DOMAIN f |->
        Min({x \in Range(f) : Cardinality({i \in DOMAIN f : f[i] <= x}) >= k})]

AddSat(a, b) == Min({a + b, NlsfRange - 1})

Upward(f, d, i) == [f EXCEPT ![i] = Max({@, AddSat(f[i - 1], D(d, i - 1))})]
Downward(f, d, i) == [f EXCEPT ![i] = Min({@, f[i + 1] - D(d, i)})]

\* Sorted, up from the lower end, and below the upper.
PushedUp(f, d) ==
    LET L == Len(f)
        first == [Sorted(f) EXCEPT ![1] = Max({@, D(d, 0)})]
        up == FoldLeft(LAMBDA g, i : Upward(g, d, i), first, [n \in 1..(L - 1) |-> n + 1])
    IN [up EXCEPT ![L] = Min({@, NlsfRange - D(d, L)})]

\* Mutant of Fallback: what was pushed past the upper end is not pushed back.
FallbackUpOnly(f, d) == PushedUp(f, d)

\* Then down from the upper.
Fallback(f, d) ==
    FoldLeft(LAMBDA g, i : Downward(g, d, i), PushedUp(f, d), [n \in 1..(Len(f) - 1) |-> Len(f) - n])

\* A turn of the loop, until they are apart.
Turn(s, d) == IF s.done \/ KeptApart(s.f, d) THEN [s EXCEPT !.done = TRUE]
              ELSE [s EXCEPT !.f = MoveApart(s.f, d)]

\* NLSFStabilize.
Stabilized(f, d) ==
    LET moved == FoldLeft(LAMBDA s, loop : Turn(s, d), [f |-> f, done |-> FALSE],
                          [loop \in 1..StabilizeLoops |-> loop])
    IN IF moved.done THEN moved.f ELSE Fallback(moved.f, d)

-----------------------------------------------------------------------------

NoNlsf == [d |-> <<>>, in |-> <<>>]

NlsfInit == nlsf = NoNlsf

\* The frequencies are what the indices of a packet add up to, in any order.
Choose(d) == nlsf = NoNlsf /\ nlsf' = [d |-> d, in |-> <<>>]
AddNlsf(x) ==
    /\ nlsf.d # <<>> /\ Len(nlsf.in) < Len(nlsf.d) - 1
    /\ nlsf' = [nlsf EXCEPT !.in = Append(@, x)]

NlsfNext ==
    \/ \E d \in Distances : Choose(d)
    \/ \E x \in 0..(NlsfRange - 1) : AddNlsf(x)

NlsfSpec == NlsfInit /\ [][NlsfNext]_nlsf

-----------------------------------------------------------------------------
(* Property.                                                                *)

\* Whatever a packet says, the filter gets frequencies in order, each at its distance
\* from the next and from both ends (NLSFStabilize: "the output is a sorted NLSF
\* vector"), whether moving them converged or the fallback had to place them.
NlsfApart ==
    nlsf.d # <<>> /\ Len(nlsf.in) = Len(nlsf.d) - 1 =>
        \E f \in {Stabilized(nlsf.in, nlsf.d)} : KeptApart(f, nlsf.d)

\* The inductive invariant under it is only where the frequencies come from.
NlsfInv ==
    \/ nlsf = NoNlsf
    \/ /\ nlsf = [d |-> nlsf.d, in |-> nlsf.in] /\ nlsf.d \in Distances
       /\ nlsf.in \in Seq(0..(NlsfRange - 1)) /\ Len(nlsf.in) <= Len(nlsf.d) - 1
=============================================================================
