------------------------------- MODULE CeltTf -------------------------------
(***************************************************************************)
(* tfAnalysis of internal/celt/celt_encoder_tf.go: the time-frequency      *)
(* resolution of every band of a frame, by a Viterbi search over both      *)
(* values of tf_select.  A state is a frame whose bands have been measured *)
(* one by one; of a measurement only which resolution was best counts.     *)
(***************************************************************************)
EXTENDS CeltMode, FiniteSetsExt

CONSTANTS
    TfFrames,       \* [LM, transient: 0 or 1, lambda: the price of a change]
    Importances,    \* of a band
    MaxMeasured     \* how many bands are measured

VARIABLE measured         \* the frame and its bands: [importance, metric]

\* How often a band can be halved, or joined: -1 if it is short blocks and wide.
Levels(LM, transient, narrow) ==
    (IF transient = 1 /\ ~narrow THEN -1 ELSE 0)..(IF transient = 1 \/ narrow THEN LM ELSE LM + 1)

\* In halves; a band of one coefficient that chose an end may be beyond it.
Metric(LM, transient, narrow, level) ==
    LET m == IF transient = 1 THEN 2 * level ELSE -2 * level
    IN IF narrow /\ m \in {0, -2 * LM} THEN m - 1 ELSE m

Resolution(f, sel, flag) == tfSelectTable[f.LM + 1][f.transient + 1][2 * sel + flag + 1]

Distance(a, b) == IF a < b THEN b - a ELSE a - b

\* What it costs that a band has the resolution of a flag.
Miss(f, i, sel, flag) ==
    f.bands[i].importance * Distance(f.bands[i].metric, 2 * Resolution(f, sel, flag))

\* A frame of long blocks begins at flag 0.
FirstCosts(f, sel) ==
    <<Miss(f, 1, sel, 0),
      Miss(f, 1, sel, 1) + (IF f.transient = 0 THEN f.lambda ELSE 0)>>

Others(f) == [i \in 1..(Len(f.bands) - 1) |-> i + 1]

\* selcost.
SelCost(f, sel) ==
    LET Next(c, i) == <<Min({c[1], c[2] + f.lambda}) + Miss(f, i, sel, 0),
                        Min({c[1] + f.lambda, c[2]}) + Miss(f, i, sel, 1)>>
        costs == FoldLeft(Next, FirstCosts(f, sel), Others(f))
    IN Min({costs[1], costs[2]})

\* "For now, we're conservative and only allow tf_select=1 for transients."
Select(f) == IF f.transient = 1 /\ SelCost(f, 1) < SelCost(f, 0) THEN 1 ELSE 0

\* Mutant of TfStep: the change into flag 1 is free.
TfStepFree(f, sel, s, i) ==
    LET to0 == IF s.cost[1] < s.cost[2] + f.lambda THEN 0 ELSE 1
        to1 == IF s.cost[1] < s.cost[2] THEN 0 ELSE 1
    IN [cost |-> <<(IF to0 = 0 THEN s.cost[1] ELSE s.cost[2] + f.lambda) + Miss(f, i, sel, 0),
                   (IF to1 = 0 THEN s.cost[1] ELSE s.cost[2]) + Miss(f, i, sel, 1)>>,
        from |-> Append(s.from, <<to0, to1>>)]

\* One band of the forward pass: where the cheapest way to each flag comes from (path0
\* and path1).
TfStep(f, sel, s, i) ==
    LET to0 == IF s.cost[1] < s.cost[2] + f.lambda THEN 0 ELSE 1
        to1 == IF s.cost[1] + f.lambda < s.cost[2] THEN 0 ELSE 1
    IN [cost |-> <<(IF to0 = 0 THEN s.cost[1] ELSE s.cost[2] + f.lambda) + Miss(f, i, sel, 0),
                   (IF to1 = 0 THEN s.cost[1] + f.lambda ELSE s.cost[2]) + Miss(f, i, sel, 1)>>,
        from |-> Append(s.from, <<to0, to1>>)]

TfForward(f, sel) ==
    FoldLeft(LAMBDA s, i : TfStep(f, sel, s, i),
             [cost |-> FirstCosts(f, sel), from |-> << <<0, 0>> >>], Others(f))

\* tf_res: from the last band backwards.
Decisions(f, sel) ==
    LET n == Len(f.bands)
        forward == TfForward(f, sel)
        last == IF forward.cost[1] < forward.cost[2] THEN 0 ELSE 1
    IN FoldLeft(LAMBDA res, i : <<forward.from[i + 1][res[1] + 1]>> \o res,
                <<last>>, [m \in 1..(n - 1) |-> n - m])

-----------------------------------------------------------------------------

NoFrameYet == [LM |-> 0, transient |-> 0, lambda |-> -1, bands |-> <<>>]

TfInit == measured = NoFrameYet

StartTf(f) ==
    /\ measured = NoFrameYet
    /\ measured' = [LM |-> f.LM, transient |-> f.transient, lambda |-> f.lambda, bands |-> <<>>]

\* Of the eight narrow bands, which are the low ones, one is measured.
Measure(narrow, level, importance) ==
    /\ measured # NoFrameYet /\ Len(measured.bands) < MaxMeasured
    /\ level \in Levels(measured.LM, measured.transient, narrow)
    /\ narrow <=> measured.bands = <<>>
    /\ measured' = [measured EXCEPT !.bands =
                Append(@, [importance |-> importance,
                           metric |-> Metric(measured.LM, measured.transient, narrow, level)])]

TfNext ==
    \/ \E f \in TfFrames : StartTf(f)
    \/ \E narrow \in BOOLEAN, level \in -1..(MaxLM + 1), importance \in Importances :
          Measure(narrow, level, importance)

-----------------------------------------------------------------------------
(* Property.                                                                *)

PathCost(f, sel, path) ==
    LET n == Len(path)
        Changes == (IF f.transient = 0 THEN path[1] ELSE 0)
                   + Cardinality({i \in 2..n : path[i] # path[i - 1]})
    IN FoldLeft(LAMBDA sum, i : sum + Miss(f, i, sel, path[i]), 0, [i \in 1..n |-> i])
       + f.lambda * Changes

\* No other flags, with the tf_select chosen or with the other one where that is allowed,
\* fit the bands better at the price of their changes: the two searches of the code, one
\* for the cost and one for the way, agree on it, ties included.
TfCheapest ==
    measured.bands # <<>> =>
        \E sel \in {Select(measured)} :
        \E found \in {PathCost(measured, sel, Decisions(measured, sel))} :
           /\ found = SelCost(measured, sel)
           /\ \A other \in (IF measured.transient = 1 THEN {0, 1} ELSE {0}) :
              \A path \in [1..Len(measured.bands) -> {0, 1}] :
                 found <= PathCost(measured, other, path)
=============================================================================
