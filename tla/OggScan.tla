------------------------------- MODULE OggScan -------------------------------
(***************************************************************************)
(* The page scanner of oggopus/seek.go, on which Length and the seeks      *)
(* rest: it looks for pages through one window on the source, which it     *)
(* keeps from call to call.  Pages may lie across the end of a window, and *)
(* the pattern a page starts with may too; the pattern may also stand in a *)
(* body, in front of bytes that are no page, or in front of one that is.   *)
(***************************************************************************)
EXTENDS Integers, FiniteSetsExt

CONSTANTS
    CaptureLen,   \* of the pattern
    MaxPageLen,   \* maxPageLen
    SourceLen,    \* bytes of the source
    MaxPatterns   \* how often the pattern stands in the source

ASSUME ScanAssumption == CaptureLen < MaxPageLen /\ MaxPageLen < SourceLen

ScanWindow == 2 * MaxPageLen

VARIABLES
    source,   \* at each offset where the pattern stands, the length of what it starts and
              \* whether that is a page
    win       \* the window: off, n, eof and valid

scanVars == <<source, win>>

NoWindow == [off |-> 0, n |-> 0, eof |-> FALSE, valid |-> FALSE]

\* window: kept if it has a page's worth of bytes from off on.
WindowAt(w, off) ==
    IF /\ w.valid /\ w.off <= off /\ off < w.off + w.n
       /\ w.off + w.n - off >= MaxPageLen \/ w.eof
    THEN w
    ELSE [off |-> off, n |-> Max({0, Min({ScanWindow, SourceLen - off})}),
          eof |-> SourceLen - off < ScanWindow, valid |-> TRUE]

WindowEnd(w) == w.off + w.n

\* parsePage of the bytes from offset c to the end of a window.
Whole(c, end) == c + source[c].len <= end
IsPage(c, end) == c \in DOMAIN source /\ Whole(c, end) /\ source[c].valid

\* The answers: an offset, or none.
None == -1

\* pageAt.
PageAt(w, off) ==
    LET v == WindowAt(w, off)
    IN [win |-> v, at |-> IF IsPage(off, WindowEnd(v)) THEN off ELSE None]

\* findForward, from pos on.
RECURSIVE FindForward(_, _, _)
FindForward(w, pos, bound) ==
    IF pos >= bound THEN [win |-> w, at |-> None]
    ELSE LET v == WindowAt(w, pos)
             end == WindowEnd(v)
             lim == Min({end, bound})
             seen == {c \in DOMAIN source : pos <= c /\ c < lim /\ c + CaptureLen <= end}
             \* A page cut off by the window may fit once the window starts at it.
             Cut(c) == ~Whole(c, end) /\ c > pos /\ end - c < MaxPageLen /\ ~v.eof
             stops == {c \in seen : IsPage(c, end) \/ Cut(c)}
             \* A pattern may start in the last bytes of a full window.
             next == IF lim = end /\ ~v.eof
                     THEN Max({lim - (CaptureLen - 1), pos + 1}) ELSE lim
         IN IF end <= pos THEN [win |-> v, at |-> None]
            ELSE IF stops = {} THEN FindForward(v, next, bound)
            ELSE IF IsPage(Min(stops), end) THEN [win |-> v, at |-> Min(stops)]
            ELSE FindForward(v, Min(stops), bound)

\* Mutant of SteppedBack: the windows meet, but do not overlap.
SteppedBackFlush(start) == start

\* So that a page across the edge of a window is seen whole by the next.
SteppedBack(start) == start + MaxPageLen - 1

\* findBackward; a window that was kept can end too early, and is then read again.
RECURSIVE FindBackward(_, _, _)
FindBackward(w, floor, end) ==
    IF end <= floor THEN [win |-> w, at |-> None]
    ELSE LET start == Max({floor, end - ScanWindow})
             kept == WindowAt(w, start)
             v == IF WindowEnd(kept) < end /\ ~kept.eof THEN WindowAt(NoWindow, start) ELSE kept
             last == Min({WindowEnd(v), end})
             found == {c \in DOMAIN source : start <= c /\ IsPage(c, last)}
         IN IF found # {} THEN [win |-> v, at |-> Max(found)]
            ELSE IF start = floor THEN [win |-> v, at |-> None]
            ELSE FindBackward(v, floor, SteppedBack(start))

-----------------------------------------------------------------------------

\* What can start at an offset: bytes up to the end of the source, or cut off by it.
Starts == [len : {CaptureLen, MaxPageLen}, valid : BOOLEAN]
Apart(offsets) == \A a, b \in offsets : a = b \/ a - b >= CaptureLen \/ b - a >= CaptureLen

\* A source that has not been looked at.
NoSource == [c \in {} |-> None]
ScanInit == source = NoSource /\ win = NoWindow

Bind ==
    /\ source = NoSource /\ win = NoWindow
    /\ \E k \in 1..MaxPatterns : \E offsets \in kSubset(k, 0..(SourceLen - CaptureLen)) :
          /\ Apart(offsets)
          /\ source' \in [offsets -> Starts]
    /\ UNCHANGED win

Spans == {s \in (0..SourceLen) \X (0..SourceLen) : s[1] <= s[2]}

Ask ==
    /\ source # NoSource
    /\ \/ \E off \in 0..SourceLen : win' = PageAt(win, off).win
       \/ \E s \in Spans : win' = FindForward(win, s[1], s[2]).win
       \/ \E s \in Spans : win' = FindBackward(win, s[1], s[2]).win
    /\ UNCHANGED source

\* A seek or a read of the source fails.
FailRead == source # NoSource /\ win' = [win EXCEPT !.valid = FALSE] /\ UNCHANGED source

ScanNext == Bind \/ Ask \/ FailRead

-----------------------------------------------------------------------------
(* Property.                                                                *)

Pages == {c \in DOMAIN source : IsPage(c, SourceLen)}
FirstOf(S) == IF S = {} THEN None ELSE Min(S)
LastOf(S) == IF S = {} THEN None ELSE Max(S)

\* Whatever window earlier calls left, and wherever windows cut pages and patterns: pageAt
\* and findForward find the page there is and the first there is in a span, findBackward
\* the last one that ends in it.
ScanExact ==
    source # NoSource =>
        /\ \A off \in 0..SourceLen : PageAt(win, off).at = (IF off \in Pages THEN off ELSE None)
        /\ \A s \in Spans :
              /\ FindForward(win, s[1], s[2]).at = FirstOf({c \in Pages : s[1] <= c /\ c < s[2]})
              /\ FindBackward(win, s[1], s[2]).at =
                    LastOf({c \in Pages : s[1] <= c /\ c + source[c].len <= s[2]})
=============================================================================
