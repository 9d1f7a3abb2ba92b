----------------------------- MODULE StickerGrid -----------------------------
(***************************************************************************)
(* Scrolling, painting and Lottie pausing of the loaded sticker grid of    *)
(* StickerSetBox::Inner.  The scroll area reports the visible band with    *)
(* visibleTopBottomUpdated, which pauses the animations of the rows that   *)
(* have left it; paintEvent paints the rows of the dirty rectangle, and    *)
(* paintSticker sets an animation up the first time its cell is painted    *)
(* and unpauses it whenever it is painted ready.  The Lottie player itself *)
(* is external: an animation becomes ready by the FrameReady step.  All    *)
(* stickers of the pack are animated and their documents loaded: static    *)
(* stickers have no animation to pause.                                    *)
(***************************************************************************)
EXTENDS StickerGeometry, FiniteSets

CONSTANTS
    ViewHeight,   \* height of the scroll area's viewport
    MaxCount      \* largest pack gotSet can produce in the model

ASSUME ViewHeight >= CellH /\ MaxCount \in Nat \ {0}

VARIABLES
    count,        \* _elements.size(), fixed once gotSet has run
    visibleTop,   \* last visibleTop passed to visibleTopBottomUpdated
    setUp,        \* indices whose element.animated exists (setupLottie ran)
    ready,        \* indices whose animation has a frame (animated->ready())
    paused        \* indices paused in the MultiPlayer

vars == <<count, visibleTop, setUp, ready, paused>>

Elements == 0 .. count - 1

\* Scroll positions of the scroll area, whose viewport has ViewHeight.
ScrollTops ==
    0 .. (IF InnerHeight(count) > ViewHeight
          THEN InnerHeight(count) - ViewHeight ELSE 0)

\* A paint event's rect(): top and bottom (inclusive, as QRect::bottom) of a
\* band inside both the viewport and the widget.
DirtyRects ==
    {r \in (visibleTop .. visibleTop + ViewHeight - 1)
              \X (visibleTop .. visibleTop + ViewHeight - 1) :
        r[1] <= r[2] /\ r[2] < InnerHeight(count)}

\* pauseInRows(fromRow, tillRow): the elements of rows fromRow .. tillRow-1.
PauseInRows(fromRow, tillRow) ==
    {i \in Elements : fromRow <= RowOf(i) /\ RowOf(i) < tillRow}

RowsBottom == PadTop + RowsCount(count) * CellH

LesserOf(a, b) == IF a < b THEN a ELSE b

\* Mutant: the first band one row short.
PausedAboveOffByOne(top) ==
    IF top >= PadTop + CellH /\ top < RowsBottom
    THEN PauseInRows(0, LesserOf((top - PadTop) \div CellH - 1, RowsCount(count)))
    ELSE {}

\* First branch of visibleTopBottomUpdated: the rows above visibleTop.
PausedAbove(top) ==
    IF top >= PadTop + CellH /\ top < RowsBottom
    THEN PauseInRows(0, LesserOf((top - PadTop) \div CellH, RowsCount(count)))
    ELSE {}

\* Mutant: the second band starting one row early.
PausedBelowOffByOne(bottom) ==
    IF bottom > PadTop /\ bottom + CellH <= RowsBottom
    THEN LET pauseRows == LesserOf((RowsBottom - bottom) \div CellH,
                                   RowsCount(count))
         IN  PauseInRows(RowsCount(count) - pauseRows - 1, RowsCount(count))
    ELSE {}

\* Second branch: the rows below visibleBottom.
PausedBelow(bottom) ==
    IF bottom > PadTop /\ bottom + CellH <= RowsBottom
    THEN LET pauseRows == LesserOf((RowsBottom - bottom) \div CellH,
                                   RowsCount(count))
         IN  PauseInRows(RowsCount(count) - pauseRows, RowsCount(count))
    ELSE {}

\* Elements paintEvent visits for a rect from rect.top() to rect.bottom():
\* rows qFloor(top / height) .. qFloor(bottom / height), indices < size.
PaintedBy(top, bottom) ==
    {i \in Elements : top \div CellH <= RowOf(i) /\ RowOf(i) <= bottom \div CellH}

Init ==
    /\ count \in 1 .. MaxCount
    /\ visibleTop = 0
    /\ setUp = {}
    /\ ready = {}
    /\ paused = {}

\* Mutant: pauseInRows without the check that the element has an animation.
ScrollNoAnimatedCheck(top) ==
    /\ visibleTop' = top
    /\ paused' = paused \cup PausedAbove(top) \cup PausedBelow(top + ViewHeight)
    /\ UNCHANGED <<count, setUp, ready>>

\* visibleTopBottomUpdated(top, top + ViewHeight) after a scroll: pause the
\* animations (of elements that have one) in both bands.
Scroll(top) ==
    /\ visibleTop' = top
    /\ paused' = paused \cup
         (setUp \cap (PausedAbove(top) \cup PausedBelow(top + ViewHeight)))
    /\ UNCHANGED <<count, setUp, ready>>

\* paintSticker on the visited elements, first half: setupLottie creates
\* the animation of a loaded animated sticker that has none.
SetupLottie(visited) == setUp \cup visited

\* paintSticker, second half: an animation that was ready is drawn and
\* unpaused (one set up by this very call is not ready yet).
PaintSticker(visited) == paused \ (visited \cap ready)

\* paintEvent: paintSticker on every element of the visited rows.
Paint(top, bottom) ==
    LET visited == PaintedBy(top, bottom)
    IN  /\ setUp' = SetupLottie(visited)
        /\ paused' = PaintSticker(visited)
        /\ UNCHANGED <<count, visibleTop, ready>>

\* The player renders the first frame of an animation set up by setupLottie.
FrameReady(i) ==
    /\ i \in setUp \ ready
    /\ ready' = ready \cup {i}
    /\ UNCHANGED <<count, visibleTop, setUp, paused>>

Next ==
    \/ \E top \in ScrollTops : Scroll(top)
    \/ \E r \in DirtyRects : Paint(r[1], r[2])
    \/ \E i \in Elements : FrameReady(i)

Spec == Init /\ [][Next]_vars

-----------------------------------------------------------------------------
TypeOK ==
    /\ count \in 1 .. MaxCount
    /\ visibleTop \in ScrollTops
    /\ ready \subseteq setUp
    /\ setUp \subseteq Elements
    /\ paused \subseteq setUp

\* Element i lies wholly outside the band [top, bottom).
Offscreen(i, top, bottom) == CellBottom(i) <= top \/ CellTop(i) >= bottom

\* After visibleTopBottomUpdated, every animation whose cell is wholly
\* outside the new visible band is paused: the two integer-division bands
\* together reach every hidden row, for every scroll position the scroll
\* area can report.
ScrollPausesOffscreen ==
    [][\A top \in ScrollTops :
         Scroll(top) =>
            \A i \in setUp : Offscreen(i, top, top + ViewHeight) => i \in paused']_vars

\* visibleTopBottomUpdated never pauses an animation of which some part is
\* still visible.
PauseOnlyOffscreen ==
    [][\A top \in ScrollTops :
         Scroll(top) =>
            \A i \in paused' \ paused : Offscreen(i, top, top + ViewHeight)]_vars

\* paintEvent paints every sticker whose cell meets the dirty rectangle:
\* afterwards it has an animation and, if that is ready, it is unpaused.
PaintUnpausesDirtyCells ==
    [][\A r \in DirtyRects :
         Paint(r[1], r[2]) =>
            \A i \in Elements :
               ~Offscreen(i, r[1], r[2] + 1) =>
                  /\ i \in setUp'
                  /\ i \in ready => i \notin paused']_vars
=============================================================================
