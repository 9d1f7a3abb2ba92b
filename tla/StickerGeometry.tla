--------------------------- MODULE StickerGeometry ---------------------------
(***************************************************************************)
(* Geometry of the sticker grid of StickerSetBox::Inner: cells of          *)
(* st::stickersSize laid out kStickersPanelPerRow to a row, below and to   *)
(* the right of st::stickersPadding.  Pixel sizes are CONSTANTS so that a  *)
(* model can scale them down while keeping the relations between them     *)
(* (padding smaller than a cell, viewport taller than a cell) that the     *)
(* style sheet has.  All arithmetic is on non-negative ints, where the     *)
(* code's int division and qFloor agree with \div.                         *)
(***************************************************************************)
EXTENDS Integers

CONSTANTS
    PerRow,       \* kStickersPanelPerRow
    PadLeft,      \* st::stickersPadding.left()
    PadTop,       \* st::stickersPadding.top()
    PadBottom,    \* st::stickersPadding.bottom()
    CellW,        \* st::stickersSize.width()
    CellH,        \* st::stickersSize.height()
    InnerWidth    \* width() of Inner: the box width, set by resizeEvent

ASSUME /\ PerRow \in Nat \ {0}
       /\ {PadLeft, PadTop, PadBottom} \subseteq Nat
       /\ {CellW, CellH} \subseteq Nat \ {0}
       /\ InnerWidth >= PadLeft + PerRow * CellW

\* Number of rows for n elements: n / kStickersPanelPerRow, plus one for a
\* partial row (gotSet line 322, paintEvent, visibleTopBottomUpdated).
RowsCount(n) == n \div PerRow + (IF n % PerRow # 0 THEN 1 ELSE 0)

\* Height gotSet gives Inner for a pack of n stickers.
InnerHeight(n) == PadTop + RowsCount(n) * CellH + PadBottom

RowOf(i) == i \div PerRow
ColOf(i) == i % PerRow

\* Vertical extent [top, bottom) of element i, as paintEvent positions it.
CellTop(i) == PadTop + RowOf(i) * CellH
CellBottom(i) == CellTop(i) + CellH

\* Left edge of element i as painted: paintSticker mirrors the cell in RTL
\* (tl.setX(width() - tl.x() - stickersSize.width())).
CellLeft(i, rtl) ==
    LET ltr == PadLeft + ColOf(i) * CellW
    IN  IF rtl THEN InnerWidth - ltr - CellW ELSE ltr

\* stickerFromGlobalPos (lines 503-513) on a point already mapped to Inner:
\* mirror x in RTL, row and column by division, -1 outside the grid or past
\* the last element.
StickerFromPos(x, y, rtl, n) ==
    LET lx  == IF rtl THEN InnerWidth - x ELSE x
        row == IF y >= PadTop THEN (y - PadTop) \div CellH ELSE -1
        col == IF lx >= PadLeft THEN (lx - PadLeft) \div CellW ELSE -1
    IN  IF row >= 0 /\ col >= 0 /\ col < PerRow /\ row * PerRow + col < n
        THEN row * PerRow + col
        ELSE -1
=============================================================================
