---------------------------- MODULE StickerPreview ----------------------------
(***************************************************************************)
(* The press / hold / release gesture of StickerSetBox::Inner on a loaded  *)
(* pack: a press on a sticker arms _previewTimer for startDragTime; if the *)
(* timer fires first, showPreview shows the sticker under the cursor and   *)
(* moves while the button is held switch the preview; if the release      *)
(* comes first, it cancels the timer and sends the sticker under the      *)
(* cursor.  The pointer is a point of Inner's coordinates (or Outside,     *)
(* while the button is held and the mouse grabbed), so that hit testing    *)
(* is stickerFromGlobalPos itself.  Both orders of the timer and the       *)
(* release are behaviours of the model: startDragTime is a duration the    *)
(* code does not compare with anything.  The mouse handlers do not look at *)
(* e->button(): every button's press and release runs them, so the buttons *)
(* held are a set and chords of two buttons are behaviours of the model.   *)
(***************************************************************************)
EXTENDS StickerGeometry, FiniteSets

CONSTANTS
    MaxCount,   \* largest pack in the model
    Buttons     \* mouse buttons the user may hold (Qt::MouseButton)

ASSUME MaxCount \in Nat \ {0} /\ Buttons # {}

VARIABLES
    count,          \* _pack.size()
    masks,          \* isMasksSet()
    rtl,            \* rtl(): the application's layout direction
    pointer,        \* cursor position mapped to Inner
    pressed,        \* the buttons held down since a press on Inner
    selected,       \* _selected
    timerActive,    \* _previewTimer.isActive()
    previewShown,   \* _previewShown
    held,           \* history: the timer fired since the first button went down
    clicked,        \* history: the last release sent a sticker
    open            \* the box is still shown (hideSettingsAndLayer not run)

vars == <<count, masks, rtl, pointer, pressed, selected, timerActive,
          previewShown, held, clicked, open>>

Outside == <<-1, -1>>

Points == ((0 .. InnerWidth - 1) \X (0 .. InnerHeight(count) - 1)) \cup {Outside}

\* stickerFromGlobalPos(pos) including the index < _pack.size() check.
Hit(p) == StickerFromPos(p[1], p[2], rtl, count)

Valid(index) == index >= 0 /\ index < count

\* updateSelected() with the cursor at p: setSelected(isMasksSet() ? -1 : ...).
SelectedAt(p) == IF masks THEN -1 ELSE Hit(p)

Init ==
    /\ count \in 1 .. MaxCount
    /\ masks \in BOOLEAN
    /\ rtl \in BOOLEAN
    /\ pointer \in Points \ {Outside}
    /\ pressed = {}
    /\ selected = SelectedAt(pointer)
    /\ timerActive = FALSE
    /\ previewShown = -1
    /\ held = FALSE
    /\ clicked = FALSE
    /\ open = TRUE

\* mousePressEvent, for any button: (re)arm the preview timer when the press
\* is on a sticker; callOnce restarts a timer already running.  While a
\* button is held the mouse is grabbed, so a further press reaches Inner
\* wherever the cursor is.
Press(btn) ==
    /\ open /\ btn \notin pressed
    /\ pointer # Outside \/ pressed # {}
    /\ pressed' = pressed \cup {btn}
    /\ timerActive' = (Valid(Hit(pointer)) \/ timerActive)
    /\ held' = (pressed # {} /\ held)
    /\ clicked' = FALSE
    /\ UNCHANGED <<count, masks, rtl, pointer, selected, previewShown, open>>

\* mouseMoveEvent: updateSelected(), then switch a shown preview to the
\* sticker now under the cursor.  Without the button the widget only sees
\* moves inside it; with the button held the mouse is grabbed.
Move(p) ==
    /\ open /\ p # pointer
    /\ p = Outside => pressed # {}
    /\ pointer' = p
    /\ selected' = SelectedAt(p)
    /\ previewShown' =
         IF previewShown >= 0 /\ Valid(Hit(p)) THEN Hit(p) ELSE previewShown
    /\ UNCHANGED <<count, masks, rtl, pressed, timerActive, held, clicked, open>>

\* leaveEventHook: setSelected(-1).
Leave ==
    /\ open /\ pressed = {} /\ pointer # Outside
    /\ pointer' = Outside
    /\ selected' = -1
    /\ UNCHANGED <<count, masks, rtl, pressed, timerActive, previewShown,
                   held, clicked, open>>

\* Mutant: a repeating timer (callEach) that stays armed after showing.
TimerFiresKeepActive ==
    /\ open /\ timerActive
    /\ held' = TRUE
    /\ previewShown' = IF Valid(Hit(pointer)) THEN Hit(pointer) ELSE previewShown
    /\ UNCHANGED <<count, masks, rtl, pointer, pressed, selected, clicked,
                   open, timerActive>>

\* The timer's callback, showPreview(): preview the sticker under the cursor.
TimerFires ==
    /\ open /\ timerActive
    /\ timerActive' = FALSE
    /\ held' = TRUE
    /\ previewShown' = IF Valid(Hit(pointer)) THEN Hit(pointer) ELSE previewShown
    /\ UNCHANGED <<count, masks, rtl, pointer, pressed, selected, clicked, open>>

\* Mutant: the timer cancelled only when a sticker is sent.
ReleaseCancelOnSend(btn) ==
    /\ open /\ btn \in pressed
    /\ pressed' = pressed \ {btn}
    /\ IF previewShown >= 0
       THEN /\ previewShown' = -1
            /\ UNCHANGED <<timerActive, clicked, open>>
       ELSE /\ IF timerActive /\ Valid(Hit(pointer)) /\ ~masks
               THEN /\ timerActive' = FALSE
                    /\ clicked' = TRUE
                    /\ open' \in BOOLEAN
               ELSE UNCHANGED <<timerActive, clicked, open>>
            /\ UNCHANGED previewShown
    /\ UNCHANGED <<count, masks, rtl, pointer, selected, held>>

\* mouseReleaseEvent, for any button.  A shown preview is just dropped and
\* the handler returns, leaving a timer re-armed by a second press running.  Otherwise, if the
\* timer is still pending, it is cancelled and the sticker under the cursor
\* is sent by the postponed call, which runs as soon as the handler returns;
\* onSendSticker may refuse, and when it accepts hideSettingsAndLayer
\* closes the box.
Release(btn) ==
    /\ open /\ btn \in pressed
    /\ pressed' = pressed \ {btn}
    /\ IF previewShown >= 0
       THEN /\ previewShown' = -1
            /\ UNCHANGED <<timerActive, clicked, open>>
       ELSE /\ timerActive' = FALSE
            /\ IF timerActive /\ Valid(Hit(pointer)) /\ ~masks
               THEN /\ clicked' = TRUE
                    /\ open' \in BOOLEAN
               ELSE UNCHANGED <<clicked, open>>
            /\ UNCHANGED previewShown
    /\ UNCHANGED <<count, masks, rtl, pointer, selected, held>>

Next ==
    \/ \E btn \in Buttons : Press(btn)
    \/ \E p \in Points : Move(p)
    \/ Leave
    \/ TimerFires
    \/ \E btn \in Buttons : Release(btn)

Spec == Init /\ [][Next]_vars

-----------------------------------------------------------------------------
TypeOK ==
    /\ count \in 1 .. MaxCount
    /\ masks \in BOOLEAN /\ rtl \in BOOLEAN
    /\ pointer \in Points
    /\ pressed \subseteq Buttons
    /\ {timerActive, held, clicked, open} \subseteq BOOLEAN
    /\ selected \in -1 .. count - 1
    /\ previewShown \in -1 .. count - 1
    /\ timerActive => pressed # {}

\* A gesture held until the preview timer fired is a preview, never a
\* click: mouseReleaseEvent sends a sticker only while _previewTimer is
\* still pending, whether or not showPreview found a sticker to show.
\* (The gesture runs from the first button going down to the release that
\* sends; a chord restarts the timer, see the chord run.)
NoSendAfterHold == [][~clicked /\ clicked' => ~held]_vars

\* A preview is shown only while some button is held: the release that
\* leaves no button held drops it, and the preview timer can only be left
\* running by a release that drops a preview while another button is still
\* down, so it never fires once all buttons are up.
PreviewOnlyWhileHeld == previewShown >= 0 => pressed # {}

\* The sticker painted under the cursor, by the cell rectangles of
\* paintEvent and paintSticker.
LayoutAt(p) ==
    LET under == {i \in 0 .. count - 1 :
                    /\ CellLeft(i, rtl) <= p[1] /\ p[1] < CellLeft(i, rtl) + CellW
                    /\ CellTop(i) <= p[2] /\ p[2] < CellBottom(i)}
    IN  IF under = {} THEN -1 ELSE CHOOSE i \in under : TRUE

\* The highlighted sticker (_selected, which is also the one a click sends)
\* is the one painted under the cursor, in both layout directions.
HitMatchesLayout == ~masks => selected = LayoutAt(pointer)
=============================================================================
