# TLA+ model of the sticker set box (U.G.L.Y / Telegram Desktop excerpt)

This directory holds the model-checking project for the four source files
under `src/`. Only one of them holds behaviour: `boxes/sticker_set_box.cpp`.
The others are headers. `background_preview_box.h` and `data/data_feed.h`
declare classes whose bodies are not in the repository.

## 1. Inventory

### Components

| Component | Source | State | Operations |
|---|---|---|---|
| Sticker set box (`StickerSetBox`) | sticker_set_box.cpp 130-213 | the inner widget, the button layout, the box lifecycle | `prepare`, `updateButtons`, `addStickers`, `shareStickers`, `closeBox` |
| Fetch and merge (`Inner` ctor, `gotSet`) | 215-329 | `_loaded`, `_pack`, `_emoji`, `_setFlags`, set metadata | GetStickerSet request; done (non-empty / empty pack); fail |
| Install orchestrator and reconciler (`install`, `installDone`) | 339-404, 692-709 | `_installRequest` | install guard (masks, in flight); done; fail |
| Session sticker registry (Data::Session, not in src) | used at 299, 341-392 | `stickerSets` (id → set), `stickerSetsOrder`, `archivedStickerSetsOrder` | written by gotSet, installDone, `Stickers::ApplyArchivedResult`, the featured-sets loader started at line 241 |
| Persistence (`Local::write*Stickers`, not in src) | 397-400 | the orders on disk | write installed / archived |
| Preview gesture | 406-488 | `_previewTimer`, `_previewShown`, `_selected` | press, move, release, timer fires |
| Grid geometry and animation pausing | 322, 503-592 | scroll position, paused animations | `stickerFromGlobalPos`, `visibleTopBottomUpdated` |
| Painting, Lottie | 490-654 | `_lottiePlayer`, `Element::animated` | paint, lazy player creation |
| Share link | 181-185 | none | clipboard write |
| BackgroundPreviewBox, Data::Feed | headers | declared members only | no bodies in the repository |

### How the components interact

Everything runs on the UI thread. Concurrency comes from asynchronous
replies. Every box owns an `MTP::Sender`. Its GetStickerSet and
InstallStickerSet replies arrive later, in any order relative to the other
boxes' replies and to the user's presses. Several boxes can be open at once,
because `StickerSetBox::Show` uses `KeepOther`. All boxes read and write the
one session registry:
- `gotSet` merges into it without notifying anyone.
- `installDone` upserts the entry, moves the set to the front of the order,
  cleans the custom bucket, writes the orders and notifies.
- Every notification makes every open box lay out its buttons again.
- An `InformBox` ("not found") is shown with the default `CloseOther`, so it
  closes every open box of the layer.
- Destroying a box destroys its sender and cancels its pending replies.

### What is hard here

The handlers act on **snapshots taken at fetch time**:
- `_setFlags` is read at line 343 and written back at line 368.
- `_pack` is used at line 371.
- The buttons are stale after a `gotSet` of another box.

In between, other boxes, the archive result of another install, the featured
loader and other devices of the account change the registry and the server.
The other hard parts:
- double presses before a reply;
- two boxes installing the same set;
- the archive result applied after the move to the front;
- persistence written only under some conditions;
- a box destroyed while its install is in flight.
- two mouse buttons pressed and released in one gesture, racing the
  preview timer.

### Correctness properties per component

- Registry: every ordered id has an entry. No id is duplicated. No set is in
  both orders. The custom bucket is never empty. Client-only flags survive.
  Masks sets stay out of the stickers order. The orders on disk equal the
  orders in memory.
- Install: at most one request per box. An installed set goes to the front
  and the others keep their order. After Add, the box is eventually dismissed.
- Grid: after a scroll, the animations of exactly the rows wholly outside
  the viewport are paused. A paint paints, and unpauses, every sticker its
  rectangle meets. The hit test agrees with the painted cells.
- Preview: a press held until the timer fires never sends. A shown preview
  disappears once no button is held.

## 2. Plan

1. **StickerSetBox.tla** (done, sitting 1): the boxes, their replies, the
   registry, persistence of the orders, and the registry's other writers as
   far as they interact with the box.
2. **StickerSetBoxProtocol.tla** (done, sitting 1): the abstract per-box
   protocol. A box goes idle → loading → shown → closing → gone. The whole
   layer may close at once. A box sends at most one install request, and
   only while shown. Loads and sent installs end. `StickerSetBox` implements
   it through `Protocol == INSTANCE StickerSetBoxProtocol WITH phase <-
   PhaseOf, requested <- installRequest`, checked as `ProtocolRefined`.
3. The `gotSet` empty-pack hazard (line 311) is covered: see finding 3.
4. Next: a second abstract specification, of the registry itself (the
   orders as sets of installed and archived ids). It would be refined only
   once finding 1 is fixed, so it will be stated with the fix as a
   parameter.
5. **StickerPreview.tla** (done, sitting 2): the press / timer / move /
   release state machine of the preview (lines 406-488), with the timer
   racing the release. See §3b and finding 5.
6. **StickerGeometry.tla** and **StickerGrid.tla** (done, sitting 2): the
   grid arithmetic as operators; scrolling, painting and animation pausing
   as a state machine, checked against the reference "exactly the rows
   wholly outside the viewport are paused". See §3b and finding 4.
7. **StickerRegistry.tla** (done, sitting 3): the registry abstraction of
   item 4, refined by `StickerSetBox` (`RegistryRefined`). The share action
   action was added at the same time.
8. **Mouse buttons in StickerPreview** (done, sitting 4): the handlers
   ignore `e->button()`, so the buttons held are a set and chords are
   behaviours. See finding 6.

## 3. The module StickerSetBox

| TLA+ | Code |
|---|---|
| `data.sets`, `data.order`, `data.archivedOrder` | `stickerSetsRef()`, `stickerSetsOrderRef()`, `archivedStickerSetsOrderRef()` |
| `stored` | the orders written by `Local::writeInstalledStickers` / `writeArchivedStickers` |
| `loaded`, `pack`, `setFlags`, `installRequest` | `_loaded`, `_pack`, `_setFlags`, `_installRequest != 0` |
| `fetchPending`, `installPending` | the outstanding replies of the box's `MTP::Sender` |
| `status`, `buttons` | box shown / hidden / destroyed; the layout of `updateButtons` |
| `Open`, `GotSet`, `GotSetEmpty`, `FetchFailed` | `Inner` ctor and the GetStickerSet done/fail handlers |
| `AddStickers`, `InstallDone`, `InstallFailed` | `install()` and its done/fail handlers |
| `Share`, `Cancel`, `Destroy` | `shareStickers` (its InformBox closes the layer); `closeBox` buttons; `~Inner` |
| `FeaturedSetsLoaded`, `ApplyArchivedResult` | other writers of the registry (spec-modelled) |

`PhaseOf` maps the detailed state to the protocol's phase:
- `status` unopened is idle;
- closing and gone map to themselves;
- an open box that has loaded a non-empty pack is shown;
- any other open box is loading.

The protocol's `requested` is `_installRequest`.

**StickerRegistry** is the second abstract specification. It is the
registry without the custom bucket, the flags and the packs: the ids with
an entry (`known`), the installed order and the archived order.
- `Learn(s)` gives a set an entry without ordering it.
- `Install(s, a)` puts `s` first, keeps the others' relative order, takes
  the sets `a` the server archived out of the installed order, and puts
  the new ones in front of the archived order.

The abstraction leaves open whether `s` leaves the archived order, because
the code decides that from a stale snapshot (finding 1). `StickerSetBox`
instances it with `known <- DOMAIN data.sets \ {CustomSetId}` and the two
orders, checked as `RegistryRefined`. Every writer of the model then
changes the orders only by such installs and never drops an entry:
`gotSet` of any box, `installDone` with or without an archive result, and
the featured loader.

Abstractions:
- Sets, stickers and boxes are model values.
- A pack is a set of documents. Each set has distinct documents, so the
  code's `indexOf`/`removeAt` on packs is set difference. The custom
  bucket is filled outside this excerpt; the model assumes it holds each
  sticker once, since `removeAt` (line 387) removes only the first copy.
- Emoji map, title, thumbnail, hash and install date are omitted. They
  travel with the pack and flags, and no property reads them.
- `f_featured` and `f_unread` stand for all client-only flags.
- The server is not a process. A reply's flags are chosen when the reply is
  delivered, among {}, {installed} and {installed, archived}. This is
  justified because other devices of the account change the server at any
  time.
- The masks guard and the second press while a request is in flight change
  no state, so they appear as guards of `AddStickers`.

## 3b. The grid modules

**StickerGeometry** has no variables. Its CONSTANTS are the pixel sizes of
the style sheet (`stickersPadding`, `stickersSize`), `kStickersPanelPerRow`
and the width of `Inner`. Its operators are the arithmetic the code repeats:
- `RowsCount` (lines 322, 523, 571);
- the cell position of an element (`startOverAnimation`, `paintEvent`),
  mirrored in RTL as `paintSticker` mirrors the hover rectangle (`CellLeft`);
- `StickerFromPos`, which is `stickerFromGlobalPos` on a point already
  mapped to `Inner`.

**StickerGrid** models a loaded grid in its scroll area. Its variables are:
- `count`, the pack size after `gotSet`;
- `visibleTop`, the scroll position;
- `setUp`, the elements whose animation exists;
- `ready`, the animations with a frame;
- `paused`, the animations paused in the player.

Its actions:
- `Scroll(top)` is `visibleTopBottomUpdated(top, top + ViewHeight)`. It uses
  the two bands `PausedAbove` and `PausedBelow` exactly as the code computes
  them (integer division, `std::min`, the two guards).
- `Paint(top, bottom)` is `paintEvent` for a dirty rectangle inside the
  viewport. It visits rows `top / h` to `bottom / h`, and each visited
  sticker goes through `paintSticker`: `setupLottie` if it has no animation
  (`SetupLottie`), and an unpause if its animation is ready (`PaintSticker`).
- `FrameReady(i)` stands for the external Lottie player rendering a first
  frame.

**StickerPreview** models the gesture on a loaded grid. The pointer is a
pixel of `Inner`, or `Outside` while a button is held (the mouse is
grabbed). So hit testing runs the real arithmetic, in both layout
directions.
- `Press(btn)`, `Move`, `Leave`, `TimerFires` (`showPreview`) and
  `Release(btn)` are the five handlers. Neither mouse handler checks
  `e->button()`, so `pressed` is the set of buttons held (`Buttons`, model
  values). A press re-arms the timer (`callOnce` restarts it) whatever
  else is held.
- The postponed `onSendSticker` call runs as soon as `mouseReleaseEvent`
  returns, before any other input, so it is part of `Release`.
  `onSendSticker` may refuse. When it accepts, `hideSettingsAndLayer`
  closes the box (`open`).
- `held` and `clicked` are history variables for the properties: the timer
  fired since the first button of this gesture went down, and a release
  sent a sticker since the last press.

## 4. Runs

| Run | cfg | Result | Shows |
|---|---|---|---|
| box_registry | MCStickerSetBox.cfg | pass, 1.3M states | the registry refines `StickerRegistry`; the registry and install properties for 2 boxes × 2 sets (one official) × all initial registries (216 initial states) |
| masks | MCStickerSetBox_Masks.cfg | pass | a masks set never enters the stickers order |
| box_protocol | MCStickerSetBox_Live.cfg | pass | after Add the box always goes away (liveness); every behaviour refines `StickerSetBoxProtocol` |
| archived_stale | MCStickerSetBox_Orders.cfg | **violation** | `OrdersDisjoint`: an installed set stays in the archived order |
| client_flags_lost | MCStickerSetBox_ClientFlags.cfg | **violation** | `ClientFlagsSurvive`: install drops client flags set after the fetch |
| empty_pack_clears | MCStickerSetBox_EmptyPack.cfg | **violation** | `InstalledSetsKeepStickers`: a reply with no sticker documents empties an installed set |
| grid_pausing | MCStickerGrid.cfg | pass, 12K states | after every scroll, the animations of exactly the rows wholly outside the viewport are paused (`ScrollPausesOffscreen`, `PauseOnlyOffscreen`) |
| paint_skips_top_row | MCStickerGrid_Paint.cfg | **violation** | `PaintUnpausesDirtyCells`: a dirty rectangle starting in a row's last padding-top pixels does not paint that row |
| preview_gesture | MCStickerPreview.cfg | pass, 6.2K states | with two buttons (symmetric), pressed and released in any order against the preview timer: no preview is left once all buttons are up (`PreviewOnlyWhileHeld`) |
| preview_chord | MCStickerPreview_Chord.cfg | **violation** | `NoSendAfterHold` with two buttons: a second button pressed during a preview makes the last release send it |
| rtl_hit_edge | MCStickerPreview_Rtl.cfg | **violation** | `HitMatchesLayout`: in RTL the hit test is one pixel off the painted cells |

Bounds:
- Two boxes make every cross-box interleaving possible: two boxes for the same
  set, and one box's archive result hitting the other box.
- Two sets are the smallest number where an archive result can archive
  another set.
- The initial registry ranges over every consistent registry: each set
  unknown, known, installed or archived; every order of the installed sets;
  the custom bucket absent or holding any subset of the stickers.
- `MaxInFlight = 2` is reached only if the in-flight guard is missing.
- The boxes are symmetric and so is the checking (`BoxSymmetry`), except
  in the liveness run. That run has no symmetry and uses one set shared by
  both boxes.

Bounds of the grid modules:
- The geometry is scaled down and keeps the style sheet's relations:
  - the padding is smaller than a cell;
  - the viewport is taller than a cell;
  - `Inner` is wider than the grid.
- Two stickers to a row instead of five. The row arithmetic does not
  depend on it.
- Up to six stickers (three rows) in StickerGrid. Every scroll position
  from 0 to the bottom is taken, so each band branch, each row boundary
  and the `std::min` cap are reached.
- Up to three stickers (two rows, one partial) in StickerPreview. Every
  pixel of `Inner` is a pointer position. Two buttons are enough for every
  chord: a third only adds presses that behave like the second.
- `masks` and `rtl` range over both values in the initial states.
- Under these bounds the bands cannot lie wholly in the padding. In the
  real box the viewport is several rows tall, so that edge (no rows
  paused when the viewport is past the last row) is not reachable there
  either.

Fairness:
- Replies are weakly fair while the sender lives. The transport answers or
  fails each request; timeouts are its responsibility (spec §5).
- A hidden box is eventually destroyed.
- The user's presses are not fair.
- Deadlock checking is off: the program really stops once every box is
  closed.
- The grid and gesture runs assume no fairness: every step there is the
  user's or the external player's. Their properties are safety properties.
  Deadlock checking is off in them too, because a sent sticker closes the
  box.

Every property of a passing run has a mutant in PROJECT.json. The mutant is
a plausible bug in the mapped code, and TLC finds it under that run's cfg.

## 5. Findings

1. **Stale `wasArchived` (code bug, line 343).** Whether the set leaves the
   archived order is decided by the box's fetched flags, not by the registry.
   The shortest trace:
   - the registry has the set archived;
   - the fetch says "not installed";
   - Add, then the install reply.

   The set is now first in the installed order and still in the archived
   order. The same happens when another box's archive result archives the
   set after this box fetched it.
2. **Client flags dropped on install (divergence, line 368).**
   `it->flags = _setFlags` writes back the flags merged at fetch time.
   Featured/unread flags set since then are lost.

3. **Empty pack written to the registry (spec gap, line 311).** `gotSet`
   overwrites a known entry's stickers and flags before it notices that the
   pack is empty (line 318) and shows "not found". A set in the installed
   order is left with no stickers. The spec only says that the box reports
   "not found".

4. **paintEvent ignores the top padding (code bug, line 525).** Rows are
   drawn at `padding.top() + row * h`, but the first row painted is
   `rect.top() / h`. Take a dirty rectangle whose top lies in the last
   `padding.top()` pixels of a row, as a scroll exposure can produce. That
   row is not painted: the visible strip stays empty, and an animation
   paused there stays paused. TLC's trace is a single paint of such a
   rectangle. The last row visited can also lie wholly below the
   rectangle, which sets up and unpauses an animation nobody sees.
5. **RTL hit test one pixel off (code bug, line 505).** `stickerFromGlobalPos`
   mirrors `x` as `width() - x`. `paintSticker` draws cell `c` over
   `[width() - left - w, width() - left)`, so the pixel mirror is
   `width() - 1 - x`. In RTL, the leftmost pixel column of a cell
   highlights, previews and sends the neighbouring sticker, or none. TLC
   finds this in an initial state: `gotSet`'s `updateSelected` with the
   cursor on that column.

6. **A chord turns a preview into a send (code bug, line 408).**
   `mousePressEvent` and `mouseReleaseEvent` run for every button. TLC's
   trace: the left button held until the preview shows; the right button
   pressed, which re-arms `_previewTimer`; the left released, which drops
   the preview and returns without cancelling the timer; the right
   released, which finds the timer pending and sends the previewed sticker,
   closing the box. With one button the same long press only previews:
   the chord cfg with `Buttons = {LeftButton}` finds no violation (2,578
   states), in both orders of timer and release.

## 6. Not modelled

- Painting: pixels, frame sizes, the hover fade and `markFrameShown` are
  drawing only. Which rows are painted, `setupLottie` and the unpause are
  modelled. The Lottie player is external, and `FrameReady` stands for it.
  Animated frames are drawn with `drawImage` at the unmirrored position
  even in RTL (line 643). This is not modelled, because no property is
  about where frames are drawn.
- Share link: building the URL and the clipboard write are I/O. The box
  closing that its InformBox causes is modelled as `Share`.
- `BackgroundPreviewBox` and `Data::Feed`: declarations only.
- `api().stickerSetInstalled`: it only fires an event for other widgets.
- The server's own state: a reply's content is chosen on delivery.
  `Destroy` drops the replies of a box's outstanding requests, as spec §5
  intends; an install the server applied before its reply was dropped is
  not checked against the registry. The later resynchronisation by
  `updateStickers` is not in the excerpt.
- Buttons of other boxes made stale by `gotSet` (line 309, which writes the
  registry without notifying): only the user sees them, and neither the
  spec nor the code says `gotSet` must notify, so no property is about
  them.
- `startOverAnimation`'s fade and the cursor shape set by `setSelected`:
  animation and cursor only. The selection itself is modelled.
