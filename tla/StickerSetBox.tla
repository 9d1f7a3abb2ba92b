--------------------------- MODULE StickerSetBox ---------------------------
(***************************************************************************)
(* StickerSetBox (boxes/sticker_set_box.cpp): the dialog that fetches a    *)
(* sticker set, offers "Add", installs it and reconciles the session-wide *)
(* sticker registry (Data::Session stickerSets / stickerSetsOrder /        *)
(* archivedStickerSetsOrder) with the server's answers.                    *)
(*                                                                         *)
(* Several boxes may be open at once (StickerSetBox::Show uses            *)
(* LayerOption::KeepOther); every box has its own MTP::Sender whose        *)
(* replies arrive in any order on the one UI thread.  Each handler runs   *)
(* to completion, so each is one atomic action.  The server is not a      *)
(* process of the model: what a reply carries is chosen when it is         *)
(* delivered, because other devices of the account change the server's    *)
(* state at any time.                                                      *)
(*                                                                         *)
(* Data abstraction: a set is a model value, a sticker document a model   *)
(* value, a pack the set of its documents (a set's documents are          *)
(* distinct, so Qt's indexOf/removeAt on a pack is set difference).  The  *)
(* emoji map, thumbnail, title, hash and install date travel with the      *)
(* pack and flags and are left out.  Client-only flags are represented by *)
(* f_featured and f_unread (f_not_loaded and f_special behave alike).     *)
(***************************************************************************)
EXTENDS Integers, FiniteSets, Sequences, SequencesExt, Functions, TLC

CONSTANTS
    Sets,          \* server sticker set ids
    CustomSetId,   \* Stickers::CustomSetId, the local "custom" bucket
    Stickers,      \* sticker documents
    Boxes,         \* StickerSetBox instances the user may open
    SetStickers,   \* [Sets -> SUBSET Stickers]: the documents of each set
    MasksSets,     \* sets whose flags carry f_masks
    OfficialSets,  \* sets with an empty short name
    MaxInFlight    \* bound on install requests one box may have outstanding

ASSUME CustomSetId \notin Sets
ASSUME SetStickers \in [Sets -> SUBSET Stickers \ {{}}]
ASSUME MasksSets \subseteq Sets /\ OfficialSets \subseteq Sets
ASSUME MaxInFlight \in Nat \ {0}

VARIABLES
    data,            \* the session's sticker registry:
                     \*   [sets: id -> entry, order: Seq, archivedOrder: Seq]
    stored,          \* orders last written by Local::write*Stickers
    input,           \* the set each box was constructed for (_input/_setId)
    status,          \* box lifecycle: unopened, open, closing, gone
    loaded,          \* Inner::_loaded
    pack,            \* Inner::_pack
    setFlags,        \* Inner::_setFlags (server flags plus merged client flags)
    installRequest,  \* Inner::_installRequest # 0
    fetchPending,    \* the GetStickerSet reply is outstanding
    installPending,  \* InstallStickerSet replies outstanding
    buttons          \* the buttons updateButtons() last laid out

vars == <<data, stored, input, status, loaded, pack, setFlags,
          installRequest, fetchPending, installPending, buttons>>

boxVars == <<input, loaded, pack, setFlags, installRequest>>

ServerFlags == {"installed", "archived"}   \* f_installed_date, f_archived
ClientFlags == {"featured", "unread"}      \* MTPDstickerSet_ClientFlag
Flags == ServerFlags \cup ClientFlags

\* The server-owned flags a messages.stickerSet reply may carry.
ServerFlagChoices == {{}, {"installed"}, {"installed", "archived"}}

Entry == [flags: SUBSET Flags, stickers: SUBSET Stickers]

\* The four layouts StickerSetBox::updateButtons() produces.
AddLayout     == {"add", "cancel"}
DoneLayout    == {"done"}
ShareLayout   == {"share", "cancel"}
LoadingLayout == {"cancel"}
Layouts == {AddLayout, DoneLayout, ShareLayout, LoadingLayout}

Live == {"open", "closing"}   \* constructed and not yet destroyed

-----------------------------------------------------------------------------
(* Queries of Inner used to lay out the buttons.                          *)

\* Inner::notInstalled(): loaded, and the registry lacks the set, or it is
\* not installed, or it is archived; and the pack is not empty.
NotInstalled(isLoaded, pk, s, sets) ==
    /\ isLoaded
    /\ \/ s \notin DOMAIN sets
       \/ "installed" \notin sets[s].flags
       \/ "archived" \in sets[s].flags
    /\ pk # {}

\* Mutant: the final else of updateButtons dropped (no button while loading).
ButtonsForNoElse(isLoaded, pk, s, sets) ==
    IF isLoaded /\ pk # {}
    THEN IF NotInstalled(isLoaded, pk, s, sets) THEN AddLayout
         ELSE IF s \in OfficialSets THEN DoneLayout
         ELSE ShareLayout
    ELSE {}

\* StickerSetBox::updateButtons() with Inner::loaded() and official().
ButtonsFor(isLoaded, pk, s, sets) ==
    IF isLoaded /\ pk # {}
    THEN IF NotInstalled(isLoaded, pk, s, sets) THEN AddLayout
         ELSE IF s \in OfficialSets THEN DoneLayout
         ELSE ShareLayout
    ELSE LoadingLayout

\* Session::notifyStickersUpdated(): every box subscribed in prepare()
\* lays its buttons out again against the new registry.
Relayout(sets) ==
    buttons' = [x \in Boxes |->
                  IF status[x] \in Live
                  THEN ButtonsFor(loaded[x], pack[x], input[x], sets)
                  ELSE buttons[x]]

\* Ui::show(Box<InformBox>(...)) with the default LayerOption::CloseOther:
\* every open box of the layer starts closing.
CloseOthers ==
    status' = [x \in Boxes |-> IF status[x] = "open" THEN "closing"
                                                   ELSE status[x]]

-----------------------------------------------------------------------------
(* Registry updates.                                                       *)

\* gotSet, lines 285-315: a known set takes the fetched flags, keeping its
\* client-only flags, and the fetched pack.  An unknown set is not added.
MergeFetched(sets, s, serverFlags, docs) ==
    IF s \in DOMAIN sets
    THEN [sets EXCEPT ![s] = [flags    |-> serverFlags \cup
                                           (sets[s].flags \cap ClientFlags),
                              stickers |-> docs]]
    ELSE sets

\* The flags gotSet leaves in _setFlags.
FetchedFlags(sets, s, serverFlags) ==
    serverFlags \cup (IF s \in DOMAIN sets
                      THEN sets[s].flags \cap ClientFlags ELSE {})

\* Mutant: only an entry already known is updated; none is constructed.
UpsertInstalledUpdateOnly(sets, s, flags, pk) ==
    IF s \in DOMAIN sets
    THEN [sets EXCEPT ![s] = [flags |-> flags, stickers |-> pk]]
    ELSE sets

\* installDone, lines 353-372: construct the entry if absent, else take the
\* box's flags; either way it gets the box's pack.
UpsertInstalled(sets, s, flags, pk) ==
    IF s \in DOMAIN sets
    THEN [sets EXCEPT ![s] = [flags |-> flags, stickers |-> pk]]
    ELSE (s :> [flags |-> flags, stickers |-> pk]) @@ sets

\* Mutant: off by one, a set found second is not removed before insertion.
MoveToFrontOffByOne(order, s) ==
    LET currentIndex == SelectInSeq(order, LAMBDA x : x = s)
    IN  IF currentIndex # 1
        THEN <<s>> \o (IF currentIndex > 2 THEN RemoveAt(order, currentIndex)
                                           ELSE order)
        ELSE order

\* Mutant: only a set already listed is moved; an unlisted one is not added.
MoveToFrontListedOnly(order, s) ==
    LET currentIndex == SelectInSeq(order, LAMBDA x : x = s)
    IN  IF currentIndex > 1 THEN <<s>> \o RemoveAt(order, currentIndex)
                            ELSE order

\* installDone, lines 374-381 (indices 1-based here): unless the set is
\* already first, remove it where it is and insert it first.
MoveToFront(order, s) ==
    LET currentIndex == SelectInSeq(order, LAMBDA x : x = s)
    IN  IF currentIndex # 1
        THEN <<s>> \o (IF currentIndex > 1 THEN RemoveAt(order, currentIndex)
                                           ELSE order)
        ELSE order

\* Mutant: the emptied bucket is not erased.
CustomCleanupNoErase(sets, pk) ==
    IF CustomSetId \in DOMAIN sets
    THEN [sets EXCEPT ![CustomSetId].stickers = @ \ pk]
    ELSE sets

\* installDone, lines 383-392: the installed stickers leave the custom
\* bucket, which is erased once empty.
CustomCleanup(sets, pk) ==
    IF CustomSetId \in DOMAIN sets
    THEN IF sets[CustomSetId].stickers \ pk = {}
         THEN Restrict(sets, DOMAIN sets \ {CustomSetId})
         ELSE [sets EXCEPT ![CustomSetId].stickers = @ \ pk]
    ELSE sets

\* Mutant: the archived order is not written even when it changed.
SavedOrdersInstalledOnly(wasArchived, d) ==
    [order |-> d.order, archivedOrder |-> stored.archivedOrder]

\* installDone, lines 396-400: the installed order is always written, the
\* archived order only when the set was archived.
SavedOrders(wasArchived, d) ==
    [order |-> d.order,
     archivedOrder |-> IF wasArchived THEN d.archivedOrder
                                      ELSE stored.archivedOrder]

\* Stickers::ApplyArchivedResult (chat_helpers/stickers.cpp, not in this
\* excerpt): each set the server archived to make room is fed into the
\* registry with f_archived, leaves the installed order and joins the
\* archived order; both orders are written.
ArchivedEntry(sets, s) ==
    IF s \in DOMAIN sets
    THEN [sets[s] EXCEPT !.flags = @ \cup ServerFlags]
    ELSE [flags |-> ServerFlags, stickers |-> {}]

ApplyArchivedResult(d, archived) ==
    [sets          |-> [s \in DOMAIN d.sets \cup archived |->
                          IF s \in archived THEN ArchivedEntry(d.sets, s)
                                            ELSE d.sets[s]],
     order         |-> SelectSeq(d.order, LAMBDA x : x \notin archived),
     archivedOrder |-> SetToSeq(archived \ ToSet(d.archivedOrder))
                          \o d.archivedOrder]

-----------------------------------------------------------------------------
(* Initial states: no box constructed yet; any registry the session can    *)
(* hold: each set unknown, known, installed or installed and archived,    *)
(* the two orders listing exactly the installed and the archived sets     *)
(* (masks sets live in the masks order, not here), the custom bucket      *)
(* absent or holding some stickers.                                        *)

InitialEntries ==
    UNION { [known -> {[flags |-> f, stickers |-> SetStickers[s]] :
                         f \in ServerFlagChoices, s \in Sets}] :
            known \in SUBSET Sets }

ConsistentData(sets) ==
    \A s \in DOMAIN sets :
        /\ sets[s].stickers = SetStickers[s]
        /\ s \in MasksSets => sets[s].flags = {}

Init ==
    /\ \E sets \in InitialEntries, custom \in SUBSET Stickers :
         /\ ConsistentData(sets)
         /\ LET registry == IF custom = {} THEN sets
                            ELSE (CustomSetId :> [flags |-> {}, stickers |-> custom])
                                   @@ sets
                installed == {s \in DOMAIN sets : sets[s].flags = {"installed"}}
                archived  == {s \in DOMAIN sets : "archived" \in sets[s].flags}
            IN  \E order \in SetToSeqs(installed), arch \in SetToSeqs(archived) :
                  data = [sets |-> registry, order |-> order,
                          archivedOrder |-> arch]
    /\ stored = [order |-> data.order, archivedOrder |-> data.archivedOrder]
    /\ input \in [Boxes -> Sets]
    /\ status = [b \in Boxes |-> "unopened"]
    /\ loaded = [b \in Boxes |-> FALSE]
    /\ pack = [b \in Boxes |-> {}]
    /\ setFlags = [b \in Boxes |-> {}]
    /\ installRequest = [b \in Boxes |-> FALSE]
    /\ fetchPending = [b \in Boxes |-> FALSE]
    /\ installPending = [b \in Boxes |-> 0]
    /\ buttons = [b \in Boxes |-> LoadingLayout]

-----------------------------------------------------------------------------
(* Actions of a box.                                                       *)

\* The box is shown: Inner's constructor sends GetStickerSet; prepare()
\* lays out the "loading" buttons (already the initial layout).
Open(b) ==
    /\ status[b] = "unopened"
    /\ status' = [status EXCEPT ![b] = "open"]
    /\ fetchPending' = [fetchPending EXCEPT ![b] = TRUE]
    /\ UNCHANGED <<data, stored, boxVars, installPending, buttons>>

\* Inner::gotSet with a non-empty pack: merge into the registry, become
\* loaded and lay out the buttons (updateControls -> updateTitleAndButtons).
\* The registry write does not notify other boxes.
GotSet(b) ==
    /\ status[b] \in Live
    /\ fetchPending[b]
    /\ \E serverFlags \in ServerFlagChoices :
         LET s    == input[b]
             docs == SetStickers[s]
             sets == MergeFetched(data.sets, s, serverFlags, docs)
         IN  /\ data' = [data EXCEPT !.sets = sets]
             /\ setFlags' = [setFlags EXCEPT ![b] = FetchedFlags(data.sets, s, serverFlags)]
             /\ pack' = [pack EXCEPT ![b] = docs]
             /\ loaded' = [loaded EXCEPT ![b] = TRUE]
             /\ buttons' = [buttons EXCEPT ![b] = ButtonsFor(TRUE, docs, s, sets)]
    /\ fetchPending' = [fetchPending EXCEPT ![b] = FALSE]
    /\ UNCHANGED <<stored, input, status, installRequest, installPending>>

\* Inner::gotSet when no document of the reply is a sticker: the registry
\* entry is still overwritten (line 311) before the empty pack is noticed
\* (line 318); "not found" is shown and _loaded stays false.
GotSetEmpty(b) ==
    /\ status[b] \in Live
    /\ fetchPending[b]
    /\ \E serverFlags \in ServerFlagChoices :
         /\ data' = [data EXCEPT !.sets = MergeFetched(@, input[b], serverFlags, {})]
         /\ setFlags' = [setFlags EXCEPT ![b] = FetchedFlags(data.sets, input[b], serverFlags)]
    /\ pack' = [pack EXCEPT ![b] = {}]
    /\ fetchPending' = [fetchPending EXCEPT ![b] = FALSE]
    /\ CloseOthers
    /\ UNCHANGED <<stored, input, loaded, installRequest, installPending, buttons>>

\* The fail handler of GetStickerSet: _loaded = true, "not found" shown.
FetchFailed(b) ==
    /\ status[b] \in Live
    /\ fetchPending[b]
    /\ loaded' = [loaded EXCEPT ![b] = TRUE]
    /\ fetchPending' = [fetchPending EXCEPT ![b] = FALSE]
    /\ CloseOthers
    /\ UNCHANGED <<data, stored, input, pack, setFlags, installRequest,
                   installPending, buttons>>

\* Mutant: a second press is not refused while a request is outstanding.
AddStickersNoGuard(b) ==
    /\ status[b] = "open"
    /\ buttons[b] = AddLayout
    /\ input[b] \notin MasksSets
    /\ installPending[b] < MaxInFlight
    /\ installRequest' = [installRequest EXCEPT ![b] = TRUE]
    /\ installPending' = [installPending EXCEPT ![b] = @ + 1]
    /\ UNCHANGED <<data, stored, input, status, loaded, pack, setFlags,
                   fetchPending, buttons>>

\* Mutant: masks sets are not refused.
AddStickersNoMasksCheck(b) ==
    /\ status[b] = "open"
    /\ buttons[b] = AddLayout
    /\ ~installRequest[b]
    /\ installPending[b] < MaxInFlight
    /\ installRequest' = [installRequest EXCEPT ![b] = TRUE]
    /\ installPending' = [installPending EXCEPT ![b] = @ + 1]
    /\ UNCHANGED <<data, stored, input, status, loaded, pack, setFlags,
                   fetchPending, buttons>>

\* Mutant: "Add" reachable whatever the layout, e.g. before the set loaded.
AddStickersAnyLayout(b) ==
    /\ status[b] = "open"
    /\ input[b] \notin MasksSets
    /\ ~installRequest[b]
    /\ installPending[b] < MaxInFlight
    /\ installRequest' = [installRequest EXCEPT ![b] = TRUE]
    /\ installPending' = [installPending EXCEPT ![b] = @ + 1]
    /\ UNCHANGED <<data, stored, input, status, loaded, pack, setFlags,
                   fetchPending, buttons>>

\* "Add" pressed: StickerSetBox::addStickers -> Inner::install().  A masks
\* set only gets an informational box (KeepOther) and a second press while
\* _installRequest is set returns at once: neither changes any state.
AddStickers(b) ==
    /\ status[b] = "open"
    /\ buttons[b] = AddLayout
    /\ input[b] \notin MasksSets
    /\ ~installRequest[b]
    /\ installPending[b] < MaxInFlight
    /\ installRequest' = [installRequest EXCEPT ![b] = TRUE]
    /\ installPending' = [installPending EXCEPT ![b] = @ + 1]
    /\ UNCHANGED <<data, stored, input, status, loaded, pack, setFlags,
                   fetchPending, buttons>>

\* Inner::installDone: the registry is updated from the box's own pack and
\* _setFlags (lines 341-392); then either the archive result is applied or
\* the orders are written and the stickers-updated notification sent
\* (lines 394-402); _setInstalled makes the box close (line 173).
\* "archived" is the set of other sets the server archived to make room;
\* it is empty for messages.stickerSetInstallResultSuccess.
InstallDone(b) ==
    LET s           == input[b]
        wasArchived == "archived" \in setFlags[b]
        flags       == (setFlags[b] \ {"archived"}) \cup {"installed"}
        installed   ==
            [sets          |-> CustomCleanup(UpsertInstalled(data.sets, s, flags,
                                                             pack[b]),
                                             pack[b]),
             order         |-> MoveToFront(data.order, s),
             archivedOrder |-> IF wasArchived
                               THEN RemoveFirst(data.archivedOrder, s)
                               ELSE data.archivedOrder]
    IN
    /\ status[b] \in Live
    /\ installPending[b] > 0
    /\ \E archived \in SUBSET (Sets \ {s}) :
         IF archived = {}
         THEN /\ data' = installed
              /\ stored' = SavedOrders(wasArchived, installed)
         ELSE /\ data' = ApplyArchivedResult(installed, archived)
              /\ stored' = [order |-> data'.order,
                            archivedOrder |-> data'.archivedOrder]
    /\ setFlags' = [setFlags EXCEPT ![b] = flags]
    /\ installPending' = [installPending EXCEPT ![b] = @ - 1]
    /\ Relayout(data'.sets)
    /\ status' = [status EXCEPT ![b] = "closing"]
    /\ UNCHANGED <<input, loaded, pack, installRequest, fetchPending>>

\* Mutant: "not found" shown with LayerOption::KeepOther, the box stays.
InstallFailedKeepOther(b) ==
    /\ status[b] \in Live
    /\ installPending[b] > 0
    /\ installPending' = [installPending EXCEPT ![b] = @ - 1]
    /\ UNCHANGED <<data, stored, boxVars, status, fetchPending, buttons>>

\* The fail handler of InstallStickerSet: "not found" is shown.
\* _installRequest is not reset.
InstallFailed(b) ==
    /\ status[b] \in Live
    /\ installPending[b] > 0
    /\ installPending' = [installPending EXCEPT ![b] = @ - 1]
    /\ CloseOthers
    /\ UNCHANGED <<data, stored, boxVars, fetchPending, buttons>>

\* "Share" pressed: StickerSetBox::shareStickers copies the link (left
\* out) and shows an InformBox with the default LayerOption::CloseOther.
Share(b) ==
    /\ status[b] = "open"
    /\ buttons[b] = ShareLayout
    /\ CloseOthers
    /\ UNCHANGED <<data, stored, boxVars, fetchPending, installPending, buttons>>

\* "Cancel" or "Done" pressed: closeBox().
Cancel(b) ==
    /\ status[b] = "open"
    /\ status' = [status EXCEPT ![b] = "closing"]
    /\ UNCHANGED <<data, stored, boxVars, fetchPending, installPending, buttons>>

\* The hidden box is destroyed; ~Inner destroys its MTP::Sender, which
\* cancels the outstanding requests: their replies are never handled.
Destroy(b) ==
    /\ status[b] = "closing"
    /\ status' = [status EXCEPT ![b] = "gone"]
    /\ fetchPending' = [fetchPending EXCEPT ![b] = FALSE]
    /\ installPending' = [installPending EXCEPT ![b] = 0]
    /\ UNCHANGED <<data, stored, boxVars, buttons>>

-----------------------------------------------------------------------------
(* Another writer of the registry.  Inner's constructor calls              *)
(* api().updateStickers(), whose featured-sets reply marks sets f_featured *)
(* and f_unread (adding unknown ones) and notifies.                        *)

FeaturedSetsLoaded(s) ==
    LET sets == data.sets
    IN
    /\ ~(s \in DOMAIN sets /\ ClientFlags \subseteq sets[s].flags)
    /\ data' = [data EXCEPT !.sets =
                  IF s \in DOMAIN sets
                  THEN [sets EXCEPT ![s].flags = @ \cup ClientFlags]
                  ELSE (s :> [flags |-> ClientFlags, stickers |-> {}]) @@ sets]
    /\ Relayout(data'.sets)
    /\ UNCHANGED <<stored, boxVars, status, fetchPending, installPending>>

-----------------------------------------------------------------------------

Next ==
    \/ \E b \in Boxes :
         \/ Open(b)
         \/ GotSet(b)
         \/ GotSetEmpty(b)
         \/ FetchFailed(b)
         \/ AddStickers(b)
         \/ InstallDone(b)
         \/ InstallFailed(b)
         \/ Share(b)
         \/ Cancel(b)
         \/ Destroy(b)
    \/ \E s \in Sets : FeaturedSetsLoaded(s)

\* Replies are delivered while the sender lives and a hidden box is
\* eventually destroyed; the user's presses are not assumed to happen.
Fairness ==
    \A b \in Boxes :
        /\ WF_vars(GotSet(b) \/ GotSetEmpty(b) \/ FetchFailed(b))
        /\ WF_vars(InstallDone(b) \/ InstallFailed(b))
        /\ WF_vars(Destroy(b))

Spec == Init /\ [][Next]_vars /\ Fairness

-----------------------------------------------------------------------------
(* Properties.                                                             *)

TypeOK ==
    /\ DOMAIN data.sets \subseteq Sets \cup {CustomSetId}
    /\ \A s \in DOMAIN data.sets : data.sets[s] \in Entry
    /\ data.order \in Seq(Sets) /\ data.archivedOrder \in Seq(Sets)
    /\ stored \in [order: Seq(Sets), archivedOrder: Seq(Sets)]
    /\ input \in [Boxes -> Sets]
    /\ status \in [Boxes -> {"unopened", "open", "closing", "gone"}]
    /\ loaded \in [Boxes -> BOOLEAN]
    /\ pack \in [Boxes -> SUBSET Stickers]
    /\ setFlags \in [Boxes -> SUBSET Flags]
    /\ installRequest \in [Boxes -> BOOLEAN]
    /\ fetchPending \in [Boxes -> BOOLEAN]
    /\ installPending \in [Boxes -> 0..MaxInFlight]
    /\ buttons \in [Boxes -> Layouts]


\* Every id in the installed or the archived order has a registry entry
\* (installDone inserts the entry before ordering it; the custom bucket,
\* the only entry ever erased, is never ordered).
OrderIdsKnown ==
    ToSet(data.order) \cup ToSet(data.archivedOrder) \subseteq DOMAIN data.sets

\* No set is listed twice in either order, however often and from however
\* many boxes installDone runs for it (lines 374-381).
NoDuplicateIds ==
    IsInjective(data.order) /\ IsInjective(data.archivedOrder)

\* The custom bucket is never left in the registry empty: installDone erases
\* it when the installed pack takes its last sticker (lines 389-391).
CustomNeverEmpty ==
    CustomSetId \in DOMAIN data.sets => data.sets[CustomSetId].stickers # {}

\* A masks set never enters the stickers order: Inner::install() refuses
\* masks sets (lines 693-697) and installDone is the only writer of the
\* order's front.
MasksStayOutOfOrder ==
    ToSet(data.order) \cap MasksSets = {}

\* A box has at most one install request outstanding, however often "Add"
\* is pressed before the reply (the _installRequest check, line 698).
AtMostOneInstallRequest ==
    \A b \in Boxes : installPending[b] <= 1

\* The orders on disk are the orders in memory after every step: each
\* change of an order is written in the same handler (lines 397-400 and
\* ApplyArchivedResult), so a restart at any point reloads them.
PersistedOrdersCurrent ==
    stored = [order |-> data.order, archivedOrder |-> data.archivedOrder]

\* Once "Add" has sent a request, the box eventually goes away: success
\* closes it through _setInstalled, failure through the "not found" box,
\* and a hidden box is destroyed.
AddEventuallyDismisses ==
    \A b \in Boxes : installPending[b] > 0 ~> status[b] = "gone"

-----------------------------------------------------------------------------
(* Properties the code does not keep (see README, findings).              *)

\* Spec: installing a previously archived set removes it from the archived
\* order, so no set is both installed-ordered and archived-ordered.
OrdersDisjoint ==
    ToSet(data.order) \cap ToSet(data.archivedOrder) = {}

\* Spec: client-only flags (featured, unread, ...) of a registry entry
\* survive every update this box makes to it.
ClientFlagsSurvive ==
    [][\A s \in Sets :
          s \in DOMAIN data.sets /\ s \in DOMAIN data'.sets =>
            data.sets[s].flags \cap ClientFlags \subseteq data'.sets[s].flags
      ]_data

\* Spec (4.1): a fetch whose pack is empty is reported as "not found"; an
\* installed set listed in the order keeps a non-empty sticker list.
InstalledSetsKeepStickers ==
    \A s \in ToSet(data.order) : data.sets[s].stickers # {}

-----------------------------------------------------------------------------
(* Refinement of the per-box protocol.  A box is idle before it is shown, *)
(* shown once gotSet loaded a non-empty pack, loading before that; a       *)
(* hidden box is closing until destroyed.  Its request flag is            *)
(* _installRequest.                                                        *)

PhaseOf ==
    [b \in Boxes |->
        CASE status[b] = "unopened"            -> "idle"
          [] status[b] \in {"closing", "gone"} -> status[b]
          [] loaded[b] /\ pack[b] # {}         -> "shown"
          [] OTHER                             -> "loading"]

Protocol == INSTANCE StickerSetBoxProtocol
                WITH phase <- PhaseOf, requested <- installRequest

\* The registry seen without the custom bucket, flags and packs.
Registry == INSTANCE StickerRegistry
                WITH known <- DOMAIN data.sets \ {CustomSetId},
                     order <- data.order, archivedOrder <- data.archivedOrder

\* Every change the boxes, the archive results and the featured loader make
\* to the registry's orders is an install of one set as StickerRegistry
\* describes it, and no server set ever loses its entry.
RegistryRefined == Registry!RegistrySpec

\* Every behaviour of the boxes is one the protocol allows: an install is
\* requested at most once and only by a shown box, a closing box only gets
\* destroyed, and loads and sent installs always end (under the fairness
\* of reply delivery and destruction).
ProtocolRefined == Protocol!ProtocolSpec

====
