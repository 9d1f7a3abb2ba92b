--------------------------- MODULE StickerRegistry ---------------------------
(***************************************************************************)
(* What the session sticker registry promises about its server sets, as   *)
(* seen through all of its writers in this excerpt: the ids with an       *)
(* entry, the installed order and the archived order.  Entries are never  *)
(* dropped.  The orders change only by an install: the set goes first,    *)
(* the others keep their relative order, the sets the server archived to  *)
(* make room leave the installed order and the new ones among them are    *)
(* put in front of the archived order.  Whether the installed set leaves  *)
(* the archived order is left open here: the code decides it from the     *)
(* box's snapshot (see OrdersDisjoint in StickerSetBox).                  *)
(***************************************************************************)
EXTENDS Sequences, SequencesExt, FiniteSets

CONSTANT Sets

VARIABLES
    known,          \* ids with a registry entry
    order,          \* stickerSetsOrder
    archivedOrder   \* archivedStickerSetsOrder

regVars == <<known, order, archivedOrder>>

\* A sequence of distinct ids of S.
OrderOver(S) == UNION {SetToSeqs(T) : T \in SUBSET S}

RegistryInit ==
    /\ known \in SUBSET Sets
    /\ order \in OrderOver(known)
    /\ archivedOrder \in OrderOver(known \ ToSet(order))

\* A set gets an entry without entering an order (featured sets, archive
\* results of unknown sets).
Learn(s) ==
    /\ s \notin known
    /\ known' = known \cup {s}
    /\ UNCHANGED <<order, archivedOrder>>

\* An install of s with the server archiving the other sets in a.
Install(s, a) ==
    /\ known' = known \cup {s} \cup a
    /\ order' = <<s>> \o SelectSeq(order, LAMBDA x : x # s /\ x \notin a)
    /\ \E base \in {archivedOrder, RemoveFirst(archivedOrder, s)} :
         \E front \in SetToSeqs(a \ ToSet(base)) :
            archivedOrder' = front \o base

RegistryNext ==
    \/ \E s \in Sets : Learn(s)
    \/ \E s \in Sets, a \in SUBSET Sets : s \notin a /\ Install(s, a)

RegistrySpec == RegistryInit /\ [][RegistryNext]_regVars
=============================================================================
