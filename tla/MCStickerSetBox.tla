------------------------- MODULE MCStickerSetBox -------------------------
(* Instantiates StickerSetBox for TLC.  MC: two ordinary sets (one of them *)
(* official), one sticker each, two boxes.  MCMasks adds a masks set.      *)
EXTENDS StickerSetBox

CONSTANTS s1, s2, s3, d1, d2, d3, b1, b2

MCSets == {s1, s2}
MCStickers == {d1, d2}
MCSetStickers == (s1 :> {d1}) @@ (s2 :> {d2})
MCOfficialSets == {s2}

MasksMCSets == {s1, s3}
MasksMCStickers == {d1, d3}
MasksMCSetStickers == (s1 :> {d1}) @@ (s3 :> {d3})
MasksMCMasksSets == {s3}

\* Liveness is checked without symmetry, on one set shared by both boxes.
LiveMCSets == {s1}
LiveMCStickers == {d1}
LiveMCSetStickers == s1 :> {d1}

MCBoxes == {b1, b2}
BoxSymmetry == Permutations(MCBoxes)

====
