--------------------------- MODULE MCStickerPreview ---------------------------
(***************************************************************************)
(* StickerPreview scaled down for TLC: two stickers to a row, up to three  *)
(* stickers, cells 2 x 2 pixels with one pixel of padding, an Inner one    *)
(* pixel wider than the grid, so that every cell edge and the area beside  *)
(* the grid are points of the model.  The buttons are model values; no     *)
(* handler tells them apart, so they are symmetric.                        *)
(***************************************************************************)
EXTENDS StickerPreview, TLC

ButtonSymmetry == Permutations(Buttons)
====
