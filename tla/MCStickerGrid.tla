---------------------------- MODULE MCStickerGrid ----------------------------
(***************************************************************************)
(* StickerGrid scaled down for TLC.  Two stickers to a row (the code has   *)
(* five; the row arithmetic does not depend on it) and up to six stickers  *)
(* give three rows.  Cells three pixels high, one pixel of padding above   *)
(* and below, a four-pixel viewport: as in the style sheet, the padding is *)
(* smaller than a cell and the viewport taller than one.                   *)
(***************************************************************************)
EXTENDS StickerGrid
====
