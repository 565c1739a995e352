--------------------------- MODULE MCGatedWindows ---------------------------
(* GatedWindows on a small instance; the bounds are in the .cfg file. *)
EXTENDS GatedWindows
=============================================================================
