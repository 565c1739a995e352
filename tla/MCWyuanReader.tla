--------------------------- MODULE MCWyuanReader ---------------------------
(* WyuanReader on a small instance; the bounds are in the .cfg files. *)
EXTENDS WyuanReader
=============================================================================
