-------------------------- MODULE MCThreadedDriver --------------------------
(* ThreadedDriver on a small instance; the bounds are in the .cfg files. *)
EXTENDS ThreadedDriver
=============================================================================
