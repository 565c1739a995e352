-------------------------- MODULE MCThreadedFleet --------------------------
(* ThreadedFleet on a small instance; the bounds are in the .cfg files. *)
EXTENDS ThreadedFleet
=============================================================================
