------------------------------- MODULE MCFleet -------------------------------
(* Fleet on a small instance: the drivers are model values. *)
EXTENDS Fleet
=============================================================================
