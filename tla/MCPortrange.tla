------------------------------ MODULE MCPortrange ------------------------------
(* Portrange on a range of seven ports, whose minimum has to be raised to 1. *)
EXTENDS Portrange
=============================================================================
