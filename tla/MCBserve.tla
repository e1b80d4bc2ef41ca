------------------------------ MODULE MCBserve ------------------------------
(***************************************************************************)
(* Bserve for TLC.                                                           *)
(***************************************************************************)
EXTENDS Bserve

CONSTANTS c1, c2, c3, g1, g2
=============================================================================
