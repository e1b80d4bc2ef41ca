------------------------------ MODULE MCBcurl ------------------------------
(***************************************************************************)
(* Bcurl for TLC.                                                           *)
(***************************************************************************)
EXTENDS Bcurl

CONSTANTS p1, pBad, pLong, i1
=============================================================================
