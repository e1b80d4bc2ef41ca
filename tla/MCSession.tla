----------------------------- MODULE MCSession -----------------------------
(***************************************************************************)
(* Instances of Session for TLC.                                            *)
(***************************************************************************)
EXTENDS Session

CONSTANTS p1, pBad, pLong, i1, i2
=============================================================================
