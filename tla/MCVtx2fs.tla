------------------------------ MODULE MCVtx2fs ------------------------------
(***************************************************************************)
(* The file system for TLC.  Names are only compared with each other, so   *)
(* exchanging them changes nothing.                                        *)
(***************************************************************************)
EXTENDS Vtx2fs, TLC

MCSymmetry == Permutations(Names)
=============================================================================
