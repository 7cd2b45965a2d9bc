-------------------------------- MODULE MCAccess --------------------------------
(***************************************************************************)
(* Small instances of Access for TLC.                                      *)
(***************************************************************************)
EXTENDS Access, TLC

CONSTANTS r1, r2

Symmetry == Permutations({r1, r2})
===============================================================================
