------------------------------ MODULE MCScopeSync ------------------------------
(***************************************************************************)
(* Small instances of ScopeSync for TLC.                                   *)
(***************************************************************************)
EXTENDS ScopeSync, TLC

CONSTANTS s1, s2, o1, o2

Symmetry == Permutations(Objects)
================================================================================
