-------------------------- MODULE MCSearchProjection --------------------------
(***************************************************************************)
(* Small instances of SearchProjection for TLC.                            *)
(***************************************************************************)
EXTENDS SearchProjection, TLC

CONSTANTS o1, o2, s1, s2, w1, w2, p1, p2

Symmetry == Permutations(Workers)
===============================================================================
