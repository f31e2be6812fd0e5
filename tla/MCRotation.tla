------------------------------ MODULE MCRotation ------------------------------
(***************************************************************************)
(* Small instances of Rotation for TLC.                                    *)
(***************************************************************************)
EXTENDS Rotation

CONSTANTS i1, p1, p2
=============================================================================
