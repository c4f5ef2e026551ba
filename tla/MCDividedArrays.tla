-------------------------- MODULE MCDividedArrays --------------------------
(* DividedArrays for TLC.                                                    *)
EXTENDS DividedArrays

MCValues == -1 .. 1

=============================================================================
