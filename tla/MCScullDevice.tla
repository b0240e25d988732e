--------------------------- MODULE MCScullDevice ---------------------------
(* Small instances of ScullDevice for TLC.                                 *)
EXTENDS ScullDevice, TLC

CONSTANTS p1, p2, zero, a

Two == {p1, p2}
Bytes == {zero, a}
OneOrTwo == {1, 2}

(* The processes are alike in DevSpec and in its safety properties.       *)
Swaps == Permutations(Two)
=============================================================================
