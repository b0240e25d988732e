--------------------------- MODULE MCAtomicEvent ---------------------------
(* Small instances of AtomicEvent for TLC.                                 *)
EXTENDS AtomicEvent

CONSTANTS p1, p2, p3, p4

Two == {p1, p2}
Four == {p1, p2, p3, p4}

Nobody == {}
=============================================================================
