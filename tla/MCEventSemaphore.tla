-------------------------- MODULE MCEventSemaphore --------------------------
(* Small instances of EventSemaphore for TLC.                              *)
EXTENDS EventSemaphore

CONSTANTS p1, p2, p3, p4, p5

Two == {p1, p2}
Three == {p1, p2, p3}
Five == {p1, p2, p3, p4, p5}

Nobody == {}
FirstOnly == {p1}
=============================================================================
