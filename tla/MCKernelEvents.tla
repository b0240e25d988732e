--------------------------- MODULE MCKernelEvents ---------------------------
(* Small instances of KernelEvents for TLC.                                *)
EXTENDS KernelEvents

CONSTANTS p1, p2, n1, n2, n3

Two == {p1, p2}
FirstOnly == {p1}

TwoNodes == {n1, n2}
ThreeNodes == {n1, n2, n3}

TwoNumbers == {2, 4}
ThreeNumbers == {2, 4, 6}
ZeroOrOne == {0, 1}
OneOnly == {1}

FrontOrMiddle == {"head", "middle"}
=============================================================================
