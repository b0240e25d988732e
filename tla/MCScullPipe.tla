---------------------------- MODULE MCScullPipe -----------------------------
(* Small instances of ScullPipe for TLC.                                   *)
EXTENDS ScullPipe

CONSTANTS p1, p2, a, b, junk

TwoProcs == {p1, p2}

Nobody == {}
First == {p1}

OneByte == {a}
TwoBytes == {a, b}

(* A size of 1 leaves no room at all, a size of 2 room for one byte.       *)
SmallSizes == {1, 2}
OneAndThree == {1, 3}

ReadOrWrite == {{"r"}, {"w"}}
=============================================================================
