--------------------------- MODULE MCScullAccess ----------------------------
(* Small instances of ScullAccess for TLC.                                 *)
EXTENDS ScullAccess, TLC

CONSTANTS p1, p2, p3, p4, root, a, b, tty1, tty2

Four == {p1, p2, p3, p4}
AllUsers == {root, a, b}
BothTtys == {tty1, tty2}

(* Two users, one of them twice, and one who did su.                       *)
Real == p1 :> a @@ p2 :> a @@ p3 :> b @@ p4 :> b
Effective == p1 :> a @@ p2 :> a @@ p3 :> b @@ p4 :> a
Terminals == p1 :> tty1 @@ p2 :> tty1 @@ p3 :> tty2 @@ p4 :> NoTty

Three == {p1, p2, p3}
=============================================================================
