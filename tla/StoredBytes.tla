---------------------------- MODULE StoredBytes ----------------------------
(***************************************************************************)
(* What the bare scull device promises, without quantums and sets: bytes   *)
(* at positions.  A read returns what was last written there and stays     *)
(* below the size; a write changes its own range; an open for writing      *)
(* only empties the device.                                                *)
(***************************************************************************)
EXTENDS Integers, Sequences

CONSTANTS Procs, Data, junk, MaxPos, MaxCount

VARIABLES content, length, fpos, got

storeVars == <<content, length, fpos, got>>

Places == 0..(MaxPos + MaxCount - 1)

StoreInit ==
    /\ content = [i \in Places |-> junk]
    /\ length = 0
    /\ fpos = [p \in Procs |-> 0]
    /\ got = [p \in Procs |-> <<>>]

(* A read returns the next n bytes below the size, perhaps none.           *)
StoreRead(p, n) ==
    /\ n > 0 => fpos[p] + n <= length
    /\ fpos' = [fpos EXCEPT ![p] = @ + n]
    /\ got' = [got EXCEPT ![p] = [i \in 1..n |-> content[fpos[p] + i - 1]]]
    /\ UNCHANGED <<length, content>>

StoreForget(p) ==
    /\ got' = [got EXCEPT ![p] = <<>>]
    /\ UNCHANGED <<length, fpos, content>>

Span(p, n) == fpos[p]..(fpos[p] + n - 1)

(* Data in the places s, the rest as it was.                               *)
Changed(s) ==
    LET old == content
        new == content'
    IN  \A i \in Places : IF i \in s THEN new[i] \in Data ELSE new[i] = old[i]

StoreWrite(p, n) ==
    /\ UNCHANGED got
    /\ fpos' = [fpos EXCEPT ![p] = @ + n]
    /\ length' = IF length < fpos'[p] THEN fpos'[p] ELSE length
    /\ Changed(Span(p, n))

(* A failed write may leave anything in its range, and adds no length.     *)
StoreTorn(p, n) ==
    /\ UNCHANGED <<length, fpos, got>>
    /\ Changed(Span(p, n))

StoreSeek(p) ==
    /\ \E i \in 0..MaxPos : fpos' = [fpos EXCEPT ![p] = i]
    /\ UNCHANGED <<length, got, content>>

StoreTrim ==
    /\ length' = 0
    /\ UNCHANGED <<got, fpos>>
    /\ content' = [i \in Places |-> junk]

StoreNext ==
    \/ StoreTrim
    \/ \E p \in Procs :
          \/ StoreForget(p) \/ StoreSeek(p)
          \/ \E n \in 0..MaxCount : StoreRead(p, n) \/ StoreWrite(p, n) \/ StoreTorn(p, n)

StoreSpec == StoreInit /\ [][StoreNext]_storeVars
=============================================================================
