----------------------------- MODULE ScullFlat ------------------------------
(***************************************************************************)
(* The flat scull device of experiment 7: sixteen bytes, no quanta.        *)
(* main.c has the bytes in the device (char data[16] in its scull.h);      *)
(* parta/main.c is the same text with a scull.h that says char *data,      *)
(* which nobody allocates.  The pointer stays NULL, so the first use of    *)
(* the data there ends the process ("oops") and leaves the semaphore down. *)
(*                                                                         *)
(* Every use of the data is under the device's semaphore, so a call is one *)
(* action, enabled when the semaphore is up; down_interruptible lets a     *)
(* signal end the wait.  Each process has a file of its own.               *)
(***************************************************************************)
EXTENDS Integers, Sequences

CONSTANTS
    Openers,        \* processes
    Bytes,          \* what they write
    SCULL_DATA_SIZE

ASSUME FlatAssumption == SCULL_DATA_SIZE \in Nat \ {0} /\ 0 \notin Bytes

VARIABLES
    memory,         \* "array" or "pointer"
    in_kernel, data, size, down,
    mode, f_pos,    \* each process's file
    got             \* what its last read gave, or the error

flatVars == <<memory, in_kernel, data, size, down, mode, f_pos, got>>
device == <<memory, in_kernel, data, size, down>>

Positions == 0..SCULL_DATA_SIZE
Zeros == [i \in 1..SCULL_DATA_SIZE |-> 0]

FlatInit ==
    /\ memory \in {"array", "pointer"}
    /\ in_kernel = FALSE /\ data = Zeros /\ size = 0 /\ down = FALSE
    /\ mode = [p \in Openers |-> "closed"]
    /\ f_pos = [p \in Openers |-> 0]
    /\ got = [p \in Openers |-> <<>>]

Least(a, b) == IF a < b THEN a ELSE b

scull_flat_init ==
    /\ ~in_kernel /\ mode = [p \in Openers |-> "closed"]
    /\ in_kernel' = TRUE /\ data' = Zeros /\ size' = 0 /\ down' = FALSE
    /\ UNCHANGED <<memory, mode, f_pos, got>>

(* The trim of the unload writes to the data as well.                      *)
scull_flat_cleanup ==
    /\ in_kernel /\ memory = "array" /\ \A p \in Openers : mode[p] \in {"closed", "oops"}
    /\ in_kernel' = FALSE /\ data' = Zeros /\ size' = 0
    /\ UNCHANGED <<memory, down, mode, f_pos, got>>

-----------------------------------------------------------------------------
(* main.c                                                                  *)

At(p) == in_kernel /\ mode[p] \notin {"closed", "oops"}
Returns(p, r) == got' = [got EXCEPT ![p] = r]

scull_flat_open(p, m) ==
    /\ in_kernel /\ mode[p] = "closed" /\ memory = "array"
    /\ m = "w" => ~down
    /\ mode' = [mode EXCEPT ![p] = m] /\ f_pos' = [f_pos EXCEPT ![p] = 0]
    /\ IF m = "w" THEN data' = Zeros /\ size' = 0 ELSE UNCHANGED <<data, size>>
    /\ UNCHANGED <<memory, in_kernel, down, got>>

(* An interrupted open leaves no file; an interrupted call changes nothing.*)
scull_flat_release(p) ==
    /\ At(p)
    /\ mode' = [mode EXCEPT ![p] = "closed"]
    /\ UNCHANGED <<device, f_pos, got>>

scull_flat_read(p, count) ==
    /\ At(p) /\ mode[p] # "w" /\ ~down /\ memory = "array"
    /\ LET n == Least(count, size - f_pos[p])
       IN IF f_pos[p] >= size THEN Returns(p, <<>>) /\ UNCHANGED f_pos
          ELSE \/ Returns(p, SubSeq(data, f_pos[p] + 1, f_pos[p] + n))
                  /\ f_pos' = [f_pos EXCEPT ![p] = @ + n]
               \/ Returns(p, <<"EFAULT">>) /\ UNCHANGED f_pos
    /\ UNCHANGED <<device, mode>>

(* data with n bytes b behind position at, and zeros for the rest of count *)
Stored(at, n, count, b) ==
    [i \in 1..SCULL_DATA_SIZE |->
        IF i \in at + 1..at + n THEN b ELSE IF i \in at + 1..at + count THEN 0 ELSE data[i]]

(* Mutant: the count is not cut at the end of the data.                    *)
scull_flat_write_long(p, count, b) ==
    /\ At(p) /\ mode[p] # "r" /\ ~down /\ memory = "array"
    /\ f_pos[p] < SCULL_DATA_SIZE
    /\ data' = Stored(f_pos[p], count, count, b)
    /\ f_pos' = [f_pos EXCEPT ![p] = @ + count] /\ size' = f_pos[p] + count
    /\ UNCHANGED <<memory, in_kernel, down, mode, got>>

(* The size becomes the end of this write, be it less than before.  When   *)
(* the copy fails the bytes that did not come are zeros.                   *)
scull_flat_write(p, count, b) ==
    /\ At(p) /\ mode[p] # "r" /\ ~down /\ memory = "array"
    /\ LET at == f_pos[p]
           n == Least(count, SCULL_DATA_SIZE - at)
       IN IF at >= SCULL_DATA_SIZE THEN UNCHANGED <<data, size, f_pos>>
          ELSE \/ /\ data' = Stored(at, n, n, b)
                  /\ f_pos' = [f_pos EXCEPT ![p] = at + n] /\ size' = at + n
               \/ \E k \in 0..n - 1 : data' = Stored(at, k, n, b) /\ UNCHANGED <<size, f_pos>>
    /\ UNCHANGED <<memory, in_kernel, down, mode, got>>

(* Bound: positions up to the end of the data.                             *)
scull_flat_llseek(p, off) ==
    /\ At(p)
    /\ \E newpos \in {off, f_pos[p] + off, size + off} \cap Positions :
           f_pos' = [f_pos EXCEPT ![p] = newpos]
    /\ UNCHANGED <<device, mode, got>>

-----------------------------------------------------------------------------
(* parta/main.c: data is NULL.                                             *)

Oops(p) ==
    /\ mode' = [mode EXCEPT ![p] = "oops"]
    /\ down' = TRUE
    /\ UNCHANGED <<memory, in_kernel, data, size, f_pos, got>>

(* An open for writing clears sixteen bytes at NULL.                       *)
parta_open(p, m) ==
    /\ in_kernel /\ mode[p] = "closed" /\ memory = "pointer"
    /\ IF m = "w" THEN ~down /\ Oops(p)
       ELSE /\ mode' = [mode EXCEPT ![p] = m] /\ f_pos' = [f_pos EXCEPT ![p] = 0]
            /\ UNCHANGED <<device, got>>

(* There is something to read after a write of no bytes behind a seek.     *)
parta_read(p) ==
    /\ At(p) /\ ~down /\ memory = "pointer"
    /\ Returns(p, IF f_pos[p] >= size THEN <<>> ELSE <<"EFAULT">>)
    /\ UNCHANGED <<device, mode, f_pos>>

(* copy_from_user finds no page at the address it copies to, and clears    *)
(* the bytes it could not copy.                                            *)
parta_write(p, count) ==
    /\ At(p) /\ mode[p] # "r" /\ ~down /\ memory = "pointer"
    /\ IF f_pos[p] >= SCULL_DATA_SIZE THEN UNCHANGED flatVars
       ELSE IF count = 0
       THEN size' = f_pos[p] /\ UNCHANGED <<memory, in_kernel, data, down, mode, f_pos, got>>
       ELSE Oops(p)

(* rmmod dies in the trim, with the devices still there.                   *)
parta_cleanup ==
    /\ in_kernel /\ memory = "pointer" /\ \A p \in Openers : mode[p] \in {"closed", "oops"}
    /\ in_kernel' = FALSE
    /\ UNCHANGED <<memory, data, size, down, mode, f_pos, got>>

FlatStep(p) ==
    \/ \E m \in {"r", "w", "rw"} : scull_flat_open(p, m) \/ parta_open(p, m)
    \/ scull_flat_release(p) \/ parta_read(p)
    \/ \E count \in Positions :
           scull_flat_read(p, count) \/ scull_flat_llseek(p, count) \/ parta_write(p, count)
    \/ \E count \in Positions, b \in Bytes : scull_flat_write(p, count, b)

FlatNext ==
    \/ scull_flat_init \/ scull_flat_cleanup \/ parta_cleanup
    \/ \E p \in Openers : FlatStep(p)

FlatSpec == FlatInit /\ [][FlatNext]_flatVars

-----------------------------------------------------------------------------
(* Whatever the calls and the faults, the size and the data stay within    *)
(* the device, no error path of main.c leaves the semaphore down, and the  *)
(* device of parta/main.c never delivers a byte.                           *)
FlatSound ==
    /\ size <= SCULL_DATA_SIZE /\ \A p \in Openers : Len(got[p]) <= SCULL_DATA_SIZE
    /\ down => memory = "pointer"
    /\ memory = "pointer" => \A p \in Openers : got[p] \in {<<>>, <<"EFAULT">>}
=============================================================================
