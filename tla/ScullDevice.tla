---------------------------- MODULE ScullDevice ----------------------------
(***************************************************************************)
(* The bare scull device (main.c): a list of items, each an array of qset  *)
(* pointers to quantums of quantum bytes, with open, read, write, llseek   *)
(* and the ioctls that change the two sizes.                               *)
(*                                                                         *)
(* A read or write looks at the two sizes of the device before it takes    *)
(* the semaphore.  What it does while it has the semaphore is one step, as *)
(* all accesses to the list are made with it.  A NULL pointer is an empty  *)
(* sequence.  Every process has a file of its own; the VFS hands the       *)
(* methods its position.                                                   *)
(***************************************************************************)
EXTENDS Integers, FiniteSets, SequencesExt, FiniteSetsExt

CONSTANTS
    Procs,
    Data, Zero,     \* the bytes users write, and the byte 0
    junk,           \* a byte of kmalloc's memory that nobody wrote
    Quanta, Qsets,  \* the sizes that are set by ioctl
    DefQuantum,     \* SCULL_QUANTUM
    DefQset,        \* SCULL_QSET
    LateTrim,       \* does a trim change the sizes while calls have begun?
    MaxPos,         \* bound: no call starts behind this position
    MaxCount        \* bound: the bytes of one call

ASSUME DataAssumption == Zero \in Data /\ junk \notin Data
ASSUME SizesAssumption ==
    /\ Quanta \subseteq Nat \ {0} /\ DefQuantum \in Quanta
    /\ Qsets \subseteq Nat \ {0} /\ DefQset \in Qsets
ASSUME DeviceBoundsAssumption == MaxPos \in Nat /\ MaxCount \in Nat

VARIABLES
    scull_quantum, scull_qset,      \* the sizes for the next trim
    quantum, qset, size, items,     \* struct scull_dev
    mode, fpos,                     \* the file of each process
    pc,                             \* "idle", "read", "write" or "return"
    call,                           \* the sizes a call looked at
    got                             \* the bytes a read has returned

devVars == <<scull_quantum, scull_qset, quantum, qset, size, items,
             mode, fpos, pc, call, got>>

globals == <<scull_quantum, scull_qset>>
device == <<quantum, qset, size, items>>
files == <<mode, fpos, pc, call, got>>

DevInit ==
    /\ scull_quantum = DefQuantum /\ scull_qset = DefQset
    /\ quantum = DefQuantum /\ qset = DefQset
    /\ size = 0 /\ items = <<>>
    /\ mode = [p \in Procs |-> {}]
    /\ fpos = [p \in Procs |-> 0]
    /\ pc = [p \in Procs |-> "idle"]
    /\ call = [p \in Procs |-> <<>>]
    /\ got = [p \in Procs |-> <<>>]

-----------------------------------------------------------------------------
(* Places in the list.                                                     *)

(* The item, the pointer in its array and the byte in the quantum for      *)
(* position i, with sizes c = <<quantum, qset>>, counted from 1.           *)
Item(i, c) == (i \div (c[1] * c[2])) + 1
SPos(i, c) == ((i % (c[1] * c[2])) \div c[1]) + 1
QPos(i, c) == ((i % (c[1] * c[2])) % c[1]) + 1

(* scull_follow to item n: the list is long enough or grows to it, unless  *)
(* memory runs out on the way.                                             *)
Padded(m) == items \o [i \in 1..(m - Len(items)) |-> <<>>]

scull_follow(n) ==
    IF n <= Len(items) THEN {items} ELSE {Padded(m) : m \in Len(items)..n}

(* The quantum of position i is allocated: not a hole.                     *)
There(l, i, c) ==
    /\ Len(l) >= Item(i, c)
    /\ l[Item(i, c)] # <<>>
    /\ l[Item(i, c)][SPos(i, c)] # <<>>

(* Mutant: the array gets the size for the next trim.                      *)
WithArrayNext(l, i, c) ==
    IF l[Item(i, c)] = <<>>
    THEN [l EXCEPT ![Item(i, c)] = [j \in 1..scull_qset |-> <<>>]] ELSE l

(* The array and the quantum for position i, allocated where they are not. *)
WithArray(l, i, c) ==
    IF l[Item(i, c)] = <<>>
    THEN [l EXCEPT ![Item(i, c)] = [j \in 1..c[2] |-> <<>>]] ELSE l

WithQuantum(l, i, c) ==
    IF l[Item(i, c)][SPos(i, c)] = <<>>
    THEN [l EXCEPT ![Item(i, c)][SPos(i, c)] = [j \in 1..c[1] |-> junk]] ELSE l

(* The list with the bytes b stored from position i on, in one quantum.    *)
Stored(l, i, c, b) ==
    [l EXCEPT ![Item(i, c)][SPos(i, c)] =
        [j \in DOMAIN @ |-> IF j \in QPos(i, c)..(QPos(i, c) + Len(b) - 1)
                            THEN b[j - QPos(i, c) + 1] ELSE @[j]]]

(* No call goes beyond its quantum.                                        *)
Room(p) == call[p][1] - QPos(fpos[p], call[p]) + 1

-----------------------------------------------------------------------------
(* scull_open, scull_release, scull_llseek and the ioctls.                 *)

InCall(p) == pc[p] \in {"read", "write"}

scull_trim ==
    /\ size' = 0
    /\ quantum' = scull_quantum /\ qset' = scull_qset
    /\ items' = <<>>

Open(p, m) ==
    /\ mode[p] = {} /\ pc[p] = "idle"
    /\ mode' = [mode EXCEPT ![p] = m]
    /\ UNCHANGED <<fpos, pc, call, got, globals>>

OpenToWrite(p) ==
    /\ LateTrim \/ (\A q \in Procs : ~InCall(q)) \/ <<quantum, qset>> = globals
    /\ Open(p, {"w"})
    /\ scull_trim

OpenOtherwise(p) ==
    /\ Open(p, {"r"}) \/ Open(p, {"r", "w"})
    /\ UNCHANGED device

Close(p) ==
    /\ mode[p] # {} /\ pc[p] = "idle"
    /\ mode' = [mode EXCEPT ![p] = {}]
    /\ fpos' = [fpos EXCEPT ![p] = 0]
    /\ UNCHANGED <<pc, call, got, device, globals>>

(* SEEK_SET, SEEK_CUR and SEEK_END, without the semaphore.                 *)
Llseek(p) ==
    /\ mode[p] # {} /\ pc[p] = "idle"
    /\ \E base \in {0, fpos[p], size}, off \in (-MaxPos)..MaxPos :
          /\ base + off \in 0..MaxPos
          /\ fpos' = [fpos EXCEPT ![p] = base + off]
    /\ UNCHANGED <<mode, pc, call, got, device, globals>>

(* SCULL_IOCSQUANTUM, -T-, -X-, -H- and the same for the qset.             *)
SetQuantum ==
    /\ scull_quantum' \in Quanta
    /\ UNCHANGED <<scull_qset, device, files>>

SetQset ==
    /\ scull_qset' \in Qsets
    /\ UNCHANGED <<scull_quantum, device, files>>

(* SCULL_IOCRESET.                                                         *)
Reset ==
    /\ scull_quantum' = DefQuantum /\ scull_qset' = DefQset
    /\ UNCHANGED <<device, files>>

-----------------------------------------------------------------------------
(* scull_read and scull_write.                                             *)

(* Mutant: the call takes the sizes for the next trim.                     *)
LookNext(p) == call' = [call EXCEPT ![p] = <<scull_quantum, scull_qset>>]

(* The sizes are looked at before down_interruptible.                      *)
Look(p) == call' = [call EXCEPT ![p] = <<quantum, qset>>]

Begin(p, op) ==
    /\ pc[p] = "idle" /\ fpos[p] <= MaxPos
    /\ pc' = [pc EXCEPT ![p] = op]
    /\ Look(p)
    /\ UNCHANGED <<mode, fpos, got, device, globals>>

ReadCall(p) == "r" \in mode[p] /\ Begin(p, "read")
WriteCall(p) == "w" \in mode[p] /\ Begin(p, "write")

End(p) ==
    /\ pc' = [pc EXCEPT ![p] = "idle"]
    /\ call' = [call EXCEPT ![p] = <<>>]

(* down_interruptible fails: -ERESTARTSYS.                                 *)
Interrupted(p) ==
    /\ InCall(p)
    /\ End(p)
    /\ UNCHANGED <<mode, fpos, got, device, globals>>

AtEnd(p) == fpos[p] >= size

ReadEnd(p) ==
    /\ pc[p] = "read" /\ AtEnd(p)
    /\ End(p)
    /\ UNCHANGED <<mode, fpos, got, device, globals>>

(* "don't fill holes": 0 bytes, as when memory runs out.                   *)
ReadHole(p) ==
    /\ pc[p] = "read" /\ ~AtEnd(p)
    /\ items' \in scull_follow(Item(fpos[p], call[p]))
    /\ ~There(items', fpos[p], call[p])
    /\ End(p)
    /\ UNCHANGED <<mode, fpos, got, quantum, qset, size, globals>>

ReadCopy(p, n) ==
    /\ pc[p] = "read" /\ ~AtEnd(p)
    /\ items' \in scull_follow(Item(fpos[p], call[p]))
    /\ There(items', fpos[p], call[p])
    /\ LET k == Min({n, size - fpos[p], Room(p)})
           c == call[p]
       IN  /\ got' = [got EXCEPT ![p] =
                  SubSeq(items'[Item(fpos[p], c)][SPos(fpos[p], c)],
                         QPos(fpos[p], c), QPos(fpos[p], c) + k - 1)]
           /\ fpos' = [fpos EXCEPT ![p] = @ + k]
    /\ pc' = [pc EXCEPT ![p] = "return"]
    /\ call' = [call EXCEPT ![p] = <<>>]
    /\ UNCHANGED <<mode, quantum, qset, size, globals>>

(* copy_to_user fails: -EFAULT, the position stays.                        *)
ReadFault(p) ==
    /\ pc[p] = "read" /\ ~AtEnd(p)
    /\ items' \in scull_follow(Item(fpos[p], call[p]))
    /\ There(items', fpos[p], call[p])
    /\ End(p)
    /\ UNCHANGED <<mode, fpos, got, quantum, qset, size, globals>>

(* The caller takes the bytes.                                             *)
Return(p) ==
    /\ pc[p] = "return"
    /\ End(p)
    /\ got' = [got EXCEPT ![p] = <<>>]
    /\ UNCHANGED <<mode, fpos, device, globals>>

(* kmalloc fails for an item, the array or the quantum: -ENOMEM, and what  *)
(* was allocated stays.                                                    *)
WriteNoMemory(p) ==
    /\ pc[p] = "write"
    /\ \E l \in scull_follow(Item(fpos[p], call[p])) :
          \/ Len(l) < Item(fpos[p], call[p]) /\ items' = l
          \/ /\ Len(l) >= Item(fpos[p], call[p])
             /\ ~There(l, fpos[p], call[p])
             /\ items' \in {l, WithArray(l, fpos[p], call[p])}
    /\ End(p)
    /\ UNCHANGED <<mode, fpos, got, quantum, qset, size, globals>>

(* The list with b stored at the position of p, everything allocated.      *)
Written(p, b) ==
    LET c == call[p]
        l == CHOOSE x \in scull_follow(Item(fpos[p], c)) : Len(x) >= Item(fpos[p], c)
    IN  Stored(WithQuantum(WithArray(l, fpos[p], c), fpos[p], c), fpos[p], c, b)

(* Mutant: the size follows the position down as well.                     *)
UpdateSizeAlways(p) == size' = fpos'[p]

UpdateSize(p) == size' = IF size < fpos'[p] THEN fpos'[p] ELSE size

WriteCopy(p, b) ==
    /\ pc[p] = "write"
    /\ LET k == Min({Len(b), Room(p)})
       IN  /\ items' = Written(p, SubSeq(b, 1, k))
           /\ fpos' = [fpos EXCEPT ![p] = @ + k]
    /\ UpdateSize(p)
    /\ End(p)
    /\ UNCHANGED <<mode, got, quantum, qset, globals>>

(* copy_from_user fails after some bytes and clears the rest of the range: *)
(* -EFAULT, position and size stay.                                        *)
WriteFault(p, b) ==
    /\ pc[p] = "write"
    /\ LET k == Min({Len(b), Room(p)})
       IN  \E done \in 0..(k - 1) :
              items' = Written(p, [j \in 1..k |-> IF j <= done THEN b[j] ELSE Zero])
    /\ End(p)
    /\ UNCHANGED <<mode, fpos, got, quantum, qset, size, globals>>

-----------------------------------------------------------------------------
Inputs == UNION {[1..n -> Data] : n \in 0..MaxCount}

DevNext ==
    \/ SetQuantum \/ SetQset \/ Reset
    \/ \E p \in Procs :
          \/ OpenToWrite(p) \/ OpenOtherwise(p) \/ Close(p) \/ Llseek(p)
          \/ ReadCall(p) \/ WriteCall(p) \/ Interrupted(p) \/ Return(p)
          \/ ReadEnd(p) \/ ReadHole(p) \/ ReadFault(p)
          \/ \E n \in 0..MaxCount : ReadCopy(p, n)
          \/ WriteNoMemory(p)
          \/ \E b \in Inputs : WriteCopy(p, b) \/ WriteFault(p, b)

DevSpec == DevInit /\ [][DevNext]_devVars

-----------------------------------------------------------------------------
(* Properties.                                                             *)

(* Every array is qset long and every quantum has quantum bytes            *)
(* (scull.h:59-62), so that scull_trim frees what there is and nothing     *)
(* else.                                                                   *)
ShapeSound ==
    \A i \in 1..Len(items) :
        items[i] # <<>> =>
            /\ Len(items[i]) = qset
            /\ \A j \in 1..qset : items[i][j] # <<>> => Len(items[i][j]) = quantum

(* What a call that has begun is going to touch is there: its sizes, read  *)
(* at main.c:297 and 341 before the semaphore is taken, still fit the      *)
(* array and the quantum at its position.                                  *)
AccessInBounds ==
    \A p \in Procs :
        LET c == call[p]
            i == fpos[p]
        IN  InCall(p) /\ Item(i, c) <= Len(items) /\ items[Item(i, c)] # <<>> =>
                /\ SPos(i, c) <= Len(items[Item(i, c)])
                /\ items[Item(i, c)][SPos(i, c)] # <<>> =>
                       c[1] <= Len(items[Item(i, c)][SPos(i, c)])

(* The byte at position i, or junk.                                        *)
ByteAt(i) ==
    LET c == <<quantum, qset>>
        array == IF Item(i, c) <= Len(items) THEN items[Item(i, c)] ELSE <<>>
        bytes == IF SPos(i, c) <= Len(array) THEN array[SPos(i, c)] ELSE <<>>
    IN  IF QPos(i, c) <= Len(bytes) THEN bytes[QPos(i, c)] ELSE junk

(* The lists of arrays implement bytes at positions.                       *)
Store == INSTANCE StoredBytes WITH
    content <- [i \in 0..(MaxPos + MaxCount - 1) |-> ByteAt(i)],
    length <- size

DeviceStoresBytes == Store!StoreSpec
=============================================================================
