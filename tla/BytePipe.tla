------------------------------ MODULE BytePipe ------------------------------
(***************************************************************************)
(* What the scullpipe device promises to the processes that have it open:  *)
(* a bounded first-in first-out queue of bytes.  A byte a writer hands     *)
(* over is appended once, a byte a reader receives is the oldest one and   *)
(* is removed once, and at most size - 1 bytes are stored.  The only other *)
(* thing that may happen to the contents is that an open or the last close *)
(* discards all of them.                                                   *)
(*                                                                         *)
(* ScullPipe, which moves two pointers around a circular buffer, some of   *)
(* whose readers look at them without the semaphore, implements this.      *)
(***************************************************************************)
EXTENDS Naturals, Sequences

CONSTANTS
    Procs,      \* the processes that use the device
    Data        \* what a write can be given

VARIABLES
    queue,      \* the bytes stored in the device, oldest first
    size,       \* the size of the buffer behind the queue
    ubuf        \* ubuf[p]: what p's call still has to write, or has read

avars == <<queue, size, ubuf>>

Init ==
    /\ queue = <<>>
    /\ size \in Nat
    /\ ubuf = [p \in Procs |-> <<>>]

(* A process enters write() with some data.                                *)
Offer(p) ==
    /\ ubuf[p] = <<>>
    /\ \E d \in Data : ubuf' = [ubuf EXCEPT ![p] = d]
    /\ UNCHANGED <<queue, size>>

(* The device accepts the first n bytes of what p has to write.            *)
Put(p) ==
    \E n \in 1..Len(ubuf[p]) :
        /\ Len(queue) + n < size
        /\ queue' = queue \o SubSeq(ubuf[p], 1, n)
        /\ ubuf' = [ubuf EXCEPT ![p] = SubSeq(@, n + 1, Len(@))]
        /\ UNCHANGED size

(* The device gives p the oldest n bytes.                                  *)
Get(p) ==
    /\ ubuf[p] = <<>>
    /\ \E n \in 1..Len(queue) :
        /\ ubuf' = [ubuf EXCEPT ![p] = SubSeq(queue, 1, n)]
        /\ queue' = SubSeq(queue, n + 1, Len(queue))
        /\ UNCHANGED size

(* p's call returns: what it did not write, or has read, is p's business.  *)
Finish(p) ==
    /\ ubuf' = [ubuf EXCEPT ![p] = <<>>]
    /\ UNCHANGED <<queue, size>>

(* An open or the last close: whatever was stored is discarded.            *)
Discard ==
    /\ queue' = <<>>
    /\ size' \in Nat
    /\ UNCHANGED ubuf

Next == Discard \/ \E p \in Procs : Offer(p) \/ Put(p) \/ Get(p) \/ Finish(p)

Spec == Init /\ [][Next]_avars
=============================================================================
