-------------------------- MODULE ScullPipeProofs ---------------------------
(***************************************************************************)
(* Proofs about ScullPipe, for every set of processes, every size and      *)
(* every environment the constants allow.                                  *)
(***************************************************************************)
EXTENDS ScullPipe, FiniteSetTheorems, SequenceTheorems, TLAPS

-----------------------------------------------------------------------------
(* The semaphore.                                                          *)

SemInv ==
    /\ pc \in [Procs -> Labels]
    /\ sem \in {0, 1}
    /\ SemaphoreBalanced

(* The steps of p inside the driver that neither take nor release the      *)
(* semaphore lead from a label to a label with the same claim on it.       *)
KeepsSem(p) ==
    /\ sem' = sem
    /\ \E to \in Labels : GoTo(p, to) /\ (pc[p] \in Holding <=> to \in Holding)

TakesSem(p) ==
    /\ sem = 1 /\ sem' = 0
    /\ \E to \in Holding : GoTo(p, to)

GivesSem(p) ==
    /\ pc[p] \in Holding
    /\ sem' = 1
    /\ \E to \in Labels \ Holding : GoTo(p, to)

LEMMA SemSteps ==
    ASSUME SemInv, NEW p \in Procs, Progress(p) \/ Acquire(p) \/ Environment(p)
    PROVE  (sem' = sem /\ pc' = pc) \/ KeepsSem(p) \/ TakesSem(p) \/ GivesSem(p)
<1> USE DEF SemInv, KeepsSem, TakesSem, GivesSem, GoTo, Return, Holding, Labels
<1>1. CASE ReadDownInterrupted(p) \/ WriteDownInterrupted(p)
  BY <1>1 DEF ReadDownInterrupted, WriteDownInterrupted, DownInterrupted
<1>2. CASE ReadEmpty(p)
  BY <1>2 DEF ReadEmpty, Up
<1>3. CASE ReadCopy(p)
  BY <1>3 DEF ReadCopy
<1>4. CASE ReadFault(p)
  BY <1>4 DEF ReadFault, Up
<1>5. CASE ReadWrap(p)
  BY <1>5 DEF ReadWrap, Up
<1>6. CASE ReadWake(p) \/ ReadWait(p) \/ ReadPrepare(p) \/ ReadAwake(p)
  BY <1>6 DEF ReadWake, ReadWait, ReadPrepare, ReadAwake
<1>7. CASE ReadCheck(p)
  BY <1>7 DEF ReadCheck
<1>8. CASE WriteFull(p)
  BY <1>8 DEF WriteFull, Up
<1>9. CASE WritePrepare(p) \/ WriteCheck(p) \/ WriteAwake(p)
  BY <1>9 DEF WritePrepare, WriteCheck, WriteAwake
<1>10. CASE WriteFinishWait(p)
  BY <1>10 DEF WriteFinishWait
<1>11. CASE WriteCopy(p)
  BY <1>11 DEF WriteCopy
<1>12. CASE WriteFault(p)
  BY <1>12 DEF WriteFault, Up
<1>13. CASE WriteWrap(p)
  BY <1>13 DEF WriteWrap, Up
<1>14. CASE WriteWake(p) \/ WriteSigio(p)
  BY <1>14 DEF WriteWake, WriteSigio
<1>15. CASE PollAwake(p) \/ PollInterrupted(p)
  BY <1>15 DEF PollAwake, PollInterrupted, PollEnd
<1>16. CASE ReadDown(p) \/ WriteDown(p)
  BY <1>16 DEF ReadDown, WriteDown, Down
<1>17. CASE Release(p)
  BY <1>17 DEF Release
<1>18. CASE Poll(p)
  BY <1>18 DEF Poll
<1>19. CASE Open(p)
  BY <1>19 DEF Open
<1>20. CASE Close(p)
  BY <1>20 DEF Close
<1>21. CASE Fasync(p) \/ Signal(p)
  BY <1>21 DEF Fasync, Signal
<1>22. CASE ReadCall(p) \/ WriteCall(p) \/ PollCall(p)
  BY <1>22 DEF ReadCall, WriteCall, PollCall
<1>23. CASE PollTimeout(p)
  BY <1>23 DEF PollTimeout, PollEnd
<1> QED
  BY <1>1, <1>2, <1>3, <1>4, <1>5, <1>6, <1>7, <1>8, <1>9, <1>10, <1>11, <1>12,
     <1>13, <1>14, <1>15, <1>16, <1>17, <1>18, <1>19, <1>20, <1>21, <1>22, <1>23
  DEF Progress, Acquire, Environment

LEMMA SemNext == SemInv /\ [Next]_vars => SemInv'
<1> SUFFICES ASSUME SemInv, [Next]_vars PROVE SemInv'
  OBVIOUS
<1> USE DEF SemInv, SemaphoreBalanced
<1>1. CASE sem' = sem /\ pc' = pc
  BY <1>1
<1>2. ASSUME NEW p \in Procs, KeepsSem(p) PROVE SemInv'
  BY <1>2 DEF KeepsSem, GoTo
<1>3. ASSUME NEW p \in Procs, TakesSem(p) PROVE SemInv'
  BY <1>3 DEF TakesSem, GoTo, Holding, Labels
<1>4. ASSUME NEW p \in Procs, GivesSem(p) PROVE SemInv'
  BY <1>4 DEF GivesSem, GoTo
<1>5. CASE SetSize
  BY <1>5, <1>1 DEF SetSize
<1>6. CASE UNCHANGED vars
  BY <1>6, <1>1 DEF vars
<1> QED
  BY <1>1, <1>2, <1>3, <1>4, <1>5, <1>6, SemSteps DEF Next

(* dev->sem is given back on every path: at most one process is in a       *)
(* critical section, and the semaphore is free exactly when none is.       *)
THEOREM SemaphoreIsBalanced == Spec => []SemaphoreBalanced
<1>1. Init => SemInv
  BY DEF Init, SemInv, SemaphoreBalanced, Labels, Holding
<1>2. SemInv => SemaphoreBalanced
  BY DEF SemInv
<1> QED
  BY <1>1, <1>2, SemNext, PTL DEF Spec

-----------------------------------------------------------------------------
(* Types and pointers.                                                     *)

CallTypes ==
    /\ inq \subseteq Procs /\ outq \subseteq Procs
    /\ async_queue \subseteq Procs
    /\ mode \in [Procs -> SUBSET {"r", "w"}]
    /\ nonblock \in [Procs -> BOOLEAN]
    /\ cnt \in [Procs -> 0..MaxCount]
    /\ ubuf \in [Procs -> Seq(Bytes \union {Junk})]
    /\ want \in [Procs -> SUBSET {"in", "out"}]
    /\ sig \in [Procs -> BOOLEAN]

BufInv ==
    /\ buffer \in {NULL} \union 0..MaxSize
    /\ buffersize \in 0..MaxSize
    /\ rp \in 0..MaxSize /\ wp \in 0..MaxSize
    /\ mem \in [0..(MaxSize - 1) -> Bytes \union {Junk}]
    /\ scull_p_buffer \in 0..MaxSize
    /\ PointersWrapped

LEMMA LesserIs ==
    ASSUME NEW a \in Nat, NEW b \in Nat
    PROVE  Lesser(a, b) \in 0..a /\ Lesser(a, b) \in 0..b
BY DEF Lesser

(* A read stays below dev->end, and below wp when wp is ahead.             *)
LEMMA ReadCountBound ==
    ASSUME BufInv, CallTypes, NEW p \in Procs
    PROVE  /\ ReadCount(p) \in 0..(buffersize - rp)
           /\ wp > rp => ReadCount(p) \in 0..(wp - rp)
<1>1. cnt[p] \in Nat /\ buffersize - rp \in Nat
  BY SizesAssumption DEF BufInv, CallTypes, PointersWrapped
<1>2. wp > rp => wp - rp \in Nat /\ wp - rp <= buffersize - rp
  BY SizesAssumption DEF BufInv, PointersWrapped
<1>3. CASE wp > rp
  <2>1. ReadCount(p) = Lesser(cnt[p], wp - rp)
    BY <1>3 DEF ReadCount
  <2>2. ReadCount(p) \in 0..(wp - rp)
    BY <2>1, <1>1, <1>2, <1>3, LesserIs
  <2> QED
    BY <2>2, <1>1, <1>2, <1>3, SizesAssumption DEF BufInv
<1>4. CASE ~(wp > rp)
  <2>1. ReadCount(p) = Lesser(cnt[p], buffersize - rp)
    BY <1>4 DEF ReadCount
  <2>2. ReadCount(p) \in 0..(buffersize - rp)
    BY <2>1, <1>1, LesserIs
  <2> QED
    BY <2>2, <1>4
<1> QED
  BY <1>3, <1>4

(* A write stays below dev->end, and leaves a byte free below rp when rp   *)
(* is ahead.                                                               *)
LEMMA WriteCountBound ==
    ASSUME BufInv, CallTypes, NEW p \in Procs, SpaceFree \in Int
    PROVE  /\ WriteCount(p) \in 0..(buffersize - wp)
           /\ WriteCount(p) \in 0..Len(ubuf[p])
           /\ SpaceFree >= 0 => WriteCount(p) <= SpaceFree
           /\ rp > wp => WriteCount(p) < rp - wp
<1> DEFINE room == IF wp >= rp THEN buffersize - wp ELSE rp - wp - 1
           count == IF SpaceFree < 0 THEN Len(ubuf[p])
                                     ELSE Lesser(Len(ubuf[p]), SpaceFree)
<1>1. WriteCount(p) = Lesser(count, room)
  BY DEF WriteCount
<1>2. Len(ubuf[p]) \in Nat
  BY DEF CallTypes
<1>3. count \in 0..Len(ubuf[p]) /\ (SpaceFree >= 0 => count <= SpaceFree)
  <2>1. CASE SpaceFree < 0
    BY <1>2, <2>1
  <2>2. CASE SpaceFree >= 0
    <3>1. SpaceFree \in Nat /\ count = Lesser(Len(ubuf[p]), SpaceFree)
      BY <2>2
    <3> HIDE DEF count
    <3>2. count \in 0..Len(ubuf[p]) /\ count \in 0..SpaceFree
      BY <1>2, <3>1, LesserIs
    <3> QED
      BY <3>1, <3>2
  <2>3. SpaceFree < 0 \/ SpaceFree >= 0
    OBVIOUS
  <2> QED
    BY <2>1, <2>2, <2>3
<1>4. room \in 0..(buffersize - wp) /\ (rp > wp => room < rp - wp)
  BY SizesAssumption DEF BufInv, PointersWrapped
<1> HIDE DEF room, count
<1>5. count \in Nat /\ room \in Nat
  BY <1>2, <1>3, <1>4, SizesAssumption DEF BufInv
<1>6. Lesser(count, room) \in 0..count /\ Lesser(count, room) \in 0..room
  BY <1>5, LesserIs
<1> QED
  BY <1>1, <1>2, <1>3, <1>4, <1>5, <1>6, SizesAssumption DEF BufInv

LEMMA SpaceFreeInt ==
    ASSUME BufInv
    PROVE  SpaceFree \in Int
<1>1. CASE rp = wp
  BY <1>1 DEF SpaceFree, BufInv
<1>2. CASE rp # wp
  <2>1. buffersize \in Nat \ {0} /\ rp + buffersize - wp \in Nat
    BY <1>2, SizesAssumption DEF BufInv, PointersWrapped
  <2> QED
    BY <2>1, <1>2 DEF SpaceFree
<1> QED
  BY <1>1, <1>2

(* Who is in a critical section sees wrapped pointers, but for its own.    *)
LEMMA PointersSeen ==
    ASSUME SemInv, BufInv
    PROVE  /\ sem = 1 => InBuffer(rp) /\ InBuffer(wp)
           /\ \A p \in Procs :
                 /\ pc[p] \in {"r_test", "w_space"} => InBuffer(rp) /\ InBuffer(wp)
                 /\ pc[p] = "r_wrap" => InBuffer(wp)
                 /\ pc[p] = "w_wrap" => InBuffer(rp)
BY DEF SemInv, SemaphoreBalanced, BufInv, PointersWrapped, Holding

(* Steps that leave the device's memory alone.                             *)
LEMMA BufKept ==
    ASSUME SemInv, BufInv, NEW p \in Procs, NEW to, GoTo(p, to),
           pc[p] \notin {"r_wrap", "w_wrap"},
           UNCHANGED <<buffer, buffersize, rp, wp, mem, scull_p_buffer>>
    PROVE  BufInv'
BY DEF SemInv, BufInv, PointersWrapped, InBuffer, GoTo

LEMMA BufReader ==
    ASSUME SemInv, BufInv, CallTypes, NEW p \in Procs, ReadCopy(p) \/ ReadWrap(p)
    PROVE  BufInv'
<1>1. CASE ReadCopy(p)
  <2>1. ReadCount(p) \in 0..(buffersize - rp)
    BY ReadCountBound
  <2>2. rp' \in 0..MaxSize /\ rp' <= buffersize'
    BY <1>1, <2>1, SizesAssumption DEF ReadCopy, BufInv, PointersWrapped
  <2>3. InBuffer(wp) /\ pc' = [pc EXCEPT ![p] = "r_wrap"]
    BY <1>1, PointersSeen DEF ReadCopy, GoTo
  <2>4. pc'[p] = "r_wrap"
    BY <2>3 DEF SemInv
  <2> QED
    BY <1>1, <2>2, <2>3, <2>4
    DEF ReadCopy, BufInv, PointersWrapped, InBuffer, fileVars
<1>2. CASE ReadWrap(p)
  <2>1. InBuffer(wp)
    BY <1>2, PointersSeen DEF ReadWrap
  <2>2. rp' \in 0..MaxSize /\ rp' <= buffersize' /\ InBuffer(rp)'
    BY <1>2, SizesAssumption DEF ReadWrap, BufInv, PointersWrapped, InBuffer
  <2> QED
    BY <1>2, <2>1, <2>2
    DEF ReadWrap, BufInv, PointersWrapped, InBuffer, fileVars
<1> QED
  BY <1>1, <1>2

LEMMA BufWriter ==
    ASSUME SemInv, BufInv, CallTypes, NEW p \in Procs, WriteCopy(p) \/ WriteWrap(p)
    PROVE  BufInv'
<1>1. CASE WriteCopy(p)
  <2>1. WriteCount(p) \in 0..(buffersize - wp) /\ WriteCount(p) \in 0..Len(ubuf[p])
    BY SpaceFreeInt, WriteCountBound
  <2>2. wp' \in 0..MaxSize /\ wp' <= buffersize'
    BY <1>1, <2>1, SizesAssumption DEF WriteCopy, BufInv, PointersWrapped
  <2>3. InBuffer(rp) /\ pc' = [pc EXCEPT ![p] = "w_wrap"]
    BY <1>1, PointersSeen DEF WriteCopy, GoTo
  <2>4. pc'[p] = "w_wrap"
    BY <2>3 DEF SemInv
  <2>5. mem' \in [0..(MaxSize - 1) -> Bytes \union {Junk}]
    <3>1. ubuf[p] \in Seq(Bytes \union {Junk})
      BY DEF CallTypes
    <3>2. ASSUME NEW i \in 0..(MaxSize - 1), i \in wp..(wp + WriteCount(p) - 1)
          PROVE  ubuf[p][i - wp + 1] \in Bytes \union {Junk}
      <4>1. i - wp + 1 \in 1..Len(ubuf[p])
        BY <2>1, <3>1, <3>2, SizesAssumption DEF BufInv
      <4> QED
        BY <3>1, <4>1
    <3> QED
      BY <1>1, <3>2 DEF WriteCopy, BufInv
  <2> QED
    BY <1>1, <2>2, <2>3, <2>4, <2>5
    DEF WriteCopy, BufInv, PointersWrapped, InBuffer, fileVars
<1>2. CASE WriteWrap(p)
  <2>1. InBuffer(rp)
    BY <1>2, PointersSeen DEF WriteWrap
  <2>2. wp' \in 0..MaxSize /\ wp' <= buffersize' /\ InBuffer(wp)'
    BY <1>2, SizesAssumption DEF WriteWrap, BufInv, PointersWrapped, InBuffer
  <2> QED
    BY <1>2, <2>1, <2>2
    DEF WriteWrap, BufInv, PointersWrapped, InBuffer, fileVars
<1> QED
  BY <1>1, <1>2

LEMMA BufNext ==
    SemInv /\ BufInv /\ CallTypes /\ [Next]_vars => BufInv'
<1> SUFFICES ASSUME SemInv, BufInv, CallTypes, [Next]_vars PROVE BufInv'
  OBVIOUS
<1>1. CASE UNCHANGED vars
  BY <1>1 DEF vars, bufVars, fileVars, BufInv, PointersWrapped, InBuffer
<1>2. CASE SetSize
  BY <1>2, SizesAssumption
  DEF SetSize, bufVars, BufInv, PointersWrapped, InBuffer
<1>3. ASSUME NEW p \in Procs, Progress(p)
      PROVE  BufInv'
  <2>1. CASE ReadCopy(p) \/ ReadWrap(p)
    BY <2>1, BufReader
  <2>2. CASE WriteCopy(p) \/ WriteWrap(p)
    BY <2>2, BufWriter
  <2>3. CASE ~(ReadCopy(p) \/ ReadWrap(p) \/ WriteCopy(p) \/ WriteWrap(p))
    <3>1. /\ UNCHANGED <<bufVars, fileVars>>
          /\ pc[p] \notin {"r_wrap", "w_wrap"}
          /\ \E to : GoTo(p, to)
      BY <1>3, <2>3
      DEF Progress, ReadDownInterrupted, WriteDownInterrupted, DownInterrupted,
          ReadEmpty, ReadFault, ReadWake, ReadWait, ReadPrepare, ReadCheck, ReadAwake, WriteFull,
          WritePrepare, WriteCheck, WriteAwake, WriteFinishWait, WriteFault,
          WriteWake, WriteSigio, PollAwake, PollInterrupted, PollEnd, Return
    <3> QED
      BY <3>1, BufKept DEF bufVars, fileVars
  <2> QED
    BY <2>1, <2>2, <2>3
<1>4. ASSUME NEW p \in Procs, Acquire(p)
      PROVE  BufInv'
  <2>1. CASE Release(p)
    BY <2>1 DEF Release, SemInv, BufInv, PointersWrapped, InBuffer
  <2>2. CASE ~Release(p)
    <3>1. /\ UNCHANGED <<bufVars, fileVars>>
          /\ pc[p] \notin {"r_wrap", "w_wrap"}
          /\ \E to : GoTo(p, to)
      BY <1>4, <2>2 DEF Acquire, ReadDown, WriteDown, Down, Poll, Return
    <3> QED
      BY <3>1, BufKept DEF bufVars, fileVars
  <2> QED
    BY <2>1, <2>2
<1>5. ASSUME NEW p \in Procs, Environment(p)
      PROVE  BufInv'
  <2>1. CASE Open(p)
    BY <2>1, SizesAssumption DEF Open, BufInv, PointersWrapped, InBuffer, NULL
  <2>2. CASE Fasync(p) \/ Signal(p)
    BY <2>2 DEF Fasync, Signal, bufVars, fileVars, BufInv, PointersWrapped, InBuffer
  <2>3. CASE Close(p) \/ ReadCall(p) \/ WriteCall(p) \/ PollCall(p) \/ PollTimeout(p)
    <3>1. /\ UNCHANGED <<bufVars, scull_p_buffer>>
          /\ pc[p] \notin {"r_wrap", "w_wrap"}
          /\ \E to : GoTo(p, to)
      BY <2>3 DEF Close, ReadCall, WriteCall, PollCall, PollTimeout, PollEnd,
                  Return, fileVars
    <3> QED
      BY <3>1, BufKept DEF bufVars
  <2> QED
    BY <1>5, <2>1, <2>2, <2>3 DEF Environment
<1> QED
  BY <1>1, <1>2, <1>3, <1>4, <1>5 DEF Next

(* A function on 1..n is a sequence.                                       *)
LEMMA FunctionIsSeq ==
    ASSUME NEW S, NEW n \in Nat, NEW f \in [1..n -> S]
    PROVE  f \in Seq(S)
<1>1. f \in UNION {[1..k -> S] : k \in Nat}
  BY Zenon
<1> QED
  BY <1>1, SeqDef, Zenon

LEMMA CallTypesNext ==
    SemInv /\ BufInv /\ CallTypes /\ [Next]_vars => CallTypes'
<1> SUFFICES ASSUME SemInv, BufInv, CallTypes, [Next]_vars PROVE CallTypes'
  OBVIOUS
<1> USE DEF CallTypes, GoTo, fileVars, callVars, queueVars
<1>1. CASE UNCHANGED vars
  BY <1>1 DEF vars
<1>2. CASE SetSize
  BY <1>2 DEF SetSize
<1>3. ASSUME NEW p \in Procs, Return(p), UNCHANGED fileVars,
             inq' \subseteq Procs, outq' \subseteq Procs
      PROVE  CallTypes'
  BY <1>3, SizesAssumption DEF Return
<1>4. ASSUME NEW p \in Procs, Progress(p)
      PROVE  CallTypes'
  <2>1. CASE ReadCopy(p)
    <3>1. ASSUME NEW i \in 1..ReadCount(p)
          PROVE  mem[rp + i - 1] \in Bytes \union {Junk}
      BY <3>1, ReadCountBound, SizesAssumption DEF BufInv, PointersWrapped
    <3>2. ReadCount(p) \in Nat
      BY ReadCountBound, SizesAssumption DEF BufInv
    <3>3. [i \in 1..ReadCount(p) |-> mem[rp + i - 1]] \in
              [1..ReadCount(p) -> Bytes \union {Junk}]
      BY <3>1
    <3>4. [i \in 1..ReadCount(p) |-> mem[rp + i - 1]] \in Seq(Bytes \union {Junk})
      BY <3>2, <3>3, FunctionIsSeq
    <3> QED
      BY <2>1, <3>4 DEF ReadCopy
  <2>2. CASE WriteCopy(p)
    <3>1. WriteCount(p) \in 0..Len(ubuf[p]) /\ ubuf[p] \in Seq(Bytes \union {Junk})
      BY SpaceFreeInt, WriteCountBound
    <3>2. SubSeq(ubuf[p], WriteCount(p) + 1, Len(ubuf[p])) \in Seq(Bytes \union {Junk})
      BY <3>1
    <3> QED
      BY <2>2, <3>2 DEF WriteCopy
  <2>3. CASE ReadDownInterrupted(p) \/ WriteDownInterrupted(p) \/ ReadFault(p)
             \/ WriteFault(p)
    BY <2>3, <1>3 DEF ReadDownInterrupted, WriteDownInterrupted, DownInterrupted,
                      ReadFault, WriteFault
  <2>4. CASE ReadEmpty(p) \/ WriteFull(p)
    BY <2>4, <1>3 DEF ReadEmpty, WriteFull
  <2>5. CASE ReadWrap(p) \/ WriteWrap(p) \/ ReadAwake(p) \/ ReadWait(p)
             \/ ReadPrepare(p)
             \/ WritePrepare(p) \/ WriteCheck(p) \/ WriteAwake(p) \/ WriteWake(p)
             \/ PollAwake(p)
    BY <2>5 DEF ReadWrap, WriteWrap, ReadAwake, ReadWait, ReadPrepare, WritePrepare,
                WriteCheck, WriteAwake, WriteWake, PollAwake
  <2>6. CASE ReadWake(p)
    BY <2>6, SizesAssumption DEF ReadWake, Return
  <2>7. CASE ReadCheck(p)
    <3>1. inq' \subseteq Procs /\ UNCHANGED <<outq, fileVars>>
      BY <2>7 DEF ReadCheck
    <3>2. Return(p) \/ UNCHANGED callVars
      BY <2>7 DEF ReadCheck
    <3> QED
      BY <3>1, <3>2, <1>3
  <2>8. CASE WriteFinishWait(p)
    <3>1. outq' \subseteq Procs /\ UNCHANGED <<inq, fileVars>>
      BY <2>8 DEF WriteFinishWait
    <3>2. Return(p) \/ UNCHANGED callVars
      BY <2>8 DEF WriteFinishWait
    <3> QED
      BY <3>1, <3>2, <1>3
  <2>9. CASE WriteSigio(p)
    <3>1. ASSUME NEW q \in Procs
          PROVE  (IF q = p THEN FALSE
                  ELSE sig[q] \/ (q \in async_queue /\ InCall(q))) \in BOOLEAN
      BY Zenon
    <3>2. sig' \in [Procs -> BOOLEAN]
      BY <2>9, <3>1, Zenon DEF WriteSigio
    <3>3. nonblock' \in [Procs -> BOOLEAN]
      BY <2>9 DEF WriteSigio
    <3>4. /\ UNCHANGED <<inq, outq, async_queue, mode, cnt, want>>
          /\ ubuf' = [ubuf EXCEPT ![p] = <<>>]
      BY <2>9 DEF WriteSigio
    <3> QED
      BY <3>2, <3>3, <3>4
  <2>10. CASE PollInterrupted(p)
    BY <2>10, SizesAssumption DEF PollInterrupted, PollEnd, Return
  <2> QED
    BY <1>4, <2>1, <2>2, <2>3, <2>4, <2>5, <2>6, <2>7, <2>8, <2>9, <2>10
    DEF Progress
<1>5. ASSUME NEW p \in Procs, Acquire(p)
      PROVE  CallTypes'
  <2>1. CASE ReadDown(p) \/ WriteDown(p)
    BY <2>1 DEF ReadDown, WriteDown, Down
  <2>2. CASE Release(p)
    BY <2>2 DEF Release
  <2>3. CASE Poll(p)
    <3>1. inq' \subseteq Procs /\ outq' \subseteq Procs /\ UNCHANGED fileVars
      BY <2>3 DEF Poll
    <3>2. Return(p) \/ UNCHANGED callVars
      BY <2>3 DEF Poll
    <3> QED
      BY <3>1, <3>2, <1>3
  <2> QED
    BY <1>5, <2>1, <2>2, <2>3 DEF Acquire
<1>6. ASSUME NEW p \in Procs, Environment(p)
      PROVE  CallTypes'
  <2>1. CASE Open(p)
    BY <2>1, ModesAssumption DEF Open
  <2>2. CASE Close(p) \/ Signal(p)
    BY <2>2 DEF Close, Signal
  <2>3. CASE Fasync(p)
    BY <2>3 DEF Fasync
  <2>4. CASE ReadCall(p)
    <3>1. cnt' \in [Procs -> 0..MaxCount]
      BY <2>4 DEF ReadCall
    <3>2. nonblock' \in [Procs -> BOOLEAN]
      BY <2>4 DEF ReadCall
    <3> QED
      BY <2>4, <3>1, <3>2 DEF ReadCall
  <2>7. CASE PollCall(p)
    BY <2>7 DEF PollCall
  <2>5. CASE WriteCall(p)
    <3>1. \A d \in Data : d \in Seq(Bytes \union {Junk})
      BY SizesAssumption DEF Data
    <3> QED
      BY <2>5, <3>1 DEF WriteCall
  <2>6. CASE PollTimeout(p)
    BY <2>6, SizesAssumption DEF PollTimeout, PollEnd, Return
  <2> QED
    BY <1>6, <2>1, <2>2, <2>3, <2>4, <2>5, <2>6, <2>7 DEF Environment
<1> QED
  BY <1>1, <1>2, <1>4, <1>5, <1>6 DEF Next

-----------------------------------------------------------------------------
(* Open files, their counters and the buffer.                              *)

FileInv ==
    /\ \A p \in Procs : mode[p] = {} <=> pc[p] = "closed"
    /\ BufferLifetime
    /\ AsyncOnlyOpen

(* Steps that neither open nor close a file.                               *)
LEMMA FilesKept ==
    ASSUME SemInv, CallTypes, FileInv, NEW p \in Procs, NEW to,
           GoTo(p, to), pc[p] # "closed", pc[p] # "c_down",
           to \notin {"closed", "c_down"},
           UNCHANGED <<buffer, nreaders, nwriters, async_queue, mode>>
    PROVE  FileInv'
<1> USE DEF SemInv, CallTypes, FileInv, GoTo
<1>1. \A q \in Procs : pc'[q] \in {"closed", "c_down"} <=> pc[q] \in {"closed", "c_down"}
  OBVIOUS
<1>2. \A q \in Procs : pc'[q] = "closed" <=> pc[q] = "closed"
  OBVIOUS
<1>3. AsyncOnlyOpen'
  BY <1>1 DEF AsyncOnlyOpen
<1>4. BufferLifetime'
  BY <1>2 DEF BufferLifetime
<1> QED
  BY <1>2, <1>3, <1>4

(* How many files of the table f of modes are open in mode x, and how that *)
(* changes when p's entry is filled in or emptied.                         *)
OpenIn(f, x) == {q \in Procs : x \in f[q]}

ModeTable == [Procs -> SUBSET {"r", "w"}]

LEMMA OpenInFinite ==
    ASSUME NEW f, NEW x
    PROVE  IsFiniteSet(OpenIn(f, x)) /\ Cardinality(OpenIn(f, x)) \in Nat
BY FS_Subset, FS_CardinalityType, ProcsAssumption DEF OpenIn

LEMMA CountOpen ==
    ASSUME NEW f \in ModeTable, NEW g \in ModeTable, NEW p \in Procs, NEW x,
           f[p] = {}, \A q \in Procs \ {p} : g[q] = f[q]
    PROVE  /\ x \in g[p] => Cardinality(OpenIn(g, x)) = Cardinality(OpenIn(f, x)) + 1
           /\ x \notin g[p] => Cardinality(OpenIn(g, x)) = Cardinality(OpenIn(f, x))
<1>1. p \notin OpenIn(f, x)
  BY DEF OpenIn
<1>2. x \in g[p] => OpenIn(g, x) = OpenIn(f, x) \union {p}
  BY DEF OpenIn
<1>3. x \notin g[p] => OpenIn(g, x) = OpenIn(f, x)
  BY DEF OpenIn
<1>4. Cardinality(OpenIn(f, x) \union {p}) = Cardinality(OpenIn(f, x)) + 1
  BY <1>1, OpenInFinite, FS_AddElement
<1> QED
  BY <1>2, <1>3, <1>4

LEMMA CountRelease ==
    ASSUME NEW f \in ModeTable, NEW g \in ModeTable, NEW p \in Procs, NEW x,
           g[p] = {}, \A q \in Procs \ {p} : g[q] = f[q]
    PROVE  /\ x \in f[p] => Cardinality(OpenIn(g, x)) = Cardinality(OpenIn(f, x)) - 1
           /\ x \notin f[p] => Cardinality(OpenIn(g, x)) = Cardinality(OpenIn(f, x))
<1>1. x \in f[p] => Cardinality(OpenIn(f, x)) = Cardinality(OpenIn(g, x)) + 1
  BY CountOpen
<1>2. x \notin f[p] => Cardinality(OpenIn(f, x)) = Cardinality(OpenIn(g, x))
  BY CountOpen
<1>3. Cardinality(OpenIn(g, x)) \in Nat
  BY OpenInFinite
<1> QED
  BY <1>1, <1>2, <1>3

LEMMA CountZero ==
    ASSUME NEW f \in ModeTable
    PROVE  Cardinality(OpenIn(f, "r")) + Cardinality(OpenIn(f, "w")) = 0 <=>
               \A q \in Procs : f[q] = {}
<1>1. \A x : Cardinality(OpenIn(f, x)) \in Nat
             /\ (Cardinality(OpenIn(f, x)) = 0 <=> OpenIn(f, x) = {})
  BY OpenInFinite, FS_EmptySet
<1>2. \A q \in Procs : f[q] = {} <=> q \notin OpenIn(f, "r") /\ q \notin OpenIn(f, "w")
  BY DEF OpenIn, ModeTable
<1>3. (\A q \in Procs : f[q] = {}) <=> OpenIn(f, "r") = {} /\ OpenIn(f, "w") = {}
  BY <1>2 DEF OpenIn
<1>4. \A m, n \in Nat : m + n = 0 <=> m = 0 /\ n = 0
  OBVIOUS
<1> QED
  BY <1>1, <1>3, <1>4, Zenon

LEMMA OpenCounts ==
    ASSUME NEW p \in Procs, NEW m \in SUBSET {"r", "w"}, mode \in ModeTable,
           mode[p] = {}, mode' = [mode EXCEPT ![p] = m]
    PROVE  \A x \in {"r", "w"} :
               Cardinality(OpenIn(mode', x)) =
                   Cardinality(OpenIn(mode, x)) + (IF x \in m THEN 1 ELSE 0)
<1> DEFINE g == mode'
<1>1. /\ g \in ModeTable /\ g[p] = m
      /\ \A q \in Procs \ {p} : g[q] = mode[q]
  BY DEF ModeTable
<1> HIDE DEF g
<1>2. \A x \in {"r", "w"} :
          x \in m => Cardinality(OpenIn(g, x)) = Cardinality(OpenIn(mode, x)) + 1
  BY <1>1, CountOpen
<1>3. \A x \in {"r", "w"} :
          x \notin m => Cardinality(OpenIn(g, x)) = Cardinality(OpenIn(mode, x))
  BY <1>1, CountOpen
<1> QED
  BY <1>2, <1>3, OpenInFinite DEF g

LEMMA ReleaseCounts ==
    ASSUME NEW p \in Procs, mode \in ModeTable, mode' = [mode EXCEPT ![p] = {}]
    PROVE  \A x \in {"r", "w"} :
               Cardinality(OpenIn(mode', x)) =
                   Cardinality(OpenIn(mode, x)) - (IF x \in mode[p] THEN 1 ELSE 0)
<1> DEFINE g == mode'
<1>1. /\ g \in ModeTable /\ g[p] = {}
      /\ \A q \in Procs \ {p} : g[q] = mode[q]
  BY DEF ModeTable
<1> HIDE DEF g
<1>2. \A x \in {"r", "w"} :
          x \in mode[p] => Cardinality(OpenIn(g, x)) = Cardinality(OpenIn(mode, x)) - 1
  BY <1>1, CountRelease
<1>3. \A x \in {"r", "w"} :
          x \notin mode[p] => Cardinality(OpenIn(g, x)) = Cardinality(OpenIn(mode, x))
  BY <1>1, CountRelease
<1> QED
  BY <1>2, <1>3, OpenInFinite DEF g

LEMMA FileNext ==
    SemInv /\ BufInv /\ CallTypes /\ FileInv /\ [Next]_vars => FileInv'
<1> SUFFICES ASSUME SemInv, BufInv, CallTypes, FileInv, [Next]_vars PROVE FileInv'
  OBVIOUS
<1>1. CASE UNCHANGED vars
  BY <1>1 DEF vars, bufVars, fileVars, FileInv, BufferLifetime, AsyncOnlyOpen
<1>2. CASE SetSize
  BY <1>2 DEF SetSize, bufVars, FileInv, BufferLifetime, AsyncOnlyOpen
<1>3. ASSUME NEW p \in Procs, Progress(p)
      PROVE  FileInv'
  <2> DEFINE Stays ==
        /\ UNCHANGED <<buffer, nreaders, nwriters, async_queue, mode>>
        /\ pc[p] \notin {"closed", "c_down"}
        /\ \E to : GoTo(p, to) /\ to \notin {"closed", "c_down"}
  <2> USE DEF Return, bufVars, fileVars
  <2>1. CASE ReadDownInterrupted(p) \/ WriteDownInterrupted(p) \/ ReadFault(p)
             \/ WriteFault(p) \/ PollInterrupted(p) \/ ReadWake(p)
    <3>1. Stays
      BY <2>1 DEF ReadDownInterrupted, WriteDownInterrupted, DownInterrupted,
                  ReadFault, WriteFault, PollInterrupted, PollEnd, ReadWake
    <3> QED
      BY <3>1, FilesKept
  <2>2. CASE ReadCopy(p) \/ ReadWrap(p) \/ WriteCopy(p) \/ WriteWrap(p)
    <3>1. Stays
      BY <2>2 DEF ReadCopy, ReadWrap, WriteCopy, WriteWrap
    <3> QED
      BY <3>1, FilesKept
  <2>3. CASE ReadWait(p) \/ ReadPrepare(p) \/ ReadAwake(p) \/ WritePrepare(p) \/ WriteCheck(p)
             \/ WriteAwake(p) \/ WriteWake(p) \/ WriteSigio(p) \/ PollAwake(p)
    <3>1. CASE ReadWait(p)
      BY <3>1, FilesKept DEF ReadWait
    <3>2. CASE WriteCheck(p)
      BY <3>2, FilesKept DEF WriteCheck
    <3>3. CASE WriteSigio(p)
      BY <3>3, FilesKept DEF WriteSigio
    <3>4. CASE ReadPrepare(p) \/ ReadAwake(p) \/ WritePrepare(p) \/ WriteAwake(p) \/ WriteWake(p)
               \/ PollAwake(p)
      BY <3>4, FilesKept
      DEF ReadPrepare, ReadAwake, WritePrepare, WriteAwake, WriteWake, PollAwake
    <3> QED
      BY <2>3, <3>1, <3>2, <3>3, <3>4
  <2>4. CASE ReadEmpty(p) \/ ReadCheck(p) \/ WriteFull(p) \/ WriteFinishWait(p)
    <3>1. UNCHANGED <<buffer, nreaders, nwriters, async_queue, mode>>
      BY <2>4 DEF ReadEmpty, ReadCheck, WriteFull, WriteFinishWait
    <3>2. /\ pc[p] \notin {"closed", "c_down"}
          /\ \E to : GoTo(p, to) /\ to \notin {"closed", "c_down"}
      BY <2>4 DEF ReadEmpty, ReadCheck, WriteFull, WriteFinishWait
    <3> QED
      BY <3>1, <3>2, FilesKept
  <2> QED
    BY <1>3, <2>1, <2>2, <2>3, <2>4 DEF Progress
<1>4. ASSUME NEW p \in Procs, Acquire(p)
      PROVE  FileInv'
  <2>1. CASE ReadDown(p) \/ WriteDown(p) \/ Poll(p)
    <3>1. /\ UNCHANGED <<buffer, nreaders, nwriters, async_queue, mode>>
          /\ pc[p] \notin {"closed", "c_down"}
          /\ \E to : GoTo(p, to) /\ to \notin {"closed", "c_down"}
      BY <2>1 DEF ReadDown, WriteDown, Down, Poll, Return, bufVars, fileVars
    <3> QED
      BY <3>1, FilesKept
  <2>2. CASE Release(p)
    <3> USE DEF SemInv, CallTypes, FileInv
    <3>1. pc[p] = "c_down" /\ mode' = [mode EXCEPT ![p] = {}]
          /\ pc' = [pc EXCEPT ![p] = "closed"]
      BY <2>2 DEF Release
    <3>2. \A q \in Procs : mode'[q] = {} <=> pc'[q] = "closed"
      BY <3>1
    <3>3. AsyncOnlyOpen'
      BY <2>2, <3>1 DEF Release, AsyncOnlyOpen
    <3>10. mode \in ModeTable /\ mode' \in ModeTable
      BY <3>1 DEF ModeTable
    <3>4. nreaders' = Cardinality(OpenIn(mode', "r"))
      <4>1. nreaders' = nreaders - (IF "r" \in mode[p] THEN 1 ELSE 0)
        BY <2>2 DEF Release
      <4>2. nreaders = Cardinality(OpenIn(mode, "r"))
        BY DEF BufferLifetime, OpenIn
      <4> QED
        BY <3>1, <4>1, <4>2, ReleaseCounts, OpenInFinite DEF ModeTable
    <3>5. nwriters' = Cardinality(OpenIn(mode', "w"))
      <4>1. nwriters' = nwriters - (IF "w" \in mode[p] THEN 1 ELSE 0)
        BY <2>2 DEF Release
      <4>2. nwriters = Cardinality(OpenIn(mode, "w"))
        BY DEF BufferLifetime, OpenIn
      <4> QED
        BY <3>1, <4>1, <4>2, ReleaseCounts, OpenInFinite DEF ModeTable
    <3>7. nreaders' + nwriters' = 0 <=> \A q \in Procs : mode'[q] = {}
      BY <3>4, <3>5, <3>10, CountZero
    <3>8. buffer # NULL
      BY <3>1 DEF BufferLifetime
    <3>9. buffer' = NULL <=> \A q \in Procs : pc'[q] = "closed"
      BY <2>2, <3>2, <3>7, <3>8 DEF Release
    <3> QED
      BY <3>2, <3>3, <3>4, <3>5, <3>9 DEF BufferLifetime, OpenIn
  <2> QED
    BY <1>4, <2>1, <2>2 DEF Acquire
<1>5. ASSUME NEW p \in Procs, Environment(p)
      PROVE  FileInv'
  <2>1. CASE Open(p)
    <3> USE DEF SemInv, CallTypes, FileInv
    <3>1. PICK m \in Modes : /\ mode' = [mode EXCEPT ![p] = m]
                             /\ nreaders' = nreaders + (IF "r" \in m THEN 1 ELSE 0)
                             /\ nwriters' = nwriters + (IF "w" \in m THEN 1 ELSE 0)
      BY <2>1 DEF Open
    <3>2. mode[p] = {} /\ m \in SUBSET {"r", "w"} /\ m # {}
      BY <2>1, ModesAssumption DEF Open
    <3>3. pc' = [pc EXCEPT ![p] = "idle"]
      BY <2>1 DEF Open, GoTo
    <3>4. \A q \in Procs : mode'[q] = {} <=> pc'[q] = "closed"
      BY <3>1, <3>2, <3>3
    <3>5. AsyncOnlyOpen'
      BY <2>1, <3>3 DEF Open, AsyncOnlyOpen
    <3>6. nreaders' = Cardinality(OpenIn(mode', "r"))
      <4>1. nreaders = Cardinality(OpenIn(mode, "r"))
        BY DEF BufferLifetime, OpenIn
      <4> QED
        BY <3>1, <3>2, <4>1, OpenCounts, OpenInFinite DEF ModeTable
    <3>7. nwriters' = Cardinality(OpenIn(mode', "w"))
      <4>1. nwriters = Cardinality(OpenIn(mode, "w"))
        BY DEF BufferLifetime, OpenIn
      <4> QED
        BY <3>1, <3>2, <4>1, OpenCounts, OpenInFinite DEF ModeTable
    <3>8. buffer' # NULL
      BY <2>1, SizesAssumption DEF Open, BufInv, NULL
    <3>9. pc'[p] # "closed"
      BY <3>3
    <3> QED
      BY <3>4, <3>5, <3>6, <3>7, <3>8, <3>9 DEF BufferLifetime, OpenIn
  <2>2. CASE Close(p)
    BY <2>2 DEF Close, GoTo, SemInv, CallTypes, FileInv, BufferLifetime,
                AsyncOnlyOpen, bufVars
  <2>3. CASE Fasync(p)
    BY <2>3 DEF Fasync, FileInv, BufferLifetime, AsyncOnlyOpen, bufVars
  <2>4. CASE Signal(p)
    BY <2>4 DEF Signal, FileInv, BufferLifetime, AsyncOnlyOpen, bufVars, fileVars
  <2>5. CASE ReadCall(p) \/ WriteCall(p) \/ PollCall(p) \/ PollTimeout(p)
    <3>1. /\ UNCHANGED <<buffer, nreaders, nwriters, async_queue, mode>>
          /\ pc[p] \notin {"closed", "c_down"}
          /\ \E to : GoTo(p, to) /\ to \notin {"closed", "c_down"}
      BY <2>5 DEF ReadCall, WriteCall, PollCall, PollTimeout, PollEnd, Return,
                  bufVars, fileVars
    <3> QED
      BY <3>1, FilesKept
  <2> QED
    BY <1>5, <2>1, <2>2, <2>3, <2>4, <2>5 DEF Environment
<1> QED
  BY <1>1, <1>2, <1>3, <1>4, <1>5 DEF Next
-----------------------------------------------------------------------------
(* The invariant of the device, and what it implies at once.               *)

PipeInv == SemInv /\ BufInv /\ CallTypes /\ FileInv

LEMMA PipeInvInit == Init => PipeInv
<1> SUFFICES ASSUME Init PROVE PipeInv
  OBVIOUS
<1>1. SemInv
  BY DEF Init, SemInv, SemaphoreBalanced, Labels, Holding
<1>2. BufInv
  BY SizesAssumption DEF Init, BufInv, PointersWrapped, InBuffer
<1>3. CallTypes
  <2>1. <<>> \in Seq(Bytes \union {Junk})
    OBVIOUS
  <2> QED
    BY <2>1, SizesAssumption DEF Init, CallTypes
<1>4. FileInv
  <2>1. \A x : {p \in Procs : x \in mode[p]} = {}
    BY DEF Init
  <2> QED
    BY <2>1, FS_EmptySet DEF Init, FileInv, BufferLifetime, AsyncOnlyOpen
<1> QED
  BY <1>1, <1>2, <1>3, <1>4 DEF PipeInv

LEMMA PipeInvNext == PipeInv /\ [Next]_vars => PipeInv'
BY SemNext, BufNext, CallTypesNext, FileNext DEF PipeInv

LEMMA PipeInvariant == Spec => []PipeInv
BY PipeInvInit, PipeInvNext, PTL DEF Spec

(* Every variable keeps its type: offsets stay within the largest buffer,  *)
(* and the open counters, which the code decrements, never go below zero.  *)
THEOREM Typing == Spec => []TypeOK
<1>1. PipeInv => TypeOK
  <2> SUFFICES ASSUME PipeInv PROVE TypeOK
    OBVIOUS
  <2>1. nreaders \in Nat /\ nwriters \in Nat
    BY OpenInFinite DEF PipeInv, FileInv, BufferLifetime, OpenIn
  <2> QED
    BY <2>1 DEF TypeOK, PipeInv, SemInv, BufInv, CallTypes
<1> QED
  BY <1>1, PipeInvariant, PTL

(* Between two critical sections rp and wp are places in the buffer.       *)
THEOREM PointersAreWrapped == Spec => []PointersWrapped
<1>1. PipeInv => PointersWrapped
  BY DEF PipeInv, BufInv
<1> QED
  BY <1>1, PipeInvariant, PTL

(* The counters count the open files, and the buffer is allocated exactly  *)
(* as long as one is open: no read or write finds it freed, and the last   *)
(* close does not leak it.                                                 *)
THEOREM BufferLivesWithItsFiles == Spec => []BufferLifetime
<1>1. PipeInv => BufferLifetime
  BY DEF PipeInv, FileInv
<1> QED
  BY <1>1, PipeInvariant, PTL

(* scull_p_release takes the file out of the fasync list, so the list only *)
(* names open files.                                                       *)
THEOREM AsyncListIsOpen == Spec => []AsyncOnlyOpen
<1>1. PipeInv => AsyncOnlyOpen
  BY DEF PipeInv, FileInv
<1> QED
  BY <1>1, PipeInvariant, PTL

-----------------------------------------------------------------------------
(* No lost wake-up for those who wait for data.                            *)

(* A step of p that puts nobody to sleep on inq, wakes no writer out of    *)
(* its duty and leaves an empty pipe empty.                                *)
LEMMA ReadersKept ==
    ASSUME PipeInv, NoLostReaderWakeup, NEW p \in Procs, NEW to, GoTo(p, to),
           to \notin {"r_sleep", "p_sleep"},
           pc[p] \notin {"w_wrap", "w_wake"},
           inq' \subseteq inq \union {p},
           \A q \in Procs \ {p} : want'[q] = want[q],
           rp' # wp' => rp # wp
    PROVE  NoLostReaderWakeup'
<1> SUFFICES ASSUME NEW q \in Procs, AsleepForData(q)', rp' # wp'
             PROVE  \E w \in Procs : pc'[w] \in {"w_wrap", "w_wake"}
  BY DEF NoLostReaderWakeup
<1>1. q # p /\ AsleepForData(q)
  BY DEF AsleepForData, GoTo, PipeInv, SemInv
<1>2. PICK w \in Procs : pc[w] \in {"w_wrap", "w_wake"}
  BY <1>1 DEF NoLostReaderWakeup
<1> QED
  BY <1>2 DEF GoTo, PipeInv, SemInv

LEMMA ReadersNext ==
    PipeInv /\ NoLostReaderWakeup /\ [Next]_vars => NoLostReaderWakeup'
<1> SUFFICES ASSUME PipeInv, NoLostReaderWakeup, [Next]_vars
             PROVE  NoLostReaderWakeup'
  OBVIOUS
<1> USE DEF bufVars, queueVars, fileVars, callVars
<1>1. CASE UNCHANGED vars
  BY <1>1 DEF vars, NoLostReaderWakeup, AsleepForData
<1>2. CASE SetSize
  BY <1>2 DEF SetSize, NoLostReaderWakeup, AsleepForData
<1>3. ASSUME NEW p \in Procs, Return(p), inq' \subseteq inq \union {p},
             pc[p] \notin {"w_wrap", "w_wake"}, UNCHANGED <<rp, wp>>
      PROVE  NoLostReaderWakeup'
  <2>1. GoTo(p, "idle") /\ \A q \in Procs \ {p} : want'[q] = want[q]
    BY <1>3 DEF Return, PipeInv, CallTypes
  <2> QED
    BY <1>3, <2>1, ReadersKept
<1>4. ASSUME NEW p \in Procs, Progress(p)
      PROVE  NoLostReaderWakeup'
  <2>1. CASE ReadDownInterrupted(p) \/ WriteDownInterrupted(p) \/ ReadFault(p)
             \/ WriteFault(p) \/ PollInterrupted(p) \/ ReadWake(p)
    BY <2>1, <1>3 DEF ReadDownInterrupted, WriteDownInterrupted, DownInterrupted,
                      ReadFault, WriteFault, PollInterrupted, PollEnd, ReadWake
  <2>2. CASE ReadEmpty(p) \/ WriteFull(p)
    <3>1. CASE Return(p)
      BY <2>2, <3>1, <1>3 DEF ReadEmpty, WriteFull
    <3>2. CASE GoTo(p, "r_wait") /\ UNCHANGED callVars
      BY <2>2, <3>2, ReadersKept DEF ReadEmpty, WriteFull
    <3>3. CASE GoTo(p, "w_prep") /\ UNCHANGED callVars
      BY <2>2, <3>3, ReadersKept DEF ReadEmpty, WriteFull
    <3> QED
      BY <2>2, <3>1, <3>2, <3>3 DEF ReadEmpty, WriteFull
  <2>3. CASE ReadCopy(p)
    BY <2>3, ReadersKept DEF ReadCopy
  <2>4. CASE ReadWrap(p)
    <3>1. rp' # wp' => rp # wp
      BY <2>4, PointersSeen, SizesAssumption DEF ReadWrap, InBuffer, PipeInv, BufInv
    <3> QED
      BY <2>4, <3>1, ReadersKept DEF ReadWrap
  <2>5. CASE ReadWait(p)
    BY <2>5, ReadersKept DEF ReadWait
  <2>6. CASE ReadCheck(p)
    <3>1. CASE rp # wp
      BY <2>6, <3>1, ReadersKept DEF ReadCheck
    <3>2. CASE rp = wp
      BY <2>6, <3>2, <1>3 DEF ReadCheck, NoLostReaderWakeup
    <3> QED
      BY <3>1, <3>2
  <2>7. CASE ReadPrepare(p) \/ ReadAwake(p) \/ WritePrepare(p) \/ WriteAwake(p)
             \/ PollAwake(p)
    BY <2>7, ReadersKept
    DEF ReadPrepare, ReadAwake, WritePrepare, WriteAwake, PollAwake
  <2>8. CASE WriteCheck(p)
    BY <2>8, ReadersKept DEF WriteCheck
  <2>9. CASE WriteFinishWait(p)
    <3>1. CASE Return(p)
      BY <2>9, <3>1, <1>3 DEF WriteFinishWait
    <3>2. CASE GoTo(p, "w_down") /\ UNCHANGED callVars
      BY <2>9, <3>2, ReadersKept DEF WriteFinishWait
    <3> QED
      BY <2>9, <3>1, <3>2 DEF WriteFinishWait
  <2>10. CASE WriteCopy(p) \/ WriteWrap(p)
    <3>1. pc'[p] \in {"w_wrap", "w_wake"}
      BY <2>10 DEF WriteCopy, WriteWrap, GoTo, PipeInv, SemInv, Labels
    <3> QED
      BY <3>1 DEF NoLostReaderWakeup
  <2>11. CASE WriteWake(p)
    BY <2>11 DEF WriteWake, NoLostReaderWakeup, AsleepForData
  <2>12. CASE WriteSigio(p)
    BY <2>12, ReadersKept DEF WriteSigio
  <2> QED
    BY <1>4, <2>1, <2>2, <2>3, <2>4, <2>5, <2>6, <2>7, <2>8, <2>9, <2>10, <2>11,
       <2>12
    DEF Progress
<1>5. ASSUME NEW p \in Procs, Acquire(p)
      PROVE  NoLostReaderWakeup'
  <2>1. CASE ReadDown(p) \/ WriteDown(p)
    BY <2>1, ReadersKept DEF ReadDown, WriteDown, Down
  <2>2. CASE Release(p)
    BY <2>2, ReadersKept DEF Release, GoTo
  <2>3. CASE Poll(p)
    <3>1. CASE PollMask \intersect want[p] # {}
      BY <2>3, <3>1, <1>3 DEF Poll
    <3>2. CASE PollMask \intersect want[p] = {}
      <4>1. rp # wp => "in" \notin want[p]
        BY <3>2 DEF PollMask
      <4>2. /\ pc' = [pc EXCEPT ![p] = "p_sleep"] /\ pc[p] = "p_down"
            /\ inq' = inq \union {p} /\ UNCHANGED <<want, rp, wp>>
        BY <2>3, <3>2 DEF Poll, GoTo
      <4> QED
        BY <4>1, <4>2 DEF NoLostReaderWakeup, AsleepForData, PipeInv, SemInv
    <3> QED
      BY <3>1, <3>2
  <2> QED
    BY <1>5, <2>1, <2>2, <2>3 DEF Acquire
<1>6. ASSUME NEW p \in Procs, Environment(p)
      PROVE  NoLostReaderWakeup'
  <2>1. CASE Open(p)
    BY <2>1 DEF Open, NoLostReaderWakeup
  <2>2. CASE Close(p) \/ ReadCall(p) \/ WriteCall(p)
    BY <2>2, ReadersKept DEF Close, ReadCall, WriteCall
  <2>3. CASE PollCall(p)
    <3>1. \A q \in Procs \ {p} : want'[q] = want[q]
      BY <2>3 DEF PollCall, PipeInv, CallTypes
    <3> QED
      BY <2>3, <3>1, ReadersKept DEF PollCall
  <2>4. CASE PollTimeout(p)
    BY <2>4, <1>3 DEF PollTimeout, PollEnd
  <2>5. CASE Fasync(p) \/ Signal(p)
    BY <2>5 DEF Fasync, Signal, NoLostReaderWakeup, AsleepForData
  <2> QED
    BY <1>6, <2>1, <2>2, <2>3, <2>4, <2>5 DEF Environment
<1> QED
  BY <1>1, <1>2, <1>4, <1>5, <1>6 DEF Next

(* A process asleep until there is data, which no wake-up has reached,     *)
(* never sleeps next to data unless a writer is about to wake it: the test *)
(* without the semaphore loses no wake-up of scull_p_write.                *)
THEOREM NoReaderIsForgotten == Spec => []NoLostReaderWakeup
<1>1. Init => NoLostReaderWakeup
  BY DEF Init, NoLostReaderWakeup
<1> QED
  BY <1>1, PipeInvariant, ReadersNext, PTL DEF Spec
-----------------------------------------------------------------------------
(* No lost wake-up for those who wait for space, when no open comes in     *)
(* while calls are in progress.                                            *)

LEMMA Modulo ==
    ASSUME NEW s \in Nat \ {0}, NEW x \in Nat, x < s
    PROVE  x % s = x /\ (x + s) % s = x
OBVIOUS

(* Wrapping wp makes no space that was not there.                          *)
LEMMA WrapKeepsSpace ==
    ASSUME PipeInv, NEW p \in Procs, WriteWrap(p), SpaceFree' # 0
    PROVE  SpaceFree # 0
<1>1. InBuffer(rp) /\ rp' = rp /\ buffersize' = buffersize
  BY PointersSeen DEF WriteWrap, PipeInv
<1>2. CASE wp # buffersize
  BY <1>1, <1>2 DEF WriteWrap, SpaceFree
<1>3. CASE wp = buffersize
  <2>1. wp' = 0
    BY <1>3 DEF WriteWrap
  <2>2. buffersize \in Nat /\ rp \in Nat
    BY SizesAssumption DEF PipeInv, BufInv
  <2>3. CASE buffersize = 0
    BY <1>1, <1>3, <2>2, <2>3 DEF SpaceFree, InBuffer, PipeInv, BufInv, PointersWrapped
  <2>4. CASE buffersize # 0 /\ rp = 0
    <3>1. SpaceFree = ((0 + buffersize - buffersize) % buffersize) - 1
      BY <1>3, <2>4 DEF SpaceFree
    <3>2. 0 + buffersize - buffersize = 0
      BY <2>2
    <3>3. 0 % buffersize = 0
      BY <2>2, <2>4, Modulo
    <3> QED
      BY <3>1, <3>2, <3>3
  <2>5. CASE buffersize # 0 /\ rp # 0
    <3>1. rp < buffersize
      BY <1>1, <2>5 DEF InBuffer
    <3>2. SpaceFree = ((rp + buffersize - buffersize) % buffersize) - 1
      BY <1>3, <3>1, <2>2 DEF SpaceFree
    <3>3. SpaceFree' = ((rp + buffersize - 0) % buffersize) - 1
      BY <1>1, <2>1, <2>5 DEF SpaceFree
    <3>4. rp + buffersize - buffersize = rp /\ rp + buffersize - 0 = rp + buffersize
      BY <2>2
    <3>5. rp % buffersize = rp /\ (rp + buffersize) % buffersize = rp
      BY <2>2, <2>5, <3>1, Modulo
    <3> QED
      BY <3>2, <3>3, <3>4, <3>5
  <2> QED
    BY <2>3, <2>4, <2>5
<1> QED
  BY <1>2, <1>3
(* A step of p that puts nobody to sleep on outq, keeps no reader from its *)
(* duty and leaves a full pipe full.                                       *)
LEMMA WritersKept ==
    ASSUME PipeInv, NoLostWriterWakeup, NEW p \in Procs, NEW to, GoTo(p, to),
           to \notin {"w_sleep", "p_sleep"},
           pc[p] \notin {"r_wrap", "r_wake"},
           outq' \subseteq outq \union {p},
           \A q \in Procs \ {p} : want'[q] = want[q],
           SpaceFree' # 0 => SpaceFree # 0
    PROVE  NoLostWriterWakeup'
<1> SUFFICES ASSUME NEW q \in Procs, AsleepForSpace(q)', SpaceFree' # 0
             PROVE  \E r \in Procs : pc'[r] \in {"r_wrap", "r_wake"}
  BY DEF NoLostWriterWakeup
<1>1. q # p /\ AsleepForSpace(q)
  BY DEF AsleepForSpace, GoTo, PipeInv, SemInv
<1>2. PICK r \in Procs : pc[r] \in {"r_wrap", "r_wake"}
  BY <1>1 DEF NoLostWriterWakeup
<1> QED
  BY <1>2 DEF GoTo, PipeInv, SemInv

LEMMA SameSpace ==
    ASSUME UNCHANGED <<rp, wp, buffersize>>
    PROVE  SpaceFree' = SpaceFree
BY DEF SpaceFree

LEMMA WritersNext ==
    ~LateOpen /\ PipeInv /\ NoLostWriterWakeup /\ [Next]_vars => NoLostWriterWakeup'
<1> SUFFICES ASSUME ~LateOpen, PipeInv, NoLostWriterWakeup, [Next]_vars
             PROVE  NoLostWriterWakeup'
  OBVIOUS
<1> USE DEF bufVars, queueVars, fileVars, callVars
<1>1. CASE UNCHANGED vars
  BY <1>1, SameSpace DEF vars, NoLostWriterWakeup, AsleepForSpace
<1>2. CASE SetSize
  BY <1>2, SameSpace DEF SetSize, NoLostWriterWakeup, AsleepForSpace
<1>3. ASSUME NEW p \in Procs, Return(p), outq' \subseteq outq \union {p},
             pc[p] \notin {"r_wrap", "r_wake"}, UNCHANGED <<rp, wp, buffersize>>
      PROVE  NoLostWriterWakeup'
  <2>1. GoTo(p, "idle") /\ \A q \in Procs \ {p} : want'[q] = want[q]
    BY <1>3 DEF Return, PipeInv, CallTypes
  <2> QED
    BY <1>3, <2>1, SameSpace, WritersKept
<1>4. ASSUME NEW p \in Procs, Progress(p)
      PROVE  NoLostWriterWakeup'
  <2>1. CASE ReadDownInterrupted(p) \/ WriteDownInterrupted(p) \/ ReadFault(p)
             \/ WriteFault(p) \/ PollInterrupted(p)
    BY <2>1, <1>3 DEF ReadDownInterrupted, WriteDownInterrupted, DownInterrupted,
                      ReadFault, WriteFault, PollInterrupted, PollEnd
  <2>2. CASE ReadEmpty(p) \/ WriteFull(p)
    <3>1. CASE Return(p)
      BY <2>2, <3>1, <1>3 DEF ReadEmpty, WriteFull
    <3>2. CASE GoTo(p, "r_wait") /\ UNCHANGED callVars
      BY <2>2, <3>2, SameSpace, WritersKept DEF ReadEmpty, WriteFull
    <3>3. CASE GoTo(p, "w_prep") /\ UNCHANGED callVars
      BY <2>2, <3>3, SameSpace, WritersKept DEF ReadEmpty, WriteFull
    <3> QED
      BY <2>2, <3>1, <3>2, <3>3 DEF ReadEmpty, WriteFull
  <2>3. CASE ReadCopy(p) \/ ReadWrap(p)
    <3>1. pc'[p] \in {"r_wrap", "r_wake"}
      BY <2>3 DEF ReadCopy, ReadWrap, GoTo, PipeInv, SemInv
    <3> QED
      BY <3>1 DEF NoLostWriterWakeup
  <2>4. CASE ReadWake(p)
    BY <2>4 DEF ReadWake, NoLostWriterWakeup, AsleepForSpace
  <2>5. CASE ReadWait(p)
    BY <2>5, SameSpace, WritersKept DEF ReadWait
  <2>6. CASE ReadCheck(p)
    <3>1. CASE Return(p)
      BY <2>6, <3>1, <1>3 DEF ReadCheck
    <3>2. CASE GoTo(p, "r_down") /\ UNCHANGED callVars
      BY <2>6, <3>2, SameSpace, WritersKept DEF ReadCheck
    <3>3. CASE GoTo(p, "r_sleep") /\ UNCHANGED callVars
      BY <2>6, <3>3, SameSpace, WritersKept DEF ReadCheck
    <3> QED
      BY <2>6, <3>1, <3>2, <3>3 DEF ReadCheck
  <2>7. CASE ReadPrepare(p) \/ ReadAwake(p) \/ WritePrepare(p) \/ WriteAwake(p)
             \/ PollAwake(p) \/ WriteWake(p)
    BY <2>7, SameSpace, WritersKept
    DEF ReadPrepare, ReadAwake, WritePrepare, WriteAwake, PollAwake, WriteWake
  <2>8. CASE WriteCheck(p)
    <3>1. CASE SpaceFree = 0
      BY <2>8, <3>1, SameSpace DEF WriteCheck, NoLostWriterWakeup
    <3>2. CASE SpaceFree # 0
      <4>1. GoTo(p, "w_finish")
        BY <2>8, <3>2 DEF WriteCheck
      <4> QED
        BY <2>8, <4>1, SameSpace, WritersKept DEF WriteCheck
    <3> QED
      BY <3>1, <3>2
  <2>9. CASE WriteFinishWait(p)
    <3>1. CASE Return(p)
      BY <2>9, <3>1, <1>3 DEF WriteFinishWait
    <3>2. CASE GoTo(p, "w_down") /\ UNCHANGED callVars
      BY <2>9, <3>2, SameSpace, WritersKept DEF WriteFinishWait
    <3> QED
      BY <2>9, <3>1, <3>2 DEF WriteFinishWait
  <2>10. CASE WriteCopy(p)
    BY <2>10, WritersKept DEF WriteCopy
  <2>11. CASE WriteWrap(p)
    BY <2>11, WrapKeepsSpace, WritersKept DEF WriteWrap
  <2>12. CASE WriteSigio(p)
    BY <2>12, SameSpace, WritersKept DEF WriteSigio
  <2> QED
    BY <1>4, <2>1, <2>2, <2>3, <2>4, <2>5, <2>6, <2>7, <2>8, <2>9, <2>10, <2>11,
       <2>12
    DEF Progress
<1>5. ASSUME NEW p \in Procs, Acquire(p)
      PROVE  NoLostWriterWakeup'
  <2>1. CASE ReadDown(p) \/ WriteDown(p)
    BY <2>1, SameSpace, WritersKept DEF ReadDown, WriteDown, Down
  <2>2. CASE Release(p)
    BY <2>2, SameSpace, WritersKept DEF Release, GoTo
  <2>3. CASE Poll(p)
    <3>1. CASE PollMask \intersect want[p] # {}
      BY <2>3, <3>1, <1>3 DEF Poll
    <3>2. CASE PollMask \intersect want[p] = {}
      <4>1. SpaceFree # 0 => "out" \notin want[p]
        BY <3>2 DEF PollMask
      <4>2. /\ pc' = [pc EXCEPT ![p] = "p_sleep"] /\ pc[p] = "p_down"
            /\ outq' = outq \union {p} /\ want' = want /\ SpaceFree' = SpaceFree
        BY <2>3, <3>2, SameSpace DEF Poll, GoTo
      <4> QED
        BY <4>1, <4>2 DEF NoLostWriterWakeup, AsleepForSpace, PipeInv, SemInv
    <3> QED
      BY <3>1, <3>2
  <2> QED
    BY <1>5, <2>1, <2>2, <2>3 DEF Acquire
<1>6. ASSUME NEW p \in Procs, Environment(p)
      PROVE  NoLostWriterWakeup'
  <2>1. CASE Open(p)
    <3>1. \A q \in Procs : pc'[q] \in {"closed", "idle"}
      BY <2>1 DEF Open, Quiescent, InCall, GoTo, PipeInv, SemInv
    <3> QED
      BY <3>1 DEF NoLostWriterWakeup, AsleepForSpace
  <2>2. CASE Close(p) \/ ReadCall(p) \/ WriteCall(p)
    BY <2>2, SameSpace, WritersKept DEF Close, ReadCall, WriteCall
  <2>3. CASE PollCall(p)
    <3>1. \A q \in Procs \ {p} : want'[q] = want[q]
      BY <2>3 DEF PollCall, PipeInv, CallTypes
    <3> QED
      BY <2>3, <3>1, SameSpace, WritersKept DEF PollCall
  <2>4. CASE PollTimeout(p)
    BY <2>4, <1>3 DEF PollTimeout, PollEnd
  <2>5. CASE Fasync(p) \/ Signal(p)
    BY <2>5, SameSpace DEF Fasync, Signal, NoLostWriterWakeup, AsleepForSpace
  <2> QED
    BY <1>6, <2>1, <2>2, <2>3, <2>4, <2>5 DEF Environment
<1> QED
  BY <1>1, <1>2, <1>4, <1>5, <1>6 DEF Next

(* When the device is only opened while no call is in progress, a process  *)
(* asleep until there is space never sleeps next to space unless a reader  *)
(* is about to wake it: scull_getwritespace loses no wake-up.              *)
THEOREM NoWriterIsForgotten ==
    ASSUME ~LateOpen
    PROVE  Spec => []NoLostWriterWakeup
<1>1. Init => NoLostWriterWakeup
  BY DEF Init, NoLostWriterWakeup, AsleepForSpace
<1>2. PipeInv /\ NoLostWriterWakeup /\ [Next]_vars => NoLostWriterWakeup'
  BY WritersNext
<1> QED
  BY <1>1, <1>2, PipeInvariant, PTL DEF Spec

(* Under the same condition a reader and a writer never sleep on each      *)
(* other: an empty pipe has space and a full one has data.                 *)
THEOREM NoDeadlockOfReaderAndWriter ==
    ASSUME ~LateOpen
    PROVE  Spec => []NoMutualSleep
<1>1. PipeInv /\ NoLostReaderWakeup /\ NoLostWriterWakeup => NoMutualSleep
  <2> SUFFICES ASSUME PipeInv, NoLostReaderWakeup, NoLostWriterWakeup,
                      NEW p \in Procs, NEW q \in Procs,
                      AsleepForData(p), AsleepForSpace(q), buffersize >= 2
               PROVE  \E h \in Procs : pc[h] \in {"r_wrap", "r_wake", "w_wrap", "w_wake"}
    BY DEF NoMutualSleep
  <2>1. CASE rp # wp
    BY <2>1 DEF NoLostReaderWakeup
  <2>2. CASE rp = wp
    <3>1. SpaceFree # 0
      BY <2>2, SizesAssumption DEF SpaceFree, PipeInv, BufInv
    <3> QED
      BY <3>1 DEF NoLostWriterWakeup
  <2> QED
    BY <2>1, <2>2
<1> QED
  BY <1>1, PipeInvariant, NoReaderIsForgotten, NoWriterIsForgotten, PTL

-----------------------------------------------------------------------------
(* The end of the buffer.                                                  *)

(* When scull_p_buffer only changes while the device is closed, dev->end   *)
(* is the end of the allocated block, so that the pointers, which never    *)
(* pass dev->end, never leave the block.                                   *)
THEOREM EndIsRight ==
    ASSUME ~LateResize
    PROVE  Spec => []EndIsEndOfBuffer
<1> DEFINE Inv == EndIsEndOfBuffer /\ (buffer # NULL => scull_p_buffer = buffer)
<1>1. Init => Inv
  BY DEF Init, EndIsEndOfBuffer
<1>2. PipeInv /\ Inv /\ [Next]_vars => Inv'
  <2> SUFFICES ASSUME PipeInv, Inv, [Next]_vars PROVE Inv'
    OBVIOUS
  <2> USE DEF EndIsEndOfBuffer
  <2>1. CASE UNCHANGED <<buffer, buffersize, scull_p_buffer>>
    BY <2>1
  <2>2. CASE SetSize
    BY <2>2 DEF SetSize, bufVars
  <2>3. ASSUME NEW p \in Procs, Open(p) PROVE Inv'
    BY <2>3 DEF Open
  <2>4. ASSUME NEW p \in Procs, Release(p) PROVE Inv'
    BY <2>4 DEF Release
  <2>5. ASSUME NEW p \in Procs, Progress(p) \/ Acquire(p) \/ Environment(p),
               ~Open(p), ~Release(p)
        PROVE  UNCHANGED <<buffer, buffersize, scull_p_buffer>>
    <3> USE DEF bufVars, fileVars
    <3>1. CASE Progress(p)
      BY <3>1
      DEF Progress, ReadDownInterrupted, WriteDownInterrupted, DownInterrupted,
          ReadEmpty, ReadCopy, ReadFault, ReadWrap, ReadWake, ReadWait, ReadPrepare,
          ReadCheck, ReadAwake, WriteFull, WritePrepare, WriteCheck, WriteAwake,
          WriteFinishWait, WriteCopy, WriteFault, WriteWrap, WriteWake, WriteSigio,
          PollAwake, PollInterrupted, PollEnd
    <3>2. CASE Acquire(p)
      BY <2>5, <3>2 DEF Acquire, ReadDown, WriteDown, Down, Poll
    <3>3. CASE Environment(p)
      BY <2>5, <3>3 DEF Environment, Close, Fasync, Signal, ReadCall, WriteCall,
                        PollCall, PollTimeout, PollEnd
    <3> QED
      BY <2>5, <3>1, <3>2, <3>3
  <2>6. CASE UNCHANGED vars
    BY <2>6, <2>1 DEF vars, bufVars, fileVars
  <2> QED
    BY <2>1, <2>2, <2>3, <2>4, <2>5, <2>6 DEF Next
<1>3. Inv => EndIsEndOfBuffer
  OBVIOUS
<1> HIDE DEF Inv
<1> QED
  BY <1>1, <1>2, <1>3, PipeInvariant, PTL DEF Spec

-----------------------------------------------------------------------------
(* The queue.  The bytes between the pointers r and w of a buffer of n     *)
(* bytes: how many, where, and which.                                      *)

Amount(r, w, n) == IF w >= r THEN w - r ELSE w + n - r
Place(r, i, n) == IF r + i - 1 < n THEN r + i - 1 ELSE r + i - 1 - n
Stored(m, r, w, n) == [i \in 1..Amount(r, w, n) |-> m[Place(r, i, n)]]

ByteSet == Bytes \union {Junk}
Memory == [0..(MaxSize - 1) -> ByteSet]

LEMMA AmountTypes ==
    ASSUME NEW n \in 0..MaxSize, NEW r \in 0..n, NEW w \in 0..n, r = 0 => w < n \/ n = 0
    PROVE  /\ Amount(r, w, n) \in Nat
           /\ n > 0 => Amount(r, w, n) < n
           /\ \A i \in 1..Amount(r, w, n) :
                 Place(r, i, n) \in 0..(n - 1) /\ Place(r, i, n) \in 0..(MaxSize - 1)
BY SizesAssumption DEF Amount, Place

LEMMA StoredTypes ==
    ASSUME NEW m \in Memory, NEW n \in 0..MaxSize, NEW r \in 0..n, NEW w \in 0..n,
           r = 0 => w < n \/ n = 0
    PROVE  /\ Stored(m, r, w, n) \in Seq(ByteSet)
           /\ Len(Stored(m, r, w, n)) = Amount(r, w, n)
           /\ \A i \in 1..Amount(r, w, n) : Stored(m, r, w, n)[i] = m[Place(r, i, n)]
<1> DEFINE a == Amount(r, w, n)
<1>1. a \in Nat /\ \A i \in 1..a : Place(r, i, n) \in 0..(MaxSize - 1)
  BY AmountTypes
<1> HIDE DEF a
<1>2. [i \in 1..a |-> m[Place(r, i, n)]] \in [1..a -> ByteSet]
  BY <1>1 DEF Memory
<1>3. Stored(m, r, w, n) = [i \in 1..a |-> m[Place(r, i, n)]]
  BY DEF Stored, a
<1>4. Stored(m, r, w, n) \in Seq(ByteSet)
  BY <1>1, <1>2, <1>3, FunctionIsSeq
<1>5. Len(Stored(m, r, w, n)) = a
  BY <1>1, <1>3, <1>4, LenProperties
<1> QED
  BY <1>3, <1>4, <1>5 DEF a

(* Content is these bytes.                                                 *)
LapInv == rp = 0 => wp < buffersize \/ buffersize = 0

LEMMA ContentIs ==
    ASSUME BufInv, LapInv
    PROVE  Content = IF buffer = NULL THEN <<>> ELSE Stored(mem, rp, wp, buffersize)
<1> DEFINE n == buffersize
<1>1. n \in 0..MaxSize /\ rp \in 0..n /\ wp \in 0..n /\ mem \in Memory
  BY SizesAssumption DEF BufInv, PointersWrapped, Memory, ByteSet
<1>2. CASE rp = wp
  <2>1. Amount(rp, wp, n) = 0
    BY <1>1, <1>2, SizesAssumption DEF Amount
  <2>2. Stored(mem, rp, wp, n) = <<>>
    BY <2>1 DEF Stored
  <2> QED
    BY <1>2, <2>2 DEF Content
<1>3. CASE rp # wp
  <2>1. n \in Nat \ {0}
    BY <1>1, <1>3, SizesAssumption
  <2>2. (wp + n - rp) % n = Amount(rp, wp, n)
    <3>1. CASE wp > rp
      <4>1. wp - rp \in Nat /\ wp - rp < n
        BY <1>1, <3>1, SizesAssumption DEF LapInv
      <4>2. ((wp - rp) + n) % n = wp - rp
        BY <2>1, <4>1, Modulo
      <4>3. wp + n - rp = (wp - rp) + n
        BY <1>1, SizesAssumption
      <4> QED
        BY <1>1, <3>1, <4>2, <4>3 DEF Amount
    <3>2. CASE wp < rp
      <4>1. wp + n - rp \in Nat /\ wp + n - rp < n
        BY <1>1, <3>2, SizesAssumption
      <4>2. (wp + n - rp) % n = wp + n - rp
        BY <2>1, <4>1, Modulo
      <4> QED
        BY <1>1, <3>2, <4>2 DEF Amount
    <3> QED
      BY <1>1, <1>3, <3>1, <3>2, SizesAssumption
  <2>3. ASSUME NEW i \in 1..Amount(rp, wp, n)
        PROVE  (rp + i - 1) % n = Place(rp, i, n)
    <3>1. i \in Nat \ {0} /\ i < n
      <4>1. Amount(rp, wp, n) \in Nat /\ Amount(rp, wp, n) < n
        BY <1>1, <2>1, SizesAssumption DEF LapInv, Amount
      <4> QED
        BY <2>1, <4>1
    <3>2. CASE rp + i - 1 < n
      <4>1. rp + i - 1 \in Nat
        BY <1>1, <3>1, SizesAssumption
      <4> QED
        BY <2>1, <3>2, <4>1, Modulo DEF Place
    <3>3. CASE ~(rp + i - 1 < n)
      <4>1. rp + i - 1 - n \in Nat /\ rp + i - 1 - n < n
        BY <1>1, <3>1, <3>3, SizesAssumption
      <4>2. ((rp + i - 1 - n) + n) % n = rp + i - 1 - n
        BY <2>1, <4>1, Modulo
      <4>3. (rp + i - 1 - n) + n = rp + i - 1
        BY <1>1, <3>1, SizesAssumption
      <4> QED
        BY <3>3, <4>2, <4>3 DEF Place
    <3> QED
      BY <3>2, <3>3
  <2>4. [i \in 1..((wp + n - rp) % n) |-> mem[(rp + i - 1) % n]] = Stored(mem, rp, wp, n)
    BY <2>2, <2>3 DEF Stored
  <2> QED
    BY <1>3, <2>4 DEF Content
<1> QED
  BY <1>2, <1>3

(* Wrapping a pointer leaves the bytes as they are.                        *)
LEMMA WrapsKeepBytes ==
    ASSUME NEW m, NEW n \in Nat, NEW x \in Nat, x < n
    PROVE  /\ Stored(m, n, x, n) = Stored(m, 0, x, n)
           /\ x # 0 => Stored(m, x, n, n) = Stored(m, x, 0, n)
<1>1. Amount(n, x, n) = x /\ Amount(0, x, n) = x
  BY DEF Amount
<1>2. \A i \in 1..x : Place(n, i, n) = Place(0, i, n)
  BY DEF Place
<1>3. x # 0 => Amount(x, n, n) = Amount(x, 0, n)
  BY DEF Amount
<1> QED
  BY <1>1, <1>2, <1>3 DEF Stored

(* Advancing the read pointer by k takes the first k bytes.                *)
LEMMA ReadTakesBytes ==
    ASSUME NEW m \in Memory, NEW n \in 0..MaxSize, NEW r \in 0..n, NEW w \in 0..n,
           r = 0 => w < n \/ n = 0,
           NEW k \in Nat, k <= n - r, r # w, w > r => k <= w - r
    PROVE  /\ k <= Amount(r, w, n)
           /\ r + k = 0 => w < n \/ n = 0
           /\ [i \in 1..k |-> m[r + i - 1]] = SubSeq(Stored(m, r, w, n), 1, k)
           /\ Stored(m, r + k, w, n) =
                 SubSeq(Stored(m, r, w, n), k + 1, Len(Stored(m, r, w, n)))
<1> DEFINE a == Amount(r, w, n)
           q == Stored(m, r, w, n)
<1>1. /\ a \in Nat /\ k <= a /\ r + k \in 0..n /\ (r + k = 0 => w < n \/ n = 0)
      /\ Amount(r + k, w, n) = a - k
  BY SizesAssumption DEF Amount
<1>2. \A i \in 1..k : Place(r, i, n) = r + i - 1
  BY SizesAssumption DEF Place
<1>3. \A i \in 1..(a - k) : Place(r + k, i, n) = Place(r, k + i, n) /\ k + i \in 1..a
  BY <1>1, SizesAssumption DEF Place
<1>4. q \in Seq(ByteSet) /\ Len(q) = a /\ \A i \in 1..a : q[i] = m[Place(r, i, n)]
  BY StoredTypes
<1>5. /\ Stored(m, r + k, w, n) \in Seq(ByteSet) /\ Len(Stored(m, r + k, w, n)) = a - k
      /\ \A i \in 1..(a - k) : Stored(m, r + k, w, n)[i] = m[Place(r + k, i, n)]
  <2> DEFINE x == r + k
  <2>1. x \in 0..n /\ (x = 0 => w < n \/ n = 0) /\ Amount(x, w, n) = a - k
    BY <1>1
  <2> HIDE DEF x, a
  <2>2. /\ Stored(m, x, w, n) \in Seq(ByteSet)
        /\ Len(Stored(m, x, w, n)) = Amount(x, w, n)
        /\ \A i \in 1..Amount(x, w, n) : Stored(m, x, w, n)[i] = m[Place(x, i, n)]
    BY <2>1, StoredTypes
  <2> QED
    BY <2>1, <2>2 DEF x
<1> HIDE DEF a, q
<1>6. [i \in 1..k |-> m[r + i - 1]] = SubSeq(q, 1, k)
  <2> DEFINE f == [i \in 1..k |-> m[r + i - 1]]
  <2>1. /\ SubSeq(q, 1, k) \in Seq(ByteSet) /\ Len(SubSeq(q, 1, k)) = k
        /\ \A i \in 1..k : SubSeq(q, 1, k)[i] = q[i]
    BY <1>1, <1>4, SubSeqProperties
  <2>2. \A i \in 1..k : m[r + i - 1] = q[i] /\ q[i] \in ByteSet
    BY <1>1, <1>2, <1>4
  <2>3. f \in [1..k -> ByteSet]
    BY <2>2
  <2>4. f \in Seq(ByteSet)
    BY <2>3, FunctionIsSeq
  <2>5. Len(f) = k /\ \A i \in 1..k : f[i] = SubSeq(q, 1, k)[i]
    BY <2>1, <2>2, <2>4, LenProperties
  <2> HIDE DEF f
  <2>6. f = SubSeq(q, 1, k)
    BY <2>1, <2>4, <2>5, SeqEqual
  <2> QED
    BY <2>6 DEF f
<1>7. Stored(m, r + k, w, n) = SubSeq(q, k + 1, a)
  <2> DEFINE s == SubSeq(q, k + 1, a)
             f == Stored(m, r + k, w, n)
  <2>1. \A i \in (k + 1)..a : q[i] \in ByteSet
    BY <1>1, <1>4
  <2>2. /\ s \in Seq(ByteSet) /\ Len(s) = a - k
        /\ \A i \in 1..(a - k) : s[i] = q[k + i]
    <3>1. k + 1 \in Int /\ a \in Int /\ a - (k + 1) + 1 = a - k
          /\ (IF k + 1 <= a THEN a - (k + 1) + 1 ELSE 0) = a - k
          /\ \A i \in 1..(a - k) : (k + 1) + i - 1 = k + i
      BY <1>1
    <3>2. /\ s \in Seq(ByteSet) /\ Len(s) = IF k + 1 <= a THEN a - (k + 1) + 1 ELSE 0
          /\ \A i \in 1 .. a - (k + 1) + 1 : s[i] = q[(k + 1) + i - 1]
      BY <2>1, <3>1, SubSeqProperties
    <3> HIDE DEF s
    <3> QED
      BY <3>1, <3>2
  <2>3. \A i \in 1..(a - k) : f[i] = s[i]
    BY <1>3, <1>4, <1>5, <2>2
  <2> HIDE DEF f, s
  <2>4. f \in Seq(ByteSet) /\ Len(f) = a - k
    BY <1>5 DEF f
  <2>5. f = s
    BY <2>2, <2>3, <2>4, SeqEqual
  <2> QED
    BY <2>5 DEF f, s
<1> QED
  BY <1>1, <1>4, <1>6, <1>7 DEF a, q

(* Storing k bytes at the write pointer and advancing it appends them.     *)
Overwritten(m, w, d, k) ==
    [i \in 0..(MaxSize - 1) |-> IF i \in w..(w + k - 1) THEN d[i - w + 1] ELSE m[i]]

LEMMA WriteAppendsBytes ==
    ASSUME NEW m \in Memory, NEW n \in 0..MaxSize, NEW r \in 0..n, NEW w \in 0..n,
           r = 0 => w < n \/ n = 0,
           NEW d \in Seq(ByteSet), NEW k \in 0..Len(d), k <= n - w,
           Amount(r, w, n) + k < n, r > w => k < r - w,
           Overwritten(m, w, d, k) \in Memory
    PROVE  /\ r = 0 => w + k < n \/ n = 0
           /\ Stored(Overwritten(m, w, d, k), r, w + k, n) =
                 Stored(m, r, w, n) \o SubSeq(d, 1, k)
<1> DEFINE a == Amount(r, w, n)
           q == Stored(m, r, w, n)
           s == SubSeq(d, 1, k)
           g == Overwritten(m, w, d, k)
           f == Stored(g, r, w + k, n)
<1>0. /\ g = [i \in 0..(MaxSize - 1) |-> IF i \in w..(w + k - 1) THEN d[i - w + 1] ELSE m[i]]
      /\ g \in Memory
  BY DEF Overwritten
<1> HIDE DEF g
<1>1. /\ a \in Nat /\ k \in Nat /\ w + k \in 0..n /\ Amount(r, w + k, n) = a + k
      /\ (r = 0 => w + k < n \/ n = 0)
  <2>1. k \in Nat
    BY LenProperties
  <2> QED
    BY <2>1, SizesAssumption DEF Amount
<1>2. \A i \in 1..a : Place(r, i, n) \in 0..(MaxSize - 1) /\ Place(r, i, n) \notin w..(w + k - 1)
  BY <1>1, SizesAssumption DEF Amount, Place
<1>3. \A i \in 1..k : Place(r, a + i, n) = w + i - 1 /\ w + i - 1 \in 0..(MaxSize - 1)
  BY <1>1, SizesAssumption DEF Amount, Place
<1>4. q \in Seq(ByteSet) /\ Len(q) = a /\ \A i \in 1..a : q[i] = m[Place(r, i, n)]
  BY StoredTypes
<1>5. /\ f \in Seq(ByteSet) /\ Len(f) = a + k
      /\ \A i \in 1..(a + k) : f[i] = g[Place(r, i, n)]
  <2> DEFINE x == w + k
  <2>1. x \in 0..n /\ (r = 0 => x < n \/ n = 0) /\ Amount(r, x, n) = a + k /\ f = Stored(g, r, x, n)
    BY <1>1
  <2> HIDE DEF x, a, f
  <2>2. /\ Stored(g, r, x, n) \in Seq(ByteSet)
        /\ Len(Stored(g, r, x, n)) = Amount(r, x, n)
        /\ \A i \in 1..Amount(r, x, n) : Stored(g, r, x, n)[i] = g[Place(r, i, n)]
    BY <1>0, <2>1, StoredTypes
  <2> QED
    BY <2>1, <2>2
<1>6. s \in Seq(ByteSet) /\ Len(s) = k /\ \A i \in 1..k : s[i] = d[i]
  <2>1. \A i \in 1..k : d[i] \in ByteSet
    BY <1>1
  <2> QED
    BY <1>1, <2>1, SubSeqProperties
<1> HIDE DEF a, q, s, f
<1>7. /\ q \o s \in Seq(ByteSet) /\ Len(q \o s) = a + k
      /\ \A i \in 1..(a + k) : (q \o s)[i] = IF i <= a THEN q[i] ELSE s[i - a]
  BY <1>4, <1>6, ConcatProperties
<1>8. ASSUME NEW i \in 1..(a + k)
      PROVE  f[i] = (q \o s)[i]
  <2>1. CASE i <= a
    <3>1. i \in 1..a
      BY <1>1, <2>1
    <3>2. g[Place(r, i, n)] = m[Place(r, i, n)]
      BY <1>0, <1>2, <3>1
    <3> QED
      BY <1>4, <1>5, <1>7, <2>1, <3>1, <3>2
  <2>2. CASE ~(i <= a)
    <3>1. i - a \in 1..k /\ a + (i - a) = i
      BY <1>1, <2>2
    <3>2. Place(r, i, n) = w + (i - a) - 1 /\ w + (i - a) - 1 \in 0..(MaxSize - 1)
      BY <1>3, <3>1
    <3>3. w + (i - a) - 1 \in w..(w + k - 1) /\ w + (i - a) - 1 - w + 1 = i - a
      BY <1>1, <3>1
    <3>4. g[w + (i - a) - 1] = d[i - a]
      <4> DEFINE y == w + (i - a) - 1
      <4>1. y \in 0..(MaxSize - 1)
        BY <3>2
      <4>2. y \in w..(w + k - 1)
        BY <3>3
      <4>3. y - w + 1 = i - a
        BY <1>1, <3>1
      <4> HIDE DEF y
      <4>4. g[y] = d[y - w + 1]
        BY <1>0, <4>1, <4>2
      <4> QED
        BY <4>3, <4>4 DEF y
    <3>5. (q \o s)[i] = s[i - a]
      BY <1>7, <2>2
    <3> QED
      BY <1>5, <1>6, <3>1, <3>2, <3>4, <3>5
  <2> QED
    BY <2>1, <2>2
<1>9. f = q \o s
  BY <1>5, <1>7, <1>8, SeqEqual
<1> QED
  BY <1>1, <1>9 DEF f, g, q, s

(* spacefree() is what the bytes leave, but for the one that keeps full    *)
(* and empty apart.                                                        *)
LEMMA SpaceIsLeft ==
    ASSUME BufInv, InBuffer(rp), InBuffer(wp)
    PROVE  SpaceFree = buffersize - 1 - Amount(rp, wp, buffersize)
<1> DEFINE n == buffersize
<1>1. n \in Nat /\ rp \in 0..n /\ wp \in 0..n
  BY SizesAssumption DEF BufInv, PointersWrapped
<1>2. CASE rp = wp
  BY <1>1, <1>2 DEF SpaceFree, Amount
<1>3. CASE rp # wp
  <2>1. n \in Nat \ {0} /\ rp < n /\ wp < n
    BY <1>1, <1>3 DEF InBuffer
  <2>2. CASE rp > wp
    <3>1. rp - wp \in Nat /\ rp - wp < n /\ rp + n - wp = (rp - wp) + n
      BY <1>1, <2>1, <2>2
    <3>2. (rp + n - wp) % n = rp - wp
      BY <2>1, <3>1, Modulo
    <3> QED
      BY <1>1, <1>3, <2>2, <3>2 DEF SpaceFree, Amount
  <2>3. CASE rp < wp
    <3>1. rp + n - wp \in Nat /\ rp + n - wp < n
      BY <1>1, <2>1, <2>3
    <3>2. (rp + n - wp) % n = rp + n - wp
      BY <2>1, <3>1, Modulo
    <3> QED
      BY <1>1, <1>3, <2>3, <3>2 DEF SpaceFree, Amount
  <2> QED
    BY <1>1, <1>3, <2>2, <2>3
<1> QED
  BY <1>2, <1>3

(* Who reads or writes no data has none.                                   *)
Empty == {"closed", "idle", "c_down", "r_down", "r_test", "r_wait", "r_prep", "r_check", "r_sleep",
          "p_down", "p_sleep"}

EmptyInv == \A p \in Procs : pc[p] \in Empty => ubuf[p] = <<>>

QueueInv == PipeInv /\ LapInv /\ EmptyInv

QueueStep == [Queue!Next]_(Queue!avars)

LEMMA QueueStart == Init => QueueInv /\ Queue!Init
<1> SUFFICES ASSUME Init PROVE QueueInv /\ Queue!Init
  OBVIOUS
<1>1. PipeInv
  BY PipeInvInit
<1>2. LapInv /\ EmptyInv
  BY DEF Init, LapInv, EmptyInv
<1>3. Queue!Init
  BY DEF Init, Content, Queue!Init
<1> QED
  BY <1>1, <1>2, <1>3 DEF QueueInv

(* The steps that move no pointer and change no size.                      *)
LEMMA CallStepQueues ==
    ASSUME QueueInv, NEW p \in Procs, NEW to, GoTo(p, to), UNCHANGED bufVars,
           \/ ubuf' = ubuf /\ (to \in Empty => pc[p] \in Empty)
           \/ ubuf' = [ubuf EXCEPT ![p] = <<>>]
           \/ /\ pc[p] \in Empty /\ to \notin Empty
              /\ \E d \in Data : ubuf' = [ubuf EXCEPT ![p] = d]
    PROVE  LapInv' /\ EmptyInv' /\ QueueStep
<1>1. Content' = Content /\ buffersize' = buffersize
  BY DEF bufVars, Content
<1>2. LapInv'
  BY DEF bufVars, QueueInv, LapInv
<1>3. pc \in [Procs -> Labels] /\ DOMAIN ubuf = Procs
  BY DEF QueueInv, PipeInv, SemInv, CallTypes
<1>4. CASE ubuf' = ubuf /\ (to \in Empty => pc[p] \in Empty)
  BY <1>1, <1>2, <1>3, <1>4 DEF GoTo, QueueInv, EmptyInv, QueueStep, Queue!avars
<1>5. CASE ubuf' = [ubuf EXCEPT ![p] = <<>>]
  <2>1. EmptyInv'
    BY <1>3, <1>5 DEF GoTo, QueueInv, EmptyInv
  <2>2. Queue!Finish(p)
    BY <1>1, <1>5 DEF Queue!Finish
  <2> QED
    BY <1>2, <2>1, <2>2 DEF QueueStep, Queue!Next
<1>6. CASE /\ pc[p] \in Empty /\ to \notin Empty
           /\ \E d \in Data : ubuf' = [ubuf EXCEPT ![p] = d]
  <2>1. EmptyInv'
    BY <1>3, <1>6 DEF GoTo, QueueInv, EmptyInv
  <2>2. Queue!Offer(p)
    BY <1>1, <1>6 DEF Queue!Offer, QueueInv, EmptyInv
  <2> QED
    BY <1>2, <2>1, <2>2 DEF QueueStep, Queue!Next
<1> QED
  BY <1>4, <1>5, <1>6

(* An open, or the last close, discards the bytes.                         *)
LEMMA OpenQueues ==
    ASSUME QueueInv, NEW p \in Procs, Open(p) \/ Release(p)
    PROVE  LapInv' /\ EmptyInv' /\ QueueStep
<1>1. pc \in [Procs -> Labels] /\ ubuf' = ubuf /\ buffersize \in Nat /\ scull_p_buffer \in Nat
  BY SizesAssumption DEF Open, Release, callVars, QueueInv, PipeInv, SemInv, BufInv
<1>2. EmptyInv'
  BY <1>1 DEF Open, Release, GoTo, QueueInv, EmptyInv, Empty
<1>3. CASE Open(p)
  <2>1. rp' = 0 /\ wp' = 0 /\ buffersize' = scull_p_buffer
    BY <1>3 DEF Open
  <2>2. LapInv'
    BY <1>1, <2>1 DEF LapInv
  <2>3. Content' = <<>>
    BY <2>1 DEF Content
  <2>4. Queue!Discard
    BY <1>1, <2>1, <2>3 DEF Queue!Discard
  <2> QED
    BY <1>2, <2>2, <2>4 DEF QueueStep, Queue!Next
<1>4. CASE Release(p)
  <2>1. UNCHANGED <<rp, wp, mem, buffersize>> /\ (buffer' = NULL \/ buffer' = buffer)
    BY <1>4 DEF Release
  <2>2. LapInv'
    BY <2>1 DEF LapInv, QueueInv
  <2>3. CASE buffer' = NULL
    <3>1. Content' = <<>>
      BY <2>3 DEF Content
    <3>2. Queue!Discard
      BY <1>1, <2>1, <3>1 DEF Queue!Discard
    <3> QED
      BY <1>2, <2>2, <3>2 DEF QueueStep, Queue!Next
  <2>4. CASE buffer' = buffer
    <3>1. Content' = Content
      BY <2>1, <2>4 DEF Content
    <3> QED
      BY <1>1, <1>2, <2>1, <2>2, <3>1 DEF QueueStep, Queue!avars
  <2> QED
    BY <2>1, <2>3, <2>4
<1> QED
  BY <1>3, <1>4

(* The same in the next state.                                             *)
LEMMA ContentIsNext ==
    ASSUME BufInv', LapInv'
    PROVE  Content' = IF buffer' = NULL THEN <<>> ELSE Stored(mem', rp', wp', buffersize')
<1> DEFINE P == BufInv /\ LapInv =>
                  Content = IF buffer = NULL THEN <<>> ELSE Stored(mem, rp, wp, buffersize)
<1>1. P
  BY ContentIs
<1> HIDE DEF P
<1>2. P'
  BY <1>1, ContentIs, PTL DEF P
<1> QED
  BY <1>2 DEF P, Stored, Amount, Place

(* A read takes the oldest bytes.                                          *)
LEMMA ReadCopyQueues ==
    ASSUME QueueInv, NEW p \in Procs, ReadCopy(p)
    PROVE  LapInv' /\ EmptyInv' /\ QueueStep
<1> DEFINE n == buffersize
           k == ReadCount(p)
           q == Stored(mem, rp, wp, n)
           x == rp + k
<1>1. PipeInv /\ SemInv /\ BufInv /\ CallTypes /\ LapInv /\ EmptyInv
  BY DEF QueueInv, PipeInv
<1>2. /\ n \in 0..MaxSize /\ rp \in 0..n /\ wp \in 0..n /\ mem \in Memory
      /\ (rp = 0 => wp < n \/ n = 0) /\ rp # wp
  BY <1>1, SizesAssumption DEF BufInv, PointersWrapped, Memory, ByteSet, LapInv, ReadCopy
<1>3. k \in Nat /\ k <= n - rp /\ (wp > rp => k <= wp - rp)
  BY <1>1, <1>2, ReadCountBound, SizesAssumption
<1>4. buffer # NULL /\ Content = q
  BY <1>1, ContentIs DEF PipeInv, FileInv, BufferLifetime, ReadCopy
<1>5. /\ rp' = x /\ UNCHANGED <<buffer, buffersize, wp, mem>>
      /\ pc[p] = "r_test" /\ pc' = [pc EXCEPT ![p] = "r_wrap"]
      /\ ubuf' = [ubuf EXCEPT ![p] = [i \in 1..k |-> mem[rp + i - 1]]]
  BY DEF ReadCopy, GoTo
<1> HIDE DEF k
<1>6. /\ k <= Amount(rp, wp, n)
      /\ (x = 0 => wp < n \/ n = 0)
      /\ [i \in 1..k |-> mem[rp + i - 1]] = SubSeq(q, 1, k)
      /\ Stored(mem, x, wp, n) = SubSeq(q, k + 1, Len(q))
  BY <1>2, <1>3, ReadTakesBytes
<1>7. Len(q) = Amount(rp, wp, n) /\ Len(q) \in Nat
  BY <1>2, StoredTypes, AmountTypes
<1>8. LapInv'
  BY <1>5, <1>6 DEF LapInv
<1>9. EmptyInv'
  BY <1>1, <1>5 DEF EmptyInv, Empty, SemInv, CallTypes
<1>10. BufInv'
  BY <1>1, BufReader
<1>11. Content' = Stored(mem, x, wp, n)
  BY <1>4, <1>5, <1>8, <1>10, ContentIsNext
<1> HIDE DEF q, x
<1>12. ubuf[p] = <<>>
  BY <1>1, <1>5 DEF EmptyInv, Empty
<1>13. q \in Seq(ByteSet)
  BY <1>2, StoredTypes DEF q
<1>14. /\ ubuf' = [ubuf EXCEPT ![p] = SubSeq(q, 1, k)]
       /\ Content' = SubSeq(q, k + 1, Len(q))
       /\ buffersize' = buffersize
  BY <1>5, <1>6, <1>11
<1>15. CASE k = 0
  <2>1. SubSeq(q, 1, 0) = <<>>
    BY <1>13
  <2>2. SubSeq(q, 1, Len(q)) = q
    BY <1>13
  <2>3. ubuf' = ubuf
    BY <1>1, <1>12, <1>14, <1>15, <2>1 DEF CallTypes
  <2>4. Content' = Content
    BY <1>4, <1>14, <1>15, <2>2
  <2> QED
    BY <1>8, <1>9, <1>14, <2>3, <2>4 DEF QueueStep, Queue!avars
<1>16. CASE k # 0
  <2>1. k \in 1..Len(q)
    BY <1>3, <1>6, <1>7, <1>16
  <2>2. Queue!Get(p)
    BY <1>4, <1>12, <1>14, <2>1 DEF Queue!Get
  <2> QED
    BY <1>8, <1>9, <2>2 DEF QueueStep, Queue!Next
<1> QED
  BY <1>15, <1>16

(* Wrapping a pointer moves no byte.                                       *)
LEMMA WrapQueues ==
    ASSUME QueueInv, NEW p \in Procs, ReadWrap(p) \/ WriteWrap(p)
    PROVE  LapInv' /\ EmptyInv' /\ QueueStep
<1> DEFINE n == buffersize
<1>1. PipeInv /\ SemInv /\ BufInv /\ CallTypes /\ LapInv /\ EmptyInv
  BY DEF QueueInv, PipeInv
<1>2. n \in Nat /\ rp \in 0..n /\ wp \in 0..n
  BY <1>1, SizesAssumption DEF BufInv, PointersWrapped
<1>3. UNCHANGED <<buffer, mem, buffersize, ubuf>>
  BY DEF ReadWrap, WriteWrap, callVars
<1>4. EmptyInv'
  BY <1>1, <1>3 DEF ReadWrap, WriteWrap, GoTo, EmptyInv, Empty, SemInv
<1>5. BufInv'
  BY <1>1, BufReader, BufWriter
<1>6. ASSUME LapInv', Stored(mem, rp', wp', n) = Stored(mem, rp, wp, n)
      PROVE  LapInv' /\ EmptyInv' /\ QueueStep
  <2>1. Content' = Content
    BY <1>1, <1>3, <1>5, <1>6, ContentIs, ContentIsNext
  <2> QED
    BY <1>3, <1>4, <1>6, <2>1 DEF QueueStep, Queue!avars
<1>7. CASE ReadWrap(p)
  <2>1. InBuffer(wp) /\ wp' = wp /\ rp' = IF rp = n THEN 0 ELSE rp
    BY <1>1, <1>7, PointersSeen DEF ReadWrap
  <2>2. LapInv'
    BY <1>1, <1>2, <1>3, <2>1 DEF LapInv, InBuffer
  <2>3. Stored(mem, rp', wp', n) = Stored(mem, rp, wp, n)
    <3>1. CASE rp = n /\ wp < n
      <4>1. Stored(mem, n, wp, n) = Stored(mem, 0, wp, n)
        BY <1>2, <3>1, WrapsKeepBytes
      <4> QED
        BY <2>1, <3>1, <4>1
    <3>2. CASE rp # n
      BY <2>1, <3>2
    <3>3. CASE rp = n /\ ~(wp < n)
      <4>1. n = 0
        BY <1>2, <2>1, <3>3 DEF InBuffer
      <4> QED
        BY <2>1, <3>3, <4>1
    <3> QED
      BY <3>1, <3>2, <3>3
  <2> QED
    BY <1>6, <2>2, <2>3
<1>8. CASE WriteWrap(p)
  <2>1. InBuffer(rp) /\ rp' = rp /\ wp' = IF wp = n THEN 0 ELSE wp
    BY <1>1, <1>8, PointersSeen DEF WriteWrap
  <2>2. LapInv'
    BY <1>1, <1>2, <1>3, <2>1 DEF LapInv
  <2>3. Stored(mem, rp', wp', n) = Stored(mem, rp, wp, n)
    <3>1. CASE wp = n /\ n # 0
      <4>1. rp # 0 /\ rp \in Nat /\ rp < n
        BY <1>1, <1>2, <2>1, <3>1 DEF LapInv, InBuffer
      <4>2. Stored(mem, rp, n, n) = Stored(mem, rp, 0, n)
        BY <1>2, <4>1, WrapsKeepBytes
      <4> QED
        BY <2>1, <3>1, <4>2
    <3>2. CASE wp # n \/ n = 0
      BY <1>2, <2>1, <3>2
    <3> QED
      BY <3>1, <3>2
  <2> QED
    BY <1>6, <2>2, <2>3
<1> QED
  BY <1>7, <1>8

(* A write appends the first bytes of what is left to write.               *)
LEMMA WriteCopyQueues ==
    ASSUME QueueInv, NEW p \in Procs, WriteCopy(p)
    PROVE  LapInv' /\ EmptyInv' /\ QueueStep
<1> DEFINE n == buffersize
           k == WriteCount(p)
           d == ubuf[p]
           q == Stored(mem, rp, wp, n)
           a == Amount(rp, wp, n)
           g == mem'
           x == wp + k
<1>1. PipeInv /\ SemInv /\ BufInv /\ CallTypes /\ LapInv /\ EmptyInv
  BY DEF QueueInv, PipeInv
<1>2. /\ n \in 0..MaxSize /\ rp \in 0..n /\ wp \in 0..n /\ mem \in Memory
      /\ (rp = 0 => wp < n \/ n = 0) /\ d \in Seq(ByteSet)
  BY <1>1, SizesAssumption
  DEF BufInv, PointersWrapped, Memory, ByteSet, LapInv, CallTypes
<1>3. SpaceFree = n - 1 - a
  BY <1>1, PointersSeen, SpaceIsLeft DEF WriteCopy
<1>4. /\ k \in 0..(n - wp) /\ k \in 0..Len(d)
      /\ (SpaceFree >= 0 => k <= SpaceFree) /\ (rp > wp => k < rp - wp)
  BY <1>1, SpaceFreeInt, WriteCountBound
<1>5. a \in Nat /\ (n > 0 => a < n) /\ q \in Seq(ByteSet) /\ Len(q) = a
  BY <1>2, AmountTypes, StoredTypes
<1>6. BufInv'
  BY <1>1, BufWriter
<1>7. buffer # NULL /\ Content = q
  BY <1>1, ContentIs DEF PipeInv, FileInv, BufferLifetime, WriteCopy
<1>8. /\ wp' = x /\ UNCHANGED <<buffer, buffersize, rp>>
      /\ pc[p] = "w_space" /\ pc' = [pc EXCEPT ![p] = "w_wrap"]
      /\ g = [i \in 0..(MaxSize - 1) |->
                  IF i \in wp..(wp + k - 1) THEN d[i - wp + 1] ELSE mem[i]]
      /\ ubuf' = [ubuf EXCEPT ![p] = SubSeq(d, k + 1, Len(d))]
  BY DEF WriteCopy, GoTo
<1>9. g \in Memory
  BY <1>6 DEF BufInv, Memory, ByteSet
<1>10. EmptyInv'
  BY <1>1, <1>8 DEF EmptyInv, Empty, SemInv, CallTypes
<1> HIDE DEF k, d, g
<1>11. CASE n = 0
  <2>1. k = 0 /\ rp = 0 /\ wp = 0 /\ x = 0
    BY <1>2, <1>4, <1>11
  <2>2. LapInv'
    BY <1>8, <1>11 DEF LapInv
  <2>3. Content = <<>> /\ Content' = <<>>
    BY <1>8, <2>1 DEF Content
  <2>4. ubuf' = ubuf
    <3>1. SubSeq(d, 1, Len(d)) = d
      BY <1>2
    <3> QED
      BY <1>1, <1>8, <2>1, <3>1 DEF CallTypes, d
  <2> QED
    BY <1>8, <1>10, <2>2, <2>3, <2>4 DEF QueueStep, Queue!avars
<1>12. CASE n > 0
  <2>1. a + k < n
    BY <1>2, <1>3, <1>4, <1>5, <1>12
  <2>2. k \in 0..Len(d) /\ k <= n - wp /\ (rp > wp => k < rp - wp)
    BY <1>2, <1>4, SizesAssumption
  <2> HIDE DEF a
  <2>3. /\ (rp = 0 => x < n \/ n = 0)
        /\ Stored(g, rp, x, n) = q \o SubSeq(d, 1, k)
    <3>1. Amount(rp, wp, n) + k < n
      BY <2>1 DEF a
    <3>2. g = Overwritten(mem, wp, d, k)
      BY <1>8 DEF Overwritten
    <3>3. Overwritten(mem, wp, d, k) \in Memory
      BY <1>9, <3>2
    <3> HIDE DEF n
    <3>4. /\ rp = 0 => wp + k < n \/ n = 0
          /\ Stored(Overwritten(mem, wp, d, k), rp, wp + k, n) =
                 Stored(mem, rp, wp, n) \o SubSeq(d, 1, k)
      BY <1>2, <2>2, <3>1, <3>3, WriteAppendsBytes
    <3> QED
      BY <3>2, <3>4
  <2>4. LapInv'
    BY <1>8, <2>3 DEF LapInv
  <2>5. Content' = q \o SubSeq(d, 1, k)
    BY <1>6, <1>7, <1>8, <2>3, <2>4, ContentIsNext DEF g
  <2>6. CASE k = 0
    <3>1. SubSeq(d, 1, 0) = <<>> /\ SubSeq(d, 1, Len(d)) = d
      BY <1>2
    <3>2. ubuf' = ubuf
      BY <1>1, <1>8, <2>6, <3>1 DEF CallTypes, d
    <3>3. q \o <<>> = q
      BY <1>5
    <3>4. Content' = Content
      BY <1>7, <2>5, <2>6, <3>1, <3>3
    <3> QED
      BY <1>8, <1>10, <2>4, <3>2, <3>4 DEF QueueStep, Queue!avars
  <2>7. CASE k # 0
    <3>1. k \in 1..Len(ubuf[p])
      BY <1>2, <2>2, <2>7 DEF d
    <3>2. Len(Content) + k < buffersize
      BY <1>5, <1>7, <2>1
    <3> HIDE DEF q
    <3>3. Queue!Put(p)
      BY <1>7, <1>8, <2>5, <3>1, <3>2 DEF Queue!Put, d
    <3> QED
      BY <1>10, <2>4, <3>3 DEF QueueStep, Queue!Next
  <2> QED
    BY <2>6, <2>7
<1> QED
  BY <1>2, <1>11, <1>12, SizesAssumption

LEMMA QueueNext == QueueInv /\ [Next]_vars => LapInv' /\ EmptyInv' /\ QueueStep
<1> SUFFICES ASSUME QueueInv, [Next]_vars PROVE LapInv' /\ EmptyInv' /\ QueueStep
  OBVIOUS
<1>1. CASE UNCHANGED <<rp, wp, mem, buffer, buffersize, pc, ubuf>>
  BY <1>1 DEF QueueInv, LapInv, EmptyInv, QueueStep, Queue!avars, Content
<1>2. CASE UNCHANGED vars \/ SetSize
  BY <1>1, <1>2 DEF vars, SetSize, bufVars, callVars
<1>3. ASSUME NEW p \in Procs, Return(p), UNCHANGED bufVars
      PROVE  LapInv' /\ EmptyInv' /\ QueueStep
  BY <1>3, CallStepQueues DEF Return
<1>4. ASSUME NEW p \in Procs, NEW to, GoTo(p, to), UNCHANGED <<bufVars, ubuf>>,
             to \in Empty => pc[p] \in Empty
      PROVE  LapInv' /\ EmptyInv' /\ QueueStep
  BY <1>4, CallStepQueues
<1>5. ASSUME NEW p \in Procs, Progress(p)
      PROVE  LapInv' /\ EmptyInv' /\ QueueStep
  <2> USE DEF callVars
  <2>1. CASE ReadDownInterrupted(p) \/ WriteDownInterrupted(p) \/ ReadFault(p)
             \/ WriteFault(p) \/ PollInterrupted(p) \/ ReadWake(p)
    BY <2>1, <1>3 DEF ReadDownInterrupted, WriteDownInterrupted, DownInterrupted,
                      ReadFault, WriteFault, PollInterrupted, PollEnd, ReadWake
  <2>2. CASE ReadEmpty(p)
    <3>1. CASE Return(p)
      BY <2>2, <3>1, <1>3 DEF ReadEmpty
    <3>2. CASE GoTo(p, "r_wait") /\ UNCHANGED callVars
      BY <2>2, <3>2, <1>4 DEF ReadEmpty, Empty
    <3> QED
      BY <2>2, <3>1, <3>2 DEF ReadEmpty
  <2>3. CASE WriteFull(p)
    <3>1. CASE Return(p)
      BY <2>3, <3>1, <1>3 DEF WriteFull
    <3>2. CASE GoTo(p, "w_prep") /\ UNCHANGED callVars
      BY <2>3, <3>2, <1>4 DEF WriteFull, Empty
    <3> QED
      BY <2>3, <3>1, <3>2 DEF WriteFull
  <2>4. CASE ReadCopy(p)
    BY <2>4, ReadCopyQueues
  <2>5. CASE ReadWrap(p) \/ WriteWrap(p)
    BY <2>5, WrapQueues
  <2>6. CASE WriteCopy(p)
    BY <2>6, WriteCopyQueues
  <2>7. CASE ReadCheck(p)
    <3>1. CASE Return(p)
      BY <2>7, <3>1, <1>3 DEF ReadCheck
    <3>2. CASE (GoTo(p, "r_down") \/ GoTo(p, "r_sleep")) /\ UNCHANGED callVars
      BY <2>7, <3>2, <1>4 DEF ReadCheck, Empty
    <3> QED
      BY <2>7, <3>1, <3>2 DEF ReadCheck
  <2>8. CASE ReadWait(p) \/ ReadPrepare(p) \/ ReadAwake(p)
    BY <2>8, <1>4 DEF ReadWait, ReadPrepare, ReadAwake, Empty
  <2>9. CASE WritePrepare(p) \/ WriteAwake(p) \/ WriteWake(p) \/ WriteCheck(p)
             \/ PollAwake(p)
    BY <2>9, <1>4 DEF WritePrepare, WriteAwake, WriteWake, WriteCheck, PollAwake, Empty
  <2>10. CASE WriteFinishWait(p)
    <3>1. CASE Return(p)
      BY <2>10, <3>1, <1>3 DEF WriteFinishWait
    <3>2. CASE GoTo(p, "w_down") /\ UNCHANGED callVars
      BY <2>10, <3>2, <1>4 DEF WriteFinishWait, Empty
    <3> QED
      BY <2>10, <3>1, <3>2 DEF WriteFinishWait
  <2>11. CASE WriteSigio(p)
    BY <2>11, CallStepQueues DEF WriteSigio
  <2> QED
    BY <1>5, <2>1, <2>2, <2>3, <2>4, <2>5, <2>6, <2>7, <2>8, <2>9, <2>10, <2>11
    DEF Progress
<1>6. ASSUME NEW p \in Procs, Acquire(p)
      PROVE  LapInv' /\ EmptyInv' /\ QueueStep
  <2> USE DEF callVars
  <2>1. CASE ReadDown(p) \/ WriteDown(p)
    BY <2>1, <1>4 DEF ReadDown, WriteDown, Down, Empty
  <2>2. CASE Release(p)
    BY <2>2, OpenQueues
  <2>3. CASE Poll(p)
    <3>1. CASE Return(p)
      BY <2>3, <3>1, <1>3 DEF Poll
    <3>2. CASE GoTo(p, "p_sleep") /\ UNCHANGED callVars
      BY <2>3, <3>2, <1>4 DEF Poll, Empty
    <3> QED
      BY <2>3, <3>1, <3>2 DEF Poll
  <2> QED
    BY <1>6, <2>1, <2>2, <2>3 DEF Acquire
<1>7. ASSUME NEW p \in Procs, Environment(p)
      PROVE  LapInv' /\ EmptyInv' /\ QueueStep
  <2> USE DEF callVars
  <2>1. CASE Open(p)
    BY <2>1, OpenQueues
  <2>2. CASE Fasync(p) \/ Signal(p)
    BY <2>2, <1>1 DEF Fasync, Signal, bufVars
  <2>3. CASE Close(p) \/ ReadCall(p) \/ PollCall(p)
    BY <2>3, <1>4 DEF Close, ReadCall, PollCall, Empty
  <2>4. CASE WriteCall(p)
    BY <2>4, CallStepQueues DEF WriteCall, Empty
  <2>5. CASE PollTimeout(p)
    BY <2>5, <1>3 DEF PollTimeout, PollEnd
  <2> QED
    BY <1>7, <2>1, <2>2, <2>3, <2>4, <2>5 DEF Environment
<1> QED
  BY <1>2, <1>5, <1>6, <1>7 DEF Next

(* As long as SCULL_P_IOCTSIZE leaves an open device alone, the device is a *)
(* bounded queue of bytes: what scull_p_read and scull_p_write do with rp   *)
(* and wp (pipe.c:119-227), in calls of any number of processes that        *)
(* interleave, loses no byte, repeats none and keeps their order.  The      *)
(* proof itself does not use the hypothesis: without it dev->end may lie    *)
(* behind the allocated block (EndIsRight), and bytes stored there are      *)
(* bytes of the model's mem but not of the device.                          *)
THEOREM PipeImplementsQueue ==
    ASSUME ~LateResize
    PROVE  Spec => PipeIsQueue
<1>1. PipeInv /\ LapInv /\ EmptyInv => QueueInv
  BY DEF QueueInv
<1>2. QueueInv => LapInv /\ EmptyInv
  BY DEF QueueInv
<1> QED
  BY <1>1, <1>2, PipeInvariant, QueueStart, QueueNext, PTL
  DEF Spec, PipeIsQueue, Queue!Spec, QueueStep
=============================================================================
