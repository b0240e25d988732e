------------------------- MODULE AtomicEventProofs -------------------------
(***************************************************************************)
(* The atomic semaphore of 6.c lets one process through at a time, for any *)
(* number of processes, on any kind of kernel and with signals anywhere.   *)
(***************************************************************************)
EXTENDS AtomicEvent, FiniteSetTheorems, TLAPS

(* Processes that decremented the counter and have not incremented it.     *)
Busy(f) == {p \in Procs : f[p] \in {"in", "s_inc", "w_inc"}}

LEMMA BusyIsHoldersAndRetrying == Holders \cup Retrying = Busy(pc)
  BY DEF Holders, Retrying, Busy

LEMMA BusyIsFinite ==
  ASSUME NEW f PROVE IsFiniteSet(Busy(f)) /\ Cardinality(Busy(f)) \in Nat
  BY AtomProcsAssumption, FS_Subset, FS_CardinalityType DEF Busy

(* How a move of one process changes the number of the busy ones.          *)
LEMMA BusyJoins ==
  ASSUME NEW f, NEW g, NEW p \in Procs,
         f[p] \notin {"in", "s_inc", "w_inc"},
         g[p] \in {"in", "s_inc", "w_inc"},
         \A q \in Procs \ {p} : g[q] = f[q]
  PROVE  Cardinality(Busy(g)) = Cardinality(Busy(f)) + 1
<1>1. Busy(g) = Busy(f) \cup {p} /\ p \notin Busy(f)
  BY DEF Busy
<1> QED
  BY <1>1, BusyIsFinite, FS_AddElement

LEMMA BusyLeaves ==
  ASSUME NEW f, NEW g, NEW p \in Procs,
         f[p] \in {"in", "s_inc", "w_inc"},
         g[p] \notin {"in", "s_inc", "w_inc"},
         \A q \in Procs \ {p} : g[q] = f[q]
  PROVE  Cardinality(Busy(g)) = Cardinality(Busy(f)) - 1
<1>1. Cardinality(Busy(f)) = Cardinality(Busy(g)) + 1
  BY BusyJoins
<1> QED
  BY <1>1, BusyIsFinite

LEMMA BusyStays ==
  ASSUME NEW f, NEW g, NEW p \in Procs,
         f[p] \in {"in", "s_inc", "w_inc"} <=> g[p] \in {"in", "s_inc", "w_inc"},
         \A q \in Procs \ {p} : g[q] = f[q]
  PROVE  Cardinality(Busy(g)) = Cardinality(Busy(f))
<1>1. Busy(g) = Busy(f)
  BY DEF Busy
<1> QED
  BY <1>1

(* The type invariant with the accounting in terms of Busy.                *)
AtomInv ==
  /\ num = 1 - Cardinality(Busy(pc))
  /\ waiters \subseteq Procs
  /\ pc \in [Procs -> AtomLabels]

LEMMA MoveIsLocal ==
  ASSUME pc \in [Procs -> AtomLabels], NEW p \in Procs, NEW from, NEW to \in AtomLabels,
         Move(p, from, to)
  PROVE  /\ pc' \in [Procs -> AtomLabels]
         /\ pc[p] = from /\ pc'[p] = to
         /\ \A q \in Procs \ {p} : pc'[q] = pc[q]
  BY DEF Move

(* Counting is enough: every step changes num with the busy processes.     *)
LEMMA AtomInvStep == AtomInv /\ [AtomNext]_atomVars => AtomInv'
<1> SUFFICES ASSUME AtomInv, [AtomNext]_atomVars PROVE AtomInv'
  OBVIOUS
<1>0. /\ num = 1 - Cardinality(Busy(pc))
      /\ waiters \subseteq Procs
      /\ pc \in [Procs -> AtomLabels]
      /\ Cardinality(Busy(pc)) \in Nat
  BY BusyIsFinite DEF AtomInv
<1>1. ASSUME UNCHANGED atomVars PROVE AtomInv'
  BY <1>0, <1>1 DEF atomVars, AtomInv, Busy
<1>2. ASSUME NEW p \in Procs, Step(p) \/ WaitCall(p) \/ Interrupt(p)
      PROVE  AtomInv'
  <2>1. CASE WaitDec(p)
    <3>1. PICK to \in {"w_inc", "in"} : Move(p, "w_dec", to)
      BY <2>1 DEF WaitDec
    <3>2. pc' \in [Procs -> AtomLabels] /\ pc[p] = "w_dec" /\ pc'[p] = to
          /\ \A q \in Procs \ {p} : pc'[q] = pc[q]
      BY <1>0, <3>1, MoveIsLocal DEF AtomLabels
    <3>3. Cardinality(Busy(pc')) = Cardinality(Busy(pc)) + 1
      BY <3>2, BusyJoins
    <3> QED
      BY <1>0, <2>1, <3>2, <3>3 DEF AtomInv, WaitDec
  <2>2. CASE WaitInc(p)
    <3>1. pc' \in [Procs -> AtomLabels] /\ pc[p] = "w_inc" /\ pc'[p] = "w_prep"
          /\ \A q \in Procs \ {p} : pc'[q] = pc[q]
      BY <1>0, <2>2, MoveIsLocal DEF WaitInc, AtomLabels
    <3>2. Cardinality(Busy(pc')) = Cardinality(Busy(pc)) - 1
      BY <3>1, BusyLeaves
    <3> QED
      BY <1>0, <2>2, <3>1, <3>2 DEF AtomInv, WaitInc
  <2>3. CASE SignalInc(p)
    <3>1. pc' \in [Procs -> AtomLabels] /\ pc[p] = "s_inc" /\ pc'[p] = "s_wake"
          /\ \A q \in Procs \ {p} : pc'[q] = pc[q]
      BY <1>0, <2>3, MoveIsLocal DEF SignalInc, AtomLabels
    <3>2. Cardinality(Busy(pc')) = Cardinality(Busy(pc)) - 1
      BY <3>1, BusyLeaves
    <3> QED
      BY <1>0, <2>3, <3>1, <3>2 DEF AtomInv, SignalInc
  <2>4. CASE SignalCall(p)
    <3>1. pc' \in [Procs -> AtomLabels] /\ pc[p] = "in" /\ pc'[p] = "s_inc"
          /\ \A q \in Procs \ {p} : pc'[q] = pc[q]
      BY <1>0, <2>4, MoveIsLocal DEF SignalCall, AtomLabels
    <3>2. Cardinality(Busy(pc')) = Cardinality(Busy(pc))
      BY <3>1, BusyStays
    <3> QED
      BY <1>0, <2>4, <3>1, <3>2 DEF AtomInv, SignalCall
  <2>5. CASE WaitCall(p) \/ WaitPrepare(p) \/ WaitAwake(p) \/ Interrupt(p)
             \/ SignalWake(p)
    <3>1. PICK from \in AtomLabels, to \in AtomLabels :
             /\ Move(p, from, to)
             /\ from \notin {"in", "s_inc", "w_inc"}
             /\ to \notin {"in", "s_inc", "w_inc"}
      BY <2>5 DEF WaitCall, WaitPrepare, WaitAwake, Interrupt, SignalWake, AtomLabels
    <3>2. pc' \in [Procs -> AtomLabels] /\ pc[p] = from /\ pc'[p] = to
          /\ \A q \in Procs \ {p} : pc'[q] = pc[q]
      BY <1>0, <3>1, MoveIsLocal
    <3>3. Cardinality(Busy(pc')) = Cardinality(Busy(pc))
      BY <3>1, <3>2, BusyStays
    <3>4. num' = num /\ waiters' \subseteq Procs
      BY <1>0, <2>5 DEF WaitCall, WaitPrepare, WaitAwake, Interrupt, SignalWake
    <3> QED
      BY <1>0, <3>2, <3>3, <3>4 DEF AtomInv
  <2> QED
    BY <1>2, <2>1, <2>2, <2>3, <2>4, <2>5 DEF Step
<1> QED
  BY <1>1, <1>2 DEF AtomNext

LEMMA AtomInvInit == AtomInit => AtomInv
<1> SUFFICES ASSUME AtomInit PROVE AtomInv
  OBVIOUS
<1>1. Busy(pc) = {}
  BY DEF AtomInit, Busy
<1>2. Cardinality(Busy(pc)) = 0
  BY <1>1, FS_EmptySet
<1> QED
  BY <1>2 DEF AtomInit, AtomInv, AtomLabels

LEMMA AtomInvAlways == AtomSpec => []AtomInv
  BY AtomInvInit, AtomInvStep, PTL DEF AtomSpec

(* The counter of 6.c is exact: 1 less the holders and the attempts that   *)
(* are being taken back, for all numbers of processes.                     *)
THEOREM AtomicCounterIsExact == AtomSpec => []AtomTypeOK
<1>1. AtomInv => AtomTypeOK
  BY BusyIsHoldersAndRetrying DEF AtomInv, AtomTypeOK
<1> QED
  BY <1>1, AtomInvAlways, PTL

(* Two holders at most one: entering needs num > 0, so nobody was busy.    *)
LEMMA ExclusionStep ==
  ASSUME AtomInv, [AtomNext]_atomVars, Cardinality(Holders) <= 1
  PROVE  Cardinality(Holders') <= 1
<1>0. /\ num = 1 - Cardinality(Busy(pc)) /\ pc \in [Procs -> AtomLabels]
      /\ IsFiniteSet(Busy(pc)) /\ Cardinality(Busy(pc)) \in Nat
      /\ IsFiniteSet(Holders) /\ Cardinality(Holders) \in Nat
  BY BusyIsFinite, AtomProcsAssumption, FS_Subset, FS_CardinalityType
     DEF AtomInv, Holders
<1>1. ASSUME Holders' \subseteq Holders PROVE Cardinality(Holders') <= 1
  <2>1. Cardinality(Holders') <= Cardinality(Holders) /\ Cardinality(Holders') \in Nat
    BY <1>0, <1>1, FS_Subset, FS_CardinalityType
  <2> QED
    BY <1>0, <2>1
<1>2. ASSUME NEW p \in Procs, Step(p) \/ WaitCall(p) \/ Interrupt(p)
      PROVE  Cardinality(Holders') <= 1
  <2>1. CASE WaitDec(p)
    <3>1. CASE num - 1 < 0
      <4>1. pc[p] = "w_dec" /\ pc' = [pc EXCEPT ![p] = "w_inc"]
        BY <2>1, <3>1 DEF WaitDec, Move
      <4>2. Holders' \subseteq Holders
        BY <1>0, <4>1 DEF Holders
      <4> QED
        BY <4>2, <1>1
    <3>2. CASE ~(num - 1 < 0)
      <4>1. Cardinality(Busy(pc)) = 0
        BY <1>0, <3>2
      <4>2. Busy(pc) = {}
        BY <1>0, <4>1, FS_EmptySet
      <4>3. pc' = [pc EXCEPT ![p] = "in"]
        BY <2>1, <3>2 DEF WaitDec, Move
      <4>4. Holders' = {p}
        BY <1>0, <4>2, <4>3 DEF Holders, Busy
      <4>5. Cardinality({p}) = 1
        BY FS_Singleton
      <4> HIDE DEF Holders
      <4> QED
        BY <4>4, <4>5
    <3> QED
      BY <3>1, <3>2
  <2>2. CASE SignalCall(p)
    <3>1. Holders' \subseteq Holders
      BY <1>0, <2>2 DEF SignalCall, Move, Holders
    <3> QED
      BY <3>1, <1>1
  <2>3. CASE WaitCall(p) \/ WaitPrepare(p) \/ WaitAwake(p) \/ Interrupt(p)
             \/ SignalWake(p) \/ WaitInc(p) \/ SignalInc(p)
    <3>1. \E to \in AtomLabels \ {"in", "s_inc"} : pc' = [pc EXCEPT ![p] = to]
      BY <2>3 DEF WaitCall, WaitPrepare, WaitAwake, Interrupt, SignalWake, WaitInc,
                  SignalInc, Move, AtomLabels
    <3>2. Holders' \subseteq Holders
      BY <1>0, <3>1 DEF Holders
    <3> QED
      BY <3>2, <1>1
  <2> QED
    BY <1>2, <2>1, <2>2, <2>3 DEF Step
<1>3. ASSUME UNCHANGED atomVars PROVE Holders' \subseteq Holders
  BY <1>3 DEF atomVars, Holders
<1> QED
  BY <1>1, <1>2, <1>3 DEF AtomNext

(* The semaphore of 6.c is a mutual exclusion semaphore: at most one       *)
(* process is between its wait and its signal, however many there are and  *)
(* wherever they are interrupted.                                          *)
THEOREM AtomicSemaphoreExcludes == AtomSpec => []AtomExclusion
<1>1. AtomInit => AtomExclusion
  <2> SUFFICES ASSUME AtomInit PROVE AtomExclusion
    OBVIOUS
  <2>1. Holders = {}
    BY DEF AtomInit, Holders
  <2> QED
    BY <2>1, FS_EmptySet DEF AtomExclusion
<1>2. AtomInv /\ AtomExclusion /\ [AtomNext]_atomVars => AtomExclusion'
  BY ExclusionStep DEF AtomExclusion
<1> QED
  BY <1>1, <1>2, AtomInvAlways, PTL DEF AtomSpec

-----------------------------------------------------------------------------
(* Where system calls are not preempted, one process at a time is in the   *)
(* middle of one; the units that are missing are then those of processes   *)
(* between their calls, so whoever goes to sleep leaves a holder behind.   *)

OneRuns == \A p, q \in Procs : pc[p] \in Running /\ pc[q] \in Running => p = q

SleepersAsleep == \A p \in waiters : pc[p] = "w_sleep"

FailedBehindHolder ==
    (\E q \in Procs : pc[q] \in {"w_inc", "w_prep"}) => \E h \in Procs : pc[h] = "in"

LostInv == AtomInv /\ OneRuns /\ SleepersAsleep /\ FailedBehindHolder /\ NoLostSignal

(* The process that fails its decrement finds a holder between two calls.  *)
LEMMA FailingMeansHeld ==
  ASSUME LostInv, NEW p \in Procs, pc[p] = "w_dec", num - 1 < 0
  PROVE  \E h \in Procs : pc[h] = "in"
<1>1. num = 1 - Cardinality(Busy(pc)) /\ Cardinality(Busy(pc)) \in Nat
  BY BusyIsFinite DEF LostInv, AtomInv
<1>2. Cardinality(Busy(pc)) # 0
  BY <1>1
<1>3. Busy(pc) # {}
  BY <1>2, FS_EmptySet
<1>4. PICK h \in Procs : pc[h] \in {"in", "s_inc", "w_inc"}
  BY <1>3 DEF Busy
<1>5. pc[h] \notin Running
  BY <1>4 DEF LostInv, OneRuns, Running
<1> QED
  BY <1>4, <1>5 DEF Running

LEMMA LostInvStep ==
  ASSUME Preempt = FALSE, LostInv, [AtomNext]_atomVars
  PROVE  LostInv'
<1>1. AtomInv'
  BY AtomInvStep DEF LostInv
<1>2. CASE UNCHANGED atomVars
  BY <1>1, <1>2 DEF LostInv, atomVars, OneRuns, SleepersAsleep, FailedBehindHolder, NoLostSignal
<1>3. ASSUME NEW p \in Procs, Step(p) \/ WaitCall(p) \/ Interrupt(p)
      PROVE  LostInv'
  <2>1. PICK from \in AtomLabels, to \in AtomLabels : Move(p, from, to)
    BY <1>3 DEF Step, WaitCall, WaitDec, WaitInc, WaitPrepare, WaitAwake, Interrupt, SignalCall,
                SignalInc, SignalWake, AtomLabels
  <2>2. /\ pc[p] = from /\ pc'[p] = to /\ pc' \in [Procs -> AtomLabels]
        /\ \A q \in Procs \ {p} : pc'[q] = pc[q]
    BY <2>1, MoveIsLocal DEF LostInv, AtomInv
  <2>3. \A q \in Procs \ {p} : pc[q] \notin Running
    BY <2>1 DEF Move, MayRun
  <2>4. OneRuns'
    BY <2>2, <2>3 DEF OneRuns
  <2>5. SleepersAsleep'
    BY <1>3, <2>2 DEF LostInv, SleepersAsleep, AtomInv, Step, WaitCall, WaitDec, WaitInc, WaitPrepare,
       WaitAwake, Interrupt, SignalCall, SignalInc, SignalWake, Move
  <2>6. FailedBehindHolder'
    <3>1. CASE WaitDec(p) /\ num - 1 < 0
      <4>1. pc[p] = "w_dec"
        BY <3>1 DEF WaitDec, Move
      <4>2. PICK h \in Procs : pc[h] = "in"
        BY <3>1, <4>1, FailingMeansHeld
      <4>3. pc'[h] = "in"
        BY <2>2, <4>1, <4>2
      <4> QED
        BY <4>3 DEF FailedBehindHolder
    <3>2. CASE WaitInc(p)
      <4>1. pc[p] = "w_inc"
        BY <3>2 DEF WaitInc, Move
      <4>2. PICK h \in Procs : pc[h] = "in"
        BY <4>1 DEF LostInv, FailedBehindHolder
      <4>3. pc'[h] = "in"
        BY <2>2, <4>1, <4>2
      <4> QED
        BY <4>3 DEF FailedBehindHolder
    <3>3. CASE ~WaitInc(p) /\ ~(WaitDec(p) /\ num - 1 < 0)
      <4>1. pc'[p] \notin {"w_inc", "w_prep"}
        BY <1>3, <2>2, <3>3 DEF Step, WaitCall, WaitDec, WaitPrepare, WaitAwake, Interrupt,
           SignalCall, SignalInc, SignalWake, Move, LostInv, AtomInv
      <4>2. \A q \in Procs : pc'[q] \notin {"w_inc", "w_prep"}
        BY <2>2, <2>3, <4>1 DEF Running
      <4> QED
        BY <4>2 DEF FailedBehindHolder
    <3> QED
      BY <3>1, <3>2, <3>3
  <2>7. NoLostSignal'
    <3>1. CASE SignalWake(p)
      BY <3>1 DEF SignalWake, NoLostSignal
    <3>2. CASE WaitPrepare(p)
      <4>1. pc[p] = "w_prep"
        BY <3>2 DEF WaitPrepare, Move
      <4>2. PICK h \in Procs : pc[h] = "in"
        BY <4>1 DEF LostInv, FailedBehindHolder
      <4>3. pc'[h] = "in" /\ h # p
        BY <2>2, <4>1, <4>2
      <4>4. h \notin waiters'
        BY <3>2, <4>2, <4>3 DEF WaitPrepare, LostInv, SleepersAsleep
      <4> QED
        BY <4>3, <4>4 DEF NoLostSignal
    <3>3. CASE Interrupt(p) \/ WaitAwake(p) \/ WaitCall(p)
      <4>1. pc'[p] = "w_dec" /\ waiters' \subseteq waiters
        BY <3>3, <2>2 DEF Interrupt, WaitAwake, WaitCall, Move, LostInv, AtomInv
      <4>2. p \notin waiters'
        BY <3>3 DEF Interrupt, WaitAwake, WaitCall, Move, LostInv, SleepersAsleep
      <4> QED
        BY <4>1, <4>2 DEF NoLostSignal
    <3>4. CASE SignalCall(p) \/ SignalInc(p)
      <4>1. pc'[p] \in {"s_inc", "s_wake"} /\ waiters' = waiters
        BY <3>4, <2>2 DEF SignalCall, SignalInc, Move, LostInv, AtomInv
      <4>2. p \notin waiters
        BY <3>4 DEF SignalCall, SignalInc, Move, LostInv, SleepersAsleep
      <4> QED
        BY <4>1, <4>2 DEF NoLostSignal
    <3>5. CASE WaitDec(p)
      <4>1. waiters' = waiters /\ pc[p] = "w_dec" /\ pc'[p] \in {"in", "w_inc"}
        BY <3>5, <2>2 DEF WaitDec, Move, LostInv, AtomInv
      <4>2. PICK h \in Procs : pc'[h] = "in"
        BY <2>6, <4>1 DEF FailedBehindHolder
      <4>3. h \notin waiters
        BY <2>2, <4>1, <4>2 DEF LostInv, SleepersAsleep
      <4> QED
        BY <4>1, <4>2, <4>3 DEF NoLostSignal
    <3>6. CASE WaitInc(p)
      <4>1. waiters' = waiters /\ pc[p] = "w_inc"
        BY <3>6 DEF WaitInc, Move
      <4> SUFFICES ASSUME waiters # {}
                   PROVE  \E q \in Procs \ waiters :
                              pc'[q] \in {"in", "s_inc", "s_wake", "w_dec", "w_sleep"}
        BY <4>1 DEF NoLostSignal
      <4>2. PICK q \in Procs \ waiters : pc[q] \in {"in", "s_inc", "s_wake", "w_dec", "w_sleep"}
        BY DEF LostInv, NoLostSignal
      <4> QED
        BY <2>2, <4>1, <4>2
    <3> QED
      BY <1>3, <3>1, <3>2, <3>3, <3>4, <3>5, <3>6 DEF Step
  <2> QED
    BY <1>1, <2>4, <2>5, <2>6, <2>7 DEF LostInv
<1> QED
  BY <1>2, <1>3 DEF AtomNext

(* On a kernel that runs a system call until it sleeps, whoever is in the  *)
(* queue of 6.c has a wake-up ahead, for any number of processes and with  *)
(* signals anywhere.  (Preempted between its test and its place in the     *)
(* queue, a process does miss the wake-up.)                                *)
THEOREM AtomicSignalsAreNotLost ==
  ASSUME Preempt = FALSE
  PROVE  AtomSpec => []NoLostSignal
<1>1. AtomInit => LostInv
  BY AtomInvInit DEF LostInv, AtomInit, OneRuns, SleepersAsleep, FailedBehindHolder, NoLostSignal,
     Running
<1>2. LostInv /\ [AtomNext]_atomVars => LostInv'
  BY LostInvStep
<1>3. LostInv => NoLostSignal
  BY DEF LostInv
<1> QED
  BY <1>1, <1>2, <1>3, PTL DEF AtomSpec
=============================================================================
