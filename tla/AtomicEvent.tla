---------------------------- MODULE AtomicEvent ----------------------------
(***************************************************************************)
(* The semaphore of 6.c: sys_myevent_wait and sys_myevent_signal on one    *)
(* event, called in turn by processes that loop (wait, use, signal).       *)
(*                                                                         *)
(* Unlike exp6.c the counter is atomic, the waits are not exclusive, and a *)
(* process that is woken tries again.  It still sleeps without a test      *)
(* after it joined the queue.  Preempt is the choice of EventSemaphore:    *)
(* may other processes run in the middle of a system call?                 *)
(*                                                                         *)
(* The ends of some comments of 6.c were lost with its encoding, and the   *)
(* next statement stands in the comment (prepare_to_wait at line 190);     *)
(* the model has the statements as they were written, as in exp6.c.        *)
(***************************************************************************)
EXTENDS Integers, FiniteSets

CONSTANTS
    Procs,          \* the processes
    Preempt,        \* may others run in the middle of a system call?
    Interrupted     \* processes that may get a signal while they sleep

ASSUME AtomProcsAssumption == IsFiniteSet(Procs) /\ Interrupted \subseteq Procs
ASSUME AtomPreemptAssumption == Preempt \in BOOLEAN

VARIABLES
    num,            \* the atomic counter of the event, 1 when it is opened
    waiters,        \* the processes on its queue
    pc              \* where each process is

atomVars == <<num, waiters, pc>>

AtomLabels ==
    {"out", "w_dec", "w_inc", "w_prep", "w_sleep", "in", "s_inc", "s_wake"}

(* The labels of a process that executes kernel code.                      *)
Running == {"w_dec", "w_inc", "w_prep", "s_inc", "s_wake"}

(* p may take a step: nobody else is in the middle of a system call.       *)
MayRun(p) ==
    Preempt \/ \A q \in Procs \ {p} : pc[q] \notin Running

AtomInit ==
    /\ num = 1
    /\ waiters = {}
    /\ pc = [p \in Procs |-> "out"]

Move(p, from, to) ==
    /\ MayRun(p)
    /\ pc[p] = from
    /\ pc' = [pc EXCEPT ![p] = to]

-----------------------------------------------------------------------------
(* sys_myevent_wait.                                                       *)

WaitCall(p) == Move(p, "out", "w_dec") /\ UNCHANGED <<num, waiters>>

(* Mutant: the unit is taken although the counter went below zero by one.  *)
WaitDecLoose(p) ==
    /\ Move(p, "w_dec", IF num - 1 < -1 THEN "w_inc" ELSE "in")
    /\ num' = num - 1
    /\ UNCHANGED waiters

(* atomic_dec_return.                                                      *)
WaitDec(p) ==
    /\ Move(p, "w_dec", IF num - 1 < 0 THEN "w_inc" ELSE "in")
    /\ num' = num - 1
    /\ UNCHANGED waiters

(* Mutant: a failed attempt is not taken back.                             *)
WaitIncMissing(p) ==
    /\ Move(p, "w_inc", "w_prep")
    /\ UNCHANGED <<num, waiters>>

WaitInc(p) ==
    /\ Move(p, "w_inc", "w_prep")
    /\ num' = num + 1
    /\ UNCHANGED waiters

(* prepare_to_wait and schedule.                                           *)
WaitPrepare(p) ==
    /\ Move(p, "w_prep", "w_sleep")
    /\ waiters' = waiters \cup {p}
    /\ UNCHANGED num

(* finish_wait after a wake-up: the loop goes round.                       *)
WaitAwake(p) ==
    /\ Move(p, "w_sleep", "w_dec")
    /\ p \notin waiters
    /\ UNCHANGED <<num, waiters>>

(* A signal ends the sleep; finish_wait takes the process off the queue    *)
(* and the loop goes round just the same.                                  *)
Interrupt(p) ==
    /\ p \in Interrupted \cap waiters
    /\ Move(p, "w_sleep", "w_dec")
    /\ waiters' = waiters \ {p}
    /\ UNCHANGED num

-----------------------------------------------------------------------------
(* sys_myevent_signal.                                                     *)

SignalCall(p) == Move(p, "in", "s_inc") /\ UNCHANGED <<num, waiters>>

SignalInc(p) ==
    /\ Move(p, "s_inc", "s_wake")
    /\ num' = num + 1
    /\ UNCHANGED waiters

(* Mutant: the wake-up is forgotten.                                       *)
SignalWakeMissing(p) == Move(p, "s_wake", "out") /\ UNCHANGED <<num, waiters>>

(* wake_up: the waits are not exclusive, so it wakes them all.             *)
SignalWake(p) ==
    /\ Move(p, "s_wake", "out")
    /\ waiters' = {}
    /\ UNCHANGED num

-----------------------------------------------------------------------------
Step(p) ==
    \/ WaitDec(p) \/ WaitInc(p) \/ WaitPrepare(p) \/ WaitAwake(p)
    \/ SignalCall(p) \/ SignalInc(p) \/ SignalWake(p)

AtomNext == \E p \in Procs : Step(p) \/ WaitCall(p) \/ Interrupt(p)

AtomSpec == AtomInit /\ [][AtomNext]_atomVars

(* Runnable processes run in the end, and who uses the resource gives it   *)
(* back.                                                                   *)
AtomFairSpec == AtomSpec /\ \A p \in Procs : SF_atomVars(Step(p))

-----------------------------------------------------------------------------
(* Properties.                                                             *)

Holders == {p \in Procs : pc[p] \in {"in", "s_inc"}}
Retrying == {p \in Procs : pc[p] = "w_inc"}

(* Every variable has its type, and the counter is one less the holders    *)
(* and the attempts that are being taken back, so that it is exact at      *)
(* rest.                                                                   *)
AtomTypeOK ==
    /\ num = 1 - Cardinality(Holders \cup Retrying)
    /\ waiters \subseteq Procs
    /\ pc \in [Procs -> AtomLabels]

(* One process at a time is let through, with other processes running at   *)
(* any point and sleepers interrupted (6.c:188 decides on the result of    *)
(* its own decrement).                                                     *)
AtomExclusion == Cardinality(Holders) <= 1

(* A process in the queue has a wake-up ahead: someone holds the unit, is  *)
(* about to wake the queue, or is about to take the unit (6.c:188-214).    *)
NoLostSignal ==
    waiters # {} =>
        \E p \in Procs \ waiters :
            pc[p] \in {"in", "s_inc", "s_wake", "w_dec", "w_sleep"}

(* A free unit is taken in the end by someone who waits for it: the loop   *)
(* starves single processes, but not all of them.                          *)
SomeoneServed ==
    (\E p \in Procs : pc[p] = "w_sleep") ~> (\E p \in Procs : pc[p] = "in")
=============================================================================
