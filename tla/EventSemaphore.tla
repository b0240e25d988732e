--------------------------- MODULE EventSemaphore ---------------------------
(***************************************************************************)
(* The counting semaphore inside one event of exp6.c: myevent_wait and     *)
(* myevent_signal on an event that exists, called in turn by processes     *)
(* that loop like the children of partB.c (wait, use, signal), and by      *)
(* processes that signal without having waited (signal.c).                 *)
(*                                                                         *)
(* The count is changed under mr_lock but read again after the lock was    *)
(* released, and nothing is tested between joining the queue and           *)
(* schedule().  Whether other processes run at those points depends on the *)
(* kernel: Preempt says that it has several processors or is preemptible.  *)
(* Otherwise a process in a system call runs until it sleeps or returns.   *)
(***************************************************************************)
EXTENDS Integers, FiniteSets, SequencesExt

CONSTANTS
    Procs,          \* the processes
    InitCount,      \* the c of myevent_open
    Preempt,        \* may others run in the middle of a system call?
    Interrupted,    \* processes that may get a signal while they sleep
    Strays          \* processes that may signal without having waited

ASSUME SemProcsAssumption ==
    IsFiniteSet(Procs) /\ Interrupted \subseteq Procs /\ Strays \subseteq Procs
ASSUME InitCountAssumption == InitCount \in Nat
ASSUME PreemptAssumption == Preempt \in BOOLEAN

VARIABLES
    count,          \* the count of the event
    waiters,        \* the exclusive waiters on its queue, first come first
    pc              \* where each process is

semVars == <<count, waiters, pc>>

SemLabels == {"out", "w_dec", "w_test", "w_prep", "w_sleep", "w_intr", "in",
              "s_inc", "x_inc", "s_test"}

(* The labels of a process that executes kernel code.                      *)
Running == {"w_dec", "w_test", "w_prep", "s_inc", "x_inc", "s_test"}

(* p may take a step: nobody else is in the middle of a system call.       *)
MayRun(p) == Preempt \/ \A q \in Procs \ {p} : pc[q] \notin Running

SemInit ==
    /\ count = InitCount
    /\ waiters = <<>>
    /\ pc = [p \in Procs |-> "out"]

Move(p, from, to) ==
    /\ MayRun(p)
    /\ pc[p] = from
    /\ pc' = [pc EXCEPT ![p] = to]

-----------------------------------------------------------------------------
(* myevent_wait.                                                           *)

WaitCall(p) == Move(p, "out", "w_dec") /\ UNCHANGED <<count, waiters>>

WaitDec(p) ==
    /\ Move(p, "w_dec", "w_test")
    /\ count' = count - 1
    /\ UNCHANGED waiters

(* Mutant: the test of the value from before the decrement.                *)
WaitTestOld(p) ==
    /\ Move(p, "w_test", IF count + 1 < 0 THEN "w_prep" ELSE "in")
    /\ UNCHANGED <<count, waiters>>

(* The test reads the count of that moment, not the result of its own      *)
(* decrement.                                                              *)
WaitTest(p) ==
    /\ Move(p, "w_test", IF count < 0 THEN "w_prep" ELSE "in")
    /\ UNCHANGED <<count, waiters>>

(* prepare_to_wait_exclusive and schedule.                                 *)
WaitPrepare(p) ==
    /\ Move(p, "w_prep", "w_sleep")
    /\ waiters' = Append(waiters, p)
    /\ UNCHANGED count

Queued(p) == \E i \in 1..Len(waiters) : waiters[i] = p

(* A wake-up took p off the queue: the wait is over.                       *)
WaitFinish(p) ==
    /\ Move(p, "w_sleep", "in")
    /\ ~Queued(p)
    /\ UNCHANGED <<count, waiters>>

(* A signal makes a sleeper runnable, and the wait is over just the same.  *)
Interrupt(p) ==
    /\ p \in Interrupted
    /\ Move(p, "w_sleep", "w_intr")
    /\ Queued(p)
    /\ UNCHANGED <<count, waiters>>

(* finish_wait takes p off the queue.                                      *)
Dequeue(p) ==
    \E i \in 1..Len(waiters) : waiters[i] = p /\ waiters' = RemoveAt(waiters, i)

WaitInterrupted(p) ==
    /\ Move(p, "w_intr", "in")
    /\ Dequeue(p)
    /\ UNCHANGED count

-----------------------------------------------------------------------------
(* myevent_signal.                                                         *)

SignalCall(p) == Move(p, "in", "s_inc") /\ UNCHANGED <<count, waiters>>

(* A signal by a process that holds nothing.                               *)
StraySignal(p) ==
    /\ p \in Strays
    /\ Move(p, "out", "x_inc")
    /\ UNCHANGED <<count, waiters>>

(* Mutant: no limit on the count.                                          *)
SignalIncUnlimited(p) ==
    /\ Move(p, "s_inc", "s_test") \/ Move(p, "x_inc", "s_test")
    /\ count' = count + 1
    /\ UNCHANGED waiters

(* Mutant: the limit is one too low.                                       *)
SignalIncStrict(p) ==
    /\ Move(p, "s_inc", "s_test") \/ Move(p, "x_inc", "s_test")
    /\ count' = IF count + 1 < InitCount THEN count + 1 ELSE count
    /\ UNCHANGED waiters

SignalInc(p) ==
    /\ Move(p, "s_inc", "s_test") \/ Move(p, "x_inc", "s_test")
    /\ count' = IF count + 1 <= InitCount THEN count + 1 ELSE count
    /\ UNCHANGED waiters

(* wake_up: the first exclusive waiter that is asleep.                     *)
Asleep(i) == i \in 1..Len(waiters) /\ pc[waiters[i]] = "w_sleep"

(* Mutant: the last waiter is woken.                                       *)
WakeUpLast ==
    IF waiters # <<>>
    THEN waiters' = SubSeq(waiters, 1, Len(waiters) - 1)
    ELSE UNCHANGED waiters

WakeUp ==
    IF \E i \in 1..Len(waiters) : Asleep(i)
    THEN \E i \in 1..Len(waiters) :
            /\ Asleep(i) /\ \A j \in 1..(i - 1) : ~Asleep(j)
            /\ waiters' = RemoveAt(waiters, i)
    ELSE UNCHANGED waiters

(* Mutant: a wake-up only while the count is negative.                     *)
SignalTestNegative(p) ==
    /\ Move(p, "s_test", "out")
    /\ IF count < 0 THEN WakeUp ELSE UNCHANGED waiters
    /\ UNCHANGED count

SignalTest(p) ==
    /\ Move(p, "s_test", "out")
    /\ IF count <= 0 THEN WakeUp ELSE UNCHANGED waiters
    /\ UNCHANGED count

-----------------------------------------------------------------------------
Step(p) ==
    \/ WaitDec(p) \/ WaitTest(p) \/ WaitPrepare(p) \/ WaitFinish(p)
    \/ WaitInterrupted(p) \/ SignalCall(p) \/ SignalInc(p) \/ SignalTest(p)

SemNext ==
    \E p \in Procs : Step(p) \/ WaitCall(p) \/ StraySignal(p) \/ Interrupt(p)

SemSpec == SemInit /\ [][SemNext]_semVars

(* Runnable processes run in the end, and who uses the resource gives it   *)
(* back (partB sleeps two seconds and signals).  Nobody has to wait again. *)
SemFairSpec == SemSpec /\ \A p \in Procs : SF_semVars(Step(p))

-----------------------------------------------------------------------------
(* Properties.                                                             *)

(* Processes that decremented the count and did not increment it since.    *)
Outstanding == {p \in Procs : pc[p] \in {"w_test", "w_prep", "w_sleep", "w_intr",
                                         "in", "s_inc"}}

(* Every variable has its type.  The count is never above its initial      *)
(* value, whoever signals (exp6.c:1343), and never below it by more than   *)
(* the waits under way.                                                    *)
SemTypeOK ==
    /\ count \in Int
    /\ count <= InitCount
    /\ count >= InitCount - Cardinality(Outstanding)
    /\ waiters \in Seq(Procs)
    /\ pc \in [Procs -> SemLabels]

(* If only those signal who waited, the count is the initial value less    *)
(* the waits under way: the limit never swallows a signal, with other      *)
(* processes running at any point and sleepers interrupted.                *)
CountAccounts == count = InitCount - Cardinality(Outstanding)

(* Processes whose wait is over, or will be when they next run.            *)
Granted == {p \in Procs : \/ pc[p] \in {"in", "s_inc", "w_intr"}
                          \/ pc[p] = "w_sleep" /\ ~Queued(p)}

(* "mutual exclusion semaphore" (exp6.c:1285): at most InitCount processes *)
(* are let through at a time.                                              *)
Exclusion == Cardinality(Granted) <= InitCount

(* A process in the queue is there because all units are taken: someone    *)
(* has one, or is in the middle of giving one back, and will wake it.      *)
NoLostSignal ==
    waiters # <<>> =>
        \E p \in Procs : p \in Granted \/ pc[p] = "s_test"

(* Who waits gets its turn.                                                *)
WaitersServed == \A p \in Procs : pc[p] = "w_prep" ~> pc[p] = "in"
=============================================================================
