---------------------------- MODULE ScullAccess ----------------------------
(***************************************************************************)
(* The four devices of access.c that decide at open who may use them: one  *)
(* opener at a time (scullsingle), one user at a time (sculluid), one user *)
(* at a time with a queue (scullwuid), one device for each controlling     *)
(* terminal (scullpriv).  Reads and writes are those of main.c: they hold  *)
(* the semaphore of the device, which the trims of access.c do not take.   *)
(*                                                                         *)
(* What runs under a spinlock is one step, except the search and insertion *)
(* in the list of clones: kmalloc(GFP_KERNEL) may sleep there.  An open    *)
(* that is refused without having changed anything is no step at all.      *)
(***************************************************************************)
EXTENDS Integers, FiniteSets

CONSTANTS
    Procs,          \* the processes, each with one file at most
    Users, Root,    \* the user ids, and 0
    Uid, Euid,      \* the real and effective user of each process
    Ttys, NoTty,
    Tty,            \* the controlling terminal of each process, or NoTty
    None,           \* nobody has the lock
    Smp             \* are spinlocks more than nothing?

ASSUME UsersAssumption ==
    /\ Root \in Users
    /\ Uid \in [Procs -> Users] /\ Euid \in [Procs -> Users]
ASSUME TtysAssumption == NoTty \notin Ttys /\ Tty \in [Procs -> Ttys \cup {NoTty}]
ASSUME LockAssumption == None \notin Procs /\ Smp \in BOOLEAN
ASSUME ProcsAssumption == IsFiniteSet(Procs)

VARIABLES
    scull_s_available,
    scull_u_count, scull_u_owner,
    scull_w_count, scull_w_owner,
    scull_w_wait,       \* the processes in the queue
    scull_c_lock,       \* the process that holds it, or None
    scull_c_list,       \* how many devices the list has for each terminal
    at,                 \* where each process is
    dev                 \* private_data of its file, <<>> while it has none

accessVars == <<scull_s_available, scull_u_count, scull_u_owner, scull_w_count,
                scull_w_owner, scull_w_wait, scull_c_lock, scull_c_list, at, dev>>

single == <<scull_s_available>>
user == <<scull_u_count, scull_u_owner>>
wuser == <<scull_w_count, scull_w_owner, scull_w_wait>>
clones == <<scull_c_lock, scull_c_list>>

Single == <<"single">>
ByUser == <<"uid">>
Waited == <<"wuid">>
Clone(t, n) == <<"priv", t, n>>     \* the nth device made for terminal t

AccessInit ==
    /\ scull_s_available = 1
    /\ scull_u_count = 0 /\ scull_u_owner = Root
    /\ scull_w_count = 0 /\ scull_w_owner = Root /\ scull_w_wait = {}
    /\ scull_c_lock = None /\ scull_c_list = [t \in Ttys |-> 0]
    /\ at = [p \in Procs |-> "closed"]
    /\ dev = [p \in Procs |-> <<>>]

Users_of(d) == {p \in Procs : dev[p] = d}

capable(p) == Euid[p] = Root

Go(p, from, to) == at[p] = from /\ at' = [at EXCEPT ![p] = to]

(* The end of every open: a write-only file empties the device first.      *)
OpenedFrom(p, from, d) ==
    /\ dev' = [dev EXCEPT ![p] = d]
    /\ Go(p, from, "trim") \/ Go(p, from, "open")

Trimmed(p) == Go(p, "trim", "open") /\ UNCHANGED <<dev, single, user, wuser, clones>>

(* A read or write, under the semaphore of the device.                     *)
CallBegin(p) ==
    /\ \A q \in Users_of(dev[p]) : at[q] # "call"
    /\ Go(p, "open", "call")
    /\ UNCHANGED <<dev, single, user, wuser, clones>>

CallEnd(p) == Go(p, "call", "open") /\ UNCHANGED <<dev, single, user, wuser, clones>>

Closing(p, d, to) ==
    /\ dev[p] = d /\ Go(p, "open", to)
    /\ dev' = [dev EXCEPT ![p] = <<>>]

-----------------------------------------------------------------------------
(* scullsingle.                                                            *)

(* Mutant: the counter is tested before it is decremented.                 *)
scull_s_open_lt(p) ==
    /\ scull_s_available' = scull_s_available - 1
    /\ IF scull_s_available' <= 0 THEN OpenedFrom(p, "closed", Single)
       ELSE Go(p, "closed", "undo") /\ UNCHANGED dev
    /\ UNCHANGED <<user, wuser, clones>>

scull_s_open(p) ==
    /\ scull_s_available' = scull_s_available - 1
    /\ IF scull_s_available' = 0 THEN OpenedFrom(p, "closed", Single)
       ELSE Go(p, "closed", "undo") /\ UNCHANGED dev
    /\ UNCHANGED <<user, wuser, clones>>

(* -EBUSY.                                                                 *)
scull_s_undo(p) ==
    /\ Go(p, "undo", "closed")
    /\ scull_s_available' = scull_s_available + 1
    /\ UNCHANGED <<dev, user, wuser, clones>>

scull_s_release(p) ==
    /\ Closing(p, Single, "closed")
    /\ scull_s_available' = scull_s_available + 1
    /\ UNCHANGED <<user, wuser, clones>>

-----------------------------------------------------------------------------
(* sculluid.                                                               *)

(* Mutant: every opener becomes the owner.                                 *)
scull_u_open_grab(p) ==
    /\ \/ scull_u_count = 0
       \/ scull_u_owner \in {Uid[p], Euid[p]}
       \/ capable(p)
    /\ scull_u_owner' = Uid[p]
    /\ scull_u_count' = scull_u_count + 1
    /\ OpenedFrom(p, "closed", ByUser)
    /\ UNCHANGED <<single, wuser, clones>>

scull_u_open(p) ==
    /\ \/ scull_u_count = 0
       \/ scull_u_owner \in {Uid[p], Euid[p]}
       \/ capable(p)
    /\ scull_u_owner' = IF scull_u_count = 0 THEN Uid[p] ELSE scull_u_owner
    /\ scull_u_count' = scull_u_count + 1
    /\ OpenedFrom(p, "closed", ByUser)
    /\ UNCHANGED <<single, wuser, clones>>

scull_u_release(p) ==
    /\ Closing(p, ByUser, "closed")
    /\ scull_u_count' = scull_u_count - 1
    /\ UNCHANGED <<scull_u_owner, single, wuser, clones>>

-----------------------------------------------------------------------------
(* scullwuid.                                                              *)

scull_w_available(p) ==
    \/ scull_w_count = 0
    \/ scull_w_owner \in {Uid[p], Euid[p]}
    \/ capable(p)

(* The test under the lock: the device is taken, or the process goes to    *)
(* wait (with O_NONBLOCK it would return -EAGAIN).                         *)
scull_w_open(p, from) ==
    /\ from \in {"closed", "retry"}
    /\ IF scull_w_available(p)
       THEN /\ scull_w_owner' = IF scull_w_count = 0 THEN Uid[p] ELSE scull_w_owner
            /\ scull_w_count' = scull_w_count + 1
            /\ OpenedFrom(p, from, Waited)
       ELSE Go(p, from, "wait") /\ UNCHANGED <<scull_w_count, scull_w_owner, dev>>
    /\ UNCHANGED <<scull_w_wait, single, user, clones>>

(* wait_event_interruptible: prepare_to_wait, the condition, without the   *)
(* lock, and schedule().                                                   *)
WaitPrepare(p) ==
    /\ Go(p, "wait", "test")
    /\ scull_w_wait' = scull_w_wait \cup {p}
    /\ UNCHANGED <<scull_w_count, scull_w_owner, dev, single, user, clones>>

WaitTest(p) ==
    /\ IF scull_w_available(p)
       THEN Go(p, "test", "retry") /\ scull_w_wait' = scull_w_wait \ {p}
       ELSE Go(p, "test", "asleep") /\ UNCHANGED scull_w_wait
    /\ UNCHANGED <<scull_w_count, scull_w_owner, dev, single, user, clones>>

(* The wake-up took the process out of the queue.                          *)
WaitAgain(p) ==
    /\ p \notin scull_w_wait /\ Go(p, "asleep", "wait")
    /\ UNCHANGED <<dev, single, user, wuser, clones>>

(* A signal ends the wait: -ERESTARTSYS, unless the condition has come true.*)
WaitInterrupted(p) ==
    /\ at[p] \in {"test", "asleep"}
    /\ at' = [at EXCEPT ![p] = IF scull_w_available(p) THEN "retry" ELSE "closed"]
    /\ scull_w_wait' = scull_w_wait \ {p}
    /\ UNCHANGED <<scull_w_count, scull_w_owner, dev, single, user, clones>>

(* Mutant: temp is read before the decrement.                              *)
scull_w_release_before(p) ==
    /\ Closing(p, Waited, IF scull_w_count = 0 THEN "wake" ELSE "closed")
    /\ scull_w_count' = scull_w_count - 1
    /\ UNCHANGED <<scull_w_owner, scull_w_wait, single, user, clones>>

scull_w_release(p) ==
    /\ Closing(p, Waited, IF scull_w_count = 1 THEN "wake" ELSE "closed")
    /\ scull_w_count' = scull_w_count - 1
    /\ UNCHANGED <<scull_w_owner, scull_w_wait, single, user, clones>>

(* wake_up_interruptible_sync, after the lock was released.                *)
WakeWaiters(p) ==
    /\ Go(p, "wake", "closed")
    /\ scull_w_wait' = {}
    /\ UNCHANGED <<scull_w_count, scull_w_owner, dev, single, user, clones>>

-----------------------------------------------------------------------------
(* scullpriv.                                                              *)

(* Mutant: the lock is released around the allocation.                     *)
scull_c_open_unlocked(p) ==
    LET t == Tty[p] IN
    /\ t # NoTty /\ scull_c_lock = None
    /\ IF scull_c_list[t] > 0
       THEN OpenedFrom(p, "closed", Clone(t, scull_c_list[t]))
       ELSE Go(p, "closed", "alloc") /\ UNCHANGED dev
    /\ UNCHANGED <<clones, single, user, wuser>>

(* The lock is taken and the list searched; what is not found is allocated *)
(* with the lock held.                                                     *)
scull_c_open(p) ==
    LET t == Tty[p] IN
    /\ t # NoTty /\ scull_c_lock = None
    /\ IF scull_c_list[t] > 0
       THEN OpenedFrom(p, "closed", Clone(t, scull_c_list[t])) /\ UNCHANGED scull_c_lock
       ELSE /\ Go(p, "closed", "alloc") /\ UNCHANGED dev
            /\ scull_c_lock' = IF Smp THEN p ELSE None
    /\ UNCHANGED <<scull_c_list, single, user, wuser>>

(* kmalloc returned: the new device is put in front of the list, or there  *)
(* is none (-ENOMEM).                                                      *)
scull_c_lookfor_device(p) ==
    LET t == Tty[p] IN
    /\ at[p] = "alloc"
    /\ scull_c_lock' = None
    /\ \/ /\ scull_c_list' = [scull_c_list EXCEPT ![t] = @ + 1]
          /\ OpenedFrom(p, "alloc", Clone(t, scull_c_list[t] + 1))
       \/ Go(p, "alloc", "closed") /\ UNCHANGED <<scull_c_list, dev>>
    /\ UNCHANGED <<single, user, wuser>>

(* The device stays.                                                       *)
scull_c_release(p) ==
    /\ \E t \in Ttys, n \in 1..Cardinality(Procs) : Closing(p, Clone(t, n), "closed")
    /\ UNCHANGED <<single, user, wuser, clones>>

-----------------------------------------------------------------------------
AccessStep(p) ==
    \/ scull_s_open(p) \/ scull_s_undo(p) \/ scull_s_release(p)
    \/ scull_u_open(p) \/ scull_u_release(p)
    \/ \E from \in {"closed", "retry"} : scull_w_open(p, from)
    \/ WaitPrepare(p) \/ WaitTest(p) \/ WaitAgain(p) \/ WaitInterrupted(p)
    \/ scull_w_release(p) \/ WakeWaiters(p)
    \/ scull_c_open(p) \/ scull_c_lookfor_device(p) \/ scull_c_release(p)
    \/ Trimmed(p) \/ CallBegin(p) \/ CallEnd(p)

AccessNext == \E p \in Procs : AccessStep(p)

AccessSpec == AccessInit /\ [][AccessNext]_accessVars

-----------------------------------------------------------------------------
(* Properties.                                                             *)

(* The counter of scullsingle is 1 less the file that is open and the      *)
(* attempts that will be taken back, so two files are never open and no    *)
(* trim runs beside a call; the counter never drifts (access.c 57-58, 71). *)
SingleOpen ==
    /\ \A p, q \in Users_of(Single) : p = q
    /\ scull_s_available = 1 - Cardinality(Users_of(Single))
                             - Cardinality({p \in Procs : at[p] = "undo"})

(* While sculluid or scullwuid is open, every process that has it open is  *)
(* the owner by its real or effective user, or root, and the counts are    *)
(* the open files, whoever came and left in which order.                   *)
OneOwner ==
    /\ \A p \in Users_of(ByUser) : capable(p) \/ scull_u_owner \in {Uid[p], Euid[p]}
    /\ \A p \in Users_of(Waited) : capable(p) \/ scull_w_owner \in {Uid[p], Euid[p]}
    /\ scull_u_count = Cardinality(Users_of(ByUser))
    /\ scull_w_count = Cardinality(Users_of(Waited))

(* A process that sleeps in the queue of scullwuid although it could have  *)
(* the device will be woken: the last release is on its way to wake_up.    *)
NoForgottenOpener ==
    \A p \in scull_w_wait :
        at[p] = "asleep" /\ scull_w_available(p) => \E q \in Procs : at[q] = "wake"

(* With real spinlocks a terminal never gets a second device, so two files *)
(* of scullpriv share their device exactly if their terminals are the same.*)
OneClonePerTerminal ==
    Smp => /\ \A t \in Ttys : scull_c_list[t] <= 1
           /\ \A p, q \in Procs :
                 dev[p] # <<>> /\ dev[q] # <<>> /\ dev[p][1] = "priv" /\ dev[q][1] = "priv"
                 => (dev[p] = dev[q] <=> Tty[p] = Tty[q])
=============================================================================
