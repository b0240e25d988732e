----------------------------- MODULE PageFault ------------------------------
(***************************************************************************)
(* The page fault handler of exp6.c (an arch/x86/mm/fault.c that counts    *)
(* the faults in pfcount), with the threads of one process on one or       *)
(* several processors.  One user page and one page of the vmalloc area     *)
(* stand for the address space.  mmap, which changes the user page's area  *)
(* and takes its page away under mmap_sem, is the rest of the kernel's.    *)
(*                                                                         *)
(* Left out: kmemcheck, mmiotrace, kprobes, prefetch and CPU errata, huge  *)
(* pages, and the contents of the messages.                                *)
(***************************************************************************)
EXTENDS Integers, FiniteSets

CONSTANTS
    Threads,
    MaxFaults       \* bound: faults in all

ASSUME FaultAssumption == MaxFaults \in Nat

VARIABLES
    smp,            \* more than one processor?
    at, fault,      \* each thread's place and its fault
    readers, writer,        \* mmap_sem
    vma, pte,       \* the area of the user page, and its page
    master, synced, \* the vmalloc page in init_mm, and in this process
    pfcount, loaded_pf,     \* the counter, and the value a thread has loaded
    faults          \* how many faults there were

faultVars == <<smp, at, fault, readers, writer, vma, pte, master, synced, pfcount,
               loaded_pf, faults>>
memory_map == <<vma, pte>>
kernel_map == <<master, synced>>
sem == <<readers, writer>>
counter == <<smp, pfcount, loaded_pf, faults>>

NoFault == [user |-> TRUE, write |-> FALSE, prot |-> FALSE, rsvd |-> FALSE,
            entry |-> FALSE, kernel |-> FALSE, back |-> "run"]

FaultInit ==
    /\ smp \in BOOLEAN
    /\ at = [t \in Threads |-> "run"] /\ fault = [t \in Threads |-> NoFault]
    /\ readers = {} /\ writer = {}
    /\ vma \in {"none", "ro", "rw", "below"} /\ pte = "none"
    /\ master = "none" /\ synced = FALSE
    /\ pfcount = 0 /\ loaded_pf = [t \in Threads |-> 0] /\ faults = 0

Moves(t, from, to) == at[t] = from /\ at' = [at EXCEPT ![t] = to]

-----------------------------------------------------------------------------
(* The rest of the kernel.                                                 *)

(* An access the hardware refuses.  In user mode or by the routines that   *)
(* copy to and from users (entry: there is an exception table entry); or   *)
(* by kernel code that holds mmap_sem and is not prepared for a fault.     *)
Access(t, f) ==
    /\ at[t] = f.back /\ faults < MaxFaults
    /\ f.user => ~f.entry /\ f.back = "run"
    /\ f.back # "run" => ~f.entry
    /\ f.kernel \/ (IF f.prot THEN pte = "ro" /\ f.write ELSE pte = "none")
    /\ f.kernel /\ ~f.user => f.prot = (synced /\ master # "none")
    /\ at' = [at EXCEPT ![t] = "count"] /\ fault' = [fault EXCEPT ![t] = f]
    /\ faults' = faults + 1
    /\ UNCHANGED <<smp, sem, memory_map, kernel_map, pfcount, loaded_pf>>

LockForMmap(t) ==
    /\ Moves(t, "run", "mmap") /\ readers = {} /\ writer = {}
    /\ writer' = {t}
    /\ UNCHANGED <<fault, readers, memory_map, kernel_map, counter>>

ChangeArea(t) ==
    /\ Moves(t, "mmap", "zap")
    /\ vma' \in {"none", "ro", "rw", "below"}
    /\ UNCHANGED <<fault, sem, pte, kernel_map, counter>>

Zap(t) ==
    /\ Moves(t, "zap", "run")
    /\ pte' = "none" /\ writer' = {}
    /\ UNCHANGED <<fault, readers, vma, kernel_map, counter>>

(* vmalloc, and a change of protection that leaves stale TLB entries.      *)
MapKernel ==
    /\ master' \in {"ro", "rw"} /\ master # "rw"
    /\ UNCHANGED <<at, fault, sem, memory_map, synced, counter>>

-----------------------------------------------------------------------------
(* do_page_fault.                                                          *)

(* pfcount++: one instruction, which another processor can run at the same *)
(* time.                                                                   *)
CountLoad(t) ==
    /\ smp /\ Moves(t, "count", "store")
    /\ loaded_pf' = [loaded_pf EXCEPT ![t] = pfcount]
    /\ UNCHANGED <<smp, fault, sem, memory_map, kernel_map, pfcount, faults>>

CountStore(t) ==
    /\ Moves(t, "store", "entry")
    /\ pfcount' = loaded_pf[t] + 1 /\ loaded_pf' = [loaded_pf EXCEPT ![t] = 0]
    /\ UNCHANGED <<smp, fault, sem, memory_map, kernel_map, faults>>

CountAtOnce(t) ==
    /\ ~smp /\ Moves(t, "count", "entry")
    /\ pfcount' = pfcount + 1
    /\ UNCHANGED <<smp, fault, sem, memory_map, kernel_map, loaded_pf, faults>>

(* The thread goes on where it was, with a signal or without; or it is     *)
(* dead, with what it holds.                                               *)
Ends(t, how) ==
    IF how = "oops" THEN at' = [at EXCEPT ![t] = "dead"] /\ UNCHANGED fault
    ELSE at' = [at EXCEPT ![t] = fault[t].back] /\ fault' = [fault EXCEPT ![t] = NoFault]

no_context(t) == Ends(t, IF fault[t].entry THEN "fixed up" ELSE "oops")

bad_area_nosemaphore(t) == IF fault[t].user THEN Ends(t, "SIGSEGV") ELSE no_context(t)

bad_area(t) == readers' = readers \ {t} /\ UNCHANGED writer /\ bad_area_nosemaphore(t)

vmalloc_fault == master # "none" /\ synced' = TRUE

spurious_fault(t) ==
    /\ ~fault[t].user /\ ~fault[t].rsvd
    /\ master # "none" /\ (fault[t].write => master = "rw")

(* Addresses of the kernel: no lock is taken.                              *)
KernelSpace(t) ==
    /\ at[t] = "entry" /\ fault[t].kernel
    /\ LET absent == ~fault[t].rsvd /\ ~fault[t].user /\ ~fault[t].prot
       IN \/ absent /\ vmalloc_fault /\ Ends(t, "synced")
          \/ /\ ~(absent /\ master # "none") /\ UNCHANGED synced
             /\ IF spurious_fault(t) THEN Ends(t, "spurious") ELSE bad_area_nosemaphore(t)
    /\ UNCHANGED <<sem, memory_map, master, counter>>

(* A corrupted page table (pgtable_bad) ends the process at once.          *)
PageTableBad(t) ==
    /\ at[t] = "entry" /\ ~fault[t].kernel /\ fault[t].rsvd
    /\ Ends(t, "oops")
    /\ UNCHANGED <<sem, memory_map, kernel_map, counter>>

(* In an atomic section, or in a thread without a user context.            *)
InAtomic(t) ==
    /\ at[t] = "entry" /\ ~fault[t].kernel /\ ~fault[t].rsvd /\ ~fault[t].user
    /\ bad_area_nosemaphore(t)
    /\ UNCHANGED <<sem, memory_map, kernel_map, counter>>

Locked(t) == readers' = readers \cup {t} /\ UNCHANGED <<writer, fault>>

(* Mutant: the source of the fault is not looked at before the sleep.      *)
LockMapSleeping(t) ==
    /\ at[t] = "entry" /\ ~fault[t].kernel /\ ~fault[t].rsvd
    /\ IF writer = {} THEN Moves(t, "entry", "vma") /\ Locked(t)
       ELSE Moves(t, "entry", "sleep") /\ UNCHANGED <<sem, fault>>
    /\ UNCHANGED <<memory_map, kernel_map, counter>>

LockMap(t) ==
    /\ at[t] = "entry" /\ ~fault[t].kernel /\ ~fault[t].rsvd
    /\ IF writer = {} THEN Moves(t, "entry", "vma") /\ Locked(t)
       ELSE IF ~fault[t].user /\ ~fault[t].entry
       THEN bad_area_nosemaphore(t) /\ UNCHANGED sem
       ELSE Moves(t, "entry", "sleep") /\ UNCHANGED <<sem, fault>>
    /\ UNCHANGED <<memory_map, kernel_map, counter>>

WakeWithLock(t) ==
    /\ Moves(t, "sleep", "vma") /\ writer = {} /\ Locked(t)
    /\ UNCHANGED <<memory_map, kernel_map, counter>>

(* Mutant: only a protection fault is an error.                            *)
access_error_prot(t) == fault[t].prot

access_error(t) == IF fault[t].write THEN vma # "rw" ELSE fault[t].prot

(* No area, or a stack that may not grow down to the address.              *)
BadArea(t) ==
    /\ at[t] = "vma" /\ vma \in {"none", "below"}
    /\ bad_area(t)
    /\ UNCHANGED <<memory_map, kernel_map, counter>>

ExpandStack(t) ==
    /\ at[t] = "vma" /\ vma = "below"
    /\ vma' = "rw"
    /\ UNCHANGED <<at, fault, sem, pte, kernel_map, counter>>

GoodArea(t) ==
    /\ at[t] = "vma" /\ vma \in {"ro", "rw"}
    /\ IF access_error(t) THEN bad_area(t)
       ELSE Moves(t, "vma", "handle") /\ UNCHANGED <<sem, fault>>
    /\ UNCHANGED <<memory_map, kernel_map, counter>>

(* handle_mm_fault put the page in: read only, or writable for a write.    *)
Handled(t) ==
    /\ at[t] = "handle"
    /\ pte' = IF fault[t].write THEN "rw" ELSE IF pte = "none" THEN "ro" ELSE pte
    /\ readers' = readers \ {t} /\ Ends(t, "handled")
    /\ UNCHANGED <<writer, vma, kernel_map, counter>>

(* It could not: no memory (the access is tried again), or a bus error.    *)
mm_fault_error(t) ==
    /\ at[t] = "handle"
    /\ readers' = readers \ {t}
    /\ \/ Ends(t, "out of memory")
       \/ IF fault[t].user THEN Ends(t, "SIGBUS") ELSE no_context(t)
    /\ UNCHANGED <<writer, memory_map, kernel_map, counter>>

Faults == [user : BOOLEAN, write : BOOLEAN, prot : BOOLEAN, rsvd : BOOLEAN,
           entry : BOOLEAN, kernel : BOOLEAN, back : {"run", "mmap", "zap"}]

FaultStep(t) ==
    \/ \E f \in Faults : Access(t, f)
    \/ LockForMmap(t) \/ ChangeArea(t) \/ Zap(t)
    \/ CountLoad(t) \/ CountStore(t) \/ CountAtOnce(t)
    \/ KernelSpace(t) \/ PageTableBad(t) \/ InAtomic(t) \/ LockMap(t) \/ WakeWithLock(t)
    \/ BadArea(t) \/ ExpandStack(t) \/ GoodArea(t) \/ Handled(t) \/ mm_fault_error(t)

FaultNext == MapKernel \/ \E t \in Threads : FaultStep(t)

FaultSpec == FaultInit /\ [][FaultNext]_faultVars

-----------------------------------------------------------------------------
(* A page is only there where there is an area, and only writable where    *)
(* the area is, whatever mmap and other faults do between the steps of a   *)
(* handler (except within a change of the area itself).                    *)
PagesFollowArea ==
    (\A t \in Threads : ~(at[t] = "zap" \/ (writer = {t} /\ fault[t].back = "zap"))) =>
        /\ pte # "none" => vma \in {"ro", "rw"}
        /\ pte = "rw" => vma = "rw"

(* Every way out of the handler gives mmap_sem back, nobody sleeps for a   *)
(* lock it holds itself (the deadlock the comment at exp6.c 1111 is about),*)
(* and a program in user mode never makes the kernel oops, but for         *)
(* corrupted page tables.                                                  *)
FaultSound ==
    /\ readers = {t \in Threads : at[t] \in {"vma", "handle"}}
    /\ \A t \in Threads : at[t] = "sleep" => t \notin writer
    /\ \A t \in Threads : at[t] = "dead" => ~fault[t].user \/ fault[t].rsvd
    /\ pfcount <= faults /\ (~smp => pfcount = faults - Cardinality({t \in Threads : at[t] = "count"}))
=============================================================================
