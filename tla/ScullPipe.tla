----------------------------- MODULE ScullPipe ------------------------------
(***************************************************************************)
(* One scullpipe device (scull/pipe.c) and the processes that use it.      *)
(*                                                                         *)
(* The driver's code runs in the processes that call it.  A label in pc    *)
(* stands between two points of a driver method at which other processes   *)
(* can act on what the code reads next; the code between two labels is one *)
(* action.  Code under dev->sem is cut where another process looks at rp   *)
(* and wp WITHOUT the semaphore (the condition of wait_event_interruptible *)
(* in scull_p_read and the second spacefree() in scull_getwritespace).     *)
(*                                                                         *)
(* Pointers are offsets from dev->buffer; dev->end is the offset           *)
(* buffersize, because scull_p_open always assigns the two together.       *)
(*                                                                         *)
(* Each process has at most one open file and one call in progress.        *)
(***************************************************************************)
EXTENDS Integers, Sequences, FiniteSets

CONSTANTS
    Procs,          \* the processes
    Bytes,          \* the values of a byte of data
    Junk,           \* the contents of memory nobody has written
    Sizes,          \* values scull_p_buffer is given by ioctl
    DefaultSize,    \* SCULL_P_BUFFER
    MaxSize,        \* bound on the sizes
    MaxCount,       \* bound on the count of a read or a write
    Modes,          \* the f_mode values opens ask for
    Signalled,      \* processes that others may send signals to
    AsyncReaders,   \* processes that set FASYNC on their file
    Pollers,        \* processes that use select() or poll()
    LateOpen,       \* may an open run while calls of others are in progress?
    LateResize      \* may the ioctl change scull_p_buffer of an open device?

(* The data of a write of at most MaxCount bytes.                          *)
Data == UNION {[1..n -> Bytes] : n \in 0..MaxCount}

ASSUME ProcsAssumption ==
    /\ IsFiniteSet(Procs)
    /\ Signalled \subseteq Procs
    /\ AsyncReaders \subseteq Procs
    /\ Pollers \subseteq Procs
ASSUME SizesAssumption ==
    /\ MaxSize \in Nat
    /\ MaxCount \in Nat
    /\ Sizes \subseteq 0..MaxSize
    /\ DefaultSize \in 0..MaxSize
ASSUME JunkAssumption == Junk \notin Bytes
ASSUME ModesAssumption == Modes \subseteq SUBSET {"r", "w"} /\ {} \notin Modes
ASSUME EnvAssumption == LateOpen \in BOOLEAN /\ LateResize \in BOOLEAN

VARIABLES
    buffer,         \* NULL, or the size of the block kmalloc returned
    buffersize,     \* dev->buffersize, and the offset of dev->end
    rp, wp,         \* where to read, where to write
    mem,            \* the bytes at each offset
    nreaders,       \* number of openings for reading
    nwriters,       \* number of openings for writing
    sem,            \* the count of dev->sem
    inq, outq,      \* processes that no wake-up has reached yet
    async_queue,    \* processes whose file is in the fasync list
    scull_p_buffer, \* the size for the next allocation
    pc,             \* where each process is in the driver
    mode,           \* f_mode of its file, {} when it has none
    nonblock,       \* O_NONBLOCK of the call in progress
    cnt,            \* count of the read in progress
    ubuf,           \* the user buffer: bytes still to write, or read
    want,           \* the events a poll waits for
    sig             \* signal_pending() during a call

bufVars == <<buffer, buffersize, rp, wp, mem, nreaders, nwriters>>
queueVars == <<inq, outq>>
fileVars == <<async_queue, scull_p_buffer, mode>>
callVars == <<nonblock, cnt, ubuf, want, sig>>

vars == <<bufVars, sem, queueVars, fileVars, pc, callVars>>

NULL == -1

Labels == {"closed", "idle", "c_down",
           "r_down", "r_test", "r_wrap", "r_wake",
           "r_wait", "r_prep", "r_check", "r_sleep",
           "w_down", "w_space", "w_wrap", "w_wake", "w_sigio",
           "w_prep", "w_check", "w_sleep", "w_finish",
           "p_down", "p_sleep"}

(* The labels at which a process holds dev->sem.                           *)
Holding == {"r_test", "r_wrap", "w_space", "w_wrap"}

InCall(p) == pc[p] \notin {"closed", "idle"}
Quiescent == \A p \in Procs : ~InCall(p)

Lesser(a, b) == IF a <= b THEN a ELSE b

-----------------------------------------------------------------------------
(* scull_p_init: memset to zero, init_MUTEX, no file open.                 *)
Init ==
    /\ buffer = NULL /\ buffersize = 0 /\ rp = 0 /\ wp = 0
    /\ mem = [i \in 0..(MaxSize - 1) |-> Junk]
    /\ nreaders = 0 /\ nwriters = 0
    /\ sem = 1
    /\ inq = {} /\ outq = {}
    /\ async_queue = {}
    /\ scull_p_buffer = DefaultSize
    /\ mode = [p \in Procs |-> {}]
    /\ pc = [p \in Procs |-> "closed"]
    /\ nonblock = [p \in Procs |-> FALSE]
    /\ cnt = [p \in Procs |-> 0]
    /\ ubuf = [p \in Procs |-> <<>>]
    /\ want = [p \in Procs |-> {}]
    /\ sig = [p \in Procs |-> FALSE]

(* Mutant: the byte that keeps full and empty apart is given away.         *)
SpaceFreeAll ==
    IF rp = wp THEN buffersize
               ELSE (rp + buffersize - wp) % buffersize

(* How much space is free?  -1 when the write pointer is one lap ahead.    *)
SpaceFree ==
    IF rp = wp THEN buffersize - 1
               ELSE ((rp + buffersize - wp) % buffersize) - 1

GoTo(p, label) == pc' = [pc EXCEPT ![p] = label]

(* Return to user mode: the arguments are gone and pending signals have    *)
(* been delivered.                                                         *)
Return(p) ==
    /\ GoTo(p, "idle")
    /\ nonblock' = [nonblock EXCEPT ![p] = FALSE]
    /\ cnt' = [cnt EXCEPT ![p] = 0]
    /\ ubuf' = [ubuf EXCEPT ![p] = <<>>]
    /\ want' = [want EXCEPT ![p] = {}]
    /\ sig' = [sig EXCEPT ![p] = FALSE]

(* down_interruptible at label `from': the semaphore is taken and the code *)
(* goes on at label `to', or a signal ends the wait and the method returns *)
(* -ERESTARTSYS.                                                           *)
Down(p, from, to) ==
    /\ pc[p] = from
    /\ sem = 1
    /\ sem' = 0
    /\ GoTo(p, to)
    /\ UNCHANGED <<bufVars, queueVars, fileVars, callVars>>

DownInterrupted(p, from) ==
    /\ pc[p] = from
    /\ sem = 0 /\ sig[p]
    /\ Return(p)
    /\ UNCHANGED <<bufVars, sem, queueVars, fileVars>>

Up == sem' = 1

-----------------------------------------------------------------------------
(* Open and close.                                                         *)

(* Mutant: the block is always allocated with the default size.            *)
OpenDefaultSize(p) ==
    /\ pc[p] = "closed"
    /\ sem = 1
    /\ LateOpen \/ Quiescent
    /\ IF buffer = NULL
       THEN /\ buffer' = DefaultSize
            /\ mem' = [i \in 0..(MaxSize - 1) |-> Junk]
       ELSE UNCHANGED <<buffer, mem>>
    /\ buffersize' = scull_p_buffer
    /\ rp' = 0 /\ wp' = 0
    /\ \E m \in Modes :
        /\ mode' = [mode EXCEPT ![p] = m]
        /\ nreaders' = nreaders + (IF "r" \in m THEN 1 ELSE 0)
        /\ nwriters' = nwriters + (IF "w" \in m THEN 1 ELSE 0)
    /\ GoTo(p, "idle")
    /\ UNCHANGED <<sem, queueVars, async_queue, scull_p_buffer, callVars>>

(* scull_p_open.  A failed kmalloc or an interrupted down changes nothing. *)
(* Everything from down to up is one step.                                 *)
Open(p) ==
    /\ pc[p] = "closed"
    /\ sem = 1
    /\ LateOpen \/ Quiescent
    /\ IF buffer = NULL
       THEN /\ buffer' = scull_p_buffer
            /\ mem' = [i \in 0..(MaxSize - 1) |-> Junk]
       ELSE UNCHANGED <<buffer, mem>>
    /\ buffersize' = scull_p_buffer
    /\ rp' = 0 /\ wp' = 0
    /\ \E m \in Modes :
        /\ mode' = [mode EXCEPT ![p] = m]
        /\ nreaders' = nreaders + (IF "r" \in m THEN 1 ELSE 0)
        /\ nwriters' = nwriters + (IF "w" \in m THEN 1 ELSE 0)
    /\ GoTo(p, "idle")
    /\ UNCHANGED <<sem, queueVars, async_queue, scull_p_buffer, callVars>>

(* Mutant: release forgets the asynchronous readers.                       *)
CloseKeepsAsync(p) ==
    /\ pc[p] = "idle"
    /\ GoTo(p, "c_down")
    /\ UNCHANGED <<bufVars, sem, queueVars, fileVars, callVars>>

(* scull_p_release up to the down: the file leaves the fasync list.        *)
Close(p) ==
    /\ pc[p] = "idle"
    /\ async_queue' = async_queue \ {p}
    /\ GoTo(p, "c_down")
    /\ UNCHANGED <<bufVars, sem, queueVars, scull_p_buffer, mode, callVars>>

(* Mutant: the buffer goes with the last reader.                           *)
ReleaseLastReader(p) ==
    /\ pc[p] = "c_down"
    /\ sem = 1
    /\ nreaders' = nreaders - (IF "r" \in mode[p] THEN 1 ELSE 0)
    /\ nwriters' = nwriters - (IF "w" \in mode[p] THEN 1 ELSE 0)
    /\ buffer' = IF nreaders' = 0 THEN NULL ELSE buffer
    /\ mode' = [mode EXCEPT ![p] = {}]
    /\ pc' = [pc EXCEPT ![p] = "closed"]
    /\ sig' = [sig EXCEPT ![p] = FALSE]
    /\ UNCHANGED <<buffersize, rp, wp, mem, sem, queueVars, async_queue,
                   scull_p_buffer, nonblock, cnt, ubuf, want>>

(* scull_p_release under the semaphore; down() here ignores signals.       *)
Release(p) ==
    /\ pc[p] = "c_down"
    /\ sem = 1
    /\ nreaders' = nreaders - (IF "r" \in mode[p] THEN 1 ELSE 0)
    /\ nwriters' = nwriters - (IF "w" \in mode[p] THEN 1 ELSE 0)
    /\ buffer' = IF nreaders' + nwriters' = 0 THEN NULL ELSE buffer
    /\ mode' = [mode EXCEPT ![p] = {}]
    /\ pc' = [pc EXCEPT ![p] = "closed"]
    /\ sig' = [sig EXCEPT ![p] = FALSE]
    /\ UNCHANGED <<buffersize, rp, wp, mem, sem, queueVars, async_queue,
                   scull_p_buffer, nonblock, cnt, ubuf, want>>

(* SCULL_P_IOCTSIZE, on this device or on a scull device: no semaphore and *)
(* no look at the devices the new size will apply to.                      *)
SetSize ==
    /\ LateResize \/ buffer = NULL
    /\ scull_p_buffer' \in Sizes \ {scull_p_buffer}
    /\ UNCHANGED <<bufVars, sem, queueVars, async_queue, mode, pc, callVars>>

(* fcntl(F_SETFL) with or without FASYNC: scull_p_fasync.                  *)
Fasync(p) ==
    /\ pc[p] = "idle" /\ p \in AsyncReaders
    /\ async_queue' \in {async_queue \ {p}, async_queue \union {p}} \ {async_queue}
    /\ UNCHANGED <<bufVars, sem, queueVars, scull_p_buffer, mode, pc, callVars>>

(* A signal arrives during a call (outside of one the driver is not        *)
(* affected).                                                              *)
Signal(p) ==
    /\ InCall(p) /\ p \in Signalled
    /\ ~sig[p]
    /\ sig' = [sig EXCEPT ![p] = TRUE]
    /\ UNCHANGED <<bufVars, sem, queueVars, fileVars, pc, nonblock, cnt, ubuf, want>>

-----------------------------------------------------------------------------
(* scull_p_read.                                                           *)

ReadCall(p) ==
    /\ pc[p] = "idle" /\ "r" \in mode[p]
    /\ \E n \in 0..MaxCount : cnt' = [cnt EXCEPT ![p] = n]
    /\ \E b \in BOOLEAN : nonblock' = [nonblock EXCEPT ![p] = b]
    /\ GoTo(p, "r_down")
    /\ UNCHANGED <<bufVars, sem, queueVars, fileVars, ubuf, want, sig>>

ReadDown(p) == Down(p, "r_down", "r_test")
ReadDownInterrupted(p) == DownInterrupted(p, "r_down")

(* Nothing to read: the semaphore is released, and the call ends with      *)
(* -EAGAIN or waits.                                                       *)
ReadEmpty(p) ==
    /\ pc[p] = "r_test"
    /\ rp = wp
    /\ Up
    /\ IF nonblock[p] THEN Return(p)
                      ELSE GoTo(p, "r_wait") /\ UNCHANGED callVars
    /\ UNCHANGED <<bufVars, queueVars, fileVars>>

(* How many bytes one read takes: no further than wp, or dev->end.         *)
ReadCount(p) == Lesser(cnt[p], IF wp > rp THEN wp - rp ELSE buffersize - rp)

(* Data is there: it is copied out and rp advances, unwrapped at first.    *)
ReadCopy(p) ==
    /\ pc[p] = "r_test"
    /\ rp # wp
    /\ ubuf' = [ubuf EXCEPT ![p] = [i \in 1..ReadCount(p) |-> mem[rp + i - 1]]]
    /\ rp' = rp + ReadCount(p)
    /\ GoTo(p, "r_wrap")
    /\ UNCHANGED <<buffer, buffersize, wp, mem, nreaders, nwriters, sem,
                   queueVars, fileVars, nonblock, cnt, want, sig>>

(* Mutant: the error path keeps the semaphore.                             *)
ReadFaultLocked(p) ==
    /\ pc[p] = "r_test"
    /\ rp # wp
    /\ Return(p)
    /\ UNCHANGED <<bufVars, sem, queueVars, fileVars>>

(* copy_to_user fails: -EFAULT, nothing is consumed.                       *)
ReadFault(p) ==
    /\ pc[p] = "r_test"
    /\ rp # wp
    /\ Up
    /\ Return(p)
    /\ UNCHANGED <<bufVars, queueVars, fileVars>>

ReadWrap(p) ==
    /\ pc[p] = "r_wrap"
    /\ rp' = IF rp = buffersize THEN 0 ELSE rp
    /\ Up
    /\ GoTo(p, "r_wake")
    /\ UNCHANGED <<buffer, buffersize, wp, mem, nreaders, nwriters,
                   queueVars, fileVars, callVars>>

(* Mutant: the wrong queue is woken.                                       *)
ReadWakeReaders(p) ==
    /\ pc[p] = "r_wake"
    /\ inq' = {}
    /\ Return(p)
    /\ UNCHANGED <<bufVars, sem, outq, fileVars>>

(* wake_up_interruptible(&dev->outq), after the semaphore was released.    *)
ReadWake(p) ==
    /\ pc[p] = "r_wake"
    /\ outq' = {}
    /\ Return(p)
    /\ UNCHANGED <<bufVars, sem, inq, fileVars>>

(* wait_event_interruptible(dev->inq, rp != wp), which runs without the    *)
(* semaphore: a test; then enqueue, test again and sleep until it holds.   *)
ReadWait(p) ==
    /\ pc[p] = "r_wait"
    /\ GoTo(p, IF rp # wp THEN "r_down" ELSE "r_prep")
    /\ UNCHANGED <<bufVars, sem, queueVars, fileVars, callVars>>

ReadPrepare(p) ==
    /\ pc[p] = "r_prep"
    /\ inq' = inq \union {p}
    /\ GoTo(p, "r_check")
    /\ UNCHANGED <<bufVars, sem, outq, fileVars, callVars>>

(* Mutant: no test between joining the queue and going to sleep.           *)
ReadCheckBlind(p) ==
    /\ pc[p] = "r_check"
    /\ IF sig[p]
       THEN Return(p) /\ inq' = inq \ {p}
       ELSE GoTo(p, "r_sleep") /\ UNCHANGED <<inq, callVars>>
    /\ UNCHANGED <<bufVars, sem, outq, fileVars>>

ReadCheck(p) ==
    /\ pc[p] = "r_check"
    /\ IF rp # wp
       THEN /\ GoTo(p, "r_down")
            /\ inq' = inq \ {p}
            /\ UNCHANGED callVars
       ELSE IF sig[p]
            THEN Return(p) /\ inq' = inq \ {p}
            ELSE GoTo(p, "r_sleep") /\ UNCHANGED <<inq, callVars>>
    /\ UNCHANGED <<bufVars, sem, outq, fileVars>>

ReadAwake(p) ==
    /\ pc[p] = "r_sleep"
    /\ p \notin inq \/ sig[p]
    /\ GoTo(p, "r_prep")
    /\ UNCHANGED <<bufVars, sem, queueVars, fileVars, callVars>>

-----------------------------------------------------------------------------
(* scull_p_write and scull_getwritespace.                                  *)

WriteCall(p) ==
    /\ pc[p] = "idle" /\ "w" \in mode[p]
    /\ \E d \in Data : ubuf' = [ubuf EXCEPT ![p] = d]
    /\ \E b \in BOOLEAN : nonblock' = [nonblock EXCEPT ![p] = b]
    /\ GoTo(p, "w_down")
    /\ UNCHANGED <<bufVars, sem, queueVars, fileVars, cnt, want, sig>>

WriteDown(p) == Down(p, "w_down", "w_space")
WriteDownInterrupted(p) == DownInterrupted(p, "w_down")

(* Mutant: O_NONBLOCK is not looked at.                                    *)
WriteFullBlocks(p) ==
    /\ pc[p] = "w_space"
    /\ SpaceFree = 0
    /\ Up
    /\ GoTo(p, "w_prep")
    /\ UNCHANGED <<bufVars, queueVars, fileVars, callVars>>

(* Full: the semaphore is released, and the call ends with -EAGAIN or      *)
(* waits.                                                                  *)
WriteFull(p) ==
    /\ pc[p] = "w_space"
    /\ SpaceFree = 0
    /\ Up
    /\ IF nonblock[p] THEN Return(p)
                      ELSE GoTo(p, "w_prep") /\ UNCHANGED callVars
    /\ UNCHANGED <<bufVars, queueVars, fileVars>>

(* prepare_to_wait, the test without the semaphore, schedule, finish_wait. *)
WritePrepare(p) ==
    /\ pc[p] = "w_prep"
    /\ outq' = outq \union {p}
    /\ GoTo(p, "w_check")
    /\ UNCHANGED <<bufVars, sem, inq, fileVars, callVars>>

(* Mutant: no test between joining the queue and going to sleep.           *)
WriteCheckBlind(p) ==
    /\ pc[p] = "w_check"
    /\ GoTo(p, "w_sleep")
    /\ UNCHANGED <<bufVars, sem, queueVars, fileVars, callVars>>

WriteCheck(p) ==
    /\ pc[p] = "w_check"
    /\ GoTo(p, IF SpaceFree = 0 THEN "w_sleep" ELSE "w_finish")
    /\ UNCHANGED <<bufVars, sem, queueVars, fileVars, callVars>>

WriteAwake(p) ==
    /\ pc[p] = "w_sleep"
    /\ p \notin outq \/ sig[p]
    /\ GoTo(p, "w_finish")
    /\ UNCHANGED <<bufVars, sem, queueVars, fileVars, callVars>>

WriteFinishWait(p) ==
    /\ pc[p] = "w_finish"
    /\ outq' = outq \ {p}
    /\ IF sig[p] THEN Return(p)
                 ELSE GoTo(p, "w_down") /\ UNCHANGED callVars
    /\ UNCHANGED <<bufVars, sem, inq, fileVars>>

(* How many bytes one write accepts.  The count is a size_t, so a          *)
(* spacefree() of -1 does not limit it.                                    *)
WriteCount(p) ==
    LET room == IF wp >= rp THEN buffersize - wp ELSE rp - wp - 1
        count == IF SpaceFree < 0 THEN Len(ubuf[p])
                                  ELSE Lesser(Len(ubuf[p]), SpaceFree)
    IN  Lesser(count, room)

(* Space is there: data is copied in and wp advances, unwrapped at first.  *)
WriteCopy(p) ==
    /\ pc[p] = "w_space"
    /\ SpaceFree # 0
    /\ mem' = [i \in 0..(MaxSize - 1) |->
                  IF i \in wp..(wp + WriteCount(p) - 1)
                  THEN ubuf[p][i - wp + 1] ELSE mem[i]]
    /\ wp' = wp + WriteCount(p)
    /\ ubuf' = [ubuf EXCEPT ![p] = SubSeq(@, WriteCount(p) + 1, Len(@))]
    /\ GoTo(p, "w_wrap")
    /\ UNCHANGED <<buffer, buffersize, rp, nreaders, nwriters, sem,
                   queueVars, fileVars, nonblock, cnt, want, sig>>

(* copy_from_user fails: -EFAULT, nothing is stored.                       *)
WriteFault(p) ==
    /\ pc[p] = "w_space"
    /\ SpaceFree # 0
    /\ Up
    /\ Return(p)
    /\ UNCHANGED <<bufVars, queueVars, fileVars>>

WriteWrap(p) ==
    /\ pc[p] = "w_wrap"
    /\ wp' = IF wp = buffersize THEN 0 ELSE wp
    /\ Up
    /\ GoTo(p, "w_wake")
    /\ UNCHANGED <<buffer, buffersize, rp, mem, nreaders, nwriters,
                   queueVars, fileVars, callVars>>

(* wake_up_interruptible(&dev->inq), after the semaphore was released.     *)
WriteWake(p) ==
    /\ pc[p] = "w_wake"
    /\ inq' = {}
    /\ GoTo(p, "w_sigio")
    /\ UNCHANGED <<bufVars, sem, outq, fileVars, callVars>>

(* kill_fasync: SIGIO to the asynchronous readers.                         *)
WriteSigio(p) ==
    /\ pc[p] = "w_sigio"
    /\ GoTo(p, "idle")
    /\ nonblock' = [nonblock EXCEPT ![p] = FALSE]
    /\ ubuf' = [ubuf EXCEPT ![p] = <<>>]
    /\ sig' = [q \in Procs |-> IF q = p THEN FALSE
                               ELSE sig[q] \/ (q \in async_queue /\ InCall(q))]
    /\ UNCHANGED <<bufVars, sem, queueVars, fileVars, cnt, want>>

-----------------------------------------------------------------------------
(* scull_p_poll, called by select() and poll() until an event they want is *)
(* in the mask.  Both queues keep the caller until its call ends; a        *)
(* process that is missing from one of them has been woken.                *)

PollCall(p) ==
    /\ pc[p] = "idle" /\ p \in Pollers
    /\ \E e \in (SUBSET {"in", "out"}) \ {{}} : want' = [want EXCEPT ![p] = e]
    /\ GoTo(p, "p_down")
    /\ UNCHANGED <<bufVars, sem, queueVars, fileVars, nonblock, cnt, ubuf, sig>>

(* The events the driver reports.                                          *)
PollMask ==
    (IF rp # wp THEN {"in"} ELSE {}) \union (IF SpaceFree # 0 THEN {"out"} ELSE {})

Poll(p) ==
    /\ pc[p] = "p_down"
    /\ sem = 1
    /\ IF PollMask \intersect want[p] # {}
       THEN Return(p) /\ inq' = inq \ {p} /\ outq' = outq \ {p}
       ELSE /\ GoTo(p, "p_sleep")
            /\ inq' = inq \union {p} /\ outq' = outq \union {p}
            /\ UNCHANGED callVars
    /\ UNCHANGED <<bufVars, sem, fileVars>>

PollAwake(p) ==
    /\ pc[p] = "p_sleep"
    /\ p \notin inq \/ p \notin outq
    /\ GoTo(p, "p_down")
    /\ UNCHANGED <<bufVars, sem, queueVars, fileVars, callVars>>

(* A signal ends the call, or the timeout of select() expires.             *)
PollEnd(p) ==
    /\ pc[p] = "p_sleep"
    /\ inq' = inq \ {p} /\ outq' = outq \ {p}
    /\ Return(p)
    /\ UNCHANGED <<bufVars, sem, fileVars>>

PollInterrupted(p) == sig[p] /\ PollEnd(p)
PollTimeout(p) == ~sig[p] /\ PollEnd(p)

-----------------------------------------------------------------------------
(* What a process does of itself once it is in the driver ...              *)
Progress(p) ==
    \/ ReadDownInterrupted(p) \/ ReadEmpty(p) \/ ReadCopy(p) \/ ReadFault(p)
    \/ ReadWrap(p) \/ ReadWake(p) \/ ReadWait(p) \/ ReadPrepare(p) \/ ReadCheck(p)
    \/ ReadAwake(p)
    \/ WriteDownInterrupted(p) \/ WriteFull(p) \/ WritePrepare(p)
    \/ WriteCheck(p) \/ WriteAwake(p) \/ WriteFinishWait(p)
    \/ WriteCopy(p) \/ WriteFault(p) \/ WriteWrap(p) \/ WriteWake(p)
    \/ WriteSigio(p) \/ PollAwake(p) \/ PollInterrupted(p)

(* ... what it does once it gets the semaphore ...                         *)
Acquire(p) == ReadDown(p) \/ WriteDown(p) \/ Release(p) \/ Poll(p)

(* ... and what its program or its surroundings decide.                    *)
Environment(p) ==
    \/ Open(p) \/ Close(p) \/ Fasync(p) \/ Signal(p)
    \/ ReadCall(p) \/ WriteCall(p) \/ PollCall(p) \/ PollTimeout(p)

Next == SetSize \/ \E p \in Procs : Progress(p) \/ Acquire(p) \/ Environment(p)

Spec == Init /\ [][Next]_vars

(* The scheduler runs every runnable process, and the waiters of a         *)
(* semaphore are served in the order of their arrival: a process for which *)
(* the semaphore is free again and again gets it.                          *)
Fairness == \A p \in Procs : WF_vars(Progress(p)) /\ SF_vars(Acquire(p))

FairSpec == Spec /\ Fairness

-----------------------------------------------------------------------------
(* Properties.                                                             *)

(* Every variable has its type.                                            *)
TypeOK ==
    /\ buffer \in {NULL} \union 0..MaxSize
    /\ buffersize \in 0..MaxSize
    /\ rp \in 0..MaxSize /\ wp \in 0..MaxSize
    /\ mem \in [0..(MaxSize - 1) -> Bytes \union {Junk}]
    /\ nreaders \in Nat /\ nwriters \in Nat
    /\ sem \in {0, 1}
    /\ inq \subseteq Procs /\ outq \subseteq Procs
    /\ async_queue \subseteq Procs
    /\ scull_p_buffer \in 0..MaxSize
    /\ pc \in [Procs -> Labels]
    /\ mode \in [Procs -> SUBSET {"r", "w"}]
    /\ nonblock \in [Procs -> BOOLEAN]
    /\ cnt \in [Procs -> 0..MaxCount]
    /\ ubuf \in [Procs -> Seq(Bytes \union {Junk})]
    /\ want \in [Procs -> SUBSET {"in", "out"}]
    /\ sig \in [Procs -> BOOLEAN]

(* dev->sem is a lock that every path through the methods gives back: at   *)
(* most one process is in a critical section, and the semaphore is free    *)
(* exactly when none is - after an error, a fault or an interrupted wait   *)
(* as well.                                                                *)
SemaphoreBalanced ==
    /\ \A p, q \in Procs : pc[p] \in Holding /\ pc[q] \in Holding => p = q
    /\ sem = 1 <=> \A p \in Procs : pc[p] \notin Holding

(* Outside of the step that wraps it, each pointer is a place in the       *)
(* buffer (or its start, when the buffer is empty).                        *)
InBuffer(x) == x = 0 \/ x < buffersize

PointersWrapped ==
    /\ rp <= buffersize /\ wp <= buffersize
    /\ InBuffer(rp) \/ \E p \in Procs : pc[p] = "r_wrap"
    /\ InBuffer(wp) \/ \E p \in Procs : pc[p] = "w_wrap"

(* The counters are the numbers of open files, and the buffer exists as    *)
(* long as there is one: never freed under a process that may read or      *)
(* write, never kept when the last file is gone.                           *)
BufferLifetime ==
    /\ nreaders = Cardinality({p \in Procs : "r" \in mode[p]})
    /\ nwriters = Cardinality({p \in Procs : "w" \in mode[p]})
    /\ buffer = NULL <=> \A p \in Procs : pc[p] = "closed"

(* No SIGIO for a file that is gone.                                       *)
AsyncOnlyOpen == \A p \in async_queue : pc[p] \notin {"closed", "c_down"}

(* A process that sleeps until there is data, and that no wake-up has      *)
(* reached, is asleep for a reason: the pipe is empty, or a writer that    *)
(* has just stored data is on its way to wake_up_interruptible.            *)
AsleepForData(p) ==
    /\ p \in inq
    /\ pc[p] = "r_sleep" \/ (pc[p] = "p_sleep" /\ "in" \in want[p])

NoLostReaderWakeup ==
    \A p \in Procs : AsleepForData(p) /\ rp # wp =>
        \E w \in Procs : pc[w] \in {"w_wrap", "w_wake"}

(* The same for a process that sleeps until there is space: the pipe is    *)
(* full, or a reader that has just made space is on its way to wake it.    *)
AsleepForSpace(p) ==
    /\ p \in outq
    /\ pc[p] = "w_sleep" \/ (pc[p] = "p_sleep" /\ "out" \in want[p])

NoLostWriterWakeup ==
    \A p \in Procs : AsleepForSpace(p) /\ SpaceFree # 0 =>
        \E r \in Procs : pc[r] \in {"r_wrap", "r_wake"}

(* Readers and writers never wait for each other: unless the buffer is too *)
(* small to hold a byte, a reader and a writer are not both asleep while   *)
(* nobody is left in the driver to wake one of them.                       *)
NoMutualSleep ==
    \A p, q \in Procs :
        AsleepForData(p) /\ AsleepForSpace(q) /\ buffersize >= 2 =>
            \E h \in Procs : pc[h] \in {"r_wrap", "r_wake", "w_wrap", "w_wake"}

(* "begin of buf, end of buf" (pipe.c:36): dev->end is the end of the      *)
(* block that kmalloc returned.                                            *)
EndIsEndOfBuffer == buffer # NULL => buffersize = buffer

(* The bytes between the pointers, oldest first.                           *)
Content ==
    IF buffer = NULL \/ rp = wp THEN <<>>
    ELSE [i \in 1..((wp + buffersize - rp) % buffersize) |->
             mem[(rp + i - 1) % buffersize]]

(* Reads and writes by any number of processes amount to a bounded queue:  *)
(* no byte is lost, repeated, reordered or read before it was written.     *)
Queue == INSTANCE BytePipe WITH queue <- Content, size <- buffersize

PipeIsQueue == Queue!Spec

(* A sleeping reader runs again unless the data it could have had goes to  *)
(* somebody else, and a sleeping writer unless the space does.             *)
SleepersServed ==
    \A p \in Procs :
        /\ (pc[p] = "r_sleep" /\ rp # wp) ~> (pc[p] # "r_sleep" \/ rp = wp)
        /\ (pc[p] = "w_sleep" /\ SpaceFree # 0) ~>
               (pc[p] # "w_sleep" \/ SpaceFree = 0)

(* A call on a file with O_NONBLOCK, and a close, come to an end whatever  *)
(* the others do.                                                          *)
PromptCallsReturn ==
    \A p \in Procs :
        /\ (InCall(p) /\ nonblock[p]) ~> (pc[p] = "idle")
        /\ (pc[p] = "c_down") ~> (pc[p] = "closed")
=============================================================================
