# Verification of the laboratory drivers and kernel extensions

The repository is a course of seven kernel and system programming experiments. Their
hard part is kernel code that many processes run at once: a character driver with a
memory device and a pipe device (实验7/scull), and system calls for numbered events with
wait, signal and close, written into a copy of the kernel's fault.c and sys.c (实验6).
Around it are a shell, timers, /proc files and simpler devices, each with a trap of its own.
This directory has TLA+ models of that code, TLC configurations that check them on small
instances, and TLAPS proofs for every instance. Sources are named relative to `src/`.

    tlc -workers 2 -config PipeSignals.cfg MCScullPipe      # one run
    tlapm ScullPipeProofs.tla                               # one module of proofs

`PROJECT.json` says which module and configuration make a run, which lines of the code a
definition stands for, which mutated definition each property must refute, and which
hazards of the code which properties watch.

## 1. Inventory

| component | state | operations | interacts through | status |
|---|---|---|---|---|
| scullpipe, 实验7/scull/pipe.c | circular buffer with rp, wp, end; open counts; a semaphore; two wait queues; fasync list | open, release, read, write, poll, fasync; the ioctl in main.c for the size | one device shared by its processes; wait queues, signals, SIGIO, `scull_p_buffer` | modelled, proved |
| scull memory device, 实验7/scull/main.c | list of quantum sets, the two sizes, the size of the data; the sizes for the next trim; file positions | open (trim), release, read, write, llseek, ioctl | the device's semaphore; the global sizes, which all devices share | modelled, proved |
| myevent semaphore, 实验6/others/exp6.c | count and its limit, the exclusive wait queue | wait, signal | wait queue, `mr_lock`, the clients of 实验6 | modelled, proved |
| myevent list, 实验6/others/exp6.c | linked list with head and tail pointer | open, wait, signal, close | all processes; the kernel heap | modelled, proved |
| sys_myevent semaphore, 实验6/others/6.c | atomic counter, wait queue | wait, signal | wait queue | modelled (its list is the one of exp6.c), proved |
| scull access control, 实验7/scull/access.c | open counts, owners, a wait queue, a list of clones | four opens and releases | spin locks, the wait queue, the memory device's methods | modelled, proved; the Makefile does not compile it |
| loading of scull, main.c, pipe.c, access.c | device numbers, arrays of devices, cdevs | init and cleanup of the three files | the kernel's tables; devices are opened while the rest is set up | modelled, proved |
| flat scull, 实验7/main.c and parta/main.c | 16 bytes (or a pointer nobody sets) and a size | open, release, read, write, llseek, load, unload | the device's semaphore | modelled, proved |
| shell, 实验2/exp2.c | flags of a command line, ends of pipes, children | read a line, fork, pipe, redirect, wait | processes, pipes | partly, proved: parsing is abstracted, pipe and fork succeed |
| interval timers, 实验3/mytimer.c and exp3d.c | seconds counted by handlers, the timers; counts of interrupts | handlers, reports | signals, /proc/stat | partly, proved: not exp3a.c and exp3b.c |
| /proc modules, 实验4, 实验5/test.c | one buffer and one task pointer for all callers | read, write, load, unload | /proc, concurrent readers and writers | modelled, proved |
| page fault handler, 实验6/others/exp6.c:237-1225 | `pfcount`, mmap_sem, the pages | do_page_fault and what it calls | other threads' faults, mmap, vmalloc | modelled, proved |
| credentials, 实验6/others/6.c:599-1018 | eight ids, a user structure, capabilities | ten set...id calls | the limit of processes of a user | modelled, proved |
| sessions, 实验6/others/6.c:1048-1223 | group and session of each process | setpgid, setsid, getpgid, getsid | fork, exec, exit | modelled, proved |
| user programs (实验1, exp4a.c, exp5.c, the test.c files, open.c, close.c) | none that outlives a call | drive or print | | clients of the models |
| the rest of fault.c and sys.c; *.mod.c, scripts, Makefiles | | | | left out |

What makes each modelled component right, and what is hard about it:

- **scullpipe.** Bytes come out once, in order, as they went in; the buffer lives as long as
  its files; every path gives the semaphore back; nobody sleeps past a wake-up. Hard: the
  two conditions that are evaluated without the semaphore (lines 132 and 170), wake-ups
  after the semaphore was released, an open that resets the pointers under everybody's
  feet (line 81), signals, and a size that may change between two opens (line 79).
- **memory device.** A read returns what was written last at its position; no access
  leaves its quantum; the list has the shape of the device's sizes. Hard: three places
  that hold sizes (the globals, the device, the copies a call makes before it has the
  semaphore), allocations that fail half way, the arithmetic of positions, a search that
  allocates.
- **events.** At most as many holders as units; a signal reaches a waiter; the list is
  linked from head to tail; a call changes only the event it names. Hard: the count is
  read again after its lock was released, nothing is tested between joining the queue and
  `schedule()`, signals end the sleep, and memory is freed that others point to.
- **access control.** One opener, one user, one clone for a terminal; nobody sleeps in the
  queue who could have the device. Hard: a counter that is decremented and taken back, an
  owner that outlasts its files, a wake-up after the lock was released and a condition
  tested without it, an allocation that sleeps under a spinlock, trims without the
  semaphore.
- **loading.** After a failure or an unload nothing is left behind, and nothing is open
  before it is initialised. Hard: any step may fail while the next file goes on, and the
  same cleanup serves every stage.
- **small programs.** A read by one process alone is right whatever earlier calls left in
  the shared buffer and pointer; the shell always gets on when it waits; a report covers
  the time that passed. Hard: state shared by calls that nobody orders, ends of pipes that
  are held too long, handlers between two statements.
- **kernel files.** Unprivileged processes gain no id; a process group lies in one
  session; a page is only there where an area is; mmap_sem is given back on every path and
  never waited for by its holder. Hard: sequences of calls that are all legal, checks and
  commits in two steps, threads that change the address space under a fault.

## 2. Modules

| module | models | uses |
|---|---|---|
| `BytePipe` | what a pipe promises: a bounded queue of bytes | |
| `ScullPipe` | pipe.c, one device and its processes | `BytePipe` as refinement |
| `ScullPipeProofs` | ten theorems about `ScullPipe` | `TLAPS` |
| `StoredBytes` | what a memory device promises: bytes at positions | |
| `ScullDevice` | main.c, one device, its processes and the ioctls | `StoredBytes` as refinement |
| `ScullDeviceProofs` | three theorems about it | `TLAPS` |
| `EventSemaphore` | wait and signal of exp6.c on one event | |
| `EventSemaphoreProofs` | four theorems about it | `TLAPS` |
| `AtomicEvent` | wait and signal of 6.c on one event | |
| `AtomicEventProofs` | three theorems about it | `TLAPS` |
| `EventTable` | what the four event calls promise: a table of semaphores | |
| `KernelEvents` | the list of exp6.c with its four calls | `EventTable` as refinement |
| `KernelEventsProofs` | four theorems about it | `TLAPS` |
| `ScullAccess` | access.c, the four devices | |
| `ScullAccessProofs` | four theorems about it | `TLAPS` |
| `ScullLoad` | loading and unloading of main.c, pipe.c and access.c | |
| `ScullFlat` | 实验7/main.c and parta/main.c | |
| `ProcFile` | the five /proc modules | |
| `ShellJobs` | the shell | |
| `IntervalTimer` | mytimer.c and exp3d.c | |
| `ExperimentsProofs` | a theorem about each of `ScullLoad`, `ScullFlat`, `ProcFile`, `ShellJobs` and `IntervalTimer` | `TLAPS` |
| `Credentials`, `Sessions`, `PageFault` | the calls of 6.c about ids and sessions, the fault handler of exp6.c | |
| `SysCallsProofs` | five theorems about these three | `TLAPS` |
| `MC...` | small sets and values for TLC | |
| `MCExperiments`, `MCSysCalls` | unions of modules that share nothing: a behaviour is one of one of them (`which`) | |

An operator that begins with the comment "Mutant:" is a plausible slip in the definition
after it; no specification uses it. Every property is refuted by one of them.

### ScullPipe

Pointers are offsets from `dev->buffer`; `buffer` is the size of the block that kmalloc
returned or NULL, `buffersize` the field of that name and the offset of `dev->end`. A
process has one file at a time. `pc` names a place in a method at which others can act on
what the code reads next; the code between two labels is one action, named after the
method (`Open`, `Close` and `Release`, `Read...`, `Write...`, `Poll...`, `Fasync`).
Code that has the semaphore is cut exactly where others look at rp and wp without it:
between advancing a pointer and wrapping it. The wait macros are modelled by what they do
(test, join the queue, test again, sleep). `inq` and `outq` are the processes in the
queues that no wake-up has reached.

`SleepersServed` is the promise of the wait loops; it speaks of one process and data (or
space) that stays, as another reader may take the data first. An abstract queue that any
open empties (`BytePipe`) is what lines 79-81 make of a pipe.

### EventSemaphore and AtomicEvent

A label stands between two statements that read or write what others write. `Preempt` is
the kernel the code runs on: TRUE when it has several processors or is preemptible, and
others may run at every label; FALSE when a system call runs until it sleeps or returns
(the one-processor kernel of the experiment). `Interrupted` and `Strays` are the processes
that may get a signal asleep and those that signal without having waited, as signal.c can.

### KernelEvents

`heap` maps the allocated nodes to their fields; `head` and `end` are the two pointers. The
grain is that of `Preempt = FALSE`: a call is left in `schedule()` and in the `kmalloc` of
`myevent_open`, between search and insertion. A walk that would leave the allocated memory
takes no step: what the program does then is undefined. `Openers`, `Closable` and
`IdleCloses` say who opens, from where in the list events are closed, and whether only
events without waiters are. open(0), which returns a variable that was never set and
changes nothing else, is left out, as are signals to the sleepers (see EventSemaphore) and
a kmalloc that returns NULL, which the next line dereferences.

### ScullDevice

A NULL pointer is an empty sequence; an item of the list is an array of quantums, a
quantum a sequence of bytes. A call is two steps: it looks at the two sizes of the device,
then waits for the semaphore and does the rest. All uses of the list are made with the
semaphore, so the rest is one step, with an action per way out: end of file, hole, data,
fault, no memory, interrupted. `scull_follow` is the set of the lists it can leave behind
when memory may run out. The junk that kmalloc returns and the zeros that copy_from_user
writes after a fault are bytes of their own. SEEK_END reads the size without the
semaphore, which makes no difference to a single read.
`LateTrim` says whether an open for writing may change the sizes while a call has looked
at them and not yet finished.

### ScullAccess

What a spinlock protects is one action; the search and insertion of a clone is two, since
kmalloc may sleep between them, and `Smp` says whether the lock is more than nothing
there. An open that is refused and has changed nothing takes no step; scullsingle's does
change the counter (`scull_s_undo` takes it back). The wait macro of scullwuid is
modelled by its parts, as in ScullPipe. A read or write ("call") holds the device's
semaphore, a trim does not: the model reaches a trim beside a call on every device but
scullsingle, although main.c:59 says that trims hold the semaphore.

### ScullLoad and ScullFlat

`stage` is the place of insmod or rmmod. Each claim of numbers, allocation and cdev_add
succeeds or fails; opens come in from the first cdev_add on. `friends` says whether the
calls of access.c, comments in main.c, are built in. A device that cdev_add refused cannot
be opened, and the load goes on. In ScullFlat each call is one action under
the semaphore; `memory` says which scull.h was included. With the pointer that nobody
sets, the first use of the data ends the process with the semaphore down; a write of no
bytes after a seek still raises the size.

### ProcFile

The walk of the tasks is one action per statement, because the buffer and the pointer are
shared and nothing locks them. `solo` remembers whether a call had the module to itself.
Two readers at once do disturb each other: one sets the pointer to init_task, the other's
climb to init then never ends, and its lines run over the buffer ("lost").

### ShellJobs and IntervalTimer

The shell's loop is cut at fork and wait; `ends` are the ends of pipes each process has,
inherited and never closed by exec. The flags are those of the line, as in the code: a
command behind a pipeline inherits its pipe, with both ends closed, and starts the
second program once more. IntervalTimer counts time in microseconds of which a few make a
second, so that intervals end within the bound; the handlers of exp3d.c may be interrupted
by each other at each statement.

### Credentials, Sessions, PageFault

A call that sets ids is two steps, prepare and commit (`new` is between them); the limit
of processes is checked in the first and counted in the second. What
security_task_fix_setuid does to the capabilities is part of `Commit`. The calls about
sessions hold tasklist_lock, so each is one action. The page fault handler is cut where
it takes mmap_sem, sleeps, chooses the area, and handles the fault; user mode, kernel
code with and without an exception table entry, and kernel code that holds mmap_sem
itself (`back`) all fault. On one processor the increment of `pfcount` is atomic, on
several it is a load and a store.

## 3. Runs

| run | question | bounds | states |
|---|---|---|---|
| pipe_signals | semaphore, buffer, fasync list, readers' wake-ups, with everything that can happen | 2 processes, sizes 1 and 2, one byte per call, signals to both, one asynchronous reader, both poll | 1.5 million |
| pipe_queue | does the buffer implement `BytePipe`? is `end` the end? | 2 processes, 2 byte values, sizes 1 and 3, calls of up to 2 bytes | 877 thousand |
| pipe_liveness | writers' wake-ups, no mutual sleep, sleepers run, prompt calls return | 2 processes, sizes 1 and 2, signals to one; opens find no call in progress | 124 thousand |
| sem_uniprocessor | arithmetic, exclusion, wake-ups, progress without preemption | 5 processes, 2 units | 3831 |
| sem_anywhere | the bounds of the count, whatever happens | 3 processes, preempted, interrupted, stray signals | 3716 |
| atom_uniprocessor | the same for 6.c, interrupted | 4 processes | 695 |
| event_list | the list against `EventTable` | 2 processes, 3 nodes, 3 numbers, counts 0 and 1; one opens; idle events closed at the head and in the middle | 24 thousand |
| event_close_waiting (violation) | what if somebody waits? | 2 processes, 2 nodes | to the first violation |
| device_store | the lists against `StoredBytes`, shape, bounds | 2 processes, both sizes 1 or 2, positions up to 1 and calls of up to 2 bytes, 2 byte values | 287 thousand |
| scull_access | one opener, one owner, no forgotten opener, one clone | 4 processes, 2 users and su, 2 terminals and none | 795 thousand |
| experiments | `LoadSound`, `SoloReadIsRight`, `FlatSound`, `NobodyStuck`, `ReportsRight` | 2 devices of each kind; 2 users below init, 8 lines, 2 directories; 2 files, 2 bytes; lines of 1 and 2 commands, 6 children; 8 microseconds, an interval of 3; 3 interrupts, 9 descriptors | 787 thousand |
| sys_calls | ids, limits, groups and sessions, pages and mmap_sem | 3 users, 2 groups, limit of 2; 4 pids; 2 threads, 2 faults | 723 thousand |

Why the bounds are enough to be interesting: two processes make every pair of methods
interleave, and the theorems cover any number. A pipe of size 1 has no room at all, of
size 2 room for one byte (every transfer wraps), of size 3 room for two, so that transfers
split at the end. Five processes for two units make queues of three behind two holders;
three nodes are a list with a head, a middle and an end. With sizes of 1 and 2 the
positions of the memory device cross from byte to byte, from quantum to quantum and from
item to item, a call of two bytes is cut by a quantum of one, and a position behind the
size leaves a hole. Four processes on scullwuid are an owner, a second file of the owner, a
waiter and a third party that takes the device between wake-up and test. Two readers of a
/proc file overtake each other at every statement, a line of two commands is what it takes
to inherit a flag, six children are a background pipeline and two more commands, and an
interval of three microseconds ends twice within the bound. Three pids besides init are a
parent, its child and a stranger. Processes are symmetric in device_store, which has only
safety properties.

Deadlock is not checked for the pipe (a process may sleep for ever on an empty pipe that
nobody writes), for events (signals end, and a waiter may wait for ever), for stray
signals, and in experiments and sys_calls, whose programs end (a shell that exits, a time
bound reached, a thread that died with a lock). It is checked where the system must not
stop: sem_uniprocessor, atom_uniprocessor, device_store and scull_access.

**Fairness.** `FairSpec` of ScullPipe: the scheduler runs runnable processes (weak fairness
of each process's progress), and a semaphore serves its waiters in order of arrival
(`down` queues them), so a process for which it is free again and again gets it (strong
fairness of `Acquire`). Calls, opens, signals and timeouts are the environment's choice
and are not fair. The event semaphores: a runnable process runs in the end, and a holder
gives the unit back, as the clients of partB.c do after their sleep(2); with
`Preempt = FALSE` a step is enabled only while nobody else is in a call, hence strong
fairness. Nobody has to wait again. That each waiter of exp6.c is served rests on its
exclusive, first-come queue; 6.c wakes all, and only somebody is served.

## 4. Proofs

All theorems hold for every value of the constants that meets the named assumptions
(finite sets of processes, sizes in range, a byte of junk outside the data).

- **ScullPipe** (`PipeInv`, conjunction of four parts). `SemInv` says who is in a critical
  section and that the semaphore is its count. `BufInv` adds where the pointers are: in
  the buffer, or one past its end exactly while their process is about to wrap them; it
  rests on bounds of the byte counts that follow from the semaphore. `CallTypes` types the
  arguments of calls. `FileInv` relates counters, files and buffer; that the counters are
  cardinalities needs that opens and closes move one process. `Typing`,
  `SemaphoreIsBalanced`, `PointersAreWrapped`, `BufferLivesWithItsFiles` and
  `AsyncListIsOpen` are its consequences; the types and the pointer bounds are proved
  and not run. `NoReaderIsForgotten` is inductive relative to
  it. `NoWriterIsForgotten` and `NoDeadlockOfReaderAndWriter` assume `LateOpen = FALSE`
  (section 5 says why) and need that wrapping a pointer leaves the free space as it
  is, a lemma about the modulo. `EndIsRight` assumes `LateResize = FALSE`.
  `PipeImplementsQueue` is the refinement of `BytePipe`. `ContentIs` rewrites the bytes between
  the pointers without the modulo; a read takes the first of them (`ReadTakesBytes`), a write
  appends (`WriteAppendsBytes`), wrapping moves none (`WrapsKeepBytes`), and every other
  step leaves them alone or starts or ends a call (`CallStepQueues`). Beside the invariant it
  needs that wp has not reached the end while rp is at the start (`LapInv`) and that a call
  that has stored or copied nothing has no bytes of its own (`EmptyInv`). It is stated for
  `LateResize = FALSE`, as bytes stored behind the block are the model's and not the device's.
- **EventSemaphore.** `CountIsBounded` holds on every kernel: the count is bounded by its
  limit and by the waits under way. `CountIsExact` assumes no stray signals.
  `SemaphoreExcludes` and `NoSignalIsLost` assume no preemption, no interrupts and no stray
  signals; their invariant `QuietInv` says that the queue has no process twice and only
  sleepers (`QuietQueue`), and that its length is the shortage of units, up to the one
  process that is in the middle of a call (`QuietBalance`). It has to say so because the
  properties alone do not know whether a wake-up finds anybody.
- **AtomicEvent.** `AtomicCounterIsExact` and `AtomicSemaphoreExcludes` hold with
  preemption and interrupts: the decision rests on the result of the process's own
  decrement. The invariant counts holders and attempts being taken back together.
  `AtomicSignalsAreNotLost` assumes `Preempt = FALSE`. Its invariant `LostInv` adds that at
  most one process is in the middle of a call (`OneRuns`), which is what the property
  needs between the failed decrement and the queue.
- **KernelEvents.** `SleepersAreCounted` (initial counts from 0 up) does not depend on the
  shape of the list: whatever node a search finds, the change of its count and of its queue
  go together. `ListStaysLinked` assumes that no event is closed at the end of the list, which
  section 5 shows to be necessary. Its invariant says that there *is* a sequence s of
  different nodes, all of the heap, that `next` leads through from head to tail (`List`); a
  call appends to s or removes a node from it. `Walk` is a recursive function: `WalkOfChain` gives
  its value in closed form (the kth node is s[k + 1]), and the least-number principle shows that the
  recursion has no other solution. `NumbersStayUnique` adds one opener and `StillFree`: the
  number an open has searched for is free until it is inserted. `ListImplementsTable` is the
  refinement of `EventTable`. It adds that nobody is twice in a queue or in two queues
  (`QueuedOnce`), and assumes that idle events are closed, and that 2 is a number,
  as that is what line 1290 gives to the first event. A close signals by a number nobody finds,
  so it is one step of the table.
- **ScullDevice.** `ShapesStaySound`, `AccessesAreInBounds` and `DeviceImplementsStore` assume
  `SizesKeep`: no open for writing changes the sizes under a call, or no ioctl asks for
  others (section 5 says what happens otherwise). The invariant `DevInv` types the lists by
  the sizes of the device and says that the sizes a call has copied are still the device's
  (`CallsFit`). The refinement of `StoredBytes` needs that different positions have
  different places and that places follow each other in the order of positions, which are
  lemmas about division (`Divided`); and that items, arrays and quantums that
  scull_follow and write allocate are junk or holes that no size covers.
- **ScullAccess.** The four devices share only the processes, so each has an invariant of its
  own beside `AccessFiles` (who has a file at all). `SingleOpener`: the counter is one less
  the file and the refused opens not yet taken back. `OwnersShareDevices`: the counts are
  cardinalities, and each file was opened with the right of its owner, who does not change while it
  is above zero. `OpenersAreWoken`: as for the pipe, a device that was given back has
  its wake-up ahead, though that comes after the lock was released. `ClonesAreUnique`
  holds for locks that exclude (`Smp`); the property says so itself.
- **Loading, small programs** (`ExperimentsProofs`). `LoadingIsUndone`: at each stage of insmod and
  rmmod, what the kernel has given is what the memory tests of the cleanup find
  (`LoadInv`). `FlatDeviceIsSound`. `ReportsAreRight`: each timer is a number of whole
  intervals and a rest, a relation the invariant keeps between question and report as well.
  `WaitsEnd`: `ShellInv` says who holds the ends of the current pipe and what the last two
  children are, because a shell that held the write end itself would make
  the reader it waits for wait for it. `SoloReadsAreRight`: for a walk that nobody disturbs, the
  lines written and those still ahead make up the whole at each statement (`WalkRight`);
  it needs that a disturbed walk knows (`AloneInside`) and that the buffer has room for
  a walk (`RoomForWalks`, which the code does not check). The walks are recursive functions; that
  they satisfy their recursions, as trees and rings of tasks do, is an assumption
  (`WalksAssumption`) that TLC evaluates.
- **System calls** (`SysCallsProofs`). `IdsAreNeverGained` and `UsersAreCounted`: what a call has
  prepared is among the ids of the process it was checked for, and capabilities are root's
  (`CredInv`), so a commit gains nothing. `GroupsStayInTheirSession`: that a group lies in one
  session is not inductive: a process may found a group with its own pid as number, and
  others may be in a group of that number. `GroupsOfTheLiving` adds that they are then in its
  session. Its premises are that init is pid 1 and that the kernel takes no pid that a
  group or session still has. `PagesStayInArea` and `HandlerIsSound`: `SemHeld` says
  who has mmap_sem by their places, `FaultKnown` what each place knows of the fault that led
  to it; pages may outlive an area only while its writer has not removed them (`Remapping`). That
  pfcount misses nothing on one processor and counts nothing twice on several takes a count
  of the threads between entry and store (`CountInv`).

Only model-checked: liveness (`SleepersServed`, `PromptCallsReturn`, `WaitersServed`,
`SomeoneServed`), which is out of the prover's reach with the fairness it rests on. Every safety
property, action property and refinement of a run that passes is a theorem. Induction over
data is out of reach as well; the two recursive definitions are handled as said above.

## 5. Disagreements between the code and its documents

Shown by a run: event_close_waiting (a close unlinks the event before it signals it by its
number, exp6.c:1368 says it wakes who is blocked).

Found by the same models and kept out of the runs by their constants:

- With `LateOpen = TRUE` an open frees the buffer under sleeping writers and does not wake
  them (pipe.c:81; `NoLostWriterWakeup` fails).
- With `Preempt = TRUE` the "mutual exclusion semaphore" of exp6.c lets two in: a
  signaller decides on a count it reads after the lock was released (exp6.c:1346;
  `Exclusion` fails).
- With `LateTrim = TRUE` an open trims the memory device to other sizes while a call has
  copied the old ones, before it has the semaphore (main.c:341; `ShapeSound` fails).
- pipe.c:79 takes a new `scull_p_buffer` as the size of a block that was allocated with
  another (`LateResize = TRUE` refutes `EndIsEndOfBuffer`).
- With `Preempt = TRUE` wake-ups between the test and the queue are lost in exp6.c and 6.c
  (`NoLostSignal`). With `Interrupted` not empty a signal to a sleeper of exp6.c:1321 counts
  as a wake-up and breaks `Exclusion` without any preemption.
- With two `Openers` both can pass the search of exp6.c:1277 while one sleeps in kmalloc, and
  add one number twice (`UniqueNumbers`).
- With "end" or "only" in `Closable` the list goes on leading to the freed node: the tail pointer
  moves back but nobody clears the `next` of the node before, nor the head (`ListSound`).
- The first event of an empty list gets number 2 (exp6.c:1290) whatever was passed, although
  line 1262 says the number passed is used.
- `myevent_signal` returns the number only if it called wake_up, so signal.c:22 prints "No event" for
  an event that exists and has a unit free.
- The comments of 6.c have lost their line ends to a change of encoding and swallow the
  statement after them (line 190); AtomicEvent has the statements as written, as in exp6.c.
- Sizes set by ioctl are not checked: main.c:442 says "it's positive". `ScullDevice` assumes it.
- access.c trims without the semaphore that main.c:59 asks for (see ScullAccess). With
  `Smp = FALSE` a terminal can get two clones, as kmalloc may sleep under the spinlock.
- A refused open of scullsingle may make another fail although the device was closed in
  between (access.c:57).
- Two readers of a /proc file of partB, partC or 实验5 disturb each other until one never
  comes back. A module whose create_proc_entry fails removes a file of that name from
  /proc itself and leaves its directory (exp4c.c:87).
- In parta the data is a pointer nobody sets: every write but an empty one ends the process
  with the semaphore down.
- exp2.c: a comment at line 196 says exec releases descriptors beyond 2; it does not. The
  flags of a command stay set for the next ones on the line. `filein` redirects the output.
  If the second fork failed, the shell would wait for a writer nobody reads from.
- mytimer.c reports a second and a microsecond too much, one microsecond for each interval
  more, and ten seconds more when a signal comes between getitimer and the print.
- exp3d.c closes a FILE with close(): each report leaks a descriptor, until fopen returns
  NULL and fgets uses it.
- A user can have one process over the limit for each process that changes its uid at the
  same time (6.c:707). `UserFollows` states what holds.
- A write of no bytes after a seek raises the size (main.c:381). It is in the model, and
  `StoredBytes` allows it.

## 6. Plan

1. Done: all modules of section 2, with the runs of section 3 and the proofs of section 4.
2. The hypotheses that are stronger than the failures of section 5 ask for:
   `NumbersStayUnique` for several openers that do not search at the same time,
   `AtomicSignalsAreNotLost` with preemption outside of the window between test and queue.
3. What the abstract specifications promise in turn, as theorems about `BytePipe`, `EventTable` and
   `StoredBytes` that the refinements carry over to the code.

## 7. Not modelled

The rest of sys.c (priorities, reboot, notifiers, host names, limits, times, umask, prctl)
and of fault.c (kmemcheck, mmiotrace, kprobes, instruction decoding, page table dumps, huge
pages) is the kernel's, which the experiments do not touch. exp3a.c and exp3b.c print from
a handler; exp2_myshell.c is a skeleton of exp2.c. The user programs drive the calls from
the keyboard and keep nothing. Scripts, Makefiles and *.mod.c are pure I/O or generated.
The files under /proc of scull are only built with SCULL_DEBUG and only print.
