------------------------------ MODULE ProcFile ------------------------------
(***************************************************************************)
(* The modules of experiments 4 and 5 that show a buffer in a file under   *)
(* /proc: the ticks behind a text users may change (实验4/main.c), the     *)
(* processes as they were at load time (实验4/exp4b.c) or at each read     *)
(* (partB/exp4b.c), and the same unless a parameter asks for the time      *)
(* (partC/exp4c.c and 实验5/test.c).                                       *)
(*                                                                         *)
(* A module has one buffer and one pointer, task, for all readers and      *)
(* writers, and no lock.  The buffer is the sequence of its lines.  Lines  *)
(* written behind its end destroy what follows: the process is "lost".     *)
(***************************************************************************)
EXTENDS Integers, Sequences

CONSTANTS
    Users,          \* processes that read and write
    init_task, init,
    Parent,         \* the parent of each task, of init_task itself
    NextTask,       \* the ring of all tasks from init_task on
    MaxLines,       \* bound: lines the buffer has room for
    MaxDirs         \* bound: directories failed loads leave behind

Tasks == Users \cup {init_task, init}
Climbers == Users \cup {init}

ASSUME TasksAssumption ==
    /\ Parent \in [Tasks -> Tasks] /\ NextTask \in [Tasks -> Tasks]
    /\ Parent[init_task] = init_task /\ \A u \in Users : Parent[u] \in Climbers
ASSUME ProcAssumption == MaxLines \in Nat /\ MaxDirs \in Nat

VARIABLES
    kind,           \* the module
    loaded, dirs, file,     \* is it loaded, its entries in /proc
    param,
    task, value,    \* the pointer and the buffer
    doing,          \* where each process is in its call
    page,           \* the page of its last read
    solo            \* did it have the module to itself in its last call?

procVars == <<kind, loaded, dirs, file, param, task, value, doing, page, solo>>

entries == <<kind, loaded, dirs, file>>

ProcKinds == {"ticks", "onload", "walk", "choice"}

ProcInit ==
    /\ kind \in ProcKinds
    /\ loaded = FALSE /\ dirs = 0 /\ file = FALSE
    /\ param = 0
    /\ task = init_task /\ value = <<>>
    /\ doing = [p \in Users |-> "no"]
    /\ page = [p \in Users |-> <<>>]
    /\ solo = [p \in Users |-> TRUE]

Ancestors[t \in Climbers] == IF t = init THEN <<t>> ELSE <<t>> \o Ancestors[Parent[t]]
From[t \in Tasks] == IF t = init_task THEN <<>> ELSE <<t>> \o From[NextTask[t]]

(* Init is above every user, and the ring of tasks leads back to its start *)
(* (else the recursions have no solution, and a walk would not end).       *)
ASSUME WalksAssumption ==
    /\ \A t \in Climbers :
           Ancestors[t] = IF t = init THEN <<t>> ELSE <<t>> \o Ancestors[Parent[t]]
    /\ \A t \in Climbers : Ancestors[t] \in Seq(Climbers)
    /\ \A t \in Tasks : From[t] = IF t = init_task THEN <<>> ELSE <<t>> \o From[NextTask[t]]
    /\ \A t \in Tasks : From[t] \in Seq(Tasks)

(* What an undisturbed walk writes: the ancestors, then all processes.     *)
Walk(p) == Ancestors[p] \o <<"all">> \o From[NextTask[init_task]]

-----------------------------------------------------------------------------
(* init_module and cleanup_module.                                         *)

(* create_proc_entry failed: remove_proc_entry is called for a file of     *)
(* this name in /proc itself, and the directory stays.                     *)
LoadFails ==
    /\ ~loaded /\ dirs < MaxDirs
    /\ dirs' = dirs + 1
    /\ UNCHANGED <<kind, loaded, file, param, task, value, doing, page, solo>>

Load ==
    /\ ~loaded
    /\ loaded' = TRUE /\ dirs' = dirs + 1 /\ file' = TRUE
    /\ value' = IF kind = "ticks" THEN <<"ticks">> ELSE <<>>
    /\ kind # "onload"
    /\ UNCHANGED <<kind, param, task, doing, page, solo>>

(* exp4b.c: insmod's process is walked from; the pointer stays at the end. *)
LoadWalking ==
    /\ ~loaded /\ kind = "onload"
    /\ loaded' = TRUE /\ dirs' = dirs + 1 /\ file' = TRUE
    /\ \E p \in Users : value' = Walk(p)
    /\ task' = init_task
    /\ UNCHANGED <<kind, param, doing, page, solo>>

(* remove_proc_entry waits for the calls that are under way.               *)
Unload ==
    /\ loaded /\ \A p \in Users : doing[p] = "no"
    /\ loaded' = FALSE /\ dirs' = dirs - 1 /\ file' = FALSE
    /\ UNCHANGED <<kind, param, task, value, doing, page, solo>>

(* param is 0644 in /sys.                                                  *)
SetParam ==
    /\ loaded /\ kind = "choice"
    /\ param' = 1 - param
    /\ UNCHANGED <<entries, task, value, doing, page, solo>>

-----------------------------------------------------------------------------
(* A call begins; whoever is inside is disturbed, and so is the newcomer.  *)
Begin(p, step) ==
    /\ file /\ doing[p] = "no"
    /\ doing' = [doing EXCEPT ![p] = step]
    /\ page' = [page EXCEPT ![p] = <<>>]
    /\ LET busy == {q \in Users : doing[q] # "no"}
       IN solo' = [q \in Users |-> IF q = p THEN busy = {} ELSE solo[q] /\ q \notin busy]

Step(p, from, to) == doing[p] = from /\ doing' = [doing EXCEPT ![p] = to]

(* sprintf(mydata.value, "%s ...", mydata.value, ...).                     *)
Line(p, from, to, line) ==
    IF Len(value) < MaxLines
    THEN Step(p, from, to) /\ value' = Append(value, line)
    ELSE Step(p, from, "lost") /\ UNCHANGED value

(* proc_read of 实验4/main.c and exp4b.c.                                  *)
ReadText(p) ==
    /\ kind \in {"ticks", "onload"}
    /\ file /\ doing[p] = "no"
    /\ page' = [page EXCEPT ![p] = value]
    /\ solo' = [solo EXCEPT ![p] = \A q \in Users : doing[q] = "no"]
    /\ UNCHANGED <<entries, param, task, value, doing>>

(* proc_read of partB, partC and 实验5/test.c, one statement after another.*)
ReadBegin(p) ==
    /\ kind \in {"walk", "choice"} /\ (kind = "choice" => param = 0)
    /\ Begin(p, "first")
    /\ UNCHANGED <<entries, param, task, value>>

(* With param set: the time, by a buffer that always has the same text.    *)
ReadClock(p) ==
    /\ kind = "choice" /\ param # 0
    /\ file /\ doing[p] = "no"
    /\ page' = [page EXCEPT ![p] = <<"time">>]
    /\ UNCHANGED <<entries, param, task, value, doing, solo>>

ReadFirst(p) ==
    /\ Step(p, "first", "current")
    /\ value' = <<p>>
    /\ UNCHANGED <<entries, param, task, page, solo>>

(* Mutant: the pointer is not set again.                                   *)
ReadCurrentKept(p) ==
    /\ Step(p, "current", "up")
    /\ UNCHANGED <<entries, param, task, value, page, solo>>

ReadCurrent(p) ==
    /\ Step(p, "current", "up")
    /\ task' = p
    /\ UNCHANGED <<entries, param, value, page, solo>>

ReadUp(p) ==
    /\ IF task = init
       THEN Step(p, "up", "down") /\ UNCHANGED <<task, value>>
       ELSE task' = Parent[task] /\ Line(p, "up", "up", Parent[task])
    /\ UNCHANGED <<entries, param, page, solo>>

ReadDown(p) ==
    /\ task' = init_task /\ Line(p, "down", "each", "all")
    /\ UNCHANGED <<entries, param, page, solo>>

(* for_each_process(task).                                                 *)
ReadEach(p) ==
    /\ task' = NextTask[task]
    /\ IF NextTask[task] = init_task
       THEN Step(p, "each", "print") /\ UNCHANGED value
       ELSE Line(p, "each", "each", NextTask[task])
    /\ UNCHANGED <<entries, param, page, solo>>

ReadEnd(p) ==
    /\ Step(p, "print", "no")
    /\ page' = [page EXCEPT ![p] = value]
    /\ UNCHANGED <<entries, param, task, value, solo>>

(* proc_write: the text of the user, then the 0 behind it.  A fault ends   *)
(* it with any part of the text copied, and no 0.                          *)
Write(p) ==
    /\ Begin(p, "copied")
    /\ value' = <<"user", "rest">>
    /\ UNCHANGED <<entries, param, task>>

WriteFault(p) ==
    /\ file /\ doing[p] = "no"
    /\ value' \in {value, <<"user", "rest">>}
    /\ page' = [page EXCEPT ![p] = <<>>]
    /\ solo' = [q \in Users |-> solo[q] /\ doing[q] = "no"]
    /\ UNCHANGED <<entries, param, task, doing>>

WriteEnd(p) ==
    /\ Step(p, "copied", "no")
    /\ value' = <<"user">>
    /\ UNCHANGED <<entries, param, task, page, solo>>

ProcStep(p) ==
    \/ ReadText(p) \/ ReadBegin(p) \/ ReadClock(p) \/ ReadFirst(p) \/ ReadCurrent(p)
    \/ ReadUp(p) \/ ReadDown(p) \/ ReadEach(p) \/ ReadEnd(p)
    \/ Write(p) \/ WriteFault(p) \/ WriteEnd(p)

ProcNext ==
    \/ LoadFails \/ Load \/ LoadWalking \/ Unload \/ SetParam
    \/ \E p \in Users : ProcStep(p)

ProcSpec == ProcInit /\ [][ProcNext]_procVars
-----------------------------------------------------------------------------
(* Whatever earlier readers and writers left in the shared buffer and the  *)
(* shared pointer, a reader nobody overtakes gets its ancestors up to init *)
(* and then every process once, and comes back.  (Two readers at once do   *)
(* disturb each other: the pointer of one is moved to init_task while the  *)
(* other still climbs, whose walk then never meets init.)                  *)
SoloReadIsRight ==
    kind \in {"walk", "choice"} =>
        \A p \in Users :
            /\ doing[p] = "lost" => ~solo[p]
            /\ doing[p] = "no" /\ solo[p] => page[p] \in {<<>>, <<"time">>, Walk(p)}
=============================================================================
