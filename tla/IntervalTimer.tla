--------------------------- MODULE IntervalTimer ----------------------------
(***************************************************************************)
(* The programs of experiment 3 that measure with setitimer: mytimer.c,    *)
(* which reports the time a computation took, in real, virtual and profile *)
(* time, and exp3d.c, which reports the interrupts between two signals of  *)
(* each timer.  The processes of mytimer.c (the parent and two children)   *)
(* share nothing after the fork: one of them is modelled.                  *)
(*                                                                         *)
(* Time is counted in microseconds, of which Second make a second, and a   *)
(* timer is set to Ten seconds less one microsecond.                       *)
(***************************************************************************)
EXTENDS Integers, Sequences

CONSTANTS
    Second, Ten,
    MaxTime,        \* bound: microseconds that pass
    MaxFds,         \* the limit of open files of a process
    MaxIntr         \* bound: interrupts that happen

ASSUME TimerAssumption ==
    /\ Second \in Nat \ {0, 1} /\ Ten \in Nat \ {0}
    /\ MaxTime \in Nat /\ MaxFds \in Nat /\ MaxIntr \in Nat

Timers == {"real", "virtual", "prof"}
Interval == Ten * Second - 1

VARIABLES
    elapsed,        \* the time that has passed, for each timer
    it_value,       \* what is left of the interval
    secs,           \* p_real_secs, p_virtual_secs, p_prof_secs
    todo,           \* the timers main has still to report
    asked,          \* what getitimer returned and the true time then, or <<>>
    reported        \* for each timer the time printed and the true time

measure == <<elapsed, it_value, secs, todo, asked, reported>>

VARIABLES
    intr,           \* the interrupts of /proc/stat
    began,          \* their number at the start
    stime, otime,   \* each timer's counts
    sums,           \* the sum of each timer's reports
    handlers,       \* the handlers that run, the innermost first
    fds,            \* open files
    crashed

counts == <<intr, began, stime, otime, sums, handlers, fds, crashed>>
timerVars == <<measure, counts>>

Each(x) == [t \in Timers |-> x]

TimerInit ==
    /\ elapsed = Each(0) /\ it_value = Each(Interval) /\ secs = Each(0)
    /\ todo = <<"real", "virtual", "prof">> /\ asked = <<>>
    /\ reported = Each(<<>>)
    /\ intr \in 0..1 /\ began = intr
    /\ stime = Each(intr) /\ otime = Each(0) /\ sums = Each(0)
    /\ handlers = <<>> /\ fds = 4 /\ crashed = FALSE

-----------------------------------------------------------------------------
(* mytimer.c                                                               *)

(* A microsecond passes, in the program, in the kernel for it or outside   *)
(* it.  A timer that ends starts again, and its handler adds ten seconds   *)
(* before the program goes on.                                             *)
Tick(running) ==
    /\ todo # <<>> /\ elapsed["real"] < MaxTime
    /\ elapsed' = [t \in Timers |-> IF t \in running THEN elapsed[t] + 1 ELSE elapsed[t]]
    /\ it_value' = [t \in Timers |->
           IF t \notin running THEN it_value[t]
           ELSE IF it_value[t] = 1 THEN Interval ELSE it_value[t] - 1]
    /\ secs' = [t \in Timers |->
           IF t \in running /\ it_value[t] = 1 THEN secs[t] + Ten ELSE secs[t]]
    /\ UNCHANGED <<todo, asked, reported, counts>>

getitimer ==
    /\ todo # <<>> /\ asked = <<>>
    /\ asked' = <<it_value[Head(todo)], elapsed[Head(todo)]>>
    /\ UNCHANGED <<elapsed, it_value, secs, todo, reported, counts>>

(* Mutant: the ten seconds under way are not added.                        *)
PrintTimeShort ==
    /\ asked # <<>>
    /\ LET t == Head(todo)
           sec == secs[t] - (asked[1] \div Second)
           usec == Second - (asked[1] % Second)
       IN reported' = [reported EXCEPT ![t] = <<sec * Second + usec, asked[2]>>]
    /\ todo' = Tail(todo) /\ asked' = <<>>
    /\ UNCHANGED <<elapsed, it_value, secs, counts>>

(* The seconds and the microseconds are taken from ten seconds and from a  *)
(* second each.  secs is read now, it_value was read by getitimer.         *)
PrintTime ==
    /\ asked # <<>>
    /\ LET t == Head(todo)
           sec == secs[t] + Ten - (asked[1] \div Second)
           usec == Second - (asked[1] % Second)
       IN reported' = [reported EXCEPT ![t] = <<sec * Second + usec, asked[2]>>]
    /\ todo' = Tail(todo) /\ asked' = <<>>
    /\ UNCHANGED <<elapsed, it_value, secs, counts>>

-----------------------------------------------------------------------------
(* exp3d.c                                                                 *)

Interrupt ==
    /\ intr < MaxIntr /\ intr' = intr + 1
    /\ UNCHANGED <<measure, began, stime, otime, sums, handlers, fds, crashed>>

(* A signal arrives; its handler interrupts those of other signals.        *)
Signal(t) ==
    /\ ~crashed /\ \A i \in DOMAIN handlers : handlers[i][1] # t
    /\ handlers' = << <<t, "fopen">> >> \o handlers
    /\ UNCHANGED <<measure, intr, began, stime, otime, sums, fds, crashed>>

Handler(t, from) == ~crashed /\ handlers # <<>> /\ Head(handlers) = <<t, from>>

(* The file is closed by close(), which is given the FILE pointer: the     *)
(* descriptor stays open.  Without one fopen returns NULL, and fgets dies. *)
ReadStat(t) ==
    /\ Handler(t, "fopen")
    /\ IF fds < MaxFds
       THEN /\ otime' = [otime EXCEPT ![t] = intr] /\ fds' = fds + 1
            /\ handlers' = << <<t, "print">> >> \o Tail(handlers)
            /\ UNCHANGED crashed
       ELSE crashed' = TRUE /\ UNCHANGED <<otime, fds, handlers>>
    /\ UNCHANGED <<measure, intr, began, stime, sums>>

(* Mutant: one count for the three handlers.                               *)
PrintCountShared(t) ==
    /\ Handler(t, "print")
    /\ sums' = [sums EXCEPT ![t] = @ + otime[t] - stime[t]]
    /\ stime' = Each(otime[t])
    /\ handlers' = Tail(handlers)
    /\ UNCHANGED <<measure, intr, began, otime, fds, crashed>>

PrintCount(t) ==
    /\ Handler(t, "print")
    /\ sums' = [sums EXCEPT ![t] = @ + otime[t] - stime[t]]
    /\ stime' = [stime EXCEPT ![t] = otime[t]]
    /\ handlers' = Tail(handlers)
    /\ UNCHANGED <<measure, intr, began, otime, fds, crashed>>

MeasureNext ==
    \/ \E running \in {{"real"}, {"real", "prof"}, Timers} : Tick(running)
    \/ getitimer \/ PrintTime

CountNext ==
    \/ Interrupt
    \/ \E t \in Timers : Signal(t) \/ ReadStat(t) \/ PrintCount(t)

TimerNext == MeasureNext \/ CountNext

TimerSpec == TimerInit /\ [][TimerNext]_timerVars

-----------------------------------------------------------------------------
(* mytimer.c prints no less than the time that passed.  It prints a second *)
(* and a microsecond more, and one microsecond for each interval counted   *)
(* as ten seconds; a signal between getitimer and the print adds ten.      *)
TimeCovered ==
    \A t \in Timers : reported[t] # <<>> =>
        LET over == reported[t][1] - reported[t][2]
            n == reported[t][2] \div Interval
        IN over - (Second + 1 + n) \in {k * Ten * Second : k \in 0..MaxTime}

(* The reports of exp3d.c of each timer add up to the interrupts since the *)
(* start, though the handlers interrupt each other.                        *)
CountsAddUp == \A t \in Timers : sums[t] = stime[t] - began

ReportsRight == TimeCovered /\ CountsAddUp
=============================================================================
