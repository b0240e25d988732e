--------------------------- MODULE MCExperiments ----------------------------
(***************************************************************************)
(* Small instances of the modules of the smaller programs, which share     *)
(* nothing: a behaviour is one of one of them, while the others stay where *)
(* they began.                                                             *)
(***************************************************************************)
EXTENDS ScullLoad, ProcFile, ScullFlat, ShellJobs, IntervalTimer, TLC

VARIABLE which          \* the program that runs

CONSTANTS u1, u2, x

(* Two users, of whom the second is the first one's child.                 *)
TwoUsers == {u1, u2}
Parents == u1 :> init @@ u2 :> u1 @@ init :> init_task @@ init_task :> init_task
Ring == init_task :> init @@ init :> u1 @@ u1 :> u2 @@ u2 :> init_task

(* Commands with and without a pipe, files and jobs, alone and two on a    *)
(* line, where the second inherits the flags of the first.                 *)
Typed(cmds, bkg) == [cmds |-> cmds, bkg |-> bkg]
ShortLines ==
    {Typed(<<c>>, b) : c \in {{}, {"|"}}, b \in BOOLEAN}
    \cup {Typed(<<{"|"}, {}>>, FALSE), Typed(<<{"|"}, {">"}>>, TRUE),
          Typed(<<{"<"}, {"|"}>>, FALSE), Typed(<<{"exit"}>>, FALSE)}

allVars == <<which, loadVars, procVars, flatVars, shellVars, timerVars>>

ExperimentsInit ==
    /\ which \in {"load", "proc", "flat", "shell", "measure", "count"}
    /\ LoadInit /\ ProcInit /\ FlatInit /\ ShellInit /\ TimerInit
    /\ which # "load" => friends
    /\ which # "proc" => kind = "ticks"
    /\ which # "flat" => memory = "array"
    /\ which # "count" => intr = 0

Others(vars) == UNCHANGED <<which, vars>>

ExperimentsNext ==
    \/ which = "load" /\ LoadNext /\ Others(<<procVars, flatVars, shellVars, timerVars>>)
    \/ which = "proc" /\ ProcNext /\ Others(<<loadVars, flatVars, shellVars, timerVars>>)
    \/ which = "flat" /\ FlatNext /\ Others(<<loadVars, procVars, shellVars, timerVars>>)
    \/ which = "shell" /\ ShellNext /\ Others(<<loadVars, procVars, flatVars, timerVars>>)
    \/ which = "measure" /\ MeasureNext /\ Others(<<loadVars, procVars, flatVars, shellVars>>)
    \/ which = "count" /\ CountNext /\ Others(<<loadVars, procVars, flatVars, shellVars>>)

ExperimentsSpec == ExperimentsInit /\ [][ExperimentsNext]_allVars
=============================================================================
