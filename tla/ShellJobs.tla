----------------------------- MODULE ShellJobs ------------------------------
(***************************************************************************)
(* The command shell of experiment 2 (实验2/exp2.c): its loop over the      *)
(* commands of a line, its flags, the pipe between two commands and who    *)
(* holds an end of it, the children and the waits.                         *)
(*                                                                         *)
(* What a line says is given parsed.  A child is a program that writes to  *)
(* its output, reads its input and ends when it likes; a pipe has room for *)
(* one piece of data.  pipe() and fork() are taken to succeed.             *)
(***************************************************************************)
EXTENDS Integers, Sequences, FiniteSets

CONSTANTS
    Lines,          \* what users type: a sequence of commands, isbkg
    MaxKids         \* bound: children in all

ASSUME LinesAssumption ==
    /\ MaxKids \in Nat
    /\ \A l \in Lines : /\ l.bkg \in BOOLEAN
                        /\ \A i \in DOMAIN l.cmds : l.cmds[i] \subseteq {"|", "<", ">", "exit"}

VARIABLES
    at,             \* where the shell is
    lines,          \* the commands of the line that are left
    isbkg, flags,   \* isbkg; ispipe, filein and fileout as a set of words
    mypipe,         \* the pipe mypipe[] was last made for, 0 before that
    ends,           \* the pipe ends the shell has open
    kids,           \* its children
    full            \* the pipes with data

shellVars == <<at, lines, isbkg, flags, mypipe, ends, kids, full>>

ShellInit ==
    /\ at = "prompt" /\ lines = <<>>
    /\ isbkg = FALSE /\ flags = {}
    /\ mypipe = 0 /\ ends = {} /\ full = {}
    /\ kids = <<>>

-----------------------------------------------------------------------------
(* The shell.                                                              *)

(* Flags are reset for a line, not for each of its commands.               *)
ReadLine ==
    /\ at = "prompt"
    /\ \E l \in Lines :
           /\ Len(kids) + 2 * Len(l.cmds) <= MaxKids
           /\ lines' = l.cmds /\ isbkg' = l.bkg
    /\ at' = "command" /\ flags' = {}
    /\ UNCHANGED <<mypipe, ends, kids, full>>

Exit ==
    /\ at = "command" /\ lines # <<>> /\ "exit" \in Head(lines)
    /\ at' = "exited" /\ ends' = {}
    /\ UNCHANGED <<lines, isbkg, flags, mypipe, kids, full>>

Command ==
    /\ at = "command"
    /\ IF lines = <<>>
       THEN at' = "prompt" /\ UNCHANGED <<lines, flags, mypipe, ends>>
       ELSE /\ "exit" \notin Head(lines)
            /\ at' = "fork1" /\ lines' = Tail(lines)
            /\ flags' = flags \cup Head(lines)
            /\ mypipe' = IF "|" \in Head(lines) THEN mypipe + 1 ELSE mypipe
            /\ ends' = ends \cup (IF "|" \in Head(lines) THEN {mypipe'} \X {"r", "w"} ELSE {})
    /\ UNCHANGED <<isbkg, kids, full>>

(* A child's input and output: 0 the terminal, -1 closed, -2 a file, or    *)
(* the pipe.  exec closes none of the ends it inherits.                    *)
Fork(in, out, inherits) ==
    kids' = Append(kids, [state |-> "run", in |-> in, out |-> out, ends |-> inherits, job |-> isbkg])

PipeOr(e) == IF <<mypipe, e>> \in ends THEN mypipe ELSE -1

ForkFirst ==
    /\ at = "fork1"
    /\ Fork(IF "<" \in flags THEN -2 ELSE 0,
            IF "|" \in flags THEN PipeOr("w") ELSE IF ">" \in flags THEN -2 ELSE 0,
            IF "|" \in flags THEN ends \ {<<mypipe, "r">>} ELSE ends)
    /\ at' = IF "|" \in flags THEN "fork2" ELSE IF isbkg THEN "command" ELSE "wait1"
    /\ UNCHANGED <<lines, isbkg, flags, mypipe, ends, full>>

(* Mutant: the shell keeps its end to write to.                            *)
ForkSecondKeeping ==
    /\ at = "fork2"
    /\ Fork(PipeOr("r"), 0, ends \ {<<mypipe, "w">>})
    /\ at' = IF isbkg THEN "command" ELSE "wait1"
    /\ UNCHANGED <<lines, isbkg, flags, mypipe, ends, full>>

(* Without the flag's reset a command behind a pipeline has its output     *)
(* closed, and the pipeline's second program is started once more.         *)
ForkSecond ==
    /\ at = "fork2"
    /\ ends' = ends \ {<<mypipe, "w">>}
    /\ Fork(PipeOr("r"), 0, ends')
    /\ at' = IF isbkg THEN "command" ELSE "wait1"
    /\ UNCHANGED <<lines, isbkg, flags, mypipe, full>>

Unreaped == {i \in DOMAIN kids : kids[i].state # "gone"}

(* wait() takes any child that has ended, a job of an earlier line too.    *)
Reap(next) ==
    /\ at' = next
    /\ \/ \E i \in DOMAIN kids : kids[i].state = "zombie" /\ kids' = [kids EXCEPT ![i].state = "gone"]
       \/ Unreaped = {} /\ UNCHANGED kids

WaitFirst ==
    /\ at = "wait1"
    /\ Reap(IF "|" \in flags THEN "wait2" ELSE "command")
    /\ ends' = IF "|" \in flags THEN ends \ {<<mypipe, "r">>} ELSE ends
    /\ UNCHANGED <<lines, isbkg, flags, mypipe, full>>

WaitSecond ==
    /\ at = "wait2"
    /\ Reap("command")
    /\ UNCHANGED <<lines, isbkg, flags, mypipe, ends, full>>

-----------------------------------------------------------------------------
(* The programs.                                                           *)

Alive == {i \in DOMAIN kids : kids[i].state \notin {"zombie", "gone"}}
Held(e) == e \in ends \/ \E i \in Alive : e \in kids[i].ends

CanMove(i) ==
    \/ kids[i].state = "run"
    \/ kids[i].state = "write" /\ (kids[i].out \notin full \/ ~Held(<<kids[i].out, "r">>))
    \/ kids[i].state = "read" /\ (kids[i].in \in full \/ ~Held(<<kids[i].in, "w">>))

Becomes(i, state) == kids' = [kids EXCEPT ![i].state = state]

Program(i) ==
    /\ i \in Alive /\ CanMove(i)
    /\ \/ kids[i].state = "run" /\ Becomes(i, "zombie") /\ UNCHANGED full
       \/ kids[i].state = "run" /\ kids[i].out > 0 /\ Becomes(i, "write") /\ UNCHANGED full
       \/ kids[i].state = "run" /\ kids[i].in > 0 /\ Becomes(i, "read") /\ UNCHANGED full
       \/ /\ kids[i].state = "write"
          /\ IF Held(<<kids[i].out, "r">>)
             THEN Becomes(i, "run") /\ full' = full \cup {kids[i].out}
             ELSE Becomes(i, "zombie") /\ UNCHANGED full
       \/ kids[i].state = "read" /\ Becomes(i, "run") /\ full' = full \ {kids[i].in}
    /\ UNCHANGED <<at, lines, isbkg, flags, mypipe, ends>>

ShellNext ==
    \/ ReadLine \/ Exit \/ Command \/ ForkFirst \/ ForkSecond \/ WaitFirst \/ WaitSecond
    \/ \E i \in DOMAIN kids : Program(i)

ShellSpec == ShellInit /\ [][ShellNext]_shellVars

-----------------------------------------------------------------------------
(* A shell that waits is never stuck: some child has ended or can go on.   *)
(* The shell holds the reading end while it waits for the first child, and *)
(* it is wait() taking whichever child ends first that lets it go on when  *)
(* the reader ends before the writer.  Back at the prompt, as many         *)
(* children are unreaped as jobs were started in the background.           *)
NobodyStuck ==
    /\ at \in {"wait1", "wait2"} =>
           \E i \in Unreaped : kids[i].state = "zombie" \/ CanMove(i)
    /\ at = "prompt" => Cardinality(Unreaped) = Cardinality({i \in DOMAIN kids : kids[i].job})
=============================================================================
