------------------------------ MODULE Sessions ------------------------------
(***************************************************************************)
(* The calls of 6.c (a kernel/sys.c) about sessions and process groups.    *)
(* Each holds tasklist_lock over its checks and changes, so a call is one  *)
(* action.  Processes have one thread; fork, exec, exit and the choice of  *)
(* a pid are the kernel's.                                                 *)
(***************************************************************************)
EXTENDS Integers

CONSTANT Pids           \* 1 is init

ASSUME PidsAssumption == 1 \in Pids /\ 0 \notin Pids

VARIABLES
    tasks,              \* the processes there are
    real_parent,
    did_exec,           \* the processes that have called exec
    leader,             \* the leaders of sessions
    pgrp, session

sessionVars == <<tasks, real_parent, did_exec, leader, pgrp, session>>
groups == <<leader, pgrp, session>>

SessionInit ==
    /\ tasks = {1}
    /\ real_parent = [p \in Pids |-> IF p = 1 THEN 0 ELSE 1] /\ did_exec = {}
    /\ leader = {1} /\ pgrp = [p \in Pids |-> 1] /\ session = [p \in Pids |-> 1]

-----------------------------------------------------------------------------
(* The kernel: a pid is free when no process, group or session has it.     *)

Fork(p, q) ==
    /\ p \in tasks /\ q \notin tasks
    /\ \A t \in tasks : q \notin {pgrp[t], session[t]}
    /\ tasks' = tasks \cup {q}
    /\ real_parent' = [real_parent EXCEPT ![q] = p]
    /\ pgrp' = [pgrp EXCEPT ![q] = pgrp[p]] /\ session' = [session EXCEPT ![q] = session[p]]
    /\ did_exec' = did_exec \ {q}
    /\ UNCHANGED leader

Exec(p) ==
    /\ p \in tasks
    /\ did_exec' = did_exec \cup {p}
    /\ UNCHANGED <<tasks, real_parent, groups>>

Exit(p) ==
    /\ p \in tasks \ {1}
    /\ tasks' = tasks \ {p} /\ leader' = leader \ {p}
    /\ real_parent' = [q \in Pids |-> IF real_parent[q] = p THEN 1 ELSE real_parent[q]]
    /\ did_exec' = did_exec \ {p}
    /\ pgrp' = [pgrp EXCEPT ![p] = 1] /\ session' = [session EXCEPT ![p] = 1]

-----------------------------------------------------------------------------
Members(g) == {q \in tasks : pgrp[q] = g}

(* Mutant: the group joined may be of another session.                     *)
setpgid_anywhere(me, p, pgid) ==
    /\ {me, p} \subseteq tasks
    /\ IF real_parent[p] = me THEN session[p] = session[me] /\ p \notin did_exec ELSE p = me
    /\ p \notin leader
    /\ pgid # p => Members(pgid) # {}
    /\ pgrp' = [pgrp EXCEPT ![p] = pgid]
    /\ UNCHANGED <<tasks, real_parent, did_exec, leader, session>>

(* Of oneself or of a child of one's session that has not called exec;     *)
(* into a group of one's session that has members, or into a new group.    *)
setpgid(me, p, pgid) ==
    /\ {me, p} \subseteq tasks
    /\ IF real_parent[p] = me THEN session[p] = session[me] /\ p \notin did_exec ELSE p = me
    /\ p \notin leader
    /\ pgid # p => \E g \in Members(pgid) : session[g] = session[me]
    /\ pgrp' = [pgrp EXCEPT ![p] = pgid]
    /\ UNCHANGED <<tasks, real_parent, did_exec, leader, session>>

(* Mutant: a group of the caller's pid is not looked for.                  *)
setsid_unchecked(me) ==
    /\ me \in tasks \ leader
    /\ leader' = leader \cup {me}
    /\ pgrp' = [pgrp EXCEPT ![me] = me] /\ session' = [session EXCEPT ![me] = me]
    /\ UNCHANGED <<tasks, real_parent, did_exec>>

setsid(me) ==
    /\ me \in tasks \ leader
    /\ Members(me) = {}
    /\ leader' = leader \cup {me}
    /\ pgrp' = [pgrp EXCEPT ![me] = me] /\ session' = [session EXCEPT ![me] = me]
    /\ UNCHANGED <<tasks, real_parent, did_exec>>

(* getpgid and getsid, of a process there is.                              *)
getpgid(p) == pgrp[p]
getsid(p) == session[p]

SessionNext ==
    \/ \E p, q \in Pids : Fork(p, q)
    \/ \E p \in Pids : Exec(p) \/ Exit(p) \/ setsid(p)
    \/ \E p, q, g \in Pids : setpgid(p, q, g)

SessionSpec == SessionInit /\ [][SessionNext]_sessionVars

-----------------------------------------------------------------------------
(* A process group lies in one session, and the leader of a session leads  *)
(* a group of the session's number, whatever the order of setsid, setpgid, *)
(* fork, exec and exit.                                                    *)
GroupInOneSession ==
    /\ \A p, q \in tasks : pgrp[p] = pgrp[q] => session[p] = session[q]
    /\ \A p \in leader : session[p] = p /\ pgrp[p] = p
=============================================================================
