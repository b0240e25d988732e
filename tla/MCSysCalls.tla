---------------------------- MODULE MCSysCalls ------------------------------
(***************************************************************************)
(* Small instances of the parts of the two kernel files the experiments    *)
(* were added to.  They share nothing: a behaviour is one of one of them.  *)
(* The group ids only depend on the user ids for the capabilities: the     *)
(* calls about them are run with setuid alone.                             *)
(***************************************************************************)
EXTENDS Credentials, Sessions, PageFault

VARIABLE which          \* the part that runs

CONSTANTS t1, t2

allVars == <<which, credVars, sessionVars, faultVars>>

SysInit ==
    /\ which \in {"uids", "gids", "sessions", "faults"}
    /\ CredInit /\ SessionInit /\ FaultInit
    /\ which \notin {"uids", "gids"} => cred.uid = Root
    /\ which # "gids" => cred.gid = 5
    /\ which # "faults" => smp /\ vma = "none"

SysNext ==
    \/ which \in {"uids", "gids"} /\ UNCHANGED <<which, sessionVars, faultVars>>
       /\ \/ which = "uids" /\ UidNext
          \/ which = "gids" /\ (GidNext \/ \E u \in Uids : setuid(u))
          \/ Commit
    \/ which = "sessions" /\ SessionNext /\ UNCHANGED <<which, credVars, faultVars>>
    \/ which = "faults" /\ FaultNext /\ UNCHANGED <<which, credVars, sessionVars>>

SysSpec == SysInit /\ [][SysNext]_allVars
=============================================================================
