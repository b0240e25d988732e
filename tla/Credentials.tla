----------------------------- MODULE Credentials ----------------------------
(***************************************************************************)
(* The calls of 6.c (a kernel/sys.c) that change the user and group ids of *)
(* a process.  A call makes new credentials from the old ones, checks and  *)
(* changes them, and commits or aborts them.                               *)
(*                                                                         *)
(* One process is modelled.  The others of its users come and go: what the *)
(* calls see of them is the number of processes each user has.             *)
(***************************************************************************)
EXTENDS Integers, FiniteSets

CONSTANTS
    Uids, Gids, Root,
    RLIMIT_NPROC    \* processes a user may have

ASSUME CredentialsAssumption ==
    /\ Root \in Uids /\ -1 \notin Uids \cup Gids
    /\ RLIMIT_NPROC \in Nat

VARIABLES
    cred,           \* uid, euid, suid, fsuid, gid, egid, sgid, fsgid, user
    effective, permitted,   \* has it CAP_SETUID and CAP_SETGID?
    others,         \* processes of each user but Root, besides this one
    new             \* the credentials a call is about to commit, none or one

credVars == <<cred, effective, permitted, others, new>>

UidFields == {"uid", "euid", "suid", "fsuid"}
GidFields == {"gid", "egid", "sgid", "fsgid"}

IdsOf(c, fields) == {c[f] : f \in fields}

CredInit ==
    /\ \E u \in Uids, g \in Gids :
           cred = [f \in UidFields \cup GidFields \cup {"user"} |-> IF f \in GidFields THEN g ELSE u]
    /\ effective = (cred.uid = Root) /\ permitted = effective
    /\ others = [u \in Uids \ {Root} |-> 0]
    /\ new = {}

-----------------------------------------------------------------------------
(* Creds with the named fields set to id.                                  *)
With(c, fields, id) == [f \in DOMAIN c |-> IF f \in fields THEN id ELSE c[f]]

(* -1 leaves a field alone.                                                *)
WithIf(c, field, id) == IF id = -1 THEN c ELSE With(c, {field}, id)

May(id, allowed) == ~effective => id \in allowed \cup {-1}

Prepare(c) ==
    /\ new = {}
    /\ new' = {c}
    /\ UNCHANGED <<cred, effective, permitted, others>>

(* The count is looked at here; the process is counted at the commit.      *)
set_user(c) ==
    IF c.uid = cred.uid THEN c
    ELSE [c EXCEPT !.user = c.uid]

UserFits(c) == c.uid \notin {cred.uid, Root} => others[c.uid] < RLIMIT_NPROC

Regid(c, rgid, egid) ==
    LET n == WithIf(WithIf(c, "gid", rgid), "egid", egid)
        s == IF rgid # -1 \/ (egid # -1 /\ egid # c.gid) THEN With(n, {"sgid"}, n.egid) ELSE n
    IN With(s, {"fsgid"}, n.egid)

setregid(rgid, egid) ==
    /\ May(rgid, {cred.gid, cred.egid})
    /\ May(egid, {cred.gid, cred.egid, cred.sgid})
    /\ Prepare(Regid(cred, rgid, egid))

setgid(gid) ==
    \/ effective /\ Prepare(With(cred, GidFields, gid))
    \/ ~effective /\ gid \in {cred.gid, cred.sgid} /\ Prepare(With(cred, {"egid", "fsgid"}, gid))

Reuid(c, ruid, euid) ==
    LET n == WithIf(WithIf(c, "uid", ruid), "euid", euid)
        s == IF ruid # -1 \/ (euid # -1 /\ euid # c.uid) THEN With(n, {"suid"}, n.euid) ELSE n
    IN set_user(With(s, {"fsuid"}, n.euid))

setreuid(ruid, euid) ==
    /\ May(ruid, {cred.uid, cred.euid})
    /\ May(euid, {cred.uid, cred.euid, cred.suid})
    /\ UserFits(Reuid(cred, ruid, euid))
    /\ Prepare(Reuid(cred, ruid, euid))

(* Mutant: the user's structure is not changed with the uid.               *)
setuid_keeping_user(uid) ==
    \/ effective /\ Prepare(With(cred, UidFields, uid))
    \/ ~effective /\ uid \in {cred.uid, cred.suid} /\ Prepare(With(cred, {"euid", "fsuid"}, uid))

setuid(uid) ==
    \/ /\ effective /\ UserFits(With(cred, UidFields, uid))
       /\ Prepare(set_user(With(cred, UidFields, uid)))
    \/ /\ ~effective /\ uid \in {cred.uid, cred.suid}
       /\ Prepare(With(cred, {"euid", "fsuid"}, uid))

(* Mutant: the saved id is not checked.                                    *)
setresuid_saved(ruid, euid, suid) ==
    LET n == WithIf(WithIf(WithIf(cred, "uid", ruid), "euid", euid), "suid", suid)
        c == set_user(With(n, {"fsuid"}, n.euid))
    IN /\ \A id \in {ruid, euid} : May(id, {cred.uid, cred.euid, cred.suid})
       /\ UserFits(c) /\ Prepare(c)

setresuid(ruid, euid, suid) ==
    LET n == WithIf(WithIf(WithIf(cred, "uid", ruid), "euid", euid), "suid", suid)
        c == set_user(With(n, {"fsuid"}, n.euid))
    IN /\ \A id \in {ruid, euid, suid} : May(id, {cred.uid, cred.euid, cred.suid})
       /\ UserFits(c) /\ Prepare(c)

setresgid(rgid, egid, sgid) ==
    LET n == WithIf(WithIf(WithIf(cred, "gid", rgid), "egid", egid), "sgid", sgid)
    IN /\ \A id \in {rgid, egid, sgid} : May(id, {cred.gid, cred.egid, cred.sgid})
       /\ Prepare(With(n, {"fsgid"}, n.egid))

setfsuid(uid) ==
    /\ May(uid, IdsOf(cred, UidFields)) /\ uid # cred.fsuid
    /\ Prepare(With(cred, {"fsuid"}, uid))

setfsgid(gid) ==
    /\ May(gid, IdsOf(cred, GidFields)) /\ gid # cred.fsgid
    /\ Prepare(With(cred, {"fsgid"}, gid))

(* commit_creds, and what cap_task_fix_setuid makes of the capabilities:   *)
(* gone when no id is root's any more, out of force while the effective id *)
(* is not root's.                                                          *)
RealIds == {"uid", "euid", "suid"}
Commit ==
    \E c \in new :
        /\ cred' = c /\ new' = {}
        /\ permitted' = (permitted /\ (Root \in IdsOf(cred, RealIds) => Root \in IdsOf(c, RealIds)))
        /\ effective' = IF cred.euid # Root /\ c.euid = Root THEN permitted'
                        ELSE effective /\ permitted' /\ (cred.euid = Root => c.euid = Root)
        /\ UNCHANGED others

(* Other processes of the users come and go, a fork only below the limit.  *)
Count(u) == others[u] + (IF cred.user = u THEN 1 ELSE 0)

OtherForks(u) ==
    /\ Count(u) < RLIMIT_NPROC
    /\ others' = [others EXCEPT ![u] = @ + 1]
    /\ UNCHANGED <<cred, effective, permitted, new>>

OtherExits(u) ==
    /\ others[u] > 0
    /\ others' = [others EXCEPT ![u] = @ - 1]
    /\ UNCHANGED <<cred, effective, permitted, new>>

UidNext ==
    \/ \E r, e \in Uids \cup {-1} : setreuid(r, e)
    \/ \E r, e, s \in Uids \cup {-1} : setresuid(r, e, s)
    \/ \E u \in Uids : setuid(u) \/ setfsuid(u)
    \/ \E u \in Uids \ {Root} : OtherForks(u) \/ OtherExits(u)

GidNext ==
    \/ \E r, e \in Gids \cup {-1} : setregid(r, e)
    \/ \E r, e, s \in Gids \cup {-1} : setresgid(r, e, s)
    \/ \E g \in Gids : setgid(g) \/ setfsgid(g)

CredNext == UidNext \/ GidNext \/ Commit

CredSpec == CredInit /\ [][CredNext]_credVars

-----------------------------------------------------------------------------
(* A process without the capabilities in force never comes by an id it did *)
(* not have among its four, nor regains root's id once it has given it up  *)
(* in all of real, effective and saved (6.c 609-611).                      *)
IdsNeverGained ==
    [][/\ ~effective => /\ IdsOf(cred', UidFields) \subseteq IdsOf(cred, UidFields)
                        /\ IdsOf(cred', GidFields) \subseteq IdsOf(cred, GidFields)
       /\ Root \notin IdsOf(cred, RealIds) /\ cred.fsuid # Root =>
              Root \notin IdsOf(cred', UidFields)]_credVars

(* The user a process is counted for is its real user, and because a call  *)
(* looks at the count before it commits, a user can be one process over    *)
(* the limit with each process that changes its uid, but not more.         *)
UserFollows ==
    /\ cred.user = cred.uid
    /\ \A u \in Uids \ {Root} : Count(u) <= RLIMIT_NPROC + 1
=============================================================================
