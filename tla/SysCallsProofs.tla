--------------------------- MODULE SysCallsProofs ---------------------------
(***************************************************************************)
(* Theorems of Credentials, Sessions and PageFault, for any ids, pids and  *)
(* threads.                                                                *)
(***************************************************************************)
EXTENDS Credentials, Sessions, PageFault, FiniteSetTheorems, TLAPS

-----------------------------------------------------------------------------
(* Credentials.  A commit takes over what an earlier step has prepared, so *)
(* the invariants speak of the credentials that wait: they were checked    *)
(* against the ids and the capabilities the process still has.             *)

CredFields == UidFields \cup GidFields \cup {"user"}

CredTypes ==
    /\ DOMAIN cred = CredFields
    /\ \A c \in new : DOMAIN c = CredFields
    /\ effective \in BOOLEAN /\ permitted \in BOOLEAN
    /\ others \in [Uids \ {Root} -> Nat]

(* Root is among the real, effective and saved ids as long as the process  *)
(* has capabilities.                                                       *)
CapsAreRoots ==
    /\ effective => permitted
    /\ permitted => Root \in IdsOf(cred, RealIds)

OwnIds(c) ==
    /\ \A f \in UidFields : c[f] \in IdsOf(cred, UidFields)
    /\ \A f \in GidFields : c[f] \in IdsOf(cred, GidFields)

NewIsChecked == ~effective => \A c \in new : OwnIds(c)

CountedFor(c) == c["user"] = c["uid"]

UsersFollow == CountedFor(cred) /\ \A c \in new : CountedFor(c)

CountsAreBounded == \A u \in Uids \ {Root} : others[u] <= RLIMIT_NPROC

CredInv == CredTypes /\ CapsAreRoots /\ NewIsChecked /\ UsersFollow /\ CountsAreBounded

LEMMA CredStart ==
  CredInit => CredInv
<1> SUFFICES ASSUME CredInit
             PROVE  CredInv
  OBVIOUS
<1>1. PICK u \in Uids, g \in Gids :
          cred = [f \in UidFields \cup GidFields \cup {"user"} |-> IF f \in GidFields THEN g ELSE u]
  BY DEF CredInit
<1>2. CredTypes
  BY <1>1 DEF CredInit, CredTypes, CredFields
<1>3. CapsAreRoots
  BY <1>1 DEF CredInit, CapsAreRoots, IdsOf, RealIds
<1>4. NewIsChecked /\ UsersFollow
  BY <1>1 DEF CredInit, NewIsChecked, UsersFollow, CountedFor, UidFields, GidFields
<1>5. CountsAreBounded
  BY CredentialsAssumption DEF CredInit, CountsAreBounded
<1> QED
  BY <1>2, <1>3, <1>4, <1>5 DEF CredInv

(* Credentials that may wait for the commit.                               *)
Fine(c) == DOMAIN c = CredFields /\ CountedFor(c) /\ (~effective => OwnIds(c))

LEMMA PrepareKeeps ==
  ASSUME CredInv, NEW c, Fine(c), Prepare(c)
  PROVE  CredInv'
<1>1. new' = {c} /\ UNCHANGED <<cred, effective, permitted, others>>
  BY DEF Prepare
<1>2. OwnIds(c) => OwnIds(c)'
  BY <1>1 DEF OwnIds, IdsOf
<1>3. NewIsChecked'
  BY <1>1, <1>2 DEF NewIsChecked, Fine
<1>4. CredTypes' /\ CapsAreRoots' /\ UsersFollow' /\ CountsAreBounded'
  BY <1>1 DEF CredInv, CredTypes, CapsAreRoots, UsersFollow, CountsAreBounded, IdsOf, Fine,
     CountedFor
<1> QED
  BY <1>3, <1>4 DEF CredInv

LEMMA FieldNames ==
  /\ {"uid", "euid", "suid", "fsuid", "gid", "egid", "sgid", "fsgid", "user"} = CredFields
  /\ \A f \in UidFields : f \notin GidFields /\ f # "user"
  /\ \A f \in GidFields : f \notin UidFields /\ f # "user"
  BY DEF CredFields, UidFields, GidFields

(* The fields of changed credentials.                                      *)
LEMMA WithFields ==
  ASSUME NEW c, DOMAIN c = CredFields, NEW fields, NEW id
  PROVE  /\ DOMAIN With(c, fields, id) = CredFields
         /\ \A f \in CredFields : With(c, fields, id)[f] = IF f \in fields THEN id ELSE c[f]
  BY DEF With

LEMMA WithIfFields ==
  ASSUME NEW c, DOMAIN c = CredFields, NEW field, NEW id
  PROVE  /\ DOMAIN WithIf(c, field, id) = CredFields
         /\ \A f \in CredFields : WithIf(c, field, id)[f] =
               IF f = field /\ id # -1 THEN id ELSE c[f]
<1>1. CASE id = -1
  BY <1>1 DEF WithIf
<1>2. CASE id # -1
  BY <1>2, WithFields DEF WithIf
<1> QED
  BY <1>1, <1>2

LEMMA SetUserFields ==
  ASSUME NEW c, DOMAIN c = CredFields, CountedFor(cred), c["user"] = cred["user"]
  PROVE  /\ DOMAIN set_user(c) = CredFields /\ CountedFor(set_user(c))
         /\ \A f \in CredFields \ {"user"} : set_user(c)[f] = c[f]
<1>1. "user" \in CredFields /\ "uid" \in CredFields
  BY FieldNames
<1> QED
  BY <1>1 DEF set_user, CountedFor

(* The fields a call does not change are as they were.                     *)
LEMMA OldAreFine ==
  CredInv => /\ DOMAIN cred = CredFields /\ CountedFor(cred)
             /\ OwnIds(cred)
             /\ {cred[f] : f \in UidFields} = IdsOf(cred, UidFields)
             /\ {cred[f] : f \in GidFields} = IdsOf(cred, GidFields)
  BY DEF CredInv, CredTypes, UsersFollow, OwnIds, IdsOf

LEMMA SetreuidIsFine ==
  ASSUME CredInv, NEW r, NEW e, setreuid(r, e)
  PROVE  CredInv'
<1> DEFINE m == WithIf(cred, "uid", r)
           n == WithIf(m, "euid", e)
           changes == r # -1 \/ (e # -1 /\ e # cred.uid)
           s == IF changes THEN With(n, {"suid"}, n.euid) ELSE n
           t == With(s, {"fsuid"}, n.euid)
           c == set_user(t)
<1>1. Prepare(c) /\ May(r, {cred.uid, cred.euid}) /\ May(e, {cred.uid, cred.euid, cred.suid})
  BY DEF setreuid, Reuid
<1>2. DOMAIN cred = CredFields /\ CountedFor(cred) /\ OwnIds(cred)
  BY OldAreFine
<1>3. DOMAIN m = CredFields /\ \A f \in CredFields : m[f] = IF f = "uid" /\ r # -1 THEN r ELSE cred[f]
  BY <1>2, WithIfFields
<1> HIDE DEF m
<1>4. DOMAIN n = CredFields /\ \A f \in CredFields : n[f] = IF f = "euid" /\ e # -1 THEN e ELSE m[f]
  BY <1>3, WithIfFields
<1> HIDE DEF n
<1>5. DOMAIN s = CredFields /\ \A f \in CredFields : s[f] = IF changes /\ f = "suid" THEN n.euid ELSE n[f]
  BY <1>4, WithFields
<1> HIDE DEF s
<1>6. DOMAIN t = CredFields /\ \A f \in CredFields : t[f] = IF f = "fsuid" THEN n.euid ELSE s[f]
  BY <1>5, WithFields
<1> HIDE DEF t, changes
<1>7. t["user"] = cred["user"]
  BY <1>3, <1>4, <1>5, <1>6, FieldNames
<1>8. DOMAIN c = CredFields /\ CountedFor(c) /\ \A f \in CredFields \ {"user"} : c[f] = t[f]
  BY <1>2, <1>6, <1>7, SetUserFields
<1> HIDE DEF c
<1>9. ~effective => OwnIds(c)
  <2> SUFFICES ASSUME ~effective
               PROVE  OwnIds(c)
    OBVIOUS
  <2>1. /\ r # -1 => r \in IdsOf(cred, UidFields)
        /\ e # -1 => e \in IdsOf(cred, UidFields)
    BY <1>1 DEF May, IdsOf, UidFields
  <2>2. \A f \in UidFields : f \in CredFields \ {"user"}
    BY DEF UidFields, CredFields
  <2>3. \A f \in UidFields : m[f] \in IdsOf(cred, UidFields)
    BY <1>2, <1>3, <2>1, <2>2 DEF OwnIds
  <2>4. \A f \in UidFields : n[f] \in IdsOf(cred, UidFields)
    BY <1>4, <2>1, <2>2, <2>3
  <2>5. n.euid \in IdsOf(cred, UidFields)
    BY <2>4 DEF UidFields
  <2>6. \A f \in UidFields : c[f] \in IdsOf(cred, UidFields)
    BY <1>5, <1>6, <1>8, <2>2, <2>4, <2>5
  <2>7. \A f \in GidFields : c[f] = cred[f]
    BY <1>3, <1>4, <1>5, <1>6, <1>8 DEF GidFields, CredFields, UidFields
  <2> QED
    BY <1>2, <2>6, <2>7 DEF OwnIds
<1> QED
  BY <1>1, <1>8, <1>9, PrepareKeeps DEF Fine

LEMMA SetresuidIsFine ==
  ASSUME CredInv, NEW r, NEW e, NEW v, setresuid(r, e, v)
  PROVE  CredInv'
<1> DEFINE l == WithIf(cred, "uid", r)
           m == WithIf(l, "euid", e)
           n == WithIf(m, "suid", v)
           t == With(n, {"fsuid"}, n.euid)
           c == set_user(t)
<1>1. Prepare(c) /\ \A id \in {r, e, v} : May(id, {cred.uid, cred.euid, cred.suid})
  BY DEF setresuid
<1>2. DOMAIN cred = CredFields /\ CountedFor(cred) /\ OwnIds(cred)
  BY OldAreFine
<1>3. DOMAIN l = CredFields /\ \A f \in CredFields : l[f] = IF f = "uid" /\ r # -1 THEN r ELSE cred[f]
  BY <1>2, WithIfFields
<1> HIDE DEF l
<1>4. DOMAIN m = CredFields /\ \A f \in CredFields : m[f] = IF f = "euid" /\ e # -1 THEN e ELSE l[f]
  BY <1>3, WithIfFields
<1> HIDE DEF m
<1>5. DOMAIN n = CredFields /\ \A f \in CredFields : n[f] = IF f = "suid" /\ v # -1 THEN v ELSE m[f]
  BY <1>4, WithIfFields
<1> HIDE DEF n
<1>6. DOMAIN t = CredFields /\ \A f \in CredFields : t[f] = IF f = "fsuid" THEN n.euid ELSE n[f]
  BY <1>5, WithFields
<1> HIDE DEF t
<1>7. t["user"] = cred["user"]
  BY <1>3, <1>4, <1>5, <1>6, FieldNames
<1>8. DOMAIN c = CredFields /\ CountedFor(c) /\ \A f \in CredFields \ {"user"} : c[f] = t[f]
  BY <1>2, <1>6, <1>7, SetUserFields
<1> HIDE DEF c
<1>9. ~effective => OwnIds(c)
  <2> SUFFICES ASSUME ~effective
               PROVE  OwnIds(c)
    OBVIOUS
  <2>1. \A id \in {r, e, v} : id # -1 => id \in IdsOf(cred, UidFields)
    BY <1>1 DEF May, IdsOf, UidFields
  <2>2. \A f \in UidFields : f \in CredFields \ {"user"}
    BY DEF UidFields, CredFields
  <2>3. \A f \in UidFields : n[f] \in IdsOf(cred, UidFields)
    BY <1>2, <1>3, <1>4, <1>5, <2>1, <2>2 DEF OwnIds
  <2>4. n.euid \in IdsOf(cred, UidFields)
    BY <2>3 DEF UidFields
  <2>5. \A f \in UidFields : c[f] \in IdsOf(cred, UidFields)
    BY <1>6, <1>8, <2>2, <2>3, <2>4
  <2>6. \A f \in GidFields : c[f] = cred[f]
    BY <1>3, <1>4, <1>5, <1>6, <1>8 DEF GidFields, CredFields, UidFields
  <2> QED
    BY <1>2, <2>5, <2>6 DEF OwnIds
<1> QED
  BY <1>1, <1>8, <1>9, PrepareKeeps DEF Fine

(* Fields set to one id that is the process's own, or by one in force.     *)
LEMMA FieldsSetAreFine ==
  ASSUME CredInv, NEW fields, "user" \notin fields, "uid" \notin fields,
         NEW id, NEW own \in {UidFields, GidFields}, fields \subseteq own,
         ~effective => id \in IdsOf(cred, own)
  PROVE  Fine(With(cred, fields, id))
<1> DEFINE c == With(cred, fields, id)
<1>1. DOMAIN cred = CredFields /\ CountedFor(cred) /\ OwnIds(cred)
  BY OldAreFine
<1>2. DOMAIN c = CredFields /\ \A f \in CredFields : c[f] = IF f \in fields THEN id ELSE cred[f]
  BY <1>1, WithFields
<1> HIDE DEF c
<1>3. CountedFor(c)
  BY <1>1, <1>2, FieldNames DEF CountedFor
<1>4. ~effective => OwnIds(c)
  BY <1>1, <1>2 DEF OwnIds, CredFields, UidFields, GidFields
<1> QED
  BY <1>2, <1>3, <1>4 DEF Fine, c

LEMMA SetuidIsFine ==
  ASSUME CredInv, NEW u, setuid(u)
  PROVE  CredInv'
<1>1. CASE effective
  <2> DEFINE t == With(cred, UidFields, u)
  <2>1. DOMAIN cred = CredFields /\ CountedFor(cred)
    BY OldAreFine
  <2>2. DOMAIN t = CredFields /\ t["user"] = cred["user"]
    BY <2>1, WithFields, FieldNames
  <2>3. Fine(set_user(t))
    BY <1>1, <2>1, <2>2, SetUserFields DEF Fine
  <2>4. Prepare(set_user(t))
    BY <1>1 DEF setuid
  <2> QED
    BY <2>3, <2>4, PrepareKeeps
<1>2. CASE ~effective
  <2>1. /\ u \in {cred.uid, cred.suid}
        /\ Prepare(With(cred, {"euid", "fsuid"}, u))
    BY <1>2 DEF setuid
  <2>2. u \in IdsOf(cred, UidFields)
    BY <2>1 DEF IdsOf, UidFields
  <2>3. {"euid", "fsuid"} \subseteq UidFields
    BY DEF UidFields
  <2>4. Fine(With(cred, {"euid", "fsuid"}, u))
    BY <2>2, <2>3, FieldsSetAreFine
  <2> QED
    BY <2>1, <2>4, PrepareKeeps
<1> QED
  BY <1>1, <1>2

LEMMA FsIdsAreFine ==
  ASSUME CredInv, NEW id, (id \in Uids /\ setfsuid(id)) \/ (id \in Gids /\ setfsgid(id))
  PROVE  CredInv'
<1>0. id # -1
  BY CredentialsAssumption
<1>1. CASE setfsuid(id)
  <2>1. (~effective => id \in IdsOf(cred, UidFields)) /\ Prepare(With(cred, {"fsuid"}, id))
    BY <1>0, <1>1 DEF setfsuid, May
  <2>2. {"fsuid"} \subseteq UidFields
    BY DEF UidFields
  <2>3. Fine(With(cred, {"fsuid"}, id))
    BY <2>1, <2>2, FieldsSetAreFine
  <2> QED
    BY <2>1, <2>3, PrepareKeeps
<1>2. CASE setfsgid(id)
  <2>1. (~effective => id \in IdsOf(cred, GidFields)) /\ Prepare(With(cred, {"fsgid"}, id))
    BY <1>0, <1>2 DEF setfsgid, May
  <2>2. {"fsgid"} \subseteq GidFields
    BY DEF GidFields
  <2>3. Fine(With(cred, {"fsgid"}, id))
    BY <2>1, <2>2, FieldsSetAreFine
  <2> QED
    BY <2>1, <2>3, PrepareKeeps
<1> QED
  BY <1>1, <1>2

LEMMA SetgidIsFine ==
  ASSUME CredInv, NEW g, setgid(g)
  PROVE  CredInv'
<1>1. CASE effective
  <2>1. Prepare(With(cred, GidFields, g))
    BY <1>1 DEF setgid
  <2>2. "user" \notin GidFields /\ "uid" \notin GidFields
    BY DEF GidFields
  <2>3. Fine(With(cred, GidFields, g))
    BY <1>1, <2>2, FieldsSetAreFine
  <2> QED
    BY <2>1, <2>3, PrepareKeeps
<1>2. CASE ~effective
  <2>1. /\ g \in {cred.gid, cred.sgid}
        /\ Prepare(With(cred, {"egid", "fsgid"}, g))
    BY <1>2 DEF setgid
  <2>2. g \in IdsOf(cred, GidFields)
    BY <2>1 DEF IdsOf, GidFields
  <2>3. {"egid", "fsgid"} \subseteq GidFields
    BY DEF GidFields
  <2>4. Fine(With(cred, {"egid", "fsgid"}, g))
    BY <2>2, <2>3, FieldsSetAreFine
  <2> QED
    BY <2>1, <2>4, PrepareKeeps
<1> QED
  BY <1>1, <1>2

LEMMA SetregidIsFine ==
  ASSUME CredInv, NEW r, NEW e, setregid(r, e)
  PROVE  CredInv'
<1> DEFINE m == WithIf(cred, "gid", r)
           n == WithIf(m, "egid", e)
           changes == r # -1 \/ (e # -1 /\ e # cred.gid)
           s == IF changes THEN With(n, {"sgid"}, n.egid) ELSE n
           c == With(s, {"fsgid"}, n.egid)
<1>1. Prepare(c) /\ May(r, {cred.gid, cred.egid}) /\ May(e, {cred.gid, cred.egid, cred.sgid})
  BY DEF setregid, Regid
<1>2. DOMAIN cred = CredFields /\ CountedFor(cred) /\ OwnIds(cred)
  BY OldAreFine
<1>3. DOMAIN m = CredFields /\ \A f \in CredFields : m[f] = IF f = "gid" /\ r # -1 THEN r ELSE cred[f]
  BY <1>2, WithIfFields
<1> HIDE DEF m
<1>4. DOMAIN n = CredFields /\ \A f \in CredFields : n[f] = IF f = "egid" /\ e # -1 THEN e ELSE m[f]
  BY <1>3, WithIfFields
<1> HIDE DEF n
<1>5. DOMAIN s = CredFields /\ \A f \in CredFields : s[f] = IF changes /\ f = "sgid" THEN n.egid ELSE n[f]
  BY <1>4, WithFields
<1> HIDE DEF s
<1>6. DOMAIN c = CredFields /\ \A f \in CredFields : c[f] = IF f = "fsgid" THEN n.egid ELSE s[f]
  BY <1>5, WithFields
<1> HIDE DEF c, changes
<1>7. \A f \in UidFields \cup {"user"} : c[f] = cred[f]
  BY <1>3, <1>4, <1>5, <1>6 DEF GidFields, CredFields, UidFields
<1>8. ~effective => OwnIds(c)
  <2> SUFFICES ASSUME ~effective
               PROVE  OwnIds(c)
    OBVIOUS
  <2>1. /\ r # -1 => r \in IdsOf(cred, GidFields)
        /\ e # -1 => e \in IdsOf(cred, GidFields)
    BY <1>1 DEF May, IdsOf, GidFields
  <2>2. \A f \in GidFields : f \in CredFields
    BY DEF CredFields
  <2>3. \A f \in GidFields : n[f] \in IdsOf(cred, GidFields)
    BY <1>2, <1>3, <1>4, <2>1, <2>2 DEF OwnIds
  <2>4. n.egid \in IdsOf(cred, GidFields)
    BY <2>3 DEF GidFields
  <2>5. \A f \in GidFields : c[f] \in IdsOf(cred, GidFields)
    BY <1>5, <1>6, <2>2, <2>3, <2>4
  <2> QED
    BY <1>2, <1>7, <2>5 DEF OwnIds
<1>9. CountedFor(c)
  BY <1>2, <1>7 DEF CountedFor, UidFields
<1> QED
  BY <1>1, <1>6, <1>8, <1>9, PrepareKeeps DEF Fine

LEMMA SetresgidIsFine ==
  ASSUME CredInv, NEW r, NEW e, NEW v, setresgid(r, e, v)
  PROVE  CredInv'
<1> DEFINE l == WithIf(cred, "gid", r)
           m == WithIf(l, "egid", e)
           n == WithIf(m, "sgid", v)
           c == With(n, {"fsgid"}, n.egid)
<1>1. Prepare(c) /\ \A id \in {r, e, v} : May(id, {cred.gid, cred.egid, cred.sgid})
  BY DEF setresgid
<1>2. DOMAIN cred = CredFields /\ CountedFor(cred) /\ OwnIds(cred)
  BY OldAreFine
<1>3. DOMAIN l = CredFields /\ \A f \in CredFields : l[f] = IF f = "gid" /\ r # -1 THEN r ELSE cred[f]
  BY <1>2, WithIfFields
<1> HIDE DEF l
<1>4. DOMAIN m = CredFields /\ \A f \in CredFields : m[f] = IF f = "egid" /\ e # -1 THEN e ELSE l[f]
  BY <1>3, WithIfFields
<1> HIDE DEF m
<1>5. DOMAIN n = CredFields /\ \A f \in CredFields : n[f] = IF f = "sgid" /\ v # -1 THEN v ELSE m[f]
  BY <1>4, WithIfFields
<1> HIDE DEF n
<1>6. DOMAIN c = CredFields /\ \A f \in CredFields : c[f] = IF f = "fsgid" THEN n.egid ELSE n[f]
  BY <1>5, WithFields
<1> HIDE DEF c
<1>7. \A f \in UidFields \cup {"user"} : c[f] = cred[f]
  BY <1>3, <1>4, <1>5, <1>6 DEF GidFields, CredFields, UidFields
<1>8. ~effective => OwnIds(c)
  <2> SUFFICES ASSUME ~effective
               PROVE  OwnIds(c)
    OBVIOUS
  <2>1. \A id \in {r, e, v} : id # -1 => id \in IdsOf(cred, GidFields)
    BY <1>1 DEF May, IdsOf, GidFields
  <2>2. \A f \in GidFields : f \in CredFields
    BY DEF CredFields
  <2>3. \A f \in GidFields : n[f] \in IdsOf(cred, GidFields)
    BY <1>2, <1>3, <1>4, <1>5, <2>1, <2>2 DEF OwnIds
  <2>4. n.egid \in IdsOf(cred, GidFields)
    BY <2>3 DEF GidFields
  <2>5. \A f \in GidFields : c[f] \in IdsOf(cred, GidFields)
    BY <1>6, <2>2, <2>3, <2>4
  <2> QED
    BY <1>2, <1>7, <2>5 DEF OwnIds
<1>9. CountedFor(c)
  BY <1>2, <1>7 DEF CountedFor, UidFields
<1> QED
  BY <1>1, <1>6, <1>8, <1>9, PrepareKeeps DEF Fine

LEMMA CommitKeeps ==
  ASSUME CredInv, Commit
  PROVE  CredInv'
<1>1. PICK c \in new :
        /\ cred' = c /\ new' = {}
        /\ permitted' = (permitted /\ (Root \in IdsOf(cred, RealIds) => Root \in IdsOf(c, RealIds)))
        /\ effective' = IF cred.euid # Root /\ c.euid = Root THEN permitted'
                        ELSE effective /\ permitted' /\ (cred.euid = Root => c.euid = Root)
        /\ UNCHANGED others
  BY DEF Commit
<1>2. CredTypes'
  BY <1>1 DEF CredInv, CredTypes
<1>3. CapsAreRoots'
  BY <1>1 DEF CredInv, CredTypes, CapsAreRoots
<1>4. NewIsChecked' /\ UsersFollow' /\ CountsAreBounded'
  BY <1>1 DEF CredInv, NewIsChecked, UsersFollow, CountsAreBounded, CountedFor
<1> QED
  BY <1>2, <1>3, <1>4 DEF CredInv

LEMMA OthersKeep ==
  ASSUME CredInv, NEW u \in Uids \ {Root}, OtherForks(u) \/ OtherExits(u)
  PROVE  CredInv'
<1>1. UNCHANGED <<cred, effective, permitted, new>>
  BY DEF OtherForks, OtherExits
<1>2. others \in [Uids \ {Root} -> Nat] /\ \A v \in Uids \ {Root} : others[v] <= RLIMIT_NPROC
  BY DEF CredInv, CredTypes, CountsAreBounded
<1>3. /\ others' \in [Uids \ {Root} -> Nat]
      /\ \A v \in Uids \ {Root} : others'[v] <= RLIMIT_NPROC
  <2>1. CASE OtherForks(u)
    <3>1. others[u] < RLIMIT_NPROC
      BY <1>2, <2>1, CredentialsAssumption DEF OtherForks, Count
    <3> QED
      BY <1>2, <2>1, <3>1, CredentialsAssumption DEF OtherForks
  <2>2. CASE OtherExits(u)
    BY <1>2, <2>2, CredentialsAssumption DEF OtherExits
  <2> QED
    BY <2>1, <2>2
<1> QED
  BY <1>1, <1>3 DEF CredInv, CredTypes, CapsAreRoots, NewIsChecked, UsersFollow,
     CountsAreBounded, CountedFor, OwnIds, IdsOf

LEMMA CredStep ==
  ASSUME CredInv, [CredNext]_credVars
  PROVE  CredInv'
<1>1. CASE UidNext
  BY <1>1, SetreuidIsFine, SetresuidIsFine, SetuidIsFine, FsIdsAreFine, OthersKeep DEF UidNext
<1>2. CASE GidNext
  BY <1>2, SetregidIsFine, SetresgidIsFine, SetgidIsFine, FsIdsAreFine DEF GidNext
<1>3. CASE Commit
  BY <1>3, CommitKeeps
<1>4. CASE UNCHANGED credVars
  BY <1>4 DEF credVars, CredInv, CredTypes, CapsAreRoots, NewIsChecked, UsersFollow,
     CountsAreBounded, CountedFor, OwnIds, IdsOf
<1> QED
  BY <1>1, <1>2, <1>3, <1>4 DEF CredNext

LEMMA CredentialsAreSound ==
  CredSpec => []CredInv
<1>1. CredInv /\ [CredNext]_credVars => CredInv'
  BY CredStep
<1> QED
  BY <1>1, CredStart, PTL DEF CredSpec

-----------------------------------------------------------------------------
(* The guarantee of IdsNeverGained for one step.                           *)
NoIdGained ==
    /\ ~effective => /\ IdsOf(cred', UidFields) \subseteq IdsOf(cred, UidFields)
                     /\ IdsOf(cred', GidFields) \subseteq IdsOf(cred, GidFields)
    /\ Root \notin IdsOf(cred, RealIds) /\ cred.fsuid # Root =>
           Root \notin IdsOf(cred', UidFields)

LEMMA CommitGainsNone ==
  ASSUME CredInv, Commit
  PROVE  NoIdGained
<1>1. PICK c \in new : cred' = c
  BY DEF Commit
<1>2. ~effective => OwnIds(c)
  BY DEF CredInv, NewIsChecked
<1>3. ~effective => /\ IdsOf(cred', UidFields) \subseteq IdsOf(cred, UidFields)
                    /\ IdsOf(cred', GidFields) \subseteq IdsOf(cred, GidFields)
  <2>1. IdsOf(c, UidFields) = {c[f] : f \in UidFields} /\ IdsOf(c, GidFields) = {c[f] : f \in GidFields}
    BY DEF IdsOf
  <2> QED
    BY <1>1, <1>2, <2>1 DEF OwnIds
<1>4. ASSUME Root \notin IdsOf(cred, RealIds), cred.fsuid # Root
      PROVE  Root \notin IdsOf(cred', UidFields)
  <2>1. ~effective
    BY <1>4 DEF CredInv, CapsAreRoots
  <2>2. Root \notin IdsOf(cred, UidFields)
    BY <1>4 DEF IdsOf, UidFields, RealIds
  <2> QED
    BY <1>3, <2>1, <2>2
<1> QED
  BY <1>3, <1>4 DEF NoIdGained

LEMMA OtherStepsGainNone ==
  ASSUME CredInv, UidNext \/ GidNext
  PROVE  cred' = cred
<1>1. (\E c : Prepare(c)) \/ (\E u \in Uids \ {Root} : OtherForks(u) \/ OtherExits(u))
  BY DEF UidNext, GidNext, setreuid, setresuid, setuid, setfsuid, setregid, setresgid, setgid,
     setfsgid
<1> QED
  BY <1>1 DEF Prepare, OtherForks, OtherExits

LEMMA StepGainsNone ==
  ASSUME CredInv, [CredNext]_credVars
  PROVE  [NoIdGained]_credVars
<1>1. CASE Commit
  BY <1>1, CommitGainsNone
<1>2. CASE UidNext \/ GidNext
  <2>1. cred' = cred
    BY <1>2, OtherStepsGainNone
  <2>2. Root \notin IdsOf(cred, RealIds) /\ cred.fsuid # Root => Root \notin IdsOf(cred, UidFields)
    BY DEF IdsOf, UidFields, RealIds
  <2> QED
    BY <2>1, <2>2 DEF NoIdGained
<1> QED
  BY <1>1, <1>2 DEF CredNext

(* A process without capabilities in force never comes by an id that was   *)
(* not among its four, and one that gave up root's never has it again,     *)
(* although the check (6.c 623-1018) and the commit are two steps.         *)
THEOREM IdsAreNeverGained == CredSpec => IdsNeverGained
<1>1. CredInv /\ [CredNext]_credVars => [NoIdGained]_credVars
  BY StepGainsNone
<1> QED
  BY <1>1, CredentialsAreSound, PTL DEF CredSpec, IdsNeverGained, NoIdGained

(* A process is counted for its real user, and no user has more than one   *)
(* process over the limit by set_user (6.c 699-717).                       *)
THEOREM UsersAreCounted == CredSpec => []UserFollows
<1>1. CredInv => UserFollows
  <2> SUFFICES ASSUME CredInv
               PROVE  UserFollows
    OBVIOUS
  <2>1. cred.user = cred.uid
    BY DEF CredInv, UsersFollow, CountedFor
  <2>2. \A u \in Uids \ {Root} : Count(u) <= RLIMIT_NPROC + 1
    BY CredentialsAssumption DEF CredInv, CredTypes, CountsAreBounded, Count
  <2> QED
    BY <2>1, <2>2 DEF UserFollows
<1> QED
  BY <1>1, CredentialsAreSound, PTL

-----------------------------------------------------------------------------
(* Sessions.  GroupInOneSession alone is not inductive: setpgid may found  *)
(* a group with the number of a process, and if others were in a group of  *)
(* that number already, they would have to be in its session.              *)
(* GroupsOfTheLiving says that they are.                                   *)

SessionTypeOK ==
    /\ tasks \subseteq Pids /\ leader \subseteq tasks /\ did_exec \subseteq Pids
    /\ real_parent \in [Pids -> Pids \cup {0}]
    /\ pgrp \in [Pids -> Pids] /\ session \in [Pids -> Pids]

(* A group with the number of a process lies in that process's session.    *)
GroupsOfTheLiving == \A p, q \in tasks : pgrp[q] = p => session[q] = session[p]

SessionInv == SessionTypeOK /\ GroupInOneSession /\ GroupsOfTheLiving

(* Everybody begins in the group and the session of init.                  *)
LEMMA SessionStart == SessionInit => SessionInv
  BY PidsAssumption
     DEF SessionInit, SessionInv, SessionTypeOK, GroupInOneSession, GroupsOfTheLiving

(* A child is in the group and the session of its parent, and no group has *)
(* its number.                                                             *)
LEMMA ForkKeeps ==
  ASSUME SessionInv, NEW p \in Pids, NEW q \in Pids, Fork(p, q)
  PROVE  SessionInv'
<1> USE DEF SessionInv, SessionTypeOK, GroupInOneSession, GroupsOfTheLiving, Fork, groups
<1>1. SessionTypeOK'
  OBVIOUS
<1>2. \A t \in tasks : t # q /\ pgrp'[t] = pgrp[t] /\ session'[t] = session[t] /\ pgrp[t] # q
  OBVIOUS
<1>3. pgrp'[q] = pgrp[p] /\ session'[q] = session[p] /\ pgrp[p] # q
  OBVIOUS
<1>4. GroupInOneSession'
  BY <1>2, <1>3
<1>5. GroupsOfTheLiving'
  BY <1>2, <1>3
<1> QED
  BY <1>1, <1>4, <1>5

(* exec and exit change the groups of nobody who stays.                    *)
LEMMA ExecKeeps ==
  ASSUME SessionInv, NEW p \in Pids, Exec(p)
  PROVE  SessionInv'
  BY DEF SessionInv, SessionTypeOK, GroupInOneSession, GroupsOfTheLiving, Exec, groups

LEMMA ExitKeeps ==
  ASSUME SessionInv, NEW p \in Pids, Exit(p)
  PROVE  SessionInv'
<1> USE DEF SessionInv, SessionTypeOK, GroupInOneSession, GroupsOfTheLiving, Exit
<1>1. SessionTypeOK'
  BY PidsAssumption
<1>2. \A t \in tasks' : t \in tasks /\ pgrp'[t] = pgrp[t] /\ session'[t] = session[t]
  OBVIOUS
<1>3. leader' \subseteq leader /\ leader' \subseteq tasks'
  OBVIOUS
<1> QED
  BY <1>1, <1>2, <1>3

(* A group joined has a member of the session of the process that joins; a *)
(* group founded has the number of the process.                            *)
LEMMA SetpgidKeeps ==
  ASSUME SessionInv, NEW me \in Pids, NEW p \in Pids, NEW pgid \in Pids, setpgid(me, p, pgid)
  PROVE  SessionInv'
<1> USE DEF SessionInv, SessionTypeOK, GroupInOneSession, GroupsOfTheLiving, setpgid, Members
<1>1. SessionTypeOK'
  OBVIOUS
<1>2. p \in tasks \ leader /\ me \in tasks /\ session[p] = session[me]
  OBVIOUS
<1>3. pgrp'[p] = pgid /\ \A t \in tasks \ {p} : pgrp'[t] = pgrp[t]
  OBVIOUS
<1>4. \A t \in tasks : pgrp[t] = pgid => session[t] = session[p]
  <2>1. CASE pgid = p
    BY <1>2, <2>1
  <2>2. CASE pgid # p
    BY <1>2, <2>2
  <2> QED
    BY <2>1, <2>2
<1>5. pgid \in tasks => session[pgid] = session[p]
  <2>1. CASE pgid = p
    BY <2>1
  <2>2. CASE pgid # p
    BY <1>2, <2>2
  <2> QED
    BY <2>1, <2>2
<1>6. GroupInOneSession'
  BY <1>2, <1>3, <1>4
<1>7. GroupsOfTheLiving'
  BY <1>2, <1>3, <1>5
<1> QED
  BY <1>1, <1>6, <1>7

(* The new session begins with a group nobody else is in.                  *)
LEMMA SetsidKeeps ==
  ASSUME SessionInv, NEW me \in Pids, setsid(me)
  PROVE  SessionInv'
<1> USE DEF SessionInv, SessionTypeOK, GroupInOneSession, GroupsOfTheLiving, setsid, Members
<1>1. SessionTypeOK'
  OBVIOUS
<1>2. \A t \in tasks : pgrp[t] # me
  OBVIOUS
<1>3. /\ pgrp'[me] = me /\ session'[me] = me
      /\ \A t \in tasks \ {me} : pgrp'[t] = pgrp[t] /\ session'[t] = session[t]
  OBVIOUS
<1>4. GroupInOneSession'
  BY <1>2, <1>3
<1>5. GroupsOfTheLiving'
  BY <1>2, <1>3
<1> QED
  BY <1>1, <1>4, <1>5

LEMMA SessionStep == SessionInv /\ [SessionNext]_sessionVars => SessionInv'
<1> SUFFICES ASSUME SessionInv, [SessionNext]_sessionVars
             PROVE  SessionInv'
  OBVIOUS
<1>1. CASE UNCHANGED sessionVars
  BY <1>1 DEF sessionVars, SessionInv, SessionTypeOK, GroupInOneSession, GroupsOfTheLiving
<1>2. ASSUME NEW p \in Pids, NEW q \in Pids, Fork(p, q)
      PROVE  SessionInv'
  BY <1>2, ForkKeeps
<1>3. ASSUME NEW p \in Pids, Exec(p)
      PROVE  SessionInv'
  BY <1>3, ExecKeeps
<1>4. ASSUME NEW p \in Pids, Exit(p)
      PROVE  SessionInv'
  BY <1>4, ExitKeeps
<1>5. ASSUME NEW p \in Pids, setsid(p)
      PROVE  SessionInv'
  BY <1>5, SetsidKeeps
<1>6. ASSUME NEW p \in Pids, NEW q \in Pids, NEW g \in Pids, setpgid(p, q, g)
      PROVE  SessionInv'
  BY <1>6, SetpgidKeeps
<1> QED
  BY <1>1, <1>2, <1>3, <1>4, <1>5, <1>6 DEF SessionNext

(* Whatever the order of setsid, setpgid, fork, exec and exit (6.c         *)
(* 1060-1223), a process group never spans two sessions.                   *)
THEOREM GroupsStayInTheirSession == SessionSpec => []GroupInOneSession
<1>1. SessionInit => SessionInv
  BY SessionStart
<1>2. SessionInv /\ [SessionNext]_sessionVars => SessionInv'
  BY SessionStep
<1>3. SessionInv => GroupInOneSession
  BY DEF SessionInv
<1> QED
  BY <1>1, <1>2, <1>3, PTL DEF SessionSpec

-----------------------------------------------------------------------------
(* The page fault handler.  A writer of mmap_sem is between LockForMmap    *)
(* and Zap, or takes a fault there that will bring it back; the readers    *)
(* are in the part of the handler that looks at the area; what a reader    *)
(* has found still holds when it puts the page in.                         *)

Handler == {"count", "store", "entry", "vma", "handle", "sleep", "dead"}
Mapping == {"mmap", "zap"}

FaultTypes ==
    /\ at \in [Threads -> {"run"} \cup Mapping \cup Handler]
    /\ fault \in [Threads -> Faults]
    /\ readers \subseteq Threads /\ writer \subseteq Threads
    /\ pte \in {"none", "ro", "rw"}

(* A thread that holds mmap_sem to change the map.                         *)
Writes(t) == at[t] \in Mapping \/ (at[t] \in Handler /\ fault[t].back \in Mapping)

SemHeld ==
    /\ \A t \in Threads : Writes(t) <=> t \in writer
    /\ \A t \in writer : writer = {t}
    /\ readers = {t \in Threads : at[t] \in {"vma", "handle"}}
    /\ readers # {} => writer = {}

(* What the handler has found out about the fault at each place.           *)
FaultKnown(t) ==
    /\ at[t] \notin Handler => fault[t] = NoFault
    /\ fault[t].user => ~fault[t].entry /\ fault[t].back = "run"
    /\ fault[t].back # "run" => ~fault[t].entry
    /\ at[t] = "sleep" => fault[t].user \/ fault[t].entry
    /\ at[t] = "dead" => ~fault[t].user \/ fault[t].rsvd
    /\ at[t] = "handle" => vma \in {"ro", "rw"} /\ (fault[t].write => vma = "rw")

Remapping == \E t \in Threads : at[t] = "zap" \/ (writer = {t} /\ fault[t].back = "zap")

PageInArea == (pte # "none" => vma \in {"ro", "rw"}) /\ (pte = "rw" => vma = "rw")

FaultInv ==
    /\ FaultTypes /\ SemHeld
    /\ \A t \in Threads : FaultKnown(t)
    /\ ~Remapping => PageInArea

LEMMA FaultStart ==
  FaultInit => FaultInv
<1> SUFFICES ASSUME FaultInit
             PROVE  FaultInv
  OBVIOUS
<1>1. NoFault \in Faults /\ ~NoFault.entry /\ NoFault.back = "run"
  BY DEF NoFault, Faults
<1>2. FaultTypes
  BY <1>1 DEF FaultInit, FaultTypes
<1>3. SemHeld
  BY DEF FaultInit, SemHeld, Writes, Mapping, Handler
<1>4. \A t \in Threads : FaultKnown(t)
  BY <1>1 DEF FaultInit, FaultKnown
<1>5. PageInArea
  BY DEF FaultInit, PageInArea
<1> QED
  BY <1>2, <1>3, <1>4, <1>5 DEF FaultInv

(* One thread leaves the handler, whatever it has found out.               *)
LEMMA EndsKnown ==
  ASSUME FaultInv, NEW t \in Threads, NEW how, Ends(t, how), at[t] \in Handler,
         how = "oops" => ~fault[t].user \/ fault[t].rsvd
  PROVE  /\ \A r \in Threads : r # t => at'[r] = at[r] /\ fault'[r] = fault[r]
         /\ at' \in [Threads -> {"run"} \cup Mapping \cup Handler]
         /\ fault' \in [Threads -> Faults]
         /\ \/ at'[t] = "dead" /\ fault'[t] = fault[t] /\ (~fault[t].user \/ fault[t].rsvd)
            \/ at'[t] = fault[t].back /\ at'[t] \in {"run", "mmap", "zap"} /\ fault'[t] = NoFault
<1>1. NoFault \in Faults /\ fault[t] \in Faults
  BY DEF NoFault, Faults, FaultInv, FaultTypes
<1>2. fault[t].back \in {"run", "mmap", "zap"}
  BY <1>1 DEF Faults
<1> QED
  BY <1>1, <1>2 DEF Ends, FaultInv, FaultTypes, Mapping, Handler

(* A step of the handler for t changes no area and only the place of t.    *)
OnlyMoves(t) ==
    /\ \A r \in Threads : r # t => at'[r] = at[r] /\ fault'[r] = fault[r]
    /\ at' \in [Threads -> {"run"} \cup Mapping \cup Handler]
    /\ fault' \in [Threads -> Faults]
    /\ \/ at'[t] \in Handler /\ fault'[t] = fault[t]
       \/ at'[t] = fault[t].back /\ at'[t] \in {"run", "mmap", "zap"} /\ fault'[t] = NoFault

TakesLock(t) == IF at'[t] \in {"vma", "handle"} THEN readers' = readers \cup {t}
                ELSE readers' = readers \ {t}

LEMMA HandlerKeeps ==
  ASSUME FaultInv, NEW t \in Threads, at[t] \in Handler, OnlyMoves(t), TakesLock(t),
         at'[t] \in {"vma", "handle"} => writer = {}, FaultKnown(t)',
         UNCHANGED <<writer, vma>>, pte' \in {"none", "ro", "rw"},
         ~Remapping /\ PageInArea => PageInArea'
  PROVE  FaultInv'
<1>1. FaultTypes'
  BY DEF OnlyMoves, TakesLock, FaultInv, FaultTypes
<1>2. \A r \in Threads : Writes(r)' <=> Writes(r)
  BY DEF OnlyMoves, Writes, Mapping, Handler
<1>3. readers' = {r \in Threads : at'[r] \in {"vma", "handle"}}
  BY DEF OnlyMoves, TakesLock, FaultInv, FaultTypes, SemHeld
<1>4. SemHeld'
  <2>1. readers' # {} => writer = {}
    BY DEF TakesLock, FaultInv, SemHeld
  <2> QED
    BY <1>2, <1>3, <2>1 DEF FaultInv, SemHeld
<1>5. \A r \in Threads : FaultKnown(r)'
  BY DEF OnlyMoves, FaultInv, FaultKnown
<1>6. Remapping => Remapping'
  <2> SUFFICES ASSUME NEW r \in Threads, at[r] = "zap" \/ (writer = {r} /\ fault[r].back = "zap")
               PROVE  Remapping'
    BY DEF Remapping
  <2>1. at'[r] = "zap" \/ (writer' = {r} /\ fault'[r].back = "zap")
    BY DEF OnlyMoves, Handler
  <2> QED
    BY <2>1 DEF Remapping
<1>7. ~Remapping' => PageInArea'
  BY <1>6 DEF FaultInv
<1> QED
  BY <1>1, <1>4, <1>5, <1>7 DEF FaultInv

(* Within the handler, to a place where what is known still says enough.   *)
LEMMA MovesInside ==
  ASSUME FaultInv, NEW t \in Threads, NEW from \in Handler, NEW to \in Handler,
         Moves(t, from, to), UNCHANGED <<fault, memory_map, writer>>, TakesLock(t),
         to \in {"vma", "handle"} => writer = {},
         to = "sleep" => fault[t].user \/ fault[t].entry,
         to = "dead" => ~fault[t].user \/ fault[t].rsvd,
         to = "handle" => vma \in {"ro", "rw"} /\ (fault[t].write => vma = "rw")
  PROVE  FaultInv'
<1>1. at[t] = from /\ at' = [at EXCEPT ![t] = to]
  BY DEF Moves
<1>2. at'[t] = to /\ \A r \in Threads : r # t => at'[r] = at[r]
  BY <1>1 DEF FaultInv, FaultTypes
<1>3. OnlyMoves(t)
  BY <1>1, <1>2 DEF OnlyMoves, FaultInv, FaultTypes
<1>4. FaultKnown(t)'
  BY <1>1, <1>2 DEF FaultKnown, FaultInv, memory_map
<1>5. pte' \in {"none", "ro", "rw"} /\ (PageInArea => PageInArea')
  BY DEF FaultInv, FaultTypes, PageInArea, memory_map
<1> QED
  BY <1>1, <1>2, <1>3, <1>4, <1>5, HandlerKeeps DEF memory_map

(* Out of the handler, dead or back where the fault was.                   *)
LEMMA EndsSound ==
  ASSUME FaultInv, NEW t \in Threads, at[t] \in Handler, NEW how, Ends(t, how),
         how = "oops" => ~fault[t].user \/ fault[t].rsvd,
         readers' = readers \ {t}, UNCHANGED <<writer, vma>>, pte' \in {"none", "ro", "rw"},
         ~Remapping /\ PageInArea => PageInArea'
  PROVE  FaultInv'
<1>1. /\ \A r \in Threads : r # t => at'[r] = at[r] /\ fault'[r] = fault[r]
      /\ at' \in [Threads -> {"run"} \cup Mapping \cup Handler]
      /\ fault' \in [Threads -> Faults]
      /\ \/ at'[t] = "dead" /\ fault'[t] = fault[t] /\ (~fault[t].user \/ fault[t].rsvd)
         \/ at'[t] = fault[t].back /\ at'[t] \in {"run", "mmap", "zap"} /\ fault'[t] = NoFault
  BY EndsKnown
<1>2. OnlyMoves(t)
  BY <1>1 DEF OnlyMoves, Handler
<1>3. TakesLock(t) /\ ~(at'[t] \in {"vma", "handle"})
  BY <1>1 DEF TakesLock
<1>4. FaultKnown(t)'
  <2>1. ~NoFault.entry /\ NoFault.back = "run"
    BY DEF NoFault
  <2>2. FaultKnown(t)
    BY DEF FaultInv
  <2>3. CASE at'[t] = "dead" /\ fault'[t] = fault[t] /\ (~fault[t].user \/ fault[t].rsvd)
    BY <2>2, <2>3 DEF FaultKnown, Handler
  <2>4. CASE at'[t] \in {"run", "mmap", "zap"} /\ fault'[t] = NoFault
    BY <2>1, <2>4 DEF FaultKnown, Handler
  <2> QED
    BY <1>1, <2>3, <2>4
<1> QED
  BY <1>2, <1>3, <1>4, HandlerKeeps

(* A thread outside of the handler's look at the area reads nothing.       *)
LEMMA NoReader ==
  ASSUME FaultInv, NEW t \in Threads, at[t] \notin {"vma", "handle"}
  PROVE  readers = readers \ {t}
  BY DEF FaultInv, SemHeld

LEMMA BadAreaSound ==
  ASSUME FaultInv, NEW t \in Threads, at[t] \in Handler, bad_area_nosemaphore(t),
         readers' = readers \ {t}, UNCHANGED <<writer, memory_map>>
  PROVE  FaultInv'
<1>1. PICK how : /\ Ends(t, how)
                 /\ how = "oops" => ~fault[t].user \/ fault[t].rsvd
  <2>1. CASE fault[t].user
    <3>1. Ends(t, "SIGSEGV")
      BY <2>1 DEF bad_area_nosemaphore
    <3> QED
      BY <3>1
  <2>2. CASE ~fault[t].user
    <3>1. Ends(t, IF fault[t].entry THEN "fixed up" ELSE "oops")
      BY <2>2 DEF bad_area_nosemaphore, no_context
    <3> QED
      BY <2>2, <3>1
  <2> QED
    BY <2>1, <2>2
<1>2. pte' \in {"none", "ro", "rw"} /\ vma' = vma /\ (PageInArea => PageInArea')
  BY DEF FaultInv, FaultTypes, PageInArea, memory_map
<1> QED
  BY <1>1, <1>2, EndsSound

-----------------------------------------------------------------------------
(* Each action of the page fault model.                                    *)

LEMMA AccessSound ==
  ASSUME FaultInv, NEW t \in Threads, NEW f \in Faults, Access(t, f)
  PROVE  FaultInv'
<1>1. /\ at[t] = f.back /\ f.back \in {"run", "mmap", "zap"}
      /\ (f.user => ~f.entry /\ f.back = "run") /\ (f.back # "run" => ~f.entry)
      /\ at' = [at EXCEPT ![t] = "count"] /\ fault' = [fault EXCEPT ![t] = f]
      /\ UNCHANGED <<readers, writer, vma, pte>>
  BY DEF Access, Faults, sem, memory_map
<1>2. /\ at'[t] = "count" /\ fault'[t] = f
      /\ \A r \in Threads : r # t => at'[r] = at[r] /\ fault'[r] = fault[r]
  BY <1>1 DEF FaultInv, FaultTypes
<1>3. FaultTypes'
  BY <1>1 DEF FaultInv, FaultTypes, Handler
<1>4. \A r \in Threads : Writes(r)' <=> Writes(r)
  BY <1>1, <1>2 DEF Writes, Mapping, Handler
<1>5. {r \in Threads : at'[r] \in {"vma", "handle"}} = {r \in Threads : at[r] \in {"vma", "handle"}}
  BY <1>1, <1>2
<1>6. SemHeld'
  BY <1>1, <1>4, <1>5 DEF FaultInv, SemHeld
<1>7. \A r \in Threads : FaultKnown(r)'
  BY <1>1, <1>2 DEF FaultInv, FaultKnown, Handler
<1>8. Remapping => Remapping'
  <2> SUFFICES ASSUME NEW r \in Threads, at[r] = "zap" \/ (writer = {r} /\ fault[r].back = "zap")
               PROVE  Remapping'
    BY DEF Remapping
  <2>1. CASE r # t
    <3>1. at'[r] = "zap" \/ (writer' = {r} /\ fault'[r].back = "zap")
      BY <1>1, <1>2, <2>1
    <3> QED
      BY <3>1 DEF Remapping
  <2>2. CASE r = t
    <3>1. at[t] = "zap"
      <4>1. at[t] \notin Handler
        BY <1>1 DEF Handler
      <4>2. fault[t].back = "run"
        BY <4>1 DEF FaultInv, FaultKnown, NoFault
      <4> QED
        BY <2>2, <4>2
    <3>2. writer = {t}
      BY <3>1 DEF FaultInv, SemHeld, Writes, Mapping
    <3>3. writer' = {t} /\ fault'[t].back = "zap"
      BY <1>1, <1>2, <3>1, <3>2
    <3> QED
      BY <3>3 DEF Remapping
  <2> QED
    BY <2>1, <2>2
<1>9. PageInArea' <=> PageInArea
  BY <1>1 DEF PageInArea
<1> QED
  BY <1>3, <1>6, <1>7, <1>8, <1>9 DEF FaultInv

(* The three steps of mmap outside of the handler.                         *)
LEMMA MmapSound ==
  ASSUME FaultInv, NEW t \in Threads, LockForMmap(t) \/ ChangeArea(t) \/ Zap(t)
  PROVE  FaultInv'
<1>1. /\ at[t] \in {"run", "mmap", "zap"} /\ at'[t] \in {"run", "mmap", "zap"}
      /\ \A r \in Threads : r # t => at'[r] = at[r]
      /\ UNCHANGED <<fault, readers>>
  BY DEF LockForMmap, ChangeArea, Zap, Moves, sem, FaultInv, FaultTypes
<1>2. fault[t] = NoFault /\ at[t] \notin Handler /\ at'[t] \notin Handler
  BY <1>1 DEF Handler, FaultInv, FaultKnown
<1>3. FaultTypes'
  BY DEF LockForMmap, ChangeArea, Zap, Moves, sem, memory_map, FaultInv, FaultTypes, Mapping
<1>4. {r \in Threads : at'[r] \in {"vma", "handle"}} = {r \in Threads : at[r] \in {"vma", "handle"}}
  BY <1>1
<1>5. \A r \in Threads : r # t => (Writes(r)' <=> Writes(r))
  BY <1>1 DEF Writes
<1>6. readers = {}
  <2>1. CASE LockForMmap(t)
    BY <2>1 DEF LockForMmap
  <2>2. CASE ChangeArea(t) \/ Zap(t)
    <3>1. t \in writer
      BY <2>2 DEF ChangeArea, Zap, Moves, FaultInv, SemHeld, Writes, Mapping
    <3> QED
      BY <3>1 DEF FaultInv, SemHeld
  <2> QED
    BY <2>1, <2>2
<1>7. SemHeld'
  <2>1. CASE LockForMmap(t)
    <3>1. at'[t] = "mmap" /\ writer = {} /\ writer' = {t}
      BY <2>1 DEF LockForMmap, Moves, FaultInv, FaultTypes
    <3>2. \A r \in Threads : Writes(r)' <=> r \in writer'
      BY <1>5, <3>1 DEF Writes, Mapping, FaultInv, SemHeld
    <3> QED
      BY <1>1, <1>4, <1>6, <3>1, <3>2 DEF FaultInv, SemHeld
  <2>2. CASE ChangeArea(t)
    <3>1. at[t] = "mmap" /\ at'[t] = "zap" /\ writer' = writer
      BY <2>2 DEF ChangeArea, Moves, sem, FaultInv, FaultTypes
    <3>2. \A r \in Threads : Writes(r)' <=> r \in writer'
      BY <1>5, <3>1 DEF Writes, Mapping, FaultInv, SemHeld
    <3> QED
      BY <1>1, <1>4, <1>6, <3>1, <3>2 DEF FaultInv, SemHeld
  <2>3. CASE Zap(t)
    <3>1. at[t] = "zap" /\ at'[t] = "run" /\ writer' = {} /\ writer = {t}
      BY <2>3 DEF Zap, Moves, FaultInv, FaultTypes, SemHeld, Writes, Mapping
    <3>2. \A r \in Threads : Writes(r)' <=> r \in writer'
      BY <1>1, <1>5, <3>1 DEF Writes, Mapping, Handler, FaultInv, SemHeld
    <3> QED
      BY <1>1, <1>4, <1>6, <3>1, <3>2 DEF FaultInv, SemHeld
  <2> QED
    BY <2>1, <2>2, <2>3
<1>8. \A r \in Threads : FaultKnown(r)'
  <2>1. \A r \in Threads : at[r] # "handle"
    BY <1>6 DEF FaultInv, SemHeld
  <2>2. ~NoFault.entry /\ NoFault.back = "run"
    BY DEF NoFault
  <2> QED
    BY <1>1, <1>2, <2>1, <2>2 DEF FaultInv, FaultKnown
<1>9. ~Remapping' => PageInArea'
  <2>1. CASE LockForMmap(t)
    <3>1. Remapping => Remapping'
      <4> SUFFICES ASSUME NEW r \in Threads,
                          at[r] = "zap" \/ (writer = {r} /\ fault[r].back = "zap")
                   PROVE  FALSE
        BY DEF Remapping
      <4>1. writer = {} /\ r \in writer
        BY <2>1 DEF LockForMmap, FaultInv, SemHeld, Writes, Mapping
      <4> QED
        BY <4>1
    <3>2. PageInArea => PageInArea'
      BY <2>1 DEF LockForMmap, memory_map, PageInArea
    <3> QED
      BY <3>1, <3>2 DEF FaultInv
  <2>2. CASE ChangeArea(t)
    <3>1. at'[t] = "zap"
      BY <2>2 DEF ChangeArea, Moves, FaultInv, FaultTypes
    <3> QED
      BY <3>1 DEF Remapping
  <2>3. CASE Zap(t)
    BY <2>3 DEF Zap, PageInArea
  <2> QED
    BY <2>1, <2>2, <2>3
<1> QED
  BY <1>3, <1>7, <1>8, <1>9 DEF FaultInv

LEMMA CountingSound ==
  ASSUME FaultInv, NEW t \in Threads, CountLoad(t) \/ CountStore(t) \/ CountAtOnce(t)
  PROVE  FaultInv'
<1>1. PICK from \in {"count", "store"}, to \in {"store", "entry"} : Moves(t, from, to)
  BY DEF CountLoad, CountStore, CountAtOnce
<1>2. UNCHANGED <<fault, memory_map, sem>>
  BY DEF CountLoad, CountStore, CountAtOnce
<1>3. TakesLock(t)
  <2>1. at[t] = from /\ at'[t] = to
    BY <1>1 DEF Moves, FaultInv, FaultTypes
  <2> QED
    BY <1>2, <2>1, NoReader DEF TakesLock, sem
<1>4. from \in Handler /\ to \in Handler /\ to \notin {"vma", "handle", "sleep", "dead"}
  BY DEF Handler
<1>5. UNCHANGED <<fault, memory_map, writer>>
  BY <1>2 DEF sem
<1> QED
  BY <1>1, <1>3, <1>4, <1>5, MovesInside

LEMMA NoAreaSound ==
  ASSUME FaultInv, NEW t \in Threads, KernelSpace(t) \/ PageTableBad(t) \/ InAtomic(t)
  PROVE  FaultInv'
<1>1. at[t] = "entry" /\ at[t] \in Handler /\ UNCHANGED <<readers, writer, vma, pte>>
  BY DEF KernelSpace, PageTableBad, InAtomic, Handler, sem, memory_map
<1>2. readers' = readers \ {t}
  BY <1>1, NoReader
<1>3. pte' \in {"none", "ro", "rw"} /\ (PageInArea => PageInArea') /\ UNCHANGED memory_map
  BY <1>1 DEF FaultInv, FaultTypes, PageInArea, memory_map
<1>4. CASE bad_area_nosemaphore(t)
  BY <1>1, <1>2, <1>3, <1>4, BadAreaSound
<1>5. CASE Ends(t, "synced") \/ Ends(t, "spurious")
  <2>1. PICK how \in {"synced", "spurious"} : Ends(t, how)
    BY <1>5
  <2> QED
    BY <1>1, <1>2, <1>3, <2>1, EndsSound
<1>6. CASE PageTableBad(t)
  <2>1. Ends(t, "oops") /\ fault[t].rsvd
    BY <1>6 DEF PageTableBad
  <2> QED
    BY <1>1, <1>2, <1>3, <2>1, EndsSound
<1> QED
  BY <1>4, <1>5, <1>6 DEF KernelSpace, InAtomic

LEMMA LockingSound ==
  ASSUME FaultInv, NEW t \in Threads, LockMap(t) \/ WakeWithLock(t)
  PROVE  FaultInv'
<1>1. at[t] \in {"entry", "sleep"} /\ at[t] \in Handler /\ UNCHANGED memory_map
  BY DEF LockMap, WakeWithLock, Moves, Handler
<1>2. at[t] \notin {"vma", "handle"} /\ readers = readers \ {t}
  BY <1>1, NoReader
<1>3. CASE \E from \in {"entry", "sleep"} : Moves(t, from, "vma") /\ writer = {} /\ Locked(t)
  <2>1. PICK from \in {"entry", "sleep"} : Moves(t, from, "vma") /\ writer = {} /\ Locked(t)
    BY <1>3
  <2>2. at'[t] = "vma"
    BY <2>1 DEF Moves, FaultInv, FaultTypes
  <2>3. TakesLock(t) /\ UNCHANGED <<fault, memory_map, writer>>
    BY <1>1, <2>1, <2>2 DEF TakesLock, Locked
  <2>4. from \in Handler /\ "vma" \in Handler
    BY DEF Handler
  <2> QED
    BY <2>1, <2>3, <2>4, MovesInside
<1>4. CASE bad_area_nosemaphore(t) /\ UNCHANGED sem
  <2>1. readers' = readers \ {t} /\ UNCHANGED <<writer, memory_map>>
    BY <1>1, <1>2, <1>4 DEF sem
  <2> QED
    BY <1>1, <1>4, <2>1, BadAreaSound
<1>5. CASE /\ Moves(t, "entry", "sleep") /\ UNCHANGED <<sem, fault>>
           /\ fault[t].user \/ fault[t].entry
  <2>1. at'[t] = "sleep"
    BY <1>5 DEF Moves, FaultInv, FaultTypes
  <2>2. TakesLock(t) /\ UNCHANGED <<fault, memory_map, writer>>
    BY <1>1, <1>2, <1>5, <2>1 DEF TakesLock, sem
  <2>3. "entry" \in Handler /\ "sleep" \in Handler
    BY DEF Handler
  <2> QED
    BY <1>5, <2>2, <2>3, MovesInside
<1> QED
  BY <1>3, <1>4, <1>5 DEF LockMap, WakeWithLock

LEMMA AreaSound ==
  ASSUME FaultInv, NEW t \in Threads, BadArea(t) \/ GoodArea(t)
  PROVE  FaultInv'
<1>1. at[t] = "vma" /\ at[t] \in Handler /\ UNCHANGED memory_map
  BY DEF BadArea, GoodArea, Handler
<1>2. CASE bad_area(t)
  <2>1. bad_area_nosemaphore(t) /\ readers' = readers \ {t} /\ UNCHANGED <<writer, memory_map>>
    BY <1>1, <1>2 DEF bad_area
  <2> QED
    BY <1>1, <2>1, BadAreaSound
<1>3. CASE /\ vma \in {"ro", "rw"} /\ ~access_error(t)
           /\ Moves(t, "vma", "handle") /\ UNCHANGED <<sem, fault>>
  <2>1. at'[t] = "handle"
    BY <1>3 DEF Moves, FaultInv, FaultTypes
  <2>2. t \in readers /\ writer = {}
    BY <1>1 DEF FaultInv, SemHeld
  <2>3. TakesLock(t) /\ UNCHANGED <<fault, memory_map, writer>>
    BY <1>1, <1>3, <2>1, <2>2 DEF TakesLock, sem
  <2>4. fault[t].write => vma = "rw"
    BY <1>3 DEF access_error
  <2>5. "vma" \in Handler /\ "handle" \in Handler
    BY DEF Handler
  <2> QED
    BY <1>3, <2>2, <2>3, <2>4, <2>5, MovesInside
<1> QED
  BY <1>2, <1>3 DEF BadArea, GoodArea

(* The area below grows to the address: nobody is putting a page in.       *)
LEMMA ExpandSound ==
  ASSUME FaultInv, NEW t \in Threads, ExpandStack(t)
  PROVE  FaultInv'
<1>1. vma = "below" /\ vma' = "rw" /\ UNCHANGED <<at, fault, readers, writer, pte>>
  BY DEF ExpandStack, sem
<1>2. FaultTypes' /\ SemHeld'
  BY <1>1 DEF FaultInv, FaultTypes, SemHeld, Writes
<1>3. \A r \in Threads : FaultKnown(r)'
  BY <1>1 DEF FaultInv, FaultKnown
<1>4. (Remapping' <=> Remapping) /\ PageInArea'
  BY <1>1 DEF FaultInv, Remapping, PageInArea
<1> QED
  BY <1>2, <1>3, <1>4 DEF FaultInv

LEMMA HandledSound ==
  ASSUME FaultInv, NEW t \in Threads, Handled(t) \/ mm_fault_error(t)
  PROVE  FaultInv'
<1>1. at[t] = "handle" /\ at[t] \in Handler /\ readers' = readers \ {t} /\ UNCHANGED <<writer, vma>>
  BY DEF Handled, mm_fault_error, Handler, memory_map
<1>2. CASE Handled(t)
  <2>1. Ends(t, "handled") /\ pte' = IF fault[t].write THEN "rw" ELSE IF pte = "none" THEN "ro" ELSE pte
    BY <1>2 DEF Handled
  <2>2. vma \in {"ro", "rw"} /\ (fault[t].write => vma = "rw") /\ pte \in {"none", "ro", "rw"}
    BY <1>1 DEF FaultInv, FaultKnown, FaultTypes
  <2>3. pte' \in {"none", "ro", "rw"} /\ (PageInArea => PageInArea')
    BY <1>1, <2>1, <2>2 DEF PageInArea
  <2> QED
    BY <1>1, <2>1, <2>3, EndsSound
<1>3. CASE mm_fault_error(t)
  <2>1. pte' \in {"none", "ro", "rw"} /\ (PageInArea => PageInArea')
    BY <1>3 DEF mm_fault_error, memory_map, FaultInv, FaultTypes, PageInArea
  <2>2. CASE Ends(t, "out of memory")
    BY <1>1, <2>1, <2>2, EndsSound
  <2>3. CASE fault[t].user /\ Ends(t, "SIGBUS")
    BY <1>1, <2>1, <2>3, EndsSound
  <2>4. CASE ~fault[t].user /\ no_context(t)
    <3>1. Ends(t, IF fault[t].entry THEN "fixed up" ELSE "oops")
      BY <2>4 DEF no_context
    <3> QED
      BY <1>1, <2>1, <2>4, <3>1, EndsSound
  <2> QED
    BY <1>3, <2>2, <2>3, <2>4 DEF mm_fault_error
<1> QED
  BY <1>2, <1>3

LEMMA FaultStepSound ==
  ASSUME FaultInv, [FaultNext]_faultVars
  PROVE  FaultInv'
<1>1. ASSUME NEW t \in Threads, FaultStep(t)
      PROVE  FaultInv'
  BY <1>1, AccessSound, MmapSound, CountingSound, NoAreaSound, LockingSound, AreaSound,
     ExpandSound, HandledSound DEF FaultStep
<1>2. CASE MapKernel \/ UNCHANGED faultVars
  <2>1. UNCHANGED <<at, fault, readers, writer, vma, pte>>
    BY <1>2 DEF MapKernel, faultVars, sem, memory_map
  <2> QED
    BY <2>1 DEF FaultInv, FaultTypes, SemHeld, Writes, FaultKnown, Remapping, PageInArea
<1> QED
  BY <1>1, <1>2 DEF FaultNext

(* A page is there only where there is an area, and writable only where    *)
(* the area is, though the area may change until the handler has mmap_sem  *)
(* and others fault meanwhile (exp6.c 1127-1208).                          *)
THEOREM PagesStayInArea == FaultSpec => []PagesFollowArea
<1>1. FaultInv /\ [FaultNext]_faultVars => FaultInv'
  BY FaultStepSound
<1>2. FaultInv => PagesFollowArea
  BY DEF FaultInv, Remapping, PageInArea, PagesFollowArea
<1> QED
  BY <1>1, <1>2, FaultStart, PTL DEF FaultSpec

-----------------------------------------------------------------------------
(* The counter.  A fault that is not counted yet is at "count" or "store". *)
(* What is in the counter, or was loaded from it, leaves room for all of   *)
(* them; without a second processor none is lost.                          *)

Counting == {t \in Threads : at[t] \in {"count", "store"}}

CountInv ==
    /\ IsFiniteSet(Counting)
    /\ smp \in BOOLEAN /\ faults \in Nat /\ pfcount \in Nat /\ loaded_pf \in [Threads -> Nat]
    /\ pfcount + Cardinality(Counting) <= faults
    /\ \A t \in Threads : at[t] = "store" => smp /\ loaded_pf[t] + Cardinality(Counting) <= faults
    /\ ~smp => pfcount + Cardinality(Counting) = faults

LEMMA CountStart ==
  FaultInit => CountInv
<1> SUFFICES ASSUME FaultInit
             PROVE  CountInv
  OBVIOUS
<1>1. Counting = {}
  BY DEF FaultInit, Counting
<1>2. IsFiniteSet(Counting) /\ Cardinality(Counting) = 0
  BY <1>1, FS_EmptySet
<1> QED
  BY <1>2 DEF FaultInit, CountInv

(* A step of a thread that neither begins to count nor counts.             *)
LEMMA CountKept ==
  ASSUME CountInv, Counting' = Counting, UNCHANGED counter,
         \A t \in Threads : at'[t] = "store" => at[t] = "store"
  PROVE  CountInv'
BY DEF CountInv, counter

LEMMA OtherPlaces ==
  ASSUME FaultInv, NEW t \in Threads, NEW to, to \notin {"count", "store"},
         at' = [at EXCEPT ![t] = to], at[t] \notin {"count", "store"}
  PROVE  Counting' = Counting /\ \A r \in Threads : at'[r] = "store" => at[r] = "store"
BY DEF FaultInv, FaultTypes, Counting

LEMMA EndsElsewhere ==
  ASSUME FaultInv, NEW t \in Threads, NEW how, Ends(t, how), at[t] \notin {"count", "store"}
  PROVE  Counting' = Counting /\ \A r \in Threads : at'[r] = "store" => at[r] = "store"
<1>1. fault[t].back \in {"run", "mmap", "zap"}
  BY DEF FaultInv, FaultTypes, Faults
<1>2. PICK to \in {"dead", "run", "mmap", "zap"} : at' = [at EXCEPT ![t] = to]
  BY <1>1 DEF Ends
<1> QED
  BY <1>2, OtherPlaces

LEMMA AreaGoneElsewhere ==
  ASSUME FaultInv, NEW t \in Threads, bad_area_nosemaphore(t), at[t] \notin {"count", "store"}
  PROVE  Counting' = Counting /\ \A r \in Threads : at'[r] = "store" => at[r] = "store"
BY EndsElsewhere DEF bad_area_nosemaphore, no_context

LEMMA AccessCounts ==
  ASSUME FaultInv, CountInv, NEW t \in Threads, NEW f \in Faults, Access(t, f)
  PROVE  CountInv'
<1>1. at[t] \notin {"count", "store"} /\ at' = [at EXCEPT ![t] = "count"] /\ faults' = faults + 1
      /\ UNCHANGED <<smp, pfcount, loaded_pf>>
  BY DEF Access, Faults
<1>2. Counting' = Counting \cup {t} /\ t \notin Counting
  BY <1>1 DEF Counting, FaultInv, FaultTypes
<1>3. /\ IsFiniteSet(Counting') /\ Cardinality(Counting') = Cardinality(Counting) + 1
      /\ Cardinality(Counting) \in Nat
  BY <1>2, FS_AddElement, FS_CardinalityType DEF CountInv
<1>4. \A r \in Threads : at'[r] = "store" => at[r] = "store"
  BY <1>1 DEF FaultInv, FaultTypes
<1> QED
  BY <1>1, <1>3, <1>4 DEF CountInv

LEMMA LoadCounts ==
  ASSUME FaultInv, CountInv, NEW t \in Threads, CountLoad(t)
  PROVE  CountInv'
<1>1. /\ smp /\ at[t] = "count" /\ at' = [at EXCEPT ![t] = "store"]
      /\ loaded_pf' = [loaded_pf EXCEPT ![t] = pfcount] /\ UNCHANGED <<smp, pfcount, faults>>
  BY DEF CountLoad, Moves
<1>2. Counting' = Counting
  BY <1>1 DEF Counting, FaultInv, FaultTypes
<1>3. \A r \in Threads : r # t => at'[r] = at[r] /\ loaded_pf'[r] = loaded_pf[r]
  BY <1>1 DEF FaultInv, FaultTypes, CountInv
<1>4. loaded_pf'[t] = pfcount
  BY <1>1 DEF CountInv
<1> QED
  BY <1>1, <1>2, <1>3, <1>4 DEF CountInv

(* One thread leaves the counting with a value that has room.              *)
LEMMA OneCounted ==
  ASSUME FaultInv, CountInv, NEW t \in Counting, at' = [at EXCEPT ![t] = "entry"]
  PROVE  /\ IsFiniteSet(Counting') /\ Cardinality(Counting') = Cardinality(Counting) - 1
         /\ Cardinality(Counting) \in Nat /\ Cardinality(Counting') \in Nat
         /\ \A r \in Threads : at'[r] = "store" => at[r] = "store" /\ r # t
<1>1. Counting' = Counting \ {t}
  BY DEF Counting, FaultInv, FaultTypes
<1>2. IsFiniteSet(Counting') /\ Cardinality(Counting') = Cardinality(Counting) - 1
  BY <1>1, FS_RemoveElement DEF CountInv
<1>3. \A r \in Threads : at'[r] = "store" => at[r] = "store" /\ r # t
  BY DEF Counting, FaultInv, FaultTypes
<1> QED
  BY <1>2, <1>3, FS_CardinalityType DEF CountInv

LEMMA StoreCounts ==
  ASSUME FaultInv, CountInv, NEW t \in Threads, CountStore(t)
  PROVE  CountInv'
<1>1. /\ at[t] = "store" /\ at' = [at EXCEPT ![t] = "entry"] /\ pfcount' = loaded_pf[t] + 1
      /\ loaded_pf' = [loaded_pf EXCEPT ![t] = 0] /\ UNCHANGED <<smp, faults>>
  BY DEF CountStore, Moves
<1>2. t \in Counting
  BY <1>1 DEF Counting
<1>3. /\ IsFiniteSet(Counting') /\ Cardinality(Counting') = Cardinality(Counting) - 1
      /\ Cardinality(Counting) \in Nat /\ Cardinality(Counting') \in Nat
      /\ \A r \in Threads : at'[r] = "store" => at[r] = "store" /\ r # t
  BY <1>1, <1>2, OneCounted
<1>4. loaded_pf' \in [Threads -> Nat] /\ \A r \in Threads : r # t => loaded_pf'[r] = loaded_pf[r]
  BY <1>1 DEF CountInv
<1>5. smp /\ loaded_pf[t] \in Nat /\ loaded_pf[t] + Cardinality(Counting) <= faults
  BY <1>1 DEF CountInv
<1>6. pfcount' \in Nat /\ pfcount' + Cardinality(Counting') <= faults'
  BY <1>1, <1>3, <1>5 DEF CountInv
<1>7. \A r \in Threads : at'[r] = "store" =>
        smp' /\ loaded_pf'[r] + Cardinality(Counting') <= faults'
  BY <1>1, <1>3, <1>4, <1>5 DEF CountInv
<1> QED
  BY <1>1, <1>3, <1>4, <1>5, <1>6, <1>7 DEF CountInv

LEMMA AtOnceCounts ==
  ASSUME FaultInv, CountInv, NEW t \in Threads, CountAtOnce(t)
  PROVE  CountInv'
<1>1. /\ ~smp /\ at[t] = "count" /\ at' = [at EXCEPT ![t] = "entry"] /\ pfcount' = pfcount + 1
      /\ UNCHANGED <<smp, loaded_pf, faults>>
  BY DEF CountAtOnce, Moves
<1>2. t \in Counting
  BY <1>1 DEF Counting
<1>3. /\ IsFiniteSet(Counting') /\ Cardinality(Counting') = Cardinality(Counting) - 1
      /\ Cardinality(Counting) \in Nat /\ Cardinality(Counting') \in Nat
      /\ \A r \in Threads : at'[r] = "store" => at[r] = "store" /\ r # t
  BY <1>1, <1>2, OneCounted
<1> QED
  BY <1>1, <1>3 DEF CountInv

(* Everybody else neither begins to count nor counts.                      *)
LEMMA OthersDoNotCount ==
  ASSUME FaultInv, NEW t \in Threads,
         \/ LockForMmap(t) \/ ChangeArea(t) \/ Zap(t)
         \/ KernelSpace(t) \/ PageTableBad(t) \/ InAtomic(t) \/ LockMap(t) \/ WakeWithLock(t)
         \/ BadArea(t) \/ ExpandStack(t) \/ GoodArea(t) \/ Handled(t) \/ mm_fault_error(t)
  PROVE  /\ Counting' = Counting /\ UNCHANGED counter
         /\ \A r \in Threads : at'[r] = "store" => at[r] = "store"
<1>1. at[t] \notin {"count", "store"} \/ UNCHANGED at
  BY DEF LockForMmap, ChangeArea, Zap, KernelSpace, PageTableBad, InAtomic, LockMap,
         WakeWithLock, BadArea, ExpandStack, GoodArea, Handled, mm_fault_error, Moves
<1>2. CASE UNCHANGED at /\ UNCHANGED counter
  BY <1>2 DEF Counting
<1>3. CASE LockForMmap(t) \/ ChangeArea(t) \/ Zap(t) \/ WakeWithLock(t)
  <2>1. PICK to \in {"mmap", "zap", "run", "vma"} : at' = [at EXCEPT ![t] = to]
    BY <1>3 DEF LockForMmap, ChangeArea, Zap, WakeWithLock, Moves
  <2>2. at[t] \notin {"count", "store"} /\ UNCHANGED counter
    BY <1>3 DEF LockForMmap, ChangeArea, Zap, WakeWithLock, Moves
  <2> QED
    BY <2>1, <2>2, OtherPlaces
<1>4. CASE ExpandStack(t)
  BY <1>2, <1>4 DEF ExpandStack
<1>5. CASE \/ KernelSpace(t) \/ PageTableBad(t) \/ InAtomic(t) \/ Handled(t) \/ BadArea(t)
           \/ mm_fault_error(t)
  <2>1. at[t] \notin {"count", "store"} /\ UNCHANGED counter
    BY <1>5 DEF KernelSpace, PageTableBad, InAtomic, Handled, BadArea, mm_fault_error
  <2>2. CASE bad_area_nosemaphore(t)
    BY <2>1, <2>2, AreaGoneElsewhere
  <2>3. CASE \E how : Ends(t, how)
    BY <2>1, <2>3, EndsElsewhere
  <2>4. bad_area_nosemaphore(t) \/ \E how : Ends(t, how)
    BY <1>5 DEF KernelSpace, PageTableBad, InAtomic, Handled, BadArea, bad_area, mm_fault_error,
                no_context
  <2> QED
    BY <2>2, <2>3, <2>4, <2>1
<1>6. CASE LockMap(t) \/ GoodArea(t)
  <2>1. at[t] \notin {"count", "store"} /\ UNCHANGED counter
    BY <1>6 DEF LockMap, GoodArea
  <2>2. CASE bad_area_nosemaphore(t)
    BY <2>1, <2>2, AreaGoneElsewhere
  <2>3. CASE \E to \in {"vma", "sleep", "handle"} : at' = [at EXCEPT ![t] = to]
    <3>1. PICK to \in {"vma", "sleep", "handle"} : at' = [at EXCEPT ![t] = to]
      BY <2>3
    <3> QED
      BY <2>1, <3>1, OtherPlaces
  <2>4. \/ bad_area_nosemaphore(t)
        \/ \E to \in {"vma", "sleep", "handle"} : at' = [at EXCEPT ![t] = to]
    BY <1>6 DEF LockMap, GoodArea, bad_area, Moves
  <2> QED
    BY <2>2, <2>3, <2>4, <2>1
<1> QED
  BY <1>3, <1>4, <1>5, <1>6

LEMMA CountStepSound ==
  ASSUME FaultInv, CountInv, [FaultNext]_faultVars
  PROVE  CountInv'
<1>1. ASSUME NEW t \in Threads, FaultStep(t)
      PROVE  CountInv'
  <2>1. CASE \E f \in Faults : Access(t, f)
    BY <2>1, AccessCounts
  <2>2. CASE CountLoad(t) \/ CountStore(t) \/ CountAtOnce(t)
    BY <2>2, LoadCounts, StoreCounts, AtOnceCounts
  <2>3. CASE \/ LockForMmap(t) \/ ChangeArea(t) \/ Zap(t)
             \/ KernelSpace(t) \/ PageTableBad(t) \/ InAtomic(t) \/ LockMap(t) \/ WakeWithLock(t)
             \/ BadArea(t) \/ ExpandStack(t) \/ GoodArea(t) \/ Handled(t) \/ mm_fault_error(t)
    BY <2>3, OthersDoNotCount, CountKept
  <2> QED
    BY <1>1, <2>1, <2>2, <2>3 DEF FaultStep
<1>2. CASE MapKernel \/ UNCHANGED faultVars
  <2>1. UNCHANGED at /\ UNCHANGED counter
    BY <1>2 DEF MapKernel, faultVars, counter
  <2>2. Counting' = Counting
    BY <2>1 DEF Counting
  <2> QED
    BY <2>1, <2>2, CountKept
<1> QED
  BY <1>1, <1>2 DEF FaultNext

(* Every way out of the handler gives mmap_sem back, nobody sleeps for a   *)
(* lock it holds, only a corrupted page table makes the kernel oops for a  *)
(* program in user mode, and pfcount never exceeds the faults, nor misses  *)
(* one on a uniprocessor (exp6.c 1012-1208).                               *)
THEOREM HandlerIsSound == FaultSpec => []FaultSound
<1>1. FaultInv /\ [FaultNext]_faultVars => FaultInv'
  BY FaultStepSound
<1>2. FaultInv /\ CountInv /\ [FaultNext]_faultVars => CountInv'
  BY CountStepSound
<1>3. FaultInv /\ CountInv => FaultSound
  <2> SUFFICES ASSUME FaultInv, CountInv
               PROVE  FaultSound
    OBVIOUS
  <2>1. readers = {t \in Threads : at[t] \in {"vma", "handle"}}
    BY DEF FaultInv, SemHeld
  <2>2. \A t \in Threads : at[t] = "sleep" => t \notin writer
    BY DEF FaultInv, SemHeld, FaultKnown, Writes, Mapping, Faults, FaultTypes
  <2>3. \A t \in Threads : at[t] = "dead" => ~fault[t].user \/ fault[t].rsvd
    BY DEF FaultInv, FaultKnown
  <2>4. Cardinality(Counting) \in Nat
    BY FS_CardinalityType DEF CountInv
  <2>5. pfcount <= faults
    BY <2>4 DEF CountInv
  <2>6. ASSUME ~smp
        PROVE  pfcount = faults - Cardinality({t \in Threads : at[t] = "count"})
    <3>1. Counting = {t \in Threads : at[t] = "count"}
      BY <2>6 DEF Counting, CountInv
    <3> QED
      BY <2>4, <2>6, <3>1 DEF CountInv
  <2> QED
    BY <2>1, <2>2, <2>3, <2>5, <2>6 DEF FaultSound
<1> QED
  BY <1>1, <1>2, <1>3, FaultStart, CountStart, PTL DEF FaultSpec
=============================================================================
