------------------------- MODULE ScullAccessProofs -------------------------
(***************************************************************************)
(* Theorems of ScullAccess, for every finite set of processes and any      *)
(* users and terminals.  The four devices share nothing but the processes: *)
(* each has an invariant of its own, beside the types and AccessFiles,     *)
(* which says who has a file at all.                                       *)
(***************************************************************************)
EXTENDS ScullAccess, FiniteSetTheorems, TLAPS

Places == {"closed", "undo", "wait", "test", "asleep", "retry", "wake", "alloc",
           "trim", "open", "call"}

Devices == {<<>>, Single, ByUser, Waited} \cup {Clone(t, n) : t \in Ttys, n \in Nat}

AccessTypes ==
    /\ scull_s_available \in Int
    /\ scull_u_count \in Int /\ scull_u_owner \in Users
    /\ scull_w_count \in Int /\ scull_w_owner \in Users
    /\ scull_w_wait \subseteq Procs
    /\ scull_c_lock \in Procs \cup {None}
    /\ scull_c_list \in [Ttys -> Nat]
    /\ at \in [Procs -> Places]
    /\ dev \in [Procs -> Devices]

(* A process has a file exactly between the end of its open and its close. *)
AccessFiles == \A p \in Procs : dev[p] # <<>> <=> at[p] \in {"trim", "open", "call"}

(* The devices are all different, and none is the absence of a file.       *)
LEMMA DevicesDiffer ==
  /\ <<>> # Single /\ <<>> # ByUser /\ <<>> # Waited
  /\ Single # ByUser /\ Single # Waited /\ ByUser # Waited
  /\ \A t, n : Clone(t, n) \notin {<<>>, Single, ByUser, Waited}
  BY DEF Single, ByUser, Waited, Clone

LEMMA ClonesDiffer ==
  \A t, n, u, m : Clone(t, n) = Clone(u, m) => t = u /\ n = m
  BY DEF Clone

LEMMA OnlyClonesArePrivate ==
  /\ \A t, n : Clone(t, n)[1] = "priv"
  /\ Single[1] # "priv" /\ ByUser[1] # "priv" /\ Waited[1] # "priv"
  BY DEF Single, ByUser, Waited, Clone

-----------------------------------------------------------------------------
(* Types.                                                                  *)

LEMMA AccessTypesStart == AccessInit => AccessTypes /\ AccessFiles
  BY UsersAssumption DEF AccessInit, AccessTypes, AccessFiles, Places, Devices

LEMMA OpenedTypes ==
  ASSUME AccessTypes, AccessFiles, NEW p \in Procs, NEW from, NEW d \in Devices \ {<<>>},
         OpenedFrom(p, from, d)
  PROVE  /\ at' \in [Procs -> Places] /\ dev' \in [Procs -> Devices]
         /\ AccessFiles'
  BY DEF AccessTypes, AccessFiles, OpenedFrom, Go, Places

LEMMA ClosingTypes ==
  ASSUME AccessTypes, AccessFiles, NEW p \in Procs, NEW d, NEW to \in {"closed", "wake"},
         Closing(p, d, to)
  PROVE  /\ at' \in [Procs -> Places] /\ dev' \in [Procs -> Devices]
         /\ AccessFiles'
  BY DEF AccessTypes, AccessFiles, Closing, Go, Places, Devices

(* Moves between places without a file.                                    *)
Outside == {"closed", "undo", "wait", "test", "asleep", "retry", "wake", "alloc"}

LEMMA GoTypes ==
  ASSUME AccessTypes, AccessFiles, NEW p \in Procs, NEW from \in Outside, NEW to \in Outside,
         Go(p, from, to), UNCHANGED dev
  PROVE  /\ at' \in [Procs -> Places] /\ dev' \in [Procs -> Devices]
         /\ AccessFiles'
  BY DEF AccessTypes, AccessFiles, Go, Places, Outside

LEMMA SingleTypes ==
  ASSUME AccessTypes, AccessFiles, NEW p \in Procs,
         scull_s_open(p) \/ scull_s_undo(p) \/ scull_s_release(p)
  PROVE  (AccessTypes /\ AccessFiles)'
<1> Single \in Devices \ {<<>>} /\ {"closed", "undo"} \subseteq Outside
  BY DevicesDiffer DEF Devices, Outside
<1>1. /\ at' \in [Procs -> Places] /\ dev' \in [Procs -> Devices]
      /\ AccessFiles'
  BY OpenedTypes, ClosingTypes, GoTypes DEF scull_s_open, scull_s_undo, scull_s_release
<1> QED
  BY <1>1 DEF AccessTypes, scull_s_open, scull_s_undo, scull_s_release, user, wuser, clones

LEMMA UserTypes ==
  ASSUME AccessTypes, AccessFiles, NEW p \in Procs, scull_u_open(p) \/ scull_u_release(p)
  PROVE  (AccessTypes /\ AccessFiles)'
<1> ByUser \in Devices \ {<<>>}
  BY DevicesDiffer DEF Devices
<1>1. /\ at' \in [Procs -> Places] /\ dev' \in [Procs -> Devices]
      /\ AccessFiles'
  BY OpenedTypes, ClosingTypes DEF scull_u_open, scull_u_release
<1> QED
  BY <1>1, UsersAssumption DEF AccessTypes, scull_u_open, scull_u_release, single, wuser, clones

LEMMA WaitTypes ==
  ASSUME AccessTypes, AccessFiles, NEW p \in Procs,
         \/ WaitPrepare(p) \/ WaitTest(p) \/ WaitAgain(p) \/ WaitInterrupted(p)
         \/ WakeWaiters(p)
  PROVE  (AccessTypes /\ AccessFiles)'
<1> USE DEF AccessTypes, single, user, clones, Outside
<1>1. CASE WaitPrepare(p)
  BY <1>1, GoTypes DEF WaitPrepare
<1>2. CASE WaitTest(p)
  BY <1>2, GoTypes DEF WaitTest
<1>3. CASE WaitAgain(p)
  BY <1>3, GoTypes DEF WaitAgain, wuser
<1>4. CASE WaitInterrupted(p)
  <2>1. \E from \in {"test", "asleep"}, to \in {"retry", "closed"} : Go(p, from, to)
    BY <1>4 DEF WaitInterrupted, Go
  <2> QED
    BY <1>4, <2>1, GoTypes DEF WaitInterrupted
<1>5. CASE WakeWaiters(p)
  BY <1>5, GoTypes DEF WakeWaiters
<1> QED
  BY <1>1, <1>2, <1>3, <1>4, <1>5

LEMMA WaitedTypes ==
  ASSUME AccessTypes, AccessFiles, NEW p \in Procs,
         \/ \E from \in {"closed", "retry"} : scull_w_open(p, from)
         \/ scull_w_release(p)
  PROVE  (AccessTypes /\ AccessFiles)'
<1> Waited \in Devices \ {<<>>} /\ {"closed", "retry", "wait"} \subseteq Outside
  BY DevicesDiffer DEF Devices, Outside
<1>1. /\ at' \in [Procs -> Places] /\ dev' \in [Procs -> Devices]
      /\ AccessFiles'
  BY OpenedTypes, ClosingTypes, GoTypes DEF scull_w_open, scull_w_release
<1> QED
  BY <1>1, UsersAssumption DEF AccessTypes, scull_w_open, scull_w_release, single, user, clones

LEMMA CloneTypes ==
  ASSUME AccessTypes, AccessFiles, NEW p \in Procs, Tty[p] # NoTty,
         scull_c_open(p) \/ scull_c_lookfor_device(p)
  PROVE  (AccessTypes /\ AccessFiles)'
<1> DEFINE t == Tty[p]
<1>1. t \in Ttys
  BY TtysAssumption
<1>2. /\ {"closed", "alloc"} \subseteq Outside
      /\ \A n \in Nat : Clone(t, n) \in Devices \ {<<>>}
  BY <1>1, DevicesDiffer DEF Devices, Outside
<1>3. scull_c_list[t] \in Nat /\ scull_c_list[t] + 1 \in Nat
  BY <1>1 DEF AccessTypes
<1>4. /\ at' \in [Procs -> Places] /\ dev' \in [Procs -> Devices]
      /\ AccessFiles'
  BY <1>2, <1>3, OpenedTypes, GoTypes DEF scull_c_open, scull_c_lookfor_device
<1> QED
  BY <1>1, <1>3, <1>4
     DEF AccessTypes, scull_c_open, scull_c_lookfor_device, single, user, wuser

LEMMA CallTypes ==
  ASSUME AccessTypes, AccessFiles, NEW p \in Procs,
         Trimmed(p) \/ CallBegin(p) \/ CallEnd(p) \/ scull_c_release(p)
  PROVE  (AccessTypes /\ AccessFiles)'
<1>1. CASE Trimmed(p) \/ CallBegin(p) \/ CallEnd(p)
  BY <1>1 DEF Trimmed, CallBegin, CallEnd, Go, AccessTypes, AccessFiles, Places,
              single, user, wuser, clones
<1>2. CASE scull_c_release(p)
  BY <1>2, ClosingTypes DEF scull_c_release, AccessTypes, single, user, wuser, clones
<1> QED
  BY <1>1, <1>2

-----------------------------------------------------------------------------
(* Who has a device open, as its counter counts them.                      *)

LEMMA UsersAreFinite ==
  ASSUME NEW d
  PROVE  /\ IsFiniteSet(Users_of(d)) /\ Cardinality(Users_of(d)) \in Nat
         /\ Cardinality(Users_of(d)) = 0 <=> Users_of(d) = {}
  BY ProcsAssumption, FS_Subset, FS_CardinalityType, FS_EmptySet DEF Users_of

LEMMA OpeningAddsUser ==
  ASSUME AccessTypes, NEW p \in Procs, NEW d, dev[p] # d,
         dev' = [dev EXCEPT ![p] = d]
  PROVE  /\ Users_of(d)' = Users_of(d) \cup {p}
         /\ Cardinality(Users_of(d)') = Cardinality(Users_of(d)) + 1
<1>1. Users_of(d)' = Users_of(d) \cup {p} /\ p \notin Users_of(d)
  BY DEF AccessTypes, Users_of
<1> QED
  BY <1>1, UsersAreFinite, FS_AddElement

LEMMA ClosingRemovesUser ==
  ASSUME AccessTypes, NEW p \in Procs, NEW d, dev[p] = d, d # <<>>,
         dev' = [dev EXCEPT ![p] = <<>>]
  PROVE  /\ Users_of(d)' = Users_of(d) \ {p}
         /\ p \in Users_of(d)
         /\ Cardinality(Users_of(d)') = Cardinality(Users_of(d)) - 1
<1>1. Users_of(d)' = Users_of(d) \ {p} /\ p \in Users_of(d)
  BY DEF AccessTypes, Users_of
<1> QED
  BY <1>1, UsersAreFinite, FS_RemoveElement

LEMMA OtherUsersStay ==
  ASSUME AccessTypes, NEW p \in Procs, NEW d, NEW e, dev[p] # d, e # d,
         UNCHANGED dev \/ dev' = [dev EXCEPT ![p] = e]
  PROVE  Users_of(d)' = Users_of(d)
  BY DEF AccessTypes, Users_of

-----------------------------------------------------------------------------
(* What the steps of one device do to the others: nothing.                 *)

SingleStep(p) == scull_s_open(p) \/ scull_s_undo(p) \/ scull_s_release(p)
UserStep(p) == scull_u_open(p) \/ scull_u_release(p)
TakeStep(p) == (\E from \in {"closed", "retry"} : scull_w_open(p, from)) \/ scull_w_release(p)
WaitStep(p) ==
    \/ WaitPrepare(p) \/ WaitTest(p) \/ WaitAgain(p) \/ WaitInterrupted(p)
    \/ WakeWaiters(p)
CloneStep(p) == scull_c_open(p) \/ scull_c_lookfor_device(p) \/ scull_c_release(p)
CallStep(p) == Trimmed(p) \/ CallBegin(p) \/ CallEnd(p)

LEMMA StepsOfDevices ==
  ASSUME NEW p \in Procs, AccessStep(p)
  PROVE  SingleStep(p) \/ UserStep(p) \/ TakeStep(p) \/ WaitStep(p) \/ CloneStep(p) \/ CallStep(p)
  BY DEF AccessStep, SingleStep, UserStep, TakeStep, WaitStep, CloneStep, CallStep

LEMMA OpenedFile ==
  ASSUME AccessFiles, NEW p \in Procs, NEW from \in {"closed", "retry", "alloc"}, NEW d,
         OpenedFrom(p, from, d)
  PROVE  dev[p] = <<>> /\ dev' = [dev EXCEPT ![p] = d]
  BY DEF AccessFiles, OpenedFrom, Go

LEMMA ClosedFile ==
  ASSUME NEW p \in Procs, NEW d, NEW to, Closing(p, d, to)
  PROVE  dev[p] = d /\ dev' = [dev EXCEPT ![p] = <<>>]
  BY DEF Closing

(* The file of a step is of the device the step is about.                  *)
(* The file of a step is not one of the devices ds, before or after.       *)
FileAvoids(p, ds) ==
    \/ UNCHANGED dev
    \/ /\ dev[p] \notin ds
       /\ \E e : e \notin ds /\ dev' = [dev EXCEPT ![p] = e]

LEMMA StepsAndFiles ==
  ASSUME AccessTypes, AccessFiles, NEW p \in Procs
  PROVE  /\ WaitStep(p) \/ CallStep(p) => UNCHANGED dev
         /\ SingleStep(p) => FileAvoids(p, {ByUser, Waited})
         /\ UserStep(p) => FileAvoids(p, {Single, Waited})
         /\ TakeStep(p) => FileAvoids(p, {Single, ByUser})
         /\ CloneStep(p) => FileAvoids(p, {Single, ByUser, Waited})
<1>1. WaitStep(p) \/ CallStep(p) => UNCHANGED dev
  BY DEF WaitStep, WaitPrepare, WaitTest, WaitAgain, WaitInterrupted, WakeWaiters,
         CallStep, Trimmed, CallBegin, CallEnd
<1> USE OpenedFile, ClosedFile, DevicesDiffer DEF FileAvoids
<1>2. SingleStep(p) => FileAvoids(p, {ByUser, Waited})
  BY DEF SingleStep, scull_s_open, scull_s_undo, scull_s_release
<1>3. UserStep(p) => FileAvoids(p, {Single, Waited})
  BY DEF UserStep, scull_u_open, scull_u_release
<1>4. TakeStep(p) => FileAvoids(p, {Single, ByUser})
  <2>1. ASSUME NEW from \in {"closed", "retry"}, scull_w_open(p, from)
        PROVE  FileAvoids(p, {Single, ByUser})
    <3>1. OpenedFrom(p, from, Waited) \/ UNCHANGED dev
      BY <2>1 DEF scull_w_open
    <3>2. OpenedFrom(p, from, Waited) => dev[p] = <<>> /\ dev' = [dev EXCEPT ![p] = Waited]
      BY OpenedFile
    <3> QED
      BY <3>1, <3>2
  <2>2. scull_w_release(p) => FileAvoids(p, {Single, ByUser})
    BY DEF scull_w_release
  <2> QED
    BY <2>1, <2>2 DEF TakeStep
<1>5. CloneStep(p) => FileAvoids(p, {Single, ByUser, Waited})
  <2>1. scull_c_open(p) => FileAvoids(p, {Single, ByUser, Waited})
    <3>1. scull_c_open(p) => (\E t, n : OpenedFrom(p, "closed", Clone(t, n))) \/ UNCHANGED dev
      BY DEF scull_c_open
    <3>2. \A t, n : OpenedFrom(p, "closed", Clone(t, n)) =>
                         dev[p] = <<>> /\ dev' = [dev EXCEPT ![p] = Clone(t, n)]
      BY OpenedFile
    <3> QED
      BY <3>1, <3>2
  <2>2. scull_c_lookfor_device(p) => FileAvoids(p, {Single, ByUser, Waited})
    BY DEF scull_c_lookfor_device
  <2>3. scull_c_release(p) => FileAvoids(p, {Single, ByUser, Waited})
    <3>1. scull_c_release(p) => \E t, n : Closing(p, Clone(t, n), "closed")
      BY DEF scull_c_release
    <3> QED
      BY <3>1
  <2> QED
    BY <2>1, <2>2, <2>3 DEF CloneStep
<1> QED
  BY <1>1, <1>2, <1>3, <1>4, <1>5

LEMMA OthersLeaveSingle ==
  ASSUME AccessTypes, AccessFiles, NEW p \in Procs,
         UserStep(p) \/ TakeStep(p) \/ WaitStep(p) \/ CloneStep(p) \/ CallStep(p)
  PROVE  UNCHANGED scull_s_available /\ Users_of(Single)' = Users_of(Single)
<1>1. FileAvoids(p, {Single}) => Users_of(Single)' = Users_of(Single)
  BY DEF FileAvoids, AccessTypes, Users_of
<1>2. FileAvoids(p, {Single})
  BY StepsAndFiles DEF FileAvoids
<1> QED
  BY <1>1, <1>2 DEF UserStep, scull_u_open, scull_u_release, TakeStep, scull_w_open, scull_w_release,
              WaitStep, WaitPrepare, WaitTest, WaitAgain, WaitInterrupted, WakeWaiters,
              CloneStep, scull_c_open, scull_c_lookfor_device, scull_c_release,
              CallStep, Trimmed, CallBegin, CallEnd, single

LEMMA OthersLeaveUser ==
  ASSUME AccessTypes, AccessFiles, NEW p \in Procs,
         SingleStep(p) \/ TakeStep(p) \/ WaitStep(p) \/ CloneStep(p) \/ CallStep(p)
  PROVE  UNCHANGED user /\ Users_of(ByUser)' = Users_of(ByUser)
<1>1. FileAvoids(p, {ByUser}) => Users_of(ByUser)' = Users_of(ByUser)
  BY DEF FileAvoids, AccessTypes, Users_of
<1>2. FileAvoids(p, {ByUser})
  BY StepsAndFiles DEF FileAvoids
<1> QED
  BY <1>1, <1>2 DEF SingleStep, scull_s_open, scull_s_undo, scull_s_release,
              TakeStep, scull_w_open, scull_w_release,
              WaitStep, WaitPrepare, WaitTest, WaitAgain, WaitInterrupted, WakeWaiters,
              CloneStep, scull_c_open, scull_c_lookfor_device, scull_c_release,
              CallStep, Trimmed, CallBegin, CallEnd

LEMMA OthersLeaveWaited ==
  ASSUME AccessTypes, AccessFiles, NEW p \in Procs,
         SingleStep(p) \/ UserStep(p) \/ CloneStep(p) \/ CallStep(p)
  PROVE  UNCHANGED wuser /\ Users_of(Waited)' = Users_of(Waited)
<1>1. FileAvoids(p, {Waited}) => Users_of(Waited)' = Users_of(Waited)
  BY DEF FileAvoids, AccessTypes, Users_of
<1>2. FileAvoids(p, {Waited})
  BY StepsAndFiles DEF FileAvoids
<1> QED
  BY <1>1, <1>2 DEF SingleStep, scull_s_open, scull_s_undo, scull_s_release,
              UserStep, scull_u_open, scull_u_release,
              CloneStep, scull_c_open, scull_c_lookfor_device, scull_c_release,
              CallStep, Trimmed, CallBegin, CallEnd

-----------------------------------------------------------------------------
(* scullsingle.                                                            *)

Undoing == {p \in Procs : at[p] = "undo"}

LEMMA UndoingIsFinite == IsFiniteSet(Undoing) /\ Cardinality(Undoing) \in Nat
  BY ProcsAssumption, FS_Subset, FS_CardinalityType DEF Undoing

(* The place of a process that neither comes to nor leaves the undo.       *)
LEMMA UndoingStays ==
  ASSUME AccessTypes, NEW p \in Procs, NEW to, at[p] # "undo", to # "undo",
         at' = [at EXCEPT ![p] = to]
  PROVE  Undoing' = Undoing
  BY DEF AccessTypes, Undoing

LEMMA OthersLeaveUndoing ==
  ASSUME AccessTypes, NEW p \in Procs,
         UserStep(p) \/ TakeStep(p) \/ WaitStep(p) \/ CloneStep(p) \/ CallStep(p)
  PROVE  Undoing' = Undoing
<1> DEFINE Leaves == at[p] # "undo" /\ \E to : to # "undo" /\ at' = [at EXCEPT ![p] = to]
<1> USE DEF OpenedFrom, Closing, Go
<1>1. UserStep(p) => Leaves
  BY DEF UserStep, scull_u_open, scull_u_release
<1>2. TakeStep(p) => Leaves
  BY DEF TakeStep, scull_w_open, scull_w_release
<1>3. WaitStep(p) => Leaves
  BY DEF WaitStep, WaitPrepare, WaitTest, WaitAgain, WaitInterrupted, WakeWaiters
<1>4. CloneStep(p) => Leaves
  BY DEF CloneStep, scull_c_open, scull_c_lookfor_device, scull_c_release
<1>5. CallStep(p) => Leaves
  BY DEF CallStep, Trimmed, CallBegin, CallEnd
<1> QED
  BY <1>1, <1>2, <1>3, <1>4, <1>5, UndoingStays

LEMMA SingleOpenKeeps ==
  ASSUME AccessTypes, AccessFiles, SingleOpen, NEW p \in Procs, AccessStep(p)
  PROVE  SingleOpen'
<1> DEFINE U == Cardinality(Users_of(Single))
           N == Cardinality(Undoing)
<1>1. /\ scull_s_available = 1 - U - N /\ \A q, r \in Users_of(Single) : q = r
      /\ U \in Nat /\ N \in Nat /\ (U = 0 <=> Users_of(Single) = {})
  BY UsersAreFinite, UndoingIsFinite DEF SingleOpen, Undoing
<1>2. SUFFICES /\ scull_s_available' = 1 - U' - N'
               /\ \A q, r \in Users_of(Single)' : q = r
  BY DEF SingleOpen, Undoing
<1>3. CASE scull_s_open(p) /\ scull_s_available = 1
  <2>1. dev[p] = <<>> /\ dev' = [dev EXCEPT ![p] = Single]
    BY <1>3, OpenedFile DEF scull_s_open
  <2>2. Users_of(Single)' = Users_of(Single) \cup {p} /\ U' = U + 1
    BY <2>1, OpeningAddsUser, DevicesDiffer
  <2>3. Undoing' = Undoing
    BY <1>3, UndoingStays DEF scull_s_open, OpenedFrom, Go
  <2>4. Users_of(Single) = {}
    BY <1>1, <1>3
  <2> QED
    BY <1>1, <1>3, <2>2, <2>3, <2>4 DEF scull_s_open
<1>4. CASE scull_s_open(p) /\ scull_s_available # 1
  <2>1. scull_s_available' = scull_s_available - 1 /\ scull_s_available' # 0
    BY <1>4 DEF scull_s_open, AccessTypes
  <2>2. Go(p, "closed", "undo") /\ UNCHANGED dev
    BY <1>4, <2>1 DEF scull_s_open
  <2>3. Undoing' = Undoing \cup {p} /\ p \notin Undoing
    BY <2>2 DEF Undoing, Go, AccessTypes
  <2>4. N' = N + 1
    BY <2>3, UndoingIsFinite, FS_AddElement
  <2>5. Users_of(Single)' = Users_of(Single)
    BY <2>2 DEF Users_of
  <2> QED
    BY <1>1, <2>1, <2>4, <2>5
<1>5. CASE scull_s_undo(p)
  <2>1. Undoing' = Undoing \ {p} /\ p \in Undoing
    BY <1>5 DEF scull_s_undo, Undoing, Go, AccessTypes
  <2>2. N' = N - 1
    BY <2>1, UndoingIsFinite, FS_RemoveElement
  <2>3. Users_of(Single)' = Users_of(Single) /\ scull_s_available' = scull_s_available + 1
    BY <1>5 DEF scull_s_undo, Users_of
  <2> QED
    BY <1>1, <2>2, <2>3
<1>6. CASE scull_s_release(p)
  <2>1. dev[p] = Single /\ dev' = [dev EXCEPT ![p] = <<>>]
    BY <1>6, ClosedFile DEF scull_s_release
  <2>2. Users_of(Single)' = Users_of(Single) \ {p} /\ U' = U - 1
    BY <2>1, ClosingRemovesUser, DevicesDiffer
  <2>3. Undoing' = Undoing
    BY <1>6, UndoingStays DEF scull_s_release, Closing, Go
  <2> QED
    BY <1>1, <1>6, <2>2, <2>3 DEF scull_s_release
<1>7. CASE UserStep(p) \/ TakeStep(p) \/ WaitStep(p) \/ CloneStep(p) \/ CallStep(p)
  BY <1>1, <1>7, OthersLeaveSingle, OthersLeaveUndoing
<1> QED
  BY <1>3, <1>4, <1>5, <1>6, <1>7, StepsOfDevices DEF SingleStep

-----------------------------------------------------------------------------
(* sculluid and scullwuid.                                                 *)

UserOwner ==
    /\ \A p \in Users_of(ByUser) : capable(p) \/ scull_u_owner \in {Uid[p], Euid[p]}
    /\ scull_u_count = Cardinality(Users_of(ByUser))

WaitedOwner ==
    /\ \A p \in Users_of(Waited) : capable(p) \/ scull_w_owner \in {Uid[p], Euid[p]}
    /\ scull_w_count = Cardinality(Users_of(Waited))

LEMMA OneOwnerIsOfBoth == OneOwner <=> UserOwner /\ WaitedOwner
  BY DEF OneOwner, UserOwner, WaitedOwner

LEMMA UserOwnerKeeps ==
  ASSUME AccessTypes, AccessFiles, UserOwner, NEW p \in Procs, AccessStep(p)
  PROVE  UserOwner'
<1>1. CASE scull_u_open(p)
  <2>1. dev[p] = <<>> /\ dev' = [dev EXCEPT ![p] = ByUser]
    BY <1>1, OpenedFile DEF scull_u_open
  <2>2. /\ Users_of(ByUser)' = Users_of(ByUser) \cup {p}
        /\ Cardinality(Users_of(ByUser)') = Cardinality(Users_of(ByUser)) + 1
    BY <2>1, OpeningAddsUser, DevicesDiffer
  <2>3. scull_u_count = 0 => Users_of(ByUser) = {}
    BY UsersAreFinite DEF UserOwner
  <2> QED
    BY <1>1, <2>2, <2>3 DEF UserOwner, scull_u_open, capable
<1>2. CASE scull_u_release(p)
  <2>1. dev[p] = ByUser /\ dev' = [dev EXCEPT ![p] = <<>>]
    BY <1>2, ClosedFile DEF scull_u_release
  <2>2. /\ Users_of(ByUser)' = Users_of(ByUser) \ {p}
        /\ Cardinality(Users_of(ByUser)') = Cardinality(Users_of(ByUser)) - 1
    BY <2>1, ClosingRemovesUser, DevicesDiffer
  <2> QED
    BY <1>2, <2>2 DEF UserOwner, scull_u_release, capable
<1>3. CASE SingleStep(p) \/ TakeStep(p) \/ WaitStep(p) \/ CloneStep(p) \/ CallStep(p)
  BY <1>3, OthersLeaveUser DEF UserOwner, user, capable
<1> QED
  BY <1>1, <1>2, <1>3, StepsOfDevices DEF UserStep

LEMMA WaitsLeaveOwner ==
  ASSUME NEW p \in Procs, WaitStep(p)
  PROVE  UNCHANGED <<scull_w_count, scull_w_owner>> /\ Users_of(Waited)' = Users_of(Waited)
  BY DEF WaitStep, WaitPrepare, WaitTest, WaitAgain, WaitInterrupted, WakeWaiters, wuser,
         Users_of

LEMMA WaitedOwnerKeeps ==
  ASSUME AccessTypes, AccessFiles, WaitedOwner, NEW p \in Procs, AccessStep(p)
  PROVE  WaitedOwner'
<1>1. ASSUME NEW from \in {"closed", "retry"}, scull_w_open(p, from), scull_w_available(p)
      PROVE  WaitedOwner'
  <2>1. dev[p] = <<>> /\ dev' = [dev EXCEPT ![p] = Waited]
    BY <1>1, OpenedFile DEF scull_w_open
  <2>2. /\ Users_of(Waited)' = Users_of(Waited) \cup {p}
        /\ Cardinality(Users_of(Waited)') = Cardinality(Users_of(Waited)) + 1
    BY <2>1, OpeningAddsUser, DevicesDiffer
  <2>3. scull_w_count = 0 => Users_of(Waited) = {}
    BY UsersAreFinite DEF WaitedOwner
  <2> QED
    BY <1>1, <2>2, <2>3 DEF WaitedOwner, scull_w_open, scull_w_available, capable
<1>2. ASSUME NEW from \in {"closed", "retry"}, scull_w_open(p, from), ~scull_w_available(p)
      PROVE  WaitedOwner'
  BY <1>2 DEF WaitedOwner, scull_w_open, Users_of, capable
<1>3. CASE scull_w_release(p)
  <2>1. dev[p] = Waited /\ dev' = [dev EXCEPT ![p] = <<>>]
    BY <1>3, ClosedFile DEF scull_w_release
  <2>2. /\ Users_of(Waited)' = Users_of(Waited) \ {p}
        /\ Cardinality(Users_of(Waited)') = Cardinality(Users_of(Waited)) - 1
    BY <2>1, ClosingRemovesUser, DevicesDiffer
  <2> QED
    BY <1>3, <2>2 DEF WaitedOwner, scull_w_release, capable
<1>4. CASE WaitStep(p)
  BY <1>4, WaitsLeaveOwner DEF WaitedOwner, capable
<1>5. CASE SingleStep(p) \/ UserStep(p) \/ CloneStep(p) \/ CallStep(p)
  BY <1>5, OthersLeaveWaited DEF WaitedOwner, wuser, capable
<1> QED
  BY <1>1, <1>2, <1>3, <1>4, <1>5, StepsOfDevices DEF TakeStep

-----------------------------------------------------------------------------
(* The queue of scullwuid.                                                 *)

(* A step of another device, or of a call, moves nobody to sleep or from   *)
(* the wake-up.                                                            *)
LEMMA OthersLeaveSleepers ==
  ASSUME AccessTypes, AccessFiles, NEW p \in Procs,
         SingleStep(p) \/ UserStep(p) \/ CloneStep(p) \/ CallStep(p)
  PROVE  \E to : /\ at' = [at EXCEPT ![p] = to]
                 /\ at[p] \notin {"asleep", "wake"} /\ to \notin {"asleep", "wake"}
<1> USE DEF OpenedFrom, Closing, Go
<1>1. CASE SingleStep(p)
  BY <1>1 DEF SingleStep, scull_s_open, scull_s_undo, scull_s_release
<1>2. CASE UserStep(p)
  BY <1>2 DEF UserStep, scull_u_open, scull_u_release
<1>3. CASE CloneStep(p)
  BY <1>3 DEF CloneStep, scull_c_open, scull_c_lookfor_device, scull_c_release
<1>4. CASE CallStep(p)
  BY <1>4 DEF CallStep, Trimmed, CallBegin, CallEnd
<1> QED
  BY <1>1, <1>2, <1>3, <1>4

(* The device becomes available to a process only with the last release:   *)
(* as long as it is open, the owner stays.                                 *)
LEMMA NoForgottenOpenerKeeps ==
  ASSUME AccessTypes, AccessFiles, WaitedOwner, NoForgottenOpener,
         NEW p \in Procs, AccessStep(p)
  PROVE  NoForgottenOpener'
<1> SUFFICES ASSUME NEW q \in scull_w_wait', at'[q] = "asleep", scull_w_available(q)'
             PROVE  \E r \in Procs : at'[r] = "wake"
  BY DEF NoForgottenOpener
<1>1. /\ scull_w_available(q) <=> \/ scull_w_count = 0 \/ capable(q)
                                  \/ scull_w_owner \in {Uid[q], Euid[q]}
      /\ scull_w_available(q)' <=> \/ scull_w_count' = 0 \/ capable(q)
                                   \/ scull_w_owner' \in {Uid[q], Euid[q]}
  BY DEF scull_w_available, capable
<1>2. q \in scull_w_wait /\ at[q] = "asleep" /\ scull_w_available(q) =>
          \E r \in Procs : at[r] = "wake"
  BY DEF NoForgottenOpener
<1>3. scull_w_count = Cardinality(Users_of(Waited)) /\ scull_w_count \in Nat
  BY UsersAreFinite DEF WaitedOwner
<1>4. ASSUME NEW from \in {"closed", "retry"}, scull_w_open(p, from)
      PROVE  \E r \in Procs : at'[r] = "wake"
  <2>1. /\ q \in scull_w_wait
        /\ \E to \in {"trim", "open", "wait"} : at[p] = from /\ at' = [at EXCEPT ![p] = to]
    BY <1>4 DEF scull_w_open, OpenedFrom, Go
  <2>2. q # p /\ at[q] = "asleep"
    BY <2>1 DEF AccessTypes
  <2>3. scull_w_available(q)
    <3>1. CASE scull_w_available(p)
      BY <1>1, <1>3, <1>4, <3>1 DEF scull_w_open
    <3>2. CASE ~scull_w_available(p)
      BY <1>1, <1>4, <3>2 DEF scull_w_open
    <3> QED
      BY <3>1, <3>2
  <2>4. PICK r \in Procs : at[r] = "wake"
    BY <1>2, <2>1, <2>2, <2>3
  <2> QED
    BY <2>1, <2>4 DEF AccessTypes
<1>5. CASE scull_w_release(p)
  <2>1. /\ dev[p] = Waited /\ dev' = [dev EXCEPT ![p] = <<>>] /\ at[p] = "open"
        /\ at' = [at EXCEPT ![p] = IF scull_w_count = 1 THEN "wake" ELSE "closed"]
        /\ scull_w_count' = scull_w_count - 1 /\ UNCHANGED <<scull_w_owner, scull_w_wait>>
    BY <1>5 DEF scull_w_release, Closing, Go
  <2>2. CASE scull_w_count = 1
    BY <2>1, <2>2 DEF AccessTypes
  <2>3. CASE scull_w_count # 1
    <3>1. q # p /\ q \in scull_w_wait /\ at[q] = "asleep"
      BY <2>1, <2>3 DEF AccessTypes
    <3>2. scull_w_available(q)
      BY <1>1, <2>1, <2>3
    <3>3. PICK r \in Procs : at[r] = "wake"
      BY <1>2, <3>1, <3>2
    <3> QED
      BY <2>1, <3>3 DEF AccessTypes
  <2> QED
    BY <2>2, <2>3
<1>6. CASE WaitStep(p)
  <2>1. scull_w_available(q)
    BY <1>1, <1>6, WaitsLeaveOwner
  <2>2. CASE WakeWaiters(p)
    BY <2>2 DEF WakeWaiters
  <2>3. CASE WaitPrepare(p) \/ WaitTest(p) \/ WaitAgain(p) \/ WaitInterrupted(p)
    <3>1. \E to \in {"test", "asleep", "retry", "wait", "closed"} :
              at[p] # "wake" /\ at' = [at EXCEPT ![p] = to]
      BY <2>3 DEF WaitPrepare, WaitTest, WaitAgain, WaitInterrupted, Go
    <3>2. q # p
      BY <2>1, <2>3 DEF WaitPrepare, WaitTest, WaitAgain, WaitInterrupted, Go, AccessTypes
    <3>3. q \in scull_w_wait /\ at[q] = "asleep"
      BY <2>3, <3>1, <3>2
         DEF WaitPrepare, WaitTest, WaitAgain, WaitInterrupted, wuser, AccessTypes
    <3> QED
      BY <1>2, <2>1, <3>1, <3>3 DEF AccessTypes
  <2> QED
    BY <1>6, <2>2, <2>3 DEF WaitStep
<1>7. CASE SingleStep(p) \/ UserStep(p) \/ CloneStep(p) \/ CallStep(p)
  <2>1. UNCHANGED <<scull_w_count, scull_w_owner, scull_w_wait>>
    BY <1>7, OthersLeaveWaited DEF wuser
  <2>2. q \in scull_w_wait /\ at[q] = "asleep"
    BY <1>7, <2>1, OthersLeaveSleepers DEF AccessTypes
  <2>3. PICK r \in Procs : at[r] = "wake"
    BY <1>1, <1>2, <2>1, <2>2
  <2> QED
    BY <1>7, <2>3, OthersLeaveSleepers DEF AccessTypes
<1> QED
  BY <1>4, <1>5, <1>6, <1>7, StepsOfDevices DEF TakeStep

-----------------------------------------------------------------------------
(* scullpriv.                                                              *)

(* Whoever allocates a device holds the lock, and found no device for its  *)
(* terminal; a file is of a device the list has for its own terminal.      *)
ClonesHeld ==
    /\ \A p \in Procs :
          /\ at[p] = "alloc" => Tty[p] \in Ttys
          /\ at[p] = "alloc" /\ Smp => scull_c_lock = p /\ scull_c_list[Tty[p]] = 0
          /\ \A t \in Ttys, n \in Nat :
                 dev[p] = Clone(t, n) => t = Tty[p] /\ n \in 1..scull_c_list[t]
    /\ Smp => \A t \in Ttys : scull_c_list[t] <= 1

LEMMA ClonesHeldMeansOneClone ==
  ASSUME AccessTypes, ClonesHeld
  PROVE  OneClonePerTerminal
<1> SUFFICES ASSUME Smp
             PROVE  /\ \A t \in Ttys : scull_c_list[t] <= 1
                    /\ \A p, q \in Procs :
                          dev[p] # <<>> /\ dev[q] # <<>> /\ dev[p][1] = "priv" /\ dev[q][1] = "priv"
                          => (dev[p] = dev[q] <=> Tty[p] = Tty[q])
  BY DEF OneClonePerTerminal
<1>1. \A t \in Ttys : scull_c_list[t] \in Nat /\ scull_c_list[t] <= 1
  BY DEF AccessTypes, ClonesHeld
<1>2. ASSUME NEW p \in Procs, dev[p] # <<>>, dev[p][1] = "priv"
      PROVE  Tty[p] \in Ttys /\ dev[p] = Clone(Tty[p], 1)
  <2>1. PICK t \in Ttys, n \in Nat : dev[p] = Clone(t, n)
    BY <1>2, OnlyClonesArePrivate DEF AccessTypes, Devices
  <2>2. t = Tty[p] /\ n \in 1..scull_c_list[t]
    BY <2>1 DEF ClonesHeld
  <2>3. n = 1
    BY <1>1, <2>2
  <2> QED
    BY <2>1, <2>2, <2>3
<1> QED
  BY <1>1, <1>2, ClonesDiffer

(* A step that leaves the list and the lock alone, moves nobody to or from *)
(* an allocation, and opens no clone but one the list has.                 *)
LEMMA ClonesHeldStay ==
  ASSUME AccessTypes, ClonesHeld, UNCHANGED clones,
         NEW p \in Procs, NEW to, to # "alloc", at' = [at EXCEPT ![p] = to],
         \/ UNCHANGED dev
         \/ \E e : /\ dev' = [dev EXCEPT ![p] = e]
                   /\ \A t \in Ttys, n \in Nat :
                          e = Clone(t, n) => t = Tty[p] /\ n \in 1..scull_c_list[t]
  PROVE  ClonesHeld'
<1>1. \A q \in Procs : at'[q] = "alloc" => at[q] = "alloc"
  BY DEF AccessTypes
<1>2. \A q \in Procs, t \in Ttys, n \in Nat :
          dev'[q] = Clone(t, n) => t = Tty[q] /\ n \in 1..scull_c_list[t]
  BY DEF AccessTypes, ClonesHeld
<1> QED
  BY <1>1, <1>2 DEF ClonesHeld, clones

LEMMA ClonesHeldKeeps ==
  ASSUME AccessTypes, AccessFiles, ClonesHeld, NEW p \in Procs, AccessStep(p)
  PROVE  ClonesHeld'
<1>1. CASE SingleStep(p) \/ UserStep(p) \/ TakeStep(p) \/ WaitStep(p) \/ CallStep(p)
  <2> DEFINE Stay == UNCHANGED clones /\ \E to : to # "alloc" /\ at' = [at EXCEPT ![p] = to]
             File == \/ UNCHANGED dev
                     \/ \E e \in {<<>>, Single, ByUser, Waited} : dev' = [dev EXCEPT ![p] = e]
  <2>1. Stay /\ File
    <3> USE DEF OpenedFrom, Closing, Go
    <3>1. CASE SingleStep(p)
      BY <3>1 DEF SingleStep, scull_s_open, scull_s_undo, scull_s_release
    <3>2. CASE UserStep(p)
      BY <3>2 DEF UserStep, scull_u_open, scull_u_release
    <3>3. CASE TakeStep(p)
      BY <3>3 DEF TakeStep, scull_w_open, scull_w_release
    <3>4. CASE WaitStep(p)
      BY <3>4 DEF WaitStep, WaitPrepare, WaitTest, WaitAgain, WaitInterrupted, WakeWaiters
    <3>5. CASE CallStep(p)
      BY <3>5 DEF CallStep, Trimmed, CallBegin, CallEnd
    <3> QED
      BY <1>1, <3>1, <3>2, <3>3, <3>4, <3>5
  <2>2. \A e \in {<<>>, Single, ByUser, Waited}, t \in Ttys, n \in Nat : e # Clone(t, n)
    BY DevicesDiffer
  <2> QED
    BY <2>1, <2>2, ClonesHeldStay
<1>2. CASE scull_c_open(p)
  <2> DEFINE t == Tty[p]
  <2>1. t \in Ttys /\ scull_c_lock = None /\ scull_c_list[t] \in Nat /\ UNCHANGED scull_c_list
    BY <1>2, TtysAssumption DEF scull_c_open, AccessTypes
  <2>2. CASE scull_c_list[t] > 0
    <3>1. OpenedFrom(p, "closed", Clone(t, scull_c_list[t])) /\ UNCHANGED clones
      BY <1>2, <2>2 DEF scull_c_open, clones
    <3>2. /\ \E to : to # "alloc" /\ at' = [at EXCEPT ![p] = to]
          /\ dev' = [dev EXCEPT ![p] = Clone(t, scull_c_list[t])]
      BY <3>1 DEF OpenedFrom, Go
    <3>3. \A u \in Ttys, n \in Nat :
              Clone(t, scull_c_list[t]) = Clone(u, n) => u = Tty[p] /\ n \in 1..scull_c_list[u]
      BY <2>1, <2>2, ClonesDiffer
    <3> QED
      BY <3>1, <3>2, <3>3, ClonesHeldStay
  <2>3. CASE scull_c_list[t] = 0
    <3>1. /\ at' = [at EXCEPT ![p] = "alloc"] /\ UNCHANGED dev
          /\ scull_c_lock' = IF Smp THEN p ELSE None
      BY <1>2, <2>3 DEF scull_c_open, Go
    <3>2. \A q \in Procs : at[q] = "alloc" => ~Smp
      BY <2>1, LockAssumption DEF ClonesHeld
    <3> QED
      BY <2>1, <2>3, <3>1, <3>2 DEF ClonesHeld, AccessTypes
  <2> QED
    BY <2>1, <2>2, <2>3
<1>3. CASE scull_c_lookfor_device(p)
  <2> DEFINE t == Tty[p]
  <2>1. at[p] = "alloc" /\ t \in Ttys /\ scull_c_list[t] \in Nat
    BY <1>3 DEF scull_c_lookfor_device, ClonesHeld, AccessTypes
  <2>2. Smp => scull_c_list[t] = 0 /\ \A q \in Procs : at[q] = "alloc" => q = p
    BY <2>1 DEF ClonesHeld
  <2>3. /\ \E to : to # "alloc" /\ at' = [at EXCEPT ![p] = to]
        /\ \/ /\ scull_c_list' = [scull_c_list EXCEPT ![t] = @ + 1]
              /\ dev' = [dev EXCEPT ![p] = Clone(t, scull_c_list[t] + 1)]
           \/ UNCHANGED <<scull_c_list, dev>>
    BY <1>3 DEF scull_c_lookfor_device, OpenedFrom, Go
  <2>4. \A q \in Procs : at'[q] = "alloc" => q # p /\ at[q] = "alloc"
    BY <2>3 DEF AccessTypes
  <2>5. \A u \in Ttys : /\ scull_c_list'[u] \in Nat /\ scull_c_list[u] <= scull_c_list'[u]
                        /\ Smp => scull_c_list'[u] <= 1
    BY <2>1, <2>2, <2>3 DEF AccessTypes, ClonesHeld
  <2>6. \A q \in Procs, u \in Ttys, n \in Nat :
            dev'[q] = Clone(u, n) => u = Tty[q] /\ n \in 1..scull_c_list'[u]
    <3> SUFFICES ASSUME NEW q \in Procs, NEW u \in Ttys, NEW n \in Nat, dev'[q] = Clone(u, n)
                 PROVE  u = Tty[q] /\ n \in 1..scull_c_list'[u]
      OBVIOUS
    <3>1. CASE dev'[q] = dev[q]
      <4>1. u = Tty[q] /\ n \in 1..scull_c_list[u]
        BY <3>1 DEF ClonesHeld
      <4> QED
        BY <4>1, <2>5 DEF AccessTypes
    <3>2. CASE q = p /\ dev'[q] = Clone(t, scull_c_list[t] + 1)
                     /\ scull_c_list' = [scull_c_list EXCEPT ![t] = @ + 1]
      <4>1. u = t /\ n = scull_c_list[t] + 1
        BY <3>2, ClonesDiffer
      <4> QED
        BY <2>1, <3>2, <4>1 DEF AccessTypes
    <3> QED
      BY <2>3, <3>1, <3>2 DEF AccessTypes
  <2> QED
    BY <2>2, <2>4, <2>5, <2>6 DEF ClonesHeld
<1>4. CASE scull_c_release(p)
  <2>1. /\ UNCHANGED clones /\ dev' = [dev EXCEPT ![p] = <<>>]
        /\ at' = [at EXCEPT ![p] = "closed"]
    BY <1>4 DEF scull_c_release, Closing, Go
  <2>2. \A t \in Ttys, n \in Nat : <<>> # Clone(t, n)
    BY DevicesDiffer
  <2> QED
    BY <2>1, <2>2, ClonesHeldStay
<1> QED
  BY <1>1, <1>2, <1>3, <1>4, StepsOfDevices DEF CloneStep

-----------------------------------------------------------------------------
(* The invariant of all devices, and the theorems.                         *)

AccessInv ==
    /\ AccessTypes /\ AccessFiles
    /\ SingleOpen /\ UserOwner /\ WaitedOwner /\ NoForgottenOpener /\ ClonesHeld

LEMMA AccessStart == AccessInit => AccessInv
<1> SUFFICES ASSUME AccessInit
             PROVE  AccessInv
  OBVIOUS
<1>1. Users_of(Single) = {} /\ Users_of(ByUser) = {} /\ Users_of(Waited) = {}
  BY DevicesDiffer DEF AccessInit, Users_of
<1>2. Undoing = {}
  BY DEF AccessInit, Undoing
<1>3. SingleOpen /\ UserOwner /\ WaitedOwner
  <2>1. Cardinality({}) = 0
    BY FS_EmptySet
  <2>2. SingleOpen
    <3>1. scull_s_available = 1 - Cardinality(Users_of(Single)) - Cardinality(Undoing)
      BY <1>1, <1>2, <2>1 DEF AccessInit
    <3> QED
      BY <1>1, <3>1 DEF SingleOpen, Undoing
  <2>3. UserOwner /\ WaitedOwner
    BY <1>1, <2>1 DEF AccessInit, UserOwner, WaitedOwner
  <2> QED
    BY <2>2, <2>3
<1>4. NoForgottenOpener /\ ClonesHeld
  BY DevicesDiffer DEF AccessInit, NoForgottenOpener, ClonesHeld
<1> QED
  BY <1>3, <1>4, AccessTypesStart DEF AccessInv

LEMMA AccessTypesKeep ==
  ASSUME AccessTypes, AccessFiles, ClonesHeld, NEW p \in Procs, AccessStep(p)
  PROVE  (AccessTypes /\ AccessFiles)'
<1>1. CASE CloneStep(p)
  <2>1. scull_c_open(p) \/ scull_c_lookfor_device(p) => Tty[p] # NoTty
    BY TtysAssumption DEF scull_c_open, scull_c_lookfor_device, ClonesHeld
  <2> QED
    BY <1>1, <2>1, CloneTypes, CallTypes DEF CloneStep
<1> QED
  BY <1>1, StepsOfDevices, SingleTypes, UserTypes, WaitedTypes, WaitTypes, CallTypes
     DEF SingleStep, UserStep, TakeStep, WaitStep, CallStep

LEMMA AccessInvKeeps == AccessInv /\ [AccessNext]_accessVars => AccessInv'
<1> SUFFICES ASSUME AccessInv, [AccessNext]_accessVars
             PROVE  AccessInv'
  OBVIOUS
<1>1. ASSUME NEW p \in Procs, AccessStep(p)
      PROVE  AccessInv'
  BY <1>1, AccessTypesKeep, SingleOpenKeeps, UserOwnerKeeps, WaitedOwnerKeeps,
     NoForgottenOpenerKeeps, ClonesHeldKeeps DEF AccessInv
<1>2. CASE UNCHANGED accessVars
  BY <1>2 DEF accessVars, AccessInv, AccessTypes, AccessFiles, SingleOpen, UserOwner,
              WaitedOwner, NoForgottenOpener, ClonesHeld, Users_of, capable, scull_w_available
<1> QED
  BY <1>1, <1>2 DEF AccessNext

LEMMA AccessAlways == AccessSpec => []AccessInv
  BY AccessStart, AccessInvKeeps, PTL DEF AccessSpec

(* Two files of scullsingle are never open, and its counter never drifts   *)
(* whatever opens are refused and taken back (access.c 57-58, 71).         *)
THEOREM SingleOpener == AccessSpec => []SingleOpen
<1>1. AccessInv => SingleOpen
  BY DEF AccessInv
<1> QED
  BY <1>1, AccessAlways, PTL

(* Everybody who has sculluid or scullwuid open shares it with its owner,  *)
(* and the counts are the open files (access.c 106-117, 131, 165-168).     *)
THEOREM OwnersShareDevices == AccessSpec => []OneOwner
<1>1. AccessInv => OneOwner
  BY OneOwnerIsOfBoth DEF AccessInv
<1> QED
  BY <1>1, AccessAlways, PTL

(* No open of scullwuid sleeps on a device it could have without a wake-up *)
(* on its way (access.c 177-206).                                          *)
THEOREM OpenersAreWoken == AccessSpec => []NoForgottenOpener
<1>1. AccessInv => NoForgottenOpener
  BY DEF AccessInv
<1> QED
  BY <1>1, AccessAlways, PTL

(* With real spinlocks the search for a clone and its insertion are not    *)
(* interrupted by another's (access.c 251-283).                            *)
THEOREM ClonesAreUnique == AccessSpec => []OneClonePerTerminal
<1>1. AccessInv => OneClonePerTerminal
  BY ClonesHeldMeansOneClone DEF AccessInv
<1> QED
  BY <1>1, AccessAlways, PTL
=============================================================================
