------------------------ MODULE EventSemaphoreProofs ------------------------
(***************************************************************************)
(* The semaphore of exp6.c, for any number of processes.  Its accounting   *)
(* is right on every kernel; it excludes and loses no signal where a       *)
(* system call runs until it sleeps and sleepers get no signals.           *)
(***************************************************************************)
EXTENDS EventSemaphore, FiniteSetTheorems, SequenceTheorems, TLAPS

-----------------------------------------------------------------------------
(* Removing and appending waiters.                                         *)

LEMMA RemoveAtType ==
  ASSUME NEW S, NEW s \in Seq(S), NEW i \in 1..Len(s)
  PROVE  /\ RemoveAt(s, i) \in Seq(S)
         /\ Len(RemoveAt(s, i)) = Len(s) - 1
         /\ \A j \in 1..(Len(s) - 1) :
              RemoveAt(s, i)[j] = IF j < i THEN s[j] ELSE s[j + 1]
<1> DEFINE a == SubSeq(s, 1, i - 1)
           b == SubSeq(s, i + 1, Len(s))
<1>1. Len(s) \in Nat /\ i \in Nat /\ 1 <= i /\ i <= Len(s)
  BY LenProperties
<1>2. a \in Seq(S) /\ Len(a) = i - 1 /\ \A j \in 1..(i - 1) : a[j] = s[j]
  BY <1>1, SubSeqProperties
<1>3. b \in Seq(S) /\ Len(b) = Len(s) - i
      /\ \A j \in 1..(Len(s) - i) : b[j] = s[i + j]
  BY <1>1, SubSeqProperties
<1>4. /\ a \o b \in Seq(S)
      /\ Len(a \o b) = Len(a) + Len(b)
      /\ \A j \in 1..(Len(a) + Len(b)) :
           (a \o b)[j] = IF j <= Len(a) THEN a[j] ELSE b[j - Len(a)]
  BY <1>2, <1>3, ConcatProperties
<1>5. RemoveAt(s, i) = a \o b
  BY DEF RemoveAt
<1> HIDE DEF a, b
<1>6. ASSUME NEW j \in 1..(Len(s) - 1)
      PROVE  (a \o b)[j] = IF j < i THEN s[j] ELSE s[j + 1]
  <2>1. j \in 1..(Len(a) + Len(b)) /\ Len(a) = i - 1
    BY <1>1, <1>2, <1>3
  <2>2. CASE j < i
    BY <2>1, <2>2, <1>1, <1>2, <1>4
  <2>3. CASE ~(j < i)
    <3>1. (a \o b)[j] = b[j - (i - 1)]
      BY <2>1, <2>3, <1>1, <1>4
    <3>2. j - (i - 1) \in 1..(Len(s) - i)
      BY <2>3, <1>1
    <3>3. b[j - (i - 1)] = s[i + (j - (i - 1))]
      BY <3>2, <1>3
    <3>4. i + (j - (i - 1)) = j + 1
      BY <1>1
    <3> QED
      BY <2>3, <3>1, <3>3, <3>4
  <2> QED
    BY <2>2, <2>3
<1>7. Len(a \o b) = Len(s) - 1
  BY <1>1, <1>2, <1>3, <1>4
<1> QED
  BY <1>4, <1>5, <1>6, <1>7
-----------------------------------------------------------------------------
(* Part 1: the accounting, on every kernel.                                *)

OutLabels == {"w_test", "w_prep", "w_sleep", "w_intr", "in", "s_inc"}

(* Sets of processes whose number the steps change one by one.             *)
LEMMA MemberJoins ==
  ASSUME NEW S, NEW T, IsFiniteSet(S), NEW p, p \notin S, T = S \cup {p}
  PROVE  Cardinality(S) \in Nat /\ Cardinality(T) = Cardinality(S) + 1
  BY FS_AddElement, FS_CardinalityType

LEMMA MemberLeaves ==
  ASSUME NEW S, NEW T, IsFiniteSet(S), NEW p, p \in S, T = S \ {p}
  PROVE  Cardinality(S) \in Nat /\ Cardinality(T) = Cardinality(S) - 1
  BY FS_RemoveElement, FS_CardinalityType

LEMMA OutstandingIsFinite ==
  IsFiniteSet(Outstanding) /\ Cardinality(Outstanding) \in Nat
  BY SemProcsAssumption, FS_Subset, FS_CardinalityType DEF Outstanding

CountInv ==
  /\ count \in Int /\ count <= InitCount
  /\ count >= InitCount - Cardinality(Outstanding)
  /\ waiters \in Seq(Procs)
  /\ pc \in [Procs -> SemLabels]
  /\ Strays = {} => /\ count = InitCount - Cardinality(Outstanding)
                    /\ \A p \in Procs : pc[p] # "x_inc"

LEMMA MoveIsLocal ==
  ASSUME pc \in [Procs -> SemLabels], NEW p \in Procs, NEW from,
         NEW to \in SemLabels, Move(p, from, to)
  PROVE  /\ pc' \in [Procs -> SemLabels]
         /\ pc[p] = from /\ pc'[p] = to
         /\ \A q \in Procs \ {p} : pc'[q] = pc[q]
  BY DEF Move

(* What one step does to the outstanding waits and to the count.           *)
LEMMA OutstandingStays ==
  ASSUME CountInv, NEW p \in Procs, NEW from, NEW to \in SemLabels,
         Move(p, from, to), from \in OutLabels <=> to \in OutLabels,
         to # "x_inc", count' = count, waiters' \in Seq(Procs)
  PROVE  CountInv'
<1>1. /\ pc' \in [Procs -> SemLabels] /\ pc[p] = from /\ pc'[p] = to
      /\ \A q \in Procs \ {p} : pc'[q] = pc[q]
  BY MoveIsLocal DEF CountInv
<1>2. Outstanding' = Outstanding
  BY <1>1 DEF Outstanding, OutLabels
<1> QED
  BY <1>1, <1>2 DEF CountInv

LEMMA OutstandingGrows ==
  ASSUME CountInv, InitCount \in Nat, NEW p \in Procs, WaitDec(p)
  PROVE  CountInv'
<1>1. /\ pc' \in [Procs -> SemLabels] /\ pc[p] = "w_dec" /\ pc'[p] = "w_test"
      /\ \A q \in Procs \ {p} : pc'[q] = pc[q]
  BY MoveIsLocal DEF CountInv, WaitDec, SemLabels
<1>2. p \notin Outstanding /\ Outstanding' = Outstanding \cup {p}
  BY <1>1 DEF Outstanding
<1>3. /\ Cardinality(Outstanding') = Cardinality(Outstanding) + 1
      /\ Cardinality(Outstanding) \in Nat
  BY <1>2, OutstandingIsFinite, MemberJoins
<1>4. count' = count - 1 /\ waiters' = waiters
  BY DEF WaitDec
<1>5. \A q \in Procs : pc[q] # "x_inc" => pc'[q] # "x_inc"
  BY <1>1
<1> QED
  BY <1>1, <1>3, <1>4, <1>5 DEF CountInv

(* A signal of a process that waited: the limit does not bite when nobody  *)
(* else signals, as the process itself is outstanding.                     *)
LEMMA OutstandingShrinks ==
  ASSUME CountInv, InitCount \in Nat, NEW p \in Procs,
         Move(p, "s_inc", "s_test"),
         count' = IF count + 1 <= InitCount THEN count + 1 ELSE count,
         waiters' = waiters
  PROVE  CountInv'
<1>1. /\ pc' \in [Procs -> SemLabels] /\ pc[p] = "s_inc" /\ pc'[p] = "s_test"
      /\ \A q \in Procs \ {p} : pc'[q] = pc[q]
  BY MoveIsLocal DEF CountInv, SemLabels
<1>2. p \in Outstanding /\ Outstanding' = Outstanding \ {p}
  BY <1>1 DEF Outstanding
<1>3. /\ Cardinality(Outstanding') = Cardinality(Outstanding) - 1
      /\ Cardinality(Outstanding) \in Nat
      /\ Cardinality(Outstanding') \in Nat
  <2>1. IsFiniteSet(Outstanding')
    BY <1>2, OutstandingIsFinite, FS_Subset
  <2> QED
    BY <1>2, <2>1, OutstandingIsFinite, MemberLeaves, FS_CardinalityType
<1>4. \A q \in Procs : pc[q] # "x_inc" => pc'[q] # "x_inc"
  BY <1>1
<1> QED
  BY <1>1, <1>3, <1>4 DEF CountInv

LEMMA StraySignalCounts ==
  ASSUME CountInv, InitCount \in Nat, NEW p \in Procs,
         Move(p, "x_inc", "s_test"),
         count' = IF count + 1 <= InitCount THEN count + 1 ELSE count,
         waiters' = waiters
  PROVE  CountInv'
<1>1. /\ pc' \in [Procs -> SemLabels] /\ pc[p] = "x_inc" /\ pc'[p] = "s_test"
      /\ \A q \in Procs \ {p} : pc'[q] = pc[q]
  BY MoveIsLocal DEF CountInv, SemLabels
<1>2. Outstanding' = Outstanding /\ Cardinality(Outstanding) \in Nat
  BY <1>1, OutstandingIsFinite DEF Outstanding
<1> QED
  BY <1>1, <1>2 DEF CountInv

LEMMA WakeUpType ==
  ASSUME waiters \in Seq(Procs), WakeUp \/ UNCHANGED waiters
  PROVE  waiters' \in Seq(Procs)
  BY RemoveAtType DEF WakeUp

LEMMA CountInvStep == CountInv /\ [SemNext]_semVars => CountInv'
<1> SUFFICES ASSUME CountInv, [SemNext]_semVars PROVE CountInv'
  OBVIOUS
<1>0. /\ InitCount \in Nat
      /\ waiters \in Seq(Procs)
      /\ {"out", "w_dec", "w_prep", "w_sleep", "w_intr", "in", "s_inc", "x_inc",
          "s_test"} \subseteq SemLabels
  BY InitCountAssumption DEF CountInv, SemLabels
<1>1. CASE UNCHANGED semVars
  <2>1. Outstanding' = Outstanding
    BY <1>1 DEF semVars, Outstanding
  <2> QED
    BY <1>1, <2>1 DEF CountInv, semVars
<1>2. ASSUME NEW p \in Procs,
             Step(p) \/ WaitCall(p) \/ StraySignal(p) \/ Interrupt(p)
      PROVE  CountInv'
  <2>1. CASE WaitCall(p)
    BY <1>0, <2>1, OutstandingStays DEF WaitCall, OutLabels
  <2>2. CASE WaitDec(p)
    BY <1>0, <2>2, OutstandingGrows
  <2>3. CASE WaitTest(p)
    <3>1. PICK to \in {"w_prep", "in"} : Move(p, "w_test", to)
      BY <2>3 DEF WaitTest
    <3> QED
      BY <1>0, <2>3, <3>1, OutstandingStays DEF WaitTest, OutLabels
  <2>4. CASE WaitPrepare(p)
    <3>1. waiters' \in Seq(Procs)
      BY <1>0, <2>4, AppendProperties DEF WaitPrepare
    <3> QED
      BY <1>0, <2>4, <3>1, OutstandingStays DEF WaitPrepare, OutLabels
  <2>5. CASE WaitFinish(p)
    BY <1>0, <2>5, OutstandingStays DEF WaitFinish, OutLabels
  <2>6. CASE Interrupt(p)
    BY <1>0, <2>6, OutstandingStays DEF Interrupt, OutLabels
  <2>7. CASE WaitInterrupted(p)
    <3>1. waiters' \in Seq(Procs)
      BY <1>0, <2>7, RemoveAtType DEF WaitInterrupted, Dequeue
    <3> QED
      BY <1>0, <2>7, <3>1, OutstandingStays DEF WaitInterrupted, OutLabels
  <2>8. CASE SignalCall(p)
    BY <1>0, <2>8, OutstandingStays DEF SignalCall, OutLabels
  <2>9. CASE StraySignal(p)
    <3>1. /\ pc' \in [Procs -> SemLabels] /\ pc[p] = "out" /\ pc'[p] = "x_inc"
          /\ \A q \in Procs \ {p} : pc'[q] = pc[q]
      BY <1>0, <2>9, MoveIsLocal DEF CountInv, StraySignal
    <3>2. Outstanding' = Outstanding /\ Strays # {}
      BY <2>9, <3>1 DEF Outstanding, StraySignal
    <3> QED
      BY <2>9, <3>1, <3>2 DEF CountInv, StraySignal
  <2>10. CASE SignalInc(p)
    <3>1. CASE Move(p, "s_inc", "s_test")
      BY <1>0, <2>10, <3>1, OutstandingShrinks DEF SignalInc
    <3>2. CASE Move(p, "x_inc", "s_test")
      BY <1>0, <2>10, <3>2, StraySignalCounts DEF SignalInc
    <3> QED
      BY <2>10, <3>1, <3>2 DEF SignalInc
  <2>11. CASE SignalTest(p)
    <3>1. waiters' \in Seq(Procs)
      BY <1>0, <2>11, WakeUpType DEF SignalTest
    <3> QED
      BY <1>0, <2>11, <3>1, OutstandingStays DEF SignalTest, OutLabels
  <2> QED
    BY <1>2, <2>1, <2>2, <2>3, <2>4, <2>5, <2>6, <2>7, <2>8, <2>9, <2>10, <2>11
       DEF Step
<1> QED
  BY <1>1, <1>2 DEF SemNext

LEMMA CountInvInit == SemInit => CountInv
<1> SUFFICES ASSUME SemInit PROVE CountInv
  OBVIOUS
<1>1. Outstanding = {}
  BY DEF SemInit, Outstanding
<1>2. Cardinality(Outstanding) = 0
  BY <1>1, FS_EmptySet
<1>3. waiters \in Seq(Procs)
  BY EmptySeq DEF SemInit
<1> QED
  BY <1>2, <1>3, InitCountAssumption DEF SemInit, CountInv, SemLabels

LEMMA CountInvAlways == SemSpec => []CountInv
  BY CountInvInit, CountInvStep, PTL DEF SemSpec

(* Whoever signals and whatever interrupts, the count stays between its    *)
(* initial value and that value less the waits under way.                  *)
THEOREM CountIsBounded == SemSpec => []SemTypeOK
<1>1. CountInv => SemTypeOK
  BY DEF CountInv, SemTypeOK
<1> QED
  BY <1>1, CountInvAlways, PTL

(* If only processes that waited signal, the count is the initial value    *)
(* less the waits under way, on every kernel and with signals anywhere.    *)
THEOREM CountIsExact ==
  ASSUME Strays = {}
  PROVE  SemSpec => []CountAccounts
<1>1. CountInv => CountAccounts
  BY DEF CountInv, CountAccounts
<1> QED
  BY <1>1, CountInvAlways, PTL
-----------------------------------------------------------------------------
(* Part 2: exclusion and signals where a system call runs until it sleeps. *)

Quiet == ~Preempt /\ Interrupted = {} /\ Strays = {}

QuietLabels == SemLabels \ {"w_intr", "x_inc"}

(* The waiters sleep, each once in the queue, and one process runs.        *)
QuietQueue ==
  /\ count \in Int
  /\ waiters \in Seq(Procs)
  /\ pc \in [Procs -> QuietLabels]
  /\ \A i \in 1..Len(waiters) : pc[waiters[i]] = "w_sleep"
  /\ \A i, j \in 1..Len(waiters) : waiters[i] = waiters[j] => i = j
  /\ \A p, q \in Procs : pc[p] \in Running /\ pc[q] \in Running => p = q

(* When the last operation is accounted for as c of g units: the queue is  *)
(* as long as the count is below zero, and everybody else is let through.  *)
Balance(c, g) ==
  /\ Len(waiters) = IF c < 0 THEN -c ELSE 0
  /\ Cardinality(Granted) = g - c - Len(waiters)

(* The balance while the only process that may run is at label l.          *)
BalanceAt(l) ==
  /\ l \in {"w_test", "w_prep"} => Balance(count + 1, InitCount)
  /\ l = "w_prep" => count < 0
  /\ l = "s_test" => Balance(count - 1, InitCount - 1)
  /\ l \notin {"w_test", "w_prep", "s_test"} => Balance(count, InitCount)

QuietBalance ==
  \A p \in Procs :
    (\A q \in Procs \ {p} : pc[q] \notin Running) => BalanceAt(pc[p])

QuietInv == QuietQueue /\ QuietBalance

LEMMA GrantedIsFinite == IsFiniteSet(Granted) /\ Cardinality(Granted) \in Nat
  BY SemProcsAssumption, FS_Subset, FS_CardinalityType DEF Granted

LEMMA QuietMove ==
  ASSUME Quiet, QuietInv, NEW p \in Procs, NEW from, NEW to \in QuietLabels,
         Move(p, from, to)
  PROVE  /\ pc' \in [Procs -> QuietLabels]
         /\ pc[p] = from /\ pc'[p] = to
         /\ \A q \in Procs \ {p} : pc'[q] = pc[q] /\ pc[q] \notin Running
         /\ BalanceAt(from)
  BY DEF Move, Quiet, QuietInv, QuietQueue, QuietBalance, MayRun

(* It is enough to account for the process that moved.                     *)
LEMMA BalanceOfMover ==
  ASSUME NEW p \in Procs, BalanceAt(pc[p])',
         \A q \in Procs \ {p} : pc'[q] \notin Running
  PROVE  QuietBalance'
<1> SUFFICES ASSUME NEW r \in Procs,
                    \A q \in Procs \ {r} : pc'[q] \notin Running
             PROVE  BalanceAt(pc[r])'
  BY DEF QuietBalance
<1>1. CASE r = p
  BY <1>1
<1>2. CASE r # p
  <2>1. pc'[r] \notin Running /\ pc'[p] \notin Running
    BY <1>2
  <2>2. Balance(count, InitCount)'
    BY <2>1 DEF BalanceAt, Running
  <2> QED
    BY <2>1, <2>2 DEF BalanceAt, Running
<1> QED
  BY <1>1, <1>2

(* Steps that leave the queue alone keep it in order.                      *)
LEMMA QueueKept ==
  ASSUME Quiet, QuietInv, NEW p \in Procs, NEW from, NEW to \in QuietLabels,
         Move(p, from, to), waiters' = waiters, count' \in Int,
         \A i \in 1..Len(waiters) : waiters[i] # p
  PROVE  /\ QuietQueue'
         /\ \A q \in Procs \ {p} : q \in Granted' <=> q \in Granted
<1>1. /\ pc' \in [Procs -> QuietLabels] /\ pc[p] = from /\ pc'[p] = to
      /\ \A q \in Procs \ {p} : pc'[q] = pc[q] /\ pc[q] \notin Running
  BY QuietMove
<1>2. \A i \in 1..Len(waiters) : waiters[i] \in Procs \ {p}
  BY ElementOfSeq DEF QuietInv, QuietQueue
<1>3. \A i \in 1..Len(waiters) : pc'[waiters[i]] = "w_sleep"
  BY <1>1, <1>2 DEF QuietInv, QuietQueue
<1>4. QuietQueue'
  BY <1>1, <1>3 DEF QuietInv, QuietQueue
<1>5. \A q \in Procs \ {p} : q \in Granted' <=> q \in Granted
  BY <1>1 DEF Granted, Queued
<1> QED
  BY <1>4, <1>5

LEMMA NotAsleepNotQueued ==
  ASSUME QuietInv, NEW p \in Procs, pc[p] # "w_sleep"
  PROVE  \A i \in 1..Len(waiters) : waiters[i] # p
  BY DEF QuietInv, QuietQueue

(* Calls, the decrement, the test that fails and the return of a sleeper   *)
(* let nobody through and queue nobody.                                    *)
LEMMA QuietPlain ==
  ASSUME Quiet, QuietInv, NEW p \in Procs, NEW from, NEW to \in QuietLabels,
         Move(p, from, to), waiters' = waiters, count' \in Int,
         \A i \in 1..Len(waiters) : waiters[i] # p,
         from \in {"in", "s_inc", "w_sleep"} <=> to \in {"in", "s_inc"},
         to # "w_sleep",
         Granted' = Granted => BalanceAt(to)'
  PROVE  QuietInv'
<1>1. /\ pc' \in [Procs -> QuietLabels] /\ pc[p] = from /\ pc'[p] = to
      /\ \A q \in Procs \ {p} : pc'[q] = pc[q] /\ pc[q] \notin Running
  BY QuietMove
<1>2. QuietQueue' /\ \A q \in Procs \ {p} : q \in Granted' <=> q \in Granted
  BY QueueKept
<1>3. p \in Granted' <=> p \in Granted
  <2>1. from # "w_intr" /\ to # "w_intr"
    BY <1>1 DEF QuietInv, QuietQueue, QuietLabels
  <2>2. ~Queued(p)
    BY DEF Queued
  <2>3. p \in Granted <=> from \in {"in", "s_inc", "w_sleep"}
    BY <1>1, <2>1, <2>2 DEF Granted
  <2>4. p \in Granted' <=> to \in {"in", "s_inc"}
    BY <1>1, <2>1 DEF Granted
  <2> QED
    BY <2>3, <2>4
<1>4. Granted' = Granted
  BY <1>2, <1>3 DEF Granted
<1>5. BalanceAt(pc[p])'
  BY <1>1, <1>4
<1>6. QuietBalance'
  BY <1>1, <1>5, BalanceOfMover
<1> QED
  BY <1>2, <1>6 DEF QuietInv

(* The test that succeeds lets p through; the queue is empty.              *)
LEMMA QuietEnter ==
  ASSUME Quiet, QuietInv, InitCount \in Nat, NEW p \in Procs,
         Move(p, "w_test", "in"), ~(count < 0), UNCHANGED <<count, waiters>>
  PROVE  QuietInv'
<1>1. /\ pc' \in [Procs -> QuietLabels] /\ pc[p] = "w_test" /\ pc'[p] = "in"
      /\ \A q \in Procs \ {p} : pc'[q] = pc[q] /\ pc[q] \notin Running
      /\ BalanceAt("w_test")
  BY QuietMove DEF QuietLabels, SemLabels
<1>2. \A i \in 1..Len(waiters) : waiters[i] # p
  BY <1>1, NotAsleepNotQueued
<1>3. count \in Int /\ count' \in Int /\ "in" \in QuietLabels
  BY DEF QuietInv, QuietQueue, QuietLabels, SemLabels
<1>4. QuietQueue' /\ \A q \in Procs \ {p} : q \in Granted' <=> q \in Granted
  BY <1>2, <1>3, QueueKept
<1>5. p \notin Granted /\ p \in Granted'
  BY <1>1 DEF Granted
<1>6. Granted' = Granted \cup {p}
  BY <1>4, <1>5 DEF Granted
<1>7. /\ Cardinality(Granted') = Cardinality(Granted) + 1
      /\ Cardinality(Granted) \in Nat
  BY <1>5, <1>6, GrantedIsFinite, MemberJoins
<1>8. BalanceAt("in")'
  BY <1>1, <1>3, <1>7 DEF BalanceAt, Balance
<1>9. QuietBalance'
  BY <1>1, <1>8, BalanceOfMover
<1> QED
  BY <1>4, <1>9 DEF QuietInv

(* The queue grows by p, which is not let through.                         *)
LEMMA QuietSleep ==
  ASSUME Quiet, QuietInv, InitCount \in Nat, NEW p \in Procs, WaitPrepare(p)
  PROVE  QuietInv'
<1>1. /\ pc' \in [Procs -> QuietLabels] /\ pc[p] = "w_prep" /\ pc'[p] = "w_sleep"
      /\ \A q \in Procs \ {p} : pc'[q] = pc[q] /\ pc[q] \notin Running
      /\ BalanceAt("w_prep")
  BY QuietMove DEF QuietLabels, SemLabels, WaitPrepare
<1>2. \A i \in 1..Len(waiters) : waiters[i] # p /\ waiters[i] \in Procs
  BY <1>1, NotAsleepNotQueued, ElementOfSeq DEF QuietInv, QuietQueue
<1>3. /\ count \in Int /\ waiters \in Seq(Procs) /\ Len(waiters) \in Nat
      /\ count' = count /\ waiters' = Append(waiters, p)
  BY LenProperties DEF QuietInv, QuietQueue, WaitPrepare
<1>4. /\ waiters' \in Seq(Procs) /\ Len(waiters') = Len(waiters) + 1
      /\ \A i \in 1..Len(waiters) : waiters'[i] = waiters[i]
      /\ waiters'[Len(waiters) + 1] = p
  BY <1>3, AppendProperties
<1>5. QuietQueue'
  <2>1. \A i \in 1..Len(waiters') : pc'[waiters'[i]] = "w_sleep"
    BY <1>1, <1>2, <1>3, <1>4 DEF QuietInv, QuietQueue
  <2>2. \A i, j \in 1..Len(waiters') : waiters'[i] = waiters'[j] => i = j
    BY <1>2, <1>3, <1>4 DEF QuietInv, QuietQueue
  <2>3. \A q, r \in Procs : pc'[q] \in Running /\ pc'[r] \in Running => q = r
    BY <1>1
  <2> QED
    BY <1>1, <1>3, <1>4, <2>1, <2>2, <2>3 DEF QuietQueue
<1>6. ASSUME NEW q \in Procs \ {p} PROVE Queued(q)' <=> Queued(q)
  BY <1>3, <1>4, <1>6 DEF Queued
<1>7. Queued(p)'
  BY <1>3, <1>4 DEF Queued
<1>8. Granted' = Granted
  <2>1. \A q \in Procs \ {p} : q \in Granted' <=> q \in Granted
    BY <1>1, <1>6 DEF Granted
  <2>2. p \notin Granted /\ p \notin Granted'
    BY <1>1, <1>7 DEF Granted
  <2> QED
    BY <2>1, <2>2 DEF Granted
<1>9. BalanceAt("w_sleep")'
  BY <1>1, <1>3, <1>4, <1>8, GrantedIsFinite DEF BalanceAt, Balance
<1>10. QuietBalance'
  BY <1>1, <1>9, BalanceOfMover
<1> QED
  BY <1>5, <1>10 DEF QuietInv
(* A unit is given back.  The limit does not bite, as p still has it.      *)
LEMMA QuietGiveBack ==
  ASSUME Quiet, QuietInv, InitCount \in Nat, NEW p \in Procs,
         Move(p, "s_inc", "s_test"), waiters' = waiters,
         count' = IF count + 1 <= InitCount THEN count + 1 ELSE count
  PROVE  QuietInv'
<1>1. /\ pc' \in [Procs -> QuietLabels] /\ pc[p] = "s_inc" /\ pc'[p] = "s_test"
      /\ \A q \in Procs \ {p} : pc'[q] = pc[q] /\ pc[q] \notin Running
      /\ BalanceAt("s_inc")
  BY QuietMove DEF QuietLabels, SemLabels
<1>2. \A i \in 1..Len(waiters) : waiters[i] # p
  BY <1>1, NotAsleepNotQueued
<1>3. count \in Int /\ count' \in Int /\ "s_test" \in QuietLabels
  BY DEF QuietInv, QuietQueue, QuietLabels, SemLabels
<1>4. QuietQueue' /\ \A q \in Procs \ {p} : q \in Granted' <=> q \in Granted
  BY <1>2, <1>3, QueueKept
<1>5. p \in Granted /\ p \notin Granted'
  BY <1>1 DEF Granted
<1>6. Granted' = Granted \ {p}
  BY <1>4, <1>5 DEF Granted
<1>7. /\ Cardinality(Granted') = Cardinality(Granted) - 1
      /\ Cardinality(Granted) \in Nat /\ Cardinality(Granted') \in Nat
  <2>1. IsFiniteSet(Granted')
    BY <1>6, GrantedIsFinite, FS_Subset
  <2> QED
    BY <1>5, <1>6, <2>1, GrantedIsFinite, MemberLeaves, FS_CardinalityType
<1>8. Balance(count, InitCount)
  BY <1>1 DEF BalanceAt
<1>9. count + 1 <= InitCount
  BY <1>3, <1>7, <1>8 DEF Balance
<1>10. BalanceAt("s_test")'
  BY <1>3, <1>7, <1>8, <1>9 DEF BalanceAt, Balance
<1>11. QuietBalance'
  BY <1>1, <1>10, BalanceOfMover
<1> QED
  BY <1>4, <1>11 DEF QuietInv

(* The signal at its test: with the queue empty nobody is woken, otherwise *)
(* one sleeper leaves the queue and is let through.                        *)
LEMMA QuietNobodyWoken ==
  ASSUME Quiet, QuietInv, InitCount \in Nat, NEW p \in Procs,
         Move(p, "s_test", "out"), UNCHANGED <<count, waiters>>,
         ~(count <= 0)
  PROVE  QuietInv'
<1>1. pc[p] = "s_test" /\ BalanceAt("s_test") /\ "out" \in QuietLabels
  BY QuietMove DEF QuietLabels, SemLabels
<1>2. \A i \in 1..Len(waiters) : waiters[i] # p
  BY <1>1, NotAsleepNotQueued
<1>3. count \in Int /\ count' \in Int
  BY DEF QuietInv, QuietQueue
<1>4. ASSUME Granted' = Granted PROVE BalanceAt("out")'
  BY <1>1, <1>3, <1>4, GrantedIsFinite DEF BalanceAt, Balance
<1> QED
  BY <1>1, <1>2, <1>3, <1>4, QuietPlain

LEMMA QuietOneWoken ==
  ASSUME Quiet, QuietInv, InitCount \in Nat, NEW p \in Procs,
         Move(p, "s_test", "out"), count' = count, count <= 0,
         NEW k \in 1..Len(waiters), waiters' = RemoveAt(waiters, k)
  PROVE  QuietInv'
<1>1. /\ pc' \in [Procs -> QuietLabels] /\ pc[p] = "s_test" /\ pc'[p] = "out"
      /\ \A q \in Procs \ {p} : pc'[q] = pc[q] /\ pc[q] \notin Running
      /\ BalanceAt("s_test")
  BY QuietMove DEF QuietLabels, SemLabels
<1>2. \A i \in 1..Len(waiters) : waiters[i] # p /\ waiters[i] \in Procs
  BY <1>1, NotAsleepNotQueued, ElementOfSeq DEF QuietInv, QuietQueue
<1>3. /\ count \in Int /\ waiters \in Seq(Procs) /\ Len(waiters) \in Nat
      /\ \A i \in 1..Len(waiters) : pc[waiters[i]] = "w_sleep"
      /\ \A i, j \in 1..Len(waiters) : waiters[i] = waiters[j] => i = j
  BY LenProperties DEF QuietInv, QuietQueue
<1>4. /\ waiters' \in Seq(Procs) /\ Len(waiters') = Len(waiters) - 1
      /\ \A j \in 1..(Len(waiters) - 1) :
           waiters'[j] = IF j < k THEN waiters[j] ELSE waiters[j + 1]
  BY <1>3, RemoveAtType
<1>5. QuietQueue'
  <2>1. \A i \in 1..Len(waiters') : pc'[waiters'[i]] = "w_sleep"
    BY <1>1, <1>2, <1>3, <1>4
  <2>2. \A i, j \in 1..Len(waiters') : waiters'[i] = waiters'[j] => i = j
    <3> SUFFICES ASSUME NEW i \in 1..Len(waiters'), NEW j \in 1..Len(waiters'),
                        waiters'[i] = waiters'[j]
                 PROVE  i = j
      OBVIOUS
    <3> DEFINE a == IF i < k THEN i ELSE i + 1
               b == IF j < k THEN j ELSE j + 1
    <3>1. a \in 1..Len(waiters) /\ b \in 1..Len(waiters)
      BY <1>3, <1>4
    <3>2. waiters'[i] = waiters[a] /\ waiters'[j] = waiters[b]
      BY <1>3, <1>4
    <3>3. a = b
      BY <1>3, <3>1, <3>2
    <3> QED
      BY <1>3, <1>4, <3>3
  <2>3. \A q, r \in Procs : pc'[q] \in Running /\ pc'[r] \in Running => q = r
    BY <1>1
  <2> QED
    BY <1>1, <1>3, <1>4, <2>1, <2>2, <2>3 DEF QuietQueue
<1> PICK v \in Procs : v = waiters[k]
  BY <1>2
<1>6. v # p /\ pc[v] = "w_sleep" /\ Queued(v)
  BY <1>2, <1>3 DEF Queued
<1>7. ~Queued(v)'
  <2> SUFFICES ASSUME NEW j \in 1..Len(waiters'), waiters'[j] = v
               PROVE  FALSE
    BY DEF Queued
  <2>1. CASE j < k
    BY <1>3, <1>4, <2>1
  <2>2. CASE ~(j < k)
    BY <1>3, <1>4, <2>2
  <2> QED
    BY <2>1, <2>2
<1>8. ASSUME NEW q \in Procs \ {p, v} PROVE Queued(q)' <=> Queued(q)
  <2>1. ASSUME Queued(q)' PROVE Queued(q)
    <3>1. PICK j \in 1..Len(waiters') : waiters'[j] = q
      BY <2>1 DEF Queued
    <3>2. (j < k => waiters[j] = q) /\ (~(j < k) => waiters[j + 1] = q)
      BY <1>3, <1>4, <3>1
    <3>3. j \in 1..Len(waiters) /\ j + 1 \in 1..Len(waiters)
      BY <1>3, <1>4
    <3> QED
      BY <3>2, <3>3 DEF Queued
  <2>2. ASSUME Queued(q) PROVE Queued(q)'
    <3>1. PICK j \in 1..Len(waiters) : waiters[j] = q
      BY <2>2 DEF Queued
    <3>2. j # k
      BY <3>1
    <3>3. CASE j < k
      <4>1. j \in 1..Len(waiters') /\ waiters'[j] = q
        BY <1>3, <1>4, <3>1, <3>3
      <4> QED
        BY <4>1 DEF Queued
    <3>4. CASE k < j
      <4>1. j - 1 \in 1..Len(waiters') /\ ~(j - 1 < k) /\ (j - 1) + 1 = j
        BY <1>3, <1>4, <3>4
      <4>2. waiters'[j - 1] = q
        BY <1>3, <1>4, <3>1, <4>1
      <4> QED
        BY <4>1, <4>2 DEF Queued
    <3> QED
      BY <3>2, <3>3, <3>4
  <2> QED
    BY <2>1, <2>2
<1>9. v \notin Granted /\ Granted' = Granted \cup {v}
  <2>1. v \notin Granted /\ v \in Granted'
    BY <1>1, <1>6, <1>7 DEF Granted
  <2>2. p \notin Granted /\ p \notin Granted'
    BY <1>1 DEF Granted
  <2>3. \A q \in Procs \ {p, v} : q \in Granted' <=> q \in Granted
    BY <1>1, <1>8 DEF Granted
  <2> QED
    BY <1>6, <2>1, <2>2, <2>3 DEF Granted
<1>10. /\ Cardinality(Granted') = Cardinality(Granted) + 1
       /\ Cardinality(Granted) \in Nat
  BY <1>9, GrantedIsFinite, MemberJoins
<1>11. BalanceAt("out")'
  BY <1>1, <1>3, <1>4, <1>10 DEF BalanceAt, Balance
<1>12. QuietBalance'
  BY <1>1, <1>11, BalanceOfMover
<1> QED
  BY <1>5, <1>12 DEF QuietInv

LEMMA QuietSignalTest ==
  ASSUME Quiet, QuietInv, InitCount \in Nat, NEW p \in Procs, SignalTest(p)
  PROVE  QuietInv'
<1>1. Move(p, "s_test", "out") /\ count' = count
  BY DEF SignalTest
<1>2. CASE ~(count <= 0)
  BY <1>1, <1>2, QuietNobodyWoken DEF SignalTest
<1>3. CASE count <= 0
  <2>1. BalanceAt("s_test") /\ count \in Int
    BY <1>1, QuietMove DEF QuietInv, QuietQueue, QuietLabels, SemLabels
  <2>2. Len(waiters) = 1 - count
    BY <1>3, <2>1 DEF BalanceAt, Balance
  <2>3. 1 \in 1..Len(waiters) /\ Asleep(1)
    BY <1>3, <2>1, <2>2 DEF QuietInv, QuietQueue, Asleep
  <2>4. PICK k \in 1..Len(waiters) : waiters' = RemoveAt(waiters, k)
    BY <1>3, <2>3 DEF SignalTest, WakeUp
  <2> QED
    BY <1>1, <1>3, <2>4, QuietOneWoken
<1> QED
  BY <1>2, <1>3

LEMMA QuietInvStep ==
  ASSUME Quiet, QuietInv, [SemNext]_semVars
  PROVE  QuietInv'
<1>0. InitCount \in Nat /\ count \in Int
      /\ {"out", "w_dec", "w_test", "w_prep", "in", "s_inc"} \subseteq QuietLabels
  BY InitCountAssumption DEF QuietInv, QuietQueue, QuietLabels, SemLabels
<1>1. CASE UNCHANGED semVars
  BY <1>1 DEF semVars, QuietInv, QuietQueue, QuietBalance, BalanceAt, Balance,
              Granted, Queued
<1>2. ASSUME NEW p \in Procs,
             Step(p) \/ WaitCall(p) \/ StraySignal(p) \/ Interrupt(p)
      PROVE  QuietInv'
  <2>1. CASE WaitCall(p)
    <3>1. Move(p, "out", "w_dec") /\ UNCHANGED <<count, waiters>>
      BY <2>1 DEF WaitCall
    <3>2. BalanceAt("out") /\ pc[p] = "out"
      BY <1>0, <3>1, QuietMove
    <3>3. \A i \in 1..Len(waiters) : waiters[i] # p
      BY <3>2, NotAsleepNotQueued
    <3>4. ASSUME Granted' = Granted PROVE BalanceAt("w_dec")'
      BY <3>1, <3>2, <3>4 DEF BalanceAt, Balance
    <3> QED
      BY <1>0, <3>1, <3>3, <3>4, QuietPlain
  <2>2. CASE WaitDec(p)
    <3>1. Move(p, "w_dec", "w_test") /\ count' = count - 1 /\ waiters' = waiters
      BY <2>2 DEF WaitDec
    <3>2. BalanceAt("w_dec") /\ pc[p] = "w_dec"
      BY <1>0, <3>1, QuietMove
    <3>3. \A i \in 1..Len(waiters) : waiters[i] # p
      BY <3>2, NotAsleepNotQueued
    <3>4. ASSUME Granted' = Granted PROVE BalanceAt("w_test")'
      BY <1>0, <3>1, <3>2, <3>4 DEF BalanceAt, Balance
    <3> QED
      BY <1>0, <3>1, <3>3, <3>4, QuietPlain
  <2>3. CASE WaitTest(p)
    <3>1. CASE count < 0
      <4>1. Move(p, "w_test", "w_prep") /\ UNCHANGED <<count, waiters>>
        BY <2>3, <3>1 DEF WaitTest
      <4>2. BalanceAt("w_test") /\ pc[p] = "w_test"
        BY <1>0, <4>1, QuietMove
      <4>3. \A i \in 1..Len(waiters) : waiters[i] # p
        BY <4>2, NotAsleepNotQueued
      <4>4. ASSUME Granted' = Granted PROVE BalanceAt("w_prep")'
        BY <1>0, <3>1, <4>1, <4>2, <4>4 DEF BalanceAt, Balance
      <4> QED
        BY <1>0, <4>1, <4>3, <4>4, QuietPlain
    <3>2. CASE ~(count < 0)
      BY <1>0, <2>3, <3>2, QuietEnter DEF WaitTest
    <3> QED
      BY <3>1, <3>2
  <2>4. CASE WaitPrepare(p)
    BY <1>0, <2>4, QuietSleep
  <2>5. CASE WaitFinish(p)
    <3>1. Move(p, "w_sleep", "in") /\ UNCHANGED <<count, waiters>>
      BY <2>5 DEF WaitFinish
    <3>2. BalanceAt("w_sleep")
      BY <1>0, <3>1, QuietMove
    <3>3. \A i \in 1..Len(waiters) : waiters[i] # p
      BY <2>5 DEF WaitFinish, Queued
    <3>4. ASSUME Granted' = Granted PROVE BalanceAt("in")'
      BY <3>1, <3>2, <3>4 DEF BalanceAt, Balance
    <3> QED
      BY <1>0, <3>1, <3>3, <3>4, QuietPlain
  <2>6. CASE SignalCall(p)
    <3>1. Move(p, "in", "s_inc") /\ UNCHANGED <<count, waiters>>
      BY <2>6 DEF SignalCall
    <3>2. BalanceAt("in") /\ pc[p] = "in"
      BY <1>0, <3>1, QuietMove
    <3>3. \A i \in 1..Len(waiters) : waiters[i] # p
      BY <3>2, NotAsleepNotQueued
    <3>4. ASSUME Granted' = Granted PROVE BalanceAt("s_inc")'
      BY <3>1, <3>2, <3>4 DEF BalanceAt, Balance
    <3> QED
      BY <1>0, <3>1, <3>3, <3>4, QuietPlain
  <2>7. CASE SignalInc(p)
    <3>1. pc[p] # "x_inc"
      BY DEF QuietInv, QuietQueue, QuietLabels
    <3>2. Move(p, "s_inc", "s_test")
      BY <2>7, <3>1 DEF SignalInc, Move
    <3> QED
      BY <1>0, <2>7, <3>2, QuietGiveBack DEF SignalInc
  <2>8. CASE SignalTest(p)
    BY <1>0, <2>8, QuietSignalTest
  <2>9. ~WaitInterrupted(p) /\ ~Interrupt(p) /\ ~StraySignal(p)
    BY DEF Quiet, QuietInv, QuietQueue, QuietLabels, WaitInterrupted, Interrupt,
           StraySignal, Move
  <2> QED
    BY <1>2, <2>1, <2>2, <2>3, <2>4, <2>5, <2>6, <2>7, <2>8, <2>9 DEF Step
<1> QED
  BY <1>1, <1>2 DEF SemNext

LEMMA QuietInvInit == SemInit => QuietInv
<1> SUFFICES ASSUME SemInit PROVE QuietInv
  OBVIOUS
<1>1. /\ count = InitCount /\ waiters = <<>> /\ pc = [p \in Procs |-> "out"]
      /\ InitCount \in Nat
  BY InitCountAssumption DEF SemInit
<1>2. Granted = {}
  BY <1>1 DEF Granted
<1>3. Cardinality(Granted) = 0
  BY <1>2, FS_EmptySet
<1>4. waiters \in Seq(Procs) /\ Len(waiters) = 0
  BY <1>1, EmptySeq
<1>5. Balance(count, InitCount)
  <2>1. count = InitCount /\ InitCount \in Nat
    BY <1>1
  <2>2. Len(waiters) = 0
    BY <1>4
  <2>3. ~(count < 0) /\ InitCount - count - 0 = 0
    BY <2>1
  <2> QED
    BY <1>3, <2>2, <2>3 DEF Balance
<1>6. QuietQueue
  BY <1>1, <1>4 DEF QuietQueue, QuietLabels, SemLabels, Running
<1>7. QuietBalance
  BY <1>1, <1>5 DEF QuietBalance, BalanceAt
<1> QED
  BY <1>6, <1>7 DEF QuietInv

LEMMA QuietInvAlways ==
  ASSUME Quiet
  PROVE  SemSpec => []QuietInv
<1>1. QuietInv /\ [SemNext]_semVars => QuietInv'
  BY QuietInvStep
<1> QED
  BY <1>1, QuietInvInit, PTL DEF SemSpec

(* At every moment some process may run, so some balance holds.            *)
LEMMA SomeBalance ==
  ASSUME QuietInv, NEW r \in Procs
  PROVE  \E p \in Procs : BalanceAt(pc[p]) /\ (pc[r] \in Running => p = r)
<1>1. CASE \E p \in Procs : pc[p] \in Running
  <2>1. PICK p \in Procs : pc[p] \in Running
    BY <1>1
  <2>2. \A q \in Procs \ {p} : pc[q] \notin Running
    BY <2>1 DEF QuietInv, QuietQueue
  <2> QED
    BY <2>1, <2>2 DEF QuietInv, QuietBalance
<1>2. CASE ~\E p \in Procs : pc[p] \in Running
  BY <1>2 DEF QuietInv, QuietBalance
<1> QED
  BY <1>1, <1>2

(* Mutual exclusion (exp6.c:1285) on a kernel where a system call runs     *)
(* until it sleeps, if no signals interrupt sleepers and only processes    *)
(* that waited signal: at most InitCount processes are let through.        *)
THEOREM SemaphoreExcludes ==
  ASSUME ~Preempt, Interrupted = {}, Strays = {}
  PROVE  SemSpec => []Exclusion
<1>0. Quiet
  BY DEF Quiet
<1>1. ASSUME QuietInv PROVE Exclusion
  <2>0. InitCount \in Nat /\ count \in Int
    BY <1>1, InitCountAssumption DEF QuietInv, QuietQueue
  <2>1. CASE Procs = {}
    <3>1. Granted = {}
      BY <2>1 DEF Granted
    <3> QED
      BY <2>0, <3>1, FS_EmptySet DEF Exclusion
  <2>2. CASE Procs # {}
    <3>1. PICK p \in Procs : BalanceAt(pc[p])
      BY <1>1, <2>2, SomeBalance
    <3>2. \/ Balance(count + 1, InitCount)
          \/ Balance(count - 1, InitCount - 1)
          \/ Balance(count, InitCount)
      BY <3>1 DEF BalanceAt
    <3> QED
      BY <2>0, <3>2 DEF Balance, Exclusion
  <2> QED
    BY <2>1, <2>2
<1>2. QuietInv => Exclusion
  BY <1>1
<1> QED
  BY <1>0, <1>2, QuietInvAlways, PTL

(* Under the same conditions nobody sleeps for a signal that was given     *)
(* (exp6.c:1346): while the queue is not empty, all units are taken, or    *)
(* the wake-up is on its way.                                              *)
THEOREM NoSignalIsLost ==
  ASSUME ~Preempt, Interrupted = {}, Strays = {}, InitCount > 0
  PROVE  SemSpec => []NoLostSignal
<1>0. Quiet
  BY DEF Quiet
<1>1. ASSUME QuietInv, waiters # <<>>,
             \A p \in Procs : pc[p] # "s_test"
      PROVE  Granted # {}
  <2>0. /\ InitCount \in Nat /\ count \in Int /\ waiters \in Seq(Procs)
        /\ Len(waiters) \in Nat
    BY <1>1, InitCountAssumption, LenProperties DEF QuietInv, QuietQueue
  <2>1. Len(waiters) # 0
    BY <1>1, <2>0, EmptySeq
  <2>2. waiters[1] \in Procs
    BY <2>0, <2>1, ElementOfSeq
  <2>3. PICK p \in Procs : BalanceAt(pc[p])
    BY <1>1, <2>2, SomeBalance
  <2>4. Balance(count + 1, InitCount) \/ Balance(count, InitCount)
    BY <1>1, <2>3 DEF BalanceAt
  <2>5. Cardinality(Granted) = InitCount
    BY <2>0, <2>1, <2>4 DEF Balance
  <2>6. Cardinality(Granted) # 0
    BY <2>0, <2>5
  <2> QED
    BY <2>6, FS_EmptySet
<1>2. QuietInv => NoLostSignal
  BY <1>1 DEF NoLostSignal, Granted
<1> QED
  BY <1>0, <1>2, QuietInvAlways, PTL
=============================================================================
