-------------------------- MODULE ExperimentsProofs --------------------------
(***************************************************************************)
(* Theorems of the smaller programs, for any sizes, users, lines and       *)
(* timers: ScullLoad, ProcFile, ScullFlat, ShellJobs and IntervalTimer.    *)
(***************************************************************************)
EXTENDS ScullLoad, ProcFile, ScullFlat, ShellJobs, IntervalTimer, FiniteSetTheorems,
        SequenceTheorems, TLAPS

-----------------------------------------------------------------------------
(* Loading of scull.  Each stage knows what the kernel has given, and each *)
(* cleanup function what an earlier one has taken back, so that the memory *)
(* tests of the cleanup (main.c 576, pipe.c 387) find all there is.        *)

LoadStages == Kinds \cup {"out", "alloc", "pipes", "palloc", "friends", "in",
                          "clean", "pclean", "aclean"}

(* Open and filled devices are initialised; a device's memory is there.    *)
DevicesHeld ==
    /\ held \subseteq live /\ live \subseteq ready /\ filled \subseteq ready
    /\ \A d \in ready : \E k \in Kinds : d \in Of(k)
    /\ \A d \in ready : d[1] = "sculla" \/ d[1] \in blocks
    /\ \A d \in ready : d[1] = "sculla" => friends
    /\ \A k \in Kinds, i \in 1..Nr : stage = <<k, i, "add">> => <<k, i>> \in ready

(* The numbers and the blocks, stage by stage.                             *)
KernelGave ==
    /\ regions \subseteq Kinds /\ blocks \subseteq {"scull", "scullp"}
    /\ "scullp" \in regions => "scullp" \in blocks \/ stage[1] = "palloc"
    /\ "sculla" \in regions => friends
    /\ stage[1] \in Kinds /\ stage[1] # "sculla" => stage[1] \in blocks
    /\ stage[1] = "sculla" => friends
    /\ stage[1] \in {"out", "alloc"} => blocks = {} /\ ready = {}
    /\ stage[1] = "out" => regions = {}
    /\ stage[1] = "alloc" => regions \subseteq {"scull"}
    /\ stage[1] \in {"pclean", "aclean"} => "scull" \notin regions \cup blocks
    /\ stage[1] = "aclean" => "scullp" \notin regions \cup blocks

LoadInv ==
    /\ stage[1] \in LoadStages /\ friends \in BOOLEAN
    /\ DevicesHeld /\ KernelGave
    /\ Going => held = {}

LEMMA DevicesOf ==
  ASSUME NEW k \in Kinds
  PROVE  \A d \in Of(k) : d[1] = k
BY DEF Of

LEMMA PairIsNoTriple ==
  ASSUME NEW a, NEW b, NEW c, NEW d, NEW e
  PROVE  <<a, b>> # <<c, d, e>>
<1>1. Len(<<a, b>>) = 2 /\ Len(<<c, d, e>>) = 3
  OBVIOUS
<1> QED
  BY <1>1

LEMMA LoadStart ==
  LoadInit => LoadInv
BY DEF LoadInit, LoadInv, LoadStages, DevicesHeld, KernelGave, Kinds

LEMMA ClaimSound ==
  ASSUME LoadInv, scull_init_module \/ scull_p_init \/ scull_access_init \/ InitDevices
  PROVE  LoadInv'
<1>1. /\ UNCHANGED <<friends, devices>> /\ stage'[1] \in LoadStages
      /\ Going' => Going \/ stage[1] = "alloc"
  BY DEF scull_init_module, scull_p_init, scull_access_init, InitDevices, Claim, Allocate, To,
         LoadStages, Kinds, Going
<1>2. DevicesHeld'
  BY <1>1 DEF scull_init_module, scull_p_init, scull_access_init, InitDevices, Claim, Allocate,
         kernel, devices, LoadInv, DevicesHeld, To
<1>3. KernelGave'
  <2>1. CASE scull_init_module
    <3>1. /\ stage[1] = "out" /\ UNCHANGED <<blocks, ready, friends>>
          /\ \/ stage'[1] = "alloc" /\ regions' = regions \cup {"scull"}
             \/ stage'[1] = "out" /\ UNCHANGED regions
      BY <2>1 DEF scull_init_module, Claim, To, devices
    <3> QED
      BY <3>1 DEF LoadInv, KernelGave, Kinds
  <2>2. CASE InitDevices
    <3>1. /\ stage[1] = "alloc" /\ UNCHANGED <<regions, ready, friends>>
          /\ \/ stage'[1] = "scull" /\ blocks' = blocks \cup {"scull"}
             \/ stage'[1] = "clean" /\ UNCHANGED blocks
      BY <2>2 DEF InitDevices, Allocate, To, devices, kernel
    <3> QED
      BY <3>1 DEF LoadInv, KernelGave, Kinds
  <2>3. CASE scull_p_init
    <3>1. /\ UNCHANGED <<ready, friends>>
          /\ \/ /\ stage[1] = "pipes" /\ UNCHANGED blocks
                /\ \/ stage'[1] = "palloc" /\ regions' = regions \cup {"scullp"}
                   \/ stage'[1] = "friends" /\ UNCHANGED regions
             \/ /\ stage[1] = "palloc" /\ stage'[1] = "scullp"
                /\ blocks' = blocks \cup {"scullp"} /\ UNCHANGED regions
             \/ /\ stage[1] = "palloc" /\ stage'[1] = "friends"
                /\ regions' = regions \ {"scullp"} /\ UNCHANGED blocks
      BY <2>3 DEF scull_p_init, Claim, Allocate, To, devices, kernel
    <3> QED
      BY <3>1 DEF LoadInv, KernelGave, Kinds
  <2>4. CASE scull_access_init
    <3>1. /\ stage[1] = "friends" /\ UNCHANGED <<blocks, ready, friends>>
          /\ \/ friends /\ stage'[1] = "sculla" /\ regions' = regions \cup {"sculla"}
             \/ stage'[1] = "in" /\ UNCHANGED regions
      BY <2>4 DEF scull_access_init, Claim, To, devices, kernel
    <3> QED
      BY <3>1 DEF LoadInv, KernelGave, Kinds
  <2> QED
    BY <2>1, <2>2, <2>3, <2>4
<1>4. Going' => held' = {}
  BY <1>1 DEF LoadInv, DevicesHeld, KernelGave, devices
<1> QED
  BY <1>1, <1>2, <1>3, <1>4 DEF LoadInv

LEMMA InitialiseSound ==
  ASSUME LoadInv, NEW k \in Kinds, Initialise(k)
  PROVE  LoadInv'
<1>1. PICK i \in 1..Nr : /\ To(<<k, i>>, <<k, i, "add">>)
                         /\ ready' = ready \cup {<<k, i>>}
                         /\ UNCHANGED <<kernel, live, held, filled>>
  BY DEF Initialise
<1>2. stage[1] = k /\ stage'[1] = k /\ UNCHANGED friends
  BY <1>1 DEF To
<1>3. <<k, i>> \in Of(k) /\ <<k, i>>[1] = k
  BY DEF Of
<1>4. KernelGave'
  BY <1>1, <1>2 DEF LoadInv, KernelGave, kernel, Kinds
<1>5. DevicesHeld'
  <2>1. /\ held' \subseteq live' /\ live' \subseteq ready' /\ filled' \subseteq ready'
        /\ \A d \in ready' : \E c \in Kinds : d \in Of(c)
    BY <1>1, <1>3 DEF LoadInv, DevicesHeld
  <2>2. /\ \A d \in ready' : d[1] = "sculla" \/ d[1] \in blocks'
        /\ \A d \in ready' : d[1] = "sculla" => friends'
    BY <1>1, <1>2, <1>3 DEF LoadInv, KernelGave, DevicesHeld, kernel, Kinds
  <2>3. stage' = <<k, i, "add">>
    BY <1>1 DEF To
  <2>4. \A c \in Kinds, j \in 1..Nr : stage' = <<c, j, "add">> => <<c, j>> \in ready'
    BY <1>1, <2>3
  <2> QED
    BY <2>1, <2>2, <2>4 DEF DevicesHeld
<1>6. ~Going'
  BY <1>2 DEF Going, Kinds
<1> QED
  BY <1>2, <1>4, <1>5, <1>6 DEF LoadInv, LoadStages

LEMMA AddSound ==
  ASSUME LoadInv, NEW k \in Kinds, NEW next, Add(k, next),
         next[1] \in {"pipes", "friends", "in"}
  PROVE  LoadInv'
<1>1. PICK i \in 1..Nr : /\ To(<<k, i, "add">>, IF i < Nr THEN <<k, i + 1>> ELSE next)
                         /\ live' \in {live, live \cup {<<k, i>>}}
                         /\ UNCHANGED <<kernel, ready, held, filled>>
  BY DEF Add
<1>2. /\ stage = <<k, i, "add">> /\ UNCHANGED friends
      /\ stage' = <<k, i + 1>> \/ stage' = next
  BY <1>1 DEF To
<1>3. stage[1] = k /\ stage'[1] \in {k, "pipes", "friends", "in"}
  BY <1>2
<1>4. KernelGave'
  BY <1>1, <1>3, <1>2 DEF LoadInv, KernelGave, kernel, Kinds
<1>5. <<k, i>> \in ready
  BY <1>2 DEF LoadInv, DevicesHeld
<1>6. \A c \in Kinds, j \in 1..Nr : stage' # <<c, j, "add">>
  <2>1. CASE stage' = <<k, i + 1>>
    BY <2>1, PairIsNoTriple
  <2>2. CASE stage' = next
    BY <2>2 DEF Kinds
  <2> QED
    BY <1>2, <2>1, <2>2
<1>7. DevicesHeld'
  BY <1>1, <1>2, <1>5, <1>6 DEF LoadInv, DevicesHeld, kernel
<1>8. ~Going'
  BY <1>3 DEF Going, Kinds
<1> QED
  BY <1>2, <1>3, <1>4, <1>7, <1>8 DEF LoadInv, LoadStages

LEMMA CleanupSound ==
  ASSUME LoadInv, rmmod \/ scull_cleanup_module \/ scull_p_cleanup \/ scull_access_cleanup
  PROVE  LoadInv'
<1>1. /\ UNCHANGED <<friends, held>> /\ held = {}
      /\ stage' \in {<<"clean", 0>>, <<"pclean", 0>>, <<"aclean", 0>>, <<"out", 0>>}
  BY DEF rmmod, scull_cleanup_module, scull_p_cleanup, scull_access_cleanup, To, Gone, kernel,
         devices, LoadInv, Going
<1>2. stage'[1] \in LoadStages /\ stage'[1] \notin Kinds \cup {"alloc"}
  BY <1>1 DEF LoadStages, Kinds
<1>3. \A c \in Kinds, j \in 1..Nr : stage' # <<c, j, "add">>
  BY <1>1, PairIsNoTriple
<1>4. CASE rmmod
  <2>1. stage'[1] = "clean" /\ UNCHANGED <<regions, blocks, ready, live, filled>>
    BY <1>4 DEF rmmod, To, kernel, devices
  <2>2. stage[1] = "in"
    BY <1>4 DEF rmmod, To
  <2> QED
    BY <1>1, <1>2, <1>3, <2>1, <2>2 DEF LoadInv, DevicesHeld, KernelGave, Kinds
<1>5. ASSUME NEW k \in Kinds, live' = live \ Of(k), ready' = ready \ Of(k),
             filled' = filled \ Of(k), blocks' = blocks \ {k}
      PROVE  /\ DevicesHeld'
             /\ \A d \in ready' : d \in ready /\ d[1] # k
  <2>1. \A d \in ready : d[1] = k => d \in Of(k)
    BY DevicesOf DEF LoadInv, DevicesHeld
  <2> QED
    BY <1>1, <1>3, <1>5, <2>1 DEF LoadInv, DevicesHeld
<1>6. ASSUME UNCHANGED devices, UNCHANGED blocks
      PROVE  DevicesHeld'
  BY <1>1, <1>3, <1>6 DEF LoadInv, DevicesHeld, devices
<1>7. CASE scull_cleanup_module
  <2>1. stage[1] = "clean" /\ stage'[1] = "pclean" /\ regions' = regions \ {"scull"}
    BY <1>7 DEF scull_cleanup_module, To
  <2>2. blocks' = blocks \ {"scull"} /\ DevicesHeld'
    <3>1. CASE "scull" \in blocks
      BY <1>5, <1>7, <3>1 DEF scull_cleanup_module, Gone, Kinds
    <3>2. CASE "scull" \notin blocks
      BY <1>6, <1>7, <3>2 DEF scull_cleanup_module
    <3> QED
      BY <3>1, <3>2
  <2>3. KernelGave'
    BY <1>1, <2>1, <2>2 DEF LoadInv, KernelGave, Kinds
  <2> QED
    BY <1>1, <1>2, <2>2, <2>3 DEF LoadInv
<1>8. CASE scull_p_cleanup
  <2>1. stage[1] = "pclean" /\ stage'[1] = "aclean"
    BY <1>8 DEF scull_p_cleanup, To
  <2>2. /\ regions' \subseteq regions /\ "scullp" \notin regions'
        /\ blocks' = blocks \ {"scullp"} /\ DevicesHeld'
    <3>1. CASE "scullp" \in blocks
      BY <1>5, <1>8, <3>1 DEF scull_p_cleanup, Gone, Kinds
    <3>2. CASE "scullp" \notin blocks
      BY <1>6, <1>8, <2>1, <3>2 DEF scull_p_cleanup, kernel, LoadInv, KernelGave
    <3> QED
      BY <3>1, <3>2
  <2>3. KernelGave'
    BY <1>1, <2>1, <2>2 DEF LoadInv, KernelGave, Kinds
  <2> QED
    BY <1>1, <1>2, <2>2, <2>3 DEF LoadInv
<1>9. CASE scull_access_cleanup
  <2>1. stage[1] = "aclean" /\ stage'[1] = "out"
    BY <1>9 DEF scull_access_cleanup, To
  <2>2. regions' = {} /\ blocks' = {}
    BY <1>9, <2>1 DEF scull_access_cleanup, Gone, kernel, LoadInv, KernelGave, Kinds
  <2>3. DevicesHeld' /\ ready' = {}
    <3>1. CASE friends
      BY <1>5, <1>9, <3>1, <2>1, <2>2 DEF scull_access_cleanup, Gone, Kinds, LoadInv, DevicesHeld, KernelGave
    <3>2. CASE ~friends
      BY <1>6, <1>9, <3>2, <2>1, <2>2 DEF scull_access_cleanup, kernel, devices, LoadInv, DevicesHeld, KernelGave
    <3> QED
      BY <3>1, <3>2
  <2> QED
    BY <1>1, <1>2, <2>1, <2>2, <2>3 DEF LoadInv, KernelGave, Kinds
<1> QED
  BY <1>4, <1>7, <1>8, <1>9

LEMMA UsersSound ==
  ASSUME LoadInv, NEW k \in Kinds, NEW d \in Of(k), Open(d) \/ Fill(d) \/ Close(d)
  PROVE  LoadInv'
<1>1. UNCHANGED <<friends, stage, regions, blocks, ready, live>>
  BY DEF Open, Fill, Close, kernel
<1>2. held' \subseteq live /\ filled' \subseteq ready /\ (Going => held' \subseteq held)
  BY DEF Open, Fill, Close, LoadInv, DevicesHeld
<1> QED
  BY <1>1, <1>2 DEF LoadInv, DevicesHeld, KernelGave, Going

(* Once the module is out, however it came to be, it has given back all it *)
(* had, and a device was never open before it was set up (main.c 570-673,  *)
(* pipe.c 347-397, access.c's init and cleanup).                           *)
THEOREM LoadingIsUndone == LoadSpec => []LoadSound
<1>1. LoadInv /\ [LoadNext]_loadVars => LoadInv'
  <2> SUFFICES ASSUME LoadInv, [LoadNext]_loadVars
               PROVE  LoadInv'
    OBVIOUS
  <2>1. CASE scull_init_module \/ scull_p_init \/ scull_access_init \/ InitDevices
    BY <2>1, ClaimSound
  <2>2. CASE InitDevice \/ InitPipe \/ Initialise("sculla")
    BY <2>2, InitialiseSound DEF InitDevice, InitPipe, Kinds
  <2>3. CASE scull_setup_cdev \/ scull_p_setup_cdev \/ Add("sculla", <<"in", 0>>)
    BY <2>3, AddSound DEF scull_setup_cdev, scull_p_setup_cdev, Kinds
  <2>4. CASE rmmod \/ scull_cleanup_module \/ scull_p_cleanup \/ scull_access_cleanup
    BY <2>4, CleanupSound
  <2>5. CASE \E k \in Kinds : \E d \in Of(k) : Open(d) \/ Fill(d) \/ Close(d)
    BY <2>5, UsersSound
  <2>6. CASE UNCHANGED loadVars
    BY <2>6 DEF loadVars, LoadInv, DevicesHeld, KernelGave, Going
  <2> QED
    BY <2>1, <2>2, <2>3, <2>4, <2>5, <2>6 DEF LoadNext, scull_access_setup
<1>2. LoadInv => LoadSound
  BY DEF LoadInv, DevicesHeld, KernelGave, LoadSound
<1> QED
  BY <1>1, <1>2, LoadStart, PTL DEF LoadSpec

-----------------------------------------------------------------------------
(* The flat device: size and position stay inside, so a read is a piece of *)
(* the sixteen bytes; only the device without memory can be left locked.   *)

FlatByte == Bytes \cup {0}

FlatInv ==
    /\ memory \in {"array", "pointer"}
    /\ data \in [1..SCULL_DATA_SIZE -> FlatByte]
    /\ size \in Positions /\ f_pos \in [Openers -> Positions]
    /\ DOMAIN got = Openers
    /\ down => memory = "pointer"
    /\ \A p \in Openers : Len(got[p]) <= SCULL_DATA_SIZE
    /\ memory = "pointer" => \A p \in Openers : got[p] \in {<<>>, <<"EFAULT">>}

LEMMA FlatStart ==
  FlatInit => FlatInv
<1>1. SCULL_DATA_SIZE \in Nat /\ Len(<<>>) = 0
  BY FlatAssumption
<1> QED
  BY <1>1 DEF FlatInit, FlatInv, Zeros, Positions, FlatByte

(* What a call returns fits if it is short enough.                         *)
LEMMA ReturnsSound ==
  ASSUME FlatInv, NEW p \in Openers, NEW r, Returns(p, r), UNCHANGED <<memory, data, size, down>>,
         Len(r) <= SCULL_DATA_SIZE, memory = "pointer" => r \in {<<>>, <<"EFAULT">>},
         f_pos' \in [Openers -> Positions]
  PROVE  FlatInv'
<1>1. got' = [got EXCEPT ![p] = r]
  BY DEF Returns
<1>2. DOMAIN got' = Openers /\ \A q \in Openers : got'[q] = IF q = p THEN r ELSE got[q]
  BY <1>1 DEF FlatInv
<1> QED
  BY <1>2 DEF FlatInv

LEMMA ShortAnswers ==
  Len(<<>>) <= SCULL_DATA_SIZE /\ Len(<<"EFAULT">>) <= SCULL_DATA_SIZE
<1>1. Len(<<>>) = 0 /\ Len(<<"EFAULT">>) = 1
  OBVIOUS
<1> QED
  BY <1>1, FlatAssumption

LEMMA FlatReadSound ==
  ASSUME FlatInv, NEW p \in Openers, NEW count \in Positions, scull_flat_read(p, count)
  PROVE  FlatInv'
<1> DEFINE n == Least(count, size - f_pos[p])
<1>1. memory = "array" /\ UNCHANGED <<memory, data, size, down>>
  BY DEF scull_flat_read, device
<1>2. CASE Returns(p, <<>>) /\ UNCHANGED f_pos
  BY <1>1, <1>2, ShortAnswers, ReturnsSound DEF FlatInv
<1>3. CASE Returns(p, <<"EFAULT">>) /\ UNCHANGED f_pos
  BY <1>1, <1>3, ShortAnswers, ReturnsSound DEF FlatInv
<1>4. CASE /\ f_pos[p] < size /\ Returns(p, SubSeq(data, f_pos[p] + 1, f_pos[p] + n))
           /\ f_pos' = [f_pos EXCEPT ![p] = @ + n]
  <2>1. /\ SCULL_DATA_SIZE \in Nat /\ size \in Nat /\ f_pos[p] \in Nat /\ count \in Nat
        /\ size <= SCULL_DATA_SIZE
    BY FlatAssumption DEF FlatInv, Positions
  <2>2. n \in Nat /\ f_pos[p] + n <= size
    BY <1>4, <2>1 DEF Least
  <2>3. data \in Seq(FlatByte) /\ Len(data) = SCULL_DATA_SIZE
    BY <2>1 DEF FlatInv
  <2> HIDE DEF n
  <2>4. Len(SubSeq(data, f_pos[p] + 1, f_pos[p] + n)) = n
    BY <2>1, <2>2, <2>3
  <2>5. f_pos' \in [Openers -> Positions]
    BY <1>4, <2>1, <2>2 DEF FlatInv, Positions
  <2>6. Len(SubSeq(data, f_pos[p] + 1, f_pos[p] + n)) <= SCULL_DATA_SIZE
    BY <2>1, <2>2, <2>4
  <2> QED
    BY <1>1, <1>4, <2>5, <2>6, ReturnsSound
<1>5. f_pos[p] >= size \/ f_pos[p] < size
  BY FlatAssumption DEF FlatInv, Positions
<1> QED
  BY <1>2, <1>3, <1>4, <1>5 DEF scull_flat_read

LEMMA FlatWriteSound ==
  ASSUME FlatInv, NEW p \in Openers, NEW count \in Positions, NEW b \in Bytes,
         scull_flat_write(p, count, b)
  PROVE  FlatInv'
<1> DEFINE at_ == f_pos[p]
           n == Least(count, SCULL_DATA_SIZE - at_)
<1>1. UNCHANGED <<memory, down, got>>
  BY DEF scull_flat_write
<1>2. /\ SCULL_DATA_SIZE \in Nat /\ at_ \in Nat /\ count \in Nat
  BY FlatAssumption DEF FlatInv, Positions
<1>3. \A k : Stored(at_, k, n, b) \in [1..SCULL_DATA_SIZE -> FlatByte]
  BY DEF Stored, FlatByte, FlatInv
<1>4. CASE UNCHANGED <<data, size, f_pos>>
  BY <1>1, <1>4 DEF FlatInv
<1>5. CASE /\ at_ < SCULL_DATA_SIZE /\ data' = Stored(at_, n, n, b)
           /\ f_pos' = [f_pos EXCEPT ![p] = at_ + n] /\ size' = at_ + n
  <2>1. at_ + n \in Positions
    BY <1>2, <1>5 DEF Least, Positions
  <2> QED
    BY <1>1, <1>3, <1>5, <2>1 DEF FlatInv
<1>6. CASE \E k \in 0..n - 1 : data' = Stored(at_, k, n, b) /\ UNCHANGED <<size, f_pos>>
  BY <1>1, <1>3, <1>6 DEF FlatInv
<1>7. at_ >= SCULL_DATA_SIZE \/ at_ < SCULL_DATA_SIZE
  BY <1>2
<1> QED
  BY <1>4, <1>5, <1>6, <1>7 DEF scull_flat_write

LEMMA FlatOpenSound ==
  ASSUME FlatInv, NEW p \in Openers, NEW m, scull_flat_open(p, m) \/ parta_open(p, m)
  PROVE  FlatInv'
<1>1. UNCHANGED <<memory, got>>
  BY DEF scull_flat_open, parta_open, Oops, device
<1>2. 0 \in Positions /\ Zeros \in [1..SCULL_DATA_SIZE -> FlatByte]
  BY FlatAssumption DEF Positions, Zeros, FlatByte
<1>3. f_pos' \in [Openers -> Positions]
  BY <1>2 DEF scull_flat_open, parta_open, Oops, device, FlatInv
<1>4. /\ data' \in [1..SCULL_DATA_SIZE -> FlatByte] /\ size' \in Positions
      /\ down' => memory' = "pointer"
  BY <1>1, <1>2 DEF scull_flat_open, parta_open, Oops, device, FlatInv
<1> QED
  BY <1>1, <1>3, <1>4 DEF FlatInv

LEMMA FlatStepSound ==
  ASSUME FlatInv, [FlatNext]_flatVars
  PROVE  FlatInv'
<1>1. ASSUME NEW p \in Openers, FlatStep(p)
      PROVE  FlatInv'
  <2>1. CASE \E m \in {"r", "w", "rw"} : scull_flat_open(p, m) \/ parta_open(p, m)
    BY <2>1, FlatOpenSound
  <2>2. CASE scull_flat_release(p)
    BY <2>2 DEF scull_flat_release, device, FlatInv
  <2>3. CASE parta_read(p)
    <3>1. /\ memory = "pointer" /\ UNCHANGED <<memory, data, size, down, f_pos>>
          /\ Returns(p, <<>>) \/ Returns(p, <<"EFAULT">>)
      BY <2>3 DEF parta_read, device
    <3> QED
      BY <3>1, ShortAnswers, ReturnsSound DEF FlatInv
  <2>4. CASE \E count \in Positions : scull_flat_read(p, count)
    BY <2>4, FlatReadSound
  <2>5. CASE \E count \in Positions : scull_flat_llseek(p, count)
    <3>1. UNCHANGED <<memory, data, size, down, got>>
      BY <2>5 DEF scull_flat_llseek, device
    <3>2. f_pos' \in [Openers -> Positions]
      BY <2>5 DEF scull_flat_llseek, FlatInv
    <3> QED
      BY <3>1, <3>2 DEF FlatInv
  <2>6. CASE \E count \in Positions : parta_write(p, count)
    <3>1. memory = "pointer" /\ UNCHANGED <<memory, data, f_pos, got>> /\ size' \in Positions
      BY <2>6 DEF parta_write, Oops, flatVars, FlatInv
    <3> QED
      BY <3>1 DEF FlatInv
  <2>7. CASE \E count \in Positions, b \in Bytes : scull_flat_write(p, count, b)
    BY <2>7, FlatWriteSound
  <2> QED
    BY <1>1, <2>1, <2>2, <2>3, <2>4, <2>5, <2>6, <2>7 DEF FlatStep
<1>2. CASE scull_flat_init \/ scull_flat_cleanup \/ parta_cleanup \/ UNCHANGED flatVars
  <2>1. 0 \in Positions /\ Zeros \in [1..SCULL_DATA_SIZE -> FlatByte]
    BY FlatAssumption DEF Positions, Zeros, FlatByte
  <2>2. /\ UNCHANGED <<memory, f_pos, got>>
        /\ down' => down
        /\ data' = data \/ data' = Zeros
        /\ size' = size \/ size' = 0
    BY <1>2 DEF scull_flat_init, scull_flat_cleanup, parta_cleanup, flatVars
  <2>3. data' \in [1..SCULL_DATA_SIZE -> FlatByte] /\ size' \in Positions
    BY <2>1, <2>2 DEF FlatInv
  <2>4. f_pos' \in [Openers -> Positions]
    BY <2>2 DEF FlatInv
  <2> QED
    BY <2>2, <2>3, <2>4 DEF FlatInv
<1> QED
  BY <1>1, <1>2 DEF FlatNext

(* Sizes, positions and reads stay within the device, no error path of     *)
(* main.c leaves the semaphore down, and the device of parta/main.c never  *)
(* delivers a byte.                                                        *)
THEOREM FlatDeviceIsSound == FlatSpec => []FlatSound
<1>1. FlatInv /\ [FlatNext]_flatVars => FlatInv'
  BY FlatStepSound
<1>2. FlatInv => FlatSound
  BY FlatAssumption DEF FlatInv, FlatSound, Positions
<1> QED
  BY <1>1, <1>2, FlatStart, PTL DEF FlatSpec

-----------------------------------------------------------------------------
(* The timers.  A timer that has ended n times has run n intervals and     *)
(* what is gone of the next one, and its handler has counted ten seconds   *)
(* for each; getitimer's answer keeps that relation while time goes on.    *)

Periods(passed, left, n) ==
    left \in 1..Interval /\ passed = n * Interval + (Interval - left)

Ended(t, n) == Periods(elapsed[t], it_value[t], n) /\ secs[t] = n * Ten

(* The timer ended k more times since it was asked for.                    *)
AskedWas(n, k) == Periods(asked[2], asked[1], n) /\ secs[Head(todo)] = (n + k) * Ten

MeasureInv ==
    /\ elapsed \in [Timers -> Nat] /\ it_value \in [Timers -> Nat] /\ secs \in [Timers -> Nat]
    /\ todo \in Seq(Timers) /\ DOMAIN reported = Timers
    /\ elapsed["real"] <= MaxTime /\ \A t \in Timers : elapsed[t] <= elapsed["real"]
    /\ \A t \in Timers : \E n \in Nat : Ended(t, n)
    /\ asked # <<>> => /\ todo # <<>> /\ asked[1] \in Nat /\ asked[2] \in Nat
                       /\ \E n, k \in Nat : AskedWas(n, k)
    /\ TimeCovered

CountInts ==
    /\ intr \in Int /\ began \in Int
    /\ stime \in [Timers -> Int] /\ otime \in [Timers -> Int] /\ sums \in [Timers -> Int]

TimerInv == MeasureInv /\ CountInts /\ CountsAddUp

LEMMA IntervalIsPositive == Interval \in Nat /\ Interval >= 1
<1>1. Ten * Second >= 2 /\ Ten * Second \in Nat
  BY TimerAssumption
<1> QED
  BY <1>1 DEF Interval

LEMMA TimerStart ==
  TimerInit => TimerInv
<1> SUFFICES ASSUME TimerInit
             PROVE  TimerInv
  OBVIOUS
<1>1. Interval \in Nat /\ Interval >= 1
  BY IntervalIsPositive
<1>2. \A t \in Timers : elapsed[t] = 0 /\ it_value[t] = Interval /\ secs[t] = 0
  BY DEF TimerInit, Each
<1>3. 0 = 0 * Interval + (Interval - Interval) /\ 0 = 0 * Ten /\ Interval \in 1..Interval
  BY <1>1, TimerAssumption
<1>4. \A t \in Timers : Ended(t, 0)
  BY <1>2, <1>3 DEF Ended, Periods
<1>5. \A t \in Timers : \E n \in Nat : Ended(t, n)
  BY <1>4
<1>6. TimeCovered /\ DOMAIN reported = Timers
  BY DEF TimerInit, TimeCovered, Each
<1>7. /\ elapsed \in [Timers -> Nat] /\ it_value \in [Timers -> Nat] /\ secs \in [Timers -> Nat]
      /\ todo \in Seq(Timers) /\ "real" \in Timers
  BY <1>1 DEF TimerInit, Each, Timers
<1>8. MeasureInv
  BY <1>2, <1>5, <1>6, <1>7, TimerAssumption DEF TimerInit, MeasureInv
<1>9. CountInts /\ CountsAddUp
  BY DEF TimerInit, Each, CountInts, CountsAddUp
<1> QED
  BY <1>8, <1>9 DEF TimerInv

(* One microsecond of one timer.                                           *)
LEMMA OneMore ==
  ASSUME NEW e \in Nat, NEW i \in Nat, NEW n \in Nat, Periods(e, i, n)
  PROVE  IF i = 1 THEN Periods(e + 1, Interval, n + 1) ELSE Periods(e + 1, i - 1, n)
<1>1. Interval \in Nat /\ Interval >= 1
  BY IntervalIsPositive
<1>2. (n + 1) * Interval = n * Interval + Interval /\ n * Interval \in Nat
  BY <1>1
<1> HIDE DEF Interval
<1> QED
  BY <1>1, <1>2 DEF Periods

LEMMA TickSound ==
  ASSUME MeasureInv, NEW running \in {{"real"}, {"real", "prof"}, Timers}, Tick(running)
  PROVE  MeasureInv'
<1>1. /\ elapsed["real"] < MaxTime /\ "real" \in running /\ running \subseteq Timers
      /\ UNCHANGED <<todo, asked, reported>>
  BY DEF Tick, Timers
<1>2. \A t \in Timers :
        IF t \in running
        THEN /\ elapsed'[t] = elapsed[t] + 1
             /\ IF it_value[t] = 1 THEN it_value'[t] = Interval /\ secs'[t] = secs[t] + Ten
                ELSE it_value'[t] = it_value[t] - 1 /\ secs'[t] = secs[t]
        ELSE elapsed'[t] = elapsed[t] /\ it_value'[t] = it_value[t] /\ secs'[t] = secs[t]
  BY DEF Tick
<1>3. Interval \in Nat /\ Interval >= 1
  BY IntervalIsPositive
<1>4. ASSUME NEW t \in Timers
      PROVE  /\ elapsed'[t] \in Nat /\ it_value'[t] \in Nat /\ secs'[t] \in Nat
             /\ \E n \in Nat : Ended(t, n)'
             /\ elapsed'[t] <= elapsed'["real"]
             /\ secs'[t] = secs[t] \/ secs'[t] = secs[t] + Ten
  <2>1. PICK n \in Nat : Periods(elapsed[t], it_value[t], n) /\ secs[t] = n * Ten
    BY DEF MeasureInv, Ended
  <2>2. /\ elapsed[t] \in Nat /\ it_value[t] \in Nat /\ secs[t] \in Nat /\ it_value[t] >= 1
        /\ elapsed["real"] \in Nat /\ elapsed[t] <= elapsed["real"]
    BY <2>1, <1>1, <1>3 DEF MeasureInv, Periods
  <2>3. elapsed'[t] <= elapsed'["real"]
    BY <1>1, <1>2, <2>2
  <2>4. CASE t \notin running
    <3>1. Ended(t, n)'
      BY <1>2, <2>1, <2>4 DEF Ended, Periods
    <3> QED
      BY <1>2, <2>2, <2>3, <2>4, <3>1
  <2>5. CASE t \in running /\ it_value[t] = 1
    <3>1. Periods(elapsed[t] + 1, Interval, n + 1) /\ (n + 1) * Ten = n * Ten + Ten /\ n + 1 \in Nat
      BY <2>1, <2>2, <2>5, OneMore, TimerAssumption
    <3>2. Ended(t, n + 1)'
      BY <1>2, <2>1, <2>5, <3>1 DEF Ended, Periods
    <3> QED
      BY <1>2, <1>3, <2>2, <2>3, <2>5, <3>1, <3>2, TimerAssumption
  <2>6. CASE t \in running /\ it_value[t] # 1
    <3>1. Periods(elapsed[t] + 1, it_value[t] - 1, n)
      BY <2>1, <2>2, <2>6, OneMore
    <3>2. Ended(t, n)'
      BY <1>2, <2>1, <2>6, <3>1 DEF Ended, Periods
    <3> QED
      BY <1>2, <2>2, <2>3, <2>6, <3>2
  <2> QED
    BY <2>4, <2>5, <2>6
<1>5. elapsed' \in [Timers -> Nat] /\ it_value' \in [Timers -> Nat] /\ secs' \in [Timers -> Nat]
  <2>1. /\ elapsed' = [t \in Timers |-> elapsed'[t]] /\ it_value' = [t \in Timers |-> it_value'[t]]
        /\ secs' = [t \in Timers |-> secs'[t]]
    BY DEF Tick
  <2> QED
    BY <1>4, <2>1
<1>6. elapsed'["real"] <= MaxTime
  BY <1>1, <1>2, TimerAssumption DEF MeasureInv
<1>7. ASSUME asked # <<>>
      PROVE  \E n, k \in Nat : AskedWas(n, k)'
  <2>1. PICK n \in Nat, k \in Nat : Periods(asked[2], asked[1], n) /\ secs[Head(todo)] = (n + k) * Ten
    BY <1>7 DEF MeasureInv, AskedWas
  <2>2. Head(todo) \in Timers
    BY <1>7 DEF MeasureInv
  <2>3. CASE secs'[Head(todo)] = secs[Head(todo)]
    BY <1>1, <2>1, <2>3 DEF AskedWas, Periods
  <2>4. CASE secs'[Head(todo)] = secs[Head(todo)] + Ten
    <3>1. (n + (k + 1)) * Ten = (n + k) * Ten + Ten /\ k + 1 \in Nat
      BY TimerAssumption
    <3>2. AskedWas(n, k + 1)'
      BY <1>1, <2>1, <2>4, <3>1 DEF AskedWas, Periods
    <3> QED
      BY <3>1, <3>2
  <2> QED
    BY <1>4, <2>2, <2>3, <2>4
<1>8. TimeCovered'
  BY <1>1 DEF MeasureInv, TimeCovered
<1> QED
  BY <1>1, <1>4, <1>5, <1>6, <1>7, <1>8 DEF MeasureInv

LEMMA AskSound ==
  ASSUME MeasureInv, getitimer
  PROVE  MeasureInv'
<1>1. /\ todo # <<>> /\ asked' = <<it_value[Head(todo)], elapsed[Head(todo)]>>
      /\ UNCHANGED <<elapsed, it_value, secs, todo, reported>>
  BY DEF getitimer
<1>2. Head(todo) \in Timers
  BY <1>1 DEF MeasureInv
<1>3. asked'[1] = it_value[Head(todo)] /\ asked'[2] = elapsed[Head(todo)]
  BY <1>1
<1>4. PICK n \in Nat : Periods(elapsed[Head(todo)], it_value[Head(todo)], n)
                       /\ secs[Head(todo)] = n * Ten
  BY <1>2 DEF MeasureInv, Ended
<1>5. AskedWas(n, 0)'
  BY <1>1, <1>3, <1>4 DEF AskedWas, Periods
<1>6. TimeCovered'
  BY <1>1 DEF MeasureInv, TimeCovered
<1>7. asked'[1] \in Nat /\ asked'[2] \in Nat /\ \E m, k \in Nat : AskedWas(m, k)'
  BY <1>2, <1>3, <1>5 DEF MeasureInv
<1>8. \A t \in Timers : \E m \in Nat : Ended(t, m)'
  BY <1>1 DEF MeasureInv, Ended, Periods
<1> QED
  BY <1>1, <1>6, <1>7, <1>8 DEF MeasureInv

LEMMA Remainder ==
  ASSUME NEW i \in Nat, NEW d \in Nat \ {0}
  PROVE  /\ i \div d \in Nat /\ i % d \in Nat /\ i % d < d
         /\ i = d * (i \div d) + (i % d)
  OBVIOUS

(* The time that is printed, less the time that passed (S: Second, T: Ten).*)
Printed(S, T, left, passed, counted, n, k) ==
    ((counted + T - (left \div S)) * S + (S - (left % S))) - passed - (S + 1 + n) = k * T * S

LEMMA PrintedTime ==
  ASSUME NEW S \in Nat \ {0}, NEW T \in Nat, NEW left \in Nat, NEW n \in Nat, NEW k \in Nat,
         NEW passed, passed = n * (T * S - 1) + (T * S - 1 - left),
         NEW counted, counted = (n + k) * T
  PROVE  Printed(S, T, left, passed, counted, n, k)
<1> DEFINE q == left \div S
           r == left % S
<1>1. q \in Nat /\ r \in Nat /\ left = S * q + r
  BY Remainder
<1> HIDE DEF q, r
<1>2. (((n + k) * T + T - q) * S + (S - r)) - (n * (T * S - 1) + (T * S - 1 - (S * q + r)))
         - (S + 1 + n) = k * T * S
  BY <1>1, Z3
<1>3. ((counted + T - q) * S + (S - r)) - passed - (S + 1 + n) = k * T * S
  BY <1>1, <1>2
<1> QED
  BY <1>3 DEF Printed, q, r

(* The intervals in a time, and that they are no more than it.             *)
LEMMA PeriodsCounted ==
  ASSUME NEW e \in Nat, NEW i \in Nat, NEW n \in Nat, Periods(e, i, n)
  PROVE  e \div Interval = n /\ n <= e
<1> DEFINE d == Interval
           q == e \div d
           x == e % d
<1>1. d \in Nat \ {0}
  BY IntervalIsPositive
<1>2. i \in 1..d /\ e = n * d + (d - i)
  BY DEF Periods
<1>3. q \in Nat /\ x \in Nat /\ x < d /\ e = d * q + x
  BY <1>1, Remainder
<1> SUFFICES q = n /\ n <= e
  OBVIOUS
<1> HIDE DEF d, q, x
<1>4. n * d = d * n /\ d * n \in Nat /\ d * q \in Nat /\ n <= d * n
  BY <1>1, <1>3, Z3
<1>5. ASSUME q > n
      PROVE  FALSE
  <2>1. d * q >= d * (n + 1)
    BY <1>1, <1>3, <1>5, Z3
  <2>2. d * (n + 1) = d * n + d
    BY <1>1, Z3
  <2> QED
    BY <1>1, <1>2, <1>3, <1>4, <2>1, <2>2
<1>6. ASSUME q < n
      PROVE  FALSE
  <2>1. d * n >= d * (q + 1)
    BY <1>1, <1>3, <1>6, Z3
  <2>2. d * (q + 1) = d * q + d
    BY <1>1, <1>3, Z3
  <2> QED
    BY <1>1, <1>2, <1>3, <1>4, <2>1, <2>2
<1>7. q = n
  BY <1>3, <1>5, <1>6
<1>8. n <= e
  BY <1>1, <1>2, <1>4
<1> QED
  BY <1>7, <1>8

LEMMA PrintSound ==
  ASSUME MeasureInv, PrintTime
  PROVE  MeasureInv'
<1> DEFINE t == Head(todo)
           sec == secs[t] + Ten - (asked[1] \div Second)
           usec == Second - (asked[1] % Second)
           printed == sec * Second + usec
<1>1. /\ asked # <<>> /\ reported' = [reported EXCEPT ![t] = <<printed, asked[2]>>]
      /\ todo' = Tail(todo) /\ asked' = <<>> /\ UNCHANGED <<elapsed, it_value, secs>>
  BY DEF PrintTime
<1>2. t \in Timers /\ todo' \in Seq(Timers) /\ asked[1] \in Nat /\ asked[2] \in Nat
  BY <1>1 DEF MeasureInv
<1>3. PICK n \in Nat, k \in Nat : Periods(asked[2], asked[1], n) /\ secs[t] = (n + k) * Ten
  BY <1>1 DEF MeasureInv, AskedWas
<1>4. PICK m \in Nat : Periods(elapsed[t], it_value[t], m) /\ secs[t] = m * Ten
  BY <1>2 DEF MeasureInv, Ended
<1>5. k \in 0..MaxTime
  <2>1. m = n + k
    <3>1. (n + k) * Ten = m * Ten /\ Ten \in Nat \ {0}
      BY <1>3, <1>4, TimerAssumption
    <3> QED
      BY <3>1
  <2>2. m <= elapsed[t] /\ elapsed[t] <= elapsed["real"] /\ elapsed["real"] <= MaxTime
        /\ elapsed[t] \in Nat /\ elapsed["real"] \in Nat
    BY <1>2, <1>4, PeriodsCounted DEF MeasureInv, Timers
  <2> QED
    BY <2>1, <2>2, TimerAssumption
<1>6. asked[2] \div Interval = n
  BY <1>2, <1>3, PeriodsCounted
<1>7. printed - asked[2] - (Second + 1 + n) = k * Ten * Second
  <2>1. asked[2] = n * (Ten * Second - 1) + (Ten * Second - 1 - asked[1])
    BY <1>3 DEF Periods, Interval
  <2>2. Second \in Nat \ {0} /\ Ten \in Nat /\ asked[1] \in Nat
    BY <1>2, TimerAssumption
  <2>3. Printed(Second, Ten, asked[1], asked[2], secs[t], n, k)
    BY <1>3, <2>1, <2>2, PrintedTime
  <2> QED
    BY <2>3 DEF Printed
<1> HIDE DEF printed
<1>8. TimeCovered'
  <2> SUFFICES ASSUME NEW s \in Timers, reported'[s] # <<>>
               PROVE  LET over == reported'[s][1] - reported'[s][2]
                          c == reported'[s][2] \div Interval
                      IN over - (Second + 1 + c) \in {j * Ten * Second : j \in 0..MaxTime}
    BY DEF TimeCovered
  <2>1. CASE s # t
    <3>1. reported'[s] = reported[s]
      BY <1>1, <2>1 DEF MeasureInv
    <3> QED
      BY <3>1 DEF MeasureInv, TimeCovered
  <2>2. CASE s = t
    <3>2. reported' = [reported EXCEPT ![s] = <<printed, asked[2]>>]
      BY <1>1, <2>2
    <3>3. reported'[s][1] = printed /\ reported'[s][2] = asked[2]
      BY <3>2 DEF MeasureInv
    <3>4. k * Ten * Second \in {j * Ten * Second : j \in 0..MaxTime}
      BY <1>5
    <3> QED
      BY <1>6, <1>7, <3>3, <3>4
  <2> QED
    BY <2>1, <2>2
<1>9. DOMAIN reported' = Timers
  BY <1>1 DEF MeasureInv
<1>10. \A s \in Timers : \E c \in Nat : Ended(s, c)'
  BY <1>1 DEF MeasureInv, Ended, Periods
<1> QED
  BY <1>1, <1>2, <1>8, <1>9, <1>10 DEF MeasureInv

(* Each handler counts from its own last report.                           *)
LEMMA CountSound ==
  ASSUME CountInts, CountsAddUp, CountNext
  PROVE  CountInts' /\ CountsAddUp'
<1>1. CASE Interrupt
  BY <1>1 DEF Interrupt, CountInts, CountsAddUp
<1>4. ASSUME NEW t \in Timers, Signal(t)
      PROVE  CountInts' /\ CountsAddUp'
  BY <1>4 DEF Signal, CountInts, CountsAddUp
<1>2. ASSUME NEW t \in Timers, ReadStat(t)
      PROVE  CountInts' /\ CountsAddUp'
  BY <1>2 DEF ReadStat, CountInts, CountsAddUp
<1>3. ASSUME NEW t \in Timers, PrintCount(t)
      PROVE  CountInts' /\ CountsAddUp'
  BY <1>3 DEF PrintCount, CountInts, CountsAddUp
<1> QED
  BY <1>1, <1>2, <1>3, <1>4 DEF CountNext

(* mytimer.c prints the time that passed and a second, and no more than a  *)
(* microsecond for each interval and ten seconds for each signal between   *)
(* the question and the print, whatever the intervals and in each of the   *)
(* three times; the counts that exp3d.c prints add up to the interrupts    *)
(* though its handlers interrupt each other.                               *)
THEOREM ReportsAreRight == TimerSpec => []ReportsRight
<1>1. TimerInv /\ [TimerNext]_timerVars => TimerInv'
  <2> SUFFICES ASSUME TimerInv, [TimerNext]_timerVars
               PROVE  TimerInv'
    OBVIOUS
  <2>1. CASE MeasureNext
    <3>1. MeasureInv'
      BY <2>1, TickSound, AskSound, PrintSound DEF MeasureNext, TimerInv
    <3>2. UNCHANGED counts
      BY <2>1 DEF MeasureNext, Tick, getitimer, PrintTime
    <3> QED
      BY <3>1, <3>2 DEF TimerInv, CountInts, CountsAddUp, counts
  <2>2. CASE CountNext
    <3>1. CountInts' /\ CountsAddUp'
      BY <2>2, CountSound DEF TimerInv
    <3>2. UNCHANGED measure
      BY <2>2 DEF CountNext, Interrupt, Signal, ReadStat, PrintCount
    <3>3. MeasureInv'
      BY <3>2 DEF TimerInv, MeasureInv, measure, Ended, AskedWas, Periods, TimeCovered
    <3> QED
      BY <3>1, <3>3 DEF TimerInv
  <2>3. CASE UNCHANGED timerVars
    <3>1. UNCHANGED measure /\ UNCHANGED counts
      BY <2>3 DEF timerVars
    <3>2. MeasureInv'
      BY <3>1 DEF TimerInv, MeasureInv, measure, Ended, AskedWas, Periods, TimeCovered
    <3> QED
      BY <3>1, <3>2 DEF TimerInv, CountInts, CountsAddUp, counts
  <2> QED
    BY <2>1, <2>2, <2>3 DEF TimerNext
<1>2. TimerInv => ReportsRight
  BY DEF TimerInv, MeasureInv, ReportsRight
<1> QED
  BY <1>1, <1>2, TimerStart, PTL DEF TimerSpec

-----------------------------------------------------------------------------
(* The shell.  Its two last children decide whether it can go on: the one  *)
(* that writes to the pipe holds the only writing end there is, and the    *)
(* one that reads the only reading end but for the shell's, which it       *)
(* closes between its waits.  Jobs of earlier lines do not matter, neither *)
(* for that nor for the number of children nobody has waited for.          *)

KidStates == {"run", "write", "read", "zombie", "gone"}
Kid == [state : KidStates, in : Int, out : Int, ends : SUBSET (Nat \X {"r", "w"}), job : BOOLEAN]

ShellPlaces == {"prompt", "command", "fork1", "fork2", "wait1", "wait2", "exited"}

ShellTypes ==
    /\ at \in ShellPlaces /\ isbkg \in BOOLEAN /\ mypipe \in Nat
    /\ kids \in Seq(Kid) /\ ends \subseteq Nat \X {"r", "w"}

(* A kid reads and writes pipes only; no end is of a pipe still to come.   *)
KidFits(k) ==
    /\ k.state = "read" => k.in > 0
    /\ k.state = "write" => k.out > 0
    /\ \A q \in Nat, e \in {"r", "w"} : <<q, e>> \in k.ends => q <= mypipe

PipeIn(e) == <<mypipe, e>> \in ends
OnlyKid(e, i) == \A j \in 1..Len(kids) : <<mypipe, e>> \in kids[j].ends => j = i

(* The shell has a writing end between pipe() and the second fork only.    *)
PipeEnds ==
    /\ \A q \in Nat, e \in {"r", "w"} : <<q, e>> \in ends => q <= mypipe
    /\ PipeIn("w") => /\ at \in {"fork1", "fork2"} /\ PipeIn("r")
                      /\ "|" \in flags
    /\ PipeIn("w") /\ at = "fork1" => OnlyKid("w", 0) /\ OnlyKid("r", 0)
    /\ ~isbkg /\ "|" \in flags /\ at \in {"command", "fork1", "fork2"} => PipeIn("w") \/ ~PipeIn("r")
    /\ at = "wait2" => ~PipeIn("r")
    /\ at \in {"fork2", "wait2"} => "|" \in flags
    /\ at \in {"wait1", "wait2"} => ~isbkg

Last == Len(kids)

(* Between the forks, and while the shell waits.                           *)
FirstForked ==
    /\ Last >= 1 /\ kids[Last].in <= 0 /\ kids[Last].state # "gone"
    /\ IF PipeIn("w") THEN kids[Last].out = mypipe /\ OnlyKid("w", Last) /\ OnlyKid("r", 0)
       ELSE kids[Last].out <= 0

Pair ==
    /\ Last >= 2 /\ kids[Last - 1].in <= 0 /\ kids[Last].out <= 0
    /\ \/ kids[Last - 1].out <= 0 /\ kids[Last].in <= 0
       \/ /\ kids[Last - 1].out = mypipe /\ kids[Last].in = mypipe
          /\ OnlyKid("w", Last - 1) /\ OnlyKid("r", Last)

Alone == Last >= 1 /\ kids[Last].in <= 0 /\ kids[Last].out <= 0 /\ kids[Last].state # "gone"

Children ==
    /\ at = "fork2" => FirstForked
    /\ at = "wait1" /\ "|" \notin flags => Alone
    /\ at = "wait1" /\ "|" \in flags =>
           Pair /\ kids[Last].state # "gone" /\ kids[Last - 1].state # "gone"
    /\ at = "wait2" => Pair /\ (kids[Last].state # "gone" \/ kids[Last - 1].state # "gone")

(* How many children the shell has still to wait for.                      *)
Owed ==
    IF at = "wait1" THEN IF "|" \in flags THEN 2 ELSE 1
    ELSE IF at = "wait2" \/ (at = "fork2" /\ ~isbkg) THEN 1 ELSE 0

Jobs == {i \in DOMAIN kids : kids[i].job}

Counted ==
    /\ IsFiniteSet(Unreaped) /\ IsFiniteSet(Jobs)
    /\ Cardinality(Unreaped) = Cardinality(Jobs) + Owed

ShellInv ==
    /\ ShellTypes /\ PipeEnds /\ Children /\ Counted
    /\ \A i \in 1..Len(kids) : KidFits(kids[i])

LEMMA ShellStart ==
  ShellInit => ShellInv
<1> SUFFICES ASSUME ShellInit
             PROVE  ShellInv
  OBVIOUS
<1>1. /\ at = "prompt" /\ kids = <<>> /\ ends = {} /\ mypipe = 0 /\ isbkg = FALSE
      /\ Len(kids) = 0 /\ kids \in Seq(Kid)
  BY DEF ShellInit
<1>2. ShellTypes /\ Children
  BY <1>1 DEF ShellTypes, ShellPlaces, Children
<1>5. PipeEnds
  BY <1>1 DEF PipeEnds, PipeIn
<1>3. Unreaped = {} /\ Jobs = {} /\ Owed = 0
  BY <1>1 DEF Unreaped, Jobs, Owed
<1>4. Counted
  BY <1>3, FS_EmptySet DEF Counted
<1> QED
  BY <1>1, <1>2, <1>4, <1>5 DEF ShellInv

(* What a fork adds.                                                       *)
ForkedKid(in, out, inherits) ==
    [state |-> "run", in |-> in, out |-> out, ends |-> inherits, job |-> isbkg]

LEMMA Forked ==
  ASSUME ShellInv, NEW in \in Int, NEW out \in Int, NEW inherits \in SUBSET (Nat \X {"r", "w"}),
         Fork(in, out, inherits)
  PROVE  /\ kids' \in Seq(Kid) /\ Len(kids') = Len(kids) + 1 /\ Len(kids) \in Nat
         /\ \A i \in 1..Len(kids) : kids'[i] = kids[i]
         /\ kids'[Len(kids) + 1] = ForkedKid(in, out, inherits)
         /\ IsFiniteSet(Unreaped') /\ Cardinality(Unreaped') = Cardinality(Unreaped) + 1
         /\ IsFiniteSet(Jobs')
         /\ Cardinality(Jobs') = IF isbkg THEN Cardinality(Jobs) + 1 ELSE Cardinality(Jobs)
<1> DEFINE k == ForkedKid(in, out, inherits)
<1>1. kids' = Append(kids, k) /\ k \in Kid /\ kids \in Seq(Kid) /\ k.state = "run" /\ k.job = isbkg
  BY DEF Fork, ForkedKid, Kid, KidStates, ShellInv, ShellTypes
<1> HIDE DEF k
<1>2. /\ kids' \in Seq(Kid) /\ Len(kids') = Len(kids) + 1 /\ Len(kids) \in Nat
      /\ \A i \in 1..Len(kids) : kids'[i] = kids[i]
      /\ kids'[Len(kids) + 1] = k
      /\ DOMAIN kids = 1..Len(kids) /\ DOMAIN kids' = 1..Len(kids) + 1
  BY <1>1
<1>3. Unreaped' = Unreaped \cup {Len(kids) + 1} /\ Len(kids) + 1 \notin Unreaped
  BY <1>1, <1>2 DEF Unreaped
<1>4. Jobs' = (IF isbkg THEN Jobs \cup {Len(kids) + 1} ELSE Jobs) /\ Len(kids) + 1 \notin Jobs
  BY <1>1, <1>2 DEF Jobs
<1>5. IsFiniteSet(Unreaped) /\ IsFiniteSet(Jobs)
  BY DEF ShellInv, Counted
<1>6. IsFiniteSet(Unreaped') /\ Cardinality(Unreaped') = Cardinality(Unreaped) + 1
  BY <1>3, <1>5, FS_AddElement
<1>7. /\ IsFiniteSet(Jobs')
      /\ Cardinality(Jobs') = IF isbkg THEN Cardinality(Jobs) + 1 ELSE Cardinality(Jobs)
  BY <1>4, <1>5, FS_AddElement
<1> QED
  BY <1>2, <1>6, <1>7 DEF k

LEMMA ForkFirstSound ==
  ASSUME ShellInv, ForkFirst
  PROVE  ShellInv'
<1> DEFINE in == IF "<" \in flags THEN -2 ELSE 0
           out == IF "|" \in flags THEN PipeOr("w") ELSE IF ">" \in flags THEN -2 ELSE 0
           inherits == IF "|" \in flags THEN ends \ {<<mypipe, "r">>} ELSE ends
<1>1. /\ at = "fork1" /\ Fork(in, out, inherits)
      /\ at' = IF "|" \in flags THEN "fork2" ELSE IF isbkg THEN "command" ELSE "wait1"
      /\ UNCHANGED <<lines, isbkg, flags, mypipe, ends, full>>
  BY DEF ForkFirst
<1>2. mypipe \in Nat /\ kids \in Seq(Kid) /\ ends \subseteq Nat \X {"r", "w"} /\ isbkg \in BOOLEAN
  BY DEF ShellInv, ShellTypes
<1>3. /\ in \in {-2, 0} /\ inherits \in SUBSET (Nat \X {"r", "w"}) /\ inherits \subseteq ends
      /\ "|" \in flags => out = PipeOr("w") /\ <<mypipe, "r">> \notin inherits
      /\ "|" \notin flags => out \in {-2, 0}
  BY <1>2
<1>4. PipeOr("w") = IF PipeIn("w") THEN mypipe ELSE -1
  BY DEF PipeOr, PipeIn
<1>5. in \in Int /\ out \in Int
  BY <1>2, <1>3, <1>4
<1> HIDE DEF in, out, inherits
<1> DEFINE n == Len(kids)
           k == ForkedKid(in, out, inherits)
<1>6. /\ kids' \in Seq(Kid) /\ Len(kids') = n + 1 /\ n \in Nat
      /\ \A i \in 1..n : kids'[i] = kids[i]
      /\ kids'[n + 1] = k
  BY <1>1, <1>3, <1>5, Forked
<1>7. /\ IsFiniteSet(Unreaped') /\ Cardinality(Unreaped') = Cardinality(Unreaped) + 1
      /\ IsFiniteSet(Jobs')
      /\ Cardinality(Jobs') = IF isbkg THEN Cardinality(Jobs) + 1 ELSE Cardinality(Jobs)
  BY <1>1, <1>3, <1>5, Forked
<1>8. k.state = "run" /\ k.in = in /\ k.out = out /\ k.ends = inherits
  BY DEF ForkedKid
<1> HIDE DEF n, k
<1>9. ShellTypes'
  BY <1>1, <1>2, <1>6 DEF ShellTypes, ShellPlaces
<1>10. \A i \in 1..n + 1 : KidFits(kids[i])'
  <2>1. \A i \in 1..n : KidFits(kids[i])
    BY DEF ShellInv, n
  <2>2. \A q \in Nat, e \in {"r", "w"} : <<q, e>> \in inherits => q <= mypipe
    BY <1>3 DEF ShellInv, PipeEnds
  <2>3. KidFits(k)
    BY <1>8, <2>2 DEF KidFits
  <2> QED
    BY <1>1, <1>6, <2>1, <2>3 DEF KidFits
<1>11. (PipeIn("w") <=> PipeIn("w")') /\ (PipeIn("r") <=> PipeIn("r")')
  BY <1>1 DEF PipeIn
<1>12. PipeEnds'
  <2>1. \A q \in Nat, e \in {"r", "w"} : <<q, e>> \in ends' => q <= mypipe'
    BY <1>1 DEF ShellInv, PipeEnds
  <2>2. PipeIn("w") => PipeIn("r") /\ "|" \in flags
    BY DEF ShellInv, PipeEnds
  <2>3. ~isbkg /\ "|" \in flags => PipeIn("w") \/ ~PipeIn("r")
    BY <1>1 DEF ShellInv, PipeEnds
  <2> QED
    BY <1>1, <1>2, <1>11, <2>1, <2>2, <2>3 DEF PipeEnds
<1>13. Children'
  <2>1. CASE "|" \in flags
    <3>1. at' = "fork2"
      BY <1>1, <2>1
    <3>2. Last' = n + 1 /\ n + 1 >= 1 /\ kids'[n + 1].in <= 0 /\ kids'[n + 1].state # "gone"
      BY <1>3, <1>6, <1>8 DEF Last
    <3>3. CASE ~PipeIn("w")
      <4>1. kids'[n + 1].out <= 0
        BY <1>3, <1>4, <1>6, <1>8, <2>1, <3>3
      <4>2. FirstForked'
        BY <1>11, <3>2, <3>3, <4>1 DEF FirstForked
      <4> QED
        BY <3>1, <4>2 DEF Children
    <3>4. CASE PipeIn("w")
      <4>1. kids'[n + 1].out = mypipe
        BY <1>3, <1>4, <1>6, <1>8, <2>1, <3>4
      <4>2. OnlyKid("w", 0) /\ OnlyKid("r", 0)
        BY <1>1, <3>4 DEF ShellInv, PipeEnds
      <4>3. \A j \in 1..n : <<mypipe, "w">> \notin kids[j].ends /\ <<mypipe, "r">> \notin kids[j].ends
        BY <1>6, <4>2 DEF OnlyKid, n
      <4>4. <<mypipe, "r">> \notin kids'[n + 1].ends
        BY <1>3, <1>6, <1>8, <2>1
      <4>5. \A j \in 1..Len(kids') :
              /\ <<mypipe', "w">> \in kids'[j].ends => j = Last'
              /\ <<mypipe', "r">> \notin kids'[j].ends
        <5>1. mypipe' = mypipe /\ Len(kids') = n + 1 /\ Last' = n + 1 /\ n \in Nat
          BY <1>1, <1>6, <3>2
        <5>2. \A j \in 1..n : kids'[j].ends = kids[j].ends
          BY <1>6
        <5>3. ASSUME NEW j \in 1..(n + 1)
              PROVE  /\ <<mypipe, "w">> \in kids'[j].ends => j = n + 1
                     /\ <<mypipe, "r">> \notin kids'[j].ends
          <6>1. CASE j \in 1..n
            BY <4>3, <5>2, <6>1
          <6>2. CASE j = n + 1
            BY <4>4, <6>2
          <6> QED
            BY <5>1, <6>1, <6>2
        <5> QED
          BY <5>1, <5>3
      <4>6. FirstForked'
        BY <1>1, <1>11, <3>2, <3>4, <4>1, <4>5 DEF FirstForked, OnlyKid
      <4> QED
        BY <3>1, <4>6 DEF Children
    <3> QED
      BY <3>3, <3>4
  <2>2. CASE "|" \notin flags
    <3>1. at' \in {"command", "wait1"} /\ flags' = flags
      BY <1>1, <2>2
    <3>2. Alone'
      BY <1>3, <1>6, <1>8, <2>2 DEF Alone, Last
    <3> QED
      BY <2>2, <3>1, <3>2 DEF Children
  <2> QED
    BY <2>1, <2>2
<1>14. Counted'
  <2>1. Cardinality(Unreaped) = Cardinality(Jobs) + Owed /\ IsFiniteSet(Jobs) /\ Owed = 0
    BY <1>1 DEF ShellInv, Counted, Owed
  <2>2. Owed' = IF isbkg THEN 0 ELSE 1
    BY <1>1, <1>2 DEF Owed
  <2>3. Cardinality(Jobs) \in Nat
    BY <2>1, FS_CardinalityType
  <2> QED
    BY <1>2, <1>7, <2>1, <2>2, <2>3 DEF Counted
<1> QED
  BY <1>6, <1>9, <1>10, <1>12, <1>13, <1>14 DEF ShellInv

LEMMA ForkSecondSound ==
  ASSUME ShellInv, ForkSecond
  PROVE  ShellInv'
<1> DEFINE in == PipeOr("r")
           inherits == ends \ {<<mypipe, "w">>}
<1>1. /\ at = "fork2" /\ ends' = inherits /\ Fork(in, 0, inherits)
      /\ at' = IF isbkg THEN "command" ELSE "wait1"
      /\ UNCHANGED <<lines, isbkg, flags, mypipe, full>>
  BY DEF ForkSecond
<1>2. mypipe \in Nat /\ kids \in Seq(Kid) /\ ends \subseteq Nat \X {"r", "w"} /\ isbkg \in BOOLEAN
  BY DEF ShellInv, ShellTypes
<1>3. /\ inherits \in SUBSET (Nat \X {"r", "w"}) /\ inherits \subseteq ends
      /\ <<mypipe, "w">> \notin inherits
  BY <1>2
<1>4. in = IF PipeIn("r") THEN mypipe ELSE -1
  BY DEF PipeOr, PipeIn
<1>5. in \in Int
  BY <1>2, <1>4
<1> HIDE DEF in, inherits
<1> DEFINE n == Len(kids)
           k == ForkedKid(in, 0, inherits)
<1>6. /\ kids' \in Seq(Kid) /\ Len(kids') = n + 1 /\ n \in Nat
      /\ \A i \in 1..n : kids'[i] = kids[i]
      /\ kids'[n + 1] = k
  BY <1>1, <1>3, <1>5, Forked
<1>7. /\ IsFiniteSet(Unreaped') /\ Cardinality(Unreaped') = Cardinality(Unreaped) + 1
      /\ IsFiniteSet(Jobs')
      /\ Cardinality(Jobs') = IF isbkg THEN Cardinality(Jobs) + 1 ELSE Cardinality(Jobs)
  BY <1>1, <1>3, <1>5, Forked
<1>8. k.state = "run" /\ k.in = in /\ k.out = 0 /\ k.ends = inherits
  BY DEF ForkedKid
<1>9. FirstForked /\ "|" \in flags
  BY <1>1 DEF ShellInv, Children, PipeEnds
<1>10. /\ n >= 1 /\ kids[n].in <= 0 /\ kids[n].state # "gone"
       /\ IF PipeIn("w") THEN kids[n].out = mypipe /\ OnlyKid("w", n) /\ OnlyKid("r", 0)
          ELSE kids[n].out <= 0
  BY <1>9 DEF FirstForked, Last
<1> HIDE DEF n, k
<1>11. ASSUME PipeIn("w"), NEW j \in 1..n
       PROVE  (<<mypipe, "w">> \in kids[j].ends => j = n) /\ <<mypipe, "r">> \notin kids[j].ends
  <2>1. OnlyKid("w", n) /\ OnlyKid("r", 0) /\ j \in 1..Len(kids) /\ j # 0
    BY <1>6, <1>10, <1>11 DEF n
  <2> QED
    BY <2>1 DEF OnlyKid
<1>12. ShellTypes'
  BY <1>1, <1>2, <1>3, <1>6 DEF ShellTypes, ShellPlaces
<1>13. \A i \in 1..n + 1 : KidFits(kids[i])'
  <2>1. \A i \in 1..n : KidFits(kids[i])
    BY DEF ShellInv, n
  <2>2. \A q \in Nat, e \in {"r", "w"} : <<q, e>> \in inherits => q <= mypipe
    BY <1>3 DEF ShellInv, PipeEnds
  <2>3. KidFits(k)
    BY <1>8, <2>2 DEF KidFits
  <2> QED
    BY <1>1, <1>6, <2>1, <2>3 DEF KidFits
<1>14. ~PipeIn("w")'
  BY <1>1, <1>3 DEF PipeIn
<1>15. PipeEnds'
  <2>1. \A q \in Nat, e \in {"r", "w"} : <<q, e>> \in ends' => q <= mypipe'
    BY <1>1, <1>3 DEF ShellInv, PipeEnds
  <2> QED
    BY <1>1, <1>2, <1>14, <2>1 DEF PipeEnds
<1>16. Children'
  <2>1. CASE isbkg
    BY <1>1, <2>1 DEF Children
  <2>2. CASE ~isbkg
    <3>1. at' = "wait1" /\ flags' = flags /\ Last' = n + 1 /\ Last' - 1 = n /\ Last' >= 2
      BY <1>1, <1>6, <1>10, <2>2 DEF Last
    <3>2. /\ kids'[Last' - 1].in <= 0 /\ kids'[Last'].out <= 0
          /\ kids'[Last'].state # "gone" /\ kids'[Last' - 1].state # "gone"
          /\ kids'[Last' - 1].out = kids[n].out /\ kids'[Last'].in = in
      BY <1>6, <1>8, <1>10, <3>1
    <3>3. CASE PipeIn("w")
      <4>1. PipeIn("r")
        BY <3>3 DEF ShellInv, PipeEnds
      <4>2. kids'[Last' - 1].out = mypipe' /\ kids'[Last'].in = mypipe'
        BY <1>1, <1>4, <1>10, <3>2, <3>3, <4>1
      <4>3. \A j \in 1..Len(kids') :
              /\ <<mypipe', "w">> \in kids'[j].ends => j = Last' - 1
              /\ <<mypipe', "r">> \in kids'[j].ends => j = Last'
        <5> SUFFICES ASSUME NEW j \in 1..n + 1
                     PROVE  /\ <<mypipe, "w">> \in kids'[j].ends => j = n
                            /\ <<mypipe, "r">> \in kids'[j].ends => j = n + 1
          BY <1>1, <1>6, <3>1
        <5>1. CASE j \in 1..n
          BY <1>6, <1>11, <3>3, <5>1
        <5>2. CASE j = n + 1
          BY <1>3, <1>6, <1>8, <5>2
        <5> QED
          BY <1>6, <5>1, <5>2
      <4>4. Pair'
        BY <3>1, <3>2, <4>2, <4>3 DEF Pair, OnlyKid
      <4> QED
        BY <1>9, <3>1, <3>2, <4>4 DEF Children
    <3>4. CASE ~PipeIn("w")
      <4>1. ~PipeIn("r")
        BY <1>1, <1>9, <2>2, <3>4 DEF ShellInv, PipeEnds
      <4>2. kids'[Last' - 1].out <= 0 /\ kids'[Last'].in <= 0
        BY <1>4, <1>10, <3>2, <3>4, <4>1
      <4>3. Pair'
        BY <3>1, <3>2, <4>2 DEF Pair
      <4> QED
        BY <1>9, <3>1, <3>2, <4>3 DEF Children
    <3> QED
      BY <3>3, <3>4
  <2> QED
    BY <1>2, <2>1, <2>2
<1>17. Counted'
  <2>1. /\ Cardinality(Unreaped) = Cardinality(Jobs) + Owed /\ IsFiniteSet(Jobs)
        /\ Owed = IF isbkg THEN 0 ELSE 1
    BY <1>1, <1>2 DEF ShellInv, Counted, Owed
  <2>2. Owed' = IF isbkg THEN 0 ELSE 2
    BY <1>1, <1>2, <1>9 DEF Owed
  <2>3. Cardinality(Jobs) \in Nat
    BY <2>1, FS_CardinalityType
  <2> QED
    BY <1>2, <1>7, <2>1, <2>2, <2>3 DEF Counted
<1> QED
  BY <1>6, <1>12, <1>13, <1>15, <1>16, <1>17 DEF ShellInv

(* What changes the state of child i only: a wait or the program itself.   *)
Restated(i, state) == i \in 1..Len(kids) /\ kids' = [kids EXCEPT ![i].state = state]

LEMMA RestatedKids ==
  ASSUME ShellInv, NEW i, NEW state \in KidStates, Restated(i, state)
  PROVE  /\ kids' \in Seq(Kid) /\ Len(kids') = Len(kids)
         /\ \A j \in 1..Len(kids) :
               /\ kids'[j].in = kids[j].in /\ kids'[j].out = kids[j].out
               /\ kids'[j].ends = kids[j].ends /\ kids'[j].job = kids[j].job
               /\ kids'[j].state = IF j = i THEN state ELSE kids[j].state
         /\ Jobs' = Jobs
<1> DEFINE n == Len(kids)
<1>1. n \in Nat /\ kids \in [1..n -> Kid] /\ i \in 1..n
  BY DEF ShellInv, ShellTypes, Restated
<1>2. \A k \in Kid : /\ [k EXCEPT !.state = state] \in Kid
                     /\ [k EXCEPT !.state = state].state = state
                     /\ [k EXCEPT !.state = state].in = k.in /\ [k EXCEPT !.state = state].out = k.out
                     /\ [k EXCEPT !.state = state].ends = k.ends
                     /\ [k EXCEPT !.state = state].job = k.job
  BY DEF Kid
<1>3. kids' = [kids EXCEPT ![i] = [kids[i] EXCEPT !.state = state]]
  BY DEF Restated
<1>4. /\ kids' \in [1..n -> Kid]
      /\ \A j \in 1..n : kids'[j] = IF j = i THEN [kids[i] EXCEPT !.state = state] ELSE kids[j]
  BY <1>1, <1>2, <1>3
<1> HIDE DEF n
<1>5. kids' \in Seq(Kid) /\ Len(kids') = n
  BY <1>1, <1>4
<1>6. \A j \in 1..n :
               /\ kids'[j].in = kids[j].in /\ kids'[j].out = kids[j].out
               /\ kids'[j].ends = kids[j].ends /\ kids'[j].job = kids[j].job
               /\ kids'[j].state = IF j = i THEN state ELSE kids[j].state
  <2> SUFFICES ASSUME NEW j \in 1..n
               PROVE  /\ kids'[j].in = kids[j].in /\ kids'[j].out = kids[j].out
                      /\ kids'[j].ends = kids[j].ends /\ kids'[j].job = kids[j].job
                      /\ kids'[j].state = IF j = i THEN state ELSE kids[j].state
    OBVIOUS
  <2>1. kids[j] \in Kid
    BY <1>1
  <2>2. CASE j = i
    BY <1>2, <1>4, <2>1, <2>2
  <2>3. CASE j # i
    BY <1>4, <2>3
  <2> QED
    BY <2>2, <2>3
<1>7. Jobs' = Jobs
  BY <1>1, <1>4, <1>6 DEF Jobs
<1> QED
  BY <1>5, <1>6, <1>7 DEF n

LEMMA RestatedFits ==
  ASSUME ShellInv, NEW i, NEW state \in KidStates, Restated(i, state), UNCHANGED mypipe,
         state = "read" => kids[i].in > 0, state = "write" => kids[i].out > 0
  PROVE  (\A j \in 1..Len(kids) : KidFits(kids[j]))'
<1>1. /\ Len(kids') = Len(kids)
      /\ \A j \in 1..Len(kids) :
               /\ kids'[j].in = kids[j].in /\ kids'[j].out = kids[j].out
               /\ kids'[j].ends = kids[j].ends
               /\ kids'[j].state = IF j = i THEN state ELSE kids[j].state
  BY RestatedKids
<1>2. \A j \in 1..Len(kids) : KidFits(kids[j])
  BY DEF ShellInv
<1> QED
  BY <1>1, <1>2 DEF KidFits

LEMMA RestatedPair ==
  ASSUME ShellInv, NEW i, NEW state \in KidStates, Restated(i, state), UNCHANGED mypipe, Pair
  PROVE  Pair'
<1>1. /\ Len(kids') = Len(kids) /\ Len(kids) \in Nat
      /\ \A j \in 1..Len(kids) :
               /\ kids'[j].in = kids[j].in /\ kids'[j].out = kids[j].out
               /\ kids'[j].ends = kids[j].ends
  BY RestatedKids DEF ShellInv, ShellTypes
<1>2. Last' = Last /\ Last \in 1..Len(kids) /\ Last - 1 \in 1..Len(kids)
  BY <1>1 DEF Last, Pair
<1>3. \A e, j : OnlyKid(e, j) => (\A h \in 1..Len(kids') : <<mypipe', e>> \in kids'[h].ends => h = j)
  BY <1>1 DEF OnlyKid
<1>4. OnlyKid("w", Last - 1) => OnlyKid("w", Last - 1)'
  BY <1>2, <1>3 DEF OnlyKid
<1>5. OnlyKid("r", Last) => OnlyKid("r", Last)'
  BY <1>2, <1>3 DEF OnlyKid
<1> QED
  BY <1>1, <1>2, <1>4, <1>5 DEF Pair

(* A shell that waits has somebody to wait for, and takes one.             *)
LEMMA OneReaped ==
  ASSUME ShellInv, at \in {"wait1", "wait2"}, NEW next, Reap(next)
  PROVE  /\ \E i : Restated(i, "gone")
         /\ IsFiniteSet(Unreaped') /\ Cardinality(Unreaped') = Cardinality(Unreaped) - 1
         /\ Cardinality(Unreaped) \in Nat /\ Cardinality(Jobs) \in Nat
<1>1. /\ IsFiniteSet(Unreaped) /\ IsFiniteSet(Jobs)
      /\ Cardinality(Unreaped) = Cardinality(Jobs) + Owed /\ Owed \in {1, 2}
  BY DEF ShellInv, Counted, Owed
<1>2. Cardinality(Unreaped) \in Nat /\ Cardinality(Jobs) \in Nat
  BY <1>1, FS_CardinalityType
<1>3. Unreaped # {}
  BY <1>1, <1>2, FS_EmptySet
<1>4. PICK i \in DOMAIN kids :
          kids[i].state = "zombie" /\ kids' = [kids EXCEPT ![i].state = "gone"]
  BY <1>3 DEF Reap
<1>5. DOMAIN kids = 1..Len(kids) /\ Len(kids) \in Nat
  BY DEF ShellInv, ShellTypes
<1>6. Restated(i, "gone")
  BY <1>4, <1>5 DEF Restated
<1>7. "gone" \in KidStates
  BY DEF KidStates
<1>8. /\ kids' \in Seq(Kid) /\ Len(kids') = Len(kids)
      /\ \A j \in 1..Len(kids) : kids'[j].state = IF j = i THEN "gone" ELSE kids[j].state
  BY <1>6, <1>7, RestatedKids
<1>9. DOMAIN kids' = 1..Len(kids)
  BY <1>8
<1>10. Unreaped' = Unreaped \ {i} /\ i \in Unreaped
  BY <1>4, <1>5, <1>8, <1>9 DEF Unreaped
<1>11. IsFiniteSet(Unreaped') /\ Cardinality(Unreaped') = Cardinality(Unreaped) - 1
  BY <1>1, <1>10, FS_RemoveElement
<1> QED
  BY <1>2, <1>6, <1>11

LEMMA WaitSound ==
  ASSUME ShellInv, WaitFirst \/ WaitSecond
  PROVE  ShellInv'
<1>1. /\ at \in {"wait1", "wait2"} /\ Reap(at') /\ UNCHANGED <<isbkg, flags, mypipe>>
      /\ at' = IF at = "wait1" /\ "|" \in flags THEN "wait2" ELSE "command"
      /\ ends' = IF at = "wait1" /\ "|" \in flags THEN ends \ {<<mypipe, "r">>} ELSE ends
  BY DEF WaitFirst, WaitSecond, Reap
<1>2. /\ \E i : Restated(i, "gone")
      /\ IsFiniteSet(Unreaped') /\ Cardinality(Unreaped') = Cardinality(Unreaped) - 1
      /\ Cardinality(Unreaped) \in Nat /\ Cardinality(Jobs) \in Nat
  BY <1>1, OneReaped
<1>3. PICK i : Restated(i, "gone")
  BY <1>2
<1>4. "gone" \in KidStates /\ "gone" # "read" /\ "gone" # "write"
  BY DEF KidStates
<1>5. /\ kids' \in Seq(Kid) /\ Len(kids') = Len(kids) /\ Jobs' = Jobs
      /\ \A j \in 1..Len(kids) : kids'[j].state = IF j = i THEN "gone" ELSE kids[j].state
  BY <1>3, <1>4, RestatedKids
<1>6. (\A j \in 1..Len(kids) : KidFits(kids[j]))'
  BY <1>1, <1>3, <1>4, RestatedFits
<1>7. ShellTypes'
  BY <1>1, <1>5 DEF ShellInv, ShellTypes, ShellPlaces
<1>8. ~isbkg /\ ~PipeIn("w") /\ (at = "wait2" => "|" \in flags /\ ~PipeIn("r"))
  BY <1>1 DEF ShellInv, PipeEnds
<1>9. ~PipeIn("w")' /\ ("|" \in flags => ~PipeIn("r")')
  BY <1>1, <1>8 DEF PipeIn
<1>10. PipeEnds'
  <2>1. \A q \in Nat, e \in {"r", "w"} : <<q, e>> \in ends' => q <= mypipe'
    BY <1>1 DEF ShellInv, PipeEnds
  <2> QED
    BY <1>1, <1>8, <1>9, <2>1 DEF PipeEnds
<1>11. Children'
  <2>1. CASE at = "wait1" /\ "|" \in flags
    <3>1. Pair /\ kids[Last].state # "gone" /\ kids[Last - 1].state # "gone"
      BY <2>1 DEF ShellInv, Children
    <3>2. Pair'
      BY <1>1, <1>3, <1>4, <3>1, RestatedPair
    <3>3. Last' = Last /\ Last \in 1..Len(kids) /\ Last - 1 \in 1..Len(kids) /\ Last # Last - 1
      <4>1. Last >= 2 /\ Len(kids) \in Nat /\ Last = Len(kids)
        BY <3>1 DEF Pair, Last, ShellInv, ShellTypes
      <4> QED
        BY <1>5, <4>1 DEF Last
    <3>4. kids'[Last'].state # "gone" \/ kids'[Last' - 1].state # "gone"
      BY <1>5, <3>1, <3>3
    <3> QED
      BY <1>1, <2>1, <3>2, <3>4 DEF Children
  <2>2. CASE ~(at = "wait1" /\ "|" \in flags)
    BY <1>1, <2>2 DEF Children
  <2> QED
    BY <2>1, <2>2
<1>12. Counted'
  <2>1. Owed' = Owed - 1 /\ Owed \in {1, 2}
    BY <1>1, <1>8 DEF Owed
  <2> QED
    BY <1>2, <1>5, <2>1 DEF ShellInv, Counted
<1> QED
  BY <1>6, <1>7, <1>10, <1>11, <1>12 DEF ShellInv

LEMMA CommandSound ==
  ASSUME ShellInv, Command
  PROVE  ShellInv'
<1> DEFINE h == Head(lines)
<1>1. at = "command" /\ UNCHANGED <<isbkg, kids, full>>
  BY DEF Command
<1>2. mypipe \in Nat /\ isbkg \in BOOLEAN /\ ends \subseteq Nat \X {"r", "w"} /\ ~PipeIn("w")
  BY <1>1 DEF ShellInv, ShellTypes, PipeEnds
<1>3. \A q \in Nat, e \in {"r", "w"} : <<q, e>> \in ends => q <= mypipe
  BY DEF ShellInv, PipeEnds
<1>4. Unreaped' = Unreaped /\ Jobs' = Jobs
  BY <1>1 DEF Unreaped, Jobs
<1>5. at' \in {"prompt", "fork1"} => Counted' /\ Children'
  BY <1>1, <1>4 DEF ShellInv, Counted, Owed, Children
<1>6. CASE at' = "prompt" /\ UNCHANGED <<lines, flags, mypipe, ends>>
  <2>1. PipeEnds'
    BY <1>1, <1>2, <1>3, <1>6 DEF PipeEnds, PipeIn
  <2> QED
    BY <1>1, <1>5, <1>6, <2>1 DEF ShellInv, ShellTypes, ShellPlaces, KidFits
<1>7. CASE /\ at' = "fork1" /\ flags' = flags \cup h /\ "|" \notin h
           /\ mypipe' = mypipe /\ ends' = ends
  <2>1. "|" \in flags' => "|" \in flags
    BY <1>7
  <2>2. ~isbkg /\ "|" \in flags => ~PipeIn("r")
    BY <1>1, <1>2 DEF ShellInv, PipeEnds
  <2>3. PipeEnds'
    BY <1>1, <1>2, <1>3, <1>7, <2>1, <2>2 DEF PipeEnds, PipeIn
  <2> QED
    BY <1>1, <1>5, <1>7, <2>3 DEF ShellInv, ShellTypes, ShellPlaces, KidFits
<1>8. CASE /\ at' = "fork1" /\ flags' = flags \cup h /\ "|" \in h
           /\ mypipe' = mypipe + 1 /\ ends' = ends \cup ({mypipe'} \X {"r", "w"})
  <2>1. mypipe' \in Nat /\ mypipe <= mypipe' /\ ~(mypipe' <= mypipe)
    BY <1>2, <1>8
  <2>2. ends' \subseteq Nat \X {"r", "w"} /\ PipeIn("w")' /\ PipeIn("r")' /\ "|" \in flags'
    <3>1. {mypipe'} \X {"r", "w"} \subseteq Nat \X {"r", "w"}
      BY <2>1
    <3>2. <<mypipe', "w">> \in ends' /\ <<mypipe', "r">> \in ends'
      BY <1>8
    <3>3. "|" \in flags'
      BY <1>8
    <3> QED
      BY <1>2, <1>8, <3>1, <3>2, <3>3 DEF PipeIn
  <2>3. \A q \in Nat, e \in {"r", "w"} : <<q, e>> \in ends' => q <= mypipe'
    <3> SUFFICES ASSUME NEW q \in Nat, NEW e \in {"r", "w"}, <<q, e>> \in ends'
                 PROVE  q <= mypipe'
      OBVIOUS
    <3>1. <<q, e>> \in ends \/ q = mypipe'
      BY <1>8
    <3>2. <<q, e>> \in ends => q <= mypipe
      BY <1>3
    <3> QED
      BY <1>2, <1>8, <3>1, <3>2
  <2>4. \A j \in 1..Len(kids), q \in Nat, e \in {"r", "w"} : <<q, e>> \in kids[j].ends => q <= mypipe
    BY DEF ShellInv, KidFits
  <2>5. \A j \in 1..Len(kids) : KidFits(kids[j])'
    BY <1>1, <1>2, <2>1, <2>4 DEF ShellInv, KidFits
  <2>6. OnlyKid("w", 0)' /\ OnlyKid("r", 0)'
    BY <1>1, <2>1, <2>4 DEF OnlyKid
  <2>7. PipeEnds'
    BY <1>8, <2>2, <2>3, <2>6 DEF PipeEnds
  <2> QED
    BY <1>1, <1>5, <1>8, <2>1, <2>2, <2>5, <2>7 DEF ShellInv, ShellTypes, ShellPlaces
<1> QED
  BY <1>6, <1>7, <1>8 DEF Command

LEMMA LineSound ==
  ASSUME ShellInv, ReadLine \/ Exit
  PROVE  ShellInv'
<1>1. /\ UNCHANGED <<mypipe, kids>> /\ at \in {"prompt", "command"} /\ at' \in {"command", "exited"}
      /\ isbkg' \in BOOLEAN /\ ends' \subseteq ends /\ (at' = "command" => flags' = {})
  BY LinesAssumption DEF ReadLine, Exit, ShellInv, ShellTypes
<1>2. ~PipeIn("w") /\ ~PipeIn("w")'
  BY <1>1 DEF ShellInv, PipeEnds, PipeIn
<1>3. PipeEnds'
  BY <1>1, <1>2 DEF ShellInv, PipeEnds
<1>4. Unreaped' = Unreaped /\ Jobs' = Jobs
  BY <1>1 DEF Unreaped, Jobs
<1>5. Counted' /\ Children'
  BY <1>1, <1>4 DEF ShellInv, Counted, Owed, Children
<1>6. ShellTypes'
  BY <1>1 DEF ShellInv, ShellTypes, ShellPlaces
<1>7. (\A j \in 1..Len(kids) : KidFits(kids[j]))'
  BY <1>1 DEF ShellInv, KidFits
<1> QED
  BY <1>3, <1>5, <1>6, <1>7 DEF ShellInv

LEMMA ProgramSound ==
  ASSUME ShellInv, NEW i \in DOMAIN kids, Program(i)
  PROVE  ShellInv'
<1>1. /\ i \in Alive /\ UNCHANGED <<at, lines, isbkg, flags, mypipe, ends>>
      /\ \E state \in {"run", "zombie", "write", "read"} :
            /\ Becomes(i, state)
            /\ state = "read" => kids[i].in > 0
            /\ state = "write" => kids[i].out > 0
  BY DEF Program
<1>2. PICK state \in {"run", "zombie", "write", "read"} :
            /\ Becomes(i, state)
            /\ state = "read" => kids[i].in > 0
            /\ state = "write" => kids[i].out > 0
  BY <1>1
<1>3. state \in KidStates /\ state # "gone" /\ kids[i].state # "gone" /\ Restated(i, state)
  <2>1. DOMAIN kids = 1..Len(kids)
    BY DEF ShellInv, ShellTypes
  <2>2. state \in KidStates /\ state # "gone" /\ kids[i].state # "gone"
    BY <1>1, <1>2 DEF KidStates, Alive
  <2> QED
    BY <1>2, <2>1, <2>2 DEF Becomes, Restated
<1>4. /\ kids' \in Seq(Kid) /\ Len(kids') = Len(kids) /\ Jobs' = Jobs
      /\ \A j \in 1..Len(kids) :
               /\ kids'[j].in = kids[j].in /\ kids'[j].out = kids[j].out
               /\ kids'[j].ends = kids[j].ends
               /\ kids'[j].state = IF j = i THEN state ELSE kids[j].state
  BY <1>3, RestatedKids
<1>5. \A j \in 1..Len(kids) : kids'[j].state = "gone" <=> kids[j].state = "gone"
  BY <1>3, <1>4
<1>6. (\A j \in 1..Len(kids) : KidFits(kids[j]))'
  BY <1>1, <1>2, <1>3, RestatedFits
<1>7. Len(kids) \in Nat /\ DOMAIN kids = 1..Len(kids) /\ DOMAIN kids' = 1..Len(kids)
  BY <1>4 DEF ShellInv, ShellTypes
<1>8. Unreaped' = Unreaped
  BY <1>5, <1>7 DEF Unreaped
<1>9. ShellTypes' /\ Counted'
  BY <1>1, <1>4, <1>8 DEF ShellInv, ShellTypes, Counted, Owed
<1>10. \A e, j : OnlyKid(e, j) => (\A h \in 1..Len(kids') : <<mypipe', e>> \in kids'[h].ends => h = j)
  BY <1>1, <1>4 DEF OnlyKid
<1>11. PipeEnds'
  <2>1. OnlyKid("w", 0) => OnlyKid("w", 0)'
    BY <1>10 DEF OnlyKid
  <2>2. OnlyKid("r", 0) => OnlyKid("r", 0)'
    BY <1>10 DEF OnlyKid
  <2> QED
    BY <1>1, <2>1, <2>2 DEF ShellInv, PipeEnds, PipeIn
<1>12. Last' = Last /\ Last = Len(kids)
  BY <1>4 DEF Last
<1>13. ASSUME FirstForked
       PROVE  FirstForked'
  <2>1. Last \in 1..Len(kids)
    BY <1>7, <1>12, <1>13 DEF FirstForked
  <2>2. /\ kids'[Last].in = kids[Last].in /\ kids'[Last].out = kids[Last].out
        /\ kids'[Last].state = "gone" <=> kids[Last].state = "gone"
    BY <1>4, <1>5, <2>1
  <2>3. OnlyKid("w", Last) => OnlyKid("w", Last)'
    BY <1>10, <1>12 DEF OnlyKid
  <2>4. OnlyKid("r", 0) => OnlyKid("r", 0)'
    BY <1>10 DEF OnlyKid
  <2> QED
    BY <1>1, <1>12, <1>13, <2>2, <2>3, <2>4 DEF FirstForked, PipeIn
<1>14. ASSUME Alone
       PROVE  Alone'
  <2>1. Last \in 1..Len(kids)
    BY <1>7, <1>12, <1>14 DEF Alone
  <2> QED
    BY <1>4, <1>5, <1>12, <1>14, <2>1 DEF Alone
<1>15. ASSUME Pair
       PROVE  /\ Pair'
              /\ kids'[Last'].state = "gone" <=> kids[Last].state = "gone"
              /\ kids'[Last' - 1].state = "gone" <=> kids[Last - 1].state = "gone"
  <2>1. Pair'
    BY <1>1, <1>3, <1>15, RestatedPair
  <2>2. Last \in 1..Len(kids) /\ Last - 1 \in 1..Len(kids)
    BY <1>7, <1>12, <1>15 DEF Pair
  <2> QED
    BY <1>5, <1>12, <2>1, <2>2
<1>16. Children'
  BY <1>1, <1>13, <1>14, <1>15 DEF ShellInv, Children
<1> QED
  BY <1>6, <1>9, <1>11, <1>16 DEF ShellInv

(* One of the two children of a pipeline can go on or has ended.           *)
LEMMA PairMoves ==
  ASSUME ShellInv, Pair, ~PipeIn("w"), kids[Last].state # "gone" \/ ~PipeIn("r"),
         kids[Last].state # "gone" \/ kids[Last - 1].state # "gone"
  PROVE  \E i \in Unreaped : kids[i].state = "zombie" \/ CanMove(i)
<1> DEFINE a == Last - 1
           b == Last
<1>1. /\ a \in 1..Len(kids) /\ b \in 1..Len(kids) /\ a # b /\ DOMAIN kids = 1..Len(kids)
      /\ kids[a] \in Kid /\ kids[b] \in Kid /\ mypipe \in Nat
  BY DEF ShellInv, ShellTypes, Pair, Last
<1>2. KidFits(kids[a]) /\ KidFits(kids[b])
  BY <1>1 DEF ShellInv
<1>3. /\ kids[a].in <= 0 /\ kids[b].out <= 0
      /\ \/ kids[a].out <= 0 /\ kids[b].in <= 0
         \/ /\ kids[a].out = mypipe /\ kids[b].in = mypipe
            /\ OnlyKid("w", a) /\ OnlyKid("r", b)
  BY DEF Pair
<1> HIDE DEF a, b
<1>4. kids[a].state # "read" /\ kids[b].state # "write"
  BY <1>1, <1>2, <1>3 DEF KidFits, Kid
<1>5. \A i \in 1..Len(kids) : kids[i].state # "gone" => i \in Unreaped
  BY <1>1 DEF Unreaped
<1>6. \A i \in 1..Len(kids) : kids[i].state = "run" => CanMove(i)
  BY DEF CanMove
<1>7. /\ kids[a].state \in {"run", "write", "zombie", "gone"}
      /\ kids[b].state \in {"run", "read", "zombie", "gone"}
  BY <1>1, <1>4 DEF Kid, KidStates
<1>8. CASE kids[b].state \in {"run", "zombie"}
  BY <1>1, <1>5, <1>6, <1>8
<1>9. CASE kids[b].state = "read"
  <2>1. kids[b].in = mypipe /\ kids[a].out = mypipe /\ OnlyKid("w", a)
    BY <1>1, <1>2, <1>3, <1>9 DEF KidFits, Kid
  <2>2. CASE mypipe \in full \/ ~Held(<<mypipe, "w">>)
    BY <1>1, <1>5, <1>9, <2>1, <2>2 DEF CanMove
  <2>3. CASE mypipe \notin full /\ Held(<<mypipe, "w">>)
    <3>1. PICK i \in Alive : <<mypipe, "w">> \in kids[i].ends
      BY <2>3 DEF Held, PipeIn
    <3>2. i = a /\ kids[a].state \notin {"zombie", "gone"}
      BY <1>1, <2>1, <3>1 DEF OnlyKid, Alive
    <3>3. CanMove(a)
      BY <1>7, <2>1, <2>3, <3>2 DEF CanMove
    <3> QED
      BY <1>1, <1>5, <3>2, <3>3
  <2> QED
    BY <2>2, <2>3
<1>10. CASE kids[b].state = "gone"
  <2>1. kids[a].state # "gone" /\ ~PipeIn("r")
    BY <1>10 DEF a, b
  <2>2. CASE kids[a].state \in {"run", "zombie"}
    BY <1>1, <1>5, <1>6, <2>2
  <2>3. CASE kids[a].state = "write"
    <3>1. kids[a].out = mypipe /\ OnlyKid("r", b)
      BY <1>1, <1>2, <1>3, <2>3 DEF KidFits, Kid
    <3>2. ~Held(<<mypipe, "r">>)
      BY <1>1, <1>10, <2>1, <3>1 DEF Held, PipeIn, OnlyKid, Alive
    <3> QED
      BY <1>1, <1>5, <2>3, <3>1, <3>2 DEF CanMove
  <2> QED
    BY <1>7, <2>1, <2>2, <2>3
<1> QED
  BY <1>7, <1>8, <1>9, <1>10

LEMMA AloneMoves ==
  ASSUME ShellInv, Alone
  PROVE  \E i \in Unreaped : kids[i].state = "zombie" \/ CanMove(i)
<1>1. /\ Last \in 1..Len(kids) /\ DOMAIN kids = 1..Len(kids) /\ kids[Last] \in Kid
      /\ KidFits(kids[Last])
  BY DEF ShellInv, ShellTypes, Alone, Last
<1>2. kids[Last].state \in {"run", "zombie"}
  BY <1>1 DEF Alone, KidFits, Kid, KidStates
<1>3. Last \in Unreaped
  BY <1>1, <1>2 DEF Unreaped
<1> QED
  BY <1>2, <1>3 DEF CanMove

(* Whatever lines users type and however programs write, read and end, a   *)
(* shell that waits has a child that has ended or can go on, and no child  *)
(* but the jobs is left when it prompts again (exp2.c 97-222).            *)
THEOREM WaitsEnd == ShellSpec => []NobodyStuck
<1>1. ShellInv /\ [ShellNext]_shellVars => ShellInv'
  <2> SUFFICES ASSUME ShellInv, [ShellNext]_shellVars
               PROVE  ShellInv'
    OBVIOUS
  <2>1. CASE UNCHANGED shellVars
    BY <2>1 DEF shellVars, ShellInv, ShellTypes, PipeEnds, Children, Counted, KidFits, PipeIn, OnlyKid,
                Last, FirstForked, Pair, Alone, Owed, Jobs, Unreaped
  <2> QED
    BY <2>1, LineSound, CommandSound, ForkFirstSound, ForkSecondSound, WaitSound, ProgramSound
       DEF ShellNext
<1>2. ShellInv => NobodyStuck
  <2> SUFFICES ASSUME ShellInv
               PROVE  NobodyStuck
    OBVIOUS
  <2>1. ASSUME at \in {"wait1", "wait2"}
        PROVE  \E i \in Unreaped : kids[i].state = "zombie" \/ CanMove(i)
    <3>1. ~PipeIn("w") /\ (at = "wait2" => ~PipeIn("r"))
      BY <2>1 DEF ShellInv, PipeEnds
    <3>2. CASE at = "wait1" /\ "|" \notin flags
      BY <3>2, AloneMoves DEF ShellInv, Children
    <3>3. CASE at = "wait2" \/ "|" \in flags
      BY <2>1, <3>1, <3>3, PairMoves DEF ShellInv, Children
    <3> QED
      BY <2>1, <3>2, <3>3
  <2>2. at = "prompt" => Cardinality(Unreaped) = Cardinality(Jobs)
    <3>1. Cardinality(Jobs) \in Nat
      BY FS_CardinalityType DEF ShellInv, Counted
    <3> QED
      BY <3>1 DEF ShellInv, Counted, Owed
  <2> QED
    BY <2>1, <2>2 DEF NobodyStuck, Jobs
<1> QED
  BY <1>1, <1>2, ShellStart, PTL DEF ShellSpec

-----------------------------------------------------------------------------
(* The files in /proc.  A walk nobody disturbs has, at every place, lines  *)
(* behind it and lines ahead of it that make up the whole.                 *)

ProcLines == Tasks \cup {"all", "ticks", "user", "rest"}
ProcPlaces == {"no", "first", "current", "up", "down", "each", "print", "copied", "lost"}

(* The processes, and what comes after the ancestor t.                     *)
Below == <<"all">> \o From[NextTask[init_task]]
Above(t) == IF t = init THEN Below ELSE Ancestors[Parent[t]] \o Below

ProcTypes ==
    /\ value \in Seq(ProcLines) /\ task \in Tasks
    /\ doing \in [Users -> ProcPlaces] /\ DOMAIN page = Users /\ solo \in [Users -> BOOLEAN]
    /\ file => loaded
    /\ ~loaded => \A p \in Users : doing[p] = "no"

AloneInside == \A p, q \in Users : solo[p] /\ doing[p] # "no" /\ q # p => doing[q] = "no"

AnswerRight(p) == page[p] \in {<<>>, <<"time">>, Walk(p)}

(* The lines a walk of p has still to write, by its place.                 *)
WalkRight(p) ==
    /\ doing[p] # "lost"
    /\ doing[p] = "no" => AnswerRight(p)
    /\ doing[p] # "no" => page[p] = <<>>
    /\ doing[p] = "current" => value = <<p>>
    /\ doing[p] = "up" => task \in Climbers /\ value \o Above(task) = Walk(p)
    /\ doing[p] = "down" => value \o Below = Walk(p)
    /\ doing[p] = "each" => value \o From[NextTask[task]] = Walk(p)
    /\ doing[p] = "print" => value = Walk(p)

ProcInv ==
    /\ ProcTypes /\ AloneInside
    /\ kind \in {"walk", "choice"} => \A p \in Users : solo[p] => WalkRight(p)

(* The buffer has room for every walk.                                     *)
RoomForWalks == \A p \in Users : Len(Walk(p)) <= MaxLines

LEMMA WalkTypes ==
  /\ Below \in Seq(ProcLines)
  /\ \A t \in Climbers : Above(t) \in Seq(ProcLines) /\ Ancestors[t] \in Seq(ProcLines)
  /\ \A t \in Tasks : From[t] \in Seq(ProcLines)
  /\ init_task \in Tasks /\ \A t \in Tasks : NextTask[t] \in Tasks /\ Parent[t] \in Tasks
<1>1. Climbers \subseteq ProcLines /\ Tasks \subseteq ProcLines /\ "all" \in ProcLines
  BY DEF Climbers, Tasks, ProcLines
<1>2. init_task \in Tasks /\ \A t \in Tasks : NextTask[t] \in Tasks /\ Parent[t] \in Tasks
  BY TasksAssumption DEF Tasks
<1>3. /\ \A t \in Climbers : Ancestors[t] \in Seq(ProcLines)
      /\ \A t \in Tasks : From[t] \in Seq(ProcLines)
  BY <1>1, WalksAssumption, SeqMonotonic
<1>4. Below \in Seq(ProcLines)
  <2>1. <<"all">> \in Seq(ProcLines) /\ From[NextTask[init_task]] \in Seq(ProcLines)
    BY <1>1, <1>2, <1>3
  <2> QED
    BY <2>1, ConcatProperties DEF Below
<1>5. \A t \in Climbers : Above(t) \in Seq(ProcLines)
  <2> SUFFICES ASSUME NEW t \in Climbers
               PROVE  Above(t) \in Seq(ProcLines)
    OBVIOUS
  <2>1. CASE t = init
    BY <1>4, <2>1 DEF Above
  <2>2. CASE t # init
    <3>1. Parent[t] \in Climbers
      BY <2>2, TasksAssumption DEF Climbers
    <3>2. Ancestors[Parent[t]] \o Below \in Seq(ProcLines)
      BY <1>3, <1>4, <3>1, ConcatProperties
    <3> QED
      BY <2>2, <3>2 DEF Above
  <2> QED
    BY <2>1, <2>2
<1> QED
  BY <1>2, <1>3, <1>4, <1>5

(* One line more, of the lines ahead.                                      *)
LEMMA LineMoves ==
  ASSUME NEW v \in Seq(ProcLines), NEW x \in ProcLines, NEW rest \in Seq(ProcLines)
  PROVE  /\ v \o (<<x>> \o rest) = Append(v, x) \o rest
         /\ Len(v) < Len(v \o (<<x>> \o rest))
         /\ Append(v, x) \in Seq(ProcLines)
<1>1. <<x>> \in Seq(ProcLines) /\ Len(<<x>>) = 1
  OBVIOUS
<1>2. /\ <<x>> \o rest \in Seq(ProcLines) /\ Len(<<x>> \o rest) = 1 + Len(rest)
      /\ Len(v \o (<<x>> \o rest)) = Len(v) + Len(<<x>> \o rest)
      /\ Len(v) \in Nat /\ Len(rest) \in Nat
  BY <1>1, ConcatProperties, LenProperties
<1>3. Append(v, x) = v \o <<x>>
  BY AppendIsConcat
<1>4. v \o (<<x>> \o rest) = (v \o <<x>>) \o rest
  BY <1>1, ConcatAssociative
<1> QED
  BY <1>2, <1>3, <1>4, AppendProperties

LEMMA LinesAssociate ==
  ASSUME NEW a \in Seq(ProcLines), NEW b \in Seq(ProcLines), NEW c \in Seq(ProcLines)
  PROVE  (a \o b) \o c = a \o (b \o c)
BY ConcatAssociative

LEMMA WalkParts ==
  /\ \A t \in Climbers : Ancestors[t] \o Below = <<t>> \o Above(t)
  /\ \A t \in Tasks \ {init_task} : From[t] = <<t>> \o From[NextTask[t]]
  /\ From[init_task] = <<>> /\ \A p \in Users : Walk(p) = <<p>> \o Above(p)
<1>1. ASSUME NEW t \in Climbers
      PROVE  Ancestors[t] \o Below = <<t>> \o Above(t)
  <2>1. CASE t = init
    BY <2>1, WalksAssumption DEF Above, Climbers
  <2>2. CASE t # init
    <3>1. Parent[t] \in Climbers /\ Ancestors[t] = <<t>> \o Ancestors[Parent[t]]
      BY <2>2, TasksAssumption, WalksAssumption DEF Climbers
    <3>0. t \in ProcLines
      BY DEF Climbers, Tasks, ProcLines
    <3>2. <<t>> \in Seq(ProcLines) /\ Ancestors[Parent[t]] \in Seq(ProcLines) /\ Below \in Seq(ProcLines)
      BY <3>0, <3>1, WalkTypes
    <3>3. (<<t>> \o Ancestors[Parent[t]]) \o Below = <<t>> \o (Ancestors[Parent[t]] \o Below)
      <4> DEFINE head == <<t>>
      <4>1. head \in Seq(ProcLines)
        BY <3>2
      <4> HIDE DEF head
      <4>2. (head \o Ancestors[Parent[t]]) \o Below = head \o (Ancestors[Parent[t]] \o Below)
        BY <3>2, <4>1, LinesAssociate
      <4> QED
        BY <4>2 DEF head
    <3> QED
      BY <2>2, <3>1, <3>3 DEF Above
  <2> QED
    BY <2>1, <2>2
<1>2. \A t \in Tasks \ {init_task} : From[t] = <<t>> \o From[NextTask[t]]
  BY WalksAssumption
<1>3. From[init_task] = <<>>
  BY WalksAssumption, WalkTypes
<1>4. ASSUME NEW p \in Users
      PROVE  Walk(p) = <<p>> \o Above(p)
  <2>1. p \in Climbers /\ "all" \in ProcLines
    BY DEF Climbers, ProcLines
  <2>2. NextTask[init_task] \in Tasks
    BY WalkTypes
  <2>3. Ancestors[p] \in Seq(ProcLines) /\ From[NextTask[init_task]] \in Seq(ProcLines)
    BY <2>1, <2>2, WalkTypes
  <2>4. <<"all">> \in Seq(ProcLines)
    BY <2>1
  <2>5. (Ancestors[p] \o <<"all">>) \o From[NextTask[init_task]] = Ancestors[p] \o Below
    <3> DEFINE line == <<"all">>
               others == From[NextTask[init_task]]
    <3>1. line \in Seq(ProcLines) /\ others \in Seq(ProcLines) /\ Below = line \o others
      BY <2>3, <2>4 DEF Below
    <3> HIDE DEF line, others
    <3>2. (Ancestors[p] \o line) \o others = Ancestors[p] \o (line \o others)
      BY <2>3, <3>1, LinesAssociate
    <3> QED
      BY <3>1, <3>2 DEF line, others
  <2>6. Walk(p) = Ancestors[p] \o Below
    BY <2>5 DEF Walk
  <2> QED
    BY <1>1, <2>1, <2>6
<1> QED
  BY <1>1, <1>2, <1>3, <1>4

LEMMA ProcStart ==
  ProcInit => ProcInv
<1> SUFFICES ASSUME ProcInit
             PROVE  ProcInv
  OBVIOUS
<1>1. ProcTypes
  <2>1. value = <<>> /\ <<>> \in Seq(ProcLines) /\ init_task \in Tasks
    BY WalkTypes DEF ProcInit
  <2> QED
    BY <2>1 DEF ProcInit, ProcTypes, ProcPlaces
<1>2. AloneInside /\ \A p \in Users : doing[p] = "no" /\ page[p] = <<>>
  BY DEF ProcInit, AloneInside
<1> QED
  BY <1>1, <1>2 DEF ProcInv, WalkRight, AnswerRight

(* A call that begins, and a statement of a call under way.                *)
LEMMA BeginRight ==
  ASSUME ProcInv, NEW p \in Users, NEW place \in {"first", "copied"}, Begin(p, place),
         value' \in Seq(ProcLines), UNCHANGED <<entries, task>>
  PROVE  ProcInv'
<1> USE DEF ProcInv
<1>1. /\ file /\ doing[p] = "no" /\ doing' = [doing EXCEPT ![p] = place]
      /\ page' = [page EXCEPT ![p] = <<>>] /\ kind' = kind /\ loaded' = loaded /\ file' = file
  BY DEF Begin, entries
<1>2. /\ solo' \in [Users -> BOOLEAN]
      /\ solo'[p] => \A q \in Users : doing[q] = "no"
      /\ \A q \in Users \ {p} : solo'[q] => solo[q] /\ doing[q] = "no"
  <2> DEFINE busy == {q \in Users : doing[q] # "no"}
  <2>1. solo' = [q \in Users |-> IF q = p THEN busy = {} ELSE solo[q] /\ q \notin busy]
    BY DEF Begin
  <2>2. solo \in [Users -> BOOLEAN]
    BY DEF ProcTypes
  <2> QED
    BY <2>1, <2>2, Zenon
<1>3. ProcTypes'
  <2>1. /\ value' \in Seq(ProcLines) /\ task' \in Tasks /\ solo' \in [Users -> BOOLEAN]
        /\ file' /\ loaded'
    BY <1>1, <1>2 DEF ProcTypes
  <2>2. doing' \in [Users -> ProcPlaces] /\ DOMAIN page' = Users
    BY <1>1 DEF ProcTypes, ProcPlaces
  <2> QED
    BY <2>1, <2>2 DEF ProcTypes
<1>4. /\ doing'[p] = place /\ page'[p] = <<>>
      /\ \A q \in Users \ {p} : doing'[q] = doing[q] /\ page'[q] = page[q]
  BY <1>1 DEF ProcTypes
<1>5. AloneInside'
  BY <1>2, <1>4 DEF AloneInside
<1>6. ASSUME kind' \in {"walk", "choice"}, NEW q \in Users, solo'[q]
      PROVE  WalkRight(q)'
  <2>1. CASE q = p
    BY <1>4, <2>1 DEF WalkRight
  <2>2. CASE q # p
    <3>1. WalkRight(q) /\ doing[q] = "no"
      BY <1>1, <1>2, <1>6, <2>2
    <3> QED
      BY <1>4, <2>2, <3>1 DEF WalkRight, AnswerRight
  <2> QED
    BY <2>1, <2>2
<1> QED
  BY <1>3, <1>5, <1>6

LEMMA StatementRight ==
  ASSUME ProcInv, NEW p \in Users, doing[p] # "no", NEW place \in ProcPlaces,
         doing' = [doing EXCEPT ![p] = place],
         value' \in Seq(ProcLines), task' \in Tasks, UNCHANGED <<entries, solo>>,
         DOMAIN page' = Users, \A q \in Users \ {p} : page'[q] = page[q],
         kind \in {"walk", "choice"} /\ solo[p] => WalkRight(p)'
  PROVE  ProcInv'
<1> USE DEF ProcInv
<1>1. ProcTypes'
  BY DEF ProcTypes, entries
<1>2. \A q \in Users \ {p} : doing'[q] = doing[q] /\ page'[q] = page[q]
  BY DEF ProcTypes
<1>3. AloneInside'
  BY <1>2 DEF AloneInside
<1>4. ASSUME kind' \in {"walk", "choice"}, NEW q \in Users, solo'[q], q # p
      PROVE  WalkRight(q)'
  <2>1. kind = kind' /\ solo[q] /\ WalkRight(q)
    BY <1>4 DEF entries
  <2>2. doing[q] = "no"
    BY <1>4, <2>1 DEF AloneInside
  <2> QED
    BY <1>2, <1>4, <2>1, <2>2 DEF WalkRight, AnswerRight
<1> QED
  BY <1>1, <1>3, <1>4 DEF entries

(* sprintf behind the lines that are there.                                *)
LEMMA LineTypes ==
  ASSUME ProcInv, NEW p \in Users, NEW from \in ProcPlaces, NEW to \in ProcPlaces,
         NEW x \in ProcLines, Line(p, from, to, x)
  PROVE  /\ doing[p] = from /\ value' \in Seq(ProcLines)
         /\ \E place \in ProcPlaces : doing' = [doing EXCEPT ![p] = place]
<1>1. value \in Seq(ProcLines) /\ Append(value, x) \in Seq(ProcLines)
  BY DEF ProcInv, ProcTypes
<1>2. "lost" \in ProcPlaces
  BY DEF ProcPlaces
<1> QED
  BY <1>1, <1>2 DEF Line, Step

LEMMA LineFits ==
  ASSUME ProcInv, RoomForWalks, NEW p \in Users, NEW from, NEW to, NEW x \in ProcLines,
         NEW rest \in Seq(ProcLines), value \o (<<x>> \o rest) = Walk(p), Line(p, from, to, x)
  PROVE  /\ doing' = [doing EXCEPT ![p] = to] /\ value' \o rest = Walk(p)
<1>1. value \in Seq(ProcLines)
  BY DEF ProcInv, ProcTypes
<1>2. Len(value) < Len(Walk(p)) /\ Append(value, x) \o rest = Walk(p)
  BY <1>1, LineMoves
<1>3. Walk(p) \in Seq(ProcLines)
  <2>1. <<x>> \o rest \in Seq(ProcLines)
    BY ConcatProperties
  <2> QED
    BY <1>1, <2>1, ConcatProperties
<1>4. Len(value) \in Nat /\ Len(Walk(p)) \in Nat
  BY <1>1, <1>3, LenProperties
<1>5. Len(value) < MaxLines
  BY <1>2, <1>4, ProcAssumption DEF RoomForWalks
<1> QED
  BY <1>2, <1>5 DEF Line, Step

(* init_module, cleanup_module and the parameter.                          *)
LEMMA LoadingRight ==
  ASSUME ProcInv, LoadFails \/ Load \/ LoadWalking \/ Unload \/ SetParam
  PROVE  ProcInv'
<1> USE DEF ProcInv
<1>1. UNCHANGED <<kind, doing, page, solo>>
  BY DEF LoadFails, Load, LoadWalking, Unload, SetParam, entries
<1>2. ProcTypes' /\ ((value' = value /\ task' = task) \/ \A p \in Users : doing[p] = "no")
  <2>1. CASE LoadFails \/ Unload \/ SetParam
    BY <2>1 DEF LoadFails, Unload, SetParam, entries, ProcTypes
  <2>2. CASE Load
    <3>1. value' \in {<<>>, <<"ticks">>} /\ "ticks" \in ProcLines
      BY <2>2 DEF Load, ProcLines
    <3>2. <<>> \in Seq(ProcLines) /\ <<"ticks">> \in Seq(ProcLines)
      BY <3>1
    <3> QED
      BY <2>2, <3>1, <3>2 DEF Load, ProcTypes
  <2>3. CASE LoadWalking
    <3>1. PICK p \in Users : value' = Walk(p)
      BY <2>3 DEF LoadWalking
    <3>2. p \in Climbers /\ p \in ProcLines
      BY DEF Climbers, Tasks, ProcLines
    <3>3. <<p>> \o Above(p) \in Seq(ProcLines)
      BY <3>2, WalkTypes, ConcatProperties
    <3>4. value' \in Seq(ProcLines)
      BY <3>1, <3>3, WalkParts
    <3>5. task' \in Tasks
      BY <2>3, WalkTypes DEF LoadWalking
    <3> QED
      BY <2>3, <3>4, <3>5 DEF LoadWalking, ProcTypes
  <2> QED
    BY <2>1, <2>2, <2>3
<1>3. AloneInside'
  BY <1>1 DEF AloneInside
<1>4. ASSUME kind' \in {"walk", "choice"}, NEW q \in Users, solo'[q]
      PROVE  WalkRight(q)'
  <2>1. WalkRight(q) /\ doing' = doing /\ page' = page
    BY <1>1, <1>4
  <2> QED
    BY <1>2, <2>1 DEF WalkRight, AnswerRight
<1> QED
  BY <1>2, <1>3, <1>4

(* proc_read and proc_write in one step, and the end of proc_write.        *)
LEMMA CallRight ==
  ASSUME ProcInv, NEW p \in Users, ReadText(p) \/ ReadClock(p) \/ WriteFault(p)
  PROVE  ProcInv'
<1> USE DEF ProcInv
<1>1. /\ doing' = doing /\ doing[p] = "no" /\ task' = task
      /\ kind' = kind /\ loaded' = loaded /\ file' = file
      /\ \A q \in Users \ {p} : page'[q] = page[q]
  BY DEF ReadText, ReadClock, WriteFault, entries, ProcTypes
<1>2. value' \in Seq(ProcLines) /\ DOMAIN page' = Users
  <2>1. <<"user", "rest">> \in Seq(ProcLines)
    BY DEF ProcLines
  <2> QED
    BY <2>1 DEF ReadText, ReadClock, WriteFault, ProcTypes
<1>3. /\ solo' \in [Users -> BOOLEAN]
      /\ \A q \in Users \ {p} : solo'[q] => solo[q]
      /\ value' # value => \A q \in Users : solo'[q] => doing[q] = "no"
  BY DEF ReadText, ReadClock, WriteFault, ProcTypes
<1>4. ProcTypes'
  BY <1>1, <1>2, <1>3 DEF ProcTypes
<1>5. AloneInside'
  BY <1>1, <1>3 DEF AloneInside
<1>6. ASSUME kind' \in {"walk", "choice"}, NEW q \in Users, solo'[q]
      PROVE  WalkRight(q)'
  <2>1. CASE q = p
    <3>1. ReadClock(p) \/ WriteFault(p)
      BY <1>1, <1>6 DEF ReadText
    <3>2. page'[p] \in {<<>>, <<"time">>}
      BY <3>1 DEF ReadClock, WriteFault, ProcTypes
    <3> QED
      BY <1>1, <2>1, <3>2 DEF WalkRight, AnswerRight
  <2>2. CASE q # p
    <3>1. WalkRight(q)
      BY <1>1, <1>3, <1>6, <2>2
    <3>2. doing[q] = "no" \/ value' = value
      BY <1>3, <1>6
    <3> QED
      BY <1>1, <2>2, <3>1, <3>2 DEF WalkRight, AnswerRight
  <2> QED
    BY <2>1, <2>2
<1> QED
  BY <1>4, <1>5, <1>6

LEMMA WriteRight ==
  ASSUME ProcInv, NEW p \in Users, Write(p) \/ WriteEnd(p)
  PROVE  ProcInv'
<1>1. <<"user", "rest">> \in Seq(ProcLines) /\ <<"user">> \in Seq(ProcLines)
  BY DEF ProcLines
<1>2. CASE Write(p)
  BY <1>1, <1>2, BeginRight DEF Write
<1>3. CASE WriteEnd(p)
  <2>1. /\ doing[p] = "copied" /\ "no" \in ProcPlaces /\ doing' = [doing EXCEPT ![p] = "no"]
        /\ page' = page /\ task' \in Tasks /\ DOMAIN page' = Users /\ doing'[p] = "no"
    BY <1>3 DEF WriteEnd, Step, ProcPlaces, ProcInv, ProcTypes
  <2>2. value' \in Seq(ProcLines) /\ UNCHANGED <<entries, solo>>
    BY <1>1, <1>3 DEF WriteEnd
  <2>3. kind \in {"walk", "choice"} /\ solo[p] => WalkRight(p)'
    BY <2>1 DEF ProcInv, WalkRight, AnswerRight
  <2> QED
    BY <2>1, <2>2, <2>3, StatementRight
<1> QED
  BY <1>2, <1>3

(* The loops of proc_read, statement by statement.                         *)
LEMMA ReadRight ==
  ASSUME ProcInv, RoomForWalks, NEW p \in Users,
         ReadFirst(p) \/ ReadCurrent(p) \/ ReadEnd(p)
  PROVE  ProcInv'
<1>1. p \in ProcLines /\ p \in Tasks /\ p \in Climbers
  BY DEF ProcLines, Tasks, Climbers
<1>2. /\ value \in Seq(ProcLines) /\ task \in Tasks /\ DOMAIN page = Users
      /\ doing \in [Users -> ProcPlaces]
  BY DEF ProcInv, ProcTypes
<1>3. CASE ReadFirst(p)
  <2>1. /\ doing[p] = "first" /\ doing' = [doing EXCEPT ![p] = "current"] /\ value' = <<p>>
        /\ UNCHANGED <<task, page, entries, solo>>
    BY <1>3 DEF ReadFirst, Step
  <2>2. <<p>> \in Seq(ProcLines) /\ "current" \in ProcPlaces
    BY <1>1 DEF ProcPlaces
  <2>3. kind \in {"walk", "choice"} /\ solo[p] => WalkRight(p)'
    BY <1>2, <2>1 DEF ProcInv, WalkRight
  <2> QED
    BY <1>2, <2>1, <2>2, <2>3, StatementRight
<1>4. CASE ReadCurrent(p)
  <2>1. /\ doing[p] = "current" /\ doing' = [doing EXCEPT ![p] = "up"] /\ task' = p
        /\ UNCHANGED <<value, page, entries, solo>>
    BY <1>4 DEF ReadCurrent, Step
  <2>2. "up" \in ProcPlaces
    BY DEF ProcPlaces
  <2>3. ASSUME kind \in {"walk", "choice"}, solo[p]
        PROVE  WalkRight(p)'
    <3>1. value = <<p>> /\ page[p] = <<>>
      BY <2>1, <2>3 DEF ProcInv, WalkRight
    <3>2. value' \o Above(p) = Walk(p)
      BY <2>1, <3>1, WalkParts
    <3>3. Above(task)' = Above(p) /\ Walk(p)' = Walk(p)
      BY <2>1 DEF Above, Below, Walk
    <3> QED
      BY <1>1, <1>2, <2>1, <3>1, <3>2, <3>3 DEF WalkRight
  <2> QED
    BY <1>1, <1>2, <2>1, <2>2, <2>3, StatementRight
<1>5. CASE ReadEnd(p)
  <2>1. /\ doing[p] = "print" /\ doing' = [doing EXCEPT ![p] = "no"]
        /\ page' = [page EXCEPT ![p] = value] /\ UNCHANGED <<task, value, entries, solo>>
    BY <1>5 DEF ReadEnd, Step
  <2>2. "no" \in ProcPlaces
    BY DEF ProcPlaces
  <2>3. ASSUME kind \in {"walk", "choice"}, solo[p]
        PROVE  WalkRight(p)'
    <3>1. value = Walk(p)
      BY <2>1, <2>3 DEF ProcInv, WalkRight
    <3>2. page'[p] = Walk(p) /\ doing'[p] = "no" /\ Walk(p)' = Walk(p)
      BY <1>2, <2>1, <3>1 DEF Walk
    <3> QED
      BY <3>2 DEF WalkRight, AnswerRight
  <2> QED
    BY <1>2, <2>1, <2>2, <2>3, StatementRight
<1> QED
  BY <1>3, <1>4, <1>5

LEMMA ClimbRight ==
  ASSUME ProcInv, RoomForWalks, NEW p \in Users, ReadUp(p)
  PROVE  ProcInv'
<1>1. /\ value \in Seq(ProcLines) /\ task \in Tasks /\ DOMAIN page = Users
      /\ doing \in [Users -> ProcPlaces]
  BY DEF ProcInv, ProcTypes
<1>2. {"up", "down"} \subseteq ProcPlaces /\ UNCHANGED <<page, entries, solo>>
  BY DEF ProcPlaces, ReadUp
<1>3. CASE task = init
  <2>1. /\ doing[p] = "up" /\ doing' = [doing EXCEPT ![p] = "down"] /\ UNCHANGED <<task, value>>
    BY <1>3 DEF ReadUp, Step
  <2>2. ASSUME kind \in {"walk", "choice"}, solo[p]
        PROVE  WalkRight(p)'
    <3>1. value \o Below = Walk(p) /\ page[p] = <<>>
      BY <1>3, <2>1, <2>2 DEF ProcInv, WalkRight, Above
    <3>2. Below' = Below /\ Walk(p)' = Walk(p)
      BY DEF Below, Walk
    <3> QED
      BY <1>1, <1>2, <2>1, <3>1, <3>2 DEF WalkRight
  <2> QED
    BY <1>1, <1>2, <2>1, <2>2, StatementRight
<1>4. CASE task # init
  <2> DEFINE q == Parent[task]
  <2>1. task' = q /\ Line(p, "up", "up", q)
    BY <1>4 DEF ReadUp
  <2>2. q \in Tasks /\ q \in ProcLines
    BY <1>1, WalkTypes DEF ProcLines
  <2>3. /\ doing[p] = "up" /\ value' \in Seq(ProcLines)
        /\ \E place \in ProcPlaces : doing' = [doing EXCEPT ![p] = place]
    BY <1>2, <2>1, <2>2, LineTypes
  <2>4. ASSUME kind \in {"walk", "choice"}, solo[p]
        PROVE  WalkRight(p)'
    <3>1. task \in Climbers /\ value \o Above(task) = Walk(p) /\ page[p] = <<>>
      BY <2>3, <2>4 DEF ProcInv, WalkRight
    <3>2. q \in Climbers
      BY <1>4, <3>1, TasksAssumption DEF Climbers
    <3>3. Above(task) = <<q>> \o Above(q) /\ Above(q) \in Seq(ProcLines)
      BY <1>4, <3>2, WalkParts, WalkTypes DEF Above
    <3>4. value \o (<<q>> \o Above(q)) = Walk(p)
      BY <3>1, <3>3
    <3>5. doing' = [doing EXCEPT ![p] = "up"] /\ value' \o Above(q) = Walk(p)
      <4> DEFINE ahead == Above(q)
      <4>1. ahead \in Seq(ProcLines) /\ value \o (<<q>> \o ahead) = Walk(p)
        BY <3>3, <3>4
      <4> HIDE DEF q, ahead
      <4>2. doing' = [doing EXCEPT ![p] = "up"] /\ value' \o ahead = Walk(p)
        BY <2>1, <2>2, <4>1, LineFits
      <4> QED
        BY <4>2 DEF ahead
    <3>6. Above(task)' = Above(q) /\ Walk(p)' = Walk(p)
      BY <2>1 DEF Above, Below, Walk
    <3>7. page'[p] = <<>> /\ doing'[p] = "up" /\ task' \in Climbers
      BY <1>1, <1>2, <2>1, <3>1, <3>2, <3>5
    <3> QED
      BY <3>5, <3>6, <3>7 DEF WalkRight
  <2> QED
    BY <1>1, <1>2, <2>1, <2>2, <2>3, <2>4, StatementRight
<1> QED
  BY <1>3, <1>4

LEMMA DescendRight ==
  ASSUME ProcInv, RoomForWalks, NEW p \in Users, ReadDown(p)
  PROVE  ProcInv'
<1> DEFINE others == From[NextTask[init_task]]
<1>1. /\ value \in Seq(ProcLines) /\ DOMAIN page = Users /\ doing \in [Users -> ProcPlaces]
  BY DEF ProcInv, ProcTypes
<1>2. /\ {"down", "each"} \subseteq ProcPlaces /\ "all" \in ProcLines
      /\ task' = init_task /\ Line(p, "down", "each", "all") /\ UNCHANGED <<page, entries, solo>>
  BY DEF ProcPlaces, ProcLines, ReadDown
<1>3. /\ doing[p] = "down" /\ value' \in Seq(ProcLines)
      /\ \E place \in ProcPlaces : doing' = [doing EXCEPT ![p] = place]
  BY <1>2, LineTypes
<1>4. task' \in Tasks /\ others \in Seq(ProcLines)
  BY <1>2, WalkTypes
<1>5. ASSUME kind \in {"walk", "choice"}, solo[p]
      PROVE  WalkRight(p)'
  <2>1. value \o (<<"all">> \o others) = Walk(p) /\ page[p] = <<>>
    BY <1>3, <1>5 DEF ProcInv, WalkRight, Below
  <2>2. doing' = [doing EXCEPT ![p] = "each"] /\ value' \o others = Walk(p)
    BY <1>2, <1>4, <2>1, LineFits
  <2>3. From[NextTask[task]]' = others /\ Walk(p)' = Walk(p)
    BY <1>2 DEF Walk
  <2>4. page'[p] = <<>> /\ doing'[p] = "each"
    BY <1>1, <1>2, <2>1, <2>2
  <2> QED
    BY <2>2, <2>3, <2>4 DEF WalkRight
<1> QED
  BY <1>1, <1>2, <1>3, <1>4, <1>5, StatementRight

LEMMA EachRight ==
  ASSUME ProcInv, RoomForWalks, NEW p \in Users, ReadEach(p)
  PROVE  ProcInv'
<1> DEFINE u == NextTask[task]
<1>1. /\ value \in Seq(ProcLines) /\ task \in Tasks /\ DOMAIN page = Users
      /\ doing \in [Users -> ProcPlaces]
  BY DEF ProcInv, ProcTypes
<1>2. {"each", "print"} \subseteq ProcPlaces /\ task' = u /\ UNCHANGED <<page, entries, solo>>
  BY DEF ProcPlaces, ReadEach
<1>3. u \in Tasks /\ u \in ProcLines
  BY <1>1, WalkTypes DEF ProcLines
<1>4. CASE u = init_task
  <2>1. doing[p] = "each" /\ doing' = [doing EXCEPT ![p] = "print"] /\ value' = value
    BY <1>4 DEF ReadEach, Step
  <2>2. ASSUME kind \in {"walk", "choice"}, solo[p]
        PROVE  WalkRight(p)'
    <3>1. value \o From[u] = Walk(p) /\ page[p] = <<>>
      BY <2>1, <2>2 DEF ProcInv, WalkRight
    <3>2. From[u] = <<>>
      BY <1>4, WalkParts
    <3>3. value = Walk(p)
      BY <1>1, <3>1, <3>2, ConcatEmptySeq
    <3>4. Walk(p)' = Walk(p) /\ page'[p] = <<>> /\ doing'[p] = "print"
      BY <1>1, <1>2, <2>1, <3>1 DEF Walk
    <3> QED
      BY <2>1, <3>3, <3>4 DEF WalkRight
  <2> QED
    BY <1>1, <1>2, <1>3, <2>1, <2>2, StatementRight
<1>5. CASE u # init_task
  <2>1. Line(p, "each", "each", u)
    BY <1>5 DEF ReadEach
  <2>2. /\ doing[p] = "each" /\ value' \in Seq(ProcLines)
        /\ \E place \in ProcPlaces : doing' = [doing EXCEPT ![p] = place]
    BY <1>2, <1>3, <2>1, LineTypes
  <2>3. ASSUME kind \in {"walk", "choice"}, solo[p]
        PROVE  WalkRight(p)'
    <3>1. value \o From[u] = Walk(p) /\ page[p] = <<>>
      BY <2>2, <2>3 DEF ProcInv, WalkRight
    <3>2. From[u] = <<u>> \o From[NextTask[u]] /\ From[NextTask[u]] \in Seq(ProcLines)
      BY <1>3, <1>5, WalkParts, WalkTypes
    <3>3. value \o (<<u>> \o From[NextTask[u]]) = Walk(p)
      BY <3>1, <3>2
    <3>4. doing' = [doing EXCEPT ![p] = "each"] /\ value' \o From[NextTask[u]] = Walk(p)
      <4> DEFINE ahead == From[NextTask[u]]
      <4>1. ahead \in Seq(ProcLines) /\ value \o (<<u>> \o ahead) = Walk(p)
        BY <3>2, <3>3
      <4> HIDE DEF u, ahead
      <4>2. doing' = [doing EXCEPT ![p] = "each"] /\ value' \o ahead = Walk(p)
        BY <1>3, <2>1, <4>1, LineFits
      <4> QED
        BY <4>2 DEF ahead
    <3>5. From[NextTask[task]]' = From[NextTask[u]] /\ Walk(p)' = Walk(p)
      BY <1>2 DEF Walk
    <3>6. page'[p] = <<>> /\ doing'[p] = "each"
      BY <1>1, <1>2, <3>1, <3>4
    <3> QED
      BY <3>4, <3>5, <3>6 DEF WalkRight
  <2> QED
    BY <1>1, <1>2, <1>3, <2>2, <2>3, StatementRight
<1> QED
  BY <1>4, <1>5

(* Whatever earlier readers and writers left in the shared buffer and the  *)
(* shared pointer, a reader nobody overtakes gets its ancestors up to init *)
(* and then every process once, where the buffer has room for that         *)
(* (proc_read of partB/exp4b.c, partC/exp4c.c and 实验5/test.c).           *)
THEOREM SoloReadsAreRight ==
  ASSUME RoomForWalks
  PROVE  ProcSpec => []SoloReadIsRight
<1>1. ProcInv /\ [ProcNext]_procVars => ProcInv'
  <2> SUFFICES ASSUME ProcInv, [ProcNext]_procVars
               PROVE  ProcInv'
    OBVIOUS
  <2>1. CASE UNCHANGED procVars
    BY <2>1 DEF procVars, ProcInv, ProcTypes, AloneInside, WalkRight, AnswerRight, Above, Below, Walk
  <2>2. CASE LoadFails \/ Load \/ LoadWalking \/ Unload \/ SetParam
    BY <2>2, LoadingRight
  <2>3. ASSUME NEW p \in Users, ProcStep(p)
        PROVE  ProcInv'
    <3>1. CASE ReadBegin(p)
      <4>1. value' \in Seq(ProcLines) /\ UNCHANGED <<entries, task>> /\ Begin(p, "first")
        BY <3>1 DEF ReadBegin, ProcInv, ProcTypes
      <4> QED
        BY <4>1, BeginRight
    <3> QED
      BY <2>3, <3>1, CallRight, WriteRight, ReadRight, ClimbRight, DescendRight, EachRight DEF ProcStep
  <2> QED
    BY <2>1, <2>2, <2>3 DEF ProcNext
<1>2. ProcInv => SoloReadIsRight
  BY DEF ProcInv, WalkRight, AnswerRight, SoloReadIsRight
<1> QED
  BY <1>1, <1>2, ProcStart, PTL DEF ProcSpec
=============================================================================
