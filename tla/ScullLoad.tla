----------------------------- MODULE ScullLoad -----------------------------
(***************************************************************************)
(* Loading and unloading of the scull module: main.c claims its device     *)
(* numbers, allocates and adds the bare devices and calls pipe.c and       *)
(* access.c for theirs; any claim, allocation or cdev_add may fail.  A     *)
(* device can be opened from the moment cdev_add returns, while the rest   *)
(* is still being set up.                                                  *)
(*                                                                         *)
(* main.c has the calls of access.c in comments; friends says whether they *)
(* are built.  The files in /proc are only built with SCULL_DEBUG, which   *)
(* the Makefile does not set.                                              *)
(***************************************************************************)
EXTENDS Integers

CONSTANT Nr                             \* devices of each kind

ASSUME NrAssumption == Nr \in Nat \ {0}

VARIABLES
    friends,                            \* is access.c built in?
    stage,                              \* the step, of which device
    regions, blocks,                    \* what the kernel gave
    ready,                              \* devices that are initialised
    live,                               \* devices cdev_add was called for
    held,                               \* devices that are open
    filled                              \* devices with data

loadVars == <<friends, stage, regions, blocks, ready, live, held, filled>>

kernel == <<regions, blocks>>
devices == <<ready, live, held, filled>>

Kinds == {"scull", "scullp", "sculla"}
Of(k) == {<<k, i>> : i \in 1..Nr}

LoadInit ==
    /\ friends \in BOOLEAN
    /\ stage = <<"out", 0>>
    /\ regions = {} /\ blocks = {}
    /\ ready = {} /\ live = {} /\ held = {} /\ filled = {}

To(from, to) == stage = from /\ stage' = to /\ UNCHANGED friends

(* register_chrdev_region or alloc_chrdev_region.                          *)
Claim(k, from, ok, refused) ==
    /\ \/ To(from, ok) /\ regions' = regions \cup {k}
       \/ To(from, refused) /\ UNCHANGED regions
    /\ UNCHANGED <<blocks, devices>>

(* kmalloc of the array of devices; the memory is cleared.                 *)
Allocate(k, from) ==
    /\ To(from, <<k, 1>>)
    /\ blocks' = blocks \cup {k}
    /\ UNCHANGED <<regions, devices>>

(* One device of kind k: its fields, then cdev_add.                        *)
Initialise(k) ==
    \E i \in 1..Nr :
        /\ To(<<k, i>>, <<k, i, "add">>)
        /\ ready' = ready \cup {<<k, i>>}
        /\ UNCHANGED <<kernel, live, held, filled>>

Add(k, next) ==
    \E i \in 1..Nr :
        /\ To(<<k, i, "add">>, IF i < Nr THEN <<k, i + 1>> ELSE next)
        /\ live' \in {live, live \cup {<<k, i>>}}
        /\ UNCHANGED <<kernel, ready, held, filled>>

-----------------------------------------------------------------------------
scull_init_module == Claim("scull", <<"out", 0>>, <<"alloc", 0>>, <<"out", 0>>)

InitDevices ==
    \/ Allocate("scull", <<"alloc", 0>>)
    \/ To(<<"alloc", 0>>, <<"clean", 0>>) /\ UNCHANGED <<kernel, devices>>

(* Mutant: cdev_add comes before the fields are set.                       *)
AddEarly ==
    \E i \in 1..Nr :
        /\ To(<<"scull", i>>, <<"scull", i, "add">>)
        /\ live' \in {live, live \cup {<<"scull", i>>}}
        /\ UNCHANGED <<kernel, ready, held, filled>>

InitDevice == Initialise("scull")

scull_setup_cdev == Add("scull", <<"pipes", 0>>)

scull_p_init ==
    \/ Claim("scullp", <<"pipes", 0>>, <<"palloc", 0>>, <<"friends", 0>>)
    \/ Allocate("scullp", <<"palloc", 0>>)
    \/ /\ To(<<"palloc", 0>>, <<"friends", 0>>)
       /\ regions' = regions \ {"scullp"}
       /\ UNCHANGED <<blocks, devices>>

InitPipe == Initialise("scullp")

scull_p_setup_cdev == Add("scullp", <<"friends", 0>>)

scull_access_init ==
    \/ friends /\ Claim("sculla", <<"friends", 0>>, <<"sculla", 1>>, <<"in", 0>>)
    \/ ~friends /\ To(<<"friends", 0>>, <<"in", 0>>) /\ UNCHANGED <<kernel, devices>>

scull_access_setup == Initialise("sculla") \/ Add("sculla", <<"in", 0>>)

-----------------------------------------------------------------------------
(* The cleanup, of a module nobody uses or of an init that failed.         *)

rmmod ==
    /\ held = {}
    /\ To(<<"in", 0>>, <<"clean", 0>>)
    /\ UNCHANGED <<kernel, devices>>

Gone(k) ==
    /\ blocks' = blocks \ {k}
    /\ ready' = ready \ Of(k)
    /\ live' = live \ Of(k)
    /\ UNCHANGED held

(* Mutant: a device that never became live is skipped with its data.       *)
scull_cleanup_module_skip ==
    /\ To(<<"clean", 0>>, <<"pclean", 0>>)
    /\ Gone("scull")
    /\ UNCHANGED filled
    /\ regions' = regions \ {"scull"}

scull_cleanup_module ==
    /\ To(<<"clean", 0>>, <<"pclean", 0>>)
    /\ IF "scull" \in blocks THEN Gone("scull") /\ filled' = filled \ Of("scull")
       ELSE UNCHANGED <<blocks, devices>>
    /\ regions' = regions \ {"scull"}

scull_p_cleanup ==
    /\ To(<<"pclean", 0>>, <<"aclean", 0>>)
    /\ IF "scullp" \in blocks
       THEN /\ Gone("scullp") /\ filled' = filled \ Of("scullp")
            /\ regions' = regions \ {"scullp"}
       ELSE UNCHANGED <<kernel, devices>>

(* The static devices and the clones, made or not.                         *)
scull_access_cleanup ==
    /\ To(<<"aclean", 0>>, <<"out", 0>>)
    /\ IF friends
       THEN /\ Gone("sculla") /\ filled' = filled \ Of("sculla")
            /\ regions' = regions \ {"sculla"}
       ELSE UNCHANGED <<kernel, devices>>

-----------------------------------------------------------------------------
(* The users, from the first cdev_add on.                                  *)

Going == stage[1] \in {"out", "clean", "pclean", "aclean"}

Open(d) ==
    /\ d \in live \ held /\ ~Going
    /\ held' = held \cup {d}
    /\ UNCHANGED <<friends, stage, kernel, ready, live, filled>>

Fill(d) ==
    /\ d \in held
    /\ filled' = filled \cup {d}
    /\ UNCHANGED <<friends, stage, kernel, ready, live, held>>

(* The last release of a pipe frees its buffer, the others keep their data.*)
Close(d) ==
    /\ d \in held
    /\ held' = held \ {d}
    /\ filled' = IF d[1] = "scullp" THEN filled \ {d} ELSE filled
    /\ UNCHANGED <<friends, stage, kernel, ready, live>>

LoadNext ==
    \/ scull_init_module \/ InitDevices \/ InitDevice \/ scull_setup_cdev
    \/ scull_p_init \/ InitPipe \/ scull_p_setup_cdev
    \/ scull_access_init \/ scull_access_setup
    \/ rmmod \/ scull_cleanup_module \/ scull_p_cleanup \/ scull_access_cleanup
    \/ \E k \in Kinds : \E d \in Of(k) : Open(d) \/ Fill(d) \/ Close(d)

LoadSpec == LoadInit /\ [][LoadNext]_loadVars

-----------------------------------------------------------------------------
(* A module that is out, after an unload or an init that failed at any     *)
(* step, has given everything back: numbers, memory and data ("The cleanup *)
(* function is used to handle initialization failures as well", main.c     *)
(* 566); and nothing can be opened before its fields are set.              *)
LoadSound ==
    /\ stage[1] = "out" => regions = {} /\ blocks = {} /\ live = {} /\ filled = {}
    /\ held \subseteq ready
=============================================================================
