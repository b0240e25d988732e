----------------------------- MODULE EventTable -----------------------------
(***************************************************************************)
(* What the event calls of exp6.c promise, without the list: a table of    *)
(* numbered semaphores.  A call changes the entry it names and no other.   *)
(***************************************************************************)
EXTENDS Integers, SequencesExt

CONSTANTS Procs, Numbers, Counts

VARIABLE table      \* the entries, by number

TableInit == table = <<>>

(* A new event under a number that is not in use; nobody waits for it.     *)
TableOpen(n, c) ==
    /\ n \notin DOMAIN table
    /\ table' = [k \in DOMAIN table \cup {n} |->
                    IF k = n THEN [count |-> c, init |-> c, queue |-> <<>>]
                    ELSE table[k]]

TableWait(p, n) ==
    /\ n \in DOMAIN table
    /\ \A k \in DOMAIN table : p \notin ToSet(table[k].queue)
    /\ table' = [table EXCEPT
          ![n].count = @ - 1,
          ![n].queue = IF table[n].count <= 0 THEN Append(@, p) ELSE @]

(* One unit is given back, never more than there were, and the first in    *)
(* the queue goes on.                                                      *)
TableSignal(n) ==
    /\ n \in DOMAIN table
    /\ LET c == IF table[n].count < table[n].init THEN table[n].count + 1
                                                 ELSE table[n].count
       IN  table' = [table EXCEPT
              ![n].count = c,
              ![n].queue = IF c <= 0 /\ @ # <<>> THEN Tail(@) ELSE @]

(* An event goes when nobody waits for it.                                 *)
TableClose(n) ==
    /\ n \in DOMAIN table
    /\ table[n].queue = <<>>
    /\ table' = [k \in DOMAIN table \ {n} |-> table[k]]

TableNext ==
    \E n \in Numbers :
        \/ \E c \in Counts : TableOpen(n, c)
        \/ \E p \in Procs : TableWait(p, n)
        \/ TableSignal(n)
        \/ TableClose(n)

TableSpec == TableInit /\ [][TableNext]_table
=============================================================================
