---------------------------- MODULE KernelEvents ----------------------------
(***************************************************************************)
(* The list of events of exp6.c: myevent_open, myevent_wait,               *)
(* myevent_signal and myevent_close on a linked list in kernel memory.     *)
(*                                                                         *)
(* A system call runs until it sleeps (the kernel of EventSemaphore with   *)
(* Preempt = FALSE): it does in schedule(), and it may in the kmalloc of   *)
(* myevent_open, between the search and the insertion.                     *)
(*                                                                         *)
(* What the code does after it followed a pointer into freed memory is not *)
(* modelled: a call that would do so takes no step.                        *)
(***************************************************************************)
EXTENDS Integers, FiniteSets, SequencesExt

CONSTANTS
    Procs,          \* the processes
    Nodes,          \* the places of the heap kmalloc may return
    NULL,
    Numbers,        \* the event numbers that calls name, never 0
    Counts,         \* the initial counts that opens pass
    Openers,        \* the processes that open events
    Closable,       \* the positions in the list from which events are closed
    IdleCloses      \* are events only closed while nobody waits for them?

ASSUME NodesAssumption == IsFiniteSet(Nodes) /\ NULL \notin Nodes
ASSUME NumbersAssumption == Numbers \subseteq Int \ {0} /\ Counts \subseteq Int
ASSUME ClosableAssumption == Closable \subseteq {"only", "end", "head", "middle"}

VARIABLES
    heap,           \* the allocated nodes and what is in them
    head, end,      \* lpmyevent_head and lpmyevent_end
    pc,             \* where each process is
    arg             \* the arguments of its myevent_open

eventVars == <<heap, head, end, pc, arg>>

EventInit ==
    /\ heap = <<>>
    /\ head = NULL /\ end = NULL
    /\ pc = [p \in Procs |-> "user"]
    /\ arg = [p \in Procs |-> <<>>]

-----------------------------------------------------------------------------
(* The list.                                                               *)

Positions == 0..Cardinality(Nodes)

(* The nodes that a walk from first passes, NULL from the end on.          *)
Walk(h, first) ==
    LET w[k \in Positions] ==
            IF k = 0 THEN first
            ELSE IF w[k - 1] \in DOMAIN h THEN h[w[k - 1]].next ELSE NULL
    IN  w

(* Where scheventNum finds number n.                                       *)
Hits(h, first, n) ==
    {k \in Positions : /\ Walk(h, first)[k] \in DOMAIN h
                       /\ h[Walk(h, first)[k]].num = n}

FirstHit(h, first, n) ==
    CHOOSE k \in Hits(h, first, n) : \A j \in Hits(h, first, n) : k <= j

scheventNum(h, first, n) ==
    IF Hits(h, first, n) = {} THEN NULL
    ELSE Walk(h, first)[FirstHit(h, first, n)]

(* The node before it, which scheventNum hands out in *prev.               *)
prev(n) ==
    LET k == FirstHit(heap, head, n)
    IN  IF k = 0 THEN NULL ELSE Walk(heap, head)[k - 1]

Event(n) == scheventNum(heap, head, n)

(* The search for n ends before it leaves the allocated memory.            *)
Safe(n) ==
    \/ Event(n) # NULL
    \/ \A k \in Positions : Walk(heap, head)[k] \in DOMAIN heap \cup {NULL}

-----------------------------------------------------------------------------
(* myevent_open.                                                           *)

(* Mutant: the open does not look whether the number is in use.            *)
OpenCallUnchecked(p, n, c) ==
    /\ pc[p] = "user" /\ p \in Openers
    /\ Safe(n)
    /\ pc' = [pc EXCEPT ![p] = "alloc"]
    /\ arg' = [arg EXCEPT ![p] = <<n, c>>]
    /\ UNCHANGED <<heap, head, end>>

(* No event has the number: kmalloc.  Otherwise the call returns 0.        *)
OpenCall(p, n, c) ==
    /\ pc[p] = "user" /\ p \in Openers
    /\ Safe(n) /\ Event(n) = NULL
    /\ pc' = [pc EXCEPT ![p] = "alloc"]
    /\ arg' = [arg EXCEPT ![p] = <<n, c>>]
    /\ UNCHANGED <<heap, head, end>>

NewNode(n, c) ==
    [num |-> n, next |-> NULL, count |-> c, init |-> c, queue |-> <<>>]

(* The heap h with a new node at m.                                        *)
WithNode(h, m, new) == [k \in DOMAIN h \cup {m} |-> IF k = m THEN new ELSE h[k]]

(* Mutant: the tail pointer stays where it was.                            *)
OpenInsertOldTail(p) ==
    /\ pc[p] = "alloc"
    /\ \E m \in Nodes \ DOMAIN heap :
          IF head = NULL
          THEN /\ heap' = WithNode(heap, m, NewNode(2, arg[p][2]))
               /\ head' = m /\ end' = m
          ELSE /\ end \in DOMAIN heap
               /\ heap' = WithNode([heap EXCEPT ![end].next = m], m,
                                   NewNode(arg[p][1], arg[p][2]))
               /\ UNCHANGED <<head, end>>
    /\ pc' = [pc EXCEPT ![p] = "user"]
    /\ arg' = [arg EXCEPT ![p] = <<>>]

(* The memory is there: the event goes to the end of the list, under       *)
(* number 2 if it is the first.                                            *)
OpenInsert(p) ==
    /\ pc[p] = "alloc"
    /\ \E m \in Nodes \ DOMAIN heap :
          IF head = NULL
          THEN /\ heap' = WithNode(heap, m, NewNode(2, arg[p][2]))
               /\ head' = m /\ end' = m
          ELSE /\ end \in DOMAIN heap
               /\ heap' = WithNode([heap EXCEPT ![end].next = m], m,
                                   NewNode(arg[p][1], arg[p][2]))
               /\ end' = m
               /\ UNCHANGED head
    /\ pc' = [pc EXCEPT ![p] = "user"]
    /\ arg' = [arg EXCEPT ![p] = <<>>]

-----------------------------------------------------------------------------
(* myevent_wait and myevent_signal.                                        *)

(* Mutant: the last unit is not given out.                                 *)
WaitCallEarly(p, n) ==
    /\ pc[p] = "user"
    /\ Event(n) # NULL
    /\ LET m == Event(n)
           c == heap[m].count - 1
       IN  /\ heap' = [heap EXCEPT
                  ![m].count = c,
                  ![m].queue = IF c <= 0 THEN Append(@, p) ELSE @]
           /\ pc' = [pc EXCEPT ![p] = IF c <= 0 THEN "sleep" ELSE "user"]
    /\ UNCHANGED <<head, end, arg>>

WaitCall(p, n) ==
    /\ pc[p] = "user"
    /\ Event(n) # NULL
    /\ LET m == Event(n)
           c == heap[m].count - 1
       IN  /\ heap' = [heap EXCEPT
                  ![m].count = c,
                  ![m].queue = IF c < 0 THEN Append(@, p) ELSE @]
           /\ pc' = [pc EXCEPT ![p] = IF c < 0 THEN "sleep" ELSE "user"]
    /\ UNCHANGED <<head, end, arg>>

(* A wake-up took p off the queue.                                         *)
WaitFinish(p) ==
    /\ pc[p] = "woken"
    /\ pc' = [pc EXCEPT ![p] = "user"]
    /\ UNCHANGED <<heap, head, end, arg>>

SignalledCount(h, m) ==
    IF h[m].count + 1 <= h[m].init THEN h[m].count + 1 ELSE h[m].count

(* Mutant: a signal wakes only when a unit is free.                        *)
WokenLate(h, m) ==
    IF SignalledCount(h, m) = 1 /\ h[m].queue # <<>>
    THEN {Head(h[m].queue)} ELSE {}

(* The process that a signal to the event at m wakes, if any.              *)
Woken(h, m) ==
    IF SignalledCount(h, m) <= 0 /\ h[m].queue # <<>>
    THEN {Head(h[m].queue)} ELSE {}

(* The heap after that signal.                                             *)
Signalled(h, m) ==
    [h EXCEPT ![m].count = SignalledCount(h, m),
              ![m].queue = IF Woken(h, m) # {} THEN Tail(@) ELSE @]

Awaken(who) == pc' = [q \in Procs |-> IF q \in who THEN "woken" ELSE pc[q]]

SignalCall(p, n) ==
    /\ pc[p] = "user"
    /\ Event(n) # NULL
    /\ heap' = Signalled(heap, Event(n))
    /\ Awaken(Woken(heap, Event(n)))
    /\ UNCHANGED <<head, end, arg>>

-----------------------------------------------------------------------------
(* myevent_close.                                                          *)

Position(m) ==
    IF m = end THEN IF m = head THEN "only" ELSE "end"
    ELSE IF m = head THEN "head" ELSE "middle"

(* The event is taken out (not out of the list if it is at the end), then  *)
(* its number is signalled, whatever has it now, then it is freed.         *)
CloseCall(p, n) ==
    /\ pc[p] = "user"
    /\ Event(n) # NULL
    /\ Position(Event(n)) \in Closable
    /\ IdleCloses => heap[Event(n)].queue = <<>>
    /\ LET m == Event(n)
           pr == prev(n)
           unlinked == IF Position(m) = "middle"
                       THEN [heap EXCEPT ![pr].next = heap[m].next] ELSE heap
           first == IF Position(m) = "head" THEN heap[m].next ELSE head
           again == scheventNum(unlinked, first, n)
           after == IF again = NULL THEN unlinked ELSE Signalled(unlinked, again)
       IN  /\ end' = IF m = end THEN pr ELSE end
           /\ head' = first
           /\ heap' = [k \in DOMAIN heap \ {m} |-> after[k]]
           /\ Awaken(IF again = NULL THEN {} ELSE Woken(unlinked, again))
    /\ UNCHANGED arg

-----------------------------------------------------------------------------
EventNext ==
    \E p \in Procs :
        \/ OpenInsert(p) \/ WaitFinish(p)
        \/ \E n \in Numbers :
              \/ \E c \in Counts : OpenCall(p, n, c)
              \/ WaitCall(p, n) \/ SignalCall(p, n) \/ CloseCall(p, n)

EventSpec == EventInit /\ [][EventNext]_eventVars

-----------------------------------------------------------------------------
(* Properties.                                                             *)

Listed == {Walk(heap, head)[k] : k \in Positions} \ {NULL}

(* The count of an event below zero is the number of its sleepers, and it  *)
(* is never above its initial value (exp6.c:1343).                         *)
CountsWaiters ==
    \A m \in DOMAIN heap :
        /\ heap[m].count <= heap[m].init
        /\ Len(heap[m].queue) = IF heap[m].count < 0 THEN -heap[m].count ELSE 0

(* The list is the allocated events, from the head pointer to the tail     *)
(* pointer ("head pointer / tail pointer of the event chain", exp6.c:1240  *)
(* and 1241): nothing is lost from it and nothing freed is left in it.     *)
ListSound ==
    /\ Listed = DOMAIN heap
    /\ head = NULL <=> end = NULL
    /\ \A m \in Listed : heap[m].next = NULL <=> m = end

(* A number names one event (exp6.c:1263: an open of a number that exists  *)
(* does nothing).                                                          *)
UniqueNumbers ==
    \A m, k \in Listed \cap DOMAIN heap : heap[m].num = heap[k].num => m = k

(* Whoever sleeps can be woken: its event is still there.  myevent_close   *)
(* says it wakes who is blocked (exp6.c:1368).                             *)
NobodyLeftBehind ==
    \A p \in Procs :
        pc[p] = "sleep" => \E m \in DOMAIN heap : p \in ToSet(heap[m].queue)

(* The list implements a table of semaphores: each call changes the event  *)
(* it names and no other, and nobody leaves a queue without a signal.      *)
Table == INSTANCE EventTable WITH
    table <- [n \in {heap[m].num : m \in Listed} |->
                 [count |-> heap[Event(n)].count, init |-> heap[Event(n)].init,
                  queue |-> heap[Event(n)].queue]]

ListIsTable == Table!TableSpec
=============================================================================
