------------------------- MODULE KernelEventsProofs ------------------------
(***************************************************************************)
(* Theorems of KernelEvents, for any heap, any processes and any numbers.  *)
(*                                                                         *)
(* Walk is a recursive function.  What it returns is known once the list   *)
(* is known: WalkOfChain gives its value in closed form, which satisfies   *)
(* the same recursion, and shows by the least place where they would       *)
(* differ that there is no other.                                          *)
(***************************************************************************)
EXTENDS KernelEvents, FiniteSetTheorems, WellFoundedInduction, TLAPS

(* A set of natural numbers that is not empty has a least one.             *)
LEMMA LeastNumber ==
  ASSUME NEW T, T \subseteq Nat, T # {}
  PROVE  \E m \in T : \A k \in T : m <= k
<1> DEFINE R == {ss \in Nat \X Nat : ss[1] < ss[2]}
<1>1. OpToRel(<, Nat) = R
  BY DEF OpToRel
<1>2. IsWellFoundedOn(R, Nat)
  BY <1>1, NatLessThanWellFounded
<1>3. \E x \in T : \A y \in T : <<y, x>> \notin R
  <2> HIDE DEF R
  <2> QED
    BY <1>2, WFMin
<1>4. \A x, y \in Nat : y < x => <<y, x>> \in R
  OBVIOUS
<1>5. PICK m \in T : \A k \in T : <<k, m>> \notin R
  BY <1>3
<1>6. \A k \in T : ~(k < m)
  <2> HIDE DEF R
  <2> QED
    BY <1>4, <1>5
<1>7. \A k \in T : m <= k
  BY <1>6
<1> QED
  BY <1>7

-----------------------------------------------------------------------------
(* Walks.                                                                  *)

(* What a walk does at its kth step, from what it did before.              *)
Follow(h, first, w, k) ==
    IF k = 0 THEN first
    ELSE IF w[k - 1] \in DOMAIN h THEN h[w[k - 1]].next ELSE NULL

(* A walk satisfies its recursion if anything does.                        *)
LEMMA WalkUnfolds ==
  ASSUME NEW h, NEW first, NEW f, f = [k \in Positions |-> Follow(h, first, f, k)]
  PROVE  Walk(h, first) = [k \in Positions |-> Follow(h, first, Walk(h, first), k)]
<1> DEFINE P(w) == w = [k \in Positions |->
                            IF k = 0 THEN first
                            ELSE IF w[k - 1] \in DOMAIN h THEN h[w[k - 1]].next ELSE NULL]
<1>1. Walk(h, first) = CHOOSE w : P(w)
  BY DEF Walk
<1>2. P(f)
  BY DEF Follow
<1>3. P(Walk(h, first))
  <2> HIDE DEF P
  <2> QED
    BY <1>1, <1>2
<1> QED
  BY <1>3 DEF Follow

(* The nodes s[1] .. s[len], each once, are linked from first to NULL.     *)
Chain(h, first, len, s) ==
    /\ len \in Nat /\ s \in [1..len -> Nodes \cap DOMAIN h]
    /\ \A i, j \in 1..len : s[i] = s[j] => i = j
    /\ first = IF len = 0 THEN NULL ELSE s[1]
    /\ \A i \in 1..len : h[s[i]].next = IF i = len THEN NULL ELSE s[i + 1]

LEMMA PositionsAreNumbers ==
  /\ Cardinality(Nodes) \in Nat
  /\ Positions = 0..Cardinality(Nodes)
  BY NodesAssumption, FS_CardinalityType DEF Positions

LEMMA ChainsFit ==
  ASSUME NEW h, NEW first, NEW len, NEW s, Chain(h, first, len, s)
  PROVE  len <= Cardinality(Nodes) /\ \A i \in 1..len : i - 1 \in Positions
<1>1. s \in Injection(1..len, Nodes)
  BY DEF Chain, Injection, IsInjective
<1>2. Cardinality(1..len) = len
  BY FS_Interval DEF Chain
<1>3. len <= Cardinality(Nodes)
  BY <1>1, <1>2, NodesAssumption, FS_Injection
<1> QED
  BY <1>3, PositionsAreNumbers DEF Chain

LEMMA WalkOfChain ==
  ASSUME NEW h, NEW first, NEW len, NEW s, Chain(h, first, len, s), NULL \notin DOMAIN h
  PROVE  \A k \in Positions : Walk(h, first)[k] = IF k < len THEN s[k + 1] ELSE NULL
<1> DEFINE f == [k \in Positions |-> IF k < len THEN s[k + 1] ELSE NULL]
           w == Walk(h, first)
<1>1. \A k \in Positions : k \in Nat /\ (k # 0 => k - 1 \in Positions)
  BY PositionsAreNumbers
<1>2. len \in Nat /\ \A i \in 1..len : s[i] \in DOMAIN h
  BY DEF Chain
<1>3. ASSUME NEW k \in Positions, NEW v, k # 0 => v[k - 1] = f[k - 1]
      PROVE  Follow(h, first, v, k) = f[k]
  <2>1. CASE k = 0
    BY <2>1, <1>2 DEF Follow, Chain
  <2>2. CASE k # 0 /\ k - 1 < len
    <3>1. v[k - 1] = s[k] /\ k \in 1..len
      BY <1>1, <1>2, <1>3, <2>2
    <3> QED
      BY <1>1, <1>2, <2>2, <3>1 DEF Follow, Chain
  <2>3. CASE k # 0 /\ ~(k - 1 < len)
    <3>1. v[k - 1] = NULL
      BY <1>1, <1>3, <2>3
    <3> QED
      BY <1>1, <1>2, <2>3, <3>1 DEF Follow
  <2> QED
    BY <2>1, <2>2, <2>3
<1>4. f = [k \in Positions |-> Follow(h, first, f, k)]
  <2>1. \A k \in Positions : Follow(h, first, f, k) = f[k]
    BY <1>3
  <2> QED
    BY <2>1
<1>5. w = [k \in Positions |-> Follow(h, first, w, k)]
  <2> HIDE DEF f, w
  <2>1. Walk(h, first) = [k \in Positions |-> Follow(h, first, Walk(h, first), k)]
    BY <1>4, WalkUnfolds
  <2> QED
    BY <2>1 DEF w
<1>6. \A k \in Positions : w[k] = f[k]
  <2> DEFINE Bad == {k \in Positions : w[k] # f[k]}
  <2>1. SUFFICES ASSUME Bad # {}
                 PROVE  FALSE
    OBVIOUS
  <2>2. PICK k \in Bad : \A j \in Bad : k <= j
    <3> HIDE DEF f, w
    <3>1. Bad \subseteq Nat
      BY <1>1
    <3> HIDE DEF Bad
    <3> QED
      BY <2>1, <3>1, LeastNumber
  <2>3. k \in Positions /\ w[k] # f[k] /\ (k # 0 => w[k - 1] = f[k - 1])
    <3> HIDE DEF f, w
    <3> QED
      BY <1>1, <2>2
  <2>4. w[k] = Follow(h, first, w, k)
    <3> HIDE DEF w
    <3> QED
      BY <1>5, <2>3
  <2> QED
    BY <1>3, <2>3, <2>4
<1> QED
  BY <1>6

-----------------------------------------------------------------------------
(* Searches.                                                               *)

(* A search that finds something finds the first node with the number.     *)
LEMMA SearchFinds ==
  ASSUME NEW h, NEW first, NEW n, Hits(h, first, n) # {}
  PROVE  /\ FirstHit(h, first, n) \in Positions
         /\ scheventNum(h, first, n) = Walk(h, first)[FirstHit(h, first, n)]
         /\ scheventNum(h, first, n) \in DOMAIN h
         /\ h[scheventNum(h, first, n)].num = n
<1>1. Hits(h, first, n) \subseteq Nat
  BY PositionsAreNumbers DEF Hits
<1>2. \E k \in Hits(h, first, n) : \A j \in Hits(h, first, n) : k <= j
  BY <1>1, LeastNumber
<1>3. FirstHit(h, first, n) \in Hits(h, first, n)
  BY <1>2 DEF FirstHit
<1> QED
  BY <1>3 DEF Hits, scheventNum

LEMMA SearchResult ==
  ASSUME NEW h, NEW first, NEW n, scheventNum(h, first, n) # NULL
  PROVE  scheventNum(h, first, n) \in DOMAIN h /\ h[scheventNum(h, first, n)].num = n
  BY SearchFinds DEF scheventNum

(* In a list a search finds nothing exactly if no node has the number.     *)
LEMMA SearchInChain ==
  ASSUME NEW h, NEW first, NEW len, NEW s, Chain(h, first, len, s), NULL \notin DOMAIN h, NEW n
  PROVE  /\ scheventNum(h, first, n) = NULL <=> \A i \in 1..len : h[s[i]].num # n
         /\ scheventNum(h, first, n) # NULL =>
                /\ FirstHit(h, first, n) + 1 \in 1..len
                /\ scheventNum(h, first, n) = s[FirstHit(h, first, n) + 1]
<1>1. \A k \in Positions : /\ k \in Nat
                           /\ Walk(h, first)[k] = IF k < len THEN s[k + 1] ELSE NULL
  BY WalkOfChain, PositionsAreNumbers
<1>2. len \in Nat /\ \A i \in 1..len : s[i] \in DOMAIN h /\ i - 1 \in Positions
  BY ChainsFit DEF Chain
<1>3. Hits(h, first, n) = {k \in Positions : k < len /\ h[s[k + 1]].num = n}
  BY <1>1, <1>2 DEF Hits
<1>4. ASSUME Hits(h, first, n) = {}
      PROVE  scheventNum(h, first, n) = NULL /\ \A i \in 1..len : h[s[i]].num # n
  <2>1. \A i \in 1..len : i - 1 < len /\ (i - 1) + 1 = i
    BY <1>2
  <2> QED
    BY <1>2, <1>3, <1>4, <2>1 DEF scheventNum
<1>5. ASSUME Hits(h, first, n) # {}
      PROVE  /\ scheventNum(h, first, n) # NULL
             /\ FirstHit(h, first, n) + 1 \in 1..len
             /\ scheventNum(h, first, n) = s[FirstHit(h, first, n) + 1]
             /\ h[s[FirstHit(h, first, n) + 1]].num = n
  <2> DEFINE k == FirstHit(h, first, n)
  <2>1. /\ k \in Positions /\ scheventNum(h, first, n) = Walk(h, first)[k]
        /\ scheventNum(h, first, n) \in DOMAIN h
        /\ h[scheventNum(h, first, n)].num = n
    BY <1>5, SearchFinds
  <2>2. scheventNum(h, first, n) # NULL
    BY <2>1
  <2>3. k < len /\ scheventNum(h, first, n) = s[k + 1]
    BY <1>1, <2>1, <2>2
  <2>4. k + 1 \in 1..len
    BY <1>1, <1>2, <2>1, <2>3
  <2> QED
    BY <2>1, <2>2, <2>3, <2>4
<1> QED
  BY <1>4, <1>5

-----------------------------------------------------------------------------
(* Types.                                                                  *)

EventRecord ==
    [num : Int, next : Nodes \cup {NULL}, count : Int, init : Int, queue : Seq(Procs)]

EventTypes ==
    /\ heap \in [DOMAIN heap -> EventRecord] /\ DOMAIN heap \subseteq Nodes
    /\ pc \in [Procs -> {"user", "alloc", "sleep", "woken"}]
    /\ arg \in [Procs -> {<<>>} \cup (Numbers \X Counts)]
    /\ \A p \in Procs : pc[p] = "alloc" => p \in Openers /\ arg[p] \in Numbers \X Counts

LEMMA NullIsNoNode == EventTypes => NULL \notin DOMAIN heap
  BY NodesAssumption DEF EventTypes

LEMMA NewNodeType ==
  ASSUME NEW n \in Int, NEW c \in Int
  PROVE  NewNode(n, c) \in EventRecord
  BY DEF NewNode, EventRecord

(* The heap h after the node at m got a new count and a new queue.         *)
Recounted(h, m, c, q) == [h EXCEPT ![m] = [h[m] EXCEPT !.count = c, !.queue = q]]

LEMMA RecountedHeap ==
  ASSUME NEW h, h \in [DOMAIN h -> EventRecord], NEW m \in DOMAIN h,
         NEW c \in Int, NEW q \in Seq(Procs)
  PROVE  LET g == Recounted(h, m, c, q)
         IN  /\ g \in [DOMAIN h -> EventRecord] /\ DOMAIN g = DOMAIN h
             /\ \A k \in DOMAIN h : /\ g[k].next = h[k].next
                                    /\ g[k].num = h[k].num
                                    /\ g[k].init = h[k].init
                                    /\ k # m => g[k] = h[k]
             /\ g[m].count = c /\ g[m].queue = q
  BY DEF Recounted, EventRecord

(* A signal changes the count and the queue of one node.                   *)
LEMMA SignalledHeap ==
  ASSUME NEW h, h \in [DOMAIN h -> EventRecord], NEW m \in DOMAIN h
  PROVE  /\ SignalledCount(h, m) \in Int
         /\ Woken(h, m) \subseteq Procs
         /\ Signalled(h, m) \in [DOMAIN h -> EventRecord]
         /\ DOMAIN Signalled(h, m) = DOMAIN h
         /\ \A k \in DOMAIN h : /\ Signalled(h, m)[k].next = h[k].next
                                /\ Signalled(h, m)[k].num = h[k].num
                                /\ Signalled(h, m)[k].init = h[k].init
                                /\ k # m => Signalled(h, m)[k] = h[k]
         /\ Signalled(h, m)[m].count = SignalledCount(h, m)
         /\ Signalled(h, m)[m].queue = IF Woken(h, m) # {} THEN Tail(h[m].queue) ELSE h[m].queue
<1>1. /\ h[m] \in EventRecord /\ h[m].count \in Int /\ h[m].init \in Int
      /\ h[m].queue \in Seq(Procs)
  BY DEF EventRecord
<1>2. SignalledCount(h, m) \in Int
  BY <1>1 DEF SignalledCount
<1>3. Woken(h, m) # {} => h[m].queue # <<>>
  BY DEF Woken
<1>4. Woken(h, m) \subseteq Procs
  BY <1>1 DEF Woken
<1> DEFINE q == IF Woken(h, m) # {} THEN Tail(h[m].queue) ELSE h[m].queue
<1>5. q \in Seq(Procs)
  BY <1>1, <1>3
<1>6. Signalled(h, m) = Recounted(h, m, SignalledCount(h, m), q)
  BY <1>1 DEF Signalled, Recounted, EventRecord
<1> HIDE DEF q
<1>7. /\ Signalled(h, m) \in [DOMAIN h -> EventRecord] /\ DOMAIN Signalled(h, m) = DOMAIN h
      /\ \A k \in DOMAIN h : /\ Signalled(h, m)[k].next = h[k].next
                             /\ Signalled(h, m)[k].num = h[k].num
                             /\ Signalled(h, m)[k].init = h[k].init
                             /\ k # m => Signalled(h, m)[k] = h[k]
      /\ Signalled(h, m)[m].count = SignalledCount(h, m) /\ Signalled(h, m)[m].queue = q
  BY <1>2, <1>5, <1>6, RecountedHeap
<1> QED
  BY <1>2, <1>4, <1>7 DEF q

(* What a wait does to the heap.                                           *)
LEMMA WaitedHeap ==
  ASSUME EventTypes, NEW p \in Procs, NEW n \in Numbers, WaitCall(p, n)
  PROVE  LET m == Event(n)
             c == heap[m].count - 1
         IN  /\ m \in DOMAIN heap /\ c \in Int
             /\ heap' \in [DOMAIN heap -> EventRecord] /\ DOMAIN heap' = DOMAIN heap
             /\ \A k \in DOMAIN heap : /\ heap'[k].next = heap[k].next
                                       /\ heap'[k].num = heap[k].num
                                       /\ heap'[k].init = heap[k].init
                                       /\ k # m => heap'[k] = heap[k]
             /\ heap'[m].count = c
             /\ heap'[m].queue = IF c < 0 THEN Append(heap[m].queue, p) ELSE heap[m].queue
<1> DEFINE m == Event(n)
           c == heap[m].count - 1
           q == IF c < 0 THEN Append(heap[m].queue, p) ELSE heap[m].queue
<1>1. m \in DOMAIN heap
  BY SearchResult DEF WaitCall, Event
<1>2. /\ heap[m] \in EventRecord /\ c \in Int /\ q \in Seq(Procs)
      /\ heap \in [DOMAIN heap -> EventRecord]
  BY <1>1 DEF EventTypes, EventRecord
<1>3. heap' = Recounted(heap, m, c, q)
  BY <1>1, <1>2 DEF WaitCall, Recounted, EventRecord
<1> HIDE DEF m, c, q
<1>4. /\ heap' \in [DOMAIN heap -> EventRecord] /\ DOMAIN heap' = DOMAIN heap
      /\ \A k \in DOMAIN heap : /\ heap'[k].next = heap[k].next
                                /\ heap'[k].num = heap[k].num
                                /\ heap'[k].init = heap[k].init
                                /\ k # m => heap'[k] = heap[k]
      /\ heap'[m].count = c /\ heap'[m].queue = q
  BY <1>1, <1>2, <1>3, RecountedHeap
<1> QED
  BY <1>1, <1>2, <1>4 DEF m, c, q

(* What an insertion does to the heap and the list: node m is new.         *)
Inserted(p, m, n, c) ==
    /\ heap' \in [DOMAIN heap \cup {m} -> EventRecord]
    /\ DOMAIN heap' = DOMAIN heap \cup {m} /\ heap'[m] = NewNode(n, c)
    /\ \A k \in DOMAIN heap : /\ heap'[k].num = heap[k].num
                              /\ heap'[k].count = heap[k].count
                              /\ heap'[k].init = heap[k].init
                              /\ heap'[k].queue = heap[k].queue
    /\ end' = m
    /\ \/ /\ head = NULL /\ head' = m /\ n = 2
          /\ \A k \in DOMAIN heap : heap'[k].next = heap[k].next
       \/ /\ head # NULL /\ head' = head /\ n = arg[p][1] /\ end \in DOMAIN heap
          /\ \A k \in DOMAIN heap :
                heap'[k].next = IF k = end THEN m ELSE heap[k].next

LEMMA InsertedHeap ==
  ASSUME EventTypes, NEW p \in Procs, OpenInsert(p)
  PROVE  \E m \in Nodes \ DOMAIN heap, n \in Int, c \in Counts : Inserted(p, m, n, c)
<1>1. /\ heap \in [DOMAIN heap -> EventRecord]
      /\ arg[p][1] \in Int /\ arg[p][2] \in Counts /\ arg[p][2] \in Int
  BY NumbersAssumption DEF EventTypes, OpenInsert
<1>2. PICK m \in Nodes \ DOMAIN heap :
          IF head = NULL
          THEN /\ heap' = WithNode(heap, m, NewNode(2, arg[p][2]))
               /\ head' = m /\ end' = m
          ELSE /\ end \in DOMAIN heap
               /\ heap' = WithNode([heap EXCEPT ![end].next = m], m,
                                   NewNode(arg[p][1], arg[p][2]))
               /\ end' = m
               /\ UNCHANGED head
  BY DEF OpenInsert
<1>3. CASE head = NULL
  <2>1. NewNode(2, arg[p][2]) \in EventRecord
    <3>1. 2 \in Int
      OBVIOUS
    <3> QED
      BY <1>1, <3>1, NewNodeType
  <2>2. /\ heap' \in [DOMAIN heap \cup {m} -> EventRecord]
        /\ DOMAIN heap' = DOMAIN heap \cup {m} /\ heap'[m] = NewNode(2, arg[p][2])
        /\ \A k \in DOMAIN heap : heap'[k] = heap[k]
        /\ head' = m /\ end' = m
    BY <1>1, <1>2, <1>3, <2>1 DEF WithNode
  <2> QED
    BY <1>1, <1>3, <2>2 DEF Inserted
<1>4. CASE head # NULL
  <2> DEFINE h == [heap EXCEPT ![end].next = m]
  <2>1. NewNode(arg[p][1], arg[p][2]) \in EventRecord
    BY <1>1, NewNodeType
  <2>2. /\ h \in [DOMAIN heap -> EventRecord] /\ DOMAIN h = DOMAIN heap
        /\ \A k \in DOMAIN heap : /\ h[k].num = heap[k].num
                                  /\ h[k].count = heap[k].count
                                  /\ h[k].init = heap[k].init
                                  /\ h[k].queue = heap[k].queue
                                  /\ h[k].next = IF k = end THEN m ELSE heap[k].next
    BY <1>1, <1>2, <1>4 DEF EventRecord
  <2>3. heap' = WithNode(h, m, NewNode(arg[p][1], arg[p][2])) /\ end' = m /\ head' = head
        /\ end \in DOMAIN heap
    BY <1>2, <1>4
  <2> HIDE DEF h
  <2>4. /\ heap' \in [DOMAIN heap \cup {m} -> EventRecord]
        /\ DOMAIN heap' = DOMAIN heap \cup {m}
        /\ heap'[m] = NewNode(arg[p][1], arg[p][2])
        /\ \A k \in DOMAIN heap : heap'[k] = h[k]
    BY <1>2, <2>1, <2>2, <2>3 DEF WithNode
  <2>5. /\ \A k \in DOMAIN heap : /\ heap'[k].num = heap[k].num
                                  /\ heap'[k].count = heap[k].count
                                  /\ heap'[k].init = heap[k].init
                                  /\ heap'[k].queue = heap[k].queue
        /\ \A k \in DOMAIN heap : heap'[k].next = IF k = end THEN m ELSE heap[k].next
    BY <2>2, <2>4
  <2> QED
    BY <1>1, <1>4, <2>3, <2>4, <2>5 DEF Inserted
<1> QED
  BY <1>3, <1>4

-----------------------------------------------------------------------------
(* The parts of a close: the heap with the event of number n unlinked, the *)
(* head of the list then, and the node that number n finds there.          *)

Unlinked(n) ==
    IF Position(Event(n)) = "middle"
    THEN [heap EXCEPT ![prev(n)].next = heap[Event(n)].next] ELSE heap

FirstLeft(n) == IF Position(Event(n)) = "head" THEN heap[Event(n)].next ELSE head

Again(n) == scheventNum(Unlinked(n), FirstLeft(n), n)

LEMMA UnlinkedHeap ==
  ASSUME EventTypes, NEW n, Event(n) \in DOMAIN heap
  PROVE  /\ Unlinked(n) \in [DOMAIN heap -> EventRecord] /\ DOMAIN Unlinked(n) = DOMAIN heap
         /\ \A k \in DOMAIN heap :
               /\ Unlinked(n)[k].num = heap[k].num /\ Unlinked(n)[k].init = heap[k].init
               /\ Unlinked(n)[k].count = heap[k].count
               /\ Unlinked(n)[k].queue = heap[k].queue
               /\ Unlinked(n)[k].next =
                     IF Position(Event(n)) = "middle" /\ k = prev(n)
                     THEN heap[Event(n)].next ELSE heap[k].next
<1>1. heap \in [DOMAIN heap -> EventRecord] /\ heap[Event(n)].next \in Nodes \cup {NULL}
  BY DEF EventTypes, EventRecord
<1>2. CASE Position(Event(n)) = "middle"
  BY <1>1, <1>2 DEF Unlinked, EventRecord
<1>3. CASE Position(Event(n)) # "middle"
  BY <1>1, <1>3 DEF Unlinked
<1> QED
  BY <1>2, <1>3

(* What a close does to the heap.                                          *)
LEMMA ClosedHeap ==
  ASSUME EventTypes, NEW p \in Procs, NEW n \in Numbers, CloseCall(p, n)
  PROVE  /\ Event(n) \in DOMAIN heap
         /\ head' = FirstLeft(n) /\ end' = IF Event(n) = end THEN prev(n) ELSE end
         /\ heap' \in [DOMAIN heap \ {Event(n)} -> EventRecord]
         /\ DOMAIN heap' = DOMAIN heap \ {Event(n)}
         /\ \A k \in DOMAIN heap' :
               /\ heap'[k].num = heap[k].num /\ heap'[k].init = heap[k].init
               /\ heap'[k].next = Unlinked(n)[k].next
               /\ heap'[k].count = IF k = Again(n) THEN SignalledCount(heap, k)
                                                   ELSE heap[k].count
               /\ heap'[k].queue = IF k = Again(n) /\ Woken(heap, k) # {}
                                   THEN Tail(heap[k].queue) ELSE heap[k].queue
<1> DEFINE u == Unlinked(n)
           w == Again(n)
           after == IF w = NULL THEN u ELSE Signalled(u, w)
<1>1. Event(n) \in DOMAIN heap
  BY SearchResult DEF CloseCall, Event
<1>2. /\ head' = FirstLeft(n) /\ end' = IF Event(n) = end THEN prev(n) ELSE end
      /\ heap' = [k \in DOMAIN heap \ {Event(n)} |-> after[k]]
  BY DEF CloseCall, Unlinked, FirstLeft, Again
<1>3. /\ u \in [DOMAIN heap -> EventRecord] /\ DOMAIN u = DOMAIN heap
      /\ \A k \in DOMAIN heap : /\ u[k].num = heap[k].num /\ u[k].init = heap[k].init
                                /\ u[k].count = heap[k].count /\ u[k].queue = heap[k].queue
  BY <1>1, UnlinkedHeap
<1>4. w # NULL => w \in DOMAIN u
  BY SearchResult DEF Again
<1> HIDE DEF u, w
<1>5. /\ after \in [DOMAIN heap -> EventRecord] /\ DOMAIN after = DOMAIN heap
      /\ \A k \in DOMAIN heap :
            /\ after[k].num = heap[k].num /\ after[k].init = heap[k].init
            /\ after[k].next = u[k].next
            /\ after[k].count = IF k = w THEN SignalledCount(heap, k) ELSE heap[k].count
            /\ after[k].queue = IF k = w /\ Woken(heap, k) # {} THEN Tail(heap[k].queue)
                                ELSE heap[k].queue
  <2>1. CASE w = NULL
    BY <1>3, <2>1, NullIsNoNode
  <2>2. CASE w # NULL
    <3>1. /\ DOMAIN Signalled(u, w) = DOMAIN u /\ Signalled(u, w) \in [DOMAIN u -> EventRecord]
          /\ \A k \in DOMAIN u : /\ Signalled(u, w)[k].next = u[k].next
                                 /\ Signalled(u, w)[k].num = u[k].num
                                 /\ Signalled(u, w)[k].init = u[k].init
                                 /\ k # w => Signalled(u, w)[k] = u[k]
          /\ Signalled(u, w)[w].count = SignalledCount(u, w)
          /\ Signalled(u, w)[w].queue = IF Woken(u, w) # {} THEN Tail(u[w].queue) ELSE u[w].queue
      BY <1>3, <1>4, <2>2, SignalledHeap
    <3>2. SignalledCount(u, w) = SignalledCount(heap, w) /\ Woken(u, w) = Woken(heap, w)
      BY <1>3, <1>4, <2>2 DEF SignalledCount, Woken
    <3> QED
      BY <1>3, <1>4, <2>2, <3>1, <3>2
  <2> QED
    BY <2>1, <2>2
<1> HIDE DEF after
<1> QED
  BY <1>1, <1>2, <1>5 DEF u, w

-----------------------------------------------------------------------------
(* The types are kept by every call.                                       *)
LEMMA InitTypes == EventInit => EventTypes
  BY DEF EventInit, EventTypes

LEMMA StepTypes == EventTypes /\ [EventNext]_eventVars => EventTypes'
<1> SUFFICES ASSUME EventTypes, [EventNext]_eventVars
             PROVE  EventTypes'
  OBVIOUS
<1> DEFINE HeapTyped == heap \in [DOMAIN heap -> EventRecord] /\ DOMAIN heap \subseteq Nodes
           CallsTyped ==
              /\ pc \in [Procs -> {"user", "alloc", "sleep", "woken"}]
              /\ arg \in [Procs -> {<<>>} \cup (Numbers \X Counts)]
              /\ \A p \in Procs : pc[p] = "alloc" =>
                                     p \in Openers /\ arg[p] \in Numbers \X Counts
<1>1. HeapTyped /\ CallsTyped
  BY DEF EventTypes
<1>2. ASSUME NEW who, Awaken(who), UNCHANGED arg
      PROVE  CallsTyped'
  BY <1>1, <1>2 DEF Awaken
<1>3. ASSUME NEW p \in Procs, OpenInsert(p)
      PROVE  HeapTyped' /\ CallsTyped'
  <2>1. HeapTyped'
    BY <1>1, <1>3, InsertedHeap DEF Inserted
  <2>2. CallsTyped'
    BY <1>1, <1>3 DEF OpenInsert
  <2> QED
    BY <2>1, <2>2
<1>4. ASSUME NEW p \in Procs, WaitFinish(p)
      PROVE  HeapTyped' /\ CallsTyped'
  BY <1>1, <1>4 DEF WaitFinish
<1>5. ASSUME NEW p \in Procs, NEW n \in Numbers, NEW c \in Counts, OpenCall(p, n, c)
      PROVE  HeapTyped' /\ CallsTyped'
  BY <1>1, <1>5 DEF OpenCall
<1>6. ASSUME NEW p \in Procs, NEW n \in Numbers, WaitCall(p, n)
      PROVE  HeapTyped' /\ CallsTyped'
  <2>1. HeapTyped'
    BY <1>1, <1>6, WaitedHeap
  <2>2. CallsTyped'
    BY <1>1, <1>6 DEF WaitCall
  <2> QED
    BY <2>1, <2>2
<1>7. ASSUME NEW p \in Procs, NEW n \in Numbers, SignalCall(p, n)
      PROVE  HeapTyped' /\ CallsTyped'
  <2>1. Event(n) \in DOMAIN heap /\ heap' = Signalled(heap, Event(n))
    BY <1>7, SearchResult DEF SignalCall, Event
  <2>2. HeapTyped'
    BY <1>1, <2>1, SignalledHeap
  <2> QED
    BY <1>2, <1>7, <2>2 DEF SignalCall
<1>8. ASSUME NEW p \in Procs, NEW n \in Numbers, CloseCall(p, n)
      PROVE  HeapTyped' /\ CallsTyped'
  <2>1. HeapTyped'
    BY <1>1, <1>8, ClosedHeap
  <2>2. \E who : Awaken(who) /\ UNCHANGED arg
    BY <1>8 DEF CloseCall
  <2> QED
    BY <1>2, <2>1, <2>2
<1>9. ASSUME UNCHANGED eventVars
      PROVE  HeapTyped' /\ CallsTyped'
  BY <1>1, <1>9 DEF eventVars
<1>10. HeapTyped' /\ CallsTyped'
  <2> HIDE DEF HeapTyped, CallsTyped
  <2> QED
    BY <1>3, <1>4, <1>5, <1>6, <1>7, <1>8, <1>9 DEF EventNext
<1> QED
  BY <1>10 DEF EventTypes

-----------------------------------------------------------------------------
(* Counts and queues.                                                      *)

(* With initial counts that are not negative, the counts and the queues    *)
(* stay so.                                                                *)
CountsInv == EventTypes /\ CountsWaiters /\ \A m \in DOMAIN heap : heap[m].init >= 0

(* The count and the queue at node k before and after a call.              *)
QueueLeft(k) == IF Woken(heap, k) # {} THEN Tail(heap[k].queue) ELSE heap[k].queue

LEMMA SignalKeepsCount ==
  ASSUME CountsInv, NEW k \in DOMAIN heap
  PROVE  /\ SignalledCount(heap, k) <= heap[k].init
         /\ Len(QueueLeft(k)) =
               IF SignalledCount(heap, k) < 0 THEN -SignalledCount(heap, k) ELSE 0
<1> DEFINE c == SignalledCount(heap, k)
<1>1. /\ heap[k].count \in Int /\ heap[k].init \in Int /\ heap[k].queue \in Seq(Procs)
      /\ heap[k].count <= heap[k].init /\ heap[k].init >= 0
      /\ Len(heap[k].queue) = IF heap[k].count < 0 THEN -heap[k].count ELSE 0
  BY DEF CountsInv, CountsWaiters, EventTypes, EventRecord
<1>2. Len(heap[k].queue) \in Nat /\ (heap[k].queue # <<>> <=> Len(heap[k].queue) # 0)
  BY <1>1
<1>3. heap[k].queue # <<>> => Len(Tail(heap[k].queue)) = Len(heap[k].queue) - 1
  BY <1>1
<1>4. Woken(heap, k) # {} <=> c <= 0 /\ heap[k].queue # <<>>
  BY DEF Woken
<1>5. c = IF heap[k].count + 1 <= heap[k].init THEN heap[k].count + 1 ELSE heap[k].count
  BY DEF SignalledCount
<1>6. Len(QueueLeft(k)) = IF c <= 0 /\ heap[k].queue # <<>> THEN Len(heap[k].queue) - 1
                          ELSE Len(heap[k].queue)
  BY <1>3, <1>4 DEF QueueLeft
<1> QED
  BY <1>1, <1>2, <1>5, <1>6

LEMMA StepCounts ==
  ASSUME Counts \subseteq Nat
  PROVE  CountsInv /\ [EventNext]_eventVars => CountsInv'
<1> SUFFICES ASSUME CountsInv, [EventNext]_eventVars
             PROVE  CountsInv'
  OBVIOUS
<1> DEFINE Right(h, m) ==
              /\ h[m].count <= h[m].init /\ h[m].init >= 0
              /\ Len(h[m].queue) = IF h[m].count < 0 THEN -h[m].count ELSE 0
           AllRight == \A m \in DOMAIN heap : Right(heap, m)
<1>1. EventTypes /\ EventTypes'
  BY StepTypes DEF CountsInv
<1>2. AllRight
  BY DEF CountsInv, CountsWaiters
<1>3. ASSUME NEW p \in Procs, OpenInsert(p)
      PROVE  AllRight'
  <2>1. PICK m \in Nodes \ DOMAIN heap, n \in Int, c \in Counts : Inserted(p, m, n, c)
    BY <1>1, <1>3, InsertedHeap
  <2>2. NewNode(n, c).count = c /\ NewNode(n, c).init = c /\ NewNode(n, c).queue = <<>>
    BY DEF NewNode
  <2>3. Right(heap', m)
    <3>1. c \in Nat /\ Len(<<>>) = 0
      OBVIOUS
    <3> QED
      BY <2>1, <2>2, <3>1 DEF Inserted
  <2> QED
    BY <1>2, <2>1, <2>3 DEF Inserted
<1>4. ASSUME NEW p \in Procs, NEW n \in Numbers, WaitCall(p, n)
      PROVE  AllRight'
  <2> DEFINE m == Event(n)
             c == heap[m].count - 1
  <2>1. /\ m \in DOMAIN heap /\ c \in Int /\ DOMAIN heap' = DOMAIN heap
        /\ \A k \in DOMAIN heap : heap'[k].init = heap[k].init /\ (k # m => heap'[k] = heap[k])
        /\ heap'[m].count = c
        /\ heap'[m].queue = IF c < 0 THEN Append(heap[m].queue, p) ELSE heap[m].queue
    BY <1>1, <1>4, WaitedHeap
  <2> HIDE DEF m
  <2>2. /\ heap[m].queue \in Seq(Procs) /\ heap[m].count \in Int /\ heap[m].init \in Int
        /\ Right(heap, m)
    BY <1>1, <1>2, <2>1 DEF EventTypes, EventRecord
  <2>3. Len(heap'[m].queue) = IF c < 0 THEN Len(heap[m].queue) + 1 ELSE Len(heap[m].queue)
    BY <2>1, <2>2
  <2>4. Right(heap', m)
    BY <2>1, <2>2, <2>3
  <2> QED
    BY <1>2, <2>1, <2>4
<1>5. ASSUME NEW p \in Procs, NEW n \in Numbers, SignalCall(p, n)
      PROVE  AllRight'
  <2> DEFINE m == Event(n)
  <2>1. m \in DOMAIN heap /\ heap' = Signalled(heap, m) /\ heap \in [DOMAIN heap -> EventRecord]
    BY <1>1, <1>5, SearchResult DEF SignalCall, Event, EventTypes
  <2> HIDE DEF m
  <2>2. /\ DOMAIN heap' = DOMAIN heap
        /\ \A k \in DOMAIN heap : heap'[k].init = heap[k].init /\ (k # m => heap'[k] = heap[k])
        /\ heap'[m].count = SignalledCount(heap, m)
        /\ heap'[m].queue = QueueLeft(m)
    BY <2>1, SignalledHeap DEF QueueLeft
  <2>3. /\ SignalledCount(heap, m) <= heap[m].init
        /\ Len(heap'[m].queue) =
              IF SignalledCount(heap, m) < 0 THEN -SignalledCount(heap, m) ELSE 0
    BY <2>1, <2>2, SignalKeepsCount
  <2>4. Right(heap', m)
    BY <1>2, <2>1, <2>2, <2>3
  <2> QED
    BY <1>2, <2>2, <2>4
<1>6. ASSUME NEW p \in Procs, NEW n \in Numbers, CloseCall(p, n)
      PROVE  AllRight'
  <2>1. /\ DOMAIN heap' = DOMAIN heap \ {Event(n)}
        /\ \A k \in DOMAIN heap' :
               /\ heap'[k].init = heap[k].init
               /\ heap'[k].count = IF k = Again(n) THEN SignalledCount(heap, k)
                                                   ELSE heap[k].count
               /\ heap'[k].queue = IF k = Again(n) THEN QueueLeft(k) ELSE heap[k].queue
    BY <1>1, <1>6, ClosedHeap DEF QueueLeft
  <2>2. ASSUME NEW k \in DOMAIN heap'
        PROVE  Right(heap', k)
    <3>1. CASE k = Again(n)
      BY <1>2, <2>1, <2>2, <3>1, SignalKeepsCount
    <3>2. CASE k # Again(n)
      BY <1>2, <2>1, <2>2, <3>2
    <3> QED
      BY <3>1, <3>2
  <2> QED
    BY <2>2
<1>7. ASSUME UNCHANGED heap
      PROVE  AllRight'
  BY <1>2, <1>7
<1>8. AllRight'
  <2> HIDE DEF AllRight
  <2> QED
    BY <1>3, <1>4, <1>5, <1>6, <1>7 DEF EventNext, WaitFinish, OpenCall, eventVars
<1> QED
  BY <1>1, <1>8 DEF CountsInv, CountsWaiters

(* With initial counts from 0 up, a count below zero is the number of the  *)
(* processes in the queue of its event, and no count exceeds its initial   *)
(* value (exp6.c:1343): for any heap, lists of any shape included.         *)
THEOREM SleepersAreCounted ==
  ASSUME Counts \subseteq Nat
  PROVE  EventSpec => []CountsWaiters
<1>1. EventInit => CountsInv
  BY InitTypes DEF EventInit, CountsInv, CountsWaiters
<1>2. CountsInv /\ [EventNext]_eventVars => CountsInv'
  BY StepCounts
<1>3. CountsInv => CountsWaiters
  BY DEF CountsInv
<1> QED
  BY <1>1, <1>2, <1>3, PTL DEF EventSpec

-----------------------------------------------------------------------------
(* The shape of the list.                                                  *)

(* A chain with one more node at its end, and one without its jth node.    *)
Longer(len, s, m) == [i \in 1..(len + 1) |-> IF i = len + 1 THEN m ELSE s[i]]
Shorter(len, s, j) == [i \in 1..(len - 1) |-> IF i < j THEN s[i] ELSE s[i + 1]]

(* In the heap g the last node points to the new node m.                   *)
Links(h, g, len, s, m) ==
    /\ DOMAIN g = DOMAIN h \cup {m} /\ g[m].next = NULL
    /\ \A k \in DOMAIN h : g[k].next = IF len # 0 /\ k = s[len] THEN m ELSE h[k].next

LEMMA ChainGrows ==
  ASSUME NEW h, NEW first, NEW len, NEW s, Chain(h, first, len, s),
         NEW m \in Nodes \ DOMAIN h, NEW g, Links(h, g, len, s, m)
  PROVE  Chain(g, IF len = 0 THEN m ELSE first, len + 1, Longer(len, s, m))
<1> DEFINE t == Longer(len, s, m)
<1>1. /\ len \in Nat /\ s \in [1..len -> Nodes \cap DOMAIN h]
      /\ \A i, j \in 1..len : s[i] = s[j] => i = j
      /\ first = IF len = 0 THEN NULL ELSE s[1]
      /\ \A i \in 1..len : h[s[i]].next = IF i = len THEN NULL ELSE s[i + 1]
  BY DEF Chain
<1>2. /\ \A i \in 1..(len + 1) : i \in 1..len \/ i = len + 1
      /\ \A i \in 1..len : i # len + 1 /\ i \in 1..(len + 1)
      /\ len + 1 \in 1..(len + 1)
      /\ len # 0 => len \in 1..len
  BY <1>1
<1>3. /\ \A i \in 1..len : t[i] = s[i]
      /\ t[len + 1] = m
      /\ t \in [1..(len + 1) -> Nodes \cap DOMAIN g]
  BY <1>1, <1>2 DEF Longer, Links
<1> HIDE DEF t
<1>4. \A i, j \in 1..(len + 1) : t[i] = t[j] => i = j
  BY <1>1, <1>2, <1>3
<1>5. (IF len = 0 THEN m ELSE first) = t[1]
  BY <1>1, <1>3
<1>6. ASSUME NEW i \in 1..(len + 1)
      PROVE  g[t[i]].next = IF i = len + 1 THEN NULL ELSE t[i + 1]
  <2>1. CASE i = len + 1
    BY <1>3, <2>1 DEF Links
  <2>2. CASE i \in 1..len /\ i = len
    BY <1>1, <1>2, <1>3, <2>2 DEF Links
  <2>3. CASE i \in 1..len /\ i # len
    <3>1. i + 1 \in 1..len /\ i # len + 1
      BY <1>1, <2>3
    <3>2. s[i] # s[len] /\ len # 0
      BY <1>1, <1>2, <2>3
    <3>3. g[s[i]].next = s[i + 1]
      BY <1>1, <2>3, <3>2 DEF Links
    <3> QED
      BY <1>3, <2>3, <3>1, <3>3
  <2> QED
    BY <1>2, <2>1, <2>2, <2>3
<1>7. Chain(g, IF len = 0 THEN m ELSE first, len + 1, t)
  <2>1. len + 1 \in Nat /\ len + 1 # 0
    BY <1>1
  <2> QED
    BY <1>3, <1>4, <1>5, <1>6, <2>1 DEF Chain
<1> QED
  BY <1>7 DEF t

(* In the heap g the node before s[j] points past it.                      *)
Unlinks(h, g, s, j) ==
    /\ DOMAIN h \ {s[j]} \subseteq DOMAIN g
    /\ \A k \in DOMAIN h \ {s[j]} :
          g[k].next = IF j > 1 /\ k = s[j - 1] THEN h[s[j]].next ELSE h[k].next

LEMMA ChainShrinks ==
  ASSUME NEW h, NEW first, NEW len, NEW s, Chain(h, first, len, s),
         NEW j \in 1..len, NEW g, Unlinks(h, g, s, j)
  PROVE  Chain(g, IF j = 1 THEN h[s[j]].next ELSE first, len - 1, Shorter(len, s, j))
<1> DEFINE t == Shorter(len, s, j)
<1>1. /\ len \in Nat /\ s \in [1..len -> Nodes \cap DOMAIN h]
      /\ \A a, b \in 1..len : s[a] = s[b] => a = b
      /\ first = IF len = 0 THEN NULL ELSE s[1]
      /\ \A i \in 1..len : h[s[i]].next = IF i = len THEN NULL ELSE s[i + 1]
  BY DEF Chain
<1>2. /\ j \in Nat /\ len \in Nat \ {0} /\ len - 1 \in Nat
      /\ \A i \in 1..(len - 1) : i \in 1..len /\ i + 1 \in 1..len /\ i \in Nat
  BY <1>1
<1>3. \A i \in 1..(len - 1) : t[i] = IF i < j THEN s[i] ELSE s[i + 1]
  BY DEF Shorter
<1>4. \A i \in 1..(len - 1) : t[i] \in Nodes \cap (DOMAIN h \ {s[j]})
  <2> TAKE i \in 1..(len - 1)
  <2>1. CASE i < j
    <3>1. s[i] # s[j]
      BY <1>1, <1>2, <2>1
    <3> QED
      BY <1>1, <1>2, <1>3, <2>1, <3>1
  <2>2. CASE ~(i < j)
    <3>1. s[i + 1] # s[j]
      BY <1>1, <1>2, <2>2
    <3> QED
      BY <1>1, <1>2, <1>3, <2>2, <3>1
  <2> QED
    BY <2>1, <2>2
<1>5. t \in [1..(len - 1) -> Nodes \cap DOMAIN g]
  BY <1>4 DEF Shorter, Unlinks
<1> HIDE DEF t
<1>6. \A a, b \in 1..(len - 1) : t[a] = t[b] => a = b
  BY <1>1, <1>2, <1>3
<1>7. (IF j = 1 THEN h[s[j]].next ELSE first) = IF len - 1 = 0 THEN NULL ELSE t[1]
  <2>1. CASE len = 1
    BY <1>1, <1>2, <2>1
  <2>2. CASE len # 1
    <3>1. 1 \in 1..(len - 1)
      BY <1>2, <2>2
    <3>2. t[1] = IF 1 < j THEN s[1] ELSE s[2]
      BY <1>3, <3>1
    <3> QED
      BY <1>1, <1>2, <2>2, <3>2
  <2> QED
    BY <2>1, <2>2
<1>8. ASSUME NEW i \in 1..(len - 1)
      PROVE  g[t[i]].next = IF i = len - 1 THEN NULL ELSE t[i + 1]
  <2>1. /\ i \in 1..len /\ i + 1 \in 1..len /\ i \in Nat /\ t[i] \in DOMAIN h \ {s[j]}
        /\ i # len - 1 => /\ i + 1 \in 1..(len - 1)
                          /\ i + 2 \in 1..len /\ (i + 1) + 1 = i + 2
    BY <1>2, <1>4
  <2>2. i # len - 1 => t[i + 1] = IF i + 1 < j THEN s[i + 1] ELSE s[i + 2]
    BY <1>3, <2>1
  <2>3. CASE i < j - 1
    <3>1. t[i] = s[i] /\ s[i] # s[j - 1] /\ j - 1 \in 1..len
      BY <1>1, <1>2, <1>3, <2>1, <2>3
    <3>2. g[t[i]].next = s[i + 1] /\ i # len - 1 /\ i + 1 < j
      BY <1>1, <1>2, <2>1, <2>3, <3>1 DEF Unlinks
    <3> QED
      BY <2>2, <3>2
  <2>4. CASE i = j - 1
    <3>1. t[i] = s[j - 1] /\ j > 1 /\ ~(i + 1 < j)
      BY <1>2, <1>3, <2>1, <2>4
    <3>2. g[t[i]].next = h[s[j]].next
      BY <2>1, <3>1 DEF Unlinks
    <3>3. h[s[j]].next = IF i = len - 1 THEN NULL ELSE s[i + 2]
      BY <1>1, <1>2, <2>1, <2>4
    <3> QED
      BY <2>2, <3>1, <3>2, <3>3
  <2>5. CASE i > j - 1
    <3>1. ~(i < j) /\ ~(i + 1 < j)
      BY <1>2, <2>1, <2>5
    <3>2. t[i] = s[i + 1] /\ (j > 1 => s[i + 1] # s[j - 1])
      <4>1. t[i] = s[i + 1]
        BY <1>3, <3>1
      <4>2. ASSUME j > 1
            PROVE  s[i + 1] # s[j - 1]
        <5>1. j - 1 \in 1..len /\ i + 1 # j - 1
          BY <1>2, <2>1, <2>5, <4>2
        <5> QED
          BY <1>1, <2>1, <5>1
      <4> QED
        BY <4>1, <4>2
    <3>3. g[t[i]].next = h[s[i + 1]].next
      BY <2>1, <3>2 DEF Unlinks
    <3>4. h[s[i + 1]].next = IF i = len - 1 THEN NULL ELSE s[i + 2]
      BY <1>1, <1>2, <2>1
    <3> QED
      BY <2>2, <3>1, <3>3, <3>4
  <2> QED
    BY <1>2, <2>1, <2>3, <2>4, <2>5
<1>9. Chain(g, IF j = 1 THEN h[s[j]].next ELSE first, len - 1, t)
  BY <1>2, <1>5, <1>6, <1>7, <1>8 DEF Chain
<1> QED
  BY <1>9 DEF t

(* The allocated nodes are the chain s from head to end.                   *)
List(len, s) ==
    /\ Chain(heap, head, len, s)
    /\ \A k \in DOMAIN heap : \E i \in 1..len : s[i] = k
    /\ end = IF len = 0 THEN NULL ELSE s[len]

ListInv == EventTypes /\ \E len, s : List(len, s)

LEMMA ListIsSound == ListInv => ListSound
<1> SUFFICES ASSUME ListInv
             PROVE  ListSound
  OBVIOUS
<1>1. PICK len, s : List(len, s)
  BY DEF ListInv
<1>2. /\ len \in Nat /\ s \in [1..len -> Nodes \cap DOMAIN heap]
      /\ \A i, j \in 1..len : s[i] = s[j] => i = j
      /\ head = IF len = 0 THEN NULL ELSE s[1]
      /\ \A i \in 1..len : heap[s[i]].next = IF i = len THEN NULL ELSE s[i + 1]
      /\ \A k \in DOMAIN heap : \E i \in 1..len : s[i] = k
      /\ end = IF len = 0 THEN NULL ELSE s[len]
      /\ NULL \notin DOMAIN heap
  BY <1>1, NullIsNoNode DEF List, Chain, ListInv
<1>3. \A k \in Positions : Walk(heap, head)[k] = IF k < len THEN s[k + 1] ELSE NULL
  BY <1>1, <1>2, WalkOfChain DEF List
<1>4. \A i \in 1..len : i - 1 \in Positions /\ i - 1 < len /\ (i - 1) + 1 = i
  BY <1>1, <1>2, ChainsFit DEF List
<1>5. Listed = DOMAIN heap
  <2>1. ASSUME NEW m \in Listed
        PROVE  m \in DOMAIN heap
    <3>1. PICK k \in Positions : m = Walk(heap, head)[k] /\ m # NULL
      BY DEF Listed
    <3>2. k < len /\ k \in Nat /\ m = s[k + 1]
      BY <1>3, <3>1, PositionsAreNumbers
    <3>3. k + 1 \in 1..len
      BY <1>2, <3>2
    <3> QED
      BY <1>2, <3>2, <3>3
  <2>2. ASSUME NEW m \in DOMAIN heap
        PROVE  m \in Listed
    <3>1. PICK i \in 1..len : s[i] = m
      BY <1>2
    <3>2. Walk(heap, head)[i - 1] = m
      BY <1>3, <1>4, <3>1
    <3> QED
      BY <1>2, <1>4, <3>2 DEF Listed
  <2> QED
    BY <2>1, <2>2
<1>6. len # 0 => 1 \in 1..len /\ len \in 1..len /\ s[1] # NULL /\ s[len] # NULL
  BY <1>2
<1>7. head = NULL <=> end = NULL
  BY <1>2, <1>6
<1>8. ASSUME NEW m \in Listed
      PROVE  heap[m].next = NULL <=> m = end
  <2>1. PICK i \in 1..len : s[i] = m
    BY <1>2, <1>5
  <2>2. i # len => i + 1 \in 1..len /\ s[i + 1] # NULL
    BY <1>2
  <2>3. len # 0 /\ end = s[len] /\ len \in 1..len
    BY <1>2
  <2> QED
    BY <1>2, <2>1, <2>2, <2>3
<1> QED
  BY <1>5, <1>7, <1>8 DEF ListSound

(* A call that links nothing.                                              *)
LEMMA ListKept ==
  ASSUME NEW len, NEW s, List(len, s), DOMAIN heap' = DOMAIN heap,
         \A k \in DOMAIN heap : heap'[k].next = heap[k].next,
         UNCHANGED <<head, end>>
  PROVE  List(len, s)'
  BY DEF List, Chain

(* An open appends node m to the list s.                                   *)
Appended(p, len, s, m, n, c) ==
    /\ List(len + 1, Longer(len, s, m))'
    /\ DOMAIN heap' = DOMAIN heap \cup {m} /\ heap'[m] = NewNode(n, c)
    /\ \A k \in DOMAIN heap : /\ heap'[k].num = heap[k].num
                              /\ heap'[k].count = heap[k].count
                              /\ heap'[k].init = heap[k].init
                              /\ heap'[k].queue = heap[k].queue
    /\ IF len = 0 THEN n = 2 ELSE n = arg[p][1]

LEMMA OpenAppends ==
  ASSUME EventTypes, NEW len, NEW s, List(len, s), NEW p \in Procs, OpenInsert(p)
  PROVE  \E m \in Nodes \ DOMAIN heap, n \in Int, c \in Counts : Appended(p, len, s, m, n, c)
<1>1. /\ len \in Nat /\ s \in [1..len -> Nodes \cap DOMAIN heap]
      /\ head = IF len = 0 THEN NULL ELSE s[1]
      /\ \A k \in DOMAIN heap : \E i \in 1..len : s[i] = k
      /\ end = IF len = 0 THEN NULL ELSE s[len]
      /\ NULL \notin DOMAIN heap /\ Chain(heap, head, len, s)
  BY NullIsNoNode DEF List, Chain
<1>2. PICK m \in Nodes \ DOMAIN heap, n \in Int, c \in Counts : Inserted(p, m, n, c)
  BY InsertedHeap
<1>3. head = NULL <=> len = 0
  <2>1. len # 0 => 1 \in 1..len
    BY <1>1
  <2> QED
    BY <1>1, <2>1
<1>4. heap'[m].next = NULL
  BY <1>2 DEF NewNode, Inserted
<1>5. \A k \in DOMAIN heap : heap'[k].next = IF len # 0 /\ k = s[len] THEN m
                                             ELSE heap[k].next
  BY <1>1, <1>2, <1>3 DEF Inserted
<1>6. head' = IF len = 0 THEN m ELSE head
  BY <1>2, <1>3 DEF Inserted
<1>7. Chain(heap', head', len + 1, Longer(len, s, m))
  <2>1. Links(heap, heap', len, s, m)
    <3>1. DOMAIN heap' = DOMAIN heap \cup {m}
      BY <1>2 DEF Inserted
    <3> QED
      BY <1>4, <1>5, <3>1 DEF Links
  <2>2. Chain(heap', IF len = 0 THEN m ELSE head, len + 1, Longer(len, s, m))
    BY <1>1, <1>2, <2>1, ChainGrows
  <2> QED
    BY <1>6, <2>2
<1>8. \A k \in DOMAIN heap' : \E i \in 1..(len + 1) : Longer(len, s, m)[i] = k
  <2> TAKE k \in DOMAIN heap'
  <2>1. CASE k = m
    <3>1. len + 1 \in 1..(len + 1)
      BY <1>1
    <3> QED
      BY <2>1, <3>1 DEF Longer
  <2>2. CASE k # m
    <3>1. PICK i \in 1..len : s[i] = k
      BY <1>1, <1>2, <2>2 DEF Inserted
    <3>2. i \in 1..(len + 1) /\ i # len + 1
      BY <1>1
    <3> QED
      BY <3>1, <3>2 DEF Longer
  <2> QED
    BY <2>1, <2>2
<1>9. end' = Longer(len, s, m)[len + 1] /\ len + 1 # 0
  <2>1. len + 1 \in 1..(len + 1) /\ len + 1 # 0
    BY <1>1
  <2> QED
    BY <1>2, <2>1 DEF Longer, Inserted
<1>10. List(len + 1, Longer(len, s, m))'
  BY <1>7, <1>8, <1>9 DEF List
<1>11. IF len = 0 THEN n = 2 ELSE n = arg[p][1]
  BY <1>2, <1>3 DEF Inserted
<1> QED
  BY <1>2, <1>10, <1>11 DEF Inserted, Appended

(* A close of an event that is not the last takes its node out.            *)
LEMMA CloseRemoves ==
  ASSUME EventTypes, NEW len, NEW s, List(len, s),
         NEW p \in Procs, NEW n \in Numbers, CloseCall(p, n), Event(n) # end
  PROVE  \E j \in 1..len : s[j] = Event(n) /\ List(len - 1, Shorter(len, s, j))'
<1> DEFINE m == Event(n)
<1>1. /\ len \in Nat /\ s \in [1..len -> Nodes \cap DOMAIN heap]
      /\ \A a, b \in 1..len : s[a] = s[b] => a = b
      /\ head = IF len = 0 THEN NULL ELSE s[1]
      /\ \A k \in DOMAIN heap : \E i \in 1..len : s[i] = k
      /\ end = IF len = 0 THEN NULL ELSE s[len]
      /\ NULL \notin DOMAIN heap /\ Chain(heap, head, len, s)
  BY NullIsNoNode DEF List, Chain
<1>2. /\ m \in DOMAIN heap
      /\ head' = FirstLeft(n) /\ end' = end
      /\ DOMAIN heap' = DOMAIN heap \ {m}
      /\ \A k \in DOMAIN heap' : heap'[k].next = Unlinked(n)[k].next
  BY ClosedHeap
<1>3. PICK j \in 1..len : m = s[j] /\ j = FirstHit(heap, head, n) + 1
  BY <1>1, <1>2, SearchInChain DEF Event
<1>4. len # 0 /\ 1 \in 1..len /\ len \in 1..len /\ j # len
  BY <1>1, <1>3
<1>5. m = head <=> j = 1
  BY <1>1, <1>3, <1>4
<1>6. Position(m) = IF j = 1 THEN "head" ELSE "middle"
  BY <1>5 DEF Position
<1>7. head' = IF j = 1 THEN heap[s[j]].next ELSE head
  BY <1>2, <1>3, <1>6 DEF FirstLeft
<1>8. j > 1 => prev(n) = s[j - 1]
  <2> DEFINE k == FirstHit(heap, head, n)
  <2>1. k \in Positions /\ k \in Nat
    BY <1>1, <1>2, <1>3, SearchFinds, PositionsAreNumbers DEF Event, scheventNum
  <2>2. j > 1 => k # 0 /\ k - 1 \in Positions /\ k - 1 < len /\ (k - 1) + 1 = j - 1
    BY <1>1, <1>3, <2>1, PositionsAreNumbers
  <2>3. \A i \in Positions : Walk(heap, head)[i] = IF i < len THEN s[i + 1] ELSE NULL
    BY <1>1, WalkOfChain
  <2>4. j > 1 => Walk(heap, head)[k - 1] = s[j - 1]
    BY <2>2, <2>3
  <2> QED
    BY <2>2, <2>4 DEF prev
<1>9. \A k \in DOMAIN heap' :
         heap'[k].next = IF j > 1 /\ k = s[j - 1] THEN heap[s[j]].next ELSE heap[k].next
  <2> TAKE k \in DOMAIN heap'
  <2>1. heap'[k].next = IF Position(m) = "middle" /\ k = prev(n) THEN heap[m].next
                        ELSE heap[k].next
    BY <1>2, UnlinkedHeap
  <2>2. j \in Nat
    BY <1>1, <1>3
  <2>3. CASE j = 1
    BY <1>6, <2>1, <2>3
  <2>4. CASE j > 1
    BY <1>3, <1>6, <1>8, <2>1, <2>4
  <2> QED
    BY <1>3, <2>2, <2>3, <2>4
<1>10. Chain(heap', head', len - 1, Shorter(len, s, j))
  <2>1. DOMAIN heap' = DOMAIN heap \ {s[j]}
    BY <1>2, <1>3
  <2>2. Unlinks(heap, heap', s, j)
    BY <1>9, <2>1 DEF Unlinks
  <2>3. Chain(heap', IF j = 1 THEN heap[s[j]].next ELSE head, len - 1, Shorter(len, s, j))
    BY <1>1, <2>2, ChainShrinks
  <2> QED
    BY <1>7, <2>3
<1>11. \A k \in DOMAIN heap' : \E i \in 1..(len - 1) : Shorter(len, s, j)[i] = k
  <2> TAKE k \in DOMAIN heap'
  <2>1. PICK i \in 1..len : s[i] = k
    BY <1>1, <1>2
  <2>2. i # j
    BY <1>2, <1>3, <2>1
  <2>3. CASE i < j
    <3>1. i \in 1..(len - 1)
      BY <1>1, <1>3, <2>3
    <3> QED
      BY <2>1, <2>3, <3>1 DEF Shorter
  <2>4. CASE i > j
    <3>1. i - 1 \in 1..(len - 1) /\ ~(i - 1 < j) /\ (i - 1) + 1 = i
      BY <1>1, <1>3, <2>4
    <3>2. Shorter(len, s, j)[i - 1] = s[i]
      BY <3>1 DEF Shorter
    <3> QED
      BY <2>1, <3>1, <3>2
  <2> QED
    BY <1>1, <1>3, <2>2, <2>3, <2>4
<1>12. end' = IF len - 1 = 0 THEN NULL ELSE Shorter(len, s, j)[len - 1]
  <2>1. len - 1 \in 1..(len - 1) /\ ~(len - 1 < j) /\ (len - 1) + 1 = len
    BY <1>1, <1>3, <1>4
  <2>2. Shorter(len, s, j)[len - 1] = s[len] /\ len - 1 # 0
    BY <1>1, <2>1 DEF Shorter
  <2> QED
    BY <1>1, <1>2, <1>4, <2>2
<1>13. List(len - 1, Shorter(len, s, j))'
  BY <1>10, <1>11, <1>12 DEF List
<1> QED
  BY <1>3, <1>13

LEMMA InitList == EventInit => ListInv
<1> SUFFICES ASSUME EventInit
             PROVE  ListInv
  OBVIOUS
<1>1. /\ 0 \in Nat /\ (1..0) = {} /\ <<>> \in [1..0 -> Nodes \cap DOMAIN heap]
      /\ DOMAIN heap = {}
  BY DEF EventInit
<1>2. List(0, <<>>)
  BY <1>1 DEF EventInit, List, Chain
<1> QED
  BY <1>2, InitTypes DEF ListInv

(* Each call leaves a list.                                                *)
LEMMA StepList ==
  ASSUME Closable \subseteq {"head", "middle"}
  PROVE  ListInv /\ [EventNext]_eventVars => ListInv'
<1> SUFFICES ASSUME ListInv, [EventNext]_eventVars
             PROVE  ListInv'
  OBVIOUS
<1>1. EventTypes /\ EventTypes'
  BY StepTypes DEF ListInv
<1>2. PICK len, s : List(len, s)
  BY DEF ListInv
<1>3. ASSUME NEW p \in Procs, OpenInsert(p)
      PROVE  \E l, t : List(l, t)'
  BY <1>1, <1>2, <1>3, OpenAppends DEF Appended
<1>4. ASSUME NEW p \in Procs, NEW n \in Numbers, WaitCall(p, n)
      PROVE  \E l, t : List(l, t)'
  <2>1. /\ DOMAIN heap' = DOMAIN heap /\ UNCHANGED <<head, end>>
        /\ \A k \in DOMAIN heap : heap'[k].next = heap[k].next
    BY <1>1, <1>4, WaitedHeap DEF WaitCall
  <2> QED
    BY <1>2, <2>1, ListKept
<1>5. ASSUME NEW p \in Procs, NEW n \in Numbers, SignalCall(p, n)
      PROVE  \E l, t : List(l, t)'
  <2>1. /\ Event(n) \in DOMAIN heap /\ heap' = Signalled(heap, Event(n))
        /\ UNCHANGED <<head, end>> /\ heap \in [DOMAIN heap -> EventRecord]
    BY <1>1, <1>5, SearchResult DEF SignalCall, Event, EventTypes
  <2>2. /\ DOMAIN heap' = DOMAIN heap
        /\ \A k \in DOMAIN heap : heap'[k].next = heap[k].next
    BY <2>1, SignalledHeap
  <2> QED
    BY <1>2, <2>1, <2>2, ListKept
<1>6. ASSUME NEW p \in Procs, NEW n \in Numbers, CloseCall(p, n)
      PROVE  \E l, t : List(l, t)'
  <2>1. Event(n) # end
    BY <1>6 DEF CloseCall, Position
  <2> QED
    BY <1>1, <1>2, <1>6, <2>1, CloseRemoves
<1>7. ASSUME UNCHANGED <<heap, head, end>>
      PROVE  \E l, t : List(l, t)'
  BY <1>2, <1>7, ListKept
<1>8. \E l, t : List(l, t)'
  BY <1>3, <1>4, <1>5, <1>6, <1>7 DEF EventNext, WaitFinish, OpenCall, eventVars
<1> QED
  BY <1>1, <1>8 DEF ListInv

(* If events are only closed at the head and in the middle of the list,    *)
(* the list is the allocated events, from the head pointer to the tail     *)
(* pointer (exp6.c:1240-1241), whatever is opened and closed and in        *)
(* whichever order, with searches and insertions of several opens mixed.   *)
THEOREM ListStaysLinked ==
  ASSUME Closable \subseteq {"head", "middle"}
  PROVE  EventSpec => []ListSound
<1>1. EventInit => ListInv
  BY InitList
<1>2. ListInv /\ [EventNext]_eventVars => ListInv'
  BY StepList
<1>3. ListInv => ListSound
  BY ListIsSound
<1> QED
  BY <1>1, <1>2, <1>3, PTL DEF EventSpec

-----------------------------------------------------------------------------
(* Numbers.                                                                *)

NumbersDiffer == \A a, b \in DOMAIN heap : heap[a].num = heap[b].num => a = b

(* The number that an open looked for is still free when it inserts.       *)
StillFree ==
    \A p \in Procs : pc[p] = "alloc" => \A k \in DOMAIN heap : heap[k].num # arg[p][1]

UniqueInv == ListInv /\ NumbersDiffer /\ StillFree

(* A call that opens nothing.                                              *)
LEMMA NumbersKept ==
  ASSUME NumbersDiffer, StillFree, DOMAIN heap' \subseteq DOMAIN heap,
         \A k \in DOMAIN heap' : heap'[k].num = heap[k].num,
         \A p \in Procs : pc'[p] = "alloc" => pc[p] = "alloc" /\ arg'[p] = arg[p]
  PROVE  NumbersDiffer' /\ StillFree'
  BY DEF NumbersDiffer, StillFree

LEMMA StepUnique ==
  ASSUME Closable \subseteq {"head", "middle"}, \A p, q \in Openers : p = q
  PROVE  UniqueInv /\ [EventNext]_eventVars => UniqueInv'
<1> SUFFICES ASSUME UniqueInv, [EventNext]_eventVars
             PROVE  UniqueInv'
  OBVIOUS
<1>1. EventTypes /\ ListInv' /\ NumbersDiffer /\ StillFree
  BY StepList DEF UniqueInv, ListInv
<1>2. PICK len, s : List(len, s)
  BY DEF UniqueInv, ListInv
<1>3. ASSUME NEW who, Awaken(who), UNCHANGED arg
      PROVE  \A p \in Procs : pc'[p] = "alloc" => pc[p] = "alloc" /\ arg'[p] = arg[p]
  BY <1>3 DEF Awaken
<1>4. ASSUME NEW p \in Procs, OpenInsert(p)
      PROVE  NumbersDiffer' /\ StillFree'
  <2>1. PICK m \in Nodes \ DOMAIN heap, n \in Int, c \in Counts : Appended(p, len, s, m, n, c)
    BY <1>1, <1>2, <1>4, OpenAppends
  <2>2. heap'[m].num = n
    <3>1. NewNode(n, c).num = n
      BY DEF NewNode
    <3> QED
      BY <2>1, <3>1 DEF Appended
  <2>3. len = 0 => DOMAIN heap = {}
    <3>1. \A k \in DOMAIN heap : \E i \in 1..len : s[i] = k
      BY <1>2 DEF List
    <3>2. len = 0 => 1..len = {}
      OBVIOUS
    <3> QED
      BY <3>1, <3>2
  <2>4. \A k \in DOMAIN heap : heap[k].num # n
    <3>1. \A k \in DOMAIN heap : heap[k].num # arg[p][1]
      BY <1>1, <1>4 DEF StillFree, OpenInsert
    <3> QED
      BY <2>1, <2>3, <3>1 DEF Appended
  <2>5. NumbersDiffer'
    BY <1>1, <2>1, <2>2, <2>4 DEF NumbersDiffer, Appended
  <2>6. \A q \in Procs : pc'[q] # "alloc"
    <3>1. \A q \in Procs : pc[q] = "alloc" => q = p
      BY <1>1, <1>4 DEF OpenInsert, EventTypes
    <3>2. \A q \in Procs : pc'[q] = IF q = p THEN "user" ELSE pc[q]
      BY <1>1, <1>4 DEF OpenInsert, EventTypes
    <3> QED
      BY <3>1, <3>2
  <2> QED
    BY <2>5, <2>6 DEF StillFree
<1>5. ASSUME NEW p \in Procs, NEW n \in Numbers, NEW c \in Counts, OpenCall(p, n, c)
      PROVE  NumbersDiffer' /\ StillFree'
  <2>1. Event(n) = NULL /\ UNCHANGED heap
    BY <1>5 DEF OpenCall
  <2>2. \A i \in 1..len : heap[s[i]].num # n
    BY <1>1, <1>2, <2>1, SearchInChain, NullIsNoNode DEF List, Event
  <2>3. \A k \in DOMAIN heap : heap[k].num # n
    BY <1>2, <2>2 DEF List
  <2>4. /\ \A q \in Procs : pc'[q] = IF q = p THEN "alloc" ELSE pc[q]
        /\ \A q \in Procs : arg'[q] = IF q = p THEN <<n, c>> ELSE arg[q]
    BY <1>1, <1>5 DEF OpenCall, EventTypes
  <2> QED
    BY <1>1, <2>1, <2>3, <2>4 DEF NumbersDiffer, StillFree
<1>6. ASSUME NEW p \in Procs, NEW n \in Numbers, WaitCall(p, n)
      PROVE  NumbersDiffer' /\ StillFree'
  <2>1. DOMAIN heap' = DOMAIN heap /\ \A k \in DOMAIN heap : heap'[k].num = heap[k].num
    BY <1>1, <1>6, WaitedHeap
  <2>2. \A q \in Procs : pc'[q] = "alloc" => pc[q] = "alloc" /\ arg'[q] = arg[q]
    BY <1>1, <1>6 DEF WaitCall, EventTypes
  <2> QED
    BY <1>1, <2>1, <2>2, NumbersKept
<1>7. ASSUME NEW p \in Procs, NEW n \in Numbers, SignalCall(p, n)
      PROVE  NumbersDiffer' /\ StillFree'
  <2>1. /\ Event(n) \in DOMAIN heap /\ heap' = Signalled(heap, Event(n))
        /\ heap \in [DOMAIN heap -> EventRecord]
    BY <1>1, <1>7, SearchResult DEF SignalCall, Event, EventTypes
  <2>2. DOMAIN heap' = DOMAIN heap /\ \A k \in DOMAIN heap : heap'[k].num = heap[k].num
    BY <2>1, SignalledHeap
  <2>3. \A q \in Procs : pc'[q] = "alloc" => pc[q] = "alloc" /\ arg'[q] = arg[q]
    BY <1>3, <1>7 DEF SignalCall
  <2> QED
    BY <1>1, <2>2, <2>3, NumbersKept
<1>8. ASSUME NEW p \in Procs, NEW n \in Numbers, CloseCall(p, n)
      PROVE  NumbersDiffer' /\ StillFree'
  <2>1. /\ DOMAIN heap' = DOMAIN heap \ {Event(n)}
        /\ \A k \in DOMAIN heap' : heap'[k].num = heap[k].num
    BY <1>1, <1>8, ClosedHeap
  <2>2. \E who : Awaken(who) /\ UNCHANGED arg
    BY <1>8 DEF CloseCall
  <2>3. \A q \in Procs : pc'[q] = "alloc" => pc[q] = "alloc" /\ arg'[q] = arg[q]
    BY <1>3, <2>2
  <2> QED
    BY <1>1, <2>1, <2>3, NumbersKept
<1>9. ASSUME NEW p \in Procs, WaitFinish(p)
      PROVE  NumbersDiffer' /\ StillFree'
  <2>1. UNCHANGED heap /\ \A q \in Procs : pc'[q] = "alloc" => pc[q] = "alloc" /\ arg'[q] = arg[q]
    BY <1>1, <1>9 DEF WaitFinish, EventTypes
  <2> QED
    BY <1>1, <2>1, NumbersKept
<1>10. ASSUME UNCHANGED eventVars
       PROVE  NumbersDiffer' /\ StillFree'
  BY <1>1, <1>10, NumbersKept DEF eventVars
<1>11. NumbersDiffer' /\ StillFree'
  BY <1>4, <1>5, <1>6, <1>7, <1>8, <1>9, <1>10 DEF EventNext
<1> QED
  BY <1>1, <1>11 DEF UniqueInv

(* If one process opens events and none is closed at the end of the list,  *)
(* a number names one event (exp6.c:1263), although the open may sleep     *)
(* between the search for the number and the insertion.                    *)
THEOREM NumbersStayUnique ==
  ASSUME Closable \subseteq {"head", "middle"}, \A p, q \in Openers : p = q
  PROVE  EventSpec => []UniqueNumbers
<1>1. EventInit => UniqueInv
  BY InitList DEF EventInit, UniqueInv, NumbersDiffer, StillFree
<1>2. UniqueInv /\ [EventNext]_eventVars => UniqueInv'
  BY StepUnique
<1>3. UniqueInv => UniqueNumbers
  BY DEF UniqueInv, NumbersDiffer, UniqueNumbers
<1> QED
  BY <1>1, <1>2, <1>3, PTL DEF EventSpec

-----------------------------------------------------------------------------
(* The list is a table of semaphores.                                      *)

(* Who is in a queue sleeps, and is in it once and in no other.            *)
QueuedOnce ==
    \A a, b \in DOMAIN heap :
        \A i \in DOMAIN heap[a].queue, j \in DOMAIN heap[b].queue :
            /\ pc[heap[a].queue[i]] = "sleep"
            /\ heap[a].queue[i] = heap[b].queue[j] => a = b /\ i = j

TableInv == UniqueInv /\ QueuedOnce

(* The number of a closed event is not found again: its signal wakes       *)
(* nobody.                                                                 *)
LEMMA CloseFindsNothing ==
  ASSUME UniqueInv, NEW p \in Procs, NEW n \in Numbers, CloseCall(p, n),
         Closable \subseteq {"head", "middle"}
  PROVE  Again(n) = NULL
<1>1. EventTypes /\ NumbersDiffer /\ NULL \notin DOMAIN heap
  BY NullIsNoNode DEF UniqueInv, ListInv
<1>2. PICK len, s : List(len, s)
  BY DEF UniqueInv, ListInv
<1>3. Event(n) # end
  BY DEF CloseCall, Position
<1>4. PICK j \in 1..len : s[j] = Event(n) /\ List(len - 1, Shorter(len, s, j))'
  BY <1>1, <1>2, <1>3, CloseRemoves
<1> DEFINE t == Shorter(len, s, j)
<1>5. /\ Event(n) \in DOMAIN heap /\ heap[Event(n)].num = n
      /\ DOMAIN heap' = DOMAIN heap \ {Event(n)} /\ head' = FirstLeft(n)
      /\ \A k \in DOMAIN heap' : heap'[k].next = Unlinked(n)[k].next
  <2>1. Event(n) \in DOMAIN heap /\ heap[Event(n)].num = n
    BY SearchResult DEF CloseCall, Event
  <2> QED
    BY <1>1, <2>1, ClosedHeap
<1>6. /\ DOMAIN Unlinked(n) = DOMAIN heap
      /\ \A k \in DOMAIN heap : Unlinked(n)[k].num = heap[k].num
  BY <1>1, <1>5, UnlinkedHeap
<1>7. Chain(heap', FirstLeft(n), len - 1, t)
  BY <1>4, <1>5 DEF List
<1> HIDE DEF t
<1>8. Chain(Unlinked(n), FirstLeft(n), len - 1, t)
  <2>1. t \in [1..(len - 1) -> Nodes \cap DOMAIN Unlinked(n)]
    BY <1>5, <1>6, <1>7 DEF Chain
  <2>2. \A i \in 1..(len - 1) : Unlinked(n)[t[i]].next = heap'[t[i]].next
    BY <1>5, <1>7 DEF Chain
  <2> QED
    BY <1>7, <2>1, <2>2 DEF Chain
<1>9. \A i \in 1..(len - 1) : Unlinked(n)[t[i]].num # n
  <2> TAKE i \in 1..(len - 1)
  <2>1. t[i] \in DOMAIN heap \ {Event(n)}
    BY <1>5, <1>7 DEF Chain
  <2> QED
    BY <1>1, <1>5, <1>6, <2>1 DEF NumbersDiffer
<1> QED
  BY <1>1, <1>6, <1>8, <1>9, SearchInChain DEF Again

(* A step that puts nobody into a queue and wakes nobody.                  *)
LEMMA QueuesKept ==
  ASSUME EventTypes, QueuedOnce,
         \A a \in DOMAIN heap' : \/ a \in DOMAIN heap /\ heap'[a].queue = heap[a].queue
                                 \/ heap'[a].queue = <<>>,
         \A q \in Procs : pc[q] = "sleep" => pc'[q] = "sleep"
  PROVE  QueuedOnce'
<1>1. \A a \in DOMAIN heap : heap[a].queue \in Seq(Procs)
  BY DEF EventTypes, EventRecord
<1>2. \A a \in DOMAIN heap' : \A i \in DOMAIN heap'[a].queue :
         /\ a \in DOMAIN heap /\ i \in DOMAIN heap[a].queue
         /\ heap'[a].queue[i] = heap[a].queue[i] /\ heap[a].queue[i] \in Procs
  BY <1>1
<1> QED
  BY <1>2 DEF QueuedOnce

LEMMA StepQueues ==
  ASSUME Closable \subseteq {"head", "middle"},
         UniqueInv, QueuedOnce, [EventNext]_eventVars
  PROVE  QueuedOnce'
<1>1. EventTypes
  BY DEF UniqueInv, ListInv
<1>2. /\ \A a \in DOMAIN heap : heap[a].queue \in Seq(Procs)
      /\ pc \in [Procs -> {"user", "alloc", "sleep", "woken"}]
  BY <1>1 DEF EventTypes, EventRecord
<1>3. ASSUME NEW p \in Procs, OpenInsert(p)
      PROVE  QueuedOnce'
  <2>1. PICK m \in Nodes \ DOMAIN heap, n \in Int, c \in Counts : Inserted(p, m, n, c)
    BY <1>1, <1>3, InsertedHeap
  <2>2. NewNode(n, c).queue = <<>>
    BY DEF NewNode
  <2>3. \A q \in Procs : pc[q] = "sleep" => pc'[q] = "sleep"
    BY <1>2, <1>3 DEF OpenInsert
  <2> QED
    BY <1>1, <2>1, <2>2, <2>3, QueuesKept DEF Inserted
<1>4. ASSUME NEW p \in Procs, NEW n \in Numbers, WaitCall(p, n)
      PROVE  QueuedOnce'
  <2> DEFINE m == Event(n)
             c == heap[m].count - 1
  <2>1. /\ m \in DOMAIN heap /\ c \in Int /\ DOMAIN heap' = DOMAIN heap
        /\ \A k \in DOMAIN heap : k # m => heap'[k] = heap[k]
        /\ heap'[m].queue = IF c < 0 THEN Append(heap[m].queue, p) ELSE heap[m].queue
    BY <1>1, <1>4, WaitedHeap
  <2>2. \A q \in Procs : pc'[q] = IF q = p THEN IF c < 0 THEN "sleep" ELSE "user" ELSE pc[q]
    BY <1>2, <1>4 DEF WaitCall
  <2>3. pc[p] = "user" /\ heap[m].queue \in Seq(Procs)
    BY <1>2, <1>4, <2>1 DEF WaitCall
  <2> HIDE DEF m, c
  <2>4. CASE ~(c < 0)
    <3>1. \A q \in Procs : pc[q] = "sleep" => pc'[q] = "sleep"
      BY <2>2, <2>3, <2>4
    <3>2. \A a \in DOMAIN heap' : a \in DOMAIN heap /\ heap'[a].queue = heap[a].queue
      BY <2>1, <2>4
    <3> QED
      BY <1>1, <3>1, <3>2, QueuesKept
  <2>5. CASE c < 0
    <3>1. ASSUME NEW a \in DOMAIN heap', NEW i \in DOMAIN heap'[a].queue
          PROVE  /\ a \in DOMAIN heap /\ pc'[heap'[a].queue[i]] = "sleep"
                 /\ \/ /\ i \in DOMAIN heap[a].queue /\ heap[a].queue[i] # p
                       /\ heap'[a].queue[i] = heap[a].queue[i]
                    \/ /\ a = m /\ i = Len(heap[m].queue) + 1 /\ heap'[a].queue[i] = p
      <4>1. a \in DOMAIN heap /\ heap[a].queue \in Seq(Procs)
        BY <1>2, <2>1
      <4>2. CASE i \in DOMAIN heap[a].queue
        <5>1. /\ heap'[a].queue[i] = heap[a].queue[i] /\ heap[a].queue[i] \in Procs
              /\ pc[heap[a].queue[i]] = "sleep"
          BY <2>1, <2>3, <2>5, <4>1, <4>2 DEF QueuedOnce
        <5> QED
          BY <2>2, <2>3, <4>1, <4>2, <5>1
      <4>3. CASE i \notin DOMAIN heap[a].queue
        <5>1. a = m /\ i = Len(heap[m].queue) + 1 /\ heap'[a].queue[i] = p
          BY <2>1, <2>3, <2>5, <4>1, <4>3
        <5> QED
          BY <2>2, <2>5, <4>1, <5>1
      <4> QED
        BY <4>2, <4>3
    <3> QED
      BY <3>1 DEF QueuedOnce
  <2> QED
    BY <2>4, <2>5
<1>5. ASSUME NEW p \in Procs, NEW n \in Numbers, SignalCall(p, n)
      PROVE  QueuedOnce'
  <2> DEFINE m == Event(n)
  <2>1. /\ m \in DOMAIN heap /\ heap' = Signalled(heap, m)
        /\ heap \in [DOMAIN heap -> EventRecord]
    BY <1>1, <1>5, SearchResult DEF SignalCall, Event, EventTypes
  <2>2. \A q \in Procs : pc'[q] = IF q \in Woken(heap, m) THEN "woken" ELSE pc[q]
    BY <1>5 DEF SignalCall, Awaken
  <2> HIDE DEF m
  <2>3. /\ DOMAIN heap' = DOMAIN heap
        /\ \A k \in DOMAIN heap : k # m => heap'[k] = heap[k]
        /\ heap'[m].queue = IF Woken(heap, m) # {} THEN Tail(heap[m].queue) ELSE heap[m].queue
    BY <2>1, SignalledHeap
  <2>4. CASE Woken(heap, m) = {}
    <3>1. \A q \in Procs : pc[q] = "sleep" => pc'[q] = "sleep"
      BY <2>2, <2>4
    <3>2. \A a \in DOMAIN heap' : a \in DOMAIN heap /\ heap'[a].queue = heap[a].queue
      BY <2>3, <2>4
    <3> QED
      BY <1>1, <3>1, <3>2, QueuesKept
  <2>5. CASE Woken(heap, m) # {}
    <3>1. /\ heap[m].queue # <<>> /\ heap[m].queue \in Seq(Procs)
          /\ Woken(heap, m) = {Head(heap[m].queue)}
      BY <1>2, <2>1, <2>5 DEF Woken
    <3>2. Head(heap[m].queue) = heap[m].queue[1] /\ 1 \in DOMAIN heap[m].queue
      BY <3>1
    <3> DEFINE Was(a, i) == IF a = m THEN i + 1 ELSE i
    <3>3. ASSUME NEW a \in DOMAIN heap', NEW i \in DOMAIN heap'[a].queue
          PROVE  /\ a \in DOMAIN heap /\ i \in Nat /\ Was(a, i) \in DOMAIN heap[a].queue
                 /\ heap'[a].queue[i] = heap[a].queue[Was(a, i)]
                 /\ pc'[heap'[a].queue[i]] = "sleep"
      <4>1. a \in DOMAIN heap /\ heap[a].queue \in Seq(Procs)
        BY <1>2, <2>3
      <4>2. /\ i \in Nat /\ Was(a, i) \in DOMAIN heap[a].queue
            /\ heap'[a].queue[i] = heap[a].queue[Was(a, i)]
            /\ a = m => Was(a, i) # 1
        <5>1. CASE a = m
          <6>1. heap'[a].queue = Tail(heap[m].queue)
            BY <2>3, <2>5, <5>1
          <6>2. \A q \in Seq(Procs) : q # <<>> =>
                   \A k \in DOMAIN Tail(q) : /\ k \in Nat /\ k + 1 \in DOMAIN q /\ k + 1 # 1
                                             /\ Tail(q)[k] = q[k + 1]
            OBVIOUS
          <6> QED
            BY <3>1, <5>1, <6>1, <6>2
        <5>2. CASE a # m
          BY <2>3, <4>1, <5>2
        <5> QED
          BY <5>1, <5>2
      <4> HIDE DEF Was
      <4>3. heap[a].queue[Was(a, i)] # heap[m].queue[1]
        BY <2>1, <3>2, <4>1, <4>2 DEF QueuedOnce
      <4>4. heap[a].queue[Was(a, i)] \in Procs /\ pc[heap[a].queue[Was(a, i)]] = "sleep"
        BY <4>1, <4>2 DEF QueuedOnce
      <4> QED
        BY <2>2, <3>1, <3>2, <4>1, <4>2, <4>3, <4>4
    <3>4. \A a, b \in DOMAIN heap' :
             \A i \in DOMAIN heap'[a].queue, j \in DOMAIN heap'[b].queue :
                heap'[a].queue[i] = heap'[b].queue[j] => a = b /\ Was(a, i) = Was(b, j)
      <4> HIDE DEF Was
      <4> QED
        BY <3>3 DEF QueuedOnce
    <3>5. \A a \in DOMAIN heap' : \A i, j \in DOMAIN heap'[a].queue :
             Was(a, i) = Was(a, j) => i = j
      <4>1. \A a : \A i, j \in Nat : Was(a, i) = Was(a, j) => i = j
        OBVIOUS
      <4> HIDE DEF Was
      <4> QED
        BY <3>3, <4>1
    <3> HIDE DEF Was
    <3> QED
      BY <3>3, <3>4, <3>5 DEF QueuedOnce
  <2> QED
    BY <2>4, <2>5
<1>6. ASSUME NEW p \in Procs, NEW n \in Numbers, CloseCall(p, n)
      PROVE  QueuedOnce'
  <2>1. Again(n) = NULL /\ NULL \notin DOMAIN heap
    BY <1>1, <1>6, CloseFindsNothing, NullIsNoNode
  <2>2. /\ DOMAIN heap' = DOMAIN heap \ {Event(n)}
        /\ \A k \in DOMAIN heap' :
               heap'[k].queue = IF k = Again(n) /\ Woken(heap, k) # {}
                                THEN Tail(heap[k].queue) ELSE heap[k].queue
    BY <1>1, <1>6, ClosedHeap
  <2>3. \A a \in DOMAIN heap' : a \in DOMAIN heap /\ heap'[a].queue = heap[a].queue
    BY <2>1, <2>2
  <2>4. \A q \in Procs : pc'[q] = pc[q]
    BY <1>6, <2>1 DEF CloseCall, Awaken, Again, Unlinked, FirstLeft
  <2> QED
    BY <1>1, <2>3, <2>4, QueuesKept
<1>7. ASSUME UNCHANGED heap, \A q \in Procs : pc[q] = "sleep" => pc'[q] = "sleep"
      PROVE  QueuedOnce'
  BY <1>1, <1>7, QueuesKept
<1>8. ASSUME NEW p \in Procs, WaitFinish(p)
      PROVE  QueuedOnce'
  BY <1>2, <1>7, <1>8 DEF WaitFinish
<1>9. ASSUME NEW p \in Procs, NEW n \in Numbers, NEW c \in Counts, OpenCall(p, n, c)
      PROVE  QueuedOnce'
  BY <1>2, <1>7, <1>9 DEF OpenCall
<1>10. ASSUME UNCHANGED eventVars
       PROVE  QueuedOnce'
  BY <1>7, <1>10 DEF eventVars
<1> QED
  BY <1>3, <1>4, <1>5, <1>6, <1>8, <1>9, <1>10 DEF EventNext

(* The table that the list is, entry by entry.                             *)
EntryAt(m) == [count |-> heap[m].count, init |-> heap[m].init, queue |-> heap[m].queue]

Shown == [n \in {heap[m].num : m \in Listed} |->
             [count |-> heap[Event(n)].count, init |-> heap[Event(n)].init,
              queue |-> heap[Event(n)].queue]]

IsTable(f) == f = [n \in DOMAIN f |-> f[n]]

Entries ==
    /\ IsTable(Shown)
    /\ \A m \in DOMAIN heap : heap[m].num \in DOMAIN Shown
    /\ \A n \in DOMAIN Shown : \E m \in DOMAIN heap : heap[m].num = n
    /\ \A m \in DOMAIN heap : Shown[heap[m].num] = EntryAt(m)

LEMMA ShownEntries == UniqueInv => Entries
<1> SUFFICES ASSUME UniqueInv
             PROVE  Entries
  OBVIOUS
<1>1. Listed = DOMAIN heap /\ NULL \notin DOMAIN heap
  BY ListIsSound, NullIsNoNode DEF ListSound, UniqueInv, ListInv
<1>2. PICK len, s : List(len, s)
  BY DEF UniqueInv, ListInv
<1>3. ASSUME NEW m \in DOMAIN heap
      PROVE  Event(heap[m].num) = m
  <2> DEFINE n == heap[m].num
  <2>1. PICK i \in 1..len : s[i] = m
    BY <1>2 DEF List
  <2>2. Event(n) # NULL
    BY <1>1, <1>2, <2>1, SearchInChain DEF List, Event
  <2>3. Event(n) \in DOMAIN heap /\ heap[Event(n)].num = n
    BY <2>2, SearchResult DEF Event
  <2> QED
    BY <2>3 DEF UniqueInv, NumbersDiffer
<1>4. DOMAIN Shown = {heap[m].num : m \in DOMAIN heap}
  BY <1>1 DEF Shown
<1>5. \A n \in DOMAIN Shown :
         Shown[n] = [count |-> heap[Event(n)].count, init |-> heap[Event(n)].init,
                     queue |-> heap[Event(n)].queue]
  BY DEF Shown
<1>6. IsTable(Shown)
  BY DEF Shown, IsTable
<1> HIDE DEF Shown
<1> QED
  BY <1>3, <1>4, <1>5, <1>6 DEF EntryAt, Entries

(* Two tables with the same entries are the same.                          *)
LEMMA SameTable ==
  ASSUME NEW f, NEW g, IsTable(f), IsTable(g),
         DOMAIN f = DOMAIN g, \A n \in DOMAIN f : f[n] = g[n]
  PROVE  f = g
  BY DEF IsTable

LEMMA InitTable == EventInit => Table!TableInit
<1> SUFFICES ASSUME EventInit
             PROVE  Table!TableInit
  OBVIOUS
<1>1. \A k \in Positions : Walk(heap, head)[k] = NULL
  <2>1. 1..0 = {} /\ <<>> \in [1..0 -> Nodes \cap DOMAIN heap] /\ DOMAIN heap = {} /\ 0 \in Nat
    BY DEF EventInit
  <2>2. Chain(heap, head, 0, <<>>) /\ NULL \notin DOMAIN heap
    BY <2>1 DEF EventInit, Chain
  <2> QED
    BY <2>2, WalkOfChain, PositionsAreNumbers
<1>2. Listed = {}
  BY <1>1 DEF Listed
<1> QED
  BY <1>2 DEF Table!TableInit

(* Each call is a step of the table, or leaves it as it is.                *)
LEMMA OpenIsTableOpen ==
  ASSUME UniqueInv, UniqueInv', 2 \in Numbers, NEW p \in Procs, OpenInsert(p)
  PROVE  \E n \in Numbers, c \in Counts : Table!TableOpen(n, c)
<1>1. EventTypes /\ NumbersDiffer /\ NumbersDiffer'
  BY DEF UniqueInv, ListInv
<1>2. PICK len, s : List(len, s)
  BY DEF UniqueInv, ListInv
<1>3. PICK m \in Nodes \ DOMAIN heap, n \in Int, c \in Counts : Appended(p, len, s, m, n, c)
  BY <1>1, <1>2, OpenAppends
<1>4. n \in Numbers
  BY <1>1, <1>3 DEF EventTypes, OpenInsert, Appended
<1>5. /\ heap'[m].num = n
      /\ heap'[m].count = c /\ heap'[m].init = c /\ heap'[m].queue = <<>>
  <2>1. /\ NewNode(n, c).num = n /\ NewNode(n, c).count = c /\ NewNode(n, c).init = c
        /\ NewNode(n, c).queue = <<>>
    BY DEF NewNode
  <2> QED
    BY <1>3, <2>1 DEF Appended
<1>6. Entries
  BY ShownEntries
<1>7. Entries'
  BY ShownEntries, PTL
<1>8. \A a \in DOMAIN heap : EntryAt(a)' = EntryAt(a)
  BY <1>3 DEF EntryAt, Appended
<1>9. EntryAt(m)' = [count |-> c, init |-> c, queue |-> <<>>]
  BY <1>5 DEF EntryAt
<1>10. n \notin DOMAIN Shown
  BY <1>1, <1>3, <1>5, <1>6 DEF NumbersDiffer, Entries, Appended
<1>11. DOMAIN Shown' = DOMAIN Shown \cup {n}
  <2>1. \A k \in DOMAIN Shown' : k \in DOMAIN Shown \/ k = n
    BY <1>3, <1>5, <1>6, <1>7 DEF Entries, Appended
  <2>2. \A k \in DOMAIN Shown : k \in DOMAIN Shown'
    BY <1>3, <1>6, <1>7 DEF Entries, Appended
  <2>3. n \in DOMAIN Shown'
    BY <1>3, <1>5, <1>7 DEF Entries, Appended
  <2> QED
    BY <2>1, <2>2, <2>3
<1>12. Shown' = [k \in DOMAIN Shown \cup {n} |->
                    IF k = n THEN [count |-> c, init |-> c, queue |-> <<>>] ELSE Shown[k]]
  <2>1. Shown'[n] = [count |-> c, init |-> c, queue |-> <<>>]
    BY <1>3, <1>5, <1>7, <1>9 DEF Entries, Appended
  <2>2. \A k \in DOMAIN Shown : Shown'[k] = Shown[k]
    BY <1>3, <1>6, <1>7, <1>8 DEF Entries, Appended
  <2>3. Shown' = [k \in DOMAIN Shown' |-> Shown'[k]]
    BY <1>7 DEF Entries, IsTable
  <2> QED
    BY <1>10, <1>11, <2>1, <2>2, <2>3
<1>13. Table!TableOpen(n, c)
  BY <1>10, <1>12 DEF Table!TableOpen, Shown
<1> QED
  BY <1>4, <1>13

(* A call that changes the entry of the node m, and no other.              *)
LEMMA EntryChanges ==
  ASSUME Entries, Entries', DOMAIN heap' = DOMAIN heap,
         \A k \in DOMAIN heap : heap'[k].num = heap[k].num,
         NEW m \in DOMAIN heap, \A k \in DOMAIN heap : k # m => heap'[k] = heap[k]
  PROVE  /\ heap[m].num \in DOMAIN Shown
         /\ Shown' = [n \in DOMAIN Shown |-> IF n = heap[m].num THEN EntryAt(m)' ELSE Shown[n]]
<1>1. DOMAIN Shown' = DOMAIN Shown
  <2>1. \A k \in DOMAIN Shown' : k \in DOMAIN Shown
    BY DEF Entries
  <2>2. \A k \in DOMAIN Shown : k \in DOMAIN Shown'
    BY DEF Entries
  <2> QED
    BY <2>1, <2>2
<1>2. heap[m].num \in DOMAIN Shown /\ Shown'[heap[m].num] = EntryAt(m)'
  BY DEF Entries
<1>3. ASSUME NEW n \in DOMAIN Shown, n # heap[m].num
      PROVE  Shown'[n] = Shown[n]
  <2>1. PICK k \in DOMAIN heap : heap[k].num = n
    BY DEF Entries
  <2>2. EntryAt(k)' = EntryAt(k)
    BY <1>3, <2>1 DEF EntryAt
  <2>3. Shown[n] = EntryAt(k)
    BY <2>1 DEF Entries
  <2>4. Shown'[n] = EntryAt(k)'
    BY <2>1 DEF Entries
  <2> QED
    BY <2>2, <2>3, <2>4
<1>4. Shown' = [n \in DOMAIN Shown' |-> Shown'[n]]
  BY DEF Entries, IsTable
<1> QED
  BY <1>1, <1>2, <1>3, <1>4

(* An entry, and a table f in its entry n, get a new count and a new queue. *)
LEMMA RenewedEntry ==
  ASSUME NEW x, NEW y, NEW z, NEW c, NEW q
  PROVE  [[[count |-> x, init |-> y, queue |-> z] EXCEPT !.count = c] EXCEPT !.queue = q] =
             [count |-> c, init |-> y, queue |-> q]
<1>1. [[count |-> x, init |-> y, queue |-> z] EXCEPT !.count = c] =
         [count |-> c, init |-> y, queue |-> z]
  <2> DEFINE t == [i \in {"count", "init", "queue"} |->
                      IF i = "count" THEN c ELSE IF i = "init" THEN y ELSE z]
  <2>1. [count |-> c, init |-> y, queue |-> z] = t
    OBVIOUS
  <2>2. [[count |-> x, init |-> y, queue |-> z] EXCEPT !.count = c] = t
    OBVIOUS
  <2> QED
    BY <2>1, <2>2
<1>2. [[count |-> c, init |-> y, queue |-> z] EXCEPT !.queue = q] =
         [count |-> c, init |-> y, queue |-> q]
  OBVIOUS
<1> QED
  BY <1>1, <1>2

Renewed(f, n, c, q) == [f EXCEPT ![n].count = c, ![n].queue = q]

LEMMA RenewedTable ==
  ASSUME NEW f, IsTable(f), NEW n \in DOMAIN f, NEW c, NEW q,
         NEW x, NEW y, NEW z, f[n] = [count |-> x, init |-> y, queue |-> z]
  PROVE  /\ IsTable(Renewed(f, n, c, q)) /\ DOMAIN Renewed(f, n, c, q) = DOMAIN f
         /\ Renewed(f, n, c, q)[n] = [count |-> c, init |-> y, queue |-> q]
         /\ \A k \in DOMAIN f : k # n => Renewed(f, n, c, q)[k] = f[k]
<1>1. IsTable(Renewed(f, n, c, q)) /\ DOMAIN Renewed(f, n, c, q) = DOMAIN f
  BY DEF Renewed, IsTable
<1>2. Renewed(f, n, c, q)[n] =
         [[[count |-> x, init |-> y, queue |-> z] EXCEPT !.count = c] EXCEPT !.queue = q]
  BY DEF Renewed, IsTable
<1>3. Renewed(f, n, c, q)[n] = [count |-> c, init |-> y, queue |-> q]
  BY <1>2, RenewedEntry
<1>4. \A k \in DOMAIN f : k # n => Renewed(f, n, c, q)[k] = f[k]
  BY DEF Renewed, IsTable
<1> QED
  BY <1>1, <1>3, <1>4

LEMMA WaitIsTableWait ==
  ASSUME UniqueInv, UniqueInv', QueuedOnce, NEW p \in Procs, NEW n \in Numbers, WaitCall(p, n)
  PROVE  Table!TableWait(p, n)
<1>1. EventTypes /\ Entries
  BY ShownEntries DEF UniqueInv, ListInv
<1>2. Entries'
  BY ShownEntries, PTL
<1>3. PICK m : m = Event(n)
  OBVIOUS
<1> DEFINE c == heap[m].count - 1
<1>4. /\ m \in DOMAIN heap /\ c \in Int /\ DOMAIN heap' = DOMAIN heap
      /\ \A k \in DOMAIN heap : /\ heap'[k].num = heap[k].num
                                /\ heap'[k].init = heap[k].init
                                /\ k # m => heap'[k] = heap[k]
      /\ heap'[m].count = c
      /\ heap'[m].queue = IF c < 0 THEN Append(heap[m].queue, p) ELSE heap[m].queue
  BY <1>1, <1>3, WaitedHeap
<1>5. heap[m].num = n
  BY <1>3, SearchResult DEF WaitCall, Event
<1>6. /\ heap[m].count \in Int
      /\ \A k \in DOMAIN heap : heap[k].queue \in Seq(Procs)
  BY <1>1, <1>4 DEF EventTypes, EventRecord
<1>7. Shown[n] = EntryAt(m) /\ n \in DOMAIN Shown
  BY <1>1, <1>4, <1>5 DEF Entries
<1>8. Shown' = [k \in DOMAIN Shown |-> IF k = n THEN EntryAt(m)' ELSE Shown[k]]
  BY <1>1, <1>2, <1>4, <1>5, EntryChanges
<1>9. EntryAt(m)' = [count |-> c, init |-> heap[m].init,
                     queue |-> IF heap[m].count <= 0 THEN Append(heap[m].queue, p)
                               ELSE heap[m].queue]
  <2>1. c < 0 <=> heap[m].count <= 0
    BY <1>6
  <2>2. heap'[m].init = heap[m].init
    BY <1>4
  <2> HIDE DEF c
  <2> QED
    BY <1>4, <2>1, <2>2 DEF EntryAt
<1>10. Shown' = [Shown EXCEPT
          ![n].count = @ - 1,
          ![n].queue = IF Shown[n].count <= 0 THEN Append(@, p) ELSE @]
  <2>1. Shown[n] = [count |-> heap[m].count, init |-> heap[m].init, queue |-> heap[m].queue]
    BY <1>7 DEF EntryAt
  <2>2. IsTable(Shown)
    BY <1>1 DEF Entries
  <2> DEFINE d == Shown[n].count - 1
             q == IF Shown[n].count <= 0 THEN Append(Shown[n].queue, p) ELSE Shown[n].queue
  <2>3. EntryAt(m)' = [count |-> d, init |-> heap[m].init, queue |-> q]
    BY <1>9, <2>1
  <2> HIDE DEF d, q
  <2>5. /\ IsTable(Renewed(Shown, n, d, q)) /\ DOMAIN Renewed(Shown, n, d, q) = DOMAIN Shown
        /\ Renewed(Shown, n, d, q)[n] = [count |-> d, init |-> heap[m].init, queue |-> q]
        /\ \A k \in DOMAIN Shown : k # n => Renewed(Shown, n, d, q)[k] = Shown[k]
    BY <1>7, <2>1, <2>2, RenewedTable
  <2>6. Shown' = Renewed(Shown, n, d, q)
    <3>1. /\ DOMAIN Shown' = DOMAIN Shown /\ IsTable(Shown')
          /\ \A k \in DOMAIN Shown : Shown'[k] = IF k = n THEN EntryAt(m)' ELSE Shown[k]
      BY <1>2, <1>8 DEF Entries
    <3>2. \A k \in DOMAIN Shown : Shown'[k] = Renewed(Shown, n, d, q)[k]
      BY <2>3, <2>5, <3>1
    <3> QED
      BY <2>5, <3>1, <3>2, SameTable
  <2> QED
    BY <2>6 DEF Renewed, d, q
<1>11. \A k \in DOMAIN Shown : p \notin Table!ToSet(Shown[k].queue)
  <2> TAKE k \in DOMAIN Shown
  <2>1. PICK a \in DOMAIN heap : heap[a].num = k
    BY <1>1 DEF Entries
  <2>2. Shown[k].queue = heap[a].queue
    <3>1. Shown[k] = EntryAt(a)
      BY <1>1, <2>1 DEF Entries
    <3> QED
      BY <3>1 DEF EntryAt
  <2>3. \A i \in DOMAIN heap[a].queue : heap[a].queue[i] # p
    BY <2>1 DEF QueuedOnce, WaitCall
  <2> QED
    BY <2>2, <2>3 DEF Table!ToSet
<1> QED
  BY <1>7, <1>10, <1>11 DEF Table!TableWait, Shown

LEMMA SignalIsTableSignal ==
  ASSUME UniqueInv, UniqueInv', NEW p \in Procs, NEW n \in Numbers, SignalCall(p, n)
  PROVE  Table!TableSignal(n)
<1>1. EventTypes /\ Entries
  BY ShownEntries DEF UniqueInv, ListInv
<1>2. Entries'
  BY ShownEntries, PTL
<1>3. PICK m : m = Event(n)
  OBVIOUS
<1>4. m \in DOMAIN heap /\ heap[m].num = n /\ heap' = Signalled(heap, m)
  BY <1>3, SearchResult DEF SignalCall, Event
<1>5. /\ DOMAIN heap' = DOMAIN heap
      /\ \A k \in DOMAIN heap : /\ heap'[k].num = heap[k].num
                                /\ heap'[k].init = heap[k].init
                                /\ k # m => heap'[k] = heap[k]
      /\ heap'[m].count = SignalledCount(heap, m)
      /\ heap'[m].queue = IF Woken(heap, m) # {} THEN Tail(heap[m].queue) ELSE heap[m].queue
  BY <1>1, <1>4, SignalledHeap DEF EventTypes
<1>6. heap[m].count \in Int /\ heap[m].init \in Int
  BY <1>1, <1>4 DEF EventTypes, EventRecord
<1>7. Shown[n] = EntryAt(m) /\ n \in DOMAIN Shown
  BY <1>1, <1>4 DEF Entries
<1>8. Shown' = [k \in DOMAIN Shown |-> IF k = n THEN EntryAt(m)' ELSE Shown[k]]
  BY <1>1, <1>2, <1>4, <1>5, EntryChanges
<1> DEFINE c == IF heap[m].count < heap[m].init THEN heap[m].count + 1 ELSE heap[m].count
<1>9. SignalledCount(heap, m) = c
  BY <1>6 DEF SignalledCount
<1>10. Woken(heap, m) # {} <=> c <= 0 /\ heap[m].queue # <<>>
  BY <1>9 DEF Woken
<1>11. EntryAt(m)' = [count |-> c, init |-> heap[m].init,
                      queue |-> IF c <= 0 /\ heap[m].queue # <<>> THEN Tail(heap[m].queue)
                                ELSE heap[m].queue]
  BY <1>4, <1>5, <1>9, <1>10 DEF EntryAt
<1>12. /\ Shown[n].count = heap[m].count /\ Shown[n].init = heap[m].init
       /\ Shown[n].queue = heap[m].queue
  BY <1>7 DEF EntryAt
<1> HIDE DEF c
<1>13. Shown' = [Shown EXCEPT
          ![n].count = c,
          ![n].queue = IF c <= 0 /\ @ # <<>> THEN Tail(@) ELSE @]
  <2>1. Shown[n] = [count |-> heap[m].count, init |-> heap[m].init, queue |-> heap[m].queue]
    BY <1>7 DEF EntryAt
  <2>2. IsTable(Shown)
    BY <1>1 DEF Entries
  <2> DEFINE q == IF c <= 0 /\ Shown[n].queue # <<>> THEN Tail(Shown[n].queue)
                  ELSE Shown[n].queue
  <2>3. EntryAt(m)' = [count |-> c, init |-> heap[m].init, queue |-> q]
    BY <1>11, <2>1
  <2> HIDE DEF q
  <2>5. /\ IsTable(Renewed(Shown, n, c, q)) /\ DOMAIN Renewed(Shown, n, c, q) = DOMAIN Shown
        /\ Renewed(Shown, n, c, q)[n] = [count |-> c, init |-> heap[m].init, queue |-> q]
        /\ \A k \in DOMAIN Shown : k # n => Renewed(Shown, n, c, q)[k] = Shown[k]
    BY <1>7, <2>1, <2>2, RenewedTable
  <2>6. Shown' = Renewed(Shown, n, c, q)
    <3>1. /\ DOMAIN Shown' = DOMAIN Shown /\ IsTable(Shown')
          /\ \A k \in DOMAIN Shown : Shown'[k] = IF k = n THEN EntryAt(m)' ELSE Shown[k]
      BY <1>2, <1>8 DEF Entries
    <3>2. \A k \in DOMAIN Shown : Shown'[k] = Renewed(Shown, n, c, q)[k]
      BY <2>3, <2>5, <3>1
    <3> QED
      BY <2>5, <3>1, <3>2, SameTable
  <2> QED
    BY <2>6 DEF Renewed, q
<1>14. c = IF Shown[n].count < Shown[n].init THEN Shown[n].count + 1 ELSE Shown[n].count
  BY <1>12 DEF c
<1> QED
  BY <1>7, <1>13, <1>14 DEF Table!TableSignal, Shown

LEMMA CloseIsTableClose ==
  ASSUME UniqueInv, UniqueInv', Closable \subseteq {"head", "middle"}, IdleCloses,
         NEW p \in Procs, NEW n \in Numbers, CloseCall(p, n)
  PROVE  Table!TableClose(n)
<1>1. EventTypes /\ Entries /\ NumbersDiffer
  BY ShownEntries DEF UniqueInv, ListInv
<1>2. Entries'
  BY ShownEntries, PTL
<1>3. PICK m : m = Event(n)
  OBVIOUS
<1>4. m \in DOMAIN heap /\ heap[m].num = n /\ heap[m].queue = <<>>
  BY <1>3, SearchResult DEF CloseCall, Event
<1>5. Again(n) = NULL /\ NULL \notin DOMAIN heap
  BY <1>1, CloseFindsNothing, NullIsNoNode
<1>6. /\ DOMAIN heap' = DOMAIN heap \ {m}
      /\ \A k \in DOMAIN heap' :
            /\ heap'[k].num = heap[k].num /\ heap'[k].init = heap[k].init
            /\ heap'[k].count = heap[k].count /\ heap'[k].queue = heap[k].queue
  <2>1. /\ DOMAIN heap' = DOMAIN heap \ {Event(n)}
        /\ \A k \in DOMAIN heap' :
               /\ heap'[k].num = heap[k].num /\ heap'[k].init = heap[k].init
               /\ heap'[k].count = IF k = Again(n) THEN SignalledCount(heap, k)
                                                   ELSE heap[k].count
               /\ heap'[k].queue = IF k = Again(n) /\ Woken(heap, k) # {}
                                   THEN Tail(heap[k].queue) ELSE heap[k].queue
    BY <1>1, ClosedHeap
  <2> QED
    BY <1>3, <1>5, <2>1
<1>7. \A k \in DOMAIN heap' : k \in DOMAIN heap /\ heap[k].num # n /\ EntryAt(k)' = EntryAt(k)
  BY <1>1, <1>4, <1>6 DEF NumbersDiffer, EntryAt
<1>8. n \in DOMAIN Shown /\ Shown[n].queue = <<>>
  <2>1. n \in DOMAIN Shown /\ Shown[n] = EntryAt(m)
    BY <1>1, <1>4 DEF Entries
  <2>2. EntryAt(m).queue = <<>>
    BY <1>4 DEF EntryAt
  <2> QED
    BY <2>1, <2>2
<1>9. \A k \in DOMAIN Shown' : k \in DOMAIN Shown /\ k # n /\ Shown'[k] = Shown[k]
  <2> TAKE k \in DOMAIN Shown'
  <2>1. PICK a \in DOMAIN heap' : heap'[a].num = k
    BY <1>2 DEF Entries
  <2>2. /\ a \in DOMAIN heap /\ heap[a].num = k /\ k # n
        /\ Shown'[k] = EntryAt(a)' /\ EntryAt(a)' = EntryAt(a)
    BY <1>2, <1>6, <1>7, <2>1 DEF Entries
  <2>3. k \in DOMAIN Shown /\ Shown[k] = EntryAt(a)
    BY <1>1, <2>2 DEF Entries
  <2> QED
    BY <2>2, <2>3
<1>10. \A k \in DOMAIN Shown : k # n => k \in DOMAIN Shown'
  <2> SUFFICES ASSUME NEW k \in DOMAIN Shown, k # n
               PROVE  k \in DOMAIN Shown'
    OBVIOUS
  <2>1. PICK a \in DOMAIN heap : heap[a].num = k
    BY <1>1 DEF Entries
  <2>2. a \in DOMAIN heap' /\ heap'[a].num = k
    BY <1>4, <1>6, <2>1
  <2> QED
    BY <1>2, <2>2 DEF Entries
<1>11. Shown' = [k \in DOMAIN Shown \ {n} |-> Shown[k]]
  <2>1. IsTable(Shown')
    BY <1>2 DEF Entries
  <2>2. DOMAIN Shown' = DOMAIN Shown \ {n}
    BY <1>9, <1>10
  <2> QED
    BY <1>9, <2>1, <2>2 DEF IsTable
<1> QED
  BY <1>8, <1>11 DEF Table!TableClose, Shown

LEMMA StepIsTableStep ==
  ASSUME Closable \subseteq {"head", "middle"}, IdleCloses, 2 \in Numbers,
         UniqueInv, UniqueInv', QueuedOnce, [EventNext]_eventVars
  PROVE  Table!TableNext \/ UNCHANGED Shown
<1>1. ASSUME NEW p \in Procs, OpenInsert(p)
      PROVE  Table!TableNext
  BY <1>1, OpenIsTableOpen DEF Table!TableNext
<1>2. ASSUME NEW p \in Procs, NEW n \in Numbers, WaitCall(p, n)
      PROVE  Table!TableNext
  BY <1>2, WaitIsTableWait DEF Table!TableNext
<1>3. ASSUME NEW p \in Procs, NEW n \in Numbers, SignalCall(p, n)
      PROVE  Table!TableNext
  BY <1>3, SignalIsTableSignal DEF Table!TableNext
<1>4. ASSUME NEW p \in Procs, NEW n \in Numbers, CloseCall(p, n)
      PROVE  Table!TableNext
  BY <1>4, CloseIsTableClose DEF Table!TableNext
<1>5. ASSUME UNCHANGED <<heap, head>>
      PROVE  UNCHANGED Shown
  BY <1>5 DEF Shown, Listed, Event, scheventNum, FirstHit, Hits, Walk
<1>6. ASSUME NEW p \in Procs, NEW n \in Numbers, NEW c \in Counts, OpenCall(p, n, c)
      PROVE  UNCHANGED Shown
  BY <1>5, <1>6 DEF OpenCall
<1>7. ASSUME NEW p \in Procs, WaitFinish(p)
      PROVE  UNCHANGED Shown
  BY <1>5, <1>7 DEF WaitFinish
<1>8. ASSUME UNCHANGED eventVars
      PROVE  UNCHANGED Shown
  BY <1>5, <1>8 DEF eventVars
<1> QED
  BY <1>1, <1>2, <1>3, <1>4, <1>6, <1>7, <1>8 DEF EventNext

(* The list implements the table of semaphores, step by step: every call   *)
(* changes the entry of the number it names and no other, and nobody       *)
(* leaves a queue but by a signal.  This holds for any heap, any processes *)
(* and any numbers, if one process opens events and events are closed      *)
(* while nobody waits for them and not at the end of the list (in the      *)
(* other cases it is not true of the code).  2 is the number that          *)
(* myevent_open gives to the first event (exp6.c:1290).                    *)
THEOREM ListImplementsTable ==
  ASSUME Closable \subseteq {"head", "middle"}, \A p, q \in Openers : p = q,
         IdleCloses, 2 \in Numbers
  PROVE  EventSpec => ListIsTable
<1>1. EventInit => TableInv /\ Table!TableInit
  <2>1. EventInit => UniqueInv
    BY InitList DEF EventInit, UniqueInv, NumbersDiffer, StillFree
  <2>2. EventInit => QueuedOnce
    BY DEF EventInit, QueuedOnce
  <2> QED
    BY <2>1, <2>2, InitTable DEF TableInv
<1>2. TableInv /\ [EventNext]_eventVars => TableInv'
  BY StepUnique, StepQueues DEF TableInv
<1>3. TableInv /\ TableInv' /\ [EventNext]_eventVars => Table!TableNext \/ UNCHANGED Shown
  BY StepIsTableStep DEF TableInv
<1>4. Table!TableNext \/ UNCHANGED Shown => [Table!TableNext]_Shown
  OBVIOUS
<1> QED
  BY <1>1, <1>2, <1>3, <1>4, PTL DEF EventSpec, ListIsTable, Table!TableSpec, Shown
=============================================================================
