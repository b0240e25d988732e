-------------------------- MODULE ScullDeviceProofs -------------------------
(***************************************************************************)
(* Theorems of ScullDevice, for any processes, bytes and sizes, if no trim *)
(* changes the sizes of the device while a call is between its look at     *)
(* them and the semaphore: nobody asks for other sizes, or the opens for   *)
(* writing come at other times.  (In the other case, the race of main.c    *)
(* 297 and 341, they are not true of the code.)                            *)
(***************************************************************************)
EXTENDS ScullDevice, SequenceTheorems, TLAPS

SizesKeep == LateTrim = FALSE \/ (Quanta = {DefQuantum} /\ Qsets = {DefQset})

-----------------------------------------------------------------------------
(* Places: item, pointer and byte of a position.                           *)

LEMMA Division ==
  ASSUME NEW i \in Nat, NEW d \in Nat \ {0}
  PROVE  /\ i \div d \in Nat /\ i % d \in Nat /\ i % d < d
         /\ i = d * (i \div d) + (i % d)
  OBVIOUS

LEMMA ProductIsPositive ==
  ASSUME NEW q \in Nat \ {0}, NEW s \in Nat \ {0}
  PROVE  q * s \in Nat \ {0}
<1>1. q * s \in Int /\ q > 0 /\ s > 0
  OBVIOUS
<1>2. q * s > 0
  BY <1>1, Z3
<1> QED
  BY <1>1, <1>2

(* A quotient of a number below a product.                                 *)
LEMMA QuotientIsBelow ==
  ASSUME NEW q \in Nat \ {0}, NEW s \in Nat \ {0}, NEW r \in Nat, r < q * s
  PROVE  r \div q < s
<1> DEFINE a == r \div q
<1>1. a \in Nat /\ r % q \in Nat /\ r = q * a + (r % q)
  BY Division
<1> HIDE DEF a
<1>2. ASSUME a >= s
      PROVE  FALSE
  <2>1. q * a >= q * s
    BY <1>1, <1>2, Z3
  <2>2. q * a \in Int /\ q * s \in Int
    BY <1>1
  <2> QED
    BY <1>1, <2>1, <2>2
<1>3. a < s
  BY <1>1, <1>2
<1> QED
  BY <1>3 DEF a

LEMMA PlaceTypes ==
  ASSUME NEW q \in Nat \ {0}, NEW s \in Nat \ {0}, NEW i \in Nat
  PROVE  /\ Item(i, <<q, s>>) \in Nat \ {0}
         /\ SPos(i, <<q, s>>) \in 1..s
         /\ QPos(i, <<q, s>>) \in 1..q
<1> DEFINE d == q * s
           r == i % d
<1>1. d \in Nat \ {0}
  BY ProductIsPositive
<1> HIDE DEF d
<1>2. i \div d \in Nat /\ r \in Nat /\ r < d
  BY <1>1, Division
<1> HIDE DEF r
<1>3. r \div q \in Nat /\ r \div q < s
  BY <1>2, Division, QuotientIsBelow DEF d
<1>4. r % q \in Nat /\ r % q < q
  BY <1>2, Division
<1>5. /\ Item(i, <<q, s>>) = (i \div d) + 1
      /\ SPos(i, <<q, s>>) = (r \div q) + 1
      /\ QPos(i, <<q, s>>) = (r % q) + 1
  BY DEF Item, SPos, QPos, d, r
<1> QED
  BY <1>2, <1>3, <1>4, <1>5

-----------------------------------------------------------------------------
(* Lists of arrays of s pointers to quantums of q bytes; <<>> is NULL.     *)

ByteSet == Data \cup {junk}
Quantums(q) == {<<>>} \cup [1..q -> ByteSet]
Arrays(q, s) == {<<>>} \cup [1..s -> Quantums(q)]
Lists(q, s) == Seq(Arrays(q, s))

LEMMA ListEntries ==
  ASSUME NEW q, NEW s, NEW l \in Lists(q, s)
  PROVE  Len(l) \in Nat /\ DOMAIN l = 1..Len(l) /\ \A k \in 1..Len(l) : l[k] \in Arrays(q, s)
  BY DEF Lists

(* A function on 1..n is a sequence.                                       *)
LEMMA FunctionIsSeq ==
  ASSUME NEW S, NEW n \in Nat, NEW e \in [1..n -> S]
  PROVE  e \in Seq(S) /\ Len(e) = n
<1>1. e \in Seq(S)
  BY SeqDef
<1>2. DOMAIN e = 1..n
  OBVIOUS
<1> QED
  BY <1>1, <1>2, LenProperties

(* scull_follow only appends items without an array.                       *)
Follows(l, m) ==
    /\ Len(m) \in Nat /\ Len(l) <= Len(m)
    /\ \A k \in 1..Len(m) : m[k] = IF k <= Len(l) THEN l[k] ELSE <<>>

LEMMA Followed ==
  ASSUME NEW q, NEW s, items \in Lists(q, s), NEW n \in Nat, NEW l \in scull_follow(n)
  PROVE  l \in Lists(q, s) /\ Follows(items, l) /\ (n <= Len(items) => l = items)
<1>1. Len(items) \in Nat /\ \A k \in 1..Len(items) : items[k] \in Arrays(q, s)
  BY ListEntries
<1>2. CASE n <= Len(items)
  BY <1>1, <1>2 DEF scull_follow, Follows
<1>3. CASE ~(n <= Len(items))
  <2>1. PICK m \in Len(items)..n : l = Padded(m)
    BY <1>3 DEF scull_follow
  <2> DEFINE e == [i \in 1..(m - Len(items)) |-> <<>>]
             len == m - Len(items)
  <2>2. len \in Nat
    BY <1>1, <2>1
  <2>3. e \in Lists(q, s) /\ Len(e) = len /\ \A i \in 1..len : e[i] = <<>>
    <3>1. <<>> \in Arrays(q, s)
      BY DEF Arrays
    <3>2. e \in [1..len -> Arrays(q, s)]
      BY <3>1
    <3> QED
      BY <2>2, <3>2, FunctionIsSeq DEF Lists
  <2> HIDE DEF e, len
  <2>4. /\ l = items \o e /\ l \in Lists(q, s) /\ Len(l) = Len(items) + len
        /\ \A i \in 1..(Len(items) + len) :
              l[i] = IF i <= Len(items) THEN items[i] ELSE e[i - Len(items)]
    <3>1. l = items \o e
      BY <2>1 DEF Padded, e
    <3> QED
      BY <2>3, <3>1, ConcatProperties DEF Lists
  <2>5. \A i \in 1..Len(l) : l[i] = IF i <= Len(items) THEN items[i] ELSE <<>>
    <3> TAKE i \in 1..Len(l)
    <3>1. i > Len(items) => i - Len(items) \in 1..len
      BY <1>1, <2>2, <2>4
    <3> QED
      BY <1>1, <2>2, <2>3, <2>4, <3>1
  <2> QED
    BY <1>1, <1>3, <2>2, <2>4, <2>5 DEF Follows
<1> QED
  BY <1>1, <1>2, <1>3

(* With memory enough the list reaches item n.                             *)
LEMMA FollowReaches ==
  ASSUME NEW q, NEW s, items \in Lists(q, s), NEW n \in Nat
  PROVE  \E l \in scull_follow(n) : Len(l) >= n
<1>1. Len(items) \in Nat
  BY ListEntries
<1>2. CASE n <= Len(items)
  BY <1>1, <1>2 DEF scull_follow
<1>3. CASE ~(n <= Len(items))
  <2> DEFINE e == [i \in 1..(n - Len(items)) |-> <<>>]
             len == n - Len(items)
  <2>1. Padded(n) \in scull_follow(n)
    BY <1>1, <1>3 DEF scull_follow
  <2>2. e \in Lists(q, s) /\ Len(e) = len
    <3>1. len \in Nat /\ <<>> \in Arrays(q, s)
      BY <1>1, <1>3 DEF Arrays
    <3>2. e \in [1..len -> Arrays(q, s)]
      BY <3>1
    <3> HIDE DEF e, len
    <3> QED
      BY <3>1, <3>2, FunctionIsSeq DEF Lists, len
  <2>3. Len(items \o e) = Len(items) + len
    BY <2>2, ConcatProperties DEF Lists
  <2>4. Padded(n) = items \o e
    BY DEF Padded, e
  <2>5. Len(items) + len = n
    BY <1>1 DEF len
  <2> HIDE DEF e, len
  <2>6. Len(Padded(n)) = n
    BY <2>3, <2>4, <2>5
  <2> QED
    BY <2>1, <2>6
<1> QED
  BY <1>1, <1>2, <1>3

(* One item of a list is replaced.                                         *)
LEMMA ItemReplaced ==
  ASSUME NEW q, NEW s, NEW l \in Lists(q, s), NEW k \in 1..Len(l), NEW a \in Arrays(q, s)
  PROVE  /\ [l EXCEPT ![k] = a] \in Lists(q, s) /\ Len([l EXCEPT ![k] = a]) = Len(l)
         /\ \A j \in 1..Len(l) : [l EXCEPT ![k] = a][j] = IF j = k THEN a ELSE l[j]
<1>1. l \in [1..Len(l) -> Arrays(q, s)] /\ Len(l) \in Nat
  BY LenProperties DEF Lists
<1>2. [l EXCEPT ![k] = a] \in [1..Len(l) -> Arrays(q, s)]
  BY <1>1
<1>3. [l EXCEPT ![k] = a] \in Seq(Arrays(q, s)) /\ Len([l EXCEPT ![k] = a]) = Len(l)
  BY <1>1, <1>2, FunctionIsSeq
<1> QED
  BY <1>1, <1>3 DEF Lists

(* The array for position i is there.                                      *)
WithArrayAt(g, l, k, q, s) ==
    /\ g \in Lists(q, s) /\ Len(g) = Len(l)
    /\ \A j \in 1..Len(l) : j # k => g[j] = l[j]
    /\ g[k] = IF l[k] = <<>> THEN [j \in 1..s |-> <<>>] ELSE l[k]
    /\ g[k] \in [1..s -> Quantums(q)]

LEMMA ArrayIsThere ==
  ASSUME NEW q \in Nat \ {0}, NEW s \in Nat \ {0}, NEW i \in Nat,
         NEW l \in Lists(q, s), Item(i, <<q, s>>) <= Len(l)
  PROVE  WithArrayAt(WithArray(l, i, <<q, s>>), l, Item(i, <<q, s>>), q, s)
<1> DEFINE k == Item(i, <<q, s>>)
           a == [j \in 1..s |-> <<>>]
           g == WithArray(l, i, <<q, s>>)
<1>1. k \in 1..Len(l) /\ Len(l) \in Nat /\ l[k] \in Arrays(q, s)
  <2>1. k \in Nat \ {0} /\ k <= Len(l)
    BY PlaceTypes
  <2>2. Len(l) \in Nat /\ \A j \in 1..Len(l) : l[j] \in Arrays(q, s)
    BY ListEntries
  <2> HIDE DEF k
  <2> QED
    BY <2>1, <2>2
<1>2. a \in [1..s -> Quantums(q)] /\ a \in Arrays(q, s)
  BY DEF Quantums, Arrays
<1>3. g = IF l[k] = <<>> THEN [l EXCEPT ![k] = a] ELSE l
  BY DEF WithArray
<1> HIDE DEF k, a, g
<1>4. g \in Lists(q, s) /\ Len(g) = Len(l)
      /\ \A j \in 1..Len(l) : g[j] = IF j = k /\ l[k] = <<>> THEN a ELSE l[j]
  BY <1>1, <1>2, <1>3, ItemReplaced
<1>5. g[k] = (IF l[k] = <<>> THEN a ELSE l[k]) /\ g[k] \in [1..s -> Quantums(q)]
  BY <1>1, <1>2, <1>4 DEF Arrays
<1> QED
  BY <1>1, <1>4, <1>5 DEF k, a, g, WithArrayAt

(* A list in which one quantum is replaced.                                *)
Replaced(l, k, n, b) == [l EXCEPT ![k][n] = b]

IsReplaced(g, q, s, l, k, n, b) ==
    /\ g \in Lists(q, s) /\ Len(g) = Len(l)
    /\ \A j \in 1..Len(l) : j # k => g[j] = l[j]
    /\ g[k] \in [1..s -> Quantums(q)]
    /\ \A m \in 1..s : g[k][m] = IF m = n THEN b ELSE l[k][m]

LEMMA QuantumReplaced ==
  ASSUME NEW q \in Nat \ {0}, NEW s \in Nat \ {0}, NEW l \in Lists(q, s),
         NEW k \in 1..Len(l), l[k] \in [1..s -> Quantums(q)],
         NEW n \in 1..s, NEW b \in Quantums(q)
  PROVE  IsReplaced(Replaced(l, k, n, b), q, s, l, k, n, b)
<1> DEFINE a == [l[k] EXCEPT ![n] = b]
<1>1. a \in [1..s -> Quantums(q)] /\ \A m \in 1..s : a[m] = IF m = n THEN b ELSE l[k][m]
  OBVIOUS
<1>2. a \in Arrays(q, s)
  BY <1>1 DEF Arrays
<1>3. Replaced(l, k, n, b) = [l EXCEPT ![k] = a]
  BY ListEntries DEF Replaced
<1> HIDE DEF a
<1>4. /\ [l EXCEPT ![k] = a] \in Lists(q, s) /\ Len([l EXCEPT ![k] = a]) = Len(l)
      /\ \A j \in 1..Len(l) : [l EXCEPT ![k] = a][j] = IF j = k THEN a ELSE l[j]
  BY <1>2, ItemReplaced
<1> DEFINE g == Replaced(l, k, n, b)
<1>5. /\ g \in Lists(q, s) /\ Len(g) = Len(l)
      /\ \A j \in 1..Len(l) : g[j] = IF j = k THEN a ELSE l[j]
  BY <1>3, <1>4
<1> HIDE DEF g
<1>6. g[k] = a /\ \A j \in 1..Len(l) : j # k => g[j] = l[j]
  BY <1>5
<1> QED
  BY <1>1, <1>5, <1>6 DEF g, IsReplaced

(* The quantum for position i is there.                                    *)
WithQuantumAt(g, l, k, n, q, s) ==
    /\ g \in Lists(q, s) /\ Len(g) = Len(l)
    /\ \A j \in 1..Len(l) : j # k => g[j] = l[j]
    /\ g[k] \in [1..s -> Quantums(q)]
    /\ \A m \in 1..s : m # n => g[k][m] = l[k][m]
    /\ g[k][n] = IF l[k][n] = <<>> THEN [j \in 1..q |-> junk] ELSE l[k][n]
    /\ g[k][n] \in [1..q -> ByteSet]

LEMMA QuantumIsThere ==
  ASSUME NEW q \in Nat \ {0}, NEW s \in Nat \ {0}, NEW i \in Nat,
         NEW l \in Lists(q, s), Item(i, <<q, s>>) <= Len(l),
         l[Item(i, <<q, s>>)] \in [1..s -> Quantums(q)]
  PROVE  WithQuantumAt(WithQuantum(l, i, <<q, s>>), l, Item(i, <<q, s>>),
                       SPos(i, <<q, s>>), q, s)
<1> DEFINE k == Item(i, <<q, s>>)
           n == SPos(i, <<q, s>>)
           b == [j \in 1..q |-> junk]
           g == WithQuantum(l, i, <<q, s>>)
<1>1. k \in 1..Len(l) /\ n \in 1..s /\ Len(l) \in Nat
  <2>1. k \in Nat \ {0} /\ n \in 1..s /\ k <= Len(l)
    BY PlaceTypes
  <2>2. Len(l) \in Nat
    BY ListEntries
  <2> HIDE DEF k, n
  <2> QED
    BY <2>1, <2>2
<1>2. b \in [1..q -> ByteSet] /\ b \in Quantums(q)
  BY DEF Quantums, ByteSet
<1>3. g = IF l[k][n] = <<>> THEN [l EXCEPT ![k][n] = b] ELSE l
  BY DEF WithQuantum
<1>4. l[k] \in [1..s -> Quantums(q)] /\ l[k][n] \in Quantums(q)
  BY <1>1
<1> HIDE DEF k, n, b, g
<1>5. CASE l[k][n] = <<>>
  <2>0. g = Replaced(l, k, n, b)
    BY <1>3, <1>5 DEF Replaced
  <2>1. IsReplaced(g, q, s, l, k, n, b)
    BY <1>1, <1>2, <1>4, <2>0, QuantumReplaced
  <2>2. g[k][n] = b /\ \A m \in 1..s : m # n => g[k][m] = l[k][m]
    BY <1>1, <2>1 DEF IsReplaced
  <2>3. /\ g \in Lists(q, s) /\ Len(g) = Len(l)
        /\ \A j \in 1..Len(l) : j # k => g[j] = l[j]
        /\ g[k] \in [1..s -> Quantums(q)]
        /\ \A m \in 1..s : m # n => g[k][m] = l[k][m]
        /\ g[k][n] = IF l[k][n] = <<>> THEN b ELSE l[k][n]
        /\ g[k][n] \in [1..q -> ByteSet]
    BY <1>2, <1>5, <2>1, <2>2 DEF IsReplaced
  <2> QED
    BY <2>3 DEF k, n, b, g, WithQuantumAt
<1>6. CASE l[k][n] # <<>>
  <2>1. g = l /\ l[k][n] \in [1..q -> ByteSet]
    BY <1>3, <1>4, <1>6 DEF Quantums
  <2> QED
    BY <1>1, <1>4, <1>6, <2>1 DEF k, n, b, g, WithQuantumAt
<1> QED
  BY <1>5, <1>6

-----------------------------------------------------------------------------
(* The byte at a position of a list.                                       *)

Byte(l, i, q, s) ==
    LET c == <<q, s>>
        array == IF Item(i, c) <= Len(l) THEN l[Item(i, c)] ELSE <<>>
        bytes == IF SPos(i, c) <= Len(array) THEN array[SPos(i, c)] ELSE <<>>
    IN  IF QPos(i, c) <= Len(bytes) THEN bytes[QPos(i, c)] ELSE junk

LEMMA NoBytesNull ==
  ASSUME NEW q \in Nat \ {0}, NEW s \in Nat \ {0}
  PROVE  /\ \A a \in Arrays(q, s) : a # <<>> => a \in [1..s -> Quantums(q)] /\ Len(a) = s
         /\ \A a \in [1..s -> Quantums(q)] : a # <<>> /\ Len(a) = s
         /\ \A b \in Quantums(q) : b # <<>> => b \in [1..q -> ByteSet] /\ Len(b) = q
         /\ \A b \in [1..q -> ByteSet] : b # <<>> /\ Len(b) = q
<1>1. \A a \in [1..s -> Quantums(q)] : Len(a) = s
  BY FunctionIsSeq
<1>2. \A b \in [1..q -> ByteSet] : Len(b) = q
  BY FunctionIsSeq
<1>3. Len(<<>>) = 0
  BY EmptySeq
<1> QED
  BY <1>1, <1>2, <1>3 DEF Arrays, Quantums

(* Where a quantum is allocated the byte is in it; elsewhere it is junk.   *)
LEMMA ByteIsThere ==
  ASSUME NEW q \in Nat \ {0}, NEW s \in Nat \ {0}, NEW i \in Nat, NEW l \in Lists(q, s)
  PROVE  /\ There(l, i, <<q, s>>) =>
               /\ Byte(l, i, q, s) = l[Item(i, <<q, s>>)][SPos(i, <<q, s>>)][QPos(i, <<q, s>>)]
               /\ l[Item(i, <<q, s>>)] \in [1..s -> Quantums(q)]
               /\ l[Item(i, <<q, s>>)][SPos(i, <<q, s>>)] \in [1..q -> ByteSet]
         /\ ~There(l, i, <<q, s>>) => Byte(l, i, q, s) = junk
<1> DEFINE k == Item(i, <<q, s>>)
           n == SPos(i, <<q, s>>)
           x == QPos(i, <<q, s>>)
<1>1. /\ Byte(l, i, q, s) =
            LET array == IF k <= Len(l) THEN l[k] ELSE <<>>
                bytes == IF n <= Len(array) THEN array[n] ELSE <<>>
            IN  IF x <= Len(bytes) THEN bytes[x] ELSE junk
      /\ There(l, i, <<q, s>>) <=> Len(l) >= k /\ l[k] # <<>> /\ l[k][n] # <<>>
  BY DEF Byte, There
<1>2. k \in Nat \ {0} /\ n \in 1..s /\ x \in 1..q
  BY PlaceTypes
<1>3. Len(l) \in Nat /\ \A j \in 1..Len(l) : l[j] \in Arrays(q, s)
  BY ListEntries
<1>4. Len(<<>>) = 0
  BY EmptySeq
<1> HIDE DEF k, n, x
<1>5. ASSUME Len(l) >= k, l[k] # <<>>
      PROVE  /\ l[k] \in [1..s -> Quantums(q)] /\ Len(l[k]) = s
             /\ l[k][n] \in Quantums(q)
             /\ l[k][n] # <<>> => l[k][n] \in [1..q -> ByteSet] /\ Len(l[k][n]) = q
  <2>1. l[k] \in Arrays(q, s)
    BY <1>2, <1>3, <1>5
  <2>2. l[k] \in [1..s -> Quantums(q)] /\ Len(l[k]) = s
    BY <1>5, <2>1, NoBytesNull
  <2>3. l[k][n] \in Quantums(q)
    BY <1>2, <2>2
  <2> QED
    BY <2>2, <2>3, NoBytesNull
<1> DEFINE array == IF k <= Len(l) THEN l[k] ELSE <<>>
           bytes == IF n <= Len(array) THEN array[n] ELSE <<>>
<1>6. Byte(l, i, q, s) = IF x <= Len(bytes) THEN bytes[x] ELSE junk
  BY <1>1
<1>7. ASSUME Len(l) >= k, l[k] # <<>>
       PROVE  bytes = l[k][n]
  <2>1. array = l[k]
    BY <1>2, <1>3, <1>7
  <2> HIDE DEF array
  <2> QED
    BY <1>2, <1>5, <1>7, <2>1
<1> HIDE DEF bytes
<1>8. CASE Len(l) >= k /\ l[k] # <<>> /\ l[k][n] # <<>>
  <2>1. Byte(l, i, q, s) = l[k][n][x]
    BY <1>2, <1>5, <1>8, <1>6, <1>7
  <2> QED
    BY <1>1, <1>5, <1>8, <2>1 DEF k, n, x
<1>9. CASE Len(l) >= k /\ l[k] # <<>> /\ l[k][n] = <<>>
  <2>1. ~(x <= Len(bytes))
    BY <1>2, <1>4, <1>9, <1>7
  <2> QED
    BY <1>1, <1>9, <1>6, <2>1
<1>10. CASE ~(Len(l) >= k /\ l[k] # <<>>)
  <2>1. array = <<>>
    BY <1>2, <1>3, <1>10
  <2> HIDE DEF array
  <2>2. bytes = <<>>
    BY <1>2, <1>4, <2>1 DEF bytes
  <2>4. ~(x <= Len(bytes))
    BY <1>2, <1>4, <2>2
  <2> QED
    BY <1>1, <1>10, <1>6, <2>4
<1> QED
  BY <1>8, <1>9, <1>10

(* The same with names for the places.                                     *)
LEMMA ByteIsPlaced ==
  ASSUME NEW q \in Nat \ {0}, NEW s \in Nat \ {0}, NEW i \in Nat, NEW l \in Lists(q, s),
         NEW k, k = Item(i, <<q, s>>), NEW n, n = SPos(i, <<q, s>>),
         NEW y, y = QPos(i, <<q, s>>)
  PROVE  Byte(l, i, q, s) = IF There(l, i, <<q, s>>) THEN l[k][n][y] ELSE junk
  BY ByteIsThere

LEMMA ByteAtIsByte ==
  \A i : ByteAt(i) = Byte(items, i, quantum, qset)
  BY DEF ByteAt, Byte

(* A list that has grown has the same bytes.                               *)
LEMMA FollowedBytes ==
  ASSUME NEW q \in Nat \ {0}, NEW s \in Nat \ {0}, NEW i \in Nat,
         NEW l \in Lists(q, s), NEW m \in Lists(q, s), Follows(l, m)
  PROVE  Byte(m, i, q, s) = Byte(l, i, q, s)
<1> DEFINE k == Item(i, <<q, s>>)
<1>1. k \in Nat \ {0}
  BY PlaceTypes
<1>2. Len(l) \in Nat
  BY ListEntries
<1>3. There(m, i, <<q, s>>) <=> There(l, i, <<q, s>>)
  <2> HIDE DEF k
  <2>1. Len(m) >= k /\ m[k] # <<>> => Len(l) >= k
    BY <1>1, <1>2 DEF Follows
  <2>2. Len(l) >= k => Len(m) >= k /\ m[k] = l[k]
    BY <1>1, <1>2 DEF Follows
  <2> QED
    BY <2>1, <2>2 DEF There, k
<1>4. There(l, i, <<q, s>>) => m[k] = l[k]
  <2>1. There(l, i, <<q, s>>) => Len(l) >= k
    BY DEF There
  <2> HIDE DEF k
  <2> QED
    BY <1>1, <1>2, <2>1 DEF Follows
<1>5. CASE There(l, i, <<q, s>>)
  <2>1. There(m, i, <<q, s>>) /\ m[k] = l[k]
    BY <1>3, <1>4, <1>5
  <2>2. Byte(l, i, q, s) = l[k][SPos(i, <<q, s>>)][QPos(i, <<q, s>>)]
    BY <1>5, ByteIsThere
  <2>3. Byte(m, i, q, s) = m[k][SPos(i, <<q, s>>)][QPos(i, <<q, s>>)]
    BY <2>1, ByteIsThere
  <2> QED
    BY <2>1, <2>2, <2>3
<1>6. CASE ~There(l, i, <<q, s>>)
  <2>1. Byte(l, i, q, s) = junk
    BY <1>6, ByteIsThere
  <2>2. Byte(m, i, q, s) = junk
    BY <1>3, <1>6, ByteIsThere
  <2> QED
    BY <2>1, <2>2
<1> QED
  BY <1>5, <1>6

-----------------------------------------------------------------------------
(* Positions in one quantum, and storing bytes there.                      *)

Divided(i, d, k, r) ==
    i \in Nat /\ k \in Nat /\ r \in Nat /\ r < d /\ i = d * k + r

LEMMA QuotientIsUnique ==
  ASSUME NEW d \in Nat \ {0}, NEW k, NEW r, NEW i, Divided(i, d, k, r)
  PROVE  i \div d = k /\ i % d = r
<1> USE DEF Divided
<1> DEFINE a == i \div d
           x == i % d
<1>1. a \in Nat /\ x \in Nat /\ x < d /\ i = d * a + x
  BY Division
<1> HIDE DEF a, x
<1>2. ASSUME a > k
      PROVE  FALSE
  <2>1. d * a >= d * (k + 1)
    BY <1>1, <1>2, Z3
  <2>2. d * (k + 1) = d * k + d /\ d * k \in Int /\ d * a \in Int
    BY <1>1, Z3
  <2> QED
    BY <1>1, <2>1, <2>2
<1>3. ASSUME a < k
      PROVE  FALSE
  <2>1. d * k >= d * (a + 1)
    BY <1>1, <1>3, Z3
  <2>2. d * (a + 1) = d * a + d /\ d * k \in Int /\ d * a \in Int
    BY <1>1, Z3
  <2> QED
    BY <1>1, <2>1, <2>2
<1>4. a = k
  BY <1>1, <1>2, <1>3
<1>5. x = r
  <2>1. d * a = d * k /\ d * k \in Int
    BY <1>4
  <2> QED
    BY <1>1, <2>1
<1> QED
  BY <1>4, <1>5 DEF a, x

(* A position is made of its places.                                       *)
LEMMA PositionOfPlaces ==
  ASSUME NEW q \in Nat \ {0}, NEW s \in Nat \ {0}, NEW i \in Nat
  PROVE  i = (q * s) * (Item(i, <<q, s>>) - 1) + q * (SPos(i, <<q, s>>) - 1)
             + (QPos(i, <<q, s>>) - 1)
<1> DEFINE d == q * s
           r == i % d
           k == i \div d
           n == r \div q
           x == r % q
<1>1. d \in Nat \ {0}
  BY ProductIsPositive
<1> HIDE DEF d
<1>2. k \in Nat /\ r \in Nat /\ i = d * k + r
  BY <1>1, Division
<1> HIDE DEF r, k
<1>3. n \in Nat /\ x \in Nat /\ r = q * n + x
  BY <1>2, Division
<1>4. Item(i, <<q, s>>) = k + 1 /\ SPos(i, <<q, s>>) = n + 1 /\ QPos(i, <<q, s>>) = x + 1
  BY DEF Item, SPos, QPos, d, r, k
<1> HIDE DEF n, x
<1>5. d * k \in Int /\ q * n \in Int
  BY <1>1, <1>2, <1>3
<1>6. i = d * k + q * n + x
  BY <1>2, <1>3, <1>5
<1>7. (k + 1) - 1 = k /\ (n + 1) - 1 = n /\ (x + 1) - 1 = x
  BY <1>2, <1>3
<1> QED
  BY <1>4, <1>6, <1>7 DEF d

(* The positions of one quantum follow each other.                         *)
LEMMA SameQuantum ==
  ASSUME NEW q \in Nat \ {0}, NEW s \in Nat \ {0}, NEW x \in Nat, NEW t \in Nat,
         QPos(x, <<q, s>>) + t <= q
  PROVE  /\ Item(x + t, <<q, s>>) = Item(x, <<q, s>>)
         /\ SPos(x + t, <<q, s>>) = SPos(x, <<q, s>>)
         /\ QPos(x + t, <<q, s>>) = QPos(x, <<q, s>>) + t
<1> DEFINE d == q * s
           k == Item(x, <<q, s>>) - 1
           n == SPos(x, <<q, s>>) - 1
           y == QPos(x, <<q, s>>) - 1
           r == q * n + (y + t)
<1>1. d \in Nat \ {0}
  BY ProductIsPositive
<1>2. k \in Nat /\ n \in 0..(s - 1) /\ y \in 0..(q - 1) /\ y + t < q
  <2>1. /\ Item(x, <<q, s>>) \in Nat \ {0} /\ SPos(x, <<q, s>>) \in 1..s
        /\ QPos(x, <<q, s>>) \in 1..q
    BY PlaceTypes
  <2>2. k \in Nat /\ n \in 0..(s - 1)
    BY <2>1
  <2> QED
    BY <2>1, <2>2
<1>3. x = d * k + q * n + y
  BY PositionOfPlaces
<1>4. /\ Item(x, <<q, s>>) = k + 1 /\ SPos(x, <<q, s>>) = n + 1
      /\ QPos(x, <<q, s>>) = y + 1
  BY PlaceTypes
<1> HIDE DEF k, n, y
<1>5. q * n \in Nat /\ q * n + q <= d
  <2>1. q * n >= 0 /\ q * n + q <= q * s
    BY <1>2, Z3
  <2> QED
    BY <1>2, <2>1 DEF d
<1>6. d * k \in Int
  BY <1>1, <1>2
<1> HIDE DEF d
<1>7. r \in Nat /\ r < d /\ x + t = d * k + r
  BY <1>1, <1>2, <1>3, <1>5, <1>6
<1>8. (x + t) \div d = k /\ (x + t) % d = r
  <2> HIDE DEF r
  <2> QED
    BY <1>1, <1>2, <1>7, QuotientIsUnique DEF Divided
<1>9. r \div q = n /\ r % q = y + t
  <2> DEFINE w == y + t
  <2>1. n \in Nat /\ w \in Nat /\ w < q /\ r \in Nat
    BY <1>2, <1>7
  <2>2. r = q * n + w
    OBVIOUS
  <2> HIDE DEF r, w
  <2>3. r \div q = n /\ r % q = w
    BY <2>1, <2>2, QuotientIsUnique DEF Divided
  <2> QED
    BY <2>3 DEF w
<1> HIDE DEF r
<1>10. /\ Item(x + t, <<q, s>>) = k + 1
       /\ SPos(x + t, <<q, s>>) = n + 1
       /\ QPos(x + t, <<q, s>>) = (y + t) + 1
  <2>1. /\ Item(x + t, <<q, s>>) = ((x + t) \div d) + 1
        /\ SPos(x + t, <<q, s>>) = (((x + t) % d) \div q) + 1
        /\ QPos(x + t, <<q, s>>) = (((x + t) % d) % q) + 1
    BY DEF Item, SPos, QPos, d
  <2> QED
    BY <1>8, <1>9, <2>1
<1> QED
  BY <1>2, <1>4, <1>10

(* Other positions of the same quantum are at other bytes.                 *)
LEMMA SamePlaces ==
  ASSUME NEW q \in Nat \ {0}, NEW s \in Nat \ {0}, NEW x \in Nat, NEW i \in Nat,
         Item(i, <<q, s>>) = Item(x, <<q, s>>), SPos(i, <<q, s>>) = SPos(x, <<q, s>>)
  PROVE  i - x = QPos(i, <<q, s>>) - QPos(x, <<q, s>>)
<1> DEFINE u == (q * s) * (Item(x, <<q, s>>) - 1)
           v == q * (SPos(x, <<q, s>>) - 1)
<1>1. u \in Int /\ v \in Int
  <2>1. Item(x, <<q, s>>) - 1 \in Int /\ SPos(x, <<q, s>>) - 1 \in Int /\ q * s \in Int
    BY PlaceTypes
  <2> QED
    BY <2>1
<1>2. x = u + v + (QPos(x, <<q, s>>) - 1)
  BY PositionOfPlaces
<1>3. i = u + v + (QPos(i, <<q, s>>) - 1)
  BY PositionOfPlaces
<1>4. QPos(x, <<q, s>>) \in Int /\ QPos(i, <<q, s>>) \in Int
  BY PlaceTypes
<1> HIDE DEF u, v
<1> QED
  BY <1>1, <1>2, <1>3, <1>4

(* What is allocated for position x has no bytes yet.                      *)
LEMMA ArrayBytes ==
  ASSUME NEW q \in Nat \ {0}, NEW s \in Nat \ {0}, NEW x \in Nat, NEW i \in Nat,
         NEW l \in Lists(q, s), Item(x, <<q, s>>) <= Len(l)
  PROVE  Byte(WithArray(l, x, <<q, s>>), i, q, s) = Byte(l, i, q, s)
<1> DEFINE g == WithArray(l, x, <<q, s>>)
           k == Item(i, <<q, s>>)
           h == Item(x, <<q, s>>)
           n == SPos(i, <<q, s>>)
           y == QPos(i, <<q, s>>)
<1>1. /\ g \in Lists(q, s) /\ Len(g) = Len(l)
      /\ \A j \in 1..Len(l) : j # h => g[j] = l[j]
      /\ g[h] = IF l[h] = <<>> THEN [j \in 1..s |-> <<>>] ELSE l[h]
  <2>1. WithArrayAt(g, l, h, q, s)
    BY ArrayIsThere
  <2> QED
    BY <2>1 DEF WithArrayAt
<1>2. k \in Nat \ {0} /\ n \in 1..s /\ Len(l) \in Nat
  BY PlaceTypes, ListEntries
<1>3. /\ There(g, i, <<q, s>>) <=> Len(g) >= k /\ g[k] # <<>> /\ g[k][n] # <<>>
      /\ There(l, i, <<q, s>>) <=> Len(l) >= k /\ l[k] # <<>> /\ l[k][n] # <<>>
  BY DEF There
<1>4. /\ Byte(g, i, q, s) = IF There(g, i, <<q, s>>) THEN g[k][n][y] ELSE junk
      /\ Byte(l, i, q, s) = IF There(l, i, <<q, s>>) THEN l[k][n][y] ELSE junk
  BY <1>1, ByteIsPlaced
<1> HIDE DEF g, k, h, n, y
<1>5. CASE ~(k <= Len(l))
  BY <1>1, <1>2, <1>3, <1>4, <1>5 DEF g
<1>6. CASE k <= Len(l) /\ (k # h \/ l[h] # <<>>)
  <2>1. g[k] = l[k]
    BY <1>1, <1>2, <1>6
  <2> QED
    BY <1>1, <1>3, <1>4, <2>1 DEF g
<1>7. CASE k <= Len(l) /\ k = h /\ l[h] = <<>>
  <2>1. g[k][n] = <<>>
    BY <1>1, <1>2, <1>7
  <2> QED
    BY <1>3, <1>4, <1>7, <2>1 DEF g
<1> QED
  BY <1>5, <1>6, <1>7

HasArray(l, x, q, s) ==
    /\ l \in Lists(q, s) /\ Item(x, <<q, s>>) <= Len(l)
    /\ l[Item(x, <<q, s>>)] \in [1..s -> Quantums(q)]

LEMMA QuantumBytes ==
  ASSUME NEW q \in Nat \ {0}, NEW s \in Nat \ {0}, NEW x \in Nat, NEW i \in Nat,
         NEW l, HasArray(l, x, q, s)
  PROVE  Byte(WithQuantum(l, x, <<q, s>>), i, q, s) = Byte(l, i, q, s)
<1> DEFINE g == WithQuantum(l, x, <<q, s>>)
           k == Item(i, <<q, s>>)
           h == Item(x, <<q, s>>)
           n == SPos(i, <<q, s>>)
           o == SPos(x, <<q, s>>)
           y == QPos(i, <<q, s>>)
<1>0. /\ l \in Lists(q, s) /\ h <= Len(l)
      /\ l[h] \in [1..s -> Quantums(q)]
  BY DEF HasArray
<1>1. /\ g \in Lists(q, s) /\ Len(g) = Len(l)
      /\ \A j \in 1..Len(l) : j # h => g[j] = l[j]
      /\ g[h] \in [1..s -> Quantums(q)]
      /\ \A m \in 1..s : m # o => g[h][m] = l[h][m]
      /\ g[h][o] = IF l[h][o] = <<>> THEN [j \in 1..q |-> junk] ELSE l[h][o]
  <2>1. WithQuantumAt(g, l, h, o, q, s)
    BY <1>0, QuantumIsThere
  <2> QED
    BY <2>1 DEF WithQuantumAt
<1>2. k \in Nat \ {0} /\ n \in 1..s /\ y \in 1..q /\ Len(l) \in Nat
  BY <1>0, PlaceTypes, ListEntries
<1>3. /\ There(g, i, <<q, s>>) <=> Len(g) >= k /\ g[k] # <<>> /\ g[k][n] # <<>>
      /\ There(l, i, <<q, s>>) <=> Len(l) >= k /\ l[k] # <<>> /\ l[k][n] # <<>>
  BY DEF There
<1>4. /\ Byte(g, i, q, s) = IF There(g, i, <<q, s>>) THEN g[k][n][y] ELSE junk
      /\ Byte(l, i, q, s) = IF There(l, i, <<q, s>>) THEN l[k][n][y] ELSE junk
  BY <1>0, <1>1, ByteIsPlaced
<1>5. g[h] # <<>> /\ l[h] # <<>>
  <2>1. g[h] \in [1..s -> Quantums(q)] /\ l[h] \in [1..s -> Quantums(q)]
    BY <1>0, <1>1
  <2> HIDE DEF g, h
  <2> QED
    BY <2>1, NoBytesNull
<1> HIDE DEF g, k, h, n, o, y
<1>6. CASE ~(k <= Len(l))
  BY <1>1, <1>2, <1>3, <1>4, <1>6 DEF g
<1>7. CASE k <= Len(l) /\ k # h
  <2>1. g[k] = l[k]
    BY <1>1, <1>2, <1>7
  <2>2. There(g, i, <<q, s>>) <=> There(l, i, <<q, s>>)
    BY <1>1, <1>3, <2>1
  <2> QED
    BY <1>4, <2>1, <2>2 DEF g
<1>8. CASE k <= Len(l) /\ k = h /\ (n # o \/ l[h][o] # <<>>)
  <2>1. g[k][n] = l[k][n]
    BY <1>1, <1>2, <1>8
  <2>2. There(g, i, <<q, s>>) <=> There(l, i, <<q, s>>)
    BY <1>1, <1>3, <1>5, <1>8, <2>1
  <2> QED
    BY <1>4, <2>1, <2>2 DEF g
<1>9. CASE k <= Len(l) /\ k = h /\ n = o /\ l[h][o] = <<>>
  <2>1. g[k][n][y] = junk
    BY <1>1, <1>2, <1>9
  <2> QED
    BY <1>3, <1>4, <1>9, <2>1 DEF g
<1> QED
  BY <1>6, <1>7, <1>8, <1>9

(* The bytes b in the list from position x on, within one quantum.         *)
HasStored(g, l, x, b, q, s) ==
    /\ g \in Lists(q, s)
    /\ \A i \in Nat : Byte(g, i, q, s) = IF i \in x..(x + Len(b) - 1)
                                         THEN b[i - x + 1] ELSE Byte(l, i, q, s)

LEMMA BytesAreStored ==
  ASSUME NEW q \in Nat \ {0}, NEW s \in Nat \ {0}, NEW x \in Nat,
         NEW l \in Lists(q, s), There(l, x, <<q, s>>),
         NEW b \in Seq(ByteSet), QPos(x, <<q, s>>) + Len(b) - 1 <= q
  PROVE  HasStored(Stored(l, x, <<q, s>>, b), l, x, b, q, s)
<1> DEFINE g == Stored(l, x, <<q, s>>, b)
           h == Item(x, <<q, s>>)
           o == SPos(x, <<q, s>>)
           z == QPos(x, <<q, s>>)
           e == [j \in 1..q |-> IF j \in z..(z + Len(b) - 1)
                                THEN b[j - z + 1] ELSE l[h][o][j]]
<1>1. /\ Len(b) \in Nat /\ \A j \in 1..Len(b) : b[j] \in ByteSet
      /\ h \in Nat \ {0} /\ o \in 1..s /\ z \in 1..q /\ Len(l) \in Nat
  BY PlaceTypes, ListEntries, LenProperties
<1>2. l[h] \in [1..s -> Quantums(q)] /\ l[h][o] \in [1..q -> ByteSet]
  BY ByteIsThere
<1>3. h <= Len(l) /\ l[h] # <<>> /\ l[h][o] # <<>>
  BY DEF There
<1>4. g = Replaced(l, h, o, e)
  <2>1. DOMAIN l = 1..Len(l) /\ DOMAIN l[h] = 1..s /\ DOMAIN l[h][o] = 1..q
    BY <1>2, ListEntries
  <2>2. g = [l EXCEPT ![h][o] = [j \in DOMAIN l[h][o] |-> IF j \in z..(z + Len(b) - 1)
                                THEN b[j - z + 1] ELSE l[h][o][j]]]
    BY DEF Stored
  <2> QED
    BY <2>1, <2>2 DEF Replaced
<1>5. e \in [1..q -> ByteSet]
  <2> HIDE DEF h, o, z
  <2>1. \A j \in z..(z + Len(b) - 1) : b[j - z + 1] \in ByteSet
    BY <1>1
  <2> QED
    BY <1>2, <2>1
<1>6. \A j \in 1..q : e[j] = IF j \in z..(z + Len(b) - 1) THEN b[j - z + 1] ELSE l[h][o][j]
  OBVIOUS
<1> HIDE DEF g, h, o, z, e
<1>7. IsReplaced(g, q, s, l, h, o, e)
  <2>1. h \in 1..Len(l) /\ e \in Quantums(q)
    BY <1>1, <1>3, <1>5 DEF Quantums
  <2> QED
    BY <1>1, <1>2, <1>4, <2>1, QuantumReplaced
<1>8. g \in Lists(q, s) /\ Len(g) = Len(l) /\ g[h][o] = e /\ g[h] # <<>> /\ e # <<>>
  <2>1. /\ g \in Lists(q, s) /\ Len(g) = Len(l)
        /\ g[h] \in [1..s -> Quantums(q)]
        /\ \A m \in 1..s : g[h][m] = IF m = o THEN e ELSE l[h][m]
    BY <1>7 DEF IsReplaced
  <2>2. g[h][o] = e
    BY <1>1, <2>1
  <2>3. g[h] # <<>>
    BY <2>1, NoBytesNull
  <2>4. e # <<>>
    BY <1>5, NoBytesNull
  <2> QED
    BY <2>1, <2>2, <2>3, <2>4
<1>9. ASSUME NEW i \in Nat
      PROVE  Byte(g, i, q, s) = IF i \in x..(x + Len(b) - 1)
                                THEN b[i - x + 1] ELSE Byte(l, i, q, s)
  <2> DEFINE k == Item(i, <<q, s>>)
             n == SPos(i, <<q, s>>)
             y == QPos(i, <<q, s>>)
  <2>1. k \in Nat \ {0} /\ n \in 1..s /\ y \in 1..q
    BY PlaceTypes
  <2>2. /\ There(g, i, <<q, s>>) <=> Len(g) >= k /\ g[k] # <<>> /\ g[k][n] # <<>>
        /\ There(l, i, <<q, s>>) <=> Len(l) >= k /\ l[k] # <<>> /\ l[k][n] # <<>>
    BY DEF There
  <2>3. /\ Byte(g, i, q, s) = IF There(g, i, <<q, s>>) THEN g[k][n][y] ELSE junk
        /\ Byte(l, i, q, s) = IF There(l, i, <<q, s>>) THEN l[k][n][y] ELSE junk
    BY <1>8, ByteIsPlaced
  <2>4. i \in x..(x + Len(b) - 1) => k = h /\ n = o /\ y = z + (i - x)
    <3> SUFFICES ASSUME i \in x..(x + Len(b) - 1)
                 PROVE  k = h /\ n = o /\ y = z + (i - x)
      OBVIOUS
    <3> DEFINE t == i - x
    <3>1. t \in Nat /\ z + t <= q /\ i = x + t
      BY <1>1 DEF z
    <3> HIDE DEF t
    <3>2. /\ Item(x + t, <<q, s>>) = h /\ SPos(x + t, <<q, s>>) = o
          /\ QPos(x + t, <<q, s>>) = z + t
      BY <3>1, SameQuantum DEF h, o, z
    <3> QED
      BY <3>1, <3>2 DEF t
  <2>5. k = h /\ n = o => i - x = y - z
    BY SamePlaces DEF h, o, z
  <2> HIDE DEF k, n, y
  <2>6. CASE k = h /\ n = o
    <3>1. Byte(g, i, q, s) = e[y] /\ Byte(l, i, q, s) = l[h][o][y]
      BY <1>1, <1>3, <1>8, <2>2, <2>3, <2>6
    <3>2. i - x = y - z
      BY <2>5, <2>6
    <3>3. i \in x..(x + Len(b) - 1) <=> y \in z..(z + Len(b) - 1)
      BY <1>1, <2>1, <3>2
    <3>4. e[y] = IF y \in z..(z + Len(b) - 1) THEN b[y - z + 1] ELSE l[h][o][y]
      BY <1>6, <2>1
    <3> QED
      BY <3>1, <3>2, <3>3, <3>4
  <2>7. CASE ~(k = h /\ n = o)
    <3>1. ~(i \in x..(x + Len(b) - 1))
      BY <2>4, <2>7
    <3>2. Byte(g, i, q, s) = Byte(l, i, q, s)
      <4>1. k <= Len(l) /\ k # h => g[k] = l[k]
        BY <1>7, <2>1 DEF IsReplaced
      <4>2. k = h => g[k][n] = l[k][n] /\ g[k] # <<>> /\ l[k] # <<>> /\ k <= Len(l)
        BY <1>3, <1>7, <1>8, <2>1, <2>7 DEF IsReplaced
      <4> QED
        BY <1>1, <1>8, <2>1, <2>2, <2>3, <4>1, <4>2
    <3> QED
      BY <3>1, <3>2
  <2> QED
    BY <2>6, <2>7
<1> QED
  BY <1>8, <1>9 DEF g, HasStored

-----------------------------------------------------------------------------
(* The bytes of one call.                                                  *)

LEMMA MinIsLeast ==
  ASSUME NEW S, NEW m \in S, \A y \in S : m <= y
  PROVE  Min(S) \in S /\ \A y \in S : Min(S) <= y
<1> DEFINE P(x) == x \in S /\ \A y \in S : x =< y
<1>1. P(m)
  OBVIOUS
<1>2. Min(S) = CHOOSE x \in S : \A y \in S : x =< y
  BY DEF Min
<1> QED
  BY <1>1, <1>2

LEMMA MinOfTwo ==
  ASSUME NEW m \in Nat, NEW n \in Nat
  PROVE  Min({m, n}) \in Nat /\ Min({m, n}) <= m /\ Min({m, n}) <= n
<1>1. \E x \in {m, n} : \A y \in {m, n} : x <= y
  OBVIOUS
<1> QED
  BY <1>1, MinIsLeast

LEMMA MinOfThree ==
  ASSUME NEW m \in Nat, NEW n \in Nat, NEW o \in Nat
  PROVE  /\ Min({m, n, o}) \in Nat
         /\ Min({m, n, o}) <= m /\ Min({m, n, o}) <= n /\ Min({m, n, o}) <= o
<1>1. \E x \in {m, n, o} : \A y \in {m, n, o} : x <= y
  OBVIOUS
<1> QED
  BY <1>1, MinIsLeast

(* The state is well formed: the inductive invariant.  A call that has     *)
(* begun has the sizes of the device.                                      *)
DevSizes ==
    /\ scull_quantum \in Quanta /\ scull_qset \in Qsets
    /\ quantum \in Quanta /\ qset \in Qsets

DevList == items \in Lists(quantum, qset) /\ size \in Nat

DevFiles ==
    /\ mode \in [Procs -> SUBSET {"r", "w"}]
    /\ fpos \in [Procs -> Nat]
    /\ pc \in [Procs -> {"idle", "read", "write", "return"}]
    /\ call \in [Procs -> {<<>>} \cup (Quanta \X Qsets)]
    /\ got \in [Procs -> Seq(ByteSet)]

CallsFit ==
    \A p \in Procs : InCall(p) => call[p] = <<quantum, qset>> /\ fpos[p] <= MaxPos

DevInv == DevSizes /\ DevList /\ DevFiles /\ CallsFit

LEMMA SizesArePositive ==
  ASSUME DevSizes
  PROVE  quantum \in Nat \ {0} /\ qset \in Nat \ {0}
  BY SizesAssumption DEF DevSizes

LEMMA ListFollowed ==
  ASSUME DevSizes, DevList, NEW i \in Nat, NEW l \in scull_follow(Item(i, <<quantum, qset>>))
  PROVE  /\ l \in Lists(quantum, qset) /\ Follows(items, l)
         /\ \A j \in Nat : Byte(l, j, quantum, qset) = ByteAt(j)
<1>1. quantum \in Nat \ {0} /\ qset \in Nat \ {0} /\ items \in Lists(quantum, qset)
  BY SizesArePositive DEF DevList
<1>2. Item(i, <<quantum, qset>>) \in Nat
  BY <1>1, PlaceTypes
<1>3. l \in Lists(quantum, qset) /\ Follows(items, l)
  BY <1>1, <1>2, Followed
<1>4. \A j \in Nat : Byte(l, j, quantum, qset) = Byte(items, j, quantum, qset)
  BY <1>1, <1>3, FollowedBytes
<1> QED
  BY <1>3, <1>4, ByteAtIsByte

(* A write stores its bytes at its position and changes no other.          *)
LEMMA WrittenBytes ==
  ASSUME DevSizes, DevList, NEW p \in Procs, fpos[p] \in Nat, call[p] = <<quantum, qset>>,
         NEW b \in Seq(ByteSet), QPos(fpos[p], call[p]) + Len(b) - 1 <= quantum
  PROVE  /\ Written(p, b) \in Lists(quantum, qset)
         /\ \A i \in Nat : Byte(Written(p, b), i, quantum, qset) =
               IF i \in fpos[p]..(fpos[p] + Len(b) - 1) THEN b[i - fpos[p] + 1] ELSE ByteAt(i)
<1> DEFINE c == <<quantum, qset>>
           x == fpos[p]
           h == Item(x, c)
           l == CHOOSE y \in scull_follow(h) : Len(y) >= h
           m == WithArray(l, x, c)
           n == WithQuantum(m, x, c)
<1>1. quantum \in Nat \ {0} /\ qset \in Nat \ {0} /\ items \in Lists(quantum, qset)
  BY SizesArePositive DEF DevList
<1>2. h \in Nat \ {0} /\ SPos(x, c) \in 1..qset
  BY <1>1, PlaceTypes
<1>3. l \in scull_follow(h) /\ Len(l) >= h
  <2>1. \E y \in scull_follow(h) : Len(y) >= h
    BY <1>1, <1>2, FollowReaches
  <2> QED
    BY <2>1
<1>4. Written(p, b) = Stored(n, x, c, b)
  BY DEF Written
<1> HIDE DEF l
<1>5. l \in Lists(quantum, qset) /\ \A j \in Nat : Byte(l, j, quantum, qset) = ByteAt(j)
  BY <1>3, ListFollowed
<1>6. Len(l) \in Nat /\ h <= Len(l)
  BY <1>2, <1>3, <1>5, ListEntries
<1>7. /\ m \in Lists(quantum, qset) /\ Len(m) = Len(l)
      /\ m[h] \in [1..qset -> Quantums(quantum)]
  <2>1. WithArrayAt(m, l, h, quantum, qset)
    BY <1>1, <1>5, <1>6, ArrayIsThere
  <2> QED
    BY <2>1 DEF WithArrayAt
<1>8. \A j \in Nat : Byte(m, j, quantum, qset) = ByteAt(j)
  BY <1>1, <1>5, <1>6, ArrayBytes
<1> HIDE DEF m
<1>9. /\ n \in Lists(quantum, qset) /\ Len(n) = Len(l)
      /\ n[h] \in [1..qset -> Quantums(quantum)]
      /\ n[h][SPos(x, c)] \in [1..quantum -> ByteSet]
  <2>1. WithQuantumAt(n, m, h, SPos(x, c), quantum, qset)
    BY <1>1, <1>6, <1>7, QuantumIsThere
  <2> QED
    BY <1>7, <2>1 DEF WithQuantumAt
<1>10. ASSUME NEW j \in Nat
       PROVE  Byte(n, j, quantum, qset) = ByteAt(j)
  <2>1. h <= Len(m)
    BY <1>6, <1>7
  <2>2. HasArray(m, x, quantum, qset)
    BY <1>7, <2>1 DEF HasArray
  <2>3. Byte(n, j, quantum, qset) = Byte(m, j, quantum, qset)
    BY <1>1, <2>2, QuantumBytes
  <2> QED
    BY <1>8, <2>3
<1> HIDE DEF n
<1>11. There(n, x, c)
  <2>1. n[h] # <<>>
    <3> HIDE DEF h
    <3> QED
      BY <1>1, <1>9, NoBytesNull
  <2>2. n[h][SPos(x, c)] # <<>>
    BY <1>1, <1>9, NoBytesNull
  <2> QED
    BY <1>6, <1>9, <2>1, <2>2 DEF There
<1> DEFINE g == Stored(n, x, c, b)
<1>12. HasStored(g, n, x, b, quantum, qset)
  BY <1>1, <1>9, <1>11, BytesAreStored
<1>13. g = Written(p, b)
  BY <1>4
<1> HIDE DEF g
<1>14. \A i \in Nat : Byte(g, i, quantum, qset) = IF i \in x..(x + Len(b) - 1)
                                 THEN b[i - x + 1] ELSE ByteAt(i)
  BY <1>10, <1>12 DEF HasStored
<1> QED
  BY <1>12, <1>13, <1>14 DEF HasStored

-----------------------------------------------------------------------------
(* The inductive invariant, action by action.                              *)

(* What a call that follows the list may leave in it.                      *)
LEMMA CallFollows ==
  ASSUME DevInv, NEW p \in Procs, InCall(p), NEW l \in scull_follow(Item(fpos[p], call[p]))
  PROVE  /\ call[p] = <<quantum, qset>> /\ fpos[p] \in Nat /\ fpos[p] <= MaxPos
         /\ l \in Lists(quantum, qset) /\ Follows(items, l)
         /\ \A j \in Nat : Byte(l, j, quantum, qset) = ByteAt(j)
<1>1. call[p] = <<quantum, qset>> /\ fpos[p] \in Nat /\ fpos[p] <= MaxPos
  BY DEF DevInv, CallsFit, DevFiles
<1>2. l \in scull_follow(Item(fpos[p], <<quantum, qset>>))
  BY <1>1
<1> QED
  BY <1>1, <1>2, ListFollowed DEF DevInv

LEMMA RoomInCall ==
  ASSUME DevInv, NEW p \in Procs, InCall(p)
  PROVE  /\ QPos(fpos[p], <<quantum, qset>>) \in 1..quantum /\ Room(p) \in Nat
         /\ Room(p) = quantum - QPos(fpos[p], <<quantum, qset>>) + 1
<1>1. quantum \in Nat \ {0} /\ qset \in Nat \ {0}
  BY SizesArePositive DEF DevInv
<1>2. call[p] = <<quantum, qset>> /\ fpos[p] \in Nat
  BY DEF DevInv, CallsFit, DevFiles
<1>3. QPos(fpos[p], <<quantum, qset>>) \in 1..quantum
  BY <1>1, <1>2, PlaceTypes
<1> QED
  BY <1>1, <1>2, <1>3 DEF Room

HasWritten(g, p, k, w) ==
    /\ g \in Lists(quantum, qset)
    /\ \A i \in Nat : Byte(g, i, quantum, qset) =
          IF i \in fpos[p]..(fpos[p] + k - 1) THEN w[i - fpos[p] + 1] ELSE ByteAt(i)

(* A write's bytes are in one quantum.                                     *)
LEMMA CallWrites ==
  ASSUME DevInv, NEW p \in Procs, InCall(p), NEW b \in Seq(Data), NEW k,
         k = Min({Len(b), Room(p)}), NEW w \in [1..k -> Data]
  PROVE  HasWritten(Written(p, w), p, k, w)
<1>1. call[p] = <<quantum, qset>> /\ fpos[p] \in Nat /\ fpos[p] <= MaxPos
  BY DEF DevInv, CallsFit, DevFiles
<1>2. quantum \in Nat \ {0} /\ qset \in Nat \ {0} /\ DevSizes /\ DevList
  BY SizesArePositive DEF DevInv
<1>3. /\ QPos(fpos[p], <<quantum, qset>>) \in 1..quantum /\ Room(p) \in Nat
      /\ Room(p) = quantum - QPos(fpos[p], <<quantum, qset>>) + 1
  BY RoomInCall
<1>4. Len(b) \in Nat
  BY LenProperties
<1>5. k \in Nat /\ k <= Len(b) /\ k <= Room(p)
  BY <1>3, <1>4, MinOfTwo
<1>6. w \in Seq(ByteSet) /\ Len(w) = k
  <2>1. w \in [1..k -> ByteSet]
    BY DEF ByteSet
  <2> QED
    BY <1>5, <2>1, FunctionIsSeq
<1>7. QPos(fpos[p], call[p]) + Len(w) - 1 <= quantum
  BY <1>1, <1>2, <1>3, <1>5, <1>6
<1>8. /\ Written(p, w) \in Lists(quantum, qset)
      /\ \A i \in Nat : Byte(Written(p, w), i, quantum, qset) =
            IF i \in fpos[p]..(fpos[p] + Len(w) - 1) THEN w[i - fpos[p] + 1] ELSE ByteAt(i)
  BY <1>1, <1>2, <1>6, <1>7, WrittenBytes
<1> QED
  BY <1>6, <1>8 DEF HasWritten

LEMMA InitIsSound ==
  DevInit => DevInv
<1> SUFFICES ASSUME DevInit
             PROVE  DevInv
  OBVIOUS
<1>1. DevSizes
  BY SizesAssumption DEF DevInit, DevSizes
<1>2. DevList
  <2>1. <<>> \in Seq(Arrays(quantum, qset))
    BY EmptySeq
  <2> QED
    BY <2>1 DEF DevInit, DevList, Lists
<1>3. DevFiles
  <2>1. <<>> \in Seq(ByteSet)
    BY EmptySeq
  <2> QED
    BY <2>1 DEF DevInit, DevFiles
<1>4. CallsFit
  BY DEF DevInit, CallsFit, InCall
<1> QED
  BY <1>1, <1>2, <1>3, <1>4 DEF DevInv

(* The end of a call, wherever it leaves the position.                     *)
LEMMA EndIsSound ==
  ASSUME DevInv, NEW p \in Procs, End(p), UNCHANGED <<mode, got, quantum, qset>>,
         fpos' = fpos \/ \E k \in Nat : fpos' = [fpos EXCEPT ![p] = @ + k]
  PROVE  DevFiles' /\ CallsFit'
<1>1. fpos' \in [Procs -> Nat] /\ \A r \in Procs : r # p => fpos'[r] = fpos[r]
  BY DEF DevInv, DevFiles
<1>2. DevFiles'
  BY <1>1 DEF DevInv, DevFiles, End
<1>3. CallsFit'
  <2> SUFFICES ASSUME NEW r \in Procs, InCall(r)'
               PROVE  call'[r] = <<quantum', qset'>> /\ fpos'[r] <= MaxPos
    BY DEF CallsFit
  <2>1. r # p /\ InCall(r) /\ call'[r] = call[r]
    BY DEF DevInv, DevFiles, End, InCall
  <2> QED
    BY <1>1, <2>1 DEF DevInv, CallsFit
<1> QED
  BY <1>2, <1>3

(* The actions that leave the device and its list alone.                   *)
LEMMA FileStepsAreSound ==
  ASSUME DevInv, NEW p \in Procs,
         OpenOtherwise(p) \/ Close(p) \/ Llseek(p) \/ ReadCall(p) \/ WriteCall(p)
         \/ Interrupted(p) \/ Return(p) \/ ReadEnd(p)
  PROVE  DevInv'
<1> USE DeviceBoundsAssumption
<1>1. UNCHANGED <<device, globals>>
  BY DEF OpenOtherwise, Open, Close, Llseek, ReadCall, WriteCall, Begin, Interrupted, Return,
     ReadEnd
<1>2. DevSizes' /\ DevList'
  BY <1>1 DEF DevInv, DevSizes, DevList, device, globals
<1>3. CASE OpenOtherwise(p)
  <2>0. PICK m \in SUBSET {"r", "w"} : Open(p, m)
    BY <1>3 DEF OpenOtherwise
  <2>1. DevFiles' /\ CallsFit'
    BY <1>1, <2>0 DEF Open, DevInv, DevFiles, CallsFit, InCall, device
  <2> QED
    BY <1>2, <2>1 DEF DevInv
<1>4. CASE Close(p)
  <2>1. DevFiles'
    BY <1>4 DEF Close, DevInv, DevFiles
  <2>2. CallsFit'
    BY <1>1, <1>4 DEF Close, DevInv, DevFiles, CallsFit, InCall, device
  <2> QED
    BY <1>2, <2>1, <2>2 DEF DevInv
<1>5. CASE Llseek(p)
  <2>1. PICK i \in 0..MaxPos : fpos' = [fpos EXCEPT ![p] = i]
    BY <1>5 DEF Llseek
  <2>2. DevFiles'
    BY <1>5, <2>1 DEF Llseek, DevInv, DevFiles
  <2>3. CallsFit'
    BY <1>1, <1>5, <2>1 DEF Llseek, DevInv, DevFiles, CallsFit, InCall, device
  <2> QED
    BY <1>2, <2>2, <2>3 DEF DevInv
<1>6. CASE ReadCall(p) \/ WriteCall(p)
  <2>1. PICK op \in {"read", "write"} : Begin(p, op)
    BY <1>6 DEF ReadCall, WriteCall
  <2>2. DevFiles'
    BY <2>1 DEF Begin, Look, DevInv, DevSizes, DevFiles
  <2>3. CallsFit'
    BY <1>1, <2>1 DEF Begin, Look, DevInv, DevFiles, CallsFit, InCall, device
  <2> QED
    BY <1>2, <2>2, <2>3 DEF DevInv
<1>7. CASE Interrupted(p) \/ ReadEnd(p)
  <2>1. End(p) /\ UNCHANGED <<mode, fpos, got, quantum, qset>>
    BY <1>1, <1>7 DEF Interrupted, ReadEnd, device
  <2> QED
    BY <1>2, <2>1, EndIsSound DEF DevInv
<1>8. CASE Return(p)
  <2>1. <<>> \in Seq(ByteSet)
    BY EmptySeq
  <2>2. DevFiles'
    BY <1>8, <2>1 DEF Return, End, DevInv, DevFiles
  <2>3. CallsFit'
    BY <1>1, <1>8 DEF Return, End, DevInv, DevFiles, CallsFit, InCall, device
  <2> QED
    BY <1>2, <2>2, <2>3 DEF DevInv
<1> QED
  BY <1>3, <1>4, <1>5, <1>6, <1>7, <1>8

LEMMA SizeStepsAreSound ==
  ASSUME DevInv, SetQuantum \/ SetQset \/ Reset
  PROVE  DevInv'
<1>1. UNCHANGED <<device, files>>
  BY DEF SetQuantum, SetQset, Reset
<1>2. DevSizes'
  BY <1>1, SizesAssumption DEF SetQuantum, SetQset, Reset, DevInv, DevSizes, device
<1>3. DevList' /\ DevFiles' /\ CallsFit'
  BY <1>1 DEF DevInv, DevList, DevFiles, CallsFit, InCall, device, files
<1> QED
  BY <1>2, <1>3 DEF DevInv

LEMMA TrimIsSound ==
  ASSUME DevInv, SizesKeep, NEW p \in Procs, OpenToWrite(p)
  PROVE  DevInv'
<1>1. DevSizes'
  BY DEF OpenToWrite, Open, scull_trim, globals, DevInv, DevSizes
<1>2. DevList'
  <2>1. <<>> \in Seq(Arrays(quantum', qset'))
    BY EmptySeq
  <2> QED
    BY <2>1 DEF OpenToWrite, scull_trim, DevList, Lists
<1>3. DevFiles'
  BY DEF OpenToWrite, Open, DevInv, DevFiles
<1>4. CallsFit'
  <2> SUFFICES ASSUME NEW r \in Procs, InCall(r)'
               PROVE  call'[r] = <<quantum', qset'>> /\ fpos'[r] <= MaxPos
    BY DEF CallsFit
  <2>1. InCall(r) /\ UNCHANGED <<call, fpos>>
    BY DEF OpenToWrite, Open, InCall
  <2>2. quantum' = quantum /\ qset' = qset
    <3>1. CASE LateTrim = FALSE
      BY <2>1, <3>1 DEF OpenToWrite, scull_trim, globals
    <3>2. CASE Quanta = {DefQuantum} /\ Qsets = {DefQset}
      BY <1>1, <3>2 DEF DevInv, DevSizes
    <3> QED
      BY <3>1, <3>2 DEF SizesKeep
  <2> QED
    BY <2>1, <2>2 DEF DevInv, CallsFit
<1> QED
  BY <1>1, <1>2, <1>3, <1>4 DEF DevInv

(* The list and its bytes after a step.                                    *)
SameBytes ==
    /\ UNCHANGED <<quantum, qset>>
    /\ items' \in Lists(quantum, qset)
    /\ \A j \in Nat : Byte(items', j, quantum, qset) = ByteAt(j)

LEMMA ReadsKeepBytes ==
  ASSUME DevInv, NEW p \in Procs,
         ReadHole(p) \/ ReadFault(p) \/ (\E n \in 0..MaxCount : ReadCopy(p, n))
  PROVE  SameBytes /\ UNCHANGED size
<1>1. /\ pc[p] = "read" /\ items' \in scull_follow(Item(fpos[p], call[p]))
      /\ UNCHANGED <<quantum, qset, size>>
  BY DEF ReadHole, ReadFault, ReadCopy
<1>2. InCall(p)
  BY <1>1 DEF InCall
<1> QED
  BY <1>1, <1>2, CallFollows DEF SameBytes

LEMMA NoMemoryKeepsBytes ==
  ASSUME DevInv, NEW p \in Procs, WriteNoMemory(p)
  PROVE  SameBytes /\ UNCHANGED size
<1> DEFINE k == Item(fpos[p], call[p])
<1>1. PICK l \in scull_follow(k) :
          \/ Len(l) < k /\ items' = l
          \/ Len(l) >= k /\ items' \in {l, WithArray(l, fpos[p], call[p])}
  BY DEF WriteNoMemory
<1>2. InCall(p) /\ UNCHANGED <<quantum, qset, size>>
  BY DEF WriteNoMemory, InCall
<1>3. /\ call[p] = <<quantum, qset>> /\ fpos[p] \in Nat
      /\ l \in Lists(quantum, qset) /\ \A j \in Nat : Byte(l, j, quantum, qset) = ByteAt(j)
  BY <1>2, CallFollows
<1>4. quantum \in Nat \ {0} /\ qset \in Nat \ {0}
  BY SizesArePositive DEF DevInv
<1>5. CASE items' = l
  BY <1>2, <1>3, <1>5 DEF SameBytes
<1>6. CASE Len(l) >= k /\ items' = WithArray(l, fpos[p], call[p])
  <2> DEFINE g == WithArray(l, fpos[p], <<quantum, qset>>)
             h == Item(fpos[p], <<quantum, qset>>)
  <2>1. items' = g /\ h <= Len(l)
    <3>1. Len(l) \in Nat /\ h \in Nat
      BY <1>3, <1>4, ListEntries, PlaceTypes
    <3> QED
      BY <1>3, <1>6, <3>1
  <2>2. g \in Lists(quantum, qset)
    <3>1. WithArrayAt(g, l, h, quantum, qset)
      BY <1>3, <1>4, <2>1, ArrayIsThere
    <3> QED
      BY <3>1 DEF WithArrayAt
  <2>3. ASSUME NEW j \in Nat
        PROVE  Byte(g, j, quantum, qset) = ByteAt(j)
    <3>1. Byte(g, j, quantum, qset) = Byte(l, j, quantum, qset)
      BY <1>3, <1>4, <2>1, ArrayBytes
    <3> QED
      BY <1>3, <3>1
  <2> HIDE DEF g
  <2> QED
    BY <1>2, <2>1, <2>2, <2>3 DEF SameBytes
<1> QED
  BY <1>1, <1>5, <1>6

(* A write or a failing write: k bytes of w at the position of the call.   *)
WriteStores(p, k, w) ==
    /\ UNCHANGED <<quantum, qset>>
    /\ k \in 0..MaxCount /\ w \in [1..k -> Data]
    /\ items' \in Lists(quantum, qset)
    /\ \A i \in Nat : Byte(items', i, quantum, qset) =
          IF i \in fpos[p]..(fpos[p] + k - 1) THEN w[i - fpos[p] + 1] ELSE ByteAt(i)

MovesOn(p, k) == fpos' = [fpos EXCEPT ![p] = @ + k]

LEMMA InputTypes ==
  ASSUME NEW b \in Inputs
  PROVE  b \in Seq(Data) /\ Len(b) \in 0..MaxCount
<1>1. PICK n \in 0..MaxCount : b \in [1..n -> Data]
  BY DEF Inputs
<1>2. n \in Nat
  BY DeviceBoundsAssumption
<1> QED
  BY <1>1, <1>2, FunctionIsSeq

LEMMA WriteCopyStores ==
  ASSUME DevInv, NEW p \in Procs, NEW b \in Inputs, WriteCopy(p, b)
  PROVE  \E k \in Nat : MovesOn(p, k) /\ \E w : WriteStores(p, k, w)
<1> DEFINE k == Min({Len(b), Room(p)})
           w == SubSeq(b, 1, k)
<1>1. b \in Seq(Data) /\ Len(b) \in 0..MaxCount
  BY InputTypes
<1>2. InCall(p) /\ UNCHANGED <<quantum, qset>>
  BY DEF WriteCopy, InCall
<1>3. items' = Written(p, w) /\ MovesOn(p, k) /\ k = Min({Len(b), Room(p)})
  BY DEF WriteCopy, MovesOn
<1>4. k \in Nat /\ k <= Len(b)
  <2>1. Len(b) \in Nat
    BY <1>1
  <2> QED
    BY <1>2, <2>1, RoomInCall, MinOfTwo
<1> HIDE DEF k
<1>5. w \in [1..k -> Data]
  <2>1. \A j \in 1..k : b[j] \in Data
    BY <1>1, <1>4, LenProperties
  <2>2. w \in Seq(Data) /\ Len(w) = k
    BY <1>4, <2>1, SubSeqProperties
  <2> QED
    BY <2>2, LenProperties
<1> HIDE DEF w
<1>6. HasWritten(Written(p, w), p, k, w)
  BY <1>1, <1>2, <1>3, <1>5, CallWrites
<1>7. k \in 0..MaxCount
  BY <1>1, <1>4, DeviceBoundsAssumption
<1>8. WriteStores(p, k, w)
  BY <1>2, <1>3, <1>5, <1>6, <1>7 DEF WriteStores, HasWritten, w
<1>9. \E v : WriteStores(p, k, v)
  BY <1>8
<1> QED
  BY <1>3, <1>4, <1>9 DEF MovesOn

(* What a read copies: bytes of one quantum, all below the size.           *)
ReadLength(p, n) == Min({n, size - fpos[p], Room(p)})

ReadBytes(p, k) ==
    SubSeq(items'[Item(fpos[p], call[p])][SPos(fpos[p], call[p])],
           QPos(fpos[p], call[p]), QPos(fpos[p], call[p]) + k - 1)

LEMMA ReadIsInside ==
  ASSUME DevInv, NEW p \in Procs, NEW n \in 0..MaxCount, ReadCopy(p, n)
  PROVE  LET k == ReadLength(p, n)
             r == ReadBytes(p, k)
         IN  /\ k \in 0..MaxCount /\ k \in Nat /\ fpos[p] + k <= size
             /\ r \in Seq(ByteSet) /\ Len(r) = k
             /\ \A i \in 1..k : r[i] = ByteAt(fpos[p] + i - 1)
<1> DEFINE x == fpos[p]
           c == <<quantum, qset>>
           h == Item(x, c)
           o == SPos(x, c)
           z == QPos(x, c)
           k == ReadLength(p, n)
           t == items'[h][o]
           r == ReadBytes(p, k)
<1>1. InCall(p) /\ pc[p] = "read" /\ ~AtEnd(p) /\ There(items', x, call[p])
  BY DEF ReadCopy, InCall
<1>2. /\ call[p] = c /\ x \in Nat /\ size \in Nat /\ x < size
      /\ quantum \in Nat \ {0} /\ qset \in Nat \ {0}
  BY <1>1, SizesArePositive DEF DevInv, CallsFit, DevFiles, DevList, AtEnd
<1>3. SameBytes
  BY ReadsKeepBytes
<1>4. Room(p) = quantum - z + 1 /\ Room(p) \in Nat /\ z \in 1..quantum
  BY <1>1, RoomInCall
<1>5. k \in Nat /\ k <= n /\ k <= size - x /\ k <= Room(p) /\ n \in Nat
  <2>1. n \in Nat /\ size - x \in Nat
    BY <1>2, DeviceBoundsAssumption
  <2> QED
    BY <1>4, <2>1, MinOfThree DEF ReadLength
<1>6. t \in [1..quantum -> ByteSet]
  <2>1. There(items', x, c) /\ items' \in Lists(quantum, qset)
    BY <1>1, <1>2, <1>3 DEF SameBytes
  <2> QED
    BY <1>2, <2>1, ByteIsThere
<1>7. r = SubSeq(t, z, z + k - 1)
  BY <1>2 DEF ReadBytes
<1>8. ASSUME NEW i \in 1..k
      PROVE  t[z + i - 1] = ByteAt(x + i - 1)
  <2> DEFINE d == i - 1
  <2>1. d \in Nat /\ z + d <= quantum
    BY <1>2, <1>4, <1>5
  <2> HIDE DEF d
  <2>2. /\ Item(x + d, c) = h /\ SPos(x + d, c) = o /\ QPos(x + d, c) = z + d
    BY <1>2, <2>1, SameQuantum
  <2>3. There(items', x + d, c) /\ items' \in Lists(quantum, qset)
    BY <1>1, <1>2, <1>3, <2>2 DEF There, SameBytes
  <2>4. x + d \in Nat
    BY <1>2, <2>1
  <2>5. Byte(items', x + d, quantum, qset) = t[z + d]
    BY <1>2, <2>2, <2>3, <2>4, ByteIsPlaced
  <2>6. Byte(items', x + d, quantum, qset) = ByteAt(x + d)
    BY <1>3, <2>4 DEF SameBytes
  <2>7. x + d = x + i - 1 /\ z + d = z + i - 1
    BY <1>2, <1>4 DEF d
  <2> QED
    BY <2>5, <2>6, <2>7
<1> HIDE DEF k, t, x, c, h, o, z
<1>9. \A i \in z..(z + k - 1) : t[i] \in ByteSet
  <2>1. \A i \in z..(z + k - 1) : i \in 1..quantum
    BY <1>2, <1>4, <1>5
  <2> QED
    BY <1>6, <2>1
<1>10. /\ SubSeq(t, z, z + k - 1) \in Seq(ByteSet)
       /\ Len(SubSeq(t, z, z + k - 1)) = IF z <= z + k - 1 THEN (z + k - 1) - z + 1 ELSE 0
       /\ \A i \in 1..((z + k - 1) - z + 1) : SubSeq(t, z, z + k - 1)[i] = t[z + i - 1]
  <2>1. z \in Int /\ z + k - 1 \in Int
    BY <1>4, <1>5
  <2> QED
    BY <1>9, <2>1, SubSeqProperties
<1>11. (z + k - 1) - z + 1 = k /\ (z <= z + k - 1 <=> k > 0)
  BY <1>4, <1>5
<1> HIDE DEF r
<1>12. r \in Seq(ByteSet) /\ Len(r) = k /\ \A i \in 1..k : r[i] = ByteAt(x + i - 1)
  BY <1>5, <1>7, <1>8, <1>10, <1>11
<1>13. k \in 0..MaxCount /\ x + k <= size
  BY <1>2, <1>5, DeviceBoundsAssumption
<1> QED
  BY <1>5, <1>12, <1>13 DEF r, k, x

LEMMA WriteFaultStores ==
  ASSUME DevInv, NEW p \in Procs, NEW b \in Inputs, WriteFault(p, b)
  PROVE  \E k \in Nat : \E w : WriteStores(p, k, w)
<1> DEFINE k == Min({Len(b), Room(p)})
<1>1. PICK done \in 0..(k - 1) :
          items' = Written(p, [j \in 1..k |-> IF j <= done THEN b[j] ELSE Zero])
  BY DEF WriteFault
<1> DEFINE w == [j \in 1..k |-> IF j <= done THEN b[j] ELSE Zero]
<1>2. InCall(p) /\ UNCHANGED <<quantum, qset>>
  BY DEF WriteFault, InCall
<1>3. items' = Written(p, w) /\ k = Min({Len(b), Room(p)})
  BY <1>1
<1>4. b \in Seq(Data) /\ Len(b) \in 0..MaxCount
  BY InputTypes
<1>5. k \in Nat /\ k <= Len(b)
  <2>1. Len(b) \in Nat
    BY <1>4
  <2> QED
    BY <1>2, <2>1, RoomInCall, MinOfTwo
<1> HIDE DEF k
<1>6. w \in [1..k -> Data]
  <2>1. \A j \in 1..k : b[j] \in Data
    BY <1>4, <1>5, LenProperties
  <2> QED
    BY <2>1, DataAssumption
<1> HIDE DEF w
<1>7. HasWritten(Written(p, w), p, k, w)
  BY <1>2, <1>3, <1>4, <1>6, CallWrites
<1>8. k \in 0..MaxCount
  BY <1>4, <1>5, DeviceBoundsAssumption
<1>9. WriteStores(p, k, w)
  BY <1>2, <1>3, <1>6, <1>7, <1>8 DEF WriteStores, HasWritten
<1> QED
  BY <1>5, <1>9

(* The actions that may change the list.                                   *)
LEMMA ReadsAreSound ==
  ASSUME DevInv, NEW p \in Procs,
         ReadHole(p) \/ ReadFault(p) \/ (\E n \in 0..MaxCount : ReadCopy(p, n))
  PROVE  DevInv'
<1>1. SameBytes /\ UNCHANGED size
  BY ReadsKeepBytes
<1>2. UNCHANGED globals
  BY DEF ReadHole, ReadFault, ReadCopy
<1>3. DevSizes' /\ DevList'
  BY <1>1, <1>2 DEF SameBytes, globals, DevInv, DevSizes, DevList
<1>4. CASE ReadHole(p) \/ ReadFault(p)
  <2>1. End(p) /\ UNCHANGED <<mode, fpos, got, quantum, qset>>
    BY <1>4 DEF ReadHole, ReadFault
  <2> QED
    BY <1>3, <2>1, EndIsSound DEF DevInv
<1>5. CASE \E n \in 0..MaxCount : ReadCopy(p, n)
  <2>1. PICK n \in 0..MaxCount : ReadCopy(p, n)
    BY <1>5
  <2> DEFINE c == call[p]
             k == Min({n, size - fpos[p], Room(p)})
             t == items'[Item(fpos[p], c)][SPos(fpos[p], c)]
             r == SubSeq(t, QPos(fpos[p], c), QPos(fpos[p], c) + k - 1)
  <2>2. /\ got' = [got EXCEPT ![p] = r] /\ fpos' = [fpos EXCEPT ![p] = @ + k]
        /\ pc' = [pc EXCEPT ![p] = "return"] /\ call' = [call EXCEPT ![p] = <<>>]
        /\ UNCHANGED <<mode, quantum, qset>>
    BY <2>1 DEF ReadCopy
  <2>3. k \in Nat /\ r \in Seq(ByteSet)
    BY <2>1, ReadIsInside DEF ReadLength, ReadBytes
  <2> HIDE DEF k, r
  <2>4. DevFiles'
    BY <2>2, <2>3 DEF DevInv, DevFiles
  <2>5. CallsFit'
    <3> SUFFICES ASSUME NEW u \in Procs, InCall(u)'
                 PROVE  call'[u] = <<quantum', qset'>> /\ fpos'[u] <= MaxPos
      BY DEF CallsFit
    <3>1. u # p /\ InCall(u) /\ call'[u] = call[u] /\ fpos'[u] = fpos[u]
      BY <2>2, <2>3 DEF DevInv, DevFiles, InCall
    <3> QED
      BY <2>2, <3>1 DEF DevInv, CallsFit
  <2> QED
    BY <1>3, <2>4, <2>5 DEF DevInv
<1> QED
  BY <1>4, <1>5

LEMMA WritesAreSound ==
  ASSUME DevInv, NEW p \in Procs,
         WriteNoMemory(p) \/ (\E b \in Inputs : WriteCopy(p, b) \/ WriteFault(p, b))
  PROVE  DevInv'
<1>1. CASE WriteNoMemory(p)
  <2>1. SameBytes /\ UNCHANGED size
    BY <1>1, NoMemoryKeepsBytes
  <2>2. End(p) /\ UNCHANGED <<mode, fpos, got, quantum, qset, globals>>
    BY <1>1 DEF WriteNoMemory
  <2>3. DevSizes' /\ DevList'
    BY <2>1, <2>2 DEF SameBytes, globals, DevInv, DevSizes, DevList
  <2> QED
    BY <2>2, <2>3, EndIsSound DEF DevInv
<1>2. ASSUME NEW b \in Inputs, WriteCopy(p, b)
      PROVE  DevInv'
  <2>1. PICK k \in Nat : MovesOn(p, k) /\ \E w : WriteStores(p, k, w)
    BY <1>2, WriteCopyStores
  <2>2. End(p) /\ UpdateSize(p) /\ UNCHANGED <<mode, got, quantum, qset, globals>>
    BY <1>2 DEF WriteCopy
  <2>3. items' \in Lists(quantum, qset)
    BY <2>1 DEF WriteStores
  <2>4. fpos' \in [Procs -> Nat]
    BY <2>1 DEF MovesOn, DevInv, DevFiles
  <2>5. DevSizes' /\ DevList'
    BY <2>2, <2>3, <2>4 DEF UpdateSize, globals, DevInv, DevSizes, DevList
  <2> QED
    BY <2>1, <2>2, <2>5, EndIsSound DEF DevInv, MovesOn
<1>3. ASSUME NEW b \in Inputs, WriteFault(p, b)
      PROVE  DevInv'
  <2>1. PICK k \in Nat : \E w : WriteStores(p, k, w)
    BY <1>3, WriteFaultStores
  <2>2. End(p) /\ UNCHANGED <<mode, fpos, got, quantum, qset, size, globals>>
    BY <1>3 DEF WriteFault
  <2>3. items' \in Lists(quantum, qset)
    BY <2>1 DEF WriteStores
  <2>4. DevSizes' /\ DevList'
    BY <2>2, <2>3 DEF globals, DevInv, DevSizes, DevList
  <2> QED
    BY <2>2, <2>4, EndIsSound DEF DevInv
<1> QED
  BY <1>1, <1>2, <1>3

LEMMA StepIsSound ==
  ASSUME SizesKeep, DevInv, [DevNext]_devVars
  PROVE  DevInv'
<1>1. CASE SetQuantum \/ SetQset \/ Reset
  BY <1>1, SizeStepsAreSound
<1>2. ASSUME NEW p \in Procs, OpenToWrite(p)
      PROVE  DevInv'
  BY <1>2, TrimIsSound
<1>3. ASSUME NEW p \in Procs,
             OpenOtherwise(p) \/ Close(p) \/ Llseek(p) \/ ReadCall(p) \/ WriteCall(p)
             \/ Interrupted(p) \/ Return(p) \/ ReadEnd(p)
      PROVE  DevInv'
  BY <1>3, FileStepsAreSound
<1>4. ASSUME NEW p \in Procs,
             ReadHole(p) \/ ReadFault(p) \/ (\E n \in 0..MaxCount : ReadCopy(p, n))
      PROVE  DevInv'
  BY <1>4, ReadsAreSound
<1>5. ASSUME NEW p \in Procs,
             WriteNoMemory(p) \/ (\E b \in Inputs : WriteCopy(p, b) \/ WriteFault(p, b))
      PROVE  DevInv'
  BY <1>5, WritesAreSound
<1>6. CASE UNCHANGED devVars
  BY <1>6 DEF devVars, DevInv, DevSizes, DevList, DevFiles, CallsFit, InCall
<1> QED
  BY <1>1, <1>2, <1>3, <1>4, <1>5, <1>6 DEF DevNext

LEMMA DeviceIsSound ==
  ASSUME SizesKeep
  PROVE  DevSpec => []DevInv
<1>1. DevInv /\ [DevNext]_devVars => DevInv'
  BY StepIsSound
<1> QED
  BY <1>1, InitIsSound, PTL DEF DevSpec

-----------------------------------------------------------------------------
LEMMA ShapeOfLists ==
  DevInv => ShapeSound
<1> SUFFICES ASSUME DevInv, NEW i \in 1..Len(items), items[i] # <<>>
             PROVE  /\ Len(items[i]) = qset
                    /\ \A j \in 1..qset : items[i][j] # <<>> => Len(items[i][j]) = quantum
  BY DEF ShapeSound
<1>1. quantum \in Nat \ {0} /\ qset \in Nat \ {0} /\ items[i] \in Arrays(quantum, qset)
  BY SizesArePositive, ListEntries DEF DevInv, DevList
<1>2. items[i] \in [1..qset -> Quantums(quantum)] /\ Len(items[i]) = qset
  BY <1>1, NoBytesNull
<1> QED
  BY <1>1, <1>2, NoBytesNull

LEMMA AccessOfCalls ==
  DevInv => AccessInBounds
<1> SUFFICES ASSUME DevInv, NEW p \in Procs, InCall(p),
                    Item(fpos[p], call[p]) <= Len(items),
                    items[Item(fpos[p], call[p])] # <<>>
             PROVE  LET c == call[p]
                        i == fpos[p]
                    IN  /\ SPos(i, c) <= Len(items[Item(i, c)])
                        /\ items[Item(i, c)][SPos(i, c)] # <<>> =>
                               c[1] <= Len(items[Item(i, c)][SPos(i, c)])
  BY DEF AccessInBounds
<1>1. quantum \in Nat \ {0} /\ qset \in Nat \ {0} /\ ShapeSound
  BY SizesArePositive, ShapeOfLists DEF DevInv
<1>2. call[p] = <<quantum, qset>> /\ fpos[p] \in Nat
  BY DEF DevInv, CallsFit, DevFiles
<1> DEFINE k == Item(fpos[p], call[p])
           n == SPos(fpos[p], call[p])
<1>3. k \in 1..Len(items) /\ n \in 1..qset
  <2>1. k \in Nat \ {0} /\ n \in 1..qset
    BY <1>1, <1>2, PlaceTypes
  <2>2. Len(items) \in Nat
    BY ListEntries DEF DevInv, DevList
  <2> QED
    BY <2>1, <2>2
<1>4. call[p][1] = quantum
  BY <1>2
<1> HIDE DEF k, n
<1>5. /\ items[k] # <<>>
      /\ Len(items[k]) = qset /\ (items[k][n] # <<>> => Len(items[k][n]) = quantum)
  <2>1. items[k] # <<>>
    BY DEF k
  <2> QED
    BY <1>1, <1>3, <2>1 DEF ShapeSound
<1>6. n <= Len(items[k]) /\ (items[k][n] # <<>> => call[p][1] <= Len(items[k][n]))
  BY <1>1, <1>3, <1>4, <1>5
<1> QED
  BY <1>6 DEF k, n

(* In every reachable state of the device the arrays are qset long and the *)
(* quantums quantum bytes: what scull_trim frees is what was allocated     *)
(* (main.c:63-83), if no open for writing changes the sizes under a call.  *)
THEOREM ShapesStaySound ==
  ASSUME SizesKeep
  PROVE  DevSpec => []ShapeSound
<1> QED
  BY DeviceIsSound, ShapeOfLists, PTL

(* Under the same condition no call touches memory outside of the array    *)
(* and the quantum at its position (main.c:300-322, 344-371), although it  *)
(* computed its places before it had the semaphore.                        *)
THEOREM AccessesAreInBounds ==
  ASSUME SizesKeep
  PROVE  DevSpec => []AccessInBounds
<1> QED
  BY DeviceIsSound, AccessOfCalls, PTL

-----------------------------------------------------------------------------
(* The device implements bytes at positions.                               *)

Positions == 0..(MaxPos + MaxCount - 1)
Content == [i \in Positions |-> ByteAt(i)]

LEMMA PositionTypes ==
  \A i \in Positions : i \in Nat
  BY DEF Positions

LEMMA ContentNext ==
  /\ Content' = [i \in Positions |-> Byte(items', i, quantum', qset')]
  /\ Content = [i \in Positions |-> ByteAt(i)]
  BY DEF Content, ByteAt, Byte

LEMMA SameContent ==
  ASSUME SameBytes \/ UNCHANGED device
  PROVE  Content' = Content
<1>1. CASE SameBytes
  <2>1. \A i \in Positions : Byte(items', i, quantum', qset') = ByteAt(i)
    BY <1>1, PositionTypes DEF SameBytes
  <2> QED
    BY <2>1, ContentNext
<1>2. CASE UNCHANGED device
  BY <1>2, ContentNext, ByteAtIsByte DEF device
<1> QED
  BY <1>1, <1>2

LEMMA EmptyContent ==
  ASSUME items = <<>>, quantum \in Nat \ {0}, qset \in Nat \ {0}
  PROVE  Content = [i \in Positions |-> junk]
<1>1. <<>> \in Lists(quantum, qset) /\ Len(<<>>) = 0
  BY EmptySeq DEF Lists
<1>2. ASSUME NEW i \in Nat
      PROVE  ByteAt(i) = junk
  <2>1. Item(i, <<quantum, qset>>) \in Nat \ {0}
    BY PlaceTypes
  <2>2. ~There(items, i, <<quantum, qset>>)
    BY <1>1, <2>1 DEF There
  <2> QED
    BY <1>1, <2>2, ByteIsThere, ByteAtIsByte
<1> QED
  BY <1>2, PositionTypes DEF Content

EmptyHasNoBytes ==
    (items = <<>> /\ quantum \in Nat \ {0} /\ qset \in Nat \ {0})
        => Content = [i \in Positions |-> junk]

LEMMA NoBytesNow ==
  EmptyHasNoBytes
  BY EmptyContent DEF EmptyHasNoBytes

(* What a write changes.                                                   *)
LEMMA WriteIsChange ==
  ASSUME DevInv, NEW p \in Procs, NEW k, NEW w, WriteStores(p, k, w)
  PROVE  Store!Changed(Store!Span(p, k))
<1> DEFINE x == fpos[p]
<1>1. x \in Nat /\ k \in Nat
  BY DeviceBoundsAssumption DEF DevInv, DevFiles, WriteStores
<1>2. w \in [1..k -> Data]
  BY DEF WriteStores
<1>3. ASSUME NEW i \in Positions
      PROVE  IF i \in x..(x + k - 1) THEN Content'[i] \in Data ELSE Content'[i] = Content[i]
  <2>1. i \in Nat
    BY PositionTypes
  <2>2. Content'[i] = Byte(items', i, quantum, qset) /\ Content[i] = ByteAt(i)
    BY ContentNext DEF WriteStores
  <2>3. Content'[i] = IF i \in x..(x + k - 1) THEN w[i - x + 1] ELSE Content[i]
    BY <2>1, <2>2 DEF WriteStores
  <2>4. i \in x..(x + k - 1) => i - x + 1 \in 1..k
    BY <1>1, <2>1
  <2> QED
    BY <1>2, <2>3, <2>4
<1> QED
  BY <1>3 DEF Store!Changed, Store!Span, Store!Places, Content, Positions

LEMMA InitIsStoreInit ==
  DevInit => Store!StoreInit
<1> SUFFICES ASSUME DevInit
             PROVE  Store!StoreInit
  OBVIOUS
<1>1. items = <<>> /\ quantum \in Nat \ {0} /\ qset \in Nat \ {0}
  BY SizesAssumption DEF DevInit
<1>2. Content = [i \in Positions |-> junk]
  BY <1>1, EmptyContent
<1> QED
  BY <1>2 DEF DevInit, Store!StoreInit, Store!Places, Content, Positions

StoreStep == Store!StoreNext \/ UNCHANGED Store!storeVars

(* No step of these changes a byte.                                        *)
LEMMA FileStepIsStoreStep ==
  ASSUME DevInv, NEW p \in Procs,
         OpenOtherwise(p) \/ Close(p) \/ Llseek(p) \/ ReadCall(p) \/ WriteCall(p)
         \/ Interrupted(p) \/ Return(p) \/ ReadEnd(p)
  PROVE  StoreStep
<1>1. UNCHANGED device
  BY DEF OpenOtherwise, Open, Close, Llseek, ReadCall, WriteCall, Begin, Interrupted, Return,
     ReadEnd
<1>2. Content' = Content /\ size' = size
  BY <1>1, SameContent DEF device
<1>3. CASE Close(p) \/ Llseek(p)
  <2>1. PICK i \in 0..MaxPos : fpos' = [fpos EXCEPT ![p] = i]
    BY <1>3, DeviceBoundsAssumption DEF Close, Llseek
  <2>2. got' = got
    BY <1>3 DEF Close, Llseek
  <2>3. Store!StoreSeek(p)
    BY <1>2, <2>1, <2>2 DEF Store!StoreSeek, Content, Positions
  <2> QED
    BY <2>3 DEF StoreStep, Store!StoreNext
<1>4. CASE Return(p)
  <2>1. Store!StoreForget(p)
    BY <1>2, <1>4 DEF Return, Store!StoreForget, Content, Positions
  <2> QED
    BY <2>1 DEF StoreStep, Store!StoreNext
<1>5. CASE OpenOtherwise(p) \/ ReadCall(p) \/ WriteCall(p) \/ Interrupted(p) \/ ReadEnd(p)
  <2>1. UNCHANGED <<fpos, got>>
    BY <1>5 DEF OpenOtherwise, Open, ReadCall, WriteCall, Begin, Interrupted, ReadEnd
  <2> QED
    BY <1>2, <2>1 DEF StoreStep, Store!storeVars, Content, Positions
<1> QED
  BY <1>3, <1>4, <1>5

LEMMA TrimIsStoreTrim ==
  ASSUME DevInv, NEW p \in Procs, OpenToWrite(p)
  PROVE  StoreStep
<1>1. items' = <<>> /\ size' = 0 /\ quantum' \in Nat \ {0} /\ qset' \in Nat \ {0}
  BY SizesAssumption DEF OpenToWrite, scull_trim, DevInv, DevSizes
<1>2. EmptyHasNoBytes'
  BY NoBytesNow, PTL
<1>3. Content' = [i \in Positions |-> junk]
  BY <1>1, <1>2 DEF EmptyHasNoBytes
<1>4. Store!StoreTrim
  BY <1>1, <1>3 DEF OpenToWrite, Open, Store!StoreTrim, Store!Places, Content, Positions
<1> QED
  BY <1>4 DEF StoreStep, Store!StoreNext

LEMMA ReadIsStoreRead ==
  ASSUME DevInv, NEW p \in Procs,
         ReadHole(p) \/ ReadFault(p) \/ (\E n \in 0..MaxCount : ReadCopy(p, n))
  PROVE  StoreStep
<1>1. Content' = Content /\ size' = size
  BY ReadsKeepBytes, SameContent
<1>2. CASE ReadHole(p) \/ ReadFault(p)
  <2>1. UNCHANGED <<fpos, got>>
    BY <1>2 DEF ReadHole, ReadFault
  <2> QED
    BY <1>1, <2>1 DEF StoreStep, Store!storeVars, Content, Positions
<1>3. CASE \E n \in 0..MaxCount : ReadCopy(p, n)
  <2>1. PICK n \in 0..MaxCount : ReadCopy(p, n)
    BY <1>3
  <2> DEFINE k == ReadLength(p, n)
             r == ReadBytes(p, k)
             x == fpos[p]
             f == [i \in 1..k |-> Content[x + i - 1]]
  <2>2. /\ got' = [got EXCEPT ![p] = r] /\ fpos' = [fpos EXCEPT ![p] = @ + k]
    BY <2>1 DEF ReadCopy, ReadLength, ReadBytes
  <2>3. /\ k \in 0..MaxCount /\ k \in Nat /\ x + k <= size
        /\ r \in Seq(ByteSet) /\ Len(r) = k
        /\ \A i \in 1..k : r[i] = ByteAt(x + i - 1)
    BY <2>1, ReadIsInside
  <2>4. x \in Nat /\ x <= MaxPos
    BY <2>1 DEF ReadCopy, InCall, DevInv, DevFiles, CallsFit
  <2> HIDE DEF k, r
  <2>5. \A i \in 1..k : x + i - 1 \in Positions
    BY <2>3, <2>4, DeviceBoundsAssumption DEF Positions
  <2>6. \A i \in 1..k : r[i] = f[i]
    BY <2>3, <2>5, ContentNext
  <2>7. r = f
    <3>1. r \in [1..k -> ByteSet]
      BY <2>3, LenProperties
    <3> QED
      BY <2>6, <3>1
  <2>8. Store!StoreRead(p, k)
    BY <1>1, <2>2, <2>3, <2>7 DEF Store!StoreRead, Content, Positions
  <2> QED
    BY <2>3, <2>8 DEF StoreStep, Store!StoreNext
<1> QED
  BY <1>2, <1>3

LEMMA WriteIsStoreWrite ==
  ASSUME DevInv, NEW p \in Procs,
         WriteNoMemory(p) \/ (\E b \in Inputs : WriteCopy(p, b) \/ WriteFault(p, b))
  PROVE  StoreStep
<1>1. CASE WriteNoMemory(p)
  <2>1. Content' = Content /\ size' = size
    BY <1>1, NoMemoryKeepsBytes, SameContent
  <2>2. UNCHANGED <<fpos, got>>
    BY <1>1 DEF WriteNoMemory
  <2> QED
    BY <2>1, <2>2 DEF StoreStep, Store!storeVars, Content, Positions
<1>2. ASSUME NEW b \in Inputs, WriteCopy(p, b)
      PROVE  StoreStep
  <2>1. PICK k \in Nat : MovesOn(p, k) /\ \E w : WriteStores(p, k, w)
    BY <1>2, WriteCopyStores
  <2>2. Store!Changed(Store!Span(p, k)) /\ k \in 0..MaxCount
    BY <2>1, WriteIsChange DEF WriteStores
  <2>3. Store!StoreWrite(p, k)
    BY <1>2, <2>1, <2>2 DEF WriteCopy, UpdateSize, MovesOn, Store!StoreWrite
  <2> QED
    BY <2>2, <2>3 DEF StoreStep, Store!StoreNext
<1>3. ASSUME NEW b \in Inputs, WriteFault(p, b)
      PROVE  StoreStep
  <2>1. PICK k \in Nat : \E w : WriteStores(p, k, w)
    BY <1>3, WriteFaultStores
  <2>2. Store!Changed(Store!Span(p, k)) /\ k \in 0..MaxCount
    BY <2>1, WriteIsChange DEF WriteStores
  <2>3. Store!StoreTorn(p, k)
    BY <1>3, <2>2 DEF WriteFault, Store!StoreTorn
  <2> QED
    BY <2>2, <2>3 DEF StoreStep, Store!StoreNext
<1> QED
  BY <1>1, <1>2, <1>3

LEMMA StepIsStoreStep ==
  ASSUME DevInv, [DevNext]_devVars
  PROVE  StoreStep
<1>1. CASE SetQuantum \/ SetQset \/ Reset
  <2>1. UNCHANGED <<device, files>>
    BY <1>1 DEF SetQuantum, SetQset, Reset
  <2>2. Content' = Content
    BY <2>1, SameContent
  <2> QED
    BY <2>1, <2>2 DEF device, files, StoreStep, Store!storeVars, Content, Positions
<1>2. ASSUME NEW p \in Procs, OpenToWrite(p)
      PROVE  StoreStep
  BY <1>2, TrimIsStoreTrim
<1>3. ASSUME NEW p \in Procs,
             OpenOtherwise(p) \/ Close(p) \/ Llseek(p) \/ ReadCall(p) \/ WriteCall(p)
             \/ Interrupted(p) \/ Return(p) \/ ReadEnd(p)
      PROVE  StoreStep
  BY <1>3, FileStepIsStoreStep
<1>4. ASSUME NEW p \in Procs,
             ReadHole(p) \/ ReadFault(p) \/ (\E n \in 0..MaxCount : ReadCopy(p, n))
      PROVE  StoreStep
  BY <1>4, ReadIsStoreRead
<1>5. ASSUME NEW p \in Procs,
             WriteNoMemory(p) \/ (\E b \in Inputs : WriteCopy(p, b) \/ WriteFault(p, b))
      PROVE  StoreStep
  BY <1>5, WriteIsStoreWrite
<1>6. CASE UNCHANGED devVars
  <2>1. UNCHANGED <<device, fpos, got>>
    BY <1>6 DEF devVars, device
  <2>2. Content' = Content
    BY <2>1, SameContent
  <2> QED
    BY <2>1, <2>2 DEF device, StoreStep, Store!storeVars, Content, Positions
<1> QED
  BY <1>1, <1>2, <1>3, <1>4, <1>5, <1>6 DEF DevNext

(* The lists of arrays of quantums behave as bytes at positions: a read    *)
(* returns what was last written there and nothing beyond the size, a      *)
(* write changes its own range only, at any sizes (main.c:292-386), as     *)
(* long as no open for writing changes the sizes under a call.             *)
THEOREM DeviceImplementsStore ==
  ASSUME SizesKeep
  PROVE  DevSpec => DeviceStoresBytes
<1>1. DevInv /\ [DevNext]_devVars => [Store!StoreNext]_(Store!storeVars)
  BY StepIsStoreStep DEF StoreStep
<1> QED
  BY <1>1, InitIsStoreInit, DeviceIsSound, PTL DEF DevSpec, DeviceStoresBytes, Store!StoreSpec
=============================================================================
