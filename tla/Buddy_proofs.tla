----------------------------- MODULE Buddy_proofs -----------------------------
(***************************************************************************)
(* Theorems of Buddy, for any number of processes, levels and sizes, and   *)
(* wherever the segments are mapped.                                       *)
(***************************************************************************)
EXTENDS Buddy, FiniteSetTheorems, SequenceTheorems, TLAPS

-----------------------------------------------------------------------------
(* What the steps preserve. Blocks are apart and fill the attached memory, *)
Limit(p) == Base[p] + Pages[calculate_block_level(p)]
End(a) == a + Pages[blocks[a].level]

Apart == \A a, b \in DOMAIN blocks : a < b => End(a) <= b
Cover == \A x \in Managed : \E a \in DOMAIN blocks : a <= x /\ x < End(a)
Within == \A a \in DOMAIN blocks :
            Base[blocks[a].host_pid] <= a /\ End(a) <= Limit(blocks[a].host_pid)
Fits(size, level) == size + HeadSize <= Pages[level] * PageSize
Large == \A a \in DOMAIN blocks : ~blocks[a].is_free => Fits(blocks[a].size, blocks[a].level)

(* the lists are in order and have the free blocks, *)
Ordered(list) == \A i, j \in 1 .. Len(list) : i < j => list[i] < list[j]
InOrder == \A p \in Procs, l \in Levels : Ordered(block_list[p][l])
ListedAreFree ==
  \A p \in Procs, l \in Levels :
    Listed(p, l) \subseteq {a \in FreeBlocks : blocks[a].level = l}
FreeAreListed == \A a \in FreeBlocks : \E p \in Procs : a \in Listed(p, blocks[a].level)
ListedOnce ==
  \A p, q \in Procs, l \in Levels : p # q => Listed(p, l) \cap Listed(q, l) = {}

(* and who is in a loop has left behind it what the next turn builds on. *)
Halving ==
  \A p \in Procs :
    doing[p].op = "malloc" =>
      /\ doing[p].level <= doing[p].idx
      /\ block_list[p][doing[p].idx] # <<>>
      /\ \A l \in Levels :
           doing[p].level <= l /\ l < doing[p].idx => block_list[p][l] = <<>>
      /\ Fits(doing[p].size, doing[p].level)
Freeing ==
  \A p, q \in Procs :
    doing[p].op = "free" /\ doing[q].op = "free" /\ doing[p].head = doing[q].head => p = q

Memory == Apart /\ Cover /\ Within /\ Large
Lists == InOrder /\ ListedAreFree /\ FreeAreListed /\ ListedOnce
Loops == Halving /\ Freeing
Inv == TypeOK /\ Memory /\ Lists /\ Loops

-----------------------------------------------------------------------------
(* A finite set of numbers with 0 has one whose successor it lacks: else the *)
(* successor would map it into what is left without 0, which is smaller.     *)
LEMMA LastOne ==
  ASSUME NEW S \in SUBSET Nat, IsFiniteSet(S), 0 \in S
  PROVE  \E k \in S : k + 1 \notin S
<1> SUFFICES ASSUME \A k \in S : k + 1 \in S PROVE FALSE
  OBVIOUS
<1> DEFINE T == S \ {0}
           next == [k \in S |-> k + 1]
<1>1. IsFiniteSet(T) /\ Cardinality(T) = Cardinality(S) - 1 /\ Cardinality(S) \in Nat
  BY FS_RemoveElement, FS_CardinalityType
<1>2. next \in [S -> T]
  OBVIOUS
<1>3. Cardinality(T) < Cardinality(S)
  BY <1>1
<1>4. \E x, y \in S : x # y /\ next[x] = next[y]
  <2> HIDE DEF next, T
  <2> QED
    BY <1>1, <1>2, <1>3, FS_PigeonHole, Zenon
<1> QED
  BY <1>4

LEMMA MinProperties ==
  ASSUME NEW T \in SUBSET Nat, T # {}
  PROVE  Min(T) \in T /\ \A y \in T : Min(T) <= y
<1> PICK n \in T : TRUE
  OBVIOUS
<1> DEFINE S == {k \in 0 .. n : \A y \in T : k <= y}
<1>1. IsFiniteSet(S)
  <2>1. IsFiniteSet(0 .. n) /\ S \in SUBSET (0 .. n)
    BY FS_Interval
  <2> HIDE DEF S
  <2> QED
    BY <2>1, FS_Subset
<1>2. 0 \in S /\ S \in SUBSET Nat
  OBVIOUS
<1>3. PICK k \in S : k + 1 \notin S
  <2> HIDE DEF S
  <2> QED
    BY <1>1, <1>2, LastOne
<1>4. k \in T /\ \A y \in T : k <= y
  <2>1. CASE k = n
    BY <2>1
  <2>2. CASE k # n
    <3>1. k + 1 \in 0 .. n
      BY <2>2
    <3>2. PICK y \in T : ~(k + 1 <= y)
      BY <1>3, <3>1
    <3>3. y = k
      BY <3>2
    <3> QED
      BY <3>3
  <2> QED
    BY <2>1, <2>2
<1> QED
  BY <1>4 DEF Min

-----------------------------------------------------------------------------
(* The sizes of blocks. *)
LEMMA PagesPositive == \A l \in 0 .. MaxLevel : Pages[l] \in Nat /\ Pages[l] > 0
<1> DEFINE S == {l \in 0 .. MaxLevel : \A k \in 0 .. l : Pages[k] > 0}
<1>0. IsFiniteSet(S)
  <2>1. IsFiniteSet(0 .. MaxLevel) /\ S \in SUBSET (0 .. MaxLevel)
    BY FS_Interval, BuddyAssumption DEF Levels
  <2> HIDE DEF S
  <2> QED
    BY <2>1, FS_Subset
<1>1. 0 \in S /\ S \in SUBSET Nat
  BY BuddyAssumption DEF Levels
<1>2. PICK l \in S : l + 1 \notin S
  <2> HIDE DEF S
  <2> QED
    BY <1>0, <1>1, LastOne
<1>3. l = MaxLevel
  <2> SUFFICES ASSUME l # MaxLevel PROVE FALSE
    OBVIOUS
  <2>1. l \in Levels /\ l \in 0 .. l /\ l + 1 \in 0 .. MaxLevel /\ Pages[l] \in Nat
    BY BuddyAssumption DEF Levels
  <2>2. Pages[l] > 0 /\ Pages[l + 1] = 2 * Pages[l]
    BY <2>1, BuddyAssumption
  <2>4. Pages[l + 1] > 0
    BY <2>1, <2>2
  <2>3. \A k \in 0 .. (l + 1) : k \in 0 .. l \/ k = l + 1
    OBVIOUS
  <2> QED
    BY <1>2, <2>1, <2>4, <2>3
<1> QED
  BY <1>3, BuddyAssumption

LEMMA BlockLevel ==
  ASSUME NEW p \in Procs
  PROVE  /\ calculate_block_level(p) \in Levels
         /\ Pages[calculate_block_level(p)] <= DataPages[p]
         /\ DataPages[p] < Pages[calculate_block_level(p) + 1]
<1> DEFINE S == {l \in Levels : Pages[l] <= DataPages[p]}
<1>0. IsFiniteSet(S)
  <2>1. IsFiniteSet(0 .. MaxLevel) /\ S \in SUBSET (0 .. MaxLevel)
    BY FS_Interval, BuddyAssumption DEF Levels
  <2> HIDE DEF S
  <2> QED
    BY <2>1, FS_Subset
<1>1. 0 \in S /\ S \in SUBSET Nat
  BY BuddyAssumption DEF Levels
<1>2. PICK l \in S : l + 1 \notin S
  <2> HIDE DEF S
  <2> QED
    BY <1>0, <1>1, LastOne
<1>3. DataPages[p] < Pages[l + 1]
  <2>1. Pages[l + 1] \in Nat /\ DataPages[p] \in Nat
    BY BuddyAssumption DEF Levels
  <2>2. CASE l + 1 = MaxLevel
    BY <2>2, BuddyAssumption
  <2>3. CASE l + 1 # MaxLevel
    <3>1. l + 1 \in Levels
      BY <2>3, BuddyAssumption DEF Levels
    <3> QED
      BY <1>2, <2>1, <3>1
  <2> QED
    BY <2>2, <2>3
<1> QED
  BY <1>2, <1>3 DEF calculate_block_level

(* The level a request is served from has blocks that are large enough. *)
LEMMA WhichLevel ==
  ASSUME NEW size \in Sizes
  PROVE  /\ calculate_which_level(size) \in Nat
         /\ calculate_which_level(size) \in Levels =>
              Fits(size, calculate_which_level(size))
<1> DEFINE T == {l \in Levels : size + HeadSize <= Pages[l] * PageSize} \cup {MaxLevel}
<1>1. T \in SUBSET Nat /\ T # {}
  BY BuddyAssumption DEF Levels
<1>2. Min(T) \in T
  <2> HIDE DEF T
  <2> QED
    BY <1>1, MinProperties
<1>3. MaxLevel \notin Levels
  BY BuddyAssumption DEF Levels
<1> QED
  BY <1>1, <1>2, <1>3 DEF calculate_which_level, Fits

LEMMA ManagedIsNat == Managed \subseteq Nat
  BY BlockLevel, PagesPositive, BuddyAssumption DEF Managed, Levels

-----------------------------------------------------------------------------
(* Lists in the order of their addresses. *)
LEMMA TailOfList ==
  ASSUME NEW list \in Seq(Nat), Ordered(list), list # <<>>
  PROVE  /\ Ordered(Tail(list))
         /\ Head(list) \in Range(list)
         /\ Range(Tail(list)) = Range(list) \ {Head(list)}
<1>1. /\ Tail(list) \in Seq(Nat) /\ Len(list) \in Nat \ {0} /\ Len(Tail(list)) = Len(list) - 1
      /\ Head(list) = list[1]
      /\ \A i \in 1 .. Len(Tail(list)) : Tail(list)[i] = list[i + 1]
      /\ DOMAIN list = 1 .. Len(list) /\ DOMAIN Tail(list) = 1 .. Len(Tail(list))
      /\ \A i \in 1 .. Len(list) : list[i] \in Nat
  BY HeadTailProperties, EmptySeq
<1>2. Ordered(Tail(list))
  BY <1>1 DEF Ordered
<1>3. Head(list) \in Range(list)
  BY <1>1 DEF Range
<1>4. ASSUME NEW x \in Range(Tail(list)) PROVE x \in Range(list) \ {Head(list)}
  BY <1>1 DEF Range, Ordered
<1>5. ASSUME NEW x \in Range(list) \ {Head(list)} PROVE x \in Range(Tail(list))
  <2>1. PICK i \in 1 .. Len(list) : x = list[i] /\ i # 1
    BY <1>1 DEF Range
  <2>2. i - 1 \in 1 .. Len(Tail(list)) /\ Tail(list)[i - 1] = x
    BY <1>1, <2>1
  <2> QED
    BY <1>1, <2>2 DEF Range
<1> QED
  BY <1>2, <1>3, <1>4, <1>5

LEMMA RemovedFromList ==
  ASSUME NEW S \in SUBSET Nat, NEW list \in Seq(S), Ordered(list), NEW i \in 1 .. Len(list)
  PROVE  /\ RemoveAt(list, i) \in Seq(S)
         /\ Ordered(RemoveAt(list, i))
         /\ Range(RemoveAt(list, i)) = Range(list) \ {list[i]}
<1> DEFINE n == Len(list)
           left == SubSeq(list, 1, i - 1)
           right == SubSeq(list, i + 1, n)
           rest == left \o right
<1>1. /\ n \in Nat /\ \A j \in 1 .. n : list[j] \in S
      /\ DOMAIN list = 1 .. n
  BY LenProperties, ElementOfSeq
<1>2. /\ left \in Seq(S) /\ Len(left) = i - 1
      /\ \A j \in 1 .. i - 1 : left[j] = list[j]
  BY <1>1, SubSeqProperties
<1>3. /\ right \in Seq(S) /\ Len(right) = n - i
      /\ \A j \in 1 .. n - i : right[j] = list[i + j]
  <2>1. /\ right \in Seq(S) /\ Len(right) = IF i + 1 <= n THEN n - (i + 1) + 1 ELSE 0
        /\ \A j \in 1 .. n - (i + 1) + 1 : right[j] = list[(i + 1) + j - 1]
    <3>1. \A j \in (i + 1) .. n : list[j] \in S
      BY <1>1
    <3>2. i + 1 \in Int /\ n \in Int
      BY <1>1
    <3> HIDE DEF n
    <3> QED
      BY <3>1, <3>2, SubSeqProperties
  <2>2. n - (i + 1) + 1 = n - i /\ Len(right) = n - i
    <3> HIDE DEF right, n
    <3>1. i \in Nat /\ n \in Nat /\ i <= n
      BY <1>1 DEF n
    <3> QED
      BY <2>1, <3>1
  <2>3. ASSUME NEW j \in 1 .. n - i PROVE right[j] = list[i + j]
    <3>1. (i + 1) + j - 1 = i + j
      BY <1>1
    <3> HIDE DEF right, n
    <3> QED
      BY <3>1, <2>1, <2>2
  <2> QED
    BY <2>1, <2>2, <2>3, Zenon
<1>4. /\ rest \in Seq(S) /\ Len(rest) = n - 1
      /\ \A j \in 1 .. n - 1 : rest[j] = IF j < i THEN list[j] ELSE list[j + 1]
      /\ DOMAIN rest = 1 .. n - 1
  <2> HIDE DEF left, right
  <2>1. rest \in Seq(S) /\ Len(rest) = n - 1
    <3> HIDE DEF n
    <3>1. rest \in Seq(S) /\ Len(rest) = Len(left) + Len(right)
      BY <1>2, <1>3, ConcatProperties
    <3> QED
      BY <1>1, <1>2, <1>3, <3>1 DEF n
  <2>2. ASSUME NEW j \in 1 .. n - 1 PROVE rest[j] = IF j < i THEN list[j] ELSE list[j + 1]
    <3>1. rest[j] = IF j <= Len(left) THEN left[j] ELSE right[j - Len(left)]
      BY <1>1, <1>2, <1>3, <2>1, ConcatProperties
    <3>2. j < i => rest[j] = list[j]
      BY <3>1, <1>1, <1>2
    <3>3. j >= i => rest[j] = list[i + (j - (i - 1))]
      BY <3>1, <1>1, <1>2, <1>3
    <3>4. i + (j - (i - 1)) = j + 1
      BY <1>1
    <3> HIDE DEF rest
    <3> QED
      BY <3>2, <3>3, <3>4, <1>1
  <2> HIDE DEF rest, n
  <2>3. DOMAIN rest = 1 .. n - 1
    BY <2>1, LenProperties
  <2> QED
    BY <2>1, <2>2, <2>3
<1>5. RemoveAt(list, i) = rest
  BY DEF RemoveAt
<1> HIDE DEF rest, n
<1>6. Ordered(rest)
  BY <1>1, <1>4 DEF Ordered, n
<1>7. ASSUME NEW x \in Range(rest) PROVE x \in Range(list) \ {list[i]}
  <2>1. PICK j \in 1 .. n - 1 : x = rest[j]
    BY <1>4 DEF Range
  <2>2. CASE j < i
    <3>1. x = list[j] /\ j \in 1 .. n /\ j < i /\ i \in 1 .. n
      BY <1>1, <1>4, <2>1, <2>2 DEF n
    <3>2. x < list[i] /\ x \in Nat /\ list[i] \in Nat
      BY <1>1, <3>1 DEF Ordered, n
    <3> QED
      BY <1>1, <3>1, <3>2 DEF Range
  <2>3. CASE j >= i
    <3>1. x = list[j + 1] /\ j + 1 \in 1 .. n /\ i < j + 1
      BY <1>1, <1>4, <2>1, <2>3
    <3>2. list[i] < x /\ x \in Nat /\ list[i] \in Nat
      BY <1>1, <3>1 DEF Ordered, n
    <3> QED
      BY <1>1, <3>1, <3>2 DEF Range
  <2> QED
    BY <1>1, <2>2, <2>3
<1>8. ASSUME NEW x \in Range(list) \ {list[i]} PROVE x \in Range(rest)
  <2>1. PICK j \in 1 .. n : x = list[j] /\ j # i
    BY <1>1 DEF Range
  <2>2. CASE j < i
    BY <1>1, <1>4, <2>1, <2>2 DEF Range
  <2>3. CASE i < j
    <3>1. j - 1 \in 1 .. n - 1 /\ rest[j - 1] = x
      BY <1>1, <1>4, <2>1, <2>3
    <3> QED
      BY <1>4, <3>1 DEF Range
  <2> QED
    BY <1>1, <2>1, <2>2, <2>3
<1> QED
  BY <1>4, <1>5, <1>6, <1>7, <1>8

LEMMA InsertedInList ==
  ASSUME NEW S \in SUBSET Nat, NEW list \in Seq(S), Ordered(list), NEW x \in S,
         NEW i \in 1 .. Len(list), x < list[i], \A j \in 1 .. i - 1 : list[j] < x
  PROVE  /\ InsertAt(list, i, x) \in Seq(S)
         /\ Ordered(InsertAt(list, i, x))
         /\ Range(InsertAt(list, i, x)) = Range(list) \cup {x}
<1> DEFINE n == Len(list)
           left == SubSeq(list, 1, i - 1)
           right == SubSeq(list, i, n)
           begin == left \o <<x>>
           more == begin \o right
<1>1. /\ n \in Nat /\ \A j \in 1 .. n : list[j] \in S
      /\ DOMAIN list = 1 .. n
  BY LenProperties, ElementOfSeq
<1>2. /\ left \in Seq(S) /\ Len(left) = i - 1
      /\ \A j \in 1 .. i - 1 : left[j] = list[j]
  BY <1>1, SubSeqProperties
<1>3. /\ right \in Seq(S) /\ Len(right) = n - i + 1
      /\ \A j \in 1 .. n - i + 1 : right[j] = list[i + j - 1]
  <2>1. \A j \in i .. n : list[j] \in S
    BY <1>1
  <2>2. i \in Int /\ n \in Int /\ i <= n
    BY <1>1
  <2> HIDE DEF n
  <2> QED
    BY <2>1, <2>2, SubSeqProperties
<1>4. <<x>> \in Seq(S) /\ Len(<<x>>) = 1 /\ <<x>>[1] = x
  OBVIOUS
<1>5. /\ begin \in Seq(S) /\ Len(begin) = i
      /\ \A j \in 1 .. i : begin[j] = IF j < i THEN list[j] ELSE x
  <2> HIDE DEF left
  <2>1. begin \in Seq(S) /\ Len(begin) = i
    BY <1>2, <1>4, ConcatProperties
  <2>2. ASSUME NEW j \in 1 .. i PROVE begin[j] = IF j < i THEN list[j] ELSE x
    <3>1. begin[j] = IF j <= Len(left) THEN left[j] ELSE <<x>>[j - Len(left)]
      BY <1>2, <1>4, ConcatProperties
    <3>2. j < i => begin[j] = list[j]
      BY <3>1, <1>2
    <3>3. j = i => begin[j] = x
      BY <3>1, <1>2, <1>4
    <3>4. j < i \/ j = i
      BY <1>1
    <3> HIDE DEF begin
    <3> QED
      BY <3>2, <3>3, <3>4
  <2> QED
    BY <2>1, <2>2
<1>6. /\ more \in Seq(S) /\ Len(more) = n + 1
      /\ \A j \in 1 .. n + 1 :
           more[j] = IF j < i THEN list[j] ELSE IF j = i THEN x ELSE list[j - 1]
      /\ DOMAIN more = 1 .. n + 1
  <2> HIDE DEF begin, right, n
  <2>1. more \in Seq(S) /\ Len(more) = n + 1
    <3>1. more \in Seq(S) /\ Len(more) = Len(begin) + Len(right)
      BY <1>3, <1>5, ConcatProperties
    <3> QED
      BY <1>1, <1>3, <1>5, <3>1 DEF n
  <2>2. ASSUME NEW j \in 1 .. n + 1
        PROVE  more[j] = IF j < i THEN list[j] ELSE IF j = i THEN x ELSE list[j - 1]
    <3>1. more[j] = IF j <= Len(begin) THEN begin[j] ELSE right[j - Len(begin)]
      <4>1. j \in 1 .. Len(begin) + Len(right)
        BY <1>1, <1>3, <1>5 DEF n
      <4> QED
        BY <1>3, <1>5, <4>1, ConcatProperties
    <3> HIDE DEF more
    <3>2. j <= i => more[j] = IF j < i THEN list[j] ELSE x
      BY <3>1, <1>5
    <3>3. j > i => more[j] = list[i + (j - i) - 1]
      BY <3>1, <1>1, <1>3, <1>5
    <3>4. i + (j - i) - 1 = j - 1
      BY <1>1
    <3> QED
      BY <3>2, <3>3, <3>4, <1>1
  <2>3. DOMAIN more = 1 .. n + 1
    BY <2>1, LenProperties
  <2> QED
    BY <2>1, <2>2, <2>3
<1>7. InsertAt(list, i, x) = more
  BY DEF InsertAt
<1> HIDE DEF more, n, begin
<1>8. Ordered(more)
  <2> SUFFICES ASSUME NEW j \in 1 .. n + 1, NEW k \in 1 .. n + 1, j < k
               PROVE  more[j] < more[k]
    BY <1>6 DEF Ordered
  <2>0. \A a, b \in 1 .. n : a < b => list[a] < list[b]
    BY DEF Ordered, n
  <2>1. ASSUME NEW a \in 1 .. n, i <= a PROVE x < list[a] /\ list[a] \in Nat
    <3>1. x \in Nat /\ list[a] \in Nat /\ list[i] \in Nat /\ i \in 1 .. n
      BY <1>1 DEF n
    <3>2. CASE i = a
      BY <3>1, <3>2
    <3>3. CASE i < a
      BY <2>0, <3>1, <3>3
    <3> QED
      BY <2>1, <3>1, <3>2, <3>3
  <2>2. CASE k < i
    BY <1>1, <1>6, <2>0, <2>2
  <2>3. CASE k = i
    BY <1>1, <1>6, <2>3
  <2>4. CASE k > i
    <3>1. more[k] = list[k - 1] /\ k - 1 \in 1 .. n /\ i <= k - 1
      BY <1>1, <1>6, <2>4
    <3>2. CASE j < i
      BY <1>1, <1>6, <2>0, <3>1, <3>2
    <3>3. CASE j = i
      BY <1>1, <1>6, <2>1, <3>1, <3>3
    <3>4. CASE j > i
      <4>1. more[j] = list[j - 1] /\ j - 1 \in 1 .. n /\ j - 1 < k - 1
        BY <1>1, <1>6, <3>4
      <4> QED
        BY <2>0, <3>1, <4>1
    <3> QED
      BY <3>2, <3>3, <3>4
  <2> QED
    BY <1>1, <2>2, <2>3, <2>4
<1>9. ASSUME NEW y \in Range(more) PROVE y \in Range(list) \cup {x}
  <2>1. PICK j \in 1 .. n + 1 : y = more[j]
    BY <1>6 DEF Range
  <2>2. CASE j < i
    BY <1>1, <1>6, <2>1, <2>2 DEF Range, n
  <2>3. CASE j = i
    BY <1>6, <2>1, <2>3
  <2>4. CASE j > i
    <3>1. y = list[j - 1] /\ j - 1 \in 1 .. n
      BY <1>1, <1>6, <2>1, <2>4
    <3> QED
      BY <1>1, <3>1 DEF Range
  <2> QED
    BY <1>1, <2>2, <2>3, <2>4
<1>10. ASSUME NEW y \in Range(list) PROVE y \in Range(more)
  <2>1. PICK j \in 1 .. n : y = list[j]
    BY <1>1 DEF Range
  <2>2. CASE j < i
    BY <1>1, <1>6, <2>1, <2>2 DEF Range
  <2>3. CASE j >= i
    <3>1. more[j + 1] = y /\ j + 1 \in 1 .. n + 1
      BY <1>1, <1>6, <2>1, <2>3
    <3> QED
      BY <1>6, <3>1 DEF Range
  <2> QED
    BY <1>1, <2>2, <2>3
<1>11. x \in Range(more)
  <2>1. i \in 1 .. n + 1 /\ more[i] = x
    BY <1>1, <1>6 DEF n
  <2> QED
    BY <1>6, <2>1 DEF Range
<1> QED
  BY <1>6, <1>7, <1>8, <1>9, <1>10, <1>11

LEMMA AppendedToList ==
  ASSUME NEW S \in SUBSET Nat, NEW list \in Seq(S), Ordered(list), NEW x \in S,
         \A j \in 1 .. Len(list) : list[j] < x
  PROVE  /\ Append(list, x) \in Seq(S)
         /\ Ordered(Append(list, x))
         /\ Range(Append(list, x)) = Range(list) \cup {x}
<1>1. /\ Len(list) \in Nat /\ DOMAIN list = 1 .. Len(list)
      /\ Append(list, x) \in Seq(S) /\ Len(Append(list, x)) = Len(list) + 1
      /\ \A j \in 1 .. Len(list) : Append(list, x)[j] = list[j]
      /\ Append(list, x)[Len(list) + 1] = x
      /\ DOMAIN Append(list, x) = 1 .. Len(list) + 1
  BY AppendProperties, LenProperties
<1>2. Ordered(Append(list, x))
  BY <1>1 DEF Ordered
<1>3. \A y : y \in Range(Append(list, x)) <=> y \in Range(list) \cup {x}
  BY <1>1 DEF Range
<1> QED
  BY <1>1, <1>2, <1>3

LEMMA TwoInList ==
  ASSUME NEW S \in SUBSET Nat, NEW a \in S, NEW b \in S, a < b
  PROVE  /\ <<a, b>> \in Seq(S) /\ Ordered(<<a, b>>) /\ Range(<<a, b>>) = {a, b}
  BY DEF Ordered, Range

LEMMA EmptyList == Ordered(<<>>) /\ Range(<<>>) = {}
  BY DEF Ordered, Range

(* Where buddy_free's scan of a list stops. *)
LEMMA StopAtProperties ==
  ASSUME NEW S \in SUBSET Nat, NEW list \in Seq(S), NEW head
  PROVE  /\ StopAt(head, list) \in 0 .. Len(list)
         /\ StopAt(head, list) # 0 =>
              \/ buddy_is_buddy(head, list[StopAt(head, list)])
              \/ head < list[StopAt(head, list)]
         /\ \A j \in 1 .. Len(list) :
              StopAt(head, list) = 0 \/ j < StopAt(head, list) =>
                ~buddy_is_buddy(head, list[j]) /\ ~(head < list[j])
<1> DEFINE I == {i \in 1 .. Len(list) : buddy_is_buddy(head, list[i]) \/ head < list[i]}
<1>1. StopAt(head, list) = IF I # {} THEN Min(I) ELSE 0
  BY DEF StopAt, SelectInSeq
<1>2. Len(list) \in Nat /\ I \in SUBSET Nat
  BY LenProperties
<1>3. I # {} => Min(I) \in I /\ \A j \in I : Min(I) <= j
  <2> HIDE DEF I
  <2> QED
    BY <1>2, MinProperties
<1>4. CASE I = {}
  BY <1>1, <1>2, <1>4
<1>5. CASE I # {}
  <2>1. StopAt(head, list) \in I /\ \A j \in I : StopAt(head, list) <= j
    BY <1>1, <1>3, <1>5
  <2> QED
    BY <1>2, <2>1
<1> QED
  BY <1>4, <1>5

-----------------------------------------------------------------------------
(* What the types say of blocks and lists. *)
Sound(a) == /\ a \in Nat /\ a \in Managed
            /\ blocks[a].level \in Levels /\ blocks[a].host_pid \in Procs
            /\ blocks[a].is_free \in BOOLEAN /\ blocks[a].is_first \in BOOLEAN
            /\ blocks[a].size \in Sizes \cup {0}
            /\ Pages[blocks[a].level] \in Nat /\ Pages[blocks[a].level] > 0
            /\ End(a) \in Nat /\ a < End(a)

LEMMA SoundBlocks == ASSUME TypeOK, NEW a \in DOMAIN blocks PROVE Sound(a)
<1>1. a \in Nat /\ a \in Managed /\ blocks[a] \in Header
  BY ManagedIsNat DEF TypeOK
<1>2. blocks[a].level \in Levels /\ blocks[a].level \in 0 .. MaxLevel
  BY <1>1, BuddyAssumption DEF Header, Levels
<1> QED
  BY <1>1, <1>2, PagesPositive DEF Sound, Header, End

LEMMA LimitType == ASSUME NEW p \in Procs PROVE Limit(p) \in Nat /\ Base[p] \in Nat
  BY BlockLevel, PagesPositive, BuddyAssumption DEF Limit, Levels

LEMMA ManagedMeans ==
  ASSUME NEW x PROVE x \in Managed <=> x \in Nat /\ \E p \in Procs : Base[p] <= x /\ x < Limit(p)
<1>1. \A p \in Procs : /\ Base[p] .. (Base[p] + Pages[calculate_block_level(p)] - 1)
                            = {y \in Nat : Base[p] <= y /\ y < Limit(p)}
  <2> TAKE p \in Procs
  <2>1. Limit(p) \in Nat /\ Base[p] \in Nat /\ Pages[calculate_block_level(p)] \in Nat
    BY LimitType, BlockLevel, PagesPositive, BuddyAssumption, SMTT(30) DEF Levels
  <2> QED
    BY <2>1 DEF Limit
<1> QED
  BY <1>1 DEF Managed

LEMMA FreedMeans ==
  ASSUME TypeOK
  PROVE  /\ \A p \in Procs : doing[p].op = "free" => doing[p].head \in DOMAIN blocks
         /\ \A a \in DOMAIN blocks :
              a \in BeingFreed <=> \E p \in Procs : doing[p].op = "free" /\ doing[p].head = a
<1>1. \A p \in Procs :
        doing[p].op = "free" =>
          doing[p].head \in DOMAIN blocks /\ doing[p] = [op |-> "free", head |-> doing[p].head]
  BY DEF TypeOK, Idle, Aborted
<1>2. ASSUME NEW a \in DOMAIN blocks, NEW p \in Procs
      PROVE  doing[p] = [op |-> "free", head |-> a] <=> doing[p].op = "free" /\ doing[p].head = a
  BY <1>1
<1> QED
  BY <1>1, <1>2 DEF BeingFreed

LEMMA ListType ==
  ASSUME TypeOK, NEW p \in Procs, NEW l \in Levels
  PROVE  block_list[p][l] \in Seq(Managed) /\ block_list[p][l] \in Seq(Nat)
<1>1. block_list[p][l] \in Seq(Managed)
  BY DEF TypeOK
<1> QED
  BY <1>1, ManagedIsNat, SeqMonotonic

(* The block that is halved or granted. *)
LEMMA FirstOfList ==
  ASSUME Inv, NEW p \in Procs, NEW l \in Levels, block_list[p][l] # <<>>
  PROVE  LET a == Head(block_list[p][l])
         IN /\ a \in DOMAIN blocks /\ a \in FreeBlocks /\ a \in Listed(p, l)
            /\ blocks[a].level = l /\ blocks[a].is_free
            /\ Range(Tail(block_list[p][l])) = Listed(p, l) \ {a}
            /\ Ordered(Tail(block_list[p][l]))
            /\ Tail(block_list[p][l]) \in Seq(Managed)
<1>1. block_list[p][l] \in Seq(Managed) /\ block_list[p][l] \in Seq(Nat)
  BY ListType DEF Inv
<1>2. Ordered(block_list[p][l])
  BY DEF Inv, Lists, InOrder
<1>3. /\ Head(block_list[p][l]) \in Listed(p, l)
      /\ Range(Tail(block_list[p][l])) = Listed(p, l) \ {Head(block_list[p][l])}
      /\ Ordered(Tail(block_list[p][l]))
  BY <1>1, <1>2, TailOfList DEF Listed
<1>4. Tail(block_list[p][l]) \in Seq(Managed)
  BY <1>1, HeadTailProperties
<1> QED
  BY <1>3, <1>4 DEF Inv, Lists, ListedAreFree, FreeBlocks

-----------------------------------------------------------------------------
LEMMA InvInit == Init => Inv
<1> SUFFICES ASSUME Init PROVE Inv
  OBVIOUS
<1>1. ASSUME NEW p \in Procs, NEW q \in Procs, p # q
      PROVE  Limit(p) <= Base[q] \/ Limit(q) <= Base[p]
  <2>1. /\ Base[p] \in Nat /\ Base[q] \in Nat
        /\ DataPages[p] \in Nat \ {0} /\ DataPages[q] \in Nat \ {0}
    BY BuddyAssumption
  <2>2. Base[p] \in Segment(p) /\ Base[q] \in Segment(q)
    BY <2>1 DEF Segment
  <2>3. Base[p] \notin Segment(q) /\ Base[q] \notin Segment(p)
    BY <1>1, <2>2, BuddyAssumption
  <2>4. Base[p] + DataPages[p] <= Base[q] \/ Base[q] + DataPages[q] <= Base[p]
    BY <2>1, <2>3 DEF Segment
  <2>5. Limit(p) <= Base[p] + DataPages[p] /\ Limit(q) <= Base[q] + DataPages[q]
    <3>1. \A r \in Procs : /\ Pages[calculate_block_level(r)] \in Nat
                           /\ Pages[calculate_block_level(r)] <= DataPages[r]
      <4> TAKE r \in Procs
      <4>1. calculate_block_level(r) \in 0 .. MaxLevel
        BY BlockLevel, BuddyAssumption, SMTT(30) DEF Levels
      <4> QED
        BY <4>1, BlockLevel, PagesPositive
    <3> QED
      BY <2>1, <3>1 DEF Limit
  <2> QED
    BY <2>1, <2>4, <2>5, LimitType
<1>2. \A p \in Procs : Base[p] \in Nat /\ Limit(p) \in Nat /\ Base[p] < Limit(p)
  BY BlockLevel, PagesPositive, BuddyAssumption, SMTT(30) DEF Limit, Levels
<1>3. \A p, q \in Procs : Base[p] = Base[q] => p = q
  BY <1>1, <1>2
<1>4. /\ DOMAIN blocks = {Base[p] : p \in Procs}
      /\ \A p \in Procs : blocks[Base[p]] = AttachedBlock(p)
  <2>1. ASSUME NEW p \in Procs PROVE (CHOOSE q \in Procs : Base[q] = Base[p]) = p
    BY <1>3
  <2> QED
    BY <2>1 DEF Init
<1>5. \A p \in Procs : /\ blocks[Base[p]].level = calculate_block_level(p)
                       /\ blocks[Base[p]].is_free = TRUE /\ blocks[Base[p]].host_pid = p
                       /\ blocks[Base[p]] \in Header /\ End(Base[p]) = Limit(p)
  <2> TAKE p \in Procs
  <2>1. blocks[Base[p]] = AttachedBlock(p) /\ calculate_block_level(p) \in Levels
    BY <1>4, BlockLevel
  <2> QED
    BY <2>1 DEF AttachedBlock, Header, End, Limit
<1>6. \A p \in Procs, l \in Levels :
        block_list[p][l] = IF l = calculate_block_level(p) THEN <<Base[p]>> ELSE <<>>
  <2>1. ASSUME NEW a PROVE buddy_insert_blcok(<<>>, a) = <<a>>
    <3>1. {i \in 1 .. Len(<<>>) : a < <<>>[i]} = {}
      OBVIOUS
    <3> QED
      BY <3>1 DEF buddy_insert_blcok, SelectInSeq
  <2> QED
    BY <2>1, BlockLevel DEF Init, buddy_attch_memory, buddy_init_system
<1>7. \A p \in Procs : Base[p] \in Managed
  BY <1>2, ManagedMeans
<1>8. TypeOK
  <2>1. DOMAIN blocks \subseteq Managed /\ \A a \in DOMAIN blocks : blocks[a] \in Header
    BY <1>4, <1>5, <1>7
  <2>2. block_list \in [Procs -> [Levels -> Seq(Managed)]]
    <3>1. \A p \in Procs : <<Base[p]>> \in Seq(Managed)
      BY <1>7
    <3>2. <<>> \in Seq(Managed)
      OBVIOUS
    <3>3. /\ block_list = [p \in Procs |-> block_list[p]]
          /\ \A p \in Procs : block_list[p] = [l \in Levels |-> block_list[p][l]]
      BY DEF Init, buddy_attch_memory, buddy_init_system
    <3> QED
      BY <1>6, <3>1, <3>2, <3>3
  <2> QED
    BY <2>1, <2>2 DEF TypeOK, Init
<1>9. Memory
  <2>1. Apart
    BY <1>1, <1>2, <1>4, <1>5 DEF Apart
  <2>2. Cover
    BY <1>4, <1>5, ManagedMeans DEF Cover
  <2>3. Within
    BY <1>2, <1>4, <1>5 DEF Within
  <2>4. Large
    BY <1>4, <1>5 DEF Large
  <2> QED
    BY <2>1, <2>2, <2>3, <2>4 DEF Memory
<1>10. Lists
  <2>1. \A p \in Procs, l \in Levels :
          /\ Ordered(block_list[p][l])
          /\ Listed(p, l) = IF l = calculate_block_level(p) THEN {Base[p]} ELSE {}
    <3>1. \A a : Ordered(<<a>>) /\ Range(<<a>>) = {a}
      BY DEF Ordered, Range
    <3> QED
      BY <1>6, <3>1, EmptyList DEF Listed
  <2>2. BeingFreed = {}
    BY DEF BeingFreed, Init, Idle
  <2>3. FreeBlocks = {Base[p] : p \in Procs}
    BY <1>4, <1>5, <2>2 DEF FreeBlocks
  <2> QED
    BY <1>3, <1>5, <2>1, <2>3, BlockLevel
    DEF Lists, InOrder, ListedAreFree, FreeAreListed, ListedOnce
<1>11. Loops
  BY DEF Loops, Halving, Freeing, Init, Idle
<1> QED
  BY <1>8, <1>9, <1>10, <1>11 DEF Inv

-----------------------------------------------------------------------------
Freed(a) == \E p \in Procs : doing[p].op = "free" /\ doing[p].head = a

FreedAre == /\ BeingFreed = {a \in DOMAIN blocks : Freed(a)}
            /\ \A a : Freed(a) => a \in DOMAIN blocks

LEMMA FreedNow == TypeOK => FreedAre
  BY FreedMeans DEF Freed, BeingFreed, FreedAre

LEMMA FreedNext == TypeOK' => FreedAre'
  BY FreedNow, PTL

(* Steps that only enter or leave a loop. *)
LEMMA SameMemory == Inv /\ UNCHANGED <<blocks, block_list>> => Memory'
  BY DEF Inv, Memory, Apart, Cover, Within, Large, End

LEMMA SameLists ==
  ASSUME Inv, UNCHANGED <<blocks, block_list>>, FreeBlocks' = FreeBlocks
  PROVE  Lists'
  BY DEF Inv, Lists, InOrder, ListedAreFree, FreeAreListed, ListedOnce, Listed

LEMMA ExhaustedInv ==
  ASSUME Inv, NEW p \in Procs, NEW size \in Sizes, Exhausted(p, size)
  PROVE  Inv'
<1>1. TypeOK'
  BY DEF Inv, TypeOK, Exhausted, Idle, Aborted
<1>2. FreeBlocks' = FreeBlocks
  <2>1. \A q \in Procs : \A a : doing'[q] = [op |-> "free", head |-> a]
                              <=> doing[q] = [op |-> "free", head |-> a]
    BY DEF Inv, TypeOK, Exhausted, Idle, Aborted
  <2> QED
    BY <2>1 DEF FreeBlocks, BeingFreed, Exhausted
<1>3. Loops'
  BY DEF Inv, TypeOK, Loops, Halving, Freeing, Exhausted, Idle, Aborted, Fits
<1> QED
  BY <1>1, <1>2, <1>3, SameMemory, SameLists DEF Inv, Exhausted

LEMMA MallocInv ==
  ASSUME Inv, NEW p \in Procs, NEW size \in Sizes, Malloc(p, size)
  PROVE  Inv'
<1> DEFINE level == calculate_which_level(size)
           idx == Min(Stocked(p, level))
<1>1. Stocked(p, level) \in SUBSET Nat /\ Stocked(p, level) # {}
  BY DEF Malloc, Stocked, Levels
<1>2. /\ idx \in Stocked(p, level)
      /\ \A l \in Stocked(p, level) : idx <= l
  BY <1>1, MinProperties
<1>3. /\ level \in Levels /\ idx \in Levels /\ level <= idx /\ block_list[p][idx] # <<>>
      /\ Fits(size, level)
      /\ \A l \in Levels : level <= l /\ l < idx => block_list[p][l] = <<>>
  <2> HIDE DEF level, idx
  <2>1. idx \in Levels /\ level <= idx /\ block_list[p][idx] # <<>>
    BY <1>2 DEF Stocked
  <2>2. level \in Levels
    <3>1. level \in Nat
      BY WhichLevel DEF level
    <3> QED
      BY <2>1, <3>1, BuddyAssumption DEF Levels
  <2>3. ASSUME NEW l \in Levels, level <= l, l < idx PROVE block_list[p][l] = <<>>
    BY <1>2, <2>1, <2>3 DEF Stocked, Levels
  <2> QED
    BY <2>1, <2>2, <2>3, WhichLevel DEF level
<1>4. /\ UNCHANGED <<blocks, block_list>>
      /\ doing' = [doing EXCEPT ![p] = [op |-> "malloc", size |-> size, level |-> level,
                                        idx |-> idx]]
      /\ doing[p] = Idle
  BY DEF Malloc
<1> HIDE DEF level, idx
<1>5. TypeOK'
  BY <1>3, <1>4 DEF Inv, TypeOK, Idle, Aborted
<1>6. FreeBlocks' = FreeBlocks
  <2>1. \A q \in Procs : \A a : doing'[q] = [op |-> "free", head |-> a]
                              <=> doing[q] = [op |-> "free", head |-> a]
    BY <1>4 DEF Inv, TypeOK, Idle, Aborted
  <2> QED
    BY <2>1, <1>4 DEF FreeBlocks, BeingFreed
<1>7. Halving'
  BY <1>3, <1>4 DEF Inv, TypeOK, Loops, Halving, Idle, Aborted, Fits
<1>8. Freeing'
  BY <1>4 DEF Inv, TypeOK, Loops, Freeing, Idle, Aborted
<1> QED
  BY <1>4, <1>5, <1>6, <1>7, <1>8, SameMemory, SameLists DEF Inv, Loops

LEMMA FreeInv ==
  ASSUME Inv, NEW p \in Procs, NEW a \in DOMAIN blocks, Free(p, a)
  PROVE  Inv'
<1>1. /\ UNCHANGED <<blocks, block_list>>
      /\ doing' = [doing EXCEPT ![p] = [op |-> "free", head |-> a]]
      /\ doing[p] = Idle
      /\ ~blocks[a].is_free /\ a \notin BeingFreed
  BY DEF Free, Used
<1>2. TypeOK'
  <2>1. [op |-> "free", head |-> a] \in [op : {"free"}, head : DOMAIN blocks]
    OBVIOUS
  <2>2. \A q \in Procs : doing'[q] = IF q = p
                                       THEN [op |-> "free", head |-> a] ELSE doing[q]
    BY <1>1 DEF Inv, TypeOK
  <2> QED
    BY <1>1, <2>1, <2>2 DEF Inv, TypeOK, Idle, Aborted
<1>3. FreeBlocks' = FreeBlocks
  <2>1. \A q \in Procs : \A b : doing'[q] = [op |-> "free", head |-> b]
                              <=> \/ doing[q] = [op |-> "free", head |-> b]
                                  \/ q = p /\ b = a
    BY <1>1 DEF Inv, TypeOK, Idle, Aborted
  <2>2. BeingFreed' = BeingFreed \cup {a}
    BY <2>1, <1>1 DEF BeingFreed
  <2> QED
    BY <2>2, <1>1 DEF FreeBlocks
<1>4. Halving'
  BY <1>1 DEF Inv, TypeOK, Loops, Halving, Idle, Aborted, Fits
<1>5. Freeing'
  BY <1>1, FreedNow DEF Inv, TypeOK, Loops, Freeing, Idle, Aborted, Freed, FreedAre
<1> QED
  BY <1>1, <1>2, <1>3, <1>4, <1>5, SameMemory, SameLists DEF Inv, Loops

-----------------------------------------------------------------------------
(* Steps of buddy_malloc's second half. *)
LEMMA MallocLoop ==
  ASSUME Inv, NEW p \in Procs, doing[p].op = "malloc"
  PROVE  /\ doing[p] \in [op : {"malloc"}, size : Sizes, level : Levels, idx : Levels]
         /\ doing[p].level \in Levels /\ doing[p].idx \in Levels /\ doing[p].size \in Sizes
         /\ doing[p].level <= doing[p].idx /\ block_list[p][doing[p].idx] # <<>>
         /\ Fits(doing[p].size, doing[p].level)
         /\ \A l \in Levels :
              doing[p].level <= l /\ l < doing[p].idx => block_list[p][l] = <<>>
<1>1. doing[p] \in [op : {"malloc"}, size : Sizes, level : Levels, idx : Levels]
  BY DEF Inv, TypeOK, Idle, Aborted
<1>2. doing[p].level \in Levels /\ doing[p].idx \in Levels /\ doing[p].size \in Sizes
  BY <1>1
<1> QED
  BY <1>1, <1>2 DEF Inv, Loops, Halving

(* A process that goes on with its own loop leaves the others' as they are. *)
LEMMA OthersHalving ==
  ASSUME Inv, NEW p \in Procs, NEW q \in Procs, doing'[q] = doing[q],
         \A l \in Levels : block_list'[q][l] = block_list[q][l],
         doing'[q].op = "malloc"
  PROVE  /\ doing'[q].level <= doing'[q].idx
         /\ block_list'[q][doing'[q].idx] # <<>>
         /\ \A l \in Levels :
              doing'[q].level <= l /\ l < doing'[q].idx => block_list'[q][l] = <<>>
         /\ Fits(doing'[q].size, doing'[q].level)
  BY MallocLoop

LEMMA GrantInv == ASSUME Inv, NEW p \in Procs, Grant(p) PROVE Inv'
<1>0. PICK level, size, a : /\ level = doing[p].level /\ size = doing[p].size
                            /\ a = Head(block_list[p][level])
  OBVIOUS
<1>1. /\ level \in Levels /\ size \in Sizes /\ Fits(size, level) /\ block_list[p][level] # <<>>
      /\ doing[p].op = "malloc"
  <2>1. doing[p].op = "malloc" /\ doing[p].idx = level
    BY <1>0 DEF Grant
  <2> QED
    BY <1>0, <2>1, MallocLoop, SMTT(30)
<1>2. /\ a \in DOMAIN blocks /\ a \in FreeBlocks /\ a \in Listed(p, level)
      /\ blocks[a].level = level
      /\ Range(Tail(block_list[p][level])) = Listed(p, level) \ {a}
      /\ Ordered(Tail(block_list[p][level]))
      /\ Tail(block_list[p][level]) \in Seq(Managed)
  BY <1>0, <1>1, FirstOfList, SMTT(30)
<1>3. /\ block_list' = [block_list EXCEPT ![p][level] = Tail(@)]
      /\ blocks' = [blocks EXCEPT ![a] = [init_used_block(@) EXCEPT !.size = size]]
      /\ doing' = [doing EXCEPT ![p] = Idle]
  BY <1>0 DEF Grant
<1>4. /\ DOMAIN blocks' = DOMAIN blocks
      /\ \A x \in DOMAIN blocks : x # a => blocks'[x] = blocks[x]
      /\ blocks'[a] \in Header
      /\ blocks'[a].level = level /\ blocks'[a].host_pid = blocks[a].host_pid
      /\ ~blocks'[a].is_free /\ blocks'[a].size = size
  BY <1>1, <1>2, <1>3, ZenonT(30) DEF Inv, TypeOK, Header, init_used_block
<1>5. /\ block_list' \in [Procs -> [Levels -> Seq(Managed)]]
      /\ block_list'[p][level] = Tail(block_list[p][level])
      /\ \A q \in Procs, l \in Levels :
           q # p \/ l # level => block_list'[q][l] = block_list[q][l]
  BY <1>1, <1>2, <1>3 DEF Inv, TypeOK
<1>6. /\ doing'[p] = Idle /\ DOMAIN doing' = Procs
      /\ \A q \in Procs : q # p => doing'[q] = doing[q]
  BY <1>3 DEF Inv, TypeOK
<1>7. TypeOK'
  BY <1>4, <1>5, <1>6 DEF Inv, TypeOK
<1>8. \A x \in DOMAIN blocks :
        /\ blocks'[x].level = blocks[x].level /\ blocks'[x].host_pid = blocks[x].host_pid
        /\ End(x)' = End(x)
  BY <1>2, <1>4 DEF End
<1>9. Memory'
  <2>1. Apart'
    BY <1>4, <1>8 DEF Inv, Memory, Apart
  <2>2. Cover'
    BY <1>4, <1>8 DEF Inv, Memory, Cover
  <2>3. Within'
    BY <1>4, <1>8 DEF Inv, Memory, Within
  <2>4. Large'
    BY <1>1, <1>2, <1>4 DEF Inv, Memory, Large, Fits
  <2> QED
    BY <2>1, <2>2, <2>3, <2>4 DEF Memory
<1>10. FreeBlocks' = FreeBlocks \ {a}
  <2>1. \A x : Freed(x)' <=> Freed(x)
    BY <1>1, <1>6 DEF Freed, Idle
  <2>2. BeingFreed' = BeingFreed
    BY <1>4, <1>7, <2>1, FreedNow, FreedNext DEF Inv, FreedAre
  <2> QED
    BY <1>4, <2>2 DEF FreeBlocks
<1>11. /\ Listed(p, level)' = Listed(p, level) \ {a}
       /\ \A q \in Procs, l \in Levels : q # p \/ l # level => Listed(q, l)' = Listed(q, l)
  BY <1>2, <1>5 DEF Listed
<1>12. Lists'
  <2>1. InOrder'
    BY <1>2, <1>5 DEF Inv, Lists, InOrder
  <2>2. ListedAreFree'
    <3>1. ASSUME NEW q \in Procs, NEW l \in Levels, NEW x \in Listed(q, l)'
          PROVE  x \in FreeBlocks' /\ blocks'[x].level = l
      <4>1. x \in Listed(q, l)
        BY <1>11, <3>1
      <4>2. x \in FreeBlocks /\ blocks[x].level = l /\ x \in DOMAIN blocks
        BY <4>1 DEF Inv, Lists, ListedAreFree, FreeBlocks
      <4>3. x # a
        <5>1. CASE q = p /\ l = level
          BY <1>11, <3>1, <5>1
        <5>2. CASE q # p
          BY <1>1, <1>2, <4>1, <4>2, <5>2 DEF Inv, Lists, ListedOnce
        <5>3. CASE l # level
          BY <1>2, <4>2, <5>3
        <5> QED
          BY <5>1, <5>2, <5>3
      <4> QED
        BY <1>4, <1>10, <4>2, <4>3
    <3> QED
      BY <3>1 DEF ListedAreFree
  <2>3. FreeAreListed'
    <3>1. ASSUME NEW x \in FreeBlocks' PROVE \E q \in Procs : x \in Listed(q, blocks[x].level)'
      <4>1. x \in FreeBlocks /\ x # a /\ x \in DOMAIN blocks /\ blocks[x].level \in Levels
        BY <1>10, SoundBlocks DEF FreeBlocks, Inv, Sound
      <4>2. PICK l \in Levels, q \in Procs : l = blocks[x].level /\ x \in Listed(q, l)
        BY <4>1 DEF Inv, Lists, FreeAreListed
      <4>3. x \in Listed(q, l)' /\ blocks'[x].level = l
        BY <1>4, <1>11, <4>1, <4>2
      <4> QED
        BY <4>3 DEF Listed
    <3> QED
      BY <3>1 DEF FreeAreListed
  <2>4. ListedOnce'
    BY <1>11 DEF Inv, Lists, ListedOnce
  <2> QED
    BY <2>1, <2>2, <2>3, <2>4 DEF Lists
<1>13. Loops'
  <2>1. Halving'
    <3>1. ASSUME NEW q \in Procs, doing'[q].op = "malloc"
          PROVE  /\ q # p /\ doing'[q] = doing[q]
                 /\ \A l \in Levels : block_list'[q][l] = block_list[q][l]
      BY <1>5, <1>6, <3>1 DEF Idle
    <3> QED
      BY <3>1, OthersHalving DEF Halving, Fits
  <2>2. Freeing'
    BY <1>6 DEF Inv, Loops, Freeing, Idle
  <2> QED
    BY <2>1, <2>2 DEF Loops
<1> QED
  BY <1>7, <1>9, <1>12, <1>13 DEF Inv

LEMMA SplitInv == ASSUME Inv, NEW p \in Procs, Split(p) PROVE Inv'
<1>0. PICK idx, low, a, b, old : /\ idx = doing[p].idx /\ low = idx - 1
                                 /\ a = Head(block_list[p][idx]) /\ b = UpperHalf(a, idx)
                                 /\ old = Listed(p, idx)
  OBVIOUS
<1>1. /\ idx \in Levels /\ doing[p].level \in Levels /\ doing[p].level < idx
      /\ doing[p].op = "malloc" /\ block_list[p][idx] # <<>>
  <2>1. doing[p].op = "malloc" /\ idx > doing[p].level
    BY <1>0 DEF Split
  <2> QED
    BY <1>0, <2>1, SMTT(30) DEF Inv, TypeOK, Idle, Aborted, Loops, Halving
<1>2. /\ low \in Levels /\ low # idx /\ doing[p].level <= low
      /\ block_list[p][low] = <<>>
      /\ Pages[idx] = 2 * Pages[low] /\ Pages[low] \in Nat /\ Pages[low] > 0
  <2>1. low \in Levels /\ low # idx /\ doing[p].level <= low /\ low + 1 = idx /\ low < idx
        /\ low \in 0 .. MaxLevel
    <3>1. idx \in Nat /\ doing[p].level \in Nat /\ idx < MaxLevel /\ MaxLevel \in Nat
      BY <1>1, BuddyAssumption DEF Levels
    <3> QED
      BY <1>0, <1>1, <3>1 DEF Levels
  <2>2. block_list[p][low] = <<>>
    BY <1>0, <1>1, <2>1 DEF Inv, Loops, Halving
  <2>3. Pages[idx] = 2 * Pages[low]
    BY <2>1, BuddyAssumption, SMTT(30)
  <2> QED
    BY <2>1, <2>2, <2>3, PagesPositive
<1>3. /\ a \in DOMAIN blocks /\ a \in FreeBlocks /\ a \in old
      /\ blocks[a].level = idx /\ blocks[a].is_free
      /\ Range(Tail(block_list[p][idx])) = old \ {a}
      /\ Ordered(Tail(block_list[p][idx]))
      /\ Tail(block_list[p][idx]) \in Seq(Managed)
  BY <1>0, <1>1, FirstOfList, SMTT(30)
<1>4. /\ block_list' = [block_list EXCEPT ![p][idx] = Tail(@), ![p][low] = <<a, b>>]
      /\ blocks' = [x \in DOMAIN blocks \cup {b} |->
                      CASE x = a -> init_free_block(blocks[a], low, FALSE)
                        [] x = b -> init_free_block(blocks[a], low, TRUE)
                        [] OTHER -> blocks[x]]
      /\ doing' = [doing EXCEPT ![p].idx = low]
  <2>1. /\ block_list' = [block_list EXCEPT ![p][idx] = Tail(@), ![p][low] = <<a, b>>]
        /\ blocks' = Halved(a, b, low)
        /\ doing' = [doing EXCEPT ![p].idx = low]
    BY <1>0 DEF Split
  <2> QED
    BY <2>1 DEF Halved
<1>5. b = a + Pages[low]
  BY <1>0 DEF UpperHalf
<1>6. /\ Sound(a) /\ End(a) = b + Pages[low] /\ a < b /\ b < End(a) /\ b \in Nat
  <2>1. Sound(a) /\ End(a) = a + 2 * Pages[low]
    BY <1>2, <1>3, SoundBlocks DEF Inv, End
  <2> QED
    BY <1>2, <1>5, <2>1 DEF Sound
<1>7. b \notin DOMAIN blocks
  <2> SUFFICES ASSUME b \in DOMAIN blocks PROVE FALSE
    OBVIOUS
  <2>1. End(a) <= b
    BY <1>3, <1>6 DEF Inv, Memory, Apart
  <2> QED
    BY <1>6, <2>1 DEF Sound
<1>8. /\ Base[blocks[a].host_pid] <= a /\ End(a) <= Limit(blocks[a].host_pid)
      /\ Base[blocks[a].host_pid] \in Nat /\ Limit(blocks[a].host_pid) \in Nat
  BY <1>3, <1>6, LimitType DEF Inv, Memory, Within, Sound
<1>9. b \in Managed
  <2>1. /\ Base[blocks[a].host_pid] <= b /\ b < Limit(blocks[a].host_pid)
        /\ blocks[a].host_pid \in Procs
    BY <1>6, <1>8 DEF Sound
  <2> QED
    BY <1>6, <2>1, ManagedMeans
<1>10. /\ DOMAIN blocks' = DOMAIN blocks \cup {b}
       /\ \A x \in DOMAIN blocks : x # a => blocks'[x] = blocks[x]
       /\ \A x \in {a, b} :
            /\ blocks'[x] \in Header /\ blocks'[x].level = low
            /\ blocks'[x].host_pid = blocks[a].host_pid
            /\ blocks'[x].is_free
  <2>1. blocks[a] \in Header
    BY <1>3 DEF Inv, TypeOK
  <2>2. a # b
    BY <1>3, <1>7
  <2>3. /\ blocks'[a] = init_free_block(blocks[a], low, FALSE)
        /\ blocks'[b] = init_free_block(blocks[a], low, TRUE)
    BY <1>3, <1>4, <2>2
  <2>4. \A x \in DOMAIN blocks : x # a => blocks'[x] = blocks[x]
    BY <1>4, <1>7
  <2>5. \A block \in Header, first \in BOOLEAN :
          /\ init_free_block(block, low, first) \in Header
          /\ init_free_block(block, low, first).level = low
          /\ init_free_block(block, low, first).host_pid = block.host_pid
          /\ init_free_block(block, low, first).is_free
    BY <1>2 DEF init_free_block, Header
  <2> QED
    <3>1. \A x \in {a, b} :
            \E first \in BOOLEAN : blocks'[x] = init_free_block(blocks[a], low, first)
      BY <2>3
    <3>2. DOMAIN blocks' = DOMAIN blocks \cup {b}
      BY <1>4
    <3> QED
      BY <2>1, <2>4, <2>5, <3>1, <3>2
<1>11. /\ <<a, b>> \in Seq(Managed) /\ Ordered(<<a, b>>) /\ Range(<<a, b>>) = {a, b}
  BY <1>6, <1>9, TwoInList, ManagedIsNat DEF Sound
<1>12. /\ block_list' \in [Procs -> [Levels -> Seq(Managed)]]
       /\ block_list'[p][idx] = Tail(block_list[p][idx])
       /\ block_list'[p][low] = <<a, b>>
       /\ \A q \in Procs, l \in Levels :
            q # p \/ (l # idx /\ l # low) => block_list'[q][l] = block_list[q][l]
  <2>1. block_list \in [Procs -> [Levels -> Seq(Managed)]]
    BY DEF Inv, TypeOK
  <2> QED
    BY <1>1, <1>2, <1>3, <1>4, <1>11, <2>1
<1>13. /\ doing'[p].op = "malloc" /\ doing'[p].idx = low
       /\ doing'[p].size = doing[p].size /\ doing'[p].level = doing[p].level
       /\ doing'[p] \in [op : {"malloc"}, size : Sizes, level : Levels, idx : Levels]
       /\ DOMAIN doing' = Procs
       /\ \A q \in Procs : q # p => doing'[q] = doing[q]
  <2>1. doing[p] \in [op : {"malloc"}, size : Sizes, level : Levels, idx : Levels]
    BY <1>1 DEF Inv, TypeOK, Idle, Aborted
  <2> QED
    BY <1>2, <1>4, <2>1 DEF Inv, TypeOK
<1>14. TypeOK'
  <2>1. DOMAIN blocks' \subseteq Managed /\ \A x \in DOMAIN blocks' : blocks'[x] \in Header
    BY <1>9, <1>10 DEF Inv, TypeOK
  <2>2. ASSUME NEW q \in Procs, q # p
        PROVE  \/ doing'[q] \in {Idle, Aborted}
               \/ doing'[q] \in [op : {"malloc"}, size : Sizes, level : Levels, idx : Levels]
               \/ doing'[q] \in [op : {"free"}, head : DOMAIN blocks']
    BY <1>10, <1>13, <2>2 DEF Inv, TypeOK
  <2> QED
    BY <1>12, <1>13, <2>1, <2>2 DEF TypeOK
<1>15. /\ End(a)' = b /\ End(b)' = End(a)
       /\ \A x \in DOMAIN blocks : x # a => End(x)' = End(x)
  BY <1>5, <1>6, <1>10 DEF End
<1>16. Memory'
  <2>0. \A x \in DOMAIN blocks : x \in Nat /\ End(x) \in Nat /\ x < End(x)
    BY SoundBlocks DEF Inv, Sound
  <2>1. Apart'
    <3> SUFFICES ASSUME NEW x \in DOMAIN blocks', NEW y \in DOMAIN blocks', x < y
                 PROVE  End(x)' <= y
      BY DEF Apart
    <3>0. \A u, v \in DOMAIN blocks : u < v => End(u) <= v
      BY DEF Inv, Memory, Apart
    <3>1. CASE x = b /\ y \in DOMAIN blocks
      <4>1. a < y
        BY <1>6, <2>0, <3>1 DEF Sound
      <4> QED
        BY <1>3, <1>15, <3>0, <3>1, <4>1
    <3>2. CASE x = b /\ y = b
      BY <1>6, <3>2
    <3>3. CASE x \in DOMAIN blocks /\ y = b
      <4>1. CASE x = a
        BY <1>6, <1>15, <3>3, <4>1
      <4>2. CASE x # a
        <5>1. ~(a < x)
          <6> SUFFICES ASSUME a < x PROVE FALSE
            OBVIOUS
          <6>1. End(a) <= x
            BY <1>3, <3>0, <3>3
          <6> QED
            BY <1>6, <2>0, <3>3, <6>1 DEF Sound
        <5>2. x < a
          BY <1>6, <2>0, <3>3, <4>2, <5>1 DEF Sound
        <5>3. End(x) <= a
          BY <1>3, <3>0, <3>3, <5>2
        <5> QED
          BY <1>6, <1>15, <2>0, <3>3, <4>2, <5>3 DEF Sound
      <4> QED
        BY <4>1, <4>2
    <3>4. CASE x \in DOMAIN blocks /\ y \in DOMAIN blocks
      <4>1. End(x) <= y
        BY <3>0, <3>4
      <4> QED
        BY <1>6, <1>15, <2>0, <3>4, <4>1 DEF Sound
    <3> QED
      BY <1>10, <3>1, <3>2, <3>3, <3>4
  <2>2. Cover'
    <3> SUFFICES ASSUME NEW x \in Managed
                 PROVE  \E c \in DOMAIN blocks' : c <= x /\ x < End(c)'
      BY DEF Cover
    <3>1. PICK c \in DOMAIN blocks : c <= x /\ x < End(c)
      BY DEF Inv, Memory, Cover
    <3>2. CASE c # a
      BY <1>10, <1>15, <3>1, <3>2
    <3>3. CASE c = a /\ x < b
      BY <1>10, <1>15, <3>1, <3>3
    <3>4. CASE c = a /\ ~(x < b)
      <4>1. x \in Nat
        BY ManagedIsNat
      <4>2. b <= x /\ x < End(b)'
        BY <1>6, <1>15, <3>1, <3>4, <4>1
      <4> QED
        BY <1>10, <4>2
    <3> QED
      BY <3>2, <3>3, <3>4
  <2>3. Within'
    <3> SUFFICES ASSUME NEW x \in DOMAIN blocks'
                 PROVE  Base[blocks'[x].host_pid] <= x /\ End(x)' <= Limit(blocks'[x].host_pid)
      BY DEF Within, Limit, calculate_block_level
    <3>1. CASE x = a
      BY <1>6, <1>8, <1>10, <1>15, <3>1 DEF Sound
    <3>2. CASE x = b
      BY <1>6, <1>8, <1>10, <1>15, <3>2 DEF Sound
    <3>3. CASE x \in DOMAIN blocks /\ x # a
      BY <1>10, <1>15, <3>3 DEF Inv, Memory, Within
    <3> QED
      BY <1>10, <3>1, <3>2, <3>3
  <2>4. Large'
    BY <1>10 DEF Inv, Memory, Large, Fits
  <2> QED
    BY <2>1, <2>2, <2>3, <2>4 DEF Memory
<1>17. FreeBlocks' = FreeBlocks \cup {b}
  <2>1. \A x : Freed(x)' <=> Freed(x)
    BY <1>1, <1>13 DEF Freed
  <2>2. BeingFreed' = BeingFreed /\ b \notin BeingFreed
    BY <1>7, <1>14, <2>1, FreedNow, FreedNext DEF Inv, FreedAre
  <2>3. blocks'[a].is_free /\ blocks'[b].is_free /\ blocks[a].is_free
    BY <1>3, <1>10
  <2> QED
    BY <1>10, <2>2, <2>3 DEF FreeBlocks
<1>18. /\ Listed(p, idx)' = Listed(p, idx) \ {a}
       /\ Listed(p, low)' = {a, b} /\ Listed(p, low) = {}
       /\ \A q \in Procs, l \in Levels :
            q # p \/ (l # idx /\ l # low) => Listed(q, l)' = Listed(q, l)
  BY <1>0, <1>1, <1>2, <1>3, <1>11, <1>12, EmptyList, Zenon DEF Listed
<1>19. \A q \in Procs, l \in Levels :
         a \in Listed(q, l) => q = p /\ l = idx
  <2> TAKE q \in Procs, l \in Levels
  <2> SUFFICES ASSUME a \in Listed(q, l) PROVE q = p /\ l = idx
    OBVIOUS
  <2>1. l = idx
    BY <1>3 DEF Inv, Lists, ListedAreFree
  <2> QED
    BY <1>0, <1>1, <1>3, <2>1, SMTT(30) DEF Inv, Lists, ListedOnce
<1>20. Lists'
  <2>0. \A q \in Procs, l \in Levels : \A x \in Listed(q, l) :
          x \in FreeBlocks /\ blocks[x].level = l /\ x \in DOMAIN blocks
    BY DEF Inv, Lists, ListedAreFree, FreeBlocks
  <2>1. InOrder'
    BY <1>3, <1>11, <1>12 DEF Inv, Lists, InOrder
  <2>2. ListedAreFree'
    <3>1. ASSUME NEW q \in Procs, NEW l \in Levels, NEW x \in Listed(q, l)'
          PROVE  x \in FreeBlocks' /\ blocks'[x].level = l
      <4>1. CASE q = p /\ l = low
        BY <1>3, <1>10, <1>17, <1>18, <3>1, <4>1
      <4>2. CASE ~(q = p /\ l = low)
        <5>1. x \in Listed(q, l) /\ x # a
          BY <1>18, <1>19, <3>1, <4>2
        <5> QED
          BY <1>10, <1>17, <2>0, <5>1
      <4> QED
        BY <4>1, <4>2
    <3> QED
      BY <3>1 DEF ListedAreFree
  <2>3. FreeAreListed'
    <3>1. ASSUME NEW x \in FreeBlocks' PROVE \E q \in Procs : x \in Listed(q, blocks[x].level)'
      <4>1. CASE x \in {a, b}
        <5>1. x \in Listed(p, low)' /\ blocks'[x].level = low
          BY <1>10, <1>18, <4>1
        <5> QED
          BY <5>1 DEF Listed
      <4>2. CASE x \notin {a, b}
        <5>1. x \in FreeBlocks /\ x \in DOMAIN blocks /\ blocks'[x] = blocks[x]
              /\ blocks[x].level \in Levels
          BY <1>10, <1>17, <4>2, SoundBlocks DEF FreeBlocks, Inv, Sound
        <5>2. PICK l \in Levels, q \in Procs : l = blocks[x].level /\ x \in Listed(q, l)
          BY <5>1 DEF Inv, Lists, FreeAreListed
        <5>3. x \in Listed(q, l)' /\ blocks'[x].level = l
          BY <1>18, <4>2, <5>1, <5>2
        <5> QED
          BY <5>3 DEF Listed
      <4> QED
        BY <4>1, <4>2
    <3> QED
      BY <3>1 DEF FreeAreListed
  <2>4. ListedOnce'
    <3> SUFFICES ASSUME NEW q \in Procs, NEW r \in Procs, NEW l \in Levels, q # r,
                        NEW x \in Listed(q, l)', x \in Listed(r, l)'
                 PROVE  FALSE
      BY DEF ListedOnce
    <3>1. \A s \in Procs : x \in Listed(s, l)' =>
            (s = p /\ l = low /\ x \in {a, b}) \/ (x \in Listed(s, l) /\ x # a)
      BY <1>18, <1>19
    <3>2. \A s \in Procs : ~(x \in {a, b} /\ x \in Listed(s, l) /\ x # a)
      BY <1>7, <2>0
    <3> QED
      BY <3>1, <3>2 DEF Inv, Lists, ListedOnce
  <2> QED
    BY <2>1, <2>2, <2>3, <2>4 DEF Lists
<1>21. Loops'
  <2>1. Halving'
    <3> SUFFICES ASSUME NEW q \in Procs, doing'[q].op = "malloc"
                 PROVE  /\ doing'[q].level <= doing'[q].idx
                        /\ block_list'[q][doing'[q].idx] # <<>>
                        /\ \A l \in Levels : doing'[q].level <= l /\ l < doing'[q].idx
                                               => block_list'[q][l] = <<>>
                        /\ Fits(doing'[q].size, doing'[q].level)
      BY DEF Halving, Fits
    <3>1. CASE q # p
      <4>1. doing'[q] = doing[q] /\ \A l \in Levels : block_list'[q][l] = block_list[q][l]
        BY <1>12, <1>13, <3>1
      <4> QED
        BY <4>1, OthersHalving
    <3>2. CASE q = p
      <4>1. <<a, b>> # <<>>
        OBVIOUS
      <4>2. Fits(doing[p].size, doing[p].level)
        BY <1>1 DEF Inv, Loops, Halving
      <4>3. ASSUME NEW l \in Levels, doing[p].level <= l, l < low
            PROVE  block_list'[p][l] = <<>>
        <5>1. l < idx /\ l # low /\ l # idx
          BY <1>0, <1>1, <4>3 DEF Levels
        <5> QED
          BY <1>0, <1>1, <1>12, <4>3, <5>1, ZenonT(30) DEF Inv, Loops, Halving
      <4> QED
        BY <1>2, <1>12, <1>13, <3>2, <4>1, <4>2, <4>3
    <3> QED
      BY <3>1, <3>2
  <2>2. Freeing'
    BY <1>13 DEF Inv, Loops, Freeing
  <2> QED
    BY <2>1, <2>2 DEF Loops
<1> QED
  BY <1>14, <1>16, <1>20, <1>21 DEF Inv

-----------------------------------------------------------------------------
(* Steps of buddy_free's loop. *)
LEMMA FreeLoop ==
  ASSUME Inv, NEW p \in Procs, doing[p].op = "free"
  PROVE  /\ doing[p].head \in DOMAIN blocks /\ Freed(doing[p].head)
         /\ \A q \in Procs : q # p /\ doing[q].op = "free" => doing[q].head # doing[p].head
  BY FreedNow DEF Inv, FreedAre, Freed, Loops, Freeing

(* Who is being freed is on no list. *)
LEMMA ListedMeans ==
  ASSUME Inv, NEW p \in Procs, NEW l \in Levels, NEW x \in Listed(p, l)
  PROVE  /\ x \in FreeBlocks /\ x \in DOMAIN blocks /\ blocks[x].level = l
         /\ blocks[x].is_free /\ ~Freed(x)
         /\ \A q \in Procs, m \in Levels : x \in Listed(q, m) => q = p /\ m = l
<1>1. x \in FreeBlocks /\ blocks[x].level = l
  BY DEF Inv, Lists, ListedAreFree
<1>2. x \in DOMAIN blocks /\ blocks[x].is_free /\ ~Freed(x)
  BY <1>1, FreedNow DEF FreeBlocks, Inv, FreedAre
<1>3. ASSUME NEW q \in Procs, NEW m \in Levels, x \in Listed(q, m) PROVE q = p /\ m = l
  <2>1. m = l
    BY <1>1, <1>3 DEF Inv, Lists, ListedAreFree
  <2> QED
    BY <1>3, <2>1 DEF Inv, Lists, ListedOnce
<1> QED
  BY <1>1, <1>2, <1>3

LEMMA InsertInv == ASSUME Inv, NEW p \in Procs, Insert(p) PROVE Inv'
<1>0. PICK head, level, list, i, new :
        /\ head = doing[p].head /\ level = blocks[head].level
        /\ list = block_list[p][level] /\ i = StopAt(head, list)
        /\ new = PutBefore(list, i, head)
  OBVIOUS
<1>1. /\ doing[p].op = "free"
      /\ i # 0 => ~buddy_is_buddy(head, list[i])
      /\ block_list' = [block_list EXCEPT ![p][level] = PutBefore(@, i, head)]
      /\ blocks' = [blocks EXCEPT ![head] = init_free_block(@, level, @.is_first)]
      /\ doing' = [doing EXCEPT ![p] = Idle]
  BY <1>0, Zenon DEF Insert
<1>2. /\ head \in DOMAIN blocks /\ Freed(head) /\ Sound(head) /\ level \in Levels
      /\ \A q \in Procs : q # p /\ doing[q].op = "free" => doing[q].head # head
  BY <1>0, <1>1, FreeLoop, SoundBlocks, Zenon DEF Inv, Sound
<1>3. \A q \in Procs, l \in Levels : head \notin Listed(q, l)
  BY <1>2, ListedMeans
<1>4. /\ list \in Seq(Managed) /\ Ordered(list) /\ Range(list) = Listed(p, level)
      /\ Len(list) \in Nat /\ DOMAIN list = 1 .. Len(list)
      /\ \A j \in 1 .. Len(list) : list[j] \in Nat /\ list[j] # head
  <2>1. list \in Seq(Managed) /\ Ordered(list) /\ Range(list) = Listed(p, level)
    BY <1>0, <1>2, ListType DEF Inv, Lists, InOrder, Listed
  <2>2. Len(list) \in Nat /\ DOMAIN list = 1 .. Len(list)
        /\ \A j \in 1 .. Len(list) : list[j] \in Managed
    BY <2>1, LenProperties, ElementOfSeq
  <2>3. \A j \in 1 .. Len(list) : list[j] # head
    BY <1>2, <1>3, <2>1, <2>2 DEF Range
  <2> QED
    BY <2>1, <2>2, <2>3, ManagedIsNat
<1>5. /\ new \in Seq(Managed) /\ Ordered(new)
      /\ Range(new) = Listed(p, level) \cup {head}
  <2>1. /\ i \in 0 .. Len(list)
        /\ i # 0 => head < list[i]
        /\ \A j \in 1 .. Len(list) : i = 0 \/ j < i => ~(head < list[j])
    BY <1>0, <1>1, <1>4, StopAtProperties, ManagedIsNat, Zenon
  <2>2. \A j \in 1 .. Len(list) : i = 0 \/ j < i => list[j] < head
    BY <1>2, <1>4, <2>1 DEF Sound
  <2>3. CASE i = 0
    <3>1. new = Append(list, head)
      BY <1>0, <2>3, Zenon DEF PutBefore
    <3> QED
      BY <1>2, <1>4, <2>2, <2>3, <3>1, AppendedToList, ManagedIsNat DEF Sound
  <2>4. CASE i # 0
    <3>1. new = InsertAt(list, i, head)
      BY <1>0, <2>4 DEF PutBefore
    <3>2. i \in 1 .. Len(list) /\ \A j \in 1 .. i - 1 : list[j] < head
      BY <1>4, <2>1, <2>2, <2>4
    <3> QED
      <4>1. Managed \in SUBSET Nat /\ head \in Managed /\ head < list[i]
        BY <1>2, <2>1, <2>4, ManagedIsNat DEF Sound
      <4>2. /\ InsertAt(list, i, head) \in Seq(Managed) /\ Ordered(InsertAt(list, i, head))
            /\ Range(InsertAt(list, i, head)) = Range(list) \cup {head}
        <5>1. list \in Seq(Managed) /\ Ordered(list)
          BY <1>4
        <5>2. \A k \in 1 .. Len(list) :
                head < list[k] /\ (\A j \in 1 .. k - 1 : list[j] < head) =>
                  /\ InsertAt(list, k, head) \in Seq(Managed)
                  /\ Ordered(InsertAt(list, k, head))
                  /\ Range(InsertAt(list, k, head)) = Range(list) \cup {head}
          BY <4>1, <5>1, InsertedInList, SMTT(30)
        <5> QED
          BY <3>2, <4>1, <5>2
      <4> QED
        BY <1>4, <3>1, <4>2
  <2> QED
    BY <2>3, <2>4
<1>6. /\ DOMAIN blocks' = DOMAIN blocks
      /\ \A x \in DOMAIN blocks : x # head => blocks'[x] = blocks[x]
      /\ blocks'[head] \in Header /\ blocks'[head].is_free
      /\ blocks'[head].level = level /\ blocks'[head].host_pid = blocks[head].host_pid
  <2>1. blocks[head] \in Header
    BY <1>2 DEF Inv, TypeOK
  <2>2. blocks'[head] = init_free_block(blocks[head], level, blocks[head].is_first)
    BY <1>1, <1>2
  <2>3. /\ blocks'[head] \in Header /\ blocks'[head].is_free
        /\ blocks'[head].level = level /\ blocks'[head].host_pid = blocks[head].host_pid
    BY <1>2, <2>1, <2>2 DEF init_free_block, Header
  <2> QED
    BY <1>1, <2>3
<1>7. /\ block_list' \in [Procs -> [Levels -> Seq(Managed)]]
      /\ block_list'[p][level] = new
      /\ \A q \in Procs, l \in Levels :
           q # p \/ l # level => block_list'[q][l] = block_list[q][l]
  <2>1. block_list \in [Procs -> [Levels -> Seq(Managed)]]
    BY DEF Inv, TypeOK
  <2>2. block_list' = [block_list EXCEPT ![p][level] = new]
    BY <1>0, <1>1
  <2> QED
    BY <1>2, <1>5, <2>1, <2>2
<1>8. /\ doing'[p] = Idle /\ DOMAIN doing' = Procs
      /\ \A q \in Procs : q # p => doing'[q] = doing[q]
  BY <1>1 DEF Inv, TypeOK
<1>9. TypeOK'
  BY <1>6, <1>7, <1>8 DEF Inv, TypeOK
<1>10. \A x \in DOMAIN blocks :
         /\ blocks'[x].level = blocks[x].level /\ blocks'[x].host_pid = blocks[x].host_pid
         /\ End(x)' = End(x)
  BY <1>0, <1>6, Zenon DEF End
<1>11. Memory'
  <2>1. Apart'
    BY <1>6, <1>10 DEF Inv, Memory, Apart
  <2>2. Cover'
    BY <1>6, <1>10 DEF Inv, Memory, Cover
  <2>3. Within'
    BY <1>6, <1>10 DEF Inv, Memory, Within
  <2>4. Large'
    BY <1>6 DEF Inv, Memory, Large, Fits
  <2> QED
    BY <2>1, <2>2, <2>3, <2>4 DEF Memory
<1>12. FreeBlocks' = FreeBlocks \cup {head}
  <2>1. \A x : Freed(x)' <=> Freed(x) /\ x # head
    BY <1>0, <1>2, <1>8 DEF Freed, Idle
  <2>2. BeingFreed' = BeingFreed \ {head}
    BY <1>6, <1>9, <2>1, FreedNow, FreedNext DEF Inv, FreedAre
  <2> QED
    BY <1>2, <1>6, <2>2 DEF FreeBlocks
<1>13. /\ Listed(p, level)' = Listed(p, level) \cup {head}
       /\ \A q \in Procs, l \in Levels : q # p \/ l # level => Listed(q, l)' = Listed(q, l)
  BY <1>5, <1>7 DEF Listed
<1>14. Lists'
  <2>1. InOrder'
    BY <1>5, <1>7 DEF Inv, Lists, InOrder
  <2>2. ListedAreFree'
    <3>1. ASSUME NEW q \in Procs, NEW l \in Levels, NEW x \in Listed(q, l)'
          PROVE  x \in FreeBlocks' /\ blocks'[x].level = l
      <4>1. CASE x = head
        <5>1. q = p /\ l = level
          BY <1>3, <1>13, <3>1, <4>1
        <5> QED
          BY <1>6, <1>12, <4>1, <5>1
      <4>2. CASE x # head
        <5>1. x \in Listed(q, l)
          BY <1>13, <3>1, <4>2
        <5> QED
          BY <1>6, <1>12, <4>2, <5>1, ListedMeans
      <4> QED
        BY <4>1, <4>2
    <3> QED
      BY <3>1 DEF ListedAreFree
  <2>3. FreeAreListed'
    <3>1. ASSUME NEW x \in FreeBlocks' PROVE \E q \in Procs : x \in Listed(q, blocks[x].level)'
      <4>1. CASE x = head
        <5>1. x \in Listed(p, level)' /\ blocks'[x].level = level
          BY <1>6, <1>13, <4>1
        <5> QED
          BY <5>1 DEF Listed
      <4>2. CASE x # head
        <5>1. x \in FreeBlocks /\ x \in DOMAIN blocks /\ blocks[x].level \in Levels
          BY <1>12, <4>2, SoundBlocks DEF FreeBlocks, Inv, Sound
        <5>2. PICK l \in Levels, q \in Procs : l = blocks[x].level /\ x \in Listed(q, l)
          BY <5>1 DEF Inv, Lists, FreeAreListed
        <5>3. x \in Listed(q, l)' /\ blocks'[x].level = l
          BY <1>6, <1>13, <4>2, <5>1, <5>2
        <5> QED
          BY <5>3 DEF Listed
      <4> QED
        BY <4>1, <4>2
    <3> QED
      BY <3>1 DEF FreeAreListed
  <2>4. ListedOnce'
    BY <1>3, <1>13 DEF Inv, Lists, ListedOnce
  <2> QED
    BY <2>1, <2>2, <2>3, <2>4 DEF Lists
<1>15. Loops'
  <2>1. Halving'
    <3>1. ASSUME NEW q \in Procs, doing'[q].op = "malloc"
          PROVE  /\ q # p /\ doing'[q] = doing[q]
                 /\ \A l \in Levels : block_list'[q][l] = block_list[q][l]
      BY <1>7, <1>8, <3>1 DEF Idle
    <3> QED
      BY <3>1, OthersHalving DEF Halving, Fits
  <2>2. Freeing'
    BY <1>8 DEF Inv, Loops, Freeing, Idle
  <2> QED
    BY <2>1, <2>2 DEF Loops
<1> QED
  BY <1>9, <1>11, <1>14, <1>15 DEF Inv

LEMMA MergeInv == ASSUME Inv, NEW p \in Procs, Merge(p) PROVE Inv'
<1>0. PICK head, level, list, i, b, addr :
        /\ head = doing[p].head /\ level = blocks[head].level
        /\ list = block_list[p][level] /\ i = StopAt(head, list)
        /\ b = list[i] /\ addr = MergedAt(head, b)
  OBVIOUS
<1>1. /\ doing[p].op = "free"
      /\ i # 0 /\ buddy_is_buddy(head, b)
      /\ block_list' = [block_list EXCEPT ![p][level] = buddy_remove_block(@, i)]
      /\ blocks' = [x \in DOMAIN blocks \ ({head, b} \ {addr}) |->
                      IF x = addr
                        THEN init_free_block(blocks[x], level + 1, blocks[x].is_first)
                        ELSE blocks[x]]
      /\ doing' = [doing EXCEPT ![p].head = addr]
  BY <1>0, Zenon DEF Merge
<1>2. /\ head \in DOMAIN blocks /\ Freed(head) /\ Sound(head) /\ level \in Levels
      /\ \A q \in Procs : q # p /\ doing[q].op = "free" => doing[q].head # head
  BY <1>0, <1>1, FreeLoop, SoundBlocks, ZenonT(30) DEF Inv, Sound
<1>3. /\ list \in Seq(Managed) /\ Ordered(list) /\ Range(list) = Listed(p, level)
      /\ i \in 1 .. Len(list) /\ b \in Listed(p, level)
  <2>1. list \in Seq(Managed) /\ Ordered(list) /\ Range(list) = Listed(p, level)
    BY <1>0, <1>2, ListType DEF Inv, Lists, InOrder, Listed
  <2>2. Len(list) \in Nat /\ DOMAIN list = 1 .. Len(list)
    BY <2>1, LenProperties
  <2>3. i \in 0 .. Len(list)
    BY <1>0, <2>1, StopAtProperties, ManagedIsNat, Zenon
  <2>4. i \in 1 .. Len(list)
    BY <1>1, <2>2, <2>3
  <2>5. b \in Range(list)
    BY <1>0, <2>2, <2>4, Zenon DEF Range
  <2> QED
    BY <2>1, <2>4, <2>5
<1>4. /\ b \in DOMAIN blocks /\ Sound(b) /\ b # head /\ ~Freed(b) /\ b \in FreeBlocks
      /\ blocks[b].level = level
      /\ \A q \in Procs, l \in Levels : b \in Listed(q, l) => q = p /\ l = level
  <2>1. /\ b \in DOMAIN blocks /\ ~Freed(b) /\ blocks[b].level = level /\ b \in FreeBlocks
        /\ \A q \in Procs, l \in Levels : b \in Listed(q, l) => q = p /\ l = level
    BY <1>2, <1>3, ListedMeans
  <2> QED
    BY <1>2, <2>1, SoundBlocks DEF Inv
<1>5. PICK new : new = buddy_remove_block(list, i)
  OBVIOUS
<1>6. /\ new \in Seq(Managed) /\ Ordered(new)
      /\ Range(new) = Listed(p, level) \ {b}
  <2>1. Managed \in SUBSET Nat
    BY ManagedIsNat
  <2>2. /\ RemoveAt(list, i) \in Seq(Managed) /\ Ordered(RemoveAt(list, i))
        /\ Range(RemoveAt(list, i)) = Range(list) \ {list[i]}
    BY <1>3, <2>1, RemovedFromList
  <2> QED
    BY <1>0, <1>3, <1>5, <2>2, Zenon DEF buddy_remove_block
<1>7. PICK other \in {head, b} : /\ addr \in {head, b} /\ addr < other
                                 /\ {head, b} = {addr, other}
                                 /\ other = addr + Pages[level]
  <2>0. /\ head - b \in {Pages[level], - Pages[level]}
        /\ head \in Nat /\ b \in Nat /\ Pages[level] \in Nat /\ Pages[level] > 0
    <3>1. head - b \in {Pages[level], - Pages[level]}
      BY <1>0, <1>1, ZenonT(30) DEF buddy_is_buddy
    <3> QED
      BY <1>0, <1>2, <1>4, <3>1, Zenon DEF Sound
  <2>3. addr = IF head < b THEN head ELSE b
    BY <1>0, Zenon DEF MergedAt
  <2>1. CASE head < b
    <3>1. addr = head /\ b = head + Pages[level]
      BY <2>0, <2>3, <2>1
    <3> QED
      BY <2>1, <3>1
  <2>2. CASE ~(head < b)
    <3>1. addr = b /\ b < head /\ head = b + Pages[level]
      BY <2>0, <2>2, <2>3
    <3> QED
      BY <3>1
  <2> QED
    BY <2>1, <2>2
<1>8. /\ addr \in DOMAIN blocks /\ other \in DOMAIN blocks
      /\ Sound(addr) /\ Sound(other) /\ addr # other
      /\ blocks[addr].level = level /\ blocks[other].level = level
      /\ blocks[addr].host_pid = blocks[other].host_pid
      /\ End(addr) = other /\ End(other) = addr + 2 * Pages[level]
  <2>1. blocks[head].host_pid = blocks[b].host_pid
    BY <1>1 DEF buddy_is_buddy
  <2>2. /\ addr \in DOMAIN blocks /\ other \in DOMAIN blocks
        /\ Sound(addr) /\ Sound(other)
        /\ blocks[addr].level = level /\ blocks[other].level = level
        /\ blocks[addr].host_pid = blocks[other].host_pid
    <3>1. CASE addr = head /\ other = b
      BY <1>0, <1>2, <1>4, <2>1, <3>1, Zenon
    <3>2. CASE addr = b /\ other = head
      BY <1>0, <1>2, <1>4, <2>1, <3>2, Zenon
    <3> QED
      BY <1>4, <1>7, <3>1, <3>2
  <2>3. /\ addr \in Nat /\ other \in Nat /\ Pages[level] \in Nat
    BY <2>2 DEF Sound
  <2>4. End(addr) = other /\ End(other) = other + Pages[level] /\ addr # other
    BY <1>7, <2>2, <2>3 DEF End
  <2> QED
    BY <1>7, <2>2, <2>3, <2>4
<1>9. PICK h \in Procs : /\ h = blocks[addr].host_pid
                         /\ Base[h] <= addr /\ addr + 2 * Pages[level] <= Limit(h)
                         /\ Base[h] \in Nat /\ Limit(h) \in Nat
  BY <1>8, LimitType DEF Inv, Memory, Within, Sound
<1>10. /\ level + 1 \in Levels /\ Pages[level + 1] = 2 * Pages[level]
       /\ Pages[level] \in Nat /\ addr \in Nat
  <2>1. Pages[level + 1] = 2 * Pages[level]
    BY <1>2, BuddyAssumption
  <2>2. /\ calculate_block_level(h) \in 0 .. MaxLevel
        /\ Pages[calculate_block_level(h)] <= DataPages[h]
        /\ DataPages[h] < Pages[MaxLevel]
    <3>1. calculate_block_level(h) \in Levels
      BY BlockLevel
    <3>2. calculate_block_level(h) \in 0 .. MaxLevel
      BY <3>1, BuddyAssumption DEF Levels
    <3> QED
      BY <3>2, BlockLevel, BuddyAssumption
  <2>3. /\ Limit(h) = Base[h] + Pages[calculate_block_level(h)]
        /\ Pages[calculate_block_level(h)] \in Nat /\ DataPages[h] \in Nat
        /\ Pages[MaxLevel] \in Nat /\ Pages[level] \in Nat /\ addr \in Nat
    <3>1. MaxLevel \in 0 .. MaxLevel
      BY BuddyAssumption
    <3> QED
      BY <1>8, <2>2, <3>1, PagesPositive, BuddyAssumption DEF Limit, Sound
  <2>4. 2 * Pages[level] < Pages[MaxLevel]
    BY <1>9, <2>2, <2>3
  <2>5. level + 1 # MaxLevel
    BY <2>1, <2>3, <2>4
  <2> QED
    BY <1>2, <2>1, <2>3, <2>5, BuddyAssumption DEF Levels
<1>11. /\ DOMAIN blocks' = DOMAIN blocks \ {other}
       /\ \A x \in DOMAIN blocks : x \notin {addr, other} => blocks'[x] = blocks[x]
       /\ blocks'[addr] \in Header /\ blocks'[addr].is_free
       /\ blocks'[addr].level = level + 1 /\ blocks'[addr].host_pid = h
  <2>1. blocks[addr] \in Header
    BY <1>8 DEF Inv, TypeOK
  <2>2. {head, b} \ {addr} = {other}
    BY <1>7, <1>8
  <2>3. blocks'[addr] = init_free_block(blocks[addr], level + 1, blocks[addr].is_first)
    BY <1>1, <1>8, <2>2
  <2>4. /\ blocks'[addr] \in Header /\ blocks'[addr].is_free
        /\ blocks'[addr].level = level + 1 /\ blocks'[addr].host_pid = h
    BY <1>9, <1>10, <2>1, <2>3 DEF init_free_block, Header
  <2> QED
    BY <1>1, <2>2, <2>4
<1>12. /\ block_list' \in [Procs -> [Levels -> Seq(Managed)]]
       /\ block_list'[p][level] = new
       /\ \A q \in Procs, l \in Levels :
            q # p \/ l # level => block_list'[q][l] = block_list[q][l]
  <2>1. block_list \in [Procs -> [Levels -> Seq(Managed)]]
    BY DEF Inv, TypeOK
  <2>2. block_list' = [block_list EXCEPT ![p][level] = new]
    BY <1>0, <1>1, <1>2, <1>5, <2>1, Zenon
  <2> QED
    BY <1>2, <1>6, <2>1, <2>2
<1>13. /\ doing'[p].op = "free" /\ doing'[p].head = addr /\ DOMAIN doing' = Procs
       /\ doing'[p] \in [op : {"free"}, head : DOMAIN blocks']
       /\ \A q \in Procs : q # p => doing'[q] = doing[q]
  <2>1. doing[p] \in [op : {"free"}, head : DOMAIN blocks]
    BY <1>1 DEF Inv, TypeOK, Idle, Aborted
  <2>2. addr \in DOMAIN blocks'
    BY <1>8, <1>11
  <2> QED
    BY <1>1, <2>1, <2>2 DEF Inv, TypeOK
<1>14. \A q \in Procs : q # p /\ doing[q].op = "free" => doing[q].head \notin {addr, other}
  <2>1. \A q \in Procs : doing[q].op = "free" => doing[q].head # b
    BY <1>4 DEF Freed
  <2> QED
    BY <1>2, <1>7, <2>1
<1>15. TypeOK'
  <2>1. DOMAIN blocks' \subseteq Managed /\ \A x \in DOMAIN blocks' : blocks'[x] \in Header
    BY <1>8, <1>11 DEF Inv, TypeOK
  <2>2. ASSUME NEW q \in Procs, q # p
        PROVE  \/ doing'[q] \in {Idle, Aborted}
               \/ doing'[q] \in [op : {"malloc"}, size : Sizes, level : Levels, idx : Levels]
               \/ doing'[q] \in [op : {"free"}, head : DOMAIN blocks']
    <3>1. CASE doing[q] \in [op : {"free"}, head : DOMAIN blocks]
      <4>1. doing[q].op = "free" /\ doing[q].head \in DOMAIN blocks
        BY <3>1
      <4>2. doing[q].head \in DOMAIN blocks'
        BY <1>11, <1>14, <2>2, <4>1
      <4> QED
        BY <1>13, <2>2, <3>1, <4>2
    <3> QED
      BY <1>13, <2>2, <3>1 DEF Inv, TypeOK
  <2> QED
    BY <1>12, <1>13, <2>1, <2>2 DEF TypeOK
<1>16. /\ End(addr)' = End(other)
       /\ \A x \in DOMAIN blocks : x \notin {addr, other} => End(x)' = End(x)
  BY <1>8, <1>10, <1>11 DEF End
<1>17. Memory'
  <2>0. /\ \A x \in DOMAIN blocks : x \in Nat /\ End(x) \in Nat /\ x < End(x)
        /\ \A x, y \in DOMAIN blocks : x < y => End(x) <= y
    BY SoundBlocks DEF Inv, Sound, Memory, Apart
  <2>1. Apart'
    <3> SUFFICES ASSUME NEW x \in DOMAIN blocks', NEW y \in DOMAIN blocks', x < y
                 PROVE  End(x)' <= y
      BY DEF Apart
    <3>1. /\ x \in DOMAIN blocks /\ y \in DOMAIN blocks /\ x # other /\ y # other
          /\ End(x) <= y
      BY <1>11, <2>0
    <3>2. CASE x = addr
      <4>1. other < y
        BY <1>8, <2>0, <3>1, <3>2
      <4> QED
        BY <1>8, <1>16, <2>0, <3>1, <3>2, <4>1
    <3>3. CASE x # addr
      BY <1>16, <3>1, <3>3
    <3> QED
      BY <3>2, <3>3
  <2>2. Cover'
    <3> SUFFICES ASSUME NEW x \in Managed
                 PROVE  \E c \in DOMAIN blocks' : c <= x /\ x < End(c)'
      BY DEF Cover
    <3>1. PICK c \in DOMAIN blocks : c <= x /\ x < End(c)
      BY DEF Inv, Memory, Cover
    <3>2. x \in Nat /\ addr \in DOMAIN blocks'
      BY <1>8, <1>11, ManagedIsNat
    <3>3. CASE c \notin {addr, other}
      BY <1>11, <1>16, <3>1, <3>3
    <3>4. CASE c \in {addr, other}
      <4>1. addr <= x /\ x < End(addr)'
        BY <1>7, <1>8, <1>16, <2>0, <3>1, <3>2, <3>4
      <4> QED
        BY <3>2, <4>1
    <3> QED
      BY <3>3, <3>4
  <2>3. Within'
    <3> SUFFICES ASSUME NEW x \in DOMAIN blocks'
                 PROVE  Base[blocks'[x].host_pid] <= x /\ End(x)' <= Limit(blocks'[x].host_pid)
      BY DEF Within, Limit, calculate_block_level
    <3>1. CASE x = addr
      BY <1>8, <1>9, <1>11, <1>16, <3>1
    <3>2. CASE x # addr
      BY <1>11, <1>16, <3>2 DEF Inv, Memory, Within
    <3> QED
      BY <3>1, <3>2
  <2>4. Large'
    BY <1>11 DEF Inv, Memory, Large, Fits
  <2> QED
    BY <2>1, <2>2, <2>3, <2>4 DEF Memory
<1>18. FreeBlocks' = FreeBlocks \ {b} /\ head \notin FreeBlocks
  <2>1. \A x : Freed(x)' <=> x = addr \/ (Freed(x) /\ x # head)
    <3>1. \A q \in Procs : \A x : q # p => (doing'[q].op = "free" /\ doing'[q].head = x
                                          <=> doing[q].op = "free" /\ doing[q].head = x)
      BY <1>13
    <3>2. \A x : Freed(x)' <=> \/ x = addr
                               \/ \E q \in Procs : /\ q # p /\ doing[q].op = "free"
                                                   /\ doing[q].head = x
      BY <1>13, <3>1 DEF Freed
    <3>3. \A x : (\E q \in Procs : q # p /\ doing[q].op = "free" /\ doing[q].head = x)
                   <=> Freed(x) /\ x # head
      BY <1>0, <1>1, <1>2, Zenon DEF Freed
    <3> QED
      BY <3>2, <3>3
  <2>2. /\ \A x : x \in BeingFreed <=> Freed(x)
        /\ \A x : x \in BeingFreed' <=> Freed(x)'
    BY <1>15, FreedNow, FreedNext DEF Inv, FreedAre
  <2>3. head \notin FreeBlocks
    BY <1>2, <2>2 DEF FreeBlocks
  <2>4. ASSUME NEW x \in FreeBlocks' PROVE x \in FreeBlocks /\ x # b
    <3>1. x \in DOMAIN blocks' /\ blocks'[x].is_free /\ ~Freed(x)'
      BY <2>2 DEF FreeBlocks
    <3>2. x \notin {addr, other} /\ x \in DOMAIN blocks /\ ~Freed(x)
      BY <1>7, <1>11, <2>1, <3>1
    <3> QED
      BY <1>7, <1>11, <2>2, <3>1, <3>2 DEF FreeBlocks
  <2>5. ASSUME NEW x \in FreeBlocks, x # b PROVE x \in FreeBlocks'
    <3>1. x \in DOMAIN blocks /\ blocks[x].is_free /\ ~Freed(x) /\ x \notin {addr, other}
      BY <1>7, <2>2, <2>3, <2>5 DEF FreeBlocks
    <3>2. x \in DOMAIN blocks' /\ blocks'[x] = blocks[x] /\ ~Freed(x)'
      BY <1>11, <2>1, <3>1
    <3> QED
      BY <2>2, <3>1, <3>2 DEF FreeBlocks
  <2> QED
    BY <2>3, <2>4, <2>5
<1>19. /\ Listed(p, level)' = Listed(p, level) \ {b}
       /\ \A q \in Procs, l \in Levels : q # p \/ l # level => Listed(q, l)' = Listed(q, l)
  BY <1>6, <1>12 DEF Listed
<1>20. Lists'
  <2>1. InOrder'
    BY <1>6, <1>12 DEF Inv, Lists, InOrder
  <2>2. ListedAreFree'
    <3>1. ASSUME NEW q \in Procs, NEW l \in Levels, NEW x \in Listed(q, l)'
          PROVE  x \in FreeBlocks' /\ blocks'[x].level = l
      <4>1. x \in Listed(q, l) /\ x # b
        BY <1>4, <1>19, <3>1
      <4>2. x \in FreeBlocks /\ blocks[x].level = l /\ x \in DOMAIN blocks
        BY <4>1, ListedMeans
      <4>3. x \notin {addr, other}
        BY <1>7, <1>18, <4>1, <4>2
      <4> QED
        BY <1>11, <1>18, <4>1, <4>2, <4>3
    <3> QED
      BY <3>1 DEF ListedAreFree
  <2>3. FreeAreListed'
    <3>1. ASSUME NEW x \in FreeBlocks' PROVE \E q \in Procs : x \in Listed(q, blocks[x].level)'
      <4>1. /\ x \in FreeBlocks /\ x # b /\ x \notin {addr, other} /\ x \in DOMAIN blocks
            /\ blocks[x].level \in Levels
        BY <1>7, <1>18, SoundBlocks DEF FreeBlocks, Inv, Sound
      <4>2. PICK l \in Levels, q \in Procs : l = blocks[x].level /\ x \in Listed(q, l)
        BY <4>1 DEF Inv, Lists, FreeAreListed
      <4>3. x \in Listed(q, l)' /\ blocks'[x].level = l
        BY <1>11, <1>19, <4>1, <4>2
      <4> QED
        BY <4>3 DEF Listed
    <3> QED
      BY <3>1 DEF FreeAreListed
  <2>4. ListedOnce'
    BY <1>19 DEF Inv, Lists, ListedOnce
  <2> QED
    BY <2>1, <2>2, <2>3, <2>4 DEF Lists
<1>21. Loops'
  <2>1. Halving'
    <3>1. ASSUME NEW q \in Procs, doing'[q].op = "malloc"
          PROVE  /\ q # p /\ doing'[q] = doing[q]
                 /\ \A l \in Levels : block_list'[q][l] = block_list[q][l]
      BY <1>12, <1>13, <3>1
    <3> QED
      BY <3>1, OthersHalving DEF Halving, Fits
  <2>2. Freeing'
    BY <1>13, <1>14 DEF Inv, Loops, Freeing
  <2> QED
    BY <2>1, <2>2 DEF Loops
<1> QED
  BY <1>15, <1>17, <1>20, <1>21 DEF Inv

-----------------------------------------------------------------------------
LEMMA InvNext == Inv /\ [Next]_vars => Inv'
<1> SUFFICES ASSUME Inv, [Next]_vars PROVE Inv'
  OBVIOUS
<1>1. CASE UNCHANGED vars
  <2>1. TypeOK'
    BY <1>1 DEF vars, Inv, TypeOK
  <2>2. Memory'
    BY <1>1, SameMemory DEF vars
  <2>3. Lists'
    BY <1>1, SameLists DEF vars, FreeBlocks, BeingFreed
  <2>4. Halving'
    BY <1>1, OthersHalving DEF vars, Halving, Fits
  <2>5. Freeing'
    BY <1>1 DEF vars, Inv, Loops, Freeing
  <2> QED
    BY <2>1, <2>2, <2>3, <2>4, <2>5 DEF Inv, Loops
<1>2. CASE Next
  BY <1>2, MallocInv, ExhaustedInv, SplitInv, GrantInv, FreeInv, MergeInv, InsertInv DEF Next
<1> QED
  BY <1>1, <1>2

(* The inductive invariant holds in every reachable state. *)
LEMMA InvAlways == Spec => []Inv
  BY InvInit, InvNext, PTL DEF Spec

(* Where a block is. *)
LEMMA ExtentMeans ==
  ASSUME Inv, NEW a \in DOMAIN blocks
  PROVE  /\ Extent(a) = {x \in Nat : a <= x /\ x < End(a)}
         /\ a \in Extent(a)
         /\ Extent(a) \subseteq Managed
         /\ Extent(a) \subseteq Segment(blocks[a].host_pid)
<1>1. Sound(a)
  BY SoundBlocks DEF Inv
<1>2. Extent(a) = {x \in Nat : a <= x /\ x < End(a)}
  BY <1>1 DEF Sound, Extent, End
<1>3. PICK h \in Procs : h = blocks[a].host_pid /\ Base[h] <= a /\ End(a) <= Limit(h)
  BY <1>1 DEF Sound, Inv, Memory, Within
<1>4. /\ Base[h] \in Nat /\ Limit(h) \in Nat /\ DataPages[h] \in Nat
      /\ Limit(h) <= Base[h] + DataPages[h]
  <2>1. calculate_block_level(h) \in 0 .. MaxLevel
    BY BlockLevel, BuddyAssumption DEF Levels
  <2>2. Pages[calculate_block_level(h)] \in Nat /\ DataPages[h] \in Nat
        /\ Pages[calculate_block_level(h)] <= DataPages[h]
    BY <2>1, BlockLevel, PagesPositive, BuddyAssumption
  <2> QED
    BY <2>2, LimitType DEF Limit
<1>5. ASSUME NEW x \in Extent(a) PROVE x \in Managed /\ x \in Segment(h)
  <2>1. x \in Nat /\ Base[h] <= x /\ x < Limit(h) /\ x < Base[h] + DataPages[h]
    BY <1>1, <1>2, <1>3, <1>4 DEF Sound
  <2> QED
    BY <1>4, <2>1, ManagedMeans DEF Segment
<1> QED
  BY <1>1, <1>2, <1>3, <1>5 DEF Sound

LEMMA ExtentsApart ==
  ASSUME Inv, NEW a \in DOMAIN blocks, NEW b \in DOMAIN blocks, a # b
  PROVE  Extent(a) \cap Extent(b) = {}
<1>1. Sound(a) /\ Sound(b)
  BY SoundBlocks DEF Inv
<1>2. End(a) <= b \/ End(b) <= a
  BY <1>1 DEF Sound, Inv, Memory, Apart
<1>3. /\ Extent(a) = {x \in Nat : a <= x /\ x < End(a)}
      /\ Extent(b) = {x \in Nat : b <= x /\ x < End(b)}
  BY ExtentMeans
<1> QED
  BY <1>1, <1>2, <1>3 DEF Sound

(* Every page of the attached memory is in exactly one block of its segment, *)
(* and granted blocks are large enough, whoever splits, grants, frees and    *)
(* merges what at the same time.                                             *)
THEOREM PagesAreTiled == Spec => []Tiling
<1>1. ASSUME Inv PROVE Tiling
  <2>1. UNION {Extent(a) : a \in DOMAIN blocks} = Managed
    <3>1. \A x \in Managed : \E a \in DOMAIN blocks : x \in Extent(a)
      BY <1>1, ExtentMeans, ManagedIsNat DEF Inv, Memory, Cover
    <3>2. \A a \in DOMAIN blocks : Extent(a) \subseteq Managed
      BY <1>1, ExtentMeans
    <3> QED
      BY <3>1, <3>2
  <2>2. \A a \in DOMAIN blocks : Extent(a) \subseteq Segment(blocks[a].host_pid)
    BY <1>1, ExtentMeans
  <2>3. \A a \in Used : blocks[a].size + HeadSize <= Pages[blocks[a].level] * PageSize
    BY <1>1 DEF Inv, Memory, Large, Fits, Used
  <2>4. \A a, b \in DOMAIN blocks : a # b => Extent(a) \cap Extent(b) = {}
    BY <1>1, ExtentsApart
  <2> QED
    BY <1>1, <2>1, <2>2, <2>3, <2>4 DEF Tiling, Inv
<1> QED
  BY <1>1, InvAlways, PTL

(* Every free block is in the list of its level of exactly one process, the  *)
(* lists are in order, and nothing that is in use is listed.                 *)
THEOREM ListsStayExact == Spec => []ListsExact
<1>1. ASSUME Inv PROVE ListsExact
  <2>1. ASSUME NEW p \in Procs, NEW l \in Levels, NEW i \in 2 .. Len(block_list[p][l])
        PROVE  block_list[p][l][i - 1] < block_list[p][l][i]
    <3>1. Len(block_list[p][l]) \in Nat
      BY <1>1, ListType, LenProperties DEF Inv
    <3>2. i - 1 \in 1 .. Len(block_list[p][l]) /\ i \in 1 .. Len(block_list[p][l]) /\ i - 1 < i
      BY <3>1
    <3> QED
      BY <1>1, <3>2 DEF Inv, Lists, InOrder, Ordered
  <2>2. ASSUME NEW a \in FreeBlocks
        PROVE  Cardinality({p \in Procs : a \in Listed(p, blocks[a].level)}) = 1
    <3>1. PICK l \in Levels, p \in Procs : l = blocks[a].level /\ a \in Listed(p, l)
      BY <1>1, SoundBlocks DEF Inv, Sound, FreeBlocks, Lists, FreeAreListed
    <3>2. {q \in Procs : a \in Listed(q, blocks[a].level)} = {p}
      BY <1>1, <3>1 DEF Inv, Lists, ListedOnce
    <3> QED
      BY <3>2, FS_Singleton
  <2>3. \A p \in Procs, l \in Levels :
          Listed(p, l) \subseteq {a \in FreeBlocks : blocks[a].level = l}
    BY <1>1 DEF Inv, Lists, ListedAreFree
  <2> QED
    BY <2>1, <2>2, <2>3 DEF ListsExact
<1> QED
  BY <1>1, InvAlways, PTL

-----------------------------------------------------------------------------
(* The refinement. *)
UsedAre == Used = {a \in DOMAIN blocks : ~blocks[a].is_free /\ ~Freed(a)}

LEMMA UsedNow == TypeOK => UsedAre
  BY FreedNow DEF UsedAre, Used, FreedAre

LEMMA UsedNext == TypeOK' => UsedAre'
  BY UsedNow, PTL

Grants == {Extent(a) : a \in Used}

(* What one process does with its own loop, for the others to see. *)
LEMMA FreedChange ==
  ASSUME Inv, NEW p \in Procs, \A q \in Procs : q # p => doing'[q] = doing[q]
  PROVE  \A x : Freed(x)' <=> \/ doing'[p].op = "free" /\ doing'[p].head = x
                              \/ Freed(x) /\ ~(doing[p].op = "free" /\ doing[p].head = x)
<1>1. \A x : (\E q \in Procs : q # p /\ doing[q].op = "free" /\ doing[q].head = x)
               <=> Freed(x) /\ ~(doing[p].op = "free" /\ doing[p].head = x)
  BY DEF Freed, Inv, Loops, Freeing
<1> QED
  BY <1>1 DEF Freed

LEMMA KeepsGrants ==
  ASSUME Inv, Inv', NEW S, S \cap Used = {},
         \A x \in DOMAIN blocks \ S : x \in DOMAIN blocks' /\ blocks'[x] = blocks[x],
         \A x \in DOMAIN blocks' : x \in S \/ x \in DOMAIN blocks,
         \A x \in S : x \in DOMAIN blocks' => blocks'[x].is_free \/ Freed(x)',
         \A x : x \notin S => (Freed(x)' <=> Freed(x))
  PROVE  Grants' = Grants
<1>1. UsedAre /\ UsedAre'
  BY UsedNow, UsedNext DEF Inv
<1>2. Used' = Used
  BY <1>1 DEF UsedAre
<1>3. \A a \in Used : Extent(a)' = Extent(a)
  BY <1>1 DEF Extent, UsedAre
<1> QED
  BY <1>2, <1>3 DEF Grants

LEMMA RefinesNext ==
  ASSUME Inv, Inv', NEW p \in Procs
  PROVE  /\ \A size \in Sizes : Malloc(p, size) \/ Exhausted(p, size) => Grants' = Grants
         /\ Split(p) \/ Merge(p) \/ Insert(p) => Grants' = Grants
         /\ \A a \in DOMAIN blocks :
              Free(p, a) => \E g \in Grants : Grants' = Grants \ {g}
         /\ Grant(p) =>
              \E first, last \in Managed :
                /\ first <= last /\ first .. last \subseteq Managed
                /\ \A g \in Grants : g \cap (first .. last) = {}
                /\ Grants' = Grants \cup {first .. last}
<1>0. DOMAIN doing = Procs
  BY DEF Inv, TypeOK
<1>1. ASSUME NEW size \in Sizes, Malloc(p, size) \/ Exhausted(p, size) PROVE Grants' = Grants
  <2>1. /\ UNCHANGED blocks
        /\ doing[p].op = "none" /\ doing'[p].op # "free"
        /\ \A q \in Procs : q # p => doing'[q] = doing[q]
    BY <1>0, <1>1 DEF Malloc, Exhausted, Idle, Aborted
  <2>2. \A x : Freed(x)' <=> Freed(x)
    BY <2>1, FreedChange
  <2> QED
    BY <2>1, <2>2, UsedNow, UsedNext DEF Inv, UsedAre, Grants, Extent
<1>2. ASSUME Split(p) PROVE Grants' = Grants
  <2>0. PICK a, b : /\ a = Head(block_list[p][doing[p].idx])
                    /\ b = UpperHalf(a, doing[p].idx)
    OBVIOUS
  <2>1. /\ doing[p].op = "malloc"
        /\ doing' = [doing EXCEPT ![p].idx = doing[p].idx - 1]
        /\ blocks' = Halved(a, b, doing[p].idx - 1)
    BY <1>2, <2>0 DEF Split
  <2>2. /\ doing[p].idx \in Levels /\ block_list[p][doing[p].idx] # <<>>
    BY <2>1, MallocLoop
  <2>3. a \in DOMAIN blocks /\ blocks[a] \in Header /\ blocks[a].is_free
    BY <2>0, <2>2, FirstOfList DEF Inv, TypeOK
  <2>4. /\ doing'[p].op = "malloc" /\ \A q \in Procs : q # p => doing'[q] = doing[q]
    <3>1. doing[p] \in [op : {"malloc"}, size : Sizes, level : Levels, idx : Levels]
      BY <2>1, MallocLoop
    <3> QED
      BY <1>0, <2>1, <3>1
  <2>5. \A x : Freed(x)' <=> Freed(x)
    BY <2>1, <2>4, FreedChange
  <2>6. \A level, first : init_free_block(blocks[a], level, first).is_free
    BY <2>3 DEF init_free_block, Header
  <2>7. /\ DOMAIN blocks' = DOMAIN blocks \cup {b}
        /\ \A x \in DOMAIN blocks \ {a, b} : blocks'[x] = blocks[x]
        /\ blocks'[a].is_free /\ blocks'[b].is_free
    BY <2>1, <2>3, <2>6 DEF Halved
  <2>8. {a, b} \cap Used = {}
    <3>1. b \notin Used
      <4> SUFFICES ASSUME b \in DOMAIN blocks, b # a PROVE FALSE
        BY <2>3 DEF Used
      <4> DEFINE l == doing[p].idx
      <4>1. b \in Extent(a)
        <5>1. Sound(a) /\ blocks[a].level = l
          BY <2>0, <2>2, <2>3, SoundBlocks, FirstOfList, SMTT(30) DEF Inv
        <5>2. l - 1 \in Levels /\ Pages[l] = 2 * Pages[l - 1] /\ Pages[l - 1] \in Nat
              /\ Pages[l - 1] > 0
          <6>1. l > doing[p].level /\ doing[p].level \in Levels
            BY <1>2, <2>1, MallocLoop DEF Split
          <6>2. l - 1 \in Levels /\ l - 1 \in 0 .. MaxLevel /\ (l - 1) + 1 = l
            <7>1. l \in Levels /\ MaxLevel \in Nat
              BY <2>2, BuddyAssumption
            <7> HIDE DEF l
            <7> QED
              BY <6>1, <7>1 DEF Levels
          <6> HIDE DEF l
          <6>3. Pages[(l - 1) + 1] = 2 * Pages[l - 1]
            BY <6>2, BuddyAssumption
          <6> QED
            BY <6>2, <6>3, PagesPositive, SMTT(30)
        <5>3. b = a + Pages[l - 1]
          BY <2>0 DEF UpperHalf
        <5>4. b \in Nat /\ a <= b /\ b < End(a)
          <6> HIDE DEF l
          <6> QED
            BY <5>1, <5>2, <5>3 DEF Sound, End
        <5> QED
          BY <2>3, <5>4, ExtentMeans
      <4>2. b \in Extent(b)
        BY ExtentMeans
      <4> QED
        BY <2>3, <4>1, <4>2, ExtentsApart
    <3> QED
      BY <2>3, <3>1 DEF Used
  <2> QED
    BY <2>5, <2>7, <2>8, KeepsGrants
<1>3. ASSUME Merge(p) PROVE Grants' = Grants
  <2>0. PICK head, level, list, b, addr :
          /\ head = doing[p].head /\ level = blocks[head].level
          /\ list = block_list[p][level] /\ b = list[StopAt(head, list)]
          /\ addr = MergedAt(head, b)
    OBVIOUS
  <2>1. /\ doing[p].op = "free" /\ StopAt(head, list) # 0
        /\ blocks' = [x \in DOMAIN blocks \ ({head, b} \ {addr}) |->
                        IF x = addr
                          THEN init_free_block(blocks[x], level + 1, blocks[x].is_first)
                          ELSE blocks[x]]
        /\ doing' = [doing EXCEPT ![p].head = addr]
    BY <1>3, <2>0, Zenon DEF Merge
  <2>2. /\ head \in DOMAIN blocks /\ Freed(head) /\ level \in Levels
    BY <2>0, <2>1, FreeLoop, SoundBlocks, Zenon DEF Inv, Sound
  <2>3. b \in Listed(p, level)
    <3>1. list \in Seq(Managed) /\ Range(list) = Listed(p, level)
      BY <2>0, <2>2, ListType DEF Inv, Listed
    <3>2. Len(list) \in Nat /\ DOMAIN list = 1 .. Len(list)
      BY <3>1, LenProperties
    <3>3. StopAt(head, list) \in 1 .. Len(list)
      BY <2>1, <3>1, <3>2, StopAtProperties, ManagedIsNat
    <3> QED
      BY <2>0, <3>1, <3>2, <3>3, ZenonT(30) DEF Range
  <2>4. b \in DOMAIN blocks /\ blocks[b].is_free /\ ~Freed(b)
    BY <2>2, <2>3, ListedMeans, SMTT(30)
  <2>5. addr \in {head, b}
    BY <2>0 DEF MergedAt
  <2>6. /\ doing'[p].op = "free" /\ doing'[p].head = addr
        /\ \A q \in Procs : q # p => doing'[q] = doing[q]
    <3>1. doing[p] \in [op : {"free"}, head : DOMAIN blocks]
      BY <2>1 DEF Inv, TypeOK, Idle, Aborted
    <3> QED
      BY <1>0, <2>1, <3>1
  <2>7. \A x : Freed(x)' <=> x = addr \/ (Freed(x) /\ x # head)
    BY <2>0, <2>1, <2>6, FreedChange, Zenon
  <2>8. {head, b} \cap Used = {}
    BY <2>2, <2>4, UsedNow DEF Inv, UsedAre
  <2>9. /\ DOMAIN blocks' = DOMAIN blocks \ ({head, b} \ {addr})
        /\ \A x \in DOMAIN blocks \ {head, b} : blocks'[x] = blocks[x]
    BY <2>1, <2>5
  <2>10. \A x \in {head, b} : x \in DOMAIN blocks' => Freed(x)'
    BY <2>5, <2>7, <2>9
  <2> QED
    BY <2>5, <2>7, <2>8, <2>9, <2>10, KeepsGrants
<1>4. ASSUME Insert(p) PROVE Grants' = Grants
  <2>0. PICK head : head = doing[p].head
    OBVIOUS
  <2>1. /\ doing[p].op = "free"
        /\ blocks' = [blocks EXCEPT ![head] =
                        init_free_block(@, blocks[head].level, @.is_first)]
        /\ doing' = [doing EXCEPT ![p] = Idle]
    BY <1>4, <2>0 DEF Insert
  <2>2. head \in DOMAIN blocks /\ Freed(head) /\ blocks[head] \in Header
    BY <2>0, <2>1, FreeLoop DEF Inv, TypeOK
  <2>3. /\ DOMAIN blocks' = DOMAIN blocks
        /\ \A x \in DOMAIN blocks \ {head} : blocks'[x] = blocks[x]
        /\ blocks'[head].is_free
    BY <2>1, <2>2 DEF init_free_block, Header
  <2>4. doing'[p].op = "none" /\ \A q \in Procs : q # p => doing'[q] = doing[q]
    BY <1>0, <2>1 DEF Idle
  <2>5. \A x : Freed(x)' <=> Freed(x) /\ x # head
    BY <2>0, <2>1, <2>4, FreedChange
  <2>6. {head} \cap Used = {}
    BY <2>2, UsedNow DEF Inv, UsedAre
  <2> QED
    BY <2>3, <2>5, <2>6, KeepsGrants
<1>5. ASSUME NEW a \in DOMAIN blocks, Free(p, a)
      PROVE  \E g \in Grants : Grants' = Grants \ {g}
  <2>1. /\ a \in Used /\ UNCHANGED blocks /\ doing[p].op = "none"
        /\ doing'[p].op = "free" /\ doing'[p].head = a
        /\ \A q \in Procs : q # p => doing'[q] = doing[q]
    BY <1>0, <1>5 DEF Free, Idle
  <2>2. \A x : Freed(x)' <=> x = a \/ Freed(x)
    BY <2>1, FreedChange
  <2>3. Used' = Used \ {a}
    BY <2>1, <2>2, UsedNow, UsedNext DEF Inv, UsedAre
  <2>4. \A x \in DOMAIN blocks : Extent(x)' = Extent(x)
    BY <2>1 DEF Extent
  <2>5. \A x \in Used : x # a => Extent(x) # Extent(a)
    <3>1. \A x \in Used : x \in DOMAIN blocks /\ x \in Extent(x)
      BY ExtentMeans DEF Used
    <3> QED
      BY <3>1, ExtentsApart
  <2>6. Grants' = Grants \ {Extent(a)}
    <3>1. \A x \in Used : x \in DOMAIN blocks
      BY DEF Used
    <3> QED
      BY <2>1, <2>3, <2>4, <2>5, <3>1 DEF Grants
  <2> QED
    BY <2>1, <2>6 DEF Grants
<1>6. ASSUME Grant(p)
      PROVE  \E first, last \in Managed :
               /\ first <= last /\ first .. last \subseteq Managed
               /\ \A g \in Grants : g \cap (first .. last) = {}
               /\ Grants' = Grants \cup {first .. last}
  <2>0. PICK level, a : level = doing[p].level /\ a = Head(block_list[p][level])
    OBVIOUS
  <2>1. /\ doing[p].op = "malloc" /\ doing[p].idx = level
        /\ blocks' = [blocks EXCEPT ![a] = [init_used_block(@) EXCEPT !.size = doing[p].size]]
        /\ doing' = [doing EXCEPT ![p] = Idle]
    BY <1>6, <2>0, SMTT(30) DEF Grant
  <2>2. level \in Levels /\ block_list[p][level] # <<>>
    BY <2>0, <2>1, MallocLoop
  <2>3. /\ a \in DOMAIN blocks /\ blocks[a] \in Header /\ blocks[a].is_free
        /\ a \in FreeBlocks /\ ~Freed(a) /\ Sound(a)
    BY <2>0, <2>2, FirstOfList, ListedMeans, SoundBlocks DEF Inv, TypeOK
  <2>4. /\ DOMAIN blocks' = DOMAIN blocks
        /\ \A x \in DOMAIN blocks : x # a => blocks'[x] = blocks[x]
        /\ ~blocks'[a].is_free /\ blocks'[a].level = blocks[a].level
    BY <2>1, <2>3 DEF init_used_block, Header
  <2>5. doing'[p].op = "none" /\ \A q \in Procs : q # p => doing'[q] = doing[q]
    BY <1>0, <2>1 DEF Idle
  <2>6. \A x : Freed(x)' <=> Freed(x)
    BY <2>1, <2>5, FreedChange
  <2>7. Used' = Used \cup {a} /\ a \notin Used
    BY <2>3, <2>4, <2>6, UsedNow, UsedNext DEF Inv, UsedAre
  <2>8. \A x \in DOMAIN blocks : Extent(x)' = Extent(x)
    BY <2>4 DEF Extent
  <2>9. \A x \in Used : x \in DOMAIN blocks /\ Extent(x) \cap Extent(a) = {}
    <3>1. \A x \in Used : x \in DOMAIN blocks
      BY DEF Used
    <3> QED
      BY <2>3, <2>7, <3>1, ExtentsApart
  <2>10. Grants' = Grants \cup {Extent(a)}
    BY <2>3, <2>7, <2>8, <2>9 DEF Grants
  <2>11. PICK end : end = End(a) - 1
    OBVIOUS
  <2>12. /\ Extent(a) = a .. end /\ a \in Extent(a) /\ end \in Extent(a)
         /\ Extent(a) \subseteq Managed /\ a <= end
    <3>1. /\ Extent(a) = {x \in Nat : a <= x /\ x < End(a)}
          /\ a \in Extent(a) /\ Extent(a) \subseteq Managed
      BY <2>3, ExtentMeans
    <3>2. a \in Nat /\ End(a) \in Nat /\ a < End(a)
      BY <2>3 DEF Sound
    <3> QED
      BY <2>11, <3>1, <3>2
  <2>13. \A g \in Grants : g \cap (a .. end) = {}
    BY <2>9, <2>12 DEF Grants
  <2> QED
    BY <2>10, <2>12, <2>13
<1> QED
  BY <1>1, <1>2, <1>3, <1>4, <1>5, <1>6

(* malloc and free implement MemoryPool: what is granted is managed memory   *)
(* that nobody else has, until it is given back.                             *)
THEOREM ImplementsMemoryPool == Spec => Implements
<1>1. Init => Pool!Init
  <2> SUFFICES ASSUME Init PROVE Used = {}
    BY DEF Pool!Init
  <2> QED
    BY DEF Init, Used, AttachedBlock
<1>2. Inv /\ Inv' /\ [Next]_vars => [Pool!Grant \/ Pool!Release]_Grants
  <2> SUFFICES ASSUME Inv, Inv', [Next]_vars
               PROVE  Pool!Grant \/ Pool!Release \/ Grants' = Grants
    OBVIOUS
  <2>1. CASE UNCHANGED vars
    BY <2>1 DEF vars, Grants, Extent, Used, BeingFreed
  <2>2. ASSUME NEW p \in Procs, Grant(p) PROVE Pool!Grant
    BY <2>2, RefinesNext DEF Pool!Grant, Grants
  <2>3. ASSUME NEW p \in Procs, NEW a \in DOMAIN blocks, Free(p, a) PROVE Pool!Release
    BY <2>3, RefinesNext DEF Pool!Release, Grants
  <2> QED
    BY <2>1, <2>2, <2>3, RefinesNext DEF Next
<1> QED
  BY <1>1, <1>2, InvAlways, PTL DEF Spec, Implements, Pool!Spec, Grants
=============================================================================
