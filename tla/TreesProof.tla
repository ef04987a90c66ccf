------------------------------ MODULE TreesProof ------------------------------
(* Proofs about the priority queue, the trie, the union-find and the segment  *)
(* tree, for every value of their constants.  All are built on functions      *)
(* defined by recursion; Induction says that those exist.                     *)
EXTENDS Structures, Induction, FiniteSetTheorems, SequenceTheorems,
        FunctionTheorems, TLAPS

-----------------------------------------------------------------------------
(* PriorityQueue, for both orders and any items.  The sift loops of           *)
(* container/heap work on the ranks of the items: what matters is which       *)
(* parent may precede its child wrongly, and that only swaps happen.          *)
Rank(v) == IF max THEN -Priority(v) ELSE Priority(v)

Rows(m) == [1..m -> Items]

Ranks(m) == [0..(m - 1) -> Int]

RanksOf(g, m) == [x \in 0..(m - 1) |-> Rank(g[x + 1])]

IsParent(i, c) == c = 2 * i + 1 \/ c = 2 * i + 2

(* Among the first k no child comes before its parent.                        *)
Ordered(a, k) == \A i, c \in 0..(k - 1) : IsParent(i, c) => a[i] <= a[c]

(* The same, except that j may come before its parent, but not its children.  *)
OrderedButUp(a, j, k) ==
    /\ \A i, c \in 0..(k - 1) : IsParent(i, c) /\ c # j => a[i] <= a[c]
    /\ \A i, c \in 0..(k - 1) : IsParent(i, j) /\ IsParent(j, c) => a[i] <= a[c]

(* The same, except that children of i may come before i, but not before the  *)
(* parent of i.                                                               *)
OrderedButDown(a, i, k) ==
    /\ \A p, c \in 0..(k - 1) : IsParent(p, c) /\ p # i => a[p] <= a[c]
    /\ \A p, c \in 0..(k - 1) : IsParent(p, i) /\ IsParent(i, c) => a[p] <= a[c]

Swapped(a, b, i, j, m) ==
    \A x \in 0..(m - 1) : b[x] = IF x = j THEN a[i] ELSE IF x = i THEN a[j] ELSE a[x]

(* The parent and the children of a place of the array.                       *)
LEMMA ParentIndex ==
  ASSUME NEW j \in Nat, j # 0
  PROVE  LET i == (j - 1) \div 2
         IN i \in Nat /\ i < j /\ IsParent(i, j)
  BY DEF IsParent

(* Two children of one place are next to each other.                          *)
LEMMA OneParent ==
  \A i, p, c \in Nat : IsParent(i, c) /\ IsParent(p, c) => i = p
  BY DEF IsParent

(* A swap with the parent moves the one that may be wrong up.                 *)
LEMMA SwapUp ==
  ASSUME NEW m \in Nat, NEW k \in 0..m, NEW a \in Ranks(m), NEW b \in Ranks(m),
         NEW i \in 0..(k - 1), NEW j \in 0..(k - 1), IsParent(i, j), a[j] < a[i],
         OrderedButUp(a, j, k), Swapped(a, b, i, j, m)
  PROVE  OrderedButUp(b, i, k)
  <1>1. i # j /\ i < j
    BY DEF IsParent
  <1>0. \A x \in 0..(k - 1) : /\ b[x] = IF x = j THEN a[i] ELSE IF x = i THEN a[j] ELSE a[x]
                              /\ a[x] \in Int /\ b[x] \in Int
    BY DEF Swapped, Ranks
  <1>2. ASSUME NEW p \in 0..(k - 1), NEW c \in 0..(k - 1), IsParent(p, c), c # i
        PROVE  b[p] <= b[c]
    <2>1. CASE c = j
      <3>1. p = i
        BY <1>2, <2>1, OneParent
      <3> QED
        BY <1>0, <2>1, <3>1
    <2>2. CASE c # j
      <3>1. a[p] <= a[c]
        BY <1>2, <2>2 DEF OrderedButUp
      <3>2. b[c] = a[c]
        BY <1>0, <1>2, <2>2
      <3>3. CASE p = j
        <4>1. a[i] <= a[c]
          BY <1>2, <3>3 DEF OrderedButUp
        <4> QED
          BY <1>0, <3>2, <3>3, <4>1
      <3>4. CASE p = i
        <4>1. b[p] = a[j]
          BY <1>0, <1>1, <3>4
        <4> QED
          BY <1>0, <3>1, <3>2, <3>4, <4>1
      <3>5. CASE p # i /\ p # j
        BY <1>0, <3>1, <3>2, <3>5
      <3> QED
        BY <3>3, <3>4, <3>5
    <2> QED
      BY <2>1, <2>2
  <1>3. ASSUME NEW p \in 0..(k - 1), NEW c \in 0..(k - 1), IsParent(p, i), IsParent(i, c)
        PROVE  b[p] <= b[c]
    <2>1. p < i /\ c # i
      BY <1>3 DEF IsParent
    <2>2. a[p] <= a[i]
      BY <1>1, <1>3 DEF OrderedButUp
    <2>3. b[p] = a[p]
      BY <1>0, <1>1, <2>1
    <2>4. CASE c = j
      BY <1>0, <2>2, <2>3, <2>4
    <2>5. CASE c # j
      <3>1. a[i] <= a[c]
        BY <1>3, <2>5 DEF OrderedButUp
      <3>2. b[c] = a[c]
        BY <1>0, <2>1, <2>5
      <3> QED
        BY <1>0, <2>2, <2>3, <3>1, <3>2
    <2> QED
      BY <2>4, <2>5
  <1> QED
    BY <1>2, <1>3 DEF OrderedButUp

(* Where the item is not before its parent, the whole row is ordered.         *)
LEMMA UpEnds ==
  ASSUME NEW m \in Nat, NEW k \in 0..m, NEW a \in Ranks(m), NEW j \in 0..(k - 1),
         OrderedButUp(a, j, k),
         j = 0 \/ \E i \in 0..(k - 1) : IsParent(i, j) /\ ~(a[j] < a[i])
  PROVE  Ordered(a, k)
  <1> SUFFICES ASSUME NEW p \in 0..(k - 1), NEW c \in 0..(k - 1), IsParent(p, c)
               PROVE  a[p] <= a[c]
    BY DEF Ordered
  <1>0. a[p] \in Int /\ a[c] \in Int
    BY DEF Ranks
  <1>1. CASE c # j
    BY <1>1 DEF OrderedButUp
  <1>2. CASE c = j
    <2>1. j # 0
      BY <1>2 DEF IsParent
    <2>2. PICK i \in 0..(k - 1) : IsParent(i, j) /\ ~(a[j] < a[i])
      BY <2>1
    <2>3. i = p
      BY <1>2, <2>2, OneParent
    <2> QED
      BY <1>0, <1>2, <2>2, <2>3
  <1> QED
    BY <1>1, <1>2

(* A swap with the first of the children moves the one that may be wrong down.*)
LEMMA SwapDown ==
  ASSUME NEW m \in Nat, NEW k \in 0..m, NEW a \in Ranks(m), NEW b \in Ranks(m),
         NEW i \in 0..(k - 1), NEW j \in 0..(k - 1), IsParent(i, j), a[j] < a[i],
         \A c \in 0..(k - 1) : IsParent(i, c) => a[j] <= a[c],
         OrderedButDown(a, i, k), Swapped(a, b, i, j, m)
  PROVE  OrderedButDown(b, j, k)
  <1>1. i # j /\ i < j
    BY DEF IsParent
  <1>0. \A x \in 0..(k - 1) : /\ b[x] = IF x = j THEN a[i] ELSE IF x = i THEN a[j] ELSE a[x]
                              /\ a[x] \in Int /\ b[x] \in Int
    BY DEF Swapped, Ranks
  <1>2. ASSUME NEW p \in 0..(k - 1), NEW c \in 0..(k - 1), IsParent(p, c), p # j
        PROVE  b[p] <= b[c]
    <2>1. CASE p = i
      <3>1. b[p] = a[j] /\ a[j] <= a[c] /\ c # i
        BY <1>0, <1>1, <1>2, <2>1 DEF IsParent
      <3>2. b[c] = IF c = j THEN a[i] ELSE a[c]
        BY <1>0, <3>1
      <3> QED
        BY <1>0, <3>1, <3>2
    <2>2. CASE p # i
      <3>1. a[p] <= a[c] /\ b[p] = a[p]
        BY <1>0, <1>2, <2>2 DEF OrderedButDown
      <3>2. c # j
        BY <1>2, <2>2, OneParent
      <3>3. CASE c = i
        <4>1. a[p] <= a[j] /\ b[c] = a[j]
          BY <1>0, <1>1, <1>2, <3>3 DEF OrderedButDown
        <4> QED
          BY <3>1, <4>1
      <3>4. CASE c # i
        BY <1>0, <3>1, <3>2, <3>4
      <3> QED
        BY <3>3, <3>4
    <2> QED
      BY <2>1, <2>2
  <1>3. ASSUME NEW p \in 0..(k - 1), NEW c \in 0..(k - 1), IsParent(p, j), IsParent(j, c)
        PROVE  b[p] <= b[c]
    <2>1. p = i
      BY <1>3, OneParent
    <2>2. c # j /\ c # i
      BY <1>1, <1>3 DEF IsParent
    <2>3. a[j] <= a[c]
      BY <1>1, <1>3 DEF OrderedButDown
    <2>4. b[p] = a[j] /\ b[c] = a[c]
      BY <1>0, <1>1, <2>1, <2>2
    <2> QED
      BY <2>3, <2>4
  <1> QED
    BY <1>2, <1>3 DEF OrderedButDown

(* Where neither child precedes the item, the whole row is ordered.           *)
LEMMA DownEnds ==
  ASSUME NEW m \in Nat, NEW k \in 0..m, NEW a \in Ranks(m), NEW i \in Nat,
         OrderedButDown(a, i, k),
         \A c \in 0..(k - 1) : IsParent(i, c) => a[i] <= a[c]
  PROVE  Ordered(a, k)
  BY DEF Ordered, OrderedButDown

(* In an ordered heap nothing precedes the root.                              *)
LEMMA RootIsFirst ==
  ASSUME NEW m \in Nat, NEW a \in Ranks(m), Ordered(a, m)
  PROVE  \A c \in 0..(m - 1) : a[0] <= a[c]
  <1> DEFINE S == 0..(m - 1)
             far == [c \in S |-> c]
             G == {c \in S : a[0] <= a[c]}
  <1>1. far \in [S -> Nat]
    OBVIOUS
  <1>2. ASSUME NEW c \in S, \A d \in S : far[d] < far[c] => d \in G
        PROVE  c \in G
    <2>1. CASE c = 0
      BY <2>1 DEF Ranks
    <2>2. CASE c # 0
      <3> DEFINE i == (c - 1) \div 2
      <3>1. i \in S /\ i < c /\ IsParent(i, c)
        BY <2>2, ParentIndex
      <3> HIDE DEF i
      <3>2. a[i] <= a[c]
        BY <3>1 DEF Ordered
      <3>3. a[0] <= a[i]
        BY <1>2, <3>1
      <3>4. a[0] \in Int /\ a[i] \in Int /\ a[c] \in Int
        BY <3>1 DEF Ranks
      <3> QED
        BY <3>2, <3>3, <3>4
    <2> QED
      BY <2>1, <2>2
  <1> HIDE DEF S, far, G
  <1>3. S \subseteq G
    BY <1>1, <1>2, MeasuredInduction
  <1> QED
    BY <1>3 DEF S, G

(* Swapping, appending and cutting, as bags.                                  *)
SameTimes(s, t) == \A u \in Items : PQ!Times(u, s) = PQ!Times(u, t)

Places(u, s) == {x \in DOMAIN s : s[x] = u}

(* An item occurs finitely often.                                             *)
LEMMA FinitePlaces ==
  ASSUME NEW m \in Nat, NEW S, S \subseteq 1..m
  PROVE  IsFiniteSet(S)
  <1>1. IsFiniteSet(1..m)
    BY FS_Interval
  <1> QED
    BY <1>1, FS_Subset

(* Times counts the places of an item.                                        *)
LEMMA TimesAreCounts == \A u, s : PQ!Times(u, s) = Cardinality(Places(u, s))
  BY DEF PQ!Times, PQ!Cardinality, Cardinality, Places

(* heap.Swap, and what it leaves alone.                                       *)
LEMMA SwapFacts ==
  ASSUME NEW m \in Nat, NEW g \in Rows(m), NEW i \in 0..(m - 1), NEW j \in 0..(m - 1)
  PROVE  LET h == PQ!Swap(g, i, j)
         IN /\ h \in Rows(m)
            /\ h[i + 1] = IF i = j THEN g[i + 1] ELSE g[j + 1]
            /\ h[j + 1] = g[i + 1]
            /\ \A x \in 1..m : x # i + 1 /\ x # j + 1 => h[x] = g[x]
  <1>1. i + 1 \in 1..m /\ j + 1 \in 1..m
    OBVIOUS
  <1> QED
    BY <1>1 DEF PQ!Swap, Rows

(* heap.Swap loses no item and doubles none.                                  *)
LEMMA SwapKeepsTimes ==
  ASSUME NEW m \in Nat, NEW g \in Rows(m), NEW i \in 0..(m - 1), NEW j \in 0..(m - 1)
  PROVE  SameTimes(g, PQ!Swap(g, i, j))
  <1> DEFINE h == PQ!Swap(g, i, j)
             a == i + 1
             b == j + 1
             other == [x \in 1..m |-> IF x = a THEN b ELSE IF x = b THEN a ELSE x]
  <1>1. /\ h \in Rows(m) /\ a \in 1..m /\ b \in 1..m
        /\ h[a] = g[b] /\ h[b] = g[a]
        /\ \A x \in 1..m : x # a /\ x # b => h[x] = g[x]
    BY SwapFacts
  <1>2. DOMAIN g = 1..m /\ DOMAIN h = 1..m
    BY <1>1 DEF Rows
  <1> HIDE DEF h, a, b
  <1>3. \A x \in 1..m : /\ other[x] \in 1..m /\ other[other[x]] = x
                        /\ h[other[x]] = g[x] /\ g[other[x]] = h[x]
    BY <1>1
  <1> HIDE DEF other
  <1>4. ASSUME NEW u \in Items PROVE PQ!Times(u, g) = PQ!Times(u, h)
    <2> DEFINE S == Places(u, g)
               T == Places(u, h)
               f == [x \in S |-> other[x]]
    <2>1. S \subseteq 1..m /\ T \subseteq 1..m
      BY <1>2 DEF Places
    <2>2. \A x \in 1..m : (x \in S <=> g[x] = u) /\ (x \in T <=> h[x] = u)
      BY <1>2 DEF Places
    <2> HIDE DEF S, T
    <2>3. f \in [S -> T]
      BY <1>3, <2>1, <2>2
    <2>4. \A x, y \in S : f[x] = f[y] => x = y
      BY <1>3, <2>1
    <2>5. \A t \in T : \E x \in S : f[x] = t
      <3> SUFFICES ASSUME NEW t \in T PROVE \E x \in S : f[x] = t
        OBVIOUS
      <3>1. other[t] \in S /\ f[other[t]] = t
        BY <1>3, <2>1, <2>2
      <3> QED
        BY <3>1
    <2> HIDE DEF f
    <2>6. f \in Bijection(S, T)
      BY <2>3, <2>4, <2>5, Fun_IsBij
    <2>7. IsFiniteSet(S)
      BY <2>1, FinitePlaces
    <2>8. Cardinality(T) = Cardinality(S)
      BY <2>6, <2>7, FS_Bijection, Fun_ExistsBij
    <2> QED
      BY <2>8, TimesAreCounts DEF S, T
  <1> QED
    BY <1>4 DEF SameTimes, h

(* One more at the end.                                                       *)
LEMMA TimesOfLonger ==
  ASSUME NEW m \in Nat, NEW g \in Rows(m), NEW h \in Rows(m + 1),
         \A x \in 1..m : h[x] = g[x]
  PROVE  PQ!OneMore(g, h, h[m + 1])
  <1> SUFFICES ASSUME NEW u \in Items
               PROVE  PQ!Times(u, h) = PQ!Times(u, g) + IF u = h[m + 1] THEN 1 ELSE 0
    BY DEF PQ!OneMore
  <1> DEFINE S == Places(u, g)
             T == Places(u, h)
             l == m + 1
  <1>1. S \subseteq 1..m /\ l \notin S
    BY DEF Places, Rows
  <1>2. IsFiniteSet(S)
    BY <1>1, FinitePlaces
  <1>3. CASE u = h[l]
    <2>1. T = S \union {l}
      BY <1>3 DEF Places, Rows
    <2> HIDE DEF S, T, l
    <2>2. Cardinality(T) = Cardinality(S) + 1
      BY <1>1, <1>2, <2>1, FS_AddElement
    <2> QED
      BY <1>3, <2>2, TimesAreCounts DEF S, T, l
  <1>4. CASE u # h[l]
    <2>1. T = S
      BY <1>4 DEF Places, Rows
    <2> HIDE DEF S, T
    <2>2. Cardinality(S) \in Nat
      BY <1>2, FS_CardinalityType
    <2> QED
      BY <1>4, <2>1, <2>2, TimesAreCounts DEF S, T
  <1> QED
    BY <1>3, <1>4

LEMMA TimesAreNatural ==
  ASSUME NEW m \in Nat, NEW g \in Rows(m), NEW u
  PROVE  PQ!Times(u, g) \in Nat
  <1>1. Places(u, g) \subseteq 1..m
    BY DEF Places, Rows
  <1>2. IsFiniteSet(Places(u, g))
    BY <1>1, FinitePlaces
  <1> QED
    BY <1>2, FS_CardinalityType, TimesAreCounts

LEMMA RankIsInt == \A v \in Items : Rank(v) \in Int
  BY StructuresAssumption DEF Rank, Priority

(* Less compares ranks, for either order of the queue.                        *)
LEMMA BeforeByRank == \A v, w \in Items : PQ!Before(v, w) <=> Rank(v) < Rank(w)
  BY StructuresAssumption DEF Rank, Priority, PQ!Before

LEMMA RanksOfRow ==
  ASSUME NEW m \in Nat, NEW g \in Rows(m)
  PROVE  /\ RanksOf(g, m) \in Ranks(m)
         /\ \A x \in 0..(m - 1) : RanksOf(g, m)[x] = Rank(g[x + 1]) /\ g[x + 1] \in Items
         /\ \A i, j \in 0..(m - 1) :
              PQ!Less(g, i, j) <=> RanksOf(g, m)[i] < RanksOf(g, m)[j]
  <1>1. \A x \in 0..(m - 1) : g[x + 1] \in Items
    BY DEF Rows
  <1>2. \A x \in 0..(m - 1) : RanksOf(g, m)[x] = Rank(g[x + 1])
    BY DEF RanksOf
  <1>3. RanksOf(g, m) \in Ranks(m)
    BY <1>1, RankIsInt DEF RanksOf, Ranks
  <1>4. \A i, j \in 0..(m - 1) : PQ!Less(g, i, j) <=> Rank(g[i + 1]) < Rank(g[j + 1])
    BY <1>1, BeforeByRank DEF PQ!Less
  <1> QED
    BY <1>1, <1>2, <1>3, <1>4

LEMMA RanksSwapped ==
  ASSUME NEW m \in Nat, NEW g \in Rows(m), NEW i \in 0..(m - 1), NEW j \in 0..(m - 1)
  PROVE  Swapped(RanksOf(g, m), RanksOf(PQ!Swap(g, i, j), m), i, j, m)
  <1> DEFINE h == PQ!Swap(g, i, j)
  <1>1. /\ h \in Rows(m)
        /\ h[i + 1] = IF i = j THEN g[i + 1] ELSE g[j + 1]
        /\ h[j + 1] = g[i + 1]
        /\ \A x \in 1..m : x # i + 1 /\ x # j + 1 => h[x] = g[x]
    BY SwapFacts
  <1> HIDE DEF h
  <1>2. \A x \in 0..(m - 1) : h[x + 1] = IF x = j THEN g[i + 1] ELSE IF x = i THEN g[j + 1] ELSE g[x + 1]
    BY <1>1
  <1>3. \A x \in 0..(m - 1) : /\ RanksOf(g, m)[x] = Rank(g[x + 1])
                              /\ RanksOf(h, m)[x] = Rank(h[x + 1])
    BY DEF RanksOf
  <1> QED
    BY <1>2, <1>3 DEF Swapped, h

LEMMA SameTimesChain ==
  \A s, t, u : SameTimes(s, t) /\ SameTimes(t, u) => SameTimes(s, u)
  BY DEF SameTimes

(* Up, unfolded.                                                              *)
UpValue(at, f) ==
    IF at[2] = 0 \/ ~PQ!Less(at[1], at[2], (at[2] - 1) \div 2) THEN at[1]
    ELSE f[<<PQ!Swap(at[1], (at[2] - 1) \div 2, at[2]), (at[2] - 1) \div 2>>]

UpStarts(m, k) == Rows(m) \X (0..k)

(* The recursion of up ends: the place goes down to the root.                 *)
LEMMA UpGoesUp ==
  ASSUME NEW m \in Nat, NEW k \in 0..(m - 1), NEW at \in UpStarts(m, k), at[2] # 0
  PROVE  LET i == (at[2] - 1) \div 2
         IN /\ i \in 0..k /\ i < at[2] /\ IsParent(i, at[2])
            /\ <<PQ!Swap(at[1], i, at[2]), i>> \in UpStarts(m, k)
  <1> DEFINE i == (at[2] - 1) \div 2
  <1>1. at[1] \in Rows(m) /\ at[2] \in 0..k
    BY DEF UpStarts
  <1>2. i \in 0..k /\ i < at[2] /\ IsParent(i, at[2])
    BY <1>1, ParentIndex
  <1> HIDE DEF i
  <1>3. PQ!Swap(at[1], i, at[2]) \in Rows(m)
    BY <1>1, <1>2, SwapFacts
  <1>4. <<PQ!Swap(at[1], i, at[2]), i>> \in UpStarts(m, k)
    BY <1>2, <1>3 DEF UpStarts
  <1> QED
    BY <1>2, <1>4 DEF i

(* What up does in a step.                                                    *)
LEMMA UpUnfolds ==
  ASSUME NEW m \in Nat, NEW k \in 0..(m - 1), NEW h \in Rows(m)
  PROVE  \E up : /\ PQ!Up(h, k) = up[<<h, k>>]
                 /\ \A at \in UpStarts(m, k) : up[at] = UpValue(at, up)
  <1> DEFINE S == UpStarts(m, k)
             V == Rows(m)
             measure == [at \in S |-> at[2]]
             table == [p \in S \X [S -> V] |-> UpValue(p[1], p[2])]
             Body(f) == [at \in S |-> UpValue(at, f)]
             up == CHOOSE f : f = Body(f)
  <1>1. measure \in [S -> Nat] /\ \A at \in S : measure[at] = at[2]
    BY DEF UpStarts
  <1>2. ASSUME NEW at \in S, NEW f \in [S -> V] PROVE UpValue(at, f) \in V
    BY <1>2, UpGoesUp DEF UpValue, UpStarts
  <1>3. /\ table \in [S \X [S -> V] -> V]
        /\ \A at \in S, f \in [S -> V] : table[<<at, f>>] = UpValue(at, f)
    BY <1>2
  <1> HIDE DEF measure, table
  <1>4. DependsBelow(table, S, V, measure)
    <2> SUFFICES ASSUME NEW at \in S, NEW f \in [S -> V], NEW g \in [S -> V],
                        \A t \in S : measure[t] < measure[at] => f[t] = g[t]
                 PROVE  UpValue(at, f) = UpValue(at, g)
      BY <1>1, <1>3 DEF DependsBelow
    <2> DEFINE i == (at[2] - 1) \div 2
               t == <<PQ!Swap(at[1], i, at[2]), i>>
    <2>1. at[2] # 0 => t \in S /\ t[2] < at[2]
      BY UpGoesUp
    <2>2. at[2] # 0 => f[t] = g[t]
      BY <1>1, <2>1
    <2> QED
      BY <2>2 DEF UpValue
  <1>5. h \in V
    OBVIOUS
  <1>6. PICK f \in [S -> V] : Recurs(f, S, table)
    <2> HIDE DEF S, V
    <2> QED
      BY <1>4, <1>5, MeasuredRecursion
  <1>7. f = Body(f)
    BY <1>3, <1>6 DEF Recurs
  <1>8. up = Body(up)
    BY <1>7
  <1>9. PQ!Up(h, k) = up[<<h, k>>]
    <2>1. PQ!Slices(h) = Rows(m)
      BY DEF PQ!Slices, Rows
    <2> QED
      BY <2>1 DEF PQ!Up, UpValue, UpStarts
  <1> HIDE DEF up
  <1>10. \A at \in S : up[at] = UpValue(at, up)
    BY <1>8
  <1> QED
    BY <1>9, <1>10

(* What a sift loop makes of row g: the same items, ordered among the first k,*)
(* the others where they were.                                                *)
Sifted(g, t, m, k) ==
    /\ t \in Rows(m) /\ SameTimes(g, t)
    /\ Ordered(RanksOf(t, m), k)
    /\ \A x \in 1..m : x > k => t[x] = g[x]

(* up orders a row that only its last place may disorder, and keeps its items. *)
LEMMA SiftsUp ==
  ASSUME NEW m \in Nat, NEW k \in 0..(m - 1), NEW h \in Rows(m),
         OrderedButUp(RanksOf(h, m), k, m)
  PROVE  Sifted(h, PQ!Up(h, k), m, m)
  <1>1. PICK up : /\ PQ!Up(h, k) = up[<<h, k>>]
                  /\ \A at \in UpStarts(m, k) : up[at] = UpValue(at, up)
    BY UpUnfolds
  <1> DEFINE S == UpStarts(m, k)
             measure == [at \in S |-> at[2]]
             G == {at \in S : OrderedButUp(RanksOf(at[1], m), at[2], m) =>
                                 Sifted(at[1], up[at], m, m)}
  <1>2. measure \in [S -> Nat] /\ \A at \in S : measure[at] = at[2]
    BY DEF UpStarts
  <1>3. ASSUME NEW at \in S, \A t \in S : measure[t] < measure[at] => t \in G
        PROVE  at \in G
    <2> SUFFICES ASSUME OrderedButUp(RanksOf(at[1], m), at[2], m)
                 PROVE  Sifted(at[1], up[at], m, m)
      OBVIOUS
    <2> DEFINE g == at[1]
               j == at[2]
               i == (j - 1) \div 2
               t == <<PQ!Swap(g, i, j), i>>
    <2>1. g \in Rows(m) /\ j \in 0..k /\ j \in 0..(m - 1)
      BY DEF UpStarts
    <2>2. up[at] = IF j = 0 \/ ~PQ!Less(g, j, i) THEN g ELSE up[t]
      BY <1>1 DEF UpValue
    <2>3. j # 0 => i \in 0..k /\ i \in 0..(m - 1) /\ i < j /\ IsParent(i, j) /\ t \in S
      BY UpGoesUp
    <2>4. t[1] = PQ!Swap(g, i, j) /\ t[2] = i
      OBVIOUS
    <2>5. OrderedButUp(RanksOf(g, m), j, m)
      OBVIOUS
    <2>6. S = UpStarts(m, k)
      OBVIOUS
    <2>7. measure[at] = j
      BY <1>2
    <2> HIDE DEF g, j, i, t, S, measure
    <2>8. CASE j = 0 \/ ~PQ!Less(g, j, i)
      <3>1. j = 0 \/ (IsParent(i, j) /\ i \in 0..(m - 1) /\
                        ~(RanksOf(g, m)[j] < RanksOf(g, m)[i]))
        BY <2>1, <2>3, <2>8, RanksOfRow
      <3>2. RanksOf(g, m) \in Ranks(m)
        BY <2>1, RanksOfRow
      <3>3. Ordered(RanksOf(g, m), m)
        BY <2>1, <2>5, <3>1, <3>2, UpEnds
      <3> QED
        BY <2>1, <2>2, <2>8, <3>3 DEF Sifted, SameTimes, g
    <2>9. CASE j # 0 /\ PQ!Less(g, j, i)
      <3> DEFINE w == PQ!Swap(g, i, j)
      <3>1. RanksOf(g, m)[j] < RanksOf(g, m)[i]
        BY <2>1, <2>3, <2>9, RanksOfRow
      <3>2. /\ w \in Rows(m) /\ SameTimes(g, w)
            /\ Swapped(RanksOf(g, m), RanksOf(w, m), i, j, m)
        BY <2>1, <2>3, <2>9, SwapFacts, SwapKeepsTimes, RanksSwapped
      <3>3. RanksOf(g, m) \in Ranks(m) /\ RanksOf(w, m) \in Ranks(m)
        BY <2>1, <3>2, RanksOfRow
      <3> HIDE DEF w
      <3>4. OrderedButUp(RanksOf(w, m), i, m)
        BY <2>1, <2>3, <2>5, <2>9, <3>1, <3>2, <3>3, SwapUp
      <3>5. t \in G
        BY <1>2, <1>3, <2>3, <2>4, <2>7, <2>9
      <3>6. Sifted(w, up[t], m, m)
        BY <2>4, <3>4, <3>5 DEF w
      <3>7. SameTimes(g, up[t])
        BY <3>2, <3>6, SameTimesChain DEF Sifted
      <3> QED
        BY <2>2, <2>9, <3>6, <3>7 DEF Sifted, g
    <2> QED
      BY <2>8, <2>9
  <1> HIDE DEF S, measure, G
  <1>4. S \subseteq G
    BY <1>2, <1>3, MeasuredInduction
  <1>5. <<h, k>> \in S
    BY DEF S, UpStarts
  <1>6. <<h, k>> \in G
    BY <1>4, <1>5
  <1> QED
    BY <1>1, <1>6 DEF G

(* Down, unfolded: the first child of the two, the left one of equals.        *)
FirstChild(g, i, k) ==
    IF 2 * i + 1 + 1 < k /\ PQ!Less(g, 2 * i + 1 + 1, 2 * i + 1) THEN 2 * i + 1 + 1 ELSE 2 * i + 1

DownStops(g, i, k) == 2 * i + 1 >= k \/ ~PQ!Less(g, FirstChild(g, i, k), i)

DownValue(at, f, k) ==
    IF DownStops(at[1], at[2], k) THEN at[1]
    ELSE f[<<PQ!Swap(at[1], at[2], FirstChild(at[1], at[2], k)), FirstChild(at[1], at[2], k)>>]

DownStarts(m) == Rows(m) \X Nat

(* The recursion of down ends: the place goes up to the length.               *)
LEMMA DownGoesDown ==
  ASSUME NEW m \in Nat, NEW k \in 0..m, NEW at \in DownStarts(m), ~DownStops(at[1], at[2], k)
  PROVE  LET j == FirstChild(at[1], at[2], k)
         IN /\ at[2] \in 0..(k - 1) /\ j \in 0..(k - 1) /\ at[2] < j /\ IsParent(at[2], j)
            /\ <<PQ!Swap(at[1], at[2], j), j>> \in DownStarts(m)
  <1> DEFINE j == FirstChild(at[1], at[2], k)
  <1>1. at[1] \in Rows(m) /\ at[2] \in Nat
    BY DEF DownStarts
  <1>2. at[2] \in 0..(k - 1) /\ j \in 0..(k - 1) /\ at[2] < j /\ IsParent(at[2], j)
    BY <1>1 DEF FirstChild, DownStops, IsParent
  <1> HIDE DEF j
  <1>3. PQ!Swap(at[1], at[2], j) \in Rows(m)
    BY <1>1, <1>2, SwapFacts
  <1>4. <<PQ!Swap(at[1], at[2], j), j>> \in DownStarts(m)
    BY <1>2, <1>3 DEF DownStarts
  <1> QED
    BY <1>2, <1>4 DEF j

(* What down does in a step.                                                  *)
LEMMA DownUnfolds ==
  ASSUME NEW m \in Nat, NEW k \in 0..m, NEW i \in Nat, NEW h \in Rows(m)
  PROVE  \E down : /\ PQ!Down(h, i, k) = down[<<h, i>>]
                   /\ \A at \in DownStarts(m) : down[at] = DownValue(at, down, k)
  <1> DEFINE S == DownStarts(m)
             V == Rows(m)
             measure == [at \in S |-> IF at[2] < k THEN k - at[2] ELSE 0]
             table == [p \in S \X [S -> V] |-> DownValue(p[1], p[2], k)]
             Body(f) == [at \in S |-> DownValue(at, f, k)]
             down == CHOOSE f : f = Body(f)
  <1>1. /\ measure \in [S -> Nat]
        /\ \A at \in S : measure[at] = IF at[2] < k THEN k - at[2] ELSE 0
    BY DEF DownStarts
  <1>2. ASSUME NEW at \in S, NEW f \in [S -> V] PROVE DownValue(at, f, k) \in V
    BY <1>2, DownGoesDown DEF DownValue, DownStarts
  <1>3. /\ table \in [S \X [S -> V] -> V]
        /\ \A at \in S, f \in [S -> V] : table[<<at, f>>] = DownValue(at, f, k)
    BY <1>2
  <1> HIDE DEF measure, table
  <1>4. DependsBelow(table, S, V, measure)
    <2> SUFFICES ASSUME NEW at \in S, NEW f \in [S -> V], NEW g \in [S -> V],
                        \A t \in S : measure[t] < measure[at] => f[t] = g[t]
                 PROVE  DownValue(at, f, k) = DownValue(at, g, k)
      BY <1>1, <1>3 DEF DependsBelow
    <2> DEFINE j == FirstChild(at[1], at[2], k)
               t == <<PQ!Swap(at[1], at[2], j), j>>
    <2>1. ~DownStops(at[1], at[2], k) =>
             /\ t \in S /\ t[2] = j /\ j \in 0..(k - 1) /\ at[2] \in 0..(k - 1) /\ at[2] < j
      BY DownGoesDown
    <2>2. ~DownStops(at[1], at[2], k) => f[t] = g[t]
      <3> HIDE DEF t, j
      <3> QED
        BY <1>1, <2>1
    <2> QED
      BY <2>2 DEF DownValue
  <1>5. h \in V
    OBVIOUS
  <1>6. PICK f \in [S -> V] : Recurs(f, S, table)
    <2> HIDE DEF S, V
    <2> QED
      BY <1>4, <1>5, MeasuredRecursion
  <1>7. f = Body(f)
    BY <1>3, <1>6 DEF Recurs
  <1>8. down = Body(down)
    BY <1>7
  <1>9. PQ!Down(h, i, k) = down[<<h, i>>]
    <2>1. PQ!Slices(h) = Rows(m)
      BY DEF PQ!Slices, Rows
    <2> QED
      BY <2>1 DEF PQ!Down, DownValue, DownStops, FirstChild, DownStarts
  <1> HIDE DEF down
  <1>10. \A at \in S : down[at] = DownValue(at, down, k)
    BY <1>8
  <1> QED
    BY <1>9, <1>10

(* down picks the child that is served first.                                 *)
LEMMA FirstChildIsLeast ==
  ASSUME NEW m \in Nat, NEW k \in 0..m, NEW g \in Rows(m), NEW i \in Nat, 2 * i + 1 < k
  PROVE  LET j == FirstChild(g, i, k)
             a == RanksOf(g, m)
         IN /\ j \in 0..(k - 1)
            /\ \A c \in 0..(k - 1) : IsParent(i, c) => a[j] <= a[c]
  <1> DEFINE j == FirstChild(g, i, k)
             a == RanksOf(g, m)
             l == 2 * i + 1
             r == 2 * i + 1 + 1
  <1>1. l \in 0..(m - 1) /\ l \in Nat /\ r \in Nat /\ r = l + 1 /\ l < k
    OBVIOUS
  <1>2. j = IF r < k /\ PQ!Less(g, r, l) THEN r ELSE l
    BY DEF FirstChild
  <1>3. r < k => (PQ!Less(g, r, l) <=> a[r] < a[l])
    BY <1>1, RanksOfRow
  <1>4. \A c \in 0..(k - 1) : a[c] \in Int
    BY RanksOfRow DEF Ranks
  <1>5. \A c \in 0..(k - 1) : IsParent(i, c) => c = l \/ c = r
    BY DEF IsParent
  <1> HIDE DEF j, a, l, r
  <1>6. j \in 0..(k - 1)
    BY <1>1, <1>2
  <1>7. \A c \in 0..(k - 1) : IsParent(i, c) => a[j] <= a[c]
    <2> SUFFICES ASSUME NEW c \in 0..(k - 1), c = l \/ c = r PROVE a[j] <= a[c]
      BY <1>5
    <2>1. a[c] \in Int /\ a[l] \in Int /\ (r < k => a[r] \in Int)
      BY <1>1, <1>4
    <2> QED
      BY <1>2, <1>3, <2>1
  <1> QED
    BY <1>6, <1>7 DEF j, a

(* down orders a row that only one place may disorder, and keeps its items.   *)
LEMMA SiftsDown ==
  ASSUME NEW m \in Nat, NEW k \in 0..m, NEW i \in Nat, NEW h \in Rows(m),
         OrderedButDown(RanksOf(h, m), i, k)
  PROVE  Sifted(h, PQ!Down(h, i, k), m, k)
  <1>1. PICK down : /\ PQ!Down(h, i, k) = down[<<h, i>>]
                    /\ \A at \in DownStarts(m) : down[at] = DownValue(at, down, k)
    BY DownUnfolds
  <1> DEFINE S == DownStarts(m)
             measure == [at \in S |-> IF at[2] < k THEN k - at[2] ELSE 0]
             G == {at \in S : OrderedButDown(RanksOf(at[1], m), at[2], k) =>
                                 Sifted(at[1], down[at], m, k)}
  <1>2. /\ measure \in [S -> Nat]
        /\ \A at \in S : measure[at] = IF at[2] < k THEN k - at[2] ELSE 0
    BY DEF DownStarts
  <1>3. ASSUME NEW at \in S, \A t \in S : measure[t] < measure[at] => t \in G
        PROVE  at \in G
    <2> SUFFICES ASSUME OrderedButDown(RanksOf(at[1], m), at[2], k)
                 PROVE  Sifted(at[1], down[at], m, k)
      OBVIOUS
    <2> DEFINE g == at[1]
               p == at[2]
               j == FirstChild(g, p, k)
               t == <<PQ!Swap(g, p, j), j>>
               a == RanksOf(g, m)
    <2>1. g \in Rows(m) /\ p \in Nat
      BY DEF DownStarts
    <2>2. down[at] = IF DownStops(g, p, k) THEN g ELSE down[t]
      BY <1>1 DEF DownValue
    <2>3. ~DownStops(g, p, k) =>
             /\ p \in 0..(k - 1) /\ j \in 0..(k - 1) /\ p < j /\ IsParent(p, j) /\ t \in S
      BY DownGoesDown
    <2>4. t[1] = PQ!Swap(g, p, j) /\ t[2] = j
      OBVIOUS
    <2>5. OrderedButDown(a, p, k)
      OBVIOUS
    <2>6. measure[at] = IF p < k THEN k - p ELSE 0
      BY <1>2
    <2>7. DownStops(g, p, k) <=> 2 * p + 1 >= k \/ ~PQ!Less(g, j, p)
      BY DEF DownStops
    <2>8. 2 * p + 1 < k => /\ p \in 0..(m - 1) /\ j \in 0..(m - 1)
                           /\ \A c \in 0..(k - 1) : IsParent(p, c) => a[j] <= a[c]
                           /\ (PQ!Less(g, j, p) <=> a[j] < a[p])
      <3> SUFFICES ASSUME 2 * p + 1 < k
                   PROVE  /\ p \in 0..(m - 1) /\ j \in 0..(m - 1)
                          /\ \A c \in 0..(k - 1) : IsParent(p, c) => a[j] <= a[c]
                          /\ (PQ!Less(g, j, p) <=> a[j] < a[p])
        OBVIOUS
      <3>1. j \in 0..(k - 1) /\ \A c \in 0..(k - 1) : IsParent(p, c) => a[j] <= a[c]
        BY <2>1, FirstChildIsLeast
      <3>2. p \in 0..(m - 1)
        BY <2>1
      <3> HIDE DEF g, p, j, t, a
      <3>3. j \in 0..(m - 1)
        BY <3>1
      <3> QED
        BY <2>1, <3>1, <3>2, <3>3, RanksOfRow DEF a
    <2>9. a \in Ranks(m)
      BY <2>1, RanksOfRow
    <2> HIDE DEF g, p, j, t, S, measure
    <2>10. CASE DownStops(g, p, k)
      <3>1. \A c \in 0..(k - 1) : IsParent(p, c) => a[p] <= a[c]
        <4> SUFFICES ASSUME NEW c \in 0..(k - 1), IsParent(p, c) PROVE a[p] <= a[c]
          OBVIOUS
        <4>1. 2 * p + 1 < k
          BY <2>1 DEF IsParent
        <4>2. ~(a[j] < a[p]) /\ a[j] <= a[c]
          BY <2>7, <2>8, <2>10, <4>1
        <4>3. a[j] \in Int /\ a[p] \in Int /\ a[c] \in Int
          BY <2>8, <2>9, <4>1 DEF Ranks
        <4> QED
          BY <4>2, <4>3
      <3> HIDE DEF a
      <3>2. Ordered(a, k)
        BY <2>1, <2>5, <2>9, <3>1, DownEnds
      <3> QED
        BY <2>1, <2>2, <2>10, <3>2 DEF Sifted, SameTimes, g, a
    <2>11. CASE ~DownStops(g, p, k)
      <3> DEFINE w == PQ!Swap(g, p, j)
      <3>0. 2 * p + 1 < k
        BY <2>1, <2>7, <2>11
      <3>1. a[j] < a[p] /\ p \in 0..(m - 1) /\ j \in 0..(m - 1)
        BY <2>7, <2>8, <2>11, <3>0
      <3>2. /\ w \in Rows(m) /\ SameTimes(g, w)
            /\ Swapped(RanksOf(g, m), RanksOf(w, m), p, j, m)
            /\ \A x \in 1..m : x # p + 1 /\ x # j + 1 => w[x] = g[x]
        BY <2>1, <3>1, SwapFacts, SwapKeepsTimes, RanksSwapped
      <3>3. RanksOf(w, m) \in Ranks(m)
        BY <2>1, <3>2, RanksOfRow
      <3> HIDE DEF w, a
      <3>4. OrderedButDown(RanksOf(w, m), j, k)
        <4>1. Swapped(a, RanksOf(w, m), p, j, m)
          BY <3>2 DEF a
        <4>2. /\ p \in 0..(k - 1) /\ j \in 0..(k - 1) /\ IsParent(p, j)
              /\ \A c \in 0..(k - 1) : IsParent(p, c) => a[j] <= a[c]
          BY <2>3, <2>8, <2>11, <3>0
        <4> QED
          BY <2>5, <2>9, <3>1, <3>3, <4>1, <4>2, SwapDown
      <3>5. t \in G
        BY <1>2, <1>3, <2>3, <2>4, <2>6, <2>11
      <3>6. Sifted(w, down[t], m, k)
        BY <2>4, <3>4, <3>5 DEF w
      <3>7. SameTimes(g, down[t])
        BY <3>2, <3>6, SameTimesChain DEF Sifted
      <3>8. \A x \in 1..m : x > k => down[t][x] = g[x]
        BY <2>3, <2>11, <3>2, <3>6 DEF Sifted
      <3> QED
        BY <2>2, <2>11, <3>6, <3>7, <3>8 DEF Sifted, g
    <2> QED
      BY <2>10, <2>11
  <1> HIDE DEF S, measure, G
  <1>4. S \subseteq G
    BY <1>2, <1>3, MeasuredInduction
  <1>5. <<h, i>> \in S
    BY DEF S, DownStarts
  <1>6. <<h, i>> \in G
    BY <1>4, <1>5
  <1> QED
    BY <1>1, <1>6 DEF G

Heaped(h) == h \in Seq(Items) /\ Ordered(RanksOf(h, Len(h)), Len(h))

HeapInv == Heaped(heap) /\ max \in BOOLEAN

LEMMA RowsAreSeqs ==
  /\ \A m \in Nat : \A g \in Rows(m) : g \in Seq(Items) /\ Len(g) = m /\ DOMAIN g = 1..m
  /\ \A g \in Seq(Items) : Len(g) \in Nat /\ g \in Rows(Len(g))
  BY DEF Rows

LEMMA AppendFacts ==
  ASSUME NEW h \in Seq(Items), NEW v \in Items
  PROVE  LET g == Append(h, v)
         IN /\ Len(h) \in Nat /\ h \in Rows(Len(h)) /\ g \in Rows(Len(h) + 1)
            /\ g[Len(h) + 1] = v /\ \A x \in 1..Len(h) : g[x] = h[x]
  <1> DEFINE g == Append(h, v)
  <1>1. /\ Len(h) \in Nat /\ g \in Seq(Items) /\ Len(g) = Len(h) + 1
        /\ g[Len(h) + 1] = v /\ \A x \in 1..Len(h) : g[x] = h[x]
    OBVIOUS
  <1> QED
    BY <1>1, RowsAreSeqs

(* heap.Push.                                                                 *)
LEMMA PushedFacts ==
  ASSUME NEW h, Heaped(h), NEW v \in Items
  PROVE  LET t == PQ!Pushed(h, v)
         IN /\ Heaped(t) /\ t \in Rows(Len(h) + 1)
            /\ SameTimes(Append(h, v), t) /\ PQ!OneMore(h, t, v)
  <1> DEFINE l == Len(h)
             m == l + 1
             g == Append(h, v)
             t == PQ!Pushed(h, v)
             a == RanksOf(h, l)
             b == RanksOf(g, m)
  <1>1. /\ h \in Seq(Items) /\ l \in Nat /\ h \in Rows(l) /\ g \in Rows(m)
        /\ g[m] = v /\ \A x \in 1..l : g[x] = h[x]
    BY AppendFacts DEF Heaped
  <1>2. t = PQ!Up(g, l)
    BY DEF PQ!Pushed
  <1>3. Ordered(a, l)
    BY DEF Heaped
  <1> HIDE DEF l, g, t
  <1>4. \A x \in 0..(l - 1) : b[x] = a[x]
    BY <1>1 DEF RanksOf
  <1>5. OrderedButUp(b, l, m)
    <2> HIDE DEF a, b
    <2>1. \A i, c \in 0..(m - 1) : IsParent(i, c) => i \in 0..(l - 1) /\ (c # l => c \in 0..(l - 1))
      BY <1>1 DEF IsParent
    <2>2. \A c \in 0..(m - 1) : ~IsParent(l, c)
      BY <1>1 DEF IsParent
    <2> QED
      BY <1>3, <1>4, <2>1, <2>2 DEF Ordered, OrderedButUp
  <1>6. Sifted(g, t, m, m)
    <2>1. m \in Nat /\ l \in 0..(m - 1)
      BY <1>1
    <2> QED
      BY <1>1, <1>2, <1>5, <2>1, SiftsUp
  <1>7. Heaped(t) /\ t \in Rows(m)
    BY <1>1, <1>6, RowsAreSeqs DEF Heaped, Sifted
  <1>8. PQ!OneMore(h, t, v)
    <2>1. PQ!OneMore(h, g, g[l + 1])
      BY <1>1, TimesOfLonger
    <2> QED
      BY <1>1, <1>6, <2>1 DEF PQ!OneMore, Sifted, SameTimes
  <1> QED
    BY <1>6, <1>7, <1>8 DEF Sifted, l, g, t

LEMMA FrontOfRow ==
  ASSUME NEW m \in Nat, NEW g \in Rows(m + 1)
  PROVE  /\ PQ!Front(g) \in Rows(m)
         /\ \A x \in 1..m : PQ!Front(g)[x] = g[x]
  <1>1. g \in Seq(Items) /\ Len(g) = m + 1
    BY RowsAreSeqs
  <1>2. SubSeq(g, 1, m) \in Seq(Items) /\ Len(SubSeq(g, 1, m)) = m
    BY <1>1
  <1>3. \A x \in 1..m : SubSeq(g, 1, m)[x] = g[x]
    BY <1>1
  <1>4. PQ!Front(g) = SubSeq(g, 1, m)
    BY <1>1 DEF PQ!Front
  <1> QED
    BY <1>2, <1>3, <1>4, RowsAreSeqs

(* What holds of every item of one row holds of every item of the other.      *)
LEMMA AmongTheSame ==
  ASSUME NEW m \in Nat, NEW s \in Rows(m), NEW t \in Rows(m), SameTimes(s, t)
  PROVE  \A x \in 1..m : \E y \in 1..m : t[y] = s[x]
  <1> SUFFICES ASSUME NEW x \in 1..m PROVE \E y \in 1..m : t[y] = s[x]
    OBVIOUS
  <1> DEFINE u == s[x]
             S == Places(u, s)
             T == Places(u, t)
  <1>1. u \in Items /\ x \in S /\ S \subseteq 1..m /\ T \subseteq 1..m
    BY DEF Rows, Places
  <1>2. \A y \in T : y \in 1..m /\ t[y] = u
    BY DEF Rows, Places
  <1>3. Cardinality(S) = Cardinality(T)
    BY <1>1, TimesAreCounts DEF SameTimes
  <1> HIDE DEF S, T
  <1>4. IsFiniteSet(S) /\ IsFiniteSet(T)
    BY <1>1, FinitePlaces
  <1>5. T # {}
    BY <1>1, <1>3, <1>4, FS_EmptySet
  <1> QED
    BY <1>2, <1>5

(* heap.Pop serves the root, and the rest is a heap again.                    *)
LEMMA PoppedFacts ==
  ASSUME NEW m \in Nat, NEW h \in Rows(m + 1), Ordered(RanksOf(h, m + 1), m + 1)
  PROVE  LET t == PQ!Popped(h)
         IN /\ Heaped(t) /\ PQ!OneMore(t, h, h[1])
            /\ \A x \in 1..(m + 1) : ~PQ!Before(h[x], h[1])
  <1> DEFINE l == m + 1
             g == PQ!Swap(h, 0, m)
             d == PQ!Down(g, 0, m)
             t == PQ!Popped(h)
             a == RanksOf(h, l)
             b == RanksOf(g, l)
  <1>1. t = PQ!Front(d)
    <2>1. Len(h) - 1 = m
      BY RowsAreSeqs
    <2> QED
      BY <2>1 DEF PQ!Popped
  <1>2. l \in Nat /\ 0 \in 0..(l - 1) /\ m \in 0..(l - 1) /\ m \in 0..l /\ 1 \in 1..l
    OBVIOUS
  <1>3. h \in Rows(l) /\ g \in Rows(l) /\ g[m + 1] = h[1]
        /\ SameTimes(h, g) /\ Swapped(a, b, 0, m, l)
    <2>1. h \in Rows(l)
      OBVIOUS
    <2>2. 0 + 1 = 1
      OBVIOUS
    <2> HIDE DEF l
    <2> QED
      BY <1>2, <2>1, <2>2, SwapFacts, SwapKeepsTimes, RanksSwapped
  <1>4. a \in Ranks(l) /\ b \in Ranks(l) /\ Ordered(a, l)
    <2>1. Ordered(a, l)
      OBVIOUS
    <2> HIDE DEF l
    <2> QED
      BY <1>2, <1>3, <2>1, RanksOfRow
  <1>5. OrderedButDown(b, 0, m)
    <2> HIDE DEF a, b
    <2>1. \A p, c \in 0..(m - 1) : IsParent(p, c) => c # 0
      BY DEF IsParent
    <2>2. \A x \in 0..(m - 1) : x # 0 => b[x] = a[x]
      BY <1>3 DEF Swapped
    <2>3. \A p, c \in 0..(m - 1) : IsParent(p, c) => a[p] <= a[c]
      BY <1>4 DEF Ordered
    <2> QED
      BY <2>1, <2>2, <2>3 DEF OrderedButDown
  <1> HIDE DEF g, l
  <1>6. Sifted(g, d, l, m)
    BY <1>2, <1>3, <1>5, SiftsDown
  <1> HIDE DEF d
  <1>7. d \in Rows(m + 1) /\ SameTimes(g, d) /\ d[m + 1] = h[1] /\ Ordered(RanksOf(d, l), m)
    <2>1. d[m + 1] = g[m + 1]
      BY <1>6 DEF Sifted, l
    <2> QED
      BY <1>3, <1>6, <2>1 DEF Sifted, l
  <1>8. t \in Rows(m) /\ \A x \in 1..m : t[x] = d[x]
    BY <1>1, <1>7, FrontOfRow
  <1> HIDE DEF t
  <1>9. Heaped(t)
    <2>1. \A x \in 0..(m - 1) : RanksOf(t, m)[x] = RanksOf(d, l)[x]
      BY <1>8 DEF RanksOf, l
    <2>2. Ordered(RanksOf(t, m), m)
      BY <1>7, <2>1 DEF Ordered
    <2>3. t \in Seq(Items) /\ Len(t) = m
      BY <1>8, RowsAreSeqs
    <2> QED
      BY <2>2, <2>3 DEF Heaped
  <1>10. PQ!OneMore(t, h, h[1])
    <2>1. \A x \in 1..m : d[x] = t[x]
      BY <1>8
    <2>2. PQ!OneMore(t, d, d[m + 1])
      BY <1>7, <1>8, <2>1, TimesOfLonger
    <2>3. SameTimes(h, d)
      BY <1>3, <1>7, SameTimesChain
    <2> QED
      BY <1>7, <2>2, <2>3 DEF PQ!OneMore, SameTimes
  <1>11. \A x \in 1..l : ~PQ!Before(h[x], h[1])
    <2> SUFFICES ASSUME NEW x \in 1..l PROVE ~PQ!Before(h[x], h[1])
      OBVIOUS
    <2>1. x - 1 \in 0..(l - 1) /\ (x - 1) + 1 = x /\ 0 + 1 = 1
      BY <1>2
    <2>2. a[0] <= a[x - 1]
      BY <1>2, <1>4, <2>1, RootIsFirst
    <2>3. a[0] = Rank(h[1]) /\ a[x - 1] = Rank(h[x]) /\ h[1] \in Items /\ h[x] \in Items
      BY <1>2, <1>3, <2>1, RanksOfRow
    <2>4. Rank(h[1]) \in Int /\ Rank(h[x]) \in Int
      BY <2>3, RankIsInt
    <2> QED
      BY <2>2, <2>3, <2>4, BeforeByRank
  <1> QED
    BY <1>9, <1>10, <1>11 DEF t, l

-----------------------------------------------------------------------------
LEMMA HeapStays ==
  ASSUME HeapInv, max' = max, Heaped(heap')
  PROVE  HeapInv'
  BY DEF HeapInv, Heaped, Ordered, RanksOf, Rank

LEMMA HeapInitInv == PQ!Init => HeapInv
  BY DEF PQ!Init, HeapInv, Heaped, Ordered

(* What Push, Pop and the top-K offer do to the items.                        *)
ServesNow ==
    \/ \E v \in Items : PQ!OneMore(heap, heap', v)
    \/ /\ served' # <<>>
       /\ \E all \in {heap} \union {Append(heap, v) : v \in Items} :
             /\ PQ!OneMore(heap', all, served'[1])
             /\ \A i \in DOMAIN all : ~PQ!Before(all[i], served'[1])

LEMMA HeapMoves ==
  ASSUME HeapInv, PQ!Next
  PROVE  HeapInv' /\ ServesNow
  <1>1. Heaped(heap) /\ heap \in Seq(Items)
    BY DEF HeapInv, Heaped
  <1>2. ASSUME NEW v \in Items, PQ!Push(v) PROVE HeapInv' /\ ServesNow
    <2>1. heap' = PQ!Pushed(heap, v) /\ max' = max
      BY <1>2 DEF PQ!Push
    <2>2. Heaped(heap') /\ PQ!OneMore(heap, heap', v)
      BY <1>1, <2>1, PushedFacts
    <2> QED
      BY <2>1, <2>2, HeapStays DEF ServesNow
  <1>3. ASSUME PQ!Pop PROVE HeapInv' /\ ServesNow
    <2>1. heap # <<>> /\ heap' = PQ!Popped(heap) /\ max' = max /\ served' = <<heap[1]>>
      BY <1>3 DEF PQ!Pop
    <2> DEFINE m == Len(heap) - 1
    <2>2. m \in Nat /\ m + 1 = Len(heap) /\ DOMAIN heap = 1..(m + 1) /\ heap \in Rows(m + 1)
      BY <1>1, <2>1, RowsAreSeqs
    <2>3. Ordered(RanksOf(heap, m + 1), m + 1)
      BY <1>1, <2>2 DEF Heaped
    <2> HIDE DEF m
    <2>4. /\ Heaped(heap') /\ PQ!OneMore(heap', heap, heap[1])
          /\ \A x \in 1..(m + 1) : ~PQ!Before(heap[x], heap[1])
      BY <2>1, <2>2, <2>3, PoppedFacts
    <2>5. ServesNow
      BY <2>1, <2>2, <2>4 DEF ServesNow
    <2> QED
      BY <2>1, <2>4, <2>5, HeapStays
  <1>4. ASSUME NEW v \in Items, PQ!Offer(v) PROVE HeapInv' /\ ServesNow
    <2> DEFINE t == PQ!Pushed(heap, v)
               all == Append(heap, v)
               m == Len(heap)
    <2>1. heap' = PQ!Popped(t) /\ max' = max /\ served' = <<t[1]>>
      BY <1>4 DEF PQ!Offer
    <2>2. Heaped(t) /\ t \in Rows(m + 1) /\ SameTimes(all, t)
      BY <1>1, PushedFacts
    <2>3. m \in Nat /\ all \in Rows(m + 1) /\ all \in {Append(heap, w) : w \in Items}
      BY <1>1, AppendFacts
    <2> HIDE DEF t, all, m
    <2>4. Ordered(RanksOf(t, m + 1), m + 1)
      BY <2>2, <2>3, RowsAreSeqs DEF Heaped
    <2>5. /\ Heaped(heap') /\ PQ!OneMore(heap', t, t[1])
          /\ \A x \in 1..(m + 1) : ~PQ!Before(t[x], t[1])
      BY <2>1, <2>2, <2>3, <2>4, PoppedFacts
    <2>6. PQ!OneMore(heap', all, t[1])
      BY <2>2, <2>5 DEF PQ!OneMore, SameTimes
    <2>7. \A i \in DOMAIN all : ~PQ!Before(all[i], t[1])
      <3>1. m + 1 \in Nat /\ DOMAIN all = 1..(m + 1)
        BY <2>3, RowsAreSeqs
      <3>2. \A i \in 1..(m + 1) : \E y \in 1..(m + 1) : t[y] = all[i]
        BY <2>2, <2>3, <3>1, AmongTheSame
      <3> QED
        BY <2>5, <3>1, <3>2
    <2> QED
      BY <2>1, <2>3, <2>5, <2>6, <2>7, HeapStays DEF ServesNow
  <1> QED
    BY <1>2, <1>3, <1>4 DEF PQ!Next

(* Whatever is pushed and popped in whichever order, Pop returns an item that  *)
(* none still in the queue precedes, and the items are those pushed and not   *)
(* yet popped.                                                                *)
THEOREM ServesInPriorityOrder == PQ!Spec => HeapServesInOrder
  <1>1. HeapInv /\ [PQ!Next]_(PQ!vars) => HeapInv'
    <2>1. HeapInv /\ UNCHANGED PQ!vars => HeapInv'
      BY HeapStays DEF HeapInv, PQ!vars
    <2> QED
      BY <2>1, HeapMoves
  <1>2. HeapInv /\ [PQ!Next]_(PQ!vars) => [ServesNow]_(PQ!vars)
    BY HeapMoves
  <1>3. HeapServesInOrder <=> [][ServesNow]_(PQ!vars)
    BY DEF HeapServesInOrder, PQ!ServesInOrder, ServesNow
  <1> QED
    BY <1>1, <1>2, <1>3, HeapInitInv, PTL DEF PQ!Spec

-----------------------------------------------------------------------------
(* Trie, for any letters and any bound on the length of words.  Words are     *)
(* ordered by "is a prefix of".                                               *)
Pre(p, w) == Len(p) <= Len(w) /\ \A i \in 1..Len(p) : p[i] = w[i]

IsWord(w) == w \in Seq(Letters) /\ Len(w) <= MaxLength

(* Words are the sequences of letters of at most MaxLength.                   *)
LEMMA WordsAreShort == \A w : w \in TR!Words <=> IsWord(w)
  <1>1. \A w : IsWord(w) => w \in TR!Words
    <2> SUFFICES ASSUME NEW w, IsWord(w) PROVE w \in TR!Words
      OBVIOUS
    <2>1. Len(w) \in 0..MaxLength /\ w \in [1..Len(w) -> Letters]
      BY StructuresAssumption DEF IsWord
    <2> QED
      BY <2>1 DEF TR!Words, TR!BoundedSeq, TR!SeqOf
  <1>2. \A w : w \in TR!Words => IsWord(w)
    <2> SUFFICES ASSUME NEW w, w \in TR!Words PROVE IsWord(w)
      OBVIOUS
    <2>1. PICK m \in 0..MaxLength : w \in [1..m -> Letters]
      BY DEF TR!Words, TR!BoundedSeq, TR!SeqOf
    <2>2. w \in Seq(Letters) /\ Len(w) = m
      BY <2>1, StructuresAssumption
    <2> QED
      BY <2>1, <2>2, StructuresAssumption DEF IsWord
  <1> QED
    BY <1>1, <1>2

LEMMA EqualWords ==
  ASSUME NEW p \in TR!Words, NEW q \in TR!Words, Len(p) = Len(q), Pre(p, q)
  PROVE  p = q
  <1>1. p \in Seq(Letters) /\ q \in Seq(Letters)
    BY WordsAreShort DEF IsWord
  <1> QED
    BY <1>1 DEF Pre

LEMMA FirstLetters ==
  ASSUME NEW w \in TR!Words, NEW d \in 0..Len(w)
  PROVE  LET p == SubSeq(w, 1, d)
         IN p \in TR!Words /\ Len(p) = d /\ Pre(p, w)
  <1>1. w \in Seq(Letters) /\ Len(w) \in Nat /\ Len(w) <= MaxLength
    BY WordsAreShort DEF IsWord
  <1> DEFINE p == SubSeq(w, 1, d)
  <1>2. p \in Seq(Letters) /\ Len(p) = d /\ \A i \in 1..d : p[i] = w[i]
    BY <1>1
  <1> HIDE DEF p
  <1>3. Len(p) <= MaxLength
    BY <1>1, <1>2, StructuresAssumption
  <1>4. Pre(p, w)
    BY <1>1, <1>2 DEF Pre
  <1>5. p \in TR!Words
    BY <1>2, <1>3, WordsAreShort DEF IsWord
  <1> QED
    BY <1>2, <1>4, <1>5 DEF p

LEMMA PrefixesArePre ==
  ASSUME NEW p \in TR!Words, NEW w \in TR!Words
  PROVE  TR!IsPrefix(p, w) <=> Pre(p, w)
  <1>1. /\ p \in Seq(Letters) /\ w \in Seq(Letters) /\ Len(p) \in Nat /\ Len(w) \in Nat
    BY WordsAreShort DEF IsWord
  <1>2. ASSUME Len(p) <= Len(w) PROVE SubSeq(p, 1, Len(p)) = SubSeq(w, 1, Len(p)) <=> Pre(p, w)
    <2>1. /\ SubSeq(p, 1, Len(p)) \in Seq(Letters) /\ Len(SubSeq(p, 1, Len(p))) = Len(p)
          /\ \A i \in 1..Len(p) : SubSeq(p, 1, Len(p))[i] = p[i]
      BY <1>1
    <2>2. /\ SubSeq(w, 1, Len(p)) \in Seq(Letters) /\ Len(SubSeq(w, 1, Len(p))) = Len(p)
          /\ \A i \in 1..Len(p) : SubSeq(w, 1, Len(p))[i] = w[i]
      BY <1>1, <1>2
    <2> QED
      BY <1>1, <1>2, <2>1, <2>2 DEF Pre
  <1> QED
    BY <1>1, <1>2 DEF TR!IsPrefix, Pre

(* The order: what the rest uses of words.                                    *)
LEMMA PrefixOrder ==
  /\ <<>> \in TR!Words /\ Len(<<>>) = 0
  /\ \A p \in TR!Words : Len(p) \in Nat /\ Len(p) <= MaxLength /\ Pre(<<>>, p) /\ Pre(p, p)
  /\ \A p \in TR!Words : Len(p) = 0 => p = <<>>
  /\ \A p, q \in TR!Words : Pre(p, q) => Len(p) <= Len(q)
  /\ \A p, q \in TR!Words : Pre(p, q) /\ Len(p) = Len(q) => p = q
  <1>1. <<>> \in TR!Words /\ Len(<<>>) = 0
    <2> DEFINE e == <<>>
    <2>1. e \in Seq(Letters) /\ Len(e) = 0
      OBVIOUS
    <2> HIDE DEF e
    <2>2. IsWord(e)
      BY <2>1, StructuresAssumption DEF IsWord
    <2>3. e \in TR!Words
      BY <2>2, WordsAreShort
    <2> QED
      BY <2>1, <2>3 DEF e
  <1>2. ASSUME NEW p \in TR!Words
        PROVE  Len(p) \in Nat /\ Len(p) <= MaxLength /\ Pre(<<>>, p) /\ Pre(p, p)
    <2>1. p \in Seq(Letters) /\ Len(p) \in Nat /\ Len(p) <= MaxLength
      BY WordsAreShort DEF IsWord
    <2> QED
      BY <2>1 DEF Pre
  <1>3. ASSUME NEW p \in TR!Words, Len(p) = 0 PROVE p = <<>>
    <2>1. p \in Seq(Letters)
      BY WordsAreShort DEF IsWord
    <2> QED
      BY <1>3, <2>1
  <1>4. \A p, q \in TR!Words : Pre(p, q) => Len(p) <= Len(q)
    BY DEF Pre
  <1> QED
    BY <1>1, <1>2, <1>3, <1>4, EqualWords

LEMMA PreChain ==
  \A p, q, r \in TR!Words : Pre(p, q) /\ Pre(q, r) => Pre(p, r)
  <1> SUFFICES ASSUME NEW p \in TR!Words, NEW q \in TR!Words, NEW r \in TR!Words,
                      Pre(p, q), Pre(q, r)
               PROVE  Pre(p, r)
    OBVIOUS
  <1>1. Len(p) \in Nat /\ Len(q) \in Nat /\ Len(r) \in Nat
    BY PrefixOrder
  <1> QED
    BY <1>1 DEF Pre

LEMMA PreFork ==
  \A p, q, r \in TR!Words : Pre(p, r) /\ Pre(q, r) /\ Len(p) <= Len(q) => Pre(p, q)
  <1> SUFFICES ASSUME NEW p \in TR!Words, NEW q \in TR!Words, NEW r \in TR!Words,
                      Pre(p, r), Pre(q, r), Len(p) <= Len(q)
               PROVE  Pre(p, q)
    OBVIOUS
  <1>1. Len(p) \in Nat /\ Len(q) \in Nat /\ Len(r) \in Nat
    BY PrefixOrder
  <1> QED
    BY <1>1 DEF Pre

(* The prefixes of a word are its first letters, down to none.                *)
LEMMA PrefixesAre ==
  ASSUME NEW w \in TR!Words
  PROVE  TR!Prefixes(w) = {p \in TR!Words : Pre(p, w)} /\ IsFiniteSet(TR!Prefixes(w))
  <1> DEFINE D == 0..Len(w)
             f == [d \in D |-> SubSeq(w, 1, d)]
  <1>1. TR!Prefixes(w) = {SubSeq(w, 1, d) : d \in D}
    BY DEF TR!Prefixes
  <1>2. ASSUME NEW p \in TR!Words, Pre(p, w) PROVE p = SubSeq(w, 1, Len(p)) /\ Len(p) \in D
    <2>1. Len(p) \in D
      BY <1>2, PrefixOrder
    <2>2. SubSeq(w, 1, Len(p)) \in TR!Words /\ Pre(SubSeq(w, 1, Len(p)), w)
          /\ Len(SubSeq(w, 1, Len(p))) = Len(p)
      BY <2>1, FirstLetters
    <2> HIDE DEF D
    <2> DEFINE q == SubSeq(w, 1, Len(p))
    <2>3. q \in TR!Words /\ Pre(q, w) /\ Len(q) = Len(p)
      BY <2>2
    <2> HIDE DEF q
    <2>4. Pre(p, q)
      BY <1>2, <2>3, PrefixOrder, PreFork
    <2>5. p = q
      BY <2>3, <2>4, PrefixOrder
    <2> QED
      BY <2>1, <2>5 DEF q
  <1>3. TR!Prefixes(w) = {p \in TR!Words : Pre(p, w)}
    BY <1>1, <1>2, FirstLetters
  <1>4. IsFiniteSet(D)
    <2>1. Len(w) \in Int
      BY PrefixOrder
    <2> QED
      BY <2>1, FS_Interval
  <1>5. f \in Surjection(D, {SubSeq(w, 1, d) : d \in D})
    <2> DEFINE T == {SubSeq(w, 1, d) : d \in D}
    <2>1. f \in [D -> T] /\ \A t \in T : \E d \in D : f[d] = t
      OBVIOUS
    <2> HIDE DEF f, T
    <2> QED
      BY <2>1, Fun_IsSurj DEF T
  <1>6. IsFiniteSet({SubSeq(w, 1, d) : d \in D})
    <2> HIDE DEF D, f
    <2> QED
      BY <1>4, <1>5, FS_Surjection
  <1> QED
    BY <1>1, <1>3, <1>6

(* Children of a node are one letter longer.                                  *)
LEMMA ChildrenAre ==
  ASSUME NEW p \in TR!Words, nodes \subseteq TR!Words
  PROVE  TR!Children(p) = {c \in nodes : Len(c) = Len(p) + 1 /\ Pre(p, c)}
  <1> SUFFICES ASSUME NEW c \in nodes
               PROVE  c # <<>> /\ TR!Front(c) = p <=> Len(c) = Len(p) + 1 /\ Pre(p, c)
    BY DEF TR!Children
  <1>1. c \in TR!Words /\ Len(c) \in Nat /\ Len(p) \in Nat
    BY PrefixOrder
  <1>2. TR!Front(c) = SubSeq(c, 1, Len(c) - 1)
    BY DEF TR!Front
  <1>3. CASE c = <<>>
    <2>1. Len(c) = 0
      BY <1>3, PrefixOrder
    <2> QED
      BY <1>1, <1>3, <2>1
  <1>4. CASE c # <<>>
    <2> DEFINE q == SubSeq(c, 1, Len(c) - 1)
    <2>1. Len(c) - 1 \in 0..Len(c)
      BY <1>1, <1>4, PrefixOrder
    <2>2. q \in TR!Words /\ Len(q) = Len(c) - 1 /\ Pre(q, c)
      BY <1>1, <2>1, FirstLetters
    <2> HIDE DEF q
    <2>3. q = p => Len(c) = Len(p) + 1 /\ Pre(p, c)
      BY <1>1, <2>2
    <2>4. ASSUME Len(c) = Len(p) + 1, Pre(p, c) PROVE q = p
      <3>1. Pre(q, p) /\ Len(q) = Len(p)
        BY <1>1, <2>2, <2>4, PreFork
      <3> QED
        BY <2>2, <3>1, PrefixOrder
    <2> QED
      BY <1>2, <1>4, <2>3, <2>4 DEF q
  <1> QED
    BY <1>3, <1>4

(* The words, and the nodes on the way to them.                               *)
Live(E) == {p \in TR!Words : p = <<>> \/ \E w \in E : Pre(p, w)}

TrieInv ==
    /\ ends \subseteq TR!Words /\ IsFiniteSet(ends) /\ size = Cardinality(ends)
    /\ nodes = Live(ends) /\ IsFiniteSet(nodes)

(* What the nodes of a trie are.                                              *)
LEMMA TrieNodes ==
  ASSUME TrieInv
  PROVE  /\ nodes \subseteq TR!Words /\ ends \subseteq nodes
         /\ \A w \in ends : \A p \in TR!Words : Pre(p, w) => p \in nodes
         /\ \A p \in nodes : p # <<>> => \E w \in ends : Pre(p, w)
  BY PrefixOrder DEF TrieInv, Live

(* No word but w goes on from the first d letters of w.                       *)
Dead(w, d) == \A u \in ends : Pre(SubSeq(w, 1, d), u) => u = w

(* deleteHelper at the end of the word: a leaf is no longer needed.           *)
LEMMA DeadAtTheEnd ==
  ASSUME TrieInv, NEW w \in ends
  PROVE  Dead(w, Len(w)) <=> TR!Children(w) = {}
  <1>1. /\ w \in TR!Words /\ nodes \subseteq TR!Words /\ ends \subseteq TR!Words /\ Len(w) \in Nat
        /\ \A p \in nodes : p # <<>> => \E u \in ends : Pre(p, u)
        /\ \A u \in ends : \A p \in TR!Words : Pre(p, u) => p \in nodes
    BY TrieNodes, PrefixOrder DEF TrieInv
  <1>2. SubSeq(w, 1, Len(w)) = w
    <2>1. Len(w) \in 0..Len(w)
      BY <1>1
    <2>2. /\ SubSeq(w, 1, Len(w)) \in TR!Words /\ Len(SubSeq(w, 1, Len(w))) = Len(w)
          /\ Pre(SubSeq(w, 1, Len(w)), w)
      BY <1>1, <2>1, FirstLetters
    <2> QED
      BY <1>1, <2>2, PrefixOrder
  <1>3. TR!Children(w) = {c \in nodes : Len(c) = Len(w) + 1 /\ Pre(w, c)}
    BY <1>1, ChildrenAre
  <1>4. ASSUME TR!Children(w) = {}, NEW u \in ends, Pre(w, u) PROVE u = w
    <2> SUFFICES ASSUME u # w PROVE FALSE
      OBVIOUS
    <2>1. u \in TR!Words /\ Len(u) \in Nat /\ Len(w) <= Len(u)
      BY <1>1, <1>4, PrefixOrder
    <2>2. Len(w) # Len(u)
      BY <1>1, <1>4, <2>1, PrefixOrder
    <2>3. Len(w) + 1 \in 0..Len(u)
      BY <1>1, <2>1, <2>2
    <2> DEFINE c == SubSeq(u, 1, Len(w) + 1)
    <2>4. c \in TR!Words /\ Len(c) = Len(w) + 1 /\ Pre(c, u)
      BY <2>1, <2>3, FirstLetters
    <2> HIDE DEF c
    <2>5. Pre(w, c)
      BY <1>1, <1>4, <2>1, <2>4, PreFork
    <2> QED
      BY <1>1, <1>3, <1>4, <2>4, <2>5
  <1>5. ASSUME Dead(w, Len(w)), NEW c \in TR!Children(w) PROVE FALSE
    <2>1. c \in nodes /\ c \in TR!Words /\ Len(c) = Len(w) + 1 /\ Pre(w, c)
      BY <1>1, <1>3, <1>5
    <2>2. c # <<>>
      BY <1>1, <2>1, PrefixOrder
    <2>3. PICK u \in ends : Pre(c, u)
      BY <1>1, <2>1, <2>2
    <2>4. Pre(w, u)
      BY <1>1, <2>1, <2>3, PreChain
    <2>5. u = w
      BY <1>2, <1>5, <2>4 DEF Dead
    <2> QED
      BY <1>1, <2>1, <2>3, <2>5, PrefixOrder
  <1> QED
    BY <1>2, <1>4, <1>5 DEF Dead

(* deleteHelper on its way back: a node is given up if its only child was.    *)
LEMMA DeadFurtherUp ==
  ASSUME TrieInv, NEW w \in ends, NEW d \in 0..(Len(w) - 1)
  PROVE  Dead(w, d) <=> /\ Dead(w, d + 1) /\ SubSeq(w, 1, d) \notin ends
                        /\ TR!Children(SubSeq(w, 1, d)) = {SubSeq(w, 1, d + 1)}
  <1> DEFINE p == SubSeq(w, 1, d)
             q == SubSeq(w, 1, d + 1)
  <1>1. /\ w \in TR!Words /\ nodes \subseteq TR!Words /\ ends \subseteq TR!Words /\ Len(w) \in Nat
        /\ \A r \in nodes : r # <<>> => \E u \in ends : Pre(r, u)
        /\ \A u \in ends : \A r \in TR!Words : Pre(r, u) => r \in nodes
    BY TrieNodes, PrefixOrder DEF TrieInv
  <1>2. /\ p \in TR!Words /\ Len(p) = d /\ Pre(p, w)
        /\ q \in TR!Words /\ Len(q) = d + 1 /\ Pre(q, w)
    <2>1. d \in 0..Len(w) /\ d + 1 \in 0..Len(w)
      BY <1>1
    <2> QED
      BY <1>1, <2>1, FirstLetters
  <1>3. Dead(w, d) <=> \A u \in ends : Pre(p, u) => u = w
    BY DEF Dead
  <1>4. Dead(w, d + 1) <=> \A u \in ends : Pre(q, u) => u = w
    BY DEF Dead
  <1> HIDE DEF p, q
  <1>5. Pre(p, q) /\ q \in nodes /\ d \in Nat /\ d < Len(w)
    BY <1>1, <1>2, PreFork
  <1>6. TR!Children(p) = {c \in nodes : Len(c) = d + 1 /\ Pre(p, c)}
    BY <1>1, <1>2, ChildrenAre
  <1>7. q \in TR!Children(p)
    BY <1>2, <1>5, <1>6
  <1>8. ASSUME Dead(w, d) PROVE Dead(w, d + 1) /\ p \notin ends /\ TR!Children(p) = {q}
    <2>1. Dead(w, d + 1)
      BY <1>1, <1>2, <1>3, <1>4, <1>5, <1>8, PreChain
    <2>2. p \notin ends
      <3>1. p # w /\ Pre(p, p)
        BY <1>2, <1>5, PrefixOrder
      <3> QED
        BY <1>3, <1>8, <3>1
    <2>3. ASSUME NEW c \in TR!Children(p) PROVE c = q
      <3>1. c \in nodes /\ c \in TR!Words /\ Len(c) = d + 1 /\ Pre(p, c)
        BY <1>1, <1>6, <2>3
      <3>2. c # <<>>
        BY <1>5, <3>1, PrefixOrder
      <3>3. PICK u \in ends : Pre(c, u)
        BY <1>1, <3>1, <3>2
      <3>4. Pre(p, u)
        BY <1>1, <1>2, <3>1, <3>3, PreChain
      <3>5. u = w
        BY <1>3, <1>8, <3>4
      <3>6. Pre(c, q)
        BY <1>1, <1>2, <3>1, <3>3, <3>5, PreFork
      <3> QED
        BY <1>2, <3>1, <3>6, PrefixOrder
    <2> QED
      BY <1>7, <2>1, <2>2, <2>3
  <1>9. ASSUME Dead(w, d + 1), p \notin ends, TR!Children(p) = {q}, NEW u \in ends, Pre(p, u)
        PROVE  u = w
    <2>1. u \in TR!Words /\ Len(u) \in Nat /\ d <= Len(u)
      BY <1>1, <1>2, <1>9, PrefixOrder
    <2>2. Len(u) # d
      BY <1>2, <1>9, <2>1, PrefixOrder
    <2>3. d + 1 \in 0..Len(u)
      BY <1>5, <2>1, <2>2
    <2> DEFINE c == SubSeq(u, 1, d + 1)
    <2>4. c \in TR!Words /\ Len(c) = d + 1 /\ Pre(c, u)
      BY <2>1, <2>3, FirstLetters
    <2> HIDE DEF c
    <2>5. Pre(p, c)
      BY <1>2, <1>5, <1>9, <2>1, <2>4, PreFork
    <2>6. c = q
      BY <1>1, <1>6, <1>9, <2>4, <2>5
    <2> QED
      BY <1>4, <1>9, <2>4, <2>6
  <1> QED
    BY <1>3, <1>8, <1>9 DEF p, q

(* So this is what the branches that deleteHelper gives up are.               *)
LEMMA PrunesTheDead ==
  ASSUME TrieInv, NEW w \in ends
  PROVE  \A d \in 0..Len(w) : TR!Prunes(w)[d] <=> Dead(w, d)
  <1> DEFINE D == 0..Len(w)
             Body(f) == [d \in D |->
                           IF d = Len(w) THEN TR!Children(w) = {}
                           ELSE /\ f[d + 1]
                                /\ SubSeq(w, 1, d) \notin ends
                                /\ TR!Children(SubSeq(w, 1, d)) = {SubSeq(w, 1, d + 1)}]
             g == [d \in D |-> IF Dead(w, d) THEN TRUE ELSE FALSE]
             prunes == CHOOSE f : f = Body(f)
             far == [d \in D |-> Len(w) - d]
             G == {d \in D : prunes[d] <=> Dead(w, d)}
  <1>1. Len(w) \in Nat
    BY TrieNodes, PrefixOrder
  <1>2. Dead(w, Len(w)) <=> TR!Children(w) = {}
    BY DeadAtTheEnd
  <1>3. \A d \in D : d # Len(w) =>
           /\ d + 1 \in D
           /\ (Dead(w, d) <=> /\ Dead(w, d + 1) /\ SubSeq(w, 1, d) \notin ends
                              /\ TR!Children(SubSeq(w, 1, d)) = {SubSeq(w, 1, d + 1)})
    BY <1>1, DeadFurtherUp
  <1>4. g = Body(g)
    <2>1. \A d \in D : g[d] \in BOOLEAN /\ (g[d] <=> Dead(w, d))
      OBVIOUS
    <2>2. \A d \in D : /\ Body(g)[d] \in BOOLEAN
                       /\ d = Len(w) => (Body(g)[d] <=> TR!Children(w) = {})
                       /\ d # Len(w) =>
                            (Body(g)[d] <=> g[d + 1] /\ SubSeq(w, 1, d) \notin ends
                               /\ TR!Children(SubSeq(w, 1, d)) = {SubSeq(w, 1, d + 1)})
      <3> SUFFICES ASSUME NEW d \in D
                   PROVE  /\ Body(g)[d] \in BOOLEAN
                          /\ d = Len(w) => (Body(g)[d] <=> TR!Children(w) = {})
                          /\ d # Len(w) =>
                               (Body(g)[d] <=> g[d + 1] /\ SubSeq(w, 1, d) \notin ends
                                  /\ TR!Children(SubSeq(w, 1, d)) = {SubSeq(w, 1, d + 1)})
        OBVIOUS
      <3>1. CASE d = Len(w)
        BY <3>1
      <3>2. CASE d # Len(w)
        <4>1. d + 1 \in D
          BY <1>3, <3>2
        <4> QED
          BY <2>1, <3>2, <4>1
      <3> QED
        BY <3>1, <3>2
    <2>3. ASSUME NEW d \in D PROVE g[d] <=> Body(g)[d]
      <3> HIDE DEF g, Body, prunes, far, G
      <3>1. CASE d = Len(w)
        BY <1>2, <2>1, <2>2, <3>1
      <3>2. CASE d # Len(w)
        BY <1>3, <2>1, <2>2, <3>2
      <3> QED
        BY <3>1, <3>2
    <2>4. \A d \in D : g[d] = Body(g)[d]
      <3> HIDE DEF g, Body, prunes, far, G
      <3> QED
        BY <2>1, <2>2, <2>3
    <2> QED
      BY <2>4
  <1>5. prunes = Body(prunes)
    BY <1>4
  <1>6. TR!Prunes(w) = prunes
    BY DEF TR!Prunes
  <1> HIDE DEF prunes, g
  <1>7. \A d \in D : prunes[d] =
           IF d = Len(w) THEN TR!Children(w) = {}
           ELSE prunes[d + 1] /\ SubSeq(w, 1, d) \notin ends
                /\ TR!Children(SubSeq(w, 1, d)) = {SubSeq(w, 1, d + 1)}
    BY <1>5
  <1>8. far \in [D -> Nat] /\ \A d \in D : far[d] = Len(w) - d
    BY <1>1
  <1>9. ASSUME NEW d \in D, \A e \in D : far[e] < far[d] => e \in G PROVE d \in G
    <2> SUFFICES prunes[d] <=> Dead(w, d)
      OBVIOUS
    <2>1. CASE d = Len(w)
      BY <1>2, <1>7, <2>1
    <2>2. CASE d # Len(w)
      <3>1. d + 1 \in D /\ far[d + 1] < far[d]
        BY <1>1, <1>3, <1>8, <2>2
      <3>2. prunes[d + 1] <=> Dead(w, d + 1)
        BY <1>9, <3>1
      <3> QED
        BY <1>3, <1>7, <2>2, <3>2
    <2> QED
      BY <2>1, <2>2
  <1> HIDE DEF D, far, G
  <1>10. D \subseteq G
    BY <1>8, <1>9, MeasuredInduction
  <1> QED
    BY <1>6, <1>10 DEF D, G

LEMMA TrieInitInv == TR!Init => TrieInv
  <1> SUFFICES ASSUME TR!Init PROVE TrieInv
    OBVIOUS
  <1>1. nodes = {<<>>} /\ ends = {} /\ size = 0
    BY DEF TR!Init
  <1>2. IsFiniteSet({}) /\ Cardinality({}) = 0 /\ IsFiniteSet(nodes)
    BY <1>1, FS_EmptySet, FS_Singleton
  <1>3. Live({}) = {<<>>}
    BY PrefixOrder DEF Live
  <1> QED
    BY <1>1, <1>2, <1>3 DEF TrieInv

(* Insert makes the nodes of the new word and no other.                       *)
LEMMA InsertKeepsTrie ==
  ASSUME TrieInv, NEW w \in TR!Words, TR!Insert(w)
  PROVE  TrieInv'
  <1>1. /\ nodes' = nodes \union TR!Prefixes(w) /\ ends' = ends \union {w}
        /\ size' = IF w \in ends THEN size ELSE size + 1
    BY DEF TR!Insert
  <1>2. TR!Prefixes(w) = {p \in TR!Words : Pre(p, w)} /\ IsFiniteSet(TR!Prefixes(w))
    BY PrefixesAre
  <1>3. ends \subseteq TR!Words /\ IsFiniteSet(ends) /\ size = Cardinality(ends)
        /\ nodes = Live(ends) /\ IsFiniteSet(nodes)
    BY DEF TrieInv
  <1>4. nodes' = Live(ends')
    BY <1>1, <1>2, <1>3 DEF Live
  <1>5. IsFiniteSet(nodes')
    BY <1>1, <1>2, <1>3, FS_Union
  <1>6. IsFiniteSet(ends') /\ size' = Cardinality(ends')
    BY <1>1, <1>3, FS_AddElement
  <1> QED
    BY <1>1, <1>3, <1>4, <1>5, <1>6 DEF TrieInv, Live

(* Delete takes the nodes that only the deleted word needed.                  *)
LEMMA DeleteKeepsTrie ==
  ASSUME TrieInv, NEW w \in TR!Words, TR!Delete(w)
  PROVE  TrieInv'
  <1>0. ends \subseteq TR!Words /\ IsFiniteSet(ends) /\ size = Cardinality(ends)
        /\ nodes = Live(ends) /\ IsFiniteSet(nodes)
    BY DEF TrieInv
  <1>1. CASE w \notin ends
    <2>1. nodes' = nodes /\ ends' = ends /\ size' = size
      BY <1>1 DEF TR!Delete
    <2> QED
      BY <1>0, <2>1 DEF TrieInv, Live
  <1>2. CASE w \in ends
    <2> DEFINE gone == {SubSeq(w, 1, d) : d \in {e \in 1..Len(w) : TR!Prunes(w)[e]}}
    <2>1. nodes' = nodes \ gone /\ ends' = ends \ {w} /\ size' = size - 1
      BY <1>2 DEF TR!Delete
    <2>2. Len(w) \in Nat
      BY PrefixOrder
    <2>3. \A d \in 1..Len(w) : /\ TR!Prunes(w)[d] <=> Dead(w, d)
                               /\ SubSeq(w, 1, d) \in TR!Words
                               /\ Len(SubSeq(w, 1, d)) = d /\ Pre(SubSeq(w, 1, d), w)
      <3>1. \A d \in 1..Len(w) : d \in 0..Len(w)
        OBVIOUS
      <3> QED
        BY <1>2, <3>1, PrunesTheDead, FirstLetters
    <2>4. ASSUME NEW p \in TR!Words
          PROVE  p \in gone <=> p # <<>> /\ Pre(p, w) /\ \A u \in ends : Pre(p, u) => u = w
      <3>1. ASSUME p \in gone
            PROVE  p # <<>> /\ Pre(p, w) /\ \A u \in ends : Pre(p, u) => u = w
        <4>1. PICK d \in 1..Len(w) : TR!Prunes(w)[d] /\ p = SubSeq(w, 1, d)
          BY <3>1
        <4>2. Len(p) = d /\ Pre(p, w) /\ Dead(w, d)
          BY <2>3, <4>1
        <4>3. p # <<>>
          BY <4>2, PrefixOrder
        <4> QED
          BY <4>1, <4>2, <4>3 DEF Dead
      <3>2. ASSUME p # <<>>, Pre(p, w), \A u \in ends : Pre(p, u) => u = w
            PROVE  p \in gone
        <4> DEFINE d == Len(p)
        <4>1. d \in 1..Len(w)
          BY <2>2, <3>2, PrefixOrder
        <4> DEFINE q == SubSeq(w, 1, d)
        <4>2. q \in TR!Words /\ Len(q) = d /\ Pre(q, w)
          BY <2>3, <4>1
        <4> HIDE DEF q
        <4>3. p = q
          BY <3>2, <4>2, PreFork, PrefixOrder
        <4>4. Dead(w, d)
          BY <3>2, <4>3 DEF Dead, q
        <4>5. TR!Prunes(w)[d]
          BY <2>3, <4>1, <4>4
        <4> QED
          BY <4>1, <4>3, <4>5 DEF q
      <3> QED
        BY <3>1, <3>2
    <2> HIDE DEF gone
    <2>5. nodes' = Live(ends')
      BY <1>0, <1>2, <2>1, <2>4 DEF Live
    <2>6. IsFiniteSet(nodes')
      <3>1. nodes' \in SUBSET nodes
        BY <2>1
      <3> QED
        BY <1>0, <3>1, FS_Subset
    <2>7. IsFiniteSet(ends') /\ size' = Cardinality(ends')
      BY <1>0, <1>2, <2>1, FS_RemoveElement
    <2> QED
      BY <1>0, <2>1, <2>5, <2>6, <2>7 DEF TrieInv, Live
  <1> QED
    BY <1>1, <1>2

LEMMA TrieNextInv == TrieInv /\ [TR!Next]_(TR!vars) => TrieInv'
  <1>1. TrieInv /\ UNCHANGED TR!vars => TrieInv'
    BY DEF TR!vars, TrieInv, Live
  <1> QED
    BY <1>1, InsertKeepsTrie, DeleteKeepsTrie DEF TR!Next

(* StartsWith and Size, from the shape of the trie.                           *)
LEMMA NothingDeadNothingLost ==
  ASSUME TrieInv
  PROVE  TR!NoDeadBranches
  <1>1. /\ ends \subseteq TR!Words /\ size = Cardinality(ends)
        /\ nodes = Live(ends) /\ ends \subseteq nodes
    BY TrieNodes DEF TrieInv
  <1>2. ASSUME NEW p \in TR!Words \ {<<>>}
        PROVE  TR!StartsWith(p) <=> \E w \in ends : TR!IsPrefix(p, w)
    BY <1>1, PrefixesArePre DEF TR!StartsWith, Live
  <1>3. {w \in TR!Words : TR!Search(w)} = ends
    BY <1>1 DEF TR!Search
  <1>4. TR!Cardinality(ends) = Cardinality(ends)
    BY DEF TR!Cardinality, Cardinality
  <1> QED
    BY <1>1, <1>2, <1>3, <1>4 DEF TR!NoDeadBranches

-----------------------------------------------------------------------------
(* Autocomplete, unfolded.  A visit of siblings ends because the subtrees of  *)
(* a node's children lack the node, and one sibling fewer remains after it.   *)
FoundBy(c, r) == IF c \in ends THEN Append(r, c) ELSE r

VisitedBy(c, r, f, limit) ==
    IF Len(r) >= limit THEN {r} ELSE f[<<TR!Children(c), FoundBy(c, r)>>]

CollectValue(at, f, limit) ==
    IF at[1] = {} THEN {at[2]}
    ELSE UNION {UNION {f[<<at[1] \ {c}, r>>] : r \in VisitedBy(c, at[2], f, limit)} : c \in at[1]}

CollectStarts == (SUBSET nodes) \X Seq(nodes)

Subtree(todo) == {m \in nodes : \E c \in todo : Pre(c, m)}

Work(todo) == Cardinality(Subtree(todo)) * (Cardinality(nodes) + 1) + Cardinality(todo)

(* A visit is ordered by the nodes below the siblings, then by their number.  *)
LEMMA LessWork ==
  ASSUME NEW k \in Nat, NEW x \in Nat, NEW y \in Nat, NEW a \in Nat, NEW b \in Nat,
         \/ a < x /\ b < k
         \/ a <= x /\ b < y
  PROVE  a * k + b < x * k + y
  <1>1. a * k \in Nat /\ x * k \in Nat
    OBVIOUS
  <1>2. CASE a < x /\ b < k
    <2>1. x - a - 1 \in Nat
      BY <1>2
    <2>2. (x - a - 1) * k >= 0
      BY <2>1
    <2>3. (x - a - 1) * k = x * k - a * k - k
      OBVIOUS
    <2> QED
      BY <1>1, <1>2, <2>2, <2>3
  <1>3. CASE a <= x /\ b < y
    <2>1. x - a \in Nat
      BY <1>3
    <2>2. (x - a) * k >= 0
      BY <2>1
    <2>3. (x - a) * k = x * k - a * k
      OBVIOUS
    <2> QED
      BY <1>1, <1>3, <2>2, <2>3
  <1> QED
    BY <1>2, <1>3

(* Both visits that a visit makes are smaller.                                *)
LEMMA WorkShrinks ==
  ASSUME TrieInv, NEW todo, todo \subseteq nodes, NEW c \in todo
  PROVE  /\ Work(todo) \in Nat
         /\ Work(todo \ {c}) \in Nat /\ Work(todo \ {c}) < Work(todo)
         /\ TR!Children(c) \subseteq nodes
         /\ Work(TR!Children(c)) \in Nat /\ Work(TR!Children(c)) < Work(todo)
  <1> DEFINE kids == TR!Children(c)
             rest == todo \ {c}
             k == Cardinality(nodes) + 1
  <1>1. nodes \subseteq TR!Words /\ IsFiniteSet(nodes) /\ c \in TR!Words
    BY TrieNodes DEF TrieInv
  <1>2. kids = {d \in nodes : Len(d) = Len(c) + 1 /\ Pre(c, d)}
    BY <1>1, ChildrenAre
  <1> HIDE DEF kids, rest
  <1>3. \A T : T \subseteq nodes => /\ IsFiniteSet(T) /\ Cardinality(T) \in Nat
                                    /\ Cardinality(T) < k /\ Cardinality(nodes) \in Nat
    <2> SUFFICES ASSUME NEW T, T \subseteq nodes
                 PROVE  /\ IsFiniteSet(T) /\ Cardinality(T) \in Nat
                        /\ Cardinality(T) < k /\ Cardinality(nodes) \in Nat
      OBVIOUS
    <2>1. T \in SUBSET nodes
      OBVIOUS
    <2>2. IsFiniteSet(T) /\ Cardinality(T) <= Cardinality(nodes)
      BY <1>1, <2>1, FS_Subset
    <2>3. Cardinality(T) \in Nat /\ Cardinality(nodes) \in Nat
      BY <1>1, <2>2, FS_CardinalityType
    <2> QED
      BY <2>2, <2>3
  <1>4. /\ Subtree(todo) \subseteq nodes /\ Subtree(rest) \subseteq nodes
        /\ Subtree(kids) \subseteq nodes
        /\ kids \subseteq nodes /\ rest \subseteq nodes /\ k \in Nat
    BY <1>2, <1>3 DEF Subtree, rest
  <1>5. Subtree(rest) \subseteq Subtree(todo) /\ IsFiniteSet(Subtree(todo))
    BY <1>3, <1>4 DEF Subtree, rest
  <1>6. Cardinality(Subtree(rest)) <= Cardinality(Subtree(todo))
    BY <1>5, FS_Subset
  <1>7. Cardinality(rest) < Cardinality(todo)
    <2>1. IsFiniteSet(todo) /\ Cardinality(todo) \in Nat
      BY <1>3
    <2>2. Cardinality(rest) = Cardinality(todo) - 1
      BY <2>1, FS_RemoveElement DEF rest
    <2> QED
      BY <2>1, <2>2
  <1>8. Cardinality(Subtree(kids)) < Cardinality(Subtree(todo))
    <2>1. c \in Subtree(todo)
      BY <1>1, PrefixOrder DEF Subtree
    <2>2. c \notin Subtree(kids)
      <3> SUFFICES ASSUME NEW d \in kids, Pre(d, c) PROVE FALSE
        BY DEF Subtree
      <3>1. d \in TR!Words /\ Len(d) = Len(c) + 1
        BY <1>1, <1>2
      <3> QED
        BY <1>1, <3>1, PrefixOrder
    <2>3. Subtree(kids) \subseteq Subtree(todo) \ {c}
      <3> SUFFICES ASSUME NEW m \in Subtree(kids) PROVE m \in Subtree(todo)
        BY <2>2
      <3>1. PICK d \in kids : m \in nodes /\ Pre(d, m)
        BY DEF Subtree
      <3>2. Pre(c, m)
        BY <1>1, <1>2, <3>1, PreChain
      <3> QED
        BY <3>1, <3>2 DEF Subtree
    <2> DEFINE T == Subtree(todo) \ {c}
    <2>4. /\ IsFiniteSet(T) /\ Cardinality(T) = Cardinality(Subtree(todo)) - 1
      BY <1>5, <2>1, FS_RemoveElement
    <2>5. Subtree(kids) \in SUBSET T
      BY <2>3
    <2> HIDE DEF T
    <2>6. Cardinality(Subtree(kids)) <= Cardinality(T)
      BY <2>4, <2>5, FS_Subset
    <2>7. Cardinality(Subtree(kids)) \in Nat /\ Cardinality(Subtree(todo)) \in Nat
      BY <1>3, <1>4
    <2> QED
      BY <2>4, <2>6, <2>7
  <1>9. /\ \A T : T \subseteq nodes =>
             Work(T) = Cardinality(Subtree(T)) * k + Cardinality(T) /\ Work(T) \in Nat
    <2> SUFFICES ASSUME NEW T, T \subseteq nodes
                 PROVE  Work(T) = Cardinality(Subtree(T)) * k + Cardinality(T) /\ Work(T) \in Nat
      OBVIOUS
    <2>1. Subtree(T) \subseteq nodes
      BY DEF Subtree
    <2>2. Cardinality(Subtree(T)) \in Nat /\ Cardinality(T) \in Nat
      BY <1>3, <2>1
    <2> HIDE DEF k
    <2>3. Cardinality(Subtree(T)) * k \in Nat
      BY <1>4, <2>2
    <2> QED
      BY <2>2, <2>3 DEF Work, k
  <1>10. /\ Cardinality(Subtree(rest)) \in Nat /\ Cardinality(Subtree(todo)) \in Nat
         /\ Cardinality(Subtree(kids)) \in Nat /\ Cardinality(rest) \in Nat
         /\ Cardinality(todo) \in Nat /\ Cardinality(kids) \in Nat /\ Cardinality(kids) < k
    BY <1>3, <1>4
  <1> HIDE DEF k
  <1>11. Work(rest) < Work(todo)
    BY <1>4, <1>6, <1>7, <1>9, <1>10, LessWork
  <1>12. Work(kids) < Work(todo)
    <2>1. Cardinality(Subtree(kids)) * k + Cardinality(kids)
             < Cardinality(Subtree(todo)) * k + Cardinality(todo)
      BY <1>4, <1>8, <1>10, LessWork
    <2> QED
      BY <1>4, <1>9, <2>1
  <1> QED
    BY <1>4, <1>9, <1>11, <1>12 DEF kids, rest

LEMMA WorkIsNatural ==
  ASSUME TrieInv, NEW todo, todo \subseteq nodes
  PROVE  Work(todo) \in Nat
  <1>1. CASE todo # {}
    BY <1>1, WorkShrinks
  <1>2. CASE todo = {}
    <2>1. Subtree({}) = {} /\ Cardinality({}) = 0
      BY FS_EmptySet DEF Subtree
    <2>2. Cardinality(nodes) \in Nat
      BY FS_CardinalityType DEF TrieInv
    <2>3. \A x, y, k \in Nat : x * k + y \in Nat
      OBVIOUS
    <2>4. /\ Cardinality(Subtree({})) \in Nat /\ Cardinality({}) \in Nat
          /\ Cardinality(nodes) + 1 \in Nat
      BY <2>1, <2>2
    <2>5. Cardinality(Subtree({})) * (Cardinality(nodes) + 1) + Cardinality({}) \in Nat
      BY <2>3, <2>4, Zenon
    <2> QED
      BY <1>2, <2>5 DEF Work
  <1> QED
    BY <1>1, <1>2

(* What collect does in a step.                                               *)
LEMMA CollectUnfolds ==
  ASSUME TrieInv, NEW limit \in Nat, NEW siblings, siblings \subseteq nodes
  PROVE  \E collect : /\ TR!Collect(siblings, limit) = collect[<<siblings, <<>>>>]
                      /\ \A at \in CollectStarts : collect[at] = CollectValue(at, collect, limit)
  <1> DEFINE S == CollectStarts
             V == SUBSET Seq(nodes)
             measure == [at \in S |-> Work(at[1])]
             table == [p \in S \X [S -> V] |-> CollectValue(p[1], p[2], limit)]
             Body(f) == [at \in S |-> CollectValue(at, f, limit)]
             collect == CHOOSE f : f = Body(f)
  <1>0. \A at \in S : at[1] \subseteq nodes /\ at[2] \in Seq(nodes)
    BY DEF CollectStarts
  <1>1. measure \in [S -> Nat] /\ \A at \in S : measure[at] = Work(at[1])
    BY <1>0, WorkIsNatural
  <1>2. ASSUME NEW at \in S, NEW f \in [S -> V], NEW c \in at[1]
        PROVE  /\ VisitedBy(c, at[2], f, limit) \subseteq Seq(nodes)
               /\ Len(at[2]) < limit => /\ <<TR!Children(c), FoundBy(c, at[2])>> \in S
                                        /\ Work(TR!Children(c)) < Work(at[1])
               /\ \A r \in Seq(nodes) : <<at[1] \ {c}, r>> \in S
               /\ Work(at[1] \ {c}) < Work(at[1])
    <2>1. c \in nodes /\ at[1] \subseteq nodes /\ at[2] \in Seq(nodes)
      BY <1>0
    <2>2. TR!Children(c) \subseteq nodes /\ Work(TR!Children(c)) < Work(at[1])
          /\ Work(at[1] \ {c}) < Work(at[1])
      BY <2>1, WorkShrinks
    <2>3. FoundBy(c, at[2]) \in Seq(nodes)
      BY <2>1 DEF FoundBy
    <2>4. <<TR!Children(c), FoundBy(c, at[2])>> \in S
      BY <2>2, <2>3 DEF CollectStarts
    <2>5. \A r \in Seq(nodes) : <<at[1] \ {c}, r>> \in S
      BY <2>1 DEF CollectStarts
    <2>6. f[<<TR!Children(c), FoundBy(c, at[2])>>] \subseteq Seq(nodes)
      BY <2>4
    <2> QED
      BY <2>1, <2>2, <2>4, <2>5, <2>6 DEF VisitedBy
  <1>3. ASSUME NEW at \in S, NEW f \in [S -> V] PROVE CollectValue(at, f, limit) \in V
    <2>1. ASSUME NEW c \in at[1], NEW r \in VisitedBy(c, at[2], f, limit)
          PROVE  f[<<at[1] \ {c}, r>>] \subseteq Seq(nodes)
      <3>1. <<at[1] \ {c}, r>> \in S
        BY <1>2
      <3> QED
        BY <3>1
    <2> SUFFICES ASSUME NEW s \in CollectValue(at, f, limit) PROVE s \in Seq(nodes)
      OBVIOUS
    <2>2. CASE at[1] = {}
      BY <1>0, <2>2 DEF CollectValue
    <2>3. CASE at[1] # {}
      <3>1. PICK c \in at[1] : \E r \in VisitedBy(c, at[2], f, limit) : s \in f[<<at[1] \ {c}, r>>]
        BY <2>3 DEF CollectValue
      <3> QED
        BY <2>1, <3>1
    <2> QED
      BY <2>2, <2>3
  <1>4. /\ table \in [S \X [S -> V] -> V]
        /\ \A at \in S, f \in [S -> V] : table[<<at, f>>] = CollectValue(at, f, limit)
    <2>1. \A p \in S \X [S -> V] : CollectValue(p[1], p[2], limit) \in V
      BY <1>3
    <2> HIDE DEF S, V
    <2> QED
      BY <2>1
  <1>5. ASSUME NEW at \in S, NEW f \in [S -> V], NEW g \in [S -> V],
               \A t \in S : measure[t] < measure[at] => f[t] = g[t]
        PROVE  CollectValue(at, f, limit) = CollectValue(at, g, limit)
    <2>1. \A t \in S : Work(t[1]) < Work(at[1]) => f[t] = g[t]
      BY <1>1, <1>5
    <2>2. ASSUME NEW c \in at[1]
          PROVE  VisitedBy(c, at[2], f, limit) = VisitedBy(c, at[2], g, limit)
      <3> DEFINE t == <<TR!Children(c), FoundBy(c, at[2])>>
      <3>1. Len(at[2]) < limit => t \in S /\ Work(t[1]) < Work(at[1])
        BY <1>2
      <3>2. Len(at[2]) < limit => f[t] = g[t]
        BY <2>1, <3>1
      <3>3. Len(at[2]) \in Nat
        BY <1>0
      <3> QED
        BY <3>2, <3>3 DEF VisitedBy
    <2>3. ASSUME NEW c \in at[1], NEW r \in VisitedBy(c, at[2], f, limit)
          PROVE  f[<<at[1] \ {c}, r>>] = g[<<at[1] \ {c}, r>>]
      <3> DEFINE t == <<at[1] \ {c}, r>>
      <3>1. t \in S /\ Work(t[1]) < Work(at[1])
        BY <1>2
      <3> QED
        BY <2>1, <3>1
    <2> HIDE DEF S, V, measure, table
    <2>4. ASSUME NEW c \in at[1]
          PROVE  UNION {f[<<at[1] \ {c}, r>>] : r \in VisitedBy(c, at[2], f, limit)}
                 = UNION {g[<<at[1] \ {c}, r>>] : r \in VisitedBy(c, at[2], g, limit)}
      <3> DEFINE A == VisitedBy(c, at[2], f, limit)
                 B == VisitedBy(c, at[2], g, limit)
      <3>1. A = B /\ \A r \in A : f[<<at[1] \ {c}, r>>] = g[<<at[1] \ {c}, r>>]
        BY <2>2, <2>3
      <3> HIDE DEF A, B
      <3>2. {f[<<at[1] \ {c}, r>>] : r \in A} = {g[<<at[1] \ {c}, r>>] : r \in B}
        BY <3>1
      <3> QED
        BY <3>2, Zenon DEF A, B
    <2> DEFINE F(c) == UNION {f[<<at[1] \ {c}, r>>] : r \in VisitedBy(c, at[2], f, limit)}
               H(c) == UNION {g[<<at[1] \ {c}, r>>] : r \in VisitedBy(c, at[2], g, limit)}
    <2>5. /\ CollectValue(at, f, limit) = IF at[1] = {} THEN {at[2]} ELSE UNION {F(c) : c \in at[1]}
          /\ CollectValue(at, g, limit) = IF at[1] = {} THEN {at[2]} ELSE UNION {H(c) : c \in at[1]}
      BY DEF CollectValue
    <2>6. \A c \in at[1] : F(c) = H(c)
      BY <2>4
    <2> HIDE DEF F, H
    <2>7. {F(c) : c \in at[1]} = {H(c) : c \in at[1]}
      BY <2>6
    <2> QED
      BY <2>5, <2>7, Zenon
  <1>6. {} \in V /\ DependsBelow(table, S, V, measure)
    <2>1. {} \in V
      OBVIOUS
    <2> HIDE DEF S, V, measure, table
    <2>2. \A at \in S : \A f, g \in [S -> V] :
             (\A t \in S : measure[t] < measure[at] => f[t] = g[t])
                => table[<<at, f>>] = table[<<at, g>>]
      BY <1>4, <1>5
    <2> QED
      BY <1>1, <1>4, <2>1, <2>2, Zenon DEF DependsBelow
  <1>7. PICK f \in [S -> V] : Recurs(f, S, table)
    <2> HIDE DEF S, V, measure, table
    <2> QED
      BY <1>6, MeasuredRecursion
  <1>8. f = Body(f)
    <2> HIDE DEF table
    <2> QED
      BY <1>4, <1>7 DEF Recurs
  <1>9. collect = Body(collect)
    BY <1>8
  <1>10. TR!Collect(siblings, limit) = collect[<<siblings, <<>>>>]
    BY DEF TR!Collect, CollectValue, VisitedBy, FoundBy, CollectStarts
  <1> HIDE DEF collect
  <1>11. \A at \in S : collect[at] = CollectValue(at, collect, limit)
    BY <1>9
  <1> QED
    BY <1>10, <1>11

-----------------------------------------------------------------------------
(* What a visit adds to the results: words below the siblings, none twice,    *)
(* and all of them unless the limit is reached.                               *)
Under(todo) == {w \in ends : \E c \in todo : Pre(c, w)}

Those(r) == {r[i] : i \in 1..Len(r)}

Distinct(r) == \A i, j \in 1..Len(r) : r[i] = r[j] => i = j

Apart(todo) == \A c, d \in todo : Pre(c, d) => c = d

CanVisit(todo, r, limit) ==
    /\ todo \subseteq nodes /\ r \in Seq(nodes)
    /\ Apart(todo) /\ Distinct(r) /\ Len(r) <= limit /\ Those(r) \cap Under(todo) = {}

Visited(todo, before, r, limit) ==
    /\ r \in Seq(nodes) /\ Distinct(r) /\ Len(before) <= Len(r) /\ Len(r) <= limit
    /\ Those(r) \subseteq Those(before) \union Under(todo)
    /\ Len(r) < limit => Those(r) = Those(before) \union Under(todo)

(* The words below one sibling are not below another.                         *)
LEMMA UnderApart ==
  ASSUME TrieInv, NEW todo, todo \subseteq nodes, Apart(todo), NEW c \in todo
  PROVE  /\ Under(todo) = Under({c}) \union Under(todo \ {c})
         /\ Under({c}) \cap Under(todo \ {c}) = {}
         /\ Under({c}) = Under(TR!Children(c)) \union ({c} \cap ends)
         /\ c \notin Under(TR!Children(c))
         /\ Apart(TR!Children(c)) /\ Apart(todo \ {c})
         /\ TR!Children(c) \subseteq nodes
  <1> DEFINE kids == TR!Children(c)
  <1>1. /\ nodes \subseteq TR!Words /\ c \in TR!Words /\ ends \subseteq TR!Words
        /\ todo \subseteq TR!Words
        /\ \A w \in ends : \A p \in TR!Words : Pre(p, w) => p \in nodes
    BY TrieNodes DEF TrieInv
  <1>2. kids = {d \in nodes : Len(d) = Len(c) + 1 /\ Pre(c, d)}
    BY <1>1, ChildrenAre
  <1> HIDE DEF kids
  <1>3. Under(todo) = Under({c}) \union Under(todo \ {c})
    BY DEF Under
  <1>4. ASSUME NEW w \in Under({c}), w \in Under(todo \ {c}) PROVE FALSE
    <2>1. PICK d \in todo \ {c} : Pre(d, w)
      BY <1>4 DEF Under
    <2>2. Pre(c, w) /\ w \in TR!Words /\ d \in TR!Words
      BY <1>1, <1>4 DEF Under
    <2>3. Len(c) \in Nat /\ Len(d) \in Nat
      BY <1>1, <2>2, PrefixOrder
    <2>4. Pre(c, d) \/ Pre(d, c)
      BY <1>1, <2>1, <2>2, <2>3, PreFork
    <2> QED
      BY <2>1, <2>4 DEF Apart
  <1>5. ASSUME NEW w \in Under(kids) PROVE w \in Under({c}) /\ w # c
    <2>1. PICK d \in kids : Pre(d, w) /\ w \in ends
      BY <1>5 DEF Under
    <2>2. d \in TR!Words /\ w \in TR!Words /\ Len(d) = Len(c) + 1 /\ Pre(c, d)
      BY <1>1, <1>2, <2>1
    <2>3. Pre(c, w)
      BY <1>1, <2>1, <2>2, PreChain
    <2>4. w # c
      BY <1>1, <2>1, <2>2, PrefixOrder
    <2> QED
      BY <2>1, <2>3, <2>4 DEF Under
  <1>6. c \in ends => c \in Under({c})
    BY <1>1, PrefixOrder DEF Under
  <1>7. ASSUME NEW w \in Under({c}), w # c PROVE w \in Under(kids)
    <2>1. Pre(c, w) /\ w \in ends /\ w \in TR!Words
      BY <1>1, <1>7 DEF Under
    <2>2. Len(c) \in Nat /\ Len(w) \in Nat /\ Len(c) + 1 <= Len(w)
      BY <1>1, <1>7, <2>1, PrefixOrder
    <2>3. Len(c) + 1 \in 0..Len(w)
      BY <2>2
    <2> DEFINE d == SubSeq(w, 1, Len(c) + 1)
    <2>4. d \in TR!Words /\ Len(d) = Len(c) + 1 /\ Pre(d, w)
      BY <2>1, <2>3, FirstLetters
    <2> HIDE DEF d
    <2>5. Pre(c, d) /\ d \in nodes
      BY <1>1, <2>1, <2>2, <2>4, PreFork
    <2>6. d \in kids
      BY <1>2, <2>4, <2>5
    <2> QED
      BY <2>1, <2>4, <2>6 DEF Under
  <1>8. Under({c}) \subseteq ends
    BY DEF Under
  <1>9. Under({c}) = Under(kids) \union ({c} \cap ends)
    BY <1>5, <1>6, <1>7, <1>8
  <1>10. Apart(kids)
    <2> SUFFICES ASSUME NEW d \in kids, NEW e \in kids, Pre(d, e) PROVE d = e
      BY DEF Apart
    <2> QED
      BY <1>1, <1>2, PrefixOrder
  <1>11. Apart(todo \ {c}) /\ kids \subseteq nodes
    BY <1>2 DEF Apart
  <1> QED
    BY <1>3, <1>4, <1>5, <1>9, <1>10, <1>11 DEF kids

(* One sibling's visit, and then the others'.                                 *)
LEMMA FoundFacts ==
  ASSUME TrieInv, NEW limit \in Nat, NEW todo, NEW r, CanVisit(todo, r, limit),
         NEW c \in todo, Len(r) < limit
  PROVE  /\ CanVisit(TR!Children(c), FoundBy(c, r), limit)
         /\ Those(FoundBy(c, r)) = Those(r) \union ({c} \cap ends)
         /\ Len(r) <= Len(FoundBy(c, r))
  <1> DEFINE q == FoundBy(c, r)
  <1>1. /\ todo \subseteq nodes /\ r \in Seq(nodes) /\ c \in nodes /\ Len(r) \in Nat
        /\ Apart(todo) /\ Distinct(r) /\ Those(r) \cap Under(todo) = {}
    BY DEF CanVisit
  <1>2. /\ Under({c}) \subseteq Under(todo)
        /\ Under({c}) = Under(TR!Children(c)) \union ({c} \cap ends)
        /\ c \notin Under(TR!Children(c))
        /\ Apart(TR!Children(c)) /\ TR!Children(c) \subseteq nodes
    <2>1. /\ Under(todo) = Under({c}) \union Under(todo \ {c})
          /\ Under({c}) = Under(TR!Children(c)) \union ({c} \cap ends)
          /\ c \notin Under(TR!Children(c))
          /\ Apart(TR!Children(c)) /\ TR!Children(c) \subseteq nodes
      BY <1>1, UnderApart
    <2> QED
      BY <2>1
  <1>3. CASE c \in ends
    <2>1. q = Append(r, c)
      BY <1>3 DEF FoundBy
    <2>2. /\ q \in Seq(nodes) /\ Len(q) = Len(r) + 1 /\ q[Len(r) + 1] = c
          /\ \A i \in 1..Len(r) : q[i] = r[i]
      BY <1>1, <2>1
    <2>3. c \notin Those(r)
      BY <1>1, <1>2, <1>3
    <2> HIDE DEF q
    <2>4. Those(q) = Those(r) \union {c}
      BY <1>1, <2>2 DEF Those
    <2>5. Distinct(q)
      <3>1. \A i \in 1..Len(r) : r[i] # c
        BY <2>3 DEF Those
      <3> SUFFICES ASSUME NEW i \in 1..Len(q), NEW j \in 1..Len(q), q[i] = q[j] PROVE i = j
        BY DEF Distinct
      <3>2. i \in 1..Len(r) \/ i = Len(r) + 1
        BY <1>1, <2>2
      <3>3. j \in 1..Len(r) \/ j = Len(r) + 1
        BY <1>1, <2>2
      <3> QED
        BY <1>1, <2>2, <3>1, <3>2, <3>3 DEF Distinct
    <2>6. Those(q) \cap Under(TR!Children(c)) = {}
      BY <1>1, <1>2, <2>4
    <2>7. Len(q) <= limit /\ Len(r) <= Len(q)
      BY <1>1, <2>2
    <2> QED
      BY <1>2, <1>3, <2>2, <2>4, <2>5, <2>6, <2>7 DEF CanVisit, q
  <1>4. CASE c \notin ends
    <2>1. q = r
      BY <1>4 DEF FoundBy
    <2>2. Those(r) \cap Under(TR!Children(c)) = {} /\ {c} \cap ends = {}
      BY <1>1, <1>2, <1>4
    <2> QED
      BY <1>1, <1>2, <2>1, <2>2 DEF CanVisit
  <1> QED
    BY <1>3, <1>4

(* One sibling's visit and then the others' are a visit of all.               *)
LEMMA OthersNext ==
  ASSUME TrieInv, NEW limit \in Nat, NEW todo, NEW before, CanVisit(todo, before, limit),
         NEW c \in todo, NEW r, Visited({c}, before, r, limit)
  PROVE  /\ CanVisit(todo \ {c}, r, limit)
         /\ \A s : Visited(todo \ {c}, r, s, limit) => Visited(todo, before, s, limit)
  <1>1. /\ todo \subseteq nodes /\ before \in Seq(nodes) /\ Len(before) \in Nat
        /\ Apart(todo) /\ Those(before) \cap Under(todo) = {}
    BY DEF CanVisit
  <1>2. /\ Under(todo) = Under({c}) \union Under(todo \ {c})
        /\ Under({c}) \cap Under(todo \ {c}) = {} /\ Apart(todo \ {c})
    BY <1>1, UnderApart
  <1>3. /\ r \in Seq(nodes) /\ Distinct(r) /\ Len(before) <= Len(r) /\ Len(r) <= limit
        /\ Those(r) \subseteq Those(before) \union Under({c})
        /\ (Len(r) < limit => Those(r) = Those(before) \union Under({c})) /\ Len(r) \in Nat
    <2>1. /\ r \in Seq(nodes) /\ Distinct(r) /\ Len(before) <= Len(r) /\ Len(r) <= limit
          /\ Those(r) \subseteq Those(before) \union Under({c})
          /\ Len(r) < limit => Those(r) = Those(before) \union Under({c})
      BY Zenon DEF Visited
    <2>2. Len(r) \in Nat
      BY <2>1
    <2> QED
      BY <2>1, <2>2
  <1>4. CanVisit(todo \ {c}, r, limit)
    <2>1. Those(r) \cap Under(todo \ {c}) = {} /\ todo \ {c} \subseteq nodes
      BY <1>1, <1>2, <1>3
    <2> QED
      BY <1>2, <1>3, <2>1 DEF CanVisit
  <1>5. ASSUME NEW s, Visited(todo \ {c}, r, s, limit) PROVE Visited(todo, before, s, limit)
    <2>1. /\ s \in Seq(nodes) /\ Distinct(s) /\ Len(r) <= Len(s) /\ Len(s) <= limit
          /\ Those(s) \subseteq Those(r) \union Under(todo \ {c})
          /\ (Len(s) < limit => Those(s) = Those(r) \union Under(todo \ {c})) /\ Len(s) \in Nat
      <3>1. /\ s \in Seq(nodes) /\ Distinct(s) /\ Len(r) <= Len(s) /\ Len(s) <= limit
            /\ Those(s) \subseteq Those(r) \union Under(todo \ {c})
            /\ Len(s) < limit => Those(s) = Those(r) \union Under(todo \ {c})
        BY <1>5, Zenon DEF Visited
      <3>2. Len(s) \in Nat
        BY <3>1
      <3> QED
        BY <3>1, <3>2
    <2>2. Len(before) <= Len(s)
      BY <1>1, <1>3, <2>1
    <2>3. Those(s) \subseteq Those(before) \union Under(todo)
      BY <1>2, <1>3, <2>1
    <2>4. ASSUME Len(s) < limit PROVE Those(s) = Those(before) \union Under(todo)
      <3>1. Len(r) < limit
        BY <1>3, <2>1, <2>4
      <3> QED
        BY <1>2, <1>3, <2>1, <2>4, <3>1
    <2> QED
      BY <2>1, <2>2, <2>3, <2>4 DEF Visited
  <1> QED
    BY <1>4, <1>5

(* A visit of the children after the node itself is a visit of the node.      *)
LEMMA NodeThenChildren ==
  ASSUME TrieInv, NEW limit \in Nat, NEW todo, NEW before, CanVisit(todo, before, limit),
         NEW c \in todo, NEW f,
         Len(before) < limit =>
            \A r \in f[<<TR!Children(c), FoundBy(c, before)>>] :
                Visited(TR!Children(c), FoundBy(c, before), r, limit)
  PROVE  \A r \in VisitedBy(c, before, f, limit) : Visited({c}, before, r, limit)
  <1> SUFFICES ASSUME NEW r \in VisitedBy(c, before, f, limit)
               PROVE  Visited({c}, before, r, limit)
    OBVIOUS
  <1>0. before \in Seq(nodes) /\ Distinct(before) /\ Len(before) <= limit /\ Len(before) \in Nat
    BY DEF CanVisit
  <1>1. CASE Len(before) >= limit
    <2>1. r = before
      BY <1>1 DEF VisitedBy
    <2> QED
      BY <1>0, <1>1, <2>1 DEF Visited
  <1>2. CASE ~(Len(before) >= limit)
    <2> DEFINE q == FoundBy(c, before)
               kids == TR!Children(c)
    <2>0. Len(before) < limit
      BY <1>0, <1>2
    <2>1. r \in f[<<kids, q>>]
      BY <1>2 DEF VisitedBy
    <2>2. Visited(kids, q, r, limit)
      BY <2>0, <2>1
    <2>3. /\ CanVisit(kids, q, limit) /\ Those(q) = Those(before) \union ({c} \cap ends)
          /\ Len(before) <= Len(q)
      BY <2>0, FoundFacts
    <2>4. Under({c}) = Under(kids) \union ({c} \cap ends)
      BY UnderApart DEF CanVisit
    <2> HIDE DEF q, kids
    <2>5. /\ r \in Seq(nodes) /\ Distinct(r) /\ Len(q) <= Len(r) /\ Len(r) <= limit
          /\ Those(r) \subseteq Those(q) \union Under(kids) /\ Len(r) \in Nat
          /\ Len(r) < limit => Those(r) = Those(q) \union Under(kids)
      BY <2>2 DEF Visited
    <2>6. Len(q) \in Nat
      BY <2>3 DEF CanVisit
    <2>7. Len(before) <= Len(r)
      BY <1>0, <2>3, <2>5, <2>6
    <2>8. /\ Those(r) \subseteq Those(before) \union Under({c})
          /\ Len(r) < limit => Those(r) = Those(before) \union Under({c})
      BY <2>3, <2>4, <2>5
    <2> QED
      BY <2>5, <2>7, <2>8 DEF Visited
  <1> QED
    BY <1>1, <1>2

(* Every visit that collect makes, by induction on its work.                  *)
LEMMA VisitsAll ==
  ASSUME TrieInv, NEW limit \in Nat, NEW collect,
         \A at \in CollectStarts : collect[at] = CollectValue(at, collect, limit)
  PROVE  \A at \in CollectStarts : CanVisit(at[1], at[2], limit) =>
            \A r \in collect[at] : Visited(at[1], at[2], r, limit)
  <1> DEFINE S == CollectStarts
             work == [at \in S |-> Work(at[1])]
             Good(at) == CanVisit(at[1], at[2], limit) =>
                            \A r \in collect[at] : Visited(at[1], at[2], r, limit)
             G == {at \in S : Good(at)}
  <1>0. \A at \in S : at[1] \subseteq nodes /\ at[2] \in Seq(nodes)
    BY DEF CollectStarts
  <1>1. work \in [S -> Nat] /\ \A at \in S : work[at] = Work(at[1])
    BY <1>0, WorkIsNatural
  <1>2. ASSUME NEW at \in S, \A t \in S : work[t] < work[at] => t \in G
        PROVE  at \in G
    <2> DEFINE todo == at[1]
               before == at[2]
    <2> SUFFICES ASSUME CanVisit(todo, before, limit), NEW s \in collect[at]
                 PROVE  Visited(todo, before, s, limit)
      OBVIOUS
    <2>1. todo \subseteq nodes /\ before \in Seq(nodes) /\ Distinct(before)
          /\ Len(before) <= limit /\ Len(before) \in Nat
      <3>1. todo \subseteq nodes /\ before \in Seq(nodes) /\ Distinct(before)
            /\ Len(before) <= limit
        BY DEF CanVisit
      <3> QED
        BY <3>1
    <2>2. collect[at] = CollectValue(at, collect, limit)
      OBVIOUS
    <2>3. ASSUME NEW T, NEW q, T \subseteq nodes, q \in Seq(nodes),
                 Work(T) < Work(todo), CanVisit(T, q, limit)
          PROVE  \A r \in collect[<<T, q>>] : Visited(T, q, r, limit)
      <3>1. <<T, q>> \in S
        BY <2>3 DEF CollectStarts
      <3>2. work[<<T, q>>] < work[at]
        BY <1>1, <2>3, <3>1
      <3>3. Good(<<T, q>>)
        BY <1>2, <3>1, <3>2
      <3> QED
        BY <2>3, <3>3
    <2>4. CASE todo = {}
      <3>1. s = before
        BY <2>2, <2>4 DEF CollectValue
      <3>2. Under(todo) = {}
        BY <2>4 DEF Under
      <3> QED
        BY <2>1, <3>1, <3>2 DEF Visited
    <2>5. CASE todo # {}
      <3>1. PICK c \in todo : \E r \in VisitedBy(c, before, collect, limit) :
                                 s \in collect[<<todo \ {c}, r>>]
        BY <2>2, <2>5 DEF CollectValue
      <3>2. PICK r \in VisitedBy(c, before, collect, limit) : s \in collect[<<todo \ {c}, r>>]
        BY <3>1
      <3>3. /\ Work(todo \ {c}) < Work(todo) /\ TR!Children(c) \subseteq nodes
            /\ Work(TR!Children(c)) < Work(todo)
        BY <2>1, WorkShrinks
      <3>4. ASSUME Len(before) < limit
            PROVE  \A q \in collect[<<TR!Children(c), FoundBy(c, before)>>] :
                      Visited(TR!Children(c), FoundBy(c, before), q, limit)
        <4>1. CanVisit(TR!Children(c), FoundBy(c, before), limit)
          BY <3>4, FoundFacts
        <4>2. FoundBy(c, before) \in Seq(nodes)
          BY <4>1 DEF CanVisit
        <4> QED
          BY <2>3, <3>3, <4>1, <4>2
      <3>5. Visited({c}, before, r, limit)
        BY <3>2, <3>4, NodeThenChildren
      <3>6. /\ CanVisit(todo \ {c}, r, limit)
            /\ \A q : Visited(todo \ {c}, r, q, limit) => Visited(todo, before, q, limit)
        BY <3>5, OthersNext
      <3>7. todo \ {c} \subseteq nodes /\ r \in Seq(nodes)
        BY <3>6 DEF CanVisit
      <3>8. Visited(todo \ {c}, r, s, limit)
        BY <2>3, <3>2, <3>3, <3>6, <3>7
      <3> QED
        BY <3>6, <3>8
    <2> QED
      BY <2>4, <2>5
  <1> HIDE DEF S, work, G
  <1>3. S \subseteq G
    BY <1>1, <1>2, MeasuredInduction
  <1> QED
    BY <1>3 DEF S, G

(* A sequence without repetitions is as long as the set of its elements.      *)
LEMMA LengthOfDistinct ==
  ASSUME NEW S, NEW r \in Seq(S), Distinct(r)
  PROVE  IsFiniteSet(Those(r)) /\ Cardinality(Those(r)) = Len(r)
  <1> DEFINE D == 1..Len(r)
             T == Those(r)
             f == [i \in D |-> r[i]]
  <1>1. Len(r) \in Nat
    OBVIOUS
  <1>2. f \in [D -> T] /\ (\A i, j \in D : f[i] = f[j] => i = j)
        /\ \A t \in T : \E i \in D : f[i] = t
    BY DEF Those, Distinct
  <1>3. IsFiniteSet(D) /\ Cardinality(D) = Len(r)
    BY <1>1, FS_Interval
  <1> HIDE DEF D, T, f
  <1>4. f \in Bijection(D, T)
    BY <1>2, Fun_IsBij
  <1> QED
    BY <1>3, <1>4, FS_Bijection, Fun_ExistsBij DEF T

(* Autocomplete visits the node of the prefix.                                *)
LEMMA AutocompletesAll ==
  ASSUME TrieInv
  PROVE  TR!Completes
  <1> SUFFICES ASSUME NEW p \in TR!Words, NEW limit \in 0..3,
                      NEW r \in TR!Autocomplete(p, limit)
               PROVE  LET below == {w \in ends : TR!IsPrefix(p, w)}
                      IN /\ TR!ToSet(r) \subseteq below
                         /\ TR!Cardinality(TR!ToSet(r)) = Len(r)
                         /\ Len(r) = IF TR!Cardinality(below) < limit
                                     THEN TR!Cardinality(below) ELSE limit
    BY Zenon DEF TR!Completes
  <1> DEFINE below == Under({p})
  <1>0. limit \in Nat
    OBVIOUS
  <1>1. ends \subseteq TR!Words /\ IsFiniteSet(ends) /\ nodes \subseteq TR!Words
        /\ \A w \in ends : \A q \in TR!Words : Pre(q, w) => q \in nodes
    BY TrieNodes DEF TrieInv
  <1>2. below = {w \in ends : TR!IsPrefix(p, w)}
    BY <1>1, PrefixesArePre DEF Under
  <1>3. IsFiniteSet(below) /\ Cardinality(below) \in Nat
    <2>1. below \in SUBSET ends
      BY DEF Under
    <2>2. IsFiniteSet(below)
      BY <1>1, <2>1, FS_Subset
    <2> QED
      BY <2>2, FS_CardinalityType
  <1>4. \A S : TR!Cardinality(S) = Cardinality(S)
    BY DEF TR!Cardinality, Cardinality
  <1> DEFINE e == <<>>
  <1>5. e \in Seq(nodes) /\ Len(e) = 0 /\ Those(e) = {}
    BY DEF Those
  <1>6. Visited({p}, e, r, limit) /\ r \in Seq(nodes)
    <2>1. CASE p \in nodes
      <3>1. PICK collect : /\ TR!Collect({p}, limit) = collect[<<{p}, <<>>>>]
                           /\ \A at \in CollectStarts :
                                 collect[at] = CollectValue(at, collect, limit)
        BY <1>0, <2>1, CollectUnfolds
      <3>2. r \in collect[<<{p}, e>>]
        BY <2>1, <3>1 DEF TR!Autocomplete
      <3>3. CanVisit({p}, e, limit)
        BY <1>0, <1>5, <2>1 DEF CanVisit, Apart, Distinct
      <3>4. <<{p}, e>> \in CollectStarts
        BY <1>5, <2>1 DEF CollectStarts
      <3> HIDE DEF e
      <3>5. Visited({p}, e, r, limit)
        <4> DEFINE at == <<{p}, e>>
        <4>1. at \in CollectStarts /\ at[1] = {p} /\ at[2] = e
          BY <3>4
        <4> HIDE DEF at
        <4>2. CanVisit(at[1], at[2], limit) => \A q \in collect[at] : Visited(at[1], at[2], q, limit)
          BY <1>0, <3>1, <4>1, VisitsAll
        <4> QED
          BY <3>2, <3>3, <4>1, <4>2 DEF at
      <3> QED
        BY <3>5 DEF Visited
    <2>2. CASE p \notin nodes
      <3>1. r = e
        BY <2>2 DEF TR!Autocomplete
      <3>2. Under({p}) = {}
        BY <1>1, <2>2 DEF Under
      <3> HIDE DEF e
      <3>3. Distinct(e)
        BY <1>5 DEF Distinct
      <3>4. Those(e) \subseteq Those(e) \cup Under({p})
        OBVIOUS
      <3>5. Len(e) <= limit /\ Len(e) <= Len(e)
        BY <1>0, <1>5
      <3>6. Those(e) \cup Under({p}) = Those(e)
        BY <3>2
      <3>7. Visited({p}, e, e, limit)
        BY <1>5, <3>3, <3>4, <3>5, <3>6, Zenon DEF Visited
      <3> QED
        BY <1>5, <3>1, <3>7
    <2> QED
      BY <2>1, <2>2
  <1> HIDE DEF e, below
  <1>7. /\ Distinct(r) /\ Len(r) <= limit /\ Len(r) \in Nat /\ Those(r) \subseteq below
        /\ Len(r) < limit => Those(r) = below
    <2>1. /\ Distinct(r) /\ Len(r) <= limit /\ Those(r) \subseteq Those(e) \cup Under({p})
          /\ Len(r) < limit => Those(r) = Those(e) \cup Under({p})
      BY <1>6, Zenon DEF Visited
    <2>2. Those(e) \cup Under({p}) = below
      BY <1>5 DEF below
    <2>3. Len(r) \in Nat
      BY <1>6
    <2> QED
      BY <2>1, <2>2, <2>3, Zenon
  <1>8. IsFiniteSet(Those(r)) /\ Cardinality(Those(r)) = Len(r)
    BY <1>6, <1>7, LengthOfDistinct
  <1>9. TR!ToSet(r) = Those(r)
    BY <1>6 DEF TR!ToSet, Those
  <1>10. Len(r) <= Cardinality(below)
    BY <1>3, <1>7, <1>8, FS_Subset
  <1>11. Len(r) = IF Cardinality(below) < limit THEN Cardinality(below) ELSE limit
    BY <1>0, <1>3, <1>7, <1>8, <1>10
  <1> QED
    BY <1>2, <1>4, <1>7, <1>8, <1>9, <1>11

(* After any Inserts and Deletes, StartsWith and Size tell the truth, and      *)
(* Autocomplete returns words with the prefix, none twice, all of them unless *)
(* it stops at the limit, whatever order the maps yield the children in.      *)
THEOREM TrieHolds == TR!Spec => []TrieHoldsItsWords
  <1>1. TrieInv => TrieHoldsItsWords
    BY NothingDeadNothingLost, AutocompletesAll DEF TrieHoldsItsWords, TR!TrieHoldsItsWords
  <1> QED
    BY <1>1, TrieInitInv, TrieNextInv, PTL DEF TR!Spec

-----------------------------------------------------------------------------
(* UnionFind, for any elements.  Ranks grow on the way to the root, which is  *)
(* why the way ends; what a call does to the roots is all the rest needs.     *)
Climbs(u) == \A x \in DOMAIN u.parent :
                u.parent[x] # x => u.rank[x] < u.rank[u.parent[x]]

Forest(u) ==
    /\ u = [parent |-> u.parent, rank |-> u.rank, count |-> u.count]
    /\ u.parent \in [DOMAIN u.parent -> DOMAIN u.parent]
    /\ u.rank \in [DOMAIN u.parent -> Nat] /\ u.count \in Int
    /\ Climbs(u)
    /\ \E top \in Nat : \A x \in DOMAIN u.parent : u.rank[x] <= top

WayFrom(u, x, f) == IF u.parent[x] = x THEN <<x>> ELSE <<x>> \o f[u.parent[x]]

(* Find follows the parents.                                                  *)
LEMMA PathUnfolds ==
  ASSUME NEW u, Forest(u)
  PROVE  \A x \in UF!Made(u) :
            UF!Path(u, x) = IF u.parent[x] = x THEN <<x>> ELSE <<x>> \o UF!Path(u, u.parent[x])
  <1> DEFINE S == UF!Made(u)
             V == Seq(S)
             Body(f) == [x \in S |-> WayFrom(u, x, f)]
             path == CHOOSE f : f = Body(f)
             table == [p \in S \X [S -> V] |-> WayFrom(u, p[1], p[2])]
  <1>0. /\ u.parent \in [S -> S] /\ u.rank \in [S -> Nat]
        /\ \A x \in S : u.parent[x] # x => u.rank[x] < u.rank[u.parent[x]]
    BY DEF Forest, Climbs, UF!Made
  <1>1. PICK top \in Nat : \A x \in S : u.rank[x] <= top
    BY DEF Forest, UF!Made
  <1> DEFINE measure == [x \in S |-> top - u.rank[x]]
  <1>2. measure \in [S -> Nat] /\ \A x \in S : measure[x] = top - u.rank[x]
    BY <1>0, <1>1
  <1>3. ASSUME NEW x \in S, NEW f \in [S -> V] PROVE WayFrom(u, x, f) \in V
    BY <1>0 DEF WayFrom
  <1>4. /\ table \in [S \X [S -> V] -> V]
        /\ \A x \in S, f \in [S -> V] : table[<<x, f>>] = WayFrom(u, x, f)
    BY <1>3
  <1>5. ASSUME NEW x \in S, NEW f \in [S -> V], NEW g \in [S -> V],
               \A t \in S : measure[t] < measure[x] => f[t] = g[t]
        PROVE  WayFrom(u, x, f) = WayFrom(u, x, g)
    <2>1. u.parent[x] # x => u.parent[x] \in S /\ measure[u.parent[x]] < measure[x]
      BY <1>0, <1>1, <1>2
    <2>2. u.parent[x] # x => f[u.parent[x]] = g[u.parent[x]]
      BY <1>5, <2>1
    <2> QED
      BY <2>2 DEF WayFrom
  <1>6. <<>> \in V
    OBVIOUS
  <1> HIDE DEF S, V, measure, table
  <1>7. \A x \in S : \A f, g \in [S -> V] :
           (\A t \in S : measure[t] < measure[x] => f[t] = g[t])
              => table[<<x, f>>] = table[<<x, g>>]
    BY <1>4, <1>5
  <1>8. DependsBelow(table, S, V, measure)
    BY <1>2, <1>4, <1>7, Zenon DEF DependsBelow
  <1>9. PICK f \in [S -> V] : Recurs(f, S, table)
    BY <1>6, <1>8, MeasuredRecursion
  <1>10. f = Body(f)
    BY <1>4, <1>9 DEF Recurs
  <1>11. path = Body(path)
    BY <1>10
  <1>12. ASSUME NEW x \in S PROVE UF!Path(u, x) = path[x]
    BY DEF UF!Path, WayFrom, S
  <1> HIDE DEF path
  <1>13. \A x \in S : path[x] = WayFrom(u, x, path)
    BY <1>11
  <1> QED
    BY <1>0, <1>12, <1>13 DEF WayFrom, S

(* A set with every element that is a root or whose parent it has has all.     *)
LEMMA ForestInduction ==
  ASSUME NEW u, Forest(u), NEW G,
         \A x \in UF!Made(u) : (u.parent[x] # x => u.parent[x] \in G) => x \in G
  PROVE  UF!Made(u) \subseteq G
  <1> DEFINE S == UF!Made(u)
  <1>0. /\ u.parent \in [S -> S] /\ u.rank \in [S -> Nat]
        /\ \A x \in S : u.parent[x] # x => u.rank[x] < u.rank[u.parent[x]]
    BY DEF Forest, Climbs, UF!Made
  <1>1. PICK top \in Nat : \A x \in S : u.rank[x] <= top
    BY DEF Forest, UF!Made
  <1> DEFINE measure == [x \in S |-> top - u.rank[x]]
  <1>2. measure \in [S -> Nat] /\ \A x \in S : measure[x] = top - u.rank[x]
    BY <1>0, <1>1
  <1> HIDE DEF S, measure
  <1>3. ASSUME NEW x \in S, \A t \in S : measure[t] < measure[x] => t \in G
        PROVE  x \in G
    <2>1. u.parent[x] # x => u.parent[x] \in S /\ measure[u.parent[x]] < measure[x]
      BY <1>0, <1>1, <1>2
    <2>2. u.parent[x] # x => u.parent[x] \in G
      BY <1>3, <2>1
    <2> QED
      BY <2>2 DEF S
  <1>4. S \subseteq G
    BY <1>2, <1>3, MeasuredInduction
  <1> QED
    BY <1>4 DEF S

(* What the way to the root of x is.                                          *)
WayUp(u, x) ==
    LET path == UF!Path(u, x)
        r == UF!Root(u, x)
    IN /\ path \in Seq(UF!Made(u)) /\ Len(path) \in Nat \ {0}
       /\ r \in UF!Made(u) /\ u.parent[r] = r
       /\ (x # r => u.rank[x] < u.rank[r])
       /\ Len(path) + u.rank[x] <= u.rank[r] + 1
       /\ (u.parent[x] = x => r = x /\ path = <<x>>)
       /\ (u.parent[x] # x => r = UF!Root(u, u.parent[x]))
       /\ (\E i \in 1..Len(path) : path[i] = x)
       /\ (\A i \in 1..Len(path) : UF!Root(u, path[i]) = r)

(* Every way leads up to a root, and is no longer than the rank there.        *)
LEMMA WaysLeadUp ==
  ASSUME NEW u, Forest(u)
  PROVE  \A x \in UF!Made(u) : WayUp(u, x)
  <1> DEFINE S == UF!Made(u)
             G == {x \in S : WayUp(u, x)}
  <1>0. /\ u.parent \in [S -> S] /\ u.rank \in [S -> Nat]
        /\ \A x \in S : u.parent[x] # x => u.rank[x] < u.rank[u.parent[x]]
    BY DEF Forest, Climbs, UF!Made
  <1>1. ASSUME NEW x \in S, u.parent[x] # x => u.parent[x] \in G
        PROVE  x \in G
    <2> DEFINE path == UF!Path(u, x)
    <2>1. CASE u.parent[x] = x
      <3>1. path = <<x>>
        BY <2>1, PathUnfolds
      <3>2. UF!Root(u, x) = x
        BY <3>1 DEF UF!Root, UF!Last
      <3>3. path \in Seq(S) /\ Len(path) = 1 /\ path[1] = x /\ 1..1 = {1}
        BY <3>1
      <3>4. /\ Len(path) \in Nat \ {0} /\ Len(path) + u.rank[x] <= u.rank[x] + 1
            /\ (\E i \in 1..Len(path) : path[i] = x)
            /\ \A i \in 1..Len(path) : UF!Root(u, path[i]) = x
        <4> HIDE DEF path
        <4>1. 1 \in 1..Len(path) /\ \A i \in 1..Len(path) : i = 1
          BY <3>3
        <4> QED
          BY <1>0, <3>2, <3>3, <4>1
      <3>5. WayUp(u, x)
        BY <2>1, <3>1, <3>2, <3>3, <3>4, Zenon DEF WayUp
      <3> QED
        BY <3>5
    <2>2. CASE u.parent[x] # x
      <3> DEFINE p == u.parent[x]
                 rest == UF!Path(u, p)
                 r == UF!Root(u, p)
      <3>1. p \in S /\ WayUp(u, p) /\ u.rank[x] < u.rank[p]
        BY <1>0, <1>1, <2>2
      <3>2. /\ rest \in Seq(S) /\ Len(rest) \in Nat \ {0} /\ r \in S /\ u.parent[r] = r
            /\ (p # r => u.rank[p] < u.rank[r]) /\ Len(rest) + u.rank[p] <= u.rank[r] + 1
            /\ \A i \in 1..Len(rest) : UF!Root(u, rest[i]) = r
        BY <3>1, Zenon DEF WayUp
      <3>3. path = <<x>> \o rest
        BY <2>2, PathUnfolds
      <3>4. r = rest[Len(rest)]
        BY DEF UF!Root, UF!Last
      <3> HIDE DEF p, rest, r
      <3>5. /\ path \in Seq(S) /\ Len(path) = 1 + Len(rest) /\ path[1] = x
            /\ \A i \in 1..Len(rest) : path[i + 1] = rest[i]
        BY <3>2, <3>3
      <3>6. UF!Root(u, x) = r
        <4>1. UF!Root(u, x) = path[Len(path)]
          BY DEF UF!Root, UF!Last
        <4> HIDE DEF path
        <4> QED
          BY <3>2, <3>4, <3>5, <4>1
      <3> HIDE DEF path
      <3>7. \A i \in 1..Len(path) : UF!Root(u, path[i]) = r
        <4> SUFFICES ASSUME NEW i \in 1..Len(path) PROVE UF!Root(u, path[i]) = r
          OBVIOUS
        <4>1. CASE i = 1
          BY <3>5, <3>6, <4>1
        <4>2. CASE i # 1
          <5>1. i - 1 \in 1..Len(rest) /\ (i - 1) + 1 = i
            BY <3>2, <3>5, <4>2
          <5> QED
            BY <3>2, <3>5, <5>1
        <4> QED
          BY <4>1, <4>2
      <3>8. u.rank[x] < u.rank[r] /\ Len(path) + u.rank[x] <= u.rank[r] + 1
            /\ Len(path) \in Nat \ {0} /\ 1 \in 1..Len(path)
        BY <1>0, <3>1, <3>2, <3>5
      <3>9. r = UF!Root(u, u.parent[x])
        BY DEF r, p
      <3> QED
        BY <2>2, <3>2, <3>5, <3>6, <3>7, <3>8, <3>9 DEF WayUp, path
    <2> QED
      BY <2>1, <2>2
  <1> HIDE DEF G
  <1>2. S \subseteq G
    BY <1>1, ForestInduction
  <1> QED
    BY <1>2 DEF G

(* Whatever is constant on the way up and itself at the root is the root.      *)
LeadsUp(u, g) == \A x \in UF!Made(u) :
                    IF u.parent[x] = x THEN g[x] = x ELSE g[x] = g[u.parent[x]]

(* So a function that is constant on the way up gives the root.               *)
LEMMA RootsAreUnique ==
  ASSUME NEW u, Forest(u), NEW g, LeadsUp(u, g)
  PROVE  \A x \in UF!Made(u) : UF!Root(u, x) = g[x]
  <1> DEFINE S == UF!Made(u)
             G == {x \in S : UF!Root(u, x) = g[x]}
  <1>1. ASSUME NEW x \in S, u.parent[x] # x => u.parent[x] \in G
        PROVE  x \in G
    <2>1. /\ (u.parent[x] = x => UF!Root(u, x) = x)
          /\ (u.parent[x] # x => UF!Root(u, x) = UF!Root(u, u.parent[x]))
      BY WaysLeadUp, Zenon DEF WayUp
    <2> QED
      BY <1>1, <2>1 DEF LeadsUp
  <1> HIDE DEF G
  <1>2. S \subseteq G
    BY <1>1, ForestInduction
  <1> QED
    BY <1>2 DEF G

-----------------------------------------------------------------------------
(* u and v have the same elements, and their roots are where Roots says.      *)
Keeps(u, v) ==
    /\ UF!Made(v) = UF!Made(u) /\ v.rank = u.rank /\ v.count = u.count
    /\ \A y \in UF!Made(u) : UF!Root(v, y) = UF!Root(u, y)

(* Path compression moves no element to another root.                         *)
LEMMA CompressionKeeps ==
  ASSUME NEW u, Forest(u), NEW x \in UF!Made(u)
  PROVE  Forest(UF!Compressed(u, x)) /\ Keeps(u, UF!Compressed(u, x))
  <1> DEFINE S == UF!Made(u)
             v == UF!Compressed(u, x)
             r == UF!Root(u, x)
             on == UF!ToSet(UF!Path(u, x))
  <1>0. /\ u = [parent |-> u.parent, rank |-> u.rank, count |-> u.count]
        /\ u.parent \in [S -> S] /\ u.rank \in [S -> Nat] /\ u.count \in Int
        /\ \A y \in S : u.parent[y] # y => u.rank[y] < u.rank[u.parent[y]]
    BY DEF Forest, Climbs, UF!Made
  <1>1. r \in S /\ u.parent[r] = r
    BY WaysLeadUp, Zenon DEF WayUp
  <1>2. \A y \in S : /\ (y # UF!Root(u, y) => u.rank[y] < u.rank[UF!Root(u, y)])
                     /\ (u.parent[y] = y => UF!Root(u, y) = y)
                     /\ (u.parent[y] # y => UF!Root(u, y) = UF!Root(u, u.parent[y]))
    BY WaysLeadUp, Zenon DEF WayUp
  <1>3. \A y \in on : UF!Root(u, y) = r
    <2>1. \A i \in 1..Len(UF!Path(u, x)) : UF!Root(u, UF!Path(u, x)[i]) = r
      BY WaysLeadUp, Zenon DEF WayUp
    <2>2. UF!Path(u, x) \in Seq(S)
      BY WaysLeadUp, Zenon DEF WayUp
    <2> QED
      BY <2>1, <2>2 DEF UF!ToSet
  <1>4. /\ v.parent = [y \in S |-> IF y \in on THEN r ELSE u.parent[y]]
        /\ v.rank = u.rank /\ v.count = u.count
        /\ v = [parent |-> v.parent, rank |-> v.rank, count |-> v.count]
    BY <1>0 DEF UF!Compressed
  <1> HIDE DEF v, on, r, S
  <1>5. v.parent \in [S -> S] /\ DOMAIN v.parent = S
    BY <1>0, <1>1, <1>4
  <1>6. \A y \in S : v.parent[y] = IF y \in on THEN r ELSE u.parent[y]
    BY <1>4
  <1>7. \A y \in S : v.parent[y] # y => v.rank[y] < v.rank[v.parent[y]]
    BY <1>0, <1>2, <1>3, <1>4, <1>6
  <1>8. \E top \in Nat : \A y \in S : v.rank[y] <= top
    BY <1>4 DEF Forest, UF!Made, S
  <1>9. Forest(v)
    BY <1>0, <1>4, <1>5, <1>7, <1>8 DEF Forest, Climbs
  <1> DEFINE g == [y \in S |-> UF!Root(u, y)]
  <1>10. \A y \in S : IF v.parent[y] = y THEN g[y] = y ELSE g[y] = g[v.parent[y]]
    <2> SUFFICES ASSUME NEW y \in S
                 PROVE  IF v.parent[y] = y THEN g[y] = y ELSE g[y] = g[v.parent[y]]
      OBVIOUS
    <2>0. g[r] = r /\ g[y] = UF!Root(u, y) /\ u.parent[y] \in S
          /\ g[u.parent[y]] = UF!Root(u, u.parent[y])
      BY <1>0, <1>1, <1>2
    <2>1. CASE y \in on
      BY <1>3, <1>6, <2>0, <2>1
    <2>2. CASE y \notin on
      BY <1>2, <1>6, <2>0, <2>2
    <2> QED
      BY <2>1, <2>2
  <1>11. UF!Made(v) = S
    BY <1>5 DEF UF!Made
  <1> HIDE DEF g
  <1>12. \A y \in S : UF!Root(v, y) = g[y]
    <2>1. LeadsUp(v, g)
      BY <1>10, <1>11 DEF LeadsUp
    <2> QED
      BY <1>9, <1>11, <2>1, RootsAreUnique
  <1>13. \A y \in S : UF!Root(v, y) = UF!Root(u, y)
    BY <1>12 DEF g
  <1> QED
    BY <1>4, <1>9, <1>11, <1>13 DEF Keeps, v, S

(* The root of one tree goes under the root of another that is no lower.      *)
Joins(u, v, low, high) ==
    /\ UF!Made(v) = UF!Made(u) /\ v.count = u.count - 1
    /\ \A y \in UF!Made(u) :
          UF!Root(v, y) = IF UF!Root(u, y) = low THEN high ELSE UF!Root(u, y)
    /\ \A y \in UF!Made(u) \ {high} : v.rank[y] = u.rank[y]
    /\ \/ v.rank[high] = u.rank[high]
       \/ u.rank[high] = u.rank[low] /\ v.rank[high] = u.rank[high] + 1

HangsUnder(u, v, low, high, k) ==
    /\ v = [parent |-> [u.parent EXCEPT ![low] = high],
            rank |-> [u.rank EXCEPT ![high] = k], count |-> u.count - 1]
    /\ u.rank[low] <= u.rank[high]
    /\ \/ k = u.rank[high] /\ u.rank[low] < u.rank[high]
       \/ u.rank[high] = u.rank[low] /\ k = u.rank[high] + 1

(* Hanging one root under another makes it the root of both trees.            *)
LEMMA HangingJoins ==
  ASSUME NEW u, Forest(u), NEW low \in UF!Made(u), NEW high \in UF!Made(u),
         low # high, u.parent[low] = low, u.parent[high] = high,
         NEW v, NEW k, HangsUnder(u, v, low, high, k)
  PROVE  Forest(v) /\ Joins(u, v, low, high)
  <1> DEFINE S == UF!Made(u)
  <1>0. /\ u.parent \in [S -> S] /\ u.rank \in [S -> Nat] /\ u.count \in Int
        /\ \A y \in S : u.parent[y] # y => u.rank[y] < u.rank[u.parent[y]]
    BY DEF Forest, Climbs, UF!Made
  <1>1. /\ v = [parent |-> v.parent, rank |-> v.rank, count |-> v.count]
        /\ v.parent = [u.parent EXCEPT ![low] = high]
        /\ v.rank = [u.rank EXCEPT ![high] = k] /\ v.count = u.count - 1
    BY DEF HangsUnder
  <1>2. /\ k \in Nat /\ u.rank[high] <= k /\ u.rank[low] < k
        /\ \/ k = u.rank[high]
           \/ u.rank[high] = u.rank[low] /\ k = u.rank[high] + 1
    <2>1. /\ u.rank[low] <= u.rank[high]
          /\ \/ k = u.rank[high] /\ u.rank[low] < u.rank[high]
             \/ u.rank[high] = u.rank[low] /\ k = u.rank[high] + 1
      BY Zenon DEF HangsUnder
    <2>2. u.rank[low] \in Nat /\ u.rank[high] \in Nat
      BY <1>0
    <2> QED
      BY <2>1, <2>2
  <1>3. \A y \in S : (u.parent[y] = y => UF!Root(u, y) = y)
                   /\ (u.parent[y] # y => UF!Root(u, y) = UF!Root(u, u.parent[y]))
    BY WaysLeadUp, Zenon DEF WayUp
  <1>4. PICK top \in Nat : \A y \in S : u.rank[y] <= top
    BY DEF Forest, UF!Made
  <1> HIDE DEF S
  <1>5. low \in S /\ high \in S
    BY DEF S
  <1>6. /\ v.parent \in [S -> S] /\ DOMAIN v.parent = S /\ v.rank \in [S -> Nat]
        /\ v.parent[low] = high /\ \A y \in S \ {low} : v.parent[y] = u.parent[y]
        /\ v.rank[high] = k /\ \A y \in S \ {high} : v.rank[y] = u.rank[y]
    BY <1>0, <1>1, <1>2, <1>5
  <1>7. \A y \in S : v.parent[y] # y => v.rank[y] < v.rank[v.parent[y]]
    <2> SUFFICES ASSUME NEW y \in S, v.parent[y] # y PROVE v.rank[y] < v.rank[v.parent[y]]
      OBVIOUS
    <2>1. CASE y = low
      BY <1>2, <1>5, <1>6, <2>1
    <2>2. CASE y # low
      <3>1. y # high /\ u.rank[y] < u.rank[u.parent[y]] /\ u.parent[y] \in S
        BY <1>0, <1>5, <1>6, <2>2
      <3>2. CASE u.parent[y] = high
        BY <1>0, <1>2, <1>6, <2>2, <3>1, <3>2
      <3>3. CASE u.parent[y] # high
        BY <1>0, <1>6, <2>2, <3>1, <3>3
      <3> QED
        BY <3>2, <3>3
    <2> QED
      BY <2>1, <2>2
  <1>8. \E t \in Nat : \A y \in S : v.rank[y] <= t
    <2> DEFINE t == top + k
    <2>1. t \in Nat /\ \A y \in S : v.rank[y] <= t
      BY <1>0, <1>2, <1>4, <1>6
    <2> QED
      BY <2>1
  <1>9. Forest(v)
    BY <1>0, <1>1, <1>6, <1>7, <1>8 DEF Forest, Climbs
  <1>10. UF!Made(v) = S
    BY <1>6 DEF UF!Made
  <1> DEFINE g == [y \in S |-> IF UF!Root(u, y) = low THEN high ELSE UF!Root(u, y)]
  <1>11. \A y \in S : IF v.parent[y] = y THEN g[y] = y ELSE g[y] = g[v.parent[y]]
    <2> SUFFICES ASSUME NEW y \in S
                 PROVE  IF v.parent[y] = y THEN g[y] = y ELSE g[y] = g[v.parent[y]]
      OBVIOUS
    <2>1. /\ g[y] = IF UF!Root(u, y) = low THEN high ELSE UF!Root(u, y)
          /\ u.parent[y] \in S /\ g[high] = high
          /\ g[u.parent[y]] = IF UF!Root(u, u.parent[y]) = low THEN high
                                ELSE UF!Root(u, u.parent[y])
          /\ UF!Root(u, low) = low /\ UF!Root(u, high) = high
      BY <1>0, <1>3, <1>5
    <2>2. CASE y = low
      BY <1>6, <2>1, <2>2
    <2>3. CASE y # low
      BY <1>3, <1>6, <2>1, <2>3
    <2> QED
      BY <2>2, <2>3
  <1> HIDE DEF g
  <1>12. LeadsUp(v, g)
    BY <1>10, <1>11 DEF LeadsUp
  <1>13. \A y \in S : UF!Root(v, y) = g[y]
    BY <1>9, <1>10, <1>12, RootsAreUnique
  <1>14. \A y \in S : UF!Root(v, y) = IF UF!Root(u, y) = low THEN high ELSE UF!Root(u, y)
    BY <1>13 DEF g
  <1> QED
    BY <1>1, <1>2, <1>6, <1>9, <1>10, <1>14 DEF Joins, S

(* Union by rank.                                                             *)
LEMMA LinkJoins ==
  ASSUME NEW u, Forest(u), NEW a \in UF!Made(u), NEW b \in UF!Made(u),
         a # b, u.parent[a] = a, u.parent[b] = b
  PROVE  /\ Forest(UF!Link(u, a, b))
         /\ \/ Joins(u, UF!Link(u, a, b), a, b)
            \/ Joins(u, UF!Link(u, a, b), b, a)
  <1> DEFINE v == UF!Link(u, a, b)
  <1>0. /\ u = [parent |-> u.parent, rank |-> u.rank, count |-> u.count]
        /\ u.parent \in [UF!Made(u) -> UF!Made(u)] /\ u.rank \in [UF!Made(u) -> Nat]
        /\ u.count \in Int
    BY DEF Forest, UF!Made
  <1>1. CASE u.rank[a] < u.rank[b]
    <2>1. v = [u EXCEPT !.parent[a] = b, !.count = @ - 1]
      BY <1>1 DEF UF!Link
    <2>2. v = [parent |-> [u.parent EXCEPT ![a] = b], rank |-> u.rank, count |-> u.count - 1]
      BY <1>0, <2>1
    <2>3. u.rank = [u.rank EXCEPT ![b] = u.rank[b]]
      BY <1>0
    <2> HIDE DEF v
    <2>4. HangsUnder(u, v, a, b, u.rank[b])
      BY <1>0, <1>1, <2>2, <2>3 DEF HangsUnder
    <2> QED
      BY <2>4, HangingJoins DEF v
  <1>2. CASE ~(u.rank[a] < u.rank[b])
    <2> DEFINE k == IF u.rank[a] = u.rank[b] THEN u.rank[a] + 1 ELSE u.rank[a]
    <2>1. v = [u EXCEPT !.parent[b] = a, !.count = @ - 1,
                        !.rank[a] = IF u.rank[a] = u.rank[b] THEN @ + 1 ELSE @]
      BY <1>2 DEF UF!Link
    <2>2. v = [parent |-> [u.parent EXCEPT ![b] = a], rank |-> [u.rank EXCEPT ![a] = k],
               count |-> u.count - 1]
      BY <1>0, <2>1
    <2>3. /\ u.rank[b] <= u.rank[a]
          /\ \/ k = u.rank[a] /\ u.rank[b] < u.rank[a]
             \/ u.rank[a] = u.rank[b] /\ k = u.rank[a] + 1
      BY <1>0, <1>2
    <2> HIDE DEF v, k
    <2>4. HangsUnder(u, v, b, a, k)
      BY <2>2, <2>3, Zenon DEF HangsUnder
    <2> QED
      BY <2>4, HangingJoins DEF v
  <1> QED
    BY <1>1, <1>2

-----------------------------------------------------------------------------
(* The powers of two.                                                         *)
LEMMA TwoToGrows ==
  /\ UF!TwoTo(0) = 1
  /\ \A k \in Nat : UF!TwoTo(k) \in Nat /\ UF!TwoTo(k + 1) = 2 * UF!TwoTo(k)
  <1> DEFINE Value2(k, f) == IF k = 0 THEN 1 ELSE 2 * f[k - 1]
             Body(f) == [k \in Nat |-> Value2(k, f)]
             power == CHOOSE f : f = Body(f)
             measure == [k \in Nat |-> k]
             table == [p \in Nat \X [Nat -> Nat] |-> Value2(p[1], p[2])]
  <1>1. measure \in [Nat -> Nat] /\ \A k \in Nat : measure[k] = k
    OBVIOUS
  <1>2. ASSUME NEW k \in Nat, NEW f \in [Nat -> Nat] PROVE Value2(k, f) \in Nat
    <2>1. k # 0 => k - 1 \in Nat
      OBVIOUS
    <2>2. k # 0 => f[k - 1] \in Nat
      BY <2>1
    <2> QED
      BY <2>2
  <1>3. /\ table \in [Nat \X [Nat -> Nat] -> Nat]
        /\ \A k \in Nat, f \in [Nat -> Nat] : table[<<k, f>>] = Value2(k, f)
    BY <1>2
  <1>4. ASSUME NEW k \in Nat, NEW f \in [Nat -> Nat], NEW g \in [Nat -> Nat],
               \A t \in Nat : measure[t] < measure[k] => f[t] = g[t]
        PROVE  Value2(k, f) = Value2(k, g)
    <2>1. k # 0 => k - 1 \in Nat /\ measure[k - 1] < measure[k]
      BY <1>1
    <2>2. k # 0 => f[k - 1] = g[k - 1]
      BY <1>4, <2>1
    <2> QED
      BY <2>2
  <1> HIDE DEF measure, table, Value2
  <1>5. \A k \in Nat : \A f, g \in [Nat -> Nat] :
           (\A t \in Nat : measure[t] < measure[k] => f[t] = g[t])
              => table[<<k, f>>] = table[<<k, g>>]
    <2> SUFFICES ASSUME NEW k \in Nat, NEW f \in [Nat -> Nat], NEW g \in [Nat -> Nat],
                        \A t \in Nat : measure[t] < measure[k] => f[t] = g[t]
                 PROVE  table[<<k, f>>] = table[<<k, g>>]
      OBVIOUS
    <2>1. Value2(k, f) = Value2(k, g)
      BY <1>4, Zenon
    <2>2. table[<<k, f>>] = Value2(k, f) /\ table[<<k, g>>] = Value2(k, g)
      BY <1>3, Zenon
    <2> QED
      BY <2>1, <2>2
  <1>6. DependsBelow(table, Nat, Nat, measure)
    BY <1>1, <1>3, <1>5, Zenon DEF DependsBelow
  <1>7. PICK f \in [Nat -> Nat] : Recurs(f, Nat, table)
    <2>1. 0 \in Nat
      OBVIOUS
    <2> QED
      BY <1>6, <2>1, MeasuredRecursion
  <1>8. f = Body(f)
    BY <1>3, <1>7 DEF Recurs
  <1>9. power = Body(power)
    BY <1>8
  <1>10. \A k : UF!TwoTo(k) = power[k]
    BY DEF UF!TwoTo, Value2
  <1> HIDE DEF power
  <1>11. \A k \in Nat : power[k] = Value2(k, power)
    BY <1>9
  <1>12. power[0] = 1 /\ \A k \in Nat : power[k + 1] = 2 * power[k]
    <2>1. \A k \in Nat : k + 1 \in Nat /\ k + 1 # 0 /\ (k + 1) - 1 = k
      OBVIOUS
    <2> QED
      BY <1>11, <2>1 DEF Value2
  <1> DEFINE N == {k \in Nat : power[k] \in Nat}
  <1>13. 0 \in N /\ \A k \in Nat : k \in N => k + 1 \in N
    BY <1>12
  <1> HIDE DEF N
  <1>14. Nat \subseteq N
    BY <1>13, NatSetInduction
  <1> QED
    BY <1>10, <1>12, <1>14 DEF N

-----------------------------------------------------------------------------
(* The elements under one root.                                               *)
Class(u, x) == {y \in UF!Made(u) : UF!Root(u, y) = UF!Root(u, x)}

Classes(u) == {Class(u, x) : x \in UF!Made(u)}

(* History's set of an element is its class.                                  *)
LEMMA SetsAreClasses ==
  ASSUME NEW u, sets = Classes(u), NEW x \in UF!Made(u)
  PROVE  UF!SetOf(x) = Class(u, x) /\ Class(u, x) \in sets /\ x \in Class(u, x)
  <1>1. Class(u, x) \in sets /\ x \in Class(u, x)
    BY DEF Class, Classes
  <1>2. ASSUME NEW s \in sets, x \in s PROVE s = Class(u, x)
    BY <1>2 DEF Class, Classes
  <1>3. UF!SetOf(x) \in sets /\ x \in UF!SetOf(x)
    BY <1>1 DEF UF!SetOf
  <1> QED
    BY <1>1, <1>2, <1>3

(* Where the roots stay, so do the sets.                                      *)
LEMMA KeptClasses ==
  ASSUME NEW u, NEW v, Keeps(u, v)
  PROVE  Classes(v) = Classes(u) /\ \A x \in UF!Made(u) : Class(v, x) = Class(u, x)
  <1>1. \A x \in UF!Made(u) : Class(v, x) = Class(u, x)
    BY DEF Class, Keeps
  <1>2. UF!Made(v) = UF!Made(u)
    BY DEF Keeps
  <1> QED
    BY <1>1, <1>2 DEF Classes

(* Two classes become one, and the others stay.                               *)
Merged(u, v, low, high, A, B) ==
    /\ A \in Classes(u) /\ B \in Classes(u) /\ A # B /\ A \cap B = {}
    /\ A \cup B \notin Classes(u)
    /\ Classes(v) = (Classes(u) \ {A, B}) \cup {A \cup B}
    /\ \A x \in UF!Made(u) :
          /\ UF!Root(u, x) \in {low, high} =>
                UF!Root(v, x) = high /\ Class(v, x) = A \cup B
          /\ UF!Root(u, x) \notin {low, high} =>
                /\ UF!Root(v, x) = UF!Root(u, x) /\ UF!Root(v, x) # high
                /\ Class(v, x) = Class(u, x)

(* Where one root takes over the tree of another, the two sets become one.    *)
LEMMA JoinedClasses ==
  ASSUME NEW u, NEW v, NEW low \in UF!Made(u), NEW high \in UF!Made(u), low # high,
         UF!Root(u, low) = low, UF!Root(u, high) = high, Joins(u, v, low, high)
  PROVE  Merged(u, v, low, high, Class(u, low), Class(u, high))
  <1> DEFINE A == Class(u, low)
             B == Class(u, high)
             S == UF!Made(u)
  <1>1. /\ UF!Made(v) = S
        /\ \A y \in S : UF!Root(v, y) = IF UF!Root(u, y) = low THEN high ELSE UF!Root(u, y)
    BY DEF Joins
  <1>2. /\ A \in Classes(u) /\ B \in Classes(u) /\ low \in A /\ high \in B
        /\ low \notin B /\ high \notin A /\ A \cap B = {}
    BY DEF Class, Classes
  <1>3. A \cup B \notin Classes(u)
    <2> SUFFICES ASSUME NEW x \in S, A \cup B = Class(u, x) PROVE FALSE
      BY DEF Classes
    <2>1. low \in Class(u, x) /\ high \in Class(u, x)
      BY <1>2
    <2> QED
      BY <2>1 DEF Class
  <1>4. ASSUME NEW x \in S, UF!Root(u, x) \in {low, high}
        PROVE  UF!Root(v, x) = high /\ Class(v, x) = A \cup B
    <2>1. UF!Root(v, x) = high
      BY <1>1, <1>4
    <2>2. Class(v, x) = {y \in S : UF!Root(u, y) = low \/ UF!Root(u, y) = high}
      BY <1>1, <2>1 DEF Class
    <2> QED
      BY <2>1, <2>2 DEF Class
  <1>5. ASSUME NEW x \in S, UF!Root(u, x) \notin {low, high}
        PROVE  /\ UF!Root(v, x) = UF!Root(u, x) /\ UF!Root(v, x) # high
               /\ Class(v, x) = Class(u, x)
    <2>1. UF!Root(v, x) = UF!Root(u, x) /\ UF!Root(v, x) # high
      BY <1>1, <1>5
    <2>2. \A y \in S : UF!Root(v, y) = UF!Root(v, x) <=> UF!Root(u, y) = UF!Root(u, x)
      BY <1>1, <1>5, <2>1
    <2> QED
      BY <1>1, <2>1, <2>2 DEF Class
  <1>6. \A x \in S : /\ UF!Root(u, x) = low <=> Class(u, x) = A
                     /\ UF!Root(u, x) = high <=> Class(u, x) = B
    BY DEF Class
  <1> HIDE DEF A, B, S
  <1>7. Classes(v) = (Classes(u) \ {A, B}) \cup {A \cup B}
    <2>1. Classes(v) = {Class(v, x) : x \in S} /\ Classes(u) = {Class(u, x) : x \in S}
      BY <1>1 DEF Classes, S
    <2>2. ASSUME NEW x \in S
          PROVE  Class(v, x) \in (Classes(u) \ {A, B}) \cup {A \cup B}
      BY <1>4, <1>5, <1>6, <2>1
    <2>3. ASSUME NEW x \in S, Class(u, x) \notin {A, B} PROVE Class(u, x) \in Classes(v)
      <3>1. Class(v, x) = Class(u, x)
        BY <1>5, <1>6, <2>3
      <3> QED
        BY <2>1, <3>1
    <2>4. A \cup B \in Classes(v)
      <3>1. low \in S /\ Class(v, low) = A \cup B
        BY <1>4 DEF S
      <3> QED
        BY <2>1, <3>1
    <2> QED
      BY <2>1, <2>2, <2>3, <2>4
  <1> QED
    BY <1>2, <1>3, <1>4, <1>5, <1>7 DEF Merged, A, B, S

(* A root of rank r has at least 2^r elements under it.                       *)
Heavy(u) == \A x \in UF!Made(u) :
               UF!TwoTo(u.rank[UF!Root(u, x)]) <= Cardinality(Class(u, x))

(* The structure u stands for the partition parts.                            *)
Represents(u, parts) ==
    /\ Forest(u) /\ IsFiniteSet(UF!Made(u)) /\ Heavy(u)
    /\ parts = Classes(u) /\ IsFiniteSet(parts) /\ u.count = Cardinality(parts)

ForestInv == Represents(uf, sets) /\ joined[1] = joined[2]

(* A root is a root of its own, and has a rank.                               *)
LEMMA RootsOf ==
  ASSUME NEW u, Forest(u), NEW x \in UF!Made(u)
  PROVE  /\ UF!Root(u, x) \in UF!Made(u) /\ u.parent[UF!Root(u, x)] = UF!Root(u, x)
         /\ UF!Root(u, UF!Root(u, x)) = UF!Root(u, x)
         /\ u.rank[UF!Root(u, x)] \in Nat
  <1>1. UF!Root(u, x) \in UF!Made(u) /\ u.parent[UF!Root(u, x)] = UF!Root(u, x)
    BY WaysLeadUp, Zenon DEF WayUp
  <1>2. UF!Root(u, UF!Root(u, x)) = UF!Root(u, x)
    BY <1>1, WaysLeadUp, Zenon DEF WayUp
  <1>3. u.rank \in [UF!Made(u) -> Nat]
    BY DEF Forest, UF!Made
  <1> QED
    BY <1>1, <1>2, <1>3

(* Path compression changes nothing that the partition tells.                 *)
LEMMA KeepsRepresents ==
  ASSUME NEW u, NEW v, NEW parts, Represents(u, parts), Forest(v), Keeps(u, v)
  PROVE  Represents(v, parts)
  <1>1. Classes(v) = Classes(u) /\ \A x \in UF!Made(u) : Class(v, x) = Class(u, x)
    BY KeptClasses
  <1>2. /\ UF!Made(v) = UF!Made(u) /\ v.rank = u.rank /\ v.count = u.count
        /\ \A y \in UF!Made(u) : UF!Root(v, y) = UF!Root(u, y)
    BY DEF Keeps
  <1>3. Heavy(v)
    BY <1>1, <1>2 DEF Represents, Heavy
  <1> QED
    BY <1>1, <1>2, <1>3 DEF Represents

(* The lower root has no more elements under it than the two together, and    *)
(* two of one rank have twice as many.                                        *)
LEMMA JoinsRepresents ==
  ASSUME NEW u, NEW v, NEW parts, Represents(u, parts), Forest(v),
         NEW low \in UF!Made(u), NEW high \in UF!Made(u), low # high,
         UF!Root(u, low) = low, UF!Root(u, high) = high, Joins(u, v, low, high)
  PROVE  Represents(v, (parts \ {Class(u, low), Class(u, high)})
                          \cup {Class(u, low) \cup Class(u, high)})
  <1> DEFINE A == Class(u, low)
             B == Class(u, high)
             S == UF!Made(u)
             Q == (parts \ {A, B}) \cup {A \cup B}
  <1>1. /\ IsFiniteSet(S) /\ parts = Classes(u) /\ IsFiniteSet(parts)
        /\ u.count = Cardinality(parts)
        /\ \A x \in S : UF!TwoTo(u.rank[UF!Root(u, x)]) <= Cardinality(Class(u, x))
    BY Zenon DEF Represents, Heavy
  <1>2. /\ A \in parts /\ B \in parts /\ A # B /\ A \cap B = {} /\ A \cup B \notin parts
        /\ Classes(v) = Q
        /\ \A x \in S : /\ UF!Root(u, x) \in {low, high} =>
                             UF!Root(v, x) = high /\ Class(v, x) = A \cup B
                        /\ UF!Root(u, x) \notin {low, high} =>
                             /\ UF!Root(v, x) = UF!Root(u, x) /\ UF!Root(v, x) # high
                             /\ Class(v, x) = Class(u, x)
    <2>1. Merged(u, v, low, high, A, B)
      BY JoinedClasses
    <2>2. parts = Classes(u)
      BY <1>1
    <2> HIDE DEF A, B, S
    <2>3. A \in parts /\ B \in parts /\ A \cup B \notin parts /\ Classes(v) = Q
      BY <2>1, <2>2, Zenon DEF Merged
    <2> QED
      BY <2>1, <2>3, Zenon DEF Merged, S
  <1>3. /\ UF!Made(v) = S /\ v.count = u.count - 1
        /\ \A y \in S \ {high} : v.rank[y] = u.rank[y]
        /\ \/ v.rank[high] = u.rank[high]
           \/ u.rank[high] = u.rank[low] /\ v.rank[high] = u.rank[high] + 1
    BY Zenon DEF Joins
  <1>4. /\ UF!TwoTo(u.rank[low]) <= Cardinality(A) /\ UF!TwoTo(u.rank[high]) <= Cardinality(B)
    BY <1>1
  <1>5. IsFiniteSet(A) /\ IsFiniteSet(B) /\ Cardinality(A) \in Nat /\ Cardinality(B) \in Nat
    <2>1. A \in SUBSET S /\ B \in SUBSET S
      BY DEF Class
    <2>2. IsFiniteSet(A) /\ IsFiniteSet(B)
      BY <1>1, <2>1, FS_Subset
    <2> QED
      BY <2>2, FS_CardinalityType
  <1>6. Cardinality(A \cup B) = Cardinality(A) + Cardinality(B)
    <2>1. Cardinality({}) = 0
      BY FS_EmptySet
    <2> HIDE DEF A, B
    <2>2. Cardinality(A \cup B) = Cardinality(A) + Cardinality(B) - Cardinality(A \cap B)
      BY <1>5, FS_Union
    <2>3. Cardinality(A \cap B) = 0
      BY <1>2, <2>1, Zenon
    <2> QED
      BY <1>5, <2>2, <2>3
  <1>7. u.rank[low] \in Nat /\ u.rank[high] \in Nat
    BY RootsOf DEF Represents
  <1>8. UF!TwoTo(v.rank[high]) <= Cardinality(A \cup B)
    <2>1. /\ UF!TwoTo(u.rank[low]) \in Nat /\ UF!TwoTo(u.rank[high]) \in Nat
          /\ UF!TwoTo(u.rank[high] + 1) = 2 * UF!TwoTo(u.rank[high])
      BY <1>7, TwoToGrows
    <2> HIDE DEF A, B, S, Q
    <2>2. CASE v.rank[high] = u.rank[high]
      BY <1>4, <1>5, <1>6, <2>1, <2>2
    <2>3. CASE u.rank[high] = u.rank[low] /\ v.rank[high] = u.rank[high] + 1
      BY <1>4, <1>5, <1>6, <2>1, <2>3
    <2> QED
      BY <1>3, <2>2, <2>3
  <1>9. Heavy(v)
    <2> SUFFICES ASSUME NEW x \in S
                 PROVE  UF!TwoTo(v.rank[UF!Root(v, x)]) <= Cardinality(Class(v, x))
      BY <1>3 DEF Heavy
    <2>1. CASE UF!Root(u, x) \in {low, high}
      BY <1>2, <1>8, <2>1
    <2>2. CASE UF!Root(u, x) \notin {low, high}
      <3>1. /\ UF!Root(v, x) = UF!Root(u, x) /\ UF!Root(v, x) # high
            /\ Class(v, x) = Class(u, x)
        BY <1>2, <2>2
      <3>2. UF!Root(u, x) \in S
        BY RootsOf DEF Represents
      <3>3. v.rank[UF!Root(v, x)] = u.rank[UF!Root(u, x)]
        BY <1>3, <3>1, <3>2
      <3> QED
        BY <1>1, <3>1, <3>3
    <2> QED
      BY <2>1, <2>2
  <1>10. IsFiniteSet(Q) /\ Cardinality(Q) = Cardinality(parts) - 1
    <2> HIDE DEF A, B
    <2>1. /\ IsFiniteSet(parts \ {A}) /\ Cardinality(parts \ {A}) = Cardinality(parts) - 1
      BY <1>1, <1>2, FS_RemoveElement
    <2>2. /\ IsFiniteSet((parts \ {A}) \ {B})
          /\ Cardinality((parts \ {A}) \ {B}) = Cardinality(parts \ {A}) - 1
      BY <1>2, <2>1, FS_RemoveElement
    <2>3. (parts \ {A}) \ {B} = parts \ {A, B} /\ A \cup B \notin parts \ {A, B}
      BY <1>2
    <2>4. /\ IsFiniteSet(Q) /\ Cardinality(Q) = Cardinality(parts \ {A, B}) + 1
      BY <2>2, <2>3, FS_AddElement
    <2>5. Cardinality(parts) \in Nat
      BY <1>1, FS_CardinalityType
    <2>6. Cardinality(parts \ {A, B}) = Cardinality(parts \ {A}) - 1
      BY <2>2, <2>3, Zenon
    <2> HIDE DEF Q
    <2> QED
      BY <2>1, <2>4, <2>5, <2>6
  <1> HIDE DEF Q, S
  <1>11. Represents(v, Q)
    BY <1>1, <1>2, <1>3, <1>9, <1>10 DEF Represents
  <1> QED
    BY <1>11 DEF Q

(* Union, whether or not the two were connected.                              *)
LEMMA JoinKeeps ==
  ASSUME ForestInv, NEW x, NEW y, UF!Join(x, y)
  PROVE  ForestInv'
  <1> DEFINE mid == UF!Compressed(uf, x)
             found == UF!Compressed(mid, y)
             a == UF!Root(uf, x)
             b == UF!Root(uf, y)
             A == Class(uf, a)
             B == Class(uf, b)
             Q == (sets \ {UF!SetOf(x), UF!SetOf(y)}) \cup {UF!SetOf(x) \cup UF!SetOf(y)}
  <1>1. /\ x \in UF!Made(uf) /\ y \in UF!Made(uf)
        /\ uf' = UF!Union(uf, x, y).uf /\ sets' = Q
        /\ joined' = <<UF!Union(uf, x, y).joined, UF!SetOf(x) # UF!SetOf(y)>>
    BY DEF UF!Join
  <1>2. Represents(uf, sets) /\ Forest(uf) /\ sets = Classes(uf)
    BY DEF ForestInv, Represents
  <1>3. Forest(mid) /\ Keeps(uf, mid)
    BY <1>1, <1>2, CompressionKeeps
  <1>4. Forest(found) /\ Keeps(mid, found)
    <2>1. y \in UF!Made(mid)
      BY <1>1, <1>3 DEF Keeps
    <2> HIDE DEF mid
    <2> QED
      BY <1>3, <2>1, CompressionKeeps
  <1>5. Represents(found, sets)
    <2> HIDE DEF found, mid
    <2>1. Represents(mid, sets)
      BY <1>2, <1>3, KeepsRepresents
    <2> QED
      BY <1>4, <2>1, KeepsRepresents
  <1>6. /\ a \in UF!Made(uf) /\ b \in UF!Made(uf) /\ UF!Root(uf, a) = a /\ UF!Root(uf, b) = b
    BY <1>1, <1>2, RootsOf
  <1>7. UF!SetOf(x) = A /\ UF!SetOf(y) = B /\ (a # b => A # B) /\ A \in sets
    <2>1. UF!SetOf(x) = Class(uf, x) /\ UF!SetOf(y) = Class(uf, y)
      BY <1>1, <1>2, SetsAreClasses
    <2>2. A \in sets
      BY <1>2, <1>6 DEF Classes
    <2> QED
      BY <1>6, <2>1, <2>2 DEF Class
  <1>8. /\ UF!Made(found) = UF!Made(uf) /\ UF!Root(found, a) = a /\ UF!Root(found, b) = b
        /\ Class(found, a) = A /\ Class(found, b) = B
    <2> HIDE DEF found, mid, a, b
    <2>1. /\ UF!Made(mid) = UF!Made(uf) /\ UF!Made(found) = UF!Made(uf)
          /\ \A z \in UF!Made(uf) : UF!Root(found, z) = UF!Root(uf, z)
      BY <1>3, <1>4 DEF Keeps
    <2> QED
      BY <1>6, <2>1 DEF Class
  <1>9. CASE a = b
    <2>1. uf' = found /\ joined' = <<FALSE, UF!SetOf(x) # UF!SetOf(y)>>
      BY <1>1, <1>9 DEF UF!Union
    <2>2. sets' = sets
      BY <1>1, <1>7, <1>9
    <2>3. joined'[1] = joined'[2]
      BY <1>7, <1>9, <2>1
    <2> QED
      BY <1>5, <2>1, <2>2, <2>3 DEF ForestInv
  <1>10. CASE a # b
    <2> DEFINE v == UF!Link(found, a, b)
    <2>1. uf' = v /\ joined' = <<TRUE, UF!SetOf(x) # UF!SetOf(y)>>
      BY <1>1, <1>10 DEF UF!Union
    <2>2. found.parent[a] = a /\ found.parent[b] = b /\ a \in UF!Made(found) /\ b \in UF!Made(found)
      <3> HIDE DEF found, a, b
      <3> QED
        BY <1>4, <1>6, <1>8, RootsOf
    <2> HIDE DEF found, a, b, Q
    <2>3. Forest(v) /\ (Joins(found, v, a, b) \/ Joins(found, v, b, a))
      BY <1>4, <1>10, <2>2, LinkJoins
    <2> HIDE DEF v
    <2>4. Q = (sets \ {A, B}) \cup {A \cup B} /\ Q = (sets \ {B, A}) \cup {B \cup A}
      BY <1>7 DEF Q
    <2>5. Represents(v, Q)
      <3>1. CASE Joins(found, v, a, b)
        BY <1>5, <1>8, <1>10, <2>2, <2>3, <2>4, <3>1, JoinsRepresents
      <3>2. CASE Joins(found, v, b, a)
        BY <1>5, <1>8, <1>10, <2>2, <2>3, <2>4, <3>2, JoinsRepresents
      <3> QED
        BY <2>3, <3>1, <3>2
    <2>6. joined'[1] = joined'[2]
      BY <1>7, <1>10, <2>1
    <2> QED
      BY <1>1, <2>1, <2>5, <2>6 DEF ForestInv
  <1> QED
    BY <1>9, <1>10

(* h is f with the new element x, at k.                                       *)
Extends(h, f, x, k) ==
    /\ DOMAIN h = DOMAIN f \cup {x} /\ h = [y \in DOMAIN f \cup {x} |-> h[y]]
    /\ h[x] = k /\ \A y \in DOMAIN f \ {x} : h[y] = f[y]

(* What With changes, and what it leaves.                                     *)
LEMMA WithFacts ==
  ASSUME NEW f, NEW x, NEW k
  PROVE  Extends(UF!With(f, x, k), f, x, k)
  BY DEF UF!With, Extends

(* A new element is a tree of its own.                                        *)
LEMMA MakeRepresents ==
  ASSUME NEW u, NEW parts, Represents(u, parts), NEW x, x \notin UF!Made(u)
  PROVE  Represents(UF!MakeSet(u, x), parts \cup {{x}})
  <1> DEFINE S == UF!Made(u)
             T == S \cup {x}
             v == UF!MakeSet(u, x)
             Q == parts \cup {{x}}
  <1>0. /\ Forest(u) /\ IsFiniteSet(S) /\ parts = Classes(u) /\ IsFiniteSet(parts)
        /\ u.count = Cardinality(parts)
        /\ \A y \in S : UF!TwoTo(u.rank[UF!Root(u, y)]) <= Cardinality(Class(u, y))
    BY Zenon DEF Represents, Heavy
  <1>1. /\ u.parent \in [S -> S] /\ u.rank \in [S -> Nat] /\ u.count \in Int
        /\ \A y \in S : u.parent[y] # y => u.rank[y] < u.rank[u.parent[y]]
        /\ DOMAIN u.parent = S /\ DOMAIN u.rank = S
    BY <1>0 DEF Forest, Climbs, UF!Made
  <1>2. PICK top \in Nat : \A y \in S : u.rank[y] <= top
    BY <1>0 DEF Forest, UF!Made
  <1>3. /\ v = [parent |-> v.parent, rank |-> v.rank, count |-> v.count]
        /\ v.parent = UF!With(u.parent, x, x) /\ v.rank = UF!With(u.rank, x, 0)
        /\ v.count = u.count + 1
    BY DEF UF!MakeSet
  <1>4. Extends(v.parent, u.parent, x, x) /\ Extends(v.rank, u.rank, x, 0)
    BY <1>3, WithFacts
  <1>5. x \notin S
    OBVIOUS
  <1> HIDE DEF S, v
  <1>6. /\ x \notin S /\ DOMAIN v.parent = T
        /\ v.parent[x] = x /\ \A y \in S : v.parent[y] = u.parent[y]
        /\ v.rank[x] = 0 /\ \A y \in S : v.rank[y] = u.rank[y]
        /\ v.parent = [y \in T |-> v.parent[y]] /\ v.rank = [y \in T |-> v.rank[y]]
    BY <1>1, <1>4, <1>5 DEF Extends
  <1>7. v.parent \in [T -> T] /\ v.rank \in [T -> Nat]
    <2>1. \A y \in T : v.parent[y] \in T /\ v.rank[y] \in Nat
      BY <1>1, <1>6
    <2> HIDE DEF T
    <2> QED
      BY <1>6, <2>1
  <1>8. \A y \in T : v.parent[y] # y => v.rank[y] < v.rank[v.parent[y]]
    BY <1>1, <1>6
  <1>9. \A y \in T : v.rank[y] <= top
    BY <1>1, <1>2, <1>6
  <1>10. Forest(v)
    <2>1. v.count \in Int
      BY <1>1, <1>3
    <2> HIDE DEF T
    <2> QED
      BY <1>2, <1>3, <1>6, <1>7, <1>8, <1>9, <2>1 DEF Forest, Climbs
  <1>11. UF!Made(v) = T
    BY <1>6 DEF UF!Made
  <1> DEFINE g == [y \in T |-> IF y = x THEN x ELSE UF!Root(u, y)]
  <1>12. \A y \in S : /\ UF!Root(u, y) \in S
                      /\ (u.parent[y] = y => UF!Root(u, y) = y)
                      /\ (u.parent[y] # y => UF!Root(u, y) = UF!Root(u, u.parent[y]))
    BY <1>0, WaysLeadUp, Zenon DEF WayUp, S
  <1>13. \A y \in T : IF v.parent[y] = y THEN g[y] = y ELSE g[y] = g[v.parent[y]]
    <2> SUFFICES ASSUME NEW y \in T
                 PROVE  IF v.parent[y] = y THEN g[y] = y ELSE g[y] = g[v.parent[y]]
      OBVIOUS
    <2>1. CASE y = x
      BY <1>6, <2>1
    <2>2. CASE y # x
      <3>1. /\ y \in S /\ v.parent[y] = u.parent[y] /\ u.parent[y] \in S
            /\ u.parent[y] # x /\ u.parent[y] \in T
        BY <1>1, <1>6, <2>2
      <3>2. g[y] = UF!Root(u, y) /\ g[u.parent[y]] = UF!Root(u, u.parent[y])
        BY <2>2, <3>1
      <3> QED
        BY <1>12, <3>1, <3>2
    <2> QED
      BY <2>1, <2>2
  <1> HIDE DEF g
  <1>14. \A y \in T : UF!Root(v, y) = g[y]
    <2>1. LeadsUp(v, g)
      BY <1>11, <1>13, Zenon DEF LeadsUp
    <2> QED
      BY <1>10, <1>11, <2>1, RootsAreUnique
  <1>15. UF!Root(v, x) = x /\ \A y \in S : UF!Root(v, y) = UF!Root(u, y)
    BY <1>6, <1>14 DEF g
  <1>16. Class(v, x) = {x} /\ \A y \in S : Class(v, y) = Class(u, y)
    <2>1. Class(v, x) = {x}
      BY <1>6, <1>11, <1>12, <1>15 DEF Class
    <2>2. ASSUME NEW y \in S PROVE Class(v, y) = Class(u, y)
      <3>1. UF!Root(v, y) = UF!Root(u, y) /\ UF!Root(u, y) # x
        BY <1>6, <1>12, <1>15
      <3>2. Class(v, y) = {z \in T : UF!Root(v, z) = UF!Root(v, y)}
        BY <1>11 DEF Class
      <3>3. Class(u, y) = {z \in S : UF!Root(u, z) = UF!Root(u, y)}
        BY DEF Class, S
      <3> QED
        BY <1>15, <3>1, <3>2, <3>3
    <2> QED
      BY <2>1, <2>2
  <1>17. Classes(v) = Q
    <2>1. Classes(v) = {Class(v, y) : y \in T} /\ Classes(u) = {Class(u, y) : y \in S}
      BY <1>11 DEF Classes, S
    <2> QED
      BY <1>0, <1>16, <2>1
  <1>18. \A y \in S : Class(u, y) # {x}
    BY <1>6 DEF Class, S
  <1>19. {x} \notin parts
    <2>1. Classes(u) = {Class(u, y) : y \in S}
      BY DEF Classes, S
    <2>2. \A y \in S : y \in Class(u, y)
      BY DEF Class, S
    <2> QED
      BY <1>0, <1>18, <2>1
  <1>20. IsFiniteSet(T)
    BY <1>0, FS_AddElement
  <1>21. IsFiniteSet(Q) /\ Cardinality(Q) = Cardinality(parts) + 1
    BY <1>0, <1>19, FS_AddElement
  <1>22. Heavy(v)
    <2> SUFFICES ASSUME NEW y \in T
                 PROVE  UF!TwoTo(v.rank[UF!Root(v, y)]) <= Cardinality(Class(v, y))
      BY <1>11 DEF Heavy
    <2>1. CASE y = x
      <3>1. UF!TwoTo(v.rank[UF!Root(v, y)]) = 1
        BY <1>6, <1>15, <2>1, TwoToGrows
      <3>2. Cardinality(Class(v, y)) = 1
        BY <1>16, <2>1, FS_Singleton
      <3> QED
        BY <3>1, <3>2
    <2>2. CASE y # x
      <3>1. /\ y \in S /\ UF!Root(v, y) = UF!Root(u, y) /\ Class(v, y) = Class(u, y)
            /\ v.rank[UF!Root(u, y)] = u.rank[UF!Root(u, y)]
        BY <1>6, <1>12, <1>15, <1>16, <2>2
      <3> QED
        BY <1>0, <3>1
    <2> QED
      BY <2>1, <2>2
  <1> HIDE DEF T, Q
  <1>23. v.count = Cardinality(Q)
    BY <1>0, <1>3, <1>21
  <1>24. Represents(v, Q)
    BY <1>10, <1>11, <1>17, <1>20, <1>21, <1>22, <1>23 DEF Represents
  <1> QED
    BY <1>24 DEF v, Q

LEMMA ForestInitInv == UF!Init => ForestInv
  <1> SUFFICES ASSUME UF!Init PROVE ForestInv
    OBVIOUS
  <1>1. /\ uf = [parent |-> <<>>, rank |-> <<>>, count |-> 0] /\ sets = {}
        /\ joined = <<FALSE, FALSE>>
    BY DEF UF!Init, UF!NewUnionFind
  <1> DEFINE e == <<>>
  <1>2. DOMAIN e = {} /\ e \in [{} -> {}] /\ e \in [{} -> Nat]
    OBVIOUS
  <1>3. uf.parent = e /\ uf.rank = e /\ uf.count = 0
    BY <1>1
  <1> HIDE DEF e
  <1>4. UF!Made(uf) = {} /\ DOMAIN uf.parent = {}
    BY <1>2, <1>3 DEF UF!Made
  <1>5. Forest(uf)
    <2>1. uf = [parent |-> uf.parent, rank |-> uf.rank, count |-> uf.count]
      BY <1>1
    <2>2. uf.parent \in [{} -> {}] /\ uf.rank \in [{} -> Nat] /\ uf.count \in Int
      BY <1>2, <1>3
    <2>3. \E top \in Nat : \A x \in {} : uf.rank[x] <= top
      <3>1. 0 \in Nat
        OBVIOUS
      <3> QED
        BY <3>1
    <2> QED
      BY <1>4, <2>1, <2>2, <2>3 DEF Forest, Climbs
  <1>6. Classes(uf) = {} /\ Heavy(uf)
    BY <1>4 DEF Classes, Heavy
  <1>7. IsFiniteSet({}) /\ Cardinality({}) = 0
    BY FS_EmptySet
  <1>8. Represents(uf, sets)
    BY <1>1, <1>3, <1>4, <1>5, <1>6, <1>7 DEF Represents
  <1> QED
    BY <1>1, <1>8 DEF ForestInv

LEMMA ForestNextInv == ForestInv /\ [UF!Next]_(UF!vars) => ForestInv'
  <1> SUFFICES ASSUME ForestInv, [UF!Next]_(UF!vars) PROVE ForestInv'
    OBVIOUS
  <1>1. CASE UNCHANGED UF!vars
    BY <1>1 DEF UF!vars, ForestInv
  <1>2. ASSUME NEW x \in Nodes, UF!Make(x) PROVE ForestInv'
    <2>1. Represents(uf, sets) /\ joined'[1] = joined'[2]
      BY <1>2 DEF ForestInv, UF!Make
    <2>2. x \in UF!Made(uf) <=> \E s \in sets : x \in s
      <3>1. sets = Classes(uf)
        BY <2>1 DEF Represents
      <3>2. x \in UF!Made(uf) => Class(uf, x) \in sets /\ x \in Class(uf, x)
        BY <3>1, SetsAreClasses
      <3>3. \A s \in sets : s \subseteq UF!Made(uf)
        BY <3>1 DEF Classes, Class
      <3> QED
        BY <3>2, <3>3
    <2>3. CASE x \in UF!Made(uf)
      <3>1. uf' = uf /\ sets' = sets
        BY <1>2, <2>2, <2>3 DEF UF!Make, UF!MakeSet
      <3> QED
        BY <2>1, <3>1 DEF ForestInv
    <2>4. CASE x \notin UF!Made(uf)
      <3>1. uf' = UF!MakeSet(uf, x) /\ sets' = sets \cup {{x}}
        BY <1>2, <2>2, <2>4 DEF UF!Make
      <3>2. Represents(UF!MakeSet(uf, x), sets \cup {{x}})
        BY <2>1, <2>4, MakeRepresents
      <3> QED
        BY <2>1, <3>1, <3>2 DEF ForestInv
    <2> QED
      BY <2>3, <2>4
  <1>3. ASSUME NEW x \in Nodes, UF!Ask(x) PROVE ForestInv'
    <2>1. /\ x \in UF!Made(uf) /\ uf' = UF!Compressed(uf, x) /\ sets' = sets /\ joined' = joined
      BY <1>3 DEF UF!Ask
    <2>2. Represents(uf, sets) /\ Forest(uf) /\ joined[1] = joined[2]
      BY DEF ForestInv, Represents
    <2>3. Forest(UF!Compressed(uf, x)) /\ Keeps(uf, UF!Compressed(uf, x))
      BY <2>1, <2>2, CompressionKeeps
    <2>4. Represents(UF!Compressed(uf, x), sets)
      BY <2>2, <2>3, KeepsRepresents
    <2> QED
      BY <2>1, <2>2, <2>4 DEF ForestInv
  <1>4. ASSUME NEW x \in Nodes, NEW y \in Nodes, UF!Join(x, y) PROVE ForestInv'
    BY <1>4, JoinKeeps
  <1> QED
    BY <1>1, <1>2, <1>3, <1>4 DEF UF!Next

(* Whatever elements are made, joined and asked for in whichever order:       *)
(* Connected answers by the partition that the unions describe, Union returns *)
(* whether the two sets were separate, Count is the number of sets, and       *)
(* union by rank keeps the trees flat: the path of Find is no longer than the *)
(* rank of its root, and a root of rank r has at least 2^r elements.          *)
THEOREM ForestRepresentsPartition == UF!Spec => []UF!RepresentsPartition
  <1>1. ForestInv => UF!RepresentsPartition
    <2> SUFFICES ASSUME ForestInv PROVE UF!RepresentsPartition
      OBVIOUS
    <2>1. /\ Forest(uf) /\ Heavy(uf) /\ sets = Classes(uf) /\ uf.count = Cardinality(sets)
          /\ joined[1] = joined[2]
      BY Zenon DEF ForestInv, Represents
    <2>2. UF!Made(uf) = UNION sets
      BY <2>1 DEF Classes, Class
    <2>3. \A S : UF!Cardinality(S) = Cardinality(S)
      BY DEF UF!Cardinality, Cardinality
    <2>4. \A x \in UF!Made(uf) : UF!SetOf(x) = Class(uf, x) /\ x \in Class(uf, x)
      BY <2>1, SetsAreClasses
    <2>5. \A x, y \in UF!Made(uf) : UF!Connected(uf, x, y) <=> UF!SetOf(x) = UF!SetOf(y)
      BY <2>4 DEF UF!Connected, Class
    <2>6. ASSUME NEW x \in UF!Made(uf)
          PROVE  /\ Len(UF!Path(uf, x)) <= uf.rank[UF!Root(uf, x)] + 1
                 /\ UF!TwoTo(uf.rank[UF!Root(uf, x)]) <= Cardinality(UF!SetOf(x))
      <3>1. Len(UF!Path(uf, x)) + uf.rank[x] <= uf.rank[UF!Root(uf, x)] + 1
            /\ Len(UF!Path(uf, x)) \in Nat \ {0}
        BY <2>1, WaysLeadUp, Zenon DEF WayUp
      <3>2. uf.rank[x] \in Nat /\ uf.rank[UF!Root(uf, x)] \in Nat
        <4>1. uf.rank \in [UF!Made(uf) -> Nat]
          BY <2>1 DEF Forest, UF!Made
        <4> QED
          BY <2>1, <4>1, RootsOf
      <3> QED
        BY <2>1, <2>4, <3>1, <3>2 DEF Heavy
    <2> QED
      BY <2>1, <2>2, <2>3, <2>5, <2>6, Zenon DEF UF!RepresentsPartition
  <1> QED
    BY <1>1, ForestInitInv, ForestNextInv, PTL DEF UF!Spec

-----------------------------------------------------------------------------
(* SegmentTree, for arrays of any length and any numbers.  The calls of the   *)
(* recursion form a tree, in which no two use one cell.                       *)
SegType == n \in Nat \ {0} /\ arr \in [0..(n - 1) -> Int]

Splits(c) == c[2] < c[3]

(* The two halves of a call.                                                  *)
LEMMA MidBetween ==
  \A s, e \in Nat : s < e => /\ ST!Mid(s, e) \in Nat
                             /\ s <= ST!Mid(s, e) /\ ST!Mid(s, e) < e
                             /\ 2 * (ST!Mid(s, e) - s) <= e - s
                             /\ 2 * (e - (ST!Mid(s, e) + 1)) <= e - s
  BY DEF ST!Mid

(* They are calls again: this is where 4n cells are enough.                   *)
LEMMA CallsAre ==
  ASSUME SegType
  PROVE  /\ ST!Top \in ST!Calls
         /\ \A c \in ST!Calls :
              /\ c[1] \in 1..(4 * n - 1) /\ c[2] \in 0..(n - 1) /\ c[3] \in 0..(n - 1)
              /\ c[2] <= c[3] /\ c = <<c[1], c[2], c[3]>>
              /\ Splits(c) => ST!Left(c) \in ST!Calls /\ ST!Right(c) \in ST!Calls
  <1>0. n \in Nat \ {0}
    BY DEF SegType
  <1>1. ST!Top \in ST!Calls
    <2>1. 1 \in 1..(4 * n - 1) /\ 0 \in 0..(n - 1) /\ n - 1 \in 0..(n - 1)
          /\ 0 <= n - 1 /\ ((n - 1) - 0) * (1 + 1) <= 2 * n
      BY <1>0
    <2> QED
      BY <2>1 DEF ST!Top, ST!Calls
  <1>2. ASSUME NEW c \in ST!Calls
        PROVE  /\ c[1] \in 1..(4 * n - 1) /\ c[2] \in 0..(n - 1) /\ c[3] \in 0..(n - 1)
               /\ c[2] <= c[3] /\ c = <<c[1], c[2], c[3]>>
               /\ (c[3] - c[2]) * (c[1] + 1) <= 2 * n
    BY DEF ST!Calls
  <1>3. ASSUME NEW c \in ST!Calls, Splits(c)
        PROVE  ST!Left(c) \in ST!Calls /\ ST!Right(c) \in ST!Calls
    <2> DEFINE m == c[1]
               s == c[2]
               e == c[3]
               h == ST!Mid(s, e)
    <2>1. m \in Nat /\ m >= 1 /\ s \in Nat /\ e \in Nat /\ e <= n - 1 /\ s < e
          /\ (e - s) * (m + 1) <= 2 * n
      BY <1>0, <1>2, <1>3 DEF Splits
    <2>2. /\ h \in Nat /\ s <= h /\ h < e
          /\ 2 * (h - s) <= e - s /\ 2 * (e - (h + 1)) <= e - s
      BY <2>1, MidBetween
    <2> HIDE DEF m, s, e, h
    <2>3. m + 1 <= 2 * n
      <3>1. 1 * (m + 1) <= (e - s) * (m + 1)
        BY <2>1
      <3> QED
        BY <1>0, <2>1, <3>1
    <2>4. ASSUME NEW a \in Nat, 2 * a <= e - s, NEW k \in Nat, k + 1 <= 2 * (m + 1)
          PROVE  a * (k + 1) <= 2 * n
      <3>1. a * (k + 1) <= a * (2 * (m + 1))
        BY <2>1, <2>4
      <3>2. a * (2 * (m + 1)) = (2 * a) * (m + 1)
        BY <2>1
      <3>3. (2 * a) * (m + 1) <= (e - s) * (m + 1)
        BY <2>1, <2>4
      <3> DEFINE x == a * (k + 1)
                 y == (2 * a) * (m + 1)
                 z == (e - s) * (m + 1)
      <3>4. x \in Int /\ y \in Int /\ z \in Int /\ x <= y /\ y <= z /\ z <= 2 * n
        BY <2>1, <3>1, <3>2, <3>3
      <3> HIDE DEF x, y, z
      <3>5. x <= 2 * n
        BY <1>0, <3>4
      <3> QED
        BY <3>5 DEF x
    <2>5. (h - s) * (2 * m + 1) <= 2 * n
      <3>1. h - s \in Nat /\ 2 * m \in Nat /\ 2 * m + 1 <= 2 * (m + 1)
        BY <2>1, <2>2
      <3> QED
        BY <2>2, <2>4, <3>1
    <2>6. (e - (h + 1)) * ((2 * m + 1) + 1) <= 2 * n
      <3>1. e - (h + 1) \in Nat /\ 2 * m + 1 \in Nat /\ (2 * m + 1) + 1 <= 2 * (m + 1)
        BY <2>1, <2>2
      <3> QED
        BY <2>2, <2>4, <3>1
    <2>7. /\ 2 * m \in 1..(4 * n - 1) /\ 2 * m + 1 \in 1..(4 * n - 1)
          /\ s \in 0..(n - 1) /\ h \in 0..(n - 1) /\ h + 1 \in 0..(n - 1) /\ e \in 0..(n - 1)
          /\ s <= h /\ h + 1 <= e
      BY <1>0, <2>1, <2>2, <2>3
    <2>8. <<2 * m, s, h>> \in ST!Calls
      BY <2>5, <2>7 DEF ST!Calls
    <2>9. <<2 * m + 1, h + 1, e>> \in ST!Calls
      BY <2>6, <2>7 DEF ST!Calls
    <2> QED
      BY <2>8, <2>9 DEF ST!Left, ST!Right, m, s, e, h
  <1> QED
    BY <1>1, <1>2, <1>3

(* What the halves cover.                                                     *)
LEMMA HalvesAre ==
  ASSUME SegType, NEW c \in ST!Calls, Splits(c)
  PROVE  LET h == ST!Mid(c[2], c[3])
             L == ST!Left(c)
             R == ST!Right(c)
         IN /\ h \in Nat /\ c[2] <= h /\ h < c[3]
            /\ L \in ST!Calls /\ R \in ST!Calls
            /\ L[1] = 2 * c[1] /\ L[2] = c[2] /\ L[3] = h
            /\ R[1] = 2 * c[1] + 1 /\ R[2] = h + 1 /\ R[3] = c[3]
            /\ L[3] - L[2] < c[3] - c[2] /\ R[3] - R[2] < c[3] - c[2]
            /\ L[3] - L[2] \in Nat /\ R[3] - R[2] \in Nat /\ c[3] - c[2] \in Nat
  <1>1. /\ c[2] \in Nat /\ c[3] \in Nat /\ c[2] < c[3]
        /\ ST!Left(c) \in ST!Calls /\ ST!Right(c) \in ST!Calls
    BY CallsAre DEF Splits, SegType
  <1>2. LET h == ST!Mid(c[2], c[3]) IN h \in Nat /\ c[2] <= h /\ h < c[3]
    BY <1>1, MidBetween
  <1> QED
    BY <1>1, <1>2 DEF ST!Left, ST!Right

-----------------------------------------------------------------------------
(* The calls below a call, itself included.                                   *)
Closed(Q) == \A c \in Q : Splits(c) => ST!Left(c) \in Q /\ ST!Right(c) \in Q

Below(c) == {d \in ST!Calls : \A Q \in SUBSET ST!Calls : c \in Q /\ Closed(Q) => d \in Q}

(* The calls below a call are itself and those below its halves.              *)
LEMMA BelowSplits ==
  ASSUME SegType, NEW c \in ST!Calls
  PROVE  /\ c \in Below(c) /\ Below(c) \subseteq ST!Calls
         /\ Splits(c) => Below(c) = {c} \cup Below(ST!Left(c)) \cup Below(ST!Right(c))
         /\ ~Splits(c) => Below(c) = {c}
  <1>0. c \in Below(c) /\ Below(c) \subseteq ST!Calls
    BY DEF Below
  <1>1. ASSUME NEW d \in ST!Calls PROVE Closed(Below(d))
    BY CallsAre DEF Closed, Below
  <1>2. ASSUME NEW d \in ST!Calls, NEW e \in Below(d) PROVE Below(e) \subseteq Below(d)
    <2>1. Below(d) \in SUBSET ST!Calls /\ Closed(Below(d)) /\ e \in Below(d)
      BY <1>1 DEF Below
    <2> QED
      BY <2>1 DEF Below
  <1>3. CASE Splits(c)
    <2> DEFINE L == ST!Left(c)
               R == ST!Right(c)
               Q == {c} \cup Below(L) \cup Below(R)
    <2>1. L \in ST!Calls /\ R \in ST!Calls /\ L \in Below(L) /\ R \in Below(R)
      BY <1>3, CallsAre DEF Below
    <2>2. L \in Below(c) /\ R \in Below(c)
      BY <1>0, <1>1, <1>3 DEF Closed
    <2>3. Q \subseteq Below(c)
      BY <1>0, <1>2, <2>2
    <2>4. Closed(Q)
      BY <1>1, <2>1 DEF Closed
    <2>5. Q \in SUBSET ST!Calls /\ c \in Q
      BY <1>0, <2>3
    <2>6. Below(c) \subseteq Q
      BY <2>4, <2>5 DEF Below
    <2> QED
      BY <1>0, <1>3, <2>3, <2>6
  <1>4. CASE ~Splits(c)
    <2>1. Closed({c}) /\ {c} \in SUBSET ST!Calls
      BY <1>4 DEF Closed
    <2>2. Below(c) \subseteq {c}
      BY <2>1 DEF Below
    <2> QED
      BY <1>0, <1>4, <2>2
  <1> QED
    BY <1>0, <1>3, <1>4

Used == Below(ST!Top)

(* The calls in use are those below the first.                                *)
LEMMA UsedCalls ==
  ASSUME SegType
  PROVE  /\ ST!Top \in Used /\ Used \subseteq ST!Calls /\ Closed(Used)
         /\ \A c \in Used : Below(c) \subseteq Used
         /\ \A Q \in SUBSET ST!Calls : ST!Top \in Q /\ Closed(Q) => Used \subseteq Q
  <1>1. ST!Top \in ST!Calls
    BY CallsAre
  <1>2. ST!Top \in Used /\ Used \subseteq ST!Calls
    BY <1>1 DEF Used, Below
  <1>3. Closed(Used)
    BY CallsAre DEF Closed, Below, Used
  <1>4. ASSUME NEW c \in Used PROVE Below(c) \subseteq Used
    <2>1. Used \in SUBSET ST!Calls /\ c \in Used
      BY <1>2
    <2> QED
      BY <1>3, <2>1 DEF Below
  <1> QED
    BY <1>2, <1>3, <1>4 DEF Used, Below

(* No two calls in use have one cell: a cell number says which halves were    *)
(* taken on the way to it.                                                    *)
Alone(c) == \A d \in Used : d[1] = c[1] => d = c

LEMMA CellsAreApart ==
  ASSUME SegType
  PROVE  \A c \in Used : Alone(c)
  <1> DEFINE Half(c, d) == Splits(d) /\ (c = ST!Left(d) \/ c = ST!Right(d))
             Q == {c \in Used : c = ST!Top \/ \E d \in Used : Half(c, d)}
  <1>0. /\ ST!Top \in Used /\ Used \subseteq ST!Calls /\ Closed(Used)
        /\ ST!Top[1] = 1
    BY UsedCalls DEF ST!Top
  <1>1. Used \subseteq Q
    <2>1. Q \in SUBSET ST!Calls /\ ST!Top \in Q /\ Closed(Q)
      BY <1>0 DEF Closed
    <2> QED
      BY <2>1, UsedCalls
  <1>2. ASSUME NEW c \in Used
        PROVE  c = ST!Top \/ \E d \in Used : Half(c, d)
    BY <1>1
  <1>3. ASSUME NEW c \in Used, NEW d \in Used, Half(c, d)
        PROVE  /\ c[1] \in Nat /\ d[1] \in Nat /\ d[1] >= 1
               /\ c = ST!Left(d) => c[1] = 2 * d[1]
               /\ c = ST!Right(d) => c[1] = 2 * d[1] + 1
    BY <1>0, <1>3, CallsAre, HalvesAre
  <1> DEFINE measure == [c \in Used |-> c[1]]
             G == {c \in Used : Alone(c)}
  <1>4. measure \in [Used -> Nat] /\ \A c \in Used : measure[c] = c[1]
    BY <1>0, CallsAre
  <1>5. ASSUME NEW c \in Used, \A d \in Used : measure[d] < measure[c] => d \in G
        PROVE  c \in G
    <2> SUFFICES ASSUME NEW e \in Used, e[1] = c[1] PROVE e = c
      BY DEF Alone
    <2>1. CASE c = ST!Top \/ e = ST!Top
      BY <1>0, <1>2, <1>3, <2>1
    <2>2. CASE c # ST!Top /\ e # ST!Top
      <3>1. PICK d \in Used : Half(c, d)
        BY <1>2, <2>2
      <3>2. PICK f \in Used : Half(e, f)
        BY <1>2, <2>2
      <3>3. /\ d[1] \in Nat /\ d[1] >= 1 /\ (c = ST!Left(d) => c[1] = 2 * d[1])
            /\ (c = ST!Right(d) => c[1] = 2 * d[1] + 1) /\ c[1] \in Nat
        BY <1>3, <3>1
      <3>4. /\ f[1] \in Nat /\ f[1] >= 1 /\ (e = ST!Left(f) => e[1] = 2 * f[1])
            /\ (e = ST!Right(f) => e[1] = 2 * f[1] + 1)
        BY <1>3, <3>2
      <3>5. d[1] = f[1] /\ (c = ST!Left(d) <=> e = ST!Left(f)) /\ d[1] < c[1]
        BY <3>1, <3>2, <3>3, <3>4
      <3>6. d \in G
        BY <1>4, <1>5, <3>5
      <3>7. f = d
        BY <3>5, <3>6 DEF Alone
      <3> QED
        BY <3>1, <3>2, <3>5, <3>7
    <2> QED
      BY <2>1, <2>2
  <1> HIDE DEF G, measure
  <1>6. Used \subseteq G
    BY <1>4, <1>5, MeasuredInduction
  <1> QED
    BY <1>6 DEF G

(* A call below another covers a part of what that covers.                    *)
LEMMA CoversPart ==
  ASSUME SegType, NEW c \in ST!Calls
  PROVE  \A d \in Below(c) : c[2] <= d[2] /\ d[3] <= c[3]
  <1> DEFINE Q == {d \in ST!Calls : c[2] <= d[2] /\ d[3] <= c[3]}
  <1>1. \A d \in ST!Calls : d[2] \in Int /\ d[3] \in Int
    BY CallsAre
  <1>2. ASSUME NEW d \in Q, Splits(d) PROVE ST!Left(d) \in Q /\ ST!Right(d) \in Q
    <2> DEFINE h == ST!Mid(d[2], d[3])
               L == ST!Left(d)
               R == ST!Right(d)
    <2>1. /\ h \in Nat /\ d[2] <= h /\ h < d[3] /\ L \in ST!Calls /\ R \in ST!Calls
          /\ L[2] = d[2] /\ L[3] = h /\ R[2] = h + 1 /\ R[3] = d[3]
      BY <1>2, HalvesAre
    <2> HIDE DEF h, L, R
    <2>2. c[2] \in Int /\ c[3] \in Int /\ d[2] \in Int /\ d[3] \in Int
      BY <1>1
    <2>3. c[2] <= L[2] /\ L[3] <= c[3] /\ c[2] <= R[2] /\ R[3] <= c[3]
      BY <2>1, <2>2
    <2> QED
      BY <2>1, <2>3 DEF L, R
  <1>3. c \in Q /\ Closed(Q) /\ Q \in SUBSET ST!Calls
    BY <1>1, <1>2 DEF Closed
  <1> QED
    BY <1>3 DEF Below

(* The cells below the two halves of a call and its own are three sets.       *)
LEMMA HalvesAreApart ==
  ASSUME SegType, NEW c \in Used, Splits(c)
  PROVE  LET L == ST!Left(c)
             R == ST!Right(c)
         IN /\ L \in Used /\ R \in Used
            /\ Below(c) = {c} \cup Below(L) \cup Below(R)
            /\ \A d \in Below(L), e \in Below(R) : d[1] # e[1] /\ d[1] # c[1] /\ e[1] # c[1]
  <1> DEFINE L == ST!Left(c)
             R == ST!Right(c)
             h == ST!Mid(c[2], c[3])
  <1>1. /\ c \in ST!Calls /\ L \in Used /\ R \in Used /\ Used \subseteq ST!Calls
        /\ Below(L) \subseteq Used /\ Below(R) \subseteq Used
    BY UsedCalls DEF Closed
  <1>2. Below(c) = {c} \cup Below(L) \cup Below(R)
    BY <1>1, BelowSplits
  <1>3. /\ h \in Nat /\ c[2] <= h /\ h < c[3]
        /\ L[2] = c[2] /\ L[3] = h /\ R[2] = h + 1 /\ R[3] = c[3]
    BY <1>1, HalvesAre
  <1>4. ASSUME NEW d \in Below(L), NEW e \in Below(R)
        PROVE  d # e /\ d # c /\ e # c
    <2>1. /\ d[2] \in Nat /\ d[3] \in Nat /\ e[2] \in Nat /\ e[3] \in Nat
          /\ d[2] <= d[3] /\ e[2] <= e[3] /\ c[2] \in Nat /\ c[3] \in Nat
      BY <1>1, CallsAre DEF SegType
    <2>2. L[2] <= d[2] /\ d[3] <= L[3] /\ R[2] <= e[2] /\ e[3] <= R[3]
      BY <1>1, CoversPart
    <2>3. d[3] < e[2] /\ d[3] < c[3] /\ c[2] < e[2]
      BY <1>3, <2>1, <2>2
    <2> QED
      BY <2>1, <2>3
  <1>5. ASSUME NEW d \in Below(L), NEW e \in Below(R)
        PROVE  d[1] # e[1] /\ d[1] # c[1] /\ e[1] # c[1]
    <2>1. d \in Used /\ e \in Used /\ c \in Used
      BY <1>1
    <2> QED
      BY <1>4, <2>1, CellsAreApart DEF Alone
  <1> QED
    BY <1>1, <1>2, <1>5

-----------------------------------------------------------------------------
(* Running totals, and what a cell should hold.                               *)
SumOf(a, s, e) == ST!Upto(a, e + 1) - ST!Upto(a, s)

(* The running totals exist and are numbers.                                  *)
LEMMA UptoAdds ==
  ASSUME SegType, NEW a \in [0..(n - 1) -> Int]
  PROVE  /\ ST!Upto(a, 0) = 0 /\ \A k \in 0..n : ST!Upto(a, k) \in Int
         /\ \A k \in 0..(n - 1) : ST!Upto(a, k + 1) = ST!Upto(a, k) + a[k]
  <1> DEFINE Running(j, f) == IF j = 0 THEN 0 ELSE f[j - 1] + a[j - 1]
             Body(f) == [j \in 0..n |-> Running(j, f)]
             upto == CHOOSE f : f = Body(f)
             table == [p \in (1..n) \X Int |-> p[2] + a[p[1] - 1]]
  <1>0. n \in Nat /\ n >= 1
    BY DEF SegType
  <1>1. /\ table \in [(1..n) \X Int -> Int] /\ 0 \in Int
        /\ \A k \in 1..n, x \in Int : table[<<k, x>>] = x + a[k - 1]
    <2>1. \A k \in 1..n : a[k - 1] \in Int
      BY <1>0
    <2> QED
      BY <2>1
  <1>2. PICK f \in [0..n -> Int] : f[0] = 0 /\ \A k \in 1..n : f[k] = table[<<k, f[k - 1]>>]
    <2> HIDE DEF table
    <2>1. \E f \in [0..n -> Int] : Iterates(f, n, 0, table)
      BY <1>0, <1>1, RecursionExists
    <2> QED
      BY <2>1 DEF Iterates
  <1>3. \A k \in 0..n : f[k] = Running(k, f)
    <2> SUFFICES ASSUME NEW k \in 0..n, k # 0 PROVE f[k] = f[k - 1] + a[k - 1]
      BY <1>2
    <2>1. k \in 1..n /\ k - 1 \in 0..n
      BY <1>0
    <2> HIDE DEF table
    <2> QED
      BY <1>1, <1>2, <2>1
  <1>4. f = Body(f)
    <2> HIDE DEF Running
    <2> QED
      BY <1>2, <1>3
  <1>5. upto = Body(upto)
    BY <1>4
  <1>6. \A k : ST!Upto(a, k) = upto[k]
    BY DEF ST!Upto, Running
  <1> HIDE DEF upto
  <1>7. \A k \in 0..n : upto[k] = Running(k, upto)
    <2> HIDE DEF Running
    <2> QED
      BY <1>5
  <1>8. upto[0] = 0 /\ \A k \in 0..(n - 1) : upto[k + 1] = upto[k] + a[k]
    <2>1. \A k \in 0..(n - 1) : k + 1 \in 0..n /\ k + 1 # 0 /\ (k + 1) - 1 = k
      BY <1>0
    <2>2. 0 \in 0..n
      BY <1>0
    <2> QED
      BY <1>7, <2>1, <2>2
  <1> DEFINE N == {k \in Nat : k <= n => upto[k] \in Int}
  <1>9. 0 \in N /\ \A k \in Nat : k \in N => k + 1 \in N
    <2>1. 0 \in N
      BY <1>8
    <2>2. ASSUME NEW k \in Nat, k \in N, k + 1 <= n PROVE upto[k + 1] \in Int
      <3>1. k \in 0..(n - 1) /\ upto[k] \in Int
        BY <1>0, <2>2
      <3> QED
        BY <1>8, <3>1
    <2> QED
      BY <2>1, <2>2
  <1> HIDE DEF N
  <1>10. Nat \subseteq N
    BY <1>9, NatSetInduction
  <1> QED
    BY <1>6, <1>8, <1>10 DEF N

-----------------------------------------------------------------------------
(* build and update, as functions of the tree that they find.                 *)
Span(c) == c[3] - c[2]

Stored(t, m, v) == [t EXCEPT ![m] = v]

BuildValue(t, c, f, a) ==
    IF c[2] = c[3] THEN Stored(t, c[1], a[c[2]])
    ELSE ST!PulledUp(f[<<f[<<t, ST!Left(c)>>], ST!Right(c)>>], c[1])

Toward(c, idx) ==
    IF ST!GoesLeft(idx, ST!Mid(c[2], c[3])) THEN ST!Left(c) ELSE ST!Right(c)

UpdateValue(t, c, f, idx, val) ==
    IF c[2] = c[3] THEN Stored(t, c[1], val)
    ELSE ST!PulledUp(f[<<t, Toward(c, idx)>>], c[1])

(* What they store fits into the tree.                                        *)
LEMMA TreesStay ==
  ASSUME SegType, NEW t \in ST!Trees, NEW c \in ST!Calls
  PROVE  /\ \A v \in Int : Stored(t, c[1], v) \in ST!Trees
         /\ Splits(c) => ST!PulledUp(t, c[1]) \in ST!Trees
  <1>1. n \in Nat \ {0} /\ c[1] \in 1..(4 * n - 1)
    BY CallsAre DEF SegType
  <1>2. \A v \in Int : Stored(t, c[1], v) \in ST!Trees
    BY <1>1 DEF ST!Trees, Stored
  <1>3. ASSUME Splits(c) PROVE ST!PulledUp(t, c[1]) \in ST!Trees
    <2>1. ST!Left(c) \in ST!Calls /\ ST!Right(c) \in ST!Calls
          /\ ST!Left(c)[1] = 2 * c[1] /\ ST!Right(c)[1] = 2 * c[1] + 1
      BY <1>3, HalvesAre
    <2>2. 2 * c[1] \in 1..(4 * n - 1) /\ 2 * c[1] + 1 \in 1..(4 * n - 1)
      BY <2>1, CallsAre
    <2>3. t[2 * c[1]] + t[2 * c[1] + 1] \in Int
      BY <2>2 DEF ST!Trees
    <2> QED
      BY <1>2, <2>3 DEF ST!PulledUp, Stored
  <1> QED
    BY <1>2, <1>3

(* Halves cover less than the whole.                                          *)
LEMMA WidthsShrink ==
  ASSUME SegType, NEW c \in ST!Calls
  PROVE  /\ Span(c) \in Nat /\ (c[2] = c[3] <=> ~Splits(c))
         /\ Splits(c) => /\ ST!Left(c) \in ST!Calls /\ ST!Right(c) \in ST!Calls
                         /\ Span(ST!Left(c)) < Span(c) /\ Span(ST!Right(c)) < Span(c)
  <1>1. c[2] \in Nat /\ c[3] \in Nat /\ c[2] <= c[3]
    BY CallsAre DEF SegType
  <1> QED
    BY <1>1, HalvesAre DEF Span, Splits

(* What build does in a call.                                                 *)
LEMMA BuildUnfolds ==
  ASSUME SegType, NEW a \in [0..(n - 1) -> Int]
  PROVE  \E built :
            /\ ST!Built(a) = built[<<[i \in 0..(4 * n - 1) |-> 0], ST!Top>>]
            /\ \A t \in ST!Trees, c \in ST!Calls : built[<<t, c>>] = BuildValue(t, c, built, a)
  <1> DEFINE S == ST!Visits
             V == ST!Trees
             measure == [p \in S |-> Span(p[2])]
             table == [p \in S \X [S -> V] |-> BuildValue(p[1][1], p[1][2], p[2], a)]
             Body(f) == [p \in S |-> BuildValue(p[1], p[2], f, a)]
             built == CHOOSE f : f = Body(f)
  <1>0. \A p \in S : p[1] \in V /\ p[2] \in ST!Calls /\ p = <<p[1], p[2]>>
    BY DEF ST!Visits
  <1>1. measure \in [S -> Nat] /\ \A p \in S : measure[p] = Span(p[2])
    BY <1>0, WidthsShrink
  <1>2. ASSUME NEW t \in V, NEW c \in ST!Calls, NEW f \in [S -> V], Splits(c)
        PROVE  /\ <<t, ST!Left(c)>> \in S /\ f[<<t, ST!Left(c)>>] \in V
               /\ <<f[<<t, ST!Left(c)>>], ST!Right(c)>> \in S
               /\ f[<<f[<<t, ST!Left(c)>>], ST!Right(c)>>] \in V
    <2>1. ST!Left(c) \in ST!Calls /\ ST!Right(c) \in ST!Calls
      BY <1>2, WidthsShrink
    <2>2. \A x \in V : <<x, ST!Left(c)>> \in S /\ <<x, ST!Right(c)>> \in S
      BY <2>1 DEF ST!Visits
    <2>3. \A x \in V : f[<<x, ST!Left(c)>>] \in V /\ f[<<x, ST!Right(c)>>] \in V
      BY <2>2
    <2> HIDE DEF S, V
    <2> QED
      BY <2>2, <2>3
  <1>3. ASSUME NEW t \in V, NEW c \in ST!Calls, NEW f \in [S -> V]
        PROVE  BuildValue(t, c, f, a) \in V
    <2>1. CASE Splits(c)
      <3>1. BuildValue(t, c, f, a) = ST!PulledUp(f[<<f[<<t, ST!Left(c)>>], ST!Right(c)>>], c[1])
        BY <2>1, WidthsShrink DEF BuildValue
      <3> QED
        BY <1>2, <2>1, <3>1, TreesStay
    <2>2. CASE ~Splits(c)
      <3>1. BuildValue(t, c, f, a) = Stored(t, c[1], a[c[2]])
        BY <2>2, WidthsShrink DEF BuildValue
      <3>2. a[c[2]] \in Int
        BY CallsAre
      <3> QED
        BY <3>1, <3>2, TreesStay
    <2> QED
      BY <2>1, <2>2
  <1>4. /\ table \in [S \X [S -> V] -> V]
        /\ \A p \in S, f \in [S -> V] : table[<<p, f>>] = BuildValue(p[1], p[2], f, a)
    <2>1. \A p \in S, f \in [S -> V] : BuildValue(p[1], p[2], f, a) \in V
      BY <1>0, <1>3
    <2> HIDE DEF S, V
    <2> QED
      BY <2>1
  <1>5. ASSUME NEW p \in S, NEW f \in [S -> V], NEW g \in [S -> V],
               \A q \in S : measure[q] < measure[p] => f[q] = g[q]
        PROVE  BuildValue(p[1], p[2], f, a) = BuildValue(p[1], p[2], g, a)
    <2> DEFINE t == p[1]
               c == p[2]
    <2>1. t \in V /\ c \in ST!Calls
      BY <1>0
    <2>2. CASE Splits(c)
      <3> DEFINE q == <<t, ST!Left(c)>>
                 r == <<f[q], ST!Right(c)>>
      <3>1. q \in S /\ f[q] \in V /\ r \in S
        BY <1>2, <2>1, <2>2
      <3>2. measure[q] < measure[p] /\ measure[r] < measure[p]
        BY <1>1, <2>1, <2>2, <3>1, WidthsShrink
      <3>3. f[q] = g[q] /\ f[r] = g[r]
        BY <1>5, <3>1, <3>2
      <3> QED
        BY <3>3 DEF BuildValue
    <2>3. CASE ~Splits(c)
      BY <2>1, <2>3, WidthsShrink DEF BuildValue
    <2> QED
      BY <2>2, <2>3
  <1> HIDE DEF S, V, measure, table
  <1>6. \A p \in S : \A f, g \in [S -> V] :
           (\A q \in S : measure[q] < measure[p] => f[q] = g[q])
              => table[<<p, f>>] = table[<<p, g>>]
    <2> SUFFICES ASSUME NEW p \in S, NEW f \in [S -> V], NEW g \in [S -> V],
                        \A q \in S : measure[q] < measure[p] => f[q] = g[q]
                 PROVE  table[<<p, f>>] = table[<<p, g>>]
      OBVIOUS
    <2>1. BuildValue(p[1], p[2], f, a) = BuildValue(p[1], p[2], g, a)
      BY <1>5, Zenon
    <2>2. /\ table[<<p, f>>] = BuildValue(p[1], p[2], f, a)
          /\ table[<<p, g>>] = BuildValue(p[1], p[2], g, a)
      BY <1>4, Zenon
    <2> QED
      BY <2>1, <2>2
  <1>7. DependsBelow(table, S, V, measure)
    BY <1>1, <1>4, <1>6, Zenon DEF DependsBelow
  <1>8. [i \in 0..(4 * n - 1) |-> 0] \in V
    BY DEF ST!Trees, V
  <1>9. PICK f \in [S -> V] : Recurs(f, S, table)
    BY <1>7, <1>8, MeasuredRecursion
  <1>10. f = Body(f)
    BY <1>4, <1>9 DEF Recurs
  <1>11. built = Body(built)
    BY <1>10
  <1>12. ST!Built(a) = built[<<[i \in 0..(4 * n - 1) |-> 0], ST!Top>>]
    BY DEF ST!Built, BuildValue, Stored, S, ST!Visits
  <1> HIDE DEF built
  <1>13. \A t \in V, c \in ST!Calls : built[<<t, c>>] = BuildValue(t, c, built, a)
    <2>1. ASSUME NEW t \in V, NEW c \in ST!Calls PROVE <<t, c>> \in S
      BY DEF S, V, ST!Visits
    <2> QED
      BY <2>1, <1>11
  <1> QED
    BY <1>12, <1>13 DEF V

(* What update does in a call.                                                *)
LEMMA UpdateUnfolds ==
  ASSUME SegType, NEW idx \in 0..(n - 1), NEW val \in Int
  PROVE  \E updated :
            /\ ST!Updated(idx, val) = updated[<<tree, ST!Top>>]
            /\ \A t \in ST!Trees, c \in ST!Calls :
                  updated[<<t, c>>] = UpdateValue(t, c, updated, idx, val)
  <1> DEFINE S == ST!Visits
             V == ST!Trees
             measure == [p \in S |-> Span(p[2])]
             table == [p \in S \X [S -> V] |-> UpdateValue(p[1][1], p[1][2], p[2], idx, val)]
             Body(f) == [p \in S |-> UpdateValue(p[1], p[2], f, idx, val)]
             updated == CHOOSE f : f = Body(f)
  <1>0. \A p \in S : p[1] \in V /\ p[2] \in ST!Calls /\ p = <<p[1], p[2]>>
    BY DEF ST!Visits
  <1>1. measure \in [S -> Nat] /\ \A p \in S : measure[p] = Span(p[2])
    BY <1>0, WidthsShrink
  <1>2. ASSUME NEW t \in V, NEW c \in ST!Calls, NEW f \in [S -> V], Splits(c)
        PROVE  <<t, Toward(c, idx)>> \in S /\ f[<<t, Toward(c, idx)>>] \in V
    <2>1. Toward(c, idx) \in ST!Calls
      BY <1>2, WidthsShrink DEF Toward
    <2>2. <<t, Toward(c, idx)>> \in S
      BY <2>1 DEF ST!Visits
    <2> HIDE DEF S, V
    <2> QED
      BY <2>2
  <1>3. ASSUME NEW t \in V, NEW c \in ST!Calls, NEW f \in [S -> V]
        PROVE  UpdateValue(t, c, f, idx, val) \in V
    <2>1. CASE Splits(c)
      <3>1. UpdateValue(t, c, f, idx, val) = ST!PulledUp(f[<<t, Toward(c, idx)>>], c[1])
        BY <2>1, WidthsShrink DEF UpdateValue
      <3> QED
        BY <1>2, <2>1, <3>1, TreesStay
    <2>2. CASE ~Splits(c)
      <3>1. UpdateValue(t, c, f, idx, val) = Stored(t, c[1], val)
        BY <2>2, WidthsShrink DEF UpdateValue
      <3> QED
        BY <3>1, TreesStay
    <2> QED
      BY <2>1, <2>2
  <1>4. /\ table \in [S \X [S -> V] -> V]
        /\ \A p \in S, f \in [S -> V] : table[<<p, f>>] = UpdateValue(p[1], p[2], f, idx, val)
    <2>1. \A p \in S, f \in [S -> V] : UpdateValue(p[1], p[2], f, idx, val) \in V
      BY <1>0, <1>3
    <2> HIDE DEF S, V
    <2> QED
      BY <2>1
  <1>5. ASSUME NEW p \in S, NEW f \in [S -> V], NEW g \in [S -> V],
               \A q \in S : measure[q] < measure[p] => f[q] = g[q]
        PROVE  UpdateValue(p[1], p[2], f, idx, val) = UpdateValue(p[1], p[2], g, idx, val)
    <2> DEFINE t == p[1]
               c == p[2]
    <2>1. t \in V /\ c \in ST!Calls
      BY <1>0
    <2>2. CASE Splits(c)
      <3> DEFINE q == <<t, Toward(c, idx)>>
      <3>1. q \in S
        BY <1>2, <2>1, <2>2
      <3>2. measure[q] < measure[p]
        BY <1>1, <2>1, <2>2, <3>1, WidthsShrink DEF Toward
      <3>3. f[q] = g[q]
        BY <1>5, <3>1, <3>2
      <3> QED
        BY <3>3 DEF UpdateValue
    <2>3. CASE ~Splits(c)
      BY <2>1, <2>3, WidthsShrink DEF UpdateValue
    <2> QED
      BY <2>2, <2>3
  <1> HIDE DEF S, V, measure, table
  <1>6. \A p \in S : \A f, g \in [S -> V] :
           (\A q \in S : measure[q] < measure[p] => f[q] = g[q])
              => table[<<p, f>>] = table[<<p, g>>]
    <2> SUFFICES ASSUME NEW p \in S, NEW f \in [S -> V], NEW g \in [S -> V],
                        \A q \in S : measure[q] < measure[p] => f[q] = g[q]
                 PROVE  table[<<p, f>>] = table[<<p, g>>]
      OBVIOUS
    <2>1. UpdateValue(p[1], p[2], f, idx, val) = UpdateValue(p[1], p[2], g, idx, val)
      BY <1>5, Zenon
    <2>2. /\ table[<<p, f>>] = UpdateValue(p[1], p[2], f, idx, val)
          /\ table[<<p, g>>] = UpdateValue(p[1], p[2], g, idx, val)
      BY <1>4, Zenon
    <2> QED
      BY <2>1, <2>2
  <1>7. DependsBelow(table, S, V, measure)
    BY <1>1, <1>4, <1>6, Zenon DEF DependsBelow
  <1>8. [i \in 0..(4 * n - 1) |-> 0] \in V
    BY DEF ST!Trees, V
  <1>9. PICK f \in [S -> V] : Recurs(f, S, table)
    BY <1>7, <1>8, MeasuredRecursion
  <1>10. f = Body(f)
    BY <1>4, <1>9 DEF Recurs
  <1>11. updated = Body(updated)
    BY <1>10
  <1>12. ST!Updated(idx, val) = updated[<<tree, ST!Top>>]
    BY DEF ST!Updated, UpdateValue, Toward, Stored, S, ST!Visits
  <1> HIDE DEF updated
  <1>13. \A t \in V, c \in ST!Calls : updated[<<t, c>>] = UpdateValue(t, c, updated, idx, val)
    <2>1. ASSUME NEW t \in V, NEW c \in ST!Calls PROVE <<t, c>> \in S
      BY DEF S, V, ST!Visits
    <2> QED
      BY <2>1, <1>11
  <1> QED
    BY <1>12, <1>13 DEF V

-----------------------------------------------------------------------------
(* A call writes the cells below it, and leaves sums in them.                 *)
Arrays == [0..(n - 1) -> Int]

Spares(t, r, c) ==
    r \in ST!Trees /\ \A m \in 0..(4 * n - 1) : (\A d \in Below(c) : d[1] # m) => r[m] = t[m]

HoldsSums(t, c, a) == \A d \in Below(c) : t[d[1]] = SumOf(a, d[2], d[3])

(* Sums of adjacent ranges add up.                                            *)
LEMMA SumsAdd ==
  ASSUME SegType, NEW a \in Arrays
  PROVE  /\ \A s \in 0..(n - 1) : SumOf(a, s, s) = a[s]
         /\ \A s, e \in 0..(n - 1) : SumOf(a, s, e) \in Int
         /\ \A s, h, e \in 0..(n - 1) :
               s <= h /\ h < e => SumOf(a, s, e) = SumOf(a, s, h) + SumOf(a, h + 1, e)
  <1>0. /\ n \in Nat /\ \A k \in 0..n : ST!Upto(a, k) \in Int
        /\ \A k \in 0..(n - 1) : ST!Upto(a, k + 1) = ST!Upto(a, k) + a[k] /\ a[k] \in Int
    BY UptoAdds DEF SegType, Arrays
  <1>1. ASSUME NEW s \in 0..(n - 1)
        PROVE  ST!Upto(a, s) \in Int /\ ST!Upto(a, s + 1) \in Int
    <2>1. s \in 0..n /\ s + 1 \in 0..n
      BY <1>0
    <2> QED
      BY <1>0, <2>1
  <1>2. ASSUME NEW s \in 0..(n - 1) PROVE SumOf(a, s, s) = a[s]
    BY <1>0, <1>1 DEF SumOf
  <1>3. ASSUME NEW s \in 0..(n - 1), NEW e \in 0..(n - 1) PROVE SumOf(a, s, e) \in Int
    BY <1>1 DEF SumOf
  <1>4. ASSUME NEW s \in 0..(n - 1), NEW h \in 0..(n - 1), NEW e \in 0..(n - 1)
        PROVE  SumOf(a, s, e) = SumOf(a, s, h) + SumOf(a, h + 1, e)
    BY <1>1 DEF SumOf
  <1> QED
    BY <1>2, <1>3, <1>4

(* One element changes the running totals after it, and no sum without it.    *)
LEMMA SumsWithout ==
  ASSUME SegType, NEW a \in Arrays, NEW idx \in 0..(n - 1), NEW val \in Int
  PROVE  /\ [a EXCEPT ![idx] = val] \in Arrays
         /\ \A s, e \in 0..(n - 1) : s <= e /\ (e < idx \/ idx < s) =>
               SumOf([a EXCEPT ![idx] = val], s, e) = SumOf(a, s, e)
  <1> DEFINE b == [a EXCEPT ![idx] = val]
             N == {k \in Nat : k <= n => ST!Upto(b, k) = ST!Upto(a, k)
                                          + (IF k <= idx THEN 0 ELSE val - a[idx])}
  <1>0. n \in Nat /\ n >= 1 /\ a[idx] \in Int /\ b \in Arrays
    BY DEF SegType, Arrays
  <1>1. /\ ST!Upto(a, 0) = 0 /\ \A k \in 0..n : ST!Upto(a, k) \in Int
        /\ \A k \in 0..(n - 1) : ST!Upto(a, k + 1) = ST!Upto(a, k) + a[k]
    BY UptoAdds DEF Arrays
  <1>2. /\ ST!Upto(b, 0) = 0 /\ \A k \in 0..n : ST!Upto(b, k) \in Int
        /\ \A k \in 0..(n - 1) : ST!Upto(b, k + 1) = ST!Upto(b, k) + b[k]
    BY <1>0, UptoAdds DEF Arrays
  <1>3. \A k \in 0..(n - 1) : b[k] = (IF k = idx THEN val ELSE a[k]) /\ a[k] \in Int
    BY DEF Arrays
  <1> HIDE DEF b
  <1>4. 0 \in N
    BY <1>0, <1>1, <1>2
  <1>5. ASSUME NEW k \in Nat, k \in N PROVE k + 1 \in N
    <2> SUFFICES ASSUME k + 1 <= n
                 PROVE  ST!Upto(b, k + 1) = ST!Upto(a, k + 1)
                                             + (IF k + 1 <= idx THEN 0 ELSE val - a[idx])
      OBVIOUS
    <2>1. /\ k \in 0..(n - 1) /\ k \in 0..n /\ idx \in Nat
          /\ ST!Upto(b, k) = ST!Upto(a, k) + (IF k <= idx THEN 0 ELSE val - a[idx])
      BY <1>0, <1>5
    <2>2. /\ ST!Upto(a, k) \in Int /\ ST!Upto(a, k + 1) = ST!Upto(a, k) + a[k]
          /\ ST!Upto(b, k + 1) = ST!Upto(b, k) + b[k]
          /\ b[k] = (IF k = idx THEN val ELSE a[k]) /\ a[k] \in Int
      BY <1>1, <1>2, <1>3, <2>1
    <2> DEFINE x == ST!Upto(a, k)
               y == ST!Upto(b, k)
               x1 == ST!Upto(a, k + 1)
               y1 == ST!Upto(b, k + 1)
    <2> HIDE DEF x, y, x1, y1
    <2>3. /\ x \in Int /\ x1 = x + a[k] /\ y1 = y + b[k]
          /\ y = x + (IF k <= idx THEN 0 ELSE val - a[idx])
      BY <2>1, <2>2 DEF x, y, x1, y1
    <2>4. y1 = x1 + (IF k + 1 <= idx THEN 0 ELSE val - a[idx])
      BY <1>0, <2>1, <2>2, <2>3
    <2> QED
      BY <2>4 DEF x1, y1
  <1> HIDE DEF N
  <1>6. Nat \subseteq N
    BY <1>4, <1>5, NatSetInduction
  <1>7. \A k \in 0..n : ST!Upto(b, k) = ST!Upto(a, k) + (IF k <= idx THEN 0 ELSE val - a[idx])
    BY <1>6, <1>0 DEF N
  <1>8. ASSUME NEW s \in 0..(n - 1), NEW e \in 0..(n - 1), s <= e, e < idx \/ idx < s
        PROVE  SumOf(b, s, e) = SumOf(a, s, e)
    <2>1. s \in 0..n /\ e + 1 \in 0..n
      BY <1>0
    <2>2. /\ ST!Upto(a, s) \in Int /\ ST!Upto(a, e + 1) \in Int
          /\ ST!Upto(b, s) = ST!Upto(a, s) + (IF s <= idx THEN 0 ELSE val - a[idx])
          /\ ST!Upto(b, e + 1) = ST!Upto(a, e + 1) + (IF e + 1 <= idx THEN 0 ELSE val - a[idx])
      BY <1>1, <1>7, <2>1
    <2> QED
      BY <1>0, <1>8, <2>2 DEF SumOf
  <1> QED
    BY <1>0, <1>8 DEF b

(* A node gets the sum of its two halves.                                     *)
LEMMA PullsUp ==
  ASSUME SegType, NEW a \in Arrays, NEW c \in Used, Splits(c), NEW t \in ST!Trees,
         HoldsSums(t, ST!Left(c), a), HoldsSums(t, ST!Right(c), a)
  PROVE  HoldsSums(ST!PulledUp(t, c[1]), c, a)
  <1> DEFINE L == ST!Left(c)
             R == ST!Right(c)
             r == ST!PulledUp(t, c[1])
  <1>1. /\ L \in Used /\ R \in Used /\ Below(c) = {c} \cup Below(L) \cup Below(R)
        /\ \A d \in Below(L), e \in Below(R) : d[1] # e[1] /\ d[1] # c[1] /\ e[1] # c[1]
    BY HalvesAreApart
  <1>2. Used \subseteq ST!Calls /\ L \in Below(L) /\ R \in Below(R)
        /\ Below(L) \subseteq ST!Calls /\ Below(R) \subseteq ST!Calls
    BY <1>1, UsedCalls, BelowSplits
  <1>3. \A d \in ST!Calls : /\ d[1] \in 0..(4 * n - 1)
                            /\ d[2] \in 0..(n - 1) /\ d[3] \in 0..(n - 1)
    BY CallsAre DEF SegType
  <1>4. r[c[1]] = t[2 * c[1]] + t[2 * c[1] + 1]
        /\ \A m \in 0..(4 * n - 1) : m # c[1] => r[m] = t[m]
    BY <1>2, <1>3 DEF ST!PulledUp, ST!Trees
  <1>5. ASSUME NEW d \in Below(L) PROVE r[d[1]] = SumOf(a, d[2], d[3])
    <2>1. d[1] \in 0..(4 * n - 1) /\ d[1] # c[1]
      BY <1>1, <1>2, <1>3
    <2> QED
      BY <1>4, <2>1 DEF HoldsSums
  <1>6. ASSUME NEW d \in Below(R) PROVE r[d[1]] = SumOf(a, d[2], d[3])
    <2>1. d[1] \in 0..(4 * n - 1) /\ d[1] # c[1]
      BY <1>1, <1>2, <1>3
    <2> QED
      BY <1>4, <2>1 DEF HoldsSums
  <1>7. r[c[1]] = SumOf(a, c[2], c[3])
    <2> DEFINE h == ST!Mid(c[2], c[3])
    <2>1. /\ h \in Nat /\ c[2] <= h /\ h < c[3]
          /\ L[1] = 2 * c[1] /\ L[2] = c[2] /\ L[3] = h
          /\ R[1] = 2 * c[1] + 1 /\ R[2] = h + 1 /\ R[3] = c[3]
      BY <1>2, HalvesAre
    <2>2. t[L[1]] = SumOf(a, L[2], L[3]) /\ t[R[1]] = SumOf(a, R[2], R[3])
      BY <1>2 DEF HoldsSums
    <2>3. c[2] \in 0..(n - 1) /\ h \in 0..(n - 1) /\ c[3] \in 0..(n - 1)
      BY <1>1, <1>2, <1>3, <2>1
    <2> HIDE DEF h, L, R
    <2>4. SumOf(a, c[2], c[3]) = SumOf(a, c[2], h) + SumOf(a, h + 1, c[3])
      BY <2>1, <2>3, SumsAdd
    <2> QED
      BY <1>4, <2>1, <2>2, <2>4
  <1> QED
    <2> HIDE DEF r, L, R
    <2>1. \A d \in Below(c) : r[d[1]] = SumOf(a, d[2], d[3])
      BY <1>1, <1>5, <1>6, <1>7
    <2> QED
      BY <2>1 DEF HoldsSums, r

(* A call leaves the sums below another one alone if no cell is below both.   *)
LEMMA SparedSums ==
  ASSUME SegType, NEW a \in Arrays, NEW c \in ST!Calls, NEW d \in ST!Calls, NEW t, NEW r,
         Spares(t, r, c), \A x \in Below(c), y \in Below(d) : x[1] # y[1], HoldsSums(t, d, a)
  PROVE  HoldsSums(r, d, a)
  <1> SUFFICES ASSUME NEW y \in Below(d) PROVE r[y[1]] = SumOf(a, y[2], y[3])
    BY DEF HoldsSums
  <1>1. y[1] \in 0..(4 * n - 1)
    <2>1. y \in ST!Calls
      BY BelowSplits
    <2>2. y[1] \in 1..(4 * n - 1)
      BY <2>1, CallsAre
    <2> QED
      BY <2>2 DEF SegType
  <1>2. r[y[1]] = t[y[1]]
    BY <1>1 DEF Spares
  <1>3. t[y[1]] = SumOf(a, y[2], y[3])
    BY Zenon DEF HoldsSums
  <1> QED
    BY <1>2, <1>3

(* Calls within a call, and its own cell last, write no cell elsewhere.       *)
LEMMA SparesMore ==
  ASSUME SegType, NEW c \in Used, Splits(c), NEW t, NEW x, NEW d,
         d \in {ST!Left(c), ST!Right(c)}, Spares(t, x, d)
  PROVE  Spares(t, x, c) /\ Spares(t, ST!PulledUp(x, c[1]), c)
  <1>1. /\ Below(d) \subseteq Below(c) /\ c \in Below(c) /\ c \in ST!Calls
    BY HalvesAreApart, UsedCalls
  <1>2. c[1] \in 0..(4 * n - 1) /\ x \in ST!Trees
    BY <1>1, CallsAre DEF SegType, Spares
  <1>3. Spares(t, x, c)
    BY <1>1 DEF Spares
  <1>4. ST!PulledUp(x, c[1]) \in ST!Trees
    BY <1>1, <1>2, TreesStay
  <1>5. \A m \in 0..(4 * n - 1) : m # c[1] => ST!PulledUp(x, c[1])[m] = x[m]
    BY <1>2 DEF ST!PulledUp, ST!Trees
  <1>6. \A m \in 0..(4 * n - 1) :
           (\A e \in Below(c) : e[1] # m) => m # c[1] /\ x[m] = t[m]
    BY <1>1, <1>3 DEF Spares
  <1> QED
    BY <1>3, <1>4, <1>5, <1>6 DEF Spares

(* One call after the other, below the same.                                  *)
LEMMA SparesChain ==
  ASSUME NEW t, NEW x, NEW y, NEW c, Spares(t, x, c), Spares(x, y, c)
  PROVE  Spares(t, y, c)
  BY DEF Spares

(* Every call of build leaves the sums in the cells below it.                 *)
LEMMA BuildsSums ==
  ASSUME SegType, NEW a \in Arrays
  PROVE  ST!Built(a) \in ST!Trees /\ HoldsSums(ST!Built(a), ST!Top, a)
  <1> DEFINE zeros == [i \in 0..(4 * n - 1) |-> 0]
             Works(f, c) == \A t \in ST!Trees : /\ Spares(t, f[<<t, c>>], c)
                                                /\ HoldsSums(f[<<t, c>>], c, a)
  <1>1. PICK f : /\ ST!Built(a) = f[<<zeros, ST!Top>>]
                 /\ \A t \in ST!Trees, c \in ST!Calls : f[<<t, c>>] = BuildValue(t, c, f, a)
    BY BuildUnfolds DEF Arrays
  <1> DEFINE measure == [c \in Used |-> Span(c)]
             G == {c \in Used : Works(f, c)}
  <1>2. /\ Used \subseteq ST!Calls /\ ST!Top \in Used
        /\ measure \in [Used -> Nat] /\ \A c \in Used : measure[c] = Span(c)
    BY UsedCalls, WidthsShrink
  <1>3. ASSUME NEW c \in Used, \A d \in Used : measure[d] < measure[c] => d \in G
        PROVE  c \in G
    <2> SUFFICES ASSUME NEW t \in ST!Trees
                 PROVE  Spares(t, f[<<t, c>>], c) /\ HoldsSums(f[<<t, c>>], c, a)
      OBVIOUS
    <2>0. c \in ST!Calls /\ f[<<t, c>>] = BuildValue(t, c, f, a)
      BY <1>1, <1>2
    <2>1. CASE Splits(c)
      <3> DEFINE L == ST!Left(c)
                 R == ST!Right(c)
                 x == f[<<t, L>>]
                 y == f[<<x, R>>]
      <3>1. /\ L \in Used /\ R \in Used /\ L \in ST!Calls /\ R \in ST!Calls
            /\ \A d \in Below(L), e \in Below(R) : d[1] # e[1]
        BY <1>2, <2>1, HalvesAreApart
      <3>2. measure[L] < measure[c] /\ measure[R] < measure[c]
        BY <1>2, <2>0, <2>1, <3>1, WidthsShrink
      <3>3. Works(f, L) /\ Works(f, R)
        BY <1>3, <3>1, <3>2
      <3>4. Spares(t, x, L) /\ HoldsSums(x, L, a) /\ x \in ST!Trees
        BY <3>3 DEF Spares
      <3>5. Spares(x, y, R) /\ HoldsSums(y, R, a) /\ y \in ST!Trees
        BY <3>3, <3>4 DEF Spares
      <3>6. f[<<t, c>>] = ST!PulledUp(y, c[1])
        BY <2>0, <2>1, WidthsShrink DEF BuildValue
      <3> HIDE DEF x, y, Works
      <3>7. HoldsSums(y, L, a)
        <4>1. \A d \in Below(R), e \in Below(L) : d[1] # e[1]
          BY <3>1
        <4> QED
          BY <3>1, <3>4, <3>5, <4>1, SparedSums
      <3>8. HoldsSums(ST!PulledUp(y, c[1]), c, a)
        BY <2>1, <3>5, <3>7, PullsUp
      <3>9. Spares(t, x, c) /\ Spares(x, ST!PulledUp(y, c[1]), c)
        BY <2>1, <3>4, <3>5, SparesMore
      <3>10. Spares(t, ST!PulledUp(y, c[1]), c)
        BY <3>9, SparesChain
      <3> QED
        BY <3>6, <3>8, <3>10
    <2>2. CASE ~Splits(c)
      <3> DEFINE r == Stored(t, c[1], a[c[2]])
      <3>1. /\ c[1] \in 0..(4 * n - 1) /\ c[2] \in 0..(n - 1) /\ c[2] = c[3]
            /\ a[c[2]] \in Int /\ Below(c) = {c}
        <4>1. c[1] \in 1..(4 * n - 1) /\ c[2] \in 0..(n - 1) /\ c[2] = c[3]
          BY <2>0, <2>2, CallsAre, WidthsShrink
        <4> QED
          BY <2>0, <2>2, <4>1, BelowSplits DEF SegType, Arrays
      <3>2. f[<<t, c>>] = r
        BY <2>0, <3>1 DEF BuildValue
      <3>3. r \in ST!Trees /\ r[c[1]] = a[c[2]]
            /\ \A m \in 0..(4 * n - 1) : m # c[1] => r[m] = t[m]
        BY <3>1 DEF Stored, ST!Trees
      <3> HIDE DEF r
      <3>4. SumOf(a, c[2], c[3]) = a[c[2]]
        BY <3>1, SumsAdd
      <3>5. HoldsSums(r, c, a)
        BY <3>1, <3>3, <3>4 DEF HoldsSums
      <3>6. Spares(t, r, c)
        BY <3>1, <3>3 DEF Spares
      <3> QED
        BY <3>2, <3>5, <3>6
    <2> QED
      BY <2>1, <2>2
  <1> HIDE DEF G, measure
  <1>4. Used \subseteq G
    BY <1>2, <1>3, MeasuredInduction
  <1>5. zeros \in ST!Trees
    BY DEF ST!Trees
  <1> HIDE DEF zeros
  <1>6. Spares(zeros, ST!Built(a), ST!Top) /\ HoldsSums(ST!Built(a), ST!Top, a)
    BY <1>1, <1>2, <1>4, <1>5 DEF G
  <1> QED
    BY <1>6 DEF Spares

(* Every call of update that covers the element corrects the sums below it.   *)
LEMMA UpdatesSums ==
  ASSUME SegType, tree \in ST!Trees, HoldsSums(tree, ST!Top, arr),
         NEW idx \in 0..(n - 1), NEW val \in Int
  PROVE  /\ ST!Updated(idx, val) \in ST!Trees
         /\ HoldsSums(ST!Updated(idx, val), ST!Top, [arr EXCEPT ![idx] = val])
  <1> DEFINE b == [arr EXCEPT ![idx] = val]
             Works(f, c) == c[2] <= idx /\ idx <= c[3] =>
                \A t \in ST!Trees : HoldsSums(t, c, arr) =>
                   Spares(t, f[<<t, c>>], c) /\ HoldsSums(f[<<t, c>>], c, b)
  <1>1. PICK f : /\ ST!Updated(idx, val) = f[<<tree, ST!Top>>]
                 /\ \A t \in ST!Trees, c \in ST!Calls :
                       f[<<t, c>>] = UpdateValue(t, c, f, idx, val)
    BY UpdateUnfolds
  <1> DEFINE measure == [c \in Used |-> Span(c)]
             G == {c \in Used : Works(f, c)}
  <1>2. /\ Used \subseteq ST!Calls /\ ST!Top \in Used
        /\ measure \in [Used -> Nat] /\ \A c \in Used : measure[c] = Span(c)
    BY UsedCalls, WidthsShrink
  <1>0. arr \in Arrays /\ b \in Arrays /\ b[idx] = val
        /\ \A s, e \in 0..(n - 1) : s <= e /\ (e < idx \/ idx < s) =>
               SumOf(b, s, e) = SumOf(arr, s, e)
    <2>1. arr \in Arrays
      BY DEF SegType, Arrays
    <2>2. b[idx] = val
      BY <2>1 DEF Arrays
    <2> QED
      BY <2>1, <2>2, SumsWithout
  <1> HIDE DEF b
  <1>3. ASSUME NEW c \in Used, \A d \in Used : measure[d] < measure[c] => d \in G
        PROVE  c \in G
    <2> SUFFICES ASSUME c[2] <= idx, idx <= c[3], NEW t \in ST!Trees, HoldsSums(t, c, arr)
                 PROVE  Spares(t, f[<<t, c>>], c) /\ HoldsSums(f[<<t, c>>], c, b)
      OBVIOUS
    <2>0. c \in ST!Calls /\ f[<<t, c>>] = UpdateValue(t, c, f, idx, val)
      BY <1>1, <1>2
    <2>1. CASE Splits(c)
      <3> DEFINE L == ST!Left(c)
                 R == ST!Right(c)
                 h == ST!Mid(c[2], c[3])
                 half == Toward(c, idx)
                 other == IF idx <= h THEN R ELSE L
                 x == f[<<t, half>>]
      <3>1. /\ L \in Used /\ R \in Used /\ L \in ST!Calls /\ R \in ST!Calls
            /\ Below(c) = {c} \cup Below(L) \cup Below(R)
            /\ \A d \in Below(L), e \in Below(R) : d[1] # e[1]
        BY <1>2, <2>1, HalvesAreApart
      <3>2. measure[L] < measure[c] /\ measure[R] < measure[c]
        BY <1>2, <2>0, <2>1, <3>1, WidthsShrink
      <3>3. /\ h \in Nat /\ L[2] = c[2] /\ L[3] = h /\ R[2] = h + 1 /\ R[3] = c[3]
        BY <2>0, <2>1, HalvesAre
      <3>4. half = (IF idx <= h THEN L ELSE R)
        BY DEF Toward, ST!GoesLeft
      <3>5. half[2] <= idx /\ idx <= half[3] /\ (other[3] < idx \/ idx < other[2])
        BY <3>3, <3>4
      <3>6. /\ half \in Used /\ other \in Used /\ half \in ST!Calls /\ other \in ST!Calls
            /\ half \in {L, R} /\ {half, other} = {L, R}
            /\ \A d \in Below(half), e \in Below(other) : d[1] # e[1]
        BY <3>1, <3>4
      <3>7. Works(f, half)
        BY <1>3, <3>1, <3>2, <3>4
      <3>8. HoldsSums(t, half, arr) /\ HoldsSums(t, other, arr)
        BY <3>1, <3>6 DEF HoldsSums
      <3>9. f[<<t, c>>] = ST!PulledUp(x, c[1])
        BY <2>0, <2>1, WidthsShrink DEF UpdateValue
      <3>10. Spares(t, x, half) /\ HoldsSums(x, half, b) /\ x \in ST!Trees
        BY <3>5, <3>7, <3>8 DEF Spares
      <3> HIDE DEF x, half, other, h, Works
      <3>11. HoldsSums(t, other, b)
        <4> SUFFICES ASSUME NEW d \in Below(other) PROVE t[d[1]] = SumOf(b, d[2], d[3])
          BY DEF HoldsSums
        <4>1. d \in ST!Calls
          BY <3>6, BelowSplits
        <4>2. /\ d[2] \in 0..(n - 1) /\ d[3] \in 0..(n - 1) /\ d[2] <= d[3]
              /\ other[2] \in Int /\ other[3] \in Int
          BY <3>6, <4>1, CallsAre
        <4>3. other[2] <= d[2] /\ d[3] <= other[3]
          BY <3>6, CoversPart
        <4>4. SumOf(b, d[2], d[3]) = SumOf(arr, d[2], d[3])
          <5>1. d[3] < idx \/ idx < d[2]
            BY <3>5, <4>2, <4>3
          <5> QED
            BY <1>0, <4>2, <5>1
        <4>5. t[d[1]] = SumOf(arr, d[2], d[3])
          BY <3>8 DEF HoldsSums
        <4> QED
          BY <4>4, <4>5
      <3>12. HoldsSums(x, other, b)
        BY <1>0, <3>6, <3>10, <3>11, SparedSums
      <3>13. HoldsSums(x, L, b) /\ HoldsSums(x, R, b)
        BY <3>6, <3>10, <3>12
      <3>14. HoldsSums(ST!PulledUp(x, c[1]), c, b)
        BY <1>0, <2>1, <3>10, <3>13, PullsUp
      <3>15. Spares(t, ST!PulledUp(x, c[1]), c)
        BY <2>1, <3>6, <3>10, SparesMore
      <3> QED
        BY <3>9, <3>14, <3>15
    <2>2. CASE ~Splits(c)
      <3> DEFINE r == Stored(t, c[1], val)
      <3>1. /\ c[1] \in 0..(4 * n - 1) /\ c[2] = idx /\ c[3] = idx /\ Below(c) = {c}
        <4>1. /\ c[1] \in 1..(4 * n - 1) /\ c[2] \in 0..(n - 1) /\ c[2] = c[3]
          BY <2>0, <2>2, CallsAre, WidthsShrink
        <4> QED
          BY <2>0, <2>2, <4>1, BelowSplits DEF SegType
      <3>2. f[<<t, c>>] = r
        BY <2>0, <3>1 DEF UpdateValue
      <3>3. r \in ST!Trees /\ r[c[1]] = val
            /\ \A m \in 0..(4 * n - 1) : m # c[1] => r[m] = t[m]
        BY <3>1 DEF Stored, ST!Trees
      <3> HIDE DEF r
      <3>4. SumOf(b, c[2], c[3]) = val
        BY <1>0, <3>1, SumsAdd
      <3>5. HoldsSums(r, c, b)
        BY <3>1, <3>3, <3>4 DEF HoldsSums
      <3>6. Spares(t, r, c)
        BY <3>1, <3>3 DEF Spares
      <3> QED
        BY <3>2, <3>5, <3>6
    <2> QED
      BY <2>1, <2>2
  <1> HIDE DEF G, measure
  <1>4. Used \subseteq G
    BY <1>2, <1>3, MeasuredInduction
  <1>5. Works(f, ST!Top)
    BY <1>2, <1>4 DEF G
  <1>6. ST!Top[2] <= idx /\ idx <= ST!Top[3] /\ tree \in ST!Trees
    BY DEF ST!Top, SegType
  <1>7. Spares(tree, ST!Updated(idx, val), ST!Top) /\ HoldsSums(ST!Updated(idx, val), ST!Top, b)
    BY <1>1, <1>5, <1>6
  <1> QED
    BY <1>7 DEF Spares, b

-----------------------------------------------------------------------------
(* query adds up the cells that lie within the range.                         *)
QueryValue(c, f, l, r) ==
    IF r < c[2] \/ c[3] < l THEN 0
    ELSE IF l <= c[2] /\ c[3] <= r THEN tree[c[1]]
    ELSE f[ST!Left(c)] + f[ST!Right(c)]

Asks(c, l, r) == ~(r < c[2] \/ c[3] < l) /\ ~(l <= c[2] /\ c[3] <= r)

(* What query does in a call.                                                 *)
LEMMA QueryUnfolds ==
  ASSUME SegType, tree \in ST!Trees, NEW l \in 0..(n - 1), NEW r \in 0..(n - 1)
  PROVE  \E sum : /\ ST!Query(l, r) = sum[ST!Top]
                  /\ \A c \in ST!Calls : sum[c] = QueryValue(c, sum, l, r)
  <1> DEFINE S == ST!Calls
             measure == [c \in S |-> Span(c)]
             table == [p \in S \X [S -> Int] |-> QueryValue(p[1], p[2], l, r)]
             Body(f) == [c \in S |-> QueryValue(c, f, l, r)]
             sum == CHOOSE f : f = Body(f)
  <1>1. measure \in [S -> Nat] /\ \A c \in S : measure[c] = Span(c)
    BY WidthsShrink
  <1>2. ASSUME NEW c \in S, Asks(c, l, r)
        PROVE  /\ ST!Left(c) \in S /\ ST!Right(c) \in S
               /\ Span(ST!Left(c)) < Span(c) /\ Span(ST!Right(c)) < Span(c)
    <2>1. c[2] \in Int /\ c[3] \in Int /\ c[2] <= c[3]
      BY CallsAre
    <2>2. Splits(c)
      BY <1>2, <2>1 DEF Asks, Splits
    <2> QED
      BY <2>2, WidthsShrink
  <1>3. ASSUME NEW c \in S, NEW f \in [S -> Int] PROVE QueryValue(c, f, l, r) \in Int
    <2>1. tree[c[1]] \in Int
      <3>1. c[1] \in 0..(4 * n - 1)
        BY CallsAre DEF SegType
      <3> QED
        BY <3>1 DEF SegType, ST!Trees
    <2>2. Asks(c, l, r) => f[ST!Left(c)] \in Int /\ f[ST!Right(c)] \in Int
      BY <1>2
    <2> QED
      BY <2>1, <2>2 DEF QueryValue, Asks
  <1>4. /\ table \in [S \X [S -> Int] -> Int]
        /\ \A c \in S, f \in [S -> Int] : table[<<c, f>>] = QueryValue(c, f, l, r)
    <2> HIDE DEF S
    <2> QED
      BY <1>3
  <1>5. ASSUME NEW c \in S, NEW f \in [S -> Int], NEW g \in [S -> Int],
               \A d \in S : measure[d] < measure[c] => f[d] = g[d]
        PROVE  QueryValue(c, f, l, r) = QueryValue(c, g, l, r)
    <2>1. Asks(c, l, r) => f[ST!Left(c)] = g[ST!Left(c)] /\ f[ST!Right(c)] = g[ST!Right(c)]
      BY <1>1, <1>2, <1>5
    <2> QED
      BY <2>1 DEF QueryValue, Asks
  <1> HIDE DEF S, measure, table
  <1>6. \A c \in S : \A f, g \in [S -> Int] :
           (\A d \in S : measure[d] < measure[c] => f[d] = g[d])
              => table[<<c, f>>] = table[<<c, g>>]
    <2> SUFFICES ASSUME NEW c \in S, NEW f \in [S -> Int], NEW g \in [S -> Int],
                        \A d \in S : measure[d] < measure[c] => f[d] = g[d]
                 PROVE  table[<<c, f>>] = table[<<c, g>>]
      OBVIOUS
    <2>1. QueryValue(c, f, l, r) = QueryValue(c, g, l, r)
      BY <1>5, Zenon
    <2>2. /\ table[<<c, f>>] = QueryValue(c, f, l, r)
          /\ table[<<c, g>>] = QueryValue(c, g, l, r)
      BY <1>4, Zenon
    <2> QED
      BY <2>1, <2>2
  <1>7. DependsBelow(table, S, Int, measure)
    BY <1>1, <1>4, <1>6, Zenon DEF DependsBelow
  <1>8. PICK f \in [S -> Int] : Recurs(f, S, table)
    <2>1. 0 \in Int
      OBVIOUS
    <2> QED
      BY <1>7, <2>1, MeasuredRecursion
  <1>9. f = Body(f)
    BY <1>4, <1>8 DEF Recurs
  <1>10. sum = Body(sum)
    BY <1>9
  <1>11. ST!Query(l, r) = sum[ST!Top]
    BY DEF ST!Query, QueryValue, S
  <1> HIDE DEF sum
  <1>12. \A c \in S : sum[c] = QueryValue(c, sum, l, r)
    BY <1>10
  <1> QED
    BY <1>11, <1>12 DEF S

(* The part of l..r that a call covers, and its sum.                          *)
Later(s, l) == IF s < l THEN l ELSE s

Sooner(e, r) == IF r < e THEN r ELSE e

Overlap(s, e, l, r) ==
    IF Later(s, l) <= Sooner(e, r) THEN SumOf(arr, Later(s, l), Sooner(e, r)) ELSE 0

(* The halves of a call share its part of the range.                          *)
LEMMA OverlapsAdd ==
  ASSUME SegType, NEW l \in 0..(n - 1), NEW r \in 0..(n - 1),
         NEW s \in 0..(n - 1), NEW h \in 0..(n - 1), NEW e \in 0..(n - 1), s <= h, h < e
  PROVE  Overlap(s, e, l, r) = Overlap(s, h, l, r) + Overlap(h + 1, e, l, r)
  <1>1. n \in Nat /\ arr \in Arrays /\ h + 1 \in 0..(n - 1)
    BY DEF SegType, Arrays
  <1> DEFINE lo == Later(s, l)
             hi == Sooner(e, r)
  <1>2. lo \in 0..(n - 1) /\ hi \in 0..(n - 1)
    BY DEF Later, Sooner
  <1>3. SumOf(arr, lo, hi) \in Int
    BY <1>1, <1>2, SumsAdd
  <1>4. CASE hi <= h
    <2>1. Sooner(h, r) = hi /\ ~(Later(h + 1, l) <= hi)
      BY <1>1, <1>4 DEF Later, Sooner
    <2> QED
      BY <1>1, <1>3, <1>4, <2>1 DEF Overlap, Sooner, Later
  <1>5. CASE lo > h
    <2>1. Later(h + 1, l) = lo /\ ~(lo <= Sooner(h, r))
      BY <1>1, <1>5 DEF Later, Sooner
    <2> QED
      BY <1>1, <1>3, <1>5, <2>1 DEF Overlap, Sooner, Later
  <1>6. CASE lo <= h /\ h < hi
    <2>1. Sooner(h, r) = h /\ Later(h + 1, l) = h + 1
      BY <1>1, <1>6 DEF Later, Sooner
    <2>2. SumOf(arr, lo, hi) = SumOf(arr, lo, h) + SumOf(arr, h + 1, hi)
      BY <1>1, <1>2, <1>6, SumsAdd
    <2>3. lo <= hi /\ h + 1 <= hi
      BY <1>1, <1>2, <1>6
    <2> HIDE DEF lo, hi
    <2>4. Overlap(s, e, l, r) = SumOf(arr, lo, hi)
      BY <2>3 DEF Overlap, lo, hi
    <2>5. Overlap(s, h, l, r) = SumOf(arr, lo, h)
      BY <1>6, <2>1 DEF Overlap, lo
    <2>6. Overlap(h + 1, e, l, r) = SumOf(arr, h + 1, hi)
      BY <2>1, <2>3 DEF Overlap, hi
    <2> QED
      BY <2>2, <2>4, <2>5, <2>6
  <1> QED
    BY <1>1, <1>2, <1>4, <1>5, <1>6

(* Every call of query returns the sum of its part of the range.              *)
LEMMA QueriesSum ==
  ASSUME SegType, tree \in ST!Trees, HoldsSums(tree, ST!Top, arr), NEW l \in 0..(n - 1), NEW r \in 0..(n - 1)
  PROVE  ST!Query(l, r) = IF l <= r THEN SumOf(arr, l, r) ELSE 0
  <1>1. PICK f : /\ ST!Query(l, r) = f[ST!Top]
                 /\ \A c \in ST!Calls : f[c] = QueryValue(c, f, l, r)
    BY QueryUnfolds
  <1> DEFINE measure == [c \in Used |-> Span(c)]
             G == {c \in Used : f[c] = Overlap(c[2], c[3], l, r)}
  <1>2. /\ Used \subseteq ST!Calls /\ ST!Top \in Used
        /\ measure \in [Used -> Nat] /\ \A c \in Used : measure[c] = Span(c)
    BY UsedCalls, WidthsShrink
  <1>3. ASSUME NEW c \in Used, \A d \in Used : measure[d] < measure[c] => d \in G
        PROVE  c \in G
    <2>0. /\ c \in ST!Calls /\ f[c] = QueryValue(c, f, l, r)
          /\ c[2] \in 0..(n - 1) /\ c[3] \in 0..(n - 1) /\ c[2] <= c[3] /\ n \in Nat
          /\ tree[c[1]] = SumOf(arr, c[2], c[3])
      BY <1>1, <1>2, CallsAre DEF SegType, HoldsSums, Used
    <2>1. CASE Asks(c, l, r)
      <3> DEFINE L == ST!Left(c)
                 R == ST!Right(c)
                 h == ST!Mid(c[2], c[3])
      <3>1. Splits(c)
        BY <2>0, <2>1 DEF Asks, Splits
      <3>2. L \in Used /\ R \in Used
        BY <3>1, UsedCalls DEF Closed
      <3>3. measure[L] < measure[c] /\ measure[R] < measure[c]
        BY <1>2, <2>0, <3>1, <3>2, WidthsShrink
      <3>4. L \in G /\ R \in G
        BY <1>3, <3>2, <3>3
      <3>5. /\ h \in Nat /\ c[2] <= h /\ h < c[3]
            /\ L[2] = c[2] /\ L[3] = h /\ R[2] = h + 1 /\ R[3] = c[3]
        BY <2>0, <3>1, HalvesAre
      <3>6. f[c] = f[L] + f[R]
        BY <2>0, <2>1 DEF QueryValue, Asks
      <3> HIDE DEF L, R, h
      <3>7. h \in 0..(n - 1)
        BY <2>0, <3>5
      <3>8. f[L] = Overlap(c[2], h, l, r) /\ f[R] = Overlap(h + 1, c[3], l, r)
        BY <3>4, <3>5
      <3>9. Overlap(c[2], c[3], l, r) = Overlap(c[2], h, l, r) + Overlap(h + 1, c[3], l, r)
        BY <2>0, <3>5, <3>7, OverlapsAdd
      <3> QED
        BY <3>6, <3>8, <3>9
    <2>2. CASE r < c[2] \/ c[3] < l
      <3>1. f[c] = 0
        BY <2>0, <2>2 DEF QueryValue
      <3>2. ~(Later(c[2], l) <= Sooner(c[3], r))
        BY <2>0, <2>2 DEF Later, Sooner
      <3> QED
        BY <3>1, <3>2 DEF Overlap
    <2>3. CASE ~(r < c[2] \/ c[3] < l) /\ l <= c[2] /\ c[3] <= r
      <3>1. f[c] = tree[c[1]]
        BY <2>0, <2>3 DEF QueryValue
      <3>2. Later(c[2], l) = c[2] /\ Sooner(c[3], r) = c[3]
        BY <2>0, <2>3 DEF Later, Sooner
      <3> QED
        BY <2>0, <3>1, <3>2 DEF Overlap
    <2> QED
      BY <2>1, <2>2, <2>3 DEF Asks
  <1> HIDE DEF measure
  <1>4. Used \subseteq G
    <2> HIDE DEF G
    <2> QED
      BY <1>2, <1>3, MeasuredInduction
  <1>5. ST!Query(l, r) = Overlap(ST!Top[2], ST!Top[3], l, r)
    BY <1>1, <1>2, <1>4
  <1>6. ST!Top[2] = 0 /\ ST!Top[3] = n - 1 /\ n \in Nat
    BY DEF ST!Top, SegType
  <1>7. Later(0, l) = l /\ Sooner(n - 1, r) = r
    BY <1>6 DEF Later, Sooner
  <1> QED
    BY <1>5, <1>6, <1>7 DEF Overlap

-----------------------------------------------------------------------------
SegInv == SegType /\ tree \in ST!Trees /\ HoldsSums(tree, ST!Top, arr)

(* The tree that build makes.                                                 *)
LEMMA SegInitInv == ST!Init => SegInv
  <1> SUFFICES ASSUME ST!Init PROVE SegInv
    OBVIOUS
  <1>1. n \in Nat \ {0} /\ arr \in Arrays /\ tree = ST!Built(arr)
    <2>1. Sizes \subseteq Nat \ {0} /\ Numbers \subseteq Int
      BY StructuresAssumption
    <2>2. n \in Sizes /\ arr \in [0..(n - 1) -> Numbers] /\ tree = ST!Built(arr)
      BY Zenon DEF ST!Init
    <2> QED
      BY <2>1, <2>2 DEF Arrays
  <1>2. SegType
    BY <1>1 DEF SegType, Arrays
  <1> QED
    BY <1>1, <1>2, BuildsSums DEF SegInv

(* The tree holds the sums and the array numbers, whatever is updated.        *)
LEMMA SegNextInv == SegInv /\ [ST!Next]_(ST!vars) => SegInv'
  <1> SUFFICES ASSUME SegInv, [ST!Next]_(ST!vars) PROVE SegInv'
    OBVIOUS
  <1>1. n' = n
    BY DEF ST!Next, ST!Update, ST!vars
  <1>2. /\ ST!Trees' = ST!Trees /\ ST!Calls' = ST!Calls /\ ST!Top' = ST!Top
    BY <1>1 DEF ST!Trees, ST!Calls, ST!Top
  <1>3. Below(ST!Top)' = Below(ST!Top)
    BY <1>2 DEF Below, Closed, Splits, ST!Left, ST!Right, ST!Mid
  <1>4. \A s, e : SumOf(arr, s, e)' = ST!Upto(arr', e + 1) - ST!Upto(arr', s)
    BY <1>1 DEF SumOf, ST!Upto
  <1>5. ASSUME SegType, arr' \in Arrays, tree' \in ST!Trees, HoldsSums(tree', ST!Top, arr')
        PROVE  SegInv'
    <2>1. SegType'
      BY <1>1, <1>5 DEF SegType, Arrays
    <2>2. \A d \in Below(ST!Top) : tree'[d[1]] = SumOf(arr', d[2], d[3])
      BY <1>5 DEF HoldsSums
    <2>3. \A d \in Below(ST!Top) : tree'[d[1]] = SumOf(arr, d[2], d[3])'
      BY <1>4, <2>2 DEF SumOf
    <2>4. HoldsSums(tree, ST!Top, arr)'
      BY <1>3, <2>3 DEF HoldsSums
    <2> QED
      BY <1>2, <1>5, <2>1, <2>4 DEF SegInv
  <1>6. SegType /\ tree \in ST!Trees /\ HoldsSums(tree, ST!Top, arr) /\ arr \in Arrays
    BY DEF SegInv, SegType, Arrays
  <1>7. CASE UNCHANGED ST!vars
    <2>1. arr' = arr /\ tree' = tree
      BY <1>7 DEF ST!vars
    <2> QED
      BY <1>5, <1>6, <2>1
  <1>8. CASE ST!Next
    <2>1. PICK idx \in 0..(n - 1), val \in Numbers : ST!Update(idx, val)
      BY <1>8 DEF ST!Next
    <2>2. val \in Int /\ tree' = ST!Updated(idx, val) /\ arr' = [arr EXCEPT ![idx] = val]
      BY <2>1, StructuresAssumption DEF ST!Update
    <2>3. arr' \in Arrays
      BY <1>6, <2>2 DEF Arrays
    <2>4. tree' \in ST!Trees /\ HoldsSums(tree', ST!Top, arr')
      BY <1>6, <2>2, UpdatesSums
    <2> QED
      BY <1>5, <1>6, <2>3, <2>4
  <1> QED
    BY <1>7, <1>8

(* The cells that build and update write are the same, no two calls share     *)
(* one and 4n are enough; so after any updates each holds the sum of what it  *)
(* covers, and a query adds up the sums of disjoint parts of its range.       *)
THEOREM SegmentsSumTheArray == ST!Spec => []ST!SumsTheArray
  <1>1. SegInv => ST!SumsTheArray
    <2> SUFFICES ASSUME SegInv, NEW l \in 0..(n - 1), NEW r \in 0..(n - 1)
                 PROVE  ST!Query(l, r) = IF l <= r THEN ST!Upto(arr, r + 1) - ST!Upto(arr, l)
                                         ELSE 0
      BY DEF ST!SumsTheArray
    <2> QED
      BY QueriesSum DEF SegInv, SumOf
  <1> QED
    BY <1>1, SegInitInv, SegNextInv, PTL DEF ST!Spec

-----------------------------------------------------------------------------
(* The composition: only one program moves, and a run of the composition is a *)
(* run of each.                                                               *)
LEMMA TreesApart ==
  [StructuresNext]_allVars => /\ [TR!Next]_(TR!vars) /\ [PQ!Next]_(PQ!vars)
                              /\ [UF!Next]_(UF!vars) /\ [ST!Next]_(ST!vars)
  <1>1. /\ UNCHANGED trieVars => UNCHANGED TR!vars
        /\ UNCHANGED heapVars => UNCHANGED PQ!vars
        /\ UNCHANGED ufVars => UNCHANGED UF!vars
        /\ UNCHANGED segVars => UNCHANGED ST!vars
    BY DEF trieVars, heapVars, ufVars, segVars, TR!vars, PQ!vars, UF!vars, ST!vars
  <1> SUFFICES ASSUME [StructuresNext]_allVars
               PROVE  /\ [TR!Next]_(TR!vars) /\ [PQ!Next]_(PQ!vars)
                      /\ [UF!Next]_(UF!vars) /\ [ST!Next]_(ST!vars)
    OBVIOUS
  <1>2. CASE UNCHANGED allVars
    BY <1>1, <1>2 DEF allVars
  <1>3. CASE TrieStep
    BY <1>1, <1>3 DEF TrieStep
  <1>4. CASE HeapStep
    BY <1>1, <1>4 DEF HeapStep
  <1>5. CASE UnionfindStep
    BY <1>1, <1>5 DEF UnionfindStep
  <1>6. CASE RingStep \/ LruStep \/ KruskalStep
    BY <1>1, <1>6 DEF RingStep, LruStep, KruskalStep
  <1>7. CASE SegmentsStep
    BY <1>1, <1>7 DEF SegmentsStep
  <1>8. CASE ShardedStep \/ PowerStep \/ WebsocketStep
    BY <1>1, <1>8 DEF ShardedStep, PowerStep, WebsocketStep
  <1> QED
    BY <1>2, <1>3, <1>4, <1>5, <1>6, <1>7, <1>8 DEF StructuresNext

(* What the run checks of the four, for all constants at once.                *)
THEOREM TreesKeepTheirPromises ==
  StructuresSpec => []TreesHoldTheirContents /\ HeapServesInOrder
  <1>1. StructuresInit => TR!Init /\ PQ!Init /\ UF!Init /\ ST!Init
    BY DEF StructuresInit
  <1>2. StructuresInit /\ [][StructuresNext]_allVars =>
           TR!Spec /\ PQ!Spec /\ UF!Spec /\ ST!Spec
    BY <1>1, TreesApart, PTL DEF TR!Spec, PQ!Spec, UF!Spec, ST!Spec
  <1>3. TrieHoldsItsWords /\ UF!RepresentsPartition /\ ST!SumsTheArray
           => TreesHoldTheirContents
    BY DEF TreesHoldTheirContents
  <1> QED
    BY <1>2, <1>3, TrieHolds, ServesInPriorityOrder, ForestRepresentsPartition,
       SegmentsSumTheArray, PTL
       DEF StructuresSpec
==============================================================================
