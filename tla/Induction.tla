------------------------------- MODULE Induction -------------------------------
(* Induction over the naturals, stated with sets, and that the functions      *)
(* defined by recursion exist.  The induction theorems of the library take a  *)
(* predicate, which an assumption on a set replaces.                          *)
EXTENDS Integers, WellFoundedInduction, TLAPS

(* A set of naturals that is not empty has a least element.                   *)
LEMMA LeastOfNaturals ==
  ASSUME NEW S, S \subseteq Nat, S # {}
  PROVE  \E n \in S : \A m \in S : n <= m
  <1> DEFINE R == OpToRel(<, Nat)
  <1>1. IsWellFoundedOn(R, Nat)
    BY NatLessThanWellFounded
  <1> HIDE DEF R
  <1>2. \E n \in S : \A m \in S : ~ (<<m, n>> \in R)
    BY <1>1, WFMin
  <1>3. PICK n \in S : \A m \in S : ~ (<<m, n>> \in R)
    BY <1>2
  <1>4. \A m \in S : ~ (m < n)
    BY <1>3 DEF R, OpToRel
  <1> QED
    BY <1>3, <1>4

(* A set with 0 and with every successor of a member has all naturals.        *)
THEOREM NatSetInduction ==
  ASSUME NEW S, 0 \in S, \A n \in Nat : n \in S => n + 1 \in S
  PROVE  Nat \subseteq S
  <1> SUFFICES ASSUME Nat \ S # {} PROVE FALSE
    OBVIOUS
  <1>1. PICK n \in Nat \ S : \A m \in Nat \ S : n <= m
    <2>1. Nat \ S \subseteq Nat
      OBVIOUS
    <2> QED
      BY <2>1, LeastOfNaturals
  <1>2. n # 0 /\ n - 1 \in Nat /\ n - 1 \in S
    BY <1>1
  <1> QED
    BY <1>1, <1>2

(* f starts with first and takes the steps 1..n of the table.                 *)
Iterates(f, n, first, table) ==
    f[0] = first /\ \A k \in 1..n : f[k] = table[<<k, f[k - 1]>>]

(* For a first value and a table of steps there is the function that takes    *)
(* them one after the other.                                                  *)
THEOREM RecursionExists ==
  ASSUME NEW n \in Nat, NEW V, NEW first \in V, NEW table \in [(1..n) \X V -> V]
  PROVE  \E f \in [0..n -> V] : Iterates(f, n, first, table)
  <1> USE DEF Iterates
  <1> DEFINE Upto(m) == \E f \in [0..m -> V] : Iterates(f, m, first, table)
             S == {m \in Nat : m <= n => Upto(m)}
  <1>1. 0 \in S
    <2> DEFINE f == [k \in 0..0 |-> first]
    <2>1. f \in [0..0 -> V] /\ f[0] = first /\ \A k \in 1..0 : f[k] = table[<<k, f[k - 1]>>]
      OBVIOUS
    <2> QED
      BY <2>1
  <1>2. ASSUME NEW m \in Nat, m \in S PROVE m + 1 \in S
    <2> SUFFICES ASSUME m + 1 <= n PROVE Upto(m + 1)
      OBVIOUS
    <2>1. Upto(m)
      BY <1>2
    <2>2. PICK f \in [0..m -> V] :
             f[0] = first /\ \A k \in 1..m : f[k] = table[<<k, f[k - 1]>>]
      BY <2>1
    <2> DEFINE g == [k \in 0..m + 1 |-> IF k = m + 1 THEN table[<<m + 1, f[m]>>] ELSE f[k]]
    <2>3. m + 1 \in 1..n /\ f[m] \in V
      OBVIOUS
    <2>4. table[<<m + 1, f[m]>>] \in V
      BY <2>3
    <2>5. g \in [0..m + 1 -> V] /\ g[0] = first
      BY <2>2, <2>4
    <2>6. ASSUME NEW k \in 1..m + 1 PROVE g[k] = table[<<k, g[k - 1]>>]
      <3>1. CASE k = m + 1
        <4>1. m + 1 \in 0..m + 1 /\ m \in 0..m + 1 /\ m # m + 1 /\ m + 1 - 1 = m
          OBVIOUS
        <4>2. g[m + 1] = table[<<m + 1, f[m]>>] /\ g[m] = f[m]
          BY <4>1
        <4> QED
          BY <3>1, <4>1, <4>2
      <3>2. CASE k # m + 1
        <4>1. k \in 1..m /\ k - 1 \in 0..m
          BY <3>2
        <4> QED
          BY <2>2, <4>1
      <3> QED
        BY <3>1, <3>2
    <2> QED
      BY <2>5, <2>6
  <1> HIDE DEF S
  <1>3. Nat \subseteq S
    BY <1>1, <1>2, NatSetInduction
  <1>4. n \in S
    BY <1>3
  <1> QED
    BY <1>4 DEF S

(* c takes the steps of the table as long as it stays among the values V.      *)
StepsWithin(c, n, first, table, V) ==
    c[0] = first /\ \A k \in 1..n : c[k - 1] \in V => c[k] = table[<<k, c[k - 1]>>]

StaysWithin(c, n, V) == \A k \in 0..n : c[k] \in V

(* Whatever takes the steps of the table as long as it stays among the values *)
(* stays among them and takes them all.                                       *)
THEOREM RecursionStays ==
  ASSUME NEW n \in Nat, NEW V, NEW first \in V, NEW table \in [(1..n) \X V -> V],
         NEW c, StepsWithin(c, n, first, table, V)
  PROVE  Iterates(c, n, first, table) /\ StaysWithin(c, n, V)
  <1> USE DEF StepsWithin, StaysWithin
  <1> DEFINE S == {k \in Nat : k <= n => c[k] \in V}
  <1>1. 0 \in S
    OBVIOUS
  <1>2. ASSUME NEW m \in Nat, m \in S PROVE m + 1 \in S
    <2> SUFFICES ASSUME m + 1 <= n PROVE c[m + 1] \in V
      OBVIOUS
    <2>1. m + 1 \in 1..n /\ m + 1 - 1 = m /\ c[m] \in V
      BY <1>2
    <2>2. c[m + 1] = table[<<m + 1, c[m]>>]
      BY <2>1
    <2> QED
      BY <2>1, <2>2
  <1> HIDE DEF S
  <1>3. Nat \subseteq S
    BY <1>1, <1>2, NatSetInduction
  <1>4. \A k \in 0..n : c[k] \in V
    <2> SUFFICES ASSUME NEW k \in 0..n PROVE c[k] \in V
      OBVIOUS
    <2>1. k \in S /\ k <= n
      BY <1>3
    <2> QED
      BY <2>1 DEF S
  <1>5. \A k \in 1..n : c[k] = table[<<k, c[k - 1]>>]
    <2> SUFFICES ASSUME NEW k \in 1..n PROVE c[k] = table[<<k, c[k - 1]>>]
      OBVIOUS
    <2>1. k - 1 \in 0..n
      OBVIOUS
    <2> QED
      BY <1>4, <2>1
  <1> QED
    BY <1>4, <1>5 DEF Iterates

(* f and g begin alike, and where they agree they take the same step.         *)
StepAlike(f, g, n) ==
    f[0] = g[0] /\ \A k \in 1..n : f[k - 1] = g[k - 1] => f[k] = g[k]

Alike(f, g, n) == \A k \in 0..n : f[k] = g[k]

(* Two that begin alike and take the same steps agree.                        *)
THEOREM RecursionsAgree ==
  ASSUME NEW n \in Nat, NEW f, NEW g, StepAlike(f, g, n)
  PROVE  Alike(f, g, n)
  <1> USE DEF StepAlike, Alike
  <1> DEFINE S == {k \in Nat : k <= n => f[k] = g[k]}
  <1>1. 0 \in S
    OBVIOUS
  <1>2. ASSUME NEW m \in Nat, m \in S PROVE m + 1 \in S
    <2> SUFFICES ASSUME m + 1 <= n PROVE f[m + 1] = g[m + 1]
      OBVIOUS
    <2>1. m + 1 \in 1..n /\ m + 1 - 1 = m /\ f[m] = g[m]
      BY <1>2
    <2> QED
      BY <2>1
  <1> HIDE DEF S
  <1>3. Nat \subseteq S
    BY <1>1, <1>2, NatSetInduction
  <1> SUFFICES ASSUME NEW k \in 0..n PROVE f[k] = g[k]
    OBVIOUS
  <1>4. k \in S /\ k <= n
    BY <1>3
  <1> QED
    BY <1>4 DEF S

(* f has the running sums of the n integers of s.                             *)
SumsUp(f, n, s) == f[0] = 0 /\ \A k \in 1..n : f[k] = f[k - 1] + s[k]

THEOREM SumsExist ==
  ASSUME NEW n \in Nat, NEW s \in [1..n -> Int]
  PROVE  /\ \E f \in [0..n -> Int] : SumsUp(f, n, s)
         /\ \A f : SumsUp(f, n, s) => StaysWithin(f, n, Int)
  <1> DEFINE table == [p \in (1..n) \X Int |-> p[2] + s[p[1]]]
  <1>1. table \in [(1..n) \X Int -> Int] /\ 0 \in Int
    OBVIOUS
  <1>2. \A k \in 1..n, x \in Int : table[<<k, x>>] = x + s[k]
    OBVIOUS
  <1> HIDE DEF table
  <1>3. \E f \in [0..n -> Int] : SumsUp(f, n, s)
    <2>1. PICK f \in [0..n -> Int] : Iterates(f, n, 0, table)
      BY <1>1, RecursionExists
    <2>2. ASSUME NEW k \in 1..n PROVE f[k] = f[k - 1] + s[k]
      <3>1. f[k - 1] \in Int
        OBVIOUS
      <3> QED
        BY <1>2, <2>1, <3>1 DEF Iterates
    <2> QED
      BY <2>1, <2>2 DEF Iterates, SumsUp
  <1>4. ASSUME NEW f, SumsUp(f, n, s) PROVE StaysWithin(f, n, Int)
    <2>1. StepsWithin(f, n, 0, table, Int)
      BY <1>2, <1>4 DEF StepsWithin, SumsUp
    <2> QED
      BY <1>1, <2>1, RecursionStays
  <1> QED
    BY <1>3, <1>4

-----------------------------------------------------------------------------
(* table says what a recursive function returns at s, given the whole of the  *)
(* function; it depends only on what the function is at smaller arguments.    *)
DependsBelow(table, S, V, size) ==
    /\ size \in [S -> Nat] /\ table \in [S \X [S -> V] -> V]
    /\ \A s \in S : \A f, g \in [S -> V] :
         (\A t \in S : size[t] < size[s] => f[t] = g[t]) => table[<<s, f>>] = table[<<s, g>>]

(* f solves the recursion where the measure is below n.                       *)
Solves(f, S, V, size, table, n) ==
    f \in [S -> V] /\ \A s \in S : size[s] < n => f[s] = table[<<s, f>>]

LEMMA SolutionsAgree ==
  ASSUME NEW S, NEW V, NEW size, NEW table, DependsBelow(table, S, V, size),
         NEW n \in Nat, NEW f, Solves(f, S, V, size, table, n),
         NEW m \in Nat, NEW g, Solves(g, S, V, size, table, m)
  PROVE  \A s \in S : size[s] < n /\ size[s] < m => f[s] = g[s]
  <1>0. size \in [S -> Nat]
    BY DEF DependsBelow
  <1> USE <1>0 DEF Solves
  <1> DEFINE Agree(s) == size[s] < n /\ size[s] < m => f[s] = g[s]
             K == {k \in Nat : \A s \in S : size[s] < k => Agree(s)}
  <1>1. 0 \in K
    OBVIOUS
  <1>2. ASSUME NEW k \in Nat, k \in K PROVE k + 1 \in K
    <2> SUFFICES ASSUME NEW s \in S, size[s] < k + 1, size[s] < n, size[s] < m
                 PROVE  f[s] = g[s]
      OBVIOUS
    <2>1. \A t \in S : size[t] < size[s] => size[t] < k /\ size[t] < n /\ size[t] < m
      OBVIOUS
    <2>2. \A t \in S : size[t] < size[s] => f[t] = g[t]
      BY <1>2, <2>1
    <2>3. table[<<s, f>>] = table[<<s, g>>]
      BY <2>2 DEF DependsBelow
    <2> QED
      BY <2>3
  <1> HIDE DEF K
  <1>3. Nat \subseteq K
    BY <1>1, <1>2, NatSetInduction
  <1> SUFFICES ASSUME NEW s \in S PROVE Agree(s)
    OBVIOUS
  <1>4. size[s] + 1 \in K /\ size[s] < size[s] + 1
    BY <1>3
  <1> QED
    BY <1>4 DEF K

(* f is what the table says at every argument.                                *)
Recurs(f, S, table) == \A s \in S : f[s] = table[<<s, f>>]

(* A recursion whose arguments get smaller has a solution.                    *)
THEOREM MeasuredRecursion ==
  ASSUME NEW S, NEW V, NEW first \in V, NEW size, NEW table,
         DependsBelow(table, S, V, size)
  PROVE  \E f \in [S -> V] : Recurs(f, S, table)
  <1>0. size \in [S -> Nat] /\ table \in [S \X [S -> V] -> V]
    BY DEF DependsBelow
  <1> USE <1>0
  <1> DEFINE Sol(f, n) == Solves(f, S, V, size, table, n)
             K == {n \in Nat : \E f \in [S -> V] : Sol(f, n)}
  <1>1. 0 \in K
    <2> DEFINE f == [s \in S |-> first]
    <2>1. f \in [S -> V] /\ Sol(f, 0)
      BY DEF Solves
    <2> QED
      BY <2>1
  <1>2. ASSUME NEW n \in Nat, n \in K PROVE n + 1 \in K
    <2>1. PICK f \in [S -> V] : Sol(f, n)
      BY <1>2
    <2> DEFINE g == [s \in S |-> table[<<s, f>>]]
    <2>2. g \in [S -> V] /\ \A s \in S : g[s] = table[<<s, f>>]
      OBVIOUS
    <2> HIDE DEF g
    <2>3. \A s \in S : size[s] < n => g[s] = f[s]
      BY <2>1, <2>2 DEF Solves
    <2>4. ASSUME NEW s \in S, size[s] < n + 1 PROVE g[s] = table[<<s, g>>]
      <3>1. \A t \in S : size[t] < size[s] => f[t] = g[t]
        BY <2>3, <2>4
      <3>2. table[<<s, f>>] = table[<<s, g>>]
        BY <2>2, <3>1 DEF DependsBelow
      <3> QED
        BY <2>2, <3>2
    <2> QED
      BY <2>2, <2>4 DEF Solves
  <1> HIDE DEF K
  <1>3. Nat \subseteq K
    BY <1>1, <1>2, NatSetInduction
  <1>4. \A n \in Nat : \E f \in [S -> V] : Sol(f, n)
    BY <1>3 DEF K
  <1> DEFINE w(n) == CHOOSE f \in [S -> V] : Sol(f, n)
  <1>5. \A n \in Nat : w(n) \in [S -> V] /\ Sol(w(n), n)
    BY <1>4
  <1> HIDE DEF w, Sol
  <1> DEFINE h == [s \in S |-> w(size[s] + 1)[s]]
  <1>6. h \in [S -> V] /\ \A s \in S : h[s] = w(size[s] + 1)[s]
    BY <1>5
  <1> HIDE DEF h
  <1>7. ASSUME NEW s \in S PROVE h[s] = table[<<s, h>>]
    <2> DEFINE n == size[s] + 1
    <2>1. n \in Nat /\ size[s] < n
      OBVIOUS
    <2>2. ASSUME NEW t \in S, size[t] < size[s] PROVE w(n)[t] = h[t]
      <3> DEFINE m == size[t] + 1
      <3>1. m \in Nat /\ size[t] < n /\ size[t] < m
        BY <2>2
      <3>2. Sol(w(n), n) /\ Sol(w(m), m)
        BY <1>5, <2>1, <3>1
      <3> HIDE DEF n, m
      <3>3. w(n)[t] = w(m)[t]
        BY <2>1, <3>1, <3>2, SolutionsAgree DEF Sol
      <3> QED
        BY <1>6, <3>3 DEF m
    <2> HIDE DEF n
    <2>3. w(n) \in [S -> V] /\ w(n)[s] = table[<<s, w(n)>>]
      BY <1>5, <2>1 DEF Sol, Solves
    <2>4. table[<<s, w(n)>>] = table[<<s, h>>]
      BY <1>6, <2>2, <2>3 DEF DependsBelow
    <2> QED
      BY <1>6, <2>3, <2>4 DEF n
  <1> QED
    BY <1>6, <1>7 DEF Recurs

(* A set with every argument all of whose smaller arguments it has has all.   *)
THEOREM MeasuredInduction ==
  ASSUME NEW S, NEW size \in [S -> Nat], NEW G,
         \A s \in S : (\A t \in S : size[t] < size[s] => t \in G) => s \in G
  PROVE  S \subseteq G
  <1> DEFINE K == {k \in Nat : \A s \in S : size[s] < k => s \in G}
  <1>1. 0 \in K
    OBVIOUS
  <1>2. ASSUME NEW k \in Nat, k \in K PROVE k + 1 \in K
    <2> SUFFICES ASSUME NEW s \in S, size[s] < k + 1 PROVE s \in G
      OBVIOUS
    <2>1. \A t \in S : size[t] < size[s] => t \in G
      BY <1>2
    <2> QED
      BY <2>1
  <1> HIDE DEF K
  <1>3. Nat \subseteq K
    BY <1>1, <1>2, NatSetInduction
  <1> SUFFICES ASSUME NEW s \in S PROVE s \in G
    OBVIOUS
  <1>4. size[s] + 1 \in K /\ size[s] < size[s] + 1
    BY <1>3
  <1> QED
    BY <1>4 DEF K
==============================================================================
