------------------------------ MODULE SegmentTree ------------------------------
(* src/09_dsa/07_segment_tree: sums over ranges of an array, the tree stored  *)
(* in an array of 4n cells with the children of node i at 2i and 2i + 1.     *)
EXTENDS Integers

CONSTANTS Sizes, Numbers   \* array lengths and array values tried

VARIABLES n, tree,  \* st.n, st.tree
          arr       \* the array that main keeps beside the tree

vars == <<n, tree, arr>>

Mid(start, end) == (start + end) \div 2

BugGoesLeft(idx, mid) == idx < mid

GoesLeft(idx, mid) == idx <= mid

(* A node's value is recomputed from its children on the way up.             *)
PulledUp(t, node) == [t EXCEPT ![node] = t[2 * node] + t[2 * node + 1]]

Trees == [0..(4 * n - 1) -> Int]

(* The recursive calls <<node, start, end>>: a node is a cell of the tree and *)
(* covers the positions start..end of the array.  The cover halves where the  *)
(* number of the node doubles.                                                *)
Calls == {c \in (1..(4 * n - 1)) \X (0..(n - 1)) \X (0..(n - 1)) :
             c[2] <= c[3] /\ (c[3] - c[2]) * (c[1] + 1) <= 2 * n}

Top == <<1, 0, n - 1>>

Left(c) == <<2 * c[1], c[2], Mid(c[2], c[3])>>

Right(c) == <<2 * c[1] + 1, Mid(c[2], c[3]) + 1, c[3]>>

(* build and update: a tree and a call, to the tree that the call leaves.     *)
Visits == Trees \X Calls

Built(a) ==
    LET built[at \in Visits] ==
          LET t == at[1]
              c == at[2]
          IN IF c[2] = c[3] THEN [t EXCEPT ![c[1]] = a[c[2]]]
             ELSE PulledUp(built[<<built[<<t, Left(c)>>], Right(c)>>], c[1])
    IN built[<<[i \in 0..(4 * n - 1) |-> 0], Top>>]

Updated(idx, val) ==
    LET updated[at \in Visits] ==
          LET t == at[1]
              c == at[2]
              half == IF GoesLeft(idx, Mid(c[2], c[3])) THEN Left(c) ELSE Right(c)
          IN IF c[2] = c[3] THEN [t EXCEPT ![c[1]] = val]
             ELSE PulledUp(updated[<<t, half>>], c[1])
    IN updated[<<tree, Top>>]

Init == /\ n \in Sizes
        /\ arr \in [0..(n - 1) -> Numbers]
        /\ tree = Built(arr)

Update(idx, val) == /\ tree' = Updated(idx, val)
                    /\ arr' = [arr EXCEPT ![idx] = val]
                    /\ UNCHANGED n

Query(l, r) ==
    LET sum[c \in Calls] ==
          IF r < c[2] \/ c[3] < l THEN 0
          ELSE IF l <= c[2] /\ c[3] <= r THEN tree[c[1]]
          ELSE sum[Left(c)] + sum[Right(c)]
    IN sum[Top]

Next == \E idx \in 0..(n - 1), val \in Numbers : Update(idx, val)

Spec == Init /\ [][Next]_vars
-----------------------------------------------------------------------------
(* The sum of the first k elements.                                          *)
Upto(a, k) ==
    LET upto[j \in 0..n] == IF j = 0 THEN 0 ELSE upto[j - 1] + a[j - 1] IN upto[k]

(* After any updates every range sum is the sum of the array main keeps, from *)
(* the first elements up to r without those before l; an empty range sums to  *)
(* 0.  Every node in use is one of the 4n cells, or a call would end in a     *)
(* panic ("4n is safe upper bound").                                          *)
SumsTheArray == \A l, r \in 0..(n - 1) :
                   Query(l, r) = IF l <= r THEN Upto(arr, r + 1) - Upto(arr, l) ELSE 0
=============================================================================
