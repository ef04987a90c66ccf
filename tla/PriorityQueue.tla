---------------------------- MODULE PriorityQueue ----------------------------
(* src/09_dsa/05_heap_priority_queue: the generic wrapper around            *)
(* container/heap.  heapSlice and the comparators are the program's; Up and *)
(* Down are the library's sift loops, which call Less and Swap.             *)
EXTENDS Naturals, Sequences, SequencesExt

CONSTANTS Items, Priority(_), MaxLen   \* MaxLen: items held at once (a bound)

VARIABLES heap,    \* pq.h.data
          max,     \* made by NewMaxHeap
          served   \* what the last Pop returned, none at first

vars == <<heap, max, served>>

Init == heap = <<>> /\ max \in BOOLEAN /\ served = <<>>

(* NewMaxHeap inverts the comparison.                                       *)
Before(a, b) == IF max THEN Priority(b) < Priority(a) ELSE Priority(a) < Priority(b)

Less(h, i, j) == Before(h[i + 1], h[j + 1])      \* indices from 0, as in Go

Swap(h, i, j) == [h EXCEPT ![i + 1] = h[j + 1], ![j + 1] = h[i + 1]]

(* The slices of h's length.                                                *)
Slices(h) == [DOMAIN h -> Items]

Up(h, k) ==
    LET up[at \in Slices(h) \X (0..k)] ==
          LET g == at[1]
              j == at[2]
              i == (j - 1) \div 2
          IN IF j = 0 \/ ~Less(g, j, i) THEN g ELSE up[<<Swap(g, i, j), i>>]
    IN up[<<h, k>>]

Down(h, k, n) ==
    LET down[at \in Slices(h) \X Nat] ==
          LET g == at[1]
              i == at[2]
              left == 2 * i + 1
              right == left + 1
              j == IF right < n /\ Less(g, right, left) THEN right ELSE left
          IN IF left >= n \/ ~Less(g, j, i) THEN g ELSE down[<<Swap(g, i, j), j>>]
    IN down[<<h, k>>]

Pushed(h, v) == Up(Append(h, v), Len(h))

BugPopped(h) == Front(Down(Swap(h, 0, Len(h) - 1), 0, Len(h)))

(* Pop swaps the root to the end, sifts the rest and cuts the slice.        *)
Popped(h) == LET n == Len(h) - 1 IN Front(Down(Swap(h, 0, n), 0, n))

Push(v) == /\ Len(heap) < MaxLen
           /\ heap' = Pushed(heap, v)
           /\ UNCHANGED <<max, served>>

Pop == /\ heap # <<>>
       /\ served' = <<heap[1]>>
       /\ heap' = Popped(heap)
       /\ UNCHANGED max

(* The top-K loop of main: push, and pop when there are more than K.        *)
Offer(v) == /\ Len(heap) = MaxLen
            /\ served' = <<Pushed(heap, v)[1]>>
            /\ heap' = Popped(Pushed(heap, v))
            /\ UNCHANGED max

Next == Pop \/ \E v \in Items : Push(v) \/ Offer(v)

Spec == Init /\ [][Next]_vars
-----------------------------------------------------------------------------
Times(v, s) == Cardinality({i \in DOMAIN s : s[i] = v})

(* t holds what s holds and one v more.                                     *)
OneMore(s, t, v) ==
    \A u \in Items : Times(u, t) = Times(u, s) + IF u = v THEN 1 ELSE 0

(* Whatever was pushed and popped before, Pop (and Peek, which reads        *)
(* heap[1]) yields an item that no other one precedes, and exactly that     *)
(* item leaves; nothing is lost or duplicated by the swaps.  A top-K offer  *)
(* throws out a last item of the K + 1, the new one included.               *)
ServesInOrder ==
    [][\/ \E v \in Items : OneMore(heap, heap', v)
       \/ /\ served' # <<>>
          /\ \E all \in {heap} \union {Append(heap, v) : v \in Items} :
                /\ OneMore(heap', all, served'[1])
                /\ \A i \in DOMAIN all : ~Before(all[i], served'[1])]_vars
=============================================================================
