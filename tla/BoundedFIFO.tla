------------------------------ MODULE BoundedFIFO ------------------------------
(* A queue of at most Capacity items: what a ring buffer is used as.         *)
EXTENDS Naturals, Sequences

CONSTANTS Capacity, Items, NoItem

VARIABLES queue, delivered   \* the items inside, and the one taken out last

vars == <<queue, delivered>>

Init == queue = <<>> /\ delivered = NoItem

Put(v) == /\ Len(queue) < Capacity
          /\ queue' = Append(queue, v)
          /\ UNCHANGED delivered

Get == /\ queue # <<>>
       /\ delivered' = Head(queue)
       /\ queue' = Tail(queue)

Next == (\E v \in Items : Put(v)) \/ Get

Spec == Init /\ [][Next]_vars
=============================================================================
