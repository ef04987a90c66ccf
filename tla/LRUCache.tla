------------------------------- MODULE LRUCache -------------------------------
(* src/09_dsa/01_lru_cache: a map from keys to list elements beside the      *)
(* list of the elements, most recently used first.  Every method holds the  *)
(* mutex from end to end and is one step.                                   *)
EXTENDS Naturals, Sequences, SequencesExt

CONSTANTS Keys, Values, Capacities, None

VARIABLES capacity,  \* c.capacity
          items,     \* c.items, a partial function from keys to elements
          order,     \* c.order, the elements, front first
          entry,     \* the *entry of each element: its key and value
          reply      \* what the last method returned

vars == <<capacity, items, order, entry, reply>>

(* An element that is not in the list can be allocated again.              *)
Elements == 1..(Cardinality(Keys) + 1)

Init == /\ capacity \in Capacities
        /\ items = <<>> /\ order = <<>> /\ reply = None
        /\ entry = [e \in Elements |-> None]

(* order.Remove(e), e.list == order.                                       *)
Without(e) == RemoveAt(order, CHOOSE i \in DOMAIN order : order[i] = e)

MovedToFront(e) == <<e>> \o Without(e)

Get(k) == /\ IF k \in DOMAIN items
             THEN /\ order' = MovedToFront(items[k])
                  /\ reply' = entry[items[k]].value
             ELSE reply' = None /\ UNCHANGED order
          /\ UNCHANGED <<capacity, items, entry>>

BugLeavesOrder(k, v) ==
    /\ k \in DOMAIN items
    /\ entry' = [entry EXCEPT ![items[k]].value = v]
    /\ UNCHANGED <<capacity, items, order, reply>>

Overwrite(k, v) == /\ k \in DOMAIN items
                   /\ order' = MovedToFront(items[k])
                   /\ entry' = [entry EXCEPT ![items[k]].value = v]
                   /\ UNCHANGED <<capacity, items, reply>>

Full == Len(order) >= capacity

(* The elements that removeElement leaves in the map when e goes.          *)
MapWithout(e) == Restrict(items, DOMAIN items \ {entry[e].key})

(* evict drops the back of the list, if there is one: with capacity 0 the  *)
(* first Put evicts nothing and is stored all the same.                    *)
Insert(k, v) ==
    /\ k \notin DOMAIN items
    /\ LET evicts == Full /\ order # <<>>
           kept == IF evicts THEN Without(Last(order)) ELSE order
           map == IF evicts THEN MapWithout(Last(order)) ELSE items
           e == CHOOSE x \in Elements : x \notin ToSet(kept)
       IN /\ order' = <<e>> \o kept
          /\ items' = [j \in DOMAIN map \union {k} |-> IF j = k THEN e ELSE map[j]]
          /\ entry' = [entry EXCEPT ![e] = [key |-> k, value |-> v]]
    /\ UNCHANGED <<capacity, reply>>

Delete(k) == /\ reply' = (k \in DOMAIN items)
             /\ IF k \in DOMAIN items
                THEN /\ order' = Without(items[k])
                     /\ items' = MapWithout(items[k])
                ELSE UNCHANGED <<order, items>>
             /\ UNCHANGED <<capacity, entry>>

Next == \E k \in Keys : \/ Get(k) \/ Delete(k)
                        \/ \E v \in Values : Overwrite(k, v) \/ Insert(k, v)

Spec == Init /\ [][Next]_vars
-----------------------------------------------------------------------------
Contents == [i \in DOMAIN order |-> entry[order[i]]]

RL == INSTANCE RecencyList WITH recent <- Contents

(* The map and the list never come apart: whatever the operations, the     *)
(* cache behaves as a list of entries in order of use (for which a hit is  *)
(* an entry of the list), and an entry is lost to eviction only when the   *)
(* cache is full, and is then the least recently used one.                 *)
IsRecencyList == RL!Spec
=============================================================================
