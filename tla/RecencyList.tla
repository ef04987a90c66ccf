------------------------------ MODULE RecencyList ------------------------------
(* What an LRU cache promises: entries in order of use, most recent first.   *)
EXTENDS Naturals, Sequences, SequencesExt

CONSTANTS Keys, Values, Capacities, None

VARIABLES capacity, recent, reply

vars == <<capacity, recent, reply>>

Init == capacity \in Capacities /\ recent = <<>> /\ reply = None

Entry(k, v) == [key |-> k, value |-> v]

(* Where the list has k: nowhere, or at one place.                           *)
Places(k) == {i \in DOMAIN recent : recent[i].key = k}

Get(k) == \/ /\ Places(k) = {} /\ reply' = None /\ UNCHANGED recent
          \/ \E i \in Places(k) : /\ reply' = recent[i].value
                                  /\ recent' = <<recent[i]>> \o RemoveAt(recent, i)

(* The least recently used entry leaves when a new key finds the cache full. *)
Put(k, v) == /\ \/ \E i \in Places(k) :
                       recent' = <<Entry(k, v)>> \o RemoveAt(recent, i)
                \/ /\ Places(k) = {} /\ (Len(recent) < capacity \/ recent = <<>>)
                   /\ recent' = <<Entry(k, v)>> \o recent
                \/ /\ Places(k) = {} /\ Len(recent) >= capacity /\ recent # <<>>
                   /\ recent' = <<Entry(k, v)>> \o RemoveAt(recent, Len(recent))
             /\ UNCHANGED reply

Delete(k) == \/ Places(k) = {} /\ reply' = FALSE /\ UNCHANGED recent
             \/ \E i \in Places(k) : reply' = TRUE /\ recent' = RemoveAt(recent, i)

Next == /\ \E k \in Keys : Get(k) \/ Delete(k) \/ \E v \in Values : Put(k, v)
        /\ UNCHANGED capacity

Spec == Init /\ [][Next]_vars
=============================================================================
