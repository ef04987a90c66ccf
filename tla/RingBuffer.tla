------------------------------ MODULE RingBuffer ------------------------------
(***************************************************************************)
(* src/09_dsa/03_ring_buffer/main.go: the lock-free single-producer        *)
(* single-consumer ring buffer, its two spinning goroutines, and a third   *)
(* one that calls Len.  Every atomic load and store and every access to a  *)
(* slot is a step of its own; what a goroutine computes from its locals    *)
(* belongs to the step before.  head and tail are unsigned counters that   *)
(* wrap at Wrap (2^64 in the code).                                        *)
(***************************************************************************)
EXTENDS Integers, FiniteSetsExt

CONSTANTS Width,      \* of a word that nextPowerOf2 takes, a power of two
          Capacity,   \* rb.capacity, what nextPowerOf2 returned
          Wrap,       \* counters are taken modulo Wrap
          Total       \* events the producer pushes

ASSUME RingAssumption ==
    /\ Capacity \in Nat \ {0} /\ Wrap \in Nat /\ Total \in Nat
    /\ Wrap % Capacity = 0 /\ Wrap > Capacity

VARIABLES
    head, tail,   \* rb.head, rb.tail
    slots,        \* rb.buffer
    ppc, pTail,   \* the producer in Push, and its local tail
    produced,     \* events it has pushed
    cpc, cHead, cItem,   \* the consumer in Pop, its local head and item
    consumed,     \* the consumer's count
    received,     \* the event it printed last
    opc, oTail, oLen     \* the observer in Len, its loaded tail, its result

producer == <<ppc, pTail, produced>>
consumer == <<cpc, cHead, cItem, consumed, received>>
observer == <<opc, oTail, oLen>>
vars == <<head, tail, slots, producer, consumer, observer>>

-----------------------------------------------------------------------------
(* nextPowerOf2, on words of Width bits (64 in the code, the shifts being  *)
(* those below the width).  A word is the set of its 1 bits.               *)
Word(x) == {b \in 0..(Width - 1) : (x \div 2^b) % 2 = 1}

Value(word) == MapThenSumSet(LAMBDA b : 2^b, word)

ShiftRight(word, s) == {b - s : b \in {c \in word : c >= s}}

Shifts == {s \in 1..(Width - 1) : \E k \in 0..Width : s = 2^k}

Smear(word, s) == word \union ShiftRight(word, s)

(* The shifts in increasing order; n-- and n + 1 are modulo 2^Width.       *)
NextPowerOf2(x) ==
    LET smeared[s \in {0} \union Shifts] ==
          IF s = 0 THEN Word(x - 1) ELSE Smear(smeared[s \div 2], s)
    IN IF x = 0 THEN 1 ELSE (Value(smeared[Width \div 2]) + 1) % 2^Width

-----------------------------------------------------------------------------
Distance(t, h) == (t - h) % Wrap

BugNoWrap(n) == n + 1

Bump(n) == (n + 1) % Wrap

Slot(n) == n % Capacity

Init == /\ head = 0 /\ tail = 0
        /\ slots = [i \in 0..(Capacity - 1) |-> 0]
        /\ ppc = "idle" /\ pTail = 0 /\ produced = 0
        /\ cpc = "idle" /\ cHead = 0 /\ cItem = 0
        /\ consumed = 0 /\ received = 0
        /\ opc = "idle" /\ oTail = 0 /\ oLen = 0

-----------------------------------------------------------------------------
(* Push.  The event pushed is number produced + 1.                         *)
PushLoadTail == /\ ppc \in {"idle", "rejected"} /\ produced < Total
                /\ pTail' = tail
                /\ ppc' = "loaded"
                /\ UNCHANGED <<head, tail, slots, produced, consumer, observer>>

BugFull == Distance(pTail, head) > Capacity

BugFullEarly == Distance(pTail, head) >= Capacity - 1

BugFullOverflows == pTail >= (head + Capacity) % Wrap

Full == Distance(pTail, head) >= Capacity

PushLoadHead == /\ ppc = "loaded"
                /\ ppc' = IF Full THEN "rejected" ELSE "write"
                /\ UNCHANGED <<head, tail, slots, pTail, produced, consumer, observer>>

PushWrite == /\ ppc = "write"
             /\ slots' = [slots EXCEPT ![Slot(pTail)] = produced + 1]
             /\ ppc' = "store"
             /\ UNCHANGED <<head, tail, pTail, produced, consumer, observer>>

PushStoreTail == /\ ppc = "store"
                 /\ tail' = Bump(pTail)
                 /\ produced' = produced + 1
                 /\ ppc' = "idle"
                 /\ UNCHANGED <<head, slots, pTail, consumer, observer>>

-----------------------------------------------------------------------------
(* Pop.  On an empty buffer it returns false and the consumer tries again. *)
PopLoadHead == /\ cpc \in {"idle", "empty"} /\ consumed < Total
               /\ cHead' = head
               /\ cpc' = "loaded"
               /\ UNCHANGED <<head, tail, slots, cItem, consumed, received,
                              producer, observer>>

BugPopIgnoresEmpty == /\ cpc = "loaded"
                      /\ cpc' = IF cHead > tail THEN "empty" ELSE "read"
                      /\ UNCHANGED <<head, tail, slots, cHead, cItem, consumed,
                                     received, producer, observer>>

BugReleasesFirst == /\ cpc = "loaded"
                    /\ cpc' = IF cHead = tail THEN "empty" ELSE "read"
                    /\ head' = IF cHead = tail THEN head ELSE Bump(cHead)
                    /\ UNCHANGED <<tail, slots, cHead, cItem, consumed, received,
                                   producer, observer>>

PopLoadTail == /\ cpc = "loaded"
               /\ cpc' = IF cHead = tail THEN "empty" ELSE "read"
               /\ UNCHANGED <<head, tail, slots, cHead, cItem, consumed, received,
                              producer, observer>>

PopRead == /\ cpc = "read"
           /\ cItem' = slots[Slot(cHead)]
           /\ cpc' = "store"
           /\ UNCHANGED <<head, tail, slots, cHead, consumed, received, producer,
                          observer>>

PopStoreHead == /\ cpc = "store"
                /\ head' = Bump(cHead)
                /\ received' = cItem
                /\ consumed' = consumed + 1
                /\ cpc' = "idle"
                /\ UNCHANGED <<tail, slots, cHead, cItem, producer, observer>>

-----------------------------------------------------------------------------
(* Len, from a goroutine that neither pushes nor pops.  The conversion to  *)
(* int makes a difference in the upper half of the range negative.         *)
AsInt(n) == IF 2 * n >= Wrap THEN n - Wrap ELSE n

LenLoadTail == /\ opc = "idle"
               /\ oTail' = tail
               /\ opc' = "loaded"
               /\ UNCHANGED <<head, tail, slots, oLen, producer, consumer>>

LenLoadHead == /\ opc = "loaded"
               /\ oLen' = AsInt(Distance(oTail, head))
               /\ opc' = "idle"
               /\ UNCHANGED <<head, tail, slots, oTail, producer, consumer>>

Push == PushLoadTail \/ PushLoadHead \/ PushWrite \/ PushStoreTail
Pop == PopLoadHead \/ PopLoadTail \/ PopRead \/ PopStoreHead
Observe == LenLoadTail \/ LenLoadHead

Next == Push \/ Pop \/ Observe

Spec == Init /\ [][Next]_vars

(* Both loops retry after a short sleep until they have handled Total      *)
(* events.                                                                 *)
FairSpec == Spec /\ WF_vars(Push) /\ WF_vars(Pop)
-----------------------------------------------------------------------------
TypeOK == /\ head \in 0..(Wrap - 1) /\ tail \in 0..(Wrap - 1)
          /\ slots \in [0..(Capacity - 1) -> 0..Total]
          /\ ppc \in {"idle", "loaded", "write", "store", "rejected"}
          /\ pTail \in 0..(Wrap - 1) /\ produced \in 0..Total
          /\ cpc \in {"idle", "loaded", "read", "store", "empty"}
          /\ cHead \in 0..(Wrap - 1) /\ cItem \in 0..Total
          /\ consumed \in 0..Total /\ received \in 0..Total
          /\ opc \in {"idle", "loaded"} /\ oTail \in 0..(Wrap - 1) /\ oLen \in Int

(* The counters never drift apart, across any number of wrap-arounds: the  *)
(* buffer holds what was pushed and not yet popped, at most Capacity.      *)
CountersAgree == /\ Distance(tail, head) = produced - consumed
                 /\ produced - consumed \in 0..Capacity

(* "No locks needed": the producer never writes the slot that the consumer *)
(* is reading.                                                             *)
NoRace == ppc = "write" /\ cpc = "read" => Slot(pTail) # Slot(cHead)

(* What the unsynchronised slot accesses rely on, at every moment.          *)
RingInv == TypeOK /\ CountersAgree /\ NoRace

(* Events arrive in the order they were pushed, none twice, none missing,  *)
(* none overwritten before it was read.                                    *)
InOrder == received = consumed

(* Push returns false only if the buffer is full when it looks at head.    *)
RejectsOnlyWhenFull ==
    [][ppc # "rejected" /\ ppc' = "rejected" => produced - consumed = Capacity]_vars

(* Both goroutines of the demo come to their end.                          *)
AllDelivered == <>(consumed = Total)

Contents == [i \in 1..Distance(tail, head) |-> slots[Slot(head + i - 1)]]

FIFO == INSTANCE BoundedFIFO WITH Items <- 1..Total, NoItem <- 0,
                                  queue <- Contents, delivered <- received

(* The buffer is a bounded FIFO queue: Push takes effect when it stores    *)
(* tail, Pop when it stores head.                                          *)
IsFIFO == FIFO!Spec

(* For every capacity up to half the range nextPowerOf2 returns the least  *)
(* power of two that holds it, so that "& mask" is "modulo capacity";      *)
(* beyond, the sum wraps and the capacity would be 0.                      *)
RoundsUp(requested) ==
    LET p == NextPowerOf2(requested)
    IN IF requested > 2^(Width - 1) THEN p = 0
       ELSE /\ p >= requested
            /\ \E k \in 0..Width : p = 2^k
            /\ \A k \in 0..Width : 2^k >= requested => p <= 2^k

-----------------------------------------------------------------------------
(* main.go:80 "Len returns the number of items currently in the buffer".   *)
LenIsACount == oLen \in 0..Capacity
=============================================================================
