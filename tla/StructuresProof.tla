---------------------------- MODULE StructuresProof ----------------------------
(* Proofs about the data structures: the ring buffer, the LRU cache, the      *)
(* sharded map and the WebSocket frames, each for every value of its          *)
(* constants, and that the composition keeps their promises.  The priority    *)
(* queue and the trie are in TreesProof.                                      *)
EXTENDS Structures, Induction, FiniteSetTheorems, SequenceTheorems, TLAPS

-----------------------------------------------------------------------------
(* RingBuffer, for any capacity, any multiple of it at which the counters     *)
(* wrap (2^64 in the code) and any number of events.                          *)

-----------------------------------------------------------------------------
(* The remainder is what is left after a whole number of divisors, and the    *)
(* only such number below the divisor.                                        *)
LEMMA Remainder ==
  ASSUME NEW a \in Int, NEW c \in Nat \ {0}
  PROVE  /\ a % c \in 0..(c - 1)
         /\ \E q \in Int : a = q * c + (a % c)
  <1>1. a % c \in 0..(c - 1)
    OBVIOUS
  <1>2. a \div c \in Int /\ a = (a \div c) * c + (a % c)
    OBVIOUS
  <1> QED
    BY <1>1, <1>2

LEMMA AtLeastOnce ==
  ASSUME NEW k \in Int, NEW c \in Nat, k >= 1
  PROVE  k * c >= c
  <1>1. k - 1 \in Nat
    OBVIOUS
  <1>2. (k - 1) * c >= 0
    BY <1>1
  <1>3. k * c = (k - 1) * c + c
    OBVIOUS
  <1> QED
    BY <1>2, <1>3

LEMMA SameQuotient ==
  ASSUME NEW c \in Nat \ {0}, NEW q \in Int, NEW p \in Int,
         NEW r \in 0..(c - 1), NEW s \in 0..(c - 1), q * c + r = p * c + s
  PROVE  q = p /\ r = s
  <1>1. CASE q - p >= 1
    <2>1. (q - p) * c >= c
      BY <1>1, AtLeastOnce
    <2>2. (q - p) * c = q * c - p * c
      OBVIOUS
    <2>3. q * c \in Int /\ p * c \in Int
      OBVIOUS
    <2> QED
      BY <2>1, <2>2, <2>3
  <1>2. CASE p - q >= 1
    <2>1. (p - q) * c >= c
      BY <1>2, AtLeastOnce
    <2>2. (p - q) * c = p * c - q * c
      OBVIOUS
    <2>3. q * c \in Int /\ p * c \in Int
      OBVIOUS
    <2> QED
      BY <2>1, <2>2, <2>3
  <1>3. CASE q = p
    <2>1. q * c \in Int
      OBVIOUS
    <2> QED
      BY <1>3, <2>1
  <1> QED
    BY <1>1, <1>2, <1>3

LEMMA IsRemainder ==
  ASSUME NEW c \in Nat \ {0}, NEW q \in Int, NEW r \in 0..(c - 1)
  PROVE  (q * c + r) % c = r
  <1> DEFINE a == q * c + r
  <1>1. a \in Int
    OBVIOUS
  <1>2. a = q * c + r
    OBVIOUS
  <1> HIDE DEF a
  <1>3. a % c \in 0..(c - 1)
    BY <1>1, Remainder
  <1>4. PICK p \in Int : a = p * c + (a % c)
    BY <1>1, Remainder
  <1>5. a % c = r
    BY <1>2, <1>3, <1>4, SameQuotient
  <1> QED
    BY <1>5 DEF a

(* What the arithmetic of the unsigned counters comes to.                     *)
LEMMA BumpMod ==
  ASSUME NEW u \in Nat
  PROVE  Bump(u % Wrap) = (u + 1) % Wrap
  <1> DEFINE r == u % Wrap
  <1>0. Wrap \in Nat \ {0} /\ Wrap > 1
    BY RingAssumption
  <1>1. r \in 0..(Wrap - 1)
    BY <1>0, Remainder
  <1>2. PICK q \in Int : u = q * Wrap + r
    <2>1. u \in Int
      BY <1>0
    <2>2. \E i \in Int : u = i * Wrap + (u % Wrap)
      BY <1>0, <2>1, Remainder
    <2> QED
      BY <1>0, <2>2
  <1> HIDE DEF r
  <1>3. CASE r + 1 = Wrap
    <2>1. (q + 1) * Wrap = q * Wrap + Wrap /\ q * Wrap \in Int
      BY <1>0
    <2>2. u + 1 = (q + 1) * Wrap + 0
      BY <1>0, <1>1, <1>2, <1>3, <2>1
    <2>3. q + 1 \in Int /\ 0 \in 0..(Wrap - 1)
      BY <1>0
    <2>4. ((q + 1) * Wrap + 0) % Wrap = 0
      BY <1>0, <2>3, IsRemainder
    <2>5. (u + 1) % Wrap = 0
      BY <2>2, <2>4
    <2>6. (1 * Wrap + 0) % Wrap = 0
      BY <1>0, <2>3, IsRemainder
    <2>7. (r + 1) % Wrap = 0
      BY <1>0, <1>3, <2>6
    <2> QED
      BY <2>5, <2>7 DEF Bump, r
  <1>4. CASE r + 1 # Wrap
    <2>0. r + 1 \in 0..(Wrap - 1)
      BY <1>0, <1>1, <1>4
    <2>1. u + 1 = q * Wrap + (r + 1)
      BY <1>0, <1>1, <1>2
    <2>2. (q * Wrap + (r + 1)) % Wrap = r + 1
      BY <1>0, <2>0, IsRemainder
    <2>3. (0 * Wrap + (r + 1)) % Wrap = r + 1
      BY <1>0, <2>0, IsRemainder
    <2>4. (r + 1) % Wrap = r + 1
      BY <1>0, <2>0, <2>3
    <2> QED
      BY <2>1, <2>2, <2>4 DEF Bump, r
  <1> QED
    BY <1>3, <1>4

LEMMA DistanceMod ==
  ASSUME NEW m \in Nat, NEW u \in Nat, m - u \in 0..Capacity
  PROVE  Distance(m % Wrap, u % Wrap) = m - u
  <1>0. Wrap \in Nat \ {0} /\ m - u \in 0..(Wrap - 1)
    BY RingAssumption
  <1> DEFINE r == m % Wrap
             s == u % Wrap
  <1>1. r \in 0..(Wrap - 1) /\ s \in 0..(Wrap - 1)
    BY <1>0, Remainder
  <1>2. PICK q \in Int : m = q * Wrap + r
    <2>1. m \in Int
      BY <1>0
    <2>2. \E i \in Int : m = i * Wrap + (m % Wrap)
      BY <1>0, <2>1, Remainder
    <2> QED
      BY <1>0, <2>2
  <1>3. PICK p \in Int : u = p * Wrap + s
    <2>1. u \in Int
      BY <1>0
    <2>2. \E i \in Int : u = i * Wrap + (u % Wrap)
      BY <1>0, <2>1, Remainder
    <2> QED
      BY <1>0, <2>2
  <1> HIDE DEF r, s
  <1>4. (p - q) * Wrap = p * Wrap - q * Wrap
    BY <1>0
  <1>5. q * Wrap \in Int /\ p * Wrap \in Int /\ (p - q) * Wrap \in Int
    BY <1>0
  <1>6. r - s = (p - q) * Wrap + (m - u)
    BY <1>0, <1>1, <1>2, <1>3, <1>4, <1>5
  <1>7. p - q \in Int
    OBVIOUS
  <1>8. (r - s) % Wrap = m - u
    BY <1>0, <1>6, <1>7, IsRemainder
  <1> QED
    BY <1>8 DEF Distance, r, s

LEMMA SlotShift ==
  ASSUME NEW u \in Nat, NEW i \in Nat
  PROVE  Slot((u % Wrap) + i) = (u + i) % Capacity
  <1>0. Wrap \in Nat \ {0} /\ Capacity \in Nat \ {0} /\ Wrap % Capacity = 0
    BY RingAssumption
  <1> DEFINE r == u % Wrap
             s == (r + i) % Capacity
  <1>1. r \in 0..(Wrap - 1)
    BY <1>0, Remainder
  <1>2. PICK q \in Int : u = q * Wrap + r
    <2>1. u \in Int
      BY <1>0
    <2>2. \E j \in Int : u = j * Wrap + (u % Wrap)
      BY <1>0, <2>1, Remainder
    <2> QED
      BY <1>0, <2>2
  <1>3. PICK m \in Int : Wrap = m * Capacity + 0
    <2>1. Wrap \in Int
      BY <1>0
    <2>2. \E j \in Int : Wrap = j * Capacity + (Wrap % Capacity)
      BY <1>0, <2>1, Remainder
    <2> QED
      BY <1>0, <2>2
  <1> HIDE DEF r
  <1>31. r + i \in Int
    BY <1>0, <1>1
  <1>4. s \in 0..(Capacity - 1)
    BY <1>0, <1>31, Remainder
  <1>5. PICK t \in Int : r + i = t * Capacity + s
    <2>2. \E j \in Int : r + i = j * Capacity + ((r + i) % Capacity)
      BY <1>0, <1>31, Remainder
    <2> QED
      BY <1>0, <2>2
  <1> HIDE DEF s
  <1>6. q * (m * Capacity) = (q * m) * Capacity
    BY <1>0
  <1>7. (q * m) * Capacity + t * Capacity = (q * m + t) * Capacity
    BY <1>0
  <1>8. u + i = (q * m + t) * Capacity + s
    <2>1. q * Wrap \in Int /\ t * Capacity \in Int /\ q * Wrap = q * (m * Capacity)
      BY <1>0, <1>3
    <2>2. u + i = q * Wrap + (r + i)
      BY <1>0, <1>1, <1>2, <2>1
    <2>3. u + i = q * Wrap + (t * Capacity + s)
      BY <1>5, <2>2
    <2>4. q * Wrap + (t * Capacity + s) = (q * Wrap + t * Capacity) + s
      BY <1>4, <2>1
    <2> QED
      BY <1>6, <1>7, <2>1, <2>3, <2>4
  <1>9. q * m + t \in Int
    OBVIOUS
  <1>10. (u + i) % Capacity = s
    BY <1>0, <1>4, <1>8, <1>9, IsRemainder
  <1> QED
    BY <1>10 DEF Slot, r, s

LEMMA SlotMod ==
  ASSUME NEW u \in Nat
  PROVE  Slot(u % Wrap) = u % Capacity
  <1>1. Slot((u % Wrap) + 0) = (u + 0) % Capacity
    BY SlotShift
  <1>2. u % Wrap \in Int
    BY RingAssumption
  <1> QED
    BY <1>1, <1>2

LEMMA SlotsDiffer ==
  ASSUME NEW m \in Nat, NEW u \in Nat, m > u, m - u < Capacity
  PROVE  m % Capacity # u % Capacity
  <1>0. Capacity \in Nat \ {0}
    BY RingAssumption
  <1> SUFFICES ASSUME m % Capacity = u % Capacity PROVE FALSE
    OBVIOUS
  <1> DEFINE r == u % Capacity
  <1>1. r \in 0..(Capacity - 1)
    BY <1>0, Remainder
  <1>2. PICK q \in Int : m = q * Capacity + r
    <2>1. m \in Int
      BY <1>0
    <2>2. \E i \in Int : m = i * Capacity + (m % Capacity)
      BY <1>0, <2>1, Remainder
    <2> QED
      BY <1>0, <2>2
  <1>3. PICK p \in Int : u = p * Capacity + r
    <2>1. u \in Int
      BY <1>0
    <2>2. \E i \in Int : u = i * Capacity + (u % Capacity)
      BY <1>0, <2>1, Remainder
    <2> QED
      BY <1>0, <2>2
  <1> HIDE DEF r
  <1>4. (q - p) * Capacity + 0 = 0 * Capacity + (m - u)
    BY <1>0, <1>1, <1>2, <1>3
  <1>5. m - u \in 0..(Capacity - 1) /\ 0 \in 0..(Capacity - 1) /\ q - p \in Int
    BY <1>0
  <1>6. 0 = m - u
    BY <1>0, <1>4, <1>5, SameQuotient
  <1> QED
    BY <1>6

-----------------------------------------------------------------------------
(* What the two sides know of each other at every step.                       *)
Counters == /\ tail = produced % Wrap /\ head = consumed % Wrap
            /\ produced - consumed \in 0..Capacity
            /\ received = consumed

Producer == /\ ppc \in {"loaded", "write", "store"} => pTail = tail /\ produced < Total
            /\ ppc \in {"write", "store"} => produced - consumed < Capacity
            /\ ppc = "store" => slots[Slot(pTail)] = produced + 1

Consumer == /\ cpc \in {"loaded", "read", "store"} => cHead = head /\ consumed < Total
            /\ cpc \in {"read", "store"} => consumed < produced
            /\ cpc = "store" => cItem = consumed + 1

Stored == \A k \in (consumed + 1)..produced : slots[(k - 1) % Capacity] = k

IInv == TypeOK /\ Counters /\ Producer /\ Consumer /\ Stored

LEMMA InitIInv == Init => IInv
  <1> SUFFICES ASSUME Init PROVE IInv
    OBVIOUS
  <1>0. Wrap \in Nat \ {0} /\ Capacity \in Nat \ {0} /\ Total \in Nat /\ Wrap > 0
    BY RingAssumption
  <1>1. 0 % Wrap = 0
    <2>1. 0 \in Int /\ 0 \in 0..(Wrap - 1)
      BY <1>0
    <2>2. (0 * Wrap + 0) % Wrap = 0
      BY <1>0, <2>1, IsRemainder
    <2> QED
      BY <1>0, <2>2
  <1>2. TypeOK
    BY <1>0 DEF Init, TypeOK
  <1>3. Counters
    BY <1>0, <1>1 DEF Init, Counters
  <1>4. Producer /\ Consumer /\ Stored
    BY DEF Init, Producer, Consumer, Stored
  <1> QED
    BY <1>2, <1>3, <1>4 DEF IInv

(* The remainders of the counters are in the ranges of the types.             *)
LEMMA Ranges ==
  ASSUME TypeOK
  PROVE  /\ Wrap \in Nat \ {0} /\ Capacity \in Nat \ {0} /\ Total \in Nat
         /\ produced \in Nat /\ consumed \in Nat
         /\ \A u \in Nat : Slot(u) \in 0..(Capacity - 1) /\ Bump(u) \in 0..(Wrap - 1)
                           /\ u % Capacity \in 0..(Capacity - 1)
  <1>1. /\ Wrap \in Nat \ {0} /\ Capacity \in Nat \ {0} /\ Total \in Nat
        /\ produced \in Nat /\ consumed \in Nat
    BY RingAssumption DEF TypeOK
  <1>2. ASSUME NEW u \in Nat
        PROVE  /\ Slot(u) \in 0..(Capacity - 1) /\ Bump(u) \in 0..(Wrap - 1)
               /\ u % Capacity \in 0..(Capacity - 1)
    <2>1. u \in Int /\ u + 1 \in Int
      OBVIOUS
    <2>2. u % Capacity \in 0..(Capacity - 1)
      BY <1>1, <2>1, Remainder
    <2>3. (u + 1) % Wrap \in 0..(Wrap - 1)
      BY <1>1, <2>1, Remainder
    <2> QED
      BY <2>2, <2>3 DEF Slot, Bump
  <1> QED
    BY <1>1, <1>2

(* The slot of the next event to push, and of the next to pop.                *)
LEMMA SlotsInUse ==
  ASSUME IInv
  PROVE  /\ Slot(tail) = produced % Capacity
         /\ Slot(head) = consumed % Capacity
         /\ Distance(tail, head) = produced - consumed
         /\ Bump(tail) = (produced + 1) % Wrap
         /\ Bump(head) = (consumed + 1) % Wrap
         /\ tail \in Nat /\ head \in Nat
  <1>1. /\ produced \in Nat /\ consumed \in Nat /\ produced - consumed \in 0..Capacity
        /\ tail = produced % Wrap /\ head = consumed % Wrap
        /\ tail \in Nat /\ head \in Nat
    BY Ranges DEF IInv, Counters, TypeOK
  <1>2. Slot(produced % Wrap) = produced % Capacity /\ Slot(consumed % Wrap) = consumed % Capacity
    BY <1>1, SlotMod
  <1>3. Bump(produced % Wrap) = (produced + 1) % Wrap /\ Bump(consumed % Wrap) = (consumed + 1) % Wrap
    BY <1>1, BumpMod
  <1>4. Distance(produced % Wrap, consumed % Wrap) = produced - consumed
    BY <1>1, DistanceMod
  <1> QED
    BY <1>1, <1>2, <1>3, <1>4

(* The only step that is not bookkeeping: a push writes a slot that holds no  *)
(* event waiting to be popped.                                                *)
LEMMA WriteIsSafe ==
  ASSUME IInv, PushWrite
  PROVE  IInv'
  <1>1. /\ TypeOK /\ Counters /\ Producer /\ Consumer /\ Stored
        /\ produced \in Nat /\ consumed \in Nat /\ Capacity \in Nat \ {0}
        /\ pTail = tail /\ produced < Total /\ produced - consumed < Capacity
        /\ produced - consumed \in 0..Capacity
        /\ Slot(pTail) = produced % Capacity /\ Slot(pTail) \in 0..(Capacity - 1)
    BY Ranges, SlotsInUse DEF IInv, Producer, Counters, PushWrite
  <1>2. TypeOK'
    <2>1. produced + 1 \in 0..Total
      BY <1>1, Ranges
    <2>2. slots' \in [0..(Capacity - 1) -> 0..Total]
      BY <1>1, <2>1 DEF TypeOK, PushWrite
    <2> QED
      BY <1>1, <2>2 DEF TypeOK, PushWrite, consumer, observer
  <1>3. Counters'
    BY <1>1 DEF Counters, PushWrite, consumer, observer
  <1>4. Producer'
    <2>1. slots'[Slot(pTail)] = produced + 1
      BY <1>1 DEF TypeOK, PushWrite
    <2> QED
      BY <1>1, <2>1 DEF Producer, PushWrite, Slot, consumer, observer
  <1>5. Consumer'
    BY <1>1 DEF Consumer, PushWrite, consumer, observer
  <1>6. Stored'
    <2> SUFFICES ASSUME NEW k \in (consumed + 1)..produced
                 PROVE  slots'[(k - 1) % Capacity] = k
      BY DEF Stored, PushWrite, consumer, observer
    <2>1. slots[(k - 1) % Capacity] = k
      BY <1>1 DEF Stored
    <2>2. k - 1 \in Nat /\ produced > k - 1 /\ produced - (k - 1) < Capacity
      BY <1>1
    <2>3. produced % Capacity # (k - 1) % Capacity
      BY <1>1, <2>2, SlotsDiffer
    <2>4. (k - 1) % Capacity \in 0..(Capacity - 1)
      BY <1>1, <2>2, Ranges
    <2> DEFINE j == (k - 1) % Capacity
    <2>5. j \in 0..(Capacity - 1) /\ j # Slot(pTail) /\ slots[j] = k
      BY <1>1, <2>1, <2>3, <2>4
    <2> HIDE DEF j
    <2>6. slots'[j] = k
      BY <1>1, <2>5 DEF TypeOK, PushWrite
    <2> QED
      BY <2>6 DEF j
  <1> QED
    BY <1>2, <1>3, <1>4, <1>5, <1>6 DEF IInv

LEMMA StoreTailIsSafe ==
  ASSUME IInv, PushStoreTail
  PROVE  IInv'
  <1>1. /\ TypeOK /\ Counters /\ Producer /\ Consumer /\ Stored
        /\ produced \in Nat /\ consumed \in Nat /\ Capacity \in Nat \ {0} /\ Total \in Nat
        /\ pTail = tail /\ produced < Total /\ produced - consumed < Capacity
        /\ produced - consumed \in 0..Capacity
        /\ Bump(tail) = (produced + 1) % Wrap /\ Bump(tail) \in 0..(Wrap - 1)
        /\ slots[produced % Capacity] = produced + 1
    BY Ranges, SlotsInUse DEF IInv, Producer, Counters, PushStoreTail
  <1>2. TypeOK'
    BY <1>1 DEF TypeOK, PushStoreTail, consumer, observer
  <1>3. Counters'
    BY <1>1 DEF Counters, PushStoreTail, consumer, observer
  <1>4. Producer' /\ Consumer'
    BY <1>1 DEF Producer, Consumer, PushStoreTail, consumer, observer
  <1>5. Stored'
    <2> SUFFICES ASSUME NEW k \in (consumed + 1)..(produced + 1)
                 PROVE  slots[(k - 1) % Capacity] = k
      BY DEF Stored, PushStoreTail, consumer, observer
    <2>1. CASE k = produced + 1
      <3>1. k - 1 = produced
        BY <1>1, <2>1
      <3> QED
        BY <1>1, <2>1, <3>1
    <2>2. CASE k # produced + 1
      <3>1. k \in (consumed + 1)..produced
        BY <1>1, <2>2
      <3> QED
        BY <1>1, <3>1 DEF Stored
    <2> QED
      BY <2>1, <2>2
  <1> QED
    BY <1>2, <1>3, <1>4, <1>5 DEF IInv

LEMMA ReadIsSafe ==
  ASSUME IInv, PopRead
  PROVE  IInv'
  <1>1. /\ TypeOK /\ Counters /\ Producer /\ Consumer /\ Stored
        /\ produced \in Nat /\ consumed \in Nat /\ Capacity \in Nat \ {0}
        /\ cHead = head /\ consumed < produced
        /\ Slot(cHead) = consumed % Capacity
    BY Ranges, SlotsInUse DEF IInv, Consumer, PopRead
  <1>2. slots[Slot(cHead)] = consumed + 1
    <2>1. consumed + 1 \in (consumed + 1)..produced /\ (consumed + 1) - 1 = consumed
      BY <1>1
    <2>2. slots[((consumed + 1) - 1) % Capacity] = consumed + 1
      BY <1>1, <2>1 DEF Stored
    <2> QED
      BY <1>1, <2>1, <2>2
  <1>3. consumed + 1 \in 0..Total
    <2>1. produced \in 0..Total
      BY <1>1 DEF TypeOK
    <2>2. Total \in Nat
      BY RingAssumption
    <2> QED
      BY <1>1, <2>1, <2>2
  <1>4. TypeOK'
    BY <1>1, <1>2, <1>3 DEF TypeOK, PopRead, producer, observer
  <1>5. Counters' /\ Producer' /\ Stored'
    BY <1>1 DEF Counters, Producer, Stored, PopRead, producer, observer
  <1>6. Consumer'
    BY <1>1, <1>2 DEF Consumer, PopRead, producer, observer
  <1> QED
    BY <1>4, <1>5, <1>6 DEF IInv

LEMMA StoreHeadIsSafe ==
  ASSUME IInv, PopStoreHead
  PROVE  IInv'
  <1>1. /\ TypeOK /\ Counters /\ Producer /\ Consumer /\ Stored
        /\ produced \in Nat /\ consumed \in Nat /\ Capacity \in Nat \ {0} /\ Total \in Nat
        /\ cHead = head /\ consumed < Total /\ consumed < produced /\ cItem = consumed + 1
        /\ produced - consumed \in 0..Capacity
        /\ Bump(head) = (consumed + 1) % Wrap /\ Bump(head) \in 0..(Wrap - 1)
    BY Ranges, SlotsInUse DEF IInv, Consumer, Counters, PopStoreHead
  <1>2. TypeOK'
    BY <1>1 DEF TypeOK, PopStoreHead, producer, observer
  <1>3. Counters'
    BY <1>1 DEF Counters, PopStoreHead, producer, observer
  <1>4. Producer' /\ Consumer'
    BY <1>1 DEF Producer, Consumer, PopStoreHead, producer, observer
  <1>5. Stored'
    <2> SUFFICES ASSUME NEW k \in (consumed + 2)..produced
                 PROVE  slots[(k - 1) % Capacity] = k
      BY <1>1 DEF Stored, PopStoreHead, producer, observer
    <2>1. k \in (consumed + 1)..produced
      BY <1>1
    <2> QED
      BY <1>1, <2>1 DEF Stored
  <1> QED
    BY <1>2, <1>3, <1>4, <1>5 DEF IInv

(* The steps that only load: a full buffer seen through a head that is        *)
(* already older than the real one is still rejected, an admitted push stays  *)
(* admitted, because the consumer only makes room.                            *)
LEMMA LoadsAreSafe ==
  ASSUME IInv, PushLoadTail \/ PushLoadHead \/ PopLoadHead \/ PopLoadTail
               \/ LenLoadTail \/ LenLoadHead
  PROVE  IInv'
  <1>1. /\ TypeOK /\ Counters /\ Producer /\ Consumer /\ Stored
        /\ produced \in Nat /\ consumed \in Nat /\ Capacity \in Nat \ {0} /\ Wrap \in Nat \ {0}
        /\ Distance(tail, head) = produced - consumed
        /\ produced - consumed \in 0..Capacity
    BY Ranges, SlotsInUse DEF IInv, Counters
  <1>2. CASE PushLoadTail
    BY <1>1, <1>2 DEF IInv, TypeOK, Counters, Producer, Consumer, Stored, PushLoadTail,
                      consumer, observer
  <1>3. CASE PushLoadHead
    <2>1. pTail = tail /\ (ppc' = "write" => produced - consumed < Capacity)
      BY <1>1, <1>3 DEF Producer, PushLoadHead, Full
    <2> QED
      BY <1>1, <1>3, <2>1 DEF IInv, TypeOK, Counters, Producer, Consumer, Stored,
                              PushLoadHead, consumer, observer
  <1>4. CASE PopLoadHead
    BY <1>1, <1>4 DEF IInv, TypeOK, Counters, Producer, Consumer, Stored, PopLoadHead,
                      producer, observer
  <1>5. CASE PopLoadTail
    <2>1. cHead = head /\ (cpc' = "read" => produced # consumed)
      BY <1>1, <1>5 DEF Consumer, Counters, PopLoadTail
    <2> QED
      BY <1>1, <1>5, <2>1 DEF IInv, TypeOK, Counters, Producer, Consumer, Stored,
                              PopLoadTail, producer, observer
  <1>6. CASE LenLoadTail
    BY <1>1, <1>6 DEF IInv, TypeOK, Counters, Producer, Consumer, Stored, LenLoadTail,
                      producer, consumer
  <1>7. CASE LenLoadHead
    <2>1. oTail - head \in Int
      BY <1>1 DEF TypeOK
    <2>2. Distance(oTail, head) \in 0..(Wrap - 1)
      BY <1>1, <2>1, Remainder DEF Distance
    <2>3. AsInt(Distance(oTail, head)) \in Int
      BY <1>1, <2>2 DEF AsInt
    <2> QED
      BY <1>1, <1>7, <2>3 DEF IInv, TypeOK, Counters, Producer, Consumer, Stored,
                              LenLoadHead, producer, consumer
  <1> QED
    BY <1>2, <1>3, <1>4, <1>5, <1>6, <1>7

LEMMA NextIInv == IInv /\ [Next]_vars => IInv'
  <1> SUFFICES ASSUME IInv, [Next]_vars PROVE IInv'
    OBVIOUS
  <1>1. CASE Push
    BY <1>1, LoadsAreSafe, WriteIsSafe, StoreTailIsSafe DEF Push
  <1>2. CASE Pop
    BY <1>2, LoadsAreSafe, ReadIsSafe, StoreHeadIsSafe DEF Pop
  <1>3. CASE Observe
    BY <1>3, LoadsAreSafe DEF Observe
  <1>4. CASE UNCHANGED vars
    BY <1>4 DEF IInv, TypeOK, Counters, Producer, Consumer, Stored, vars, producer,
                consumer, observer
  <1> QED
    BY <1>1, <1>2, <1>3, <1>4 DEF Next

LEMMA AlwaysIInv == Spec => []IInv
  BY InitIInv, NextIInv, PTL DEF Spec

-----------------------------------------------------------------------------
(* The unsynchronised slot accesses never meet, and the wrapped counters      *)
(* always tell how many events are in the buffer: main.go's "no locks needed" *)
(* holds for every power of two and far beyond the first wrap-around.         *)
THEOREM RingSafe == Spec => []RingInv
  <1>1. IInv => RingInv
    <2> SUFFICES ASSUME IInv PROVE RingInv
      OBVIOUS
    <2>1. TypeOK /\ CountersAgree
      BY SlotsInUse DEF IInv, Counters, CountersAgree
    <2>2. NoRace
      <3> SUFFICES ASSUME ppc = "write", cpc = "read" PROVE Slot(pTail) # Slot(cHead)
        BY DEF NoRace
      <3>1. /\ produced \in Nat /\ consumed \in Nat /\ Capacity \in Nat \ {0}
            /\ pTail = tail /\ cHead = head
            /\ produced > consumed /\ produced - consumed < Capacity
        BY Ranges DEF IInv, Producer, Consumer
      <3>2. produced % Capacity # consumed % Capacity
        BY <3>1, SlotsDiffer
      <3> QED
        BY <3>1, <3>2, SlotsInUse
    <2> QED
      BY <2>1, <2>2 DEF RingInv
  <1> QED
    BY <1>1, AlwaysIInv, PTL

(* Every event is popped exactly once and in the order of the pushes.         *)
THEOREM PopsInOrder == Spec => []InOrder
  <1>1. IInv => InOrder
    BY DEF IInv, Counters, InOrder
  <1> QED
    BY <1>1, AlwaysIInv, PTL

(* Push fails only on a buffer that is full at that moment.                   *)
THEOREM RejectsWhenFull == Spec => RejectsOnlyWhenFull
  <1>1. IInv /\ [Next]_vars => [ppc # "rejected" /\ ppc' = "rejected" => produced - consumed = Capacity]_vars
    <2> SUFFICES ASSUME IInv, Next, ppc # "rejected", ppc' = "rejected"
                 PROVE  produced - consumed = Capacity
      OBVIOUS
    <2>1. PushLoadHead
      BY DEF Next, Push, Pop, Observe, PushLoadTail, PushWrite, PushStoreTail, PopLoadHead,
             PopLoadTail, PopRead, PopStoreHead, LenLoadTail, LenLoadHead, producer
    <2>2. /\ produced \in Nat /\ consumed \in Nat /\ Capacity \in Nat \ {0} /\ pTail = tail
          /\ Distance(tail, head) = produced - consumed /\ produced - consumed \in 0..Capacity
      BY <2>1, Ranges, SlotsInUse DEF IInv, Counters, Producer, PushLoadHead
    <2> QED
      BY <2>1, <2>2 DEF PushLoadHead, Full
  <1> QED
    BY <1>1, AlwaysIInv, PTL DEF Spec, RejectsOnlyWhenFull

-----------------------------------------------------------------------------
(* Refinement: the slots between head and tail hold the events not yet popped *)
(* in the order of the pushes.                                                *)
Run(c, p) == [i \in 1..(p - c) |-> c + i]

LEMMA RunIsSeq ==
  ASSUME NEW c \in Nat, NEW p \in Nat, c <= p
  PROVE  /\ Run(c, p) \in Seq(Nat) /\ Len(Run(c, p)) = p - c
         /\ \A i \in 1..(p - c) : Run(c, p)[i] = c + i
  <1>1. p - c \in Nat
    OBVIOUS
  <1>2. \A i \in 1..(p - c) : c + i \in Nat
    OBVIOUS
  <1> QED
    BY <1>1, <1>2 DEF Run

LEMMA RunGrows ==
  ASSUME NEW c \in Nat, NEW p \in Nat, c <= p
  PROVE  Run(c, p + 1) = Append(Run(c, p), p + 1)
  <1> DEFINE A == Append(Run(c, p), p + 1)
             B == Run(c, p + 1)
  <1>0. /\ Run(c, p) \in Seq(Nat) /\ Len(Run(c, p)) = p - c /\ p + 1 \in Nat /\ p - c \in Nat
        /\ \A i \in 1..(p - c) : Run(c, p)[i] = c + i
    BY RunIsSeq
  <1>1. A \in Seq(Nat) /\ Len(A) = p - c + 1
    <2>1. \A R \in Seq(Nat), u \in Nat : Append(R, u) \in Seq(Nat) /\ Len(Append(R, u)) = Len(R) + 1
      OBVIOUS
    <2> QED
      BY <1>0, <2>1
  <1>2. B \in Seq(Nat) /\ Len(B) = p - c + 1
    <2>1. p + 1 \in Nat /\ c <= p + 1 /\ (p + 1) - c = p - c + 1
      OBVIOUS
    <2> QED
      BY <2>1, RunIsSeq
  <1>3. ASSUME NEW i \in 1..(p - c + 1)
        PROVE  A[i] = B[i]
    <2>1. B[i] = c + i
      BY DEF Run
    <2>2. CASE i = p - c + 1
      <3>1. A[p - c + 1] = p + 1
        BY <1>0
      <3>2. c + (p - c + 1) = p + 1
        OBVIOUS
      <3> QED
        BY <2>1, <2>2, <3>1, <3>2
    <2>3. CASE i # p - c + 1
      <3>1. i \in 1..(p - c)
        BY <2>3
      <3>2. A[i] = Run(c, p)[i]
        BY <1>0, <3>1
      <3> QED
        BY <1>0, <2>1, <3>1, <3>2
    <2> QED
      BY <2>2, <2>3
  <1> HIDE DEF A, B
  <1>4. A = B
    BY <1>1, <1>2, <1>3
  <1> QED
    BY <1>4 DEF A, B

LEMMA RunShrinks ==
  ASSUME NEW c \in Nat, NEW p \in Nat, c < p
  PROVE  /\ Run(c, p) # <<>> /\ Head(Run(c, p)) = c + 1
         /\ Tail(Run(c, p)) = Run(c + 1, p)
  <1> DEFINE R == Run(c, p)
             B == Run(c + 1, p)
  <1>1. R \in Seq(Nat) /\ Len(R) = p - c /\ \A i \in 1..(p - c) : R[i] = c + i
    BY RunIsSeq
  <1>2. B \in Seq(Nat) /\ Len(B) = p - c - 1
    <2>1. c + 1 \in Nat /\ c + 1 <= p /\ p - (c + 1) = p - c - 1
      OBVIOUS
    <2> QED
      BY <2>1, RunIsSeq
  <1>3. \A i \in 1..(p - c - 1) : B[i] = c + 1 + i
    BY DEF Run
  <1> HIDE DEF R, B
  <1>4. R # <<>> /\ Head(R) = c + 1
    BY <1>1
  <1>5. Tail(R) \in Seq(Nat) /\ Len(Tail(R)) = p - c - 1
    BY <1>1, <1>4
  <1>6. \A i \in 1..(p - c - 1) : Tail(R)[i] = B[i]
    BY <1>1, <1>3, <1>4
  <1> DEFINE T == Tail(R)
  <1>61. T \in Seq(Nat) /\ Len(T) = p - c - 1 /\ \A i \in 1..(p - c - 1) : T[i] = B[i]
    BY <1>5, <1>6
  <1> HIDE DEF T
  <1>62. T = B
    BY <1>2, <1>61
  <1>7. Tail(R) = B
    BY <1>62 DEF T
  <1> QED
    BY <1>4, <1>7 DEF R, B

LEMMA ContentsAreRun == IInv => Contents = Run(consumed, produced)
  <1> SUFFICES ASSUME IInv PROVE Contents = Run(consumed, produced)
    OBVIOUS
  <1>1. /\ produced \in Nat /\ consumed \in Nat /\ Stored
        /\ Distance(tail, head) = produced - consumed
        /\ head = consumed % Wrap /\ head \in Nat
    BY Ranges, SlotsInUse DEF IInv, Counters
  <1>2. ASSUME NEW i \in 1..(produced - consumed)
        PROVE  slots[Slot(head + i - 1)] = consumed + i
    <2>1. i - 1 \in Nat /\ head + i - 1 = head + (i - 1)
          /\ consumed + (i - 1) = (consumed + i) - 1
      BY <1>1
    <2>2. Slot((consumed % Wrap) + (i - 1)) = (consumed + (i - 1)) % Capacity
      BY <1>1, <2>1, SlotShift
    <2>3. Slot(head + i - 1) = ((consumed + i) - 1) % Capacity
      BY <1>1, <2>1, <2>2
    <2>4. consumed + i \in (consumed + 1)..produced
      BY <1>1
    <2> QED
      BY <1>1, <2>3, <2>4 DEF Stored
  <1> QED
    BY <1>1, <1>2 DEF Contents, Run

(* Two indivisible accesses, the stores of tail and of head, are all that     *)
(* happens to the queue the ring implements; every other step is invisible.   *)
LEMMA QueueMoves ==
  ASSUME IInv, IInv', Contents = Run(consumed, produced),
         Contents' = Run(consumed', produced'), [Next]_vars
  PROVE  [FIFO!Next]_(FIFO!vars)
  <1>1. /\ produced \in Nat /\ consumed \in Nat /\ Total \in Nat
        /\ produced - consumed \in 0..Capacity /\ Capacity \in Nat \ {0}
        /\ received = consumed /\ consumed <= produced
    BY Ranges DEF IInv, Counters
  <1>2. CASE PushStoreTail
    <2>1. /\ produced' = produced + 1 /\ UNCHANGED <<consumed, received>>
          /\ produced < Total /\ produced - consumed < Capacity
      BY <1>2 DEF PushStoreTail, IInv, Producer, consumer
    <2>2. Contents' = Append(Contents, produced + 1)
      BY <1>1, <2>1, RunGrows
    <2>3. Len(Contents) < Capacity
      BY <1>1, <2>1, RunIsSeq
    <2>4. produced + 1 \in 1..Total
      BY <1>1, <2>1
    <2>5. FIFO!Put(produced + 1)
      BY <2>1, <2>2, <2>3 DEF FIFO!Put
    <2> QED
      BY <2>4, <2>5 DEF FIFO!Next
  <1>3. CASE PopStoreHead
    <2>1. /\ consumed' = consumed + 1 /\ produced' = produced
          /\ consumed < produced /\ received' = consumed + 1
      BY <1>3 DEF PopStoreHead, IInv, Consumer, producer
    <2>2. /\ Contents # <<>> /\ received' = Head(Contents)
          /\ Contents' = Tail(Contents)
      BY <1>1, <2>1, RunShrinks
    <2>3. FIFO!Get
      BY <2>2 DEF FIFO!Get
    <2> QED
      BY <2>3 DEF FIFO!Next
  <1>4. CASE /\ ~PushStoreTail /\ ~PopStoreHead
    <2>1. UNCHANGED <<produced, consumed, received>>
      BY <1>4 DEF Next, Push, Pop, Observe, PushLoadTail, PushLoadHead, PushWrite,
                  PopLoadHead, PopLoadTail, PopRead, LenLoadTail, LenLoadHead,
                  vars, producer, consumer
    <2>2. Contents' = Contents
      BY <2>1
    <2> QED
      BY <2>1, <2>2 DEF FIFO!vars
  <1> QED
    BY <1>2, <1>3, <1>4

(* For every capacity, every wrap-around of the counters and every            *)
(* interleaving of the loads and stores, the ring is a bounded FIFO queue.    *)
THEOREM ImplementsFIFO == Spec => IsFIFO
  <1>1. Init => FIFO!Init
    <2> SUFFICES ASSUME Init PROVE FIFO!Init
      OBVIOUS
    <2>1. IInv /\ consumed = 0 /\ produced = 0 /\ received = 0
      BY InitIInv DEF Init
    <2>2. Contents = Run(0, 0)
      BY <2>1, ContentsAreRun
    <2>3. Run(0, 0) = <<>>
      BY DEF Run
    <2> QED
      BY <2>1, <2>2, <2>3 DEF FIFO!Init
  <1>2. IInv' => (Contents = Run(consumed, produced))'
    BY ContentsAreRun, PTL
  <1>3. IInv /\ IInv' /\ [Next]_vars => [FIFO!Next]_(FIFO!vars)
    BY <1>2, ContentsAreRun, QueueMoves
  <1> QED
    BY <1>1, <1>3, AlwaysIInv, PTL DEF Spec, IsFIFO, FIFO!Spec

-----------------------------------------------------------------------------
(* ShardedMap, for any keys, any number of shards and any hash function.      *)
LEMMA ShardedAssumption ==
  /\ Shards \in Nat \ {0} /\ Hashes \subseteq Nat /\ IsFiniteSet(MapKeys)
  /\ \A S : SM!Cardinality(S) = Cardinality(S)
  <1>1. \A S : SM!Cardinality(S) = Cardinality(S)
    BY DEF SM!Cardinality, Cardinality
  <1>2. Shards \in Nat \ {0} /\ Hashes \subseteq Nat /\ IsFiniteSet(MapKeys)
    BY StructuresAssumption
  <1> QED
    BY <1>1, <1>2

MapTypeOK == /\ hashFn \in [MapKeys -> Hashes] /\ DOMAIN shards = 0..(Shards - 1)
             /\ pos \in 0..Shards /\ keys \subseteq MapKeys /\ total \in Nat

(* A key lives in the shard of its hash and nowhere else.                     *)
AtHome == \A i \in 0..(Shards - 1) : \A k \in DOMAIN shards[i] :
             k \in MapKeys /\ SM!ShardOf(k) = i

(* What the walk so far has to do with the map: its moments include this one; *)
(* what stayed through all of them and lives in a shard already visited is    *)
(* collected, and all that is collected was there and lives in such a shard,  *)
(* which is why the next shard adds only new keys to the total.               *)
MapInv == /\ MapTypeOK /\ AtHome
          /\ pos < Shards => SM!Present \in moments
          /\ keys \subseteq SM!During
          /\ \A k \in SM!Since : SM!ShardOf(k) < pos => k \in keys
          /\ \A k \in keys : SM!ShardOf(k) < pos
          /\ total = Cardinality(keys)

LEMMA ShardOfRange ==
  ASSUME hashFn \in [MapKeys -> Hashes], NEW k \in MapKeys
  PROVE  SM!ShardOf(k) \in 0..(Shards - 1)
  <1>1. hashFn[k] \in Nat /\ Shards \in Nat \ {0}
    BY ShardedAssumption
  <1>2. \A a \in Int : a % Shards \in 0..(Shards - 1)
    BY <1>1, Remainder
  <1> QED
    BY <1>1, <1>2 DEF SM!ShardOf

(* Present, key by key.                                                       *)
LEMMA WhereKeysLive ==
  ASSUME DOMAIN shards = 0..(Shards - 1), AtHome, hashFn \in [MapKeys -> Hashes]
  PROVE  \A k : k \in SM!Present <=> k \in MapKeys /\ k \in DOMAIN shards[SM!ShardOf(k)]
  <1> SUFFICES ASSUME NEW k
               PROVE  k \in SM!Present <=> k \in MapKeys /\ k \in DOMAIN shards[SM!ShardOf(k)]
    OBVIOUS
  <1>1. k \in SM!Present <=> \E i \in 0..(Shards - 1) : k \in DOMAIN shards[i]
    BY DEF SM!Present
  <1>2. ASSUME NEW i \in 0..(Shards - 1), k \in DOMAIN shards[i]
        PROVE  k \in MapKeys /\ k \in DOMAIN shards[SM!ShardOf(k)]
    BY <1>2 DEF AtHome
  <1>3. k \in MapKeys => SM!ShardOf(k) \in 0..(Shards - 1)
    BY ShardOfRange
  <1> QED
    BY <1>1, <1>2, <1>3

LEMMA MapInitInv == SM!Init => MapInv
  <1> SUFFICES ASSUME SM!Init PROVE MapInv
    OBVIOUS
  <1> USE DEF SM!Init
  <1>1. /\ Shards \in Nat \ {0} /\ Cardinality({}) = 0
    BY ShardedAssumption, FS_EmptySet
  <1>2. \A i \in 0..(Shards - 1) : DOMAIN shards[i] = {}
    OBVIOUS
  <1>3. MapTypeOK
    BY <1>1 DEF MapTypeOK
  <1>4. AtHome /\ SM!Present = {}
    BY <1>2 DEF AtHome, SM!Present
  <1> QED
    BY <1>1, <1>3, <1>4 DEF MapInv, SM!Since, SM!During

(* An operation of another goroutine changes what its key's shard holds, for  *)
(* that key and no other.                                                     *)
LEMMA OneKeyChanges ==
  ASSUME MapInv, MapTypeOK', NEW k \in MapKeys, hashFn' = hashFn,
         NEW gone \in BOOLEAN,
         \A i \in 0..(Shards - 1) :
            DOMAIN shards'[i] = IF i # SM!ShardOf(k) THEN DOMAIN shards[i]
                                ELSE IF gone THEN DOMAIN shards[i] \ {k}
                                ELSE DOMAIN shards[i] \union {k}
  PROVE  /\ AtHome'
         /\ \A j : j \in SM!Present' <=> IF j = k THEN ~gone ELSE j \in SM!Present
  <1>0. MapTypeOK /\ AtHome
    BY DEF MapInv
  <1>1. SM!ShardOf(k) \in 0..(Shards - 1) /\ \A j : SM!ShardOf(j)' = SM!ShardOf(j)
    BY <1>0, ShardOfRange DEF MapTypeOK, SM!ShardOf
  <1>2. AtHome'
    <2> SUFFICES ASSUME NEW i \in 0..(Shards - 1), NEW j \in DOMAIN shards'[i]
                 PROVE  j \in MapKeys /\ SM!ShardOf(j)' = i
      BY DEF AtHome
    <2>1. j \in DOMAIN shards[i] \/ (j = k /\ i = SM!ShardOf(k))
      OBVIOUS
    <2> QED
      BY <1>0, <1>1, <2>1 DEF AtHome
  <1>3. \A j : j \in SM!Present' <=> \E i \in 0..(Shards - 1) : j \in DOMAIN shards'[i]
    BY DEF SM!Present, MapTypeOK
  <1>4. \A j : j \in SM!Present <=> \E i \in 0..(Shards - 1) : j \in DOMAIN shards[i]
    BY <1>0 DEF SM!Present, MapTypeOK
  <1>5. \A i \in 0..(Shards - 1) : k \in DOMAIN shards[i] => i = SM!ShardOf(k)
    BY <1>0 DEF AtHome
  <1>6. ASSUME NEW j PROVE j \in SM!Present' <=> IF j = k THEN ~gone ELSE j \in SM!Present
    <2>1. CASE j = k
      BY <1>1, <1>3, <1>5, <2>1
    <2>2. CASE j # k
      BY <1>3, <1>4, <2>2
    <2> QED
      BY <2>1, <2>2
  <1> QED
    BY <1>2, <1>6

(* The moments of a walk only grow as long as it goes on.                     *)
LEMMA WitnessedKeeps ==
  ASSUME MapInv, MapTypeOK', AtHome', SM!Witnessed, UNCHANGED <<hashFn, pos, keys, total>>
  PROVE  MapInv'
  <1>1. \A k : SM!ShardOf(k)' = SM!ShardOf(k)
    BY DEF SM!ShardOf
  <1>2. moments \subseteq moments' /\ (pos' < Shards => SM!Present' \in moments')
    BY DEF SM!Witnessed
  <1>3. SM!Since' \subseteq SM!Since /\ SM!During \subseteq SM!During'
    BY <1>2 DEF SM!Since, SM!During
  <1> QED
    BY <1>1, <1>2, <1>3 DEF MapInv

LEMMA SetKeepsMap ==
  ASSUME MapInv, NEW k \in MapKeys, NEW v \in MapValues, SM!Set(k, v)
  PROVE  MapInv'
  <1> USE DEF SM!Set
  <1>0. MapTypeOK
    BY DEF MapInv
  <1>1. MapTypeOK'
    BY <1>0 DEF MapTypeOK
  <1>2. SM!ShardOf(k) \in 0..(Shards - 1) /\ \A j : SM!ShardOf(j)' = SM!ShardOf(j)
    BY <1>0, ShardOfRange DEF MapTypeOK, SM!ShardOf
  <1>3. \A i \in 0..(Shards - 1) :
           DOMAIN shards'[i] = IF i # SM!ShardOf(k) THEN DOMAIN shards[i]
                               ELSE DOMAIN shards[i] \union {k}
    BY <1>0, <1>2 DEF MapTypeOK
  <1>4. /\ AtHome'
        /\ \A j : j \in SM!Present' <=> IF j = k THEN ~FALSE ELSE j \in SM!Present
    BY <1>1, <1>3, OneKeyChanges
  <1> QED
    BY <1>1, <1>4, WitnessedKeeps

LEMMA DeleteKeepsMap ==
  ASSUME MapInv, NEW k \in MapKeys, SM!Delete(k)
  PROVE  MapInv'
  <1> USE DEF SM!Delete
  <1>0. MapTypeOK
    BY DEF MapInv
  <1>1. MapTypeOK'
    BY <1>0 DEF MapTypeOK
  <1>2. SM!ShardOf(k) \in 0..(Shards - 1) /\ \A j : SM!ShardOf(j)' = SM!ShardOf(j)
    BY <1>0, ShardOfRange DEF MapTypeOK, SM!ShardOf
  <1>3. \A i \in 0..(Shards - 1) :
           DOMAIN shards'[i] = IF i # SM!ShardOf(k) THEN DOMAIN shards[i]
                               ELSE DOMAIN shards[i] \ {k}
    BY <1>0, <1>2 DEF MapTypeOK, SM!Restrict
  <1>4. /\ AtHome'
        /\ \A j : j \in SM!Present' <=> IF j = k THEN ~TRUE ELSE j \in SM!Present
    BY <1>1, <1>3, OneKeyChanges
  <1> QED
    BY <1>1, <1>4, WitnessedKeeps

LEMMA WalkBeginsKeepsMap == ASSUME MapInv, SM!WalkBegins PROVE MapInv'
  <1> USE DEF SM!WalkBegins
  <1>0. MapTypeOK /\ AtHome /\ Shards \in Nat \ {0} /\ Cardinality({}) = 0
    BY ShardedAssumption, FS_EmptySet DEF MapInv
  <1>1. MapTypeOK' /\ AtHome' /\ SM!Present' = SM!Present
    BY <1>0 DEF MapTypeOK, AtHome, SM!ShardOf, SM!Present
  <1>2. \A k \in SM!Present : SM!ShardOf(k)' = SM!ShardOf(k) /\ SM!ShardOf(k) \in Nat
    BY <1>0, WhereKeysLive, ShardOfRange DEF MapTypeOK, SM!ShardOf
  <1>3. SM!Since' \subseteq SM!Present' /\ SM!Present' \in moments'
    BY <1>1 DEF SM!Since
  <1> QED
    BY <1>0, <1>1, <1>2, <1>3 DEF MapInv

LEMMA WalkShardKeepsMap == ASSUME MapInv, SM!WalkShard PROVE MapInv'
  <1> USE DEF SM!WalkShard
  <1> DEFINE here == DOMAIN shards[pos]
  <1>0. MapTypeOK /\ AtHome /\ Shards \in Nat \ {0} /\ pos \in 0..(Shards - 1) /\ pos' = pos + 1
    BY ShardedAssumption DEF MapInv, MapTypeOK
  <1>1. here \subseteq MapKeys /\ \A k \in here : SM!ShardOf(k) = pos
    BY <1>0 DEF AtHome
  <1>2. IsFiniteSet(here) /\ IsFiniteSet(keys) /\ Cardinality(here) \in Nat
    BY <1>0, <1>1, ShardedAssumption, FS_Subset, FS_CardinalityType DEF MapTypeOK
  <1>3. \A k \in MapKeys : SM!ShardOf(k)' = SM!ShardOf(k) /\ SM!ShardOf(k) \in Nat
    BY <1>0, ShardOfRange DEF MapTypeOK, SM!ShardOf
  <1>4. keys \intersect here = {}
    BY <1>0, <1>1 DEF MapInv
  <1> HIDE DEF here
  <1>5. /\ Cardinality(keys \union here) = Cardinality(keys) + Cardinality(here)
                                            - Cardinality(keys \intersect here)
        /\ Cardinality(keys \intersect here) = 0 /\ Cardinality(keys) \in Nat
    BY <1>2, <1>4, FS_Union, FS_EmptySet, FS_CardinalityType
  <1>6. keys' = keys \union here /\ total' = total + Cardinality(here)
    BY ShardedAssumption DEF here
  <1>7. total' = Cardinality(keys')
    <2>1. total = Cardinality(keys)
      BY DEF MapInv
    <2>2. Cardinality(keys \union here) = Cardinality(keys) + Cardinality(here)
      BY <1>2, <1>5
    <2> QED
      BY <1>6, <2>1, <2>2
  <1>8. MapTypeOK' /\ AtHome' /\ SM!Present' = SM!Present
    BY <1>0, <1>1, <1>2, <1>6 DEF MapTypeOK, AtHome, SM!ShardOf, SM!Present
  <1>9. keys' \subseteq SM!During'
    <2>1. SM!Present \in moments /\ moments' = moments
      BY <1>0 DEF MapInv
    <2>2. here \subseteq SM!Present
      BY <1>0 DEF MapTypeOK, SM!Present, here
    <2> QED
      BY <1>6, <2>1, <2>2 DEF MapInv, SM!During
  <1>10. \A k \in SM!Since' : SM!ShardOf(k)' < pos' => k \in keys'
    <2> SUFFICES ASSUME NEW k \in SM!Since, SM!ShardOf(k)' < pos + 1 PROVE k \in keys'
      BY <1>0 DEF SM!Since
    <2>0. k \in SM!Present
      BY <1>0 DEF MapInv, SM!Since
    <2>1. k \in MapKeys /\ k \in DOMAIN shards[SM!ShardOf(k)]
      BY <1>0, <2>0, WhereKeysLive DEF MapTypeOK
    <2>2. SM!ShardOf(k) < pos \/ SM!ShardOf(k) = pos
      BY <1>0, <1>3, <2>1
    <2> QED
      BY <1>6, <2>1, <2>2 DEF MapInv, here
  <1>11. \A k \in keys' : SM!ShardOf(k)' < pos'
    BY <1>0, <1>1, <1>3, <1>6 DEF MapInv, MapTypeOK
  <1> QED
    BY <1>7, <1>8, <1>9, <1>10, <1>11 DEF MapInv

LEMMA MapNextInv == MapInv /\ [SM!Next]_(SM!vars) => MapInv'
  <1> SUFFICES ASSUME MapInv, [SM!Next]_(SM!vars) PROVE MapInv'
    OBVIOUS
  <1>1. CASE UNCHANGED SM!vars
    BY <1>1 DEF SM!vars, MapInv, MapTypeOK, AtHome, SM!ShardOf, SM!Present, SM!Since, SM!During
  <1> QED
    BY <1>1, SetKeepsMap, DeleteKeepsMap, WalkBeginsKeepsMap, WalkShardKeepsMap DEF SM!Next

(* A walk that overlaps any operations on any shards misses nothing that      *)
(* stayed, invents nothing and counts nothing twice.                          *)
THEOREM WalksAreRegular == SM!Spec => []WalkIsRegular
  <1>1. MapInv => WalkIsRegular
    <2> SUFFICES ASSUME MapInv, pos = Shards
                 PROVE  /\ SM!Since \subseteq keys /\ keys \subseteq SM!During
                        /\ total = Cardinality(keys)
      BY ShardedAssumption DEF WalkIsRegular, SM!WalkIsRegular
    <2>1. \A k \in SM!Since : SM!ShardOf(k) < pos
      BY ShardedAssumption, ShardOfRange DEF MapInv, MapTypeOK, SM!Since
    <2> QED
      BY <2>1 DEF MapInv
  <1> QED
    BY <1>1, MapInitInv, MapNextInv, PTL DEF SM!Spec
-----------------------------------------------------------------------------
(* Sequences, place by place: an element taken out, one put in front.         *)
LEMMA TakenOut ==
  ASSUME NEW S, NEW s \in Seq(S), NEW i \in 1..Len(s)
  PROVE  /\ RemoveAt(s, i) \in Seq(S) /\ Len(RemoveAt(s, i)) = Len(s) - 1
         /\ \A j \in 1..(Len(s) - 1) :
               RemoveAt(s, i)[j] = IF j < i THEN s[j] ELSE s[j + 1]
  <1> DEFINE front == SubSeq(s, 1, i - 1)
             back == SubSeq(s, i + 1, Len(s))
  <1>1. /\ front \in Seq(S) /\ Len(front) = i - 1
        /\ \A j \in 1..(i - 1) : front[j] = s[j]
    <2>1. \A j \in 1..(i - 1) : s[j] \in S /\ 1 + j - 1 = j
      OBVIOUS
    <2>2. 1 \in Int /\ i - 1 \in Int /\ (i - 1) - 1 + 1 = i - 1
      OBVIOUS
    <2> QED
      BY <2>1, <2>2, SubSeqProperties
  <1>2. /\ back \in Seq(S) /\ Len(back) = Len(s) - i
        /\ \A j \in 1..(Len(s) - i) : back[j] = s[i + j]
    <2> DEFINE a == i + 1
               b == Len(s)
    <2>1. /\ a \in Int /\ b \in Int /\ \A j \in a..b : s[j] \in S
          /\ b - a + 1 = b - i /\ (a <= b \/ b - i = 0)
          /\ \A j \in 1..(b - i) : a + j - 1 = i + j
      OBVIOUS
    <2> HIDE DEF a, b
    <2>2. /\ SubSeq(s, a, b) \in Seq(S)
          /\ Len(SubSeq(s, a, b)) = IF a <= b THEN b - a + 1 ELSE 0
          /\ \A j \in 1..(b - a + 1) : SubSeq(s, a, b)[j] = s[a + j - 1]
      BY <2>1, SubSeqProperties
    <2>3. back = SubSeq(s, a, b) /\ b = Len(s)
      BY DEF a, b
    <2> HIDE DEF back
    <2> QED
      BY <2>1, <2>2, <2>3
  <1> HIDE DEF front, back
  <1>3. /\ front \o back \in Seq(S) /\ Len(front \o back) = Len(s) - 1
        /\ \A j \in 1..(Len(s) - 1) :
              (front \o back)[j] = IF j < i THEN front[j] ELSE back[j - (i - 1)]
    <2>1. Len(front) + Len(back) = Len(s) - 1 /\ \A j \in Int : j <= i - 1 <=> j < i
      BY <1>1, <1>2
    <2>2. /\ front \o back \in Seq(S) /\ Len(front \o back) = Len(front) + Len(back)
          /\ \A j \in 1..(Len(front) + Len(back)) :
                (front \o back)[j] = IF j <= Len(front) THEN front[j]
                                     ELSE back[j - Len(front)]
      BY <1>1, <1>2, ConcatProperties
    <2> QED
      BY <1>1, <2>1, <2>2
  <1>4. ASSUME NEW j \in 1..(Len(s) - 1)
        PROVE  (front \o back)[j] = IF j < i THEN s[j] ELSE s[j + 1]
    <2>1. CASE j < i
      BY <1>1, <1>3, <2>1
    <2>2. CASE ~ (j < i)
      <3>1. j - (i - 1) \in 1..(Len(s) - i) /\ i + (j - (i - 1)) = j + 1
        BY <2>2
      <3> QED
        BY <1>2, <1>3, <2>2, <3>1
    <2> QED
      BY <2>1, <2>2
  <1> QED
    BY <1>3, <1>4 DEF RemoveAt, front, back

LEMMA PutInFront ==
  ASSUME NEW S, NEW s \in Seq(S), NEW e \in S
  PROVE  /\ <<e>> \o s \in Seq(S) /\ Len(<<e>> \o s) = Len(s) + 1
         /\ \A j \in 1..(Len(s) + 1) : (<<e>> \o s)[j] = IF j = 1 THEN e ELSE s[j - 1]
  <1>1. <<e>> \in Seq(S) /\ Len(<<e>>) = 1 /\ <<e>>[1] = e
    OBVIOUS
  <1>2. /\ <<e>> \o s \in Seq(S) /\ Len(<<e>> \o s) = 1 + Len(s)
        /\ \A j \in 1..(1 + Len(s)) :
              (<<e>> \o s)[j] = IF j <= 1 THEN <<e>>[j] ELSE s[j - 1]
    BY <1>1, ConcatProperties
  <1> QED
    BY <1>1, <1>2

-----------------------------------------------------------------------------
(* LRUCache, for any keys, values and capacities.                             *)
CacheEntries == [key : Keys, value : Values]

(* What ties the list o, the map m and the entries en together: the list has  *)
(* no element twice, each of its entries is in the map under its own key, and *)
(* the map leads to nothing else.                                             *)
Linked(o, m, en) ==
    /\ o \in Seq(LRU!Elements) /\ DOMAIN m \subseteq Keys
    /\ \A i, j \in 1..Len(o) : o[i] = o[j] => i = j
    /\ \A i \in 1..Len(o) : /\ en[o[i]] \in CacheEntries
                            /\ en[o[i]].key \in DOMAIN m /\ m[en[o[i]].key] = o[i]
    /\ \A k \in DOMAIN m : \E i \in 1..Len(o) : o[i] = m[k] /\ en[o[i]].key = k

CacheInv == /\ capacity \in Capacities
            /\ entry \in [LRU!Elements -> CacheEntries \union {None}]
            /\ Linked(order, items, entry)

(* The entries of a list of elements.                                         *)
EntriesOf(o, en) == [i \in DOMAIN o |-> en[o[i]]]

LEMMA EntriesAreSeq ==
  ASSUME NEW o, NEW m, NEW en, Linked(o, m, en)
  PROVE  /\ EntriesOf(o, en) \in Seq(CacheEntries) /\ Len(EntriesOf(o, en)) = Len(o)
         /\ DOMAIN o = 1..Len(o) /\ Len(o) \in Nat
         /\ \A i \in 1..Len(o) : EntriesOf(o, en)[i] = en[o[i]]
  <1>1. DOMAIN o = 1..Len(o) /\ Len(o) \in Nat
    BY DEF Linked
  <1>2. \A i \in 1..Len(o) : en[o[i]] \in CacheEntries
    BY DEF Linked
  <1> QED
    BY <1>1, <1>2 DEF EntriesOf

LEMMA LinkedWithout ==
  ASSUME NEW o, NEW m, NEW en, Linked(o, m, en), NEW i \in 1..Len(o),
         NEW c, c = Restrict(m, DOMAIN m \ {en[o[i]].key})
  PROVE  /\ Linked(RemoveAt(o, i), c, en)
         /\ EntriesOf(RemoveAt(o, i), en) = RemoveAt(EntriesOf(o, en), i)
  <1> DEFINE p == RemoveAt(o, i)
             l == Len(o)
  <1>0. o \in Seq(LRU!Elements) /\ l \in Nat
    BY DEF Linked
  <1>1. /\ p \in Seq(LRU!Elements) /\ Len(p) = l - 1
        /\ \A j \in 1..(l - 1) : p[j] = IF j < i THEN o[j] ELSE o[j + 1]
    BY <1>0, TakenOut
  <1>2. DOMAIN c = DOMAIN m \ {en[o[i]].key} /\ \A k \in DOMAIN c : c[k] = m[k]
    BY DEF Restrict
  <1> HIDE DEF p
  <1>3. \A j \in 1..(l - 1) : p[j] = o[j] \/ p[j] = o[j + 1]
    BY <1>1
  <1>4. \A j \in 1..(l - 1) : \E h \in 1..l : h # i /\ p[j] = o[h]
    <2> SUFFICES ASSUME NEW j \in 1..(l - 1) PROVE \E h \in 1..l : h # i /\ p[j] = o[h]
      OBVIOUS
    <2>1. CASE j < i
      BY <1>0, <1>1, <2>1
    <2>2. CASE ~ (j < i)
      <3>1. j + 1 \in 1..l /\ j + 1 # i
        BY <1>0, <2>2
      <3> QED
        BY <1>1, <2>2, <3>1
    <2> QED
      BY <2>1, <2>2
  <1>5. ASSUME NEW j \in 1..(l - 1), NEW h \in 1..(l - 1), p[j] = p[h] PROVE j = h
    <2>1. PICK a \in 1..l : a = (IF j < i THEN j ELSE j + 1)
      BY <1>0
    <2>2. PICK b \in 1..l : b = (IF h < i THEN h ELSE h + 1)
      BY <1>0
    <2>3. p[j] = o[a] /\ p[h] = o[b]
      BY <1>1, <2>1, <2>2
    <2>4. a = b
      <3>1. \A x, y \in 1..l : o[x] = o[y] => x = y
        BY DEF Linked
      <3>2. o[a] = o[b]
        BY <1>5, <2>3
      <3> QED
        BY <3>1, <3>2
    <2> QED
      BY <1>0, <2>1, <2>2, <2>4
  <1>6. ASSUME NEW j \in 1..(l - 1)
        PROVE  /\ en[p[j]] \in CacheEntries
               /\ en[p[j]].key \in DOMAIN c /\ c[en[p[j]].key] = p[j]
    <2>1. PICK h \in 1..l : h # i /\ p[j] = o[h]
      BY <1>4
    <2>2. o[h] # o[i]
      BY <1>0, <2>1 DEF Linked
    <2>3. /\ en[o[h]] \in CacheEntries /\ en[o[h]].key \in DOMAIN m /\ m[en[o[h]].key] = o[h]
          /\ m[en[o[i]].key] = o[i]
      BY <1>0 DEF Linked
    <2>4. en[o[h]].key # en[o[i]].key
      BY <2>2, <2>3
    <2> QED
      BY <1>2, <2>1, <2>3, <2>4
  <1>7. ASSUME NEW k \in DOMAIN c
        PROVE  \E j \in 1..(l - 1) : p[j] = c[k] /\ en[p[j]].key = k
    <2>1. PICK h \in 1..l : o[h] = m[k] /\ en[o[h]].key = k
      BY <1>0, <1>2 DEF Linked
    <2>2. h # i
      BY <1>2, <2>1
    <2>3. CASE h < i
      <3>1. h \in 1..(l - 1) /\ p[h] = o[h]
        BY <1>0, <1>1, <2>3
      <3> QED
        BY <1>2, <2>1, <3>1
    <2>4. CASE ~ (h < i)
      <3>1. h - 1 \in 1..(l - 1) /\ ~ (h - 1 < i) /\ h - 1 + 1 = h
        BY <1>0, <2>2, <2>4
      <3>2. p[h - 1] = o[h]
        BY <1>1, <3>1
      <3> QED
        BY <1>2, <2>1, <3>1, <3>2
    <2> QED
      BY <2>3, <2>4
  <1>8. Linked(p, c, en)
    <2>1. DOMAIN c \subseteq Keys
      BY <1>2 DEF Linked
    <2> QED
      BY <1>1, <1>5, <1>6, <1>7, <2>1 DEF Linked
  <1>9. EntriesOf(p, en) = RemoveAt(EntriesOf(o, en), i)
    <2> DEFINE a == EntriesOf(p, en)
               b == RemoveAt(EntriesOf(o, en), i)
               t == EntriesOf(o, en)
    <2>1. /\ a \in Seq(CacheEntries) /\ Len(a) = l - 1
          /\ \A j \in 1..(l - 1) : a[j] = en[p[j]]
      BY <1>1, <1>8, EntriesAreSeq
    <2>2. /\ t \in Seq(CacheEntries) /\ Len(t) = l
          /\ \A j \in 1..l : t[j] = en[o[j]]
      BY EntriesAreSeq
    <2> HIDE DEF a, t
    <2>3. /\ b \in Seq(CacheEntries) /\ Len(b) = l - 1
          /\ \A j \in 1..(l - 1) : b[j] = IF j < i THEN t[j] ELSE t[j + 1]
      BY <2>2, TakenOut DEF t
    <2> HIDE DEF b
    <2>4. \A j \in 1..(l - 1) : a[j] = b[j]
      <3> SUFFICES ASSUME NEW j \in 1..(l - 1) PROVE a[j] = b[j]
        OBVIOUS
      <3>1. j \in 1..l /\ j + 1 \in 1..l
        BY <1>0
      <3> QED
        BY <1>1, <2>1, <2>2, <2>3, <3>1
    <2>5. a = b
      BY <2>1, <2>3, <2>4, SeqEqual
    <2> QED
      BY <2>5 DEF a, b
  <1> QED
    BY <1>8, <1>9 DEF p

(* The map with one more key, the entries with another one for an element.    *)
MapWith(m, k, e) == [j \in DOMAIN m \union {k} |-> IF j = k THEN e ELSE m[j]]

EntriesWith(en, e, w) == [en EXCEPT ![e] = w]

InFront(e, s) == <<e>> \o s

Fresh(o, e) == \A i \in 1..Len(o) : o[i] # e

(* e may be linked into the list with the entry w of the key k.               *)
Unlinked(o, m, en, e, k, w) ==
    /\ Linked(o, m, en) /\ DOMAIN en = LRU!Elements
    /\ e \in LRU!Elements /\ Fresh(o, e)
    /\ w \in CacheEntries /\ w.key = k /\ k \notin DOMAIN m

(* A free element put in front with a new entry.                              *)
LEMMA LinkedWith ==
  ASSUME NEW o, NEW m, NEW en, NEW e, NEW k, NEW w, Unlinked(o, m, en, e, k, w)
  PROVE  /\ Linked(InFront(e, o), MapWith(m, k, e), EntriesWith(en, e, w))
         /\ EntriesOf(InFront(e, o), EntriesWith(en, e, w)) = InFront(w, EntriesOf(o, en))
  <1> DEFINE p == <<e>> \o o
             l == Len(o)
             c == MapWith(m, k, e)
             fe == EntriesWith(en, e, w)
  <1> USE DEF Unlinked
  <1>0. o \in Seq(LRU!Elements) /\ l \in Nat /\ w \in CacheEntries /\ w.key = k /\ k \in Keys
    BY DEF Linked, CacheEntries
  <1>1. /\ p \in Seq(LRU!Elements) /\ Len(p) = l + 1
        /\ \A j \in 1..(l + 1) : p[j] = IF j = 1 THEN e ELSE o[j - 1]
    BY <1>0, PutInFront
  <1>2. fe[e] = w /\ \A i \in 1..l : fe[o[i]] = en[o[i]]
    BY <1>0 DEF EntriesWith, Fresh
  <1>21. /\ DOMAIN c = DOMAIN m \union {k} /\ c[k] = e
         /\ \A q \in DOMAIN m : c[q] = m[q]
    BY <1>0 DEF MapWith
  <1>22. k \notin DOMAIN m /\ \A i \in 1..l : o[i] # e
    BY DEF Fresh
  <1> HIDE DEF p, c, fe
  <1>3. \A j \in 1..(l + 1) : j # 1 => j - 1 \in 1..l
    BY <1>0
  <1>31. \A j \in 1..l : j + 1 \in 1..(l + 1) /\ j + 1 # 1 /\ j + 1 - 1 = j
    BY <1>0
  <1>4. ASSUME NEW j \in 1..(l + 1), NEW h \in 1..(l + 1), p[j] = p[h] PROVE j = h
    <2>1. CASE j = 1 \/ h = 1
      BY <1>1, <1>22, <1>3, <1>4, <2>1
    <2>2. CASE j # 1 /\ h # 1
      <3>1. o[j - 1] = o[h - 1] /\ j - 1 \in 1..l /\ h - 1 \in 1..l
        BY <1>1, <1>3, <1>4, <2>2
      <3>2. j - 1 = h - 1
        BY <3>1 DEF Linked
      <3> QED
        BY <3>2
    <2> QED
      BY <2>1, <2>2
  <1>5. ASSUME NEW j \in 1..(l + 1)
        PROVE  /\ fe[p[j]] \in CacheEntries
               /\ fe[p[j]].key \in DOMAIN c /\ c[fe[p[j]].key] = p[j]
    <2>1. CASE j = 1
      BY <1>0, <1>1, <1>2, <1>21, <2>1
    <2>2. CASE j # 1
      <3>1. j - 1 \in 1..l /\ p[j] = o[j - 1]
        BY <1>1, <1>3, <2>2
      <3>2. /\ en[o[j - 1]] \in CacheEntries /\ en[o[j - 1]].key \in DOMAIN m
            /\ m[en[o[j - 1]].key] = o[j - 1]
        BY <3>1 DEF Linked
      <3>3. en[o[j - 1]].key # k
        BY <1>22, <3>2
      <3> QED
        BY <1>2, <1>21, <3>1, <3>2, <3>3
    <2> QED
      BY <2>1, <2>2
  <1>6. ASSUME NEW q \in DOMAIN c
        PROVE  \E j \in 1..(l + 1) : p[j] = c[q] /\ fe[p[j]].key = q
    <2>1. CASE q = k
      <3>1. 1 \in 1..(l + 1) /\ p[1] = e
        BY <1>0, <1>1
      <3> QED
        BY <1>0, <1>2, <1>21, <2>1, <3>1
    <2>2. CASE q # k
      <3>1. q \in DOMAIN m /\ c[q] = m[q]
        BY <1>21, <2>2
      <3>2. PICK i \in 1..l : o[i] = m[q] /\ en[o[i]].key = q
        BY <3>1 DEF Linked
      <3>3. p[i + 1] = o[i] /\ i + 1 \in 1..(l + 1)
        BY <1>1, <1>31
      <3> QED
        BY <1>2, <3>1, <3>2, <3>3
    <2> QED
      BY <2>1, <2>2
  <1>7. Linked(p, c, fe)
    <2>1. DOMAIN c \subseteq Keys
      BY <1>0, <1>21 DEF Linked
    <2> QED
      BY <1>1, <1>4, <1>5, <1>6, <2>1 DEF Linked
  <1>8. EntriesOf(p, fe) = <<w>> \o EntriesOf(o, en)
    <2> DEFINE a == EntriesOf(p, fe)
               t == EntriesOf(o, en)
               b == <<w>> \o t
    <2>1. /\ a \in Seq(CacheEntries) /\ Len(a) = l + 1
          /\ \A j \in 1..(l + 1) : a[j] = fe[p[j]]
      <3>1. /\ a \in Seq(CacheEntries) /\ Len(a) = Len(p)
            /\ \A j \in 1..Len(p) : a[j] = fe[p[j]]
        BY ONLY <1>7, EntriesAreSeq
      <3> QED
        BY <1>1, <3>1
    <2>2. /\ t \in Seq(CacheEntries) /\ Len(t) = l
          /\ \A j \in 1..l : t[j] = en[o[j]]
      BY EntriesAreSeq
    <2> HIDE DEF a, t
    <2>3. /\ b \in Seq(CacheEntries) /\ Len(b) = l + 1
          /\ \A j \in 1..(l + 1) : b[j] = IF j = 1 THEN w ELSE t[j - 1]
      BY <1>0, <2>2, PutInFront
    <2> HIDE DEF b
    <2>4. \A j \in 1..(l + 1) : a[j] = b[j]
      <3> SUFFICES ASSUME NEW j \in 1..(l + 1) PROVE a[j] = b[j]
        OBVIOUS
      <3>1. CASE j = 1
        BY <1>1, <1>2, <2>1, <2>3, <3>1
      <3>2. CASE j # 1
        <4>1. j - 1 \in 1..l
          BY <1>3, <3>2
        <4> QED
          <5>1. p[j] = o[j - 1] /\ fe[o[j - 1]] = en[o[j - 1]]
            BY <1>1, <1>2, <3>2, <4>1
          <5>2. a[j] = fe[p[j]] /\ b[j] = t[j - 1] /\ t[j - 1] = en[o[j - 1]]
            BY <2>1, <2>2, <2>3, <3>2, <4>1
          <5> QED
            BY <5>1, <5>2
      <3> QED
        BY <3>1, <3>2
    <2>5. a = b
      BY <2>1, <2>3, <2>4, SeqEqual
    <2> QED
      BY <2>5 DEF a, b, t
  <1> QED
    BY <1>7, <1>8 DEF InFront, p, c, fe

LEMMA LinkedSame ==
  ASSUME NEW o, NEW m, NEW en, NEW c, Linked(o, c, en), DOMAIN c = DOMAIN m,
         \A j \in DOMAIN m : c[j] = m[j]
  PROVE  Linked(o, m, en)
  BY DEF Linked

(* An element moved to the front, its entry's value possibly replaced.        *)
LEMMA LinkedMoved ==
  ASSUME NEW o, NEW m, NEW en, Linked(o, m, en), DOMAIN en = LRU!Elements,
         NEW i \in 1..Len(o), NEW w \in CacheEntries, w.key = en[o[i]].key
  PROVE  /\ Linked(InFront(o[i], RemoveAt(o, i)), m, EntriesWith(en, o[i], w))
         /\ EntriesOf(InFront(o[i], RemoveAt(o, i)), EntriesWith(en, o[i], w))
               = InFront(w, RemoveAt(EntriesOf(o, en), i))
  <1> DEFINE p == RemoveAt(o, i)
             e == o[i]
             k == en[o[i]].key
             c == Restrict(m, DOMAIN m \ {k})
             d == MapWith(c, k, e)
  <1>1. /\ Linked(p, c, en) /\ EntriesOf(p, en) = RemoveAt(EntriesOf(o, en), i)
    BY LinkedWithout
  <1>2. /\ e \in LRU!Elements /\ k \in Keys /\ k \in DOMAIN m /\ m[k] = e
        /\ o \in Seq(LRU!Elements) /\ \A x, y \in 1..Len(o) : o[x] = o[y] => x = y
    BY DEF Linked
  <1>3. k \notin DOMAIN c /\ DOMAIN c = DOMAIN m \ {k} /\ \A j \in DOMAIN c : c[j] = m[j]
    BY DEF Restrict
  <1>4. \A j \in 1..Len(p) : p[j] # e
    <2> SUFFICES ASSUME NEW j \in 1..Len(p) PROVE p[j] # e
      OBVIOUS
    <2>1. /\ Len(p) = Len(o) - 1 /\ p[j] = (IF j < i THEN o[j] ELSE o[j + 1])
          /\ Len(o) \in Nat
      <3>1. /\ p \in Seq(LRU!Elements) /\ Len(p) = Len(o) - 1
            /\ \A h \in 1..(Len(o) - 1) : p[h] = IF h < i THEN o[h] ELSE o[h + 1]
        BY <1>2, TakenOut
      <3> HIDE DEF p
      <3> QED
        BY <1>2, <3>1
    <2>2. CASE j < i
      BY <1>2, <2>1, <2>2
    <2>3. CASE ~ (j < i)
      <3>1. j + 1 \in 1..Len(o) /\ j + 1 # i
        BY <2>1, <2>3
      <3> QED
        BY <1>2, <2>1, <2>3, <3>1
    <2> QED
      BY <2>2, <2>3
  <1>5. w.key = k /\ k \notin DOMAIN c /\ Fresh(p, e)
    BY <1>3, <1>4 DEF Fresh
  <1> HIDE DEF p, e, k, c
  <1>6. DOMAIN d = DOMAIN m /\ \A j \in DOMAIN m : d[j] = m[j]
    BY <1>2, <1>3 DEF MapWith
  <1>8. /\ Linked(InFront(e, p), d, EntriesWith(en, e, w))
        /\ EntriesOf(InFront(e, p), EntriesWith(en, e, w)) = InFront(w, EntriesOf(p, en))
    <2>1. Unlinked(p, c, en, e, k, w)
      BY <1>1, <1>2, <1>5 DEF Unlinked
    <2> QED
      BY <2>1, LinkedWith
  <1> HIDE DEF d
  <1>9. Linked(InFront(e, p), m, EntriesWith(en, e, w))
    BY <1>6, <1>8, LinkedSame
  <1> QED
    BY <1>1, <1>8, <1>9 DEF p, e

(* There are more elements than keys, so one of them is free.                 *)
LEMMA FreeElement ==
  ASSUME NEW o, NEW m, NEW en, Linked(o, m, en)
  PROVE  \E x \in LRU!Elements : x \notin LRU!ToSet(o)
  <1> DEFINE l == Len(o)
             c == Cardinality(Keys)
             f == [i \in 1..l |-> en[o[i]].key]
  <1>1. /\ IsFiniteSet(Keys) /\ c \in Nat
    BY StructuresAssumption, FS_CardinalityType
  <1>2. LRU!Elements = 1..(c + 1)
    <2>1. LRU!Cardinality(Keys) = Cardinality(Keys)
      BY DEF LRU!Cardinality, Cardinality
    <2> QED
      BY <2>1 DEF LRU!Elements
  <1>3. IsFiniteSet(LRU!Elements) /\ Cardinality(LRU!Elements) = c + 1
    <2>1. 1 \in Int /\ c + 1 \in Int /\ ~ (1 > c + 1) /\ (c + 1) - 1 + 1 = c + 1
      BY <1>1
    <2> HIDE DEF c
    <2> QED
      BY <1>2, <2>1, FS_Interval
  <1>4. o \in Seq(LRU!Elements) /\ l \in Nat /\ DOMAIN o = 1..l
    BY DEF Linked
  <1>5. IsFiniteSet(1..l) /\ Cardinality(1..l) = l
    <2>1. 1 \in Int /\ l \in Int /\ (1 > l => l = 0) /\ l - 1 + 1 = l
      BY <1>4
    <2> HIDE DEF l
    <2> QED
      BY <2>1, FS_Interval
  <1>6. l <= c
    <2>1. \A i \in 1..l : en[o[i]].key \in Keys /\ m[en[o[i]].key] = o[i]
      BY DEF Linked
    <2>2. \A i, j \in 1..l : o[i] = o[j] => i = j
      BY DEF Linked
    <2>3. f \in [1..l -> Keys] /\ \A i, j \in 1..l : f[i] = f[j] => i = j
      BY <2>1, <2>2
    <2> HIDE DEF f
    <2>4. f \in Injection(1..l, Keys)
      BY <2>3 DEF Injection, IsInjective
    <2> HIDE DEF l, c
    <2> QED
      BY <1>1, <1>5, <2>4, FS_Injection DEF c
  <1> SUFFICES ASSUME \A x \in LRU!Elements : x \in LRU!ToSet(o) PROVE FALSE
    OBVIOUS
  <1>7. o \in Surjection(1..l, LRU!Elements)
    <2>1. o \in [1..l -> LRU!Elements]
      BY <1>4
    <2>2. \A x \in LRU!Elements : \E i \in 1..l : o[i] = x
      BY <1>4 DEF LRU!ToSet
    <2> QED
      BY <2>1, <2>2 DEF Surjection
  <1>8. c + 1 <= l
    <2> HIDE DEF l, c
    <2> QED
      BY <1>3, <1>5, <1>7, FS_Surjection
  <1> QED
    BY <1>1, <1>4, <1>6, <1>8

(* The contents are the entries in the order of the list; an element of the   *)
(* list is taken out at its place; a key of the map has that one place.       *)
LEMMA ContentsAreEntries == LRU!Contents = EntriesOf(order, entry)
  BY DEF LRU!Contents, EntriesOf

LEMMA WithoutPlace ==
  ASSUME Linked(order, items, entry), NEW i \in 1..Len(order)
  PROVE  LRU!Without(order[i]) = RemoveAt(order, i)
  <1>1. /\ DOMAIN order = 1..Len(order)
        /\ \A x, y \in 1..Len(order) : order[x] = order[y] => x = y
    BY DEF Linked
  <1>2. (CHOOSE j \in DOMAIN order : order[j] = order[i]) = i
    BY <1>1
  <1> QED
    BY <1>2 DEF LRU!Without, LRU!RemoveAt, RemoveAt

LEMMA PlaceOfKey ==
  ASSUME Linked(order, items, entry), NEW k \in DOMAIN items
  PROVE  \E i \in 1..Len(order) : /\ order[i] = items[k] /\ entry[order[i]].key = k
                                  /\ LRU!RL!Places(k) = {i}
  <1>1. PICK i \in 1..Len(order) : order[i] = items[k] /\ entry[order[i]].key = k
    BY DEF Linked
  <1>2. /\ DOMAIN LRU!Contents = 1..Len(order)
        /\ \A j \in 1..Len(order) : LRU!Contents[j] = entry[order[j]]
    BY DEF LRU!Contents, Linked
  <1>3. /\ \A x, y \in 1..Len(order) : order[x] = order[y] => x = y
        /\ \A j \in 1..Len(order) : items[entry[order[j]].key] = order[j]
    BY DEF Linked
  <1>4. \A j \in 1..Len(order) : entry[order[j]].key = k => j = i
    BY <1>1, <1>3
  <1> QED
    BY <1>1, <1>2, <1>4 DEF LRU!RL!Places

LEMMA NoPlace ==
  ASSUME Linked(order, items, entry), NEW k, k \notin DOMAIN items
  PROVE  LRU!RL!Places(k) = {}
  <1>1. /\ DOMAIN LRU!Contents = 1..Len(order)
        /\ \A j \in 1..Len(order) : LRU!Contents[j] = entry[order[j]]
    BY DEF LRU!Contents, Linked
  <1>2. \A j \in 1..Len(order) : entry[order[j]].key \in DOMAIN items
    BY DEF Linked
  <1> QED
    BY <1>1, <1>2 DEF LRU!RL!Places

LEMMA CacheInitInv == LRU!Init => CacheInv /\ LRU!RL!Init
  <1> SUFFICES ASSUME LRU!Init PROVE CacheInv /\ LRU!RL!Init
    OBVIOUS
  <1> USE DEF LRU!Init
  <1>1. Linked(order, items, entry)
    BY DEF Linked
  <1>2. LRU!Contents = <<>>
    BY DEF LRU!Contents
  <1> QED
    BY <1>1, <1>2 DEF CacheInv, LRU!RL!Init

LEMMA GetKeeps ==
  ASSUME CacheInv, NEW k \in Keys, LRU!Get(k)
  PROVE  CacheInv' /\ LRU!RL!Get(k) /\ capacity' = capacity
  <1> USE DEF LRU!Get
  <1>0. Linked(order, items, entry) /\ entry \in [LRU!Elements -> CacheEntries \union {None}]
    BY DEF CacheInv
  <1>1. CASE k \notin DOMAIN items
    <2>1. LRU!RL!Places(k) = {} /\ LRU!Contents' = LRU!Contents
      BY <1>0, <1>1, NoPlace DEF LRU!Contents
    <2> QED
      BY <1>1, <2>1 DEF CacheInv, LRU!RL!Get
  <1>2. CASE k \in DOMAIN items
    <2>1. PICK i \in 1..Len(order) : /\ order[i] = items[k] /\ entry[order[i]].key = k
                                     /\ LRU!RL!Places(k) = {i}
      BY <1>0, <1>2, PlaceOfKey
    <2>2. order' = <<order[i]>> \o RemoveAt(order, i)
      BY <1>0, <1>2, <2>1, WithoutPlace DEF LRU!MovedToFront
    <2>3. entry[order[i]] \in CacheEntries /\ order[i] \in LRU!Elements
      BY <1>0 DEF Linked
    <2> DEFINE w == entry[order[i]]
    <2>4. w = entry[order[i]] /\ w \in CacheEntries /\ DOMAIN entry = LRU!Elements
      BY <1>0, <2>3
    <2>5. entry = EntriesWith(entry, order[i], w)
      BY <1>0 DEF EntriesWith
    <2> HIDE DEF w
    <2>6. /\ Linked(<<order[i]>> \o RemoveAt(order, i), items, entry)
          /\ EntriesOf(<<order[i]>> \o RemoveAt(order, i), entry)
                = <<w>> \o RemoveAt(EntriesOf(order, entry), i)
      <3>1. /\ Linked(InFront(order[i], RemoveAt(order, i)), items,
                       EntriesWith(entry, order[i], w))
            /\ EntriesOf(InFront(order[i], RemoveAt(order, i)), EntriesWith(entry, order[i], w))
                  = InFront(w, RemoveAt(EntriesOf(order, entry), i))
        BY <1>0, <2>4, LinkedMoved
      <3> QED
        BY <2>5, <3>1 DEF InFront
    <2>7. LRU!Contents' = <<w>> \o RemoveAt(LRU!Contents, i)
      BY <2>2, <2>6, ContentsAreEntries DEF LRU!Contents, EntriesOf
    <2>8. LRU!Contents[i] = w
      BY <1>0, <2>4, ContentsAreEntries, EntriesAreSeq
    <2>9. CacheInv'
      BY <1>0, <2>2, <2>6 DEF CacheInv
    <2>10. LRU!RL!Get(k)
      BY <1>2, <2>1, <2>4, <2>7, <2>8 DEF LRU!RL!Get, LRU!RL!RemoveAt, RemoveAt
    <2> QED
      BY <2>9, <2>10
  <1> QED
    BY <1>1, <1>2

LEMMA OverwriteKeeps ==
  ASSUME CacheInv, NEW k \in Keys, NEW v \in Values, LRU!Overwrite(k, v)
  PROVE  CacheInv' /\ LRU!RL!Put(k, v) /\ capacity' = capacity
  <1> USE DEF LRU!Overwrite
  <1>0. Linked(order, items, entry) /\ entry \in [LRU!Elements -> CacheEntries \union {None}]
    BY DEF CacheInv
  <1>1. PICK i \in 1..Len(order) : /\ order[i] = items[k] /\ entry[order[i]].key = k
                                   /\ LRU!RL!Places(k) = {i}
    BY <1>0, PlaceOfKey
  <1>2. order' = <<order[i]>> \o RemoveAt(order, i)
    BY <1>0, <1>1, WithoutPlace DEF LRU!MovedToFront
  <1>3. entry[order[i]] \in CacheEntries /\ order[i] \in LRU!Elements
    BY <1>0 DEF Linked
  <1> DEFINE w == [key |-> entry[order[i]].key, value |-> v]
  <1>4. w \in CacheEntries /\ w = LRU!RL!Entry(k, v)
    BY <1>1, <1>3 DEF CacheEntries, LRU!RL!Entry
  <1>5. [entry[order[i]] EXCEPT !.value = v] = w
    BY <1>3 DEF CacheEntries
  <1>6. entry' = EntriesWith(entry, order[i], w)
    BY <1>1, <1>5 DEF EntriesWith
  <1>61. w.key = entry[order[i]].key /\ DOMAIN entry = LRU!Elements
    BY <1>0
  <1> HIDE DEF w
  <1>7. /\ Linked(<<order[i]>> \o RemoveAt(order, i), items, entry')
        /\ EntriesOf(<<order[i]>> \o RemoveAt(order, i), entry')
              = <<w>> \o RemoveAt(EntriesOf(order, entry), i)
    <2>1. /\ Linked(InFront(order[i], RemoveAt(order, i)), items,
                     EntriesWith(entry, order[i], w))
          /\ EntriesOf(InFront(order[i], RemoveAt(order, i)), EntriesWith(entry, order[i], w))
                = InFront(w, RemoveAt(EntriesOf(order, entry), i))
      BY <1>0, <1>4, <1>61, LinkedMoved
    <2> QED
      BY <1>6, <2>1 DEF InFront
  <1>8. LRU!Contents' = <<w>> \o RemoveAt(LRU!Contents, i)
    BY <1>2, <1>7, ContentsAreEntries DEF LRU!Contents, EntriesOf
  <1>9. CacheInv'
    <2>1. entry' \in [LRU!Elements -> CacheEntries \union {None}]
      BY <1>0, <1>4, <1>6 DEF EntriesWith
    <2> QED
      BY <1>0, <1>2, <1>7, <2>1 DEF CacheInv
  <1>10. LRU!RL!Put(k, v)
    BY <1>1, <1>4, <1>8 DEF LRU!RL!Put, LRU!RL!RemoveAt, RemoveAt
  <1> QED
    BY <1>9, <1>10

LEMMA DeleteKeepsCache ==
  ASSUME CacheInv, NEW k \in Keys, LRU!Delete(k)
  PROVE  CacheInv' /\ LRU!RL!Delete(k) /\ capacity' = capacity
  <1> USE DEF LRU!Delete
  <1>0. Linked(order, items, entry) /\ entry \in [LRU!Elements -> CacheEntries \union {None}]
    BY DEF CacheInv
  <1>1. CASE k \notin DOMAIN items
    <2>1. LRU!RL!Places(k) = {} /\ LRU!Contents' = LRU!Contents
      BY <1>0, <1>1, NoPlace DEF LRU!Contents
    <2>2. CacheInv'
      BY <1>1 DEF CacheInv
    <2>3. reply' = FALSE /\ capacity' = capacity
      <3>1. (k \in DOMAIN items) = FALSE
        BY <1>1
      <3>2. reply' = (k \in DOMAIN items) /\ capacity' = capacity
        OBVIOUS
      <3> QED
        BY <3>1, <3>2
    <2> QED
      BY <2>1, <2>2, <2>3 DEF LRU!RL!Delete
  <1>2. CASE k \in DOMAIN items
    <2>1. PICK i \in 1..Len(order) : /\ order[i] = items[k] /\ entry[order[i]].key = k
                                     /\ LRU!RL!Places(k) = {i}
      BY <1>0, <1>2, PlaceOfKey
    <2>2. order' = RemoveAt(order, i)
      BY <1>0, <1>2, <2>1, WithoutPlace
    <2>3. items' = Restrict(items, DOMAIN items \ {entry[order[i]].key})
      BY <1>2, <2>1 DEF LRU!MapWithout, LRU!Restrict, Restrict
    <2>4. /\ Linked(RemoveAt(order, i), items', entry)
          /\ EntriesOf(RemoveAt(order, i), entry) = RemoveAt(EntriesOf(order, entry), i)
      BY <1>0, <2>3, LinkedWithout
    <2>5. LRU!Contents' = RemoveAt(LRU!Contents, i)
      BY <2>2, <2>4, ContentsAreEntries DEF LRU!Contents, EntriesOf
    <2>6. CacheInv'
      BY <1>0, <2>2, <2>4 DEF CacheInv
    <2>7. LRU!RL!Delete(k)
      BY <1>2, <2>1, <2>5 DEF LRU!RL!Delete, LRU!RL!RemoveAt, RemoveAt
    <2> QED
      BY <2>6, <2>7
  <1> QED
    BY <1>1, <1>2

(* With the victim gone, or with room, a free element takes the new entry.    *)
LEMMA InsertKeeps ==
  ASSUME CacheInv, NEW k \in Keys, NEW v \in Values, LRU!Insert(k, v)
  PROVE  CacheInv' /\ LRU!RL!Put(k, v) /\ capacity' = capacity
  <1>0. /\ Linked(order, items, entry) /\ entry \in [LRU!Elements -> CacheEntries \union {None}]
        /\ DOMAIN entry = LRU!Elements
        /\ k \notin DOMAIN items /\ capacity' = capacity /\ reply' = reply
    BY DEF CacheInv, LRU!Insert
  <1>1. /\ order \in Seq(LRU!Elements) /\ Len(order) \in Nat /\ capacity \in Nat
        /\ Len(LRU!Contents) = Len(order) /\ (LRU!Contents = <<>> <=> order = <<>>)
    <2>1. /\ order \in Seq(LRU!Elements) /\ Len(order) \in Nat /\ capacity \in Nat
      BY <1>0, StructuresAssumption DEF Linked, CacheInv
    <2>2. /\ LRU!Contents \in Seq(CacheEntries) /\ Len(LRU!Contents) = Len(order)
      BY <1>0, ContentsAreEntries, EntriesAreSeq
    <2> QED
      BY <2>1, <2>2, EmptySeq
  <1>2. LRU!RL!Places(k) = {}
    BY <1>0, NoPlace
  <1> DEFINE evicts == LRU!Full /\ order # <<>>
             kept == IF evicts THEN LRU!Without(LRU!Last(order)) ELSE order
             map == IF evicts THEN LRU!MapWithout(LRU!Last(order)) ELSE items
             e == CHOOSE x \in LRU!Elements : x \notin LRU!ToSet(kept)
             w == [key |-> k, value |-> v]
             rest == IF evicts THEN RemoveAt(LRU!Contents, Len(order)) ELSE LRU!Contents
  <1>3. /\ order' = <<e>> \o kept
        /\ items' = MapWith(map, k, e) /\ entry' = EntriesWith(entry, e, w)
    BY DEF LRU!Insert, MapWith, EntriesWith
  <1>4. Linked(kept, map, entry) /\ k \notin DOMAIN map /\ EntriesOf(kept, entry) = rest
    <2>1. CASE evicts
      <3>1. Len(order) \in 1..Len(order) /\ LRU!Last(order) = order[Len(order)]
        BY <1>1, <2>1, EmptySeq DEF LRU!Last
      <3>2. kept = RemoveAt(order, Len(order))
        BY <1>0, <2>1, <3>1, WithoutPlace
      <3>3. map = Restrict(items, DOMAIN items \ {entry[order[Len(order)]].key})
        BY <2>1, <3>1 DEF LRU!MapWithout, LRU!Restrict, Restrict
      <3>4. DOMAIN map \subseteq DOMAIN items
        BY <3>3 DEF Restrict
      <3> HIDE DEF map, kept
      <3>5. /\ Linked(RemoveAt(order, Len(order)), map, entry)
            /\ EntriesOf(RemoveAt(order, Len(order)), entry)
                  = RemoveAt(EntriesOf(order, entry), Len(order))
        BY <1>0, <3>1, <3>3, LinkedWithout
      <3> QED
        BY <1>0, <2>1, <3>2, <3>4, <3>5, ContentsAreEntries
    <2>2. CASE ~evicts
      BY <1>0, <2>2, ContentsAreEntries
    <2> QED
      BY <2>1, <2>2
  <1>5. /\ (evicts => Len(order) >= capacity /\ order # <<>>)
        /\ (~evicts => Len(order) < capacity \/ order = <<>>)
    BY <1>1 DEF LRU!Full
  <1>6. (evicts => rest = RemoveAt(LRU!Contents, Len(order))) /\ (~evicts => rest = LRU!Contents)
    OBVIOUS
  <1>7. e \in LRU!Elements /\ e \notin LRU!ToSet(kept)
    <2> HIDE DEF kept, map
    <2>1. \E x \in LRU!Elements : x \notin LRU!ToSet(kept)
      BY <1>4, FreeElement
    <2> QED
      BY <2>1
  <1>8. w \in CacheEntries /\ w = LRU!RL!Entry(k, v) /\ w.key = k
    BY DEF CacheEntries, LRU!RL!Entry
  <1> HIDE DEF evicts, kept, map, e, w, rest
  <1>9. Fresh(kept, e)
    BY <1>4, <1>7 DEF LRU!ToSet, Linked, Fresh
  <1>92. /\ Linked(<<e>> \o kept, items', entry')
         /\ EntriesOf(<<e>> \o kept, entry') = <<w>> \o EntriesOf(kept, entry)
    <2>1. /\ Linked(InFront(e, kept), MapWith(map, k, e), EntriesWith(entry, e, w))
          /\ EntriesOf(InFront(e, kept), EntriesWith(entry, e, w))
                = InFront(w, EntriesOf(kept, entry))
      <3>1. Unlinked(kept, map, entry, e, k, w)
        BY <1>0, <1>4, <1>7, <1>8, <1>9 DEF Unlinked
      <3> QED
        BY <3>1, LinkedWith
    <2> QED
      BY <1>3, <1>8, <2>1 DEF InFront
  <1>93. LRU!Contents' = <<w>> \o rest
    BY <1>3, <1>4, <1>8, <1>92 DEF LRU!Contents, EntriesOf
  <1>94. CacheInv'
    <2>1. entry' \in [LRU!Elements -> CacheEntries \union {None}]
      BY <1>0, <1>3, <1>7, <1>8 DEF EntriesWith
    <2> QED
      BY <1>0, <1>3, <1>92, <2>1 DEF CacheInv
  <1>95. LRU!RL!Put(k, v)
    <2>1. CASE evicts
      BY <1>0, <1>1, <1>2, <1>5, <1>6, <1>8, <1>93, <2>1
         DEF LRU!RL!Put, LRU!RL!RemoveAt, RemoveAt
    <2>2. CASE ~evicts
      BY <1>0, <1>1, <1>2, <1>5, <1>6, <1>8, <1>93, <2>2 DEF LRU!RL!Put
    <2> QED
      BY <2>1, <2>2
  <1> QED
    BY <1>0, <1>94, <1>95

LEMMA CacheMoves ==
  CacheInv /\ [LRU!Next]_(LRU!vars) => CacheInv' /\ [LRU!RL!Next]_(LRU!RL!vars)
  <1> SUFFICES ASSUME CacheInv, [LRU!Next]_(LRU!vars)
               PROVE  CacheInv' /\ [LRU!RL!Next]_(LRU!RL!vars)
    OBVIOUS
  <1>1. CASE UNCHANGED LRU!vars
    BY <1>1 DEF LRU!vars, LRU!RL!vars, CacheInv, Linked, LRU!Contents
  <1>2. ASSUME NEW k \in Keys, LRU!Get(k)
        PROVE  CacheInv' /\ [LRU!RL!Next]_(LRU!RL!vars)
    BY <1>2, GetKeeps DEF LRU!RL!Next
  <1>3. ASSUME NEW k \in Keys, LRU!Delete(k)
        PROVE  CacheInv' /\ [LRU!RL!Next]_(LRU!RL!vars)
    BY <1>3, DeleteKeepsCache DEF LRU!RL!Next
  <1>4. ASSUME NEW k \in Keys, NEW v \in Values, LRU!Overwrite(k, v)
        PROVE  CacheInv' /\ [LRU!RL!Next]_(LRU!RL!vars)
    BY <1>4, OverwriteKeeps DEF LRU!RL!Next
  <1>5. ASSUME NEW k \in Keys, NEW v \in Values, LRU!Insert(k, v)
        PROVE  CacheInv' /\ [LRU!RL!Next]_(LRU!RL!vars)
    BY <1>5, InsertKeeps DEF LRU!RL!Next
  <1> QED
    BY <1>1, <1>2, <1>3, <1>4, <1>5 DEF LRU!Next

(* The map, the list and the entries together behave as one list of entries   *)
(* in order of use: they never come apart, a hit is the entry last stored     *)
(* under the key, and only the least recently used one of a full cache is     *)
(* evicted.                                                                   *)
THEOREM ImplementsRecencyList == LRU!Spec => CacheIsRecencyList
  <1> QED
    BY CacheInitInv, CacheMoves, PTL
       DEF LRU!Spec, CacheIsRecencyList, LRU!IsRecencyList, LRU!RL!Spec
-----------------------------------------------------------------------------
(* WebSocket, for messages of any length.                                     *)
Payloads == Seq(Bytes)

LEMMA PayloadFacts ==
  ASSUME NEW m \in Payloads
  PROVE  /\ m \in Seq(Nat) /\ Len(m) \in Nat /\ DOMAIN m = 1..Len(m)
         /\ \A i \in 1..Len(m) : m[i] \in Nat /\ (m[i] = 0 \/ m[i] = 1)
  <1>1. m \in Seq(Bytes) /\ Bytes \subseteq {0, 1}
    BY StructuresAssumption DEF Payloads
  <1>2. \A i \in 1..Len(m) : m[i] \in {0, 1}
    <2>1. \A i \in 1..Len(m) : m[i] \in Bytes
      BY <1>1
    <2> QED
      BY <1>1, <2>1
  <1>3. m \in Seq(Nat)
    <2>1. Bytes \subseteq Nat
      BY <1>1
    <2> QED
      BY <1>1, <2>1, SeqMonotonic
  <1> QED
    BY <1>1, <1>2, <1>3

(* Where a client's frame has what.                                           *)
ExtraBytes(m) == IF Len(m) < 6 THEN 0 ELSE 2
KeyBytes(masked) == IF masked THEN 4 ELSE 0
Start(m, masked) == 2 + ExtraBytes(m) + KeyBytes(masked)
Bit(m, masked, j) == IF masked THEN (m[j] + WS!Key[((j - 1) % 4) + 1]) % 2 ELSE m[j]

Frame(c, m, masked) ==
    /\ c \in Seq(Nat) /\ Len(c) = Start(m, masked) + Len(m)
    /\ c[2] = (IF Len(m) < 6 THEN Len(m) ELSE 6) + (IF masked THEN 8 ELSE 0)
    /\ Len(m) >= 6 => c[3] = Len(m) \div 256 /\ c[4] = Len(m) % 256
    /\ masked => \A j \in 1..4 : c[2 + ExtraBytes(m) + j] = WS!Key[j]
    /\ \A j \in 1..Len(m) : c[Start(m, masked) + j] = Bit(m, masked, j)

(* Two sequences joined, place by place.                                      *)
LEMMA Joined ==
  ASSUME NEW s \in Seq(Nat), NEW t \in Seq(Nat)
  PROVE  /\ s \o t \in Seq(Nat) /\ Len(s \o t) = Len(s) + Len(t)
         /\ Len(s) \in Nat /\ Len(t) \in Nat
         /\ \A i \in 1..Len(s) : (s \o t)[i] = s[i]
         /\ \A i \in 1..Len(t) : (s \o t)[Len(s) + i] = t[i]
  <1>1. Len(s) \in Nat /\ Len(t) \in Nat
    OBVIOUS
  <1>2. /\ s \o t \in Seq(Nat) /\ Len(s \o t) = Len(s) + Len(t)
        /\ \A i \in 1..(Len(s) + Len(t)) :
              (s \o t)[i] = IF i <= Len(s) THEN s[i] ELSE t[i - Len(s)]
    BY ConcatProperties
  <1>3. \A i \in 1..Len(s) : i \in 1..(Len(s) + Len(t)) /\ i <= Len(s)
    BY <1>1
  <1>4. \A i \in 1..Len(t) : /\ Len(s) + i \in 1..(Len(s) + Len(t))
                             /\ ~ (Len(s) + i <= Len(s)) /\ Len(s) + i - Len(s) = i
    BY <1>1
  <1> QED
    BY <1>1, <1>2, <1>3, <1>4

LEMMA KeyFacts ==
  /\ WS!Key \in Seq(Nat) /\ Len(WS!Key) = 4
  /\ \A j \in 1..4 : WS!Key[j] = 0 \/ WS!Key[j] = 1
  /\ \A i \in Nat \ {0} : ((i - 1) % 4) + 1 \in 1..4
  <1>1. WS!Key \in Seq(Nat) /\ Len(WS!Key) = 4
    BY DEF WS!Key
  <1>2. \A j \in 1..4 : WS!Key[j] = 0 \/ WS!Key[j] = 1
    <2>1. WS!Key[1] = 0 /\ WS!Key[2] = 1 /\ WS!Key[3] = 1 /\ WS!Key[4] = 0
      BY DEF WS!Key
    <2>2. \A j \in 1..4 : j = 1 \/ j = 2 \/ j = 3 \/ j = 4
      OBVIOUS
    <2> QED
      BY <2>1, <2>2
  <1>3. \A i \in Nat \ {0} : ((i - 1) % 4) + 1 \in 1..4
    OBVIOUS
  <1> QED
    BY <1>1, <1>2, <1>3

LEMMA FrameLayout ==
  ASSUME NEW m \in Payloads, NEW masked \in BOOLEAN
  PROVE  Frame(WS!ClientFrame(m, masked), m, masked)
  <1> DEFINE l == Len(m)
             mask == IF masked THEN 8 ELSE 0
             d == l \div 256
             r == l % 256
             h == IF l < 6 THEN <<9, l + mask>> ELSE <<9, 6 + mask, d, r>>
             x == WS!Xor(m, WS!Key)
             b == IF masked THEN WS!Key \o x ELSE m
  <1>1. /\ m \in Seq(Nat) /\ l \in Nat /\ mask \in Nat /\ DOMAIN m = 1..l
        /\ \A i \in 1..l : m[i] \in Nat /\ (m[i] = 0 \/ m[i] = 1)
    BY PayloadFacts
  <1>2. d \in Nat /\ r \in Nat
    BY <1>1
  <1>3. WS!ClientFrame(m, masked) = h \o b
    BY DEF WS!ClientFrame, WS!MaskBit, WS!Extended, WS!Opcode
  <1> HIDE DEF d, r, mask
  <1>4. /\ h \in Seq(Nat) /\ Len(h) = 2 + ExtraBytes(m)
        /\ h[2] = (IF l < 6 THEN l ELSE 6) + mask
        /\ l >= 6 => h[3] = d /\ h[4] = r
    <2>1. CASE l < 6
      BY <1>1, <2>1 DEF ExtraBytes
    <2>2. CASE ~ (l < 6)
      BY <1>1, <1>2, <2>2 DEF ExtraBytes
    <2> QED
      BY <2>1, <2>2
  <1>5. /\ x \in Seq(Nat) /\ Len(x) = l
        /\ \A j \in 1..l : x[j] = (m[j] + WS!Key[((j - 1) % 4) + 1]) % 2
    <2>1. x = [i \in 1..l |-> (m[i] + WS!Key[((i - 1) % 4) + 1]) % 2]
      BY <1>1 DEF WS!Xor
    <2>2. \A i \in 1..l : (m[i] + WS!Key[((i - 1) % 4) + 1]) % 2 \in Nat
      <3> SUFFICES ASSUME NEW i \in 1..l
                   PROVE  (m[i] + WS!Key[((i - 1) % 4) + 1]) % 2 \in Nat
        OBVIOUS
      <3>1. ((i - 1) % 4) + 1 \in 1..4
        BY <1>1, KeyFacts
      <3>2. WS!Key[((i - 1) % 4) + 1] \in Nat /\ m[i] \in Nat
        BY <1>1, <3>1, KeyFacts
      <3> QED
        BY <3>2
    <2> HIDE DEF l, x
    <2> QED
      BY <1>1, <2>1, <2>2
  <1> HIDE DEF x, l
  <1>6. /\ b \in Seq(Nat) /\ Len(b) = KeyBytes(masked) + l
        /\ masked => \A j \in 1..4 : b[j] = WS!Key[j]
        /\ \A j \in 1..l : b[KeyBytes(masked) + j] = Bit(m, masked, j)
    <2>1. CASE masked
      <3>0. b = WS!Key \o x
        BY <2>1
      <3> HIDE DEF b
      <3>1. /\ WS!Key \o x \in Seq(Nat) /\ Len(WS!Key \o x) = Len(WS!Key) + Len(x)
            /\ \A j \in 1..Len(WS!Key) : (WS!Key \o x)[j] = WS!Key[j]
            /\ \A j \in 1..Len(x) : (WS!Key \o x)[Len(WS!Key) + j] = x[j]
        BY <1>5, KeyFacts, Joined
      <3>2. /\ b \in Seq(Nat) /\ Len(b) = 4 + l
            /\ \A j \in 1..4 : b[j] = WS!Key[j]
            /\ \A j \in 1..l : b[4 + j] = x[j]
        BY <1>5, <3>0, <3>1, KeyFacts
      <3> QED
        BY <1>5, <2>1, <3>2 DEF KeyBytes, Bit
    <2>2. CASE ~masked
      BY <1>1, <2>2 DEF KeyBytes, Bit, l
    <2> QED
      BY <2>1, <2>2
  <1> HIDE DEF h, b
  <1>7. /\ h \o b \in Seq(Nat) /\ Len(h \o b) = Len(h) + Len(b)
        /\ \A i \in 1..Len(h) : (h \o b)[i] = h[i]
        /\ \A i \in 1..Len(b) : (h \o b)[Len(h) + i] = b[i]
    BY <1>4, <1>6, Joined
  <1>8. ExtraBytes(m) \in {0, 2} /\ KeyBytes(masked) \in {0, 4} /\ (l >= 6 => ExtraBytes(m) = 2)
        /\ (masked => KeyBytes(masked) = 4)
    BY <1>1 DEF ExtraBytes, KeyBytes, l
  <1> DEFINE c == h \o b
  <1> HIDE DEF c
  <1>9. c \in Seq(Nat) /\ Len(c) = Start(m, masked) + l
    BY <1>1, <1>4, <1>6, <1>7, <1>8 DEF Start, c
  <1>10. /\ c[2] = (IF l < 6 THEN l ELSE 6) + mask
         /\ l >= 6 => c[3] = d /\ c[4] = r
    BY <1>4, <1>7, <1>8 DEF c
  <1>11. masked => \A j \in 1..4 : c[2 + ExtraBytes(m) + j] = WS!Key[j]
    <2> SUFFICES ASSUME masked, NEW j \in 1..4 PROVE c[2 + ExtraBytes(m) + j] = WS!Key[j]
      OBVIOUS
    <2>1. j \in 1..Len(b) /\ b[j] = WS!Key[j]
      <3>1. KeyBytes(masked) = 4
        BY <1>8
      <3>2. Len(b) = 4 + l
        BY <1>6, <3>1
      <3>3. \A i \in 1..4 : b[i] = WS!Key[i]
        BY <1>6
      <3> QED
        BY <1>1, <3>2, <3>3
    <2>2. 2 + ExtraBytes(m) + j = Len(h) + j
      BY <1>4, <1>8
    <2> QED
      BY <1>7, <2>1, <2>2 DEF c
  <1>12. \A j \in 1..l : c[Start(m, masked) + j] = Bit(m, masked, j)
    <2> SUFFICES ASSUME NEW j \in 1..l PROVE c[Start(m, masked) + j] = Bit(m, masked, j)
      OBVIOUS
    <2>1. KeyBytes(masked) + j \in 1..Len(b) /\ b[KeyBytes(masked) + j] = Bit(m, masked, j)
      BY <1>1, <1>6, <1>8
    <2>2. Start(m, masked) + j = Len(h) + (KeyBytes(masked) + j)
      BY <1>1, <1>4, <1>8 DEF Start
    <2> QED
      BY <1>7, <2>1, <2>2 DEF c
  <1> QED
    BY <1>3, <1>9, <1>10, <1>11, <1>12 DEF Frame, c, d, r, l, mask

(* Applying the mask twice gives the payload back.                            *)
LEMMA Unmasked ==
  ASSUME NEW a \in Nat, a = 0 \/ a = 1, NEW q \in Nat, q = 0 \/ q = 1
  PROVE  (((a + q) % 2) + q) % 2 = a
  OBVIOUS

(* The bytes from a place on, and so many of them.                            *)
LEMMA BytesFrom ==
  ASSUME NEW buf \in Seq(Nat), NEW p \in Nat, NEW c \in Nat, p + c <= Len(buf)
  PROVE  /\ WS!Rest(buf, p) \in Seq(Nat) /\ Len(WS!Rest(buf, p)) = Len(buf) - p
         /\ \A i \in 1..(Len(buf) - p) : WS!Rest(buf, p)[i] = buf[p + i]
         /\ WS!ReadFull(WS!Rest(buf, p), c) = [i \in 1..c |-> buf[p + i]]
  <1> DEFINE a == p + 1
             b == Len(buf)
             t == WS!Rest(buf, p)
  <1>1. /\ a \in Int /\ b \in Int /\ \A j \in a..b : buf[j] \in Nat
        /\ b - a + 1 = b - p /\ (a <= b \/ b - p = 0) /\ b - p \in Nat
        /\ \A j \in 1..(b - p) : a + j - 1 = p + j
    OBVIOUS
  <1>2. t = SubSeq(buf, a, b)
    BY DEF WS!Rest
  <1> HIDE DEF a, t, b
  <1>3. /\ SubSeq(buf, a, b) \in Seq(Nat)
        /\ Len(SubSeq(buf, a, b)) = IF a <= b THEN b - a + 1 ELSE 0
        /\ \A j \in 1..(b - a + 1) : SubSeq(buf, a, b)[j] = buf[a + j - 1]
    BY <1>1, SubSeqProperties
  <1>4. /\ t \in Seq(Nat) /\ Len(t) = b - p /\ \A j \in 1..(b - p) : t[j] = buf[p + j]
    BY <1>1, <1>2, <1>3
  <1>5. \A i \in 1..c : i \in 1..(b - p) /\ i <= b - p
    BY DEF b
  <1>6. WS!ReadFull(t, c) = [i \in 1..c |-> buf[p + i]]
    BY <1>4, <1>5 DEF WS!ReadFull
  <1> QED
    BY <1>4, <1>6 DEF t, b

(* What begins with a client's frame is read as that frame's message.         *)
LEMMA ReadsFrame ==
  ASSUME NEW m \in Payloads, NEW masked \in BOOLEAN, NEW c, Frame(c, m, masked),
         NEW buf \in Seq(Nat), Len(c) <= Len(buf), \A j \in 1..Len(c) : buf[j] = c[j]
  PROVE  WS!FrameLength(buf) = Len(c) /\ WS!Payload(buf) = m
  <1> DEFINE l == Len(m)
             e == ExtraBytes(m)
             y == KeyBytes(masked)
  <1>1. /\ l \in Nat /\ DOMAIN m = 1..l /\ m \in Seq(Nat)
        /\ \A i \in 1..l : m[i] \in Nat /\ (m[i] = 0 \/ m[i] = 1)
    BY PayloadFacts
  <1>2. /\ e = (IF l < 6 THEN 0 ELSE 2) /\ y = (IF masked THEN 4 ELSE 0)
        /\ Len(c) = 2 + e + y + l /\ Len(buf) \in Nat
        /\ e \in Nat /\ y \in Nat /\ Start(m, masked) = 2 + e + y
    BY <1>1 DEF ExtraBytes, KeyBytes, Start, Frame
  <1>3. buf[2] = (IF l < 6 THEN l ELSE 6) + (IF masked THEN 8 ELSE 0)
    <2>1. 2 \in 1..Len(c)
      BY <1>1, <1>2
    <2>2. buf[2] = c[2]
      BY <2>1
    <2> QED
      BY <2>2 DEF Frame
  <1>4. l >= 6 => buf[3] = l \div 256 /\ buf[4] = l % 256
    <2> SUFFICES ASSUME l >= 6 PROVE buf[3] = l \div 256 /\ buf[4] = l % 256
      OBVIOUS
    <2>1. 3 \in 1..Len(c) /\ 4 \in 1..Len(c)
      <3>1. e = 2
        BY <1>1, <1>2
      <3>2. Len(c) \in Nat /\ Len(c) >= 4
        BY <1>1, <1>2, <3>1
      <3> QED
        BY <3>2
    <2>2. buf[3] = c[3] /\ buf[4] = c[4]
      BY <2>1
    <2> QED
      BY <2>2 DEF Frame
  <1>5. masked => \A j \in 1..4 : buf[2 + e + j] = WS!Key[j]
    <2> SUFFICES ASSUME masked, NEW j \in 1..4 PROVE buf[2 + e + j] = WS!Key[j]
      OBVIOUS
    <2>1. 2 + e + j \in 1..Len(c)
      BY <1>1, <1>2
    <2> QED
      BY <2>1 DEF Frame
  <1>6. \A j \in 1..l : buf[2 + e + y + j] = Bit(m, masked, j)
    <2> SUFFICES ASSUME NEW j \in 1..l PROVE buf[2 + e + y + j] = Bit(m, masked, j)
      OBVIOUS
    <2>1. 2 + e + y + j \in 1..Len(c) /\ 2 + e + y + j = Start(m, masked) + j
      BY <1>1, <1>2
    <2>2. c[Start(m, masked) + j] = Bit(m, masked, j)
      BY DEF Frame
    <2> QED
      BY <2>1, <2>2
  <1> HIDE DEF l, e, y
  <1>7. WS!Masked(buf) <=> masked
    BY <1>1, <1>3 DEF WS!Masked, WS!MaskBit
  <1>8. buf[2] % WS!MaskBit = IF l < 6 THEN l ELSE 6
    <2> DEFINE v == IF l < 6 THEN l ELSE 6
    <2>1. v \in 0..7
      BY <1>1
    <2>2. buf[2] = v + (IF masked THEN 8 ELSE 0)
      BY <1>3
    <2> HIDE DEF v
    <2>3. 8 \in Nat \ {0} /\ 1 \in Int /\ 0 \in Int /\ v \in 0..(8 - 1)
      BY <2>1
    <2>4. (1 * 8 + v) % 8 = v /\ (0 * 8 + v) % 8 = v
      BY <2>3, IsRemainder
    <2>5. buf[2] = 1 * 8 + v \/ buf[2] = 0 * 8 + v
      BY <2>1, <2>2
    <2>6. buf[2] % 8 = v
      BY <2>4, <2>5
    <2> QED
      BY <2>6 DEF WS!MaskBit, v
  <1>9. WS!LengthBytes(buf) = e
    BY <1>1, <1>2, <1>8 DEF WS!LengthBytes, WS!Extended
  <1>10. WS!PayloadLength(buf) = l
    <2>1. CASE l < 6
      BY <1>1, <1>2, <1>8, <1>9, <2>1 DEF WS!PayloadLength
    <2>2. CASE ~ (l < 6)
      <3>1. WS!ReadFull(WS!Rest(buf, 2), 2) = [i \in 1..2 |-> buf[2 + i]]
        <4>1. 2 \in Nat /\ 2 + 2 <= Len(buf)
          BY <1>1, <1>2, <2>2
        <4> QED
          BY <4>1, BytesFrom
      <3>2. /\ WS!ReadFull(WS!Rest(buf, 2), 2)[1] = buf[3]
            /\ WS!ReadFull(WS!Rest(buf, 2), 2)[2] = buf[4]
        BY <3>1
      <3>3. (l \div 256) * 256 + (l % 256) = l
        BY <1>1
      <3>4. WS!LengthBytes(buf) = 2
        BY <1>2, <1>9, <2>2
      <3>5. WS!PayloadLength(buf) = buf[3] * 256 + buf[4]
        BY <3>2, <3>4 DEF WS!PayloadLength
      <3>6. buf[3] = l \div 256 /\ buf[4] = l % 256
        BY <1>1, <1>4, <2>2
      <3> QED
        BY <3>3, <3>5, <3>6
    <2> QED
      BY <2>1, <2>2
  <1>11. WS!HeaderLength(buf) = 2 + e + y
    BY <1>2, <1>7, <1>9 DEF WS!HeaderLength
  <1>12. WS!FrameLength(buf) = Len(c)
    BY <1>1, <1>2, <1>10, <1>11 DEF WS!FrameLength
  <1>13. WS!ReadFull(WS!Rest(buf, 2 + e + y), l) = [i \in 1..l |-> buf[2 + e + y + i]]
    <2>1. 2 + e + y \in Nat /\ (2 + e + y) + l <= Len(buf)
      BY <1>1, <1>2
    <2> QED
      BY <1>1, <2>1, BytesFrom
  <1>14. WS!Payload(buf) = m
    <2>1. CASE ~masked
      <3>1. WS!Payload(buf) = [i \in 1..l |-> buf[2 + e + y + i]]
        BY <1>7, <1>10, <1>11, <1>13, <2>1 DEF WS!Payload
      <3>2. \A i \in 1..l : buf[2 + e + y + i] = m[i]
        BY <1>6, <2>1 DEF Bit
      <3>3. m = [i \in 1..l |-> m[i]]
        BY <1>1
      <3> QED
        BY <3>1, <3>2, <3>3
    <2>2. CASE masked
      <3> DEFINE key == [i \in 1..4 |-> buf[2 + e + i]]
                 pay == [i \in 1..l |-> buf[2 + e + y + i]]
      <3>1. WS!ReadFull(WS!Rest(buf, WS!HeaderLength(buf) - 4), 4) = key
        <4>1. WS!HeaderLength(buf) - 4 = 2 + e /\ 2 + e \in Nat /\ 4 \in Nat
              /\ (2 + e) + 4 <= Len(buf)
          BY <1>1, <1>2, <1>11, <2>2
        <4>2. WS!ReadFull(WS!Rest(buf, 2 + e), 4) = [i \in 1..4 |-> buf[2 + e + i]]
          BY <4>1, BytesFrom
        <4> QED
          BY <4>1, <4>2
      <3>2. WS!Payload(buf) = WS!Xor(pay, key)
        BY <1>7, <1>10, <1>11, <1>13, <2>2, <3>1 DEF WS!Payload
      <3>3. WS!Xor(pay, key) = [i \in 1..l |-> (pay[i] + key[((i - 1) % 4) + 1]) % 2]
        BY DEF WS!Xor
      <3>4. ASSUME NEW i \in 1..l PROVE (pay[i] + key[((i - 1) % 4) + 1]) % 2 = m[i]
        <4> DEFINE q == WS!Key[((i - 1) % 4) + 1]
        <4>1. ((i - 1) % 4) + 1 \in 1..4
          BY <1>1, KeyFacts
        <4>2. q \in Nat /\ (q = 0 \/ q = 1) /\ key[((i - 1) % 4) + 1] = q
          BY <1>5, <2>2, <4>1, KeyFacts
        <4>3. pay[i] = (m[i] + q) % 2
          BY <1>6, <2>2 DEF Bit
        <4> HIDE DEF q, pay, key
        <4>4. (((m[i] + q) % 2) + q) % 2 = m[i]
          BY <1>1, <4>2, Unmasked
        <4> QED
          BY <4>2, <4>3, <4>4
      <3>5. m = [i \in 1..l |-> m[i]]
        BY <1>1
      <3> QED
        BY <3>2, <3>3, <3>4, <3>5
    <2> QED
      BY <2>1, <2>2
  <1> QED
    BY <1>12, <1>14
-----------------------------------------------------------------------------
(* What the server has written after echoing one more short message.          *)
EchoAfter(x, m) == x \o <<WS!Opcode, Len(m) + 1>> \o WS!Prefix \o m

FramesUpTo(s) == LET upTo[k \in 0..Len(s)] ==
                       IF k = 0 THEN <<>>
                       ELSE upTo[k - 1] \o <<WS!Opcode, Len(s[k]) + 1>> \o WS!Prefix \o s[k]
                 IN upTo

(* A header of two bytes, and how it is put in front of the rest.             *)
LEMMA Pair ==
  ASSUME NEW u \in Nat, NEW v \in Nat
  PROVE  /\ <<u>> \in Seq(Nat) /\ <<v>> \in Seq(Nat) /\ <<u, v>> \in Seq(Nat)
         /\ <<u>> \o <<v>> = <<u, v>>
  <1>1. <<u>> \in Seq(Nat) /\ Len(<<u>>) = 1 /\ <<u>>[1] = u
    OBVIOUS
  <1>2. <<v>> \in Seq(Nat) /\ Len(<<v>>) = 1 /\ <<v>>[1] = v
    OBVIOUS
  <1>3. <<u, v>> \in Seq(Nat) /\ Len(<<u, v>>) = 2 /\ <<u, v>>[1] = u /\ <<u, v>>[2] = v
    OBVIOUS
  <1> DEFINE a == <<u>>
             b == <<v>>
             c == <<u, v>>
  <1> HIDE DEF a, b, c
  <1>4. a \o b = c
    <2> DEFINE d == a \o b
    <2>1. d \in Seq(Nat) /\ Len(d) = 2 /\ d[1] = u /\ d[2] = v
      BY <1>1, <1>2 DEF a, b
    <2>2. c \in Seq(Nat) /\ Len(c) = 2 /\ c[1] = u /\ c[2] = v
      BY <1>3 DEF c
    <2> HIDE DEF d
    <2>3. d = c
      <3>1. Len(d) = Len(c) /\ \A i \in 1..Len(d) : d[i] = c[i]
        BY <2>1, <2>2
      <3>2. d \in Seq(Nat) /\ c \in Seq(Nat)
        BY <2>1, <2>2
      <3> QED
        BY <3>1, <3>2, SeqEqual
    <2> QED
      BY <2>3 DEF d
  <1> QED
    BY <1>1, <1>2, <1>3, <1>4 DEF a, b, c

LEMMA Regroup ==
  ASSUME NEW s \in Seq(Nat), NEW t \in Seq(Nat), NEW w \in Seq(Nat)
  PROVE  (s \o t) \o w = s \o (t \o w)
  BY ConcatAssociative

SameBytes(s, t) == s = t

LEMMA RegroupFour ==
  ASSUME NEW x \in Seq(Nat), NEW ab \in Seq(Nat), NEW pre \in Seq(Nat), NEW m \in Seq(Nat)
  PROVE  /\ ((x \o ab) \o pre) \o m \in Seq(Nat)
         /\ SameBytes(((x \o ab) \o pre) \o m, x \o (ab \o (pre \o m)))
  <1> DEFINE xa == x \o ab
             pm == pre \o m
             xp == xa \o pre
  <1>1. xa \in Seq(Nat)
    BY ConcatProperties
  <1>2. pm \in Seq(Nat)
    BY ConcatProperties
  <1>3. xp \in Seq(Nat)
    <2> HIDE DEF xa
    <2> QED
      BY <1>1, ConcatProperties
  <1>4. xp \o m \in Seq(Nat)
    <2> HIDE DEF xp
    <2> QED
      BY <1>3, ConcatProperties
  <1>5. xa \o pm = x \o (ab \o pm)
    <2> HIDE DEF pm
    <2> QED
      BY <1>2, Regroup, Zenon
  <1>6. xp \o m = xa \o pm
    <2> HIDE DEF xa
    <2> QED
      BY <1>1, Regroup, Zenon
  <1> QED
    BY <1>4, <1>5, <1>6, Zenon DEF SameBytes
LEMMA EchoIsFrame ==
  ASSUME NEW x \in Seq(Nat), NEW m \in Payloads
  PROVE  /\ EchoAfter(x, m) \in Seq(Nat)
         /\ Len(m) + 1 < 6 => x \o WS!ServerFrame(WS!Prefix \o m) = EchoAfter(x, m)
  <1> DEFINE l == Len(m) + 1
             ab == <<9, l>>
             pre == <<1>>
             pm == pre \o m
  <1>1. m \in Seq(Nat) /\ Len(m) \in Nat /\ l \in Nat /\ 9 \in Nat
    BY PayloadFacts
  <1>2. ab \in Seq(Nat) /\ <<9>> \o <<l>> = ab
    <2> HIDE DEF l
    <2> QED
      BY <1>1, Pair, Zenon
  <1>3. pre \in Seq(Nat) /\ Len(pre) = 1
    OBVIOUS
  <1>4. Len(pm) = l
    <2> HIDE DEF pre
    <2>1. Len(pre \o m) = Len(pre) + Len(m)
      BY <1>1, <1>3, Joined
    <2> QED
      BY <1>1, <1>3, <2>1
  <1>5. EchoAfter(x, m) = ((x \o ab) \o pre) \o m
    BY DEF EchoAfter, WS!Opcode, WS!Prefix
  <1>6. l < 6 => WS!ServerFrame(pm) = ab \o pm
    <2>1. Len(pm) < 6 => WS!ServerFrame(pm) = (<<9>> \o <<Len(pm)>>) \o pm
      <3> HIDE DEF pm
      <3> QED
        BY DEF WS!ServerFrame, WS!Opcode, WS!Extended
    <2> HIDE DEF pm, l, ab
    <2> QED
      BY <1>2, <1>4, <2>1, Zenon
  <1>7. /\ ((x \o ab) \o pre) \o m \in Seq(Nat)
        /\ ((x \o ab) \o pre) \o m = x \o (ab \o (pre \o m))
    <2>1. x \in Seq(Nat) /\ ab \in Seq(Nat) /\ pre \in Seq(Nat) /\ m \in Seq(Nat)
      BY <1>1, <1>2, <1>3
    <2> HIDE DEF ab, pre
    <2>2. ((x \o ab) \o pre) \o m \in Seq(Nat)
      BY <2>1, RegroupFour, Zenon
    <2>3. SameBytes(((x \o ab) \o pre) \o m, x \o (ab \o (pre \o m)))
      BY <2>1, RegroupFour, Zenon
    <2> QED
      BY <2>2, <2>3, Zenon DEF SameBytes
  <1>8. WS!Prefix = pre
    BY DEF WS!Prefix
  <1> HIDE DEF ab, pre, l
  <1>9. l < 6 => x \o WS!ServerFrame(pre \o m) = EchoAfter(x, m)
    BY <1>5, <1>6, <1>7, Zenon
  <1> QED
    BY <1>5, <1>7, <1>8, <1>9, Zenon DEF l

LEMMA FramesUnfold ==
  ASSUME NEW s \in Seq(Payloads)
  PROVE  /\ FramesUpTo(s)[0] = <<>>
         /\ \A k \in 1..Len(s) : FramesUpTo(s)[k] = EchoAfter(FramesUpTo(s)[k - 1], s[k])
         /\ \A k \in 0..Len(s) : FramesUpTo(s)[k] \in Seq(Nat)
  <1> DEFINE l == Len(s)
             V == Seq(Nat)
             Body(d) == [k \in 0..Len(s) |->
                           IF k = 0 THEN <<>>
                           ELSE d[k - 1] \o <<WS!Opcode, Len(s[k]) + 1>> \o WS!Prefix \o s[k]]
             c == FramesUpTo(s)
             table == [p \in (1..l) \X V |-> EchoAfter(p[2], s[p[1]])]
  <1>1. l \in Nat /\ 0 \in 0..l /\ \A k \in 1..l : k \in 0..l /\ k # 0 /\ s[k] \in Payloads
    OBVIOUS
  <1>2. <<>> \in V
    OBVIOUS
  <1>3. /\ table \in [(1..l) \X V -> V]
        /\ \A k \in 1..l, x \in V : table[<<k, x>>] = EchoAfter(x, s[k])
    <2>1. \A p \in (1..l) \X V : EchoAfter(p[2], s[p[1]]) \in V
      BY <1>1, EchoIsFrame
    <2> HIDE DEF l, V
    <2> QED
      BY <2>1
  <1> HIDE DEF table
  <1>4. PICK f \in [0..l -> V] : Iterates(f, l, <<>>, table)
    <2> HIDE DEF l, V
    <2> QED
      BY <1>1, <1>2, <1>3, RecursionExists
  <1>5. f[0] = <<>> /\ \A k \in 1..l : f[k] = EchoAfter(f[k - 1], s[k])
    <2>1. \A k \in 1..l : f[k - 1] \in V
      BY <1>1
    <2> HIDE DEF V
    <2> QED
      BY <1>3, <1>4, <2>1 DEF Iterates
  <1>6. f = Body(f)
    <2>1. \A k \in 1..l : f[k] = f[k - 1] \o <<WS!Opcode, Len(s[k]) + 1>> \o WS!Prefix \o s[k]
      BY <1>5 DEF EchoAfter
    <2>2. \A k \in 0..l : k = 0 \/ (k # 0 /\ k \in 1..l)
      BY <1>1
    <2>3. \A k \in 0..l : f[k] = Body(f)[k]
      BY <1>5, <2>1, <2>2
    <2> QED
      BY <2>3
  <1>7. c = CHOOSE d : d = Body(d)
    BY DEF FramesUpTo
  <1>8. c = Body(c)
    BY <1>6, <1>7
  <1> HIDE DEF c
  <1>9. c[0] = <<>> /\ \A k \in 1..l : c[k] = EchoAfter(c[k - 1], s[k])
    BY <1>1, <1>8 DEF EchoAfter
  <1>10. StepsWithin(c, l, <<>>, table, V)
    BY <1>3, <1>9 DEF StepsWithin
  <1>11. StaysWithin(c, l, V)
    <2> HIDE DEF l, V
    <2> QED
      BY <1>1, <1>2, <1>3, <1>10, RecursionStays
  <1> QED
    BY <1>9, <1>11 DEF c, StaysWithin

LEMMA FramesAppend ==
  ASSUME NEW s \in Seq(Payloads), NEW m \in Payloads
  PROVE  /\ WS!Frames(s) \in Seq(Nat)
         /\ WS!Frames(Append(s, m)) = EchoAfter(WS!Frames(s), m)
  <1> DEFINE l == Len(s)
             more == Append(s, m)
             c == FramesUpTo(s)
             t == FramesUpTo(more)
  <1>0. WS!Frames(s) = c[l] /\ WS!Frames(more) = t[Len(more)]
    BY DEF WS!Frames, FramesUpTo
  <1>1. /\ l \in Nat /\ more \in Seq(Payloads) /\ Len(more) = l + 1
        /\ more[l + 1] = m /\ \A k \in 1..l : more[k] = s[k]
    OBVIOUS
  <1> HIDE DEF more
  <1>2. /\ c[0] = <<>> /\ \A k \in 1..l : c[k] = EchoAfter(c[k - 1], s[k])
        /\ t[0] = <<>> /\ \A k \in 1..(l + 1) : t[k] = EchoAfter(t[k - 1], more[k])
        /\ c[l] \in Seq(Nat)
    <2>1. /\ c[0] = <<>> /\ \A k \in 1..l : c[k] = EchoAfter(c[k - 1], s[k])
          /\ \A k \in 0..l : c[k] \in Seq(Nat)
      BY FramesUnfold
    <2>2. /\ t[0] = <<>> /\ \A k \in 1..Len(more) : t[k] = EchoAfter(t[k - 1], more[k])
      BY <1>1, FramesUnfold
    <2> HIDE DEF c, t, l
    <2> QED
      BY <1>1, <2>1, <2>2
  <1> HIDE DEF c, t, l
  <1>3. StepAlike(t, c, l)
    BY <1>1, <1>2 DEF StepAlike
  <1>4. t[l] = c[l]
    <2>1. Alike(t, c, l)
      BY <1>1, <1>3, RecursionsAgree
    <2>2. l \in 0..l
      BY <1>1
    <2> QED
      BY <2>1, <2>2 DEF Alike
  <1>5. t[l + 1] = EchoAfter(t[l], m)
    <2>1. l + 1 \in 1..(l + 1) /\ (l + 1) - 1 = l
      BY <1>1
    <2> QED
      BY <1>1, <1>2, <2>1
  <1> QED
    BY <1>0, <1>1, <1>2, <1>4, <1>5 DEF more

-----------------------------------------------------------------------------
LEMMA FrameIsSeq ==
  ASSUME NEW m \in Payloads, NEW masked \in BOOLEAN
  PROVE  /\ WS!ClientFrame(m, masked) \in Seq(Nat)
         /\ Len(WS!ClientFrame(m, masked)) \in Nat
  <1> DEFINE c == WS!ClientFrame(m, masked)
  <1>1. Frame(c, m, masked)
    BY FrameLayout
  <1> HIDE DEF c
  <1>2. c \in Seq(Nat) /\ Len(c) \in Nat
    BY <1>1 DEF Frame
  <1> QED
    BY <1>2 DEF c

(* The bytes of buf after the place a, up to the place b, are those of c.      *)
Holds(buf, a, b, c) == b = a + Len(c) /\ \A j \in 1..Len(c) : buf[a + j] = c[j]

(* buf is cut into the frames of the messages of s after the first r.         *)
CutAt(buf, s, r, cuts) ==
    /\ cuts[r] = 0 /\ cuts[Len(s)] = Len(buf)
    /\ \A i, j \in r..Len(s) : i <= j => cuts[i] <= cuts[j]
    /\ \A i \in (r + 1)..Len(s) : \E masked \in BOOLEAN :
          Holds(buf, cuts[i - 1], cuts[i], WS!ClientFrame(s[i], masked))

Cut(buf, s, r) == \E cuts \in [r..Len(s) -> Nat] : CutAt(buf, s, r, cuts)

(* Until the client has closed: the server has read a prefix of what was sent, *)
(* what it has not read are the frames of the rest, and it has written the     *)
(* echoes of what it read.                                                     *)
Prefixed == /\ sent \in Seq(Payloads) /\ msgs \in Seq(Payloads)
            /\ Len(msgs) <= Len(sent) /\ \A i \in 1..Len(msgs) : msgs[i] = sent[i]

StreamInv == closed \in BOOLEAN /\
    (~closed => /\ inbound \in Seq(Nat) /\ Prefixed /\ Cut(inbound, sent, Len(msgs))
                /\ WS!Short => outbound = WS!Frames(msgs))

LEMMA CutGrows ==
  ASSUME NEW buf \in Seq(Nat), NEW s \in Seq(Payloads), NEW r \in Nat, r <= Len(s),
         Cut(buf, s, r), NEW m \in Payloads, NEW masked \in BOOLEAN
  PROVE  /\ buf \o WS!ClientFrame(m, masked) \in Seq(Nat)
         /\ Cut(buf \o WS!ClientFrame(m, masked), Append(s, m), r)
  <1> DEFINE c == WS!ClientFrame(m, masked)
             all == buf \o c
             more == Append(s, m)
             l == Len(s)
             b == Len(buf)
  <1>1. c \in Seq(Nat) /\ Len(c) \in Nat
    BY FrameIsSeq
  <1> HIDE DEF c
  <1>2. /\ all \in Seq(Nat) /\ Len(all) = b + Len(c) /\ b \in Nat
        /\ \A i \in 1..b : all[i] = buf[i]
        /\ \A i \in 1..Len(c) : all[b + i] = c[i]
    BY <1>1, Joined
  <1>3. /\ l \in Nat /\ more \in Seq(Payloads) /\ Len(more) = l + 1 /\ more[l + 1] = m
        /\ \A i \in 1..l : more[i] = s[i]
    OBVIOUS
  <1>4. PICK cuts \in [r..l -> Nat] : CutAt(buf, s, r, cuts)
    BY DEF Cut
  <1> DEFINE longer == [i \in r..(l + 1) |-> IF i = l + 1 THEN b + Len(c) ELSE cuts[i]]
  <1> HIDE DEF all, more, b
  <1>5. /\ longer \in [r..(l + 1) -> Nat] /\ longer[l + 1] = b + Len(c)
        /\ \A i \in r..l : longer[i] = cuts[i] /\ cuts[i] \in Nat /\ cuts[i] <= b
    <2>1. \A i \in r..l : i <= l /\ l \in r..l
      BY <1>3
    <2>2. \A i \in r..l : cuts[i] <= cuts[l] /\ cuts[l] = b
      BY <1>3, <1>4, <2>1 DEF CutAt, b
    <2>3. b + Len(c) \in Nat /\ \A i \in r..l : i # l + 1 /\ i \in r..(l + 1)
      BY <1>1, <1>2, <1>3
    <2>4. l + 1 \in r..(l + 1) /\ \A i \in r..(l + 1) : i # l + 1 => i \in r..l
      BY <1>3
    <2> QED
      BY <2>2, <2>3, <2>4
  <1> HIDE DEF longer
  <1>6. longer[r] = 0 /\ longer[Len(more)] = Len(all)
    <2>1. r \in r..l
      BY <1>3
    <2> QED
      BY <1>2, <1>3, <1>4, <1>5, <2>1 DEF CutAt
  <1>7. ASSUME NEW i \in r..(l + 1), NEW j \in r..(l + 1), i <= j PROVE longer[i] <= longer[j]
    <2>1. CASE j = l + 1
      <3>1. i = l + 1 \/ i \in r..l
        BY <1>3
      <3> QED
        BY <1>1, <1>2, <1>5, <2>1, <3>1
    <2>2. CASE j # l + 1
      <3>1. i \in r..l /\ j \in r..l
        BY <1>3, <1>7, <2>2
      <3> QED
        BY <1>4, <1>5, <1>7, <3>1 DEF CutAt
    <2> QED
      BY <2>1, <2>2
  <1>8. ASSUME NEW i \in (r + 1)..(l + 1)
        PROVE  \E q \in BOOLEAN :
                  Holds(all, longer[i - 1], longer[i], WS!ClientFrame(more[i], q))
    <2>1. CASE i = l + 1
      <3>1. i - 1 = l /\ l \in r..l
        BY <1>3, <2>1
      <3>2. longer[i - 1] = b /\ longer[i] = b + Len(c)
        BY <1>4, <1>5, <2>1, <3>1 DEF CutAt, b
      <3>3. WS!ClientFrame(more[i], masked) = c
        BY <1>3, <2>1 DEF c
      <3>4. Holds(all, longer[i - 1], longer[i], c)
        BY <1>2, <3>2 DEF Holds
      <3> QED
        BY <3>3, <3>4
    <2>2. CASE i # l + 1
      <3>1. i \in (r + 1)..l /\ i - 1 \in r..l /\ i \in r..l /\ i \in 1..l
        BY <1>3, <2>2
      <3>2. PICK q \in BOOLEAN : Holds(buf, cuts[i - 1], cuts[i], WS!ClientFrame(s[i], q))
        BY <1>4, <3>1 DEF CutAt
      <3> DEFINE d == WS!ClientFrame(s[i], q)
      <3>3. d \in Seq(Nat) /\ Len(d) \in Nat
        BY <3>1, FrameIsSeq
      <3>4. cuts[i] <= b /\ cuts[i - 1] \in Nat /\ cuts[i] = cuts[i - 1] + Len(d)
        BY <1>5, <3>1, <3>2 DEF Holds
      <3>5. \A j \in 1..Len(d) : buf[cuts[i - 1] + j] = d[j]
        BY <3>2 DEF Holds
      <3> HIDE DEF d
      <3>6. ASSUME NEW j \in 1..Len(d) PROVE cuts[i - 1] + j \in 1..b
        <4> DEFINE a == cuts[i - 1]
                   e == cuts[i]
                   p == Len(d)
        <4>1. a \in Nat /\ e <= b /\ e = a + p /\ p \in Nat /\ b \in Nat
          BY <1>2, <3>3, <3>4
        <4> HIDE DEF a, e
        <4>2. a + j \in 1..b
          BY <4>1
        <4> QED
          BY <4>2 DEF a
      <3>7. \A j \in 1..Len(d) : all[cuts[i - 1] + j] = d[j]
        BY <1>2, <3>5, <3>6
      <3>8. Holds(all, longer[i - 1], longer[i], d)
        BY <1>5, <3>1, <3>4, <3>7 DEF Holds
      <3>9. d = WS!ClientFrame(more[i], q)
        BY <1>3, <3>1 DEF d
      <3> QED
        BY <3>8, <3>9
    <2> QED
      BY <2>1, <2>2
  <1>9. CutAt(all, more, r, longer)
    BY <1>3, <1>6, <1>7, <1>8 DEF CutAt
  <1> QED
    BY <1>2, <1>3, <1>5, <1>9 DEF Cut, all, more, c

LEMMA FirstFrame ==
  ASSUME NEW buf \in Seq(Nat), NEW s \in Seq(Payloads), NEW r \in Nat, r <= Len(s),
         Cut(buf, s, r), Len(buf) >= 2
  PROVE  /\ r + 1 <= Len(s) /\ r + 1 \in 1..Len(s)
         /\ WS!Payload(buf) = s[r + 1] /\ s[r + 1] \in Payloads
         /\ WS!Rest(buf, WS!FrameLength(buf)) \in Seq(Nat)
         /\ Cut(WS!Rest(buf, WS!FrameLength(buf)), s, r + 1)
  <1> DEFINE l == Len(s)
             b == Len(buf)
             m == s[r + 1]
  <1>1. l \in Nat /\ b \in Nat
    OBVIOUS
  <1>2. PICK cuts \in [r..l -> Nat] : CutAt(buf, s, r, cuts)
    BY DEF Cut
  <1>3. cuts[r] = 0 /\ cuts[l] = b
    BY <1>2 DEF CutAt
  <1>4. r # l
    BY <1>1, <1>3
  <1>5. /\ r + 1 <= l /\ r + 1 \in 1..l /\ r + 1 \in (r + 1)..l /\ (r + 1) - 1 = r
        /\ r + 1 \in r..l /\ m \in Payloads
    BY <1>1, <1>4
  <1>6. PICK masked \in BOOLEAN : Holds(buf, cuts[r], cuts[r + 1], WS!ClientFrame(m, masked))
    BY <1>2, <1>5 DEF CutAt
  <1> DEFINE c == WS!ClientFrame(m, masked)
             p == Len(c)
             rest == WS!Rest(buf, p)
  <1>7. Frame(c, m, masked) /\ c \in Seq(Nat) /\ p \in Nat
    <2>1. Frame(c, m, masked)
      BY <1>5, FrameLayout
    <2>2. c \in Seq(Nat) /\ p \in Nat
      BY <1>5, FrameIsSeq
    <2> QED
      BY <2>1, <2>2
  <1>8. \A i \in (r + 1)..l : cuts[r + 1] <= cuts[i] /\ i \in r..l
    BY <1>1, <1>2, <1>5 DEF CutAt
  <1>9. cuts[r + 1] = p /\ p <= b /\ \A j \in 1..p : buf[j] = c[j]
    <2>1. cuts[r + 1] = 0 + p /\ \A j \in 1..p : buf[0 + j] = c[j]
      BY <1>3, <1>6 DEF Holds
    <2>2. \A j \in 1..p : 0 + j = j
      BY <1>7
    <2>3. l \in (r + 1)..l
      BY <1>1, <1>5
    <2> HIDE DEF p, c
    <2> QED
      BY <1>1, <1>3, <1>7, <1>8, <2>1, <2>2, <2>3
  <1> HIDE DEF m
  <1>10. WS!FrameLength(buf) = p /\ WS!Payload(buf) = m
    <2>1. m \in Payloads
      BY <1>5
    <2> HIDE DEF c
    <2> QED
      BY <1>7, <1>9, <2>1, ReadsFrame
  <1>11. /\ rest \in Seq(Nat) /\ Len(rest) = b - p
         /\ \A i \in 1..(b - p) : rest[i] = buf[p + i]
    <2>1. 0 \in Nat /\ p + 0 <= b
      BY <1>1, <1>7, <1>9
    <2> HIDE DEF p
    <2> QED
      BY <1>7, <2>1, BytesFrom
  <1> HIDE DEF c, p, rest
  <1> DEFINE fewer == [i \in (r + 1)..l |-> cuts[i] - p]
  <1>12. fewer \in [(r + 1)..l -> Nat]
    <2>1. \A i \in (r + 1)..l : cuts[i] \in Nat /\ p <= cuts[i]
      BY <1>8, <1>9
    <2> QED
      BY <1>7, <2>1
  <1>13. \A i \in (r + 1)..l : fewer[i] = cuts[i] - p /\ cuts[i] \in Nat /\ p <= cuts[i]
    BY <1>8, <1>9
  <1> HIDE DEF fewer
  <1>14. fewer[r + 1] = 0 /\ fewer[l] = Len(rest)
    <2>1. l \in (r + 1)..l /\ r + 1 \in (r + 1)..l
      BY <1>1, <1>5
    <2>2. fewer[r + 1] = cuts[r + 1] - p
      BY <1>13, <2>1
    <2>3. fewer[l] = cuts[l] - p
      BY <1>13, <2>1
    <2>4. fewer[r + 1] = 0
      BY <1>7, <1>9, <2>2
    <2> QED
      BY <1>3, <1>11, <2>3, <2>4
  <1>15. ASSUME NEW i \in (r + 1)..l, NEW j \in (r + 1)..l, i <= j PROVE fewer[i] <= fewer[j]
    <2>1. cuts[i] <= cuts[j]
      BY <1>2, <1>8, <1>15 DEF CutAt
    <2> QED
      BY <1>7, <1>13, <2>1
  <1>16. ASSUME NEW i \in (r + 1 + 1)..l
         PROVE  \E q \in BOOLEAN : Holds(rest, fewer[i - 1], fewer[i], WS!ClientFrame(s[i], q))
    <2>1. i \in (r + 1)..l /\ i - 1 \in (r + 1)..l /\ i \in 1..l
      BY <1>1
    <2>2. PICK q \in BOOLEAN : Holds(buf, cuts[i - 1], cuts[i], WS!ClientFrame(s[i], q))
      BY <1>2, <2>1 DEF CutAt
    <2> DEFINE d == WS!ClientFrame(s[i], q)
               a == cuts[i - 1]
    <2>3. d \in Seq(Nat) /\ Len(d) \in Nat
      BY <2>1, FrameIsSeq
    <2>4. cuts[i] = a + Len(d) /\ \A j \in 1..Len(d) : buf[a + j] = d[j]
      BY <2>2 DEF Holds
    <2>5. a \in Nat /\ p <= a /\ cuts[i] <= b /\ fewer[i - 1] = a - p /\ fewer[i] = cuts[i] - p
      <3>1. cuts[i] <= cuts[l]
        <4>1. i \in r..l /\ l \in r..l /\ i <= l
          BY <1>1, <2>1
        <4> QED
          BY <1>2, <4>1 DEF CutAt
      <3> QED
        BY <1>3, <1>13, <2>1, <3>1
    <2> HIDE DEF d, a
    <2>6. ASSUME NEW j \in 1..Len(d) PROVE rest[(a - p) + j] = d[j]
      <3>1. (a - p) + j \in 1..(b - p) /\ p + ((a - p) + j) = a + j
        <4> DEFINE e == cuts[i]
                   y == Len(d)
        <4>1. /\ a \in Nat /\ p \in Nat /\ y \in Nat /\ b \in Nat /\ p <= a
              /\ e = a + y /\ e <= b /\ j \in 1..y
          BY <1>1, <1>7, <2>3, <2>4, <2>5
        <4> HIDE DEF e, y
        <4> QED
          BY <4>1
      <3> QED
        BY <1>11, <2>4, <3>1
    <2>7. cuts[i] - p = (a - p) + Len(d)
      BY <1>7, <2>3, <2>4, <2>5
    <2>8. Holds(rest, fewer[i - 1], fewer[i], d)
      BY <2>5, <2>6, <2>7 DEF Holds
    <2> QED
      BY <2>8 DEF d
  <1>17. CutAt(rest, s, r + 1, fewer)
    BY <1>14, <1>15, <1>16 DEF CutAt
  <1>18. Cut(rest, s, r + 1)
    BY <1>12, <1>17 DEF Cut
  <1> QED
    BY <1>5, <1>10, <1>11, <1>18 DEF rest, m

LEMMA StreamInitInv == WS!Init => StreamInv
  <1> SUFFICES ASSUME WS!Init PROVE StreamInv
    OBVIOUS
  <1> USE DEF WS!Init
  <1>1. inbound \in Seq(Nat) /\ sent \in Seq(Payloads) /\ msgs \in Seq(Payloads)
        /\ Len(inbound) = 0 /\ Len(sent) = 0 /\ Len(msgs) = 0
    OBVIOUS
  <1>2. Cut(inbound, sent, 0)
    <2> DEFINE cuts == [i \in 0..0 |-> 0]
    <2>1. cuts \in [0..Len(sent) -> Nat]
      BY <1>1
    <2>2. CutAt(inbound, sent, 0, cuts)
      BY <1>1 DEF CutAt
    <2> QED
      BY <2>1, <2>2 DEF Cut
  <1>3. WS!Frames(msgs) = <<>>
    <2>1. FramesUpTo(msgs)[0] = <<>>
      BY <1>1, FramesUnfold
    <2> QED
      BY <1>1, <2>1 DEF WS!Frames, FramesUpTo
  <1>4. Prefixed
    BY <1>1 DEF Prefixed
  <1>5. Cut(inbound, sent, Len(msgs)) /\ closed \in BOOLEAN /\ outbound = WS!Frames(msgs)
    BY <1>1, <1>2, <1>3
  <1> QED
    BY <1>1, <1>4, <1>5 DEF StreamInv

LEMMA SendKeeps ==
  ASSUME StreamInv, NEW msg \in Payloads, NEW masked \in BOOLEAN, WS!ClientSends(msg, masked)
  PROVE  StreamInv'
  <1> USE DEF WS!ClientSends
  <1>1. /\ ~closed /\ inbound \in Seq(Nat) /\ Prefixed /\ Cut(inbound, sent, Len(msgs))
        /\ WS!Short => outbound = WS!Frames(msgs)
    BY DEF StreamInv
  <1>2. /\ sent \in Seq(Payloads) /\ msgs \in Seq(Payloads) /\ Len(msgs) \in Nat
        /\ Len(sent) \in Nat /\ Len(msgs) <= Len(sent)
        /\ \A i \in 1..Len(msgs) : msgs[i] = sent[i]
    BY <1>1 DEF Prefixed
  <1>3. /\ sent' \in Seq(Payloads) /\ Len(sent') = Len(sent) + 1 /\ DOMAIN sent' = 1..Len(sent')
        /\ \A i \in 1..Len(sent) : sent'[i] = sent[i]
    BY <1>2
  <1>4. inbound' \in Seq(Nat) /\ Cut(inbound', sent', Len(msgs'))
    BY <1>1, <1>2, CutGrows
  <1>5. Prefixed'
    BY <1>2, <1>3 DEF Prefixed
  <1>6. WS!Short' => WS!Short
    <2> DEFINE e == Len(WS!Prefix)
    <2> HIDE DEF e
    <2>1. \A i \in DOMAIN sent : i \in DOMAIN sent' /\ sent'[i] = sent[i]
      BY <1>2, <1>3
    <2>2. WS!Short <=> \A i \in DOMAIN sent : Len(sent[i]) + e < WS!Extended
      BY DEF WS!Short, e
    <2>3. WS!Short' <=> \A i \in DOMAIN sent' : Len(sent'[i]) + e < WS!Extended
      BY DEF WS!Short, e, WS!Prefix, WS!Extended
    <2> QED
      BY <2>1, <2>2, <2>3
  <1> QED
    BY <1>1, <1>4, <1>5, <1>6 DEF StreamInv

LEMMA ServeKeeps == ASSUME StreamInv, WS!Serve PROVE StreamInv'
  <1> USE DEF WS!Serve
  <1>0. CASE closed
    BY <1>0 DEF StreamInv
  <1>1. CASE ~closed
    <2>1. /\ inbound \in Seq(Nat) /\ Prefixed /\ Cut(inbound, sent, Len(msgs))
          /\ WS!Short => outbound = WS!Frames(msgs)
      BY <1>1 DEF StreamInv
    <2>2. /\ sent \in Seq(Payloads) /\ msgs \in Seq(Payloads) /\ Len(msgs) \in Nat
          /\ Len(sent) \in Nat /\ Len(msgs) <= Len(sent)
          /\ \A i \in 1..Len(msgs) : msgs[i] = sent[i]
      BY <2>1 DEF Prefixed
    <2> DEFINE m == sent[Len(msgs) + 1]
    <2>3. /\ Len(msgs) + 1 <= Len(sent) /\ Len(msgs) + 1 \in 1..Len(sent)
          /\ WS!Payload(inbound) = m /\ m \in Payloads
          /\ WS!Rest(inbound, WS!FrameLength(inbound)) \in Seq(Nat)
          /\ Cut(WS!Rest(inbound, WS!FrameLength(inbound)), sent, Len(msgs) + 1)
      BY <2>1, <2>2, FirstFrame
    <2> HIDE DEF m
    <2>4. /\ msgs' = Append(msgs, m) /\ sent' = sent
          /\ msgs' \in Seq(Payloads) /\ Len(msgs') = Len(msgs) + 1
          /\ msgs'[Len(msgs) + 1] = m /\ \A i \in 1..Len(msgs) : msgs'[i] = msgs[i]
      BY <2>2, <2>3
    <2>5. Prefixed'
      BY <2>2, <2>3, <2>4 DEF Prefixed, m
    <2>6. inbound' \in Seq(Nat) /\ Cut(inbound', sent', Len(msgs'))
      BY <2>3, <2>4
    <2>7. WS!Short' => outbound' = WS!Frames(msgs')
      <3> SUFFICES ASSUME WS!Short' PROVE outbound' = WS!Frames(msgs')
        OBVIOUS
      <3>1. WS!Short /\ Len(m) + 1 < 6
        BY <2>2, <2>3, <2>4 DEF WS!Short, WS!Prefix, WS!Extended, m
      <3>2. outbound = WS!Frames(msgs) /\ outbound \in Seq(Nat)
        BY <2>1, <2>2, <2>3, <3>1, FramesAppend
      <3>3. WS!Frames(msgs') = EchoAfter(outbound, m)
        BY <2>2, <2>3, <2>4, <3>2, FramesAppend
      <3>4. outbound' = outbound \o WS!ServerFrame(WS!Prefix \o m)
        BY <2>3
      <3> QED
        BY <2>3, <3>1, <3>2, <3>3, <3>4, EchoIsFrame
    <2> QED
      BY <2>5, <2>6, <2>7 DEF StreamInv
  <1> QED
    BY <1>0, <1>1 DEF StreamInv

LEMMA StreamNextInv == StreamInv /\ [WS!Next]_(WS!vars) => StreamInv'
  <1> SUFFICES ASSUME StreamInv, [WS!Next]_(WS!vars) PROVE StreamInv'
    OBVIOUS
  <1>1. CASE UNCHANGED WS!vars
    BY <1>1 DEF WS!vars, StreamInv, Prefixed, WS!Short
  <1>2. ASSUME NEW len \in Lengths, NEW masked \in BOOLEAN, NEW msg \in [1..len -> Bytes],
               WS!ClientSends(msg, masked)
        PROVE  StreamInv'
    <2>1. len \in Nat
      BY StructuresAssumption
    <2>2. msg \in Payloads
      BY <2>1 DEF Payloads
    <2> QED
      BY <1>2, <2>2, SendKeeps
  <1>3. ASSUME NEW lost \in 0..2, WS!ClientCloses(lost)
        PROVE  StreamInv'
    BY <1>3 DEF WS!ClientCloses, StreamInv
  <1>4. CASE WS!HandlerReturns
    BY <1>4 DEF WS!HandlerReturns, StreamInv
  <1> QED
    BY <1>1, <1>2, <1>3, <1>4, ServeKeeps DEF WS!Next

(* Whatever the lengths, masked or not: until the connection breaks the        *)
(* server reads the messages that were sent, and writes their frames.         *)
THEOREM StreamStaysInStep == WS!Spec => []StaysInStep
  <1>1. StreamInv => StaysInStep
    <2> SUFFICES ASSUME StreamInv, ~closed
                 PROVE  WS!IsPrefix(msgs, sent) /\ (WS!Short => outbound = WS!Frames(msgs))
      BY DEF StaysInStep, WS!StaysInStep
    <2>1. Prefixed /\ (WS!Short => outbound = WS!Frames(msgs))
      BY DEF StreamInv
    <2>2. /\ Len(msgs) \in Nat /\ Len(msgs) <= Len(sent)
          /\ \A i \in 1..Len(msgs) : msgs[i] = sent[i]
      BY <2>1 DEF Prefixed
    <2>3. SubSeq(msgs, 1, Len(msgs)) = SubSeq(sent, 1, Len(msgs))
      BY <2>2
    <2> QED
      BY <2>1, <2>2, <2>3 DEF WS!IsPrefix
  <1> QED
    BY <1>1, StreamInitInv, StreamNextInv, PTL DEF WS!Spec

-----------------------------------------------------------------------------
(* The composition: only one program moves, and a run of the composition is a *)
(* run of each.                                                               *)
LEMMA StructuresBegin ==
  StructuresInit => Init /\ LRU!Init /\ SM!Init /\ WS!Init
  BY DEF StructuresInit

LEMMA StructuresApart ==
  [StructuresNext]_allVars =>
     /\ [Next]_vars /\ [LRU!Next]_(LRU!vars) /\ [SM!Next]_(SM!vars)
     /\ [WS!Next]_(WS!vars)
  <1>1. /\ UNCHANGED lruVars => UNCHANGED LRU!vars
        /\ UNCHANGED mapVars => UNCHANGED SM!vars
        /\ UNCHANGED wsVars => UNCHANGED WS!vars
    BY DEF lruVars, mapVars, wsVars, LRU!vars, SM!vars, WS!vars
  <1> SUFFICES ASSUME [StructuresNext]_allVars
               PROVE  /\ [Next]_vars /\ [LRU!Next]_(LRU!vars) /\ [SM!Next]_(SM!vars)
                      /\ [WS!Next]_(WS!vars)
    OBVIOUS
  <1>2. CASE UNCHANGED allVars
    BY <1>1, <1>2 DEF allVars
  <1>3. CASE RingStep
    BY <1>1, <1>3 DEF RingStep
  <1>4. CASE LruStep
    BY <1>1, <1>4 DEF LruStep
  <1>5. CASE ShardedStep
    BY <1>1, <1>5 DEF ShardedStep
  <1>6. CASE WebsocketStep
    BY <1>1, <1>6 DEF WebsocketStep
  <1>7. CASE TrieStep \/ HeapStep \/ UnionfindStep \/ KruskalStep
    BY <1>1, <1>7 DEF TrieStep, HeapStep, UnionfindStep, KruskalStep
  <1>8. CASE SegmentsStep \/ PowerStep
    BY <1>1, <1>8 DEF SegmentsStep, PowerStep
  <1> QED
    BY <1>2, <1>3, <1>4, <1>5, <1>6, <1>7, <1>8 DEF StructuresNext

(* What the run checks of these four, for all constants at once.              *)
THEOREM StructuresKeepTheirPromises ==
  StructuresSpec => /\ [](RingInv /\ InOrder /\ WalkIsRegular /\ StaysInStep)
                    /\ RejectsOnlyWhenFull /\ IsFIFO /\ CacheIsRecencyList
  <1>1. StructuresInit /\ [][StructuresNext]_allVars =>
           Spec /\ LRU!Spec /\ SM!Spec /\ WS!Spec
    BY StructuresBegin, StructuresApart, PTL
       DEF Spec, LRU!Spec, SM!Spec, WS!Spec
  <1> QED
    BY <1>1, RingSafe, PopsInOrder, RejectsWhenFull, ImplementsFIFO,
       ImplementsRecencyList, WalksAreRegular, StreamStaysInStep, PTL
       DEF StructuresSpec
==============================================================================
