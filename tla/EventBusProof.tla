----------------------------- MODULE EventBusProof -----------------------------
(* Proofs about EventBus for any publishers, subscribers, topics, capacity    *)
(* and number of events.                                                      *)
EXTENDS EventBus, TLAPS

Shape ==
    /\ subscribers \in [Topics -> Seq(Subscribers)]
    /\ buf \in [Subscribers -> Seq(Events)]
    /\ \A s \in Subscribers : Len(buf[s]) <= BufferSize
    /\ status \in [Subscribers -> {"none", "open", "closed"}]
    /\ stopped \in [Subscribers -> BOOLEAN]
    /\ sent \in [Publishers -> 0..MaxEvents]
    /\ todo \in [Publishers -> Seq(Subscribers)]
    /\ publishing \in [Publishers -> BOOLEAN]
    /\ owed \in [Subscribers -> SUBSET Events]
    /\ got \in [Subscribers -> SUBSET Events]
    /\ lost \in [Subscribers -> SUBSET Events]

(* Whoever has channels to offer an event to is inside Publish, and so holds  *)
(* the read lock and has an event.                                            *)
Loops == \A p \in Publishers : /\ todo[p] # <<>> => publishing[p]
                               /\ publishing[p] => sent[p] # 0

IInv == Shape /\ Loops /\ RegisteredIffOpen /\ NoSendOnClosed

-----------------------------------------------------------------------------
LEMMA InToSet ==
  ASSUME NEW S, NEW q \in Seq(S)
  PROVE  /\ ToSet(q) \subseteq S
         /\ \A x : x \in ToSet(q) <=> \E i \in 1..Len(q) : q[i] = x
  BY DEF ToSet

LEMMA NoneInEmpty == ToSet(<<>>) = {} /\ Len(<<>>) = 0
  BY DEF ToSet

LEMMA InTail ==
  ASSUME NEW S, NEW q \in Seq(S), q # <<>>
  PROVE  /\ Head(q) \in S /\ Tail(q) \in Seq(S) /\ Len(Tail(q)) = Len(q) - 1
         /\ Head(q) \in ToSet(q) /\ ToSet(Tail(q)) \subseteq ToSet(q)
  <1>1. /\ Len(q) \in Nat \ {0} /\ Head(q) = q[1] /\ Tail(q) \in Seq(S)
        /\ Len(Tail(q)) = Len(q) - 1
        /\ \A i \in 1..(Len(q) - 1) : Tail(q)[i] = q[i + 1]
    OBVIOUS
  <1>2. q[1] \in S /\ 1 \in 1..Len(q)
    BY <1>1
  <1>3. ToSet(Tail(q)) \subseteq ToSet(q)
    <2> SUFFICES ASSUME NEW x \in ToSet(Tail(q)) PROVE x \in ToSet(q)
      OBVIOUS
    <2>0. \E i \in 1..Len(Tail(q)) : Tail(q)[i] = x
      <3> DEFINE tail == Tail(q)
      <3>1. tail \in Seq(S) /\ x \in ToSet(tail)
        BY <1>1
      <3> HIDE DEF tail
      <3>2. \E i \in 1..Len(tail) : tail[i] = x
        BY <3>1, InToSet
      <3> QED
        BY <3>2 DEF tail
    <2>1. PICK i \in 1..(Len(q) - 1) : Tail(q)[i] = x
      BY <1>1, <2>0
    <2>2. i + 1 \in 1..Len(q) /\ q[i + 1] = x
      BY <1>1, <2>1
    <2> QED
      BY <2>2, InToSet
  <1> QED
    BY <1>1, <1>2, <1>3, InToSet

LEMMA InUnion ==
  ASSUME NEW f \in [Topics -> Seq(Subscribers)]
  PROVE  \A s : s \in UNION {ToSet(f[t]) : t \in Topics} <=>
            \E t \in Topics : \E i \in 1..Len(f[t]) : f[t][i] = s
  BY InToSet

LEMMA WithoutElements ==
  ASSUME NEW S, NEW q \in Seq(S), NEW i \in 1..Len(q)
  PROVE  /\ Without(q, i) \in Seq(S)
         /\ Len(Without(q, i)) = Len(q) - 1
         /\ \A k \in 1..(i - 1) : Without(q, i)[k] = q[k]
         /\ \A k \in i..(Len(q) - 1) : Without(q, i)[k] = q[k + 1]
  <1> DEFINE before == SubSeq(q, 1, i - 1)
             after  == SubSeq(q, i + 1, Len(q))
  <1>1. /\ before \in Seq(S) /\ Len(before) = i - 1
        /\ \A k \in 1..(i - 1) : before[k] = q[k]
    OBVIOUS
  <1>2. /\ after \in Seq(S) /\ Len(after) = Len(q) - i
        /\ \A k \in 1..(Len(q) - i) : after[k] = q[k + i]
    OBVIOUS
  <1>3. Without(q, i) = before \o after
    BY DEF Without
  <1> HIDE DEF before, after
  <1>4. Without(q, i) \in Seq(S) /\ Len(Without(q, i)) = Len(q) - 1
    BY <1>1, <1>2, <1>3
  <1>5. \A k \in 1..(i - 1) : Without(q, i)[k] = q[k]
    BY <1>1, <1>2, <1>3
  <1>6. ASSUME NEW k \in i..(Len(q) - 1)
        PROVE  Without(q, i)[k] = q[k + 1]
    <2>1. k - (i - 1) \in 1..(Len(q) - i) /\ k - (i - 1) + i = k + 1
      OBVIOUS
    <2>2. Without(q, i)[k] = after[k - (i - 1)]
      BY <1>1, <1>2, <1>3, <2>1
    <2> QED
      BY <1>2, <2>1, <2>2
  <1> QED
    BY <1>4, <1>5, <1>6

-----------------------------------------------------------------------------
LEMMA InitIInv == BusInit => IInv
  <1> SUFFICES ASSUME BusInit PROVE IInv
    OBVIOUS
  <1> USE BusAssumption
  <1>1. \A t \in Topics : subscribers[t] = <<>>
    BY DEF BusInit
  <1>2. \A s \in Subscribers : buf[s] = <<>>
    BY DEF BusInit
  <1>3. \A s \in Subscribers : Len(buf[s]) <= BufferSize
    BY <1>2, NoneInEmpty
  <1>4. /\ subscribers \in [Topics -> Seq(Subscribers)]
        /\ buf \in [Subscribers -> Seq(Events)]
        /\ todo \in [Publishers -> Seq(Subscribers)]
    BY DEF BusInit
  <1>5. /\ owed \in [Subscribers -> SUBSET Events]
        /\ sent \in [Publishers -> 0..MaxEvents]
        /\ publishing \in [Publishers -> BOOLEAN]
        /\ stopped \in [Subscribers -> BOOLEAN]
        /\ status \in [Subscribers -> {"none", "open", "closed"}]
    BY DEF BusInit
  <1>6. got = owed /\ lost = owed
    BY DEF BusInit
  <1>7. Shape
    BY <1>3, <1>4, <1>5, <1>6 DEF Shape
  <1>8. Loops
    BY DEF BusInit, Loops
  <1>9. \A t \in Topics : DOMAIN subscribers[t] = {}
    BY <1>1
  <1>10. Registered = {}
    BY <1>1, NoneInEmpty DEF Registered
  <1>11. RegisteredIffOpen
    BY <1>9, <1>10 DEF BusInit, RegisteredIffOpen
  <1>12. NoSendOnClosed
    <2>1. \A p \in Publishers : ToSet(todo[p]) = {}
      BY NoneInEmpty DEF BusInit
    <2> QED
      BY <2>1 DEF NoSendOnClosed
  <1> QED
    BY <1>7, <1>8, <1>11, <1>12 DEF IInv

LEMMA RLockKeeps ==
  ASSUME IInv, NEW p \in Publishers, NEW t \in Topics, RLock(p, t)
  PROVE  IInv'
  <1> USE DEF IInv
  <1>1. UNCHANGED <<subscribers, buf, status, stopped, got, lost>>
    BY DEF RLock
  <1>2. sent[p] \in 0..MaxEvents /\ sent[p] < MaxEvents /\ sent'[p] = sent[p] + 1
    BY DEF RLock, Shape
  <1>3. sent' \in [Publishers -> 0..MaxEvents] /\ sent'[p] # 0
    BY <1>2, BusAssumption DEF RLock, Shape
  <1>4. /\ todo' \in [Publishers -> Seq(Subscribers)] /\ todo'[p] = subscribers[t]
        /\ publishing' \in [Publishers -> BOOLEAN] /\ publishing'[p]
        /\ \A q \in Publishers : q # p => /\ todo'[q] = todo[q] /\ sent'[q] = sent[q]
                                         /\ publishing'[q] = publishing[q]
    BY DEF RLock, Shape
  <1>5. <<p, sent[p] + 1>> \in Events
    BY <1>2, BusAssumption DEF Events
  <1>6. owed' \in [Subscribers -> SUBSET Events]
    BY <1>5 DEF RLock, Shape
  <1>7. Shape'
    BY <1>1, <1>3, <1>4, <1>6 DEF Shape
  <1>8. Loops'
    BY <1>3, <1>4 DEF Loops
  <1>9. RegisteredIffOpen'
    BY <1>1 DEF RegisteredIffOpen, Registered
  <1>10. \A s \in ToSet(subscribers[t]) : s \in Subscribers /\ s \in Registered
    BY InToSet DEF Shape, Registered
  <1>11. NoSendOnClosed'
    BY <1>1, <1>4, <1>10 DEF NoSendOnClosed, RegisteredIffOpen
  <1> QED
    BY <1>7, <1>8, <1>9, <1>11

LEMMA OfferKeeps ==
  ASSUME IInv, NEW p \in Publishers, Offer(p)
  PROVE  IInv'
  <1> USE DEF IInv
  <1> DEFINE s == Head(todo[p])
  <1>1. todo[p] \in Seq(Subscribers) /\ todo[p] # <<>>
    BY DEF Offer, Shape
  <1>2. /\ s \in Subscribers /\ Tail(todo[p]) \in Seq(Subscribers)
        /\ ToSet(Tail(todo[p])) \subseteq ToSet(todo[p])
    BY <1>1, InTail
  <1>3. Event(p) \in Events
    BY <1>1, BusAssumption DEF Event, Events, Loops, Shape
  <1>4. UNCHANGED <<subscribers, status, stopped, sent, publishing, owed, got>>
    BY DEF Offer
  <1>5. \/ /\ Len(buf[s]) < BufferSize /\ lost' = lost
           /\ buf' = [buf EXCEPT ![s] = Append(@, Event(p))]
        \/ buf' = buf /\ lost' = [lost EXCEPT ![s] = @ \cup {Event(p)}]
    BY DEF Offer
  <1>6. lost' \in [Subscribers -> SUBSET Events]
    <2>1. lost \in [Subscribers -> SUBSET Events] /\ lost[s] \cup {Event(p)} \in SUBSET Events
      BY <1>2, <1>3 DEF Shape
    <2> QED
      BY <1>2, <1>5, <2>1
  <1>7. buf' \in [Subscribers -> Seq(Events)]
        /\ \A r \in Subscribers : Len(buf'[r]) <= BufferSize
    <2>1. CASE Len(buf[s]) < BufferSize /\ buf' = [buf EXCEPT ![s] = Append(@, Event(p))]
      <3>1. buf[s] \in Seq(Events) /\ Append(buf[s], Event(p)) \in Seq(Events)
        BY <1>2, <1>3 DEF Shape
      <3>2. Len(Append(buf[s], Event(p))) = Len(buf[s]) + 1 /\ Len(buf[s]) \in Nat
        BY <3>1
      <3>3. Len(Append(buf[s], Event(p))) <= BufferSize
        BY <2>1, <3>2, BusAssumption
      <3> QED
        BY <1>2, <2>1, <3>1, <3>3 DEF Shape
    <2>2. CASE buf' = buf
      BY <2>2 DEF Shape
    <2> QED
      BY <1>5, <2>1, <2>2
  <1>8. /\ todo' \in [Publishers -> Seq(Subscribers)] /\ todo'[p] = Tail(todo[p])
        /\ \A q \in Publishers : q # p => todo'[q] = todo[q]
    BY <1>2 DEF Offer, Shape
  <1>9. Shape'
    BY <1>4, <1>6, <1>7, <1>8 DEF Shape
  <1>10. Loops'
    BY <1>1, <1>4, <1>8 DEF Loops
  <1>11. RegisteredIffOpen'
    BY <1>4 DEF RegisteredIffOpen, Registered
  <1>12. \A q \in Publishers : ToSet(todo'[q]) \subseteq ToSet(todo[q])
    BY <1>2, <1>8
  <1>13. NoSendOnClosed'
    BY <1>4, <1>12 DEF NoSendOnClosed
  <1> QED
    BY <1>9, <1>10, <1>11, <1>13

LEMMA RUnlockKeeps ==
  ASSUME IInv, NEW p \in Publishers, RUnlock(p)
  PROVE  IInv'
  <1> USE DEF IInv
  <1>1. UNCHANGED <<subscribers, buf, status, stopped, sent, todo, owed, got, lost>>
    BY DEF RUnlock, history
  <1>2. /\ publishing' \in [Publishers -> BOOLEAN] /\ todo[p] = <<>>
        /\ \A q \in Publishers : \/ publishing'[q] = publishing[q]
                                 \/ q = p /\ publishing'[q] = FALSE
    BY DEF RUnlock, Shape
  <1>3. Shape'
    BY <1>1, <1>2 DEF Shape
  <1>4. Loops'
    BY <1>1, <1>2 DEF Loops
  <1>5. RegisteredIffOpen' /\ NoSendOnClosed'
    BY <1>1 DEF RegisteredIffOpen, NoSendOnClosed, Registered
  <1> QED
    BY <1>3, <1>4, <1>5

(* A writer runs when nobody has a channel left to offer an event to.         *)
LEMMA NobodyOffers ==
  ASSUME IInv, NoReaders
  PROVE  \A p \in Publishers : ToSet(todo[p]) = {}
  BY NoneInEmpty DEF IInv, Loops, NoReaders

(* What a writer changes, and what it must show of it.                        *)
LEMMA WriterKeeps ==
  ASSUME IInv, NoReaders, UNCHANGED <<buf, stopped, publisher, history>>,
         subscribers' \in [Topics -> Seq(Subscribers)],
         status' \in [Subscribers -> {"none", "open", "closed"}],
         RegisteredIffOpen'
  PROVE  IInv'
  <1>1. UNCHANGED <<buf, stopped, sent, todo, publishing, owed, got, lost>>
    BY DEF publisher, history
  <1>2. Shape'
    BY <1>1 DEF IInv, Shape
  <1>3. Loops'
    BY <1>1 DEF IInv, Loops
  <1>4. NoSendOnClosed'
    BY <1>1, NobodyOffers DEF NoSendOnClosed
  <1> QED
    BY <1>2, <1>3, <1>4 DEF IInv

LEMMA SubscribeKeeps ==
  ASSUME IInv, NEW s \in Subscribers, NEW t \in Topics, Subscribe(s, t)
  PROVE  IInv'
  <1> DEFINE n == Len(subscribers[t])
  <1>1. /\ NoReaders /\ status[s] = "none" /\ status \in [Subscribers -> {"none", "open", "closed"}]
        /\ subscribers \in [Topics -> Seq(Subscribers)] /\ RegisteredIffOpen
    BY DEF Subscribe, IInv, Shape
  <1>2. /\ status' \in [Subscribers -> {"none", "open", "closed"}] /\ status'[s] = "open"
        /\ \A q \in Subscribers : q # s => status'[q] = status[q]
    BY <1>1 DEF Subscribe
  <1>3. Append(subscribers[t], s) \in Seq(Subscribers) /\ subscribers[t] \in Seq(Subscribers)
    BY <1>1
  <1>4. /\ subscribers' \in [Topics -> Seq(Subscribers)]
        /\ subscribers'[t] = Append(subscribers[t], s)
        /\ \A u \in Topics : u # t => subscribers'[u] = subscribers[u]
    BY <1>1, <1>3 DEF Subscribe
  <1>5. /\ Len(subscribers'[t]) = n + 1 /\ subscribers'[t][n + 1] = s /\ n \in Nat
        /\ \A i \in 1..n : subscribers'[t][i] = subscribers[t][i]
        /\ \A u \in Topics : Len(subscribers[u]) \in Nat
    BY <1>1, <1>3, <1>4
  <1>a. ASSUME NEW w \in Topics, NEW k \in 1..Len(subscribers[w])
        PROVE  k \in 1..Len(subscribers'[w]) /\ subscribers'[w][k] = subscribers[w][k]
    <2>1. CASE w = t
      BY <1>5, <2>1
    <2>2. CASE w # t
      BY <1>4, <2>2
    <2> QED
      BY <2>1, <2>2
  <1>b. ASSUME NEW w \in Topics, NEW k \in 1..Len(subscribers'[w]), ~(w = t /\ k = n + 1)
        PROVE  k \in 1..Len(subscribers[w]) /\ subscribers'[w][k] = subscribers[w][k]
    <2>1. CASE w = t
      BY <1>5, <1>b, <2>1
    <2>2. CASE w # t
      BY <1>4, <2>2
    <2> QED
      BY <2>1, <2>2
  <1>6. \A q : q \in Registered <=>
            \E u \in Topics : \E i \in 1..Len(subscribers[u]) : subscribers[u][i] = q
    BY <1>1, InUnion DEF Registered
  <1>7. \A q : q \in Registered' <=>
            \E u \in Topics : \E i \in 1..Len(subscribers'[u]) : subscribers'[u][i] = q
    BY <1>4, InUnion DEF Registered
  <1>8. s \notin Registered
    BY <1>1 DEF RegisteredIffOpen
  <1>9. ASSUME NEW q \in Subscribers
        PROVE  status'[q] = "open" <=> q \in Registered'
    <2>1. CASE q = s
      <3>1. n + 1 \in 1..Len(subscribers'[t])
        BY <1>5
      <3> QED
        BY <1>2, <1>5, <1>7, <2>1, <3>1
    <2>2. CASE q # s
      <3>1. q \in Registered => q \in Registered'
        <4> SUFFICES ASSUME q \in Registered PROVE q \in Registered'
          OBVIOUS
        <4>1. PICK u \in Topics : \E i \in 1..Len(subscribers[u]) : subscribers[u][i] = q
          BY <1>6
        <4>2. PICK i \in 1..Len(subscribers[u]) : subscribers[u][i] = q
          BY <4>1
        <4>3. i \in 1..Len(subscribers'[u]) /\ subscribers'[u][i] = q
          BY <1>a, <4>2
        <4> QED
          BY <1>7, <4>3
      <3>2. q \in Registered' => q \in Registered
        <4> SUFFICES ASSUME q \in Registered' PROVE q \in Registered
          OBVIOUS
        <4>1. PICK u \in Topics : \E i \in 1..Len(subscribers'[u]) : subscribers'[u][i] = q
          BY <1>7
        <4>2. PICK i \in 1..Len(subscribers'[u]) : subscribers'[u][i] = q
          BY <4>1
        <4>3. i \in 1..Len(subscribers[u]) /\ subscribers[u][i] = q
          BY <1>5, <1>b, <2>2, <4>2
        <4> QED
          BY <1>6, <4>3
      <3>3. status[q] = "open" <=> q \in Registered
        BY <1>1 DEF RegisteredIffOpen
      <3> QED
        BY <1>2, <2>2, <3>1, <3>2, <3>3
    <2> QED
      BY <2>1, <2>2
  <1>10. ASSUME NEW u \in Topics, NEW v \in Topics,
                NEW i \in 1..Len(subscribers'[u]), NEW j \in 1..Len(subscribers'[v]),
                subscribers'[u][i] = subscribers'[v][j]
         PROVE  u = v /\ i = j
    <2>1. ASSUME NEW w \in Topics, NEW k \in 1..Len(subscribers'[w])
          PROVE  \/ w = t /\ k = n + 1 /\ subscribers'[w][k] = s
                 \/ /\ k \in 1..Len(subscribers[w]) /\ subscribers'[w][k] = subscribers[w][k]
                    /\ subscribers[w][k] # s
      <3>1. CASE w = t /\ k = n + 1
        BY <1>5, <3>1
      <3>2. CASE ~(w = t /\ k = n + 1)
        <4>1. k \in 1..Len(subscribers[w]) /\ subscribers'[w][k] = subscribers[w][k]
          BY <1>b, <3>2
        <4>2. subscribers[w][k] # s
          BY <1>6, <1>8, <4>1
        <4> QED
          BY <4>1, <4>2
      <3> QED
        BY <3>1, <3>2
    <2>2. CASE subscribers'[u][i] = s
      <3>1. u = t /\ i = n + 1
        BY <2>1, <2>2
      <3>2. v = t /\ j = n + 1
        BY <1>10, <2>1, <2>2
      <3> QED
        BY <3>1, <3>2
    <2>3. CASE subscribers'[u][i] # s
      <3>1. /\ i \in 1..Len(subscribers[u]) /\ subscribers'[u][i] = subscribers[u][i]
            /\ j \in 1..Len(subscribers[v]) /\ subscribers'[v][j] = subscribers[v][j]
        BY <1>10, <2>1, <2>3
      <3>2. i \in DOMAIN subscribers[u] /\ j \in DOMAIN subscribers[v]
        BY <1>1, <3>1
      <3>3. subscribers[u][i] = subscribers[v][j]
        BY <1>10, <3>1
      <3> QED
        BY <1>1, <3>2, <3>3 DEF RegisteredIffOpen
    <2> QED
      BY <2>2, <2>3
  <1>11. \A u \in Topics : DOMAIN subscribers'[u] = 1..Len(subscribers'[u])
    BY <1>4
  <1>12. RegisteredIffOpen'
    BY <1>9, <1>10, <1>11 DEF RegisteredIffOpen
  <1> QED
    BY <1>1, <1>2, <1>4, <1>12, WriterKeeps DEF Subscribe

LEMMA UnsubscribeKeeps ==
  ASSUME IInv, NEW s \in Subscribers, NEW t \in Topics, Unsubscribe(s, t)
  PROVE  IInv'
  <1>1. /\ NoReaders /\ status \in [Subscribers -> {"none", "open", "closed"}]
        /\ subscribers \in [Topics -> Seq(Subscribers)] /\ RegisteredIffOpen
    BY DEF Unsubscribe, IInv, Shape
  <1>2. /\ status' \in [Subscribers -> {"none", "open", "closed"}] /\ status'[s] = "closed"
        /\ \A q \in Subscribers : q # s => status'[q] = status[q]
    BY <1>1 DEF Unsubscribe
  <1>3. PICK i \in 1..Len(subscribers[t]) :
           /\ subscribers[t][i] = s
           /\ subscribers' = [subscribers EXCEPT ![t] = Without(@, i)]
    <2>1. DOMAIN subscribers[t] = 1..Len(subscribers[t])
      BY <1>1
    <2> QED
      BY <2>1 DEF Unsubscribe
  <1> DEFINE n == Len(subscribers[t])
             old(w, k) == IF w = t /\ k >= i THEN k + 1 ELSE k
  <1>4. subscribers[t] \in Seq(Subscribers) /\ n \in Nat
    BY <1>1
  <1>5. /\ Without(subscribers[t], i) \in Seq(Subscribers)
        /\ Len(Without(subscribers[t], i)) = n - 1
        /\ \A k \in 1..(i - 1) : Without(subscribers[t], i)[k] = subscribers[t][k]
        /\ \A k \in i..(n - 1) : Without(subscribers[t], i)[k] = subscribers[t][k + 1]
    BY <1>3, <1>4, WithoutElements
  <1>6. /\ subscribers' \in [Topics -> Seq(Subscribers)]
        /\ subscribers'[t] = Without(subscribers[t], i)
        /\ \A u \in Topics : u # t => subscribers'[u] = subscribers[u]
    BY <1>1, <1>3, <1>5
  <1>7. /\ \A u \in Topics : DOMAIN subscribers[u] = 1..Len(subscribers[u])
        /\ \A u \in Topics : DOMAIN subscribers'[u] = 1..Len(subscribers'[u])
        /\ \A u \in Topics : Len(subscribers[u]) \in Nat
    BY <1>1, <1>6
  <1>8. ASSUME NEW w \in Topics, NEW k \in 1..Len(subscribers'[w])
        PROVE  /\ old(w, k) \in 1..Len(subscribers[w])
               /\ subscribers'[w][k] = subscribers[w][old(w, k)]
               /\ ~(w = t /\ old(w, k) = i)
    <2>1. CASE w = t /\ k >= i
      <3>1. k \in i..(n - 1)
        BY <1>3, <1>4, <1>5, <1>6, <2>1
      <3> QED
        BY <1>3, <1>4, <1>5, <1>6, <2>1, <3>1
    <2>2. CASE w = t /\ ~(k >= i)
      <3>1. k \in 1..(i - 1) /\ k \in 1..n /\ k # i
        BY <1>3, <1>4, <2>2
      <3> QED
        BY <1>5, <1>6, <2>2, <3>1
    <2>3. CASE w # t
      BY <1>6, <2>3
    <2> QED
      BY <2>1, <2>2, <2>3
  <1>9. ASSUME NEW w \in Topics, NEW k \in 1..Len(subscribers[w]), ~(w = t /\ k = i)
        PROVE  \E j \in 1..Len(subscribers'[w]) : subscribers'[w][j] = subscribers[w][k]
    <2>1. CASE w = t /\ k > i
      <3>1. k - 1 \in i..(n - 1) /\ k - 1 \in 1..(n - 1) /\ (k - 1) + 1 = k
        BY <1>3, <1>4, <2>1
      <3>2. k - 1 \in 1..Len(subscribers'[w])
        BY <1>5, <1>6, <2>1, <3>1
      <3>3. subscribers'[w][k - 1] = subscribers[w][k]
        BY <1>5, <1>6, <2>1, <3>1
      <3> QED
        BY <3>2, <3>3
    <2>2. CASE w = t /\ ~(k > i)
      <3>1. k \in 1..(i - 1) /\ k \in 1..(n - 1)
        BY <1>3, <1>4, <1>9, <2>2
      <3>2. k \in 1..Len(subscribers'[w]) /\ subscribers'[w][k] = subscribers[w][k]
        BY <1>5, <1>6, <2>2, <3>1
      <3> QED
        BY <3>2
    <2>3. CASE w # t
      BY <1>6, <2>3
    <2> QED
      BY <2>1, <2>2, <2>3
  <1>10. ASSUME NEW u \in Topics, NEW v \in Topics,
                NEW k \in 1..Len(subscribers[u]), NEW j \in 1..Len(subscribers[v]),
                subscribers[u][k] = subscribers[v][j]
         PROVE  u = v /\ k = j
    BY <1>1, <1>7, <1>10 DEF RegisteredIffOpen
  <1>11. \A q : q \in Registered <=>
            \E u \in Topics : \E k \in 1..Len(subscribers[u]) : subscribers[u][k] = q
    BY <1>1, InUnion DEF Registered
  <1>12. \A q : q \in Registered' <=>
            \E u \in Topics : \E k \in 1..Len(subscribers'[u]) : subscribers'[u][k] = q
    BY <1>6, InUnion DEF Registered
  <1>13. s \notin Registered'
    <2> SUFFICES ASSUME s \in Registered' PROVE FALSE
      OBVIOUS
    <2>1. PICK w \in Topics : \E k \in 1..Len(subscribers'[w]) : subscribers'[w][k] = s
      BY <1>12
    <2>2. PICK k \in 1..Len(subscribers'[w]) : subscribers'[w][k] = s
      BY <2>1
    <2>3. /\ old(w, k) \in 1..Len(subscribers[w]) /\ subscribers[w][old(w, k)] = s
          /\ ~(w = t /\ old(w, k) = i)
      BY <1>8, <2>2
    <2> HIDE DEF old
    <2> QED
      BY <1>3, <1>10, <2>3
  <1>14. ASSUME NEW q \in Subscribers, q # s
         PROVE  q \in Registered <=> q \in Registered'
    <2>1. ASSUME q \in Registered PROVE q \in Registered'
      <3>1. PICK w \in Topics : \E k \in 1..Len(subscribers[w]) : subscribers[w][k] = q
        BY <1>11, <2>1
      <3>2. PICK k \in 1..Len(subscribers[w]) : subscribers[w][k] = q
        BY <3>1
      <3>3. ~(w = t /\ k = i)
        BY <1>3, <1>14, <3>2
      <3>4. \E j \in 1..Len(subscribers'[w]) : subscribers'[w][j] = q
        BY <1>9, <3>2, <3>3
      <3> QED
        BY <1>12, <3>4
    <2>2. ASSUME q \in Registered' PROVE q \in Registered
      <3>1. PICK w \in Topics : \E k \in 1..Len(subscribers'[w]) : subscribers'[w][k] = q
        BY <1>12, <2>2
      <3>2. PICK k \in 1..Len(subscribers'[w]) : subscribers'[w][k] = q
        BY <3>1
      <3>3. old(w, k) \in 1..Len(subscribers[w]) /\ subscribers[w][old(w, k)] = q
        BY <1>8, <3>2
      <3> HIDE DEF old
      <3> QED
        BY <1>11, <3>3
    <2> QED
      BY <2>1, <2>2
  <1>15. \A q \in Subscribers : status'[q] = "open" <=> q \in Registered'
    BY <1>1, <1>2, <1>13, <1>14 DEF RegisteredIffOpen
  <1>16. ASSUME NEW u \in Topics, NEW v \in Topics,
                NEW k \in 1..Len(subscribers'[u]), NEW j \in 1..Len(subscribers'[v]),
                subscribers'[u][k] = subscribers'[v][j]
         PROVE  u = v /\ k = j
    <2>1. /\ old(u, k) \in 1..Len(subscribers[u]) /\ old(v, j) \in 1..Len(subscribers[v])
          /\ subscribers[u][old(u, k)] = subscribers[v][old(v, j)]
      BY <1>8, <1>16
    <2>2. u = v /\ old(u, k) = old(v, j)
      <3> HIDE DEF old
      <3> QED
        BY <1>10, <2>1
    <2>3. k \in Int /\ j \in Int
      OBVIOUS
    <2> QED
      BY <1>3, <2>2, <2>3
  <1>17. RegisteredIffOpen'
    BY <1>7, <1>15, <1>16 DEF RegisteredIffOpen
  <1> QED
    BY <1>1, <1>2, <1>6, <1>17, WriterKeeps DEF Unsubscribe

LEMMA CloseKeeps ==
  ASSUME IInv, Close
  PROVE  IInv'
  <1>1. /\ NoReaders /\ status \in [Subscribers -> {"none", "open", "closed"}]
        /\ RegisteredIffOpen
    BY DEF Close, IInv, Shape
  <1>2. /\ status' \in [Subscribers -> {"none", "open", "closed"}]
        /\ \A s \in Subscribers : status'[s] # "open"
    BY <1>1 DEF Close, RegisteredIffOpen
  <1>3. /\ subscribers' \in [Topics -> Seq(Subscribers)]
        /\ \A t \in Topics : subscribers'[t] = <<>>
    BY DEF Close
  <1>4. Registered' = {} /\ \A t \in Topics : DOMAIN subscribers'[t] = {}
    BY <1>3, NoneInEmpty DEF Registered
  <1>5. RegisteredIffOpen'
    BY <1>2, <1>4 DEF RegisteredIffOpen
  <1> QED
    BY <1>1, <1>2, <1>3, <1>5, WriterKeeps DEF Close

-----------------------------------------------------------------------------
LEMMA ReceiveKeeps ==
  ASSUME IInv, NEW s \in Subscribers, Receive(s)
  PROVE  IInv'
  <1> USE DEF IInv
  <1>1. buf[s] \in Seq(Events) /\ buf[s] # <<>> /\ Len(buf[s]) <= BufferSize
    BY DEF Receive, Shape
  <1>2. /\ Head(buf[s]) \in Events /\ Tail(buf[s]) \in Seq(Events)
        /\ Len(Tail(buf[s])) = Len(buf[s]) - 1 /\ Len(buf[s]) \in Nat
    BY <1>1, InTail
  <1>3. UNCHANGED <<subscribers, status, stopped, sent, todo, publishing, owed, lost>>
    BY DEF Receive, publisher
  <1>4. buf' \in [Subscribers -> Seq(Events)]
        /\ \A r \in Subscribers : Len(buf'[r]) <= BufferSize
    <2>1. Len(Tail(buf[s])) <= BufferSize
      BY <1>1, <1>2, BusAssumption
    <2> QED
      BY <1>2, <2>1 DEF Receive, Shape
  <1>5. got' \in [Subscribers -> SUBSET Events]
    <2>1. got \in [Subscribers -> SUBSET Events]
          /\ got[s] \cup {Head(buf[s])} \in SUBSET Events
      BY <1>2 DEF Shape
    <2> QED
      BY <2>1 DEF Receive
  <1>6. Shape'
    BY <1>3, <1>4, <1>5 DEF Shape
  <1>7. Loops' /\ RegisteredIffOpen' /\ NoSendOnClosed'
    BY <1>3 DEF Loops, RegisteredIffOpen, NoSendOnClosed, Registered
  <1> QED
    BY <1>6, <1>7

LEMMA StopKeeps ==
  ASSUME IInv, NEW s \in Subscribers, Stop(s)
  PROVE  IInv'
  <1>1. /\ UNCHANGED <<subscribers, buf, status, sent, todo, publishing, owed, got, lost>>
        /\ stopped' = [stopped EXCEPT ![s] = TRUE]
    BY DEF Stop, publisher, history
  <1>2. Shape'
    BY <1>1 DEF IInv, Shape
  <1>3. Loops' /\ RegisteredIffOpen' /\ NoSendOnClosed'
    BY <1>1 DEF IInv, Loops, RegisteredIffOpen, NoSendOnClosed, Registered
  <1> QED
    BY <1>2, <1>3 DEF IInv

LEMMA StutterKeeps ==
  ASSUME IInv, UNCHANGED busVars
  PROVE  IInv'
  <1>1. UNCHANGED <<subscribers, buf, status, stopped, sent, todo, publishing,
                    owed, got, lost>>
    BY DEF busVars, publisher, history
  <1>2. Shape'
    BY <1>1 DEF IInv, Shape
  <1>3. Loops' /\ RegisteredIffOpen' /\ NoSendOnClosed'
    BY <1>1 DEF IInv, Loops, RegisteredIffOpen, NoSendOnClosed, Registered
  <1> QED
    BY <1>2, <1>3 DEF IInv

LEMMA NextKeeps == IInv /\ [BusNext]_busVars => IInv'
  <1> SUFFICES ASSUME IInv, [BusNext]_busVars PROVE IInv'
    OBVIOUS
  <1>1. ASSUME NEW p \in Publishers, Publish(p) PROVE IInv'
    BY <1>1, RLockKeeps, OfferKeeps, RUnlockKeeps DEF Publish
  <1>2. ASSUME NEW s \in Subscribers, NEW t \in Topics, Subscribe(s, t) \/ Unsubscribe(s, t)
        PROVE  IInv'
    BY <1>2, SubscribeKeeps, UnsubscribeKeeps
  <1>3. CASE Close
    BY <1>3, CloseKeeps
  <1>4. ASSUME NEW s \in Subscribers, Receive(s) \/ Stop(s) PROVE IInv'
    BY <1>4, ReceiveKeeps, StopKeeps
  <1>5. CASE UNCHANGED busVars
    BY <1>5, StutterKeeps
  <1> QED
    BY <1>1, <1>2, <1>3, <1>4, <1>5 DEF BusNext

LEMMA ShapeImplies == Shape => BusTypeOK
  <1> SUFFICES ASSUME Shape PROVE BusTypeOK
    OBVIOUS
  <1>1. \A t \in Topics : ToSet(subscribers[t]) \subseteq Subscribers
    BY InToSet DEF Shape
  <1>2. \A s \in Subscribers : ToSet(buf[s]) \subseteq Events
    BY InToSet DEF Shape
  <1> QED
    BY <1>1, <1>2 DEF Shape, BusTypeOK

(* For any number of publishers and subscribers, and whatever is subscribed,  *)
(* unsubscribed and closed meanwhile: a channel is open exactly while it is   *)
(* registered, once, and no Publish sends on a closed one.                    *)
THEOREM BusSafe == BusSpec => []BusInv
  <1>1. IInv => BusInv
    BY ShapeImplies DEF IInv, BusInv
  <1> QED
    BY InitIInv, NextKeeps, <1>1, PTL DEF BusSpec

-----------------------------------------------------------------------------
(* Delivery.  The events of a channel, as a sequence and as a set.            *)
LEMMA AppendFacts ==
  ASSUME NEW S, NEW q \in Seq(S), NEW x \in S
  PROVE  /\ Append(q, x) \in Seq(S) /\ Len(Append(q, x)) = Len(q) + 1 /\ Len(q) \in Nat
         /\ Append(q, x)[Len(q) + 1] = x
         /\ \A i \in 1..Len(q) : Append(q, x)[i] = q[i]
  OBVIOUS

LEMMA InAppend ==
  ASSUME NEW S, NEW q \in Seq(S), NEW x \in S
  PROVE  /\ ToSet(Append(q, x)) = ToSet(q) \cup {x}
         /\ IsInjective(q) /\ x \notin ToSet(q) => IsInjective(Append(q, x))
  <1> DEFINE a == Append(q, x)
             n == Len(q)
  <1>1. /\ a \in Seq(S) /\ Len(a) = n + 1 /\ n \in Nat /\ a[n + 1] = x
        /\ \A i \in 1..n : a[i] = q[i]
    BY AppendFacts
  <1>2. DOMAIN q = 1..n /\ DOMAIN a = 1..(n + 1)
    BY <1>1
  <1> HIDE DEF a, n
  <1>3. ToSet(a) = ToSet(q) \cup {x}
    <2>1. \A y \in ToSet(a) : y \in ToSet(q) \cup {x}
      BY <1>1, <1>2 DEF ToSet
    <2>2. \A y \in ToSet(q) : y \in ToSet(a)
      BY <1>1, <1>2 DEF ToSet
    <2>3. x \in ToSet(a)
      BY <1>1, <1>2 DEF ToSet
    <2> QED
      BY <2>1, <2>2, <2>3
  <1>4. ASSUME IsInjective(q), x \notin ToSet(q) PROVE IsInjective(a)
    <2>1. \A i \in 1..n : q[i] # x
      BY <1>2, <1>4 DEF ToSet
    <2> SUFFICES ASSUME NEW i \in 1..(n + 1), NEW j \in 1..(n + 1), a[i] = a[j]
                 PROVE  i = j
      BY <1>2 DEF IsInjective
    <2>2. CASE i \in 1..n /\ j \in 1..n
      BY <1>1, <1>2, <1>4, <2>2 DEF IsInjective
    <2>3. CASE i = n + 1 \/ j = n + 1
      BY <1>1, <2>1, <2>3
    <2> QED
      BY <1>1, <2>2, <2>3
  <1> QED
    BY <1>3, <1>4 DEF a

LEMMA TailFacts ==
  ASSUME NEW S, NEW q \in Seq(S), q # <<>>
  PROVE  /\ Len(q) \in Nat \ {0} /\ Head(q) = q[1] /\ Tail(q) \in Seq(S)
         /\ Len(Tail(q)) = Len(q) - 1
         /\ \A i \in 1..(Len(q) - 1) : Tail(q)[i] = q[i + 1]
  OBVIOUS

LEMMA OutOfTail ==
  ASSUME NEW S, NEW q \in Seq(S), q # <<>>
  PROVE  /\ ToSet(q) = {Head(q)} \cup ToSet(Tail(q))
         /\ IsInjective(q) => IsInjective(Tail(q)) /\ Head(q) \notin ToSet(Tail(q))
  <1> DEFINE a == Tail(q)
             x == Head(q)
             n == Len(q)
  <1>1. /\ a \in Seq(S) /\ Len(a) = n - 1 /\ n \in Nat \ {0} /\ x = q[1]
        /\ \A i \in 1..(n - 1) : a[i] = q[i + 1]
    BY TailFacts
  <1>2. DOMAIN q = 1..n /\ DOMAIN a = 1..(n - 1)
    BY <1>1
  <1> HIDE DEF a, x, n
  <1>3. ToSet(q) = {x} \cup ToSet(a)
    <2>1. ASSUME NEW y \in ToSet(q) PROVE y \in {x} \cup ToSet(a)
      <3>1. PICK i \in 1..n : y = q[i]
        BY <1>2, <2>1 DEF ToSet
      <3>2. CASE i = 1
        BY <1>1, <3>1, <3>2
      <3>3. CASE i # 1
        <4>1. i - 1 \in 1..(n - 1) /\ (i - 1) + 1 = i
          BY <1>1, <3>3
        <4>2. a[i - 1] = y
          BY <1>1, <3>1, <4>1
        <4> QED
          BY <1>2, <4>1, <4>2 DEF ToSet
      <3> QED
        BY <3>2, <3>3
    <2>2. ASSUME NEW y \in ToSet(a) PROVE y \in ToSet(q)
      <3>1. PICK i \in 1..(n - 1) : y = a[i]
        BY <1>2, <2>2 DEF ToSet
      <3>2. i + 1 \in 1..n /\ q[i + 1] = y
        BY <1>1, <3>1
      <3> QED
        BY <1>2, <3>2 DEF ToSet
    <2>3. x \in ToSet(q)
      <3>1. 1 \in 1..n
        BY <1>1
      <3> QED
        BY <1>1, <1>2, <3>1 DEF ToSet
    <2> QED
      BY <2>1, <2>2, <2>3
  <1>4. ASSUME IsInjective(q) PROVE IsInjective(a) /\ x \notin ToSet(a)
    <2>1. \A i, j \in 1..n : q[i] = q[j] => i = j
      BY <1>2, <1>4 DEF IsInjective
    <2>2. IsInjective(a)
      <3> SUFFICES ASSUME NEW i \in 1..(n - 1), NEW j \in 1..(n - 1), a[i] = a[j]
                   PROVE  i = j
        BY <1>2 DEF IsInjective
      <3>1. i + 1 \in 1..n /\ j + 1 \in 1..n /\ q[i + 1] = q[j + 1]
        BY <1>1
      <3>2. i + 1 = j + 1
        BY <2>1, <3>1
      <3> QED
        BY <3>2
    <2>3. ASSUME NEW i \in 1..(n - 1) PROVE a[i] # x
      <3>1. i + 1 \in 1..n /\ 1 \in 1..n /\ i + 1 # 1 /\ a[i] = q[i + 1]
        BY <1>1
      <3> QED
        BY <1>1, <2>1, <3>1
    <2> QED
      BY <1>2, <2>2, <2>3 DEF ToSet
  <1> QED
    BY <1>3, <1>4 DEF a, x

(* One subscriber's part of InPublishOrder.                                   *)
Sorted(q, G) ==
    \A i \in DOMAIN q : /\ \A j \in 1..(i - 1) : q[j][1] = q[i][1] => q[j][2] < q[i][2]
                        /\ \A e \in G : e[1] = q[i][1] => e[2] < q[i][2]

LEMMA SortedAppend ==
  ASSUME NEW S, NEW q \in Seq(S), NEW x \in S, NEW G, Sorted(q, G),
         \A e \in G \cup ToSet(q) : e[1] = x[1] => e[2] < x[2]
  PROVE  Sorted(Append(q, x), G)
  <1> DEFINE a == Append(q, x)
             n == Len(q)
  <1>1. /\ a \in Seq(S) /\ Len(a) = n + 1 /\ n \in Nat /\ a[n + 1] = x
        /\ \A i \in 1..n : a[i] = q[i]
    BY AppendFacts
  <1>2. DOMAIN q = 1..n /\ DOMAIN a = 1..(n + 1)
    BY <1>1
  <1> HIDE DEF a, n
  <1>3. \A i \in 1..n : q[i] \in ToSet(q)
    BY <1>2 DEF ToSet
  <1>4. ASSUME NEW i \in 1..(n + 1)
        PROVE  /\ \A j \in 1..(i - 1) : a[j][1] = a[i][1] => a[j][2] < a[i][2]
               /\ \A e \in G : e[1] = a[i][1] => e[2] < a[i][2]
    <2>1. CASE i = n + 1
      <3>1. a[i] = x /\ \A j \in 1..(i - 1) : a[j] = q[j] /\ q[j] \in ToSet(q)
        BY <1>1, <1>3, <2>1
      <3> QED
        BY <3>1
    <2>2. CASE i # n + 1
      <3>1. i \in 1..n /\ a[i] = q[i] /\ \A j \in 1..(i - 1) : a[j] = q[j]
        BY <1>1, <2>2
      <3> QED
        BY <1>2, <3>1 DEF Sorted
    <2> QED
      BY <2>1, <2>2
  <1>5. Sorted(a, G)
    BY <1>2, <1>4 DEF Sorted
  <1> QED
    BY <1>5 DEF a

LEMMA SortedTail ==
  ASSUME NEW S, NEW q \in Seq(S), NEW G, q # <<>>, Sorted(q, G)
  PROVE  Sorted(Tail(q), G \cup {Head(q)})
  <1> DEFINE a == Tail(q)
             x == Head(q)
             n == Len(q)
  <1>1. /\ a \in Seq(S) /\ Len(a) = n - 1 /\ n \in Nat \ {0} /\ x = q[1]
        /\ \A i \in 1..(n - 1) : a[i] = q[i + 1]
    BY TailFacts
  <1>2. DOMAIN q = 1..n /\ DOMAIN a = 1..(n - 1)
    BY <1>1
  <1> HIDE DEF a, x, n
  <1>3. ASSUME NEW i \in 1..(n - 1)
        PROVE  /\ \A j \in 1..(i - 1) : a[j][1] = a[i][1] => a[j][2] < a[i][2]
               /\ \A e \in G \cup {x} : e[1] = a[i][1] => e[2] < a[i][2]
    <2>1. i + 1 \in DOMAIN q /\ a[i] = q[i + 1] /\ 1 \in 1..((i + 1) - 1)
      BY <1>1, <1>2
    <2>2. \A j \in 1..(i - 1) : j + 1 \in 1..((i + 1) - 1) /\ a[j] = q[j + 1]
      BY <1>1
    <2>3. /\ \A j \in 1..((i + 1) - 1) : q[j][1] = q[i + 1][1] => q[j][2] < q[i + 1][2]
          /\ \A e \in G : e[1] = q[i + 1][1] => e[2] < q[i + 1][2]
      BY <2>1 DEF Sorted
    <2> QED
      BY <1>1, <2>1, <2>2, <2>3
  <1>4. Sorted(a, G \cup {x})
    BY <1>2, <1>3 DEF Sorted
  <1> QED
    BY <1>4 DEF a, x

-----------------------------------------------------------------------------
(* What delivery rests on: the accounting, and that the event a publisher is  *)
(* offering is newer than all it has offered, and not yet at those channels   *)
(* that are still to be offered it.                                           *)
Accounted == \A s \in Subscribers :
    owed[s] = got[s] \cup lost[s] \cup ToSet(buf[s]) \cup Pending(s)

OnceEach == \A s \in Subscribers : got[s] \cap ToSet(buf[s]) = {} /\ IsInjective(buf[s])

Known == \A s \in Subscribers : \A e \in owed[s] : e[2] <= sent[e[1]]

Offering == \A p \in Publishers :
    /\ IsInjective(todo[p])
    /\ \A s \in ToSet(todo[p]) : Event(p) \notin got[s] \cup ToSet(buf[s])

Ended == \A s \in Subscribers : stopped[s] => status[s] = "closed" /\ buf[s] = <<>>

InOrder == \A s \in Subscribers : Sorted(buf[s], got[s])

DInv == Accounted /\ OnceEach /\ Known /\ Offering /\ Ended /\ InOrder

LEMMA InitDInv == BusInit => DInv
  <1> SUFFICES ASSUME BusInit PROVE DInv
    OBVIOUS
  <1>1. /\ \A p \in Publishers : todo[p] = <<>>
        /\ \A s \in Subscribers : /\ buf[s] = <<>> /\ ~stopped[s]
                                  /\ owed[s] = {} /\ got[s] = {} /\ lost[s] = {}
    BY DEF BusInit
  <1>2. ToSet(<<>>) = {} /\ IsInjective(<<>>) /\ \A G : Sorted(<<>>, G)
    BY NoneInEmpty DEF IsInjective, Sorted
  <1>3. \A s \in Subscribers : Pending(s) = {}
    BY <1>1, <1>2 DEF Pending
  <1>4. Accounted /\ OnceEach /\ Known
    BY <1>1, <1>2, <1>3 DEF Accounted, OnceEach, Known
  <1>5. Offering /\ Ended /\ InOrder
    BY <1>1, <1>2 DEF Offering, Ended, InOrder
  <1> QED
    BY <1>4, <1>5 DEF DInv

(* A Publish that begins brings an event no one has seen.                     *)
LEMMA RLockDelivers ==
  ASSUME IInv, DInv, NEW p \in Publishers, NEW t \in Topics, RLock(p, t)
  PROVE  DInv'
  <1> USE DEF IInv, DInv
  <1> DEFINE x == <<p, sent[p] + 1>>
             L == ToSet(subscribers[t])
  <1>1. UNCHANGED <<subscribers, buf, status, stopped, got, lost>>
    BY DEF RLock
  <1>2. /\ sent[p] \in Nat /\ sent'[p] = sent[p] + 1 /\ Event(p)' = x
        /\ \A q \in Publishers : q # p => sent'[q] = sent[q] /\ Event(q)' = Event(q)
                                         /\ todo'[q] = todo[q]
    BY DEF RLock, Shape, Event
  <1>3. todo'[p] = subscribers[t] /\ todo[p] = <<>> /\ ToSet(todo[p]) = {}
    BY NoneInEmpty DEF RLock, Shape, Loops
  <1>4. \A s \in Subscribers : owed'[s] = IF s \in L THEN owed[s] \cup {x} ELSE owed[s]
    BY DEF RLock
  <1>5. \A s \in Subscribers : Pending(s)' = IF s \in L THEN Pending(s) \cup {x} ELSE Pending(s)
    <2> SUFFICES ASSUME NEW s \in Subscribers
                 PROVE  Pending(s)' = IF s \in L THEN Pending(s) \cup {x} ELSE Pending(s)
      OBVIOUS
    <2>1. \A e : e \in Pending(s) <=> \E q \in Publishers : s \in ToSet(todo[q]) /\ e = Event(q)
      BY DEF Pending
    <2>2. \A e : e \in Pending(s)' <=> \E q \in Publishers : s \in ToSet(todo'[q]) /\ e = Event(q)'
      BY DEF Pending
    <2>3. \A q \in Publishers : q # p => (s \in ToSet(todo'[q]) <=> s \in ToSet(todo[q]))
                                         /\ Event(q)' = Event(q)
      BY <1>2
    <2>4. (s \in ToSet(todo'[p]) <=> s \in L) /\ s \notin ToSet(todo[p]) /\ Event(p)' = x
      BY <1>2, <1>3
    <2> HIDE DEF x, L
    <2>5. \A e : e \in Pending(s)' <=> e \in Pending(s) \/ (s \in L /\ e = x)
      BY <2>1, <2>2, <2>3, <2>4
    <2> QED
      BY <2>5
  <1>6. Accounted'
    BY <1>1, <1>4, <1>5 DEF Accounted
  <1>7. OnceEach' /\ Ended' /\ InOrder'
    BY <1>1 DEF OnceEach, Ended, InOrder
  <1>8. Known'
    <2> SUFFICES ASSUME NEW s \in Subscribers, NEW e \in owed'[s] PROVE e[2] <= sent'[e[1]]
      BY DEF Known
    <2>1. CASE e \in owed[s]
      <3>1. e \in Events /\ e[1] \in Publishers /\ e[2] \in Nat /\ e[2] <= sent[e[1]]
        BY <2>1, BusAssumption DEF Shape, Events, Known
      <3> QED
        BY <1>2, <3>1
    <2>2. CASE e = x
      BY <1>2, <2>2
    <2> QED
      BY <1>4, <2>1, <2>2
  <1>9. Offering'
    <2>1. IsInjective(subscribers[t])
      <3>1. \A i, j \in DOMAIN subscribers[t] : subscribers[t][i] = subscribers[t][j] => i = j
        BY DEF RegisteredIffOpen
      <3> QED
        BY <3>1 DEF IsInjective
    <2>2. \A s \in Subscribers : x \notin got[s] \cup ToSet(buf[s])
      <3> SUFFICES ASSUME NEW s \in Subscribers, x \in owed[s] PROVE FALSE
        BY DEF Accounted
      <3>1. x[2] <= sent[x[1]] /\ x[1] = p /\ x[2] = sent[p] + 1
        BY DEF Known
      <3> QED
        BY <1>2, <3>1
    <2>3. L \subseteq Subscribers
      BY InToSet DEF Shape
    <2>4. /\ IsInjective(todo'[p])
          /\ \A s \in ToSet(todo'[p]) : Event(p)' \notin got'[s] \cup ToSet(buf'[s])
      BY <1>1, <1>2, <1>3, <2>1, <2>2, <2>3
    <2>5. ASSUME NEW q \in Publishers, q # p
          PROVE  /\ IsInjective(todo'[q])
                 /\ \A s \in ToSet(todo'[q]) : Event(q)' \notin got'[s] \cup ToSet(buf'[s])
      BY <1>1, <1>2, <2>5 DEF Offering
    <2> QED
      BY <2>4, <2>5 DEF Offering
  <1> QED
    BY <1>6, <1>7, <1>8, <1>9

(* The publisher's next channel is offered its event: sent or dropped, it is  *)
(* no longer pending there.                                                   *)
LEMMA OfferDelivers ==
  ASSUME IInv, DInv, NEW p \in Publishers, Offer(p)
  PROVE  DInv'
  <1> USE DEF IInv, DInv
  <1> DEFINE x == Event(p)
  <1>1. todo[p] \in Seq(Subscribers) /\ todo[p] # <<>> /\ IsInjective(todo[p])
    BY DEF Offer, Shape, Offering
  <1>0. PICK s \in Subscribers : s = Head(todo[p])
    BY <1>1, InTail
  <1>2. /\ s \in Subscribers /\ ToSet(todo[p]) = {s} \cup ToSet(Tail(todo[p]))
        /\ s \notin ToSet(Tail(todo[p])) /\ IsInjective(Tail(todo[p]))
        /\ s \in ToSet(todo[p])
    BY <1>0, <1>1, InTail, OutOfTail
  <1>3. x \in Events /\ x = <<p, sent[p]>> /\ x[1] = p /\ x[2] = sent[p] /\ sent[p] \in Nat
    BY <1>1, BusAssumption DEF Event, Events, Loops, Shape
  <1>4. UNCHANGED <<subscribers, status, stopped, sent, publishing, owed, got>>
    BY DEF Offer
  <1>5. \A q \in Publishers : Event(q)' = Event(q) /\ (q # p => Event(q) # x)
    BY <1>4 DEF Event
  <1>6. todo'[p] = Tail(todo[p]) /\ \A q \in Publishers : q # p => todo'[q] = todo[q]
    BY DEF Offer, Shape
  <1>7. \/ /\ lost' = lost /\ buf'[s] = Append(buf[s], x)
           /\ \A r \in Subscribers : r # s => buf'[r] = buf[r]
        \/ /\ buf' = buf /\ lost'[s] = lost[s] \cup {x}
           /\ \A r \in Subscribers : r # s => lost'[r] = lost[r]
    BY <1>0, <1>2 DEF Offer, Shape
  <1>8. buf[s] \in Seq(Events) /\ x \notin got[s] \cup ToSet(buf[s])
    BY <1>2 DEF Shape, Offering
  <1>9. ToSet(Append(buf[s], x)) = ToSet(buf[s]) \cup {x} /\ IsInjective(Append(buf[s], x))
    <2>1. IsInjective(buf[s])
      BY <1>2 DEF OnceEach
    <2> HIDE DEF x
    <2>2. x \in Events /\ buf[s] \in Seq(Events) /\ x \notin ToSet(buf[s])
      BY <1>3, <1>8
    <2> QED
      BY <2>1, <2>2, InAppend
  <1> HIDE DEF x
  <1>10. x \in Pending(s) /\ Pending(s)' \cup {x} = Pending(s)
         /\ \A r \in Subscribers : r # s => Pending(r)' = Pending(r)
    <2>1. \A r, e : /\ e \in Pending(r) <=> \E q \in Publishers : r \in ToSet(todo[q]) /\ e = Event(q)
                    /\ e \in Pending(r)' <=> \E q \in Publishers : r \in ToSet(todo'[q]) /\ e = Event(q)
      BY <1>5 DEF Pending
    <2>2. \A r \in Subscribers : /\ r \in ToSet(todo'[p]) <=> r \in ToSet(todo[p]) /\ r # s
                                 /\ \A q \in Publishers : q # p => ToSet(todo'[q]) = ToSet(todo[q])
      BY <1>2, <1>6
    <2>3. \A r \in Subscribers : r # s => \A e : e \in Pending(r)' <=> e \in Pending(r)
      BY <2>1, <2>2
    <2>4. \A e : e \in Pending(s) <=> e \in Pending(s)' \/ e = x
      <3>1. x = Event(p) /\ s \in Subscribers /\ s \in ToSet(todo[p])
        BY <1>2 DEF x
      <3>2. \A q \in Publishers : s \in ToSet(todo[q]) <=> s \in ToSet(todo'[q]) \/ q = p
        BY <2>2, <3>1
      <3>3. \A e : /\ e \in Pending(s) <=> \E q \in Publishers : s \in ToSet(todo[q]) /\ e = Event(q)
                   /\ e \in Pending(s)' <=> \E q \in Publishers : s \in ToSet(todo'[q]) /\ e = Event(q)
        BY <2>1
      <3>4. \A q \in Publishers : q = p => Event(q) = x
        BY <3>1
      <3> SUFFICES ASSUME NEW e PROVE e \in Pending(s) <=> e \in Pending(s)' \/ e = x
        OBVIOUS
      <3>5. e \in Pending(s) => e \in Pending(s)' \/ e = x
        <4> SUFFICES ASSUME NEW q \in Publishers, s \in ToSet(todo[q]), e = Event(q)
                     PROVE  e \in Pending(s)' \/ e = x
          BY <3>3
        <4> QED
          BY <3>2, <3>3, <3>4
      <3>6. e \in Pending(s)' => e \in Pending(s)
        <4> SUFFICES ASSUME NEW q \in Publishers, s \in ToSet(todo'[q]), e = Event(q)
                     PROVE  e \in Pending(s)
          BY <3>3
        <4> QED
          BY <3>2, <3>3
      <3>7. x \in Pending(s)
        BY <3>1, <3>3
      <3> QED
        BY <3>5, <3>6, <3>7
    <2> QED
      BY <2>3, <2>4
  <1>11. Accounted'
    <2>1. ASSUME NEW r \in Subscribers
          PROVE  owed'[r] = got'[r] \cup lost'[r] \cup ToSet(buf'[r]) \cup Pending(r)'
      <3>1. owed[r] = got[r] \cup lost[r] \cup ToSet(buf[r]) \cup Pending(r)
        BY DEF Accounted
      <3>2. CASE r = s
        <4>1. owed'[s] = owed[s] /\ got'[s] = got[s]
          BY <1>4
        <4>2. lost'[s] \cup ToSet(buf'[s]) = lost[s] \cup ToSet(buf[s]) \cup {x}
          BY <1>7, <1>9
        <4>3. Pending(s) = Pending(s)' \cup {x}
          BY <1>10
        <4>4. owed[s] = got[s] \cup lost[s] \cup ToSet(buf[s]) \cup Pending(s)
          BY <3>1, <3>2
        <4>5. owed'[s] = got'[s] \cup lost'[s] \cup ToSet(buf'[s]) \cup Pending(s)'
          BY <4>1, <4>2, <4>3, <4>4
        <4> QED
          BY <3>2, <4>5
      <3>3. CASE r # s
        BY <1>4, <1>7, <1>10, <3>1, <3>3
      <3> QED
        BY <3>2, <3>3
    <2> QED
      BY <2>1 DEF Accounted
  <1>12. OnceEach'
    BY <1>2, <1>4, <1>7, <1>8, <1>9 DEF OnceEach
  <1>13. Known'
    BY <1>4 DEF Known
  <1>14. Offering'
    <2>1. ASSUME NEW q \in Publishers
          PROVE  /\ IsInjective(todo'[q])
                 /\ \A r \in ToSet(todo'[q]) : Event(q)' \notin got'[r] \cup ToSet(buf'[r])
      <3>1. IsInjective(todo'[q]) /\ ToSet(todo'[q]) \subseteq ToSet(todo[q])
            /\ ToSet(todo[q]) \subseteq Subscribers
        BY <1>2, <1>6, InToSet DEF Offering, Shape
      <3>2. ASSUME NEW r \in ToSet(todo'[q])
            PROVE  Event(q)' \notin got'[r] \cup ToSet(buf'[r])
        <4>1. Event(q)' = Event(q) /\ Event(q) \notin got[r] \cup ToSet(buf[r]) /\ got'[r] = got[r]
              /\ r \in Subscribers
          BY <1>4, <1>5, <3>1 DEF Offering
        <4>2. CASE r = s
          <5>1. q # p
            BY <1>2, <1>6, <4>2
          <5> QED
            BY <1>5, <1>7, <1>9, <4>1, <4>2, <5>1
        <4>3. CASE r # s
          BY <1>7, <4>1, <4>3
        <4> QED
          BY <4>2, <4>3
      <3> QED
        BY <3>1, <3>2
    <2> QED
      BY <2>1 DEF Offering
  <1>15. Ended'
    <2>1. status[s] = "open"
      BY <1>2 DEF NoSendOnClosed
    <2> QED
      BY <1>4, <1>7, <2>1 DEF Ended
  <1>16. InOrder'
    <2>1. \A e \in got[s] \cup ToSet(buf[s]) : e[1] = x[1] => e[2] < x[2]
      <3> SUFFICES ASSUME NEW e \in got[s] \cup ToSet(buf[s]), e[1] = x[1] PROVE e[2] < x[2]
        OBVIOUS
      <3>1. e \in owed[s] /\ e # x
        BY <1>2, <1>8 DEF Accounted
      <3>2. e \in Events
        BY <1>2, <3>1 DEF Shape
      <3>3. e = <<e[1], e[2]>> /\ e[2] \in Nat
        BY <3>2, BusAssumption DEF Events
      <3>4. e[2] <= sent[e[1]]
        BY <1>2, <3>1 DEF Known
      <3> QED
        BY <1>3, <3>1, <3>3, <3>4
    <2>2. Sorted(buf[s], got[s])
      BY <1>2 DEF InOrder
    <2>3. Sorted(Append(buf[s], x), got[s])
      BY <1>3, <1>8, <2>1, <2>2, SortedAppend
    <2> QED
      BY <1>2, <1>4, <1>7, <2>3 DEF InOrder
  <1> QED
    BY <1>11, <1>12, <1>13, <1>14, <1>15, <1>16

LEMMA ReceiveDelivers ==
  ASSUME IInv, DInv, NEW s \in Subscribers, Receive(s)
  PROVE  DInv'
  <1> USE DEF IInv, DInv
  <1> DEFINE x == Head(buf[s])
             b == Tail(buf[s])
  <1>1. buf[s] \in Seq(Events) /\ buf[s] # <<>> /\ IsInjective(buf[s]) /\ Sorted(buf[s], got[s])
    BY DEF Receive, Shape, OnceEach, InOrder
  <1>2. /\ ToSet(buf[s]) = {x} \cup ToSet(b) /\ IsInjective(b) /\ x \notin ToSet(b)
    BY <1>1, OutOfTail
  <1>3. Sorted(b, got[s] \cup {x})
    BY <1>1, SortedTail
  <1>4. UNCHANGED <<subscribers, status, stopped, sent, todo, publishing, owed, lost>>
    BY DEF Receive, publisher
  <1>5. /\ buf'[s] = b /\ got'[s] = got[s] \cup {x}
        /\ \A r \in Subscribers : r # s => buf'[r] = buf[r] /\ got'[r] = got[r]
    BY DEF Receive, Shape
  <1> HIDE DEF x, b
  <1>6. \A r \in Subscribers : got'[r] \cup ToSet(buf'[r]) = got[r] \cup ToSet(buf[r])
    <2> TAKE r \in Subscribers
    <2>1. CASE r = s
      BY <1>2, <1>5, <2>1
    <2>2. CASE r # s
      BY <1>5, <2>2
    <2> QED
      BY <2>1, <2>2
  <1>7. (\A q : Event(q)' = Event(q)) /\ \A r : Pending(r)' = Pending(r)
    BY <1>4 DEF Pending, Event
  <1>8. Accounted'
    <2>1. ASSUME NEW r \in Subscribers
          PROVE  owed'[r] = got'[r] \cup lost'[r] \cup ToSet(buf'[r]) \cup Pending(r)'
      <3>1. owed[r] = got[r] \cup lost[r] \cup ToSet(buf[r]) \cup Pending(r)
        BY DEF Accounted
      <3>2. got'[r] \cup ToSet(buf'[r]) = got[r] \cup ToSet(buf[r])
        BY <1>6
      <3>3. owed'[r] = owed[r] /\ lost'[r] = lost[r] /\ Pending(r)' = Pending(r)
        BY <1>4, <1>7
      <3> QED
        BY <3>1, <3>2, <3>3
    <2> QED
      BY <2>1 DEF Accounted
  <1>9. OnceEach'
    <2>1. \A r \in Subscribers : got[r] \cap ToSet(buf[r]) = {} /\ IsInjective(buf[r])
      BY DEF OnceEach
    <2>2. got'[s] \cap ToSet(buf'[s]) = {} /\ IsInjective(buf'[s])
      BY <1>2, <1>5, <2>1
    <2>3. \A r \in Subscribers : got'[r] \cap ToSet(buf'[r]) = {} /\ IsInjective(buf'[r])
      BY <1>5, <2>1, <2>2
    <2> QED
      BY <2>3 DEF OnceEach
  <1>10. Known'
    BY <1>4 DEF Known
  <1>11. Offering'
    <2>1. \A q \in Publishers : ToSet(todo[q]) \subseteq Subscribers
      BY InToSet DEF Shape
    <2> QED
      BY <1>4, <1>6, <1>7, <2>1 DEF Offering
  <1>12. Ended'
    BY <1>1, <1>4, <1>5 DEF Ended
  <1>13. InOrder'
    BY <1>3, <1>5 DEF InOrder
  <1> QED
    BY <1>8, <1>9, <1>10, <1>11, <1>12, <1>13

(* The steps that move no event: a channel that is closed stays closed.       *)
LEMMA OthersDeliver ==
  ASSUME IInv, DInv, UNCHANGED <<buf, sent, todo, owed, got, lost>>,
         \A s \in Subscribers : /\ status[s] = "closed" => status'[s] = "closed"
                                /\ stopped'[s] /\ ~stopped[s] => status[s] = "closed" /\ buf[s] = <<>>
  PROVE  DInv'
  <1>1. (\A q : Event(q)' = Event(q)) /\ \A r : Pending(r)' = Pending(r)
    BY DEF Pending, Event
  <1>2. Accounted' /\ OnceEach' /\ Known' /\ InOrder'
    BY <1>1 DEF DInv, Accounted, OnceEach, Known, InOrder
  <1>3. Offering'
    BY <1>1 DEF DInv, Offering
  <1>4. Ended'
    BY DEF DInv, Ended
  <1> QED
    BY <1>2, <1>3, <1>4 DEF DInv

LEMMA NextDelivers == IInv /\ DInv /\ [BusNext]_busVars => DInv'
  <1> SUFFICES ASSUME IInv, DInv, [BusNext]_busVars PROVE DInv'
    OBVIOUS
  <1>1. ASSUME NEW p \in Publishers, Publish(p) PROVE DInv'
    <2>1. CASE RUnlock(p)
      BY <2>1, OthersDeliver DEF RUnlock, history
    <2> QED
      BY <1>1, <2>1, RLockDelivers, OfferDelivers DEF Publish
  <1>2. ASSUME NEW s \in Subscribers, NEW t \in Topics, Subscribe(s, t)
        PROVE  DInv'
    BY <1>2, OthersDeliver DEF Subscribe, publisher, history, IInv, Shape
  <1>3. ASSUME NEW s \in Subscribers, NEW t \in Topics, Unsubscribe(s, t)
        PROVE  DInv'
    BY <1>3, OthersDeliver DEF Unsubscribe, publisher, history, IInv, Shape
  <1>4. CASE Close
    BY <1>4, OthersDeliver DEF Close, publisher, history, IInv, Shape
  <1>5. ASSUME NEW s \in Subscribers, Stop(s) PROVE DInv'
    BY <1>5, OthersDeliver DEF Stop, publisher, history, IInv, Shape
  <1>6. CASE UNCHANGED busVars
    BY <1>6, OthersDeliver DEF busVars, publisher, history
  <1> QED
    BY <1>1, <1>2, <1>3, <1>4, <1>5, <1>6, ReceiveDelivers DEF BusNext

(* No event is lost on the way, received twice or overtaken by a later one of *)
(* its publisher, for any number of them and whatever is unsubscribed and     *)
(* closed meanwhile.                                                          *)
THEOREM BusDelivers == BusSpec => []DeliversWhatIsOwed
  <1>1. IInv /\ DInv => DeliversWhatIsOwed
    <2> SUFFICES ASSUME IInv, DInv PROVE DeliversWhatIsOwed
      OBVIOUS
    <2>1. ASSUME NEW s \in Subscribers, stopped[s] PROVE owed[s] = got[s] \cup lost[s]
      <3>1. status[s] = "closed" /\ ToSet(buf[s]) = {}
        BY <2>1, NoneInEmpty DEF DInv, Ended
      <3>2. Pending(s) = {}
        BY <3>1 DEF IInv, NoSendOnClosed, Pending
      <3> QED
        BY <3>1, <3>2 DEF DInv, Accounted
    <2>2. EventsAccountedFor
      BY <2>1 DEF DInv, Accounted, OnceEach, EventsAccountedFor
    <2>3. InPublishOrder
      BY DEF DInv, InOrder, Sorted, InPublishOrder
    <2> QED
      BY <2>2, <2>3 DEF DeliversWhatIsOwed
  <1> QED
    BY <1>1, InitIInv, NextKeeps, InitDInv, NextDelivers, PTL DEF BusSpec
=============================================================================
